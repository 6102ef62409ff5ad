\* At most five goroutines negotiate; the counters follow from that.
SPECIFICATION FairSpec
CONSTANT MaxCalls = 5
INVARIANTS AnswerExpected NoLostChange
PROPERTIES ImplementsRenegotiation EveryChangeAgreed
CHECK_DEADLOCK FALSE

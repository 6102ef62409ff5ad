\* Signalling: two calls of negotiate(), 4 events of the browser and the networks, one candidate per transport.
\* Events: two tracks, a stream of the session and one of another.
\* Levels: three streams and list entries, two intervals of up to 3 loud packets.
SPECIFICATION Spec
CONSTANTS
  MaxCalls = 2
  MaxEvents = 4
  Candidates <- MCCandidates
  Track = {t1, t2}
  Observer = {o1, o2}
  Roommate = {o1}
  AudioStream = {s1, s2, s3}
  Threshold = 3
  Levels = {2, 9}
  Expected = 2
  MaxObserved = 3
  MaxListed = 3
  MaxIntervals = 2
INVARIANTS WaitsForSomething OwnAnswer CandidatesKept TracksKnown
PROPERTIES ImplementsNegotiation SpeakersTold
CHECK_DEADLOCK FALSE

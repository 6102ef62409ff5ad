--------------------------- MODULE RtspClientProofs ---------------------------
(***************************************************************************)
(* The safety properties of RtspClient and SfuClient, for any candidates    *)
(* and any number of pipelines and events.  The candidates depend on what   *)
(* the RTC does alone (CandidatesInv), the pipelines and the end of a client *)
(* on what the client does (ClosingInv).  At the end, the recordings of      *)
(* RecordStore, for any ring of files and any number of sessions, fragments, *)
(* failures and crashes (RecordInv).                                        *)
(***************************************************************************)
EXTENDS RtspClient, RecordStore, FiniteSetTheorems, SequenceTheorems,
        WellFoundedInduction, TLAPS

RtcTypeOK ==
  /\ rtc \in {"none", "open", "closed"}
  /\ signal \in {Off, Recv, Over}
                  \cup [at : {"send", "clear"}, t : Transport, msg : {"join", "answer", "offer"}]
  /\ join \in {"none", "sent", "answered", "refused", "ok"}
  /\ publish \in {"none", "waits", "done"} /\ due \in Nat
  /\ local \subseteq Transport /\ remote \subseteq Transport
  /\ sendQ \subseteq Candidate /\ sent \in [Candidate -> Nat]
  /\ ice \in [Transport -> {Idle} \cup [at : {"append", "send", "clear"}, c : Candidate]]
  /\ gathered \subseteq Candidate /\ raced \subseteq Candidate /\ sentTwice \subseteq Candidate

-----------------------------------------------------------------------------
\* Who is at the queue of a transport, and who has sent it.
AtQueue(t)  == signal.at \in {"send", "clear"} /\ signal.t = t
Clearing(t) == \/ signal.at = "clear" /\ signal.t = t
               \/ ice[t].at = "clear"
Calls(t, c) == ice[t] # Idle /\ ice[t].c = c

\* The loop is not running before the RTC is.
Started == rtc = "none" => signal = Off

\* Until the description is set nothing is sent.
Described ==
  \A t \in Transport \ remote :
    /\ ~AtQueue(t) /\ ice[t].at \in {"idle", "append"}
    /\ \A c \in CandidatesOf(t) : sent[c] = 0 /\ c \notin raced

\* A candidate is with its callback, in the queue or sent: a callback's is in
\* no queue and was not sent, and a queued one was sent only if who sent it
\* is about to empty the queue.
WithCallback ==
  \A t \in Transport, c \in Candidate : Calls(t, c) =>
    c \in CandidatesOf(t) /\ c \in gathered /\ c \notin sendQ /\ sent[c] = 0

NotYet == \A c \in Candidate \ gathered : sent[c] = 0 /\ c \notin sendQ

Somewhere ==
  \A t \in Transport : \A c \in CandidatesOf(t) :
    c \in gathered => sent[c] > 0 \/ c \in sendQ \/ c \in raced \/ Calls(t, c)

InQueue ==
  \A t \in Transport : \A c \in CandidatesOf(t) : c \in sendQ =>
    /\ Clearing(t) => sent[c] > 0 \/ c \in raced
    /\ sent[c] > 0 => Clearing(t)
    /\ t \in remote /\ ~AtQueue(t) => c \in raced

Once == \A c \in Candidate : sent[c] > 1 => c \in sentTwice

CandidatesInv ==
  RtcTypeOK /\ Started /\ Described /\ WithCallback /\ NotYet /\ Somewhere /\ InQueue /\ Once

-----------------------------------------------------------------------------
ClientTypeOK ==
  /\ connect \in {"new", "waits", "connected", "failed"}
  /\ dial \in {"no", "creates", "started", "handled", "done", "failed"}
  /\ place \in {"no", "places", "joins", "publishes", "stores", "done", "failed"}
  /\ state \in [Pipe -> {"none", "playing", "failing", "stopping", "ended"}]
  /\ handled \subseteq Pipe /\ pipeline \in Pipe \cup {0} /\ stray \subseteq Pipe
  /\ loop \in [at : {"idle", "other", "sleeps", "creates", "started", "stores"}, p : Pipe \cup {0}]
  /\ connector \in BOOLEAN /\ closed \in BOOLEAN /\ close \in {"idle", "connector", "pipeline"}
  /\ reader \in {"no", "reads", "ended"} /\ crashed \in BOOLEAN /\ events \in Nat

\* The loop replaces a pipeline of this client, and its new pipeline plays.
Replacing == loop.at \in {"sleeps", "creates", "started", "stores"}
Replaced(p) == loop.at \in {"started", "stores"} /\ loop.p = p
Live(p) == state[p] \in {"playing", "failing", "stopping"}

\* One pipeline of the client lives at a time, since the loop makes another
\* one only when the last has ended.
OneLive ==
  /\ \A p, q \in Pipe : Live(p) /\ Live(q) => p = q
  /\ Replacing => dial \in {"handled", "done"} /\ \A p \in Pipe : Live(p) => Replaced(p)
  /\ dial \in {"no", "creates", "failed"} => \A p \in Pipe : state[p] = "none"
  /\ dial \notin {"handled", "done"} => handled = {}
  /\ loop.at \in {"creates", "started", "stores"} => loop.p \in Pipe

\* Who answers for a pipeline that plays.
Answers ==
  \A p \in Playing : \/ p = pipeline \/ p \in stray \/ Replaced(p)
                     \/ p = 1 /\ dial \in {"started", "handled"}

\* How far Connect and close have come.
Progress ==
  /\ connect \in {"connected", "failed"} => /\ dial \in {"no", "done", "failed"}
                                            /\ place \in {"no", "done", "failed"}
  /\ connect = "new" => dial = "no" /\ place = "no"
  /\ closed => connect \in {"connected", "failed"}
  /\ close # "idle" => closed
  /\ place = "done" => connector
  /\ rtc = "open" => place \notin {"no", "places"}

Stopped ==
  closed => /\ Attempt \subseteq stray
            /\ close = "idle" => Playing \subseteq stray
            /\ close # "connector" /\ rtc = "open" => place = "failed"

ClosingInv == ClientTypeOK /\ OneLive /\ Answers /\ Progress /\ Stopped

-----------------------------------------------------------------------------
(* The RTC alone: what its own steps and the client's calls do to it.      *)

RtcNext == NewRTC \/ Join \/ Publish \/ CloseRTC \/ RtcEvent \/ RtcStep

\* A candidate belongs to one transport.
LEMMA Belongs ==
  /\ \A t \in Transport : CandidatesOf(t) \subseteq Candidate
  /\ \A t, u \in Transport : \A c \in CandidatesOf(t) : c \in CandidatesOf(u) => t = u
  /\ \A c \in Candidate : \E t \in Transport : c \in CandidatesOf(t)
BY CandidateAssumption DEF Transport, CandidatesOf, Candidate

\* What the callback of a transport and the loop may be doing.
LEMMA WhoIsWhere ==
  ASSUME RtcTypeOK
  PROVE  /\ \A t \in Transport : /\ ice[t].at \in {"idle", "append", "send", "clear"}
                                 /\ ice[t] = Idle <=> ice[t].at = "idle"
                                 /\ ice[t] # Idle => ice[t].c \in Candidate
         /\ signal.at \in {"off", "recv", "over", "send", "clear"}
         /\ signal.at \in {"send", "clear"} => signal.t \in Transport
<1>1. \A t \in Transport : ice[t] \in {Idle} \cup [at : {"append", "send", "clear"}, c : Candidate]
  BY DEF RtcTypeOK
<1>2. \A t \in Transport : /\ ice[t].at \in {"idle", "append", "send", "clear"}
                           /\ ice[t] = Idle <=> ice[t].at = "idle"
                           /\ ice[t] # Idle => ice[t].c \in Candidate
  BY <1>1 DEF Idle
<1>3. /\ signal.at \in {"off", "recv", "over", "send", "clear"}
      /\ signal.at \in {"send", "clear"} => signal.t \in Transport
  BY DEF RtcTypeOK, Off, Recv, Over
<1> QED
  BY <1>2, <1>3

\* The types of the RTC.
LEMMA RtcTypeStep == RtcTypeOK /\ [RtcNext]_rtcVars => RtcTypeOK'
<1> SUFFICES ASSUME RtcTypeOK, [RtcNext]_rtcVars PROVE RtcTypeOK'
  OBVIOUS
<1>1. ASSUME NewRTC PROVE RtcTypeOK'
  BY <1>1 DEF NewRTC, RtcTypeOK, Transport
<1>2. ASSUME Join PROVE RtcTypeOK'
  BY <1>2 DEF Join, RtcTypeOK, Transport
<1>3. ASSUME Publish PROVE RtcTypeOK'
  BY <1>3 DEF Publish, RtcTypeOK, Transport
<1>4. ASSUME CloseRTC PROVE RtcTypeOK'
  BY <1>4 DEF CloseRTC, RtcTypeOK, Transport
<1>5. ASSUME RecvFails PROVE RtcTypeOK'
  BY <1>5 DEF RecvFails, SignalOnly, RtcTypeOK, Transport
<1>6. ASSUME OfferArrives PROVE RtcTypeOK'
  BY <1>6 DEF OfferArrives, SignalOnly, Handling, RtcTypeOK, Transport
<1>7. ASSUME NEW t \in Transport, NEW c \in CandidatesOf(t), Gather(t, c) PROVE RtcTypeOK'
  <2>1. ice' \in [Transport -> {Idle} \cup [at : {"append", "send", "clear"}, c : Candidate]] /\ c \in Candidate
    BY <1>7, Belongs DEF Gather, Calling, RtcTypeOK
  <2> QED
    BY <1>7, <2>1 DEF Gather, RtcTypeOK
<1>8. ASSUME JoinAnswered PROVE RtcTypeOK'
  BY <1>8 DEF JoinAnswered, SignalOnly, Handling, RtcTypeOK, Transport
<1>9. ASSUME JoinRefused PROVE RtcTypeOK'
  BY <1>9 DEF JoinRefused, SignalOnly, RtcTypeOK, Transport
<1>10. ASSUME OfferAnswered PROVE RtcTypeOK'
  BY <1>10 DEF OfferAnswered, Handling, RtcTypeOK, Transport
<1>11. ASSUME AnswerRefused PROVE RtcTypeOK'
  BY <1>11 DEF AnswerRefused, RtcTypeOK, Transport
<1>12. ASSUME SendQueue PROVE RtcTypeOK'
  <2>1. signal' \in [at : {"send", "clear"}, t : Transport, msg : {"join", "answer", "offer"}]
    BY <1>12 DEF SendQueue, RtcTypeOK, Off, Recv, Over
  <2>2. sent' \in [Candidate -> Nat] /\ sentTwice' \subseteq Candidate
    BY <1>12 DEF SendQueue, Send, Queue, RtcTypeOK
  <2> QED
    BY <1>12, <2>1, <2>2 DEF SendQueue, RtcTypeOK
<1>13. ASSUME ClearQueue PROVE RtcTypeOK'
  BY <1>13 DEF ClearQueue, RtcTypeOK, Transport
<1>14. ASSUME Negotiates PROVE RtcTypeOK'
  BY <1>14 DEF Negotiates, RtcTypeOK, Transport
<1>15. ASSUME NEW t \in Transport, AppendCandidate(t) PROVE RtcTypeOK'
  <2>1. ice[t].c \in Candidate
    BY <1>15, WhoIsWhere DEF AppendCandidate
  <2>2. ice' \in [Transport -> {Idle} \cup [at : {"append", "send", "clear"}, c : Candidate]]
    BY <1>15 DEF AppendCandidate, RtcTypeOK
  <2> QED
    BY <1>15, <2>1, <2>2 DEF AppendCandidate, RtcTypeOK
<1>16. ASSUME NEW t \in Transport, SendQueued(t) PROVE RtcTypeOK'
  <2>1. ice[t].c \in Candidate
    BY <1>16, WhoIsWhere DEF SendQueued
  <2>2. ice' \in [Transport -> {Idle} \cup [at : {"append", "send", "clear"}, c : Candidate]]
    BY <1>16, <2>1 DEF SendQueued, Calling, RtcTypeOK
  <2>3. sent' \in [Candidate -> Nat] /\ sentTwice' \subseteq Candidate
    BY <1>16 DEF SendQueued, Send, Queue, RtcTypeOK
  <2> QED
    BY <1>16, <2>2, <2>3 DEF SendQueued, RtcTypeOK
<1>17. ASSUME NEW t \in Transport, SendCandidate(t) PROVE RtcTypeOK'
  <2>1. ice[t].c \in Candidate
    BY <1>17, WhoIsWhere DEF SendCandidate
  <2>2. ice' \in [Transport -> {Idle} \cup [at : {"append", "send", "clear"}, c : Candidate]]
    BY <1>17 DEF SendCandidate, RtcTypeOK
  <2>3. sent' \in [Candidate -> Nat] /\ sentTwice' \subseteq Candidate
    BY <1>17, <2>1 DEF SendCandidate, Send, RtcTypeOK
  <2> QED
    BY <1>17, <2>2, <2>3 DEF SendCandidate, RtcTypeOK
<1>18. ASSUME UNCHANGED rtcVars PROVE RtcTypeOK'
  BY <1>18 DEF rtcVars, rtcVars, RtcTypeOK
<1> QED
  BY <1>1, <1>2, <1>3, <1>4, <1>5, <1>6, <1>7, <1>8, <1>9, <1>10, <1>11, <1>12, <1>13,
    <1>14, <1>15, <1>16, <1>17, <1>18 DEF RtcNext, RtcEvent, RtcStep

\* Steps that are at no queue.
LEMMA QueuesKept ==
  ASSUME CandidatesInv, RtcTypeOK', Started',
         UNCHANGED <<remote, sendQ, ice, sent, gathered, raced, sentTwice>>,
         \/ UNCHANGED signal
         \/ signal \in {Off, Recv} /\ signal' \in {Recv, Over}
  PROVE  CandidatesInv'
<1>1. \A t \in Transport : /\ AtQueue(t)' <=> AtQueue(t)
                           /\ Clearing(t)' <=> Clearing(t)
  BY DEF AtQueue, Clearing, Off, Recv, Over
<1>2. \A t \in Transport, c \in Candidate : Calls(t, c)' <=> Calls(t, c)
  BY DEF Calls
<1>3. Described' /\ NotYet' /\ Once'
  BY <1>1 DEF CandidatesInv, Described, NotYet, Once
<1>4. WithCallback'
  BY <1>2 DEF CandidatesInv, WithCallback
<1>5. Somewhere'
  BY <1>2, Belongs DEF CandidatesInv, Somewhere
<1>6. InQueue'
  BY <1>1 DEF CandidatesInv, InQueue
<1> QED
  BY <1>3, <1>4, <1>5, <1>6 DEF CandidatesInv

\* The loop has set a description, and is about to send the queue.
LEMMA QueueTaken ==
  ASSUME CandidatesInv, RtcTypeOK', Started', NEW u \in Transport, NEW m,
         signal = Recv, signal' = Handling("send", u, m), remote' = remote \cup {u},
         UNCHANGED <<sendQ, ice, sent, gathered, raced, sentTwice>>
  PROVE  CandidatesInv'
<1>1. \A t \in Transport : /\ AtQueue(t)' <=> t = u
                           /\ ~AtQueue(t)
                           /\ Clearing(t)' <=> Clearing(t)
  BY DEF AtQueue, Clearing, Handling, Recv
<1>2. \A t \in Transport, c \in Candidate : Calls(t, c)' <=> Calls(t, c)
  BY DEF Calls
<1>3. Described' /\ NotYet' /\ Once'
  BY <1>1 DEF CandidatesInv, Described, NotYet, Once
<1>4. WithCallback'
  BY <1>2 DEF CandidatesInv, WithCallback
<1>5. Somewhere'
  BY <1>2, Belongs DEF CandidatesInv, Somewhere
<1>6. InQueue'
  BY <1>1 DEF CandidatesInv, InQueue
<1> QED
  BY <1>3, <1>4, <1>5, <1>6 DEF CandidatesInv

\* A candidate is never lost between its callback and the SFU, and sent
\* once unless both senders were at the queue.
LEMMA CandidatesStep == CandidatesInv /\ [RtcNext]_rtcVars => CandidatesInv'
<1> SUFFICES ASSUME CandidatesInv, [RtcNext]_rtcVars PROVE CandidatesInv'
  OBVIOUS
<1>T. RtcTypeOK'
  BY RtcTypeStep DEF CandidatesInv
<1> RtcTypeOK
  BY DEF CandidatesInv
<1>1. ASSUME NewRTC PROVE CandidatesInv'
  <2>1. Started' /\ UNCHANGED <<remote, sendQ, ice, sent, gathered, raced, sentTwice>>
    BY <1>1 DEF NewRTC, CandidatesInv, Started, Off, Recv, Over
  <2>2. \/ UNCHANGED signal
        \/ signal \in {Off, Recv} /\ signal' \in {Recv, Over}
    BY <1>1 DEF NewRTC, CandidatesInv, Started
  <2> QED
    BY <1>T, <2>1, <2>2, QueuesKept
<1>2. ASSUME Join PROVE CandidatesInv'
  <2>1. Started' /\ UNCHANGED <<remote, sendQ, ice, sent, gathered, raced, sentTwice>>
    BY <1>2 DEF Join, CandidatesInv, Started, Off, Recv, Over
  <2>2. \/ UNCHANGED signal
        \/ signal \in {Off, Recv} /\ signal' \in {Recv, Over}
    BY <1>2 DEF Join, CandidatesInv, Started
  <2> QED
    BY <1>T, <2>1, <2>2, QueuesKept
<1>3. ASSUME Publish PROVE CandidatesInv'
  <2>1. Started' /\ UNCHANGED <<remote, sendQ, ice, sent, gathered, raced, sentTwice>>
    BY <1>3 DEF Publish, CandidatesInv, Started, Off, Recv, Over
  <2>2. \/ UNCHANGED signal
        \/ signal \in {Off, Recv} /\ signal' \in {Recv, Over}
    BY <1>3 DEF Publish, CandidatesInv, Started
  <2> QED
    BY <1>T, <2>1, <2>2, QueuesKept
<1>4. ASSUME CloseRTC PROVE CandidatesInv'
  <2>1. Started' /\ UNCHANGED <<remote, sendQ, ice, sent, gathered, raced, sentTwice>>
    BY <1>4 DEF CloseRTC, CandidatesInv, Started, Off, Recv, Over
  <2>2. \/ UNCHANGED signal
        \/ signal \in {Off, Recv} /\ signal' \in {Recv, Over}
    BY <1>4 DEF CloseRTC, CandidatesInv, Started
  <2> QED
    BY <1>T, <2>1, <2>2, QueuesKept
<1>5. ASSUME RecvFails PROVE CandidatesInv'
  <2>1. Started' /\ UNCHANGED <<remote, sendQ, ice, sent, gathered, raced, sentTwice>>
    BY <1>5 DEF RecvFails, SignalOnly, CandidatesInv, Started, Off, Recv, Over
  <2>2. \/ UNCHANGED signal
        \/ signal \in {Off, Recv} /\ signal' \in {Recv, Over}
    BY <1>5 DEF RecvFails, SignalOnly, CandidatesInv, Started
  <2> QED
    BY <1>T, <2>1, <2>2, QueuesKept
<1>6. ASSUME OfferArrives PROVE CandidatesInv'
  <2>1. /\ signal = Recv /\ signal' = Handling("send", "sub", "offer")
        /\ remote' = remote \cup {"sub"} /\ "sub" \in Transport
        /\ UNCHANGED <<sendQ, ice, sent, gathered, raced, sentTwice>>
    BY <1>6 DEF OfferArrives, SignalOnly, Transport
  <2>2. Started'
    BY <1>6 DEF OfferArrives, SignalOnly, Handling, Started
  <2> QED
    BY <1>T, <2>1, <2>2, QueueTaken
<1>7. ASSUME NEW t \in Transport, NEW c \in CandidatesOf(t), Gather(t, c) PROVE CandidatesInv'
  <2>1. /\ rtc = "open" /\ c \notin gathered /\ gathered' = gathered \cup {c} /\ c \in Candidate
        /\ ice[t] = Idle /\ UNCHANGED <<rtc, signal, remote, sendQ, sent, raced, sentTwice>>
    BY <1>7, Belongs DEF Gather
  <2>2. /\ ice'[t].at \in {"send", "append"} /\ ice'[t].c = c /\ ice'[t] # Idle
        /\ t \notin remote => ice'[t].at = "append"
        /\ \A u \in Transport : u # t => ice'[u] = ice[u]
    BY <1>7 DEF Gather, Calling, Idle, RtcTypeOK
  <2>3. /\ \A u \in Transport : (AtQueue(u)' <=> AtQueue(u)) /\ (Clearing(u)' <=> Clearing(u))
        /\ \A u \in Transport \ remote : u # t => ice'[u].at \in {"idle", "append"}
    BY <2>1, <2>2 DEF AtQueue, Clearing, Idle, CandidatesInv, Described
  <2>4. /\ \A u \in Transport, e \in Candidate : u # t => (Calls(u, e)' <=> Calls(u, e))
        /\ \A e \in Candidate : ~Calls(t, e) /\ (Calls(t, e)' <=> e = c)
    BY <2>1, <2>2 DEF Calls
  <2>11. Started'
    BY <2>1 DEF Started
  <2>5. Described'
    BY <2>1, <2>2, <2>3 DEF CandidatesInv, Described
  <2>6. WithCallback'
    BY <2>1, <2>2, <2>4 DEF CandidatesInv, WithCallback, NotYet
  <2>7. NotYet'
    BY <2>1 DEF CandidatesInv, NotYet
  <2>8. Somewhere'
    BY <2>1, <2>2, <2>4, Belongs DEF CandidatesInv, Somewhere
  <2>9. InQueue'
    BY <2>1, <2>3 DEF CandidatesInv, InQueue
  <2>10. Once'
    BY <2>1 DEF CandidatesInv, Once
  <2> QED
    BY <1>T, <2>11, <2>5, <2>6, <2>7, <2>8, <2>9, <2>10 DEF CandidatesInv
<1>8. ASSUME JoinAnswered PROVE CandidatesInv'
  <2>1. /\ signal = Recv /\ signal' = Handling("send", "pub", "join")
        /\ remote' = remote \cup {"pub"} /\ "pub" \in Transport
        /\ UNCHANGED <<sendQ, ice, sent, gathered, raced, sentTwice>>
    BY <1>8 DEF JoinAnswered, SignalOnly, Transport
  <2>2. Started'
    BY <1>8 DEF JoinAnswered, SignalOnly, Handling, Started
  <2> QED
    BY <1>T, <2>1, <2>2, QueueTaken
<1>9. ASSUME JoinRefused PROVE CandidatesInv'
  <2>1. Started' /\ UNCHANGED <<remote, sendQ, ice, sent, gathered, raced, sentTwice>>
    BY <1>9 DEF JoinRefused, SignalOnly, CandidatesInv, Started, Off, Recv, Over
  <2>2. \/ UNCHANGED signal
        \/ signal \in {Off, Recv} /\ signal' \in {Recv, Over}
    BY <1>9 DEF JoinRefused, SignalOnly, CandidatesInv, Started
  <2> QED
    BY <1>T, <2>1, <2>2, QueuesKept
<1>10. ASSUME OfferAnswered PROVE CandidatesInv'
  <2>1. /\ signal = Recv /\ signal' = Handling("send", "pub", "answer")
        /\ remote' = remote \cup {"pub"} /\ "pub" \in Transport
        /\ UNCHANGED <<sendQ, ice, sent, gathered, raced, sentTwice>>
    BY <1>10 DEF OfferAnswered, SignalOnly, Transport
  <2>2. Started'
    BY <1>10 DEF OfferAnswered, Handling, Started
  <2> QED
    BY <1>T, <2>1, <2>2, QueueTaken
<1>11. ASSUME AnswerRefused PROVE CandidatesInv'
  <2>1. Started' /\ UNCHANGED <<remote, sendQ, ice, sent, gathered, raced, sentTwice>>
    BY <1>11 DEF AnswerRefused, CandidatesInv, Started, Off, Recv, Over
  <2>2. \/ UNCHANGED signal
        \/ signal \in {Off, Recv} /\ signal' \in {Recv, Over}
    BY <1>11 DEF AnswerRefused, CandidatesInv, Started
  <2> QED
    BY <1>T, <2>1, <2>2, QueuesKept
<1>12. ASSUME SendQueue PROVE CandidatesInv'
  <2>0. PICK t \in Transport : signal.t = t
    BY <1>12, WhoIsWhere DEF SendQueue
  <2>1. /\ signal.at = "send" /\ sentTwice \subseteq sentTwice'
        /\ ice[t].at = "clear" => Queue(t) \subseteq sentTwice'
        /\ UNCHANGED <<rtc, remote, sendQ, ice, gathered, raced>>
    BY <1>12, <2>0 DEF SendQueue, Send, Sending
  <2>2. \A c \in Candidate : /\ c \in CandidatesOf(t) /\ c \in sendQ => sent'[c] = sent[c] + 1
                             /\ ~(c \in CandidatesOf(t) /\ c \in sendQ) => sent'[c] = sent[c]
                             /\ sent[c] \in Nat
    BY <1>12, <2>0 DEF SendQueue, Send, Queue, RtcTypeOK
  <2>3. signal'.at = "clear" /\ signal'.t = t
    BY <1>12, <2>0 DEF SendQueue, RtcTypeOK, Off, Recv, Over
  <2>4. /\ \A u \in Transport : /\ AtQueue(u)' <=> AtQueue(u)
                                /\ Clearing(u)' <=> Clearing(u) \/ u = t
        /\ t \in remote
    BY <2>0, <2>1, <2>3 DEF AtQueue, Clearing, CandidatesInv, Described
  <2>5. \A u \in Transport, c \in Candidate : Calls(u, c)' <=> Calls(u, c)
    BY <2>1 DEF Calls
  <2>6. \A c \in Queue(t) : sent[c] > 0 => c \in sentTwice'
    BY <2>0, <2>1 DEF CandidatesInv, InQueue, Queue, Clearing
  <2>13. Started'
    BY <2>1 DEF CandidatesInv, Started, Off
  <2>7. Described'
    BY <2>1, <2>2, <2>4, Belongs DEF CandidatesInv, Described
  <2>8. WithCallback'
    BY <2>1, <2>2, <2>5, Belongs DEF CandidatesInv, WithCallback
  <2>9. NotYet'
    BY <2>1, <2>2 DEF CandidatesInv, NotYet
  <2>10. Somewhere'
    BY <2>1, <2>2, <2>5, Belongs DEF CandidatesInv, Somewhere
  <2>11. InQueue'
    BY <2>1, <2>2, <2>4, Belongs DEF CandidatesInv, InQueue
  <2>12. Once'
    BY <2>1, <2>2, <2>6 DEF CandidatesInv, Once, Queue
  <2> QED
    BY <1>T, <2>13, <2>7, <2>8, <2>9, <2>10, <2>11, <2>12 DEF CandidatesInv
<1>13. ASSUME ClearQueue PROVE CandidatesInv'
  <2>0. PICK t \in Transport : signal.t = t
    BY <1>13, WhoIsWhere DEF ClearQueue
  <2>1. /\ signal.at = "clear" /\ sendQ' = sendQ \ CandidatesOf(t) /\ signal' = Recv
        /\ UNCHANGED <<rtc, remote, ice, sent, gathered, raced, sentTwice>>
    BY <1>13, <2>0 DEF ClearQueue
  <2>2. \A c \in CandidatesOf(t) : c \in sendQ => sent[c] > 0 \/ c \in raced
    BY <2>0, <2>1 DEF CandidatesInv, InQueue, Clearing
  <2>3. \A u \in Transport : /\ ~AtQueue(u)' /\ (AtQueue(u) <=> u = t)
                             /\ Clearing(u) <=> Clearing(u)' \/ u = t
    BY <2>0, <2>1 DEF AtQueue, Clearing, Recv
  <2>4. \A u \in Transport, c \in Candidate : Calls(u, c)' <=> Calls(u, c)
    BY <2>1 DEF Calls
  <2>11. Started'
    BY <2>1 DEF CandidatesInv, Started, Off
  <2>5. Described'
    BY <2>1, <2>3 DEF CandidatesInv, Described
  <2>6. WithCallback'
    BY <2>1, <2>4 DEF CandidatesInv, WithCallback
  <2>7. NotYet'
    BY <2>1 DEF CandidatesInv, NotYet
  <2>8. Somewhere'
    BY <2>1, <2>2, <2>4, Belongs DEF CandidatesInv, Somewhere
  <2>9. InQueue'
    BY <2>1, <2>3, Belongs DEF CandidatesInv, InQueue
  <2>10. Once'
    BY <2>1 DEF CandidatesInv, Once
  <2> QED
    BY <1>T, <2>11, <2>5, <2>6, <2>7, <2>8, <2>9, <2>10 DEF CandidatesInv
<1>14. ASSUME Negotiates PROVE CandidatesInv'
  <2>1. Started' /\ UNCHANGED <<remote, sendQ, ice, sent, gathered, raced, sentTwice>>
    BY <1>14 DEF Negotiates, CandidatesInv, Started, Off, Recv, Over
  <2>2. \/ UNCHANGED signal
        \/ signal \in {Off, Recv} /\ signal' \in {Recv, Over}
    BY <1>14 DEF Negotiates, CandidatesInv, Started
  <2> QED
    BY <1>T, <2>1, <2>2, QueuesKept
<1>15. ASSUME NEW t \in Transport, AppendCandidate(t) PROVE CandidatesInv'
  <2>0. PICK c \in Candidate : ice[t].c = c
    BY <1>15, WhoIsWhere DEF AppendCandidate
  <2>1. /\ ice[t].at = "append" /\ sendQ' = sendQ \cup {c}
        /\ raced' = IF t \in remote THEN raced \cup {c} ELSE raced
        /\ UNCHANGED <<rtc, signal, remote, sent, gathered, sentTwice>>
    BY <1>15, <2>0 DEF AppendCandidate
  <2>2. Calls(t, c) /\ c \in CandidatesOf(t) /\ c \in gathered /\ sent[c] = 0
    BY <2>0, <2>1, WhoIsWhere DEF Calls, CandidatesInv, WithCallback
  <2>3. ice'[t] = Idle /\ \A u \in Transport : u # t => ice'[u] = ice[u]
    BY <1>15 DEF AppendCandidate, RtcTypeOK
  <2>4. /\ \A u \in Transport : (AtQueue(u)' <=> AtQueue(u)) /\ (Clearing(u)' <=> Clearing(u))
        /\ AtQueue(t) \/ Clearing(t) => t \in remote
        /\ \A u \in Transport \ remote : ice'[u].at \in {"idle", "append"}
    BY <2>1, <2>3 DEF AtQueue, Clearing, Idle, CandidatesInv, Described
  <2>5. \A u \in Transport, e \in Candidate : (Calls(u, e)' <=> Calls(u, e) /\ u # t) /\ (Calls(t, e) => e = c)
    BY <2>0, <2>3 DEF Calls
  <2>12. Started'
    BY <2>1 DEF CandidatesInv, Started
  <2>6. Described'
    BY <2>1, <2>2, <2>4, Belongs DEF CandidatesInv, Described
  <2>7. WithCallback'
    BY <2>1, <2>2, <2>5, Belongs DEF CandidatesInv, WithCallback
  <2>8. NotYet'
    BY <2>1, <2>2 DEF CandidatesInv, NotYet
  <2>9. Somewhere'
    BY <2>1, <2>2, <2>5, Belongs DEF CandidatesInv, Somewhere
  <2>10. InQueue'
    BY <2>1, <2>2, <2>4, Belongs DEF CandidatesInv, InQueue
  <2>11. Once'
    BY <2>1 DEF CandidatesInv, Once
  <2> QED
    BY <1>T, <2>12, <2>6, <2>7, <2>8, <2>9, <2>10, <2>11 DEF CandidatesInv
<1>16. ASSUME NEW t \in Transport, SendQueued(t) PROVE CandidatesInv'
  <2>1. /\ ice[t].at = "send" /\ sentTwice \subseteq sentTwice'
        /\ signal.at = "clear" /\ signal.t = t => Queue(t) \subseteq sentTwice'
        /\ UNCHANGED <<rtc, signal, remote, sendQ, gathered, raced>>
    BY <1>16 DEF SendQueued, Send
  <2>2. \A c \in Candidate : /\ c \in CandidatesOf(t) /\ c \in sendQ => sent'[c] = sent[c] + 1
                             /\ ~(c \in CandidatesOf(t) /\ c \in sendQ) => sent'[c] = sent[c]
                             /\ sent[c] \in Nat
    BY <1>16 DEF SendQueued, Send, Queue, RtcTypeOK
  <2>3. /\ ice'[t].at = "clear" /\ ice'[t].c = ice[t].c /\ ice'[t] # Idle /\ ice[t] # Idle
        /\ \A u \in Transport : u # t => ice'[u] = ice[u]
    BY <1>16, WhoIsWhere DEF SendQueued, Calling, Idle, RtcTypeOK
  <2>4. /\ \A u \in Transport : /\ AtQueue(u)' <=> AtQueue(u)
                                /\ Clearing(u)' <=> Clearing(u) \/ u = t
        /\ t \in remote
        /\ \A u \in Transport \ remote : ice'[u] = ice[u]
    BY <2>1, <2>3 DEF AtQueue, Clearing, CandidatesInv, Described
  <2>5. \A u \in Transport, c \in Candidate : Calls(u, c)' <=> Calls(u, c)
    BY <2>3 DEF Calls
  <2>6. \A c \in Queue(t) : sent[c] > 0 => c \in sentTwice'
    BY <2>1, <2>3 DEF CandidatesInv, InQueue, Queue, Clearing
  <2>13. Started'
    BY <2>1 DEF CandidatesInv, Started
  <2>7. Described'
    BY <2>1, <2>2, <2>3, <2>4, Belongs DEF CandidatesInv, Described
  <2>8. WithCallback'
    BY <2>1, <2>2, <2>5, Belongs DEF CandidatesInv, WithCallback
  <2>9. NotYet'
    BY <2>1, <2>2 DEF CandidatesInv, NotYet
  <2>10. Somewhere'
    BY <2>1, <2>2, <2>5, Belongs DEF CandidatesInv, Somewhere
  <2>11. InQueue'
    BY <2>1, <2>2, <2>4, Belongs DEF CandidatesInv, InQueue
  <2>12. Once'
    BY <2>1, <2>2, <2>6 DEF CandidatesInv, Once, Queue
  <2> QED
    BY <1>T, <2>13, <2>7, <2>8, <2>9, <2>10, <2>11, <2>12 DEF CandidatesInv
<1>17. ASSUME NEW t \in Transport, SendCandidate(t) PROVE CandidatesInv'
  <2>0. PICK c \in Candidate : ice[t].c = c
    BY <1>17, WhoIsWhere DEF SendCandidate
  <2>1. /\ ice[t].at = "clear" /\ sendQ' = sendQ \ CandidatesOf(t)
        /\ UNCHANGED <<rtc, signal, remote, gathered, raced, sentTwice>>
    BY <1>17 DEF SendCandidate, Send
  <2>2. /\ sent'[c] = sent[c] + 1
        /\ \A e \in Candidate : sent[e] \in Nat /\ (e # c => sent'[e] = sent[e])
    BY <1>17, <2>0 DEF SendCandidate, Send, RtcTypeOK
  <2>3. Calls(t, c) /\ c \in CandidatesOf(t) /\ c \in gathered /\ sent[c] = 0
    BY <2>0, <2>1, WhoIsWhere DEF Calls, CandidatesInv, WithCallback
  <2>4. /\ t \in remote /\ \A u \in Transport : AtQueue(u)' <=> AtQueue(u)
        /\ \A u \in Transport : u # t => ice'[u] = ice[u] /\ (Clearing(u)' <=> Clearing(u))
    BY <1>17, <2>1 DEF SendCandidate, AtQueue, Clearing, CandidatesInv, Described, RtcTypeOK
  <2>5. ice'[t] = Idle
    BY <1>17 DEF SendCandidate, RtcTypeOK
  <2>6. /\ \A u \in Transport, e \in Candidate : Calls(u, e)' <=> Calls(u, e) /\ u # t
        /\ \A e \in Candidate : Calls(t, e) <=> e = c
    BY <2>0, <2>3, <2>4, <2>5 DEF Calls
  <2>14. \A u \in Transport : \A e \in CandidatesOf(u) :
           /\ u = t => sent'[e] >= sent[e] /\ (e \in sendQ => sent'[e] > 0 \/ e \in raced)
           /\ u # t => sent'[e] = sent[e] /\ (e \in sendQ => e \in sendQ')
    BY <2>1, <2>2, <2>3, Belongs DEF CandidatesInv, InQueue, Clearing
  <2>13. Started'
    BY <2>1 DEF CandidatesInv, Started
  <2>7. Described'
    BY <2>1, <2>2, <2>3, <2>4, Belongs DEF CandidatesInv, Described
  <2>8. WithCallback'
    BY <2>1, <2>2, <2>3, <2>6, Belongs DEF CandidatesInv, WithCallback
  <2>9. NotYet'
    BY <2>1, <2>2, <2>3 DEF CandidatesInv, NotYet
  <2>10. Somewhere'
    BY <2>1, <2>2, <2>6, <2>14, Belongs DEF CandidatesInv, Somewhere
  <2>11. InQueue'
    BY <2>1, <2>2, <2>3, <2>4, Belongs DEF CandidatesInv, InQueue
  <2>12. Once'
    BY <2>1, <2>2, <2>3 DEF CandidatesInv, Once
  <2> QED
    BY <1>T, <2>13, <2>7, <2>8, <2>9, <2>10, <2>11, <2>12 DEF CandidatesInv
<1>18. ASSUME UNCHANGED rtcVars PROVE CandidatesInv'
  <2>1. Started' /\ UNCHANGED <<remote, sendQ, ice, sent, gathered, raced, sentTwice, signal>>
    BY <1>18 DEF rtcVars, CandidatesInv, Started
  <2> QED
    BY <1>T, <2>1, QueuesKept
<1> QED
  BY <1>1, <1>2, <1>3, <1>4, <1>5, <1>6, <1>7, <1>8, <1>9, <1>10, <1>11, <1>12, <1>13,
    <1>14, <1>15, <1>16, <1>17, <1>18 DEF RtcNext, RtcEvent, RtcStep

-----------------------------------------------------------------------------
(* The client: what Connect, close and the main loop do to it.             *)

\* The steps of the RTC leave it open or closed.
LEMMA RtcStays == RtcEvent \/ RtcStep => rtc' = rtc
BY DEF RtcEvent, RtcStep, RecvFails, OfferArrives, Gather, JoinAnswered, JoinRefused,
       OfferAnswered, AnswerRefused, SendQueue, ClearQueue, Negotiates, AppendCandidate,
       SendQueued, SendCandidate, SignalOnly

\* The types of the client.
LEMMA ClientTypeStep == ClientTypeOK /\ OneLive /\ [ClientNext]_clientAll => ClientTypeOK'
<1> SUFFICES ASSUME ClientTypeOK /\ OneLive, [ClientNext]_clientAll PROVE ClientTypeOK'
  OBVIOUS
<1>  events \in Nat /\ events' \in Nat
  BY DEF ClientTypeOK, ClientNext, ClientEvent, ClientStep, clientAll
<1>1. ASSUME RtcEvent /\ UNCHANGED clientVars PROVE ClientTypeOK'
  BY <1>1 DEF clientVars, ClientTypeOK, Rest, Attempt, rtcVars, clientVars
<1>2. ASSUME NEW p \in Pipe, PipelineFails(p) PROVE ClientTypeOK'
  BY <1>2 DEF PipelineFails, ClientTypeOK, Rest, Attempt, rtcVars, clientVars
<1>3. ASSUME OtherHandler PROVE ClientTypeOK'
  BY <1>3 DEF OtherHandler, LoopOnly, ClientTypeOK, Rest, Attempt, rtcVars, clientVars
<1>4. ASSUME Close PROVE ClientTypeOK'
  <2>1. Attempt \subseteq Pipe
    BY DEF OneLive, Attempt
  <2> QED
    BY <1>4, <2>1 DEF Close, CloseMarks, ClientTypeOK
<1>5. ASSUME RtcStep /\ UNCHANGED clientVars PROVE ClientTypeOK'
  BY <1>5 DEF clientVars, ClientTypeOK, Rest, Attempt, rtcVars, clientVars
<1>6. ASSUME Describe PROVE ClientTypeOK'
  BY <1>6 DEF Describe, ClientTypeOK, Rest, Attempt, rtcVars, clientVars
<1>7. ASSUME DescribeFails PROVE ClientTypeOK'
  BY <1>7 DEF DescribeFails, ClientTypeOK, Rest, Attempt, rtcVars, clientVars
<1>8. ASSUME DialFails PROVE ClientTypeOK'
  BY <1>8 DEF DialFails, DialOnly, ClientTypeOK, Rest, Attempt, rtcVars, clientVars
<1>9. ASSUME DialStarts PROVE ClientTypeOK'
  <2>1. state' \in [Pipe -> {"none", "playing", "failing", "stopping", "ended"}]
    BY <1>9 DEF DialStarts, ClientTypeOK
  <2> QED
    BY <1>9, <2>1 DEF DialStarts, DialOnly, ClientTypeOK
<1>10. ASSUME DialHandles PROVE ClientTypeOK'
  <2>1. 1 \in Pipe
    BY ClientAssumption DEF Pipe
  <2> QED
    BY <1>10, <2>1 DEF DialHandles, DialOnly, ClientTypeOK
<1>11. ASSUME DialStores PROVE ClientTypeOK'
  <2>1. 1 \in Pipe
    BY ClientAssumption DEF Pipe
  <2> QED
    BY <1>11, <2>1 DEF DialStores, DialOnly, ClientTypeOK
<1>12. ASSUME PlaceFails PROVE ClientTypeOK'
  BY <1>12 DEF PlaceFails, PlaceOnly, ClientTypeOK, Rest, Attempt, rtcVars, clientVars
<1>13. ASSUME PlaceOpens PROVE ClientTypeOK'
  BY <1>13 DEF PlaceOpens, PlaceOnly, NewRTC, ClientTypeOK, Rest, Attempt, rtcVars,
    clientVars
<1>14. ASSUME PlacePanics PROVE ClientTypeOK'
  BY <1>14 DEF PlacePanics, PlaceOnly, ClientTypeOK, Rest, Attempt, rtcVars, clientVars
<1>15. ASSUME PlaceJoins PROVE ClientTypeOK'
  BY <1>15 DEF PlaceJoins, PlaceOnly, Join, ClientTypeOK, Rest, Attempt, rtcVars,
    clientVars
<1>16. ASSUME PlacePublishes PROVE ClientTypeOK'
  BY <1>16 DEF PlacePublishes, PlaceOnly, Publish, ClientTypeOK, Rest, Attempt,
    rtcVars, clientVars
<1>17. ASSUME PublishFails PROVE ClientTypeOK'
  BY <1>17 DEF PublishFails, PlaceOnly, ClientTypeOK, Rest, Attempt, rtcVars, clientVars
<1>18. ASSUME PlaceStores PROVE ClientTypeOK'
  BY <1>18 DEF PlaceStores, PlaceOnly, ClientTypeOK, Rest, Attempt, rtcVars, clientVars
<1>19. ASSUME ConnectReturns PROVE ClientTypeOK'
  BY <1>19 DEF ConnectReturns, ClientTypeOK, Rest, Attempt, rtcVars, clientVars
<1>20. ASSUME ConnectCloses PROVE ClientTypeOK'
  <2>1. Attempt \subseteq Pipe
    BY DEF OneLive, Attempt
  <2> QED
    BY <1>20, <2>1 DEF ConnectCloses, CloseMarks, ClientTypeOK
<1>21. ASSUME CloseConnector PROVE ClientTypeOK'
  BY <1>21 DEF CloseConnector, CloseRTC, ClientTypeOK, Rest, Attempt, rtcVars,
    clientVars
<1>22. ASSUME ClosePipeline PROVE ClientTypeOK'
  BY <1>22 DEF ClosePipeline, ClientTypeOK, Rest, Attempt, rtcVars, clientVars
<1>23. ASSUME ReaderEnds PROVE ClientTypeOK'
  BY <1>23 DEF ReaderEnds, ClientTypeOK, Rest, Attempt, rtcVars, clientVars
<1>24. ASSUME OtherReturns PROVE ClientTypeOK'
  BY <1>24 DEF OtherReturns, LoopOnly, ClientTypeOK, Rest, Attempt, rtcVars, clientVars
<1>25. ASSUME NEW p \in Pipe, Dispatch(p) PROVE ClientTypeOK'
  BY <1>25 DEF Dispatch, LoopOnly, ClientTypeOK, Rest, Fresh
<1>26. ASSUME NEW p \in Pipe, Retries(p) PROVE ClientTypeOK'
  BY <1>26 DEF Retries, LoopOnly, ClientTypeOK, Rest, Fresh
<1>27. ASSUME RetryEnds PROVE ClientTypeOK'
  BY <1>27 DEF RetryEnds, LoopOnly, ClientTypeOK, Rest, Attempt, rtcVars, clientVars
<1>28. ASSUME RetryFails PROVE ClientTypeOK'
  BY <1>28 DEF RetryFails, LoopOnly, ClientTypeOK, Rest, Attempt, rtcVars, clientVars
<1>29. ASSUME RetryStarts PROVE ClientTypeOK'
  <2>1. loop.p \in Pipe
    BY <1>29 DEF RetryStarts, OneLive
  <2>2. state' \in [Pipe -> {"none", "playing", "failing", "stopping", "ended"}]
    BY <1>29, <2>1 DEF RetryStarts, ClientTypeOK
  <2>3. loop' \in [at : {"idle", "other", "sleeps", "creates", "started", "stores"}, p : Pipe \cup {0}]
    BY <1>29 DEF RetryStarts, LoopOnly, Rest, ClientTypeOK
  <2> QED
    BY <1>29, <2>2, <2>3 DEF RetryStarts, LoopOnly, ClientTypeOK
<1>30. ASSUME RetryHandles PROVE ClientTypeOK'
  <2>1. loop.p \in Pipe
    BY <1>30 DEF RetryHandles, OneLive
  <2>2. handled' \subseteq Pipe
    BY <1>30, <2>1 DEF RetryHandles, ClientTypeOK
  <2>3. loop' \in [at : {"idle", "other", "sleeps", "creates", "started", "stores"}, p : Pipe \cup {0}]
    BY <1>30 DEF RetryHandles, LoopOnly, Rest, ClientTypeOK
  <2> QED
    BY <1>30, <2>2, <2>3 DEF RetryHandles, LoopOnly, ClientTypeOK
<1>31. ASSUME RetryStores PROVE ClientTypeOK'
  <2>1. loop.p \in Pipe
    BY <1>31 DEF RetryStores, OneLive
  <2>2. pipeline' \in Pipe
    BY <1>31, <2>1 DEF RetryStores, ClientTypeOK
  <2>3. loop' \in [at : {"idle", "other", "sleeps", "creates", "started", "stores"}, p : Pipe \cup {0}]
    BY <1>31 DEF RetryStores, LoopOnly, Rest, ClientTypeOK
  <2> QED
    BY <1>31, <2>2, <2>3 DEF RetryStores, LoopOnly, ClientTypeOK
<1>32. ASSUME UNCHANGED clientAll PROVE ClientTypeOK'
  BY <1>32 DEF clientAll, clientAll, ClientTypeOK
<1> QED
  BY <1>1, <1>2, <1>3, <1>4, <1>5, <1>6, <1>7, <1>8, <1>9, <1>10, <1>11, <1>12, <1>13,
    <1>14, <1>15, <1>16, <1>17, <1>18, <1>19, <1>20, <1>21, <1>22, <1>23, <1>24, <1>25,
    <1>26, <1>27, <1>28, <1>29, <1>30, <1>31, <1>32 DEF ClientNext, ClientEvent,
    ClientStep

\* At most one pipeline of a client lives.
LEMMA OneLiveStep == ClientTypeOK /\ Progress /\ OneLive /\ [ClientNext]_clientAll => OneLive'
<1> SUFFICES ASSUME ClientTypeOK /\ Progress /\ OneLive, [ClientNext]_clientAll PROVE OneLive'
  OBVIOUS
<1>1. ASSUME NEW p \in Pipe, PipelineFails(p) PROVE OneLive'
  <2>1. /\ Live(p) /\ state[p] # "none" /\ state' = [state EXCEPT ![p] = "failing"]
        /\ UNCHANGED <<handled, dial, loop>>
    BY <1>1 DEF PipelineFails, Live
  <2>2. \A q \in Pipe : /\ Live(q)' <=> Live(q)
                        /\ state[q] = "none" <=> state'[q] = "none"
    BY <2>1 DEF Live, ClientTypeOK
  <2> QED
    BY <2>1, <2>2 DEF OneLive, Replacing, Replaced
<1>2. ASSUME OtherHandler PROVE OneLive'
  BY <1>2 DEF OtherHandler, LoopOnly, Progress, ClientTypeOK, OneLive, Live, Replacing,
    Replaced, Rest
<1>3. ASSUME Describe PROVE OneLive'
  BY <1>3 DEF Describe, Progress, ClientTypeOK, OneLive, Live, Replacing, Replaced, Rest
<1>4. ASSUME DialFails PROVE OneLive'
  BY <1>4 DEF DialFails, DialOnly, Progress, ClientTypeOK, OneLive, Live, Replacing,
    Replaced, Rest
<1>5. ASSUME DialStarts PROVE OneLive'
  <2>1. /\ dial = "creates" /\ dial' = "started" /\ UNCHANGED <<handled, loop>>
        /\ state' = [state EXCEPT ![1] = "playing"]
    BY <1>5 DEF DialStarts, DialOnly
  <2>2. /\ \A p \in Pipe : state[p] = "none" /\ (p # 1 => state'[p] = "none")
        /\ handled = {} /\ ~Replacing
    BY <2>1 DEF OneLive, ClientTypeOK
  <2> QED
    BY <2>1, <2>2 DEF OneLive, Live, Replacing
<1>6. ASSUME DialHandles PROVE OneLive'
  BY <1>6 DEF DialHandles, DialOnly, Progress, ClientTypeOK, OneLive, Live, Replacing,
    Replaced, Rest
<1>7. ASSUME DialStores PROVE OneLive'
  BY <1>7 DEF DialStores, DialOnly, Progress, ClientTypeOK, OneLive, Live, Replacing,
    Replaced, Rest
<1>8. ASSUME ClosePipeline PROVE OneLive'
  <2>1. UNCHANGED <<handled, dial, loop>>
    BY <1>8 DEF ClosePipeline
  <2>2. \A q \in Pipe : /\ Live(q)' <=> Live(q)
                        /\ state[q] = "none" <=> state'[q] = "none"
    BY <1>8 DEF ClosePipeline, Live, ClientTypeOK
  <2> QED
    BY <2>1, <2>2 DEF OneLive, Replacing, Replaced
<1>9. ASSUME OtherReturns PROVE OneLive'
  BY <1>9 DEF OtherReturns, LoopOnly, Progress, ClientTypeOK, OneLive, Live, Replacing,
    Replaced, Rest
<1>10. ASSUME NEW p \in Pipe, Dispatch(p) PROVE OneLive'
  <2>1. /\ loop = Rest /\ Live(p) /\ state' = [state EXCEPT ![p] = "ended"] /\ UNCHANGED <<handled, dial>>
        /\ loop' \in {Rest, [at |-> "sleeps", p |-> 0]} /\ (loop' # Rest => p \in handled)
    BY <1>10 DEF Dispatch, LoopOnly, Live
  <2>2. \A q \in Pipe : /\ q # p => ~Live(q)
                        /\ q # p => state'[q] = state[q]
                        /\ q = p => state'[q] = "ended"
    BY <2>1 DEF OneLive, ClientTypeOK
  <2>3. \A q \in Pipe : ~Live(q)' /\ (state[q] = "none" => state'[q] = "none" \/ q = p)
    BY <2>2 DEF Live
  <2>4. dial \notin {"no", "creates", "failed"}
    BY <2>1 DEF OneLive, Live
  <2>5. loop'.at \in {"idle", "sleeps"} /\ (Replacing' => p \in handled)
    BY <2>1 DEF Rest, Replacing
  <2> QED
    BY <2>1, <2>3, <2>4, <2>5 DEF OneLive
<1>11. ASSUME NEW p \in Pipe, Retries(p) PROVE OneLive'
  BY <1>11 DEF Retries, LoopOnly, Progress, ClientTypeOK, OneLive, Live, Replacing,
    Replaced, Rest
<1>12. ASSUME RetryEnds PROVE OneLive'
  BY <1>12 DEF RetryEnds, LoopOnly, Progress, ClientTypeOK, OneLive, Live, Replacing,
    Replaced, Rest
<1>13. ASSUME RetryFails PROVE OneLive'
  BY <1>13 DEF RetryFails, LoopOnly, Progress, ClientTypeOK, OneLive, Live, Replacing,
    Replaced, Rest
<1>14. ASSUME RetryStarts PROVE OneLive'
  <2>1. /\ loop.at = "creates" /\ loop.p \in Pipe /\ state' = [state EXCEPT ![loop.p] = "playing"]
        /\ loop'.at = "started" /\ loop'.p = loop.p /\ UNCHANGED <<handled, dial>>
    BY <1>14 DEF RetryStarts, LoopOnly, OneLive, ClientTypeOK
  <2>2. \A q \in Pipe : ~Live(q) /\ (q # loop.p => state'[q] = state[q])
    BY <2>1 DEF OneLive, Replacing, Replaced, ClientTypeOK
  <2>3. dial \in {"handled", "done"}
    BY <2>1 DEF OneLive, Replacing
  <2> QED
    BY <2>1, <2>2, <2>3 DEF OneLive, Live, Replaced
<1>15. ASSUME RetryHandles PROVE OneLive'
  BY <1>15 DEF RetryHandles, LoopOnly, Progress, ClientTypeOK, OneLive, Live,
    Replacing, Replaced, Rest
<1>16. ASSUME RetryStores PROVE OneLive'
  BY <1>16 DEF RetryStores, LoopOnly, Progress, ClientTypeOK, OneLive, Live, Replacing,
    Replaced, Rest
<1>17. ASSUME 
         (RtcEvent /\ UNCHANGED clientVars) \/ Close
      \/ (RtcStep /\ UNCHANGED clientVars) \/ DescribeFails \/ PlaceFails
      \/ PlaceOpens \/ PlacePanics \/ PlaceJoins \/ PlacePublishes \/ PublishFails
      \/ PlaceStores \/ ConnectReturns \/ ConnectCloses \/ CloseConnector
      \/ ReaderEnds
     PROVE OneLive'
  <2>1. UNCHANGED <<state, handled, loop, dial>>
    BY <1>17 DEF clientVars, Close, CloseMarks, DescribeFails, PlaceFails, PlaceOnly,
      PlaceOpens, NewRTC, PlacePanics, PlaceJoins, Join, PlacePublishes, Publish,
      PublishFails, PlaceStores, ConnectReturns, ConnectCloses, CloseConnector,
      CloseRTC, ReaderEnds
  <2> QED
    BY <2>1 DEF OneLive, Live, Replacing, Replaced
<1>18. ASSUME UNCHANGED clientAll PROVE OneLive'
  <2>1. UNCHANGED <<state, handled, loop, dial>>
    BY <1>18 DEF clientAll
  <2> QED
    BY <2>1 DEF OneLive, Live, Replacing, Replaced
<1> QED
  BY <1>1, <1>2, <1>3, <1>4, <1>5, <1>6, <1>7, <1>8, <1>9, <1>10, <1>11, <1>12, <1>13,
    <1>14, <1>15, <1>16, <1>17, <1>18 DEF ClientNext, ClientEvent, ClientStep

\* Who plays is known to the client, to the loop or to Connect, or is stray.
LEMMA AnswersStep == ClientTypeOK /\ Progress /\ OneLive /\ Answers /\ [ClientNext]_clientAll => Answers'
<1> SUFFICES ASSUME ClientTypeOK /\ Progress /\ OneLive /\ Answers, [ClientNext]_clientAll PROVE Answers'
  OBVIOUS
<1>1. ASSUME NEW p \in Pipe, PipelineFails(p) PROVE Answers'
  BY <1>1 DEF PipelineFails, ClientTypeOK, Answers, Replaced, Playing, Rest
<1>2. ASSUME OtherHandler PROVE Answers'
  BY <1>2 DEF OtherHandler, LoopOnly, ClientTypeOK, Answers, Replaced, Playing, Rest
<1>3. ASSUME Close PROVE Answers'
  BY <1>3 DEF Close, CloseMarks, ClientTypeOK, Answers, Replaced, Playing, Rest
<1>4. ASSUME Describe PROVE Answers'
  BY <1>4 DEF Describe, ClientTypeOK, Progress, Answers, Replaced, Playing
<1>5. ASSUME DialFails PROVE Answers'
  BY <1>5 DEF DialFails, DialOnly, ClientTypeOK, Answers, Replaced, Playing, Rest
<1>6. ASSUME DialStarts PROVE Answers'
  BY <1>6 DEF DialStarts, DialOnly, ClientTypeOK, Answers, Replaced, Playing, Rest
<1>7. ASSUME DialHandles PROVE Answers'
  BY <1>7 DEF DialHandles, DialOnly, ClientTypeOK, Answers, Replaced, Playing, Rest
<1>8. ASSUME DialStores PROVE Answers'
  <2>1. /\ pipeline' = 1 /\ UNCHANGED <<state, loop>>
        /\ stray' = IF pipeline = 0 THEN stray ELSE stray \cup {pipeline}
    BY <1>8 DEF DialStores, DialOnly
  <2>2. \A p \in Pipe : p # 0
    BY DEF Pipe
  <2> QED
    BY <2>1, <2>2 DEF Answers, Playing, Replaced
<1>9. ASSUME ConnectCloses PROVE Answers'
  BY <1>9 DEF ConnectCloses, CloseMarks, ClientTypeOK, Answers, Replaced, Playing, Rest
<1>10. ASSUME ClosePipeline PROVE Answers'
  BY <1>10 DEF ClosePipeline, ClientTypeOK, Answers, Replaced, Playing, Rest
<1>11. ASSUME OtherReturns PROVE Answers'
  BY <1>11 DEF OtherReturns, LoopOnly, ClientTypeOK, Answers, Replaced, Playing, Rest
<1>12. ASSUME NEW p \in Pipe, Dispatch(p) PROVE Answers'
  BY <1>12 DEF Dispatch, LoopOnly, ClientTypeOK, Answers, Replaced, Playing, Rest
<1>13. ASSUME NEW p \in Pipe, Retries(p) PROVE Answers'
  BY <1>13 DEF Retries, LoopOnly, ClientTypeOK, Answers, Replaced, Playing, Rest
<1>14. ASSUME RetryEnds PROVE Answers'
  BY <1>14 DEF RetryEnds, LoopOnly, ClientTypeOK, Answers, Replaced, Playing, Rest
<1>15. ASSUME RetryFails PROVE Answers'
  BY <1>15 DEF RetryFails, LoopOnly, ClientTypeOK, Answers, Replaced, Playing, Rest
<1>16. ASSUME RetryStarts PROVE Answers'
  <2>1. /\ loop.at = "creates" /\ state' = [state EXCEPT ![loop.p] = "playing"]
        /\ loop'.at = "started" /\ loop'.p = loop.p /\ UNCHANGED <<pipeline, stray, dial>>
    BY <1>16 DEF RetryStarts, LoopOnly, ClientTypeOK
  <2>2. \A p \in Pipe : p # loop.p => state'[p] = state[p]
    BY <2>1 DEF ClientTypeOK
  <2> QED
    BY <2>1, <2>2 DEF Answers, Playing, Replaced
<1>17. ASSUME RetryHandles PROVE Answers'
  BY <1>17 DEF RetryHandles, LoopOnly, ClientTypeOK, Answers, Replaced, Playing, Rest
<1>18. ASSUME RetryStores PROVE Answers'
  <2>1. /\ loop.at = "stores" /\ loop.p \in Pipe /\ pipeline' = loop.p /\ UNCHANGED <<state, stray, dial>>
    BY <1>18 DEF RetryStores, LoopOnly, OneLive
  <2>2. \A p \in Playing : p = loop.p
    BY <2>1 DEF OneLive, Replacing, Replaced, Live, Playing
  <2> QED
    BY <2>1, <2>2 DEF Answers, Playing
<1>19. ASSUME 
         (RtcEvent /\ UNCHANGED clientVars) \/ (RtcStep /\ UNCHANGED clientVars)
      \/ DescribeFails \/ PlaceFails \/ PlaceOpens \/ PlacePanics \/ PlaceJoins
      \/ PlacePublishes \/ PublishFails \/ PlaceStores \/ ConnectReturns
      \/ CloseConnector \/ ReaderEnds
     PROVE Answers'
  <2>1. UNCHANGED <<state, pipeline, stray, loop, dial>>
    BY <1>19 DEF clientVars, DescribeFails, PlaceFails, PlaceOnly, PlaceOpens, NewRTC,
      PlacePanics, PlaceJoins, Join, PlacePublishes, Publish, PublishFails,
      PlaceStores, ConnectReturns, CloseConnector, CloseRTC, ReaderEnds
  <2> QED
    BY <2>1 DEF Answers, Replaced, Playing
<1>20. ASSUME UNCHANGED clientAll PROVE Answers'
  <2>1. UNCHANGED <<state, pipeline, stray, loop, dial>>
    BY <1>20 DEF clientAll
  <2> QED
    BY <2>1 DEF Answers, Replaced, Playing
<1> QED
  BY <1>1, <1>2, <1>3, <1>4, <1>5, <1>6, <1>7, <1>8, <1>9, <1>10, <1>11, <1>12, <1>13,
    <1>14, <1>15, <1>16, <1>17, <1>18, <1>19, <1>20 DEF ClientNext, ClientEvent,
    ClientStep

\* How far Connect and close are.
LEMMA ProgressStep == ClientTypeOK /\ Progress /\ [ClientNext]_clientAll => Progress'
<1> SUFFICES ASSUME ClientTypeOK /\ Progress, [ClientNext]_clientAll PROVE Progress'
  OBVIOUS
<1>1. ASSUME RtcEvent /\ UNCHANGED clientVars PROVE Progress'
  BY <1>1, RtcStays DEF clientVars, Progress, clientVars
<1>2. ASSUME NEW p \in Pipe, PipelineFails(p) PROVE Progress'
  BY <1>2 DEF PipelineFails, ClientTypeOK, Progress, Locked, rtcVars, clientVars
<1>3. ASSUME OtherHandler PROVE Progress'
  BY <1>3 DEF OtherHandler, LoopOnly, ClientTypeOK, Progress, Locked, rtcVars,
    clientVars
<1>4. ASSUME Close PROVE Progress'
  BY <1>4 DEF Close, CloseMarks, ClientTypeOK, Progress, Locked, rtcVars, clientVars
<1>5. ASSUME RtcStep /\ UNCHANGED clientVars PROVE Progress'
  BY <1>5, RtcStays DEF clientVars, Progress, clientVars
<1>6. ASSUME Describe PROVE Progress'
  BY <1>6 DEF Describe, ClientTypeOK, Progress, Locked, rtcVars, clientVars
<1>7. ASSUME DescribeFails PROVE Progress'
  BY <1>7 DEF DescribeFails, ClientTypeOK, Progress, Locked, rtcVars, clientVars
<1>8. ASSUME DialFails PROVE Progress'
  BY <1>8 DEF DialFails, DialOnly, ClientTypeOK, Progress, Locked, rtcVars, clientVars
<1>9. ASSUME DialStarts PROVE Progress'
  BY <1>9 DEF DialStarts, DialOnly, ClientTypeOK, Progress, Locked, rtcVars, clientVars
<1>10. ASSUME DialHandles PROVE Progress'
  BY <1>10 DEF DialHandles, DialOnly, ClientTypeOK, Progress, Locked, rtcVars,
    clientVars
<1>11. ASSUME DialStores PROVE Progress'
  BY <1>11 DEF DialStores, DialOnly, ClientTypeOK, Progress, Locked, rtcVars, clientVars
<1>12. ASSUME PlaceFails PROVE Progress'
  BY <1>12 DEF PlaceFails, PlaceOnly, ClientTypeOK, Progress, Locked, rtcVars,
    clientVars
<1>13. ASSUME PlaceOpens PROVE Progress'
  BY <1>13 DEF PlaceOpens, PlaceOnly, NewRTC, ClientTypeOK, Progress, Locked, rtcVars,
    clientVars
<1>14. ASSUME PlacePanics PROVE Progress'
  BY <1>14 DEF PlacePanics, PlaceOnly, ClientTypeOK, Progress, Locked, rtcVars,
    clientVars
<1>15. ASSUME PlaceJoins PROVE Progress'
  BY <1>15 DEF PlaceJoins, PlaceOnly, Join, ClientTypeOK, Progress, Locked, rtcVars,
    clientVars
<1>16. ASSUME PlacePublishes PROVE Progress'
  BY <1>16 DEF PlacePublishes, PlaceOnly, Publish, ClientTypeOK, Progress, Locked,
    rtcVars, clientVars
<1>17. ASSUME PublishFails PROVE Progress'
  BY <1>17 DEF PublishFails, PlaceOnly, ClientTypeOK, Progress, Locked, rtcVars,
    clientVars
<1>18. ASSUME PlaceStores PROVE Progress'
  BY <1>18 DEF PlaceStores, PlaceOnly, ClientTypeOK, Progress, Locked, rtcVars,
    clientVars
<1>19. ASSUME ConnectReturns PROVE Progress'
  BY <1>19 DEF ConnectReturns, ClientTypeOK, Progress, Locked, rtcVars, clientVars
<1>20. ASSUME ConnectCloses PROVE Progress'
  BY <1>20 DEF ConnectCloses, CloseMarks, ClientTypeOK, Progress, Locked, rtcVars,
    clientVars
<1>21. ASSUME CloseConnector PROVE Progress'
  BY <1>21 DEF CloseConnector, CloseRTC, ClientTypeOK, Progress, Locked, rtcVars,
    clientVars
<1>22. ASSUME ClosePipeline PROVE Progress'
  BY <1>22 DEF ClosePipeline, ClientTypeOK, Progress, Locked, rtcVars, clientVars
<1>23. ASSUME ReaderEnds PROVE Progress'
  BY <1>23 DEF ReaderEnds, ClientTypeOK, Progress, Locked, rtcVars, clientVars
<1>24. ASSUME OtherReturns PROVE Progress'
  BY <1>24 DEF OtherReturns, LoopOnly, ClientTypeOK, Progress, Locked, rtcVars,
    clientVars
<1>25. ASSUME NEW p \in Pipe, Dispatch(p) PROVE Progress'
  BY <1>25 DEF Dispatch, LoopOnly, ClientTypeOK, Progress, Locked, rtcVars, clientVars
<1>26. ASSUME NEW p \in Pipe, Retries(p) PROVE Progress'
  BY <1>26 DEF Retries, LoopOnly, ClientTypeOK, Progress, Locked, rtcVars, clientVars
<1>27. ASSUME RetryEnds PROVE Progress'
  BY <1>27 DEF RetryEnds, LoopOnly, ClientTypeOK, Progress, Locked, rtcVars, clientVars
<1>28. ASSUME RetryFails PROVE Progress'
  BY <1>28 DEF RetryFails, LoopOnly, ClientTypeOK, Progress, Locked, rtcVars, clientVars
<1>29. ASSUME RetryStarts PROVE Progress'
  BY <1>29 DEF RetryStarts, LoopOnly, ClientTypeOK, Progress, Locked, rtcVars,
    clientVars
<1>30. ASSUME RetryHandles PROVE Progress'
  BY <1>30 DEF RetryHandles, LoopOnly, ClientTypeOK, Progress, Locked, rtcVars,
    clientVars
<1>31. ASSUME RetryStores PROVE Progress'
  BY <1>31 DEF RetryStores, LoopOnly, ClientTypeOK, Progress, Locked, rtcVars,
    clientVars
<1>32. ASSUME UNCHANGED clientAll PROVE Progress'
  <2>1. UNCHANGED <<rtc, connect, dial, place, closed, close, connector>>
    BY <1>32 DEF clientAll
  <2> QED
    BY <2>1 DEF Progress
<1> QED
  BY <1>1, <1>2, <1>3, <1>4, <1>5, <1>6, <1>7, <1>8, <1>9, <1>10, <1>11, <1>12, <1>13,
    <1>14, <1>15, <1>16, <1>17, <1>18, <1>19, <1>20, <1>21, <1>22, <1>23, <1>24, <1>25,
    <1>26, <1>27, <1>28, <1>29, <1>30, <1>31, <1>32 DEF ClientNext, ClientEvent,
    ClientStep

\* Close leaves no pipeline and no RTC behind it, but those it could not know.
LEMMA StoppedStep == ClientTypeOK /\ OneLive /\ Answers /\ Progress /\ Stopped /\ [ClientNext]_clientAll => Stopped'
<1> SUFFICES ASSUME ClientTypeOK /\ OneLive /\ Answers /\ Progress /\ Stopped, [ClientNext]_clientAll PROVE Stopped'
  OBVIOUS
<1>1. ASSUME RtcEvent /\ UNCHANGED clientVars PROVE Stopped'
  BY <1>1, RtcStays DEF clientVars, Stopped, clientVars, Attempt, Playing
<1>2. ASSUME NEW p \in Pipe, PipelineFails(p) PROVE Stopped'
  BY <1>2 DEF PipelineFails, ClientTypeOK, Progress, Stopped, Attempt, Playing, Rest,
    rtcVars
<1>3. ASSUME OtherHandler PROVE Stopped'
  BY <1>3 DEF OtherHandler, LoopOnly, ClientTypeOK, Progress, Stopped, Attempt,
    Playing, Rest, rtcVars
<1>4. ASSUME Close PROVE Stopped'
  BY <1>4 DEF Close, CloseMarks, ClientTypeOK, Progress, Stopped, Attempt, Playing,
    Rest, rtcVars
<1>5. ASSUME RtcStep /\ UNCHANGED clientVars PROVE Stopped'
  BY <1>5, RtcStays DEF clientVars, Stopped, clientVars, Attempt, Playing
<1>6. ASSUME Describe PROVE Stopped'
  BY <1>6 DEF Describe, ClientTypeOK, Progress, Stopped, Attempt, Playing, Rest, rtcVars
<1>7. ASSUME DescribeFails PROVE Stopped'
  BY <1>7 DEF DescribeFails, ClientTypeOK, Progress, Stopped, Attempt, Playing, Rest,
    rtcVars
<1>8. ASSUME DialFails PROVE Stopped'
  BY <1>8 DEF DialFails, DialOnly, ClientTypeOK, Progress, Stopped, Attempt, Playing,
    Rest, rtcVars
<1>9. ASSUME DialStarts PROVE Stopped'
  BY <1>9 DEF DialStarts, DialOnly, ClientTypeOK, Progress, Stopped, Attempt, Playing,
    Rest, rtcVars
<1>10. ASSUME DialHandles PROVE Stopped'
  BY <1>10 DEF DialHandles, DialOnly, ClientTypeOK, Progress, Stopped, Attempt,
    Playing, Rest, rtcVars
<1>11. ASSUME DialStores PROVE Stopped'
  BY <1>11 DEF DialStores, DialOnly, ClientTypeOK, Progress, Stopped, Attempt, Playing,
    Rest, rtcVars
<1>12. ASSUME PlaceFails PROVE Stopped'
  BY <1>12 DEF PlaceFails, PlaceOnly, ClientTypeOK, Progress, Stopped, Attempt,
    Playing, Rest, rtcVars
<1>13. ASSUME PlaceOpens PROVE Stopped'
  BY <1>13 DEF PlaceOpens, PlaceOnly, NewRTC, ClientTypeOK, Progress, Stopped, Attempt,
    Playing, Rest, rtcVars
<1>14. ASSUME PlacePanics PROVE Stopped'
  BY <1>14 DEF PlacePanics, PlaceOnly, ClientTypeOK, Progress, Stopped, Attempt,
    Playing, Rest, rtcVars
<1>15. ASSUME PlaceJoins PROVE Stopped'
  BY <1>15 DEF PlaceJoins, PlaceOnly, Join, ClientTypeOK, Progress, Stopped, Attempt,
    Playing, Rest, rtcVars
<1>16. ASSUME PlacePublishes PROVE Stopped'
  BY <1>16 DEF PlacePublishes, PlaceOnly, Publish, ClientTypeOK, Progress, Stopped,
    Attempt, Playing, Rest, rtcVars
<1>17. ASSUME PublishFails PROVE Stopped'
  BY <1>17 DEF PublishFails, PlaceOnly, ClientTypeOK, Progress, Stopped, Attempt,
    Playing, Rest, rtcVars
<1>18. ASSUME PlaceStores PROVE Stopped'
  BY <1>18 DEF PlaceStores, PlaceOnly, ClientTypeOK, Progress, Stopped, Attempt,
    Playing, Rest, rtcVars
<1>19. ASSUME ConnectReturns PROVE Stopped'
  BY <1>19 DEF ConnectReturns, ClientTypeOK, Progress, Stopped, Attempt, Playing, Rest,
    rtcVars
<1>20. ASSUME ConnectCloses PROVE Stopped'
  BY <1>20 DEF ConnectCloses, CloseMarks, ClientTypeOK, Progress, Stopped, Attempt,
    Playing, Rest, rtcVars
<1>21. ASSUME CloseConnector PROVE Stopped'
  BY <1>21 DEF CloseConnector, CloseRTC, ClientTypeOK, Progress, Stopped, Attempt,
    Playing, Rest, rtcVars
<1>22. ASSUME ClosePipeline PROVE Stopped'
  <2>1. /\ closed /\ close' = "idle" /\ (pipeline # 0 => state'[pipeline] # "playing")
        /\ \A p \in Pipe : state'[p] = "playing" => state[p] = "playing"
        /\ UNCHANGED <<rtc, place, closed, loop, stray, pipeline>>
    BY <1>22 DEF ClosePipeline, rtcVars, ClientTypeOK, Progress
  <2>2. Attempt \subseteq stray /\ dial \notin {"started", "handled"} /\ pipeline \in Pipe \cup {0}
    BY <2>1 DEF Stopped, Progress, ClientTypeOK
  <2>3. \A p \in Playing : p = pipeline \/ p \in stray
    BY <2>2 DEF Answers, Replaced, Attempt
  <2>4. Attempt' \subseteq stray' /\ Playing' \subseteq stray'
    BY <2>1, <2>2, <2>3, <1>22 DEF Attempt, Playing, Pipe
  <2>5. rtc' = "open" => place = "failed"
    BY <2>1, <1>22 DEF ClosePipeline, Stopped
  <2> QED
    BY <2>1, <2>4, <2>5 DEF Stopped
<1>23. ASSUME ReaderEnds PROVE Stopped'
  BY <1>23 DEF ReaderEnds, ClientTypeOK, Progress, Stopped, Attempt, Playing, Rest,
    rtcVars
<1>24. ASSUME OtherReturns PROVE Stopped'
  BY <1>24 DEF OtherReturns, LoopOnly, ClientTypeOK, Progress, Stopped, Attempt,
    Playing, Rest, rtcVars
<1>25. ASSUME NEW p \in Pipe, Dispatch(p) PROVE Stopped'
  BY <1>25 DEF Dispatch, LoopOnly, ClientTypeOK, Progress, Stopped, Attempt, Playing,
    Rest, rtcVars
<1>26. ASSUME NEW p \in Pipe, Retries(p) PROVE Stopped'
  BY <1>26 DEF Retries, LoopOnly, ClientTypeOK, Progress, Stopped, Attempt, Playing,
    Rest, rtcVars
<1>27. ASSUME RetryEnds PROVE Stopped'
  BY <1>27 DEF RetryEnds, LoopOnly, ClientTypeOK, Progress, Stopped, Attempt, Playing,
    Rest, rtcVars
<1>28. ASSUME RetryFails PROVE Stopped'
  BY <1>28 DEF RetryFails, LoopOnly, ClientTypeOK, Progress, Stopped, Attempt, Playing,
    Rest, rtcVars
<1>29. ASSUME RetryStarts PROVE Stopped'
  BY <1>29 DEF RetryStarts, LoopOnly, ClientTypeOK, Progress, Stopped, Attempt,
    Playing, Rest, rtcVars
<1>30. ASSUME RetryHandles PROVE Stopped'
  BY <1>30 DEF RetryHandles, LoopOnly, ClientTypeOK, Progress, Stopped, Attempt,
    Playing, Rest, rtcVars
<1>31. ASSUME RetryStores PROVE Stopped'
  BY <1>31 DEF RetryStores, LoopOnly, ClientTypeOK, Progress, Stopped, Attempt,
    Playing, Rest, rtcVars
<1>32. ASSUME UNCHANGED clientAll PROVE Stopped'
  <2>1. UNCHANGED <<rtc, place, closed, close, loop, stray, state>>
    BY <1>32 DEF clientAll
  <2> QED
    BY <2>1 DEF Stopped, Attempt, Playing
<1> QED
  BY <1>1, <1>2, <1>3, <1>4, <1>5, <1>6, <1>7, <1>8, <1>9, <1>10, <1>11, <1>12, <1>13,
    <1>14, <1>15, <1>16, <1>17, <1>18, <1>19, <1>20, <1>21, <1>22, <1>23, <1>24, <1>25,
    <1>26, <1>27, <1>28, <1>29, <1>30, <1>31, <1>32 DEF ClientNext, ClientEvent,
    ClientStep

-----------------------------------------------------------------------------
(* The invariants and what follows from them.                              *)

\* What the client does to its RTC is a step of the RTC.
LEMMA ClientRtc == [ClientNext]_clientAll => [RtcNext]_rtcVars
<1> SUFFICES ASSUME [ClientNext]_clientAll, ~(UNCHANGED rtcVars) PROVE RtcNext
  OBVIOUS
<1>1. CASE UNCHANGED clientAll
  BY <1>1 DEF clientAll, rtcVars
<1>2. CASE ClientEvent
  <2>1. CASE RtcEvent
    BY <2>1 DEF RtcNext
  <2> QED
    BY <1>2, <2>1 DEF ClientEvent, PipelineFails, OtherHandler, LoopOnly, Close, CloseMarks
<1>3. CASE ClientStep
  <2>1. CASE RtcStep
    BY <2>1 DEF RtcNext
  <2>2. CASE PlaceOpens \/ PlaceJoins \/ PlacePublishes \/ CloseConnector
    BY <2>2 DEF RtcNext, PlaceOpens, PlaceJoins, PlacePublishes, CloseConnector
  <2>3. CASE \/ Describe \/ DescribeFails \/ DialFails \/ DialStarts \/ DialHandles \/ DialStores
             \/ PlaceFails \/ PlacePanics \/ PublishFails \/ PlaceStores \/ ConnectReturns
             \/ ConnectCloses \/ ClosePipeline
    BY <2>3 DEF Describe, DescribeFails, DialFails, DialStarts, DialHandles, DialStores,
      DialOnly, PlaceFails, PlacePanics, PublishFails, PlaceStores, ConnectReturns,
      ConnectCloses, CloseMarks, ClosePipeline
  <2>4. CASE \/ ReaderEnds \/ OtherReturns \/ RetryEnds \/ RetryFails \/ RetryStarts
             \/ RetryHandles \/ RetryStores \/ \E p \in Pipe : Dispatch(p) \/ Retries(p)
    BY <2>4 DEF ReaderEnds, OtherReturns, RetryEnds, RetryFails, RetryStarts, RetryHandles,
      RetryStores, Dispatch, Retries, LoopOnly
  <2> QED
    BY <1>3, <2>1, <2>2, <2>3, <2>4 DEF ClientStep
<1> QED
  BY <1>1, <1>2, <1>3 DEF ClientNext

\* Nothing is gathered and nothing plays before Connect.
LEMMA ClientStart == ClientInit => CandidatesInv /\ ClosingInv
<1> SUFFICES ASSUME ClientInit PROVE CandidatesInv /\ ClosingInv
  OBVIOUS
<1>1. RtcTypeOK /\ Started
  BY DEF ClientInit, RtcInit, RtcTypeOK, Started
<1>2. Described /\ WithCallback /\ NotYet /\ Somewhere /\ InQueue /\ Once
  BY Belongs DEF ClientInit, RtcInit, Described, WithCallback, NotYet, Somewhere, InQueue,
    Once, AtQueue, Calls, Off, Idle
<1>3. ClientTypeOK
  BY DEF ClientInit, ClientTypeOK, Rest
<1>4. OneLive /\ Answers /\ Progress /\ Stopped
  BY DEF ClientInit, RtcInit, OneLive, Live, Replacing, Answers, Playing, Progress, Stopped, Rest
<1> QED
  BY <1>1, <1>2, <1>3, <1>4 DEF CandidatesInv, ClosingInv

\* For any candidates: where a candidate is between its callback and the SFU,
\* and who may have sent it, in every state of a client.
THEOREM CandidatesInvariant == ClientSpec => []CandidatesInv
<1>1. CandidatesInv /\ [ClientNext]_clientAll => CandidatesInv'
  BY ClientRtc, CandidatesStep
<1> QED
  BY <1>1, ClientStart, PTL DEF ClientSpec

\* Every candidate is queued until the description is set and sent from then
\* on, once, but for the two races the property names.
THEOREM CandidatesArriveHolds == ClientSpec => []CandidatesArrive
<1>1. CandidatesInv => CandidatesArrive
  <2> SUFFICES ASSUME CandidatesInv PROVE CandidatesArrive
    OBVIOUS
  <2>1. ASSUME NEW t \in Transport, Settled(t)
        PROVE  ~AtQueue(t) /\ (\A c : ~Calls(t, c)) /\ (Clearing(t) => FALSE)
    BY <2>1 DEF Settled, AtQueue, Calls, Clearing, Idle
  <2>2. ASSUME NEW t \in Transport \ remote
        PROVE  /\ \A c \in CandidatesOf(t) : sent[c] = 0
               /\ Settled(t) => Queue(t) = gathered \cap CandidatesOf(t)
    <3>1. \A c \in CandidatesOf(t) : sent[c] = 0 /\ c \notin raced
      BY DEF CandidatesInv, Described
    <3>2. ASSUME Settled(t), NEW c \in CandidatesOf(t) PROVE c \in sendQ <=> c \in gathered
      BY <2>1, <3>1, <3>2, Belongs DEF CandidatesInv, NotYet, Somewhere
    <3> QED
      BY <3>1, <3>2 DEF Queue
  <2>3. ASSUME NEW t \in remote, t \in Transport, Settled(t)
        PROVE  /\ Queue(t) \subseteq raced
               /\ \A c \in gathered \cap CandidatesOf(t) : sent[c] > 0 \/ c \in raced
    BY <2>1, <2>3 DEF CandidatesInv, InQueue, Somewhere, Queue
  <2>4. \A c \in Candidate : sent[c] > 1 => c \in sentTwice
    BY DEF CandidatesInv, Once
  <2> QED
    BY <2>2, <2>3, <2>4 DEF CandidatesArrive
<1> QED
  BY <1>1, CandidatesInvariant, PTL

\* For any number of pipelines and events: one pipeline lives at a time, who
\* plays is known, and what close has left.
THEOREM ClosingInvariant == ClientSpec => []ClosingInv
<1>1. ClosingInv /\ [ClientNext]_clientAll => ClosingInv'
  BY ClientTypeStep, OneLiveStep, AnswersStep, ProgressStep, StoppedStep DEF ClosingInv
<1> QED
  BY <1>1, ClientStart, PTL DEF ClientSpec

\* After Close no pipeline plays and no RTC is open, but a pipeline whose
\* attempt had looked before the client was closed, one that an older one
\* replaced, and the RTC of a Connect that failed after it was made.
THEOREM ClosedStopsHolds == ClientSpec => []ClosedStops
<1>1. ClosingInv => ClosedStops
  BY DEF ClosingInv, ClosedStops, AfterClose, Stopped
<1> QED
  BY <1>1, ClosingInvariant, PTL

-----------------------------------------------------------------------------
(* The recordings: fragments of a session and sessions do not overlap, the *)
(* entries of a session's metadata are in the order of their times, and as *)
(* long as a session writes over its oldest file only, the names of the    *)
(* entries follow each other around the ring.                              *)

RecordEntry == [name : Names, time : Nat \ {0}]
RecordFile  == [from : Nat, to : Nat]
Directory   == [files : [Names -> RecordFile], metadata : Seq(RecordEntry)]

RecordTypeOK ==
  /\ now \in Nat \ {0} /\ session \in Nat /\ running \in BOOLEAN /\ opened \in Nat
  /\ index \in 0 .. MaxRecordFiles
  /\ filing \in [name : Names, step : {"push", "write", "done"}]
  /\ filing.step = "done" => filing = Filed
  /\ metadata \in Seq(RecordEntry)
  /\ DOMAIN disk \subseteq 1 .. now /\ disk \in [DOMAIN disk -> Directory]
  /\ removing \subseteq DOMAIN disk

\* The current session is the last and has its directory.
SessionIsLast ==
  /\ session = 0 => ~running /\ filing = Filed
  /\ session # 0 => /\ session \in DOMAIN disk \ removing
                    /\ \A s \in DOMAIN disk : s <= session

\* Nothing else was recorded while a file was written.
FilesApart ==
  \A s \in DOMAIN disk, n \in Names :
    /\ \/ disk[s].files[n] = NoFile
       \/ /\ s <= disk[s].files[n].from
          /\ disk[s].files[n].from <= disk[s].files[n].to
          /\ disk[s].files[n].to <= now
    /\ \A t \in DOMAIN disk : s < t => disk[s].files[n].to <= t
    /\ \A m \in Names : disk[s].files[n].from < disk[s].files[m].from
                          => disk[s].files[n].to <= disk[s].files[m].from

OpenedLast ==
  opened > 0 => session # 0 /\ \A n \in Names : disk[session].files[n].from <= opened

\* The fragment whose goroutine has yet to push it is the newest.
JustOpened ==
  filing.step = "push" =>
    /\ disk[session].files[filing.name] = [from |-> now, to |-> now]
    /\ \A n \in Names \ {filing.name} : disk[session].files[n].from < now
    /\ \A i \in DOMAIN metadata : metadata[i].time < now
    /\ running => index = filing.name + 1

\* What entries say of files.
Dated(list, files) ==
  /\ \A i, j \in DOMAIN list : i < j => list[i].time < list[j].time
  /\ \A i \in DOMAIN list :
       /\ \E n \in Names : list[i].time <= files[n].from
       /\ \A n \in Names : /\ files[n].from = list[i].time => list[i].name = n
                           /\ files[n].from < list[i].time => files[n].to <= list[i].time

\* Each entry's file is there, or written over by a fragment with no entry.
Matches(list, files) ==
  \A i \in DOMAIN list :
    \/ files[list[i].name].from = list[i].time
    \/ /\ files[list[i].name].from > 0
       /\ \A j \in DOMAIN list : list[j].time # files[list[i].name].from

NextName(n) == IF n = MaxRecordFiles - 1 THEN 0 ELSE n + 1

\* Until the ring is full the names are given from the first; then they follow
\* each other, and the next is the oldest entry's.
Filling(files) ==
  /\ \A i \in DOMAIN metadata : metadata[i].name = i - 1
  /\ \A m \in Names :
       files[m] # NoFile => m < Len(metadata) \/ (filing.step = "push" /\ m = Len(metadata))
  /\ filing.step = "push" => filing.name = Len(metadata)
  /\ running /\ filing.step # "push" => index = Len(metadata)

Full(files) ==
  /\ \A i \in DOMAIN metadata :
       i < MaxRecordFiles => metadata[i + 1].name = NextName(metadata[i].name)
  /\ metadata[1].name = NextName(metadata[MaxRecordFiles].name)
  /\ \A m \in Names : files[m] # NoFile
  /\ filing.step = "push" => filing.name = metadata[1].name
  /\ running /\ filing.step # "push" => index % MaxRecordFiles = metadata[1].name

Ring(files) ==
  /\ Len(metadata) <= MaxRecordFiles
  /\ \A i \in DOMAIN metadata :
       \/ filing.step = "push" /\ i = 1 /\ Len(metadata) = MaxRecordFiles
       \/ files[metadata[i].name].from = metadata[i].time
  /\ Len(metadata) < MaxRecordFiles => Filling(files)
  /\ Len(metadata) = MaxRecordFiles => Full(files)

\* Every session's entries, and those of the current session in memory.
EntriesDated ==
  /\ session # 0 => Dated(metadata, disk[session].files)
  /\ \A s \in DOMAIN disk : Dated(disk[s].metadata, disk[s].files)

EntriesMatch == \A s \in DOMAIN disk \ reused : Matches(disk[s].metadata, disk[s].files)

InRing == session # 0 /\ session \notin reused => Ring(disk[session].files)

RecordInv ==
  /\ RecordTypeOK /\ SessionIsLast /\ FilesApart /\ OpenedLast /\ JustOpened
  /\ EntriesDated /\ EntriesMatch /\ InRing

\* Indices around the ring.
LEMMA RingIndex ==
  ASSUME NEW x \in 0 .. MaxRecordFiles
  PROVE  x % MaxRecordFiles = IF x = MaxRecordFiles THEN 0 ELSE x
<1> DEFINE M == MaxRecordFiles
<1>1. M \in Nat /\ M > 0
  BY RecordAssumption
<1> HIDE DEF M
<1>2. CASE x = M
  <2>1. (M * 1 + 0) % M = 0
    BY <1>1
  <2> QED
    BY <1>1, <1>2, <2>1 DEF M
<1>3. CASE x # M
  <2>1. x \in 0 .. M - 1
    BY <1>1, <1>3 DEF M
  <2>2. x % M = x
    BY <1>1, <2>1
  <2> QED
    BY <1>3, <2>2 DEF M
<1> QED
  BY <1>2, <1>3

LEMMA FollowsTheLast ==
  ASSUME NEW first \in Names, NEW last \in Names,
         last = (first + MaxRecordFiles - 1) % MaxRecordFiles
  PROVE  first = NextName(last)
<1> DEFINE M == MaxRecordFiles
<1>1. M \in Nat /\ M > 0 /\ first \in 0 .. M - 1 /\ last = (first + M - 1) % M
  BY RecordAssumption DEF Names
<1> HIDE DEF M
<1>2. CASE first = 0
  <2>1. first + M - 1 = M - 1 /\ M - 1 \in 0 .. M - 1
    BY <1>1, <1>2
  <2>2. (M - 1) % M = M - 1
    BY <1>1, <2>1
  <2> QED
    BY <1>1, <1>2, <2>1, <2>2 DEF NextName, M
<1>3. CASE first # 0
  <2>1. first + M - 1 = M * 1 + (first - 1) /\ first - 1 \in 0 .. M - 1
    BY <1>1, <1>3
  <2>2. (M * 1 + (first - 1)) % M = first - 1
    <3> DEFINE r == first - 1
    <3>1. r \in 0 .. M - 1
      BY <2>1
    <3> HIDE DEF r
    <3>2. (M * 1 + r) % M = r
      BY <1>1, <3>1
    <3> QED
      BY <3>2 DEF r
  <2>3. last = first - 1
    BY <1>1, <2>1, <2>2
  <2>4. last # M - 1 /\ first = last + 1
    BY <1>1, <1>3, <2>3
  <2> QED
    BY <2>4 DEF NextName, M
<1> QED
  BY <1>2, <1>3

\* A later entry comes last.
LEMMA InsertedLast ==
  ASSUME NEW list \in Seq(RecordEntry), NEW entry \in RecordEntry,
         \A i \in DOMAIN list : list[i].time < entry.time
  PROVE  InsertSorted(list, entry) = Append(list, entry)
<1> DEFINE n == Len(list)
<1>1. n \in Nat /\ DOMAIN list = 1 .. n
  BY LenProperties
<1>2. \A i \in 1 .. n : list[i].time \in Nat /\ entry.time \in Nat
  <2>1. \A i \in 1 .. n : list[i] \in RecordEntry
    BY ElementOfSeq
  <2> QED
    BY <2>1 DEF RecordEntry
<1>3. {i \in DOMAIN list : list[i].time <= entry.time} = 1 .. n
  <2>1. \A i \in 1 .. n : list[i].time <= entry.time
    <3> SUFFICES ASSUME NEW i \in 1 .. n PROVE list[i].time <= entry.time
      OBVIOUS
    <3>1. list[i].time < entry.time
      BY <1>1
    <3> QED
      BY <1>2, <3>1
  <2> QED
    BY <1>1, <2>1
<1>4. Cardinality(1 .. n) = n
  BY <1>1, FS_Interval
<1>5. InsertSorted(list, entry) = InsertAt(list, 1 + n, entry)
  BY <1>3, <1>4 DEF InsertSorted
<1>6. (1 + n) - 1 = n /\ n < 1 + n /\ 1 + n \in Int /\ n \in Int
  BY <1>1
<1>7. InsertAt(list, 1 + n, entry) = SubSeq(list, 1, n) \o <<entry>> \o SubSeq(list, 1 + n, n)
  BY <1>6 DEF InsertAt
<1>8. SubSeq(list, 1 + n, n) = <<>>
  BY <1>6, SubSeqEmpty
<1>9. SubSeq(list, 1, n) = list
  BY SubSeqFull
<1>10. list \o <<entry>> \in Seq(RecordEntry) /\ (list \o <<entry>>) \o <<>> = list \o <<entry>>
  BY ConcatProperties, ConcatEmptySeq
<1> QED
  BY <1>5, <1>7, <1>8, <1>9, <1>10, AppendIsConcat

LEMMA RecordStart == RecordInit => RecordInv
<1> SUFFICES ASSUME RecordInit PROVE RecordInv
  OBVIOUS
<1>1. /\ now = 1 /\ session = 0 /\ running = FALSE /\ index = 0 /\ opened = 0
      /\ filing = Filed /\ metadata = <<>> /\ DOMAIN disk = {} /\ removing = {}
  BY DEF RecordInit
<1>2. metadata \in Seq(RecordEntry)
  BY <1>1, EmptySeq
<1>3. Filed \in [name : Names, step : {"push", "write", "done"}] /\ Filed.step = "done"
  BY RecordAssumption DEF Filed, Names
<1>4. index \in 0 .. MaxRecordFiles
  BY <1>1, RecordAssumption
<1>5. disk \in [DOMAIN disk -> Directory]
  BY DEF RecordInit
<1>6. RecordTypeOK
  <2>1. /\ now \in Nat \ {0} /\ session \in Nat /\ opened \in Nat
        /\ DOMAIN disk \subseteq 1 .. now /\ removing \subseteq DOMAIN disk
    BY <1>1
  <2>2. running \in BOOLEAN
    BY <1>1
  <2> QED
    BY <1>1, <1>2, <1>3, <1>4, <1>5, <2>1, <2>2 DEF RecordTypeOK
<1>7. SessionIsLast /\ FilesApart /\ OpenedLast /\ JustOpened
  BY <1>1, <1>3 DEF SessionIsLast, FilesApart, OpenedLast, JustOpened
<1>8. EntriesDated /\ EntriesMatch /\ InRing
  BY <1>1 DEF EntriesDated, EntriesMatch, InRing
<1> QED
  BY <1>6, <1>7, <1>8 DEF RecordInv

\* The end of a pipeline, and of a session.
LEMMA FailKeeps == RecordInv /\ FailPipeline => RecordInv'
<1> SUFFICES ASSUME RecordInv, FailPipeline PROVE RecordInv'
  OBVIOUS
<1>1. /\ running' = FALSE /\ index' = 0 /\ opened' = 0 /\ running
      /\ UNCHANGED <<now, session, filing, metadata, disk, removing, reused>>
  BY DEF FailPipeline
<1>2. 0 \in 0 .. MaxRecordFiles
  BY RecordAssumption
<1>3. RecordTypeOK' /\ SessionIsLast' /\ FilesApart' /\ OpenedLast' /\ JustOpened'
  <2>1. RecordTypeOK'
    BY <1>1, <1>2 DEF RecordInv, RecordTypeOK
  <2>2. SessionIsLast' /\ FilesApart'
    BY <1>1 DEF RecordInv, SessionIsLast, FilesApart
  <2>3. OpenedLast' /\ JustOpened'
    BY <1>1 DEF RecordInv, OpenedLast, JustOpened
  <2> QED
    BY <2>1, <2>2, <2>3
<1>4. EntriesDated' /\ EntriesMatch'
  BY <1>1 DEF RecordInv, EntriesDated, EntriesMatch
<1>5. InRing'
  BY <1>1 DEF RecordInv, InRing, Ring, Filling, Full
<1> QED
  BY <1>3, <1>4, <1>5 DEF RecordInv

LEMMA SessionEnds ==
  ASSUME RecordInv, session' = 0, running' = FALSE, index' = 0, opened' = 0, metadata' = <<>>,
         filing' = Filed, removing' \subseteq DOMAIN disk, UNCHANGED <<now, disk, reused>>
  PROVE  RecordInv'
<1>1. <<>> \in Seq(RecordEntry)
  BY EmptySeq
<1>2. Filed \in [name : Names, step : {"push", "write", "done"}] /\ Filed.step = "done"
  BY RecordAssumption DEF Filed, Names
<1>3. 0 \in 0 .. MaxRecordFiles
  BY RecordAssumption
<1>4. RecordTypeOK' /\ SessionIsLast' /\ FilesApart' /\ OpenedLast' /\ JustOpened'
  <2>1. RecordTypeOK'
    BY <1>1, <1>2, <1>3 DEF RecordInv, RecordTypeOK
  <2>2. SessionIsLast' /\ FilesApart'
    BY DEF RecordInv, SessionIsLast, FilesApart
  <2>3. OpenedLast' /\ JustOpened'
    BY <1>2 DEF RecordInv, OpenedLast, JustOpened
  <2> QED
    BY <2>1, <2>2, <2>3
<1>5. EntriesDated' /\ EntriesMatch' /\ InRing'
  BY DEF RecordInv, EntriesDated, EntriesMatch, InRing
<1> QED
  BY <1>4, <1>5 DEF RecordInv

LEMMA CloseSessionKeeps == RecordInv /\ CloseSession => RecordInv'
<1> SUFFICES ASSUME RecordInv, CloseSession PROVE RecordInv'
  OBVIOUS
<1>1. removing' \subseteq DOMAIN disk
  BY DEF CloseSession, RecordInv, RecordTypeOK, SessionIsLast
<1> QED
  BY <1>1, SessionEnds DEF CloseSession

LEMMA CrashControllerKeeps == RecordInv /\ CrashController => RecordInv'
BY SessionEnds DEF CrashController

LEMMA RemoveDirectoryKeeps == RecordInv /\ RemoveDirectory => RecordInv'
<1> SUFFICES ASSUME RecordInv, NEW r \in removing,
                    disk' = [s \in DOMAIN disk \ {r} |-> disk[s]],
                    removing' = removing \ {r},
                    UNCHANGED <<now, session, running, index, opened, metadata, filing, reused>>
             PROVE  RecordInv'
  BY DEF RemoveDirectory
<1>1. DOMAIN disk' = DOMAIN disk \ {r} /\ \A s \in DOMAIN disk' : disk'[s] = disk[s]
  OBVIOUS
<1>2. session # 0 => session \in DOMAIN disk' /\ disk'[session] = disk[session]
  BY <1>1 DEF RecordInv, SessionIsLast
<1>3. disk' \in [DOMAIN disk' -> Directory]
  BY <1>1 DEF RecordInv, RecordTypeOK
<1>4. RecordTypeOK'
  BY <1>1, <1>3 DEF RecordInv, RecordTypeOK
<1>5. SessionIsLast' /\ OpenedLast'
  BY <1>1, <1>2 DEF RecordInv, SessionIsLast, OpenedLast
<1>6. FilesApart'
  BY <1>1 DEF RecordInv, FilesApart
<1>7. JustOpened'
  <2>1. filing.step = "push" => session # 0
    BY DEF RecordInv, SessionIsLast, Filed
  <2> QED
    BY <1>2, <2>1 DEF RecordInv, JustOpened
<1>8. EntriesDated' /\ EntriesMatch'
  BY <1>1, <1>2 DEF RecordInv, EntriesDated, EntriesMatch
<1>9. InRing'
  <2> SUFFICES ASSUME session # 0, session \notin reused PROVE Ring(disk[session].files)'
    BY DEF InRing
  <2>1. Ring(disk[session].files) /\ disk'[session] = disk[session]
    BY <1>2 DEF RecordInv, InRing
  <2> QED
    BY <2>1 DEF Ring, Filling, Full
<1> QED
  BY <1>4, <1>5, <1>6, <1>7, <1>8, <1>9 DEF RecordInv

\* A set of names that is not empty has a largest.
LEMMA LargestOf ==
  ASSUME NEW S, S \subseteq Names, S # {}
  PROVE  \E k \in S : \A m \in S : m <= k
<1> DEFINE R == OpToRel(<, Nat)
           T == {MaxRecordFiles - k : k \in S}
<1>1. MaxRecordFiles \in Nat /\ \A k \in S : k \in Nat /\ MaxRecordFiles - k \in Nat
  BY RecordAssumption DEF Names
<1>2. IsWellFoundedOn(R, Nat)
  BY NatLessThanWellFounded
<1>3. \A x, y \in Nat : <<y, x>> \in R <=> y < x
  BY DEF OpToRel
<1>4. T \subseteq Nat /\ T # {}
  BY <1>1
<1> HIDE DEF R
<1>5. PICK x \in T : \A y \in T : ~ (<<y, x>> \in R)
  <2> HIDE DEF T
  <2> QED
    BY <1>2, <1>4, WFMin
<1>6. PICK k \in S : x = MaxRecordFiles - k
  BY <1>5
<1>7. ASSUME NEW m \in S PROVE m <= k
  <2>1. MaxRecordFiles - m \in T /\ MaxRecordFiles - m \in Nat /\ x \in Nat
    BY <1>1, <1>4, <1>5
  <2>2. ~(MaxRecordFiles - m < x)
    BY <1>3, <1>5, <2>1
  <2> QED
    BY <1>1, <1>6, <2>2
<1> QED
  BY <1>7

\* A new session is the last, and has recorded nothing.
LEMMA StartSessionKeeps == RecordInv /\ StartSession => RecordInv'
<1> SUFFICES ASSUME RecordInv, StartSession PROVE RecordInv'
  OBVIOUS
<1> DEFINE new == [files |-> [n \in Names |-> NoFile], metadata |-> <<>>]
<1>1. /\ session = 0 /\ now \notin DOMAIN disk /\ session' = now /\ metadata' = <<>>
      /\ disk' = [s \in DOMAIN disk \cup {now} |-> IF s = now THEN new ELSE disk[s]]
      /\ UNCHANGED <<now, running, index, opened, filing, removing, reused>>
  BY DEF StartSession
<1>2. new \in Directory
  <2>1. <<>> \in Seq(RecordEntry)
    BY EmptySeq
  <2>2. [n \in Names |-> NoFile] \in [Names -> RecordFile]
    BY DEF NoFile, RecordFile
  <2> QED
    BY <2>1, <2>2 DEF Directory
<1>3. /\ \A n \in Names : new.files[n] = NoFile
      /\ new.metadata = <<>> /\ DOMAIN new.metadata = {}
  OBVIOUS
<1> HIDE DEF new
<1>4. /\ DOMAIN disk' = DOMAIN disk \cup {now} /\ disk'[now] = new
      /\ \A s \in DOMAIN disk : s # now /\ disk'[s] = disk[s]
  BY <1>1
<1>5. /\ now \in Nat /\ now > 0 /\ ~running /\ filing = Filed /\ filing.step = "done"
      /\ opened = 0 /\ \A s \in DOMAIN disk : s \in 1 .. now /\ s < now
  <2>1. now \in Nat /\ now > 0 /\ DOMAIN disk \subseteq 1 .. now /\ opened \in Nat
    BY DEF RecordInv, RecordTypeOK
  <2>2. \A s \in DOMAIN disk : s \in 1 .. now /\ s < now
    BY <1>1, <2>1
  <2>3. ~running /\ filing = Filed /\ ~(opened > 0)
    BY <1>1 DEF RecordInv, SessionIsLast, OpenedLast
  <2> QED
    BY <2>1, <2>2, <2>3 DEF Filed
<1>6. RecordTypeOK'
  <2>1. disk' \in [DOMAIN disk' -> Directory]
    BY <1>1, <1>2, <1>4 DEF RecordInv, RecordTypeOK
  <2>2. metadata' \in Seq(RecordEntry)
    BY <1>1, EmptySeq
  <2>3. DOMAIN disk' \subseteq 1 .. now /\ removing \subseteq DOMAIN disk'
    BY <1>4, <1>5 DEF RecordInv, RecordTypeOK
  <2> QED
    BY <1>1, <1>5, <2>1, <2>2, <2>3 DEF RecordInv, RecordTypeOK
<1>7. SessionIsLast'
  <2>1. now \notin removing
    BY <1>1 DEF RecordInv, RecordTypeOK
  <2> QED
    BY <1>1, <1>4, <1>5, <2>1 DEF SessionIsLast
<1>8. FilesApart'
  <2>1. \A s \in DOMAIN disk, n \in Names : disk[s].files[n].to <= now
    <3> SUFFICES ASSUME NEW s \in DOMAIN disk, NEW n \in Names
                 PROVE  disk[s].files[n].to <= now
      OBVIOUS
    <3>1. CASE disk[s].files[n] = NoFile
      BY <1>5, <3>1 DEF NoFile
    <3>2. CASE disk[s].files[n] # NoFile
      BY <3>2 DEF RecordInv, FilesApart
    <3> QED
      BY <3>1, <3>2
  <2> SUFFICES ASSUME NEW s \in DOMAIN disk', NEW n \in Names
               PROVE  /\ \/ disk'[s].files[n] = NoFile
                         \/ /\ s <= disk'[s].files[n].from
                            /\ disk'[s].files[n].from <= disk'[s].files[n].to
                            /\ disk'[s].files[n].to <= now
                      /\ \A t \in DOMAIN disk' : s < t => disk'[s].files[n].to <= t
                      /\ \A m \in Names : disk'[s].files[n].from < disk'[s].files[m].from
                                            => disk'[s].files[n].to <= disk'[s].files[m].from
    BY <1>1 DEF FilesApart
  <2>2. CASE s \in DOMAIN disk
    BY <1>4, <2>1, <2>2 DEF RecordInv, FilesApart
  <2>3. CASE s = now
    <3>1. \A t \in DOMAIN disk' : ~(s < t)
      BY <1>4, <1>5, <2>3
    <3>2. NoFile.from = 0 /\ ~(0 < 0)
      BY DEF NoFile
    <3> QED
      BY <1>3, <1>4, <2>3, <3>1, <3>2
  <2> QED
    BY <1>4, <2>2, <2>3
<1>9. OpenedLast' /\ JustOpened'
  BY <1>1, <1>5 DEF OpenedLast, JustOpened
<1>10. EntriesDated'
  <2>1. Dated(new.metadata, new.files)
    BY <1>3 DEF Dated
  <2>2. Dated(metadata', new.files)
    BY <1>1, <1>3, <2>1
  <2> QED
    BY <1>1, <1>4, <2>1, <2>2 DEF RecordInv, EntriesDated
<1>11. EntriesMatch'
  <2>1. Matches(new.metadata, new.files)
    BY <1>3 DEF Matches
  <2> QED
    BY <1>1, <1>4, <2>1 DEF RecordInv, EntriesMatch
<1>12. InRing'
  <2>1. Len(<<>>) = 0 /\ DOMAIN (<<>>) = {}
    OBVIOUS
  <2>2. Len(metadata') = 0 /\ DOMAIN metadata' = {}
    BY <1>1, <2>1
  <2>3. 0 < MaxRecordFiles /\ 0 <= MaxRecordFiles /\ 0 # MaxRecordFiles
    BY RecordAssumption
  <2>4. Filling(disk[session].files)'
    BY <1>1, <1>3, <1>4, <1>5, <2>2 DEF Filling
  <2>5. Ring(disk[session].files)'
    BY <2>2, <2>3, <2>4 DEF Ring
  <2> QED
    BY <2>5 DEF InRing
<1> QED
  BY <1>6, <1>7, <1>8, <1>9, <1>10, <1>11, <1>12 DEF RecordInv

\* The index a new pipeline starts at is the place of the next name.
LEMMA StartPipelineKeeps == RecordInv /\ StartPipeline => RecordInv'
<1> SUFFICES ASSUME RecordInv, StartPipeline PROVE RecordInv'
  OBVIOUS
<1> DEFINE files == disk[session].files
           first == GetIndex(files) % MaxRecordFiles
           n     == Len(metadata)
<1>1. /\ session # 0 /\ ~running /\ filing = Filed /\ running' = TRUE /\ index' = first
      /\ reused' = IF /\ Used(files) = Names
                      /\ Last(metadata).name # (first + MaxRecordFiles - 1) % MaxRecordFiles
                   THEN reused \cup {session} ELSE reused
      /\ opened' = 0
      /\ UNCHANGED <<now, session, filing, metadata, disk, removing>>
  BY DEF StartPipeline
<1>2. MaxRecordFiles \in Nat /\ MaxRecordFiles > 0
  BY RecordAssumption
<1>3. Used(files) \subseteq Names
  BY DEF Used
<1>4. GetIndex(files) \in 0 .. MaxRecordFiles
  <2>1. CASE Used(files) = {}
    BY <1>2, <2>1 DEF GetIndex
  <2>2. CASE Used(files) # {}
    <3>1. \E k \in Used(files) : \A m \in Used(files) : m <= k
      BY <1>2, <1>3, <2>2, LargestOf
    <3>2. (CHOOSE k \in Used(files) : \A m \in Used(files) : m <= k) \in Names
      BY <1>3, <3>1
    <3> QED
      BY <1>2, <2>2, <3>2 DEF GetIndex, Names
  <2> QED
    BY <2>1, <2>2
<1>5. first \in Names /\ first \in 0 .. MaxRecordFiles
  <2>1. first = IF GetIndex(files) = MaxRecordFiles THEN 0 ELSE GetIndex(files)
    BY <1>4, RingIndex
  <2> QED
    BY <1>2, <1>4, <2>1 DEF Names
<1> HIDE DEF first
<1>6. RecordTypeOK'
  <2>1. running' \in BOOLEAN
    BY <1>1
  <2> QED
    BY <1>1, <1>5, <2>1 DEF RecordInv, RecordTypeOK
<1>7. SessionIsLast' /\ FilesApart'
  BY <1>1 DEF RecordInv, SessionIsLast, FilesApart
<1>8. OpenedLast' /\ JustOpened'
  <2>1. filing.step # "push"
    BY <1>1 DEF Filed
  <2> QED
    BY <1>1, <2>1 DEF OpenedLast, JustOpened
<1>9. EntriesDated' /\ EntriesMatch'
  BY <1>1 DEF RecordInv, EntriesDated, EntriesMatch
<1>10. InRing'
  <2> SUFFICES ASSUME session \notin reused' PROVE Ring(files)'
    BY <1>1 DEF InRing
  <2>1. session \notin reused /\ Ring(files)
    BY <1>1 DEF RecordInv, InRing
  <2>2. filing.step = "done"
    BY <1>1 DEF Filed
  <2>3. n \in Nat /\ DOMAIN metadata = 1 .. n /\ metadata \in [1 .. n -> RecordEntry]
    BY LenProperties DEF RecordInv, RecordTypeOK
  <2> HIDE DEF n
  <2>4. \A i \in 1 .. n : files[metadata[i].name].from = metadata[i].time
    BY <2>1, <2>2, <2>3 DEF Ring
  <2>5. CASE n < MaxRecordFiles
    <3>1. /\ \A i \in 1 .. n : metadata[i].name = i - 1
          /\ \A m \in Names : files[m] # NoFile => m < n
      BY <2>1, <2>2, <2>3, <2>5 DEF Ring, Filling, n
    <3>2. \A m \in Names : m < n => files[m] # NoFile
      <4> SUFFICES ASSUME NEW m \in Names, m < n, files[m] = NoFile PROVE FALSE
        OBVIOUS
      <4>1. m + 1 \in 1 .. n /\ (m + 1) - 1 = m
        BY <2>3 DEF Names
      <4>2. metadata[m + 1].name = m /\ files[m].from = metadata[m + 1].time
        BY <2>4, <3>1, <4>1
      <4>3. metadata[m + 1].time # 0
        BY <2>3, <4>1 DEF RecordEntry
      <4> QED
        BY <4>2, <4>3 DEF NoFile
    <3>3. Used(files) = {m \in Names : m < n}
      BY <3>1, <3>2 DEF Used
    <3>4. GetIndex(files) = n
      <4>1. CASE n = 0
        <5>1. Used(files) = {}
          BY <3>3, <4>1 DEF Names
        <5> QED
          BY <4>1, <5>1 DEF GetIndex
      <4>2. CASE n # 0
        <5>1. /\ n - 1 \in Used(files) /\ \A m \in Used(files) : m <= n - 1
              /\ Used(files) \subseteq Int
          BY <1>2, <2>3, <2>5, <3>3, <4>2 DEF Names
        <5>2. (CHOOSE k \in Used(files) : \A m \in Used(files) : m <= k) = n - 1
          <6> DEFINE k == CHOOSE k \in Used(files) : \A m \in Used(files) : m <= k
          <6>1. k \in Used(files) /\ \A m \in Used(files) : m <= k
            BY <5>1
          <6> HIDE DEF k
          <6>2. n - 1 <= k /\ k <= n - 1 /\ k \in Int /\ n - 1 \in Int
            BY <2>3, <5>1, <6>1
          <6>3. k = n - 1
            BY <6>2
          <6> QED
            BY <6>3 DEF k
        <5>3. Used(files) # {}
          BY <5>1
        <5>4. 1 + (n - 1) = n
          BY <2>3
        <5> QED
          BY <5>2, <5>3, <5>4 DEF GetIndex
      <4> QED
        BY <4>1, <4>2
    <3>5. first = n
      <4>1. n \in 0 .. MaxRecordFiles /\ n # MaxRecordFiles
        BY <1>2, <2>3, <2>5
      <4>2. n % MaxRecordFiles = n
        BY <4>1, RingIndex
      <4> QED
        BY <3>4, <4>2 DEF first
    <3>6. n # MaxRecordFiles /\ n <= MaxRecordFiles
      BY <1>2, <2>3, <2>5
    <3>7. Filling(files)'
      BY <1>1, <2>2, <2>3, <3>1, <3>5 DEF Filling, n
    <3> QED
      BY <1>1, <2>3, <2>4, <3>6, <3>7 DEF Ring, n
  <2>6. CASE n = MaxRecordFiles
    <3>1. /\ \A i \in 1 .. n : i < n => metadata[i + 1].name = NextName(metadata[i].name)
          /\ metadata[1].name = NextName(metadata[n].name)
          /\ \A m \in Names : files[m] # NoFile
      BY <2>1, <2>2, <2>3, <2>6 DEF Ring, Full, n
    <3>2. Used(files) = Names
      BY <3>1 DEF Used
    <3>3. metadata[n].name = (first + MaxRecordFiles - 1) % MaxRecordFiles
      BY <1>1, <2>6, <3>2 DEF Last, n
    <3>4. metadata[n].name \in Names /\ metadata[1].name \in Names
      <4>1. n \in 1 .. n /\ 1 \in 1 .. n
        BY <1>2, <2>3, <2>6
      <4> QED
        BY <2>3, <4>1 DEF RecordEntry
    <3>5. first = metadata[1].name
      BY <1>5, <3>1, <3>3, <3>4, FollowsTheLast
    <3>6. first % MaxRecordFiles = first
      <4>1. first # MaxRecordFiles
        BY <1>2, <1>5 DEF Names
      <4> QED
        BY <1>5, <4>1, RingIndex
    <3>7. Full(files)'
      BY <1>1, <2>2, <2>3, <2>6, <3>1, <3>5, <3>6 DEF Full, n
    <3>8. ~(n < MaxRecordFiles) /\ n <= MaxRecordFiles
      BY <1>2, <2>6
    <3> QED
      BY <1>1, <2>3, <2>4, <3>7, <3>8 DEF Ring, n
  <2>7. n <= MaxRecordFiles
    BY <2>1 DEF Ring, n
  <2> QED
    BY <1>2, <2>3, <2>5, <2>6, <2>7
<1> QED
  BY <1>6, <1>7, <1>8, <1>9, <1>10 DEF RecordInv

\* Files are not from the future.
LEMMA FilesPast ==
  ASSUME RecordInv, NEW s \in DOMAIN disk, NEW n \in Names
  PROVE  /\ disk[s].files[n].from \in Nat /\ disk[s].files[n].to \in Nat
         /\ disk[s].files[n].from <= now /\ disk[s].files[n].to <= now
         /\ disk[s].files[n].from <= disk[s].files[n].to
<1>1. disk[s].files[n] \in RecordFile /\ now \in Nat
  BY DEF RecordInv, RecordTypeOK, Directory
<1>2. disk[s].files[n].from \in Nat /\ disk[s].files[n].to \in Nat
  BY <1>1 DEF RecordFile
<1>3. CASE disk[s].files[n] = NoFile
  BY <1>1, <1>3 DEF NoFile
<1>4. CASE disk[s].files[n] # NoFile
  BY <1>1, <1>2, <1>4 DEF RecordInv, FilesApart
<1> QED
  BY <1>2, <1>3, <1>4

\* What a step that changes files of the current session leaves alone.
LEMMA OpenFragmentFiles ==
  ASSUME RecordInv, OpenFragment
  PROVE  \E name \in Names :
           /\ session \in DOMAIN disk /\ session # 0 /\ running
           /\ name = index % MaxRecordFiles
           /\ \A n \in Names : disk[session].files[n].from < now
           /\ DOMAIN disk' = DOMAIN disk /\ disk' \in [DOMAIN disk -> Directory]
           /\ \A s \in DOMAIN disk : s # session => disk'[s] = disk[s]
           /\ disk'[session].metadata = disk[session].metadata
           /\ disk'[session].files[name] = [from |-> now, to |-> now]
           /\ \A n \in Names \ {name} : disk'[session].files[n] = disk[session].files[n]
           /\ filing.step = "done" /\ filing' = [name |-> name, step |-> "push"]
           /\ index' = name + 1 /\ opened' = now
           /\ UNCHANGED <<now, session, running, metadata, removing, reused>>
<1> DEFINE name == index % MaxRecordFiles
           file == [from |-> now, to |-> now]
<1>1. /\ running /\ filing = Filed
      /\ \A n \in Names : disk[session].files[n].from < now
      /\ disk' = [disk EXCEPT ![session].files[name] = file]
      /\ filing' = [name |-> name, step |-> "push"]
      /\ index' = name + 1 /\ opened' = now
      /\ UNCHANGED <<now, session, running, metadata, removing, reused>>
  BY DEF OpenFragment
<1>2. name \in Names
  <2>1. index \in 0 .. MaxRecordFiles /\ MaxRecordFiles \in Nat /\ MaxRecordFiles > 0
    BY RecordAssumption DEF RecordInv, RecordTypeOK
  <2>2. name = IF index = MaxRecordFiles THEN 0 ELSE index
    BY <2>1, RingIndex
  <2> QED
    BY <2>1, <2>2 DEF Names
<1>3. file \in RecordFile
  BY DEF RecordFile, RecordInv, RecordTypeOK
<1> HIDE DEF name, file
<1>4. session \in DOMAIN disk /\ session # 0
  BY <1>1 DEF RecordInv, SessionIsLast
<1>5. disk[session] \in Directory /\ disk \in [DOMAIN disk -> Directory]
  BY <1>4 DEF RecordInv, RecordTypeOK
<1> DEFINE dir == [disk[session] EXCEPT !.files[name] = file]
<1>6. /\ dir \in Directory /\ dir.metadata = disk[session].metadata
      /\ dir.files[name] = file
      /\ \A n \in Names \ {name} : dir.files[n] = disk[session].files[n]
  BY <1>2, <1>3, <1>5 DEF Directory
<1>7. disk' = [disk EXCEPT ![session] = dir]
  BY <1>1, <1>4, <1>5
<1> HIDE DEF dir
<1>8. /\ DOMAIN disk' = DOMAIN disk /\ disk' \in [DOMAIN disk -> Directory]
      /\ disk'[session] = dir /\ \A s \in DOMAIN disk : s # session => disk'[s] = disk[s]
  BY <1>4, <1>5, <1>6, <1>7
<1> QED
  BY <1>1, <1>2, <1>4, <1>6, <1>8 DEF Filed, name, file

\* A fragment that is opened now is the newest file, and takes a name that no
\* entry has or the oldest one's.
LEMMA OpenFragmentKeeps == RecordInv /\ OpenFragment => RecordInv'
<1> SUFFICES ASSUME RecordInv, OpenFragment PROVE RecordInv'
  OBVIOUS
<1>1. PICK name \in Names :
           /\ session \in DOMAIN disk /\ session # 0 /\ running
           /\ name = index % MaxRecordFiles
           /\ \A n \in Names : disk[session].files[n].from < now
           /\ DOMAIN disk' = DOMAIN disk /\ disk' \in [DOMAIN disk -> Directory]
           /\ \A s \in DOMAIN disk : s # session => disk'[s] = disk[s]
           /\ disk'[session].metadata = disk[session].metadata
           /\ disk'[session].files[name] = [from |-> now, to |-> now]
           /\ \A n \in Names \ {name} : disk'[session].files[n] = disk[session].files[n]
           /\ filing.step = "done" /\ filing' = [name |-> name, step |-> "push"]
           /\ index' = name + 1 /\ opened' = now
           /\ UNCHANGED <<now, session, running, metadata, removing, reused>>
  BY OpenFragmentFiles
<1> DEFINE old == disk[session].files
           new == disk'[session].files
<1>2. /\ now \in Nat /\ now > 0 /\ session \in 1 .. now
      /\ \A t \in DOMAIN disk : t <= session
      /\ MaxRecordFiles \in Nat /\ MaxRecordFiles > 0
      /\ name \in Nat /\ name + 1 \in 0 .. MaxRecordFiles
  <2>1. name \in 0 .. MaxRecordFiles - 1 /\ MaxRecordFiles \in Nat /\ MaxRecordFiles > 0
    BY RecordAssumption DEF Names
  <2> QED
    BY <1>1, <2>1 DEF RecordInv, RecordTypeOK, SessionIsLast
<1>3. /\ new[name].from = now /\ new[name].to = now
      /\ \A n \in Names : /\ n # name => new[n] = old[n]
                          /\ old[n].from \in Nat /\ old[n].to \in Nat
                          /\ old[n].from < now /\ old[n].to <= now
  BY <1>1, FilesPast
<1>4. RecordTypeOK'
  BY <1>1, <1>2 DEF RecordInv, RecordTypeOK
<1>5. SessionIsLast'
  BY <1>1 DEF RecordInv, SessionIsLast
<1>6. FilesApart'
  <2> SUFFICES ASSUME NEW s \in DOMAIN disk, NEW n \in Names
               PROVE  /\ \/ disk'[s].files[n] = NoFile
                         \/ /\ s <= disk'[s].files[n].from
                            /\ disk'[s].files[n].from <= disk'[s].files[n].to
                            /\ disk'[s].files[n].to <= now
                      /\ \A t \in DOMAIN disk : s < t => disk'[s].files[n].to <= t
                      /\ \A m \in Names : disk'[s].files[n].from < disk'[s].files[m].from
                                            => disk'[s].files[n].to <= disk'[s].files[m].from
    BY <1>1 DEF FilesApart
  <2>1. CASE s # session
    BY <1>1, <2>1 DEF RecordInv, FilesApart
  <2>2. CASE s = session
    <3>1. \A t \in DOMAIN disk : ~(s < t)
      BY <1>2, <2>2, <1>1 DEF RecordInv, RecordTypeOK
    <3>2. CASE n = name
      <4>1. \A m \in Names : ~(new[n].from < new[m].from)
        BY <1>2, <1>3, <3>2
      <4> QED
        BY <1>2, <1>3, <2>2, <3>1, <3>2, <4>1
    <3>3. CASE n # name
      <4>1. /\ \/ old[n] = NoFile
               \/ s <= old[n].from /\ old[n].from <= old[n].to /\ old[n].to <= now
            /\ \A m \in Names : old[n].from < old[m].from => old[n].to <= old[m].from
        BY <2>2 DEF RecordInv, FilesApart
      <4>2. new[n] = old[n]
        BY <1>3, <3>3
      <4>3. \A m \in Names : new[n].from < new[m].from => new[n].to <= new[m].from
        BY <1>3, <4>1, <4>2
      <4> QED
        BY <2>2, <3>1, <4>1, <4>2, <4>3
    <3> QED
      BY <3>2, <3>3
  <2> QED
    BY <2>1, <2>2
<1>7. OpenedLast'
  <2>1. ASSUME NEW n \in Names PROVE new[n].from <= now
    <3>1. CASE n = name
      BY <1>2, <1>3, <3>1
    <3>2. CASE n # name
      BY <1>2, <1>3, <3>2
    <3> QED
      BY <3>1, <3>2
  <2> QED
    BY <1>1, <2>1 DEF OpenedLast
<1>8. ASSUME NEW list \in Seq(RecordEntry), Dated(list, old)
      PROVE  Dated(list, new) /\ \A i \in DOMAIN list : list[i].time < now
  <2>1. DOMAIN list = 1 .. Len(list) /\ \A i \in DOMAIN list : list[i].time \in Nat
    <3>1. DOMAIN list = 1 .. Len(list) /\ \A i \in DOMAIN list : list[i] \in RecordEntry
      BY LenProperties, ElementOfSeq
    <3> QED
      BY <3>1 DEF RecordEntry
  <2>2. ASSUME NEW i \in DOMAIN list PROVE list[i].time < now
    <3>1. PICK n \in Names : list[i].time <= old[n].from
      BY <1>8 DEF Dated
    <3> QED
      BY <1>2, <1>3, <2>1, <3>1
  <2>3. ASSUME NEW i \in DOMAIN list
        PROVE  /\ \E n \in Names : list[i].time <= new[n].from
               /\ \A n \in Names : /\ new[n].from = list[i].time => list[i].name = n
                                   /\ new[n].from < list[i].time => new[n].to <= list[i].time
    <3>1. list[i].time < now /\ list[i].time \in Nat
      BY <2>1, <2>2
    <3>2. list[i].time <= new[name].from
      BY <1>2, <1>3, <3>1
    <3>3. ASSUME NEW n \in Names
          PROVE  /\ new[n].from = list[i].time => list[i].name = n
                 /\ new[n].from < list[i].time => new[n].to <= list[i].time
      <4>1. CASE n = name
        BY <1>2, <1>3, <3>1, <4>1
      <4>2. CASE n # name
        <5>1. /\ old[n].from = list[i].time => list[i].name = n
              /\ old[n].from < list[i].time => old[n].to <= list[i].time
          BY <1>8 DEF Dated
        <5> QED
          BY <1>3, <4>2, <5>1
      <4> QED
        BY <4>1, <4>2
    <3> QED
      BY <3>2, <3>3
  <2>4. \A i, j \in DOMAIN list : i < j => list[i].time < list[j].time
    BY <1>8 DEF Dated
  <2> HIDE DEF new, old
  <2> QED
    BY <2>2, <2>3, <2>4 DEF Dated
<1>9. /\ metadata \in Seq(RecordEntry) /\ Dated(metadata, old)
      /\ disk[session].metadata \in Seq(RecordEntry) /\ Dated(disk[session].metadata, old)
  BY <1>1 DEF RecordInv, RecordTypeOK, EntriesDated, Directory
<1>10. EntriesDated'
  <2>1. Dated(metadata, new) /\ Dated(disk[session].metadata, new)
    BY <1>8, <1>9
  <2> QED
    BY <1>1, <2>1 DEF RecordInv, EntriesDated
<1>11. JustOpened'
  <2>1. \A i \in DOMAIN metadata : metadata[i].time < now
    BY <1>8, <1>9
  <2> QED
    BY <1>1, <1>3, <2>1 DEF JustOpened
<1>12. EntriesMatch'
  <2> SUFFICES ASSUME session \notin reused
               PROVE  Matches(disk[session].metadata, new)
    BY <1>1 DEF RecordInv, EntriesMatch
  <2> DEFINE list == disk[session].metadata
  <2>1. Matches(list, old)
    BY <1>1 DEF RecordInv, EntriesMatch
  <2>2. \A i \in DOMAIN list : list[i].time < now /\ list[i].time \in Nat /\ list[i].name \in Names
    <3>1. \A i \in DOMAIN list : list[i] \in RecordEntry
      BY <1>9, LenProperties, ElementOfSeq
    <3>2. \A i \in DOMAIN list : list[i].time < now
      BY <1>8, <1>9
    <3> QED
      BY <3>1, <3>2 DEF RecordEntry
  <2> HIDE DEF list, new, old
  <2>3. ASSUME NEW i \in DOMAIN list
        PROVE  \/ new[list[i].name].from = list[i].time
               \/ /\ new[list[i].name].from > 0
                  /\ \A j \in DOMAIN list : list[j].time # new[list[i].name].from
    <3>1. CASE list[i].name = name
      BY <1>2, <1>3, <2>2, <3>1
    <3>2. CASE list[i].name # name
      <4>1. new[list[i].name] = old[list[i].name]
        BY <1>3, <2>2, <3>2
      <4> QED
        BY <2>1, <4>1 DEF Matches
    <3> QED
      BY <3>1, <3>2
  <2> QED
    BY <2>3 DEF Matches, list
<1>13. InRing'
  <2> SUFFICES ASSUME session \notin reused PROVE Ring(disk[session].files)'
    BY <1>1 DEF InRing
  <2>1. Ring(old)
    BY <1>1 DEF RecordInv, InRing
  <2>2. filing'.step = "push" /\ filing'.name = name
    BY <1>1
  <2>3. metadata \in [1 .. Len(metadata) -> RecordEntry] /\ Len(metadata) \in Nat
        /\ DOMAIN metadata = 1 .. Len(metadata)
    BY <1>9, LenProperties
  <2>4. /\ \A i \in DOMAIN metadata : /\ metadata[i].name \in Names
                                      /\ old[metadata[i].name].from = metadata[i].time
        /\ \A i, j \in DOMAIN metadata : i < j => metadata[i].time < metadata[j].time
        /\ \A i \in DOMAIN metadata : metadata[i].time \in Nat
    <3>1. \A i \in DOMAIN metadata : metadata[i] \in RecordEntry
      BY <2>3
    <3>2. \A i \in DOMAIN metadata : old[metadata[i].name].from = metadata[i].time
      BY <1>1, <2>1 DEF Ring
    <3>3. \A i, j \in DOMAIN metadata : i < j => metadata[i].time < metadata[j].time
      BY <1>9 DEF Dated
    <3> QED
      BY <3>1, <3>2, <3>3 DEF RecordEntry
  <2>5. Len(metadata) <= MaxRecordFiles
    BY <2>1 DEF Ring
  <2>6. ASSUME Len(metadata) < MaxRecordFiles 
        PROVE  /\ Filling(disk[session].files)'
               /\ \A i \in DOMAIN metadata : new[metadata[i].name].from = metadata[i].time
    <3>1. /\ \A i \in DOMAIN metadata : metadata[i].name = i - 1
          /\ \A m \in Names : old[m] # NoFile => m < Len(metadata)
          /\ index = Len(metadata)
      BY <1>1, <2>1, <2>6 DEF Ring, Filling
    <3>2. name = Len(metadata)
      <4>1. index \in 0 .. MaxRecordFiles /\ index # MaxRecordFiles
        <5>1. index \in 0 .. MaxRecordFiles
          BY DEF RecordInv, RecordTypeOK
        <5>2. index < MaxRecordFiles
          BY <2>6, <3>1
        <5> QED
          BY <1>2, <5>1, <5>2
      <4>2. index % MaxRecordFiles = index
        BY <4>1, RingIndex
      <4> QED
        BY <1>1, <3>1, <4>2
    <3>3. \A m \in Names : new[m] # NoFile => m < Len(metadata) \/ m = Len(metadata)
      BY <1>3, <3>1, <3>2
    <3>4. Filling(disk[session].files)'
      BY <1>1, <2>2, <3>1, <3>2, <3>3 DEF Filling
    <3>5. ASSUME NEW i \in DOMAIN metadata PROVE new[metadata[i].name].from = metadata[i].time
      <4>1. metadata[i].name # name
        BY <2>3, <3>1, <3>2
      <4> QED
        BY <1>3, <2>4, <4>1
    <3> QED
      BY <3>4, <3>5
  <2>7. ASSUME Len(metadata) = MaxRecordFiles 
        PROVE  /\ Full(disk[session].files)'
               /\ \A i \in DOMAIN metadata : i # 1 => new[metadata[i].name].from = metadata[i].time
    <3>1. /\ \A i \in DOMAIN metadata :
               i < MaxRecordFiles => metadata[i + 1].name = NextName(metadata[i].name)
          /\ metadata[1].name = NextName(metadata[MaxRecordFiles].name)
          /\ \A m \in Names : old[m] # NoFile
          /\ name = metadata[1].name
      BY <1>1, <2>1, <2>7 DEF Ring, Full
    <3>2. \A m \in Names : new[m] # NoFile
      BY <1>2, <1>3, <3>1 DEF NoFile
    <3>3. Full(disk[session].files)'
      BY <1>1, <2>2, <3>1, <3>2 DEF Full
    <3>4. ASSUME NEW i \in DOMAIN metadata, i # 1
          PROVE  new[metadata[i].name].from = metadata[i].time
      <4>1. 1 \in DOMAIN metadata /\ 1 < i
        BY <2>3, <3>4
      <4>2. metadata[1].time < metadata[i].time /\ metadata[1].time \in Nat
        BY <2>4, <4>1
      <4>3. metadata[i].name # name
        BY <2>4, <3>1, <4>1, <4>2
      <4> QED
        BY <1>3, <2>4, <4>3
    <3> QED
      BY <3>3, <3>4
  <2> QED
    <3>1. UNCHANGED metadata
      BY <1>1
    <3>2. \A i \in DOMAIN metadata : \/ i = 1 /\ Len(metadata) = MaxRecordFiles
                                     \/ new[metadata[i].name].from = metadata[i].time
      <4>1. Len(metadata) \in Nat
        BY <2>3
      <4>2. Len(metadata) < MaxRecordFiles \/ Len(metadata) = MaxRecordFiles
        BY <1>2, <2>5, <4>1
      <4> QED
        BY <2>6, <2>7, <4>2
    <3>3. Len(metadata) < MaxRecordFiles => Filling(disk[session].files)'
      BY <2>6
    <3>4. Len(metadata) = MaxRecordFiles => Full(disk[session].files)'
      BY <2>7
    <3> HIDE DEF new, old
    <3>5. disk'[session'].files = new
      BY <1>1 DEF new
    <3> QED
      BY <2>2, <2>5, <3>1, <3>2, <3>3, <3>4, <3>5 DEF Ring
<1> QED
  BY <1>4, <1>5, <1>6, <1>7, <1>10, <1>11, <1>12, <1>13 DEF RecordInv

\* The list after a push: the oldest entry of a full list is gone, and the
\* fragment's is the last.
LEMMA Pushed ==
  ASSUME RecordInv, PushRecord
  PROVE  \E d \in 0 .. 1, k \in 0 .. Len(metadata) :
           /\ Len(metadata) = k + d
           /\ d = 1 <=> Len(metadata) = MaxRecordFiles
           /\ metadata' \in Seq(RecordEntry)
           /\ Len(metadata') = k + 1 /\ DOMAIN metadata' = 1 .. k + 1
           /\ \A i \in 1 .. k : metadata'[i] = metadata[i + d]
           /\ metadata'[k + 1] = [name |-> filing.name, time |-> now]
<1> DEFINE entry == [name |-> filing.name, time |-> now]
           kept  == IF Len(metadata) = MaxRecordFiles THEN Tail(metadata) ELSE metadata
           k     == Len(kept)
           d     == IF Len(metadata) = MaxRecordFiles THEN 1 ELSE 0
<1>1. filing.step = "push" /\ metadata' = InsertSorted(kept, entry)
  BY DEF PushRecord
<1>2. metadata \in Seq(RecordEntry) /\ Len(metadata) \in Nat /\ DOMAIN metadata = 1 .. Len(metadata)
  BY LenProperties DEF RecordInv, RecordTypeOK
<1>3. entry \in RecordEntry /\ entry.time = now
  BY DEF RecordEntry, RecordInv, RecordTypeOK
<1>4. /\ kept \in Seq(RecordEntry) /\ Len(metadata) = k + d /\ k \in Nat
      /\ \A i \in 1 .. k : kept[i] = metadata[i + d]
  <2>1. CASE Len(metadata) = MaxRecordFiles
    <3>1. metadata # <<>> /\ kept = Tail(metadata) /\ d = 1
      BY <2>1, RecordAssumption
    <3>2. /\ Tail(metadata) \in Seq(RecordEntry) /\ Len(Tail(metadata)) = Len(metadata) - 1
          /\ \A i \in 1 .. Len(Tail(metadata)) : Tail(metadata)[i] = metadata[i + 1]
      BY <1>2, <3>1, HeadTailProperties
    <3>3. kept \in Seq(RecordEntry) /\ k = Len(metadata) - 1
          /\ \A i \in 1 .. k : kept[i] = metadata[i + 1]
      BY <3>1, <3>2
    <3> HIDE DEF kept, k, d
    <3>4. k \in Nat
      BY <3>3, LenProperties DEF k
    <3> QED
      BY <1>2, <3>1, <3>3, <3>4
  <2>2. CASE Len(metadata) # MaxRecordFiles
    <3>1. kept = metadata /\ d = 0 /\ k = Len(metadata)
      BY <2>2
    <3> HIDE DEF kept, k, d
    <3> QED
      BY <1>2, <3>1
  <2> QED
    BY <2>1, <2>2
<1>5. d \in 0 .. 1 /\ (d = 1 <=> Len(metadata) = MaxRecordFiles)
  OBVIOUS
<1> HIDE DEF kept, entry, d
<1>6. DOMAIN kept = 1 .. k
  BY <1>4, LenProperties
<1> HIDE DEF k
<1>7. \A i \in DOMAIN kept : kept[i].time < entry.time
  <2> SUFFICES ASSUME NEW i \in 1 .. k PROVE kept[i].time < now
    BY <1>3, <1>6
  <2>1. i + d \in 1 .. Len(metadata) /\ kept[i] = metadata[i + d]
    BY <1>2, <1>4, <1>5
  <2> QED
    BY <1>1, <1>2, <2>1 DEF RecordInv, JustOpened
<1>8. metadata' = Append(kept, entry)
  BY <1>1, <1>3, <1>4, <1>7, InsertedLast
<1>9. /\ metadata' \in Seq(RecordEntry) /\ Len(metadata') = k + 1
      /\ \A i \in 1 .. k : metadata'[i] = kept[i]
      /\ metadata'[k + 1] = entry
  BY <1>3, <1>4, <1>8, AppendProperties DEF k
<1>10. DOMAIN metadata' = 1 .. k + 1
  BY <1>9, LenProperties
<1>11. k \in 0 .. Len(metadata)
  BY <1>2, <1>4, <1>5
<1> QED
  BY <1>4, <1>5, <1>9, <1>10, <1>11 DEF entry

\* The fragment's entry is the last in time, and its name the last in the ring.
LEMMA PushRecordKeeps == RecordInv /\ PushRecord => RecordInv'
<1> SUFFICES ASSUME RecordInv, PushRecord PROVE RecordInv'
  OBVIOUS
<1>1. PICK d \in 0 .. 1, k \in 0 .. Len(metadata) :
           /\ Len(metadata) = k + d
           /\ d = 1 <=> Len(metadata) = MaxRecordFiles
           /\ metadata' \in Seq(RecordEntry)
           /\ Len(metadata') = k + 1 /\ DOMAIN metadata' = 1 .. k + 1
           /\ \A i \in 1 .. k : metadata'[i] = metadata[i + d]
           /\ metadata'[k + 1] = [name |-> filing.name, time |-> now]
  BY Pushed
<1> DEFINE files == disk[session].files
           n     == Len(metadata)
<1>2. /\ filing.step = "push" /\ filing' = [filing EXCEPT !.step = "write"]
      /\ UNCHANGED <<now, session, running, index, opened, disk, removing, reused>>
  BY DEF PushRecord
<1>3. filing.name \in Names /\ filing'.name = filing.name /\ filing'.step = "write"
      /\ filing' \in [name : Names, step : {"push", "write", "done"}]
  BY <1>2 DEF RecordInv, RecordTypeOK
<1>4. session # 0 /\ session \in DOMAIN disk
  BY <1>2 DEF RecordInv, SessionIsLast, Filed
<1>5. /\ files[filing.name].from = now
      /\ \A m \in Names \ {filing.name} : files[m].from < now
      /\ running => index = filing.name + 1
      /\ \A i \in DOMAIN metadata : metadata[i].time < now
  BY <1>2 DEF RecordInv, JustOpened
<1>6. /\ now \in Nat /\ now > 0
      /\ \A m \in Names : files[m].to <= now /\ files[m].from \in Nat
  BY <1>4, FilesPast DEF RecordInv, RecordTypeOK
<1>7. n \in Nat /\ DOMAIN metadata = 1 .. n /\ k \in Nat /\ n = k + d
      /\ \A i \in 1 .. k : i + d \in 1 .. n /\ metadata'[i] = metadata[i + d]
  <2>1. n \in Nat /\ DOMAIN metadata = 1 .. n
    BY LenProperties DEF RecordInv, RecordTypeOK
  <2> HIDE DEF n
  <2>2. n = k + d
    BY <1>1 DEF n
  <2>3. k \in Nat
    BY <1>1, <2>1 DEF n
  <2> QED
    BY <1>1, <2>1, <2>2, <2>3
<1> HIDE DEF n, files
<1>8. \A i \in 1 .. k + 1 : i \in 1 .. k \/ i = k + 1
  BY <1>7
<1>9. metadata'[k + 1].name = filing.name /\ metadata'[k + 1].time = now
  BY <1>1
<1>10. RecordTypeOK'
  BY <1>1, <1>2, <1>3 DEF RecordInv, RecordTypeOK
<1>11. SessionIsLast' /\ FilesApart' /\ OpenedLast' /\ JustOpened'
  BY <1>2, <1>3, <1>4
     DEF RecordInv, SessionIsLast, FilesApart, OpenedLast, JustOpened
<1>12. Dated(metadata', files)
  <2>1. Dated(metadata, files)
    BY <1>4 DEF RecordInv, EntriesDated, files
  <2>2. ASSUME NEW i \in 1 .. k + 1, NEW j \in 1 .. k + 1, i < j
        PROVE  metadata'[i].time < metadata'[j].time
    <3>1. i \in 1 .. k /\ (j \in 1 .. k \/ j = k + 1)
      BY <1>7, <2>2
    <3>2. i + d \in 1 .. n /\ metadata'[i] = metadata[i + d]
      BY <1>7, <3>1
    <3>3. CASE j = k + 1
      BY <1>5, <1>7, <1>9, <3>2, <3>3
    <3>4. CASE j \in 1 .. k
      <4>1. j + d \in 1 .. n /\ metadata'[j] = metadata[j + d] /\ i + d < j + d
        BY <1>1, <1>7, <2>2, <3>4
      <4> QED
        BY <1>7, <2>1, <3>2, <4>1 DEF Dated
    <3> QED
      BY <3>1, <3>3, <3>4
  <2>3. ASSUME NEW i \in 1 .. k + 1
        PROVE  /\ \E m \in Names : metadata'[i].time <= files[m].from
               /\ \A m \in Names :
                    /\ files[m].from = metadata'[i].time => metadata'[i].name = m
                    /\ files[m].from < metadata'[i].time => files[m].to <= metadata'[i].time
    <3>1. CASE i \in 1 .. k
      BY <1>7, <2>1, <3>1 DEF Dated
    <3>2. CASE i = k + 1
      BY <1>3, <1>5, <1>6, <1>9, <3>2
    <3> QED
      BY <1>8, <3>1, <3>2
  <2> QED
    BY <1>1, <2>2, <2>3 DEF Dated
<1>13. EntriesDated' /\ EntriesMatch'
  <2>1. EntriesDated'
    BY <1>2, <1>12 DEF RecordInv, EntriesDated, files
  <2>2. EntriesMatch'
    BY <1>2 DEF RecordInv, EntriesMatch
  <2> QED
    BY <2>1, <2>2
<1>14. InRing'
  <2> SUFFICES ASSUME session \notin reused PROVE Ring(disk[session].files)'
    BY <1>2 DEF InRing
  <2>1. Ring(files)
    BY <1>4 DEF RecordInv, InRing, files
  <2>2. MaxRecordFiles \in Nat /\ MaxRecordFiles > 0 /\ n <= MaxRecordFiles
        /\ (d = 1 <=> n = MaxRecordFiles)
    BY <1>1, <2>1, RecordAssumption DEF Ring, n
  <2>3. \A i \in 1 .. k : files[metadata'[i].name].from = metadata'[i].time
    <3> SUFFICES ASSUME NEW i \in 1 .. k
                 PROVE  files[metadata[i + d].name].from = metadata[i + d].time
      BY <1>7
    <3>1. i + d \in 1 .. n /\ ~(i + d = 1 /\ n = MaxRecordFiles)
      BY <1>7, <2>2
    <3> QED
      BY <1>7, <2>1, <3>1 DEF Ring, n
  <2>4. \A i \in 1 .. k + 1 : files[metadata'[i].name].from = metadata'[i].time
    BY <1>5, <1>8, <1>9, <2>3
  <2>5. k + 1 <= MaxRecordFiles
    BY <1>7, <2>2
  <2>6. CASE n < MaxRecordFiles
    <3>1. /\ \A i \in 1 .. n : metadata[i].name = i - 1
          /\ \A m \in Names : files[m] # NoFile => m < n \/ m = n
          /\ filing.name = n
      BY <1>2, <1>7, <2>1, <2>6 DEF Ring, Filling, n
    <3>2. d = 0 /\ k = n
      BY <1>7, <2>2, <2>6
    <3>3. \A i \in 1 .. k + 1 : metadata'[i].name = i - 1
      <4> SUFFICES ASSUME NEW i \in 1 .. k + 1 PROVE metadata'[i].name = i - 1
        OBVIOUS
      <4>1. CASE i \in 1 .. k
        <5>1. metadata'[i] = metadata[i + 0] /\ i + 0 = i /\ i \in 1 .. n
          BY <1>7, <3>2, <4>1
        <5> QED
          BY <3>1, <5>1
      <4>2. CASE i = k + 1
        BY <1>7, <1>9, <3>1, <3>2, <4>2
      <4> QED
        BY <1>8, <4>1, <4>2
    <3>4. CASE k + 1 < MaxRecordFiles
      <4>1. \A m \in Names : files[m] # NoFile => m < k + 1
        BY <1>7, <3>1, <3>2 DEF Names
      <4>2. running => index = k + 1
        BY <1>5, <3>1, <3>2
      <4>3. Filling(disk[session].files)'
        BY <1>1, <1>2, <1>3, <3>3, <4>1, <4>2 DEF Filling, files
      <4>4. k + 1 # MaxRecordFiles
        BY <1>7, <2>2, <3>4
      <4> QED
        BY <1>1, <1>2, <1>3, <2>4, <2>5, <4>3, <4>4 DEF Ring, files
    <3>5. CASE k + 1 = MaxRecordFiles
      <4>1. \A i \in 1 .. k + 1 :
              i < MaxRecordFiles => metadata'[i + 1].name = NextName(metadata'[i].name)
        <5> SUFFICES ASSUME NEW i \in 1 .. k + 1, i < MaxRecordFiles
                     PROVE  metadata'[i + 1].name = NextName(metadata'[i].name)
          OBVIOUS
        <5>1. i + 1 \in 1 .. k + 1 /\ (i + 1) - 1 = i
              /\ i - 1 # MaxRecordFiles - 1 /\ (i - 1) + 1 = i
          BY <1>7, <2>2, <3>5
        <5>2. metadata'[i + 1].name = i /\ metadata'[i].name = i - 1
          BY <3>3, <5>1
        <5> QED
          BY <5>1, <5>2 DEF NextName
      <4>2. metadata'[1].name = NextName(metadata'[MaxRecordFiles].name)
        <5>1. 1 \in 1 .. k + 1 /\ k + 1 \in 1 .. k + 1 /\ 1 - 1 = 0 /\ (k + 1) - 1 = k
              /\ k = MaxRecordFiles - 1
          BY <1>7, <2>2, <3>5
        <5>2. metadata'[1].name = 0 /\ metadata'[MaxRecordFiles].name = k
          BY <3>3, <3>5, <5>1
        <5> QED
          BY <5>1, <5>2 DEF NextName
      <4>3. \A m \in Names : files[m] # NoFile
        <5> SUFFICES ASSUME NEW m \in Names PROVE files[m] # NoFile
          OBVIOUS
        <5>1. m + 1 \in 1 .. k + 1 /\ (m + 1) - 1 = m
          BY <1>7, <2>2, <3>5 DEF Names
        <5>2. files[m].from = metadata'[m + 1].time
          BY <2>4, <3>3, <5>1
        <5>3. metadata'[m + 1].time # 0
          <6>1. m + 1 \in 1 .. Len(metadata')
            BY <1>1, <5>1
          <6>2. metadata'[m + 1] \in RecordEntry
            BY <1>1, <6>1, ElementOfSeq
          <6> QED
            BY <6>2 DEF RecordEntry
        <5> QED
          BY <5>2, <5>3 DEF NoFile
      <4>4. running => index % MaxRecordFiles = metadata'[1].name
        <5>1. running => index = MaxRecordFiles
          BY <1>5, <3>1, <3>2, <3>5
        <5>2. MaxRecordFiles \in 0 .. MaxRecordFiles
          BY <2>2
        <5>3. MaxRecordFiles % MaxRecordFiles = 0
          BY <5>2, RingIndex
        <5>4. 1 \in 1 .. k + 1 /\ 1 - 1 = 0
          BY <1>7
        <5> QED
          BY <3>3, <5>1, <5>3, <5>4
      <4>5. Full(disk[session].files)'
        BY <1>1, <1>2, <1>3, <4>1, <4>2, <4>3, <4>4 DEF Full, files
      <4>6. ~(k + 1 < MaxRecordFiles)
        BY <1>7, <2>2, <3>5
      <4> QED
        BY <1>1, <1>2, <1>3, <2>4, <2>5, <4>5, <4>6 DEF Ring, files
    <3> QED
      BY <1>7, <2>2, <2>5, <3>4, <3>5
  <2>7. CASE n = MaxRecordFiles
    <3>1. /\ \A i \in 1 .. n :
               i < MaxRecordFiles => metadata[i + 1].name = NextName(metadata[i].name)
          /\ metadata[1].name = NextName(metadata[n].name)
          /\ \A m \in Names : files[m] # NoFile
          /\ filing.name = metadata[1].name
      BY <1>2, <1>7, <2>1, <2>7 DEF Ring, Full, n
    <3>2. d = 1 /\ k + 1 = n
      BY <1>7, <2>2, <2>7
    <3>3. \A i \in 1 .. k : metadata'[i] = metadata[i + 1]
      BY <1>7, <3>2
    <3>4. \A i \in 1 .. k + 1 :
            i < MaxRecordFiles => metadata'[i + 1].name = NextName(metadata'[i].name)
      <4> SUFFICES ASSUME NEW i \in 1 .. k + 1, i < MaxRecordFiles
                   PROVE  metadata'[i + 1].name = NextName(metadata'[i].name)
        OBVIOUS
      <4>1. i \in 1 .. k /\ i + 1 \in 1 .. n
        BY <1>7, <2>2, <2>7, <3>2
      <4>2. metadata'[i] = metadata[i + 1]
        BY <3>3, <4>1
      <4>3. CASE i + 1 < MaxRecordFiles
        <5>1. i + 1 \in 1 .. k
          BY <1>7, <2>2, <2>7, <3>2, <4>3
        <5>2. metadata'[i + 1] = metadata[(i + 1) + 1]
          BY <3>3, <5>1
        <5> QED
          BY <3>1, <4>1, <4>2, <4>3, <5>2
      <4>4. CASE i + 1 = MaxRecordFiles
        <5>1. i + 1 = k + 1 /\ i + 1 = n
          BY <2>7, <3>2, <4>4
        <5> QED
          BY <1>9, <3>1, <4>2, <5>1
      <4> QED
        BY <1>7, <2>2, <4>1, <4>3, <4>4, <2>7
    <3>5. metadata'[1].name = NextName(filing.name)
      <4>1. CASE k = 0
        BY <1>9, <3>1, <3>2, <4>1
      <4>2. CASE k # 0
        <5>1. 1 \in 1 .. k /\ 1 \in 1 .. n /\ 1 < MaxRecordFiles
          BY <1>7, <2>2, <2>7, <3>2, <4>2
        <5> QED
          BY <3>1, <3>3, <5>1
      <4> QED
        BY <4>1, <4>2
    <3>6. metadata'[MaxRecordFiles].name = filing.name
      BY <1>9, <2>7, <3>2
    <3>7. running => index % MaxRecordFiles = metadata'[1].name
      <4>1. filing.name + 1 \in 0 .. MaxRecordFiles
            /\ (filing.name + 1 = MaxRecordFiles <=> filing.name = MaxRecordFiles - 1)
        BY <1>3, <2>2 DEF Names
      <4>2. (filing.name + 1) % MaxRecordFiles = NextName(filing.name)
        BY <4>1, RingIndex DEF NextName
      <4> QED
        BY <1>5, <3>5, <4>2
    <3>8. Full(disk[session].files)'
      BY <1>1, <1>2, <1>3, <3>1, <3>4, <3>5, <3>6, <3>7 DEF Full, files
    <3>9. k + 1 = MaxRecordFiles /\ ~(k + 1 < MaxRecordFiles)
      BY <1>7, <2>2, <2>7, <3>2
    <3> QED
      BY <1>1, <1>2, <1>3, <2>4, <2>5, <3>8, <3>9 DEF Ring, files
  <2> QED
    BY <1>7, <2>2, <2>6, <2>7
<1> QED
  BY <1>10, <1>11, <1>13, <1>14 DEF RecordInv

\* What is written has a file for each entry, unless the session has written
\* over a file out of turn.
LEMMA WriteMetadataKeeps == RecordInv /\ WriteMetadata => RecordInv'
<1> SUFFICES ASSUME RecordInv, WriteMetadata PROVE RecordInv'
  OBVIOUS
<1>1. /\ filing.step = "write" /\ filing' = Filed
      /\ disk' = [disk EXCEPT ![session].metadata = metadata]
      /\ UNCHANGED <<now, session, running, index, opened, metadata, removing, reused>>
  BY DEF WriteMetadata
<1>2. session # 0 /\ session \in DOMAIN disk /\ disk \in [DOMAIN disk -> Directory]
  BY <1>1 DEF RecordInv, RecordTypeOK, SessionIsLast, Filed
<1> DEFINE dir == [disk[session] EXCEPT !.metadata = metadata]
<1>3. dir \in Directory /\ dir.metadata = metadata /\ dir.files = disk[session].files
  BY <1>2 DEF RecordInv, RecordTypeOK, Directory
<1>4. disk' = [disk EXCEPT ![session] = dir]
  BY <1>1, <1>2
<1> HIDE DEF dir
<1>5. /\ DOMAIN disk' = DOMAIN disk /\ disk' \in [DOMAIN disk -> Directory]
      /\ disk'[session] = dir /\ \A s \in DOMAIN disk : s # session => disk'[s] = disk[s]
  BY <1>2, <1>3, <1>4
<1>6. \A s \in DOMAIN disk : disk'[s].files = disk[s].files
  BY <1>3, <1>5
<1>7. Filed \in [name : Names, step : {"push", "write", "done"}] /\ Filed.step = "done"
  BY RecordAssumption DEF Filed, Names
<1>8. RecordTypeOK'
  BY <1>1, <1>5, <1>7 DEF RecordInv, RecordTypeOK
<1>9. SessionIsLast'
  BY <1>1, <1>2, <1>5 DEF RecordInv, SessionIsLast
<1>10. FilesApart'
  BY <1>1, <1>5, <1>6 DEF RecordInv, FilesApart
<1>11. OpenedLast' /\ JustOpened'
  <2>1. OpenedLast'
    BY <1>1, <1>2, <1>6 DEF RecordInv, OpenedLast
  <2>2. JustOpened'
    BY <1>1, <1>7 DEF JustOpened
  <2> QED
    BY <2>1, <2>2
<1>12. EntriesDated'
  <2>1. Dated(metadata, disk[session].files)
    BY <1>2 DEF RecordInv, EntriesDated
  <2> QED
    BY <1>1, <1>3, <1>5, <2>1 DEF RecordInv, EntriesDated
<1>13. EntriesMatch'
  <2>1. ASSUME session \notin reused PROVE Matches(metadata, disk[session].files)
    <3>1. Ring(disk[session].files)
      BY <1>2, <2>1 DEF RecordInv, InRing
    <3> QED
      BY <1>1, <3>1 DEF Ring, Matches
  <2> QED
    BY <1>1, <1>3, <1>5, <2>1 DEF RecordInv, EntriesMatch
<1>14. InRing'
  <2> SUFFICES ASSUME session \notin reused PROVE Ring(disk[session].files)'
    BY <1>1 DEF InRing
  <2>1. Ring(disk[session].files) /\ disk'[session].files = disk[session].files
    BY <1>2, <1>6 DEF RecordInv, InRing
  <2> QED
    BY <1>1, <1>7, <2>1 DEF Ring, Filling, Full
<1> QED
  BY <1>8, <1>9, <1>10, <1>11, <1>12, <1>13, <1>14 DEF RecordInv

\* The file that grows is the newest, so it grows over nothing.
LEMMA TickKeeps == RecordInv /\ Tick => RecordInv'
<1> SUFFICES ASSUME RecordInv, Tick PROVE RecordInv'
  OBVIOUS
<1>1. /\ filing.step # "push" /\ now' = now + 1
      /\ UNCHANGED <<session, running, index, opened, filing, metadata, removing, reused>>
  BY DEF Tick
<1>2. /\ now \in Nat /\ now > 0 /\ DOMAIN disk \subseteq 1 .. now
      /\ disk \in [DOMAIN disk -> Directory] /\ opened \in Nat
  BY DEF RecordInv, RecordTypeOK
<1>3. DOMAIN disk \subseteq 1 .. now'
  BY <1>1, <1>2
<1>4. CASE running /\ opened > 0
  <2> DEFINE old == disk[session].files
             new == [n \in Names |-> IF old[n].from = opened THEN [old[n] EXCEPT !.to = now']
                                     ELSE old[n]]
             dir == [disk[session] EXCEPT !.files = new]
  <2>1. session # 0 /\ session \in DOMAIN disk
    BY <1>4 DEF RecordInv, SessionIsLast
  <2>2. disk[session] \in Directory /\ \A n \in Names : old[n] \in RecordFile
    BY <1>2, <2>1 DEF Directory
  <2>3. \A n \in Names : /\ new[n] \in RecordFile /\ new[n].from = old[n].from
                         /\ new[n].to = IF old[n].from = opened THEN now' ELSE old[n].to
                         /\ new[n] = NoFile <=> old[n] = NoFile
    <3> SUFFICES ASSUME NEW n \in Names
                 PROVE  /\ new[n] \in RecordFile /\ new[n].from = old[n].from
                        /\ new[n].to = IF old[n].from = opened THEN now' ELSE old[n].to
                        /\ new[n] = NoFile <=> old[n] = NoFile
      OBVIOUS
    <3>1. CASE old[n].from = opened
      <4>1. new[n] = [old[n] EXCEPT !.to = now']
        BY <3>1
      <4> HIDE DEF old, new
      <4>2. new[n].from = opened /\ new[n].to = now' /\ new[n] \in RecordFile
        BY <1>1, <1>2, <2>2, <3>1, <4>1 DEF RecordFile
      <4> QED
        BY <1>4, <3>1, <4>2 DEF NoFile
    <3>2. CASE old[n].from # opened
      <4>1. new[n] = old[n]
        BY <3>2
      <4> HIDE DEF old, new
      <4> QED
        BY <2>2, <3>2, <4>1
    <3> QED
      BY <3>1, <3>2
  <2>4. new \in [Names -> RecordFile]
    BY <2>3
  <2>5. disk' = [disk EXCEPT ![session] = dir]
    BY <1>2, <1>4, <2>1 DEF Tick
  <2> HIDE DEF new
  <2>6. dir \in Directory /\ dir.files = new /\ dir.metadata = disk[session].metadata
    BY <2>2, <2>4 DEF Directory
  <2> HIDE DEF dir
  <2>7. /\ DOMAIN disk' = DOMAIN disk /\ disk' \in [DOMAIN disk -> Directory]
        /\ disk'[session] = dir /\ \A s \in DOMAIN disk : s # session => disk'[s] = disk[s]
    BY <1>2, <2>1, <2>5, <2>6
  <2>8. /\ \A n \in Names : /\ old[n].from \in Nat /\ old[n].to \in Nat
                            /\ old[n].from <= now /\ old[n].to <= now
                            /\ old[n].from <= opened
        /\ session \in 1 .. now
        /\ \A t \in DOMAIN disk : t <= session
    <3>1. \A n \in Names : old[n].from <= opened
      BY <1>4 DEF RecordInv, OpenedLast
    <3>2. session \in 1 .. now /\ \A t \in DOMAIN disk : t <= session
      BY <1>2, <2>1 DEF RecordInv, SessionIsLast
    <3> QED
      BY <2>1, <3>1, <3>2, FilesPast
  <2>9. RecordTypeOK'
    <3>1. now' \in Nat \ {0}
      BY <1>1, <1>2
    <3> QED
      BY <1>1, <1>3, <2>7, <3>1 DEF RecordInv, RecordTypeOK
  <2>10. SessionIsLast'
    BY <1>1, <2>7 DEF RecordInv, SessionIsLast
  <2>11. FilesApart'
    <3> SUFFICES ASSUME NEW s \in DOMAIN disk, NEW n \in Names
                 PROVE  /\ \/ disk'[s].files[n] = NoFile
                           \/ /\ s <= disk'[s].files[n].from
                              /\ disk'[s].files[n].from <= disk'[s].files[n].to
                              /\ disk'[s].files[n].to <= now'
                        /\ \A t \in DOMAIN disk : s < t => disk'[s].files[n].to <= t
                        /\ \A m \in Names : disk'[s].files[n].from < disk'[s].files[m].from
                                              => disk'[s].files[n].to <= disk'[s].files[m].from
      BY <2>7 DEF FilesApart
    <3>1. /\ \/ disk[s].files[n] = NoFile
             \/ /\ s <= disk[s].files[n].from
                /\ disk[s].files[n].from <= disk[s].files[n].to
                /\ disk[s].files[n].to <= now
          /\ \A t \in DOMAIN disk : s < t => disk[s].files[n].to <= t
          /\ \A m \in Names : disk[s].files[n].from < disk[s].files[m].from
                                => disk[s].files[n].to <= disk[s].files[m].from
      BY DEF RecordInv, FilesApart
    <3>2. disk[s].files[n].to <= now /\ disk[s].files[n].to \in Nat
      BY FilesPast
    <3>3. CASE s # session
      <4>1. disk'[s] = disk[s]
        BY <2>7, <3>3
      <4>2. disk[s].files[n].to <= now'
        BY <1>1, <1>2, <3>2
      <4> QED
        BY <3>1, <4>1, <4>2
    <3>4. CASE s = session
      <4>1. disk'[s].files = new /\ disk[s].files = old
        BY <2>6, <2>7, <3>4
      <4>2. \A t \in DOMAIN disk : ~(s < t)
        BY <1>2, <2>8, <3>4
      <4> HIDE DEF old
      <4>3. CASE old[n].from = opened
        <5>1. new[n].from = opened /\ new[n].to = now' /\ old[n].from = opened
          BY <2>3, <4>3
        <5>2. old[n] # NoFile
          BY <1>4, <4>3 DEF NoFile
        <5>3. s <= new[n].from /\ new[n].from <= new[n].to
          BY <1>1, <1>2, <2>8, <3>1, <4>1, <5>1, <5>2
        <5>4. \A m \in Names : ~(new[n].from < new[m].from)
          BY <1>2, <2>3, <2>8, <5>1
        <5>5. new[n].to <= now'
          BY <1>1, <1>2, <5>1
        <5> QED
          BY <4>1, <4>2, <5>3, <5>4, <5>5
      <4>4. CASE old[n].from # opened
        <5>1. new[n].from = old[n].from /\ new[n].to = old[n].to
              /\ (new[n] = NoFile <=> old[n] = NoFile)
          BY <2>3, <4>4
        <5>2. \A m \in Names : new[n].from < new[m].from => new[n].to <= new[m].from
          BY <2>3, <3>1, <4>1, <5>1
        <5>3. new[n].to <= now'
          BY <1>1, <1>2, <3>2, <4>1, <5>1
        <5> QED
          BY <3>1, <4>1, <4>2, <5>1, <5>2, <5>3
      <4> QED
        BY <4>3, <4>4
    <3> QED
      BY <3>3, <3>4
  <2>12. OpenedLast' /\ JustOpened'
    <3>1. OpenedLast'
      BY <1>1, <2>1, <2>3, <2>6, <2>7, <2>8 DEF OpenedLast
    <3> QED
      BY <1>1, <3>1 DEF JustOpened
  <2>13. ASSUME NEW list \in Seq(RecordEntry), Dated(list, old) PROVE Dated(list, new)
    <3>1. \A i \in DOMAIN list : list[i] \in RecordEntry
      BY LenProperties, ElementOfSeq
    <3>2. \A i, j \in DOMAIN list : i < j => list[i].time < list[j].time
      BY <2>13 DEF Dated
    <3>3. ASSUME NEW i \in DOMAIN list
          PROVE  /\ \E n \in Names : list[i].time <= new[n].from
                 /\ \A n \in Names : /\ new[n].from = list[i].time => list[i].name = n
                                     /\ new[n].from < list[i].time => new[n].to <= list[i].time
      <4>1. /\ \E n \in Names : list[i].time <= old[n].from
            /\ \A n \in Names : /\ old[n].from = list[i].time => list[i].name = n
                                /\ old[n].from < list[i].time => old[n].to <= list[i].time
        BY <2>13 DEF Dated
      <4>2. list[i].time \in Nat
        BY <3>1 DEF RecordEntry
      <4> HIDE DEF old
      <4>3. list[i].time <= opened
        BY <1>2, <2>8, <4>1, <4>2
      <4>4. \A n \in Names : new[n].from < list[i].time => new[n].to = old[n].to
        BY <1>2, <2>3, <4>2, <4>3
      <4>5. \E n \in Names : list[i].time <= new[n].from
        BY <2>3, <4>1
      <4>6. \A n \in Names : new[n].from = old[n].from
        BY <2>3
      <4> QED
        BY <4>1, <4>4, <4>5, <4>6
    <3> HIDE DEF old
    <3> QED
      BY <3>2, <3>3 DEF Dated
  <2>14. EntriesDated'
    <3>1. /\ metadata \in Seq(RecordEntry) /\ Dated(metadata, old)
          /\ disk[session].metadata \in Seq(RecordEntry) /\ Dated(disk[session].metadata, old)
      BY <2>1, <2>2 DEF RecordInv, RecordTypeOK, EntriesDated, Directory
    <3>2. Dated(metadata, new) /\ Dated(disk[session].metadata, new)
      BY <2>13, <3>1
    <3> QED
      BY <1>1, <2>6, <2>7, <3>2 DEF RecordInv, EntriesDated
  <2>15. EntriesMatch'
    <3> SUFFICES ASSUME session \notin reused PROVE Matches(disk[session].metadata, new)
      BY <1>1, <2>6, <2>7 DEF RecordInv, EntriesMatch
    <3> DEFINE list == disk[session].metadata
    <3>1. Matches(list, old)
      BY <2>1 DEF RecordInv, EntriesMatch
    <3>2. \A i \in DOMAIN list : list[i].name \in Names
      <4>1. \A i \in DOMAIN list : list[i] \in RecordEntry
        BY <2>2, LenProperties, ElementOfSeq DEF Directory
      <4> QED
        BY <4>1 DEF RecordEntry
    <3> HIDE DEF list, old
    <3>3. \A i \in DOMAIN list : new[list[i].name].from = old[list[i].name].from
      BY <2>3, <3>2
    <3>4. Matches(list, new)
      BY <3>1, <3>3 DEF Matches
    <3> QED
      BY <3>4 DEF list
  <2>16. InRing'
    <3> SUFFICES ASSUME session \notin reused PROVE Ring(disk[session].files)'
      BY <1>1 DEF InRing
    <3>1. Ring(old)
      BY <2>1 DEF RecordInv, InRing
    <3>2. \A i \in DOMAIN metadata : metadata[i].name \in Names
      <4>1. \A i \in DOMAIN metadata : metadata[i] \in RecordEntry
        BY LenProperties, ElementOfSeq DEF RecordInv, RecordTypeOK
      <4> QED
        BY <4>1 DEF RecordEntry
    <3>3. disk'[session].files = new
      BY <2>6, <2>7
    <3> HIDE DEF old
    <3>4. \A i \in DOMAIN metadata : new[metadata[i].name].from = old[metadata[i].name].from
      BY <2>3, <3>2
    <3>5. \A m \in Names : new[m] # NoFile <=> old[m] # NoFile
      BY <2>3
    <3>6. Filling(old) => Filling(disk[session].files)'
      BY <1>1, <3>3, <3>5 DEF Filling
    <3>7. Full(old) => Full(disk[session].files)'
      BY <1>1, <3>3, <3>5 DEF Full
    <3> QED
      BY <1>1, <3>1, <3>3, <3>4, <3>6, <3>7 DEF Ring
  <2> QED
    BY <2>9, <2>10, <2>11, <2>12, <2>14, <2>15, <2>16 DEF RecordInv
<1>5. CASE ~(running /\ opened > 0)
  <2>1. disk' = disk
    BY <1>5 DEF Tick
  <2>2. RecordTypeOK'
    <3>1. now' \in Nat \ {0}
      BY <1>1, <1>2
    <3> QED
      BY <1>1, <1>3, <2>1, <3>1 DEF RecordInv, RecordTypeOK
  <2>3. SessionIsLast' /\ OpenedLast'
    BY <1>1, <2>1 DEF RecordInv, SessionIsLast, OpenedLast
  <2>4. FilesApart'
    <3>1. \A s \in DOMAIN disk, n \in Names : disk[s].files[n].to <= now'
      <4> SUFFICES ASSUME NEW s \in DOMAIN disk, NEW n \in Names
                   PROVE  disk[s].files[n].to <= now'
        OBVIOUS
      <4>1. disk[s].files[n].to <= now /\ disk[s].files[n].to \in Nat
        BY FilesPast
      <4> QED
        BY <1>1, <1>2, <4>1
    <3> QED
      BY <2>1, <3>1 DEF RecordInv, FilesApart
  <2>5. JustOpened'
    BY <1>1 DEF JustOpened
  <2>6. EntriesDated' /\ EntriesMatch'
    BY <1>1, <2>1 DEF RecordInv, EntriesDated, EntriesMatch
  <2>7. InRing'
    BY <1>1, <2>1 DEF RecordInv, InRing, Ring, Filling, Full
  <2> QED
    BY <2>2, <2>3, <2>4, <2>5, <2>6, <2>7 DEF RecordInv
<1> QED
  BY <1>4, <1>5

LEMMA RecordInvariant == RecordSpec => []RecordInv
<1>1. RecordInit => RecordInv
  BY RecordStart
<1>2. RecordInv /\ [RecordNext]_recordVars => RecordInv'
  <2> SUFFICES ASSUME RecordInv, [RecordNext]_recordVars PROVE RecordInv'
    OBVIOUS
  <2>1. CASE UNCHANGED recordVars
    <3>1. /\ UNCHANGED <<now, session, running, index, opened>>
          /\ UNCHANGED <<filing, metadata, disk, removing, reused>>
      BY <2>1 DEF recordVars
    <3>2. RecordTypeOK' /\ SessionIsLast' /\ FilesApart'
      BY <3>1 DEF RecordInv, RecordTypeOK, SessionIsLast, FilesApart
    <3>3. OpenedLast' /\ JustOpened' /\ EntriesDated' /\ EntriesMatch'
      BY <3>1 DEF RecordInv, OpenedLast, JustOpened, EntriesDated, EntriesMatch
    <3>4. InRing'
      BY <3>1 DEF RecordInv, InRing, Ring, Filling, Full
    <3> QED
      BY <3>2, <3>3, <3>4 DEF RecordInv
  <2> QED
    BY <2>1, StartSessionKeeps, StartPipelineKeeps, OpenFragmentKeeps, PushRecordKeeps,
       WriteMetadataKeeps, FailKeeps, CloseSessionKeeps, RemoveDirectoryKeeps,
       CrashControllerKeeps, TickKeeps
    DEF RecordNext
<1> QED
  BY <1>1, <1>2, PTL DEF RecordSpec

\* What a search finds, and that a moment of a filed fragment leads to it.
LEMMA FindsWhatWasRecorded ==
  ASSUME RecordInv
  PROVE  FoundFileHolds
<1>1. /\ now \in Nat /\ DOMAIN disk \subseteq 1 .. now
      /\ \A s \in DOMAIN disk : /\ disk[s] \in Directory
                                /\ Dated(disk[s].metadata, disk[s].files)
  BY DEF RecordInv, RecordTypeOK, EntriesDated
<1>2. ASSUME NEW s \in DOMAIN disk
      PROVE  /\ \A i \in DOMAIN disk[s].metadata :
                  /\ disk[s].metadata[i].name \in Names /\ disk[s].metadata[i].time \in Nat
                  /\ disk[s].metadata[i].time > 0
             /\ ToSet(disk[s].metadata) = {disk[s].metadata[i] : i \in DOMAIN disk[s].metadata}
  <2>1. disk[s].metadata \in Seq(RecordEntry)
    BY <1>1 DEF Directory
  <2>2. \A i \in DOMAIN disk[s].metadata : disk[s].metadata[i] \in RecordEntry
    BY <2>1, LenProperties, ElementOfSeq
  <2>3. ToSet(disk[s].metadata) = {disk[s].metadata[i] : i \in DOMAIN disk[s].metadata}
    BY DEF ToSet
  <2> QED
    BY <2>2, <2>3 DEF RecordEntry
<1>3. ASSUME NEW ts \in 1 .. now, NEW a \in Lookup(ts)
      PROVE  \/ disk[a.session].files[a.name].from = a.start
             \/ a.session \in reused
             \/ disk[a.session].files[a.name].from > 0
                  /\ \A e \in ToSet(disk[a.session].metadata) :
                       e.time # disk[a.session].files[a.name].from
  <2>1. PICK d \in DOMAIN disk : \E e \in ToSet(disk[d].metadata) :
             a = [session |-> d, name |-> e.name, start |-> e.time]
    BY <1>3 DEF Lookup, LookupIn, SearchElementOrSmaller
  <2>2. PICK e \in ToSet(disk[d].metadata) :
             a = [session |-> d, name |-> e.name, start |-> e.time]
    BY <2>1
  <2>3. PICK i \in DOMAIN disk[d].metadata : e = disk[d].metadata[i]
    BY <1>2, <2>2
  <2>4. CASE d \notin reused
    <3>1. Matches(disk[d].metadata, disk[d].files)
      BY <2>4 DEF RecordInv, EntriesMatch
    <3>2. \/ disk[d].files[e.name].from = e.time
          \/ /\ disk[d].files[e.name].from > 0
             /\ \A j \in DOMAIN disk[d].metadata :
                  disk[d].metadata[j].time # disk[d].files[e.name].from
      BY <2>3, <3>1 DEF Matches
    <3> QED
      BY <1>2, <2>2, <3>2
  <2> QED
    BY <2>2, <2>4
<1>4. ASSUME NEW ts \in 1 .. now, NEW s \in DOMAIN disk, NEW n \in Names,
             disk[s].files[n].from <= ts, ts < disk[s].files[n].to,
             NEW f \in ToSet(disk[s].metadata), f.time = disk[s].files[n].from
      PROVE  Lookup(ts) = {[session |-> s, name |-> n, start |-> disk[s].files[n].from]}
  <2> DEFINE from  == disk[s].files[n].from
             to    == disk[s].files[n].to
             found == [session |-> s, name |-> n, start |-> from]
  <2>1. from \in Nat /\ to \in Nat /\ ts \in Nat /\ from <= ts /\ ts < to
        /\ \A t \in DOMAIN disk : t \in Nat
    BY <1>1, <1>4, FilesPast
  <2>2. s <= from /\ \A t \in DOMAIN disk : s < t => to <= t
    <3>1. disk[s].files[n] # NoFile
      BY <2>1 DEF NoFile
    <3> QED
      BY <3>1 DEF RecordInv, FilesApart
  <2>3. \A e \in ToSet(disk[s].metadata) :
          /\ e.time \in Nat
          /\ from = e.time => e.name = n
          /\ from < e.time => to <= e.time
    BY <1>1, <1>2 DEF Dated
  <2>4. f.name = n /\ f.time = from
    BY <1>4, <2>3
  <2> HIDE DEF from, to
  <2>5. SearchElementOrSmaller(DOMAIN disk, ts) = {s}
    <3>1. s <= ts /\ \A t \in DOMAIN disk : t <= ts => t <= s
      BY <2>1, <2>2
    <3>2. \A t \in DOMAIN disk : s <= t /\ t <= s => t = s
      BY <2>1
    <3> QED
      BY <2>1, <3>1, <3>2 DEF SearchElementOrSmaller
  <2>6. \A e \in ToSet(disk[s].metadata) : e.time <= ts => e.time <= from
    BY <2>1, <2>3
  <2>7. LookupIn(s, ts) = {e \in ToSet(disk[s].metadata) : e.time = from}
    <3> DEFINE times == {e.time : e \in ToSet(disk[s].metadata)}
    <3>1. from \in times /\ \A t \in times : t \in Nat /\ (t <= ts => t <= from)
      BY <1>4, <2>3, <2>4, <2>6
    <3> HIDE DEF times
    <3>2. SearchElementOrSmaller(times, ts) = {from}
      <4>1. \A t \in times : t <= from /\ from <= t => t = from
        BY <2>1, <3>1
      <4> QED
        BY <2>1, <3>1, <4>1 DEF SearchElementOrSmaller
    <3> QED
      BY <3>2 DEF LookupIn, times
  <2>8. {[session |-> s, name |-> e.name, start |-> e.time] : e \in LookupIn(s, ts)} = {found}
    <3>1. \A e \in LookupIn(s, ts) : e.name = n /\ e.time = from
      BY <2>3, <2>7
    <3>2. f \in LookupIn(s, ts)
      BY <1>4, <2>4, <2>7
    <3> QED
      BY <2>4, <3>1, <3>2
  <2>9. Lookup(ts) = {found}
    BY <2>5, <2>8 DEF Lookup
  <2> QED
    BY <2>9 DEF from
<1> QED
  BY <1>3, <1>4 DEF FoundFileHolds

\* For every length of the ring and number of sessions, fragments, failures and
\* crashes, what a search finds is what was recorded.
THEOREM FoundFileAlwaysHolds == RecordSpec => []FoundFileHolds
BY RecordInvariant, FindsWhatWasRecorded, PTL
=============================================================================

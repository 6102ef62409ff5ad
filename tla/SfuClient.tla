------------------------------- MODULE SfuClient -------------------------------
(***************************************************************************)
(* The controller's client of the SFU: the signalling of one RTC and the   *)
(* ICE candidates of its two transports.                                    *)
(*                                                                         *)
(* A loop receives the SFU's messages.  Candidates gathered before the      *)
(* transport has a remote description are queued; the loop sends the queue  *)
(* once the description is set, and so does the callback of a later         *)
(* candidate.  Loop and callbacks share the queue without a lock, and each  *)
(* empties it after it has sent it.                                         *)
(*                                                                         *)
(* The operations of the peer connections are external and may fail where   *)
(* the code handles an error.  What the SFU and the network do are events;   *)
(* the module that uses this one bounds them.                               *)
(***************************************************************************)
EXTENDS Naturals

CONSTANTS PubCandidates, SubCandidates  \* what each transport gathers

Transport == {"pub", "sub"}
CandidatesOf(t) == IF t = "pub" THEN PubCandidates ELSE SubCandidates
Candidate == PubCandidates \cup SubCandidates

ASSUME CandidateAssumption == PubCandidates \cap SubCandidates = {}

VARIABLES
  rtc,      \* "none", "open" or "closed"
  signal,   \* onSingalHandle: what it does, for which transport and message
  join,     \* the join request: "none", "sent", or what became of it
  publish,  \* the goroutine of Publish
  due,      \* offers of the publisher the SFU has to answer
  local,    \* transports with a local description, which gather candidates
  remote,   \* transports with a remote description
  sendQ,    \* SendCandidates, of both transports
  ice,      \* [Transport -> the OnICECandidate callback]
  sent,     \* [Candidate -> how often it was sent]
  \* history
  gathered, \* candidates whose callback was called
  raced,    \* queued by a callback that had found no remote description,
            \* when there was one
  sentTwice \* sent from the queue by loop and callback at once

rtcVars == <<rtc, signal, join, publish, due, local, remote, sendQ, ice, sent,
             gathered, raced, sentTwice>>

-----------------------------------------------------------------------------
Off  == [at |-> "off"]
Recv == [at |-> "recv"]
Over == [at |-> "over"]
Handling(step, t, msg) == [at |-> step, t |-> t, msg |-> msg]
Idle == [at |-> "idle"]
Calling(step, c) == [at |-> step, c |-> c]

Queue(t) == sendQ \cap CandidatesOf(t)

RtcInit ==
  /\ rtc = "none" /\ signal = Off /\ join = "none" /\ publish = "none" /\ due = 0
  /\ local = {} /\ remote = {} /\ sendQ = {} /\ ice = [t \in Transport |-> Idle]
  /\ sent = [c \in Candidate |-> 0] /\ gathered = {} /\ raced = {} /\ sentTwice = {}

\* One more time, with those another sender has sent and not yet taken out.
Send(C, other) ==
  /\ sent' = [c \in Candidate |-> IF c \in C THEN sent[c] + 1 ELSE sent[c]]
  /\ sentTwice' = IF other THEN sentTwice \cup C ELSE sentTwice

-----------------------------------------------------------------------------
(* What the client calls.                                                  *)

\* NewRTC with a signaller: the loop starts, then the transports are made.
NewRTC ==
  /\ rtc = "none" /\ rtc' = "open" /\ signal' = Recv
  /\ UNCHANGED <<join, publish, due, local, remote, sendQ, ice, sent,
                 gathered, raced, sentTwice>>

\* Join: the offer is made and sent.
Join ==
  /\ join = "none" /\ join' = "sent" /\ local' = {"pub"}
  /\ UNCHANGED <<rtc, signal, publish, due, remote, sendQ, ice, sent,
                 gathered, raced, sentTwice>>

\* Publish: a goroutine waits for the join before it negotiates.
Publish ==
  /\ publish = "none" /\ publish' = "waits"
  /\ UNCHANGED <<rtc, signal, join, due, local, remote, sendQ, ice, sent,
                 gathered, raced, sentTwice>>

\* onNegotiationNeeded; its errors are logged only, and an empty offer sent.
Negotiates ==
  /\ publish = "waits" /\ join = "ok"
  /\ publish' = "done"
  /\ due' \in IF rtc = "open" THEN {due, due + 1} ELSE {due}
  /\ UNCHANGED <<rtc, signal, join, local, remote, sendQ, ice, sent,
                 gathered, raced, sentTwice>>

\* Connector.Close and RTC.Close.
CloseRTC ==
  /\ rtc' = "closed"
  /\ UNCHANGED <<signal, join, publish, due, local, remote, sendQ, ice,
                 sent, gathered, raced, sentTwice>>

-----------------------------------------------------------------------------
(* The signal loop.                                                        *)

SignalOnly(s) ==
  /\ signal' = s
  /\ UNCHANGED <<rtc, publish, due, local, sendQ, ice, sent, gathered,
                 raced, sentTwice>>

\* The stream ends, by an error or by the client's cancel: the loop does, and
\* nothing else is told.
RecvFails ==
  /\ signal = Recv /\ SignalOnly(Over) /\ UNCHANGED <<join, remote>>

\* An answer comes for the join or for an offer, or the SFU offers; the
\* description is set, and candidates of the SFU that came early are added.
JoinAnswered ==
  /\ signal = Recv /\ rtc = "open" /\ join = "sent"
  /\ join' = "answered" /\ remote' = remote \cup {"pub"}
  /\ SignalOnly(Handling("send", "pub", "join"))

\* The SFU refuses, or the description is: the loop ends, and whoever waits
\* for the join waits for good.
JoinRefused ==
  /\ signal = Recv /\ join = "sent"
  /\ join' = "refused" /\ UNCHANGED remote /\ SignalOnly(Over)

OfferAnswered ==
  /\ signal = Recv /\ rtc = "open" /\ due > 0 /\ due' = due - 1
  /\ remote' = remote \cup {"pub"}
  /\ signal' = Handling("send", "pub", "answer")
  /\ UNCHANGED <<rtc, join, publish, local, sendQ, ice, sent, gathered,
                 raced, sentTwice>>

AnswerRefused ==
  /\ signal = Recv /\ due > 0 /\ due' = due - 1
  /\ UNCHANGED <<rtc, signal, join, publish, local, remote, sendQ, ice,
                 sent, gathered, raced, sentTwice>>

\* An offer that is refused is logged: the SFU gets no answer.
OfferArrives ==
  /\ signal = Recv /\ rtc = "open" /\ join = "ok"
  /\ remote' = remote \cup {"sub"} /\ UNCHANGED join
  /\ SignalOnly(Handling("send", "sub", "offer"))

\* The queue is sent; the callback may be sending it, too.
Sending(t) == ice[t].at = "clear"
SendQueue ==
  /\ signal.at = "send"
  /\ Send(Queue(signal.t), Sending(signal.t))
  /\ signal' = [signal EXCEPT !.at = "clear"]
  /\ UNCHANGED <<rtc, join, publish, due, local, remote, sendQ, ice,
                 gathered, raced>>

\* The queue is emptied.  After a join waitJoin is closed; after an offer the
\* answer is made and sent, or an error logged.
ClearQueue ==
  /\ signal.at = "clear"
  /\ sendQ' = sendQ \ CandidatesOf(signal.t)
  /\ join' = IF signal.msg = "join" THEN "ok" ELSE join
  /\ local' \in IF signal.msg = "offer" THEN {local, local \cup {"sub"}} ELSE {local}
  /\ signal' = Recv
  /\ UNCHANGED <<rtc, publish, due, remote, ice, sent, gathered, raced, sentTwice>>

-----------------------------------------------------------------------------
(* OnICECandidate: the callbacks of a transport come one after the other.  *)

\* A callback that does not look for the description.
GatherSends(t, c) ==
  /\ rtc = "open" /\ t \in local /\ ice[t] = Idle
  /\ c \in CandidatesOf(t) \ gathered /\ gathered' = gathered \cup {c}
  /\ ice' = [ice EXCEPT ![t] = Calling("send", c)]
  /\ UNCHANGED <<rtc, signal, join, publish, due, local, remote, sendQ,
                 sent, raced, sentTwice>>

Gather(t, c) ==
  /\ rtc = "open" /\ t \in local /\ ice[t] = Idle
  /\ c \in CandidatesOf(t) \ gathered /\ gathered' = gathered \cup {c}
  /\ ice' = [ice EXCEPT ![t] = Calling(IF t \in remote THEN "send" ELSE "append", c)]
  /\ UNCHANGED <<rtc, signal, join, publish, due, local, remote, sendQ,
                 sent, raced, sentTwice>>

AppendCandidate(t) ==
  /\ ice[t].at = "append"
  /\ sendQ' = sendQ \cup {ice[t].c}
  /\ raced' = IF t \in remote THEN raced \cup {ice[t].c} ELSE raced
  /\ ice' = [ice EXCEPT ![t] = Idle]
  /\ UNCHANGED <<rtc, signal, join, publish, due, local, remote, sent,
                 gathered, sentTwice>>

SendQueued(t) ==
  /\ ice[t].at = "send"
  /\ Send(Queue(t), signal.at = "clear" /\ signal.t = t)
  /\ ice' = [ice EXCEPT ![t] = Calling("clear", ice[t].c)]
  /\ UNCHANGED <<rtc, signal, join, publish, due, local, remote, sendQ,
                 gathered, raced>>

\* The queue is emptied and the candidate itself sent.
SendCandidate(t) ==
  /\ ice[t].at = "clear"
  /\ sendQ' = sendQ \ CandidatesOf(t)
  /\ Send({ice[t].c}, FALSE)
  /\ ice' = [ice EXCEPT ![t] = Idle]
  /\ UNCHANGED <<rtc, signal, join, publish, due, local, remote, gathered,
                 raced>>

\* What the SFU or the network does, and the steps that follow by themselves.
RtcEvent ==
  \/ RecvFails
  \/ OfferArrives
  \/ \E t \in Transport : \E c \in CandidatesOf(t) : Gather(t, c)

RtcStep ==
  \/ JoinAnswered
  \/ JoinRefused
  \/ OfferAnswered
  \/ AnswerRefused
  \/ SendQueue
  \/ ClearQueue
  \/ Negotiates
  \/ \E t \in Transport : \/ AppendCandidate(t)
                          \/ SendQueued(t)
                          \/ SendCandidate(t)

-----------------------------------------------------------------------------
\* Until the description is set every candidate gathered is queued.  From
\* then on, whenever neither the loop nor the callback is at the queue, each
\* was sent and none is queued, but for those whose callback had looked before
\* the description was set.  None is sent sentTwice unless loop and callback sent
\* the queue at once.
Settled(t) == ~(signal.at \in {"send", "clear"} /\ signal.t = t) /\ ice[t] = Idle
CandidatesArrive ==
  /\ \A t \in Transport :
       /\ t \notin remote => \A c \in CandidatesOf(t) : sent[c] = 0
       /\ t \notin remote /\ Settled(t) => Queue(t) = gathered \cap CandidatesOf(t)
       /\ t \in remote /\ Settled(t) =>
            /\ Queue(t) \subseteq raced
            /\ \A c \in gathered \cap CandidatesOf(t) : sent[c] > 0 \/ c \in raced
  /\ \A c \in Candidate : sent[c] > 1 => c \in sentTwice
=============================================================================

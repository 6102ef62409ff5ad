--------------------------- MODULE PeerNegotiation ---------------------------
(***************************************************************************)
(* Negotiation of the tracks that the SFU sends to one joined peer.        *)
(* Goroutines of other peers add and remove down tracks and then call      *)
(* negotiate(), a debounced timer; the timer's callback makes an offer     *)
(* unless an answer is outstanding, in which case it leaves a mark that    *)
(* the answer's handler turns into another timer.  Offers and answers      *)
(* travel in order over the peer's signal stream.                          *)
(*                                                                         *)
(* A set of tracks is represented by the number of changes that led to it. *)
(***************************************************************************)
EXTENDS Naturals, Sequences

CONSTANT MaxCalls   \* bound on the calls of negotiate() by other goroutines

ASSUME MaxCallsAssumption == MaxCalls \in Nat

VARIABLES
  wanted,     \* changes made to the peer connection's transceivers
  calls,      \* negotiating goroutines started so far
  announce,   \* those that have yet to call negotiate()
  timer,      \* the debounce timer is armed
  runners,    \* fired timers whose callback has not got the peer's lock
  remoteAnswerPending, negotiationPending, closed,   \* fields of PeerLocal
  pcState,    \* signaling state of the subscriber's peer connection
  offered,    \* the set of tracks in the last offer created
  offers,     \* offers on their way to the client
  answers,    \* answers on their way to the SFU
  stream,     \* the signal stream's loop runs
  agreed,     \* the set of tracks of the last answer applied
  ignored     \* history: the client dropped an offer

vars == <<wanted, calls, announce, timer, runners, remoteAnswerPending,
          negotiationPending, closed, pcState, offered, offers, answers,
          stream, agreed, ignored>>

PcStates == {"stable", "have-local-offer", "closed"}

TypeOK ==
  /\ wanted \in Nat /\ calls \in Nat /\ announce \in Nat /\ runners \in Nat
  /\ offered \in Nat /\ agreed \in Nat
  /\ timer \in BOOLEAN /\ closed \in BOOLEAN /\ stream \in BOOLEAN /\ ignored \in BOOLEAN
  /\ remoteAnswerPending \in BOOLEAN /\ negotiationPending \in BOOLEAN
  /\ pcState \in PcStates
  /\ offers \in Seq(Nat) /\ answers \in Seq(Nat)

Init ==
  /\ wanted = 0 /\ calls = 0 /\ announce = 0 /\ runners = 0
  /\ offered = 0 /\ agreed = 0
  /\ timer = FALSE /\ closed = FALSE /\ stream = TRUE /\ ignored = FALSE
  /\ remoteAnswerPending = FALSE /\ negotiationPending = FALSE
  /\ pcState = "stable"
  /\ offers = <<>> /\ answers = <<>>

-----------------------------------------------------------------------------
\* A goroutine adds or removes a down track; it has yet to call negotiate().
Change ==
  /\ calls < MaxCalls /\ pcState # "closed"
  /\ calls' = calls + 1
  /\ announce' = announce + 1
  /\ wanted' = wanted + 1
  /\ UNCHANGED <<timer, runners, remoteAnswerPending, negotiationPending, closed,
                 pcState, offered, offers, answers, stream, agreed, ignored>>

\* A goroutine is about to call negotiate() though it changed nothing: the end
\* of Subscribe, or a subscription request for a track the peer already has.
NoChange ==
  /\ calls < MaxCalls
  /\ calls' = calls + 1
  /\ announce' = announce + 1
  /\ UNCHANGED <<wanted, timer, runners, remoteAnswerPending, negotiationPending,
                 closed, pcState, offered, offers, answers, stream, agreed, ignored>>

\* negotiate(): the debouncer stops its timer, if armed, and starts a new one.
Negotiate ==
  /\ announce > 0
  /\ announce' = announce - 1
  /\ timer' = TRUE
  /\ UNCHANGED <<wanted, calls, runners, remoteAnswerPending, negotiationPending,
                 closed, pcState, offered, offers, answers, stream, agreed, ignored>>

\* 250 ms without another call: the callback runs in a goroutine of its own.
TimerFires ==
  /\ timer
  /\ timer' = FALSE
  /\ runners' = runners + 1
  /\ UNCHANGED <<wanted, calls, announce, remoteAnswerPending, negotiationPending,
                 closed, pcState, offered, offers, answers, stream, agreed, ignored>>

\* Mutants of OnNegotiationNeeded: an offer overtakes those on their way;
OfferOvertakes ==
  /\ runners > 0 /\ pcState # "closed"
  /\ runners' = runners - 1
  /\ offered' = wanted
  /\ pcState' = "have-local-offer"
  /\ remoteAnswerPending' = TRUE
  /\ offers' = IF closed \/ ~stream THEN offers ELSE <<wanted>> \o offers
  /\ UNCHANGED <<wanted, calls, announce, timer, negotiationPending, closed, answers,
                 stream, agreed, ignored>>

\* remoteAnswerPending is not set;
OfferUnmarked ==
  /\ runners > 0 /\ ~remoteAnswerPending /\ pcState # "closed"
  /\ runners' = runners - 1
  /\ offered' = wanted
  /\ pcState' = "have-local-offer"
  /\ offers' = IF closed \/ ~stream THEN offers ELSE Append(offers, wanted)
  /\ UNCHANGED <<wanted, calls, announce, timer, remoteAnswerPending, negotiationPending,
                 closed, answers, stream, agreed, ignored>>

\* a callback that meets an outstanding answer returns without the mark.
OfferForgets ==
  /\ runners > 0
  /\ runners' = runners - 1
  /\ \/ /\ remoteAnswerPending \/ pcState = "closed"
        /\ UNCHANGED <<remoteAnswerPending, pcState, offered, offers>>
     \/ /\ ~remoteAnswerPending /\ pcState # "closed"
        /\ offered' = wanted
        /\ pcState' = "have-local-offer"
        /\ remoteAnswerPending' = TRUE
        /\ offers' = IF closed \/ ~stream THEN offers ELSE Append(offers, wanted)
  /\ UNCHANGED <<wanted, calls, announce, timer, negotiationPending, closed, answers,
                 stream, agreed, ignored>>

\* The callback, under the peer's lock.
OnNegotiationNeeded ==
  /\ runners > 0
  /\ runners' = runners - 1
  /\ \/ /\ remoteAnswerPending
        /\ negotiationPending' = TRUE
        /\ UNCHANGED <<remoteAnswerPending, pcState, offered, offers>>
     \/ \* CreateOffer fails: the peer connection is closed.
        /\ ~remoteAnswerPending /\ pcState = "closed"
        /\ UNCHANGED <<remoteAnswerPending, negotiationPending, pcState, offered, offers>>
     \/ /\ ~remoteAnswerPending /\ pcState # "closed"
        /\ offered' = wanted
        /\ pcState' = "have-local-offer"
        /\ remoteAnswerPending' = TRUE
        /\ offers' = IF closed \/ ~stream THEN offers ELSE Append(offers, wanted)
        /\ UNCHANGED negotiationPending
  /\ UNCHANGED <<wanted, calls, announce, timer, closed, answers, stream, agreed, ignored>>

\* The controller's RTC.negotiate: offers are answered one by one, in order.
ClientAnswers ==
  /\ offers # <<>> /\ stream
  /\ answers' = Append(answers, Head(offers))
  /\ offers' = Tail(offers)
  /\ UNCHANGED <<wanted, calls, announce, timer, runners, remoteAnswerPending,
                 negotiationPending, closed, pcState, offered, stream, agreed, ignored>>

\* A step of RTC.negotiate fails: the error is logged and no answer is sent.
ClientIgnores ==
  /\ offers # <<>> /\ stream
  /\ offers' = Tail(offers)
  /\ ignored' = TRUE
  /\ UNCHANGED <<wanted, calls, announce, timer, runners, remoteAnswerPending,
                 negotiationPending, closed, pcState, offered, answers, stream, agreed>>

\* Mutant of SetRemoteDescription: the mark is cleared without a new timer.
AnswerDropsMark ==
  /\ answers # <<>> /\ stream /\ pcState = "have-local-offer"
  /\ answers' = Tail(answers)
  /\ pcState' = "stable"
  /\ agreed' = Head(answers)
  /\ remoteAnswerPending' = FALSE
  /\ negotiationPending' = FALSE
  /\ UNCHANGED <<wanted, calls, announce, timer, runners, closed, offered, offers,
                 stream, ignored>>

\* SetRemoteDescription, called by the signal stream's loop with an answer.
\* The peer connection refuses an answer without an offer of its own; the error
\* ends the stream, with what was on its way, and leaves the peer's flags as they
\* are.
SetRemoteDescription ==
  /\ answers # <<>> /\ stream
  /\ \/ /\ pcState = "have-local-offer"
        /\ answers' = Tail(answers)
        /\ pcState' = "stable"
        /\ agreed' = Head(answers)
        /\ remoteAnswerPending' = FALSE
        /\ negotiationPending' = FALSE
        /\ timer' = (timer \/ negotiationPending)
        /\ UNCHANGED <<stream, offers>>
     \/ /\ pcState # "have-local-offer"
        /\ stream' = FALSE /\ offers' = <<>> /\ answers' = <<>>
        /\ UNCHANGED <<pcState, agreed, remoteAnswerPending, negotiationPending, timer>>
  /\ UNCHANGED <<wanted, calls, announce, runners, closed, offered, ignored>>

\* The stream's loop returns an error for another request, an offer of the
\* client or a candidate: the peer is not closed.
HandlerFails ==
  /\ stream
  /\ stream' = FALSE /\ offers' = <<>> /\ answers' = <<>>
  /\ UNCHANGED <<wanted, calls, announce, timer, runners, remoteAnswerPending,
                 negotiationPending, closed, pcState, offered, agreed, ignored>>

\* The subscriber's ICE connection fails: its peer connection is closed, the
\* peer is not told.
SubscriberCloses ==
  /\ pcState # "closed"
  /\ pcState' = "closed"
  /\ UNCHANGED <<wanted, calls, announce, timer, runners, remoteAnswerPending,
                 negotiationPending, closed, offered, offers, answers, stream, agreed,
                 ignored>>

\* PeerLocal.Close, when the signal stream's Recv fails.
Close ==
  /\ ~closed /\ stream
  /\ closed' = TRUE
  /\ stream' = FALSE /\ offers' = <<>> /\ answers' = <<>>
  /\ pcState' = "closed"
  /\ UNCHANGED <<wanted, calls, announce, timer, runners, remoteAnswerPending,
                 negotiationPending, offered, agreed, ignored>>

Next ==
  \/ Change \/ NoChange \/ Negotiate \/ TimerFires \/ OnNegotiationNeeded
  \/ ClientAnswers \/ ClientIgnores \/ SetRemoteDescription \/ HandlerFails
  \/ SubscriberCloses \/ Close

Spec == Init /\ [][Next]_vars

\* The goroutines and timers of the SFU run; a client that is connected handles
\* each offer, one way or the other.
FairSpec ==
  /\ Spec
  /\ WF_vars(Negotiate) /\ WF_vars(TimerFires) /\ WF_vars(OnNegotiationNeeded)
  /\ WF_vars(ClientAnswers \/ ClientIgnores) /\ WF_vars(SetRemoteDescription)

-----------------------------------------------------------------------------
Outstanding == Len(offers) + Len(answers)

\* The lock and remoteAnswerPending serialise the exchanges: one offer or
\* answer at most is on its way, whichever goroutines asked for it and whenever.
OneExchange == Outstanding <= 1

\* An answer that arrives on a live peer connection is the answer to its offer:
\* it is never refused for the state of the connection.
AnswerExpected ==
  Outstanding > 0 /\ pcState # "closed" =>
    pcState = "have-local-offer" /\ remoteAnswerPending

\* The mark for a second round is only left while an answer is outstanding, so
\* it is never left for an answer that has come already.
MarkHasReader == negotiationPending => remoteAnswerPending

\* No renegotiation is lost: tracks changed after the last offer are followed
\* by a call still to come, an armed timer, a waiting callback or the mark.
NoLostChange ==
  wanted > offered /\ pcState # "closed" =>
    announce > 0 \/ timer \/ runners > 0 \/ negotiationPending

\* An offer that was created is on its way, or its answer is, unless the client
\* dropped it or the stream is gone: the peer does not wait for nothing.
PendingHasExchange ==
  remoteAnswerPending /\ stream /\ pcState # "closed" => Outstanding = 1 \/ ignored

\* The agreement follows the changes as Renegotiation promises.
Promise == INSTANCE Renegotiation WITH wanted <- wanted, agreed <- agreed
ImplementsRenegotiation == Promise!Spec

\* Every change is agreed on in the end, unless the client drops an offer - no
\* timer of the SFU makes up for that - or the connection is gone.
EveryChangeAgreed ==
  \A v \in 1 .. MaxCalls :
    wanted >= v ~> agreed >= v \/ ignored \/ pcState = "closed" \/ ~stream
=============================================================================

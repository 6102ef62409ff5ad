------------------------------ MODULE Signalling ------------------------------
(***************************************************************************)
(* One browser's session from its web socket to its peer on the SFU.       *)
(*                                                                         *)
(* The controller reads the web socket in one loop that forwards every     *)
(* request to the signal stream and, after a join or an offer, waits for   *)
(* the reply; two other goroutines read the stream and sort the replies:   *)
(* those of joins and offers go to the waiting loop, offers and candidates *)
(* straight to the web socket.  The SFU handles the requests of a stream   *)
(* one by one while timers and other peers make it offer and candidates    *)
(* appear.                                                                  *)
(*                                                                         *)
(* The subscriber's negotiation inside it is PeerNegotiation, whose two    *)
(* queues are here the parts of a path through all of these.               *)
(***************************************************************************)
EXTENDS Naturals, Sequences

CONSTANTS
  MaxCalls,   \* bound on the calls of negotiate() by other goroutines
  MaxEvents,  \* bound on what the browser and networks are free to do
  Candidates  \* candidates each end gathers, records of a transport and a number

Transport == {"publisher", "subscriber"}

ASSUME SignallingAssumption ==
  /\ MaxCalls \in Nat /\ MaxEvents \in Nat
  /\ Candidates \subseteq [of : Transport, n : Nat]

VARIABLES
  \* the browser
  config,     \* what it joins for: "both", "publish" or "subscribe"
  joins,      \* joins sent
  asked,      \* joins and offers sent, which numbers them
  answering,  \* the offers it has read and not answered
  trickled,   \* candidates sent
  left,       \* it closed the web socket
  \* the web socket's handler in the controller
  inbox, outbox,         \* messages from and to the browser
  opened,                \* the signal stream was opened
  waits,                 \* the request the read loop waits on, or Nothing
  ended,                 \* the read loop has returned
  resJoin, resOffer,     \* the channels of the replies it waits for
  requests, replies,     \* the signal stream with the channels at its ends
  \* the peer on the SFU
  joined, described, candidates, ice, gathered, publisherClosed,
  \* history
  early,      \* candidates forwarded before a join
  refused,    \* candidates the peer refused
  events

VARIABLES wanted, calls, announce, timer, runners, remoteAnswerPending,
          negotiationPending, closed, pcState, offered, stream, agreed, ignored

browserVars == <<config, joins, asked, answering, trickled, left>>
socketVars  == <<inbox, outbox, opened, waits, ended, resJoin, resOffer>>
peerVars    == <<joined, described, candidates, ice, gathered, publisherClosed>>
historyVars == <<early, refused>>
subVars     == <<wanted, calls, announce, timer, runners, remoteAnswerPending,
                 negotiationPending, closed, pcState, offered, stream, agreed, ignored>>
signalVars == <<browserVars, socketVars, requests, replies, peerVars, historyVars, subVars, events>>

-----------------------------------------------------------------------------
\* A message: an offer, answer or reply has a number; a candidate is itself.
Message(kind, x) == [kind |-> kind, n |-> x]
Holds(q, kind)   == \E i \in 1 .. Len(q) : q[i].kind = kind

\* The numbers of a kind of messages, in their order.
Numbers(q, kind) ==
  LET first[i \in 0 .. Len(q)] ==
        IF i = 0 THEN <<>>
        ELSE IF q[i].kind = kind THEN Append(first[i - 1], q[i].n)
        ELSE first[i - 1]
  IN  first[Len(q)]

Nothing == Message("nothing", 0)

SignalInit ==
  /\ config \in {"both", "publish", "subscribe"}
  /\ joins = 0 /\ asked = 0 /\ answering = <<>> /\ trickled = {} /\ left = FALSE
  /\ inbox = <<>> /\ outbox = <<>> /\ opened = FALSE /\ waits = Nothing
  /\ ended = FALSE /\ resJoin = <<>> /\ resOffer = <<>>
  /\ requests = <<>> /\ replies = <<>>
  /\ joined = FALSE /\ described = {} /\ publisherClosed = FALSE /\ gathered = {}
  /\ candidates = [t \in Transport |-> {}] /\ ice = [t \in Transport |-> {}]
  /\ early = {} /\ refused = {} /\ events = 0
  /\ wanted = 0 /\ calls = 0 /\ announce = 0 /\ runners = 0
  /\ offered = 0 /\ agreed = 0
  /\ timer = FALSE /\ closed = FALSE /\ stream = TRUE /\ ignored = FALSE
  /\ remoteAnswerPending = FALSE /\ negotiationPending = FALSE
  /\ pcState = "stable"

\* Transports the peer has: it makes one unless the join says not to.
Has(t) == joined /\ config \in {"both", IF t = "publisher" THEN "publish" ELSE "subscribe"}

\* The offers and answers of the subscriber, oldest first, wherever they are.
\* Those of a stream that has ended never arrive.
OnTheWayOut == IF stream THEN answering \o Numbers(outbox, "offer") \o Numbers(replies, "offer")
               ELSE <<>>
OnTheWayIn  == IF stream THEN Numbers(requests, "answer") \o Numbers(inbox, "answer")
               ELSE <<>>
Negotiation == INSTANCE PeerNegotiation WITH offers <- OnTheWayOut, answers <- OnTheWayIn

-----------------------------------------------------------------------------
(* The browser: external, it answers the offers it gets and is free to do  *)
(* the rest at any time.                                                   *)

BrowserOnly == UNCHANGED <<config, opened, waits, ended, resJoin, resOffer, requests,
                           replies, peerVars, historyVars, wanted, calls, announce,
                           timer, runners, remoteAnswerPending, negotiationPending,
                           closed, pcState, offered, stream, agreed>>

Asks(kind) ==
  /\ ~left
  /\ asked' = asked + 1
  /\ inbox' = Append(inbox, Message(kind, asked + 1))

BrowserJoins ==
  /\ joins' = joins + 1
  /\ Asks("join")
  /\ UNCHANGED <<answering, trickled, left, outbox, ignored>> /\ BrowserOnly

BrowserOffers ==
  /\ joins > 0 /\ Asks("offer")
  /\ UNCHANGED <<joins, answering, trickled, left, outbox, ignored>> /\ BrowserOnly

\* The subscriber's transport gathers from the first offer on, the publisher's
\* even before the join is sent.
BrowserTrickles(c) ==
  /\ ~left /\ c \notin trickled
  /\ c.of = "subscriber" => \/ answering # <<>> \/ "subscriber" \in described
                            \/ Holds(inbox, "answer") \/ Holds(requests, "answer")
  /\ trickled' = trickled \cup {c}
  /\ inbox' = Append(inbox, Message("trickle", c))
  /\ UNCHANGED <<joins, asked, answering, left, outbox, ignored>> /\ BrowserOnly

BrowserReads ==
  /\ ~left /\ outbox # <<>>
  /\ outbox' = Tail(outbox)
  /\ answering' = IF Head(outbox).kind = "offer" THEN Append(answering, Head(outbox).n)
                  ELSE answering
  /\ UNCHANGED <<joins, asked, trickled, left, inbox, ignored>> /\ BrowserOnly

BrowserAnswers ==
  /\ ~left /\ answering # <<>>
  /\ answering' = Tail(answering)
  /\ inbox' = Append(inbox, Message("answer", Head(answering)))
  /\ UNCHANGED <<joins, asked, trickled, left, outbox, ignored>> /\ BrowserOnly

\* A step of its negotiation fails and it sends no answer.
BrowserIgnores ==
  /\ ~left /\ answering # <<>>
  /\ answering' = Tail(answering)
  /\ ignored' = TRUE
  /\ UNCHANGED <<joins, asked, trickled, left, inbox, outbox>> /\ BrowserOnly

BrowserLeaves ==
  /\ ~left /\ left' = TRUE
  /\ UNCHANGED <<joins, asked, answering, trickled, inbox, outbox, ignored>> /\ BrowserOnly

-----------------------------------------------------------------------------
(* The controller: Handle, its read loop.                                  *)

Reads(kind) == ~ended /\ waits = Nothing /\ inbox # <<>> /\ Head(inbox).kind = kind

SocketOnly == UNCHANGED <<browserVars, peerVars, refused, subVars>>

\* Reads a request and passes it on.
Forwards ==
  /\ inbox' = Tail(inbox)
  /\ requests' = Append(requests, Head(inbox))
  /\ UNCHANGED <<outbox, ended, resJoin, resOffer, replies>>

\* Finding a node or opening the stream fails: an error is written and the
\* loop goes on.
ReadJoinFails ==
  /\ Reads("join")
  /\ inbox' = Tail(inbox)
  /\ outbox' = Append(outbox, Message("error", Head(inbox).n))
  /\ UNCHANGED <<opened, waits, ended, resJoin, resOffer, requests, replies, early>>
  /\ SocketOnly

\* A second join opens a stream of its own, but the goroutines and the reply
\* stay with the first.
ReadJoin ==
  /\ Reads("join") /\ Forwards
  /\ opened' = TRUE
  /\ waits' = Head(inbox)
  /\ UNCHANGED early /\ SocketOnly

ReadOffer ==
  /\ Reads("offer") /\ Forwards
  /\ waits' = Head(inbox)
  /\ UNCHANGED <<opened, early>> /\ SocketOnly

ReadAnswer ==
  /\ Reads("answer") /\ Forwards
  /\ UNCHANGED <<opened, waits, early>> /\ SocketOnly

ReadTrickle ==
  /\ Reads("trickle") /\ Forwards
  /\ early' = IF opened THEN early ELSE early \cup {Head(inbox).n}
  /\ UNCHANGED <<opened, waits>> /\ SocketOnly

\* The loop has the reply it waits for and writes it as the response.
Response(reply) == [kind |-> "response", n |-> reply.n, to |-> waits.n, of |-> waits.kind]

RespondJoin ==
  /\ waits.kind = "join" /\ resJoin # <<>>
  /\ resJoin' = Tail(resJoin)
  /\ outbox' = Append(outbox, Response(Head(resJoin)))
  /\ waits' = Nothing
  /\ UNCHANGED <<inbox, opened, ended, resOffer, requests, replies, early>> /\ SocketOnly

RespondOffer ==
  /\ waits.kind = "offer" /\ resOffer # <<>>
  /\ resOffer' = Tail(resOffer)
  /\ outbox' = Append(outbox, Response(Head(resOffer)))
  /\ waits' = Nothing
  /\ UNCHANGED <<inbox, opened, ended, resJoin, requests, replies, early>> /\ SocketOnly

\* ReadMessage fails; deferred calls end the stream and the goroutines.
HandlerEnds ==
  /\ left /\ ~ended /\ waits = Nothing
  /\ ended' = TRUE
  /\ UNCHANGED <<inbox, outbox, opened, waits, resJoin, resOffer, requests, replies, early>>
  /\ SocketOnly

-----------------------------------------------------------------------------
(* The controller: the goroutines of handleSignalFromSFU.                  *)

RelayOnly == UNCHANGED <<browserVars, inbox, opened, waits, ended, requests, peerVars,
                         historyVars, subVars>>

Relays(kinds) == ~ended /\ replies # <<>> /\ Head(replies).kind \in kinds
                 /\ replies' = Tail(replies)

\* Mutant: every description is written to the web socket.
RelayDescriptions ==
  /\ \/ /\ Relays({"joined", "refused"})
        /\ resJoin' = Append(resJoin, Head(replies)) /\ UNCHANGED <<outbox, resOffer>>
     \/ /\ Relays({"answer"})
        /\ outbox' = Append(outbox, Head(replies)) /\ UNCHANGED <<resJoin, resOffer>>
  /\ RelayOnly

\* A reply that is no offer goes to the read loop.
RelayReply ==
  /\ \/ /\ Relays({"joined", "refused"})
        /\ resJoin' = Append(resJoin, Head(replies)) /\ UNCHANGED resOffer
     \/ /\ Relays({"answer"})
        /\ resOffer' = Append(resOffer, Head(replies)) /\ UNCHANGED resJoin
  /\ UNCHANGED outbox /\ RelayOnly

\* Mutant: what comes while the loop waits for a reply is dropped.
RelayOfferAtRest ==
  /\ Relays({"offer", "trickle"})
  /\ outbox' = IF waits = Nothing THEN Append(outbox, Head(replies)) ELSE outbox
  /\ UNCHANGED <<resJoin, resOffer>> /\ RelayOnly

\* Offers and candidates are written to the web socket, by a goroutine that
\* shares only the socket's lock with the read loop.
RelayOffer ==
  /\ Relays({"offer", "trickle"})
  /\ outbox' = Append(outbox, Head(replies))
  /\ UNCHANGED <<resJoin, resOffer>> /\ RelayOnly

\* An error reply has no case.
RelayError ==
  /\ Relays({"error"})
  /\ UNCHANGED <<outbox, resJoin, resOffer>> /\ RelayOnly

-----------------------------------------------------------------------------
(* The SFU: Signal, its loop.                                              *)

Receives(kind) ==
  /\ opened /\ stream /\ requests # <<>> /\ Head(requests).kind = kind
  /\ requests' = Tail(requests)

\* Send on a stream whose handler has returned fails; the error is logged.
Sends(ms) == replies' = IF stream THEN replies \o ms ELSE replies

SfuOnly == UNCHANGED <<browserVars, socketVars, early>>
NegotiationKept == UNCHANGED <<wanted, calls, announce, timer, runners, remoteAnswerPending,
                               negotiationPending, closed, pcState, offered, agreed, ignored>>

\* The handler returns an error and leaves the peer in its session.
Returns == stream' = FALSE /\ NegotiationKept

\* PeerLocal.Answer: without a publisher, when it has closed, or when the
\* description is refused, the handler returns.
CanAnswer == joined' /\ config # "subscribe" /\ ~publisherClosed

AnswersOffer(kind, before) ==
  \/ /\ CanAnswer
     /\ described' = described \cup {"publisher"}
     /\ ice' = [ice EXCEPT !["publisher"] = @ \cup candidates["publisher"]]
     /\ candidates' = [candidates EXCEPT !["publisher"] = {}]
     /\ Sends(before \o <<Message(kind, Head(requests).n)>>)
     /\ UNCHANGED subVars
  \/ /\ Sends(before)
     /\ UNCHANGED <<described, ice, candidates>> /\ Returns

\* The peer joins; making a transport may fail.
Join ==
  /\ Receives("join") /\ ~joined
  /\ joined' = TRUE
  /\ AnswersOffer("joined", <<>>)
  /\ UNCHANGED <<gathered, publisherClosed, refused>> /\ SfuOnly

\* Mutant: the second answer is sent like that of an offer.
JoinAgainDescribes ==
  /\ Receives("join") /\ joined
  /\ joined' = joined
  /\ AnswersOffer("answer", <<Message("refused", 0)>>)
  /\ UNCHANGED <<gathered, publisherClosed, refused>> /\ SfuOnly

\* The peer has joined: it says so, then answers all the same.
JoinAgain ==
  /\ Receives("join") /\ joined
  /\ joined' = joined
  /\ AnswersOffer("joined", <<Message("refused", 0)>>)
  /\ UNCHANGED <<gathered, publisherClosed, refused>> /\ SfuOnly

Offer ==
  /\ Receives("offer")
  /\ joined' = joined
  /\ AnswersOffer("answer", <<>>)
  /\ UNCHANGED <<gathered, publisherClosed, refused>> /\ SfuOnly

\* A candidate of a peer that lacks one of the two transports is refused, ...
TrickleRefused ==
  /\ Receives("trickle")
  /\ ~(Has("publisher") /\ Has("subscriber"))
  /\ refused' = refused \cup {Head(requests).n}
  /\ Sends(<<Message("error", 0)>>)
  /\ UNCHANGED <<peerVars, subVars>> /\ SfuOnly

\* ... is kept while its transport has no remote description, and then added;
\* if that fails the handler returns.
AddICECandidate(c) ==
  \/ /\ c.of \in described
     /\ ice' = [ice EXCEPT ![c.of] = @ \cup {c}]
     /\ UNCHANGED <<candidates, subVars>>
  \/ /\ c.of \in described
     /\ UNCHANGED <<candidates, ice>> /\ Returns
  \/ /\ c.of \notin described
     /\ candidates' = [candidates EXCEPT ![c.of] = @ \cup {c}]
     /\ UNCHANGED <<ice, subVars>>

Trickle ==
  /\ Receives("trickle") /\ Has("publisher") /\ Has("subscriber")
  /\ AddICECandidate(Head(requests).n)
  /\ UNCHANGED <<replies, joined, described, gathered, publisherClosed, refused>> /\ SfuOnly

\* Mutant of SetRemoteDescription: what was queued stays in the queue.
AnswerKeepsQueue ==
  /\ Receives("answer") /\ Has("subscriber")
  /\ \/ /\ pcState = "have-local-offer"
        /\ pcState' = "stable" /\ agreed' = Head(requests).n
        /\ remoteAnswerPending' = FALSE /\ negotiationPending' = FALSE
        /\ timer' = (timer \/ negotiationPending)
        /\ described' = described \cup {"subscriber"}
        /\ UNCHANGED <<ice, candidates, stream>>
     \/ /\ pcState # "have-local-offer"
        /\ stream' = FALSE
        /\ UNCHANGED <<pcState, agreed, remoteAnswerPending, negotiationPending, timer,
                       described, ice, candidates>>
  /\ UNCHANGED <<replies, wanted, calls, announce, runners, closed, offered, ignored,
                 joined, gathered, publisherClosed, refused>> /\ SfuOnly

\* PeerLocal.SetRemoteDescription and the subscriber's, under the peer's lock.
\* A peer without subscriber makes no offer and gets no answer.
Answer ==
  /\ Receives("answer") /\ Has("subscriber")
  /\ \/ /\ pcState = "have-local-offer"
        /\ pcState' = "stable" /\ agreed' = Head(requests).n
        /\ remoteAnswerPending' = FALSE /\ negotiationPending' = FALSE
        /\ timer' = (timer \/ negotiationPending)
        /\ described' = described \cup {"subscriber"}
        /\ ice' = [ice EXCEPT !["subscriber"] = @ \cup candidates["subscriber"]]
        /\ candidates' = [candidates EXCEPT !["subscriber"] = {}]
        /\ UNCHANGED stream
     \/ /\ pcState # "have-local-offer"
        /\ stream' = FALSE
        /\ UNCHANGED <<pcState, agreed, remoteAnswerPending, negotiationPending, timer,
                       described, ice, candidates>>
  /\ UNCHANGED <<replies, wanted, calls, announce, runners, closed, offered, ignored,
                 joined, gathered, publisherClosed, refused>> /\ SfuOnly

\* Recv fails when the controller has ended the stream: PeerLocal.Close.
RecvFails ==
  /\ opened /\ ended /\ stream
  /\ stream' = FALSE /\ closed' = TRUE /\ pcState' = "closed" /\ publisherClosed' = TRUE
  /\ UNCHANGED <<requests, replies, joined, described, candidates, ice, gathered, refused,
                 wanted, calls, announce, timer, runners, remoteAnswerPending,
                 negotiationPending, offered, agreed, ignored>> /\ SfuOnly

-----------------------------------------------------------------------------
(* The SFU: callbacks and timers.                                          *)

CallbackOnly == SfuOnly /\ UNCHANGED <<requests, joined, described, candidates, ice, refused>>

\* Goroutines of other peers, and Subscribe itself, may change tracks and then
\* call negotiate(); its debounce timer fires.
Negotiates ==
  /\ Has("subscriber")
  /\ \/ /\ calls < MaxCalls /\ calls' = calls + 1 /\ announce' = announce + 1
        /\ wanted' \in {wanted} \cup IF pcState = "closed" THEN {} ELSE {wanted + 1}
        /\ UNCHANGED <<timer, runners>>
     \/ /\ announce > 0 /\ announce' = announce - 1 /\ timer' = TRUE
        /\ UNCHANGED <<calls, wanted, runners>>
     \/ /\ timer /\ timer' = FALSE /\ runners' = runners + 1
        /\ UNCHANGED <<calls, wanted, announce>>
  /\ UNCHANGED <<replies, gathered, publisherClosed, remoteAnswerPending, negotiationPending,
                 closed, pcState, offered, stream, agreed, ignored>> /\ CallbackOnly

\* The callback of OnNegotiationNeeded, under the peer's lock.
OnNegotiationNeeded ==
  /\ runners > 0
  /\ runners' = runners - 1
  /\ \/ /\ remoteAnswerPending
        /\ negotiationPending' = TRUE
        /\ UNCHANGED <<remoteAnswerPending, pcState, offered, replies>>
     \/ /\ ~remoteAnswerPending /\ pcState = "closed"
        /\ UNCHANGED <<remoteAnswerPending, negotiationPending, pcState, offered, replies>>
     \/ /\ ~remoteAnswerPending /\ pcState # "closed"
        /\ offered' = wanted
        /\ pcState' = "have-local-offer" /\ remoteAnswerPending' = TRUE
        /\ IF closed THEN UNCHANGED replies ELSE Sends(<<Message("offer", wanted)>>)
        /\ UNCHANGED negotiationPending
  /\ UNCHANGED <<gathered, publisherClosed, wanted, calls, announce, timer, closed,
                 stream, agreed, ignored>> /\ CallbackOnly

\* A transport with a local description gathers a candidate.
OnIceCandidate(c) ==
  /\ Has(c.of) /\ c \notin gathered /\ ~closed
  /\ IF c.of = "publisher" THEN "publisher" \in described
     ELSE pcState = "have-local-offer" \/ "subscriber" \in described
  /\ gathered' = gathered \cup {c}
  /\ Sends(<<Message("trickle", c)>>)
  /\ UNCHANGED <<publisherClosed, subVars>> /\ CallbackOnly

\* The ICE connection of a transport fails and closes it.
SubscriberCloses ==
  /\ Has("subscriber") /\ pcState # "closed"
  /\ pcState' = "closed"
  /\ UNCHANGED <<replies, gathered, publisherClosed, wanted, calls, announce, timer, runners,
                 remoteAnswerPending, negotiationPending, closed, offered, stream, agreed,
                 ignored>> /\ CallbackOnly

PublisherCloses ==
  /\ Has("publisher") /\ ~publisherClosed
  /\ publisherClosed' = TRUE
  /\ UNCHANGED <<replies, gathered, subVars>> /\ CallbackOnly

\* What the browser, networks and other peers are free to do, ...
Event ==
  /\ events < MaxEvents /\ events' = events + 1
  /\ \/ \E c \in Candidates : OnIceCandidate(c)
     \/ SubscriberCloses
     \/ PublisherCloses
     \/ /\ stream
        /\ \/ BrowserJoins
           \/ BrowserOffers
           \/ \E c \in Candidates : BrowserTrickles(c)
           \/ BrowserIgnores
           \/ BrowserLeaves
           \/ ReadJoinFails

\* ... and the steps that follow.  Once the stream's handler has returned, what
\* the two other parties still do reaches nobody and is left out.
Step ==
  /\ events' = events
  /\ \/ Negotiates
     \/ OnNegotiationNeeded
     \/ /\ stream
        /\ \/ BrowserReads \/ BrowserAnswers
           \/ ReadJoin \/ ReadOffer \/ ReadAnswer \/ ReadTrickle
           \/ RespondJoin \/ RespondOffer \/ HandlerEnds
           \/ RelayReply \/ RelayOffer \/ RelayError
           \/ Join \/ JoinAgain \/ Offer \/ TrickleRefused \/ Trickle \/ Answer
           \/ RecvFails

SignalNext == Event \/ Step

SignalSpec == SignalInit /\ [][SignalNext]_signalVars

-----------------------------------------------------------------------------
\* The read loop waits for something: while the SFU serves the stream, what the
\* loop is blocked on is a request on its way or a reply on its way back, and
\* never one that another request took.
WaitsForSomething ==
  opened /\ stream =>
    /\ waits.kind = "join" =>
         \/ Holds(requests, "join") \/ resJoin # <<>>
         \/ Holds(replies, "joined") \/ Holds(replies, "refused")
    /\ waits.kind = "offer" =>
         Holds(requests, "offer") \/ Holds(replies, "answer") \/ resOffer # <<>>

\* A response carries the SFU's answer to the very request it responds to,
\* whatever else is sent on the web socket: except that of a second join.
OwnAnswer ==
  \A i \in 1 .. Len(outbox) :
    outbox[i].kind = "response" =>
      outbox[i].n = outbox[i].to \/ (outbox[i].of = "join" /\ joins > 1)

\* No candidate of the browser is lost while its stream is served: it is on its
\* way, or in the connection it is for, or waits for that connection's remote
\* description, which has not come; unless it was sent before the join, or the
\* peer has one transport only.
CandidatesKept ==
  stream =>
    \A c \in trickled :
      \/ \E i \in 1 .. Len(inbox) : inbox[i].kind = "trickle" /\ inbox[i].n = c
      \/ \E i \in 1 .. Len(requests) : requests[i].kind = "trickle" /\ requests[i].n = c
      \/ c \in ice[c.of]
      \/ (c \in candidates[c.of] /\ c.of \notin described)
      \/ (c \in refused /\ (c \in early \/ config # "both"))

\* On the whole path from a peer's lock to the browser and back, the messages
\* of the subscriber's negotiation behave as PeerNegotiation says.
ImplementsNegotiation == Negotiation!Spec
=============================================================================

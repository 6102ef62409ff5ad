--------------------------- MODULE SignalPartsProofs ---------------------------
(***************************************************************************)
(* The safety properties of TrackEvents, for any tracks and streams, of     *)
(* Signalling, for any candidates, negotiations and number of events, and   *)
(* of AudioLevels, for any streams, levels and number of intervals.         *)
(***************************************************************************)
EXTENDS Signalling, TrackEvents, AudioLevels, FiniteSetTheorems,
        SequenceTheorems, WellFoundedInduction, TLAPS

-----------------------------------------------------------------------------
(* What a stream has been told of a track is what became of it, unless the *)
(* track is excused.                                                       *)

EventsTypeOK ==
  /\ installed \in Nat
  /\ state \in [Track -> {"none", "received", "listed", "handled"}]
  /\ deleted \subseteq Track /\ snapshot \subseteq Track /\ tracksInfo \subseteq Track
  /\ gone \in BOOLEAN /\ closing \in BOOLEAN
  /\ sigs \in [Observer -> {"out", "joining", "in"}]
  /\ view \in [Observer -> [Track -> {"none", "ADD", "REMOVE"}]]
  /\ excused \in [Observer -> SUBSET Track]

\* The tracks the timer and the stream's end tell of have arrived; a peer that
\* was closed lost its stream.
Arrived ==
  /\ \A t \in tracksInfo \cup snapshot \cup deleted : state[t] # "none"
  /\ closing => gone

\* A stream that has not joined was told nothing; the others believe of a
\* track what is true, where the tracks of a closed peer are yet to be deleted.
ViewOK ==
  \A o \in Roommate : \A t \in Track : t \in excused[o] \/
    /\ sigs[o] = "out" => view[o][t] = "none"
    /\ view[o][t] = "ADD" => state[t] # "none" /\ t \notin deleted /\ (gone => closing)
    /\ sigs[o] # "out" /\ state[t] # "none" /\ t \notin deleted /\ ~gone => view[o][t] = "ADD"
    /\ gone /\ ~closing => state[t] # "none"

EventsInv == EventsTypeOK /\ Arrived /\ ViewOK

-----------------------------------------------------------------------------
(* The messages on the path.                                               *)

Request == [kind : {"join", "offer", "answer"}, n : Nat] \cup [kind : {"trickle"}, n : Candidates]
Reply   == [kind : {"joined", "refused", "answer", "offer", "error"}, n : Nat]
             \cup [kind : {"trickle"}, n : Candidates]
Written == Reply \cup [kind : {"response"}, n : Nat, to : Nat, of : {"join", "offer"}]

SignalTypeOK ==
  /\ config \in {"both", "publish", "subscribe"} /\ joins \in Nat /\ asked \in Nat
  /\ answering \in Seq(Nat) /\ trickled \subseteq Candidates
  /\ inbox \in Seq(Request) /\ outbox \in Seq(Written)
  /\ waits \in {Nothing} \cup [kind : {"join", "offer"}, n : Nat]
  /\ ended \in BOOLEAN /\ opened \in BOOLEAN /\ joined \in BOOLEAN /\ stream \in BOOLEAN
  /\ resJoin \in Seq([kind : {"joined", "refused"}, n : Nat])
  /\ resOffer \in Seq([kind : {"answer"}, n : Nat])
  /\ requests \in Seq(Request) /\ replies \in Seq(Reply)
  /\ described \subseteq Transport
  /\ candidates \in [Transport -> SUBSET Candidates] /\ ice \in [Transport -> SUBSET Candidates]
  /\ early \subseteq Candidates /\ refused \subseteq Candidates
  /\ wanted \in Nat

Carries(q, c) == \E i \in 1 .. Len(q) : q[i].kind = "trickle" /\ q[i].n = c

\* At most one message of the kind, and of that number.
One(q, kind, x) ==
  \A i \in 1 .. Len(q) : q[i].kind = kind =>
    q[i].n = x /\ \A j \in 1 .. Len(q) : q[j].kind = kind => i = j

\* A candidate before any join on the stream was sent before the join.
JoinFirst(q, cs) ==
  \A i \in 1 .. Len(q) : q[i].kind = "trickle" =>
    q[i].n \in cs \/ \E j \in 1 .. i - 1 : q[j].kind = "join"

\* The offer the loop waits on is in one place at a time: as the request, as
\* the answer, or in the channel.
OfferOnce ==
  /\ waits.kind # "offer" =>
       ~Holds(requests, "offer") /\ ~Holds(replies, "answer") /\ resOffer = <<>>
  /\ One(requests, "offer", waits.n) /\ One(replies, "answer", waits.n)
  /\ resOffer = <<>> \/ resOffer = <<Message("answer", waits.n)>>
  /\ Holds(requests, "offer") => ~Holds(replies, "answer") /\ resOffer = <<>>
  /\ Holds(replies, "answer") => resOffer = <<>>

\* So is the browser's only join.
JoinOnce ==
  joins < 2 =>
    /\ waits.kind # "join" =>
         ~Holds(requests, "join") /\ ~Holds(replies, "joined") /\ resJoin = <<>>
    /\ One(requests, "join", waits.n) /\ One(replies, "joined", waits.n)
    /\ resJoin = <<>> \/ resJoin = <<Message("joined", waits.n)>>
    /\ Holds(requests, "join") => ~joined /\ ~Holds(replies, "joined") /\ resJoin = <<>>
    /\ Holds(replies, "joined") => resJoin = <<>>
    /\ ~Holds(replies, "refused")
    /\ joins = 0 => ~Holds(inbox, "join")
    /\ joins = 0 \/ Holds(inbox, "join") => waits.kind # "join" /\ ~joined
    /\ \A i, j \in 1 .. Len(inbox) :
         inbox[i].kind = "join" /\ inbox[j].kind = "join" => i = j

\* A peer that has not joined although its stream is open has a join ahead.
JoinAhead ==
  /\ ~opened => ~joined /\ ~Holds(requests, "join")
  /\ stream /\ opened /\ ~joined => Holds(requests, "join")
  /\ stream /\ ~joined => JoinFirst(requests, early)

\* Where a candidate of the browser is.
Located(c) ==
  \/ Carries(inbox, c) \/ Carries(requests, c)
  \/ c \in ice[c.of]
  \/ c \in candidates[c.of] /\ c.of \notin described
  \/ c \in refused /\ (c \in early \/ config # "both")

Kept == stream => \A c \in trickled : Located(c)

\* A peer whose stream is served is not closed.
StreamOpen == stream => ~closed

SignalInv ==
  /\ SignalTypeOK /\ WaitsForSomething /\ OfferOnce /\ JoinOnce /\ OwnAnswer /\ JoinAhead
  /\ Kept /\ StreamOpen

-----------------------------------------------------------------------------
(* What streams are told: every step.                                         *)

\* The types.
LEMMA EventsTypeStep == EventsTypeOK /\ [EventsNext]_eventVars => EventsTypeOK'
<1> SUFFICES ASSUME EventsTypeOK, [EventsNext]_eventVars PROVE EventsTypeOK'
  OBVIOUS
<1>1. ASSUME NEW t \in Track, AddReceiver(t) PROVE EventsTypeOK'
  <2>1. state' \in [Track -> {"none", "received", "listed", "handled"}]
    BY <1>1 DEF AddReceiver, BroadcastIf, BroadcastTrackEvent, Excuse, Told, In, EventsTypeOK
  <2>2. view' \in [Observer -> [Track -> {"none", "ADD", "REMOVE"}]]
    BY <1>1 DEF AddReceiver, BroadcastIf, BroadcastTrackEvent, Excuse, Told, In, EventsTypeOK
  <2>3. excused' \in [Observer -> SUBSET Track]
    BY <1>1 DEF AddReceiver, BroadcastIf, BroadcastTrackEvent, Excuse, Told, In, EventsTypeOK
  <2> QED
    BY <1>1, <2>1, <2>2, <2>3 DEF AddReceiver, EventsTypeOK
<1>2. ASSUME NEW t \in Track, DeleteReceiver(t) PROVE EventsTypeOK'
  <2>1. view' \in [Observer -> [Track -> {"none", "ADD", "REMOVE"}]]
    BY <1>2 DEF DeleteReceiver, BroadcastIf, BroadcastTrackEvent, Excuse, Told, In, EventsTypeOK
  <2>2. excused' \in [Observer -> SUBSET Track]
    BY <1>2 DEF DeleteReceiver, BroadcastIf, BroadcastTrackEvent, Excuse, Told, In, EventsTypeOK
  <2> QED
    BY <1>2, <2>1, <2>2 DEF DeleteReceiver, EventsTypeOK
<1>3. ASSUME NEW t \in Track, AppendTrack(t) PROVE EventsTypeOK'
  BY <1>3 DEF AppendTrack, EventsTypeOK
<1>4. ASSUME NEW t \in Track, OnPublisherTrack(t) PROVE EventsTypeOK'
  BY <1>4 DEF OnPublisherTrack, EventsTypeOK
<1>5. ASSUME InstallHandler PROVE EventsTypeOK'
  BY <1>5 DEF InstallHandler, EventsTypeOK
<1>6. ASSUME TimerFires PROVE EventsTypeOK'
  BY <1>6 DEF TimerFires, PublisherTracks, EventsTypeOK
<1>7. ASSUME TimerBroadcasts PROVE EventsTypeOK'
  <2>1. view' \in [Observer -> [Track -> {"none", "ADD", "REMOVE"}]]
    BY <1>7 DEF TimerBroadcasts, BroadcastTrackEvent, Told, Dead, EventsTypeOK
  <2>2. excused' \in [Observer -> SUBSET Track]
    BY <1>7 DEF TimerBroadcasts, BroadcastTrackEvent, Told, Dead, EventsTypeOK
  <2> QED
    BY <1>7, <2>1, <2>2 DEF TimerBroadcasts, EventsTypeOK
<1>8. ASSUME NEW closes \in BOOLEAN, SignalReturns(closes) PROVE EventsTypeOK'
  <2>1. view' \in [Observer -> [Track -> {"none", "ADD", "REMOVE"}]]
    BY <1>8 DEF SignalReturns, BroadcastTrackEvent, Told, EventsTypeOK
  <2>2. excused' \in [Observer -> SUBSET Track]
    BY <1>8 DEF SignalReturns, BroadcastTrackEvent, Told, EventsTypeOK
  <2> QED
    BY <1>8, <2>1, <2>2 DEF SignalReturns, EventsTypeOK
<1>9. ASSUME NEW o \in Observer, ListTracks(o) PROVE EventsTypeOK'
  <2>1. sigs' \in [Observer -> {"out", "joining", "in"}]
    BY <1>9 DEF ListTracks, PublisherTracks, Told, Excuse, Dead, EventsTypeOK
  <2>2. view' \in [Observer -> [Track -> {"none", "ADD", "REMOVE"}]]
    BY <1>9 DEF ListTracks, PublisherTracks, Told, Excuse, Dead, EventsTypeOK
  <2>3. excused' \in [Observer -> SUBSET Track]
    BY <1>9 DEF ListTracks, PublisherTracks, Told, Excuse, Dead, EventsTypeOK
  <2> QED
    BY <1>9, <2>1, <2>2, <2>3 DEF ListTracks, EventsTypeOK
<1>10. ASSUME NEW o \in Observer, Register(o) PROVE EventsTypeOK'
  BY <1>10 DEF Register, EventsTypeOK
<1>11. ASSUME UNCHANGED eventVars PROVE EventsTypeOK'
  BY <1>11 DEF eventVars, eventVars, EventsTypeOK
<1> QED
  BY <1>1, <1>2, <1>3, <1>4, <1>5, <1>6, <1>7, <1>8, <1>9, <1>10, <1>11 DEF EventsNext

\* What is told stays true: the timer, the stream's end and whoever joins tell
\* of tracks that are over only to streams that are excused.
LEMMA EventsStep == EventsInv /\ [EventsNext]_eventVars => (Arrived /\ ViewOK)'
<1> SUFFICES ASSUME EventsInv, [EventsNext]_eventVars PROVE (Arrived /\ ViewOK)'
  OBVIOUS
<1> EventsTypeOK /\ Arrived /\ ViewOK
  BY DEF EventsInv
<1>1. ASSUME NEW t \in Track, AddReceiver(t) PROVE (Arrived /\ ViewOK)'
  <2>1. Arrived'
    BY <1>1 DEF AddReceiver, BroadcastIf, BroadcastTrackEvent, Excuse, Told, In, Arrived,
       EventsTypeOK
  <2>2. ViewOK'
    BY <1>1, EventsAssumption DEF AddReceiver, BroadcastIf, BroadcastTrackEvent, Excuse,
       Told, In, Arrived, ViewOK, EventsTypeOK
  <2> QED
    BY <2>1, <2>2
<1>2. ASSUME NEW t \in Track, DeleteReceiver(t) PROVE (Arrived /\ ViewOK)'
  <2>1. Arrived'
    BY <1>2 DEF DeleteReceiver, BroadcastIf, BroadcastTrackEvent, Excuse, Told, In,
       Arrived, EventsTypeOK
  <2>2. ViewOK'
    BY <1>2, EventsAssumption DEF DeleteReceiver, BroadcastIf, BroadcastTrackEvent, Excuse,
       Told, In, Arrived, ViewOK, EventsTypeOK
  <2> QED
    BY <2>1, <2>2
<1>3. ASSUME NEW t \in Track, AppendTrack(t) PROVE (Arrived /\ ViewOK)'
  <2>1. Arrived'
    BY <1>3 DEF AppendTrack, Arrived, EventsTypeOK
  <2>2. ViewOK'
    BY <1>3, EventsAssumption DEF AppendTrack, Arrived, ViewOK, EventsTypeOK
  <2> QED
    BY <2>1, <2>2
<1>4. ASSUME NEW t \in Track, OnPublisherTrack(t) PROVE (Arrived /\ ViewOK)'
  <2>1. Arrived'
    BY <1>4 DEF OnPublisherTrack, Arrived, EventsTypeOK
  <2>2. ViewOK'
    BY <1>4, EventsAssumption DEF OnPublisherTrack, Arrived, ViewOK, EventsTypeOK
  <2> QED
    BY <2>1, <2>2
<1>5. ASSUME InstallHandler PROVE (Arrived /\ ViewOK)'
  BY <1>5 DEF InstallHandler, Arrived, ViewOK, EventsTypeOK
<1>6. ASSUME TimerFires PROVE (Arrived /\ ViewOK)'
  <2>1. Arrived'
    BY <1>6 DEF TimerFires, PublisherTracks, Arrived, EventsTypeOK
  <2>2. ViewOK'
    BY <1>6, EventsAssumption DEF TimerFires, PublisherTracks, Arrived, ViewOK, EventsTypeOK
  <2> QED
    BY <2>1, <2>2
<1>7. ASSUME TimerBroadcasts PROVE (Arrived /\ ViewOK)'
  <2>1. Arrived'
    BY <1>7 DEF TimerBroadcasts, BroadcastTrackEvent, Told, Dead, Arrived, EventsTypeOK
  <2>2. ViewOK'
    BY <1>7, EventsAssumption DEF TimerBroadcasts, BroadcastTrackEvent, Told, Dead,
       Arrived, ViewOK, EventsTypeOK
  <2> QED
    BY <2>1, <2>2
<1>8. ASSUME NEW closes \in BOOLEAN, SignalReturns(closes) PROVE (Arrived /\ ViewOK)'
  <2>1. Arrived'
    BY <1>8 DEF SignalReturns, BroadcastTrackEvent, Told, Arrived, EventsTypeOK
  <2>2. ViewOK'
    BY <1>8, EventsAssumption DEF SignalReturns, BroadcastTrackEvent, Told, Arrived,
       ViewOK, EventsTypeOK
  <2> QED
    BY <2>1, <2>2
<1>9. ASSUME NEW o \in Observer, ListTracks(o) PROVE (Arrived /\ ViewOK)'
  <2>1. Arrived'
    BY <1>9 DEF ListTracks, PublisherTracks, Told, Excuse, Dead, Arrived, EventsTypeOK
  <2>2. ViewOK'
    BY <1>9, EventsAssumption DEF ListTracks, PublisherTracks, Told, Excuse, Dead, Arrived,
       ViewOK, EventsTypeOK
  <2> QED
    BY <2>1, <2>2
<1>10. ASSUME NEW o \in Observer, Register(o) PROVE (Arrived /\ ViewOK)'
  <2>1. Arrived'
    BY <1>10 DEF Register, Arrived, EventsTypeOK
  <2>2. ViewOK'
    BY <1>10, EventsAssumption DEF Register, Arrived, ViewOK, EventsTypeOK
  <2> QED
    BY <2>1, <2>2
<1>11. ASSUME UNCHANGED eventVars PROVE (Arrived /\ ViewOK)'
  BY <1>11 DEF eventVars, eventVars, Arrived, ViewOK
<1> QED
  BY <1>1, <1>2, <1>3, <1>4, <1>5, <1>6, <1>7, <1>8, <1>9, <1>10, <1>11 DEF EventsNext

\* What the streams of the publisher's session were told of its tracks is true,
\* in every state, unless the track is excused.
THEOREM EventsInvariant == EventsSpec => []EventsInv
<1>1. EventsInit => EventsInv
  <2> SUFFICES ASSUME EventsInit PROVE EventsInv
    OBVIOUS
  <2>1. EventsTypeOK
    BY DEF EventsInit, EventsTypeOK
  <2>2. Arrived
    BY DEF EventsInit, Arrived
  <2>3. ViewOK
    BY EventsAssumption DEF EventsInit, ViewOK
  <2> QED
    BY <2>1, <2>2, <2>3 DEF EventsInv
<1>2. EventsInv /\ [EventsNext]_eventVars => EventsInv'
  BY EventsTypeStep, EventsStep DEF EventsInv
<1> QED
  BY <1>1, <1>2, PTL DEF EventsSpec

\* At rest a client of the session counts a track among the session's exactly
\* if it is there, for any number of tracks and streams.
THEOREM TracksKnownHolds == EventsSpec => []TracksKnown
<1>1. EventsInv => TracksKnown
  <2> SUFFICES ASSUME EventsInv, EventsAtRest, NEW o \in Roommate, NEW t \in Track \ excused[o],
                      sigs[o] = "in"
               PROVE  view[o][t] = "ADD" <=> state[t] # "none" /\ t \notin Dead
    BY DEF TracksKnown
  <2>1. /\ view[o][t] = "ADD" => state[t] # "none" /\ t \notin deleted /\ (gone => closing)
        /\ state[t] # "none" /\ t \notin deleted /\ ~gone => view[o][t] = "ADD"
    BY DEF EventsInv, ViewOK
  <2>2. closing /\ state[t] # "none" => t \in deleted
    BY DEF EventsAtRest
  <2> QED
    BY <2>1, <2>2 DEF Dead
<1> QED
  BY <1>1, EventsInvariant, PTL

-----------------------------------------------------------------------------
(* Messages.                                                               *)

\* A message sent ...
LEMMA Appended ==
  ASSUME NEW S, NEW q \in Seq(S), NEW m \in S
  PROVE  /\ Append(q, m) \in Seq(S)
         /\ \A k : Holds(Append(q, m), k) <=> Holds(q, k) \/ m.kind = k
         /\ \A k, x : One(q, k, x) /\ m.kind # k => One(Append(q, m), k, x)
         /\ \A k, x : ~Holds(q, k) /\ m.n = x => One(Append(q, m), k, x)
         /\ \A c : Carries(Append(q, m), c) <=> Carries(q, c) \/ (m.kind = "trickle" /\ m.n = c)
         /\ \A cs : JoinFirst(q, cs) /\ (m.kind = "trickle" => m.n \in cs \/ Holds(q, "join"))
                      => JoinFirst(Append(q, m), cs)
<1> DEFINE r == Append(q, m)
<1>1. /\ r \in Seq(S) /\ Len(q) \in Nat /\ Len(r) = Len(q) + 1 /\ r[Len(q) + 1] = m
      /\ \A i \in 1 .. Len(q) : r[i] = q[i]
  BY AppendProperties
<1> HIDE DEF r
<1>2. \A i : i \in 1 .. Len(r) <=> i \in 1 .. Len(q) \/ i = Len(q) + 1
  BY <1>1
<1>3. \A k : Holds(r, k) <=> Holds(q, k) \/ m.kind = k
  BY <1>1, <1>2 DEF Holds
<1>4. \A c : Carries(r, c) <=> Carries(q, c) \/ (m.kind = "trickle" /\ m.n = c)
  BY <1>1, <1>2 DEF Carries
<1>5. ASSUME NEW k, NEW x, One(q, k, x), m.kind # k PROVE One(r, k, x)
  BY <1>1, <1>2, <1>5 DEF One
<1>6. ASSUME NEW k, NEW x, ~Holds(q, k), m.n = x PROVE One(r, k, x)
  BY <1>1, <1>2, <1>6 DEF One, Holds
<1>7. ASSUME NEW cs, JoinFirst(q, cs), m.kind = "trickle" => m.n \in cs \/ Holds(q, "join")
      PROVE  JoinFirst(r, cs)
  <2> SUFFICES ASSUME NEW i \in 1 .. Len(r), r[i].kind = "trickle", r[i].n \notin cs
               PROVE  \E j \in 1 .. i - 1 : r[j].kind = "join"
    BY DEF JoinFirst
  <2>1. CASE i \in 1 .. Len(q)
    <3>1. \E j \in 1 .. i - 1 : q[j].kind = "join"
      BY <1>1, <1>7, <2>1 DEF JoinFirst
    <3> QED
      BY <1>1, <2>1, <3>1
  <2>2. CASE i = Len(q) + 1
    <3>1. \E j \in 1 .. Len(q) : q[j].kind = "join"
      BY <1>1, <1>7, <2>2 DEF Holds
    <3> QED
      BY <1>1, <2>2, <3>1
  <2> QED
    BY <1>2, <2>1, <2>2
<1> QED
  BY <1>1, <1>3, <1>4, <1>5, <1>6, <1>7 DEF r

\* ... and one received.
LEMMA Removed ==
  ASSUME NEW S, NEW q \in Seq(S), q # <<>>
  PROVE  /\ Tail(q) \in Seq(S) /\ Head(q) \in S
         /\ \A k : Holds(q, k) <=> Holds(Tail(q), k) \/ Head(q).kind = k
         /\ \A k, x : One(q, k, x) => One(Tail(q), k, x)
         /\ \A k, x : One(q, k, x) /\ Head(q).kind = k => ~Holds(Tail(q), k) /\ Head(q).n = x
         /\ \A c : Carries(q, c) <=> Carries(Tail(q), c) \/ (Head(q).kind = "trickle" /\ Head(q).n = c)
         /\ \A cs : JoinFirst(q, cs) /\ Head(q).kind # "join" => JoinFirst(Tail(q), cs)
         /\ \A cs : JoinFirst(q, cs) /\ Head(q).kind = "trickle" => Head(q).n \in cs
<1> DEFINE r == Tail(q)
<1>1. /\ r \in Seq(S) /\ Head(q) \in S /\ Head(q) = q[1] /\ Len(q) \in Nat \ {0}
      /\ Len(r) = Len(q) - 1 /\ \A i \in 1 .. Len(r) : r[i] = q[i + 1]
  BY HeadTailProperties, EmptySeq, LenProperties
<1> HIDE DEF r
<1>2. /\ \A i \in 1 .. Len(q) : i = 1 \/ (i - 1 \in 1 .. Len(r) /\ q[i] = r[i - 1])
      /\ \A i \in 1 .. Len(r) : i + 1 \in 1 .. Len(q) /\ i + 1 # 1
      /\ 1 \in 1 .. Len(q)
  BY <1>1
<1>3. \A k : Holds(q, k) <=> Holds(r, k) \/ Head(q).kind = k
  BY <1>1, <1>2 DEF Holds
<1>4. \A c : Carries(q, c) <=> Carries(r, c) \/ (Head(q).kind = "trickle" /\ Head(q).n = c)
  BY <1>1, <1>2 DEF Carries
<1>5. ASSUME NEW k, NEW x, One(q, k, x) PROVE One(r, k, x)
  <2> SUFFICES ASSUME NEW i \in 1 .. Len(r), r[i].kind = k
               PROVE  r[i].n = x /\ \A j \in 1 .. Len(r) : r[j].kind = k => i = j
    BY DEF One
  <2>1. q[i + 1].n = x /\ \A j \in 1 .. Len(q) : q[j].kind = k => i + 1 = j
    BY <1>1, <1>2, <1>5 DEF One
  <2>2. \A j \in 1 .. Len(r) : r[j].kind = k => i + 1 = j + 1
    BY <1>1, <1>2, <2>1
  <2> QED
    BY <1>1, <2>1, <2>2
<1>6. ASSUME NEW k, NEW x, One(q, k, x), Head(q).kind = k PROVE ~Holds(r, k) /\ Head(q).n = x
  BY <1>1, <1>2, <1>6 DEF One, Holds
<1>7. ASSUME NEW cs, JoinFirst(q, cs), Head(q).kind # "join" PROVE JoinFirst(r, cs)
  <2> SUFFICES ASSUME NEW i \in 1 .. Len(r), r[i].kind = "trickle", r[i].n \notin cs
               PROVE  \E j \in 1 .. i - 1 : r[j].kind = "join"
    BY DEF JoinFirst
  <2>1. PICK j \in 1 .. i : q[j].kind = "join"
    <3>1. i + 1 \in 1 .. Len(q) /\ (i + 1) - 1 = i /\ q[i + 1] = r[i]
      BY <1>1, <1>2
    <3> QED
      BY <1>7, <3>1 DEF JoinFirst
  <2>2. j \in 1 .. Len(q) /\ j # 1
    BY <1>1, <1>7, <2>1
  <2>3. j - 1 \in 1 .. i - 1 /\ r[j - 1].kind = "join"
    BY <1>1, <1>2, <2>1, <2>2
  <2> QED
    BY <2>3
<1>8. ASSUME NEW cs, JoinFirst(q, cs), Head(q).kind = "trickle" PROVE Head(q).n \in cs
  BY <1>1, <1>2, <1>8 DEF JoinFirst
<1> QED
  BY <1>1, <1>3, <1>4, <1>5, <1>6, <1>7, <1>8 DEF r

\* What is told of an empty queue and of a message.
LEMMA EmptyQueue ==
  /\ \A k : ~Holds(<<>>, k)
  /\ \A k, x : One(<<>>, k, x)
  /\ \A cs : JoinFirst(<<>>, cs)
BY DEF Holds, One, JoinFirst

LEMMA MessageFields == \A k, x : Message(k, x).kind = k /\ Message(k, x).n = x
BY DEF Message

\* A queue of candidates of one transport changes.
LEMMA QueueTyped ==
  ASSUME NEW f \in [Transport -> SUBSET Candidates], NEW t \in Transport
  PROVE  /\ f[t] \in SUBSET Candidates
         /\ \A s \in SUBSET Candidates :
              [f EXCEPT ![t] = s] \in [Transport -> SUBSET Candidates]
BY DEF Transport

\* The fields of what travels.
LEMMA RequestFields ==
  /\ \A m \in Request : /\ m.kind \in {"join", "offer", "answer", "trickle"}
                        /\ IF m.kind = "trickle" THEN m.n \in Candidates ELSE m.n \in Nat
  /\ \A k \in {"join", "offer", "answer"}, x \in Nat : Message(k, x) \in Request
  /\ \A c \in Candidates : Message("trickle", c) \in Request
BY DEF Request, Message

LEMMA ReplyFields ==
  /\ \A m \in Reply : /\ m.kind \in {"joined", "refused", "answer", "offer", "error", "trickle"}
                      /\ m.kind \in {"joined", "refused"} => m \in [kind : {"joined", "refused"}, n : Nat]
                      /\ m.kind = "answer" => m \in [kind : {"answer"}, n : Nat]
                      /\ m.kind = "offer" => m.n \in Nat
                      /\ m \in Written
  /\ \A k \in {"joined", "refused", "answer", "offer", "error"}, x \in Nat : Message(k, x) \in Reply
  /\ \A c \in Candidates : Message("trickle", c) \in Reply
BY DEF Reply, Written, Message

\* What is sent on the stream: one message, or two to a second join.
LEMMA Sent ==
  ASSUME replies \in Seq(Reply), NEW m \in Reply
  PROVE  /\ Sends(<<m>>) \/ Sends(<<>> \o <<m>>) \/ Sends(<<>>) => replies' \in Seq(Reply)
         /\ \A l \in Reply : Sends(<<l>> \o <<m>>) => replies' \in Seq(Reply)
         /\ Sends(<<>>) => replies' = replies
         /\ Sends(<<m>>) => replies' = IF stream THEN Append(replies, m) ELSE replies
         /\ Sends(<<>> \o <<m>>) => replies' = IF stream THEN Append(replies, m) ELSE replies
         /\ \A l \in Reply : Sends(<<l>> \o <<m>>) =>
              replies' = IF stream THEN Append(Append(replies, l), m) ELSE replies
<1>1. \A l \in Reply : <<l>> \in Seq(Reply) /\ replies \o <<l>> = Append(replies, l)
                       /\ Append(replies, l) \in Seq(Reply)
  BY AppendIsConcat, AppendProperties
<1>2. <<>> \o <<m>> = <<m>>
  BY ConcatEmptySeq, <<m>> \in Seq(Reply)
<1>3. ASSUME NEW l \in Reply PROVE replies \o (<<l>> \o <<m>>) = Append(Append(replies, l), m)
  <2>1. replies \o (<<l>> \o <<m>>) = (replies \o <<l>>) \o <<m>>
    BY <1>1, ConcatAssociative
  <2>2. Append(replies, l) \o <<m>> = Append(Append(replies, l), m)
    BY <1>1, AppendIsConcat
  <2> QED
    BY <1>1, <2>1, <2>2
<1>4. replies \o <<>> = replies
  BY ConcatEmptySeq
<1>5. \A l \in Reply : Append(Append(replies, l), m) \in Seq(Reply)
  BY <1>1, AppendProperties
<1> QED
  BY <1>1, <1>2, <1>3, <1>4, <1>5 DEF Sends

\* The types.
LEMMA SignalTypeStep == SignalTypeOK /\ [SignalNext]_signalVars => SignalTypeOK'
<1> SUFFICES ASSUME SignalTypeOK, [SignalNext]_signalVars PROVE SignalTypeOK'
  OBVIOUS
<1>1. ASSUME NEW c \in Candidates, OnIceCandidate(c) PROVE SignalTypeOK'
  <2>1. replies \in Seq(Reply) /\ Message("trickle", c) \in Reply
    BY ReplyFields DEF SignalTypeOK
  <2>2. Sends(<<Message("trickle", c)>>)
    BY <1>1 DEF OnIceCandidate
  <2>3. replies' \in Seq(Reply)
    BY <2>1, <2>2, Sent
  <2> QED
    BY <1>1, <2>3 DEF OnIceCandidate, CallbackOnly, SfuOnly, browserVars, socketVars,
       subVars, SignalTypeOK
<1>2. ASSUME BrowserJoins PROVE SignalTypeOK'
  <2>1. asked + 1 \in Nat /\ joins + 1 \in Nat
    BY <1>2 DEF BrowserJoins, Asks, BrowserOnly, peerVars, historyVars, SignalTypeOK
  <2>2. inbox' \in Seq(Request)
    BY <1>2, <2>1, RequestFields, AppendProperties DEF BrowserJoins, Asks, BrowserOnly,
       peerVars, historyVars, SignalTypeOK
  <2> QED
    BY <1>2, <2>1, <2>2 DEF BrowserJoins, Asks, BrowserOnly, peerVars, historyVars, SignalTypeOK
<1>3. ASSUME BrowserOffers PROVE SignalTypeOK'
  <2>1. asked + 1 \in Nat /\ joins + 1 \in Nat
    BY <1>3 DEF BrowserOffers, Asks, BrowserOnly, peerVars, historyVars, SignalTypeOK
  <2>2. inbox' \in Seq(Request)
    BY <1>3, <2>1, RequestFields, AppendProperties DEF BrowserOffers, Asks, BrowserOnly,
       peerVars, historyVars, SignalTypeOK
  <2> QED
    BY <1>3, <2>1, <2>2 DEF BrowserOffers, Asks, BrowserOnly, peerVars, historyVars,
       SignalTypeOK
<1>4. ASSUME NEW c \in Candidates, BrowserTrickles(c) PROVE SignalTypeOK'
  <2>1. inbox' \in Seq(Request)
    BY <1>4, RequestFields, AppendProperties DEF BrowserTrickles, BrowserOnly, peerVars,
       historyVars, SignalTypeOK
  <2> QED
    BY <1>4, <2>1 DEF BrowserTrickles, BrowserOnly, peerVars, historyVars, SignalTypeOK
<1>5. ASSUME BrowserIgnores PROVE SignalTypeOK'
  <2>1. answering' \in Seq(Nat)
    BY <1>5, HeadTailProperties DEF BrowserIgnores, BrowserOnly, peerVars, historyVars,
       SignalTypeOK
  <2> QED
    BY <1>5, <2>1 DEF BrowserIgnores, BrowserOnly, peerVars, historyVars, SignalTypeOK
<1>6. ASSUME ReadJoinFails PROVE SignalTypeOK'
  <2>1. inbox' \in Seq(Request) /\ Head(inbox) \in Request
    BY <1>6, HeadTailProperties DEF ReadJoinFails, Reads, SocketOnly, browserVars,
       peerVars, subVars, SignalTypeOK
  <2>2. Message("error", Head(inbox).n) \in Written
    BY <1>6, <2>1, RequestFields, ReplyFields DEF ReadJoinFails, Reads, SocketOnly,
       browserVars, peerVars, subVars, SignalTypeOK
  <2>3. outbox' \in Seq(Written)
    BY <1>6, <2>2, AppendProperties DEF ReadJoinFails, Reads, SocketOnly, browserVars,
       peerVars, subVars, SignalTypeOK
  <2> QED
    BY <1>6, <2>1, <2>2, <2>3 DEF ReadJoinFails, Reads, SocketOnly, browserVars, peerVars,
       subVars, SignalTypeOK
<1>7. ASSUME Negotiates PROVE SignalTypeOK'
  <2>1. wanted' \in Nat
    BY <1>7 DEF Negotiates, CallbackOnly, SfuOnly, browserVars, socketVars, subVars, Sends,
       SignalTypeOK
  <2> QED
    BY <1>7, <2>1 DEF Negotiates, CallbackOnly, SfuOnly, browserVars, socketVars, subVars,
       Sends, SignalTypeOK
<1>8. ASSUME BrowserReads PROVE SignalTypeOK'
  <2>1. Head(outbox) \in Written /\ outbox' \in Seq(Written)
    BY <1>8, HeadTailProperties DEF BrowserReads, BrowserOnly, peerVars, historyVars,
       SignalTypeOK
  <2>2. Head(outbox).kind = "offer" => Head(outbox).n \in Nat
    BY <1>8, <2>1 DEF BrowserReads, BrowserOnly, peerVars, historyVars, Written, Reply,
       SignalTypeOK
  <2>3. answering' \in Seq(Nat)
    BY <1>8, <2>2, AppendProperties DEF BrowserReads, BrowserOnly, peerVars, historyVars,
       SignalTypeOK
  <2> QED
    BY <1>8, <2>1, <2>2, <2>3 DEF BrowserReads, BrowserOnly, peerVars, historyVars, SignalTypeOK
<1>9. ASSUME BrowserAnswers PROVE SignalTypeOK'
  <2>1. answering' \in Seq(Nat) /\ Head(answering) \in Nat
    BY <1>9, HeadTailProperties DEF BrowserAnswers, BrowserOnly, peerVars, historyVars,
       SignalTypeOK
  <2>2. inbox' \in Seq(Request)
    BY <1>9, <2>1, RequestFields, AppendProperties DEF BrowserAnswers, BrowserOnly,
       peerVars, historyVars, SignalTypeOK
  <2> QED
    BY <1>9, <2>1, <2>2 DEF BrowserAnswers, BrowserOnly, peerVars, historyVars, SignalTypeOK
<1>10. ASSUME ReadJoin PROVE SignalTypeOK'
  <2>1. inbox' \in Seq(Request) /\ Head(inbox) \in Request
    BY <1>10, HeadTailProperties DEF ReadJoin, Reads, Forwards, SocketOnly, browserVars,
       peerVars, subVars, SignalTypeOK
  <2>2. requests' \in Seq(Request)
    BY <1>10, <2>1, AppendProperties DEF ReadJoin, Reads, Forwards, SocketOnly,
       browserVars, peerVars, subVars, SignalTypeOK
  <2>3. waits' \in [kind : {"join", "offer"}, n : Nat]
    BY <1>10, <2>1 DEF ReadJoin, Reads, Forwards, SocketOnly, browserVars, peerVars,
       subVars, Request, SignalTypeOK
  <2> QED
    BY <1>10, <2>1, <2>2, <2>3 DEF ReadJoin, Reads, Forwards, SocketOnly, browserVars,
       peerVars, subVars, SignalTypeOK
<1>11. ASSUME ReadOffer PROVE SignalTypeOK'
  <2>1. inbox' \in Seq(Request) /\ Head(inbox) \in Request
    BY <1>11, HeadTailProperties DEF ReadOffer, Reads, Forwards, SocketOnly, browserVars,
       peerVars, subVars, SignalTypeOK
  <2>2. requests' \in Seq(Request)
    BY <1>11, <2>1, AppendProperties DEF ReadOffer, Reads, Forwards, SocketOnly,
       browserVars, peerVars, subVars, SignalTypeOK
  <2>3. waits' \in [kind : {"join", "offer"}, n : Nat]
    BY <1>11, <2>1 DEF ReadOffer, Reads, Forwards, SocketOnly, browserVars, peerVars,
       subVars, Request, SignalTypeOK
  <2> QED
    BY <1>11, <2>1, <2>2, <2>3 DEF ReadOffer, Reads, Forwards, SocketOnly, browserVars,
       peerVars, subVars, SignalTypeOK
<1>12. ASSUME ReadAnswer PROVE SignalTypeOK'
  <2>1. inbox' \in Seq(Request) /\ Head(inbox) \in Request
    BY <1>12, HeadTailProperties DEF ReadAnswer, Reads, Forwards, SocketOnly, browserVars,
       peerVars, subVars, SignalTypeOK
  <2>2. requests' \in Seq(Request)
    BY <1>12, <2>1, AppendProperties DEF ReadAnswer, Reads, Forwards, SocketOnly,
       browserVars, peerVars, subVars, SignalTypeOK
  <2> QED
    BY <1>12, <2>1, <2>2 DEF ReadAnswer, Reads, Forwards, SocketOnly, browserVars,
       peerVars, subVars, SignalTypeOK
<1>13. ASSUME ReadTrickle PROVE SignalTypeOK'
  <2>1. inbox' \in Seq(Request) /\ Head(inbox) \in Request
    BY <1>13, HeadTailProperties DEF ReadTrickle, Reads, Forwards, SocketOnly, browserVars,
       peerVars, subVars, SignalTypeOK
  <2>2. requests' \in Seq(Request)
    BY <1>13, <2>1, AppendProperties DEF ReadTrickle, Reads, Forwards, SocketOnly,
       browserVars, peerVars, subVars, SignalTypeOK
  <2>3. early' \subseteq Candidates
    BY <1>13, <2>1, RequestFields DEF ReadTrickle, Reads, Forwards, SocketOnly,
       browserVars, peerVars, subVars, SignalTypeOK
  <2> QED
    BY <1>13, <2>1, <2>2, <2>3 DEF ReadTrickle, Reads, Forwards, SocketOnly, browserVars,
       peerVars, subVars, SignalTypeOK
<1>14. ASSUME RespondJoin PROVE SignalTypeOK'
  <2>1. resJoin' \in Seq([kind : {"joined", "refused"}, n : Nat]) /\ Head(resJoin) \in [kind : {"joined", "refused"}, n : Nat]
    BY <1>14, HeadTailProperties DEF RespondJoin, SocketOnly, browserVars, peerVars,
       subVars, SignalTypeOK
  <2>2. waits \in [kind : {"join", "offer"}, n : Nat]
    BY <1>14 DEF RespondJoin, SocketOnly, browserVars, peerVars, subVars, Nothing, Message,
       SignalTypeOK
  <2>3. Response(Head(resJoin)) \in Written
    BY <1>14, <2>1, <2>2 DEF RespondJoin, SocketOnly, browserVars, peerVars, subVars,
       Response, Written, SignalTypeOK
  <2>4. outbox' \in Seq(Written)
    BY <1>14, <2>3, AppendProperties DEF RespondJoin, SocketOnly, browserVars, peerVars,
       subVars, SignalTypeOK
  <2>5. waits' = Nothing
    BY <1>14 DEF RespondJoin, SocketOnly, browserVars, peerVars, subVars, SignalTypeOK
  <2> QED
    BY <1>14, <2>1, <2>2, <2>3, <2>4, <2>5 DEF RespondJoin, SocketOnly, browserVars,
       peerVars, subVars, SignalTypeOK
<1>15. ASSUME RespondOffer PROVE SignalTypeOK'
  <2>1. resOffer' \in Seq([kind : {"answer"}, n : Nat]) /\ Head(resOffer) \in [kind : {"answer"}, n : Nat]
    BY <1>15, HeadTailProperties DEF RespondOffer, SocketOnly, browserVars, peerVars,
       subVars, SignalTypeOK
  <2>2. waits \in [kind : {"join", "offer"}, n : Nat]
    BY <1>15 DEF RespondOffer, SocketOnly, browserVars, peerVars, subVars, Nothing,
       Message, SignalTypeOK
  <2>3. Response(Head(resOffer)) \in Written
    BY <1>15, <2>1, <2>2 DEF RespondOffer, SocketOnly, browserVars, peerVars, subVars,
       Response, Written, SignalTypeOK
  <2>4. outbox' \in Seq(Written)
    BY <1>15, <2>3, AppendProperties DEF RespondOffer, SocketOnly, browserVars, peerVars,
       subVars, SignalTypeOK
  <2>5. waits' = Nothing
    BY <1>15 DEF RespondOffer, SocketOnly, browserVars, peerVars, subVars, SignalTypeOK
  <2> QED
    BY <1>15, <2>1, <2>2, <2>3, <2>4, <2>5 DEF RespondOffer, SocketOnly, browserVars,
       peerVars, subVars, SignalTypeOK
<1>16. ASSUME HandlerEnds PROVE SignalTypeOK'
  BY <1>16 DEF HandlerEnds, SocketOnly, browserVars, peerVars, subVars, SignalTypeOK
<1>17. ASSUME RelayReply PROVE SignalTypeOK'
  <2>1. /\ replies # <<>> /\ replies' = Tail(replies)
        /\ \/ /\ Head(replies).kind \in {"joined", "refused"}
              /\ resJoin' = Append(resJoin, Head(replies)) /\ resOffer' = resOffer
           \/ /\ Head(replies).kind = "answer"
              /\ resOffer' = Append(resOffer, Head(replies)) /\ resJoin' = resJoin
    BY <1>17 DEF RelayReply, Relays
  <2>2. Head(replies) \in Reply /\ replies' \in Seq(Reply)
    BY <2>1, HeadTailProperties DEF SignalTypeOK
  <2>3. /\ resJoin' \in Seq([kind : {"joined", "refused"}, n : Nat])
        /\ resOffer' \in Seq([kind : {"answer"}, n : Nat])
    <3>1. CASE resJoin' = Append(resJoin, Head(replies)) /\ Head(replies) \in [kind : {"joined", "refused"}, n : Nat]
               /\ resOffer' = resOffer
      BY <3>1, AppendProperties DEF SignalTypeOK
    <3>2. CASE resOffer' = Append(resOffer, Head(replies)) /\ Head(replies) \in [kind : {"answer"}, n : Nat]
               /\ resJoin' = resJoin
      BY <3>2, AppendProperties DEF SignalTypeOK
    <3> QED
      BY <2>1, <2>2, <3>1, <3>2, ReplyFields
  <2> QED
    BY <1>17, <2>2, <2>3 DEF RelayReply, RelayOnly, browserVars, peerVars, historyVars,
       subVars, SignalTypeOK
<1>18. ASSUME RelayOffer PROVE SignalTypeOK'
  <2>1. replies' \in Seq(Reply) /\ Head(replies) \in Reply
    BY <1>18, HeadTailProperties DEF RelayOffer, RelayOnly, Relays, browserVars, peerVars,
       historyVars, subVars, SignalTypeOK
  <2>2. outbox' \in Seq(Written)
    BY <1>18, <2>1, ReplyFields, AppendProperties DEF RelayOffer, RelayOnly, Relays,
       browserVars, peerVars, historyVars, subVars, SignalTypeOK
  <2> QED
    BY <1>18, <2>1, <2>2 DEF RelayOffer, RelayOnly, Relays, browserVars, peerVars,
       historyVars, subVars, SignalTypeOK
<1>19. ASSUME RelayError PROVE SignalTypeOK'
  <2>1. replies' \in Seq(Reply)
    BY <1>19, HeadTailProperties DEF RelayError, RelayOnly, Relays, browserVars, peerVars,
       historyVars, subVars, SignalTypeOK
  <2> QED
    BY <1>19, <2>1 DEF RelayError, RelayOnly, Relays, browserVars, peerVars, historyVars,
       subVars, SignalTypeOK
<1>20. ASSUME OnNegotiationNeeded PROVE SignalTypeOK'
  <2>1. replies \in Seq(Reply) /\ Message("offer", wanted) \in Reply
    BY ReplyFields DEF SignalTypeOK
  <2>2. replies' = replies \/ Sends(<<Message("offer", wanted)>>)
    BY <1>20 DEF OnNegotiationNeeded
  <2>3. replies' \in Seq(Reply)
    BY <2>1, <2>2, Sent
  <2> QED
    BY <1>20, <2>3 DEF OnNegotiationNeeded, CallbackOnly, SfuOnly, browserVars, socketVars,
       subVars, SignalTypeOK
<1>21. ASSUME Join PROVE SignalTypeOK'
  <2>1. requests' \in Seq(Request) /\ Head(requests) \in Request /\ Head(requests).kind # "trickle"
    BY <1>21, HeadTailProperties DEF Join, Receives, SignalTypeOK
  <2>2. /\ Message("joined", Head(requests).n) \in Reply /\ Message("refused", 0) \in Reply
        /\ replies \in Seq(Reply)
    BY <2>1, RequestFields, ReplyFields DEF SignalTypeOK
  <2>3. \/ Sends(<<>> \o <<Message("joined", Head(requests).n)>>)
        \/ Sends(<<>>)
    BY <1>21 DEF Join, AnswersOffer
  <2>4. replies' \in Seq(Reply)
    <3>1. CASE Sends(<<>> \o <<Message("joined", Head(requests).n)>>)
      BY <2>2, <3>1, Sent
    <3>2. CASE Sends(<<>>)
      BY <2>2, <3>2, Sent
    <3> QED
      BY <2>3, <3>1, <3>2
  <2>5. /\ joined' \in BOOLEAN /\ stream' \in BOOLEAN /\ wanted' = wanted
    BY <1>21 DEF Join, AnswersOffer, Returns, NegotiationKept, subVars, Receives, SignalTypeOK
  <2>6. /\ candidates' \in [Transport -> SUBSET Candidates] /\ ice' \in [Transport -> SUBSET Candidates]
        /\ described' \subseteq Transport
    <3>1. \/ UNCHANGED <<described, ice, candidates>>
          \/ /\ described' = described \cup {"publisher"}
             /\ ice' = [ice EXCEPT !["publisher"] = @ \cup candidates["publisher"]]
             /\ candidates' = [candidates EXCEPT !["publisher"] = {}]
      BY <1>21 DEF Join, AnswersOffer
    <3>2. "publisher" \in Transport
      BY DEF Transport
    <3>3. /\ candidates \in [Transport -> SUBSET Candidates]
          /\ ice \in [Transport -> SUBSET Candidates] /\ described \subseteq Transport
      BY DEF SignalTypeOK
    <3>4. {} \in SUBSET Candidates /\ ice["publisher"] \cup candidates["publisher"] \in SUBSET Candidates
      BY <3>2, <3>3, QueueTyped
    <3> QED
      BY <3>1, <3>2, <3>3, <3>4, QueueTyped
  <2> QED
    BY <1>21, <2>1, <2>4, <2>5, <2>6 DEF Join, SfuOnly, browserVars, socketVars, SignalTypeOK
<1>22. ASSUME JoinAgain PROVE SignalTypeOK'
  <2>1. requests' \in Seq(Request) /\ Head(requests) \in Request /\ Head(requests).kind # "trickle"
    BY <1>22, HeadTailProperties DEF JoinAgain, Receives, SignalTypeOK
  <2>2. /\ Message("joined", Head(requests).n) \in Reply /\ Message("refused", 0) \in Reply
        /\ replies \in Seq(Reply)
    BY <2>1, RequestFields, ReplyFields DEF SignalTypeOK
  <2>3. \/ Sends(<<Message("refused", 0)>> \o <<Message("joined", Head(requests).n)>>)
        \/ Sends(<<Message("refused", 0)>>)
    BY <1>22 DEF JoinAgain, AnswersOffer
  <2>4. replies' \in Seq(Reply)
    <3>1. CASE Sends(<<Message("refused", 0)>> \o <<Message("joined", Head(requests).n)>>)
      BY <2>2, <3>1, Sent
    <3>2. CASE Sends(<<Message("refused", 0)>>)
      BY <2>2, <3>2, Sent
    <3> QED
      BY <2>3, <3>1, <3>2
  <2>5. /\ joined' \in BOOLEAN /\ stream' \in BOOLEAN /\ wanted' = wanted
    BY <1>22 DEF JoinAgain, AnswersOffer, Returns, NegotiationKept, subVars, Receives,
       SignalTypeOK
  <2>6. /\ candidates' \in [Transport -> SUBSET Candidates] /\ ice' \in [Transport -> SUBSET Candidates]
        /\ described' \subseteq Transport
    <3>1. \/ UNCHANGED <<described, ice, candidates>>
          \/ /\ described' = described \cup {"publisher"}
             /\ ice' = [ice EXCEPT !["publisher"] = @ \cup candidates["publisher"]]
             /\ candidates' = [candidates EXCEPT !["publisher"] = {}]
      BY <1>22 DEF JoinAgain, AnswersOffer
    <3>2. "publisher" \in Transport
      BY DEF Transport
    <3>3. /\ candidates \in [Transport -> SUBSET Candidates]
          /\ ice \in [Transport -> SUBSET Candidates] /\ described \subseteq Transport
      BY DEF SignalTypeOK
    <3>4. {} \in SUBSET Candidates /\ ice["publisher"] \cup candidates["publisher"] \in SUBSET Candidates
      BY <3>2, <3>3, QueueTyped
    <3> QED
      BY <3>1, <3>2, <3>3, <3>4, QueueTyped
  <2> QED
    BY <1>22, <2>1, <2>4, <2>5, <2>6 DEF JoinAgain, SfuOnly, browserVars, socketVars,
       SignalTypeOK
<1>23. ASSUME Offer PROVE SignalTypeOK'
  <2>1. requests' \in Seq(Request) /\ Head(requests) \in Request /\ Head(requests).kind # "trickle"
    BY <1>23, HeadTailProperties DEF Offer, Receives, SignalTypeOK
  <2>2. /\ Message("answer", Head(requests).n) \in Reply /\ Message("refused", 0) \in Reply
        /\ replies \in Seq(Reply)
    BY <2>1, RequestFields, ReplyFields DEF SignalTypeOK
  <2>3. \/ Sends(<<>> \o <<Message("answer", Head(requests).n)>>)
        \/ Sends(<<>>)
    BY <1>23 DEF Offer, AnswersOffer
  <2>4. replies' \in Seq(Reply)
    <3>1. CASE Sends(<<>> \o <<Message("answer", Head(requests).n)>>)
      BY <2>2, <3>1, Sent
    <3>2. CASE Sends(<<>>)
      BY <2>2, <3>2, Sent
    <3> QED
      BY <2>3, <3>1, <3>2
  <2>5. /\ joined' \in BOOLEAN /\ stream' \in BOOLEAN /\ wanted' = wanted
    BY <1>23 DEF Offer, AnswersOffer, Returns, NegotiationKept, subVars, Receives, SignalTypeOK
  <2>6. /\ candidates' \in [Transport -> SUBSET Candidates] /\ ice' \in [Transport -> SUBSET Candidates]
        /\ described' \subseteq Transport
    <3>1. \/ UNCHANGED <<described, ice, candidates>>
          \/ /\ described' = described \cup {"publisher"}
             /\ ice' = [ice EXCEPT !["publisher"] = @ \cup candidates["publisher"]]
             /\ candidates' = [candidates EXCEPT !["publisher"] = {}]
      BY <1>23 DEF Offer, AnswersOffer
    <3>2. "publisher" \in Transport
      BY DEF Transport
    <3>3. /\ candidates \in [Transport -> SUBSET Candidates]
          /\ ice \in [Transport -> SUBSET Candidates] /\ described \subseteq Transport
      BY DEF SignalTypeOK
    <3>4. {} \in SUBSET Candidates /\ ice["publisher"] \cup candidates["publisher"] \in SUBSET Candidates
      BY <3>2, <3>3, QueueTyped
    <3> QED
      BY <3>1, <3>2, <3>3, <3>4, QueueTyped
  <2> QED
    BY <1>23, <2>1, <2>4, <2>5, <2>6 DEF Offer, SfuOnly, browserVars, socketVars, SignalTypeOK
<1>24. ASSUME TrickleRefused PROVE SignalTypeOK'
  <2>1. /\ requests' \in Seq(Request) /\ Head(requests).n \in Candidates
        /\ replies \in Seq(Reply) /\ Message("error", 0) \in Reply
    BY <1>24, HeadTailProperties, RequestFields, ReplyFields DEF TrickleRefused, Receives,
       SignalTypeOK
  <2>2. Sends(<<Message("error", 0)>>)
    BY <1>24 DEF TrickleRefused
  <2>3. replies' \in Seq(Reply)
    BY <2>1, <2>2, Sent
  <2> QED
    BY <1>24, <2>1, <2>3 DEF TrickleRefused, SfuOnly, browserVars, socketVars, peerVars,
       subVars, Receives, SignalTypeOK
<1>25. ASSUME Trickle PROVE SignalTypeOK'
  <2>1. requests' \in Seq(Request) /\ Head(requests).n \in Candidates
    BY <1>25, HeadTailProperties, RequestFields DEF Trickle, Receives, SignalTypeOK
  <2>2. PICK c \in Candidates : c = Head(requests).n /\ AddICECandidate(c)
    BY <1>25, <2>1 DEF Trickle
  <2>3. c.of \in Transport
    BY SignallingAssumption
  <2>4. stream' \in BOOLEAN /\ wanted' = wanted
    BY <2>2 DEF AddICECandidate, Returns, NegotiationKept, subVars, SignalTypeOK
  <2>5. /\ candidates' \in [Transport -> SUBSET Candidates] /\ ice' \in [Transport -> SUBSET Candidates]
    <3>1. /\ candidates \in [Transport -> SUBSET Candidates]
          /\ ice \in [Transport -> SUBSET Candidates]
      BY DEF SignalTypeOK
    <3>2. /\ ice[c.of] \cup {c} \in SUBSET Candidates
          /\ candidates[c.of] \cup {c} \in SUBSET Candidates
      BY <2>3, <3>1, QueueTyped
    <3>3. /\ ice' = ice \/ ice' = [ice EXCEPT ![c.of] = ice[c.of] \cup {c}]
          /\ candidates' = candidates \/ candidates' = [candidates EXCEPT ![c.of] = candidates[c.of] \cup {c}]
      BY <2>2 DEF AddICECandidate
    <3> QED
      BY <2>3, <3>1, <3>2, <3>3, QueueTyped
  <2> QED
    BY <1>25, <2>1, <2>4, <2>5 DEF Trickle, SfuOnly, browserVars, socketVars, SignalTypeOK
<1>26. ASSUME Answer PROVE SignalTypeOK'
  <2>1. requests' \in Seq(Request)
    BY <1>26, HeadTailProperties DEF Answer, SfuOnly, browserVars, socketVars, peerVars,
       subVars, Receives, Sends, SignalTypeOK
  <2>2. /\ candidates' \in [Transport -> SUBSET Candidates] /\ ice' \in [Transport -> SUBSET Candidates]
        /\ described' \subseteq Transport
    BY <1>26 DEF Answer, SfuOnly, browserVars, socketVars, peerVars, subVars, Receives,
       Sends, Transport, SignalTypeOK
  <2> QED
    BY <1>26, <2>1, <2>2 DEF Answer, SfuOnly, browserVars, socketVars, peerVars, subVars,
       Receives, Sends, SignalTypeOK
<1>27. ASSUME RecvFails PROVE SignalTypeOK'
  BY <1>27 DEF RecvFails, SfuOnly, browserVars, socketVars, peerVars, subVars,
    Receives, Sends, SignalTypeOK
<1>28. ASSUME 
         SubscriberCloses \/ PublisherCloses \/ BrowserLeaves
     PROVE SignalTypeOK'
  <2>1. UNCHANGED <<config, joins, asked, answering, trickled, inbox, outbox, waits,
      ended, opened, joined, stream,
    resJoin, resOffer, requests, replies, described, candidates, ice, early, refused,
      wanted>>
    BY <1>28 DEF SubscriberCloses, CallbackOnly, SfuOnly, browserVars, socketVars,
      subVars, Sends, PublisherCloses, BrowserLeaves, BrowserOnly, peerVars, historyVars
  <2> QED
    BY <2>1 DEF SignalTypeOK
<1>29. ASSUME UNCHANGED signalVars PROVE SignalTypeOK'
  BY <1>29 DEF signalVars, browserVars, socketVars, peerVars, historyVars, subVars,
    SignalTypeOK
<1> QED
  BY <1>1, <1>2, <1>3, <1>4, <1>5, <1>6, <1>7, <1>8, <1>9, <1>10, <1>11, <1>12, <1>13,
    <1>14, <1>15, <1>16, <1>17, <1>18, <1>19, <1>20, <1>21, <1>22, <1>23, <1>24, <1>25,
    <1>26, <1>27, <1>28, <1>29 DEF SignalNext, Event, Step

-----------------------------------------------------------------------------
(* Messages move along the path.                                           *)

LEMMA Asked ==
  ASSUME SignalTypeOK, NEW m \in Request, inbox' = Append(inbox, m)
  PROVE  /\ \A k : Holds(inbox', k) <=> Holds(inbox, k) \/ m.kind = k
         /\ \A c : Carries(inbox', c) <=> Carries(inbox, c) \/ (m.kind = "trickle" /\ m.n = c)
<1>1. inbox \in Seq(Request)
  BY DEF SignalTypeOK
<1> QED
  BY <1>1, Appended

LEMMA Forwarded ==
  ASSUME SignalTypeOK, inbox # <<>>, Forwards
  PROVE  /\ UNCHANGED <<outbox, ended, resJoin, resOffer, replies>> /\ Head(inbox) \in Request
         /\ \A k : Holds(inbox, k) <=> Holds(inbox', k) \/ Head(inbox).kind = k
         /\ \A c : Carries(inbox, c) <=>
                     Carries(inbox', c) \/ (Head(inbox).kind = "trickle" /\ Head(inbox).n = c)
         /\ \A k : Holds(requests', k) <=> Holds(requests, k) \/ Head(inbox).kind = k
         /\ \A k, x : One(requests, k, x) /\ Head(inbox).kind # k => One(requests', k, x)
         /\ \A k, x : ~Holds(requests, k) /\ Head(inbox).n = x => One(requests', k, x)
         /\ \A c : Carries(requests', c) <=>
                     Carries(requests, c) \/ (Head(inbox).kind = "trickle" /\ Head(inbox).n = c)
         /\ \A cs : /\ JoinFirst(requests, cs)
                    /\ Head(inbox).kind = "trickle" => Head(inbox).n \in cs \/ Holds(requests, "join")
                    => JoinFirst(requests', cs)
<1>1. /\ inbox' = Tail(inbox) /\ requests' = Append(requests, Head(inbox))
      /\ UNCHANGED <<outbox, ended, resJoin, resOffer, replies>>
  BY DEF Forwards
<1>2. inbox \in Seq(Request) /\ requests \in Seq(Request)
  BY DEF SignalTypeOK
<1>3. Head(inbox) \in Request
  BY <1>2, HeadTailProperties
<1>4. /\ \A k : Holds(inbox, k) <=> Holds(inbox', k) \/ Head(inbox).kind = k
      /\ \A c : Carries(inbox, c) <=>
                  Carries(inbox', c) \/ (Head(inbox).kind = "trickle" /\ Head(inbox).n = c)
  BY <1>1, <1>2, Removed
<1>5. /\ \A k : Holds(requests', k) <=> Holds(requests, k) \/ Head(inbox).kind = k
      /\ \A k, x : One(requests, k, x) /\ Head(inbox).kind # k => One(requests', k, x)
      /\ \A k, x : ~Holds(requests, k) /\ Head(inbox).n = x => One(requests', k, x)
      /\ \A c : Carries(requests', c) <=>
                  Carries(requests, c) \/ (Head(inbox).kind = "trickle" /\ Head(inbox).n = c)
      /\ \A cs : /\ JoinFirst(requests, cs)
                 /\ Head(inbox).kind = "trickle" => Head(inbox).n \in cs \/ Holds(requests, "join")
                 => JoinFirst(requests', cs)
  BY <1>1, <1>2, <1>3, Appended
<1> QED
  BY <1>1, <1>3, <1>4, <1>5

LEMMA Received ==
  ASSUME SignalTypeOK, requests # <<>>, requests' = Tail(requests)
  PROVE  /\ \A k : Holds(requests, k) <=> Holds(requests', k) \/ Head(requests).kind = k
         /\ \A k, x : One(requests, k, x) => One(requests', k, x)
         /\ \A k, x : One(requests, k, x) /\ Head(requests).kind = k
                        => ~Holds(requests', k) /\ Head(requests).n = x
         /\ \A c : Carries(requests, c) <=>
                     Carries(requests', c) \/ (Head(requests).kind = "trickle" /\ Head(requests).n = c)
         /\ \A cs : JoinFirst(requests, cs) /\ Head(requests).kind # "join"
                      => JoinFirst(requests', cs)
         /\ \A cs : JoinFirst(requests, cs) /\ Head(requests).kind = "trickle"
                      => Head(requests).n \in cs
         /\ Head(requests) \in Request
BY Removed DEF SignalTypeOK

LEMMA Replied ==
  ASSUME SignalTypeOK, NEW m \in Reply, replies' = Append(replies, m)
  PROVE  /\ \A k : Holds(replies', k) <=> Holds(replies, k) \/ m.kind = k
         /\ \A k, x : One(replies, k, x) /\ m.kind # k => One(replies', k, x)
         /\ \A k, x : ~Holds(replies, k) /\ m.n = x => One(replies', k, x)
<1>1. replies \in Seq(Reply)
  BY DEF SignalTypeOK
<1> QED
  BY <1>1, Appended

LEMMA Relayed ==
  ASSUME SignalTypeOK, replies # <<>>, replies' = Tail(replies)
  PROVE  /\ \A k : Holds(replies, k) <=> Holds(replies', k) \/ Head(replies).kind = k
         /\ \A k, x : One(replies, k, x) => One(replies', k, x)
         /\ \A k, x : One(replies, k, x) /\ Head(replies).kind = k
                        => ~Holds(replies', k) /\ Head(replies).n = x
         /\ Head(replies) \in Reply
BY Removed DEF SignalTypeOK

\* The replies to the read loop's requests and what becomes of them.
LEMMA RelayedReply ==
  ASSUME SignalTypeOK, RelayReply
  PROVE  /\ replies # <<>> /\ replies' = Tail(replies)
         /\ UNCHANGED <<opened, stream, waits, requests, joins, joined, inbox>>
         /\ \/ /\ Head(replies).kind \in {"joined", "refused"} /\ resJoin' # <<>>
               /\ resJoin' = Append(resJoin, Head(replies)) /\ resOffer' = resOffer
            \/ /\ Head(replies).kind = "answer" /\ resOffer' # <<>>
               /\ resOffer' = Append(resOffer, Head(replies)) /\ resJoin' = resJoin
<1>1. /\ replies # <<>> /\ replies' = Tail(replies)
      /\ \/ /\ Head(replies).kind \in {"joined", "refused"}
            /\ resJoin' = Append(resJoin, Head(replies)) /\ resOffer' = resOffer
         \/ /\ Head(replies).kind = "answer"
            /\ resOffer' = Append(resOffer, Head(replies)) /\ resJoin' = resJoin
  BY DEF RelayReply, Relays
<1>2. Head(replies) \in Reply
  BY <1>1, HeadTailProperties DEF SignalTypeOK
<1>3. ASSUME NEW S, NEW q \in Seq(S), NEW m \in S PROVE Append(q, m) # <<>>
  BY AppendProperties
<1>4. /\ Head(replies).kind \in {"joined", "refused"} => Append(resJoin, Head(replies)) # <<>>
      /\ Head(replies).kind = "answer" => Append(resOffer, Head(replies)) # <<>>
  BY <1>2, <1>3, ReplyFields DEF SignalTypeOK
<1>5. UNCHANGED <<opened, stream, waits, requests, joins, joined, inbox>>
  BY DEF RelayReply, RelayOnly, browserVars, peerVars, subVars
<1> QED
  BY <1>1, <1>4, <1>5

\* What a stream is sent when the peer answers a join, ...
LEMMA JoinAnswered ==
  ASSUME SignalTypeOK, Join
  PROVE  /\ requests # <<>> /\ requests' = Tail(requests) /\ Head(requests).kind = "join"
         /\ stream /\ opened /\ ~joined /\ joined'
         /\ UNCHANGED <<opened, waits, resJoin, resOffer, joins, inbox, outbox, early, refused,
                         trickled, config>>
         /\ \/ stream' = FALSE /\ replies' = replies
            \/ /\ stream' = stream /\ Message("joined", Head(requests).n) \in Reply
               /\ replies' = Append(replies, Message("joined", Head(requests).n))
<1>1. /\ requests # <<>> /\ requests' = Tail(requests) /\ Head(requests).kind = "join"
      /\ stream /\ opened /\ ~joined /\ joined'
      /\ UNCHANGED <<opened, waits, resJoin, resOffer, joins, inbox, outbox, early, refused,
                      trickled, config>>
  BY DEF Join, Receives, SfuOnly, browserVars, socketVars
<1>2. Message("joined", Head(requests).n) \in Reply
  <2>1. Head(requests) \in Request
    BY <1>1, HeadTailProperties DEF SignalTypeOK
  <2> QED
    BY <1>1, <2>1, RequestFields, ReplyFields
<1>3. \/ Sends(<<>> \o <<Message("joined", Head(requests).n)>>) /\ stream' = stream
      \/ Sends(<<>>) /\ stream' = FALSE
  BY DEF Join, AnswersOffer, Returns, subVars
<1>4. replies \in Seq(Reply)
  BY DEF SignalTypeOK
<1> QED
  BY <1>1, <1>2, <1>3, <1>4, Sent

\* ... an offer ...
LEMMA OfferAnswered ==
  ASSUME SignalTypeOK, Offer
  PROVE  /\ requests # <<>> /\ requests' = Tail(requests) /\ Head(requests).kind = "offer"
         /\ stream /\ opened /\ joined' = joined
         /\ UNCHANGED <<opened, waits, resJoin, resOffer, joins, inbox, outbox, early, refused,
                         trickled, config>>
         /\ \/ stream' = FALSE /\ replies' = replies
            \/ /\ stream' = stream /\ Message("answer", Head(requests).n) \in Reply
               /\ replies' = Append(replies, Message("answer", Head(requests).n))
<1>1. /\ requests # <<>> /\ requests' = Tail(requests) /\ Head(requests).kind = "offer"
      /\ stream /\ opened /\ joined' = joined
      /\ UNCHANGED <<opened, waits, resJoin, resOffer, joins, inbox, outbox, early, refused,
                      trickled, config>>
  BY DEF Offer, Receives, SfuOnly, browserVars, socketVars
<1>2. Message("answer", Head(requests).n) \in Reply
  <2>1. Head(requests) \in Request
    BY <1>1, HeadTailProperties DEF SignalTypeOK
  <2> QED
    BY <1>1, <2>1, RequestFields, ReplyFields
<1>3. \/ Sends(<<>> \o <<Message("answer", Head(requests).n)>>) /\ stream' = stream
      \/ Sends(<<>>) /\ stream' = FALSE
  BY DEF Offer, AnswersOffer, Returns, subVars
<1>4. replies \in Seq(Reply)
  BY DEF SignalTypeOK
<1> QED
  BY <1>1, <1>2, <1>3, <1>4, Sent

\* ... or a second join.
LEMMA JoinAgainAnswered ==
  ASSUME SignalTypeOK, JoinAgain
  PROVE  /\ requests # <<>> /\ requests' = Tail(requests) /\ Head(requests).kind = "join"
         /\ stream /\ opened /\ joined /\ joined'
         /\ UNCHANGED <<opened, waits, resJoin, resOffer, joins, inbox, outbox, early, refused,
                         trickled, config>>
         /\ Message("refused", 0) \in Reply /\ Append(replies, Message("refused", 0)) \in Seq(Reply)
         /\ \/ stream' = FALSE /\ replies' = Append(replies, Message("refused", 0))
            \/ /\ stream' = stream /\ Message("joined", Head(requests).n) \in Reply
               /\ replies' = Append(Append(replies, Message("refused", 0)),
                                     Message("joined", Head(requests).n))
<1>1. /\ requests # <<>> /\ requests' = Tail(requests) /\ Head(requests).kind = "join"
      /\ stream /\ opened /\ joined /\ joined'
      /\ UNCHANGED <<opened, waits, resJoin, resOffer, joins, inbox, outbox, early, refused,
                      trickled, config>>
  BY DEF JoinAgain, Receives, SfuOnly, browserVars, socketVars
<1>2. Message("joined", Head(requests).n) \in Reply
  <2>1. Head(requests) \in Request
    BY <1>1, HeadTailProperties DEF SignalTypeOK
  <2> QED
    BY <1>1, <2>1, RequestFields, ReplyFields
<1>3. \/ Sends(<<Message("refused", 0)>> \o <<Message("joined", Head(requests).n)>>) /\ stream' = stream
      \/ Sends(<<Message("refused", 0)>>) /\ stream' = FALSE
  BY DEF JoinAgain, AnswersOffer, Returns, subVars
<1>4. replies \in Seq(Reply) /\ Message("refused", 0) \in Reply
  BY ReplyFields DEF SignalTypeOK
<1>5. Append(replies, Message("refused", 0)) \in Seq(Reply)
  BY <1>4, AppendProperties
<1> QED
  BY <1>1, <1>2, <1>3, <1>4, <1>5, Sent

\* What the SFU sends without being asked.
LEMMA Volunteered ==
  ASSUME SignalTypeOK, OnNegotiationNeeded \/ \E c \in Candidates : OnIceCandidate(c)
  PROVE  /\ UNCHANGED <<opened, stream, waits, requests, resJoin, resOffer, joins, joined, inbox>>
         /\ \/ replies' = replies
            \/ \E m \in Reply : m.kind \in {"offer", "trickle"} /\ replies' = Append(replies, m)
<1>1. replies \in Seq(Reply) /\ wanted \in Nat
  BY DEF SignalTypeOK
<1>2. \/ replies' = replies
      \/ \E m \in Reply : m.kind \in {"offer", "trickle"} /\ Sends(<<m>>)
  <2>1. CASE OnNegotiationNeeded
    <3>1. replies' = replies \/ Sends(<<Message("offer", wanted)>>)
      BY <2>1 DEF OnNegotiationNeeded
    <3>2. Message("offer", wanted) \in Reply
      BY <1>1, ReplyFields
    <3> QED
      BY <3>1, <3>2, MessageFields
  <2>2. ASSUME NEW c \in Candidates, OnIceCandidate(c)
        PROVE  \E m \in Reply : m.kind \in {"offer", "trickle"} /\ Sends(<<m>>)
    <3>1. Sends(<<Message("trickle", c)>>)
      BY <2>2 DEF OnIceCandidate
    <3>2. Message("trickle", c) \in Reply
      BY ReplyFields
    <3> QED
      BY <3>1, <3>2, MessageFields
  <2> QED
    BY <2>1, <2>2
<1>3. UNCHANGED <<opened, stream, waits, requests, resJoin, resOffer, joins, joined, inbox>>
  BY DEF OnNegotiationNeeded, OnIceCandidate, CallbackOnly, SfuOnly, browserVars,
     socketVars, subVars
<1> QED
  BY <1>1, <1>2, <1>3, Sent

LEMMA VolunteeredHolds ==
  ASSUME SignalTypeOK, OnNegotiationNeeded \/ \E c \in Candidates : OnIceCandidate(c)
  PROVE  /\ \A k \in {"joined", "refused", "answer"} : Holds(replies', k) <=> Holds(replies, k)
         /\ \A x : \A k \in {"joined", "refused", "answer"} : One(replies, k, x) => One(replies', k, x)
<1>1. CASE replies' = replies
  BY <1>1
<1>2. ASSUME NEW m \in Reply, m.kind \in {"offer", "trickle"}, replies' = Append(replies, m)
      PROVE  /\ \A k \in {"joined", "refused", "answer"} : Holds(replies', k) <=> Holds(replies, k)
             /\ \A x : \A k \in {"joined", "refused", "answer"} :
                  One(replies, k, x) => One(replies', k, x)
  <2>1. \A k \in {"joined", "refused", "answer"} : m.kind # k
    BY <1>2
  <2> QED
    BY <1>2, <2>1, Replied
<1> QED
  BY <1>1, <1>2, Volunteered

-----------------------------------------------------------------------------
(* Every step keeps the invariant.                                         *)

\* A second join is told of with two messages.
LEMMA JoinAgainHolds ==
  ASSUME SignalTypeOK, JoinAgain
  PROVE  /\ \/ stream' = FALSE
            \/ \A k : Holds(replies', k) <=> Holds(replies, k) \/ k \in {"refused", "joined"}
         /\ \A k : k \notin {"refused", "joined"} =>
              /\ Holds(replies', k) <=> Holds(replies, k)
              /\ \A x : One(replies, k, x) => One(replies', k, x)
<1> DEFINE s == Append(replies, Message("refused", 0))
           m == Message("joined", Head(requests).n)
<1>1. /\ replies \in Seq(Reply) /\ Message("refused", 0) \in Reply /\ s \in Seq(Reply)
      /\ \/ stream' = FALSE /\ replies' = s
         \/ m \in Reply /\ replies' = Append(s, m)
  BY JoinAgainAnswered DEF SignalTypeOK
<1>2. /\ \A k : Holds(s, k) <=> Holds(replies, k) \/ k = "refused"
      /\ \A k, x : One(replies, k, x) /\ "refused" # k => One(s, k, x)
  BY <1>1, Appended, MessageFields
<1>3. m.kind = "joined"
  BY MessageFields
<1> HIDE DEF s, m
<1>4. CASE replies' = s /\ stream' = FALSE
  BY <1>2, <1>4
<1>5. CASE m \in Reply /\ replies' = Append(s, m)
  <2>1. /\ \A k : Holds(replies', k) <=> Holds(s, k) \/ k = "joined"
        /\ \A k, x : One(s, k, x) /\ "joined" # k => One(replies', k, x)
    BY <1>1, <1>3, <1>5, Appended
  <2> QED
    BY <1>2, <2>1
<1> QED
  BY <1>1, <1>4, <1>5

\* A candidate is refused with one.
LEMMA RefusedHolds ==
  ASSUME SignalTypeOK, TrickleRefused
  PROVE  \A k \in {"joined", "refused", "answer"} :
           /\ Holds(replies', k) <=> Holds(replies, k)
           /\ \A x : One(replies, k, x) => One(replies', k, x)
<1>1. replies \in Seq(Reply) /\ Message("error", 0) \in Reply /\ Sends(<<Message("error", 0)>>)
  BY ReplyFields DEF SignalTypeOK, TrickleRefused
<1>2. replies' = replies \/ replies' = Append(replies, Message("error", 0))
  BY <1>1, Sent
<1>3. CASE replies' = Append(replies, Message("error", 0))
  <2>1. \A k \in {"joined", "refused", "answer"} : Message("error", 0).kind # k
    BY MessageFields
  <2> QED
    BY <1>1, <1>3, <2>1, Replied
<1> QED
  BY <1>2, <1>3

\* The read loop waits for something.
LEMMA WaitsStep == SignalInv /\ [SignalNext]_signalVars => WaitsForSomething'
<1> SUFFICES ASSUME SignalInv, [SignalNext]_signalVars PROVE WaitsForSomething'
  OBVIOUS
<1> SignalTypeOK /\ WaitsForSomething
  BY DEF SignalInv
<1>1. ASSUME NEW c \in Candidates, OnIceCandidate(c) PROVE WaitsForSomething'
  <2>1. OnNegotiationNeeded \/ \E e \in Candidates : OnIceCandidate(e)
    BY <1>1
  <2> QED
    BY <2>1, Volunteered, VolunteeredHolds DEF WaitsForSomething
<1>2. ASSUME ReadJoin PROVE WaitsForSomething'
  <2>1. inbox # <<>> /\ Forwards /\ Head(inbox).kind = "join" /\ waits = Nothing
    BY <1>2 DEF ReadJoin, Reads
  <2> QED
    BY <1>2, <2>1, Forwarded, MessageFields DEF ReadJoin, SocketOnly, browserVars,
       peerVars, subVars, Nothing, WaitsForSomething
<1>3. ASSUME ReadOffer PROVE WaitsForSomething'
  <2>1. inbox # <<>> /\ Forwards /\ Head(inbox).kind = "offer" /\ waits = Nothing
    BY <1>3 DEF ReadOffer, Reads
  <2> QED
    BY <1>3, <2>1, Forwarded, MessageFields DEF ReadOffer, SocketOnly, browserVars,
       peerVars, subVars, Nothing, WaitsForSomething
<1>4. ASSUME ReadAnswer PROVE WaitsForSomething'
  <2>1. inbox # <<>> /\ Forwards /\ Head(inbox).kind = "answer" /\ waits = Nothing
    BY <1>4 DEF ReadAnswer, Reads
  <2> QED
    BY <1>4, <2>1, Forwarded, MessageFields DEF ReadAnswer, SocketOnly, browserVars,
       peerVars, subVars, Nothing, WaitsForSomething
<1>5. ASSUME ReadTrickle PROVE WaitsForSomething'
  <2>1. inbox # <<>> /\ Forwards /\ Head(inbox).kind = "trickle" /\ waits = Nothing
    BY <1>5 DEF ReadTrickle, Reads
  <2> QED
    BY <1>5, <2>1, Forwarded, MessageFields DEF ReadTrickle, SocketOnly, browserVars,
       peerVars, subVars, Nothing, WaitsForSomething
<1>6. ASSUME RespondJoin PROVE WaitsForSomething'
  BY <1>6, MessageFields DEF RespondJoin, SocketOnly, browserVars, peerVars, subVars,
    Nothing, SocketOnly, browserVars, peerVars, subVars, WaitsForSomething
<1>7. ASSUME RespondOffer PROVE WaitsForSomething'
  BY <1>7, MessageFields DEF RespondOffer, SocketOnly, browserVars, peerVars, subVars,
    Nothing, SocketOnly, browserVars, peerVars, subVars, WaitsForSomething
<1>8. ASSUME RelayReply PROVE WaitsForSomething'
  <2> QED
    BY <1>8, RelayedReply, Relayed DEF WaitsForSomething
<1>9. ASSUME RelayOffer PROVE WaitsForSomething'
  <2>1. replies # <<>> /\ replies' = Tail(replies) /\ Head(replies).kind \in {"offer", "trickle", "error"}
    BY <1>9 DEF RelayOffer, Relays
  <2> QED
    BY <1>9, <2>1, Relayed DEF RelayOffer, RelayOnly, browserVars, peerVars, subVars,
       WaitsForSomething
<1>10. ASSUME RelayError PROVE WaitsForSomething'
  <2>1. replies # <<>> /\ replies' = Tail(replies) /\ Head(replies).kind \in {"offer", "trickle", "error"}
    BY <1>10 DEF RelayError, Relays
  <2> QED
    BY <1>10, <2>1, Relayed DEF RelayError, RelayOnly, browserVars, peerVars, subVars,
       WaitsForSomething
<1>11. ASSUME OnNegotiationNeeded PROVE WaitsForSomething'
  <2>1. OnNegotiationNeeded \/ \E e \in Candidates : OnIceCandidate(e)
    BY <1>11
  <2> QED
    BY <2>1, Volunteered, VolunteeredHolds DEF WaitsForSomething
<1>12. ASSUME Join PROVE WaitsForSomething'
  <2>1. \/ stream' = FALSE /\ \A k : Holds(replies', k) <=> Holds(replies, k)
        \/ \A k : Holds(replies', k) <=> Holds(replies, k) \/ k = "joined"
    BY <1>12, JoinAnswered, Replied, MessageFields
  <2> QED
    BY <1>12, <2>1, JoinAnswered, Received DEF WaitsForSomething
<1>13. ASSUME JoinAgain PROVE WaitsForSomething'
  <2>1. \/ stream' = FALSE
        \/ \A k : Holds(replies', k) <=> Holds(replies, k) \/ k \in {"refused", "joined"}
    BY <1>13, JoinAgainHolds
  <2> QED
    BY <1>13, <2>1, JoinAgainAnswered, Received DEF WaitsForSomething
<1>14. ASSUME Offer PROVE WaitsForSomething'
  <2>1. \/ stream' = FALSE /\ \A k : Holds(replies', k) <=> Holds(replies, k)
        \/ \A k : Holds(replies', k) <=> Holds(replies, k) \/ k = "answer"
    BY <1>14, OfferAnswered, Replied, MessageFields
  <2> QED
    BY <1>14, <2>1, OfferAnswered, Received DEF WaitsForSomething
<1>15. ASSUME TrickleRefused PROVE WaitsForSomething'
  <2>1. requests # <<>> /\ requests' = Tail(requests) /\ Head(requests).kind = "trickle" /\ stream
    BY <1>15 DEF TrickleRefused, Receives
  <2>2. \A k \in {"joined", "refused", "answer"} :
          /\ Holds(replies', k) <=> Holds(replies, k)
          /\ \A x : One(replies, k, x) => One(replies', k, x)
    BY <1>15, <2>1, RefusedHolds
  <2> QED
    BY <1>15, <2>1, <2>2, Received DEF TrickleRefused, SfuOnly, browserVars, socketVars,
       peerVars, subVars, WaitsForSomething
<1>16. ASSUME Trickle PROVE WaitsForSomething'
  <2>1. requests # <<>> /\ requests' = Tail(requests) /\ Head(requests).kind = "trickle"
    BY <1>16 DEF Trickle, Receives
  <2> QED
    BY <1>16, <2>1, Received DEF Trickle, AddICECandidate, Returns, NegotiationKept,
       SfuOnly, browserVars, socketVars, peerVars, subVars, WaitsForSomething
<1>17. ASSUME Answer PROVE WaitsForSomething'
  <2>1. requests # <<>> /\ requests' = Tail(requests) /\ Head(requests).kind = "answer"
    BY <1>17 DEF Answer, Receives
  <2> QED
    BY <1>17, <2>1, Received DEF Answer, SfuOnly, browserVars, socketVars, peerVars,
       subVars, WaitsForSomething
<1>18. ASSUME RecvFails PROVE WaitsForSomething'
  BY <1>18 DEF RecvFails, SfuOnly, browserVars, socketVars, peerVars, subVars,
    Receives, Sends, WaitsForSomething
<1>19. ASSUME 
         SubscriberCloses \/ PublisherCloses \/ BrowserJoins \/ BrowserOffers
      \/ BrowserIgnores \/ BrowserLeaves \/ ReadJoinFails \/ Negotiates
      \/ BrowserReads \/ BrowserAnswers \/ HandlerEnds
     PROVE WaitsForSomething'
  <2>1. UNCHANGED <<opened, stream, waits, requests, resJoin, resOffer, replies>>
    BY <1>19 DEF SubscriberCloses, CallbackOnly, SfuOnly, browserVars, socketVars,
      subVars, Sends, PublisherCloses, BrowserJoins, Asks, BrowserOnly, peerVars,
      historyVars, BrowserOffers, BrowserIgnores, BrowserLeaves, ReadJoinFails, Reads,
      SocketOnly, Negotiates, BrowserReads, BrowserAnswers, HandlerEnds
  <2> QED
    BY <2>1 DEF WaitsForSomething
<1>20. ASSUME NEW c \in Candidates,
         BrowserTrickles(c)
     PROVE WaitsForSomething'
  <2>1. UNCHANGED <<opened, stream, waits, requests, resJoin, resOffer, replies>>
    BY <1>20 DEF BrowserTrickles, BrowserOnly, peerVars, historyVars
  <2> QED
    BY <2>1 DEF WaitsForSomething
<1>21. ASSUME UNCHANGED signalVars PROVE WaitsForSomething'
  <2>1. UNCHANGED <<opened, stream, waits, requests, resJoin, resOffer, replies>>
    BY <1>21 DEF signalVars, browserVars, socketVars, peerVars, historyVars, subVars
  <2> QED
    BY <2>1 DEF WaitsForSomething
<1> QED
  BY <1>1, <1>2, <1>3, <1>4, <1>5, <1>6, <1>7, <1>8, <1>9, <1>10, <1>11, <1>12, <1>13,
    <1>14, <1>15, <1>16, <1>17, <1>18, <1>19, <1>20, <1>21 DEF SignalNext, Event, Step

\* No message is one at most.
LEMMA NoneIsOne == \A q, k, x : ~Holds(q, k) => One(q, k, x)
BY DEF Holds, One

\* The offer is in one place at a time.
LEMMA OfferStep == SignalInv /\ [SignalNext]_signalVars => OfferOnce'
<1> SUFFICES ASSUME SignalInv, [SignalNext]_signalVars PROVE OfferOnce'
  OBVIOUS
<1> SignalTypeOK /\ OfferOnce
  BY DEF SignalInv
<1>1. ASSUME NEW c \in Candidates, OnIceCandidate(c) PROVE OfferOnce'
  <2>1. OnNegotiationNeeded \/ \E e \in Candidates : OnIceCandidate(e)
    BY <1>1
  <2> QED
    BY <2>1, Volunteered, VolunteeredHolds DEF OfferOnce
<1>2. ASSUME ReadJoin PROVE OfferOnce'
  <2>1. inbox # <<>> /\ Forwards /\ Head(inbox).kind = "join" /\ waits = Nothing
    BY <1>2 DEF ReadJoin, Reads
  <2> QED
    BY <1>2, <2>1, Forwarded, MessageFields, NoneIsOne DEF ReadJoin, SocketOnly,
       browserVars, peerVars, subVars, Nothing, OfferOnce
<1>3. ASSUME ReadOffer PROVE OfferOnce'
  <2>1. inbox # <<>> /\ Forwards /\ Head(inbox).kind = "offer" /\ waits = Nothing
    BY <1>3 DEF ReadOffer, Reads
  <2> QED
    BY <1>3, <2>1, Forwarded, MessageFields, NoneIsOne DEF ReadOffer, SocketOnly,
       browserVars, peerVars, subVars, Nothing, OfferOnce
<1>4. ASSUME ReadAnswer PROVE OfferOnce'
  <2>1. inbox # <<>> /\ Forwards /\ Head(inbox).kind = "answer" /\ waits = Nothing
    BY <1>4 DEF ReadAnswer, Reads
  <2> QED
    BY <1>4, <2>1, Forwarded, MessageFields DEF ReadAnswer, SocketOnly, browserVars,
       peerVars, subVars, Nothing, OfferOnce
<1>5. ASSUME ReadTrickle PROVE OfferOnce'
  <2>1. inbox # <<>> /\ Forwards /\ Head(inbox).kind = "trickle" /\ waits = Nothing
    BY <1>5 DEF ReadTrickle, Reads
  <2> QED
    BY <1>5, <2>1, Forwarded, MessageFields DEF ReadTrickle, SocketOnly, browserVars,
       peerVars, subVars, Nothing, OfferOnce
<1>6. ASSUME RespondJoin PROVE OfferOnce'
  <2>1. waits.kind = "join" /\ waits' = Nothing /\ UNCHANGED <<requests, replies, resOffer>>
    BY <1>6 DEF RespondJoin
  <2> QED
    BY <2>1, NoneIsOne DEF OfferOnce
<1>7. ASSUME RespondOffer PROVE OfferOnce'
  <2>1. /\ waits.kind = "offer" /\ resOffer # <<>> /\ resOffer' = Tail(resOffer) /\ waits' = Nothing
        /\ UNCHANGED <<requests, replies>>
    BY <1>7 DEF RespondOffer
  <2>2. /\ resOffer = <<Message("answer", waits.n)>>
        /\ ~Holds(requests, "offer") /\ ~Holds(replies, "answer")
    BY <2>1 DEF OfferOnce
  <2>3. Tail(resOffer) = <<>>
    BY <2>2
  <2> QED
    BY <2>1, <2>2, <2>3, NoneIsOne DEF OfferOnce
<1>8. ASSUME RelayReply PROVE OfferOnce'
  <2>1. CASE Head(replies).kind = "answer" /\ resOffer' = Append(resOffer, Head(replies))
    <3>1. /\ resOffer = <<>> /\ ~Holds(replies', "answer") /\ ~Holds(requests, "offer")
          /\ Head(replies) = Message("answer", waits.n) /\ waits.kind = "offer"
      <4>1. replies # <<>> /\ replies' = Tail(replies)
        BY <1>8, RelayedReply
      <4>2. Holds(replies, "answer") /\ ~Holds(replies', "answer") /\ Head(replies).n = waits.n
        BY <2>1, <4>1, Relayed DEF OfferOnce
      <4>3. Head(replies) \in [kind : {"answer"}, n : Nat]
        BY <2>1, <4>1, Relayed, ReplyFields
      <4> QED
        BY <4>2, <4>3 DEF OfferOnce, Message
    <3>2. resOffer' = <<Message("answer", waits.n)>>
      BY <2>1, <3>1
    <3> QED
      BY <1>8, <3>1, <3>2, NoneIsOne, RelayedReply DEF OfferOnce
  <2>2. CASE Head(replies).kind # "answer" /\ resOffer' = resOffer
    BY <1>8, <2>2, RelayedReply, Relayed DEF OfferOnce
  <2> QED
    BY <1>8, <2>1, <2>2, RelayedReply
<1>9. ASSUME RelayOffer PROVE OfferOnce'
  <2>1. replies # <<>> /\ replies' = Tail(replies) /\ Head(replies).kind \in {"offer", "trickle", "error"}
    BY <1>9 DEF RelayOffer, Relays
  <2> QED
    BY <1>9, <2>1, Relayed DEF RelayOffer, RelayOnly, browserVars, peerVars, subVars, OfferOnce
<1>10. ASSUME RelayError PROVE OfferOnce'
  <2>1. replies # <<>> /\ replies' = Tail(replies) /\ Head(replies).kind \in {"offer", "trickle", "error"}
    BY <1>10 DEF RelayError, Relays
  <2> QED
    BY <1>10, <2>1, Relayed DEF RelayError, RelayOnly, browserVars, peerVars, subVars, OfferOnce
<1>11. ASSUME OnNegotiationNeeded PROVE OfferOnce'
  <2>1. OnNegotiationNeeded \/ \E e \in Candidates : OnIceCandidate(e)
    BY <1>11
  <2> QED
    BY <2>1, Volunteered, VolunteeredHolds DEF OfferOnce
<1>12. ASSUME Join PROVE OfferOnce'
  <2>1. /\ Holds(replies', "answer") <=> Holds(replies, "answer")
        /\ \A x : One(replies, "answer", x) => One(replies', "answer", x)
    <3>1. CASE replies' = replies
      BY <3>1
    <3>2. ASSUME NEW m \in Reply, m.kind = "joined", replies' = Append(replies, m)
          PROVE  /\ Holds(replies', "answer") <=> Holds(replies, "answer")
                 /\ \A x : One(replies, "answer", x) => One(replies', "answer", x)
      <4>1. "answer" # m.kind
        BY <3>2
      <4> QED
        BY <3>2, <4>1, Replied
    <3> QED
      BY <1>12, <3>1, <3>2, JoinAnswered, MessageFields
  <2> QED
    BY <1>12, <2>1, JoinAnswered, Received DEF OfferOnce
<1>13. ASSUME JoinAgain PROVE OfferOnce'
  <2> QED
    BY <1>13, JoinAgainHolds, JoinAgainAnswered, Received DEF OfferOnce
<1>14. ASSUME Offer PROVE OfferOnce'
  <2>1. /\ requests # <<>> /\ requests' = Tail(requests) /\ Head(requests).kind = "offer"
        /\ UNCHANGED <<waits, resOffer>>
        /\ \/ replies' = replies
           \/ /\ Message("answer", Head(requests).n) \in Reply
              /\ replies' = Append(replies, Message("answer", Head(requests).n))
    BY <1>14, OfferAnswered
  <2>2. /\ Holds(requests, "offer") /\ ~Holds(requests', "offer") /\ Head(requests).n = waits.n
        /\ One(requests', "offer", waits.n)
    BY <2>1, Received DEF OfferOnce
  <2>3. One(replies', "answer", waits.n)
    BY <2>1, <2>2, Replied, MessageFields DEF OfferOnce
  <2> QED
    BY <2>1, <2>2, <2>3 DEF OfferOnce
<1>15. ASSUME TrickleRefused PROVE OfferOnce'
  <2>1. requests # <<>> /\ requests' = Tail(requests) /\ Head(requests).kind = "trickle" /\ stream
    BY <1>15 DEF TrickleRefused, Receives
  <2>2. \A k \in {"joined", "refused", "answer"} :
          /\ Holds(replies', k) <=> Holds(replies, k)
          /\ \A x : One(replies, k, x) => One(replies', k, x)
    BY <1>15, <2>1, RefusedHolds
  <2> QED
    BY <1>15, <2>1, <2>2, Received DEF TrickleRefused, SfuOnly, browserVars, socketVars,
       peerVars, subVars, OfferOnce
<1>16. ASSUME Trickle PROVE OfferOnce'
  <2>1. requests # <<>> /\ requests' = Tail(requests) /\ Head(requests).kind = "trickle"
    BY <1>16 DEF Trickle, Receives
  <2> QED
    BY <1>16, <2>1, Received DEF Trickle, AddICECandidate, Returns, NegotiationKept,
       SfuOnly, browserVars, socketVars, peerVars, subVars, OfferOnce
<1>17. ASSUME Answer PROVE OfferOnce'
  <2>1. requests # <<>> /\ requests' = Tail(requests) /\ Head(requests).kind = "answer"
    BY <1>17 DEF Answer, Receives
  <2> QED
    BY <1>17, <2>1, Received DEF Answer, SfuOnly, browserVars, socketVars, peerVars,
       subVars, OfferOnce
<1>18. ASSUME RecvFails PROVE OfferOnce'
  BY <1>18 DEF RecvFails, SfuOnly, browserVars, socketVars, peerVars, subVars,
    Receives, Sends, OfferOnce
<1>19. ASSUME 
         SubscriberCloses \/ PublisherCloses \/ BrowserJoins \/ BrowserOffers
      \/ BrowserIgnores \/ BrowserLeaves \/ ReadJoinFails \/ Negotiates
      \/ BrowserReads \/ BrowserAnswers \/ HandlerEnds
     PROVE OfferOnce'
  <2>1. UNCHANGED <<opened, stream, waits, requests, resJoin, resOffer, replies>>
    BY <1>19 DEF SubscriberCloses, CallbackOnly, SfuOnly, browserVars, socketVars,
      subVars, Sends, PublisherCloses, BrowserJoins, Asks, BrowserOnly, peerVars,
      historyVars, BrowserOffers, BrowserIgnores, BrowserLeaves, ReadJoinFails, Reads,
      SocketOnly, Negotiates, BrowserReads, BrowserAnswers, HandlerEnds
  <2> QED
    BY <2>1 DEF OfferOnce
<1>20. ASSUME NEW c \in Candidates,
         BrowserTrickles(c)
     PROVE OfferOnce'
  <2>1. UNCHANGED <<opened, stream, waits, requests, resJoin, resOffer, replies>>
    BY <1>20 DEF BrowserTrickles, BrowserOnly, peerVars, historyVars
  <2> QED
    BY <2>1 DEF OfferOnce
<1>21. ASSUME UNCHANGED signalVars PROVE OfferOnce'
  <2>1. UNCHANGED <<opened, stream, waits, requests, resJoin, resOffer, replies>>
    BY <1>21 DEF signalVars, browserVars, socketVars, peerVars, historyVars, subVars
  <2> QED
    BY <2>1 DEF OfferOnce
<1> QED
  BY <1>1, <1>2, <1>3, <1>4, <1>5, <1>6, <1>7, <1>8, <1>9, <1>10, <1>11, <1>12, <1>13,
    <1>14, <1>15, <1>16, <1>17, <1>18, <1>19, <1>20, <1>21 DEF SignalNext, Event, Step

\* The joins the browser has sent.
LEMMA InboxKept ==
  ASSUME SignalTypeOK, NEW m \in Request, m.kind # "join", inbox' = Append(inbox, m)
  PROVE  /\ Holds(inbox', "join") <=> Holds(inbox, "join")
         /\ (\A i, j \in 1 .. Len(inbox) : inbox[i].kind = "join" /\ inbox[j].kind = "join" => i = j)
            => \A i, j \in 1 .. Len(inbox') :
                 inbox'[i].kind = "join" /\ inbox'[j].kind = "join" => i = j
<1>1. inbox \in Seq(Request)
  BY DEF SignalTypeOK
<1>2. /\ Len(inbox') = Len(inbox) + 1 /\ inbox'[Len(inbox) + 1] = m /\ Len(inbox) \in Nat
      /\ \A i \in 1 .. Len(inbox) : inbox'[i] = inbox[i]
  BY <1>1, AppendProperties
<1>3. \A i \in 1 .. Len(inbox') :
        inbox'[i].kind = "join" => i \in 1 .. Len(inbox) /\ inbox[i].kind = "join"
  BY <1>2
<1> QED
  BY <1>3, Asked

LEMMA InboxRead ==
  ASSUME SignalTypeOK, inbox # <<>>, inbox' = Tail(inbox)
  PROVE  /\ Holds(inbox', "join") \/ Head(inbox).kind = "join" <=> Holds(inbox, "join")
         /\ (\A i, j \in 1 .. Len(inbox) : inbox[i].kind = "join" /\ inbox[j].kind = "join" => i = j)
            => /\ \A i, j \in 1 .. Len(inbox') :
                    inbox'[i].kind = "join" /\ inbox'[j].kind = "join" => i = j
               /\ Head(inbox).kind = "join" => ~Holds(inbox', "join")
<1>1. inbox \in Seq(Request)
  BY DEF SignalTypeOK
<1>2. /\ Len(inbox') = Len(inbox) - 1 /\ Head(inbox) = inbox[1] /\ Len(inbox) \in Nat \ {0}
      /\ \A i \in 1 .. Len(inbox') : inbox'[i] = inbox[i + 1]
  BY <1>1, HeadTailProperties, EmptySeq, LenProperties
<1>3. \A i \in 1 .. Len(inbox') : i + 1 \in 1 .. Len(inbox) /\ i + 1 # 1
  BY <1>2
<1>4. Holds(inbox', "join") \/ Head(inbox).kind = "join" <=> Holds(inbox, "join")
  BY <1>1, Removed
<1>5. ASSUME \A i, j \in 1 .. Len(inbox) : inbox[i].kind = "join" /\ inbox[j].kind = "join" => i = j
      PROVE  \A i, j \in 1 .. Len(inbox') :
               inbox'[i].kind = "join" /\ inbox'[j].kind = "join" => i = j
  <2> SUFFICES ASSUME NEW i \in 1 .. Len(inbox'), NEW j \in 1 .. Len(inbox'),
                      inbox'[i].kind = "join", inbox'[j].kind = "join"
               PROVE  i = j
    OBVIOUS
  <2>1. i + 1 = j + 1
    BY <1>2, <1>3, <1>5
  <2> QED
    BY <2>1
<1>6. ASSUME \A i, j \in 1 .. Len(inbox) : inbox[i].kind = "join" /\ inbox[j].kind = "join" => i = j,
             Head(inbox).kind = "join"
      PROVE  ~Holds(inbox', "join")
  BY <1>2, <1>3, <1>6 DEF Holds
<1> QED
  BY <1>4, <1>5, <1>6

\* The browser's only join is in one place at a time.
LEMMA JoinStep == SignalInv /\ [SignalNext]_signalVars => JoinOnce'
<1> SUFFICES ASSUME SignalInv, [SignalNext]_signalVars PROVE JoinOnce'
  OBVIOUS
<1> SignalTypeOK /\ JoinOnce /\ joins \in Nat
  BY DEF SignalInv, SignalTypeOK
<1>1. ASSUME NEW c \in Candidates, OnIceCandidate(c) PROVE JoinOnce'
  <2>1. OnNegotiationNeeded \/ \E e \in Candidates : OnIceCandidate(e)
    BY <1>1
  <2> QED
    BY <2>1, Volunteered, VolunteeredHolds DEF JoinOnce
<1>2. ASSUME BrowserJoins PROVE JoinOnce'
  <2>1. /\ joins' = joins + 1 /\ inbox' = Append(inbox, Message("join", asked + 1))
        /\ UNCHANGED <<joined, waits, requests, resJoin, replies>>
    BY <1>2 DEF BrowserJoins, Asks, BrowserOnly, peerVars
  <2>2. SUFFICES ASSUME joins = 0 PROVE JoinOnce'
    BY <2>1 DEF JoinOnce
  <2>3. Message("join", asked + 1) \in Request
    BY RequestFields DEF SignalTypeOK
  <2>4. /\ inbox \in Seq(Request) /\ ~Holds(inbox, "join")
        /\ Len(inbox') = Len(inbox) + 1 /\ \A i \in 1 .. Len(inbox) : inbox'[i] = inbox[i]
    BY <2>1, <2>2, <2>3, AppendProperties DEF SignalTypeOK, JoinOnce
  <2>5. \A i \in 1 .. Len(inbox') : inbox'[i].kind = "join" => i = Len(inbox) + 1
    BY <2>4 DEF Holds
  <2> QED
    BY <2>1, <2>2, <2>5 DEF JoinOnce
<1>3. ASSUME BrowserOffers PROVE JoinOnce'
  <2>1. /\ inbox' = Append(inbox, Message("offer", asked + 1))
        /\ UNCHANGED <<joins, joined, waits, requests, resJoin, replies>>
    BY <1>3 DEF BrowserOffers, Asks, BrowserOnly, peerVars
  <2>2. Message("offer", asked + 1) \in Request /\ Message("offer", asked + 1).kind # "join"
    BY <1>3, RequestFields, MessageFields, HeadTailProperties DEF BrowserOffers, Asks,
       SignalTypeOK
  <2> QED
    BY <2>1, <2>2, InboxKept DEF JoinOnce
<1>4. ASSUME NEW c \in Candidates, BrowserTrickles(c) PROVE JoinOnce'
  <2>1. /\ inbox' = Append(inbox, Message("trickle", c))
        /\ UNCHANGED <<joins, joined, waits, requests, resJoin, replies>>
    BY <1>4 DEF BrowserTrickles, BrowserOnly, peerVars
  <2>2. Message("trickle", c) \in Request /\ Message("trickle", c).kind # "join"
    BY <1>4, RequestFields, MessageFields, HeadTailProperties DEF BrowserTrickles, SignalTypeOK
  <2> QED
    BY <2>1, <2>2, InboxKept DEF JoinOnce
<1>5. ASSUME ReadJoinFails PROVE JoinOnce'
  <2>1. /\ inbox # <<>> /\ inbox' = Tail(inbox)
        /\ UNCHANGED <<joins, joined, waits, requests, resJoin, replies>>
    BY <1>5 DEF ReadJoinFails, Reads, SocketOnly, browserVars, peerVars
  <2> QED
    BY <2>1, InboxRead DEF JoinOnce
<1>6. ASSUME BrowserAnswers PROVE JoinOnce'
  <2>1. /\ inbox' = Append(inbox, Message("answer", Head(answering)))
        /\ UNCHANGED <<joins, joined, waits, requests, resJoin, replies>>
    BY <1>6 DEF BrowserAnswers, BrowserOnly, peerVars
  <2>2. Message("answer", Head(answering)) \in Request /\ Message("answer", Head(answering)).kind # "join"
    BY <1>6, RequestFields, MessageFields, HeadTailProperties DEF BrowserAnswers, SignalTypeOK
  <2> QED
    BY <2>1, <2>2, InboxKept DEF JoinOnce
<1>7. ASSUME ReadJoin PROVE JoinOnce'
  <2>1. /\ inbox # <<>> /\ Forwards /\ Head(inbox).kind = "join" /\ waits = Nothing
        /\ waits' = Head(inbox) /\ UNCHANGED <<joins, joined, resJoin, replies>>
        /\ inbox' = Tail(inbox)
    BY <1>7 DEF ReadJoin, Reads, Forwards, SocketOnly, browserVars, peerVars
  <2>2. SUFFICES ASSUME joins < 2 PROVE JoinOnce'
    BY <2>1 DEF JoinOnce
  <2>3. Holds(inbox, "join")
    BY <2>1, InboxRead
  <2>4. /\ ~Holds(requests, "join") /\ ~Holds(replies, "joined") /\ ~Holds(replies, "refused")
        /\ resJoin = <<>> /\ ~joined /\ joins # 0
    BY <2>1, <2>2, <2>3, MessageFields DEF JoinOnce, Nothing
  <2>5. One(requests', "join", waits'.n)
    BY <2>1, <2>4, Forwarded
  <2>6. ~Holds(inbox', "join")
    <3>1. \A i, j \in 1 .. Len(inbox) : inbox[i].kind = "join" /\ inbox[j].kind = "join" => i = j
      BY <2>2 DEF JoinOnce
    <3> QED
      BY <2>1, <3>1, InboxRead
  <2>7. \A i, j \in 1 .. Len(inbox') : inbox'[i].kind = "join" /\ inbox'[j].kind = "join" => i = j
    BY <2>6 DEF Holds
  <2> QED
    BY <2>1, <2>4, <2>5, <2>6, <2>7, NoneIsOne DEF JoinOnce
<1>8. ASSUME ReadOffer PROVE JoinOnce'
  <2>1. /\ inbox # <<>> /\ Forwards /\ Head(inbox).kind = "offer" /\ waits = Nothing
        /\ UNCHANGED <<joins, joined, resJoin, replies>>
        /\ waits'.kind # "join"
    BY <1>8, MessageFields DEF ReadOffer, Reads, Forwards, SocketOnly, browserVars,
       peerVars, Nothing
  <2>2. inbox' = Tail(inbox) /\ waits.kind # "join"
    BY <2>1, MessageFields DEF Forwards, Nothing
  <2>3. Holds(requests', "join") <=> Holds(requests, "join")
    BY <2>1, Forwarded
  <2> QED
    BY <2>1, <2>2, <2>3, InboxRead, NoneIsOne DEF JoinOnce
<1>9. ASSUME ReadAnswer PROVE JoinOnce'
  <2>1. /\ inbox # <<>> /\ Forwards /\ Head(inbox).kind = "answer" /\ waits = Nothing
        /\ UNCHANGED <<joins, joined, resJoin, replies>>
        /\ waits'.kind # "join"
    BY <1>9, MessageFields DEF ReadAnswer, Reads, Forwards, SocketOnly, browserVars,
       peerVars, Nothing
  <2>2. inbox' = Tail(inbox) /\ waits.kind # "join"
    BY <2>1, MessageFields DEF Forwards, Nothing
  <2>3. Holds(requests', "join") <=> Holds(requests, "join")
    BY <2>1, Forwarded
  <2> QED
    BY <2>1, <2>2, <2>3, InboxRead, NoneIsOne DEF JoinOnce
<1>10. ASSUME ReadTrickle PROVE JoinOnce'
  <2>1. /\ inbox # <<>> /\ Forwards /\ Head(inbox).kind = "trickle" /\ waits = Nothing
        /\ UNCHANGED <<joins, joined, resJoin, replies>>
        /\ waits'.kind # "join"
    BY <1>10, MessageFields DEF ReadTrickle, Reads, Forwards, SocketOnly, browserVars,
       peerVars, Nothing
  <2>2. inbox' = Tail(inbox) /\ waits.kind # "join"
    BY <2>1, MessageFields DEF Forwards, Nothing
  <2>3. Holds(requests', "join") <=> Holds(requests, "join")
    BY <2>1, Forwarded
  <2> QED
    BY <2>1, <2>2, <2>3, InboxRead, NoneIsOne DEF JoinOnce
<1>11. ASSUME RespondJoin PROVE JoinOnce'
  <2>1. /\ waits.kind = "join" /\ resJoin # <<>> /\ resJoin' = Tail(resJoin) /\ waits' = Nothing
        /\ UNCHANGED <<joins, joined, inbox, requests, replies>>
    BY <1>11 DEF RespondJoin, SocketOnly, browserVars, peerVars
  <2>2. SUFFICES ASSUME joins < 2 PROVE JoinOnce'
    BY <2>1 DEF JoinOnce
  <2>3. /\ resJoin = <<Message("joined", waits.n)>>
        /\ ~Holds(requests, "join") /\ ~Holds(replies, "joined")
    BY <2>1, <2>2 DEF JoinOnce
  <2>4. Tail(resJoin) = <<>>
    BY <2>3
  <2>5. waits'.kind # "join"
    BY <2>1, MessageFields DEF Nothing
  <2> QED
    BY <2>1, <2>2, <2>3, <2>4, <2>5, NoneIsOne DEF JoinOnce
<1>12. ASSUME RespondOffer PROVE JoinOnce'
  <2>1. /\ waits.kind = "offer" /\ waits' = Nothing
        /\ UNCHANGED <<joins, joined, inbox, requests, replies, resJoin>>
    BY <1>12 DEF RespondOffer, SocketOnly, browserVars, peerVars
  <2>2. waits'.kind # "join"
    BY <2>1, MessageFields DEF Nothing
  <2> QED
    BY <2>1, <2>2, NoneIsOne DEF JoinOnce
<1>13. ASSUME RelayReply PROVE JoinOnce'
  <2>1. SUFFICES ASSUME joins < 2 PROVE JoinOnce'
    BY <1>13, RelayedReply DEF JoinOnce
  <2>2. /\ replies # <<>> /\ replies' = Tail(replies) /\ Head(replies) \in Reply
        /\ \A k : Holds(replies, k) <=> Holds(replies', k) \/ Head(replies).kind = k
        /\ \A x : One(replies, "joined", x) => One(replies', "joined", x)
    BY <1>13, RelayedReply, Relayed
  <2>3. CASE Head(replies).kind = "joined" /\ resJoin' = Append(resJoin, Head(replies))
    <3>1. Holds(replies, "joined") /\ ~Holds(replies', "joined") /\ Head(replies).n = waits.n
      BY <2>1, <2>2, <2>3, Relayed DEF JoinOnce
    <3>2. Head(replies) = Message("joined", waits.n)
      BY <2>2, <2>3, <3>1, ReplyFields DEF Message
    <3>3. resJoin = <<>> /\ ~Holds(requests, "join") /\ waits.kind = "join"
      BY <2>1, <3>1 DEF JoinOnce
    <3>4. resJoin' = <<Message("joined", waits.n)>>
      BY <2>3, <3>2, <3>3
    <3> QED
      BY <1>13, <2>1, <2>2, <3>1, <3>3, <3>4, RelayedReply DEF JoinOnce
  <2>4. CASE Head(replies).kind = "answer" /\ resJoin' = resJoin
    BY <1>13, <2>1, <2>2, <2>4, RelayedReply DEF JoinOnce
  <2>5. Head(replies).kind # "refused"
    BY <2>1, <2>2 DEF JoinOnce
  <2> QED
    BY <1>13, <2>3, <2>4, <2>5, RelayedReply
<1>14. ASSUME RelayOffer PROVE JoinOnce'
  <2>1. replies # <<>> /\ replies' = Tail(replies) /\ Head(replies).kind \in {"offer", "trickle", "error"}
    BY <1>14 DEF RelayOffer, Relays
  <2> QED
    BY <1>14, <2>1, Relayed DEF RelayOffer, RelayOnly, browserVars, peerVars, subVars, JoinOnce
<1>15. ASSUME RelayError PROVE JoinOnce'
  <2>1. replies # <<>> /\ replies' = Tail(replies) /\ Head(replies).kind \in {"offer", "trickle", "error"}
    BY <1>15 DEF RelayError, Relays
  <2> QED
    BY <1>15, <2>1, Relayed DEF RelayError, RelayOnly, browserVars, peerVars, subVars, JoinOnce
<1>16. ASSUME OnNegotiationNeeded PROVE JoinOnce'
  <2>1. OnNegotiationNeeded \/ \E e \in Candidates : OnIceCandidate(e)
    BY <1>16
  <2> QED
    BY <2>1, Volunteered, VolunteeredHolds DEF JoinOnce
<1>17. ASSUME Join PROVE JoinOnce'
  <2>1. SUFFICES ASSUME joins < 2 PROVE JoinOnce'
    BY <1>17, JoinAnswered DEF JoinOnce
  <2>2. /\ requests # <<>> /\ requests' = Tail(requests) /\ Head(requests).kind = "join"
        /\ UNCHANGED <<waits, resJoin, joins, inbox>>
        /\ \/ replies' = replies
           \/ /\ Message("joined", Head(requests).n) \in Reply
              /\ replies' = Append(replies, Message("joined", Head(requests).n))
    BY <1>17, JoinAnswered
  <2>3. /\ Holds(requests, "join") /\ ~Holds(requests', "join") /\ Head(requests).n = waits.n
        /\ One(requests', "join", waits.n)
    BY <2>1, <2>2, Received DEF JoinOnce
  <2>4. waits.kind = "join" /\ resJoin = <<>> /\ ~Holds(replies, "joined") /\ ~Holds(replies, "refused")
        /\ joins # 0 /\ ~Holds(inbox, "join")
    BY <2>1, <2>3 DEF JoinOnce
  <2>5. One(replies', "joined", waits.n) /\ ~Holds(replies', "refused")
    <3>1. CASE replies' = replies
      BY <2>4, <3>1, NoneIsOne
    <3>2. CASE /\ Message("joined", Head(requests).n) \in Reply
               /\ replies' = Append(replies, Message("joined", Head(requests).n))
      <4>1. /\ Message("joined", Head(requests).n).kind = "joined"
            /\ Message("joined", Head(requests).n).n = waits.n
        BY <2>3, MessageFields
      <4> QED
        BY <2>4, <3>2, <4>1, Replied
    <3> QED
      BY <2>2, <3>1, <3>2
  <2> QED
    BY <2>1, <2>2, <2>3, <2>4, <2>5 DEF JoinOnce
<1>18. ASSUME JoinAgain PROVE JoinOnce'
  <2>1. /\ Holds(requests, "join") /\ joined /\ joins' = joins
    BY <1>18, JoinAgainAnswered, Received
  <2> QED
    BY <2>1 DEF JoinOnce
<1>19. ASSUME Offer PROVE JoinOnce'
  <2>1. /\ requests # <<>> /\ requests' = Tail(requests) /\ Head(requests).kind = "offer"
        /\ UNCHANGED <<waits, resJoin, joins, inbox, joined>>
        /\ \/ replies' = replies
           \/ /\ Message("answer", Head(requests).n) \in Reply
              /\ replies' = Append(replies, Message("answer", Head(requests).n))
    BY <1>19, OfferAnswered
  <2>2. \A k \in {"joined", "refused"} :
          /\ Holds(replies', k) <=> Holds(replies, k)
          /\ \A x : One(replies, k, x) => One(replies', k, x)
    <3>1. CASE replies' = replies
      BY <3>1
    <3>2. ASSUME NEW m \in Reply, m.kind = "answer", replies' = Append(replies, m)
          PROVE  \A k \in {"joined", "refused"} :
                   /\ Holds(replies', k) <=> Holds(replies, k)
                   /\ \A x : One(replies, k, x) => One(replies', k, x)
      <4>1. \A k \in {"joined", "refused"} : k # m.kind
        BY <3>2
      <4> QED
        BY <3>2, <4>1, Replied
    <3> QED
      BY <2>1, <3>1, <3>2, MessageFields
  <2> QED
    BY <2>1, <2>2, Received DEF JoinOnce
<1>20. ASSUME TrickleRefused PROVE JoinOnce'
  <2>1. requests # <<>> /\ requests' = Tail(requests) /\ Head(requests).kind = "trickle" /\ stream
    BY <1>20 DEF TrickleRefused, Receives
  <2>2. \A k \in {"joined", "refused", "answer"} :
          /\ Holds(replies', k) <=> Holds(replies, k)
          /\ \A x : One(replies, k, x) => One(replies', k, x)
    BY <1>20, <2>1, RefusedHolds
  <2> QED
    BY <1>20, <2>1, <2>2, Received DEF TrickleRefused, SfuOnly, browserVars, socketVars,
       peerVars, subVars, JoinOnce
<1>21. ASSUME Trickle PROVE JoinOnce'
  <2>1. requests # <<>> /\ requests' = Tail(requests) /\ Head(requests).kind = "trickle"
    BY <1>21 DEF Trickle, Receives
  <2> QED
    BY <1>21, <2>1, Received DEF Trickle, AddICECandidate, Returns, NegotiationKept,
       SfuOnly, browserVars, socketVars, peerVars, subVars, JoinOnce
<1>22. ASSUME Answer PROVE JoinOnce'
  <2>1. requests # <<>> /\ requests' = Tail(requests) /\ Head(requests).kind = "answer"
    BY <1>22 DEF Answer, Receives
  <2> QED
    BY <1>22, <2>1, Received DEF Answer, SfuOnly, browserVars, socketVars, peerVars,
       subVars, JoinOnce
<1>23. ASSUME RecvFails PROVE JoinOnce'
  BY <1>23 DEF RecvFails, SfuOnly, browserVars, socketVars, peerVars, subVars,
    Receives, Sends, JoinOnce
<1>24. ASSUME 
         SubscriberCloses \/ PublisherCloses \/ BrowserIgnores \/ BrowserLeaves
      \/ Negotiates \/ BrowserReads \/ HandlerEnds
     PROVE JoinOnce'
  <2>1. UNCHANGED <<joins, joined, inbox, waits, requests, resJoin, replies>>
    BY <1>24 DEF SubscriberCloses, CallbackOnly, SfuOnly, browserVars, socketVars,
      subVars, Sends, PublisherCloses, BrowserIgnores, BrowserOnly, peerVars,
      historyVars, BrowserLeaves, Negotiates, BrowserReads, HandlerEnds, SocketOnly
  <2> QED
    BY <2>1 DEF JoinOnce
<1>25. ASSUME UNCHANGED signalVars PROVE JoinOnce'
  <2>1. UNCHANGED <<joins, joined, inbox, waits, requests, resJoin, replies>>
    BY <1>25 DEF signalVars, browserVars, socketVars, peerVars, historyVars, subVars
  <2> QED
    BY <2>1 DEF JoinOnce
<1> QED
  BY <1>1, <1>2, <1>3, <1>4, <1>5, <1>6, <1>7, <1>8, <1>9, <1>10, <1>11, <1>12, <1>13,
    <1>14, <1>15, <1>16, <1>17, <1>18, <1>19, <1>20, <1>21, <1>22, <1>23, <1>24,
    <1>25 DEF SignalNext, Event, Step

\* What is written to the web socket.
LEMMA Writes ==
  ASSUME SignalTypeOK, OwnAnswer, NEW m \in Written, outbox' = Append(outbox, m), joins' = joins,
         m.kind = "response" => m.n = m.to \/ (m.of = "join" /\ joins > 1)
  PROVE  OwnAnswer'
<1>1. outbox \in Seq(Written)
  BY DEF SignalTypeOK
<1>2. /\ Len(outbox') = Len(outbox) + 1 /\ outbox'[Len(outbox) + 1] = m /\ Len(outbox) \in Nat
      /\ \A i \in 1 .. Len(outbox) : outbox'[i] = outbox[i]
  BY <1>1, AppendProperties
<1>3. \A i \in 1 .. Len(outbox') : i \in 1 .. Len(outbox) \/ i = Len(outbox) + 1
  BY <1>2
<1> QED
  BY <1>2, <1>3 DEF OwnAnswer

\* Every response is the answer to its request.
LEMMA AnswersStep == SignalInv /\ [SignalNext]_signalVars => OwnAnswer'
<1> SUFFICES ASSUME SignalInv, [SignalNext]_signalVars PROVE OwnAnswer'
  OBVIOUS
<1> SignalTypeOK /\ OwnAnswer /\ joins \in Nat
  BY DEF SignalInv, SignalTypeOK
<1>1. ASSUME BrowserJoins PROVE OwnAnswer'
  <2>1. joins' = joins + 1 /\ outbox' = outbox
    BY <1>1 DEF BrowserJoins
  <2> QED
    BY <2>1 DEF OwnAnswer
<1>2. ASSUME ReadJoinFails PROVE OwnAnswer'
  <2>1. /\ outbox' = Append(outbox, Message("error", Head(inbox).n)) /\ joins' = joins
        /\ inbox # <<>> /\ Head(inbox).kind = "join"
    BY <1>2 DEF ReadJoinFails, Reads, SocketOnly, browserVars
  <2>2. Head(inbox) \in Request
    BY <2>1, HeadTailProperties DEF SignalTypeOK
  <2>3. Message("error", Head(inbox).n) \in Written
    BY <2>1, <2>2, RequestFields, ReplyFields
  <2> QED
    BY <2>1, <2>3, MessageFields, Writes
<1>3. ASSUME BrowserReads PROVE OwnAnswer'
  <2>1. outbox # <<>> /\ outbox' = Tail(outbox) /\ joins' = joins /\ outbox \in Seq(Written)
    BY <1>3 DEF BrowserReads, SignalTypeOK
  <2>2. /\ Len(outbox') = Len(outbox) - 1 /\ Len(outbox) \in Nat \ {0}
        /\ \A i \in 1 .. Len(outbox') : outbox'[i] = outbox[i + 1]
    BY <2>1, HeadTailProperties, EmptySeq, LenProperties
  <2>3. \A i \in 1 .. Len(outbox') : i + 1 \in 1 .. Len(outbox)
    BY <2>2
  <2> QED
    BY <2>1, <2>2, <2>3 DEF OwnAnswer
<1>4. ASSUME RespondJoin PROVE OwnAnswer'
  <2>1. /\ waits.kind = "join" /\ resJoin # <<>> /\ joins' = joins
        /\ outbox' = Append(outbox, Response(Head(resJoin)))
    BY <1>4 DEF RespondJoin, SocketOnly, browserVars
  <2>2. Head(resJoin) \in [kind : {"joined", "refused"}, n : Nat]
    BY <2>1, HeadTailProperties DEF SignalTypeOK
  <2>3. waits \in [kind : {"join", "offer"}, n : Nat]
    BY <2>1, MessageFields DEF SignalTypeOK, Nothing
  <2>4. joins < 2 => Head(resJoin).n = waits.n
    BY <2>1, MessageFields DEF SignalInv, JoinOnce
  <2>5. Response(Head(resJoin)) \in Written
    BY <2>2, <2>3 DEF Response, Written
  <2>6. /\ Response(Head(resJoin)).n = Head(resJoin).n /\ Response(Head(resJoin)).to = waits.n
        /\ Response(Head(resJoin)).of = "join"
    BY <2>1 DEF Response
  <2> QED
    BY <2>1, <2>4, <2>5, <2>6, Writes
<1>5. ASSUME RespondOffer PROVE OwnAnswer'
  <2>1. /\ waits.kind = "offer" /\ resOffer # <<>> /\ joins' = joins
        /\ outbox' = Append(outbox, Response(Head(resOffer)))
    BY <1>5 DEF RespondOffer, SocketOnly, browserVars
  <2>2. Head(resOffer) \in [kind : {"answer"}, n : Nat]
    BY <2>1, HeadTailProperties DEF SignalTypeOK
  <2>3. waits \in [kind : {"join", "offer"}, n : Nat]
    BY <2>1, MessageFields DEF SignalTypeOK, Nothing
  <2>4. Head(resOffer).n = waits.n
    BY <2>1, MessageFields DEF SignalInv, OfferOnce
  <2>5. Response(Head(resOffer)) \in Written
    BY <2>2, <2>3 DEF Response, Written
  <2>6. /\ Response(Head(resOffer)).n = Head(resOffer).n /\ Response(Head(resOffer)).to = waits.n
        /\ Response(Head(resOffer)).of = "offer"
    BY <2>1 DEF Response
  <2> QED
    BY <2>1, <2>4, <2>5, <2>6, Writes
<1>6. ASSUME RelayOffer PROVE OwnAnswer'
  <2>1. /\ replies # <<>> /\ outbox' = Append(outbox, Head(replies)) /\ joins' = joins
        /\ Head(replies).kind \in {"offer", "trickle"}
    BY <1>6 DEF RelayOffer, Relays, RelayOnly, browserVars
  <2>2. Head(replies) \in Written
    BY <2>1, HeadTailProperties, ReplyFields DEF SignalTypeOK
  <2> QED
    BY <2>1, <2>2, Writes
<1>7. ASSUME NEW c \in Candidates,
         OnIceCandidate(c) \/ BrowserTrickles(c)
     PROVE OwnAnswer'
  <2>1. UNCHANGED <<joins, outbox>>
    BY <1>7 DEF OnIceCandidate, CallbackOnly, SfuOnly, browserVars, socketVars,
      subVars, Sends, BrowserTrickles, BrowserOnly, peerVars, historyVars
  <2> QED
    BY <2>1 DEF OwnAnswer
<1>8. ASSUME 
         SubscriberCloses \/ PublisherCloses \/ BrowserOffers \/ BrowserIgnores
      \/ BrowserLeaves \/ Negotiates \/ BrowserAnswers \/ ReadJoin \/ ReadOffer
      \/ ReadAnswer \/ ReadTrickle \/ HandlerEnds \/ RelayReply \/ RelayError
      \/ OnNegotiationNeeded \/ Join \/ JoinAgain \/ Offer \/ TrickleRefused
      \/ Trickle \/ Answer \/ RecvFails
     PROVE OwnAnswer'
  <2>1. UNCHANGED <<joins, outbox>>
    BY <1>8 DEF SubscriberCloses, CallbackOnly, SfuOnly, browserVars, socketVars,
      subVars, Sends, PublisherCloses, BrowserOffers, Asks, BrowserOnly, peerVars,
      historyVars, BrowserIgnores, BrowserLeaves, Negotiates, BrowserAnswers, ReadJoin,
      Reads, Forwards, SocketOnly, ReadOffer, ReadAnswer, ReadTrickle, HandlerEnds,
      RelayReply, RelayOnly, Relays, RelayError, OnNegotiationNeeded, Join,
      AnswersOffer, CanAnswer, Returns, NegotiationKept, Receives, JoinAgain, Offer,
      TrickleRefused, Trickle, AddICECandidate, Answer, RecvFails
  <2> QED
    BY <2>1 DEF OwnAnswer
<1>9. ASSUME UNCHANGED signalVars PROVE OwnAnswer'
  <2>1. UNCHANGED <<joins, outbox>>
    BY <1>9 DEF signalVars, browserVars, socketVars, peerVars, historyVars, subVars
  <2> QED
    BY <2>1 DEF OwnAnswer
<1> QED
  BY <1>1, <1>2, <1>3, <1>4, <1>5, <1>6, <1>7, <1>8, <1>9 DEF SignalNext, Event, Step

\* A peer that has not joined has a join ahead.
LEMMA AheadStep == SignalInv /\ [SignalNext]_signalVars => JoinAhead'
<1> SUFFICES ASSUME SignalInv, [SignalNext]_signalVars PROVE JoinAhead'
  OBVIOUS
<1> SignalTypeOK /\ JoinAhead
  BY DEF SignalInv
<1>1. ASSUME ReadJoin PROVE JoinAhead'
  <2>1. /\ inbox # <<>> /\ Forwards /\ Head(inbox).kind = "join"
        /\ UNCHANGED <<joined, stream>> /\ opened' = TRUE
        /\ early' = early
    BY <1>1 DEF ReadJoin, Reads, SocketOnly, peerVars, subVars
  <2>2. Holds(requests', "join") <=> Holds(requests, "join") \/ "join" = "join"
    BY <2>1, Forwarded
  <2>3. stream /\ ~joined => JoinFirst(requests', early')
    <3> SUFFICES ASSUME stream, ~joined PROVE JoinFirst(requests', early')
      OBVIOUS
    <3>1. JoinFirst(requests, early')
      BY <2>1 DEF JoinAhead, JoinFirst
    <3>2. Head(inbox).kind = "trickle" => Head(inbox).n \in early' \/ Holds(requests, "join")
      BY <2>1 DEF JoinAhead
    <3> QED
      BY <2>1, <3>1, <3>2, Forwarded
  <2> QED
    BY <2>1, <2>2, <2>3 DEF JoinAhead
<1>2. ASSUME ReadOffer PROVE JoinAhead'
  <2>1. /\ inbox # <<>> /\ Forwards /\ Head(inbox).kind = "offer"
        /\ UNCHANGED <<joined, stream>> /\ opened' = opened
        /\ early' = early
    BY <1>2 DEF ReadOffer, Reads, SocketOnly, peerVars, subVars
  <2>2. Holds(requests', "join") <=> Holds(requests, "join") \/ "offer" = "join"
    BY <2>1, Forwarded
  <2>3. stream /\ ~joined => JoinFirst(requests', early')
    <3> SUFFICES ASSUME stream, ~joined PROVE JoinFirst(requests', early')
      OBVIOUS
    <3>1. JoinFirst(requests, early')
      BY <2>1 DEF JoinAhead, JoinFirst
    <3>2. Head(inbox).kind = "trickle" => Head(inbox).n \in early' \/ Holds(requests, "join")
      BY <2>1 DEF JoinAhead
    <3> QED
      BY <2>1, <3>1, <3>2, Forwarded
  <2> QED
    BY <2>1, <2>2, <2>3 DEF JoinAhead
<1>3. ASSUME ReadAnswer PROVE JoinAhead'
  <2>1. /\ inbox # <<>> /\ Forwards /\ Head(inbox).kind = "answer"
        /\ UNCHANGED <<joined, stream>> /\ opened' = opened
        /\ early' = early
    BY <1>3 DEF ReadAnswer, Reads, SocketOnly, peerVars, subVars
  <2>2. Holds(requests', "join") <=> Holds(requests, "join") \/ "answer" = "join"
    BY <2>1, Forwarded
  <2>3. stream /\ ~joined => JoinFirst(requests', early')
    <3> SUFFICES ASSUME stream, ~joined PROVE JoinFirst(requests', early')
      OBVIOUS
    <3>1. JoinFirst(requests, early')
      BY <2>1 DEF JoinAhead, JoinFirst
    <3>2. Head(inbox).kind = "trickle" => Head(inbox).n \in early' \/ Holds(requests, "join")
      BY <2>1 DEF JoinAhead
    <3> QED
      BY <2>1, <3>1, <3>2, Forwarded
  <2> QED
    BY <2>1, <2>2, <2>3 DEF JoinAhead
<1>4. ASSUME ReadTrickle PROVE JoinAhead'
  <2>1. /\ inbox # <<>> /\ Forwards /\ Head(inbox).kind = "trickle"
        /\ UNCHANGED <<joined, stream>> /\ opened' = opened
        /\ early' = IF opened THEN early ELSE early \cup {Head(inbox).n}
    BY <1>4 DEF ReadTrickle, Reads, SocketOnly, peerVars, subVars
  <2>2. Holds(requests', "join") <=> Holds(requests, "join") \/ "trickle" = "join"
    BY <2>1, Forwarded
  <2>3. stream /\ ~joined => JoinFirst(requests', early')
    <3> SUFFICES ASSUME stream, ~joined PROVE JoinFirst(requests', early')
      OBVIOUS
    <3>1. JoinFirst(requests, early')
      BY <2>1 DEF JoinAhead, JoinFirst
    <3>2. Head(inbox).kind = "trickle" => Head(inbox).n \in early' \/ Holds(requests, "join")
      BY <2>1 DEF JoinAhead
    <3> QED
      BY <2>1, <3>1, <3>2, Forwarded
  <2> QED
    BY <2>1, <2>2, <2>3 DEF JoinAhead
<1>5. ASSUME Join PROVE JoinAhead'
  <2>1. joined' /\ opened' = opened /\ opened
    BY <1>5, JoinAnswered
  <2> QED
    BY <2>1 DEF JoinAhead
<1>6. ASSUME JoinAgain PROVE JoinAhead'
  <2>1. joined' /\ opened' = opened /\ opened
    BY <1>6, JoinAgainAnswered
  <2> QED
    BY <2>1 DEF JoinAhead
<1>7. ASSUME Offer PROVE JoinAhead'
  <2>1. /\ requests # <<>> /\ requests' = Tail(requests) /\ Head(requests).kind = "offer"
        /\ UNCHANGED <<opened, joined, early>> /\ stream
    BY <1>7, OfferAnswered
  <2> QED
    BY <2>1, Received DEF JoinAhead
<1>8. ASSUME TrickleRefused PROVE JoinAhead'
  <2>1. /\ requests # <<>> /\ requests' = Tail(requests) /\ Head(requests).kind = "trickle"
        /\ UNCHANGED <<opened, joined, early>> /\ stream
    BY <1>8 DEF TrickleRefused, Receives, SfuOnly, socketVars, peerVars
  <2> QED
    BY <2>1, Received DEF JoinAhead
<1>9. ASSUME Trickle PROVE JoinAhead'
  <2>1. /\ requests # <<>> /\ requests' = Tail(requests) /\ Head(requests).kind = "trickle"
        /\ UNCHANGED <<opened, joined, early>> /\ stream
    BY <1>9 DEF Trickle, Receives, SfuOnly, socketVars, peerVars
  <2> QED
    BY <2>1, Received DEF JoinAhead
<1>10. ASSUME Answer PROVE JoinAhead'
  <2>1. /\ requests # <<>> /\ requests' = Tail(requests) /\ Head(requests).kind = "answer"
        /\ UNCHANGED <<opened, joined, early>> /\ stream
    BY <1>10 DEF Answer, Receives, SfuOnly, socketVars, peerVars
  <2> QED
    BY <2>1, Received DEF JoinAhead
<1>11. ASSUME RecvFails PROVE JoinAhead'
  BY <1>11 DEF RecvFails, SfuOnly, browserVars, socketVars, peerVars, subVars,
    Receives, Sends, JoinAhead
<1>12. ASSUME NEW c \in Candidates,
         OnIceCandidate(c) \/ BrowserTrickles(c)
     PROVE JoinAhead'
  <2>1. UNCHANGED <<opened, joined, requests, stream, early>>
    BY <1>12 DEF OnIceCandidate, CallbackOnly, SfuOnly, browserVars, socketVars,
      subVars, Sends, BrowserTrickles, BrowserOnly, peerVars, historyVars
  <2> QED
    BY <2>1 DEF JoinAhead
<1>13. ASSUME 
         SubscriberCloses \/ PublisherCloses \/ BrowserJoins \/ BrowserOffers
      \/ BrowserIgnores \/ BrowserLeaves \/ ReadJoinFails \/ Negotiates
      \/ BrowserReads \/ BrowserAnswers \/ RespondJoin \/ RespondOffer \/ HandlerEnds
      \/ RelayReply \/ RelayOffer \/ RelayError \/ OnNegotiationNeeded
     PROVE JoinAhead'
  <2>1. UNCHANGED <<opened, joined, requests, stream, early>>
    BY <1>13 DEF SubscriberCloses, CallbackOnly, SfuOnly, browserVars, socketVars,
      subVars, Sends, PublisherCloses, BrowserJoins, Asks, BrowserOnly, peerVars,
      historyVars, BrowserOffers, BrowserIgnores, BrowserLeaves, ReadJoinFails, Reads,
      SocketOnly, Negotiates, BrowserReads, BrowserAnswers, RespondJoin, RespondOffer,
      HandlerEnds, RelayReply, RelayOnly, Relays, RelayOffer, RelayError,
      OnNegotiationNeeded
  <2> QED
    BY <2>1 DEF JoinAhead
<1>14. ASSUME UNCHANGED signalVars PROVE JoinAhead'
  <2>1. UNCHANGED <<opened, joined, requests, stream, early>>
    BY <1>14 DEF signalVars, browserVars, socketVars, peerVars, historyVars, subVars
  <2> QED
    BY <2>1 DEF JoinAhead
<1> QED
  BY <1>1, <1>2, <1>3, <1>4, <1>5, <1>6, <1>7, <1>8, <1>9, <1>10, <1>11, <1>12, <1>13,
    <1>14 DEF SignalNext, Event, Step

\* A description comes, and the candidates that waited for it go to the
\* connection.
LEMMA Described ==
  ASSUME SignalTypeOK, Kept, requests # <<>>, requests' = Tail(requests),
         Head(requests).kind # "trickle", stream, NEW t \in Transport,
         UNCHANGED <<trickled, inbox, early, refused, config>>,
         \/ stream' = FALSE
         \/ /\ described' = described \cup {t}
            /\ ice' = [ice EXCEPT ![t] = @ \cup candidates[t]]
            /\ candidates' = [candidates EXCEPT ![t] = {}]
  PROVE  Kept'
<1>1. \A d : Carries(requests, d) => Carries(requests', d)
  BY Received
<1>2. CASE /\ described' = described \cup {t}
           /\ ice' = [ice EXCEPT ![t] = @ \cup candidates[t]]
           /\ candidates' = [candidates EXCEPT ![t] = {}]
  <2>1. ice \in [Transport -> SUBSET Candidates] /\ candidates \in [Transport -> SUBSET Candidates]
    BY DEF SignalTypeOK
  <2>2. \A d \in trickled : d.of \in Transport
    BY SignallingAssumption DEF SignalTypeOK
  <2>3. \A u \in Transport : /\ ice[u] \subseteq ice'[u]
                             /\ u # t => candidates'[u] = candidates[u] /\ (u \in described' <=> u \in described)
                             /\ candidates[t] \subseteq ice'[t]
    BY <1>2, <2>1
  <2> QED
    BY <1>1, <2>2, <2>3 DEF Kept, Located
<1>3. CASE stream' = FALSE
  BY <1>3 DEF Kept
<1> QED
  BY <1>2, <1>3

\* A candidate is always somewhere.
LEMMA KeptStep == SignalInv /\ [SignalNext]_signalVars => Kept'
<1> SUFFICES ASSUME SignalInv, [SignalNext]_signalVars PROVE Kept'
  OBVIOUS
<1> SignalTypeOK /\ Kept
  BY DEF SignalInv
<1>1. ASSUME BrowserJoins PROVE Kept'
  <2>1. /\ inbox' = Append(inbox, Message("join", asked + 1)) /\ trickled' = trickled
        /\ UNCHANGED <<stream, requests, ice, candidates, described, refused, config, early>>
    BY <1>1 DEF BrowserJoins, Asks, BrowserOnly, peerVars, historyVars
  <2>2. Message("join", asked + 1) \in Request
    BY <1>1, RequestFields, HeadTailProperties DEF BrowserJoins, Asks, SignalTypeOK
  <2>3. \A d : Carries(inbox, d) => Carries(inbox', d)
    BY <2>1, <2>2, Asked
  <2> QED
    BY <2>1, <2>3 DEF Kept, Located
<1>2. ASSUME BrowserOffers PROVE Kept'
  <2>1. /\ inbox' = Append(inbox, Message("offer", asked + 1)) /\ trickled' = trickled
        /\ UNCHANGED <<stream, requests, ice, candidates, described, refused, config, early>>
    BY <1>2 DEF BrowserOffers, Asks, BrowserOnly, peerVars, historyVars
  <2>2. Message("offer", asked + 1) \in Request
    BY <1>2, RequestFields, HeadTailProperties DEF BrowserOffers, Asks, SignalTypeOK
  <2>3. \A d : Carries(inbox, d) => Carries(inbox', d)
    BY <2>1, <2>2, Asked
  <2> QED
    BY <2>1, <2>3 DEF Kept, Located
<1>3. ASSUME NEW c \in Candidates, BrowserTrickles(c) PROVE Kept'
  <2>1. /\ inbox' = Append(inbox, Message("trickle", c)) /\ trickled' = trickled \cup {c}
        /\ UNCHANGED <<stream, requests, ice, candidates, described, refused, config, early>>
    BY <1>3 DEF BrowserTrickles, BrowserOnly, peerVars, historyVars
  <2>2. Message("trickle", c) \in Request
    BY <1>3, RequestFields, HeadTailProperties DEF BrowserTrickles, SignalTypeOK
  <2>3. \A d : Carries(inbox, d) => Carries(inbox', d)
    BY <2>1, <2>2, Asked
  <2>4. Carries(inbox', c)
    BY <2>1, <2>2, Asked, MessageFields
  <2> QED
    BY <2>1, <2>3, <2>4 DEF Kept, Located
<1>4. ASSUME ReadJoinFails PROVE Kept'
  <2>1. /\ inbox # <<>> /\ inbox' = Tail(inbox) /\ Head(inbox).kind = "join"
        /\ UNCHANGED <<stream, trickled, requests, ice, candidates, described, refused, config, early>> /\ inbox \in Seq(Request)
    BY <1>4 DEF ReadJoinFails, Reads, SocketOnly, browserVars, peerVars, subVars, SignalTypeOK
  <2>2. \A d : Carries(inbox, d) => Carries(inbox', d)
    BY <2>1, Removed
  <2> QED
    BY <2>1, <2>2 DEF Kept, Located
<1>5. ASSUME BrowserAnswers PROVE Kept'
  <2>1. /\ inbox' = Append(inbox, Message("answer", Head(answering))) /\ trickled' = trickled
        /\ UNCHANGED <<stream, requests, ice, candidates, described, refused, config, early>>
    BY <1>5 DEF BrowserAnswers, BrowserOnly, peerVars, historyVars
  <2>2. Message("answer", Head(answering)) \in Request
    BY <1>5, RequestFields, HeadTailProperties DEF BrowserAnswers, SignalTypeOK
  <2>3. \A d : Carries(inbox, d) => Carries(inbox', d)
    BY <2>1, <2>2, Asked
  <2> QED
    BY <2>1, <2>3 DEF Kept, Located
<1>6. ASSUME ReadJoin PROVE Kept'
  <2>1. /\ inbox # <<>> /\ Forwards /\ early \subseteq early'
        /\ UNCHANGED <<stream, trickled, ice, candidates, described, refused, config>>
    BY <1>6 DEF ReadJoin, Reads, SocketOnly, browserVars, peerVars, subVars
  <2>2. \A d : Carries(inbox, d) \/ Carries(requests, d) => Carries(inbox', d) \/ Carries(requests', d)
    BY <2>1, Forwarded
  <2> QED
    BY <2>1, <2>2 DEF Kept, Located
<1>7. ASSUME ReadOffer PROVE Kept'
  <2>1. /\ inbox # <<>> /\ Forwards /\ early \subseteq early'
        /\ UNCHANGED <<stream, trickled, ice, candidates, described, refused, config>>
    BY <1>7 DEF ReadOffer, Reads, SocketOnly, browserVars, peerVars, subVars
  <2>2. \A d : Carries(inbox, d) \/ Carries(requests, d) => Carries(inbox', d) \/ Carries(requests', d)
    BY <2>1, Forwarded
  <2> QED
    BY <2>1, <2>2 DEF Kept, Located
<1>8. ASSUME ReadAnswer PROVE Kept'
  <2>1. /\ inbox # <<>> /\ Forwards /\ early \subseteq early'
        /\ UNCHANGED <<stream, trickled, ice, candidates, described, refused, config>>
    BY <1>8 DEF ReadAnswer, Reads, SocketOnly, browserVars, peerVars, subVars
  <2>2. \A d : Carries(inbox, d) \/ Carries(requests, d) => Carries(inbox', d) \/ Carries(requests', d)
    BY <2>1, Forwarded
  <2> QED
    BY <2>1, <2>2 DEF Kept, Located
<1>9. ASSUME ReadTrickle PROVE Kept'
  <2>1. /\ inbox # <<>> /\ Forwards /\ early \subseteq early'
        /\ UNCHANGED <<stream, trickled, ice, candidates, described, refused, config>>
    BY <1>9 DEF ReadTrickle, Reads, SocketOnly, browserVars, peerVars, subVars
  <2>2. \A d : Carries(inbox, d) \/ Carries(requests, d) => Carries(inbox', d) \/ Carries(requests', d)
    BY <2>1, Forwarded
  <2> QED
    BY <2>1, <2>2 DEF Kept, Located
<1>10. ASSUME Join PROVE Kept'
  <2>1. /\ requests # <<>> /\ requests' = Tail(requests) /\ Head(requests).kind # "trickle" /\ stream
        /\ UNCHANGED <<trickled, inbox, early, refused, config>>
    BY <1>10, JoinAnswered
  <2>2. \/ stream' = FALSE
        \/ /\ described' = described \cup {"publisher"}
           /\ ice' = [ice EXCEPT !["publisher"] = @ \cup candidates["publisher"]]
           /\ candidates' = [candidates EXCEPT !["publisher"] = {}]
    BY <1>10 DEF Join, AnswersOffer, Returns
  <2>3. "publisher" \in Transport
    BY DEF Transport
  <2> QED
    BY <2>1, <2>2, <2>3, Described
<1>11. ASSUME JoinAgain PROVE Kept'
  <2>1. /\ requests # <<>> /\ requests' = Tail(requests) /\ Head(requests).kind # "trickle" /\ stream
        /\ UNCHANGED <<trickled, inbox, early, refused, config>>
    BY <1>11, JoinAgainAnswered
  <2>2. \/ stream' = FALSE
        \/ /\ described' = described \cup {"publisher"}
           /\ ice' = [ice EXCEPT !["publisher"] = @ \cup candidates["publisher"]]
           /\ candidates' = [candidates EXCEPT !["publisher"] = {}]
    BY <1>11 DEF JoinAgain, AnswersOffer, Returns
  <2>3. "publisher" \in Transport
    BY DEF Transport
  <2> QED
    BY <2>1, <2>2, <2>3, Described
<1>12. ASSUME Offer PROVE Kept'
  <2>1. /\ requests # <<>> /\ requests' = Tail(requests) /\ Head(requests).kind # "trickle" /\ stream
        /\ UNCHANGED <<trickled, inbox, early, refused, config>>
    BY <1>12, OfferAnswered
  <2>2. \/ stream' = FALSE
        \/ /\ described' = described \cup {"publisher"}
           /\ ice' = [ice EXCEPT !["publisher"] = @ \cup candidates["publisher"]]
           /\ candidates' = [candidates EXCEPT !["publisher"] = {}]
    BY <1>12 DEF Offer, AnswersOffer, Returns
  <2>3. "publisher" \in Transport
    BY DEF Transport
  <2> QED
    BY <2>1, <2>2, <2>3, Described
<1>13. ASSUME TrickleRefused PROVE Kept'
  <2>1. /\ requests # <<>> /\ requests' = Tail(requests) /\ Head(requests).kind = "trickle"
        /\ stream /\ opened /\ refused' = refused \cup {Head(requests).n}
        /\ UNCHANGED <<stream, trickled, inbox, early, ice, candidates, described, config>>
        /\ ~(Has("publisher") /\ Has("subscriber"))
    BY <1>13 DEF TrickleRefused, Receives, SfuOnly, browserVars, socketVars, peerVars, subVars
  <2>2. Head(requests).n \in early \/ config # "both"
    <3>1. CASE config = "both"
      <4>1. ~joined
        BY <2>1, <3>1 DEF Has
      <4> QED
        BY <2>1, <4>1, Received DEF SignalInv, JoinAhead
    <3> QED
      BY <3>1
  <2>3. \A d : Carries(requests, d) => Carries(requests', d) \/ d = Head(requests).n
    BY <2>1, Received
  <2> QED
    BY <2>1, <2>2, <2>3 DEF Kept, Located
<1>14. ASSUME Trickle PROVE Kept'
  <2>1. /\ requests # <<>> /\ requests' = Tail(requests) /\ Head(requests).kind = "trickle" /\ stream
        /\ UNCHANGED <<trickled, inbox, early, described, refused, config>>
        /\ AddICECandidate(Head(requests).n)
    BY <1>14 DEF Trickle, Receives, SfuOnly, browserVars, socketVars
  <2>2. PICK c \in Candidates : c = Head(requests).n
    BY <2>1, Received, RequestFields
  <2>3. c.of \in Transport
    BY SignallingAssumption
  <2>4. \A d : Carries(requests, d) => Carries(requests', d) \/ d = c
    BY <2>1, <2>2, Received
  <2>5. \/ stream' = FALSE
        \/ /\ \A t \in Transport : ice[t] \subseteq ice'[t] /\ candidates[t] \subseteq candidates'[t]
           /\ c \in ice'[c.of] \/ (c \in candidates'[c.of] /\ c.of \notin described)
    <3>1. ice \in [Transport -> SUBSET Candidates] /\ candidates \in [Transport -> SUBSET Candidates]
      BY DEF SignalTypeOK
    <3> QED
      BY <2>1, <2>2, <2>3, <3>1 DEF AddICECandidate, Returns, subVars
  <2>6. \A d \in trickled : d.of \in Transport
    BY SignallingAssumption DEF SignalTypeOK
  <2> QED
    BY <2>1, <2>4, <2>5, <2>6 DEF Kept, Located
<1>15. ASSUME Answer PROVE Kept'
  <2>1. /\ requests # <<>> /\ requests' = Tail(requests) /\ Head(requests).kind # "trickle" /\ stream
        /\ UNCHANGED <<trickled, inbox, early, refused, config>>
    BY <1>15 DEF Answer, Receives, SfuOnly, browserVars, socketVars
  <2>2. \/ stream' = FALSE
        \/ /\ described' = described \cup {"subscriber"}
           /\ ice' = [ice EXCEPT !["subscriber"] = @ \cup candidates["subscriber"]]
           /\ candidates' = [candidates EXCEPT !["subscriber"] = {}]
    BY <1>15 DEF Answer
  <2>3. "subscriber" \in Transport
    BY DEF Transport
  <2> QED
    BY <2>1, <2>2, <2>3, Described
<1>16. ASSUME RecvFails PROVE Kept'
  BY <1>16 DEF RecvFails, SfuOnly, browserVars, socketVars, peerVars, subVars,
    Receives, Sends, Kept
<1>17. ASSUME NEW c \in Candidates,
         OnIceCandidate(c)
     PROVE Kept'
  <2>1. UNCHANGED <<stream, trickled, inbox, requests, ice, candidates, described,
      refused, early, config>>
    BY <1>17 DEF OnIceCandidate, CallbackOnly, SfuOnly, browserVars, socketVars,
      subVars, Sends
  <2> QED
    BY <2>1 DEF Kept, Located
<1>18. ASSUME 
         SubscriberCloses \/ PublisherCloses \/ BrowserIgnores \/ BrowserLeaves
      \/ Negotiates \/ BrowserReads \/ RespondJoin \/ RespondOffer \/ HandlerEnds
      \/ RelayReply \/ RelayOffer \/ RelayError \/ OnNegotiationNeeded
     PROVE Kept'
  <2>1. UNCHANGED <<stream, trickled, inbox, requests, ice, candidates, described,
      refused, early, config>>
    BY <1>18 DEF SubscriberCloses, CallbackOnly, SfuOnly, browserVars, socketVars,
      subVars, Sends, PublisherCloses, BrowserIgnores, BrowserOnly, peerVars,
      historyVars, BrowserLeaves, Negotiates, BrowserReads, RespondJoin, SocketOnly,
      RespondOffer, HandlerEnds, RelayReply, RelayOnly, Relays, RelayOffer, RelayError,
      OnNegotiationNeeded
  <2> QED
    BY <2>1 DEF Kept, Located
<1>19. ASSUME UNCHANGED signalVars PROVE Kept'
  <2>1. UNCHANGED <<stream, trickled, inbox, requests, ice, candidates, described,
      refused, early, config>>
    BY <1>19 DEF signalVars, browserVars, socketVars, peerVars, historyVars, subVars
  <2> QED
    BY <2>1 DEF Kept, Located
<1> QED
  BY <1>1, <1>2, <1>3, <1>4, <1>5, <1>6, <1>7, <1>8, <1>9, <1>10, <1>11, <1>12, <1>13,
    <1>14, <1>15, <1>16, <1>17, <1>18, <1>19 DEF SignalNext, Event, Step

\* A stream ends before its peer is closed.
LEMMA OpenStep == StreamOpen /\ [SignalNext]_signalVars => StreamOpen'
<1> SUFFICES ASSUME StreamOpen, [SignalNext]_signalVars PROVE StreamOpen'
  OBVIOUS
<1>1. ASSUME Join PROVE StreamOpen'
  BY <1>1 DEF Join, AnswersOffer, CanAnswer, Returns, NegotiationKept, SfuOnly,
    browserVars, socketVars, peerVars, subVars, Receives, Sends, StreamOpen
<1>2. ASSUME JoinAgain PROVE StreamOpen'
  BY <1>2 DEF JoinAgain, AnswersOffer, CanAnswer, Returns, NegotiationKept, SfuOnly,
    browserVars, socketVars, peerVars, subVars, Receives, Sends, StreamOpen
<1>3. ASSUME Offer PROVE StreamOpen'
  BY <1>3 DEF Offer, AnswersOffer, CanAnswer, Returns, NegotiationKept, SfuOnly,
    browserVars, socketVars, peerVars, subVars, Receives, Sends, StreamOpen
<1>4. ASSUME Trickle PROVE StreamOpen'
  BY <1>4 DEF Trickle, AddICECandidate, Returns, NegotiationKept, SfuOnly, browserVars,
    socketVars, peerVars, subVars, Receives, Sends, StreamOpen
<1>5. ASSUME Answer PROVE StreamOpen'
  BY <1>5 DEF Answer, SfuOnly, browserVars, socketVars, peerVars, subVars, Receives,
    Sends, StreamOpen
<1>6. ASSUME RecvFails PROVE StreamOpen'
  BY <1>6 DEF RecvFails, SfuOnly, browserVars, socketVars, peerVars, subVars, Receives,
    Sends, StreamOpen
<1>7. ASSUME NEW c \in Candidates,
         OnIceCandidate(c) \/ BrowserTrickles(c)
     PROVE StreamOpen'
  <2>1. UNCHANGED <<stream, closed>>
    BY <1>7 DEF OnIceCandidate, CallbackOnly, SfuOnly, browserVars, socketVars,
      subVars, Sends, BrowserTrickles, BrowserOnly, peerVars, historyVars
  <2> QED
    BY <2>1 DEF StreamOpen
<1>8. ASSUME 
         SubscriberCloses \/ PublisherCloses \/ BrowserJoins \/ BrowserOffers
      \/ BrowserIgnores \/ BrowserLeaves \/ ReadJoinFails \/ Negotiates
      \/ BrowserReads \/ BrowserAnswers \/ ReadJoin \/ ReadOffer \/ ReadAnswer
      \/ ReadTrickle \/ RespondJoin \/ RespondOffer \/ HandlerEnds \/ RelayReply
      \/ RelayOffer \/ RelayError \/ OnNegotiationNeeded \/ TrickleRefused
     PROVE StreamOpen'
  <2>1. UNCHANGED <<stream, closed>>
    BY <1>8 DEF SubscriberCloses, CallbackOnly, SfuOnly, browserVars, socketVars,
      subVars, Sends, PublisherCloses, BrowserJoins, Asks, BrowserOnly, peerVars,
      historyVars, BrowserOffers, BrowserIgnores, BrowserLeaves, ReadJoinFails, Reads,
      SocketOnly, Negotiates, BrowserReads, BrowserAnswers, ReadJoin, Forwards,
      ReadOffer, ReadAnswer, ReadTrickle, RespondJoin, RespondOffer, HandlerEnds,
      RelayReply, RelayOnly, Relays, RelayOffer, RelayError, OnNegotiationNeeded,
      TrickleRefused, Receives
  <2> QED
    BY <2>1 DEF StreamOpen
<1>9. ASSUME UNCHANGED signalVars PROVE StreamOpen'
  <2>1. UNCHANGED <<stream, closed>>
    BY <1>9 DEF signalVars, subVars
  <2> QED
    BY <2>1 DEF StreamOpen
<1> QED
  BY <1>1, <1>2, <1>3, <1>4, <1>5, <1>6, <1>7, <1>8, <1>9 DEF SignalNext, Event, Step

-----------------------------------------------------------------------------
(* One browser's session, from its web socket to its peer.                 *)

\* For any candidates, negotiations and events: the types of all that travels,
\* where a join, an offer and a candidate are, and whose reply is whose.
THEOREM SignallingInvariant == SignalSpec => []SignalInv
<1>1. SignalInit => SignalInv
  <2> SUFFICES ASSUME SignalInit PROVE SignalInv
    OBVIOUS
  <2>1. SignalTypeOK
    <3>1. \A S : <<>> \in Seq(S)
      BY EmptySeq
    <3>2. /\ candidates \in [Transport -> SUBSET Candidates]
          /\ ice \in [Transport -> SUBSET Candidates]
      BY DEF SignalInit
    <3> QED
      BY <3>1, <3>2 DEF SignalInit, SignalTypeOK
  <2>2. ~Holds(<<>>, "join") /\ ~Holds(<<>>, "offer") /\ ~Holds(<<>>, "joined")
        /\ ~Holds(<<>>, "refused") /\ ~Holds(<<>>, "answer")
    BY EmptyQueue
  <2>3. waits.kind = "nothing"
    BY MessageFields DEF SignalInit, Nothing
  <2>4. WaitsForSomething
    BY <2>3 DEF SignalInit, WaitsForSomething
  <2>5. OfferOnce
    BY <2>2, <2>3, EmptyQueue DEF SignalInit, OfferOnce
  <2>6. JoinOnce
    BY <2>2, <2>3, EmptyQueue DEF SignalInit, JoinOnce
  <2>7. OwnAnswer
    BY DEF SignalInit, OwnAnswer
  <2>8. JoinAhead
    BY <2>2, EmptyQueue DEF SignalInit, JoinAhead
  <2>9. Kept
    BY DEF SignalInit, Kept
  <2>10. StreamOpen
    BY DEF SignalInit, StreamOpen
  <2> QED
    BY <2>1, <2>4, <2>5, <2>6, <2>7, <2>8, <2>9, <2>10 DEF SignalInv
<1>2. SignalInv /\ [SignalNext]_signalVars => SignalInv'
  <2> SUFFICES ASSUME SignalInv, [SignalNext]_signalVars PROVE SignalInv'
    OBVIOUS
  <2>1. SignalTypeOK'
    BY SignalTypeStep DEF SignalInv
  <2> QED
    BY <2>1, WaitsStep, OfferStep, JoinStep, AnswersStep, AheadStep, KeptStep, OpenStep
       DEF SignalInv
<1> QED
  BY <1>1, <1>2, PTL DEF SignalSpec

\* While the SFU serves the stream, what the read loop is blocked on is a
\* request on its way or a reply on its way back.
THEOREM WaitsForSomethingHolds == SignalSpec => []WaitsForSomething
<1>1. SignalInv => WaitsForSomething
  BY DEF SignalInv
<1> QED
  BY <1>1, SignallingInvariant, PTL

\* A response carries the answer to the very request it responds to, whatever
\* else is sent, unless the browser joins twice.
THEOREM OwnAnswerHolds == SignalSpec => []OwnAnswer
<1>1. SignalInv => OwnAnswer
  BY DEF SignalInv
<1> QED
  BY <1>1, SignallingInvariant, PTL

\* No candidate of the browser is lost while its stream is served.
THEOREM CandidatesKeptHolds == SignalSpec => []CandidatesKept
<1>1. SignalInv => CandidatesKept
  BY DEF SignalInv, Kept, Located, Carries, CandidatesKept
<1> QED
  BY <1>1, SignallingInvariant, PTL

-----------------------------------------------------------------------------
(* The numbers of a kind of messages.  What Numbers computes is shown by   *)
(* the least position at which it would go wrong.                          *)

LEMMA Least ==
  ASSUME NEW T, T \subseteq Nat, T # {}
  PROVE  \E x \in T : \A y \in T : x <= y
<1> DEFINE R == OpToRel(<, Nat)
<1>1. IsWellFoundedOn(R, Nat)
  BY NatLessThanWellFounded
<1>2. \A x, y \in Nat : <<y, x>> \in R <=> y < x
  BY DEF OpToRel
<1> HIDE DEF R
<1>3. PICK x \in T : \A y \in T : ~ (<<y, x>> \in R)
  BY <1>1, WFMin
<1>4. x \in Nat /\ \A y \in T : y \in Nat /\ ~ (y < x)
  BY <1>2, <1>3
<1>5. \A y \in T : x <= y
  BY <1>4
<1> QED
  BY <1>5

\* The numbers among the first i messages, up to n.
FirstNumbersOf(f, q, k, n) ==
  f = [i \in 0 .. n |-> IF i = 0 THEN <<>>
                        ELSE IF q[i].kind = k THEN Append(f[i - 1], q[i].n)
                        ELSE f[i - 1]]

LEMMA FirstNumbersStep ==
  ASSUME NEW f, NEW q, NEW k, NEW n \in Nat, FirstNumbersOf(f, q, k, n)
  PROVE  /\ f[0] = <<>>
         /\ \A i \in 0 .. n - 1 : f[i + 1] = IF q[i + 1].kind = k THEN Append(f[i], q[i + 1].n)
                                             ELSE f[i]
<1>1. \A i \in 0 .. n : f[i] = IF i = 0 THEN <<>>
                               ELSE IF q[i].kind = k THEN Append(f[i - 1], q[i].n)
                               ELSE f[i - 1]
  BY DEF FirstNumbersOf
<1>2. \A i \in 0 .. n - 1 : i + 1 \in 0 .. n /\ i + 1 # 0 /\ (i + 1) - 1 = i
  OBVIOUS
<1> QED
  BY <1>1, <1>2

LEMMA FirstNumbersExist ==
  ASSUME NEW q, NEW k
  PROVE  \A n \in Nat : \E f : FirstNumbersOf(f, q, k, n)
<1> DEFINE T == {n \in Nat : ~ \E f : FirstNumbersOf(f, q, k, n)}
<1>1. SUFFICES ASSUME T # {} PROVE FALSE
  OBVIOUS
<1>2. PICK n \in T : \A m \in T : n <= m
  <2> HIDE DEF T
  <2>1. T \subseteq Nat
    BY DEF T
  <2> QED
    BY <1>1, <2>1, Least
<1>3. CASE n = 0
  <2> DEFINE f == [i \in 0 .. 0 |-> <<>>]
  <2>1. FirstNumbersOf(f, q, k, 0)
    BY DEF FirstNumbersOf
  <2> QED
    BY <1>3, <2>1
<1>4. CASE n # 0
  <2>1. n - 1 \in Nat /\ n \in Nat /\ n - 1 \notin T
    BY <1>2, <1>4
  <2>2. PICK f : FirstNumbersOf(f, q, k, n - 1)
    BY <2>1
  <2>3. \A i \in 0 .. n - 1 : f[i] = IF i = 0 THEN <<>>
                                     ELSE IF q[i].kind = k THEN Append(f[i - 1], q[i].n)
                                     ELSE f[i - 1]
    BY <2>2 DEF FirstNumbersOf
  <2> DEFINE last == IF q[n].kind = k THEN Append(f[n - 1], q[n].n) ELSE f[n - 1]
             g == [i \in 0 .. n |-> IF i = n THEN last ELSE f[i]]
  <2>4. /\ \A i \in 0 .. n - 1 : i \in 0 .. n /\ i # n /\ g[i] = f[i]
        /\ g[n] = last
        /\ \A i \in 0 .. n : i = n \/ i \in 0 .. n - 1
        /\ \A i \in 0 .. n : i # 0 => i - 1 \in 0 .. n - 1
    BY <2>1
  <2>5. \A i \in 0 .. n : g[i] = IF i = 0 THEN <<>>
                                 ELSE IF q[i].kind = k THEN Append(g[i - 1], q[i].n)
                                 ELSE g[i - 1]
    <3> HIDE DEF g
    <3> QED
      BY <1>4, <2>3, <2>4
  <2>6. FirstNumbersOf(g, q, k, n)
    <3>1. g = [i \in 0 .. n |-> g[i]]
      OBVIOUS
    <3> HIDE DEF g
    <3> QED
      BY <2>5, <3>1 DEF FirstNumbersOf
  <2> QED
    BY <2>6
<1> QED
  BY <1>3, <1>4

LEMMA NumbersIs ==
  ASSUME NEW q, NEW k, Len(q) \in Nat
  PROVE  \E f : FirstNumbersOf(f, q, k, Len(q)) /\ Numbers(q, k) = f[Len(q)]
<1> DEFINE f == CHOOSE f : FirstNumbersOf(f, q, k, Len(q))
<1>1. FirstNumbersOf(f, q, k, Len(q))
  BY FirstNumbersExist
<1>2. Numbers(q, k) = f[Len(q)]
  BY DEF Numbers, FirstNumbersOf
<1> QED
  BY <1>1, <1>2

\* They depend on the first messages only.
LEMMA FirstNumbersAgree ==
  ASSUME NEW q, NEW r, NEW k, NEW f, NEW g, NEW n \in Nat, NEW m \in Nat, NEW l \in Nat,
         FirstNumbersOf(f, q, k, n), FirstNumbersOf(g, r, k, m), l <= n, l <= m,
         \A i \in 1 .. l : q[i] = r[i]
  PROVE  f[l] = g[l]
<1> DEFINE T == {i \in 0 .. l : f[i] # g[i]}
<1>1. SUFFICES ASSUME T # {} PROVE FALSE
  OBVIOUS
<1>2. T \subseteq Nat
  OBVIOUS
<1>3. PICK i \in T : \A j \in T : i <= j
  <2> HIDE DEF T
  <2> QED
    BY <1>1, <1>2, Least
<1>4. i \in 0 .. l /\ f[i] # g[i] /\ f[0] = <<>> /\ g[0] = <<>>
  BY <1>3, FirstNumbersStep
<1>5. i - 1 \in 0 .. l /\ i - 1 \in 0 .. n - 1 /\ i - 1 \in 0 .. m - 1 /\ (i - 1) + 1 = i
      /\ i \in 1 .. l
  BY <1>4
<1>6. f[i - 1] = g[i - 1]
  BY <1>3, <1>5
<1>7. /\ f[i] = IF q[i].kind = k THEN Append(f[i - 1], q[i].n) ELSE f[i - 1]
      /\ g[i] = IF r[i].kind = k THEN Append(g[i - 1], r[i].n) ELSE g[i - 1]
  <2>1. f[(i - 1) + 1] = IF q[(i - 1) + 1].kind = k THEN Append(f[i - 1], q[(i - 1) + 1].n) ELSE f[i - 1]
    BY <1>5, FirstNumbersStep
  <2>2. g[(i - 1) + 1] = IF r[(i - 1) + 1].kind = k THEN Append(g[i - 1], r[(i - 1) + 1].n) ELSE g[i - 1]
    BY <1>5, FirstNumbersStep
  <2> QED
    BY <1>5, <2>1, <2>2
<1> QED
  BY <1>4, <1>5, <1>6, <1>7

\* They are numbers.
LEMMA FirstNumbersTyped ==
  ASSUME NEW S, NEW q \in Seq(S), NEW k, \A m \in S : m.kind = k => m.n \in Nat,
         NEW f, FirstNumbersOf(f, q, k, Len(q))
  PROVE  \A i \in 0 .. Len(q) : f[i] \in Seq(Nat)
<1> DEFINE T == {i \in 0 .. Len(q) : f[i] \notin Seq(Nat)}
<1>1. SUFFICES ASSUME T # {} PROVE FALSE
  OBVIOUS
<1>2. T \subseteq Nat /\ Len(q) \in Nat
  BY LenProperties
<1>3. PICK i \in T : \A j \in T : i <= j
  <2> HIDE DEF T
  <2> QED
    BY <1>1, <1>2, Least
<1>4. i \in 0 .. Len(q) /\ f[i] \notin Seq(Nat) /\ i # 0
  <2>1. f[0] = <<>>
    BY <1>2, FirstNumbersStep
  <2>2. <<>> \in Seq(Nat)
    OBVIOUS
  <2> QED
    BY <1>3, <2>1, <2>2
<1>5. i - 1 \in 0 .. Len(q) - 1 /\ (i - 1) + 1 = i /\ i \in 1 .. Len(q) /\ i - 1 \in 0 .. Len(q)
  BY <1>2, <1>4
<1>6. f[i - 1] \in Seq(Nat)
  BY <1>3, <1>5
<1>7. q[i] \in S
  BY <1>5, ElementOfSeq
<1>8. f[(i - 1) + 1] = IF q[(i - 1) + 1].kind = k THEN Append(f[i - 1], q[(i - 1) + 1].n) ELSE f[i - 1]
  BY <1>2, <1>5, FirstNumbersStep
<1>9. q[i].kind = k => Append(f[i - 1], q[i].n) \in Seq(Nat)
  BY <1>6, <1>7, AppendProperties
<1> QED
  BY <1>4, <1>5, <1>6, <1>8, <1>9

\* The numbers of a queue to which a message is added, ...
LEMMA NumbersAppended ==
  ASSUME NEW S, NEW q \in Seq(S), NEW m \in S, NEW k
  PROVE  Numbers(Append(q, m), k) = IF m.kind = k THEN Append(Numbers(q, k), m.n) ELSE Numbers(q, k)
<1> DEFINE r == Append(q, m)
<1>1. /\ Len(q) \in Nat /\ Len(r) = Len(q) + 1 /\ r[Len(q) + 1] = m
      /\ \A i \in 1 .. Len(q) : q[i] = r[i]
  BY AppendProperties, LenProperties
<1> HIDE DEF r
<1>2. PICK f : FirstNumbersOf(f, q, k, Len(q)) /\ Numbers(q, k) = f[Len(q)]
  BY <1>1, NumbersIs
<1>3. PICK g : FirstNumbersOf(g, r, k, Len(r)) /\ Numbers(r, k) = g[Len(r)]
  BY <1>1, NumbersIs
<1>4. f[Len(q)] = g[Len(q)]
  <2>1. Len(r) \in Nat /\ Len(q) <= Len(r) /\ Len(q) <= Len(q)
    BY <1>1
  <2> QED
    BY <1>1, <1>2, <1>3, <2>1, FirstNumbersAgree
<1>5. g[Len(q) + 1] = IF r[Len(q) + 1].kind = k THEN Append(g[Len(q)], r[Len(q) + 1].n) ELSE g[Len(q)]
  <2>1. Len(r) \in Nat /\ Len(q) \in 0 .. Len(r) - 1
    BY <1>1
  <2> QED
    BY <1>3, <2>1, FirstNumbersStep
<1>6. Numbers(r, k) = IF m.kind = k THEN Append(Numbers(q, k), m.n) ELSE Numbers(q, k)
  BY <1>1, <1>2, <1>3, <1>4, <1>5
<1> QED
  BY <1>6 DEF r

\* ... and of one from which the first is taken.
LEMMA NumbersTail ==
  ASSUME NEW S, NEW q \in Seq(S), q # <<>>, NEW k, \A m \in S : m.kind = k => m.n \in Nat
  PROVE  /\ Numbers(Tail(q), k) \in Seq(Nat)
         /\ Numbers(q, k) = IF Head(q).kind = k THEN <<Head(q).n>> \o Numbers(Tail(q), k)
                            ELSE Numbers(Tail(q), k)
<1> DEFINE r == Tail(q)
           pre(s) == IF q[1].kind = k THEN <<q[1].n>> \o s ELSE s
<1>1. /\ Len(q) \in Nat \ {0} /\ r \in Seq(S) /\ Len(r) = Len(q) - 1 /\ Head(q) = q[1]
      /\ \A i \in 1 .. Len(r) : r[i] = q[i + 1]
      /\ q[1] \in S
  BY HeadTailProperties, LenProperties, EmptySeq, ElementOfSeq
<1> HIDE DEF r
<1>2. PICK f : FirstNumbersOf(f, q, k, Len(q)) /\ Numbers(q, k) = f[Len(q)]
  BY <1>1, NumbersIs
<1>3. PICK g : FirstNumbersOf(g, r, k, Len(r)) /\ Numbers(r, k) = g[Len(r)]
  BY <1>1, NumbersIs
<1>4. \A i \in 0 .. Len(r) : g[i] \in Seq(Nat)
  BY <1>1, <1>3, FirstNumbersTyped
<1>5. \A s \in Seq(Nat), m \in Nat : q[1].kind = k =>
        Append(pre(s), m) = pre(Append(s, m)) /\ pre(<<>>) = Append(<<>>, q[1].n)
  <2> SUFFICES ASSUME NEW s \in Seq(Nat), NEW m \in Nat, q[1].kind = k
               PROVE  Append(pre(s), m) = pre(Append(s, m)) /\ pre(<<>>) = Append(<<>>, q[1].n)
    OBVIOUS
  <2>1. q[1].n \in Nat
    BY <1>1
  <2>2. <<q[1].n>> \in Seq(Nat) /\ <<m>> \in Seq(Nat) /\ <<q[1].n>> \o s \in Seq(Nat)
    BY <2>1, ConcatProperties
  <2>3. Append(<<q[1].n>> \o s, m) = (<<q[1].n>> \o s) \o <<m>> /\ Append(s, m) = s \o <<m>>
    BY <2>2, AppendIsConcat
  <2>4. (<<q[1].n>> \o s) \o <<m>> = <<q[1].n>> \o (s \o <<m>>)
    BY <2>2, ConcatAssociative
  <2>5. <<q[1].n>> \o <<>> = <<q[1].n>> /\ Append(<<>>, q[1].n) = <<q[1].n>>
    BY <2>2, ConcatEmptySeq
  <2> QED
    BY <2>3, <2>4, <2>5
<1>6. \A i \in 0 .. Len(r) : f[i + 1] = pre(g[i])
  <2> DEFINE T == {i \in 0 .. Len(r) : f[i + 1] # pre(g[i])}
  <2>1. SUFFICES ASSUME T # {} PROVE FALSE
    OBVIOUS
  <2>2. T \subseteq Nat
    BY <1>1
  <2>3. PICK i \in T : \A j \in T : i <= j
    <3> HIDE DEF T
    <3> QED
      BY <2>1, <2>2, Least
  <2>4. i \in 0 .. Len(r) /\ f[i + 1] # pre(g[i]) /\ i \in 0 .. Len(q) - 1
    BY <1>1, <2>3
  <2>5. f[i + 1] = IF q[i + 1].kind = k THEN Append(f[i], q[i + 1].n) ELSE f[i]
    BY <1>1, <1>2, <2>4, FirstNumbersStep
  <2>6. CASE i = 0
    <3>1. f[0] = <<>> /\ g[0] = <<>>
      BY <1>1, <1>2, <1>3, FirstNumbersStep
    <3>2. 0 + 1 = 1 /\ <<>> \in Seq(Nat)
      OBVIOUS
    <3>3. q[1].kind = k => pre(<<>>) = Append(<<>>, q[1].n)
      BY <1>5, <3>2
    <3> QED
      BY <2>4, <2>5, <2>6, <3>1, <3>2, <3>3
  <2>7. CASE i # 0
    <3>1. i - 1 \in 0 .. Len(r) - 1 /\ (i - 1) + 1 = i /\ i \in 1 .. Len(r) /\ i - 1 \in 0 .. Len(r)
          /\ i - 1 \notin T
      BY <1>1, <2>3, <2>4, <2>7
    <3>2. f[i] = pre(g[i - 1])
      BY <3>1
    <3>3. g[(i - 1) + 1] = IF r[(i - 1) + 1].kind = k THEN Append(g[i - 1], r[(i - 1) + 1].n) ELSE g[i - 1]
      BY <1>1, <1>3, <3>1, FirstNumbersStep
    <3>4. g[i] = IF q[i + 1].kind = k THEN Append(g[i - 1], q[i + 1].n) ELSE g[i - 1]
      BY <1>1, <3>1, <3>3
    <3>5. q[i + 1] \in S /\ g[i - 1] \in Seq(Nat)
      <4>1. i + 1 \in 1 .. Len(q)
        BY <1>1, <2>4
      <4> QED
        BY <1>4, <3>1, <4>1, ElementOfSeq
    <3>6. q[i + 1].kind = k => Append(pre(g[i - 1]), q[i + 1].n) = pre(Append(g[i - 1], q[i + 1].n))
      BY <1>5, <3>5
    <3> HIDE DEF pre
    <3> QED
      BY <2>4, <2>5, <3>2, <3>4, <3>6
  <2> QED
    BY <2>6, <2>7
<1>7. Numbers(q, k) = pre(Numbers(r, k)) /\ Numbers(r, k) \in Seq(Nat)
  <2>1. Len(r) \in 0 .. Len(r) /\ Len(r) + 1 = Len(q)
    BY <1>1
  <2> HIDE DEF pre
  <2> QED
    BY <1>2, <1>3, <1>4, <1>6, <2>1
<1> QED
  BY <1>1, <1>7 DEF r

LEMMA NumbersTyped ==
  ASSUME NEW S, NEW q \in Seq(S), NEW k, \A m \in S : m.kind = k => m.n \in Nat
  PROVE  Numbers(q, k) \in Seq(Nat)
<1>1. Len(q) \in Nat
  BY LenProperties
<1>2. PICK f : FirstNumbersOf(f, q, k, Len(q)) /\ Numbers(q, k) = f[Len(q)]
  BY <1>1, NumbersIs
<1> QED
  BY <1>1, <1>2, FirstNumbersTyped

LEMMA NumbersOfNone == \A k : Numbers(<<>>, k) = <<>>
<1> SUFFICES ASSUME NEW k PROVE Numbers(<<>>, k) = <<>>
  OBVIOUS
<1>1. Len(<<>>) = 0
  OBVIOUS
<1>2. PICK f : FirstNumbersOf(f, <<>>, k, Len(<<>>)) /\ Numbers(<<>>, k) = f[Len(<<>>)]
  BY <1>1, NumbersIs
<1> QED
  BY <1>1, <1>2, FirstNumbersStep

-----------------------------------------------------------------------------
(* The path of the negotiation's messages.  Every step of the session is a *)
(* step of PeerNegotiation, or none, when the offers and answers that are  *)
(* on the path, wherever they are, are taken as its two queues.            *)

\* Messages of a kind that carries numbers.
Numbered(S, k) == \A m \in S : m.kind = k => m.n \in Nat

LEMMA MessagesNumbered ==
  Numbered(Written, "offer") /\ Numbered(Reply, "offer") /\ Numbered(Request, "answer")
BY DEF Numbered, Written, Reply, Request

LEMMA PathTyped ==
  ASSUME SignalTypeOK
  PROVE  /\ answering \in Seq(Nat)
         /\ Numbers(outbox, "offer") \in Seq(Nat) /\ Numbers(replies, "offer") \in Seq(Nat)
         /\ Numbers(requests, "answer") \in Seq(Nat) /\ Numbers(inbox, "answer") \in Seq(Nat)
<1>1. /\ answering \in Seq(Nat) /\ outbox \in Seq(Written) /\ replies \in Seq(Reply)
      /\ requests \in Seq(Request) /\ inbox \in Seq(Request)
  BY DEF SignalTypeOK
<1> QED
  BY <1>1, NumbersTyped, MessagesNumbered DEF Numbered

\* A queue to which a message is added, ...
LEMMA Pushed ==
  ASSUME NEW S, NEW q \in Seq(S), NEW m \in S, NEW k
  PROVE  /\ m.kind = k => Numbers(Append(q, m), k) = Append(Numbers(q, k), m.n)
         /\ m.kind # k => Numbers(Append(q, m), k) = Numbers(q, k)
BY NumbersAppended

\* ... and one from which the first is taken.
LEMMA Popped ==
  ASSUME NEW S, NEW q \in Seq(S), q # <<>>, NEW k, Numbered(S, k)
  PROVE  /\ Numbers(Tail(q), k) \in Seq(Nat)
         /\ Head(q).kind = k => Head(q).n \in Nat /\ Numbers(q, k) = <<Head(q).n>> \o Numbers(Tail(q), k)
         /\ Head(q).kind # k => Numbers(q, k) = Numbers(Tail(q), k)
<1>1. Head(q) \in S
  BY HeadTailProperties
<1>2. /\ Numbers(Tail(q), k) \in Seq(Nat)
      /\ Numbers(q, k) = IF Head(q).kind = k THEN <<Head(q).n>> \o Numbers(Tail(q), k)
                         ELSE Numbers(Tail(q), k)
  BY NumbersTail DEF Numbered
<1> QED
  BY <1>1, <1>2 DEF Numbered

\* Two queues in a row: a number added, moved from one to the other, or taken.
LEMMA Rows ==
  ASSUME NEW a \in Seq(Nat), NEW b \in Seq(Nat), NEW n \in Nat
  PROVE  /\ a \o Append(b, n) = Append(a \o b, n)
         /\ Append(a, n) \o b = a \o (<<n>> \o b)
         /\ /\ (<<n>> \o a) \o b # <<>>
            /\ Head((<<n>> \o a) \o b) = n
            /\ Tail((<<n>> \o a) \o b) = a \o b
<1>1. <<n>> \in Seq(Nat) /\ a \o b \in Seq(Nat)
  BY ConcatProperties
<1>2. a \o Append(b, n) = Append(a \o b, n)
  <2>1. Append(b, n) = b \o <<n>> /\ Append(a \o b, n) = (a \o b) \o <<n>>
    BY <1>1, AppendIsConcat
  <2> QED
    BY <1>1, <2>1, ConcatAssociative
<1>3. Append(a, n) \o b = a \o (<<n>> \o b)
  <2>1. Append(a, n) = a \o <<n>>
    BY AppendIsConcat
  <2> QED
    BY <1>1, <2>1, ConcatAssociative
<1>4. (<<n>> \o a) \o b = <<n>> \o (a \o b)
  BY <1>1, ConcatAssociative
<1>5. ASSUME NEW s \in Seq(Nat)
      PROVE  <<n>> \o s # <<>> /\ Head(<<n>> \o s) = n /\ Tail(<<n>> \o s) = s
  <2> DEFINE r == <<n>> \o s
  <2>1. r \in Seq(Nat) /\ Len(r) = Len(s) + 1 /\ r[1] = n /\ Len(s) \in Nat
        /\ \A i \in 1 .. Len(s) : r[i + 1] = s[i]
    BY <1>1, ConcatProperties, LenProperties
  <2> HIDE DEF r
  <2>2. r # <<>> /\ Head(r) = n /\ Tail(r) \in Seq(Nat) /\ Len(Tail(r)) = Len(s)
        /\ \A i \in 1 .. Len(s) : Tail(r)[i] = s[i]
    BY <2>1, HeadTailProperties, EmptySeq
  <2>3. Tail(r) = s
    BY <2>2, SeqEqual
  <2> QED
    BY <2>2, <2>3 DEF r
<1> QED
  BY <1>1, <1>2, <1>3, <1>4, <1>5

-----------------------------------------------------------------------------
(* The path's two directions.                                              *)

LEMMA PathEnds ==
  ASSUME stream' = FALSE
  PROVE  OnTheWayOut' = <<>> /\ OnTheWayIn' = <<>>
BY DEF OnTheWayOut, OnTheWayIn

\* What leaves the numbers alone leaves the path alone.
LEMMA OutKept ==
  ASSUME UNCHANGED <<stream, answering>>,
         stream => /\ Numbers(outbox', "offer") = Numbers(outbox, "offer")
                   /\ Numbers(replies', "offer") = Numbers(replies, "offer")
  PROVE  OnTheWayOut' = OnTheWayOut
BY DEF OnTheWayOut

LEMMA InKept ==
  ASSUME stream' = stream,
         stream => /\ Numbers(requests', "answer") = Numbers(requests, "answer")
                   /\ Numbers(inbox', "answer") = Numbers(inbox, "answer")
  PROVE  OnTheWayIn' = OnTheWayIn
BY DEF OnTheWayIn

\* The SFU sends a message: an offer joins the others at the end.
LEMMA OutSent ==
  ASSUME SignalTypeOK, stream, UNCHANGED <<stream, answering, outbox>>,
         NEW m \in Reply, replies' = Append(replies, m)
  PROVE  OnTheWayOut' = IF m.kind = "offer" THEN Append(OnTheWayOut, m.n) ELSE OnTheWayOut
<1> DEFINE a == answering \o Numbers(outbox, "offer")
           c == Numbers(replies, "offer")
<1>1. a \in Seq(Nat) /\ c \in Seq(Nat)
  BY PathTyped, ConcatProperties
<1>2. /\ m.kind = "offer" => m.n \in Nat /\ Numbers(replies', "offer") = Append(c, m.n)
      /\ m.kind # "offer" => Numbers(replies', "offer") = c
  BY Pushed, MessagesNumbered DEF SignalTypeOK, Numbered
<1>3. OnTheWayOut' = a \o Numbers(replies', "offer") /\ OnTheWayOut = a \o c
  BY DEF OnTheWayOut
<1> HIDE DEF a, c
<1>4. ASSUME m.kind = "offer" PROVE a \o Append(c, m.n) = Append(a \o c, m.n)
  BY <1>1, <1>2, <1>4, Rows
<1> QED
  BY <1>2, <1>3, <1>4

\* The controller passes a message on.
LEMMA OutRelayed ==
  ASSUME SignalTypeOK, UNCHANGED <<stream, answering>>, replies # <<>>,
         replies' = Tail(replies),
         \/ outbox' = Append(outbox, Head(replies))
         \/ outbox' = outbox /\ Head(replies).kind # "offer"
  PROVE  OnTheWayOut' = OnTheWayOut
<1> DEFINE a == answering
           b == Numbers(outbox, "offer")
           c == Numbers(replies', "offer")
           n == Head(replies).n
<1>1. Head(replies) \in Reply /\ Head(replies) \in Written
  BY HeadTailProperties, ReplyFields DEF SignalTypeOK
<1>2. /\ c \in Seq(Nat)
      /\ Head(replies).kind = "offer" => n \in Nat /\ Numbers(replies, "offer") = <<n>> \o c
      /\ Head(replies).kind # "offer" => Numbers(replies, "offer") = c
  BY Popped, MessagesNumbered DEF SignalTypeOK
<1>3. /\ Head(replies).kind = "offer" => Numbers(outbox', "offer") = Append(b, n)
      /\ Head(replies).kind # "offer" => Numbers(outbox', "offer") = b
  <2>1. /\ Head(replies).kind = "offer" => Numbers(Append(outbox, Head(replies)), "offer") = Append(b, n)
        /\ Head(replies).kind # "offer" => Numbers(Append(outbox, Head(replies)), "offer") = b
    BY <1>1, Pushed DEF SignalTypeOK
  <2> QED
    BY <2>1
<1>4. a \in Seq(Nat) /\ b \in Seq(Nat) /\ a \o b \in Seq(Nat)
  BY PathTyped, ConcatProperties
<1>5. stream => /\ OnTheWayOut' = (a \o Numbers(outbox', "offer")) \o c
                /\ OnTheWayOut = (a \o b) \o Numbers(replies, "offer")
  BY DEF OnTheWayOut
<1>6. ~stream => OnTheWayOut' = OnTheWayOut
  BY DEF OnTheWayOut
<1> HIDE DEF a, b, c, n
<1>7. CASE Head(replies).kind = "offer"
  <2>1. a \o Append(b, n) = Append(a \o b, n)
    BY <1>2, <1>4, <1>7, Rows
  <2>2. Append(a \o b, n) \o c = (a \o b) \o (<<n>> \o c)
    BY <1>2, <1>4, <1>7, Rows
  <2>3. stream => /\ OnTheWayOut' = Append(a \o b, n) \o c
                  /\ OnTheWayOut = (a \o b) \o (<<n>> \o c)
    BY <1>2, <1>3, <1>5, <1>7, <2>1
  <2> QED
    BY <1>6, <2>2, <2>3
<1> QED
  BY <1>2, <1>3, <1>5, <1>6, <1>7

\* The browser reads one.
LEMMA OutRead ==
  ASSUME SignalTypeOK, BrowserReads
  PROVE  OnTheWayOut' = OnTheWayOut
<1> DEFINE a == answering
           b == Numbers(outbox', "offer")
           c == Numbers(replies, "offer")
           n == Head(outbox).n
<1>1. /\ outbox # <<>> /\ outbox' = Tail(outbox)
      /\ answering' = IF Head(outbox).kind = "offer" THEN Append(a, n) ELSE a
      /\ UNCHANGED <<stream, replies>>
  BY DEF BrowserReads, BrowserOnly
<1>2. /\ b \in Seq(Nat)
      /\ Head(outbox).kind = "offer" => n \in Nat /\ Numbers(outbox, "offer") = <<n>> \o b
      /\ Head(outbox).kind # "offer" => Numbers(outbox, "offer") = b
  BY <1>1, Popped, MessagesNumbered DEF SignalTypeOK
<1>3. a \in Seq(Nat)
  BY PathTyped
<1>4. /\ stream => /\ OnTheWayOut' = (answering' \o b) \o c
                   /\ OnTheWayOut = (a \o Numbers(outbox, "offer")) \o c
      /\ ~stream => OnTheWayOut' = OnTheWayOut
  BY <1>1 DEF OnTheWayOut
<1> HIDE DEF a, b, c, n
<1>5. Head(outbox).kind = "offer" => Append(a, n) \o b = a \o (<<n>> \o b)
  BY <1>2, <1>3, Rows
<1> QED
  BY <1>1, <1>2, <1>4, <1>5

\* The browser is done with the first offer.
LEMMA OutTaken ==
  ASSUME SignalTypeOK, stream, UNCHANGED <<stream, outbox, replies>>,
         answering # <<>>, answering' = Tail(answering)
  PROVE  /\ OnTheWayOut # <<>> /\ Head(answering) \in Nat
         /\ Head(OnTheWayOut) = Head(answering)
         /\ OnTheWayOut' = Tail(OnTheWayOut)
<1> DEFINE a == Tail(answering)
           b == Numbers(outbox, "offer")
           c == Numbers(replies, "offer")
           n == Head(answering)
<1>1. /\ answering \in Seq(Nat) /\ b \in Seq(Nat) /\ c \in Seq(Nat)
      /\ a \in Seq(Nat) /\ n \in Nat
  BY PathTyped, HeadTailProperties
<1>2. answering = <<n>> \o a
  <2>1. <<n>> \in Seq(Nat) /\ <<n>> \o a \in Seq(Nat)
    BY <1>1, ConcatProperties
  <2>2. /\ Len(answering) \in Nat \ {0} /\ answering[1] = n /\ Len(a) = Len(answering) - 1
        /\ \A i \in 1 .. Len(a) : a[i] = answering[i + 1]
    BY <1>1, HeadTailProperties, EmptySeq, LenProperties
  <2> DEFINE r == <<n>> \o a
  <2>3. Len(r) = Len(a) + 1 /\ r[1] = n /\ \A i \in 1 .. Len(a) : r[i + 1] = a[i]
    BY <1>1, <2>1, ConcatProperties, LenProperties
  <2> HIDE DEF a, n, r
  <2>4. \A i \in 1 .. Len(answering) : i = 1 \/ (i - 1 \in 1 .. Len(a) /\ (i - 1) + 1 = i)
    BY <2>2
  <2>5. \A i \in 1 .. Len(answering) : answering[i] = r[i]
    <3> SUFFICES ASSUME NEW i \in 1 .. Len(answering) PROVE answering[i] = r[i]
      OBVIOUS
    <3>1. CASE i = 1
      BY <2>2, <2>3, <3>1
    <3>2. CASE i - 1 \in 1 .. Len(a) /\ (i - 1) + 1 = i
      <4>1. a[i - 1] = answering[(i - 1) + 1] /\ r[(i - 1) + 1] = a[i - 1]
        BY <2>2, <2>3, <3>2
      <4> QED
        BY <3>2, <4>1
    <3> QED
      BY <2>4, <3>1, <3>2
  <2>6. Len(answering) = Len(r) /\ r \in Seq(Nat)
    BY <2>1, <2>2, <2>3 DEF r
  <2> QED
    BY <1>1, <2>5, <2>6, SeqEqual DEF r
<1>3. /\ OnTheWayOut = ((<<n>> \o a) \o b) \o c
      /\ OnTheWayOut' = (a \o b) \o c
  BY <1>2 DEF OnTheWayOut
<1>4. a \o b \in Seq(Nat) /\ (<<n>> \o a) \o b = <<n>> \o (a \o b)
  <2>1. <<n>> \in Seq(Nat)
    BY <1>1
  <2>2. a \in Seq(Nat) /\ b \in Seq(Nat)
    BY <1>1
  <2> HIDE DEF a, b, n
  <2>3. a \o b \in Seq(Nat)
    BY <2>2, ConcatProperties
  <2>4. (<<n>> \o a) \o b = <<n>> \o (a \o b)
    BY <2>1, <2>2, ConcatAssociative
  <2> QED
    BY <2>3, <2>4
<1> HIDE DEF a, b, c, n
<1>5. /\ (<<n>> \o (a \o b)) \o c # <<>>
      /\ Head((<<n>> \o (a \o b)) \o c) = n
      /\ Tail((<<n>> \o (a \o b)) \o c) = (a \o b) \o c
  <2> DEFINE s == a \o b
  <2>1. s \in Seq(Nat)
    BY <1>4
  <2> HIDE DEF s
  <2>2. /\ (<<n>> \o s) \o c # <<>> /\ Head((<<n>> \o s) \o c) = n
        /\ Tail((<<n>> \o s) \o c) = s \o c
    <3>1. c \in Seq(Nat) /\ n \in Nat
      BY <1>1
    <3> QED
      BY <2>1, <3>1, Rows
  <2> QED
    BY <2>2 DEF s
<1>6. OnTheWayOut = (<<n>> \o (a \o b)) \o c
  BY <1>3, <1>4
<1>7. n \in Nat /\ n = Head(answering)
  BY <1>1 DEF n
<1> QED
  BY <1>3, <1>5, <1>6, <1>7

\* The browser sends a request, ...
LEMMA InSent ==
  ASSUME SignalTypeOK, UNCHANGED <<stream, requests>>, NEW m \in Request,
         inbox' = Append(inbox, m)
  PROVE  /\ m.kind # "answer" => OnTheWayIn' = OnTheWayIn
         /\ stream /\ m.kind = "answer" => OnTheWayIn' = Append(OnTheWayIn, m.n)
<1> DEFINE d == Numbers(requests, "answer")
           e == Numbers(inbox, "answer")
<1>1. d \in Seq(Nat) /\ e \in Seq(Nat)
  BY PathTyped
<1>2. /\ m.kind = "answer" => m.n \in Nat /\ Numbers(inbox', "answer") = Append(e, m.n)
      /\ m.kind # "answer" => Numbers(inbox', "answer") = e
  BY Pushed, MessagesNumbered DEF SignalTypeOK, Numbered
<1>3. /\ stream => OnTheWayIn' = d \o Numbers(inbox', "answer") /\ OnTheWayIn = d \o e
      /\ ~stream => OnTheWayIn' = OnTheWayIn
  BY DEF OnTheWayIn
<1> HIDE DEF d, e
<1>4. ASSUME m.kind = "answer" PROVE d \o Append(e, m.n) = Append(d \o e, m.n)
  BY <1>1, <1>2, <1>4, Rows
<1> QED
  BY <1>2, <1>3, <1>4

\* ... the controller forwards it or drops it, ...
LEMMA InForwarded ==
  ASSUME SignalTypeOK, stream' = stream, inbox # <<>>, inbox' = Tail(inbox),
         \/ requests' = Append(requests, Head(inbox))
         \/ requests' = requests /\ Head(inbox).kind # "answer"
  PROVE  OnTheWayIn' = OnTheWayIn
<1> DEFINE d == Numbers(requests, "answer")
           e == Numbers(inbox', "answer")
           n == Head(inbox).n
<1>1. Head(inbox) \in Request
  BY HeadTailProperties DEF SignalTypeOK
<1>2. /\ e \in Seq(Nat)
      /\ Head(inbox).kind = "answer" => n \in Nat /\ Numbers(inbox, "answer") = <<n>> \o e
      /\ Head(inbox).kind # "answer" => Numbers(inbox, "answer") = e
  BY Popped, MessagesNumbered DEF SignalTypeOK
<1>3. /\ Head(inbox).kind = "answer" => Numbers(requests', "answer") = Append(d, n)
      /\ Head(inbox).kind # "answer" => Numbers(requests', "answer") = d
  <2>1. /\ Head(inbox).kind = "answer" => Numbers(Append(requests, Head(inbox)), "answer") = Append(d, n)
        /\ Head(inbox).kind # "answer" => Numbers(Append(requests, Head(inbox)), "answer") = d
    BY <1>1, Pushed DEF SignalTypeOK
  <2> QED
    BY <2>1
<1>4. d \in Seq(Nat)
  BY PathTyped
<1>5. /\ stream => /\ OnTheWayIn' = Numbers(requests', "answer") \o e
                   /\ OnTheWayIn = d \o Numbers(inbox, "answer")
      /\ ~stream => OnTheWayIn' = OnTheWayIn
  BY DEF OnTheWayIn
<1> HIDE DEF d, e, n
<1>6. Head(inbox).kind = "answer" => Append(d, n) \o e = d \o (<<n>> \o e)
  BY <1>2, <1>4, Rows
<1> QED
  BY <1>2, <1>3, <1>5, <1>6

\* ... and the SFU takes it.
LEMMA InTaken ==
  ASSUME SignalTypeOK, stream, UNCHANGED inbox, requests # <<>>, requests' = Tail(requests)
  PROVE  /\ Head(requests).kind # "answer" /\ stream' = stream => OnTheWayIn' = OnTheWayIn
         /\ Head(requests).kind = "answer" =>
              /\ OnTheWayIn # <<>> /\ Head(OnTheWayIn) = Head(requests).n
              /\ stream' = stream => OnTheWayIn' = Tail(OnTheWayIn)
<1> DEFINE d == Numbers(requests', "answer")
           e == Numbers(inbox, "answer")
           n == Head(requests).n
<1>1. /\ d \in Seq(Nat)
      /\ Head(requests).kind = "answer" => n \in Nat /\ Numbers(requests, "answer") = <<n>> \o d
      /\ Head(requests).kind # "answer" => Numbers(requests, "answer") = d
  BY Popped, MessagesNumbered DEF SignalTypeOK
<1>2. e \in Seq(Nat)
  BY PathTyped
<1>3. /\ OnTheWayIn = Numbers(requests, "answer") \o e
      /\ stream' = stream => OnTheWayIn' = d \o e
  BY DEF OnTheWayIn
<1>4. n = Head(requests).n
  OBVIOUS
<1> HIDE DEF d, e, n
<1>5. Head(requests).kind = "answer" =>
        /\ (<<n>> \o d) \o e # <<>> /\ Head((<<n>> \o d) \o e) = n
        /\ Tail((<<n>> \o d) \o e) = d \o e
  BY <1>1, <1>2, Rows
<1> QED
  BY <1>1, <1>3, <1>4, <1>5

-----------------------------------------------------------------------------
(* Every step of the session, seen from the negotiation.                   *)

LEMMA NothingSeen ==
  ASSUME UNCHANGED <<subVars, OnTheWayOut, OnTheWayIn>>
  PROVE  UNCHANGED Negotiation!vars
BY DEF Negotiation!vars, subVars

\* The handler of another request returns an error.
LEMMA FailureSeen ==
  ASSUME stream, Returns
  PROVE  Negotiation!HandlerFails
BY PathEnds DEF Returns, NegotiationKept, Negotiation!HandlerFails

\* The browser asks, its request is read and passed on.
LEMMA BrowserSeen ==
  ASSUME SignalTypeOK,
         BrowserJoins \/ BrowserOffers \/ (\E c \in Candidates : BrowserTrickles(c))
           \/ BrowserLeaves \/ BrowserReads
  PROVE  UNCHANGED Negotiation!vars
<1> SUFFICES UNCHANGED <<subVars, OnTheWayOut, OnTheWayIn>>
  BY NothingSeen
<1>1. UNCHANGED subVars
  BY DEF BrowserJoins, BrowserOffers, BrowserTrickles, BrowserLeaves, BrowserReads, BrowserOnly,
         subVars
<1>2. CASE BrowserJoins \/ BrowserOffers
  <2>1. asked + 1 \in Nat
    BY DEF SignalTypeOK
  <2>2. PICK m \in Request : m.kind # "answer" /\ inbox' = Append(inbox, m)
    BY <1>2, <2>1, RequestFields, MessageFields DEF BrowserJoins, BrowserOffers, Asks
  <2>3. UNCHANGED <<stream, answering, outbox, replies, requests>>
    BY <1>2 DEF BrowserJoins, BrowserOffers, BrowserOnly
  <2> QED
    BY <1>1, <2>2, <2>3, InSent, OutKept
<1>3. ASSUME NEW c \in Candidates, BrowserTrickles(c)
      PROVE  UNCHANGED <<subVars, OnTheWayOut, OnTheWayIn>>
  <2>1. Message("trickle", c) \in Request /\ Message("trickle", c).kind # "answer"
    BY RequestFields, MessageFields
  <2>2. UNCHANGED <<stream, answering, outbox, replies, requests>>
        /\ inbox' = Append(inbox, Message("trickle", c))
    BY <1>3 DEF BrowserTrickles, BrowserOnly
  <2> QED
    BY <1>1, <2>1, <2>2, InSent, OutKept
<1>4. CASE BrowserLeaves
  <2>1. UNCHANGED <<stream, answering, outbox, replies, requests, inbox>>
    BY <1>4 DEF BrowserLeaves, BrowserOnly
  <2> QED
    BY <1>1, <2>1, InKept, OutKept
<1>5. CASE BrowserReads
  <2>1. UNCHANGED <<stream, requests, inbox>>
    BY <1>5 DEF BrowserReads, BrowserOnly
  <2> QED
    BY <1>1, <1>5, <2>1, InKept, OutRead
<1> QED
  BY <1>2, <1>3, <1>4, <1>5

LEMMA ReadingSeen ==
  ASSUME SignalTypeOK, ReadJoinFails \/ ReadJoin \/ ReadOffer \/ ReadAnswer \/ ReadTrickle
  PROVE  UNCHANGED Negotiation!vars
<1> SUFFICES UNCHANGED <<subVars, OnTheWayOut, OnTheWayIn>>
  BY NothingSeen
<1>1. UNCHANGED <<subVars, answering, replies>> /\ inbox # <<>> /\ inbox' = Tail(inbox)
  BY DEF ReadJoinFails, ReadJoin, ReadOffer, ReadAnswer, ReadTrickle, Reads, Forwards,
     SocketOnly,
         browserVars
<1>2. stream' = stream
  BY <1>1 DEF subVars
<1>3. \/ requests' = Append(requests, Head(inbox))
      \/ requests' = requests /\ Head(inbox).kind # "answer"
  BY DEF ReadJoinFails, ReadJoin, ReadOffer, ReadAnswer, ReadTrickle, Reads, Forwards
<1>4. OnTheWayIn' = OnTheWayIn
  BY <1>1, <1>2, <1>3, InForwarded
<1>5. Numbers(outbox', "offer") = Numbers(outbox, "offer")
  <2>1. CASE ReadJoinFails
    <3>1. Head(inbox) \in Request /\ Head(inbox).kind = "join"
      BY <1>1, <2>1, HeadTailProperties DEF SignalTypeOK, ReadJoinFails, Reads
    <3>2. Message("error", Head(inbox).n) \in Written
      BY <3>1, RequestFields, ReplyFields
    <3>3. outbox' = Append(outbox, Message("error", Head(inbox).n)) /\ outbox \in Seq(Written)
      BY <2>1 DEF ReadJoinFails, SignalTypeOK
    <3> QED
      BY <3>2, <3>3, Pushed, MessageFields
  <2>2. CASE ReadJoin \/ ReadOffer \/ ReadAnswer \/ ReadTrickle
    <3>1. outbox' = outbox
      BY <2>2 DEF ReadJoin, ReadOffer, ReadAnswer, ReadTrickle, Forwards
    <3> QED
      BY <3>1
  <2> QED
    BY <2>1, <2>2
<1>6. OnTheWayOut' = OnTheWayOut
  BY <1>1, <1>2, <1>5, OutKept
<1> QED
  BY <1>1, <1>4, <1>6

\* The read loop responds or ends; the other goroutines pass messages on.
LEMMA LoopSeen ==
  ASSUME SignalTypeOK,
         RespondJoin \/ RespondOffer \/ HandlerEnds \/ RelayReply \/ RelayOffer \/ RelayError
  PROVE  UNCHANGED Negotiation!vars
<1> SUFFICES UNCHANGED <<subVars, OnTheWayOut, OnTheWayIn>>
  BY NothingSeen
<1>1. UNCHANGED <<subVars, answering, inbox, requests>>
  BY DEF RespondJoin, RespondOffer, HandlerEnds, RelayReply, RelayOffer, RelayError, RelayOnly,
         SocketOnly, browserVars
<1>2. stream' = stream
  BY <1>1 DEF subVars
<1>3. OnTheWayIn' = OnTheWayIn
  BY <1>1, <1>2, InKept
<1>4. CASE RelayReply \/ RelayOffer \/ RelayError
  <2>1. /\ replies # <<>> /\ replies' = Tail(replies)
        /\ \/ outbox' = Append(outbox, Head(replies))
           \/ outbox' = outbox /\ Head(replies).kind # "offer"
    BY <1>4 DEF RelayReply, RelayOffer, RelayError, Relays
  <2> QED
    BY <1>1, <1>2, <1>3, <2>1, OutRelayed
<1>5. CASE RespondJoin \/ RespondOffer
  <2>1. PICK m \in Written : m.kind = "response" /\ outbox' = Append(outbox, m)
    <3>1. PICK r : /\ r = Head(resJoin) \/ r = Head(resOffer)
                   /\ r.n \in Nat /\ outbox' = Append(outbox, Response(r))
                   /\ waits.kind \in {"join", "offer"}
      <4>1. resJoin # <<>> => Head(resJoin) \in [kind : {"joined", "refused"}, n : Nat]
        BY HeadTailProperties DEF SignalTypeOK
      <4>2. resOffer # <<>> => Head(resOffer) \in [kind : {"answer"}, n : Nat]
        BY HeadTailProperties DEF SignalTypeOK
      <4>3. CASE RespondJoin
        BY <4>1, <4>3 DEF RespondJoin
      <4>4. CASE RespondOffer
        BY <4>2, <4>4 DEF RespondOffer
      <4> QED
        BY <1>5, <4>3, <4>4
    <3>2. waits.n \in Nat
      BY <3>1 DEF SignalTypeOK, Nothing, Message
    <3>3. Response(r) \in Written /\ Response(r).kind = "response"
      BY <3>1, <3>2 DEF Response, Written
    <3> QED
      BY <3>1, <3>3
  <2>2. Numbers(outbox', "offer") = Numbers(outbox, "offer")
    BY <2>1, Pushed DEF SignalTypeOK
  <2>3. replies' = replies
    BY <1>5 DEF RespondJoin, RespondOffer
  <2> QED
    BY <1>1, <1>2, <1>3, <2>2, <2>3, OutKept
<1>6. CASE HandlerEnds
  <2>1. UNCHANGED <<outbox, replies>>
    BY <1>6 DEF HandlerEnds
  <2> QED
    BY <1>1, <1>2, <1>3, <2>1, OutKept
<1> QED
  BY <1>4, <1>5, <1>6

\* The requests of a stream that have nothing to do with the subscriber.
LEMMA OutAnswered ==
  ASSUME SignalTypeOK, stream, UNCHANGED <<stream, answering, outbox>>,
         \/ replies' = replies
         \/ \E m \in Reply : m.kind # "offer" /\ replies' = Append(replies, m)
         \/ \E l, m \in Reply : /\ l.kind # "offer" /\ m.kind # "offer"
                                /\ replies' = Append(Append(replies, l), m)
  PROVE  OnTheWayOut' = OnTheWayOut
<1>1. replies \in Seq(Reply) /\ \A m \in Reply : Append(replies, m) \in Seq(Reply)
  BY AppendProperties DEF SignalTypeOK
<1>2. ASSUME NEW q \in Seq(Reply), NEW m \in Reply, m.kind # "offer"
      PROVE  Numbers(Append(q, m), "offer") = Numbers(q, "offer")
  BY <1>2, Pushed
<1>3. Numbers(replies', "offer") = Numbers(replies, "offer")
  BY <1>1, <1>2
<1> QED
  BY <1>3, OutKept

LEMMA RequestSeen ==
  ASSUME SignalTypeOK, Join \/ JoinAgain \/ Offer \/ TrickleRefused \/ Trickle
  PROVE  Negotiation!HandlerFails \/ UNCHANGED Negotiation!vars
<1>1. /\ stream /\ UNCHANGED <<answering, outbox, inbox>>
      /\ requests # <<>> /\ requests' = Tail(requests) /\ Head(requests).kind # "answer"
  BY DEF Join, JoinAgain, Offer, TrickleRefused, Trickle, Receives, SfuOnly, browserVars,
     socketVars
<1>2. Returns \/ UNCHANGED subVars
  BY DEF Join, JoinAgain, Offer, TrickleRefused, Trickle, AnswersOffer, AddICECandidate
<1>3. CASE Returns
  BY <1>1, <1>3, FailureSeen
<1>4. CASE UNCHANGED subVars
  <2>1. stream' = stream
    BY <1>4 DEF subVars
  <2>2. OnTheWayIn' = OnTheWayIn
    BY <1>1, <2>1, InTaken
  <2>3. \/ replies' = replies
        \/ \E m \in Reply : m.kind # "offer" /\ replies' = Append(replies, m)
        \/ \E l, m \in Reply : /\ l.kind # "offer" /\ m.kind # "offer"
                               /\ replies' = Append(Append(replies, l), m)
    <3>1. CASE Join
      BY <1>1, <2>1, <3>1, JoinAnswered, MessageFields
    <3>2. CASE JoinAgain
      BY <1>1, <2>1, <3>2, JoinAgainAnswered, MessageFields
    <3>3. CASE Offer
      BY <1>1, <2>1, <3>3, OfferAnswered, MessageFields
    <3>4. CASE TrickleRefused
      <4>1. Message("error", 0) \in Reply /\ replies \in Seq(Reply)
        BY ReplyFields DEF SignalTypeOK
      <4>2. Sends(<<Message("error", 0)>>)
        BY <3>4 DEF TrickleRefused
      <4>3. replies' = Append(replies, Message("error", 0))
        BY <1>1, <4>1, <4>2, Sent
      <4> QED
        BY <4>1, <4>3, MessageFields
    <3>5. CASE Trickle
      BY <3>5 DEF Trickle
    <3> QED
      BY <3>1, <3>2, <3>3, <3>4, <3>5
  <2>4. OnTheWayOut' = OnTheWayOut
    BY <1>1, <2>1, <2>3, OutAnswered
  <2> QED
    BY <1>4, <2>2, <2>4, NothingSeen
<1> QED
  BY <1>2, <1>3, <1>4

\* Callbacks of the SFU that are none of the negotiation's.
LEMMA CallbackSeen ==
  ASSUME SignalTypeOK, PublisherCloses \/ \E c \in Candidates : OnIceCandidate(c)
  PROVE  UNCHANGED Negotiation!vars
<1> SUFFICES UNCHANGED <<subVars, OnTheWayOut, OnTheWayIn>>
  BY NothingSeen
<1>1. UNCHANGED <<subVars, answering, outbox, inbox, requests>>
  BY DEF PublisherCloses, OnIceCandidate, CallbackOnly, SfuOnly, browserVars, socketVars
<1>2. stream' = stream
  BY <1>1 DEF subVars
<1>3. OnTheWayIn' = OnTheWayIn
  BY <1>1, <1>2, InKept
<1>4. replies' = replies \/ \E m \in Reply : /\ m.kind # "offer" /\ stream
                                             /\ replies' = Append(replies, m)
  <2>1. ASSUME NEW c \in Candidates, OnIceCandidate(c)
        PROVE  replies' = replies \/ (stream /\ replies' = Append(replies, Message("trickle", c)))
    <3>1. Message("trickle", c) \in Reply /\ replies \in Seq(Reply)
      BY ReplyFields DEF SignalTypeOK
    <3>2. Sends(<<Message("trickle", c)>>)
      BY <2>1 DEF OnIceCandidate
    <3> QED
      BY <3>1, <3>2, Sent
  <2>2. \A c \in Candidates : Message("trickle", c) \in Reply /\ Message("trickle", c).kind # "offer"
    BY ReplyFields, MessageFields
  <2>3. PublisherCloses => replies' = replies
    BY DEF PublisherCloses
  <2> QED
    BY <2>1, <2>2, <2>3
<1>5. OnTheWayOut' = OnTheWayOut
  <2>1. CASE replies' = replies
    BY <1>1, <1>2, <2>1, OutKept
  <2>2. CASE \E m \in Reply : m.kind # "offer" /\ stream /\ replies' = Append(replies, m)
    BY <1>1, <1>2, <2>2, OutAnswered
  <2> QED
    BY <1>4, <2>1, <2>2
<1> QED
  BY <1>1, <1>3, <1>5

\* The browser answers an offer or drops it.
LEMMA AnswerSeen ==
  ASSUME SignalTypeOK, stream, BrowserAnswers \/ BrowserIgnores
  PROVE  Negotiation!ClientAnswers \/ Negotiation!ClientIgnores
<1>1. /\ answering # <<>> /\ answering' = Tail(answering)
      /\ UNCHANGED <<outbox, replies, requests, wanted, calls, announce, timer, runners,
                     remoteAnswerPending, negotiationPending, closed, pcState, offered, stream,
                     agreed>>
  BY DEF BrowserAnswers, BrowserIgnores, BrowserOnly
<1>2. /\ OnTheWayOut # <<>> /\ Head(answering) \in Nat
      /\ Head(OnTheWayOut) = Head(answering)
      /\ OnTheWayOut' = Tail(OnTheWayOut)
  BY <1>1, OutTaken
<1>3. CASE BrowserAnswers
  <2>1. Message("answer", Head(answering)) \in Request
    BY <1>2, RequestFields
  <2>2. inbox' = Append(inbox, Message("answer", Head(answering))) /\ ignored' = ignored
    BY <1>3 DEF BrowserAnswers
  <2>3. OnTheWayIn' = Append(OnTheWayIn, Message("answer", Head(answering)).n)
    BY <1>1, <2>1, <2>2, InSent, MessageFields
  <2>4. OnTheWayIn' = Append(OnTheWayIn, Head(OnTheWayOut))
    BY <1>2, <2>3, MessageFields
  <2> QED
    BY <1>1, <1>2, <2>2, <2>4 DEF Negotiation!ClientAnswers
<1>4. CASE BrowserIgnores
  <2>1. inbox' = inbox /\ ignored' = TRUE
    BY <1>4 DEF BrowserIgnores
  <2>2. OnTheWayIn' = OnTheWayIn
    BY <1>1, <2>1, InKept
  <2> QED
    BY <1>1, <1>2, <2>1, <2>2 DEF Negotiation!ClientIgnores
<1> QED
  BY <1>3, <1>4

\* Tracks change and the debounce timer fires.
LEMMA TimerSeen ==
  ASSUME Negotiates
  PROVE  \/ Negotiation!Change \/ Negotiation!NoChange
         \/ Negotiation!Negotiate \/ Negotiation!TimerFires
<1>1. /\ UNCHANGED <<answering, outbox, inbox, requests, replies>>
      /\ UNCHANGED <<remoteAnswerPending, negotiationPending, closed, pcState, offered, stream,
                     agreed, ignored>>
  BY DEF Negotiates, CallbackOnly, SfuOnly, browserVars, socketVars
<1>2. OnTheWayOut' = OnTheWayOut /\ OnTheWayIn' = OnTheWayIn
  BY <1>1, OutKept, InKept
<1>3. \/ /\ calls < MaxCalls /\ calls' = calls + 1 /\ announce' = announce + 1
         /\ wanted' = wanted \/ (pcState # "closed" /\ wanted' = wanted + 1)
         /\ UNCHANGED <<timer, runners>>
      \/ /\ announce > 0 /\ announce' = announce - 1 /\ timer' = TRUE
         /\ UNCHANGED <<calls, wanted, runners>>
      \/ /\ timer /\ timer' = FALSE /\ runners' = runners + 1
         /\ UNCHANGED <<calls, wanted, announce>>
  BY DEF Negotiates
<1> QED
  BY <1>1, <1>2, <1>3 DEF Negotiation!Change, Negotiation!NoChange, Negotiation!Negotiate,
     Negotiation!TimerFires

\* The timer's callback.
LEMMA CallbackOfTimerSeen ==
  ASSUME SignalTypeOK, OnNegotiationNeeded
  PROVE  Negotiation!OnNegotiationNeeded
<1>1. /\ UNCHANGED <<answering, outbox, inbox, requests, stream>>
      /\ runners > 0 /\ runners' = runners - 1
      /\ UNCHANGED <<wanted, calls, announce, timer, closed, stream, agreed, ignored>>
  BY DEF OnNegotiationNeeded, CallbackOnly, SfuOnly, browserVars, socketVars
<1>2. OnTheWayIn' = OnTheWayIn
  BY <1>1, InKept
<1>3. CASE replies' = replies /\ (remoteAnswerPending \/ pcState = "closed" \/ closed)
  <2>1. OnTheWayOut' = OnTheWayOut
    BY <1>1, <1>3, OutKept
  <2> QED
    BY <1>1, <1>2, <1>3, <2>1 DEF OnNegotiationNeeded, Negotiation!OnNegotiationNeeded
<1>4. CASE /\ ~remoteAnswerPending /\ pcState # "closed" /\ ~closed
           /\ Sends(<<Message("offer", wanted)>>)
  <2>1. Message("offer", wanted) \in Reply /\ replies \in Seq(Reply)
    BY ReplyFields DEF SignalTypeOK
  <2>2. replies' = IF stream THEN Append(replies, Message("offer", wanted)) ELSE replies
    BY <1>4, <2>1, Sent
  <2>3. OnTheWayOut' = IF stream THEN Append(OnTheWayOut, wanted) ELSE OnTheWayOut
    <3>1. CASE stream
      BY <1>1, <2>1, <2>2, <3>1, OutSent, MessageFields
    <3>2. CASE ~stream
      BY <1>1, <2>2, <3>2, OutKept
    <3> QED
      BY <3>1, <3>2
  <2> QED
    BY <1>1, <1>2, <1>4, <2>3 DEF OnNegotiationNeeded, Negotiation!OnNegotiationNeeded
<1> QED
  BY <1>3, <1>4 DEF OnNegotiationNeeded

\* The browser's answer arrives, ...
LEMMA DescriptionSeen ==
  ASSUME SignalTypeOK, stream, Answer
  PROVE  Negotiation!SetRemoteDescription
<1>1. /\ UNCHANGED <<answering, outbox, inbox, replies>>
      /\ requests # <<>> /\ requests' = Tail(requests) /\ Head(requests).kind = "answer"
      /\ UNCHANGED <<wanted, calls, announce, runners, closed, offered, ignored>>
  BY DEF Answer, Receives, SfuOnly, browserVars, socketVars
<1>2. /\ OnTheWayIn # <<>> /\ Head(OnTheWayIn) = Head(requests).n
      /\ stream' = stream => OnTheWayIn' = Tail(OnTheWayIn)
  BY <1>1, InTaken
<1>3. stream' = stream => OnTheWayOut' = OnTheWayOut
  BY <1>1, OutKept
<1>4. CASE pcState = "have-local-offer"
  BY <1>1, <1>2, <1>3, <1>4 DEF Answer, Negotiation!SetRemoteDescription
<1>5. CASE pcState # "have-local-offer"
  BY <1>1, <1>2, <1>5, PathEnds DEF Answer, Negotiation!SetRemoteDescription
<1> QED
  BY <1>4, <1>5

\* ... the subscriber's connection fails, the controller ends the stream.
LEMMA CloseSeen ==
  ASSUME StreamOpen, SubscriberCloses \/ RecvFails
  PROVE  Negotiation!SubscriberCloses \/ Negotiation!Close
<1>1. CASE SubscriberCloses
  <2>1. UNCHANGED <<answering, outbox, inbox, requests, replies, stream>>
    BY <1>1 DEF SubscriberCloses, CallbackOnly, SfuOnly, browserVars, socketVars
  <2>2. OnTheWayOut' = OnTheWayOut /\ OnTheWayIn' = OnTheWayIn
    BY <2>1, OutKept, InKept
  <2> QED
    BY <1>1, <2>2 DEF SubscriberCloses, Negotiation!SubscriberCloses
<1>2. CASE RecvFails
  BY <1>2, PathEnds DEF RecvFails, StreamOpen, Negotiation!Close
<1> QED
  BY <1>1, <1>2

LEMMA StepSeen ==
  SignalInv /\ [SignalNext]_signalVars => [Negotiation!Next]_(Negotiation!vars)
<1> SUFFICES ASSUME SignalInv, [SignalNext]_signalVars
             PROVE  Negotiation!Next \/ UNCHANGED Negotiation!vars
  OBVIOUS
<1> SignalTypeOK /\ StreamOpen
  BY DEF SignalInv
<1>1. CASE Event
  <2>1. \/ \E c \in Candidates : OnIceCandidate(c)
        \/ PublisherCloses
        \/ SubscriberCloses
        \/ BrowserJoins \/ BrowserOffers \/ (\E c \in Candidates : BrowserTrickles(c)) \/ BrowserLeaves
        \/ stream /\ BrowserIgnores
        \/ ReadJoinFails
    BY <1>1 DEF Event
  <2> QED
    BY <2>1, CallbackSeen, CloseSeen, BrowserSeen, AnswerSeen, ReadingSeen DEF Negotiation!Next
<1>2. CASE Step
  <2>1. \/ Negotiates
        \/ OnNegotiationNeeded
        \/ BrowserReads
        \/ stream /\ BrowserAnswers
        \/ ReadJoin \/ ReadOffer \/ ReadAnswer \/ ReadTrickle
        \/ RespondJoin \/ RespondOffer \/ HandlerEnds \/ RelayReply \/ RelayOffer \/ RelayError
        \/ Join \/ JoinAgain \/ Offer \/ TrickleRefused \/ Trickle
        \/ stream /\ Answer
        \/ RecvFails
    BY <1>2 DEF Step
  <2> QED
    BY <2>1, TimerSeen, CallbackOfTimerSeen, BrowserSeen, AnswerSeen, ReadingSeen, LoopSeen,
       RequestSeen, DescriptionSeen, CloseSeen DEF Negotiation!Next
<1>3. CASE UNCHANGED signalVars
  <2>1. UNCHANGED <<subVars, stream, answering, outbox, replies, requests, inbox>>
    BY <1>3 DEF signalVars, browserVars, socketVars, subVars
  <2> QED
    BY <2>1, OutKept, InKept, NothingSeen
<1> QED
  BY <1>1, <1>2, <1>3 DEF SignalNext

\* The session implements the negotiation, for any candidates and any number of
\* negotiations and events: on the whole path from a peer's lock to the browser
\* and back the messages behave as PeerNegotiation says.
THEOREM RefinesNegotiation == SignalSpec => ImplementsNegotiation
<1>1. SignalInit => Negotiation!Init
  <2> SUFFICES ASSUME SignalInit PROVE Negotiation!Init
    OBVIOUS
  <2>1. /\ answering = <<>> /\ outbox = <<>> /\ replies = <<>> /\ requests = <<>> /\ inbox = <<>>
    BY DEF SignalInit
  <2>2. OnTheWayOut = <<>> /\ OnTheWayIn = <<>>
    <3>1. <<>> \in Seq(Nat) /\ <<>> \o <<>> = <<>>
      BY EmptySeq, ConcatEmptySeq
    <3>2. <<>> \o <<>> \o <<>> = <<>>
      BY <3>1
    <3> QED
      BY <2>1, <3>1, <3>2, NumbersOfNone DEF OnTheWayOut, OnTheWayIn
  <2> QED
    BY <2>2 DEF SignalInit, Negotiation!Init
<1> QED
  BY <1>1, StepSeen, SignallingInvariant, PTL DEF SignalSpec, ImplementsNegotiation,
     Negotiation!Spec

\* What is proved of PeerNegotiation then holds of the whole path.
OnThePath == INSTANCE PeerNegotiationProofs WITH offers <- OnTheWayOut, answers <- OnTheWayIn

LEMMA SessionNegotiates == SignalSpec => OnThePath!Spec
<1>1. Negotiation!Init => OnThePath!Init
  BY DEF Negotiation!Init, OnThePath!Init
<1>2. [Negotiation!Next]_(Negotiation!vars) => [OnThePath!Next]_(OnThePath!vars)
  BY DEF Negotiation!vars, Negotiation!Next, Negotiation!Change, Negotiation!NoChange,
     Negotiation!Negotiate, Negotiation!TimerFires, Negotiation!OnNegotiationNeeded,
     Negotiation!ClientAnswers, Negotiation!ClientIgnores, Negotiation!SetRemoteDescription,
     Negotiation!HandlerFails, Negotiation!SubscriberCloses, Negotiation!Close,
     OnThePath!vars, OnThePath!Next, OnThePath!Change, OnThePath!NoChange,
     OnThePath!Negotiate, OnThePath!TimerFires, OnThePath!OnNegotiationNeeded,
     OnThePath!ClientAnswers, OnThePath!ClientIgnores, OnThePath!SetRemoteDescription,
     OnThePath!HandlerFails, OnThePath!SubscriberCloses, OnThePath!Close
<1> QED
  BY <1>1, <1>2, RefinesNegotiation, PTL
     DEF ImplementsNegotiation, Negotiation!Spec, OnThePath!Spec

\* At most one offer or answer is on its way between the peer's lock and the
\* browser, in whichever queue, channel or goroutine of the three parties.
THEOREM OneExchangeOnThePath == SignalSpec => [](Len(OnTheWayOut) + Len(OnTheWayIn) <= 1)
<1>1. MaxCalls \in Nat
  BY SignallingAssumption
<1>2. OnThePath!Spec => []OnThePath!OneExchange
  BY <1>1, OnThePath!OneExchangeHolds
<1>3. OnThePath!OneExchange => Len(OnTheWayOut) + Len(OnTheWayIn) <= 1
  BY DEF OnThePath!OneExchange, OnThePath!Outstanding
<1> QED
  BY <1>2, <1>3, SessionNegotiates, PTL

\* The session also keeps what Renegotiation promises: only sets of tracks that
\* were wanted are agreed on, and none older than the last.
THEOREM SessionRenegotiates == SignalSpec => OnThePath!ImplementsRenegotiation
<1>1. MaxCalls \in Nat
  BY SignallingAssumption
<1>2. OnThePath!Spec => OnThePath!ImplementsRenegotiation
  BY <1>1, OnThePath!RefinesRenegotiation
<1> QED
  BY <1>2, SessionNegotiates, PTL

-----------------------------------------------------------------------------
(* The speakers of an interval.                                            *)

\* Numbers that include with each the smaller ones are the first ones.
LEMMA FirstOnes ==
  ASSUME NEW n \in Nat, NEW L, L \subseteq 1 .. n,
         \A i, j \in 1 .. n : i < j /\ j \in L => i \in L
  PROVE  Cardinality(L) \in 0 .. n /\ L = 1 .. Cardinality(L)
<1> DEFINE T == {i \in 1 .. n + 1 : i \notin L}
<1>1. n + 1 \in T /\ T \subseteq Nat
  OBVIOUS
<1>2. PICK m \in T : \A y \in T : m <= y
  <2> HIDE DEF T
  <2> QED
    BY <1>1, Least
<1>3. m \in 1 .. n + 1 /\ m \notin L
  BY <1>2
<1>4. \A i \in 1 .. n : i < m => i \in L
  <2> SUFFICES ASSUME NEW i \in 1 .. n, i < m, i \notin L PROVE FALSE
    OBVIOUS
  <2>1. i \in T
    OBVIOUS
  <2> QED
    BY <1>2, <2>1
<1>5. L = 1 .. m - 1
  <2>1. ASSUME NEW j \in L PROVE j \in 1 .. m - 1
    <3>1. j \in 1 .. n /\ j # m
      BY <1>3
    <3>2. CASE j > m
      <4>1. m \in 1 .. n
        BY <1>3, <3>1, <3>2
      <4> QED
        BY <1>3, <3>1, <3>2, <4>1
    <3> QED
      BY <1>3, <3>1, <3>2
  <2>2. ASSUME NEW j \in 1 .. m - 1 PROVE j \in L
    BY <1>3, <1>4
  <2> QED
    BY <2>1, <2>2
<1>6. Cardinality(1 .. m - 1) = m - 1
  BY <1>3, FS_Interval
<1> QED
  BY <1>3, <1>5, <1>6

Entry == [id : AudioStream, sum : Nat, total : Nat]
OneEntry(list) == \A i, j \in DOMAIN list : list[i].id = list[j].id => i = j

\* A list no shorter than its IDs has each once.
LEMMA NotTwice ==
  ASSUME NEW list \in Seq(Entry), ~Twice(list)
  PROVE  OneEntry(list)
<1> DEFINE n == Len(list)
           D == 1 .. n
           f == [i \in D |-> list[i].id]
<1>1. n \in Nat /\ DOMAIN list = D
  BY LenProperties
<1>2. IsFiniteSet(D) /\ Cardinality(D) = n
  BY <1>1, FS_Interval
<1>3. f \in Surjection(D, Ids(list))
  BY <1>1 DEF Ids, Surjection
<1> HIDE DEF f, D, n
<1>4. /\ IsFiniteSet(Ids(list)) /\ Cardinality(Ids(list)) <= Cardinality(D)
      /\ Cardinality(Ids(list)) = Cardinality(D) <=> f \in Injection(D, Ids(list))
  BY <1>2, <1>3, FS_Surjection
<1>5. Cardinality(Ids(list)) \in Nat
  BY <1>4, FS_CardinalityType
<1>6. ~(Cardinality(Ids(list)) < n)
  BY DEF Twice, n
<1>7. Cardinality(Ids(list)) = Cardinality(D)
  BY <1>1, <1>2, <1>4, <1>5, <1>6
<1>8. IsInjective(f)
  BY <1>4, <1>7 DEF Injection
<1> QED
  BY <1>1, <1>8 DEF OneEntry, IsInjective, f

\* An order that Calc may sort in.
LEMMA OrderOf ==
  ASSUME NEW list \in Seq(Entry), NEW order \in Sorted(list)
  PROVE  /\ order \in [1 .. Len(list) -> 1 .. Len(list)]
         /\ \A i, j \in 1 .. Len(list) : order[i] = order[j] => i = j
         /\ \A k \in 1 .. Len(list) : \E i \in 1 .. Len(list) : order[i] = k
         /\ \A i, j \in 1 .. Len(list) : i < j => list[order[i]].total >= list[order[j]].total
<1> DEFINE D == 1 .. Len(list)
<1>1. Len(list) \in Nat /\ DOMAIN list = D /\ list \in [D -> Entry]
  BY LenProperties
<1>2. IsFiniteSet(D) /\ Cardinality(D) = Len(list)
  BY <1>1, FS_Interval
<1>3. /\ order \in [D -> D]
      /\ \A i, j \in D : i # j => order[i] # order[j]
      /\ \A i, j \in D : i < j => ~Before(list[order[j]], list[order[i]])
  <2>1. order \in SetToSeqs(D)
    BY <1>1 DEF Sorted
  <2>2. order \in [D -> D] /\ \A i, j \in D : i # j => order[i] # order[j]
    BY <1>2, <2>1 DEF SetToSeqs
  <2>3. \A i, j \in D : i < j => ~Before(list[order[j]], list[order[i]])
    BY <2>2 DEF Sorted
  <2> QED
    BY <2>2, <2>3
<1> HIDE DEF D
<1>4. order \in Surjection(D, D)
  <2>1. order \in Injection(D, D)
    BY <1>3 DEF Injection, IsInjective
  <2> QED
    BY <1>2, <2>1, FS_Injection
<1>5. \A k \in D : \E i \in D : order[i] = k
  BY <1>4 DEF Surjection
<1>6. ASSUME NEW i \in D, NEW j \in D, i < j
      PROVE  list[order[i]].total >= list[order[j]].total
  <2>1. list[order[i]] \in Entry /\ list[order[j]] \in Entry
    BY <1>1, <1>3
  <2>2. list[order[i]].total \in Nat /\ list[order[j]].total \in Nat
    BY <2>1 DEF Entry
  <2>3. ~(list[order[j]].total > list[order[i]].total)
    BY <1>3, <1>6 DEF Before
  <2> QED
    BY <2>2, <2>3
<1> QED
  BY <1>3, <1>5, <1>6 DEF D

\* An entry counts what was heard of its stream, unless the stream is listed
\* twice; of streams that are not listed nothing was heard.
AudioInv ==
  /\ streams \in Seq(Entry) /\ heard \in [AudioStream -> Nat] /\ twice \in BOOLEAN
  /\ told = previous
  /\ \A id \in AudioStream \ Ids(streams) : heard[id] = 0
  /\ ~twice => /\ OneEntry(streams)
               /\ \A i \in DOMAIN streams : streams[i].total = heard[streams[i].id]

LEMMA AudioStart == AudioInit => AudioInv
<1> SUFFICES ASSUME AudioInit PROVE AudioInv
  OBVIOUS
<1>1. streams = <<>> /\ DOMAIN streams = {} /\ streams \in Seq(Entry)
  BY EmptySeq DEF AudioInit
<1> QED
  BY <1>1 DEF AudioInit, AudioInv, OneEntry

LEMMA AddKeeps ==
  ASSUME AudioInv, NEW id \in AudioStream, AddStream(id)
  PROVE  AudioInv'
<1> DEFINE e == [id |-> id, sum |-> 0, total |-> 0]
           n == Len(streams)
<1>1. /\ streams' = Append(streams, e) /\ twice' = (twice \/ Twice(streams'))
      /\ UNCHANGED <<previous, told, heard>>
  BY DEF AddStream
<1>2. e \in Entry
  BY DEF Entry
<1>3. /\ n \in Nat /\ DOMAIN streams = 1 .. n
      /\ streams' \in Seq(Entry) /\ DOMAIN streams' = 1 .. n + 1
      /\ \A i \in 1 .. n : streams'[i] = streams[i]
      /\ streams'[n + 1] = e
  <2>1. streams \in Seq(Entry)
    BY DEF AudioInv
  <2> HIDE DEF e
  <2>2. /\ streams' \in Seq(Entry) /\ Len(streams') = n + 1
        /\ \A i \in 1 .. n : streams'[i] = streams[i]
        /\ streams'[n + 1] = e
    BY <1>1, <1>2, <2>1, AppendProperties
  <2>3. DOMAIN streams = 1 .. n /\ DOMAIN streams' = 1 .. Len(streams')
        /\ n \in Nat
    BY <2>1, <2>2, LenProperties
  <2> QED
    BY <2>2, <2>3
<1> HIDE DEF n
<1>4. Ids(streams') = Ids(streams) \cup {id}
  <2>1. \A i \in 1 .. n + 1 : i \in 1 .. n \/ i = n + 1
    BY <1>3
  <2>2. \A i \in 1 .. n : i \in 1 .. n + 1 /\ n + 1 \in 1 .. n + 1
    BY <1>3
  <2>3. n + 1 \in 1 .. n + 1 /\ streams'[n + 1].id = id
    BY <1>3
  <2>4. Ids(streams') \subseteq Ids(streams) \cup {id}
    <3> SUFFICES ASSUME NEW i \in 1 .. n + 1 PROVE streams'[i].id \in Ids(streams) \cup {id}
      BY <1>3 DEF Ids
    <3> QED
      BY <1>3, <2>1, <2>3 DEF Ids
  <2>5. Ids(streams) \cup {id} \subseteq Ids(streams')
    <3>1. id \in Ids(streams')
      BY <1>3, <2>3 DEF Ids
    <3>2. ASSUME NEW i \in 1 .. n PROVE streams[i].id \in Ids(streams')
      BY <1>3, <2>2 DEF Ids
    <3> QED
      BY <1>3, <3>1, <3>2 DEF Ids
  <2> QED
    BY <2>4, <2>5
<1>5. ASSUME ~twice'
      PROVE  /\ OneEntry(streams')
             /\ \A i \in DOMAIN streams' : streams'[i].total = heard[streams'[i].id]
  <2>1. ~twice /\ ~Twice(streams')
    BY <1>1, <1>5 DEF AudioInv
  <2>2. OneEntry(streams')
    BY <1>3, <2>1, NotTwice
  <2>3. id \notin Ids(streams)
    <3> SUFFICES ASSUME NEW i \in 1 .. n, streams[i].id = id PROVE FALSE
      BY <1>3 DEF Ids
    <3>1. i \in 1 .. n + 1 /\ n + 1 \in 1 .. n + 1 /\ i # n + 1
      BY <1>3
    <3>2. streams'[i].id = streams'[n + 1].id
      BY <1>3
    <3> QED
      BY <1>3, <2>2, <3>1, <3>2 DEF OneEntry
  <2>4. heard[id] = 0
    BY <2>3 DEF AudioInv
  <2>5. \A i \in 1 .. n : streams[i].total = heard[streams[i].id]
    BY <1>3, <2>1 DEF AudioInv
  <2>6. ASSUME NEW i \in 1 .. n + 1 PROVE streams'[i].total = heard[streams'[i].id]
    <3>1. CASE i \in 1 .. n
      BY <1>3, <2>5, <3>1
    <3>2. CASE i = n + 1
      BY <1>3, <2>4, <3>2
    <3> QED
      BY <1>3, <3>1, <3>2
  <2> QED
    BY <1>3, <2>2, <2>6
<1>6. twice' \in BOOLEAN
  BY <1>1 DEF AudioInv, Twice
<1> QED
  BY <1>1, <1>3, <1>4, <1>5, <1>6 DEF AudioInv

\* The stream removed leaves its place to the last one.
LEMMA RemoveKeeps ==
  ASSUME AudioInv, NEW id \in AudioStream, RemoveStream(id)
  PROVE  AudioInv'
<1> DEFINE n == Len(streams)
           k == First(Listed(id))
           moved == [streams EXCEPT ![k] = Last(streams)]
<1>1. /\ streams' = Front(moved)
      /\ heard' = [heard EXCEPT ![id] = 0]
      /\ UNCHANGED <<previous, told, twice>>
      /\ Listed(id) # {}
  BY DEF RemoveStream
<1>2. streams \in Seq(Entry) /\ n \in Nat /\ DOMAIN streams = 1 .. n
      /\ streams \in [1 .. n -> Entry]
  BY LenProperties DEF AudioInv
<1>3. k \in 1 .. n /\ streams[k].id = id
  <2>1. Listed(id) \subseteq Nat
    BY <1>2 DEF Listed
  <2>2. \E i \in Listed(id) : \A j \in Listed(id) : i <= j
    BY <1>1, <2>1, Least
  <2>3. k \in Listed(id)
    BY <2>2 DEF First
  <2> QED
    BY <1>2, <2>3 DEF Listed
<1> HIDE DEF k
<1>4. /\ moved \in Seq(Entry) /\ Len(moved) = n
      /\ \A j \in 1 .. n : moved[j] = IF j = k THEN streams[n] ELSE streams[j]
  <2>1. streams[n] \in Entry /\ Last(streams) = streams[n]
    BY <1>2, <1>3 DEF Last
  <2> QED
    BY <1>2, <1>3, <2>1, ExceptSeq
<1> HIDE DEF moved, n
<1>5. /\ streams' \in Seq(Entry) /\ DOMAIN streams' = 1 .. n - 1
      /\ \A j \in 1 .. n - 1 : streams'[j] = IF j = k THEN streams[n] ELSE streams[j]
  <2>1. \A i \in 1 .. n - 1 : moved[i] \in Entry
    BY <1>2, <1>4, ElementOfSeq
  <2>2. streams' = SubSeq(moved, 1, n - 1)
    BY <1>1, <1>4 DEF Front
  <2>3. /\ streams' \in Seq(Entry)
        /\ Len(streams') = IF 1 <= n - 1 THEN (n - 1) - 1 + 1 ELSE 0
        /\ \A i \in 1 .. (n - 1) - 1 + 1 : streams'[i] = moved[1 + i - 1]
    BY <1>2, <2>1, <2>2, SubSeqProperties
  <2>4. Len(streams') = n - 1
    BY <1>2, <1>3, <2>3
  <2>5. DOMAIN streams' = 1 .. n - 1
    BY <2>3, <2>4, LenProperties
  <2>6. \A i \in 1 .. n - 1 : streams'[i] = moved[i]
    BY <1>2, <2>3
  <2> QED
    BY <1>2, <1>4, <2>3, <2>5, <2>6
<1> DEFINE from(j) == IF j = k THEN n ELSE j
<1>6. \A j \in 1 .. n - 1 : /\ from(j) \in 1 .. n /\ from(j) # k
                            /\ streams'[j] = streams[from(j)]
  BY <1>2, <1>3, <1>5
<1>7. \A i, j \in 1 .. n - 1 : from(i) = from(j) => i = j
  BY <1>2, <1>3
<1>8. \A i \in 1 .. n : i # k => \E j \in 1 .. n - 1 : from(j) = i
  <2> SUFFICES ASSUME NEW i \in 1 .. n, i # k PROVE \E j \in 1 .. n - 1 : from(j) = i
    OBVIOUS
  <2>1. CASE i = n
    <3>1. k \in 1 .. n - 1 /\ from(k) = i
      BY <1>2, <1>3, <2>1
    <3> QED
      BY <3>1
  <2>2. CASE i # n
    <3>1. i \in 1 .. n - 1 /\ from(i) = i
      BY <1>2, <2>2
    <3> QED
      BY <3>1
  <2> QED
    BY <2>1, <2>2
<1> HIDE DEF from
<1>9. heard' \in [AudioStream -> Nat] /\ heard'[id] = 0
      /\ \A a \in AudioStream : a # id => heard'[a] = heard[a]
  BY <1>1 DEF AudioInv
<1>10. \A a \in AudioStream \ Ids(streams') : heard'[a] = 0
  <2> SUFFICES ASSUME NEW a \in AudioStream, a # id, a \in Ids(streams), a \notin Ids(streams')
               PROVE  FALSE
    BY <1>9 DEF AudioInv
  <2>1. PICK i \in 1 .. n : streams[i].id = a
    BY <1>2 DEF Ids
  <2>2. i # k
    BY <1>3, <2>1
  <2>3. PICK j \in 1 .. n - 1 : from(j) = i
    BY <1>8, <2>2
  <2>4. streams'[j].id = a
    BY <1>6, <2>1, <2>3
  <2> QED
    BY <1>5, <2>4 DEF Ids
<1>11. ASSUME ~twice
       PROVE  /\ OneEntry(streams')
              /\ \A i \in DOMAIN streams' : streams'[i].total = heard'[streams'[i].id]
  <2>1. /\ \A i, j \in 1 .. n : streams[i].id = streams[j].id => i = j
        /\ \A i \in 1 .. n : streams[i].total = heard[streams[i].id]
    BY <1>2, <1>11 DEF AudioInv, OneEntry
  <2>2. OneEntry(streams')
    BY <1>5, <1>6, <1>7, <2>1 DEF OneEntry
  <2>3. ASSUME NEW i \in 1 .. n - 1 PROVE streams'[i].total = heard'[streams'[i].id]
    <3>1. from(i) \in 1 .. n /\ from(i) # k /\ streams'[i] = streams[from(i)]
      BY <1>6
    <3>2. streams[from(i)].id # id /\ streams[from(i)].id \in AudioStream
      BY <1>2, <1>3, <2>1, <3>1 DEF Entry
    <3> QED
      BY <1>9, <2>1, <3>1, <3>2
  <2> QED
    BY <1>5, <2>2, <2>3
<1> QED
  BY <1>1, <1>5, <1>9, <1>10, <1>11 DEF AudioInv

\* A loud packet is counted in the first entry of its stream and in the history.
LEMMA ObserveKeeps ==
  ASSUME AudioInv, NEW id \in AudioStream, NEW level \in Levels, Observe(id, level)
  PROVE  AudioInv'
<1> DEFINE n == Len(streams)
           k == First(Listed(id))
<1>1. streams \in Seq(Entry) /\ n \in Nat /\ DOMAIN streams = 1 .. n
      /\ streams \in [1 .. n -> Entry]
  BY LenProperties DEF AudioInv
<1>2. k \in 1 .. n /\ streams[k].id = id
  <2>1. Listed(id) \subseteq Nat /\ Listed(id) # {}
    BY <1>1 DEF Listed, Observe
  <2>2. \E i \in Listed(id) : \A j \in Listed(id) : i <= j
    BY <2>1, Least
  <2>3. k \in Listed(id)
    BY <2>2 DEF First
  <2> QED
    BY <1>1, <2>3 DEF Listed
<1>3. UNCHANGED <<previous, told, twice>>
  BY DEF Observe
<1>4. CASE level <= Threshold
  <2>1. /\ streams' = [streams EXCEPT ![k].sum = @ + level, ![k].total = @ + 1]
        /\ heard' = [heard EXCEPT ![id] = @ + 1]
    BY <1>4 DEF Observe
  <2>2. level \in Nat
    BY AudioAssumption
  <2> HIDE DEF k, n
  <2> DEFINE e == [streams[k] EXCEPT !.sum = @ + level, !.total = @ + 1]
  <2>3. e \in Entry /\ e.id = id /\ e.total = streams[k].total + 1
    <3>1. streams[k] \in Entry
      BY <1>1, <1>2
    <3>2. streams[k].sum \in Nat /\ streams[k].total \in Nat
      BY <3>1 DEF Entry
    <3>3. /\ streams[k].sum + level \in Nat /\ streams[k].total + 1 \in Nat
          /\ streams[k].id \in AudioStream
      BY <2>2, <3>1, <3>2 DEF Entry
    <3>4. e = [id |-> streams[k].id, sum |-> streams[k].sum + level,
               total |-> streams[k].total + 1]
      <4> DEFINE half == [streams[k] EXCEPT !.sum = streams[k].sum + level]
      <4>1. half = [id |-> streams[k].id, sum |-> streams[k].sum + level,
                    total |-> streams[k].total]
        BY <3>1, <3>2, <3>3 DEF Entry
      <4>2. e = [half EXCEPT !.total = streams[k].total + 1]
        OBVIOUS
      <4> HIDE DEF e, half
      <4> QED
        BY <4>1, <4>2
    <3> QED
      BY <1>2, <3>3, <3>4 DEF Entry
  <2>4. streams' = [streams EXCEPT ![k] = e]
    BY <1>1, <1>2, <2>1
  <2> HIDE DEF e
  <2>5. /\ streams' \in Seq(Entry) /\ Len(streams') = n
        /\ \A j \in 1 .. n : streams'[j] = IF j = k THEN e ELSE streams[j]
    BY <1>1, <1>2, <2>3, <2>4, ExceptSeq DEF n
  <2>6. DOMAIN streams' = 1 .. n
    BY <2>5, LenProperties
  <2>7. \A j \in 1 .. n : streams'[j].id = streams[j].id
    BY <1>2, <2>3, <2>5
  <2>8. Ids(streams') = Ids(streams)
    BY <1>1, <2>6, <2>7 DEF Ids
  <2>9. heard' \in [AudioStream -> Nat] /\ heard'[id] = heard[id] + 1
        /\ \A a \in AudioStream : a # id => heard'[a] = heard[a]
    BY <2>1 DEF AudioInv
  <2>10. id \in Ids(streams)
    BY <1>1, <1>2 DEF Ids
  <2>11. \A a \in AudioStream \ Ids(streams') : heard'[a] = 0
    BY <2>8, <2>9, <2>10 DEF AudioInv
  <2>12. ASSUME ~twice
         PROVE  /\ OneEntry(streams')
                /\ \A i \in DOMAIN streams' : streams'[i].total = heard'[streams'[i].id]
    <3>1. /\ \A i, j \in 1 .. n : streams[i].id = streams[j].id => i = j
          /\ \A i \in 1 .. n : streams[i].total = heard[streams[i].id]
      BY <1>1, <2>12 DEF AudioInv, OneEntry
    <3>2. OneEntry(streams')
      BY <2>6, <2>7, <3>1 DEF OneEntry
    <3>3. ASSUME NEW i \in 1 .. n PROVE streams'[i].total = heard'[streams'[i].id]
      <4>1. CASE i = k
        BY <1>2, <2>3, <2>5, <2>9, <3>1, <4>1
      <4>2. CASE i # k
        <5>1. streams[i].id # id /\ streams[i].id \in AudioStream
          BY <1>1, <1>2, <3>1, <4>2 DEF Entry
        <5> QED
          BY <2>5, <2>9, <3>1, <4>2, <5>1
      <4> QED
        BY <4>1, <4>2
    <3> QED
      BY <2>6, <3>2, <3>3
  <2> QED
    BY <1>3, <2>5, <2>9, <2>11, <2>12 DEF AudioInv
<1>5. CASE ~(level <= Threshold)
  <2>1. UNCHANGED <<streams, heard>>
    BY <1>5 DEF Observe
  <2> QED
    BY <1>3, <2>1 DEF AudioInv, OneEntry, Ids
<1> QED
  BY <1>4, <1>5

\* What Calc works out: the loud entries come first in the order it sorts in.
LEMMA CalcOf ==
  ASSUME AudioInv, Calc
  PROVE  \E order \in Sorted(streams), m \in 0 .. Len(streams) :
           /\ streams' \in Seq(Entry) /\ DOMAIN streams' = 1 .. Len(streams)
           /\ \A i \in 1 .. Len(streams) : /\ streams'[i].id = streams[order[i]].id
                                           /\ streams'[i].total = 0
           /\ \A i \in 1 .. Len(streams) : i <= m <=> streams[order[i]].total >= Expected
           /\ previous' = [i \in 1 .. m |-> streams[order[i]].id]
           /\ told' = previous'
<1> DEFINE n == Len(streams)
<1>1. streams \in Seq(Entry) /\ n \in Nat /\ DOMAIN streams = 1 .. n
      /\ streams \in [1 .. n -> Entry] /\ told = previous
  BY LenProperties DEF AudioInv
<1>2. PICK order \in Sorted(streams) :
        LET sorted   == [i \in DOMAIN order |-> streams[order[i]]]
            loud     == {i \in DOMAIN sorted : sorted[i].total >= Expected}
            speakers == [i \in 1 .. Cardinality(loud) |-> sorted[i].id]
        IN /\ streams' = Reset(sorted)
           /\ previous' = speakers
           /\ told' = IF speakers = previous THEN told ELSE speakers
  BY DEF Calc
<1> DEFINE sorted == [i \in DOMAIN order |-> streams[order[i]]]
           loud   == {i \in DOMAIN sorted : sorted[i].total >= Expected}
           m      == Cardinality(loud)
<1>3. /\ streams' = Reset(sorted)
      /\ previous' = [i \in 1 .. m |-> sorted[i].id]
      /\ told' = previous'
  BY <1>1, <1>2
<1>4. /\ order \in [1 .. n -> 1 .. n]
      /\ \A i, j \in 1 .. n : i < j => streams[order[i]].total >= streams[order[j]].total
  BY <1>1, OrderOf
<1> HIDE DEF n
<1>5. DOMAIN sorted = 1 .. n /\ \A i \in 1 .. n : /\ sorted[i] = streams[order[i]]
                                                /\ sorted[i] \in Entry
  BY <1>1, <1>4
<1> HIDE DEF sorted
<1>6. \A i, j \in 1 .. n : i < j /\ j \in loud => i \in loud
  <2> SUFFICES ASSUME NEW i \in 1 .. n, NEW j \in 1 .. n, i < j, j \in loud PROVE i \in loud
    OBVIOUS
  <2>1. sorted[i].total \in Nat /\ sorted[j].total \in Nat
    BY <1>5 DEF Entry
  <2>2. sorted[i].total >= sorted[j].total /\ sorted[j].total >= Expected
    BY <1>4, <1>5
  <2> QED
    BY <1>5, <2>1, <2>2, AudioAssumption
<1>7. loud \subseteq 1 .. n
  BY <1>5
<1>8. m \in 0 .. n /\ loud = 1 .. m
  <2> HIDE DEF loud
  <2> QED
    BY <1>1, <1>6, <1>7, FirstOnes
<1>9. \A i \in 1 .. n : i <= m <=> streams[order[i]].total >= Expected
  <2> SUFFICES ASSUME NEW i \in 1 .. n
               PROVE  i <= m <=> streams[order[i]].total >= Expected
    OBVIOUS
  <2>1. i \in loud <=> streams[order[i]].total >= Expected
    BY <1>5
  <2> HIDE DEF m, loud
  <2>2. i \in 1 .. m <=> i <= m
    BY <1>1, <1>8
  <2> QED
    BY <1>8, <2>1, <2>2
<1> HIDE DEF m, loud
<1>10. previous' = [i \in 1 .. m |-> streams[order[i]].id]
  <2>1. \A i \in 1 .. m : i \in 1 .. n
    BY <1>1, <1>8
  <2> QED
    BY <1>3, <1>5, <2>1
<1>11. /\ DOMAIN streams' = 1 .. n
       /\ \A i \in 1 .. n : /\ streams'[i].id = streams[order[i]].id
                            /\ streams'[i].total = 0
                            /\ streams'[i] \in Entry
  <2>1. streams' = [i \in 1 .. n |-> [sorted[i] EXCEPT !.sum = 0, !.total = 0]]
    BY <1>3, <1>5 DEF Reset
  <2>2. \A i \in 1 .. n : LET r == [sorted[i] EXCEPT !.sum = 0, !.total = 0]
                          IN r \in Entry /\ r.id = sorted[i].id /\ r.total = 0
    BY <1>5 DEF Entry
  <2> QED
    BY <1>5, <2>1, <2>2
<1>12. streams' \in Seq(Entry)
  <2>1. streams' = [i \in 1 .. n |-> streams'[i]]
    BY <1>3, <1>5, <1>11 DEF Reset
  <2> QED
    BY <1>1, <1>11, <2>1, IsASeq
<1> QED
  BY <1>3, <1>8, <1>9, <1>10, <1>11, <1>12 DEF n

\* Calc starts an interval: nothing is counted or heard.
LEMMA CalcKeeps ==
  ASSUME AudioInv, Calc
  PROVE  AudioInv'
<1> DEFINE n == Len(streams)
<1>1. streams \in Seq(Entry) /\ n \in Nat /\ DOMAIN streams = 1 .. n
      /\ streams \in [1 .. n -> Entry]
  BY LenProperties DEF AudioInv
<1>2. PICK order \in Sorted(streams) :
           /\ streams' \in Seq(Entry) /\ DOMAIN streams' = 1 .. n
           /\ \A i \in 1 .. n : /\ streams'[i].id = streams[order[i]].id
                                /\ streams'[i].total = 0
           /\ told' = previous'
  BY CalcOf
<1>3. /\ order \in [1 .. n -> 1 .. n]
      /\ \A i, j \in 1 .. n : order[i] = order[j] => i = j
  BY <1>1, OrderOf
<1> HIDE DEF n
<1>4. heard' = [a \in AudioStream |-> 0] /\ twice' = Twice(streams)
  BY DEF Calc
<1>5. ASSUME ~twice'
      PROVE  /\ OneEntry(streams')
             /\ \A i \in DOMAIN streams' : streams'[i].total = heard'[streams'[i].id]
  <2>1. OneEntry(streams)
    BY <1>1, <1>4, <1>5, NotTwice
  <2>2. OneEntry(streams')
    <3> SUFFICES ASSUME NEW i \in 1 .. n, NEW j \in 1 .. n, streams'[i].id = streams'[j].id
                 PROVE  i = j
      BY <1>2 DEF OneEntry
    <3>1. order[i] \in 1 .. n /\ order[j] \in 1 .. n
      BY <1>3
    <3>2. streams[order[i]].id = streams[order[j]].id
      BY <1>2
    <3>3. order[i] = order[j]
      BY <1>1, <2>1, <3>1, <3>2 DEF OneEntry
    <3> QED
      BY <1>3, <3>3
  <2>3. ASSUME NEW i \in 1 .. n PROVE streams'[i].total = heard'[streams'[i].id]
    <3>1. streams[order[i]].id \in AudioStream
      BY <1>1, <1>3 DEF Entry
    <3> QED
      BY <1>2, <1>4, <3>1
  <2> QED
    BY <1>2, <2>2, <2>3
<1>6. twice' \in BOOLEAN
  BY <1>4 DEF Twice
<1> QED
  BY <1>2, <1>4, <1>5, <1>6 DEF AudioInv

LEMMA AudioInvariant == AudioSpec => []AudioInv
<1>1. AudioInit => AudioInv
  BY AudioStart
<1>2. AudioInv /\ [AudioNext]_audioVars => AudioInv'
  <2> SUFFICES ASSUME AudioInv, [AudioNext]_audioVars PROVE AudioInv'
    OBVIOUS
  <2>1. ASSUME NEW id \in AudioStream, AddStream(id) PROVE AudioInv'
    BY <2>1, AddKeeps
  <2>2. ASSUME NEW id \in AudioStream, RemoveStream(id) PROVE AudioInv'
    BY <2>2, RemoveKeeps
  <2>3. ASSUME NEW id \in AudioStream, NEW level \in Levels, Observe(id, level) PROVE AudioInv'
    BY <2>3, ObserveKeeps
  <2>4. CASE Calc
    BY <2>4, CalcKeeps
  <2>5. CASE UNCHANGED audioVars
    BY <2>5 DEF AudioInv, OneEntry, Ids, audioVars
  <2> QED
    BY <2>1, <2>2, <2>3, <2>4, <2>5 DEF AudioNext
<1> QED
  BY <1>1, <1>2, PTL DEF AudioSpec

\* Calc tells the streams that were heard often enough, the loudest first.
LEMMA CalcTells ==
  ASSUME AudioInv, Calc, ~twice
  PROVE  TellsSpeakers
<1> DEFINE n == Len(streams)
<1>1. /\ streams \in Seq(Entry) /\ n \in Nat /\ DOMAIN streams = 1 .. n
      /\ streams \in [1 .. n -> Entry]
      /\ \A i \in 1 .. n : streams[i].total = heard[streams[i].id]
  BY LenProperties DEF AudioInv
<1>2. PICK order \in Sorted(streams), m \in 0 .. n :
           /\ \A i \in 1 .. n : i <= m <=> streams[order[i]].total >= Expected
           /\ previous' = [i \in 1 .. m |-> streams[order[i]].id]
           /\ told' = previous'
  BY CalcOf
<1>3. /\ order \in [1 .. n -> 1 .. n]
      /\ \A k \in 1 .. n : \E i \in 1 .. n : order[i] = k
      /\ \A i, j \in 1 .. n : i < j => streams[order[i]].total >= streams[order[j]].total
  BY <1>1, OrderOf
<1> HIDE DEF n
<1>4. spoke' = [id \in {a \in Ids(streams) : heard[a] >= Expected} |-> heard[id]]
  BY DEF Calc
<1>5. /\ DOMAIN spoke' = {a \in Ids(streams) : heard[a] >= Expected}
      /\ \A id \in DOMAIN spoke' : spoke'[id] = heard[id]
  BY <1>4
<1>6. DOMAIN told' = 1 .. m /\ \A i \in 1 .. m : /\ told'[i] = streams[order[i]].id
                                                /\ i \in 1 .. n
  BY <1>1, <1>2
<1>7. \A i \in 1 .. m : /\ told'[i] \in DOMAIN spoke'
                        /\ spoke'[told'[i]] = streams[order[i]].total
  <2> SUFFICES ASSUME NEW i \in 1 .. m
               PROVE  /\ told'[i] \in DOMAIN spoke'
                      /\ spoke'[told'[i]] = streams[order[i]].total
    OBVIOUS
  <2>1. i \in 1 .. n /\ i <= m
    BY <1>6, <1>2
  <2>2. order[i] \in 1 .. n /\ streams[order[i]].total >= Expected
    BY <1>2, <1>3, <2>1
  <2>3. told'[i] \in Ids(streams) /\ heard[told'[i]] = streams[order[i]].total
    BY <1>1, <1>6, <2>2 DEF Ids
  <2> QED
    BY <1>5, <2>2, <2>3
<1>8. ASSUME NEW a \in DOMAIN spoke' PROVE \E i \in 1 .. m : told'[i] = a
  <2>1. a \in Ids(streams) /\ heard[a] >= Expected
    BY <1>5
  <2>2. PICK k \in 1 .. n : streams[k].id = a
    BY <1>1, <2>1 DEF Ids
  <2>3. PICK i \in 1 .. n : order[i] = k
    BY <1>3
  <2>4. i <= m
    BY <1>1, <1>2, <2>1, <2>2, <2>3
  <2>5. i \in 1 .. m
    BY <2>4, <1>1
  <2> QED
    BY <1>6, <2>2, <2>3, <2>5
<1>9. ToSet(told') = DOMAIN spoke'
  BY <1>6, <1>7, <1>8 DEF ToSet
<1>10. \A i, j \in DOMAIN told' : i < j => spoke'[told'[i]] >= spoke'[told'[j]]
  <2> SUFFICES ASSUME NEW i \in 1 .. m, NEW j \in 1 .. m, i < j
               PROVE  spoke'[told'[i]] >= spoke'[told'[j]]
    BY <1>6
  <2>1. i \in 1 .. n /\ j \in 1 .. n
    BY <1>6
  <2>2. streams[order[i]].total >= streams[order[j]].total
    BY <1>3, <2>1
  <2>3. /\ spoke'[told'[i]] = streams[order[i]].total
        /\ spoke'[told'[j]] = streams[order[j]].total
    BY <1>7
  <2> QED
    BY <2>2, <2>3
<1> QED
  BY <1>9, <1>10 DEF TellsSpeakers

\* For every set of streams, every threshold and every number of intervals, the
\* peers are told the streams that were loud often enough in the interval that
\* ended, and no others, the one that spoke most first.
THEOREM SpeakersToldHolds == AudioSpec => SpeakersTold
<1>1. AudioInv /\ [AudioNext]_audioVars => [Calc /\ ~twice => TellsSpeakers]_audioVars
  BY CalcTells
<1> QED
  BY <1>1, AudioInvariant, PTL DEF AudioSpec, SpeakersTold
=============================================================================

-------------------------- MODULE MediaRoutingProofs --------------------------
(***************************************************************************)
(* The safety properties of MediaRouting, for any subscribers, layers,      *)
(* callers of switches and number of events.  The invariant RoutingInv has  *)
(* four parts that are nearly independent: who may give a subscriber a      *)
(* track (AddingInv), that joining and publishing miss nobody (MeetingInv), *)
(* what a track's switch is doing (SwitchingInv) and that a track is        *)
(* stored or closed (KeepingInv).                                           *)
(***************************************************************************)
EXTENDS MediaRouting, FiniteSetTheorems, SequenceTheorems, TLAPS

Done == [step |-> "done"]
InSwitch == [step : {"enqueue", "target"}, d : DT, l : Layer]

TypeOK ==
  /\ mode \in Modes /\ js \in [Sub -> {"out", "member", "streams", "joined"}]
  /\ pubIn \in BOOLEAN /\ label \in {"no", "listed", "peers"} /\ chan \subseteq Sub
  /\ ppc \in {"open", "stopped", "closed"} /\ publish \in {"no", "peers", "loop", "done"}
  /\ todo \subseteq Sub /\ tracked \subseteq Layer /\ rlock \in DT \cup {None}
  /\ stuck \in BOOLEAN /\ srcOff \in BOOLEAN /\ panicked \in BOOLEAN /\ events \in Nat
  /\ avail \subseteq Layer /\ writing \subseteq Layer /\ swept \subseteq Layer
  /\ rstage \in {"none", "open", "closing", "gone"}
  /\ store \in [Layer -> SUBSET DT] /\ pend \in [Layer -> Seq(DT)]
  /\ wlock \in Layer \cup {None}
  /\ st \in [DT -> {"no", "list", "store", "done", "skip"}]
  /\ slot \in [DT -> Layer] /\ cur \in [DT -> Layer] /\ tgt \in [DT -> Layer]
  /\ dclosed \subseteq DT /\ listed \subseteq DT /\ pcClosed \subseteq Sub
  /\ call \in [Caller -> {Idle, Done} \cup InSwitch]
  /\ raced \subseteq DT /\ late \subseteq DT

-----------------------------------------------------------------------------
\* A track of Publish or Subscribe is added under the router's lock, and to a
\* subscriber that had none.
UnderLock ==
  \A d \in DT : st[d] \in {"list", "store"} /\ d[2] # "request" => rlock = d

HasNone ==
  \A d \in DT, e \in listed :
    st[d] = "list" /\ d[2] # "request" /\ e[1] = d[1] => e[2] = "request"

AddingInv == UnderLock /\ HasNone /\ OneTrackEach

\* Before the receiver there are no tracks; Publish comes after.
Nothing ==
  /\ rstage = "none" => /\ tracked = {} /\ listed = {} /\ avail = {} /\ publish = "no"
                        /\ \A d \in DT : st[d] \in {"no", "skip"}
  /\ publish = "no" => rstage = "none"
  /\ publish \in {"no", "peers"} => \A s \in Sub : st[<<s, "publish">>] = "no"
  /\ publish = "done" => /\ todo = {}
                         /\ \A s \in Sub : st[<<s, "publish">>] \in {"no", "done", "skip"}
  /\ \A s \in todo : st[<<s, "publish">>] = "no"

\* While the receiver is open it has taken every track that is listed.
ListedServed == rstage = "open" => \A d \in listed : Created(d)

\* Who Subscribe has been to, has joined.
Subscribed == \A s \in Sub : st[<<s, "subscribe">>] # "no" => js[s] = "streams"

Given(s) == \E c \in Call : Created(<<s, c>>)

\* Publish has been to a subscriber, or will: to those that had joined, and
\* to those whose Subscribe came too early to find the receiver.
WillPublish(s) == publish = "peers" \/ s \in todo \/ st[<<s, "publish">>] # "no"

Meets ==
  \A s \in Sub \ pcClosed :
    /\ rstage = "open" /\ Over(<<s, "publish">>) => Given(s)
    /\ rstage = "open" /\ Over(<<s, "subscribe">>) => Given(s) \/ WillPublish(s)
    /\ rstage # "none" /\ pubIn /\ js[s] = "joined" => WillPublish(s)

Channels ==
  label = "peers" => \A s \in Sub \ pcClosed : js[s] \in {"streams", "joined"} => s \in chan

MeetingInv == Nothing /\ ListedServed /\ Subscribed /\ Meets /\ Channels

Active(k) == call[k].step \in {"enqueue", "target"}

\* Where layers may be named.
Layers ==
  /\ rstage # "none" => avail # {}
  /\ mode = "simple" => avail \subseteq {0}
  /\ \A d \in DT : Created(d) => slot[d] \in avail
  /\ \A l \in Layer : pend[l] # <<>> => l \in avail
  /\ \A k \in Caller : Active(k) => call[k].l \in avail

\* A track that is still to be stored is at the layer chosen for it, and no
\* switch has begun.
InQueue(d, l) == \E i \in DOMAIN pend[l] : pend[l][i] = d
Queued(d)     == \E l \in Layer : InQueue(d, l)

NotStored ==
  \A d \in DT \ raced :
    st[d] # "done" => /\ \A l \in Layer : d \notin store[l]
                      /\ ~Queued(d) /\ ~Busy(d)
                      /\ cur[d] = tgt[d]
                      /\ st[d] = "store" => cur[d] = slot[d]

\* The switches of a track that do not overlap: it is queued once at most; it
\* is queued for its target, or by a call that has yet to set the target; and
\* there is one call.
QueuedOnce ==
  \A l, m \in Layer : \A i \in DOMAIN pend[l], j \in DOMAIN pend[m] :
    pend[l][i] = pend[m][j] /\ pend[l][i] \notin raced => l = m /\ i = j

OneSwitch ==
  \A k, m \in Caller :
    Active(k) /\ Active(m) /\ call[k].d = call[m].d /\ call[k].d \notin raced => k = m

NoSwitch ==
  \A d \in DT \ raced :
    ~Busy(d) => /\ \A l \in Layer : InQueue(d, l) => tgt[d] = l /\ cur[d] # l
                /\ cur[d] # tgt[d] => Queued(d)

Enqueues(d, l) == cur[d] = tgt[d] /\ cur[d] # l /\ ~Queued(d)
Targets(d, l) ==
  \/ cur[d] = l /\ ~Queued(d)
  \/ /\ cur[d] # l /\ cur[d] = tgt[d] /\ InQueue(d, l)
     /\ \A m \in Layer : InQueue(d, m) => m = l

InSwitchOK ==
  \A k \in Caller, d \in DT \ raced, l \in Layer :
    Active(k) /\ call[k].d = d /\ call[k].l = l =>
      IF call[k].step = "enqueue" THEN Enqueues(d, l) ELSE Targets(d, l)

SwitchingInv == NotStored /\ QueuedOnce /\ OneSwitch /\ NoSwitch /\ InSwitchOK /\ AtItsLayer

\* A stored track that is open is in the list of some layer that the receiver's
\* end has yet to sweep.
Kept ==
  \A d \in DT : st[d] = "done" /\ d \notin late /\ d \notin dclosed =>
    \E l \in avail \ swept : d \in store[l]

KeepingInv ==
  /\ Kept
  /\ rstage \in {"none", "open"} => swept = {}
  /\ rstage = "gone" => swept = avail

RoutingInv == TypeOK /\ Layers /\ AddingInv /\ MeetingInv /\ SwitchingInv /\ KeepingInv

-----------------------------------------------------------------------------
(* The operators.                                                          *)

\* The tracks are finitely many.
LEMMA FiniteTracks == \A S \in SUBSET DT : IsFiniteSet(S)
<1>1. IsFiniteSet({"publish", "subscribe", "request"})
  <2>1. IsFiniteSet({"publish"})
    BY FS_Singleton
  <2>2. IsFiniteSet({"publish"} \cup {"subscribe"})
    BY <2>1, FS_AddElement
  <2>3. IsFiniteSet(({"publish"} \cup {"subscribe"}) \cup {"request"})
    BY <2>2, FS_AddElement
  <2>4. ({"publish"} \cup {"subscribe"}) \cup {"request"} = {"publish", "subscribe", "request"}
    OBVIOUS
  <2> QED
    BY <2>3, <2>4
<1>2. IsFiniteSet(DT)
  BY <1>1, FS_Product, RoutingAssumption DEF DT, Call
<1> QED
  BY <1>2, FS_Subset

\* SetToSeq lists a set's elements, each once.
LEMMA ListOfSet ==
  ASSUME NEW S \in SUBSET DT
  PROVE  /\ SetToSeq(S) \in Seq(S)
         /\ \A i, j \in DOMAIN SetToSeq(S) : SetToSeq(S)[i] = SetToSeq(S)[j] => i = j
         /\ \A d \in S : \E i \in DOMAIN SetToSeq(S) : SetToSeq(S)[i] = d
<1> DEFINE n == Cardinality(S)
           f == SetToSeq(S)
<1>1. IsFiniteSet(S) /\ n \in Nat /\ ExistsBijection(1 .. n, S)
  BY FiniteTracks, FS_CardinalityType
<1>2. PICK g : g \in Bijection(1 .. n, S)
  BY <1>1 DEF ExistsBijection
<1>3. g \in [1 .. n -> S] /\ IsInjective(g)
  BY <1>2 DEF Bijection, Injection
<1>4. f \in [1 .. n -> S] /\ IsInjective(f)
  BY <1>3 DEF SetToSeq
<1>5. f \in Injection(1 .. n, S)
  BY <1>4 DEF Injection
<1>6. Cardinality(1 .. n) = n
  BY <1>1, FS_Interval
<1>7. f \in Surjection(1 .. n, S)
  BY <1>1, <1>5, <1>6, FS_Injection
<1>8. f \in Seq(S)
  BY <1>1, <1>4
<1>9. \A d \in S : \E i \in 1 .. n : f[i] = d
  BY <1>7 DEF Surjection
<1> QED
  BY <1>4, <1>8, <1>9 DEF IsInjective

\* The first layer of a down track is one the receiver has.
LEMMA InitialIsAvailable ==
  ASSUME TypeOK, avail # {}, mode = "simple" => avail \subseteq {0}
  PROVE  InitialLayer \in avail
<1>1. mode \in {"simple", "best", "lowest"} /\ avail \subseteq 0 .. 2
  BY RoutingAssumption DEF TypeOK
<1> PICK x \in avail : TRUE
  OBVIOUS
<1>2. \E l \in avail : \A m \in avail : m <= l
  <2>1. CASE 2 \in avail
    BY <1>1, <2>1
  <2>2. CASE 2 \notin avail /\ 1 \in avail
    BY <1>1, <2>2
  <2>3. CASE 2 \notin avail /\ 1 \notin avail
    BY <1>1, <2>3, x = 0
  <2> QED
    BY <2>1, <2>2, <2>3
<1>3. \E l \in avail : \A m \in avail : l <= m
  <2>1. CASE 0 \in avail
    BY <1>1, <2>1
  <2>2. CASE 0 \notin avail /\ 1 \in avail
    BY <1>1, <2>2
  <2>3. CASE 0 \notin avail /\ 1 \notin avail
    BY <1>1, <2>3, x = 2
  <2> QED
    BY <2>1, <2>2, <2>3
<1>4. CASE mode = "simple"
  BY <1>1, <1>4 DEF InitialLayer
<1>5. CASE mode = "best"
  BY <1>2, <1>5 DEF InitialLayer
<1>6. CASE mode = "lowest"
  BY <1>3, <1>6 DEF InitialLayer
<1> QED
  BY <1>1, <1>4, <1>5, <1>6

\* A switch in progress names a track and a layer.
LEMMA SwitchOfCall ==
  ASSUME TypeOK, NEW k \in Caller, Active(k)
  PROVE  call[k] \in InSwitch /\ call[k].d \in DT /\ call[k].l \in Layer
<1>1. call[k] \in {Idle, Done} \cup InSwitch
  BY DEF TypeOK
<1>2. call[k] # Idle /\ call[k] # Done
  BY DEF Active, Idle, Done
<1> QED
  BY <1>1, <1>2 DEF InSwitch

\* The down track of a call, and the call of a down track.
LEMMA CallTrack ==
  \A s \in Sub, c \in Call : <<s, c>> \in DT /\ <<s, c>>[1] = s /\ <<s, c>>[2] = c
BY DEF DT

\* Its subscriber and its call are a down track's name.
LEMMA TrackCall ==
  \A d \in DT : d[1] \in Sub /\ d[2] \in Call /\ d = <<d[1], d[2]>>
BY DEF DT

\* Every step keeps the types.
LEMMA TypeStep == TypeOK /\ Layers /\ [Next]_vars => TypeOK'
<1> SUFFICES ASSUME TypeOK /\ Layers, [Next]_vars PROVE TypeOK'
  OBVIOUS
<1> USE DEF TypeOK, sessionVars, routerVars, sourceVars, listVars, trackVars, otherVars
<1>e. events' \in Nat
  BY DEF Next, vars
<1>1. ASSUME NEW l \in Layer, AddLayer(l) PROVE TypeOK'
  <2>1. Upgraded(l) \in SUBSET DT
    BY DEF Upgraded
  <2>2. SetToSeq(Upgraded(l)) \in Seq(Upgraded(l))
    BY <2>1, ListOfSet
  <2>3. SetToSeq(Upgraded(l)) \in Seq(DT)
    BY <2>1, <2>2
  <2> HIDE DEF DT
  <2> QED
    BY <1>1, <1>e, <2>1, <2>3 DEF AddLayer
<1>2. ASSUME OpenChannel PROVE TypeOK'
  BY <1>2, <1>e DEF OpenChannel
<1>3. ASSUME ChannelPanics PROVE TypeOK'
  BY <1>3, <1>e DEF ChannelPanics
<1>4. ASSUME NEW s \in Sub, RequestTo(s) PROVE TypeOK'
  <2>1. <<s, "request">> \in DT
    BY CallTrack DEF Call
  <2> QED
    BY <1>4, <1>e, <2>1 DEF RequestTo, Begin
<1>5. ASSUME NEW s \in Sub, SubscriberCloses(s) PROVE TypeOK'
  BY <1>5, <1>e DEF SubscriberCloses
<1>6. ASSUME NEW d \in DT, Unsubscribe(d) PROVE TypeOK'
  <2>1. <<d[1], "request">> \in DT
    BY TrackCall DEF DT, Call
  <2> QED
    BY <1>6, <1>e, <2>1 DEF Unsubscribe
<1>7. ASSUME NEW k \in Caller, NEW d \in DT, NEW l \in Layer, SwitchStarts(k, d, l) PROVE TypeOK'
  <2>1. [step |-> "enqueue", d |-> d, l |-> l] \in InSwitch
    BY DEF InSwitch
  <2> QED
    BY <1>7, <1>e, <2>1 DEF SwitchStarts
<1>8. ASSUME RemovePeer PROVE TypeOK'
  <2>1. pubIn' \in BOOLEAN
    BY <1>8 DEF RemovePeer
  <2> QED
    BY <1>8, <1>e, <2>1 DEF RemovePeer
<1>9. ASSUME StopRouter PROVE TypeOK'
  BY <1>9, <1>e DEF StopRouter
<1>10. ASSUME TrackRemoved PROVE TypeOK'
  BY <1>10, <1>e DEF TrackRemoved
<1>11. ASSUME Feedback PROVE TypeOK'
  BY <1>11, <1>e DEF Feedback
<1>12. ASSUME NEW l \in Layer, AddReceiver(l) PROVE TypeOK'
  BY <1>12, <1>e DEF AddReceiver
<1>13. ASSUME NEW l \in Layer, KeyFrame(l) PROVE TypeOK'
  BY <1>13, <1>e DEF KeyFrame
<1>14. ASSUME NEW l \in Layer, WriteFails(l) PROVE TypeOK'
  BY <1>14, <1>e DEF WriteFails, CloseAll
<1>15. ASSUME NEW l \in Layer, MoveTrack(l) PROVE TypeOK'
  <2> DEFINE d == Head(pend[l])
  <2>1. d \in DT /\ Tail(pend[l]) \in Seq(DT)
    BY <1>15, HeadTailProperties DEF MoveTrack
  <2>2. cur' \in [DT -> Layer] /\ pend' \in [Layer -> Seq(DT)]
    BY <1>15, <2>1 DEF MoveTrack
  <2>3. store' \in [Layer -> SUBSET DT]
    BY <1>15, <2>1 DEF MoveTrack
  <2>4. dclosed' \subseteq DT /\ listed' \subseteq DT
    BY <1>15, <2>1 DEF MoveTrack, CloseAll
  <2>5. UNCHANGED <<sessionVars, routerVars, sourceVars, wlock, st, slot, tgt, otherVars>>
    BY <1>15 DEF MoveTrack
  <2> QED
    BY <1>e, <2>2, <2>3, <2>4, <2>5
<1>16. ASSUME NEW l \in Layer, MoveEnds(l) PROVE TypeOK'
  BY <1>16, <1>e DEF MoveEnds
<1>17. ASSUME NEW l \in Layer, WriterEnds(l) PROVE TypeOK'
  BY <1>17, <1>e DEF WriterEnds
<1>18. ASSUME NEW l \in Layer, CloseTracks(l) PROVE TypeOK'
  BY <1>18, <1>e DEF CloseTracks, CloseAll
<1>19. ASSUME PublishPeers PROVE TypeOK'
  BY <1>19, <1>e DEF PublishPeers, Members
<1>20. ASSUME PublishEnds PROVE TypeOK'
  BY <1>20, <1>e DEF PublishEnds
<1>21. ASSUME ChannelPeers PROVE TypeOK'
  BY <1>21, <1>e DEF ChannelPeers, Members
<1>22. ASSUME NEW s \in Sub, PublishTo(s) PROVE TypeOK'
  <2>1. <<s, "publish">> \in DT
    BY CallTrack DEF Call
  <2> QED
    BY <1>22, <1>e, <2>1 DEF PublishTo, Begin
<1>23. ASSUME NEW s \in Sub, AddPeer(s) PROVE TypeOK'
  BY <1>23, <1>e DEF AddPeer
<1>24. ASSUME NEW s \in Sub, Subscribe(s) PROVE TypeOK'
  BY <1>24, <1>e DEF Subscribe, Members
<1>25. ASSUME NEW s \in Sub, SubscribeTo(s) PROVE TypeOK'
  <2> DEFINE d == <<s, "subscribe">>
  <2>1. d \in DT
    BY CallTrack DEF Call
  <2>2. st' \in [DT -> {"no", "list", "store", "done", "skip"}] /\ rlock' \in DT \cup {None}
    <3>1. CASE rstage \in {"open", "closing"}
      BY <1>25, <2>1, <3>1 DEF SubscribeTo, Begin
    <3>2. CASE rstage \notin {"open", "closing"}
      BY <1>25, <2>1, <3>2 DEF SubscribeTo
    <3> QED
      BY <3>1, <3>2
  <2> QED
    BY <1>25, <1>e, <2>2 DEF SubscribeTo
<1>26. ASSUME NEW d \in DT, ListTrack(d) PROVE TypeOK'
  <2>1. InitialLayer \in Layer
    BY <1>26, InitialIsAvailable DEF ListTrack, Layers, TypeOK
  <2> HIDE DEF InitialLayer
  <2> QED
    BY <1>26, <1>e, <2>1 DEF ListTrack
<1>27. ASSUME NEW d \in DT, ListFails(d) PROVE TypeOK'
  BY <1>27, <1>e DEF ListFails, Unlock
<1>28. ASSUME NEW d \in DT, RequestPanics(d) PROVE TypeOK'
  BY <1>28, <1>e DEF RequestPanics
<1>29. ASSUME NEW d \in DT, ReceiverRefuses(d) PROVE TypeOK'
  BY <1>29, <1>e DEF ReceiverRefuses, Unlock
<1>30. ASSUME NEW d \in DT, StoreTrack(d) PROVE TypeOK'
  BY <1>30, <1>e DEF StoreTrack, Unlock
<1>31. ASSUME NEW k \in Caller, SwitchEnqueues(k) PROVE TypeOK'
  <2>1. call[k] \in InSwitch
    BY <1>31, SwitchOfCall DEF SwitchEnqueues, Active
  <2>2. call'[k] \in InSwitch
    BY <1>31, <2>1 DEF SwitchEnqueues, InSwitch
  <2>3. pend' \in [Layer -> Seq(DT)]
    BY <1>31, <2>1, AppendProperties DEF SwitchEnqueues, InSwitch
  <2>4. call' \in [Caller -> {Idle, Done} \cup InSwitch]
    BY <1>31, <2>2 DEF SwitchEnqueues
  <2> QED
    BY <1>31, <1>e, <2>3, <2>4 DEF SwitchEnqueues
<1>32. ASSUME NEW k \in Caller, SwitchEnds(k) PROVE TypeOK'
  <2>1. call[k] \in InSwitch
    BY <1>32, SwitchOfCall DEF SwitchEnds, Active
  <2>2. tgt' \in [DT -> Layer]
    BY <1>32, <2>1 DEF SwitchEnds, InSwitch
  <2> QED
    BY <1>32, <1>e, <2>2 DEF SwitchEnds, Done
<1>33. ASSUME DeleteReceiver PROVE TypeOK'
  BY <1>33, <1>e DEF DeleteReceiver
<1>34. ASSUME ClosePC PROVE TypeOK'
  BY <1>34, <1>e DEF ClosePC
<1>35. ASSUME UNCHANGED vars PROVE TypeOK'
  BY <1>35 DEF vars
<1> QED
  BY <1>1, <1>2, <1>3, <1>4, <1>5, <1>6, <1>7, <1>8, <1>9, <1>10, <1>11, <1>12, <1>13,
    <1>14, <1>15, <1>16, <1>17, <1>18, <1>19, <1>20, <1>21, <1>22, <1>23, <1>24, <1>25,
    <1>26, <1>27, <1>28, <1>29, <1>30, <1>31, <1>32, <1>33, <1>34, <1>35 DEF Next,
    Event, Step, Adding, Joining, Switching, Moving, Closing

\* At most one call at a time adds a track that is not requested.
LEMMA AddingStep == TypeOK /\ AddingInv /\ [Next]_vars => AddingInv'
<1> SUFFICES ASSUME TypeOK /\ AddingInv, [Next]_vars PROVE AddingInv'
  OBVIOUS
<1>1. ASSUME NEW s \in Sub, RequestTo(s) PROVE AddingInv'
  <2> DEFINE d == <<s, "request">>
  <2>1. d \in DT /\ d[2] = "request"
    BY CallTrack DEF Call
  <2>2. /\ \A e \in DT : e # d => st'[e] = st[e]
        /\ rlock' = rlock /\ listed' = listed
    BY <1>1, <2>1 DEF RequestTo, Begin, TypeOK, routerVars
  <2> QED
    BY <2>1, <2>2 DEF AddingInv, UnderLock, HasNone, OneTrackEach
<1>2. ASSUME NEW d \in DT, Unsubscribe(d) PROVE AddingInv'
  <2> DEFINE r == <<d[1], "request">>
  <2>1. r[2] = "request"
    OBVIOUS
  <2>2. /\ \A e \in DT : e # r => st'[e] = st[e]
        /\ rlock' = rlock /\ listed' \subseteq listed
    BY <1>2 DEF Unsubscribe, TypeOK, routerVars
  <2> QED
    BY <2>1, <2>2 DEF AddingInv, UnderLock, HasNone, OneTrackEach
<1>3. ASSUME NEW l \in Layer, WriteFails(l) PROVE AddingInv'
  <2>1. listed' \subseteq listed /\ UNCHANGED <<st, rlock>>
    BY <1>3 DEF WriteFails, CloseAll, routerVars
  <2> QED
    BY <2>1 DEF AddingInv, UnderLock, HasNone, OneTrackEach
<1>4. ASSUME NEW l \in Layer, MoveTrack(l) PROVE AddingInv'
  <2>1. listed' \subseteq listed /\ UNCHANGED <<st, rlock>>
    BY <1>4 DEF MoveTrack, CloseAll, routerVars
  <2> QED
    BY <2>1 DEF AddingInv, UnderLock, HasNone, OneTrackEach
<1>5. ASSUME NEW l \in Layer, CloseTracks(l) PROVE AddingInv'
  <2>1. listed' \subseteq listed /\ UNCHANGED <<st, rlock>>
    BY <1>5 DEF CloseTracks, CloseAll, routerVars
  <2> QED
    BY <2>1 DEF AddingInv, UnderLock, HasNone, OneTrackEach
<1>6. ASSUME NEW s \in Sub, PublishTo(s) PROVE AddingInv'
  <2> DEFINE d == <<s, "publish">>
  <2>1. d \in DT /\ d[1] = s /\ d[2] # "request"
    BY CallTrack DEF Call
  <2>2. \A e \in DT : st[e] \in {"list", "store"} => e[2] = "request"
    BY <1>6, RoutingAssumption DEF PublishTo, AddingInv, UnderLock
  <2>3. listed' = listed /\ st' = [st EXCEPT ![d] = IF Of(s) = {} THEN "list" ELSE "skip"]
    BY <1>6, <2>1 DEF PublishTo, Begin, trackVars
  <2>4. Of(s) = {} => rlock' = d
    BY <1>6 DEF PublishTo
  <2>5. UnderLock'
    BY <2>1, <2>2, <2>3, <2>4 DEF UnderLock, TypeOK
  <2>6. HasNone'
    BY <2>1, <2>2, <2>3, <2>4 DEF HasNone, Of, TypeOK
  <2>7. OneTrackEach'
    BY <2>3, <2>4 DEF OneTrackEach, AddingInv
  <2> QED
    BY <2>5, <2>6, <2>7 DEF AddingInv
<1>7. ASSUME NEW s \in Sub, SubscribeTo(s) PROVE AddingInv'
  <2> DEFINE d == <<s, "subscribe">>
  <2>1. d \in DT /\ d[1] = s /\ d[2] # "request"
    BY CallTrack DEF Call
  <2>2. \A e \in DT : st[e] \in {"list", "store"} => e[2] = "request"
    BY <1>7, RoutingAssumption DEF SubscribeTo, AddingInv, UnderLock
  <2>3. \/ /\ st' = [st EXCEPT ![d] = IF Of(s) = {} THEN "list" ELSE "skip"]
           /\ Of(s) = {} => rlock' = d
        \/ st' = [st EXCEPT ![d] = "skip"]
    BY <1>7, <2>1 DEF SubscribeTo, Begin
  <2>4. listed' = listed
    BY <1>7 DEF SubscribeTo
  <2>5. UnderLock'
    BY <2>1, <2>2, <2>3, <2>4 DEF UnderLock, TypeOK
  <2>6. HasNone'
    BY <2>1, <2>2, <2>3, <2>4 DEF HasNone, Of, TypeOK
  <2>7. OneTrackEach'
    BY <2>3, <2>4 DEF OneTrackEach, AddingInv
  <2> QED
    BY <2>5, <2>6, <2>7 DEF AddingInv
<1>8. ASSUME NEW d \in DT, ListTrack(d) PROVE AddingInv'
  <2>1. /\ st[d] = "list" /\ listed' = listed \cup {d} /\ rlock' = rlock
        /\ st' = [st EXCEPT ![d] = "store"]
    BY <1>8 DEF ListTrack, routerVars
  <2>2. UnderLock'
    BY <2>1 DEF UnderLock, TypeOK, AddingInv
  <2>3. HasNone'
    BY <2>1 DEF UnderLock, HasNone, TypeOK, AddingInv
  <2>4. OneTrackEach'
    BY <2>1 DEF OneTrackEach, HasNone, AddingInv, TypeOK
  <2> QED
    BY <2>2, <2>3, <2>4 DEF AddingInv
<1>9. ASSUME NEW d \in DT, ListFails(d) PROVE AddingInv'
  <2>1. /\ listed' = listed /\ rlock' = IF rlock = d THEN None ELSE rlock
        /\ st' = [st EXCEPT ![d] = "skip"]
    BY <1>9 DEF ListFails, Unlock
  <2> QED
    BY <2>1 DEF AddingInv, UnderLock, HasNone, OneTrackEach, TypeOK
<1>10. ASSUME NEW d \in DT, ReceiverRefuses(d) PROVE AddingInv'
  <2>1. /\ st[d] = "list" /\ listed' = listed \cup {d} /\ rlock' = IF rlock = d THEN None ELSE rlock
        /\ st' = [st EXCEPT ![d] = "skip"]
    BY <1>10 DEF ReceiverRefuses, Unlock, routerVars
  <2>2. UnderLock'
    BY <2>1 DEF UnderLock, TypeOK, AddingInv
  <2>3. HasNone'
    BY <2>1 DEF UnderLock, HasNone, TypeOK, AddingInv
  <2>4. OneTrackEach'
    BY <2>1 DEF OneTrackEach, HasNone, AddingInv, TypeOK
  <2> QED
    BY <2>2, <2>3, <2>4 DEF AddingInv
<1>11. ASSUME NEW d \in DT, StoreTrack(d) PROVE AddingInv'
  <2>1. /\ listed' = listed /\ rlock' = IF rlock = d THEN None ELSE rlock
        /\ st' = [st EXCEPT ![d] = "done"]
    BY <1>11 DEF StoreTrack, Unlock
  <2> QED
    BY <2>1 DEF AddingInv, UnderLock, HasNone, OneTrackEach, TypeOK
<1>12. ASSUME NEW l \in Layer,
         AddLayer(l) \/ AddReceiver(l) \/ KeyFrame(l) \/ MoveEnds(l) \/ WriterEnds(l)
     PROVE AddingInv'
  <2>1. UNCHANGED <<st, rlock, listed>>
    BY <1>12 DEF AddLayer, AddReceiver, KeyFrame, MoveEnds, WriterEnds, sessionVars,
      routerVars, sourceVars, listVars, trackVars, otherVars
  <2> QED
    BY <2>1 DEF AddingInv, UnderLock, HasNone, OneTrackEach
<1>13. ASSUME 
         OpenChannel \/ ChannelPanics \/ RemovePeer \/ StopRouter \/ TrackRemoved
      \/ Feedback \/ PublishPeers \/ PublishEnds \/ ChannelPeers \/ DeleteReceiver
      \/ ClosePC
     PROVE AddingInv'
  <2>1. UNCHANGED <<st, rlock, listed>>
    BY <1>13 DEF OpenChannel, ChannelPanics, RemovePeer, StopRouter, TrackRemoved,
      Feedback, PublishPeers, PublishEnds, ChannelPeers, DeleteReceiver, ClosePC,
      sessionVars, routerVars, sourceVars, listVars, trackVars, otherVars
  <2> QED
    BY <2>1 DEF AddingInv, UnderLock, HasNone, OneTrackEach
<1>14. ASSUME NEW s \in Sub,
         SubscriberCloses(s) \/ AddPeer(s) \/ Subscribe(s)
     PROVE AddingInv'
  <2>1. UNCHANGED <<st, rlock, listed>>
    BY <1>14 DEF SubscriberCloses, AddPeer, Subscribe, sessionVars, routerVars,
      sourceVars, listVars, trackVars, otherVars
  <2> QED
    BY <2>1 DEF AddingInv, UnderLock, HasNone, OneTrackEach
<1>15. ASSUME NEW k \in Caller, NEW d \in DT, NEW l \in Layer,
         SwitchStarts(k, d, l)
     PROVE AddingInv'
  <2>1. UNCHANGED <<st, rlock, listed>>
    BY <1>15 DEF SwitchStarts, sessionVars, routerVars, sourceVars, listVars,
      trackVars, otherVars
  <2> QED
    BY <2>1 DEF AddingInv, UnderLock, HasNone, OneTrackEach
<1>16. ASSUME NEW d \in DT,
         RequestPanics(d)
     PROVE AddingInv'
  <2>1. UNCHANGED <<st, rlock, listed>>
    BY <1>16 DEF RequestPanics, sessionVars, routerVars, sourceVars, listVars,
      trackVars, otherVars
  <2> QED
    BY <2>1 DEF AddingInv, UnderLock, HasNone, OneTrackEach
<1>17. ASSUME NEW k \in Caller,
         SwitchEnqueues(k) \/ SwitchEnds(k)
     PROVE AddingInv'
  <2>1. UNCHANGED <<st, rlock, listed>>
    BY <1>17 DEF SwitchEnqueues, SwitchEnds, sessionVars, routerVars, sourceVars,
      listVars, trackVars, otherVars
  <2> QED
    BY <2>1 DEF AddingInv, UnderLock, HasNone, OneTrackEach
<1>18. ASSUME UNCHANGED vars PROVE AddingInv'
  BY <1>18 DEF vars, AddingInv, UnderLock, HasNone, OneTrackEach
<1> QED
  BY <1>1, <1>2, <1>3, <1>4, <1>5, <1>6, <1>7, <1>8, <1>9, <1>10, <1>11, <1>12, <1>13,
    <1>14, <1>15, <1>16, <1>17, <1>18 DEF Next, Event, Step, Adding, Joining,
    Switching, Moving, Closing

\* Joining and publishing meet.
LEMMA MeetingStep == TypeOK /\ MeetingInv /\ [Next]_vars => MeetingInv'
<1> SUFFICES ASSUME TypeOK /\ MeetingInv, [Next]_vars PROVE MeetingInv'
  OBVIOUS
<1>1. ASSUME NEW l \in Layer, AddLayer(l) PROVE MeetingInv'
  <2>1. /\ rstage = "open"
        /\ UNCHANGED <<js, pubIn, label, chan, publish, todo, rstage, st, listed, pcClosed>>
    BY <1>1 DEF AddLayer, sessionVars, routerVars, sourceVars, listVars, trackVars, otherVars
  <2>2. \A t \in Sub : (Given(t)' <=> Given(t)) /\ (WillPublish(t)' <=> WillPublish(t))
    BY <2>1 DEF Given, WillPublish, Created
  <2>3. Nothing' /\ ListedServed' /\ Subscribed'
    BY <2>1 DEF MeetingInv, Nothing, ListedServed, Subscribed, Created
  <2>4. Meets' /\ Channels'
    BY <2>1, <2>2 DEF MeetingInv, Meets, Channels, Over
  <2> QED
    BY <2>3, <2>4 DEF MeetingInv
<1>2. ASSUME OpenChannel PROVE MeetingInv'
  <2>1. /\ label' = "listed"
        /\ UNCHANGED <<js, pubIn, chan, publish, todo, tracked, avail, rstage, st, listed, pcClosed>>
    BY <1>2 DEF OpenChannel, sessionVars, routerVars, sourceVars, listVars, trackVars, otherVars
  <2>2. \A t \in Sub : (Given(t)' <=> Given(t)) /\ (WillPublish(t)' <=> WillPublish(t))
    BY <2>1 DEF Given, WillPublish, Created
  <2>3. Nothing' /\ ListedServed' /\ Subscribed'
    BY <2>1 DEF MeetingInv, Nothing, ListedServed, Subscribed, Created
  <2>4. Meets' /\ Channels'
    BY <2>1, <2>2 DEF MeetingInv, Meets, Channels, Over
  <2> QED
    BY <2>3, <2>4 DEF MeetingInv
<1>3. ASSUME NEW s \in Sub, RequestTo(s) PROVE MeetingInv'
  <2> DEFINE d == <<s, "request">>
  <2>1. d \in DT /\ d[1] = s /\ d[2] = "request"
    BY CallTrack DEF Call
  <2>2. st[d] = "no"
    BY <1>3 DEF RequestTo, MeetingInv, Nothing
  <2>3. /\ \A e \in DT : e # d => st'[e] = st[e]
        /\ st'[d] \in {"list", "skip"}
        /\ UNCHANGED <<mode, js, pubIn, label, chan, publish, tracked, avail, rstage, listed, pcClosed>>
    BY <1>3, <2>1 DEF RequestTo, Begin, TypeOK, sessionVars, sourceVars, routerVars, trackVars, otherVars
  <2>4. rstage = "open" /\ st'[d] = "skip" => \E e \in listed : e[1] = s
    BY <1>3, <2>1 DEF RequestTo, Begin, TypeOK, Of
  <2>5. \A t \in Sub, x \in Call : Created(<<t, x>>) => Created(<<t, x>>)'
    BY <2>2, <2>3, CallTrack DEF Created
  <2>6. \A t \in Sub : Given(t) => Given(t)'
    BY <2>5 DEF Given
  <2>7. rstage = "open" /\ st'[d] = "skip" => Given(s)
    <3>1. SUFFICES ASSUME NEW e \in listed, e[1] = s, rstage = "open" PROVE Given(s)
      BY <2>4
    <3>2. e \in DT /\ Created(e)
      BY <3>1 DEF MeetingInv, ListedServed, TypeOK
    <3>3. e[2] \in Call /\ e = <<s, e[2]>>
      BY <3>1, <3>2, TrackCall
    <3> QED
      BY <3>2, <3>3 DEF Given
  <2>8. todo' = todo
    BY <1>3 DEF RequestTo, routerVars
  <2>9. \A t \in Sub : /\ <<t, "publish">> \in DT /\ <<t, "publish">> # d
                       /\ <<t, "subscribe">> \in DT /\ <<t, "subscribe">> # d
    BY CallTrack DEF Call
  <2>10. Nothing'
    BY <2>3, <2>8, <2>9, <1>3 DEF MeetingInv, Nothing, TypeOK, RequestTo
  <2>11. ListedServed'
    BY <2>2, <2>3 DEF MeetingInv, ListedServed, Created, TypeOK
  <2>12. Subscribed'
    BY <2>3, <2>9 DEF MeetingInv, Subscribed
  <2>13. Meets'
    BY <2>2, <2>3, <2>6, <2>7, <2>8, <2>9 DEF MeetingInv, Meets, WillPublish, Over, TypeOK
  <2>14. Channels'
    BY <2>3 DEF MeetingInv, Channels
  <2> QED
    BY <2>10, <2>11, <2>12, <2>13, <2>14 DEF MeetingInv
<1>4. ASSUME NEW s \in Sub, SubscriberCloses(s) PROVE MeetingInv'
  <2>1. /\ pcClosed \subseteq pcClosed'
        /\ UNCHANGED <<js, pubIn, label, chan, publish, todo, tracked, avail, rstage, st, listed>>
    BY <1>4 DEF SubscriberCloses, sessionVars, routerVars, sourceVars, listVars, trackVars, otherVars
  <2>2. \A t \in Sub : (Given(t)' <=> Given(t)) /\ (WillPublish(t)' <=> WillPublish(t))
    BY <2>1 DEF Given, WillPublish, Created
  <2>3. Nothing' /\ ListedServed' /\ Subscribed'
    BY <2>1 DEF MeetingInv, Nothing, ListedServed, Subscribed, Created
  <2>4. Meets' /\ Channels'
    BY <2>1, <2>2 DEF MeetingInv, Meets, Channels, Over
  <2> QED
    BY <2>3, <2>4 DEF MeetingInv
<1>5. ASSUME NEW d \in DT, Unsubscribe(d) PROVE MeetingInv'
  <2> DEFINE r == <<d[1], "request">>
  <2>1. d \in listed /\ st[r] = "no" /\ r \in DT
    BY <1>5, TrackCall DEF Unsubscribe, DT, Call
  <2>2. /\ \A e \in DT : e # r => st'[e] = st[e]
        /\ st'[r] = "skip" /\ listed' \subseteq listed
        /\ UNCHANGED <<mode, js, pubIn, label, chan, publish, todo, tracked, avail, rstage, pcClosed>>
    BY <1>5, <2>1 DEF Unsubscribe, TypeOK, sessionVars, routerVars, sourceVars, listVars, trackVars, otherVars
  <2>4. \A t \in Sub : /\ <<t, "publish">> \in DT /\ <<t, "subscribe">> \in DT
                       /\ <<t, "publish">> # r /\ <<t, "subscribe">> # r
    BY CallTrack DEF Call
  <2>5. \A t \in Sub, x \in Call : Created(<<t, x>>) => Created(<<t, x>>)'
    BY <2>1, <2>2, CallTrack DEF Created
  <2>6. \A t \in Sub : Given(t) => Given(t)'
    BY <2>5 DEF Given
  <2>8. Nothing'
    BY <2>1, <2>2, <2>4 DEF MeetingInv, Nothing, TypeOK
  <2>9. ListedServed'
    BY <2>1, <2>2 DEF MeetingInv, ListedServed, Created, TypeOK
  <2>10. Subscribed'
    BY <2>2, <2>4 DEF MeetingInv, Subscribed
  <2>11. Meets'
    BY <2>2, <2>4, <2>6 DEF MeetingInv, Meets, WillPublish, Over
  <2>12. Channels'
    BY <2>2 DEF MeetingInv, Channels
  <2> QED
    BY <2>8, <2>9, <2>10, <2>11, <2>12 DEF MeetingInv
<1>6. ASSUME RemovePeer PROVE MeetingInv'
  <2>1. /\ ~pubIn'
        /\ UNCHANGED <<js, label, chan, publish, todo, tracked, avail, rstage, st, listed, pcClosed>>
    BY <1>6 DEF RemovePeer, sessionVars, routerVars, sourceVars, listVars, trackVars, otherVars
  <2>2. \A t \in Sub : (Given(t)' <=> Given(t)) /\ (WillPublish(t)' <=> WillPublish(t))
    BY <2>1 DEF Given, WillPublish, Created
  <2>3. Nothing' /\ ListedServed' /\ Subscribed'
    BY <2>1 DEF MeetingInv, Nothing, ListedServed, Subscribed, Created
  <2>4. Meets' /\ Channels'
    BY <2>1, <2>2 DEF MeetingInv, Meets, Channels, Over
  <2> QED
    BY <2>3, <2>4 DEF MeetingInv
<1>7. ASSUME NEW l \in Layer, AddReceiver(l) PROVE MeetingInv'
  <2>1. /\ rstage = "none" /\ rstage' = "open" /\ publish' = "peers"
        /\ UNCHANGED <<js, pubIn, label, chan, todo, st, listed, pcClosed>>
    BY <1>7 DEF AddReceiver, sessionVars, routerVars, sourceVars, listVars, trackVars, otherVars
  <2>2. listed = {} /\ publish = "no"
    BY <2>1 DEF MeetingInv, Nothing
  <2>3. Nothing' /\ ListedServed' /\ Subscribed' /\ Channels'
    BY <2>1, <2>2 DEF MeetingInv, Nothing, ListedServed, Subscribed, Channels
  <2>4. \A t \in Sub : WillPublish(t)'
    BY <2>1 DEF WillPublish
  <2>5. Meets'
    BY <2>1, <2>2, <2>4 DEF MeetingInv, Nothing, Meets, Over
  <2> QED
    BY <2>3, <2>5 DEF MeetingInv
<1>8. ASSUME NEW l \in Layer, WriteFails(l) PROVE MeetingInv'
  <2>1. /\ listed' \subseteq listed
        /\ UNCHANGED <<js, pubIn, label, chan, publish, todo, tracked, avail, rstage, st, pcClosed>>
    BY <1>8 DEF WriteFails, CloseAll, sessionVars, routerVars, sourceVars, listVars, trackVars, otherVars
  <2>2. \A t \in Sub : (Given(t)' <=> Given(t)) /\ (WillPublish(t)' <=> WillPublish(t))
    BY <2>1 DEF Given, WillPublish, Created
  <2>3. Nothing' /\ ListedServed' /\ Subscribed'
    BY <2>1 DEF MeetingInv, Nothing, ListedServed, Subscribed, Created
  <2>4. Meets' /\ Channels'
    BY <2>1, <2>2 DEF MeetingInv, Meets, Channels, Over
  <2> QED
    BY <2>3, <2>4 DEF MeetingInv
<1>9. ASSUME NEW l \in Layer, MoveTrack(l) PROVE MeetingInv'
  <2>1. /\ listed' \subseteq listed
        /\ UNCHANGED <<js, pubIn, label, chan, publish, todo, tracked, avail, rstage, st, pcClosed>>
    BY <1>9 DEF MoveTrack, CloseAll, sessionVars, routerVars, sourceVars, listVars, trackVars, otherVars
  <2>2. \A t \in Sub : (Given(t)' <=> Given(t)) /\ (WillPublish(t)' <=> WillPublish(t))
    BY <2>1 DEF Given, WillPublish, Created
  <2>3. Nothing' /\ ListedServed' /\ Subscribed'
    BY <2>1 DEF MeetingInv, Nothing, ListedServed, Subscribed, Created
  <2>4. Meets' /\ Channels'
    BY <2>1, <2>2 DEF MeetingInv, Meets, Channels, Over
  <2> QED
    BY <2>3, <2>4 DEF MeetingInv
<1>10. ASSUME NEW l \in Layer, WriterEnds(l) PROVE MeetingInv'
  <2>1. /\ rstage' # rstage => rstage = "open" /\ rstage' = "closing"
        /\ UNCHANGED <<js, pubIn, label, chan, publish, todo, tracked, avail, st, listed, pcClosed>>
    BY <1>10 DEF WriterEnds, sessionVars, routerVars, sourceVars, listVars, trackVars, otherVars
  <2>2. \A t \in Sub : (Given(t)' <=> Given(t)) /\ (WillPublish(t)' <=> WillPublish(t))
    BY <2>1 DEF Given, WillPublish, Created
  <2>3. Nothing' /\ ListedServed' /\ Subscribed'
    BY <2>1 DEF MeetingInv, Nothing, ListedServed, Subscribed, Created
  <2>4. Meets' /\ Channels'
    BY <2>1, <2>2 DEF MeetingInv, Meets, Channels, Over
  <2> QED
    BY <2>3, <2>4 DEF MeetingInv
<1>11. ASSUME NEW l \in Layer, CloseTracks(l) PROVE MeetingInv'
  <2>1. /\ listed' \subseteq listed
        /\ UNCHANGED <<js, pubIn, label, chan, publish, todo, tracked, avail, rstage, st, pcClosed>>
    BY <1>11 DEF CloseTracks, CloseAll, sessionVars, routerVars, sourceVars, listVars, trackVars, otherVars
  <2>2. \A t \in Sub : (Given(t)' <=> Given(t)) /\ (WillPublish(t)' <=> WillPublish(t))
    BY <2>1 DEF Given, WillPublish, Created
  <2>3. Nothing' /\ ListedServed' /\ Subscribed'
    BY <2>1 DEF MeetingInv, Nothing, ListedServed, Subscribed, Created
  <2>4. Meets' /\ Channels'
    BY <2>1, <2>2 DEF MeetingInv, Meets, Channels, Over
  <2> QED
    BY <2>3, <2>4 DEF MeetingInv
<1>12. ASSUME PublishPeers PROVE MeetingInv'
  <2>1. /\ publish = "peers" /\ publish' = "loop" /\ todo' = Members
        /\ UNCHANGED <<js, pubIn, label, chan, rstage, avail, tracked, st, listed, pcClosed>>
    BY <1>12 DEF PublishPeers, sessionVars, routerVars, sourceVars, listVars, trackVars, otherVars
  <2>2. \A t \in Sub : js[t] # "out" => WillPublish(t)'
    BY <2>1 DEF WillPublish, Members
  <2>3. \A t \in Sub : Given(t)' <=> Given(t)
    BY <2>1 DEF Given, Created
  <2>4. Nothing' /\ ListedServed' /\ Subscribed' /\ Channels'
    BY <2>1 DEF MeetingInv, Nothing, ListedServed, Subscribed, Channels, Created, Members
  <2>5. Meets'
    BY <2>1, <2>2, <2>3 DEF MeetingInv, Meets, Subscribed, Over
  <2> QED
    BY <2>4, <2>5 DEF MeetingInv
<1>13. ASSUME PublishEnds PROVE MeetingInv'
  <2>1. /\ publish = "loop" /\ publish' = "done" /\ todo = {} /\ todo' = {}
        /\ \A t \in Sub : st[<<t, "publish">>] \in {"no", "done", "skip"}
        /\ UNCHANGED <<js, pubIn, label, chan, rstage, avail, st, listed, pcClosed>>
    BY <1>13 DEF PublishEnds, sessionVars, routerVars, sourceVars, listVars, trackVars, otherVars
  <2>2. \A t \in Sub : (Given(t)' <=> Given(t)) /\ (WillPublish(t)' <=> WillPublish(t))
    BY <2>1 DEF Given, WillPublish, Created
  <2>3. Nothing' /\ ListedServed' /\ Subscribed' /\ Channels'
    BY <2>1 DEF MeetingInv, Nothing, ListedServed, Subscribed, Channels, Created
  <2>4. Meets'
    BY <2>1, <2>2 DEF MeetingInv, Meets, Over
  <2> QED
    BY <2>3, <2>4 DEF MeetingInv
<1>14. ASSUME ChannelPeers PROVE MeetingInv'
  <2>1. /\ label' = "peers" /\ chan' = chan \cup (Members \ pcClosed)
        /\ UNCHANGED <<js, pubIn, publish, todo, tracked, avail, rstage, st, listed, pcClosed>>
    BY <1>14 DEF ChannelPeers, sessionVars, routerVars, sourceVars, listVars, trackVars, otherVars
  <2>2. \A t \in Sub : (Given(t)' <=> Given(t)) /\ (WillPublish(t)' <=> WillPublish(t))
    BY <2>1 DEF Given, WillPublish, Created
  <2>3. Nothing' /\ ListedServed' /\ Subscribed'
    BY <2>1 DEF MeetingInv, Nothing, ListedServed, Subscribed, Created
  <2>4. Meets' /\ Channels'
    BY <2>1, <2>2 DEF MeetingInv, Meets, Channels, Over, Members
  <2> QED
    BY <2>3, <2>4 DEF MeetingInv
<1>15. ASSUME NEW s \in Sub, PublishTo(s) PROVE MeetingInv'
  <2> DEFINE d == <<s, "publish">>
  <2>1. d \in DT /\ d[1] = s /\ d[2] = "publish"
    BY CallTrack DEF Call
  <2>2. st[d] = "no"
    BY <1>15 DEF PublishTo, MeetingInv, Nothing
  <2>3. /\ \A e \in DT : e # d => st'[e] = st[e]
        /\ st'[d] \in {"list", "skip"}
        /\ UNCHANGED <<mode, js, pubIn, label, chan, publish, tracked, avail, rstage, listed, pcClosed>>
    BY <1>15, <2>1 DEF PublishTo, Begin, TypeOK, sessionVars, sourceVars, routerVars, trackVars, otherVars
  <2>4. rstage = "open" /\ st'[d] = "skip" => \E e \in listed : e[1] = s
    BY <1>15, <2>1 DEF PublishTo, Begin, TypeOK, Of
  <2>5. \A t \in Sub, x \in Call : Created(<<t, x>>) => Created(<<t, x>>)'
    BY <2>2, <2>3, CallTrack DEF Created
  <2>6. \A t \in Sub : Given(t) => Given(t)'
    BY <2>5 DEF Given
  <2>7. rstage = "open" /\ st'[d] = "skip" => Given(s)
    <3>1. SUFFICES ASSUME NEW e \in listed, e[1] = s, rstage = "open" PROVE Given(s)
      BY <2>4
    <3>2. e \in DT /\ Created(e)
      BY <3>1 DEF MeetingInv, ListedServed, TypeOK
    <3>3. e[2] \in Call /\ e = <<s, e[2]>>
      BY <3>1, <3>2, TrackCall
    <3> QED
      BY <3>2, <3>3 DEF Given
  <2>8. publish = "loop" /\ s \in todo /\ todo' = todo \ {s}
    BY <1>15 DEF PublishTo
  <2>9. \A t \in Sub : /\ <<t, "subscribe">> \in DT /\ <<t, "subscribe">> # d
                       /\ <<t, "publish">> \in DT /\ (t # s => <<t, "publish">> # d)
    BY CallTrack DEF Call
  <2>10. Nothing'
    BY <2>3, <2>8, <2>9 DEF MeetingInv, Nothing, TypeOK
  <2>11. ListedServed'
    BY <2>2, <2>3 DEF MeetingInv, ListedServed, Created, TypeOK
  <2>12. Subscribed'
    BY <2>3, <2>9 DEF MeetingInv, Subscribed
  <2>13. Meets'
    BY <2>2, <2>3, <2>6, <2>7, <2>8, <2>9 DEF MeetingInv, Meets, WillPublish, Over, TypeOK
  <2>14. Channels'
    BY <2>3 DEF MeetingInv, Channels
  <2> QED
    BY <2>10, <2>11, <2>12, <2>13, <2>14 DEF MeetingInv
<1>16. ASSUME NEW s \in Sub, AddPeer(s) PROVE MeetingInv'
  <2>1. UNCHANGED <<publish, todo, tracked, avail, rstage, st, listed, pcClosed>>
    BY <1>16 DEF AddPeer, sessionVars, routerVars, sourceVars, listVars, trackVars, otherVars
  <2>2. Nothing' /\ ListedServed'
    BY <2>1 DEF MeetingInv, Nothing, ListedServed, Created
  <2>3. Subscribed'
    BY <1>16, <2>1 DEF AddPeer, MeetingInv, Subscribed, TypeOK
  <2>4. \A t \in Sub : (Given(t)' <=> Given(t)) /\ (WillPublish(t)' <=> WillPublish(t))
    BY <2>1 DEF Given, WillPublish, Created
  <2>5. \A t \in Sub : js'[t] = "joined" /\ pubIn' => js[t] = "joined" /\ pubIn
    BY <1>16 DEF AddPeer, TypeOK
  <2>6. Meets'
    BY <2>1, <2>4, <2>5 DEF MeetingInv, Meets, Over
  <2>7. Channels'
    BY <1>16, <2>1 DEF AddPeer, MeetingInv, Channels, TypeOK, sessionVars, routerVars, sourceVars, listVars, trackVars, otherVars
  <2> QED
    BY <2>2, <2>3, <2>6, <2>7 DEF MeetingInv
<1>17. ASSUME NEW s \in Sub, Subscribe(s) PROVE MeetingInv'
  <2>1. UNCHANGED <<publish, todo, tracked, avail, rstage, st, listed, pcClosed>>
    BY <1>17 DEF Subscribe, sessionVars, routerVars, sourceVars, listVars, trackVars, otherVars
  <2>2. Nothing' /\ ListedServed'
    BY <2>1 DEF MeetingInv, Nothing, ListedServed, Created
  <2>3. Subscribed'
    BY <1>17, <2>1 DEF Subscribe, MeetingInv, Subscribed, TypeOK
  <2>4. \A t \in Sub : (Given(t)' <=> Given(t)) /\ (WillPublish(t)' <=> WillPublish(t))
    BY <2>1 DEF Given, WillPublish, Created
  <2>5. \A t \in Sub : js'[t] = "joined" /\ pubIn' => js[t] = "joined" /\ pubIn
    BY <1>17 DEF Subscribe, TypeOK
  <2>6. Meets'
    BY <2>1, <2>4, <2>5 DEF MeetingInv, Meets, Over
  <2>7. Channels'
    BY <1>17, <2>1 DEF Subscribe, MeetingInv, Channels, TypeOK, sessionVars, routerVars, sourceVars, listVars, trackVars, otherVars
  <2> QED
    BY <2>2, <2>3, <2>6, <2>7 DEF MeetingInv
<1>18. ASSUME NEW s \in Sub, SubscribeTo(s) PROVE MeetingInv'
  <2> DEFINE d == <<s, "subscribe">>
  <2>1. d \in DT /\ d[1] = s /\ d[2] = "subscribe"
    BY CallTrack DEF Call
  <2>2. st[d] = "no"
    BY <1>18 DEF SubscribeTo, MeetingInv, Nothing
  <2>3. /\ \A e \in DT : e # d => st'[e] = st[e]
        /\ st'[d] \in {"list", "skip"}
        /\ UNCHANGED <<mode, js, pubIn, label, chan, publish, tracked, avail, rstage, listed, pcClosed>>
    BY <1>18, <2>1 DEF SubscribeTo, Begin, TypeOK, sessionVars, sourceVars, routerVars, trackVars, otherVars
  <2>4. rstage = "open" /\ st'[d] = "skip" => \E e \in listed : e[1] = s
    BY <1>18, <2>1 DEF SubscribeTo, Begin, TypeOK, Of
  <2>5. \A t \in Sub, x \in Call : Created(<<t, x>>) => Created(<<t, x>>)'
    BY <2>2, <2>3, CallTrack DEF Created
  <2>6. \A t \in Sub : Given(t) => Given(t)'
    BY <2>5 DEF Given
  <2>7. rstage = "open" /\ st'[d] = "skip" => Given(s)
    <3>1. SUFFICES ASSUME NEW e \in listed, e[1] = s, rstage = "open" PROVE Given(s)
      BY <2>4
    <3>2. e \in DT /\ Created(e)
      BY <3>1 DEF MeetingInv, ListedServed, TypeOK
    <3>3. e[2] \in Call /\ e = <<s, e[2]>>
      BY <3>1, <3>2, TrackCall
    <3> QED
      BY <3>2, <3>3 DEF Given
  <2>8. todo' = todo
    BY <1>18 DEF SubscribeTo, routerVars
  <2>9. \A t \in Sub : /\ <<t, "publish">> \in DT /\ <<t, "publish">> # d
                       /\ <<t, "subscribe">> \in DT /\ (t # s => <<t, "subscribe">> # d)
    BY CallTrack DEF Call
  <2>10. Nothing'
    BY <2>3, <2>8, <2>9, <1>18 DEF MeetingInv, Nothing, TypeOK, SubscribeTo, Begin
  <2>11. ListedServed'
    BY <2>2, <2>3 DEF MeetingInv, ListedServed, Created, TypeOK
  <2>12. Subscribed'
    BY <2>3, <2>9, <1>18 DEF MeetingInv, Subscribed, SubscribeTo
  <2>13. Meets'
    BY <2>2, <2>3, <2>6, <2>7, <2>8, <2>9 DEF MeetingInv, Meets, WillPublish, Over, TypeOK
  <2>14. Channels'
    BY <2>3 DEF MeetingInv, Channels
  <2> QED
    BY <2>10, <2>11, <2>12, <2>13, <2>14 DEF MeetingInv
<1>19. ASSUME NEW d \in DT, ListTrack(d) PROVE MeetingInv'
  <2>1. st[d] = "list" /\ rstage = "open"
    BY <1>19 DEF ListTrack
  <2>2. /\ \A e \in DT : e # d => st'[e] = st[e]
        /\ st'[d] = "store" /\ listed' = listed \cup {d}
        /\ UNCHANGED <<mode, js, pubIn, label, chan, publish, todo, tracked, avail, rstage, pcClosed>>
    BY <1>19 DEF ListTrack, TypeOK, sessionVars, routerVars, sourceVars, listVars, trackVars, otherVars
  <2>3. d = <<d[1], d[2]>> /\ d[1] \in Sub /\ d[2] \in Call
    BY TrackCall
  <2>4. \A t \in Sub : /\ <<t, "publish">> \in DT /\ <<t, "subscribe">> \in DT
                       /\ <<t, "publish">> = d \/ <<t, "subscribe">> = d => t = d[1]
    BY CallTrack DEF Call
  <2>5. \A t \in Sub, x \in Call : Created(<<t, x>>) => Created(<<t, x>>)'
    BY <2>1, <2>2, CallTrack DEF Created
  <2>6. \A t \in Sub : Given(t) => Given(t)'
    BY <2>5 DEF Given
  <2>7. Given(d[1])'
    BY <2>2, <2>3 DEF Given, Created
  <2>8. Nothing'
    BY <2>1, <2>2, <2>4 DEF MeetingInv, Nothing, TypeOK
  <2>9. ListedServed'
    BY <2>1, <2>2 DEF MeetingInv, ListedServed, Created, TypeOK
  <2>10. Subscribed'
    BY <2>1, <2>2, <2>4 DEF MeetingInv, Subscribed
  <2>11. Meets'
    BY <2>1, <2>2, <2>4, <2>6, <2>7 DEF MeetingInv, Meets, WillPublish, Over, TypeOK
  <2>12. Channels'
    BY <2>2 DEF MeetingInv, Channels
  <2> QED
    BY <2>8, <2>9, <2>10, <2>11, <2>12 DEF MeetingInv
<1>20. ASSUME NEW d \in DT, ListFails(d) PROVE MeetingInv'
  <2>1. st[d] = "list" /\ d[1] \in pcClosed
    BY <1>20 DEF ListFails
  <2>2. /\ \A e \in DT : e # d => st'[e] = st[e]
        /\ st'[d] = "skip" /\ listed' = listed
        /\ UNCHANGED <<mode, js, pubIn, label, chan, publish, todo, tracked, avail, rstage, pcClosed>>
    BY <1>20 DEF ListFails, TypeOK, sessionVars, routerVars, sourceVars, listVars, trackVars, otherVars
  <2>3. d = <<d[1], d[2]>> /\ d[1] \in Sub /\ d[2] \in Call
    BY TrackCall
  <2>4. \A t \in Sub : /\ <<t, "publish">> \in DT /\ <<t, "subscribe">> \in DT
                       /\ <<t, "publish">> = d \/ <<t, "subscribe">> = d => t = d[1]
    BY CallTrack DEF Call
  <2>5. \A t \in Sub, x \in Call : Created(<<t, x>>) => Created(<<t, x>>)'
    BY <2>1, <2>2, CallTrack DEF Created
  <2>6. \A t \in Sub : Given(t) => Given(t)'
    BY <2>5 DEF Given
  <2>8. Nothing'
    BY <2>1, <2>2, <2>4 DEF MeetingInv, Nothing, TypeOK
  <2>9. ListedServed'
    BY <2>1, <2>2 DEF MeetingInv, ListedServed, Created, TypeOK
  <2>10. Subscribed'
    BY <2>1, <2>2, <2>4 DEF MeetingInv, Subscribed
  <2>11. Meets'
    BY <2>1, <2>2, <2>4, <2>6 DEF MeetingInv, Meets, WillPublish, Over, TypeOK
  <2>12. Channels'
    BY <2>2 DEF MeetingInv, Channels
  <2> QED
    BY <2>8, <2>9, <2>10, <2>11, <2>12 DEF MeetingInv
<1>21. ASSUME NEW d \in DT, ReceiverRefuses(d) PROVE MeetingInv'
  <2>1. st[d] = "list" /\ rstage # "open"
    BY <1>21 DEF ReceiverRefuses
  <2>2. /\ \A e \in DT : e # d => st'[e] = st[e]
        /\ st'[d] = "skip" /\ listed' = listed \cup {d}
        /\ UNCHANGED <<mode, js, pubIn, label, chan, publish, todo, tracked, avail, rstage, pcClosed>>
    BY <1>21 DEF ReceiverRefuses, TypeOK, sessionVars, routerVars, sourceVars, listVars, trackVars, otherVars
  <2>3. d = <<d[1], d[2]>> /\ d[1] \in Sub /\ d[2] \in Call
    BY TrackCall
  <2>4. \A t \in Sub : /\ <<t, "publish">> \in DT /\ <<t, "subscribe">> \in DT
                       /\ <<t, "publish">> = d \/ <<t, "subscribe">> = d => t = d[1]
    BY CallTrack DEF Call
  <2>5. \A t \in Sub, x \in Call : Created(<<t, x>>) => Created(<<t, x>>)'
    BY <2>1, <2>2, CallTrack DEF Created
  <2>6. \A t \in Sub : Given(t) => Given(t)'
    BY <2>5 DEF Given
  <2>8. Nothing'
    BY <2>1, <2>2, <2>4 DEF MeetingInv, Nothing, TypeOK
  <2>9. ListedServed'
    BY <2>1, <2>2 DEF MeetingInv, ListedServed, Created, TypeOK
  <2>10. Subscribed'
    BY <2>1, <2>2, <2>4 DEF MeetingInv, Subscribed
  <2>11. Meets'
    BY <2>1, <2>2, <2>4, <2>6 DEF MeetingInv, Meets, WillPublish, Over, TypeOK
  <2>12. Channels'
    BY <2>2 DEF MeetingInv, Channels
  <2> QED
    BY <2>8, <2>9, <2>10, <2>11, <2>12 DEF MeetingInv
<1>22. ASSUME NEW d \in DT, StoreTrack(d) PROVE MeetingInv'
  <2>1. st[d] = "store" /\ TRUE
    BY <1>22 DEF StoreTrack
  <2>2. /\ \A e \in DT : e # d => st'[e] = st[e]
        /\ st'[d] = "done" /\ listed' = listed
        /\ UNCHANGED <<mode, js, pubIn, label, chan, publish, todo, tracked, avail, rstage, pcClosed>>
    BY <1>22 DEF StoreTrack, TypeOK, sessionVars, routerVars, sourceVars, listVars, trackVars, otherVars
  <2>3. d = <<d[1], d[2]>> /\ d[1] \in Sub /\ d[2] \in Call
    BY TrackCall
  <2>4. \A t \in Sub : /\ <<t, "publish">> \in DT /\ <<t, "subscribe">> \in DT
                       /\ <<t, "publish">> = d \/ <<t, "subscribe">> = d => t = d[1]
    BY CallTrack DEF Call
  <2>5. \A t \in Sub, x \in Call : Created(<<t, x>>) => Created(<<t, x>>)'
    BY <2>1, <2>2, CallTrack DEF Created
  <2>6. \A t \in Sub : Given(t) => Given(t)'
    BY <2>5 DEF Given
  <2>7. Given(d[1])'
    BY <2>2, <2>3 DEF Given, Created
  <2>8. Nothing'
    BY <2>1, <2>2, <2>4 DEF MeetingInv, Nothing, TypeOK
  <2>9. ListedServed'
    BY <2>1, <2>2 DEF MeetingInv, ListedServed, Created, TypeOK
  <2>10. Subscribed'
    BY <2>1, <2>2, <2>4 DEF MeetingInv, Subscribed
  <2>11. Meets'
    BY <2>1, <2>2, <2>4, <2>6, <2>7 DEF MeetingInv, Meets, WillPublish, Over, TypeOK
  <2>12. Channels'
    BY <2>2 DEF MeetingInv, Channels
  <2> QED
    BY <2>8, <2>9, <2>10, <2>11, <2>12 DEF MeetingInv
<1>23. ASSUME DeleteReceiver PROVE MeetingInv'
  <2>1. /\ rstage = "closing" /\ rstage' = "gone"
        /\ UNCHANGED <<js, pubIn, label, chan, publish, todo, tracked, avail, st, listed, pcClosed>>
    BY <1>23 DEF DeleteReceiver, sessionVars, routerVars, sourceVars, listVars, trackVars, otherVars
  <2>2. \A t \in Sub : (Given(t)' <=> Given(t)) /\ (WillPublish(t)' <=> WillPublish(t))
    BY <2>1 DEF Given, WillPublish, Created
  <2>3. Nothing' /\ ListedServed' /\ Subscribed'
    BY <2>1 DEF MeetingInv, Nothing, ListedServed, Subscribed, Created
  <2>4. Meets' /\ Channels'
    BY <2>1, <2>2 DEF MeetingInv, Meets, Channels, Over
  <2> QED
    BY <2>3, <2>4 DEF MeetingInv
<1>24. ASSUME 
         ChannelPanics \/ StopRouter \/ TrackRemoved \/ Feedback \/ ClosePC
     PROVE MeetingInv'
  <2>1. UNCHANGED <<js, pubIn, label, chan, publish, todo, tracked, avail, rstage, st,
      listed, pcClosed>>
    BY <1>24 DEF ChannelPanics, StopRouter, TrackRemoved, Feedback, ClosePC,
      sessionVars, routerVars, sourceVars, listVars, trackVars, otherVars
  <2> QED
    BY <2>1 DEF MeetingInv, Nothing, ListedServed, Subscribed, Meets, Channels,
      WillPublish, Over, Given, Created
<1>25. ASSUME NEW k \in Caller, NEW d \in DT, NEW l \in Layer,
         SwitchStarts(k, d, l)
     PROVE MeetingInv'
  <2>1. UNCHANGED <<js, pubIn, label, chan, publish, todo, tracked, avail, rstage, st,
      listed, pcClosed>>
    BY <1>25 DEF SwitchStarts, sessionVars, routerVars, sourceVars, listVars,
      trackVars, otherVars
  <2> QED
    BY <2>1 DEF MeetingInv, Nothing, ListedServed, Subscribed, Meets, Channels,
      WillPublish, Over, Given, Created
<1>26. ASSUME NEW l \in Layer,
         KeyFrame(l) \/ MoveEnds(l)
     PROVE MeetingInv'
  <2>1. UNCHANGED <<js, pubIn, label, chan, publish, todo, tracked, avail, rstage, st,
      listed, pcClosed>>
    BY <1>26 DEF KeyFrame, MoveEnds, sessionVars, routerVars, sourceVars, listVars,
      trackVars, otherVars
  <2> QED
    BY <2>1 DEF MeetingInv, Nothing, ListedServed, Subscribed, Meets, Channels,
      WillPublish, Over, Given, Created
<1>27. ASSUME NEW d \in DT,
         RequestPanics(d)
     PROVE MeetingInv'
  <2>1. UNCHANGED <<js, pubIn, label, chan, publish, todo, tracked, avail, rstage, st,
      listed, pcClosed>>
    BY <1>27 DEF RequestPanics, sessionVars, routerVars, sourceVars, listVars,
      trackVars, otherVars
  <2> QED
    BY <2>1 DEF MeetingInv, Nothing, ListedServed, Subscribed, Meets, Channels,
      WillPublish, Over, Given, Created
<1>28. ASSUME NEW k \in Caller,
         SwitchEnqueues(k) \/ SwitchEnds(k)
     PROVE MeetingInv'
  <2>1. UNCHANGED <<js, pubIn, label, chan, publish, todo, tracked, avail, rstage, st,
      listed, pcClosed>>
    BY <1>28 DEF SwitchEnqueues, SwitchEnds, sessionVars, routerVars, sourceVars,
      listVars, trackVars, otherVars
  <2> QED
    BY <2>1 DEF MeetingInv, Nothing, ListedServed, Subscribed, Meets, Channels,
      WillPublish, Over, Given, Created
<1>29. ASSUME UNCHANGED vars PROVE MeetingInv'
  BY <1>29 DEF vars, MeetingInv, Nothing, ListedServed, Subscribed, Meets, Channels,
    WillPublish, Over, Given, Created
<1> QED
  BY <1>1, <1>2, <1>3, <1>4, <1>5, <1>6, <1>7, <1>8, <1>9, <1>10, <1>11, <1>12, <1>13,
    <1>14, <1>15, <1>16, <1>17, <1>18, <1>19, <1>20, <1>21, <1>22, <1>23, <1>24, <1>25,
    <1>26, <1>27, <1>28, <1>29 DEF Next, Event, Step, Adding, Joining, Switching,
    Moving, Closing

\* A track that is stored is kept in a list until it is closed.
LEMMA KeepingStep == TypeOK /\ Nothing /\ Layers /\ KeepingInv /\ [Next]_vars => KeepingInv'
<1> SUFFICES ASSUME TypeOK /\ Nothing /\ Layers /\ KeepingInv, [Next]_vars PROVE KeepingInv'
  OBVIOUS
<1>1. ASSUME NEW l \in Layer, AddLayer(l) PROVE KeepingInv'
  <2>1. rstage = "open" /\ avail' = avail \cup {l} /\ UNCHANGED <<rstage, st, swept, store, late, dclosed>>
    BY <1>1 DEF AddLayer
  <2> QED
    BY <2>1 DEF KeepingInv, Kept
<1>2. ASSUME NEW s \in Sub, RequestTo(s) PROVE KeepingInv'
  <2>1. /\ \A e \in DT : st'[e] = "done" => st[e] = "done"
        /\ UNCHANGED <<avail, rstage, swept, store, late, dclosed>>
    BY <1>2 DEF RequestTo, Begin, TypeOK, sessionVars, routerVars, sourceVars, listVars, trackVars, otherVars
  <2> QED
    BY <2>1 DEF KeepingInv, Kept
<1>3. ASSUME NEW d \in DT, Unsubscribe(d) PROVE KeepingInv'
  <2>1. /\ \A e \in DT : st'[e] = "done" => st[e] = "done"
        /\ UNCHANGED <<avail, rstage, swept, store, late, dclosed>>
    BY <1>3 DEF Unsubscribe, TypeOK, sessionVars, routerVars, sourceVars, listVars, trackVars, otherVars
  <2> QED
    BY <2>1 DEF KeepingInv, Kept
<1>4. ASSUME NEW l \in Layer, AddReceiver(l) PROVE KeepingInv'
  <2>1. rstage = "none" /\ rstage' = "open" /\ UNCHANGED <<st, swept>>
    BY <1>4 DEF AddReceiver, sessionVars, routerVars, sourceVars, listVars, trackVars, otherVars
  <2> QED
    BY <2>1 DEF KeepingInv, Kept, Nothing
<1>5. ASSUME NEW l \in Layer, WriteFails(l) PROVE KeepingInv'
  <2>1. /\ store' = [store EXCEPT ![l] = {}] /\ dclosed' = dclosed \cup store[l]
        /\ UNCHANGED <<st, avail, rstage, swept, late>>
    BY <1>5 DEF WriteFails, CloseAll, sessionVars, routerVars, sourceVars, listVars, trackVars, otherVars
  <2>2. \A m \in Layer, e \in DT : e \in store[m] => e \in store'[m] \/ e \in dclosed'
    BY <2>1 DEF TypeOK
  <2> QED
    BY <2>1, <2>2 DEF KeepingInv, Kept, TypeOK
<1>6. ASSUME NEW l \in Layer, MoveTrack(l) PROVE KeepingInv'
  <2> DEFINE d == Head(pend[l])
             from == cur[d]
  <2>1. d \in DT
    BY <1>6, HeadTailProperties DEF MoveTrack, TypeOK
  <2>2. from \in Layer
    BY <2>1 DEF TypeOK
  <2>3. /\ store' = [[store EXCEPT ![from] = {}] EXCEPT ![l] = @ \cup {d}]
        /\ dclosed' = dclosed \cup store[from]
        /\ UNCHANGED <<st, avail, rstage, swept, late>>
    BY <1>6 DEF MoveTrack, CloseAll, sessionVars, routerVars, sourceVars, listVars, trackVars, otherVars
  <2>4. \A m \in Layer, e \in DT : e \in store[m] => e \in store'[m] \/ e \in dclosed'
    BY <2>2, <2>3 DEF TypeOK
  <2> HIDE DEF d, from
  <2> QED
    BY <2>3, <2>4 DEF KeepingInv, Kept, TypeOK
<1>7. ASSUME NEW l \in Layer, WriterEnds(l) PROVE KeepingInv'
  <2>1. /\ rstage' # rstage => rstage' = "closing"
        /\ UNCHANGED <<store, st, avail, swept, late, dclosed>>
    BY <1>7 DEF WriterEnds, sessionVars, routerVars, sourceVars, listVars, trackVars, otherVars
  <2> QED
    BY <2>1 DEF KeepingInv, Kept
<1>8. ASSUME NEW l \in Layer, CloseTracks(l) PROVE KeepingInv'
  <2>1. /\ dclosed' = dclosed \cup store[l] /\ swept' = swept \cup {l} /\ rstage = "closing"
        /\ UNCHANGED <<store, st, avail, rstage, late>>
    BY <1>8 DEF CloseTracks, CloseAll, sessionVars, routerVars, sourceVars, listVars, trackVars, otherVars
  <2> QED
    BY <2>1 DEF KeepingInv, Kept
<1>9. ASSUME NEW s \in Sub, PublishTo(s) PROVE KeepingInv'
  <2>1. /\ \A e \in DT : st'[e] = "done" => st[e] = "done"
        /\ UNCHANGED <<avail, rstage, swept, store, late, dclosed>>
    BY <1>9 DEF PublishTo, Begin, TypeOK, sessionVars, routerVars, sourceVars, listVars, trackVars, otherVars
  <2> QED
    BY <2>1 DEF KeepingInv, Kept
<1>10. ASSUME NEW s \in Sub, SubscribeTo(s) PROVE KeepingInv'
  <2>1. /\ \A e \in DT : st'[e] = "done" => st[e] = "done"
        /\ UNCHANGED <<avail, rstage, swept, store, late, dclosed>>
    BY <1>10 DEF SubscribeTo, Begin, TypeOK, sessionVars, routerVars, sourceVars, listVars, trackVars, otherVars
  <2> QED
    BY <2>1 DEF KeepingInv, Kept
<1>11. ASSUME NEW d \in DT, ListTrack(d) PROVE KeepingInv'
  <2>1. /\ \A e \in DT : st'[e] = "done" => st[e] = "done"
        /\ UNCHANGED <<avail, rstage, swept, store, late, dclosed>>
    BY <1>11 DEF ListTrack, TypeOK, sessionVars, routerVars, sourceVars, listVars, trackVars, otherVars
  <2> QED
    BY <2>1 DEF KeepingInv, Kept
<1>12. ASSUME NEW d \in DT, ListFails(d) PROVE KeepingInv'
  <2>1. /\ \A e \in DT : st'[e] = "done" => st[e] = "done"
        /\ UNCHANGED <<avail, rstage, swept, store, late, dclosed>>
    BY <1>12 DEF ListFails, Unlock, TypeOK, sessionVars, routerVars, sourceVars, listVars, trackVars, otherVars
  <2> QED
    BY <2>1 DEF KeepingInv, Kept
<1>13. ASSUME NEW d \in DT, ReceiverRefuses(d) PROVE KeepingInv'
  <2>1. /\ \A e \in DT : st'[e] = "done" => st[e] = "done"
        /\ UNCHANGED <<avail, rstage, swept, store, late, dclosed>>
    BY <1>13 DEF ReceiverRefuses, Unlock, TypeOK, sessionVars, routerVars, sourceVars, listVars, trackVars, otherVars
  <2> QED
    BY <2>1 DEF KeepingInv, Kept
<1>14. ASSUME NEW d \in DT, StoreTrack(d) PROVE KeepingInv'
  <2>1. /\ store' = [store EXCEPT ![slot[d]] = @ \cup {d}] /\ st' = [st EXCEPT ![d] = "done"]
        /\ late' = IF rstage = "open" THEN late ELSE late \cup {d}
        /\ UNCHANGED <<avail, rstage, swept, dclosed>>
    BY <1>14 DEF StoreTrack, sessionVars, routerVars, sourceVars, listVars, trackVars, otherVars
  <2>2. slot[d] \in avail /\ slot[d] \in Layer
    BY <1>14 DEF StoreTrack, Layers, Created, TypeOK
  <2> QED
    BY <2>1, <2>2 DEF KeepingInv, Kept, TypeOK
<1>15. ASSUME DeleteReceiver PROVE KeepingInv'
  <2>1. /\ rstage = "closing" /\ swept = avail /\ rstage' = "gone"
        /\ UNCHANGED <<store, st, avail, swept, late, dclosed>>
    BY <1>15 DEF DeleteReceiver, sessionVars, routerVars, sourceVars, listVars, trackVars, otherVars
  <2> QED
    BY <2>1 DEF KeepingInv, Kept
<1>16. ASSUME 
         OpenChannel \/ ChannelPanics \/ RemovePeer \/ StopRouter \/ TrackRemoved
      \/ Feedback \/ PublishPeers \/ PublishEnds \/ ChannelPeers \/ ClosePC
     PROVE KeepingInv'
  <2>1. UNCHANGED <<avail, rstage, swept, store, st, late, dclosed>>
    BY <1>16 DEF OpenChannel, ChannelPanics, RemovePeer, StopRouter, TrackRemoved,
      Feedback, PublishPeers, PublishEnds, ChannelPeers, ClosePC, sessionVars,
      routerVars, sourceVars, listVars, trackVars, otherVars
  <2> QED
    BY <2>1 DEF KeepingInv, Kept
<1>17. ASSUME NEW s \in Sub,
         SubscriberCloses(s) \/ AddPeer(s) \/ Subscribe(s)
     PROVE KeepingInv'
  <2>1. UNCHANGED <<avail, rstage, swept, store, st, late, dclosed>>
    BY <1>17 DEF SubscriberCloses, AddPeer, Subscribe, sessionVars, routerVars,
      sourceVars, listVars, trackVars, otherVars
  <2> QED
    BY <2>1 DEF KeepingInv, Kept
<1>18. ASSUME NEW k \in Caller, NEW d \in DT, NEW l \in Layer,
         SwitchStarts(k, d, l)
     PROVE KeepingInv'
  <2>1. UNCHANGED <<avail, rstage, swept, store, st, late, dclosed>>
    BY <1>18 DEF SwitchStarts, sessionVars, routerVars, sourceVars, listVars,
      trackVars, otherVars
  <2> QED
    BY <2>1 DEF KeepingInv, Kept
<1>19. ASSUME NEW l \in Layer,
         KeyFrame(l) \/ MoveEnds(l)
     PROVE KeepingInv'
  <2>1. UNCHANGED <<avail, rstage, swept, store, st, late, dclosed>>
    BY <1>19 DEF KeyFrame, MoveEnds, sessionVars, routerVars, sourceVars, listVars,
      trackVars, otherVars
  <2> QED
    BY <2>1 DEF KeepingInv, Kept
<1>20. ASSUME NEW d \in DT,
         RequestPanics(d)
     PROVE KeepingInv'
  <2>1. UNCHANGED <<avail, rstage, swept, store, st, late, dclosed>>
    BY <1>20 DEF RequestPanics, sessionVars, routerVars, sourceVars, listVars,
      trackVars, otherVars
  <2> QED
    BY <2>1 DEF KeepingInv, Kept
<1>21. ASSUME NEW k \in Caller,
         SwitchEnqueues(k) \/ SwitchEnds(k)
     PROVE KeepingInv'
  <2>1. UNCHANGED <<avail, rstage, swept, store, st, late, dclosed>>
    BY <1>21 DEF SwitchEnqueues, SwitchEnds, sessionVars, routerVars, sourceVars,
      listVars, trackVars, otherVars
  <2> QED
    BY <2>1 DEF KeepingInv, Kept
<1>22. ASSUME UNCHANGED vars PROVE KeepingInv'
  BY <1>22 DEF vars, KeepingInv, Kept
<1> QED
  BY <1>1, <1>2, <1>3, <1>4, <1>5, <1>6, <1>7, <1>8, <1>9, <1>10, <1>11, <1>12, <1>13,
    <1>14, <1>15, <1>16, <1>17, <1>18, <1>19, <1>20, <1>21, <1>22 DEF Next, Event,
    Step, Adding, Joining, Switching, Moving, Closing

\* What names a layer names one the receiver has.
LEMMA LayersStep == TypeOK /\ Nothing /\ Layers /\ [Next]_vars => Layers'
<1> SUFFICES ASSUME TypeOK /\ Nothing /\ Layers, [Next]_vars PROVE Layers'
  OBVIOUS
<1>1. ASSUME NEW l \in Layer, AddLayer(l) PROVE Layers'
  <2>1. /\ rstage = "open" /\ mode # "simple" /\ avail' = avail \cup {l}
        /\ \A m \in Layer : m # l => pend'[m] = pend[m]
        /\ UNCHANGED <<mode, rstage, st, slot, call>>
    BY <1>1 DEF AddLayer, TypeOK, sessionVars, routerVars, sourceVars, listVars, trackVars, otherVars
  <2> QED
    BY <2>1 DEF Layers, Created, Active
<1>2. ASSUME NEW s \in Sub, RequestTo(s) PROVE Layers'
  <2>1. /\ \A e \in DT : Created(e)' => Created(e)
        /\ UNCHANGED <<mode, avail, rstage, slot, pend, call>>
    BY <1>2 DEF RequestTo, Begin, TypeOK, Created, sessionVars, routerVars, sourceVars, listVars, trackVars, otherVars
  <2> QED
    BY <2>1 DEF Layers, Active
<1>3. ASSUME NEW d \in DT, Unsubscribe(d) PROVE Layers'
  <2>1. /\ \A e \in DT : Created(e)' => Created(e)
        /\ UNCHANGED <<mode, avail, rstage, slot, pend, call>>
    BY <1>3 DEF Unsubscribe, TypeOK, Created, sessionVars, routerVars, sourceVars, listVars, trackVars, otherVars
  <2> QED
    BY <2>1 DEF Layers, Active
<1>4. ASSUME NEW k \in Caller, NEW d \in DT, NEW l \in Layer, SwitchStarts(k, d, l) PROVE Layers'
  <2>1. /\ l \in avail /\ call' = [call EXCEPT ![k] = [step |-> "enqueue", d |-> d, l |-> l]]
        /\ UNCHANGED <<mode, avail, rstage, st, slot, pend>>
    BY <1>4 DEF SwitchStarts, sessionVars, routerVars, sourceVars, listVars, trackVars, otherVars
  <2>2. \A m \in Caller : Active(m)' => (Active(m) /\ call'[m] = call[m]) \/ call'[m].l = l
    BY <2>1 DEF Active, TypeOK
  <2> QED
    BY <2>1, <2>2 DEF Layers, Created
<1>5. ASSUME NEW l \in Layer, AddReceiver(l) PROVE Layers'
  <2>1. rstage = "none" /\ (mode = "simple" => l = 0) /\ avail' = {l} /\ UNCHANGED <<mode, st, slot, pend, call>>
    BY <1>5 DEF AddReceiver, sessionVars, routerVars, sourceVars, listVars, trackVars, otherVars
  <2>2. avail = {} /\ \A d \in DT : ~Created(d)
    BY <2>1 DEF Nothing, Created
  <2> QED
    BY <2>1, <2>2 DEF Layers, Created, Active
<1>6. ASSUME NEW l \in Layer, MoveTrack(l) PROVE Layers'
  <2>1. pend[l] # <<>> /\ (\A m \in Layer : m # l => pend'[m] = pend[m]) /\ UNCHANGED <<mode, avail, rstage, st, slot, call>>
    BY <1>6 DEF MoveTrack, TypeOK, sessionVars, routerVars, sourceVars, listVars, trackVars, otherVars
  <2> QED
    BY <2>1 DEF Layers, Created, Active
<1>7. ASSUME NEW l \in Layer, WriterEnds(l) PROVE Layers'
  <2>1. (rstage' = "none" <=> rstage = "none") /\ UNCHANGED <<mode, avail, st, slot, pend, call>>
    BY <1>7 DEF WriterEnds, sessionVars, routerVars, sourceVars, listVars, trackVars, otherVars
  <2> QED
    BY <2>1 DEF Layers, Created, Active
<1>8. ASSUME NEW s \in Sub, PublishTo(s) PROVE Layers'
  <2>1. /\ \A e \in DT : Created(e)' => Created(e)
        /\ UNCHANGED <<mode, avail, rstage, slot, pend, call>>
    BY <1>8 DEF PublishTo, Begin, TypeOK, Created, sessionVars, routerVars, sourceVars, listVars, trackVars, otherVars
  <2> QED
    BY <2>1 DEF Layers, Active
<1>9. ASSUME NEW s \in Sub, SubscribeTo(s) PROVE Layers'
  <2>1. /\ \A e \in DT : Created(e)' => Created(e)
        /\ UNCHANGED <<mode, avail, rstage, slot, pend, call>>
    BY <1>9 DEF SubscribeTo, Begin, TypeOK, Created, sessionVars, routerVars, sourceVars, listVars, trackVars, otherVars
  <2> QED
    BY <2>1 DEF Layers, Active
<1>10. ASSUME NEW d \in DT, ListTrack(d) PROVE Layers'
  <2>1. /\ rstage = "open" /\ slot' = [slot EXCEPT ![d] = InitialLayer]
        /\ \A e \in DT : e # d => st'[e] = st[e]
        /\ UNCHANGED <<mode, avail, rstage, pend, call>>
    BY <1>10 DEF ListTrack, TypeOK, sessionVars, routerVars, sourceVars, listVars, trackVars, otherVars
  <2>2. InitialLayer \in avail
    BY <2>1, InitialIsAvailable DEF Layers
  <2>3. \A e \in DT : Created(e)' => slot'[e] \in avail
    BY <2>1, <2>2 DEF Created, Layers, TypeOK
  <2> QED
    BY <2>1, <2>3 DEF Layers, Active
<1>11. ASSUME NEW d \in DT, ListFails(d) PROVE Layers'
  <2>1. /\ \A e \in DT : Created(e)' => Created(e)
        /\ UNCHANGED <<mode, avail, rstage, slot, pend, call>>
    BY <1>11 DEF ListFails, Unlock, TypeOK, Created, sessionVars, routerVars, sourceVars, listVars, trackVars, otherVars
  <2> QED
    BY <2>1 DEF Layers, Active
<1>12. ASSUME NEW d \in DT, ReceiverRefuses(d) PROVE Layers'
  <2>1. /\ \A e \in DT : Created(e)' => Created(e)
        /\ UNCHANGED <<mode, avail, rstage, slot, pend, call>>
    BY <1>12 DEF ReceiverRefuses, Unlock, TypeOK, Created, sessionVars, routerVars, sourceVars, listVars, trackVars, otherVars
  <2> QED
    BY <2>1 DEF Layers, Active
<1>13. ASSUME NEW d \in DT, StoreTrack(d) PROVE Layers'
  <2>1. /\ \A e \in DT : Created(e)' => Created(e)
        /\ UNCHANGED <<mode, avail, rstage, slot, pend, call>>
    BY <1>13 DEF StoreTrack, Unlock, TypeOK, Created, sessionVars, routerVars, sourceVars, listVars, trackVars, otherVars
  <2> QED
    BY <2>1 DEF Layers, Active
<1>14. ASSUME NEW k \in Caller, SwitchEnqueues(k) PROVE Layers'
  <2>1. /\ Active(k) /\ pend' = [pend EXCEPT ![call[k].l] = Append(@, call[k].d)]
        /\ call' = [call EXCEPT ![k].step = "target"]
        /\ UNCHANGED <<mode, avail, rstage, st, slot>>
    BY <1>14 DEF SwitchEnqueues, Active, sessionVars, routerVars, sourceVars, listVars, trackVars, otherVars
  <2>2. call[k].l \in avail /\ call[k].l \in Layer
    BY <2>1, SwitchOfCall DEF Layers
  <2>3. \A m \in Caller : Active(m)' => Active(m) /\ call'[m].l = call[m].l
    BY <2>1, SwitchOfCall DEF Active, TypeOK, InSwitch
  <2>4. \A m \in Layer : pend'[m] # <<>> => pend[m] # <<>> \/ m = call[k].l
    BY <2>1 DEF TypeOK
  <2> QED
    BY <2>1, <2>2, <2>3, <2>4 DEF Layers, Created
<1>15. ASSUME NEW k \in Caller, SwitchEnds(k) PROVE Layers'
  <2>1. call' = [call EXCEPT ![k] = Done] /\ UNCHANGED <<mode, avail, rstage, st, slot, pend>>
    BY <1>15 DEF SwitchEnds, Done, sessionVars, routerVars, sourceVars, listVars, trackVars, otherVars
  <2>2. \A m \in Caller : Active(m)' => Active(m) /\ call'[m] = call[m]
    BY <2>1 DEF Active, TypeOK, Done
  <2> QED
    BY <2>1, <2>2 DEF Layers, Created
<1>16. ASSUME DeleteReceiver PROVE Layers'
  <2>1. rstage # "none" /\ UNCHANGED <<mode, avail, st, slot, pend, call>>
    BY <1>16 DEF DeleteReceiver, Layers, sessionVars, routerVars, sourceVars, listVars, trackVars, otherVars
  <2> QED
    BY <2>1 DEF Layers, Created, Active
<1>17. ASSUME 
         OpenChannel \/ ChannelPanics \/ RemovePeer \/ StopRouter \/ TrackRemoved
      \/ Feedback \/ PublishPeers \/ PublishEnds \/ ChannelPeers \/ ClosePC
     PROVE Layers'
  <2>1. UNCHANGED <<mode, avail, rstage, st, slot, pend, call>>
    BY <1>17 DEF OpenChannel, ChannelPanics, RemovePeer, StopRouter, TrackRemoved,
      Feedback, PublishPeers, PublishEnds, ChannelPeers, ClosePC, sessionVars,
      routerVars, sourceVars, listVars, trackVars, otherVars
  <2> QED
    BY <2>1 DEF Layers, Created, Active
<1>18. ASSUME NEW s \in Sub,
         SubscriberCloses(s) \/ AddPeer(s) \/ Subscribe(s)
     PROVE Layers'
  <2>1. UNCHANGED <<mode, avail, rstage, st, slot, pend, call>>
    BY <1>18 DEF SubscriberCloses, AddPeer, Subscribe, sessionVars, routerVars,
      sourceVars, listVars, trackVars, otherVars
  <2> QED
    BY <2>1 DEF Layers, Created, Active
<1>19. ASSUME NEW l \in Layer,
         KeyFrame(l) \/ WriteFails(l) \/ MoveEnds(l) \/ CloseTracks(l)
     PROVE Layers'
  <2>1. UNCHANGED <<mode, avail, rstage, st, slot, pend, call>>
    BY <1>19 DEF KeyFrame, WriteFails, CloseAll, MoveEnds, CloseTracks, CloseAll,
      sessionVars, routerVars, sourceVars, listVars, trackVars, otherVars
  <2> QED
    BY <2>1 DEF Layers, Created, Active
<1>20. ASSUME NEW d \in DT,
         RequestPanics(d)
     PROVE Layers'
  <2>1. UNCHANGED <<mode, avail, rstage, st, slot, pend, call>>
    BY <1>20 DEF RequestPanics, sessionVars, routerVars, sourceVars, listVars,
      trackVars, otherVars
  <2> QED
    BY <2>1 DEF Layers, Created, Active
<1>21. ASSUME UNCHANGED vars PROVE Layers'
  BY <1>21 DEF vars, Layers, Created, Active
<1> QED
  BY <1>1, <1>2, <1>3, <1>4, <1>5, <1>6, <1>7, <1>8, <1>9, <1>10, <1>11, <1>12, <1>13,
    <1>14, <1>15, <1>16, <1>17, <1>18, <1>19, <1>20, <1>21 DEF Next, Event, Step,
    Adding, Joining, Switching, Moving, Closing

\* What a step that touches neither queues nor calls leaves alone.
SwitchesSame ==
  \A d \in DT : /\ Queued(d)' <=> Queued(d)
                /\ Busy(d)' <=> Busy(d)
                /\ \A l \in Layer : InQueue(d, l)' <=> InQueue(d, l)

\* Where queues and calls stay, switches go on as before.
LEMMA SwitchesKept ==
  ASSUME SwitchingInv, UNCHANGED <<pend, cur, tgt, call, raced>>
  PROVE  SwitchesSame /\ QueuedOnce' /\ OneSwitch' /\ NoSwitch' /\ InSwitchOK'
<1>1. SwitchesSame
  BY DEF SwitchesSame, Queued, InQueue, Busy
<1>2. QueuedOnce'
  BY DEF SwitchingInv, QueuedOnce
<1>3. OneSwitch'
  BY DEF SwitchingInv, OneSwitch, Active
<1>4. NoSwitch'
  BY <1>1 DEF SwitchingInv, NoSwitch, SwitchesSame
<1>5. InSwitchOK'
  BY <1>1 DEF SwitchingInv, InSwitchOK, Active, Enqueues, Targets, SwitchesSame
<1> QED
  BY <1>1, <1>2, <1>3, <1>4, <1>5

\* A switch that does not overlap another one ends where it should.
LEMMA SwitchingStep == TypeOK /\ Nothing /\ Layers /\ SwitchingInv /\ [Next]_vars => SwitchingInv'
<1> SUFFICES ASSUME TypeOK /\ Nothing /\ Layers /\ SwitchingInv, [Next]_vars PROVE SwitchingInv'
  OBVIOUS
<1>1. ASSUME NEW l \in Layer, AddLayer(l) PROVE SwitchingInv'
  <2> DEFINE moved == Upgraded(l)
             q == SetToSeq(moved)
  <2>1. /\ pend' = [pend EXCEPT ![l] = q]
        /\ tgt' = [d \in DT |-> IF d \in moved THEN l ELSE tgt[d]]
        /\ raced' = raced \cup {d \in moved : Busy(d)}
        /\ UNCHANGED <<store, st, slot, cur, dclosed, call>>
    BY <1>1 DEF AddLayer, Busy, sessionVars, routerVars, sourceVars, listVars, trackVars, otherVars
  <2>2. pend[l] = <<>> /\ pend \in [Layer -> Seq(DT)]
    BY <1>1 DEF AddLayer, Layers, TypeOK
  <2>3. moved \in SUBSET DT
    BY DEF Upgraded, TypeOK
  <2>4. \A d \in moved : /\ cur[d] = tgt[d] /\ cur[d] # l /\ \E m \in Layer : d \in store[m]
    BY DEF Upgraded
  <2>5. /\ q \in Seq(moved)
        /\ \A i, j \in DOMAIN q : q[i] = q[j] => i = j
        /\ \A d \in moved : \E i \in DOMAIN q : q[i] = d
    BY <2>3, ListOfSet
  <2> HIDE DEF moved, q
  <2>6. \A d \in DT : ~InQueue(d, l) /\ (InQueue(d, l)' <=> d \in moved)
    BY <2>1, <2>2, <2>5 DEF InQueue
  <2>7. \A d \in DT, m \in Layer : m # l => (InQueue(d, m)' <=> InQueue(d, m))
    BY <2>1, <2>2 DEF InQueue
  <2>8. \A d \in moved \ raced' : ~Busy(d) /\ ~Queued(d) /\ st[d] = "done"
    <3> SUFFICES ASSUME NEW d \in moved \ raced' PROVE ~Busy(d) /\ ~Queued(d) /\ st[d] = "done"
      OBVIOUS
    <3>1. d \notin raced /\ ~Busy(d) /\ d \in DT
      BY <2>1, <2>3
    <3>2. \A m \in Layer : ~InQueue(d, m)
      BY <2>4, <3>1 DEF SwitchingInv, NoSwitch
    <3> QED
      BY <2>4, <3>1, <3>2 DEF Queued, SwitchingInv, NotStored
  <2>9. \A d \in DT \ moved : tgt'[d] = tgt[d] /\ (Queued(d)' <=> Queued(d))
    BY <2>1, <2>6, <2>7 DEF Queued
  <2>10. \A d \in DT : Busy(d)' <=> Busy(d)
    BY <2>1 DEF Busy
  <2>11. NotStored'
    BY <2>1, <2>8, <2>9, <2>10 DEF SwitchingInv, NotStored
  <2>12. QueuedOnce'
    <3> SUFFICES ASSUME NEW m \in Layer, NEW n \in Layer, NEW i \in DOMAIN pend'[m], NEW j \in DOMAIN pend'[n],
                        pend'[m][i] = pend'[n][j], pend'[m][i] \notin raced'
                 PROVE  m = n /\ i = j
      BY DEF QueuedOnce
    <3>1. CASE m = l /\ n = l
      BY <2>1, <2>2, <2>5, <3>1
    <3>2. CASE m # l /\ n # l
      BY <2>1, <2>2, <3>2 DEF SwitchingInv, QueuedOnce
    <3>3. CASE (m = l) # (n = l)
      <4>1. PICK d \in DT, p \in Layer : d \notin raced' /\ p # l /\ d \in moved /\ InQueue(d, p)
        BY <2>1, <2>2, <2>3, <2>5, <3>3 DEF InQueue
      <4> QED
        BY <2>8, <4>1 DEF Queued
    <3> QED
      BY <3>1, <3>2, <3>3
  <2>13. OneSwitch'
    BY <2>1 DEF SwitchingInv, OneSwitch, Active
  <2>14. NoSwitch'
    <3> SUFFICES ASSUME NEW d \in DT \ raced', ~Busy(d)
                 PROVE  /\ \A m \in Layer : InQueue(d, m)' => tgt'[d] = m /\ cur'[d] # m
                        /\ cur'[d] # tgt'[d] => Queued(d)'
      BY <2>10 DEF NoSwitch
    <3>1. CASE d \in moved
      BY <2>1, <2>4, <2>6, <2>7, <2>8, <3>1 DEF Queued
    <3>2. CASE d \notin moved
      <4>1. /\ \A m \in Layer : InQueue(d, m) => tgt[d] = m /\ cur[d] # m
            /\ cur[d] # tgt[d] => Queued(d)
        BY <2>1 DEF SwitchingInv, NoSwitch
      <4>2. \A m \in Layer : InQueue(d, m)' <=> InQueue(d, m)
        BY <2>6, <2>7, <3>2
      <4> QED
        BY <2>1, <2>9, <3>2, <4>1, <4>2
    <3> QED
      BY <3>1, <3>2
  <2>15. InSwitchOK'
    <3> SUFFICES ASSUME NEW k \in Caller, NEW d \in DT \ raced', NEW m \in Layer,
                        Active(k), call[k].d = d, call[k].l = m
                 PROVE  IF call[k].step = "enqueue" THEN Enqueues(d, m)' ELSE Targets(d, m)'
      BY <2>1 DEF InSwitchOK, Active
    <3>1. Busy(d)
      BY DEF Busy, Active
    <3>2. d \notin moved /\ d \notin raced
      BY <2>1, <3>1
    <3>3. IF call[k].step = "enqueue" THEN Enqueues(d, m) ELSE Targets(d, m)
      BY <3>2 DEF SwitchingInv, InSwitchOK
    <3>4. \A n \in Layer : InQueue(d, n)' <=> InQueue(d, n)
      BY <2>6, <2>7, <3>2
    <3> QED
      BY <2>1, <2>9, <3>2, <3>3, <3>4 DEF Enqueues, Targets
  <2>16. AtItsLayer'
    BY <2>1 DEF SwitchingInv, AtItsLayer
  <2> QED
    BY <2>11, <2>12, <2>13, <2>14, <2>15, <2>16 DEF SwitchingInv
<1>2. ASSUME NEW s \in Sub, RequestTo(s) PROVE SwitchingInv'
  <2>1. /\ \A e \in DT : /\ st'[e] = "done" <=> st[e] = "done"
                         /\ st'[e] = "store" => st[e] = "store"
        /\ UNCHANGED <<store, pend, slot, cur, tgt, dclosed, call, raced>>
    BY <1>2 DEF RequestTo, Begin, TypeOK, sessionVars, routerVars, sourceVars, listVars, trackVars, otherVars
  <2>5. UNCHANGED <<pend, cur, tgt, call, raced>>
    BY <2>1
  <2>2. SwitchesSame /\ QueuedOnce' /\ OneSwitch' /\ NoSwitch' /\ InSwitchOK'
    BY <2>5, SwitchesKept
  <2>3. NotStored'
    BY <2>1, <2>2 DEF SwitchingInv, NotStored, SwitchesSame
  <2>4. AtItsLayer'
    BY <2>1 DEF SwitchingInv, AtItsLayer
  <2> QED
    BY <2>2, <2>3, <2>4 DEF SwitchingInv
<1>3. ASSUME NEW d \in DT, Unsubscribe(d) PROVE SwitchingInv'
  <2>1. /\ \A e \in DT : /\ st'[e] = "done" <=> st[e] = "done"
                         /\ st'[e] = "store" => st[e] = "store"
        /\ UNCHANGED <<store, pend, slot, cur, tgt, dclosed, call, raced>>
    BY <1>3 DEF Unsubscribe, TypeOK, sessionVars, routerVars, sourceVars, listVars, trackVars, otherVars
  <2>5. UNCHANGED <<pend, cur, tgt, call, raced>>
    BY <2>1
  <2>2. SwitchesSame /\ QueuedOnce' /\ OneSwitch' /\ NoSwitch' /\ InSwitchOK'
    BY <2>5, SwitchesKept
  <2>3. NotStored'
    BY <2>1, <2>2 DEF SwitchingInv, NotStored, SwitchesSame
  <2>4. AtItsLayer'
    BY <2>1 DEF SwitchingInv, AtItsLayer
  <2> QED
    BY <2>2, <2>3, <2>4 DEF SwitchingInv
<1>4. ASSUME NEW k \in Caller, NEW d \in DT, NEW l \in Layer, SwitchStarts(k, d, l) PROVE SwitchingInv'
  <2>1. /\ call[k] = Idle /\ st[d] \in {"store", "done"} /\ cur[d] = tgt[d] /\ cur[d] # l
        /\ call' = [call EXCEPT ![k] = [step |-> "enqueue", d |-> d, l |-> l]]
        /\ raced' = IF Busy(d) \/ st[d] = "store" THEN raced \cup {d} ELSE raced
        /\ UNCHANGED <<store, pend, st, slot, cur, tgt, dclosed>>
    BY <1>4 DEF SwitchStarts, sessionVars, routerVars, sourceVars, listVars, trackVars, otherVars
  <2>2. \A e \in DT, m \in Layer : InQueue(e, m)' <=> InQueue(e, m)
    BY <2>1 DEF InQueue
  <2>3. \A e \in DT : Queued(e)' <=> Queued(e)
    BY <2>2 DEF Queued
  <2>4. /\ \A m \in Caller : m # k => call'[m] = call[m]
        /\ call'[k].step = "enqueue" /\ call'[k].d = d /\ call'[k].l = l /\ ~Active(k)
    BY <2>1 DEF TypeOK, Idle, Active
  <2>5. \A e \in DT : e # d => (Busy(e)' <=> Busy(e))
    BY <2>4 DEF Busy, Active
  <2>6. Busy(d)'
    BY <2>4 DEF Busy
  <2>7. \A e \in DT \ raced' : e \notin raced /\ (e = d => st[d] = "done" /\ ~Busy(d))
    BY <2>1
  <2>8. NotStored'
    BY <2>1, <2>3, <2>5, <2>7 DEF SwitchingInv, NotStored
  <2>9. QueuedOnce'
    BY <2>1 DEF SwitchingInv, QueuedOnce
  <2>10. OneSwitch'
    <3>1. \A m \in Caller : Active(m)' => m = k \/ (m # k /\ Active(m) /\ call'[m] = call[m])
      BY <2>4 DEF Active
    <3>2. d \notin raced' => \A m \in Caller : m # k /\ Active(m) => call[m].d # d
      BY <2>7 DEF Busy, Active
    <3>3. \A e : e \notin raced' => e \notin raced
      BY <2>1
    <3> QED
      BY <2>4, <3>1, <3>2, <3>3 DEF SwitchingInv, OneSwitch
  <2>11. NoSwitch'
    <3> SUFFICES ASSUME NEW e \in DT \ raced', ~Busy(e)'
                 PROVE  /\ \A m \in Layer : InQueue(e, m)' => tgt'[e] = m /\ cur'[e] # m
                        /\ cur'[e] # tgt'[e] => Queued(e)'
      BY <2>1 DEF NoSwitch
    <3>1. e \notin raced /\ ~Busy(e)
      BY <2>5, <2>6, <2>7
    <3> QED
      BY <2>1, <2>2, <2>3, <3>1 DEF SwitchingInv, NoSwitch
  <2>12. InSwitchOK'
    <3> SUFFICES ASSUME NEW m \in Caller, NEW e \in DT \ raced', NEW n \in Layer,
                        Active(m)', call'[m].d = e, call'[m].l = n
                 PROVE  IF call'[m].step = "enqueue" THEN Enqueues(e, n)' ELSE Targets(e, n)'
      BY DEF InSwitchOK
    <3>1. CASE m = k
      <4>1. e = d /\ n = l /\ d \notin raced /\ ~Busy(d) /\ call'[m].step = "enqueue"
        BY <2>4, <2>7, <3>1
      <4>2. \A p \in Layer : ~InQueue(d, p)
        BY <2>1, <4>1 DEF SwitchingInv, NoSwitch
      <4>3. ~Queued(d)'
        BY <2>3, <4>2 DEF Queued
      <4> QED
        BY <2>1, <4>1, <4>3 DEF Enqueues
    <3>2. CASE m # k
      <4>1. call'[m] = call[m] /\ Active(m) /\ e \notin raced
        BY <2>4, <2>7, <3>2 DEF Active
      <4>2. IF call[m].step = "enqueue" THEN Enqueues(e, n) ELSE Targets(e, n)
        BY <4>1 DEF SwitchingInv, InSwitchOK
      <4> QED
        BY <2>1, <2>2, <2>3, <4>1, <4>2 DEF Enqueues, Targets
    <3> QED
      BY <3>1, <3>2
  <2>13. AtItsLayer'
    BY <2>1, <2>7 DEF SwitchingInv, AtItsLayer
  <2> QED
    BY <2>8, <2>9, <2>10, <2>11, <2>12, <2>13 DEF SwitchingInv
<1>5. ASSUME NEW l \in Layer, WriteFails(l) PROVE SwitchingInv'
  <2>1. /\ dclosed' = dclosed \cup store[l]
        /\ store' = [store EXCEPT ![l] = {}]
        /\ UNCHANGED <<pend, st, slot, cur, tgt, call, raced>>
    BY <1>5 DEF WriteFails, CloseAll, sessionVars, routerVars, sourceVars, listVars, trackVars, otherVars
  <2>5. UNCHANGED <<pend, cur, tgt, call, raced>>
    BY <2>1
  <2>2. SwitchesSame /\ QueuedOnce' /\ OneSwitch' /\ NoSwitch' /\ InSwitchOK'
    BY <2>5, SwitchesKept
  <2>3. NotStored'
    BY <2>1, <2>2 DEF SwitchingInv, NotStored, SwitchesSame, TypeOK
  <2>4. AtItsLayer'
    BY <2>1 DEF SwitchingInv, AtItsLayer, TypeOK
  <2> QED
    BY <2>2, <2>3, <2>4 DEF SwitchingInv
<1>6. ASSUME NEW l \in Layer, MoveTrack(l) PROVE SwitchingInv'
  <2>0. pend[l] # <<>> /\ pend[l] \in Seq(DT) /\ Head(pend[l]) \in DT
    BY <1>6 DEF MoveTrack, TypeOK
  <2> PICK d \in DT, from \in Layer : d = Head(pend[l]) /\ from = cur[d]
    BY <2>0 DEF TypeOK
  <2>1. /\ pend[l] # <<>> /\ pend' = [pend EXCEPT ![l] = Tail(@)]
        /\ store' = [[store EXCEPT ![from] = {}] EXCEPT ![l] = @ \cup {d}]
        /\ dclosed' = dclosed \cup store[from]
        /\ cur' = [cur EXCEPT ![d] = l]
        /\ UNCHANGED <<st, slot, tgt, call, raced>>
    BY <1>6 DEF MoveTrack, CloseAll, sessionVars, routerVars, sourceVars, listVars, trackVars, otherVars
  <2>2. pend \in [Layer -> Seq(DT)] /\ pend[l] \in Seq(DT)
    BY DEF TypeOK
  <2>3. d = pend[l][1] /\ 1 \in DOMAIN pend[l] /\ d \in DT /\ Len(pend[l]) \in Nat \ {0}
    BY <2>1, <2>2
  <2>5. /\ \A m \in Layer : m # l => pend'[m] = pend[m]
        /\ DOMAIN pend'[l] = 1 .. Len(pend[l]) - 1 /\ DOMAIN pend[l] = 1 .. Len(pend[l])
        /\ \A i \in DOMAIN pend'[l] : i + 1 \in DOMAIN pend[l] /\ pend'[l][i] = pend[l][i + 1]
    BY <2>1, <2>2, <2>3
  <2>6. \A e \in DT, m \in Layer : e # d => (InQueue(e, m)' <=> InQueue(e, m))
    <3> SUFFICES ASSUME NEW e \in DT, e # d PROVE InQueue(e, l)' <=> InQueue(e, l)
      BY <2>5 DEF InQueue
    <3>1. InQueue(e, l)' => InQueue(e, l)
      BY <2>5 DEF InQueue
    <3>2. ASSUME NEW i \in DOMAIN pend[l], pend[l][i] = e PROVE InQueue(e, l)'
      <4>1. i - 1 \in DOMAIN pend'[l] /\ (i - 1) + 1 = i
        BY <2>3, <2>5, <3>2
      <4>2. pend'[l][i - 1] = e
        BY <2>5, <3>2, <4>1
      <4> QED
        BY <4>1, <4>2 DEF InQueue
    <3> QED
      BY <3>1, <3>2 DEF InQueue
  <2>7. d \notin raced => \A m \in Layer : ~InQueue(d, m)'
    <3> SUFFICES ASSUME d \notin raced, NEW m \in Layer, NEW i \in DOMAIN pend'[m], pend'[m][i] = d PROVE FALSE
      BY DEF InQueue
    <3>1. CASE m = l
      <4>1. i + 1 \in DOMAIN pend[l] /\ pend[l][i + 1] = pend[l][1] /\ i + 1 # 1
        BY <2>3, <2>5, <3>1
      <4> QED
        BY <2>3, <4>1 DEF SwitchingInv, QueuedOnce
    <3>2. CASE m # l
      BY <2>3, <2>5, <3>2 DEF SwitchingInv, QueuedOnce
    <3> QED
      BY <3>1, <3>2
  <2>8. \A e \in DT : (Busy(e)' <=> Busy(e)) /\ (e # d => (Queued(e)' <=> Queued(e)) /\ cur'[e] = cur[e])
    BY <2>1, <2>6 DEF Busy, Queued, TypeOK
  <2>9. cur'[d] = l /\ InQueue(d, l) /\ Queued(d)
    BY <2>1, <2>3 DEF TypeOK, InQueue, Queued
  <2>10. \A e \in DT, m \in Layer : e # d =>
           (e \in store'[m] <=> e \in store[m] /\ m # from)
    BY <2>1 DEF TypeOK
  <2>11. d \notin raced => /\ st[d] = "done"
                          /\ \A m \in Layer : d \in store'[m] <=> m = l
    <3> SUFFICES ASSUME d \notin raced
                 PROVE  st[d] = "done" /\ \A m \in Layer : d \in store'[m] <=> m = l
      OBVIOUS
    <3>1. st[d] = "done"
      BY <2>3, <2>9 DEF SwitchingInv, NotStored
    <3>2. \A m \in Layer : d \in store[m] => m = from
      BY <2>3 DEF SwitchingInv, AtItsLayer
    <3> QED
      BY <2>1, <3>1, <3>2 DEF TypeOK
  <2>12. NotStored'
    BY <2>1, <2>8, <2>10, <2>11 DEF SwitchingInv, NotStored
  <2>13. QueuedOnce'
    <3> DEFINE shift(m) == IF m = l THEN 1 ELSE 0
    <3>1. \A m \in Layer : \A i \in DOMAIN pend'[m] :
            i \in Nat /\ i + shift(m) \in DOMAIN pend[m] /\ pend'[m][i] = pend[m][i + shift(m)]
      BY <2>2, <2>5
    <3> SUFFICES ASSUME NEW m \in Layer, NEW n \in Layer, NEW i \in DOMAIN pend'[m], NEW j \in DOMAIN pend'[n],
                        pend'[m][i] = pend'[n][j], pend'[m][i] \notin raced
                 PROVE  m = n /\ i = j
      BY <2>1 DEF QueuedOnce
    <3>2. m = n /\ i + shift(m) = j + shift(n)
      BY <3>1 DEF SwitchingInv, QueuedOnce
    <3> QED
      BY <3>1, <3>2
  <2>14. OneSwitch'
    BY <2>1 DEF SwitchingInv, OneSwitch, Active
  <2>15. NoSwitch'
    <3> SUFFICES ASSUME NEW e \in DT \ raced, ~Busy(e)
                 PROVE  /\ \A m \in Layer : InQueue(e, m)' => tgt[e] = m /\ cur'[e] # m
                        /\ cur'[e] # tgt[e] => Queued(e)'
      BY <2>1, <2>8 DEF NoSwitch
    <3>1. CASE e = d
      BY <2>7, <2>9, <3>1 DEF SwitchingInv, NoSwitch
    <3>2. CASE e # d
      BY <2>6, <2>8, <3>2 DEF SwitchingInv, NoSwitch
    <3> QED
      BY <3>1, <3>2
  <2>16. InSwitchOK'
    <3> SUFFICES ASSUME NEW k \in Caller, NEW e \in DT \ raced, NEW n \in Layer,
                        Active(k), call[k].d = e, call[k].l = n
                 PROVE  IF call[k].step = "enqueue" THEN Enqueues(e, n)' ELSE Targets(e, n)'
      BY <2>1 DEF InSwitchOK, Active
    <3>1. IF call[k].step = "enqueue" THEN Enqueues(e, n) ELSE Targets(e, n)
      BY DEF SwitchingInv, InSwitchOK
    <3>2. CASE e = d
      <4>1. call[k].step # "enqueue" /\ n = l
        BY <2>9, <3>1, <3>2 DEF Enqueues, Targets
      <4>2. ~Queued(e)'
        BY <2>7, <3>2 DEF Queued
      <4> QED
        BY <2>1, <2>9, <3>2, <4>1, <4>2 DEF Targets
    <3>3. CASE e # d
      BY <2>1, <2>6, <2>8, <3>1, <3>3 DEF Enqueues, Targets
    <3> QED
      BY <3>2, <3>3
  <2>17. AtItsLayer'
    <3> SUFFICES ASSUME NEW e \in DT \ raced
                 PROVE  /\ \A m \in Layer : e \in store'[m] => cur'[e] = m
                        /\ st[e] = "done" /\ e \notin dclosed' => e \in store'[cur'[e]]
      BY <2>1 DEF AtItsLayer
    <3>1. CASE e = d
      BY <2>9, <2>11, <3>1
    <3>2. CASE e # d
      <4>1. /\ \A m \in Layer : e \in store[m] => cur[e] = m
            /\ st[e] = "done" /\ e \notin dclosed => e \in store[cur[e]]
            /\ cur[e] \in Layer
        BY DEF SwitchingInv, AtItsLayer, TypeOK
      <4> QED
        BY <2>1, <2>8, <2>10, <3>2, <4>1
    <3> QED
      BY <3>1, <3>2
  <2> QED
    BY <2>12, <2>13, <2>14, <2>15, <2>16, <2>17 DEF SwitchingInv
<1>7. ASSUME NEW l \in Layer, CloseTracks(l) PROVE SwitchingInv'
  <2>1. /\ dclosed' = dclosed \cup store[l]
        /\ store' = store
        /\ UNCHANGED <<pend, st, slot, cur, tgt, call, raced>>
    BY <1>7 DEF CloseTracks, CloseAll, sessionVars, routerVars, sourceVars, listVars, trackVars, otherVars
  <2>5. UNCHANGED <<pend, cur, tgt, call, raced>>
    BY <2>1
  <2>2. SwitchesSame /\ QueuedOnce' /\ OneSwitch' /\ NoSwitch' /\ InSwitchOK'
    BY <2>5, SwitchesKept
  <2>3. NotStored'
    BY <2>1, <2>2 DEF SwitchingInv, NotStored, SwitchesSame, TypeOK
  <2>4. AtItsLayer'
    BY <2>1 DEF SwitchingInv, AtItsLayer, TypeOK
  <2> QED
    BY <2>2, <2>3, <2>4 DEF SwitchingInv
<1>8. ASSUME NEW s \in Sub, PublishTo(s) PROVE SwitchingInv'
  <2>1. /\ \A e \in DT : /\ st'[e] = "done" <=> st[e] = "done"
                         /\ st'[e] = "store" => st[e] = "store"
        /\ UNCHANGED <<store, pend, slot, cur, tgt, dclosed, call, raced>>
    BY <1>8 DEF PublishTo, Begin, Nothing, TypeOK, sessionVars, routerVars, sourceVars, listVars, trackVars, otherVars
  <2>5. UNCHANGED <<pend, cur, tgt, call, raced>>
    BY <2>1
  <2>2. SwitchesSame /\ QueuedOnce' /\ OneSwitch' /\ NoSwitch' /\ InSwitchOK'
    BY <2>5, SwitchesKept
  <2>3. NotStored'
    BY <2>1, <2>2 DEF SwitchingInv, NotStored, SwitchesSame
  <2>4. AtItsLayer'
    BY <2>1 DEF SwitchingInv, AtItsLayer
  <2> QED
    BY <2>2, <2>3, <2>4 DEF SwitchingInv
<1>9. ASSUME NEW s \in Sub, SubscribeTo(s) PROVE SwitchingInv'
  <2>1. /\ \A e \in DT : /\ st'[e] = "done" <=> st[e] = "done"
                         /\ st'[e] = "store" => st[e] = "store"
        /\ UNCHANGED <<store, pend, slot, cur, tgt, dclosed, call, raced>>
    BY <1>9 DEF SubscribeTo, Begin, TypeOK, sessionVars, routerVars, sourceVars, listVars, trackVars, otherVars
  <2>5. UNCHANGED <<pend, cur, tgt, call, raced>>
    BY <2>1
  <2>2. SwitchesSame /\ QueuedOnce' /\ OneSwitch' /\ NoSwitch' /\ InSwitchOK'
    BY <2>5, SwitchesKept
  <2>3. NotStored'
    BY <2>1, <2>2 DEF SwitchingInv, NotStored, SwitchesSame
  <2>4. AtItsLayer'
    BY <2>1 DEF SwitchingInv, AtItsLayer
  <2> QED
    BY <2>2, <2>3, <2>4 DEF SwitchingInv
<1>10. ASSUME NEW d \in DT, ListTrack(d) PROVE SwitchingInv'
  <2>1. /\ st[d] = "list" /\ st' = [st EXCEPT ![d] = "store"]
        /\ slot'[d] = cur'[d] /\ tgt'[d] = cur'[d]
        /\ \A e \in DT : e # d => slot'[e] = slot[e] /\ cur'[e] = cur[e] /\ tgt'[e] = tgt[e]
        /\ UNCHANGED <<store, pend, dclosed, call, raced>>
    BY <1>10 DEF ListTrack, TypeOK, sessionVars, routerVars, sourceVars, listVars, trackVars, otherVars
  <2>2. SwitchesSame
    BY <2>1 DEF SwitchesSame, Queued, InQueue, Busy
  <2>3. d \notin raced => /\ \A l \in Layer : d \notin store[l]
                         /\ ~Queued(d) /\ ~Busy(d)
    BY <2>1 DEF SwitchingInv, NotStored
  <2>4. NotStored'
    BY <2>1, <2>2, <2>3 DEF SwitchingInv, NotStored, SwitchesSame, TypeOK
  <2>5. AtItsLayer'
    BY <2>1, <2>3 DEF SwitchingInv, AtItsLayer, TypeOK
  <2>6. QueuedOnce' /\ OneSwitch'
    BY <2>1 DEF SwitchingInv, QueuedOnce, OneSwitch, Active
  <2>7. NoSwitch'
    <3> SUFFICES ASSUME NEW e \in DT \ raced, ~Busy(e)
                 PROVE  /\ \A m \in Layer : InQueue(e, m) => tgt'[e] = m /\ cur'[e] # m
                        /\ cur'[e] # tgt'[e] => Queued(e)
      BY <2>1, <2>2 DEF NoSwitch, SwitchesSame
    <3> QED
      BY <2>1, <2>3 DEF SwitchingInv, NoSwitch, Queued
  <2>8. InSwitchOK'
    <3> SUFFICES ASSUME NEW k \in Caller, NEW e \in DT \ raced, NEW l \in Layer,
                        Active(k), call[k].d = e, call[k].l = l
                 PROVE  IF call[k].step = "enqueue" THEN Enqueues(e, l)' ELSE Targets(e, l)'
      BY <2>1 DEF InSwitchOK, Active
    <3>1. Busy(e)
      BY DEF Busy, Active
    <3>2. e # d
      BY <2>3, <3>1
    <3>3. IF call[k].step = "enqueue" THEN Enqueues(e, l) ELSE Targets(e, l)
      BY DEF SwitchingInv, InSwitchOK
    <3> QED
      BY <2>1, <2>2, <3>2, <3>3 DEF Enqueues, Targets, SwitchesSame
  <2> QED
    BY <2>4, <2>5, <2>6, <2>7, <2>8 DEF SwitchingInv
<1>11. ASSUME NEW d \in DT, ListFails(d) PROVE SwitchingInv'
  <2>1. /\ \A e \in DT : /\ st'[e] = "done" <=> st[e] = "done"
                         /\ st'[e] = "store" => st[e] = "store"
        /\ UNCHANGED <<store, pend, slot, cur, tgt, dclosed, call, raced>>
    BY <1>11 DEF ListFails, Unlock, TypeOK, sessionVars, routerVars, sourceVars, listVars, trackVars, otherVars
  <2>5. UNCHANGED <<pend, cur, tgt, call, raced>>
    BY <2>1
  <2>2. SwitchesSame /\ QueuedOnce' /\ OneSwitch' /\ NoSwitch' /\ InSwitchOK'
    BY <2>5, SwitchesKept
  <2>3. NotStored'
    BY <2>1, <2>2 DEF SwitchingInv, NotStored, SwitchesSame
  <2>4. AtItsLayer'
    BY <2>1 DEF SwitchingInv, AtItsLayer
  <2> QED
    BY <2>2, <2>3, <2>4 DEF SwitchingInv
<1>12. ASSUME NEW d \in DT, ReceiverRefuses(d) PROVE SwitchingInv'
  <2>1. /\ \A e \in DT : /\ st'[e] = "done" <=> st[e] = "done"
                         /\ st'[e] = "store" => st[e] = "store"
        /\ UNCHANGED <<store, pend, slot, cur, tgt, dclosed, call, raced>>
    BY <1>12 DEF ReceiverRefuses, Unlock, TypeOK, sessionVars, routerVars, sourceVars, listVars, trackVars, otherVars
  <2>5. UNCHANGED <<pend, cur, tgt, call, raced>>
    BY <2>1
  <2>2. SwitchesSame /\ QueuedOnce' /\ OneSwitch' /\ NoSwitch' /\ InSwitchOK'
    BY <2>5, SwitchesKept
  <2>3. NotStored'
    BY <2>1, <2>2 DEF SwitchingInv, NotStored, SwitchesSame
  <2>4. AtItsLayer'
    BY <2>1 DEF SwitchingInv, AtItsLayer
  <2> QED
    BY <2>2, <2>3, <2>4 DEF SwitchingInv
<1>13. ASSUME NEW d \in DT, StoreTrack(d) PROVE SwitchingInv'
  <2>1. /\ st[d] = "store" /\ st' = [st EXCEPT ![d] = "done"]
        /\ store' = [store EXCEPT ![slot[d]] = @ \cup {d}]
        /\ UNCHANGED <<pend, slot, cur, tgt, dclosed, call, raced>>
    BY <1>13 DEF StoreTrack, sessionVars, routerVars, sourceVars, listVars, trackVars, otherVars
  <2>9. UNCHANGED <<pend, cur, tgt, call, raced>>
    BY <2>1
  <2>2. SwitchesSame /\ QueuedOnce' /\ OneSwitch' /\ NoSwitch' /\ InSwitchOK'
    BY <2>9, SwitchesKept
  <2>3. slot[d] \in Layer /\ (d \notin raced => cur[d] = slot[d])
    BY <2>1 DEF SwitchingInv, NotStored, TypeOK
  <2>4. \A l \in Layer, e \in DT : e # d => (e \in store'[l] <=> e \in store[l])
    BY <2>1, <2>3 DEF TypeOK
  <2>5. d \notin raced => \A l \in Layer : d \in store'[l] <=> l = slot[d]
    BY <2>1, <2>3 DEF TypeOK, SwitchingInv, NotStored
  <2>6. NotStored'
    BY <2>1, <2>2, <2>4 DEF SwitchingInv, NotStored, SwitchesSame, TypeOK
  <2>7. AtItsLayer'
    BY <2>1, <2>3, <2>4, <2>5 DEF SwitchingInv, AtItsLayer, TypeOK
  <2> QED
    BY <2>2, <2>6, <2>7 DEF SwitchingInv
<1>14. ASSUME NEW k \in Caller, SwitchEnqueues(k) PROVE SwitchingInv'
  <2>0. call[k] \in InSwitch /\ call[k].d \in DT /\ call[k].l \in Layer /\ Active(k)
    BY <1>14, SwitchOfCall DEF SwitchEnqueues, Active
  <2> PICK d \in DT, l \in Layer : call[k].d = d /\ call[k].l = l
    BY <2>0
  <2>1. /\ call[k].step = "enqueue" /\ pend' = [pend EXCEPT ![l] = Append(@, d)]
        /\ call' = [call EXCEPT ![k].step = "target"]
        /\ UNCHANGED <<store, st, slot, cur, tgt, dclosed, raced>>
    BY <1>14 DEF SwitchEnqueues, sessionVars, routerVars, sourceVars, listVars, trackVars, otherVars
  <2>3. /\ \A m \in Caller : m # k => call'[m] = call[m]
        /\ call'[k].step = "target" /\ call'[k].d = d /\ call'[k].l = l
    BY <2>0, <2>1 DEF TypeOK, InSwitch
  <2>4. \A m \in Caller : (Active(m)' <=> Active(m)) /\ (Active(m) => call'[m].d = call[m].d)
    BY <2>0, <2>3 DEF Active
  <2>5. \A e \in DT : Busy(e)' <=> Busy(e)
    BY <2>4 DEF Busy, Active
  <2>6. pend \in [Layer -> Seq(DT)]
    BY DEF TypeOK
  <2>7. \A e \in DT, m \in Layer : InQueue(e, m)' <=> InQueue(e, m) \/ (e = d /\ m = l)
    <3>1. \A m \in Layer : m # l => pend'[m] = pend[m]
      BY <2>1, <2>6
    <3>2. pend'[l] = Append(pend[l], d) /\ pend[l] \in Seq(DT)
      BY <2>1, <2>6
    <3>3. \A e \in DT : InQueue(e, l)' <=> InQueue(e, l) \/ e = d
      <4> SUFFICES ASSUME NEW e \in DT PROVE InQueue(e, l)' <=> InQueue(e, l) \/ e = d
        OBVIOUS
      <4>1. /\ DOMAIN pend[l] = 1 .. Len(pend[l]) /\ DOMAIN pend'[l] = 1 .. Len(pend[l]) + 1
            /\ \A i \in DOMAIN pend[l] : pend'[l][i] = pend[l][i]
            /\ Len(pend[l]) \in Nat /\ pend'[l][Len(pend[l]) + 1] = d
        BY <3>2, AppendProperties
      <4> QED
        BY <4>1 DEF InQueue
    <3>4. \A e \in DT, m \in Layer : m # l => (InQueue(e, m)' <=> InQueue(e, m))
      BY <3>1 DEF InQueue
    <3> QED
      BY <3>3, <3>4
  <2>8. \A e \in DT : e # d => (Queued(e)' <=> Queued(e))
    BY <2>7 DEF Queued
  <2>9. Busy(d) /\ (d \notin raced => Enqueues(d, l) /\ st[d] = "done")
    <3>1. Busy(d)
      BY <2>0 DEF Busy, Active
    <3> QED
      BY <2>0, <2>1, <3>1 DEF SwitchingInv, InSwitchOK, NotStored
  <2>10. d \notin raced => \A m \in Layer : ~InQueue(d, m)
    BY <2>9 DEF Enqueues, Queued
  <2>11. NotStored'
    BY <2>1, <2>5, <2>8, <2>9 DEF SwitchingInv, NotStored
  <2>12. QueuedOnce'
    <3>1. \A m \in Layer : \A i \in DOMAIN pend'[m] :
            \/ i \in DOMAIN pend[m] /\ pend'[m][i] = pend[m][i]
            \/ m = l /\ i = Len(pend[l]) + 1 /\ pend'[m][i] = d
      BY <2>1, <2>6
    <3>2. d \notin raced => \A m \in Layer : \A i \in DOMAIN pend[m] : pend[m][i] # d
      BY <2>10 DEF InQueue
    <3> QED
      BY <2>1, <3>1, <3>2 DEF SwitchingInv, QueuedOnce
  <2>13. OneSwitch'
    BY <2>1, <2>4 DEF SwitchingInv, OneSwitch
  <2>14. NoSwitch'
    <3> SUFFICES ASSUME NEW e \in DT \ raced, ~Busy(e)
                 PROVE  /\ \A m \in Layer : InQueue(e, m)' => tgt'[e] = m /\ cur'[e] # m
                        /\ cur'[e] # tgt'[e] => Queued(e)'
      BY <2>1, <2>5 DEF NoSwitch
    <3> QED
      BY <2>1, <2>7, <2>8, <2>9 DEF SwitchingInv, NoSwitch
  <2>15. InSwitchOK'
    <3> SUFFICES ASSUME NEW m \in Caller, NEW e \in DT \ raced, NEW n \in Layer,
                        Active(m), call'[m].d = e, call'[m].l = n
                 PROVE  IF call'[m].step = "enqueue" THEN Enqueues(e, n)' ELSE Targets(e, n)'
      BY <2>1, <2>4 DEF InSwitchOK
    <3>1. CASE m = k
      <4>1. e = d /\ n = l /\ cur[d] = tgt[d] /\ cur[d] # l /\ call'[m].step = "target"
        BY <2>3, <2>9, <3>1 DEF Enqueues
      <4>2. InQueue(d, l)' /\ \A p \in Layer : InQueue(d, p)' => p = l
        BY <2>7, <2>10, <4>1
      <4> QED
        BY <2>1, <4>1, <4>2 DEF Targets
    <3>2. CASE m # k
      <4>1. call'[m] = call[m]
        BY <2>3, <3>2
      <4>2. e # d
        BY <2>0, <3>2, <4>1 DEF SwitchingInv, OneSwitch
      <4>3. IF call[m].step = "enqueue" THEN Enqueues(e, n) ELSE Targets(e, n)
        BY <4>1 DEF SwitchingInv, InSwitchOK
      <4> QED
        BY <2>1, <2>7, <2>8, <4>1, <4>2, <4>3 DEF Enqueues, Targets
    <3> QED
      BY <3>1, <3>2
  <2>16. AtItsLayer'
    BY <2>1 DEF SwitchingInv, AtItsLayer
  <2> QED
    BY <2>11, <2>12, <2>13, <2>14, <2>15, <2>16 DEF SwitchingInv
<1>15. ASSUME NEW k \in Caller, SwitchEnds(k) PROVE SwitchingInv'
  <2>0. call[k] \in InSwitch /\ call[k].d \in DT /\ call[k].l \in Layer /\ Active(k)
    BY <1>15, SwitchOfCall DEF SwitchEnds, Active
  <2> PICK d \in DT, l \in Layer : call[k].d = d /\ call[k].l = l
    BY <2>0
  <2>1. /\ call[k].step = "target" /\ tgt' = [tgt EXCEPT ![d] = l]
        /\ call' = [call EXCEPT ![k] = Done]
        /\ UNCHANGED <<store, pend, st, slot, cur, dclosed, raced>>
    BY <1>15 DEF SwitchEnds, Done, sessionVars, routerVars, sourceVars, listVars, trackVars, otherVars
  <2>3. \A m \in Caller : /\ Active(m)' <=> Active(m) /\ m # k
                          /\ m # k => call'[m] = call[m]
    BY <2>1 DEF TypeOK, Active, Done
  <2>4. \A e \in DT, m \in Layer : InQueue(e, m)' <=> InQueue(e, m)
    BY <2>1 DEF InQueue
  <2>5. \A e \in DT : Queued(e)' <=> Queued(e)
    BY <2>4 DEF Queued
  <2>6. \A e \in DT : e # d => (Busy(e)' <=> Busy(e)) /\ tgt'[e] = tgt[e]
    <3>1. \A e \in DT : Busy(e)  <=> \E m \in Caller : Active(m) /\ call[m].d = e
      BY DEF Busy, Active
    <3>2. \A e \in DT : Busy(e)' <=> \E m \in Caller : Active(m)' /\ call'[m].d = e
      BY DEF Busy, Active
    <3> QED
      BY <2>1, <2>3, <3>1, <3>2 DEF TypeOK
  <2>7. tgt'[d] = l /\ Busy(d) /\ (d \notin raced => Targets(d, l) /\ st[d] = "done")
    <3>1. Busy(d)
      BY <2>1 DEF Busy
    <3> QED
      BY <2>0, <2>1, <3>1 DEF SwitchingInv, InSwitchOK, NotStored, TypeOK
  <2>8. NotStored'
    <3>1. \A e \in DT : Busy(e)' => Busy(e)
      BY <2>6, <2>7
    <3> QED
      BY <2>1, <2>5, <2>6, <2>7, <3>1 DEF SwitchingInv, NotStored
  <2>9. QueuedOnce'
    BY <2>1 DEF SwitchingInv, QueuedOnce
  <2>10. OneSwitch'
    BY <2>1, <2>3 DEF SwitchingInv, OneSwitch
  <2>11. NoSwitch'
    <3> SUFFICES ASSUME NEW e \in DT \ raced, ~Busy(e)'
                 PROVE  /\ \A m \in Layer : InQueue(e, m) => tgt'[e] = m /\ cur[e] # m
                        /\ cur[e] # tgt'[e] => Queued(e)
      BY <2>1, <2>4, <2>5 DEF NoSwitch
    <3>1. CASE e = d
      BY <2>7, <3>1 DEF Targets, Queued
    <3>2. CASE e # d
      BY <2>6, <3>2 DEF SwitchingInv, NoSwitch
    <3> QED
      BY <3>1, <3>2
  <2>12. InSwitchOK'
    <3> SUFFICES ASSUME NEW m \in Caller, m # k, NEW e \in DT \ raced, NEW n \in Layer,
                        Active(m), call[m].d = e, call[m].l = n
                 PROVE  IF call[m].step = "enqueue" THEN Enqueues(e, n)' ELSE Targets(e, n)'
      BY <2>1, <2>3 DEF InSwitchOK
    <3>1. e # d
      BY <2>0 DEF SwitchingInv, OneSwitch
    <3>2. IF call[m].step = "enqueue" THEN Enqueues(e, n) ELSE Targets(e, n)
      BY DEF SwitchingInv, InSwitchOK
    <3> QED
      BY <2>1, <2>4, <2>5, <2>6, <3>1, <3>2 DEF Enqueues, Targets
  <2>13. AtItsLayer'
    BY <2>1 DEF SwitchingInv, AtItsLayer
  <2> QED
    BY <2>8, <2>9, <2>10, <2>11, <2>12, <2>13 DEF SwitchingInv
<1>16. ASSUME 
         OpenChannel \/ ChannelPanics \/ RemovePeer \/ StopRouter \/ TrackRemoved
      \/ Feedback \/ PublishPeers \/ PublishEnds \/ ChannelPeers \/ DeleteReceiver
      \/ ClosePC
     PROVE SwitchingInv'
  <2>1. UNCHANGED <<store, pend, st, slot, cur, tgt, dclosed, call, raced>>
    BY <1>16 DEF OpenChannel, ChannelPanics, RemovePeer, StopRouter, TrackRemoved,
      Feedback, PublishPeers, PublishEnds, ChannelPeers, DeleteReceiver, ClosePC,
      sessionVars, routerVars, sourceVars, listVars, trackVars, otherVars
  <2> QED
    BY <2>1 DEF SwitchingInv, NotStored, QueuedOnce, OneSwitch, NoSwitch, InSwitchOK,
      AtItsLayer, Queued, InQueue, Busy, Active, Enqueues, Targets
<1>17. ASSUME NEW s \in Sub,
         SubscriberCloses(s) \/ AddPeer(s) \/ Subscribe(s)
     PROVE SwitchingInv'
  <2>1. UNCHANGED <<store, pend, st, slot, cur, tgt, dclosed, call, raced>>
    BY <1>17 DEF SubscriberCloses, AddPeer, Subscribe, sessionVars, routerVars,
      sourceVars, listVars, trackVars, otherVars
  <2> QED
    BY <2>1 DEF SwitchingInv, NotStored, QueuedOnce, OneSwitch, NoSwitch, InSwitchOK,
      AtItsLayer, Queued, InQueue, Busy, Active, Enqueues, Targets
<1>18. ASSUME NEW l \in Layer,
         AddReceiver(l) \/ KeyFrame(l) \/ MoveEnds(l) \/ WriterEnds(l)
     PROVE SwitchingInv'
  <2>1. UNCHANGED <<store, pend, st, slot, cur, tgt, dclosed, call, raced>>
    BY <1>18 DEF AddReceiver, KeyFrame, MoveEnds, WriterEnds, sessionVars, routerVars,
      sourceVars, listVars, trackVars, otherVars
  <2> QED
    BY <2>1 DEF SwitchingInv, NotStored, QueuedOnce, OneSwitch, NoSwitch, InSwitchOK,
      AtItsLayer, Queued, InQueue, Busy, Active, Enqueues, Targets
<1>19. ASSUME NEW d \in DT,
         RequestPanics(d)
     PROVE SwitchingInv'
  <2>1. UNCHANGED <<store, pend, st, slot, cur, tgt, dclosed, call, raced>>
    BY <1>19 DEF RequestPanics, sessionVars, routerVars, sourceVars, listVars,
      trackVars, otherVars
  <2> QED
    BY <2>1 DEF SwitchingInv, NotStored, QueuedOnce, OneSwitch, NoSwitch, InSwitchOK,
      AtItsLayer, Queued, InQueue, Busy, Active, Enqueues, Targets
<1>20. ASSUME UNCHANGED vars PROVE SwitchingInv'
  BY <1>20 DEF vars, SwitchingInv, NotStored, QueuedOnce, OneSwitch, NoSwitch,
    InSwitchOK, AtItsLayer, Queued, InQueue, Busy, Active, Enqueues, Targets
<1> QED
  BY <1>1, <1>2, <1>3, <1>4, <1>5, <1>6, <1>7, <1>8, <1>9, <1>10, <1>11, <1>12, <1>13,
    <1>14, <1>15, <1>16, <1>17, <1>18, <1>19, <1>20 DEF Next, Event, Step, Adding,
    Joining, Switching, Moving, Closing

-----------------------------------------------------------------------------
(* The invariant and what follows from it.                                 *)

\* The invariant holds when the publisher has joined and published nothing.
LEMMA RoutingInit == Init => RoutingInv
<1> SUFFICES ASSUME Init PROVE RoutingInv
  OBVIOUS
<1>1. TypeOK
  <2>1. 0 \in Layer /\ None \in Layer \cup {None} /\ None \in DT \cup {None} /\ Joined \subseteq Sub
    BY RoutingAssumption
  <2>2. /\ js \in [Sub -> {"out", "member", "streams", "joined"}]
        /\ store \in [Layer -> SUBSET DT] /\ pend \in [Layer -> Seq(DT)]
        /\ st \in [DT -> {"no", "list", "store", "done", "skip"}]
    BY DEF Init
  <2>3. /\ slot \in [DT -> Layer] /\ cur \in [DT -> Layer] /\ tgt \in [DT -> Layer]
        /\ call \in [Caller -> {Idle, Done} \cup InSwitch]
    BY <2>1 DEF Init
  <2> QED
    BY <2>1, <2>2, <2>3 DEF Init, TypeOK
<1>2. Layers
  BY DEF Init, Layers, Created, Active, Idle
<1>3. AddingInv
  BY DEF Init, AddingInv, UnderLock, HasNone, OneTrackEach
<1>4. MeetingInv
  <2>1. \A s \in Sub, c \in Call : st[<<s, c>>] = "no"
    BY CallTrack DEF Init
  <2>2. Nothing
    BY <2>1 DEF Init, Nothing, Call
  <2> QED
    BY <2>1, <2>2 DEF Init, MeetingInv, ListedServed, Subscribed, Meets, Channels, Call, Over
<1>5. SwitchingInv
  <2>1. \A d \in DT : ~Queued(d) /\ ~Busy(d)
    BY DEF Init, Queued, InQueue, Busy, Idle
  <2>2. NotStored /\ NoSwitch /\ AtItsLayer
    BY <2>1 DEF Init, NotStored, NoSwitch, AtItsLayer, Queued
  <2>3. QueuedOnce /\ OneSwitch /\ InSwitchOK
    BY DEF Init, QueuedOnce, OneSwitch, InSwitchOK, Active, Idle
  <2> QED
    BY <2>2, <2>3 DEF SwitchingInv
<1>6. KeepingInv
  BY DEF Init, KeepingInv, Kept
<1> QED
  BY <1>1, <1>2, <1>3, <1>4, <1>5, <1>6 DEF RoutingInv

\* And every step keeps it.
LEMMA RoutingStep == RoutingInv /\ [Next]_vars => RoutingInv'
<1> SUFFICES ASSUME RoutingInv, [Next]_vars PROVE RoutingInv'
  OBVIOUS
<1>1. TypeOK /\ Layers /\ AddingInv /\ MeetingInv /\ SwitchingInv /\ KeepingInv /\ Nothing
  BY DEF RoutingInv, MeetingInv
<1> QED
  BY <1>1, TypeStep, LayersStep, AddingStep, MeetingStep, SwitchingStep, KeepingStep
  DEF RoutingInv

\* For any subscribers, layers, callers and number of events: types, who is
\* given a track, whom joining and publishing have missed, where switches
\* stand and what is stored, at once.
THEOREM RoutingInvariant == Spec => []RoutingInv
BY RoutingInit, RoutingStep, PTL DEF Spec

\* Publish and Subscribe together give a subscriber one down track at most:
\* the router's lock covers the look at its list and the entry.
THEOREM OneTrackEachHolds == Spec => []OneTrackEach
<1>1. RoutingInv => OneTrackEach
  BY DEF RoutingInv, AddingInv
<1> QED
  BY <1>1, RoutingInvariant, PTL

\* A peer whose Join is over while Publish is, too, has a down track of the
\* open track and the data channel, whichever of them came first.
THEOREM ServedHolds == Spec => []Served
<1>1. RoutingInv => Served
  <2> SUFFICES ASSUME RoutingInv, NEW s \in Sub \ pcClosed,
                      js[s] = "joined" \/ Over(<<s, "subscribe">>)
               PROVE  /\ pubIn /\ rstage = "open" /\ publish = "done" => Given(s)
                      /\ label = "peers" => s \in chan
    BY DEF Served, Given
  <2>1. MeetingInv
    BY DEF RoutingInv
  <2>2. js[s] \in {"streams", "joined"}
    BY <2>1 DEF MeetingInv, Subscribed, Over
  <2>3. ASSUME pubIn, rstage = "open", publish = "done" PROVE Given(s)
    <3>1. Given(s) \/ WillPublish(s)
      BY <2>1, <2>3 DEF MeetingInv, Meets
    <3>2. WillPublish(s) => Over(<<s, "publish">>)
      BY <2>1, <2>3 DEF MeetingInv, Nothing, WillPublish, Over
    <3> QED
      BY <2>1, <2>3, <3>1, <3>2 DEF MeetingInv, Meets
  <2>4. label = "peers" => s \in chan
    BY <2>1, <2>2 DEF MeetingInv, Channels
  <2> QED
    BY <2>3, <2>4
<1> QED
  BY <1>1, RoutingInvariant, PTL

\* A down track is stored at its current layer only, and is stored there while
\* it is open, unless two of its switches overlapped.
THEOREM AtItsLayerHolds == Spec => []AtItsLayer
<1>1. RoutingInv => AtItsLayer
  BY DEF RoutingInv, SwitchingInv
<1> QED
  BY <1>1, RoutingInvariant, PTL

\* A down track whose target differs from its layer is queued for the target
\* or is about to be given another one, unless two of its switches overlapped.
THEOREM SwitchPendingHolds == Spec => []SwitchPending
<1>1. RoutingInv => SwitchPending
  <2> SUFFICES ASSUME RoutingInv, NEW d \in DT \ raced, cur[d] # tgt[d]
               PROVE  \/ \E i \in DOMAIN pend[tgt[d]] : pend[tgt[d]][i] = d
                      \/ \E k \in Caller : call[k].step = "target" /\ call[k].d = d
    BY DEF SwitchPending
  <2>1. TypeOK /\ SwitchingInv
    BY DEF RoutingInv
  <2>2. CASE Busy(d)
    <3>1. PICK k \in Caller : Active(k) /\ call[k].d = d
      BY <2>2 DEF Busy, Active
    <3>2. PICK l \in Layer : call[k].l = l
      BY <2>1, <3>1, SwitchOfCall
    <3>3. call[k].step # "enqueue"
      BY <2>1, <3>1, <3>2 DEF SwitchingInv, InSwitchOK, Enqueues
    <3> QED
      BY <3>1, <3>3 DEF Active
  <2>3. CASE ~Busy(d)
    <3>1. PICK l \in Layer : InQueue(d, l) /\ tgt[d] = l
      BY <2>1, <2>3 DEF SwitchingInv, NoSwitch, Queued
    <3> QED
      BY <3>1 DEF InQueue
  <2> QED
    BY <2>2, <2>3
<1> QED
  BY <1>1, RoutingInvariant, PTL

\* No down track stored while the receiver was open is left open when the
\* receiver has gone, although its end sweeps the layers without the lock.
THEOREM NoneForgottenHolds == Spec => []NoneForgotten
<1>1. RoutingInv => NoneForgotten
  BY DEF RoutingInv, KeepingInv, Kept, NoneForgotten
<1> QED
  BY <1>1, RoutingInvariant, PTL
=============================================================================

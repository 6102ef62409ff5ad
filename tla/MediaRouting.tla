----------------------------- MODULE MediaRouting -----------------------------
(***************************************************************************)
(* How one published track reaches the subscribers of a session.           *)
(*                                                                         *)
(* The publisher's OnTrack handler adds a receiver to its router and       *)
(* publishes it to the session's peers, while new peers subscribe to the   *)
(* routers they find and signal handlers add down tracks on request.  The  *)
(* receiver keeps its down tracks per spatial layer; a switch of a down    *)
(* track is queued until the target layer's writer sees a key frame.  The  *)
(* receiver closes when a layer's buffer ends, because the track is        *)
(* removed or because the publisher closes; the publisher's RTCP goes      *)
(* through a bounded channel that its router drains until it is stopped.   *)
(*                                                                         *)
(* A down track is named by its subscriber and by the call that creates    *)
(* it, and each call runs once.  MaxEvents bounds what clients, networks    *)
(* and signal handlers do in one behaviour, in any combination.            *)
(***************************************************************************)
EXTENDS Naturals, Sequences, FiniteSets, SequencesExt

CONSTANTS Sub,     \* subscribing peers
          Joined,  \* those in the session when the track is published
          Asking,  \* those whose signal handler gets a subscription request
          Layer,   \* spatial layers the publisher sends, among 0, 1 and 2
          Caller,  \* calls of SwitchSpatialLayer
          Modes,   \* ways to serve the track: "simple", or simulcast "best" or "lowest" first
          MaxEvents,
          None

Call == {"publish", "subscribe", "request"}
DT   == Sub \X Call

ASSUME RoutingAssumption ==
  /\ Modes \subseteq {"simple", "best", "lowest"}
  /\ Joined \subseteq Sub /\ Asking \subseteq Sub /\ IsFiniteSet(Sub)
  /\ Layer \subseteq 0 .. 2 /\ 0 \in Layer
  /\ MaxEvents \in Nat /\ None \notin Layer \cup DT

VARIABLES
  mode,     \* the one of this track
  \* session
  js,       \* [Sub -> progress of peer.Join]
  pubIn,    \* the publisher is in the session's peers
  label,    \* progress of AddDatachannel for the publisher's channel
  chan,     \* subscribers that have the data channel
  \* publisher and router
  ppc,      \* progress of Publisher.Close
  publish,  \* progress of the OnTrack handler that publishes
  todo,     \* peers Publish still has to visit
  tracked,  \* the layers listed in the publisher's tracks
  rlock,    \* the down track being added under the router's lock, or None
  stuck,    \* a writer waits for good on the full RTCP channel
  \* receiver
  avail,    \* layers added by AddUpTrack
  writing,  \* layers whose writeRTP runs
  srcOff,   \* the track's buffers are closed
  rstage,   \* life of the receiver
  swept,    \* layers closeTracks has done
  store,    \* [Layer -> down tracks]
  pend,     \* [Layer -> sequence of pending down tracks]
  wlock,    \* the layer whose writer moves its pending tracks, or None
  \* down tracks and subscribers
  st,       \* [DT -> progress of AddDownTrack]
  slot,     \* [DT -> the layer AddDownTrack chose]
  cur, tgt, \* [DT -> current and target spatial layer]
  dclosed,  \* closed down tracks
  listed,   \* down tracks in their subscriber's list
  pcClosed, \* subscribers whose peer connection is closed
  call,     \* [Caller -> a switch in progress]
  \* history
  raced,    \* tracks switched while another switch, or their addition, ran
  late,     \* tracks stored after the receiver began to close
  panicked, \* the process panicked
  events

sessionVars  == <<mode, js, pubIn, label, chan>>
routerVars   == <<ppc, publish, todo, tracked, rlock, stuck>>
sourceVars   == <<avail, writing, srcOff, rstage, swept>>
listVars     == <<store, pend, wlock>>
trackVars    == <<st, slot, cur, tgt, dclosed, listed>>
otherVars    == <<pcClosed, call, raced, late, panicked>>
vars == <<mode, js, pubIn, label, chan, ppc, publish, todo, tracked,
          rlock, stuck, avail, writing, srcOff, rstage, swept,
          store, pend, wlock, st, slot, cur, tgt, dclosed, listed, pcClosed,
          call, raced, late, panicked, events>>

-----------------------------------------------------------------------------
Idle == [step |-> "idle"]

Created(d) == st[d] \in {"store", "done"}
Over(d)    == st[d] \in {"done", "skip"}
Of(s)    == {d \in listed : d[1] = s}

\* The publisher has joined; the peers of Joined have, too.
Init ==
  /\ mode \in Modes
  /\ js = [s \in Sub |-> IF s \in Joined THEN "joined" ELSE "out"]
  /\ pubIn = TRUE /\ label = "no" /\ chan = {}
  /\ ppc = "open" /\ publish = "no" /\ todo = {} /\ tracked = {} /\ rlock = None
  /\ stuck = FALSE /\ events = 0
  /\ avail = {} /\ writing = {} /\ srcOff = FALSE /\ rstage = "none" /\ swept = {}
  /\ store = [l \in Layer |-> {}] /\ pend = [l \in Layer |-> <<>>] /\ wlock = None
  /\ st = [d \in DT |-> "no"] /\ slot = [d \in DT |-> 0]
  /\ cur = [d \in DT |-> 0] /\ tgt = [d \in DT |-> 0]
  /\ dclosed = {} /\ listed = {} /\ pcClosed = {}
  /\ call = [k \in Caller |-> Idle]
  /\ raced = {} /\ late = {} /\ panicked = FALSE

\* Close of each track of D: the first call removes it from a subscriber
\* whose peer connection is open.
CloseAll(D) ==
  /\ dclosed' = dclosed \cup D
  /\ listed' = listed \ {d \in D \ dclosed : d[1] \notin pcClosed}

-----------------------------------------------------------------------------
(* The publisher: OnTrack, Publish, OnDataChannel.                         *)

\* The tracks AddUpTrack moves to the new layer: SwitchSpatialLayer refuses
\* those whose last switch is not done.
Upgraded(l) ==
  LET others == CASE mode = "best" /\ (2 \notin avail \/ l = 2) -> {m \in Layer : m < l}
                  [] mode = "lowest" /\ (0 \notin avail \/ l = 0) -> {m \in Layer : m > l}
                  [] OTHER -> {}
  IN {d \in UNION {store[m] : m \in others} : cur[d] = tgt[d] /\ cur[d] # l}

\* OnTrack of the first layer: AddReceiver creates the receiver, registers it
\* and starts the layer's writer.
AddReceiver(l) ==
  /\ rstage = "none" /\ rlock = None /\ ppc = "open"
  /\ mode = "simple" => l = 0
  /\ rstage' = "open" /\ publish' = "peers"
  /\ avail' = {l} /\ writing' = {l}
  /\ UNCHANGED <<sessionVars, ppc, todo, tracked, rlock, stuck, srcOff, swept,
                 listVars, trackVars, otherVars>>

\* OnTrack of another layer: AddUpTrack under the router's lock, then the
\* publisher's tracks list the layer.
AddLayer(l) ==
  LET moved == Upgraded(l)
  IN /\ rstage = "open" /\ rlock = None /\ wlock = None /\ ~srcOff
     /\ mode # "simple" /\ l \notin avail
     /\ avail' = avail \cup {l} /\ writing' = writing \cup {l} /\ tracked' = tracked \cup {l}
     /\ pend' = [pend EXCEPT ![l] = SetToSeq(moved)]
     /\ tgt' = [d \in DT |-> IF d \in moved THEN l ELSE tgt[d]]
     /\ raced' = raced \cup {d \in moved : \E k \in Caller : call[k].step \in {"enqueue", "target"}
                                                             /\ call[k].d = d}
     /\ UNCHANGED <<sessionVars, ppc, publish, todo, rlock, stuck, srcOff, rstage,
                    swept, store, wlock, st, slot, cur, dclosed, listed, pcClosed, call, late, panicked>>

\* Mutant: a peer that subscribes is not added to the session.
MembersAtStart == {s \in Sub : js[s] = "joined"}

\* The peers of the session: AddPeer precedes Subscribe in peer.Join.
Members == {s \in Sub : js[s] # "out"}

\* Publish takes the session's peers ...
PublishPeers ==
  /\ publish = "peers" /\ publish' = "loop" /\ todo' = Members
  /\ UNCHANGED <<sessionVars, ppc, tracked, rlock, stuck, sourceVars, listVars,
                 trackVars, otherVars>>

\* ... and after its loop OnTrack lists the track.
PublishEnds ==
  /\ publish = "loop" /\ todo = {}
  /\ \A s \in Sub : st[<<s, "publish">>] \in {"no", "done", "skip"}
  /\ publish' = "done" /\ tracked' = avail
  /\ UNCHANGED <<sessionVars, ppc, todo, rlock, stuck, sourceVars, listVars,
                 trackVars, otherVars>>

\* AddDatachannel: the label joins the session's fan-out labels ...
OpenChannel ==
  /\ label = "no" /\ pubIn /\ ppc = "open" /\ label' = "listed"
  /\ UNCHANGED <<mode, js, pubIn, chan, routerVars, sourceVars, listVars, trackVars, otherVars>>

\* ... of an owner that is still a peer: otherwise the process panics.
ChannelPanics ==
  /\ label = "no" /\ ~pubIn /\ ppc # "closed" /\ panicked' = TRUE
  /\ UNCHANGED <<sessionVars, routerVars, sourceVars, listVars, trackVars, pcClosed, call, raced, late>>

\* It then takes the session's peers and opens the channel to each of them.
ChannelPeers ==
  /\ label = "listed" /\ label' = "peers" /\ chan' = chan \cup (Members \ pcClosed)
  /\ UNCHANGED <<mode, js, pubIn, routerVars, sourceVars, listVars, trackVars, otherVars>>

-----------------------------------------------------------------------------
(* A joining peer.                                                         *)

AddPeer(s) ==
  /\ js[s] = "out" /\ js' = [js EXCEPT ![s] = "member"]
  /\ UNCHANGED <<mode, pubIn, label, chan, routerVars, sourceVars, listVars, trackVars, otherVars>>

\* Subscribe takes labels and peers under one lock, opens the channels and
\* goes on to the publishers' routers.
Subscribe(s) ==
  /\ js[s] = "member" /\ js' = [js EXCEPT ![s] = IF pubIn THEN "streams" ELSE "joined"]
  /\ chan' = IF label = "no" THEN chan ELSE chan \cup ({s} \ pcClosed)
  /\ UNCHANGED <<mode, pubIn, label, routerVars, sourceVars, listVars, trackVars, otherVars>>

-----------------------------------------------------------------------------
(* AddDownTrack, called by Publish and Subscribe under the router's lock   *)
(* and by the signal handler's subscription request without one.           *)

\* The router's lock is released when its call returns.
Unlock(d) == rlock' = IF rlock = d THEN None ELSE rlock

Begin(d) == st' = [st EXCEPT ![d] = IF Of(d[1]) = {} THEN "list" ELSE "skip"]

\* Mutant: AddDownTracks without the router's lock.
PublishToUnlocked(s) ==
  LET d == <<s, "publish">>
  IN /\ publish = "loop" /\ s \in todo
     /\ todo' = todo \ {s} /\ Begin(d)
     /\ UNCHANGED <<sessionVars, ppc, publish, tracked, rlock, stuck, sourceVars,
                    listVars, slot, cur, tgt, dclosed, listed, otherVars>>

PublishTo(s) ==
  LET d == <<s, "publish">>
  IN /\ publish = "loop" /\ s \in todo /\ rlock = None
     /\ todo' = todo \ {s} /\ Begin(d)
     /\ rlock' = IF Of(s) = {} THEN d ELSE None
     /\ UNCHANGED <<sessionVars, ppc, publish, tracked, stuck, sourceVars,
                    listVars, slot, cur, tgt, dclosed, listed, otherVars>>

\* AddDownTracks(subscriber, nil): the receivers the router holds by now.
SubscribeTo(s) ==
  LET d == <<s, "subscribe">>
  IN /\ js[s] = "streams" /\ st[d] = "no" /\ rlock = None
     /\ IF rstage \in {"open", "closing"}
        THEN Begin(d) /\ rlock' = IF Of(s) = {} THEN d ELSE None
        ELSE st' = [st EXCEPT ![d] = "skip"] /\ UNCHANGED rlock
     /\ UNCHANGED <<sessionVars, ppc, publish, todo, tracked, stuck, sourceVars,
                    listVars, slot, cur, tgt, dclosed, listed, otherVars>>

\* A subscription request names a track and a layer of a session's publisher.
RequestTo(s) ==
  LET d == <<s, "request">>
  IN /\ s \in Asking /\ js[s] # "out" /\ st[d] = "no" /\ pubIn /\ tracked # {}
     /\ Begin(d)
     /\ UNCHANGED <<sessionVars, routerVars, sourceVars, listVars, slot, cur, tgt, dclosed, listed,
                    otherVars>>

\* The layer receiver.AddDownTrack chooses among the available ones.
InitialLayer ==
  CASE mode = "simple" -> 0
    [] mode = "best"   -> CHOOSE l \in avail : \A m \in avail : m <= l
    [] mode = "lowest" -> CHOOSE l \in avail : \A m \in avail : l <= m

\* NewDownTrack and AddTransceiverFromTrack; the subscriber lists the track
\* and an open receiver gives it its first layer.
ListTrack(d) ==
  /\ st[d] = "list" /\ d[1] \notin pcClosed /\ rstage = "open"
  /\ listed' = listed \cup {d} /\ slot' = [slot EXCEPT ![d] = InitialLayer]
  /\ cur' = [cur EXCEPT ![d] = InitialLayer] /\ tgt' = [tgt EXCEPT ![d] = InitialLayer]
  /\ st' = [st EXCEPT ![d] = "store"]
  /\ UNCHANGED <<sessionVars, routerVars, sourceVars, listVars, dclosed, otherVars>>

\* Mutant: this return keeps the router locked.
ReceiverRefusesLocked(d) ==
  /\ st[d] = "list" /\ d[1] \notin pcClosed /\ rstage # "open"
  /\ listed' = listed \cup {d} /\ st' = [st EXCEPT ![d] = "skip"]
  /\ UNCHANGED <<sessionVars, routerVars, sourceVars, listVars, slot, cur, tgt, dclosed, otherVars>>

\* A closed receiver takes no track: the subscriber keeps one nobody serves.
ReceiverRefuses(d) ==
  /\ st[d] = "list" /\ d[1] \notin pcClosed /\ rstage # "open"
  /\ listed' = listed \cup {d} /\ st' = [st EXCEPT ![d] = "skip"] /\ Unlock(d)
  /\ UNCHANGED <<sessionVars, ppc, publish, todo, tracked, stuck, sourceVars, listVars, slot, cur, tgt,
                 dclosed, otherVars>>

\* On a closed peer connection Publish and Subscribe go on ...
ListFails(d) ==
  /\ st[d] = "list" /\ d[1] \in pcClosed /\ d[2] # "request"
  /\ st' = [st EXCEPT ![d] = "skip"] /\ Unlock(d)
  /\ UNCHANGED <<sessionVars, ppc, publish, todo, tracked, stuck, sourceVars,
                 listVars, slot, cur, tgt, dclosed, listed, otherVars>>

\* ... and the request mutes a nil down track.
RequestPanics(d) ==
  /\ st[d] = "list" /\ d[1] \in pcClosed /\ d[2] = "request" /\ panicked' = TRUE
  /\ UNCHANGED <<sessionVars, routerVars, sourceVars, listVars, trackVars, pcClosed, call, raced, late>>

\* The track enters the list of the layer chosen for it.
StoreTrack(d) ==
  /\ st[d] = "store" /\ wlock = None
  /\ store' = [store EXCEPT ![slot[d]] = @ \cup {d}]
  /\ st' = [st EXCEPT ![d] = "done"] /\ Unlock(d)
  /\ late' = IF rstage = "open" THEN late ELSE late \cup {d}
  /\ UNCHANGED <<sessionVars, ppc, publish, todo, tracked, stuck, sourceVars,
                 pend, wlock, slot, cur, tgt, dclosed, listed, pcClosed, call, raced, panicked>>

\* An unsubscription stops the transceiver; the receiver keeps the track.
Unsubscribe(d) ==
  /\ d \in listed /\ d[1] \in Asking /\ st[<<d[1], "request">>] = "no" /\ d[1] \notin pcClosed
  /\ listed' = listed \ {d} /\ st' = [st EXCEPT ![<<d[1], "request">>] = "skip"]
  /\ UNCHANGED <<sessionVars, routerVars, sourceVars, listVars, slot, cur, tgt, dclosed, otherVars>>

-----------------------------------------------------------------------------
(* Layer switches.                                                         *)

Busy(d) == \E k \in Caller : call[k].step \in {"enqueue", "target"} /\ call[k].d = d

\* A message of the subscriber, or of the publisher for its active layers,
\* names any layer for the tracks that are listed ...
ByMessage(d, l) == d \in listed

\* ... and a receiver report the next layer up or down.
ByReport(d, l) == d \notin dclosed /\ (l = cur[d] + 1 \/ cur[d] = l + 1)

\* SwitchSpatialLayer reads the track's layers and the receiver's state.
SwitchStarts(k, d, l) ==
  /\ call[k] = Idle /\ mode # "simple" /\ st[d] \in {"store", "done"} /\ (ByMessage(d, l) \/ ByReport(d, l))
  /\ cur[d] = tgt[d] /\ cur[d] # l
  /\ rstage = "open" /\ l \in avail
  /\ call' = [call EXCEPT ![k] = [step |-> "enqueue", d |-> d, l |-> l]]
  /\ raced' = IF Busy(d) \/ st[d] = "store" THEN raced \cup {d} ELSE raced
  /\ UNCHANGED <<sessionVars, routerVars, sourceVars, listVars, trackVars, pcClosed, late, panicked>>

\* Mutant: a refused switch is recorded as the track's target.
SwitchDropped(k) ==
  /\ call[k].step = "enqueue" /\ wlock = None
  /\ call' = [call EXCEPT ![k].step = "target"]
  /\ UNCHANGED <<sessionVars, routerVars, sourceVars, listVars, trackVars, pcClosed, raced,
                 late, panicked>>

SwitchEnqueues(k) ==
  /\ call[k].step = "enqueue" /\ wlock = None
  /\ pend' = [pend EXCEPT ![call[k].l] = Append(@, call[k].d)]
  /\ call' = [call EXCEPT ![k].step = "target"]
  /\ UNCHANGED <<sessionVars, routerVars, sourceVars, store, wlock, trackVars, pcClosed, raced,
                 late, panicked>>

SwitchEnds(k) ==
  /\ call[k].step = "target"
  /\ tgt' = [tgt EXCEPT ![call[k].d] = call[k].l]
  /\ call' = [call EXCEPT ![k] = [step |-> "done"]]
  /\ UNCHANGED <<sessionVars, routerVars, sourceVars, listVars, st, slot, cur, dclosed, listed,
                 pcClosed, raced, late, panicked>>

-----------------------------------------------------------------------------
(* The receiver's writers.                                                 *)

\* A key frame of a layer with pending tracks: the writer takes the lock.
KeyFrame(l) ==
  /\ l \in writing /\ wlock = None /\ pend[l] # <<>>
  /\ wlock' = l
  /\ UNCHANGED <<sessionVars, routerVars, sourceVars, store, pend, trackVars, otherVars>>

\* One pending track moves.  deleteDownTrack compares track IDs, which all
\* down tracks of a receiver share: it empties the layer and closes them all.
MoveTrack(l) ==
  LET d == Head(pend[l])
      from == cur[d]
  IN /\ wlock = l /\ pend[l] # <<>>
     /\ CloseAll(store[from])
     /\ store' = [[store EXCEPT ![from] = {}] EXCEPT ![l] = @ \cup {d}]
     /\ cur' = [cur EXCEPT ![d] = l]
     /\ pend' = [pend EXCEPT ![l] = Tail(@)]
     /\ UNCHANGED <<sessionVars, routerVars, sourceVars, wlock, st, slot, tgt, otherVars>>

MoveEnds(l) ==
  /\ wlock = l /\ pend[l] = <<>> /\ wlock' = None
  /\ UNCHANGED <<sessionVars, routerVars, sourceVars, store, pend, trackVars, otherVars>>

\* Mutant: the layer's list is emptied without closing the tracks.
WriteFailsUnclosed(l) ==
  /\ l \in writing /\ wlock = None /\ \E d \in store[l] : d[1] \in pcClosed
  /\ store' = [store EXCEPT ![l] = {}]
  /\ UNCHANGED <<sessionVars, routerVars, sourceVars, pend, wlock, trackVars, otherVars>>

\* A write to a subscriber whose connection has closed: deleteDownTrack again.
WriteFails(l) ==
  /\ l \in writing /\ wlock = None /\ \E d \in store[l] : d[1] \in pcClosed
  /\ CloseAll(store[l]) /\ store' = [store EXCEPT ![l] = {}]
  /\ UNCHANGED <<sessionVars, routerVars, sourceVars, pend, wlock, st, slot, cur, tgt, otherVars>>

\* The layer's buffer ends: the first writer closes the receiver.
WriterEnds(l) ==
  /\ srcOff /\ l \in writing /\ wlock # l
  /\ writing' = writing \ {l} /\ rstage' = IF rstage = "open" THEN "closing" ELSE rstage
  /\ UNCHANGED <<sessionVars, routerVars, avail, srcOff, swept, listVars, trackVars, otherVars>>

\* Mutant: only the tracks of the first layer are closed.
CloseTracksOfOneLayer(l) ==
  /\ rstage = "closing" /\ l \in avail \ swept /\ \A m \in avail \ swept : l <= m
  /\ CloseAll(IF swept = {} THEN store[l] ELSE {}) /\ swept' = swept \cup {l}
  /\ UNCHANGED <<sessionVars, routerVars, avail, writing, srcOff, rstage, listVars, st, slot, cur, tgt,
                 otherVars>>

\* closeTracks: layer by layer, without the receiver's lock ...
CloseTracks(l) ==
  /\ rstage = "closing" /\ l \in avail \ swept /\ \A m \in avail \ swept : l <= m
  /\ CloseAll(store[l]) /\ swept' = swept \cup {l}
  /\ UNCHANGED <<sessionVars, routerVars, avail, writing, srcOff, rstage, listVars, st, slot, cur, tgt,
                 otherVars>>

\* ... then deleteReceiver under the router's lock.
DeleteReceiver ==
  /\ rstage = "closing" /\ swept = avail /\ rlock = None
  /\ rstage' = "gone"
  /\ UNCHANGED <<sessionVars, routerVars, avail, writing, srcOff, swept, listVars, trackVars, otherVars>>

-----------------------------------------------------------------------------
(* RTCP and the end of the publisher, of its track and of subscribers.     *)

\* Feedback is sent with the buffer locked, into a channel that nobody drains
\* once the router has stopped: a writer that finds it full keeps the lock.
Feedback ==
  /\ rstage # "none" /\ ~srcOff /\ ~stuck /\ ppc = "stopped"
  /\ stuck' = TRUE
  /\ UNCHANGED <<sessionVars, ppc, publish, todo, tracked, rlock, sourceVars, listVars, trackVars,
                 otherVars>>

\* peer.Close removes the peer from the session first.
RemovePeer ==
  /\ pubIn /\ pubIn' = FALSE
  /\ UNCHANGED <<mode, js, label, chan, routerVars, sourceVars, listVars, trackVars, otherVars>>

\* Publisher.Close, by peer.Close or when ICE fails: router.Stop ...
StopRouter ==
  /\ ppc = "open" /\ ppc' = "stopped"
  /\ UNCHANGED <<sessionVars, publish, todo, tracked, rlock, stuck, sourceVars, listVars,
                 trackVars, otherVars>>

\* ... then pc.Close, which locks and closes the buffers.
ClosePC ==
  /\ ppc = "stopped" /\ ~stuck /\ ppc' = "closed" /\ srcOff' = TRUE
  /\ UNCHANGED <<sessionVars, publish, todo, tracked, rlock, stuck, avail, writing,
                 rstage, swept, listVars, trackVars, otherVars>>

\* The publisher's client removes the track.
TrackRemoved ==
  /\ rstage = "open" /\ ~srcOff /\ ~stuck /\ srcOff' = TRUE
  /\ UNCHANGED <<sessionVars, routerVars, avail, writing, rstage, swept, listVars, trackVars, otherVars>>

\* A subscriber's peer connection closes: its peer leaves or ICE fails.
SubscriberCloses(s) ==
  /\ js[s] # "out" /\ s \notin pcClosed /\ pcClosed' = pcClosed \cup {s}
  /\ UNCHANGED <<sessionVars, routerVars, sourceVars, listVars, trackVars, call, raced, late, panicked>>

-----------------------------------------------------------------------------
\* What clients, networks and signal handlers start.
Event == \/ \E l \in Layer : AddLayer(l)
         \/ OpenChannel \/ ChannelPanics
         \/ \E s \in Sub : RequestTo(s) \/ SubscriberCloses(s)
         \/ \E d \in DT : Unsubscribe(d)
         \/ \E k \in Caller, d \in DT, l \in Layer : SwitchStarts(k, d, l)
         \/ RemovePeer \/ StopRouter \/ TrackRemoved \/ Feedback

\* How the goroutines go on.
Adding(d) == \/ ListTrack(d) \/ ListFails(d) \/ RequestPanics(d)
             \/ ReceiverRefuses(d) \/ StoreTrack(d)
Joining(s)   == AddPeer(s) \/ Subscribe(s) \/ SubscribeTo(s)
Switching(k) == SwitchEnqueues(k) \/ SwitchEnds(k)
Moving(l)    == MoveTrack(l) \/ MoveEnds(l)
Closing(l)   == WriterEnds(l) \/ CloseTracks(l)

Step == \/ \E l \in Layer : AddReceiver(l) \/ KeyFrame(l) \/ WriteFails(l) \/ Moving(l) \/ Closing(l)
        \/ PublishPeers \/ PublishEnds \/ ChannelPeers
        \/ \E s \in Sub : PublishTo(s) \/ Joining(s)
        \/ \E d \in DT : Adding(d)
        \/ \E k \in Caller : Switching(k)
        \/ DeleteReceiver \/ ClosePC

Next == ~panicked /\ \/ Event /\ events < MaxEvents /\ events' = events + 1
                     \/ Step /\ UNCHANGED events

Spec == Init /\ [][Next]_vars

-----------------------------------------------------------------------------
\* Publish and Subscribe give a subscriber at most one down track of a track,
\* in whatever order they run: a second one comes from a request.
OneTrackEach ==
  \A d, e \in listed : d # e /\ d[1] = e[1] => d[2] = "request" \/ e[2] = "request"

\* Join against Publish and against AddDatachannel: once both are over, a peer
\* has been given a down track of the open track and the data channel.
Served ==
  \A s \in Sub \ pcClosed :
    js[s] = "joined" \/ Over(<<s, "subscribe">>) =>
      /\ pubIn /\ rstage = "open" /\ publish = "done" => \E c \in Call : Created(<<s, c>>)
      /\ label = "peers" => s \in chan

\* A down track is stored at its current layer and nowhere else, and the open
\* ones are stored, unless two switches of the track overlapped.
AtItsLayer ==
  \A d \in DT \ raced :
    /\ \A l \in Layer : d \in store[l] => cur[d] = l
    /\ st[d] = "done" /\ d \notin dclosed => d \in store[cur[d]]

\* A track that waits for its target layer, and refuses other switches till
\* then, is queued for it, unless two switches of the track overlapped.
SwitchPending ==
  \A d \in DT \ raced :
    cur[d] # tgt[d] => \/ \E i \in DOMAIN pend[tgt[d]] : pend[tgt[d]][i] = d
                       \/ \E k \in Caller : call[k].step = "target" /\ call[k].d = d

\* When the receiver has gone, the down tracks it took while it was open are
\* closed.
NoneForgotten ==
  rstage = "gone" => \A d \in DT : st[d] = "done" /\ d \notin late => d \in dclosed

\* Nobody waits on anybody for good: when no goroutine can go on, no lock is
\* held, and the track of a publisher whose router has stopped has gone with
\* its writers, unless one hangs on the channel the router no longer drains.
AtRest ==
  ~ENABLED Step /\ ~panicked =>
    /\ rlock = None /\ wlock = None
    /\ ppc # "open" => stuck \/ (rstage \in {"none", "gone"} /\ writing = {})
=============================================================================

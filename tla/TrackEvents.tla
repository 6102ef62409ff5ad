----------------------------- MODULE TrackEvents -----------------------------
(***************************************************************************)
(* What the SFU's signal streams are told of one publisher's tracks.        *)
(*                                                                         *)
(* After its join is answered, the publisher's stream installs, one after   *)
(* the other, the handlers that tell the other streams of a track added or  *)
(* removed (the router's) and of the tracks listed (the publisher's, once,  *)
(* 800 ms after the first).  A stream that joins is told the tracks listed, *)
(* and is registered for events only then.                                 *)
(***************************************************************************)
EXTENDS Naturals

CONSTANTS Track,     \* the publisher's tracks
          Observer,  \* other streams of the server
          Roommate   \* those of the publisher's session

ASSUME EventsAssumption == Roommate \subseteq Observer

VARIABLES
  installed, \* handlers installed: onAddTrack, onDelTrack, onPublisherTrack
  state,     \* [Track -> where pc.OnTrack is with it]
  deleted,     \* tracks whose receiver has been deleted
  debounced, \* the 800 ms timer
  snapshot,  \* the tracks its callback has read
  tracksInfo,
  gone,      \* the publisher's stream has returned
  closing,   \* its peer was closed
  sigs,      \* [Observer -> "out", listed ("joining") or registered ("in")]
  view,      \* [Observer -> [Track -> the last event it was told, or "none"]]
  excused    \* history: [Observer -> tracks an event of which came before the
             \* observer or a handler was registered, or was ADD after its end]

eventVars == <<installed, state, deleted, debounced, snapshot, tracksInfo, gone, closing,
               sigs, view, excused>>

EventsInit ==
  /\ installed = 0 /\ state = [t \in Track |-> "none"] /\ deleted = {}
  /\ debounced = "unset" /\ snapshot = {} /\ tracksInfo = {}
  /\ gone = FALSE /\ closing = FALSE
  /\ sigs = [o \in Observer |-> "out"]
  /\ view = [o \in Observer |-> [t \in Track |-> "none"]]
  /\ excused = [o \in Observer |-> {}]

-----------------------------------------------------------------------------
Told(o, ts, event) == [t \in Track |-> IF t \in ts THEN event ELSE view[o][t]]

Excuse(os, ts) ==
  excused' = [o \in Observer |-> excused[o] \union (IF o \in os THEN ts ELSE {})]

In(places) == {o \in Observer : sigs[o] \in places}

\* Dead tracks: what a late ADD is about.
Dead == IF gone THEN Track ELSE deleted

\* Every stream registered, whatever its session.
BroadcastTrackEvent(ts, event) ==
  view' = [o \in Observer |-> IF sigs[o] = "in" THEN Told(o, ts, event) ELSE view[o]]

BroadcastIf(handler, t, event) ==
  IF installed >= handler
  THEN BroadcastTrackEvent({t}, event) /\ Excuse(In({"joining"}), {t})
  ELSE Excuse(In({"joining", "in"}), {t}) /\ UNCHANGED view

-----------------------------------------------------------------------------
(* The publisher.                                                          *)

InstallHandler ==
  /\ installed < 3 /\ installed' = installed + 1
  /\ UNCHANGED <<state, deleted, debounced, snapshot, tracksInfo, gone, closing, sigs, view,
                 excused>>

\* The handler runs under the router's lock, before the track is listed.
AddReceiver(t) ==
  /\ state[t] = "none" /\ ~closing
  /\ state' = [state EXCEPT ![t] = "received"]
  /\ BroadcastIf(1, t, "ADD")
  /\ UNCHANGED <<installed, deleted, debounced, snapshot, tracksInfo, gone, closing, sigs>>

DeleteReceiver(t) ==
  /\ state[t] # "none" /\ t \notin deleted
  /\ deleted' = deleted \union {t}
  /\ BroadcastIf(2, t, "REMOVE")
  /\ UNCHANGED <<installed, state, debounced, snapshot, tracksInfo, gone, closing, sigs>>

\* p.tracks, which never loses a track.
AppendTrack(t) ==
  /\ state[t] = "received" /\ state' = [state EXCEPT ![t] = "listed"]
  /\ UNCHANGED <<installed, deleted, debounced, snapshot, tracksInfo, gone, closing, sigs,
                 view, excused>>

PublisherTracks == {t \in Track : state[t] \in {"listed", "handled"}}

\* once.Do: one timer for the stream, set by the first track.
OnPublisherTrack(t) ==
  /\ state[t] = "listed" /\ state' = [state EXCEPT ![t] = "handled"]
  /\ debounced' = IF installed = 3 /\ debounced = "unset" THEN "set" ELSE debounced
  /\ UNCHANGED <<installed, deleted, snapshot, tracksInfo, gone, closing, sigs, view, excused>>

TimerFires ==
  /\ debounced = "set" /\ debounced' = "fired"
  /\ snapshot' = PublisherTracks /\ tracksInfo' = tracksInfo \union PublisherTracks
  /\ UNCHANGED <<installed, state, deleted, gone, closing, sigs, view, excused>>

TimerBroadcasts ==
  /\ debounced = "fired" /\ debounced' = "done"
  /\ BroadcastTrackEvent(snapshot, "ADD")
  /\ excused' = [o \in Observer |-> excused[o] \union
                   CASE sigs[o] = "in" -> snapshot \intersect Dead
                     [] sigs[o] = "joining" -> snapshot
                     [] OTHER -> {}]
  /\ UNCHANGED <<installed, state, deleted, snapshot, tracksInfo, gone, closing, sigs>>

\* The end of the stream: Recv's error closes the peer before, another error
\* leaves it in its session.  The deferred cleanup tells of tracksInfo only.
SignalReturns(closes) ==
  /\ installed = 3 /\ ~gone /\ gone' = TRUE /\ closing' = closes
  /\ BroadcastTrackEvent(tracksInfo, "REMOVE")
  /\ excused' = [o \in Observer |-> excused[o] \union
                   (IF sigs[o] = "joining" THEN tracksInfo ELSE {}) \union
                   (IF closes THEN {} ELSE Track \ tracksInfo)]
  /\ UNCHANGED <<installed, state, deleted, debounced, snapshot, tracksInfo, sigs>>

-----------------------------------------------------------------------------
(* Another stream joins.                                                   *)

RegisterAtOnce(o) ==
  /\ sigs[o] = "out" /\ sigs' = [sigs EXCEPT ![o] = "in"]
  /\ UNCHANGED <<installed, state, deleted, debounced, snapshot, tracksInfo, gone, closing,
                 view, excused>>

\* Of the peers of its session.
ListTracks(o) ==
  /\ sigs[o] = "out" /\ sigs' = [sigs EXCEPT ![o] = "joining"]
  /\ LET listed == IF o \in Roommate /\ ~closing THEN PublisherTracks ELSE {}
         unlisted == {t \in Track : state[t] # "none"} \ listed
     IN  /\ view' = [view EXCEPT ![o] = Told(o, listed, "ADD")]
         /\ Excuse({o}, unlisted \union (listed \intersect Dead))
  /\ UNCHANGED <<installed, state, deleted, debounced, snapshot, tracksInfo, gone, closing>>

Register(o) ==
  /\ sigs[o] = "joining" /\ sigs' = [sigs EXCEPT ![o] = "in"]
  /\ UNCHANGED <<installed, state, deleted, debounced, snapshot, tracksInfo, gone, closing,
                 view, excused>>

-----------------------------------------------------------------------------
EventsNext ==
  \/ \E t \in Track : AddReceiver(t) \/ DeleteReceiver(t) \/ AppendTrack(t)
                      \/ OnPublisherTrack(t)
  \/ InstallHandler \/ TimerFires \/ TimerBroadcasts
  \/ \E closes \in BOOLEAN : SignalReturns(closes)
  \/ \E o \in Observer : ListTracks(o) \/ Register(o)

EventsSpec == EventsInit /\ [][EventsNext]_eventVars

-----------------------------------------------------------------------------
\* Nothing the SFU does by itself is under way.
EventsAtRest ==
  /\ installed = 3 /\ debounced \in {"unset", "done"}
  /\ \A t \in Track : state[t] \in {"none", "handled"}
  /\ closing => \A t \in Track : state[t] # "none" => t \in deleted
  /\ In({"joining"}) = {}

\* What the client knows: whatever the order of a track's arrival, its listing,
\* the one timer, its end, the stream's end and another stream's join, once
\* the SFU is at rest a client of the session counts a track among the
\* session's exactly if it is there.  Excused are the tracks with an event in
\* the gap between listing and registration or before a handler was
\* installed, those ADDed after their end by the timer or to a stream that
\* joins, and those of a stream that deleted by an error, which never end.
TracksKnown ==
  EventsAtRest =>
    \A o \in Roommate : \A t \in Track \ excused[o] :
      sigs[o] = "in" =>
        (view[o][t] = "ADD" <=> state[t] # "none" /\ t \notin Dead)

\* "broadcast the existing tracks in the session" (server.go:301): a stream of
\* another session is told nothing of the publisher's tracks.
InTheSession ==
  \A o \in Observer \ Roommate, t \in Track : view[o][t] = "none"
=============================================================================

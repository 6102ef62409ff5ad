------------------------------- MODULE RtspClient ------------------------------
(***************************************************************************)
(* One RTSP client of a controller node: its GStreamer pipelines and its    *)
(* connection to the SFU, from Connect to Close.                            *)
(*                                                                         *)
(* Connect starts a pipeline and joins the SFU in two goroutines.  The bus  *)
(* messages of all pipelines of the process are handled by one thread, the  *)
(* main loop; a pipeline that ends while the client is not closed is        *)
(* replaced there, with waits and retries.  Close stops the pipeline the    *)
(* client names at that moment.                                             *)
(*                                                                         *)
(* Pipelines are numbered in the order they are created.  MaxPipelines      *)
(* bounds them and MaxEvents what cameras, the SFU and callers do.          *)
(***************************************************************************)
EXTENDS SfuClient

CONSTANTS MaxPipelines, MaxEvents

ASSUME ClientAssumption == MaxPipelines \in Nat \ {0} /\ MaxEvents \in Nat

Pipe == 1 .. MaxPipelines

VARIABLES
  connect,   \* progress of Connect, then its result
  dial,      \* the goroutine that makes the pipeline
  place,     \* the goroutine that joins the SFU
  state,     \* [Pipe -> life of the pipeline]
  handled,   \* pipelines with their OnClose handler
  pipeline,  \* c.pipeline, or 0
  loop,      \* what the main loop's thread does
  connector, \* c.connector is set
  closed,    \* c.closed
  close,     \* progress of close
  reader,    \* the goroutine of startRTCPHandler
  \* history
  stray,     \* pipelines of an attempt that Close overlapped, or replaced by
             \* an older one
  crashed,   \* the process panicked
  events

clientVars == <<connect, dial, place, state, handled, pipeline, loop, connector,
                closed, close, reader, stray, crashed>>
clientAll == <<rtc, signal, join, publish, due, local, remote, sendQ, ice, sent,
          gathered, raced, sentTwice, connect, dial, place, state, handled, pipeline,
          loop, connector, closed, close, reader, stray, crashed, events>>

-----------------------------------------------------------------------------
Rest == [at |-> "idle", p |-> 0]

ClientInit ==
  /\ RtcInit
  /\ connect = "new" /\ dial = "no" /\ place = "no"
  /\ state = [p \in Pipe |-> "none"] /\ handled = {} /\ pipeline = 0
  /\ loop = Rest /\ connector = FALSE /\ closed = FALSE /\ close = "idle"
  /\ reader = "no" /\ stray = {} /\ crashed = FALSE /\ events = 0

\* Connect holds c.mu until it returns, and so does Close.
Locked == connect \in {"dialing", "waits"} \/ close # "idle"

Fresh(p) == state[p] = "none" /\ \A q \in Pipe : q < p => state[q] # "none"
Playing  == {p \in Pipe : state[p] = "playing"}

-----------------------------------------------------------------------------
(* Connect.                                                                *)

\* The camera is described, or Connect returns an error.
Describe ==
  /\ connect = "new" /\ connect' = "waits"
  /\ dial' = "creates" /\ place' = "places"
  /\ UNCHANGED <<rtcVars, state, handled, pipeline, loop, connector, closed, close,
                 reader, stray, crashed>>

DescribeFails ==
  /\ connect = "new" /\ connect' = "failed"
  /\ UNCHANGED <<rtcVars, dial, place, state, handled, pipeline, loop, connector,
                 closed, close, reader, stray, crashed>>

\* createPipelineWithRetry in Connect's goroutine: the pipeline starts, then
\* gets its handler, then is stored.
DialOnly(d) ==
  /\ dial' = d
  /\ UNCHANGED <<rtcVars, connect, place, loop, connector, closed, close, reader,
                 crashed>>

DialFails ==
  /\ dial = "creates" /\ DialOnly("failed")
  /\ UNCHANGED <<state, handled, pipeline, stray>>

DialStarts ==
  /\ dial = "creates" /\ state' = [state EXCEPT ![1] = "playing"]
  /\ DialOnly("started") /\ UNCHANGED <<handled, pipeline, stray>>

DialHandles ==
  /\ dial = "started" /\ handled' = handled \cup {1}
  /\ DialOnly("handled") /\ UNCHANGED <<state, pipeline, stray>>

\* A pipeline that failed at once may have been replaced already.
DialStores ==
  /\ dial = "handled" /\ pipeline' = 1
  /\ stray' = IF pipeline = 0 THEN stray ELSE stray \cup {pipeline}
  /\ DialOnly("done") /\ UNCHANGED <<state, handled>>

\* The SFU: its address, the connector, NewRTC, Join, Publish, and at last
\* c.connector.  An error leaves the RTC open and the connector unset.
PlaceOnly(s) ==
  /\ place' = s
  /\ UNCHANGED <<connect, dial, state, handled, pipeline, loop, closed, close, stray>>

PlaceFails ==
  /\ place \in {"places", "joins"} /\ PlaceOnly("failed")
  /\ UNCHANGED <<rtcVars, connector, reader, crashed>>

PlaceOpens ==
  /\ place = "places" /\ PlaceOnly("joins") /\ NewRTC
  /\ UNCHANGED <<connector, reader, crashed>>

\* Without a signaller the loop that NewRTC starts calls a nil interface.
PlacePanics ==
  /\ place = "places" /\ PlaceOnly("failed") /\ crashed' = TRUE
  /\ UNCHANGED <<rtcVars, connector, reader>>

PlaceJoins ==
  /\ place = "joins" /\ PlaceOnly("publishes") /\ Join
  /\ UNCHANGED <<connector, reader, crashed>>

PlacePublishes ==
  /\ place = "publishes" /\ PlaceOnly("stores") /\ Publish /\ reader' = "reads"
  /\ UNCHANGED <<connector, crashed>>

\* AddTrack's error is ignored: nothing will be published.
PublishFails ==
  /\ place = "publishes" /\ PlaceOnly("stores")
  /\ UNCHANGED <<rtcVars, connector, reader, crashed>>

PlaceStores ==
  /\ place = "stores" /\ PlaceOnly("done") /\ connector' = TRUE
  /\ UNCHANGED <<rtcVars, reader, crashed>>

\* Both goroutines are done.
ConnectReturns ==
  /\ connect = "waits" /\ dial = "done" /\ place = "done"
  /\ connect' = "connected"
  /\ UNCHANGED <<rtcVars, dial, place, state, handled, pipeline, loop, connector,
                 closed, close, reader, stray, crashed>>

-----------------------------------------------------------------------------
(* close, in three steps: the mark, the connector, the pipeline.           *)

\* What the main loop has in the making when the client is marked closed.
Attempt == IF loop.at \in {"creates", "started", "stores"} THEN {loop.p} ELSE {}
CloseMarks(from) ==
  /\ closed' = TRUE /\ close' = "connector"
  /\ stray' = stray \cup Attempt
  /\ connect' = from
  /\ UNCHANGED <<rtcVars, dial, place, state, handled, pipeline, loop, connector,
                 reader, crashed>>

\* Connect closes the client when a goroutine failed.
ConnectCloses ==
  /\ connect = "waits" /\ dial \in {"done", "failed"} /\ place \in {"done", "failed"}
  /\ dial = "failed" \/ place = "failed"
  /\ CloseMarks("failed")

\* A disconnect, or the service after a Connect that failed.
Close ==
  /\ connect \in {"connected", "failed"} /\ ~Locked /\ ~closed
  /\ CloseMarks(connect)

\* The connector's services are closed if it was set.
CloseConnector ==
  /\ close = "connector" /\ close' = "pipeline"
  /\ IF connector THEN CloseRTC ELSE UNCHANGED rtcVars
  /\ UNCHANGED <<connect, dial, place, state, handled, pipeline, loop, connector,
                 closed, reader, stray, crashed>>

\* A stop that is sent to the first pipeline only.
StopsFirst ==
  /\ close = "pipeline" /\ close' = "idle"
  /\ state' = IF pipeline # 0 /\ state[1] = "playing"
              THEN [state EXCEPT ![1] = "stopping"] ELSE state
  /\ UNCHANGED <<rtcVars, connect, dial, place, handled, pipeline, loop, connector,
                 closed, reader, stray, crashed>>

\* Stop sends EOS to the pipeline c.pipeline names; then onClose.
ClosePipeline ==
  /\ close = "pipeline" /\ close' = "idle"
  /\ state' = IF pipeline # 0 /\ state[pipeline] = "playing"
              THEN [state EXCEPT ![pipeline] = "stopping"] ELSE state
  /\ UNCHANGED <<rtcVars, connect, dial, place, handled, pipeline, loop, connector,
                 closed, reader, stray, crashed>>

\* The RTCP reader looks whether the client is closed when a read
\* fails, and ends when the connection has.
ReaderEnds ==
  /\ reader = "reads"
  /\ \/ closed /\ ~Locked
     \/ rtc = "closed"
  /\ reader' = "ended"
  /\ UNCHANGED <<rtcVars, connect, dial, place, state, handled, pipeline, loop,
                 connector, closed, close, stray, crashed>>

-----------------------------------------------------------------------------
(* The main loop's thread.                                                 *)

LoopOnly(l) ==
  /\ loop' = l
  /\ UNCHANGED <<rtcVars, connect, dial, place, connector, closed, close, reader,
                 crashed>>

\* An error of the camera or of a sink, on the bus of the pipeline.
PipelineFails(p) ==
  /\ state[p] = "playing" /\ state' = [state EXCEPT ![p] = "failing"]
  /\ UNCHANGED <<rtcVars, connect, dial, place, handled, pipeline, loop, connector,
                 closed, close, reader, stray, crashed>>

\* The handler of another client's pipeline runs, and waits there.
OtherHandler ==
  /\ loop = Rest /\ LoopOnly([at |-> "other", p |-> 0])
  /\ UNCHANGED <<state, handled, pipeline, stray>>
OtherReturns ==
  /\ loop.at = "other" /\ LoopOnly(Rest) /\ UNCHANGED <<state, handled, pipeline, stray>>

\* MessageWatch and onClose: without a handler, or with the client closed,
\* that is all.
Dispatch(p) ==
  /\ loop = Rest /\ state[p] \in {"failing", "stopping"}
  /\ state' = [state EXCEPT ![p] = "ended"]
  /\ LoopOnly(IF p \in handled /\ ~closed THEN [at |-> "sleeps", p |-> 0] ELSE Rest)
  /\ UNCHANGED <<handled, pipeline, stray>>

\* After the wait, and before each attempt, the client may be closed.
RetryEnds ==
  /\ loop.at = "sleeps" /\ closed /\ LoopOnly(Rest)
  /\ UNCHANGED <<state, handled, pipeline, stray>>

Retries(p) ==
  /\ loop.at = "sleeps" /\ ~closed /\ Fresh(p)
  /\ LoopOnly([at |-> "creates", p |-> p])
  /\ UNCHANGED <<state, handled, pipeline, stray>>

\* The attempt fails: another one, or after 15 minutes none.
RetryFails ==
  /\ loop.at = "creates"
  /\ \E l \in {Rest, [at |-> "sleeps", p |-> 0]} : LoopOnly(l)
  /\ UNCHANGED <<state, handled, pipeline, stray>>

RetryStarts ==
  /\ loop.at = "creates" /\ state' = [state EXCEPT ![loop.p] = "playing"]
  /\ LoopOnly([loop EXCEPT !.at = "started"]) /\ UNCHANGED <<handled, pipeline, stray>>

RetryHandles ==
  /\ loop.at = "started" /\ handled' = handled \cup {loop.p}
  /\ LoopOnly([loop EXCEPT !.at = "stores"]) /\ UNCHANGED <<state, pipeline, stray>>

\* A store that tests closed again, too late for what Close has read.
RetryStores ==
  /\ loop.at = "stores" /\ pipeline' = loop.p
  /\ LoopOnly(Rest) /\ UNCHANGED <<state, handled, stray>>

ClientEvent ==
  /\ events < MaxEvents /\ events' = events + 1
  /\ \/ RtcEvent /\ UNCHANGED clientVars
     \/ \E p \in Pipe : PipelineFails(p)
     \/ OtherHandler
     \/ Close

ClientStep ==
  /\ events' = events
  /\ \/ RtcStep /\ UNCHANGED clientVars
     \/ Describe
     \/ DescribeFails
     \/ DialFails
     \/ DialStarts
     \/ DialHandles
     \/ DialStores
     \/ PlaceFails
     \/ PlaceOpens
     \/ PlacePanics
     \/ PlaceJoins
     \/ PlacePublishes
     \/ PublishFails
     \/ PlaceStores
     \/ ConnectReturns
     \/ ConnectCloses
     \/ CloseConnector
     \/ ClosePipeline
     \/ ReaderEnds
     \/ OtherReturns
     \/ \E p \in Pipe : Dispatch(p) \/ Retries(p)
     \/ RetryEnds
     \/ RetryFails
     \/ RetryStarts
     \/ RetryHandles
     \/ RetryStores

ClientNext == ~crashed /\ (ClientEvent \/ ClientStep)

ClientSpec == ClientInit /\ [][ClientNext]_clientAll

-----------------------------------------------------------------------------
\* Once a client has been closed and no attempt to replace its pipeline is in
\* the making, no pipeline of it plays on and its RTC is closed: except a
\* pipeline whose attempt had looked at c.closed before it was closed, one
\* that was replaced by an older one, and the RTC of a Connect that failed
\* after it was made.
AfterClose == closed /\ close = "idle" /\ Attempt = {}
ClosedStops ==
  AfterClose => /\ Playing \subseteq stray
                /\ rtc = "open" => place = "failed"
=============================================================================

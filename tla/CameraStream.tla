---------------------------- MODULE CameraStream ----------------------------
(***************************************************************************)
(* One camera document of the API server and what follows its writes: the  *)
(* mongoose middleware starts, without awaiting it, a chain of calls that  *)
(* takes the camera off the AI server and the controller, puts it back,    *)
(* and writes the outcome into the document through the same middleware.   *)
(* Chains of several writes interleave at every await.                     *)
(*                                                                         *)
(* A member of Op is one write (creation, update or deletion) with its     *)
(* chain, and the client that its Connect creates at the controller.  The  *)
(* controller is one node of RtspConnection, with the lookup and the close *)
(* of a delivery in one step.  The AI server is external.                  *)
(***************************************************************************)
EXTENDS Naturals

CONSTANTS Op,         \* writes of the document (a bound on their number)
          Info,       \* address, user name and password of the RTSP stream
          Changes,    \* updates that may be asked for
          None,       \* no stream, an incomplete Info, no client
          Keep,       \* a field that an update leaves alone
          MaxFaults   \* bound on failed calls, crashes and restarts

Streamable == Info \cup {None}

ASSUME CameraAssumption ==
  /\ None \notin Op /\ None \notin Info /\ Keep \notin Streamable /\ Keep \notin BOOLEAN
  /\ Changes \subseteq [info : Streamable \cup {Keep}, used : BOOLEAN \cup {Keep},
                        event : BOOLEAN \cup {Keep}]
  /\ MaxFaults \in Nat

VARIABLES
  doc,       \* the camera document
  change,    \* [Op -> the update asked for, with its need_update_connection]
  pc,        \* [Op -> Stages]: progress of the write and its chain
  kind,      \* [Op -> Kinds]
  got,       \* [Op -> the document as the chain read it]
  ai,        \* the stream the AI server analyses
  locked,    \* the camera's connection lock at the controller
  map,       \* the client the controller's map holds for the camera
  open,      \* clients of the camera that stream
  event,     \* [Op -> DelivStates]: the delivery of the Disconnect of a chain
  faults,    \* faults so far
  settled,   \* history: see Begins
  raced      \* history: Connect and Disconnect met at the controller (see LeakNeedsRace)

apiVars == <<doc, change, pc, kind, got>>
ctlVars == <<locked, map, open, event>>
vars == <<doc, change, pc, kind, got, ai, locked, map, open, event, faults, settled, raced>>

Docs == [exists : BOOLEAN, info : Streamable, used : BOOLEAN, event : BOOLEAN,
         need : BOOLEAN, ctl : BOOLEAN, ai : BOOLEAN, url : Streamable]
NoDoc == [exists |-> FALSE, info |-> None, used |-> FALSE, event |-> FALSE,
          need |-> FALSE, ctl |-> FALSE, ai |-> FALSE, url |-> None]
NoChange == [info |-> Keep, used |-> Keep, event |-> Keep]

Kinds  == {"none", "create", "update", "delete", "lost"}
Stages == {"idle", "checked", "written", "deleteAi", "disconnect", "connect", "granted",
           "dialing", "createAi", "writeBack", "done"}
DelivStates == {"none", "sent", "closed"}

TypeOK ==
  /\ doc \in Docs /\ got \in [Op -> Docs]
  /\ change \in [Op -> Changes \cup {NoChange}]
  /\ pc \in [Op -> Stages] /\ kind \in [Op -> Kinds]
  /\ ai \in Streamable /\ locked \in BOOLEAN
  /\ map \in Op \cup {None} /\ open \subseteq Op
  /\ event \in [Op -> DelivStates]
  /\ faults \in Nat /\ settled \in BOOLEAN /\ raced \in BOOLEAN

Init ==
  /\ doc = NoDoc /\ got = [o \in Op |-> NoDoc]
  /\ change = [o \in Op |-> NoChange]
  /\ pc = [o \in Op |-> "idle"] /\ kind = [o \in Op |-> "none"]
  /\ ai = None /\ locked = FALSE /\ map = None /\ open = {}
  /\ event = [o \in Op |-> "none"]
  /\ faults = 0 /\ settled = TRUE /\ raced = FALSE

-----------------------------------------------------------------------------
\* satisfyRtspStream and inUsedStatus.
Streams(d) == d.info # None /\ d.used

\* The controller's mutex is held for the whole of a dial.
MuFree     == \A o \in Op : pc[o] # "dialing"
Connecting == \E o \in Op : pc[o] \in {"granted", "dialing"}

Undelivered == \E o \in Op : event[o] # "none"
NoChain     == \A o \in Op : pc[o] \in {"idle", "done"}
Quiescent   == NoChain /\ ~Undelivered

\* The history of settled: a write that begins when nothing is in flight keeps
\* what it was, or makes it true if its chain takes the camera off both servers
\* and puts it back (repairs); a write that meets another in flight makes it false.
Begins(repairs) == settled' = (Quiescent /\ (settled \/ repairs))

\* Every failure makes it false, too.
Fault == faults < MaxFaults /\ faults' = faults + 1 /\ settled' = FALSE

-----------------------------------------------------------------------------
(* Writes.                                                                 *)

\* The document is saved; the post hook starts createStreamConnection.
Create(o, i, used, e) ==
  /\ \A p \in Op : kind[p] = "none"
  /\ doc' = [NoDoc EXCEPT !.exists = TRUE, !.info = i, !.used = used, !.event = e]
  /\ kind' = [kind EXCEPT ![o] = "create"]
  /\ pc' = [pc EXCEPT ![o] = "written"]
  /\ Begins(FALSE)
  /\ UNCHANGED <<change, got, ai, ctlVars, faults, raced>>

\* Mutant: a change of status does not ask for a new connection.
NeedsIgnoresStatus(c) == c.info # Keep /\ c.info # doc.info

\* The pre hook compares the update with the document it finds.
Needs(c) ==
  \/ c.info # Keep /\ c.info # doc.info
  \/ c.used # Keep /\ c.used # doc.used

\* An update's pre hook, ...
CheckUpdate(o, c) ==
  /\ pc[o] = "idle" /\ doc.exists
  /\ kind' = [kind EXCEPT ![o] = "update"]
  /\ pc' = [pc EXCEPT ![o] = "checked"]
  /\ change' = [change EXCEPT ![o] = c]
  /\ got' = [got EXCEPT ![o] = [doc EXCEPT !.need = Needs(c)]]
  /\ Begins(Needs(c))
  /\ UNCHANGED <<doc, ai, ctlVars, faults, raced>>

\* A field of the update, or the document's.
Set(new, old) == IF new = Keep THEN old ELSE new

\* ... its write with the verdict of the pre hook, and the start of
\* updateStreamConnection; a document deleted in between ends it.
WriteUpdate(o) ==
  /\ pc[o] = "checked"
  /\ change' = [change EXCEPT ![o] = NoChange]
  /\ IF doc.exists
       THEN /\ doc' = [doc EXCEPT !.info = Set(change[o].info, @), !.used = Set(change[o].used, @),
                                  !.event = Set(change[o].event, @), !.need = got[o].need]
            /\ pc' = [pc EXCEPT ![o] = "written"]
       ELSE /\ pc' = [pc EXCEPT ![o] = "done"]
            /\ UNCHANGED doc
  /\ UNCHANGED <<kind, got, ai, ctlVars, faults, settled, raced>>

\* The document is deleted; the post hook starts deleteStreamConnection with it.
Delete(o) ==
  /\ pc[o] = "idle" /\ doc.exists
  /\ doc' = NoDoc
  /\ got' = [got EXCEPT ![o] = doc]
  /\ kind' = [kind EXCEPT ![o] = "delete"]
  /\ pc' = [pc EXCEPT ![o] = "deleteAi"]
  /\ Begins(TRUE)
  /\ UNCHANGED <<change, ai, ctlVars, faults, raced>>

-----------------------------------------------------------------------------
(* The chain.  Errors of its calls are logged and the chain goes on.       *)

Reconnects(o)   == kind[o] = "create" \/ got[o].need
\* The API server that waited for this Connect may have crashed.
AfterConnect(o) == IF kind[o] = "lost" THEN "done"
                   ELSE IF got[o].event THEN "createAi" ELSE "writeBack"
\* handleCreateStream: what it begins with.
CreateStage(k, d) ==
  IF ~Streams(d) THEN "writeBack"
  ELSE IF k = "create" \/ d.need THEN "connect"
  ELSE IF d.event THEN "createAi" ELSE "writeBack"

\* The chain reads the document again, with what other writes made of it.
ReadDoc(o) ==
  /\ pc[o] = "written"
  /\ IF doc.exists
       THEN /\ got' = [got EXCEPT ![o] = doc]
            /\ pc' = [pc EXCEPT ![o] = IF kind[o] = "create" THEN CreateStage("create", doc)
                                       ELSE "deleteAi"]
       ELSE /\ pc' = [pc EXCEPT ![o] = "done"]
            /\ UNCHANGED got
  /\ UNCHANGED <<doc, change, kind, ai, ctlVars, faults, settled, raced>>

AfterDeleteAi(o) ==
  IF kind[o] = "delete" \/ got[o].need THEN "disconnect" ELSE CreateStage(kind[o], got[o])
AfterDisconnect(o) ==
  IF kind[o] = "delete" THEN "done" ELSE CreateStage(kind[o], got[o])

\* handleDeleteStream: the AI server first ...
DeleteAi(o) ==
  /\ pc[o] = "deleteAi"
  /\ pc' = [pc EXCEPT ![o] = AfterDeleteAi(o)]
  /\ \/ ai' = None /\ UNCHANGED <<faults, settled>>
     \/ Fault /\ UNCHANGED ai
  /\ UNCHANGED <<doc, change, kind, got, ctlVars, raced>>

\* ... then the controller, which deletes the lock and publishes the event.
\* The call may fail, and the event may find no subscriber.
Disconnect(o) ==
  /\ pc[o] = "disconnect"
  /\ pc' = [pc EXCEPT ![o] = AfterDisconnect(o)]
  /\ \/ /\ locked' = FALSE
        /\ event' = [event EXCEPT ![o] = "sent"]
        /\ raced' = (raced \/ Connecting)
        /\ UNCHANGED <<faults, settled>>
     \/ /\ Fault
        /\ UNCHANGED <<locked, event, raced>>
     \/ /\ Fault
        /\ locked' = FALSE /\ raced' = TRUE
        /\ UNCHANGED event
  /\ UNCHANGED <<doc, change, kind, got, ai, map, open>>

\* handleCreateStream calls Connect.  A lock that is taken is reported as
\* success; a lock that is free is taken, whatever deliveries are still to come.
Connect(o) ==
  /\ pc[o] = "connect"
  /\ \/ /\ locked
        /\ pc' = [pc EXCEPT ![o] = AfterConnect(o)]
        /\ UNCHANGED <<locked, faults, settled, raced>>
     \/ /\ ~locked
        /\ locked' = TRUE
        /\ pc' = [pc EXCEPT ![o] = "granted"]
        /\ raced' = (raced \/ Undelivered)
        /\ settled' = (settled /\ ~Undelivered)
        /\ UNCHANGED faults
     \/ /\ Fault
        /\ pc' = [pc EXCEPT ![o] = AfterConnect(o)]
        /\ UNCHANGED <<locked, raced>>
  /\ UNCHANGED <<doc, change, kind, got, ai, map, open, event>>

\* The controller waits for its mutex, ...
BeginDial(o) ==
  /\ pc[o] = "granted" /\ MuFree
  /\ pc' = [pc EXCEPT ![o] = "dialing"]
  /\ UNCHANGED <<doc, change, kind, got, ai, ctlVars, faults, settled, raced>>

\* ... dials, and stores the client over the one the map holds, or fails and
\* keeps the lock.
EndDial(o) ==
  /\ pc[o] = "dialing"
  /\ pc' = [pc EXCEPT ![o] = AfterConnect(o)]
  /\ \/ /\ map' = o /\ open' = open \cup {o}
        /\ UNCHANGED <<faults, settled>>
     \/ /\ Fault
        /\ UNCHANGED <<map, open>>
  /\ UNCHANGED <<doc, change, kind, got, ai, locked, event, raced>>

\* The AI server is told the stream's address.
CreateAi(o) ==
  /\ pc[o] = "createAi"
  /\ pc' = [pc EXCEPT ![o] = "writeBack"]
  /\ \/ ai' = got[o].info /\ UNCHANGED <<faults, settled>>
     \/ Fault /\ UNCHANGED ai
  /\ UNCHANGED <<doc, change, kind, got, ctlVars, raced>>

\* The chain's state: the flags are set before the calls they speak of.
\* The pre hook of this write finds no change of the stream's data.
WriteBack(o) ==
  /\ pc[o] = "writeBack"
  /\ pc' = [pc EXCEPT ![o] = "done"]
  /\ doc' = IF ~doc.exists THEN doc
            ELSE [doc EXCEPT
                    !.need = FALSE,
                    !.ctl = IF Reconnects(o) THEN Streams(got[o]) ELSE got[o].ctl,
                    !.ai  = Streams(got[o]) /\ got[o].event,
                    !.url = IF Streams(got[o]) THEN got[o].info
                            ELSE IF kind[o] = "create" THEN @ ELSE None]
  /\ UNCHANGED <<change, kind, got, ai, ctlVars, faults, settled, raced>>

-----------------------------------------------------------------------------
(* Deliveries at the controller, and restarts.                             *)

\* Mutants: a delivery that finds nothing stays, a client is not closed.
DeliverWaits(o) ==
  /\ event[o] = "sent" /\ MuFree /\ map # None
  /\ open' = open \ {map}
  /\ event' = [event EXCEPT ![o] = "closed"]
  /\ UNCHANGED <<apiVars, ai, locked, map, faults, settled, raced>>

DeliverForgets(o) ==
  /\ event[o] = "sent" /\ MuFree
  /\ event' = [event EXCEPT ![o] = IF map = None THEN "none" ELSE "closed"]
  /\ UNCHANGED <<apiVars, ai, locked, map, open, faults, settled, raced>>

\* The event closes the client the map holds by then, if any, ...
DeliverClose(o) ==
  /\ event[o] = "sent" /\ MuFree
  /\ open' = open \ {map}
  /\ event' = [event EXCEPT ![o] = IF map = None THEN "none" ELSE "closed"]
  /\ UNCHANGED <<apiVars, ai, locked, map, faults, settled, raced>>

\* ... and takes the entry out of the map.
DeliverDelete(o) ==
  /\ event[o] = "closed" /\ MuFree
  /\ map' = None
  /\ event' = [event EXCEPT ![o] = "none"]
  /\ UNCHANGED <<apiVars, ai, locked, open, faults, settled, raced>>

\* The controller restarts: its clients and deliveries are gone, the calls it
\* handled fail, the lock may or may not be in the set it flushes.
ControllerRestarts ==
  /\ Fault
  /\ pc' = [o \in Op |-> IF pc[o] \in {"granted", "dialing"} THEN AfterConnect(o) ELSE pc[o]]
  /\ map' = None /\ open' = {}
  /\ event' = [o \in Op |-> "none"]
  /\ locked' \in {FALSE, locked}
  /\ UNCHANGED <<doc, change, kind, got, ai, raced>>

\* The API server crashes: its chains end, a call that reached the controller
\* goes on there.
ApiCrashes ==
  /\ Fault
  /\ pc' = [o \in Op |-> IF pc[o] \in {"idle", "granted", "dialing"} THEN pc[o] ELSE "done"]
  /\ kind' = [o \in Op |-> IF pc[o] \in {"granted", "dialing"} THEN "lost" ELSE kind[o]]
  /\ change' = [o \in Op |-> NoChange]
  /\ UNCHANGED <<doc, got, ai, ctlVars, raced>>

\* The AI server restarts and asks for the cameras that satisfy statisfyAiCondition:
\* what a chain in flight has told it, and not yet the document, is lost.
AiRestarts ==
  /\ ai' = IF doc.exists /\ doc.url # None /\ doc.event /\ doc.used THEN doc.url ELSE None
  /\ settled' = (settled /\ NoChain)
  /\ UNCHANGED <<apiVars, ctlVars, faults, raced>>

-----------------------------------------------------------------------------
ChainStep(o) ==
  \/ WriteUpdate(o) \/ ReadDoc(o) \/ DeleteAi(o) \/ Disconnect(o) \/ Connect(o)
  \/ BeginDial(o) \/ EndDial(o) \/ CreateAi(o) \/ WriteBack(o)

DelivStep(o) == DeliverClose(o) \/ DeliverDelete(o)

Next ==
  \/ \E o \in Op, i \in Streamable, used, e \in BOOLEAN : Create(o, i, used, e)
  \/ \E o \in Op, c \in Changes : CheckUpdate(o, c)
  \/ \E o \in Op : Delete(o) \/ ChainStep(o) \/ DelivStep(o)
  \/ ControllerRestarts \/ ApiCrashes \/ AiRestarts

Spec == Init /\ [][Next]_vars

\* Calls are answered or fail, goroutines and promises run; the mutex is handed
\* over.  Nobody has to write, crash or restart.
FairSpec == Spec /\ \A o \in Op : SF_vars(ChainStep(o)) /\ SF_vars(DelivStep(o))

-----------------------------------------------------------------------------
\* What the document says of the camera is what the two servers do.
Agreement ==
  LET on == doc.exists /\ Streams(doc) IN
    /\ locked <=> on
    /\ IF on THEN map \in open /\ got[map].info = doc.info ELSE map = None
    /\ ai = IF on /\ doc.event THEN doc.info ELSE None
    /\ doc.exists => /\ doc.ctl <=> on
                     /\ doc.ai <=> on /\ doc.event
                     /\ doc.url = IF on THEN doc.info ELSE None

\* Whatever overlapping updates, failed calls and restarts have made of the
\* camera, one update that asks for a new connection, or a deletion, brings it
\* in order if nothing disturbs it: no other write in flight, no fault, no
\* restart of the AI server, no Connect ahead of a delivery.  Undisturbed updates keep it in order.
RepairedAgrees == settled /\ Quiescent => Agreement

\* A client that streams but is not in the map can be closed by nobody.  Such
\* clients come of three causes only: a Connect took the lock while the delivery
\* of a Disconnect was still to come, a Disconnect met a Connect in progress, or
\* an event found no subscriber.
LeakNeedsRace == open \ {map} # {} => raced

\* A write that nothing disturbs takes effect on both servers in the end.
UpdateTakesEffect == settled ~> ~settled \/ (Quiescent /\ Agreement)
=============================================================================

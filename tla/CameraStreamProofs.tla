------------------------- MODULE CameraStreamProofs -------------------------
(***************************************************************************)
(* Theorems about CameraStream, for every Op, Info, Changes and MaxFaults. *)
(***************************************************************************)
EXTENDS CameraStream, TLAPS

-----------------------------------------------------------------------------
(* Operators.                                                              *)

\* A field written by an update stays in its set.
LEMMA SetType ==
  ASSUME NEW S, NEW new \in S \cup {Keep}, NEW old \in S
  PROVE  Set(new, old) \in S
BY DEF Set

\* Where a chain can go from each of its branches.
LEMMA StageTypes ==
  ASSUME NEW o \in Op, NEW d
  PROVE  /\ CreateStage(kind[o], d) \in {"writeBack", "connect", "createAi"}
         /\ CreateStage("create", d) \in {"writeBack", "connect", "createAi"}
         /\ AfterConnect(o) \in {"done", "createAi", "writeBack"}
         /\ AfterDeleteAi(o) \in {"disconnect", "writeBack", "connect", "createAi"}
         /\ AfterDisconnect(o) \in {"done", "writeBack", "connect", "createAi"}
BY DEF CreateStage, AfterConnect, AfterDeleteAi, AfterDisconnect

\* A fault's effect on the counters.
LEMMA FaultType ==
  ASSUME TypeOK, Fault
  PROVE  faults' \in Nat /\ settled' = FALSE
BY DEF Fault, TypeOK

\* The missing document is a document.
LEMMA NoDocType == NoDoc \in Docs
BY DEF NoDoc, Docs, Streamable

\* The initial state is well typed.
LEMMA InitType == Init => TypeOK
<1> SUFFICES ASSUME Init PROVE TypeOK
  OBVIOUS
<1>1. doc \in Docs /\ got \in [Op -> Docs]
  BY NoDocType DEF Init
<1>2. /\ change \in [Op -> Changes \cup {NoChange}]
      /\ pc \in [Op -> Stages] /\ kind \in [Op -> Kinds]
  BY DEF Init, Kinds, Stages
<1>3. ai \in Streamable /\ map \in Op \cup {None} /\ open \subseteq Op /\ event \in [Op -> DelivStates]
  BY DEF Init, Streamable, DelivStates
<1> QED
  BY <1>1, <1>2, <1>3 DEF Init, TypeOK

\* What WriteUpdate makes of a document is a document.
LEMMA WrittenType ==
  ASSUME TypeOK, NEW o \in Op
  PROVE  [doc EXCEPT !.info = Set(change[o].info, @), !.used = Set(change[o].used, @),
                     !.event = Set(change[o].event, @), !.need = got[o].need] \in Docs
<1> DEFINE c == change[o]
<1>1. /\ c.info \in Streamable \cup {Keep}
      /\ c.used \in BOOLEAN \cup {Keep}
      /\ c.event \in BOOLEAN \cup {Keep}
  <2>1. c \in Changes \/ c = NoChange
    BY DEF TypeOK
  <2>2. CASE c \in Changes
    BY <2>2, CameraAssumption
  <2>3. CASE c = NoChange
    BY <2>3 DEF NoChange
  <2> QED
    BY <2>1, <2>2, <2>3
<1>2. doc \in Docs /\ got[o] \in Docs
  BY DEF TypeOK
<1>3. /\ Set(c.info, doc.info) \in Streamable
      /\ Set(c.used, doc.used) \in BOOLEAN
      /\ Set(c.event, doc.event) \in BOOLEAN
  BY <1>1, <1>2, SetType DEF Docs
<1> QED
  BY <1>2, <1>3 DEF Docs

\* What WriteBack makes of a document is a document.
LEMMA WrittenBackType ==
  ASSUME TypeOK, NEW o \in Op
  PROVE  [doc EXCEPT
            !.need = FALSE,
            !.ctl = IF Reconnects(o) THEN Streams(got[o]) ELSE got[o].ctl,
            !.ai  = Streams(got[o]) /\ got[o].event,
            !.url = IF Streams(got[o]) THEN got[o].info
                    ELSE IF kind[o] = "create" THEN @ ELSE None] \in Docs
<1>1. doc \in Docs /\ got[o] \in Docs
  BY DEF TypeOK
<1>2. /\ Streams(got[o]) \in BOOLEAN
      /\ (Streams(got[o]) /\ got[o].event) \in BOOLEAN
      /\ (IF Reconnects(o) THEN Streams(got[o]) ELSE got[o].ctl) \in BOOLEAN
  BY <1>1 DEF Docs, Streams
<1>3. (IF Streams(got[o]) THEN got[o].info
       ELSE IF kind[o] = "create" THEN doc.url ELSE None) \in Streamable
  BY <1>1 DEF Docs, Streamable
<1> QED
  BY <1>1, <1>2, <1>3 DEF Docs

-----------------------------------------------------------------------------
(* Type correctness.                                                       *)

\* Every step keeps the types.
LEMMA TypeStep == TypeOK /\ [Next]_vars => TypeOK'
<1> SUFFICES ASSUME TypeOK, [Next]_vars PROVE TypeOK'
  OBVIOUS
<1> USE CameraAssumption
<1>1. ASSUME NEW o \in Op, NEW i \in Streamable, NEW u \in BOOLEAN, NEW e \in BOOLEAN,
             Create(o, i, u, e)
      PROVE  TypeOK'
  <2>1. doc' \in Docs
    BY <1>1, NoDocType DEF Create, Docs
  <2> QED
    BY <1>1, <2>1 DEF Create, TypeOK, Begins, ctlVars, Kinds, Stages
<1>2. ASSUME NEW o \in Op, NEW c \in Changes, CheckUpdate(o, c)
      PROVE  TypeOK'
  <2>1. Needs(c) \in BOOLEAN
    BY DEF Needs
  <2>2. [doc EXCEPT !.need = Needs(c)] \in Docs
    BY <2>1 DEF TypeOK, Docs
  <2> QED
    BY <1>2, <2>2 DEF CheckUpdate, TypeOK, Begins, ctlVars, Kinds, Stages
<1>3. ASSUME NEW o \in Op, Delete(o)
      PROVE  TypeOK'
  BY <1>3, NoDocType DEF Delete, TypeOK, Begins, ctlVars, Kinds, Stages
<1>4. ASSUME NEW o \in Op, ChainStep(o)
      PROVE  TypeOK'
  <2>1. CASE WriteUpdate(o)
    <3>1. doc' \in Docs
      BY <2>1, WrittenType DEF WriteUpdate, TypeOK
    <3>2. pc' \in [Op -> Stages] /\ change' \in [Op -> Changes \cup {NoChange}]
      BY <2>1 DEF WriteUpdate, TypeOK, Stages
    <3> QED
      BY <2>1, <3>1, <3>2 DEF WriteUpdate, TypeOK, ctlVars
  <2>2. CASE ReadDoc(o)
    BY <2>2, StageTypes DEF ReadDoc, TypeOK, ctlVars, Stages
  <2>3. CASE DeleteAi(o)
    <3>1. faults' \in Nat /\ settled' \in BOOLEAN /\ ai' \in Streamable
      BY <2>3, FaultType DEF DeleteAi, TypeOK, Streamable
    <3>2. pc' \in [Op -> Stages]
      BY <2>3, StageTypes DEF DeleteAi, TypeOK, Stages
    <3> QED
      BY <2>3, <3>1, <3>2 DEF DeleteAi, TypeOK, ctlVars
  <2>4. CASE Disconnect(o)
    <3>1. faults' \in Nat /\ settled' \in BOOLEAN /\ raced' \in BOOLEAN
      BY <2>4, FaultType DEF Disconnect, TypeOK, Connecting
    <3>2. locked' \in BOOLEAN /\ event' \in [Op -> DelivStates]
      BY <2>4 DEF Disconnect, TypeOK, DelivStates
    <3>3. pc' \in [Op -> Stages]
      BY <2>4, StageTypes DEF Disconnect, TypeOK, Stages
    <3> QED
      BY <2>4, <3>1, <3>2, <3>3 DEF Disconnect, TypeOK
  <2>5. CASE Connect(o)
    <3>1. faults' \in Nat /\ settled' \in BOOLEAN /\ raced' \in BOOLEAN
      BY <2>5, FaultType DEF Connect, TypeOK, Undelivered
    <3>2. locked' \in BOOLEAN /\ pc' \in [Op -> Stages]
      BY <2>5, StageTypes DEF Connect, TypeOK, Stages
    <3> QED
      BY <2>5, <3>1, <3>2 DEF Connect, TypeOK
  <2>6. CASE BeginDial(o)
    BY <2>6 DEF BeginDial, TypeOK, ctlVars, Stages
  <2>7. CASE EndDial(o)
    <3>1. faults' \in Nat /\ settled' \in BOOLEAN
      BY <2>7, FaultType DEF EndDial, TypeOK
    <3>2. map' \in Op \cup {None} /\ open' \subseteq Op
      BY <2>7 DEF EndDial, TypeOK
    <3>3. pc' \in [Op -> Stages]
      BY <2>7, StageTypes DEF EndDial, TypeOK, Stages
    <3> QED
      BY <2>7, <3>1, <3>2, <3>3 DEF EndDial, TypeOK
  <2>8. CASE CreateAi(o)
    <3>1. got[o].info \in Streamable
      BY DEF TypeOK, Docs
    <3>2. faults' \in Nat /\ settled' \in BOOLEAN /\ ai' \in Streamable
      BY <2>8, <3>1, FaultType DEF CreateAi, TypeOK
    <3>3. pc' \in [Op -> Stages]
      BY <2>8 DEF CreateAi, TypeOK, Stages
    <3> QED
      BY <2>8, <3>2, <3>3 DEF CreateAi, TypeOK, ctlVars
  <2>9. CASE WriteBack(o)
    <3>1. doc' \in Docs
      BY <2>9, WrittenBackType DEF WriteBack, TypeOK
    <3> QED
      BY <2>9, <3>1 DEF WriteBack, TypeOK, ctlVars, Stages
  <2> QED
    BY <1>4, <2>1, <2>2, <2>3, <2>4, <2>5, <2>6, <2>7, <2>8, <2>9 DEF ChainStep
<1>5. ASSUME NEW o \in Op, DelivStep(o)
      PROVE  TypeOK'
  BY <1>5 DEF DelivStep, DeliverClose, DeliverDelete, TypeOK, apiVars, DelivStates
<1>6. CASE ControllerRestarts
  <2>1. faults' \in Nat /\ settled' \in BOOLEAN
    BY <1>6, FaultType DEF ControllerRestarts
  <2>2. pc' \in [Op -> Stages]
    BY <1>6, StageTypes DEF ControllerRestarts, TypeOK, Stages
  <2>3. locked' \in BOOLEAN /\ event' \in [Op -> DelivStates]
    BY <1>6 DEF ControllerRestarts, TypeOK, DelivStates
  <2> QED
    BY <1>6, <2>1, <2>2, <2>3 DEF ControllerRestarts, TypeOK
<1>7. CASE ApiCrashes
  <2>1. faults' \in Nat /\ settled' \in BOOLEAN
    BY <1>7, FaultType DEF ApiCrashes
  <2>2. pc' \in [Op -> Stages]
    BY <1>7 DEF ApiCrashes, TypeOK, Stages
  <2>3. kind' \in [Op -> Kinds] /\ change' \in [Op -> Changes \cup {NoChange}]
    BY <1>7 DEF ApiCrashes, TypeOK, Kinds
  <2> QED
    BY <1>7, <2>1, <2>2, <2>3 DEF ApiCrashes, TypeOK, ctlVars
<1>8. CASE AiRestarts
  <2>1. doc.url \in Streamable
    BY DEF TypeOK, Docs
  <2> QED
    BY <1>8, <2>1 DEF AiRestarts, TypeOK, apiVars, ctlVars, NoChain, Streamable
<1>9. CASE UNCHANGED vars
  BY <1>9 DEF vars, TypeOK
<1> QED
  BY <1>1, <1>2, <1>3, <1>4, <1>5, <1>6, <1>7, <1>8, <1>9 DEF Next

-----------------------------------------------------------------------------
(* Clients and the map.                                                    *)

\* The stages in which a chain's client may be in the map.
MapDone == map # None => pc[map] \in {"createAi", "writeBack", "done"}

\* The document exists only after a creation, which is the first write; a call
\* whose API server crashed is at the controller.
Made ==
  /\ doc.exists => \E o \in Op : kind[o] # "none"
  /\ \A o \in Op : kind[o] = "none" => pc[o] = "idle"
  /\ \A o \in Op : kind[o] = "lost" => pc[o] \in {"granted", "dialing", "done"}

AtController(o) == pc[o] \in {"granted", "dialing"}

\* As long as Connect and Disconnect have not met, a client that streams is in
\* the map, and it has the lock or a delivery that will close it.
Tidy ==
  ~raced =>
    /\ open \subseteq {map}
    /\ map \in open => locked \/ \E o \in Op : event[o] = "sent"
    /\ map \in open => \A o \in Op : event[o] # "closed"
    /\ Connecting => locked /\ ~Undelivered /\ map \notin open
    /\ \A o, p \in Op : AtController(o) /\ AtController(p) => o = p

Stored == MapDone /\ Made /\ Tidy

\* Nothing is stored at first.
LEMMA InitStored == Init => Stored
BY DEF Init, NoDoc, Stored, MapDone, Made, Tidy, Connecting, AtController

\* What the steps have in common: one chain moves on (s is its next stage), and
\* a client that it may have stored stays behind it.
LEMMA MapDoneFrame ==
  ASSUME TypeOK, MapDone, map' = map, NEW o \in Op, NEW s, pc' = [pc EXCEPT ![o] = s],
         \/ s \in {"writeBack", "done"}
         \/ pc[o] \notin {"createAi", "writeBack", "done"}
  PROVE  MapDone'
BY CameraAssumption DEF TypeOK, MapDone

\* Tidy does not depend on anything else.
LEMMA TidyFrame ==
  ASSUME Tidy, UNCHANGED <<locked, map, open, event, raced>>,
         \A o \in Op : AtController(o)' <=> AtController(o)
  PROVE  Tidy'
<1>1. Connecting' <=> Connecting
  BY DEF Connecting, AtController
<1>2. Undelivered' <=> Undelivered
  BY DEF Undelivered
<1> QED
  BY <1>1, <1>2 DEF Tidy

\* The map's client is past its dial.
LEMMA MapDoneStep ==
  ASSUME TypeOK, MapDone, Made, [Next]_vars
  PROVE  MapDone'
<1>1. ASSUME NEW o \in Op, NEW i \in Streamable, NEW u \in BOOLEAN, NEW e \in BOOLEAN,
             Create(o, i, u, e)
      PROVE  MapDone'
  BY <1>1, MapDoneFrame DEF Create, ctlVars, Made
<1>2. ASSUME NEW o \in Op, NEW c \in Changes, CheckUpdate(o, c)
      PROVE  MapDone'
  BY <1>2, MapDoneFrame DEF CheckUpdate, ctlVars
<1>3. ASSUME NEW o \in Op, Delete(o)
      PROVE  MapDone'
  BY <1>3, MapDoneFrame DEF Delete, ctlVars
<1>4. ASSUME NEW o \in Op, ChainStep(o)
      PROVE  MapDone'
  <2>1. CASE WriteUpdate(o)
    BY <2>1, MapDoneFrame DEF WriteUpdate, ctlVars
  <2>2. CASE ReadDoc(o)
    BY <2>2, MapDoneFrame DEF ReadDoc, ctlVars
  <2>3. CASE DeleteAi(o)
    BY <2>3, MapDoneFrame DEF DeleteAi, ctlVars
  <2>4. CASE Disconnect(o)
    BY <2>4, MapDoneFrame DEF Disconnect
  <2>5. CASE Connect(o)
    BY <2>5, MapDoneFrame DEF Connect
  <2>6. CASE BeginDial(o)
    BY <2>6, MapDoneFrame DEF BeginDial, ctlVars
  <2>7. CASE EndDial(o)
    BY <2>7, StageTypes DEF EndDial, MapDone, TypeOK
  <2>8. CASE CreateAi(o)
    BY <2>8, MapDoneFrame DEF CreateAi, ctlVars
  <2>9. CASE WriteBack(o)
    BY <2>9, MapDoneFrame DEF WriteBack, ctlVars
  <2> QED
    BY <1>4, <2>1, <2>2, <2>3, <2>4, <2>5, <2>6, <2>7, <2>8, <2>9 DEF ChainStep
<1>5. ASSUME NEW o \in Op, DelivStep(o)
      PROVE  MapDone'
  BY <1>5 DEF DelivStep, DeliverClose, DeliverDelete, MapDone, apiVars
<1>6. CASE ControllerRestarts
  BY <1>6 DEF ControllerRestarts, MapDone
<1>7. CASE ApiCrashes
  BY <1>7, CameraAssumption DEF ApiCrashes, MapDone, TypeOK, ctlVars
<1>8. CASE AiRestarts \/ UNCHANGED vars
  BY <1>8 DEF AiRestarts, vars, apiVars, ctlVars, MapDone
<1> QED
  BY <1>1, <1>2, <1>3, <1>4, <1>5, <1>6, <1>7, <1>8 DEF Next

\* A write that has begun keeps its kind, but for the crash of the API server.
LEMMA MadeStep ==
  ASSUME TypeOK, Made, [Next]_vars
  PROVE  Made'
<1> USE DEF Made, TypeOK
<1>1. ASSUME NEW o \in Op, NEW i \in Streamable, NEW u \in BOOLEAN, NEW e \in BOOLEAN,
             Create(o, i, u, e)
      PROVE  Made'
  BY <1>1 DEF Create
<1>2. ASSUME NEW o \in Op, NEW c \in Changes, CheckUpdate(o, c)
      PROVE  Made'
  BY <1>2 DEF CheckUpdate
<1>3. ASSUME NEW o \in Op, Delete(o)
      PROVE  Made'
  BY <1>3 DEF Delete, NoDoc
<1>4. ASSUME NEW o \in Op, NEW s, kind' = kind, pc' = [pc EXCEPT ![o] = s], pc[o] # "idle",
             kind[o] = "lost" => s \in {"granted", "dialing", "done"},
             doc'.exists => doc.exists
      PROVE  Made'
  BY <1>4
<1>5. ASSUME NEW o \in Op, ChainStep(o)
      PROVE  Made'
  <2>1. CASE WriteUpdate(o)
    <3>1. doc'.exists => doc.exists
      BY <2>1 DEF WriteUpdate
    <3> QED
      BY <2>1, <1>4, <3>1 DEF WriteUpdate
  <2>2. CASE ReadDoc(o)
    BY <2>2, <1>4 DEF ReadDoc
  <2>3. CASE DeleteAi(o)
    BY <2>3, <1>4 DEF DeleteAi
  <2>4. CASE Disconnect(o)
    BY <2>4, <1>4 DEF Disconnect
  <2>5. CASE Connect(o)
    BY <2>5, <1>4 DEF Connect
  <2>6. CASE BeginDial(o)
    BY <2>6, <1>4 DEF BeginDial
  <2>7. CASE EndDial(o)
    BY <2>7, <1>4 DEF EndDial, AfterConnect
  <2>8. CASE CreateAi(o)
    BY <2>8, <1>4 DEF CreateAi
  <2>9. CASE WriteBack(o)
    <3>1. doc'.exists => doc.exists
      BY <2>9 DEF WriteBack
    <3> QED
      BY <2>9, <1>4, <3>1 DEF WriteBack
  <2> QED
    BY <1>5, <2>1, <2>2, <2>3, <2>4, <2>5, <2>6, <2>7, <2>8, <2>9 DEF ChainStep
<1>6. ASSUME NEW o \in Op, DelivStep(o)
      PROVE  Made'
  BY <1>6 DEF DelivStep, DeliverClose, DeliverDelete, apiVars
<1>7. CASE ControllerRestarts
  BY <1>7 DEF ControllerRestarts, AfterConnect
<1>8. CASE ApiCrashes
  BY <1>8 DEF ApiCrashes
<1>9. CASE AiRestarts \/ UNCHANGED vars
  BY <1>9 DEF AiRestarts, vars, apiVars
<1> QED
  BY <1>1, <1>2, <1>3, <1>5, <1>6, <1>7, <1>8, <1>9 DEF Next

\* The lock, the map and the deliveries are written by six of the steps.
LEMMA TidyStep ==
  ASSUME TypeOK, Made, Tidy, [Next]_vars
  PROVE  Tidy'
<1> USE DEF TypeOK
<1>1. ASSUME NEW o \in Op, NEW s, pc' = [pc EXCEPT ![o] = s],
             UNCHANGED <<locked, map, open, event, raced>>,
             s \in {"granted", "dialing"} <=> pc[o] \in {"granted", "dialing"}
      PROVE  Tidy'
  BY <1>1, TidyFrame DEF AtController
<1>2. ASSUME NEW o \in Op, NEW i \in Streamable, NEW u \in BOOLEAN, NEW e \in BOOLEAN,
             Create(o, i, u, e)
      PROVE  Tidy'
  BY <1>1, <1>2 DEF Create, ctlVars, Made
<1>3. ASSUME NEW o \in Op, NEW c \in Changes, CheckUpdate(o, c)
      PROVE  Tidy'
  BY <1>1, <1>3 DEF CheckUpdate, ctlVars
<1>4. ASSUME NEW o \in Op, Delete(o)
      PROVE  Tidy'
  BY <1>1, <1>4 DEF Delete, ctlVars
<1>5. ASSUME NEW o \in Op, ChainStep(o)
      PROVE  Tidy'
  <2>1. CASE WriteUpdate(o)
    BY <2>1, <1>1 DEF WriteUpdate, ctlVars
  <2>2. CASE ReadDoc(o)
    BY <2>2, <1>1, StageTypes DEF ReadDoc, ctlVars
  <2>3. CASE DeleteAi(o)
    BY <2>3, <1>1, StageTypes DEF DeleteAi, ctlVars
  <2>4. CASE Disconnect(o)
    <3> SUFFICES ASSUME ~raced' PROVE Tidy'
      BY DEF Tidy
    <3>1. CASE UNCHANGED <<locked, event, raced>>
      BY <3>1, <2>4, <1>1, StageTypes DEF Disconnect
    <3>2. CASE /\ locked' = FALSE
               /\ event' = [event EXCEPT ![o] = "sent"]
               /\ raced' = (raced \/ Connecting)
      <4>1. ~raced /\ ~Connecting
        BY <3>2
      <4>2. \A p \in Op : ~AtController(p)'
        BY <2>4, <4>1, StageTypes DEF Disconnect, Connecting, AtController
      <4>3. UNCHANGED <<map, open>>
        BY <2>4 DEF Disconnect
      <4> QED
        BY <3>2, <4>1, <4>2, <4>3 DEF Tidy, Connecting, AtController
    <3> QED
      BY <3>1, <3>2, <2>4 DEF Disconnect
  <2>5. CASE Connect(o)
    <3> SUFFICES ASSUME ~raced' PROVE Tidy'
      BY DEF Tidy
    <3>1. CASE UNCHANGED <<locked, raced>> /\ pc' = [pc EXCEPT ![o] = AfterConnect(o)]
      BY <3>1, <2>5, <1>1, StageTypes DEF Connect
    <3>2. CASE /\ ~locked /\ locked' = TRUE
               /\ pc' = [pc EXCEPT ![o] = "granted"]
               /\ raced' = (raced \/ Undelivered)
      <4>1. ~raced /\ ~Undelivered
        BY <3>2
      <4>2. UNCHANGED <<map, open, event>>
        BY <2>5 DEF Connect
      <4>3. map \notin open /\ \A p \in Op : ~AtController(p)
        BY <3>2, <4>1 DEF Tidy, Undelivered, Connecting, AtController
      <4>4. ~Undelivered'
        BY <4>1, <4>2 DEF Undelivered
      <4> QED
        BY <3>2, <4>1, <4>2, <4>3, <4>4 DEF Tidy, AtController
    <3> QED
      BY <3>1, <3>2, <2>5 DEF Connect
  <2>6. CASE BeginDial(o)
    BY <2>6, <1>1 DEF BeginDial, ctlVars
  <2>7. CASE EndDial(o)
    <3> SUFFICES ASSUME ~raced' PROVE Tidy'
      BY DEF Tidy
    <3>1. UNCHANGED <<locked, event, raced>> /\ AtController(o)
      BY <2>7 DEF EndDial, AtController
    <3>2. /\ locked /\ ~Undelivered /\ map \notin open /\ open \subseteq {map}
          /\ \A p \in Op : AtController(p) => p = o
      BY <3>1 DEF Tidy, Connecting, AtController
    <3>3. \A p \in Op : ~AtController(p)'
      BY <2>7, <3>2, StageTypes DEF EndDial, AtController
    <3>4. open' \subseteq {map'} /\ ~Undelivered'
      BY <2>7, <3>1, <3>2 DEF EndDial, Undelivered
    <3> QED
      BY <3>1, <3>2, <3>3, <3>4 DEF Tidy, Connecting, AtController, Undelivered
  <2>8. CASE CreateAi(o)
    BY <2>8, <1>1 DEF CreateAi, ctlVars
  <2>9. CASE WriteBack(o)
    BY <2>9, <1>1 DEF WriteBack, ctlVars
  <2> QED
    BY <1>5, <2>1, <2>2, <2>3, <2>4, <2>5, <2>6, <2>7, <2>8, <2>9 DEF ChainStep
<1>6. ASSUME NEW o \in Op, DelivStep(o)
      PROVE  Tidy'
  <2> SUFFICES ASSUME ~raced' PROVE Tidy'
    BY DEF Tidy
  <2>1. ~raced /\ UNCHANGED <<pc, locked>> /\ event[o] # "none" /\ Undelivered
    BY <1>6 DEF DelivStep, DeliverClose, DeliverDelete, apiVars, Undelivered
  <2>2. \A p \in Op : ~AtController(p)'
    BY <2>1 DEF Tidy, Connecting, AtController
  <2>3. open' = {}
    <3>1. CASE DeliverClose(o)
      BY <3>1, <2>1 DEF DeliverClose, Tidy
    <3>2. CASE DeliverDelete(o)
      BY <3>2, <2>1 DEF DeliverDelete, Tidy
    <3> QED
      BY <3>1, <3>2, <1>6 DEF DelivStep
  <2> QED
    BY <2>2, <2>3 DEF Tidy, Connecting, AtController
<1>7. CASE ControllerRestarts
  <2>1. \A p \in Op : ~AtController(p)'
    BY <1>7, StageTypes DEF ControllerRestarts, AtController
  <2>2. open' = {}
    BY <1>7 DEF ControllerRestarts
  <2> QED
    BY <2>1, <2>2 DEF Tidy, Connecting, AtController
<1>8. CASE ApiCrashes
  BY <1>8, TidyFrame DEF ApiCrashes, ctlVars, AtController
<1>9. CASE AiRestarts \/ UNCHANGED vars
  BY <1>9, TidyFrame DEF AiRestarts, vars, apiVars, ctlVars, AtController
<1> QED
  BY <1>2, <1>3, <1>4, <1>5, <1>6, <1>7, <1>8, <1>9 DEF Next

-----------------------------------------------------------------------------
(* What an undisturbed chain keeps in order.                               *)

Active(o) == pc[o] \notin {"idle", "done"}
On(d)     == d.exists /\ Streams(d)

\* The controller streams what d says, or will once the deliveries are made.
Controlled(d) ==
  /\ locked <=> On(d)
  /\ On(d) => ~Undelivered /\ map \in open /\ got[map].info = d.info
  /\ ~On(d) /\ ~Undelivered => map = None

Analysed == ai = IF On(doc) /\ doc.event THEN doc.info ELSE None

\* With no chain in flight only deliveries stand between the state and Agreement.
AtRest ==
  /\ Controlled(doc) /\ Analysed
  /\ doc.exists => /\ doc.ctl <=> On(doc)
                   /\ doc.ai <=> On(doc) /\ doc.event
                   /\ doc.url = IF On(doc) THEN doc.info ELSE None

\* An update that asks for no new connection finds the controller in order.
Kept == Controlled(doc) /\ (doc.ctl <=> On(doc))

\* What each stage of an undisturbed chain knows of the document and of the servers.
Checked(o) ==
  /\ kind[o] = "update" /\ doc.exists /\ ~Undelivered
  /\ change[o] \in Changes /\ (got[o].need <=> Needs(change[o]))
  /\ got[o].need \/ Kept
Written(o) ==
  /\ doc.exists /\ ~Undelivered
  /\ \/ kind[o] = "update" /\ (doc.need \/ Kept)
     \/ kind[o] = "create" /\ Controlled(NoDoc) /\ ai = None /\ doc.url = None
Deleting(o) ==
  /\ ~Undelivered
  /\ \/ kind[o] = "delete" /\ ~doc.exists
     \/ kind[o] = "update" /\ doc.exists /\ got[o] = doc /\ (got[o].need \/ Kept)
Disconnecting(o) ==
  Deleting(o) /\ ai = None /\ (kind[o] = "update" => got[o].need)
Creating(o) ==
  kind[o] \in {"create", "update"} /\ doc.exists /\ got[o] = doc
ToConnect(o) ==
  Creating(o) /\ Streams(doc) /\ Reconnects(o) /\ ai = None
Connected(o) ==
  Creating(o) /\ Controlled(doc) /\ (Reconnects(o) \/ (doc.ctl <=> On(doc)))

Progress(o) ==
  /\ pc[o] = "checked"    => Checked(o)
  /\ pc[o] = "written"    => Written(o)
  /\ pc[o] = "deleteAi"   => Deleting(o)
  /\ pc[o] = "disconnect" => Disconnecting(o)
  /\ pc[o] = "connect"    => ToConnect(o) /\ Controlled(NoDoc)
  /\ pc[o] \in {"granted", "dialing"} => ToConnect(o) /\ locked /\ ~Undelivered /\ map = None
  /\ pc[o] = "createAi"   => Connected(o) /\ ai = None /\ Streams(doc) /\ doc.event
  /\ pc[o] = "writeBack"  => /\ Connected(o) /\ Analysed
                             /\ kind[o] = "create" /\ ~Streams(doc) => doc.url = None

InOrder ==
  settled => /\ \A o, p \in Op : Active(o) /\ Active(p) => o = p
             /\ NoChain => AtRest
             /\ \A o \in Op : Active(o) => Progress(o)

IInv == TypeOK /\ Stored /\ InOrder

\* The initial state is at rest.
LEMMA InitInOrder == Init => InOrder
BY DEF Init, InOrder, Active, AtRest, Controlled, Analysed, On, NoDoc, Undelivered

\* Only the stage of the chain that moves is to be looked at.
LEMMA Focus ==
  ASSUME TypeOK, NEW o \in Op, NEW s \in Stages \ {"idle"}, pc' = [pc EXCEPT ![o] = s],
         \A p \in Op : Active(p) => p = o,
         s = "done" => AtRest',
         s # "done" => Progress(o)'
  PROVE  InOrder'
<1>1. \A p \in Op : Active(p)' => p = o
  BY DEF Active, TypeOK
<1>2. NoChain' <=> s = "done"
  BY DEF NoChain, Active, TypeOK
<1>3. Active(o)' <=> s # "done"
  BY DEF Active, TypeOK
<1> QED
  BY <1>1, <1>2, <1>3 DEF InOrder

\* A write that begins with nothing in flight is alone.
LEMMA Beginning ==
  ASSUME TypeOK, NEW repairs, Begins(repairs), settled'
  PROVE  /\ NoChain /\ ~Undelivered /\ (settled \/ repairs)
         /\ \A p \in Op : ~Active(p)
BY DEF Begins, Quiescent, NoChain, Active

\* What got[map] is does not depend on a chain whose client is not in the map.
LEMMA GotKept ==
  ASSUME TypeOK, MapDone, NEW o \in Op, pc[o] \notin {"createAi", "writeBack", "done"},
         NEW d, got' = [got EXCEPT ![o] = d], map # None
  PROVE  got'[map] = got[map]
BY DEF TypeOK, MapDone

(* Writes.                                                                 *)

\* A creation finds both servers without the camera.
LEMMA CreateInOrder ==
  ASSUME TypeOK, Stored, InOrder, NEW o \in Op, NEW i \in Streamable, NEW u \in BOOLEAN,
         NEW e \in BOOLEAN, Create(o, i, u, e)
  PROVE  InOrder'
<1> SUFFICES ASSUME settled' PROVE InOrder'
  BY DEF InOrder
<1>1. /\ NoChain /\ ~Undelivered /\ settled /\ \A p \in Op : ~Active(p)
  BY Beginning DEF Create
<1>2. ~doc.exists
  BY DEF Create, Stored, Made
<1>3. ~locked /\ map = None /\ ai = None
  BY <1>1, <1>2 DEF InOrder, AtRest, Controlled, Analysed, On
<1>4. UNCHANGED <<locked, map, event, ai>>
  BY DEF Create, ctlVars
<1>5. doc'.exists /\ doc'.url = None
  BY DEF Create, NoDoc
<1>6. pc'[o] = "written" /\ kind'[o] = "create"
  BY DEF Create, TypeOK
<1>7. ~Undelivered'
  BY <1>1, <1>4 DEF Undelivered
<1>8. Controlled(NoDoc)'
  BY <1>3, <1>4 DEF Controlled, On, NoDoc
<1>9. Progress(o)'
  BY <1>3, <1>4, <1>5, <1>6, <1>7, <1>8 DEF Progress, Written
<1> QED
  BY <1>1, <1>9, Focus DEF Create, Stages

\* An update's pre hook: an update without need finds the controller in order.
LEMMA CheckInOrder ==
  ASSUME TypeOK, Stored, InOrder, NEW o \in Op, NEW c \in Changes, CheckUpdate(o, c)
  PROVE  InOrder'
<1> SUFFICES ASSUME settled' PROVE InOrder'
  BY DEF InOrder
<1>1. NoChain /\ ~Undelivered /\ (settled \/ Needs(c)) /\ \A p \in Op : ~Active(p)
  BY Beginning DEF CheckUpdate
<1>2. UNCHANGED <<doc, locked, map, open, event>>
  BY DEF CheckUpdate, ctlVars
<1>3. /\ pc'[o] = "checked" /\ kind'[o] = "update" /\ change'[o] = c
      /\ got'[o] = [doc EXCEPT !.need = Needs(c)] /\ doc.exists
  BY DEF CheckUpdate, TypeOK
<1>4. (got'[o].need <=> Needs(c)) /\ (Needs(c)' <=> Needs(c))
  <2>1. doc \in Docs
    BY DEF TypeOK
  <2> QED
    BY <1>2, <1>3, <2>1 DEF Docs, Needs
<1>5. ~Undelivered'
  BY <1>1, <1>2 DEF Undelivered
<1>6. Needs(c) \/ Kept'
  <2> SUFFICES ASSUME settled PROVE Kept'
    BY <1>1
  <2>1. Kept
    BY <1>1, <1>3 DEF InOrder, AtRest, Kept
  <2>2. map # None => got'[map] = got[map]
    BY GotKept DEF CheckUpdate, Stored
  <2> QED
    BY <1>1, <1>2, <1>5, <2>1, <2>2, CameraAssumption DEF Kept, Controlled, On, TypeOK
<1>7. Progress(o)'
  BY <1>2, <1>3, <1>4, <1>5, <1>6 DEF Progress, Checked
<1> QED
  BY <1>1, <1>7, Focus DEF CheckUpdate, Stages

\* A deletion leaves both servers to its chain.
LEMMA DeleteInOrder ==
  ASSUME TypeOK, Stored, InOrder, NEW o \in Op, Delete(o)
  PROVE  InOrder'
<1> SUFFICES ASSUME settled' PROVE InOrder'
  BY DEF InOrder
<1>1. ~Undelivered /\ \A p \in Op : ~Active(p)
  BY Beginning DEF Delete
<1>2. ~Undelivered'
  BY <1>1 DEF Undelivered, Delete, ctlVars
<1>3. pc'[o] = "deleteAi" /\ kind'[o] = "delete" /\ ~doc'.exists
  BY DEF Delete, NoDoc, TypeOK
<1>4. Progress(o)'
  BY <1>2, <1>3 DEF Progress, Deleting
<1> QED
  BY <1>1, <1>4, Focus DEF Delete, Stages

-----------------------------------------------------------------------------
\* Chains.  A step of a chain in a settled state is a step of the only one.
LEMMA OnlyOne ==
  ASSUME InOrder, settled, NEW o \in Op, Active(o)
  PROVE  Progress(o) /\ \A p \in Op : Active(p) => p = o
BY DEF InOrder

\* An update that Needs denies changes nothing the controller depends on.
LEMMA WriteInOrder ==
  ASSUME TypeOK, Stored, InOrder, NEW o \in Op, WriteUpdate(o)
  PROVE  InOrder'
<1> SUFFICES ASSUME settled' PROVE InOrder'
  BY DEF InOrder
<1>1. settled /\ pc[o] = "checked"
  BY DEF WriteUpdate
<1>2. Checked(o) /\ \A p \in Op : Active(p) => p = o
  BY <1>1, OnlyOne DEF Active, Progress
<1> DEFINE c == change[o]
<1>3. /\ pc'[o] = "written" /\ kind'[o] = "update"
      /\ UNCHANGED <<got, locked, map, open, event>>
      /\ doc' = [doc EXCEPT !.info = Set(c.info, @), !.used = Set(c.used, @),
                            !.event = Set(c.event, @), !.need = got[o].need]
  BY <1>2 DEF WriteUpdate, Checked, TypeOK, ctlVars
<1>4. /\ doc'.exists /\ doc'.need = got[o].need /\ doc'.ctl = doc.ctl
      /\ doc'.info = Set(c.info, doc.info) /\ doc'.used = Set(c.used, doc.used)
  <2>1. doc \in Docs
    BY DEF TypeOK
  <2> QED
    BY <1>2, <1>3, <2>1 DEF Docs, Checked
<1>5. ~Undelivered'
  BY <1>2, <1>3 DEF Undelivered, Checked
<1>6. doc'.need \/ Kept'
  <2> SUFFICES ASSUME ~got[o].need PROVE Kept'
    BY <1>4
  <2>1. Kept /\ ~Needs(c)
    BY <1>2 DEF Checked
  <2>2. doc'.info = doc.info /\ doc'.used = doc.used
    BY <1>4, <2>1 DEF Needs, Set
  <2>3. On(doc)' <=> On(doc)
    BY <1>2, <1>4, <2>2 DEF On, Streams, Checked
  <2> QED
    BY <1>3, <1>4, <1>5, <2>1, <2>2, <2>3 DEF Kept, Controlled, Undelivered
<1>7. Progress(o)'
  BY <1>3, <1>4, <1>5, <1>6 DEF Progress, Written
<1> QED
  BY <1>2, <1>7, Focus DEF WriteUpdate, Checked, Stages

\* The chain reads what its own write left.
LEMMA ReadInOrder ==
  ASSUME TypeOK, Stored, InOrder, NEW o \in Op, ReadDoc(o)
  PROVE  InOrder'
<1> SUFFICES ASSUME settled' PROVE InOrder'
  BY DEF InOrder
<1>1. settled /\ pc[o] = "written"
  BY DEF ReadDoc
<1>2. Written(o) /\ \A p \in Op : Active(p) => p = o
  BY <1>1, OnlyOne DEF Active, Progress
<1> DEFINE s == IF kind[o] = "create" THEN CreateStage("create", doc) ELSE "deleteAi"
<1>3. /\ got' = [got EXCEPT ![o] = doc] /\ got'[o] = doc /\ doc' = doc
      /\ pc' = [pc EXCEPT ![o] = s] /\ pc'[o] = s
      /\ UNCHANGED <<doc, kind, ai, locked, map, open, event>>
  BY <1>2 DEF ReadDoc, Written, TypeOK, ctlVars
<1>4. s \in {"writeBack", "connect", "createAi", "deleteAi"}
  BY StageTypes
<1>5. ~Undelivered' /\ doc'.exists
  BY <1>2, <1>3 DEF Undelivered, Written
<1>6. ASSUME kind[o] = "update"
      PROVE  Progress(o)'
  <2>1. map # None => got'[map] = got[map]
    BY <1>1, <1>3, GotKept DEF Stored
  <2>2. Kept => Kept'
    BY <1>3, <1>5, <2>1, CameraAssumption DEF Kept, Controlled, On, TypeOK, Undelivered
  <2>3. Deleting(o)'
    BY <1>2, <1>3, <1>5, <1>6, <2>2 DEF Deleting, Written
  <2> QED
    BY <1>3, <1>6, <2>3 DEF Progress
<1>7. ASSUME kind[o] = "create"
      PROVE  Progress(o)'
  <2>1. /\ Controlled(NoDoc) /\ ai = None /\ doc.url = None
    BY <1>2, <1>7 DEF Written
  <2>2. ~locked /\ map = None
    BY <1>2, <2>1 DEF Controlled, On, NoDoc, Written
  <2>3. Controlled(NoDoc)' /\ Creating(o)' /\ Reconnects(o)'
    BY <1>3, <1>5, <1>7, <2>2 DEF Controlled, On, NoDoc, Creating, Reconnects
  <2>4. CASE Streams(doc)
    <3>1. s = "connect" /\ Streams(doc)'
      BY <1>3, <1>7, <2>4 DEF CreateStage, Streams
    <3> QED
      BY <1>3, <2>1, <2>3, <3>1 DEF Progress, ToConnect
  <2>5. CASE ~Streams(doc)
    <3>1. s = "writeBack"
      BY <1>7, <2>5 DEF CreateStage
    <3>2. Controlled(doc)' /\ Analysed'
      BY <1>3, <2>1, <2>2, <2>5 DEF Controlled, On, Streams, Analysed
    <3> QED
      BY <1>3, <2>1, <2>3, <3>1, <3>2 DEF Progress, Connected
  <2> QED
    BY <2>4, <2>5
<1>8. Progress(o)'
  BY <1>2, <1>6, <1>7 DEF Written
<1> QED
  BY <1>2, <1>3, <1>4, <1>8, Focus DEF Stages

\* The camera is off the AI server.
LEMMA DeleteAiInOrder ==
  ASSUME TypeOK, Stored, InOrder, NEW o \in Op, DeleteAi(o)
  PROVE  InOrder'
<1> SUFFICES ASSUME settled' PROVE InOrder'
  BY DEF InOrder
<1>1. settled /\ pc[o] = "deleteAi" /\ ai' = None
  BY DEF DeleteAi, Fault
<1>2. Deleting(o) /\ \A p \in Op : Active(p) => p = o
  BY <1>1, OnlyOne DEF Active, Progress
<1> DEFINE s == AfterDeleteAi(o)
<1>3. /\ pc' = [pc EXCEPT ![o] = s] /\ pc'[o] = s
      /\ UNCHANGED <<doc, kind, got, locked, map, open, event>>
  BY DEF DeleteAi, TypeOK, ctlVars
<1>4. s \in {"disconnect", "writeBack", "connect", "createAi"}
  BY StageTypes
<1>5. Deleting(o)'
  BY <1>2, <1>3 DEF Deleting, Undelivered, Kept, Controlled
<1>6. ASSUME kind[o] = "delete" \/ got[o].need
      PROVE  Progress(o)'
  <2>1. s = "disconnect"
    BY <1>6 DEF AfterDeleteAi
  <2>2. Disconnecting(o)'
    BY <1>1, <1>2, <1>3, <1>5, <1>6 DEF Disconnecting, Deleting
  <2> QED
    BY <1>3, <2>1, <2>2 DEF Progress
<1>7. ASSUME ~(kind[o] = "delete" \/ got[o].need)
      PROVE  Progress(o)'
  <2>1. /\ kind[o] = "update" /\ doc.exists /\ got[o] = doc /\ ~doc.need
        /\ Controlled(doc) /\ (doc.ctl <=> On(doc))
    BY <1>2, <1>7 DEF Deleting, Kept
  <2>2. Connected(o)'
    BY <1>3, <2>1 DEF Connected, Creating, Controlled, Undelivered, On, Streams
  <2>3. s = IF Streams(doc) /\ doc.event THEN "createAi" ELSE "writeBack"
    BY <1>7, <2>1 DEF AfterDeleteAi, CreateStage
  <2>4. CASE Streams(doc) /\ doc.event
    <3>1. Streams(doc)' /\ doc'.event
      BY <1>3, <2>4 DEF Streams
    <3> QED
      BY <1>1, <1>3, <2>2, <2>3, <2>4, <3>1 DEF Progress
  <2>5. CASE ~(Streams(doc) /\ doc.event)
    <3>1. Analysed'
      BY <1>1, <1>3, <2>5 DEF Analysed, On, Streams
    <3> QED
      BY <1>3, <2>1, <2>2, <2>3, <2>5, <3>1 DEF Progress
  <2> QED
    BY <2>4, <2>5
<1>8. Progress(o)'
  BY <1>6, <1>7
<1> QED
  BY <1>2, <1>3, <1>4, <1>8, Focus DEF Stages

\* The lock is free, the delivery to come.
LEMMA DisconnectInOrder ==
  ASSUME TypeOK, Stored, InOrder, NEW o \in Op, Disconnect(o)
  PROVE  InOrder'
<1> SUFFICES ASSUME settled' PROVE InOrder'
  BY DEF InOrder
<1>1. settled /\ pc[o] = "disconnect" /\ locked' = FALSE /\ event' = [event EXCEPT ![o] = "sent"]
  BY DEF Disconnect, Fault
<1>2. Disconnecting(o) /\ \A p \in Op : Active(p) => p = o
  BY <1>1, OnlyOne DEF Active, Progress
<1> DEFINE s == AfterDisconnect(o)
<1>3. /\ pc' = [pc EXCEPT ![o] = s] /\ pc'[o] = s
      /\ UNCHANGED <<doc, kind, got, ai, map, open>>
  BY DEF Disconnect, TypeOK
<1>4. s \in {"done", "writeBack", "connect", "createAi"}
  BY StageTypes
<1>5. Undelivered'
  BY <1>1 DEF Undelivered, TypeOK
<1>6. CASE kind[o] = "delete"
  <2>1. s = "done" /\ ~doc.exists
    BY <1>2, <1>6 DEF AfterDisconnect, Disconnecting, Deleting
  <2>2. AtRest'
    BY <1>1, <1>2, <1>3, <1>5, <2>1 DEF AtRest, Controlled, Analysed, On, Disconnecting
  <2> QED
    BY <1>2, <1>3, <2>1, <2>2, Focus DEF Stages
<1>7. CASE kind[o] = "update"
  <2>1. doc.exists /\ got[o] = doc /\ doc.need /\ ai = None
    BY <1>2, <1>7 DEF Disconnecting, Deleting
  <2>2. Creating(o)' /\ Reconnects(o)'
    BY <1>3, <1>7, <2>1 DEF Creating, Reconnects
  <2>3. s = IF Streams(doc) THEN "connect" ELSE "writeBack"
    BY <1>7, <2>1 DEF AfterDisconnect, CreateStage
  <2>4. ASSUME Streams(doc)
        PROVE  Progress(o)'
    <3>1. Controlled(NoDoc)' /\ Streams(doc)'
      BY <1>1, <1>3, <1>5, <2>4 DEF Controlled, On, NoDoc, Streams
    <3> QED
      BY <1>3, <2>1, <2>2, <2>3, <2>4, <3>1 DEF Progress, ToConnect
  <2>5. ASSUME ~Streams(doc)
        PROVE  Progress(o)'
    <3>1. Controlled(doc)' /\ Analysed'
      BY <1>1, <1>3, <1>5, <2>1, <2>5 DEF Controlled, On, Streams, Analysed
    <3> QED
      BY <1>3, <1>7, <2>2, <2>3, <2>5, <3>1 DEF Progress, Connected
  <2>6. Progress(o)' /\ s # "done"
    BY <2>3, <2>4, <2>5
  <2> QED
    BY <1>2, <1>3, <1>4, <2>6, Focus DEF Stages
<1> QED
  BY <1>2, <1>6, <1>7 DEF Disconnecting, Deleting

\* The lock is free: only a Connect after the delivery keeps the state settled.
LEMMA ConnectInOrder ==
  ASSUME TypeOK, Stored, InOrder, NEW o \in Op, Connect(o)
  PROVE  InOrder'
<1> SUFFICES ASSUME settled' PROVE InOrder'
  BY DEF InOrder
<1>1. settled /\ pc[o] = "connect"
  BY DEF Connect, Fault
<1>2. ToConnect(o) /\ Controlled(NoDoc) /\ \A p \in Op : Active(p) => p = o
  BY <1>1, OnlyOne DEF Active, Progress
<1>3. ~locked
  BY <1>2 DEF Controlled, On, NoDoc
<1>4. /\ locked' = TRUE /\ ~Undelivered
      /\ pc' = [pc EXCEPT ![o] = "granted"] /\ pc'[o] = "granted"
      /\ UNCHANGED <<doc, kind, got, ai, map, event>>
  BY <1>3 DEF Connect, Fault, TypeOK
<1>5. ~Undelivered' /\ map' = None
  BY <1>2, <1>4 DEF Undelivered, Controlled, On, NoDoc
<1>6. ToConnect(o)'
  BY <1>2, <1>4 DEF ToConnect, Creating, Streams, Reconnects
<1>7. Progress(o)'
  BY <1>4, <1>5, <1>6 DEF Progress
<1> QED
  BY <1>2, <1>4, <1>7, Focus DEF Stages

\* The dialled client is the map's and streams what the document says.
LEMMA DialInOrder ==
  ASSUME TypeOK, Stored, InOrder, NEW o \in Op, BeginDial(o) \/ EndDial(o)
  PROVE  InOrder'
<1> SUFFICES ASSUME settled' PROVE InOrder'
  BY DEF InOrder
<1>1. settled /\ pc[o] \in {"granted", "dialing"}
  BY DEF BeginDial, EndDial, Fault
<1>2. ToConnect(o) /\ locked /\ ~Undelivered /\ map = None /\ \A p \in Op : Active(p) => p = o
  BY <1>1, OnlyOne DEF Active, Progress
<1>3. UNCHANGED <<doc, kind, got, ai, locked, event>>
  BY DEF BeginDial, EndDial, ctlVars
<1>4. ToConnect(o)' /\ ~Undelivered'
  BY <1>2, <1>3 DEF ToConnect, Creating, Streams, Reconnects, Undelivered
<1>5. CASE BeginDial(o)
  <2>1. pc' = [pc EXCEPT ![o] = "dialing"] /\ pc'[o] = "dialing" /\ map' = map
    BY <1>5 DEF BeginDial, TypeOK, ctlVars
  <2>2. Progress(o)'
    BY <1>2, <1>3, <1>4, <2>1 DEF Progress
  <2> QED
    BY <1>2, <2>1, <2>2, Focus DEF Stages
<1>6. CASE EndDial(o)
  <2> DEFINE s == IF doc.event THEN "createAi" ELSE "writeBack"
  <2>1. /\ doc.exists /\ got[o] = doc /\ Streams(doc) /\ ai = None
        /\ kind[o] \in {"create", "update"}
    BY <1>2 DEF ToConnect, Creating
  <2>2. pc' = [pc EXCEPT ![o] = s] /\ pc'[o] = s
    BY <1>6, <2>1 DEF EndDial, AfterConnect, TypeOK
  <2>3. map' = o /\ o \in open'
    BY <1>6 DEF EndDial, Fault
  <2>4. Controlled(doc)'
    BY <1>2, <1>3, <1>4, <2>1, <2>3 DEF Controlled, On, Streams
  <2>5. Connected(o)' /\ Streams(doc)'
    BY <1>4, <2>4 DEF ToConnect, Connected
  <2>6. ~doc.event => Analysed'
    BY <1>3, <2>1 DEF Analysed
  <2>7. Progress(o)'
    BY <1>3, <2>1, <2>2, <2>5, <2>6 DEF Progress
  <2>8. s \in Stages \ {"idle"} /\ s # "done"
    BY DEF Stages
  <2> HIDE DEF s
  <2> QED
    BY <1>2, <2>2, <2>7, <2>8, Focus
<1> QED
  BY <1>5, <1>6

\* The AI server analyses what the document says.
LEMMA CreateAiInOrder ==
  ASSUME TypeOK, Stored, InOrder, NEW o \in Op, CreateAi(o)
  PROVE  InOrder'
<1> SUFFICES ASSUME settled' PROVE InOrder'
  BY DEF InOrder
<1>1. settled /\ pc[o] = "createAi" /\ ai' = got[o].info
  BY DEF CreateAi, Fault
<1>2. Connected(o) /\ Streams(doc) /\ doc.event /\ \A p \in Op : Active(p) => p = o
  BY <1>1, OnlyOne DEF Active, Progress
<1>3. /\ pc' = [pc EXCEPT ![o] = "writeBack"] /\ pc'[o] = "writeBack"
      /\ UNCHANGED <<doc, kind, got, locked, map, open, event>>
  BY DEF CreateAi, TypeOK, ctlVars
<1>4. Connected(o)'
  BY <1>2, <1>3 DEF Connected, Creating, Controlled, Undelivered, On, Streams, Reconnects
<1>5. Analysed' /\ Streams(doc)'
  BY <1>1, <1>2, <1>3 DEF Analysed, On, Streams, Connected, Creating
<1>6. Progress(o)'
  BY <1>3, <1>4, <1>5 DEF Progress
<1> QED
  BY <1>2, <1>3, <1>6, Focus DEF Stages

\* The flags say what the servers do.
LEMMA WriteBackInOrder ==
  ASSUME TypeOK, Stored, InOrder, NEW o \in Op, WriteBack(o)
  PROVE  InOrder'
<1> SUFFICES ASSUME settled' PROVE InOrder'
  BY DEF InOrder
<1>1. settled /\ pc[o] = "writeBack"
  BY DEF WriteBack
<1>2. /\ Connected(o) /\ Analysed /\ (kind[o] = "create" /\ ~Streams(doc) => doc.url = None)
      /\ \A p \in Op : Active(p) => p = o
  BY <1>1, OnlyOne DEF Active, Progress
<1>3. /\ pc' = [pc EXCEPT ![o] = "done"]
      /\ UNCHANGED <<got, ai, locked, map, open, event>>
  BY DEF WriteBack, ctlVars
<1>4. /\ got[o] = doc /\ doc.exists /\ doc \in Docs
      /\ On(doc) <=> Streams(doc)
  BY <1>2 DEF Connected, Creating, On, TypeOK
<1>5. doc' = [doc EXCEPT
                !.need = FALSE,
                !.ctl = IF Reconnects(o) THEN Streams(doc) ELSE doc.ctl,
                !.ai  = Streams(doc) /\ doc.event,
                !.url = IF Streams(doc) THEN doc.info
                        ELSE IF kind[o] = "create" THEN @ ELSE None]
  BY <1>4 DEF WriteBack
<1>6. /\ doc'.exists /\ doc'.info = doc.info /\ doc'.used = doc.used /\ doc'.event = doc.event
      /\ doc'.ctl <=> On(doc)
      /\ doc'.ai <=> Streams(doc) /\ doc.event
      /\ doc'.url = IF Streams(doc) THEN doc.info ELSE None
  BY <1>2, <1>4, <1>5 DEF Docs, Connected
<1>7. On(doc)' <=> On(doc)
  BY <1>4, <1>6 DEF On, Streams
<1>8. Controlled(doc)' /\ Analysed'
  BY <1>2, <1>3, <1>6, <1>7 DEF Connected, Controlled, Analysed, Undelivered
<1>9. AtRest'
  BY <1>4, <1>6, <1>7, <1>8 DEF AtRest
<1> QED
  BY <1>2, <1>3, <1>9, Focus DEF Stages

-----------------------------------------------------------------------------
(* Deliveries, and a restart of the AI server.                             *)

\* A delivery closes no client that the document asks for.
LEMMA DeliveryInOrder ==
  ASSUME TypeOK, Stored, InOrder, NEW o \in Op, DelivStep(o)
  PROVE  InOrder'
<1> SUFFICES ASSUME settled' PROVE InOrder'
  BY DEF InOrder
<1>1. UNCHANGED <<doc, change, pc, kind, got, ai, locked, settled>>
  BY DEF DelivStep, DeliverClose, DeliverDelete, apiVars
<1>2. Undelivered
  BY DEF DelivStep, DeliverClose, DeliverDelete, Undelivered
<1>3. ~Undelivered' => map' = None
  BY DEF DelivStep, DeliverClose, DeliverDelete, Undelivered, TypeOK
<1>4. Controlled(doc) => Controlled(doc)'
  BY <1>1, <1>2, <1>3 DEF Controlled, On, Streams
<1>5. Controlled(NoDoc) => Controlled(NoDoc)'
  BY <1>1, <1>2, <1>3 DEF Controlled, On, NoDoc
<1>6. AtRest => AtRest'
  BY <1>1, <1>4 DEF AtRest, Analysed, On, Streams
<1>7. ASSUME NEW p \in Op, Active(p), Progress(p)
      PROVE  Progress(p)'
  <2>1. pc[p] \in {"connect", "createAi", "writeBack"}
    BY <1>2, <1>7 DEF Progress, Active, Checked, Written, Deleting, Disconnecting, TypeOK, Stages
  <2>2. Connected(p) => Connected(p)'
    BY <1>1, <1>4 DEF Connected, Creating, Reconnects, On, Streams
  <2>3. ToConnect(p) => ToConnect(p)'
    BY <1>1 DEF ToConnect, Creating, Reconnects, Streams
  <2> QED
    BY <1>1, <1>5, <1>7, <2>1, <2>2, <2>3 DEF Progress, Analysed, On, Streams
<1> QED
  BY <1>1, <1>6, <1>7 DEF InOrder, Active, NoChain

\* With no chain in flight the document tells the AI server what it did before.
LEMMA AiRestartsInOrder ==
  ASSUME TypeOK, Stored, InOrder, AiRestarts
  PROVE  InOrder'
<1> SUFFICES ASSUME settled' PROVE InOrder'
  BY DEF InOrder
<1>1. /\ settled /\ NoChain
      /\ UNCHANGED <<doc, pc, got, locked, map, open, event>>
  BY DEF AiRestarts, apiVars, ctlVars
<1>2. AtRest
  BY <1>1 DEF InOrder
<1>3. ai' = IF On(doc) /\ doc.event THEN doc.info ELSE None
  BY <1>2 DEF AiRestarts, AtRest, On, Streams
<1>4. AtRest'
  BY <1>1, <1>2, <1>3 DEF AtRest, Analysed, Controlled, On, Streams, Undelivered
<1>5. \A p \in Op : ~Active(p)'
  BY <1>1 DEF NoChain, Active
<1> QED
  BY <1>4, <1>5 DEF InOrder

\* Every step keeps what is in order.
LEMMA InOrderStep ==
  ASSUME TypeOK, Stored, InOrder, [Next]_vars
  PROVE  InOrder'
<1>1. CASE \E o \in Op, i \in Streamable, used, e \in BOOLEAN : Create(o, i, used, e)
  BY <1>1, CreateInOrder
<1>2. CASE \E o \in Op, c \in Changes : CheckUpdate(o, c)
  BY <1>2, CheckInOrder
<1>3. CASE \E o \in Op : Delete(o)
  BY <1>3, DeleteInOrder
<1>4. CASE \E o \in Op : ChainStep(o)
  BY <1>4, WriteInOrder, ReadInOrder, DeleteAiInOrder, DisconnectInOrder, ConnectInOrder,
     DialInOrder, CreateAiInOrder, WriteBackInOrder DEF ChainStep
<1>5. CASE \E o \in Op : DelivStep(o)
  BY <1>5, DeliveryInOrder
<1>6. CASE ControllerRestarts \/ ApiCrashes
  BY <1>6 DEF ControllerRestarts, ApiCrashes, Fault, InOrder
<1>7. CASE AiRestarts
  BY <1>7, AiRestartsInOrder
<1>8. CASE UNCHANGED vars
  BY <1>8 DEF vars, InOrder, Active, NoChain, AtRest, Progress, Checked, Written, Deleting,
     Disconnecting, Creating, ToConnect, Connected, Kept, Controlled, Analysed, Undelivered,
     Reconnects, On, Streams, Needs
<1> QED
  BY <1>1, <1>2, <1>3, <1>4, <1>5, <1>6, <1>7, <1>8 DEF Next

-----------------------------------------------------------------------------
\* The inductive invariant holds of every behaviour.
THEOREM Invariance == Spec => []IInv
<1>1. Init => IInv
  BY InitType, InitStored, InitInOrder DEF IInv
<1>2. IInv /\ [Next]_vars => IInv'
  BY TypeStep, MapDoneStep, MadeStep, TidyStep, InOrderStep DEF IInv, Stored
<1> QED
  BY <1>1, <1>2, PTL DEF Spec

\* Whatever overlapping writes, failures and restarts have done to the camera: after one
\* undisturbed write that asks for a new connection, and as long as writes stay
\* undisturbed, the document and both servers agree whenever nothing is in flight.
THEOREM RepairHolds == Spec => []RepairedAgrees
<1>1. IInv => RepairedAgrees
  <2> SUFFICES ASSUME IInv, settled, Quiescent PROVE Agreement
    BY DEF RepairedAgrees
  <2>1. AtRest /\ ~Undelivered
    BY DEF IInv, InOrder, Quiescent
  <2> QED
    BY <2>1 DEF AtRest, Controlled, Analysed, Agreement, On
<1> QED
  BY <1>1, Invariance, PTL

\* Every behaviour is well typed.
THEOREM TypeCorrect == Spec => []TypeOK
BY Invariance, PTL DEF IInv

\* A client that nobody can close comes of a Connect and a Disconnect that met,
\* or of an event that found no subscriber.
THEOREM LeakHolds == Spec => []LeakNeedsRace
<1>1. IInv => LeakNeedsRace
  BY DEF IInv, Stored, Tidy, LeakNeedsRace
<1> QED
  BY <1>1, Invariance, PTL
=============================================================================

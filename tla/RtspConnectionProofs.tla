------------------------ MODULE RtspConnectionProofs ------------------------
(***************************************************************************)
(* The safety properties of RtspConnection for every set of nodes,         *)
(* cameras, calls and disconnects, every number of crashes and every set   *)
(* of cleaners.  The inductive invariant adds to the properties that a     *)
(* call under way has a node and a camera, and that an event is being      *)
(* handled only after its Disconnect published it.                         *)
(***************************************************************************)
EXTENDS RtspConnection, FiniteSetTheorems, TLAPS

\* A call that has begun has a node and a camera.
CallsKnown == \A i \in Call : pc[i] # "idle" => host[i] \in Node /\ cam[i] \in Camera

\* An event is handled only when its Disconnect, of a known camera, published it.
EventsPublished ==
  /\ \A n \in Node, d \in Disc : deliv[n][d] # "none" => dpc[d] = "published"
  /\ \A d \in Disc : dpc[d] # "idle" => dcam[d] \in Camera

IInv ==
  /\ TypeOK /\ CallsKnown /\ EventsPublished
  /\ LockHeld /\ ExclusiveUnlessRevoked
  /\ ClosedEntryLeaves /\ NilClientNeedsTwoDisconnects

\* A key built from a client ID is a lock key, and no key built from an address
\* is one of those.
LEMMA Keys ==
  /\ \A c \in Camera : IdKey(c) \in LockKey /\ AddrKey(c) \in LockKey
  /\ \A c, d : IdKey(c) # AddrKey(d)
  /\ \A c, d : IdKey(c) = IdKey(d) => c = d
  BY DEF IdKey, AddrKey, LockKey

\* The invariant holds of a cluster that is down.
LEMMA InitIInv == Init => IInv
<1> SUFFICES ASSUME Init PROVE IInv
  OBVIOUS
<1>1. TypeOK
  BY DEF Init, TypeOK, EmptyBatch, Phases, CallStates, DelivStates
<1>2. CallsKnown /\ EventsPublished
  BY DEF Init, CallsKnown, EventsPublished
<1>3. LockHeld /\ ExclusiveUnlessRevoked
  BY DEF Init, LockHeld, ExclusiveUnlessRevoked, Active
<1>4. ClosedEntryLeaves /\ NilClientNeedsTwoDisconnects
  BY DEF Init, ClosedEntryLeaves, EntrySound, NilClientNeedsTwoDisconnects
<1> QED
  BY <1>1, <1>2, <1>3, <1>4 DEF IInv

\* The invariant holds of a cluster at rest.
LEMMA InitUpIInv == InitUp => IInv
<1> SUFFICES ASSUME InitUp PROVE IInv
  OBVIOUS
<1>1. TypeOK
  BY DEF InitUp, TypeOK, EmptyBatch, Phases, CallStates, DelivStates
<1>2. CallsKnown /\ EventsPublished
  BY DEF InitUp, CallsKnown, EventsPublished
<1>3. LockHeld /\ ExclusiveUnlessRevoked
  BY DEF InitUp, LockHeld, ExclusiveUnlessRevoked, Active
<1>4. ClosedEntryLeaves /\ NilClientNeedsTwoDisconnects
  BY DEF InitUp, ClosedEntryLeaves, EntrySound, NilClientNeedsTwoDisconnects
<1> QED
  BY <1>1, <1>2, <1>3, <1>4 DEF IInv

\* Every step keeps the types: one step per action.
LEMMA TypeStep == TypeOK /\ [Next]_vars => TypeOK'
<1> SUFFICES ASSUME TypeOK, [Next]_vars PROVE TypeOK'
  OBVIOUS
<1> USE DEF redisVars, nodeVars, connVars, discVars
<1>1. ASSUME NEW i \in Call, NEW n \in Node, NEW c \in Camera, ConnectRTSPClient(i, n, c)
      PROVE  TypeOK'
  <2>1. CASE lock[IdKey(c)] = None
    <3>1. /\ lock' = [lock EXCEPT ![IdKey(c)] = n]
          /\ saddQ' = saddQ \cup {<<n, IdKey(c)>>}
          /\ pc' = [pc EXCEPT ![i] = "granted"]
          /\ host' = [host EXCEPT ![i] = n] /\ cam' = [cam EXCEPT ![i] = c]
      BY <1>1, <2>1 DEF ConnectRTSPClient
    <3>2. IdKey(c) \in LockKey
      BY Keys
    <3> QED
      BY <1>1, <3>1, <3>2 DEF TypeOK, ConnectRTSPClient, CallStates
  <2>2. CASE lock[IdKey(c)] # None
    <3>1. /\ pc' = [pc EXCEPT ![i] = "refused"] /\ UNCHANGED <<lock, saddQ>>
          /\ host' = [host EXCEPT ![i] = n] /\ cam' = [cam EXCEPT ![i] = c]
      BY <1>1, <2>2 DEF ConnectRTSPClient
    <3> QED
      BY <1>1, <3>1 DEF TypeOK, ConnectRTSPClient, CallStates
  <2> QED
    BY <2>1, <2>2
<1>2. ASSUME NEW n \in Node, NEW k \in LockKey, AddToConnectionSet(n, k) PROVE TypeOK'
  BY <1>2 DEF TypeOK, AddToConnectionSet
<1>3. ASSUME NEW i \in Call, BeginDial(i) PROVE TypeOK'
  BY <1>3 DEF TypeOK, BeginDial, CallStates
<1>4. ASSUME NEW i \in Call, DialSucceeds(i) PROVE TypeOK'
  BY <1>4 DEF TypeOK, DialSucceeds, CallStates
<1>5. ASSUME NEW i \in Call, DialFails(i) PROVE TypeOK'
  BY <1>5 DEF TypeOK, DialFails, CallStates, DelLocks
<1>6. ASSUME NEW d \in Disc, NEW n \in Node, NEW c \in Camera, DisconnectRTSPClient(d, n, c)
      PROVE  TypeOK'
  BY <1>6 DEF TypeOK, DisconnectRTSPClient, DelLocks, Losing
<1>7. ASSUME NEW d \in Disc, PublishDisconnect(d) PROVE TypeOK'
  BY <1>7 DEF TypeOK, PublishDisconnect, DelivStates
<1>8. ASSUME NEW n \in Node, NEW d \in Disc, InternalGet(n, d) PROVE TypeOK'
  BY <1>8 DEF TypeOK, InternalGet, DelivStates
<1>9. ASSUME NEW n \in Node, NEW d \in Disc, InternalClose(n, d) PROVE TypeOK'
  <2> DEFINE i == clients[n][dcam[d]]
  <2>1. /\ pc' = pc \/ pc' = [pc EXCEPT ![i] = "closed"]
        /\ connSet' = connSet \/ connSet' = [connSet EXCEPT ![n] = {}]
        /\ counter' = counter \/ counter' = counter - 1
        /\ deliv' = [deliv EXCEPT ![n][d] = "closed"]
        /\ UNCHANGED <<lock, registered, alive, nodeVars, host, cam, dpc, dhost, dcam, revoked>>
    BY <1>9 DEF InternalClose
  <2>2. pc' \in [Call -> CallStates]
    BY <2>1 DEF TypeOK, CallStates
  <2>3. connSet' \in [Node -> SUBSET LockKey]
    BY <2>1 DEF TypeOK
  <2>4. counter' \in Int
    BY <2>1 DEF TypeOK
  <2>5. deliv' \in [Node -> [Disc -> DelivStates]]
    BY <2>1 DEF TypeOK, DelivStates
  <2> QED
    BY <2>1, <2>2, <2>3, <2>4, <2>5 DEF TypeOK
<1>10. ASSUME NEW n \in Node, NEW d \in Disc, InternalDelete(n, d) PROVE TypeOK'
  BY <1>10 DEF TypeOK, InternalDelete, DelivStates
<1>11. ASSUME NEW n \in Node, ProcessEnds(n), crashes' \in Nat PROVE TypeOK'
  BY <1>11 DEF TypeOK, ProcessEnds, DelivStates, CallStates, Phases, EmptyBatch
<1>12. ASSUME NEW n \in Node, NEW d \in Disc, NilClientPanic(n, d) \/ MapRaceFatal(n, d)
       PROVE  TypeOK'
  BY <1>11, <1>12 DEF NilClientPanic, MapRaceFatal, TypeOK
<1>13. ASSUME NEW n \in Node, Crash(n) PROVE TypeOK'
  <2>1. ProcessEnds(n) /\ crashes' \in Nat
    BY <1>13 DEF Crash, TypeOK
  <2> QED
    BY <1>11, <2>1
<1>14. ASSUME NEW n \in Node, StartScan(n) PROVE TypeOK'
  BY <1>14 DEF TypeOK, StartScan, Phases
<1>15. ASSUME NEW n \in Node, StartFlush(n) PROVE TypeOK'
  BY <1>15 DEF TypeOK, StartFlush, Phases, DelLocks, Losing
<1>16. ASSUME NEW n \in Node, Subscribe(n) \/ Register(n) \/ KeepAlive(n) \/ Expire(n)
       PROVE  TypeOK'
  BY <1>16 DEF TypeOK, Subscribe, Register, KeepAlive, Expire
<1>17. ASSUME NEW m \in Node, NEW n \in Node, CleanerScan(m, n) PROVE TypeOK'
  BY <1>17 DEF TypeOK, CleanerScan
<1>18. ASSUME NEW m \in Node, CleanerExec(m) PROVE TypeOK'
  BY <1>18 DEF TypeOK, CleanerExec, DelLocks, Losing, EmptyBatch
<1>19. CASE UNCHANGED vars
  BY <1>19 DEF TypeOK, vars
<1> QED
  BY <1>1, <1>2, <1>3, <1>4, <1>5, <1>6, <1>7, <1>8, <1>9, <1>10, <1>12, <1>13, <1>14,
     <1>15, <1>16, <1>17, <1>18, <1>19 DEF Next, ConnStep, DelivStep

\* Calls and events keep what CallsKnown and EventsPublished say of them.
LEMMA KnownStep ==
  TypeOK /\ CallsKnown /\ EventsPublished /\ [Next]_vars => CallsKnown' /\ EventsPublished'
<1> SUFFICES ASSUME TypeOK, CallsKnown, EventsPublished, [Next]_vars
             PROVE  CallsKnown' /\ EventsPublished'
  OBVIOUS
<1> USE DEF redisVars, nodeVars, connVars, discVars
<1>1. ASSUME NEW i \in Call, NEW n \in Node, NEW c \in Camera, ConnectRTSPClient(i, n, c)
      PROVE  CallsKnown' /\ EventsPublished'
  <2>1. /\ host' = [host EXCEPT ![i] = n] /\ cam' = [cam EXCEPT ![i] = c]
        /\ \A j \in Call : j # i => pc'[j] = pc[j]
        /\ UNCHANGED discVars
    BY <1>1 DEF ConnectRTSPClient, TypeOK
  <2> QED
    BY <2>1 DEF CallsKnown, EventsPublished, TypeOK
<1>2. ASSUME NEW i \in Call, ConnStep(i) PROVE CallsKnown' /\ EventsPublished'
  <2>1. /\ pc[i] # "idle" /\ UNCHANGED <<host, cam, discVars>>
        /\ \A j \in Call : j # i => pc'[j] = pc[j]
    BY <1>2 DEF ConnStep, BeginDial, DialSucceeds, DialFails, TypeOK
  <2> QED
    BY <2>1 DEF CallsKnown, EventsPublished
<1>3. ASSUME NEW d \in Disc, NEW n \in Node, NEW c \in Camera, DisconnectRTSPClient(d, n, c)
      PROVE  CallsKnown' /\ EventsPublished'
  BY <1>3 DEF DisconnectRTSPClient, CallsKnown, EventsPublished, TypeOK
<1>4. ASSUME NEW d \in Disc, PublishDisconnect(d) PROVE CallsKnown' /\ EventsPublished'
  BY <1>4 DEF PublishDisconnect, CallsKnown, EventsPublished, TypeOK
<1>5. ASSUME NEW n \in Node, NEW d \in Disc, InternalGet(n, d) \/ InternalDelete(n, d)
      PROVE  CallsKnown' /\ EventsPublished'
  <2>1. UNCHANGED <<pc, host, cam, dpc, dcam>>
    BY <1>5 DEF InternalGet, InternalDelete
  <2>2. deliv[n][d] # "none" /\ \E v \in DelivStates : deliv' = [deliv EXCEPT ![n][d] = v]
    BY <1>5 DEF InternalGet, InternalDelete, DelivStates
  <2>3. \A m \in Node, e \in Disc : deliv'[m][e] # "none" => deliv[m][e] # "none"
    BY <2>2 DEF TypeOK
  <2> QED
    BY <2>1, <2>3 DEF CallsKnown, EventsPublished
<1>6. ASSUME NEW n \in Node, NEW d \in Disc, InternalClose(n, d)
      PROVE  CallsKnown' /\ EventsPublished'
  <2>1. /\ \A j \in Call : pc'[j] # pc[j] => pc[j] = "open"
        /\ deliv[n][d] = "found" /\ deliv' = [deliv EXCEPT ![n][d] = "closed"]
        /\ UNCHANGED <<host, cam, dpc, dcam>>
    BY <1>6 DEF InternalClose, TypeOK
  <2>2. CallsKnown'
    BY <2>1 DEF CallsKnown
  <2>3. EventsPublished'
    BY <2>1 DEF EventsPublished, TypeOK
  <2> QED
    BY <2>2, <2>3
<1>7. ASSUME NEW n \in Node, ProcessEnds(n) PROVE CallsKnown' /\ EventsPublished'
  BY <1>7 DEF ProcessEnds, CallsKnown, EventsPublished, TypeOK
<1>8. ASSUME UNCHANGED <<connVars, discVars>> PROVE CallsKnown' /\ EventsPublished'
  BY <1>8 DEF CallsKnown, EventsPublished
<1> QED
  BY <1>1, <1>2, <1>3, <1>4, <1>5, <1>6, <1>7, <1>8
     DEF Next, DelivStep, Crash, NilClientPanic, MapRaceFatal, AddToConnectionSet, StartScan,
         StartFlush, Subscribe, Register, KeepAlive, Expire, CleanerScan, CleanerExec, vars

\* Deleting a set of keys revokes the calls that lose a key by it.
LEMMA DeletionRevokes ==
  ASSUME TypeOK, CallsKnown, LockHeld, ExclusiveUnlessRevoked, NEW ks,
         lock' = DelLocks(ks), revoked' = revoked \cup Losing(ks), UNCHANGED <<pc, host, cam>>
  PROVE  LockHeld' /\ ExclusiveUnlessRevoked'
<1>1. ASSUME NEW i \in Call, Active(i), i \notin revoked'
      PROVE  i \notin revoked /\ lock'[IdKey(cam[i])] = lock[IdKey(cam[i])]
  <2>1. IdKey(cam[i]) \notin ks
    BY <1>1 DEF Losing
  <2>2. IdKey(cam[i]) \in LockKey
    BY <1>1, Keys DEF CallsKnown, Active
  <2> QED
    BY <1>1, <2>1, <2>2 DEF DelLocks
<1>2. LockHeld'
  BY <1>1 DEF LockHeld, Active
<1>3. ExclusiveUnlessRevoked'
  BY DEF ExclusiveUnlessRevoked, Active
<1> QED
  BY <1>2, <1>3

\* Only ConnectRTSPClient makes a call active, and it takes a free key; only
\* the three deletions take a key from an active call, and they revoke it.
LEMMA LockStep ==
  TypeOK /\ CallsKnown /\ LockHeld /\ ExclusiveUnlessRevoked /\ [Next]_vars
    => LockHeld' /\ ExclusiveUnlessRevoked'
<1> SUFFICES ASSUME TypeOK, CallsKnown, LockHeld, ExclusiveUnlessRevoked, [Next]_vars
             PROVE  LockHeld' /\ ExclusiveUnlessRevoked'
  OBVIOUS
<1> USE DEF redisVars, nodeVars, connVars, discVars
<1>1. ASSUME NEW i \in Call, NEW n \in Node, NEW c \in Camera, ConnectRTSPClient(i, n, c)
      PROVE  LockHeld' /\ ExclusiveUnlessRevoked'
  <2>1. /\ host' = [host EXCEPT ![i] = n] /\ cam' = [cam EXCEPT ![i] = c]
        /\ revoked' = revoked
    BY <1>1 DEF ConnectRTSPClient
  <2>2. CASE lock[IdKey(c)] # None
    <3>1. lock' = lock /\ pc' = [pc EXCEPT ![i] = "refused"]
      BY <1>1, <2>2 DEF ConnectRTSPClient
    <3>2. \A j \in Call : Active(j)' => j # i /\ Active(j) /\ cam'[j] = cam[j] /\ host'[j] = host[j]
      BY <2>1, <3>1 DEF Active, TypeOK
    <3> QED
      BY <2>1, <3>1, <3>2 DEF LockHeld, ExclusiveUnlessRevoked
  <2>3. CASE lock[IdKey(c)] = None
    <3>1. lock' = [lock EXCEPT ![IdKey(c)] = n] /\ pc' = [pc EXCEPT ![i] = "granted"]
      BY <1>1, <2>3 DEF ConnectRTSPClient
    <3>2. cam'[i] = c /\ host'[i] = n /\ lock'[IdKey(c)] = n
      BY <2>1, <3>1, Keys DEF TypeOK
    <3>3. \A j \in Call : j # i /\ Active(j)'
                          => Active(j) /\ cam'[j] = cam[j] /\ host'[j] = host[j]
      BY <2>1, <3>1 DEF Active, TypeOK
    <3>4. ASSUME NEW j \in Call, j # i, Active(j)', j \notin revoked
          PROVE  cam'[j] # c /\ lock'[IdKey(cam'[j])] = host'[j]
      <4>1. Active(j) /\ lock[IdKey(cam[j])] = host[j]
        BY <3>3, <3>4 DEF LockHeld
      <4>2. host[j] \in Node /\ cam[j] \in Camera
        BY <4>1 DEF CallsKnown, Active
      <4>3. cam[j] # c
        BY <4>1, <4>2, <2>3, ConnAssumption
      <4>4. IdKey(cam[j]) # IdKey(c)
        BY <4>3, Keys
      <4> QED
        BY <3>1, <3>3, <3>4, <4>1, <4>2, <4>3, <4>4, Keys DEF TypeOK
    <3>5. LockHeld'
      BY <2>1, <3>2, <3>4 DEF LockHeld
    <3>6. ExclusiveUnlessRevoked'
      BY <2>1, <3>2, <3>3, <3>4 DEF ExclusiveUnlessRevoked
    <3> QED
      BY <3>5, <3>6
  <2> QED
    BY <2>2, <2>3
<1>2. ASSUME NEW i \in Call, DialFails(i) PROVE LockHeld' /\ ExclusiveUnlessRevoked'
  <2>1. /\ pc' = [pc EXCEPT ![i] = "failed"] /\ lock' = DelLocks({AddrKey(cam[i])})
        /\ UNCHANGED <<host, cam, revoked>>
    BY <1>2 DEF DialFails
  <2>2. \A j \in Call : Active(j)' => Active(j)
    BY <2>1 DEF Active, TypeOK
  <2>3. \A c \in Camera : lock'[IdKey(c)] = lock[IdKey(c)]
    BY <2>1, Keys DEF DelLocks
  <2>4. LockHeld'
    BY <2>1, <2>2, <2>3 DEF LockHeld, CallsKnown, Active
  <2>5. ExclusiveUnlessRevoked'
    BY <2>1, <2>2 DEF ExclusiveUnlessRevoked
  <2> QED
    BY <2>4, <2>5
<1>3. ASSUME NEW d \in Disc, NEW n \in Node, NEW c \in Camera, DisconnectRTSPClient(d, n, c)
      PROVE  LockHeld' /\ ExclusiveUnlessRevoked'
  BY <1>3, DeletionRevokes DEF DisconnectRTSPClient
<1>4. ASSUME NEW n \in Node, StartFlush(n) PROVE LockHeld' /\ ExclusiveUnlessRevoked'
  BY <1>4, DeletionRevokes DEF StartFlush
<1>5. ASSUME NEW m \in Node, CleanerExec(m) PROVE LockHeld' /\ ExclusiveUnlessRevoked'
  BY <1>5, DeletionRevokes DEF CleanerExec
<1>6. ASSUME UNCHANGED <<lock, host, cam, revoked>>, \A j \in Call : Active(j)' => Active(j)
      PROVE  LockHeld' /\ ExclusiveUnlessRevoked'
  BY <1>6 DEF LockHeld, ExclusiveUnlessRevoked
<1>7. ASSUME NEW i \in Call, BeginDial(i) \/ DialSucceeds(i)
      PROVE  LockHeld' /\ ExclusiveUnlessRevoked'
  <2>1. UNCHANGED <<lock, host, cam, revoked>> /\ \A j \in Call : Active(j)' => Active(j)
    BY <1>7 DEF BeginDial, DialSucceeds, Active, TypeOK
  <2> QED
    BY <1>6, <2>1
<1>8. ASSUME NEW n \in Node, NEW d \in Disc, InternalClose(n, d)
      PROVE  LockHeld' /\ ExclusiveUnlessRevoked'
  <2>1. \A j \in Call : pc'[j] # pc[j] => pc'[j] = "closed"
    BY <1>8 DEF InternalClose, TypeOK
  <2>2. UNCHANGED <<lock, host, cam, revoked>>
    BY <1>8 DEF InternalClose
  <2>3. \A j \in Call : Active(j)' => Active(j)
    BY <2>1 DEF Active
  <2> QED
    BY <1>6, <2>2, <2>3
<1>9. ASSUME NEW n \in Node, ProcessEnds(n) PROVE LockHeld' /\ ExclusiveUnlessRevoked'
  <2>1. \A j \in Call : pc'[j] = pc[j] \/ pc'[j] \in {"aborted", "lost"}
    BY <1>9 DEF ProcessEnds
  <2>2. UNCHANGED <<lock, host, cam, revoked>>
    BY <1>9 DEF ProcessEnds
  <2>3. \A j \in Call : Active(j)' => Active(j)
    BY <2>1 DEF Active
  <2> QED
    BY <1>6, <2>2, <2>3
<1>10. ASSUME UNCHANGED <<lock, connVars, revoked>> PROVE LockHeld' /\ ExclusiveUnlessRevoked'
  BY <1>10 DEF LockHeld, ExclusiveUnlessRevoked, Active
<1> QED
  BY <1>1, <1>2, <1>3, <1>4, <1>5, <1>7, <1>8, <1>9, <1>10
     DEF Next, ConnStep, DelivStep, Crash, NilClientPanic, MapRaceFatal, AddToConnectionSet,
         PublishDisconnect, InternalGet, InternalDelete, StartScan, Subscribe, Register, KeepAlive,
         Expire, CleanerScan, vars

\* A map entry is replaced by a newer client or deleted by the delivery that
\* closed its client; nothing else closes a client that stays in a map.
LEMMA EntryStep ==
  TypeOK /\ CallsKnown /\ EventsPublished /\ ClosedEntryLeaves /\ [Next]_vars
    => ClosedEntryLeaves'
<1> SUFFICES ASSUME TypeOK, CallsKnown, EventsPublished, ClosedEntryLeaves, [Next]_vars,
                    NEW m \in Node, NEW k \in Camera, clients'[m][k] # None
             PROVE  LET j == clients'[m][k] IN
                    /\ host'[j] = m /\ cam'[j] = k /\ pc'[j] \in {"open", "closed"}
                    /\ pc'[j] = "closed" =>
                         \E e \in Disc : deliv'[m][e] = "closed" /\ dcam'[e] = k
  BY DEF ClosedEntryLeaves, EntrySound
<1> USE DEF redisVars, nodeVars, connVars, discVars
<1> DEFINE j == clients'[m][k]
           Good == /\ host'[j] = m /\ cam'[j] = k /\ pc'[j] \in {"open", "closed"}
                   /\ pc'[j] = "closed" =>
                        \E e \in Disc : deliv'[m][e] = "closed" /\ dcam'[e] = k
<1>0. ASSUME clients[m][k] = j
      PROVE  /\ j \in Call /\ host[j] = m /\ cam[j] = k /\ pc[j] \in {"open", "closed"}
             /\ pc[j] = "closed" => \E e \in Disc : deliv[m][e] = "closed" /\ dcam[e] = k
  BY <1>0 DEF ClosedEntryLeaves, EntrySound, TypeOK
<1> HIDE DEF j
<1>1. ASSUME NEW i \in Call, NEW n \in Node, NEW c \in Camera, ConnectRTSPClient(i, n, c)
      PROVE  Good
  <2>1. clients[m][k] = j /\ UNCHANGED <<deliv, dcam>> /\ pc[i] = "idle"
    BY <1>1 DEF ConnectRTSPClient, j
  <2>2. j # i
    BY <2>1, <1>0
  <2>3. host'[j] = host[j] /\ cam'[j] = cam[j] /\ pc'[j] = pc[j]
    BY <1>1, <1>0, <2>1, <2>2 DEF ConnectRTSPClient, TypeOK
  <2> QED
    BY <1>0, <2>1, <2>3
<1>2. ASSUME NEW i \in Call, BeginDial(i) \/ DialFails(i) PROVE Good
  <2>1. /\ clients[m][k] = j /\ UNCHANGED <<deliv, dcam, host, cam>>
        /\ pc[i] \in {"granted", "dialing"} /\ \A x \in Call : x # i => pc'[x] = pc[x]
    BY <1>2 DEF BeginDial, DialFails, TypeOK, j
  <2> QED
    BY <1>0, <2>1
<1>3. ASSUME NEW i \in Call, DialSucceeds(i) PROVE Good
  <2>1. /\ clients' = [clients EXCEPT ![host[i]][cam[i]] = i]
        /\ pc' = [pc EXCEPT ![i] = "open"] /\ pc[i] = "dialing"
        /\ UNCHANGED <<deliv, dcam, host, cam>>
    BY <1>3 DEF DialSucceeds
  <2>2. host[i] \in Node /\ cam[i] \in Camera
    BY <2>1 DEF CallsKnown
  <2>3. CASE m = host[i] /\ k = cam[i]
    BY <2>1, <2>2, <2>3 DEF TypeOK, j
  <2>4. CASE ~(m = host[i] /\ k = cam[i])
    <3>1. clients[m][k] = j
      BY <2>1, <2>2, <2>4 DEF TypeOK, j
    <3>2. pc'[j] = pc[j]
      BY <3>1, <1>0, <2>1 DEF TypeOK
    <3> QED
      BY <3>1, <3>2, <1>0, <2>1
  <2> QED
    BY <2>3, <2>4
<1>4. ASSUME NEW d \in Disc, NEW n \in Node, NEW c \in Camera, DisconnectRTSPClient(d, n, c)
      PROVE  Good
  <2>1. /\ clients[m][k] = j /\ UNCHANGED <<deliv, pc, host, cam>> /\ dpc[d] = "idle"
        /\ \A e \in Disc : e # d => dcam'[e] = dcam[e]
    BY <1>4 DEF DisconnectRTSPClient, TypeOK, j
  <2>2. \A e \in Disc : deliv[m][e] = "closed" => e # d
    BY <2>1 DEF EventsPublished
  <2> QED
    BY <1>0, <2>1, <2>2
<1>5. ASSUME NEW d \in Disc, PublishDisconnect(d) PROVE Good
  <2>1. clients[m][k] = j /\ UNCHANGED <<pc, host, cam, dcam>> /\ dpc[d] = "deleted"
    BY <1>5 DEF PublishDisconnect, j
  <2>2. \A e \in Disc : e # d => deliv'[m][e] = deliv[m][e]
    BY <1>5 DEF PublishDisconnect, TypeOK
  <2>3. deliv[m][d] # "closed"
    BY <2>1 DEF EventsPublished
  <2> QED
    BY <1>0, <2>1, <2>2, <2>3
<1>6. ASSUME NEW n \in Node, NEW d \in Disc, InternalGet(n, d) PROVE Good
  <2>1. clients[m][k] = j /\ UNCHANGED <<pc, host, cam, dcam>> /\ deliv[n][d] = "sent"
    BY <1>6 DEF InternalGet, j
  <2>2. \A e \in Disc : deliv[m][e] = "closed" => deliv'[m][e] = "closed"
    BY <1>6, <2>1 DEF InternalGet, TypeOK
  <2> QED
    BY <1>0, <2>1, <2>2
<1>7. ASSUME NEW n \in Node, NEW d \in Disc, InternalClose(n, d) PROVE Good
  <2> DEFINE i == clients[n][dcam[d]]
  <2>1. /\ clients[m][k] = j /\ UNCHANGED <<host, cam, dcam>>
        /\ deliv[n][d] = "found" /\ deliv' = [deliv EXCEPT ![n][d] = "closed"]
        /\ pc' = pc \/ pc' = [pc EXCEPT ![i] = "closed"]
        /\ i # None
    BY <1>7 DEF InternalClose, j
  <2>2. dcam[d] \in Camera
    BY <2>1 DEF EventsPublished
  <2>3. i \in Call /\ host[i] = n /\ cam[i] = dcam[d]
    BY <2>1, <2>2 DEF ClosedEntryLeaves, EntrySound, TypeOK
  <2>4. deliv'[n][d] = "closed" /\ \A e \in Disc : deliv[m][e] = "closed" => deliv'[m][e] = "closed"
    BY <2>1 DEF TypeOK
  <2> HIDE DEF i
  <2>5. CASE j = i
    <3>1. m = n /\ k = dcam[d] /\ pc'[j] \in {"open", "closed"}
      BY <2>1, <2>3, <2>5, <1>0 DEF TypeOK
    <3> QED
      BY <3>1, <2>1, <2>4, <1>0
  <2>6. CASE j # i
    <3>1. pc'[j] = pc[j]
      BY <2>1, <2>6, <1>0 DEF TypeOK
    <3> QED
      BY <3>1, <2>1, <2>4, <1>0
  <2> QED
    BY <2>5, <2>6
<1>8. ASSUME NEW n \in Node, NEW d \in Disc, InternalDelete(n, d) PROVE Good
  <2>1. /\ UNCHANGED <<pc, host, cam, dcam>>
        /\ clients' = [clients EXCEPT ![n][dcam[d]] = None]
        /\ deliv' = [deliv EXCEPT ![n][d] = "done"] /\ deliv[n][d] = "closed"
    BY <1>8 DEF InternalDelete
  <2>2. dcam[d] \in Camera
    BY <2>1 DEF EventsPublished
  <2>3. ~(m = n /\ k = dcam[d])
    BY <2>1, <2>2 DEF TypeOK
  <2>4. clients[m][k] = j
    BY <2>1, <2>2, <2>3 DEF TypeOK, j
  <2>5. \A e \in Disc : deliv[m][e] = "closed" /\ dcam[e] = k => deliv'[m][e] = "closed"
    BY <2>1, <2>3 DEF TypeOK
  <2> QED
    BY <1>0, <2>1, <2>4, <2>5
<1>9. ASSUME NEW n \in Node, ProcessEnds(n) PROVE Good
  <2>1. /\ clients' = [clients EXCEPT ![n] = [c \in Camera |-> None]]
        /\ deliv' = [deliv EXCEPT ![n] = [d \in Disc |-> "none"]]
        /\ UNCHANGED <<host, cam, dcam>>
        /\ \A x \in Call : host[x] # n => pc'[x] = pc[x]
    BY <1>9 DEF ProcessEnds
  <2>2. m # n
    BY <2>1 DEF TypeOK
  <2>3. clients[m][k] = j /\ deliv'[m] = deliv[m]
    BY <2>1, <2>2 DEF TypeOK, j
  <2> QED
    BY <1>0, <2>1, <2>2, <2>3
<1>10. ASSUME UNCHANGED <<clients, connVars, deliv, dcam>> PROVE Good
  BY <1>10, <1>0 DEF j
<1> QED
  BY <1>1, <1>2, <1>3, <1>4, <1>5, <1>6, <1>7, <1>8, <1>9, <1>10
     DEF Next, ConnStep, DelivStep, Crash, NilClientPanic, MapRaceFatal, AddToConnectionSet,
         StartScan, StartFlush, Subscribe, Register, KeepAlive, Expire, CleanerScan, CleanerExec, vars, j

\* A delivery that has found a client misses it later only because another
\* delivery of the same camera deleted the entry, and has ended by that.
LEMMA NilStep ==
  TypeOK /\ CallsKnown /\ EventsPublished /\ NilClientNeedsTwoDisconnects /\ [Next]_vars
    => NilClientNeedsTwoDisconnects'
<1> SUFFICES ASSUME TypeOK, CallsKnown, EventsPublished, NilClientNeedsTwoDisconnects,
                    [Next]_vars, NEW m \in Node, NEW x \in Disc,
                    deliv'[m][x] = "found", clients'[m][dcam'[x]] = None
             PROVE  \E e \in Disc \ {x} : dcam'[e] = dcam'[x] /\ deliv'[m][e] = "done"
  BY DEF NilClientNeedsTwoDisconnects
<1> USE DEF redisVars, nodeVars, connVars, discVars
<1> DEFINE Other == \E e \in Disc \ {x} : dcam'[e] = dcam'[x] /\ deliv'[m][e] = "done"
<1>0. ASSUME deliv[m][x] = "found", clients[m][dcam[x]] = None
      PROVE  \E e \in Disc \ {x} : dcam[e] = dcam[x] /\ deliv[m][e] = "done"
  BY <1>0 DEF NilClientNeedsTwoDisconnects
<1>1. ASSUME UNCHANGED <<clients, deliv, dcam>> PROVE Other
  BY <1>0, <1>1
<1>2. ASSUME NEW i \in Call, DialSucceeds(i) PROVE Other
  <2>1. /\ clients' = [clients EXCEPT ![host[i]][cam[i]] = i]
        /\ UNCHANGED <<deliv, dcam>> /\ pc[i] = "dialing"
    BY <1>2 DEF DialSucceeds
  <2>2. host[i] \in Node /\ cam[i] \in Camera /\ i # None
    BY <2>1, ConnAssumption DEF CallsKnown
  <2>3. dcam[x] \in Camera
    BY <2>1 DEF EventsPublished
  <2>4. clients[m][dcam[x]] = None
    BY <2>1, <2>2, <2>3 DEF TypeOK
  <2> QED
    BY <1>0, <2>1, <2>4
<1>3. ASSUME NEW d \in Disc, NEW n \in Node, NEW c \in Camera, DisconnectRTSPClient(d, n, c)
      PROVE  Other
  <2>1. /\ UNCHANGED <<clients, deliv>> /\ dpc[d] = "idle"
        /\ \A e \in Disc : e # d => dcam'[e] = dcam[e]
    BY <1>3 DEF DisconnectRTSPClient, TypeOK
  <2>2. \A e \in Disc : deliv[m][e] # "none" => e # d
    BY <2>1 DEF EventsPublished
  <2> QED
    BY <1>0, <2>1, <2>2
<1>4. ASSUME NEW d \in Disc, PublishDisconnect(d) PROVE Other
  <2>1. /\ UNCHANGED <<clients, dcam>> /\ dpc[d] = "deleted"
        /\ \A e \in Disc : e # d => deliv'[m][e] = deliv[m][e]
        /\ deliv'[m][d] \in {"sent", deliv[m][d]}
    BY <1>4 DEF PublishDisconnect, TypeOK
  <2>2. deliv[m][d] = "none"
    BY <2>1 DEF EventsPublished
  <2> QED
    BY <1>0, <2>1, <2>2
<1>5. ASSUME NEW n \in Node, NEW d \in Disc, InternalGet(n, d) PROVE Other
  <2>1. /\ UNCHANGED <<clients, dcam>> /\ deliv[n][d] = "sent"
        /\ deliv' = [deliv EXCEPT ![n][d] =
                        IF clients[n][dcam[d]] = None THEN "done" ELSE "found"]
    BY <1>5 DEF InternalGet
  <2>2. deliv[m][x] = "found"
    BY <2>1 DEF TypeOK
  <2>3. \A e \in Disc : deliv[m][e] = "done" => deliv'[m][e] = "done"
    BY <2>1 DEF TypeOK
  <2> QED
    BY <1>0, <2>1, <2>2, <2>3
<1>6. ASSUME NEW n \in Node, NEW d \in Disc, InternalClose(n, d) PROVE Other
  <2>1. /\ UNCHANGED <<clients, dcam>> /\ deliv[n][d] = "found"
        /\ deliv' = [deliv EXCEPT ![n][d] = "closed"]
    BY <1>6 DEF InternalClose
  <2>2. deliv[m][x] = "found" /\ \A e \in Disc : deliv[m][e] = "done" => deliv'[m][e] = "done"
    BY <2>1 DEF TypeOK
  <2> QED
    BY <1>0, <2>1, <2>2
<1>7. ASSUME NEW n \in Node, NEW d \in Disc, InternalDelete(n, d) PROVE Other
  <2>1. /\ clients' = [clients EXCEPT ![n][dcam[d]] = None] /\ dcam' = dcam
        /\ deliv' = [deliv EXCEPT ![n][d] = "done"] /\ deliv[n][d] = "closed"
    BY <1>7 DEF InternalDelete
  <2>2. /\ deliv[m][x] = "found" /\ deliv'[n][d] = "done"
        /\ \A e \in Disc : deliv[m][e] = "done" => deliv'[m][e] = "done"
    BY <2>1 DEF TypeOK
  <2>3. CASE m = n /\ dcam[x] = dcam[d]
    <3>1. d # x
      BY <2>1, <2>2, <2>3
    <3> QED
      BY <3>1, <2>1, <2>2, <2>3
  <2>4. CASE ~(m = n /\ dcam[x] = dcam[d])
    <3>1. dcam[x] \in Camera /\ dcam[d] \in Camera
      BY <2>1, <2>2 DEF EventsPublished
    <3>2. clients[m][dcam[x]] = None
      BY <2>1, <2>4, <3>1 DEF TypeOK
    <3> QED
      BY <1>0, <2>1, <2>2, <3>2
  <2> QED
    BY <2>3, <2>4
<1>8. ASSUME NEW n \in Node, ProcessEnds(n) PROVE Other
  <2>1. /\ clients' = [clients EXCEPT ![n] = [c \in Camera |-> None]]
        /\ deliv' = [deliv EXCEPT ![n] = [d \in Disc |-> "none"]] /\ dcam' = dcam
    BY <1>8 DEF ProcessEnds
  <2>2. m # n
    BY <2>1 DEF TypeOK
  <2>3. clients'[m] = clients[m] /\ deliv'[m] = deliv[m]
    BY <2>1, <2>2 DEF TypeOK
  <2> QED
    BY <1>0, <2>1, <2>3
<1> QED
  BY <1>1, <1>2, <1>3, <1>4, <1>5, <1>6, <1>7, <1>8
     DEF Next, ConnStep, DelivStep, Crash, NilClientPanic, MapRaceFatal, ConnectRTSPClient,
         BeginDial, DialFails, AddToConnectionSet, StartScan, StartFlush, Subscribe, Register,
         KeepAlive, Expire, CleanerScan, CleanerExec, vars

\* The invariant is inductive.
LEMMA NextIInv == IInv /\ [Next]_vars => IInv'
  BY TypeStep, KnownStep, LockStep, EntryStep, NilStep DEF IInv

\* The invariant holds in every state that a cluster, started from scratch or
\* at rest, can reach.
THEOREM Invariance == Spec \/ SpecUp => []IInv
<1>1. Init \/ InitUp => IInv
  BY InitIInv, InitUpIInv
<1>2. IInv /\ [Next]_vars => IInv'
  BY NextIInv
<1> QED
  BY <1>1, <1>2, PTL DEF Spec, SpecUp

\* Redis, the nodes and the RPCs keep their types.
THEOREM TypeCorrect == Spec \/ SpecUp => []TypeOK
<1>1. IInv => TypeOK
  BY DEF IInv
<1> QED
  BY <1>1, Invariance, PTL

\* A call that is being connected or streams owns its camera's key unless a
\* Disconnect, a flush or a cleaner deleted the key under it.
THEOREM LockIsHeld == Spec \/ SpecUp => []LockHeld
<1>1. IInv => LockHeld
  BY DEF IInv
<1> QED
  BY <1>1, Invariance, PTL

\* Two Connect calls of one camera overlap, on any nodes, only if one of them
\* lost its lock.
THEOREM Exclusion == Spec \/ SpecUp => []ExclusiveUnlessRevoked
<1>1. IInv => ExclusiveUnlessRevoked
  BY DEF IInv
<1> QED
  BY <1>1, Invariance, PTL

\* The map of a node holds clients of the right camera, and a closed one only
\* while the delivery that closed it has yet to delete the entry.
THEOREM ClosedEntriesLeave == Spec \/ SpecUp => []ClosedEntryLeaves
<1>1. IInv => ClosedEntryLeaves
  BY DEF IInv
<1> QED
  BY <1>1, Invariance, PTL

\* The nil client of line 121 takes two Disconnects of the camera.
THEOREM NilClientTakesTwo == Spec \/ SpecUp => []NilClientNeedsTwoDisconnects
<1>1. IInv => NilClientNeedsTwoDisconnects
  BY DEF IInv
<1> QED
  BY <1>1, Invariance, PTL

-----------------------------------------------------------------------------
(* The relay counter, for finitely many calls.                             *)

Counted    == {i \in Call : pc[i] \in {"dialing", "open", "lost"} /\ cam[i] \in RelayCamera}
Discounted == {i \in Call : pc[i] = "failed" /\ cam[i] \notin RelayCamera}

\* The counter moves with the two sets of calls it accounts for.
LEMMA CounterStep ==
  ASSUME IsFiniteSet(Call)
  PROVE  TypeOK /\ EventsPublished /\ CounterAccounts /\ [Next]_vars => CounterAccounts'
<1> SUFFICES ASSUME TypeOK, EventsPublished, CounterAccounts, [Next]_vars
             PROVE  CounterAccounts'
  OBVIOUS
<1> USE DEF redisVars, nodeVars, connVars, discVars
<1>0. /\ IsFiniteSet(Counted) /\ IsFiniteSet(Discounted)
      /\ Cardinality(Counted) \in Nat /\ Cardinality(Discounted) \in Nat
      /\ counter = Cardinality(Counted) - Cardinality(Discounted)
  <2>1. Counted \subseteq Call /\ Discounted \subseteq Call
    BY DEF Counted, Discounted
  <2>2. IsFiniteSet(Counted) /\ IsFiniteSet(Discounted)
    BY <2>1, FS_Subset
  <2>3. counter = Cardinality(Counted) - Cardinality(Discounted)
    BY DEF CounterAccounts, Counted, Discounted
  <2> QED
    BY <2>2, <2>3, FS_CardinalityType
<1>1. SUFFICES counter' = Cardinality(Counted') - Cardinality(Discounted')
  BY DEF CounterAccounts, Counted, Discounted
<1>2. ASSUME Counted' = Counted, Discounted' = Discounted, counter' = counter
      PROVE  counter' = Cardinality(Counted') - Cardinality(Discounted')
  BY <1>0, <1>2
<1>3. ASSUME NEW i \in Call, i \notin Counted, Counted' = Counted \cup {i},
             Discounted' = Discounted, counter' = counter + 1
      PROVE  counter' = Cardinality(Counted') - Cardinality(Discounted')
  <2>1. Cardinality(Counted') = Cardinality(Counted) + 1
    BY <1>0, <1>3, FS_AddElement
  <2> QED
    BY <1>0, <1>3, <2>1
<1>4. ASSUME NEW i \in Counted, Counted' = Counted \ {i},
             Discounted' = Discounted, counter' = counter - 1
      PROVE  counter' = Cardinality(Counted') - Cardinality(Discounted')
  <2>1. Cardinality(Counted') = Cardinality(Counted) - 1
    BY <1>0, <1>4, FS_RemoveElement
  <2> QED
    BY <1>0, <1>4, <2>1
<1>5. ASSUME NEW i \in Call, i \notin Discounted, Discounted' = Discounted \cup {i},
             Counted' = Counted, counter' = counter - 1
      PROVE  counter' = Cardinality(Counted') - Cardinality(Discounted')
  <2>1. Cardinality(Discounted') = Cardinality(Discounted) + 1
    BY <1>0, <1>5, FS_AddElement
  <2> QED
    BY <1>0, <1>5, <2>1
<1> USE DEF Counted, Discounted
<1>6. ASSUME NEW i \in Call, NEW n \in Node, NEW c \in Camera, ConnectRTSPClient(i, n, c)
      PROVE  counter' = Cardinality(Counted') - Cardinality(Discounted')
  <2>1. /\ counter' = counter /\ pc[i] = "idle" /\ pc'[i] \in {"granted", "refused"}
        /\ \A x \in Call : x # i => pc'[x] = pc[x] /\ cam'[x] = cam[x]
    BY <1>6 DEF ConnectRTSPClient, TypeOK
  <2> QED
    BY <2>1, <1>2
<1>7. ASSUME NEW i \in Call, BeginDial(i)
      PROVE  counter' = Cardinality(Counted') - Cardinality(Discounted')
  <2>1. /\ pc[i] = "granted" /\ pc' = [pc EXCEPT ![i] = "dialing"] /\ cam' = cam
        /\ counter' = IF cam[i] \in RelayCamera THEN counter + 1 ELSE counter
    BY <1>7 DEF BeginDial
  <2>2. Discounted' = Discounted /\ i \notin Counted
    BY <2>1 DEF TypeOK
  <2>3. CASE cam[i] \in RelayCamera
    <3>1. Counted' = Counted \cup {i}
      BY <2>1, <2>3 DEF TypeOK
    <3> QED
      BY <2>1, <2>2, <2>3, <3>1, <1>3
  <2>4. CASE cam[i] \notin RelayCamera
    <3>1. Counted' = Counted
      BY <2>1, <2>4 DEF TypeOK
    <3> QED
      BY <2>1, <2>2, <2>4, <3>1, <1>2
  <2> QED
    BY <2>3, <2>4
<1>8. ASSUME NEW i \in Call, DialSucceeds(i)
      PROVE  counter' = Cardinality(Counted') - Cardinality(Discounted')
  <2>1. Counted' = Counted /\ Discounted' = Discounted /\ counter' = counter
    BY <1>8 DEF DialSucceeds, TypeOK
  <2> QED
    BY <2>1, <1>2
<1>9. ASSUME NEW i \in Call, DialFails(i)
      PROVE  counter' = Cardinality(Counted') - Cardinality(Discounted')
  <2>1. /\ pc[i] = "dialing" /\ pc' = [pc EXCEPT ![i] = "failed"] /\ cam' = cam
        /\ counter' = counter - 1
    BY <1>9 DEF DialFails
  <2>2. CASE cam[i] \in RelayCamera
    <3>1. i \in Counted /\ Counted' = Counted \ {i} /\ Discounted' = Discounted
      BY <2>1, <2>2 DEF TypeOK
    <3> QED
      BY <2>1, <3>1, <1>4
  <2>3. CASE cam[i] \notin RelayCamera
    <3>1. i \notin Discounted /\ Discounted' = Discounted \cup {i} /\ Counted' = Counted
      BY <2>1, <2>3 DEF TypeOK
    <3> QED
      BY <2>1, <3>1, <1>5
  <2> QED
    BY <2>2, <2>3
<1>10. ASSUME NEW n \in Node, NEW d \in Disc, InternalClose(n, d)
       PROVE  counter' = Cardinality(Counted') - Cardinality(Discounted')
  <2> DEFINE i == clients[n][dcam[d]]
  <2>1. deliv[n][d] = "found" /\ i # None /\ cam' = cam
    BY <1>10 DEF InternalClose
  <2>2. i \in Call
    <3>1. dcam[d] \in Camera
      BY <2>1 DEF EventsPublished
    <3> QED
      BY <2>1, <3>1 DEF TypeOK
  <2>3. CASE pc[i] # "open"
    BY <1>10, <2>3, <1>2 DEF InternalClose
  <2>4. CASE pc[i] = "open"
    <3>1. /\ pc' = [pc EXCEPT ![i] = "closed"]
          /\ counter' = IF cam[i] \in RelayCamera THEN counter - 1 ELSE counter
      BY <1>10, <2>4 DEF InternalClose
    <3> HIDE DEF i
    <3>2. CASE cam[i] \in RelayCamera
      <4>1. i \in Counted /\ Counted' = Counted \ {i} /\ Discounted' = Discounted
        BY <2>1, <2>2, <2>4, <3>1, <3>2 DEF TypeOK
      <4> QED
        BY <3>1, <3>2, <4>1, <1>4
    <3>3. CASE cam[i] \notin RelayCamera
      <4>1. Counted' = Counted /\ Discounted' = Discounted
        BY <2>1, <2>2, <2>4, <3>1, <3>3 DEF TypeOK
      <4> QED
        BY <3>1, <3>3, <4>1, <1>2
    <3> QED
      BY <3>2, <3>3
  <2> QED
    BY <2>3, <2>4
<1>11. ASSUME NEW n \in Node, ProcessEnds(n)
       PROVE  counter' = Cardinality(Counted') - Cardinality(Discounted')
  <2>1. /\ cam' = cam /\ counter' = counter
        /\ pc' = [i \in Call |->
                     IF host[i] # n THEN pc[i]
                     ELSE IF pc[i] = "granted" THEN "aborted"
                     ELSE IF pc[i] \in {"dialing", "open"} THEN "lost" ELSE pc[i]]
    BY <1>11 DEF ProcessEnds
  <2>2. Counted' = Counted /\ Discounted' = Discounted
    BY <2>1 DEF TypeOK
  <2> QED
    BY <2>1, <2>2, <1>2
<1>12. ASSUME UNCHANGED <<pc, cam, counter>>
       PROVE  counter' = Cardinality(Counted') - Cardinality(Discounted')
  BY <1>12, <1>2
<1> QED
  BY <1>6, <1>7, <1>8, <1>9, <1>10, <1>11, <1>12
     DEF Next, ConnStep, DelivStep, Crash, NilClientPanic, MapRaceFatal, AddToConnectionSet,
         DisconnectRTSPClient, PublishDisconnect, InternalGet, InternalDelete, StartScan,
         StartFlush, Subscribe, Register, KeepAlive, Expire, CleanerScan, CleanerExec, vars

\* The relay counter drifts from the relay clients in two ways only: it keeps
\* those that died with their node, and loses one for every failed Connect of
\* a camera without relay.
THEOREM CounterIsAccounted ==
  ASSUME IsFiniteSet(Call)
  PROVE  Spec \/ SpecUp => []CounterAccounts
<1>1. Init \/ InitUp => CounterAccounts
  <2> SUFFICES ASSUME Init \/ InitUp PROVE CounterAccounts
    OBVIOUS
  <2>1. Counted = {} /\ Discounted = {} /\ counter = 0
    BY DEF Init, InitUp, Counted, Discounted
  <2>2. Cardinality({}) = 0
    BY FS_EmptySet
  <2>3. counter = Cardinality(Counted) - Cardinality(Discounted)
    BY <2>1, <2>2
  <2> QED
    BY <2>3 DEF CounterAccounts, Counted, Discounted
<1>2. IInv /\ CounterAccounts /\ [Next]_vars => CounterAccounts'
  BY CounterStep DEF IInv
<1> QED
  BY <1>1, <1>2, Invariance, PTL DEF Spec, SpecUp
-----------------------------------------------------------------------------
(* The keys are leases.                                                    *)

\* A call is revoked only once it has begun.
RevokedBegan == \A i \in revoked : pc[i] # "idle"

\* What CameraLease sees of a state.
Keyed  == [c \in Camera |-> lock[IdKey(c)]]
Held   == {Holder(i) : i \in {j \in Call \ revoked : Active(j)}}
Astray == {Holder(i) : i \in {j \in revoked : Active(j)}}

\* Deleting keys is a revocation of the cameras whose keys they are.
LEMMA DeletionIsRevocation ==
  ASSUME TypeOK, CallsKnown, NEW ks,
         lock' = DelLocks(ks), revoked' = revoked \cup Losing(ks), UNCHANGED <<pc, host, cam>>
  PROVE  Lease!Next /\ (RevokedBegan => RevokedBegan')
<1> DEFINE cs == {c \in Camera : IdKey(c) \in ks}
<1>1. Keyed' = [c \in Camera |-> IF c \in cs THEN None ELSE Keyed[c]]
  <2>1. \A c \in Camera : lock'[IdKey(c)] = IF IdKey(c) \in ks THEN None ELSE lock[IdKey(c)]
    BY Keys DEF DelLocks
  <2> QED
    BY <2>1 DEF Keyed
<1>2. \A i \in Call : /\ Active(i)' <=> Active(i)
                      /\ Holder(i)' = Holder(i)
                      /\ Active(i) => (i \in Losing(ks) <=> cam[i] \in cs)
  BY DEF Active, Holder, Losing, CallsKnown
<1>3. revoked \subseteq Call /\ Losing(ks) \subseteq {i \in Call : Active(i)}
  BY DEF TypeOK, Losing
<1>4. \A i \in Call : Holder(i)[3] = cam[i]
  BY DEF Holder
<1> DEFINE lost == {x \in Held : x[3] \in cs}
           kept == {x \in Held : x[3] \notin cs}
<1> HIDE DEF cs
<1>5. Held' = kept
  <2>1. ASSUME NEW i \in Call \ revoked', Active(i)' PROVE Holder(i)' \in kept
    BY <1>2, <1>3, <1>4, <2>1 DEF Held
  <2>2. ASSUME NEW i \in Call \ revoked, Active(i), Holder(i)[3] \notin cs
        PROVE  Holder(i) \in Held'
    <3>1. i \in Call \ revoked' /\ Active(i)' /\ Holder(i)' = Holder(i)
      BY <1>2, <1>4, <2>2
    <3> QED
      BY <3>1 DEF Held
  <2> QED
    BY <2>1, <2>2 DEF Held
<1>6. Astray' = Astray \cup lost
  <2>1. ASSUME NEW i \in revoked', Active(i)' PROVE Holder(i)' \in Astray \cup lost
    <3>1. i \in Call /\ Active(i) /\ Holder(i)' = Holder(i)
      BY <1>2, <1>3, <2>1
    <3>2. CASE i \in revoked
      BY <3>1, <3>2 DEF Astray
    <3>3. CASE i \notin revoked
      BY <1>2, <1>4, <3>1, <3>3 DEF Held
    <3> QED
      BY <3>2, <3>3
  <2>2. ASSUME NEW i \in revoked, Active(i) PROVE Holder(i) \in Astray'
    BY <1>2, <1>3, <2>2 DEF Astray
  <2>3. ASSUME NEW i \in Call \ revoked, Active(i), Holder(i)[3] \in cs
        PROVE  Holder(i) \in Astray'
    BY <1>2, <1>4, <2>3 DEF Astray
  <2> QED
    BY <2>1, <2>2, <2>3 DEF Astray, Held
<1>7. Lease!Revoke(cs)
  BY <1>1, <1>5, <1>6 DEF Lease!Revoke, Keyed, Held, Astray
<1>8. cs \in SUBSET Camera
  BY DEF cs
<1>9. RevokedBegan => RevokedBegan'
  BY <1>3 DEF RevokedBegan, Active
<1> QED
  BY <1>7, <1>8, <1>9 DEF Lease!Next

\* A step that frees and takes no key lets calls end at most.
LEMMA EndingIsEnd ==
  ASSUME TypeOK, UNCHANGED revoked, \A c \in Camera : lock'[IdKey(c)] = lock[IdKey(c)],
         \A i \in Call : Active(i)' => Active(i) /\ host'[i] = host[i] /\ cam'[i] = cam[i]
  PROVE  Lease!Next
<1>1. Keyed' = Keyed
  BY DEF Keyed
<1>2. revoked \subseteq Call
  BY DEF TypeOK
<1>3. \A i \in Call : Active(i)' => Active(i) /\ Holder(i)' = Holder(i)
  BY DEF Holder
<1>4. Held' \subseteq Held /\ Astray' \subseteq Astray
  BY <1>2, <1>3 DEF Held, Astray
<1> QED
  BY <1>1, <1>4 DEF Lease!Next, Lease!End, Keyed, Held, Astray

\* A Connect call that is granted takes a free key; a refused one takes none.
LEMMA ConnectIsTake ==
  ASSUME IInv, RevokedBegan, NEW i \in Call, NEW n \in Node, NEW c \in Camera,
         ConnectRTSPClient(i, n, c)
  PROVE  Lease!Next /\ RevokedBegan'
<1>1. /\ host' = [host EXCEPT ![i] = n] /\ cam' = [cam EXCEPT ![i] = c]
      /\ UNCHANGED revoked /\ pc[i] = "idle"
  BY DEF ConnectRTSPClient
<1>2. TypeOK /\ i \notin revoked /\ ~Active(i) /\ revoked \subseteq Call
  BY <1>1 DEF IInv, TypeOK, RevokedBegan, Active
<1>3. CASE lock[IdKey(c)] # None
  <2>1. lock' = lock /\ pc' = [pc EXCEPT ![i] = "refused"]
    BY <1>3 DEF ConnectRTSPClient
  <2>2. \A j \in Call : Active(j)' => Active(j) /\ host'[j] = host[j] /\ cam'[j] = cam[j]
    BY <1>1, <1>2, <2>1 DEF Active, TypeOK
  <2>3. RevokedBegan'
    BY <1>1, <1>2, <2>1 DEF RevokedBegan, TypeOK
  <2> QED
    BY <1>1, <1>2, <2>1, <2>2, <2>3, EndingIsEnd
<1>4. CASE lock[IdKey(c)] = None
  <2>1. lock' = [lock EXCEPT ![IdKey(c)] = n] /\ pc' = [pc EXCEPT ![i] = "granted"]
    BY <1>4 DEF ConnectRTSPClient
  <2>2. \A j \in Call : j # i => /\ Active(j)' <=> Active(j)
                                 /\ Holder(j)' = Holder(j)
    BY <1>1, <1>2, <2>1 DEF Active, Holder, TypeOK
  <2>3. Active(i)' /\ Holder(i)' = <<i, n, c>>
    BY <1>1, <1>2, <2>1 DEF Active, Holder, TypeOK
  <2>4. Keyed[c] = None /\ Keyed' = [Keyed EXCEPT ![c] = n]
    <3>1. IdKey(c) \in LockKey /\ \A d \in Camera : IdKey(d) \in LockKey
      BY Keys
    <3>2. \A d \in Camera : lock'[IdKey(d)] = IF d = c THEN n ELSE lock[IdKey(d)]
      BY <1>2, <2>1, <3>1, Keys DEF TypeOK
    <3> QED
      BY <1>4, <3>2 DEF Keyed
  <2>5. Held' = Held \cup {<<i, n, c>>}
    BY <1>1, <1>2, <2>2, <2>3 DEF Held
  <2>6. Astray' = Astray
    BY <1>1, <1>2, <2>2 DEF Astray
  <2>7. \A x \in Held \cup Astray : x[1] # i
    <3>1. \A j \in Call : Holder(j)[1] = j
      BY DEF Holder
    <3> QED
      BY <1>2, <3>1 DEF Held, Astray
  <2>8. Lease!Take(i, n, c)
    BY <2>4, <2>5, <2>6, <2>7 DEF Lease!Take, Keyed, Held, Astray
  <2>9. RevokedBegan'
    BY <1>1, <1>2, <2>1 DEF RevokedBegan, TypeOK
  <2> QED
    BY <2>8, <2>9 DEF Lease!Next
<1> QED
  BY <1>3, <1>4

\* Every step of the cluster takes a lease, revokes some, or lets calls end.
LEMMA StepLeases == IInv /\ RevokedBegan /\ [Next]_vars => Lease!Next /\ RevokedBegan'
<1> SUFFICES ASSUME IInv, RevokedBegan, [Next]_vars PROVE Lease!Next /\ RevokedBegan'
  OBVIOUS
<1> USE DEF redisVars, nodeVars, connVars, discVars
<1>0. TypeOK /\ CallsKnown /\ revoked \subseteq Call
  BY DEF IInv, TypeOK
<1>1. ASSUME NEW i \in Call, NEW n \in Node, NEW c \in Camera, ConnectRTSPClient(i, n, c)
      PROVE  Lease!Next /\ RevokedBegan'
  BY <1>1, ConnectIsTake
<1>2. ASSUME UNCHANGED <<host, cam, revoked>>,
             \A c \in Camera : lock'[IdKey(c)] = lock[IdKey(c)],
             \A i \in Call : /\ Active(i)' => Active(i)
                             /\ pc'[i] = "idle" => pc[i] = "idle"
      PROVE  Lease!Next /\ RevokedBegan'
  <2>1. \A i \in Call : Active(i)' => Active(i) /\ host'[i] = host[i] /\ cam'[i] = cam[i]
    BY <1>2
  <2>2. RevokedBegan'
    BY <1>0, <1>2 DEF RevokedBegan
  <2> QED
    BY <1>0, <1>2, <2>1, <2>2, EndingIsEnd
<1>3. ASSUME NEW i \in Call, ConnStep(i) PROVE Lease!Next /\ RevokedBegan'
  <2>1. /\ UNCHANGED <<host, cam, revoked>>
        /\ lock' = lock \/ lock' = DelLocks({AddrKey(cam[i])})
        /\ \A j \in Call : /\ Active(j)' => Active(j)
                           /\ pc'[j] = "idle" => pc[j] = "idle"
    BY <1>0, <1>3 DEF ConnStep, BeginDial, DialSucceeds, DialFails, Active, TypeOK
  <2>2. \A c \in Camera : lock'[IdKey(c)] = lock[IdKey(c)]
    BY <2>1, Keys DEF DelLocks
  <2> QED
    BY <1>2, <2>1, <2>2
<1>4. ASSUME NEW ks, lock' = DelLocks(ks), revoked' = revoked \cup Losing(ks),
             UNCHANGED <<pc, host, cam>>
      PROVE  Lease!Next /\ RevokedBegan'
  BY <1>0, <1>4, DeletionIsRevocation
<1>5. ASSUME NEW n \in Node, NEW d \in Disc, InternalClose(n, d)
      PROVE  Lease!Next /\ RevokedBegan'
  <2>1. \A j \in Call : pc'[j] # pc[j] => pc'[j] = "closed"
    BY <1>0, <1>5 DEF InternalClose, TypeOK
  <2>2. UNCHANGED <<lock, host, cam, revoked>>
    BY <1>5 DEF InternalClose
  <2>3. \A j \in Call : /\ Active(j)' => Active(j)
                        /\ pc'[j] = "idle" => pc[j] = "idle"
    BY <2>1 DEF Active
  <2> QED
    BY <1>2, <2>2, <2>3
<1>6. ASSUME NEW n \in Node, ProcessEnds(n) PROVE Lease!Next /\ RevokedBegan'
  <2>1. \A j \in Call : pc'[j] = pc[j] \/ pc'[j] \in {"aborted", "lost"}
    BY <1>6 DEF ProcessEnds
  <2>2. UNCHANGED <<lock, host, cam, revoked>>
    BY <1>6 DEF ProcessEnds
  <2>3. \A j \in Call : /\ Active(j)' => Active(j)
                        /\ pc'[j] = "idle" => pc[j] = "idle"
    BY <2>1 DEF Active
  <2> QED
    BY <1>2, <2>2, <2>3
<1>7. ASSUME UNCHANGED <<lock, connVars, revoked>> PROVE Lease!Next /\ RevokedBegan'
  <2>1. \A j \in Call : /\ Active(j)' => Active(j)
                        /\ pc'[j] = "idle" => pc[j] = "idle"
    BY <1>7 DEF Active
  <2> QED
    BY <1>2, <1>7, <2>1
<1>8. ASSUME NEW d \in Disc, NEW n \in Node, NEW c \in Camera, DisconnectRTSPClient(d, n, c)
      PROVE  Lease!Next /\ RevokedBegan'
  BY <1>4, <1>8 DEF DisconnectRTSPClient
<1>9. ASSUME NEW n \in Node, StartFlush(n) PROVE Lease!Next /\ RevokedBegan'
  BY <1>4, <1>9 DEF StartFlush
<1>10. ASSUME NEW m \in Node, CleanerExec(m) PROVE Lease!Next /\ RevokedBegan'
  BY <1>4, <1>10 DEF CleanerExec
<1> QED
  BY <1>1, <1>3, <1>5, <1>6, <1>7, <1>8, <1>9, <1>10
     DEF Next, DelivStep, Crash, NilClientPanic, MapRaceFatal, AddToConnectionSet,
         PublishDisconnect, InternalGet, InternalDelete, StartScan, Subscribe, Register, KeepAlive,
         Expire, CleanerScan, vars

\* The connection service implements CameraLease: whatever the nodes, calls,
\* Disconnects, crashes and cleaners, a camera's key is taken only while it is
\* free, freed only by a revocation, and left alone by a call that ends.
THEOREM RefinesLease == Spec \/ SpecUp => ImplementsLease
<1>1. Init \/ InitUp => Lease!Init /\ RevokedBegan
  <2> SUFFICES ASSUME Init \/ InitUp PROVE Lease!Init /\ RevokedBegan
    OBVIOUS
  <2>1. lock = [k \in LockKey |-> None] /\ revoked = {} /\ \A i \in Call : ~Active(i)
    BY DEF Init, InitUp, Active
  <2>2. Keyed = [c \in Camera |-> None] /\ Held = {} /\ Astray = {}
    BY <2>1, Keys DEF Keyed, Held, Astray
  <2> QED
    BY <2>1, <2>2 DEF Lease!Init, Keyed, Held, Astray, RevokedBegan
<1>2. IInv /\ RevokedBegan /\ [Next]_vars => [Lease!Next]_(Lease!leaseVars) /\ RevokedBegan'
  BY StepLeases
<1> QED
  BY <1>1, <1>2, Invariance, PTL DEF Spec, SpecUp, ImplementsLease, Lease!Spec
=============================================================================

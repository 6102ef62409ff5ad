--------------------------- MODULE RtspConnection ---------------------------
(***************************************************************************)
(* The controller cluster: several controller nodes share one Redis, and a *)
(* camera is streamed by the node whose ConnectRTSPClient call took the    *)
(* camera's connection lock.  A Disconnect deletes the lock and publishes  *)
(* an event that every node handles in a goroutine of its own.  A node may *)
(* crash and restart (it then flushes the locks listed in its own          *)
(* connection set), and every node runs a cleaner that removes the locks   *)
(* of nodes whose keep-alive key is gone.                                  *)
(*                                                                         *)
(* A member of Call is one Connect RPC and the Client object it creates; a *)
(* member of Disc is one Disconnect RPC.  Each is used once: the two sets  *)
(* bound the number of calls.  MaxCrash bounds the external crashes.       *)
(***************************************************************************)
EXTENDS Integers, FiniteSets

CONSTANTS Node,         \* controller node IDs
          Camera,       \* client IDs
          RelayCamera,  \* the cameras connected with enableRTSPRelay
          Call,         \* Connect RPCs, and their Client objects
          Disc,         \* Disconnect RPCs
          None,         \* no node, camera or client (an absent key)
          Cleaners,     \* the nodes whose cleaner runs (a bound: in the code, every node's)
          MaxCrash      \* bound on crashes that no step of the code causes

ASSUME ConnAssumption ==
  /\ RelayCamera \subseteq Camera /\ Cleaners \subseteq Node
  /\ None \notin Node /\ None \notin Camera /\ None \notin Call
  /\ MaxCrash \in Nat

VARIABLES
  \* Redis
  lock,        \* [LockKey -> Node or None]: rtsp connection keys and their value
  connSet,     \* [Node -> set of keys]: the node's rtsp connection set
  registered,  \* the service connection set (controller nodes only)
  alive,       \* nodes whose keep-alive key has not expired
  counter,     \* the rtsp relay domain counter
  \* node processes
  phase,       \* [Node -> Phases]
  flushing,    \* [Node -> set of keys]: what a starting node read before its Exec
  subscribed,  \* nodes subscribed to the event channel
  saddQ,       \* pending SAdd goroutines, pairs <<node, key>>
  batch,       \* [Node -> pipeline of the node's cleaner]
  clients,     \* [Node -> [Camera -> Call or None]]: RTSPClientService.clients
  crashes,     \* external crashes so far
  \* RPCs
  pc, host, cam,         \* Connect RPCs: progress, node, camera
  dpc, dhost, dcam,      \* Disconnect RPCs: progress, node, camera
  deliv,       \* [Node -> [Disc -> DelivStates]]: the event's goroutine at each node
  revoked      \* history: calls whose lock was deleted while they were active

redisVars == <<lock, connSet, registered, alive, counter>>
nodeVars  == <<phase, flushing, subscribed, saddQ, batch, clients, crashes>>
connVars  == <<pc, host, cam>>
discVars  == <<dpc, dhost, dcam, deliv>>
vars == <<lock, connSet, registered, alive, counter,
          phase, flushing, subscribed, saddQ, batch, clients, crashes,
          pc, host, cam, dpc, dhost, dcam, deliv, revoked>>

-----------------------------------------------------------------------------
(* A connection key is built from a client ID, or - by the failure path -  *)
(* from an RTSP address.                                                   *)
IdKey(c)   == <<"id", c>>
AddrKey(c) == <<"addr", c>>
LockKey    == {"id", "addr"} \X Camera

Phases     == {"down", "starting", "up"}
CallStates == {"idle", "refused", "granted", "dialing", "open", "failed",
               "closed", "aborted", "lost"}
DelivStates == {"none", "sent", "found", "closed", "done"}

Active(i) == pc[i] \in {"granted", "dialing", "open"}

\* The service's RWMutex is write-locked for the whole of client.Connect().
MuFree(n) == \A i \in Call : ~(pc[i] = "dialing" /\ host[i] = n)

EmptyBatch == [keys |-> {}, nodes |-> {}]

\* Deleting lock keys, and the calls that lose their lock by it.
DelLocks(ks) == [k \in LockKey |-> IF k \in ks THEN None ELSE lock[k]]
Losing(ks)   == {i \in Call : Active(i) /\ IdKey(cam[i]) \in ks}

TypeOK ==
  /\ lock \in [LockKey -> Node \cup {None}]
  /\ connSet \in [Node -> SUBSET LockKey]
  /\ registered \subseteq Node /\ alive \subseteq Node /\ subscribed \subseteq Node
  /\ counter \in Int /\ crashes \in Nat
  /\ phase \in [Node -> Phases]
  /\ flushing \in [Node -> SUBSET LockKey]
  /\ saddQ \subseteq Node \X LockKey
  /\ batch \in [Node -> [keys : SUBSET LockKey, nodes : SUBSET Node]]
  /\ clients \in [Node -> [Camera -> Call \cup {None}]]
  /\ pc \in [Call -> CallStates]
  /\ host \in [Call -> Node \cup {None}] /\ cam \in [Call -> Camera \cup {None}]
  /\ dpc \in [Disc -> {"idle", "deleted", "published", "aborted"}]
  /\ dhost \in [Disc -> Node \cup {None}] /\ dcam \in [Disc -> Camera \cup {None}]
  /\ deliv \in [Node -> [Disc -> DelivStates]]
  /\ revoked \subseteq Call

Init ==
  /\ lock = [k \in LockKey |-> None]
  /\ connSet = [n \in Node |-> {}]
  /\ registered = {} /\ alive = {} /\ subscribed = {}
  /\ counter = 0 /\ crashes = 0
  /\ phase = [n \in Node |-> "down"]
  /\ flushing = [n \in Node |-> {}]
  /\ saddQ = {}
  /\ batch = [n \in Node |-> EmptyBatch]
  /\ clients = [n \in Node |-> [c \in Camera |-> None]]
  /\ pc = [i \in Call |-> "idle"]
  /\ host = [i \in Call |-> None] /\ cam = [i \in Call |-> None]
  /\ dpc = [d \in Disc |-> "idle"]
  /\ dhost = [d \in Disc |-> None] /\ dcam = [d \in Disc |-> None]
  /\ deliv = [n \in Node |-> [d \in Disc |-> "none"]]
  /\ revoked = {}

\* The cluster at rest: every node has started, subscribed and ticked once.
InitUp ==
  /\ lock = [k \in LockKey |-> None]
  /\ connSet = [n \in Node |-> {}]
  /\ registered = Node /\ alive = Node /\ subscribed = Node
  /\ counter = 0 /\ crashes = 0
  /\ phase = [n \in Node |-> "up"]
  /\ flushing = [n \in Node |-> {}]
  /\ saddQ = {}
  /\ batch = [n \in Node |-> EmptyBatch]
  /\ clients = [n \in Node |-> [c \in Camera |-> None]]
  /\ pc = [i \in Call |-> "idle"]
  /\ host = [i \in Call |-> None] /\ cam = [i \in Call |-> None]
  /\ dpc = [d \in Disc |-> "idle"]
  /\ dhost = [d \in Disc |-> None] /\ dcam = [d \in Disc |-> None]
  /\ deliv = [n \in Node |-> [d \in Disc |-> "none"]]
  /\ revoked = {}

-----------------------------------------------------------------------------
(* ConnectRTSPClient.                                                      *)

\* Mutant: Set instead of SetNX: the key is taken from whoever holds it.
ConnectTakesLock(i, n, c) ==
  /\ pc[i] = "idle" /\ phase[n] = "up"
  /\ host' = [host EXCEPT ![i] = n]
  /\ cam' = [cam EXCEPT ![i] = c]
  /\ lock' = [lock EXCEPT ![IdKey(c)] = n]
  /\ saddQ' = saddQ \cup {<<n, IdKey(c)>>}
  /\ pc' = [pc EXCEPT ![i] = "granted"]
  /\ UNCHANGED <<connSet, registered, alive, counter, phase, flushing, subscribed,
                 batch, clients, crashes, discVars, revoked>>

\* Line 55, SetRTSPConnection: SetNX on the client ID's key.  A taken key ends
\* the call with "Client is connected on another controller node"; otherwise a
\* goroutine will add the key to the node's connection set.
ConnectRTSPClient(i, n, c) ==
  /\ pc[i] = "idle" /\ phase[n] = "up"
  /\ host' = [host EXCEPT ![i] = n]
  /\ cam' = [cam EXCEPT ![i] = c]
  /\ \/ /\ lock[IdKey(c)] = None
        /\ lock' = [lock EXCEPT ![IdKey(c)] = n]
        /\ saddQ' = saddQ \cup {<<n, IdKey(c)>>}
        /\ pc' = [pc EXCEPT ![i] = "granted"]
     \/ /\ lock[IdKey(c)] # None
        /\ pc' = [pc EXCEPT ![i] = "refused"]
        /\ UNCHANGED <<lock, saddQ>>
  /\ UNCHANGED <<connSet, registered, alive, counter, phase, flushing, subscribed,
                 batch, clients, crashes, discVars, revoked>>

\* The goroutine of SetRTSPConnection.
AddToConnectionSet(n, k) ==
  /\ <<n, k>> \in saddQ
  /\ saddQ' = saddQ \ {<<n, k>>}
  /\ connSet' = [connSet EXCEPT ![n] = @ \cup {k}]
  /\ UNCHANGED <<lock, registered, alive, counter, phase, flushing, subscribed,
                 batch, clients, crashes, connVars, discVars, revoked>>

\* Mutant: a call waits until the map holds no client of its camera.
BeginDialWaits(i) ==
  /\ pc[i] = "granted" /\ MuFree(host[i]) /\ clients[host[i]][cam[i]] = None
  /\ pc' = [pc EXCEPT ![i] = "dialing"]
  /\ counter' = IF cam[i] \in RelayCamera THEN counter + 1 ELSE counter
  /\ UNCHANGED <<lock, connSet, registered, alive, nodeVars, host, cam, discVars, revoked>>

\* Lines 59-71: r.Lock(), the relay counter, and client.Connect() begins.
BeginDial(i) ==
  /\ pc[i] = "granted" /\ MuFree(host[i])
  /\ pc' = [pc EXCEPT ![i] = "dialing"]
  /\ counter' = IF cam[i] \in RelayCamera THEN counter + 1 ELSE counter
  /\ UNCHANGED <<lock, connSet, registered, alive, nodeVars, host, cam, discVars, revoked>>

\* Lines 79-89: Connect succeeded; the close handler is set, the client is
\* stored over whatever the map held for this camera, and r is unlocked.
DialSucceeds(i) ==
  /\ pc[i] = "dialing"
  /\ pc' = [pc EXCEPT ![i] = "open"]
  /\ clients' = [clients EXCEPT ![host[i]][cam[i]] = i]
  /\ UNCHANGED <<redisVars, phase, flushing, subscribed, saddQ, batch, crashes,
                 host, cam, discVars, revoked>>

\* Mutant: a failed call deletes its camera's key, whoever holds it by now.
DialFailsUnlocks(i) ==
  /\ pc[i] = "dialing"
  /\ pc' = [pc EXCEPT ![i] = "failed"]
  /\ counter' = counter - 1
  /\ lock' = DelLocks({IdKey(cam[i])})
  /\ UNCHANGED <<connSet, registered, alive, nodeVars, host, cam, discVars, revoked>>

\* Lines 71-77: Connect failed.  The counter goes down whether or not it went
\* up, and the key deleted is the one built from the camera's address.
DialFails(i) ==
  /\ pc[i] = "dialing"
  /\ pc' = [pc EXCEPT ![i] = "failed"]
  /\ counter' = counter - 1
  /\ lock' = DelLocks({AddrKey(cam[i])})
  /\ UNCHANGED <<connSet, registered, alive, nodeVars, host, cam, discVars, revoked>>

-----------------------------------------------------------------------------
(* DisconnectRTSPClient and the event it publishes.                        *)

\* Line 103: the lock is deleted first.
DisconnectRTSPClient(d, n, c) ==
  /\ dpc[d] = "idle" /\ phase[n] = "up"
  /\ dpc' = [dpc EXCEPT ![d] = "deleted"]
  /\ dhost' = [dhost EXCEPT ![d] = n]
  /\ dcam' = [dcam EXCEPT ![d] = c]
  /\ lock' = DelLocks({IdKey(c)})
  /\ revoked' = revoked \cup Losing({IdKey(c)})
  /\ UNCHANGED <<connSet, registered, alive, counter, nodeVars, connVars, deliv>>

\* Line 113: then the event is published to the nodes subscribed at that moment.
PublishDisconnect(d) ==
  /\ dpc[d] = "deleted"
  /\ dpc' = [dpc EXCEPT ![d] = "published"]
  /\ deliv' = [n \in Node |-> [deliv[n] EXCEPT ![d] =
                                 IF n \in subscribed THEN "sent" ELSE @]]
  /\ UNCHANGED <<redisVars, nodeVars, connVars, dhost, dcam, revoked>>

\* Mutants: the lookup finds nothing, or reports a client it did not find.
GetMisses(n, d) ==
  /\ deliv[n][d] = "sent" /\ MuFree(n)
  /\ deliv' = [deliv EXCEPT ![n][d] = "done"]
  /\ UNCHANGED <<redisVars, nodeVars, connVars, dpc, dhost, dcam, revoked>>

GetIgnoresError(n, d) ==
  /\ deliv[n][d] = "sent" /\ MuFree(n)
  /\ deliv' = [deliv EXCEPT ![n][d] = "found"]
  /\ UNCHANGED <<redisVars, nodeVars, connVars, dpc, dhost, dcam, revoked>>

\* InternalDisconnectRTSPClient, lines 118-120: the lookup under RLock.
InternalGet(n, d) ==
  /\ deliv[n][d] = "sent" /\ MuFree(n)
  /\ deliv' = [deliv EXCEPT ![n][d] =
                 IF clients[n][dcam[d]] = None THEN "done" ELSE "found"]
  /\ UNCHANGED <<redisVars, nodeVars, connVars, dpc, dhost, dcam, revoked>>

\* Mutant: the close handler takes the counter down for every camera.
CloseAlwaysDecrements(n, d) ==
  /\ deliv[n][d] = "found"
  /\ clients[n][dcam[d]] # None /\ pc[clients[n][dcam[d]]] = "open"
  /\ pc' = [pc EXCEPT ![clients[n][dcam[d]]] = "closed"]
  /\ connSet' = [connSet EXCEPT ![n] = {}]
  /\ counter' = counter - 1
  /\ deliv' = [deliv EXCEPT ![n][d] = "closed"]
  /\ UNCHANGED <<lock, registered, alive, nodeVars, host, cam, dpc, dhost, dcam, revoked>>

\* Line 121: the map is read again, without the lock, and the client closed.
\* Close() runs the close handler of an open client only: it deletes the whole
\* connection set of the node and takes the relay counter down.
InternalClose(n, d) ==
  /\ deliv[n][d] = "found"
  /\ clients[n][dcam[d]] # None
  /\ LET i == clients[n][dcam[d]] IN
       IF pc[i] = "open"
         THEN /\ pc' = [pc EXCEPT ![i] = "closed"]
              /\ connSet' = [connSet EXCEPT ![n] = {}]
              /\ counter' = IF cam[i] \in RelayCamera THEN counter - 1 ELSE counter
         ELSE UNCHANGED <<pc, connSet, counter>>
  /\ deliv' = [deliv EXCEPT ![n][d] = "closed"]
  /\ UNCHANGED <<lock, registered, alive, nodeVars, host, cam, dpc, dhost, dcam, revoked>>

\* Mutant: the map entry stays.
DeleteForgotten(n, d) ==
  /\ deliv[n][d] = "closed" /\ MuFree(n)
  /\ deliv' = [deliv EXCEPT ![n][d] = "done"]
  /\ UNCHANGED <<redisVars, nodeVars, connVars, dpc, dhost, dcam, revoked>>

\* Lines 123-125: the map entry is deleted, whichever client it holds by now.
InternalDelete(n, d) ==
  /\ deliv[n][d] = "closed" /\ MuFree(n)
  /\ deliv' = [deliv EXCEPT ![n][d] = "done"]
  /\ clients' = [clients EXCEPT ![n][dcam[d]] = None]
  /\ UNCHANGED <<redisVars, phase, flushing, subscribed, saddQ, batch, crashes,
                 connVars, dpc, dhost, dcam, revoked>>

-----------------------------------------------------------------------------
(* Node life cycle.                                                        *)

\* The process ends: its goroutines, clients, pending deliveries are gone;
\* what it wrote to Redis stays.
ProcessEnds(n) ==
  /\ phase' = [phase EXCEPT ![n] = "down"]
  /\ flushing' = [flushing EXCEPT ![n] = {}]
  /\ subscribed' = subscribed \ {n}
  /\ saddQ' = {x \in saddQ : x[1] # n}
  /\ batch' = [batch EXCEPT ![n] = EmptyBatch]
  /\ clients' = [clients EXCEPT ![n] = [c \in Camera |-> None]]
  /\ pc' = [i \in Call |->
              IF host[i] # n THEN pc[i]
              ELSE IF pc[i] = "granted" THEN "aborted"
              ELSE IF pc[i] \in {"dialing", "open"} THEN "lost" ELSE pc[i]]
  /\ dpc' = [d \in Disc |-> IF dhost[d] = n /\ dpc[d] = "deleted" THEN "aborted" ELSE dpc[d]]
  /\ deliv' = [deliv EXCEPT ![n] = [d \in Disc |-> "none"]]
  /\ UNCHANGED <<redisVars, host, cam, dhost, dcam, revoked>>

Crash(n) ==
  /\ phase[n] # "down" /\ crashes < MaxCrash
  /\ crashes' = crashes + 1
  /\ ProcessEnds(n)

\* Line 121 finds no client any more: Close() on a nil *Client panics, and a
\* panic in a goroutine ends the process.
NilClientPanic(n, d) ==
  /\ deliv[n][d] = "found"
  /\ clients[n][dcam[d]] = None
  /\ ProcessEnds(n)
  /\ UNCHANGED crashes

\* Line 121 reads the map without the lock while line 87 of a dialing call or
\* line 124 of another delivery writes it: the runtime may end the process
\* with "concurrent map read and map write".
MapRaceFatal(n, d) ==
  /\ deliv[n][d] = "found"
  /\ ~MuFree(n) \/ \E e \in Disc : deliv[n][e] = "closed"
  /\ ProcessEnds(n)
  /\ UNCHANGED crashes

\* NewHandler, lines 64-65: a starting node reads its connection set ...
StartScan(n) ==
  /\ phase[n] = "down"
  /\ phase' = [phase EXCEPT ![n] = "starting"]
  /\ flushing' = [flushing EXCEPT ![n] = connSet[n]]
  /\ UNCHANGED <<redisVars, subscribed, saddQ, batch, clients, crashes,
                 connVars, discVars, revoked>>

\* ... lines 67-72: deletes every key in it and the set, whoever holds the keys
\* by now.
StartFlush(n) ==
  /\ phase[n] = "starting"
  /\ phase' = [phase EXCEPT ![n] = "up"]
  /\ lock' = DelLocks(flushing[n])
  /\ revoked' = revoked \cup Losing(flushing[n])
  /\ connSet' = [connSet EXCEPT ![n] = {}]
  /\ flushing' = [flushing EXCEPT ![n] = {}]
  /\ UNCHANGED <<registered, alive, counter, subscribed, saddQ, batch, clients, crashes,
                 connVars, discVars>>

\* KeepAlive adds the node to the service connection set, at once and at every
\* tick (a cleaner may have removed a node that lives), ...
Register(n) ==
  /\ phase[n] = "up" /\ n \notin registered
  /\ registered' = registered \cup {n}
  /\ UNCHANGED <<lock, connSet, alive, counter, nodeVars, connVars, discVars, revoked>>

\* ... and at every tick, so not before one period has passed, sets its key.
KeepAlive(n) ==
  /\ phase[n] = "up" /\ n \in registered
  /\ alive' = alive \cup {n}
  /\ UNCHANGED <<lock, connSet, registered, counter, nodeVars, connVars, discVars, revoked>>

\* Lines 100-103: the subscription is made in a goroutine.
Subscribe(n) ==
  /\ phase[n] = "up" /\ n \notin subscribed
  /\ subscribed' = subscribed \cup {n}
  /\ UNCHANGED <<redisVars, phase, flushing, saddQ, batch, clients, crashes,
                 connVars, discVars, revoked>>

\* The key lives three ticker periods: it expires under a node that is not up.
Expire(n) ==
  /\ n \in alive /\ phase[n] # "up"
  /\ alive' = alive \ {n}
  /\ UNCHANGED <<lock, connSet, registered, counter, nodeVars, connVars, discVars, revoked>>

\* StartCleaner, lines 50-86: node m's cleaner takes n for dead and queues the
\* deletion of those keys of n's connection set whose value is n ...
CleanerScan(m, n) ==
  /\ m \in Cleaners /\ phase[m] = "up"
  /\ n \in registered \ alive /\ n \notin batch[m].nodes
  /\ batch' = [batch EXCEPT ![m] =
                 [keys  |-> @.keys \cup {k \in connSet[n] : lock[k] = n},
                  nodes |-> @.nodes \cup {n}]]
  /\ UNCHANGED <<redisVars, phase, flushing, subscribed, saddQ, clients, crashes,
                 connVars, discVars, revoked>>

\* ... line 87: the pipeline deletes the keys, the sets and the members.
CleanerExec(m) ==
  /\ batch[m].nodes # {}
  /\ lock' = DelLocks(batch[m].keys)
  /\ revoked' = revoked \cup Losing(batch[m].keys)
  /\ connSet' = [n \in Node |-> IF n \in batch[m].nodes THEN {} ELSE connSet[n]]
  /\ registered' = registered \ batch[m].nodes
  /\ batch' = [batch EXCEPT ![m] = EmptyBatch]
  /\ UNCHANGED <<alive, counter, phase, flushing, subscribed, saddQ, clients, crashes,
                 connVars, discVars>>

-----------------------------------------------------------------------------
ConnStep(i)   == BeginDial(i) \/ DialSucceeds(i) \/ DialFails(i)
DelivStep(n, d) == InternalGet(n, d) \/ InternalClose(n, d) \/ InternalDelete(n, d)

Next ==
  \/ \E i \in Call, n \in Node, c \in Camera : ConnectRTSPClient(i, n, c)
  \/ \E n \in Node, k \in LockKey : AddToConnectionSet(n, k)
  \/ \E i \in Call : ConnStep(i)
  \/ \E d \in Disc, n \in Node, c \in Camera : DisconnectRTSPClient(d, n, c)
  \/ \E d \in Disc : PublishDisconnect(d)
  \/ \E n \in Node, d \in Disc : DelivStep(n, d)
  \/ \E n \in Node, d \in Disc : NilClientPanic(n, d) \/ MapRaceFatal(n, d)
  \/ \E n \in Node : Crash(n) \/ StartScan(n) \/ StartFlush(n) \/ Subscribe(n)
  \/ \E n \in Node : Register(n) \/ KeepAlive(n) \/ Expire(n)
  \/ \E m, n \in Node : CleanerScan(m, n)
  \/ \E m \in Node : CleanerExec(m)

Spec == Init /\ [][Next]_vars
SpecUp == InitUp /\ [][Next]_vars

\* Fairness: goroutines run, a dial ends (its network calls have deadlines), the
\* Go mutex starves nobody, Redis answers.  RPCs, crashes, restarts and the
\* runtime's map check owe nothing.
Fairness ==
  /\ \A i \in Call : /\ SF_vars(BeginDial(i))
                     /\ WF_vars(DialSucceeds(i) \/ DialFails(i))
  /\ \A d \in Disc : WF_vars(PublishDisconnect(d))
  /\ \A n \in Node, d \in Disc : /\ SF_vars(InternalGet(n, d))
                                 /\ WF_vars(InternalClose(n, d) \/ NilClientPanic(n, d))
                                 /\ SF_vars(InternalDelete(n, d))
FairSpec == SpecUp /\ Fairness

-----------------------------------------------------------------------------
(* Safety.                                                                 *)

\* SetNX plus the places that delete a lock: a call that is being connected or
\* streams still owns its camera's key, unless a Disconnect of the camera, a
\* flush or a cleaner deleted that key after the call took it.  No failing
\* Connect and no close handler of another client takes the key away.
LockHeld ==
  \A i \in Call : Active(i) /\ i \notin revoked => lock[IdKey(cam[i])] = host[i]

\* Line 54, "Check for previous connection and get lock": two Connect calls of
\* one camera are in progress or streaming together, on any nodes, only if one
\* of them had its lock deleted under it.
ExclusiveUnlessRevoked ==
  \A i, j \in Call :
    i # j /\ Active(i) /\ Active(j) /\ cam[i] = cam[j] => i \in revoked \/ j \in revoked

\* Lines 54-77 and 103, controller.go:64 and node.go:50: however the calls, the
\* deliveries, the crashes and the cleaners interleave, the keys are leases
\* (CameraLease).  A call takes a free key and no other, and in the same step no
\* other call starts or ends; what frees a camera's key sends the call that had
\* it astray; and a call that fails, is closed or dies frees nobody's key.
Holder(i) == <<i, host[i], cam[i]>>

Lease == INSTANCE CameraLease
           WITH key    <- [c \in Camera |-> lock[IdKey(c)]],
                held   <- {Holder(i) : i \in {j \in Call \ revoked : Active(j)}},
                astray <- {Holder(i) : i \in {j \in revoked : Active(j)}}

ImplementsLease == Lease!Spec

\* A map entry is a client of this node and camera that finished connecting.
EntrySound(n, c) ==
  clients[n][c] # None =>
    LET i == clients[n][c] IN host[i] = n /\ cam[i] = c /\ pc[i] \in {"open", "closed"}

\* A lookup never returns a closed client for good: while the map still holds
\* one, the delivery that closed it has yet to delete the entry (lines 121-124).
ClosedEntryLeaves ==
  \A n \in Node, c \in Camera :
    /\ EntrySound(n, c)
    /\ clients[n][c] # None /\ pc[clients[n][c]] = "closed" =>
         \E d \in Disc : deliv[n][d] = "closed" /\ dcam[d] = c

\* Line 121 can only meet a missing client - and panic the node - when another
\* Disconnect of the same camera finished between the two reads of the map.
NilClientNeedsTwoDisconnects ==
  \A n \in Node, d \in Disc :
    deliv[n][d] = "found" /\ clients[n][dcam[d]] = None =>
      \E e \in Disc \ {d} : dcam[e] = dcam[d] /\ deliv[n][e] = "done"

\* The relay counter (lines 62-66, 73, 82-84): it counts the relay clients that
\* are dialing or open, plus those that died with their node, minus the failed
\* connects of cameras without relay.  Exactly these two kinds of drift exist.
CounterAccounts ==
  counter = Cardinality({i \in Call : /\ pc[i] \in {"dialing", "open", "lost"}
                                     /\ cam[i] \in RelayCamera})
          - Cardinality({i \in Call : pc[i] = "failed" /\ cam[i] \notin RelayCamera})

-----------------------------------------------------------------------------
(* Liveness.                                                               *)

\* A delivered Disconnect closes the client the map holds for the camera, or
\* the entry is replaced or removed first, or the node dies.
DeliveredClientCloses ==
  \A n \in Node, c \in Camera, d \in Disc, i \in Call :
    deliv[n][d] = "sent" /\ dcam[d] = c /\ clients[n][c] = i
      ~> pc[i] # "open" \/ clients[n][c] # i

\* Every Connect call that took its lock ends: no cycle of the service lock,
\* the dial and the deliveries keeps it waiting.
ConnectReturns ==
  \A i \in Call : pc[i] = "granted" ~> pc[i] \notin {"granted", "dialing"}

-----------------------------------------------------------------------------
(* What the comments say and the code does not do.                         *)

\* rtsp_client_service.go:74 "Release connection lock": a camera's key does not
\* go on naming a node whose Connect failed, unless a call of that node which
\* did not fail took it.
FailedConnectReleasesLock ==
  \A i \in Call :
    pc[i] = "failed" /\ lock[IdKey(cam[i])] = host[i] =>
      \E j \in Call : /\ cam[j] = cam[i] /\ host[j] = host[i]
                     /\ pc[j] \notin {"idle", "refused", "failed"}

\* node.go:70 "Clean dangling rtsp connection address": the cleaner finds a dead
\* node's locks in the node's connection set, so a key leaves the set only
\* when the lock no longer names the node.
SetForgetsOnlyReleased ==
  [][\A n \in Node : \A k \in connSet[n] \ connSet'[n] : lock'[k] # n]_vars
=============================================================================

------------------------------- MODULE SfuRoom -------------------------------
(***************************************************************************)
(* One room of the SFU cluster, from the web socket of a client to the     *)
(* session that serves it.  A controller places the room on an SFU node    *)
(* through Redis (a key with a 15 minute expiry, and the node's room set), *)
(* opens a signal stream to that node and blocks until the join reply.     *)
(* The node's Signal handler creates a peer, finds or creates the room's   *)
(* session, registers the stream for track events and, when the stream     *)
(* ends, removes the peer; the last peer closes the session, which deletes *)
(* the room's key.                                                         *)
(*                                                                         *)
(* A member of Conn is one web socket with its signal stream, its peer and *)
(* the session that the peer creates if it finds none.  A controller       *)
(* cleaner removes the rooms of SFU nodes whose keep-alive key expired.    *)
(* MaxCrash bounds the node crashes that no step of the code causes.      *)
(***************************************************************************)
EXTENDS Naturals

CONSTANTS Node,      \* SFU node IDs
          Conn,      \* web sockets, their streams and peers
          Uid,       \* user IDs
          Users,     \* [Conn -> SUBSET Uid]: the IDs a connection may join with
          NoPublish, \* user IDs whose clients join with NoPublish
          None,
          MaxCrash

ASSUME RoomAssumption ==
  /\ Users \in [Conn -> SUBSET Uid] /\ NoPublish \subseteq Uid
  /\ None \notin Node /\ None \notin Conn
  /\ MaxCrash \in Nat

VARIABLES
  \* Redis
  key,       \* the room's key: the node it is placed on, or None
  listed,    \* the nodes whose room set holds the room
  registry,  \* the SFU nodes in the service connection set
  batch,     \* the cleaner's pipeline: the dead nodes it read
  found,     \* the dead nodes in whose room set the cleaner found the room
  \* SFU nodes
  up,        \* running nodes
  sessions,  \* [Node -> Conn or None]: the session registered for the room
  peers,     \* [Conn -> [Uid -> Conn or None]]: the peers of a session
  closed,    \* closed sessions
  sigs,      \* [Node -> [Uid -> Conn or None]]: streams that get track events
  crashes,
  \* connections
  uid,       \* [Conn -> Uid or None]: the user ID of the join request
  pc,        \* progress of the placement, then of the Signal handler
  at,        \* [Conn -> Node or None]: the node of the stream
  sess,      \* [Conn -> Conn or None]: peer.session
  ws,        \* [Conn -> the state of the web socket's read loop]
  left,      \* connections whose client has gone
  \* history
  errored,   \* handlers that returned an error
  displaced, \* peers whose entry another peer with the same ID replaced
  split      \* whether an event may have separated the room's peers

redisVars == <<key, listed, registry, batch, found>>
nodeVars  == <<up, sessions, peers, closed, sigs, crashes>>
connVars  == <<uid, pc, at, sess, ws, left>>
history   == <<errored, displaced, split>>
vars == <<key, listed, registry, batch, found, up, sessions, peers, closed,
          sigs, crashes, uid, pc, at, sess, ws, left, errored, displaced, split>>

-----------------------------------------------------------------------------
Placing == {"get", "pick", "setnx", "sadd", "reget"}   \* in the controller
Joining == {"stream", "create", "member", "answer", "announce", "register"}
Leaving == {"remove", "close", "removeroom"}           \* in peer.Close
Ended   == {"refused", "nowhere", "died", "ended", "crashed"}
Stages  == {"new"} \cup Placing \cup Joining \cup {"loop"} \cup Leaving \cup {"cleanup"} \cup Ended

\* Connections bound for a node: placed there and not yet leaving.
Bound(c) == pc[c] \in {"sadd"} \cup Joining \cup {"loop"}
\* Peers that hold a session and are not yet leaving it.
Member(c) == pc[c] \in {"member", "answer", "announce", "register", "loop"}
\* Peers that AddPeer has put into their session.
Added(c) == pc[c] \in {"answer", "announce", "register", "loop"}

PeersOf(s) == {peers[s][u] : u \in Uid} \ {None}
\* Those of them that have no publisher.
Unpublished(s) == {d \in PeersOf(s) : uid[d] \in NoPublish}

TypeOK ==
  /\ key \in Node \cup {None} /\ listed \subseteq Node
  /\ registry \subseteq Node /\ batch \subseteq Node /\ found \subseteq batch
  /\ up \subseteq Node /\ sessions \in [Node -> Conn \cup {None}]
  /\ peers \in [Conn -> [Uid -> Conn \cup {None}]] /\ closed \subseteq Conn
  /\ sigs \in [Node -> [Uid -> Conn \cup {None}]] /\ crashes \in Nat
  /\ pc \in [Conn -> Stages] /\ at \in [Conn -> Node \cup {None}]
  /\ sess \in [Conn -> Conn \cup {None}] /\ uid \in [Conn -> Uid \cup {None}]
  /\ ws \in [Conn -> {"reading", "blocked", "closed"}] /\ left \subseteq Conn
  /\ errored \subseteq Conn /\ displaced \subseteq Conn /\ split \in BOOLEAN

\* The SFU nodes run, are registered and have sent a keep-alive, or none has
\* been started.
Init ==
  /\ key = None /\ listed = {} /\ registry \in {Node, {}}
  /\ batch = {} /\ found = {}
  /\ up = registry /\ sessions = [n \in Node |-> None]
  /\ peers = [s \in Conn |-> [u \in Uid |-> None]] /\ closed = {}
  /\ sigs = [n \in Node |-> [u \in Uid |-> None]] /\ crashes = 0
  /\ pc = [c \in Conn |-> "new"] /\ at = [c \in Conn |-> None]
  /\ sess = [c \in Conn |-> None] /\ uid = [c \in Conn |-> None]
  /\ ws = [c \in Conn |-> "reading"] /\ left = {}
  /\ errored = {} /\ displaced = {} /\ split = FALSE

-----------------------------------------------------------------------------
(* The controller: web socket and placement.                              *)

\* A "join" request: the read loop calls SetOrGetSFUNode and will block.
Join(c) ==
  /\ pc[c] = "new" /\ ws[c] = "reading" /\ c \notin left
  /\ pc' = [pc EXCEPT ![c] = "get"] /\ ws' = [ws EXCEPT ![c] = "blocked"]
  /\ \E u \in Users[c] : uid' = [uid EXCEPT ![c] = u]
  /\ UNCHANGED <<redisVars, nodeVars, at, sess, left, history>>

\* Opening the stream to a node: an empty node ID reaches nobody.
Opened(n) == IF n \in up THEN "stream" ELSE "nowhere"

\* Get: a key that is set decides.
GetHits(c) ==
  /\ pc[c] = "get" /\ key # None
  /\ at' = [at EXCEPT ![c] = key] /\ pc' = [pc EXCEPT ![c] = Opened(key)]
  /\ UNCHANGED <<redisVars, nodeVars, uid, sess, ws, left, history>>

GetMisses(c) ==
  /\ pc[c] = "get" /\ key = None
  /\ pc' = [pc EXCEPT ![c] = "pick"]
  /\ UNCHANGED <<redisVars, nodeVars, uid, at, sess, ws, left, history>>

\* GetNodesOfService and a random choice; without a node the loop reads on.
Pick(c) ==
  /\ pc[c] = "pick"
  /\ \E n \in registry : at' = [at EXCEPT ![c] = n]
  /\ pc' = [pc EXCEPT ![c] = "setnx"]
  /\ UNCHANGED <<redisVars, nodeVars, uid, sess, ws, left, history>>

PickFails(c) ==
  /\ pc[c] = "pick" /\ registry = {}
  /\ pc' = [pc EXCEPT ![c] = "refused"] /\ ws' = [ws EXCEPT ![c] = "reading"]
  /\ UNCHANGED <<redisVars, nodeVars, uid, at, sess, left, history>>

\* Mutant: SET without NX.
SetOverwrites(c) ==
  /\ pc[c] = "setnx"
  /\ key' = at[c] /\ pc' = [pc EXCEPT ![c] = "sadd"]
  /\ UNCHANGED <<listed, registry, batch, found, nodeVars, uid, at, sess, ws, left, history>>

SetNX(c) ==
  /\ pc[c] = "setnx" /\ key = None
  /\ key' = at[c] /\ pc' = [pc EXCEPT ![c] = "sadd"]
  /\ UNCHANGED <<listed, registry, batch, found, nodeVars, uid, at, sess, ws, left, history>>

SetNXLoses(c) ==
  /\ pc[c] = "setnx" /\ key # None
  /\ pc' = [pc EXCEPT ![c] = "reget"]
  /\ UNCHANGED <<redisVars, nodeVars, uid, at, sess, ws, left, history>>

SAdd(c) ==
  /\ pc[c] = "sadd"
  /\ listed' = listed \cup {at[c]} /\ pc' = [pc EXCEPT ![c] = Opened(at[c])]
  /\ UNCHANGED <<key, registry, batch, found, nodeVars, uid, at, sess, ws, left, history>>

\* The second Get may find that the key has gone.
ReGet(c) ==
  /\ pc[c] = "reget"
  /\ at' = [at EXCEPT ![c] = key] /\ pc' = [pc EXCEPT ![c] = Opened(key)]
  /\ UNCHANGED <<redisVars, nodeVars, uid, sess, ws, left, history>>

\* The controller dies between SetNX and SAdd.
CallerDies(c) ==
  /\ pc[c] = "sadd" /\ crashes < MaxCrash
  /\ pc' = [pc EXCEPT ![c] = "died"] /\ ws' = [ws EXCEPT ![c] = "closed"]
  /\ crashes' = crashes + 1
  /\ UNCHANGED <<redisVars, up, sessions, peers, closed, sigs, uid, at, sess, left, history>>

\* The client closes its web socket, or loses it.
Leave(c) ==
  /\ c \notin left /\ left' = left \cup {c}
  /\ UNCHANGED <<redisVars, nodeVars, uid, pc, at, sess, ws, history>>

\* Only a loop that reads learns of it; the deferred calls cancel the stream.
ReadFails(c) ==
  /\ c \in left /\ ws[c] = "reading"
  /\ ws' = [ws EXCEPT ![c] = "closed"]
  /\ UNCHANGED <<redisVars, nodeVars, uid, pc, at, sess, left, history>>

-----------------------------------------------------------------------------
(* Redis time, and the controllers' cleaner.                               *)

\* Losing the key matters to the connections bound for a node, losing a
\* node's session to the peers that hold it.
KeyLost       == split' = (split \/ \E c \in Conn : Bound(c))
SessionLost(n) == split' = (split \/ \E c \in Conn : Member(c) /\ at[c] = n)

Expire ==
  /\ key # None /\ key' = None
  /\ KeyLost
  /\ UNCHANGED <<listed, registry, batch, found, nodeVars, connVars, errored, displaced>>

\* The keep-alive key of a node that is down has expired: the cleaner reads
\* the node's room set into its pipeline.
Scan(n) ==
  /\ n \in registry \ up /\ n \notin batch
  /\ batch' = batch \cup {n}
  /\ found' = found \cup (listed \cap {n})
  /\ UNCHANGED <<key, listed, registry, nodeVars, connVars, history>>

\* Exec: the keys it found are deleted, whatever node they name by now.
Exec ==
  /\ batch # {} /\ batch' = {} /\ found' = {}
  /\ listed' = listed \ batch /\ registry' = registry \ batch
  /\ IF found # {} /\ key # None
     THEN key' = None /\ KeyLost
     ELSE UNCHANGED <<key, split>>
  /\ UNCHANGED <<nodeVars, connVars, errored, displaced>>

-----------------------------------------------------------------------------
(* The SFU node: the Signal handler of one stream.                         *)

\* A node that goes down takes its handlers, sessions and streams with it.
Down(n) ==
  /\ up' = up \ {n}
  /\ sessions' = [sessions EXCEPT ![n] = None]
  /\ sigs' = [sigs EXCEPT ![n] = [u \in Uid |-> None]]
  /\ peers' = [s \in Conn |-> IF at[s] = n THEN [u \in Uid |-> None] ELSE peers[s]]
  /\ pc' = [c \in Conn |-> IF at[c] = n /\ pc[c] \in Joining \cup {"loop", "cleanup"} \cup Leaving
                           THEN "crashed" ELSE pc[c]]

NodeCrash(n) ==
  /\ n \in up /\ crashes < MaxCrash /\ crashes' = crashes + 1
  /\ Down(n)
  /\ UNCHANGED <<redisVars, closed, uid, at, sess, ws, left, history>>

\* getSession finds the room's session, or the peer goes on to create one.
GetSession(c) ==
  /\ pc[c] = "stream" /\ sessions[at[c]] # None
  /\ pc' = [pc EXCEPT ![c] = "member"]
  /\ sess' = [sess EXCEPT ![c] = sessions[at[c]]]
  /\ UNCHANGED <<redisVars, nodeVars, uid, at, ws, left, history>>

GetNoSession(c) ==
  /\ pc[c] = "stream" /\ sessions[at[c]] = None
  /\ pc' = [pc EXCEPT ![c] = "create"]
  /\ UNCHANGED <<redisVars, nodeVars, uid, at, sess, ws, left, history>>

\* newSession registers its session over one that was created meanwhile.
NewSession(c) ==
  /\ pc[c] = "create"
  /\ sessions' = [sessions EXCEPT ![at[c]] = c]
  /\ sess' = [sess EXCEPT ![c] = c]
  /\ pc' = [pc EXCEPT ![c] = "member"]
  /\ SessionLost(at[c])
  /\ UNCHANGED <<redisVars, up, peers, closed, sigs, crashes, uid, at, ws, left, errored, displaced>>

\* An error return: the deferred cleanup runs, peer.Close does not.
ErrorReturn(c) ==
  /\ pc' = [pc EXCEPT ![c] = "cleanup"] /\ errored' = errored \cup {c}
  /\ UNCHANGED <<redisVars, nodeVars, uid, at, sess, ws, left, displaced, split>>

\* NewSubscriber, NewPublisher or a data channel fails inside peer.Join.
JoinFails(c) == pc[c] = "member" /\ ErrorReturn(c)

AddPeer(c) ==
  /\ pc[c] = "member"
  /\ peers' = [peers EXCEPT ![sess[c]][uid[c]] = c]
  /\ displaced' = displaced \cup ({peers[sess[c]][uid[c]]} \ {None})
  /\ pc' = [pc EXCEPT ![c] = "answer"]
  /\ UNCHANGED <<redisVars, up, sessions, closed, sigs, crashes, uid, at, sess, ws, left, errored, split>>

\* Mutant: the join reply never reaches the web socket.
AnswerWithoutReply(c) ==
  /\ pc[c] = "answer" /\ uid[c] \notin NoPublish
  /\ pc' = [pc EXCEPT ![c] = "announce"]
  /\ UNCHANGED <<redisVars, nodeVars, uid, at, sess, ws, left, history>>

\* The offer of the join request is answered; the reply frees the web socket.
Answer(c) ==
  /\ pc[c] = "answer" /\ uid[c] \notin NoPublish
  /\ pc' = [pc EXCEPT ![c] = "announce"] /\ ws' = [ws EXCEPT ![c] = "reading"]
  /\ UNCHANGED <<redisVars, nodeVars, uid, at, sess, left, history>>

\* A peer without a publisher has no transport that could answer.
AnswerFails(c) == pc[c] = "answer" /\ ErrorReturn(c)

\* The handler lists the tracks of the session's other peers.
Announce(c) ==
  /\ pc[c] = "announce" /\ Unpublished(sess[c]) \ {c} = {}
  /\ pc' = [pc EXCEPT ![c] = "register"]
  /\ UNCHANGED <<redisVars, nodeVars, uid, at, sess, ws, left, history>>

\* PublisherTracks of a peer that has no publisher: the process panics.
AnnouncePanics(c) ==
  /\ pc[c] = "announce" /\ Unpublished(sess[c]) \ {c} # {}
  /\ Down(at[c])
  /\ UNCHANGED <<redisVars, closed, crashes, uid, at, sess, ws, left, history>>

Register(c) ==
  /\ pc[c] = "register"
  /\ sigs' = [sigs EXCEPT ![at[c]][uid[c]] = c]
  /\ pc' = [pc EXCEPT ![c] = "loop"]
  /\ UNCHANGED <<redisVars, up, sessions, peers, closed, crashes, uid, at, sess, ws, left, history>>

\* A request of the loop fails: an answer, an offer, a candidate, a send.
RequestFails(c) == pc[c] = "loop" /\ ErrorReturn(c)

\* Mutant: the handler returns on a failed Recv without closing its peer.
RecvFailsUnclosed(c) ==
  /\ pc[c] = "loop" /\ ws[c] = "closed"
  /\ pc' = [pc EXCEPT ![c] = "cleanup"]
  /\ UNCHANGED <<redisVars, nodeVars, uid, at, sess, ws, left, history>>

\* Recv fails when the controller has cancelled the stream: peer.Close.
RecvFails(c) ==
  /\ pc[c] = "loop" /\ ws[c] = "closed"
  /\ pc' = [pc EXCEPT ![c] = "remove"]
  /\ UNCHANGED <<redisVars, nodeVars, uid, at, sess, ws, left, history>>

\* Mutant: the entry is deleted by ID, whoever's it is.
RemovePeerByID(c) ==
  LET rest == [peers[sess[c]] EXCEPT ![uid[c]] = None]
  IN /\ pc[c] = "remove"
     /\ peers' = [peers EXCEPT ![sess[c]] = rest]
     /\ pc' = [pc EXCEPT ![c] = IF \A v \in Uid : rest[v] = None THEN "close" ELSE "cleanup"]
     /\ UNCHANGED <<redisVars, up, sessions, closed, sigs, crashes, uid, at, sess, ws, left, history>>

\* RemovePeer under the session's lock: only the peer's own entry goes.
RemovePeer(c) ==
  LET s == sess[c]
      u == uid[c]
      rest == IF peers[s][u] = c THEN [peers[s] EXCEPT ![u] = None] ELSE peers[s]
  IN /\ pc[c] = "remove"
     /\ peers' = [peers EXCEPT ![s] = rest]
     /\ pc' = [pc EXCEPT ![c] = IF \A v \in Uid : rest[v] = None THEN "close" ELSE "cleanup"]
     /\ UNCHANGED <<redisVars, up, sessions, closed, sigs, crashes, uid, at, sess, ws, left, history>>

\* Close after the unlock: the room is unregistered by name, once per session.
CloseSession(c) ==
  /\ pc[c] = "close" /\ sess[c] \notin closed
  /\ closed' = closed \cup {sess[c]}
  /\ sessions' = [sessions EXCEPT ![at[c]] = None]
  /\ pc' = [pc EXCEPT ![c] = "removeroom"]
  /\ SessionLost(at[c])
  /\ UNCHANGED <<redisVars, up, peers, sigs, crashes, uid, at, sess, ws, left, errored, displaced>>

CloseAgain(c) ==
  /\ pc[c] = "close" /\ sess[c] \in closed
  /\ pc' = [pc EXCEPT ![c] = "cleanup"]
  /\ UNCHANGED <<redisVars, nodeVars, uid, at, sess, ws, left, history>>

\* RemoveRoom deletes the key, whatever node it names by now.
RemoveRoom(c) ==
  /\ pc[c] = "removeroom"
  /\ key' = None /\ listed' = listed \ {at[c]}
  /\ pc' = [pc EXCEPT ![c] = "cleanup"]
  /\ IF key = None THEN UNCHANGED split ELSE KeyLost
  /\ UNCHANGED <<registry, batch, found, nodeVars, uid, at, sess, ws, left, errored, displaced>>

\* Mutant: the stream stays registered.
CleanupKeepsStream(c) ==
  /\ pc[c] = "cleanup" /\ pc' = [pc EXCEPT ![c] = "ended"]
  /\ UNCHANGED <<redisVars, nodeVars, uid, at, sess, ws, left, history>>

\* The deferred cleanup deletes the stream registered under the peer's ID.
Cleanup(c) ==
  /\ pc[c] = "cleanup"
  /\ sigs' = [sigs EXCEPT ![at[c]][uid[c]] = None]
  /\ pc' = [pc EXCEPT ![c] = "ended"]
  /\ UNCHANGED <<redisVars, up, sessions, peers, closed, crashes, uid, at, sess, ws, left, history>>

-----------------------------------------------------------------------------
Placement(c) == \/ Join(c) \/ GetHits(c) \/ GetMisses(c) \/ Pick(c) \/ PickFails(c)
                \/ SetNX(c) \/ SetNXLoses(c) \/ SAdd(c) \/ ReGet(c)
Handler(c)   == \/ GetSession(c) \/ GetNoSession(c) \/ NewSession(c) \/ AddPeer(c) \/ Announce(c)
                \/ AnnouncePanics(c) \/ Register(c) \/ RecvFails(c) \/ RemovePeer(c)
                \/ CloseSession(c) \/ CloseAgain(c) \/ RemoveRoom(c) \/ Cleanup(c)
Answering(c) == Answer(c) \/ AnswerFails(c)
Failure(c)   == JoinFails(c) \/ RequestFails(c) \/ CallerDies(c)

Done == (\A c \in Conn : c \in left) /\ UNCHANGED vars

Next == \/ \E c \in Conn : \/ Placement(c) \/ Handler(c) \/ Answering(c) \/ Failure(c)
                           \/ Leave(c) \/ ReadFails(c)
        \/ \E n \in Node : NodeCrash(n) \/ Scan(n)
        \/ Expire \/ Exec
        \/ Done

Fairness == \A c \in Conn : WF_vars(Placement(c)) /\ WF_vars(Handler(c))
                            /\ WF_vars(Answering(c)) /\ WF_vars(ReadFails(c))

Spec == Init /\ [][Next]_vars
FairSpec == Spec /\ Fairness

-----------------------------------------------------------------------------
\* The room's peers on live streams share one session on one node, as long as
\* none of five events happened: the key expired, was removed or was cleaned
\* under peers of the room, a session closed while peers held it, or two
\* sessions were created for the room.
Together ==
  ~split => \A c, d \in Conn : Added(c) /\ Added(d) => sess[c] = sess[d] /\ at[c] = at[d]

\* A peer whose handler has returned stays in its session only after an error
\* return, the one path that does not close the peer.
GhostsOnlyAfterError ==
  \A s, c \in Conn : c \in PeersOf(s) /\ pc[c] \in {"cleanup"} \cup Ended => c \in errored

\* A peer that serves its client is listed in its session unless a peer with
\* the same ID took its entry: nobody's departure removes another's entry.
PeerListed ==
  \A c \in Conn : Added(c) /\ c \notin displaced => peers[sess[c]][uid[c]] = c

\* Track events go to live streams only, and a served stream misses them only
\* when another stream of the same user ran on the node.
StreamsRegistered ==
  /\ \A n \in Node, u \in Uid : sigs[n][u] # None =>
       pc[sigs[n][u]] \in {"loop", "cleanup"} \cup Leaving /\ at[sigs[n][u]] = n
  /\ \A c \in Conn : pc[c] = "loop" =>
       \/ sigs[at[c]][uid[c]] = c
       \/ \E d \in Conn \ {c} : uid[d] = uid[c] /\ at[d] = at[c]

\* The room of a registered node is in the set its cleaner reads, except in
\* the window between SetNX and SAdd that a dying controller leaves open.
KeyIsListed ==
  key \in registry => key \in listed \/ \E c \in Conn : pc[c] \in {"sadd", "died"} /\ at[c] = key

\* The handler of a client that has left returns, whatever it was doing.
LeaverEnds == \A c \in Conn : c \in left ~> pc[c] \in {"new"} \cup Ended
=============================================================================

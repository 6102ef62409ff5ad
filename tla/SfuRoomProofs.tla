--------------------------- MODULE SfuRoomProofs ---------------------------
(***************************************************************************)
(* The safety properties of SfuRoom, for any number of nodes, connections  *)
(* and users and any number of crashes.  Each property is one conjunct of  *)
(* the inductive invariant RoomInv, or follows from one; the conjuncts say *)
(* where a connection's references (its node, its session) point, and what *)
(* the registrations (sessions, peers, sigs, the key) say of them.         *)
(***************************************************************************)
EXTENDS SfuRoom, TLAPS

\* The steps before a handler has its session.
Early == {"new", "stream", "create"} \cup Placing

\* A connection has a node once one is picked, and a user ID once it joins.
HostOK == \A c \in Conn :
  /\ pc[c] \in {"setnx", "sadd"} \cup Joining \cup {"loop", "cleanup"} \cup Leaving => at[c] \in Node
  /\ pc[c] # "new" => uid[c] \in Uid

\* A handler's session, and the session a node registers, was created by a
\* connection of the same node, which will not be placed again.
SessOK ==
  /\ \A c \in Conn : pc[c] \in {"member", "answer", "announce", "register", "loop", "cleanup"} \cup Leaving =>
       sess[c] \in Conn /\ at[sess[c]] = at[c] /\ pc[sess[c]] \notin Early
  /\ \A n \in Node : sessions[n] # None => at[sessions[n]] = n /\ pc[sessions[n]] \notin Early

\* Until the split, the key names the node of every connection bound for one,
\* and that node's registered session is the session of its members.
UnsplitOK ==
  ~split => /\ \A c \in Conn : Bound(c) => key = at[c]
            /\ \A c \in Conn : Member(c) => sessions[at[c]] = sess[c]

\* An entry of a session is a peer of that session, under its own ID, on the
\* session's node; it is being served, about to be removed, or erroneous.
PeersOK == \A s \in Conn, u \in Uid : peers[s][u] # None =>
  LET c == peers[s][u] IN
  /\ sess[c] = s /\ uid[c] = u /\ at[s] = at[c] /\ pc[s] \notin Early
  /\ \/ Added(c) \/ pc[c] = "remove"
     \/ c \in errored /\ pc[c] \in {"cleanup", "ended"}

\* A registered stream is the handler's own, on its node, and not yet cleaned
\* up; a served stream is registered or has a twin whose placement is over.
SigsOK ==
  /\ \A n \in Node, u \in Uid : sigs[n][u] # None =>
       /\ pc[sigs[n][u]] \in {"loop", "cleanup"} \cup Leaving
       /\ at[sigs[n][u]] = n /\ uid[sigs[n][u]] = u
  /\ \A c \in Conn : pc[c] = "loop" =>
       \/ sigs[at[c]][uid[c]] = c
       \/ \E d \in Conn \ {c} : uid[d] = uid[c] /\ at[d] = at[c] /\ pc[d] \notin Early

RoomInv == TypeOK /\ HostOK /\ SessOK /\ UnsplitOK /\ PeersOK /\ PeerListed /\ SigsOK /\ KeyIsListed


\* Every step keeps the types.
LEMMA TypeStep == TypeOK /\ HostOK /\ SessOK /\ [Next]_vars => TypeOK'
<1> SUFFICES ASSUME TypeOK /\ HostOK /\ SessOK, [Next]_vars PROVE TypeOK'
  OBVIOUS
<1> USE RoomAssumption DEF TypeOK, Stages, Placing, Joining, Leaving, Ended, redisVars, nodeVars, connVars, history
<1>1. ASSUME NEW c \in Conn, Join(c) PROVE TypeOK'
  BY <1>1 DEF Join
<1>2. ASSUME NEW c \in Conn, GetHits(c) PROVE TypeOK'
  BY <1>2 DEF GetHits, Opened
<1>3. ASSUME NEW c \in Conn, GetMisses(c) PROVE TypeOK'
  BY <1>3 DEF GetMisses
<1>4. ASSUME NEW c \in Conn, Pick(c) PROVE TypeOK'
  BY <1>4 DEF Pick
<1>5. ASSUME NEW c \in Conn, PickFails(c) PROVE TypeOK'
  BY <1>5 DEF PickFails
<1>6. ASSUME NEW c \in Conn, SetNX(c) PROVE TypeOK'
  BY <1>6 DEF SetNX
<1>7. ASSUME NEW c \in Conn, SetNXLoses(c) PROVE TypeOK'
  BY <1>7 DEF SetNXLoses
<1>8. ASSUME NEW c \in Conn, SAdd(c) PROVE TypeOK'
  <2>1. at[c] \in Node
    BY <1>8 DEF HostOK, SAdd
  <2> QED
    BY <1>8, <2>1 DEF SAdd, Opened
<1>9. ASSUME NEW c \in Conn, ReGet(c) PROVE TypeOK'
  BY <1>9 DEF ReGet, Opened
<1>10. ASSUME NEW c \in Conn, CallerDies(c) PROVE TypeOK'
  BY <1>10 DEF CallerDies
<1>11. ASSUME NEW c \in Conn, Leave(c) PROVE TypeOK'
  BY <1>11 DEF Leave
<1>12. ASSUME NEW c \in Conn, ReadFails(c) PROVE TypeOK'
  BY <1>12 DEF ReadFails
<1>13. ASSUME NEW c \in Conn, GetSession(c) PROVE TypeOK'
  <2>1. at[c] \in Node
    BY <1>13 DEF HostOK, GetSession
  <2>2. sess' \in [Conn -> Conn \cup {None}]
    BY <1>13, <2>1 DEF GetSession
  <2> QED
    BY <1>13, <2>2 DEF GetSession
<1>14. ASSUME NEW c \in Conn, GetNoSession(c) PROVE TypeOK'
  BY <1>14 DEF GetNoSession
<1>15. ASSUME NEW c \in Conn, NewSession(c) PROVE TypeOK'
  BY <1>15 DEF NewSession, SessionLost
<1>16. ASSUME NEW c \in Conn, JoinFails(c) PROVE TypeOK'
  BY <1>16 DEF JoinFails, ErrorReturn
<1>17. ASSUME NEW c \in Conn, AddPeer(c) PROVE TypeOK'
  <2>1. sess[c] \in Conn \cup {None} /\ uid[c] \in Uid \cup {None}
    OBVIOUS
  <2>2. peers' \in [Conn -> [Uid -> Conn \cup {None}]]
    BY <1>17, <2>1 DEF AddPeer
  <2>3. pc' \in [Conn -> Stages]
    BY <1>17 DEF AddPeer
  <2> QED
    BY <1>17, <2>2, <2>3 DEF AddPeer
<1>18. ASSUME NEW c \in Conn, Answer(c) PROVE TypeOK'
  BY <1>18 DEF Answer
<1>19. ASSUME NEW c \in Conn, AnswerFails(c) PROVE TypeOK'
  BY <1>19 DEF AnswerFails, ErrorReturn
<1>20. ASSUME NEW c \in Conn, Announce(c) PROVE TypeOK'
  BY <1>20 DEF Announce
<1>21. ASSUME NEW c \in Conn, AnnouncePanics(c) PROVE TypeOK'
  BY <1>21 DEF AnnouncePanics, Down
<1>22. ASSUME NEW c \in Conn, Register(c) PROVE TypeOK'
  BY <1>22 DEF Register
<1>23. ASSUME NEW c \in Conn, RequestFails(c) PROVE TypeOK'
  BY <1>23 DEF RequestFails, ErrorReturn
<1>24. ASSUME NEW c \in Conn, RecvFails(c) PROVE TypeOK'
  BY <1>24 DEF RecvFails
<1>25. ASSUME NEW c \in Conn, RemovePeer(c) PROVE TypeOK'
  BY <1>25 DEF RemovePeer
<1>26. ASSUME NEW c \in Conn, CloseSession(c) PROVE TypeOK'
  <2>1. at[c] \in Node /\ sess[c] \in Conn
    BY <1>26 DEF HostOK, SessOK, CloseSession
  <2>2. split' \in BOOLEAN
    BY <1>26 DEF CloseSession, SessionLost
  <2>3. closed' \subseteq Conn /\ sessions' \in [Node -> Conn \cup {None}]
    BY <1>26, <2>1 DEF CloseSession
  <2>4. pc' \in [Conn -> Stages]
    BY <1>26 DEF CloseSession
  <2> QED
    BY <1>26, <2>2, <2>3, <2>4 DEF CloseSession
<1>27. ASSUME NEW c \in Conn, CloseAgain(c) PROVE TypeOK'
  BY <1>27 DEF CloseAgain
<1>28. ASSUME NEW c \in Conn, RemoveRoom(c) PROVE TypeOK'
  BY <1>28 DEF RemoveRoom, KeyLost
<1>29. ASSUME NEW c \in Conn, Cleanup(c) PROVE TypeOK'
  BY <1>29 DEF Cleanup
<1>30. ASSUME NEW n \in Node, NodeCrash(n) PROVE TypeOK'
  BY <1>30 DEF NodeCrash, Down
<1>31. ASSUME NEW n \in Node, Scan(n) PROVE TypeOK'
  BY <1>31 DEF Scan
<1>32. CASE Expire
  BY <1>32 DEF Expire, KeyLost
<1>33. CASE Exec
  BY <1>33 DEF Exec, KeyLost
<1>34. CASE UNCHANGED vars
  BY <1>34 DEF vars
<1> QED
  BY <1>1, <1>2, <1>3, <1>4, <1>5, <1>6, <1>7, <1>8, <1>9, <1>10, <1>11, <1>12, <1>13, <1>14, <1>15, <1>16, <1>17, <1>18, <1>19, <1>20, <1>21, <1>22, <1>23, <1>24, <1>25, <1>26, <1>27, <1>28, <1>29, <1>30, <1>31, <1>32, <1>33, <1>34 DEF Next, Placement, Handler, Answering, Failure, Done

\* A connection keeps its node from the pick on, and its user ID.
LEMMA HostStep == TypeOK /\ HostOK /\ SessOK /\ [Next]_vars => HostOK'
<1> SUFFICES ASSUME TypeOK /\ HostOK /\ SessOK, [Next]_vars PROVE HostOK'
  OBVIOUS
<1> USE RoomAssumption DEF HostOK, Stages, Placing, Joining, Leaving, Ended, redisVars, nodeVars, connVars, history
<1>0. /\ pc \in [Conn -> Stages] /\ at \in [Conn -> Node \cup {None}]
      /\ sess \in [Conn -> Conn \cup {None}] /\ sessions \in [Node -> Conn \cup {None}]
      /\ sigs \in [Node -> [Uid -> Conn \cup {None}]] /\ peers \in [Conn -> [Uid -> Conn \cup {None}]]
  BY DEF TypeOK
<1>1. ASSUME NEW c \in Conn, Join(c) PROVE HostOK'
  BY <1>1 DEF TypeOK, Join
<1>2. ASSUME NEW c \in Conn, GetHits(c) PROVE HostOK'
  BY <1>2 DEF TypeOK, GetHits, Opened
<1>3. ASSUME NEW c \in Conn, GetMisses(c) PROVE HostOK'
  BY <1>3 DEF TypeOK, GetMisses
<1>4. ASSUME NEW c \in Conn, Pick(c) PROVE HostOK'
  BY <1>4 DEF TypeOK, Pick
<1>5. ASSUME NEW c \in Conn, PickFails(c) PROVE HostOK'
  BY <1>5 DEF TypeOK, PickFails
<1>6. ASSUME NEW c \in Conn, SetNX(c) PROVE HostOK'
  BY <1>6 DEF TypeOK, SetNX
<1>7. ASSUME NEW c \in Conn, SetNXLoses(c) PROVE HostOK'
  BY <1>7 DEF TypeOK, SetNXLoses
<1>8. ASSUME NEW c \in Conn, SAdd(c) PROVE HostOK'
  BY <1>8 DEF TypeOK, SAdd, Opened
<1>9. ASSUME NEW c \in Conn, ReGet(c) PROVE HostOK'
  BY <1>9 DEF TypeOK, ReGet, Opened
<1>10. ASSUME NEW c \in Conn, CallerDies(c) PROVE HostOK'
  BY <1>10 DEF TypeOK, CallerDies
<1>11. ASSUME NEW c \in Conn, Leave(c) PROVE HostOK'
  BY <1>11 DEF TypeOK, Leave
<1>12. ASSUME NEW c \in Conn, ReadFails(c) PROVE HostOK'
  BY <1>12 DEF TypeOK, ReadFails
<1>13. ASSUME NEW c \in Conn, GetSession(c) PROVE HostOK'
  BY <1>13 DEF TypeOK, GetSession
<1>14. ASSUME NEW c \in Conn, GetNoSession(c) PROVE HostOK'
  BY <1>14 DEF TypeOK, GetNoSession
<1>15. ASSUME NEW c \in Conn, NewSession(c) PROVE HostOK'
  BY <1>15 DEF TypeOK, NewSession, SessionLost
<1>16. ASSUME NEW c \in Conn, JoinFails(c) PROVE HostOK'
  BY <1>16 DEF TypeOK, JoinFails, ErrorReturn
<1>17. ASSUME NEW c \in Conn, AddPeer(c) PROVE HostOK'
  BY <1>17 DEF TypeOK, AddPeer
<1>18. ASSUME NEW c \in Conn, Answer(c) PROVE HostOK'
  BY <1>18 DEF TypeOK, Answer
<1>19. ASSUME NEW c \in Conn, AnswerFails(c) PROVE HostOK'
  BY <1>19 DEF TypeOK, AnswerFails, ErrorReturn
<1>20. ASSUME NEW c \in Conn, Announce(c) PROVE HostOK'
  BY <1>20 DEF TypeOK, Announce
<1>21. ASSUME NEW c \in Conn, AnnouncePanics(c) PROVE HostOK'
  BY <1>21 DEF TypeOK, AnnouncePanics, Down
<1>22. ASSUME NEW c \in Conn, Register(c) PROVE HostOK'
  BY <1>22 DEF TypeOK, Register
<1>23. ASSUME NEW c \in Conn, RequestFails(c) PROVE HostOK'
  BY <1>23 DEF TypeOK, RequestFails, ErrorReturn
<1>24. ASSUME NEW c \in Conn, RecvFails(c) PROVE HostOK'
  BY <1>24 DEF TypeOK, RecvFails
<1>25. ASSUME NEW c \in Conn, RemovePeer(c) PROVE HostOK'
  BY <1>25 DEF TypeOK, RemovePeer
<1>26. ASSUME NEW c \in Conn, CloseSession(c) PROVE HostOK'
  BY <1>26 DEF TypeOK, CloseSession, SessionLost
<1>27. ASSUME NEW c \in Conn, CloseAgain(c) PROVE HostOK'
  BY <1>27 DEF TypeOK, CloseAgain
<1>28. ASSUME NEW c \in Conn, RemoveRoom(c) PROVE HostOK'
  BY <1>28 DEF TypeOK, RemoveRoom, KeyLost
<1>29. ASSUME NEW c \in Conn, Cleanup(c) PROVE HostOK'
  BY <1>29 DEF TypeOK, Cleanup
<1>30. ASSUME NEW n \in Node, NodeCrash(n) PROVE HostOK'
  BY <1>30 DEF TypeOK, NodeCrash, Down
<1>31. ASSUME NEW n \in Node, Scan(n) PROVE HostOK'
  BY <1>31 DEF TypeOK, Scan
<1>32. CASE Expire
  BY <1>32 DEF TypeOK, Expire, KeyLost
<1>33. CASE Exec
  BY <1>33 DEF TypeOK, Exec, KeyLost
<1>34. CASE UNCHANGED vars
  BY <1>34 DEF vars
<1> QED
  BY <1>1, <1>2, <1>3, <1>4, <1>5, <1>6, <1>7, <1>8, <1>9, <1>10, <1>11, <1>12, <1>13, <1>14, <1>15, <1>16, <1>17, <1>18, <1>19, <1>20, <1>21, <1>22, <1>23, <1>24, <1>25, <1>26, <1>27, <1>28, <1>29, <1>30, <1>31, <1>32, <1>33, <1>34 DEF Next, Placement, Handler, Answering, Failure, Done

\* Sessions stay on the node that created them.
LEMMA SessStep == TypeOK /\ HostOK /\ SessOK /\ [Next]_vars => SessOK'
<1> SUFFICES ASSUME TypeOK /\ HostOK /\ SessOK, [Next]_vars PROVE SessOK'
  OBVIOUS
<1> USE RoomAssumption DEF HostOK, SessOK, Early, Stages, Placing, Joining, Leaving, Ended, redisVars, nodeVars, connVars, history
<1>0. /\ pc \in [Conn -> Stages] /\ at \in [Conn -> Node \cup {None}]
      /\ sess \in [Conn -> Conn \cup {None}] /\ sessions \in [Node -> Conn \cup {None}]
      /\ sigs \in [Node -> [Uid -> Conn \cup {None}]] /\ peers \in [Conn -> [Uid -> Conn \cup {None}]]
  BY DEF TypeOK
<1>1. ASSUME NEW c \in Conn, Join(c) PROVE SessOK'
  BY <1>1 DEF TypeOK, Join
<1>2. ASSUME NEW c \in Conn, GetHits(c) PROVE SessOK'
  BY <1>2 DEF TypeOK, GetHits, Opened
<1>3. ASSUME NEW c \in Conn, GetMisses(c) PROVE SessOK'
  BY <1>3 DEF TypeOK, GetMisses
<1>4. ASSUME NEW c \in Conn, Pick(c) PROVE SessOK'
  BY <1>4 DEF TypeOK, Pick
<1>5. ASSUME NEW c \in Conn, PickFails(c) PROVE SessOK'
  BY <1>5 DEF TypeOK, PickFails
<1>6. ASSUME NEW c \in Conn, SetNX(c) PROVE SessOK'
  BY <1>6 DEF TypeOK, SetNX
<1>7. ASSUME NEW c \in Conn, SetNXLoses(c) PROVE SessOK'
  BY <1>7 DEF TypeOK, SetNXLoses
<1>8. ASSUME NEW c \in Conn, SAdd(c) PROVE SessOK'
  BY <1>8 DEF TypeOK, SAdd, Opened
<1>9. ASSUME NEW c \in Conn, ReGet(c) PROVE SessOK'
  BY <1>9 DEF TypeOK, ReGet, Opened
<1>10. ASSUME NEW c \in Conn, CallerDies(c) PROVE SessOK'
  BY <1>10 DEF TypeOK, CallerDies
<1>11. ASSUME NEW c \in Conn, Leave(c) PROVE SessOK'
  BY <1>11 DEF TypeOK, Leave
<1>12. ASSUME NEW c \in Conn, ReadFails(c) PROVE SessOK'
  BY <1>12 DEF TypeOK, ReadFails
<1>13. ASSUME NEW c \in Conn, GetSession(c) PROVE SessOK'
  BY <1>13 DEF TypeOK, GetSession
<1>14. ASSUME NEW c \in Conn, GetNoSession(c) PROVE SessOK'
  BY <1>14 DEF TypeOK, GetNoSession
<1>15. ASSUME NEW c \in Conn, NewSession(c) PROVE SessOK'
  BY <1>15 DEF TypeOK, NewSession, SessionLost
<1>16. ASSUME NEW c \in Conn, JoinFails(c) PROVE SessOK'
  BY <1>16 DEF TypeOK, JoinFails, ErrorReturn
<1>17. ASSUME NEW c \in Conn, AddPeer(c) PROVE SessOK'
  BY <1>17 DEF TypeOK, AddPeer
<1>18. ASSUME NEW c \in Conn, Answer(c) PROVE SessOK'
  BY <1>18 DEF TypeOK, Answer
<1>19. ASSUME NEW c \in Conn, AnswerFails(c) PROVE SessOK'
  BY <1>19 DEF TypeOK, AnswerFails, ErrorReturn
<1>20. ASSUME NEW c \in Conn, Announce(c) PROVE SessOK'
  BY <1>20 DEF TypeOK, Announce
<1>21. ASSUME NEW c \in Conn, AnnouncePanics(c) PROVE SessOK'
  BY <1>21 DEF TypeOK, AnnouncePanics, Down
<1>22. ASSUME NEW c \in Conn, Register(c) PROVE SessOK'
  BY <1>22 DEF TypeOK, Register
<1>23. ASSUME NEW c \in Conn, RequestFails(c) PROVE SessOK'
  BY <1>23 DEF TypeOK, RequestFails, ErrorReturn
<1>24. ASSUME NEW c \in Conn, RecvFails(c) PROVE SessOK'
  BY <1>24 DEF TypeOK, RecvFails
<1>25. ASSUME NEW c \in Conn, RemovePeer(c) PROVE SessOK'
  BY <1>25 DEF TypeOK, RemovePeer
<1>26. ASSUME NEW c \in Conn, CloseSession(c) PROVE SessOK'
  BY <1>26 DEF TypeOK, CloseSession, SessionLost
<1>27. ASSUME NEW c \in Conn, CloseAgain(c) PROVE SessOK'
  BY <1>27 DEF TypeOK, CloseAgain
<1>28. ASSUME NEW c \in Conn, RemoveRoom(c) PROVE SessOK'
  BY <1>28 DEF TypeOK, RemoveRoom, KeyLost
<1>29. ASSUME NEW c \in Conn, Cleanup(c) PROVE SessOK'
  BY <1>29 DEF TypeOK, Cleanup
<1>30. ASSUME NEW n \in Node, NodeCrash(n) PROVE SessOK'
  BY <1>30 DEF TypeOK, NodeCrash, Down
<1>31. ASSUME NEW n \in Node, Scan(n) PROVE SessOK'
  BY <1>31 DEF TypeOK, Scan
<1>32. CASE Expire
  BY <1>32 DEF TypeOK, Expire, KeyLost
<1>33. CASE Exec
  BY <1>33 DEF TypeOK, Exec, KeyLost
<1>34. CASE UNCHANGED vars
  BY <1>34 DEF vars
<1> QED
  BY <1>1, <1>2, <1>3, <1>4, <1>5, <1>6, <1>7, <1>8, <1>9, <1>10, <1>11, <1>12, <1>13, <1>14, <1>15, <1>16, <1>17, <1>18, <1>19, <1>20, <1>21, <1>22, <1>23, <1>24, <1>25, <1>26, <1>27, <1>28, <1>29, <1>30, <1>31, <1>32, <1>33, <1>34 DEF Next, Placement, Handler, Answering, Failure, Done

\* A step that takes the key or a session from those who use it is a split.
LEMMA UnsplitStep == TypeOK /\ HostOK /\ SessOK /\ UnsplitOK /\ [Next]_vars => UnsplitOK'
<1> SUFFICES ASSUME TypeOK /\ HostOK /\ SessOK /\ UnsplitOK, [Next]_vars PROVE UnsplitOK'
  OBVIOUS
<1> USE RoomAssumption DEF HostOK, SessOK, Early, UnsplitOK, Bound, Member, Stages, Placing, Joining, Leaving, Ended, redisVars, nodeVars, connVars, history
<1>0. /\ pc \in [Conn -> Stages] /\ at \in [Conn -> Node \cup {None}]
      /\ sess \in [Conn -> Conn \cup {None}] /\ sessions \in [Node -> Conn \cup {None}]
      /\ sigs \in [Node -> [Uid -> Conn \cup {None}]] /\ peers \in [Conn -> [Uid -> Conn \cup {None}]]
  BY DEF TypeOK
<1>1. ASSUME NEW c \in Conn, Join(c) PROVE UnsplitOK'
  BY <1>1 DEF TypeOK, Join
<1>2. ASSUME NEW c \in Conn, GetHits(c) PROVE UnsplitOK'
  BY <1>2 DEF TypeOK, GetHits, Opened
<1>3. ASSUME NEW c \in Conn, GetMisses(c) PROVE UnsplitOK'
  BY <1>3 DEF TypeOK, GetMisses
<1>4. ASSUME NEW c \in Conn, Pick(c) PROVE UnsplitOK'
  BY <1>4 DEF TypeOK, Pick
<1>5. ASSUME NEW c \in Conn, PickFails(c) PROVE UnsplitOK'
  BY <1>5 DEF TypeOK, PickFails
<1>6. ASSUME NEW c \in Conn, SetNX(c) PROVE UnsplitOK'
  BY <1>6 DEF TypeOK, SetNX
<1>7. ASSUME NEW c \in Conn, SetNXLoses(c) PROVE UnsplitOK'
  BY <1>7 DEF TypeOK, SetNXLoses
<1>8. ASSUME NEW c \in Conn, SAdd(c) PROVE UnsplitOK'
  BY <1>8 DEF TypeOK, SAdd, Opened
<1>9. ASSUME NEW c \in Conn, ReGet(c) PROVE UnsplitOK'
  BY <1>9 DEF TypeOK, ReGet, Opened
<1>10. ASSUME NEW c \in Conn, CallerDies(c) PROVE UnsplitOK'
  BY <1>10 DEF TypeOK, CallerDies
<1>11. ASSUME NEW c \in Conn, Leave(c) PROVE UnsplitOK'
  BY <1>11 DEF TypeOK, Leave
<1>12. ASSUME NEW c \in Conn, ReadFails(c) PROVE UnsplitOK'
  BY <1>12 DEF TypeOK, ReadFails
<1>13. ASSUME NEW c \in Conn, GetSession(c) PROVE UnsplitOK'
  BY <1>13 DEF TypeOK, GetSession
<1>14. ASSUME NEW c \in Conn, GetNoSession(c) PROVE UnsplitOK'
  BY <1>14 DEF TypeOK, GetNoSession
<1>15. ASSUME NEW c \in Conn, NewSession(c) PROVE UnsplitOK'
  <2> SUFFICES ASSUME ~split' PROVE UnsplitOK'
    OBVIOUS
  <2>1. ~split /\ ~(\E d \in Conn : Member(d) /\ at[d] = at[c])
    BY <1>15, Zenon DEF NewSession, SessionLost
  <2>2. \A d \in Conn : ~(Member(d) /\ at[d] = at[c])
    BY <2>1
  <2> QED
    BY <1>15, <2>1, <2>2 DEF TypeOK, NewSession
<1>16. ASSUME NEW c \in Conn, JoinFails(c) PROVE UnsplitOK'
  BY <1>16 DEF TypeOK, JoinFails, ErrorReturn
<1>17. ASSUME NEW c \in Conn, AddPeer(c) PROVE UnsplitOK'
  BY <1>17 DEF TypeOK, AddPeer
<1>18. ASSUME NEW c \in Conn, Answer(c) PROVE UnsplitOK'
  BY <1>18 DEF TypeOK, Answer
<1>19. ASSUME NEW c \in Conn, AnswerFails(c) PROVE UnsplitOK'
  BY <1>19 DEF TypeOK, AnswerFails, ErrorReturn
<1>20. ASSUME NEW c \in Conn, Announce(c) PROVE UnsplitOK'
  BY <1>20 DEF TypeOK, Announce
<1>21. ASSUME NEW c \in Conn, AnnouncePanics(c) PROVE UnsplitOK'
  BY <1>21 DEF TypeOK, AnnouncePanics, Down
<1>22. ASSUME NEW c \in Conn, Register(c) PROVE UnsplitOK'
  BY <1>22 DEF TypeOK, Register
<1>23. ASSUME NEW c \in Conn, RequestFails(c) PROVE UnsplitOK'
  BY <1>23 DEF TypeOK, RequestFails, ErrorReturn
<1>24. ASSUME NEW c \in Conn, RecvFails(c) PROVE UnsplitOK'
  BY <1>24 DEF TypeOK, RecvFails
<1>25. ASSUME NEW c \in Conn, RemovePeer(c) PROVE UnsplitOK'
  BY <1>25 DEF TypeOK, RemovePeer
<1>26. ASSUME NEW c \in Conn, CloseSession(c) PROVE UnsplitOK'
  <2> SUFFICES ASSUME ~split' PROVE UnsplitOK'
    OBVIOUS
  <2>1. ~split /\ ~(\E d \in Conn : Member(d) /\ at[d] = at[c])
    BY <1>26, Zenon DEF CloseSession, SessionLost
  <2>2. \A d \in Conn : ~(Member(d) /\ at[d] = at[c])
    BY <2>1
  <2> QED
    BY <1>26, <2>1, <2>2 DEF TypeOK, CloseSession
<1>27. ASSUME NEW c \in Conn, CloseAgain(c) PROVE UnsplitOK'
  BY <1>27 DEF TypeOK, CloseAgain
<1>28. ASSUME NEW c \in Conn, RemoveRoom(c) PROVE UnsplitOK'
  <2> SUFFICES ASSUME ~split' PROVE UnsplitOK'
    OBVIOUS
  <2>1. ~split /\ (key # None => ~(\E d \in Conn : Bound(d)))
    BY <1>28, Zenon DEF RemoveRoom, KeyLost
  <2>2. key # None => \A d \in Conn : ~Bound(d)
    BY <2>1
  <2> QED
    BY <1>28, <2>1, <2>2 DEF TypeOK, RemoveRoom
<1>29. ASSUME NEW c \in Conn, Cleanup(c) PROVE UnsplitOK'
  BY <1>29 DEF TypeOK, Cleanup
<1>30. ASSUME NEW n \in Node, NodeCrash(n) PROVE UnsplitOK'
  BY <1>30 DEF TypeOK, NodeCrash, Down
<1>31. ASSUME NEW n \in Node, Scan(n) PROVE UnsplitOK'
  BY <1>31 DEF TypeOK, Scan
<1>32. CASE Expire
  BY <1>32 DEF TypeOK, Expire, KeyLost
<1>33. CASE Exec
  BY <1>33 DEF TypeOK, Exec, KeyLost
<1>34. CASE UNCHANGED vars
  BY <1>34 DEF vars
<1> QED
  BY <1>1, <1>2, <1>3, <1>4, <1>5, <1>6, <1>7, <1>8, <1>9, <1>10, <1>11, <1>12, <1>13, <1>14, <1>15, <1>16, <1>17, <1>18, <1>19, <1>20, <1>21, <1>22, <1>23, <1>24, <1>25, <1>26, <1>27, <1>28, <1>29, <1>30, <1>31, <1>32, <1>33, <1>34 DEF Next, Placement, Handler, Answering, Failure, Done

\* Entries of a session are added by AddPeer, and leave with their peer.
LEMMA PeersStep == TypeOK /\ HostOK /\ SessOK /\ PeersOK /\ [Next]_vars => PeersOK'
<1> SUFFICES ASSUME TypeOK /\ HostOK /\ SessOK /\ PeersOK, [Next]_vars PROVE PeersOK'
  OBVIOUS
<1> USE RoomAssumption DEF HostOK, SessOK, PeersOK, Early, Added, Stages, Placing, Joining, Leaving, Ended, redisVars, nodeVars, connVars, history
<1>0. /\ pc \in [Conn -> Stages] /\ at \in [Conn -> Node \cup {None}]
      /\ sess \in [Conn -> Conn \cup {None}] /\ sessions \in [Node -> Conn \cup {None}]
      /\ sigs \in [Node -> [Uid -> Conn \cup {None}]] /\ peers \in [Conn -> [Uid -> Conn \cup {None}]]
  BY DEF TypeOK
<1>1. ASSUME NEW c \in Conn, Join(c) PROVE PeersOK'
  BY <1>1 DEF TypeOK, Join
<1>2. ASSUME NEW c \in Conn, GetHits(c) PROVE PeersOK'
  BY <1>2 DEF TypeOK, GetHits, Opened
<1>3. ASSUME NEW c \in Conn, GetMisses(c) PROVE PeersOK'
  BY <1>3 DEF TypeOK, GetMisses
<1>4. ASSUME NEW c \in Conn, Pick(c) PROVE PeersOK'
  BY <1>4 DEF TypeOK, Pick
<1>5. ASSUME NEW c \in Conn, PickFails(c) PROVE PeersOK'
  BY <1>5 DEF TypeOK, PickFails
<1>6. ASSUME NEW c \in Conn, SetNX(c) PROVE PeersOK'
  BY <1>6 DEF TypeOK, SetNX
<1>7. ASSUME NEW c \in Conn, SetNXLoses(c) PROVE PeersOK'
  BY <1>7 DEF TypeOK, SetNXLoses
<1>8. ASSUME NEW c \in Conn, SAdd(c) PROVE PeersOK'
  BY <1>8 DEF TypeOK, SAdd, Opened
<1>9. ASSUME NEW c \in Conn, ReGet(c) PROVE PeersOK'
  BY <1>9 DEF TypeOK, ReGet, Opened
<1>10. ASSUME NEW c \in Conn, CallerDies(c) PROVE PeersOK'
  BY <1>10 DEF TypeOK, CallerDies
<1>11. ASSUME NEW c \in Conn, Leave(c) PROVE PeersOK'
  BY <1>11 DEF TypeOK, Leave
<1>12. ASSUME NEW c \in Conn, ReadFails(c) PROVE PeersOK'
  BY <1>12 DEF TypeOK, ReadFails
<1>13. ASSUME NEW c \in Conn, GetSession(c) PROVE PeersOK'
  BY <1>13 DEF TypeOK, GetSession
<1>14. ASSUME NEW c \in Conn, GetNoSession(c) PROVE PeersOK'
  BY <1>14 DEF TypeOK, GetNoSession
<1>15. ASSUME NEW c \in Conn, NewSession(c) PROVE PeersOK'
  BY <1>15 DEF TypeOK, NewSession, SessionLost
<1>16. ASSUME NEW c \in Conn, JoinFails(c) PROVE PeersOK'
  BY <1>16 DEF TypeOK, JoinFails, ErrorReturn
<1>17. ASSUME NEW c \in Conn, AddPeer(c) PROVE PeersOK'
  BY <1>17 DEF TypeOK, AddPeer
<1>18. ASSUME NEW c \in Conn, Answer(c) PROVE PeersOK'
  BY <1>18 DEF TypeOK, Answer
<1>19. ASSUME NEW c \in Conn, AnswerFails(c) PROVE PeersOK'
  BY <1>19 DEF TypeOK, AnswerFails, ErrorReturn
<1>20. ASSUME NEW c \in Conn, Announce(c) PROVE PeersOK'
  BY <1>20 DEF TypeOK, Announce
<1>21. ASSUME NEW c \in Conn, AnnouncePanics(c) PROVE PeersOK'
  BY <1>21 DEF TypeOK, AnnouncePanics, Down
<1>22. ASSUME NEW c \in Conn, Register(c) PROVE PeersOK'
  BY <1>22 DEF TypeOK, Register
<1>23. ASSUME NEW c \in Conn, RequestFails(c) PROVE PeersOK'
  BY <1>23 DEF TypeOK, RequestFails, ErrorReturn
<1>24. ASSUME NEW c \in Conn, RecvFails(c) PROVE PeersOK'
  BY <1>24 DEF TypeOK, RecvFails
<1>25. ASSUME NEW c \in Conn, RemovePeer(c) PROVE PeersOK'
  BY <1>25 DEF TypeOK, RemovePeer
<1>26. ASSUME NEW c \in Conn, CloseSession(c) PROVE PeersOK'
  BY <1>26 DEF TypeOK, CloseSession, SessionLost
<1>27. ASSUME NEW c \in Conn, CloseAgain(c) PROVE PeersOK'
  BY <1>27 DEF TypeOK, CloseAgain
<1>28. ASSUME NEW c \in Conn, RemoveRoom(c) PROVE PeersOK'
  BY <1>28 DEF TypeOK, RemoveRoom, KeyLost
<1>29. ASSUME NEW c \in Conn, Cleanup(c) PROVE PeersOK'
  BY <1>29 DEF TypeOK, Cleanup
<1>30. ASSUME NEW n \in Node, NodeCrash(n) PROVE PeersOK'
  BY <1>30 DEF TypeOK, NodeCrash, Down
<1>31. ASSUME NEW n \in Node, Scan(n) PROVE PeersOK'
  BY <1>31 DEF TypeOK, Scan
<1>32. CASE Expire
  BY <1>32 DEF TypeOK, Expire, KeyLost
<1>33. CASE Exec
  BY <1>33 DEF TypeOK, Exec, KeyLost
<1>34. CASE UNCHANGED vars
  BY <1>34 DEF vars
<1> QED
  BY <1>1, <1>2, <1>3, <1>4, <1>5, <1>6, <1>7, <1>8, <1>9, <1>10, <1>11, <1>12, <1>13, <1>14, <1>15, <1>16, <1>17, <1>18, <1>19, <1>20, <1>21, <1>22, <1>23, <1>24, <1>25, <1>26, <1>27, <1>28, <1>29, <1>30, <1>31, <1>32, <1>33, <1>34 DEF Next, Placement, Handler, Answering, Failure, Done

\* Only an equal ID takes the entry of a peer that is being served.
LEMMA ListedStep == TypeOK /\ HostOK /\ SessOK /\ PeersOK /\ PeerListed /\ [Next]_vars => PeerListed'
<1> SUFFICES ASSUME TypeOK /\ HostOK /\ SessOK /\ PeersOK /\ PeerListed, [Next]_vars PROVE PeerListed'
  OBVIOUS
<1> USE RoomAssumption DEF HostOK, SessOK, PeersOK, PeerListed, Early, Added, Stages, Placing, Joining, Leaving, Ended, redisVars, nodeVars, connVars, history
<1>0. /\ pc \in [Conn -> Stages] /\ at \in [Conn -> Node \cup {None}]
      /\ sess \in [Conn -> Conn \cup {None}] /\ sessions \in [Node -> Conn \cup {None}]
      /\ sigs \in [Node -> [Uid -> Conn \cup {None}]] /\ peers \in [Conn -> [Uid -> Conn \cup {None}]]
  BY DEF TypeOK
<1>1. ASSUME NEW c \in Conn, Join(c) PROVE PeerListed'
  BY <1>1 DEF TypeOK, Join
<1>2. ASSUME NEW c \in Conn, GetHits(c) PROVE PeerListed'
  BY <1>2 DEF TypeOK, GetHits, Opened
<1>3. ASSUME NEW c \in Conn, GetMisses(c) PROVE PeerListed'
  BY <1>3 DEF TypeOK, GetMisses
<1>4. ASSUME NEW c \in Conn, Pick(c) PROVE PeerListed'
  BY <1>4 DEF TypeOK, Pick
<1>5. ASSUME NEW c \in Conn, PickFails(c) PROVE PeerListed'
  BY <1>5 DEF TypeOK, PickFails
<1>6. ASSUME NEW c \in Conn, SetNX(c) PROVE PeerListed'
  BY <1>6 DEF TypeOK, SetNX
<1>7. ASSUME NEW c \in Conn, SetNXLoses(c) PROVE PeerListed'
  BY <1>7 DEF TypeOK, SetNXLoses
<1>8. ASSUME NEW c \in Conn, SAdd(c) PROVE PeerListed'
  BY <1>8 DEF TypeOK, SAdd, Opened
<1>9. ASSUME NEW c \in Conn, ReGet(c) PROVE PeerListed'
  BY <1>9 DEF TypeOK, ReGet, Opened
<1>10. ASSUME NEW c \in Conn, CallerDies(c) PROVE PeerListed'
  BY <1>10 DEF TypeOK, CallerDies
<1>11. ASSUME NEW c \in Conn, Leave(c) PROVE PeerListed'
  BY <1>11 DEF TypeOK, Leave
<1>12. ASSUME NEW c \in Conn, ReadFails(c) PROVE PeerListed'
  BY <1>12 DEF TypeOK, ReadFails
<1>13. ASSUME NEW c \in Conn, GetSession(c) PROVE PeerListed'
  BY <1>13 DEF TypeOK, GetSession
<1>14. ASSUME NEW c \in Conn, GetNoSession(c) PROVE PeerListed'
  BY <1>14 DEF TypeOK, GetNoSession
<1>15. ASSUME NEW c \in Conn, NewSession(c) PROVE PeerListed'
  BY <1>15 DEF TypeOK, NewSession, SessionLost
<1>16. ASSUME NEW c \in Conn, JoinFails(c) PROVE PeerListed'
  BY <1>16 DEF TypeOK, JoinFails, ErrorReturn
<1>17. ASSUME NEW c \in Conn, AddPeer(c) PROVE PeerListed'
  BY <1>17 DEF TypeOK, AddPeer
<1>18. ASSUME NEW c \in Conn, Answer(c) PROVE PeerListed'
  BY <1>18 DEF TypeOK, Answer
<1>19. ASSUME NEW c \in Conn, AnswerFails(c) PROVE PeerListed'
  BY <1>19 DEF TypeOK, AnswerFails, ErrorReturn
<1>20. ASSUME NEW c \in Conn, Announce(c) PROVE PeerListed'
  BY <1>20 DEF TypeOK, Announce
<1>21. ASSUME NEW c \in Conn, AnnouncePanics(c) PROVE PeerListed'
  BY <1>21 DEF TypeOK, AnnouncePanics, Down
<1>22. ASSUME NEW c \in Conn, Register(c) PROVE PeerListed'
  BY <1>22 DEF TypeOK, Register
<1>23. ASSUME NEW c \in Conn, RequestFails(c) PROVE PeerListed'
  BY <1>23 DEF TypeOK, RequestFails, ErrorReturn
<1>24. ASSUME NEW c \in Conn, RecvFails(c) PROVE PeerListed'
  BY <1>24 DEF TypeOK, RecvFails
<1>25. ASSUME NEW c \in Conn, RemovePeer(c) PROVE PeerListed'
  BY <1>25 DEF TypeOK, RemovePeer
<1>26. ASSUME NEW c \in Conn, CloseSession(c) PROVE PeerListed'
  BY <1>26 DEF TypeOK, CloseSession, SessionLost
<1>27. ASSUME NEW c \in Conn, CloseAgain(c) PROVE PeerListed'
  BY <1>27 DEF TypeOK, CloseAgain
<1>28. ASSUME NEW c \in Conn, RemoveRoom(c) PROVE PeerListed'
  BY <1>28 DEF TypeOK, RemoveRoom, KeyLost
<1>29. ASSUME NEW c \in Conn, Cleanup(c) PROVE PeerListed'
  BY <1>29 DEF TypeOK, Cleanup
<1>30. ASSUME NEW n \in Node, NodeCrash(n) PROVE PeerListed'
  BY <1>30 DEF TypeOK, NodeCrash, Down
<1>31. ASSUME NEW n \in Node, Scan(n) PROVE PeerListed'
  BY <1>31 DEF TypeOK, Scan
<1>32. CASE Expire
  BY <1>32 DEF TypeOK, Expire, KeyLost
<1>33. CASE Exec
  BY <1>33 DEF TypeOK, Exec, KeyLost
<1>34. CASE UNCHANGED vars
  BY <1>34 DEF vars
<1> QED
  BY <1>1, <1>2, <1>3, <1>4, <1>5, <1>6, <1>7, <1>8, <1>9, <1>10, <1>11, <1>12, <1>13, <1>14, <1>15, <1>16, <1>17, <1>18, <1>19, <1>20, <1>21, <1>22, <1>23, <1>24, <1>25, <1>26, <1>27, <1>28, <1>29, <1>30, <1>31, <1>32, <1>33, <1>34 DEF Next, Placement, Handler, Answering, Failure, Done

\* Streams are registered and cleaned up under the ID of their user.
LEMMA SigsStep == TypeOK /\ HostOK /\ SessOK /\ SigsOK /\ [Next]_vars => SigsOK'
<1> SUFFICES ASSUME TypeOK /\ HostOK /\ SessOK /\ SigsOK, [Next]_vars PROVE SigsOK'
  OBVIOUS
<1> USE RoomAssumption DEF HostOK, SigsOK, Early, Stages, Placing, Joining, Leaving, Ended, redisVars, nodeVars, connVars, history
<1>0. /\ pc \in [Conn -> Stages] /\ at \in [Conn -> Node \cup {None}]
      /\ sess \in [Conn -> Conn \cup {None}] /\ sessions \in [Node -> Conn \cup {None}]
      /\ sigs \in [Node -> [Uid -> Conn \cup {None}]] /\ peers \in [Conn -> [Uid -> Conn \cup {None}]]
  BY DEF TypeOK
<1>1. ASSUME NEW c \in Conn, Join(c) PROVE SigsOK'
  BY <1>1 DEF TypeOK, Join
<1>2. ASSUME NEW c \in Conn, GetHits(c) PROVE SigsOK'
  BY <1>2 DEF TypeOK, GetHits, Opened
<1>3. ASSUME NEW c \in Conn, GetMisses(c) PROVE SigsOK'
  BY <1>3 DEF TypeOK, GetMisses
<1>4. ASSUME NEW c \in Conn, Pick(c) PROVE SigsOK'
  BY <1>4 DEF TypeOK, Pick
<1>5. ASSUME NEW c \in Conn, PickFails(c) PROVE SigsOK'
  BY <1>5 DEF TypeOK, PickFails
<1>6. ASSUME NEW c \in Conn, SetNX(c) PROVE SigsOK'
  BY <1>6 DEF TypeOK, SetNX
<1>7. ASSUME NEW c \in Conn, SetNXLoses(c) PROVE SigsOK'
  BY <1>7 DEF TypeOK, SetNXLoses
<1>8. ASSUME NEW c \in Conn, SAdd(c) PROVE SigsOK'
  BY <1>8 DEF TypeOK, SAdd, Opened
<1>9. ASSUME NEW c \in Conn, ReGet(c) PROVE SigsOK'
  BY <1>9 DEF TypeOK, ReGet, Opened
<1>10. ASSUME NEW c \in Conn, CallerDies(c) PROVE SigsOK'
  BY <1>10 DEF TypeOK, CallerDies
<1>11. ASSUME NEW c \in Conn, Leave(c) PROVE SigsOK'
  BY <1>11 DEF TypeOK, Leave
<1>12. ASSUME NEW c \in Conn, ReadFails(c) PROVE SigsOK'
  BY <1>12 DEF TypeOK, ReadFails
<1>13. ASSUME NEW c \in Conn, GetSession(c) PROVE SigsOK'
  BY <1>13 DEF TypeOK, GetSession
<1>14. ASSUME NEW c \in Conn, GetNoSession(c) PROVE SigsOK'
  BY <1>14 DEF TypeOK, GetNoSession
<1>15. ASSUME NEW c \in Conn, NewSession(c) PROVE SigsOK'
  BY <1>15 DEF TypeOK, NewSession, SessionLost
<1>16. ASSUME NEW c \in Conn, JoinFails(c) PROVE SigsOK'
  BY <1>16 DEF TypeOK, JoinFails, ErrorReturn
<1>17. ASSUME NEW c \in Conn, AddPeer(c) PROVE SigsOK'
  BY <1>17 DEF TypeOK, AddPeer
<1>18. ASSUME NEW c \in Conn, Answer(c) PROVE SigsOK'
  BY <1>18 DEF TypeOK, Answer
<1>19. ASSUME NEW c \in Conn, AnswerFails(c) PROVE SigsOK'
  BY <1>19 DEF TypeOK, AnswerFails, ErrorReturn
<1>20. ASSUME NEW c \in Conn, Announce(c) PROVE SigsOK'
  BY <1>20 DEF TypeOK, Announce
<1>21. ASSUME NEW c \in Conn, AnnouncePanics(c) PROVE SigsOK'
  BY <1>21 DEF TypeOK, AnnouncePanics, Down
<1>22. ASSUME NEW c \in Conn, Register(c) PROVE SigsOK'
  BY <1>22 DEF TypeOK, Register
<1>23. ASSUME NEW c \in Conn, RequestFails(c) PROVE SigsOK'
  BY <1>23 DEF TypeOK, RequestFails, ErrorReturn
<1>24. ASSUME NEW c \in Conn, RecvFails(c) PROVE SigsOK'
  BY <1>24 DEF TypeOK, RecvFails
<1>25. ASSUME NEW c \in Conn, RemovePeer(c) PROVE SigsOK'
  BY <1>25 DEF TypeOK, RemovePeer
<1>26. ASSUME NEW c \in Conn, CloseSession(c) PROVE SigsOK'
  BY <1>26 DEF TypeOK, CloseSession, SessionLost
<1>27. ASSUME NEW c \in Conn, CloseAgain(c) PROVE SigsOK'
  BY <1>27 DEF TypeOK, CloseAgain
<1>28. ASSUME NEW c \in Conn, RemoveRoom(c) PROVE SigsOK'
  BY <1>28 DEF TypeOK, RemoveRoom, KeyLost
<1>29. ASSUME NEW c \in Conn, Cleanup(c) PROVE SigsOK'
  BY <1>29 DEF TypeOK, Cleanup
<1>30. ASSUME NEW n \in Node, NodeCrash(n) PROVE SigsOK'
  BY <1>30 DEF TypeOK, NodeCrash, Down
<1>31. ASSUME NEW n \in Node, Scan(n) PROVE SigsOK'
  BY <1>31 DEF TypeOK, Scan
<1>32. CASE Expire
  BY <1>32 DEF TypeOK, Expire, KeyLost
<1>33. CASE Exec
  BY <1>33 DEF TypeOK, Exec, KeyLost
<1>34. CASE UNCHANGED vars
  BY <1>34 DEF vars
<1> QED
  BY <1>1, <1>2, <1>3, <1>4, <1>5, <1>6, <1>7, <1>8, <1>9, <1>10, <1>11, <1>12, <1>13, <1>14, <1>15, <1>16, <1>17, <1>18, <1>19, <1>20, <1>21, <1>22, <1>23, <1>24, <1>25, <1>26, <1>27, <1>28, <1>29, <1>30, <1>31, <1>32, <1>33, <1>34 DEF Next, Placement, Handler, Answering, Failure, Done

\* SetNX leaves an SAdd behind; what deletes a room set deletes its node.
LEMMA ListingStep == TypeOK /\ HostOK /\ SessOK /\ KeyIsListed /\ [Next]_vars => KeyIsListed'
<1> SUFFICES ASSUME TypeOK /\ HostOK /\ SessOK /\ KeyIsListed, [Next]_vars PROVE KeyIsListed'
  OBVIOUS
<1> USE RoomAssumption DEF HostOK, KeyIsListed, Stages, Placing, Joining, Leaving, Ended, redisVars, nodeVars, connVars, history
<1>0. /\ pc \in [Conn -> Stages] /\ at \in [Conn -> Node \cup {None}]
      /\ sess \in [Conn -> Conn \cup {None}] /\ sessions \in [Node -> Conn \cup {None}]
      /\ sigs \in [Node -> [Uid -> Conn \cup {None}]] /\ peers \in [Conn -> [Uid -> Conn \cup {None}]]
  BY DEF TypeOK
<1>1. ASSUME NEW c \in Conn, Join(c) PROVE KeyIsListed'
  BY <1>1 DEF TypeOK, Join
<1>2. ASSUME NEW c \in Conn, GetHits(c) PROVE KeyIsListed'
  BY <1>2 DEF TypeOK, GetHits, Opened
<1>3. ASSUME NEW c \in Conn, GetMisses(c) PROVE KeyIsListed'
  BY <1>3 DEF TypeOK, GetMisses
<1>4. ASSUME NEW c \in Conn, Pick(c) PROVE KeyIsListed'
  BY <1>4 DEF TypeOK, Pick
<1>5. ASSUME NEW c \in Conn, PickFails(c) PROVE KeyIsListed'
  BY <1>5 DEF TypeOK, PickFails
<1>6. ASSUME NEW c \in Conn, SetNX(c) PROVE KeyIsListed'
  BY <1>6 DEF TypeOK, SetNX
<1>7. ASSUME NEW c \in Conn, SetNXLoses(c) PROVE KeyIsListed'
  BY <1>7 DEF TypeOK, SetNXLoses
<1>8. ASSUME NEW c \in Conn, SAdd(c) PROVE KeyIsListed'
  BY <1>8 DEF TypeOK, SAdd, Opened
<1>9. ASSUME NEW c \in Conn, ReGet(c) PROVE KeyIsListed'
  BY <1>9 DEF TypeOK, ReGet, Opened
<1>10. ASSUME NEW c \in Conn, CallerDies(c) PROVE KeyIsListed'
  BY <1>10 DEF TypeOK, CallerDies
<1>11. ASSUME NEW c \in Conn, Leave(c) PROVE KeyIsListed'
  BY <1>11 DEF TypeOK, Leave
<1>12. ASSUME NEW c \in Conn, ReadFails(c) PROVE KeyIsListed'
  BY <1>12 DEF TypeOK, ReadFails
<1>13. ASSUME NEW c \in Conn, GetSession(c) PROVE KeyIsListed'
  BY <1>13 DEF TypeOK, GetSession
<1>14. ASSUME NEW c \in Conn, GetNoSession(c) PROVE KeyIsListed'
  BY <1>14 DEF TypeOK, GetNoSession
<1>15. ASSUME NEW c \in Conn, NewSession(c) PROVE KeyIsListed'
  BY <1>15 DEF TypeOK, NewSession, SessionLost
<1>16. ASSUME NEW c \in Conn, JoinFails(c) PROVE KeyIsListed'
  BY <1>16 DEF TypeOK, JoinFails, ErrorReturn
<1>17. ASSUME NEW c \in Conn, AddPeer(c) PROVE KeyIsListed'
  BY <1>17 DEF TypeOK, AddPeer
<1>18. ASSUME NEW c \in Conn, Answer(c) PROVE KeyIsListed'
  BY <1>18 DEF TypeOK, Answer
<1>19. ASSUME NEW c \in Conn, AnswerFails(c) PROVE KeyIsListed'
  BY <1>19 DEF TypeOK, AnswerFails, ErrorReturn
<1>20. ASSUME NEW c \in Conn, Announce(c) PROVE KeyIsListed'
  BY <1>20 DEF TypeOK, Announce
<1>21. ASSUME NEW c \in Conn, AnnouncePanics(c) PROVE KeyIsListed'
  BY <1>21 DEF TypeOK, AnnouncePanics, Down
<1>22. ASSUME NEW c \in Conn, Register(c) PROVE KeyIsListed'
  BY <1>22 DEF TypeOK, Register
<1>23. ASSUME NEW c \in Conn, RequestFails(c) PROVE KeyIsListed'
  BY <1>23 DEF TypeOK, RequestFails, ErrorReturn
<1>24. ASSUME NEW c \in Conn, RecvFails(c) PROVE KeyIsListed'
  BY <1>24 DEF TypeOK, RecvFails
<1>25. ASSUME NEW c \in Conn, RemovePeer(c) PROVE KeyIsListed'
  BY <1>25 DEF TypeOK, RemovePeer
<1>26. ASSUME NEW c \in Conn, CloseSession(c) PROVE KeyIsListed'
  BY <1>26 DEF TypeOK, CloseSession, SessionLost
<1>27. ASSUME NEW c \in Conn, CloseAgain(c) PROVE KeyIsListed'
  BY <1>27 DEF TypeOK, CloseAgain
<1>28. ASSUME NEW c \in Conn, RemoveRoom(c) PROVE KeyIsListed'
  BY <1>28 DEF TypeOK, RemoveRoom, KeyLost
<1>29. ASSUME NEW c \in Conn, Cleanup(c) PROVE KeyIsListed'
  BY <1>29 DEF TypeOK, Cleanup
<1>30. ASSUME NEW n \in Node, NodeCrash(n) PROVE KeyIsListed'
  BY <1>30 DEF TypeOK, NodeCrash, Down
<1>31. ASSUME NEW n \in Node, Scan(n) PROVE KeyIsListed'
  BY <1>31 DEF TypeOK, Scan
<1>32. CASE Expire
  BY <1>32 DEF TypeOK, Expire, KeyLost
<1>33. CASE Exec
  BY <1>33 DEF TypeOK, Exec, KeyLost
<1>34. CASE UNCHANGED vars
  BY <1>34 DEF vars
<1> QED
  BY <1>1, <1>2, <1>3, <1>4, <1>5, <1>6, <1>7, <1>8, <1>9, <1>10, <1>11, <1>12, <1>13, <1>14, <1>15, <1>16, <1>17, <1>18, <1>19, <1>20, <1>21, <1>22, <1>23, <1>24, <1>25, <1>26, <1>27, <1>28, <1>29, <1>30, <1>31, <1>32, <1>33, <1>34 DEF Next, Placement, Handler, Answering, Failure, Done

\* The invariant holds initially and every step keeps it.
THEOREM RoomInvariant == Spec => []RoomInv
<1>1. Init => RoomInv
  <2> SUFFICES ASSUME Init PROVE RoomInv
    OBVIOUS
  <2>1. TypeOK
    BY RoomAssumption DEF Init, TypeOK, Stages
  <2>2. HostOK /\ SessOK /\ UnsplitOK
    BY RoomAssumption DEF Init, HostOK, SessOK, UnsplitOK, Bound, Member, Joining, Leaving
  <2>3. PeersOK /\ PeerListed /\ SigsOK /\ KeyIsListed
    BY RoomAssumption DEF Init, PeersOK, PeerListed, SigsOK, KeyIsListed, Added
  <2> QED
    BY <2>1, <2>2, <2>3 DEF RoomInv
<1>2. RoomInv /\ [Next]_vars => RoomInv'
  <2> SUFFICES ASSUME RoomInv, [Next]_vars PROVE RoomInv'
    OBVIOUS
  <2> QED
    BY TypeStep, HostStep, SessStep, UnsplitStep, PeersStep, ListedStep, SigsStep, ListingStep DEF RoomInv
<1> QED
  BY <1>1, <1>2, PTL DEF Spec

\* TypeOK holds of every behaviour.
THEOREM RoomTypes == Spec => []TypeOK
<1>1. RoomInv => TypeOK
  BY DEF RoomInv
<1> QED
  BY <1>1, RoomInvariant, PTL

\* Together: until one of the splitting events, peers of the room share one
\* session, because the key names the one node they can be bound for.
THEOREM RoomTogether == Spec => []Together
<1>1. RoomInv => Together
  BY DEF RoomInv, UnsplitOK, Together, Added, Bound, Member, Joining
<1> QED
  BY <1>1, RoomInvariant, PTL

\* GhostsOnlyAfterError: peer.Close is the handler's only way out that
\* removes the peer, and the error returns are the only ways around it.
THEOREM RoomGhosts == Spec => []GhostsOnlyAfterError
<1>1. RoomInv => GhostsOnlyAfterError
  <2> SUFFICES ASSUME RoomInv, NEW s \in Conn, NEW c \in Conn, c \in PeersOf(s),
                      pc[c] \in {"cleanup"} \cup Ended
               PROVE c \in errored
    BY DEF GhostsOnlyAfterError
  <2>1. PICK u \in Uid : peers[s][u] = c /\ c # None
    BY DEF PeersOf
  <2> QED
    BY <2>1 DEF RoomInv, PeersOK, Added, Ended
<1> QED
  BY <1>1, RoomInvariant, PTL

\* PeerListed: a departure removes no other peer's entry.
THEOREM RoomPeers == Spec => []PeerListed
<1>1. RoomInv => PeerListed
  BY DEF RoomInv
<1> QED
  BY <1>1, RoomInvariant, PTL

\* StreamsRegistered: track events go to live streams, and pass over a served
\* stream only when its user ran another one.
THEOREM RoomStreams == Spec => []StreamsRegistered
<1>1. RoomInv => StreamsRegistered
  BY DEF RoomInv, SigsOK, StreamsRegistered
<1> QED
  BY <1>1, RoomInvariant, PTL

\* KeyIsListed: the cleaner of a registered node finds the room's key.
THEOREM RoomListing == Spec => []KeyIsListed
<1>1. RoomInv => KeyIsListed
  BY DEF RoomInv
<1> QED
  BY <1>1, RoomInvariant, PTL
=============================================================================

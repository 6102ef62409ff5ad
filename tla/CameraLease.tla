----------------------------- MODULE CameraLease -----------------------------
(***************************************************************************)
(* What the connection service of the controller promises a cluster: a      *)
(* camera's key is a lease.  A call takes it only while it is free and      *)
(* keeps it for as long as it dials and streams; only a revocation frees a  *)
(* key, whoever holds it, and leaves its call astray: streaming without a   *)
(* lease.  A call that ends leaves every key as it is.                      *)
(*                                                                         *)
(* A holder is a triple <<call, node, camera>>.  Nothing here tells which   *)
(* messages, goroutines, crashes and cleaners take, revoke and end.         *)
(***************************************************************************)
CONSTANTS Node, Camera, Call, None

VARIABLES key,     \* [Camera -> Node or None]
          held,    \* the calls under way that have their key
          astray   \* the calls under way whose key was revoked

leaseVars == <<key, held, astray>>

Init == key = [c \in Camera |-> None] /\ held = {} /\ astray = {}

\* A free key goes to a call that has none.
Take(i, n, c) ==
  /\ key[c] = None
  /\ \A x \in held \cup astray : x[1] # i
  /\ key' = [key EXCEPT ![c] = n]
  /\ held' = held \cup {<<i, n, c>>}
  /\ UNCHANGED astray

\* The keys of some cameras are freed at once: by a Disconnect, by a node that
\* starts or by a cleaner.  Their calls do not notice.
Revoke(cs) ==
  /\ key' = [c \in Camera |-> IF c \in cs THEN None ELSE key[c]]
  /\ held' = {x \in held : x[3] \notin cs}
  /\ astray' = astray \cup {x \in held : x[3] \in cs}

\* Calls end: one that failed or was closed, or those of a node that died.
End ==
  /\ held' \subseteq held /\ astray' \subseteq astray
  /\ UNCHANGED key

Next ==
  \/ End
  \/ \E i \in Call, n \in Node, c \in Camera : Take(i, n, c)
  \/ \E cs \in SUBSET Camera : Revoke(cs)

Spec == Init /\ [][Next]_leaseVars
=============================================================================

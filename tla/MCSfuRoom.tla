------------------------------ MODULE MCSfuRoom ------------------------------
(* Instances of SfuRoom for TLC. *)
EXTENDS SfuRoom, TLC

CONSTANTS c1, c2, u1, u2, u3

\* Two clients with different IDs, with the same one, and one that joins
\* without publishing beside one that publishes.
MCUsers == (c1 :> {u1, u3}) @@ (c2 :> {u1, u2})
=============================================================================

---------------------------- MODULE Renegotiation ----------------------------
(***************************************************************************)
(* What a subscriber's negotiation promises.  The set of tracks sent to a  *)
(* peer changes; the two ends agree on a set they have both seen.  Sets    *)
(* are represented by the number of changes that led to them: an agreement *)
(* never goes back to an older set and never runs ahead of the changes.    *)
(***************************************************************************)
EXTENDS Naturals

VARIABLES wanted,  \* changes made to the set of tracks so far
          agreed   \* the changes both ends have agreed on

Init == wanted = 0 /\ agreed = 0

Change == wanted' = wanted + 1 /\ UNCHANGED agreed

Agree == /\ agreed' \in agreed .. wanted
         /\ UNCHANGED wanted

Next == Change \/ Agree

Spec == Init /\ [][Next]_<<wanted, agreed>>
=============================================================================

-------------------------- MODULE MCRtspConnection --------------------------
(* Instances of RtspConnection for TLC. *)
EXTENDS RtspConnection, TLC

\* Calls and disconnects are interchangeable; nodes are too when all or none
\* of them runs its cleaner.
SymmetryCalls == Permutations(Call) \cup Permutations(Disc)
Symmetry      == Permutations(Node) \cup SymmetryCalls
=============================================================================

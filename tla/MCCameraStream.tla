--------------------------- MODULE MCCameraStream ---------------------------
(* Instances of CameraStream for TLC. *)
EXTENDS CameraStream, TLC

\* Every change of a single field.
MCChanges ==
  {[NoChange EXCEPT !.info = i] : i \in Streamable}
    \cup {[NoChange EXCEPT !.used = u] : u \in BOOLEAN}
    \cup {[NoChange EXCEPT !.event = e] : e \in BOOLEAN}

Symmetry == Permutations(Op) \cup Permutations(Info)
=============================================================================

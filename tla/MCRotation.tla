----------------------------- MODULE MCRotation -----------------------------
(***************************************************************************)
(* Instances of Rotation for model checking. Rotation requests and         *)
(* parameter writers are interchangeable.                                  *)
(***************************************************************************)
EXTENDS Rotation, TLC

Symmetry == Permutations(Requests) \cup Permutations(Writers)
=============================================================================

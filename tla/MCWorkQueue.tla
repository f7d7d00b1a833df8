----------------------------- MODULE MCWorkQueue -----------------------------
(* Instances of WorkQueue for TLC. *)
EXTENDS WorkQueue, TLC

\* Threads with the same role, and nodes other than the dummy, are alike.
Symmetry ==
  Permutations(MayAdd) \cup Permutations(MayTake)
    \cup Permutations(Node \ {Dummy})
=============================================================================

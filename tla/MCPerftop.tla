----------------------------- MODULE MCPerftop -----------------------------
(***************************************************************************)
(* Perftop for TLC: processors are interchangeable, and so are tasks.      *)
(***************************************************************************)
EXTENDS Perftop, TLC

Symmetry == Permutations(CPU) \cup Permutations(Task)
=============================================================================

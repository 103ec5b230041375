-------------------------- MODULE MCHomeworkThread --------------------------
(***************************************************************************)
(* HomeworkThread for TLC: request slots and teachers are symmetric.       *)
(***************************************************************************)
EXTENDS HomeworkThread, TLC

Symmetry == Permutations(Reqs) \cup Permutations(Teachers)
=============================================================================

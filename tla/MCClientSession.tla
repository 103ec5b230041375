-------------------------- MODULE MCClientSession --------------------------
(***************************************************************************)
(* ClientSession for TLC: tabs, and the requests of a tab, are symmetric.  *)
(***************************************************************************)
EXTENDS ClientSession, TLC

Symmetry == Permutations(Tabs) \cup Permutations(Queries)
=============================================================================

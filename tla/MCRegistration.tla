-------------------------- MODULE MCRegistration --------------------------
(* Registration for TLC.  The invitations, the registrants and the names are *)
(* sets of model values that nothing tells apart.                             *)
EXTENDS Registration, TLC

Symmetry == Permutations(Invitations) \cup Permutations(Registrants) \cup Permutations(People)
=============================================================================

-------------------------- MODULE MCRazborAccess --------------------------
(* RazborAccess for TLC.  Nothing tells the formats or the requests apart.    *)
EXTENDS RazborAccess, TLC

Symmetry == Permutations(Formats) \cup Permutations(Requests)
=============================================================================

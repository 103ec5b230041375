--------------------------- MODULE MCGradingViews ---------------------------
(***************************************************************************)
(* Instance of GradingViews for TLC: two series of one subproblem each, in *)
(* two consecutive terms; the first subproblem is a coffin.               *)
(***************************************************************************)
EXTENDS GradingViews, TLC

MCSeriesOf == [p \in Subs |-> p]
MCTermOf   == [x \in Series |-> x]
MCCoffins  == {1}
Symmetry   == Permutations(Teachers)
=============================================================================

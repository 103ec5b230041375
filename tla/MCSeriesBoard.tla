--------------------------- MODULE MCSeriesBoard ---------------------------
(***************************************************************************)
(* SeriesBoard for TLC: requests in flight are interchangeable.            *)
(***************************************************************************)
EXTENDS SeriesBoard, TLC

Symmetry == Permutations(Requests)
=============================================================================

----------------------- MODULE MCSolutionPublication -----------------------
(***************************************************************************)
(* Instance of SolutionPublication for TLC: two subproblems of one series, *)
(* one with a text and a link, the other with a PDF.                       *)
(***************************************************************************)
EXTENDS SolutionPublication

MCOffered == [s \in Subproblems |-> IF s = 1 THEN {"tex", "link"} ELSE {"pdf"}]
=============================================================================

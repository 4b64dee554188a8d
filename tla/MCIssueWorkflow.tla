--------------------------- MODULE MCIssueWorkflow ---------------------------
(***************************************************************************)
(* IssueWorkflow for TLC.  Requests are told apart by nothing, so the runs *)
(* of safety properties may treat them as symmetric.                       *)
(***************************************************************************)
EXTENDS IssueWorkflow, TLC

RequestSymmetry == Permutations(Requests)
=============================================================================

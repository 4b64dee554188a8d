----------------------------- MODULE MCJobQueue -----------------------------
(***************************************************************************)
(* Small instances of JobQueue: pipelines over the same two job types, as  *)
(* issues queued for the same processing are, and two runners.             *)
(***************************************************************************)
EXTENDS JobQueueRefinement, JobQueueProofs, TLC

CONSTANTS r1, r2, move, split

(* Both pipelines share the job types, so either runner meets both.        *)
MCTwoSteps == [c \in Chains |-> <<move, split>>]

(* A pipeline of three jobs which comes back to its first type, and one of a
   single job which competes for the same runner.                          *)
MCThreeSteps ==
  [c \in Chains |-> IF c = "issue1" THEN <<move, split, move>> ELSE <<split>>]

(* The set-up of run-jobs watchall: each type has one runner.              *)
MCDisjoint == (r1 :> {move}) @@ (r2 :> {split})
=============================================================================

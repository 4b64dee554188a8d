---------------------------- MODULE MCMoveIssue ----------------------------
(***************************************************************************)
(* Small instances of MoveIssue, and the check that its pipelines are      *)
(* those WatchAll lists the job types of.                                  *)
(***************************************************************************)
EXTENDS MoveIssue

Types == INSTANCE WatchAll

TypesOf(jobs) == [i \in 1..Len(jobs) |-> jobs[i].type]

(* The pipelines with files are the pipelines the runners are set up for,
   whether the issue was scanned (no backup) or not.                        *)
ASSUME SamePipelines ==
  \A backup \in {"", "backup"} :
    LET issue == [location |-> "workflow", backup |-> backup, ws |-> "ReadyForBatching"]
        hasBackup == backup # ""
    IN  /\ TypesOf(QueueSFTPIssueMove(issue)) = Types!QueueSFTPIssueMove
        /\ TypesOf(QueueMoveIssueForDerivatives(issue)) = Types!QueueMoveIssueForDerivatives
        /\ TypesOf(QueueForceDerivatives(issue)) = Types!QueueForceDerivatives
        /\ TypesOf(QueueFinalizeIssue(issue)) = Types!QueueFinalizeIssue(hasBackup)
        /\ TypesOf(QueueMakeBatch) = Types!QueueMakeBatch
        /\ TypesOf(GetJobsForRemoveErroredIssue(issue))
             = Types!GetJobsForRemoveErroredIssue(hasBackup)
=============================================================================

------------------------------ MODULE WatchAll ------------------------------
(***************************************************************************)
(* The pipelines the queue builders make (jobs/queue.go), by their job     *)
(* types, and the runners of "run-jobs watchall" (cmd/run-jobs/main.go):   *)
(* the values the constants of JobQueue have when the system is set up as  *)
(* its documentation recommends.  What the jobs of a pipeline do is not    *)
(* told here.                                                              *)
(***************************************************************************)
EXTENDS Sequences, TLAPS

(* The job types each of the runners of runAllQueues watches               *)
RunAllQueues == [
  disk    |-> {"archive_backups", "move_derivatives", "sync_directory",
               "delete_directory", "write_bagit_manifest"},
  cpu     |-> {"page_split", "make_derivatives"},
  quick   |-> {"build_mets", "create_batch_structure", "make_batch_xml",
               "rename_directory", "clean_files", "write_action_log",
               "renumber_pages"},
  instant |-> {"set_issue_workflow_step", "set_issue_original_backup_location",
               "set_issue_location", "ignore_issue", "set_batch_status",
               "set_batch_location", "record_issue_action"}]

ValidJobTypes ==
  {"set_issue_workflow_step", "set_issue_original_backup_location",
   "set_issue_location", "ignore_issue", "set_batch_status", "page_split",
   "make_derivatives", "move_derivatives", "build_mets", "archive_backups",
   "set_batch_location", "create_batch_structure", "make_batch_xml",
   "write_action_log", "write_bagit_manifest", "sync_directory",
   "delete_directory", "rename_directory", "clean_files", "renumber_pages",
   "record_issue_action"}

----------------------------------------------------------------------------
(* Moving a directory through a work-in-progress name                      *)
MoveDir == <<"sync_directory", "delete_directory", "rename_directory">>

QueueSFTPIssueMove ==
  <<"set_issue_workflow_step">> \o MoveDir
  \o <<"set_issue_location", "clean_files", "page_split",
       "sync_directory", "delete_directory",
       "set_issue_original_backup_location", "rename_directory">>
  \o MoveDir
  \o <<"set_issue_location", "set_issue_workflow_step", "record_issue_action">>

QueueMoveIssueForDerivatives ==
  <<"set_issue_workflow_step">> \o MoveDir
  \o <<"set_issue_location", "clean_files", "renumber_pages",
       "make_derivatives", "set_issue_workflow_step", "record_issue_action">>

QueueForceDerivatives ==
  <<"set_issue_workflow_step", "make_derivatives", "build_mets",
    "set_issue_workflow_step", "record_issue_action">>

ArchiveJobs ==
  <<"archive_backups", "delete_directory", "set_issue_original_backup_location">>

QueueFinalizeIssue(hasBackup) ==
  <<"build_mets">>
  \o (IF hasBackup THEN ArchiveJobs ELSE <<>>)
  \o <<"set_issue_workflow_step", "record_issue_action">>

QueueMakeBatch ==
  <<"create_batch_structure", "set_batch_location", "make_batch_xml",
    "rename_directory", "set_batch_location", "set_batch_status",
    "write_bagit_manifest">>

GetJobsForRemoveErroredIssue(hasBackup) ==
  <<"sync_directory", "delete_directory", "set_issue_location",
    "move_derivatives", "write_action_log">>
  \o (IF hasBackup THEN ArchiveJobs ELSE <<>>)
  \o <<"rename_directory", "ignore_issue", "set_issue_location",
       "set_issue_workflow_step", "record_issue_action">>
----------------------------------------------------------------------------
(* Every valid job type is watched by one and only one of the runners of
   runAllQueues: the assumption DisjointWatches under which JobQueueProofs
   shows that a pipeline's jobs run one at a time.                         *)
THEOREM WatchedOnce ==
  /\ \A t \in ValidJobTypes : \E r \in DOMAIN RunAllQueues : t \in RunAllQueues[r]
  /\ \A r, s \in DOMAIN RunAllQueues :
       r # s => RunAllQueues[r] \cap RunAllQueues[s] = {}
<1>1. DOMAIN RunAllQueues = {"disk", "cpu", "quick", "instant"}
  BY DEF RunAllQueues
<1>2. \A t \in ValidJobTypes : \E r \in DOMAIN RunAllQueues : t \in RunAllQueues[r]
  BY <1>1 DEF ValidJobTypes, RunAllQueues
<1>3. ASSUME NEW r \in DOMAIN RunAllQueues, NEW s \in DOMAIN RunAllQueues, r # s
      PROVE  RunAllQueues[r] \cap RunAllQueues[s] = {}
  BY <1>1, <1>3 DEF RunAllQueues
<1>4. QED
  BY <1>2, <1>3
=============================================================================

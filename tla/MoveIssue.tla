----------------------------- MODULE MoveIssue -----------------------------
(***************************************************************************)
(* What the jobs of jobs/queue.go do to an issue's files: one issue, from  *)
(* its upload to its batch or to the errors directory, its row's location  *)
(* and workflow step, and the directories its files pass through.          *)
(*                                                                         *)
(* The job table is JobQueue's; here only what that module shows of it is  *)
(* used: a pipeline's jobs are executed one at a time, in order, each at   *)
(* least once.  A job adds or removes one file at a time, and may fail or  *)
(* lose its process between any two of them.                               *)
(*                                                                         *)
(* A file is named by what it holds, <<kind, page>>, whatever its name.  A *)
(* half-written file counts as not there: each writer replaces it.         *)
(***************************************************************************)
EXTENDS Integers, Sequences

CONSTANTS
  Pages,       (* the pages of the issue                                     *)
  MaxRetries,  (* how often a job that failed is tried again                 *)
  MaxFaults,   (* bound: how many errors and crashes there may be in all     *)
  Faults       (* which may happen: "error", a job fails for a passing
                  reason; "crash", a process dies or loses the database     *)

(* An upload without files is not taken in (ErrNoFiles).                   *)
ASSUME MoveAssumption ==
  /\ Pages # {}
  /\ MaxRetries \in Nat /\ MaxFaults \in Nat /\ Faults \subseteq {"error", "crash"}

VARIABLES
  fs,        (* fs[d]: the files in directory d, NoDir if there is none      *)
  row,       (* the issue's row                                              *)
  batch,     (* the row of the issue's batch                                 *)
  todo,      (* the jobs of the pipeline under way, the current one first    *)
  jobState,  (* of the current job: "on_hold" until the runner that saved the
                one before releases it ("stranded" when it never will),
                "pending", "running", "done" (not saved yet), "failed", or
                "in_process" after the death of the process                  *)
  retries,   (* the current job's retry count                                *)
  scan,      (* where the watcher of page review is: "idle", "renamed",
                "saved", or "dead" between two of these                      *)
  faults     (* how many errors and crashes there have been                  *)

vars == <<fs, row, batch, todo, jobState, retries, scan, faults>>
jobVars == <<todo, jobState, retries>>

----------------------------------------------------------------------------
FilesOf(kind) == {<<kind, p>> : p \in Pages}
Cruft == <<"cruft", 0>>   (* dotfiles, Thumbs.db                             *)
METS  == <<"mets", 0>>
Log   == <<"actions", 0>>
Files == (UNION {FilesOf(k) : k \in {"original", "page", "derivative", "tarred"}})
           \cup {Cruft, METS, Log}

NoDir == {<<"no such directory", 0>>}

Dirs == {"upload", "workflow", "workflow-wip", "backup", "pagereview",
         "pagereview-wip", "notouchie", "errors-wip/content",
         "errors-wip/derivatives", "errors/content", "errors/derivatives",
         "batch-wip", "batch"}

(* A renamed directory takes those in it along.                            *)
Inside(d) ==
  CASE d = "errors-wip" -> <<"errors-wip/content", "errors-wip/derivatives">>
    [] d = "errors"     -> <<"errors/content", "errors/derivatives">>
    [] OTHER            -> <<d>>

Exists(d) == \E i \in DOMAIN Inside(d) : fs[Inside(d)[i]] # NoDir
Content(d) == IF d \in Dirs /\ fs[d] # NoDir THEN fs[d] ELSE {}

Steps == {"Upload", "AwaitingProcessing", "AwaitingPageReview",
          "ReadyForMetadataEntry", "ReadyForMETSXML", "ReadyForBatching",
          "UnfixableMetadataError"}

----------------------------------------------------------------------------
(* The pipelines of jobs/queue.go with the arguments they put in the jobs  *)

Job(type, from, to) == [type |-> type, from |-> from, to |-> to]
SyncDir(s, d)     == Job("sync_directory", s, d)
KillDir(d)        == Job("delete_directory", d, "")
RenameDir(s, d)   == Job("rename_directory", s, d)
SetWS(ws)         == Job("set_issue_workflow_step", "", ws)
SetLocation(d)    == Job("set_issue_location", "", d)
SetBackup(d)      == Job("set_issue_original_backup_location", "", d)
OnIssue(type)     == Job(type, "issue", "issue")
RecordAction      == OnIssue("record_issue_action")

MoveThrough(src, wip, dst) == <<SyncDir(src, wip), KillDir(src), RenameDir(wip, dst)>>

QueueSFTPIssueMove(issue) ==
  <<SetWS("AwaitingProcessing")>>
  \o MoveThrough(issue.location, "workflow-wip", "workflow")
  \o <<SetLocation("workflow"), Job("clean_files", "workflow", ""),
       Job("page_split", "issue", "workflow-wip"),
       SyncDir("workflow", "backup"), KillDir("workflow"), SetBackup("backup"),
       RenameDir("workflow-wip", "workflow")>>
  \o MoveThrough("workflow", "pagereview-wip", "pagereview")
  \o <<SetLocation("pagereview"), SetWS("AwaitingPageReview"), RecordAction>>

QueueMoveIssueForDerivatives(issue) ==
  <<SetWS("AwaitingProcessing")>>
  \o MoveThrough(issue.location, "workflow-wip", "workflow")
  \o <<SetLocation("workflow"), Job("clean_files", "workflow", ""),
       OnIssue("renumber_pages"), OnIssue("make_derivatives"),
       SetWS("ReadyForMetadataEntry"), RecordAction>>

QueueForceDerivatives(issue) ==
  <<SetWS("AwaitingProcessing"), OnIssue("make_derivatives"),
    OnIssue("build_mets"), SetWS(issue.ws), RecordAction>>

ArchiveJobs(issue) ==
  IF issue.backup = "" THEN <<>>
  ELSE <<OnIssue("archive_backups"), KillDir(issue.backup), SetBackup("")>>

QueueFinalizeIssue(issue) ==
  <<OnIssue("build_mets")>> \o ArchiveJobs(issue)
  \o <<SetWS("ReadyForBatching"), RecordAction>>

QueueMakeBatch ==
  <<Job("create_batch_structure", "issue", "batch-wip"),
    Job("set_batch_location", "", "batch-wip"), Job("make_batch_xml", "batch", ""),
    RenameDir("batch-wip", "batch"),
    Job("set_batch_location", "", "batch"), Job("set_batch_status", "", "qc_ready"),
    Job("write_bagit_manifest", "batch", "")>>

GetJobsForRemoveErroredIssue(issue) ==
  <<SyncDir(issue.location, "errors-wip/content"), KillDir(issue.location),
    SetLocation("errors-wip/content"),
    Job("move_derivatives", "issue", "errors-wip/derivatives"),
    OnIssue("write_action_log")>>
  \o ArchiveJobs(issue)
  \o <<RenameDir("errors-wip", "errors"), OnIssue("ignore_issue"), SetLocation(""),
       SetWS("UnfixableMetadataError"), RecordAction>>

----------------------------------------------------------------------------
Init ==
  /\ row \in [scanned : BOOLEAN, location : {"upload"}, backup : {""},
              ws : {"Upload"}, ignored : {FALSE}]
  /\ fs = [d \in Dirs |->
             IF d # "upload" THEN NoDir
             ELSE FilesOf(IF row.scanned THEN "page" ELSE "original") \cup {Cruft}]
  /\ batch = [location |-> "", status |-> "none"]
  /\ todo = <<>>
  /\ jobState = "pending"
  /\ retries = 0
  /\ scan = "idle"
  /\ faults = 0

----------------------------------------------------------------------------
(* What Process does to the files, job type by job type.  An issue job     *)
(* looks for the issue where the row says it is.                           *)

Place(d) == IF d = "issue" THEN row.location ELSE IF d = "batch" THEN batch.location ELSE d
From(j) == Place(j.from)
To(j)   == Place(j.to)

MadeFrom(made, kind, d) == {<<made, p>> : p \in {q \in Pages : <<kind, q>> \in Content(d)}}

Synced(j)    == Content(From(j))
Linked(j)    == Content(From(j))
SplitOff(j)  == MadeFrom("page", "original", From(j))
Derived(j)   == MadeFrom("derivative", "page", From(j))
Archived     == MadeFrom("tarred", "original", row.backup)
Transformed  == {METS}
ActionLog    == {Log}
Killed(j)    == Content(From(j))
Fraggable(j) == Content(From(j)) \cap {Cruft}
Movable(j)   == Content(From(j)) \cap (FilesOf("derivative") \cup Transformed)

(* Mutant: a retry takes what an earlier try has copied for all there is.  *)
WantedUnlessBegun(j) ==
  CASE j.type = "sync_directory" ->
         IF retries > 0 /\ Exists(To(j)) THEN {} ELSE Synced(j)
    [] j.type = "create_batch_structure" -> Linked(j)
    [] j.type = "page_split"             -> SplitOff(j)
    [] OTHER                             -> {}

(* The files a job puts in To(j)                                           *)
Wanted(j) ==
  CASE j.type = "sync_directory"         -> Synced(j)
    [] j.type = "create_batch_structure" -> Linked(j)
    [] j.type = "page_split"             -> SplitOff(j)
    [] j.type = "make_derivatives"       -> Derived(j)
    [] j.type = "archive_backups"        -> Archived
    [] j.type = "build_mets"             -> Transformed
    [] j.type = "write_action_log"       -> ActionLog
    [] OTHER                             -> {}

(* The files a job removes from From(j)                                    *)
Unwanted(j) ==
  CASE j.type = "delete_directory" -> Killed(j)
    [] j.type = "clean_files"      -> Fraggable(j)
    [] j.type = "move_derivatives" -> Movable(j)
    [] OTHER                       -> {}

(* Mutant: a copy begun earlier is in the way of the next.                 *)
MustNotExistForAnyCopy(j) ==
  j.type \in {"page_split", "create_batch_structure", "move_derivatives", "sync_directory"}

(* These create their destination, and give up if it is there already.     *)
MustNotExist(j) ==
  j.type \in {"page_split", "create_batch_structure", "move_derivatives"}

(* os.Rename needs its source, and no directory, be it empty, in its way.  *)
CannotRename(s, d) == ~Exists(s) \/ Exists(d)

(* Derivatives are made only of pages, and only if nothing but pages and
   what was made of them is there.                                         *)
InvalidSources(d) ==
  \/ FilesOf("page") \cap Content(d) = {}
  \/ Content(d) \cap (FilesOf("original") \cup {Cruft}) # {}

(* What makes Process return false however often it is tried               *)
Impossible(j) ==
  CASE j.type \in {"sync_directory", "clean_files", "create_batch_structure",
                   "move_derivatives", "renumber_pages", "build_mets",
                   "write_action_log", "make_batch_xml", "write_bagit_manifest"}
                                   -> ~Exists(From(j))
    [] j.type = "delete_directory" -> j.from = ""
    [] j.type = "rename_directory" -> CannotRename(j.from, j.to)
    [] j.type = "page_split"       -> SplitOff(j) = {}
    [] j.type = "make_derivatives" -> InvalidSources(From(j))
    [] j.type = "archive_backups"  -> row.backup # "" /\ ~Exists(row.backup)
    [] OTHER                       -> FALSE

Renamed(s, d) ==
  [x \in Dirs |->
     IF \E i \in DOMAIN Inside(d) : Inside(d)[i] = x
     THEN fs[Inside(s)[CHOOSE i \in DOMAIN Inside(d) : Inside(d)[i] = x]]
     ELSE IF \E i \in DOMAIN Inside(s) : Inside(s)[i] = x THEN NoDir ELSE fs[x]]

(* Mutant: the backup's location is not changed.                           *)
RowAfterWithoutBackup(j) ==
  CASE j.type = "set_issue_workflow_step" -> [row EXCEPT !.ws = j.to]
    [] j.type = "set_issue_location"      -> [row EXCEPT !.location = j.to]
    [] j.type = "ignore_issue"            -> [row EXCEPT !.ignored = TRUE]
    [] OTHER                              -> row

(* The row as the metadata jobs save it                                    *)
RowAfter(j) ==
  CASE j.type = "set_issue_workflow_step"            -> [row EXCEPT !.ws = j.to]
    [] j.type = "set_issue_location"                 -> [row EXCEPT !.location = j.to]
    [] j.type = "set_issue_original_backup_location" -> [row EXCEPT !.backup = j.to]
    [] j.type = "ignore_issue"                       -> [row EXCEPT !.ignored = TRUE]
    [] OTHER                                         -> row

BatchAfter(j) ==
  CASE j.type = "set_batch_location" -> [batch EXCEPT !.location = j.to]
    [] j.type = "set_batch_status"   -> [batch EXCEPT !.status = j.to]
    [] OTHER                         -> batch

----------------------------------------------------------------------------
(* The execution of the current job                                        *)

Begin ==
  /\ todo # <<>> /\ jobState = "pending"
  /\ ~(MustNotExist(Head(todo)) /\ Exists(To(Head(todo))))
  /\ ~Impossible(Head(todo))
  /\ jobState' = "running"
  /\ fs' = IF MustNotExist(Head(todo)) /\ Head(todo).type # "page_split"
           THEN [fs EXCEPT ![To(Head(todo))] = {}] ELSE fs
  /\ UNCHANGED <<row, batch, todo, retries, scan, faults>>

(* One more file is there; a tar appears as a whole.                       *)
PutFile ==
  /\ jobState = "running"
  /\ LET j == Head(todo)
         new == Wanted(j) \ Content(To(j))
     IN  \E f \in new :
           fs' = [fs EXCEPT ![To(j)] =
                    Content(To(j)) \cup (IF j.type = "archive_backups" THEN new ELSE {f})]
  /\ UNCHANGED <<row, batch, todo, jobState, retries, scan, faults>>

(* One file less; MoveDerivatives renames it into its destination.         *)
RemoveFile ==
  /\ jobState = "running"
  /\ LET j == Head(todo)
     IN  \E f \in Unwanted(j) :
           fs' = [d \in Dirs |->
                    IF d = From(j) THEN fs[d] \ {f}
                    ELSE IF j.type = "move_derivatives" /\ d = To(j) THEN fs[d] \cup {f}
                    ELSE fs[d]]
  /\ UNCHANGED <<row, batch, todo, jobState, retries, scan, faults>>

(* Process returns true.  Renaming, and removing the emptied directory, are
   steps of the file system; row jobs save the row.                        *)
Finish ==
  /\ jobState = "running"
  /\ LET j == Head(todo)
     IN  /\ Wanted(j) \subseteq Content(To(j))
         /\ Unwanted(j) = {}
         /\ fs' = CASE j.type = "rename_directory" -> Renamed(j.from, j.to)
                    [] j.type = "delete_directory" -> [fs EXCEPT ![j.from] = NoDir]
                    [] OTHER                       -> fs
         /\ row' = RowAfter(j)
         /\ batch' = BatchAfter(j)
  /\ jobState' = "done"
  /\ UNCHANGED <<todo, retries, scan, faults>>

(* The runner saves the job as successful ...                              *)
HandleSuccess ==
  /\ jobState = "done"
  /\ todo' = Tail(todo)
  /\ jobState' = IF Tail(todo) = <<>> THEN "pending" ELSE "on_hold"
  /\ retries' = 0
  /\ UNCHANGED <<fs, row, batch, scan, faults>>

(* ... and then makes the next one pending.                                *)
QueueNextJob ==
  /\ jobState = "on_hold"
  /\ jobState' = "pending"
  /\ UNCHANGED <<fs, row, batch, todo, retries, scan, faults>>

(* Mutant: the clone does not count up.                                    *)
RetriedForEver == jobState' = "pending" /\ UNCHANGED retries

(* Mutant: one retry too many                                              *)
RetriedOffByOne ==
  IF retries <= MaxRetries
  THEN jobState' = "pending" /\ retries' = retries + 1
  ELSE jobState' = "failed" /\ UNCHANGED retries

Retried ==
  IF retries < MaxRetries
  THEN jobState' = "pending" /\ retries' = retries + 1
  ELSE jobState' = "failed" /\ UNCHANGED retries

(* Process returns false since it cannot do otherwise ...                  *)
Refuse ==
  /\ todo # <<>> /\ jobState = "pending"
  /\ \/ MustNotExist(Head(todo)) /\ Exists(To(Head(todo)))
     \/ Impossible(Head(todo))
  /\ Retried
  /\ UNCHANGED <<fs, row, batch, todo, scan, faults>>

(* ... or for some passing reason.                                         *)
Fail ==
  /\ "error" \in Faults /\ faults < MaxFaults
  /\ jobState = "running"
  /\ Retried
  /\ faults' = faults + 1
  /\ UNCHANGED <<fs, row, batch, todo, scan>>

(* The runner's process dies, or its save fails.  Between its two saves that
   leaves nobody to release the next job.                                  *)
Crash ==
  /\ "crash" \in Faults /\ faults < MaxFaults
  /\ jobState \in {"running", "done", "on_hold"}
  /\ jobState' = IF jobState = "on_hold" THEN "stranded" ELSE "in_process"
  /\ faults' = faults + 1
  /\ UNCHANGED <<fs, row, batch, todo, retries, scan>>

(* The documented repair: back to pending, by hand                         *)
ResetCanceledJob ==
  /\ jobState = "in_process"
  /\ jobState' = "pending"
  /\ UNCHANGED <<fs, row, batch, todo, retries, scan, faults>>

(* run-jobs requeue                                                        *)
Requeue ==
  /\ jobState = "failed"
  /\ jobState' = "pending"
  /\ retries' = 0
  /\ UNCHANGED <<fs, row, batch, todo, scan, faults>>

----------------------------------------------------------------------------
(* Who queues the pipelines                                                *)

(* Whoever comes next looks at the row only.  What is left of its pipeline by
   then is the job that records it, if anything; it is not followed further. *)
Settled == todo \in {<<>>, <<RecordAction>>}

Queue(jobs) ==
  /\ Settled /\ scan = "idle"
  /\ todo' = jobs
  /\ jobState' = "pending"
  /\ retries' = 0
  /\ UNCHANGED <<fs, scan, faults>>

QueueUpload ==
  /\ row.ws = "Upload"
  /\ Queue(IF row.scanned THEN QueueMoveIssueForDerivatives(row) ELSE QueueSFTPIssueMove(row))
  /\ UNCHANGED <<row, batch>>

(* Metadata approved by a reviewer                                         *)
Approve ==
  /\ row.ws = "ReadyForMetadataEntry"
  /\ Queue(QueueFinalizeIssue(row))
  /\ row' = [row EXCEPT !.ws = "ReadyForMETSXML"]
  /\ UNCHANGED batch

(* The issue's error was found beyond repair.                              *)
Remove ==
  /\ row.ws = "ReadyForMetadataEntry"
  /\ Queue(GetJobsForRemoveErroredIssue(row))
  /\ row' = [row EXCEPT !.ws = "AwaitingProcessing"]
  /\ UNCHANGED batch

MakeBatch ==
  /\ row.ws = "ReadyForBatching" /\ batch.status = "none"
  /\ Queue(QueueMakeBatch)
  /\ batch' = [batch EXCEPT !.status = "pending"]
  /\ UNCHANGED row

ForceDerivatives ==
  /\ row.ws = "ReadyForBatching" /\ batch.status = "qc_ready"
  /\ Queue(QueueForceDerivatives(row))
  /\ batch' = [batch EXCEPT !.status = "deleted"]
  /\ UNCHANGED row

(* The watcher of page review hides the directory, saves the row and queues
   the move: three steps, between which its process may die.  It waits an hour
   after the last change (pageReviewIssueReady): by then a job that has saved
   the row's step is taken to be saved itself.                             *)
NotouchieRename ==
  /\ row.ws = "AwaitingPageReview" /\ Settled /\ scan = "idle"
  /\ ~CannotRename(row.location, "notouchie")
  /\ fs' = Renamed(row.location, "notouchie")
  /\ scan' = "renamed"
  /\ todo' = <<>> /\ jobState' = "pending" /\ retries' = 0
  /\ UNCHANGED <<row, batch, faults>>

NotouchieSave ==
  /\ scan = "renamed"
  /\ row' = [row EXCEPT !.location = "notouchie", !.ws = "AwaitingProcessing"]
  /\ scan' = "saved"
  /\ UNCHANGED <<fs, batch, jobVars, faults>>

NotouchieQueue ==
  /\ scan = "saved"
  /\ todo' = QueueMoveIssueForDerivatives(row)
  /\ scan' = "idle"
  /\ UNCHANGED <<fs, row, batch, jobState, retries, faults>>

WatcherDies ==
  /\ "crash" \in Faults /\ faults < MaxFaults
  /\ scan \in {"renamed", "saved"}
  /\ scan' = "dead"
  /\ faults' = faults + 1
  /\ UNCHANGED <<fs, row, batch, jobVars>>

----------------------------------------------------------------------------
Runner == Begin \/ PutFile \/ RemoveFile \/ Finish \/ HandleSuccess \/ QueueNextJob \/ Refuse
Watcher == NotouchieRename \/ NotouchieSave \/ NotouchieQueue
People == QueueUpload \/ Approve \/ Remove \/ MakeBatch \/ ForceDerivatives \/ Requeue

Next == Runner \/ Watcher \/ People \/ Fail \/ Crash \/ ResetCanceledJob \/ WatcherDies

(* Runners and watchers loop; people do reset jobs a crash has left.       *)
Fairness == WF_vars(Runner) /\ WF_vars(Watcher) /\ WF_vars(ResetCanceledJob)

Spec == Init /\ [][Next]_vars /\ Fairness

----------------------------------------------------------------------------
(* Properties                                                              *)

TypeOK ==
  /\ \A d \in Dirs : fs[d] = NoDir \/ fs[d] \subseteq Files
  /\ row.location \in Dirs \cup {""} /\ row.backup \in {"", "backup"} /\ row.ws \in Steps
  /\ jobState \in {"on_hold", "stranded", "pending", "running", "done", "failed", "in_process"}
  /\ retries \in 0..MaxRetries /\ faults \in 0..MaxFaults
  /\ scan \in {"idle", "renamed", "saved", "dead"}

Somewhere(f) == \E d \in Dirs : f \in Content(d)

(* Whatever fails, is retried, dies or is reset, and at whatever file: each
   page's original upload is in some directory or in a tar, and from the
   time the originals leave the workflow area each page is somewhere too.  *)
ContentKept ==
  \A p \in Pages :
    /\ row.scanned \/ Somewhere(<<"original", p>>) \/ Somewhere(<<"tarred", p>>)
    /\ row.scanned \/ row.backup # "" \/ row.ws \notin {"Upload", "AwaitingProcessing"}
         => Somewhere(<<"page", p>>)

(* The directories other people look into never show an issue half moved:
   that is what the .wip- names are for.                                   *)
ShownComplete ==
  \A d \in {"pagereview", "errors/content", "batch"} :
    fs[d] # NoDir => FilesOf("page") \subseteq fs[d]

(* When nothing is under way, the row and the file system agree: the issue
   is where its row says, with the files its workflow step asks for.       *)
StepMeansFiles ==
  Settled /\ scan = "idle" =>
    LET have == Content(row.location)
    IN  CASE row.ws = "AwaitingPageReview" -> FilesOf("page") \subseteq have
          [] row.ws = "ReadyForMetadataEntry" ->
               have = FilesOf("page") \cup FilesOf("derivative")
          [] row.ws = "ReadyForBatching" ->
               /\ have = FilesOf("page") \cup FilesOf("derivative") \cup {METS}
                           \cup (IF row.scanned THEN {} ELSE FilesOf("tarred"))
               /\ row.backup = "" /\ fs["backup"] = NoDir
               /\ batch.status = "qc_ready" => have \subseteq Content(batch.location)
          [] row.ws = "UnfixableMetadataError" ->
               /\ row.location = "" /\ row.ignored
               /\ \A d \in Dirs : fs[d] # NoDir => d \in {"errors/content", "errors/derivatives"}
          [] OTHER -> TRUE

(* With no more faults than retries, jobs of all but these types get done:
   their sources are always there when they are executed once more.        *)
Unrepeatable == {"rename_directory", "page_split", "create_batch_structure", "move_derivatives"}

OnlyUnrepeatableFail ==
  jobState = "failed" => Head(todo).type \in Unrepeatable

(* A pipeline under way comes to its end, or to a job which gave up, or one
   whose runner was cut off between the two saves of a success: that alone
   stops a pipeline for good, whatever else dies and is reset.             *)
PipelineEnds == todo # <<>> ~> todo = <<>> \/ jobState \in {"failed", "stranded"}

(* "Due to the jobs now being idempotent, all will attempt to auto-retry":
   with no more errors than retries, every pipeline comes to its end.      *)
RetriesSucceed == todo # <<>> ~> todo = <<>>
=============================================================================

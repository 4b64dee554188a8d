# Newspaper Curation App: TLA+ models and proofs

NCA takes newspaper issues from publishers' uploads and in-house scanners
through derivative generation, metadata entry and review, METS generation and
batching, until a batch of issues can be loaded into a live site. This
directory models the parts of it where things happen at the same time, fail half
way, or are carried on days later by another process. Paths are relative to the
repository; the Go code is under `src/`.

## How to run

    tlc -workers 2 -config JobQueue_faults.cfg MCJobQueue      # see the table of runs
    tlapm JobQueueProofs.tla     # likewise the other modules named ...Proofs, and WatchAll

The community modules for TLA+ must be on the library path. Definitions with
`Mutant:` in their comment are not part of any specification: each is a
plausible wrong version of the definition that follows it. Put in its place, it
makes TLC find the property listed beside it in `PROJECT.json` violated.
`PROJECT.json` also maps each definition to the lines it models; a small
definition shares the entry of the one it serves.

## The system: inventory

What each part keeps, does and shares with the others; what is hard in it; what
makes it correct. "M" is modelled, "P" partly, "-" not at all.

| Part | State and operations | Hard in it | Correct when |
|---|---|---|---|
| Job table, `models/job.go` (M) | rows of `jobs`: type, status, run_at, retry_count, queue_job_id; pop, save, clone-and-close in transactions | several processes write whole rows from copies | one live job per pipeline |
| Runners, `jobs/runner.go` (M) | one goroutine per group of job types, with a done flag; pop, process, succeed, release the next job, retry, give up | crash or database error between any two of these; retries; delays | jobs of a pipeline run in order; pipelines settle |
| Pipeline builders, `jobs/queue.go` (M) | none; insert chains of jobs in one transaction | the order of inserts and links | what is queued is carried out in order |
| `run-jobs`, `cmd/run-jobs/main.go` (M) | groups of `watchall`; `requeue`, `force-rerun` | operators act on loaded copies | repairs never run a pipeline twice or out of order |
| Job processors on rows, `jobs/metadata_jobs.go`, `issue_job.go`, `batch_job.go` (M) | load the object, change it, save it whole | overlap with web requests | no change is lost that matters |
| Job processors on files, `jobs/fs_jobs.go` and others (P) | directories: sync, kill, rename, split, archive, structure of batches | retried after having been done, or half done | an issue's content always exists somewhere; nobody sees half of it |
| Issue row, `models/issue.go` (P) | workflow step, owner and expiry, author, reviewer, rejecter, metadata, batch_id, location | every writer saves the whole row it loaded earlier | nothing unreviewed is batched; no issue is parked |
| Workflow handlers, `cmd/server/internal/workflowhandler` (M), privileges (P) | none; check, change the issue, save, queue a pipeline | two requests at once; death between saves and queueing | review by another than the author |
| `queue-batches` (M), batches `models/batch.go` (P) | queues per MOC in memory; batches, batch_id | death in the middle; ages, limits and embargoes | each issue once; limits; no stale issue left behind |
| `batch-fixer`, `delete-live-done-issues` (M) | issues pulled from batches; files of finished batches | run long after the state they read was written; die between steps | what is shown is what was reviewed; no issue lost; files go when the batch is done |
| `purge-dead-issues`, `page-review-issue-fixer` (M) | close the jobs of stuck issues, queue their removal | see only jobs tied to the issue; read outside the transaction | a removal is alone with its issue |
| Watchers in `run-jobs` (`page_scanner.go`, `scanner_scanner.go`) (M) | rename a directory, save the issue, queue a pipeline; queue sound scans | death between these | no issue waits for a pipeline nobody queued |
| Uploads, `uploads/`, `uploadedissuehandler/`, `bulk-issue-queue` (M) | create issue and pipeline for a directory, from what a scan found earlier | the same upload queued twice at once; two of one key | pages are kept; each upload taken in once |
| Issue finder and watcher, `issuefinder/`, `issuewatcher/` (P) | the scanner that lookups read, swapped after a refresh | old data | errors and duplicates are found |
| Schema, `schema/schema.go` (P) | none; keys, duplicates, order of steps | ties and equal keys | a duplicate is found from one side |
| Users, titles, `userhandler/`, `titlehandler/`, `models/user.go`, `title.go`, `privilege/` (P) | rows loaded, changed by a form and saved whole; the pull of a MARC record behind a save | two requests at once; a pull that answers late | somebody can give rights; no twins; nobody exceeds his rights; all this unless a request goes by rows that were changed behind it |
| HTTP cache; derivatives, ALTO, METS; reports and tools; configuration, logs (-) | documents converted by templates and programs | - | outside what a model checker can say something about |

How they interact: the web application, `run-jobs` (several processes) and the
commands share nothing but the database and the file system. Handlers and
commands insert pipelines into the job table; runners work them off; jobs write
issue and batch rows and move directories; `queue-batches` reads issue rows and
writes batches, issues and again pipelines; `batch-fixer` takes issues back out.
No row is ever locked or compared before it is
written (`op.Save` writes all columns), so that every "load, decide, save" may
overlap with any other.

`PROJECT.json` lists the hazards at their lines, with the property that would
notice each of them going wrong.

## The modules

| Module | Models | Uses |
|---|---|---|
| SerialPipeline | what a pipeline promises | |
| JobQueue, JobQueueRefinement, JobQueueProofs | job table, runners, operators | SerialPipeline by refinement |
| WatchAll | the real pipelines and runner groups | constants for JobQueue |
| IssueWorkflow, IssueWorkflowProofs | the row of one issue, people and jobs | pipelines by the row writes of their jobs |
| MoveIssue, MoveIssueProofs | the files of one issue, and its row's location | pipelines by their jobs, the same as WatchAll's |
| BatchQueue, BatchQueueProofs | queue-batches | |
| BatchLife, BatchLifeProofs | batches afterwards | |
| Uploads | what scans make of directories: operators | |
| Intake, IntakeProofs | uploads queued, purged, removed | Uploads |
| Accounts, AccountsProofs | users and titles | |
| MC... | instances for TLC | |

JobQueue is the base: it shows that a pipeline's jobs are carried out one at a time, in
order, each at least once. The other modules use that and tell what the jobs do, each to the
part of the state it is about. In IssueWorkflow, BatchLife and Intake saving a job as a success and releasing
the next one are one step: a death between the two, which stops the pipeline there for good, is in
JobQueue and MoveIssue. `MCMoveIssue` asserts (SamePipelines) that the pipelines of
MoveIssue have the job types of WatchAll's.

### JobQueue: job table, runners, operator commands

`jobs` is the table (row ids `1..lastId`, at most `MaxJobs`); a row has its
status, the pipeline (`chain`) and position (`step`) it is for, its retry count,
whether it is due, and `queueJobID`. Its job type is
`StepTypes[chain][step]`. For each runner, `pc` and `held` say where in
`Runner.processNextJob`'s call chain it is and with which row, `isDone` that
`Stop` was called. `opHeld` is the row an operator's `requeue` has loaded.
`ran[c]` is history: the steps of `c` whose `Process` has returned true.

| Action | Code |
|---|---|
| QueueSerial | `QueueSerialOp`: all rows of a pipeline, one transaction |
| PopSelect, PopUpdate | the SELECT and the UPDATE of `PopNextPendingJob`: nothing locks the row in between |
| ProcessSucceeds, ProcessFails | `Process` returns (or the job was not `Valid`) |
| HandleSuccess, QueueNextJob | the two saves of `handleSuccess`: they are separate transactions |
| FailAndRetry, HandleFailure | `attemptRetry`: clone with delay and close, one transaction; or the final failure |
| BackoffElapses | `run_at` is reached |
| DatabaseError, Crash, Stop, Restart | a failing call, which is only logged; kill -9; `Stop` on a signal; a new process |
| RequeueLoad, RenewDeadJob | `run-jobs requeue`: the check is on the loaded copy |
| ForceRerun | `run-jobs force-rerun`: a clone cut off from what follows |
| ResetCanceledJob | the documented repair of a row left `in_process` |

Two ties are left open on purpose: which of the due jobs is popped (created_at
has whole seconds, so the rows of a pipeline tie), and who comes first when two
processes act.

`SerialPipeline` is the abstract specification: the jobs of a pipeline are
carried out at least once each, in order, never going back. `JobQueueRefinement`
maps the table to it: the current job is the last one released from `on_hold`.

`WatchAll` holds the constants of the real system: the job types of every
pipeline the builders make and the four groups of `watchall`, which are constants for JobQueue.
Its theorem needs no run.

### IssueWorkflow: one issue from derivatives to its batch

`row` is the issue's row. A web request, a run of `queue-batches` or a job loads
it, decides by it and later writes one or more whole rows; `req[q]` holds the
writes a request has yet to make and the pipeline it queues after them,
`pipes` the pipelines (by the row writes of their jobs, `JobsOf`) with the copy
the current job has loaded. `Overlap` bounds how many may be between load and
last write. Handlers keep their names (`claimIssue`, `saveQueue`,
`approveIssueMetadata`, ...), guarded by the operators of `can.go` (`CanClaim`,
...) and the privileges; each computes its rows by the operators named for the
methods of `models/issue.go`. What a curator typed is abstracted to who typed it
(`editor`) and whether it is valid; a claim's expiry to whether it is current.

### MoveIssue: one issue's files

`fs[d]` is the set of files in directory `d`, or NoDir. A file is named by what it
holds (an original upload, a page, a derivative, METS, a tar of originals), and a
half-written one counts as not there, since whoever writes it again replaces it. `row` has the location, the
backup location and the workflow step. `todo` is what is left of the pipeline under way;
each job is a record of its type and the directories it was given when it was queued.

| Action | Code |
|---|---|
| Begin | the job looks whether it can work at all, and creates or refuses its output directory |
| PutFile, RemoveFile | one file written or deleted; the order among files is open, that of copying before removing is not |
| Finish | the job's rename or its row write |
| HandleSuccess, QueueNextJob | the runner's two saves: the job's row as a success, then the next one's release |
| Refuse, Fail | an error `Process` finds by itself, or runs into anywhere; a retry or the final failure |
| Crash, ResetCanceledJob | the process dies, or a save fails, also when everything is done but the success not saved (the row is set to pending by hand), or when it is saved and the next job not released (nothing goes on then) |
| QueueUpload, Approve, Remove, MakeBatch, ForceDerivatives, Requeue | what people and commands queue |
| NotouchieRename, NotouchieSave, NotouchieQueue, WatcherDies | the page-review watcher's three steps, and its death between them |

Whoever queues a pipeline looks at the row, not at the job table. The row lets him when nothing but the job
that records the action may be left of the pipeline before (`Settled`); that job is then no longer followed. The
page-review watcher goes by the same: it takes a directory whose files have lain for an hour.

### BatchQueue: queue-batches

Each issue has its pages, MOC, approval day, the day its embargo lifts, and
whether it is valid at all. One run finds the ready issues (`FindReadyIssues`),
goes from one MOC's queue to the next (`NextMOC`), pops and perhaps batches
(`NextBatch`, with `CreateBatch`'s one transaction), queues the batch's jobs
(`QueueMakeBatch`) and ends (`NothingLeft`). It may die anywhere and be run again
some days later, when more issues are approved and embargoes have lifted.
`Popped` says what `splitQueue` may return: for some order by age, an issue is in
exactly if it fits in with those older ones that are. An invalid issue makes
the run panic, since the branch that would skip it dereferences the nil it was
given in place of the issue.

### BatchLife: a batch and its issues after that

Rows of issues and batches, the METS file of each issue by the version of the
metadata it was made of, what the batch's directories and XML contain, and the pipelines that
build batches and redo derivatives, job by job. A session of `batch-fixer` loads a batch
(`LoadBatch`) and works on that copy until it quits; a command (`FailQC`, `InvalidateIssue`,
`RedoDerivatives`, `RedoAllDerivatives`, `RemoveAllAndDelete`, `DeleteBatch`, `RequeueBatch`) is a sequence of steps
(`RemoveDir`, `RemoveMETS`, `Invalidate`, `SaveStatus`, `Queue`, `Reload`, ...) between
which it may die. The METS file may turn out not to be removable (`KeepMETS`), which ends the command there. An
issue can be loaded again (`reloadIssue`) after it has left the session's batch. `GoLive`, `IgnoreIssues` and `Archive` are the updates of the database the
documentation has people make by hand. `StartPurge`, `Close`,
`FindCompletedIssues`, `RemoveFiles`, `SaveLocation`, `EndPurge`, `DryRun` are
`delete-live-done-issues`. A batch in staging or past QC is not told from one
ready for QC: no code sets these statuses.

### Uploads and Intake: getting in and being thrown out

`Uploads` has no state: the key an upload directory gets, how keys are parsed,
looked up and compared (`SearchKey`, `Lookup`, `CheckDupes`), and the errors the
finders attach (`ValidateFast`, `ValidateAll`). `Intake` has the directories
(`disk`, the pages in each), the issue rows, the pipelines with their jobs'
statuses, and what each process has in hand: `q[c]` for the clients
(the web application, the watcher for scans, `bulk-issue-queue`), which list
uploads and queue them (`Start`, `FindIssueByKey`, which gives any of the rows with the key, then the row, then the
jobs, and for the web application the list without the upload, `RemoveIssue`); `web` for the refreshed lists; `tools` for
`purge-dead-issues` (`PurgeList`, `PurgeIssue`, `DoPurge` with its one
transaction, `Rollback`) and `page-review-issue-fixer`. Errors of
an upload are those of the time it was listed. The page-review watcher is one step here (`QueueIssueForDerivatives`); its
deaths are in MoveIssue. A pipeline is told by the jobs that write
the row or move the directory; the work in between is one job.

### Accounts: users and titles

`req[s]` is a request in hand: who asks and by which row of his, which row it has loaded,
what it is to write. A request is admitted by `MustHavePrivilege`, loads, decides by
`CanModifyUser`, `CanGrant` or the search for twins, and writes the whole row;
saving a title whose LCCN is not validated leaves a pull of its MARC record
behind, which writes its own copy when the library answers
(`PullMARCForTitle`); pulls have places of their own (`Pulls`). `Stop` loses everything in hand.
Requests and pulls overlap in every way. `stale` is history: those in hand of whom a row they go by (their own user's,
the one they write, or those they searched for twins) was changed since they read it. The properties say
that nothing goes wrong but by one of these.

## Runs

| Run | Module, config | Shows | States |
|---|---|---|---|
| queue_faults | MCJobQueue, JobQueue_faults | ChainOrder, SingleLiveJob, OneRunnerPerPipeline, ReleasedInTurn, the inductive IInv and the refinement of SerialPipeline (ImplementsPipeline), under crashes, database errors, resets, forced reruns and stops | 709 432 |
| queue_live | MCJobQueue, JobQueue_live | without faults no pipeline is stranded (NeverStranded) and all settle (PipelinesSettle), with retries and requeues | 125 843 |
| issue_overlap | MCIssueWorkflow, IssueWorkflow_overlap | ReviewedByAnother and IInv with two overlapping readers and writers, and failing jobs | 635 282 |
| issue_serial | MCIssueWorkflow, IssueWorkflow_serial | one reader and writer at a time, requests dying anywhere: only reviewed issues are batched (OnlyReviewedBatched), and invisible steps pass (InvisibleStepsPass) | 82 425 |
| batch_queue | MCBatchQueue, BatchQueue | IInv, EachIssueOnce, WithinLimits, NoStaleLeftBehind, Terminates, for every mixture of three issues | 1 097 137 |
| batch_endless | MCBatchQueue, BatchQueue_endless | violation of Terminates: an issue with more pages than MAX_BATCH_SIZE keeps the loop going for ever | |
| move_issue | MCMoveIssue, MoveIssue | with two errors or crashes anywhere: each page's content is kept (ContentKept), no directory others look into is half full (ShownComplete), row and files agree when nothing is under way (StepMeansFiles), only four job types may fail for good, and every other pipeline ends unless its runner is cut off between the two saves of a success (PipelineEnds) | 23 579 |
| move_retry | MCMoveIssue, MoveIssue_retry | violation of RetriesSucceed: a job that makes its output directory and then fails once is refused by it at every retry, against CHANGELOG.md:628 | |
| batch_life | BatchLife, BatchLife | what is shown is what was reviewed; nothing is left of a failed batch; no issue is lost; files are removed when the batch is done, not before, and then surely | 1 826 937 |
| intake | MCIntake, Intake | pages are kept; no upload is taken in twice; curators get whole issues; a removal is alone with its issue; every sound scan gets in | 173 028 |
| intake_retry | MCIntake, Intake_retry | violation of FailedMovesRetried: an upload whose move failed is refused when it is queued again, against uploads/queue.go:71-73 | |
| accounts | MCAccounts, Accounts | the last administrator is lost, a twin made, a right exceeded, or a validated LCCN changed only by a request or pull that was overtaken (SomeAdmin, NoTwins, ChangedByRight, ValidatedKept); a title said to be validated always has an LCCN of which there is a record (ValidatedKnown) | 2 723 530 |

The three violations are the "findings" of `PROJECT.json`, each with the comment or
text it contradicts. `BatchLife.cfg` gives plain values only, so the module needs no MC module.

### Bounds, and why they suffice

* JobQueue: two runners with disjoint types are needed for a pipeline to change
  hands; two pipelines for a runner to be busy elsewhere; three jobs in one pipeline
  for the first, middle and last position; one retry for both branches of
  `attemptRetry`. `MaxJobs` bounds all rows ever inserted: in `queue_faults` 5 rows are pipelines
  of three and one and a clone, or one pipeline and two clones; in `queue_live` 13 rows and `MaxAtRequeue` = 7 are such
  that a clone is never refused for want of ids, so that the liveness result does
  not rest on the bound.
* IssueWorkflow: two overlapping actors already lose each other's
  updates; a third adds no new kind of conflict to a single row. Two pipelines in
  `issue_overlap` and three in `issue_serial` are the issue's derivatives and then
  finalization or removals. Two batches are enough to be in one too many.
  `issue_overlap` has no manager and no batches: the branches for managers are
  explored in `issue_serial`.
* BatchQueue: sizes 2 and 3 against limits 3 and 5 give batches that are full,
  small, and just too large for one more; ages are fresh, stale, approved between
  the runs, and embargoes lifted before, between the runs or just making an issue
  less stale than its approval. Two runs, the second on the same day or 15 days
  later. No issue has more pages than a batch (see batch_endless).
* MoveIssue: three pages are a first, a middle and a last one, so that a job can be
  interrupted before, between and after files; as many retries as faults
  (2), so that a job that fails for good does so because it cannot be repeated, not for want of retries.
  A death between the two saves of a success is one of the faults.
* BatchLife: two issues, so that one can be rejected and the other stay; two batches, so
  that a rejected issue gets into another one; a second version of the metadata;
  three pipelines (batch, forced derivatives, batch again); one death. One session:
  with `Undisturbed`, two sessions on different batches were checked as well and show nothing new.
* Intake: two uploads in four worlds (of one key, one of them live already, born digital or scanned,
  with and without an error), two pages, two issues, four pipelines: taken in, failed, removed,
  and one to spare. One failure, one death and one requeue, at any point.
* Accounts: two requests in hand and one pull, two logins, three user rows and two titles: an
  administrator, whom he modifies and whom he creates. Users are changed in one world and titles in the other; that both
  go on at once adds an actor whose rights change while a title is saved, which is left to the theorems. Of the roles, all
  but that of title managers are given and taken (`Handed`).

`Overlap` = 1 in issue_serial, `Patient` and `Undisturbed` in BatchLife, `Alone`
(no two clients are at uploads of one key at once)
and `Undisturbed` in Intake are not bounds but
assumptions on how people use the system, which nothing in the code enforces. What happens without
each of them is told below; the theorems that rest on them have them as hypotheses.

The type invariants of JobQueue, IssueWorkflow and BatchQueue are conjuncts of their IInv; those of
BatchLife and Intake hold on the instances above too, and are not among the runs' properties.

Deadlock is not checked where the modelled work simply ends: all pipelines done
and the bound of rows used, the issue batched, the last run over.

### Fairness

* `JobQueue!Fairness`: weak fairness of each runner's steps (its goroutine loops
  and `Process` returns), of `Restart` (a stopped process is replaced by its
  supervisor) and of `BackoffElapses` (time passes). No fairness for operators,
  crashes or errors.
* `IssueWorkflow!Fairness`: weak fairness of a begun request's writes and of
  queueing its pipeline; weak fairness of the job in hand and strong fairness of loading
  it, since with `Overlap` = 1 a request may be in its way again and again but not
  at each moment the runner comes round. Nothing makes people act.
* `BatchQueue`: weak fairness of the command's own steps.
* `MoveIssue!Fairness`: weak fairness of the runner, of the page-review watcher, both of
  which loop, and of ResetCanceledJob: the documentation has people reset what a crash has left in
  process. Nothing makes anybody queue or requeue.
* `BatchLife!Fairness`: time passes; a run of `delete-live-done-issues` goes on; and it is
  started again and again (strong fairness, since a run must have ended before the next begins).
* `Intake!Fairness`: jobs run; the watcher lists; a client that is at an upload goes on
  (strong fairness, since `Alone` may hold it back). Nobody has to press a button or run a tool.

## Proofs

For every value of the constants that satisfies the named assumptions:

* `JobQueueProofs`: `Invariance` (IInv), `TypeCorrect`, `OneLiveJobPerPipeline`,
  `NeverTwoRunners` (OneRunnerPerPipeline), `PipelineOrder` (ChainOrder), `ReleaseOrder` (ReleasedInTurn), `Refinement`
  (ImplementsPipeline) and `NoneStranded` (NeverStranded). Assumptions:
  `DisjointWatches` (no two runners watch a type) and `OneOperator` (one requeue at
  a time). Both are needed, see below. `WatchAll` proves `WatchedOnce`: the
  groups of `watchall` are disjoint and cover every job type, which discharges the
  first assumption for the recommended set-up. NoneStranded assumes besides that nothing
  crashes and no database call fails (`NoCrash`): with either, a pipeline may be left behind.
  SingleLiveJob is not inductive: it must be known why the live job is unique.
  IInv adds that a runner's row is in the status its `pc` implies and that no
  other runner holds it (RunnersInStep), that all rows of a pipeline after its live job are
  still on hold (LaterOnHold), and that while a runner is between the
  two saves of `handleSuccess`, or has died there, nothing before the next row
  is live (HandOver). The proof goes action by action. `FailAndRetry`, `RenewDeadJob` and
  `QueueNextJob` are the ones that move liveness from one row to another. The refinement
  needs in addition that a pipeline's rows not yet reached were never run (Untouched);
  each action then maps to one step of SerialPipeline, or to none
  (lemmas on what each leaves of a pipeline's abstract state). NeverStranded needs that only the last
  step's rows have no successor (LastUnlinked), as `QueueNextJob` goes by `queue_job_id`.
* `IssueWorkflowProofs`: `Invariance`, `ReviewHolds` (ReviewedByAnother) and
  `TypeCorrect`, for any people, requests, pipelines and any overlap. ReviewedByAnother
  speaks of the row in the table only; it is kept because every row
  that anybody holds a copy of, or is yet to write, is good in the same sense
  (RowsGood): however stale a copy is, it was good when it was read and each
  operation makes good rows of good rows.
  With one writer at a time (`Overlap = 1`), also `BatchedWasReviewed` (OnlyReviewedBatched), from SerialInv:
  whoever is to write has the row as it is (Fresh), what he is to write is a step from there
  (Planned), and at most one pipeline is under way, the one that belongs to the row's step
  (OneDriver).
* `MoveIssueProofs`: `TypeCorrect`, `NeverHalfShown` (ShownComplete), `StepsMeanFiles`
  (StepMeansFiles), `NothingLost` (ContentKept) and, when there are retries
  enough for the errors (`MaxFaults <= MaxRetries`), `OnlyDoomedFail`
  (OnlyUnrepeatableFail); for any pages, errors, deaths, retries, resets and requeues, not for
  earlier jobs that are forced to run again. The
  invariant says in full what a pipeline has made of the disk and the row when it comes to its k-th
  job (Disk, RowAt) and, while a job is at work or has been cut off, between which two of these the disk is
  (Between): a repeated job adds to, or takes from, what an earlier attempt left and ends at the
  same place.
* `BatchQueueProofs`: `Invariance` (IInv), `OnceOnly` (EachIssueOnce), `NoneLeftBehind`
  (NoStaleLeftBehind) and `BatchesWithinLimits` (WithinLimits): for any
  issues, limits and number of runs, dying anywhere. The invariant adds that the
  queues in memory hold only issues without a batch (QueuesFit), so that taking
  the popped issues off their queue is what keeps a later batch of the same run from having them.
  That a batch is never too large follows from the last issue `splitQueue` took (PoppedFits): it
  was taken because it fitted with all the others. That there is a last one is the only place
  where an induction is needed, and the library's `WFMin` has it without an operator for a
  parameter (Greatest). `Pages` counts the page labels of a set of issues, as `wrapIssue` counts those
  of one, so that sums are cardinalities, of which the library has the theorems (PagesAdd).
  `NextBatchShrinks` is what is behind Terminates: unless an issue is larger than MAX_BATCH_SIZE
  (the run batch_endless), every call of `NextBatch` takes issues off its queue.
* `BatchLifeProofs`: with `Undisturbed` (nobody else works on a batch that a session of
  batch-fixer has loaded), `NothingLeft` (NothingLeftOfFailed); and when sessions wait for the derivatives they
  have forced (`Patient`) also `ShownIsReviewed` (ShownAsReviewed), `NoneLost` (NoIssueLost) and
  `RemovedLast` (RemovedOnlyWhenDone). Both settings are those of the run; what
  goes wrong without them is told below. Two inductive invariants, one on top of the
  other. InStep: which pipelines a batch has, how far they have brought its directories, and what is yet
  to be written by the session that has it, all follow from its status. IssuesAgree: each issue's row fits the
  batch it names and the pipeline that redoes it, the copies a session writes
  back are the rows as they are, but for what that session is about, and a directory holds what its issues' rows say.
* `AccountsProofs`: `Types`, `Invariance`, `AdminLostToStale` (SomeAdmin),
  `TwinsOfStale` (NoTwins), `UsersChangedByRight` (ChangedByRight),
  `ValidatedLCCNsKept` (ValidatedKept) and `ValidatedAreKnown` (ValidatedKnown), for any number of users, titles,
  requests and pulls in any overlap, without an assumption. The invariant is that what a request has read, and goes by, is
  what the tables hold (Known: its actor, the user it writes and whom it may make of him, the title it
  writes and that nobody else has its LCCN or directory), or it is among the stale (Fresh). A step keeps that of
  the other requests because those of which it writes a row they have read are stale from then on. An administrator
  remains because whoever takes another's rights away, or
  deactivates him, is another active administrator when it is written, unless he is stale (AdminStep).
  ValidatedKnown holds whoever is stale: what a request is to write, and what a pull carries, is itself
  a title of which it holds (Basis).
* `IntakeProofs`: `Invariance`, `PagesAreKept` (PagesKept), `UploadsMoveOnce` (MovedOnce),
  `CuratorsGetWholeIssues` (WholeIssues) and `RemovalsAreAlone` (RemovedAlone), for any uploads, clients,
  pages, issues, failures, deaths and requeues. All are theorems under `Careful`, the conjunction of `Alone`, `Undisturbed` and
  `RowJobsSucceed`, that jobs which only write the issue's row are not among those that
  fail for good; all three are the settings of the run, and what goes wrong without them
  is told below. None of the four properties is inductive. The invariant says of each issue (InStep,
  Stands) that the last pipeline about it is one of three kinds, from a directory it can start
  from, and has come to its n-th job; that the row is then as the jobs so far have made it
  (RowFits), that the issue is whole in one directory while another may be half removed (FilesAt, Home, Drain),
  that the pipelines before are over (Last), and that its upload is gone once an earlier pipeline took it.
  Besides: issues not ignored have different keys (KeysUnique), so an upload that nobody took
  is whole (UploadsKept); what a client has found or created is still so
  (ClientsInStep); and what `purge-dead-issues` loaded is of a pipeline that failed at its work and
  stays so (StuckAt, PurgeInStep), as an issue `page-review-issue-fixer` has loaded stays in review
  (FixerInStep). `DoPurge` is the long case: it closes the jobs of several pipelines and queues
  several removals, in any order, in one step.

Only model-checked: all liveness
(PipelinesSettle, InvisibleStepsPass, Terminates, PipelineEnds, CleanedUp,
ScansTaken), which the prover cannot do under fairness. Every other property that a passing run
checks is stated by a theorem.

## What the models say of the code besides

What TLC showed when an assumption was dropped, and what else was met on the way:

Jobs and pipelines

* Two runners that watch one type may both pop, and execute, one job: nothing locks the
  row between SELECT and UPDATE.
* Two requeues of one failed job at once clone it twice, and the pipeline has two live jobs.
* A crash between the two saves of `handleSuccess` leaves jobs on hold that
  nothing releases and no command finds ("stranded" in MoveIssue).
* Of the file jobs, `rename_directory` (done before its process died), `page_split`,
  `create_batch_structure` and `move_derivatives` (their own output directory is in the way) cannot be
  repeated.
* A death of the page-review watcher between rename and save leaves an issue whose row
  names a directory that is gone; between save and queue, one awaiting a pipeline nobody queued. Its
  content is kept in both.

Issues

* Two overlapping claims both succeed, and both people are told they have the issue; with one request at
  a time a claim is respected, since each looks before it writes, and no property is spent on that.
* Metadata saved as a draft, reported as an error and returned by a manager can be approved by
  whoever typed it: drafts do not make their typist the author.
* An issue removed from the workflow (ignored) keeps the step
  UnfixableMetadataError and can still be claimed and returned by a manager.
* With overlapping writers an issue can lose its batch_id (the last job of the
  finalize pipeline writes the row it loaded before `queue-batches` did) and be put in a
  second batch. OnlyReviewedBatched and InvisibleStepsPass are shown with Overlap = 1 only.

Batches

* A batch whose command died before queueing its jobs is never built, and its
  issues are not found again; the same for `batch-fixer`'s requeue between its save and its queueing.
* One invalid issue ready for batching stops all batching, in a panic.
* Without `Patient` (people go on with a batch while derivatives of its issues are redone) or
  without `Undisturbed` (a batch changes while a session has it loaded), ShownAsReviewed, NoIssueLost and
  RemovedOnlyWhenDone fail. `batch-fixer` asks for the first; nothing asks for the second.
* A dry run of `delete-live-done-issues` closes batches all the same, and a run stops at the
  first issue that is not InProduction. `Batch.Fail` cannot be repeated when it died
  between removing the directory and saving.

Uploads

* Without `Alone` (two clients at one key at once) MovedOnce, WholeIssues and RemovedAlone
  fail; no loss of pages was found in 8 million states. Without `Undisturbed` they fail and so does PagesKept: a job requeued
  during a purge that fails again lets the next purge remove the issue a second
  time, onto the directory it is in. When a job that writes the row fails for good (the database was away for all its
  retries), RemovedAlone fails: `purge-dead-issues` queues a removal from where the row still says the issue is.
* Queueing a failed upload once more is always refused, since the pipeline's first job of the issue
  has succeeded, though `uploads/queue.go:71-73` says closing and retrying a failed move is fine (the run intake_retry). Only an
  issue without any jobs (a client died before queueing them) can be queued again, and the
  web's list hides it.
* `purge-dead-issues` finds no dead job when the one that failed is tied to no object: such an
  issue is neither queued again nor purged. Jobs on hold that are tied to no issue stay on hold after a purge.
* A second upload of a key gets a row which `page-review-issue-fixer`, knowing the first issue of a
  key only, never sees.

Accounts

* A stale request does all that SomeAdmin, NoTwins, ChangedByRight and ValidatedKept except it for: two administrators
  can demote each other, two
  requests create one login or LCCN, a save brings back a user deactivated, or
  rights taken away, meanwhile, and an older form overwrites an LCCN a pull has validated. (A title
  whose LCCN is overwritten by such a form is said to be validated no more.)
* Saving a title with an unknown id creates one. An SFTP directory that equals
  another title's LCCN is not refused, and lookups by name then find either.

## Plan

Done: all components marked M, and of those marked P what the modules above have.

Left, most valuable first:

1. `RenumberPages` as an operator on the names files have, with failures in between:
   a page's PDF and TIFF get different names when it fails between them.
2. The watcher's loop: refresh, lookup and stop under one lock; durations against a
   reference definition.

## Not modelled, and why

Besides the parts marked "-" above: what files contain and how they are
converted; wording of actions, reports and pages; the HTTP cache and parsing of
a live site's JSON; RandomBatchName (a table lookup that affects nothing else);
the times kept for display; configuration; the pages of MARC organization codes (one row each) and the
audit log (only added to, after the change it is about). Transactions of `dbi` are atomic
steps, and a failed one leaves nothing behind. Two runs of `queue-batches` at once are in
IssueWorkflow (for one issue), not in BatchQueue.

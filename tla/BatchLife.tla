----------------------------- MODULE BatchLife -----------------------------
(***************************************************************************)
(* A batch from its creation to the removal of its issues' files: the jobs *)
(* that build it, batch-fixer's sessions that fail it, take issues out of  *)
(* it, delete or requeue it, the updates people make by hand when it goes  *)
(* to staging, production and the dark archive, and                        *)
(* delete-live-done-issues.                                                *)
(*                                                                         *)
(* A session works on the rows it has loaded and writes them back whole.   *)
(* Its longer commands are sequences of steps it may die between.  Of an   *)
(* issue's files only the METS file is told, by the version (edits) of the *)
(* metadata it was made of; the jobs' own failures are in MoveIssue.       *)
(***************************************************************************)
EXTENDS Integers, Sequences, FiniteSets

CONSTANTS
  Issues,
  Sessions,     (* runs of batch-fixer                                       *)
  MaxBatches,   (* bound: how many batches are ever created                  *)
  MaxPipes,     (* bound: how many pipelines are ever queued                 *)
  MaxEdits,     (* bound: the version at which metadata is no longer changed *)
  MaxDeaths,    (* bound: how many sessions and purges die                   *)
  Patient,      (* whether people wait for forced derivatives before they go
                   on with the batch, as batch-fixer tells them to, and load
                   it anew when a command has failed half-way                *)
  Undisturbed   (* whether a batch which a session has loaded, and an issue
                   a command is about, are left alone by everybody else      *)

ASSUME LifeAssumption ==
  /\ MaxBatches \in Nat /\ MaxPipes \in Nat /\ MaxEdits \in Nat /\ MaxDeaths \in Nat
  /\ "no-such-directory" \notin Issues
  /\ Patient \in BOOLEAN /\ Undisturbed \in BOOLEAN

VARIABLES
  issues,   (* the rows of the issues                                        *)
  edits,    (* edits[i]: the version of i's metadata                         *)
  files,    (* files[i]: whether i's directory is on disk                    *)
  mets,     (* mets[i]: the version its METS file has, 0 if there is none    *)
  batches,  (* the rows of the batches                                       *)
  dirs,     (* dirs[b]: what is in b's wip and final directory               *)
  listed,   (* listed[b]: the issues b's batch XML lists                     *)
  pipes,    (* the pipelines queued and not finished                         *)
  queued,   (* how many pipelines have been queued                           *)
  sess,     (* what each session has loaded, and the steps it is to take     *)
  purge,    (* the run of delete-live-done-issues                            *)
  deaths

batchVars == <<batches, dirs, listed>>
issueVars == <<issues, edits, files, mets>>
vars == <<issueVars, batchVars, pipes, queued, sess, purge, deaths>>

----------------------------------------------------------------------------
(* on_staging and passed_qc, which no code sets, are not told from qc_ready. *)
Statuses == {"deleted", "pending", "qc_ready", "failed_qc", "live", "live_done"}
Steps == {"ReadyForMetadataEntry", "AwaitingProcessing", "ReadyForBatching",
          "UnfixableMetadataError", "InProduction"}
BatchIds == 1..Len(batches)

(* What is an empty string in the code is "none" here.                     *)
NoDir == {<<"no-such-directory", 0>>}
NoBatchDirs == [wip |-> NoDir, final |-> NoDir]
InBatch(b) == {i \in Issues : issues[i].batch = b}
IssuesOf(b) == {i \in InBatch(b) : ~issues[i].ignored}

NoRow == [status |-> "deleted", location |-> "none", archived |-> "no"]
NotLoaded == [batch |-> 0, row |-> NoRow, copies |-> <<>>, todo |-> <<>>]
NotPurging == [pc |-> "idle", close |-> {}, list |-> <<>>]

MakeBatchJobs ==
  <<"create_batch_structure", "set_batch_location", "make_batch_xml", "rename_directory",
    "set_batch_location", "set_batch_status", "write_bagit_manifest">>
ForceDerivativesJobs ==
  <<"set_awaiting_processing", "make_derivatives", "build_mets", "restore_step",
    "record_issue_action">>
JobsOf(p) == IF p.kind = "make" THEN MakeBatchJobs ELSE ForceDerivativesJobs

Pipe(kind, about, restore) ==
  [id |-> queued + 1, kind |-> kind, about |-> about, at |-> 1, restore |-> restore]

Redone(S) == \E p \in pipes : p.kind = "redo" /\ p.about \in S

Init ==
  /\ issues = [i \in Issues |-> [ws |-> "ReadyForBatching", batch |-> 0,
                                 ignored |-> FALSE, located |-> TRUE]]
  /\ edits = [i \in Issues |-> 1]
  /\ files = [i \in Issues |-> TRUE]
  /\ mets = [i \in Issues |-> 1]
  /\ batches = <<>> /\ dirs = <<>> /\ listed = <<>>
  /\ pipes = {} /\ queued = 0
  /\ sess = [s \in Sessions |-> NotLoaded]
  /\ purge = NotPurging
  /\ deaths = 0

----------------------------------------------------------------------------
(* queue-batches: a batch of some of the ready issues, and its pipeline    *)
QueueBatches ==
  /\ Len(batches) < MaxBatches /\ queued < MaxPipes
  /\ \E S \in SUBSET {i \in Issues : /\ issues[i].ws = "ReadyForBatching"
                                     /\ issues[i].batch = 0 /\ ~issues[i].ignored} :
       /\ S # {}
       /\ issues' = [i \in Issues |-> IF i \in S
                       THEN [issues[i] EXCEPT !.batch = Len(batches) + 1] ELSE issues[i]]
  /\ batches' = Append(batches, [status |-> "pending", location |-> "none", archived |-> "no"])
  /\ dirs' = Append(dirs, NoBatchDirs)
  /\ listed' = Append(listed, {})
  /\ pipes' = pipes \cup {Pipe("make", Len(batches) + 1, "none")}
  /\ queued' = queued + 1
  /\ UNCHANGED <<edits, files, mets, sess, purge, deaths>>

(* An issue sent back is corrected, reviewed and finalized (IssueWorkflow). *)
Finalize(i) ==
  /\ issues[i].ws = "ReadyForMetadataEntry" /\ \A k \in Issues : edits[k] < MaxEdits
  /\ Undisturbed => \A s \in Sessions : sess[s].todo = <<>>
  /\ edits' = [edits EXCEPT ![i] = @ + 1]
  /\ mets' = [mets EXCEPT ![i] = edits[i] + 1]
  /\ issues' = [issues EXCEPT ![i].ws = "ReadyForBatching"]
  /\ UNCHANGED <<files, batchVars, pipes, queued, sess, purge, deaths>>

----------------------------------------------------------------------------
(* The jobs                                                                *)

BatchDir(b) == IF batches[b].location = "none" THEN NoDir ELSE dirs[b][batches[b].location]

(* A job that cannot be done fails for good and leaves its pipeline there. *)
Possible(p, j) ==
  CASE j = "create_batch_structure" -> dirs[p.about].wip = NoDir
    [] j = "make_batch_xml"         -> BatchDir(p.about) # NoDir
    [] j = "rename_directory"       -> /\ dirs[p.about].wip # NoDir
                                       /\ dirs[p.about].final = NoDir
    [] j = "write_bagit_manifest"   -> BatchDir(p.about) # NoDir
    [] OTHER                        -> TRUE

Linked(b) == {<<i, mets[i]>> : i \in IssuesOf(b)}

MakeBatchJob(p, j) ==
  LET b == p.about
  IN  /\ batches' = CASE j = "set_batch_location" ->
                           [batches EXCEPT ![b].location = IF p.at = 2 THEN "wip" ELSE "final"]
                      [] j = "set_batch_status" -> [batches EXCEPT ![b].status = "qc_ready"]
                      [] OTHER                  -> batches
      /\ dirs' = CASE j = "create_batch_structure" -> [dirs EXCEPT ![b].wip = Linked(b)]
                   [] j = "rename_directory" ->
                        [dirs EXCEPT ![b] = [wip |-> NoDir, final |-> dirs[b].wip]]
                   [] OTHER -> dirs
      /\ listed' = IF j = "make_batch_xml" THEN [listed EXCEPT ![b] = IssuesOf(b)] ELSE listed
      /\ UNCHANGED issueVars

RedoJob(p, j) ==
  LET i == p.about
  IN  /\ issues' = CASE j = "set_awaiting_processing" ->
                          [issues EXCEPT ![i].ws = "AwaitingProcessing"]
                     [] j = "restore_step" -> [issues EXCEPT ![i].ws = p.restore]
                     [] OTHER              -> issues
      /\ mets' = IF j = "build_mets" THEN [mets EXCEPT ![i] = edits[i]] ELSE mets
      /\ UNCHANGED <<edits, files, batchVars>>

RunJob(p) ==
  LET j == JobsOf(p)[p.at]
  IN  /\ Possible(p, j)
      /\ IF p.kind = "make" THEN MakeBatchJob(p, j) ELSE RedoJob(p, j)
      /\ pipes' = (pipes \ {p}) \cup
           (IF p.at = Len(JobsOf(p)) THEN {} ELSE {[p EXCEPT !.at = @ + 1]})
      /\ UNCHANGED <<queued, sess, purge, deaths>>

----------------------------------------------------------------------------
(* batch-fixer                                                             *)

(* A command's steps; one that is for several issues is taken for each.
   rows: the issues' rows as the session has them; ws: the step or status
   to set                                                                   *)
Step(op, rows, ws) == [op |-> op, rows |-> rows, ws |-> ws]

Loaded(s) == sess[s].batch # 0
InBatchMenu(s) ==
  /\ Loaded(s) /\ sess[s].todo = <<>>
  /\ Patient => ~Redone(DOMAIN sess[s].copies)
InFailedMenu(s) == InBatchMenu(s) /\ sess[s].row.status = "failed_qc"

(* FindBatch, with the rows of its issues                                  *)
FindBatch(b) ==
  [batch |-> b, row |-> batches[b], copies |-> [i \in IssuesOf(b) |-> issues[i]],
   todo |-> <<>>]

OnlySession == UNCHANGED <<issueVars, batchVars, pipes, queued, purge, deaths>>

(* A batch for which the menu has a command that changes anything         *)
LoadBatch(s, b) ==
  /\ ~Loaded(s) /\ batches[b].status \in {"qc_ready", "failed_qc"}
  /\ Undisturbed => \A t \in Sessions : sess[t].batch # b
  /\ Patient => ~Redone(InBatch(b))
  /\ sess' = [sess EXCEPT ![s] = FindBatch(b)]
  /\ OnlySession

QuitBatch(s) ==
  /\ InBatchMenu(s)
  /\ sess' = [sess EXCEPT ![s] = NotLoaded]
  /\ OnlySession

(* The issue that is loaded: its row is the batch's when it is found by a
   search, is read anew when it is asked for by id - it must be in the batch
   then - and by reload, which does not look where it is.                   *)
IssueRows(s, i) ==
  {[k \in {i} |-> row] : row \in
     {r \in {issues[i]} : r.batch = sess[s].batch \/ i \in DOMAIN sess[s].copies}
       \cup {sess[s].copies[k] : k \in DOMAIN sess[s].copies \cap {i}}}

(* What a command is going to do, step by step                             *)
Command(s, todo) == sess' = [sess EXCEPT ![s].todo = todo] /\ OnlySession
Each(op, rows, ws) == IF DOMAIN rows = {} THEN <<>> ELSE <<Step(op, rows, ws)>>

(* Mutant: the batch is marked as failed and its files are left there.     *)
OnlyMarked == <<Step("save", <<>>, "failed_qc")>>
FailSteps == <<Step("remove_dir", <<>>, "none"), Step("save", <<>>, "failed_qc")>>

(* Batch.Fail gives up at once when the directory is not there.            *)
FailQC(s) ==
  /\ InBatchMenu(s) /\ sess[s].row.status = "qc_ready"
  /\ sess[s].row.location # "none" /\ dirs[sess[s].batch][sess[s].row.location] # NoDir
  /\ Command(s, FailSteps)

SentTo == {"ReadyForMetadataEntry", "UnfixableMetadataError"}

(* reject and error, of the issue that is loaded, or by way of removeissue *)
InvalidateIssue(s, i, ws) ==
  /\ InFailedMenu(s)
  /\ \E rows \in IssueRows(s, i) :
       Command(s, <<Step("invalidate", rows, ws), Step("reload", <<>>, "none")>>)

RedoDerivatives(s, i) ==
  /\ InFailedMenu(s)
  /\ \E rows \in IssueRows(s, i) : Command(s, <<Step("redo", rows, "none")>>)

RedoAllDerivatives(s) ==
  /\ InFailedMenu(s)
  /\ Command(s, Each("redo", sess[s].copies, "none"))

RemoveAllAndDelete(s, ws) ==
  /\ InFailedMenu(s)
  /\ Command(s, Each("invalidate", sess[s].copies, ws) \o <<Step("delete", <<>>, "none")>>)

DeleteBatch(s) ==
  /\ InFailedMenu(s)
  /\ Command(s, <<Step("delete", <<>>, "none")>>)

RequeueBatch(s) ==
  /\ InFailedMenu(s) /\ queued < MaxPipes
  /\ Command(s, <<Step("save", <<>>, "pending"), Step("queue", <<>>, "none")>>)

(* The steps.  Each writes rows as the session has them in memory.         *)
Rows(s) == Head(sess[s].todo).rows
(* The list is sorted, by the issues' keys.                                 *)
First(s) == CHOOSE i \in DOMAIN Rows(s) : TRUE
Taken(s) ==
  LET step == Head(sess[s].todo)
  IN  Each(step.op, [k \in DOMAIN step.rows \ {First(s)} |-> step.rows[k]], step.ws)
        \o Tail(sess[s].todo)

Doing(s, op) == sess[s].todo # <<>> /\ Head(sess[s].todo).op = op
Done(s) == sess' = [sess EXCEPT ![s].todo = Tail(@)]

RemoveDir(s) ==
  /\ Doing(s, "remove_dir")
  /\ dirs' = [dirs EXCEPT ![sess[s].batch][sess[s].row.location] = NoDir]
  /\ Done(s)
  /\ UNCHANGED <<issueVars, batches, listed, pipes, queued, purge, deaths>>

(* Mutant: the batch is not taken off the row.                             *)
InvalidatedInBatch(row, ws) == [row EXCEPT !.ws = ws]
Invalidated(row, ws) == [row EXCEPT !.batch = 0, !.ws = ws]

Invalidate(s) ==
  /\ Doing(s, "invalidate")
  /\ LET i   == First(s)
         row == Invalidated(Rows(s)[i], Head(sess[s].todo).ws)
     IN  /\ issues' = [issues EXCEPT ![i] = row]
         /\ sess' = [sess EXCEPT
              ![s].copies = [k \in DOMAIN @ |-> IF k = i THEN row ELSE @[k]],
              ![s].todo = <<Step("remove_mets", [k \in {i} |-> row], "none")>> \o Taken(s)]
  /\ UNCHANGED <<edits, files, mets, batchVars, pipes, queued, purge, deaths>>

RemoveMETS(s) ==
  /\ Doing(s, "remove_mets")
  /\ mets' = [i \in Issues |-> IF i \in DOMAIN Rows(s) THEN 0 ELSE mets[i]]
  /\ Done(s)
  /\ UNCHANGED <<issues, edits, files, batchVars, pipes, queued, purge, deaths>>

(* Or it cannot be removed.  The command stops there, and its other issues
   and the batch stay as they are; no more is done with the rows at hand if
   people are patient.                                                      *)
KeepMETS(s) ==
  /\ Doing(s, "remove_mets")
  /\ sess' = [sess EXCEPT ![s].todo =
                 IF Patient THEN <<Step("reload", <<>>, "none")>> ELSE <<>>]
  /\ OnlySession

Reload(s) ==
  /\ Doing(s, "reload")
  /\ sess' = [sess EXCEPT ![s] = FindBatch(sess[s].batch)]
  /\ OnlySession

(* The batch's row with the session's changes to it: its directory, too, is
   gone from the row, if only because the batch has failed before.          *)
SaveBatch(s, status) ==
  LET row == [sess[s].row EXCEPT !.status = status, !.location = "none"]
  IN  /\ batches' = [batches EXCEPT ![sess[s].batch] = row]
      /\ sess' = [sess EXCEPT ![s].row = row, ![s].todo = Tail(@)]

TakenOff(row) == [row EXCEPT !.batch = 0]

(* Batch.Delete: one transaction, with the issues the session has, if any  *)
Delete(s) ==
  LET rows == IF DOMAIN sess[s].copies # {} THEN sess[s].copies
              ELSE FindBatch(sess[s].batch).copies
  IN  /\ Doing(s, "delete")
      /\ SaveBatch(s, "deleted")
      /\ issues' = [i \in Issues |->
                      IF i \in DOMAIN rows THEN TakenOff(rows[i]) ELSE issues[i]]
      /\ UNCHANGED <<edits, files, mets, dirs, listed, pipes, queued, purge, deaths>>

SaveStatus(s) ==
  /\ Doing(s, "save")
  /\ SaveBatch(s, Head(sess[s].todo).ws)
  /\ UNCHANGED <<issueVars, dirs, listed, pipes, queued, purge, deaths>>

Queue(s) ==
  /\ Doing(s, "queue") /\ queued < MaxPipes
  /\ pipes' = pipes \cup {Pipe("make", sess[s].batch, "none")}
  /\ queued' = queued + 1
  /\ Done(s)
  /\ UNCHANGED <<issueVars, batchVars, purge, deaths>>

(* Mutant: the step to come back to is asked for when the jobs are under way. *)
StepWhileRedone(row) == "AwaitingProcessing"
CurrentStep(row) == row.ws

(* QueueForceDerivatives                                                   *)
Redo(s) ==
  /\ Doing(s, "redo") /\ queued < MaxPipes
  /\ pipes' = pipes \cup {Pipe("redo", First(s), CurrentStep(Rows(s)[First(s)]))}
  /\ queued' = queued + 1
  /\ sess' = [sess EXCEPT ![s].todo = Taken(s)]
  /\ UNCHANGED <<issueVars, batchVars, purge, deaths>>

SessionDies(s) ==
  /\ sess[s].todo # <<>> /\ deaths < MaxDeaths
  /\ sess' = [sess EXCEPT ![s] = NotLoaded]
  /\ deaths' = deaths + 1
  /\ UNCHANGED <<issueVars, batchVars, pipes, queued, purge>>

----------------------------------------------------------------------------
(* What people change by hand as a batch is loaded and archived            *)

ByHand(b) == Undisturbed => \A s \in Sessions : sess[s].batch # b

(* The batch, its bag being valid, is in production, and so are its issues. *)
GoLive(b) ==
  /\ ByHand(b) /\ batches[b].status = "qc_ready"
  /\ \A p \in pipes : ~(p.kind = "make" /\ p.about = b)
  /\ batches' = [batches EXCEPT ![b].status = "live"]
  /\ UNCHANGED <<issueVars, dirs, listed, pipes, queued, sess, purge, deaths>>

IgnoreIssues ==
  /\ issues' = [i \in Issues |->
                  IF issues[i].batch # 0 /\ batches[issues[i].batch].status = "live"
                  THEN [issues[i] EXCEPT !.ignored = TRUE, !.ws = "InProduction"]
                  ELSE issues[i]]
  /\ issues' # issues
  /\ UNCHANGED <<edits, files, mets, batchVars, pipes, queued, sess, purge, deaths>>

(* After the issues: into the dark archive, its directory moved away       *)
Archive(b) ==
  /\ batches[b].status = "live" /\ batches[b].archived = "no" /\ IssuesOf(b) = {}
  /\ ByHand(b)
  /\ batches' = [batches EXCEPT ![b].location = "none", ![b].archived = "recently"]
  /\ dirs' = [dirs EXCEPT ![b] = NoBatchDirs]
  /\ UNCHANGED <<issueVars, listed, pipes, queued, sess, purge, deaths>>

FourWeeksPass(b) ==
  /\ batches[b].archived = "recently"
  /\ batches' = [batches EXCEPT ![b].archived = "four-weeks-ago"]
  /\ UNCHANGED <<issueVars, dirs, listed, pipes, queued, sess, purge, deaths>>

----------------------------------------------------------------------------
(* delete-live-done-issues                                                 *)

OnlyPurge == UNCHANGED <<edits, mets, dirs, listed, pipes, queued, sess, deaths>>

LiveArchived == {b \in BatchIds : batches[b].status = "live" /\ batches[b].archived # "no"}
Completed == {i \in Issues : /\ issues[i].batch # 0
                             /\ batches[issues[i].batch].status = "live_done"
                             /\ issues[i].ignored /\ issues[i].located}

(* Mutant: Close does not ask how long ago the batch was archived.         *)
Closable(b) == batches[b].status = "live"
(* Mutant: it compares the times the wrong way round.                      *)
ClosableWhileRecent(b) == batches[b].status = "live" /\ batches[b].archived = "recently"
MayClose(b) == batches[b].status = "live" /\ batches[b].archived = "four-weeks-ago"
Closed(b) == IF MayClose(b) THEN [batches[b] EXCEPT !.status = "live_done"] ELSE batches[b]

(* A run with nothing to do is not told.                                   *)
StartPurge ==
  /\ purge.pc = "idle" /\ (LiveArchived # {} \/ Completed # {})
  /\ purge' = [NotPurging EXCEPT !.pc = "closing", !.close = LiveArchived]
  /\ UNCHANGED <<issues, files, batches>> /\ OnlyPurge

(* Close's error is not looked at.                                         *)
Close(b) ==
  /\ purge.pc = "closing" /\ b \in purge.close
  /\ batches' = [batches EXCEPT ![b] = Closed(b)]
  /\ purge' = [purge EXCEPT !.close = @ \ {b}]
  /\ UNCHANGED <<issues, files>> /\ OnlyPurge

FindCompletedIssues ==
  /\ purge.pc = "closing" /\ purge.close = {}
  /\ purge' = [purge EXCEPT !.pc = "removing", !.list = [i \in Completed |-> issues[i]]]
  /\ UNCHANGED <<issues, files, batches>> /\ OnlyPurge

(* A dry run, without --live, removes nothing but closes batches too.      *)
DryRun ==
  /\ purge.pc = "idle" /\ \E b \in LiveArchived : MayClose(b)
  /\ batches' = [b \in BatchIds |-> IF b \in LiveArchived THEN Closed(b) ELSE batches[b]]
  /\ UNCHANGED <<issues, files, purge>> /\ OnlyPurge

(* After the warning: the directory of one of the issues ...               *)
RemoveFiles(i) ==
  /\ purge.pc = "removing" /\ i \in DOMAIN purge.list
  /\ purge.list[i].ws = "InProduction"
  /\ files' = [files EXCEPT ![i] = FALSE]
  /\ purge' = [purge EXCEPT !.pc = "removed", !.close = {i}]
  /\ UNCHANGED <<issues, batches>> /\ OnlyPurge

(* ... and then its location, in the row as it was listed                  *)
SaveLocation(i) ==
  /\ purge.pc = "removed" /\ purge.close = {i}
  /\ issues' = [issues EXCEPT ![i] = [purge.list[i] EXCEPT !.located = FALSE]]
  /\ purge' = [purge EXCEPT !.pc = "removing", !.close = {},
                 !.list = [k \in DOMAIN purge.list \ {i} |-> purge.list[k]]]
  /\ UNCHANGED <<files, batches>> /\ OnlyPurge

(* The list is done, or the next issue on it is not in production.         *)
EndPurge ==
  /\ purge.pc = "removing"
  /\ \A i \in DOMAIN purge.list : purge.list[i].ws # "InProduction"
  /\ purge' = NotPurging
  /\ UNCHANGED <<issues, files, batches>> /\ OnlyPurge

PurgeDies ==
  /\ purge.pc # "idle" /\ deaths < MaxDeaths
  /\ purge' = NotPurging
  /\ deaths' = deaths + 1
  /\ UNCHANGED <<issueVars, batchVars, pipes, queued, sess>>

----------------------------------------------------------------------------
Fixing(s) ==
  \/ \E b \in BatchIds : LoadBatch(s, b)
  \/ QuitBatch(s) \/ FailQC(s) \/ RedoAllDerivatives(s) \/ DeleteBatch(s) \/ RequeueBatch(s)
  \/ \E i \in Issues : RedoDerivatives(s, i)
  \/ \E ws \in SentTo : RemoveAllAndDelete(s, ws) \/ \E i \in Issues : InvalidateIssue(s, i, ws)

Stepping(s) ==
  \/ RemoveDir(s) \/ RemoveMETS(s) \/ KeepMETS(s) \/ Reload(s) \/ Delete(s)
  \/ SaveStatus(s) \/ Queue(s) \/ Invalidate(s) \/ Redo(s)

Hand ==
  \/ IgnoreIssues
  \/ \E b \in BatchIds : GoLive(b) \/ Archive(b)

Time == \E b \in BatchIds : FourWeeksPass(b)

Purge ==
  \/ FindCompletedIssues \/ EndPurge
  \/ \E b \in BatchIds : Close(b)
  \/ \E i \in Issues : RemoveFiles(i) \/ SaveLocation(i)

Next ==
  \/ QueueBatches
  \/ \E i \in Issues : Finalize(i)
  \/ \E p \in pipes : RunJob(p)
  \/ \E s \in Sessions : Fixing(s) \/ Stepping(s) \/ SessionDies(s)
  \/ Hand \/ Time \/ Purge \/ PurgeDies
  \/ StartPurge \/ DryRun

(* Time passes; the purge is run regularly, with --live, and goes on to its
   end unless it dies.                                                      *)
Fairness == WF_vars(Time) /\ WF_vars(Purge) /\ SF_vars(StartPurge)

Spec == Init /\ [][Next]_vars /\ Fairness

----------------------------------------------------------------------------
(* Properties                                                              *)

IssueRow == [ws : Steps, batch : 0..MaxBatches, ignored : BOOLEAN, located : BOOLEAN]
BatchRow == [status : Statuses, location : {"none", "wip", "final"},
             archived : {"no", "recently", "four-weeks-ago"}]

TypeOK ==
  /\ issues \in [Issues -> IssueRow] /\ batches \in Seq(BatchRow)
  /\ Len(batches) <= MaxBatches /\ Len(dirs) = Len(batches) /\ Len(listed) = Len(batches)
  /\ \A i \in Issues : edits[i] \in 1..MaxEdits /\ mets[i] \in 0..edits[i]
  /\ queued \in 0..MaxPipes /\ Cardinality(pipes) <= queued
  /\ \A p \in pipes : p.at \in DOMAIN JobsOf(p) /\ p.restore \in Steps \cup {"none"}
  /\ \A s \in Sessions : sess[s].batch \in 0..Len(batches) /\ sess[s].row \in BatchRow
  /\ deaths \in 0..MaxDeaths

Shown == {b \in BatchIds : batches[b].status \in {"qc_ready", "live"}}

(* A batch that is shown to anybody - in staging, in production, on the way
   there - consists of the issues whose rows name it, all and only those,
   with the METS files of their last approved metadata, and its XML lists
   the same issues: whatever was rejected, deleted, redone and requeued, and
   wherever a session died (linkFiles, MakeBatchXML, Batch.Fail).            *)
ShownAsReviewed ==
  \A b \in Shown : dirs[b].final # NoDir =>
    /\ dirs[b].final = {<<i, edits[i]>> : i \in InBatch(b)}
    /\ listed[b] = InBatch(b)

(* A batch that failed or was deleted has left no directory that could still
   be loaded, and no pipeline that would bring one back.                    *)
NothingLeftOfFailed ==
  \A b \in BatchIds : batches[b].status \in {"failed_qc", "deleted"} =>
    /\ dirs[b] = NoBatchDirs
    /\ \A p \in pipes : p.kind = "make" /\ p.about = b => JobsOf(p)[p.at] = "write_bagit_manifest"

(* No issue falls between two chairs: people or commands find it by its
   step, a pipeline will move it on, or it is in a batch that still is one.  *)
NoIssueLost ==
  \A i \in Issues :
    \/ issues[i].ws \in SentTo /\ issues[i].batch = 0
    \/ issues[i].ws = "ReadyForBatching" /\ issues[i].batch = 0 /\ mets[i] = edits[i]
    \/ issues[i].ws = "AwaitingProcessing"
         /\ \E p \in pipes : p.about = i /\ p.kind = "redo" /\ p.restore # "AwaitingProcessing"
    \/ issues[i].batch # 0 /\ batches[issues[i].batch].status # "deleted"

(* The files of an issue are removed from disk only when its batch has been
   in production and in the dark archive for four weeks (Batch.Close): the
   session, run or person who acts may be working on old rows.               *)
RemovedOnlyWhenDone ==
  \A i \in Issues : ~files[i] =>
    /\ issues[i].batch # 0 /\ issues[i].ignored
    /\ batches[issues[i].batch].status = "live_done"
    /\ batches[issues[i].batch].archived = "four-weeks-ago"

(* ... and then they are removed: runs that die or were dry put it off only. *)
CleanedUp ==
  \A i \in Issues :
    (/\ issues[i].batch # 0
     /\ batches[issues[i].batch].status = "live" /\ batches[issues[i].batch].archived # "no")
      ~> (~files[i] /\ ~issues[i].located)
=============================================================================

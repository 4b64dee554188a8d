--------------------------- MODULE IssueWorkflow ---------------------------
(***************************************************************************)
(* One issue's way from the first derivatives to its batch: curators,      *)
(* reviewers and managers working on it in the web application             *)
(* (cmd/server/internal/workflowhandler, models/issue.go), the background  *)
(* jobs that change its row (jobs/metadata_jobs.go), and queue-batches     *)
(* (cmd/queue-batches, CreateBatch in models/batch.go).                    *)
(*                                                                         *)
(* All of them do the same thing: they load the whole row, decide by what  *)
(* it says, and later write the whole row back, with nothing to keep       *)
(* others from writing in between.  A request is therefore modelled as the *)
(* list of rows it will write, computed from the row it loaded.  Overlap   *)
(* says how many may be between their load and their last write at once.   *)
(*                                                                         *)
(* What a curator types is told by who typed it (editor) and whether it    *)
(* passes ValidateMetadata (valid).  editor is no column: it stands for    *)
(* the metadata itself, which travels with every copy of the row.          *)
(***************************************************************************)
EXTENDS Integers, Sequences, FiniteSets

CONSTANTS
  Users,        (* the people with an account                              *)
  Curators,     (* those with the role "issue curator"                     *)
  Reviewers,    (* those with the role "issue reviewer"                    *)
  Managers,     (* those with the role "issue manager"                     *)
  Nobody,       (* user id 0                                               *)
  Requests,     (* slots for web requests and runs of queue-batches        *)
  Overlap,      (* bound: how many readers may have yet to write           *)
  MaxPipelines, (* bound: how many pipelines may ever be queued            *)
  MaxBatches,   (* bound: how many batches may ever be created             *)
  RequestsDie,  (* whether the web server may die during a request         *)
  JobsFail      (* whether a job may fail, to be run again                 *)

ASSUME UsersAssumption ==
  /\ Curators \cup Reviewers \cup Managers \subseteq Users
  /\ Nobody \notin Users
  /\ IsFiniteSet(Requests)
  /\ MaxPipelines \in Nat /\ MaxBatches \in Nat /\ Overlap \in Nat
  /\ RequestsDie \in BOOLEAN /\ JobsFail \in BOOLEAN

VARIABLES
  row,    (* the issue's row in the issues table                            *)
  req,    (* what each request has yet to do: write rows, queue a pipeline  *)
  pipes,  (* the pipelines queued for the issue, and how far they are       *)
  batched (* the ids of the batches queue-batches has put the issue in      *)

vars == <<row, req, pipes, batched>>

----------------------------------------------------------------------------
Steps == {"AwaitingProcessing", "ReadyForMetadataEntry", "AwaitingMetadataReview",
          "UnfixableMetadataError", "ReadyForMETSXML", "ReadyForBatching"}
Batches == 0..MaxBatches
Someone == Users \cup {Nobody}

(* current: the owner's claim has not expired                              *)
Issue == [step : Steps, owner : Someone, current : BOOLEAN, author : Someone,
          rejecter : Someone, reviewer : Someone, editor : Someone,
          valid : BOOLEAN, ignored : BOOLEAN, batch : Batches]

(* The privileges of privilege/privilege.go                                *)
EnterIssueMetadata    == Curators \cup Managers
ReviewIssueMetadata   == Reviewers \cup Managers
ReviewOwnMetadata     == Managers
ReviewUnfixableIssues == Managers

(* The jobs of each pipeline that write the issue's row: SetIssueWS by the
   step it sets, IgnoreIssue, and "save" for those which write back what
   they loaded as far as this module tells.                                *)
JobsOf == [
  derivatives |-> <<"AwaitingProcessing", "save", "ReadyForMetadataEntry", "save">>,
  finalize    |-> <<"save", "ReadyForBatching", "save">>,
  remove      |-> <<"save", "ignore", "save", "UnfixableMetadataError", "save">>]

Idle == [writes |-> <<>>, user |-> Nobody, queue |-> "none", batch |-> 0]
Queued(kind) == [kind |-> kind, at |-> 1, copy |-> <<>>]

Init ==
  /\ row = [step |-> "AwaitingProcessing", owner |-> Nobody, current |-> FALSE,
            author |-> Nobody, rejecter |-> Nobody, reviewer |-> Nobody,
            editor |-> Nobody, valid |-> FALSE, ignored |-> FALSE, batch |-> 0]
  /\ req = [q \in Requests |-> Idle]
  /\ pipes = <<Queued("derivatives")>>
  /\ batched = {}

----------------------------------------------------------------------------
(* The changes models/issue.go makes to a copy of the row                  *)

(* Nobody, user id 0, and the system user claim nothing.                   *)
Claimed(r, u) ==
  IF u = Nobody THEN r ELSE [r EXCEPT !.owner = u, !.current = TRUE]

Unclaimed(r) == [r EXCEPT !.owner = Nobody, !.current = FALSE]

(* A rejected issue goes back to the reviewer who rejected it.             *)
QueuedForMetadataReview(r, u) ==
  Claimed([Unclaimed(r) EXCEPT !.step = "AwaitingMetadataReview", !.author = u],
          r.rejecter)

(* Mutant: the reviewer is not recorded.                                   *)
MetadataApprovedUnsigned(r, u) ==
  [Unclaimed(r) EXCEPT !.step = "ReadyForMETSXML"]

MetadataApproved(r, u) ==
  [Unclaimed(r) EXCEPT !.step = "ReadyForMETSXML", !.reviewer = u]

MetadataRejected(r, u) ==
  [Claimed(r, r.author) EXCEPT !.step = "ReadyForMetadataEntry", !.rejecter = u]

ErrorReported(r) == [Unclaimed(r) EXCEPT !.step = "UnfixableMetadataError"]

ReturnedFor(r, step, u) == Claimed([Unclaimed(r) EXCEPT !.step = step], u)

PreppedForRemoval(r) == [Unclaimed(r) EXCEPT !.step = "AwaitingProcessing"]

----------------------------------------------------------------------------
(* Who may do what: workflowhandler/can.go                                 *)

IsOwned(r) == r.owner # Nobody /\ r.current
Owns(u, r) == IsOwned(r) /\ r.owner = u

NotOwnWork(u, r) == r.author # u \/ u \in ReviewOwnMetadata

CanClaim(u, r) ==
  /\ ~IsOwned(r)
  /\ \/ r.step = "ReadyForMetadataEntry" /\ u \in EnterIssueMetadata
     \/ r.step = "AwaitingMetadataReview" /\ u \in ReviewIssueMetadata /\ NotOwnWork(u, r)
     \/ r.step = "UnfixableMetadataError" /\ u \in ReviewUnfixableIssues

CanEnterMetadata(u, r) ==
  u \in EnterIssueMetadata /\ Owns(u, r) /\ r.step = "ReadyForMetadataEntry"

(* Mutant: an author may review what he entered.                           *)
CanReviewAnyMetadata(u, r) ==
  /\ u \in ReviewIssueMetadata
  /\ Owns(u, r)
  /\ r.step = "AwaitingMetadataReview"

CanReviewMetadata(u, r) ==
  /\ u \in ReviewIssueMetadata
  /\ Owns(u, r)
  /\ r.step = "AwaitingMetadataReview"
  /\ NotOwnWork(u, r)

CanReviewUnfixable(u, r) ==
  u \in ReviewUnfixableIssues /\ Owns(u, r) /\ r.step = "UnfixableMetadataError"

----------------------------------------------------------------------------
(* Requests: each loads the row, checks it, and plans its writes.          *)

InFlight == Cardinality({q \in Requests : req[q].writes # <<>>})
            + Cardinality({p \in 1..Len(pipes) : pipes[p].copy # <<>>})

(* The bound on pipelines holds back the requests that would queue one.     *)
MayQueue ==
  Len(pipes) + Cardinality({q \in Requests : req[q].queue # "none"}) < MaxPipelines

Start(q, u, writes, queue) ==
  /\ req[q] = Idle
  /\ InFlight < Overlap
  /\ queue # "none" => MayQueue
  /\ writes # <<>>
  /\ req' = [req EXCEPT ![q] =
               [writes |-> writes, user |-> u, queue |-> queue, batch |-> 0]]
  /\ UNCHANGED <<row, pipes, batched>>

claimIssue(q, u) ==
  CanClaim(u, row) /\ Start(q, u, <<Claimed(row, u)>>, "none")

unclaimIssue(q, u) ==
  Owns(u, row) /\ Start(q, u, <<Unclaimed(row)>>, "none")

(* What a curator's form may hold                                          *)
Edited(r, u, valid) == [r EXCEPT !.editor = u, !.valid = valid]

(* autosave and saveDraft; they write nothing when nothing was changed.    *)
saveDraft(q, u) ==
  /\ CanEnterMetadata(u, row)
  /\ \E valid \in BOOLEAN : Start(q, u, <<Edited(row, u, valid)>>, "none")

(* saveQueue: save what was changed, then queue the issue for review if it
   is valid, then once more to record that warnings were ignored.  With
   errors, or warnings not accepted, it ends as saveDraft does.            *)
QueueWrites(r, u) ==
  LET qr == QueuedForMetadataReview(r, u) IN {<<qr>>, <<qr, qr>>}

saveQueue(q, u) ==
  /\ CanEnterMetadata(u, row)
  /\ \/ /\ row.valid
        /\ \E writes \in QueueWrites(row, u) : Start(q, u, writes, "none")
     \/ LET e == Edited(row, u, TRUE)
        IN  \E writes \in QueueWrites(e, u) : Start(q, u, <<e>> \o writes, "none")

saveError(q, u) ==
  CanEnterMetadata(u, row) /\ Start(q, u, <<ErrorReported(row)>>, "none")

approveIssueMetadata(q, u) ==
  /\ CanReviewMetadata(u, row)
  /\ row.valid
  /\ Start(q, u, <<MetadataApproved(row, u)>>, "finalize")

rejectIssueMetadata(q, u) ==
  CanReviewMetadata(u, row) /\ Start(q, u, <<MetadataRejected(row, u)>>, "none")

(* The manager names the step, and any user or none to go on with it.      *)
returnErrorIssue(q, u) ==
  /\ CanReviewUnfixable(u, row)
  /\ \E step \in {"ReadyForMetadataEntry", "AwaitingMetadataReview"}, w \in Someone :
       Start(q, u, <<ReturnedFor(row, step, w)>>, "none")

removeUnfixableIssue(q, u) ==
  CanReviewUnfixable(u, row) /\ Start(q, u, <<PreppedForRemoval(row)>>, "remove")

AddedToBatch(r, b) == [r EXCEPT !.batch = b]

(* queue-batches: FindReadyIssues loads the row, CreateBatch writes it.    *)
FindReadyIssues(q) ==
  /\ row.step = "ReadyForBatching" /\ row.batch = 0 /\ ~row.ignored
  /\ req[q] = Idle
  /\ InFlight < Overlap
  /\ \E b \in Batches \ ({0} \cup batched) :
       /\ \A x \in Requests : req[x].batch # b
       /\ req' = [req EXCEPT ![q] = [writes |-> <<AddedToBatch(row, b)>>,
                                     user |-> Nobody, queue |-> "none", batch |-> b]]
  /\ UNCHANGED <<row, pipes, batched>>

----------------------------------------------------------------------------
(* A request goes on.                                                      *)

(* What is left of a request after its next write                          *)
AfterWrite(r) ==
  IF Len(r.writes) = 1 /\ r.queue = "none" THEN Idle
  ELSE [r EXCEPT !.writes = Tail(r.writes)]

(* The next write of the row                                               *)
Write(q) ==
  /\ req[q].writes # <<>>
  /\ row' = Head(req[q].writes)
  /\ req' = [req EXCEPT ![q] = AfterWrite(req[q])]
  /\ batched' = IF req[q].batch = 0 THEN batched ELSE batched \cup {req[q].batch}
  /\ UNCHANGED pipes

(* QueueFinalizeIssue or QueueRemoveErroredIssue, once the row is written  *)
QueuePipeline(q) ==
  /\ req[q].writes = <<>> /\ req[q].queue # "none"
  /\ pipes' = Append(pipes, Queued(req[q].queue))
  /\ req' = [req EXCEPT ![q] = Idle]
  /\ UNCHANGED <<row, batched>>

(* The server dies, or the database refuses the rest of the request.       *)
RequestDies(q) ==
  /\ RequestsDie
  /\ req[q] # Idle
  /\ req' = [req EXCEPT ![q] = Idle]
  /\ UNCHANGED <<row, pipes, batched>>

(* A week passes.  No request and no job is under way for that long.       *)
ClaimExpires ==
  /\ IsOwned(row)
  /\ InFlight = 0
  /\ row' = [row EXCEPT !.current = FALSE]
  /\ UNCHANGED <<req, pipes, batched>>

----------------------------------------------------------------------------
(* Jobs.  NewIssueJob loads the row, Process writes it.  The jobs of a
   pipeline run one at a time and in order (JobQueue); a failed one is run
   again.                                                                  *)

NextJob(p) == JobsOf[pipes[p].kind][pipes[p].at]
Unfinished(p) == pipes[p].at <= Len(JobsOf[pipes[p].kind])

(* Mutant: SetIssueWS leaves the step alone.                               *)
ProcessedWithoutStep(job, r) ==
  IF job = "ignore" THEN [r EXCEPT !.ignored = TRUE] ELSE r

Processed(job, r) ==
  IF job = "ignore" THEN [r EXCEPT !.ignored = TRUE]
  ELSE IF job = "save" THEN r
  ELSE [r EXCEPT !.step = job]

NewIssueJob(p) ==
  /\ Unfinished(p)
  /\ pipes[p].copy = <<>>
  /\ InFlight < Overlap
  /\ pipes' = [pipes EXCEPT ![p].copy = <<row>>]
  /\ UNCHANGED <<row, req, batched>>

Process(p) ==
  /\ pipes[p].copy # <<>>
  /\ row' = Processed(NextJob(p), Head(pipes[p].copy))
  /\ pipes' = [pipes EXCEPT ![p] = [kind |-> pipes[p].kind, at |-> pipes[p].at + 1,
                                    copy |-> <<>>]]
  /\ UNCHANGED <<req, batched>>

JobFails(p) ==
  /\ JobsFail
  /\ pipes[p].copy # <<>>
  /\ pipes' = [pipes EXCEPT ![p].copy = <<>>]
  /\ UNCHANGED <<row, req, batched>>

----------------------------------------------------------------------------
Load(q, u) ==
  \/ claimIssue(q, u) \/ unclaimIssue(q, u)
  \/ saveDraft(q, u) \/ saveQueue(q, u) \/ saveError(q, u)
  \/ approveIssueMetadata(q, u) \/ rejectIssueMetadata(q, u)
  \/ returnErrorIssue(q, u) \/ removeUnfixableIssue(q, u)

Next ==
  \/ \E q \in Requests :
       \/ \E u \in Users : Load(q, u)
       \/ FindReadyIssues(q)
       \/ Write(q) \/ QueuePipeline(q) \/ RequestDies(q)
  \/ \E p \in 1..Len(pipes) : NewIssueJob(p) \/ Process(p) \/ JobFails(p)
  \/ ClaimExpires

Spec == Init /\ [][Next]_vars

(* Requests that were begun go on; the runners work the jobs off, each
   coming round often enough to find the others out of the way.            *)
Fairness ==
  /\ \A q \in Requests : WF_vars(Write(q)) /\ WF_vars(QueuePipeline(q))
  /\ \A p \in 1..MaxPipelines :
       /\ WF_vars(p \in DOMAIN pipes /\ Process(p))
       /\ SF_vars(p \in DOMAIN pipes /\ NewIssueJob(p))

FairSpec == Spec /\ Fairness

----------------------------------------------------------------------------
TypeOK ==
  /\ row \in Issue
  /\ req \in [Requests -> [writes : Seq(Issue), user : Someone,
                          queue : {"none", "finalize", "remove"}, batch : Batches]]
  /\ pipes \in Seq([kind : DOMAIN JobsOf, at : Nat \ {0}, copy : Seq(Issue)])
  /\ batched \subseteq Batches \ {0}

(* What a reviewer's approval stands for                                   *)
SignedOff(r) == r.valid /\ r.reviewer # Nobody /\ NotOwnWork(r.reviewer, r)

(* An issue waiting for its METS is valid and was approved by somebody who
   is not its recorded author, or a manager: whatever stale rows requests
   and jobs write over each other's (ApproveMetadata, Can.ReviewMetadata). *)
ReviewedByAnother == row.step = "ReadyForMETSXML" => SignedOff(row)

(* ReviewedByAnother made inductive: it holds of every row anybody is yet to
   write, and a job that has loaded the row is one its pipeline has.       *)
GoodRow(r) == r \in Issue /\ (r.step = "ReadyForMETSXML" => SignedOff(r))

RowsGood ==
  /\ GoodRow(row)
  /\ \A q \in Requests : \A i \in DOMAIN req[q].writes : GoodRow(req[q].writes[i])
  /\ \A p \in DOMAIN pipes : \A i \in DOMAIN pipes[p].copy : GoodRow(pipes[p].copy[i])

JobsUnderWay == \A p \in DOMAIN pipes : pipes[p].copy # <<>> => Unfinished(p)

IInv == TypeOK /\ RowsGood /\ JobsUnderWay

(* With one writer at a time, nothing gets ready for batching, or into a
   batch, that was not approved in that way (QueueFinalizeIssue's jobs set
   the step of whatever they find).                                        *)
OnlyReviewedBatched ==
  row.step = "ReadyForBatching" \/ row.batch # 0 => SignedOff(row)

(* The steps in which no person can do anything with the issue do not last,
   once the pipeline that leads out of them is queued: no other request or
   pipeline can put the issue back, or undo what the pipeline does.        *)
Invisible == {"AwaitingProcessing", "ReadyForMETSXML"}
LeadsOut(p) ==
  \E i \in pipes[p].at..Len(JobsOf[pipes[p].kind]) :
    JobsOf[pipes[p].kind][i] \in Steps \ Invisible
InvisibleStepsPass ==
  row.step \in Invisible /\ (\E p \in DOMAIN pipes : LeadsOut(p))
    ~> row.step \notin Invisible
=============================================================================

------------------------------ MODULE JobQueue ------------------------------
(***************************************************************************)
(* The background job queue: the jobs table (models/job.go), the serial    *)
(* pipelines the queue builders insert into it (jobs/queue.go), the        *)
(* runners which work it off (jobs/runner.go), and the operator commands   *)
(* of run-jobs (cmd/run-jobs/main.go).                                     *)
(*                                                                         *)
(* Every database transaction and every separate database call is one      *)
(* step, so a crash, a stop or another process may come between any two.   *)
(* A job row's arguments never change once it is saved, and each step      *)
(* that writes a whole row changes nothing in it but its status; writing   *)
(* a stale copy is therefore writing the status the copy carries, whatever *)
(* the status in the table has become.                                     *)
(*                                                                         *)
(* PopNextPendingJob orders by created_at, a column of whole seconds in    *)
(* which the rows of one transaction tie.  The choice among due jobs is    *)
(* left open here, so what holds below holds for every tie.                *)
(***************************************************************************)
EXTENDS Integers, Sequences

CONSTANTS
  Chains,      (* the serial pipelines: one per call of QueueSerial          *)
  JobTypes,    (* the job types in use                                       *)
  StepTypes,   (* StepTypes[c][i]: the job type of the i-th job of chain c   *)
  Runners,     (* the job runners, in whatever processes they live           *)
  Watches,     (* Watches[r]: the job types runner r was told to watch       *)
  Operators,   (* people at a shell running "run-jobs requeue"               *)
  MaxRetries,  (* Processor.MaxRetries: 25 in the code                       *)
  MaxJobs,     (* bound: how many rows the jobs table can ever hold          *)
  MaxAtRequeue, (* bound: no requeue once the table holds that many rows     *)
  Faults       (* which of AllFaults may happen                              *)

ASSUME ChainsAssumption ==
  /\ StepTypes \in [Chains -> Seq(JobTypes)]
  /\ \A c \in Chains : Len(StepTypes[c]) > 0

AllFaults == {"crash", "dberror", "reset", "force", "stop"}

ASSUME RunnersAssumption ==
  /\ Watches \in [Runners -> SUBSET JobTypes]
  /\ MaxRetries \in Nat
  /\ MaxJobs \in Nat
  /\ Faults \subseteq AllFaults

VARIABLES
  jobs,    (* the jobs table: a row for each id, NoRow where none exists     *)
  lastId,  (* the table's AUTO_INCREMENT counter                             *)
  pc,      (* where each runner is in its loop                               *)
  held,    (* the id of the dbJob each runner works on, 0 for none           *)
  isDone,  (* Runner.isDone: the runner was asked to stop                    *)
  opHeld,  (* the id of the failed job each operator's command has loaded    *)
  ran      (* history: the steps of each chain some Process returned true on *)

vars == <<jobs, lastId, pc, held, isDone, opHeld, ran>>

----------------------------------------------------------------------------
JobIds == 1..MaxJobs
NumSteps(c) == Len(StepTypes[c])
Steps == UNION {1..NumSteps(c) : c \in Chains}

Statuses == {"on_hold", "pending", "in_process", "success", "failed", "failed_done"}

(* chain and step say which job of which pipeline the row is (or is a clone
   of); due is run_at <= now; forced marks rows made by "force-rerun" and
   their clones.                                                           *)
Row == [status : Statuses, chain : Chains, step : Steps, retry : 0..MaxRetries,
        due : BOOLEAN, queueJobID : 0..MaxJobs, forced : BOOLEAN]
NoRow == [status |-> "none"]

Exists(id) == jobs[id].status # "none"
TypeOf(id) == StepTypes[jobs[id].chain][jobs[id].step]
Queued(c)  == \E id \in JobIds : Exists(id) /\ jobs[id].chain = c

(* Job.SaveOp on an existing row whose copy carries status s               *)
Save(id, s) == [jobs EXCEPT ![id].status = s]

(* Mutant: the row that was cloned is not saved.                           *)
CloneOnly(id, clone, s) ==
  /\ lastId < MaxJobs
  /\ jobs' = [jobs EXCEPT ![lastId + 1] = clone]
  /\ lastId' = lastId + 1

(* One transaction: insert a clone of row id, and save id itself as s      *)
CloneAndSave(id, clone, s) ==
  /\ lastId < MaxJobs
  /\ jobs' = [jobs EXCEPT ![lastId + 1] = clone, ![id].status = s]
  /\ lastId' = lastId + 1

Init ==
  /\ jobs = [id \in JobIds |-> NoRow]
  /\ lastId = 0
  /\ pc = [r \in Runners |-> "idle"]
  /\ held = [r \in Runners |-> 0]
  /\ isDone = [r \in Runners |-> FALSE]
  /\ opHeld = [o \in Operators |-> 0]
  /\ ran = [c \in Chains |-> {}]

----------------------------------------------------------------------------
(* Queueing and time                                                       *)

(* Mutant: every job of the pipeline is pending.                           *)
SerialRowReady(c, i) ==
  [status     |-> "pending",
   chain      |-> c,
   step       |-> i,
   retry      |-> 0,
   due        |-> TRUE,
   queueJobID |-> IF i = NumSteps(c) THEN 0 ELSE lastId + NumSteps(c) - i,
   forced     |-> FALSE]

(* QueueSerialOp saves the jobs last to first, so that each row can name
   its successor's id, in one transaction: the first job is pending and all
   the others are on hold.                                                 *)
SerialRow(c, i) ==
  [status     |-> IF i = 1 THEN "pending" ELSE "on_hold",
   chain      |-> c,
   step       |-> i,
   retry      |-> 0,
   due        |-> TRUE,
   queueJobID |-> IF i = NumSteps(c) THEN 0 ELSE lastId + NumSteps(c) - i,
   forced     |-> FALSE]

QueueSerial(c) ==
  /\ ~Queued(c)
  /\ lastId + NumSteps(c) <= MaxJobs
  /\ jobs' = [id \in JobIds |->
                IF id \in lastId + 1 .. lastId + NumSteps(c)
                THEN SerialRow(c, lastId + NumSteps(c) + 1 - id)
                ELSE jobs[id]]
  /\ lastId' = lastId + NumSteps(c)
  /\ UNCHANGED <<pc, held, isDone, opHeld, ran>>

(* The retry delay set by FailAndRetry runs out.                           *)
BackoffElapses(id) ==
  /\ Exists(id)
  /\ ~jobs[id].due
  /\ jobs' = [jobs EXCEPT ![id].due = TRUE]
  /\ UNCHANGED <<lastId, pc, held, isDone, opHeld, ran>>

----------------------------------------------------------------------------
(* Runners.  pc: "idle" between jobs, "selected" inside the transaction of
   PopNextPendingJob, "running" while Process works, "ok" and "notok" once
   it has returned, "saved" after the job was saved as successful.         *)

Idle(r) == [pc EXCEPT ![r] = "idle"]
Drop(r) == [held EXCEPT ![r] = 0]
At(r, from, to) == pc[r] = from /\ pc' = [pc EXCEPT ![r] = to]

(* Mutant: the query does not ask for the watched types.                   *)
PoppableAnyType(r, id) ==
  /\ jobs[id].status = "pending"
  /\ jobs[id].due

(* What the query in PopNextPendingJob asks of a row                       *)
Poppable(r, id) ==
  /\ jobs[id].status = "pending"
  /\ jobs[id].due
  /\ TypeOf(id) \in Watches[r]

(* The SELECT in PopNextPendingJob; nothing locks the row it returns.      *)
PopSelect(r) ==
  /\ ~isDone[r]
  /\ At(r, "idle", "selected")
  /\ \E id \in JobIds :
       /\ Poppable(r, id)
       /\ held' = [held EXCEPT ![r] = id]
  /\ UNCHANGED <<jobs, lastId, isDone, opHeld, ran>>

(* The UPDATE which ends that transaction                                  *)
PopUpdate(r) ==
  /\ At(r, "selected", "running")
  /\ jobs' = Save(held[r], "in_process")
  /\ UNCHANGED <<lastId, held, isDone, opHeld, ran>>

(* Process returns true, its effects now done                              *)
ProcessSucceeds(r) ==
  /\ At(r, "running", "ok")
  /\ LET j == jobs[held[r]]
     IN  ran' = IF j.forced THEN ran ELSE [ran EXCEPT ![j.chain] = @ \cup {j.step}]
  /\ UNCHANGED <<jobs, lastId, held, isDone, opHeld>>

(* Mutant: the runner does not look at what Process returned.              *)
ProcessFailsUnseen(r) ==
  /\ At(r, "running", "ok")
  /\ UNCHANGED <<jobs, lastId, held, isDone, opHeld, ran>>

(* The job is not Valid(), or Process returns false.                       *)
ProcessFails(r) ==
  /\ At(r, "running", "notok")
  /\ UNCHANGED <<jobs, lastId, held, isDone, opHeld, ran>>

(* Mutant: the runner returns once the job is saved.                       *)
HandleSuccessOnly(r) ==
  /\ pc[r] = "ok"
  /\ jobs' = Save(held[r], "success")
  /\ pc' = Idle(r)
  /\ held' = Drop(r)
  /\ UNCHANGED <<lastId, isDone, opHeld, ran>>

HandleSuccess(r) ==
  /\ At(r, "ok", "saved")
  /\ jobs' = Save(held[r], "success")
  /\ UNCHANGED <<lastId, held, isDone, opHeld, ran>>

(* The next job is made pending whatever its status is.                    *)
QueueNextJob(r) ==
  LET qid == jobs[held[r]].queueJobID
  IN  /\ pc[r] = "saved"
      /\ jobs' = IF qid = 0 THEN jobs ELSE Save(qid, "pending")
      /\ pc' = Idle(r)
      /\ held' = Drop(r)
      /\ UNCHANGED <<lastId, isDone, opHeld, ran>>

(* Mutant: the clone keeps the status of the job that failed.              *)
RetryCloneTaken(id) == [jobs[id] EXCEPT !.retry = @ + 1, !.due = FALSE]

RetryClone(id) ==
  [jobs[id] EXCEPT !.status = "pending", !.retry = @ + 1, !.due = FALSE]

RetriesLeft(id) == jobs[id].retry < MaxRetries

(* attemptRetry when retries are left                                      *)
FailAndRetry(r) ==
  /\ pc[r] = "notok"
  /\ RetriesLeft(held[r])
  /\ CloneAndSave(held[r], RetryClone(held[r]), "failed_done")
  /\ pc' = Idle(r)
  /\ held' = Drop(r)
  /\ UNCHANGED <<isDone, opHeld, ran>>

(* attemptRetry when there are none                                        *)
HandleFailure(r) ==
  /\ pc[r] = "notok"
  /\ ~RetriesLeft(held[r])
  /\ jobs' = Save(held[r], "failed")
  /\ pc' = Idle(r)
  /\ held' = Drop(r)
  /\ UNCHANGED <<lastId, isDone, opHeld, ran>>

(* A database call fails: popping is rolled back; after Process the runner
   logs a critical error and goes on to its next job.                      *)
DatabaseError(r) ==
  /\ "dberror" \in Faults
  /\ pc[r] \in {"selected", "ok", "notok", "saved"}
  /\ pc' = Idle(r)
  /\ held' = Drop(r)
  /\ UNCHANGED <<jobs, lastId, isDone, opHeld, ran>>

(* The runner's process is killed, and started again.                      *)
Crash(r) ==
  /\ "crash" \in Faults
  /\ pc[r] # "idle"
  /\ pc' = Idle(r)
  /\ held' = Drop(r)
  /\ UNCHANGED <<jobs, lastId, isDone, opHeld, ran>>

(* Runner.Stop: the job in hand is finished, no other is popped.           *)
Stop(r) ==
  /\ "stop" \in Faults
  /\ ~isDone[r]
  /\ isDone' = [isDone EXCEPT ![r] = TRUE]
  /\ UNCHANGED <<jobs, lastId, pc, held, opHeld, ran>>

(* A new process takes over the stopped runner's job types.                *)
Restart(r) ==
  /\ isDone[r]
  /\ pc[r] = "idle"
  /\ isDone' = [isDone EXCEPT ![r] = FALSE]
  /\ UNCHANGED <<jobs, lastId, pc, held, opHeld, ran>>

----------------------------------------------------------------------------
(* Operators                                                               *)

(* run-jobs requeue: retryJob loads the job and checks its status.         *)
RequeueLoad(o, id) ==
  /\ opHeld[o] = 0
  /\ lastId < MaxAtRequeue
  /\ jobs[id].status = "failed"
  /\ opHeld' = [opHeld EXCEPT ![o] = id]
  /\ UNCHANGED <<jobs, lastId, pc, held, isDone, ran>>

RenewedClone(id) ==
  [jobs[id] EXCEPT !.status = "pending", !.retry = 0, !.due = TRUE]

(* RenewDeadJob checks the loaded copy's status, not the table's.          *)
RenewDeadJob(o) ==
  /\ opHeld[o] # 0
  /\ CloneAndSave(opHeld[o], RenewedClone(opHeld[o]), "failed_done")
  /\ opHeld' = [opHeld EXCEPT ![o] = 0]
  /\ UNCHANGED <<pc, held, isDone, ran>>

(* The documented repair of a job whose process was killed: somebody sets
   its status from in_process to pending in the database.                  *)
ResetCanceledJob(id) ==
  /\ "reset" \in Faults
  /\ jobs[id].status = "in_process"
  /\ \A r \in Runners : held[r] # id
  /\ jobs' = Save(id, "pending")
  /\ UNCHANGED <<lastId, pc, held, isDone, opHeld, ran>>

(* Mutant: the clone still names the job after it.                         *)
ForcedCloneLinked(id) ==
  [jobs[id] EXCEPT !.status = "pending", !.forced = TRUE]

(* run-jobs force-rerun: clones any job, cut off from the job after it.    *)
ForcedClone(id) ==
  [jobs[id] EXCEPT !.status = "pending", !.queueJobID = 0, !.forced = TRUE]

ForceRerun(id) ==
  /\ "force" \in Faults
  /\ Exists(id)
  /\ lastId < MaxJobs
  /\ jobs' = [jobs EXCEPT ![lastId + 1] = ForcedClone(id)]
  /\ lastId' = lastId + 1
  /\ UNCHANGED <<pc, held, isDone, opHeld, ran>>

----------------------------------------------------------------------------
RunnerStep(r) ==
  \/ PopSelect(r) \/ PopUpdate(r)
  \/ ProcessSucceeds(r) \/ ProcessFails(r)
  \/ HandleSuccess(r) \/ QueueNextJob(r)
  \/ FailAndRetry(r) \/ HandleFailure(r)

Next ==
  \/ \E c \in Chains : QueueSerial(c)
  \/ \E id \in JobIds : BackoffElapses(id)
  \/ \E r \in Runners :
       RunnerStep(r) \/ DatabaseError(r) \/ Crash(r) \/ Stop(r) \/ Restart(r)
  \/ \E o \in Operators : RenewDeadJob(o) \/ \E id \in JobIds : RequeueLoad(o, id)
  \/ \E id \in JobIds : ResetCanceledJob(id) \/ ForceRerun(id)

Spec == Init /\ [][Next]_vars

(* The scheduling the code guarantees: a runner's goroutine keeps looping
   and Process returns; delays run out; a stopped runner is replaced.      *)
Fairness ==
  /\ \A r \in Runners : WF_vars(RunnerStep(r)) /\ WF_vars(Restart(r))
  /\ \A id \in JobIds : WF_vars(BackoffElapses(id))

FairSpec == Spec /\ Fairness

----------------------------------------------------------------------------
(* Properties                                                              *)

TypeOK ==
  /\ jobs \in [JobIds -> Row \cup {NoRow}]
  /\ lastId \in 0..MaxJobs
  /\ pc \in [Runners -> {"idle", "selected", "running", "ok", "notok", "saved"}]
  /\ held \in [Runners -> 0..MaxJobs]
  /\ isDone \in [Runners -> BOOLEAN]
  /\ opHeld \in [Operators -> 0..MaxJobs]
  /\ ran \in [Chains -> SUBSET Steps]
  /\ \A id \in JobIds : Exists(id) <=> id <= lastId

(* The row a runner works on, when it is one of a chain's own jobs         *)
Own(id) == Exists(id) /\ ~jobs[id].forced
Live(id) == Own(id) /\ jobs[id].status \in {"pending", "in_process", "failed"}
InHand(r) == pc[r] \in {"running", "ok", "notok", "saved"}

(* A runner is about to queue the job after held[r].                       *)
HandingOn(r) == pc[r] = "saved" /\ jobs[held[r]].queueJobID # 0

(* Never does a runner execute a job of a pipeline before the Process of
   every earlier job of that pipeline has returned true, whatever retries,
   crashes, database errors, requeues and stops came before: the order
   QueueSerial promises its callers.                                       *)
ChainOrder ==
  \A r \in Runners :
    InHand(r) /\ ~jobs[held[r]].forced =>
      \A i \in 1..(jobs[held[r]].step - 1) : i \in ran[jobs[held[r]].chain]

(* A pipeline has at most one live job (waiting, taken or dead and waiting
   for an operator), so two runners never work on one issue or batch.      *)
SingleLiveJob ==
  \A a, b \in JobIds :
    Live(a) /\ Live(b) /\ jobs[a].chain = jobs[b].chain => a = b

(* No two runners ever have jobs of one pipeline in hand, be it that one of
   them is only about to release the next: but for what an operator forces,
   two jobs are never at the same issue or batch.                          *)
OneRunnerPerPipeline ==
  \A r, s \in Runners :
    /\ InHand(r) /\ ~jobs[held[r]].forced
    /\ InHand(s) /\ ~jobs[held[s]].forced
    /\ jobs[held[r]].chain = jobs[held[s]].chain
    => r = s

(* Each on_hold job is released only when the job before it in its own
   pipeline has been carried out; in particular, the clones "force-rerun"
   makes never release anything.                                           *)
ReleasedInTurn ==
  [][\A id \in JobIds :
       jobs[id].status = "on_hold" /\ jobs'[id].status # "on_hold" =>
         jobs[id].step - 1 \in ran[jobs[id].chain]]_vars

(* Without crashes and database errors no pipeline is ever stranded: until
   its last job has succeeded it has a live job or a runner about to make
   the next one live, retries and requeues notwithstanding.                *)
Finished(c) ==
  \E id \in JobIds : /\ Own(id) /\ jobs[id].chain = c
                     /\ jobs[id].step = NumSteps(c) /\ jobs[id].status = "success"

NeverStranded ==
  \A c \in Chains : Queued(c) =>
    \/ Finished(c)
    \/ \E id \in JobIds : Live(id) /\ jobs[id].chain = c
    \/ \E r \in Runners : HandingOn(r) /\ jobs[held[r]].chain = c

(* Every pipeline that is queued finishes, or ends with a job that used up
   its retries, when every job type is watched and nothing crashes.        *)
Parked(c) ==
  \E id \in JobIds : Own(id) /\ jobs[id].chain = c /\ jobs[id].status = "failed"

PipelinesSettle == \A c \in Chains : Queued(c) ~> Finished(c) \/ Parked(c)
=============================================================================

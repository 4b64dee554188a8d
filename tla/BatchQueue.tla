----------------------------- MODULE BatchQueue -----------------------------
(***************************************************************************)
(* queue-batches: how issues which are ready for batching are put into     *)
(* batches (cmd/queue-batches, CreateBatch in models/batch.go).            *)
(*                                                                         *)
(* A run of the command reads the ready issues once, sorts them into one   *)
(* queue per MARC org code (MOC) and takes batches off those queues until  *)
(* none is left.  It is run again every few days, also after it died.  An  *)
(* issue is told by its pages, its MOC, the day its metadata was approved, *)
(* the day its embargo lifts (0: no embargo) and whether wrapIssue finds   *)
(* it valid.  One run follows another; two at once are not modelled.       *)
(***************************************************************************)
EXTENDS Integers, Sequences, FiniteSets

CONSTANTS
  Issues,             (* the issues                                        *)
  MOCs,               (* the MARC org codes                                *)
  Kinds,              (* what the issues may be like                       *)
  MinPages, MaxPages, (* the settings MIN_BATCH_SIZE and MAX_BATCH_SIZE    *)
  FirstDay,           (* the day of the first run                          *)
  DaysBetween,        (* how many days may pass between two runs           *)
  MaxRuns             (* bound: how often the command is run               *)

NoMOC == ""

ASSUME KindsAssumption ==
  /\ IsFiniteSet(Issues) /\ IsFiniteSet(MOCs)
  /\ Kinds \subseteq [pages : Nat, moc : MOCs, approved : Nat, lifts : Nat,
                      valid : BOOLEAN]
  /\ NoMOC \notin MOCs
  /\ MinPages \in Nat /\ MaxPages \in Nat /\ MaxRuns \in Nat
  /\ FirstDay \in Nat /\ DaysBetween \subseteq Nat

VARIABLES
  issue,      (* what each issue is like: never changes                    *)
  batchId,    (* the issues' column batch_id; 0 when in no batch           *)
  batches,    (* every batch created: the batches table                    *)
  today,
  runs,       (* how often the command was started                         *)
  pc,         (* "start", "batching", "created" (a batch whose jobs are not
                 queued yet), or how the run ended: "done", "panicked", "died" *)
  mocQueue,   (* the run's queue of each MOC                               *)
  mocList,    (* the MOCs whose queue is still to come                     *)
  currentMOC

vars == <<issue, batchId, batches, today, runs, pc, mocQueue, mocList, currentMOC>>
queue == <<mocQueue, mocList, currentMOC>>

Ended == {"done", "panicked", "died"}
Batch == [moc : MOCs, issues : SUBSET Issues, day : Nat, queued : BOOLEAN]

NoQueues == [m \in MOCs |-> {}]

Init ==
  /\ issue \in [Issues -> Kinds]
  /\ batchId = [i \in Issues |-> 0]
  /\ batches = <<>>
  /\ today = FirstDay
  /\ runs = 1
  /\ pc = "start"
  /\ mocQueue = NoQueues /\ mocList = <<>> /\ currentMOC = NoMOC

----------------------------------------------------------------------------
(* The pages of a queue are all the page labels of its issues.             *)
Pages(set) == Cardinality(UNION {{i} \X (1..issue[i].pages) : i \in set})

(* Stale means: more than 30 days past approval and embargo.               *)
DaysStale(i, day) ==
  day - (IF issue[i].approved < issue[i].lifts THEN issue[i].lifts ELSE issue[i].approved)
IsStale(i, day) == DaysStale(i, day) > 30

IsEmbargoed(i) == issue[i].lifts > today

(* Mutant: issues are found again when they are in a batch already.        *)
ReadyInAnyBatch == {i \in Issues : issue[i].approved <= today}

(* What the query of FindReadyIssues yields.  An issue gets ready for
   batching on the day its metadata is approved.                           *)
Ready == {i \in Issues : issue[i].approved <= today /\ batchId[i] = 0}

(* The issues are taken longest approved first; sort.Slice promises no
   order between those approved at the same time.                          *)
OldestFirst(set) ==
  {s \in [1..Cardinality(set) -> set] :
     /\ {s[k] : k \in DOMAIN s} = set
     /\ \A j, k \in DOMAIN s : j < k => issue[s[j]].approved <= issue[s[k]].approved}

(* Mutant: an issue is taken while there is any room left.                 *)
TakenWhileRoom(s, k, popped) ==
  Pages(popped \cap {s[j] : j \in 1..(k - 1)}) < MaxPages

(* Whether the k-th of the sorted issues fits with those taken before it   *)
Fits(s, k, popped) ==
  Pages(popped \cap {s[j] : j \in 1..(k - 1)}) + issue[s[k]].pages <= MaxPages

(* splitQueue: what it may pop from the queue; the rest stays.             *)
Popped(set) ==
  {popped \in SUBSET set :
     \E s \in OldestFirst(set) :
       \A k \in DOMAIN s : s[k] \in popped <=> Fits(s, k, popped)}

(* Mutant: age does not get a small batch through.                         *)
IsBigEnough(popped) == Pages(popped) >= MinPages

IsWorthBatching(popped) ==
  Pages(popped) >= MinPages \/ \E i \in popped : IsStale(i, today)

(* Mutant: the current queue is kept even when it is empty.                *)
StaysAtCurrent == currentMOC # NoMOC

CurrentHasIssues == currentMOC # NoMOC /\ mocQueue[currentMOC] # {}

----------------------------------------------------------------------------
(* The error branch for an issue which wrapIssue refuses uses the nil
   wrapper it was handed, and panics.  No order is asked of the query.     *)
FindReadyIssues ==
  /\ pc = "start"
  /\ IF \E i \in Ready : ~issue[i].valid
     THEN pc' = "panicked" /\ UNCHANGED queue
     ELSE LET found == {i \in Ready : ~IsEmbargoed(i)}
              mocs  == {issue[i].moc : i \in found}
          IN /\ pc' = "batching"
             /\ mocQueue' = [m \in MOCs |-> {i \in found : issue[i].moc = m}]
             /\ mocList' \in {s \in [1..Cardinality(mocs) -> mocs] :
                                {s[k] : k \in DOMAIN s} = mocs}
             /\ currentMOC' = NoMOC
  /\ UNCHANGED <<issue, batchId, batches, today, runs>>

(* nextMOCQueue, when the current queue is empty and others are to come    *)
NextMOC ==
  /\ pc = "batching"
  /\ ~CurrentHasIssues
  /\ mocList # <<>>
  /\ currentMOC' = Head(mocList)
  /\ mocList' = Tail(mocList)
  /\ UNCHANGED <<issue, batchId, batches, today, runs, pc, mocQueue>>

(* nextMOCQueue returns nil: there was nothing left to batch.              *)
NothingLeft ==
  /\ pc = "batching"
  /\ ~CurrentHasIssues
  /\ mocList = <<>>
  /\ pc' = "done"
  /\ UNCHANGED <<issue, batchId, batches, today, runs, queue>>

(* Mutant: the issues are saved before the batch, which has no id by then.  *)
CreateBatchAfterIssues(set) ==
  /\ batches' = Append(batches, [moc |-> currentMOC, issues |-> set,
                                 day |-> today, queued |-> FALSE])
  /\ UNCHANGED batchId
  /\ pc' = "created"

(* CreateBatch, one transaction: the batch's row and the issues' batch_id  *)
CreateBatch(set) ==
  /\ batches' = Append(batches, [moc |-> currentMOC, issues |-> set,
                                 day |-> today, queued |-> FALSE])
  /\ batchId' = [i \in Issues |-> IF i \in set THEN Len(batches) + 1 ELSE batchId[i]]
  /\ pc' = "created"

(* The rest of NextBatch.  What is popped has left its queue, also when it
   makes no batch for now.                                                 *)
NextBatch ==
  /\ pc = "batching"
  /\ CurrentHasIssues
  /\ \E popped \in Popped(mocQueue[currentMOC]) :
       /\ mocQueue' = [mocQueue EXCEPT ![currentMOC] =
                         mocQueue[currentMOC] \ popped]
       /\ IF IsWorthBatching(popped)
          THEN CreateBatch(popped)
          ELSE UNCHANGED <<batchId, batches, pc>>
  /\ UNCHANGED <<issue, today, runs, mocList, currentMOC>>

QueueMakeBatch ==
  /\ pc = "created"
  /\ batches' = [batches EXCEPT ![Len(batches)].queued = TRUE]
  /\ pc' = "batching"
  /\ UNCHANGED <<issue, batchId, today, runs, queue>>

(* A database error makes the command exit, and anything may kill it.      *)
Die ==
  /\ pc \notin Ended
  /\ pc' = "died"
  /\ UNCHANGED <<issue, batchId, batches, today, runs, queue>>

(* The command is run again, on the same or on a later day.                *)
RunAgain ==
  /\ pc \in Ended
  /\ runs < MaxRuns
  /\ \E days \in DaysBetween : today' = today + days
  /\ runs' = runs + 1
  /\ pc' = "start"
  /\ mocQueue' = NoQueues /\ mocList' = <<>> /\ currentMOC' = NoMOC
  /\ UNCHANGED <<issue, batchId, batches>>

Work == FindReadyIssues \/ NextMOC \/ NothingLeft \/ NextBatch \/ QueueMakeBatch
Next == Work \/ Die \/ RunAgain

Spec == Init /\ [][Next]_vars

(* Fairness: the command is one sequential program, which goes on as long
   as it can.  Nothing makes it die or be run again.                       *)
FairSpec == Spec /\ WF_vars(Work)

----------------------------------------------------------------------------
(* The types of all variables                                              *)
TypeOK ==
  /\ issue \in [Issues -> Kinds]
  /\ batchId \in [Issues -> Nat]
  /\ batches \in Seq(Batch)
  /\ today \in Nat /\ runs \in Nat
  /\ pc \in {"start", "batching", "created"} \cup Ended
  /\ mocQueue \in [MOCs -> SUBSET Issues]
  /\ mocList \in Seq(MOCs)
  /\ currentMOC \in MOCs \cup {NoMOC}

(* What the queues hold in memory fits what the table says: issues in no
   batch, each in the queue of its MOC.                                    *)
QueuesFit ==
  \A m \in MOCs : \A i \in mocQueue[m] : batchId[i] = 0 /\ issue[i].moc = m

(* Whatever runs died on the way, an issue is in the one batch which its
   batch_id names: no later run finds it again and no batch of the same run
   takes it twice, and every batch is of one MOC.                          *)
EachIssueOnce ==
  \A i \in Issues : \A b \in DOMAIN batches :
    i \in batches[b].issues <=> batchId[i] = b

OneMOC == \A b \in DOMAIN batches : \A i \in batches[b].issues :
            issue[i].moc = batches[b].moc

IInv ==
  /\ TypeOK
  /\ QueuesFit
  /\ EachIssueOnce
  /\ OneMOC
  /\ \A i \in Issues : batchId[i] \in 0..Len(batches)

(* MAX_BATCH_SIZE is never exceeded, and fewer pages than MIN_BATCH_SIZE
   make a batch only when one of its own issues has waited for too long:
   the age of an issue left for a later batch must not count.              *)
WithinLimits ==
  \A b \in DOMAIN batches :
    LET set == batches[b].issues
    IN /\ Pages(set) <= MaxPages
       /\ Pages(set) >= MinPages \/ \E i \in set : IsStale(i, batches[b].day)

(* A run which ends by itself leaves no issue behind that has been waiting
   for more than 30 days: not in a queue, and not among those it popped and
   dropped since they were too few.  (An issue larger than any batch is
   another matter: see Terminates.)                                        *)
NoStaleLeftBehind ==
  pc = "done" => \A i \in Ready : IsEmbargoed(i) \/ ~IsStale(i, today)

(* "ok is false when there was nothing left to batch": main's loop around
   NextBatch comes to its end, as every queue is used up at last.          *)
Terminates == pc = "start" ~> pc \in Ended
=============================================================================

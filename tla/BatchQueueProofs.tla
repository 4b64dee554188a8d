-------------------------- MODULE BatchQueueProofs --------------------------
(***************************************************************************)
(* For every set of issues, MOCs and settings: whatever runs of            *)
(* queue-batches come to an end, panic or die, an issue is in the batch    *)
(* which its batch_id names and in no other, none that has waited too long *)
(* is left behind by a run that ends by itself, and every batch is within  *)
(* the limits on its size.                                                 *)
(***************************************************************************)
EXTENDS BatchQueue, FiniteSetTheorems, SequenceTheorems, TLAPS

(* The first run starts with no batch and empty queues.                    *)
LEMMA InitHolds == Init => IInv
<1> SUFFICES ASSUME Init PROVE IInv
  OBVIOUS
<1>1. TypeOK
  BY KindsAssumption DEF Init, TypeOK, NoQueues, Ended
<1>2. QueuesFit /\ EachIssueOnce /\ OneMOC
  BY DEF Init, QueuesFit, EachIssueOnce, OneMOC, NoQueues
<1>3. \A i \in Issues : batchId[i] \in 0..Len(batches)
  BY DEF Init
<1> QED
  BY <1>1, <1>2, <1>3 DEF IInv

(* Creating a batch of issues that were in none, from the current queue,
   keeps table and batches in step.                                        *)
LEMMA NextBatchKeeps == IInv /\ NextBatch => IInv'
<1> SUFFICES ASSUME IInv, NextBatch PROVE IInv'
  OBVIOUS
<1> DEFINE m == currentMOC
<1>1. TypeOK /\ QueuesFit /\ EachIssueOnce /\ OneMOC
  BY DEF IInv
<1>2. \A i \in Issues : batchId[i] \in 0..Len(batches)
  BY DEF IInv
<1>3. m \in MOCs
  BY <1>1 DEF NextBatch, CurrentHasIssues, TypeOK
<1>4. PICK popped \in Popped(mocQueue[m]) :
        /\ mocQueue' = [mocQueue EXCEPT ![m] = mocQueue[m] \ popped]
        /\ IF IsWorthBatching(popped)
           THEN CreateBatch(popped)
           ELSE UNCHANGED <<batchId, batches, pc>>
  BY DEF NextBatch
<1>5. popped \subseteq mocQueue[m]
  BY DEF Popped
<1>6. popped \subseteq Issues
  BY <1>1, <1>3, <1>5 DEF TypeOK
<1>7. \A i \in popped : batchId[i] = 0 /\ issue[i].moc = m
  BY <1>1, <1>3, <1>5 DEF QueuesFit
<1>8. UNCHANGED <<issue, today, runs, mocList, currentMOC>>
  BY DEF NextBatch
<1>9. mocQueue' \in [MOCs -> SUBSET Issues]
  BY <1>1, <1>4 DEF TypeOK
<1>10. \A n \in MOCs : mocQueue'[n] \subseteq mocQueue[n]
  BY <1>1, <1>4 DEF TypeOK
<1>11. \A n \in MOCs : mocQueue[n] \subseteq Issues
  BY <1>1 DEF TypeOK
<1>12. mocQueue'[m] = mocQueue[m] \ popped
  BY <1>1, <1>3, <1>4 DEF TypeOK
<1>13. CASE ~IsWorthBatching(popped)
  <2>1. UNCHANGED <<batchId, batches, pc>>
    BY <1>4, <1>13
  <2>2. TypeOK'
    BY <1>1, <1>8, <1>9, <2>1 DEF TypeOK
  <2>3. QueuesFit'
    BY <1>1, <1>8, <1>10, <2>1 DEF QueuesFit
  <2>4. EachIssueOnce' /\ OneMOC'
    BY <1>1, <1>8, <2>1 DEF EachIssueOnce, OneMOC
  <2> QED
    BY <1>2, <2>1, <2>2, <2>3, <2>4 DEF IInv
<1>14. CASE IsWorthBatching(popped)
  <2> DEFINE new == [moc |-> m, issues |-> popped, day |-> today, queued |-> FALSE]
             last == Len(batches) + 1
  <2>1. CreateBatch(popped)
    BY <1>4, <1>14
  <2>2. /\ batches' = Append(batches, new)
        /\ batchId' = [i \in Issues |-> IF i \in popped THEN last ELSE batchId[i]]
        /\ pc' = "created"
    BY <2>1 DEF CreateBatch
  <2>3. new \in Batch
    BY <1>1, <1>3, <1>6 DEF Batch, TypeOK
  <2>4. batches \in Seq(Batch) /\ Len(batches) \in Nat
    BY <1>1 DEF TypeOK
  <2>5. /\ Len(batches') = last
        /\ DOMAIN batches' = 1..last /\ DOMAIN batches = 1..Len(batches)
        /\ batches'[last] = new
        /\ \A b \in 1..Len(batches) : batches'[b] = batches[b]
    <3> HIDE DEF new
    <3> QED  BY <2>2, <2>3, <2>4
  <2>6. TypeOK'
    <3>1. batches' \in Seq(Batch)
      BY <2>2, <2>3, <2>4
    <3>2. batchId' \in [Issues -> Nat]
      BY <1>1, <2>2, <2>4 DEF TypeOK
    <3> QED
      BY <1>1, <1>8, <1>9, <2>2, <3>1, <3>2 DEF TypeOK
  <2>7. QueuesFit'
    <3> SUFFICES ASSUME NEW n \in MOCs, NEW i \in mocQueue'[n]
                 PROVE  batchId'[i] = 0 /\ issue[i].moc = n
      BY <1>8 DEF QueuesFit
    <3>1. i \in mocQueue[n] /\ i \in Issues
      BY <1>10, <1>11
    <3>2. batchId[i] = 0 /\ issue[i].moc = n
      BY <1>1, <3>1 DEF QueuesFit
    <3>3. i \notin popped
      BY <1>7, <1>12, <3>2
    <3> QED
      BY <2>2, <3>1, <3>2, <3>3
  <2>8. EachIssueOnce'
    <3> SUFFICES ASSUME NEW i \in Issues, NEW b \in 1..last
                 PROVE  i \in batches'[b].issues <=> batchId'[i] = b
      BY <2>5 DEF EachIssueOnce
    <3>1. batchId'[i] = IF i \in popped THEN last ELSE batchId[i]
      BY <2>2
    <3>2. CASE b = last
      <4>1. batches'[b].issues = popped
        BY <2>5, <3>2
      <4>2. batchId[i] # last
        BY <1>2, <2>4
      <4> QED
        BY <3>1, <3>2, <4>1, <4>2
    <3>3. CASE b # last
      <4>1. b \in 1..Len(batches)
        BY <2>4, <3>3
      <4>2. batches'[b] = batches[b]
        BY <2>5, <4>1
      <4>3. i \in batches[b].issues <=> batchId[i] = b
        BY <1>1, <2>5, <4>1 DEF EachIssueOnce
      <4>4. i \in popped => batchId[i] = 0 /\ batchId[i] # b
        BY <1>7, <4>1
      <4> QED
        BY <3>1, <3>3, <4>2, <4>3, <4>4
    <3> QED
      BY <3>2, <3>3
  <2>9. OneMOC'
    <3> SUFFICES ASSUME NEW b \in 1..last, NEW i \in batches'[b].issues
                 PROVE  issue[i].moc = batches'[b].moc
      BY <1>8, <2>5 DEF OneMOC
    <3>1. CASE b = last
      BY <1>7, <2>5, <3>1
    <3>2. CASE b # last
      <4>1. b \in 1..Len(batches)
        BY <2>4, <3>2
      <4> QED
        BY <1>1, <2>5, <4>1 DEF OneMOC
    <3> QED
      BY <3>1, <3>2
  <2>10. \A i \in Issues : batchId'[i] \in 0..Len(batches')
    BY <1>2, <2>2, <2>4, <2>5
  <2> QED
    BY <2>6, <2>7, <2>8, <2>9, <2>10 DEF IInv
<1> QED
  BY <1>13, <1>14

(* Filling the queues: what the query finds is in no batch.                *)
LEMMA FindReadyIssuesKeeps == IInv /\ FindReadyIssues => IInv'
<1> SUFFICES ASSUME IInv, FindReadyIssues PROVE IInv'
  OBVIOUS
<1>1. /\ UNCHANGED <<issue, batchId, batches, today, runs>>
      /\ TypeOK /\ QueuesFit /\ EachIssueOnce /\ OneMOC
      /\ \A i \in Issues : batchId[i] \in 0..Len(batches)
  BY DEF IInv, FindReadyIssues
<1>2. CASE \E i \in Ready : ~issue[i].valid
  BY <1>1, <1>2 DEF IInv, FindReadyIssues, queue, TypeOK, QueuesFit,
     EachIssueOnce, OneMOC, Ended
<1>3. CASE ~ \E i \in Ready : ~issue[i].valid
  <2> DEFINE found == {i \in Ready : ~IsEmbargoed(i)}
             mocs  == {issue[i].moc : i \in found}
  <2>1. /\ pc' = "batching"
        /\ mocQueue' = [m \in MOCs |-> {i \in found : issue[i].moc = m}]
        /\ mocList' \in [1..Cardinality(mocs) -> mocs]
        /\ currentMOC' = NoMOC
    BY <1>3 DEF FindReadyIssues
  <2>2. found \subseteq Issues /\ \A i \in found : batchId[i] = 0
    BY DEF Ready
  <2>3. mocs \subseteq MOCs
    <3>1. \A i \in Issues : issue[i] \in Kinds
      BY <1>1 DEF TypeOK
    <3>2. \A i \in Issues : issue[i].moc \in MOCs
      BY <3>1, KindsAssumption
    <3> QED
      BY <2>2, <3>2
  <2>4. mocList' \in Seq(MOCs)
    <3>1. IsFiniteSet(mocs)
      BY <2>3, KindsAssumption, FS_Subset
    <3>2. Cardinality(mocs) \in Nat
      BY <3>1, FS_CardinalityType
    <3> HIDE DEF mocs
    <3> QED
      BY <2>1, <2>3, <3>2
  <2>5. TypeOK'
    <3>1. mocQueue' \in [MOCs -> SUBSET Issues]
      BY <2>1, <2>2
    <3> QED
      BY <1>1, <2>1, <2>4, <3>1 DEF TypeOK
  <2>6. QueuesFit'
    BY <1>1, <2>1, <2>2 DEF QueuesFit
  <2>7. EachIssueOnce' /\ OneMOC'
    BY <1>1 DEF EachIssueOnce, OneMOC
  <2> QED
    BY <1>1, <2>5, <2>6, <2>7 DEF IInv
<1> QED
  BY <1>2, <1>3

(* Queueing a batch's jobs changes neither its issues nor its MOC.         *)
LEMMA QueueMakeBatchKeeps == IInv /\ QueueMakeBatch => IInv'
<1> SUFFICES ASSUME IInv, QueueMakeBatch PROVE IInv'
  OBVIOUS
<1> DEFINE last == Len(batches)
<1>1. /\ UNCHANGED <<issue, batchId, today, runs, queue>> /\ pc' = "batching"
      /\ batches' = [batches EXCEPT ![last].queued = TRUE]
      /\ TypeOK /\ QueuesFit /\ EachIssueOnce /\ OneMOC
      /\ \A i \in Issues : batchId[i] \in 0..last
  BY DEF IInv, QueueMakeBatch
<1>2. \A b \in DOMAIN batches : batches[b] \in Batch
  BY <1>1 DEF TypeOK
<1>3. batches \in [1..last -> Batch] /\ last \in Nat /\ DOMAIN batches = 1..last
  BY <1>1 DEF TypeOK
<1>4. \A b \in 1..last :
        /\ batches'[b] = IF b = last THEN [batches[b] EXCEPT !.queued = TRUE]
                                     ELSE batches[b]
        /\ batches'[b] \in Batch
        /\ batches'[b].issues = batches[b].issues
        /\ batches'[b].moc = batches[b].moc
  BY <1>1, <1>2, <1>3 DEF Batch
<1>5. /\ batches' \in Seq(Batch)
      /\ Len(batches') = last /\ DOMAIN batches' = 1..last
  <2>1. batches' = [b \in 1..last |-> batches'[b]]
    BY <1>1, <1>3
  <2>2. batches' \in [1..last -> Batch]
    BY <1>4, <2>1
  <2>3. batches' \in Seq(Batch)
    BY <1>3, <2>2
  <2>4. DOMAIN batches' = 1..last
    BY <2>2
  <2> QED
    BY <1>3, <2>3, <2>4, LenProperties
<1>6. TypeOK' /\ QueuesFit'
  BY <1>1, <1>5 DEF TypeOK, QueuesFit, queue
<1>7. EachIssueOnce' /\ OneMOC'
  BY <1>1, <1>3, <1>4, <1>5 DEF EachIssueOnce, OneMOC
<1> QED
  BY <1>1, <1>5, <1>6, <1>7 DEF IInv

(* The other steps touch neither the tables nor, but to empty it, a queue. *)
LEMMA OtherStepsKeep ==
  IInv /\ (NextMOC \/ NothingLeft \/ Die \/ RunAgain \/ UNCHANGED vars) => IInv'
<1> SUFFICES ASSUME IInv, NextMOC \/ NothingLeft \/ Die \/ RunAgain \/ UNCHANGED vars
             PROVE  IInv'
  OBVIOUS
<1>1. UNCHANGED <<issue, batchId, batches>>
  BY DEF NextMOC, NothingLeft, Die, RunAgain, vars
<1>2. TypeOK'
  <2>1. CASE NextMOC
    <3>1. Head(mocList) \in MOCs /\ Tail(mocList) \in Seq(MOCs)
      BY <2>1 DEF IInv, TypeOK, NextMOC
    <3> QED
      BY <2>1, <3>1 DEF IInv, TypeOK, NextMOC
  <2>2. CASE NothingLeft \/ Die \/ UNCHANGED vars
    BY <2>2 DEF IInv, TypeOK, NothingLeft, Die, vars, queue, Ended
  <2>3. CASE RunAgain
    <3>1. \A days \in DaysBetween : today + days \in Nat
      BY KindsAssumption DEF IInv, TypeOK
    <3>2. today' \in Nat
      BY <2>3, <3>1 DEF RunAgain
    <3> QED
      BY <2>3, <3>2 DEF IInv, TypeOK, RunAgain, NoQueues
  <2> QED
    BY <2>1, <2>2, <2>3
<1>3. QueuesFit'
  BY <1>1 DEF IInv, QueuesFit, NextMOC, NothingLeft, Die, RunAgain, vars,
     queue, NoQueues
<1>4. EachIssueOnce' /\ OneMOC'
  BY <1>1 DEF IInv, EachIssueOnce, OneMOC
<1> QED
  BY <1>1, <1>2, <1>3, <1>4 DEF IInv

(* Every reachable state of queue-batches satisfies the invariant: the runs
   find only issues without a batch, and queue each of them once.          *)
THEOREM Invariance == Spec => []IInv
<1>1. Init => IInv
  BY InitHolds
<1>2. IInv /\ [Next]_vars => IInv'
  BY NextBatchKeeps, FindReadyIssuesKeeps, QueueMakeBatchKeeps, OtherStepsKeep
     DEF Next, Work
<1> QED
  BY <1>1, <1>2, PTL DEF Spec

(* For any number of issues and of runs, however they ended: each issue is
   in the batch its batch_id names and in no other.                        *)
THEOREM OnceOnly == Spec => []EachIssueOnce
<1>1. IInv => EachIssueOnce
  BY DEF IInv
<1> QED
  BY <1>1, Invariance, PTL

----------------------------------------------------------------------------
(* What a run owes to an issue that has waited for too long                *)

(* It should be in a batch by the end of the run.                          *)
Overdue(i) == i \in Ready /\ ~IsEmbargoed(i) /\ IsStale(i, today)

(* Until then it is in the queue of its MOC, and that queue's turn is now or
   yet to come; splitQueue drops it with no batch that is too small.       *)
StillQueued ==
  \A i \in Issues : Overdue(i) =>
    /\ i \in mocQueue[issue[i].moc]
    /\ issue[i].moc = currentMOC \/ \E k \in DOMAIN mocList : mocList[k] = issue[i].moc

NoneDropped ==
  /\ pc \in {"batching", "created"} => StillQueued
  /\ NoStaleLeftBehind

LEMMA OverdueStays ==
  ASSUME IInv, NEW i \in Issues,
         UNCHANGED <<issue, today>>, batchId'[i] = batchId[i] \/ batchId'[i] # 0
  PROVE  Overdue(i)' => Overdue(i)
BY DEF Overdue, Ready, IsEmbargoed, IsStale, DaysStale

LEMMA MOCTyped ==
  ASSUME IInv
  PROVE  \A i \in Issues : issue[i].moc \in MOCs
BY KindsAssumption DEF IInv, TypeOK

(* Every issue that is overdue when the run reads them gets into a queue.  *)
LEMMA FindReadyIssuesDrops ==
  ASSUME IInv, FindReadyIssues
  PROVE  NoneDropped'
<1> DEFINE found == {i \in Ready : ~IsEmbargoed(i)}
           mocs  == {issue[i].moc : i \in found}
<1>1. CASE \E i \in Ready : ~issue[i].valid
  BY <1>1 DEF FindReadyIssues, NoneDropped, NoStaleLeftBehind
<1>2. CASE ~ \E i \in Ready : ~issue[i].valid
  <2>1. /\ pc' = "batching" /\ UNCHANGED <<issue, batchId, today>>
        /\ mocQueue' = [m \in MOCs |-> {i \in found : issue[i].moc = m}]
        /\ {mocList'[k] : k \in DOMAIN mocList'} = mocs
    BY <1>2 DEF FindReadyIssues
  <2>2. SUFFICES ASSUME NEW i \in Issues, Overdue(i)'
                 PROVE  /\ i \in mocQueue'[issue'[i].moc]
                        /\ \E k \in DOMAIN mocList' : mocList'[k] = issue'[i].moc
    BY <2>1 DEF NoneDropped, StillQueued, NoStaleLeftBehind
  <2>3. i \in found
    BY <2>1, <2>2, OverdueStays DEF Overdue
  <2>4. issue'[i].moc = issue[i].moc /\ issue[i].moc \in MOCs /\ issue[i].moc \in mocs
    BY <2>1, <2>3, MOCTyped
  <2> QED BY <2>1, <2>3, <2>4
<1> QED BY <1>1, <1>2

(* A queue is left only when it is empty.                                  *)
LEMMA NextMOCDrops ==
  ASSUME IInv, NoneDropped, NextMOC
  PROVE  NoneDropped'
<1>1. /\ pc = "batching" /\ pc' = "batching" /\ ~CurrentHasIssues /\ mocList # <<>>
      /\ currentMOC' = Head(mocList) /\ mocList' = Tail(mocList)
      /\ UNCHANGED <<issue, batchId, today, mocQueue>> /\ mocList \in Seq(MOCs)
  BY DEF NextMOC, IInv, TypeOK
<1>2. SUFFICES ASSUME NEW i \in Issues, Overdue(i)'
               PROVE  /\ i \in mocQueue[issue[i].moc]
                      /\ \/ issue[i].moc = Head(mocList)
                         \/ \E k \in DOMAIN Tail(mocList) : Tail(mocList)[k] = issue[i].moc
  BY <1>1 DEF NoneDropped, StillQueued, NoStaleLeftBehind
<1>3. Overdue(i)
  BY <1>1, <1>2, OverdueStays
<1>4. /\ i \in mocQueue[issue[i].moc]
      /\ issue[i].moc = currentMOC \/ \E k \in DOMAIN mocList : mocList[k] = issue[i].moc
  BY <1>1, <1>3 DEF NoneDropped, StillQueued
<1>5. issue[i].moc # currentMOC
  BY <1>1, <1>4, MOCTyped, KindsAssumption DEF CurrentHasIssues
<1>6. PICK k \in DOMAIN mocList : mocList[k] = issue[i].moc
  BY <1>4, <1>5
<1>7. /\ DOMAIN mocList = 1..Len(mocList) /\ Len(mocList) \in Nat
      /\ DOMAIN Tail(mocList) = 1..Len(Tail(mocList)) /\ Len(Tail(mocList)) = Len(mocList) - 1
      /\ \A n \in 1..Len(Tail(mocList)) : Tail(mocList)[n] = mocList[n + 1]
      /\ Head(mocList) = mocList[1]
  BY <1>1, HeadTailProperties, LenProperties
<1>8. CASE k = 1
  BY <1>4, <1>6, <1>7, <1>8
<1>9. CASE k # 1
  <2>1. k - 1 \in 1..Len(Tail(mocList)) /\ (k - 1) + 1 = k
    BY <1>6, <1>7, <1>9
  <2>2. Tail(mocList)[k - 1] = issue[i].moc
    BY <1>6, <1>7, <2>1
  <2> QED BY <1>4, <1>7, <2>1, <2>2
<1> QED BY <1>8, <1>9

(* What is popped and makes no batch has no overdue issue among it.        *)
LEMMA NextBatchDrops ==
  ASSUME IInv, NoneDropped, NextBatch
  PROVE  NoneDropped'
<1> DEFINE m == currentMOC
<1>1. PICK popped \in Popped(mocQueue[m]) :
        /\ mocQueue' = [mocQueue EXCEPT ![m] = mocQueue[m] \ popped]
        /\ IF IsWorthBatching(popped)
           THEN CreateBatch(popped)
           ELSE UNCHANGED <<batchId, batches, pc>>
  BY DEF NextBatch
<1>2. /\ UNCHANGED <<issue, today, mocList, currentMOC>> /\ pc = "batching"
      /\ pc' \in {"batching", "created"}
  BY <1>1 DEF NextBatch, CreateBatch
<1>3. Len(batches) \in Nat
  BY DEF IInv, TypeOK
<1>4. \A i \in Issues : batchId'[i] = batchId[i] \/ batchId'[i] # 0
  BY <1>1, <1>3 DEF CreateBatch
<1>5. ASSUME NEW i \in popped, i \in Issues, Overdue(i)' PROVE FALSE
  <2>1. Overdue(i)
    BY <1>2, <1>4, <1>5, OverdueStays
  <2>2. IsWorthBatching(popped)
    BY <1>5, <2>1 DEF IsWorthBatching, Overdue
  <2>3. batchId'[i] # 0
    BY <1>1, <1>3, <1>5, <2>2 DEF CreateBatch
  <2> QED BY <1>5, <2>3 DEF Overdue, Ready
<1>6. SUFFICES ASSUME NEW i \in Issues, Overdue(i)'
               PROVE  /\ i \in mocQueue'[issue[i].moc]
                      /\ \/ issue[i].moc = currentMOC
                         \/ \E k \in DOMAIN mocList : mocList[k] = issue[i].moc
  BY <1>2 DEF NoneDropped, StillQueued, NoStaleLeftBehind
<1>7. Overdue(i)
  BY <1>2, <1>4, <1>6, OverdueStays
<1>8. mocQueue \in [MOCs -> SUBSET Issues] /\ issue[i].moc \in MOCs
  BY MOCTyped DEF IInv, TypeOK
<1>9. i \in mocQueue'[issue[i].moc]
  BY <1>1, <1>2, <1>5, <1>6, <1>7, <1>8 DEF NoneDropped, StillQueued
<1> QED BY <1>2, <1>7, <1>9 DEF NoneDropped, StillQueued

LEMMA OtherStepsDrop ==
  ASSUME IInv, NoneDropped,
         NothingLeft \/ QueueMakeBatch \/ Die \/ RunAgain \/ UNCHANGED vars
  PROVE  NoneDropped'
<1>1. CASE NothingLeft
  <2>1. /\ pc = "batching" /\ pc' = "done" /\ ~CurrentHasIssues /\ mocList = <<>>
        /\ UNCHANGED <<issue, batchId, today>>
    BY <1>1 DEF NothingLeft
  <2>2. ASSUME NEW i \in Issues, Overdue(i)' PROVE FALSE
    <3>1. Overdue(i)
      BY <2>1, <2>2, OverdueStays
    <3>2. i \in mocQueue[issue[i].moc] /\ issue[i].moc = currentMOC
      BY <2>1, <3>1 DEF NoneDropped, StillQueued
    <3> QED BY <2>1, <3>2, MOCTyped, KindsAssumption DEF CurrentHasIssues
  <2> QED BY <2>1, <2>2 DEF NoneDropped, NoStaleLeftBehind, Overdue, Ready
<1>2. CASE QueueMakeBatch \/ UNCHANGED vars
  BY <1>2 DEF QueueMakeBatch, vars, queue, NoneDropped, StillQueued, NoStaleLeftBehind,
     Overdue, Ready, IsEmbargoed, IsStale, DaysStale
<1>3. CASE Die \/ RunAgain
  BY <1>3 DEF Die, RunAgain, NoneDropped, NoStaleLeftBehind
<1> QED BY <1>1, <1>2, <1>3

(* For any number of issues, MOCs and runs, and for all orders the queues
   may be worked off in: a run which ends by itself leaves no issue behind
   that was more than 30 days past its approval and its embargo.           *)
THEOREM NoneLeftBehind == Spec => []NoStaleLeftBehind
<1>1. Init => NoneDropped
  BY DEF Init, NoneDropped, NoStaleLeftBehind
<1>2. IInv /\ NoneDropped /\ [Next]_vars => NoneDropped'
  BY FindReadyIssuesDrops, NextMOCDrops, NextBatchDrops, OtherStepsDrop DEF Next, Work
<1>3. NoneDropped => NoStaleLeftBehind
  BY DEF NoneDropped
<1> QED BY <1>1, <1>2, <1>3, Invariance, PTL DEF Spec

----------------------------------------------------------------------------
(* The pages of a set of issues, as the proofs count them: apart from the
   state, since the batches of an earlier day are counted again.           *)
LabelsOf(is, set) == UNION {{i} \X (1..is[i].pages) : i \in set}
PagesOf(is, set) == Cardinality(LabelsOf(is, set))

LEMMA PagesArePagesOf == \A S : Pages(S) = PagesOf(issue, S)
BY DEF Pages, PagesOf, LabelsOf

LEMMA PagesTyped ==
  ASSUME NEW is \in [Issues -> Kinds]
  PROVE  \A i \in Issues : is[i].pages \in Nat
BY KindsAssumption

LEMMA LabelsFinite ==
  ASSUME NEW is \in [Issues -> Kinds], NEW S \in SUBSET Issues
  PROVE  IsFiniteSet(LabelsOf(is, S)) /\ PagesOf(is, S) \in Nat
<1> DEFINE f == [i \in S |-> {i} \X (1..is[i].pages)]
           T == {{i} \X (1..is[i].pages) : i \in S}
<1>1. IsFiniteSet(S)
  BY KindsAssumption, FS_Subset
<1>2. f \in Surjection(S, T)
  BY DEF Surjection
<1>3. IsFiniteSet(T)
  BY <1>1, <1>2, FS_Surjection
<1>4. ASSUME NEW i \in S PROVE IsFiniteSet({i} \X (1..is[i].pages))
  <2>1. IsFiniteSet({i})
    BY FS_Singleton
  <2>2. IsFiniteSet(1..is[i].pages)
    BY PagesTyped, FS_Interval
  <2> QED BY <2>1, <2>2, FS_Product
<1>5. IsFiniteSet(UNION T)
  <2>1. \A U \in T : IsFiniteSet(U)
    BY <1>4
  <2> QED BY <1>3, <2>1, FS_UNION
<1> QED BY <1>5, FS_CardinalityType DEF LabelsOf, PagesOf

LEMMA NoPages == \A is : PagesOf(is, {}) = 0
BY FS_EmptySet DEF PagesOf, LabelsOf

(* One issue more brings its own pages.                                    *)
LEMMA PagesAdd ==
  ASSUME NEW is \in [Issues -> Kinds], NEW S \in SUBSET Issues, NEW x \in S
  PROVE  PagesOf(is, S) = PagesOf(is, S \ {x}) + is[x].pages
<1> DEFINE X == {x} \X (1..is[x].pages)
           R == LabelsOf(is, S \ {x})
<1>1. is[x].pages \in Nat
  BY PagesTyped
<1>2. IsFiniteSet(X) /\ Cardinality(X) = is[x].pages
  <2>1. IsFiniteSet({x}) /\ Cardinality({x}) = 1
    BY FS_Singleton
  <2>2. IsFiniteSet(1..is[x].pages) /\ Cardinality(1..is[x].pages) = is[x].pages
    <3>1. ASSUME NEW p \in Nat PROVE IsFiniteSet(1..p) /\ Cardinality(1..p) = p
      BY FS_Interval
    <3>2. QED
      BY <1>1, <3>1
  <2>3. IsFiniteSet(X) /\ Cardinality(X) = Cardinality({x}) * Cardinality(1..is[x].pages)
    BY <2>1, <2>2, FS_Product, Zenon
  <2> HIDE DEF X
  <2> QED BY <1>1, <2>1, <2>2, <2>3
<1>3. IsFiniteSet(R) /\ PagesOf(is, S \ {x}) \in Nat
  BY LabelsFinite
<1>4. LabelsOf(is, S) = R \cup X
  BY DEF LabelsOf
<1>5. R \cap X = {}
  BY DEF LabelsOf
<1>6. Cardinality(R \cup X) = Cardinality(R) + Cardinality(X) - Cardinality(R \cap X)
  BY <1>2, <1>3, FS_Union
<1>7. Cardinality(R \cap X) = 0
  BY <1>5, FS_EmptySet
<1>8. Cardinality(R) = PagesOf(is, S \ {x}) /\ Cardinality(R \cup X) = PagesOf(is, S)
  BY <1>4 DEF PagesOf
<1> HIDE DEF X, R
<1> QED BY <1>1, <1>2, <1>3, <1>6, <1>7, <1>8

(* A set of indexes has a greatest one: there are no smaller and smaller
   sets of indexes above one another.                                      *)
LEMMA Greatest ==
  ASSUME NEW n \in Nat, NEW D \in SUBSET (1..n), D # {}
  PROVE  \E k \in D : \A j \in D : j <= k
<1> DEFINE Above(k) == {j \in D : j > k}
           T == {Above(k) : k \in D}
           R == StrictSubsetOrdering(1..n)
<1>1. \A j \in D : j \in Int
  OBVIOUS
<1>2. ASSUME NEW k \in D, NEW m \in D, m > k
      PROVE  \A j \in D : (j > m => j > k) /\ ~ m > m
  BY <1>1, <1>2
<1>3. IsFiniteSet(1..n)
  BY FS_Interval
<1>4. IsWellFoundedOn(R, SUBSET (1..n))
  BY <1>3, FS_StrictSubsetOrderingWellFounded, FS_FiniteSubsetsOfFinite, Zenon
<1>5. T \subseteq SUBSET (1..n) /\ T # {}
  OBVIOUS
<1>6. PICK x \in T : \A y \in T : <<y, x>> \notin R
  <2> HIDE DEF T, R
  <2> QED BY <1>4, <1>5, WFMin
<1>7. PICK k \in D : x = Above(k)
  OBVIOUS
<1>8. ASSUME NEW m \in D, m > k PROVE FALSE
  <2>1. Above(m) \subseteq Above(k) /\ m \notin Above(m) /\ m \in Above(k)
    BY <1>2, <1>8, Zenon
  <2>2. <<Above(m), Above(k)>> \in R
    BY <2>1, <1>5 DEF StrictSubsetOrdering
  <2> QED BY <1>6, <1>7, <2>2
<1> QED BY <1>1, <1>8

(* Whatever splitQueue pops fits: the last issue it took was taken since it
   fitted with all the others.                                             *)
LEMMA PoppedFits ==
  ASSUME issue \in [Issues -> Kinds], NEW set \in SUBSET Issues, NEW popped \in Popped(set)
  PROVE  PagesOf(issue, popped) <= MaxPages
<1>1. PICK s \in OldestFirst(set) :
         \A k \in DOMAIN s : s[k] \in popped <=> Fits(s, k, popped)
  BY DEF Popped
<1>2. popped \subseteq set
  BY DEF Popped
<1> DEFINE n == Cardinality(set)
<1>3. IsFiniteSet(set) /\ n \in Nat
  BY KindsAssumption, FS_Subset, FS_CardinalityType
<1> HIDE DEF n
<1>4. s \in [1..n -> set] /\ {s[k] : k \in DOMAIN s} = set
  BY DEF OldestFirst, n
<1>5. \A j, k \in 1..n : s[j] = s[k] => j = k
  <2>1. s \in Surjection(1..n, set)
    BY <1>4 DEF Surjection
  <2>2. IsFiniteSet(1..n) /\ Cardinality(1..n) = n
    BY <1>3, FS_Interval
  <2>3. s \in Injection(1..n, set)
    BY <2>1, <2>2, FS_Surjection DEF n
  <2> QED BY <2>3 DEF Injection, IsInjective
<1>6. CASE popped = {}
  BY <1>6, NoPages, KindsAssumption
<1>7. CASE popped # {}
  <2> DEFINE D == {k \in 1..n : s[k] \in popped}
  <2>1. D # {} /\ D \in SUBSET (1..n)
    BY <1>2, <1>4, <1>7
  <2> HIDE DEF D
  <2>2. PICK k \in D : \A j \in D : j <= k
    BY <1>3, <2>1, Greatest
  <2>3. k \in 1..n /\ s[k] \in popped /\ \A j \in 1..n : s[j] \in popped => j <= k
    BY <2>1, <2>2 DEF D
  <2>4. popped \cap {s[j] : j \in 1..(k - 1)} = popped \ {s[k]}
    <3>1. ASSUME NEW i \in popped, i # s[k] PROVE \E j \in 1..(k - 1) : i = s[j]
      <4>1. PICK j \in 1..n : i = s[j]
        BY <1>2, <1>4
      <4>2. j <= k /\ j # k
        BY <2>3, <3>1, <4>1
      <4> QED BY <1>3, <2>3, <4>1, <4>2
    <3>2. ASSUME NEW j \in 1..(k - 1) PROVE s[j] # s[k]
      BY <1>3, <1>5, <2>3
    <3> QED BY <3>1, <3>2
  <2>5. Fits(s, k, popped)
    BY <1>1, <1>4, <2>3
  <2>6. PagesOf(issue, popped \ {s[k]}) + issue[s[k]].pages <= MaxPages
    BY <2>4, <2>5, PagesArePagesOf, Zenon DEF Fits
  <2>7. PagesOf(issue, popped) = PagesOf(issue, popped \ {s[k]}) + issue[s[k]].pages
    BY <1>2, <2>3, PagesAdd
  <2> QED BY <2>6, <2>7
<1> QED BY <1>6, <1>7

(* What WithinLimits says of one batch                                     *)
Within(is, batch) ==
  /\ PagesOf(is, batch.issues) <= MaxPages
  /\ \/ PagesOf(is, batch.issues) >= MinPages
     \/ \E i \in batch.issues :
          batch.day - (IF is[i].approved < is[i].lifts THEN is[i].lifts ELSE is[i].approved) > 30

AllWithin == \A b \in DOMAIN batches : Within(issue, batches[b])

LEMMA AllWithinStep ==
  ASSUME IInv, AllWithin, [Next]_vars
  PROVE  AllWithin'
<1>1. /\ batches \in Seq(Batch) /\ Len(batches) \in Nat /\ DOMAIN batches = 1..Len(batches)
      /\ \A b \in DOMAIN batches : batches[b] \in Batch
  BY DEF IInv, TypeOK
<1>2. UNCHANGED issue
  BY DEF Next, Work, FindReadyIssues, NextMOC, NothingLeft, NextBatch, QueueMakeBatch, Die,
     RunAgain, vars
<1>3. CASE UNCHANGED batches
  BY <1>2, <1>3 DEF AllWithin
<1>4. CASE QueueMakeBatch
  <2>1. /\ DOMAIN batches' = DOMAIN batches
        /\ \A b \in DOMAIN batches : /\ batches'[b].issues = batches[b].issues
                                     /\ batches'[b].day = batches[b].day
    BY <1>1, <1>4 DEF QueueMakeBatch, Batch
  <2> QED BY <1>2, <2>1 DEF AllWithin, Within
<1>5. CASE NextBatch /\ ~UNCHANGED batches
  <2>1. currentMOC \in MOCs /\ mocQueue[currentMOC] \in SUBSET Issues /\ issue \in [Issues -> Kinds]
    BY <1>5 DEF NextBatch, CurrentHasIssues, IInv, TypeOK
  <2>2. PICK popped \in Popped(mocQueue[currentMOC]) :
          IsWorthBatching(popped) /\ CreateBatch(popped)
    BY <1>5 DEF NextBatch
  <2>3. popped \subseteq Issues
    BY <2>1, <2>2 DEF Popped
  <2> DEFINE new == [moc |-> currentMOC, issues |-> popped, day |-> today, queued |-> FALSE]
  <2>4. new \in Batch /\ batches' = Append(batches, new)
    BY <2>1, <2>2, <2>3 DEF CreateBatch, IInv, TypeOK, Batch
  <2>5. PICK n \in Nat : n = Len(batches) + 1
    BY <1>1
  <2>6. Within(issue, new)
    <3>1. PagesOf(issue, popped) <= MaxPages
      BY <2>1, <2>2, PoppedFits
    <3> QED BY <2>2, <3>1, PagesArePagesOf DEF Within, IsWorthBatching, IsStale, DaysStale
  <2> HIDE DEF new
  <2>7. /\ DOMAIN batches' = DOMAIN batches \cup {n} /\ batches'[n] = new
        /\ \A b \in DOMAIN batches : batches'[b] = batches[b]
    BY <1>1, <2>4, <2>5
  <2> QED BY <1>2, <2>6, <2>7 DEF AllWithin
<1>6. UNCHANGED batches \/ QueueMakeBatch \/ NextBatch
  BY DEF Next, Work, FindReadyIssues, NextMOC, NothingLeft, Die, RunAgain, vars
<1> QED BY <1>3, <1>4, <1>5, <1>6

(* For all settings, for any number of issues of whatever sizes and in every
   order sort.Slice may leave them in: no batch has more pages than
   MAX_BATCH_SIZE, and one with fewer than MIN_BATCH_SIZE holds an issue of
   its own that had waited for more than 30 days on the day it was made.   *)
THEOREM BatchesWithinLimits == Spec => []WithinLimits
<1>1. Init => AllWithin
  BY DEF Init, AllWithin
<1>2. AllWithin => WithinLimits
  BY PagesArePagesOf DEF AllWithin, Within, WithinLimits, IsStale, DaysStale
<1> QED BY <1>1, <1>2, AllWithinStep, Invariance, PTL DEF Spec

----------------------------------------------------------------------------
(* Why main's loop ends: every call of NextBatch which has a queue to work
   on takes issues off that queue and puts none back.                      *)
Shrinks ==
  /\ mocQueue'[currentMOC] \subseteq mocQueue[currentMOC]
  /\ mocQueue'[currentMOC] # mocQueue[currentMOC]

(* The issue approved first always fits, as nothing was taken before it.   *)
LEMMA FirstIsPopped ==
  ASSUME \A kind \in Kinds : kind.pages <= MaxPages,
         issue \in [Issues -> Kinds],
         NEW set \in SUBSET Issues, set # {}, NEW popped \in Popped(set)
  PROVE  popped # {}
<1>1. PICK s \in OldestFirst(set) :
         \A k \in DOMAIN s : s[k] \in popped <=> Fits(s, k, popped)
  BY DEF Popped
<1> DEFINE n == Cardinality(set)
<1>2. n \in Nat /\ n # 0
  BY KindsAssumption, FS_Subset, FS_CardinalityType, FS_EmptySet
<1> HIDE DEF n
<1>3. s \in [1..n -> set]
  BY DEF OldestFirst, n
<1>4. 1 \in DOMAIN s /\ s[1] \in Issues
  BY <1>2, <1>3
<1>5. issue[s[1]].pages \in Nat /\ issue[s[1]].pages <= MaxPages
  BY <1>4, PagesTyped
<1>6. popped \cap {s[j] : j \in 1..(1 - 1)} = {}
  OBVIOUS
<1>7. Pages(popped \cap {s[j] : j \in 1..(1 - 1)}) = 0
  BY <1>6, NoPages, PagesArePagesOf, Zenon
<1>8. Fits(s, 1, popped)
  BY <1>5, <1>7 DEF Fits
<1> QED BY <1>1, <1>4, <1>8

(* As long as no issue is larger than MAX_BATCH_SIZE, whichever order the
   queues are in, NextBatch never leaves its queue as it was: the loop runs at
   most once for every issue.  Without that assumption it may run for ever,
   which is what the run batch_endless shows.                              *)
THEOREM NextBatchShrinks ==
  ASSUME \A kind \in Kinds : kind.pages <= MaxPages
  PROVE  Spec => [][NextBatch => Shrinks]_vars
<1>1. IInv /\ NextBatch => Shrinks
  <2> SUFFICES ASSUME IInv, NextBatch PROVE Shrinks
    OBVIOUS
  <2> DEFINE set == mocQueue[currentMOC]
  <2>1. /\ currentMOC \in MOCs /\ set \in SUBSET Issues /\ set # {}
        /\ issue \in [Issues -> Kinds] /\ mocQueue \in [MOCs -> SUBSET Issues]
    BY DEF NextBatch, CurrentHasIssues, IInv, TypeOK
  <2>2. PICK popped \in Popped(set) :
          mocQueue' = [mocQueue EXCEPT ![currentMOC] = set \ popped]
    BY DEF NextBatch
  <2>3. popped # {} /\ popped \subseteq set
    <3>1. popped \subseteq set
      BY <2>2 DEF Popped
    <3>2. popped # {}
      <4> HIDE DEF set
      <4> QED BY <2>1, <2>2, FirstIsPopped
    <3> QED BY <3>1, <3>2
  <2>4. mocQueue'[currentMOC] = set \ popped
    BY <2>1, <2>2
  <2> QED BY <2>3, <2>4 DEF Shrinks
<1>2. IInv /\ [Next]_vars => [NextBatch => Shrinks]_vars
  BY <1>1
<1> QED BY <1>2, Invariance, PTL DEF Spec
=============================================================================

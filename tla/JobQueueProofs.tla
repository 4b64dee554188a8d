--------------------------- MODULE JobQueueProofs ---------------------------
(***************************************************************************)
(* Proofs, for every number of pipelines, jobs, runners and retries, that  *)
(* the job queue carries a pipeline out one job at a time and in order, as *)
(* SerialPipeline promises it, and that none is left behind unless a       *)
(* process dies or the database fails.                                     *)
(*                                                                         *)
(* Two assumptions are made throughout: no two runners watch the same job  *)
(* type, and one operator at a time uses "run-jobs requeue".  Runs of      *)
(* MCJobQueue show what happens without them.                              *)
(***************************************************************************)
EXTENDS JobQueueRefinement, TLAPS

DisjointWatches == \A r, s \in Runners : r # s => Watches[r] \cap Watches[s] = {}
OneOperator == \A o, p \in Operators : o = p

----------------------------------------------------------------------------
(* The inductive invariant.  SingleLiveJob and ChainOrder speak of rows    *)
(* and runners in turn; what keeps them true is that a runner's place in   *)
(* its loop determines its row's status (RunnersInStep), that the rows     *)
(* after a live job are all on hold (LaterOnHold), and that while a runner *)
(* is about to release the next job nothing in its pipeline is live        *)
(* (HandOver).                                                             *)

HeldStatus(p) ==
  IF p = "selected" THEN "pending"
  ELSE IF p = "saved" THEN "success" ELSE "in_process"

RunnersInStep ==
  \A r \in Runners : pc[r] # "idle" =>
    /\ held[r] \in JobIds
    /\ Exists(held[r])
    /\ TypeOf(held[r]) \in Watches[r]
    /\ jobs[held[r]].status = HeldStatus(pc[r])

OperatorsInStep ==
  \A o \in Operators : opHeld[o] # 0 => /\ opHeld[o] \in JobIds
                                        /\ Exists(opHeld[o])
                                        /\ jobs[opHeld[o]].status = "failed"

Linked ==
  \A id \in JobIds : Exists(id) =>
    /\ jobs[id].forced => jobs[id].queueJobID = 0
    /\ jobs[id].step \in 1..NumSteps(jobs[id].chain)
    /\ jobs[id].queueJobID # 0 =>
         \E q \in JobIds : /\ q = jobs[id].queueJobID
                          /\ Own(q)
                          /\ jobs[q].chain = jobs[id].chain
                          /\ jobs[q].step = jobs[id].step + 1

LaterOnHold ==
  \A a, b \in JobIds :
    Live(a) /\ Own(b) /\ jobs[b].chain = jobs[a].chain /\ jobs[b].step > jobs[a].step =>
      jobs[b].status = "on_hold"

HandOver ==
  \A r \in Runners : pc[r] = "saved" /\ Own(held[r]) =>
    /\ \A b \in JobIds : Own(b) /\ jobs[b].chain = jobs[held[r]].chain =>
         /\ ~Live(b)
         /\ jobs[b].step > jobs[held[r]].step => jobs[b].status = "on_hold"
    /\ \A s \in Runners : s # r /\ pc[s] = "saved" /\ Own(held[s]) =>
         jobs[held[s]].chain # jobs[held[r]].chain

CarriedOut ==
  /\ \A id \in JobIds : Own(id) /\ jobs[id].status # "on_hold" =>
       \A i \in 1..(jobs[id].step - 1) : i \in ran[jobs[id].chain]
  /\ \A r \in Runners : pc[r] \in {"ok", "saved"} /\ Own(held[r]) =>
       jobs[held[r]].step \in ran[jobs[held[r]].chain]

IInv ==
  /\ TypeOK
  /\ RunnersInStep
  /\ OperatorsInStep
  /\ Linked
  /\ SingleLiveJob
  /\ LaterOnHold
  /\ HandOver
  /\ CarriedOut

----------------------------------------------------------------------------
(* Lemmas about the two ways in which an existing row is written           *)

(* Saving a row with another status leaves every other row, and everything
   else in that row, as it was.                                            *)
LEMMA SaveLemma ==
  ASSUME TypeOK, NEW id \in JobIds, Exists(id), NEW s \in Statuses,
         jobs' = Save(id, s)
  PROVE  /\ jobs' \in [JobIds -> Row \cup {NoRow}]
         /\ jobs'[id] \in Row
         /\ jobs'[id].status = s
         /\ jobs'[id].chain = jobs[id].chain
         /\ jobs'[id].step = jobs[id].step
         /\ jobs'[id].retry = jobs[id].retry
         /\ jobs'[id].due = jobs[id].due
         /\ jobs'[id].queueJobID = jobs[id].queueJobID
         /\ jobs'[id].forced = jobs[id].forced
         /\ \A x \in JobIds : x # id => jobs'[x] = jobs[x]
<1>1. jobs[id] \in Row
  BY DEF TypeOK, Exists, NoRow
<1>2. jobs' = [jobs EXCEPT ![id] = [jobs[id] EXCEPT !.status = s]]
  BY DEF Save
<1>3. [jobs[id] EXCEPT !.status = s] \in Row
  BY <1>1 DEF Row
<1>4. QED
  BY <1>1, <1>2, <1>3 DEF TypeOK, Row

(* Inserting a clone of a row while saving the row itself with another
   status adds one row, at an id that did not exist.                       *)
LEMMA CloneLemma ==
  ASSUME TypeOK, NEW id \in JobIds, Exists(id), NEW s \in Statuses,
         NEW clone \in Row, CloneAndSave(id, clone, s)
  PROVE  /\ lastId' = lastId + 1
         /\ lastId' \in JobIds
         /\ ~Exists(lastId')
         /\ lastId' # id
         /\ jobs' \in [JobIds -> Row \cup {NoRow}]
         /\ jobs'[lastId'] = clone
         /\ jobs'[id] \in Row
         /\ jobs'[id].status = s
         /\ jobs'[id].chain = jobs[id].chain
         /\ jobs'[id].step = jobs[id].step
         /\ jobs'[id].queueJobID = jobs[id].queueJobID
         /\ jobs'[id].forced = jobs[id].forced
         /\ \A x \in JobIds : x # id /\ x # lastId' => jobs'[x] = jobs[x]
<1>1. jobs[id] \in Row
  BY DEF TypeOK, Exists, NoRow
<1>2. lastId' = lastId + 1 /\ lastId' \in JobIds /\ ~Exists(lastId') /\ lastId' # id
  BY RunnersAssumption DEF CloneAndSave, TypeOK, JobIds
<1>3. jobs' = [jobs EXCEPT ![lastId'] = clone, ![id] = [jobs[id] EXCEPT !.status = s]]
  BY <1>2 DEF CloneAndSave, TypeOK
<1>4. [jobs[id] EXCEPT !.status = s] \in Row
  BY <1>1 DEF Row
<1>5. QED
  BY <1>1, <1>2, <1>3, <1>4 DEF TypeOK, Row

----------------------------------------------------------------------------
(* Each step preserves the invariant                                       *)

(* Watching different types, two runners never hold the same job.          *)
LEMMA HeldApart ==
  ASSUME DisjointWatches, IInv, NEW r \in Runners, NEW s \in Runners,
         r # s, pc[r] # "idle", pc[s] # "idle"
  PROVE  held[r] # held[s]
BY DEF DisjointWatches, IInv, RunnersInStep

LEMMA PopUpdateStep ==
  ASSUME DisjointWatches, OneOperator, IInv, NEW r \in Runners, PopUpdate(r)
  PROVE  IInv'
<1> DEFINE id == held[r]
<1>1. /\ id \in JobIds /\ Exists(id) /\ jobs[id].status = "pending"
      /\ TypeOK /\ jobs[id] \in Row
  BY DEF IInv, RunnersInStep, PopUpdate, At, HeldStatus, Exists, TypeOK, NoRow
<1> HIDE DEF id
<1>2. /\ jobs' \in [JobIds -> Row \cup {NoRow}]
      /\ jobs'[id] \in Row
      /\ jobs'[id].status = "in_process"
      /\ jobs'[id].chain = jobs[id].chain
      /\ jobs'[id].step = jobs[id].step
      /\ jobs'[id].queueJobID = jobs[id].queueJobID
      /\ jobs'[id].forced = jobs[id].forced
      /\ \A x \in JobIds : x # id => jobs'[x] = jobs[x]
  BY <1>1, SaveLemma DEF PopUpdate, Statuses, id
<1>3. \A x \in JobIds : Exists(x)' <=> Exists(x)
  BY <1>1, <1>2 DEF Exists
<1>4. \A x \in JobIds : Own(x)' <=> Own(x)
  BY <1>1, <1>2, <1>3 DEF Own
<1>5. \A x \in JobIds : Live(x)' <=> Live(x)
  BY <1>1, <1>2, <1>4 DEF Live
<1>6. TypeOK'
  BY <1>1, <1>2, <1>3 DEF PopUpdate, TypeOK, At
<1>7. RunnersInStep'
  BY <1>1, <1>2, <1>3 DEF IInv, RunnersInStep, PopUpdate, At, HeldStatus, TypeOK, TypeOf, DisjointWatches, id
<1>8. OperatorsInStep'
  BY <1>1, <1>2, <1>3 DEF IInv, OperatorsInStep, PopUpdate
<1>9. Linked'
  BY <1>1, <1>2, <1>3, <1>4 DEF IInv, Linked, NumSteps
<1>10. SingleLiveJob'
  BY <1>1, <1>2, <1>5 DEF IInv, SingleLiveJob
<1>11. LaterOnHold'
  BY <1>1, <1>2, <1>4, <1>5 DEF IInv, LaterOnHold
<1>12. HandOver'
  BY <1>1, <1>2, <1>4, <1>5 DEF IInv, HandOver, PopUpdate, At, RunnersInStep, TypeOK
<1>13. CarriedOut'
  BY <1>1, <1>2, <1>4 DEF IInv, CarriedOut, PopUpdate, At, TypeOK, RunnersInStep
<1>14. QED
  BY <1>6, <1>7, <1>8, <1>9, <1>10, <1>11, <1>12, <1>13 DEF IInv

(* Steps which leave the jobs table alone keep what is said of it alone.   *)
LEMMA SameRows ==
  ASSUME IInv, UNCHANGED <<jobs, lastId>>
  PROVE  /\ Linked' /\ SingleLiveJob' /\ LaterOnHold'
         /\ \A x : /\ Exists(x)' <=> Exists(x)
                   /\ Own(x)' <=> Own(x)
                   /\ Live(x)' <=> Live(x)
                   /\ TypeOf(x)' = TypeOf(x)
BY DEF IInv, Linked, SingleLiveJob, LaterOnHold, Exists, Own, Live, TypeOf, NumSteps

LEMMA PopSelectStep ==
  ASSUME IInv, NEW r \in Runners, PopSelect(r)
  PROVE  IInv'
<1>1. PICK id \in JobIds : /\ jobs[id].status = "pending"
                           /\ TypeOf(id) \in Watches[r]
                           /\ held' = [held EXCEPT ![r] = id]
  BY DEF PopSelect, Poppable
<1>2. /\ Exists(id)
      /\ held'[r] = id /\ pc'[r] = "selected"
      /\ \A s \in Runners : s # r => held'[s] = held[s] /\ pc'[s] = pc[s]
  BY <1>1 DEF PopSelect, At, IInv, TypeOK, Exists
<1>3. Linked' /\ SingleLiveJob' /\ LaterOnHold'
  BY SameRows DEF PopSelect
<1>4. TypeOK'
  BY <1>1, SameRows DEF PopSelect, At, IInv, TypeOK, JobIds
<1>5. RunnersInStep'
  BY <1>1, <1>2, SameRows DEF PopSelect, IInv, RunnersInStep, HeldStatus
<1>6. OperatorsInStep'
  BY SameRows DEF PopSelect, IInv, OperatorsInStep
<1>7. HandOver'
  BY <1>2, SameRows DEF PopSelect, IInv, HandOver
<1>8. CarriedOut'
  BY <1>2, SameRows DEF PopSelect, IInv, CarriedOut
<1>9. QED
  BY <1>3, <1>4, <1>5, <1>6, <1>7, <1>8 DEF IInv

LEMMA ProcessSucceedsStep ==
  ASSUME IInv, NEW r \in Runners, ProcessSucceeds(r)
  PROVE  IInv'
<1> DEFINE j == jobs[held[r]]
<1>1. /\ held[r] \in JobIds /\ Exists(held[r]) /\ j \in Row /\ j.status = "in_process"
      /\ pc'[r] = "ok" /\ held' = held
      /\ \A s \in Runners : s # r => pc'[s] = pc[s]
  BY DEF ProcessSucceeds, At, IInv, RunnersInStep, TypeOK, HeldStatus, Exists, NoRow
<1>2. /\ ran' \in [Chains -> SUBSET Steps]
      /\ \A c \in Chains : ran[c] \subseteq ran'[c]
      /\ Own(held[r]) => j.step \in ran'[j.chain]
  BY <1>1 DEF ProcessSucceeds, IInv, TypeOK, Row, Own
<1>3. Linked' /\ SingleLiveJob' /\ LaterOnHold'
  BY SameRows DEF ProcessSucceeds
<1>4. TypeOK'
  BY <1>2, SameRows DEF ProcessSucceeds, At, IInv, TypeOK
<1>5. RunnersInStep'
  <2>1. jobs' = jobs
    BY DEF ProcessSucceeds
  <2>2. \A s \in Runners : pc'[s] # "idle" => pc[s] # "idle" /\ HeldStatus(pc'[s]) = HeldStatus(pc[s])
    BY <1>1 DEF ProcessSucceeds, At, HeldStatus
  <2>3. QED
    BY <1>1, <2>1, <2>2 DEF IInv, RunnersInStep, TypeOf, Exists
<1>6. OperatorsInStep'
  BY SameRows DEF ProcessSucceeds, IInv, OperatorsInStep
<1>7. HandOver'
  BY <1>1, SameRows DEF ProcessSucceeds, IInv, HandOver
<1>8. \A x \in JobIds : Own(x) => jobs[x].chain \in Chains
  BY DEF IInv, TypeOK, Own, Exists, Row, NoRow
<1>9. \A s \in Runners : pc[s] \in {"ok", "saved"} /\ Own(held[s]) => held[s] \in JobIds
  BY DEF IInv, RunnersInStep
<1>10. CarriedOut'
  BY <1>1, <1>2, <1>8, <1>9, SameRows DEF ProcessSucceeds, IInv, CarriedOut
<1>11. QED
  BY <1>3, <1>4, <1>5, <1>6, <1>7, <1>10 DEF IInv

(* A runner gives up what it holds, or is done with it, and no row changes. *)
LEMMA DropStep ==
  ASSUME IInv, NEW r \in Runners, NEW p \in {"idle", "notok"},
         pc' = [pc EXCEPT ![r] = p],
         held' = IF p = "idle" THEN Drop(r) ELSE held,
         p = "notok" => pc[r] = "running",
         UNCHANGED <<jobs, lastId, isDone, opHeld, ran>>
  PROVE  IInv'
<1>1. /\ pc'[r] = p
      /\ \A s \in Runners : s # r => held'[s] = held[s] /\ pc'[s] = pc[s]
  BY DEF Drop, IInv, TypeOK
<1>2. Linked' /\ SingleLiveJob' /\ LaterOnHold'
  BY SameRows
<1>3. TypeOK'
  BY SameRows, RunnersAssumption DEF Drop, IInv, TypeOK
<1>4. RunnersInStep'
  BY <1>1, SameRows DEF IInv, RunnersInStep, HeldStatus
<1>5. OperatorsInStep'
  BY SameRows DEF IInv, OperatorsInStep
<1>6. HandOver'
  BY <1>1, SameRows DEF IInv, HandOver
<1>7. CarriedOut'
  BY <1>1, SameRows DEF IInv, CarriedOut
<1>8. QED
  BY <1>2, <1>3, <1>4, <1>5, <1>6, <1>7 DEF IInv

LEMMA StopRestartStep ==
  ASSUME IInv, NEW r \in Runners, Stop(r) \/ Restart(r)
  PROVE  IInv'
<1>1. UNCHANGED <<jobs, lastId, pc, held, opHeld, ran>>
  BY DEF Stop, Restart
<1>2. isDone' \in [Runners -> BOOLEAN]
  BY DEF Stop, Restart, IInv, TypeOK
<1>3. QED
  BY <1>1, <1>2, SameRows
     DEF IInv, TypeOK, RunnersInStep, OperatorsInStep, HandOver, CarriedOut

LEMMA RequeueLoadStep ==
  ASSUME IInv, NEW o \in Operators, NEW id \in JobIds, RequeueLoad(o, id)
  PROVE  IInv'
<1>1. UNCHANGED <<jobs, lastId, pc, held, isDone, ran>>
  BY DEF RequeueLoad
<1>2. TypeOK'
  BY <1>1, SameRows DEF RequeueLoad, IInv, TypeOK, JobIds
<1>3. OperatorsInStep'
  BY <1>1, SameRows DEF RequeueLoad, IInv, TypeOK, OperatorsInStep, Exists
<1>4. QED
  BY <1>1, <1>2, <1>3, SameRows DEF IInv, RunnersInStep, HandOver, CarriedOut

LEMMA HandleSuccessStep ==
  ASSUME DisjointWatches, IInv, NEW r \in Runners, HandleSuccess(r)
  PROVE  IInv'
<1> DEFINE id == held[r]
<1>1. /\ id \in JobIds /\ Exists(id) /\ jobs[id].status = "in_process"
      /\ TypeOK /\ jobs[id] \in Row /\ TypeOf(id) \in Watches[r]
      /\ pc[r] = "ok" /\ pc'[r] = "saved" /\ held' = held
      /\ \A s \in Runners : s # r => pc'[s] = pc[s]
  BY DEF IInv, RunnersInStep, HandleSuccess, At, HeldStatus, Exists, TypeOK, NoRow
<1> HIDE DEF id
<1>2. /\ jobs' \in [JobIds -> Row \cup {NoRow}]
      /\ jobs'[id] \in Row
      /\ jobs'[id].status = "success"
      /\ jobs'[id].chain = jobs[id].chain
      /\ jobs'[id].step = jobs[id].step
      /\ jobs'[id].queueJobID = jobs[id].queueJobID
      /\ jobs'[id].forced = jobs[id].forced
      /\ \A x \in JobIds : x # id => jobs'[x] = jobs[x]
  BY <1>1, SaveLemma DEF HandleSuccess, Statuses, id
<1>3. \A x \in JobIds : Exists(x)' <=> Exists(x)
  BY <1>1, <1>2 DEF Exists
<1>4. \A x \in JobIds : Own(x)' <=> Own(x)
  BY <1>1, <1>2, <1>3 DEF Own
<1>5. \A x \in JobIds : Live(x)' <=> Live(x) /\ x # id
  BY <1>1, <1>2, <1>4 DEF Live
<1>6. TypeOK'
  BY <1>1, <1>2, <1>3 DEF HandleSuccess, TypeOK, At
<1>7. RunnersInStep'
  BY <1>1, <1>2, <1>3
     DEF IInv, RunnersInStep, HandleSuccess, HeldStatus, TypeOK, TypeOf, DisjointWatches, id
<1>8. OperatorsInStep'
  BY <1>1, <1>2, <1>3 DEF IInv, OperatorsInStep, HandleSuccess
<1>9. Linked'
  BY <1>1, <1>2, <1>3, <1>4 DEF IInv, Linked, NumSteps
<1>10. SingleLiveJob'
  BY <1>1, <1>2, <1>5 DEF IInv, SingleLiveJob
<1>11. LaterOnHold'
  BY <1>1, <1>2, <1>4, <1>5 DEF IInv, LaterOnHold
<1>12. HandOver'
  <2>1. \A s \in Runners : pc'[s] = "saved" =>
          /\ held'[s] = held[s] /\ held[s] \in JobIds
          /\ s # r => pc[s] = "saved" /\ held[s] # id
    BY <1>1, HeldApart DEF IInv, RunnersInStep, id
  <2>2. Own(id) => Live(id)
    BY <1>1 DEF Live
  <2>3. SUFFICES ASSUME NEW s \in Runners, pc'[s] = "saved",
                        NEW a \in JobIds, a = held[s], Own(a)
                 PROVE  /\ \A b \in JobIds : Own(b) /\ jobs'[b].chain = jobs'[a].chain =>
                             /\ ~Live(b)'
                             /\ jobs'[b].step > jobs'[a].step => jobs'[b].status = "on_hold"
                        /\ \A t \in Runners : t # s /\ pc'[t] = "saved" =>
                             \A d \in JobIds : d = held[t] /\ Own(d) =>
                               jobs'[d].chain # jobs'[a].chain
    BY <1>4, <2>1 DEF HandOver, Own, Exists
  <2>4. \A x \in JobIds : jobs'[x].chain = jobs[x].chain /\ jobs'[x].step = jobs[x].step
    BY <1>2
  <2>5. CASE s = r
    <3>1. a = id /\ Live(id)
      BY <2>2, <2>3, <2>5 DEF id
    <3>2. \A b \in JobIds : Own(b) /\ jobs[b].chain = jobs[a].chain /\ jobs[b].step > jobs[a].step =>
            b # id /\ jobs[b].status = "on_hold"
      BY <1>1, <3>1 DEF IInv, LaterOnHold
    <3>3. \A t \in Runners : t # s /\ pc'[t] = "saved" /\ Own(held[t]) =>
            jobs[held[t]].chain # jobs[a].chain
      BY <2>1, <2>5, <3>1 DEF IInv, HandOver, Live
    <3>4. QED
      BY <1>1, <1>2, <1>5, <2>1, <2>4, <2>5, <3>1, <3>2, <3>3 DEF IInv, SingleLiveJob, Live
  <2>6. CASE s # r
    <3>1. /\ pc[s] = "saved" /\ a # id
          /\ \A b \in JobIds : Own(b) /\ jobs[b].chain = jobs[a].chain =>
               /\ ~Live(b)
               /\ jobs[b].step > jobs[a].step => jobs[b].status = "on_hold"
          /\ \A t \in Runners : t # s /\ pc[t] = "saved" /\ Own(held[t]) =>
               jobs[held[t]].chain # jobs[a].chain
      BY <2>1, <2>3, <2>6 DEF IInv, HandOver
    <3>2. Own(id) => jobs[id].chain # jobs[a].chain
      BY <1>1, <2>2, <3>1
    <3>3. \A t \in Runners : t # s /\ pc'[t] = "saved" /\ Own(held[t]) =>
            jobs[held[t]].chain # jobs[a].chain
      BY <2>1, <3>1, <3>2 DEF id
    <3>4. QED
      BY <1>2, <1>5, <2>1, <2>4, <3>1, <3>2, <3>3
  <2>7. QED
    BY <2>5, <2>6
<1>13. CarriedOut'
  BY <1>1, <1>2, <1>4 DEF IInv, CarriedOut, HandleSuccess, RunnersInStep, id
<1>14. QED
  BY <1>6, <1>7, <1>8, <1>9, <1>10, <1>11, <1>12, <1>13 DEF IInv

LEMMA QueueNextJobStep ==
  ASSUME DisjointWatches, IInv, NEW r \in Runners, QueueNextJob(r)
  PROVE  IInv'
<1> DEFINE id == held[r]
           q == jobs[id].queueJobID
<1>1. /\ id \in JobIds /\ Exists(id) /\ jobs[id].status = "success"
      /\ TypeOK /\ jobs[id] \in Row
      /\ pc[r] = "saved" /\ pc'[r] = "idle"
      /\ \A s \in Runners : s # r => pc'[s] = pc[s] /\ held'[s] = held[s]
  BY DEF IInv, RunnersInStep, QueueNextJob, Idle, Drop, HeldStatus, Exists, TypeOK, NoRow
<1>2. CASE q = 0
  <2>1. UNCHANGED jobs
    BY <1>2 DEF QueueNextJob
  <2>2. QED
    BY <2>1, DropStep DEF QueueNextJob, Idle
<1>3. CASE q # 0
  <2>1. /\ q \in JobIds /\ Own(q) /\ jobs[q].chain = jobs[id].chain
        /\ jobs[q].step = jobs[id].step + 1 /\ Own(id) /\ jobs[q] \in Row
    BY <1>1, <1>3 DEF IInv, Linked, Own, Exists, TypeOK, NoRow
  <2>2. /\ jobs[q].status = "on_hold"
        /\ \A b \in JobIds : Own(b) /\ jobs[b].chain = jobs[q].chain => ~Live(b)
        /\ \A b \in JobIds : Own(b) /\ jobs[b].chain = jobs[q].chain
                               /\ jobs[b].step > jobs[q].step => jobs[b].status = "on_hold"
    <3>1. jobs[q].step > jobs[id].step
      BY <1>1, <2>1 DEF Row, Steps
    <3>2. \A b \in JobIds : Exists(b) => jobs[b].step \in Int
      BY DEF IInv, Linked
    <3>3. QED
      BY <1>1, <2>1, <3>1, <3>2 DEF IInv, HandOver, Own
  <2>3. /\ jobs' \in [JobIds -> Row \cup {NoRow}]
        /\ jobs'[q] \in Row
        /\ jobs'[q].status = "pending"
        /\ jobs'[q].chain = jobs[q].chain
        /\ jobs'[q].step = jobs[q].step
        /\ jobs'[q].queueJobID = jobs[q].queueJobID
        /\ jobs'[q].forced = jobs[q].forced
        /\ \A x \in JobIds : x # q => jobs'[x] = jobs[x]
    <3>1. jobs' = Save(q, "pending")
      BY <1>3 DEF QueueNextJob
    <3>2. QED
      BY <1>1, <2>1, <3>1, SaveLemma DEF Statuses, Own
  <2> HIDE DEF q
  <2>4. \A x \in JobIds : Exists(x)' <=> Exists(x)
    BY <2>1, <2>3 DEF Exists, Own
  <2>5. \A x \in JobIds : Own(x)' <=> Own(x)
    BY <2>1, <2>3, <2>4 DEF Own
  <2>6. \A x \in JobIds : Live(x)' <=> Live(x) \/ x = q
    BY <2>1, <2>3, <2>5 DEF Live
  <2>7. TypeOK'
    BY <1>1, <2>3, <2>4, RunnersAssumption DEF QueueNextJob, Idle, Drop, TypeOK
  <2>8. RunnersInStep'
    BY <1>1, <2>2, <2>3, <2>4 DEF IInv, RunnersInStep, HeldStatus, TypeOf
  <2>9. OperatorsInStep'
    BY <2>2, <2>3, <2>4 DEF IInv, OperatorsInStep, QueueNextJob
  <2>10. Linked'
    BY <2>1, <2>3, <2>4, <2>5 DEF IInv, Linked, NumSteps
  <2>11. SingleLiveJob'
    BY <2>1, <2>2, <2>3, <2>6 DEF IInv, SingleLiveJob, Live
  <2>12. LaterOnHold'
    <3>1. \A a, b \in JobIds : /\ Live(a) \/ a = q
                              /\ Own(b)
                              /\ jobs[b].chain = jobs[a].chain
                              /\ jobs[b].step > jobs[a].step =>
                               b # q /\ jobs[b].status = "on_hold"
      <4> SUFFICES ASSUME NEW a \in JobIds, NEW b \in JobIds, Live(a) \/ a = q, Own(b),
                          jobs[b].chain = jobs[a].chain, jobs[b].step > jobs[a].step
                   PROVE  b # q /\ jobs[b].status = "on_hold"
        OBVIOUS
      <4>1. CASE a = q
        BY <2>1, <2>2, <4>1 DEF Row, Steps, IInv, Linked, Own
      <4>2. CASE a # q
        <5>1. Live(a) /\ Own(a)
          BY <4>2 DEF Live
        <5>2. jobs[a].chain # jobs[q].chain
          BY <2>2, <5>1
        <5>3. QED
          BY <5>1, <5>2 DEF IInv, LaterOnHold
      <4>3. QED
        BY <4>1, <4>2
    <3>2. \A x \in JobIds : jobs'[x].chain = jobs[x].chain /\ jobs'[x].step = jobs[x].step
      BY <2>3
    <3>3. QED
      BY <2>3, <2>5, <2>6, <3>1, <3>2 DEF LaterOnHold
  <2>13. HandOver'
    <3>1. \A s \in Runners : pc'[s] = "saved" =>
            /\ s # r /\ held'[s] = held[s] /\ held[s] \in JobIds /\ pc[s] = "saved"
            /\ jobs[held[s]].status = "success"
      BY <1>1 DEF IInv, RunnersInStep, HeldStatus
    <3>2. SUFFICES ASSUME NEW s \in Runners, pc'[s] = "saved",
                          NEW a \in JobIds, a = held[s], Own(a)
                   PROVE  /\ \A b \in JobIds : Own(b) /\ jobs'[b].chain = jobs'[a].chain =>
                               /\ ~Live(b)'
                               /\ jobs'[b].step > jobs'[a].step => jobs'[b].status = "on_hold"
                          /\ \A t \in Runners : t # s /\ pc'[t] = "saved" =>
                               \A d \in JobIds : d = held[t] /\ Own(d) =>
                                 jobs'[d].chain # jobs'[a].chain
      BY <2>5, <3>1 DEF HandOver, Own, Exists
    <3>3. \A x \in JobIds : jobs'[x].chain = jobs[x].chain /\ jobs'[x].step = jobs[x].step
      BY <2>3
    <3>4. /\ s # r /\ pc[s] = "saved"
          /\ \A b \in JobIds : Own(b) /\ jobs[b].chain = jobs[a].chain =>
               /\ ~Live(b)
               /\ jobs[b].step > jobs[a].step => jobs[b].status = "on_hold"
          /\ \A t \in Runners : t # s /\ pc[t] = "saved" /\ Own(held[t]) =>
               jobs[held[t]].chain # jobs[a].chain
      BY <3>1, <3>2 DEF IInv, HandOver
    <3>5. jobs[q].chain # jobs[a].chain
      BY <1>1, <2>1, <3>4
    <3>6. QED
      BY <2>3, <2>6, <3>1, <3>3, <3>4, <3>5
  <2>14. CarriedOut'
    <3>1. jobs[id].step \in ran[jobs[id].chain] /\ jobs[id].step \in Int
      BY <1>1, <2>1 DEF IInv, CarriedOut, Linked
    <3>2. \A i \in 1..(jobs[q].step - 1) : i \in ran[jobs[q].chain]
      BY <1>1, <2>1, <3>1 DEF IInv, CarriedOut
    <3>3. \A x \in JobIds : jobs'[x].chain = jobs[x].chain /\ jobs'[x].step = jobs[x].step
      BY <2>3
    <3>4. \A x \in JobIds : Own(x) /\ jobs'[x].status # "on_hold" =>
            \A i \in 1..(jobs[x].step - 1) : i \in ran[jobs[x].chain]
      BY <2>3, <3>2 DEF IInv, CarriedOut
    <3>5. ran' = ran
      BY DEF QueueNextJob
    <3>6. \A s \in Runners : pc'[s] \in {"ok", "saved"} =>
            held'[s] = held[s] /\ held[s] \in JobIds /\ pc[s] = pc'[s]
      BY <1>1 DEF IInv, RunnersInStep
    <3>7. \A s \in Runners : pc'[s] \in {"ok", "saved"} /\ Own(held[s]) =>
            jobs'[held'[s]].step \in ran'[jobs'[held'[s]].chain]
      BY <3>3, <3>5, <3>6 DEF IInv, CarriedOut
    <3>8. QED
      BY <2>5, <3>3, <3>4, <3>5, <3>6, <3>7 DEF CarriedOut, Own, Exists
  <2>15. QED
    BY <2>7, <2>8, <2>9, <2>10, <2>11, <2>12, <2>13, <2>14 DEF IInv
<1>4. QED
  BY <1>2, <1>3

(* A live job which goes from one live status to another: the pipelines'
   part of the invariant does not notice.                                  *)
LEMMA LiveToLive ==
  ASSUME IInv, NEW id \in JobIds, Exists(id),
         jobs[id].status \in {"pending", "in_process", "failed"},
         jobs' \in [JobIds -> Row \cup {NoRow}],
         jobs'[id].status \in {"pending", "in_process", "failed"},
         jobs'[id].chain = jobs[id].chain,
         jobs'[id].step = jobs[id].step,
         jobs'[id].queueJobID = jobs[id].queueJobID,
         jobs'[id].forced = jobs[id].forced,
         \A x \in JobIds : x # id => jobs'[x] = jobs[x],
         ran' = ran,
         \A s \in Runners : pc'[s] \in {"ok", "saved"} => pc[s] = pc'[s] /\ held'[s] = held[s]
  PROVE  Linked' /\ SingleLiveJob' /\ LaterOnHold' /\ HandOver' /\ CarriedOut'
<1>1. \A x \in JobIds : Exists(x)' <=> Exists(x)
  BY DEF Exists
<1>2. \A x \in JobIds : Own(x)' <=> Own(x)
  BY <1>1 DEF Own
<1>3. \A x \in JobIds : Live(x)' <=> Live(x)
  BY <1>2 DEF Live
<1>4. \A x \in JobIds : /\ jobs'[x].chain = jobs[x].chain /\ jobs'[x].step = jobs[x].step
                        /\ jobs'[x].status = "on_hold" <=> jobs[x].status = "on_hold"
  OBVIOUS
<1>5. \A s \in Runners : pc'[s] \in {"ok", "saved"} =>
        /\ pc[s] = pc'[s] /\ held'[s] = held[s] /\ held[s] \in JobIds
  BY DEF IInv, RunnersInStep
<1>6. Linked'
  BY <1>1, <1>2 DEF IInv, Linked, NumSteps
<1>7. SingleLiveJob'
  BY <1>3, <1>4 DEF IInv, SingleLiveJob
<1>8. LaterOnHold'
  BY <1>2, <1>3, <1>4 DEF IInv, LaterOnHold
<1>9. HandOver'
  <2>1. SUFFICES ASSUME NEW s \in Runners, pc'[s] = "saved",
                        NEW a \in JobIds, a = held[s], Own(a)
                 PROVE  /\ \A b \in JobIds : Own(b) /\ jobs'[b].chain = jobs'[a].chain =>
                             /\ ~Live(b)'
                             /\ jobs'[b].step > jobs'[a].step => jobs'[b].status = "on_hold"
                        /\ \A t \in Runners : t # s /\ pc'[t] = "saved" =>
                             \A d \in JobIds : d = held[t] /\ Own(d) =>
                               jobs'[d].chain # jobs'[a].chain
    BY <1>2, <1>5 DEF HandOver, Own, Exists
  <2>2. pc[s] = "saved"
    BY <1>5, <2>1
  <2>3. \A t \in Runners : pc'[t] = "saved" => pc[t] = "saved"
    BY <1>5
  <2>4. QED
    BY <1>3, <1>4, <2>1, <2>2, <2>3 DEF IInv, HandOver
<1>10. CarriedOut'
  <2>1. \A x \in JobIds : Own(x) /\ jobs'[x].status # "on_hold" =>
          \A i \in 1..(jobs[x].step - 1) : i \in ran[jobs[x].chain]
    BY <1>4 DEF IInv, CarriedOut
  <2>2. \A s \in Runners : pc'[s] \in {"ok", "saved"} /\ Own(held[s]) =>
          jobs'[held'[s]].step \in ran'[jobs'[held'[s]].chain]
    BY <1>4, <1>5 DEF IInv, CarriedOut
  <2>3. QED
    BY <1>2, <1>4, <1>5, <2>1, <2>2 DEF CarriedOut, Own, Exists
<1>11. QED
  BY <1>6, <1>7, <1>8, <1>9, <1>10

LEMMA HandleFailureStep ==
  ASSUME DisjointWatches, IInv, NEW r \in Runners, HandleFailure(r)
  PROVE  IInv'
<1> DEFINE id == held[r]
<1>1. /\ id \in JobIds /\ Exists(id) /\ jobs[id].status = "in_process"
      /\ TypeOK /\ pc'[r] = "idle" /\ pc[r] # "idle"
      /\ \A s \in Runners : s # r => pc'[s] = pc[s] /\ held'[s] = held[s]
  BY DEF IInv, RunnersInStep, HandleFailure, Idle, Drop, HeldStatus, TypeOK
<1> HIDE DEF id
<1>2. /\ jobs' \in [JobIds -> Row \cup {NoRow}]
      /\ jobs'[id] \in Row
      /\ jobs'[id].status = "failed"
      /\ jobs'[id].chain = jobs[id].chain
      /\ jobs'[id].step = jobs[id].step
      /\ jobs'[id].queueJobID = jobs[id].queueJobID
      /\ jobs'[id].forced = jobs[id].forced
      /\ \A x \in JobIds : x # id => jobs'[x] = jobs[x]
  BY <1>1, SaveLemma DEF HandleFailure, Statuses, id
<1>3. \A x \in JobIds : Exists(x)' <=> Exists(x)
  BY <1>1, <1>2 DEF Exists
<1>4. \A s \in Runners : s # r /\ pc[s] # "idle" => held[s] # id
  BY <1>1, HeldApart DEF id
<1>5. ran' = ran
  BY DEF HandleFailure
<1>6. Linked' /\ SingleLiveJob' /\ LaterOnHold' /\ HandOver' /\ CarriedOut'
  BY <1>1, <1>2, <1>5, LiveToLive
<1>7. TypeOK'
  BY <1>1, <1>2, <1>3, RunnersAssumption DEF HandleFailure, Idle, Drop, TypeOK
<1>8. RunnersInStep'
  BY <1>1, <1>2, <1>3, <1>4 DEF IInv, RunnersInStep, HeldStatus, TypeOf
<1>9. OperatorsInStep'
  BY <1>1, <1>2, <1>3 DEF IInv, OperatorsInStep, HandleFailure
<1>10. QED
  BY <1>6, <1>7, <1>8, <1>9 DEF IInv

LEMMA ResetStep ==
  ASSUME IInv, NEW id \in JobIds, ResetCanceledJob(id)
  PROVE  IInv'
<1>1. /\ Exists(id) /\ jobs[id].status = "in_process" /\ TypeOK
      /\ jobs' = Save(id, "pending")
      /\ \A s \in Runners : held[s] # id
      /\ UNCHANGED <<lastId, pc, held, isDone, opHeld, ran>>
  BY DEF IInv, ResetCanceledJob, Exists
<1>2. /\ jobs' \in [JobIds -> Row \cup {NoRow}]
      /\ jobs'[id] \in Row
      /\ jobs'[id].status = "pending"
      /\ jobs'[id].chain = jobs[id].chain
      /\ jobs'[id].step = jobs[id].step
      /\ jobs'[id].queueJobID = jobs[id].queueJobID
      /\ jobs'[id].forced = jobs[id].forced
      /\ \A x \in JobIds : x # id => jobs'[x] = jobs[x]
  BY <1>1, SaveLemma DEF Statuses
<1>3. \A x \in JobIds : Exists(x)' <=> Exists(x)
  BY <1>1, <1>2 DEF Exists
<1>4. Linked' /\ SingleLiveJob' /\ LaterOnHold' /\ HandOver' /\ CarriedOut'
  BY <1>1, <1>2, LiveToLive
<1>5. TypeOK'
  BY <1>1, <1>2, <1>3 DEF TypeOK
<1>6. RunnersInStep'
  BY <1>1, <1>2, <1>3 DEF IInv, RunnersInStep, HeldStatus, TypeOf
<1>7. OperatorsInStep'
  BY <1>1, <1>2, <1>3 DEF IInv, OperatorsInStep
<1>8. QED
  BY <1>4, <1>5, <1>6, <1>7 DEF IInv

LEMMA BackoffStep ==
  ASSUME IInv, NEW id \in JobIds, BackoffElapses(id)
  PROVE  IInv'
<1>1. /\ Exists(id) /\ TypeOK
      /\ UNCHANGED <<lastId, pc, held, isDone, opHeld, ran>>
  BY DEF IInv, BackoffElapses
<1>2. jobs[id] \in Row
  BY <1>1 DEF TypeOK, Exists, NoRow
<1>3. jobs' = [jobs EXCEPT ![id] = [jobs[id] EXCEPT !.due = TRUE]]
  BY DEF BackoffElapses
<1>4. [jobs[id] EXCEPT !.due = TRUE] \in Row
  BY <1>2 DEF Row
<1>5. /\ jobs' \in [JobIds -> Row \cup {NoRow}]
      /\ \A x \in JobIds : /\ jobs'[x].status = jobs[x].status
                           /\ x # id => jobs'[x] = jobs[x]
      /\ jobs'[id].chain = jobs[id].chain
      /\ jobs'[id].step = jobs[id].step
      /\ jobs'[id].queueJobID = jobs[id].queueJobID
      /\ jobs'[id].forced = jobs[id].forced
  BY <1>1, <1>2, <1>3, <1>4 DEF TypeOK, Row
<1>6. \A x \in JobIds : /\ Exists(x)' <=> Exists(x)
                        /\ Own(x)' <=> Own(x)
                        /\ Live(x)' <=> Live(x)
  BY <1>5 DEF Exists, Own, Live
<1>7. TypeOK'
  BY <1>1, <1>5, <1>6 DEF TypeOK
<1>8. RunnersInStep'
  BY <1>1, <1>5, <1>6 DEF IInv, RunnersInStep, TypeOf
<1>9. OperatorsInStep'
  BY <1>1, <1>5, <1>6 DEF IInv, OperatorsInStep
<1>10. Linked'
  BY <1>5, <1>6 DEF IInv, Linked, NumSteps
<1>11. \A x \in JobIds : jobs'[x].chain = jobs[x].chain /\ jobs'[x].step = jobs[x].step
  BY <1>5
<1>12. SingleLiveJob' /\ LaterOnHold'
  BY <1>5, <1>6, <1>11 DEF IInv, SingleLiveJob, LaterOnHold
<1>13. \A s \in Runners : pc[s] # "idle" => held[s] \in JobIds
  BY DEF IInv, RunnersInStep
<1>14. HandOver'
  BY <1>1, <1>5, <1>6, <1>11, <1>13 DEF IInv, HandOver
<1>15. CarriedOut'
  BY <1>1, <1>5, <1>6, <1>11, <1>13 DEF IInv, CarriedOut
<1>16. QED
  BY <1>7, <1>8, <1>9, <1>10, <1>12, <1>14, <1>15 DEF IInv

(* A live job replaced by a pending clone of itself                        *)
LEMMA LiveClone ==
  ASSUME IInv, NEW id \in JobIds, Exists(id),
         jobs[id].status \in {"pending", "in_process", "failed"},
         NEW clone \in Row,
         clone.status = "pending",
         clone.chain = jobs[id].chain,
         clone.step = jobs[id].step,
         clone.queueJobID = jobs[id].queueJobID,
         clone.forced = jobs[id].forced,
         CloneAndSave(id, clone, "failed_done"),
         ran' = ran,
         \A s \in Runners : pc'[s] \in {"ok", "saved"} =>
           pc[s] = pc'[s] /\ held'[s] = held[s] /\ held[s] # id
  PROVE  Linked' /\ SingleLiveJob' /\ LaterOnHold' /\ HandOver' /\ CarriedOut'
<1> DEFINE n == lastId'
<1>1. /\ n \in JobIds /\ ~Exists(n) /\ n # id
      /\ jobs' \in [JobIds -> Row \cup {NoRow}]
      /\ jobs'[n] = clone
      /\ jobs'[id].status = "failed_done"
      /\ jobs'[id].chain = jobs[id].chain
      /\ jobs'[id].step = jobs[id].step
      /\ jobs'[id].queueJobID = jobs[id].queueJobID
      /\ jobs'[id].forced = jobs[id].forced
      /\ \A x \in JobIds : x # id /\ x # n => jobs'[x] = jobs[x]
  BY CloneLemma DEF IInv, Statuses
<1> HIDE DEF n
<1>2. \A x \in JobIds : Exists(x)' <=> Exists(x) \/ x = n
  BY <1>1 DEF Exists, Row, Statuses
<1>3. \A x \in JobIds : Own(x)' <=> Own(x) \/ (x = n /\ Own(id))
  BY <1>1, <1>2 DEF Own
<1>4. \A x \in JobIds : Live(x)' <=> (Live(x) /\ x # id) \/ (x = n /\ Live(id))
  BY <1>1, <1>2, <1>3 DEF Live, Own
<1>5. /\ jobs'[n].chain = jobs[id].chain /\ jobs'[n].step = jobs[id].step
      /\ jobs'[n].status = "pending"
      /\ \A x \in JobIds : x # n =>
           /\ jobs'[x].chain = jobs[x].chain /\ jobs'[x].step = jobs[x].step
           /\ jobs'[x].status = "on_hold" <=> jobs[x].status = "on_hold"
  BY <1>1
<1>6. \A s \in Runners : pc'[s] \in {"ok", "saved"} =>
        /\ pc[s] = pc'[s] /\ held'[s] = held[s] /\ held[s] \in JobIds
        /\ Exists(held[s]) /\ held[s] # id /\ held[s] # n
  BY <1>1 DEF IInv, RunnersInStep
<1>7. Linked'
  <2>1. ASSUME NEW y \in JobIds, Own(y)
        PROVE  Own(y)' /\ jobs'[y].chain = jobs[y].chain /\ jobs'[y].step = jobs[y].step
    BY <1>1, <1>3, <1>5, <2>1 DEF Own
  <2>2. SUFFICES ASSUME NEW x \in JobIds, Exists(x)'
                 PROVE  /\ jobs'[x].forced => jobs'[x].queueJobID = 0
                        /\ jobs'[x].step \in 1..NumSteps(jobs'[x].chain)
                        /\ jobs'[x].queueJobID # 0 =>
                             \E q \in JobIds : /\ q = jobs'[x].queueJobID
                                              /\ Own(q)
                                              /\ jobs[q].chain = jobs'[x].chain
                                              /\ jobs[q].step = jobs'[x].step + 1
    BY <2>1 DEF Linked, NumSteps
  <2>3. PICK y \in JobIds : /\ Exists(y)
                            /\ jobs'[x].forced = jobs[y].forced
                            /\ jobs'[x].queueJobID = jobs[y].queueJobID
                            /\ jobs'[x].step = jobs[y].step
                            /\ jobs'[x].chain = jobs[y].chain
    BY <1>1, <1>2, <2>2
  <2>4. QED
    BY <2>3 DEF IInv, Linked
<1>8. SingleLiveJob'
  <2>1. Live(id) => \A x \in JobIds : Live(x) /\ jobs[x].chain = jobs[id].chain => x = id
    BY DEF IInv, SingleLiveJob
  <2>2. \A x \in JobIds : Live(x) => x # n
    BY <1>1 DEF Live, Own
  <2>3. QED
    BY <1>4, <1>5, <2>1, <2>2 DEF IInv, SingleLiveJob
<1>9. LaterOnHold'
  <2>1. SUFFICES ASSUME NEW a \in JobIds, NEW b \in JobIds, Live(a)', Own(b)',
                        jobs'[b].chain = jobs'[a].chain, jobs'[b].step > jobs'[a].step
                 PROVE  jobs'[b].status = "on_hold"
    BY DEF LaterOnHold
  <2>2. PICK a2 \in JobIds : Live(a2) /\ jobs[a2].chain = jobs'[a].chain /\ jobs[a2].step = jobs'[a].step
    BY <1>1, <1>4, <1>5, <2>1 DEF Live, Own
  <2>3. PICK b2 \in JobIds : /\ Own(b2) /\ jobs[b2].chain = jobs'[b].chain
                             /\ jobs[b2].step = jobs'[b].step
                             /\ IF b = n THEN b2 = id ELSE b2 = b
    BY <1>1, <1>3, <1>5, <2>1 DEF Own
  <2>4. jobs[b2].status = "on_hold"
    BY <2>1, <2>2, <2>3 DEF IInv, LaterOnHold
  <2>5. QED
    BY <1>5, <2>3, <2>4
<1>10. HandOver'
  <2>1. SUFFICES ASSUME NEW s \in Runners, pc'[s] = "saved",
                        NEW a \in JobIds, a = held[s], Own(a), a # n, a # id
                 PROVE  /\ \A b \in JobIds : Own(b)' /\ jobs'[b].chain = jobs'[a].chain =>
                             /\ ~Live(b)'
                             /\ jobs'[b].step > jobs'[a].step => jobs'[b].status = "on_hold"
                        /\ \A t \in Runners : t # s /\ pc'[t] = "saved" =>
                             \A d \in JobIds : d = held[t] /\ Own(d) /\ d # n =>
                               jobs'[d].chain # jobs'[a].chain
    BY <1>3, <1>6 DEF HandOver, Own, Exists
  <2>2. /\ \A b \in JobIds : Own(b) /\ jobs[b].chain = jobs[a].chain =>
             /\ ~Live(b)
             /\ jobs[b].step > jobs[a].step => jobs[b].status = "on_hold"
        /\ \A t \in Runners : t # s /\ pc[t] = "saved" /\ Own(held[t]) =>
             jobs[held[t]].chain # jobs[a].chain
    BY <1>6, <2>1 DEF IInv, HandOver
  <2>3. Own(id) => jobs[id].chain # jobs[a].chain
    BY <2>2 DEF Live
  <2>4. ASSUME NEW b \in JobIds, Own(b)', jobs'[b].chain = jobs'[a].chain
        PROVE  b # n /\ Own(b) /\ jobs[b].chain = jobs[a].chain
    <3>1. jobs'[a].chain = jobs[a].chain
      BY <1>5, <2>1
    <3>2. b # n
      BY <1>1, <1>3, <1>5, <2>3, <2>4, <3>1 DEF Own
    <3>3. QED
      BY <1>3, <1>5, <2>4, <3>1, <3>2
  <2>5. QED
    BY <1>4, <1>5, <1>6, <2>1, <2>2, <2>3, <2>4
<1>11. CarriedOut'
  <2>1. \A x \in JobIds : Own(x) /\ jobs[x].status # "on_hold" =>
          \A i \in 1..(jobs[x].step - 1) : i \in ran[jobs[x].chain]
    BY DEF IInv, CarriedOut
  <2>2. \A x \in JobIds : Own(x)' /\ jobs'[x].status # "on_hold" =>
          \A i \in 1..(jobs'[x].step - 1) : i \in ran[jobs'[x].chain]
    <3> SUFFICES ASSUME NEW x \in JobIds, Own(x)', jobs'[x].status # "on_hold"
                 PROVE  \A i \in 1..(jobs'[x].step - 1) : i \in ran[jobs'[x].chain]
      OBVIOUS
    <3>1. CASE x = n
      <4>1. Own(id)
        BY <1>1, <1>3, <3>1 DEF Own
      <4>2. QED
        BY <1>5, <2>1, <3>1, <4>1
    <3>2. CASE x # n
      BY <1>3, <1>5, <2>1, <3>2
    <3>3. QED
      BY <3>1, <3>2
  <2>3. \A s \in Runners : pc'[s] \in {"ok", "saved"} /\ Own(held[s]) =>
          jobs'[held'[s]].step \in ran'[jobs'[held'[s]].chain]
    BY <1>5, <1>6 DEF IInv, CarriedOut
  <2>4. \A s \in Runners : pc'[s] \in {"ok", "saved"} => (Own(held[s])' <=> Own(held[s]))
    BY <1>1, <1>6 DEF Own, Exists
  <2>5. QED
    BY <2>2, <2>3, <2>4 DEF CarriedOut
<1>12. QED
  BY <1>7, <1>8, <1>9, <1>10, <1>11

LEMMA FailAndRetryStep ==
  ASSUME DisjointWatches, IInv, NEW r \in Runners, FailAndRetry(r)
  PROVE  IInv'
<1> DEFINE id == held[r]
           clone == RetryClone(id)
<1>1. /\ id \in JobIds /\ Exists(id) /\ jobs[id].status = "in_process"
      /\ TypeOK /\ jobs[id] \in Row /\ pc'[r] = "idle" /\ pc[r] # "idle"
      /\ \A s \in Runners : s # r => pc'[s] = pc[s] /\ held'[s] = held[s]
  BY DEF IInv, RunnersInStep, FailAndRetry, Idle, Drop, HeldStatus, TypeOK, Exists, NoRow
<1>2. /\ clone \in Row /\ clone.status = "pending"
      /\ clone.chain = jobs[id].chain /\ clone.step = jobs[id].step
      /\ clone.queueJobID = jobs[id].queueJobID /\ clone.forced = jobs[id].forced
  <2>1. jobs[id].retry + 1 \in 0..MaxRetries
    BY <1>1, RunnersAssumption DEF FailAndRetry, RetriesLeft, Row
  <2>2. QED
    BY <1>1, <2>1 DEF RetryClone, Row, Statuses
<1>3. CloneAndSave(id, clone, "failed_done")
  BY DEF FailAndRetry
<1> HIDE DEF id, clone
<1>4. /\ lastId' = lastId + 1 /\ lastId' \in JobIds /\ ~Exists(lastId') /\ lastId' # id
      /\ jobs' \in [JobIds -> Row \cup {NoRow}]
      /\ jobs'[lastId'] = clone /\ jobs'[id] \in Row
      /\ jobs'[id].status = "failed_done"
      /\ \A x \in JobIds : x # id /\ x # lastId' => jobs'[x] = jobs[x]
  BY <1>1, <1>2, <1>3, CloneLemma DEF Statuses
<1>5. \A s \in Runners : s # r /\ pc[s] # "idle" => held[s] # id
  BY <1>1, HeldApart DEF id
<1>6. ran' = ran
  BY DEF FailAndRetry
<1>7. Linked' /\ SingleLiveJob' /\ LaterOnHold' /\ HandOver' /\ CarriedOut'
  BY <1>1, <1>2, <1>3, <1>5, <1>6, LiveClone
<1>8. \A x \in JobIds : Exists(x)' <=> Exists(x) \/ x = lastId'
  BY <1>1, <1>2, <1>4 DEF Exists, Row, Statuses
<1>9. TypeOK'
  BY <1>1, <1>4, <1>8, RunnersAssumption DEF FailAndRetry, Idle, Drop, TypeOK, JobIds
<1>10. RunnersInStep'
  <2> SUFFICES ASSUME NEW s \in Runners, pc'[s] # "idle"
               PROVE  /\ held'[s] \in JobIds
                      /\ Exists(held[s])'
                      /\ TypeOf(held[s])' \in Watches[s]
                      /\ jobs'[held'[s]].status = HeldStatus(pc'[s])
    BY DEF RunnersInStep
  <2>1. s # r /\ pc'[s] = pc[s] /\ held'[s] = held[s] /\ pc[s] # "idle"
    BY <1>1
  <2>2. /\ held[s] \in JobIds /\ Exists(held[s]) /\ TypeOf(held[s]) \in Watches[s]
        /\ jobs[held[s]].status = HeldStatus(pc[s])
    BY <2>1 DEF IInv, RunnersInStep
  <2>3. jobs'[held[s]] = jobs[held[s]]
    BY <1>4, <1>5, <2>1, <2>2
  <2>4. QED
    BY <2>1, <2>2, <2>3 DEF Exists, TypeOf
<1>11. OperatorsInStep'
  BY <1>1, <1>4, <1>8 DEF IInv, OperatorsInStep, FailAndRetry
<1>12. QED
  BY <1>7, <1>9, <1>10, <1>11 DEF IInv

LEMMA RenewDeadJobStep ==
  ASSUME OneOperator, IInv, NEW o \in Operators, RenewDeadJob(o)
  PROVE  IInv'
<1> DEFINE id == opHeld[o]
           clone == RenewedClone(id)
<1>1. /\ id \in JobIds /\ Exists(id) /\ jobs[id].status = "failed"
      /\ TypeOK /\ jobs[id] \in Row /\ opHeld'[o] = 0
      /\ \A p \in Operators : p = o
  BY DEF IInv, OperatorsInStep, RenewDeadJob, TypeOK, Exists, NoRow, OneOperator
<1>2. /\ clone \in Row /\ clone.status = "pending"
      /\ clone.chain = jobs[id].chain /\ clone.step = jobs[id].step
      /\ clone.queueJobID = jobs[id].queueJobID /\ clone.forced = jobs[id].forced
  <2>1. 0 \in 0..MaxRetries
    BY RunnersAssumption
  <2>2. QED
    BY <1>1, <2>1 DEF RenewedClone, Row, Statuses
<1>3. CloneAndSave(id, clone, "failed_done") /\ UNCHANGED <<pc, held, isDone, ran>>
  BY DEF RenewDeadJob
<1>4. opHeld' \in [Operators -> 0..MaxJobs]
  BY <1>1, RunnersAssumption DEF RenewDeadJob, TypeOK
<1> HIDE DEF id, clone
<1>5. /\ lastId' = lastId + 1 /\ lastId' \in JobIds /\ ~Exists(lastId') /\ lastId' # id
      /\ jobs' \in [JobIds -> Row \cup {NoRow}]
      /\ jobs'[lastId'] = clone /\ jobs'[id] \in Row
      /\ jobs'[id].status = "failed_done"
      /\ \A x \in JobIds : x # id /\ x # lastId' => jobs'[x] = jobs[x]
  BY <1>1, <1>2, <1>3, CloneLemma DEF Statuses
<1>6. \A s \in Runners : pc[s] # "idle" => held[s] # id
  BY <1>1 DEF IInv, RunnersInStep, HeldStatus
<1>7. Linked' /\ SingleLiveJob' /\ LaterOnHold' /\ HandOver' /\ CarriedOut'
  BY <1>1, <1>2, <1>3, <1>6, LiveClone
<1>8. \A x \in JobIds : Exists(x)' <=> Exists(x) \/ x = lastId'
  BY <1>1, <1>2, <1>5 DEF Exists, Row, Statuses
<1>9. TypeOK'
  BY <1>1, <1>3, <1>4, <1>5, <1>8 DEF TypeOK, JobIds
<1>10. RunnersInStep'
  BY <1>1, <1>3, <1>5, <1>6, <1>8 DEF IInv, RunnersInStep, TypeOf
<1>11. OperatorsInStep'
  BY <1>1 DEF OperatorsInStep
<1>12. QED
  BY <1>7, <1>9, <1>10, <1>11 DEF IInv

(* A row of a forced rerun belongs to no pipeline.                         *)
LEMMA ForceRerunStep ==
  ASSUME IInv, NEW id \in JobIds, ForceRerun(id)
  PROVE  IInv'
<1> DEFINE clone == ForcedClone(id)
           n == lastId + 1
<1>1. /\ Exists(id) /\ TypeOK /\ jobs[id] \in Row
      /\ n \in JobIds /\ ~Exists(n)
      /\ jobs' = [jobs EXCEPT ![n] = clone]
      /\ lastId' = n
      /\ UNCHANGED <<pc, held, isDone, opHeld, ran>>
  BY RunnersAssumption DEF IInv, ForceRerun, TypeOK, Exists, NoRow, JobIds
<1>2. /\ clone \in Row /\ clone.status = "pending" /\ clone.queueJobID = 0 /\ clone.forced
      /\ clone.chain = jobs[id].chain /\ clone.step = jobs[id].step
  <2>1. 0 \in 0..MaxJobs
    BY RunnersAssumption
  <2>2. QED
    BY <1>1, <2>1 DEF ForcedClone, Row, Statuses
<1> HIDE DEF clone, n
<1>3. /\ jobs' \in [JobIds -> Row \cup {NoRow}]
      /\ jobs'[n] = clone
      /\ \A x \in JobIds : x # n => jobs'[x] = jobs[x]
  BY <1>1, <1>2 DEF TypeOK
<1>4. \A x \in JobIds : /\ Exists(x)' <=> Exists(x) \/ x = n
                        /\ Own(x)' <=> Own(x)
                        /\ Live(x)' <=> Live(x)
                        /\ Own(x) => x # n
  BY <1>1, <1>2, <1>3 DEF Exists, Own, Live, Row, Statuses
<1>5. \A s \in Runners : pc[s] # "idle" => held[s] \in JobIds /\ Exists(held[s]) /\ held[s] # n
  BY <1>1 DEF IInv, RunnersInStep
<1>6. TypeOK'
  BY <1>1, <1>3, <1>4 DEF TypeOK, JobIds, n
<1>7. RunnersInStep'
  BY <1>1, <1>3, <1>4, <1>5 DEF IInv, RunnersInStep, TypeOf
<1>8. OperatorsInStep'
  BY <1>1, <1>3, <1>4 DEF IInv, OperatorsInStep
<1>9. Linked'
  BY <1>1, <1>2, <1>3, <1>4 DEF IInv, Linked, NumSteps
<1>10. SingleLiveJob' /\ LaterOnHold'
  BY <1>3, <1>4 DEF IInv, SingleLiveJob, LaterOnHold, Live
<1>11. HandOver'
  BY <1>1, <1>3, <1>4, <1>5 DEF IInv, HandOver
<1>12. CarriedOut'
  BY <1>1, <1>3, <1>4, <1>5 DEF IInv, CarriedOut
<1>13. QED
  BY <1>6, <1>7, <1>8, <1>9, <1>10, <1>11, <1>12 DEF IInv

(* The rows QueueSerial adds are the pipeline's first, and nobody has      *)
(* touched them yet.                                                       *)
LEMMA QueueSerialStep ==
  ASSUME IInv, NEW c \in Chains, QueueSerial(c)
  PROVE  IInv'
<1> DEFINE len == NumSteps(c)
           New == lastId + 1 .. lastId + len
           stepOf(x) == lastId + len + 1 - x
<1>1. /\ TypeOK /\ lastId \in Nat /\ len \in Nat \ {0}
      /\ lastId + len \in JobIds /\ lastId + len <= MaxJobs /\ lastId' = lastId + len
      /\ UNCHANGED <<pc, held, isDone, opHeld, ran>>
  BY ChainsAssumption, RunnersAssumption DEF IInv, QueueSerial, TypeOK, JobIds, NumSteps
<1>2. /\ New \subseteq JobIds
      /\ \A x \in New : stepOf(x) \in 1..len
      /\ \A x \in New : stepOf(x) = 1 => x = lastId + len
  BY <1>1, RunnersAssumption DEF JobIds
<1>3. \A x \in JobIds : Exists(x) => x \notin New /\ jobs[x].chain # c
  BY <1>1 DEF TypeOK, QueueSerial, Queued
<1>4. \A x \in JobIds : jobs'[x] = IF x \in New THEN SerialRow(c, stepOf(x)) ELSE jobs[x]
  BY DEF QueueSerial
<1>5. \A x \in New : SerialRow(c, stepOf(x)) \in Row
  <2> SUFFICES ASSUME NEW x \in New
               PROVE  SerialRow(c, stepOf(x)) \in Row
    OBVIOUS
  <2>1. stepOf(x) \in Steps
    BY <1>2 DEF Steps
  <2>2. (IF stepOf(x) = len THEN 0 ELSE lastId + len - stepOf(x)) \in 0..MaxJobs
    BY <1>1, <1>2, RunnersAssumption
  <2>3. 0 \in 0..MaxRetries
    BY RunnersAssumption
  <2> HIDE DEF stepOf
  <2>4. QED
    BY <2>1, <2>2, <2>3 DEF SerialRow, Row, Statuses
<1>6. \A x \in New : /\ jobs'[x].chain = c /\ jobs'[x].step = stepOf(x) /\ ~jobs'[x].forced
                     /\ jobs'[x].status = (IF stepOf(x) = 1 THEN "pending" ELSE "on_hold")
                     /\ jobs'[x].queueJobID = (IF stepOf(x) = len THEN 0 ELSE lastId + len - stepOf(x))
  <2>1. \A i : /\ SerialRow(c, i).chain = c
              /\ SerialRow(c, i).step = i
              /\ ~SerialRow(c, i).forced
              /\ SerialRow(c, i).status = (IF i = 1 THEN "pending" ELSE "on_hold")
              /\ SerialRow(c, i).queueJobID = (IF i = len THEN 0 ELSE lastId + len - i)
    BY DEF SerialRow
  <2>2. \A x \in New : jobs'[x] = SerialRow(c, stepOf(x))
    BY <1>2, <1>4
  <2> HIDE DEF stepOf, New
  <2>3. QED
    BY <2>1, <2>2
<1>7. jobs' \in [JobIds -> Row \cup {NoRow}]
  <2> HIDE DEF New, stepOf
  <2>1. \A x \in JobIds : jobs'[x] \in Row \cup {NoRow}
    BY <1>1, <1>4, <1>5 DEF TypeOK
  <2>2. jobs' = [x \in JobIds |-> jobs'[x]]
    BY DEF QueueSerial
  <2>3. QED
    BY <2>1, <2>2
<1>8. \A x \in JobIds : x \notin New => jobs'[x] = jobs[x]
  BY <1>4
<1> HIDE DEF New
<1>9. \A x \in JobIds : /\ Exists(x)' <=> Exists(x) \/ x \in New
                        /\ Own(x)' <=> Own(x) \/ x \in New
                        /\ Live(x)' <=> Live(x) \/ x = lastId + len
  <2>1. lastId + len \in New /\ stepOf(lastId + len) = 1
    BY <1>1 DEF New
  <2>2. \A x \in JobIds : Exists(x)' <=> Exists(x) \/ x \in New
    BY <1>3, <1>6, <1>8 DEF Exists
  <2>3. \A x \in JobIds : Own(x)' <=> Own(x) \/ x \in New
    BY <1>3, <1>6, <1>8, <2>2 DEF Own
  <2> HIDE DEF stepOf
  <2>4. \A x \in JobIds : Live(x)' <=> Live(x) \/ x = lastId + len
    BY <1>2, <1>3, <1>6, <1>8, <2>1, <2>3 DEF Live, Own
  <2>5. QED
    BY <2>2, <2>3, <2>4
<1>10. \A s \in Runners : pc[s] # "idle" =>
         held[s] \in JobIds /\ Exists(held[s]) /\ held[s] \notin New
  BY <1>3 DEF IInv, RunnersInStep
<1>11. TypeOK'
  <2>1. \A x \in JobIds : Exists(x)' <=> x <= lastId + len
    BY <1>1, <1>9 DEF TypeOK, New, JobIds
  <2>2. QED
    BY <1>1, <1>7, <2>1, RunnersAssumption DEF TypeOK
<1>12. RunnersInStep'
  BY <1>1, <1>8, <1>9, <1>10 DEF IInv, RunnersInStep, TypeOf
<1>13. OperatorsInStep'
  BY <1>1, <1>3, <1>8, <1>9 DEF IInv, OperatorsInStep
<1>14. Linked'
  <2>1. SUFFICES ASSUME NEW x \in JobIds, Exists(x)'
                 PROVE  /\ jobs'[x].forced => jobs'[x].queueJobID = 0
                        /\ jobs'[x].step \in 1..NumSteps(jobs'[x].chain)
                        /\ jobs'[x].queueJobID # 0 =>
                             \E q \in JobIds : /\ q = jobs'[x].queueJobID
                                              /\ Own(q)'
                                              /\ jobs'[q].chain = jobs'[x].chain
                                              /\ jobs'[q].step = jobs'[x].step + 1
    BY DEF Linked, NumSteps
  <2>2. CASE x \in New
    <3>1. stepOf(x) \in 1..len
      BY <1>2, <2>2
    <3>2. /\ jobs'[x].queueJobID = (IF stepOf(x) = len THEN 0 ELSE lastId + len - stepOf(x))
          /\ jobs'[x].chain = c /\ jobs'[x].step = stepOf(x) /\ ~jobs'[x].forced
      BY <1>6, <2>2
    <3>3. CASE stepOf(x) = len
      <4> HIDE DEF stepOf
      <4>1. QED
        BY <3>1, <3>2, <3>3
    <3>4. CASE stepOf(x) # len
      <4>1. PICK q \in JobIds : q = lastId + len - stepOf(x)
        BY <1>1, <3>1, <3>4, RunnersAssumption DEF JobIds
      <4>2. q \in New /\ stepOf(q) = stepOf(x) + 1
        BY <1>1, <3>1, <3>4, <4>1 DEF New
      <4> HIDE DEF stepOf
      <4>3. Own(q)' /\ jobs'[q].chain = c /\ jobs'[q].step = stepOf(x) + 1
        BY <1>6, <1>9, <4>2
      <4>4. QED
        BY <3>1, <3>2, <3>4, <4>1, <4>3
    <3>5. QED
      BY <3>3, <3>4
  <2>3. CASE x \notin New
    <3>1. jobs'[x] = jobs[x] /\ Exists(x)
      BY <1>8, <1>9, <2>1, <2>3
    <3>2. \A q \in JobIds : Own(q) => Own(q)' /\ jobs'[q] = jobs[q]
      BY <1>3, <1>8, <1>9 DEF Own
    <3>3. QED
      BY <3>1, <3>2 DEF IInv, Linked
  <2>4. QED
    BY <2>2, <2>3
<1>15. SingleLiveJob'
  <2>1. \A x \in JobIds : Live(x) => jobs'[x] = jobs[x] /\ jobs[x].chain # c
    BY <1>3, <1>8 DEF Live, Own
  <2>2. jobs'[lastId + len].chain = c
    BY <1>1, <1>6 DEF New
  <2>3. QED
    BY <1>9, <2>1, <2>2 DEF IInv, SingleLiveJob
<1>16. LaterOnHold'
  <2>1. SUFFICES ASSUME NEW a \in JobIds, NEW b \in JobIds, Live(a)', Own(b)',
                        jobs'[b].chain = jobs'[a].chain, jobs'[b].step > jobs'[a].step
                 PROVE  jobs'[b].status = "on_hold"
    BY DEF LaterOnHold
  <2>2. lastId + len \in New /\ stepOf(lastId + len) = 1
    BY <1>1 DEF New
  <2>3. \A x \in JobIds : Own(x) => jobs'[x] = jobs[x] /\ jobs[x].chain # c
    BY <1>3, <1>8 DEF Own
  <2> HIDE DEF stepOf
  <2>4. CASE a = lastId + len
    BY <1>2, <1>6, <1>9, <2>1, <2>2, <2>3, <2>4
  <2>5. CASE a # lastId + len
    <3>1. Live(a) /\ Own(a)
      BY <1>9, <2>1, <2>5 DEF Live
    <3>2. Own(b)
      BY <1>6, <1>9, <2>1, <2>3, <3>1
    <3>3. QED
      BY <2>1, <2>3, <3>1, <3>2 DEF IInv, LaterOnHold
  <2>6. QED
    BY <2>4, <2>5
<1>17. HandOver'
  <2>1. \A x \in JobIds : Own(x) => jobs'[x] = jobs[x] /\ jobs[x].chain # c
    BY <1>3, <1>8 DEF Own
  <2>2. \A x \in New : jobs'[x].chain = c
    BY <1>6
  <2>3. lastId + len \in New
    BY <1>1 DEF New
  <2>4. SUFFICES ASSUME NEW s \in Runners, pc[s] = "saved",
                        NEW a \in JobIds, a = held[s], Own(a)
                 PROVE  /\ \A b \in JobIds : Own(b)' /\ jobs'[b].chain = jobs'[a].chain =>
                             /\ ~Live(b)'
                             /\ jobs'[b].step > jobs'[a].step => jobs'[b].status = "on_hold"
                        /\ \A t \in Runners : t # s /\ pc[t] = "saved" =>
                             \A d \in JobIds : d = held[t] /\ Own(d) =>
                               jobs'[d].chain # jobs'[a].chain
    BY <1>1, <1>9, <1>10 DEF HandOver, Own, Exists
  <2>5. \A b \in JobIds : Own(b)' /\ jobs'[b].chain = jobs'[a].chain =>
          Own(b) /\ jobs[b].chain = jobs[a].chain /\ b \notin New
    BY <1>3, <1>9, <2>1, <2>2, <2>4 DEF Own
  <2>6. QED
    BY <1>9, <2>1, <2>3, <2>4, <2>5 DEF IInv, HandOver
<1>18. CarriedOut'
  <2>1. \A x \in JobIds : Own(x) => jobs'[x] = jobs[x]
    BY <1>3, <1>8 DEF Own
  <2>2. \A x \in New : jobs'[x].status # "on_hold" => jobs'[x].step = 1
    BY <1>6
  <2>3. \A x \in JobIds : Own(x)' /\ jobs'[x].status # "on_hold" =>
          \A i \in 1..(jobs'[x].step - 1) : i \in ran[jobs'[x].chain]
    BY <1>9, <2>1, <2>2 DEF IInv, CarriedOut
  <2>4. \A s \in Runners : pc[s] \in {"ok", "saved"} =>
          jobs'[held[s]] = jobs[held[s]] /\ (Own(held[s])' <=> Own(held[s]))
    BY <1>1, <1>8, <1>10 DEF Own, Exists
  <2>5. QED
    BY <1>1, <2>3, <2>4 DEF IInv, CarriedOut
<1>19. QED
  BY <1>11, <1>12, <1>13, <1>14, <1>15, <1>16, <1>17, <1>18 DEF IInv

----------------------------------------------------------------------------
(* The theorems                                                            *)

LEMMA InitIInv == Init => IInv
<1> SUFFICES ASSUME Init PROVE IInv
  OBVIOUS
<1>1. TypeOK
  BY RunnersAssumption DEF Init, TypeOK, JobIds, Exists, NoRow
<1>2. \A id \in JobIds : ~Exists(id)
  BY DEF Init, Exists, NoRow
<1>3. \A id \in JobIds : ~Own(id) /\ ~Live(id)
  BY <1>2 DEF Own, Live
<1>4. RunnersInStep /\ OperatorsInStep /\ HandOver
  BY DEF Init, RunnersInStep, OperatorsInStep, HandOver
<1>5. Linked /\ SingleLiveJob /\ LaterOnHold
  BY <1>2, <1>3 DEF Linked, SingleLiveJob, LaterOnHold
<1>6. CarriedOut
  BY <1>3 DEF Init, CarriedOut
<1>7. QED
  BY <1>1, <1>4, <1>5, <1>6 DEF IInv

LEMMA NextIInv ==
  ASSUME DisjointWatches, OneOperator, IInv, [Next]_vars
  PROVE  IInv'
<1>1. ASSUME NEW c \in Chains, QueueSerial(c)
      PROVE  IInv'
  BY <1>1, QueueSerialStep
<1>2. ASSUME NEW id \in JobIds,
             BackoffElapses(id) \/ ResetCanceledJob(id) \/ ForceRerun(id)
      PROVE  IInv'
  BY <1>2, BackoffStep, ResetStep, ForceRerunStep
<1>3. ASSUME NEW r \in Runners,
             ProcessFails(r) \/ DatabaseError(r) \/ Crash(r)
      PROVE  IInv'
  <2>1. CASE ProcessFails(r)
    BY <2>1, DropStep DEF ProcessFails, At
  <2>2. CASE DatabaseError(r)
    BY <2>2, DropStep DEF DatabaseError, Idle
  <2>3. CASE Crash(r)
    BY <2>3, DropStep DEF Crash, Idle
  <2>4. QED
    BY <1>3, <2>1, <2>2, <2>3
<1>4. ASSUME NEW r \in Runners,
             \/ PopSelect(r) \/ PopUpdate(r) \/ ProcessSucceeds(r)
             \/ HandleSuccess(r) \/ QueueNextJob(r)
             \/ FailAndRetry(r) \/ HandleFailure(r)
             \/ Stop(r) \/ Restart(r)
      PROVE  IInv'
  BY <1>4, PopSelectStep, PopUpdateStep, ProcessSucceedsStep, HandleSuccessStep,
     QueueNextJobStep, FailAndRetryStep, HandleFailureStep, StopRestartStep
<1>5. ASSUME NEW o \in Operators, RenewDeadJob(o)
      PROVE  IInv'
  BY <1>5, RenewDeadJobStep
<1>6. ASSUME NEW o \in Operators, NEW id \in JobIds, RequeueLoad(o, id)
      PROVE  IInv'
  BY <1>6, RequeueLoadStep
<1>7. CASE UNCHANGED vars
  BY <1>7, SameRows
     DEF vars, IInv, TypeOK, RunnersInStep, OperatorsInStep, HandOver, CarriedOut
<1>8. QED
  BY <1>1, <1>2, <1>3, <1>4, <1>5, <1>6, <1>7 DEF Next, RunnerStep

(* The inductive invariant holds of every behaviour of the queue.          *)
THEOREM Invariance ==
  ASSUME DisjointWatches, OneOperator
  PROVE  Spec => []IInv
BY InitIInv, NextIInv, PTL DEF Spec

(* The jobs table, the runners and the operators stay well typed.          *)
THEOREM TypeCorrect ==
  ASSUME DisjointWatches, OneOperator
  PROVE  Spec => []TypeOK
<1>1. IInv => TypeOK
  BY DEF IInv
<1>2. QED
  BY <1>1, Invariance, PTL

(* No pipeline ever has two live jobs, whatever fails: at most one runner
   works on an issue's or a batch's pipeline at any time.                  *)
THEOREM OneLiveJobPerPipeline ==
  ASSUME DisjointWatches, OneOperator
  PROVE  Spec => []SingleLiveJob
<1>1. IInv => SingleLiveJob
  BY DEF IInv
<1>2. QED
  BY <1>1, Invariance, PTL

(* No job is executed before every earlier job of its pipeline has been
   carried out.                                                            *)
THEOREM PipelineOrder ==
  ASSUME DisjointWatches, OneOperator
  PROVE  Spec => []ChainOrder
<1>1. IInv => ChainOrder
  <2> SUFFICES ASSUME IInv, NEW r \in Runners, InHand(r), ~jobs[held[r]].forced
               PROVE  \A i \in 1..(jobs[held[r]].step - 1) : i \in ran[jobs[held[r]].chain]
    BY DEF ChainOrder
  <2>1. /\ held[r] \in JobIds /\ Exists(held[r])
        /\ jobs[held[r]].status \in {"in_process", "success"}
    BY DEF IInv, RunnersInStep, InHand, HeldStatus
  <2>2. QED
    BY <2>1 DEF IInv, CarriedOut, Own
<1>2. QED
  BY <1>1, Invariance, PTL

(* A step which writes one row, or a row and its clone, releases no other
   row from on_hold.                                                       *)
LEMMA ReleaseStep ==
  ASSUME DisjointWatches, IInv, [Next]_vars, NEW id \in JobIds,
         jobs[id].status = "on_hold", jobs'[id].status # "on_hold"
  PROVE  jobs[id].step - 1 \in ran[jobs[id].chain]
<1>1. Exists(id) /\ TypeOK
  BY DEF Exists, IInv
<1>2. ASSUME NEW r \in Runners,
             PopUpdate(r) \/ HandleSuccess(r) \/ FailAndRetry(r) \/ HandleFailure(r)
      PROVE  FALSE
  <2>1. /\ held[r] \in JobIds /\ held[r] # id
        /\ \A p \in JobIds : lastId + 1 = p => p # id
    BY <1>1, <1>2 DEF IInv, TypeOK, RunnersInStep, HeldStatus, PopUpdate, HandleSuccess,
                      FailAndRetry, HandleFailure, At, JobIds
  <2>2. jobs'[id] = jobs[id]
    BY <1>1, <1>2, <2>1 DEF TypeOK, PopUpdate, HandleSuccess, FailAndRetry, HandleFailure,
                            Save, CloneAndSave, JobIds
  <2>3. QED
    BY <2>2
<1>3. ASSUME NEW r \in Runners, QueueNextJob(r)
      PROVE  jobs[id].step - 1 \in ran[jobs[id].chain]
  <2> DEFINE h == held[r]
  <2>1. h \in JobIds /\ Exists(h) /\ pc[r] = "saved"
    BY <1>3 DEF QueueNextJob, IInv, RunnersInStep
  <2>2. jobs[h].queueJobID # 0 /\ jobs[h].queueJobID = id
    BY <1>1, <1>3 DEF QueueNextJob, Save, TypeOK
  <2>3. /\ Own(h)
        /\ jobs[id].chain = jobs[h].chain
        /\ jobs[id].step = jobs[h].step + 1
        /\ jobs[h].step \in 1..NumSteps(jobs[h].chain)
    BY <2>1, <2>2 DEF IInv, Linked, Own
  <2>4. jobs[h].step \in ran[jobs[h].chain]
    BY <2>1, <2>3 DEF IInv, CarriedOut
  <2>5. jobs[h].step \in Int
    BY <2>3
  <2> HIDE DEF h
  <2>6. QED
    BY <2>3, <2>4, <2>5
<1>4. ASSUME NEW x \in JobIds, BackoffElapses(x) \/ ResetCanceledJob(x) \/ ForceRerun(x)
      PROVE  FALSE
  <2>1. ASSUME BackoffElapses(x)
        PROVE  jobs'[id].status = jobs[id].status
    BY <1>1, <2>1 DEF BackoffElapses, TypeOK, Row, NoRow, Exists
  <2>2. ASSUME ResetCanceledJob(x)
        PROVE  jobs'[id] = jobs[id]
    BY <1>1, <2>2 DEF ResetCanceledJob, Save, TypeOK
  <2>3. ASSUME ForceRerun(x)
        PROVE  jobs'[id] = jobs[id]
    BY <1>1, <2>3 DEF ForceRerun, TypeOK, JobIds
  <2>4. QED
    BY <1>4, <2>1, <2>2, <2>3
<1>5. ASSUME NEW c \in Chains, QueueSerial(c)
      PROVE  FALSE
  BY <1>1, <1>5 DEF QueueSerial, TypeOK, JobIds
<1>6. ASSUME NEW o \in Operators, RenewDeadJob(o)
      PROVE  FALSE
  <2>1. opHeld[o] \in JobIds /\ opHeld[o] # id /\ lastId + 1 # id
    BY <1>1, <1>6 DEF RenewDeadJob, IInv, TypeOK, OperatorsInStep, JobIds
  <2>2. jobs'[id] = jobs[id]
    BY <1>1, <1>6, <2>1 DEF RenewDeadJob, CloneAndSave, TypeOK
  <2>3. QED
    BY <2>2
<1>7. CASE jobs' = jobs
  BY <1>7
<1>8. QED
  BY <1>2, <1>3, <1>4, <1>5, <1>6, <1>7
     DEF Next, RunnerStep, vars, PopSelect, ProcessSucceeds, ProcessFails,
         DatabaseError, Crash, Stop, Restart, RequeueLoad

(* An on_hold job is released only when its predecessor was carried out.   *)
THEOREM ReleaseOrder ==
  ASSUME DisjointWatches, OneOperator
  PROVE  Spec => ReleasedInTurn
<1>1. IInv /\ [Next]_vars =>
        [\A id \in JobIds :
           jobs[id].status = "on_hold" /\ jobs'[id].status # "on_hold" =>
             jobs[id].step - 1 \in ran[jobs[id].chain]]_vars
  BY ReleaseStep
<1>2. QED
  BY <1>1, Invariance, PTL DEF Spec, ReleasedInTurn

----------------------------------------------------------------------------
(* What any step does to the table: the facts on which the refinement and  *)
(* NeverStranded rest.                                                     *)

(* A row keeps its place in its pipeline, never goes back on hold, and stays
   successful once it is.                                                  *)
Kept(x) ==
  /\ Exists(x)'
  /\ jobs'[x].chain = jobs[x].chain
  /\ jobs'[x].step = jobs[x].step
  /\ jobs'[x].queueJobID = jobs[x].queueJobID
  /\ jobs'[x].forced = jobs[x].forced
  /\ jobs[x].status # "on_hold" => jobs'[x].status # "on_hold"
  /\ jobs[x].status = "success" => jobs'[x].status = "success"

(* A row that a step adds, when it is one of a pipeline's own, is one of those
   QueueSerial makes or the pending clone of a row that was live.          *)
NewRow(x) ==
  \/ \E c \in Chains : QueueSerial(c) /\ jobs'[x].chain = c
  \/ \E y \in JobIds : /\ Live(y)
                       /\ jobs'[x].status = "pending"
                       /\ jobs'[x].chain = jobs[y].chain
                       /\ jobs'[x].step = jobs[y].step
                       /\ jobs'[x].queueJobID = jobs[y].queueJobID

(* What a runner that has saved its job as successful is about to release  *)
LEMMA HandedOn ==
  ASSUME IInv, NEW r \in Runners, HandingOn(r),
         NEW h, h = held[r], NEW q, q = jobs[h].queueJobID
  PROVE  /\ h \in JobIds /\ Own(h) /\ jobs[h] \in Row /\ jobs[h].status = "success"
         /\ q \in JobIds /\ Own(q) /\ jobs[q] \in Row /\ jobs[q].status = "on_hold"
         /\ jobs[q].chain = jobs[h].chain
         /\ jobs[q].step = jobs[h].step + 1
         /\ jobs[h].step \in Nat /\ jobs[h].chain \in Chains
         /\ jobs[q].step \in 1..NumSteps(jobs[h].chain)
         /\ jobs[h].step \in ran[jobs[h].chain]
         /\ \A b \in JobIds : Own(b) /\ jobs[b].chain = jobs[h].chain =>
              /\ ~Live(b)
              /\ jobs[b].step > jobs[h].step => jobs[b].status = "on_hold"
<1>1. /\ pc[r] = "saved" /\ jobs[h].queueJobID # 0
      /\ h \in JobIds /\ Exists(h) /\ jobs[h].status = "success"
  BY DEF HandingOn, IInv, RunnersInStep, HeldStatus
<1>2. /\ Own(h) /\ q \in JobIds /\ Own(q) /\ jobs[q].chain = jobs[h].chain
      /\ jobs[q].step = jobs[h].step + 1
      /\ jobs[h].step \in 1..NumSteps(jobs[h].chain)
      /\ jobs[q].step \in 1..NumSteps(jobs[q].chain)
  BY <1>1 DEF IInv, Linked, Own
<1>3. jobs[h] \in Row /\ jobs[q] \in Row
  BY <1>1, <1>2 DEF IInv, TypeOK, Own, Exists, NoRow
<1>4. jobs[h].chain \in Chains
  BY <1>3 DEF Row
<1>5. \A b \in JobIds : Own(b) /\ jobs[b].chain = jobs[h].chain =>
        /\ ~Live(b)
        /\ jobs[b].step > jobs[h].step => jobs[b].status = "on_hold"
  BY <1>1, <1>2 DEF IInv, HandOver
<1>6. jobs[q].status = "on_hold"
  BY <1>2, <1>5
<1>7. jobs[h].step \in ran[jobs[h].chain]
  BY <1>1, <1>2 DEF IInv, CarriedOut
<1>8. QED
  BY <1>1, <1>2, <1>3, <1>4, <1>5, <1>6, <1>7

(* Saving a row that was not successful, as anything but on hold           *)
LEMMA KeptBySave ==
  ASSUME IInv, NEW id \in JobIds, Exists(id), jobs[id].status # "success",
         NEW s \in Statuses \ {"on_hold"}, jobs' = Save(id, s)
  PROVE  /\ \A x \in JobIds : Exists(x) => Kept(x)
         /\ \A x \in JobIds : Exists(x)' => Exists(x)
         /\ \A x \in JobIds : x # id => jobs'[x] = jobs[x]
         /\ jobs'[id].status = s
<1>1. /\ jobs'[id] \in Row
      /\ jobs'[id].status = s
      /\ jobs'[id].chain = jobs[id].chain
      /\ jobs'[id].step = jobs[id].step
      /\ jobs'[id].queueJobID = jobs[id].queueJobID
      /\ jobs'[id].forced = jobs[id].forced
      /\ \A x \in JobIds : x # id => jobs'[x] = jobs[x]
  BY SaveLemma DEF IInv
<1>2. \A x \in JobIds : Exists(x)' <=> Exists(x)
  BY <1>1 DEF Exists, Statuses
<1>3. QED
  BY <1>1, <1>2 DEF Kept

(* Replacing a live row by a pending clone of it                           *)
LEMMA KeptByClone ==
  ASSUME IInv, NEW id \in JobIds, Exists(id),
         jobs[id].status \in {"in_process", "failed"},
         NEW clone \in Row,
         clone.status = "pending",
         clone.chain = jobs[id].chain,
         clone.step = jobs[id].step,
         clone.queueJobID = jobs[id].queueJobID,
         clone.forced = jobs[id].forced,
         CloneAndSave(id, clone, "failed_done")
  PROVE  /\ \A x \in JobIds : Exists(x) => Kept(x)
         /\ \A x \in JobIds : Own(x)' /\ ~Exists(x) => NewRow(x) /\ Live(x)' /\ Own(id)
         /\ Own(id) => \E n \in JobIds : Live(n)' /\ jobs'[n].chain = jobs[id].chain
         /\ \A x \in JobIds : Exists(x) /\ x # id => jobs'[x] = jobs[x]
<1>1. PICK n \in JobIds :
      /\ ~Exists(n) /\ n # id
      /\ jobs'[n] = clone
      /\ jobs'[id] \in Row
      /\ jobs'[id].status = "failed_done"
      /\ jobs'[id].chain = jobs[id].chain
      /\ jobs'[id].step = jobs[id].step
      /\ jobs'[id].queueJobID = jobs[id].queueJobID
      /\ jobs'[id].forced = jobs[id].forced
      /\ \A x \in JobIds : x # id /\ x # n => jobs'[x] = jobs[x]
  BY CloneLemma DEF IInv, Statuses
<1>2. \A x \in JobIds : Exists(x) => Kept(x)
  BY <1>1 DEF Kept, Exists
<1>3. \A x \in JobIds : Exists(x)' /\ ~Exists(x) => x = n
  BY <1>1 DEF Exists
<1>4. Own(n)' => Live(id) /\ Own(id) /\ Live(n)'
  BY <1>1 DEF Live, Own, Exists
<1>5. \A x \in JobIds : Own(x)' /\ ~Exists(x) => NewRow(x) /\ Live(x)' /\ Own(id)
  BY <1>1, <1>3, <1>4 DEF NewRow, Own
<1>6. Own(id) => Live(n)' /\ jobs'[n].chain = jobs[id].chain
  BY <1>1 DEF Live, Own, Exists
<1>7. \A x \in JobIds : Exists(x) /\ x # id => jobs'[x] = jobs[x]
  BY <1>1
<1>8. QED
  BY <1>2, <1>5, <1>6, <1>7

(* The two ways a live row is replaced: attemptRetry and RenewDeadJob      *)
LEMMA FailAndRetryClones ==
  ASSUME IInv, NEW r \in Runners, FailAndRetry(r)
  PROVE  \E id \in JobIds, clone \in Row :
           /\ id = held[r]
           /\ Exists(id)
           /\ jobs[id].status \in {"in_process", "failed"}
           /\ clone.status = "pending"
           /\ clone.chain = jobs[id].chain
           /\ clone.step = jobs[id].step
           /\ clone.queueJobID = jobs[id].queueJobID
           /\ clone.forced = jobs[id].forced
           /\ CloneAndSave(id, clone, "failed_done")
<1> DEFINE id == held[r]
           clone == RetryClone(id)
<1>1. /\ id \in JobIds /\ Exists(id) /\ jobs[id].status = "in_process" /\ jobs[id] \in Row
  BY DEF IInv, RunnersInStep, FailAndRetry, HeldStatus, TypeOK, Exists, NoRow
<1>2. jobs[id].retry + 1 \in 0..MaxRetries
  BY <1>1, RunnersAssumption DEF FailAndRetry, RetriesLeft, Row
<1>3. /\ clone \in Row /\ clone.status = "pending"
      /\ clone.chain = jobs[id].chain /\ clone.step = jobs[id].step
      /\ clone.queueJobID = jobs[id].queueJobID /\ clone.forced = jobs[id].forced
  BY <1>1, <1>2 DEF RetryClone, Row, Statuses
<1>4. CloneAndSave(id, clone, "failed_done")
  BY DEF FailAndRetry
<1>5. QED
  BY <1>1, <1>3, <1>4

LEMMA RenewDeadJobClones ==
  ASSUME IInv, NEW o \in Operators, RenewDeadJob(o)
  PROVE  \E id \in JobIds, clone \in Row :
           /\ Exists(id)
           /\ jobs[id].status \in {"in_process", "failed"}
           /\ clone.status = "pending"
           /\ clone.chain = jobs[id].chain
           /\ clone.step = jobs[id].step
           /\ clone.queueJobID = jobs[id].queueJobID
           /\ clone.forced = jobs[id].forced
           /\ CloneAndSave(id, clone, "failed_done")
<1> DEFINE id == opHeld[o]
           clone == RenewedClone(id)
<1>1. /\ id \in JobIds /\ Exists(id) /\ jobs[id].status = "failed" /\ jobs[id] \in Row
  BY DEF IInv, OperatorsInStep, RenewDeadJob, TypeOK, Exists, NoRow
<1>2. 0 \in 0..MaxRetries
  BY RunnersAssumption
<1>3. /\ clone \in Row /\ clone.status = "pending"
      /\ clone.chain = jobs[id].chain /\ clone.step = jobs[id].step
      /\ clone.queueJobID = jobs[id].queueJobID /\ clone.forced = jobs[id].forced
  BY <1>1, <1>2 DEF RenewedClone, Row, Statuses
<1>4. CloneAndSave(id, clone, "failed_done")
  BY DEF RenewDeadJob
<1>5. QED
  BY <1>1, <1>3, <1>4

(* A forced rerun adds a row that is no pipeline's own.                    *)
LEMMA ForcedRow ==
  ASSUME IInv, NEW id \in JobIds, ForceRerun(id)
  PROVE  /\ \A x \in JobIds : Exists(x) => jobs'[x] = jobs[x]
         /\ \A x \in JobIds : Own(x)' <=> Own(x)
<1> DEFINE n == lastId + 1
<1>1. /\ jobs[id] \in Row /\ ~Exists(n) /\ n \in JobIds
      /\ jobs' = [jobs EXCEPT ![n] = ForcedClone(id)]
  BY RunnersAssumption DEF IInv, ForceRerun, TypeOK, Exists, NoRow, JobIds
<1>2. ForcedClone(id).forced
  BY <1>1 DEF ForcedClone, Row
<1> HIDE DEF n
<1>3. \A x \in JobIds : x # n => jobs'[x] = jobs[x]
  BY <1>1 DEF IInv, TypeOK
<1>4. jobs'[n].forced
  BY <1>1, <1>2 DEF IInv, TypeOK
<1>5. QED
  BY <1>1, <1>3, <1>4 DEF Own, Exists

(* Steps that leave the table alone                                        *)
LEMMA KeptUnchanged ==
  ASSUME jobs' = jobs
  PROVE  /\ \A x \in JobIds : Exists(x) => Kept(x)
         /\ \A x \in JobIds : Exists(x)' => Exists(x)
BY DEF Kept, Exists

LEMMA Evolution ==
  ASSUME DisjointWatches, OneOperator, IInv, [Next]_vars
  PROVE  /\ \A x \in JobIds : Exists(x) => Kept(x)
         /\ \A x \in JobIds : Own(x)' /\ ~Exists(x) => NewRow(x)
<1> USE DEF Own
<1>1. ASSUME NEW c \in Chains, QueueSerial(c)
      PROVE  /\ \A x \in JobIds : Exists(x) => Kept(x)
             /\ \A x \in JobIds : Own(x)' /\ ~Exists(x) => NewRow(x)
  <2>1. \A x \in JobIds : Exists(x) => jobs'[x] = jobs[x]
    BY <1>1 DEF QueueSerial, IInv, TypeOK, JobIds
  <2>2. ASSUME NEW x \in JobIds, Exists(x)', ~Exists(x)
        PROVE  jobs'[x].chain = c
    <3>1. jobs'[x] = SerialRow(c, lastId + NumSteps(c) + 1 - x)
      BY <1>1, <2>2 DEF QueueSerial, Exists
    <3>2. QED
      BY <3>1 DEF SerialRow
  <2>3. QED
    BY <1>1, <2>1, <2>2 DEF Kept, Exists, NewRow
<1>2. ASSUME NEW id \in JobIds, BackoffElapses(id)
      PROVE  /\ \A x \in JobIds : Exists(x) => Kept(x)
             /\ \A x \in JobIds : Exists(x)' => Exists(x)
  <2>1. jobs[id] \in Row /\ jobs' = [jobs EXCEPT ![id].due = TRUE]
    BY <1>2 DEF BackoffElapses, IInv, TypeOK, Exists, NoRow
  <2>2. \A x \in JobIds : /\ jobs'[x].status = jobs[x].status
                          /\ x # id => jobs'[x] = jobs[x]
    BY <2>1 DEF IInv, TypeOK, Row
  <2>3. /\ jobs'[id].chain = jobs[id].chain
        /\ jobs'[id].step = jobs[id].step
        /\ jobs'[id].queueJobID = jobs[id].queueJobID
        /\ jobs'[id].forced = jobs[id].forced
    BY <2>1 DEF IInv, TypeOK, Row
  <2>4. QED
    BY <2>2, <2>3 DEF Kept, Exists
<1>3. ASSUME NEW r \in Runners, PopUpdate(r) \/ HandleSuccess(r) \/ HandleFailure(r)
      PROVE  /\ \A x \in JobIds : Exists(x) => Kept(x)
             /\ \A x \in JobIds : Exists(x)' => Exists(x)
  <2>1. /\ held[r] \in JobIds /\ Exists(held[r])
        /\ jobs[held[r]].status \in {"pending", "in_process"}
    BY <1>3 DEF IInv, RunnersInStep, HeldStatus, PopUpdate, HandleSuccess, HandleFailure, At
  <2>2. PICK s \in Statuses \ {"on_hold"} : jobs' = Save(held[r], s)
    BY <1>3 DEF PopUpdate, HandleSuccess, HandleFailure, Statuses
  <2>3. QED
    BY <2>1, <2>2, KeptBySave
<1>4. ASSUME NEW r \in Runners, QueueNextJob(r)
      PROVE  /\ \A x \in JobIds : Exists(x) => Kept(x)
             /\ \A x \in JobIds : Exists(x)' => Exists(x)
  <2>1. CASE jobs[held[r]].queueJobID = 0
    BY <1>4, <2>1, KeptUnchanged DEF QueueNextJob
  <2>2. CASE jobs[held[r]].queueJobID # 0
    <3>1. PICK q \in JobIds : /\ q = jobs[held[r]].queueJobID
                              /\ Own(q) /\ jobs[q].status = "on_hold"
      BY <1>4, <2>2, HandedOn DEF QueueNextJob, HandingOn
    <3>2. jobs' = Save(q, "pending")
      BY <1>4, <2>2, <3>1 DEF QueueNextJob
    <3>3. QED
      BY <3>1, <3>2, KeptBySave DEF Statuses
  <2>3. QED
    BY <2>1, <2>2
<1>5. ASSUME NEW r \in Runners, FailAndRetry(r)
      PROVE  /\ \A x \in JobIds : Exists(x) => Kept(x)
             /\ \A x \in JobIds : Own(x)' /\ ~Exists(x) => NewRow(x)
  BY <1>5, FailAndRetryClones, KeptByClone
<1>6. ASSUME NEW o \in Operators, RenewDeadJob(o)
      PROVE  /\ \A x \in JobIds : Exists(x) => Kept(x)
             /\ \A x \in JobIds : Own(x)' /\ ~Exists(x) => NewRow(x)
  BY <1>6, RenewDeadJobClones, KeptByClone
<1>7. ASSUME NEW id \in JobIds, ResetCanceledJob(id)
      PROVE  /\ \A x \in JobIds : Exists(x) => Kept(x)
             /\ \A x \in JobIds : Exists(x)' => Exists(x)
  <2>1. Exists(id) /\ jobs[id].status = "in_process" /\ jobs' = Save(id, "pending")
    BY <1>7 DEF ResetCanceledJob, Exists
  <2>2. QED
    BY <2>1, KeptBySave DEF Statuses
<1>8. ASSUME NEW id \in JobIds, ForceRerun(id)
      PROVE  /\ \A x \in JobIds : Exists(x) => Kept(x)
             /\ \A x \in JobIds : Own(x)' => Exists(x)
  BY <1>8, ForcedRow DEF Kept, Exists
<1>9. CASE jobs' = jobs
  BY <1>9, KeptUnchanged
<1>10. QED
  BY <1>1, <1>2, <1>3, <1>4, <1>5, <1>6, <1>7, <1>8, <1>9
     DEF Next, RunnerStep, vars, PopSelect, ProcessSucceeds, ProcessFails,
         DatabaseError, Crash, Stop, Restart, RequeueLoad

----------------------------------------------------------------------------
(* What has not been reached yet: a row on hold is later in its pipeline   *)
(* than any that was released, the only one of its step, and its step was  *)
(* never carried out.  The refinement needs it, since there a pipeline     *)
(* that moves on comes to a job not yet done.                              *)
Untouched ==
  /\ \A a, b \in JobIds :
       Own(a) /\ Own(b) /\ a # b /\ jobs[a].chain = jobs[b].chain /\ jobs[a].status = "on_hold" =>
         IF jobs[b].status = "on_hold" THEN jobs[b].step # jobs[a].step
                                       ELSE jobs[b].step < jobs[a].step
  /\ \A a \in JobIds :
       Own(a) /\ jobs[a].status = "on_hold" => jobs[a].step \notin ran[jobs[a].chain]
  /\ \A c \in Chains : ran[c] # {} => Queued(c)

(* A row that names no other is its pipeline's last, unless it was forced.  *)
LastUnlinked ==
  \A id \in JobIds : Own(id) /\ jobs[id].queueJobID = 0 =>
    jobs[id].step = NumSteps(jobs[id].chain)

(* The rows of a pipeline that was just queued                             *)
LEMMA QueuedRows ==
  ASSUME IInv, NEW c \in Chains, QueueSerial(c)
  PROVE  /\ \A x \in JobIds : Exists(x) => jobs'[x] = jobs[x] /\ jobs[x].chain # c
         /\ \E first \in JobIds : Live(first)' /\ jobs'[first].chain = c /\ jobs'[first].step = 1
         /\ \A x \in JobIds : Exists(x)' /\ ~Exists(x) =>
              /\ jobs'[x].chain = c
              /\ jobs'[x].step = lastId + NumSteps(c) + 1 - x
              /\ jobs'[x].step \in 1..NumSteps(c)
              /\ jobs'[x].status = IF jobs'[x].step = 1 THEN "pending" ELSE "on_hold"
              /\ jobs'[x].queueJobID = 0 => jobs'[x].step = NumSteps(c)
<1> DEFINE len == NumSteps(c)
<1>1. /\ lastId \in Nat /\ len \in Nat \ {0} /\ lastId + len \in JobIds
      /\ \A x \in JobIds : Exists(x) <=> x <= lastId
  BY ChainsAssumption, RunnersAssumption DEF IInv, QueueSerial, TypeOK, JobIds, NumSteps
<1>2. \A x \in JobIds : Exists(x) => jobs'[x] = jobs[x] /\ jobs[x].chain # c
  BY <1>1 DEF QueueSerial, Queued, JobIds
<1>3. \A x \in JobIds : x \in lastId + 1 .. lastId + len => jobs'[x] = SerialRow(c, lastId + len + 1 - x)
  BY DEF QueueSerial
<1>4. ASSUME NEW x \in JobIds, x \in lastId + 1 .. lastId + len,
             NEW i, i = lastId + len + 1 - x
      PROVE  /\ jobs'[x].chain = c /\ jobs'[x].step = i /\ i \in 1..len /\ ~jobs'[x].forced
             /\ jobs'[x].status = IF i = 1 THEN "pending" ELSE "on_hold"
             /\ jobs'[x].queueJobID = 0 => i = len
  <2>1. i \in 1..len /\ jobs'[x] = SerialRow(c, i)
    BY <1>1, <1>3, <1>4 DEF JobIds
  <2>2. /\ SerialRow(c, i).chain = c
        /\ SerialRow(c, i).step = i
        /\ ~SerialRow(c, i).forced
        /\ SerialRow(c, i).status = (IF i = 1 THEN "pending" ELSE "on_hold")
        /\ SerialRow(c, i).queueJobID = (IF i = len THEN 0 ELSE lastId + len - i)
    BY DEF SerialRow
  <2>3. i # len => lastId + len - i # 0
    <3>1. len \in Nat /\ i \in 1..len /\ lastId \in Nat
      BY <1>1, <2>1
    <3> HIDE DEF len
    <3>2. QED
      BY <3>1
  <2>4. QED
    BY <2>1, <2>2, <2>3
<1>5. \A x \in JobIds : Exists(x)' /\ ~Exists(x) => x \in lastId + 1 .. lastId + len
  BY <1>1 DEF QueueSerial, Exists, JobIds
<1>6. ASSUME NEW x \in JobIds, Exists(x)', ~Exists(x)
      PROVE  /\ jobs'[x].chain = c
             /\ jobs'[x].step = lastId + len + 1 - x
             /\ jobs'[x].step \in 1..len
             /\ jobs'[x].status = IF jobs'[x].step = 1 THEN "pending" ELSE "on_hold"
             /\ jobs'[x].queueJobID = 0 => jobs'[x].step = len
  BY <1>4, <1>5, <1>6
<1>7. \E first \in JobIds : Live(first)' /\ jobs'[first].chain = c /\ jobs'[first].step = 1
  <2>1. PICK first \in JobIds : first = lastId + len
    BY <1>1
  <2>2. first \in lastId + 1 .. lastId + len /\ lastId + len + 1 - first = 1
    BY <1>1, <2>1
  <2>3. /\ jobs'[first].chain = c /\ jobs'[first].step = 1 /\ ~jobs'[first].forced
        /\ jobs'[first].status = "pending"
    BY <1>4, <2>2
  <2>4. QED
    BY <2>3 DEF Live, Own, Exists
<1>8. QED
  BY <1>2, <1>6, <1>7

(* Which rows leave on_hold, and which step is carried out                 *)
LEMMA Reached ==
  ASSUME DisjointWatches, OneOperator, IInv, [Next]_vars
  PROVE  /\ \A x \in JobIds : Own(x) /\ jobs[x].status = "on_hold" /\ jobs'[x].status # "on_hold" =>
              \E r \in Runners : QueueNextJob(r) /\ HandingOn(r) /\ x = jobs[held[r]].queueJobID
         /\ ran' # ran => \E r \in Runners :
              ProcessSucceeds(r) /\ Own(held[r])
                /\ ran' = [ran EXCEPT ![jobs[held[r]].chain] = @ \cup {jobs[held[r]].step}]
<1>1. ASSUME NEW x \in JobIds, Own(x), jobs[x].status = "on_hold", jobs'[x].status # "on_hold"
      PROVE  \E r \in Runners : QueueNextJob(r) /\ HandingOn(r) /\ x = jobs[held[r]].queueJobID
  <2>1. ASSUME NEW c \in Chains, QueueSerial(c)
        PROVE  FALSE
    BY <1>1, <2>1, QueuedRows DEF Own
  <2>2. ASSUME NEW id \in JobIds, BackoffElapses(id)
        PROVE  FALSE
    BY <1>1, <2>2 DEF BackoffElapses, IInv, TypeOK, Row, NoRow, Exists
  <2>3. ASSUME NEW r \in Runners, PopUpdate(r) \/ HandleSuccess(r) \/ HandleFailure(r)
        PROVE  FALSE
    <3>1. /\ held[r] \in JobIds /\ jobs[held[r]].status # "on_hold"
      BY <2>3 DEF IInv, RunnersInStep, HeldStatus, PopUpdate, HandleSuccess, HandleFailure, At
    <3>2. \E s \in Statuses : jobs' = Save(held[r], s)
      BY <2>3 DEF PopUpdate, HandleSuccess, HandleFailure, Statuses
    <3>3. QED
      BY <1>1, <3>1, <3>2 DEF IInv, TypeOK, Save
  <2>4. ASSUME NEW r \in Runners, QueueNextJob(r)
        PROVE  HandingOn(r) /\ x = jobs[held[r]].queueJobID
    BY <1>1, <2>4 DEF QueueNextJob, HandingOn, IInv, TypeOK, Save
  <2>5. ASSUME NEW r \in Runners, FailAndRetry(r)
        PROVE  FALSE
    BY <1>1, <2>5, FailAndRetryClones, KeptByClone DEF Own
  <2>6. ASSUME NEW o \in Operators, RenewDeadJob(o)
        PROVE  FALSE
    BY <1>1, <2>6, RenewDeadJobClones, KeptByClone DEF Own
  <2>7. ASSUME NEW id \in JobIds, ResetCanceledJob(id)
        PROVE  FALSE
    BY <1>1, <2>7 DEF ResetCanceledJob, IInv, TypeOK, Save
  <2>8. ASSUME NEW id \in JobIds, ForceRerun(id)
        PROVE  FALSE
    BY <1>1, <2>8, ForcedRow DEF Own
  <2>9. CASE jobs' = jobs
    BY <1>1, <2>9
  <2>10. QED
    BY <2>1, <2>2, <2>3, <2>4, <2>5, <2>6, <2>7, <2>8, <2>9
       DEF Next, RunnerStep, vars, PopSelect, ProcessSucceeds, ProcessFails,
           DatabaseError, Crash, Stop, Restart, RequeueLoad
<1>2. ASSUME ran' # ran
      PROVE  \E r \in Runners :
               ProcessSucceeds(r) /\ Own(held[r])
                 /\ ran' = [ran EXCEPT ![jobs[held[r]].chain] = @ \cup {jobs[held[r]].step}]
  <2>1. PICK r \in Runners : ProcessSucceeds(r)
    BY <1>2 DEF Next, RunnerStep, vars, QueueSerial, BackoffElapses, PopSelect, PopUpdate,
                ProcessFails, HandleSuccess, QueueNextJob, FailAndRetry, HandleFailure,
                DatabaseError, Crash, Stop, Restart, RenewDeadJob, RequeueLoad,
                ResetCanceledJob, ForceRerun
  <2>2. Exists(held[r])
    BY <2>1 DEF ProcessSucceeds, At, IInv, RunnersInStep
  <2>3. QED
    BY <1>2, <2>1, <2>2 DEF ProcessSucceeds, Own
<1>3. QED
  BY <1>1, <1>2

(* A row the step adds, unless it queues a pipeline, stands where a live row
   stood; any other of a pipeline's own rows stands where it stood.        *)
LEMMA StoodBefore ==
  ASSUME DisjointWatches, OneOperator, IInv, [Next]_vars,
         ~\E c \in Chains : QueueSerial(c),
         NEW x \in JobIds, Own(x)'
  PROVE  \E y \in JobIds : /\ Own(y)
                           /\ jobs'[x].chain = jobs[y].chain
                           /\ jobs'[x].step = jobs[y].step
                           /\ jobs'[x].queueJobID = jobs[y].queueJobID
                           /\ x = y \/ (Live(y) /\ jobs'[x].status = "pending")
<1>1. CASE Exists(x)
  <2>1. Kept(x)
    BY <1>1, Evolution
  <2>2. Own(x)
    BY <1>1, <2>1 DEF Own, Kept
  <2>3. QED
    BY <2>1, <2>2 DEF Kept
<1>2. CASE ~Exists(x)
  <2>1. NewRow(x)
    BY <1>2, Evolution
  <2>2. QED
    BY <2>1 DEF NewRow, Live
<1>3. QED
  BY <1>1, <1>2

LEMMA UntouchedStep ==
  ASSUME DisjointWatches, OneOperator, IInv, Untouched, [Next]_vars
  PROVE  Untouched'
<1>1. /\ \A x \in JobIds : Own(x) => jobs[x].step \in Int /\ jobs[x].chain \in Chains
      /\ ran \in [Chains -> SUBSET Steps]
  BY DEF IInv, Linked, Own, TypeOK, Exists, Row, NoRow
<1>2. \A x \in JobIds : Exists(x) => Kept(x)
  BY Evolution
<1>3. ASSUME NEW c \in Chains, QueueSerial(c)
      PROVE  Untouched'
  <2>1. /\ \A x \in JobIds : Exists(x) => jobs'[x] = jobs[x] /\ jobs[x].chain # c
        /\ \A x \in JobIds : Exists(x)' /\ ~Exists(x) =>
              /\ jobs'[x].chain = c
              /\ jobs'[x].step = lastId + NumSteps(c) + 1 - x
              /\ jobs'[x].step \in 1..NumSteps(c)
              /\ jobs'[x].status = IF jobs'[x].step = 1 THEN "pending" ELSE "on_hold"
    BY <1>3, QueuedRows
  <2>2. ran' = ran /\ ran[c] = {}
    BY <1>3 DEF QueueSerial, Untouched
  <2>3. lastId \in Int /\ NumSteps(c) \in Nat /\ JobIds \subseteq Int
    BY ChainsAssumption, RunnersAssumption DEF IInv, TypeOK, NumSteps, JobIds
  <2>4. ASSUME NEW a \in JobIds, NEW b \in JobIds, Own(a)', Own(b)', a # b,
               jobs'[a].chain = jobs'[b].chain, jobs'[a].status = "on_hold"
        PROVE  IF jobs'[b].status = "on_hold" THEN jobs'[b].step # jobs'[a].step
                                              ELSE jobs'[b].step < jobs'[a].step
    <3>1. CASE Exists(a)
      <4>1. Exists(b)
        BY <2>1, <2>4, <3>1 DEF Own
      <4>2. QED
        BY <2>1, <2>4, <3>1, <4>1 DEF Own, Untouched
    <3>2. CASE ~Exists(a)
      <4>1. ~Exists(b)
        BY <2>1, <2>4, <3>2 DEF Own
      <4>2. /\ jobs'[a].step = lastId + NumSteps(c) + 1 - a
            /\ jobs'[b].step = lastId + NumSteps(c) + 1 - b
            /\ jobs'[a].step \in 1..NumSteps(c) /\ jobs'[a].step # 1
            /\ jobs'[b].status = IF jobs'[b].step = 1 THEN "pending" ELSE "on_hold"
        BY <2>1, <2>4, <3>2, <4>1 DEF Own
      <4>3. jobs'[b].step # jobs'[a].step
        <5>1. a \in Int /\ b \in Int
          BY <2>3
        <5>2. QED
          BY <2>3, <2>4, <4>2, <5>1
      <4>4. QED
        BY <2>3, <4>2, <4>3
    <3>3. QED
      BY <3>1, <3>2
  <2>5. \A a \in JobIds : Own(a)' /\ jobs'[a].status = "on_hold" =>
          jobs'[a].step \notin ran'[jobs'[a].chain]
    BY <2>1, <2>2 DEF Own, Untouched
  <2>6. \A d \in Chains : ran'[d] # {} => Queued(d)'
    BY <2>1, <2>2, <1>2 DEF Untouched, Queued, Kept
  <2>7. QED
    BY <2>4, <2>5, <2>6 DEF Untouched
<1>4. ASSUME ~\E c \in Chains : QueueSerial(c)
      PROVE  Untouched'
  <2>1. ASSUME NEW a \in JobIds, Own(a)', jobs'[a].status = "on_hold"
        PROVE  /\ Own(a) /\ jobs[a].status = "on_hold"
               /\ jobs'[a].chain = jobs[a].chain /\ jobs'[a].step = jobs[a].step
    <3>1. /\ Own(a) /\ jobs'[a].chain = jobs[a].chain /\ jobs'[a].step = jobs[a].step
      BY <1>4, <2>1, StoodBefore
    <3>2. Kept(a)
      BY <1>2, <3>1 DEF Own
    <3>3. QED
      BY <2>1, <3>1, <3>2 DEF Kept
  <2>2. ASSUME NEW a \in JobIds, NEW b \in JobIds, Own(a)', Own(b)', a # b,
               jobs'[a].chain = jobs'[b].chain, jobs'[a].status = "on_hold"
        PROVE  IF jobs'[b].status = "on_hold" THEN jobs'[b].step # jobs'[a].step
                                              ELSE jobs'[b].step < jobs'[a].step
    <3>1. PICK y \in JobIds : /\ Own(y)
                              /\ jobs'[b].chain = jobs[y].chain
                              /\ jobs'[b].step = jobs[y].step
                              /\ b = y \/ (Live(y) /\ jobs'[b].status = "pending")
      BY <1>4, <2>2, StoodBefore
    <3>2. /\ Own(a) /\ jobs[a].status = "on_hold"
          /\ jobs'[a].chain = jobs[a].chain /\ jobs'[a].step = jobs[a].step
      BY <2>1, <2>2
    <3>3. y # a /\ jobs[y].chain = jobs[a].chain
      BY <2>2, <3>1, <3>2 DEF Live
    <3>4. CASE jobs[y].status # "on_hold"
      <4>1. jobs[y].step < jobs[a].step
        BY <3>1, <3>2, <3>3, <3>4 DEF Untouched
      <4>2. jobs[y].step # jobs[a].step
        BY <1>1, <3>1, <3>2, <4>1
      <4>3. QED
        BY <3>1, <3>2, <4>1, <4>2
    <3>5. CASE jobs[y].status = "on_hold" /\ jobs'[b].status = "on_hold"
      BY <3>1, <3>2, <3>3, <3>5 DEF Untouched
    <3>6. CASE jobs[y].status = "on_hold" /\ jobs'[b].status # "on_hold"
      <4>1. y = b
        BY <3>1, <3>6 DEF Live
      <4>2. PICK r \in Runners : HandingOn(r) /\ b = jobs[held[r]].queueJobID
        BY <3>1, <3>6, <4>1, Reached
      <4>3. PICK h \in JobIds : /\ Own(h) /\ jobs[h].status = "success"
                                /\ jobs[b].chain = jobs[h].chain
                                /\ jobs[b].step = jobs[h].step + 1
        BY <4>2, HandedOn
      <4>4. jobs[h].step < jobs[a].step
        BY <3>2, <3>3, <4>1, <4>3 DEF Untouched
      <4>5. jobs[b].step # jobs[a].step
        BY <3>1, <3>2, <3>3, <3>6, <4>1 DEF Untouched
      <4>6. jobs[h].step \in Int /\ jobs[a].step \in Int /\ jobs[b].step \in Int
        BY <1>1, <3>1, <3>2, <4>1, <4>3
      <4>7. QED
        BY <3>1, <3>2, <3>6, <4>1, <4>3, <4>4, <4>5, <4>6
    <3>7. QED
      BY <3>4, <3>5, <3>6
  <2>3. ASSUME ran' # ran
        PROVE  \E h \in JobIds : /\ Own(h) /\ jobs[h].status = "in_process"
                                 /\ ran' = [ran EXCEPT ![jobs[h].chain] = @ \cup {jobs[h].step}]
    <3>1. PICK r \in Runners :
            ProcessSucceeds(r) /\ Own(held[r])
              /\ ran' = [ran EXCEPT ![jobs[held[r]].chain] = @ \cup {jobs[held[r]].step}]
      BY <2>3, Reached
    <3>2. held[r] \in JobIds /\ jobs[held[r]].status = "in_process"
      BY <3>1 DEF ProcessSucceeds, At, IInv, RunnersInStep, HeldStatus
    <3>3. QED
      BY <3>1, <3>2
  <2>4. ASSUME NEW a \in JobIds, Own(a)', jobs'[a].status = "on_hold"
        PROVE  jobs'[a].step \notin ran'[jobs'[a].chain]
    <3>1. /\ Own(a) /\ jobs[a].status = "on_hold"
          /\ jobs'[a].chain = jobs[a].chain /\ jobs'[a].step = jobs[a].step
      BY <2>1, <2>4
    <3>2. jobs[a].step \notin ran[jobs[a].chain]
      BY <3>1 DEF Untouched
    <3>3. CASE ran' = ran
      BY <3>1, <3>2, <3>3
    <3>4. CASE ran' # ran
      <4>1. PICK h \in JobIds : /\ Own(h) /\ jobs[h].status = "in_process"
                                /\ ran' = [ran EXCEPT ![jobs[h].chain] = @ \cup {jobs[h].step}]
        BY <2>3, <3>4
      <4>2. jobs[h].chain = jobs[a].chain => jobs[h].step < jobs[a].step
        BY <3>1, <4>1 DEF Untouched
      <4>3. jobs[h].chain = jobs[a].chain => jobs[h].step # jobs[a].step
        BY <1>1, <3>1, <4>1, <4>2
      <4>4. QED
        BY <1>1, <3>1, <3>2, <4>1, <4>3
    <3>5. QED
      BY <3>3, <3>4
  <2>5. ASSUME NEW c \in Chains, ran'[c] # {}
        PROVE  Queued(c)'
    <3>1. Queued(c)
      <4>1. CASE ran' = ran
        BY <2>5, <4>1 DEF Untouched
      <4>2. CASE ran' # ran
        <5>1. PICK h \in JobIds : Own(h) /\ ran' = [ran EXCEPT ![jobs[h].chain] = @ \cup {jobs[h].step}]
          BY <2>3, <4>2
        <5>2. QED
          BY <1>1, <2>5, <5>1 DEF Untouched, Queued, Own
      <4>3. QED
        BY <4>1, <4>2
    <3>2. QED
      BY <1>2, <3>1 DEF Queued, Kept
  <2>6. QED
    BY <2>2, <2>4, <2>5 DEF Untouched
<1>5. QED
  BY <1>3, <1>4

LEMMA LastUnlinkedStep ==
  ASSUME DisjointWatches, OneOperator, IInv, LastUnlinked, [Next]_vars
  PROVE  LastUnlinked'
<1> SUFFICES ASSUME NEW x \in JobIds, Own(x)', jobs'[x].queueJobID = 0
             PROVE  jobs'[x].step = NumSteps(jobs'[x].chain)
  BY DEF LastUnlinked, NumSteps
<1>1. ASSUME NEW c \in Chains, QueueSerial(c)
      PROVE  jobs'[x].step = NumSteps(jobs'[x].chain)
  <2>1. /\ Exists(x) => jobs'[x] = jobs[x]
        /\ Exists(x)' /\ ~Exists(x) => jobs'[x].chain = c /\ jobs'[x].step = NumSteps(c)
    BY <1>1, QueuedRows
  <2>2. QED
    BY <2>1 DEF LastUnlinked, Own
<1>2. CASE ~\E c \in Chains : QueueSerial(c)
  BY <1>2, StoodBefore DEF LastUnlinked
<1>3. QED
  BY <1>1, <1>2

----------------------------------------------------------------------------
(* The refinement: how each step looks to SerialPipeline                   *)

SInv == IInv /\ Untouched

Runs(r, c) == pc[r] = "running" /\ Own(held[r]) /\ jobs[held[r]].chain = c
DoneNow(c) == Current(c) \in ran[c]

(* The steps that show: a pipeline is queued, or released the next job of   *)
Queues(c) == QueueSerial(c)
MovesOn(c) == \E r \in Runners : /\ QueueNextJob(r) /\ HandingOn(r)
                                 /\ jobs[held[r]].chain = c

(* The steps released are those of the pipeline's own rows that left on_hold. *)
LEMMA ReleasedRows ==
  ASSUME TypeOK, NEW c
  PROVE  \A s : s \in Released(c) <=>
           \E x \in JobIds : /\ Own(x) /\ jobs[x].chain = c /\ jobs[x].status # "on_hold"
                             /\ s = jobs[x].step
<1>1. \A x : x \in 1..lastId => x \in JobIds
  BY RunnersAssumption DEF TypeOK, JobIds
<1>2. \A x \in JobIds : Own(x) => x \in 1..lastId
  BY RunnersAssumption DEF TypeOK, JobIds, Own
<1>3. QED
  BY <1>1, <1>2 DEF Released

LEMMA ReleasedRowsNext ==
  ASSUME TypeOK', NEW c
  PROVE  \A s : s \in Released(c)' <=>
           \E x \in JobIds : /\ Own(x)' /\ jobs'[x].chain = c /\ jobs'[x].status # "on_hold"
                             /\ s = jobs'[x].step
<1>1. \A x : x \in 1..lastId' => x \in JobIds
  BY RunnersAssumption DEF TypeOK, JobIds
<1>2. \A x \in JobIds : Own(x)' => x \in 1..lastId'
  BY RunnersAssumption DEF TypeOK, JobIds, Own
<1>3. QED
  BY <1>1, <1>2 DEF Released

(* The current job is the last of those released.                          *)
LEMMA CurrentIsLast ==
  ASSUME NEW c, NEW s \in Int, s \in Released(c),
         \A k \in Released(c) : k \in Int /\ k <= s
  PROVE  Current(c) = s
<1>1. \A i \in Released(c) : (\A k \in Released(c) : k <= i) => i = s
  OBVIOUS
<1>2. Released(c) # {}
  OBVIOUS
<1> DEFINE Last(i) == i \in Released(c) /\ \A k \in Released(c) : k <= i
<1>3. Last(s) /\ \A i : Last(i) => i = s
  BY <1>1
<1> HIDE DEF Last
<1>4. (CHOOSE i : Last(i)) = s
  BY <1>3
<1>5. (CHOOSE i \in Released(c) : \A k \in Released(c) : k <= i) = s
  BY <1>4 DEF Last
<1>6. QED
  BY <1>2, <1>5 DEF Current

LEMMA CurrentIsLastNext ==
  ASSUME NEW c, NEW s \in Int, s \in Released(c)',
         \A k \in Released(c)' : k \in Int /\ k <= s
  PROVE  Current(c)' = s
<1>1. \A i \in Released(c)' : (\A k \in Released(c)' : k <= i) => i = s
  OBVIOUS
<1>2. Released(c)' # {}
  OBVIOUS
<1> DEFINE Last(i) == i \in Released(c)' /\ \A k \in Released(c)' : k <= i
<1>3. Last(s) /\ \A i : Last(i) => i = s
  BY <1>1
<1> HIDE DEF Last
<1>4. (CHOOSE i : Last(i)) = s
  BY <1>3
<1>5. (CHOOSE i \in Released(c)' : \A k \in Released(c)' : k <= i) = s
  BY <1>4 DEF Last
<1>6. QED
  BY <1>2, <1>5 DEF Current

(* A live row, or one just carried out, is its pipeline's current job.     *)
LEMMA CurrentIsHeld ==
  ASSUME IInv, NEW h \in JobIds, Own(h), jobs[h].status # "on_hold",
         NEW c, c = jobs[h].chain,
         \A b \in JobIds : Own(b) /\ jobs[b].chain = c /\ jobs[b].step > jobs[h].step =>
           jobs[b].status = "on_hold"
  PROVE  Current(c) = jobs[h].step
<1>1. \A x \in JobIds : Own(x) => jobs[x].step \in Int
  BY DEF IInv, Linked, Own
<1>2. TypeOK
  BY DEF IInv
<1>3. jobs[h].step \in Released(c)
  BY <1>2, ReleasedRows
<1>4. \A k \in Released(c) : k \in Int /\ k <= jobs[h].step
  BY <1>1, <1>2, ReleasedRows
<1>5. QED
  BY <1>1, <1>3, <1>4, CurrentIsLast

(* Nothing changes the steps released, except these two.                   *)
LEMMA ReleasedSame ==
  ASSUME DisjointWatches, OneOperator, IInv, [Next]_vars, NEW c \in Chains,
         ~Queues(c), ~MovesOn(c)
  PROVE  Released(c)' = Released(c)
<1>1. TypeOK /\ TypeOK'
  BY NextIInv DEF IInv
<1>2. \A x \in JobIds : Exists(x) => Kept(x)
  BY Evolution
<1>3. ASSUME NEW x \in JobIds, Own(x), jobs[x].chain = c, jobs[x].status # "on_hold"
      PROVE  /\ Own(x)' /\ jobs'[x].chain = c /\ jobs'[x].status # "on_hold"
             /\ jobs'[x].step = jobs[x].step
  BY <1>2, <1>3 DEF Kept, Own
<1>4. ASSUME NEW x \in JobIds, Own(x)', jobs'[x].chain = c, jobs'[x].status # "on_hold"
      PROVE  \E y \in JobIds : /\ Own(y) /\ jobs[y].chain = c /\ jobs[y].status # "on_hold"
                               /\ jobs'[x].step = jobs[y].step
  <2>1. ASSUME NEW d \in Chains, QueueSerial(d)
        PROVE  Own(x) /\ jobs'[x] = jobs[x]
    <3>1. d # c
      BY <2>1 DEF Queues
    <3>2. /\ Exists(x) => jobs'[x] = jobs[x]
          /\ Exists(x)' /\ ~Exists(x) => jobs'[x].chain = d
      BY <2>1, QueuedRows
    <3>3. QED
      BY <1>4, <3>1, <3>2 DEF Own
  <2>2. CASE ~\E d \in Chains : QueueSerial(d)
    <3>1. PICK y \in JobIds : /\ Own(y)
                              /\ jobs'[x].chain = jobs[y].chain
                              /\ jobs'[x].step = jobs[y].step
                              /\ x = y \/ Live(y)
      BY <1>4, <2>2, StoodBefore
    <3>2. jobs[y].status # "on_hold"
      <4>1. CASE Live(y)
        BY <4>1 DEF Live
      <4>2. CASE x = y /\ jobs[y].status = "on_hold"
        <5>1. PICK r \in Runners : QueueNextJob(r) /\ HandingOn(r) /\ x = jobs[held[r]].queueJobID
          BY <1>4, <3>1, <4>2, Reached
        <5>2. jobs[x].chain = jobs[held[r]].chain
          BY <5>1, HandedOn
        <5>3. QED
          BY <1>4, <3>1, <4>2, <5>1, <5>2 DEF MovesOn
      <4>3. QED
        BY <3>1, <4>1, <4>2
    <3>3. QED
      BY <1>4, <3>1, <3>2
  <2>3. QED
    BY <1>4, <2>1, <2>2
<1>5. \A s : s \in Released(c)' <=> s \in Released(c)
  BY <1>1, <1>3, <1>4, ReleasedRows, ReleasedRowsNext
<1>6. QED
  BY <1>5

LEMMA CurrentSame ==
  ASSUME DisjointWatches, OneOperator, IInv, [Next]_vars, NEW c \in Chains, ~MovesOn(c)
  PROVE  Current(c)' = Current(c)
<1>1. CASE ~Queues(c)
  <2> DEFINE Last(S) == IF S = {} THEN 1 ELSE CHOOSE i \in S : \A k \in S : k <= i
  <2>1. Current(c) = Last(Released(c)) /\ Current(c)' = Last(Released(c)')
    BY Zenon DEF Current
  <2>2. Released(c)' = Released(c)
    BY <1>1, ReleasedSame
  <2> HIDE DEF Last
  <2>3. QED
    BY <2>1, <2>2
<1>2. CASE Queues(c)
  <2>1. TypeOK /\ TypeOK'
    BY NextIInv DEF IInv
  <2>2. Released(c) = {}
    BY <1>2, <2>1, ReleasedRows DEF Queues, QueueSerial, Queued, Own
  <2>3. QueueSerial(c)
    BY <1>2 DEF Queues
  <2>4. /\ \A x \in JobIds : Exists(x) => jobs'[x] = jobs[x] /\ jobs[x].chain # c
        /\ \E first \in JobIds : Live(first)' /\ jobs'[first].chain = c /\ jobs'[first].step = 1
        /\ \A x \in JobIds : Exists(x)' /\ ~Exists(x) =>
             jobs'[x].status = IF jobs'[x].step = 1 THEN "pending" ELSE "on_hold"
    BY <2>3, QueuedRows
  <2>5. 1 \in Released(c)'
    BY <2>1, <2>4, ReleasedRowsNext DEF Live
  <2>6. \A k \in Released(c)' : k = 1
    <3>1. SUFFICES ASSUME NEW x \in JobIds, Own(x)', jobs'[x].chain = c,
                          jobs'[x].status # "on_hold"
                   PROVE  jobs'[x].step = 1
      BY <2>1, ReleasedRowsNext
    <3>2. Exists(x)' /\ ~Exists(x)
      BY <2>4, <3>1 DEF Own
    <3>3. QED
      BY <2>4, <3>1, <3>2
  <2>7. Current(c)' = 1
    BY <2>5, <2>6, CurrentIsLastNext
  <2>8. QED
    BY <2>2, <2>7 DEF Current
<1>3. QED
  BY <1>1, <1>2

(* The steps that show in Executing                                        *)
Visible(r) ==
  /\ Own(held[r])
  /\ \/ PopUpdate(r) \/ ProcessSucceeds(r) \/ ProcessFails(r)
     \/ Crash(r) /\ pc[r] = "running"

LEMMA RunningSteps ==
  ASSUME IInv, [Next]_vars, NEW r \in Runners
  PROVE  /\ pc'[r] = "running" =>
              held'[r] = held[r] /\ (pc[r] = "running" \/ PopUpdate(r))
         /\ pc[r] = "running" =>
              pc'[r] = "running" \/ ProcessSucceeds(r) \/ ProcessFails(r) \/ Crash(r)
<1> DEFINE G == /\ pc'[r] = "running" =>
                     held'[r] = held[r] /\ (pc[r] = "running" \/ PopUpdate(r))
                /\ pc[r] = "running" =>
                     pc'[r] = "running" \/ ProcessSucceeds(r) \/ ProcessFails(r) \/ Crash(r)
<1>1. ASSUME NEW s \in Runners, RunnerStep(s) \/ DatabaseError(s) \/ Crash(s)
      PROVE  G
  <2>1. CASE s # r
    <3>1. pc'[r] = pc[r] /\ held'[r] = held[r]
      BY <1>1, <2>1 DEF RunnerStep, PopSelect, PopUpdate, ProcessSucceeds, ProcessFails,
                        HandleSuccess, QueueNextJob, FailAndRetry, HandleFailure,
                        DatabaseError, Crash, At, Idle, Drop, IInv, TypeOK
    <3>2. QED
      BY <3>1
  <2>2. CASE s = r
    <3>1. ASSUME PopUpdate(r)
          PROVE  G
      BY <3>1 DEF PopUpdate, At
    <3>2. ASSUME ProcessSucceeds(r) \/ ProcessFails(r) \/ Crash(r)
          PROVE  pc'[r] # "running"
      BY <3>2 DEF ProcessSucceeds, ProcessFails, Crash, At, Idle, IInv, TypeOK
    <3>3. ASSUME \/ PopSelect(r) \/ HandleSuccess(r) \/ QueueNextJob(r)
                 \/ FailAndRetry(r) \/ HandleFailure(r) \/ DatabaseError(r)
          PROVE  pc[r] # "running" /\ pc'[r] # "running"
      BY <3>3 DEF PopSelect, HandleSuccess, QueueNextJob, FailAndRetry, HandleFailure,
                  DatabaseError, At, Idle, IInv, TypeOK
    <3>4. QED
      BY <1>1, <2>2, <3>1, <3>2, <3>3 DEF RunnerStep
  <2>3. QED
    BY <2>1, <2>2
<1>2. CASE UNCHANGED <<pc, held>>
  BY <1>2
<1>3. QED
  BY <1>1, <1>2 DEF Next, vars, QueueSerial, BackoffElapses, Stop, Restart, RenewDeadJob,
                    RequeueLoad, ResetCanceledJob, ForceRerun

LEMMA RunsSame ==
  ASSUME DisjointWatches, OneOperator, IInv, [Next]_vars, NEW r \in Runners, NEW c \in Chains,
         ~Visible(r)
  PROVE  Runs(r, c)' <=> Runs(r, c)
<1>1. PICK h : h = held[r]
  OBVIOUS
<1>2. pc[r] # "idle" => (Own(h)' <=> Own(h)) /\ jobs'[h].chain = jobs[h].chain
  <2> SUFFICES ASSUME pc[r] # "idle"
               PROVE  (Own(h)' <=> Own(h)) /\ jobs'[h].chain = jobs[h].chain
    OBVIOUS
  <2>1. h \in JobIds /\ Exists(h)
    BY <1>1 DEF IInv, RunnersInStep
  <2>2. Kept(h)
    BY <2>1, Evolution
  <2>3. QED
    BY <2>1, <2>2 DEF Kept, Own
<1>3. PopUpdate(r) => pc[r] # "idle"
  BY DEF PopUpdate, At
<1>4. pc'[r] = "running" => held'[r] = h
  BY <1>1, RunningSteps
<1>5. Runs(r, c)' <=> pc'[r] = "running" /\ Own(h)' /\ jobs'[h].chain = c
  BY <1>4 DEF Runs, Own, Exists
<1>6. Runs(r, c) <=> pc[r] = "running" /\ Own(h) /\ jobs[h].chain = c
  BY <1>1 DEF Runs
<1>7. QED
  BY <1>1, <1>2, <1>3, <1>5, <1>6, RunningSteps DEF Visible

(* A step shows for at most one runner.                                    *)
LEMMA OneVisible ==
  ASSUME IInv, NEW r \in Runners, Visible(r)
  PROVE  \A s \in Runners : s # r => ~Visible(s)
<1>1. \E p : pc' = [pc EXCEPT ![r] = p]
  BY DEF Visible, PopUpdate, ProcessSucceeds, ProcessFails, Crash, At, Idle
<1>2. \A s \in Runners : s # r => pc'[s] = pc[s]
  BY <1>1 DEF IInv, TypeOK
<1>3. \A s \in Runners : Visible(s) => pc'[s] # pc[s]
  BY DEF Visible, PopUpdate, ProcessSucceeds, ProcessFails, Crash, At, Idle, IInv, TypeOK
<1>4. QED
  BY <1>2, <1>3

(* Two runners never execute jobs of one pipeline.                         *)
LEMMA OneRuns ==
  ASSUME DisjointWatches, IInv, NEW c, NEW r \in Runners, NEW s \in Runners,
         Own(held[r]), jobs[held[r]].chain = c, pc[r] \in {"selected", "running"}, Runs(s, c)
  PROVE  s = r
<1>1. /\ held[r] \in JobIds /\ held[s] \in JobIds
      /\ Live(held[r]) /\ Live(held[s]) /\ jobs[held[s]].chain = c
  BY DEF Runs, IInv, RunnersInStep, HeldStatus, Live
<1>2. held[s] = held[r]
  BY <1>1 DEF IInv, SingleLiveJob
<1>3. QED
  BY <1>2, HeldApart DEF Runs

(* What the refinement says of a pipeline to which nothing happens         *)
Unmoved(c) ==
  /\ Current(c)' = Current(c)
  /\ DoneNow(c)' = DoneNow(c)
  /\ Executing(c)' = Executing(c)

LEMMA DoneSame ==
  ASSUME NEW c, Current(c)' = Current(c), ran'[c] = ran[c]
  PROVE  DoneNow(c)' = DoneNow(c)
BY DEF DoneNow

LEMMA ExecutingSame ==
  ASSUME DisjointWatches, OneOperator, IInv, [Next]_vars, NEW c \in Chains,
         \A r \in Runners : Visible(r) => jobs[held[r]].chain # c
  PROVE  Executing(c)' = Executing(c)
<1>1. \A r \in Runners : ~Visible(r) => (Runs(r, c)' <=> Runs(r, c))
  BY RunsSame
<1>2. ASSUME NEW r \in Runners, Visible(r)
      PROVE  ~Runs(r, c)' /\ ~Runs(r, c)
  <2>1. PICK h : h = held[r] /\ Own(h) /\ jobs[h].chain # c
    BY <1>2 DEF Visible
  <2>2. h \in JobIds /\ Exists(h)
    BY <1>2, <2>1 DEF Visible, PopUpdate, ProcessSucceeds, ProcessFails, At, IInv, RunnersInStep
  <2>3. jobs'[h].chain = jobs[h].chain
    BY <2>2, Evolution DEF Kept
  <2>4. pc'[r] = "running" => held'[r] = h
    BY <2>1, RunningSteps
  <2>5. QED
    BY <2>1, <2>3, <2>4 DEF Runs
<1>3. Executing(c) <=> \E r \in Runners : Runs(r, c)
  BY DEF Executing, Runs
<1>4. Executing(c)' <=> \E r \in Runners : Runs(r, c)'
  BY DEF Executing, Runs
<1>5. Executing(c)' <=> Executing(c)
  BY <1>1, <1>2, <1>3, <1>4
<1>6. QED
  BY <1>5 DEF Executing

(* A step that shows for no runner, and with which no pipeline moves on    *)
LEMMA StutterMaps ==
  ASSUME DisjointWatches, OneOperator, IInv, [Next]_vars, NEW c \in Chains,
         ~MovesOn(c), \A r \in Runners : Visible(r) => jobs[held[r]].chain # c
  PROVE  Unmoved(c)
<1>1. Current(c)' = Current(c)
  BY CurrentSame
<1>2. ran'[c] = ran[c]
  <2>1. CASE ran' = ran
    BY <2>1
  <2>2. CASE ran' # ran
    <3>1. PICK r \in Runners :
            ProcessSucceeds(r) /\ Own(held[r])
              /\ ran' = [ran EXCEPT ![jobs[held[r]].chain] = @ \cup {jobs[held[r]].step}]
      BY <2>2, Reached
    <3>2. jobs[held[r]].chain # c
      BY <3>1 DEF Visible
    <3>3. QED
      BY <3>1, <3>2 DEF IInv, TypeOK
  <2>3. QED
    BY <2>1, <2>2
<1>3. QED
  BY <1>1, <1>2, DoneSame, ExecutingSame DEF Unmoved

(* A job is popped, carried out or given up: Begin, CarryOut or Abandon.   *)
LEMMA VisibleShows ==
  ASSUME DisjointWatches, OneOperator, IInv, [Next]_vars, NEW r \in Runners, Visible(r),
         NEW c \in Chains, c = jobs[held[r]].chain, ~MovesOn(c)
  PROVE  /\ Current(c)' = Current(c)
         /\ \/ /\ Executing(c) = FALSE /\ Executing(c)' = TRUE
               /\ DoneNow(c)' = DoneNow(c)
            \/ /\ Executing(c) = TRUE /\ Executing(c)' = FALSE
               /\ DoneNow(c)' = DoneNow(c) \/ DoneNow(c)' = TRUE
<1>1. Current(c)' = Current(c)
  BY CurrentSame
<1>2. PICK h : h = held[r] /\ Own(h) /\ jobs[h].chain = c
  BY DEF Visible
<1>3. /\ h \in JobIds /\ Exists(h) /\ pc[r] \in {"selected", "running"}
      /\ jobs[h].status \in {"pending", "in_process"} /\ Live(h)
  BY <1>2 DEF Visible, PopUpdate, ProcessSucceeds, ProcessFails, At, IInv, RunnersInStep,
              HeldStatus, Live
<1>4. Own(h)' /\ jobs'[h].chain = c
  BY <1>2, <1>3, Evolution DEF Kept, Own
<1>5. \A s \in Runners : s # r => (Runs(s, c)' <=> Runs(s, c))
  BY OneVisible, RunsSame
<1>6. \A s \in Runners : Runs(s, c) => s = r
  BY <1>2, <1>3, OneRuns
<1>7. /\ Executing(c) <=> \E s \in Runners : Runs(s, c)
      /\ Executing(c)' <=> \E s \in Runners : Runs(s, c)'
  BY DEF Executing, Runs
<1>8. Executing(c) \in BOOLEAN /\ Executing(c)' \in BOOLEAN
  BY DEF Executing
<1>9. CASE PopUpdate(r)
  <2>1. ~Runs(r, c)
    BY <1>9 DEF PopUpdate, At, Runs
  <2>2. Runs(r, c)'
    <3>1. pc'[r] = "running" /\ held'[r] = h
      BY <1>2, <1>9 DEF PopUpdate, At, IInv, TypeOK
    <3>2. QED
      BY <1>4, <3>1 DEF Runs, Own, Exists
  <2>3. Executing(c) = FALSE /\ Executing(c)' = TRUE
    BY <1>6, <1>7, <1>8, <2>1, <2>2
  <2>4. ran' = ran
    BY <1>9 DEF PopUpdate
  <2>5. QED
    BY <1>1, <2>3, <2>4, DoneSame
<1>10. ASSUME ProcessSucceeds(r) \/ ProcessFails(r) \/ (Crash(r) /\ pc[r] = "running")
       PROVE  Executing(c) = TRUE /\ Executing(c)' = FALSE
  <2>1. Runs(r, c)
    BY <1>2, <1>10 DEF ProcessSucceeds, ProcessFails, At, Runs
  <2>2. ~Runs(r, c)'
    BY <1>10 DEF ProcessSucceeds, ProcessFails, Crash, At, Idle, Runs, IInv, TypeOK
  <2>3. QED
    BY <1>5, <1>6, <1>7, <1>8, <2>1, <2>2
<1>11. CASE ProcessFails(r) \/ (Crash(r) /\ pc[r] = "running")
  <2>1. ran' = ran
    BY <1>11 DEF ProcessFails, Crash
  <2>2. QED
    BY <1>1, <1>10, <1>11, <2>1, DoneSame
<1>12. CASE ProcessSucceeds(r)
  <2>1. jobs[h].status # "on_hold"
    BY <1>3
  <2>2. \A b \in JobIds : Own(b) /\ jobs[b].chain = c /\ jobs[b].step > jobs[h].step =>
          jobs[b].status = "on_hold"
    BY <1>2, <1>3 DEF IInv, LaterOnHold
  <2>3. Current(c) = jobs[h].step
    BY <1>2, <1>3, <2>1, <2>2, CurrentIsHeld
  <2>4. jobs[h].step \in ran'[c]
    BY <1>2, <1>12 DEF ProcessSucceeds, Own, IInv, TypeOK
  <2>5. DoneNow(c)' = TRUE
    BY <1>1, <2>3, <2>4 DEF DoneNow
  <2>6. QED
    BY <1>1, <1>10, <1>12, <2>5
<1>13. QED
  BY <1>9, <1>11, <1>12 DEF Visible

(* A pipeline's next job is released: MoveOn.                              *)
LEMMA MovesOnShows ==
  ASSUME DisjointWatches, OneOperator, SInv, [Next]_vars, NEW c \in Chains, MovesOn(c)
  PROVE  /\ Executing(c) = FALSE /\ Executing(c)' = FALSE
         /\ DoneNow(c) = TRUE /\ DoneNow(c)' = FALSE
         /\ Current(c) \in Int /\ Current(c)' = Current(c) + 1 /\ Current(c) < NumSteps(c)
         /\ \A d \in Chains : d # c => Unmoved(d)
<1> USE DEF SInv
<1>1. PICK r \in Runners : /\ QueueNextJob(r) /\ HandingOn(r) /\ jobs[held[r]].chain = c
  BY DEF MovesOn
<1>2. PICK h, q :
         /\ h = held[r] /\ q = jobs[h].queueJobID
         /\ h \in JobIds /\ Own(h) /\ jobs[h].status = "success"
         /\ q \in JobIds /\ Own(q) /\ jobs[q].status = "on_hold"
         /\ jobs[h].chain = c /\ jobs[q].chain = c
         /\ jobs[q].step = jobs[h].step + 1
         /\ jobs[h].step \in Nat /\ jobs[q].step \in 1..NumSteps(c)
         /\ jobs[h].step \in ran[c]
         /\ \A b \in JobIds : Own(b) /\ jobs[b].chain = c =>
              /\ ~Live(b)
              /\ jobs[b].step > jobs[h].step => jobs[b].status = "on_hold"
  BY <1>1, HandedOn
<1>3. Current(c) = jobs[h].step
  BY <1>2, CurrentIsHeld
<1>4. NumSteps(c) \in Nat
  BY ChainsAssumption DEF NumSteps
<1>5. jobs' = Save(q, "pending") /\ ran' = ran /\ pc' = [pc EXCEPT ![r] = "idle"] /\ pc[r] = "saved"
  BY <1>1, <1>2 DEF QueueNextJob, Idle, HandingOn
<1>6. \A s \in Runners : ~Visible(s)
  BY <1>5 DEF Visible, PopUpdate, ProcessSucceeds, ProcessFails, Crash, At, Idle, IInv, TypeOK
<1>7. \A d \in Chains : d # c => ~MovesOn(d)
  BY <1>1, <1>5 DEF MovesOn, QueueNextJob, Idle, IInv, TypeOK
<1>8. \A d \in Chains : d # c => Unmoved(d)
  BY <1>6, <1>7, StutterMaps
<1>9. Executing(c) = FALSE /\ Executing(c)' = FALSE
  <2>1. Executing(c)' = Executing(c)
    BY <1>6, ExecutingSame
  <2>2. ASSUME NEW s \in Runners, Runs(s, c)
        PROVE  FALSE
    <3>1. held[s] \in JobIds /\ Live(held[s])
      BY <2>2 DEF Runs, IInv, RunnersInStep, HeldStatus, Live
    <3>2. QED
      BY <1>2, <2>2, <3>1 DEF Runs
  <2>3. ~Executing(c)
    BY <2>2 DEF Executing, Runs
  <2>4. Executing(c) = FALSE
    BY <2>3 DEF Executing
  <2>5. QED
    BY <2>1, <2>4
<1>10. /\ jobs'[q].status = "pending" /\ jobs'[q].chain = c /\ jobs'[q].step = jobs[q].step
       /\ jobs'[q].forced = jobs[q].forced
       /\ \A x \in JobIds : x # q => jobs'[x] = jobs[x]
  <2>1. TypeOK /\ q \in JobIds /\ Exists(q) /\ "pending" \in Statuses /\ jobs' = Save(q, "pending")
    BY <1>2, <1>5 DEF Own, Statuses, IInv
  <2> HIDE DEF SInv
  <2>2. /\ jobs'[q].status = "pending" /\ jobs'[q].chain = jobs[q].chain
        /\ jobs'[q].step = jobs[q].step /\ jobs'[q].forced = jobs[q].forced
        /\ \A x \in JobIds : x # q => jobs'[x] = jobs[x]
    BY <2>1, SaveLemma, Zenon
  <2>3. QED
    BY <1>2, <2>2
<1>11. TypeOK'
  BY NextIInv DEF IInv
<1>12. jobs[q].step \in Released(c)'
  BY <1>2, <1>10, <1>11, ReleasedRowsNext DEF Own, Exists
<1>13. ASSUME NEW x \in JobIds, Own(x)', jobs'[x].chain = c, jobs'[x].status # "on_hold"
       PROVE  jobs'[x].step \in Int /\ jobs'[x].step <= jobs[q].step
  <2>1. CASE x = q
    BY <1>2, <1>10, <2>1
  <2>2. CASE x # q
    <3>1. jobs'[x] = jobs[x] /\ Own(x)
      BY <1>10, <1>13, <2>2 DEF Own, Exists
    <3>2. jobs[x].step \in Int /\ ~(jobs[x].step > jobs[h].step)
      BY <1>2, <1>13, <3>1 DEF IInv, Linked, Own
    <3>3. QED
      BY <1>2, <3>1, <3>2
  <2>3. QED
    BY <2>1, <2>2
<1>14. Current(c)' = jobs[q].step
  <2>1. \A k \in Released(c)' : k \in Int /\ k <= jobs[q].step
    BY <1>11, <1>13, ReleasedRowsNext
  <2>2. QED
    BY <1>2, <1>12, <2>1, CurrentIsLastNext
<1>15. jobs[q].step \notin ran'[c]
  BY <1>2, <1>5 DEF Untouched
<1>16. DoneNow(c) = TRUE /\ DoneNow(c)' = FALSE
  BY <1>2, <1>3, <1>14, <1>15 DEF DoneNow
<1>17. QED
  BY <1>2, <1>3, <1>4, <1>8, <1>9, <1>14, <1>16

(* From what a step does to the three to the step of SerialPipeline        *)
LEMMA ShownSteps ==
  ASSUME NEW c \in Chains, \A d \in Chains : d # c => Unmoved(d),
         \/ Unmoved(c)
         \/ /\ Current(c)' = Current(c)
            /\ \/ /\ Executing(c) = FALSE /\ Executing(c)' = TRUE
                  /\ DoneNow(c)' = DoneNow(c)
               \/ /\ Executing(c) = TRUE /\ Executing(c)' = FALSE
                  /\ DoneNow(c)' = DoneNow(c) \/ DoneNow(c)' = TRUE
         \/ /\ Executing(c) = FALSE /\ Executing(c)' = FALSE
            /\ DoneNow(c) = TRUE /\ DoneNow(c)' = FALSE
            /\ Current(c) \in Int /\ Current(c)' = Current(c) + 1 /\ Current(c) < NumSteps(c)
  PROVE  [Pipeline!Next]_Pipeline!pipelineVars
<1> DEFINE at == [d \in Chains |-> Current(d)]
           done == [d \in Chains |-> DoneNow(d)]
           busy == [d \in Chains |-> Executing(d)]
           len == [d \in Chains |-> NumSteps(d)]
           atn == [d \in Chains |-> Current(d)']
           donen == [d \in Chains |-> DoneNow(d)']
           busyn == [d \in Chains |-> Executing(d)']
<1>1. \A d \in Chains : d # c => /\ atn[d] = at[d] /\ donen[d] = done[d] /\ busyn[d] = busy[d]
  BY DEF Unmoved
<1>2. CASE Unmoved(c)
  <2>1. atn = at /\ donen = done /\ busyn = busy
    BY <1>2 DEF Unmoved
  <2>2. QED
    BY <2>1 DEF Pipeline!pipelineVars, DoneNow
<1>3. ASSUME Current(c)' = Current(c), Executing(c) = FALSE, Executing(c)' = TRUE,
             DoneNow(c)' = DoneNow(c)
      PROVE  Pipeline!Begin(c)
  <2>1. atn = at /\ donen = done
    BY <1>3 DEF Unmoved
  <2>2. ~busy[c] /\ busyn = [busy EXCEPT ![c] = TRUE]
    BY <1>1, <1>3
  <2>3. QED
    BY <2>1, <2>2 DEF Pipeline!Begin, DoneNow
<1>4. ASSUME Current(c)' = Current(c), Executing(c) = TRUE, Executing(c)' = FALSE,
             DoneNow(c)' = DoneNow(c)
      PROVE  Pipeline!Abandon(c)
  <2>1. atn = at /\ donen = done
    BY <1>4 DEF Unmoved
  <2>2. busy[c] /\ busyn = [busy EXCEPT ![c] = FALSE]
    BY <1>1, <1>4
  <2>3. QED
    BY <2>1, <2>2 DEF Pipeline!Abandon, DoneNow
<1>5. ASSUME Current(c)' = Current(c), Executing(c) = TRUE, Executing(c)' = FALSE,
             DoneNow(c)' = TRUE
      PROVE  Pipeline!CarryOut(c)
  <2>1. atn = at
    BY <1>5 DEF Unmoved
  <2>2. busy[c] /\ busyn = [busy EXCEPT ![c] = FALSE] /\ donen = [done EXCEPT ![c] = TRUE]
    BY <1>1, <1>5
  <2>3. QED
    BY <2>1, <2>2 DEF Pipeline!CarryOut, DoneNow
<1>6. ASSUME Executing(c) = FALSE, Executing(c)' = FALSE,
             DoneNow(c) = TRUE, DoneNow(c)' = FALSE,
             Current(c) \in Int, Current(c)' = Current(c) + 1, Current(c) < NumSteps(c)
      PROVE  Pipeline!MoveOn(c)
  <2>1. busyn = busy
    BY <1>6 DEF Unmoved
  <2>2. /\ ~busy[c] /\ done[c] /\ at[c] < len[c]
        /\ atn = [at EXCEPT ![c] = @ + 1] /\ donen = [done EXCEPT ![c] = FALSE]
    BY <1>1, <1>6
  <2>3. QED
    BY <2>1, <2>2 DEF Pipeline!MoveOn, DoneNow
<1>7. QED
  BY <1>2, <1>3, <1>4, <1>5, <1>6 DEF Pipeline!Next

LEMMA StepMaps ==
  ASSUME DisjointWatches, OneOperator, SInv, [Next]_vars
  PROVE  [Pipeline!Next]_Pipeline!pipelineVars
<1>1. CASE \E c \in Chains : MovesOn(c)
  BY <1>1, MovesOnShows, ShownSteps
<1>2. ASSUME ~\E c \in Chains : MovesOn(c), NEW r \in Runners, Visible(r)
      PROVE  [Pipeline!Next]_Pipeline!pipelineVars
  <2>1. PICK c : c = jobs[held[r]].chain
    OBVIOUS
  <2>2. c \in Chains
    BY <1>2, <2>1
       DEF Visible, PopUpdate, ProcessSucceeds, ProcessFails, At, SInv, IInv, RunnersInStep,
           TypeOK, Own, Exists, Row, NoRow
  <2>3. \A d \in Chains : d # c => Unmoved(d)
    BY <1>2, <2>1, OneVisible, StutterMaps DEF SInv
  <2>4. QED
    BY <1>2, <2>1, <2>2, <2>3, VisibleShows, ShownSteps DEF SInv
<1>3. CASE ~(\E c \in Chains : MovesOn(c)) /\ ~(\E r \in Runners : Visible(r))
  <2>1. \A d \in Chains : Unmoved(d)
    BY <1>3, StutterMaps DEF SInv
  <2>2. CASE Chains = {}
    BY <2>2 DEF Pipeline!pipelineVars
  <2>3. CASE Chains # {}
    BY <2>1, <2>3, ShownSteps
  <2>4. QED
    BY <2>2, <2>3
<1>4. QED
  BY <1>1, <1>2, <1>3

LEMMA InitMaps == Init => SInv /\ LastUnlinked /\ Pipeline!Init
<1> SUFFICES ASSUME Init PROVE SInv /\ LastUnlinked /\ Pipeline!Init
  OBVIOUS
<1>1. IInv
  BY InitIInv
<1>2. \A x \in JobIds : ~Own(x) /\ ~Exists(x)
  BY DEF Init, Own, Exists, NoRow
<1>3. Untouched /\ LastUnlinked
  BY <1>2 DEF Untouched, LastUnlinked, Init
<1>4. ASSUME NEW c \in Chains
      PROVE  /\ Current(c) = 1
             /\ (Current(c) \in ran[c]) = FALSE
             /\ Executing(c) = FALSE
  <2>1. Released(c) = {}
    BY <1>1, <1>2, ReleasedRows DEF IInv
  <2>2. Current(c) = 1
    BY <2>1 DEF Current
  <2>3. ~Executing(c)
    BY DEF Executing, Init
  <2>4. Executing(c) = FALSE
    BY <2>3 DEF Executing
  <2>5. QED
    BY <2>2, <2>4 DEF Init
<1>5. Pipeline!Init
  BY <1>4 DEF Pipeline!Init
<1>6. QED
  BY <1>1, <1>3, <1>5 DEF SInv

(* The job queue implements the serial pipelines it promises its callers: at
   every step, whatever crashes, database errors, repairs, requeues and
   forced reruns came before, each pipeline is at its current job, begins it,
   carries it out, gives it up, or moves on to the next, and nothing else. *)
THEOREM Refinement ==
  ASSUME DisjointWatches, OneOperator
  PROVE  Spec => ImplementsPipeline
<1>1. Init => SInv /\ Pipeline!Init
  BY InitMaps
<1>2. SInv /\ [Next]_vars => SInv'
  BY NextIInv, UntouchedStep DEF SInv
<1>3. SInv /\ [Next]_vars => [Pipeline!Next]_Pipeline!pipelineVars
  BY StepMaps
<1>4. QED
  BY <1>1, <1>2, <1>3, PTL DEF Spec, ImplementsPipeline, Pipeline!Spec

----------------------------------------------------------------------------
(* NeverStranded                                                           *)

NoCrash == Faults \cap {"crash", "dberror"} = {}
Moving(c) ==
  \/ Finished(c)
  \/ \E id \in JobIds : Live(id) /\ jobs[id].chain = c
  \/ \E r \in Runners : HandingOn(r) /\ jobs[held[r]].chain = c

(* A row is of a pipeline that is being queued or was queued before.       *)
LEMMA QueuedBefore ==
  ASSUME DisjointWatches, OneOperator, IInv, [Next]_vars, NEW c \in Chains, Queued(c)',
         ~QueueSerial(c)
  PROVE  Queued(c)
<1>1. PICK x \in JobIds : Exists(x)' /\ jobs'[x].chain = c
  BY DEF Queued
<1>2. CASE Exists(x)
  BY <1>1, <1>2, Evolution DEF Queued, Kept
<1>3. CASE ~Exists(x)
  <2>1. TypeOK /\ TypeOK'
    BY NextIInv DEF IInv
  <2>2. lastId' # lastId
    BY <1>1, <1>3, <2>1 DEF TypeOK
  <2>3. ASSUME NEW d \in Chains, QueueSerial(d)
        PROVE  FALSE
    BY <1>1, <1>3, <2>3, QueuedRows
  <2>4. ASSUME NEW id \in JobIds, NEW clone \in Row, Exists(id), clone.chain = jobs[id].chain,
               CloneAndSave(id, clone, "failed_done")
        PROVE  Queued(c)
    <3>1. /\ jobs'[lastId'] = clone
          /\ jobs'[id].chain = jobs[id].chain
          /\ \A y \in JobIds : y # id /\ y # lastId' => jobs'[y] = jobs[y]
      BY <2>1, <2>4, CloneLemma DEF Statuses
    <3>2. x = lastId'
      BY <1>1, <1>3, <2>4, <3>1 DEF Exists
    <3>3. QED
      BY <1>1, <2>4, <3>1, <3>2 DEF Queued
  <2>5. ASSUME NEW id \in JobIds, ForceRerun(id)
        PROVE  Queued(c)
    <3>1. jobs[id] \in Row /\ Exists(id) /\ jobs' = [jobs EXCEPT ![lastId + 1] = ForcedClone(id)]
      BY <2>1, <2>5 DEF ForceRerun, TypeOK, Exists, NoRow
    <3>2. ForcedClone(id).chain = jobs[id].chain
      BY <3>1 DEF ForcedClone, Row
    <3>3. jobs'[x] # jobs[x]
      BY <1>1, <1>3 DEF Exists
    <3>4. jobs'[x] = ForcedClone(id)
      BY <2>1, <3>1, <3>3 DEF TypeOK
    <3>5. QED
      BY <1>1, <3>1, <3>2, <3>4 DEF Queued
  <2>6. QED
    BY <2>2, <2>3, <2>4, <2>5, FailAndRetryClones, RenewDeadJobClones
       DEF Next, RunnerStep, vars, BackoffElapses, PopSelect, PopUpdate, ProcessSucceeds,
           ProcessFails, HandleSuccess, QueueNextJob, HandleFailure, DatabaseError, Crash,
           Stop, Restart, RequeueLoad, ResetCanceledJob
<1>4. QED
  BY <1>2, <1>3

(* A live row stays live, is replaced by a live clone, or succeeds.        *)
LEMMA LiveMoves ==
  ASSUME DisjointWatches, OneOperator, IInv, LastUnlinked, [Next]_vars,
         NEW c \in Chains, NEW id \in JobIds, Live(id), jobs[id].chain = c
  PROVE  Moving(c)'
<1>1. Kept(id) /\ Own(id) /\ Exists(id)
  BY Evolution DEF Live, Own
<1>2. Own(id)' /\ jobs'[id].chain = c
  BY <1>1 DEF Kept, Own
<1>3. ASSUME jobs'[id].status \in {"pending", "in_process", "failed"}
      PROVE  Moving(c)'
  BY <1>2, <1>3 DEF Moving, Live
<1>4. ASSUME NEW x \in JobIds, Exists(x), jobs[x].status # "success",
             NEW s \in {"pending", "in_process", "failed"}, jobs' = Save(x, s)
      PROVE  Moving(c)'
  <2>1. /\ \A y \in JobIds : y # x => jobs'[y] = jobs[y]
        /\ jobs'[x].status = s
    BY <1>4, KeptBySave DEF Statuses
  <2>2. jobs'[id].status \in {"pending", "in_process", "failed"}
    BY <2>1 DEF Live
  <2>3. QED
    BY <1>3, <2>2
<1>5. ASSUME NEW x \in JobIds, NEW clone \in Row, Exists(x),
             jobs[x].status \in {"in_process", "failed"}, clone.status = "pending",
             clone.chain = jobs[x].chain, clone.step = jobs[x].step,
             clone.queueJobID = jobs[x].queueJobID, clone.forced = jobs[x].forced,
             CloneAndSave(x, clone, "failed_done")
      PROVE  Moving(c)'
  <2>1. /\ Own(x) => \E n \in JobIds : Live(n)' /\ jobs'[n].chain = jobs[x].chain
        /\ \A y \in JobIds : Exists(y) /\ y # x => jobs'[y] = jobs[y]
    BY <1>5, KeptByClone
  <2>2. CASE x = id
    BY <1>1, <2>1, <2>2 DEF Moving
  <2>3. CASE x # id
    BY <1>1, <1>3, <2>1, <2>3 DEF Live
  <2>4. QED
    BY <2>2, <2>3
<1>6. ASSUME NEW r \in Runners, HandleSuccess(r)
      PROVE  Moving(c)'
  <2>1. PICK h : h = held[r] /\ h \in JobIds /\ Exists(h) /\ jobs[h].status = "in_process"
    BY <1>6 DEF HandleSuccess, At, IInv, RunnersInStep, HeldStatus
  <2>2. /\ \A y \in JobIds : y # h => jobs'[y] = jobs[y]
        /\ jobs'[h].status = "success"
    BY <1>6, <2>1, KeptBySave DEF HandleSuccess, Statuses
  <2>3. CASE h # id
    BY <1>3, <2>2, <2>3 DEF Live
  <2>4. CASE h = id /\ jobs[h].queueJobID = 0
    <3>1. jobs'[id].step = NumSteps(c)
      BY <1>1, <2>4 DEF LastUnlinked, Kept
    <3>2. QED
      BY <1>2, <2>2, <2>4, <3>1 DEF Moving, Finished, NumSteps
  <2>5. CASE h = id /\ jobs[h].queueJobID # 0
    <3>1. pc'[r] = "saved" /\ held'[r] = id
      BY <1>6, <2>1, <2>5 DEF HandleSuccess, At, IInv, TypeOK
    <3>2. jobs'[id].queueJobID # 0
      BY <1>1, <2>5 DEF Kept
    <3>3. QED
      BY <1>2, <3>1, <3>2 DEF Moving, HandingOn
  <2>6. QED
    BY <2>3, <2>4, <2>5
<1>7. ASSUME NEW r \in Runners, PopUpdate(r) \/ HandleFailure(r)
      PROVE  Moving(c)'
  <2>1. held[r] \in JobIds /\ Exists(held[r]) /\ jobs[held[r]].status # "success"
    BY <1>7 DEF PopUpdate, HandleFailure, At, IInv, RunnersInStep, HeldStatus
  <2>2. QED
    BY <1>4, <1>7, <2>1 DEF PopUpdate, HandleFailure
<1>8. ASSUME NEW r \in Runners, QueueNextJob(r)
      PROVE  Moving(c)'
  <2>1. CASE jobs[held[r]].queueJobID = 0
    BY <1>3, <1>8, <2>1 DEF QueueNextJob, Live
  <2>2. CASE jobs[held[r]].queueJobID # 0
    <3>1. PICK q \in JobIds : /\ q = jobs[held[r]].queueJobID
                              /\ Own(q) /\ jobs[q].status = "on_hold"
      BY <1>8, <2>2, HandedOn DEF QueueNextJob, HandingOn
    <3>2. jobs' = Save(q, "pending")
      BY <1>8, <2>2, <3>1 DEF QueueNextJob
    <3>3. QED
      BY <1>4, <3>1, <3>2 DEF Own
  <2>3. QED
    BY <2>1, <2>2
<1>9. ASSUME NEW x \in JobIds, BackoffElapses(x) \/ ForceRerun(x)
      PROVE  Moving(c)'
  <2>1. CASE BackoffElapses(x)
    <3>1. jobs'[id].status = jobs[id].status
      BY <1>1, <2>1 DEF BackoffElapses, IInv, TypeOK, Row, NoRow, Exists
    <3>2. QED
      BY <1>3, <3>1 DEF Live
  <2>2. CASE ForceRerun(x)
    BY <1>1, <1>3, <2>2, ForcedRow DEF Live
  <2>3. QED
    BY <1>9, <2>1, <2>2
<1>10. ASSUME NEW x \in JobIds, ResetCanceledJob(x)
       PROVE  Moving(c)'
  <2>1. Exists(x) /\ jobs[x].status # "success" /\ jobs' = Save(x, "pending")
    BY <1>10 DEF ResetCanceledJob, Exists
  <2>2. QED
    BY <1>4, <2>1
<1>11. ASSUME NEW d \in Chains, QueueSerial(d)
       PROVE  Moving(c)'
  BY <1>1, <1>3, <1>11, QueuedRows DEF Live
<1>12. CASE jobs' = jobs
  BY <1>3, <1>12 DEF Live
<1>13. QED
  BY <1>5, <1>6, <1>7, <1>8, <1>9, <1>10, <1>11, <1>12, FailAndRetryClones, RenewDeadJobClones
     DEF Next, RunnerStep, vars, PopSelect, ProcessSucceeds, ProcessFails,
         DatabaseError, Crash, Stop, Restart, RequeueLoad

(* What a runner is about to release, it releases, when nothing fails.     *)
LEMMA HandingOnMoves ==
  ASSUME DisjointWatches, OneOperator, NoCrash, IInv, [Next]_vars,
         NEW c \in Chains, NEW r \in Runners, HandingOn(r), jobs[held[r]].chain = c
  PROVE  Moving(c)'
<1>1. PICK h, q : /\ h = held[r] /\ q = jobs[h].queueJobID
                  /\ h \in JobIds /\ Own(h) /\ jobs[h].chain = c /\ q # 0
                  /\ q \in JobIds /\ Own(q) /\ jobs[q].chain = c
  BY HandedOn DEF HandingOn
<1>2. Kept(h) /\ Kept(q)
  BY <1>1, Evolution DEF Own
<1>3. ASSUME QueueNextJob(r)
      PROVE  Moving(c)'
  <2>1. jobs' = Save(q, "pending")
    BY <1>1, <1>3 DEF QueueNextJob
  <2>2. jobs'[q].status = "pending"
    BY <1>1, <2>1, SaveLemma DEF Own, Statuses, IInv
  <2>3. Live(q)' /\ jobs'[q].chain = c
    BY <1>1, <1>2, <2>2 DEF Live, Own, Kept
  <2>4. QED
    BY <1>1, <2>3 DEF Moving
<1>4. ASSUME pc'[r] = "saved", held'[r] = held[r]
      PROVE  Moving(c)'
  <2>1. held'[r] = h /\ jobs'[h].queueJobID # 0 /\ jobs'[h].chain = c
    BY <1>1, <1>2, <1>4 DEF Kept
  <2>2. QED
    BY <1>4, <2>1 DEF Moving, HandingOn
<1>5. pc[r] = "saved"
  BY DEF HandingOn
<1>6. ASSUME NEW s \in Runners, RunnerStep(s), ~QueueNextJob(r)
      PROVE  pc'[r] = "saved" /\ held'[r] = held[r]
  <2>1. CASE s # r
    BY <1>5, <1>6, <2>1
       DEF RunnerStep, PopSelect, PopUpdate, ProcessSucceeds, ProcessFails,
           HandleSuccess, QueueNextJob, FailAndRetry, HandleFailure,
           At, Idle, Drop, IInv, TypeOK
  <2>2. CASE s = r
    BY <1>5, <1>6, <2>2
       DEF RunnerStep, PopSelect, PopUpdate, ProcessSucceeds, ProcessFails,
           HandleSuccess, FailAndRetry, HandleFailure, At
  <2>3. QED
    BY <2>1, <2>2
<1>7. \A s \in Runners : ~DatabaseError(s) /\ ~Crash(s)
  BY DEF NoCrash, DatabaseError, Crash
<1>8. CASE UNCHANGED <<pc, held>>
  BY <1>4, <1>5, <1>8
<1>9. QED
  BY <1>3, <1>4, <1>6, <1>7, <1>8
     DEF Next, vars, QueueSerial, BackoffElapses, Stop, Restart, RenewDeadJob,
         RequeueLoad, ResetCanceledJob, ForceRerun

LEMMA MovingStep ==
  ASSUME DisjointWatches, OneOperator, NoCrash, IInv, LastUnlinked, NeverStranded, [Next]_vars
  PROVE  NeverStranded'
<1>1. SUFFICES ASSUME NEW c \in Chains, Queued(c)'
               PROVE  Moving(c)'
  BY DEF NeverStranded, Moving
<1>2. CASE QueueSerial(c)
  <2>1. \E first \in JobIds : Live(first)' /\ jobs'[first].chain = c
    BY <1>2, QueuedRows
  <2>2. QED
    BY <2>1 DEF Moving
<1>3. CASE ~QueueSerial(c)
  <2>1. Moving(c)
    BY <1>1, <1>3, QueuedBefore DEF NeverStranded, Moving
  <2>2. CASE Finished(c)
    <3>1. PICK id \in JobIds : /\ Own(id) /\ jobs[id].chain = c
                               /\ jobs[id].step = NumSteps(c) /\ jobs[id].status = "success"
      BY <2>2 DEF Finished
    <3>2. Own(id)' /\ jobs'[id].chain = c /\ jobs'[id].step = NumSteps(c)
          /\ jobs'[id].status = "success"
      BY <3>1, Evolution DEF Kept, Own
    <3>3. QED
      BY <3>2 DEF Moving, Finished, NumSteps
  <2>3. QED
    BY <2>1, <2>2, LiveMoves, HandingOnMoves DEF Moving
<1>4. QED
  BY <1>2, <1>3

(* As long as no process is killed and no database call fails, no pipeline
   is left behind: until its last job has succeeded it has a live job or a
   runner about to release the next, whatever is retried, requeued, reset,
   rerun or stopped.                                                       *)
THEOREM NoneStranded ==
  ASSUME DisjointWatches, OneOperator, NoCrash
  PROVE  Spec => []NeverStranded
<1>1. Init => IInv /\ LastUnlinked /\ NeverStranded
  <2>1. Init => NeverStranded
    BY DEF Init, NeverStranded, Queued, Exists, NoRow
  <2>2. QED
    BY <2>1, InitIInv, InitMaps
<1>2. IInv /\ LastUnlinked /\ NeverStranded /\ [Next]_vars =>
        IInv' /\ LastUnlinked' /\ NeverStranded'
  BY NextIInv, LastUnlinkedStep, MovingStep
<1>3. QED
  BY <1>1, <1>2, PTL DEF Spec

(* No two runners ever work on one pipeline, apart from jobs an operator
   forces: while one has a job in hand, or is about to release the next, the
   pipeline has none for another to take, whatever died before.            *)
THEOREM NeverTwoRunners ==
  ASSUME DisjointWatches, OneOperator
  PROVE  Spec => []OneRunnerPerPipeline
<1>1. IInv => OneRunnerPerPipeline
  <2> SUFFICES ASSUME IInv, NEW r \in Runners, NEW s \in Runners, r # s,
                      InHand(r), ~jobs[held[r]].forced, InHand(s), ~jobs[held[s]].forced,
                      jobs[held[r]].chain = jobs[held[s]].chain
               PROVE  FALSE
    BY DEF OneRunnerPerPipeline
  <2> DEFINE a == held[r]
             b == held[s]
  <2>1. /\ a \in JobIds /\ b \in JobIds /\ Own(a) /\ Own(b)
        /\ TypeOf(a) \in Watches[r] /\ TypeOf(b) \in Watches[s]
        /\ jobs[a].status = HeldStatus(pc[r]) /\ jobs[b].status = HeldStatus(pc[s])
    BY DEF IInv, RunnersInStep, InHand, Own
  <2>2. a # b
    BY <2>1 DEF DisjointWatches
  <2>3. pc[r] # "saved" => Live(a)
    BY <2>1 DEF InHand, HeldStatus, Live, Own
  <2>4. pc[s] # "saved" => Live(b)
    BY <2>1 DEF InHand, HeldStatus, Live, Own
  <2>5. CASE pc[r] = "saved"
    BY <2>1, <2>4, <2>5 DEF IInv, HandOver
  <2>6. CASE pc[s] = "saved"
    BY <2>1, <2>3, <2>6 DEF IInv, HandOver
  <2>7. QED
    BY <2>1, <2>2, <2>3, <2>4, <2>5, <2>6 DEF IInv, SingleLiveJob
<1>2. QED
  BY <1>1, Invariance, PTL
=============================================================================

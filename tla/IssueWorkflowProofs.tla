------------------------ MODULE IssueWorkflowProofs ------------------------
(***************************************************************************)
(* Proofs about IssueWorkflow, for any people, any number of requests and  *)
(* pipelines.                                                              *)
(*                                                                         *)
(* Whatever overlaps, what waits for its METS was approved by somebody     *)
(* allowed to.  Every row a request or a job may yet write is one the row  *)
(* once was with one change of models/issue.go made to it, so it is enough *)
(* that each change keeps a good row good.                                 *)
(*                                                                         *)
(* With one writer at a time, what is batched was reviewed.  The second    *)
(* half of the module proves this from SerialInv: what anybody has yet to  *)
(* write still starts from what is in the table.                           *)
(***************************************************************************)
EXTENDS IssueWorkflow, FiniteSetTheorems, SequenceTheorems, TLAPS

(* JobsOf holds no job but those Processed tells apart, and none that sets
   the step only an approval sets.                                         *)
JobNames == (Steps \ {"ReadyForMETSXML"}) \cup {"save", "ignore"}

LEMMA JobsOfNames ==
  ASSUME NEW k \in DOMAIN JobsOf, NEW i \in 1..Len(JobsOf[k])
  PROVE  JobsOf[k][i] \in JobNames
<1>1. DOMAIN JobsOf = {"derivatives", "finalize", "remove"}
  BY DEF JobsOf
<1>2. CASE k = "derivatives"
  <2>1. JobsOf[k] = <<"AwaitingProcessing", "save", "ReadyForMetadataEntry", "save">>
    BY <1>2 DEF JobsOf
  <2>2. i \in 1..4
    BY <2>1
  <2> QED BY <2>1, <2>2 DEF JobNames, Steps
<1>3. CASE k = "finalize"
  <2>1. JobsOf[k] = <<"save", "ReadyForBatching", "save">>
    BY <1>3 DEF JobsOf
  <2>2. i \in 1..3
    BY <2>1
  <2> QED BY <2>1, <2>2 DEF JobNames, Steps
<1>4. CASE k = "remove"
  <2>1. JobsOf[k] = <<"save", "ignore", "save", "UnfixableMetadataError", "save">>
    BY <1>4 DEF JobsOf
  <2>2. i \in 1..5
    BY <2>1
  <2> QED BY <2>1, <2>2 DEF JobNames, Steps
<1> QED BY <1>1, <1>2, <1>3, <1>4

(* Every change models/issue.go makes, other than an approval, keeps a good
   row good.                                                               *)
LEMMA ChangesKeepGood ==
  ASSUME NEW r, GoodRow(r), NEW u \in Someone, NEW b \in Batches, NEW valid \in BOOLEAN,
         NEW step \in Steps \ {"ReadyForMETSXML"}
  PROVE  /\ GoodRow(Claimed(r, u))
         /\ GoodRow(Unclaimed(r))
         /\ GoodRow(QueuedForMetadataReview(r, u))
         /\ GoodRow(MetadataRejected(r, u))
         /\ GoodRow(ErrorReported(r))
         /\ GoodRow(ReturnedFor(r, step, u))
         /\ GoodRow(PreppedForRemoval(r))
         /\ GoodRow(AddedToBatch(r, b))
         /\ r.step = "ReadyForMetadataEntry" => GoodRow(Edited(r, u, valid))
<1>0. r \in Issue /\ (r.step = "ReadyForMETSXML" => SignedOff(r))
  BY DEF GoodRow
<1>c. ASSUME NEW s \in Issue, NEW v \in Someone
      PROVE  /\ Claimed(s, v) \in Issue
             /\ Claimed(s, v).step = s.step
             /\ SignedOff(s) => SignedOff(Claimed(s, v))
  BY <1>c DEF Claimed, Issue, SignedOff, NotOwnWork, Someone
<1>u. /\ Unclaimed(r) \in Issue
      /\ Unclaimed(r).step = r.step
      /\ SignedOff(r) => SignedOff(Unclaimed(r))
  BY <1>0 DEF Unclaimed, Issue, SignedOff, NotOwnWork, Someone
<1>1. GoodRow(Claimed(r, u))
  BY <1>0, <1>c DEF GoodRow
<1>2. GoodRow(Unclaimed(r))
  BY <1>0, <1>u DEF GoodRow
<1>3. GoodRow(QueuedForMetadataReview(r, u))
  <2> DEFINE s == [Unclaimed(r) EXCEPT !.step = "AwaitingMetadataReview", !.author = u]
  <2>1. s \in Issue /\ s.step = "AwaitingMetadataReview"
    BY <1>u DEF Issue, Steps
  <2>2. r.rejecter \in Someone
    BY <1>0 DEF Issue
  <2> QED BY <2>1, <2>2, <1>c DEF GoodRow, QueuedForMetadataReview
<1>4. GoodRow(MetadataRejected(r, u))
  <2>1. r.author \in Someone
    BY <1>0 DEF Issue
  <2>2. Claimed(r, r.author) \in Issue
    BY <1>0, <1>c, <2>1
  <2> QED BY <2>2 DEF GoodRow, MetadataRejected, Issue, Steps
<1>5. GoodRow(ErrorReported(r))
  BY <1>u DEF GoodRow, ErrorReported, Issue, Steps
<1>6. GoodRow(ReturnedFor(r, step, u))
  <2>1. [Unclaimed(r) EXCEPT !.step = step] \in Issue
    BY <1>u DEF Issue
  <2>2. [Unclaimed(r) EXCEPT !.step = step].step # "ReadyForMETSXML"
    BY <1>u DEF Issue
  <2> QED BY <2>1, <2>2, <1>c DEF GoodRow, ReturnedFor
<1>7. GoodRow(PreppedForRemoval(r))
  BY <1>u DEF GoodRow, PreppedForRemoval, Issue, Steps
<1>8. GoodRow(AddedToBatch(r, b))
  BY <1>0 DEF GoodRow, AddedToBatch, Issue, SignedOff, NotOwnWork
<1>9. r.step = "ReadyForMetadataEntry" => GoodRow(Edited(r, u, valid))
  BY <1>0 DEF GoodRow, Edited, Issue
<1> QED BY <1>1, <1>2, <1>3, <1>4, <1>5, <1>6, <1>7, <1>8, <1>9

(* An approval makes a good row: what Can.ReviewMetadata and ValidateMetadata
   check when the row is loaded is what SignedOff asks for.                *)
LEMMA ApprovalIsGood ==
  ASSUME NEW r \in Issue, NEW u \in Users, CanReviewMetadata(u, r), r.valid
  PROVE  GoodRow(MetadataApproved(r, u))
<1>1. MetadataApproved(r, u) = [r EXCEPT !.owner = Nobody, !.current = FALSE,
                                         !.step = "ReadyForMETSXML", !.reviewer = u]
  BY DEF MetadataApproved, Unclaimed, Issue
<1>2. MetadataApproved(r, u) \in Issue
  BY <1>1 DEF Issue, Someone, Steps
<1>3. SignedOff(MetadataApproved(r, u))
  BY <1>1, UsersAssumption DEF SignedOff, NotOwnWork, CanReviewMetadata, Issue
<1> QED BY <1>2, <1>3 DEF GoodRow

(* A request that plans good rows keeps the invariant.                     *)
LEMMA StartKeeps ==
  ASSUME IInv, NEW q \in Requests, NEW u \in Users, NEW queue \in {"none", "finalize", "remove"},
         NEW writes \in Seq(Issue), \A i \in DOMAIN writes : GoodRow(writes[i]),
         Start(q, u, writes, queue)
  PROVE  IInv'
<1> DEFINE new == [writes |-> writes, user |-> u, queue |-> queue, batch |-> 0]
<1>1. req' = [req EXCEPT ![q] = new] /\ UNCHANGED <<row, pipes, batched>>
  BY DEF Start
<1>2. TypeOK'
  <2>1. new \in [writes : Seq(Issue), user : Someone,
                 queue : {"none", "finalize", "remove"}, batch : Batches]
    BY UsersAssumption DEF Someone, Batches
  <2> QED BY <1>1, <2>1 DEF IInv, TypeOK
<1>3. RowsGood'
  <2>1. GoodRow(row)' /\ \A p \in DOMAIN pipes' : \A i \in DOMAIN pipes'[p].copy : GoodRow(pipes'[p].copy[i])
    BY <1>1 DEF IInv, RowsGood, GoodRow, SignedOff, NotOwnWork
  <2>2. \A x \in Requests : req'[x] = IF x = q THEN new ELSE req[x]
    BY <1>1 DEF IInv, TypeOK
  <2>3. \A x \in Requests : \A i \in DOMAIN req'[x].writes : GoodRow(req'[x].writes[i])
    BY <2>2 DEF IInv, RowsGood
  <2> QED BY <2>1, <2>3 DEF RowsGood, GoodRow, SignedOff, NotOwnWork
<1>4. JobsUnderWay'
  BY <1>1 DEF IInv, JobsUnderWay, Unfinished
<1> QED BY <1>2, <1>3, <1>4 DEF IInv

(* So does a request that plans a single good row ...                      *)
LEMMA StartOneKeeps ==
  ASSUME IInv, NEW q \in Requests, NEW u \in Users, NEW queue \in {"none", "finalize", "remove"},
         NEW r, GoodRow(r), Start(q, u, <<r>>, queue)
  PROVE  IInv'
<1>1. <<r>> \in Seq(Issue) /\ \A i \in DOMAIN <<r>> : GoodRow(<<r>>[i])
  BY DEF GoodRow
<1> QED BY <1>1, StartKeeps

(* ... and what saveQueue plans.                                           *)
LEMMA QueueWritesGood ==
  ASSUME NEW r, GoodRow(r), NEW u \in Users, NEW writes \in QueueWrites(r, u)
  PROVE  writes \in Seq(Issue) /\ \A i \in DOMAIN writes : GoodRow(writes[i])
<1> DEFINE qr == QueuedForMetadataReview(r, u)
<1>1. GoodRow(qr)
  <2>1. u \in Someone /\ 0 \in Batches /\ "ReadyForBatching" \in Steps \ {"ReadyForMETSXML"}
    BY UsersAssumption DEF Someone, Batches, Steps
  <2> QED BY <2>1, ChangesKeepGood
<1>2. qr \in Issue
  BY <1>1 DEF GoodRow
<1>3. writes = <<qr>> \/ writes = <<qr, qr>>
  BY DEF QueueWrites
<1> HIDE DEF qr
<1>4. CASE writes = <<qr>>
  BY <1>1, <1>2, <1>4
<1>5. CASE writes = <<qr, qr>>
  BY <1>1, <1>2, <1>5
<1> QED BY <1>3, <1>4, <1>5

----------------------------------------------------------------------------
(* The actions, one lemma each where there is something to say             *)

LEMMA LoadKeeps ==
  ASSUME IInv, NEW q \in Requests, NEW u \in Users, Load(q, u)
  PROVE  IInv'
<1>0. GoodRow(row) /\ row \in Issue
  BY DEF IInv, RowsGood, GoodRow
<1>u. u \in Someone /\ Nobody \in Someone
  BY DEF Someone
<1>b. 0 \in Batches /\ "ReadyForBatching" \in Steps \ {"ReadyForMETSXML"}
  BY UsersAssumption DEF Batches, Steps
<1>1. CASE claimIssue(q, u)
  <2>1. GoodRow(Claimed(row, u))
    BY <1>0, <1>u, <1>b, ChangesKeepGood
  <2> QED BY <1>1, <2>1, StartOneKeeps DEF claimIssue
<1>2. CASE unclaimIssue(q, u)
  <2>1. GoodRow(Unclaimed(row))
    BY <1>0, <1>u, <1>b, ChangesKeepGood
  <2> QED BY <1>2, <2>1, StartOneKeeps DEF unclaimIssue
<1>3. CASE saveDraft(q, u)
  <2>1. row.step = "ReadyForMetadataEntry"
    BY <1>3 DEF saveDraft, CanEnterMetadata
  <2>2. PICK valid \in BOOLEAN : Start(q, u, <<Edited(row, u, valid)>>, "none")
    BY <1>3 DEF saveDraft
  <2>3. GoodRow(Edited(row, u, valid))
    BY <1>0, <1>u, <1>b, <2>1, ChangesKeepGood
  <2> QED BY <2>2, <2>3, StartOneKeeps
<1>4. CASE saveQueue(q, u)
  <2> DEFINE e == Edited(row, u, TRUE)
  <2>1. row.step = "ReadyForMetadataEntry"
    BY <1>4 DEF saveQueue, CanEnterMetadata
  <2>2. GoodRow(e)
    BY <1>0, <1>u, <1>b, <2>1, ChangesKeepGood
  <2>3. CASE \E writes \in QueueWrites(row, u) : Start(q, u, writes, "none")
    BY <1>0, <2>3, QueueWritesGood, StartKeeps
  <2>4. CASE \E writes \in QueueWrites(e, u) : Start(q, u, <<e>> \o writes, "none")
    <3>1. PICK writes \in QueueWrites(e, u) : Start(q, u, <<e>> \o writes, "none")
      BY <2>4
    <3> HIDE DEF e
    <3>2. writes \in Seq(Issue) /\ \A i \in DOMAIN writes : GoodRow(writes[i])
      BY <2>2, QueueWritesGood
    <3>3. e \in Issue
      BY <2>2 DEF GoodRow
    <3>4. <<e>> \o writes \in Seq(Issue)
      BY <3>2, <3>3
    <3>5. \A i \in DOMAIN (<<e>> \o writes) : GoodRow((<<e>> \o writes)[i])
      <4>1. ASSUME NEW i \in DOMAIN (<<e>> \o writes)
            PROVE  \/ (<<e>> \o writes)[i] = e
                   \/ i - 1 \in DOMAIN writes /\ (<<e>> \o writes)[i] = writes[i - 1]
        BY <3>2, <3>3
      <4> QED BY <4>1, <2>2, <3>2
    <3> QED BY <3>1, <3>4, <3>5, StartKeeps
  <2> QED BY <1>4, <2>3, <2>4 DEF saveQueue
<1>5. CASE saveError(q, u)
  <2>1. GoodRow(ErrorReported(row))
    BY <1>0, <1>u, <1>b, ChangesKeepGood
  <2> QED BY <1>5, <2>1, StartOneKeeps DEF saveError
<1>6. CASE approveIssueMetadata(q, u)
  <2>1. GoodRow(MetadataApproved(row, u))
    BY <1>0, <1>6, ApprovalIsGood DEF approveIssueMetadata
  <2> QED BY <1>6, <2>1, StartOneKeeps DEF approveIssueMetadata
<1>7. CASE rejectIssueMetadata(q, u)
  <2>1. GoodRow(MetadataRejected(row, u))
    BY <1>0, <1>u, <1>b, ChangesKeepGood
  <2> QED BY <1>7, <2>1, StartOneKeeps DEF rejectIssueMetadata
<1>8. CASE returnErrorIssue(q, u)
  <2>1. PICK step \in {"ReadyForMetadataEntry", "AwaitingMetadataReview"}, w \in Someone :
           Start(q, u, <<ReturnedFor(row, step, w)>>, "none")
    BY <1>8 DEF returnErrorIssue
  <2>2. step \in Steps \ {"ReadyForMETSXML"}
    BY DEF Steps
  <2>3. GoodRow(ReturnedFor(row, step, w))
    BY <1>0, <1>b, <2>2, ChangesKeepGood
  <2> QED BY <2>1, <2>3, StartOneKeeps
<1>9. CASE removeUnfixableIssue(q, u)
  <2>1. GoodRow(PreppedForRemoval(row))
    BY <1>0, <1>u, <1>b, ChangesKeepGood
  <2> QED BY <1>9, <2>1, StartOneKeeps DEF removeUnfixableIssue
<1> QED BY <1>1, <1>2, <1>3, <1>4, <1>5, <1>6, <1>7, <1>8, <1>9 DEF Load

LEMMA FindReadyIssuesKeeps ==
  ASSUME IInv, NEW q \in Requests, FindReadyIssues(q)
  PROVE  IInv'
<1>1. PICK b \in Batches \ {0} :
        req' = [req EXCEPT ![q] = [writes |-> <<AddedToBatch(row, b)>>, user |-> Nobody,
                                   queue |-> "none", batch |-> b]]
  BY DEF FindReadyIssues
<1> DEFINE r == AddedToBatch(row, b)
           new == [writes |-> <<r>>, user |-> Nobody, queue |-> "none", batch |-> b]
<1>2. UNCHANGED <<row, pipes, batched>>
  BY DEF FindReadyIssues
<1>3. GoodRow(r)
  <2>1. GoodRow(row) /\ Nobody \in Someone /\ "ReadyForBatching" \in Steps \ {"ReadyForMETSXML"}
    BY DEF IInv, RowsGood, Someone, Steps
  <2> QED BY <2>1, ChangesKeepGood
<1>4. r \in Issue
  BY <1>3 DEF GoodRow
<1> HIDE DEF r
<1>5. TypeOK'
  <2>1. new \in [writes : Seq(Issue), user : Someone,
                 queue : {"none", "finalize", "remove"}, batch : Batches]
    BY <1>4 DEF Someone
  <2> QED BY <1>1, <1>2, <2>1 DEF IInv, TypeOK, r
<1>6. RowsGood'
  <2>1. \A x \in Requests : req'[x] = IF x = q THEN new ELSE req[x]
    BY <1>1 DEF IInv, TypeOK, r
  <2>2. \A i \in DOMAIN <<r>> : GoodRow(<<r>>[i])
    BY <1>3
  <2>3. \A x \in Requests : \A i \in DOMAIN req'[x].writes : GoodRow(req'[x].writes[i])
    BY <2>1, <2>2 DEF IInv, RowsGood
  <2> QED BY <1>2, <2>3 DEF IInv, RowsGood, GoodRow, SignedOff, NotOwnWork
<1>7. JobsUnderWay'
  BY <1>2 DEF IInv, JobsUnderWay, Unfinished
<1> QED BY <1>5, <1>6, <1>7 DEF IInv

LEMMA WriteKeeps ==
  ASSUME IInv, NEW q \in Requests, Write(q)
  PROVE  IInv'
<1> DEFINE w == req[q].writes
           new == AfterWrite(req[q])
<1>1. w \in Seq(Issue) /\ w # <<>>
  BY DEF Write, IInv, TypeOK
<1>2. /\ row' = Head(w) /\ req' = [req EXCEPT ![q] = new] /\ UNCHANGED pipes
      /\ batched' \in {batched, batched \cup {req[q].batch}}
      /\ req[q].batch = 0 => batched' = batched
  BY DEF Write
<1>3. Head(w) = w[1] /\ 1 \in DOMAIN w /\ Tail(w) \in Seq(Issue)
  BY <1>1
<1>4. GoodRow(Head(w))
  BY <1>3 DEF IInv, RowsGood
<1>5. /\ new \in [writes : Seq(Issue), user : Someone,
                  queue : {"none", "finalize", "remove"}, batch : Batches]
      /\ new.writes = <<>> \/ new.writes = Tail(w)
  <2>1. Idle \in [writes : Seq(Issue), user : Someone,
                  queue : {"none", "finalize", "remove"}, batch : Batches]
    BY UsersAssumption DEF Idle, Someone, Batches
  <2>2. req[q] \in [writes : Seq(Issue), user : Someone,
                    queue : {"none", "finalize", "remove"}, batch : Batches]
    BY DEF IInv, TypeOK
  <2>3. /\ [req[q] EXCEPT !.writes = Tail(w)] \in
             [writes : Seq(Issue), user : Someone,
              queue : {"none", "finalize", "remove"}, batch : Batches]
        /\ [req[q] EXCEPT !.writes = Tail(w)].writes = Tail(w)
    BY <1>3, <2>2
  <2>4. Idle.writes = <<>>
    BY DEF Idle
  <2> QED BY <2>1, <2>3, <2>4 DEF AfterWrite
<1>6. \A i \in DOMAIN new.writes : GoodRow(new.writes[i])
  <2>1. ASSUME NEW i \in DOMAIN Tail(w)
        PROVE  i + 1 \in DOMAIN w /\ Tail(w)[i] = w[i + 1]
    BY <1>1
  <2>2. \A i \in DOMAIN Tail(w) : GoodRow(Tail(w)[i])
    BY <2>1 DEF IInv, RowsGood
  <2>3. \A i \in DOMAIN <<>> : GoodRow(<<>>[i])
    OBVIOUS
  <2> QED BY <1>5, <2>2, <2>3
<1> HIDE DEF new
<1>7. TypeOK'
  <2>1. Head(w) \in Issue
    BY <1>4 DEF GoodRow
  <2>2. req[q].batch \in Batches
    BY DEF IInv, TypeOK
  <2> QED BY <1>2, <1>5, <2>1, <2>2 DEF IInv, TypeOK
<1>8. RowsGood'
  <2>1. \A x \in Requests : req'[x] = IF x = q THEN new ELSE req[x]
    BY <1>2 DEF IInv, TypeOK
  <2>2. \A x \in Requests : \A i \in DOMAIN req'[x].writes : GoodRow(req'[x].writes[i])
    BY <2>1, <1>6 DEF IInv, RowsGood
  <2>3. GoodRow(row')
    BY <1>2, <1>4
  <2> QED BY <1>2, <2>2, <2>3 DEF IInv, RowsGood, GoodRow, SignedOff, NotOwnWork
<1>9. JobsUnderWay'
  BY <1>2 DEF IInv, JobsUnderWay, Unfinished
<1> QED BY <1>7, <1>8, <1>9 DEF IInv

LEMMA QueuePipelineKeeps ==
  ASSUME IInv, NEW q \in Requests, QueuePipeline(q)
  PROVE  IInv'
<1> DEFINE new == Queued(req[q].queue)
<1>1. /\ pipes' = Append(pipes, new) /\ req' = [req EXCEPT ![q] = Idle]
      /\ UNCHANGED <<row, batched>>
  BY DEF QueuePipeline
<1>2. /\ new \in [kind : DOMAIN JobsOf, at : Nat \ {0}, copy : Seq(Issue)]
      /\ new.copy = <<>>
  <2>1. req[q].queue \in {"finalize", "remove"}
    BY DEF QueuePipeline, IInv, TypeOK
  <2> QED BY <2>1 DEF Queued, JobsOf
<1>3. /\ pipes \in Seq([kind : DOMAIN JobsOf, at : Nat \ {0}, copy : Seq(Issue)])
      /\ req \in [Requests -> [writes : Seq(Issue), user : Someone,
                               queue : {"none", "finalize", "remove"}, batch : Batches]]
  BY DEF IInv, TypeOK
<1> HIDE DEF new
<1>4. \A p \in DOMAIN pipes' : \/ p \in DOMAIN pipes /\ pipes'[p] = pipes[p]
                               \/ pipes'[p] = new
  <2> DEFINE S == [kind : DOMAIN JobsOf, at : Nat \ {0}, copy : Seq(Issue)]
  <2>1. new \in S /\ pipes \in Seq(S)
    BY <1>2, <1>3
  <2> HIDE DEF S
  <2>2. ASSUME NEW p \in DOMAIN Append(pipes, new)
        PROVE  \/ p \in DOMAIN pipes /\ Append(pipes, new)[p] = pipes[p]
               \/ Append(pipes, new)[p] = new
    BY <2>1
  <2> QED BY <1>1, <2>2
<1>5. TypeOK'
  <2>1. Idle \in [writes : Seq(Issue), user : Someone,
                  queue : {"none", "finalize", "remove"}, batch : Batches]
    BY UsersAssumption DEF Idle, Someone, Batches
  <2>2. pipes' \in Seq([kind : DOMAIN JobsOf, at : Nat \ {0}, copy : Seq(Issue)])
    BY <1>1, <1>2, <1>3
  <2> QED BY <1>1, <2>1, <2>2 DEF IInv, TypeOK
<1>6. RowsGood'
  <2>1. \A x \in Requests : req'[x] = IF x = q THEN Idle ELSE req[x]
    BY <1>1, <1>3
  <2>2. \A x \in Requests : \A i \in DOMAIN req'[x].writes : GoodRow(req'[x].writes[i])
    BY <2>1 DEF IInv, RowsGood, Idle
  <2>3. \A p \in DOMAIN pipes' : \A i \in DOMAIN pipes'[p].copy : GoodRow(pipes'[p].copy[i])
    BY <1>2, <1>4 DEF IInv, RowsGood
  <2> QED BY <1>1, <2>2, <2>3 DEF IInv, RowsGood, GoodRow, SignedOff, NotOwnWork
<1>7. JobsUnderWay'
  BY <1>2, <1>4 DEF IInv, JobsUnderWay, Unfinished
<1> QED BY <1>5, <1>6, <1>7 DEF IInv

LEMMA RequestDiesKeeps ==
  ASSUME IInv, NEW q \in Requests, RequestDies(q)
  PROVE  IInv'
<1>1. req' = [req EXCEPT ![q] = Idle] /\ UNCHANGED <<row, pipes, batched>>
  BY DEF RequestDies
<1>2. TypeOK'
  <2>1. Idle \in [writes : Seq(Issue), user : Someone,
                  queue : {"none", "finalize", "remove"}, batch : Batches]
    BY UsersAssumption DEF Idle, Someone, Batches
  <2> QED BY <1>1, <2>1 DEF IInv, TypeOK
<1>3. RowsGood'
  <2>1. \A x \in Requests : req'[x] = IF x = q THEN Idle ELSE req[x]
    BY <1>1 DEF IInv, TypeOK
  <2>2. \A x \in Requests : \A i \in DOMAIN req'[x].writes : GoodRow(req'[x].writes[i])
    BY <2>1 DEF IInv, RowsGood, Idle
  <2> QED BY <1>1, <2>2 DEF IInv, RowsGood, GoodRow, SignedOff, NotOwnWork
<1>4. JobsUnderWay'
  BY <1>1 DEF IInv, JobsUnderWay, Unfinished
<1> QED BY <1>2, <1>3, <1>4 DEF IInv

LEMMA ClaimExpiresKeeps ==
  ASSUME IInv, ClaimExpires
  PROVE  IInv'
<1>1. row' = [row EXCEPT !.current = FALSE] /\ UNCHANGED <<req, pipes, batched>>
  BY DEF ClaimExpires
<1>2. GoodRow(row)
  BY DEF IInv, RowsGood
<1>3. GoodRow(row')
  BY <1>1, <1>2 DEF GoodRow, Issue, SignedOff, NotOwnWork
<1>4. TypeOK'
  BY <1>1, <1>3 DEF IInv, TypeOK, GoodRow
<1>5. RowsGood'
  BY <1>1, <1>3 DEF IInv, RowsGood, GoodRow, SignedOff, NotOwnWork
<1>6. JobsUnderWay'
  BY <1>1 DEF IInv, JobsUnderWay, Unfinished
<1> QED BY <1>4, <1>5, <1>6 DEF IInv

Pipe == [kind : DOMAIN JobsOf, at : Nat \ {0}, copy : Seq(Issue)]

(* A pipeline replaced by a good one                                       *)
LEMMA PipeReplaced ==
  ASSUME IInv, NEW p \in DOMAIN pipes, NEW new \in Pipe,
         pipes' = [pipes EXCEPT ![p] = new], UNCHANGED req,
         \A i \in DOMAIN new.copy : GoodRow(new.copy[i]),
         new.copy # <<>> => new.at <= Len(JobsOf[new.kind]),
         GoodRow(row)', batched' = batched
  PROVE  IInv'
<1>1. pipes \in Seq(Pipe)
  BY DEF IInv, TypeOK, Pipe
<1>2. /\ pipes' \in Seq(Pipe) /\ DOMAIN pipes' = DOMAIN pipes
      /\ \A x \in DOMAIN pipes : pipes'[x] = IF x = p THEN new ELSE pipes[x]
  <2> HIDE DEF Pipe
  <2> QED BY <1>1
<1>3. TypeOK'
  <2>1. row' \in Issue
    BY DEF GoodRow
  <2> QED BY <1>2, <2>1 DEF IInv, TypeOK, Pipe
<1>4. RowsGood'
  <2>1. \A x \in DOMAIN pipes' : \A i \in DOMAIN pipes'[x].copy : GoodRow(pipes'[x].copy[i])
    BY <1>2 DEF IInv, RowsGood
  <2>2. \A q \in Requests : \A i \in DOMAIN req'[q].writes : GoodRow(req'[q].writes[i])
    BY DEF IInv, RowsGood
  <2> QED BY <2>1, <2>2 DEF RowsGood, GoodRow, SignedOff, NotOwnWork
<1>5. JobsUnderWay'
  BY <1>2 DEF IInv, JobsUnderWay, Unfinished
<1> QED BY <1>3, <1>4, <1>5 DEF IInv

LEMMA PipeTyped ==
  ASSUME IInv, NEW p \in DOMAIN pipes
  PROVE  pipes[p] \in Pipe
<1>1. pipes \in Seq(Pipe)
  BY DEF IInv, TypeOK, Pipe
<1> QED BY <1>1

LEMMA NewIssueJobKeeps ==
  ASSUME IInv, NEW p \in DOMAIN pipes, NewIssueJob(p)
  PROVE  IInv'
<1> DEFINE new == [pipes[p] EXCEPT !.copy = <<row>>]
<1>1. pipes' = [pipes EXCEPT ![p] = new] /\ UNCHANGED <<row, req, batched>>
  BY DEF NewIssueJob
<1>2. GoodRow(row) /\ row \in Issue
  BY DEF IInv, RowsGood, GoodRow
<1>3. new \in Pipe /\ new.copy = <<row>> /\ new.at = pipes[p].at /\ new.kind = pipes[p].kind
  <2>1. pipes[p] \in Pipe
    BY PipeTyped
  <2>2. <<row>> \in Seq(Issue)
    BY <1>2
  <2> QED BY <2>1, <2>2 DEF Pipe
<1>4. \A i \in DOMAIN new.copy : GoodRow(new.copy[i])
  BY <1>2, <1>3
<1>5. new.copy # <<>> => new.at <= Len(JobsOf[new.kind])
  BY <1>3 DEF NewIssueJob, Unfinished
<1>6. GoodRow(row)'
  BY <1>1, <1>2 DEF GoodRow, SignedOff, NotOwnWork
<1> HIDE DEF new
<1> QED BY <1>1, <1>3, <1>4, <1>5, <1>6, PipeReplaced

LEMMA ProcessKeeps ==
  ASSUME IInv, NEW p \in DOMAIN pipes, Process(p)
  PROVE  IInv'
<1> DEFINE copy == pipes[p].copy
           new == [kind |-> pipes[p].kind, at |-> pipes[p].at + 1, copy |-> <<>>]
<1>1. /\ copy # <<>> /\ row' = Processed(NextJob(p), Head(copy))
      /\ pipes' = [pipes EXCEPT ![p] = new] /\ UNCHANGED <<req, batched>>
  BY DEF Process
<1>2. pipes[p] \in Pipe
  BY PipeTyped
<1>3. GoodRow(Head(copy))
  <2>1. Head(copy) = copy[1] /\ 1 \in DOMAIN copy
    BY <1>1, <1>2 DEF Pipe
  <2> QED BY <2>1 DEF IInv, RowsGood
<1>4. NextJob(p) \in JobNames
  <2>1. pipes[p].kind \in DOMAIN JobsOf /\ pipes[p].at \in Nat \ {0}
    BY <1>2 DEF Pipe
  <2>2. pipes[p].at <= Len(JobsOf[pipes[p].kind])
    BY <1>1 DEF IInv, JobsUnderWay, Unfinished
  <2>3. Len(JobsOf[pipes[p].kind]) \in Nat
    BY <2>1 DEF JobsOf
  <2>4. pipes[p].at \in 1..Len(JobsOf[pipes[p].kind])
    BY <2>1, <2>2, <2>3
  <2> QED BY <2>1, <2>4, JobsOfNames DEF NextJob
<1>5. GoodRow(Processed(NextJob(p), Head(copy)))
  <2> DEFINE r == Head(copy)
             job == NextJob(p)
  <2> HIDE DEF r, job
  <2>1. ASSUME job \in JobNames, GoodRow(r) PROVE GoodRow(Processed(job, r))
    <3>1. r \in Issue /\ (r.step = "ReadyForMETSXML" => SignedOff(r))
      BY <2>1 DEF GoodRow
    <3>2. CASE job = "ignore"
      BY <3>1, <3>2 DEF GoodRow, Processed, Issue, SignedOff, NotOwnWork
    <3>3. CASE job = "save"
      BY <2>1, <3>3 DEF Processed
    <3>4. CASE job \in Steps \ {"ReadyForMETSXML"}
      <4>1. job # "ignore" /\ job # "save"
        BY <3>4 DEF Steps
      <4>2. Processed(job, r) = [r EXCEPT !.step = job]
        BY <4>1 DEF Processed
      <4> QED BY <3>1, <3>4, <4>2 DEF GoodRow, Issue
    <3> QED BY <2>1, <3>2, <3>3, <3>4 DEF JobNames
  <2> QED BY <1>3, <1>4, <2>1 DEF r, job
<1>6. GoodRow(row)'
  BY <1>1, <1>5 DEF GoodRow, SignedOff, NotOwnWork
<1>7. new \in Pipe /\ new.copy = <<>>
  BY <1>2 DEF Pipe
<1>8. \A i \in DOMAIN new.copy : GoodRow(new.copy[i])
  BY <1>7
<1> HIDE DEF new
<1> QED BY <1>1, <1>6, <1>7, <1>8, PipeReplaced

LEMMA JobFailsKeeps ==
  ASSUME IInv, NEW p \in DOMAIN pipes, JobFails(p)
  PROVE  IInv'
<1> DEFINE new == [pipes[p] EXCEPT !.copy = <<>>]
<1>1. pipes' = [pipes EXCEPT ![p] = new] /\ UNCHANGED <<row, req, batched>>
  BY DEF JobFails
<1>2. new \in Pipe /\ new.copy = <<>>
  <2>1. pipes[p] \in Pipe
    BY PipeTyped
  <2>2. <<>> \in Seq(Issue)
    OBVIOUS
  <2> QED BY <2>1, <2>2 DEF Pipe
<1>3. \A i \in DOMAIN new.copy : GoodRow(new.copy[i])
  BY <1>2
<1>4. GoodRow(row)'
  BY <1>1 DEF IInv, RowsGood, GoodRow, SignedOff, NotOwnWork
<1> HIDE DEF new
<1> QED BY <1>1, <1>2, <1>3, <1>4, PipeReplaced

----------------------------------------------------------------------------
LEMMA InitGood == Init => IInv
<1> SUFFICES ASSUME Init PROVE IInv
  OBVIOUS
<1>1. row \in Issue /\ row.step = "AwaitingProcessing"
  BY UsersAssumption DEF Init, Issue, Steps, Someone, Batches
<1>2. Queued("derivatives") \in Pipe /\ Queued("derivatives").copy = <<>>
  BY DEF Queued, Pipe, JobsOf
<1>3. pipes = <<Queued("derivatives")>>
  BY DEF Init
<1> DEFINE d == Queued("derivatives")
<1> HIDE DEF d
<1>4. /\ pipes \in Seq(Pipe)
      /\ \A p \in DOMAIN pipes : pipes[p].copy = <<>>
  <2>1. pipes = <<d>> /\ d \in Pipe /\ d.copy = <<>>
    BY <1>2, <1>3 DEF d
  <2> QED BY <2>1
<1>5. Idle \in [writes : Seq(Issue), user : Someone,
                queue : {"none", "finalize", "remove"}, batch : Batches]
  BY UsersAssumption DEF Idle, Someone, Batches
<1>6. TypeOK
  BY <1>1, <1>4, <1>5 DEF Init, TypeOK, Pipe
<1>7. RowsGood
  <2>1. GoodRow(row)
    BY <1>1 DEF GoodRow
  <2>2. \A q \in Requests : req[q].writes = <<>>
    BY DEF Init, Idle
  <2> QED BY <1>4, <2>1, <2>2 DEF RowsGood
<1>8. JobsUnderWay
  BY <1>4 DEF JobsUnderWay
<1> QED BY <1>6, <1>7, <1>8 DEF IInv

LEMMA StepKeeps == IInv /\ [Next]_vars => IInv'
<1> SUFFICES ASSUME IInv, [Next]_vars PROVE IInv'
  OBVIOUS
<1>1. ASSUME NEW q \in Requests, NEW u \in Users, Load(q, u) PROVE IInv'
  BY <1>1, LoadKeeps
<1>2. ASSUME NEW q \in Requests, FindReadyIssues(q) PROVE IInv'
  BY <1>2, FindReadyIssuesKeeps
<1>3. ASSUME NEW q \in Requests, Write(q) PROVE IInv'
  BY <1>3, WriteKeeps
<1>4. ASSUME NEW q \in Requests, QueuePipeline(q) PROVE IInv'
  BY <1>4, QueuePipelineKeeps
<1>5. ASSUME NEW q \in Requests, RequestDies(q) PROVE IInv'
  BY <1>5, RequestDiesKeeps
<1>6. ASSUME NEW p \in 1..Len(pipes), NewIssueJob(p) \/ Process(p) \/ JobFails(p)
      PROVE  IInv'
  <2>1. p \in DOMAIN pipes
    BY DEF IInv, TypeOK
  <2> QED BY <1>6, <2>1, NewIssueJobKeeps, ProcessKeeps, JobFailsKeeps
<1>7. CASE ClaimExpires
  BY <1>7, ClaimExpiresKeeps
<1>8. CASE UNCHANGED vars
  BY <1>8 DEF vars, IInv, TypeOK, RowsGood, JobsUnderWay, GoodRow, SignedOff, NotOwnWork,
              Unfinished
<1> QED BY <1>1, <1>2, <1>3, <1>4, <1>5, <1>6, <1>7, <1>8 DEF Next

(* Every row in the table or on its way there is well typed, and, if it
   says that it waits for its METS, approved as Can.ReviewMetadata asks.   *)
THEOREM Invariance == Spec => []IInv
BY InitGood, StepKeeps, PTL DEF Spec

(* However many requests and jobs overlap, an issue that waits for its METS
   is valid and was approved by another than its author, or by a manager.  *)
THEOREM ReviewHolds == Spec => []ReviewedByAnother
<1>1. IInv => ReviewedByAnother
  BY DEF IInv, RowsGood, GoodRow, ReviewedByAnother
<1> QED BY <1>1, Invariance, PTL

(* The row, the pending writes and the jobs' copies stay well typed.       *)
THEOREM TypeCorrect == Spec => []TypeOK
<1>1. IInv => TypeOK
  BY DEF IInv
<1> QED BY <1>1, Invariance, PTL

----------------------------------------------------------------------------
(* One writer at a time.  What a request plans, or a job has loaded, then  *)
(* stays what the row calls for until it is written: no other writer comes *)
(* between.  The pipelines that set the issue's step are the one thing that*)
(* goes on beside the people, and they do so only in the steps in which    *)
(* nobody can work on the issue.                                           *)

HumanSteps == {"ReadyForMetadataEntry", "AwaitingMetadataReview", "UnfixableMetadataError"}

(* Where each pipeline finds the issue, and its last job that does not write
   back what it loaded                                                     *)
Source == [derivatives |-> "AwaitingProcessing", finalize |-> "ReadyForMETSXML",
           remove |-> "AwaitingProcessing"]
LastSetter == [derivatives |-> 3, finalize |-> 2, remove |-> 4]

Writing(q)  == req[q].writes # <<>>
Loaded(p)   == pipes[p].copy # <<>>
Driving(p)  == pipes[p].at <= LastSetter[pipes[p].kind]
Queueing(q) == req[q].writes = <<>> /\ req[q].queue # "none"

OneWriter ==
  /\ \A q, x \in Requests : Writing(q) /\ Writing(x) => q = x
  /\ \A p, o \in DOMAIN pipes : Loaded(p) /\ Loaded(o) => p = o
  /\ \A q \in Requests, p \in DOMAIN pipes : ~(Writing(q) /\ Loaded(p))

(* At most one pipeline, queued or about to be, will yet set the step, and
   the issue is where that pipeline starts from.                           *)
OneDriver ==
  /\ \A p \in DOMAIN pipes : Driving(p) => row.step = Source[pipes[p].kind]
  /\ \A q \in Requests : Queueing(q) => row.step = Source[req[q].queue]
  /\ \A p, o \in DOMAIN pipes : Driving(p) /\ Driving(o) => p = o
  /\ \A q, x \in Requests : Queueing(q) /\ Queueing(x) => q = x
  /\ \A q \in Requests, p \in DOMAIN pipes : ~(Queueing(q) /\ Driving(p))

(* A row that may be written: nobody owns an issue nobody can work on.     *)
FreeRow(r) == r.batch = 0 /\ (r.owner # Nobody => r.step \in HumanSteps)

(* The writes w of a person's request that goes on to queue                *)
PersonsWrites(w, queue) ==
  /\ \A i \in DOMAIN w : FreeRow(w[i])
  /\ queue = "none" => \A i \in DOMAIN w : w[i].step \in HumanSteps
  /\ queue # "none" => Len(w) = 1 /\ w[1].step = Source[queue]

Planned ==
  \A q \in Requests : Writing(q) =>
    IF req[q].batch = 0
    THEN /\ row.step \in HumanSteps /\ row.batch = 0
         /\ PersonsWrites(req[q].writes, req[q].queue)
    ELSE /\ row.step = "ReadyForBatching" /\ row.batch = 0 /\ req[q].queue = "none"
         /\ req[q].writes = <<AddedToBatch(row, req[q].batch)>>

RowInOrder ==
  /\ row.step = "ReadyForBatching" => SignedOff(row)
  /\ row.batch # 0 => row.step = "ReadyForBatching"
  /\ row.owner # Nobody => row.step \in HumanSteps

Fresh == \A p \in DOMAIN pipes : Loaded(p) => pipes[p].copy = <<row>>

SerialInv == OneWriter /\ OneDriver /\ Planned /\ RowInOrder /\ Fresh

RequestType == [writes : Seq(Issue), user : Someone,
                queue : {"none", "finalize", "remove"}, batch : Batches]

(* When a reader may begin, nobody has yet to write.                       *)
LEMMA NobodyBusy ==
  ASSUME IInv, Overlap = 1, InFlight < Overlap \/ InFlight = 0
  PROVE  (\A q \in Requests : ~Writing(q)) /\ (\A p \in DOMAIN pipes : ~Loaded(p))
<1> DEFINE R == {q \in Requests : req[q].writes # <<>>}
           P == {p \in 1..Len(pipes) : pipes[p].copy # <<>>}
<1>1. IsFiniteSet(R)
  BY UsersAssumption, FS_Subset
<1>2. Len(pipes) \in Nat /\ DOMAIN pipes = 1..Len(pipes)
  BY DEF IInv, TypeOK
<1>3. IsFiniteSet(P)
  <2>1. IsFiniteSet(1..Len(pipes))
    BY <1>2, FS_Interval
  <2>2. P \subseteq 1..Len(pipes)
    OBVIOUS
  <2> QED BY <2>1, <2>2, FS_Subset
<1>4. Cardinality(R) + Cardinality(P) = InFlight
  BY DEF InFlight
<1>5. Cardinality(R) \in Nat /\ Cardinality(P) \in Nat
  BY <1>1, <1>3, FS_CardinalityType
<1> HIDE DEF R, P
<1>6. Cardinality(R) = 0 /\ Cardinality(P) = 0
  BY <1>4, <1>5
<1>7. R = {} /\ P = {}
  BY <1>1, <1>3, <1>6, FS_EmptySet
<1> QED BY <1>2, <1>7 DEF R, P, Writing, Loaded

(* What the rows and the requests look like, for the proofs below          *)
LEMMA Typed ==
  ASSUME IInv
  PROVE  /\ row \in Issue /\ GoodRow(row)
         /\ req \in [Requests -> RequestType]
         /\ pipes \in Seq(Pipe)
         /\ \A p \in DOMAIN pipes : pipes[p] \in Pipe /\ pipes[p].at \in Nat
                                    /\ pipes[p].kind \in {"derivatives", "finalize", "remove"}
<1>1. row \in Issue /\ GoodRow(row) /\ req \in [Requests -> RequestType] /\ pipes \in Seq(Pipe)
  BY DEF IInv, TypeOK, RowsGood, RequestType, Pipe
<1>2. \A p \in DOMAIN pipes : pipes[p] \in Pipe
  BY PipeTyped
<1>3. DOMAIN JobsOf = {"derivatives", "finalize", "remove"}
  BY DEF JobsOf
<1> QED BY <1>1, <1>2, <1>3 DEF Pipe

(* The three kinds of step                                                 *)
LEMMA StepKinds ==
  /\ \A k \in {"derivatives", "finalize", "remove"} :
       Source[k] \notin HumanSteps /\ Source[k] # "ReadyForBatching" /\ LastSetter[k] \in Nat
  /\ "ReadyForBatching" \notin HumanSteps
  /\ Source["finalize"] = "ReadyForMETSXML" /\ Source["remove"] = "AwaitingProcessing"
BY DEF Source, HumanSteps, LastSetter

(* A person's request begins.                                              *)
LEMMA StartSerial ==
  ASSUME IInv, SerialInv, Overlap = 1, NEW q \in Requests, NEW u \in Users,
         NEW queue \in {"none", "finalize", "remove"}, NEW w, Start(q, u, w, queue),
         PersonsWrites(w, queue), row.step \in HumanSteps
  PROVE  SerialInv'
<1> DEFINE new == [writes |-> w, user |-> u, queue |-> queue, batch |-> 0]
<1>1. /\ req' = [req EXCEPT ![q] = new] /\ w # <<>> /\ UNCHANGED <<row, pipes, batched>>
      /\ InFlight < Overlap
  BY DEF Start
<1>2. (\A x \in Requests : ~Writing(x)) /\ (\A p \in DOMAIN pipes : ~Loaded(p))
  BY <1>1, NobodyBusy
<1>3. \A x \in Requests : req'[x] = IF x = q THEN new ELSE req[x]
  BY <1>1, Typed
<1>4. \A x \in Requests : x # q => ~Writing(x)' /\ (Queueing(x)' <=> Queueing(x))
                                   /\ req'[x].queue = req[x].queue
  BY <1>2, <1>3 DEF Writing, Queueing
<1>5. ~Queueing(q)'
  BY <1>1, <1>3 DEF Queueing
<1>6. \A p : (Driving(p)' <=> Driving(p)) /\ (Loaded(p)' <=> Loaded(p)) /\ pipes'[p] = pipes[p]
  BY <1>1 DEF Driving, Loaded
<1>7. OneWriter'
  BY <1>1, <1>2, <1>4, <1>6 DEF OneWriter
<1>8. OneDriver'
  <2>1. \A x \in Requests : Queueing(x)' => x # q /\ Queueing(x) /\ req'[x].queue = req[x].queue
    BY <1>4, <1>5
  <2>2. row' = row /\ DOMAIN pipes' = DOMAIN pipes
    BY <1>1
  <2> QED BY <1>6, <2>1, <2>2 DEF SerialInv, OneDriver
<1>9. Planned'
  <2>1. row' = row /\ row.batch = 0
    BY <1>1, StepKinds DEF SerialInv, RowInOrder
  <2>2. req'[q] = new
    BY <1>3
  <2>3. ASSUME NEW x \in Requests, Writing(x)' PROVE x = q
    BY <1>4, <2>3
  <2>4. /\ req'[q].batch = 0 /\ req'[q].writes = w /\ req'[q].user = u /\ req'[q].queue = queue
    BY <2>2
  <2>5. PersonsWrites(req'[q].writes, req'[q].queue)
    BY <2>4
  <2>6. row'.step \in HumanSteps /\ row'.batch = 0
    BY <2>1
  <2> QED BY <2>3, <2>4, <2>5, <2>6 DEF Planned, PersonsWrites, FreeRow
<1>10. RowInOrder' /\ Fresh'
  BY <1>1, <1>6 DEF SerialInv, RowInOrder, Fresh, SignedOff, NotOwnWork
<1> QED BY <1>7, <1>8, <1>9, <1>10 DEF SerialInv

(* One row, which leaves the issue with people or sends it to a pipeline   *)
LEMMA OneWrite ==
  ASSUME NEW r, NEW queue \in {"none", "finalize", "remove"}, FreeRow(r),
         IF queue = "none" THEN r.step \in HumanSteps ELSE r.step = Source[queue]
  PROVE  PersonsWrites(<<r>>, queue)
BY DEF PersonsWrites

(* An edited row of the user's own before the others                       *)
LEMMA OneMoreWrite ==
  ASSUME NEW e \in Issue, NEW w \in Seq(Issue), PersonsWrites(w, "none"),
         FreeRow(e), e.step \in HumanSteps
  PROVE  PersonsWrites(<<e>> \o w, "none")
<1> DEFINE v == <<e>> \o w
<1>1. v \in Seq(Issue) /\ Len(v) = Len(w) + 1 /\ Len(w) \in Nat
  OBVIOUS
<1>2. DOMAIN v = 1..Len(w) + 1 /\ DOMAIN w = 1..Len(w)
  BY <1>1
<1>3. v[1] = e /\ \A i \in DOMAIN w : v[i + 1] = w[i]
  OBVIOUS
<1> HIDE DEF v
<1>4. \A i \in DOMAIN v : i = 1 \/ (i - 1 \in DOMAIN w /\ v[i] = w[i - 1])
  <2>1. ASSUME NEW i \in DOMAIN v, i # 1
        PROVE  i - 1 \in DOMAIN w /\ (i - 1) + 1 = i
    BY <1>1, <1>2, <2>1
  <2> QED BY <1>3, <2>1
<1>5. \A i \in DOMAIN v : FreeRow(v[i]) /\ v[i].step \in HumanSteps
  BY <1>3, <1>4 DEF PersonsWrites
<1> QED BY <1>5 DEF PersonsWrites, v

LEMMA LoadSerial ==
  ASSUME IInv, SerialInv, Overlap = 1, NEW q \in Requests, NEW u \in Users, Load(q, u)
  PROVE  SerialInv'
<1>0. row \in Issue /\ (row.owner # Nobody => row.step \in HumanSteps) /\ u \in Someone
  BY Typed DEF SerialInv, RowInOrder, Someone
<1>b. row.step \in HumanSteps => row.batch = 0
  BY StepKinds DEF SerialInv, RowInOrder
<1>c. ASSUME NEW r \in Issue, NEW v \in Someone
      PROVE  /\ Claimed(r, v).step = r.step /\ Claimed(r, v).batch = r.batch
             /\ Unclaimed(r).step = r.step /\ Unclaimed(r).batch = r.batch
             /\ Unclaimed(r).owner = Nobody
             /\ Unclaimed(r) \in Issue
  BY <1>c DEF Claimed, Unclaimed, Issue, Someone
<1>1. CASE claimIssue(q, u)
  <2>1. row.step \in HumanSteps
    BY <1>1 DEF claimIssue, CanClaim, HumanSteps
  <2>2. FreeRow(Claimed(row, u)) /\ Claimed(row, u).step \in HumanSteps
    BY <1>0, <1>b, <1>c, <2>1 DEF FreeRow
  <2>3. PersonsWrites(<<Claimed(row, u)>>, "none")
    BY <2>2, OneWrite
  <2> QED BY <1>1, <2>1, <2>3, StartSerial DEF claimIssue
<1>2. CASE unclaimIssue(q, u)
  <2>1. row.step \in HumanSteps /\ row.owner = u
    BY <1>0, <1>2 DEF unclaimIssue, Owns, IsOwned
  <2>2. FreeRow(Unclaimed(row)) /\ Unclaimed(row).step \in HumanSteps
    BY <1>0, <1>b, <1>c, <2>1 DEF FreeRow
  <2>3. PersonsWrites(<<Unclaimed(row)>>, "none")
    BY <2>2, OneWrite
  <2> QED BY <1>2, <2>1, <2>3, StartSerial DEF unclaimIssue
<1>3. CASE saveDraft(q, u)
  <2>1. row.step \in HumanSteps /\ row.owner = u
    BY <1>3 DEF saveDraft, CanEnterMetadata, Owns, HumanSteps
  <2>2. PICK valid \in BOOLEAN : Start(q, u, <<Edited(row, u, valid)>>, "none")
    BY <1>3 DEF saveDraft
  <2>3. FreeRow(Edited(row, u, valid)) /\ Edited(row, u, valid).step \in HumanSteps
    BY <1>0, <1>b, <2>1 DEF FreeRow, Edited, Issue
  <2>4. PersonsWrites(<<Edited(row, u, valid)>>, "none")
    BY <2>3, OneWrite
  <2> QED BY <2>1, <2>2, <2>4, StartSerial
<1>4. CASE saveQueue(q, u)
  <2> DEFINE e == Edited(row, u, TRUE)
  <2>1. row.step \in HumanSteps /\ row.owner = u
    BY <1>4 DEF saveQueue, CanEnterMetadata, Owns, HumanSteps
  <2>2. e \in Issue /\ e.step = row.step /\ e.owner = u /\ e.batch = 0
    BY <1>0, <1>b, <2>1 DEF Edited, Issue
  <2>3. ASSUME NEW r \in Issue, r.batch = 0
        PROVE  /\ FreeRow(QueuedForMetadataReview(r, u))
               /\ QueuedForMetadataReview(r, u).step \in HumanSteps
    <3> DEFINE s == [Unclaimed(r) EXCEPT !.step = "AwaitingMetadataReview", !.author = u]
    <3>1. s \in Issue /\ s.step = "AwaitingMetadataReview" /\ s.batch = 0
      BY <1>0, <1>c, <2>3 DEF Issue, Steps
    <3>2. r.rejecter \in Someone
      BY <2>3 DEF Issue
    <3> HIDE DEF s
    <3>3. Claimed(s, r.rejecter).step = "AwaitingMetadataReview" /\ Claimed(s, r.rejecter).batch = 0
      BY <1>c, <3>1, <3>2
    <3> QED BY <3>3 DEF s, FreeRow, QueuedForMetadataReview, HumanSteps
  <2> HIDE DEF e
  <2>4. ASSUME NEW writes \in QueueWrites(row, u)
        PROVE  PersonsWrites(writes, "none")
    <3> DEFINE qr == QueuedForMetadataReview(row, u)
    <3>1. FreeRow(qr) /\ qr.step \in HumanSteps
      BY <1>0, <1>b, <2>1, <2>3
    <3>2. writes = <<qr>> \/ writes = <<qr, qr>>
      BY DEF QueueWrites
    <3> HIDE DEF qr
    <3>3. PersonsWrites(<<qr>>, "none") /\ PersonsWrites(<<qr, qr>>, "none")
      BY <3>1 DEF PersonsWrites
    <3> QED BY <3>2, <3>3
  <2>5. ASSUME NEW writes \in QueueWrites(e, u)
        PROVE  PersonsWrites(<<e>> \o writes, "none")
    <3> DEFINE qr == QueuedForMetadataReview(e, u)
    <3>1. FreeRow(qr) /\ qr.step \in HumanSteps
      BY <2>2, <2>3
    <3>2. writes = <<qr>> \/ writes = <<qr, qr>>
      BY DEF QueueWrites
    <3>3. FreeRow(e) /\ e.step \in HumanSteps
      BY <2>1, <2>2 DEF FreeRow
    <3>4. GoodRow(e)
      <4>1. row.step = "ReadyForMetadataEntry" /\ GoodRow(row) /\ TRUE \in BOOLEAN
        BY <1>4, Typed DEF saveQueue, CanEnterMetadata
      <4>2. 0 \in Batches /\ "ReadyForBatching" \in Steps \ {"ReadyForMETSXML"}
        BY UsersAssumption DEF Batches, Steps
      <4> QED BY <1>0, <4>1, <4>2, ChangesKeepGood DEF e
    <3>5. writes \in Seq(Issue)
      BY <3>4, QueueWritesGood
    <3> HIDE DEF qr
    <3>6. PersonsWrites(<<qr>>, "none") /\ PersonsWrites(<<qr, qr>>, "none")
      BY <3>1 DEF PersonsWrites
    <3> QED BY <2>2, <3>2, <3>3, <3>5, <3>6, OneMoreWrite
  <2>6. CASE \E writes \in QueueWrites(row, u) : Start(q, u, writes, "none")
    BY <2>1, <2>4, <2>6, StartSerial
  <2>7. CASE \E writes \in QueueWrites(e, u) : Start(q, u, <<e>> \o writes, "none")
    BY <2>1, <2>5, <2>7, StartSerial
  <2> QED BY <1>4, <2>6, <2>7 DEF saveQueue, e
<1>5. CASE saveError(q, u)
  <2>1. row.step \in HumanSteps /\ row.owner = u
    BY <1>5 DEF saveError, CanEnterMetadata, Owns, HumanSteps
  <2>2. FreeRow(ErrorReported(row)) /\ ErrorReported(row).step \in HumanSteps
    BY <1>0, <1>b, <1>c, <2>1 DEF FreeRow, ErrorReported, HumanSteps, Issue
  <2>3. PersonsWrites(<<ErrorReported(row)>>, "none")
    BY <2>2, OneWrite
  <2> QED BY <1>5, <2>1, <2>3, StartSerial DEF saveError
<1>6. CASE approveIssueMetadata(q, u)
  <2>1. row.step \in HumanSteps /\ row.owner = u
    BY <1>6 DEF approveIssueMetadata, CanReviewMetadata, Owns, HumanSteps
  <2>2. FreeRow(MetadataApproved(row, u)) /\ MetadataApproved(row, u).step = Source["finalize"]
    <3>1. Unclaimed(row) \in Issue /\ Unclaimed(row).batch = 0 /\ Unclaimed(row).owner = Nobody
      BY <1>0, <1>b, <1>c, <2>1
    <3> QED BY <3>1, StepKinds DEF FreeRow, MetadataApproved, Issue
  <2>3. PersonsWrites(<<MetadataApproved(row, u)>>, "finalize")
    BY <2>2, OneWrite
  <2> QED BY <1>6, <2>1, <2>3, StartSerial DEF approveIssueMetadata
<1>7. CASE rejectIssueMetadata(q, u)
  <2>1. row.step \in HumanSteps /\ row.owner = u
    BY <1>7 DEF rejectIssueMetadata, CanReviewMetadata, Owns, HumanSteps
  <2>2. Claimed(row, row.author) \in Issue /\ Claimed(row, row.author).batch = 0
    BY <1>0, <1>b, <2>1 DEF Claimed, Issue, Someone
  <2>3. FreeRow(MetadataRejected(row, u)) /\ MetadataRejected(row, u).step \in HumanSteps
    BY <2>2 DEF FreeRow, MetadataRejected, HumanSteps, Issue
  <2>4. PersonsWrites(<<MetadataRejected(row, u)>>, "none")
    BY <2>3, OneWrite
  <2> QED BY <1>7, <2>1, <2>4, StartSerial DEF rejectIssueMetadata
<1>8. CASE returnErrorIssue(q, u)
  <2>1. row.step \in HumanSteps /\ row.owner = u
    BY <1>8 DEF returnErrorIssue, CanReviewUnfixable, Owns, HumanSteps
  <2>2. PICK step \in {"ReadyForMetadataEntry", "AwaitingMetadataReview"}, v \in Someone :
           Start(q, u, <<ReturnedFor(row, step, v)>>, "none")
    BY <1>8 DEF returnErrorIssue
  <2> DEFINE s == [Unclaimed(row) EXCEPT !.step = step]
  <2>3. s \in Issue /\ s.step \in HumanSteps /\ s.batch = 0
    BY <1>0, <1>b, <1>c, <2>1 DEF Issue, Steps, HumanSteps
  <2> HIDE DEF s
  <2>4. FreeRow(Claimed(s, v)) /\ Claimed(s, v).step \in HumanSteps
    BY <1>c, <2>3 DEF FreeRow
  <2>5. PersonsWrites(<<ReturnedFor(row, step, v)>>, "none")
    BY <2>4, OneWrite DEF ReturnedFor, s
  <2> QED BY <2>1, <2>2, <2>5, StartSerial
<1>9. CASE removeUnfixableIssue(q, u)
  <2>1. row.step \in HumanSteps /\ row.owner = u
    BY <1>9 DEF removeUnfixableIssue, CanReviewUnfixable, Owns, HumanSteps
  <2>2. FreeRow(PreppedForRemoval(row)) /\ PreppedForRemoval(row).step = Source["remove"]
    <3>1. Unclaimed(row) \in Issue /\ Unclaimed(row).batch = 0 /\ Unclaimed(row).owner = Nobody
      BY <1>0, <1>b, <1>c, <2>1
    <3> QED BY <3>1, StepKinds DEF FreeRow, PreppedForRemoval, Issue
  <2>3. PersonsWrites(<<PreppedForRemoval(row)>>, "remove")
    BY <2>2, OneWrite
  <2> QED BY <1>9, <2>1, <2>3, StartSerial DEF removeUnfixableIssue
<1> QED BY <1>1, <1>2, <1>3, <1>4, <1>5, <1>6, <1>7, <1>8, <1>9 DEF Load

LEMMA FindReadyIssuesSerial ==
  ASSUME IInv, SerialInv, Overlap = 1, NEW q \in Requests, FindReadyIssues(q)
  PROVE  SerialInv'
<1>1. PICK b \in Batches \ {0} :
        req' = [req EXCEPT ![q] = [writes |-> <<AddedToBatch(row, b)>>, user |-> Nobody,
                                   queue |-> "none", batch |-> b]]
  BY DEF FindReadyIssues
<1> DEFINE new == [writes |-> <<AddedToBatch(row, b)>>, user |-> Nobody,
                   queue |-> "none", batch |-> b]
<1>2. /\ row.step = "ReadyForBatching" /\ row.batch = 0 /\ UNCHANGED <<row, pipes, batched>>
      /\ InFlight < Overlap
  BY DEF FindReadyIssues
<1>3. (\A x \in Requests : ~Writing(x)) /\ (\A p \in DOMAIN pipes : ~Loaded(p))
  BY <1>2, NobodyBusy
<1>4. \A x \in Requests : req'[x] = IF x = q THEN new ELSE req[x]
  BY <1>1, Typed
<1>5. \A x \in Requests : x # q => ~Writing(x)' /\ (Queueing(x)' <=> Queueing(x))
                                   /\ req'[x].queue = req[x].queue
  BY <1>3, <1>4 DEF Writing, Queueing
<1>6. ~Queueing(q)'
  BY <1>4 DEF Queueing
<1>7. \A p : (Driving(p)' <=> Driving(p)) /\ (Loaded(p)' <=> Loaded(p)) /\ pipes'[p] = pipes[p]
  BY <1>2 DEF Driving, Loaded
<1>8. OneWriter'
  BY <1>2, <1>3, <1>5, <1>7 DEF OneWriter
<1>9. OneDriver'
  <2>1. \A x \in Requests : Queueing(x)' => x # q /\ Queueing(x) /\ req'[x].queue = req[x].queue
    BY <1>5, <1>6
  <2>2. row' = row /\ DOMAIN pipes' = DOMAIN pipes
    BY <1>2
  <2> QED BY <1>7, <2>1, <2>2 DEF SerialInv, OneDriver
<1>10. Planned'
  <2>1. /\ req'[q].batch = b /\ req'[q].queue = "none" /\ b # 0
        /\ req'[q].writes = <<AddedToBatch(row, b)>>
    BY <1>4
  <2>2. row' = row
    BY <1>2
  <2>3. req'[q].writes = <<AddedToBatch(row', req'[q].batch)>>
    BY <2>1, <2>2
  <2>4. \A x \in Requests : Writing(x)' => x = q
    BY <1>5
  <2>5. row'.step = "ReadyForBatching" /\ row'.batch = 0
    BY <1>2, <2>2
  <2> QED BY <2>1, <2>3, <2>4, <2>5 DEF Planned, AddedToBatch
<1>11. RowInOrder' /\ Fresh'
  BY <1>2, <1>7 DEF SerialInv, RowInOrder, Fresh, SignedOff, NotOwnWork
<1> QED BY <1>8, <1>9, <1>10, <1>11 DEF SerialInv

(* Nothing is left of a single write.                                      *)
LEMMA ShortTail ==
  ASSUME NEW S, NEW s \in Seq(S), s # <<>>, Len(s) = 1
  PROVE  Tail(s) = <<>>
<1>1. Tail(s) \in Seq(S) /\ Len(Tail(s)) = Len(s) - 1
  BY HeadTailProperties
<1>2. Len(Tail(s)) = 0
  BY <1>1
<1>3. Len(Tail(s)) \notin Nat \ {0}
  BY <1>2
<1> QED BY <1>1, <1>3, EmptySeq

(* The next write of a request: what it loaded is what is in the table.     *)
LEMMA WriteSerial ==
  ASSUME IInv, SerialInv, NEW q \in Requests, Write(q)
  PROVE  SerialInv'
<1> DEFINE w == req[q].writes
           new == AfterWrite(req[q])
<1>1. /\ row' = Head(w) /\ req' = [req EXCEPT ![q] = new] /\ UNCHANGED pipes /\ w # <<>>
      /\ batched' = IF req[q].batch = 0 THEN batched ELSE batched \cup {req[q].batch}
  BY DEF Write
<1>2. /\ w \in Seq(Issue) /\ Len(w) \in Nat \ {0} /\ DOMAIN w = 1..Len(w) /\ Head(w) = w[1]
      /\ req[q] \in RequestType
  <2>1. req[q] \in RequestType
    BY Typed
  <2>2. w \in Seq(Issue)
    BY <2>1 DEF RequestType
  <2> HIDE DEF w
  <2> QED BY <1>1, <2>1, <2>2
<1>3. /\ Len(w) = 1 /\ req[q].queue = "none" => new = Idle
      /\ ~(Len(w) = 1 /\ req[q].queue = "none") =>
           /\ new.writes = Tail(w)
           /\ new.queue = req[q].queue /\ new.batch = req[q].batch
  BY <1>2 DEF AfterWrite, RequestType
<1>4. \A x \in Requests : req'[x] = IF x = q THEN new ELSE req[x]
  BY <1>1, Typed
<1>5. /\ \A x \in Requests : x # q => ~Writing(x)
      /\ \A p \in DOMAIN pipes : ~Loaded(p)
      /\ Writing(q)
  BY <1>1 DEF SerialInv, OneWriter, Writing
<1> HIDE DEF w, new
<1>6. \A x \in Requests : x # q => ~Writing(x)' /\ (Queueing(x)' <=> Queueing(x))
  BY <1>4, <1>5 DEF Writing, Queueing
<1>7. \A p : (Driving(p)' <=> Driving(p)) /\ (Loaded(p)' <=> Loaded(p)) /\ pipes'[p] = pipes[p]
  BY <1>1 DEF Driving, Loaded
<1>8. OneWriter' /\ Fresh'
  BY <1>1, <1>5, <1>6, <1>7 DEF OneWriter, Fresh
<1>9. row.step \in HumanSteps \cup {"ReadyForBatching"} /\ row.batch = 0
  BY <1>5 DEF SerialInv, Planned, RowInOrder
<1>10. (\A p \in DOMAIN pipes : ~Driving(p)) /\ (\A x \in Requests : ~Queueing(x))
  <2>1. \A p \in DOMAIN pipes : Source[pipes[p].kind] \notin HumanSteps \cup {"ReadyForBatching"}
    BY Typed, StepKinds
  <2>2. \A x \in Requests : Queueing(x) => Source[req[x].queue] \notin HumanSteps \cup {"ReadyForBatching"}
    BY Typed, StepKinds DEF RequestType, Queueing
  <2> QED BY <1>9, <2>1, <2>2 DEF SerialInv, OneDriver
<1>11. CASE req[q].batch = 0
  <2>1. /\ row.step \in HumanSteps
        /\ PersonsWrites(w, req[q].queue)
    BY <1>5, <1>11 DEF SerialInv, Planned, w
  <2>2. row' = w[1] /\ FreeRow(w[1]) /\ row' \in Issue
    BY <1>1, <1>2, <2>1 DEF PersonsWrites
  <2>3. CASE req[q].queue = "none"
    <3>1. row'.step \in HumanSteps
      BY <1>2, <2>1, <2>2, <2>3 DEF PersonsWrites
    <3>2. ~Queueing(q)'
      <4>1. CASE Len(w) = 1
        BY <1>3, <1>4, <2>3, <4>1 DEF Queueing, Idle
      <4>2. CASE Len(w) # 1
        BY <1>3, <1>4, <2>3, <4>2 DEF Queueing
      <4> QED BY <4>1, <4>2
    <3>3. OneDriver'
      BY <1>1, <1>6, <1>7, <1>10, <3>2 DEF OneDriver
    <3>4. Planned'
      <4>1. SUFFICES ASSUME Writing(q)'
                     PROVE  /\ req'[q].batch = 0
                            /\ PersonsWrites(req'[q].writes, req'[q].queue)
        BY <1>6, <2>2, <3>1 DEF Planned, PersonsWrites, FreeRow
      <4>2. Len(w) # 1
        BY <1>3, <1>4, <2>3, <4>1 DEF Writing, Idle
      <4>3. /\ req'[q].writes = Tail(w)
            /\ req'[q].queue = "none" /\ req'[q].batch = 0
        BY <1>3, <1>4, <1>11, <2>3, <4>2
      <4>4. Len(Tail(w)) = Len(w) - 1 /\ DOMAIN Tail(w) = 1..Len(w) - 1
        BY <1>2
      <4>5. \A i \in DOMAIN Tail(w) : i + 1 \in DOMAIN w /\ Tail(w)[i] = w[i + 1]
        BY <1>2
      <4>6. PersonsWrites(Tail(w), "none")
        BY <2>1, <2>3, <4>5 DEF PersonsWrites
      <4> QED BY <4>3, <4>6
    <3>5. RowInOrder'
      BY <2>2, <3>1, StepKinds DEF RowInOrder, FreeRow
    <3> QED BY <1>8, <3>3, <3>4, <3>5 DEF SerialInv
  <2>4. CASE req[q].queue # "none"
    <3>1. Len(w) = 1 /\ row'.step = Source[req[q].queue]
      BY <2>1, <2>2, <2>4 DEF PersonsWrites
    <3>2. /\ req'[q].writes = <<>> /\ req'[q].queue = req[q].queue
      <4>1. Tail(w) = <<>>
        BY <1>1, <1>2, <3>1, ShortTail
      <4> QED BY <1>3, <1>4, <2>4, <4>1
    <3>3. OneDriver'
      BY <1>1, <1>6, <1>7, <1>10, <3>1, <3>2 DEF OneDriver, Queueing
    <3>4. Planned'
      BY <1>6, <3>2 DEF Planned, Writing
    <3>5. row'.step \notin HumanSteps /\ row'.step # "ReadyForBatching"
      BY <1>2, <2>4, <3>1, StepKinds DEF RequestType
    <3>6. RowInOrder'
      BY <2>2, <3>5 DEF RowInOrder, FreeRow
    <3> QED BY <1>8, <3>3, <3>4, <3>6 DEF SerialInv
  <2> QED BY <2>3, <2>4
<1>12. CASE req[q].batch # 0
  <2>1. /\ row.step = "ReadyForBatching" /\ req[q].queue = "none"
        /\ w = <<AddedToBatch(row, req[q].batch)>>
    BY <1>5, <1>12 DEF SerialInv, Planned, w
  <2>2. row' = AddedToBatch(row, req[q].batch) /\ new = Idle
    BY <1>1, <1>3, <2>1
  <2>3. /\ row'.step = row.step /\ row'.batch = req[q].batch /\ row'.owner = row.owner
        /\ SignedOff(row) => SignedOff(row')
    BY <2>2, Typed DEF AddedToBatch, Issue, SignedOff, NotOwnWork
  <2>4. ~Writing(q)' /\ ~Queueing(q)'
    BY <1>4, <2>2 DEF Writing, Queueing, Idle
  <2>5. OneDriver' /\ Planned'
    BY <1>1, <1>6, <1>7, <1>10, <2>4 DEF OneDriver, Planned
  <2>6. RowInOrder'
    <3>1. SignedOff(row')
      BY <2>1, <2>3 DEF SerialInv, RowInOrder
    <3> QED BY <1>12, <2>1, <2>3, <3>1 DEF SerialInv, RowInOrder, SignedOff, NotOwnWork
  <2> QED BY <1>8, <2>5, <2>6 DEF SerialInv
<1> QED BY <1>11, <1>12

(* A request's pipeline is queued: it drives the issue from here on.       *)
LEMMA QueuePipelineSerial ==
  ASSUME IInv, SerialInv, NEW q \in Requests, QueuePipeline(q)
  PROVE  SerialInv'
<1> DEFINE new == Queued(req[q].queue)
<1>1. /\ pipes' = Append(pipes, new) /\ req' = [req EXCEPT ![q] = Idle]
      /\ UNCHANGED <<row, batched>> /\ Queueing(q)
  BY DEF QueuePipeline, Queueing
<1>2. /\ req[q].queue \in {"finalize", "remove"} /\ row.step = Source[req[q].queue]
      /\ row.step \notin HumanSteps /\ row.step # "ReadyForBatching"
  <2>1. req[q].queue \in {"finalize", "remove"}
    BY <1>1, Typed DEF RequestType, Queueing
  <2> QED BY <1>1, <2>1, StepKinds DEF SerialInv, OneDriver
<1>3. new \in Pipe /\ new.copy = <<>> /\ new.kind = req[q].queue /\ new.at = 1
  BY <1>2 DEF Queued, JobsOf, Pipe
<1>4. /\ \A x \in Requests : ~Writing(x)
      /\ \A p \in DOMAIN pipes : ~Driving(p)
      /\ \A x \in Requests : Queueing(x) => x = q
  BY <1>1, <1>2 DEF SerialInv, Planned, OneDriver
<1>5. \A x \in Requests : ~Writing(x)' /\ ~Queueing(x)'
  <2>1. \A x \in Requests : req'[x] = IF x = q THEN Idle ELSE req[x]
    BY <1>1, Typed
  <2> QED BY <1>4, <2>1 DEF Writing, Queueing, Idle
<1> HIDE DEF new
<1>6. PICK n \in Nat : n = Len(pipes) + 1
  BY Typed
<1>7. /\ n \notin DOMAIN pipes /\ DOMAIN pipes' = DOMAIN pipes \cup {n}
      /\ \A p \in DOMAIN pipes : pipes'[p] = pipes[p]
      /\ pipes'[n] = new
  <2>1. pipes \in Seq(Pipe)
    BY Typed
  <2> HIDE DEF Pipe
  <2> QED BY <1>1, <1>3, <1>6, <2>1
<1>8. ~Loaded(n)'
  BY <1>3, <1>7 DEF Loaded
<1>9. \A p \in DOMAIN pipes' : Loaded(p)' =>
        p \in DOMAIN pipes /\ Loaded(p) /\ pipes'[p].copy = pipes[p].copy
  BY <1>7, <1>8 DEF Loaded
<1>10. \A p \in DOMAIN pipes' : Driving(p)' => p = n
  BY <1>4, <1>7 DEF Driving
<1>11. OneWriter' /\ Planned' /\ Fresh'
  BY <1>1, <1>5, <1>9 DEF SerialInv, OneWriter, Planned, Fresh
<1>12. OneDriver'
  BY <1>1, <1>2, <1>3, <1>5, <1>7, <1>10 DEF OneDriver
<1>13. RowInOrder'
  BY <1>1 DEF SerialInv, RowInOrder, SignedOff, NotOwnWork
<1> QED BY <1>11, <1>12, <1>13 DEF SerialInv

LEMMA RequestDiesSerial ==
  ASSUME IInv, SerialInv, NEW q \in Requests, RequestDies(q)
  PROVE  SerialInv'
<1>1. req' = [req EXCEPT ![q] = Idle] /\ UNCHANGED <<row, pipes, batched>>
  BY DEF RequestDies
<1>2. \A x \in Requests : req'[x] = IF x = q THEN Idle ELSE req[x]
  BY <1>1, Typed
<1>3. \A x \in Requests : Writing(x)' \/ Queueing(x)' => req'[x] = req[x]
  BY <1>2 DEF Writing, Queueing, Idle
<1>4. \A x \in Requests : (Writing(x)' => Writing(x)) /\ (Queueing(x)' => Queueing(x))
  BY <1>3 DEF Writing, Queueing
<1>5. \A p : (Driving(p)' <=> Driving(p)) /\ (Loaded(p)' <=> Loaded(p)) /\ pipes'[p] = pipes[p]
  BY <1>1 DEF Driving, Loaded
<1>6. OneWriter' /\ OneDriver'
  BY <1>1, <1>3, <1>4, <1>5 DEF SerialInv, OneWriter, OneDriver
<1>7. Planned'
  BY <1>1, <1>3, <1>4 DEF SerialInv, Planned, PersonsWrites, FreeRow, AddedToBatch
<1>8. RowInOrder' /\ Fresh'
  BY <1>1, <1>5 DEF SerialInv, RowInOrder, Fresh, SignedOff, NotOwnWork
<1> QED BY <1>6, <1>7, <1>8 DEF SerialInv

LEMMA ClaimExpiresSerial ==
  ASSUME IInv, SerialInv, Overlap = 1, ClaimExpires
  PROVE  SerialInv'
<1>1. /\ row' = [row EXCEPT !.current = FALSE] /\ UNCHANGED <<req, pipes, batched>>
      /\ InFlight = 0
  BY DEF ClaimExpires
<1>2. (\A x \in Requests : ~Writing(x)) /\ (\A p \in DOMAIN pipes : ~Loaded(p))
  BY <1>1, NobodyBusy
<1>3. /\ row'.step = row.step /\ row'.batch = row.batch /\ row'.owner = row.owner
      /\ SignedOff(row) => SignedOff(row')
  BY <1>1, Typed DEF Issue, SignedOff, NotOwnWork
<1>4. /\ \A p : (Driving(p)' <=> Driving(p)) /\ (Loaded(p)' <=> Loaded(p)) /\ pipes'[p] = pipes[p]
      /\ \A x : (Writing(x)' <=> Writing(x)) /\ (Queueing(x)' <=> Queueing(x)) /\ req'[x] = req[x]
  BY <1>1 DEF Driving, Loaded, Writing, Queueing
<1>5. OneWriter' /\ OneDriver' /\ Planned' /\ Fresh'
  BY <1>1, <1>2, <1>3, <1>4 DEF SerialInv, OneWriter, OneDriver, Planned, Fresh
<1>6. RowInOrder'
  BY <1>1, <1>3 DEF SerialInv, RowInOrder, SignedOff, NotOwnWork
<1> QED BY <1>5, <1>6 DEF SerialInv

(* A job loads the row.                                                    *)
LEMMA NewIssueJobSerial ==
  ASSUME IInv, SerialInv, Overlap = 1, NEW p \in DOMAIN pipes, NewIssueJob(p)
  PROVE  SerialInv'
<1>1. /\ pipes' = [pipes EXCEPT ![p].copy = <<row>>] /\ UNCHANGED <<row, req, batched>>
      /\ InFlight < Overlap
  BY DEF NewIssueJob
<1>2. (\A x \in Requests : ~Writing(x)) /\ (\A o \in DOMAIN pipes : ~Loaded(o))
  BY <1>1, NobodyBusy
<1>3. /\ DOMAIN pipes' = DOMAIN pipes
      /\ \A o \in DOMAIN pipes : o # p => pipes'[o] = pipes[o]
      /\ pipes'[p].copy = <<row>> /\ pipes'[p].at = pipes[p].at /\ pipes'[p].kind = pipes[p].kind
  BY <1>1, Typed DEF Pipe
<1>4. \A o \in DOMAIN pipes : /\ Driving(o)' <=> Driving(o)
                              /\ pipes'[o].kind = pipes[o].kind
                              /\ Loaded(o)' => o = p
  BY <1>2, <1>3 DEF Driving, Loaded
<1>5. \A x : (Writing(x)' <=> Writing(x)) /\ (Queueing(x)' <=> Queueing(x)) /\ req'[x] = req[x]
  BY <1>1 DEF Writing, Queueing
<1>6. OneWriter' /\ Planned'
  BY <1>2, <1>3, <1>4, <1>5 DEF OneWriter, Planned
<1>7. OneDriver'
  <2>1. row' = row
    BY <1>1
  <2> QED BY <1>3, <1>4, <1>5, <2>1 DEF SerialInv, OneDriver
<1>8. RowInOrder' /\ Fresh'
  BY <1>1, <1>3, <1>4 DEF SerialInv, RowInOrder, Fresh, SignedOff, NotOwnWork
<1> QED BY <1>6, <1>7, <1>8 DEF SerialInv

LEMMA JobFailsSerial ==
  ASSUME IInv, SerialInv, NEW p \in DOMAIN pipes, JobFails(p)
  PROVE  SerialInv'
<1>1. pipes' = [pipes EXCEPT ![p].copy = <<>>] /\ UNCHANGED <<row, req, batched>>
  BY DEF JobFails
<1>2. /\ DOMAIN pipes' = DOMAIN pipes
      /\ \A o \in DOMAIN pipes : o # p => pipes'[o] = pipes[o]
      /\ pipes'[p].copy = <<>> /\ pipes'[p].at = pipes[p].at /\ pipes'[p].kind = pipes[p].kind
  BY <1>1, Typed DEF Pipe
<1>3. \A o \in DOMAIN pipes : /\ Driving(o)' <=> Driving(o)
                              /\ pipes'[o].kind = pipes[o].kind
                              /\ Loaded(o)' => Loaded(o) /\ pipes'[o] = pipes[o]
  BY <1>2 DEF Driving, Loaded
<1>4. \A x : (Writing(x)' <=> Writing(x)) /\ (Queueing(x)' <=> Queueing(x)) /\ req'[x] = req[x]
  BY <1>1 DEF Writing, Queueing
<1>5. OneWriter'
  BY <1>2, <1>3, <1>4 DEF SerialInv, OneWriter
<1>6. OneDriver'
  <2>1. row' = row
    BY <1>1
  <2> QED BY <1>2, <1>3, <1>4, <2>1 DEF SerialInv, OneDriver
<1>7. Planned' /\ RowInOrder' /\ Fresh'
  BY <1>1, <1>2, <1>3 DEF SerialInv, Planned, PersonsWrites, FreeRow, AddedToBatch,
     Writing, RowInOrder, Fresh, SignedOff, NotOwnWork
<1> QED BY <1>5, <1>6, <1>7 DEF SerialInv

(* What the jobs of a pipeline do before, with and after LastSetter         *)
LEMMA JobSteps ==
  ASSUME NEW k \in {"derivatives", "finalize", "remove"}, NEW i \in 1..Len(JobsOf[k])
  PROVE  /\ i > LastSetter[k] => JobsOf[k][i] = "save"
         /\ i < LastSetter[k] => JobsOf[k][i] \in {"save", "ignore", Source[k]}
         /\ i = LastSetter[k] => /\ JobsOf[k][i] \in HumanSteps \cup {"ReadyForBatching"}
                                 /\ JobsOf[k][i] = "ReadyForBatching" => k = "finalize"
<1>1. CASE k = "derivatives"
  <2>1. JobsOf[k] = <<"AwaitingProcessing", "save", "ReadyForMetadataEntry", "save">>
        /\ LastSetter[k] = 3 /\ Source[k] = "AwaitingProcessing"
    BY <1>1 DEF JobsOf, LastSetter, Source
  <2>2. i \in 1..4
    BY <2>1
  <2> QED BY <2>1, <2>2 DEF HumanSteps
<1>2. CASE k = "finalize"
  <2>1. JobsOf[k] = <<"save", "ReadyForBatching", "save">>
        /\ LastSetter[k] = 2 /\ Source[k] = "ReadyForMETSXML"
    BY <1>2 DEF JobsOf, LastSetter, Source
  <2>2. i \in 1..3
    BY <2>1
  <2> QED BY <1>2, <2>1, <2>2
<1>3. CASE k = "remove"
  <2>1. JobsOf[k] = <<"save", "ignore", "save", "UnfixableMetadataError", "save">>
        /\ LastSetter[k] = 4 /\ Source[k] = "AwaitingProcessing"
    BY <1>3 DEF JobsOf, LastSetter, Source
  <2>2. i \in 1..5
    BY <2>1
  <2> QED BY <2>1, <2>2 DEF HumanSteps
<1> QED BY <1>1, <1>2, <1>3

(* What a job does to the row, when nobody has written it since it loaded it *)
LEMMA WhatAJobDoes ==
  ASSUME IInv, SerialInv, NEW p \in DOMAIN pipes, Process(p)
  PROVE  \/ ~Driving(p) /\ row' = row
         \/ /\ Driving(p) /\ pipes[p].at < LastSetter[pipes[p].kind]
            /\ row' \in {row, [row EXCEPT !.ignored = TRUE]}
         \/ /\ Driving(p) /\ pipes[p].at = LastSetter[pipes[p].kind]
            /\ \E s \in HumanSteps \cup {"ReadyForBatching"} :
                 /\ row' = [row EXCEPT !.step = s]
                 /\ s = "ReadyForBatching" => pipes[p].kind = "finalize"
<1> DEFINE k == pipes[p].kind
           i == pipes[p].at
<1>1. k \in {"derivatives", "finalize", "remove"} /\ LastSetter[k] \in Nat
  BY Typed, StepKinds
<1>2. i \in 1..Len(JobsOf[k]) /\ i \in Nat
  <2>1. Unfinished(p) /\ i \in Nat /\ i # 0
    BY Typed DEF Process, IInv, JobsUnderWay, Pipe
  <2>2. Len(JobsOf[k]) \in Nat
    BY <1>1 DEF JobsOf
  <2> QED BY <2>1, <2>2 DEF Unfinished
<1>3. row' = Processed(JobsOf[k][i], row)
  BY DEF Process, SerialInv, Fresh, Loaded, NextJob
<1>4. Driving(p) => row.step = Source[k]
  BY DEF SerialInv, OneDriver
<1> HIDE DEF k, i
<1>5. Driving(p) <=> i <= LastSetter[k]
  BY DEF Driving, k, i
<1>6. CASE i > LastSetter[k]
  <2>1. JobsOf[k][i] = "save"
    BY <1>1, <1>2, <1>6, JobSteps
  <2> QED BY <1>1, <1>2, <1>3, <1>5, <1>6, <2>1 DEF Processed
<1>7. CASE i < LastSetter[k]
  <2>1. JobsOf[k][i] \in {"save", "ignore", Source[k]} /\ Driving(p)
    BY <1>1, <1>2, <1>5, <1>7, JobSteps
  <2>2. [row EXCEPT !.step = row.step] = row
    BY Typed DEF Issue
  <2>3. row' \in {row, [row EXCEPT !.ignored = TRUE]}
    BY <1>3, <1>4, <2>1, <2>2 DEF Processed
  <2>4. Driving(p) /\ i < LastSetter[k] /\ row' \in {row, [row EXCEPT !.ignored = TRUE]}
    BY <1>7, <2>1, <2>3
  <2> QED BY <2>4, Zenon DEF k, i
<1>8. CASE i = LastSetter[k]
  <2>1. /\ JobsOf[k][i] \in HumanSteps \cup {"ReadyForBatching"} /\ Driving(p)
        /\ JobsOf[k][i] = "ReadyForBatching" => k = "finalize"
    BY <1>1, <1>2, <1>5, <1>8, JobSteps
  <2>2. row' = [row EXCEPT !.step = JobsOf[k][i]]
    BY <1>3, <2>1 DEF Processed, HumanSteps
  <2>3. \E z \in HumanSteps \cup {"ReadyForBatching"} :
          row' = [row EXCEPT !.step = z] /\ (z = "ReadyForBatching" => k = "finalize")
    BY <2>1, <2>2, Zenon
  <2> QED BY <1>8, <2>1, <2>3, Zenon DEF k, i
<1> QED BY <1>1, <1>2, <1>6, <1>7, <1>8

LEMMA ProcessSerial ==
  ASSUME IInv, SerialInv, NEW p \in DOMAIN pipes, Process(p)
  PROVE  SerialInv'
<1>1. /\ pipes' = [pipes EXCEPT ![p] = [kind |-> pipes[p].kind, at |-> pipes[p].at + 1,
                                        copy |-> <<>>]]
      /\ UNCHANGED <<req, batched>> /\ Loaded(p)
  BY DEF Process, Loaded
<1>2. /\ DOMAIN pipes' = DOMAIN pipes
      /\ \A o \in DOMAIN pipes : o # p => pipes'[o] = pipes[o]
      /\ pipes'[p].copy = <<>> /\ pipes'[p].at = pipes[p].at + 1
      /\ pipes'[p].kind = pipes[p].kind
  BY <1>1, Typed
<1>3. /\ \A o \in DOMAIN pipes : ~Loaded(o)'
      /\ \A x \in Requests : ~Writing(x)
  BY <1>1, <1>2 DEF SerialInv, OneWriter, Loaded
<1>4. \A x : (Writing(x)' <=> Writing(x)) /\ (Queueing(x)' <=> Queueing(x)) /\ req'[x] = req[x]
  BY <1>1 DEF Writing, Queueing
<1>5. OneWriter' /\ Fresh' /\ Planned'
  BY <1>2, <1>3, <1>4 DEF OneWriter, Fresh, Planned
<1>6. /\ pipes[p].at \in Nat /\ LastSetter[pipes[p].kind] \in Nat
      /\ row \in Issue
  BY Typed, StepKinds
<1>7. /\ \A o \in DOMAIN pipes : Driving(o)' => Driving(o) /\ pipes'[o].kind = pipes[o].kind
      /\ pipes[p].at = LastSetter[pipes[p].kind] => ~Driving(p)'
  BY <1>2, <1>6 DEF Driving
<1>8. CASE ~Driving(p) /\ row' = row
  <2>1. OneDriver'
    BY <1>2, <1>4, <1>7, <1>8 DEF SerialInv, OneDriver
  <2>2. RowInOrder'
    BY <1>1, <1>8 DEF SerialInv, RowInOrder, SignedOff, NotOwnWork
  <2> QED BY <1>5, <2>1, <2>2 DEF SerialInv
<1>9. CASE row' \in {row, [row EXCEPT !.ignored = TRUE]}
  <2>1. /\ row'.step = row.step /\ row'.owner = row.owner /\ row'.batch = row.batch
        /\ SignedOff(row) => SignedOff(row')
    BY <1>6, <1>9 DEF Issue, SignedOff, NotOwnWork
  <2>2. OneDriver'
    BY <1>2, <1>4, <1>7, <2>1 DEF SerialInv, OneDriver
  <2>3. RowInOrder'
    BY <1>1, <2>1 DEF SerialInv, RowInOrder, SignedOff, NotOwnWork
  <2> QED BY <1>5, <2>2, <2>3 DEF SerialInv
<1>10. CASE /\ Driving(p) /\ pipes[p].at = LastSetter[pipes[p].kind]
            /\ \E s \in HumanSteps \cup {"ReadyForBatching"} :
                 /\ row' = [row EXCEPT !.step = s]
                 /\ s = "ReadyForBatching" => pipes[p].kind = "finalize"
  <2>1. PICK s \in HumanSteps \cup {"ReadyForBatching"} :
               /\ row' = [row EXCEPT !.step = s]
               /\ s = "ReadyForBatching" => pipes[p].kind = "finalize"
    BY <1>10
  <2>2. row.step = Source[pipes[p].kind]
    BY <1>10 DEF SerialInv, OneDriver
  <2>3. OneDriver'
    <3>1. \A o \in DOMAIN pipes : ~Driving(o)'
      BY <1>7, <1>10 DEF SerialInv, OneDriver
    <3>2. \A x \in Requests : ~Queueing(x)'
      BY <1>4, <1>10 DEF SerialInv, OneDriver
    <3> QED BY <1>2, <3>1, <3>2 DEF OneDriver
  <2>4. row.step \notin HumanSteps /\ row.step # "ReadyForBatching"
    BY <2>2, Typed, StepKinds
  <2>5. row'.step = s /\ row'.owner = Nobody /\ row'.batch = 0
    BY <1>1, <1>6, <2>1, <2>4 DEF SerialInv, RowInOrder, Issue
  <2>6. s = "ReadyForBatching" => SignedOff(row')
    <3>1. s = "ReadyForBatching" => SignedOff(row)
      BY <2>1, <2>2, StepKinds, Typed DEF GoodRow
    <3> QED BY <1>6, <2>1, <3>1 DEF SignedOff, NotOwnWork, Issue
  <2>7. RowInOrder'
    BY <2>5, <2>6 DEF RowInOrder, SignedOff, NotOwnWork
  <2> QED BY <1>5, <2>3, <2>7 DEF SerialInv
<1> QED BY <1>8, <1>9, <1>10, WhatAJobDoes

LEMMA InitSerial == Init => SerialInv
<1> SUFFICES ASSUME Init PROVE SerialInv
  OBVIOUS
<1>1. /\ row.step = "AwaitingProcessing" /\ row.owner = Nobody /\ row.batch = 0
      /\ \A x \in Requests : req[x] = Idle
  BY DEF Init
<1>2. \A x \in Requests : ~Writing(x) /\ ~Queueing(x)
  BY <1>1 DEF Writing, Queueing, Idle
<1>3. /\ DOMAIN pipes = {1} /\ pipes[1].copy = <<>> /\ pipes[1].kind = "derivatives"
  BY DEF Init, Queued
<1>4. \A p \in DOMAIN pipes : p = 1 /\ ~Loaded(p)
  BY <1>3 DEF Loaded
<1>5. OneWriter /\ Planned /\ Fresh
  BY <1>2, <1>4 DEF OneWriter, Planned, Fresh
<1>6. OneDriver
  BY <1>1, <1>2, <1>3, <1>4 DEF OneDriver, Source
<1>7. RowInOrder
  BY <1>1 DEF RowInOrder
<1> QED BY <1>5, <1>6, <1>7 DEF SerialInv

LEMMA StutterSerial == SerialInv /\ UNCHANGED vars => SerialInv'
BY DEF SerialInv, vars, OneWriter, OneDriver, Planned, RowInOrder, Fresh, Writing, Loaded,
       Driving, Queueing, PersonsWrites, FreeRow, AddedToBatch, SignedOff, NotOwnWork

LEMMA SerialStep ==
  ASSUME IInv, SerialInv, Overlap = 1, [Next]_vars
  PROVE  SerialInv'
<1>1. CASE \E q \in Requests : \E u \in Users : Load(q, u)
  BY <1>1, LoadSerial
<1>2. CASE \E q \in Requests : FindReadyIssues(q)
  BY <1>2, FindReadyIssuesSerial
<1>3. CASE \E q \in Requests : Write(q)
  BY <1>3, WriteSerial
<1>4. CASE \E q \in Requests : QueuePipeline(q)
  BY <1>4, QueuePipelineSerial
<1>5. CASE \E q \in Requests : RequestDies(q)
  BY <1>5, RequestDiesSerial
<1>6. CASE \E p \in 1..Len(pipes) : NewIssueJob(p) \/ Process(p) \/ JobFails(p)
  <2>1. 1..Len(pipes) = DOMAIN pipes
    BY Typed, LenProperties
  <2> QED BY <1>6, <2>1, NewIssueJobSerial, ProcessSerial, JobFailsSerial
<1>7. CASE ClaimExpires
  BY <1>7, ClaimExpiresSerial
<1>8. CASE UNCHANGED vars
  BY <1>8, StutterSerial
<1> QED BY <1>1, <1>2, <1>3, <1>4, <1>5, <1>6, <1>7, <1>8 DEF Next

(* What is proved of one writer at a time rests on this invariant.         *)
LEMMA SerialInvariance ==
  ASSUME Overlap = 1
  PROVE  Spec => [](IInv /\ SerialInv)
<1>1. Init => IInv /\ SerialInv
  BY InitGood, InitSerial
<1>2. IInv /\ SerialInv /\ [Next]_vars => (IInv /\ SerialInv)'
  BY StepKeeps, SerialStep
<1> QED BY <1>1, <1>2, PTL DEF Spec

(* With one writer at a time, an issue that is ready for batching, or in a
   batch, was approved by another than its author, or by a manager:
   QueueFinalizeIssue's jobs set the step of no other.                     *)
THEOREM BatchedWasReviewed ==
  ASSUME Overlap = 1
  PROVE  Spec => []OnlyReviewedBatched
<1>1. SerialInv => OnlyReviewedBatched
  BY DEF SerialInv, RowInOrder, OnlyReviewedBatched
<1> QED BY <1>1, SerialInvariance, PTL
=============================================================================

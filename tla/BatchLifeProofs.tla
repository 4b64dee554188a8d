-------------------------- MODULE BatchLifeProofs --------------------------
(***************************************************************************)
(* Proofs, for every number of issues, sessions of batch-fixer, batches,   *)
(* pipelines and deaths, that a batch people see holds what was reviewed,  *)
(* that a batch which failed leaves nothing behind, that no issue is lost  *)
(* on its way through batches, and that files are removed only when their  *)
(* batch is done.                                                          *)
(***************************************************************************)
EXTENDS BatchLife, SequenceTheorems, TLAPS

----------------------------------------------------------------------------
(* Types, for any settings                                                 *)

RowSets == UNION {[D -> IssueRow] : D \in SUBSET Issues}
Ops == {"remove_dir", "invalidate", "remove_mets", "reload", "redo", "delete", "save", "queue"}
StepSet ==
  {x \in [op : Ops, rows : RowSets, ws : {"none"} \cup SentTo \cup {"failed_qc", "pending"}] :
     /\ x.op \in {"invalidate", "redo"} => DOMAIN x.rows # {}
     /\ x.op = "invalidate" => x.ws \in SentTo
     /\ x.op = "save" => x.ws \in {"failed_qc", "pending"}}
SessionSet == [batch : Nat, row : BatchRow, copies : RowSets, todo : Seq(StepSet)]
Found == (Issues \cup {"no-such-directory"}) \X Nat
PlaceSet == [wip : SUBSET Found, final : SUBSET Found]
PipeSet == [id : Nat, kind : {"make", "redo"}, about : Issues \cup Nat, at : 1..7,
            restore : Steps \cup {"none"}]
PurgeSet == [pc : {"idle", "closing", "removing", "removed"}, close : SUBSET (Issues \cup Nat),
             list : RowSets]

IssuesTyped ==
  /\ issues \in [Issues -> IssueRow] /\ files \in [Issues -> BOOLEAN]
  /\ edits \in [Issues -> Nat] /\ mets \in [Issues -> Nat]
BatchesTyped ==
  /\ batches \in Seq(BatchRow) /\ dirs \in Seq(PlaceSet) /\ listed \in Seq(SUBSET Issues)
  /\ Len(dirs) = Len(batches) /\ Len(listed) = Len(batches) /\ Len(batches) <= MaxBatches
PipesTyped ==
  /\ queued \in Nat
  /\ \A p \in pipes : /\ p \in PipeSet
                      /\ p.kind = "make" => p.about \in BatchIds
                      /\ p.kind = "redo" => p.about \in Issues /\ p.at \in 1..5
                                             /\ p.restore \in Steps
SessionsTyped ==
  /\ sess \in [Sessions -> SessionSet]
  /\ \A s \in Sessions : /\ sess[s].batch \in 0..Len(batches)
                         /\ ~Loaded(s) => sess[s].todo = <<>>
PurgeTyped ==
  /\ purge \in PurgeSet
  /\ purge.pc = "removed" => purge.close \subseteq DOMAIN purge.list
Typed == IssuesTyped /\ BatchesTyped /\ PipesTyped /\ SessionsTyped /\ PurgeTyped

LEMMA NoRows == <<>> \in RowSets /\ DOMAIN <<>> = {}
<1>1. <<>> \in [1..0 -> IssueRow] /\ 1..0 = {}
  BY EmptySeq, LenProperties
<1>2. DOMAIN <<>> = {}
  BY <1>1
<1> QED
  BY <1>1, <1>2 DEF RowSets

LEMMA SomeRows ==
  ASSUME NEW D \in SUBSET Issues, NEW f \in [D -> IssueRow]
  PROVE  f \in RowSets
BY DEF RowSets

LEMMA RowsOf ==
  ASSUME NEW f \in RowSets
  PROVE  /\ DOMAIN f \subseteq Issues
         /\ f \in [DOMAIN f -> IssueRow]
         /\ \A i \in DOMAIN f : f[i] \in IssueRow
<1>1. PICK D \in SUBSET Issues : f \in [D -> IssueRow]
  BY DEF RowSets
<1> QED
  BY <1>1

LEMMA FewerRows ==
  ASSUME NEW f \in RowSets, NEW i
  PROVE  [k \in DOMAIN f \ {i} |-> f[k]] \in RowSets
<1>1. DOMAIN f \ {i} \in SUBSET Issues
  BY RowsOf
<1>2. [k \in DOMAIN f \ {i} |-> f[k]] \in [DOMAIN f \ {i} -> IssueRow]
  BY RowsOf
<1> QED
  BY <1>1, <1>2, SomeRows

(* Rows with some of their columns rewritten                               *)
LEMMA BatchWith ==
  ASSUME NEW r \in BatchRow
  PROVE  /\ \A x \in {"none", "wip", "final"} : LET u == [r EXCEPT !.location = x] IN
              /\ u \in BatchRow /\ u.location = x
              /\ u.status = r.status /\ u.archived = r.archived
         /\ \A x \in Statuses : LET u == [r EXCEPT !.status = x] IN
              /\ u \in BatchRow /\ u.status = x
              /\ u.location = r.location /\ u.archived = r.archived
         /\ \A x \in {"recently", "four-weeks-ago"} : LET u == [r EXCEPT !.archived = x] IN
              /\ u \in BatchRow /\ u.archived = x
              /\ u.location = r.location /\ u.status = r.status
BY DEF BatchRow

LEMMA BatchSaved ==
  ASSUME NEW r \in BatchRow, NEW st \in Statuses
  PROVE  LET u == [r EXCEPT !.status = st, !.location = "none"] IN
           u \in BatchRow /\ u.status = st /\ u.location = "none" /\ u.archived = r.archived
BY DEF BatchRow

LEMMA IssueWith ==
  ASSUME NEW r \in IssueRow
  PROVE  /\ \A x \in Steps : LET u == [r EXCEPT !.ws = x] IN
              u \in IssueRow /\ u.ws = x /\ u.batch = r.batch /\ u.ignored = r.ignored
         /\ \A x \in 0..MaxBatches : LET u == [r EXCEPT !.batch = x] IN
              u \in IssueRow /\ u.ws = r.ws /\ u.batch = x /\ u.ignored = r.ignored
BY DEF IssueRow

LEMMA IssueDone ==
  ASSUME NEW r \in IssueRow
  PROVE  /\ LET u == [r EXCEPT !.located = FALSE] IN
              u \in IssueRow /\ u.ws = r.ws /\ u.batch = r.batch /\ u.ignored = r.ignored
         /\ LET u == [r EXCEPT !.ignored = TRUE, !.ws = "InProduction"] IN
              u \in IssueRow /\ u.ws = "InProduction" /\ u.batch = r.batch /\ u.ignored
BY DEF IssueRow, Steps

LEMMA IssueInvalidated ==
  ASSUME NEW r \in IssueRow, NEW ws \in Steps
  PROVE  LET u == Invalidated(r, ws) IN
           u \in IssueRow /\ u.ws = ws /\ u.batch = 0 /\ u.ignored = r.ignored
<1>1. 0 \in 0..MaxBatches
  BY LifeAssumption
<1> QED
  BY <1>1 DEF IssueRow, Invalidated

LEMMA PipeMoved ==
  ASSUME NEW p \in PipeSet
  PROVE  LET u == [p EXCEPT !.at = p.at + 1] IN
           /\ u.kind = p.kind /\ u.about = p.about /\ u.restore = p.restore /\ u.at = p.at + 1
           /\ p.at < 7 => u \in PipeSet
BY DEF PipeSet

LEMMA PipeMade ==
  ASSUME queued \in Nat
  PROVE  /\ \A b \in Nat : LET u == Pipe("make", b, "none") IN
              u \in PipeSet /\ u.kind = "make" /\ u.about = b /\ u.at = 1
         /\ \A i \in Issues, ws \in Steps : LET u == Pipe("redo", i, ws) IN
              u \in PipeSet /\ u.kind = "redo" /\ u.about = i /\ u.at = 1 /\ u.restore = ws
BY DEF Pipe, PipeSet

LEMMA Jobs ==
  /\ Len(MakeBatchJobs) = 7 /\ Len(ForceDerivativesJobs) = 5
  /\ MakeBatchJobs[1] = "create_batch_structure" /\ MakeBatchJobs[2] = "set_batch_location"
  /\ MakeBatchJobs[3] = "make_batch_xml" /\ MakeBatchJobs[4] = "rename_directory"
  /\ MakeBatchJobs[5] = "set_batch_location" /\ MakeBatchJobs[6] = "set_batch_status"
  /\ MakeBatchJobs[7] = "write_bagit_manifest"
  /\ ForceDerivativesJobs[1] = "set_awaiting_processing"
  /\ ForceDerivativesJobs[2] = "make_derivatives" /\ ForceDerivativesJobs[3] = "build_mets"
  /\ ForceDerivativesJobs[4] = "restore_step" /\ ForceDerivativesJobs[5] = "record_issue_action"
BY DEF MakeBatchJobs, ForceDerivativesJobs

(* A job of a batch's pipeline, by its place in it                         *)
LEMMA MakeStep ==
  ASSUME Typed, NEW p \in pipes, p.kind = "make", RunJob(p)
  PROVE  LET b == p.about IN
    /\ b \in BatchIds /\ p.at \in 1..7
    /\ batches' = IF p.at = 2 THEN [batches EXCEPT ![b].location = "wip"]
                  ELSE IF p.at = 5 THEN [batches EXCEPT ![b].location = "final"]
                  ELSE IF p.at = 6 THEN [batches EXCEPT ![b].status = "qc_ready"]
                  ELSE batches
    /\ dirs' = IF p.at = 1 THEN [dirs EXCEPT ![b].wip = Linked(b)]
               ELSE IF p.at = 4 THEN [dirs EXCEPT ![b] = [wip |-> NoDir, final |-> dirs[b].wip]]
               ELSE dirs
    /\ listed' = IF p.at = 3 THEN [listed EXCEPT ![b] = IssuesOf(b)] ELSE listed
    /\ pipes' = (pipes \ {p}) \cup (IF p.at = 7 THEN {} ELSE {[p EXCEPT !.at = @ + 1]})
    /\ UNCHANGED <<issueVars, queued, sess, purge, deaths>>
<1>1. p \in PipeSet /\ p.about \in BatchIds /\ p.at \in 1..7
  BY DEF Typed, PipesTyped, PipeSet
<1>2. JobsOf(p) = MakeBatchJobs
  BY DEF JobsOf
<1>3. MakeBatchJob(p, MakeBatchJobs[p.at])
  BY <1>2, Zenon DEF RunJob
<1>4. /\ pipes' = (pipes \ {p}) \cup (IF p.at = 7 THEN {} ELSE {[p EXCEPT !.at = @ + 1]})
      /\ UNCHANGED <<queued, sess, purge, deaths>>
  BY <1>2, Jobs DEF RunJob
<1>5. CASE p.at \in {1, 3}
  BY <1>1, <1>3, <1>4, <1>5, Jobs DEF MakeBatchJob
<1>6. CASE p.at \in {2, 5}
  BY <1>1, <1>3, <1>4, <1>6, Jobs DEF MakeBatchJob
<1>7. CASE p.at \in {4, 6, 7}
  BY <1>1, <1>3, <1>4, <1>7, Jobs DEF MakeBatchJob
<1> QED
  BY <1>1, <1>5, <1>6, <1>7

(* A job of a pipeline that makes an issue's derivatives again             *)
LEMMA RedoStep ==
  ASSUME Typed, NEW p \in pipes, p.kind # "make", RunJob(p)
  PROVE  LET i == p.about IN
    /\ p.kind = "redo" /\ i \in Issues /\ p.at \in 1..5 /\ p.restore \in Steps
    /\ issues' = IF p.at = 1 THEN [issues EXCEPT ![i].ws = "AwaitingProcessing"]
                 ELSE IF p.at = 4 THEN [issues EXCEPT ![i].ws = p.restore]
                 ELSE issues
    /\ mets' = IF p.at = 3 THEN [mets EXCEPT ![i] = edits[i]] ELSE mets
    /\ pipes' = (pipes \ {p}) \cup (IF p.at = 5 THEN {} ELSE {[p EXCEPT !.at = @ + 1]})
    /\ UNCHANGED <<edits, files, batchVars, queued, sess, purge, deaths>>
<1>1. p \in PipeSet /\ p.kind = "redo" /\ p.about \in Issues /\ p.at \in 1..5 /\ p.restore \in Steps
  BY DEF Typed, PipesTyped, PipeSet
<1>2. JobsOf(p) = ForceDerivativesJobs
  BY <1>1 DEF JobsOf
<1>3. RedoJob(p, ForceDerivativesJobs[p.at])
  BY <1>2, Zenon DEF RunJob
<1>4. /\ pipes' = (pipes \ {p}) \cup (IF p.at = 5 THEN {} ELSE {[p EXCEPT !.at = @ + 1]})
      /\ UNCHANGED <<queued, sess, purge, deaths>>
  BY <1>2, Jobs DEF RunJob
<1>5. CASE p.at \in {1, 4}
  BY <1>1, <1>3, <1>4, <1>5, Jobs DEF RedoJob
<1>6. CASE p.at \in {2, 3, 5}
  BY <1>1, <1>3, <1>4, <1>6, Jobs DEF RedoJob
<1> QED
  BY <1>1, <1>5, <1>6

(* Writing a session's steps, and putting another session in its place     *)
LEMMA TodoWritten ==
  ASSUME SessionsTyped, NEW s \in Sessions, NEW t, sess' = [sess EXCEPT ![s].todo = t]
  PROVE  /\ \A o \in Sessions : /\ sess'[o].batch = sess[o].batch /\ sess'[o].row = sess[o].row
                                /\ sess'[o].copies = sess[o].copies
                                /\ o # s => sess'[o] = sess[o]
         /\ sess'[s].todo = t
         /\ t \in Seq(StepSet) => sess' \in [Sessions -> SessionSet]
BY DEF SessionsTyped, SessionSet

LEMMA SessionWritten ==
  ASSUME SessionsTyped, NEW s \in Sessions, NEW x \in SessionSet, sess' = [sess EXCEPT ![s] = x]
  PROVE  /\ sess' \in [Sessions -> SessionSet] /\ sess'[s] = x
         /\ \A o \in Sessions \ {s} : sess'[o] = sess[o]
BY DEF SessionsTyped

LEMMA NotLoadedTyped == NotLoaded \in SessionSet
<1>1. NoRow \in BatchRow
  BY DEF NoRow, BatchRow, Statuses
<1>2. <<>> \in Seq(StepSet)
  BY EmptySeq
<1> QED
  BY <1>1, <1>2, NoRows DEF NotLoaded, SessionSet

LEMMA FindBatchTyped ==
  ASSUME Typed, NEW b \in BatchIds
  PROVE  /\ FindBatch(b) \in SessionSet
         /\ FindBatch(b).batch = b /\ FindBatch(b).row = batches[b]
         /\ FindBatch(b).copies = [i \in IssuesOf(b) |-> issues[i]] /\ FindBatch(b).todo = <<>>
<1>1. b \in Nat /\ batches[b] \in BatchRow
  BY DEF Typed, BatchesTyped, BatchIds
<1>2. IssuesOf(b) \in SUBSET Issues
  BY DEF IssuesOf, InBatch
<1>3. [i \in IssuesOf(b) |-> issues[i]] \in [IssuesOf(b) -> IssueRow]
  BY <1>2 DEF Typed, IssuesTyped
<1>4. [i \in IssuesOf(b) |-> issues[i]] \in RowSets
  BY <1>2, <1>3, SomeRows
<1>5. <<>> \in Seq(StepSet)
  BY EmptySeq
<1> QED
  BY <1>1, <1>4, <1>5 DEF FindBatch, SessionSet

LEMMA ShortSeq ==
  ASSUME NEW S, NEW x \in S, NEW y \in S
  PROVE  /\ <<x>> \in Seq(S) /\ Len(<<x>>) = 1 /\ <<x>>[1] = x
         /\ <<x, y>> \in Seq(S) /\ Len(<<x, y>>) = 2 /\ <<x, y>>[1] = x /\ <<x, y>>[2] = y
OBVIOUS

LEMMA Joined ==
  ASSUME NEW S, NEW x \in S, NEW y \in S
  PROVE  <<x>> \o <<y>> = <<x, y>>
<1>1. /\ <<x>> \o <<y>> \in Seq(S) /\ Len(<<x>> \o <<y>>) = 2
      /\ \A n \in 1..2 : (<<x>> \o <<y>>)[n] = IF n <= 1 THEN <<x>>[n] ELSE <<y>>[n - 1]
  <2>1. /\ <<x>> \o <<y>> \in Seq(S) /\ Len(<<x>> \o <<y>>) = Len(<<x>>) + Len(<<y>>)
        /\ \A n \in 1..Len(<<x>>) + Len(<<y>>) :
             (<<x>> \o <<y>>)[n] = IF n <= Len(<<x>>) THEN <<x>>[n] ELSE <<y>>[n - Len(<<x>>)]
    BY ShortSeq, ConcatProperties
  <2> QED
    BY <2>1, ShortSeq
<1> DEFINE u == <<x>> \o <<y>>
           v == <<x, y>>
<1>2. v \in Seq(S) /\ Len(v) = 2 /\ v[1] = x /\ v[2] = y
  BY ShortSeq
<1>3. u[1] = x /\ u[2] = y
  BY <1>1, ShortSeq
<1> HIDE DEF u, v
<1>4. \A n \in 1..Len(u) : u[n] = v[n]
  BY <1>1, <1>2, <1>3 DEF u
<1>5. u = v
  BY <1>1, <1>2, <1>4, SeqEqual DEF u
<1> QED
  BY <1>5 DEF u, v

(* The steps commands are made of                                          *)
LEMMA PlainSteps ==
  /\ \A op \in {"remove_dir", "reload", "delete", "queue"} : Step(op, <<>>, "none") \in StepSet
  /\ \A ws \in {"failed_qc", "pending"} : Step("save", <<>>, ws) \in StepSet
BY NoRows DEF Step, StepSet, Ops

LEMMA IssueSteps ==
  ASSUME NEW rows \in RowSets
  PROVE  /\ \A ws \in SentTo : DOMAIN rows # {} => Step("invalidate", rows, ws) \in StepSet
         /\ DOMAIN rows # {} => Step("redo", rows, "none") \in StepSet
         /\ Step("remove_mets", rows, "none") \in StepSet
BY DEF Step, StepSet, Ops

LEMMA EachTyped ==
  ASSUME NEW rows \in RowSets, NEW op, NEW ws,
         (op = "invalidate" /\ ws \in SentTo) \/ (op = "redo" /\ ws = "none")
  PROVE  /\ Each(op, rows, ws) \in Seq(StepSet)
         /\ DOMAIN rows = {} => Each(op, rows, ws) = <<>>
         /\ DOMAIN rows # {} => /\ Each(op, rows, ws) = <<Step(op, rows, ws)>>
                                /\ Step(op, rows, ws) \in StepSet
<1>1. CASE DOMAIN rows = {}
  BY <1>1, EmptySeq DEF Each
<1>2. CASE DOMAIN rows # {}
  <2>1. Step(op, rows, ws) \in StepSet
    BY <1>2, IssueSteps
  <2>2. Each(op, rows, ws) = <<Step(op, rows, ws)>>
    BY <1>2 DEF Each
  <2>3. <<Step(op, rows, ws)>> \in Seq(StepSet)
    BY <2>1, ShortSeq
  <2> QED
    BY <1>2, <2>1, <2>2, <2>3
<1> QED
  BY <1>1, <1>2

LEMMA OneRow ==
  ASSUME NEW i \in Issues, NEW row \in IssueRow
  PROVE  /\ [k \in {i} |-> row] \in RowSets
         /\ DOMAIN [k \in {i} |-> row] = {i} /\ [k \in {i} |-> row][i] = row
<1>1. {i} \in SUBSET Issues /\ [k \in {i} |-> row] \in [{i} -> IssueRow]
  OBVIOUS
<1> QED
  BY <1>1, SomeRows

LEMMA IssueRowsTyped ==
  ASSUME Typed, NEW s \in Sessions, NEW i \in Issues, NEW rows \in IssueRows(s, i)
  PROVE  rows \in RowSets /\ DOMAIN rows = {i} /\ rows[i] \in IssueRow
<1>1. issues[i] \in IssueRow
  BY DEF Typed, IssuesTyped
<1>2. sess[s].copies \in RowSets
  BY DEF Typed, SessionsTyped, SessionSet
<1>3. PICK row \in {r \in {issues[i]} : r.batch = sess[s].batch \/ i \in DOMAIN sess[s].copies}
                     \cup {sess[s].copies[k] : k \in DOMAIN sess[s].copies \cap {i}} :
        rows = [k \in {i} |-> row]
  BY DEF IssueRows
<1>4. row \in IssueRow
  BY <1>1, <1>2, <1>3, RowsOf
<1> QED
  BY <1>3, <1>4, OneRow

(* A step that is for several issues is taken for one of them, the first.  *)
LEMMA TakenIs ==
  ASSUME Typed, NEW s \in Sessions, sess[s].todo # <<>>,
         Head(sess[s].todo).op \in {"invalidate", "redo"}
  PROVE  LET t    == sess[s].todo
             i    == First(s)
             rest == [k \in DOMAIN Rows(s) \ {i} |-> Rows(s)[k]]
         IN  /\ Rows(s) \in RowSets /\ i \in DOMAIN Rows(s) /\ i \in Issues
             /\ Rows(s)[i] \in IssueRow /\ rest \in RowSets
             /\ Taken(s) \in Seq(StepSet)
             /\ DOMAIN rest = {} => Taken(s) = Tail(t)
             /\ DOMAIN rest # {} =>
                  /\ Len(Taken(s)) = Len(t)
                  /\ Taken(s)[1] = Step(t[1].op, rest, t[1].ws)
                  /\ \A n \in 2..Len(t) : Taken(s)[n] = t[n]
<1> DEFINE t    == sess[s].todo
           i    == First(s)
           rest == [k \in DOMAIN Rows(s) \ {i} |-> Rows(s)[k]]
           e    == Each(t[1].op, rest, t[1].ws)
<1>1. t \in Seq(StepSet) /\ t[1] \in StepSet /\ Head(t) = t[1]
  BY ElementOfSeq DEF Typed, SessionsTyped, SessionSet
<1>2. Rows(s) \in RowSets /\ DOMAIN Rows(s) # {} /\ Rows(s) = t[1].rows
  BY <1>1 DEF Rows, StepSet
<1>3. i \in DOMAIN Rows(s)
  BY <1>2 DEF First
<1>4. i \in Issues /\ Rows(s)[i] \in IssueRow
  BY <1>2, <1>3, RowsOf
<1>5. rest \in RowSets
  BY <1>2, FewerRows
<1>6. Taken(s) = e \o Tail(t)
  BY <1>1 DEF Taken, Rows
<1>7. Tail(t) \in Seq(StepSet) /\ Len(Tail(t)) = Len(t) - 1 /\ Len(t) \in Nat \ {0}
      /\ \A n \in 1..Len(t) - 1 : Tail(t)[n] = t[n + 1]
  BY <1>1, HeadTailProperties, EmptySeq, LenProperties
<1>8. (t[1].op = "invalidate" /\ t[1].ws \in SentTo) \/ (t[1].op = "redo" /\ t[1].ws \in {"none"} \cup SentTo \cup {"failed_qc", "pending"})
  BY <1>1 DEF StepSet
<1> HIDE DEF t, i, rest, e
<1>9. CASE DOMAIN rest = {}
  <2>1. e = <<>>
    BY <1>9 DEF e, Each
  <2> QED
    BY <1>2, <1>3, <1>4, <1>5, <1>6, <1>7, <1>9, <2>1, ConcatEmptySeq DEF t, i, rest
<1>10. CASE DOMAIN rest # {}
  <2>1. e = <<Step(t[1].op, rest, t[1].ws)>>
    BY <1>10 DEF e, Each
  <2>2. Step(t[1].op, rest, t[1].ws) \in StepSet
    BY <1>1, <1>5, <1>10 DEF StepSet, Step
  <2>3. e \in Seq(StepSet) /\ Len(e) = 1 /\ e[1] = Step(t[1].op, rest, t[1].ws)
    BY <2>1, <2>2
  <2>4. /\ e \o Tail(t) \in Seq(StepSet) /\ Len(e \o Tail(t)) = Len(t)
        /\ \A n \in 1..Len(t) : (e \o Tail(t))[n] = IF n <= 1 THEN e[n] ELSE Tail(t)[n - 1]
    <3>1. /\ e \o Tail(t) \in Seq(StepSet) /\ Len(e \o Tail(t)) = Len(e) + Len(Tail(t))
          /\ \A n \in 1..Len(e) + Len(Tail(t)) :
               (e \o Tail(t))[n] = IF n <= Len(e) THEN e[n] ELSE Tail(t)[n - Len(e)]
      BY <2>3, <1>7, ConcatProperties
    <3> QED
      BY <2>3, <1>7, <3>1
  <2>5. \A n \in 2..Len(t) : (e \o Tail(t))[n] = t[n]
    BY <2>4, <1>7
  <2>6. (e \o Tail(t))[1] = e[1]
    BY <2>4, <1>7
  <2> QED
    BY <1>2, <1>3, <1>4, <1>5, <1>6, <1>10, <2>3, <2>4, <2>5, <2>6 DEF t, i, rest
<1> QED
  BY <1>9, <1>10

(* What a command plans: nothing, or steps for rows of issues which the
   session has loaded or just reads                                         *)
RowsLoaded(s, rows) ==
  /\ rows \in RowSets /\ DOMAIN rows # {}
  /\ \A i \in DOMAIN rows :
       \/ i \in DOMAIN sess[s].copies /\ rows[i] = sess[s].copies[i]
       \/ issues[i].batch = sess[s].batch /\ rows[i] = issues[i]
       \/ i \in DOMAIN sess[s].copies /\ rows[i] = issues[i]

Plan(s, t) ==
  \/ sess[s].row.status = "qc_ready" /\ t = FailSteps
  \/ /\ sess[s].row.status = "failed_qc"
     /\ \/ t = <<>>
        \/ t = <<Step("delete", <<>>, "none")>>
        \/ t = <<Step("save", <<>>, "pending"), Step("queue", <<>>, "none")>>
        \/ \E rows \in RowSets : RowsLoaded(s, rows) /\ t = <<Step("redo", rows, "none")>>
        \/ \E rows \in RowSets : \E ws \in SentTo : \E last \in {"reload", "delete"} :
             /\ RowsLoaded(s, rows)
             /\ t = <<Step("invalidate", rows, ws), Step(last, <<>>, "none")>>

LEMMA IssueRowsLoaded ==
  ASSUME Typed, NEW s \in Sessions, NEW i \in Issues, NEW rows \in IssueRows(s, i)
  PROVE  RowsLoaded(s, rows)
<1>1. rows \in RowSets /\ DOMAIN rows = {i}
  BY IssueRowsTyped
<1>2. \/ i \in DOMAIN sess[s].copies /\ rows[i] = sess[s].copies[i]
      \/ issues[i].batch = sess[s].batch /\ rows[i] = issues[i]
      \/ i \in DOMAIN sess[s].copies /\ rows[i] = issues[i]
  <2>1. PICK row \in {r \in {issues[i]} : r.batch = sess[s].batch \/ i \in DOMAIN sess[s].copies}
                       \cup {sess[s].copies[k] : k \in DOMAIN sess[s].copies \cap {i}} :
          rows = [k \in {i} |-> row]
    BY DEF IssueRows
  <2> QED
    BY <2>1
<1> QED
  BY <1>1, <1>2 DEF RowsLoaded

LEMMA CopiesLoaded ==
  ASSUME Typed, NEW s \in Sessions, DOMAIN sess[s].copies # {}
  PROVE  sess[s].copies \in RowSets /\ RowsLoaded(s, sess[s].copies)
BY DEF RowsLoaded, Typed, SessionsTyped, SessionSet

LEMMA Planned ==
  ASSUME Typed, NEW s \in Sessions, Fixing(s), ~QuitBatch(s),
         \A b \in BatchIds : ~LoadBatch(s, b)
  PROVE  /\ InBatchMenu(s) /\ OnlySession
         /\ \E t : Plan(s, t) /\ sess' = [sess EXCEPT ![s].todo = t]
<1> DEFINE Goal == /\ InBatchMenu(s) /\ OnlySession
                   /\ \E t : Plan(s, t) /\ sess' = [sess EXCEPT ![s].todo = t]
<1>1. CASE FailQC(s)
  BY <1>1 DEF FailQC, Command, Plan
<1>2. CASE DeleteBatch(s)
  BY <1>2 DEF DeleteBatch, InFailedMenu, Command, Plan
<1>3. CASE RequeueBatch(s)
  BY <1>3 DEF RequeueBatch, InFailedMenu, Command, Plan
<1>4. CASE RedoAllDerivatives(s)
  <2>1. /\ InBatchMenu(s) /\ OnlySession /\ sess[s].row.status = "failed_qc"
        /\ sess' = [sess EXCEPT ![s].todo = Each("redo", sess[s].copies, "none")]
    BY <1>4 DEF RedoAllDerivatives, InFailedMenu, Command
  <2>2. Plan(s, Each("redo", sess[s].copies, "none"))
    BY <2>1, CopiesLoaded, Zenon DEF Each, Plan
  <2> QED
    BY <2>1, <2>2
<1>5. ASSUME NEW i \in Issues, RedoDerivatives(s, i) PROVE Goal
  <2>1. PICK rows \in IssueRows(s, i) : Command(s, <<Step("redo", rows, "none")>>)
    BY <1>5 DEF RedoDerivatives
  <2>2. RowsLoaded(s, rows) /\ rows \in RowSets
    BY IssueRowsLoaded, IssueRowsTyped
  <2>3. InBatchMenu(s) /\ sess[s].row.status = "failed_qc"
    BY <1>5 DEF RedoDerivatives, InFailedMenu
  <2>4. Plan(s, <<Step("redo", rows, "none")>>)
    BY <2>2, <2>3, Zenon DEF Plan
  <2> QED
    BY <2>1, <2>3, <2>4 DEF Command
<1>6. ASSUME NEW ws \in SentTo, RemoveAllAndDelete(s, ws) PROVE Goal
  <2> DEFINE t == Each("invalidate", sess[s].copies, ws) \o <<Step("delete", <<>>, "none")>>
  <2>1. /\ InBatchMenu(s) /\ OnlySession /\ sess[s].row.status = "failed_qc"
        /\ sess' = [sess EXCEPT ![s].todo = t]
    BY <1>6 DEF RemoveAllAndDelete, InFailedMenu, Command
  <2>2. Plan(s, t)
    <3>1. CASE DOMAIN sess[s].copies = {}
      <4>1. Each("invalidate", sess[s].copies, ws) = <<>>
        BY <3>1 DEF Each
      <4>2. <<Step("delete", <<>>, "none")>> \in Seq(StepSet)
        BY PlainSteps, ShortSeq
      <4>3. t = <<Step("delete", <<>>, "none")>>
        BY <4>1, <4>2, ConcatEmptySeq
      <4> QED
        BY <2>1, <4>3, Zenon DEF Plan
    <3>2. CASE DOMAIN sess[s].copies # {}
      <4>1. Each("invalidate", sess[s].copies, ws) = <<Step("invalidate", sess[s].copies, ws)>>
        BY <3>2 DEF Each
      <4>2. Step("invalidate", sess[s].copies, ws) \in StepSet /\ Step("delete", <<>>, "none") \in StepSet
        BY <3>2, CopiesLoaded, IssueSteps, PlainSteps
      <4>3. t = <<Step("invalidate", sess[s].copies, ws), Step("delete", <<>>, "none")>>
        BY <4>1, <4>2, Joined
      <4> QED
        BY <2>1, <3>2, <4>3, CopiesLoaded, Zenon DEF Plan
    <3> QED
      BY <3>1, <3>2
  <2> QED
    BY <2>1, <2>2
<1>7. ASSUME NEW ws \in SentTo, NEW i \in Issues, InvalidateIssue(s, i, ws) PROVE Goal
  <2>1. PICK rows \in IssueRows(s, i) :
          Command(s, <<Step("invalidate", rows, ws), Step("reload", <<>>, "none")>>)
    BY <1>7 DEF InvalidateIssue
  <2>2. RowsLoaded(s, rows) /\ rows \in RowSets
    BY IssueRowsLoaded, IssueRowsTyped
  <2>3. InBatchMenu(s) /\ sess[s].row.status = "failed_qc"
    BY <1>7 DEF InvalidateIssue, InFailedMenu
  <2>4. Plan(s, <<Step("invalidate", rows, ws), Step("reload", <<>>, "none")>>)
    BY <2>2, <2>3, Zenon DEF Plan
  <2> QED
    BY <2>1, <2>3, <2>4 DEF Command
<1> QED
  BY <1>1, <1>2, <1>3, <1>4, <1>5, <1>6, <1>7 DEF Fixing

LEMMA PlanTyped ==
  ASSUME NEW s \in Sessions, NEW t, Plan(s, t)
  PROVE  t \in Seq(StepSet)
<1>1. CASE t = <<>>
  BY <1>1, EmptySeq
<1>2. CASE t = FailSteps
  BY <1>2, PlainSteps, ShortSeq DEF FailSteps
<1>3. CASE t = <<Step("delete", <<>>, "none")>>
  BY <1>3, PlainSteps, ShortSeq
<1>4. CASE t = <<Step("save", <<>>, "pending"), Step("queue", <<>>, "none")>>
  BY <1>4, PlainSteps, ShortSeq
<1>5. ASSUME NEW rows \in RowSets, RowsLoaded(s, rows), t = <<Step("redo", rows, "none")>>
      PROVE  t \in Seq(StepSet)
  <2>1. Step("redo", rows, "none") \in StepSet
    BY <1>5, IssueSteps DEF RowsLoaded
  <2> QED
    BY <1>5, <2>1, ShortSeq
<1>6. ASSUME NEW rows \in RowSets, NEW ws \in SentTo, NEW last \in {"reload", "delete"},
             RowsLoaded(s, rows),
             t = <<Step("invalidate", rows, ws), Step(last, <<>>, "none")>>
      PROVE  t \in Seq(StepSet)
  <2>1. Step("invalidate", rows, ws) \in StepSet /\ Step(last, <<>>, "none") \in StepSet
    BY <1>6, IssueSteps, PlainSteps DEF RowsLoaded
  <2> QED
    BY <1>6, <2>1, ShortSeq
<1> QED
  BY <1>1, <1>2, <1>3, <1>4, <1>5, <1>6, Zenon DEF Plan

(* The types hold in every state.                                          *)
LEMMA TypedAtFirst == Init => Typed
<1> SUFFICES ASSUME Init PROVE Typed
  OBVIOUS
<1>1. IssuesTyped
  BY LifeAssumption DEF Init, IssuesTyped, IssueRow, Steps
<1>2. BatchesTyped
  BY LifeAssumption, EmptySeq DEF Init, BatchesTyped
<1>3. PipesTyped
  BY DEF Init, PipesTyped
<1>4. SessionsTyped
  BY LifeAssumption, NotLoadedTyped, EmptySeq DEF Init, SessionsTyped, NotLoaded, Loaded
<1>5. PurgeTyped
  BY NoRows DEF Init, PurgeTyped, PurgeSet, NotPurging
<1> QED
  BY <1>1, <1>2, <1>3, <1>4, <1>5 DEF Typed

(* Where only some batches' rows are rewritten, sessions and pipelines still
   name batches there are.                                                  *)
LEMMA SameBatches ==
  ASSUME Typed, BatchesTyped', Len(batches') = Len(batches)
  PROVE  /\ UNCHANGED <<pipes, queued>> => PipesTyped'
         /\ UNCHANGED sess => SessionsTyped'
         /\ UNCHANGED issueVars => IssuesTyped'
         /\ UNCHANGED purge => PurgeTyped'
BY DEF Typed, PipesTyped, SessionsTyped, IssuesTyped, PurgeTyped, BatchIds, issueVars, Loaded

LEMMA QueueBatchesTyped == Typed /\ QueueBatches => Typed'
<1> SUFFICES ASSUME Typed, QueueBatches PROVE Typed'
  OBVIOUS
<1>1. PICK S \in SUBSET Issues :
        issues' = [i \in Issues |-> IF i \in S
                       THEN [issues[i] EXCEPT !.batch = Len(batches) + 1] ELSE issues[i]]
  BY DEF QueueBatches
<1>2. Len(batches) \in Nat /\ Len(batches) < MaxBatches
  BY LenProperties DEF Typed, BatchesTyped, QueueBatches
<1>3. IssuesTyped'
  <2>1. \A i \in Issues : issues'[i] \in IssueRow
    <3>1. Len(batches) + 1 \in 0..MaxBatches
      BY <1>2, LifeAssumption
    <3> QED
      BY <1>1, <3>1, IssueWith DEF Typed, IssuesTyped
  <2>2. issues' \in [Issues -> IssueRow]
    BY <1>1, <2>1
  <2> QED
    BY <2>2 DEF IssuesTyped, Typed, QueueBatches
<1>4. BatchesTyped' /\ Len(batches') = Len(batches) + 1
  <2>1. [status |-> "pending", location |-> "none", archived |-> "no"] \in BatchRow
    BY DEF BatchRow, Statuses
  <2>2. NoBatchDirs \in PlaceSet /\ {} \in SUBSET Issues
    BY DEF NoBatchDirs, NoDir, PlaceSet, Found
  <2> QED
    BY <1>2, <2>1, <2>2, LifeAssumption DEF Typed, BatchesTyped, QueueBatches
<1>5. PipesTyped'
  <2> DEFINE new == Pipe("make", Len(batches) + 1, "none")
  <2>1. new \in PipeSet /\ new.kind = "make" /\ new.about \in BatchIds'
    BY <1>2, <1>4, LifeAssumption DEF Pipe, PipeSet, Typed, PipesTyped, BatchIds
  <2>2. pipes' = pipes \cup {new} /\ queued' = queued + 1
    BY DEF QueueBatches
  <2> HIDE DEF new
  <2>3. BatchIds \subseteq BatchIds'
    BY <1>2, <1>4 DEF BatchIds
  <2> QED
    BY <2>1, <2>2, <2>3 DEF Typed, PipesTyped
<1>6. SessionsTyped'
  BY <1>2, <1>4 DEF Typed, SessionsTyped, QueueBatches, Loaded
<1>7. PurgeTyped'
  BY DEF Typed, PurgeTyped, QueueBatches
<1> QED
  BY <1>3, <1>4, <1>5, <1>6, <1>7 DEF Typed

LEMMA FinalizeTyped ==
  ASSUME Typed, NEW i \in Issues, Finalize(i)
  PROVE  Typed'
<1>1. IssuesTyped'
  <2>1. issues' \in [Issues -> IssueRow]
    <3>1. "ReadyForBatching" \in Steps
      BY DEF Steps
    <3>2. [issues[i] EXCEPT !.ws = "ReadyForBatching"] \in IssueRow
      BY <3>1, IssueWith DEF Typed, IssuesTyped
    <3> QED
      BY <3>2 DEF Typed, IssuesTyped, Finalize
  <2>2. edits' \in [Issues -> Nat] /\ mets' \in [Issues -> Nat]
    BY DEF Typed, IssuesTyped, Finalize
  <2> QED
    BY <2>1, <2>2 DEF Typed, IssuesTyped, Finalize
<1>2. BatchesTyped' /\ Len(batches') = Len(batches)
  BY DEF Typed, BatchesTyped, Finalize, batchVars
<1> QED
  BY <1>1, <1>2, SameBatches DEF Typed, Finalize

LEMMA LinkedTyped ==
  ASSUME Typed, NEW b \in BatchIds
  PROVE  Linked(b) \in SUBSET Found /\ IssuesOf(b) \in SUBSET Issues
BY DEF Linked, IssuesOf, InBatch, Found, Typed, IssuesTyped

LEMMA RunJobTyped ==
  ASSUME Typed, NEW p \in pipes, RunJob(p)
  PROVE  Typed'
<1> DEFINE n == p.at
           next == [p EXCEPT !.at = n + 1]
<1>1. p \in PipeSet
  BY DEF Typed, PipesTyped
<1>2. next.kind = p.kind /\ next.about = p.about /\ next.restore = p.restore
      /\ next.at = p.at + 1 /\ (p.at < 7 => next \in PipeSet)
  BY <1>1 DEF PipeSet
<1>3. CASE p.kind = "make"
  <2> DEFINE b == p.about
  <2>1. b \in BatchIds
    BY <1>3 DEF Typed, PipesTyped
  <2>2. batches' \in Seq(BatchRow) /\ Len(batches') = Len(batches)
    <3>1. batches \in Seq(BatchRow) /\ b \in 1..Len(batches) /\ batches[b] \in BatchRow
      BY <2>1 DEF Typed, BatchesTyped, BatchIds
    <3>2. \A r \in BatchRow : /\ [batches EXCEPT ![b] = r] \in Seq(BatchRow)
                             /\ Len([batches EXCEPT ![b] = r]) = Len(batches)
      BY <3>1, ExceptSeq
    <3>3. "qc_ready" \in Statuses
      BY DEF Statuses
    <3>4. /\ [batches[b] EXCEPT !.location = "wip"] \in BatchRow
          /\ [batches[b] EXCEPT !.location = "final"] \in BatchRow
          /\ [batches[b] EXCEPT !.status = "qc_ready"] \in BatchRow
      BY <3>1, <3>3, BatchWith
    <3>5. \/ batches' = batches
          \/ batches' = [batches EXCEPT ![b] = [batches[b] EXCEPT !.location = "wip"]]
          \/ batches' = [batches EXCEPT ![b] = [batches[b] EXCEPT !.location = "final"]]
          \/ batches' = [batches EXCEPT ![b] = [batches[b] EXCEPT !.status = "qc_ready"]]
      BY <1>3, MakeStep
    <3> QED
      BY <3>1, <3>2, <3>4, <3>5
  <2>3. dirs' \in Seq(PlaceSet) /\ Len(dirs') = Len(dirs)
    <3>1. dirs \in Seq(PlaceSet) /\ b \in 1..Len(dirs) /\ dirs[b] \in PlaceSet
      BY <2>1 DEF Typed, BatchesTyped, BatchIds
    <3>2. [dirs[b] EXCEPT !.wip = Linked(b)] \in PlaceSet
      BY <2>1, <3>1, LinkedTyped DEF PlaceSet
    <3>3. [wip |-> NoDir, final |-> dirs[b].wip] \in PlaceSet
      BY <3>1 DEF PlaceSet, NoDir, Found
    <3>4. \A r \in PlaceSet : /\ [dirs EXCEPT ![b] = r] \in Seq(PlaceSet)
                             /\ Len([dirs EXCEPT ![b] = r]) = Len(dirs)
      BY <3>1, ExceptSeq
    <3>5. \/ dirs' = dirs
          \/ dirs' = [dirs EXCEPT ![b] = [dirs[b] EXCEPT !.wip = Linked(b)]]
          \/ dirs' = [dirs EXCEPT ![b] = [wip |-> NoDir, final |-> dirs[b].wip]]
      BY <1>3, MakeStep
    <3> QED
      BY <3>1, <3>2, <3>3, <3>4, <3>5
  <2>4. listed' \in Seq(SUBSET Issues) /\ Len(listed') = Len(listed)
    <3>1. listed \in Seq(SUBSET Issues) /\ b \in 1..Len(listed)
      BY <2>1 DEF Typed, BatchesTyped, BatchIds
    <3>2. /\ [listed EXCEPT ![b] = IssuesOf(b)] \in Seq(SUBSET Issues)
          /\ Len([listed EXCEPT ![b] = IssuesOf(b)]) = Len(listed)
      BY <2>1, <3>1, LinkedTyped, ExceptSeq
    <3> QED
      BY <1>3, <3>1, <3>2, MakeStep
  <2>5. BatchesTyped' /\ Len(batches') = Len(batches)
    BY <2>2, <2>3, <2>4 DEF Typed, BatchesTyped
  <2>6. PipesTyped'
    <3>1. /\ pipes' = (pipes \ {p}) \cup (IF p.at = 7 THEN {} ELSE {next})
          /\ queued' = queued
      BY <1>3, MakeStep
    <3>2. BatchIds' = BatchIds
      BY <2>5 DEF BatchIds
    <3> HIDE DEF next
    <3> QED
      BY <1>1, <1>2, <1>3, <2>1, <3>1, <3>2 DEF Typed, PipesTyped, PipeSet
  <2> QED
    BY <1>3, <2>5, <2>6, MakeStep, SameBatches DEF Typed
<1>4. CASE p.kind # "make"
  <2>1. BatchesTyped' /\ Len(batches') = Len(batches)
    BY <1>4, RedoStep DEF Typed, BatchesTyped, batchVars
  <2>2. IssuesTyped'
    <3>1. p.about \in Issues /\ p.restore \in Steps
      BY <1>1, <1>4 DEF Typed, PipesTyped, PipeSet
    <3>2. \A ws \in Steps : [issues EXCEPT ![p.about].ws = ws] \in [Issues -> IssueRow]
      BY <3>1 DEF Typed, IssuesTyped, IssueRow
    <3>3. issues' \in [Issues -> IssueRow]
      BY <1>4, <3>1, <3>2, RedoStep DEF Typed, IssuesTyped, Steps
    <3> QED
      BY <1>4, <3>1, <3>3, RedoStep DEF Typed, IssuesTyped
  <2>3. PipesTyped'
    <3>1. /\ pipes' = (pipes \ {p}) \cup (IF p.at = 5 THEN {} ELSE {next})
          /\ queued' = queued /\ p.kind = "redo" /\ p.at \in 1..5
      BY <1>4, RedoStep
    <3>2. BatchIds' = BatchIds
      BY <2>1 DEF BatchIds
    <3> HIDE DEF next
    <3> QED
      BY <1>1, <1>2, <3>1, <3>2 DEF Typed, PipesTyped, PipeSet
  <2> QED
    BY <1>4, <2>1, <2>2, <2>3, RedoStep, SameBatches DEF Typed
<1> QED
  BY <1>3, <1>4

LEMMA FixingTyped ==
  ASSUME Typed, NEW s \in Sessions, Fixing(s) \/ SessionDies(s)
  PROVE  Typed'
<1> DEFINE Rest == UNCHANGED <<issueVars, batchVars, pipes, queued, purge>>
           Sound == /\ sess' \in [Sessions -> SessionSet]
                    /\ \A o \in Sessions : sess'[o].batch \in 0..Len(batches)
                    /\ \A o \in Sessions : sess'[o].batch = 0 => sess'[o].todo = <<>>
<1>1. SessionsTyped /\ sess \in [Sessions -> SessionSet] /\ Len(batches) \in Nat
  BY LenProperties DEF Typed, SessionsTyped, BatchesTyped
<1>2. ASSUME NEW x \in SessionSet, sess' = [sess EXCEPT ![s] = x],
             x.batch \in 0..Len(batches), x.todo = <<>>
      PROVE  Sound
  BY <1>1, <1>2, SessionWritten DEF SessionsTyped, Loaded
<1>3. ASSUME NEW b \in BatchIds, LoadBatch(s, b) PROVE Sound /\ Rest
  <2>1. FindBatch(b) \in SessionSet /\ FindBatch(b).batch = b /\ FindBatch(b).todo = <<>>
    BY FindBatchTyped
  <2>2. sess' = [sess EXCEPT ![s] = FindBatch(b)] /\ Rest
    BY <1>3 DEF LoadBatch, OnlySession
  <2>3. b \in 0..Len(batches)
    BY <1>1 DEF BatchIds
  <2> QED
    BY <1>2, <2>1, <2>2, <2>3
<1>4. ASSUME QuitBatch(s) \/ SessionDies(s) PROVE Sound /\ Rest
  <2>1. sess' = [sess EXCEPT ![s] = NotLoaded] /\ Rest
    BY <1>4 DEF QuitBatch, SessionDies, OnlySession
  <2>2. NotLoaded.batch \in 0..Len(batches) /\ NotLoaded.todo = <<>>
    BY <1>1 DEF NotLoaded
  <2>3. Sound
    BY <1>2, <2>1, <2>2, NotLoadedTyped
  <2> QED
    BY <2>1, <2>3
<1>5. ASSUME Fixing(s), ~QuitBatch(s), \A b \in BatchIds : ~LoadBatch(s, b)
      PROVE  Sound /\ Rest
  <2>1. InBatchMenu(s) /\ Rest
    BY <1>5, Planned DEF OnlySession
  <2>2. PICK t : Plan(s, t) /\ sess' = [sess EXCEPT ![s].todo = t]
    BY <1>5, Planned
  <2>3. t \in Seq(StepSet)
    BY <2>2, PlanTyped
  <2>4. Sound
    BY <1>1, <2>1, <2>2, <2>3, TodoWritten DEF SessionsTyped, InBatchMenu, Loaded
  <2> QED
    BY <2>1, <2>4
<1>6. Sound /\ Rest
  BY <1>3, <1>4, <1>5
<1> QED
  BY <1>6 DEF Typed, IssuesTyped, BatchesTyped, PipesTyped, SessionsTyped, PurgeTyped, BatchIds,
     issueVars, batchVars, Loaded

(* The steps of a session that has one to take                             *)
LEMMA FirstStep ==
  ASSUME Typed, NEW s \in Sessions, sess[s].todo # <<>>
  PROVE  LET t == sess[s].todo
         IN  /\ Loaded(s) /\ sess[s].batch \in BatchIds
             /\ t \in Seq(StepSet) /\ Len(t) \in Nat \ {0}
             /\ t[1] \in StepSet /\ Head(t) = t[1]
             /\ Tail(t) \in Seq(StepSet) /\ Len(Tail(t)) = Len(t) - 1
             /\ \A n \in 1..Len(t) - 1 : Tail(t)[n] = t[n + 1]
<1> DEFINE t == sess[s].todo
<1>1. t \in Seq(StepSet) /\ Loaded(s) /\ sess[s].batch \in BatchIds
  BY DEF Typed, SessionsTyped, SessionSet, Loaded, BatchIds
<1>2. Len(t) \in Nat \ {0} /\ Head(t) = t[1]
  BY <1>1, EmptySeq
<1>3. t[1] \in StepSet
  BY <1>1, <1>2, ElementOfSeq
<1> QED
  BY <1>1, <1>2, <1>3, HeadTailProperties

LEMMA SaveBatchTyped ==
  ASSUME Typed, NEW s \in Sessions, sess[s].todo # <<>>, NEW st \in Statuses, SaveBatch(s, st)
  PROVE  LET b   == sess[s].batch
             row == [sess[s].row EXCEPT !.status = st, !.location = "none"]
         IN  /\ BatchesTyped /\ batches' \in Seq(BatchRow) /\ Len(batches') = Len(batches)
             /\ batches'[b] = row /\ row \in BatchRow
             /\ \A o \in BatchIds : o # b => batches'[o] = batches[o]
             /\ sess' \in [Sessions -> SessionSet]
             /\ sess'[s].batch = b /\ sess'[s].row = row /\ sess'[s].copies = sess[s].copies
             /\ sess'[s].todo = Tail(sess[s].todo)
             /\ \A o \in Sessions \ {s} : sess'[o] = sess[o]
<1> DEFINE b   == sess[s].batch
           row == [sess[s].row EXCEPT !.status = st, !.location = "none"]
<1>1. row \in BatchRow
  BY BatchSaved DEF Typed, SessionsTyped, SessionSet
<1>2. /\ batches' = [batches EXCEPT ![b] = row]
      /\ sess' = [sess EXCEPT ![s].row = row, ![s].todo = Tail(@)]
  BY DEF SaveBatch
<1>3. b \in BatchIds /\ Tail(sess[s].todo) \in Seq(StepSet)
  BY FirstStep
<1> HIDE DEF row
<1>4. /\ batches' \in Seq(BatchRow) /\ Len(batches') = Len(batches) /\ batches'[b] = row
      /\ \A o \in BatchIds : o # b => batches'[o] = batches[o]
  BY <1>1, <1>2, <1>3, ExceptSeq DEF Typed, BatchesTyped, BatchIds
<1>5. /\ sess' \in [Sessions -> SessionSet]
      /\ sess'[s].batch = b /\ sess'[s].row = row /\ sess'[s].copies = sess[s].copies
      /\ sess'[s].todo = Tail(sess[s].todo)
      /\ \A o \in Sessions \ {s} : sess'[o] = sess[o]
  BY <1>1, <1>2, <1>3 DEF Typed, SessionsTyped, SessionSet
<1> QED
  BY <1>1, <1>4, <1>5 DEF row, Typed

LEMMA InvalidateStep ==
  ASSUME Typed, NEW s \in Sessions, Invalidate(s)
  PROVE  LET t   == sess[s].todo
             i   == First(s)
             row == Invalidated(Rows(s)[i], t[1].ws)
             new == <<Step("remove_mets", [k \in {i} |-> row], "none")>> \o Taken(s)
         IN  /\ t # <<>> /\ t[1].op = "invalidate" /\ t[1].ws \in SentTo /\ Rows(s) = t[1].rows
             /\ i \in DOMAIN Rows(s) /\ i \in Issues /\ row \in IssueRow
             /\ issues' = [issues EXCEPT ![i] = row] /\ IssuesTyped'
             /\ new \in Seq(StepSet) /\ sess' \in [Sessions -> SessionSet]
             /\ Taken(s) \in Seq(StepSet) /\ Len(new) = Len(Taken(s)) + 1
             /\ new[1] = Step("remove_mets", [k \in {i} |-> row], "none")
             /\ \A n \in 2..Len(new) : new[n] = Taken(s)[n - 1]
             /\ sess'[s].batch = sess[s].batch /\ sess'[s].row = sess[s].row
             /\ sess'[s].copies = [k \in DOMAIN sess[s].copies |->
                                     IF k = i THEN row ELSE sess[s].copies[k]]
             /\ sess'[s].todo = new
             /\ \A o \in Sessions \ {s} : sess'[o] = sess[o]
             /\ UNCHANGED <<edits, files, mets, batchVars, pipes, queued, purge, deaths>>
<1> DEFINE t    == sess[s].todo
           i    == First(s)
           row  == Invalidated(Rows(s)[i], t[1].ws)
           mine == Step("remove_mets", [k \in {i} |-> row], "none")
           new  == <<mine>> \o Taken(s)
           cps  == [k \in DOMAIN sess[s].copies |-> IF k = i THEN row ELSE sess[s].copies[k]]
<1>1. t # <<>> /\ t[1].op = "invalidate" /\ t[1].ws \in SentTo /\ Head(t) = t[1]
  BY FirstStep DEF Invalidate, Doing, StepSet
<1>2. /\ i \in DOMAIN Rows(s) /\ i \in Issues /\ Rows(s)[i] \in IssueRow
      /\ Taken(s) \in Seq(StepSet) /\ Rows(s) = t[1].rows
  BY <1>1, TakenIs DEF Rows
<1>3. row \in IssueRow
  BY <1>1, <1>2, IssueInvalidated DEF SentTo, Steps
<1>4. mine \in StepSet
  BY <1>2, <1>3, OneRow, IssueSteps
<1>5. /\ new \in Seq(StepSet) /\ Len(new) = Len(Taken(s)) + 1 /\ new[1] = mine
      /\ \A n \in 2..Len(new) : new[n] = Taken(s)[n - 1]
  <2> HIDE DEF mine
  <2>1. <<mine>> \in Seq(StepSet) /\ Len(<<mine>>) = 1 /\ <<mine>>[1] = mine
    BY <1>4, ShortSeq
  <2>2. Len(Taken(s)) \in Nat
    BY <1>2, LenProperties
  <2>3. /\ new \in Seq(StepSet) /\ Len(new) = Len(<<mine>>) + Len(Taken(s))
        /\ \A n \in 1..Len(<<mine>>) + Len(Taken(s)) :
             new[n] = IF n <= Len(<<mine>>) THEN <<mine>>[n] ELSE Taken(s)[n - Len(<<mine>>)]
    BY <1>2, <2>1, ConcatProperties
  <2> QED
    BY <2>1, <2>2, <2>3
<1>6. cps \in RowSets
  <2>1. sess[s].copies \in RowSets
    BY DEF Typed, SessionsTyped, SessionSet
  <2>2. DOMAIN sess[s].copies \in SUBSET Issues /\ \A k \in DOMAIN sess[s].copies : sess[s].copies[k] \in IssueRow
    BY <2>1, RowsOf
  <2> HIDE DEF row
  <2>3. cps \in [DOMAIN sess[s].copies -> IssueRow]
    BY <1>3, <2>2
  <2> QED
    BY <2>2, <2>3, SomeRows
<1>7. /\ issues' = [issues EXCEPT ![i] = row]
      /\ sess' = [sess EXCEPT ![s].copies = cps, ![s].todo = new]
      /\ UNCHANGED <<edits, files, mets, batchVars, pipes, queued, purge, deaths>>
  BY <1>1 DEF Invalidate
<1> HIDE DEF row, new, cps, i
<1>8. IssuesTyped'
  BY <1>2, <1>3, <1>7 DEF Typed, IssuesTyped
<1>9. /\ sess' \in [Sessions -> SessionSet]
      /\ sess'[s].batch = sess[s].batch /\ sess'[s].row = sess[s].row
      /\ sess'[s].copies = cps /\ sess'[s].todo = new
      /\ \A o \in Sessions \ {s} : sess'[o] = sess[o]
  BY <1>5, <1>6, <1>7 DEF Typed, SessionsTyped, SessionSet
<1> QED
  BY <1>1, <1>2, <1>3, <1>5, <1>7, <1>8, <1>9 DEF row, new, cps, i

(* A step which leaves the sequence of batches as long as it was           *)
LEMMA OneStepDone ==
  ASSUME Typed, NEW s \in Sessions, sess[s].todo # <<>>, Done(s)
  PROVE  /\ sess' \in [Sessions -> SessionSet]
         /\ sess'[s].todo = Tail(sess[s].todo)
         /\ \A o \in Sessions : /\ sess'[o].batch = sess[o].batch /\ sess'[o].row = sess[o].row
                                /\ sess'[o].copies = sess[o].copies
                                /\ o # s => sess'[o] = sess[o]
<1>1. Tail(sess[s].todo) \in Seq(StepSet) /\ SessionsTyped
  BY FirstStep DEF Typed
<1>2. sess' = [sess EXCEPT ![s].todo = Tail(sess[s].todo)]
  BY DEF Done
<1> QED
  BY <1>1, <1>2, TodoWritten

LEMMA SessionsStillTyped ==
  ASSUME Typed, NEW s \in Sessions, sess' \in [Sessions -> SessionSet], Loaded(s),
         sess'[s].batch = sess[s].batch, \A o \in Sessions \ {s} : sess'[o] = sess[o],
         Len(batches') = Len(batches)
  PROVE  SessionsTyped'
BY DEF Typed, SessionsTyped, Loaded

(* What is left to do of a command that failed                             *)
LEMMA LeftToDo ==
  LET u == IF Patient THEN <<Step("reload", <<>>, "none")>> ELSE <<>>
  IN  /\ u \in Seq(StepSet)
      /\ u # <<>> => Patient /\ Len(u) = 1 /\ u[1].op = "reload" /\ u[1] \in StepSet
      /\ u = <<>> => Len(u) = 0
<1>1. CASE Patient
  <2> DEFINE x == Step("reload", <<>>, "none")
  <2>1. x \in StepSet /\ x.op = "reload"
    BY PlainSteps DEF Step
  <2> HIDE DEF x
  <2>2. <<x>> \in Seq(StepSet) /\ Len(<<x>>) = 1 /\ <<x>>[1] = x
    BY <2>1, ShortSeq
  <2>3. <<x>> # <<>>
    BY <2>2, EmptySeq
  <2> QED
    BY <1>1, <2>1, <2>2, <2>3 DEF x
<1>2. CASE ~Patient
  BY <1>2, EmptySeq
<1> QED
  BY <1>1, <1>2

LEMMA SteppingTyped ==
  ASSUME Typed, NEW s \in Sessions, Stepping(s)
  PROVE  Typed'
<1> DEFINE b == sess[s].batch
<1>1. sess[s].todo # <<>>
  BY DEF Stepping, RemoveDir, RemoveMETS, KeepMETS, Reload, Delete, SaveStatus, Queue, Invalidate, Redo, Doing
<1>2. /\ Loaded(s) /\ b \in BatchIds /\ sess[s].todo[1] \in StepSet
      /\ Head(sess[s].todo) = sess[s].todo[1]
  BY <1>1, FirstStep
<1>3. /\ sess \in [Sessions -> SessionSet] /\ batches \in Seq(BatchRow) /\ dirs \in Seq(PlaceSet)
      /\ BatchIds = 1..Len(dirs)
  BY DEF Typed, SessionsTyped, BatchesTyped, BatchIds
<1>4. ASSUME RemoveDir(s) PROVE Typed'
  <2>1. /\ dirs' = [dirs EXCEPT ![b][sess[s].row.location] = NoDir]
        /\ Done(s) /\ UNCHANGED <<issueVars, batches, listed, pipes, queued, purge, deaths>>
    BY <1>4 DEF RemoveDir
  <2>2. dirs' \in Seq(PlaceSet) /\ Len(dirs') = Len(dirs)
    <3>1. dirs[b] \in PlaceSet
      BY <1>2, <1>3, ElementOfSeq
    <3>2. [dirs[b] EXCEPT ![sess[s].row.location] = NoDir] \in PlaceSet
      <4>1. NoDir \in SUBSET Found
        BY DEF NoDir, Found
      <4>2. /\ [dirs[b] EXCEPT !["none"] = NoDir] \in PlaceSet
            /\ [dirs[b] EXCEPT !["wip"] = NoDir] \in PlaceSet
            /\ [dirs[b] EXCEPT !["final"] = NoDir] \in PlaceSet
        BY <3>1, <4>1 DEF PlaceSet
      <4>3. sess[s].row.location \in {"none", "wip", "final"}
        BY <1>3 DEF SessionSet, BatchRow
      <4> QED
        BY <4>2, <4>3
    <3> QED
      BY <1>2, <1>3, <2>1, <3>2, ExceptSeq
  <2>3. BatchesTyped' /\ Len(batches') = Len(batches)
    BY <2>1, <2>2 DEF Typed, BatchesTyped
  <2> QED
    BY <1>1, <1>2, <2>1, <2>3, SameBatches, OneStepDone, SessionsStillTyped DEF Typed
<1>5. ASSUME RemoveMETS(s) PROVE Typed'
  <2>1. /\ mets' = [i \in Issues |-> IF i \in DOMAIN Rows(s) THEN 0 ELSE mets[i]]
        /\ Done(s) /\ UNCHANGED <<issues, edits, files, batchVars, pipes, queued, purge, deaths>>
    BY <1>5 DEF RemoveMETS
  <2>2. IssuesTyped'
    BY <2>1 DEF Typed, IssuesTyped
  <2>3. BatchesTyped' /\ Len(batches') = Len(batches)
    BY <2>1 DEF Typed, BatchesTyped, batchVars
  <2> QED
    BY <1>1, <1>2, <2>1, <2>2, <2>3, SameBatches, OneStepDone, SessionsStillTyped DEF Typed
<1>12. ASSUME KeepMETS(s) PROVE Typed'
  <2>1. PICK u \in Seq(StepSet) : sess' = [sess EXCEPT ![s].todo = u] /\ OnlySession
    BY <1>12, LeftToDo DEF KeepMETS
  <2>2. BatchesTyped' /\ Len(batches') = Len(batches)
    BY <2>1 DEF Typed, BatchesTyped, batchVars, OnlySession
  <2>3. SessionsTyped'
    BY <1>2, <2>1, <2>2, TodoWritten, SessionsStillTyped DEF Typed
  <2> QED
    BY <2>1, <2>2, <2>3, SameBatches DEF Typed, OnlySession
<1>6. ASSUME Reload(s) PROVE Typed'
  <2>1. sess' = [sess EXCEPT ![s] = FindBatch(b)] /\ OnlySession
    BY <1>6 DEF Reload
  <2>2. /\ sess' \in [Sessions -> SessionSet] /\ sess'[s].batch = b
        /\ \A o \in Sessions \ {s} : sess'[o] = sess[o]
    BY <1>2, <2>1, FindBatchTyped, SessionWritten DEF Typed
  <2>3. BatchesTyped' /\ Len(batches') = Len(batches)
    BY <2>1 DEF Typed, BatchesTyped, batchVars, OnlySession
  <2> QED
    BY <1>2, <2>1, <2>2, <2>3, SameBatches, SessionsStillTyped DEF Typed, OnlySession
<1>7. ASSUME Delete(s) PROVE Typed'
  <2>1. /\ SaveBatch(s, "deleted")
        /\ UNCHANGED <<edits, files, mets, dirs, listed, pipes, queued, purge, deaths>>
    BY <1>7 DEF Delete
  <2>2. "deleted" \in Statuses
    BY DEF Statuses
  <2>3. BatchesTyped' /\ Len(batches') = Len(batches) /\ SessionsTyped'
    BY <1>1, <1>2, <2>1, <2>2, SaveBatchTyped, SessionsStillTyped DEF Typed, BatchesTyped
  <2>4. IssuesTyped'
    <3>1. sess[s].copies \in RowSets /\ FindBatch(b).copies \in RowSets
      BY <1>2, <1>3, FindBatchTyped DEF SessionSet
    <3>2. PICK rows \in RowSets :
            issues' = [i \in Issues |-> IF i \in DOMAIN rows THEN TakenOff(rows[i]) ELSE issues[i]]
      <4> DEFINE rows == IF DOMAIN sess[s].copies # {} THEN sess[s].copies ELSE FindBatch(b).copies
      <4>1. rows \in RowSets
        BY <3>1
      <4>2. issues' = [i \in Issues |-> IF i \in DOMAIN rows THEN TakenOff(rows[i]) ELSE issues[i]]
        BY <1>7 DEF Delete
      <4> QED
        BY <4>1, <4>2
    <3>3. \A i \in DOMAIN rows : TakenOff(rows[i]) \in IssueRow
      <4>1. 0 \in 0..MaxBatches
        BY LifeAssumption
      <4> QED
        BY <3>2, <4>1, RowsOf, IssueWith DEF TakenOff
    <3>4. issues' \in [Issues -> IssueRow]
      BY <3>2, <3>3 DEF Typed, IssuesTyped
    <3> QED
      BY <2>1, <3>4 DEF Typed, IssuesTyped
  <2> QED
    BY <2>1, <2>3, <2>4, SameBatches DEF Typed
<1>8. ASSUME SaveStatus(s) PROVE Typed'
  <2>1. /\ SaveBatch(s, sess[s].todo[1].ws)
        /\ UNCHANGED <<issueVars, dirs, listed, pipes, queued, purge, deaths>>
    BY <1>2, <1>8 DEF SaveStatus
  <2>2. sess[s].todo[1].ws \in Statuses
    BY <1>2, <1>8 DEF SaveStatus, Doing, Statuses, StepSet
  <2>3. BatchesTyped' /\ Len(batches') = Len(batches) /\ SessionsTyped'
    BY <1>1, <1>2, <2>1, <2>2, SaveBatchTyped, SessionsStillTyped DEF Typed, BatchesTyped
  <2> QED
    BY <2>1, <2>3, SameBatches DEF Typed
<1>9. ASSUME Queue(s) PROVE Typed'
  <2> DEFINE new == Pipe("make", b, "none")
  <2>1. /\ pipes' = pipes \cup {new} /\ queued' = queued + 1 /\ Done(s)
        /\ UNCHANGED <<issueVars, batchVars, purge, deaths>>
    BY <1>9 DEF Queue
  <2>2. BatchesTyped' /\ Len(batches') = Len(batches)
    BY <2>1 DEF Typed, BatchesTyped, batchVars
  <2>3. b \in Nat /\ queued \in Nat
    BY <1>2, <1>3 DEF BatchIds, Typed, PipesTyped
  <2>4. new \in PipeSet /\ new.kind = "make" /\ new.about = b
    BY <2>3, PipeMade
  <2> HIDE DEF new
  <2>5. PipesTyped'
    BY <1>2, <2>1, <2>2, <2>3, <2>4 DEF Typed, PipesTyped, BatchIds
  <2> QED
    BY <1>1, <1>2, <2>1, <2>2, <2>5, SameBatches, OneStepDone, SessionsStillTyped DEF Typed
<1>10. ASSUME Invalidate(s) PROVE Typed'
  <2>1. BatchesTyped' /\ Len(batches') = Len(batches)
    BY <1>10, InvalidateStep DEF Typed, BatchesTyped, batchVars
  <2> QED
    BY <1>2, <1>10, <2>1, InvalidateStep, SameBatches, SessionsStillTyped DEF Typed
<1>11. ASSUME Redo(s) PROVE Typed'
  <2> DEFINE i   == First(s)
             new == Pipe("redo", i, CurrentStep(Rows(s)[i]))
  <2>1. /\ pipes' = pipes \cup {new} /\ queued' = queued + 1
        /\ sess' = [sess EXCEPT ![s].todo = Taken(s)]
        /\ UNCHANGED <<issueVars, batchVars, purge, deaths>>
    BY <1>11 DEF Redo
  <2>2. BatchesTyped' /\ Len(batches') = Len(batches)
    BY <2>1 DEF Typed, BatchesTyped, batchVars
  <2>3. i \in Issues /\ Rows(s)[i] \in IssueRow /\ Taken(s) \in Seq(StepSet) /\ queued \in Nat
    BY <1>1, <1>11, TakenIs DEF Redo, Doing, Typed, PipesTyped
  <2>4. /\ new \in PipeSet /\ new.kind = "redo" /\ new.about = i /\ new.at = 1
        /\ new.restore \in Steps
    BY <2>3, PipeMade DEF CurrentStep, IssueRow
  <2> HIDE DEF new
  <2>5. PipesTyped'
    BY <2>1, <2>2, <2>3, <2>4 DEF Typed, PipesTyped, BatchIds
  <2>6. SessionsTyped'
    BY <1>2, <2>1, <2>2, <2>3, TodoWritten, SessionsStillTyped DEF Typed
  <2> QED
    BY <2>1, <2>2, <2>5, <2>6, SameBatches DEF Typed
<1> QED
  BY <1>4, <1>5, <1>6, <1>7, <1>8, <1>9, <1>10, <1>11, <1>12 DEF Stepping

LEMMA BatchWritten ==
  ASSUME Typed, NEW b \in BatchIds, NEW r \in BatchRow, batches' = [batches EXCEPT ![b] = r]
  PROVE  /\ batches' \in Seq(BatchRow) /\ Len(batches') = Len(batches) /\ batches'[b] = r
         /\ \A o \in BatchIds : o # b => batches'[o] = batches[o]
         /\ BatchIds' = BatchIds
BY ExceptSeq DEF Typed, BatchesTyped, BatchIds

(* What becomes of a batch's row by hand and by time                       *)
LEMMA GoLiveStep ==
  ASSUME Typed, NEW b \in BatchIds, GoLive(b)
  PROVE  /\ batches' \in Seq(BatchRow) /\ Len(batches') = Len(batches) /\ BatchIds' = BatchIds
         /\ \A o \in BatchIds : o # b => batches'[o] = batches[o]
         /\ batches'[b].status = "live" /\ batches'[b].location = batches[b].location
         /\ batches'[b].archived = batches[b].archived
<1> DEFINE u == [batches[b] EXCEPT !.status = "live"]
<1>1. batches[b] \in BatchRow /\ "live" \in Statuses
  BY DEF Typed, BatchesTyped, BatchIds, Statuses
<1>2. /\ u \in BatchRow /\ u.status = "live" /\ u.location = batches[b].location
      /\ u.archived = batches[b].archived
  BY <1>1, BatchWith DEF Statuses
<1>3. batches' = [batches EXCEPT ![b] = u]
  BY DEF GoLive
<1> HIDE DEF u
<1> QED
  BY <1>2, <1>3, BatchWritten

LEMMA ArchiveStep ==
  ASSUME Typed, NEW b \in BatchIds, Archive(b)
  PROVE  /\ batches' \in Seq(BatchRow) /\ Len(batches') = Len(batches) /\ BatchIds' = BatchIds
         /\ \A o \in BatchIds : o # b => batches'[o] = batches[o]
         /\ batches[b].status = "live" /\ batches'[b].status = "live"
         /\ batches'[b].archived = "recently"
<1> DEFINE v == [batches[b] EXCEPT !.location = "none"]
           u == [v EXCEPT !.archived = "recently"]
<1>1. batches[b] \in BatchRow
  BY DEF Typed, BatchesTyped, BatchIds
<1>2. v \in BatchRow /\ v.status = batches[b].status
  BY <1>1, BatchWith
<1>3. u \in BatchRow /\ u.status = batches[b].status /\ u.archived = "recently"
  <2> HIDE DEF v
  <2> QED
    BY <1>2, BatchWith
<1>4. batches' = [batches EXCEPT ![b] = u] /\ batches[b].status = "live"
  <2>1. batches' = [[batches EXCEPT ![b].location = "none"] EXCEPT ![b].archived = "recently"]
    BY DEF Archive
  <2>2. b \in DOMAIN batches
    BY DEF Typed, BatchesTyped, BatchIds
  <2> QED
    BY <2>1, <2>2 DEF Archive
<1> HIDE DEF u
<1> QED
  BY <1>3, <1>4, BatchWritten

LEMMA FourWeeksStep ==
  ASSUME Typed, NEW b \in BatchIds, FourWeeksPass(b)
  PROVE  /\ batches' \in Seq(BatchRow) /\ Len(batches') = Len(batches) /\ BatchIds' = BatchIds
         /\ \A o \in BatchIds : o # b => batches'[o] = batches[o]
         /\ batches'[b].status = batches[b].status /\ batches'[b].location = batches[b].location
         /\ batches[b].archived = "recently" /\ batches'[b].archived = "four-weeks-ago"
<1> DEFINE u == [batches[b] EXCEPT !.archived = "four-weeks-ago"]
<1>1. batches[b] \in BatchRow
  BY DEF Typed, BatchesTyped, BatchIds
<1>2. /\ u \in BatchRow /\ u.status = batches[b].status /\ u.location = batches[b].location
      /\ u.archived = "four-weeks-ago"
  BY <1>1, BatchWith
<1>3. batches' = [batches EXCEPT ![b] = u] /\ batches[b].archived = "recently"
  BY DEF FourWeeksPass
<1> HIDE DEF u
<1> QED
  BY <1>2, <1>3, BatchWritten

LEMMA ByHandTyped ==
  ASSUME Typed, NEW b \in BatchIds, GoLive(b) \/ Archive(b) \/ FourWeeksPass(b)
  PROVE  Typed'
<1>1. /\ UNCHANGED <<issueVars, listed, pipes, queued, sess, purge>>
      /\ dirs' = dirs \/ dirs' = [dirs EXCEPT ![b] = NoBatchDirs]
  BY DEF GoLive, Archive, FourWeeksPass
<1>2. dirs' \in Seq(PlaceSet) /\ Len(dirs') = Len(dirs)
  <2>1. dirs \in Seq(PlaceSet) /\ b \in 1..Len(dirs)
    BY DEF Typed, BatchesTyped, BatchIds
  <2>2. NoBatchDirs \in PlaceSet
    BY DEF NoBatchDirs, NoDir, PlaceSet, Found
  <2> QED
    BY <1>1, <2>1, <2>2, ExceptSeq
<1>3. batches' \in Seq(BatchRow) /\ Len(batches') = Len(batches)
  BY GoLiveStep, ArchiveStep, FourWeeksStep
<1>4. BatchesTyped'
  BY <1>1, <1>2, <1>3 DEF Typed, BatchesTyped
<1> QED
  BY <1>1, <1>3, <1>4, SameBatches DEF Typed

LEMMA IgnoreIssuesTyped ==
  ASSUME Typed, IgnoreIssues
  PROVE  Typed'
<1>1. BatchesTyped' /\ Len(batches') = Len(batches)
  BY DEF IgnoreIssues, Typed, BatchesTyped, batchVars
<1>2. IssuesTyped'
  <2>1. \A i \in Issues : [issues[i] EXCEPT !.ignored = TRUE, !.ws = "InProduction"] \in IssueRow
    BY IssueDone DEF Typed, IssuesTyped
  <2>2. issues' \in [Issues -> IssueRow]
    BY <2>1 DEF IgnoreIssues, Typed, IssuesTyped
  <2> QED
    BY <2>2 DEF IgnoreIssues, Typed, IssuesTyped
<1> QED
  BY <1>1, <1>2, SameBatches DEF Typed, IgnoreIssues

(* delete-live-done-issues rewrites rows of batches and of listed issues.  *)
LEMMA ClosedTyped ==
  ASSUME Typed, NEW b \in BatchIds
  PROVE  /\ Closed(b) \in BatchRow /\ Closed(b).location = batches[b].location
         /\ Closed(b).archived = batches[b].archived
         /\ Closed(b).status = IF MayClose(b) THEN "live_done" ELSE batches[b].status
<1>1. batches[b] \in BatchRow /\ "live_done" \in Statuses
  BY DEF Typed, BatchesTyped, BatchIds, Statuses
<1> DEFINE u == [batches[b] EXCEPT !.status = "live_done"]
<1>2. /\ u \in BatchRow /\ u.status = "live_done" /\ u.location = batches[b].location
      /\ u.archived = batches[b].archived
  BY <1>1, BatchWith DEF Statuses
<1> QED
  BY <1>1, <1>2 DEF Closed

LEMMA ClosingStep ==
  ASSUME Typed, DryRun \/ \E b \in BatchIds : Close(b)
  PROVE  /\ batches' \in Seq(BatchRow) /\ Len(batches') = Len(batches) /\ BatchIds' = BatchIds
         /\ \A b \in BatchIds : batches'[b] \in {batches[b], Closed(b)}
         /\ UNCHANGED <<issueVars, dirs, listed, pipes, queued, sess, deaths>>
<1>1. CASE DryRun
  <2>1. batches' = [b \in 1..Len(batches) |-> IF b \in LiveArchived THEN Closed(b) ELSE batches[b]]
    BY <1>1 DEF DryRun, BatchIds
  <2>2. \A b \in 1..Len(batches) : batches'[b] \in {batches[b], Closed(b)}
    BY <2>1
  <2>3. \A b \in 1..Len(batches) : batches'[b] \in BatchRow
    BY <2>2, ClosedTyped DEF Typed, BatchesTyped, BatchIds
  <2>4. batches' \in Seq(BatchRow) /\ Len(batches') = Len(batches)
    <3>1. Len(batches) \in Nat
      BY LenProperties DEF Typed, BatchesTyped
    <3>2. batches' \in [1..Len(batches) -> BatchRow]
      BY <2>1, <2>3
    <3>3. batches' \in Seq(BatchRow)
      BY <3>1, <3>2, SeqDef
    <3> QED
      BY <3>1, <3>2, <3>3, LenProperties
  <2> QED
    BY <1>1, <2>2, <2>4 DEF DryRun, OnlyPurge, BatchIds, issueVars
<1>2. CASE \E b \in BatchIds : Close(b)
  <2>1. PICK b \in BatchIds : Close(b)
    BY <1>2
  <2>2. PICK r \in BatchRow : r = Closed(b)
    BY ClosedTyped
  <2>3. batches' = [batches EXCEPT ![b] = r]
    BY <2>1, <2>2 DEF Close
  <2>4. /\ batches' \in Seq(BatchRow) /\ Len(batches') = Len(batches) /\ BatchIds' = BatchIds
        /\ \A o \in BatchIds : batches'[o] \in {batches[o], Closed(o)}
    BY <2>2, <2>3, BatchWritten
  <2>5. UNCHANGED <<issueVars, dirs, listed, pipes, queued, sess, deaths>>
    BY <2>1 DEF Close, OnlyPurge, issueVars
  <2> QED
    BY <2>4, <2>5
<1> QED
  BY <1>1, <1>2

LEMMA PurgeWritten ==
  ASSUME PurgeTyped
  PROVE  /\ NotPurging \in PurgeSet /\ NotPurging.pc = "idle"
         /\ \A c \in SUBSET (Issues \cup Nat) : \A pc \in {"closing", "removing", "removed"} :
              LET u == [purge EXCEPT !.pc = pc, !.close = c] IN
                u \in PurgeSet /\ u.pc = pc /\ u.list = purge.list /\ u.close = c
         /\ \A f \in RowSets : LET u == [purge EXCEPT !.pc = "removing", !.list = f] IN
              u \in PurgeSet /\ u.pc = "removing" /\ u.list = f
         /\ \A f \in RowSets : LET u == [purge EXCEPT !.pc = "removing", !.close = {}, !.list = f] IN
              u \in PurgeSet /\ u.pc = "removing" /\ u.list = f
         /\ \A c \in SUBSET (Issues \cup Nat) : LET u == [purge EXCEPT !.close = c] IN
              u \in PurgeSet /\ u.pc = purge.pc /\ u.list = purge.list
BY NoRows DEF PurgeTyped, PurgeSet, NotPurging

LEMMA PurgingTyped ==
  ASSUME Typed, StartPurge \/ Purge \/ DryRun \/ PurgeDies
  PROVE  Typed'
<1> DEFINE Others == UNCHANGED <<edits, mets, dirs, listed, pipes, queued, sess>>
<1>1. PurgeTyped /\ purge.list \in RowSets /\ BatchIds \subseteq Nat
  BY DEF Typed, PurgeTyped, PurgeSet, BatchIds
<1>2. /\ Others
      /\ batches' \in Seq(BatchRow) /\ Len(batches') = Len(batches)
  <2>1. CASE DryRun \/ \E b \in BatchIds : Close(b)
    BY <2>1, ClosingStep DEF issueVars
  <2>2. CASE ~DryRun /\ ~\E b \in BatchIds : Close(b)
    BY <2>2 DEF StartPurge, Purge, PurgeDies, FindCompletedIssues, EndPurge, RemoveFiles,
       SaveLocation, OnlyPurge, Typed, BatchesTyped, issueVars, batchVars
  <2> QED
    BY <2>1, <2>2
<1>3. BatchesTyped' /\ Len(batches') = Len(batches)
  BY <1>2 DEF Typed, BatchesTyped
<1>4. PurgeTyped'
  <2>1. CASE UNCHANGED purge \/ purge' = NotPurging
    BY <1>1, <2>1, PurgeWritten DEF PurgeTyped
  <2>2. CASE StartPurge
    <3>1. purge' = [NotPurging EXCEPT !.pc = "closing", !.close = LiveArchived]
      BY <2>2 DEF StartPurge
    <3>2. LiveArchived \in SUBSET (Issues \cup Nat)
      BY <1>1 DEF LiveArchived
    <3> QED
      BY <3>1, <3>2, NoRows DEF NotPurging, PurgeTyped, PurgeSet
  <2>3. ASSUME NEW b \in BatchIds, Close(b) PROVE PurgeTyped'
    <3> DEFINE u == [purge EXCEPT !.close = purge.close \ {b}]
    <3>1. purge' = u /\ purge.pc = "closing"
      BY <2>3 DEF Close
    <3>2. purge.close \ {b} \in SUBSET (Issues \cup Nat)
      BY <1>1 DEF PurgeTyped, PurgeSet
    <3>3. u \in PurgeSet /\ u.pc = purge.pc
      BY <1>1, <3>2, PurgeWritten
    <3> HIDE DEF u
    <3> QED
      BY <3>1, <3>3 DEF PurgeTyped
  <2>4. CASE FindCompletedIssues
    <3> DEFINE f == [i \in Completed |-> issues[i]]
    <3>1. purge' = [purge EXCEPT !.pc = "removing", !.list = f]
      BY <2>4 DEF FindCompletedIssues
    <3>2. Completed \in SUBSET Issues /\ f \in [Completed -> IssueRow]
      BY DEF Completed, Typed, IssuesTyped
    <3>3. f \in RowSets
      BY <3>2, SomeRows
    <3> HIDE DEF f
    <3> QED
      BY <1>1, <3>1, <3>3, PurgeWritten DEF PurgeTyped
  <2>5. ASSUME NEW i \in Issues, RemoveFiles(i) PROVE PurgeTyped'
    <3> DEFINE u == [purge EXCEPT !.pc = "removed", !.close = {i}]
    <3>1. purge' = u
      BY <2>5 DEF RemoveFiles
    <3>2. {i} \in SUBSET (Issues \cup Nat) /\ i \in DOMAIN purge.list
      BY <2>5 DEF RemoveFiles
    <3>3. u \in PurgeSet /\ u.close = {i} /\ u.list = purge.list
      BY <1>1, <3>2, PurgeWritten
    <3> HIDE DEF u
    <3> QED
      BY <3>1, <3>2, <3>3 DEF PurgeTyped
  <2>6. ASSUME NEW i \in Issues, SaveLocation(i) PROVE PurgeTyped'
    <3> DEFINE f == [k \in DOMAIN purge.list \ {i} |-> purge.list[k]]
    <3>1. purge' = [purge EXCEPT !.pc = "removing", !.close = {}, !.list = f]
      BY <2>6 DEF SaveLocation
    <3>2. f \in RowSets
      BY <1>1, FewerRows
    <3> HIDE DEF f
    <3> QED
      BY <1>1, <3>1, <3>2, PurgeWritten DEF PurgeTyped
  <2> QED
    BY <2>1, <2>2, <2>3, <2>4, <2>5, <2>6 DEF Purge, EndPurge, DryRun, PurgeDies
<1>5. IssuesTyped'
  <2>1. issues' \in [Issues -> IssueRow]
    <3>1. CASE \E i \in Issues : SaveLocation(i)
      <4>1. PICK i \in Issues : SaveLocation(i)
        BY <3>1
      <4>2. i \in DOMAIN purge.list
        BY <1>1, <4>1 DEF SaveLocation, PurgeTyped
      <4>3. purge.list[i] \in IssueRow
        BY <1>1, <4>2, RowsOf
      <4> DEFINE u == [purge.list[i] EXCEPT !.located = FALSE]
      <4>4. u \in IssueRow
        BY <4>3, IssueDone
      <4>5. issues' = [issues EXCEPT ![i] = u]
        BY <4>1 DEF SaveLocation
      <4> HIDE DEF u
      <4> QED
        BY <4>4, <4>5 DEF Typed, IssuesTyped
    <3>2. CASE ~\E i \in Issues : SaveLocation(i)
      BY <3>2 DEF StartPurge, Purge, PurgeDies, DryRun, FindCompletedIssues, EndPurge, RemoveFiles,
         Close, OnlyPurge, Typed, IssuesTyped, issueVars
    <3> QED
      BY <3>1, <3>2
  <2>2. files' \in [Issues -> BOOLEAN]
    BY DEF StartPurge, Purge, PurgeDies, DryRun, FindCompletedIssues, EndPurge, RemoveFiles,
       SaveLocation, Close, OnlyPurge, Typed, IssuesTyped, issueVars
  <2> QED
    BY <1>2, <2>1, <2>2 DEF Typed, IssuesTyped
<1> QED
  BY <1>2, <1>3, <1>4, <1>5, SameBatches DEF Typed

LEMMA TypedKept == Typed /\ [Next]_vars => Typed'
<1> SUFFICES ASSUME Typed, [Next]_vars PROVE Typed'
  OBVIOUS
<1>1. CASE UNCHANGED vars
  BY <1>1 DEF vars, issueVars, batchVars, Typed, IssuesTyped, BatchesTyped, PipesTyped,
     SessionsTyped, PurgeTyped, BatchIds, Loaded
<1>2. CASE Hand \/ Time
  BY <1>2, ByHandTyped, IgnoreIssuesTyped DEF Hand, Time
<1> QED
  BY <1>1, <1>2, QueueBatchesTyped, FinalizeTyped, RunJobTyped, FixingTyped, SteppingTyped,
     PurgingTyped DEF Next

LEMMA Types == Spec => []Typed
BY TypedAtFirst, TypedKept, PTL DEF Spec

----------------------------------------------------------------------------
(* Batches, the pipelines that build them and the sessions that have them  *)

BuildingOf(b) == {p \in pipes : p.kind = "make" /\ p.at <= 6 /\ p.about = b}

(* Where a pipeline that is to run its at'th job has brought its batch     *)
Stage(b, at) ==
  /\ batches[b].status = "pending"
  /\ batches[b].location = IF at <= 2 THEN "none" ELSE IF at <= 5 THEN "wip" ELSE "final"
  /\ (dirs[b].wip # NoDir) <=> at \in 2..4
  /\ (dirs[b].final # NoDir) <=> at \in 5..6

Unbuilt(b) == batches[b].location = "none" /\ dirs[b] = NoBatchDirs
BatchInStep(b) ==
  /\ batches[b].status \in {"failed_qc", "deleted"} => Unbuilt(b)
  /\ batches[b].status = "pending" /\ BuildingOf(b) = {} => Unbuilt(b)
  /\ batches[b].status = "qc_ready" => batches[b].location = "final" /\ dirs[b].wip = NoDir
  /\ batches[b].status \notin {"live", "live_done"} => batches[b].archived = "no"
  /\ batches[b].status = "live_done" => batches[b].archived = "four-weeks-ago"
  /\ \A p \in BuildingOf(b) : Stage(b, p.at)
  /\ \A p, o \in BuildingOf(b) : p = o

(* A session's row of a batch that can be edited is the batch's row.       *)
Editing(s) == sess[s].row.status \in {"qc_ready", "failed_qc"}
HasBatch(s) ==
  Loaded(s) =>
    /\ batches[sess[s].batch].status \notin {"live", "live_done"}
    /\ sess[s].row.status \in {"qc_ready", "failed_qc", "pending", "deleted"}
    /\ Editing(s) => sess[s].row = batches[sess[s].batch]

(* Which steps come after which, and what a step to take next finds        *)
CanFollow(a, c) ==
  \/ a.op = "remove_dir" /\ c.op = "save" /\ c.ws = "failed_qc"
  \/ a.op = "save" /\ a.ws = "pending" /\ c.op = "queue"
  \/ a.op = "invalidate" /\ c.op \in {"reload", "delete"}
  \/ a.op = "remove_mets" /\ c.op \in {"invalidate", "reload", "delete"}
MayBegin(s, step) ==
  LET b == sess[s].batch
  IN  CASE step.op = "remove_dir" -> sess[s].row.status = "qc_ready"
        [] step.op = "save" /\ step.ws = "failed_qc" ->
             sess[s].row.status = "qc_ready" /\ dirs[b] = NoBatchDirs
        [] step.op = "queue" ->
             /\ sess[s].row.status = "pending" /\ batches[b].status = "pending"
             /\ BuildingOf(b) = {}
        [] OTHER -> sess[s].row.status = "failed_qc"
Ordered(t) ==
  /\ \A n \in 1..Len(t) - 1 : CanFollow(t[n], t[n + 1])
  /\ t # <<>> => t[Len(t)].op \notin {"invalidate", "remove_mets"}
SessionInStep(s) ==
  /\ HasBatch(s) /\ Ordered(sess[s].todo)
  /\ sess[s].todo # <<>> => MayBegin(s, sess[s].todo[1])

SessionsApart == \A s, t \in Sessions : s # t /\ Loaded(s) => sess[s].batch # sess[t].batch

InStep ==
  /\ \A b \in BatchIds : BatchInStep(b)
  /\ SessionsApart /\ \A s \in Sessions : SessionInStep(s)

(* What a step leaves alone stays in step.                                 *)
Kept(b) ==
  batches'[b] = batches[b] /\ dirs'[b] = dirs[b] /\ BuildingOf(b)' = BuildingOf(b)

LEMMA BatchKept ==
  ASSUME NEW b, BatchInStep(b), Kept(b)
  PROVE  BatchInStep(b)'
BY DEF BatchInStep, Kept, Unbuilt, Stage

LEMMA SessionKept ==
  ASSUME NEW s, SessionInStep(s), sess'[s] = sess[s], Loaded(s) => Kept(sess[s].batch),
         ~Loaded(s) => sess[s].todo = <<>>
  PROVE  SessionInStep(s)'
<1>1. HasBatch(s)'
  BY DEF SessionInStep, HasBatch, Loaded, Editing, Kept
<1>2. Ordered(sess[s].todo)'
  BY DEF SessionInStep, Ordered
<1>3. ASSUME sess'[s].todo # <<>> PROVE MayBegin(s, sess[s].todo[1])'
  <2>1. MayBegin(s, sess[s].todo[1]) /\ Kept(sess[s].batch)
    BY <1>3 DEF SessionInStep
  <2> QED
    BY <2>1 DEF MayBegin, Kept
<1> QED
  BY <1>1, <1>2, <1>3 DEF SessionInStep

(* A batch on which a job or a person works is not being edited.           *)
LEMMA NotBuiltOnceShown ==
  ASSUME NEW b, BatchInStep(b), batches[b].status # "pending"
  PROVE  BuildingOf(b) = {}
BY DEF BatchInStep, Stage

LEMMA IdleSession ==
  ASSUME NEW s, SessionInStep(s), sess'[s] = sess[s], sess[s].todo = <<>>, ~Editing(s),
         Loaded(s) => batches'[sess[s].batch].status \notin {"live", "live_done"}
  PROVE  SessionInStep(s)'
BY DEF SessionInStep, HasBatch, Ordered, Loaded, Editing

LEMMA OthersKept ==
  ASSUME Typed, InStep, BatchIds' = BatchIds, NEW s \in Sessions,
         Loaded(s), \A o \in BatchIds : o # sess[s].batch => Kept(o),
         \A t \in Sessions : t # s => sess'[t] = sess[t],
         sess'[s].batch = sess[s].batch,
         BatchInStep(sess[s].batch)', SessionInStep(s)'
  PROVE  InStep'
<1>1. \A b \in BatchIds : BatchInStep(b)'
  BY BatchKept DEF InStep
<1>2. SessionsApart'
  BY DEF InStep, SessionsApart, Loaded
<1>3. ASSUME NEW t \in Sessions, t # s PROVE SessionInStep(t)'
  <2>1. SessionInStep(t) /\ sess'[t] = sess[t] /\ (~Loaded(t) => sess[t].todo = <<>>)
    BY <1>3 DEF InStep, Typed, SessionsTyped
  <2>2. Loaded(t) => sess[t].batch \in BatchIds /\ sess[t].batch # sess[s].batch
    BY <1>3 DEF Typed, SessionsTyped, Loaded, BatchIds, InStep, SessionsApart
  <2> QED
    BY <2>1, <2>2, SessionKept
<1> QED
  BY <1>1, <1>2, <1>3 DEF InStep

LEMMA AllKept ==
  ASSUME Typed, InStep, BatchIds' = BatchIds, UNCHANGED sess, \A b \in BatchIds : Kept(b)
  PROVE  InStep'
<1>1. \A b \in BatchIds : BatchInStep(b)'
  BY BatchKept DEF InStep
<1>2. SessionsApart'
  BY DEF InStep, SessionsApart, Loaded
<1>3. ASSUME NEW t \in Sessions PROVE SessionInStep(t)'
  <2>1. SessionInStep(t) /\ sess'[t] = sess[t] /\ (~Loaded(t) => sess[t].todo = <<>>)
    BY DEF InStep, Typed, SessionsTyped
  <2>2. Loaded(t) => sess[t].batch \in BatchIds
    BY DEF Typed, SessionsTyped, Loaded, BatchIds
  <2> QED
    BY <2>1, <2>2, SessionKept
<1> QED
  BY <1>1, <1>2, <1>3 DEF InStep

(* Everything that touches neither rows of batches, directories, pipelines
   nor sessions                                                             *)
LEMMA ElsewhereInStep ==
  ASSUME Typed, InStep, UNCHANGED <<batches, dirs, pipes, sess>>
  PROVE  InStep'
BY AllKept DEF Kept, BuildingOf, BatchIds

LEMMA QueueBatchesInStep ==
  ASSUME Typed, InStep, QueueBatches
  PROVE  InStep'
<1> DEFINE new == Pipe("make", Len(batches) + 1, "none")
           row == [status |-> "pending", location |-> "none", archived |-> "no"]
<1>1. Len(batches) \in Nat /\ batches \in Seq(BatchRow) /\ dirs \in Seq(PlaceSet)
      /\ Len(dirs) = Len(batches)
  BY LenProperties DEF Typed, BatchesTyped
<1>0. PICK nb \in Nat : nb = Len(batches) + 1
  BY <1>1
<1>2. /\ pipes' = pipes \cup {new} /\ sess' = sess
      /\ batches' = Append(batches, row) /\ dirs' = Append(dirs, NoBatchDirs)
  BY DEF QueueBatches
<1>3. new.kind = "make" /\ new.about = nb /\ new.at = 1
  BY <1>0 DEF Pipe
<1>4. /\ \A b \in BatchIds : batches'[b] = batches[b] /\ dirs'[b] = dirs[b]
      /\ batches'[nb] = row /\ dirs'[nb] = NoBatchDirs
      /\ BatchIds' = BatchIds \cup {nb} /\ nb \notin BatchIds
  BY <1>0, <1>1, <1>2 DEF BatchIds
<1> HIDE DEF new
<1>5. \A b \in BatchIds : BuildingOf(b)' = BuildingOf(b)
  BY <1>2, <1>3, <1>4 DEF BuildingOf
<1>6. BuildingOf(nb)' = {new}
  <2>1. \A p \in pipes : p.kind = "make" => p.about # nb
    BY <1>4 DEF Typed, PipesTyped
  <2> QED
    BY <1>2, <1>3, <2>1 DEF BuildingOf
<1>7. BatchInStep(nb)'
  <2>1. NoBatchDirs.wip = NoDir /\ NoBatchDirs.final = NoDir
    BY DEF NoBatchDirs
  <2>2. Stage(nb, 1)'
    BY <1>4, <2>1 DEF Stage
  <2> QED
    BY <1>3, <1>4, <1>6, <2>2 DEF BatchInStep
<1>8. \A b \in BatchIds' : BatchInStep(b)'
  BY <1>4, <1>5, <1>7, BatchKept DEF InStep, Kept
<1>9. \A s \in Sessions : SessionInStep(s)'
  <2> SUFFICES ASSUME NEW s \in Sessions PROVE SessionInStep(s)'
    OBVIOUS
  <2>1. SessionInStep(s) /\ (~Loaded(s) => sess[s].todo = <<>>)
        /\ (Loaded(s) => sess[s].batch \in BatchIds)
    BY DEF InStep, Typed, SessionsTyped, Loaded, BatchIds
  <2> QED
    BY <1>2, <1>4, <1>5, <2>1, SessionKept DEF Kept
<1>10. SessionsApart'
  BY <1>2 DEF InStep, SessionsApart, Loaded
<1> QED
  BY <1>8, <1>9, <1>10 DEF InStep

(* A job moves its pipeline's batch from one stage to the next.            *)
LEMMA LinkedSomething ==
  ASSUME NEW b
  PROVE  Linked(b) # NoDir
<1>1. "no-such-directory" \notin Issues
  BY LifeAssumption
<1>2. ASSUME Linked(b) = NoDir PROVE FALSE
  <2>1. <<"no-such-directory", 0>> \in Linked(b)
    BY <1>2 DEF NoDir
  <2>2. PICK i \in IssuesOf(b) : <<i, mets[i]>> = <<"no-such-directory", 0>>
    BY <2>1 DEF Linked
  <2>3. i = "no-such-directory" /\ i \in Issues
    BY <2>2 DEF IssuesOf, InBatch
  <2> QED
    BY <1>1, <2>3
<1> QED
  BY <1>2

(* A job's effect on its batch, by its place in the pipeline               *)
LEMMA JobEffect ==
  ASSUME Typed, NEW p \in pipes, p.kind = "make", RunJob(p)
  PROVE  LET b == p.about IN
    /\ b \in BatchIds /\ p.at \in 1..7 /\ sess' = sess
    /\ p.at = 1 => /\ batches' = batches
                   /\ dirs' = [dirs EXCEPT ![b] = [dirs[b] EXCEPT !.wip = Linked(b)]]
    /\ p.at = 2 => /\ batches' = [batches EXCEPT ![b] = [batches[b] EXCEPT !.location = "wip"]]
                   /\ dirs' = dirs
    /\ p.at \in {3, 7} => batches' = batches /\ dirs' = dirs
    /\ p.at = 4 => /\ batches' = batches
                   /\ dirs' = [dirs EXCEPT ![b] = [wip |-> NoDir, final |-> dirs[b].wip]]
    /\ p.at = 5 => /\ batches' = [batches EXCEPT ![b] = [batches[b] EXCEPT !.location = "final"]]
                   /\ dirs' = dirs
    /\ p.at = 6 => /\ batches' = [batches EXCEPT ![b] = [batches[b] EXCEPT !.status = "qc_ready"]]
                   /\ dirs' = dirs
    /\ pipes' = IF p.at = 7 THEN pipes \ {p} ELSE (pipes \ {p}) \cup {[p EXCEPT !.at = p.at + 1]}
<1> DEFINE b == p.about
<1>1. b \in BatchIds /\ p.at \in 1..7 /\ sess' = sess
  BY MakeStep
<1>2. batches' = IF p.at = 2 THEN [batches EXCEPT ![b].location = "wip"]
                  ELSE IF p.at = 5 THEN [batches EXCEPT ![b].location = "final"]
                  ELSE IF p.at = 6 THEN [batches EXCEPT ![b].status = "qc_ready"]
                  ELSE batches
  BY MakeStep, Zenon
<1>3. dirs' = IF p.at = 1 THEN [dirs EXCEPT ![b].wip = Linked(b)]
               ELSE IF p.at = 4 THEN [dirs EXCEPT ![b] = [wip |-> NoDir, final |-> dirs[b].wip]]
               ELSE dirs
  BY MakeStep, Zenon
<1>4. pipes' = (pipes \ {p}) \cup (IF p.at = 7 THEN {} ELSE {[p EXCEPT !.at = @ + 1]})
  BY MakeStep, Zenon
<1>5. pipes' = IF p.at = 7 THEN pipes \ {p} ELSE (pipes \ {p}) \cup {[p EXCEPT !.at = p.at + 1]}
  BY <1>4
<1> HIDE DEF b
<1>6. CASE p.at \in {1, 4}
  BY <1>1, <1>2, <1>3, <1>5, <1>6 DEF b
<1>7. CASE p.at \in {2, 5, 6}
  BY <1>1, <1>2, <1>3, <1>5, <1>7 DEF b
<1>8. CASE p.at \in {3, 7}
  BY <1>1, <1>2, <1>3, <1>5, <1>8 DEF b
<1> QED
  BY <1>1, <1>6, <1>7, <1>8

LEMMA JobNext ==
  ASSUME Typed, NEW p \in pipes, p.kind = "make", RunJob(p), p.at \in 1..6,
         BatchInStep(p.about)
  PROVE  LET b == p.about IN
           /\ BuildingOf(b) = {p} /\ Stage(b, p.at)
           /\ BuildingOf(b)' = IF p.at = 6 THEN {} ELSE {[p EXCEPT !.at = p.at + 1]}
           /\ \A o : o # b => BuildingOf(o)' = BuildingOf(o)
<1> DEFINE b == p.about
           next == [p EXCEPT !.at = p.at + 1]
<1>1. p \in BuildingOf(b)
  BY DEF BuildingOf
<1>2. BuildingOf(b) = {p} /\ Stage(b, p.at)
  BY <1>1 DEF BatchInStep
<1>3. next.kind = "make" /\ next.about = b /\ next.at = p.at + 1
  BY PipeMoved DEF Typed, PipesTyped
<1>4. pipes' = (pipes \ {p}) \cup {next}
  <2>1. p.at # 7
    OBVIOUS
  <2> QED
    BY <2>1, JobEffect
<1> HIDE DEF next
<1>5. \A o : o # b => BuildingOf(o)' = BuildingOf(o)
  BY <1>3, <1>4 DEF BuildingOf
<1>6. BuildingOf(b)' = IF p.at = 6 THEN {} ELSE {next}
  <2>1. \A o \in pipes : o.kind = "make" /\ o.at <= 6 /\ o.about = b => o = p
    BY <1>2 DEF BuildingOf
  <2>2. p.at = 6 => ~(next.at <= 6)
    BY <1>3
  <2>3. p.at # 6 => next.at <= 6
    BY <1>3
  <2> QED
    BY <1>3, <1>4, <2>1, <2>2, <2>3 DEF BuildingOf
<1> QED
  BY <1>2, <1>5, <1>6 DEF next

LEMMA JobMovesStage ==
  ASSUME Typed, NEW p \in pipes, p.kind = "make", RunJob(p), p.at \in 1..6,
         BatchInStep(p.about)
  PROVE  LET b == p.about IN
           /\ \A o \in BatchIds : o # b => batches'[o] = batches[o] /\ dirs'[o] = dirs[o]
           /\ BatchIds' = BatchIds /\ batches'[b].archived = batches[b].archived
           /\ p.at < 6 => Stage(b, p.at + 1)'
           /\ p.at = 6 => /\ batches'[b].status = "qc_ready"
                          /\ batches'[b].location = "final" /\ dirs'[b].wip = NoDir
<1> DEFINE b == p.about
<1>1. /\ b \in BatchIds /\ batches[b] \in BatchRow /\ dirs[b] \in PlaceSet
      /\ batches \in Seq(BatchRow) /\ dirs \in Seq(PlaceSet) /\ Len(dirs) = Len(batches)
  <2>1. b \in BatchIds
    BY JobEffect
  <2> QED
    BY <2>1 DEF Typed, BatchesTyped, BatchIds
<1>2. Stage(b, p.at)
  BY JobNext
<1>3. ASSUME NEW r \in BatchRow, batches' = [batches EXCEPT ![b] = r]
      PROVE  /\ batches'[b] = r /\ \A o \in BatchIds : o # b => batches'[o] = batches[o]
             /\ BatchIds' = BatchIds
  BY <1>1, <1>3, BatchWritten
<1>4. ASSUME NEW d \in PlaceSet, dirs' = [dirs EXCEPT ![b] = d]
      PROVE  dirs'[b] = d /\ \A o \in BatchIds : o # b => dirs'[o] = dirs[o]
  BY <1>1, <1>4, ExceptSeq DEF BatchIds
<1>5. CASE p.at = 1
  <2> DEFINE d == [dirs[b] EXCEPT !.wip = Linked(b)]
  <2>1. d \in PlaceSet /\ d.wip = Linked(b) /\ d.final = dirs[b].final
    BY <1>1, LinkedTyped DEF PlaceSet
  <2>2. dirs' = [dirs EXCEPT ![b] = d] /\ batches' = batches
    BY <1>5, JobEffect
  <2> HIDE DEF d
  <2>3. dirs'[b] = d /\ \A o \in BatchIds : o # b => dirs'[o] = dirs[o]
    BY <1>4, <2>1, <2>2
  <2> QED
    BY <1>2, <1>5, <2>1, <2>2, <2>3, LinkedSomething DEF Stage, BatchIds
<1>6. CASE p.at = 2
  <2> DEFINE r == [batches[b] EXCEPT !.location = "wip"]
  <2>1. r \in BatchRow /\ r.location = "wip" /\ r.status = batches[b].status
        /\ r.archived = batches[b].archived
    BY <1>1, BatchWith
  <2>2. batches' = [batches EXCEPT ![b] = r] /\ dirs' = dirs
    BY <1>6, JobEffect
  <2> HIDE DEF r
  <2>3. /\ batches'[b] = r /\ \A o \in BatchIds : o # b => batches'[o] = batches[o]
        /\ BatchIds' = BatchIds
    BY <1>3, <2>1, <2>2
  <2> QED
    BY <1>2, <1>6, <2>1, <2>2, <2>3 DEF Stage
<1>7. CASE p.at = 3
  <2>1. batches' = batches /\ dirs' = dirs
    BY <1>7, JobEffect
  <2> QED
    BY <1>2, <1>7, <2>1 DEF Stage, BatchIds
<1>8. CASE p.at = 4
  <2> DEFINE d == [wip |-> NoDir, final |-> dirs[b].wip]
  <2>1. d \in PlaceSet /\ d.wip = NoDir /\ d.final = dirs[b].wip
    BY <1>1 DEF PlaceSet, NoDir, Found
  <2>2. dirs' = [dirs EXCEPT ![b] = d] /\ batches' = batches
    BY <1>8, JobEffect
  <2> HIDE DEF d
  <2>3. dirs'[b] = d /\ \A o \in BatchIds : o # b => dirs'[o] = dirs[o]
    BY <1>4, <2>1, <2>2
  <2> QED
    BY <1>2, <1>8, <2>1, <2>2, <2>3 DEF Stage, BatchIds
<1>9. CASE p.at = 5
  <2> DEFINE r == [batches[b] EXCEPT !.location = "final"]
  <2>1. r \in BatchRow /\ r.location = "final" /\ r.status = batches[b].status
        /\ r.archived = batches[b].archived
    BY <1>1, BatchWith
  <2>2. batches' = [batches EXCEPT ![b] = r] /\ dirs' = dirs
    BY <1>9, JobEffect
  <2> HIDE DEF r
  <2>3. /\ batches'[b] = r /\ \A o \in BatchIds : o # b => batches'[o] = batches[o]
        /\ BatchIds' = BatchIds
    BY <1>3, <2>1, <2>2
  <2> QED
    BY <1>2, <1>9, <2>1, <2>2, <2>3 DEF Stage
<1>10. CASE p.at = 6
  <2> DEFINE r == [batches[b] EXCEPT !.status = "qc_ready"]
  <2>1. r \in BatchRow /\ r.status = "qc_ready" /\ r.location = batches[b].location
        /\ r.archived = batches[b].archived
    BY <1>1, BatchWith DEF Statuses
  <2>2. batches' = [batches EXCEPT ![b] = r] /\ dirs' = dirs
    BY <1>10, JobEffect
  <2> HIDE DEF r
  <2>3. /\ batches'[b] = r /\ \A o \in BatchIds : o # b => batches'[o] = batches[o]
        /\ BatchIds' = BatchIds
    BY <1>3, <2>1, <2>2
  <2> QED
    BY <1>2, <1>10, <2>1, <2>2, <2>3 DEF Stage
<1> QED
  BY <1>5, <1>6, <1>7, <1>8, <1>9, <1>10

LEMMA RunJobInStep ==
  ASSUME Typed, InStep, NEW p \in pipes, RunJob(p)
  PROVE  InStep'
<1>1. CASE p.kind # "make"
  <2> DEFINE next == [p EXCEPT !.at = p.at + 1]
  <2>1. /\ pipes' = (pipes \ {p}) \cup (IF p.at = 5 THEN {} ELSE {next})
        /\ UNCHANGED <<batchVars, sess>>
    BY <1>1, RedoStep
  <2>2. next.kind = p.kind
    BY PipeMoved DEF Typed, PipesTyped
  <2> HIDE DEF next
  <2>3. \A b : BuildingOf(b)' = BuildingOf(b)
    BY <1>1, <2>1, <2>2 DEF BuildingOf
  <2> QED
    BY <2>1, <2>3, AllKept DEF Kept, BatchIds, batchVars
<1>2. CASE p.kind = "make" /\ p.at = 7
  <2>1. /\ pipes' = pipes \ {p} /\ UNCHANGED <<batches, dirs, sess>>
    BY <1>2, JobEffect
  <2>2. \A b : BuildingOf(b)' = BuildingOf(b)
    BY <1>2, <2>1 DEF BuildingOf
  <2> QED
    BY <2>1, <2>2, AllKept DEF Kept, BatchIds
<1>3. CASE p.kind = "make" /\ p.at # 7
  <2> DEFINE b == p.about
             next == [p EXCEPT !.at = p.at + 1]
  <2>1. b \in BatchIds /\ p.at \in 1..6 /\ UNCHANGED sess
    <3>1. b \in BatchIds /\ p.at \in 1..7 /\ UNCHANGED sess
      BY <1>3, JobEffect
    <3> QED
      BY <1>3, <3>1
  <2>2. BatchInStep(b)
    BY <2>1 DEF InStep
  <2>3. /\ BuildingOf(b) = {p} /\ Stage(b, p.at)
        /\ BuildingOf(b)' = IF p.at = 6 THEN {} ELSE {next}
        /\ \A o : o # b => BuildingOf(o)' = BuildingOf(o)
    BY <1>3, <2>1, <2>2, JobNext
  <2>4. /\ \A o \in BatchIds : o # b => batches'[o] = batches[o] /\ dirs'[o] = dirs[o]
        /\ BatchIds' = BatchIds /\ batches'[b].archived = batches[b].archived
        /\ p.at < 6 => Stage(b, p.at + 1)'
        /\ p.at = 6 => /\ batches'[b].status = "qc_ready"
                       /\ batches'[b].location = "final" /\ dirs'[b].wip = NoDir
    BY <1>3, <2>1, <2>2, JobMovesStage
  <2>5. next.at = p.at + 1
    BY PipeMoved DEF Typed, PipesTyped
  <2> HIDE DEF next
  <2>6. batches[b].status = "pending" /\ batches'[b].status \in {"pending", "qc_ready"}
    BY <2>1, <2>3, <2>4 DEF Stage
  <2>7. batches[b].archived = "no"
    BY <2>2, <2>6 DEF BatchInStep
  <2>8. BatchInStep(b)'
    <3>1. CASE p.at < 6
      BY <2>3, <2>4, <2>5, <2>7, <3>1 DEF BatchInStep, Stage
    <3>2. CASE p.at = 6
      BY <2>3, <2>4, <2>7, <3>2 DEF BatchInStep
    <3> QED
      BY <2>1, <3>1, <3>2
  <2>9. \A o \in BatchIds : o # b => Kept(o)
    BY <2>3, <2>4 DEF Kept
  <2>10. ASSUME NEW s \in Sessions PROVE SessionInStep(s)'
    <3>1. SessionInStep(s) /\ sess'[s] = sess[s] /\ (~Loaded(s) => sess[s].todo = <<>>)
          /\ (Loaded(s) => sess[s].batch \in BatchIds)
      BY <2>1 DEF InStep, Typed, SessionsTyped, Loaded, BatchIds
    <3>2. CASE Loaded(s) /\ sess[s].batch = b
      <4>1. ~Editing(s)
        BY <2>6, <3>1, <3>2 DEF SessionInStep, HasBatch, Editing
      <4>2. sess[s].todo = <<>>
        BY <2>3, <3>1, <3>2, <4>1 DEF SessionInStep, MayBegin, Editing
      <4> QED
        BY <2>6, <3>1, <3>2, <4>1, <4>2, IdleSession
    <3>3. CASE ~(Loaded(s) /\ sess[s].batch = b)
      BY <2>9, <3>1, <3>3, SessionKept
    <3> QED
      BY <3>2, <3>3
  <2>11. SessionsApart'
    BY <2>1 DEF InStep, SessionsApart, Loaded
  <2> QED
    BY <2>4, <2>8, <2>9, <2>10, <2>11, BatchKept DEF InStep
<1> QED
  BY <1>1, <1>2, <1>3

(* A session takes up a batch, leaves it, plans, or dies.                  *)
LEMMA SessionMoves ==
  ASSUME Typed, InStep, UNCHANGED <<batches, dirs, pipes>>, NEW s \in Sessions,
         \A t \in Sessions : t # s => sess'[t] = sess[t],
         SessionInStep(s)',
         Loaded(s)' => \A t \in Sessions : t # s => sess[t].batch # sess'[s].batch
  PROVE  InStep'
<1>1. \A b : Kept(b)
  BY DEF Kept, BuildingOf
<1>2. \A b \in BatchIds' : BatchInStep(b)'
  BY <1>1, BatchKept DEF InStep, BatchIds
<1>3. SessionsApart'
  BY DEF InStep, SessionsApart, Loaded
<1>4. ASSUME NEW t \in Sessions, t # s PROVE SessionInStep(t)'
  <2>1. SessionInStep(t) /\ sess'[t] = sess[t] /\ (~Loaded(t) => sess[t].todo = <<>>)
    BY <1>4 DEF InStep, Typed, SessionsTyped
  <2> QED
    BY <1>1, <2>1, SessionKept
<1> QED
  BY <1>2, <1>3, <1>4 DEF InStep

LEMMA NoneOrdered == Ordered(<<>>)
BY EmptySeq DEF Ordered

LEMMA OneOrdered ==
  ASSUME NEW x \in StepSet, x.op \notin {"invalidate", "remove_mets"}
  PROVE  Ordered(<<x>>)
<1>1. Len(<<x>>) = 1 /\ <<x>>[1] = x
  BY ShortSeq
<1> QED
  BY <1>1 DEF Ordered

LEMMA TwoOrdered ==
  ASSUME NEW x \in StepSet, NEW y \in StepSet, CanFollow(x, y),
         y.op \notin {"invalidate", "remove_mets"}
  PROVE  Ordered(<<x, y>>)
<1> DEFINE t == <<x, y>>
<1>1. Len(t) = 2 /\ t[1] = x /\ t[2] = y
  BY ShortSeq
<1> HIDE DEF t
<1> QED
  BY <1>1 DEF Ordered

(* What a command plans is in order and may begin.                         *)
LEMMA PlanOrdered ==
  ASSUME NEW s \in Sessions, NEW t, Plan(s, t)
  PROVE  /\ Ordered(t)
         /\ t # <<>> => /\ t[1].op \in {"remove_dir", "delete", "save", "redo", "invalidate"}
                        /\ t[1].op = "remove_dir" => sess[s].row.status = "qc_ready"
                        /\ t[1].op # "remove_dir" => sess[s].row.status = "failed_qc"
                        /\ t[1].op = "save" => t[1].ws = "pending"
<1> DEFINE Goal ==
         /\ Ordered(t)
         /\ t # <<>> => /\ t[1].op \in {"remove_dir", "delete", "save", "redo", "invalidate"}
                        /\ t[1].op = "remove_dir" => sess[s].row.status = "qc_ready"
                        /\ t[1].op # "remove_dir" => sess[s].row.status = "failed_qc"
                        /\ t[1].op = "save" => t[1].ws = "pending"
<1>1. ASSUME t = <<>> PROVE Goal
  BY <1>1, NoneOrdered
<1>2. ASSUME sess[s].row.status = "qc_ready", t = FailSteps PROVE Goal
  <2> DEFINE x == Step("remove_dir", <<>>, "none")
             y == Step("save", <<>>, "failed_qc")
  <2>1. x \in StepSet /\ y \in StepSet /\ x.op = "remove_dir" /\ y.op = "save" /\ y.ws = "failed_qc"
    BY PlainSteps DEF Step
  <2>2. t = <<x, y>>
    BY <1>2 DEF FailSteps
  <2> HIDE DEF x, y
  <2>3. CanFollow(x, y)
    BY <2>1 DEF CanFollow
  <2>4. Ordered(<<x, y>>) /\ <<x, y>>[1] = x
    BY <2>1, <2>3, TwoOrdered, ShortSeq
  <2> QED
    BY <1>2, <2>1, <2>2, <2>4
<1>3. ASSUME sess[s].row.status = "failed_qc", t = <<Step("delete", <<>>, "none")>> PROVE Goal
  <2> DEFINE x == Step("delete", <<>>, "none")
  <2>1. x \in StepSet /\ x.op = "delete"
    BY PlainSteps DEF Step
  <2> HIDE DEF x
  <2>2. Ordered(<<x>>) /\ <<x>>[1] = x
    BY <2>1, OneOrdered, ShortSeq
  <2>3. t = <<x>>
    BY <1>3 DEF x
  <2> QED
    BY <1>3, <2>1, <2>2, <2>3
<1>4. ASSUME sess[s].row.status = "failed_qc",
             t = <<Step("save", <<>>, "pending"), Step("queue", <<>>, "none")>>
      PROVE  Goal
  <2> DEFINE x == Step("save", <<>>, "pending")
             y == Step("queue", <<>>, "none")
  <2>1. x \in StepSet /\ y \in StepSet /\ x.op = "save" /\ x.ws = "pending" /\ y.op = "queue"
    BY PlainSteps DEF Step
  <2>2. t = <<x, y>>
    BY <1>4
  <2> HIDE DEF x, y
  <2>3. CanFollow(x, y)
    BY <2>1 DEF CanFollow
  <2>4. Ordered(<<x, y>>) /\ <<x, y>>[1] = x
    BY <2>1, <2>3, TwoOrdered, ShortSeq
  <2> QED
    BY <1>4, <2>1, <2>2, <2>4
<1>5. ASSUME NEW rows \in RowSets, RowsLoaded(s, rows), t = <<Step("redo", rows, "none")>>,
             sess[s].row.status = "failed_qc"
      PROVE  Goal
  <2> DEFINE x == Step("redo", rows, "none")
  <2>1. x \in StepSet /\ x.op = "redo"
    BY <1>5, IssueSteps DEF RowsLoaded, Step
  <2> HIDE DEF x
  <2>2. Ordered(<<x>>) /\ <<x>>[1] = x
    BY <2>1, OneOrdered, ShortSeq
  <2>3. t = <<x>>
    BY <1>5 DEF x
  <2> QED
    BY <1>5, <2>1, <2>2, <2>3
<1>6. ASSUME NEW rows \in RowSets, NEW ws \in SentTo, NEW last \in {"reload", "delete"},
             RowsLoaded(s, rows), sess[s].row.status = "failed_qc",
             t = <<Step("invalidate", rows, ws), Step(last, <<>>, "none")>>
      PROVE  Goal
  <2> DEFINE x == Step("invalidate", rows, ws)
             y == Step(last, <<>>, "none")
  <2>1. x \in StepSet /\ y \in StepSet /\ x.op = "invalidate" /\ y.op = last
    BY <1>6, IssueSteps, PlainSteps DEF RowsLoaded, Step
  <2>2. t = <<x, y>>
    BY <1>6
  <2> HIDE DEF x, y
  <2>3. CanFollow(x, y)
    BY <2>1 DEF CanFollow
  <2>4. Ordered(<<x, y>>) /\ <<x, y>>[1] = x
    BY <2>1, <2>3, TwoOrdered, ShortSeq
  <2> QED
    BY <1>6, <2>1, <2>2, <2>4
<1> HIDE DEF Goal
<1>7. Goal
  BY <1>1, <1>2, <1>3, <1>4, <1>5, <1>6, Zenon DEF Plan
<1> QED
  BY <1>7 DEF Goal

LEMMA FixingInStep ==
  ASSUME Undisturbed, Typed, InStep, NEW s \in Sessions, Fixing(s) \/ SessionDies(s)
  PROVE  InStep'
<1>1. sess \in [Sessions -> SessionSet]
  BY DEF Typed, SessionsTyped
<1>2. ASSUME NEW b \in BatchIds, LoadBatch(s, b) PROVE InStep'
  <2>1. /\ FindBatch(b).batch = b /\ FindBatch(b).row = batches[b] /\ FindBatch(b).todo = <<>>
    BY FindBatchTyped
  <2>2. /\ sess' = [sess EXCEPT ![s] = FindBatch(b)] /\ UNCHANGED <<batches, dirs, pipes>>
        /\ batches[b].status \in {"qc_ready", "failed_qc"}
        /\ \A t \in Sessions : sess[t].batch # b
    BY <1>2 DEF LoadBatch, OnlySession, batchVars
  <2>3. sess'[s] = FindBatch(b) /\ \A t \in Sessions : t # s => sess'[t] = sess[t]
    BY <1>1, <2>2
  <2>4. SessionInStep(s)'
    BY <2>1, <2>2, <2>3, NoneOrdered DEF SessionInStep, HasBatch, Editing, Loaded
  <2> QED
    BY <2>1, <2>2, <2>3, <2>4, SessionMoves
<1>3. ASSUME QuitBatch(s) \/ SessionDies(s) PROVE InStep'
  <2>1. sess' = [sess EXCEPT ![s] = NotLoaded] /\ UNCHANGED <<batches, dirs, pipes>>
    BY <1>3 DEF QuitBatch, SessionDies, OnlySession, batchVars
  <2>2. sess'[s] = NotLoaded /\ \A t \in Sessions : t # s => sess'[t] = sess[t]
    BY <1>1, <2>1
  <2>3. NotLoaded.batch = 0 /\ NotLoaded.todo = <<>>
    BY DEF NotLoaded
  <2>4. SessionInStep(s)' /\ ~Loaded(s)'
    BY <2>2, <2>3, NoneOrdered DEF SessionInStep, HasBatch, Loaded
  <2> QED
    BY <2>1, <2>2, <2>4, SessionMoves
<1>4. ASSUME Fixing(s), ~QuitBatch(s), \A b \in BatchIds : ~LoadBatch(s, b) PROVE InStep'
  <2>1. InBatchMenu(s) /\ UNCHANGED <<batches, dirs, pipes>>
    BY <1>4, Planned DEF OnlySession, batchVars
  <2>2. PICK t : Plan(s, t) /\ sess' = [sess EXCEPT ![s].todo = t]
    BY <1>4, Planned
  <2>3. /\ sess'[s].batch = sess[s].batch /\ sess'[s].row = sess[s].row /\ sess'[s].todo = t
        /\ \A o \in Sessions : o # s => sess'[o] = sess[o]
    BY <2>2, TodoWritten DEF Typed
  <2>4. SessionInStep(s) /\ SessionsApart /\ Loaded(s)
    BY <2>1 DEF InStep, InBatchMenu
  <2>5. HasBatch(s)'
    BY <2>1, <2>3, <2>4 DEF SessionInStep, HasBatch, Loaded, Editing
  <2>6. t # <<>> => MayBegin(s, t[1])'
    BY <2>2, <2>3, PlanOrdered DEF MayBegin
  <2>7. SessionInStep(s)'
    BY <2>2, <2>3, <2>5, <2>6, PlanOrdered DEF SessionInStep
  <2>8. \A o \in Sessions : o # s => sess[o].batch # sess'[s].batch
    BY <2>3, <2>4 DEF SessionsApart
  <2> QED
    BY <2>1, <2>3, <2>7, <2>8, SessionMoves
<1> QED
  BY <1>2, <1>3, <1>4

(* Taking a session's first step                                           *)
LEMMA TailOrdered ==
  ASSUME NEW t \in Seq(StepSet), t # <<>>, Ordered(t)
  PROVE  /\ Ordered(Tail(t))
         /\ Tail(t) # <<>> => /\ CanFollow(t[1], Tail(t)[1]) /\ Tail(t)[1] = t[2]
                              /\ Tail(t)[1] \in StepSet
<1>1. /\ Len(t) \in Nat \ {0} /\ Tail(t) \in Seq(StepSet) /\ Len(Tail(t)) = Len(t) - 1
      /\ \A n \in 1..Len(t) - 1 : Tail(t)[n] = t[n + 1]
  BY HeadTailProperties, EmptySeq, LenProperties
<1> DEFINE u == Tail(t)
<1>2. Tail(t) # <<>> => Len(Tail(t)) \in Nat \ {0} /\ Tail(t)[1] \in StepSet
  <2> HIDE DEF u
  <2>1. u \in Seq(StepSet) /\ (u # <<>> => Len(u) \in Nat \ {0})
    BY <1>1, EmptySeq, LenProperties DEF u
  <2>2. u # <<>> => u[1] \in StepSet
    BY <2>1, ElementOfSeq
  <2> QED
    BY <2>1, <2>2 DEF u
<1>3. Tail(t) # <<>> => CanFollow(t[1], Tail(t)[1]) /\ Tail(t)[1] = t[2]
  BY <1>1, <1>2 DEF Ordered
<1>4. \A n \in 1..Len(Tail(t)) - 1 : CanFollow(Tail(t)[n], Tail(t)[n + 1])
  <2> SUFFICES ASSUME NEW n \in 1..Len(Tail(t)) - 1 PROVE CanFollow(Tail(t)[n], Tail(t)[n + 1])
    OBVIOUS
  <2>1. n + 1 \in 1..Len(t) - 1 /\ n \in 1..Len(t) - 1 /\ n \in Nat
    BY <1>1
  <2>2. Tail(t)[n] = t[n + 1] /\ Tail(t)[n + 1] = t[n + 1 + 1]
    BY <1>1, <2>1
  <2>3. CanFollow(t[n + 1], t[n + 1 + 1])
    BY <2>1 DEF Ordered
  <2> QED
    BY <2>2, <2>3
<1>5. Tail(t) # <<>> => Tail(t)[Len(Tail(t))].op \notin {"invalidate", "remove_mets"}
  BY <1>1, <1>2 DEF Ordered
<1> QED
  BY <1>2, <1>3, <1>4, <1>5 DEF Ordered

LEMMA NoneFollows ==
  ASSUME NEW a \in StepSet, NEW c \in StepSet, CanFollow(a, c)
  PROVE  /\ a.op \in {"remove_dir", "save", "invalidate", "remove_mets"}
         /\ a.op = "remove_dir" => c.op = "save" /\ c.ws = "failed_qc"
         /\ a.op = "save" => a.ws = "pending" /\ c.op = "queue"
         /\ a.op \in {"invalidate", "remove_mets"} => c.op \in {"invalidate", "reload", "delete"}
BY DEF CanFollow

(* What may begin is begun from a row that allows it.                      *)
LEMMA Began ==
  ASSUME Typed, InStep, NEW s \in Sessions, sess[s].todo # <<>>
  PROVE  LET b == sess[s].batch
             x == sess[s].todo[1]
         IN  /\ Loaded(s) /\ b \in BatchIds /\ x \in StepSet /\ BatchInStep(b)
             /\ sess[s].row \in BatchRow /\ batches[b] \in BatchRow
             /\ Ordered(Tail(sess[s].todo))
             /\ Tail(sess[s].todo) # <<>> => /\ CanFollow(x, Tail(sess[s].todo)[1])
                                             /\ Tail(sess[s].todo)[1] \in StepSet
             /\ x.op = "remove_dir" => sess[s].row.status = "qc_ready" /\ sess[s].row = batches[b]
             /\ x.op = "save" /\ x.ws = "failed_qc" =>
                  /\ sess[s].row.status = "qc_ready" /\ sess[s].row = batches[b]
                  /\ dirs[b] = NoBatchDirs
             /\ x.op = "queue" => /\ sess[s].row.status = "pending" /\ batches[b].status = "pending"
                                  /\ BuildingOf(b) = {}
             /\ x.op \notin {"remove_dir", "queue"} /\ ~(x.op = "save" /\ x.ws = "failed_qc") =>
                  /\ sess[s].row.status = "failed_qc" /\ sess[s].row = batches[b]
<1> DEFINE b == sess[s].batch
           t == sess[s].todo
<1>1. /\ Loaded(s) /\ b \in BatchIds /\ t[1] \in StepSet /\ t \in Seq(StepSet)
  BY FirstStep
<1>2. BatchInStep(b) /\ SessionInStep(s)
  BY <1>1 DEF InStep
<1>3. sess[s].row \in BatchRow /\ batches[b] \in BatchRow
  BY <1>1 DEF Typed, SessionsTyped, SessionSet, BatchesTyped, BatchIds
<1>4. Ordered(t) /\ MayBegin(s, t[1]) /\ HasBatch(s)
  BY <1>2 DEF SessionInStep
<1>5. sess[s].row.status \in {"qc_ready", "failed_qc"} => sess[s].row = batches[b]
  BY <1>1, <1>4 DEF HasBatch, Editing
<1>6. Ordered(Tail(t)) /\ (Tail(t) # <<>> => CanFollow(t[1], Tail(t)[1]) /\ Tail(t)[1] \in StepSet)
  BY <1>1, <1>4, TailOrdered
<1>7. /\ t[1].op = "remove_dir" => sess[s].row.status = "qc_ready"
      /\ t[1].op = "save" /\ t[1].ws = "failed_qc" =>
            sess[s].row.status = "qc_ready" /\ dirs[b] = NoBatchDirs
      /\ t[1].op = "queue" => /\ sess[s].row.status = "pending" /\ batches[b].status = "pending"
                              /\ BuildingOf(b) = {}
      /\ t[1].op \notin {"remove_dir", "queue"} /\ ~(t[1].op = "save" /\ t[1].ws = "failed_qc") =>
            sess[s].row.status = "failed_qc"
  BY <1>4 DEF MayBegin
<1> QED
  BY <1>1, <1>2, <1>3, <1>5, <1>6, <1>7, Zenon

(* The batch is written as the session's row says.                         *)
LEMMA SavedInStep ==
  ASSUME Typed, InStep, NEW s \in Sessions, sess[s].todo # <<>>,
         NEW st \in {"failed_qc", "pending", "deleted"}, SaveBatch(s, st), UNCHANGED <<dirs, pipes>>,
         sess[s].row = batches[sess[s].batch], sess[s].row.status \in {"qc_ready", "failed_qc"},
         dirs[sess[s].batch] = NoBatchDirs,
         Tail(sess[s].todo) # <<>> => st = "pending" /\ Tail(sess[s].todo)[1].op = "queue"
  PROVE  InStep'
<1> DEFINE b   == sess[s].batch
           row == [sess[s].row EXCEPT !.status = st, !.location = "none"]
<1>1. /\ Loaded(s) /\ b \in BatchIds /\ BatchInStep(b) /\ Ordered(Tail(sess[s].todo))
      /\ sess[s].row \in BatchRow
  BY Began
<1>2. st \in Statuses
  BY DEF Statuses
<1>3. /\ row \in BatchRow /\ row.status = st /\ row.location = "none"
      /\ row.archived = sess[s].row.archived
  BY <1>1, <1>2, BatchSaved
<1>4. /\ Len(batches') = Len(batches) /\ batches'[b] = row
      /\ \A o \in BatchIds : o # b => batches'[o] = batches[o]
      /\ sess'[s].batch = b /\ sess'[s].row = row /\ sess'[s].todo = Tail(sess[s].todo)
      /\ \A o \in Sessions \ {s} : sess'[o] = sess[o]
  BY <1>2, SaveBatchTyped
<1> HIDE DEF row
<1>5. batches[b].archived = "no" /\ BuildingOf(b) = {}
  <2>1. batches[b].status # "pending" /\ batches[b].status \notin {"live", "live_done"}
    OBVIOUS
  <2> QED
    BY <1>1, <2>1, NotBuiltOnceShown DEF BatchInStep
<1>6. \A o : BuildingOf(o)' = BuildingOf(o)
  BY DEF BuildingOf
<1>7. PICK c \in BatchIds : c = b
  BY <1>1
<1>8. BatchInStep(c)'
  <2>1. BuildingOf(c)' = {} /\ dirs'[c] = NoBatchDirs /\ batches'[c] = row
    BY <1>4, <1>5, <1>6, <1>7
  <2>2. row.archived = "no"
    BY <1>3, <1>5
  <2> QED
    BY <1>3, <2>1, <2>2 DEF BatchInStep, Unbuilt
<1>9. \A o \in BatchIds : o # c => Kept(o)
  BY <1>4, <1>6, <1>7 DEF Kept
<1>10. SessionInStep(s)'
  <2>1. HasBatch(s)'
    BY <1>3, <1>4 DEF HasBatch, Editing, Loaded
  <2>2. sess'[s].todo # <<>> => MayBegin(s, sess[s].todo[1])'
    <3>1. ASSUME sess'[s].todo # <<>> PROVE MayBegin(s, sess[s].todo[1])'
      <4>1. st = "pending" /\ sess'[s].todo[1].op = "queue"
        BY <1>4, <3>1
      <4>2. sess'[s].row.status = "pending" /\ batches'[sess'[s].batch].status = "pending"
        BY <1>3, <1>4, <4>1
      <4>3. BuildingOf(sess[s].batch)' = {}
        <5>1. BuildingOf(c)' = {}
          BY <1>5, <1>6, <1>7
        <5>2. sess'[s].batch = c
          BY <1>4, <1>7
        <5> QED
          BY <5>1, <5>2 DEF BuildingOf
      <4> QED
        BY <4>1, <4>2, <4>3 DEF MayBegin
    <3> QED
      BY <3>1
  <2> QED
    BY <1>1, <1>4, <2>1, <2>2 DEF SessionInStep, Ordered
<1>11. \A b1 \in BatchIds : BatchInStep(b1)'
  BY <1>8, <1>9, BatchKept DEF InStep
<1>12. BatchIds' = BatchIds
  BY <1>4 DEF BatchIds
<1>13. SessionsApart'
  BY <1>4 DEF InStep, SessionsApart, Loaded
<1>14. ASSUME NEW t \in Sessions, t # s PROVE SessionInStep(t)'
  <2>1. SessionInStep(t) /\ sess'[t] = sess[t] /\ (~Loaded(t) => sess[t].todo = <<>>)
    BY <1>4, <1>14 DEF InStep, Typed, SessionsTyped
  <2>2. Loaded(t) => sess[t].batch \in BatchIds /\ sess[t].batch # c
    BY <1>7, <1>14 DEF Typed, SessionsTyped, Loaded, BatchIds, InStep, SessionsApart
  <2> QED
    BY <1>9, <2>1, <2>2, SessionKept
<1> QED
  BY <1>10, <1>11, <1>12, <1>13, <1>14 DEF InStep

(* A step that is not "save" or "delete" leaves the batch's row alone.     *)
LEMMA StepKeepsRow ==
  ASSUME Typed, InStep, NEW s \in Sessions, sess[s].todo # <<>>,
         batches' = batches,
         \A o \in BatchIds : o # sess[s].batch => Kept(o),
         BatchInStep(sess[s].batch)',
         sess'[s].batch = sess[s].batch, sess'[s].row = sess[s].row,
         \A o \in Sessions \ {s} : sess'[o] = sess[o],
         Ordered(sess'[s].todo),
         sess'[s].todo # <<>> => MayBegin(s, sess[s].todo[1])'
  PROVE  InStep'
<1>1. Loaded(s) /\ SessionInStep(s) /\ BatchIds' = BatchIds
  BY FirstStep DEF InStep, BatchIds
<1>2. HasBatch(s)'
  BY <1>1 DEF SessionInStep, HasBatch, Loaded, Editing
<1>3. SessionInStep(s)'
  BY <1>2 DEF SessionInStep, Ordered
<1>4. \A t \in Sessions : t # s => sess'[t] = sess[t]
  OBVIOUS
<1> QED
  BY <1>1, <1>3, <1>4, OthersKept

LEMMA RemoveDirInStep ==
  ASSUME Typed, InStep, NEW s \in Sessions, RemoveDir(s)
  PROVE  InStep'
<1>1. /\ sess[s].todo # <<>> /\ Head(sess[s].todo).op = "remove_dir" /\ Done(s)
      /\ UNCHANGED <<batches, pipes>>
      /\ dirs' = [dirs EXCEPT ![sess[s].batch][sess[s].row.location] = NoDir]
  BY DEF RemoveDir, Doing
<1>2. PICK b \in BatchIds : b = sess[s].batch
  BY <1>1, FirstStep
<1>3. /\ sess[s].todo[1].op = "remove_dir" /\ BatchInStep(b) /\ batches[b] \in BatchRow
      /\ sess[s].row.status = "qc_ready" /\ sess[s].row = batches[b]
      /\ Ordered(Tail(sess[s].todo))
      /\ Tail(sess[s].todo) # <<>> => /\ Tail(sess[s].todo)[1].op = "save"
                                      /\ Tail(sess[s].todo)[1].ws = "failed_qc"
  <2>1. sess[s].todo[1].op = "remove_dir"
    BY <1>1, FirstStep
  <2> QED
    BY <1>1, <1>2, <2>1, Began DEF CanFollow
<1>4. sess[s].row.location = "final" /\ dirs[b].wip = NoDir /\ BuildingOf(b) = {}
  BY <1>3, NotBuiltOnceShown DEF BatchInStep
<1>5. dirs[b] \in PlaceSet /\ dirs \in Seq(PlaceSet) /\ Len(dirs) = Len(batches)
  BY DEF Typed, BatchesTyped, BatchIds
<1> DEFINE d == [dirs[b] EXCEPT !["final"] = NoDir]
<1>6. d \in PlaceSet /\ d = NoBatchDirs
  <2>1. d = [wip |-> NoDir, final |-> NoDir]
    BY <1>4, <1>5 DEF PlaceSet
  <2>2. NoBatchDirs \in PlaceSet
    BY DEF PlaceSet, NoBatchDirs, NoDir, Found
  <2> QED
    BY <2>1, <2>2 DEF NoBatchDirs
<1>7. dirs' = [dirs EXCEPT ![b] = d]
  BY <1>1, <1>2, <1>4
<1> HIDE DEF d
<1>8. dirs'[b] = NoBatchDirs /\ \A o \in BatchIds : o # b => dirs'[o] = dirs[o]
  BY <1>5, <1>6, <1>7, ExceptSeq DEF BatchIds
<1>9. \A o : BuildingOf(o)' = BuildingOf(o)
  BY <1>1 DEF BuildingOf
<1>10. BatchInStep(b)'
  <2>1. dirs'[b].wip = NoDir /\ BuildingOf(b)' = {} /\ batches'[b] = batches[b]
    BY <1>1, <1>4, <1>8, <1>9 DEF NoBatchDirs
  <2> QED
    BY <1>3, <2>1 DEF BatchInStep
<1>11. /\ sess'[s].todo = Tail(sess[s].todo)
       /\ sess'[s].batch = sess[s].batch /\ sess'[s].row = sess[s].row
       /\ \A o \in Sessions \ {s} : sess'[o] = sess[o]
  BY <1>1, OneStepDone
<1>12. sess'[s].todo # <<>> => MayBegin(s, sess[s].todo[1])'
  BY <1>2, <1>3, <1>8, <1>11 DEF MayBegin
<1>13. \A o \in BatchIds : o # b => Kept(o)
  BY <1>1, <1>8, <1>9 DEF Kept
<1>14. BatchInStep(sess[s].batch)'
  <2>1. sess'[s].batch = b
    BY <1>2, <1>11
  <2> QED
    BY <1>10, <2>1 DEF BatchInStep, BuildingOf, Unbuilt, Stage
<1>15. batches' = batches
  BY <1>1
<1> QED
  BY <1>1, <1>2, <1>3, <1>10, <1>11, <1>12, <1>13, <1>15, StepKeepsRow

LEMMA QueueInStep ==
  ASSUME Typed, InStep, NEW s \in Sessions, Queue(s)
  PROVE  InStep'
<1> DEFINE new == Pipe("make", sess[s].batch, "none")
<1>1. /\ sess[s].todo # <<>> /\ Head(sess[s].todo).op = "queue" /\ Done(s)
      /\ UNCHANGED <<batches, dirs>> /\ pipes' = pipes \cup {new}
  BY DEF Queue, Doing, batchVars
<1>2. PICK b \in BatchIds : b = sess[s].batch
  BY <1>1, FirstStep
<1>3. new.kind = "make" /\ new.about = b /\ new.at = 1
  BY <1>2 DEF Pipe
<1> HIDE DEF new
<1>4. /\ BatchInStep(b) /\ batches[b].status = "pending" /\ BuildingOf(b) = {}
      /\ Tail(sess[s].todo) = <<>>
  <2>1. sess[s].todo[1].op = "queue"
    BY <1>1, FirstStep
  <2> QED
    BY <1>1, <1>2, <2>1, Began DEF CanFollow
<1>5. BuildingOf(b)' = {new} /\ \A o : o # b => BuildingOf(o)' = BuildingOf(o)
  <2>1. BuildingOf(b)' = BuildingOf(b) \cup {new}
    BY <1>1, <1>3 DEF BuildingOf
  <2>2. \A o : o # b => BuildingOf(o)' = BuildingOf(o)
    BY <1>1, <1>3 DEF BuildingOf
  <2> QED
    BY <1>4, <2>1, <2>2
<1>6. BatchInStep(b)'
  <2>1. Unbuilt(b) /\ NoBatchDirs.wip = NoDir /\ NoBatchDirs.final = NoDir
    BY <1>4 DEF BatchInStep, NoBatchDirs
  <2>2. Stage(b, 1)'
    BY <1>1, <1>4, <2>1 DEF Stage, Unbuilt
  <2> QED
    BY <1>1, <1>3, <1>4, <1>5, <2>2 DEF BatchInStep
<1>7. /\ sess'[s].todo = Tail(sess[s].todo)
      /\ sess'[s].batch = sess[s].batch /\ sess'[s].row = sess[s].row
      /\ \A o \in Sessions \ {s} : sess'[o] = sess[o]
  BY <1>1, OneStepDone
<1>8. \A o \in BatchIds : o # b => Kept(o)
  BY <1>1, <1>5 DEF Kept
<1>9. Ordered(sess'[s].todo)
  BY <1>4, <1>7, NoneOrdered
<1> QED
  BY <1>1, <1>2, <1>4, <1>6, <1>7, <1>8, <1>9, StepKeepsRow

(* The other steps change neither rows of batches nor directories, and
   queue nothing for a batch.                                               *)
LEMMA PlainStepInStep ==
  ASSUME Typed, InStep, NEW s \in Sessions, sess[s].todo # <<>>,
         UNCHANGED <<batches, dirs>>, \A o : BuildingOf(o)' = BuildingOf(o),
         sess'[s].batch = sess[s].batch, sess'[s].row = sess[s].row,
         \A o \in Sessions \ {s} : sess'[o] = sess[o],
         sess[s].row.status = "failed_qc", Ordered(sess'[s].todo),
         sess'[s].todo # <<>> =>
           sess'[s].todo[1].op \in {"invalidate", "remove_mets", "reload", "redo", "delete"}
  PROVE  InStep'
<1>1. \A o : Kept(o)
  BY DEF Kept
<1>2. PICK b \in BatchIds : b = sess[s].batch
  BY FirstStep
<1>3. BatchInStep(b)'
  BY <1>1, BatchKept DEF InStep
<1>4. sess'[s].todo # <<>> => MayBegin(s, sess[s].todo[1])'
  BY DEF MayBegin
<1>5. batches' = batches
  OBVIOUS
<1> QED
  BY <1>1, <1>2, <1>3, <1>4, <1>5, StepKeepsRow

(* What a step for several issues leaves to be done is still in order.     *)
LEMMA TakenOrdered ==
  ASSUME Typed, InStep, NEW s \in Sessions, sess[s].todo # <<>>,
         Head(sess[s].todo).op \in {"invalidate", "redo"}
  PROVE  LET x == sess[s].todo[1]
             u == Taken(s)
         IN  /\ u \in Seq(StepSet) /\ Ordered(u)
             /\ u # <<>> => u[1].op = x.op \/ CanFollow(x, u[1])
             /\ x.op = "invalidate" => u # <<>>
<1> DEFINE t == sess[s].todo
           u == Taken(s)
           rest == [k \in DOMAIN Rows(s) \ {First(s)} |-> Rows(s)[k]]
<1>1. /\ t \in Seq(StepSet) /\ Len(t) \in Nat \ {0} /\ Head(t) = t[1] /\ t[1] \in StepSet
      /\ Len(Tail(t)) = Len(t) - 1
  BY FirstStep
<1>2. /\ Ordered(t) /\ Ordered(Tail(t))
      /\ Tail(t) # <<>> => CanFollow(t[1], Tail(t)[1])
  BY Began DEF InStep, SessionInStep
<1>3. t[1].op = "invalidate" => Len(t) >= 2 /\ Tail(t) # <<>>
  <2>1. t # <<>> /\ t[Len(t)].op # "invalidate"
    BY <1>2 DEF Ordered
  <2>2. Len(<<>>) = 0
    OBVIOUS
  <2> HIDE DEF t
  <2>3. ASSUME t[1].op = "invalidate" PROVE Len(t) >= 2
    <3>1. Len(t) # 1
      BY <2>1, <2>3
    <3> QED
      BY <1>1, <3>1
  <2>4. ASSUME Len(t) >= 2 PROVE Tail(t) # <<>>
    <3> DEFINE w == Tail(t)
    <3>1. Len(w) = Len(t) - 1
      BY <1>1
    <3> HIDE DEF w
    <3>2. Len(w) # 0
      BY <1>1, <2>4, <3>1
    <3>3. w # <<>>
      BY <2>2, <3>2
    <3> QED
      BY <3>3 DEF w
  <2> QED
    BY <2>3, <2>4
<1>4. /\ u \in Seq(StepSet)
      /\ DOMAIN rest = {} => u = Tail(t)
      /\ DOMAIN rest # {} =>
           /\ Len(u) = Len(t) /\ u[1] = Step(t[1].op, rest, t[1].ws)
           /\ \A n \in 2..Len(t) : u[n] = t[n]
  BY TakenIs
<1> HIDE DEF rest, u, t
<1>5. CASE DOMAIN rest = {}
  BY <1>2, <1>3, <1>4, <1>5 DEF u, t
<1>6. CASE DOMAIN rest # {}
  <2>1. u[1].op = t[1].op /\ u[1].ws = t[1].ws /\ Len(u) = Len(t)
    BY <1>4, <1>6 DEF Step
  <2>2. u # <<>>
    BY <1>1, <2>1
  <2>3. \A n \in 1..Len(u) : u[n].op = t[n].op /\ u[n].ws = t[n].ws
    BY <1>1, <1>4, <1>6, <2>1
  <2>4. \A n \in 1..Len(u) - 1 : CanFollow(u[n], u[n + 1])
    <3> SUFFICES ASSUME NEW n \in 1..Len(u) - 1 PROVE CanFollow(u[n], u[n + 1])
      OBVIOUS
    <3>1. n \in 1..Len(u) /\ n + 1 \in 1..Len(u) /\ n \in 1..Len(t) - 1
      BY <1>1, <2>1
    <3>2. CanFollow(t[n], t[n + 1])
      BY <1>2, <3>1 DEF Ordered
    <3> QED
      BY <2>3, <3>1, <3>2 DEF CanFollow
  <2>5. u[Len(u)].op = t[Len(t)].op
    BY <1>1, <2>1, <2>3
  <2>6. t # <<>> /\ t[Len(t)].op \notin {"invalidate", "remove_mets"}
    BY <1>2 DEF Ordered, t
  <2>7. Ordered(u)
    BY <2>4, <2>5, <2>6 DEF Ordered
  <2> QED
    BY <1>4, <2>1, <2>2, <2>7 DEF u, t
<1> QED
  BY <1>5, <1>6

LEMMA SteppingInStep ==
  ASSUME Typed, InStep, NEW s \in Sessions, Stepping(s)
  PROVE  InStep'
<1> DEFINE t == sess[s].todo
           b == sess[s].batch
<1>1. ASSUME t # <<>>, UNCHANGED <<batches, dirs>>, \A o : BuildingOf(o)' = BuildingOf(o), Done(s),
             t[1].op = "remove_mets"
      PROVE  InStep'
  <2>1. /\ sess[s].row.status = "failed_qc" /\ Ordered(Tail(t))
        /\ Tail(t) # <<>> => Tail(t)[1].op \in {"invalidate", "reload", "delete"}
    BY <1>1, Began DEF CanFollow
  <2>2. /\ sess'[s].todo = Tail(t) /\ sess'[s].batch = b /\ sess'[s].row = sess[s].row
        /\ \A o \in Sessions \ {s} : sess'[o] = sess[o]
    BY <1>1, OneStepDone
  <2> QED
    BY <1>1, <2>1, <2>2, PlainStepInStep
<1>2. CASE RemoveMETS(s)
  <2>1. t # <<>> /\ UNCHANGED <<batches, dirs, pipes>> /\ Done(s) /\ Head(t).op = "remove_mets"
    BY <1>2 DEF RemoveMETS, Doing, batchVars
  <2>2. t[1].op = "remove_mets" /\ \A o : BuildingOf(o)' = BuildingOf(o)
    BY <2>1, FirstStep DEF BuildingOf
  <2> QED
    BY <1>1, <2>1, <2>2
<1>8. CASE KeepMETS(s)
  <2> DEFINE u == IF Patient THEN <<Step("reload", <<>>, "none")>> ELSE <<>>
  <2>1. /\ t # <<>> /\ UNCHANGED <<batches, dirs, pipes>> /\ Head(t).op = "remove_mets"
        /\ sess' = [sess EXCEPT ![s].todo = u]
    BY <1>8 DEF KeepMETS, Doing, batchVars, OnlySession
  <2>2. /\ u \in Seq(StepSet) /\ (u = <<>> => Len(u) = 0)
        /\ u # <<>> => Len(u) = 1 /\ u[1].op = "reload"
    BY LeftToDo
  <2> HIDE DEF u
  <2>3. t[1].op = "remove_mets" /\ \A o : BuildingOf(o)' = BuildingOf(o)
    BY <2>1, FirstStep DEF BuildingOf
  <2>4. sess[s].row.status = "failed_qc"
    BY <2>1, <2>3, Began
  <2>5. Ordered(u)
    BY <2>2 DEF Ordered
  <2>6. /\ sess'[s].todo = u /\ sess'[s].batch = b /\ sess'[s].row = sess[s].row
        /\ \A o \in Sessions \ {s} : sess'[o] = sess[o]
    BY <2>1, TodoWritten DEF Typed
  <2> QED
    BY <2>1, <2>2, <2>3, <2>4, <2>5, <2>6, PlainStepInStep
<1>3. CASE Reload(s)
  <2>1. t # <<>> /\ UNCHANGED <<batches, dirs, pipes>> /\ Head(t).op = "reload"
        /\ sess' = [sess EXCEPT ![s] = FindBatch(b)]
    BY <1>3 DEF Reload, Doing, batchVars, OnlySession
  <2>2. t[1].op = "reload" /\ b \in BatchIds /\ \A o : BuildingOf(o)' = BuildingOf(o)
    BY <2>1, FirstStep DEF BuildingOf
  <2>3. sess[s].row.status = "failed_qc" /\ sess[s].row = batches[b]
    BY <2>1, <2>2, Began
  <2>4. /\ FindBatch(b).batch = b /\ FindBatch(b).row = batches[b] /\ FindBatch(b).todo = <<>>
        /\ FindBatch(b) \in SessionSet
    BY <2>2, FindBatchTyped
  <2>5. sess'[s] = FindBatch(b) /\ \A o \in Sessions \ {s} : sess'[o] = sess[o]
    BY <2>1, <2>4, SessionWritten DEF Typed
  <2> QED
    BY <2>1, <2>2, <2>3, <2>4, <2>5, NoneOrdered, PlainStepInStep
<1>4. CASE Delete(s)
  <2>1. t # <<>> /\ UNCHANGED <<dirs, pipes>> /\ Head(t).op = "delete" /\ SaveBatch(s, "deleted")
    BY <1>4 DEF Delete, Doing
  <2>2. t[1].op = "delete"
    BY <2>1, FirstStep
  <2>3. /\ sess[s].row.status = "failed_qc" /\ sess[s].row = batches[b] /\ Tail(t) = <<>>
        /\ BatchInStep(b)
    BY <2>1, <2>2, Began DEF CanFollow
  <2>4. dirs[b] = NoBatchDirs
    BY <2>3 DEF BatchInStep, Unbuilt
  <2> QED
    BY <2>1, <2>3, <2>4, SavedInStep
<1>5. CASE SaveStatus(s)
  <2>1. t # <<>> /\ UNCHANGED <<dirs, pipes>> /\ Head(t).op = "save" /\ SaveBatch(s, Head(t).ws)
    BY <1>5 DEF SaveStatus, Doing
  <2>2. t[1].op = "save" /\ t[1].ws \in {"failed_qc", "pending"} /\ SaveBatch(s, t[1].ws)
    BY <2>1, FirstStep DEF StepSet
  <2>3. CASE t[1].ws = "failed_qc"
    <3>1. /\ sess[s].row.status = "qc_ready" /\ sess[s].row = batches[b] /\ Tail(t) = <<>>
          /\ dirs[b] = NoBatchDirs
      BY <2>1, <2>2, <2>3, Began DEF CanFollow
    <3> QED
      BY <2>1, <2>2, <2>3, <3>1, SavedInStep
  <2>4. CASE t[1].ws = "pending"
    <3>1. /\ sess[s].row.status = "failed_qc" /\ sess[s].row = batches[b] /\ BatchInStep(b)
          /\ Tail(t) # <<>> => Tail(t)[1].op = "queue"
      BY <2>1, <2>2, <2>4, Began DEF CanFollow
    <3>2. dirs[b] = NoBatchDirs
      BY <3>1 DEF BatchInStep, Unbuilt
    <3> QED
      BY <2>1, <2>2, <2>4, <3>1, <3>2, SavedInStep
  <2> QED
    BY <2>2, <2>3, <2>4
<1>6. CASE Invalidate(s)
  <2> DEFINE mine == Step("remove_mets",
                        [k \in {First(s)} |-> Invalidated(Rows(s)[First(s)], t[1].ws)], "none")
             new  == <<mine>> \o Taken(s)
  <2>0. mine.op = "remove_mets"
    BY DEF Step
  <2> HIDE DEF mine
  <2>1. /\ t # <<>> /\ t[1].op = "invalidate" /\ UNCHANGED <<batches, dirs, pipes>>
        /\ new \in Seq(StepSet) /\ Taken(s) \in Seq(StepSet) /\ Len(new) = Len(Taken(s)) + 1
        /\ new[1].op = "remove_mets" /\ \A n \in 2..Len(new) : new[n] = Taken(s)[n - 1]
        /\ sess'[s].batch = b /\ sess'[s].row = sess[s].row /\ sess'[s].todo = new
        /\ \A o \in Sessions \ {s} : sess'[o] = sess[o]
    <3>1. /\ t # <<>> /\ t[1].op = "invalidate"
          /\ new \in Seq(StepSet) /\ Taken(s) \in Seq(StepSet) /\ Len(new) = Len(Taken(s)) + 1
          /\ new[1] = mine /\ \A n \in 2..Len(new) : new[n] = Taken(s)[n - 1]
          /\ sess'[s].batch = b /\ sess'[s].row = sess[s].row /\ sess'[s].todo = new
      BY <1>6, InvalidateStep, Zenon DEF mine
    <3>2. /\ UNCHANGED <<batches, dirs, pipes>>
          /\ \A o \in Sessions \ {s} : sess'[o] = sess[o]
      BY <1>6, InvalidateStep DEF batchVars
    <3> HIDE DEF new
    <3> QED
      BY <2>0, <3>1, <3>2
  <2>2. Head(t).op = "invalidate" /\ t[1] \in StepSet
    BY <2>1, FirstStep
  <2>3. /\ Ordered(Taken(s)) /\ Taken(s) # <<>>
        /\ Taken(s)[1].op = "invalidate" \/ CanFollow(t[1], Taken(s)[1])
    BY <2>1, <2>2, TakenOrdered
  <2> HIDE DEF new
  <2>4. Len(Taken(s)) \in Nat \ {0} /\ Len(new) \in Nat
    BY <2>1, <2>3, EmptySeq, LenProperties
  <2>5. CanFollow(new[1], new[2])
    <3>1. new[2] = Taken(s)[1]
      BY <2>1, <2>4
    <3>2. new[2].op \in {"invalidate", "reload", "delete"}
      BY <2>1, <2>3, <3>1 DEF CanFollow
    <3> QED
      BY <2>1, <3>2 DEF CanFollow
  <2>6. \A n \in 1..Len(new) - 1 : CanFollow(new[n], new[n + 1])
    <3> SUFFICES ASSUME NEW n \in 1..Len(new) - 1, n # 1 PROVE CanFollow(new[n], new[n + 1])
      BY <2>5
    <3>1. /\ new[n] = Taken(s)[n - 1] /\ new[n + 1] = Taken(s)[n]
          /\ n - 1 \in 1..Len(Taken(s)) - 1 /\ n = (n - 1) + 1
      BY <2>1, <2>4
    <3>2. CanFollow(Taken(s)[n - 1], Taken(s)[(n - 1) + 1])
      BY <2>3, <3>1 DEF Ordered
    <3> QED
      BY <3>1, <3>2
  <2>7. new[Len(new)].op \notin {"invalidate", "remove_mets"}
    <3>1. new[Len(new)] = Taken(s)[Len(Taken(s))]
      BY <2>1, <2>4
    <3> QED
      BY <2>3, <3>1 DEF Ordered
  <2>8. Ordered(new)
    BY <2>6, <2>7 DEF Ordered
  <2>9. sess[s].row.status = "failed_qc"
    BY <2>1, Began
  <2>10. \A o : BuildingOf(o)' = BuildingOf(o)
    BY <2>1 DEF BuildingOf
  <2> QED
    BY <2>1, <2>8, <2>9, <2>10, PlainStepInStep
<1>7. CASE Redo(s)
  <2> DEFINE new == Pipe("redo", First(s), CurrentStep(Rows(s)[First(s)]))
  <2>1. /\ t # <<>> /\ Head(t).op = "redo" /\ UNCHANGED <<batches, dirs>>
        /\ pipes' = pipes \cup {new} /\ sess' = [sess EXCEPT ![s].todo = Taken(s)]
    BY <1>7 DEF Redo, Doing, batchVars
  <2>2. new.kind = "redo"
    BY DEF Pipe
  <2> HIDE DEF new
  <2>3. \A o : BuildingOf(o)' = BuildingOf(o)
    BY <2>1, <2>2 DEF BuildingOf
  <2>4. t[1].op = "redo" /\ t[1] \in StepSet
    BY <2>1, FirstStep
  <2>5. /\ Ordered(Taken(s))
        /\ Taken(s) # <<>> => Taken(s)[1].op = "redo"
    BY <2>1, <2>4, TakenOrdered DEF CanFollow
  <2>6. sess[s].row.status = "failed_qc"
    BY <2>1, <2>4, Began
  <2>7. /\ sess'[s].todo = Taken(s) /\ sess'[s].batch = b /\ sess'[s].row = sess[s].row
        /\ \A o \in Sessions \ {s} : sess'[o] = sess[o]
    BY <2>1, TodoWritten DEF Typed
  <2> QED
    BY <2>1, <2>3, <2>5, <2>6, <2>7, PlainStepInStep
<1> QED
  BY <1>2, <1>3, <1>4, <1>5, <1>6, <1>7, <1>8, RemoveDirInStep, QueueInStep DEF Stepping

(* By hand and by time, and closing: batches no session has are rewritten. *)
LEMMA RowRewritten ==
  ASSUME Typed, InStep, UNCHANGED <<pipes, sess>>, BatchIds' = BatchIds,
         NEW b \in BatchIds, BatchInStep(b)',
         \A o \in BatchIds : o # b => batches'[o] = batches[o] /\ dirs'[o] = dirs[o],
         \A s \in Sessions : sess[s].batch # b
  PROVE  InStep'
<1>1. \A o \in BatchIds : o # b => Kept(o)
  BY DEF Kept, BuildingOf
<1>2. \A o \in BatchIds : BatchInStep(o)'
  BY <1>1, BatchKept DEF InStep
<1>3. SessionsApart'
  BY DEF InStep, SessionsApart, Loaded
<1>4. ASSUME NEW s \in Sessions PROVE SessionInStep(s)'
  <2>1. SessionInStep(s) /\ sess'[s] = sess[s] /\ (~Loaded(s) => sess[s].todo = <<>>)
        /\ (Loaded(s) => sess[s].batch \in BatchIds)
    BY DEF InStep, Typed, SessionsTyped, Loaded, BatchIds
  <2> QED
    BY <1>1, <2>1, SessionKept
<1> QED
  BY <1>2, <1>3, <1>4 DEF InStep

LEMMA HandInStep ==
  ASSUME Undisturbed, Typed, InStep, NEW b \in BatchIds, GoLive(b) \/ Archive(b) \/ FourWeeksPass(b)
  PROVE  InStep'
<1>1. BatchInStep(b) /\ BuildingOf(b)' = BuildingOf(b) /\ UNCHANGED <<pipes, sess>>
  BY DEF InStep, GoLive, Archive, FourWeeksPass, BuildingOf
<1>2. dirs \in Seq(PlaceSet) /\ BatchIds = 1..Len(dirs) /\ NoBatchDirs \in PlaceSet
  BY DEF Typed, BatchesTyped, BatchIds, NoBatchDirs, NoDir, PlaceSet, Found
<1>3. CASE GoLive(b)
  <2>1. /\ BuildingOf(b) = {} /\ batches[b].status = "qc_ready" /\ dirs' = dirs
        /\ \A s \in Sessions : sess[s].batch # b
    BY <1>3 DEF GoLive, ByHand, BuildingOf
  <2>2. /\ BatchIds' = BatchIds /\ \A o \in BatchIds : o # b => batches'[o] = batches[o]
        /\ batches'[b].status = "live"
    BY <1>3, GoLiveStep
  <2>3. BatchInStep(b)'
    BY <1>1, <2>1, <2>2 DEF BatchInStep
  <2> QED
    BY <1>1, <2>1, <2>2, <2>3, RowRewritten
<1>4. CASE Archive(b)
  <2>1. /\ batches[b].status = "live" /\ dirs' = [dirs EXCEPT ![b] = NoBatchDirs]
        /\ \A s \in Sessions : sess[s].batch # b
    BY <1>4 DEF Archive, ByHand
  <2>2. /\ BatchIds' = BatchIds /\ \A o \in BatchIds : o # b => batches'[o] = batches[o]
        /\ batches'[b].status = "live"
    BY <1>4, ArchiveStep
  <2>3. \A o \in BatchIds : o # b => dirs'[o] = dirs[o]
    BY <1>2, <2>1, ExceptSeq
  <2>4. BuildingOf(b)' = {}
    BY <1>1, <2>1, NotBuiltOnceShown
  <2>5. BatchInStep(b)'
    BY <2>2, <2>4 DEF BatchInStep
  <2> QED
    BY <1>1, <2>1, <2>2, <2>3, <2>5, RowRewritten
<1>5. CASE FourWeeksPass(b)
  <2>1. /\ BatchIds' = BatchIds /\ \A o \in BatchIds : o # b => batches'[o] = batches[o]
        /\ batches'[b].status = batches[b].status
        /\ batches[b].archived = "recently" /\ batches'[b].archived = "four-weeks-ago"
        /\ dirs' = dirs
    BY <1>5, FourWeeksStep DEF FourWeeksPass
  <2>2. batches[b].status \in {"live", "live_done"}
    BY <1>1, <2>1 DEF BatchInStep
  <2>3. \A s \in Sessions : sess[s].batch # b
    BY <2>2 DEF InStep, SessionInStep, HasBatch, Loaded, BatchIds
  <2>4. BuildingOf(b)' = {}
    BY <1>1, <2>2, NotBuiltOnceShown
  <2>5. BatchInStep(b)'
    BY <2>1, <2>2, <2>4 DEF BatchInStep
  <2> QED
    BY <1>1, <2>1, <2>3, <2>5, RowRewritten
<1> QED
  BY <1>3, <1>4, <1>5

LEMMA ClosingInStep ==
  ASSUME Typed, InStep, DryRun \/ \E b \in BatchIds : Close(b)
  PROVE  InStep'
<1>1. /\ BatchIds' = BatchIds /\ \A b \in BatchIds : batches'[b] \in {batches[b], Closed(b)}
      /\ UNCHANGED <<dirs, pipes, sess>>
  BY ClosingStep
<1>2. \A b : BuildingOf(b)' = BuildingOf(b)
  BY <1>1 DEF BuildingOf
<1>3. ASSUME NEW b \in BatchIds
      PROVE  /\ BatchInStep(b)'
             /\ ~Kept(b) => batches[b].status = "live" /\ batches'[b].status = "live_done"
  <2>1. BatchInStep(b)
    BY DEF InStep
  <2>2. CASE batches'[b] = batches[b]
    <3>1. Kept(b)
      BY <1>1, <1>2, <2>2 DEF Kept
    <3> QED
      BY <2>1, <3>1, BatchKept
  <2>3. CASE batches'[b] # batches[b]
    <3>1. batches'[b] = Closed(b) /\ MayClose(b)
      BY <1>1, <2>3 DEF Closed
    <3>2. /\ batches[b].status = "live" /\ batches[b].archived = "four-weeks-ago"
          /\ batches'[b].status = "live_done" /\ batches'[b].archived = "four-weeks-ago"
      BY <3>1, ClosedTyped DEF MayClose
    <3>3. BuildingOf(b)' = {}
      BY <1>2, <2>1, <3>2, NotBuiltOnceShown
    <3>4. BatchInStep(b)'
      BY <3>2, <3>3 DEF BatchInStep
    <3> QED
      BY <3>2, <3>4
  <2> QED
    BY <2>2, <2>3
<1>4. SessionsApart'
  BY <1>1 DEF InStep, SessionsApart, Loaded
<1>5. ASSUME NEW s \in Sessions PROVE SessionInStep(s)'
  <2>1. SessionInStep(s) /\ sess'[s] = sess[s] /\ (~Loaded(s) => sess[s].todo = <<>>)
        /\ (Loaded(s) => sess[s].batch \in BatchIds)
    BY <1>1 DEF InStep, Typed, SessionsTyped, Loaded, BatchIds
  <2>2. Loaded(s) => batches[sess[s].batch].status # "live"
    BY <2>1 DEF SessionInStep, HasBatch
  <2> QED
    BY <1>3, <2>1, <2>2, SessionKept
<1> QED
  BY <1>1, <1>3, <1>4, <1>5 DEF InStep

LEMMA InStepAtFirst == Init => InStep
<1> SUFFICES ASSUME Init PROVE InStep
  OBVIOUS
<1>1. BatchIds = {}
  BY EmptySeq DEF Init, BatchIds
<1>2. \A s \in Sessions : sess[s].batch = 0 /\ sess[s].todo = <<>>
  BY DEF Init, NotLoaded
<1> QED
  BY <1>1, <1>2, NoneOrdered DEF InStep, SessionsApart, SessionInStep, HasBatch, Loaded

LEMMA InStepKept == Undisturbed /\ Typed /\ InStep /\ [Next]_vars => InStep'
<1> SUFFICES ASSUME Undisturbed, Typed, InStep, [Next]_vars PROVE InStep'
  OBVIOUS
<1>1. CASE UNCHANGED vars
  BY <1>1, ElsewhereInStep DEF vars, batchVars
<1>2. CASE QueueBatches
  BY <1>2, QueueBatchesInStep
<1>3. ASSUME NEW i \in Issues, Finalize(i) PROVE InStep'
  BY <1>3, ElsewhereInStep DEF Finalize, batchVars
<1>4. ASSUME NEW p \in pipes, RunJob(p) PROVE InStep'
  BY <1>4, RunJobInStep
<1>5. ASSUME NEW s \in Sessions, Fixing(s) \/ Stepping(s) \/ SessionDies(s) PROVE InStep'
  BY <1>5, FixingInStep, SteppingInStep
<1>6. CASE Hand \/ Time
  <2>1. CASE IgnoreIssues
    BY <2>1, ElsewhereInStep DEF IgnoreIssues, batchVars
  <2> QED
    BY <1>6, <2>1, HandInStep DEF Hand, Time
<1>7. CASE DryRun \/ \E b \in BatchIds : Close(b)
  BY <1>7, ClosingInStep
<1>8. CASE StartPurge \/ FindCompletedIssues \/ EndPurge \/ PurgeDies
  BY <1>8, ElsewhereInStep DEF StartPurge, FindCompletedIssues, EndPurge, PurgeDies, OnlyPurge, batchVars
<1>9. ASSUME NEW i \in Issues, RemoveFiles(i) \/ SaveLocation(i) PROVE InStep'
  BY <1>9, ElsewhereInStep DEF RemoveFiles, SaveLocation, OnlyPurge
<1> QED
  BY <1>1, <1>2, <1>3, <1>4, <1>5, <1>6, <1>7, <1>8, <1>9 DEF Next, Purge

(* Where sessions have their batches to themselves, a batch that failed or
   was deleted has no directory, and no pipeline that could give it one: the
   directory goes before the row is saved (Batch.Fail), and only the row of a
   batch whose pipeline is done can be loaded (FindBatch in batch-fixer).    *)
THEOREM NothingLeft == Undisturbed => (Spec => []NothingLeftOfFailed)
<1> SUFFICES ASSUME Undisturbed PROVE Spec => []NothingLeftOfFailed
  OBVIOUS
<1>1. InStep /\ Typed => NothingLeftOfFailed
  <2> SUFFICES ASSUME InStep, Typed, NEW b \in BatchIds,
                      batches[b].status \in {"failed_qc", "deleted"}
               PROVE  /\ dirs[b] = NoBatchDirs
                      /\ \A p \in pipes : p.kind = "make" /\ p.about = b =>
                           JobsOf(p)[p.at] = "write_bagit_manifest"
    BY DEF NothingLeftOfFailed
  <2>1. BatchInStep(b)
    BY DEF InStep
  <2>2. BuildingOf(b) = {}
    BY <2>1, NotBuiltOnceShown
  <2>3. dirs[b] = NoBatchDirs
    BY <2>1 DEF BatchInStep, Unbuilt
  <2>4. ASSUME NEW p \in pipes, p.kind = "make", p.about = b
        PROVE  JobsOf(p)[p.at] = "write_bagit_manifest"
    <3>1. p.at \in 1..7
      BY DEF Typed, PipesTyped, PipeSet
    <3>2. p.at = 7
      BY <2>2, <2>4, <3>1 DEF BuildingOf
    <3>3. JobsOf(p) = MakeBatchJobs
      BY <2>4 DEF JobsOf
    <3> QED
      BY <3>2, <3>3, Jobs
  <2> QED
    BY <2>3, <2>4
<1>2. Typed /\ InStep /\ [Next]_vars => InStep'
  BY InStepKept
<1>3. Spec => []InStep
  BY <1>2, InStepAtFirst, Types, PTL DEF Spec
<1> QED
  BY <1>1, <1>3, Types, PTL

----------------------------------------------------------------------------
(* Issues, the pipelines that redo their derivatives, what sessions know of
   them and plan for them, and what batches' directories hold               *)

Reviewed(b) == {<<i, edits[i]>> : i \in InBatch(b)}
Out == {"live", "live_done"}
IssueInStep(i) ==
  LET r == issues[i]
  IN  /\ r.batch \in {0} \cup BatchIds
      /\ r.ws \in SentTo => r.batch = 0
      /\ r.ws = "AwaitingProcessing" =>
           r.batch # 0 /\ \E p \in pipes : p.kind = "redo" /\ p.about = i /\ p.at \in 2..4
      /\ r.ignored <=> r.ws = "InProduction"
      /\ r.ws = "InProduction" => r.batch # 0 /\ batches[r.batch].status \in Out
      /\ r.batch # 0 => batches[r.batch].status # "deleted"
      /\ r.batch # 0 \/ r.ws = "ReadyForBatching" => mets[i] = edits[i]
      /\ ~files[i] => r.ignored /\ batches[r.batch].status = "live_done"

(* Derivatives are made again only in batches that failed.                 *)
InFailed(i) == issues[i].batch # 0 /\ batches[issues[i].batch].status = "failed_qc"
RedosInStep ==
  \A p \in pipes : p.kind = "redo" => p.restore = "ReadyForBatching" /\ InFailed(p.about)

(* A session's row of an issue is the issue's, but for the step its pipeline
   has set, and the batch's unless the session has just taken it out.       *)
CopyInStep(s, i) ==
  LET c == sess[s].copies[i]
  IN  /\ issues[i] \in {c, [c EXCEPT !.ws = "AwaitingProcessing"]}
      /\ \/ c.batch = sess[s].batch /\ c.ws = "ReadyForBatching"
         \/ /\ c.batch = 0 /\ c.ws \in SentTo /\ sess[s].todo # <<>>
            /\ sess[s].todo[1].op \in {"invalidate", "remove_mets", "reload", "delete"}
CopiesInStep(s) ==
  Loaded(s) /\ Editing(s) =>
    /\ InBatch(sess[s].batch) \subseteq DOMAIN sess[s].copies
    /\ \A i \in DOMAIN sess[s].copies : CopyInStep(s, i)

StepInStep(s, x) ==
  /\ x.op # "redo" /\ Editing(s) => ~Redone(DOMAIN sess[s].copies)
  /\ x.op = "invalidate" =>
       /\ sess[s].row.status = "failed_qc"
       /\ \A i \in DOMAIN x.rows : /\ i \in DOMAIN sess[s].copies /\ x.rows[i] = issues[i]
                                   /\ issues[i].batch = sess[s].batch
  /\ x.op = "redo" =>
       /\ sess[s].row.status = "failed_qc"
       /\ \A i \in DOMAIN x.rows : /\ i \in DOMAIN sess[s].copies
                                   /\ x.rows[i].ws = "ReadyForBatching"
                                   /\ issues[i].batch = sess[s].batch
  /\ x.op = "remove_mets" => \A i \in DOMAIN x.rows : issues[i].ws \in SentTo
StepsInStep(s) == \A n \in 1..Len(sess[s].todo) : StepInStep(s, sess[s].todo[n])

PurgeInStep ==
  purge.pc \in {"removing", "removed"} =>
    \A i \in DOMAIN purge.list : /\ issues[i] = purge.list[i] /\ issues[i].ignored
                                 /\ batches[issues[i].batch].status = "live_done"

(* The directories hold what was reviewed, as far as they are made.        *)
Holds(b) ==
  /\ b \in Shown /\ dirs[b].final # NoDir =>
       dirs[b].final = Reviewed(b) /\ listed[b] = InBatch(b)
  /\ \A p \in BuildingOf(b) : /\ dirs[b].wip # NoDir => dirs[b].wip = Reviewed(b)
                              /\ dirs[b].final # NoDir => dirs[b].final = Reviewed(b)
                              /\ p.at >= 4 => listed[b] = InBatch(b)

IssuesAgree ==
  /\ \A i \in Issues : IssueInStep(i)
  /\ RedosInStep
  /\ \A s \in Sessions : CopiesInStep(s) /\ StepsInStep(s)
  /\ PurgeInStep
  /\ \A b \in BatchIds : Holds(b)

(* What is left alone still agrees.                                        *)
Onward(b) ==
  /\ batches'[b].status = "deleted" => batches[b].status = "deleted"
  /\ batches[b].status \in Out => batches'[b].status \in Out
  /\ batches[b].status = "live_done" => batches'[b].status = "live_done"

LEMMA IssueKept ==
  ASSUME NEW i, IssueInStep(i), issues'[i] = issues[i],
         ~files'[i] => ~files[i], BatchIds \subseteq BatchIds',
         issues[i].batch # 0 \/ issues[i].ws = "ReadyForBatching" =>
           (mets[i] = edits[i] => mets'[i] = edits'[i]),
         issues[i].batch # 0 => Onward(issues[i].batch),
         (\E p \in pipes : p.kind = "redo" /\ p.about = i /\ p.at \in 2..4)
           /\ issues[i].ws = "AwaitingProcessing" =>
           \E p \in pipes' : p.kind = "redo" /\ p.about = i /\ p.at \in 2..4
  PROVE  IssueInStep(i)'
<1> DEFINE r == issues[i]
<1>1. r.batch \in {0} \cup BatchIds' /\ (r.ws \in SentTo => r.batch = 0)
  BY DEF IssueInStep
<1>2. r.ws = "AwaitingProcessing" =>
        /\ r.batch # 0
        /\ \E p \in pipes' : p.kind = "redo" /\ p.about = i /\ p.at \in 2..4
  BY DEF IssueInStep
<1>3. /\ r.ignored <=> r.ws = "InProduction"
      /\ r.ws = "InProduction" => r.batch # 0 /\ batches'[r.batch].status \in Out
      /\ r.batch # 0 => batches'[r.batch].status # "deleted"
  BY DEF IssueInStep, Onward
<1>4. /\ r.batch # 0 \/ r.ws = "ReadyForBatching" => mets'[i] = edits'[i]
      /\ ~files'[i] => r.ignored /\ batches'[r.batch].status = "live_done"
  BY DEF IssueInStep, Onward
<1> QED
  BY <1>1, <1>2, <1>3, <1>4 DEF IssueInStep

LEMMA RedosKept ==
  ASSUME RedosInStep,
         \A p \in pipes' : p.kind = "redo" =>
           \E o \in pipes : o.kind = "redo" /\ o.about = p.about /\ o.restore = p.restore,
         \A p \in pipes : p.kind = "redo" /\ InFailed(p.about) =>
           /\ issues'[p.about].batch = issues[p.about].batch
           /\ batches'[issues[p.about].batch].status = "failed_qc"
  PROVE  RedosInStep'
BY DEF RedosInStep, InFailed

LEMMA PurgeKept ==
  ASSUME PurgeInStep, purge' = purge,
         \A i \in DOMAIN purge.list :
           issues[i].ignored /\ batches[issues[i].batch].status = "live_done" =>
             issues'[i] = issues[i] /\ batches'[issues[i].batch].status = "live_done"
  PROVE  PurgeInStep'
BY DEF PurgeInStep

LEMMA HoldsKept ==
  ASSUME NEW b, Holds(b), InBatch(b)' = InBatch(b), \A i \in InBatch(b) : edits'[i] = edits[i],
         dirs'[b] = dirs[b], listed'[b] = listed[b], BuildingOf(b)' = BuildingOf(b),
         b \in Shown' => b \in Shown
  PROVE  Holds(b)'
<1>1. Reviewed(b)' = Reviewed(b)
  BY DEF Reviewed
<1> QED
  BY <1>1 DEF Holds

(* A session's row of an issue, if it edits the batch                      *)
LEMMA CopyIs ==
  ASSUME Typed, IssuesAgree, NEW s \in Sessions, Loaded(s), Editing(s),
         NEW i \in DOMAIN sess[s].copies
  PROVE  LET c == sess[s].copies[i]
         IN  /\ i \in Issues /\ c \in IssueRow /\ CopyInStep(s, i) /\ IssueInStep(i)
             /\ \/ /\ c.batch = sess[s].batch /\ issues[i].batch = sess[s].batch
                   /\ c.ws = "ReadyForBatching"
                   /\ \/ issues[i] = c
                      \/ issues[i].ws = "AwaitingProcessing" /\ Redone({i})
                \/ /\ c.batch = 0 /\ c.ws \in SentTo /\ issues[i] = c
                   /\ sess[s].todo # <<>>
                   /\ sess[s].todo[1].op \in {"invalidate", "remove_mets", "reload", "delete"}
<1> DEFINE c == sess[s].copies[i]
<1>1. i \in Issues /\ c \in IssueRow
  BY RowsOf DEF Typed, SessionsTyped, SessionSet
<1>2. CopyInStep(s, i) /\ IssueInStep(i)
  BY <1>1 DEF IssuesAgree, CopiesInStep
<1>3. /\ [c EXCEPT !.ws = "AwaitingProcessing"].ws = "AwaitingProcessing"
      /\ [c EXCEPT !.ws = "AwaitingProcessing"].batch = c.batch
  BY <1>1, IssueWith DEF Steps
<1>4. issues[i].batch = c.batch /\ (issues[i] = c \/ issues[i].ws = "AwaitingProcessing")
  BY <1>2, <1>3 DEF CopyInStep
<1>5. issues[i].ws = "AwaitingProcessing" => Redone({i}) /\ issues[i].batch # 0
  BY <1>2 DEF IssueInStep, Redone
<1> HIDE DEF c
<1>6. \/ c.batch = sess[s].batch /\ c.ws = "ReadyForBatching"
      \/ /\ c.batch = 0 /\ c.ws \in SentTo /\ sess[s].todo # <<>>
         /\ sess[s].todo[1].op \in {"invalidate", "remove_mets", "reload", "delete"}
  BY <1>2 DEF CopyInStep, c
<1>8. CASE c.batch = sess[s].batch /\ c.ws = "ReadyForBatching"
  BY <1>1, <1>2, <1>4, <1>5, <1>8 DEF c
<1>9. CASE ~(c.batch = sess[s].batch /\ c.ws = "ReadyForBatching")
  <2>1. issues[i] = c
    BY <1>4, <1>5, <1>6, <1>9
  <2> QED
    BY <1>1, <1>2, <1>6, <1>9, <2>1 DEF c
<1> QED
  BY <1>8, <1>9

LEMMA CopyFits ==
  ASSUME Typed, IssuesAgree, NEW s \in Sessions, Loaded(s), Editing(s),
         NEW i \in DOMAIN sess[s].copies
  PROVE  /\ i \in Issues
         /\ \/ issues[i].batch = sess[s].batch
            \/ issues[i].batch = 0 /\ issues[i].ws \in SentTo /\ sess[s].todo # <<>>
         /\ \/ issues[i] = sess[s].copies[i]
            \/ issues[i].ws = "AwaitingProcessing" /\ Redone({i})
         /\ sess[s].copies[i].batch # 0 => sess[s].copies[i].ws = "ReadyForBatching"
<1> DEFINE c == sess[s].copies[i]
<1>1. /\ i \in Issues
      /\ \/ /\ c.batch = sess[s].batch /\ issues[i].batch = sess[s].batch
            /\ c.ws = "ReadyForBatching"
            /\ \/ issues[i] = c
               \/ issues[i].ws = "AwaitingProcessing" /\ Redone({i})
         \/ /\ c.batch = 0 /\ c.ws \in SentTo /\ issues[i] = c
            /\ sess[s].todo # <<>>
            /\ sess[s].todo[1].op \in {"invalidate", "remove_mets", "reload", "delete"}
  BY CopyIs, Zenon
<1> HIDE DEF c
<1>2. /\ \/ issues[i].batch = sess[s].batch
         \/ issues[i].batch = 0 /\ issues[i].ws \in SentTo /\ sess[s].todo # <<>>
      /\ \/ issues[i] = c
         \/ issues[i].ws = "AwaitingProcessing" /\ Redone({i})
      /\ c.batch # 0 => c.ws = "ReadyForBatching"
  BY <1>1
<1> QED
  BY <1>1, <1>2 DEF c

LEMMA SessionAgrees ==
  ASSUME Typed, IssuesAgree, NEW s \in Sessions, sess'[s] = sess[s],
         \A i \in Issues : Loaded(s) /\ issues[i].batch = sess[s].batch => issues'[i] = issues[i],
         \A i \in Issues : issues[i].ws \in SentTo /\ sess[s].todo # <<>> => issues'[i] = issues[i],
         \A i \in Issues : Loaded(s) /\ issues'[i].batch = sess[s].batch =>
                             issues[i].batch = sess[s].batch,
         \A p \in pipes' : p.kind = "redo" =>
           \/ \E o \in pipes : o.kind = "redo" /\ o.about = p.about
           \/ issues[p.about].batch \notin {0, sess[s].batch}
  PROVE  CopiesInStep(s)' /\ StepsInStep(s)'
<1>1. CopiesInStep(s) /\ StepsInStep(s) /\ (~Loaded(s) => sess[s].todo = <<>>)
      /\ DOMAIN sess[s].copies \subseteq Issues
  BY RowsOf DEF IssuesAgree, Typed, SessionsTyped, SessionSet
<1>2. ASSUME Loaded(s), Editing(s), NEW i \in DOMAIN sess[s].copies
      PROVE  issues'[i] = issues[i] /\ issues[i].batch \in {0, sess[s].batch}
  <2>1. /\ i \in Issues
        /\ \/ issues[i].batch = sess[s].batch
           \/ issues[i].batch = 0 /\ issues[i].ws \in SentTo /\ sess[s].todo # <<>>
    BY <1>2, CopyFits, Zenon
  <2>2. issues'[i] = issues[i]
    BY <1>2, <2>1
  <2> QED
    BY <2>1, <2>2
<1>3. CopiesInStep(s)'
  <2> SUFFICES ASSUME Loaded(s), Editing(s)
               PROVE  /\ InBatch(sess[s].batch)' \subseteq DOMAIN sess[s].copies
                      /\ \A i \in DOMAIN sess[s].copies : CopyInStep(s, i)'
    BY DEF CopiesInStep, Loaded, Editing
  <2>1. InBatch(sess[s].batch)' \subseteq InBatch(sess[s].batch)
    BY DEF InBatch
  <2>2. \A i \in DOMAIN sess[s].copies : CopyInStep(s, i)'
    BY <1>1, <1>2 DEF CopiesInStep, CopyInStep
  <2> QED
    BY <1>1, <2>1, <2>2 DEF CopiesInStep
<1>4. Editing(s) /\ Loaded(s) /\ ~Redone(DOMAIN sess[s].copies) => ~Redone(DOMAIN sess[s].copies)'
  BY <1>2 DEF Redone
<1>5. StepsInStep(s)'
  <2> SUFFICES ASSUME NEW n \in 1..Len(sess[s].todo) PROVE StepInStep(s, sess[s].todo[n])'
    BY DEF StepsInStep
  <2> DEFINE x == sess[s].todo[n]
  <2>1. sess[s].todo # <<>> /\ Loaded(s) /\ x \in StepSet /\ StepInStep(s, x)
    <3>1. sess[s].todo # <<>>
      BY EmptySeq
    <3> QED
      BY <1>1, <3>1, FirstStep, ElementOfSeq DEF StepsInStep
  <2>2. DOMAIN x.rows \subseteq Issues
    BY <2>1, RowsOf DEF StepSet
  <2>3. x.op # "redo" /\ Editing(s) => ~Redone(DOMAIN sess[s].copies)'
    BY <1>4, <2>1 DEF StepInStep
  <2>4. x.op = "invalidate" =>
          \A i \in DOMAIN x.rows : /\ i \in DOMAIN sess[s].copies /\ x.rows[i] = issues'[i]
                                   /\ issues'[i].batch = sess[s].batch
    BY <2>1, <2>2 DEF StepInStep
  <2>5. x.op = "redo" =>
          \A i \in DOMAIN x.rows : /\ i \in DOMAIN sess[s].copies
                                   /\ x.rows[i].ws = "ReadyForBatching"
                                   /\ issues'[i].batch = sess[s].batch
    BY <2>1, <2>2 DEF StepInStep
  <2>6. x.op = "remove_mets" => \A i \in DOMAIN x.rows : issues'[i].ws \in SentTo
    BY <2>1, <2>2 DEF StepInStep
  <2> QED
    BY <2>1, <2>3, <2>4, <2>5, <2>6 DEF StepInStep, Editing
<1> QED
  BY <1>3, <1>5

LEMMA SessionsUntouched ==
  ASSUME Typed, IssuesAgree, UNCHANGED <<issues, sess>>,
         \A p \in pipes' : p.kind = "redo" => \E o \in pipes : o.kind = "redo" /\ o.about = p.about
  PROVE  \A s \in Sessions : CopiesInStep(s)' /\ StepsInStep(s)'
BY SessionAgrees

(* Batches' rows are rewritten, directories go, or pipelines are queued for
   batches, and the issues' rows stay as they are.                          *)
LEMMA RowsUntouched ==
  ASSUME Typed, IssuesAgree, UNCHANGED <<issues, edits, mets, sess>>, BatchIds' = BatchIds,
         \A i \in Issues : ~files'[i] => ~files[i],
         \A p : p.kind = "redo" => (p \in pipes' <=> p \in pipes),
         \A b \in BatchIds : /\ Onward(b)
                             /\ batches[b].status = "failed_qc" => batches'[b].status = "failed_qc"
  PROVE  /\ \A i \in Issues : IssueInStep(i)'
         /\ RedosInStep' /\ (purge' = purge => PurgeInStep')
         /\ \A s \in Sessions : CopiesInStep(s)' /\ StepsInStep(s)'
         /\ \A b : InBatch(b)' = InBatch(b) /\ Reviewed(b)' = Reviewed(b)
<1>1. ASSUME NEW i \in Issues PROVE IssueInStep(i)'
  <2>1. IssueInStep(i) /\ issues[i].batch \in {0} \cup BatchIds
    BY DEF IssuesAgree, IssueInStep
  <2> QED
    BY <2>1, IssueKept
<1>2. RedosInStep'
  <2>1. \A p \in pipes : p.kind = "redo" => p.about \in Issues
    BY DEF Typed, PipesTyped
  <2>2. \A i \in Issues : issues[i].batch \in {0} \cup BatchIds
    BY DEF IssuesAgree, IssueInStep
  <2> QED
    BY <2>1, <2>2, RedosKept DEF IssuesAgree, InFailed
<1>3. purge' = purge => PurgeInStep'
  <2>1. ASSUME NEW i \in Issues, issues[i].ignored,
               batches[issues[i].batch].status = "live_done"
        PROVE  batches'[issues[i].batch].status = "live_done"
    <3>1. issues[i].batch \in BatchIds
      BY <2>1 DEF IssuesAgree, IssueInStep
    <3> QED
      BY <2>1, <3>1 DEF Onward
  <2>2. DOMAIN purge.list \subseteq Issues
    BY RowsOf DEF Typed, PurgeTyped, PurgeSet
  <2> QED
    BY <2>1, <2>2, PurgeKept DEF IssuesAgree
<1>4. \A s \in Sessions : CopiesInStep(s)' /\ StepsInStep(s)'
  BY SessionsUntouched
<1>5. \A b : InBatch(b)' = InBatch(b)
  BY DEF InBatch
<1>6. \A b : Reviewed(b)' = Reviewed(b)
  BY <1>5 DEF Reviewed
<1> QED
  BY <1>1, <1>2, <1>3, <1>4, <1>5, <1>6

(* What a job of a batch's pipeline does to its directories and its XML    *)
LEMMA JobDirs ==
  ASSUME Typed, NEW p \in pipes, p.kind = "make", RunJob(p)
  PROVE  LET b == p.about IN
    /\ b \in BatchIds /\ p.at \in 1..7
    /\ \A o \in BatchIds : o # b => dirs'[o] = dirs[o] /\ listed'[o] = listed[o]
    /\ p.at = 1 => dirs'[b].wip = Linked(b) /\ dirs'[b].final = dirs[b].final
    /\ p.at = 4 => dirs'[b].wip = NoDir /\ dirs'[b].final = dirs[b].wip
    /\ p.at \notin {1, 4} => dirs'[b] = dirs[b]
    /\ listed'[b] = IF p.at = 3 THEN IssuesOf(b) ELSE listed[b]
    /\ UNCHANGED <<issueVars, purge, deaths>>
<1> DEFINE b == p.about
<1>1. b \in BatchIds /\ p.at \in 1..7
  BY MakeStep
<1>2. listed' = IF p.at = 3 THEN [listed EXCEPT ![b] = IssuesOf(b)] ELSE listed
  BY MakeStep, Zenon
<1>3. UNCHANGED <<issueVars, purge, deaths>>
  BY MakeStep
<1>4. /\ dirs[b] \in PlaceSet /\ b \in 1..Len(dirs) /\ b \in 1..Len(listed)
      /\ BatchIds = 1..Len(dirs) /\ BatchIds = 1..Len(listed)
      /\ dirs \in Seq(PlaceSet) /\ listed \in Seq(SUBSET Issues)
  BY <1>1 DEF Typed, BatchesTyped, BatchIds
<1>5. ASSUME NEW d \in PlaceSet, dirs' = [dirs EXCEPT ![b] = d]
      PROVE  dirs'[b] = d /\ \A o \in BatchIds : o # b => dirs'[o] = dirs[o]
  BY <1>4, <1>5, ExceptSeq
<1>6. /\ p.at = 1 => dirs'[b].wip = Linked(b) /\ dirs'[b].final = dirs[b].final
      /\ p.at = 1 => \A o \in BatchIds : o # b => dirs'[o] = dirs[o]
  <2> SUFFICES ASSUME p.at = 1
               PROVE  /\ dirs'[b].wip = Linked(b) /\ dirs'[b].final = dirs[b].final
                      /\ \A o \in BatchIds : o # b => dirs'[o] = dirs[o]
    OBVIOUS
  <2> DEFINE d == [dirs[b] EXCEPT !.wip = Linked(b)]
  <2>1. d \in PlaceSet /\ d.wip = Linked(b) /\ d.final = dirs[b].final
    BY <1>1, <1>4, LinkedTyped DEF PlaceSet
  <2>2. dirs' = [dirs EXCEPT ![b] = d]
    BY JobEffect
  <2> HIDE DEF d
  <2> QED
    BY <1>5, <2>1, <2>2
<1>7. /\ p.at = 4 => dirs'[b].wip = NoDir /\ dirs'[b].final = dirs[b].wip
      /\ p.at = 4 => \A o \in BatchIds : o # b => dirs'[o] = dirs[o]
  <2> SUFFICES ASSUME p.at = 4
               PROVE  /\ dirs'[b].wip = NoDir /\ dirs'[b].final = dirs[b].wip
                      /\ \A o \in BatchIds : o # b => dirs'[o] = dirs[o]
    OBVIOUS
  <2> DEFINE d == [wip |-> NoDir, final |-> dirs[b].wip]
  <2>1. d \in PlaceSet /\ d.wip = NoDir /\ d.final = dirs[b].wip
    BY <1>4 DEF PlaceSet, NoDir, Found
  <2>2. dirs' = [dirs EXCEPT ![b] = d]
    BY JobEffect
  <2> HIDE DEF d
  <2> QED
    BY <1>5, <2>1, <2>2
<1>8. p.at \notin {1, 4} => dirs' = dirs
  <2>1. p.at \notin {1, 4} => p.at \in {2, 3, 5, 6, 7}
    BY <1>1
  <2> QED
    BY <2>1, JobEffect
<1>9. /\ listed'[b] = IF p.at = 3 THEN IssuesOf(b) ELSE listed[b]
      /\ \A o \in BatchIds : o # b => listed'[o] = listed[o]
  BY <1>2, <1>4
<1> QED
  BY <1>1, <1>3, <1>6, <1>7, <1>8, <1>9

(* The issues of a batch that is not out yet are all to be linked, with METS
   files that say what was reviewed.                                        *)
LEMMA LinksReviewed ==
  ASSUME IssuesAgree, NEW b \in BatchIds, batches[b].status \notin Out, 0 \notin BatchIds
  PROVE  IssuesOf(b) = InBatch(b) /\ Linked(b) = Reviewed(b)
<1>1. \A i \in InBatch(b) : i \in Issues /\ ~issues[i].ignored /\ mets[i] = edits[i]
  BY DEF IssuesAgree, IssueInStep, InBatch
<1>2. IssuesOf(b) = InBatch(b)
  BY <1>1 DEF IssuesOf
<1> QED
  BY <1>1, <1>2 DEF Linked, Reviewed

LEMMA BatchesAreNumbered == Typed => BatchIds \subseteq Nat \ {0}
BY DEF BatchIds

LEMMA MakeAgrees ==
  ASSUME Typed, InStep, IssuesAgree, NEW p \in pipes, p.kind = "make", RunJob(p)
  PROVE  IssuesAgree'
<1> DEFINE b == p.about
           next == [p EXCEPT !.at = p.at + 1]
<1>1. /\ b \in BatchIds /\ p.at \in 1..7 /\ UNCHANGED <<issueVars, purge, deaths, sess>>
      /\ \A o \in BatchIds : o # b => dirs'[o] = dirs[o] /\ listed'[o] = listed[o]
  BY JobDirs, JobEffect
<1>2. BatchInStep(b) /\ Holds(b)
  BY <1>1 DEF InStep, IssuesAgree
<1>3. next.kind = "make" /\ next.about = b /\ next.at = p.at + 1
  BY PipeMoved DEF Typed, PipesTyped
<1>4. pipes' = IF p.at = 7 THEN pipes \ {p} ELSE (pipes \ {p}) \cup {next}
  BY JobEffect
<1> HIDE DEF next
<1>5. \A o : o.kind = "redo" => (o \in pipes' <=> o \in pipes)
  BY <1>3, <1>4
<1>6. CASE p.at = 7
  <2>1. batches' = batches /\ dirs' = dirs /\ listed'[b] = listed[b]
    <3>1. batches' = batches /\ dirs' = dirs
      BY <1>6, JobEffect
    <3>2. p.at # 3
      BY <1>6
    <3> QED
      BY <3>1, <3>2, JobDirs
  <2>2. \A o : BuildingOf(o)' = BuildingOf(o)
    BY <1>4, <1>6 DEF BuildingOf
  <2>3. /\ BatchIds' = BatchIds /\ \A o \in BatchIds : Onward(o)
    BY <2>1 DEF BatchIds, Onward
  <2>4. /\ \A i \in Issues : IssueInStep(i)'
        /\ RedosInStep' /\ PurgeInStep'
        /\ \A s \in Sessions : CopiesInStep(s)' /\ StepsInStep(s)'
        /\ \A o : InBatch(o)' = InBatch(o) /\ Reviewed(o)' = Reviewed(o)
    BY <1>1, <1>5, <2>1, <2>3, RowsUntouched DEF issueVars
  <2>5. \A o \in BatchIds : Holds(o)'
    <3>1. ASSUME NEW o \in BatchIds PROVE Holds(o)'
      <4>1. Holds(o) /\ dirs'[o] = dirs[o] /\ listed'[o] = listed[o] /\ (o \in Shown' => o \in Shown)
        BY <1>1, <2>1, <2>3 DEF IssuesAgree, Shown
      <4> QED
        BY <1>1, <2>2, <2>4, <4>1, HoldsKept DEF issueVars
    <3> QED
      BY <3>1
  <2> QED
    BY <2>3, <2>4, <2>5 DEF IssuesAgree
<1>7. CASE p.at # 7
  <2>1. p.at \in 1..6
    BY <1>1, <1>7
  <2>2. /\ BuildingOf(b) = {p} /\ Stage(b, p.at)
        /\ BuildingOf(b)' = IF p.at = 6 THEN {} ELSE {next}
        /\ \A o : o # b => BuildingOf(o)' = BuildingOf(o)
    BY <1>2, <2>1, JobNext DEF next
  <2>3. /\ \A o \in BatchIds : o # b => batches'[o] = batches[o] /\ dirs'[o] = dirs[o]
        /\ BatchIds' = BatchIds
        /\ p.at < 6 => Stage(b, p.at + 1)'
        /\ p.at = 6 => batches'[b].status = "qc_ready" /\ dirs'[b].wip = NoDir
    BY <1>2, <2>1, JobMovesStage
  <2>4. batches[b].status = "pending" /\ batches'[b].status \in {"pending", "qc_ready"}
    BY <2>1, <2>2, <2>3 DEF Stage
  <2>5. \A o \in BatchIds : /\ Onward(o)
                            /\ batches[o].status = "failed_qc" => batches'[o].status = "failed_qc"
    BY <2>3, <2>4 DEF Onward, Out
  <2>6. /\ \A i \in Issues : IssueInStep(i)'
        /\ RedosInStep' /\ PurgeInStep'
        /\ \A s \in Sessions : CopiesInStep(s)' /\ StepsInStep(s)'
        /\ \A o : InBatch(o)' = InBatch(o) /\ Reviewed(o)' = Reviewed(o)
    BY <1>1, <1>5, <2>3, <2>5, RowsUntouched DEF issueVars
  <2>7. IssuesOf(b) = InBatch(b) /\ Linked(b) = Reviewed(b)
    BY <1>1, <2>4, LinksReviewed, BatchesAreNumbered DEF Out
  <2>8. /\ dirs[b].wip # NoDir => dirs[b].wip = Reviewed(b)
        /\ dirs[b].final # NoDir => dirs[b].final = Reviewed(b)
        /\ p.at >= 4 => listed[b] = InBatch(b)
    BY <1>2, <2>2 DEF Holds
  <2>9. /\ dirs'[b].wip # NoDir => dirs'[b].wip = Reviewed(b)
        /\ dirs'[b].final # NoDir => dirs'[b].final = Reviewed(b)
    <3>1. CASE p.at = 1
      BY <2>7, <2>8, <3>1, JobDirs
    <3>2. CASE p.at = 4
      BY <2>8, <3>2, JobDirs
    <3>3. CASE p.at \notin {1, 4}
      <4>1. dirs'[b] = dirs[b]
        BY <3>3, JobDirs
      <4> QED
        BY <2>8, <4>1
    <3> QED
      BY <3>1, <3>2, <3>3
  <2>10. p.at + 1 >= 4 => listed'[b] = InBatch(b)
    <3>1. listed'[b] = IF p.at = 3 THEN IssuesOf(b) ELSE listed[b]
      BY JobDirs
    <3> QED
      BY <2>1, <2>7, <2>8, <3>1
  <2>11. Holds(b)'
    <3>1. CASE p.at = 6
      BY <2>2, <2>6, <2>9, <2>10, <3>1 DEF Holds
    <3>2. CASE p.at # 6
      <4>1. b \notin Shown'
        <5>1. p.at < 6
          BY <2>1, <3>2
        <5> QED
          BY <2>3, <5>1 DEF Stage, Shown
      <4> QED
        BY <1>3, <2>1, <2>2, <2>6, <2>9, <2>10, <3>2, <4>1 DEF Holds
    <3> QED
      BY <3>1, <3>2
  <2>12. ASSUME NEW o \in BatchIds, o # b PROVE Holds(o)'
    <3>1. /\ Holds(o) /\ dirs'[o] = dirs[o] /\ listed'[o] = listed[o]
          /\ o \in Shown' => o \in Shown
      BY <1>1, <2>3, <2>12 DEF IssuesAgree, Shown
    <3> QED
      BY <1>1, <2>2, <2>6, <2>12, <3>1, HoldsKept DEF issueVars
  <2> QED
    BY <2>3, <2>6, <2>11, <2>12 DEF IssuesAgree
<1> QED
  BY <1>6, <1>7

LEMMA QueueBatchesAgrees ==
  ASSUME Typed, InStep, IssuesAgree, QueueBatches
  PROVE  IssuesAgree'
<1> DEFINE new == Pipe("make", Len(batches) + 1, "none")
           row == [status |-> "pending", location |-> "none", archived |-> "no"]
<1>1. Len(batches) \in Nat /\ batches \in Seq(BatchRow) /\ dirs \in Seq(PlaceSet)
      /\ listed \in Seq(SUBSET Issues) /\ Len(dirs) = Len(batches) /\ Len(listed) = Len(batches)
  BY LenProperties DEF Typed, BatchesTyped
<1>2. PICK nb \in Nat : nb = Len(batches) + 1
  BY <1>1
<1>3. /\ pipes' = pipes \cup {new} /\ UNCHANGED <<edits, files, mets, sess, purge>>
      /\ batches' = Append(batches, row) /\ dirs' = Append(dirs, NoBatchDirs)
      /\ listed' = Append(listed, {})
  BY DEF QueueBatches
<1>4. PICK S \in SUBSET Issues :
        /\ \A i \in S : issues[i].ws = "ReadyForBatching" /\ issues[i].batch = 0 /\ ~issues[i].ignored
        /\ issues' = [i \in Issues |-> IF i \in S
                       THEN [issues[i] EXCEPT !.batch = Len(batches) + 1] ELSE issues[i]]
  BY DEF QueueBatches
<1>5. new.kind = "make" /\ new.about = nb /\ new.at = 1
  BY <1>2 DEF Pipe
<1>6. /\ \A b \in BatchIds : /\ batches'[b] = batches[b] /\ dirs'[b] = dirs[b]
                             /\ listed'[b] = listed[b]
      /\ batches'[nb] = row /\ dirs'[nb] = NoBatchDirs
      /\ BatchIds' = BatchIds \cup {nb} /\ nb \notin BatchIds /\ nb # 0 /\ 0 \notin BatchIds
  BY <1>1, <1>2, <1>3 DEF BatchIds
<1> HIDE DEF new
<1>7. /\ \A b \in BatchIds : BuildingOf(b)' = BuildingOf(b)
      /\ \A p \in pipes' : p.kind = "redo" => p \in pipes
      /\ BuildingOf(nb)' = {new}
  <2>1. \A p \in pipes : p.kind = "make" => p.about # nb
    BY <1>6 DEF Typed, PipesTyped
  <2> QED
    BY <1>3, <1>5, <1>6, <2>1 DEF BuildingOf
<1>8. ASSUME NEW i \in S
      PROVE  /\ issues'[i].batch = nb /\ issues'[i].ws = issues[i].ws
             /\ issues'[i].ignored = issues[i].ignored
  <2>1. issues[i] \in IssueRow /\ issues'[i] = [issues[i] EXCEPT !.batch = nb]
    BY <1>2, <1>4 DEF Typed, IssuesTyped
  <2> QED
    BY <2>1 DEF IssueRow
<1>9. \A i \in Issues \ S : issues'[i] = issues[i]
  BY <1>4
<1>10. ASSUME NEW i \in Issues PROVE IssueInStep(i)'
  <2>1. IssueInStep(i)
    BY DEF IssuesAgree
  <2>2. CASE i \in S
    <3>1. mets[i] = edits[i] /\ files[i]
      BY <1>4, <2>1, <2>2 DEF IssueInStep, Typed, IssuesTyped
    <3>2. row.status = "pending"
      OBVIOUS
    <3> HIDE DEF row
    <3>3. /\ issues'[i].batch = nb /\ issues'[i].ws = "ReadyForBatching" /\ ~issues'[i].ignored
          /\ mets'[i] = edits'[i] /\ files'[i]
      BY <1>3, <1>4, <1>8, <2>2, <3>1
    <3>4. nb \in BatchIds' /\ batches'[nb].status = "pending"
      BY <1>6, <3>2
    <3> QED
      BY <3>3, <3>4 DEF IssueInStep, SentTo
  <2>3. CASE i \notin S
    <3>1. issues'[i] = issues[i] /\ issues[i].batch \in {0} \cup BatchIds
      BY <1>9, <2>1, <2>3 DEF IssueInStep
    <3>2. issues[i].batch # 0 => Onward(issues[i].batch)
      BY <1>6, <3>1 DEF Onward
    <3> QED
      BY <1>3, <1>6, <2>1, <3>1, <3>2, IssueKept
  <2> QED
    BY <2>2, <2>3
<1>11. RedosInStep'
  <2>1. ASSUME NEW p \in pipes, p.kind = "redo"
        PROVE  /\ issues'[p.about].batch = issues[p.about].batch
               /\ InFailed(p.about) => batches'[issues[p.about].batch].status = "failed_qc"
    <3>1. p.about \in Issues /\ InFailed(p.about) /\ IssueInStep(p.about)
      BY <2>1 DEF Typed, PipesTyped, IssuesAgree, RedosInStep
    <3>2. p.about \notin S /\ issues[p.about].batch \in BatchIds
      BY <1>4, <3>1 DEF InFailed, IssueInStep
    <3> QED
      BY <1>6, <1>9, <3>1, <3>2 DEF InFailed
  <2> QED
    BY <1>7, <2>1, RedosKept DEF IssuesAgree
<1>12. ASSUME NEW s \in Sessions PROVE CopiesInStep(s)' /\ StepsInStep(s)'
  <2>1. Loaded(s) => sess[s].batch \in BatchIds
    BY DEF Typed, SessionsTyped, Loaded, BatchIds
  <2>2. \A i \in Issues : Loaded(s) /\ issues[i].batch = sess[s].batch => issues'[i] = issues[i]
    BY <1>4, <1>9 DEF Loaded
  <2>3. \A i \in Issues : issues[i].ws \in SentTo => issues'[i] = issues[i]
    BY <1>4, <1>9 DEF SentTo
  <2>4. \A i \in Issues : Loaded(s) /\ issues'[i].batch = sess[s].batch =>
                             issues[i].batch = sess[s].batch
    BY <1>6, <1>8, <1>9, <2>1
  <2> QED
    BY <1>3, <1>7, <2>2, <2>3, <2>4, SessionAgrees
<1>13. PurgeInStep'
  <2>1. DOMAIN purge.list \subseteq Issues
    BY RowsOf DEF Typed, PurgeTyped, PurgeSet
  <2>2. ASSUME NEW i \in Issues, issues[i].ignored PROVE issues'[i] = issues[i] /\ batches'[issues[i].batch] = batches[issues[i].batch]
    <3>1. i \notin S /\ issues[i].batch \in BatchIds
      BY <1>4, <2>2 DEF IssuesAgree, IssueInStep
    <3> QED
      BY <1>6, <1>9, <3>1
  <2> QED
    BY <1>3, <2>1, <2>2, PurgeKept DEF IssuesAgree
<1>14. ASSUME NEW b \in BatchIds PROVE Holds(b)'
  <2>1. InBatch(b)' = InBatch(b)
    BY <1>4, <1>6, <1>8, <1>9 DEF InBatch
  <2>2. b \in Shown' => b \in Shown
    BY <1>6 DEF Shown
  <2> QED
    BY <1>3, <1>6, <1>7, <2>1, <2>2, HoldsKept DEF IssuesAgree
<1>15. Holds(nb)'
  <2>1. dirs'[nb].wip = NoDir /\ dirs'[nb].final = NoDir
    BY <1>6 DEF NoBatchDirs
  <2> QED
    BY <1>5, <1>7, <2>1 DEF Holds
<1> QED
  BY <1>6, <1>10, <1>11, <1>12, <1>13, <1>14, <1>15 DEF IssuesAgree

(* Only issues that were sent back are finalized again, and they are in no
   batch; sessions wait.                                                    *)
LEMMA FinalizeAgrees ==
  ASSUME Undisturbed, Typed, InStep, IssuesAgree, NEW j \in Issues, Finalize(j)
  PROVE  IssuesAgree'
<1>1. /\ issues[j].ws = "ReadyForMetadataEntry" /\ \A s \in Sessions : sess[s].todo = <<>>
      /\ edits' = [edits EXCEPT ![j] = edits[j] + 1] /\ mets' = [mets EXCEPT ![j] = edits[j] + 1]
      /\ issues' = [issues EXCEPT ![j].ws = "ReadyForBatching"]
      /\ UNCHANGED <<files, batchVars, pipes, queued, sess, purge, deaths>>
  BY DEF Finalize
<1>2. /\ issues[j] \in IssueRow /\ IssueInStep(j)
      /\ issues \in [Issues -> IssueRow] /\ edits \in [Issues -> Nat] /\ mets \in [Issues -> Nat]
  BY DEF Typed, IssuesTyped, IssuesAgree
<1>3. /\ issues'[j].batch = issues[j].batch /\ issues'[j].ws = "ReadyForBatching"
      /\ issues'[j].ignored = issues[j].ignored
      /\ issues[j].batch = 0 /\ ~issues[j].ignored
  <2>1. issues'[j] = [issues[j] EXCEPT !.ws = "ReadyForBatching"]
    BY <1>1, <1>2
  <2>2. issues[j].batch = 0 /\ ~issues[j].ignored
    BY <1>1, <1>2 DEF IssueInStep, SentTo
  <2> QED
    BY <1>2, <2>1, <2>2, IssueWith DEF Steps
<1>4. /\ \A i \in Issues : i # j => issues'[i] = issues[i] /\ edits'[i] = edits[i] /\ mets'[i] = mets[i]
      /\ mets'[j] = edits'[j]
  BY <1>1, <1>2
<1>5. BatchIds' = BatchIds /\ 0 \notin BatchIds /\ batches' = batches
  BY <1>1 DEF BatchIds, batchVars
<1>6. ASSUME NEW i \in Issues PROVE IssueInStep(i)'
  <2>1. IssueInStep(i)
    BY DEF IssuesAgree
  <2>2. CASE i = j
    <3>1. files[j]
      BY <1>2, <1>3 DEF IssueInStep, Typed, IssuesTyped
    <3> QED
      BY <1>1, <1>3, <1>4, <2>2, <3>1 DEF IssueInStep, SentTo
  <2>3. CASE i # j
    BY <1>1, <1>4, <1>5, <2>1, <2>3, IssueKept DEF Onward
  <2> QED
    BY <2>2, <2>3
<1>7. RedosInStep'
  BY <1>1, <1>3, <1>4, <1>5, RedosKept DEF IssuesAgree, InFailed, Typed, PipesTyped
<1>8. ASSUME NEW s \in Sessions PROVE CopiesInStep(s)' /\ StepsInStep(s)'
  BY <1>1, <1>3, <1>4, SessionAgrees DEF Loaded
<1>9. PurgeInStep'
  <2>1. DOMAIN purge.list \subseteq Issues
    BY RowsOf DEF Typed, PurgeTyped, PurgeSet
  <2> QED
    BY <1>1, <1>3, <1>4, <1>5, <2>1, PurgeKept DEF IssuesAgree
<1>10. ASSUME NEW b \in BatchIds PROVE Holds(b)'
  <2>1. InBatch(b)' = InBatch(b) /\ \A i \in InBatch(b) : i # j /\ i \in Issues
    BY <1>3, <1>4, <1>5 DEF InBatch
  <2>2. BuildingOf(b)' = BuildingOf(b) /\ (b \in Shown' => b \in Shown)
    BY <1>1, <1>5 DEF BuildingOf, Shown
  <2> QED
    BY <1>1, <1>4, <2>1, <2>2, HoldsKept DEF IssuesAgree, batchVars
<1> QED
  BY <1>5, <1>6, <1>7, <1>8, <1>9, <1>10 DEF IssuesAgree

(* Rows of batches are rewritten by hand, by time, and by the purge.       *)
LEMMA HandAgrees ==
  ASSUME Typed, InStep, IssuesAgree, NEW b \in BatchIds, GoLive(b) \/ Archive(b) \/ FourWeeksPass(b)
  PROVE  IssuesAgree'
<1>1. UNCHANGED <<issueVars, listed, pipes, sess, purge>>
  BY DEF GoLive, Archive, FourWeeksPass
<1>2. /\ BatchIds' = BatchIds /\ \A o \in BatchIds : o # b => batches'[o] = batches[o]
      /\ \/ batches[b].status = "qc_ready" /\ batches'[b].status = "live"
         \/ batches'[b].status = batches[b].status
  BY GoLiveStep, ArchiveStep, FourWeeksStep DEF GoLive
<1>3. /\ \A o \in BatchIds : o # b => dirs'[o] = dirs[o]
      /\ dirs'[b] = dirs[b] \/ (dirs'[b].final = NoDir /\ batches[b].status = "live")
  <2>1. dirs \in Seq(PlaceSet) /\ BatchIds = 1..Len(dirs) /\ NoBatchDirs \in PlaceSet
        /\ NoBatchDirs.final = NoDir
    BY DEF Typed, BatchesTyped, BatchIds, NoBatchDirs, NoDir, PlaceSet, Found
  <2>2. CASE Archive(b)
    BY <2>1, <2>2, ExceptSeq DEF Archive
  <2>3. CASE ~Archive(b)
    BY <2>3 DEF GoLive, FourWeeksPass
  <2> QED
    BY <2>2, <2>3
<1>4. \A o \in BatchIds : /\ Onward(o)
                          /\ batches[o].status = "failed_qc" => batches'[o].status = "failed_qc"
  BY <1>2 DEF Onward, Out
<1>5. /\ \A i \in Issues : IssueInStep(i)'
      /\ RedosInStep' /\ PurgeInStep'
      /\ \A s \in Sessions : CopiesInStep(s)' /\ StepsInStep(s)'
      /\ \A o : InBatch(o)' = InBatch(o) /\ Reviewed(o)' = Reviewed(o)
  BY <1>1, <1>2, <1>4, RowsUntouched DEF issueVars
<1>6. \A o : BuildingOf(o)' = BuildingOf(o)
  BY <1>1 DEF BuildingOf
<1>7. ASSUME NEW o \in BatchIds PROVE Holds(o)'
  <2>1. Holds(o) /\ listed'[o] = listed[o] /\ (o \in Shown' => o \in Shown)
    BY <1>1, <1>2 DEF IssuesAgree, Shown
  <2>2. CASE dirs'[o] = dirs[o]
    BY <1>1, <1>5, <1>6, <2>1, <2>2, HoldsKept DEF issueVars
  <2>3. CASE dirs'[o] # dirs[o]
    <3>1. dirs'[o].final = NoDir /\ batches[o].status = "live"
      BY <1>3, <2>3
    <3>2. BuildingOf(o) = {}
      BY <3>1, NotBuiltOnceShown DEF InStep
    <3> QED
      BY <1>6, <3>1, <3>2 DEF Holds
  <2> QED
    BY <2>2, <2>3
<1> QED
  BY <1>2, <1>5, <1>7 DEF IssuesAgree

LEMMA ClosingAgrees ==
  ASSUME Typed, InStep, IssuesAgree, DryRun \/ \E b \in BatchIds : Close(b)
  PROVE  IssuesAgree'
<1>1. /\ BatchIds' = BatchIds /\ \A b \in BatchIds : batches'[b] \in {batches[b], Closed(b)}
      /\ UNCHANGED <<issueVars, dirs, listed, pipes, sess>>
  BY ClosingStep
<1>2. ASSUME NEW b \in BatchIds
      PROVE  \/ batches'[b].status = batches[b].status
             \/ batches[b].status = "live" /\ batches'[b].status = "live_done"
  BY <1>1, ClosedTyped DEF MayClose
<1>3. \A o \in BatchIds : /\ Onward(o)
                          /\ batches[o].status = "failed_qc" => batches'[o].status = "failed_qc"
  BY <1>2 DEF Onward, Out
<1>4. /\ \A i \in Issues : IssueInStep(i)'
      /\ RedosInStep' /\ (purge' = purge => PurgeInStep')
      /\ \A s \in Sessions : CopiesInStep(s)' /\ StepsInStep(s)'
      /\ \A o : InBatch(o)' = InBatch(o) /\ Reviewed(o)' = Reviewed(o)
  BY <1>1, <1>3, RowsUntouched DEF issueVars
<1>5. PurgeInStep'
  <2>1. CASE DryRun
    BY <1>4, <2>1 DEF DryRun
  <2>2. ASSUME NEW b \in BatchIds, Close(b) PROVE PurgeInStep'
    <3> DEFINE u == [purge EXCEPT !.close = purge.close \ {b}]
    <3>1. purge' = u /\ purge.pc = "closing"
      BY <2>2 DEF Close
    <3>2. u.pc = purge.pc
      BY DEF Typed, PurgeTyped, PurgeSet
    <3> HIDE DEF u
    <3> QED
      BY <3>1, <3>2 DEF PurgeInStep
  <2> QED
    BY <2>1, <2>2
<1>6. ASSUME NEW o \in BatchIds PROVE Holds(o)'
  <2>1. Holds(o) /\ (o \in Shown' => o \in Shown) /\ BuildingOf(o)' = BuildingOf(o)
    BY <1>1, <1>2 DEF IssuesAgree, Shown, BuildingOf
  <2> QED
    BY <1>1, <1>4, <2>1, HoldsKept DEF issueVars
<1> QED
  BY <1>1, <1>4, <1>5, <1>6 DEF IssuesAgree

(* A pipeline for an issue's derivatives moves on: the issue is in a batch
   that failed, and its batch stays its own.                                *)
LEMMA RedoMoves ==
  ASSUME Typed, IssuesAgree, NEW p \in pipes, p.kind = "redo", RunJob(p)
  PROVE  LET i == p.about IN
    /\ i \in Issues /\ issues[i] \in IssueRow /\ InFailed(i) /\ IssueInStep(i) /\ p.at \in 1..5
    /\ \A k \in Issues : k # i => issues'[k] = issues[k] /\ mets'[k] = mets[k]
    /\ issues'[i] = IF p.at = 1 THEN [issues[i] EXCEPT !.ws = "AwaitingProcessing"]
                    ELSE IF p.at = 4 THEN [issues[i] EXCEPT !.ws = "ReadyForBatching"]
                    ELSE issues[i]
    /\ issues'[i].batch = issues[i].batch /\ issues'[i].ignored = issues[i].ignored
    /\ issues'[i].ws = IF p.at = 1 THEN "AwaitingProcessing"
                       ELSE IF p.at = 4 THEN "ReadyForBatching" ELSE issues[i].ws
    /\ mets'[i] \in {mets[i], edits[i]}
    /\ \A o \in pipes' : o.kind = "redo" =>
         \E q \in pipes : q.kind = "redo" /\ q.about = o.about /\ q.restore = o.restore
    /\ \A o \in pipes : o # p => o \in pipes'
    /\ p.at # 5 => \E o \in pipes' : o.kind = "redo" /\ o.about = i /\ o.at = p.at + 1
    /\ \A b : BuildingOf(b)' = BuildingOf(b)
    /\ UNCHANGED <<edits, files, batchVars, sess, purge>>
<1> DEFINE i == p.about
           next == [p EXCEPT !.at = p.at + 1]
<1>1. /\ i \in Issues /\ p.at \in 1..5
      /\ issues' = IF p.at = 1 THEN [issues EXCEPT ![i].ws = "AwaitingProcessing"]
                   ELSE IF p.at = 4 THEN [issues EXCEPT ![i].ws = p.restore]
                   ELSE issues
      /\ mets' = IF p.at = 3 THEN [mets EXCEPT ![i] = edits[i]] ELSE mets
      /\ pipes' = (pipes \ {p}) \cup (IF p.at = 5 THEN {} ELSE {next})
      /\ UNCHANGED <<edits, files, batchVars, sess, purge>>
  BY RedoStep
<1>2. p.restore = "ReadyForBatching" /\ InFailed(i) /\ IssueInStep(i) /\ issues[i] \in IssueRow
      /\ issues \in [Issues -> IssueRow] /\ mets \in [Issues -> Nat]
  BY <1>1 DEF IssuesAgree, RedosInStep, Typed, IssuesTyped
<1>3. /\ \A k \in Issues : k # i => issues'[k] = issues[k] /\ mets'[k] = mets[k]
      /\ mets'[i] \in {mets[i], edits[i]}
      /\ issues'[i] = IF p.at = 1 THEN [issues[i] EXCEPT !.ws = "AwaitingProcessing"]
                      ELSE IF p.at = 4 THEN [issues[i] EXCEPT !.ws = "ReadyForBatching"]
                      ELSE issues[i]
  BY <1>1, <1>2
<1>4. /\ issues'[i].batch = issues[i].batch /\ issues'[i].ignored = issues[i].ignored
      /\ issues'[i].ws = IF p.at = 1 THEN "AwaitingProcessing"
                         ELSE IF p.at = 4 THEN "ReadyForBatching" ELSE issues[i].ws
  BY <1>2, <1>3, IssueWith DEF Steps
<1>5. /\ next.kind = "redo" /\ next.about = i /\ next.at = p.at + 1 /\ next.restore = p.restore
  BY PipeMoved DEF Typed, PipesTyped
<1> HIDE DEF next
<1>6. /\ \A o \in pipes' : o.kind = "redo" =>
           \E q \in pipes : q.kind = "redo" /\ q.about = o.about /\ q.restore = o.restore
      /\ \A o \in pipes : o # p => o \in pipes'
      /\ p.at # 5 => next \in pipes'
  BY <1>1, <1>5
<1>7. \A b : BuildingOf(b)' = BuildingOf(b)
  BY <1>1, <1>5 DEF BuildingOf
<1> QED
  BY <1>1, <1>2, <1>3, <1>4, <1>5, <1>6, <1>7

LEMMA RedoneIssue ==
  ASSUME Typed, IssuesAgree, NEW p \in pipes, p.kind = "redo", RunJob(p)
  PROVE  \A i \in Issues : IssueInStep(i)'
<1> DEFINE j == p.about
<1>1. /\ j \in Issues /\ InFailed(j) /\ IssueInStep(j) /\ p.at \in 1..5
      /\ issues'[j].batch = issues[j].batch /\ issues'[j].ignored = issues[j].ignored
      /\ issues'[j].ws = IF p.at = 1 THEN "AwaitingProcessing"
                         ELSE IF p.at = 4 THEN "ReadyForBatching" ELSE issues[j].ws
      /\ mets'[j] \in {mets[j], edits[j]}
      /\ UNCHANGED <<edits, files, batchVars, sess, purge>>
  BY RedoMoves
<1>2. BatchIds' = BatchIds /\ batches' = batches
  BY <1>1 DEF BatchIds, batchVars
<1>3. IssueInStep(j)'
  <2>1. issues[j].batch # 0 /\ batches[issues[j].batch].status = "failed_qc"
    BY <1>1 DEF InFailed
  <2>2. /\ issues[j].ws \notin SentTo /\ ~issues[j].ignored /\ issues[j].ws # "InProduction"
        /\ mets[j] = edits[j] /\ files[j] /\ issues[j].batch \in BatchIds
    BY <1>1, <2>1 DEF IssueInStep, Out, Typed, IssuesTyped
  <2>3. issues'[j].ws = "AwaitingProcessing" =>
          \E o \in pipes' : o.kind = "redo" /\ o.about = j /\ o.at \in 2..4
    <3>1. CASE p.at \in 1..3
      <4>1. p.at # 5 /\ p.at + 1 \in 2..4
        BY <3>1
      <4>2. p.at # 5 => \E o \in pipes' : o.kind = "redo" /\ o.about = j /\ o.at = p.at + 1
        BY RedoMoves
      <4> QED
        BY <4>1, <4>2
    <3>2. CASE p.at = 4
      BY <1>1, <3>2
    <3>3. CASE p.at = 5
      <4>1. ASSUME issues'[j].ws = "AwaitingProcessing"
            PROVE  \E o \in pipes : o # p /\ o.kind = "redo" /\ o.about = j /\ o.at \in 2..4
        BY <1>1, <3>3, <4>1 DEF IssueInStep
      <4> QED
        BY <4>1, RedoMoves
    <3> QED
      BY <1>1, <3>1, <3>2, <3>3
  <2>4. mets'[j] = edits'[j] /\ files'[j]
    BY <1>1, <2>2
  <2>5. issues'[j].ws \notin SentTo /\ issues'[j].ws # "InProduction" /\ ~issues'[j].ignored
    BY <1>1, <2>2 DEF SentTo
  <2> QED
    BY <1>1, <1>2, <2>1, <2>2, <2>3, <2>4, <2>5 DEF IssueInStep
<1>4. ASSUME NEW i \in Issues, i # j PROVE IssueInStep(i)'
  <2>1. IssueInStep(i) /\ issues'[i] = issues[i] /\ mets'[i] = mets[i]
    BY <1>4, RedoMoves DEF IssuesAgree
  <2>2. \A o \in pipes : o.about = i => o \in pipes'
    BY <1>4, RedoMoves
  <2> QED
    BY <1>1, <1>2, <2>1, <2>2, IssueKept DEF Onward
<1> QED
  BY <1>3, <1>4

LEMMA RedoAgrees ==
  ASSUME Typed, IssuesAgree, NEW p \in pipes, p.kind = "redo", RunJob(p)
  PROVE  IssuesAgree'
<1> DEFINE j == p.about
<1>1. /\ j \in Issues /\ issues[j] \in IssueRow /\ InFailed(j) /\ p.at \in 1..5
      /\ IssueInStep(j) /\ issues'[j].batch = issues[j].batch
      /\ \A k \in Issues : k # j => issues'[k] = issues[k]
      /\ UNCHANGED <<edits, files, batchVars, sess, purge>>
  BY RedoMoves
<1>2. BatchIds' = BatchIds /\ batches' = batches /\ dirs' = dirs /\ listed' = listed
  BY <1>1 DEF BatchIds, batchVars
<1>3. issues[j].batch # 0 /\ ~issues[j].ignored /\ issues[j].ws \notin SentTo
  BY <1>1 DEF InFailed, IssueInStep, Out
<1>4. \A b : InBatch(b)' = InBatch(b)
  BY <1>1 DEF InBatch
<1>5. RedosInStep'
  <2>1. \A o \in pipes' : o.kind = "redo" =>
          \E q \in pipes : q.kind = "redo" /\ q.about = o.about /\ q.restore = o.restore
    BY RedoMoves
  <2>2. \A q \in pipes : q.kind = "redo" => issues'[q.about].batch = issues[q.about].batch
    BY <1>1 DEF Typed, PipesTyped
  <2> QED
    BY <1>2, <2>1, <2>2, RedosKept DEF IssuesAgree, InFailed
<1>6. ASSUME NEW s \in Sessions PROVE CopiesInStep(s)' /\ StepsInStep(s)'
  <2>1. CopiesInStep(s) /\ StepsInStep(s) /\ sess'[s] = sess[s]
        /\ DOMAIN sess[s].copies \subseteq Issues
    BY <1>1, RowsOf DEF IssuesAgree, Typed, SessionsTyped, SessionSet
  <2>2. ASSUME Loaded(s), Editing(s), NEW i \in DOMAIN sess[s].copies
        PROVE  CopyInStep(s, i)'
    <3>1. CASE i = j
      <4> DEFINE c == sess[s].copies[j]
      <4>1. c \in IssueRow /\ c.batch = sess[s].batch /\ c.ws = "ReadyForBatching"
            /\ issues[j] \in {c, [c EXCEPT !.ws = "AwaitingProcessing"]}
        BY <1>3, <2>2, <3>1, CopyIs DEF CopyInStep
      <4>2. issues'[j] = IF p.at = 1 THEN [issues[j] EXCEPT !.ws = "AwaitingProcessing"]
                         ELSE IF p.at = 4 THEN [issues[j] EXCEPT !.ws = "ReadyForBatching"]
                         ELSE issues[j]
        BY RedoMoves
      <4> HIDE DEF c
      <4>3. issues'[j] \in {c, [c EXCEPT !.ws = "AwaitingProcessing"]}
        BY <4>1, <4>2 DEF IssueRow
      <4> QED
        BY <2>1, <3>1, <4>1, <4>3 DEF CopyInStep, c
    <3>2. CASE i # j
      <4>1. CopyInStep(s, i) /\ issues'[i] = issues[i]
        BY <1>1, <2>1, <2>2, <3>2 DEF CopiesInStep
      <4> QED
        BY <2>1, <4>1 DEF CopyInStep
    <3> QED
      BY <3>1, <3>2
  <2>3. CopiesInStep(s)'
    BY <1>4, <2>1, <2>2 DEF CopiesInStep, Loaded, Editing
  <2>4. ~Redone(DOMAIN sess[s].copies) => ~Redone(DOMAIN sess[s].copies)'
    BY <2>1, RedoMoves DEF Redone
  <2>5. ASSUME NEW n \in 1..Len(sess[s].todo) PROVE StepInStep(s, sess[s].todo[n])'
    <3>1. sess[s].todo # <<>>
      BY EmptySeq
    <3>2. PICK x \in StepSet : x = sess[s].todo[n] /\ StepInStep(s, x)
      BY <2>1, <3>1, FirstStep, ElementOfSeq DEF StepsInStep
    <3>3. DOMAIN x.rows \subseteq Issues
      BY <3>2, RowsOf DEF StepSet
    <3>4. x.op # "redo" /\ Editing(s) => ~Redone(DOMAIN sess[s].copies)'
      BY <2>4, <3>2 DEF StepInStep
    <3>5. x.op = "invalidate" =>
            \A i \in DOMAIN x.rows : /\ i \in DOMAIN sess[s].copies /\ x.rows[i] = issues'[i]
                                     /\ issues'[i].batch = sess[s].batch
      <4>1. x.op = "invalidate" => ~Redone(DOMAIN sess[s].copies)
        BY <3>2 DEF StepInStep, Editing
      <4>2. x.op = "invalidate" => j \notin DOMAIN x.rows
        BY <3>2, <4>1 DEF StepInStep, Redone
      <4> QED
        BY <1>1, <3>2, <3>3, <4>2 DEF StepInStep
    <3>6. x.op = "redo" => \A i \in DOMAIN x.rows : issues'[i].batch = issues[i].batch
      BY <1>1, <3>3
    <3>7. x.op = "remove_mets" => \A i \in DOMAIN x.rows : issues'[i].ws \in SentTo
      BY <1>1, <1>3, <3>2, <3>3 DEF StepInStep
    <3>8. sess'[s].row = sess[s].row /\ sess'[s].copies = sess[s].copies
          /\ sess'[s].batch = sess[s].batch /\ (Editing(s)' => Editing(s))
      BY <2>1 DEF Editing
    <3>9. StepInStep(s, x)'
      BY <3>2, <3>4, <3>5, <3>6, <3>7, <3>8 DEF StepInStep
    <3> QED
      BY <2>1, <3>2, <3>9
  <2> QED
    BY <2>1, <2>3, <2>5 DEF StepsInStep
<1>7. PurgeInStep'
  <2>1. DOMAIN purge.list \subseteq Issues
    BY RowsOf DEF Typed, PurgeTyped, PurgeSet
  <2> QED
    BY <1>1, <1>2, <1>3, <2>1, PurgeKept DEF IssuesAgree
<1>8. ASSUME NEW b \in BatchIds PROVE Holds(b)'
  <2>1. Holds(b) /\ BuildingOf(b)' = BuildingOf(b) /\ (b \in Shown' => b \in Shown)
    BY <1>2, RedoMoves DEF IssuesAgree, Shown
  <2> QED
    BY <1>1, <1>2, <1>4, <2>1, HoldsKept
<1> QED
  BY <1>2, <1>5, <1>6, <1>7, <1>8, RedoneIssue DEF IssuesAgree

(* One session's work on its batch agrees with what everybody else knows.  *)
LEMMA OneSessionActs ==
  ASSUME Typed, InStep, IssuesAgree, NEW s \in Sessions,
         \A o \in Sessions : o # s => sess'[o] = sess[o],
         UNCHANGED <<issues, edits, files, purge>>, BatchIds' = BatchIds,
         \A i \in Issues : mets'[i] = mets[i] \/ issues[i].ws \in SentTo,
         pipes \subseteq pipes',
         \A p \in pipes' : p.kind = "redo" =>
           \/ p \in pipes
           \/ /\ p.restore = "ReadyForBatching" /\ p.about \in Issues /\ InFailed(p.about)
              /\ issues[p.about].batch = sess[s].batch /\ Loaded(s),
         \A b \in BatchIds : b # sess[s].batch =>
           /\ batches'[b] = batches[b] /\ dirs'[b] = dirs[b] /\ listed'[b] = listed[b]
           /\ BuildingOf(b)' = BuildingOf(b),
         \A b \in BatchIds : b = sess[s].batch =>
           /\ Onward(b) /\ Holds(b)'
           /\ batches[b].status # "failed_qc" \/ batches'[b].status = "failed_qc"
                \/ (pipes' = pipes /\ ~Redone(InBatch(b))),
         CopiesInStep(s)', StepsInStep(s)'
  PROVE  IssuesAgree'
<1>1. 0 \notin BatchIds
  BY BatchesAreNumbered
<1>2. \A b \in BatchIds : Onward(b)
  BY DEF Onward
<1>3. \A i \in Issues : IssueInStep(i) /\ issues[i].batch \in {0} \cup BatchIds
  BY DEF IssuesAgree, IssueInStep
<1>4. ASSUME NEW i \in Issues PROVE IssueInStep(i)'
  <2>1. IssueInStep(i) /\ (issues[i].batch # 0 => Onward(issues[i].batch))
    BY <1>2, <1>3
  <2>2. issues[i].batch # 0 \/ issues[i].ws = "ReadyForBatching" => mets'[i] = mets[i]
    BY <2>1 DEF IssueInStep, SentTo
  <2> QED
    BY <2>1, <2>2, IssueKept
<1>5. RedosInStep'
  <2>1. ASSUME NEW p \in pipes', p.kind = "redo"
        PROVE  p.restore = "ReadyForBatching" /\ InFailed(p.about)'
    <3>1. p.restore = "ReadyForBatching" /\ InFailed(p.about) /\ p.about \in Issues
      BY <2>1 DEF IssuesAgree, RedosInStep, Typed, PipesTyped
    <3>2. PICK b \in BatchIds : b = issues[p.about].batch /\ batches[b].status = "failed_qc"
      BY <1>3, <3>1 DEF InFailed
    <3>3. batches'[b].status = "failed_qc"
      BY <2>1, <3>1, <3>2 DEF Redone, InBatch
    <3> QED
      BY <1>1, <3>1, <3>2, <3>3 DEF InFailed
  <2> QED
    BY <2>1 DEF RedosInStep
<1>6. ASSUME NEW o \in Sessions, o # s PROVE CopiesInStep(o)' /\ StepsInStep(o)'
  <2>1. sess'[o] = sess[o] /\ (Loaded(s) => sess[o].batch # sess[s].batch)
    BY <1>6 DEF InStep, SessionsApart
  <2>2. ASSUME NEW p \in pipes', p.kind = "redo"
        PROVE  \/ \E q \in pipes : q.kind = "redo" /\ q.about = p.about
               \/ issues[p.about].batch \notin {0, sess[o].batch}
    BY <2>1, <2>2 DEF Loaded
  <2> QED
    BY <2>1, <2>2, SessionAgrees
<1>7. PurgeInStep'
  <2>1. DOMAIN purge.list \subseteq Issues
    BY RowsOf DEF Typed, PurgeTyped, PurgeSet
  <2>2. ASSUME NEW i \in Issues, issues[i].ignored, batches[issues[i].batch].status = "live_done"
        PROVE  batches'[issues[i].batch].status = "live_done"
    <3>1. issues[i].batch \in BatchIds
      BY <1>3, <2>2 DEF IssueInStep
    <3> QED
      BY <1>2, <2>2, <3>1 DEF Onward
  <2> QED
    BY <2>1, <2>2, PurgeKept DEF IssuesAgree
<1>8. ASSUME NEW b \in BatchIds PROVE Holds(b)'
  <2>1. CASE b = sess[s].batch
    BY <2>1
  <2>2. CASE b # sess[s].batch
    <3>1. Holds(b) /\ (b \in Shown' => b \in Shown) /\ InBatch(b)' = InBatch(b)
      BY <2>2 DEF IssuesAgree, Shown, InBatch
    <3> QED
      BY <2>2, <3>1, HoldsKept
  <2> QED
    BY <2>1, <2>2
<1> QED
  BY <1>4, <1>5, <1>6, <1>7, <1>8 DEF IssuesAgree

LEMMA OnlySessionAgrees ==
  ASSUME Typed, InStep, IssuesAgree, NEW s \in Sessions,
         \A o \in Sessions : o # s => sess'[o] = sess[o],
         UNCHANGED <<issueVars, batchVars, pipes, purge>>,
         CopiesInStep(s)', StepsInStep(s)'
  PROVE  IssuesAgree'
<1>1. UNCHANGED <<issues, edits, files, mets, batches, dirs, listed, pipes, purge>>
      /\ BatchIds' = BatchIds
  BY DEF issueVars, batchVars, BatchIds
<1>2. \A b : BuildingOf(b)' = BuildingOf(b) /\ InBatch(b)' = InBatch(b)
  BY <1>1 DEF BuildingOf, InBatch
<1>3. ASSUME NEW b \in BatchIds PROVE Holds(b)' /\ Onward(b)
  <2>1. b \in Shown' => b \in Shown
    BY <1>1 DEF Shown
  <2> QED
    BY <1>1, <1>2, <2>1, HoldsKept DEF IssuesAgree, Onward
<1> QED
  BY <1>1, <1>2, <1>3, OneSessionActs

(* A session that has just loaded its batch                                *)
LEMMA FoundAgrees ==
  ASSUME Typed, IssuesAgree, NEW s \in Sessions, NEW b \in BatchIds, sess'[s] = FindBatch(b),
         issues' = issues, batches[b].status \notin Out, ~Redone(InBatch(b))
  PROVE  CopiesInStep(s)' /\ StepsInStep(s)'
<1>1. /\ sess'[s].batch = b /\ sess'[s].copies = [i \in IssuesOf(b) |-> issues[i]]
      /\ sess'[s].todo = <<>>
  BY FindBatchTyped
<1>2. IssuesOf(b) = InBatch(b) /\ 0 \notin BatchIds
  BY LinksReviewed, BatchesAreNumbered
<1>3. ASSUME NEW i \in InBatch(b) PROVE issues[i].ws = "ReadyForBatching" /\ issues[i].batch = b
  <2>1. i \in Issues /\ issues[i].batch = b /\ IssueInStep(i) /\ issues[i].ws \in Steps
    BY <1>3 DEF InBatch, IssuesAgree, Typed, IssuesTyped, IssueRow
  <2>2. issues[i].ws \notin SentTo /\ issues[i].ws # "InProduction"
    BY <1>2, <2>1 DEF IssueInStep
  <2>3. issues[i].ws # "AwaitingProcessing"
    BY <1>3, <2>1 DEF IssueInStep, Redone
  <2> QED
    BY <2>1, <2>2, <2>3 DEF Steps, SentTo
<1>4. InBatch(b)' = InBatch(b)
  BY DEF InBatch
<1>5. ASSUME NEW i \in InBatch(b) PROVE CopyInStep(s, i)'
  <2>1. sess'[s].copies[i] = issues[i]
    BY <1>1, <1>2, <1>5
  <2>2. issues[i].ws = "ReadyForBatching" /\ issues[i].batch = b
    BY <1>3, <1>5
  <2> QED
    BY <1>1, <2>1, <2>2 DEF CopyInStep
<1>6. DOMAIN sess'[s].copies = InBatch(b)
  BY <1>1, <1>2
<1>7. CopiesInStep(s)'
  <2>1. InBatch(sess[s].batch)' = InBatch(b)
    BY <1>1 DEF InBatch
  <2> QED
    BY <1>5, <1>6, <2>1 DEF CopiesInStep
<1>8. StepsInStep(s)'
  <2>1. Len(sess'[s].todo) = 0
    BY <1>1, EmptySeq
  <2> QED
    BY <2>1 DEF StepsInStep
<1> QED
  BY <1>7, <1>8

(* What a session in its menu has loaded is the issues as they are.        *)
LEMMA MenuCopies ==
  ASSUME Patient, Typed, IssuesAgree, NEW s \in Sessions, InBatchMenu(s), Editing(s)
  PROVE  /\ InBatch(sess[s].batch) \subseteq DOMAIN sess[s].copies
         /\ ~Redone(DOMAIN sess[s].copies)
         /\ \A i \in DOMAIN sess[s].copies :
              /\ issues[i] = sess[s].copies[i] /\ issues[i].batch = sess[s].batch
              /\ issues[i].ws = "ReadyForBatching" /\ i \in Issues
<1>1. Loaded(s) /\ sess[s].todo = <<>> /\ ~Redone(DOMAIN sess[s].copies)
  BY DEF InBatchMenu
<1>2. ASSUME NEW i \in DOMAIN sess[s].copies
      PROVE  /\ issues[i] = sess[s].copies[i] /\ issues[i].batch = sess[s].batch
             /\ issues[i].ws = "ReadyForBatching" /\ i \in Issues
  <2>1. ~Redone({i})
    BY <1>1, <1>2 DEF Redone
  <2> QED
    BY <1>1, <1>2, <2>1, CopyIs
<1> QED
  BY <1>1, <1>2 DEF IssuesAgree, CopiesInStep

LEMMA PlannedRows ==
  ASSUME Patient, Typed, IssuesAgree, NEW s \in Sessions, InBatchMenu(s), Editing(s),
         NEW rows, RowsLoaded(s, rows), NEW i \in DOMAIN rows
  PROVE  /\ i \in DOMAIN sess[s].copies /\ rows[i] = issues[i]
         /\ issues[i].batch = sess[s].batch /\ issues[i].ws = "ReadyForBatching"
<1>1. i \in Issues
  BY RowsOf DEF RowsLoaded
<1>2. i \in DOMAIN sess[s].copies
  BY <1>1, MenuCopies DEF RowsLoaded, InBatch
<1>3. rows[i] = issues[i]
  BY <1>2, MenuCopies DEF RowsLoaded
<1> QED
  BY <1>2, <1>3, MenuCopies

LEMMA PlanAgrees ==
  ASSUME Patient, Typed, IssuesAgree, NEW s \in Sessions, InBatchMenu(s), NEW t, Plan(s, t),
         sess'[s].batch = sess[s].batch, sess'[s].row = sess[s].row,
         sess'[s].copies = sess[s].copies, sess'[s].todo = t, UNCHANGED <<issues, pipes>>
  PROVE  CopiesInStep(s)' /\ StepsInStep(s)'
<1>1. Editing(s) /\ Loaded(s) /\ ~Redone(DOMAIN sess[s].copies)
  BY MenuCopies DEF Plan, Editing, InBatchMenu
<1>2. CopiesInStep(s)'
  <2>1. InBatch(sess[s].batch)' \subseteq DOMAIN sess[s].copies
    BY <1>1, MenuCopies DEF InBatch
  <2>2. \A i \in DOMAIN sess[s].copies : CopyInStep(s, i)'
    BY <1>1, MenuCopies DEF CopyInStep
  <2> QED
    BY <1>1, <2>1, <2>2 DEF CopiesInStep
<1>3. ~Redone(DOMAIN sess[s].copies)'
  BY <1>1 DEF Redone
<1>4. ASSUME NEW x, x.op \notin {"redo", "invalidate", "remove_mets"} PROVE StepInStep(s, x)'
  BY <1>3, <1>4 DEF StepInStep
<1>5. ASSUME NEW rows \in RowSets, RowsLoaded(s, rows), sess[s].row.status = "failed_qc"
      PROVE  /\ StepInStep(s, Step("redo", rows, "none"))'
             /\ \A ws : StepInStep(s, Step("invalidate", rows, ws))'
  <2>1. \A i \in DOMAIN rows : /\ i \in DOMAIN sess[s].copies /\ rows[i] = issues[i]
                               /\ issues[i].batch = sess[s].batch
                               /\ issues[i].ws = "ReadyForBatching"
    BY <1>1, <1>5, PlannedRows
  <2> QED
    BY <1>3, <1>5, <2>1 DEF StepInStep, Step
<1>6. ASSUME NEW a, t = <<a>>, StepInStep(s, a)' PROVE StepsInStep(s)'
  <2>1. Len(sess'[s].todo) = 1 /\ sess'[s].todo[1] = a
    BY <1>6
  <2> QED
    BY <1>6, <2>1 DEF StepsInStep
<1>7. ASSUME NEW a, NEW c, t = <<a, c>>, StepInStep(s, a)', StepInStep(s, c)' PROVE StepsInStep(s)'
  <2>1. Len(sess'[s].todo) = 2 /\ sess'[s].todo[1] = a /\ sess'[s].todo[2] = c
    BY <1>7
  <2> QED
    BY <1>7, <2>1 DEF StepsInStep
<1>8. CASE t = FailSteps
  <2> DEFINE a == Step("remove_dir", <<>>, "none")
             c == Step("save", <<>>, "failed_qc")
  <2>1. a.op = "remove_dir" /\ c.op = "save" /\ t = <<a, c>>
    BY <1>8 DEF Step, FailSteps
  <2> HIDE DEF a, c
  <2>2. StepInStep(s, a)' /\ StepInStep(s, c)'
    BY <1>4, <2>1
  <2> QED
    BY <1>2, <1>7, <2>1, <2>2
<1>9. CASE t = <<>>
  <2>1. Len(sess'[s].todo) = 0
    BY <1>9, EmptySeq
  <2>2. StepsInStep(s)'
    BY <2>1 DEF StepsInStep
  <2> QED
    BY <1>2, <2>2
<1>10. CASE t = <<Step("delete", <<>>, "none")>>
  <2> DEFINE a == Step("delete", <<>>, "none")
  <2>1. a.op = "delete"
    BY DEF Step
  <2> HIDE DEF a
  <2>2. StepsInStep(s)'
    BY <1>4, <1>6, <1>10, <2>1 DEF a
  <2> QED
    BY <1>2, <2>2
<1>11. CASE t = <<Step("save", <<>>, "pending"), Step("queue", <<>>, "none")>>
  BY <1>2, <1>4, <1>7, <1>11 DEF Step
<1>12. ASSUME NEW rows \in RowSets, RowsLoaded(s, rows), t = <<Step("redo", rows, "none")>>,
              sess[s].row.status = "failed_qc"
       PROVE  StepsInStep(s)'
  BY <1>5, <1>6, <1>12
<1>13. ASSUME NEW rows \in RowSets, NEW ws \in SentTo, NEW last \in {"reload", "delete"},
              RowsLoaded(s, rows), sess[s].row.status = "failed_qc",
              t = <<Step("invalidate", rows, ws), Step(last, <<>>, "none")>>
       PROVE  StepsInStep(s)'
  <2>1. StepInStep(s, Step(last, <<>>, "none"))'
    BY <1>4 DEF Step
  <2> QED
    BY <1>5, <1>7, <1>13, <2>1
<1>14. StepsInStep(s)'
  BY <1>8, <1>9, <1>10, <1>11, <1>12, <1>13 DEF Plan
<1> QED
  BY <1>2, <1>14

LEMMA FixingAgrees ==
  ASSUME Patient, Typed, InStep, IssuesAgree, NEW s \in Sessions, Fixing(s) \/ SessionDies(s)
  PROVE  IssuesAgree'
<1>1. sess \in [Sessions -> SessionSet]
  BY DEF Typed, SessionsTyped
<1>2. ASSUME NEW b \in BatchIds, LoadBatch(s, b) PROVE IssuesAgree'
  <2>1. /\ sess' = [sess EXCEPT ![s] = FindBatch(b)]
        /\ UNCHANGED <<issueVars, batchVars, pipes, purge>>
        /\ batches[b].status \in {"qc_ready", "failed_qc"} /\ ~Redone(InBatch(b))
    BY <1>2 DEF LoadBatch, OnlySession
  <2>2. sess'[s] = FindBatch(b) /\ \A t \in Sessions : t # s => sess'[t] = sess[t]
    BY <1>1, <2>1
  <2>3. CopiesInStep(s)' /\ StepsInStep(s)'
    BY <2>1, <2>2, FoundAgrees DEF issueVars, Out
  <2> QED
    BY <2>1, <2>2, <2>3, OnlySessionAgrees
<1>3. ASSUME QuitBatch(s) \/ SessionDies(s) PROVE IssuesAgree'
  <2>1. /\ sess' = [sess EXCEPT ![s] = NotLoaded]
        /\ UNCHANGED <<issueVars, batchVars, pipes, purge>>
    BY <1>3 DEF QuitBatch, SessionDies, OnlySession
  <2>2. sess'[s] = NotLoaded /\ \A t \in Sessions : t # s => sess'[t] = sess[t]
    BY <1>1, <2>1
  <2>3. NotLoaded.batch = 0 /\ Len(NotLoaded.todo) = 0
    BY EmptySeq DEF NotLoaded
  <2>4. CopiesInStep(s)' /\ StepsInStep(s)'
    BY <2>2, <2>3 DEF CopiesInStep, StepsInStep, Loaded
  <2> QED
    BY <2>1, <2>2, <2>4, OnlySessionAgrees
<1>4. ASSUME Fixing(s), ~QuitBatch(s), \A b \in BatchIds : ~LoadBatch(s, b) PROVE IssuesAgree'
  <2>1. InBatchMenu(s) /\ UNCHANGED <<issueVars, batchVars, pipes, purge>>
    BY <1>4, Planned DEF OnlySession
  <2>2. PICK t : Plan(s, t) /\ sess' = [sess EXCEPT ![s].todo = t]
    BY <1>4, Planned
  <2>3. /\ sess'[s].batch = sess[s].batch /\ sess'[s].row = sess[s].row /\ sess'[s].todo = t
        /\ sess'[s].copies = sess[s].copies /\ \A o \in Sessions : o # s => sess'[o] = sess[o]
    BY <2>2, TodoWritten DEF Typed
  <2>4. CopiesInStep(s)' /\ StepsInStep(s)'
    BY <2>1, <2>2, <2>3, PlanAgrees DEF issueVars
  <2> QED
    BY <2>1, <2>3, <2>4, OnlySessionAgrees
<1> QED
  BY <1>2, <1>3, <1>4

(* What is planned after a session's next step                             *)
LEMMA LaterSteps ==
  ASSUME NEW t \in Seq(StepSet), Ordered(t), NEW n \in 2..Len(t)
  PROVE  /\ t[n].op \notin {"remove_mets", "redo", "remove_dir"}
         /\ t[n].op = "invalidate" => t[1].op = "remove_mets"
<1>1. Len(t) \in Nat
  BY LenProperties
<1>2. \A m \in 2..Len(t) : CanFollow(t[m - 1], t[m])
  <2>1. ASSUME NEW m \in 2..Len(t) PROVE CanFollow(t[m - 1], t[m])
    <3>1. m - 1 \in 1..Len(t) - 1 /\ (m - 1) + 1 = m
      BY <1>1
    <3>2. CanFollow(t[m - 1], t[(m - 1) + 1])
      BY <3>1 DEF Ordered
    <3> QED
      BY <3>1, <3>2
  <2> QED
    BY <2>1
<1>3. t[n].op = "invalidate" => t[n - 1].op = "remove_mets"
  BY <1>2 DEF CanFollow
<1>4. n # 2 => t[n - 1].op # "remove_mets"
  <2>1. n # 2 => n - 1 \in 2..Len(t)
    BY <1>1
  <2>2. ASSUME n # 2 PROVE CanFollow(t[(n - 1) - 1], t[n - 1])
    BY <1>2, <2>1, <2>2
  <2> QED
    BY <2>2 DEF CanFollow
<1>5. t[n].op = "invalidate" => t[1].op = "remove_mets"
  BY <1>3, <1>4
<1>6. t[n].op \notin {"remove_mets", "redo", "remove_dir"}
  BY <1>2 DEF CanFollow
<1> QED
  BY <1>5, <1>6

LEMMA TailAgrees ==
  ASSUME Typed, InStep, IssuesAgree, NEW s \in Sessions, sess[s].todo # <<>>,
         sess[s].todo[1].op \in {"remove_dir", "remove_mets", "queue"},
         sess'[s].batch = sess[s].batch, sess'[s].row = sess[s].row,
         sess'[s].copies = sess[s].copies, sess'[s].todo = Tail(sess[s].todo), issues' = issues,
         \A p \in pipes' : p.kind = "redo" => p \in pipes
  PROVE  CopiesInStep(s)' /\ StepsInStep(s)'
<1> DEFINE t == sess[s].todo
           u == Tail(t)
<1>1. /\ Loaded(s) /\ t[1] \in StepSet /\ Len(t) \in Nat \ {0} /\ Len(u) = Len(t) - 1
      /\ u \in Seq(StepSet)
      /\ \A n \in 1..Len(t) - 1 : u[n] = t[n + 1]
  BY FirstStep
<1>2. /\ u # <<>> => CanFollow(t[1], u[1])
      /\ t \in Seq(StepSet) /\ Ordered(t)
  BY Began, FirstStep DEF InStep, SessionInStep
<1>3. t[1].op = "remove_mets" => u # <<>> /\ u[1].op \in {"invalidate", "reload", "delete"}
  <2>1. t[1].op = "remove_mets" => u # <<>>
    <3>1. t[1].op = "remove_mets" => Len(t) # 1
      BY <1>2 DEF Ordered
    <3> HIDE DEF u
    <3>2. u = <<>> => Len(u) = 0
      BY <1>1, EmptySeq
    <3> QED
      BY <1>1, <3>1, <3>2
  <2> QED
    BY <1>2, <2>1 DEF CanFollow
<1>4. CopiesInStep(s) /\ StepsInStep(s)
  BY DEF IssuesAgree
<1> HIDE DEF u
<1>5. CopiesInStep(s)'
  <2> SUFFICES ASSUME Editing(s)
               PROVE  /\ InBatch(sess[s].batch)' \subseteq DOMAIN sess[s].copies
                      /\ \A i \in DOMAIN sess[s].copies : CopyInStep(s, i)'
    BY DEF CopiesInStep, Editing
  <2>1. InBatch(sess[s].batch)' = InBatch(sess[s].batch)
    BY DEF InBatch
  <2>2. \A i \in DOMAIN sess[s].copies : CopyInStep(s, i)'
    BY <1>1, <1>3, <1>4 DEF CopiesInStep, CopyInStep, u
  <2> QED
    BY <1>1, <1>4, <2>1, <2>2 DEF CopiesInStep
<1>6. ~Redone(DOMAIN sess[s].copies) => ~Redone(DOMAIN sess[s].copies)'
  BY DEF Redone
<1>7. ASSUME NEW n \in 1..Len(u) PROVE StepInStep(s, sess[s].todo[n])'
  <2>1. PICK x : x = u[n] /\ StepInStep(s, x)
    BY <1>1, <1>4 DEF StepsInStep
  <2>2. StepInStep(s, x)'
    BY <1>6, <2>1 DEF StepInStep, Editing, Redone
  <2>3. sess'[s].todo[n] = x
    BY <2>1 DEF u
  <2> QED
    BY <2>2, <2>3
<1>8. StepsInStep(s)'
  BY <1>7 DEF StepsInStep, u
<1> QED
  BY <1>5, <1>8

LEMMA RemoveDirAgrees ==
  ASSUME Typed, InStep, IssuesAgree, NEW s \in Sessions, RemoveDir(s)
  PROVE  IssuesAgree'
<1>1. /\ sess[s].todo # <<>> /\ Head(sess[s].todo).op = "remove_dir" /\ Done(s)
      /\ UNCHANGED <<issueVars, batches, listed, pipes, purge>>
      /\ dirs' = [dirs EXCEPT ![sess[s].batch][sess[s].row.location] = NoDir]
  BY DEF RemoveDir, Doing
<1>2. PICK b \in BatchIds : b = sess[s].batch
  BY <1>1, FirstStep
<1>3. /\ sess[s].todo[1].op = "remove_dir" /\ BatchInStep(b)
      /\ sess[s].row.status = "qc_ready" /\ sess[s].row = batches[b]
  <2>1. sess[s].todo[1].op = "remove_dir"
    BY <1>1, FirstStep
  <2> QED
    BY <1>1, <1>2, <2>1, Began
<1>4. sess[s].row.location = "final" /\ BuildingOf(b) = {}
  BY <1>3, NotBuiltOnceShown DEF BatchInStep
<1>5. dirs'[b].final = NoDir /\ \A o \in BatchIds : o # b => dirs'[o] = dirs[o]
  <2> DEFINE d == [dirs[b] EXCEPT !["final"] = NoDir]
  <2>1. dirs[b] \in PlaceSet /\ dirs \in Seq(PlaceSet) /\ Len(dirs) = Len(batches)
    BY DEF Typed, BatchesTyped, BatchIds
  <2>2. d \in PlaceSet /\ d.final = NoDir
    BY <2>1 DEF PlaceSet, NoDir, Found
  <2>3. dirs' = [dirs EXCEPT ![b] = d]
    BY <1>1, <1>2, <1>4
  <2> HIDE DEF d
  <2> QED
    BY <2>1, <2>2, <2>3, ExceptSeq DEF BatchIds
<1>6. /\ sess'[s].todo = Tail(sess[s].todo) /\ sess'[s].copies = sess[s].copies
      /\ sess'[s].batch = sess[s].batch /\ sess'[s].row = sess[s].row
      /\ \A o \in Sessions : o # s => sess'[o] = sess[o]
  BY <1>1, OneStepDone
<1>7. CopiesInStep(s)' /\ StepsInStep(s)'
  BY <1>1, <1>3, <1>6, TailAgrees DEF issueVars
<1>8. (\A o : BuildingOf(o)' = BuildingOf(o)) /\ BatchIds' = BatchIds
  BY <1>1 DEF BuildingOf, BatchIds
<1>9. Holds(b)' /\ Onward(b)
  BY <1>1, <1>4, <1>5, <1>8 DEF Holds, Onward
<1>10. \A o \in BatchIds : o = sess[s].batch =>
         Onward(o) /\ Holds(o)' /\ batches[o].status # "failed_qc"
  BY <1>2, <1>3, <1>9
<1> QED
  BY <1>1, <1>2, <1>5, <1>6, <1>7, <1>8, <1>10, OneSessionActs DEF issueVars

LEMMA RemoveMETSAgrees ==
  ASSUME Typed, InStep, IssuesAgree, NEW s \in Sessions, RemoveMETS(s)
  PROVE  IssuesAgree'
<1>1. /\ sess[s].todo # <<>> /\ Head(sess[s].todo).op = "remove_mets" /\ Done(s)
      /\ UNCHANGED <<issues, edits, files, batches, dirs, listed, pipes, purge>>
      /\ mets' = [i \in Issues |-> IF i \in DOMAIN Rows(s) THEN 0 ELSE mets[i]]
  BY DEF RemoveMETS, Doing, batchVars
<1>2. /\ sess[s].todo[1].op = "remove_mets" /\ Rows(s) = sess[s].todo[1].rows
      /\ Len(sess[s].todo) \in Nat \ {0}
  BY <1>1, FirstStep DEF Rows
<1>3. StepInStep(s, sess[s].todo[1])
  BY <1>2 DEF IssuesAgree, StepsInStep
<1>4. \A i \in Issues : mets'[i] = mets[i] \/ issues[i].ws \in SentTo
  BY <1>1, <1>2, <1>3 DEF StepInStep
<1>5. /\ sess'[s].todo = Tail(sess[s].todo) /\ sess'[s].copies = sess[s].copies
      /\ sess'[s].batch = sess[s].batch /\ sess'[s].row = sess[s].row
      /\ \A o \in Sessions : o # s => sess'[o] = sess[o]
  BY <1>1, OneStepDone
<1>6. CopiesInStep(s)' /\ StepsInStep(s)'
  BY <1>1, <1>2, <1>5, TailAgrees
<1>7. BatchIds' = BatchIds /\ \A o : BuildingOf(o)' = BuildingOf(o) /\ InBatch(o)' = InBatch(o)
  BY <1>1 DEF BuildingOf, BatchIds, InBatch
<1>8. ASSUME NEW b \in BatchIds PROVE Holds(b)' /\ Onward(b)
  <2>1. b \in Shown' => b \in Shown
    BY <1>1, <1>7 DEF Shown
  <2> QED
    BY <1>1, <1>7, <2>1, HoldsKept DEF IssuesAgree, Onward
<1> QED
  BY <1>1, <1>4, <1>5, <1>6, <1>7, <1>8, OneSessionActs

LEMMA KeepMETSAgrees ==
  ASSUME Patient, Typed, InStep, IssuesAgree, NEW s \in Sessions, KeepMETS(s)
  PROVE  IssuesAgree'
<1> DEFINE u == IF Patient THEN <<Step("reload", <<>>, "none")>> ELSE <<>>
<1>1. /\ sess[s].todo # <<>> /\ Head(sess[s].todo).op = "remove_mets"
      /\ sess' = [sess EXCEPT ![s].todo = u]
      /\ UNCHANGED <<issueVars, batchVars, pipes, purge>>
  BY DEF KeepMETS, Doing, OnlySession
<1>2. u # <<>> /\ Len(u) = 1 /\ u[1].op = "reload"
  <2>1. u = <<Step("reload", <<>>, "none")>>
    OBVIOUS
  <2>2. Len(<<Step("reload", <<>>, "none")>>) = 1
    BY PlainSteps, ShortSeq
  <2> QED
    BY <2>1, <2>2, LeftToDo, EmptySeq
<1> HIDE DEF u
<1>3. sess[s].todo[1].op = "remove_mets" /\ Len(sess[s].todo) \in Nat \ {0} /\ Loaded(s)
  BY <1>1, FirstStep
<1>4. StepInStep(s, sess[s].todo[1]) /\ CopiesInStep(s)
  BY <1>3 DEF IssuesAgree, StepsInStep
<1>5. /\ sess'[s].todo = u /\ sess'[s].copies = sess[s].copies
      /\ sess'[s].batch = sess[s].batch /\ sess'[s].row = sess[s].row
      /\ \A o \in Sessions : o # s => sess'[o] = sess[o]
  BY <1>1, TodoWritten DEF Typed
<1>6. CopiesInStep(s)'
  <2> SUFFICES ASSUME Editing(s)
               PROVE  /\ InBatch(sess[s].batch)' \subseteq DOMAIN sess[s].copies
                      /\ \A i \in DOMAIN sess[s].copies : CopyInStep(s, i)'
    BY <1>5 DEF CopiesInStep, Editing
  <2>1. InBatch(sess[s].batch)' = InBatch(sess[s].batch)
    BY <1>1 DEF InBatch, issueVars
  <2>2. \A i \in DOMAIN sess[s].copies : CopyInStep(s, i)'
    BY <1>1, <1>2, <1>3, <1>4, <1>5 DEF CopiesInStep, CopyInStep, issueVars
  <2> QED
    BY <1>3, <1>4, <2>1, <2>2 DEF CopiesInStep
<1>7. StepsInStep(s)'
  <2>1. PICK x : x = u[1] /\ x.op = "reload"
    BY <1>2
  <2>2. Editing(s) => ~Redone(DOMAIN sess[s].copies)
    BY <1>3, <1>4 DEF StepInStep
  <2>3. StepInStep(s, x)'
    BY <1>1, <1>5, <2>1, <2>2 DEF StepInStep, Editing, Redone
  <2>4. Len(sess'[s].todo) = 1 /\ sess'[s].todo[1] = x
    BY <1>2, <1>5, <2>1
  <2> QED
    BY <2>3, <2>4 DEF StepsInStep
<1> QED
  BY <1>1, <1>5, <1>6, <1>7, OnlySessionAgrees

LEMMA ReloadAgrees ==
  ASSUME Typed, InStep, IssuesAgree, NEW s \in Sessions, Reload(s)
  PROVE  IssuesAgree'
<1>1. /\ sess[s].todo # <<>> /\ Head(sess[s].todo).op = "reload"
      /\ sess' = [sess EXCEPT ![s] = FindBatch(sess[s].batch)]
      /\ UNCHANGED <<issueVars, batchVars, pipes, purge>>
  BY DEF Reload, Doing, OnlySession
<1>2. PICK b \in BatchIds : b = sess[s].batch
  BY <1>1, FirstStep
<1>3. /\ sess[s].todo[1].op = "reload" /\ Len(sess[s].todo) \in Nat \ {0} /\ Loaded(s)
      /\ sess[s].row.status = "failed_qc" /\ sess[s].row = batches[b]
  <2>1. sess[s].todo[1].op = "reload" /\ Len(sess[s].todo) \in Nat \ {0}
    BY <1>1, FirstStep
  <2> QED
    BY <1>1, <1>2, <2>1, Began
<1>4. ~Redone(InBatch(b))
  <2>1. StepInStep(s, sess[s].todo[1]) /\ CopiesInStep(s)
    BY <1>3 DEF IssuesAgree, StepsInStep
  <2> QED
    BY <1>2, <1>3, <2>1 DEF StepInStep, CopiesInStep, Editing, Redone
<1>5. sess'[s] = FindBatch(b) /\ \A o \in Sessions : o # s => sess'[o] = sess[o]
  BY <1>1, <1>2 DEF Typed, SessionsTyped
<1>6. CopiesInStep(s)' /\ StepsInStep(s)'
  BY <1>1, <1>3, <1>4, <1>5, FoundAgrees DEF issueVars, Out
<1> QED
  BY <1>1, <1>5, <1>6, OnlySessionAgrees

LEMMA SaveAgrees ==
  ASSUME Typed, InStep, IssuesAgree, NEW s \in Sessions, SaveStatus(s)
  PROVE  IssuesAgree'
<1> DEFINE t == sess[s].todo
<1>1. /\ t # <<>> /\ UNCHANGED <<issues, edits, files, mets, dirs, listed, pipes, purge>>
      /\ Head(t).op = "save" /\ SaveBatch(s, Head(t).ws)
  BY DEF SaveStatus, Doing, issueVars
<1>2. PICK st \in {"failed_qc", "pending"} :
        t[1].op = "save" /\ t[1].ws = st /\ SaveBatch(s, st) /\ st \in Statuses
  BY <1>1, FirstStep DEF StepSet, Statuses
<1>3. PICK b \in BatchIds : b = sess[s].batch
  BY <1>1, FirstStep
<1>4. /\ Loaded(s) /\ BatchInStep(b) /\ sess[s].row \in BatchRow /\ sess[s].row = batches[b]
      /\ st = "failed_qc" => sess[s].row.status = "qc_ready" /\ Tail(t) = <<>>
      /\ st = "pending" => sess[s].row.status = "failed_qc"
  BY <1>1, <1>2, <1>3, Began DEF CanFollow
<1> DEFINE row == [sess[s].row EXCEPT !.status = st, !.location = "none"]
<1>5. row.status = st
  BY <1>2, <1>4, BatchSaved
<1>6. /\ Len(batches') = Len(batches) /\ batches'[b] = row
      /\ \A o \in BatchIds : o # b => batches'[o] = batches[o]
      /\ sess'[s].batch = b /\ sess'[s].row = row /\ sess'[s].todo = Tail(t)
      /\ sess'[s].copies = sess[s].copies
      /\ \A o \in Sessions : o # s => sess'[o] = sess[o]
  BY <1>1, <1>2, <1>3, SaveBatchTyped
<1> HIDE DEF row
<1>7. /\ BatchIds' = BatchIds /\ InBatch(b)' = InBatch(b)
      /\ \A o : BuildingOf(o)' = BuildingOf(o)
  BY <1>1, <1>6 DEF BatchIds, InBatch, BuildingOf
<1>8. /\ Len(t) \in Nat \ {0} /\ t \in Seq(StepSet) /\ Ordered(t)
      /\ Len(Tail(t)) = Len(t) - 1 /\ \A n \in 1..Len(t) - 1 : Tail(t)[n] = t[n + 1]
  BY <1>1, FirstStep DEF InStep, SessionInStep
<1>9. CopiesInStep(s) /\ StepInStep(s, t[1]) /\ Editing(s)
  BY <1>2, <1>4, <1>8 DEF IssuesAgree, StepsInStep, Editing
<1>10. ~Redone(InBatch(b))
  BY <1>2, <1>3, <1>4, <1>9 DEF StepInStep, CopiesInStep, Redone
<1>11. CopiesInStep(s)'
  <2>1. CASE st = "pending"
    BY <1>5, <1>6, <2>1 DEF CopiesInStep, Editing
  <2>2. CASE st = "failed_qc"
    <3>1. InBatch(sess[s].batch)' = InBatch(b)
      BY <1>1, <1>6 DEF InBatch
    <3>2. ASSUME NEW i \in DOMAIN sess[s].copies PROVE CopyInStep(s, i)'
      <4>1. CopyInStep(s, i)
        BY <1>4, <1>9 DEF CopiesInStep
      <4>2. /\ issues[i] \in {sess[s].copies[i],
                             [sess[s].copies[i] EXCEPT !.ws = "AwaitingProcessing"]}
            /\ sess[s].copies[i].batch = b /\ sess[s].copies[i].ws = "ReadyForBatching"
        BY <1>2, <1>3, <4>1 DEF CopyInStep
      <4>3. /\ issues'[i] = issues[i] /\ sess'[s].batch = b
            /\ sess'[s].copies[i] = sess[s].copies[i]
        BY <1>1, <1>6
      <4> QED
        BY <4>2, <4>3 DEF CopyInStep
    <3> QED
      BY <1>3, <1>4, <1>6, <1>9, <3>1, <3>2 DEF CopiesInStep
  <2> QED
    BY <2>1, <2>2
<1>12. StepsInStep(s)'
  <2>1. CASE st = "failed_qc"
    <3>1. Len(sess'[s].todo) = 0
      BY <1>4, <1>6, <2>1, EmptySeq
    <3> QED
      BY <3>1 DEF StepsInStep
  <2>2. CASE st = "pending"
    <3>1. ~Editing(s)'
      BY <1>5, <1>6, <2>2 DEF Editing
    <3>2. ASSUME NEW n \in 1..Len(Tail(t)) PROVE StepInStep(s, sess[s].todo[n])'
      <4>1. n + 1 \in 2..Len(t) /\ sess'[s].todo[n] = t[n + 1]
        BY <1>6, <1>8
      <4>2. t[n + 1].op \notin {"remove_mets", "redo", "invalidate"}
        BY <1>2, <1>8, <4>1, LaterSteps
      <4> QED
        BY <3>1, <4>1, <4>2 DEF StepInStep
    <3> QED
      BY <1>6, <3>2 DEF StepsInStep
  <2> QED
    BY <2>1, <2>2
<1>13. Holds(b)' /\ Onward(b)
  <2>1. BuildingOf(b) = {}
    BY <1>2, <1>4, NotBuiltOnceShown
  <2>2. b \notin Shown'
    BY <1>2, <1>5, <1>6 DEF Shown
  <2>3. Onward(b)
    BY <1>2, <1>4, <1>5, <1>6 DEF Onward, Out
  <2> QED
    BY <1>7, <2>1, <2>2, <2>3 DEF Holds
<1>14. \A o \in BatchIds : o = sess[s].batch =>
         Onward(o) /\ Holds(o)' /\ pipes' = pipes /\ ~Redone(InBatch(o))
  BY <1>1, <1>3, <1>10, <1>13
<1> QED
  BY <1>1, <1>3, <1>6, <1>7, <1>11, <1>12, <1>14, OneSessionActs

LEMMA QueueAgrees ==
  ASSUME Typed, InStep, IssuesAgree, NEW s \in Sessions, Queue(s)
  PROVE  IssuesAgree'
<1> DEFINE new == Pipe("make", sess[s].batch, "none")
<1>1. /\ sess[s].todo # <<>> /\ Head(sess[s].todo).op = "queue" /\ Done(s)
      /\ UNCHANGED <<issues, edits, files, mets, batches, dirs, listed, purge>>
      /\ pipes' = pipes \cup {new}
  BY DEF Queue, Doing, batchVars, issueVars
<1>2. PICK b \in BatchIds : b = sess[s].batch
  BY <1>1, FirstStep
<1>3. new.kind = "make" /\ new.about = b /\ new.at = 1
  BY <1>2 DEF Pipe
<1> HIDE DEF new
<1>4. /\ BatchInStep(b) /\ batches[b].status = "pending" /\ BuildingOf(b) = {}
      /\ sess[s].todo[1].op = "queue"
  <2>1. sess[s].todo[1].op = "queue"
    BY <1>1, FirstStep
  <2> QED
    BY <1>1, <1>2, <2>1, Began
<1>5. BuildingOf(b)' = {new} /\ \A o : o # b => BuildingOf(o)' = BuildingOf(o)
  <2>1. BuildingOf(b)' = BuildingOf(b) \cup {new}
    BY <1>1, <1>3 DEF BuildingOf
  <2>2. \A o : o # b => BuildingOf(o)' = BuildingOf(o)
    BY <1>1, <1>3 DEF BuildingOf
  <2> QED
    BY <1>4, <2>1, <2>2
<1>6. /\ sess'[s].todo = Tail(sess[s].todo) /\ sess'[s].copies = sess[s].copies
      /\ sess'[s].batch = sess[s].batch /\ sess'[s].row = sess[s].row
      /\ \A o \in Sessions : o # s => sess'[o] = sess[o]
  BY <1>1, OneStepDone
<1>7. \A p \in pipes' : p.kind = "redo" => p \in pipes
  BY <1>1, <1>3
<1>8. CopiesInStep(s)' /\ StepsInStep(s)'
  BY <1>1, <1>4, <1>6, <1>7, TailAgrees
<1>9. Holds(b)'
  <2>1. dirs'[b].wip = NoDir /\ dirs'[b].final = NoDir /\ b \notin Shown'
    BY <1>1, <1>4 DEF BatchInStep, Unbuilt, NoBatchDirs, Shown
  <2> QED
    BY <1>3, <1>5, <2>1 DEF Holds
<1>10. \A o \in BatchIds : o = sess[s].batch =>
         Onward(o) /\ Holds(o)' /\ batches[o].status # "failed_qc"
  BY <1>1, <1>2, <1>4, <1>9 DEF Onward
<1>11. BatchIds' = BatchIds
  BY <1>1 DEF BatchIds
<1> QED
  BY <1>1, <1>2, <1>5, <1>6, <1>7, <1>8, <1>10, <1>11, OneSessionActs

(* A pipeline is queued for one of the issues, with the others to come.    *)
LEMMA RedoQueuedAgrees ==
  ASSUME Typed, InStep, IssuesAgree, NEW s \in Sessions, Redo(s)
  PROVE  IssuesAgree'
<1> DEFINE t    == sess[s].todo
           i    == First(s)
           new  == Pipe("redo", i, CurrentStep(Rows(s)[i]))
           rest == [k \in DOMAIN Rows(s) \ {i} |-> Rows(s)[k]]
           b    == sess[s].batch
<1>1. /\ t # <<>> /\ Head(t).op = "redo" /\ sess' = [sess EXCEPT ![s].todo = Taken(s)]
      /\ UNCHANGED <<issues, edits, files, mets, batches, dirs, listed, purge>>
      /\ pipes' = pipes \cup {new}
  BY DEF Redo, Doing, batchVars, issueVars
<1>2. /\ t[1].op = "redo" /\ Len(t) \in Nat \ {0} /\ Rows(s) = t[1].rows /\ t[1] \in StepSet
  BY <1>1, FirstStep DEF Rows
<1>3. /\ Loaded(s) /\ b \in BatchIds /\ sess[s].row.status = "failed_qc"
      /\ sess[s].row = batches[b] /\ Tail(t) = <<>>
  BY <1>1, <1>2, Began DEF CanFollow
<1>4. /\ i \in DOMAIN Rows(s) /\ i \in Issues /\ Taken(s) \in Seq(StepSet)
      /\ DOMAIN rest = {} => Taken(s) = Tail(t)
      /\ DOMAIN rest # {} =>
           Len(Taken(s)) = Len(t) /\ Taken(s)[1] = Step(t[1].op, rest, t[1].ws)
  BY <1>1, TakenIs
<1>5. StepInStep(s, t[1]) /\ CopiesInStep(s) /\ Editing(s)
  BY <1>2, <1>3 DEF IssuesAgree, StepsInStep, Editing
<1>6. /\ Rows(s)[i].ws = "ReadyForBatching" /\ issues[i].batch = b
      /\ \A k \in DOMAIN Rows(s) : /\ k \in DOMAIN sess[s].copies
                                   /\ Rows(s)[k].ws = "ReadyForBatching"
                                   /\ issues[k].batch = sess[s].batch
  BY <1>2, <1>4, <1>5 DEF StepInStep
<1>7. new.kind = "redo" /\ new.about = i /\ new.restore = "ReadyForBatching"
  BY <1>6 DEF Pipe, CurrentStep
<1>8. InFailed(i)
  BY <1>3, <1>6 DEF InFailed, Loaded
<1> HIDE DEF new, i
<1>9. /\ sess'[s].todo = Taken(s) /\ sess'[s].batch = b /\ sess'[s].row = sess[s].row
      /\ sess'[s].copies = sess[s].copies /\ \A o \in Sessions : o # s => sess'[o] = sess[o]
  BY <1>1, TodoWritten DEF Typed
<1>10. CopiesInStep(s)'
  <2>1. InBatch(sess[s].batch)' = InBatch(b)
    BY <1>1, <1>9 DEF InBatch
  <2>2. \A k \in DOMAIN sess[s].copies : CopyInStep(s, k)'
    BY <1>1, <1>2, <1>3, <1>5, <1>9 DEF CopiesInStep, CopyInStep
  <2> QED
    BY <1>3, <1>5, <1>9, <2>1, <2>2 DEF CopiesInStep
<1>11. Len(t) = 1
  <2>1. Len(Tail(t)) = Len(t) - 1 /\ Len(Tail(t)) = 0
    BY <1>1, <1>3, FirstStep, EmptySeq
  <2> QED
    BY <1>2, <2>1
<1>12. StepsInStep(s)'
  <2>1. CASE DOMAIN rest = {}
    <3>1. Len(sess'[s].todo) = 0
      BY <1>3, <1>4, <1>9, <2>1, EmptySeq
    <3> QED
      BY <3>1 DEF StepsInStep
  <2>2. CASE DOMAIN rest # {}
    <3>1. PICK r : r = rest
      OBVIOUS
    <3>2. \A k \in DOMAIN r : k \in DOMAIN Rows(s) /\ r[k] = Rows(s)[k]
      BY <3>1
    <3> HIDE DEF rest
    <3>3. Len(sess'[s].todo) = 1 /\ sess'[s].todo[1] = Step("redo", r, t[1].ws)
      BY <1>2, <1>4, <1>9, <1>11, <2>2, <3>1
    <3>4. PICK x : x = Step("redo", r, t[1].ws)
      OBVIOUS
    <3>5. x.op = "redo" /\ x.rows = r
      BY <3>4 DEF Step
    <3>6. StepInStep(s, x)'
      BY <1>1, <1>3, <1>6, <1>9, <3>2, <3>5 DEF StepInStep
    <3>7. sess'[s].todo[1] = x
      BY <3>3, <3>4
    <3> QED
      BY <3>3, <3>6, <3>7 DEF StepsInStep
  <2> QED
    BY <2>1, <2>2
<1>13. /\ \A o : BuildingOf(o)' = BuildingOf(o) /\ InBatch(o)' = InBatch(o)
       /\ BatchIds' = BatchIds
  BY <1>1, <1>7 DEF BuildingOf, BatchIds, InBatch
<1>14. ASSUME NEW o \in BatchIds PROVE Holds(o)' /\ Onward(o) /\ batches'[o] = batches[o]
  <2>1. o \in Shown' => o \in Shown
    BY <1>1, <1>13 DEF Shown
  <2> QED
    BY <1>1, <1>13, <2>1, HoldsKept DEF IssuesAgree, Onward
<1>15. \A p \in pipes' : p.kind = "redo" =>
         \/ p \in pipes
         \/ /\ p.restore = "ReadyForBatching" /\ p.about \in Issues /\ InFailed(p.about)
            /\ issues[p.about].batch = sess[s].batch /\ Loaded(s)
  BY <1>1, <1>3, <1>4, <1>6, <1>7, <1>8 DEF i
<1>16. pipes \subseteq pipes'
  BY <1>1
<1> QED
  BY <1>1, <1>9, <1>10, <1>12, <1>13, <1>14, <1>15, <1>16, OneSessionActs

(* An issue of the session's batch is taken out of it and sent back.       *)
LEMMA InvalidateAgrees ==
  ASSUME Typed, InStep, IssuesAgree, NEW s \in Sessions, Invalidate(s)
  PROVE  IssuesAgree'
<1> DEFINE t == sess[s].todo
<1>1. PICK i \in Issues : i = First(s)
  BY InvalidateStep
<1>2. PICK row \in IssueRow : row = Invalidated(Rows(s)[i], t[1].ws)
  BY <1>1, InvalidateStep
<1>3. PICK b \in BatchIds : b = sess[s].batch
  BY InvalidateStep, FirstStep
<1> DEFINE mine == Step("remove_mets", [k \in {i} |-> row], "none")
           new  == <<mine>> \o Taken(s)
<1>4. /\ t # <<>> /\ t[1].op = "invalidate" /\ t[1].ws \in SentTo /\ Rows(s) = t[1].rows
      /\ i \in DOMAIN Rows(s) /\ Taken(s) \in Seq(StepSet)
  BY <1>1, InvalidateStep
<1>5. /\ issues' = [issues EXCEPT ![i] = row]
      /\ sess'[s].copies = [k \in DOMAIN sess[s].copies |->
                              IF k = i THEN row ELSE sess[s].copies[k]]
      /\ UNCHANGED <<edits, files, mets, batches, dirs, listed, pipes, purge>>
  BY <1>1, <1>2, InvalidateStep DEF batchVars
<1>6. /\ new \in Seq(StepSet) /\ Len(new) = Len(Taken(s)) + 1 /\ new[1] = mine
      /\ \A n \in 2..Len(new) : new[n] = Taken(s)[n - 1]
      /\ sess'[s].batch = b /\ sess'[s].row = sess[s].row /\ sess'[s].todo = new
  <2> DEFINE first == Step("remove_mets",
                        [k \in {First(s)} |-> Invalidated(Rows(s)[First(s)], t[1].ws)], "none")
             all == <<first>> \o Taken(s)
  <2>1. mine = first /\ new = all
    BY <1>1, <1>2
  <2>2. /\ all \in Seq(StepSet) /\ Len(all) = Len(Taken(s)) + 1 /\ all[1] = first
        /\ \A n \in 2..Len(all) : all[n] = Taken(s)[n - 1]
        /\ sess'[s].batch = sess[s].batch /\ sess'[s].row = sess[s].row /\ sess'[s].todo = all
    BY InvalidateStep, Zenon
  <2> HIDE DEF mine, new, first, all
  <2> QED
    BY <1>3, <2>1, <2>2
<1>7. \A o \in Sessions : o # s => sess'[o] = sess[o]
  BY InvalidateStep
<1>8. mine.op = "remove_mets" /\ DOMAIN mine.rows = {i}
  BY DEF Step
<1> HIDE DEF mine, new
<1>9. /\ Loaded(s) /\ sess[s].row.status = "failed_qc" /\ sess[s].row = batches[b]
      /\ Head(t) = t[1] /\ Len(t) \in Nat \ {0} /\ t \in Seq(StepSet) /\ t[1] \in StepSet
      /\ Ordered(t)
  BY <1>3, <1>4, Began, FirstStep DEF InStep, SessionInStep
<1>10. StepInStep(s, t[1]) /\ CopiesInStep(s) /\ Editing(s)
  BY <1>9 DEF IssuesAgree, StepsInStep, Editing
<1>11. /\ ~Redone(DOMAIN sess[s].copies)
       /\ \A k \in DOMAIN Rows(s) : /\ k \in DOMAIN sess[s].copies /\ Rows(s)[k] = issues[k]
                                    /\ issues[k].batch = b
  BY <1>3, <1>4, <1>10 DEF StepInStep
<1>12. issues[i] \in IssueRow /\ issues \in [Issues -> IssueRow] /\ issues[i].batch = b
       /\ IssueInStep(i) /\ b # 0
  BY <1>3, <1>4, <1>9, <1>11 DEF Typed, IssuesTyped, IssuesAgree, Loaded
<1>13. ~issues[i].ignored /\ files[i]
  <2>1. batches[b].status \notin Out
    BY <1>9 DEF Out
  <2>2. ~issues[i].ignored
    BY <1>12, <2>1 DEF IssueInStep
  <2> QED
    BY <1>12, <2>2 DEF IssueInStep, Typed, IssuesTyped
<1>14. row.batch = 0 /\ row.ws \in SentTo /\ ~row.ignored
  <2>1. row = Invalidated(issues[i], t[1].ws) /\ t[1].ws \in Steps
    BY <1>2, <1>4, <1>11 DEF SentTo, Steps
  <2> QED
    BY <1>4, <1>12, <1>13, <2>1, IssueInvalidated
<1>15. issues'[i] = row /\ \A k \in Issues : k # i => issues'[k] = issues[k]
  BY <1>5, <1>12
<1>16. BatchIds' = BatchIds /\ batches' = batches /\ 0 \notin BatchIds
       /\ \A o : BuildingOf(o)' = BuildingOf(o)
  BY <1>5, BatchesAreNumbered DEF BatchIds, BuildingOf
<1>17. ASSUME NEW k \in Issues PROVE IssueInStep(k)'
  <2>1. CASE k = i
    BY <1>5, <1>13, <1>14, <1>15, <2>1 DEF IssueInStep, SentTo
  <2>2. CASE k # i
    <3>1. IssueInStep(k) /\ issues'[k] = issues[k]
      BY <1>15, <2>2 DEF IssuesAgree
    <3> QED
      BY <1>5, <1>16, <3>1, IssueKept DEF Onward
  <2> QED
    BY <2>1, <2>2
<1>18. \A p \in pipes : p.kind = "redo" => p.about # i /\ p.about \in Issues
  BY <1>4, <1>11 DEF Redone, Typed, PipesTyped
<1>19. RedosInStep'
  BY <1>5, <1>15, <1>18, RedosKept DEF IssuesAgree, InFailed
<1>20. CopiesInStep(s)'
  <2>1. InBatch(b)' \subseteq InBatch(b)
    BY <1>12, <1>14, <1>15 DEF InBatch
  <2>2. InBatch(sess[s].batch)' \subseteq DOMAIN sess'[s].copies
    <3>1. InBatch(sess[s].batch)' = InBatch(b)'
      BY <1>6 DEF InBatch
    <3> QED
      BY <1>3, <1>5, <1>9, <1>10, <2>1, <3>1 DEF CopiesInStep
  <2>3. sess'[s].todo[1].op = "remove_mets" /\ sess'[s].todo # <<>>
    <3>1. Len(new) # 0
      BY <1>4, <1>6, LenProperties
    <3> QED
      BY <1>6, <1>8, <3>1, EmptySeq
  <2>4. ASSUME NEW k \in DOMAIN sess[s].copies PROVE CopyInStep(s, k)'
    <3>1. k \in Issues
      BY RowsOf DEF Typed, SessionsTyped, SessionSet
    <3>2. CASE k = i
      <4>1. sess'[s].copies[k] = row /\ issues'[k] = row
        BY <1>5, <1>15, <3>2
      <4> QED
        BY <1>14, <2>3, <4>1 DEF CopyInStep
    <3>3. CASE k # i
      <4>1. sess'[s].copies[k] = sess[s].copies[k] /\ issues'[k] = issues[k]
        BY <1>5, <1>15, <3>1, <3>3
      <4>2. CopyInStep(s, k)
        BY <1>9, <1>10 DEF CopiesInStep
      <4> QED
        BY <1>3, <1>6, <2>3, <4>1, <4>2 DEF CopyInStep
    <3> QED
      BY <3>2, <3>3
  <2> QED
    BY <1>5, <2>2, <2>4 DEF CopiesInStep
<1>21. ~Redone(DOMAIN sess[s].copies)'
  BY <1>5, <1>11 DEF Redone
<1>22. ASSUME NEW x, x.op \notin {"remove_mets", "redo", "invalidate"} PROVE StepInStep(s, x)'
  BY <1>21, <1>22 DEF StepInStep
<1>23. PICK r : r = [k \in DOMAIN Rows(s) \ {First(s)} |-> Rows(s)[k]]
  OBVIOUS
<1>24. /\ DOMAIN r = DOMAIN Rows(s) \ {i} /\ \A k \in DOMAIN r : r[k] = Rows(s)[k]
       /\ DOMAIN r \subseteq Issues
       /\ DOMAIN r = {} => Taken(s) = Tail(t)
       /\ DOMAIN r # {} =>
            /\ Len(Taken(s)) = Len(t) /\ Taken(s)[1] = Step(t[1].op, r, t[1].ws)
            /\ \A n \in 2..Len(t) : Taken(s)[n] = t[n]
  <2>1. DOMAIN Rows(s) \subseteq Issues
    BY <1>4, <1>9, TakenIs, RowsOf
  <2>2. /\ DOMAIN r = {} => Taken(s) = Tail(t)
        /\ DOMAIN r # {} =>
             /\ Len(Taken(s)) = Len(t) /\ Taken(s)[1] = Step(t[1].op, r, t[1].ws)
             /\ \A n \in 2..Len(t) : Taken(s)[n] = t[n]
    BY <1>4, <1>9, <1>23, TakenIs
  <2> QED
    BY <1>1, <1>23, <2>1, <2>2
<1>25. ASSUME NEW n \in 2..Len(t) PROVE \E x : x = t[n] /\ StepInStep(s, x)'
  <2>1. t[n].op \notin {"remove_mets", "redo", "invalidate"}
    BY <1>4, <1>9, LaterSteps
  <2>2. PICK x : x = t[n] /\ x.op \notin {"remove_mets", "redo", "invalidate"}
    BY <2>1
  <2> QED
    BY <1>22, <2>2
<1>26. ASSUME NEW m \in 1..Len(Taken(s)) PROVE \E x : x = Taken(s)[m] /\ StepInStep(s, x)'
  <2>1. CASE DOMAIN r = {}
    <3>1. m + 1 \in 2..Len(t) /\ Taken(s)[m] = t[m + 1]
      <4>1. Taken(s) = Tail(t)
        BY <1>24, <2>1
      <4>2. /\ Len(Taken(s)) = Len(t) - 1
            /\ \A n \in 1..Len(t) - 1 : Taken(s)[n] = t[n + 1]
        BY <1>4, <4>1, FirstStep
      <4> QED
        BY <1>9, <4>2
    <3> QED
      BY <1>25, <3>1
  <2>2. CASE DOMAIN r # {} /\ m = 1
    <3>1. PICK x : x = Step(t[1].op, r, t[1].ws)
      OBVIOUS
    <3>2. x.op = "invalidate" /\ x.rows = r /\ x = Taken(s)[m]
      BY <1>4, <1>24, <2>2, <3>1 DEF Step
    <3>3. \A k \in DOMAIN x.rows : /\ k \in DOMAIN sess'[s].copies /\ x.rows[k] = issues'[k]
                                   /\ issues'[k].batch = sess'[s].batch
      BY <1>5, <1>6, <1>11, <1>15, <1>24, <3>2
    <3>4. StepInStep(s, x)'
      BY <1>6, <1>9, <1>21, <3>2, <3>3 DEF StepInStep
    <3> QED
      BY <3>2, <3>4
  <2>3. CASE DOMAIN r # {} /\ m # 1
    <3>1. m \in 2..Len(t) /\ Taken(s)[m] = t[m]
      BY <1>9, <1>24, <2>3
    <3> QED
      BY <1>25, <3>1
  <2> QED
    BY <2>1, <2>2, <2>3
<1>27. ASSUME NEW n \in 1..Len(sess'[s].todo) PROVE StepInStep(s, sess[s].todo[n])'
  <2>1. Len(Taken(s)) \in Nat
    BY <1>4, LenProperties
  <2>2. CASE n = 1
    <3>1. PICK x : x = mine
      OBVIOUS
    <3>2. \A k \in DOMAIN x.rows : issues'[k].ws \in SentTo
      BY <1>8, <1>14, <1>15, <3>1
    <3>3. StepInStep(s, x)'
      BY <1>8, <1>21, <3>1, <3>2 DEF StepInStep
    <3>4. sess'[s].todo[n] = x
      BY <1>6, <2>2, <3>1
    <3> QED
      BY <3>3, <3>4
  <2>3. CASE n # 1
    <3>1. n - 1 \in 1..Len(Taken(s)) /\ sess'[s].todo[n] = Taken(s)[n - 1]
      BY <1>6, <2>1, <2>3
    <3>2. PICK x : x = Taken(s)[n - 1] /\ StepInStep(s, x)'
      BY <1>26, <3>1
    <3> QED
      BY <3>1, <3>2
  <2> QED
    BY <2>2, <2>3
<1>28. StepsInStep(s)'
  BY <1>27 DEF StepsInStep
<1>29. ASSUME NEW o \in Sessions, o # s PROVE CopiesInStep(o)' /\ StepsInStep(o)'
  <2>1. sess'[o] = sess[o] /\ sess[o].batch # b
    BY <1>3, <1>7, <1>9, <1>29 DEF InStep, SessionsApart
  <2>2. issues[i].ws \notin SentTo
    BY <1>12 DEF IssueInStep
  <2>3. /\ \A k \in Issues : issues[k].batch = sess[o].batch => issues'[k] = issues[k]
        /\ \A k \in Issues : issues[k].ws \in SentTo => issues'[k] = issues[k]
        /\ \A k \in Issues : Loaded(o) /\ issues'[k].batch = sess[o].batch =>
                             issues[k].batch = sess[o].batch
    BY <1>12, <1>14, <1>15, <2>1, <2>2 DEF Loaded
  <2> QED
    BY <1>5, <2>1, <2>3, SessionAgrees
<1>30. PurgeInStep'
  <2>1. DOMAIN purge.list \subseteq Issues
    BY RowsOf DEF Typed, PurgeTyped, PurgeSet
  <2> QED
    BY <1>5, <1>13, <1>15, <2>1, PurgeKept DEF IssuesAgree
<1>31. ASSUME NEW o \in BatchIds PROVE Holds(o)'
  <2>1. CASE o = b
    <3>1. BuildingOf(o) = {} /\ o \notin Shown'
      <4>1. batches[b].status = "failed_qc" /\ BatchInStep(b)
        BY <1>9 DEF InStep
      <4> QED
        BY <1>16, <2>1, <4>1, NotBuiltOnceShown DEF Shown
    <3> QED
      BY <1>16, <3>1 DEF Holds
  <2>2. CASE o # b
    <3>1. InBatch(o)' = InBatch(o)
      BY <1>12, <1>14, <1>15, <1>16, <2>2 DEF InBatch
    <3>2. o \in Shown' => o \in Shown
      BY <1>16 DEF Shown
    <3> QED
      BY <1>5, <1>16, <3>1, <3>2, HoldsKept DEF IssuesAgree
  <2> QED
    BY <2>1, <2>2
<1>32. \A o \in Sessions : CopiesInStep(o)' /\ StepsInStep(o)'
  BY <1>20, <1>28, <1>29
<1> QED
  BY <1>16, <1>17, <1>19, <1>30, <1>31, <1>32 DEF IssuesAgree

(* A batch is deleted, and its issues are ready for another one.           *)
LEMMA DeleteAgrees ==
  ASSUME Typed, InStep, IssuesAgree, NEW s \in Sessions, Delete(s)
  PROVE  IssuesAgree'
<1> DEFINE t == sess[s].todo
<1>1. PICK rows : /\ rows = IF DOMAIN sess[s].copies # {} THEN sess[s].copies
                            ELSE FindBatch(sess[s].batch).copies
                  /\ issues' = [i \in Issues |->
                       IF i \in DOMAIN rows THEN TakenOff(rows[i]) ELSE issues[i]]
  BY DEF Delete
<1>2. /\ t # <<>> /\ Head(t).op = "delete" /\ SaveBatch(s, "deleted")
      /\ UNCHANGED <<edits, files, mets, dirs, listed, pipes, purge>>
  BY DEF Delete, Doing
<1>3. t[1].op = "delete" /\ Len(t) \in Nat \ {0}
  BY <1>2, FirstStep
<1>4. PICK b \in BatchIds : b = sess[s].batch
  BY <1>2, FirstStep
<1>5. /\ Loaded(s) /\ BatchInStep(b) /\ sess[s].row \in BatchRow /\ sess[s].row = batches[b]
      /\ sess[s].row.status = "failed_qc" /\ Tail(t) = <<>>
  BY <1>2, <1>3, <1>4, Began DEF CanFollow
<1> DEFINE row == [sess[s].row EXCEPT !.status = "deleted", !.location = "none"]
<1>6. row.status = "deleted" /\ "deleted" \in Statuses
  BY <1>5, BatchSaved DEF Statuses
<1>7. /\ Len(batches') = Len(batches) /\ batches'[b] = row
      /\ \A o \in BatchIds : o # b => batches'[o] = batches[o]
      /\ sess'[s].batch = b /\ sess'[s].row = row /\ sess'[s].todo = Tail(t)
      /\ \A o \in Sessions : o # s => sess'[o] = sess[o]
  BY <1>2, <1>4, <1>6, SaveBatchTyped
<1> HIDE DEF row
<1>8. BatchIds' = BatchIds /\ 0 \notin BatchIds /\ \A o : BuildingOf(o)' = BuildingOf(o)
  BY <1>2, <1>7, BatchesAreNumbered DEF BatchIds, BuildingOf
<1>9. StepInStep(s, t[1]) /\ CopiesInStep(s) /\ Editing(s)
  BY <1>3, <1>5 DEF IssuesAgree, StepsInStep, Editing
<1>10. ~Redone(DOMAIN sess[s].copies) /\ InBatch(b) \subseteq DOMAIN sess[s].copies
  BY <1>3, <1>4, <1>5, <1>9 DEF StepInStep, CopiesInStep
<1>11. ASSUME NEW i \in DOMAIN sess[s].copies
       PROVE  /\ i \in Issues /\ issues[i] = sess[s].copies[i] /\ issues[i].batch \in {0, b}
              /\ issues[i].batch = b => issues[i].ws = "ReadyForBatching"
  <2>1. ~Redone({i})
    BY <1>10, <1>11 DEF Redone
  <2>2. /\ i \in Issues
        /\ issues[i].batch = b \/ issues[i].batch = 0
        /\ issues[i] = sess[s].copies[i]
        /\ sess[s].copies[i].batch # 0 => sess[s].copies[i].ws = "ReadyForBatching"
    BY <1>4, <1>5, <1>9, <1>11, <2>1, CopyFits
  <2> QED
    BY <1>8, <2>2
<1>12. rows = sess[s].copies \/ (DOMAIN rows = {} /\ InBatch(b) = {})
  <2>1. CASE DOMAIN sess[s].copies = {}
    <3>1. InBatch(b) = {} /\ IssuesOf(b) = {}
      BY <1>10, <2>1 DEF IssuesOf
    <3>2. FindBatch(b).copies = [i \in IssuesOf(b) |-> issues[i]]
      BY FindBatchTyped
    <3> QED
      BY <1>1, <1>4, <2>1, <3>1, <3>2
  <2>2. CASE DOMAIN sess[s].copies # {}
    BY <1>1, <2>2
  <2> QED
    BY <2>1, <2>2
<1>13. ASSUME NEW i \in Issues
       PROVE  IF i \in InBatch(b)
              THEN /\ issues'[i].batch = 0 /\ issues'[i].ws = "ReadyForBatching"
                   /\ issues'[i].ignored = issues[i].ignored
              ELSE issues'[i] = issues[i]
  <2>1. issues[i] \in IssueRow /\ 0 \in 0..MaxBatches
    BY LifeAssumption DEF Typed, IssuesTyped
  <2>2. CASE i \in DOMAIN rows
    <3> DEFINE u == [issues[i] EXCEPT !.batch = 0]
    <3>1. i \in DOMAIN sess[s].copies /\ rows[i] = sess[s].copies[i]
      BY <1>12, <2>2
    <3>2. issues'[i] = u
      BY <1>1, <1>11, <2>2, <3>1 DEF TakenOff
    <3>3. u.batch = 0 /\ u.ws = issues[i].ws /\ u.ignored = issues[i].ignored
      BY <2>1, IssueWith
    <3>4. issues[i].batch = 0 => u = issues[i]
      BY <2>1 DEF IssueRow
    <3> HIDE DEF u
    <3>5. issues[i].batch \in {0, b} /\ (issues[i].batch = b => issues[i].ws = "ReadyForBatching")
      BY <1>11, <3>1
    <3> QED
      BY <1>8, <3>2, <3>3, <3>4, <3>5 DEF InBatch
  <2>3. CASE i \notin DOMAIN rows
    <3>1. i \notin InBatch(b)
      BY <1>10, <1>12, <2>3
    <3> QED
      BY <1>1, <2>3, <3>1
  <2> QED
    BY <2>2, <2>3
<1>14. \A i \in InBatch(b) : /\ issues[i].batch = b /\ ~issues[i].ignored
                             /\ issues[i].ws = "ReadyForBatching"
                             /\ mets[i] = edits[i] /\ files[i]
  <2>1. ASSUME NEW i \in InBatch(b)
        PROVE  /\ issues[i].batch = b /\ ~issues[i].ignored
               /\ issues[i].ws = "ReadyForBatching" /\ mets[i] = edits[i] /\ files[i]
    <3>1. issues[i].batch = b /\ i \in Issues /\ IssueInStep(i) /\ batches[b].status \notin Out
      BY <1>5, <2>1 DEF InBatch, IssuesAgree, Out
    <3>2. issues[i].ws = "ReadyForBatching"
      BY <1>10, <1>11, <2>1, <3>1
    <3>3. ~issues[i].ignored /\ mets[i] = edits[i]
      BY <1>8, <3>1 DEF IssueInStep
    <3> QED
      BY <3>1, <3>2, <3>3 DEF IssueInStep, Typed, IssuesTyped
  <2> QED
    BY <2>1
<1>15. ASSUME NEW i \in Issues PROVE IssueInStep(i)'
  <2>1. CASE i \in InBatch(b)
    <3>1. /\ issues'[i].batch = 0 /\ issues'[i].ws = "ReadyForBatching" /\ ~issues'[i].ignored
          /\ mets'[i] = edits'[i] /\ files'[i]
      BY <1>2, <1>13, <1>14, <2>1
    <3> QED
      BY <3>1 DEF IssueInStep, SentTo
  <2>2. CASE i \notin InBatch(b)
    <3>1. IssueInStep(i) /\ issues'[i] = issues[i]
      BY <1>13, <2>2 DEF IssuesAgree
    <3>2. issues[i].batch # 0 => issues[i].batch \in BatchIds /\ issues[i].batch # b
      BY <2>2, <3>1 DEF IssueInStep, InBatch
    <3>3. issues[i].batch # 0 => Onward(issues[i].batch)
      BY <1>7, <3>2 DEF Onward
    <3> QED
      BY <1>2, <1>8, <3>1, <3>3, IssueKept
  <2> QED
    BY <2>1, <2>2
<1>16. RedosInStep'
  <2>1. ASSUME NEW p \in pipes, p.kind = "redo", InFailed(p.about)
        PROVE  /\ issues'[p.about].batch = issues[p.about].batch
               /\ batches'[issues[p.about].batch].status = "failed_qc"
    <3>1. p.about \in Issues /\ p.about \notin InBatch(b) /\ IssueInStep(p.about)
      BY <1>10, <2>1 DEF Redone, Typed, PipesTyped, IssuesAgree
    <3>2. issues[p.about].batch \in BatchIds /\ issues[p.about].batch # b
      BY <2>1, <3>1 DEF IssueInStep, InFailed, InBatch
    <3> QED
      BY <1>7, <1>13, <2>1, <3>1, <3>2 DEF InFailed
  <2> QED
    BY <1>2, <2>1, RedosKept DEF IssuesAgree
<1>17. CopiesInStep(s)' /\ StepsInStep(s)'
  <2>1. ~Editing(s)' /\ Len(sess'[s].todo) = 0
    BY <1>5, <1>6, <1>7, EmptySeq DEF Editing
  <2> QED
    BY <2>1 DEF CopiesInStep, StepsInStep
<1>18. ASSUME NEW o \in Sessions, o # s PROVE CopiesInStep(o)' /\ StepsInStep(o)'
  <2>1. sess'[o] = sess[o] /\ sess[o].batch # b
    BY <1>4, <1>5, <1>7, <1>18 DEF InStep, SessionsApart
  <2>2. \A k \in Issues : issues[k].batch = sess[o].batch => issues'[k] = issues[k]
    BY <1>13, <2>1 DEF InBatch
  <2>3. \A k \in Issues : issues[k].ws \in SentTo => issues'[k] = issues[k]
    BY <1>13, <1>14 DEF SentTo
  <2>4. \A k \in Issues : Loaded(o) /\ issues'[k].batch = sess[o].batch =>
                             issues[k].batch = sess[o].batch
    BY <1>13 DEF Loaded
  <2> QED
    BY <1>2, <2>1, <2>2, <2>3, <2>4, SessionAgrees
<1>19. PurgeInStep'
  <2>1. DOMAIN purge.list \subseteq Issues
    BY RowsOf DEF Typed, PurgeTyped, PurgeSet
  <2>2. ASSUME NEW i \in Issues, issues[i].ignored, batches[issues[i].batch].status = "live_done"
        PROVE  issues'[i] = issues[i] /\ batches'[issues[i].batch].status = "live_done"
    <3>1. i \notin InBatch(b) /\ issues[i].batch \in BatchIds
      BY <1>14, <2>2 DEF IssuesAgree, IssueInStep
    <3> QED
      BY <1>7, <1>13, <2>2, <3>1 DEF InBatch
  <2> QED
    BY <1>2, <2>1, <2>2, PurgeKept DEF IssuesAgree
<1>20. ASSUME NEW o \in BatchIds PROVE Holds(o)'
  <2>1. CASE o = b
    <3>1. BuildingOf(o) = {} /\ o \notin Shown'
      BY <1>5, <1>6, <1>7, <2>1, NotBuiltOnceShown DEF Shown
    <3> QED
      BY <1>8, <3>1 DEF Holds
  <2>2. CASE o # b
    <3>1. InBatch(o)' = InBatch(o)
      BY <1>8, <1>13, <2>2 DEF InBatch
    <3>2. o \in Shown' => o \in Shown
      BY <1>7, <1>8, <2>2 DEF Shown
    <3> QED
      BY <1>2, <1>8, <3>1, <3>2, HoldsKept DEF IssuesAgree
  <2> QED
    BY <2>1, <2>2
<1>21. \A o \in Sessions : CopiesInStep(o)' /\ StepsInStep(o)'
  BY <1>17, <1>18
<1> QED
  BY <1>8, <1>15, <1>16, <1>19, <1>20, <1>21 DEF IssuesAgree

LEMMA SteppingAgrees ==
  ASSUME Patient, Typed, InStep, IssuesAgree, NEW s \in Sessions, Stepping(s)
  PROVE  IssuesAgree'
BY RemoveDirAgrees, RemoveMETSAgrees, KeepMETSAgrees, ReloadAgrees, DeleteAgrees, SaveAgrees, QueueAgrees,
   InvalidateAgrees, RedoQueuedAgrees DEF Stepping

(* Rows and files of issues change which are out of everybody's hands.     *)
LEMMA OutIssuesChange ==
  ASSUME Typed, InStep, IssuesAgree, UNCHANGED <<edits, mets, batches, dirs, listed, pipes, sess>>,
         \A i \in Issues :
           \/ issues'[i] = issues[i] /\ files'[i] = files[i]
           \/ /\ issues[i].batch # 0 /\ issues'[i].batch = issues[i].batch
              /\ issues'[i].ws = "InProduction" /\ issues'[i].ignored
              /\ \/ batches[issues[i].batch].status = "live_done"
                 \/ batches[issues[i].batch].status = "live" /\ files'[i] = files[i],
         PurgeInStep'
  PROVE  IssuesAgree'
<1>1. BatchIds' = BatchIds /\ 0 \notin BatchIds /\ \A o : BuildingOf(o)' = BuildingOf(o)
  BY BatchesAreNumbered DEF BatchIds, BuildingOf
<1>2. ASSUME NEW i \in Issues
      PROVE  IssueInStep(i) /\ issues'[i].batch = issues[i].batch
             /\ (issues'[i] = issues[i] \/ batches[issues[i].batch].status \in Out)
  BY <1>2 DEF IssuesAgree, Out
<1>3. ASSUME NEW i \in Issues PROVE IssueInStep(i)'
  <2>1. CASE issues'[i] = issues[i] /\ files'[i] = files[i]
    BY <1>1, <1>2, <2>1, IssueKept DEF Onward
  <2>2. CASE /\ issues[i].batch # 0 /\ issues'[i].batch = issues[i].batch
             /\ issues'[i].ws = "InProduction" /\ issues'[i].ignored
             /\ \/ batches[issues[i].batch].status = "live_done"
                \/ batches[issues[i].batch].status = "live" /\ files'[i] = files[i]
    <3>1. mets[i] = edits[i] /\ issues[i].batch \in BatchIds
      BY <1>2, <2>2 DEF IssueInStep
    <3>2. ~files'[i] => batches[issues[i].batch].status = "live_done"
      BY <1>2, <2>2 DEF IssueInStep
    <3> QED
      BY <1>1, <2>2, <3>1, <3>2 DEF IssueInStep, SentTo, Out
  <2> QED
    BY <2>1, <2>2
<1>4. RedosInStep'
  BY <1>2, RedosKept DEF IssuesAgree, InFailed, Typed, PipesTyped
<1>5. ASSUME NEW s \in Sessions PROVE CopiesInStep(s)' /\ StepsInStep(s)'
  <2>1. Loaded(s) => batches[sess[s].batch].status \notin Out
    BY DEF InStep, SessionInStep, HasBatch, Out
  <2>2. /\ \A i \in Issues : Loaded(s) /\ issues[i].batch = sess[s].batch =>
                               issues'[i] = issues[i]
        /\ \A i \in Issues : issues'[i].batch = issues[i].batch
    BY <1>2, <2>1
  <2>3. \A i \in Issues : issues[i].ws \in SentTo => issues'[i] = issues[i]
    BY <1>2 DEF IssueInStep
  <2> QED
    BY <2>2, <2>3, SessionAgrees
<1>6. ASSUME NEW b \in BatchIds PROVE Holds(b)'
  <2>1. InBatch(b)' = InBatch(b)
    BY <1>2 DEF InBatch
  <2>2. b \in Shown' => b \in Shown
    BY <1>1 DEF Shown
  <2> QED
    BY <1>1, <2>1, <2>2, HoldsKept DEF IssuesAgree
<1> QED
  BY <1>1, <1>3, <1>4, <1>5, <1>6 DEF IssuesAgree

LEMMA IgnoreAgrees ==
  ASSUME Typed, InStep, IssuesAgree, IgnoreIssues
  PROVE  IssuesAgree'
<1>1. /\ issues' = [i \in Issues |->
                     IF issues[i].batch # 0 /\ batches[issues[i].batch].status = "live"
                     THEN [issues[i] EXCEPT !.ignored = TRUE, !.ws = "InProduction"]
                     ELSE issues[i]]
      /\ UNCHANGED <<edits, files, mets, batches, dirs, listed, pipes, sess, purge>>
  BY DEF IgnoreIssues, batchVars
<1>2. ASSUME NEW i \in Issues
      PROVE  \/ issues'[i] = issues[i]
             \/ /\ issues[i].batch # 0 /\ issues'[i].batch = issues[i].batch
                /\ issues'[i].ws = "InProduction" /\ issues'[i].ignored
                /\ batches[issues[i].batch].status = "live"
  <2> DEFINE u == [issues[i] EXCEPT !.ignored = TRUE, !.ws = "InProduction"]
  <2>1. u.ws = "InProduction" /\ u.batch = issues[i].batch /\ u.ignored
    BY IssueDone DEF Typed, IssuesTyped
  <2>2. issues'[i] = IF issues[i].batch # 0 /\ batches[issues[i].batch].status = "live"
                     THEN u ELSE issues[i]
    BY <1>1
  <2> HIDE DEF u
  <2> QED
    BY <2>1, <2>2
<1>3. PurgeInStep'
  <2>1. DOMAIN purge.list \subseteq Issues
    BY RowsOf DEF Typed, PurgeTyped, PurgeSet
  <2>2. \A i \in Issues : batches[issues[i].batch].status = "live_done" => issues'[i] = issues[i]
    BY <1>2
  <2> QED
    BY <1>1, <2>1, <2>2, PurgeKept DEF IssuesAgree
<1> QED
  BY <1>1, <1>2, <1>3, OutIssuesChange

LEMMA PurgeAgrees ==
  ASSUME Typed, InStep, IssuesAgree,
         \/ StartPurge \/ FindCompletedIssues \/ EndPurge \/ PurgeDies
         \/ \E i \in Issues : RemoveFiles(i) \/ SaveLocation(i)
  PROVE  IssuesAgree'
<1>1. UNCHANGED <<edits, mets, batches, dirs, listed, pipes, sess>>
  BY DEF StartPurge, FindCompletedIssues, EndPurge, PurgeDies, RemoveFiles, SaveLocation,
     OnlyPurge, issueVars, batchVars
<1>2. /\ purge \in PurgeSet /\ DOMAIN purge.list \subseteq Issues /\ PurgeInStep
      /\ purge.pc = "removed" => purge.close \subseteq DOMAIN purge.list
  BY RowsOf DEF Typed, PurgeTyped, PurgeSet, IssuesAgree
<1>3. CASE StartPurge \/ EndPurge \/ PurgeDies
  <2>1. UNCHANGED <<issues, files>>
    BY <1>3 DEF StartPurge, EndPurge, PurgeDies, issueVars
  <2>2. purge'.pc \in {"idle", "closing"}
    <3> DEFINE u == [NotPurging EXCEPT !.pc = "closing", !.close = LiveArchived]
    <3>1. NotPurging \in PurgeSet /\ NotPurging.pc = "idle"
      BY PurgeWritten DEF Typed
    <3>2. purge' = u \/ purge' = NotPurging
      BY <1>3 DEF StartPurge, EndPurge, PurgeDies
    <3>3. u.pc = "closing"
      BY <3>1 DEF PurgeSet
    <3> HIDE DEF u
    <3> QED
      BY <3>1, <3>2, <3>3
  <2>3. PurgeInStep'
    BY <2>2 DEF PurgeInStep
  <2> QED
    BY <1>1, <2>1, <2>3, OutIssuesChange
<1>4. CASE FindCompletedIssues
  <2> DEFINE f == [i \in Completed |-> issues[i]]
             u == [purge EXCEPT !.pc = "removing", !.list = f]
  <2>1. purge' = u /\ UNCHANGED <<issues, files>>
    BY <1>4 DEF FindCompletedIssues
  <2>2. u.list = f
    BY <1>2 DEF PurgeSet
  <2>3. \A i \in DOMAIN f : /\ f[i] = issues[i] /\ issues[i].ignored
                            /\ batches[issues[i].batch].status = "live_done"
    BY DEF Completed
  <2> HIDE DEF f, u
  <2>4. PurgeInStep'
    BY <1>1, <2>1, <2>2, <2>3 DEF PurgeInStep
  <2> QED
    BY <1>1, <2>1, <2>4, OutIssuesChange
<1>5. ASSUME NEW i \in Issues, RemoveFiles(i) PROVE IssuesAgree'
  <2> DEFINE u == [purge EXCEPT !.pc = "removed", !.close = {i}]
  <2>1. /\ purge' = u /\ issues' = issues /\ files' = [files EXCEPT ![i] = FALSE]
        /\ purge.pc = "removing" /\ i \in DOMAIN purge.list
    BY <1>5 DEF RemoveFiles
  <2>2. u.list = purge.list
    BY <1>2 DEF PurgeSet
  <2> HIDE DEF u
  <2>3. issues[i].ignored /\ batches[issues[i].batch].status = "live_done"
    BY <1>2, <2>1 DEF PurgeInStep
  <2>4. PurgeInStep'
    BY <1>1, <1>2, <2>1, <2>2 DEF PurgeInStep
  <2>5. issues[i].ws = "InProduction" /\ issues[i].batch # 0
    BY <2>3 DEF IssuesAgree, IssueInStep
  <2>6. \A k \in Issues : k # i => files'[k] = files[k]
    BY <2>1 DEF Typed, IssuesTyped
  <2> QED
    BY <1>1, <2>1, <2>3, <2>4, <2>5, <2>6, OutIssuesChange
<1>6. ASSUME NEW i \in Issues, SaveLocation(i) PROVE IssuesAgree'
  <2> DEFINE f == [k \in DOMAIN purge.list \ {i} |-> purge.list[k]]
             u == [purge EXCEPT !.pc = "removing", !.close = {}, !.list = f]
             row == [purge.list[i] EXCEPT !.located = FALSE]
  <2>1. /\ purge' = u /\ files' = files /\ issues' = [issues EXCEPT ![i] = row]
        /\ purge.pc = "removed" /\ i \in DOMAIN purge.list
    BY <1>2, <1>6 DEF SaveLocation
  <2>2. u.list = f
    BY <1>2 DEF PurgeSet
  <2>3. DOMAIN f \subseteq DOMAIN purge.list \ {i} /\ \A k \in DOMAIN f : f[k] = purge.list[k]
    OBVIOUS
  <2>4. /\ issues[i].ignored /\ batches[issues[i].batch].status = "live_done"
        /\ purge.list[i] = issues[i]
    BY <1>2, <2>1 DEF PurgeInStep
  <2>5. issues[i].ws = "InProduction" /\ issues[i].batch # 0 /\ issues[i] \in IssueRow
    BY <2>4 DEF IssuesAgree, IssueInStep, Typed, IssuesTyped
  <2>6. row.ws = "InProduction" /\ row.ignored /\ row.batch = issues[i].batch
    BY <2>4, <2>5, IssueDone
  <2> HIDE DEF f, u, row
  <2>7. issues'[i] = row /\ \A k \in Issues : k # i => issues'[k] = issues[k]
    BY <2>1 DEF Typed, IssuesTyped
  <2>8. PurgeInStep'
    <3>1. ASSUME NEW k \in DOMAIN f
          PROVE  /\ issues'[k] = f[k] /\ issues'[k].ignored
                 /\ batches[issues'[k].batch].status = "live_done"
      BY <1>2, <2>1, <2>3, <2>7, <3>1 DEF PurgeInStep
    <3> QED
      BY <1>1, <2>1, <2>2, <3>1 DEF PurgeInStep
  <2> QED
    BY <1>1, <2>1, <2>4, <2>5, <2>6, <2>7, <2>8, OutIssuesChange
<1> QED
  BY <1>3, <1>4, <1>5, <1>6

LEMMA IssuesAgreeAtFirst == Init => IssuesAgree
<1> SUFFICES ASSUME Init PROVE IssuesAgree
  OBVIOUS
<1>1. BatchIds = {}
  BY EmptySeq DEF Init, BatchIds
<1>2. \A s \in Sessions : sess[s].batch = 0 /\ Len(sess[s].todo) = 0
  BY EmptySeq DEF Init, NotLoaded
<1>3. \A s \in Sessions : CopiesInStep(s) /\ StepsInStep(s)
  BY <1>2 DEF CopiesInStep, StepsInStep, Loaded
<1>4. \A i \in Issues : IssueInStep(i)
  BY DEF Init, IssueInStep, SentTo
<1>5. RedosInStep /\ PurgeInStep
  BY DEF Init, RedosInStep, PurgeInStep, NotPurging
<1> QED
  BY <1>1, <1>3, <1>4, <1>5 DEF IssuesAgree

LEMMA IssuesAgreeKept ==
  Undisturbed /\ Patient /\ Typed /\ InStep /\ IssuesAgree /\ [Next]_vars => IssuesAgree'
<1> SUFFICES ASSUME Undisturbed, Patient, Typed, InStep, IssuesAgree, [Next]_vars
             PROVE  IssuesAgree'
  OBVIOUS
<1>1. CASE UNCHANGED vars
  <2>1. UNCHANGED <<issues, files, edits, mets, batches, dirs, listed, pipes, sess, purge>>
    BY <1>1 DEF vars, issueVars, batchVars
  <2>2. PurgeInStep'
    BY <2>1, PurgeKept DEF IssuesAgree
  <2> QED
    BY <2>1, <2>2, OutIssuesChange
<1>2. CASE QueueBatches
  BY <1>2, QueueBatchesAgrees
<1>3. ASSUME NEW i \in Issues, Finalize(i) PROVE IssuesAgree'
  BY <1>3, FinalizeAgrees
<1>4. ASSUME NEW p \in pipes, RunJob(p) PROVE IssuesAgree'
  <2>1. p.kind \in {"make", "redo"}
    BY DEF Typed, PipesTyped, PipeSet
  <2> QED
    BY <1>4, <2>1, MakeAgrees, RedoAgrees
<1>5. ASSUME NEW s \in Sessions, Fixing(s) \/ Stepping(s) \/ SessionDies(s) PROVE IssuesAgree'
  BY <1>5, FixingAgrees, SteppingAgrees
<1>6. CASE Hand \/ Time
  BY <1>6, IgnoreAgrees, HandAgrees DEF Hand, Time
<1>7. CASE DryRun \/ \E b \in BatchIds : Close(b)
  BY <1>7, ClosingAgrees
<1>8. CASE \/ StartPurge \/ FindCompletedIssues \/ EndPurge \/ PurgeDies
           \/ \E i \in Issues : RemoveFiles(i) \/ SaveLocation(i)
  BY <1>8, PurgeAgrees
<1> QED
  BY <1>1, <1>2, <1>3, <1>4, <1>5, <1>6, <1>7, <1>8 DEF Next, Purge

LEMMA AllAgree == Undisturbed /\ Patient => (Spec => [](Typed /\ InStep /\ IssuesAgree))
<1> SUFFICES ASSUME Undisturbed, Patient PROVE Spec => [](Typed /\ InStep /\ IssuesAgree)
  OBVIOUS
<1>1. Typed /\ InStep /\ IssuesAgree /\ [Next]_vars => InStep' /\ IssuesAgree'
  BY InStepKept, IssuesAgreeKept
<1> QED
  BY <1>1, InStepAtFirst, IssuesAgreeAtFirst, Types, PTL DEF Spec

(* Where sessions have their batches to themselves, and people wait for the
   derivatives they ask for, what is shown in staging and production is what
   was reviewed: the directory has the issues whose rows name the batch, with
   the METS files of their last metadata, and the XML lists the same ones
   (linkFiles and MakeBatchXML, whatever batch-fixer did before).           *)
THEOREM ShownIsReviewed == Undisturbed /\ Patient => (Spec => []ShownAsReviewed)
<1> SUFFICES ASSUME Undisturbed, Patient PROVE Spec => []ShownAsReviewed
  OBVIOUS
<1>1. Typed /\ InStep /\ IssuesAgree => ShownAsReviewed
  <2> SUFFICES ASSUME IssuesAgree, NEW b \in Shown, dirs[b].final # NoDir
               PROVE  /\ dirs[b].final = {<<i, edits[i]>> : i \in InBatch(b)}
                      /\ listed[b] = InBatch(b)
    BY DEF ShownAsReviewed
  <2>1. Holds(b)
    BY DEF IssuesAgree, Shown
  <2> QED
    BY <2>1 DEF Holds, Reviewed
<1> QED
  BY <1>1, AllAgree, PTL

(* ... and no issue is lost: batch-fixer's commands, which write rows as they
   were loaded, leave each issue where people, queue-batches or a pipeline
   will find it, wherever a session dies (invalidateFromBatch, Batch.Delete,
   QueueForceDerivatives).                                                  *)
THEOREM NoneLost == Undisturbed /\ Patient => (Spec => []NoIssueLost)
<1> SUFFICES ASSUME Undisturbed, Patient PROVE Spec => []NoIssueLost
  OBVIOUS
<1>1. Typed /\ InStep /\ IssuesAgree => NoIssueLost
  <2> SUFFICES ASSUME Typed, IssuesAgree, NEW i \in Issues
               PROVE  \/ issues[i].ws \in SentTo /\ issues[i].batch = 0
                      \/ /\ issues[i].ws = "ReadyForBatching" /\ issues[i].batch = 0
                         /\ mets[i] = edits[i]
                      \/ issues[i].batch # 0 /\ batches[issues[i].batch].status # "deleted"
    BY DEF NoIssueLost
  <2>1. IssueInStep(i) /\ issues[i].ws \in Steps
    BY DEF IssuesAgree, Typed, IssuesTyped, IssueRow
  <2> QED
    BY <2>1 DEF IssueInStep, Steps, SentTo
<1> QED
  BY <1>1, AllAgree, PTL

(* ... and files go from the disk only when their issue is in production, in
   a batch that was archived four weeks ago and is marked as done: the purge
   acts on rows it read earlier, and nobody changes them in between
   (Batch.Close; FindCompletedIssuesReadyForRemoval and what purgeIssues does
   with its issues).                                                        *)
THEOREM RemovedLast == Undisturbed /\ Patient => (Spec => []RemovedOnlyWhenDone)
<1> SUFFICES ASSUME Undisturbed, Patient PROVE Spec => []RemovedOnlyWhenDone
  OBVIOUS
<1>1. Typed /\ InStep /\ IssuesAgree => RemovedOnlyWhenDone
  <2> SUFFICES ASSUME Typed, InStep, IssuesAgree, NEW i \in Issues, ~files[i]
               PROVE  /\ issues[i].batch # 0 /\ issues[i].ignored
                      /\ batches[issues[i].batch].status = "live_done"
                      /\ batches[issues[i].batch].archived = "four-weeks-ago"
    BY DEF RemovedOnlyWhenDone
  <2>1. IssueInStep(i)
    BY DEF IssuesAgree
  <2>2. /\ issues[i].batch # 0 /\ issues[i].ignored /\ issues[i].batch \in BatchIds
        /\ batches[issues[i].batch].status = "live_done"
    BY <2>1 DEF IssueInStep
  <2>3. BatchInStep(issues[i].batch)
    BY <2>2 DEF InStep
  <2> QED
    BY <2>2, <2>3 DEF BatchInStep
<1> QED
  BY <1>1, AllAgree, PTL
=============================================================================

---------------------------- MODULE IntakeProofs ----------------------------
(***************************************************************************)
(* Proofs, for any uploads, clients, failures, deaths and requeues, that   *)
(* the pages of an upload are always somewhere in one piece, that none is  *)
(* taken in twice, that curators are given whole issues, and that an issue *)
(* is taken out of the workflow by nobody but the pipeline that does so.   *)
(*                                                                         *)
(* The three assumptions of Careful are those of the run; the code sees to *)
(* none of them.  No two clients are at one issue at a time, nobody        *)
(* touches an issue that a tool for removing issues has loaded, and jobs   *)
(* that only write the issue's row do not fail for good.                   *)
(***************************************************************************)
EXTENDS Intake, FiniteSetTheorems, SequenceTheorems, TLAPS

RowTypes == {"set-step", "locate", "ignore"}
RowJobsSucceed == Failing \cap RowTypes = {}

Careful == Alone /\ Undisturbed /\ RowJobsSucceed

----------------------------------------------------------------------------
(* Plans.  A pipeline is one of three kinds, for the row r and from a      *)
(* directory.  When it has come to its n'th job, the issue is whole in one *)
(* directory (Home), another may be half removed (Drain), and its row is   *)
(* as the jobs so far have made it.                                        *)

Kinds == {"review", "derive", "remove"}

JobsOf(kind, r, from) ==
  IF kind = "review" THEN QueueSFTPIssueMove(r, from)
  ELSE IF kind = "derive" THEN QueueMoveIssueForDerivatives(r, from)
  ELSE GetJobsForRemoveErroredIssue(r, from)

Length(kind) == IF kind = "review" THEN 11 ELSE 7

Home(kind, n) ==
  IF kind = "remove"
  THEN IF n = 1 THEN "from" ELSE IF n <= 4 THEN "error-wip" ELSE "error"
  ELSE IF n <= 2 THEN "from"
  ELSE IF n <= 4 THEN "wip"
  ELSE IF kind = "derive" \/ n <= 7 THEN "workflow"
  ELSE IF n <= 9 THEN "review-wip" ELSE "review"

Drain(kind, n) ==
  IF kind = "remove" THEN IF n = 2 THEN "from" ELSE "none"
  ELSE IF n = 3 THEN "from"
  ELSE IF kind = "review" /\ n = 8 THEN "workflow" ELSE "none"

Dir(place, r, from) == IF place = "from" THEN from ELSE <<place, r>>

Located(kind, n) ==
  IF kind = "remove"
  THEN IF n <= 3 THEN "from" ELSE IF n <= 6 THEN "error-wip" ELSE "nowhere"
  ELSE IF n <= 5 THEN "from"
  ELSE IF kind = "review" /\ n >= 11 THEN "review" ELSE "workflow"

LocOf(kind, r, from, n) ==
  IF Located(kind, n) = "nowhere" THEN Nowhere ELSE Dir(Located(kind, n), r, from)

StepAt(kind, n) ==
  IF n <= Length(kind) THEN "AwaitingProcessing"
  ELSE IF kind = "review" THEN "AwaitingPageReview"
  ELSE IF kind = "derive" THEN "ReadyForMetadataEntry" ELSE "UnfixableMetadataError"

Ignored(kind, n) == IF kind = "remove" /\ n >= 6 THEN TRUE ELSE FALSE

(* page-review-issue-fixer, and it alone, takes an issue that was in review
   back into processing.                                                   *)
RowFits(x, kind, r, from, n) ==
  /\ x.loc = LocOf(kind, r, from, n)
  /\ x.ignored = Ignored(kind, n)
  /\ \/ x.ws = StepAt(kind, n)
     \/ kind = "review" /\ n = 12 /\ x.ws = "AwaitingProcessing"

(* Where the directory a pipeline begins with can be.                      *)
FromFits(kind, r, from) ==
  \/ kind \in {"review", "derive"} /\ from = Upload(rows[r].from)
  \/ kind = "derive" /\ from = <<"no-touchie", r>>
  \/ kind = "remove" /\ from \in {<<"workflow", r>>, <<"review", r>>}

(* The pipeline p has come to its n'th job.                                *)
At(p, n) ==
  LET st == pipes[p].st
      type == pipes[p].jobs[n].type
  IN  /\ n \in 1..Len(pipes[p].jobs) + 1
      /\ \A m \in 1..n - 1 : st[m] = "success"
      /\ n <= Len(pipes[p].jobs) =>
           \/ st[n] = "pending"
           \/ st[n] = "failed" /\ type \notin RowTypes
           \/ st[n] = "failed_done" /\ type = "work"
      /\ \A m \in n + 1..Len(pipes[p].jobs) :
           st[m] = "on_hold" \/ (st[n] = "failed_done" /\ st[m] = "failed_done")

Over(p) == \A n \in 1..Len(pipes[p].jobs) : pipes[p].st[n] \notin {"pending", "failed"}

Done(p) == \A n \in 1..Len(pipes[p].jobs) : pipes[p].st[n] = "success"

Last(p) == \A o \in About(pipes[p].row) \ {p} : o < p /\ Over(o) /\ ~pipes[o].removal

Took(p) == ~pipes[p].removal /\ pipes[p].st[2] = "success"
Taken(r) == \E p \in About(r) : Took(p)

FilesAt(r, home, drain) ==
  \A place \in Places : <<place, r>> # drain =>
    disk[<<place, r>>] = IF <<place, r>> = home THEN Pages ELSE {}

Fresh(r) ==
  /\ rows[r].ws = "AwaitingProcessing" /\ rows[r].loc = Upload(rows[r].from) /\ ~rows[r].ignored
  /\ \A place \in Places : disk[<<place, r>>] = {}

(* The pipeline p, the last one about its row, is of this kind and has come
   to its n'th job.                                                        *)
Stands(p, kind, from, n) ==
  LET r == pipes[p].row
      up == Upload(rows[r].from)
  IN  /\ kind \in Kinds /\ n \in 1..Length(kind) + 1
      /\ pipes[p].removal = (IF kind = "remove" THEN TRUE ELSE FALSE)
      /\ pipes[p].jobs = JobsOf(kind, r, from)
      /\ FromFits(kind, r, from)
      /\ Last(p) /\ At(p, n)
      /\ kind # "remove" => \A o \in About(r) \ {p} : Done(o)
      /\ RowFits(rows[r], kind, r, from, n)
      /\ FilesAt(r, Dir(Home(kind, n), r, from), Dir(Drain(kind, n), r, from))
      /\ IF from = up THEN About(r) = {p} /\ (n >= 4 => disk[up] = {})
         ELSE disk[up] = {} /\ \E o \in About(r) \ {p} : Took(o)

Froms(r) ==
  {Upload(rows[r].from), <<"no-touchie", r>>, <<"workflow", r>>, <<"review", r>>}

InStep(p) == \E kind \in Kinds, from \in Froms(pipes[p].row), n \in 1..12 : Stands(p, kind, from, n)

RowInStep(r) ==
  IF About(r) = {} THEN Fresh(r) ELSE \E p \in About(r) : InStep(p)

(* Only the first pipeline about an issue takes it from its upload.        *)
TakesFirst(p) ==
  LET r == pipes[p].row
      from == pipes[p].jobs[2].src
  IN  \/ from = Upload(rows[r].from) /\ \A o \in About(r) : p <= o
      \/ from = <<"no-touchie", r>>

FirstTakes == \A p \in PipeIds : ~pipes[p].removal => TakesFirst(p)

KeysUnique ==
  \A r, s \in RowIds :
    ~rows[r].ignored /\ ~rows[s].ignored /\ rows[r].title = rows[s].title /\ rows[r].parts = rows[s].parts
      => r = s

UploadsKept ==
  \A d \in Dirs : (\A r \in RowIds : rows[r].from = d => ~Taken(r)) => disk[Upload(d)] = Pages

TakenOnce ==
  \A r, s \in RowIds : Taken(r) /\ Taken(s) /\ rows[r].from = rows[s].from => r = s

NoneBeyond ==
  \A r \in (1..MaxRows) \ RowIds, place \in Places : disk[<<place, r>>] = {}

RowsInStep ==
  /\ \A r \in RowIds : RowInStep(r)
  /\ FirstTakes /\ KeysUnique /\ UploadsKept /\ TakenOnce /\ NoneBeyond

(* What clients and tools have in hand.                                    *)
ClientInStep(c) ==
  /\ Busy(c) => \E u \in q[c].up : q[c].up = {u}
  /\ q[c].pc = "create" => Rows(Up(c).dir) = {}
  /\ q[c].pc \in {"jobs", "queue"} =>
       /\ q[c].row \in RowIds /\ SameKey(q[c].row, Up(c).dir)
       /\ About(q[c].row) = {} => q[c].loc = Upload(rows[q[c].row].from)
  /\ q[c].pc = "queue" => About(q[c].row) = {}

Apart(c, o) == Busy(c) /\ Busy(o) => Up(o).dir \notin SameKeys(Up(c).dir)

ClientsInStep ==
  /\ \A c, o \in Clients : c # o => Apart(c, o)
  /\ \A c \in Clients : ClientInStep(c)

(* The pipeline of a loaded job is stuck, and stays so.                    *)
StuckAt(p, n) ==
  /\ At(p, n) /\ n <= Len(pipes[p].jobs) /\ pipes[p].jobs[n].type = "work"
  /\ pipes[p].st[n] # "pending" /\ Last(p) /\ ~pipes[p].removal

PurgeInStep ==
  /\ purge.pc = "idle" => purge = NotPurging
  /\ \A x \in purge.list : /\ x.id \in RowIds /\ x.row = rows[x.id]
                           /\ x.row.ws = "AwaitingProcessing" /\ ~x.row.ignored
  /\ \A r \in purge.look : \E x \in purge.list : x.id = r
  /\ \A j \in purge.cancel :
       /\ \E x \in purge.list : x.id = j.row
       /\ j.pipe \in PipeIds /\ pipes[j.pipe].row = j.row /\ j.redone = pipes[j.pipe].redone
       /\ \E n \in 1..12 : /\ StuckAt(j.pipe, n) /\ j.n \in n..Len(pipes[j.pipe].jobs)
                           /\ \E k \in purge.cancel : k.pipe = j.pipe /\ k.n = n

InReview(r) ==
  \E p \in About(r) : Stands(p, "review", Upload(rows[r].from), 12)

FixerInStep ==
  IF fixer.pc = "idle" THEN fixer = NotFixing
  ELSE /\ fixer.row \in RowIds /\ InReview(fixer.row) /\ fixer.loc = rows[fixer.row].loc
       /\ rows[fixer.row].ws = IF fixer.pc = "loaded" THEN "AwaitingPageReview"
                               ELSE "AwaitingProcessing"

(* Types *)
Plans == {JobsOf(kind, r, from) : kind \in Kinds, r \in 1..MaxRows, from \in Paths}

Pipe == [row : 1..MaxRows, removal : BOOLEAN, jobs : Plans, redone : Nat,
         st : [1..7 -> Statuses] \cup [1..11 -> Statuses]]

Ups == [dir : Dirs, warned : BOOLEAN]
Request == [pc : {"idle", "listing", "find", "create", "jobs", "queue", "remove"},
            todo : SUBSET Ups, up : SUBSET Ups, row : Nat, loc : Paths]

Loadable == [pipe : Nat, n : Nat, row : Nat, status : Statuses, redone : Nat]

Web == [pc : {"idle", "listed", "decorate"}, inProcess : SUBSET Dirs, shown : SUBSET Ups,
        rebuilt : BOOLEAN]

Typed ==
  /\ world \in World
  /\ disk \in [Paths -> SUBSET Pages]
  /\ rows \in Seq(Row) /\ Len(rows) <= MaxRows
  /\ \A r \in RowIds : SameKey(r, rows[r].from)
  /\ pipes \in Seq(Pipe)
  /\ \A p \in PipeIds : /\ pipes[p].row \in RowIds
                        /\ DOMAIN pipes[p].st = 1..Len(pipes[p].jobs)
  /\ q \in [Clients -> Request]
  /\ web \in Web
  /\ purge \in [pc : {"idle", "look"}, list : SUBSET [id : Nat, row : Row],
                look : SUBSET Nat, cancel : SUBSET Loadable]
  /\ fixer \in [pc : {"idle", "loaded", "prepared"}, row : Nat, loc : Paths]

Inv == Typed /\ RowsInStep /\ ClientsInStep /\ PurgeInStep /\ FixerInStep

----------------------------------------------------------------------------
(* The plans, job by job                                                   *)

LEMMA DeriveJobs ==
  ASSUME NEW r, NEW from
  PROVE  LET J == JobsOf("derive", r, from)
         IN  /\ Len(J) = 7
             /\ J[1] = OnRow("set-step", "AwaitingProcessing")
             /\ J[2] = Sync(from, <<"wip", r>>)
             /\ J[3] = Kill(from)
             /\ J[4] = Rename(<<"wip", r>>, <<"workflow", r>>)
             /\ J[5] = OnRow("locate", <<"workflow", r>>)
             /\ J[6] = OnRow("work", Nowhere)
             /\ J[7] = OnRow("set-step", "ReadyForMetadataEntry")
<1> DEFINE j1 == OnRow("set-step", "AwaitingProcessing")
           j2 == Sync(from, <<"wip", r>>)
           j3 == Kill(from)
           j4 == Rename(<<"wip", r>>, <<"workflow", r>>)
           j5 == OnRow("locate", <<"workflow", r>>)
           j6 == OnRow("work", Nowhere)
           j7 == OnRow("set-step", "ReadyForMetadataEntry")
           S == {j1, j2, j3, j4, j5, j6, j7}
           a == <<j1, j2, j3, j4, j5, j6>>
           b == <<j7>>
           J == a \o b
<1>1. JobsOf("derive", r, from) = J
  BY DEF JobsOf, QueueMoveIssueForDerivatives, MoveIn
<1> HIDE DEF j1, j2, j3, j4, j5, j6, j7
<1>2. /\ a \in Seq(S) /\ Len(a) = 6
      /\ a[1] = j1 /\ a[2] = j2 /\ a[3] = j3 /\ a[4] = j4 /\ a[5] = j5 /\ a[6] = j6
  OBVIOUS
<1>3. /\ b \in Seq(S) /\ Len(b) = 1
      /\ b[1] = j7
  OBVIOUS
<1> HIDE DEF S, a, b
<1>4. /\ Len(J) = Len(a) + Len(b)
      /\ \A i \in 1..Len(a) + Len(b) : J[i] = IF i <= Len(a) THEN a[i] ELSE b[i - Len(a)]
  BY <1>2, <1>3, ConcatProperties
<1> HIDE DEF J
<1>5. /\ Len(J) = 7
      /\ J[1] = j1 /\ J[2] = j2 /\ J[3] = j3 /\ J[4] = j4 /\ J[5] = j5 /\ J[6] = j6
      /\ J[7] = j7
  BY <1>2, <1>3, <1>4
<1>6. QED
  BY <1>1, <1>5 DEF j1, j2, j3, j4, j5, j6, j7

LEMMA ReviewJobs ==
  ASSUME NEW r, NEW from
  PROVE  LET J == JobsOf("review", r, from)
         IN  /\ Len(J) = 11
             /\ J[1] = OnRow("set-step", "AwaitingProcessing")
             /\ J[2] = Sync(from, <<"wip", r>>)
             /\ J[3] = Kill(from)
             /\ J[4] = Rename(<<"wip", r>>, <<"workflow", r>>)
             /\ J[5] = OnRow("locate", <<"workflow", r>>)
             /\ J[6] = OnRow("work", Nowhere)
             /\ J[7] = Sync(<<"workflow", r>>, <<"review-wip", r>>)
             /\ J[8] = Kill(<<"workflow", r>>)
             /\ J[9] = Rename(<<"review-wip", r>>, <<"review", r>>)
             /\ J[10] = OnRow("locate", <<"review", r>>)
             /\ J[11] = OnRow("set-step", "AwaitingPageReview")
<1> DEFINE j1 == OnRow("set-step", "AwaitingProcessing")
           j2 == Sync(from, <<"wip", r>>)
           j3 == Kill(from)
           j4 == Rename(<<"wip", r>>, <<"workflow", r>>)
           j5 == OnRow("locate", <<"workflow", r>>)
           j6 == OnRow("work", Nowhere)
           j7 == Sync(<<"workflow", r>>, <<"review-wip", r>>)
           j8 == Kill(<<"workflow", r>>)
           j9 == Rename(<<"review-wip", r>>, <<"review", r>>)
           j10 == OnRow("locate", <<"review", r>>)
           j11 == OnRow("set-step", "AwaitingPageReview")
           S == {j1, j2, j3, j4, j5, j6, j7, j8, j9, j10, j11}
           a == <<j1, j2, j3, j4, j5, j6>>
           b == <<j7, j8, j9, j10, j11>>
           J == a \o b
<1>1. JobsOf("review", r, from) = J
  BY DEF JobsOf, QueueSFTPIssueMove, MoveIn
<1> HIDE DEF j1, j2, j3, j4, j5, j6, j7, j8, j9, j10, j11
<1>2. /\ a \in Seq(S) /\ Len(a) = 6
      /\ a[1] = j1 /\ a[2] = j2 /\ a[3] = j3 /\ a[4] = j4 /\ a[5] = j5 /\ a[6] = j6
  OBVIOUS
<1>3. /\ b \in Seq(S) /\ Len(b) = 5
      /\ b[1] = j7 /\ b[2] = j8 /\ b[3] = j9 /\ b[4] = j10 /\ b[5] = j11
  OBVIOUS
<1> HIDE DEF S, a, b
<1>4. /\ Len(J) = Len(a) + Len(b)
      /\ \A i \in 1..Len(a) + Len(b) : J[i] = IF i <= Len(a) THEN a[i] ELSE b[i - Len(a)]
  BY <1>2, <1>3, ConcatProperties
<1> HIDE DEF J
<1>5. /\ Len(J) = 11
      /\ J[1] = j1 /\ J[2] = j2 /\ J[3] = j3 /\ J[4] = j4 /\ J[5] = j5 /\ J[6] = j6
      /\ J[7] = j7 /\ J[8] = j8 /\ J[9] = j9 /\ J[10] = j10 /\ J[11] = j11
  BY <1>2, <1>3, <1>4
<1>6. QED
  BY <1>1, <1>5 DEF j1, j2, j3, j4, j5, j6, j7, j8, j9, j10, j11

LEMMA RemoveJobs ==
  ASSUME NEW r, NEW from
  PROVE  LET J == JobsOf("remove", r, from)
         IN  /\ Len(J) = 7
             /\ J[1] = Sync(from, <<"error-wip", r>>)
             /\ J[2] = Kill(from)
             /\ J[3] = OnRow("locate", <<"error-wip", r>>)
             /\ J[4] = Rename(<<"error-wip", r>>, <<"error", r>>)
             /\ J[5] = OnRow("ignore", Nowhere)
             /\ J[6] = OnRow("locate", Nowhere)
             /\ J[7] = OnRow("set-step", "UnfixableMetadataError")
BY DEF JobsOf, GetJobsForRemoveErroredIssue

(* Every job of a plan takes the directories from where the plan says they
   are before it to where it says they are after it, and the row likewise. *)
Moves(job, kind, r, from, n) ==
  LET D(place) == Dir(place, r, from)
      here == Home(kind, n)
      next == Home(kind, n + 1)
  IN  CASE job.type = "sync" ->
             /\ job.src = D(here) /\ job.dst = D(next) /\ next \in Places
             /\ Drain(kind, n) = "none" /\ Drain(kind, n + 1) = here
        [] job.type = "kill" ->
             /\ job.src = D(Drain(kind, n)) /\ Drain(kind, n) # "none"
             /\ next = here /\ Drain(kind, n + 1) = "none" /\ here \in Places
        [] job.type = "rename" ->
             /\ job.src = D(here) /\ job.dst = D(next) /\ next \in Places /\ here \in Places
             /\ next # here
             /\ Drain(kind, n) = "none" /\ Drain(kind, n + 1) = "none"
        [] OTHER ->
             /\ job.type \in RowTypes \cup {"work"}
             /\ next = here /\ Drain(kind, n) = "none" /\ Drain(kind, n + 1) = "none"

LEMMA PlansMove ==
  ASSUME NEW kind \in Kinds, NEW n \in 1..Length(kind), NEW r, NEW from
  PROVE  Moves(JobsOf(kind, r, from)[n], kind, r, from, n)
<1>1. CASE kind = "review"
  <2>1. Moves(OnRow("set-step", "AwaitingProcessing"), "review", r, from, 1)
    BY DEF Moves, OnRow, RowTypes, Home, Drain, Dir, Places
  <2>2. Moves(Sync(from, <<"wip", r>>), "review", r, from, 2)
    BY DEF Moves, Sync, RowTypes, Home, Drain, Dir, Places
  <2>3. Moves(Kill(from), "review", r, from, 3)
    BY DEF Moves, Kill, RowTypes, Home, Drain, Dir, Places
  <2>4. Moves(Rename(<<"wip", r>>, <<"workflow", r>>), "review", r, from, 4)
    BY DEF Moves, Rename, RowTypes, Home, Drain, Dir, Places
  <2>5. Moves(OnRow("locate", <<"workflow", r>>), "review", r, from, 5)
    BY DEF Moves, OnRow, RowTypes, Home, Drain, Dir, Places
  <2>6. Moves(OnRow("work", Nowhere), "review", r, from, 6)
    BY DEF Moves, OnRow, RowTypes, Home, Drain, Dir, Places
  <2>7. Moves(Sync(<<"workflow", r>>, <<"review-wip", r>>), "review", r, from, 7)
    BY DEF Moves, Sync, RowTypes, Home, Drain, Dir, Places
  <2>8. Moves(Kill(<<"workflow", r>>), "review", r, from, 8)
    BY DEF Moves, Kill, RowTypes, Home, Drain, Dir, Places
  <2>9. Moves(Rename(<<"review-wip", r>>, <<"review", r>>), "review", r, from, 9)
    BY DEF Moves, Rename, RowTypes, Home, Drain, Dir, Places
  <2>10. Moves(OnRow("locate", <<"review", r>>), "review", r, from, 10)
    BY DEF Moves, OnRow, RowTypes, Home, Drain, Dir, Places
  <2>11. Moves(OnRow("set-step", "AwaitingPageReview"), "review", r, from, 11)
    BY DEF Moves, OnRow, RowTypes, Home, Drain, Dir, Places
  <2>12. n \in {1, 2, 3, 4, 5, 6, 7, 8, 9, 10, 11}
    BY <1>1 DEF Length
  <2>13. QED
    BY <1>1, ReviewJobs, <2>1, <2>2, <2>3, <2>4, <2>5, <2>6, <2>7, <2>8, <2>9, <2>10, <2>11, <2>12
<1>2. CASE kind = "derive"
  <2>1. Moves(OnRow("set-step", "AwaitingProcessing"), "derive", r, from, 1)
    BY DEF Moves, OnRow, RowTypes, Home, Drain, Dir, Places
  <2>2. Moves(Sync(from, <<"wip", r>>), "derive", r, from, 2)
    BY DEF Moves, Sync, RowTypes, Home, Drain, Dir, Places
  <2>3. Moves(Kill(from), "derive", r, from, 3)
    BY DEF Moves, Kill, RowTypes, Home, Drain, Dir, Places
  <2>4. Moves(Rename(<<"wip", r>>, <<"workflow", r>>), "derive", r, from, 4)
    BY DEF Moves, Rename, RowTypes, Home, Drain, Dir, Places
  <2>5. Moves(OnRow("locate", <<"workflow", r>>), "derive", r, from, 5)
    BY DEF Moves, OnRow, RowTypes, Home, Drain, Dir, Places
  <2>6. Moves(OnRow("work", Nowhere), "derive", r, from, 6)
    BY DEF Moves, OnRow, RowTypes, Home, Drain, Dir, Places
  <2>7. Moves(OnRow("set-step", "ReadyForMetadataEntry"), "derive", r, from, 7)
    BY DEF Moves, OnRow, RowTypes, Home, Drain, Dir, Places
  <2>8. n \in {1, 2, 3, 4, 5, 6, 7}
    BY <1>2 DEF Length
  <2>9. QED
    BY <1>2, DeriveJobs, <2>1, <2>2, <2>3, <2>4, <2>5, <2>6, <2>7, <2>8
<1>3. CASE kind = "remove"
  <2>1. Moves(Sync(from, <<"error-wip", r>>), "remove", r, from, 1)
    BY DEF Moves, Sync, RowTypes, Home, Drain, Dir, Places
  <2>2. Moves(Kill(from), "remove", r, from, 2)
    BY DEF Moves, Kill, RowTypes, Home, Drain, Dir, Places
  <2>3. Moves(OnRow("locate", <<"error-wip", r>>), "remove", r, from, 3)
    BY DEF Moves, OnRow, RowTypes, Home, Drain, Dir, Places
  <2>4. Moves(Rename(<<"error-wip", r>>, <<"error", r>>), "remove", r, from, 4)
    BY DEF Moves, Rename, RowTypes, Home, Drain, Dir, Places
  <2>5. Moves(OnRow("ignore", Nowhere), "remove", r, from, 5)
    BY DEF Moves, OnRow, RowTypes, Home, Drain, Dir, Places
  <2>6. Moves(OnRow("locate", Nowhere), "remove", r, from, 6)
    BY DEF Moves, OnRow, RowTypes, Home, Drain, Dir, Places
  <2>7. Moves(OnRow("set-step", "UnfixableMetadataError"), "remove", r, from, 7)
    BY DEF Moves, OnRow, RowTypes, Home, Drain, Dir, Places
  <2>8. n \in {1, 2, 3, 4, 5, 6, 7}
    BY <1>3 DEF Length
  <2>9. QED
    BY <1>3, RemoveJobs, <2>1, <2>2, <2>3, <2>4, <2>5, <2>6, <2>7, <2>8
<1>4. QED
  BY <1>1, <1>2, <1>3 DEF Kinds

----------------------------------------------------------------------------
(* What jobs make of the row                                               *)

SameIssue(x, y) == y.title = x.title /\ y.parts = x.parts /\ y.from = x.from

(* Each job writes what the plan says it does.                             *)
Tells(job, kind, r, from, n) ==
  /\ IF job.type = "set-step" THEN job.src = StepAt(kind, n + 1) /\ job.src \in Steps
     ELSE StepAt(kind, n + 1) = StepAt(kind, n)
  /\ IF job.type = "locate"
     THEN /\ job.src = LocOf(kind, r, from, n + 1)
          /\ job.src \in {Nowhere} \cup {<<place, r>> : place \in Places}
     ELSE LocOf(kind, r, from, n + 1) = LocOf(kind, r, from, n)
  /\ Ignored(kind, n + 1) = IF job.type = "ignore" THEN TRUE ELSE Ignored(kind, n)

LEMMA PlansTell ==
  ASSUME NEW kind \in Kinds, NEW n \in 1..Length(kind), NEW r, NEW from
  PROVE  Tells(JobsOf(kind, r, from)[n], kind, r, from, n)
<1>1. CASE kind = "review"
  <2>1. Tells(OnRow("set-step", "AwaitingProcessing"), "review", r, from, 1)
    BY DEF Tells, OnRow, StepAt, Length, LocOf, Located, Ignored, Dir, Steps, Places
  <2>2. Tells(Sync(from, <<"wip", r>>), "review", r, from, 2)
    BY DEF Tells, Sync, StepAt, Length, LocOf, Located, Ignored, Dir, Steps, Places
  <2>3. Tells(Kill(from), "review", r, from, 3)
    BY DEF Tells, Kill, StepAt, Length, LocOf, Located, Ignored, Dir, Steps, Places
  <2>4. Tells(Rename(<<"wip", r>>, <<"workflow", r>>), "review", r, from, 4)
    BY DEF Tells, Rename, StepAt, Length, LocOf, Located, Ignored, Dir, Steps, Places
  <2>5. Tells(OnRow("locate", <<"workflow", r>>), "review", r, from, 5)
    BY DEF Tells, OnRow, StepAt, Length, LocOf, Located, Ignored, Dir, Steps, Places
  <2>6. Tells(OnRow("work", Nowhere), "review", r, from, 6)
    BY DEF Tells, OnRow, StepAt, Length, LocOf, Located, Ignored, Dir, Steps, Places
  <2>7. Tells(Sync(<<"workflow", r>>, <<"review-wip", r>>), "review", r, from, 7)
    BY DEF Tells, Sync, StepAt, Length, LocOf, Located, Ignored, Dir, Steps, Places
  <2>8. Tells(Kill(<<"workflow", r>>), "review", r, from, 8)
    BY DEF Tells, Kill, StepAt, Length, LocOf, Located, Ignored, Dir, Steps, Places
  <2>9. Tells(Rename(<<"review-wip", r>>, <<"review", r>>), "review", r, from, 9)
    BY DEF Tells, Rename, StepAt, Length, LocOf, Located, Ignored, Dir, Steps, Places
  <2>10. Tells(OnRow("locate", <<"review", r>>), "review", r, from, 10)
    BY DEF Tells, OnRow, StepAt, Length, LocOf, Located, Ignored, Dir, Steps, Places
  <2>11. Tells(OnRow("set-step", "AwaitingPageReview"), "review", r, from, 11)
    BY DEF Tells, OnRow, StepAt, Length, LocOf, Located, Ignored, Dir, Steps, Places
  <2>12. n \in {1, 2, 3, 4, 5, 6, 7, 8, 9, 10, 11}
    BY <1>1 DEF Length
  <2>13. QED
    BY <1>1, ReviewJobs, <2>1, <2>2, <2>3, <2>4, <2>5, <2>6, <2>7, <2>8, <2>9, <2>10, <2>11, <2>12
<1>2. CASE kind = "derive"
  <2>1. Tells(OnRow("set-step", "AwaitingProcessing"), "derive", r, from, 1)
    BY DEF Tells, OnRow, StepAt, Length, LocOf, Located, Ignored, Dir, Steps, Places
  <2>2. Tells(Sync(from, <<"wip", r>>), "derive", r, from, 2)
    BY DEF Tells, Sync, StepAt, Length, LocOf, Located, Ignored, Dir, Steps, Places
  <2>3. Tells(Kill(from), "derive", r, from, 3)
    BY DEF Tells, Kill, StepAt, Length, LocOf, Located, Ignored, Dir, Steps, Places
  <2>4. Tells(Rename(<<"wip", r>>, <<"workflow", r>>), "derive", r, from, 4)
    BY DEF Tells, Rename, StepAt, Length, LocOf, Located, Ignored, Dir, Steps, Places
  <2>5. Tells(OnRow("locate", <<"workflow", r>>), "derive", r, from, 5)
    BY DEF Tells, OnRow, StepAt, Length, LocOf, Located, Ignored, Dir, Steps, Places
  <2>6. Tells(OnRow("work", Nowhere), "derive", r, from, 6)
    BY DEF Tells, OnRow, StepAt, Length, LocOf, Located, Ignored, Dir, Steps, Places
  <2>7. Tells(OnRow("set-step", "ReadyForMetadataEntry"), "derive", r, from, 7)
    BY DEF Tells, OnRow, StepAt, Length, LocOf, Located, Ignored, Dir, Steps, Places
  <2>8. n \in {1, 2, 3, 4, 5, 6, 7}
    BY <1>2 DEF Length
  <2>9. QED
    BY <1>2, DeriveJobs, <2>1, <2>2, <2>3, <2>4, <2>5, <2>6, <2>7, <2>8
<1>3. CASE kind = "remove"
  <2>1. Tells(Sync(from, <<"error-wip", r>>), "remove", r, from, 1)
    BY DEF Tells, Sync, StepAt, Length, LocOf, Located, Ignored, Dir, Steps, Places
  <2>2. Tells(Kill(from), "remove", r, from, 2)
    BY DEF Tells, Kill, StepAt, Length, LocOf, Located, Ignored, Dir, Steps, Places
  <2>3. Tells(OnRow("locate", <<"error-wip", r>>), "remove", r, from, 3)
    BY DEF Tells, OnRow, StepAt, Length, LocOf, Located, Ignored, Dir, Steps, Places
  <2>4. Tells(Rename(<<"error-wip", r>>, <<"error", r>>), "remove", r, from, 4)
    BY DEF Tells, Rename, StepAt, Length, LocOf, Located, Ignored, Dir, Steps, Places
  <2>5. Tells(OnRow("ignore", Nowhere), "remove", r, from, 5)
    BY DEF Tells, OnRow, StepAt, Length, LocOf, Located, Ignored, Dir, Steps, Places
  <2>6. Tells(OnRow("locate", Nowhere), "remove", r, from, 6)
    BY DEF Tells, OnRow, StepAt, Length, LocOf, Located, Ignored, Dir, Steps, Places
  <2>7. Tells(OnRow("set-step", "UnfixableMetadataError"), "remove", r, from, 7)
    BY DEF Tells, OnRow, StepAt, Length, LocOf, Located, Ignored, Dir, Steps, Places
  <2>8. n \in {1, 2, 3, 4, 5, 6, 7}
    BY <1>3 DEF Length
  <2>9. QED
    BY <1>3, RemoveJobs, <2>1, <2>2, <2>3, <2>4, <2>5, <2>6, <2>7, <2>8
<1>4. QED
  BY <1>1, <1>2, <1>3 DEF Kinds

LEMMA PlansWrite ==
  ASSUME NEW kind \in Kinds, NEW n \in 1..Length(kind), NEW r \in 1..MaxRows, NEW from,
         NEW x \in Row, RowFits(x, kind, r, from, n)
  PROVE  LET y == Written(x, JobsOf(kind, r, from)[n])
         IN  y \in Row /\ SameIssue(x, y) /\ RowFits(y, kind, r, from, n + 1)
<1> DEFINE job == JobsOf(kind, r, from)[n]
           y == Written(x, job)
<1>1. Tells(job, kind, r, from, n)
  BY PlansTell
<1>2. ~(kind = "review" /\ n = 12)
  BY DEF Length
<1>3. \A l \in {Nowhere} \cup {<<place, r>> : place \in Places} : l \in Paths
  BY DEF Paths
<1> HIDE DEF job
<1>4. CASE job.type = "set-step"
  <2>1. job.src \in Steps /\ y = [x EXCEPT !.ws = job.src]
    BY <1>1, <1>4 DEF Tells, Written
  <2>2. y \in Row /\ y.ws = job.src /\ y.loc = x.loc /\ y.ignored = x.ignored /\ SameIssue(x, y)
    BY <2>1 DEF Row, SameIssue
  <2> HIDE DEF y
  <2>3. RowFits(y, kind, r, from, n + 1)
    BY <1>1, <1>2, <1>4, <2>2 DEF Tells, RowFits
  <2>4. QED
    BY <2>2, <2>3 DEF y, job
<1>5. CASE job.type = "locate"
  <2>1. job.src \in Paths /\ y = [x EXCEPT !.loc = job.src]
    BY <1>1, <1>3, <1>5 DEF Tells, Written
  <2>2. y \in Row /\ y.ws = x.ws /\ y.loc = job.src /\ y.ignored = x.ignored /\ SameIssue(x, y)
    BY <2>1 DEF Row, SameIssue
  <2> HIDE DEF y
  <2>3. RowFits(y, kind, r, from, n + 1)
    BY <1>1, <1>2, <1>5, <2>2 DEF Tells, RowFits
  <2>4. QED
    BY <2>2, <2>3 DEF y, job
<1>6. CASE job.type = "ignore"
  <2>1. y = [x EXCEPT !.ignored = TRUE]
    BY <1>6 DEF Written
  <2>2. y \in Row /\ y.ws = x.ws /\ y.loc = x.loc /\ y.ignored = TRUE /\ SameIssue(x, y)
    BY <2>1 DEF Row, SameIssue
  <2> HIDE DEF y
  <2>3. RowFits(y, kind, r, from, n + 1)
    BY <1>1, <1>2, <1>6, <2>2 DEF Tells, RowFits
  <2>4. QED
    BY <2>2, <2>3 DEF y, job
<1>7. CASE job.type \notin RowTypes
  <2>1. y = x
    BY <1>7 DEF Written, RowTypes
  <2>2. job.type # "set-step" /\ job.type # "locate" /\ job.type # "ignore"
    BY <1>7 DEF RowTypes
  <2> HIDE DEF y
  <2>3. RowFits(x, kind, r, from, n + 1)
    BY <1>1, <1>2, <2>2 DEF Tells, RowFits
  <2>4. QED
    BY <2>1, <2>3 DEF SameIssue, y, job
<1>8. QED
  BY <1>4, <1>5, <1>6, <1>7 DEF RowTypes

----------------------------------------------------------------------------
(* Directories and pipelines *)

LEMMA PathsDiffer ==
  ASSUME NEW place \in Places, NEW r \in 1..MaxRows
  PROVE  /\ <<place, r>> \in Paths
         /\ \A d : Upload(d) # <<place, r>>
         /\ \A other \in Places, s \in 1..MaxRows :
              <<other, s>> = <<place, r>> => other = place /\ s = r
BY DEF Paths, Upload, Nowhere, Places

LEMMA TwoJobs == \A length \in {7, 11} : 2 \in 1..length
OBVIOUS

LEMMA PlanLength ==
  ASSUME NEW kind \in Kinds, NEW r, NEW from
  PROVE  Len(JobsOf(kind, r, from)) = Length(kind) /\ Length(kind) \in {7, 11}
<1>1. Len(JobsOf("review", r, from)) = 11
  BY ReviewJobs
<1>2. Len(JobsOf("derive", r, from)) = 7
  BY DeriveJobs
<1>3. Len(JobsOf("remove", r, from)) = 7
  BY RemoveJobs
<1>4. QED
  BY <1>1, <1>2, <1>3 DEF Kinds, Length

LEMMA PipesTyped ==
  ASSUME Typed, NEW p \in PipeIds
  PROVE  /\ p \in Nat /\ pipes[p] \in Pipe /\ pipes[p].row \in RowIds /\ pipes[p].row \in 1..MaxRows
         /\ Len(pipes[p].jobs) \in {7, 11}
         /\ DOMAIN pipes[p].st = 1..Len(pipes[p].jobs)
         /\ pipes[p].st \in [1..Len(pipes[p].jobs) -> Statuses]
         /\ \A n \in 1..Len(pipes[p].jobs) : pipes[p].st[n] \in Statuses
<1>1. pipes[p] \in Pipe /\ pipes[p].row \in RowIds
  BY DEF Typed, PipeIds
<1>2. PICK kind \in Kinds, r \in 1..MaxRows, from \in Paths : pipes[p].jobs = JobsOf(kind, r, from)
  BY <1>1 DEF Pipe, Plans
<1>3. Len(pipes[p].jobs) \in {7, 11}
  BY <1>2, PlanLength
<1>4. DOMAIN pipes[p].st = 1..Len(pipes[p].jobs)
  BY DEF Typed
<1>5. pipes[p].st \in [1..Len(pipes[p].jobs) -> Statuses]
  BY <1>1, <1>3, <1>4 DEF Pipe
<1>6. p \in Nat /\ pipes[p].row \in 1..MaxRows
  BY <1>1 DEF Pipe, PipeIds
<1>7. QED
  BY <1>1, <1>3, <1>4, <1>5, <1>6

LEMMA RowTyped ==
  ASSUME Typed, NEW r \in RowIds
  PROVE  r \in 1..MaxRows /\ rows[r] \in Row /\ rows[r].from \in Dirs /\ SameKey(r, rows[r].from)
<1>1. rows[r] \in Row
  BY DEF Typed, RowIds
<1>2. r \in 1..MaxRows
  BY IntakeAssumption DEF Typed, RowIds
<1>3. QED
  BY <1>1, <1>2 DEF Typed, Row

(* A job that runs, or has failed, is the one that the last pipeline about an
   issue has come to.                                                       *)
LEMMA Standing ==
  ASSUME Typed, RowsInStep, NEW p \in PipeIds, NEW n \in 1..Len(pipes[p].jobs),
         pipes[p].st[n] \in {"pending", "failed"}
  PROVE  \E kind \in Kinds, from \in Froms(pipes[p].row) :
            Stands(p, kind, from, n) /\ n \in 1..Length(kind)
<1> DEFINE r == pipes[p].row
<1>1. r \in RowIds /\ p \in About(r) /\ n \in Nat
  BY PipesTyped DEF About
<1>2. PICK o \in About(r) : InStep(o)
  BY <1>1 DEF RowsInStep, RowInStep
<1>3. o \in PipeIds /\ pipes[o].row = r
  BY <1>2 DEF About
<1>4. PICK kind \in Kinds, from \in Froms(r), k \in 1..12 : Stands(o, kind, from, k)
  BY <1>2, <1>3 DEF InStep
<1>5. o = p
  <2>1. CASE o # p
    <3>1. Over(p)
      BY <1>1, <1>3, <1>4, <2>1 DEF Stands, Last
    <3>2. QED
      BY <3>1 DEF Over
  <2>2. QED
    BY <2>1
<1>6. /\ At(p, k) /\ pipes[p].jobs = JobsOf(kind, r, from)
  BY <1>4, <1>5 DEF Stands
<1>7. k = n
  BY <1>1, <1>6, PipesTyped DEF At
<1>8. QED
  BY <1>4, <1>5, <1>6, <1>7, PlanLength

----------------------------------------------------------------------------
(* What a step leaves alone *)

Untouched(r) ==
  /\ rows'[r] = rows[r]
  /\ About(r)' = About(r) /\ \A p \in About(r) : pipes'[p] = pipes[p]
  /\ \A place \in Places : disk'[<<place, r>>] = disk[<<place, r>>]
  /\ disk'[Upload(rows[r].from)] \subseteq disk[Upload(rows[r].from)]

LEMMA StandsKept ==
  ASSUME NEW r, Untouched(r), NEW p \in About(r), NEW kind, NEW from, NEW n,
         Stands(p, kind, from, n)
  PROVE  Stands(p, kind, from, n)'
<1>1. /\ pipes'[p] = pipes[p] /\ pipes[p].row = r /\ rows'[r] = rows[r]
      /\ \A o \in About(r) : pipes'[o] = pipes[o] /\ pipes[o].row = r
      /\ About(r)' = About(r)
  BY DEF Untouched, About
<1>2. Last(p)'
  BY <1>1 DEF Stands, Last, Over
<1>3. At(p, n)'
  BY <1>1 DEF Stands, At
<1>4. kind # "remove" => \A o \in About(r)' \ {p} : Done(o)'
  BY <1>1 DEF Stands, Done
<1>5. FromFits(kind, r, from)' /\ RowFits(rows[r], kind, r, from, n)'
  BY <1>1 DEF Stands, FromFits, RowFits
<1>6. FilesAt(r, Dir(Home(kind, n), r, from), Dir(Drain(kind, n), r, from))'
  BY <1>1 DEF Stands, FilesAt, Untouched
<1>7. IF from = Upload(rows'[r].from)
      THEN About(r)' = {p} /\ (n >= 4 => disk'[Upload(rows'[r].from)] = {})
      ELSE disk'[Upload(rows'[r].from)] = {} /\ \E o \in About(r)' \ {p} : Took(o)'
  BY <1>1 DEF Stands, Untouched, Took
<1>8. QED
  BY <1>1, <1>2, <1>3, <1>4, <1>5, <1>6, <1>7 DEF Stands

LEMMA RowKept ==
  ASSUME NEW r \in RowIds, Untouched(r), RowInStep(r)
  PROVE  RowInStep(r)'
<1>1. CASE About(r) = {}
  BY <1>1 DEF RowInStep, Fresh, Untouched
<1>2. CASE About(r) # {}
  <2>1. PICK p \in About(r) : InStep(p)
    BY <1>2 DEF RowInStep
  <2>2. PICK kind \in Kinds, from \in Froms(pipes[p].row), n \in 1..12 : Stands(p, kind, from, n)
    BY <2>1 DEF InStep
  <2>3. Stands(p, kind, from, n)'
    BY <2>2, StandsKept
  <2>4. from \in Froms(pipes[p].row)'
    BY <2>1 DEF Froms, Untouched, About
  <2>5. p \in About(r)' /\ InStep(p)'
    BY <2>1, <2>2, <2>3, <2>4 DEF InStep, Untouched
  <2>6. QED
    BY <2>5 DEF RowInStep
<1>3. QED
  BY <1>1, <1>2

LEMMA StuckKept ==
  ASSUME NEW r, Untouched(r), NEW p \in About(r), NEW n, StuckAt(p, n)
  PROVE  StuckAt(p, n)'
<1>1. /\ pipes'[p] = pipes[p] /\ pipes[p].row = r
      /\ \A o \in About(r) : pipes'[o] = pipes[o]
      /\ About(r)' = About(r)
  BY DEF Untouched, About
<1>2. Last(p)'
  BY <1>1 DEF StuckAt, Last, Over
<1>3. At(p, n)'
  BY <1>1 DEF StuckAt, At
<1>4. QED
  BY <1>1, <1>2, <1>3 DEF StuckAt

----------------------------------------------------------------------------
(* Where the pages are *)

(* What is half removed is never where the issue is whole.                  *)
LEMMA DrainApart ==
  ASSUME NEW p, NEW kind \in Kinds, NEW from, NEW n \in 1..Length(kind),
         NEW r \in RowIds, Len(rows) <= MaxRows, rows[r].from \in Dirs,
         FromFits(kind, r, from), Drain(kind, n) # "none"
  PROVE  Dir(Drain(kind, n), r, from) # Dir(Home(kind, n), r, from)
<1>1. r \in 1..MaxRows
  BY IntakeAssumption DEF RowIds
<1>2. \A place \in Places : Upload(rows[r].from) # <<place, r>>
  BY <1>1, PathsDiffer
<1>3. CASE kind = "remove"
  BY <1>3, <1>1 DEF Dir, Drain, Home, FromFits
<1>4. CASE kind = "derive"
  BY <1>4, <1>1, <1>2 DEF Dir, Drain, Home, FromFits, Places
<1>5. CASE kind = "review"
  BY <1>5, <1>1, <1>2 DEF Dir, Drain, Home, FromFits, Places
<1>6. QED
  BY <1>3, <1>4, <1>5 DEF Kinds

(* An upload that is being taken and has not gone is nobody else's.         *)
LEMMA NobodyElse ==
  ASSUME Typed, RowsInStep, NEW p \in PipeIds, NEW kind, NEW from, NEW n,
         Stands(p, kind, from, n), from = Upload(rows[pipes[p].row].from),
         disk[from] # {},
         NEW s \in RowIds, Taken(s), rows[s].from = rows[pipes[p].row].from
  PROVE  s = pipes[p].row
<1> DEFINE r == pipes[p].row
<1>1. r \in RowIds /\ r \in 1..MaxRows /\ rows[r].from \in Dirs /\ rows[s].from \in Dirs
  BY PipesTyped, RowTyped
<1>2. s \in 1..MaxRows
  BY RowTyped
<1>3. PICK o \in About(s) : InStep(o)
  BY DEF Taken, RowsInStep, RowInStep
<1>4. pipes[o].row = s
  BY <1>3 DEF About
<1>5. PICK kind2 \in Kinds, from2 \in Froms(s), m \in 1..12 : Stands(o, kind2, from2, m)
  BY <1>3, <1>4 DEF InStep
<1>6. from2 = Upload(rows[s].from) /\ FromFits(kind2, s, from2) /\ RowFits(rows[s], kind2, s, from2, m)
  BY <1>4, <1>5 DEF Stands
<1>7. kind2 # "remove"
  BY <1>1, <1>2, <1>6, PathsDiffer DEF FromFits, Places
<1>8. ~rows[s].ignored
  BY <1>6, <1>7 DEF RowFits, Ignored
<1>9. FromFits(kind, r, from) /\ RowFits(rows[r], kind, r, from, n)
  BY DEF Stands
<1>10. kind # "remove"
  BY <1>1, <1>9, PathsDiffer DEF FromFits, Places
<1>11. ~rows[r].ignored
  BY <1>9, <1>10 DEF RowFits, Ignored
<1>12. rows[s].title = rows[r].title /\ rows[s].parts = rows[r].parts
  BY <1>1, RowTyped DEF SameKey
<1>13. QED
  BY <1>1, <1>8, <1>11, <1>12 DEF RowsInStep, KeysUnique

(* What a job copies is whole, if it is there at all.                       *)
LEMMA HomeWhole ==
  ASSUME Typed, RowsInStep, NEW p \in PipeIds, NEW kind, NEW from, NEW n,
         Stands(p, kind, from, n), n \in 1..Length(kind),
         Drain(kind, n) = "none", Drain(kind, n + 1) = Home(kind, n),
         disk[Dir(Home(kind, n), pipes[p].row, from)] # {}
  PROVE  disk[Dir(Home(kind, n), pipes[p].row, from)] = Pages
<1> DEFINE r == pipes[p].row
           home == Dir(Home(kind, n), r, from)
<1>1. r \in RowIds /\ r \in 1..MaxRows /\ rows[r].from \in Dirs
  BY PipesTyped, RowTyped
<1>2. kind \in Kinds /\ FromFits(kind, r, from) /\ n \in 1..Length(kind) + 1
  BY DEF Stands
<1>3. FilesAt(r, home, <<"none", r>>)
  BY DEF Stands, Dir
<1>4. \A place \in Places : <<place, r>> # <<"none", r>>
  BY <1>1 DEF Places
<1>5. CASE \E place \in Places : home = <<place, r>>
  BY <1>3, <1>4, <1>5 DEF FilesAt
<1>6. CASE ~\E place \in Places : home = <<place, r>>
  <2>1. home = from /\ from = Upload(rows[r].from)
    BY <1>2, <1>6 DEF Home, Dir, FromFits, Places, Kinds
  <2>2. kind # "remove"
    BY <1>1, <1>2, <2>1, PathsDiffer DEF FromFits, Places
  <2>3. n <= 2
    BY <1>2, <1>6, <2>2 DEF Home, Dir, Places, Kinds, Length, Drain
  <2>4. About(r) = {p} /\ At(p, n) /\ pipes[p].jobs = JobsOf(kind, r, from)
    BY <2>1 DEF Stands
  <2>5. 2 \in 1..Len(pipes[p].jobs) /\ n \in 1..Len(pipes[p].jobs)
    BY <1>2, <2>4, PlanLength
  <2>6. pipes[p].st[2] # "success"
    <3>1. CASE n = 2
      BY <2>4, <2>5, <3>1 DEF At
    <3>2. CASE n = 1
      BY <2>4, <2>5, <3>2 DEF At
    <3>3. QED
      BY <2>3, <3>1, <3>2
  <2>7. ~Taken(r)
    BY <2>4, <2>6 DEF Taken, Took
  <2>8. \A s \in RowIds : rows[s].from = rows[r].from => ~Taken(s)
    BY <2>1, <2>7, NobodyElse
  <2>9. QED
    BY <1>1, <2>1, <2>8 DEF RowsInStep, UploadsKept
<1>7. QED
  BY <1>5, <1>6

----------------------------------------------------------------------------
(* Steps of one pipeline *)

(* Nothing has become of the pipelines but for p's statuses.                *)
Restated(p) ==
  /\ pipes' \in Seq(Pipe) /\ PipeIds' = PipeIds
  /\ \A o \in PipeIds \ {p} : pipes'[o] = pipes[o]
  /\ pipes'[p].row = pipes[p].row /\ pipes'[p].removal = pipes[p].removal
  /\ pipes'[p].jobs = pipes[p].jobs /\ DOMAIN pipes'[p].st = DOMAIN pipes[p].st

LEMMA PipeSet ==
  ASSUME Typed, NEW p \in PipeIds, NEW x \in Pipe, DOMAIN x.st = DOMAIN pipes[p].st,
         x.row = pipes[p].row, x.removal = pipes[p].removal, x.jobs = pipes[p].jobs,
         pipes' = [pipes EXCEPT ![p] = x]
  PROVE  Restated(p) /\ pipes'[p] = x
<1>1. pipes \in Seq(Pipe) /\ p \in 1..Len(pipes)
  BY DEF Typed, PipeIds
<1>2. /\ [pipes EXCEPT ![p] = x] \in Seq(Pipe)
      /\ Len([pipes EXCEPT ![p] = x]) = Len(pipes)
      /\ \A o \in 1..Len(pipes) : [pipes EXCEPT ![p] = x][o] = IF o = p THEN x ELSE pipes[o]
  BY <1>1, ExceptSeq
<1>3. QED
  BY <1>1, <1>2 DEF Restated, PipeIds

(* The pipeline p with other statuses.                                      *)
WithStatuses(p, st, k) == [pipes[p] EXCEPT !.st = st, !.redone = k]

LEMMA PipeRestated ==
  ASSUME Typed, NEW p \in PipeIds, NEW st, NEW k, k \in Nat,
         st \in [1..Len(pipes[p].jobs) -> Statuses],
         pipes' = [pipes EXCEPT ![p] = WithStatuses(p, st, k)]
  PROVE  Restated(p) /\ pipes'[p].st = st /\ pipes'[p].redone = k
<1>1. /\ pipes[p] \in Pipe /\ DOMAIN pipes[p].st = 1..Len(pipes[p].jobs)
      /\ Len(pipes[p].jobs) \in {7, 11}
  BY PipesTyped
<1>2. st \in [1..7 -> Statuses] \cup [1..11 -> Statuses] /\ DOMAIN st = 1..Len(pipes[p].jobs)
  BY <1>1
<1> DEFINE x == WithStatuses(p, st, k)
<1>3. /\ x \in Pipe /\ x.st = st /\ x.redone = k
      /\ x.row = pipes[p].row /\ x.removal = pipes[p].removal /\ x.jobs = pipes[p].jobs
  BY <1>1, <1>2 DEF WithStatuses, Pipe
<1>4. pipes' = [pipes EXCEPT ![p] = x]
  OBVIOUS
<1> HIDE DEF x
<1>5. Restated(p) /\ pipes'[p] = x
  <2>1. DOMAIN x.st = DOMAIN pipes[p].st
    BY <1>1, <1>2, <1>3
  <2>2. QED
    BY <1>3, <1>4, <2>1, PipeSet
<1>6. QED
  BY <1>3, <1>5

LEMMA JobDone ==
  ASSUME Typed, NEW p \in PipeIds, NEW n \in 1..Len(pipes[p].jobs), At(p, n),
         pipes[p].st[n] = "pending", Succeed(p, n)
  PROVE  /\ Restated(p) /\ pipes'[p].redone = pipes[p].redone /\ At(p, n + 1)'
         /\ \A m \in 1..Len(pipes[p].jobs) :
              pipes'[p].st[m] = "success" <=> (m = n \/ pipes[p].st[m] = "success")
<1>1. /\ pipes[p] \in Pipe /\ Len(pipes[p].jobs) \in {7, 11} /\ n \in Nat
      /\ DOMAIN pipes[p].st = 1..Len(pipes[p].jobs)
      /\ \A m \in 1..Len(pipes[p].jobs) : pipes[p].st[m] \in Statuses
  BY PipesTyped
<1> DEFINE st == [m \in 1..Len(pipes[p].jobs) |->
                    IF m = n THEN "success" ELSE IF m = n + 1 THEN "pending" ELSE pipes[p].st[m]]
<1>2. st \in [1..Len(pipes[p].jobs) -> Statuses]
  BY <1>1 DEF Statuses
<1>3. pipes[p].redone \in Nat
  BY <1>1 DEF Pipe
<1>4. pipes' = [pipes EXCEPT ![p].st = st]
  BY <1>1 DEF Succeed
<1>6. /\ \A m \in 1..Len(pipes[p].jobs) :
           st[m] = IF m = n THEN "success" ELSE IF m = n + 1 THEN "pending" ELSE pipes[p].st[m]
  OBVIOUS
<1> HIDE DEF st
<1>5. pipes' = [pipes EXCEPT ![p] = WithStatuses(p, st, pipes[p].redone)]
  <2>1. [pipes[p] EXCEPT !.st = st] = [pipes[p] EXCEPT !.st = st, !.redone = pipes[p].redone]
    BY <1>1 DEF Pipe
  <2>2. QED
    BY <1>4, <2>1 DEF WithStatuses
<1>7. Restated(p) /\ pipes'[p].st = st /\ pipes'[p].redone = pipes[p].redone
  BY <1>2, <1>3, <1>5, PipeRestated
<1>8. /\ \A m \in 1..n - 1 : pipes[p].st[m] = "success"
      /\ \A m \in n + 1..Len(pipes[p].jobs) : pipes[p].st[m] = "on_hold"
  BY DEF At
<1>9. At(p, n + 1)'
  <2>1. \A m \in 1..n : st[m] = "success"
    BY <1>1, <1>6, <1>8
  <2>2. n + 1 <= Len(pipes[p].jobs) => st[n + 1] = "pending"
    BY <1>1, <1>6
  <2>3. \A m \in n + 2..Len(pipes[p].jobs) : st[m] = "on_hold"
    BY <1>1, <1>6, <1>8
  <2>4. n + 1 \in 1..Len(pipes[p].jobs) + 1
    BY <1>1
  <2>5. QED
    BY <1>1, <1>7, <2>1, <2>2, <2>3, <2>4 DEF Restated, At
<1>10. \A m \in 1..Len(pipes[p].jobs) : st[m] = "success" <=> (m = n \/ pipes[p].st[m] = "success")
  <2>1. n + 1 \in 1..Len(pipes[p].jobs) => pipes[p].st[n + 1] = "on_hold"
    BY <1>1, <1>8
  <2>2. QED
    BY <1>1, <1>6, <2>1
<1>11. QED
  BY <1>7, <1>9, <1>10

(* Nor of the directories and rows of other issues.                         *)
OnlyAbout(r) ==
  /\ RowIds' = RowIds /\ SameIssue(rows[r], rows'[r]) /\ (rows[r].ignored => rows'[r].ignored)
  /\ \A s \in RowIds \ {r} : rows'[s] = rows[s]
  /\ \A s \in (1..MaxRows) \ {r}, place \in Places : disk'[<<place, s>>] = disk[<<place, s>>]
  /\ \A d \in Dirs : disk'[Upload(d)] \subseteq disk[Upload(d)]

LEMMA OthersUntouched ==
  ASSUME Typed, NEW p \in PipeIds, Restated(p), OnlyAbout(pipes[p].row)
  PROVE  /\ \A s \in RowIds : About(s)' = About(s)
         /\ \A s \in RowIds \ {pipes[p].row} : Untouched(s)
<1>1. \A s \in RowIds : About(s)' = About(s)
  BY DEF Restated, About
<1>2. \A s \in RowIds \ {pipes[p].row} : \A o \in About(s) : pipes'[o] = pipes[o]
  BY DEF Restated, About
<1>3. QED
  BY <1>1, <1>2, RowTyped DEF Untouched, OnlyAbout

LEMMA StandsAfter ==
  ASSUME Typed, NEW p \in PipeIds, Restated(p), OnlyAbout(pipes[p].row),
         NEW kind, NEW from, NEW n, Stands(p, kind, from, n),
         NEW m \in 1..Length(kind) + 1, At(p, m)', m >= n,
         RowFits(rows'[pipes[p].row], kind, pipes[p].row, from, m),
         FilesAt(pipes[p].row, Dir(Home(kind, m), pipes[p].row, from),
                 Dir(Drain(kind, m), pipes[p].row, from))',
         from = Upload(rows[pipes[p].row].from) /\ m >= 4 => disk'[from] = {}
  PROVE  Stands(p, kind, from, m)' /\ RowInStep(pipes[p].row)'
<1> DEFINE r == pipes[p].row
<1>1. /\ pipes'[p].row = r /\ pipes'[p].removal = pipes[p].removal /\ pipes'[p].jobs = pipes[p].jobs
      /\ \A o \in About(r) \ {p} : pipes'[o] = pipes[o]
      /\ About(r)' = About(r) /\ p \in About(r) /\ r \in RowIds
  BY OthersUntouched, PipesTyped DEF Restated, About
<1>2. rows'[r].from = rows[r].from /\ disk'[Upload(rows[r].from)] \subseteq disk[Upload(rows[r].from)]
  BY <1>1, RowTyped DEF OnlyAbout, SameIssue
<1>3. Last(p)'
  BY <1>1 DEF Stands, Last, Over
<1>4. kind # "remove" => \A o \in About(r)' \ {p} : Done(o)'
  BY <1>1 DEF Stands, Done
<1>5. FromFits(kind, r, from)'
  BY <1>1, <1>2 DEF Stands, FromFits
<1>6. IF from = Upload(rows'[r].from)
      THEN About(r)' = {p} /\ (m >= 4 => disk'[Upload(rows'[r].from)] = {})
      ELSE disk'[Upload(rows'[r].from)] = {} /\ \E o \in About(r)' \ {p} : Took(o)'
  BY <1>1, <1>2 DEF Stands, Took
<1>7. Stands(p, kind, from, m)'
  BY <1>1, <1>3, <1>4, <1>5, <1>6 DEF Stands
<1>8. kind \in Kinds /\ m \in 1..12
  BY PlanLength DEF Stands
<1>9. from \in Froms(r)'
  BY <1>2, <1>5 DEF FromFits, Froms
<1>10. InStep(p)'
  BY <1>1, <1>7, <1>8, <1>9 DEF InStep
<1>11. QED
  BY <1>1, <1>7, <1>10 DEF RowInStep

----------------------------------------------------------------------------
(* Jobs *)

DirsOf(r) == {Upload(rows[r].from)} \cup {<<place, r>> : place \in Places}

LEMMA PlanDirs ==
  ASSUME NEW kind \in Kinds, NEW n \in 1..Length(kind) + 1, NEW r, NEW from, FromFits(kind, r, from)
  PROVE  /\ Dir(Home(kind, n), r, from) \in DirsOf(r)
         /\ Drain(kind, n) # "none" => Dir(Drain(kind, n), r, from) \in DirsOf(r)
<1>1. from \in DirsOf(r)
  BY DEF FromFits, DirsOf, Places
<1>2. Home(kind, n) = "from" \/ Home(kind, n) \in Places
  BY DEF Home, Places
<1>3. Drain(kind, n) \in {"none", "from"} \/ Drain(kind, n) \in Places
  BY DEF Drain, Places
<1>4. \A place \in Places : Dir(place, r, from) \in DirsOf(r)
  BY <1>1 DEF Dir, DirsOf
<1>5. Dir("from", r, from) \in DirsOf(r)
  BY <1>1 DEF Dir
<1>6. QED
  BY <1>2, <1>3, <1>4, <1>5

LEMMA DirsTyped ==
  ASSUME Typed, NEW r \in RowIds
  PROVE  DirsOf(r) \subseteq Paths /\ Upload(rows[r].from) \in Paths
BY RowTyped DEF DirsOf, Paths

LEMMA OnlyDirsOf ==
  ASSUME Typed, NEW r \in RowIds, rows' = rows,
         \A path \in Paths \ DirsOf(r) : disk'[path] = disk[path],
         disk'[Upload(rows[r].from)] \subseteq disk[Upload(rows[r].from)]
  PROVE  OnlyAbout(r)
<1>1. r \in 1..MaxRows /\ rows[r].from \in Dirs
  BY RowTyped
<1>2. ASSUME NEW s \in (1..MaxRows) \ {r}, NEW place \in Places
      PROVE  disk'[<<place, s>>] = disk[<<place, s>>]
  <2>1. <<place, s>> \in Paths /\ <<place, s>> \notin DirsOf(r)
    BY <1>1, PathsDiffer DEF DirsOf
  <2>2. QED
    BY <2>1
<1>3. ASSUME NEW d \in Dirs
      PROVE  disk'[Upload(d)] \subseteq disk[Upload(d)]
  <2>1. CASE d = rows[r].from
    BY <2>1
  <2>2. CASE d # rows[r].from
    <3>1. Upload(d) \in Paths
      BY DEF Paths
    <3>2. Upload(d) \notin DirsOf(r)
      BY <1>1, <2>2 DEF DirsOf, Upload, Places
    <3>3. QED
      BY <3>1, <3>2
  <2>3. QED
    BY <2>1, <2>2
<1>4. QED
  BY <1>2, <1>3 DEF OnlyAbout, RowIds, SameIssue

LEMMA UploadTaken ==
  ASSUME Typed, NEW r \in RowIds, NEW kind, FromFits(kind, r, Upload(rows[r].from))
  PROVE  kind # "remove"
BY RowTyped, PathsDiffer DEF FromFits, Places

(* What jobs that have nothing to do with the row leave it at.              *)
LEMMA RowStays ==
  ASSUME Typed, NEW p \in PipeIds, NEW kind, NEW from, NEW n, Stands(p, kind, from, n),
         n \in 1..Length(kind), pipes[p].jobs[n].type \notin RowTypes
  PROVE  RowFits(rows[pipes[p].row], kind, pipes[p].row, from, n + 1)
<1> DEFINE r == pipes[p].row
           job == JobsOf(kind, r, from)[n]
<1>1. r \in 1..MaxRows /\ rows[r] \in Row
  BY PipesTyped, RowTyped
<1>2. kind \in Kinds /\ RowFits(rows[r], kind, r, from, n) /\ job.type \notin RowTypes
  BY DEF Stands
<1>3. RowFits(Written(rows[r], job), kind, r, from, n + 1)
  BY <1>1, <1>2, PlansWrite
<1> HIDE DEF job
<1>4. Written(rows[r], job) = rows[r]
  BY <1>2 DEF Written, RowTypes
<1>5. QED
  BY <1>3, <1>4

LEMMA RowJobStep ==
  ASSUME Typed, NEW p \in PipeIds, NEW kind, NEW from, NEW n,
         Stands(p, kind, from, n), n \in 1..Length(kind), pipes[p].st[n] = "pending",
         RowJob(p, n)
  PROVE  /\ rows' \in Seq(Row) /\ OnlyAbout(pipes[p].row)
         /\ Stands(p, kind, from, n + 1)' /\ RowInStep(pipes[p].row)'
<1> DEFINE r == pipes[p].row
           job == JobsOf(kind, r, from)[n]
           y == Written(rows[r], job)
<1>1. r \in RowIds /\ r \in 1..MaxRows /\ rows[r] \in Row /\ n \in Nat /\ rows \in Seq(Row)
  BY PipesTyped, RowTyped DEF Typed
<1>2. /\ kind \in Kinds /\ RowFits(rows[r], kind, r, from, n) /\ pipes[p].jobs[n] = job
      /\ At(p, n) /\ n \in 1..Len(pipes[p].jobs)
  BY PlanLength DEF Stands
<1>3. y \in Row /\ SameIssue(rows[r], y) /\ RowFits(y, kind, r, from, n + 1)
  BY <1>1, <1>2, PlansWrite
<1>4. Moves(job, kind, r, from, n)
  BY <1>2, PlansMove
<1>5. Tied(job) /\ rows' = [rows EXCEPT ![r] = y] /\ disk' = disk
  BY <1>2 DEF RowJob
<1>6. rows[r].ignored => y.ignored
  BY DEF Written
<1> HIDE DEF job, y
<1>7. Restated(p) /\ At(p, n + 1)'
  BY <1>2, JobDone DEF RowJob
<1>8. /\ rows' \in Seq(Row) /\ Len(rows') = Len(rows) /\ rows'[r] = y
      /\ \A s \in RowIds \ {r} : rows'[s] = rows[s]
  BY <1>1, <1>3, <1>5, ExceptSeq DEF RowIds
<1>9. OnlyAbout(r)
  BY <1>3, <1>5, <1>6, <1>8 DEF OnlyAbout, RowIds
<1>10. Home(kind, n + 1) = Home(kind, n) /\ Drain(kind, n) = "none" /\ Drain(kind, n + 1) = "none"
  BY <1>4, <1>5 DEF Moves, Tied
<1>11. FilesAt(r, Dir(Home(kind, n + 1), r, from), Dir(Drain(kind, n + 1), r, from))'
  BY <1>5, <1>7, <1>10 DEF Stands, FilesAt, Restated
<1>12. from = Upload(rows[r].from) /\ n + 1 >= 4 => disk'[from] = {}
  <2>1. from = Upload(rows[r].from) => kind # "remove"
    BY <1>1, UploadTaken DEF Stands
  <2>2. from = Upload(rows[r].from) => n # 3
    BY <1>10, <2>1 DEF Drain
  <2>3. from = Upload(rows[r].from) /\ n + 1 >= 4 => n >= 4
    BY <1>1, <2>2
  <2>4. from = Upload(rows[r].from) /\ n >= 4 => disk[from] = {}
    BY DEF Stands
  <2>5. QED
    BY <1>5, <2>3, <2>4
<1>13. RowFits(rows'[r], kind, r, from, n + 1)
  BY <1>3, <1>8
<1>14. n + 1 \in 1..Length(kind) + 1 /\ n + 1 >= n
  BY <1>1, <1>2, PlanLength
<1>15. Stands(p, kind, from, n + 1)' /\ RowInStep(pipes[p].row)'
  BY <1>7, <1>9, <1>11, <1>12, <1>13, <1>14, StandsAfter
<1>16. QED
  BY <1>8, <1>9, <1>15

LEMMA SyncStep ==
  ASSUME Typed, RowsInStep, NEW p \in PipeIds, NEW kind, NEW from, NEW n,
         Stands(p, kind, from, n), n \in 1..Length(kind), pipes[p].st[n] = "pending",
         SyncDir(p, n), disk[pipes[p].jobs[n].src] # {}
  PROVE  /\ disk' \in [Paths -> SUBSET Pages] /\ OnlyAbout(pipes[p].row)
         /\ \A d \in Dirs : disk'[Upload(d)] = disk[Upload(d)]
         /\ Stands(p, kind, from, n + 1)' /\ RowInStep(pipes[p].row)'
<1> DEFINE r == pipes[p].row
           job == pipes[p].jobs[n]
           src == Dir(Home(kind, n), r, from)
           dst == <<Home(kind, n + 1), r>>
<1>1. r \in RowIds /\ r \in 1..MaxRows /\ n \in Nat /\ disk \in [Paths -> SUBSET Pages]
  BY PipesTyped, RowTyped DEF Typed
<1>2. /\ kind \in Kinds /\ At(p, n) /\ n \in 1..Len(pipes[p].jobs) /\ FromFits(kind, r, from)
      /\ FilesAt(r, src, Dir(Drain(kind, n), r, from)) /\ job = JobsOf(kind, r, from)[n]
  BY PlanLength DEF Stands
<1>3. Moves(job, kind, r, from, n) /\ job.type = "sync"
  BY <1>2, PlansMove DEF SyncDir
<1>4. /\ job.src = src /\ job.dst = dst /\ Home(kind, n + 1) \in Places
      /\ Drain(kind, n) = "none" /\ Drain(kind, n + 1) = Home(kind, n)
  BY <1>3 DEF Moves, Dir, Places
<1>5. disk[src] = Pages
  BY <1>4, HomeWhole
<1>6. dst \in Paths /\ dst \in DirsOf(r) /\ \A d \in Dirs : Upload(d) # dst
  BY <1>1, <1>4, PathsDiffer DEF DirsOf
<1>7. rows' = rows /\ disk' = [disk EXCEPT ![dst] = Pages]
  <2>1. disk[dst] \cup disk[src] = Pages
    BY <1>1, <1>5, <1>6
  <2>2. rows' = rows /\ disk' = [disk EXCEPT ![dst] = disk[dst] \cup disk[src]]
    BY <1>4 DEF SyncDir
  <2>3. QED
    BY <2>1, <2>2
<1>8. Restated(p) /\ At(p, n + 1)'
  BY <1>2, JobDone DEF SyncDir
<1>9. RowFits(rows'[r], kind, r, from, n + 1)
  BY <1>3, <1>7, RowStays DEF RowTypes
<1> HIDE DEF job, src, dst
<1>10. disk' \in [Paths -> SUBSET Pages] /\ \A d \in Dirs : disk'[Upload(d)] = disk[Upload(d)]
  BY <1>1, <1>6, <1>7 DEF Paths
<1>11. OnlyAbout(r)
  <2>1. rows[r].from \in Dirs
    BY <1>1, RowTyped
  <2>2. QED
    BY <1>1, <1>6, <1>7, <1>10, <2>1, OnlyDirsOf
<1>12. FilesAt(r, dst, src)'
  <2>1. ASSUME NEW place \in Places, <<place, r>> # src
        PROVE  disk'[<<place, r>>] = IF <<place, r>> = dst THEN Pages ELSE {}
    <3>1. <<place, r>> \in Paths
      BY <1>1, PathsDiffer
    <3>2. <<place, r>> # Dir(Drain(kind, n), r, from)
      BY <1>1, <1>4 DEF Dir, Places
    <3>3. disk[<<place, r>>] = {}
      BY <1>2, <2>1, <3>2 DEF FilesAt
    <3>4. QED
      BY <1>1, <1>7, <3>1, <3>3
  <2>2. QED
    BY <1>8, <2>1 DEF FilesAt, Restated, src, dst
<1>13. from = Upload(rows[r].from) /\ n + 1 >= 4 => disk'[from] = {}
  <2>1. from = Upload(rows[r].from) => kind # "remove"
    BY <1>1, <1>2, UploadTaken
  <2>2. from = Upload(rows[r].from) => n # 3
    BY <1>4, <2>1 DEF Drain
  <2>3. rows[r].from \in Dirs
    BY <1>1, RowTyped
  <2>4. QED
    <3>1. from = Upload(rows[r].from) /\ n >= 4 => disk[from] = {}
      BY <1>1 DEF Stands
    <3>2. n # 3 /\ n + 1 >= 4 => n >= 4
      BY <1>1
    <3>3. QED
      BY <1>10, <2>2, <2>3, <3>1, <3>2
<1>14. dst = Dir(Home(kind, n + 1), r, from) /\ src = Dir(Drain(kind, n + 1), r, from)
  BY <1>4 DEF dst, src, Dir, Places
<1>15. n + 1 \in 1..Length(kind) + 1 /\ n + 1 >= n
  BY <1>1, <1>2, PlanLength
<1>16. FilesAt(r, Dir(Home(kind, n + 1), r, from), Dir(Drain(kind, n + 1), r, from))'
  <2>1. pipes'[p].row = pipes[p].row
    BY <1>8 DEF Restated
  <2>2. QED
    BY <1>12, <1>14, <2>1 DEF dst, src
<1>17. Stands(p, kind, from, n + 1)' /\ RowInStep(pipes[p].row)'
  BY <1>8, <1>9, <1>11, <1>13, <1>15, <1>16, StandsAfter
<1>18. QED
  BY <1>10, <1>11, <1>17

LEMMA RenameStep ==
  ASSUME Typed, NEW p \in PipeIds, NEW kind, NEW from, NEW n,
         Stands(p, kind, from, n), n \in 1..Length(kind), pipes[p].st[n] = "pending",
         RenameDir(p, n)
  PROVE  /\ disk' \in [Paths -> SUBSET Pages] /\ OnlyAbout(pipes[p].row)
         /\ \A d \in Dirs : disk'[Upload(d)] = disk[Upload(d)]
         /\ Stands(p, kind, from, n + 1)' /\ RowInStep(pipes[p].row)'
<1> DEFINE r == pipes[p].row
           job == pipes[p].jobs[n]
           src == <<Home(kind, n), r>>
           dst == <<Home(kind, n + 1), r>>
<1>1. r \in RowIds /\ r \in 1..MaxRows /\ n \in Nat /\ disk \in [Paths -> SUBSET Pages]
  BY PipesTyped, RowTyped DEF Typed
<1>2. /\ kind \in Kinds /\ At(p, n) /\ n \in 1..Len(pipes[p].jobs) /\ FromFits(kind, r, from)
      /\ FilesAt(r, Dir(Home(kind, n), r, from), Dir(Drain(kind, n), r, from))
      /\ job = JobsOf(kind, r, from)[n]
  BY PlanLength DEF Stands
<1>3. Moves(job, kind, r, from, n) /\ job.type = "rename"
  BY <1>2, PlansMove DEF RenameDir
<1>4. /\ job.src = src /\ job.dst = dst /\ Home(kind, n) \in Places /\ Home(kind, n + 1) \in Places
      /\ Drain(kind, n) = "none" /\ Drain(kind, n + 1) = "none" /\ src # dst
      /\ Dir(Home(kind, n), r, from) = src /\ Dir(Home(kind, n + 1), r, from) = dst
  BY <1>3 DEF Moves, Dir, Places
<1>5. \A place \in Places : <<place, r>> # <<"none", r>>
  BY <1>1 DEF Places
<1>6. \A place \in Places : disk[<<place, r>>] = IF <<place, r>> = src THEN Pages ELSE {}
  BY <1>2, <1>4, <1>5 DEF FilesAt, Dir
<1>7. /\ src \in Paths /\ src \in DirsOf(r) /\ \A d \in Dirs : Upload(d) # src
      /\ dst \in Paths /\ dst \in DirsOf(r) /\ \A d \in Dirs : Upload(d) # dst
  BY <1>1, <1>4, PathsDiffer DEF DirsOf
<1>8. rows' = rows /\ disk' = [disk EXCEPT ![dst] = disk[src], ![src] = {}]
  BY <1>4 DEF RenameDir
<1>9. Restated(p) /\ At(p, n + 1)'
  BY <1>2, JobDone DEF RenameDir
<1>10. RowFits(rows'[r], kind, r, from, n + 1)
  BY <1>3, <1>8, RowStays DEF RowTypes
<1>11. disk[src] = Pages
  BY <1>4, <1>6
<1> HIDE DEF job, src, dst
<1>12. disk' \in [Paths -> SUBSET Pages] /\ \A d \in Dirs : disk'[Upload(d)] = disk[Upload(d)]
  BY <1>1, <1>7, <1>8 DEF Paths
<1>13. OnlyAbout(r)
  <2>1. rows[r].from \in Dirs
    BY <1>1, RowTyped
  <2>2. QED
    BY <1>1, <1>7, <1>8, <1>12, <2>1, OnlyDirsOf
<1>14. \A place \in Places : disk'[<<place, r>>] = IF <<place, r>> = dst THEN Pages ELSE {}
  <2>1. TAKE place \in Places
  <2>2. <<place, r>> \in Paths
    BY <1>1, PathsDiffer
  <2>3. QED
    BY <1>1, <1>4, <1>6, <1>7, <1>8, <1>11, <2>2
<1>15. from = Upload(rows[r].from) /\ n + 1 >= 4 => disk'[from] = {}
  <2>1. from = Upload(rows[r].from) => kind # "remove"
    BY <1>1, <1>2, UploadTaken
  <2>2. from = Upload(rows[r].from) => n # 3
    BY <1>4, <2>1 DEF Drain
  <2>3. rows[r].from \in Dirs
    BY <1>1, RowTyped
  <2>4. from = Upload(rows[r].from) /\ n + 1 >= 4 => n >= 4
    BY <1>1, <2>2
  <2>5. from = Upload(rows[r].from) /\ n >= 4 => disk[from] = {}
    BY <1>1 DEF Stands
  <2>6. QED
    BY <1>12, <2>3, <2>4, <2>5
<1>16. n + 1 \in 1..Length(kind) + 1 /\ n + 1 >= n
  BY <1>1, <1>2, PlanLength
<1>17. FilesAt(r, Dir(Home(kind, n + 1), r, from), Dir(Drain(kind, n + 1), r, from))'
  <2>1. pipes'[p].row = pipes[p].row
    BY <1>9 DEF Restated
  <2>2. QED
    BY <1>4, <1>14, <2>1 DEF dst, FilesAt
<1>18. Stands(p, kind, from, n + 1)' /\ RowInStep(pipes[p].row)'
  BY <1>9, <1>10, <1>13, <1>15, <1>16, <1>17, StandsAfter
<1>19. QED
  BY <1>12, <1>13, <1>18

LEMMA KillStep ==
  ASSUME Typed, NEW p \in PipeIds, NEW kind, NEW from, NEW n,
         Stands(p, kind, from, n), n \in 1..Length(kind), pipes[p].st[n] = "pending",
         KillDir(p, n)
  PROVE  /\ disk' \in [Paths -> SUBSET Pages] /\ OnlyAbout(pipes[p].row)
         /\ \A d \in Dirs : disk'[Upload(d)] # disk[Upload(d)] =>
              d = rows[pipes[p].row].from /\ Took(p)
         /\ (pipes' = pipes /\ Stands(p, kind, from, n)') \/ (Succeed(p, n) /\ Stands(p, kind, from, n + 1)')
         /\ RowInStep(pipes[p].row)'
<1> DEFINE r == pipes[p].row
           job == pipes[p].jobs[n]
           up == Upload(rows[r].from)
           src == Dir(Drain(kind, n), r, from)
           home == Dir(Home(kind, n), r, from)
<1>1. /\ r \in RowIds /\ r \in 1..MaxRows /\ n \in Nat /\ disk \in [Paths -> SUBSET Pages]
      /\ rows[r].from \in Dirs /\ Len(rows) <= MaxRows
  BY PipesTyped, RowTyped DEF Typed
<1>2. /\ kind \in Kinds /\ At(p, n) /\ n \in 1..Len(pipes[p].jobs) /\ FromFits(kind, r, from)
      /\ FilesAt(r, home, src) /\ job = JobsOf(kind, r, from)[n]
      /\ pipes[p].removal = (IF kind = "remove" THEN TRUE ELSE FALSE)
  BY PlanLength DEF Stands
<1>3. Moves(job, kind, r, from, n) /\ job.type = "kill"
  BY <1>2, PlansMove DEF KillDir
<1>4. /\ job.src = src /\ Drain(kind, n) # "none" /\ Drain(kind, n + 1) = "none"
      /\ Home(kind, n + 1) = Home(kind, n) /\ Home(kind, n) \in Places
      /\ Dir(Drain(kind, n + 1), r, from) = <<"none", r>> /\ home = <<Home(kind, n), r>>
  BY <1>3 DEF Moves, Dir, Places
<1>5. src # home
  BY <1>1, <1>2, <1>4, DrainApart
<1>6. src \in Paths /\ src \in DirsOf(r)
  <2>1. n \in 1..Length(kind) + 1
    BY <1>2, PlanLength
  <2>2. QED
    BY <1>1, <1>2, <1>4, <2>1, PlanDirs, DirsTyped
<1>7. rows' = rows
  BY DEF KillDir
<1>8. RowFits(rows'[r], kind, r, from, n + 1) /\ RowFits(rows'[r], kind, r, from, n)
  BY <1>3, <1>7, RowStays DEF RowTypes, Stands
<1>9. src = up => Took(p)
  <2>1. src = up => from = up /\ Drain(kind, n) = "from"
    BY <1>1, <1>4, PathsDiffer DEF Dir, Drain, Places
  <2>2. from = up => kind # "remove"
    BY <1>1, <1>2, UploadTaken
  <2>3. src = up => n = 3 /\ kind # "remove"
    BY <2>1, <2>2 DEF Drain
  <2>4. src = up => pipes[p].st[2] = "success"
    BY <1>2, <2>3 DEF At
  <2>5. QED
    BY <1>2, <2>3, <2>4 DEF Took
<1>10. n + 1 \in 1..Length(kind) + 1 /\ n + 1 >= n /\ n \in 1..Length(kind) + 1 /\ n >= n
  BY <1>1, <1>2, PlanLength
<1>11. \A d \in Dirs : Upload(d) \in Paths /\ (Upload(d) = up => d = rows[r].from)
  BY DEF Paths, Upload
<1> HIDE DEF job, src, home, up
<1>12. CASE disk[src] = {}
  <2>1. disk' = disk /\ Succeed(p, n)
    BY <1>4, <1>12 DEF KillDir, job
  <2>2. Restated(p) /\ At(p, n + 1)'
    BY <1>2, <2>1, JobDone
  <2>3. OnlyAbout(r)
    BY <1>1, <1>7, <2>1, OnlyDirsOf
  <2>4. \A place \in Places : disk[<<place, r>>] = IF <<place, r>> = home THEN Pages ELSE {}
    BY <1>2, <1>5, <1>12 DEF FilesAt
  <2>5. FilesAt(r, Dir(Home(kind, n + 1), r, from), Dir(Drain(kind, n + 1), r, from))'
    <3>1. pipes'[p].row = pipes[p].row
      BY <2>2 DEF Restated
    <3>2. QED
      BY <1>4, <2>1, <2>4, <3>1 DEF home, FilesAt
  <2>6. from = Upload(rows[r].from) /\ n + 1 >= 4 => disk'[from] = {}
    <3>1. CASE n = 3
      <4>1. from = up => kind # "remove"
        BY <1>1, <1>2, UploadTaken DEF up
      <4>2. from = up => src = from
        BY <3>1, <4>1 DEF src, Drain, Dir
      <4>3. QED
        BY <1>12, <2>1, <4>2 DEF up
    <3>2. CASE n # 3
      <4>1. from = up /\ n >= 4 => disk[up] = {}
        BY DEF Stands, up
      <4>2. n + 1 >= 4 => n >= 4
        BY <1>1, <3>2
      <4>3. QED
        BY <2>1, <4>1, <4>2 DEF up
    <3>3. QED
      BY <3>1, <3>2
  <2>7. Stands(p, kind, from, n + 1)' /\ RowInStep(pipes[p].row)'
    BY <1>8, <1>10, <2>2, <2>3, <2>5, <2>6, StandsAfter
  <2>8. QED
    BY <1>1, <2>1, <2>3, <2>7
<1>13. CASE disk[src] # {}
  <2>1. PICK page \in disk[src] : disk' = [disk EXCEPT ![src] = disk[src] \ {page}]
    BY <1>4, <1>13 DEF KillDir, job
  <2>2. pipes' = pipes
    BY <1>4, <1>13 DEF KillDir, job
  <2>3. Restated(p) /\ At(p, n)'
    BY <1>2, <2>2 DEF Restated, PipeIds, At, Typed
  <2>4. /\ disk' \in [Paths -> SUBSET Pages] /\ disk'[src] \subseteq disk[src]
        /\ \A path \in Paths \ {src} : disk'[path] = disk[path]
    BY <1>1, <1>6, <2>1
  <2>5. \A d \in Dirs : /\ disk'[Upload(d)] \subseteq disk[Upload(d)]
                        /\ disk'[Upload(d)] # disk[Upload(d)] => d = rows[r].from /\ Took(p)
    <3>1. TAKE d \in Dirs
    <3>2. CASE Upload(d) = src
      <4>1. up = Upload(d)
        BY <1>1, <1>6, <3>2, PathsDiffer DEF DirsOf, up
      <4>2. QED
        BY <1>9, <1>11, <2>4, <3>2, <4>1
    <3>3. CASE Upload(d) # src
      BY <1>11, <2>4, <3>3
    <3>4. QED
      BY <3>2, <3>3
  <2>6. OnlyAbout(r)
    BY <1>1, <1>6, <1>7, <2>4, <2>5, OnlyDirsOf
  <2>7. FilesAt(r, Dir(Home(kind, n), r, from), Dir(Drain(kind, n), r, from))'
    <3>1. \A place \in Places : <<place, r>> # src => disk'[<<place, r>>] = disk[<<place, r>>]
      BY <1>1, <2>4, PathsDiffer
    <3>2. QED
      BY <1>2, <2>2, <3>1 DEF home, src, FilesAt
  <2>8. from = Upload(rows[r].from) /\ n >= 4 => disk'[from] = {}
    BY <1>1, <2>5 DEF Stands
  <2>9. Stands(p, kind, from, n)' /\ RowInStep(pipes[p].row)'
    BY <1>8, <1>10, <2>3, <2>6, <2>7, <2>8, StandsAfter
  <2>10. QED
    BY <2>2, <2>4, <2>5, <2>6, <2>9
<1>14. QED
  BY <1>12, <1>13

----------------------------------------------------------------------------
(* Steps of a pipeline whose issue no tool has in hand *)

LEMMA TypedAfter ==
  ASSUME Typed, NEW p \in PipeIds, Restated(p), OnlyAbout(pipes[p].row),
         rows' \in Seq(Row), disk' \in [Paths -> SUBSET Pages], q' \in [Clients -> Request],
         UNCHANGED <<world, web, tools>>
  PROVE  Typed'
<1>1. RowIds' = RowIds /\ Len(rows') = Len(rows)
  <2>1. rows \in Seq(Row) /\ rows' \in Seq(Row) /\ 1..Len(rows') = 1..Len(rows)
    BY DEF OnlyAbout, RowIds, Typed
  <2>2. Len(rows) \in Nat /\ Len(rows') \in Nat
    BY <2>1
  <2>3. QED
    BY <2>1, <2>2 DEF RowIds
<1>2. \A r \in RowIds : SameIssue(rows[r], rows'[r])
  BY DEF OnlyAbout, SameIssue
<1>3. \A r \in RowIds' : SameKey(r, rows[r].from)'
  BY <1>1, <1>2 DEF SameKey, SameIssue, Of, Typed
<1>4. \A o \in PipeIds' : /\ pipes'[o].row \in RowIds'
                          /\ DOMAIN pipes'[o].st = 1..Len(pipes'[o].jobs)
  BY <1>1 DEF Restated, Typed
<1>5. pipes' \in Seq(Pipe)
  BY DEF Restated
<1>6. Clients' = Clients
  BY DEF Clients
<1>7. QED
  BY <1>1, <1>3, <1>4, <1>5, <1>6 DEF Typed, tools

LEMMA RowsAfter ==
  ASSUME Typed, RowsInStep, NEW p \in PipeIds, Restated(p), OnlyAbout(pipes[p].row),
         RowInStep(pipes[p].row)', UploadsKept', TakenOnce'
  PROVE  RowsInStep'
<1>1. RowIds' = RowIds /\ PipeIds' = PipeIds /\ \A r \in RowIds : About(r)' = About(r)
  BY OthersUntouched DEF OnlyAbout, Restated
<1>2. \A r \in RowIds : SameIssue(rows[r], rows'[r]) /\ (rows[r].ignored => rows'[r].ignored)
  BY DEF OnlyAbout, SameIssue
<1>3. \A r \in RowIds' : RowInStep(r)'
  <2>1. \A r \in RowIds \ {pipes[p].row} : RowInStep(r)'
    BY OthersUntouched, RowKept DEF RowsInStep
  <2>2. ASSUME NEW r \in RowIds, r = pipes[p].row
        PROVE  RowInStep(r)'
    <3>1. r = pipes'[p].row
      BY <2>2 DEF Restated
    <3>2. QED
      BY <3>1
  <2>3. QED
    BY <1>1, <2>1, <2>2
<1>4. KeysUnique'
  BY <1>1, <1>2 DEF RowsInStep, KeysUnique, SameIssue
<1>5. FirstTakes'
  <2>1. SUFFICES ASSUME NEW o \in PipeIds, ~pipes'[o].removal
                 PROVE  TakesFirst(o)'
    BY <1>1 DEF FirstTakes
  <2>2. /\ pipes'[o].row = pipes[o].row /\ pipes'[o].jobs = pipes[o].jobs
        /\ ~pipes[o].removal /\ pipes[o].row \in RowIds
    BY <2>1, PipesTyped DEF Restated
  <2>3. TakesFirst(o)
    BY <2>2 DEF RowsInStep, FirstTakes
  <2>4. rows'[pipes[o].row].from = rows[pipes[o].row].from
    BY <1>2, <2>2 DEF SameIssue
  <2>5. \A k \in PipeIds : pipes'[k].row = pipes[k].row
    BY DEF Restated
  <2>6. QED
    BY <1>1, <2>2, <2>3, <2>4, <2>5 DEF TakesFirst, About
<1>6. NoneBeyond'
  BY <1>1, PipesTyped DEF RowsInStep, NoneBeyond, OnlyAbout
<1>7. QED
  BY <1>3, <1>4, <1>5, <1>6 DEF RowsInStep

LEMMA ClientsAfter ==
  ASSUME ClientsInStep, UNCHANGED <<world, q>>, RowIds \subseteq RowIds',
         \A r \in RowIds : About(r)' = {} <=> About(r) = {},
         \A r \in RowIds : SameIssue(rows[r], rows'[r]),
         \A d : Rows(d) = {} => Rows(d)' = {}
  PROVE  ClientsInStep'
<1>1. Clients' = Clients /\ \A c : Busy(c)' = Busy(c) /\ Up(c)' = Up(c)
  BY DEF Clients, Busy, Up
<1>2. ASSUME NEW c \in Clients
      PROVE  ClientInStep(c)'
  <2>1. ClientInStep(c)
    BY DEF ClientsInStep
  <2>2. /\ \A r \in RowIds : rows'[r].from = rows[r].from
        /\ \A r \in RowIds : \A d : SameKey(r, d)' = SameKey(r, d)
    BY DEF SameIssue, SameKey, Of
  <2>3. QED
    BY <1>1, <2>1, <2>2 DEF ClientInStep
<1>3. \A c, o : Apart(c, o)' = Apart(c, o)
  BY <1>1 DEF Apart, SameKeys, Of
<1>4. QED
  BY <1>1, <1>2, <1>3 DEF ClientsInStep

LEMMA PurgeAfter ==
  ASSUME PurgeInStep, purge' = purge, RowIds \subseteq RowIds', PipeIds \subseteq PipeIds',
         \A x \in purge.list : rows'[x.id] = rows[x.id],
         \A o \in PipeIds, n \in 1..12 :
           StuckAt(o, n) /\ (\E x \in purge.list : x.id = pipes[o].row) =>
             /\ StuckAt(o, n)' /\ pipes'[o].row = pipes[o].row
             /\ pipes'[o].jobs = pipes[o].jobs /\ pipes'[o].redone = pipes[o].redone
  PROVE  PurgeInStep'
<1>1. ASSUME NEW j \in purge.cancel
      PROVE  /\ \E x \in purge.list : x.id = j.row
             /\ j.pipe \in PipeIds' /\ pipes'[j.pipe].row = j.row
             /\ j.redone = pipes'[j.pipe].redone
             /\ \E n \in 1..12 : /\ StuckAt(j.pipe, n)' /\ j.n \in n..Len(pipes'[j.pipe].jobs)
                                 /\ \E k \in purge.cancel : k.pipe = j.pipe /\ k.n = n
  <2>1. /\ \E x \in purge.list : x.id = j.row
        /\ j.pipe \in PipeIds /\ pipes[j.pipe].row = j.row
        /\ j.redone = pipes[j.pipe].redone
    BY <1>1 DEF PurgeInStep
  <2>2. PICK n \in 1..12 : /\ StuckAt(j.pipe, n) /\ j.n \in n..Len(pipes[j.pipe].jobs)
                           /\ \E k \in purge.cancel : k.pipe = j.pipe /\ k.n = n
    BY <1>1 DEF PurgeInStep
  <2>3. /\ StuckAt(j.pipe, n)' /\ pipes'[j.pipe].row = pipes[j.pipe].row
        /\ pipes'[j.pipe].jobs = pipes[j.pipe].jobs
        /\ pipes'[j.pipe].redone = pipes[j.pipe].redone
    BY <2>1, <2>2
  <2>4. QED
    BY <2>1, <2>2, <2>3
<1>2. QED
  BY <1>1 DEF PurgeInStep

LEMMA FixerAfter ==
  ASSUME FixerInStep, fixer' = fixer, RowIds \subseteq RowIds',
         fixer.pc # "idle" => Untouched(fixer.row)
  PROVE  FixerInStep'
<1>1. CASE fixer.pc = "idle"
  BY <1>1 DEF FixerInStep, NotFixing
<1>2. CASE fixer.pc # "idle"
  <2>1. PICK p \in About(fixer.row) : Stands(p, "review", Upload(rows[fixer.row].from), 12)
    BY <1>2 DEF FixerInStep, InReview
  <2>2. Stands(p, "review", Upload(rows[fixer.row].from), 12)'
    <3>1. rows'[fixer.row].from = rows[fixer.row].from
      BY <1>2 DEF Untouched
    <3>2. QED
      BY <1>2, <2>1, <3>1, StandsKept
  <2>3. p \in About(fixer.row)'
    BY <1>2 DEF Untouched
  <2>4. InReview(fixer.row)'
    BY <2>2, <2>3 DEF InReview
  <2>5. QED
    BY <1>2, <2>4 DEF FixerInStep, Untouched
<1>3. QED
  BY <1>1, <1>2

(* Rows are never brought back, so what was not found stays so.             *)
LEMMA RowsNotFound ==
  ASSUME RowIds' = RowIds, world' = world,
         \A r \in RowIds : SameIssue(rows[r], rows'[r]) /\ (rows[r].ignored => rows'[r].ignored)
  PROVE  \A d : Rows(d) = {} => Rows(d)' = {}
BY DEF Rows, SameKey, SameIssue, Of

LEMMA HandsAfter ==
  ASSUME Typed, ClientsInStep, PurgeInStep, FixerInStep, Undisturbed,
         NEW p \in PipeIds, Restated(p), OnlyAbout(pipes[p].row), ~Held(pipes[p].row),
         UNCHANGED <<world, q, web, tools>>
  PROVE  ClientsInStep' /\ PurgeInStep' /\ FixerInStep'
<1>1. /\ \A s \in RowIds : About(s)' = About(s)
      /\ \A s \in RowIds \ {pipes[p].row} : Untouched(s)
  BY OthersUntouched
<1>2. ClientsInStep'
  <2>1. \A r \in RowIds : SameIssue(rows[r], rows'[r]) /\ (rows[r].ignored => rows'[r].ignored)
    BY DEF OnlyAbout, SameIssue
  <2>2. \A d : Rows(d) = {} => Rows(d)' = {}
    BY <2>1, RowsNotFound DEF OnlyAbout
  <2>3. QED
    BY <1>1, <2>1, <2>2, ClientsAfter DEF OnlyAbout, SameIssue
<1>3. FixerInStep'
  BY <1>1, FixerAfter DEF FixerInStep, Held, OnlyAbout, tools
<1>4. PurgeInStep'
  <2>1. \A x \in purge.list : x.id \in RowIds \ {pipes[p].row}
    BY DEF PurgeInStep, Held
  <2>2. \A x \in purge.list : rows'[x.id] = rows[x.id]
    BY <2>1 DEF OnlyAbout
  <2>3. ASSUME NEW o \in PipeIds, NEW n \in 1..12, StuckAt(o, n),
               \E x \in purge.list : x.id = pipes[o].row
        PROVE  StuckAt(o, n)' /\ pipes'[o] = pipes[o]
    <3>1. o \in About(pipes[o].row)
      BY DEF About
    <3>2. Untouched(pipes[o].row)
      BY <1>1, <2>1, <2>3
    <3>3. StuckAt(o, n)'
      BY <2>3, <3>1, <3>2, StuckKept
    <3>4. QED
      BY <3>1, <3>2, <3>3 DEF Untouched
  <2>4. QED
    BY <2>2, <2>3, PurgeAfter DEF OnlyAbout, Restated, tools
<1>5. QED
  BY <1>2, <1>3, <1>4

LEMMA SameRestated ==
  ASSUME Typed, NEW p \in PipeIds, pipes' = pipes
  PROVE  Restated(p)
BY DEF Restated, PipeIds, Typed

(* What a job that runs does, whichever it is.                              *)
LEMMA JobRuns ==
  ASSUME Typed, RowsInStep, NEW p \in PipeIds, NEW kind, NEW from, NEW n,
         Stands(p, kind, from, n), n \in 1..Length(kind), pipes[p].st[n] = "pending",
         ~CannotRun(pipes[p].row, pipes[p].jobs[n]),
         RowJob(p, n) \/ SyncDir(p, n) \/ RenameDir(p, n) \/ KillDir(p, n)
  PROVE  /\ OnlyAbout(pipes[p].row) /\ RowInStep(pipes[p].row)'
         /\ rows' \in Seq(Row) /\ disk' \in [Paths -> SUBSET Pages]
         /\ pipes' = pipes \/ Succeed(p, n)
         /\ \A d \in Dirs : disk'[Upload(d)] # disk[Upload(d)] =>
              d = rows[pipes[p].row].from /\ Took(p)
<1>1. rows \in Seq(Row) /\ disk \in [Paths -> SUBSET Pages]
  BY DEF Typed
<1>2. CASE RowJob(p, n)
  <2>1. disk' = disk /\ Succeed(p, n)
    BY <1>2 DEF RowJob
  <2>2. QED
    BY <1>1, <1>2, <2>1, RowJobStep
<1>3. CASE SyncDir(p, n)
  <2>1. rows' = rows /\ Succeed(p, n) /\ disk[pipes[p].jobs[n].src] # {}
    BY <1>3 DEF SyncDir, CannotRun
  <2>2. QED
    BY <1>1, <1>3, <2>1, SyncStep
<1>4. CASE RenameDir(p, n)
  <2>1. rows' = rows /\ Succeed(p, n)
    BY <1>4 DEF RenameDir
  <2>2. QED
    BY <1>1, <1>4, <2>1, RenameStep
<1>5. CASE KillDir(p, n)
  <2>1. rows' = rows
    BY <1>5 DEF KillDir
  <2>2. QED
    BY <1>1, <1>5, <2>1, KillStep
<1>6. QED
  BY <1>2, <1>3, <1>4, <1>5

LEMMA TakenByJob ==
  ASSUME Typed, RowsInStep, NEW p \in PipeIds, NEW kind, NEW from, NEW n,
         Stands(p, kind, from, n), n \in 1..Length(kind), pipes[p].st[n] = "pending",
         ~CannotRun(pipes[p].row, pipes[p].jobs[n]),
         Restated(p), pipes' = pipes \/ Succeed(p, n)
  PROVE  /\ Took(p) => Took(p)'
         /\ \A o \in PipeIds \ {p} : Took(o)' <=> Took(o)
         /\ Took(p)' /\ ~Taken(pipes[p].row) =>
              from = Upload(rows[pipes[p].row].from) /\ disk[from] # {}
<1> DEFINE r == pipes[p].row
<1>1. /\ kind \in Kinds /\ At(p, n) /\ n \in 1..Len(pipes[p].jobs) /\ 2 \in 1..Len(pipes[p].jobs)
      /\ pipes[p].jobs = JobsOf(kind, r, from) /\ p \in About(r)
      /\ pipes[p].removal = (IF kind = "remove" THEN TRUE ELSE FALSE)
  BY PlanLength DEF Stands, About
<1>2. \A o \in PipeIds \ {p} : Took(o)' <=> Took(o)
  BY DEF Restated, Took
<1>3. CASE pipes' = pipes
  <2>1. Took(p)' <=> Took(p)
    BY <1>3 DEF Took
  <2>2. QED
    BY <1>1, <1>2, <2>1 DEF Taken
<1>4. CASE Succeed(p, n)
  <2>1. pipes'[p].st[2] = "success" <=> (n = 2 \/ pipes[p].st[2] = "success")
    BY <1>1, <1>4, JobDone
  <2>2. Took(p) => Took(p)'
    BY <2>1 DEF Took, Restated
  <2>3. ASSUME Took(p)', ~Taken(r)
        PROVE  from = Upload(rows[r].from) /\ disk[from] # {}
    <3>1. n = 2 /\ kind # "remove"
      BY <1>1, <2>1, <2>3 DEF Took, Taken, Restated
    <3>2. from = Upload(rows[r].from)
      BY <2>3 DEF Stands, Taken
    <3>3. pipes[p].jobs[2] = Sync(from, <<"wip", r>>)
      <4>1. JobsOf("review", r, from)[2] = Sync(from, <<"wip", r>>)
        BY ReviewJobs
      <4>2. JobsOf("derive", r, from)[2] = Sync(from, <<"wip", r>>)
        BY DeriveJobs
      <4>3. QED
        BY <1>1, <3>1, <4>1, <4>2 DEF Kinds
    <3>4. QED
      BY <3>1, <3>2, <3>3 DEF CannotRun, Sync
  <2>4. QED
    BY <1>2, <2>2, <2>3
<1>5. QED
  BY <1>3, <1>4

LEMMA UploadsAfter ==
  ASSUME Typed, RowsInStep, NEW p \in PipeIds, NEW kind, NEW from, NEW n,
         Stands(p, kind, from, n), Restated(p), OnlyAbout(pipes[p].row),
         Took(p) => Took(p)', \A o \in PipeIds \ {p} : Took(o)' <=> Took(o),
         Took(p)' /\ ~Taken(pipes[p].row) =>
              from = Upload(rows[pipes[p].row].from) /\ disk[from] # {},
         \A d \in Dirs : disk'[Upload(d)] # disk[Upload(d)] =>
              d = rows[pipes[p].row].from /\ Took(p)
  PROVE  UploadsKept' /\ TakenOnce'
<1> DEFINE r == pipes[p].row
<1>1. /\ RowIds' = RowIds /\ r \in RowIds /\ p \in About(r)
      /\ \A s \in RowIds : rows'[s].from = rows[s].from /\ About(s)' = About(s)
  BY OthersUntouched, PipesTyped DEF OnlyAbout, SameIssue, About
<1>2. \A s \in RowIds : Taken(s) => Taken(s)'
  BY <1>1 DEF Taken, About
<1>3. \A s \in RowIds : s # r => (Taken(s)' <=> Taken(s))
  BY <1>1 DEF Taken, About
<1>4. UploadsKept'
  <2>1. SUFFICES ASSUME NEW d \in Dirs, \A s \in RowIds : rows'[s].from = d => ~Taken(s)'
                 PROVE  disk'[Upload(d)] = Pages
    BY <1>1 DEF UploadsKept
  <2>2. \A s \in RowIds : rows[s].from = d => ~Taken(s)
    BY <1>1, <1>2, <2>1
  <2>3. disk[Upload(d)] = Pages
    BY <2>2 DEF RowsInStep, UploadsKept
  <2>4. QED
    BY <1>1, <2>2, <2>3 DEF Taken
<1>5. TakenOnce'
  <2>1. SUFFICES ASSUME NEW s \in RowIds, NEW t \in RowIds, Taken(s)', Taken(t)',
                        rows[s].from = rows[t].from
                 PROVE  s = t
    BY <1>1 DEF TakenOnce
  <2>2. CASE Taken(r)
    BY <1>3, <2>1, <2>2 DEF RowsInStep, TakenOnce
  <2>3. CASE ~Taken(r) /\ ~Took(p)'
    <3>1. \A x \in RowIds : x = r => ~Taken(x)'
      BY <1>1, <2>3 DEF Taken, About
    <3>2. QED
      BY <1>3, <2>1, <3>1 DEF RowsInStep, TakenOnce
  <2>4. CASE ~Taken(r) /\ Took(p)'
    <3>1. \A x \in RowIds : Taken(x) /\ rows[x].from = rows[r].from => x = r
      BY <2>4, NobodyElse
    <3>2. QED
      BY <1>3, <2>1, <3>1 DEF RowsInStep, TakenOnce
  <2>5. QED
    BY <2>2, <2>3, <2>4
<1>6. QED
  BY <1>4, <1>5

LEMMA RunJobKeeps ==
  ASSUME Inv, Undisturbed, NEW p \in PipeIds, RunJob(p)
  PROVE  Inv'
<1>1. Typed /\ RowsInStep /\ ClientsInStep /\ PurgeInStep /\ FixerInStep
  BY DEF Inv
<1>2. PICK n \in Live(pipes[p]) :
        /\ ~CannotRun(pipes[p].row, pipes[p].jobs[n]) /\ ~Held(pipes[p].row)
        /\ RowJob(p, n) \/ SyncDir(p, n) \/ RenameDir(p, n) \/ KillDir(p, n)
        /\ UNCHANGED <<world, q, web, tools, count>>
  BY DEF RunJob
<1>3. n \in 1..Len(pipes[p].jobs) /\ pipes[p].st[n] = "pending"
  BY <1>1, PipesTyped DEF Live
<1>4. PICK kind \in Kinds, from \in Froms(pipes[p].row) :
        Stands(p, kind, from, n) /\ n \in 1..Length(kind)
  BY <1>1, <1>3, Standing
<1>5. /\ OnlyAbout(pipes[p].row) /\ RowInStep(pipes[p].row)'
      /\ rows' \in Seq(Row) /\ disk' \in [Paths -> SUBSET Pages]
      /\ pipes' = pipes \/ Succeed(p, n)
      /\ \A d \in Dirs : disk'[Upload(d)] # disk[Upload(d)] =>
           d = rows[pipes[p].row].from /\ Took(p)
  BY <1>1, <1>2, <1>3, <1>4, JobRuns
<1>6. At(p, n)
  BY <1>4 DEF Stands
<1>7. Restated(p)
  BY <1>1, <1>3, <1>5, <1>6, SameRestated, JobDone
<1>8. /\ Took(p) => Took(p)'
      /\ \A o \in PipeIds \ {p} : Took(o)' <=> Took(o)
      /\ Took(p)' /\ ~Taken(pipes[p].row) =>
           from = Upload(rows[pipes[p].row].from) /\ disk[from] # {}
  BY <1>1, <1>2, <1>3, <1>4, <1>5, <1>7, TakenByJob
<1>9. UploadsKept' /\ TakenOnce'
  BY <1>1, <1>4, <1>5, <1>7, <1>8, UploadsAfter
<1>10. Typed'
  BY <1>1, <1>2, <1>5, <1>7, TypedAfter DEF Typed
<1>11. RowsInStep'
  BY <1>1, <1>5, <1>7, <1>9, RowsAfter
<1>12. ClientsInStep' /\ PurgeInStep' /\ FixerInStep'
  BY <1>1, <1>2, <1>5, <1>7, HandsAfter
<1>13. QED
  BY <1>10, <1>11, <1>12 DEF Inv

(* The statuses of p with another for a job that runs or has failed.        *)
Restates(p, n, st) ==
  /\ st \in [1..Len(pipes[p].jobs) -> Statuses]
  /\ \A m \in 1..Len(pipes[p].jobs) : m # n => st[m] = pipes[p].st[m]
  /\ pipes[p].st[n] \in {"pending", "failed"} /\ st[n] \in {"pending", "failed", "failed_done"}
  /\ st[n] = "failed" => pipes[p].jobs[n].type \notin RowTypes
  /\ st[n] = "failed_done" => pipes[p].jobs[n].type = "work"

(* A job fails, is queued again, or is closed.                              *)
LEMMA StatusRows ==
  ASSUME Typed, RowsInStep, NEW p \in PipeIds, NEW n \in 1..Len(pipes[p].jobs),
         NEW st, Restates(p, n, st), NEW k \in Nat,
         pipes' = [pipes EXCEPT ![p] = WithStatuses(p, st, k)],
         UNCHANGED <<disk, rows>>
  PROVE  /\ Restated(p) /\ OnlyAbout(pipes[p].row) /\ At(p, n)' /\ RowsInStep'
         /\ pipes'[p].redone = k /\ pipes'[p].st = st
<1>1. /\ st \in [1..Len(pipes[p].jobs) -> Statuses]
      /\ \A m \in 1..Len(pipes[p].jobs) : m # n => st[m] = pipes[p].st[m]
      /\ pipes[p].st[n] \in {"pending", "failed"} /\ st[n] \in {"pending", "failed", "failed_done"}
      /\ st[n] = "failed" => pipes[p].jobs[n].type \notin RowTypes
      /\ st[n] = "failed_done" => pipes[p].jobs[n].type = "work"
  BY DEF Restates
<1> DEFINE r == pipes[p].row
<1>2. /\ DOMAIN pipes[p].st = 1..Len(pipes[p].jobs) /\ Len(pipes[p].jobs) \in {7, 11} /\ n \in Nat
      /\ \A m \in 1..Len(pipes[p].jobs) : pipes[p].st[m] \in Statuses
      /\ r \in RowIds /\ p \in About(r)
  BY PipesTyped DEF About
<1>3. \A m \in 1..Len(pipes[p].jobs) : m # n => st[m] = pipes[p].st[m]
  BY <1>1
<1>4. Restated(p) /\ pipes'[p].st = st /\ pipes'[p].redone = k
  BY <1>1, PipeRestated
<1>5. PICK kind \in Kinds, from \in Froms(r) : Stands(p, kind, from, n) /\ n \in 1..Length(kind)
  BY <1>1, Standing
<1>6. At(p, n)'
  <2>1. At(p, n)
    BY <1>5 DEF Stands
  <2>2. \A m \in 1..n - 1 : st[m] = "success"
    <3>1. TAKE m \in 1..n - 1
    <3>2. m \in 1..Len(pipes[p].jobs) /\ m # n /\ pipes[p].st[m] = "success"
      BY <1>2, <2>1 DEF At
    <3>3. QED
      BY <1>3, <3>2
  <2>3. \A m \in n + 1..Len(pipes[p].jobs) : st[m] = "on_hold"
    BY <1>1, <1>2, <1>3, <2>1 DEF At
  <2>4. QED
    <3>1. n \in 1..Len(pipes[p].jobs) + 1
      BY <1>2
    <3>2. pipes'[p].st = st /\ pipes'[p].jobs = pipes[p].jobs
      BY <1>4 DEF Restated
    <3>3. \/ st[n] = "pending" \/ (st[n] = "failed" /\ pipes[p].jobs[n].type \notin RowTypes)
          \/ (st[n] = "failed_done" /\ pipes[p].jobs[n].type = "work")
      BY <1>1
    <3>4. QED
      BY <2>2, <2>3, <3>1, <3>2, <3>3 DEF At
<1>7. OnlyAbout(r)
  BY DEF OnlyAbout, RowIds, SameIssue
<1>8. /\ Took(p)' <=> Took(p)
      /\ \A o \in PipeIds \ {p} : Took(o)' <=> Took(o)
  <2>1. 2 \in 1..Len(pipes[p].jobs) /\ (n = 2 => pipes[p].st[2] # "success" /\ st[2] # "success")
    <3>1. 2 \in 1..Len(pipes[p].jobs)
      <4>1. Len(pipes[p].jobs) \in {7, 11}
        BY <1>2
      <4>2. QED
        BY <4>1, TwoJobs, Zenon
    <3>2. n = 2 => pipes[p].st[2] \in {"pending", "failed"} /\ st[2] # "success"
      BY <1>1
    <3>3. QED
      BY <3>1, <3>2
  <2>2. QED
    BY <1>3, <1>4, <2>1 DEF Took, Restated
<1>9. RowInStep(pipes[p].row)'
  <2>1. RowFits(rows'[r], kind, r, from, n) /\ n \in 1..Length(kind) + 1 /\ n >= n
    BY <1>2, <1>5 DEF Stands
  <2>2. FilesAt(pipes[p].row, Dir(Home(kind, n), pipes[p].row, from),
                Dir(Drain(kind, n), pipes[p].row, from))'
    BY <1>4, <1>5 DEF Stands, FilesAt, Restated
  <2>3. from = Upload(rows[r].from) /\ n >= 4 => disk'[from] = {}
    BY <1>5 DEF Stands
  <2>4. QED
    BY <1>4, <1>5, <1>6, <1>7, <2>1, <2>2, <2>3, StandsAfter
<1>10. Took(p)' => Taken(r)
  BY <1>2, <1>8 DEF Taken
<1>11. UploadsKept' /\ TakenOnce'
  BY <1>4, <1>5, <1>7, <1>8, <1>10, UploadsAfter
<1>12. RowsInStep'
  BY <1>4, <1>7, <1>9, <1>11, RowsAfter
<1>13. QED
  BY <1>4, <1>6, <1>7, <1>12

LEMMA StatusKeeps ==
  ASSUME Inv, Undisturbed, NEW p \in PipeIds, NEW n \in 1..Len(pipes[p].jobs),
         NEW st, Restates(p, n, st), NEW k \in Nat, ~Held(pipes[p].row),
         pipes' = [pipes EXCEPT ![p] = WithStatuses(p, st, k)],
         UNCHANGED <<world, disk, rows, q, web, tools>>
  PROVE  Inv'
<1>1. Typed /\ RowsInStep /\ ClientsInStep /\ PurgeInStep /\ FixerInStep
  BY DEF Inv
<1>3. Restated(p) /\ OnlyAbout(pipes[p].row) /\ RowsInStep'
  BY <1>1, StatusRows
<1>4. Typed'
  BY <1>1, <1>3, TypedAfter DEF Typed
<1>5. ClientsInStep' /\ PurgeInStep' /\ FixerInStep'
  BY <1>1, <1>3, HandsAfter
<1>6. QED
  BY <1>3, <1>4, <1>5 DEF Inv

LEMMA FailJobKeeps ==
  ASSUME Inv, Undisturbed, RowJobsSucceed, NEW p \in PipeIds, FailJob(p)
  PROVE  Inv'
<1>1. Typed
  BY DEF Inv
<1>2. PICK n \in Live(pipes[p]) :
        /\ ~Held(pipes[p].row)
        /\ IF CannotRun(pipes[p].row, pipes[p].jobs[n]) THEN UNCHANGED count
           ELSE /\ pipes[p].jobs[n].type \in Failing /\ count.fails < MaxFails
                /\ count' = [count EXCEPT !.fails = @ + 1]
        /\ pipes' = [pipes EXCEPT ![p].st[n] = "failed"]
        /\ UNCHANGED <<world, disk, rows, q, web, tools>>
  BY DEF FailJob
<1>3. n \in 1..Len(pipes[p].jobs) /\ pipes[p].st[n] = "pending" /\ pipes[p] \in Pipe
  BY <1>1, PipesTyped DEF Live
<1>4. pipes[p].jobs[n].type \notin RowTypes
  BY <1>2 DEF CannotRun, RowJobsSucceed, RowTypes
<1>5. pipes[p].redone \in Nat
  BY <1>3 DEF Pipe
<1> DEFINE st == [pipes[p].st EXCEPT ![n] = "failed"]
<1>6. pipes' = [pipes EXCEPT ![p] = WithStatuses(p, st, pipes[p].redone)]
  BY <1>2, <1>3 DEF Pipe, WithStatuses
<1>7. /\ st \in [1..Len(pipes[p].jobs) -> Statuses] /\ st[n] = "failed"
      /\ \A m \in 1..Len(pipes[p].jobs) : m # n => st[m] = pipes[p].st[m]
  BY <1>1, <1>3, PipesTyped DEF Statuses
<1> HIDE DEF st
<1>8. Restates(p, n, st)
  BY <1>3, <1>4, <1>7 DEF Restates
<1>9. ~Held(pipes[p].row) /\ UNCHANGED <<world, disk, rows, q, web, tools>>
  BY <1>2
<1>10. QED
  BY <1>3, <1>5, <1>6, <1>8, <1>9, StatusKeeps

LEMMA RequeueKeeps ==
  ASSUME Inv, Undisturbed, NEW p \in PipeIds, Requeue(p)
  PROVE  Inv'
<1>1. Typed
  BY DEF Inv
<1>2. PICK n \in DOMAIN pipes[p].st :
        /\ pipes[p].st[n] = "failed" /\ ~Held(pipes[p].row)
        /\ pipes' = [pipes EXCEPT ![p].st[n] = "pending", ![p].redone = @ + 1]
        /\ UNCHANGED <<world, disk, rows, q, web, tools>>
  BY DEF Requeue
<1>3. n \in 1..Len(pipes[p].jobs) /\ pipes[p] \in Pipe /\ p \in 1..Len(pipes) /\ pipes \in Seq(Pipe)
  BY <1>1, PipesTyped DEF Typed, PipeIds
<1>4. pipes[p].redone + 1 \in Nat
  <2>1. pipes[p].redone \in Nat
    BY <1>3, Zenon DEF Pipe
  <2>2. QED
    BY <2>1
<1> DEFINE st == [pipes[p].st EXCEPT ![n] = "pending"]
<1>5. pipes' = [pipes EXCEPT ![p] = WithStatuses(p, st, pipes[p].redone + 1)]
  BY <1>2, <1>3 DEF Pipe, WithStatuses
<1>6. /\ st \in [1..Len(pipes[p].jobs) -> Statuses] /\ st[n] = "pending"
      /\ \A m \in 1..Len(pipes[p].jobs) : m # n => st[m] = pipes[p].st[m]
  BY <1>1, <1>3, PipesTyped DEF Statuses
<1> HIDE DEF st
<1>7. Restates(p, n, st)
  BY <1>2, <1>3, <1>6 DEF Restates
<1>8. ~Held(pipes[p].row) /\ UNCHANGED <<world, disk, rows, q, web, tools>>
  BY <1>2
<1>9. QED
  BY <1>3, <1>4, <1>5, <1>7, <1>8, StatusKeeps

----------------------------------------------------------------------------
(* Steps that leave rows, pipelines and directories alone *)

LEMMA QuietRows ==
  ASSUME RowsInStep, UNCHANGED <<world, disk, rows, pipes>>
  PROVE  RowsInStep' /\ RowIds' = RowIds /\ \A r : Untouched(r)
<1>1. /\ RowIds' = RowIds /\ PipeIds' = PipeIds /\ \A r : About(r)' = About(r)
      /\ \A r : Untouched(r) /\ \A p : Took(p)' = Took(p)
  BY DEF RowIds, PipeIds, About, Untouched, Took
<1>2. \A r \in RowIds' : RowInStep(r)'
  BY <1>1, RowKept DEF RowsInStep
<1>3. FirstTakes'
  BY <1>1 DEF RowsInStep, FirstTakes, TakesFirst, About
<1>4. KeysUnique' /\ NoneBeyond'
  BY <1>1 DEF RowsInStep, KeysUnique, NoneBeyond
<1>5. \A r : Taken(r)' = Taken(r)
  BY <1>1 DEF Taken
<1>6. UploadsKept' /\ TakenOnce'
  BY <1>1, <1>5 DEF RowsInStep, UploadsKept, TakenOnce
<1>7. QED
  BY <1>1, <1>2, <1>3, <1>4, <1>6 DEF RowsInStep

LEMMA QuietPurge ==
  ASSUME PurgeInStep, RowsInStep, UNCHANGED <<world, disk, rows, pipes, purge>>
  PROVE  PurgeInStep'
<1>1. /\ RowIds' = RowIds /\ PipeIds' = PipeIds
      /\ \A o, n : StuckAt(o, n)' = StuckAt(o, n)
  BY DEF RowIds, PipeIds, StuckAt, At, Last, About, Over
<1>2. QED
  BY <1>1 DEF PurgeInStep

LEMMA QuietKeeps ==
  ASSUME Inv, UNCHANGED <<world, disk, rows, pipes>>
  PROVE  /\ RowsInStep'
         /\ q' = q => ClientsInStep'
         /\ purge' = purge => PurgeInStep'
         /\ fixer' = fixer => FixerInStep'
<1>1. RowsInStep' /\ RowIds' = RowIds /\ \A r : Untouched(r)
  BY QuietRows DEF Inv
<1>2. q' = q => ClientsInStep'
  <2>1. \A d : Rows(d)' = Rows(d)
    BY DEF Rows, SameKey, RowIds, Of
  <2>2. QED
    BY <1>1, <2>1, ClientsAfter DEF Inv, Untouched, SameIssue
<1>3. purge' = purge => PurgeInStep'
  BY QuietPurge DEF Inv
<1>4. fixer' = fixer => FixerInStep'
  BY <1>1, FixerAfter DEF Inv
<1>5. QED
  BY <1>1, <1>2, <1>3, <1>4

LEMMA UpInHand ==
  ASSUME Typed, ClientsInStep, NEW c \in Clients, Busy(c)
  PROVE  Up(c) \in Ups /\ Up(c).dir \in Dirs /\ q[c].up = {Up(c)} /\ q[c] \in Request
<1>1. q[c] \in Request
  BY DEF Typed
<1>2. PICK u \in q[c].up : q[c].up = {u}
  BY DEF ClientsInStep, ClientInStep
<1>3. Up(c) = u
  BY <1>2 DEF Up
<1>4. u \in Ups
  BY <1>1, <1>2 DEF Request
<1>5. QED
  BY <1>1, <1>2, <1>3, <1>4 DEF Ups

(* A step of one client leaves the others in step: it is at the upload it was
   at, at none, or at one of a key that no other is at, and neither finds
   another's row nor queues anything about it.                              *)
LEMMA OneClient ==
  ASSUME Typed, ClientsInStep, NEW c \in Clients, world' = world, RowIds \subseteq RowIds',
         \A r \in RowIds : SameIssue(rows[r], rows'[r]),
         \A o \in Clients \ {c} : q'[o] = q[o],
         \A o \in Clients \ {c} : q[o].pc = "create" => Rows(Up(o).dir)' = {},
         \A o \in Clients \ {c} : q[o].pc \in {"jobs", "queue"} =>
                                  (About(q[o].row)' = {} <=> About(q[o].row) = {}),
         ClientInStep(c)',
         Busy(c)' => \/ Busy(c) /\ Up(c)' = Up(c)
                     \/ \A o \in Clients \ {c} : Busy(o) => Up(o).dir \notin SameKeys(Up(c)'.dir)
  PROVE  ClientsInStep'
<1>1. /\ Clients' = Clients /\ \A d : SameKeys(d)' = SameKeys(d) /\ Of(d)' = Of(d)
      /\ \A o \in Clients \ {c} : Busy(o)' = Busy(o) /\ Up(o)' = Up(o)
  BY DEF Clients, SameKeys, Of, Busy, Up
<1>2. ASSUME NEW o \in Clients \ {c}
      PROVE  ClientInStep(o)'
  <2>1. ClientInStep(o) /\ q'[o] = q[o]
    BY DEF ClientsInStep
  <2>2. /\ \A r \in RowIds : rows'[r].from = rows[r].from
        /\ \A r \in RowIds : \A d : SameKey(r, d)' = SameKey(r, d)
    BY <1>1 DEF SameIssue, SameKey
  <2>3. QED
    BY <1>1, <2>1, <2>2 DEF ClientInStep
<1>3. ASSUME NEW o \in Clients \ {c}
      PROVE  Apart(c, o)' /\ Apart(o, c)'
  <2>1. SUFFICES ASSUME Busy(c)', Busy(o)
                 PROVE  Up(o).dir \notin SameKeys(Up(c)'.dir) /\ Up(c)'.dir \notin SameKeys(Up(o).dir)
    BY <1>1 DEF Apart
  <2>2. Up(o).dir \notin SameKeys(Up(c)'.dir)
    <3>1. CASE Busy(c) /\ Up(c)' = Up(c)
      BY <2>1, <3>1 DEF ClientsInStep, Apart
    <3>2. CASE \A x \in Clients \ {c} : Busy(x) => Up(x).dir \notin SameKeys(Up(c)'.dir)
      BY <2>1, <3>2
    <3>3. QED
      BY <2>1, <3>1, <3>2
  <2>3. Up(o).dir \in Dirs
    BY <2>1, UpInHand
  <2>4. QED
    BY <2>2, <2>3 DEF SameKeys
<1>4. ASSUME NEW o \in Clients \ {c}, NEW x \in Clients \ {c}, o # x
      PROVE  Apart(o, x)'
  <2>1. Apart(o, x)
    BY <1>4 DEF ClientsInStep
  <2>2. QED
    BY <1>1, <2>1 DEF Apart
<1>5. QED
  BY <1>1, <1>2, <1>3, <1>4 DEF ClientsInStep

(* ... above all if it only reads.                                          *)
LEMMA OneReads ==
  ASSUME Typed, ClientsInStep, NEW c \in Clients, UNCHANGED <<world, rows, pipes>>,
         \A o \in Clients \ {c} : q'[o] = q[o], ClientInStep(c)',
         Busy(c)' => \/ Busy(c) /\ Up(c)' = Up(c)
                     \/ \A o \in Clients \ {c} : Busy(o) => Up(o).dir \notin SameKeys(Up(c)'.dir)
  PROVE  ClientsInStep'
<1>1. /\ RowIds' = RowIds /\ \A r : About(r)' = About(r)
      /\ \A d : Rows(d)' = Rows(d)
  BY DEF RowIds, Rows, SameKey, Of, About, PipeIds
<1>2. \A r \in RowIds : SameIssue(rows[r], rows'[r])
  BY DEF SameIssue
<1>3. \A o \in Clients \ {c} : q[o].pc = "create" => Rows(Up(o).dir)' = {}
  <2>1. \A o \in Clients \ {c} : Up(o)' = Up(o)
    BY DEF Up
  <2>2. QED
    BY <1>1, <2>1 DEF ClientsInStep, ClientInStep
<1>4. \A o \in Clients \ {c} : q[o].pc \in {"jobs", "queue"} =>
                                 (About(q[o].row)' = {} <=> About(q[o].row) = {})
  BY <1>1
<1>5. QED
  BY <1>1, <1>2, <1>3, <1>4, OneClient

LEMMA ClientTurns ==
  ASSUME Typed, ClientsInStep, NEW c \in Clients, q' = Turned(c), world' = world
  PROVE  /\ q' \in [Clients -> Request] /\ ClientInStep(c)' /\ ~Busy(c)'
         /\ \A o \in Clients \ {c} : q'[o] = q[o]
<1>1. q \in [Clients -> Request]
  BY DEF Typed
<1>2. /\ q'[c].pc \in {"idle", "listing"}
      /\ \A o \in Clients \ {c} : q'[o] = q[o]
  BY <1>1 DEF Turned, NoRequest
<1>3. [NoRequest EXCEPT !.todo = q[c].todo,
         !.pc = IF q[c].todo = {} THEN "idle" ELSE "listing"] \in Request
  BY <1>1 DEF NoRequest, Request, Paths
<1>4. q' \in [Clients -> Request]
  BY <1>1, <1>3 DEF Turned
<1>5. ClientInStep(c)' /\ ~Busy(c)'
  BY <1>2 DEF ClientInStep, Busy
<1>6. QED
  BY <1>2, <1>4, <1>5

LEMMA FoundRow ==
  ASSUME Typed, NEW d \in Dirs, NEW r \in FindIssueByKey(d)
  PROVE  IF r = 0 THEN Rows(d) = {} ELSE r \in RowIds /\ SameKey(r, d)
<1>1. \A x \in Rows(d) : x \in RowIds /\ x # 0 /\ SameKey(x, d)
  BY DEF Rows, RowIds
<1>2. QED
  BY <1>1 DEF FindIssueByKey

(* A client that has no upload in hand afterwards disturbs no other.        *)
LEMMA HandsOff ==
  ASSUME Typed, ClientsInStep, NEW c \in Clients, UNCHANGED <<world, rows, pipes>>,
         \A o \in Clients \ {c} : q'[o] = q[o], q'[c].pc \in {"idle", "listing"}
  PROVE  ClientsInStep'
<1>1. ~Busy(c)' /\ ClientInStep(c)'
  BY DEF Busy, ClientInStep
<1>2. QED
  BY <1>1, OneReads

LEMMA QuietTyped ==
  ASSUME Typed, UNCHANGED <<world, disk, rows, pipes>>, q' \in [Clients -> Request],
         web' \in Web,
         purge' \in [pc : {"idle", "look"}, list : SUBSET [id : Nat, row : Row],
                     look : SUBSET Nat, cancel : SUBSET Loadable],
         fixer' \in [pc : {"idle", "loaded", "prepared"}, row : Nat, loc : Paths]
  PROVE  Typed'
<1>1. RowIds' = RowIds /\ PipeIds' = PipeIds /\ Clients' = Clients /\ \A r, d : SameKey(r, d)' = SameKey(r, d)
  BY DEF RowIds, PipeIds, Clients, SameKey, Of
<1>2. QED
  BY <1>1 DEF Typed

LEMMA QuietClient ==
  ASSUME Inv, UNCHANGED <<world, disk, rows, pipes, tools>>, q' \in [Clients -> Request],
         ClientsInStep', web' \in Web \/ web' = web
  PROVE  Inv'
<1>1. Typed'
  BY QuietTyped DEF Inv, Typed, tools
<1>2. QED
  BY <1>1, QuietKeeps DEF Inv, tools

LEMMA SeenUp ==
  ASSUME NEW d \in Dirs
  PROVE  Seen(d) \in Ups
BY DEF Seen, Ups

LEMMA FindKeeps ==
  ASSUME Inv, NEW c \in Clients, Find(c)
  PROVE  Inv'
<1>1. Typed /\ RowsInStep /\ ClientsInStep /\ q \in [Clients -> Request]
  BY DEF Inv, Typed
<1>2. PICK d : d = Up(c).dir
  OBVIOUS
<1>3. PICK r \in FindIssueByKey(d) : q' \in {Found(c, r), Turned(c)}
  <2>1. \E r : r \in FindIssueByKey(d)
    BY DEF FindIssueByKey
  <2>2. q' = Turned(c) \/ \E r \in FindIssueByKey(d) : q' = Found(c, r)
    BY <1>2 DEF Find
  <2>3. QED
    BY <2>1, <2>2
<1>4. UNCHANGED <<world, disk, rows, pipes, web, tools>>
  BY DEF Find
<1>5. Busy(c) /\ d \in Dirs /\ q[c].up = {Up(c)} /\ q[c] \in Request
  <2>1. Busy(c)
    BY DEF Busy, Find
  <2>2. QED
    BY <1>1, <1>2, <2>1, UpInHand
<1>6. IF r = 0 THEN Rows(d) = {} ELSE r \in RowIds /\ SameKey(r, d)
  BY <1>1, <1>3, <1>5, FoundRow
<1>7. CASE q' = Turned(c)
  BY <1>1, <1>4, <1>5, <1>7, ClientTurns, OneReads, QuietClient
<1>8. CASE q' = Found(c, r)
  <2>1. (r = 0 \/ rows[r].loc \in Paths) /\ Nowhere \in Paths /\ r \in Nat
    BY <1>1, <1>6, RowTyped DEF Row, Paths, RowIds
  <2>2. /\ q'[c] = [q[c] EXCEPT !.pc = IF r = 0 THEN "create" ELSE "jobs", !.row = r,
                                !.loc = IF r = 0 THEN Nowhere ELSE rows[r].loc]
        /\ \A o \in Clients \ {c} : q'[o] = q[o]
        /\ q' = [q EXCEPT ![c] = q'[c]]
    BY <1>1, <1>8 DEF Found
  <2>3. /\ q'[c] \in Request /\ q'[c].up = q[c].up
        /\ q'[c].pc = (IF r = 0 THEN "create" ELSE "jobs") /\ q'[c].row = r
        /\ q'[c].loc = (IF r = 0 THEN Nowhere ELSE rows[r].loc)
    BY <1>5, <2>1, <2>2 DEF Request
  <2>4. q' \in [Clients -> Request]
    BY <1>1, <2>2, <2>3
  <2>5. Up(c)' = Up(c) /\ q'[c].up = {Up(c)}
    BY <1>5, <2>3 DEF Up
  <2>6. RowIds' = RowIds /\ About(r)' = About(r) /\ Rows(d)' = Rows(d) /\ rows' = rows
    BY <1>4 DEF RowIds, About, PipeIds, Rows, SameKey, Of
  <2>7. r # 0 /\ About(r) = {} => rows[r].loc = Upload(rows[r].from)
    BY <1>1, <1>6 DEF RowsInStep, RowInStep, Fresh
  <2>8. ASSUME r = 0 PROVE ClientInStep(c)'
    <3>1. q'[c].pc = "create" /\ Rows(d)' = {} /\ Up(c)'.dir = d
      BY <1>2, <1>6, <2>3, <2>5, <2>6, <2>8
    <3>2. QED
      BY <2>5, <3>1 DEF ClientInStep
  <2>9. ASSUME r # 0 PROVE ClientInStep(c)'
    <3>1. /\ q'[c].pc = "jobs" /\ q'[c].row = r /\ q'[c].loc = rows[r].loc /\ r \in RowIds
          /\ SameKey(r, Up(c).dir)'
      BY <1>2, <1>4, <1>6, <2>3, <2>5, <2>9 DEF SameKey, Of
    <3>2. QED
      BY <2>5, <2>6, <2>7, <2>9, <3>1 DEF ClientInStep
  <2>10. ClientInStep(c)'
    BY <2>8, <2>9
  <2>11. ClientsInStep'
    BY <1>1, <1>4, <1>5, <2>2, <2>5, <2>10, OneReads
  <2>12. QED
    BY <1>4, <2>4, <2>11, QuietClient
<1>9. QED
  BY <1>3, <1>7, <1>8

LEMMA ListKeeps ==
  ASSUME Inv, NEW c \in Clients, List(c)
  PROVE  Inv'
<1>1. Typed /\ ClientsInStep /\ q \in [Clients -> Request] /\ q[c] \in Request
  BY DEF Inv, Typed
<1>2. PICK todo \in (IF c = "watcher" THEN {ScanScannerIssues}
                     ELSE {BulkIssues(kind) : kind \in {"scan", "sftp"}}) :
        q' = [q EXCEPT ![c].pc = "listing", ![c].todo = todo]
  BY DEF List
<1>3. todo \in SUBSET Ups
  BY SeenUp DEF ScanScannerIssues, BulkIssues, Present
<1>4. /\ q'[c] = [q[c] EXCEPT !.pc = "listing", !.todo = todo]
      /\ \A o \in Clients \ {c} : q'[o] = q[o]
      /\ q' = [q EXCEPT ![c] = q'[c]]
  BY <1>1, <1>2
<1>5. q'[c] \in Request /\ q'[c].pc = "listing"
  BY <1>1, <1>3, <1>4 DEF Request
<1>6. q' \in [Clients -> Request]
  BY <1>1, <1>4, <1>5
<1>7. QED
  BY <1>1, <1>4, <1>5, <1>6, HandsOff, QuietClient DEF List

LEMMA DieKeeps ==
  ASSUME Inv, NEW c \in Clients, Die(c)
  PROVE  Inv'
<1>1. Typed /\ ClientsInStep /\ q \in [Clients -> Request]
  BY DEF Inv, Typed
<1>2. q' = [q EXCEPT ![c] = NoRequest] /\ UNCHANGED <<world, disk, rows, pipes, web, tools>>
  BY DEF Die
<1>3. NoRequest \in Request /\ NoRequest.pc = "idle"
  BY DEF NoRequest, Request, Paths
<1> HIDE DEF NoRequest
<1>4. /\ q'[c] = NoRequest /\ \A o \in Clients \ {c} : q'[o] = q[o]
      /\ q' \in [Clients -> Request]
  BY <1>1, <1>2, <1>3
<1>5. QED
  BY <1>1, <1>2, <1>3, <1>4, HandsOff, QuietClient

LEMMA StartKeeps ==
  ASSUME Inv, Alone, NEW c \in Clients, NEW u \in Ups, NEW todo \in SUBSET Ups, Start(c, u, todo),
         UNCHANGED <<world, disk, rows, pipes, tools>>, web' \in Web \/ web' = web
  PROVE  Inv'
<1>1. Typed /\ ClientsInStep /\ q \in [Clients -> Request]
  BY DEF Inv, Typed
<1> DEFINE x == [NoRequest EXCEPT !.pc = "find", !.up = {u}, !.todo = todo]
<1>2. /\ \A o \in Clients : Busy(o) => Up(o).dir \notin SameKeys(u.dir)
      /\ q' = [q EXCEPT ![c] = x]
  BY DEF Start, MayStart
<1>3. x \in Request /\ x.pc = "find" /\ x.up = {u}
  BY DEF NoRequest, Request, Paths
<1> HIDE DEF x
<1>4. /\ q'[c] = x /\ \A o \in Clients \ {c} : q'[o] = q[o]
      /\ q' \in [Clients -> Request]
  BY <1>1, <1>2, <1>3
<1>5. ClientInStep(c)' /\ Up(c)' = u
  BY <1>3, <1>4 DEF ClientInStep, Up
<1>6. ClientsInStep'
  BY <1>1, <1>2, <1>4, <1>5, OneReads
<1>7. QED
  BY <1>4, <1>6, QuietClient

LEMMA NextUploadKeeps ==
  ASSUME Inv, Alone, NEW c \in Clients, NextUpload(c)
  PROVE  Inv'
<1>1. PICK u \in q[c].todo : Start(c, u, q[c].todo \ {u})
  BY DEF NextUpload
<1>2. q[c] \in Request
  BY DEF Inv, Typed
<1>3. u \in Ups /\ q[c].todo \ {u} \in SUBSET Ups
  BY <1>1, <1>2 DEF Request
<1>4. QED
  BY <1>1, <1>3, StartKeeps DEF NextUpload

LEMMA HandlerKeeps ==
  ASSUME Inv, Alone, IssueWorkflowHandler
  PROVE  Inv'
<1>1. PICK u \in web.shown : Start("web", u, {})
  BY DEF IssueWorkflowHandler
<1>2. u \in Ups /\ {} \in SUBSET Ups /\ web' \in Web /\ "web" \in Clients
  BY DEF Inv, Typed, Web, IssueWorkflowHandler
<1>3. QED
  BY <1>1, <1>2, StartKeeps DEF IssueWorkflowHandler

LEMMA SearcherKeeps ==
  ASSUME Inv, SearcherStep
  PROVE  Inv'
<1>1. web \in Web
  BY DEF Inv, Typed
<1>2. \A d \in Dirs : Seen(d) \in Ups
  BY SeenUp
<1>3. web' \in Web
  <2>1. CASE BuildInProcessList
    BY <1>1, <2>1 DEF BuildInProcessList, Web
  <2>2. CASE SwapInProcessList
    BY <1>1, <2>2 DEF SwapInProcessList, Web
  <2>3. CASE DecorateTitles
    <3>1. {Seen(d) : d \in (Present("scan") \cup Present("sftp")) \ web.inProcess} \in SUBSET Ups
      BY <1>2 DEF Present
    <3>2. QED
      BY <2>3, <3>1 DEF DecorateTitles, Web
  <2>4. QED
    BY <2>1, <2>2, <2>3 DEF SearcherStep
<1>4. Typed'
  BY <1>3, QuietTyped DEF Inv, Typed, SearcherStep, tools
<1>5. QED
  BY <1>4, QuietKeeps DEF Inv, SearcherStep, tools

LEMMA PurgeListKeeps ==
  ASSUME Inv, PurgeList
  PROVE  Inv'
<1> DEFINE ids == {r \in RowIds : rows[r].ws = "AwaitingProcessing" /\ ~rows[r].ignored}
<1>1. Typed /\ purge = NotPurging
  BY DEF Inv, PurgeInStep, PurgeList
<1>2. /\ purge' = [purge EXCEPT !.pc = "look", !.look = ids,
                            !.list = {[id |-> r, row |-> rows[r]] : r \in ids}]
      /\ UNCHANGED <<world, disk, rows, pipes, q, web, fixer, count>>
  BY DEF PurgeList
<1>3. /\ purge' = [pc |-> "look", list |-> {[id |-> r, row |-> rows[r]] : r \in ids},
                   look |-> ids, cancel |-> {}]
  BY <1>1, <1>2 DEF NotPurging
<1>4. ids \in SUBSET Nat /\ \A r \in ids : r \in Nat /\ rows[r] \in Row
  BY <1>1, RowTyped DEF RowIds
<1>5. {[id |-> r, row |-> rows[r]] : r \in ids} \in SUBSET [id : Nat, row : Row]
  BY <1>4
<1>6. Typed'
  <2>1. purge' \in [pc : {"idle", "look"}, list : SUBSET [id : Nat, row : Row],
                    look : SUBSET Nat, cancel : SUBSET Loadable]
    BY <1>3, <1>4, <1>5
  <2>2. QED
    BY <1>1, <1>2, <2>1, QuietTyped DEF Typed
<1>7. RowIds' = RowIds /\ rows' = rows
  BY <1>2 DEF RowIds
<1>8. PurgeInStep'
  <2>1. /\ purge'.pc = "look" /\ purge'.list = {[id |-> r, row |-> rows[r]] : r \in ids}
        /\ purge'.look = ids /\ purge'.cancel = {}
    BY <1>3
  <2>2. \A x \in purge'.list : /\ x.id \in RowIds /\ x.row = rows[x.id]
                               /\ x.row.ws = "AwaitingProcessing" /\ ~x.row.ignored
    BY <2>1
  <2>3. \A r \in purge'.look : \E x \in purge'.list : x.id = r
    <3>1. TAKE r \in purge'.look
    <3>2. [id |-> r, row |-> rows[r]] \in purge'.list
      BY <2>1
    <3>3. QED
      BY <3>2
  <2>4. QED
    BY <1>7, <2>1, <2>2, <2>3 DEF PurgeInStep
<1>9. QED
  BY <1>2, <1>6, <1>8, QuietKeeps DEF Inv

LEMMA RollbackKeeps ==
  ASSUME Inv, Rollback
  PROVE  Inv'
<1>1. /\ UNCHANGED <<world, disk, rows, pipes, q, web, fixer, count>>
      /\ purge' = NotPurging
  BY DEF Rollback
<1>2. Typed'
  BY <1>1, QuietTyped DEF Inv, Typed, NotPurging
<1>3. PurgeInStep'
  BY <1>1 DEF PurgeInStep, NotPurging
<1>4. QED
  BY <1>1, <1>2, <1>3, QuietKeeps DEF Inv

LEMMA FixerDiesKeeps ==
  ASSUME Inv, FixerDies
  PROVE  Inv'
<1>1. /\ UNCHANGED <<world, disk, rows, pipes, q, web, purge>>
      /\ fixer' = NotFixing
  BY DEF FixerDies
<1>2. Typed'
  BY <1>1, QuietTyped DEF Inv, Typed, NotFixing, Paths
<1>3. FixerInStep'
  BY <1>1 DEF FixerInStep, NotFixing
<1>4. QED
  BY <1>1, <1>2, <1>3, QuietKeeps DEF Inv

(* An issue in page review is all its last pipeline has made of it.         *)
LEMMA ReviewStands ==
  ASSUME Typed, RowsInStep, NEW r \in InPageReview
  PROVE  InReview(r)
<1>1. r \in RowIds /\ rows[r].ws = "AwaitingPageReview"
  BY DEF InPageReview
<1>2. About(r) # {}
  BY <1>1 DEF RowsInStep, RowInStep, Fresh
<1>3. PICK p \in About(r) : InStep(p)
  BY <1>1, <1>2 DEF RowsInStep, RowInStep
<1>4. pipes[p].row = r
  BY <1>3 DEF About
<1>5. PICK kind \in Kinds, from \in Froms(r), n \in 1..12 : Stands(p, kind, from, n)
  BY <1>3, <1>4 DEF InStep
<1>6. RowFits(rows[r], kind, r, from, n) /\ FromFits(kind, r, from) /\ n \in 1..Length(kind) + 1
  BY <1>4, <1>5 DEF Stands
<1>7. kind = "review" /\ n = 12
  BY <1>1, <1>6 DEF RowFits, StepAt, Length
<1>8. from = Upload(rows[r].from)
  BY <1>6, <1>7 DEF FromFits
<1>9. QED
  BY <1>3, <1>5, <1>7, <1>8 DEF InReview

LEMMA GetIssuesKeeps ==
  ASSUME Inv, GetIssues
  PROVE  Inv'
<1>1. /\ UNCHANGED <<world, disk, rows, pipes, q, web, purge, count>>
      /\ Typed /\ RowsInStep
  BY DEF GetIssues, Inv
<1>2. PICK r \in InPageReview : fixer' = [pc |-> "loaded", row |-> r, loc |-> rows[r].loc]
  BY DEF GetIssues
<1>3. r \in RowIds /\ rows[r].ws = "AwaitingPageReview" /\ rows[r] \in Row
  BY <1>1, RowTyped DEF InPageReview
<1>4. Typed'
  <2>1. r \in Nat /\ rows[r].loc \in Paths
    BY <1>3 DEF RowIds, Row
  <2>2. fixer' \in [pc : {"idle", "loaded", "prepared"}, row : Nat, loc : Paths]
    BY <1>2, <2>1
  <2>3. QED
    BY <1>1, <2>2, QuietTyped DEF Typed
<1>5. InReview(r)
  BY <1>1, ReviewStands
<1>6. InReview(r)'
  <2>1. PICK p \in About(r) : Stands(p, "review", Upload(rows[r].from), 12)
    BY <1>5 DEF InReview
  <2>2. Untouched(r) /\ rows'[r].from = rows[r].from
    BY <1>1 DEF Untouched, About, PipeIds
  <2>3. Stands(p, "review", Upload(rows[r].from), 12)'
    BY <2>1, <2>2, StandsKept
  <2>4. p \in About(r)'
    BY <2>1, <2>2 DEF Untouched
  <2>5. QED
    BY <2>3, <2>4 DEF InReview
<1>7. FixerInStep'
  <2>1. RowIds' = RowIds /\ rows' = rows
    BY <1>1 DEF RowIds
  <2>2. fixer'.pc = "loaded" /\ fixer'.row = r /\ fixer'.loc = rows[r].loc
    BY <1>2
  <2>3. \A x : x = r => InReview(x)'
    BY <1>6
  <2>4. QED
    BY <1>3, <2>1, <2>2, <2>3 DEF FixerInStep
<1>8. QED
  BY <1>1, <1>4, <1>7, QuietKeeps DEF Inv

LEMMA WorkOnly ==
  ASSUME NEW kind \in Kinds, NEW n \in 1..Length(kind), NEW r, NEW from,
         JobsOf(kind, r, from)[n].type = "work"
  PROVE  kind # "remove"
<1>1. ASSUME kind = "remove"
      PROVE  FALSE
  <2>1. n \in {1, 2, 3, 4, 5, 6, 7}
    BY <1>1 DEF Length
  <2> DEFINE J == JobsOf("remove", r, from)
  <2>2. /\ J[1].type = "sync" /\ J[2].type = "kill" /\ J[3].type = "locate" /\ J[4].type = "rename"
        /\ J[5].type = "ignore" /\ J[6].type = "locate" /\ J[7].type = "set-step"
    <3>1. \A a, b : /\ Sync(a, b).type = "sync" /\ Rename(a, b).type = "rename"
                    /\ Kill(a).type = "kill" /\ OnRow(a, b).type = a
      BY DEF Sync, Kill, OnRow, Rename
    <3>2. /\ J[1] = Sync(from, <<"error-wip", r>>) /\ J[2] = Kill(from)
          /\ J[3] = OnRow("locate", <<"error-wip", r>>)
          /\ J[4] = Rename(<<"error-wip", r>>, <<"error", r>>)
          /\ J[5] = OnRow("ignore", Nowhere) /\ J[6] = OnRow("locate", Nowhere)
          /\ J[7] = OnRow("set-step", "UnfixableMetadataError")
      BY RemoveJobs
    <3> HIDE DEF J
    <3>3. QED
      BY <3>1, <3>2
  <2>3. JobsOf("remove", r, from)[n].type = "work"
    BY <1>1
  <2>4. QED
    BY <2>1, <2>2, <2>3
<1>2. QED
  BY <1>1

(* A job on the row that has failed is the work in between, and nothing else
   is left to do for the issue.                                             *)
LEMMA FailedJob ==
  ASSUME Typed, RowsInStep, NEW p \in PipeIds, NEW n \in 1..Len(pipes[p].jobs),
         pipes[p].st[n] = "failed", Tied(pipes[p].jobs[n])
  PROVE  /\ n \in 1..12 /\ pipes[p].jobs[n].type = "work" /\ StuckAt(p, n)
         /\ \A o \in About(pipes[p].row) \ {p} : Done(o)
         /\ \A m \in 1..n - 1 : pipes[p].st[m] = "success"
<1>1. PICK kind \in Kinds, from \in Froms(pipes[p].row) :
        Stands(p, kind, from, n) /\ n \in 1..Length(kind)
  BY Standing
<1>2. /\ pipes[p].jobs = JobsOf(kind, pipes[p].row, from) /\ At(p, n) /\ Last(p)
      /\ pipes[p].removal = (IF kind = "remove" THEN TRUE ELSE FALSE)
      /\ (kind # "remove" => \A o \in About(pipes[p].row) \ {p} : Done(o))
  BY <1>1 DEF Stands
<1>3. Moves(pipes[p].jobs[n], kind, pipes[p].row, from, n)
  BY <1>1, <1>2, PlansMove
<1>4. pipes[p].jobs[n].type \notin RowTypes /\ \A m \in 1..n - 1 : pipes[p].st[m] = "success"
  BY <1>2 DEF At
<1>5. pipes[p].jobs[n].type = "work"
  BY <1>3, <1>4 DEF Moves, Tied
<1>6. kind # "remove"
  BY <1>1, <1>2, <1>5, WorkOnly
<1>7. n \in 1..12
  <2>1. Len(pipes[p].jobs) \in {7, 11}
    BY PipesTyped
  <2>2. QED
    BY <2>1
<1>8. QED
  BY <1>2, <1>4, <1>5, <1>6, <1>7 DEF StuckAt

LEMMA JobFound ==
  ASSUME Typed, NEW r, NEW j \in FindJobsForIssueID(r)
  PROVE  /\ j.pipe \in About(r) /\ j.pipe \in PipeIds /\ pipes[j.pipe].row = r
         /\ j.n \in 1..Len(pipes[j.pipe].jobs) /\ Tied(pipes[j.pipe].jobs[j.n])
         /\ j = [pipe |-> j.pipe, n |-> j.n] /\ Status(j) \in Statuses
<1>1. PICK p \in About(r) :
        j \in {[pipe |-> p, n |-> n] : n \in {m \in DOMAIN pipes[p].st : Tied(pipes[p].jobs[m])}}
  BY DEF FindJobsForIssueID
<1>2. PICK n \in DOMAIN pipes[p].st : Tied(pipes[p].jobs[n]) /\ j = [pipe |-> p, n |-> n]
  BY <1>1
<1>3. p \in PipeIds /\ pipes[p].row = r
  BY DEF About
<1>4. n \in 1..Len(pipes[p].jobs) /\ pipes[p].st[n] \in Statuses
  BY <1>2, <1>3, PipesTyped
<1>5. QED
  BY <1>2, <1>3, <1>4 DEF Status

LEMMA PurgeIssueKeeps ==
  ASSUME Inv, NEW r \in RowIds, PurgeIssue(r)
  PROVE  Inv'
<1> DEFINE jobs == FindJobsForIssueID(r)
           stuck == {j \in jobs : Status(j) \in {"failed", "on_hold"}}
           more == IF Purgeable(jobs) THEN {Loaded(j, r) : j \in stuck} ELSE {}
<1>1. Typed /\ RowsInStep /\ PurgeInStep
  BY DEF Inv
<1>2. /\ UNCHANGED <<world, disk, rows, pipes, q, web, fixer, count>>
      /\ purge.pc = "look" /\ r \in purge.look
      /\ purge' = [purge EXCEPT !.look = purge.look \ {r}, !.cancel = purge.cancel \cup more]
  BY DEF PurgeIssue
<1>3. ASSUME NEW k \in more
      PROVE  /\ k \in Loadable /\ k.row = r
             /\ k.pipe \in PipeIds /\ pipes[k.pipe].row = r /\ k.redone = pipes[k.pipe].redone
             /\ \E n \in 1..12 : /\ StuckAt(k.pipe, n) /\ k.n \in n..Len(pipes[k.pipe].jobs)
                                 /\ \E f \in more : f.pipe = k.pipe /\ f.n = n
  <2>1. Purgeable(jobs)
    BY <1>3
  <2>2. PICK j \in stuck : k = Loaded(j, r)
    BY <1>3, <2>1
  <2>3. PICK f \in jobs : Status(f) = "failed"
    BY <2>1 DEF Purgeable
  <2>4. /\ j.pipe \in PipeIds /\ j.pipe \in About(r) /\ pipes[j.pipe].row = r
        /\ j.n \in 1..Len(pipes[j.pipe].jobs) /\ pipes[j.pipe].st[j.n] \in {"failed", "on_hold"}
    BY <1>1, <2>2, JobFound DEF Status
  <2>5. /\ f.pipe \in PipeIds /\ pipes[f.pipe].row = r
        /\ f.n \in 1..Len(pipes[f.pipe].jobs) /\ pipes[f.pipe].st[f.n] = "failed"
        /\ Tied(pipes[f.pipe].jobs[f.n])
    BY <1>1, <2>3, JobFound DEF Status
  <2>6. /\ f.n \in 1..12 /\ StuckAt(f.pipe, f.n)
        /\ \A o \in About(r) \ {f.pipe} : Done(o)
        /\ \A m \in 1..f.n - 1 : pipes[f.pipe].st[m] = "success"
    BY <1>1, <2>5, FailedJob
  <2>7. j.pipe = f.pipe
    BY <2>4, <2>6 DEF Done
  <2>8. j.n \in f.n..Len(pipes[j.pipe].jobs)
    BY <1>1, <2>4, <2>6, <2>7, PipesTyped
  <2>9. k.pipe = j.pipe /\ k.n = j.n /\ k.row = r /\ k.redone = pipes[j.pipe].redone /\ k \in Loadable
    <3>1. pipes[j.pipe].redone \in Nat /\ j.pipe \in Nat /\ j.n \in Nat /\ r \in Nat
      BY <1>1, <2>4, PipesTyped DEF Pipe, RowIds
    <3>2. Status(j) \in Statuses
      BY <2>4 DEF Status, Statuses
    <3>3. QED
      BY <2>2, <3>1, <3>2 DEF Loaded, Loadable
  <2>10. \E x \in more : x.pipe = k.pipe /\ x.n = f.n
    <3>1. f \in stuck
      BY <2>3
    <3>2. Loaded(f, r) \in more
      BY <2>1, <3>1
    <3>3. Loaded(f, r).pipe = f.pipe /\ Loaded(f, r).n = f.n
      BY DEF Loaded
    <3>4. QED
      BY <2>7, <2>9, <3>2, <3>3
  <2>11. QED
    BY <2>4, <2>6, <2>7, <2>8, <2>9, <2>10
<1> HIDE DEF more, stuck, jobs
<1>4. /\ purge'.pc = "look" /\ purge'.list = purge.list /\ purge'.look = purge.look \ {r}
      /\ purge'.cancel = purge.cancel \cup more
      /\ purge' \in [pc : {"idle", "look"}, list : SUBSET [id : Nat, row : Row],
                     look : SUBSET Nat, cancel : SUBSET Loadable]
  BY <1>1, <1>2, <1>3 DEF Typed
<1>5. Typed'
  BY <1>1, <1>2, <1>4, QuietTyped DEF Typed
<1>6. /\ RowIds' = RowIds /\ PipeIds' = PipeIds /\ rows' = rows /\ pipes' = pipes
      /\ \A o, n : StuckAt(o, n)' = StuckAt(o, n)
  BY <1>2 DEF RowIds, PipeIds, StuckAt, At, Last, About, Over
<1>7. \E x \in purge.list : x.id = r
  BY <1>1, <1>2 DEF PurgeInStep
<1>8. ASSUME NEW j \in purge'.cancel
      PROVE  /\ \E x \in purge'.list : x.id = j.row
             /\ j.pipe \in PipeIds /\ pipes[j.pipe].row = j.row /\ j.redone = pipes[j.pipe].redone
             /\ \E n \in 1..12 : /\ StuckAt(j.pipe, n) /\ j.n \in n..Len(pipes[j.pipe].jobs)
                                 /\ \E k \in purge'.cancel : k.pipe = j.pipe /\ k.n = n
  <2>1. CASE j \in more
    <3>1. /\ j.row = r /\ j.pipe \in PipeIds /\ pipes[j.pipe].row = r /\ j.redone = pipes[j.pipe].redone
          /\ \E n \in 1..12 : /\ StuckAt(j.pipe, n) /\ j.n \in n..Len(pipes[j.pipe].jobs)
                              /\ \E f \in more : f.pipe = j.pipe /\ f.n = n
      BY <1>3, <2>1
    <3>2. QED
      BY <1>4, <1>7, <3>1
  <2>2. CASE j \in purge.cancel
    <3>1. /\ \E x \in purge.list : x.id = j.row
          /\ j.pipe \in PipeIds /\ pipes[j.pipe].row = j.row /\ j.redone = pipes[j.pipe].redone
          /\ \E n \in 1..12 : /\ StuckAt(j.pipe, n) /\ j.n \in n..Len(pipes[j.pipe].jobs)
                              /\ \E k \in purge.cancel : k.pipe = j.pipe /\ k.n = n
      BY <1>1, <2>2 DEF PurgeInStep
    <3>2. QED
      BY <1>4, <3>1
  <2>3. QED
    BY <1>4, <1>8, <2>1, <2>2
<1>9. PurgeInStep'
  BY <1>1, <1>4, <1>6, <1>8 DEF PurgeInStep
<1>10. QED
  BY <1>2, <1>5, <1>9, QuietKeeps DEF Inv

----------------------------------------------------------------------------
(* A client looks at the jobs there are *)

(* The jobs of a pipeline that has begun are never all closed or failed.    *)
LEMMA NoJobsLeft ==
  ASSUME Typed, RowsInStep, NEW r \in RowIds,
         \A j \in FindJobsForIssueID(r) : Status(j) \in {"failed", "failed_done"}
  PROVE  About(r) = {}
<1>1. SUFFICES ASSUME About(r) # {}
               PROVE  FALSE
  OBVIOUS
<1>2. PICK p \in About(r) : InStep(p)
  BY <1>1 DEF RowsInStep, RowInStep
<1>3. p \in PipeIds /\ pipes[p].row = r
  BY <1>2 DEF About
<1>4. PICK kind \in Kinds, from \in Froms(r), n \in 1..12 : Stands(p, kind, from, n)
  BY <1>2, <1>3 DEF InStep
<1> DEFINE J == pipes[p].jobs
<1>5. /\ J = JobsOf(kind, r, from) /\ At(p, n)
      /\ Len(J) = Length(kind) /\ Length(kind) \in {7, 11}
  BY <1>3, <1>4, PlanLength DEF Stands
<1>6. \A m \in 1..Len(J) : Tied(J[m]) => pipes[p].st[m] \in {"failed", "failed_done"}
  <2>1. SUFFICES ASSUME NEW m \in 1..Len(J), Tied(J[m])
                 PROVE  pipes[p].st[m] \in {"failed", "failed_done"}
    OBVIOUS
  <2>2. m \in DOMAIN pipes[p].st
    BY <1>3, <2>1, PipesTyped
  <2>3. [pipe |-> p, n |-> m] \in FindJobsForIssueID(r)
    BY <1>2, <2>1, <2>2 DEF FindJobsForIssueID
  <2>4. QED
    BY <2>3 DEF Status
<1>7. \A a, b : OnRow(a, b).type = a /\ Sync(a, b).type = "sync" /\ Kill(a).type = "kill"
  BY DEF OnRow, Sync, Kill
<1>8. CASE kind # "remove"
  <2>1. J[1] = OnRow("set-step", "AwaitingProcessing")
    <3>1. JobsOf("review", r, from)[1] = OnRow("set-step", "AwaitingProcessing")
      BY ReviewJobs
    <3>2. JobsOf("derive", r, from)[1] = OnRow("set-step", "AwaitingProcessing")
      BY DeriveJobs
    <3>3. QED
      BY <1>5, <1>8, <3>1, <3>2 DEF Kinds
  <2>2. J[1].type = "set-step"
    BY <1>7, <2>1
  <2> HIDE DEF J
  <2>3. 1 \in 1..Len(J) /\ Tied(J[1])
    BY <1>5, <2>2 DEF Tied
  <2>4. pipes[p].st[1] \in {"failed", "failed_done"}
    BY <1>6, <2>3
  <2>5. pipes[p].st[1] \notin {"failed", "failed_done"}
    <3>1. CASE n = 1
      BY <1>5, <2>2, <2>3, <3>1 DEF At, RowTypes, J
    <3>2. CASE n # 1
      BY <1>5, <3>2 DEF At
    <3>3. QED
      BY <3>1, <3>2
  <2>6. QED
    BY <2>4, <2>5
<1>9. CASE kind = "remove"
  <2>1. /\ J[1] = Sync(from, <<"error-wip", r>>) /\ J[2] = Kill(from)
        /\ J[3] = OnRow("locate", <<"error-wip", r>>)
    BY <1>5, <1>9, RemoveJobs
  <2>2. J[1].type = "sync" /\ J[2].type = "kill" /\ J[3].type = "locate"
    BY <1>7, <2>1
  <2> HIDE DEF J
  <2>3. 3 \in 1..Len(J) /\ Tied(J[3])
    BY <1>5, <2>2 DEF Tied
  <2>4. pipes[p].st[3] \in {"failed", "failed_done"}
    BY <1>6, <2>3
  <2>5. pipes[p].st[3] \notin {"failed", "failed_done"}
    <3>1. CASE n = 3
      BY <1>5, <2>2, <2>3, <3>1 DEF At, RowTypes, J
    <3>2. CASE n \in {1, 2}
      <4>1. J[n].type # "work"
        BY <2>2, <3>2
      <4>2. 3 \in n + 1..Len(pipes[p].jobs) /\ n <= Len(pipes[p].jobs)
        BY <1>5, <3>2 DEF J
      <4>3. QED
        BY <1>5, <4>1, <4>2 DEF At, J
    <3>3. CASE n > 3
      BY <1>5, <3>3 DEF At
    <3>4. QED
      BY <3>1, <3>2, <3>3
  <2>6. QED
    BY <2>4, <2>5
<1>10. QED
  BY <1>8, <1>9

LEMMA ClosedNone ==
  ASSUME Typed
  PROVE  Closed({}) = pipes
<1>1. pipes \in Seq(Pipe) /\ pipes = [p \in PipeIds |-> pipes[p]]
  BY DEF Typed, PipeIds
<1>2. ASSUME NEW p \in PipeIds
      PROVE  [pipes[p] EXCEPT !.st = [n \in DOMAIN pipes[p].st |->
                IF [pipe |-> p, n |-> n] \in {} THEN "failed_done" ELSE pipes[p].st[n]]] = pipes[p]
  <2>1. pipes[p] \in Pipe /\ pipes[p].st \in [1..Len(pipes[p].jobs) -> Statuses]
    BY PipesTyped
  <2>2. [n \in DOMAIN pipes[p].st |->
           IF [pipe |-> p, n |-> n] \in {} THEN "failed_done" ELSE pipes[p].st[n]] = pipes[p].st
    BY <2>1
  <2>3. QED
    BY <2>1, <2>2 DEF Pipe
<1>3. QED
  BY <1>1, <1>2 DEF Closed

LEMMA ClosedOne ==
  ASSUME Typed, NEW p \in PipeIds, NEW n \in 1..Len(pipes[p].jobs)
  PROVE  Closed({[pipe |-> p, n |-> n]}) =
           [pipes EXCEPT ![p] = WithStatuses(p, [pipes[p].st EXCEPT ![n] = "failed_done"],
                                             pipes[p].redone)]
<1> DEFINE S == {[pipe |-> p, n |-> n]}
           After(o) == [pipes[o] EXCEPT !.st = [m \in DOMAIN pipes[o].st |->
                          IF [pipe |-> o, n |-> m] \in S THEN "failed_done" ELSE pipes[o].st[m]]]
<1>1. pipes \in Seq(Pipe) /\ DOMAIN pipes = PipeIds
  BY DEF Typed, PipeIds
<1>2. ASSUME NEW o \in PipeIds \ {p}
      PROVE  After(o) = pipes[o]
  <2>1. pipes[o] \in Pipe /\ pipes[o].st \in [1..Len(pipes[o].jobs) -> Statuses]
    BY PipesTyped
  <2>2. \A m : [pipe |-> o, n |-> m] \notin S
    OBVIOUS
  <2>3. [m \in DOMAIN pipes[o].st |->
           IF [pipe |-> o, n |-> m] \in S THEN "failed_done" ELSE pipes[o].st[m]] = pipes[o].st
    BY <2>1, <2>2
  <2>4. QED
    BY <2>1, <2>3 DEF Pipe
<1>3. After(p) = WithStatuses(p, [pipes[p].st EXCEPT ![n] = "failed_done"], pipes[p].redone)
  <2>1. pipes[p] \in Pipe /\ pipes[p].st \in [1..Len(pipes[p].jobs) -> Statuses]
    BY PipesTyped
  <2>2. \A m : [pipe |-> p, n |-> m] \in S <=> m = n
    OBVIOUS
  <2>3. [m \in DOMAIN pipes[p].st |->
           IF [pipe |-> p, n |-> m] \in S THEN "failed_done" ELSE pipes[p].st[m]]
        = [pipes[p].st EXCEPT ![n] = "failed_done"]
    BY <2>1, <2>2
  <2>4. QED
    BY <2>1, <2>3 DEF Pipe, WithStatuses
<1>4. Closed(S) = [o \in PipeIds |-> After(o)]
  BY DEF Closed
<1> HIDE DEF After, S
<1>5. [o \in PipeIds |-> After(o)] = [pipes EXCEPT ![p] = After(p)]
  BY <1>1, <1>2
<1>6. QED
  BY <1>3, <1>4, <1>5 DEF S

(* Nothing has failed about an issue in review.                             *)
LEMMA ReviewDone ==
  ASSUME Typed, NEW r \in RowIds, InReview(r)
  PROVE  \A o \in About(r) : Done(o)
<1>1. PICK p \in About(r) : Stands(p, "review", Upload(rows[r].from), 12)
  BY DEF InReview
<1>2. p \in PipeIds /\ pipes[p].row = r
  BY <1>1 DEF About
<1>3. /\ pipes[p].jobs = JobsOf("review", r, Upload(rows[r].from)) /\ At(p, 12)
      /\ \A o \in About(r) \ {p} : Done(o)
  BY <1>1, <1>2 DEF Stands
<1>4. Len(pipes[p].jobs) = 11
  <2>1. Len(JobsOf("review", r, Upload(rows[r].from))) = Length("review")
    BY PlanLength DEF Kinds
  <2>2. Length("review") = 11
    BY DEF Length
  <2>3. QED
    BY <1>3, <2>1, <2>2
<1>5. \A m \in 1..11 : pipes[p].st[m] = "success"
  BY <1>3 DEF At
<1>6. Done(p)
  BY <1>4, <1>5 DEF Done
<1>7. QED
  BY <1>3, <1>6

CloseJob(p, n) == pipes' = Closed({[pipe |-> p, n |-> n]})

LEMMA ClosedRows ==
  ASSUME Typed, RowsInStep, NEW p \in PipeIds, NEW n \in 1..Len(pipes[p].jobs),
         pipes[p].st[n] = "failed", Tied(pipes[p].jobs[n]),
         CloseJob(p, n), UNCHANGED <<disk, rows>>
  PROVE  /\ Restated(p) /\ OnlyAbout(pipes[p].row) /\ At(p, n)' /\ RowsInStep'
         /\ pipes'[p].redone = pipes[p].redone /\ pipes'[p].st[n] = "failed_done"
<1> DEFINE st == [pipes[p].st EXCEPT ![n] = "failed_done"]
           k == pipes[p].redone
<1>1. /\ st \in [1..Len(pipes[p].jobs) -> Statuses] /\ st[n] = "failed_done" /\ k \in Nat
      /\ \A m \in 1..Len(pipes[p].jobs) : m # n => st[m] = pipes[p].st[m]
  BY PipesTyped DEF Statuses, Pipe
<1>2. pipes[p].jobs[n].type = "work"
  BY FailedJob
<1>3. pipes' = [pipes EXCEPT ![p] = WithStatuses(p, st, k)]
  BY ClosedOne DEF CloseJob
<1> HIDE DEF st, k
<1>4. Restates(p, n, st)
  BY <1>1, <1>2 DEF Restates
<1>5. /\ Restated(p) /\ OnlyAbout(pipes[p].row) /\ At(p, n)' /\ RowsInStep'
      /\ pipes'[p].redone = k /\ pipes'[p].st = st
  BY <1>1, <1>3, <1>4, StatusRows
<1>6. QED
  BY <1>1, <1>5 DEF k

LEMMA CloseKeeps ==
  ASSUME Inv, NEW p \in PipeIds, NEW n \in 1..Len(pipes[p].jobs),
         pipes[p].st[n] = "failed", Tied(pipes[p].jobs[n]),
         Restated(p), OnlyAbout(pipes[p].row), At(p, n)', RowsInStep',
         pipes'[p].redone = pipes[p].redone, pipes'[p].st[n] = "failed_done",
         UNCHANGED <<world, disk, rows, web, tools>>,
         q' \in [Clients -> Request], ClientsInStep'
  PROVE  Inv'
<1>1. Typed /\ RowsInStep /\ ClientsInStep /\ PurgeInStep /\ FixerInStep
  BY DEF Inv
<1> DEFINE r == pipes[p].row
<1>2. r \in RowIds
  BY <1>1, PipesTyped
<1>3. /\ n \in 1..12 /\ pipes[p].jobs[n].type = "work" /\ StuckAt(p, n)
      /\ \A o \in About(r) \ {p} : Done(o)
      /\ \A m \in 1..n - 1 : pipes[p].st[m] = "success"
  BY <1>1, FailedJob
<1>7. Typed'
  BY <1>1, TypedAfter DEF Typed
<1>8. \A s \in RowIds \ {r} : Untouched(s)
  BY <1>1, OthersUntouched
<1>9. FixerInStep'
  <2>1. ASSUME fixer.pc # "idle"
        PROVE  Untouched(fixer.row)
    <3>1. fixer.row \in RowIds /\ \A o \in About(fixer.row) : Done(o)
      BY <1>1, <2>1, ReviewDone DEF FixerInStep
    <3>2. fixer.row # r
      BY <3>1 DEF Done, About
    <3>3. QED
      BY <1>8, <3>1, <3>2
  <2>2. QED
    BY <1>1, <2>1, FixerAfter DEF OnlyAbout, tools
<1>10. PurgeInStep'
  <2>1. ASSUME NEW o \in PipeIds, NEW m \in 1..12, StuckAt(o, m)
        PROVE  /\ StuckAt(o, m)' /\ pipes'[o].row = pipes[o].row
               /\ pipes'[o].jobs = pipes[o].jobs /\ pipes'[o].redone = pipes[o].redone
    <3>1. m \in 1..Len(pipes[o].jobs) /\ At(o, m) /\ pipes[o].st[m] \in {"failed", "failed_done"}
      <4>1. At(o, m) /\ m <= Len(pipes[o].jobs) /\ pipes[o].st[m] # "pending"
        BY <2>1, Zenon DEF StuckAt
      <4>2. Len(pipes[o].jobs) \in {7, 11}
        BY <1>1, PipesTyped
      <4>3. m \in 1..Len(pipes[o].jobs)
        BY <4>1, <4>2
      <4>4. QED
        BY <4>1, <4>3 DEF At
    <3>2. CASE pipes[o].row # r
      <4>1. pipes[o].row \in RowIds /\ o \in About(pipes[o].row)
        BY <1>1, PipesTyped DEF About
      <4>2. Untouched(pipes[o].row)
        BY <1>8, <3>2, <4>1
      <4>3. StuckAt(o, m)'
        BY <2>1, <4>1, <4>2, StuckKept
      <4>4. QED
        BY <4>1, <4>2, <4>3 DEF Untouched
    <3>3. CASE pipes[o].row = r /\ o # p
      BY <1>3, <3>1, <3>3 DEF Done, About
    <3>4. CASE o = p
      <4>1. m = n
        BY <1>3, <3>1, <3>4 DEF At
      <4>2. \A e \in About(r) \ {p} : e \in PipeIds /\ pipes'[e] = pipes[e]
        BY DEF About, Restated
      <4>3. About(r)' = About(r) /\ pipes'[p].row = r
        <5>1. \A s \in RowIds : About(s)' = About(s)
          BY <1>1, OthersUntouched
        <5>2. pipes'[p].row = r
          BY DEF Restated
        <5>3. QED
          BY <1>2, <5>1, <5>2
      <4>4. Last(p)'
        BY <1>3, <4>2, <4>3 DEF StuckAt, Last, Over
      <4>5. StuckAt(p, n)'
        BY <1>2, <1>3, <4>4 DEF StuckAt, Restated
      <4>6. QED
        BY <3>4, <4>1, <4>5 DEF Restated
    <3>5. QED
      BY <3>2, <3>3, <3>4
  <2>2. RowIds \subseteq RowIds' /\ PipeIds \subseteq PipeIds' /\ purge' = purge /\ rows' = rows
    BY DEF OnlyAbout, Restated, tools
  <2>3. QED
    BY <1>1, <2>1, <2>2, PurgeAfter
<1>11. QED
  BY <1>7, <1>9, <1>10 DEF Inv

LEMMA CheckJobsKeeps ==
  ASSUME Inv, NEW c \in Clients, CheckJobs(c)
  PROVE  Inv'
<1>1. Typed /\ RowsInStep /\ ClientsInStep /\ q \in [Clients -> Request]
  BY DEF Inv, Typed
<1>2. Busy(c) /\ q[c].pc = "jobs"
  BY DEF Busy, CheckJobs
<1>3. q[c].up = {Up(c)} /\ q[c] \in Request /\ q[c].row \in RowIds
  BY <1>1, <1>2, UpInHand DEF ClientsInStep, ClientInStep
<1>4. PICK r \in RowIds : r = q[c].row
  BY <1>3
<1> DEFINE jobs == FindJobsForIssueID(r)
           failed == {j \in jobs : Status(j) = "failed"}
<1>5. UNCHANGED <<world, disk, rows, web, tools, count>>
  BY DEF CheckJobs
<1>6. CASE \A j \in jobs : Status(j) \in {"failed", "failed_done"}
  <2>1. About(r) = {}
    BY <1>1, <1>6, NoJobsLeft
  <2>2. failed = {}
    BY <2>1 DEF FindJobsForIssueID
  <2>3. pipes' = pipes /\ q' = [q EXCEPT ![c].pc = "queue"]
    BY <1>1, <1>4, <1>6, <2>2, ClosedNone DEF CheckJobs
  <2>4. /\ q'[c] = [q[c] EXCEPT !.pc = "queue"] /\ \A o \in Clients \ {c} : q'[o] = q[o]
        /\ q' = [q EXCEPT ![c] = q'[c]]
    BY <1>1, <2>3
  <2>5. /\ q'[c] \in Request /\ q'[c].pc = "queue" /\ q'[c].up = q[c].up /\ q'[c].row = r
        /\ q'[c].loc = q[c].loc
    BY <1>3, <1>4, <2>4 DEF Request
  <2>6. q' \in [Clients -> Request]
    BY <1>1, <2>4, <2>5
  <2>7. /\ About(r)' = {} /\ RowIds' = RowIds /\ rows' = rows /\ q'[c].up = {Up(c)}
        /\ Up(c)' = Up(c) /\ SameKey(r, Up(c).dir)'
    <3>1. About(r)' = {} /\ RowIds' = RowIds /\ rows' = rows /\ q'[c].up = {Up(c)}
      BY <1>3, <1>5, <2>1, <2>3, <2>5 DEF About, PipeIds, RowIds
    <3>2. Up(c)' = Up(c)
      BY <2>5 DEF Up
    <3>3. SameKey(r, Up(c).dir)
      BY <1>1, <1>2, <1>4 DEF ClientsInStep, ClientInStep
    <3>4. QED
      BY <1>5, <3>1, <3>2, <3>3 DEF SameKey, Of
  <2>8. q[c].loc = Upload(rows[r].from)
    BY <1>1, <1>2, <1>4, <2>1 DEF ClientsInStep, ClientInStep
  <2>9. ClientInStep(c)'
    BY <2>5, <2>7, <2>8 DEF ClientInStep
  <2>10. ClientsInStep'
    BY <1>1, <1>2, <1>5, <2>3, <2>4, <2>7, <2>9, OneReads
  <2>11. QED
    BY <1>5, <2>3, <2>6, <2>10, QuietClient
<1>7. CASE ~ \A j \in jobs : Status(j) \in {"failed", "failed_done"}
  <2>1. q' = Turned(c)
    BY <1>4, <1>7 DEF CheckJobs
  <2>2. PICK S \in SUBSET failed : pipes' = Closed(S)
    BY <1>4, <1>7 DEF CheckJobs
  <2>3. CASE S = {}
    <3>1. pipes' = pipes
      BY <1>1, <2>2, <2>3, ClosedNone
    <3>2. QED
      BY <1>1, <1>2, <1>5, <2>1, <3>1, ClientTurns, OneReads, QuietClient
  <2>4. CASE S # {}
    <3>1. PICK f \in S : f \in jobs /\ Status(f) = "failed"
      BY <2>2, <2>4
    <3>2. \A j \in S : /\ j.pipe \in PipeIds /\ pipes[j.pipe].row = r
                       /\ j.n \in 1..Len(pipes[j.pipe].jobs) /\ Tied(pipes[j.pipe].jobs[j.n])
                       /\ j = [pipe |-> j.pipe, n |-> j.n] /\ pipes[j.pipe].st[j.n] = "failed"
      BY <1>1, <2>2, JobFound DEF Status
    <3>3. ASSUME NEW j \in S
          PROVE  j = f
      <4>1. /\ \A o \in About(r) \ {f.pipe} : Done(o)
            /\ \A m \in 1..f.n - 1 : pipes[f.pipe].st[m] = "success"
        BY <1>1, <3>1, <3>2, FailedJob
      <4>2. j.pipe = f.pipe
        BY <3>2, <4>1 DEF Done, About
      <4>3. \A m \in 1..j.n - 1 : pipes[j.pipe].st[m] = "success"
        BY <1>1, <3>2, <3>3, FailedJob
      <4>4. j.n \in Nat /\ f.n \in Nat /\ j.n >= 1 /\ f.n >= 1
        BY <1>1, <3>1, <3>2, PipesTyped
      <4>5. ~(j.n < f.n) /\ ~(f.n < j.n)
        BY <3>1, <3>2, <3>3, <4>1, <4>2, <4>3, <4>4
      <4>6. j.n = f.n
        BY <4>4, <4>5
      <4>7. QED
        BY <3>1, <3>2, <4>2, <4>6
    <3>4. S = {[pipe |-> f.pipe, n |-> f.n]}
      BY <3>1, <3>2, <3>3
    <3>5. pipes' = Closed({[pipe |-> f.pipe, n |-> f.n]})
      BY <2>2, <3>4
    <3>6. /\ f.pipe \in PipeIds /\ f.n \in 1..Len(pipes[f.pipe].jobs)
          /\ pipes[f.pipe].st[f.n] = "failed" /\ Tied(pipes[f.pipe].jobs[f.n])
      BY <3>1, <3>2
    <3>7. /\ Restated(f.pipe) /\ OnlyAbout(pipes[f.pipe].row) /\ At(f.pipe, f.n)' /\ RowsInStep'
          /\ pipes'[f.pipe].redone = pipes[f.pipe].redone /\ pipes'[f.pipe].st[f.n] = "failed_done"
      BY <1>1, <1>5, <3>5, <3>6, ClosedRows DEF CloseJob
    <3>8. q' \in [Clients -> Request] /\ ClientsInStep'
      <4>1. /\ q' \in [Clients -> Request] /\ ClientInStep(c)' /\ ~Busy(c)'
            /\ \A o \in Clients \ {c} : q'[o] = q[o]
        BY <1>1, <1>5, <2>1, ClientTurns
      <4>2. \A s \in RowIds : About(s)' = About(s)
        BY <1>1, <3>6, <3>7, OthersUntouched
      <4>3. \A d : Rows(d)' = Rows(d)
        BY <1>5 DEF Rows, RowIds, SameKey, Of
      <4>4. /\ RowIds' = RowIds /\ \A s \in RowIds : SameIssue(rows[s], rows'[s])
        BY <1>5 DEF RowIds, SameIssue
      <4>5. /\ \A o \in Clients \ {c} : q[o].pc = "create" => Rows(Up(o).dir)' = {}
            /\ \A o \in Clients \ {c} : q[o].pc \in {"jobs", "queue"} =>
                                         (About(q[o].row)' = {} <=> About(q[o].row) = {})
        <5>1. \A o \in Clients \ {c} : Up(o)' = Up(o) /\ q'[o] = q[o]
          BY <4>1 DEF Up
        <5>2. QED
          BY <1>1, <4>2, <4>3, <5>1 DEF ClientsInStep, ClientInStep
      <4>6. QED
        BY <1>1, <1>5, <4>1, <4>4, <4>5, OneClient
    <3>9. QED
      BY <1>5, <3>6, <3>7, <3>8, CloseKeeps
  <2>5. QED
    BY <2>3, <2>4
<1>8. QED
  BY <1>6, <1>7

----------------------------------------------------------------------------
(* An issue is put into the database *)

LEMMA IssueTyped ==
  ASSUME Typed, NEW d \in Dirs
  PROVE  /\ Of(d).title \in {"t1", "t2"} /\ Of(d).parts \in Seq(Int)
<1> DEFINE Folder == [date : Seq(Int), ed : Int, flagged : BOOLEAN]
           Files == SUBSET [stem : {"0001", "0002"}, ext : {"pdf", "tif"},
                            type : {"file", "dir"}, hidden : BOOLEAN, dpi : BOOLEAN]
           Directory == [kind : {"sftp", "scan"}, title : {"t1", "t2"}, listed : BOOLEAN,
                         folder : Folder, files : Files]
           x == world.dirs[d]
<1>1. world.dirs \in [Dirs -> Directory]
  BY DEF Typed, World
<1> HIDE DEF Files, Folder
<1>2. x.title \in {"t1", "t2"} /\ x.folder \in Folder
  BY <1>1
<1>3. x.folder.date \in Seq(Int) /\ x.folder.ed \in Int
  BY <1>2 DEF Folder
<1> HIDE DEF x
<1>4. Edition(x) \in Int
  BY <1>3 DEF Edition
<1>5. DateParts(x) \in Seq(Int)
  BY <1>3, AppendProperties DEF DateParts, NaN
<1>6. Append(DateParts(x), Edition(x)) \in Seq(Int)
  BY <1>4, <1>5, AppendProperties
<1>7. QED
  BY <1>2, <1>6 DEF Of, IssueOf, Issue, x

LEMMA CreateKeeps ==
  ASSUME Inv, NEW c \in Clients, CreateDatabaseIssue(c)
  PROVE  Inv'
<1>1. Typed /\ RowsInStep /\ ClientsInStep /\ PurgeInStep /\ FixerInStep /\ q \in [Clients -> Request]
  BY DEF Inv, Typed
<1>2. Busy(c) /\ q[c].pc = "create"
  BY DEF Busy, CreateDatabaseIssue
<1>3. PICK d : d = Up(c).dir
  OBVIOUS
<1>4. d \in Dirs /\ q[c].up = {Up(c)} /\ q[c] \in Request /\ Rows(d) = {}
  BY <1>1, <1>2, <1>3, UpInHand DEF ClientsInStep, ClientInStep
<1>5. PICK N, x : /\ N = Len(rows) + 1
                  /\ x = [title |-> Of(d).title, parts |-> Of(d).parts, from |-> d,
                          ws |-> "AwaitingProcessing", loc |-> Upload(d), ignored |-> FALSE]
  OBVIOUS
<1>6. /\ Len(rows) < MaxRows /\ rows' = Append(rows, x)
      /\ q' = [q EXCEPT ![c].pc = "jobs", ![c].row = N, ![c].loc = Upload(d)]
      /\ UNCHANGED <<world, disk, pipes, web, tools, count>>
  BY <1>3, <1>5 DEF CreateDatabaseIssue
<1>7. x \in Row /\ Upload(d) \in Paths
  BY <1>1, <1>4, <1>5, IssueTyped DEF Row, Steps, Paths
<1>8. /\ x.from = d /\ x.title = Of(d).title /\ x.parts = Of(d).parts /\ ~x.ignored
      /\ x.ws = "AwaitingProcessing" /\ x.loc = Upload(d)
  BY <1>5
<1>9. rows \in Seq(Row) /\ Len(rows) \in Nat /\ MaxRows \in Nat
  BY <1>1, IntakeAssumption DEF Typed
<1>10. /\ rows' \in Seq(Row) /\ Len(rows') = N /\ rows'[N] = x
       /\ \A r \in RowIds : rows'[r] = rows[r]
  BY <1>5, <1>6, <1>7, <1>9, AppendProperties DEF RowIds
<1>11. RowIds' = RowIds \cup {N} /\ N \notin RowIds /\ N \in Nat \ {0} /\ N \in 1..MaxRows
  BY <1>5, <1>6, <1>9, <1>10 DEF RowIds
<1>12. PipeIds' = PipeIds /\ (\A r : About(r)' = About(r)) /\ Clients' = Clients
  BY <1>6 DEF PipeIds, About, Clients
<1>13. About(N) = {}
  BY <1>1, <1>11, PipesTyped DEF About
<1>14. \A r \in RowIds : Untouched(r)
  BY <1>6, <1>10, <1>12 DEF Untouched
<1>15. \A p : Took(p)' = Took(p)
  BY <1>6 DEF Took
<1>16. \A r : Taken(r)' = Taken(r)
  BY <1>12, <1>15 DEF Taken
<1>17. ~Taken(N)
  BY <1>13 DEF Taken
<1>18. Typed'
  <2>1. /\ q'[c] = [q[c] EXCEPT !.pc = "jobs", !.row = N, !.loc = Upload(d)]
        /\ q' = [q EXCEPT ![c] = q'[c]]
    BY <1>1, <1>6
  <2>2. q'[c] \in Request
    BY <1>4, <1>7, <1>11, <2>1 DEF Request
  <2>3. q' \in [Clients -> Request]
    BY <1>1, <2>1, <2>2
  <2>4. \A r \in RowIds' : SameKey(r, rows[r].from)'
    <3>1. ASSUME NEW r \in RowIds PROVE SameKey(r, rows[r].from)'
      <4>1. SameKey(r, rows[r].from) /\ rows'[r] = rows[r] /\ world' = world
        BY <1>1, <1>6, <1>10 DEF Typed
      <4>2. QED
        BY <4>1 DEF SameKey, Of
    <3>2. SameKey(N, rows[N].from)'
      <4>1. /\ rows'[N].title = Of(d).title /\ rows'[N].parts = Of(d).parts
            /\ rows'[N].from = d /\ world' = world
        BY <1>6, <1>8, <1>10
      <4>2. QED
        BY <4>1 DEF SameKey, Of
    <3>3. QED
      BY <1>11, <3>1, <3>2
  <2>5. Len(rows') <= MaxRows
    BY <1>10, <1>11
  <2>6. \A p \in PipeIds' : pipes'[p].row \in RowIds' /\ DOMAIN pipes'[p].st = 1..Len(pipes'[p].jobs)
    BY <1>1, <1>6, <1>11, <1>12 DEF Typed
  <2>7. QED
    BY <1>1, <1>6, <1>10, <1>12, <2>3, <2>4, <2>5, <2>6 DEF Typed, tools
<1>19. RowsInStep'
  <2>1. ASSUME NEW r \in RowIds'
        PROVE  RowInStep(r)'
    <3>1. CASE r \in RowIds
      BY <1>1, <1>14, <3>1, RowKept DEF RowsInStep
    <3>2. CASE r = N
      <4>1. \A place \in Places : disk[<<place, N>>] = {}
        BY <1>1, <1>11 DEF RowsInStep, NoneBeyond
      <4>2. Fresh(N)'
        BY <1>6, <1>8, <1>10, <4>1 DEF Fresh
      <4>3. RowInStep(N)'
        BY <1>12, <1>13, <4>2 DEF RowInStep
      <4>4. QED
        BY <3>2, <4>3
    <3>3. QED
      BY <1>11, <3>1, <3>2
  <2>2. FirstTakes'
    <3>1. \A p \in PipeIds : pipes[p].row \in RowIds
      BY <1>1, PipesTyped
    <3>2. QED
      BY <1>1, <1>6, <1>10, <1>12, <3>1 DEF RowsInStep, FirstTakes, TakesFirst
  <2>3. KeysUnique'
    <3>1. \A r \in RowIds : ~rows[r].ignored => ~(rows[r].title = x.title /\ rows[r].parts = x.parts)
      BY <1>4, <1>8 DEF Rows, SameKey
    <3>2. KeysUnique
      BY <1>1 DEF RowsInStep
    <3>3. QED
      BY <1>10, <1>11, <3>1, <3>2 DEF KeysUnique
  <2>4. UploadsKept'
    BY <1>1, <1>6, <1>10, <1>11, <1>16 DEF RowsInStep, UploadsKept
  <2>5. TakenOnce'
    BY <1>1, <1>10, <1>11, <1>16, <1>17 DEF RowsInStep, TakenOnce
  <2>6. NoneBeyond'
    BY <1>1, <1>6, <1>11 DEF RowsInStep, NoneBeyond
  <2>7. QED
    BY <2>1, <2>2, <2>3, <2>4, <2>5, <2>6 DEF RowsInStep
<1>20. ClientsInStep'
  <2>1. /\ q'[c].pc = "jobs" /\ q'[c].row = N /\ q'[c].loc = Upload(d) /\ q'[c].up = q[c].up
        /\ \A o \in Clients \ {c} : q'[o] = q[o]
    <3>1. /\ q'[c] = [q[c] EXCEPT !.pc = "jobs", !.row = N, !.loc = Upload(d)]
          /\ \A o \in Clients \ {c} : q'[o] = q[o]
      BY <1>1, <1>6
    <3>2. QED
      BY <1>4, <3>1 DEF Request
  <2>2. q'[c].row \in RowIds' /\ rows'[N].from = d
    BY <1>8, <1>10, <1>11, <2>1
  <2>3. Up(c)' = Up(c) /\ SameKey(N, d)'
    BY <1>6, <1>8, <1>10, <2>1 DEF Up, SameKey, Of
  <2>4. ClientInStep(c)'
    BY <1>3, <1>4, <2>1, <2>2, <2>3 DEF ClientInStep
  <2>5. ASSUME NEW o \in Clients \ {c}, q[o].pc = "create"
        PROVE  Rows(Up(o).dir)' = {}
    <3>1. Busy(o) /\ Rows(Up(o).dir) = {}
      BY <1>1, <2>5 DEF Busy, ClientsInStep, ClientInStep
    <3>2. Up(o).dir \in Dirs /\ Up(o).dir \notin SameKeys(d)
      BY <1>1, <1>2, <1>3, <3>1, UpInHand DEF ClientsInStep, Apart
    <3>3. ~(x.title = Of(Up(o).dir).title /\ x.parts = Of(Up(o).dir).parts)
      BY <1>8, <3>2 DEF SameKeys
    <3>4. ASSUME NEW r \in Rows(Up(o).dir)'
          PROVE  FALSE
      <4>1. r \in RowIds' /\ SameKey(r, Up(o).dir)' /\ ~rows'[r].ignored
        BY DEF Rows
      <4>2. Up(o)' = Up(o) /\ Of(Up(o).dir)' = Of(Up(o).dir)
        BY <1>6, <2>1 DEF Up, Of
      <4>3. CASE r = N
        BY <1>10, <3>3, <4>1, <4>2, <4>3 DEF SameKey
      <4>4. CASE r \in RowIds
        <5>1. r \in Rows(Up(o).dir)
          BY <1>10, <4>1, <4>2, <4>4 DEF Rows, SameKey
        <5>2. QED
          BY <3>1, <5>1
      <4>5. QED
        BY <1>11, <4>1, <4>3, <4>4
    <3>5. QED
      BY <3>4
  <2>6. \A r \in RowIds : SameIssue(rows[r], rows'[r])
    BY <1>10 DEF SameIssue
  <2>7. QED
    BY <1>1, <1>2, <1>6, <1>11, <1>12, <2>1, <2>3, <2>4, <2>5, <2>6, OneClient
<1>21. PurgeInStep'
  <2>1. \A o \in PipeIds, n \in 1..12 : StuckAt(o, n) => StuckAt(o, n)'
    <3>1. TAKE o \in PipeIds, n \in 1..12
    <3>2. pipes[o].row \in RowIds /\ o \in About(pipes[o].row)
      BY <1>1, PipesTyped DEF About
    <3>3. QED
      BY <1>14, <3>2, StuckKept
  <2>2. \A y \in purge.list : rows'[y.id] = rows[y.id]
    BY <1>1, <1>10 DEF PurgeInStep
  <2>3. RowIds \subseteq RowIds' /\ PipeIds \subseteq PipeIds' /\ purge' = purge /\ pipes' = pipes
    BY <1>6, <1>11, <1>12 DEF tools
  <2>4. QED
    BY <1>1, <2>1, <2>2, <2>3, PurgeAfter
<1>22. FixerInStep'
  <2>1. fixer.pc # "idle" => Untouched(fixer.row)
    BY <1>1, <1>14 DEF FixerInStep
  <2>2. RowIds \subseteq RowIds' /\ fixer' = fixer
    BY <1>6, <1>11 DEF tools
  <2>3. QED
    BY <1>1, <2>1, <2>2, FixerAfter
<1>23. QED
  BY <1>18, <1>19, <1>20, <1>21, <1>22 DEF Inv

----------------------------------------------------------------------------
(* Pipelines are queued *)

(* A pipeline as it is queued.                                              *)
Serial(kind, r, from) == QueueSerial(r, IF kind = "remove" THEN TRUE ELSE FALSE, JobsOf(kind, r, from))

LEMMA SerialRow ==
  ASSUME NEW kind \in Kinds, NEW r \in 1..MaxRows, NEW from \in Paths
  PROVE  /\ Serial(kind, r, from) \in Pipe
         /\ Serial(kind, r, from).row = r
         /\ DOMAIN Serial(kind, r, from).st = 1..Len(Serial(kind, r, from).jobs)
<1> DEFINE J == JobsOf(kind, r, from)
           st == [n \in 1..Len(J) |-> IF n = 1 THEN "pending" ELSE "on_hold"]
           removal == IF kind = "remove" THEN TRUE ELSE FALSE
           x == [row |-> r, removal |-> removal, jobs |-> J, redone |-> 0, st |-> st]
<1>1. Serial(kind, r, from) = x
  BY DEF Serial, QueueSerial
<1>2. Len(J) = Length(kind) /\ Length(kind) \in {7, 11}
  BY PlanLength
<1>3. J \in Plans
  BY DEF Plans
<1>4. st \in [1..Len(J) -> Statuses] /\ DOMAIN st = 1..Len(J)
  BY DEF Statuses
<1>5. removal \in BOOLEAN
  OBVIOUS
<1> HIDE DEF J, st, removal
<1>6. x \in Pipe
  BY <1>2, <1>3, <1>4, <1>5 DEF Pipe
<1>7. x.row = r /\ x.jobs = J /\ x.st = st
  OBVIOUS
<1> HIDE DEF x
<1>8. QED
  BY <1>1, <1>4, <1>6, <1>7

LEMMA SerialStatus ==
  ASSUME NEW kind \in Kinds, NEW r, NEW from, NEW m \in 1..Length(kind)
  PROVE  Serial(kind, r, from).st[m] = IF m = 1 THEN "pending" ELSE "on_hold"
<1>1. Len(JobsOf(kind, r, from)) = Length(kind)
  BY PlanLength
<1>2. QED
  BY <1>1 DEF Serial, QueueSerial

(* A pipeline that has just been queued.                                    *)
LEMMA NewStands ==
  ASSUME NEW kind \in Kinds, NEW r \in 1..MaxRows, NEW from \in Paths, NEW p \in PipeIds',
         pipes'[p] = Serial(kind, r, from), FromFits(kind, r, from)', Last(p)',
         kind # "remove" => \A o \in About(r)' \ {p} : Done(o)',
         RowFits(rows'[r], kind, r, from, 1),
         \A place \in Places : disk'[<<place, r>>] = IF <<place, r>> = from THEN Pages ELSE {},
         IF from = Upload(rows'[r].from) THEN About(r)' = {p}
         ELSE disk'[Upload(rows'[r].from)] = {} /\ \E o \in About(r)' \ {p} : Took(o)'
  PROVE  Stands(p, kind, from, 1)' /\ RowInStep(r)' /\ ~Took(p)' /\ p \in About(r)'
<1> DEFINE x == Serial(kind, r, from)
<1>1. /\ x.row = r /\ x.jobs = JobsOf(kind, r, from)
      /\ x.removal = (IF kind = "remove" THEN TRUE ELSE FALSE)
      /\ Len(x.jobs) = Length(kind) /\ Length(kind) \in {7, 11}
      /\ \A m \in 1..Length(kind) : x.st[m] = IF m = 1 THEN "pending" ELSE "on_hold"
  <2>1. Length(kind) \in {7, 11}
    BY DEF Length
  <2>2. /\ x.row = r /\ x.jobs = JobsOf(kind, r, from)
        /\ x.removal = (IF kind = "remove" THEN TRUE ELSE FALSE)
        /\ Len(x.jobs) = Length(kind)
    <3>1. /\ x.row = r /\ x.jobs = JobsOf(kind, r, from)
          /\ x.removal = (IF kind = "remove" THEN TRUE ELSE FALSE)
      BY DEF Serial, QueueSerial
    <3>2. Len(JobsOf(kind, r, from)) = Length(kind)
      BY PlanLength
    <3>3. QED
      BY <3>1, <3>2
  <2>3. \A m \in 1..Length(kind) : x.st[m] = IF m = 1 THEN "pending" ELSE "on_hold"
    BY SerialStatus
  <2>4. QED
    BY <2>1, <2>2, <2>3
<1> HIDE DEF x
<1>2. pipes'[p] = x
  BY DEF x
<1>3. At(p, 1)'
  BY <1>1, <1>2 DEF At
<1>4. Home(kind, 1) = "from" /\ Drain(kind, 1) = "none"
  BY DEF Home, Drain
<1>5. FilesAt(r, Dir(Home(kind, 1), r, from), Dir(Drain(kind, 1), r, from))'
  BY <1>4 DEF FilesAt, Dir
<1>6. p \in About(r)'
  BY <1>1, <1>2 DEF About
<1>7. 1 \in 1..Length(kind) + 1 /\ 1 \in 1..12
  BY <1>1
<1>8. Stands(p, kind, from, 1)'
  <2>1. /\ pipes'[p].row = r /\ pipes'[p].jobs = JobsOf(kind, r, from)
        /\ pipes'[p].removal = (IF kind = "remove" THEN TRUE ELSE FALSE)
    BY <1>1, <1>2
  <2>2. About(pipes[p].row)' = About(r)'
    BY <2>1 DEF About
  <2>3. FromFits(kind, pipes[p].row, from)'
    BY <2>1 DEF FromFits
  <2>4. FilesAt(pipes[p].row, Dir(Home(kind, 1), pipes[p].row, from),
                Dir(Drain(kind, 1), pipes[p].row, from))'
    BY <1>4, <2>1 DEF FilesAt, Dir
  <2>5. RowFits(rows[pipes[p].row], kind, pipes[p].row, from, 1)'
    BY <2>1
  <2>6. LET up == Upload(rows'[r].from)
        IN  IF from = up THEN About(pipes[p].row)' = {p} /\ (1 >= 4 => disk'[up] = {})
            ELSE disk'[up] = {} /\ \E o \in About(pipes[p].row)' \ {p} : Took(o)'
    BY <2>2
  <2>7. kind # "remove" => \A o \in About(pipes[p].row)' \ {p} : Done(o)'
    BY <2>2
  <2>8. QED
    BY <1>3, <1>7, <2>1, <2>3, <2>4, <2>5, <2>6, <2>7 DEF Stands
<1>9. from \in Froms(r)'
  BY DEF FromFits, Froms
<1>10. InStep(p)'
  BY <1>1, <1>2, <1>7, <1>8, <1>9 DEF InStep
<1>11. ~Took(p)'
  <2>1. 2 \in 1..Length(kind)
    BY <1>1
  <2>2. QED
    BY <1>1, <1>2, <2>1 DEF Took
<1>12. RowInStep(r)'
  BY <1>6, <1>10 DEF RowInStep
<1>13. QED
  BY <1>6, <1>8, <1>11, <1>12

(* Pipelines are added, and none of them has taken anything yet.            *)
LEMMA RowsGrow ==
  ASSUME Typed, RowsInStep, RowIds' = RowIds, PipeIds \subseteq PipeIds', PipeIds' \subseteq Nat,
         \A r \in RowIds : SameIssue(rows[r], rows'[r]) /\ (rows[r].ignored => rows'[r].ignored),
         \A o \in PipeIds : /\ pipes'[o].row = pipes[o].row /\ pipes'[o].removal = pipes[o].removal
                            /\ pipes'[o].jobs = pipes[o].jobs /\ (Took(o)' <=> Took(o)),
         \A o \in PipeIds' \ PipeIds : /\ ~Took(o)' /\ o > Len(pipes)
                                       /\ ~pipes'[o].removal => TakesFirst(o)',
         \A r \in RowIds : RowInStep(r)',
         \A d \in Dirs : disk'[Upload(d)] = disk[Upload(d)],
         NoneBeyond'
  PROVE  RowsInStep'
<1>1. \A r \in RowIds : rows'[r].from = rows[r].from
  BY DEF SameIssue
<1>2. \A r : About(r) \subseteq About(r)' /\ About(r)' \cap PipeIds = About(r)
  BY DEF About
<1>3. \A r \in RowIds : Taken(r)' <=> Taken(r)
  <2>1. TAKE r \in RowIds
  <2>2. Taken(r) => Taken(r)'
    BY <1>2 DEF Taken, About
  <2>3. ASSUME Taken(r)'
        PROVE  Taken(r)
    <3>1. PICK o \in About(r)' : Took(o)'
      BY <2>3 DEF Taken
    <3>2. o \in PipeIds
      BY <3>1 DEF About
    <3>3. o \in About(r) /\ Took(o)
      BY <1>2, <3>1, <3>2
    <3>4. QED
      BY <3>3 DEF Taken
  <2>4. QED
    BY <2>2, <2>3
<1>4. FirstTakes'
  <2>1. SUFFICES ASSUME NEW p \in PipeIds', ~pipes'[p].removal
                 PROVE  TakesFirst(p)'
    BY DEF FirstTakes
  <2>2. CASE p \notin PipeIds
    BY <2>1, <2>2
  <2>3. CASE p \in PipeIds
    <3>1. TakesFirst(p) /\ pipes[p].row \in RowIds
      BY <2>1, <2>3, PipesTyped DEF RowsInStep, FirstTakes
    <3>2. PICK r : r = pipes[p].row /\ pipes'[p].row = r
      BY <2>3
    <3>3. rows'[r].from = rows[r].from /\ pipes'[p].jobs = pipes[p].jobs
      BY <1>1, <2>3, <3>1, <3>2
    <3>4. (\A o \in About(r) : p <= o) => \A o \in About(r)' : p <= o
      <4>1. p \in Nat /\ p <= Len(pipes) /\ Len(pipes) \in Nat
        BY <2>3 DEF PipeIds, Typed
      <4>2. \A o \in About(r)' : o \in About(r) \/ (o \in Nat /\ o > Len(pipes))
        BY <1>2 DEF About
      <4>3. QED
        BY <4>1, <4>2
    <3>5. QED
      BY <3>1, <3>2, <3>3, <3>4 DEF TakesFirst
  <2>4. QED
    BY <2>2, <2>3
<1>5. KeysUnique'
  BY DEF RowsInStep, KeysUnique, SameIssue
<1>6. UploadsKept' /\ TakenOnce'
  BY <1>1, <1>3 DEF RowsInStep, UploadsKept, TakenOnce
<1>7. QED
  BY <1>4, <1>5, <1>6 DEF RowsInStep

LEMMA TypedGrow ==
  ASSUME Typed, RowIds' = RowIds, world' = world, web' = web, rows' \in Seq(Row),
         \A r \in RowIds : SameIssue(rows[r], rows'[r]),
         disk' \in [Paths -> SUBSET Pages], q' \in [Clients -> Request], pipes' \in Seq(Pipe),
         \A o \in PipeIds' : /\ pipes'[o].row \in RowIds
                             /\ DOMAIN pipes'[o].st = 1..Len(pipes'[o].jobs),
         purge' \in [pc : {"idle", "look"}, list : SUBSET [id : Nat, row : Row],
                     look : SUBSET Nat, cancel : SUBSET Loadable],
         fixer' \in [pc : {"idle", "loaded", "prepared"}, row : Nat, loc : Paths]
  PROVE  Typed'
<1>1. Len(rows') = Len(rows)
  <2>1. 1..Len(rows') = 1..Len(rows) /\ Len(rows) \in Nat /\ Len(rows') \in Nat
    BY DEF RowIds, Typed
  <2>2. QED
    BY <2>1
<1>2. \A r \in RowIds' : SameKey(r, rows[r].from)'
  BY DEF SameKey, SameIssue, Of, Typed
<1>3. Clients' = Clients
  BY DEF Clients
<1>4. QED
  BY <1>1, <1>2, <1>3 DEF Typed

LEMMA NewIs ==
  ASSUME NEW kind \in Kinds, NEW r, NEW from, NEW p, pipes'[p] = Serial(kind, r, from)
  PROVE  /\ pipes'[p].row = r /\ pipes'[p].jobs = JobsOf(kind, r, from)
         /\ pipes'[p].removal <=> kind = "remove"
<1> DEFINE J == JobsOf(kind, r, from)
           st == [n \in 1..Len(J) |-> IF n = 1 THEN "pending" ELSE "on_hold"]
           removal == IF kind = "remove" THEN TRUE ELSE FALSE
           x == [row |-> r, removal |-> removal, jobs |-> J, redone |-> 0, st |-> st]
<1>1. pipes'[p] = x
  BY DEF Serial, QueueSerial
<1> HIDE DEF J, st, removal
<1>2. x.row = r /\ x.jobs = J /\ x.removal = removal
  OBVIOUS
<1>3. QED
  BY <1>1, <1>2 DEF J, removal

Queued(kind, r, from) == pipes' = Append(pipes, Serial(kind, r, from))

(* What is known of a pipeline that has just been added.                    *)
LEMMA Appended ==
  ASSUME Typed, NEW r \in RowIds, NEW kind \in Kinds, NEW from \in Paths,
         Queued(kind, r, from), RowIds' = RowIds
  PROVE  LET p == Len(pipes) + 1
         IN  /\ pipes' \in Seq(Pipe) /\ PipeIds' = PipeIds \cup {p} /\ p \notin PipeIds /\ p \in Nat
             /\ PipeIds' \subseteq Nat /\ pipes'[p] = Serial(kind, r, from)
             /\ \A o \in PipeIds : pipes'[o] = pipes[o] /\ o < p
             /\ \A o \in PipeIds' : /\ pipes'[o].row \in RowIds
                                    /\ DOMAIN pipes'[o].st = 1..Len(pipes'[o].jobs)
             /\ About(r)' = About(r) \cup {p}
             /\ \A s \in RowIds \ {r} : About(s)' = About(s)
<1>1. r \in 1..MaxRows
  BY RowTyped
<1>2. PICK x : x = Serial(kind, r, from)
  OBVIOUS
<1>3. x \in Pipe /\ x.row = r /\ DOMAIN x.st = 1..Len(x.jobs)
  <2> DEFINE y == Serial(kind, r, from)
  <2>1. y \in Pipe /\ y.row = r /\ DOMAIN y.st = 1..Len(y.jobs)
    BY <1>1, SerialRow, Zenon
  <2> HIDE DEF y
  <2>2. x = y
    BY <1>2 DEF y
  <2>3. QED
    BY <2>1, <2>2
<1>4. PICK p : p = Len(pipes) + 1
  OBVIOUS
<1>5. pipes \in Seq(Pipe) /\ Len(pipes) \in Nat
  BY DEF Typed
<1>6. /\ pipes' \in Seq(Pipe) /\ Len(pipes') = p /\ pipes'[p] = x
      /\ \A o \in PipeIds : pipes'[o] = pipes[o]
  BY <1>2, <1>3, <1>4, <1>5, AppendProperties DEF PipeIds, Queued
<1>7. /\ PipeIds' = PipeIds \cup {p} /\ p \notin PipeIds /\ p \in Nat /\ PipeIds' \subseteq Nat
      /\ \A o \in PipeIds : o < p
  BY <1>4, <1>5, <1>6 DEF PipeIds
<1>8. \A o \in PipeIds' : /\ pipes'[o].row \in RowIds
                          /\ DOMAIN pipes'[o].st = 1..Len(pipes'[o].jobs)
  BY <1>3, <1>6, <1>7 DEF Typed
<1>9. About(r)' = About(r) \cup {p} /\ \A s \in RowIds \ {r} : About(s)' = About(s)
  BY <1>3, <1>6, <1>7 DEF About
<1>10. QED
  BY <1>2, <1>4, <1>6, <1>7, <1>8, <1>9

(* A pipeline is queued about an issue all of whose pipelines are done.     *)
LEMMA QueuedRows ==
  ASSUME Typed, RowsInStep, NEW r \in RowIds, NEW kind \in Kinds, NEW from \in Paths,
         Queued(kind, r, from), OnlyAbout(r),
         \A d \in Dirs : disk'[Upload(d)] = disk[Upload(d)],
         FromFits(kind, r, from), RowFits(rows'[r], kind, r, from, 1),
         \A place \in Places : disk'[<<place, r>>] = IF <<place, r>> = from THEN Pages ELSE {},
         \A o \in About(r) : Done(o) /\ ~pipes[o].removal,
         IF from = Upload(rows[r].from) THEN About(r) = {}
         ELSE disk[Upload(rows[r].from)] = {} /\ \E o \in About(r) : Took(o)
  PROVE  RowsInStep' /\ \A s \in RowIds \ {r} : Untouched(s)
<1>1. PICK p : p = Len(pipes) + 1
  OBVIOUS
<1>2. RowIds' = RowIds /\ r \in 1..MaxRows /\ rows[r].from \in Dirs
  BY RowTyped DEF OnlyAbout
<1>3. /\ PipeIds' = PipeIds \cup {p} /\ p \notin PipeIds /\ p \in Nat
      /\ PipeIds' \subseteq Nat /\ pipes'[p] = Serial(kind, r, from)
      /\ \A o \in PipeIds : pipes'[o] = pipes[o] /\ o < p
      /\ About(r)' = About(r) \cup {p}
      /\ \A s \in RowIds \ {r} : About(s)' = About(s)
  BY <1>1, <1>2, Appended
<1>4. /\ \A s \in RowIds : SameIssue(rows[s], rows'[s]) /\ (rows[s].ignored => rows'[s].ignored)
      /\ rows'[r].from = rows[r].from
  BY DEF OnlyAbout, SameIssue
<1>5. About(r) \subseteq PipeIds /\ p \notin About(r)
  BY <1>3 DEF About
<1>6. \A o \in PipeIds : (Done(o)' <=> Done(o)) /\ (Took(o)' <=> Took(o)) /\ pipes'[o] = pipes[o]
  <2>1. TAKE o \in PipeIds
  <2>2. pipes'[o] = pipes[o]
    BY <1>3
  <2>3. Done(o)' <=> Done(o)
    BY <2>2 DEF Done
  <2>4. Took(o)' <=> Took(o)
    BY <2>2 DEF Took
  <2>5. QED
    BY <2>2, <2>3, <2>4
<1>7. FromFits(kind, r, from)'
  BY <1>4 DEF FromFits
<1>8. pipes'[p].row = r /\ pipes'[p].jobs = JobsOf(kind, r, from)
      /\ (pipes'[p].removal <=> kind = "remove")
  <2>1. pipes'[p] = Serial(kind, r, from)
    BY <1>3
  <2>2. QED
    BY <2>1, NewIs, Zenon
<1>9. Last(p)'
  <2>1. \A o \in About(r) : o < p /\ Over(o)' /\ ~pipes'[o].removal
    <3>1. TAKE o \in About(r)
    <3>2. Done(o)' /\ o < p /\ ~pipes'[o].removal
      BY <1>3, <1>5, <1>6
    <3>3. QED
      BY <3>2 DEF Done, Over
  <2>2. About(pipes[p].row)' \ {p} \subseteq About(r)
    BY <1>3, <1>8 DEF About
  <2>3. QED
    BY <2>1, <2>2 DEF Last
<1>10. kind # "remove" => \A o \in About(r)' \ {p} : Done(o)'
  BY <1>3, <1>5, <1>6
<1>11. IF from = Upload(rows'[r].from) THEN About(r)' = {p}
       ELSE disk'[Upload(rows'[r].from)] = {} /\ \E o \in About(r)' \ {p} : Took(o)'
  BY <1>2, <1>3, <1>4, <1>5, <1>6
<1>12. RowInStep(r)' /\ ~Took(p)'
  <2>1. p \in PipeIds'
    BY <1>3
  <2>2. QED
    BY <1>2, <1>3, <1>7, <1>9, <1>10, <1>11, <2>1, NewStands
<1>13. \A s \in RowIds \ {r} : Untouched(s)
  BY <1>3, RowTyped DEF Untouched, OnlyAbout, About
<1>14. \A s \in RowIds : RowInStep(s)'
  <2>1. \A s \in RowIds \ {r} : RowInStep(s)'
    BY <1>13, RowKept DEF RowsInStep
  <2>2. QED
    BY <1>12, <2>1
<1>15. ~pipes'[p].removal => TakesFirst(p)'
  <2>1. ASSUME kind # "remove"
        PROVE  TakesFirst(p)'
    <3>1. pipes'[p].jobs[2].src = from
      <4>1. JobsOf("review", r, from)[2] = Sync(from, <<"wip", r>>)
        BY ReviewJobs
      <4>2. JobsOf("derive", r, from)[2] = Sync(from, <<"wip", r>>)
        BY DeriveJobs
      <4>3. JobsOf(kind, r, from)[2] = Sync(from, <<"wip", r>>)
        BY <2>1, <4>1, <4>2 DEF Kinds
      <4>4. QED
        BY <1>8, <4>3 DEF Sync
    <3>2. from = Upload(rows'[r].from) \/ from = <<"no-touchie", r>>
      BY <1>7, <2>1 DEF FromFits
    <3>3. from = Upload(rows'[r].from) => \A o \in About(pipes[p].row)' : p <= o
      <4>1. About(pipes[p].row)' = About(r)'
        BY <1>8 DEF About
      <4>2. QED
        BY <1>3, <1>11, <4>1
    <3>4. QED
      BY <1>8, <3>1, <3>2, <3>3 DEF TakesFirst
  <2>2. QED
    BY <1>8, <2>1
<1>16. NoneBeyond'
  BY <1>2 DEF RowsInStep, NoneBeyond, OnlyAbout
<1>17. \A o \in PipeIds' \ PipeIds : /\ ~Took(o)' /\ o > Len(pipes)
                                     /\ ~pipes'[o].removal => TakesFirst(o)'
  <2>1. Len(pipes) \in Nat
    BY DEF Typed
  <2>2. QED
    BY <1>1, <1>3, <1>12, <1>15, <2>1
<1>18. QED
  BY <1>2, <1>3, <1>4, <1>6, <1>13, <1>14, <1>16, <1>17, RowsGrow

(* ... and no tool is disturbed by it.                                      *)
LEMMA QueuedPurge ==
  ASSUME Typed, PurgeInStep, purge' = purge, NEW r \in RowIds,
         \A s \in RowIds \ {r} : Untouched(s), \A o \in About(r) : Done(o),
         RowIds' = RowIds, PipeIds \subseteq PipeIds',
         rows'[r] = rows[r] \/ \A x \in purge.list : x.id # r
  PROVE  PurgeInStep'
<1>1. \A x \in purge.list : rows'[x.id] = rows[x.id]
  BY DEF PurgeInStep, Untouched
<1>2. ASSUME NEW o \in PipeIds, NEW n \in 1..12, StuckAt(o, n)
      PROVE  /\ StuckAt(o, n)' /\ pipes'[o].row = pipes[o].row
             /\ pipes'[o].jobs = pipes[o].jobs /\ pipes'[o].redone = pipes[o].redone
  <2>1. pipes[o].row \in RowIds /\ o \in About(pipes[o].row)
    BY PipesTyped DEF About
  <2>2. pipes[o].row # r
    <3>1. n \in 1..Len(pipes[o].jobs) /\ pipes[o].st[n] \in {"failed", "failed_done"}
      BY <1>2, PipesTyped DEF StuckAt, At
    <3>2. ~Done(o)
      BY <3>1 DEF Done
    <3>3. QED
      BY <2>1, <3>2
  <2>3. Untouched(pipes[o].row)
    BY <2>1, <2>2
  <2>4. StuckAt(o, n)'
    BY <1>2, <2>1, <2>3, StuckKept
  <2>5. pipes'[o] = pipes[o]
    BY <2>1, <2>3 DEF Untouched
  <2>6. QED
    BY <2>4, <2>5
<1>3. QED
  BY <1>1, <1>2, PurgeAfter

LEMMA Begins ==
  ASSUME NEW kind \in Kinds, NEW r, NEW from, NEW x,
         x.ws = "AwaitingProcessing", x.loc = from, x.ignored = FALSE
  PROVE  RowFits(x, kind, r, from, 1)
<1>1. LocOf(kind, r, from, 1) = from
  BY DEF LocOf, Located, Dir, Kinds
<1>2. Ignored(kind, 1) = FALSE
  BY DEF Ignored
<1>3. StepAt(kind, 1) = "AwaitingProcessing"
  BY DEF StepAt, Length
<1>4. QED
  BY <1>1, <1>2, <1>3 DEF RowFits

LEMMA QueueMoveKeeps ==
  ASSUME Inv, NEW c \in Clients, QueueMove(c)
  PROVE  Inv'
<1>1. /\ Typed /\ RowsInStep /\ ClientsInStep /\ PurgeInStep /\ FixerInStep
      /\ q \in [Clients -> Request]
  BY DEF Inv, Typed
<1>2. Busy(c) /\ q[c].pc = "queue"
  BY DEF Busy, QueueMove
<1>3. PICK r \in RowIds : r = q[c].row /\ About(r) = {}
  BY <1>1, <1>2 DEF ClientsInStep, ClientInStep
<1>4. PICK from : from = Upload(rows[r].from) /\ from = q[c].loc
  BY <1>1, <1>2, <1>3 DEF ClientsInStep, ClientInStep
<1>5. PICK kind \in {"review", "derive"} : Queued(kind, r, from)
  <2>1. QueueSFTPIssueMove(r, from) = JobsOf("review", r, from)
    BY DEF JobsOf
  <2>2. QueueMoveIssueForDerivatives(r, from) = JobsOf("derive", r, from)
    BY DEF JobsOf
  <2>3. \E jobs \in {JobsOf("review", r, from), JobsOf("derive", r, from)} :
          pipes' = Append(pipes, QueueSerial(r, FALSE, jobs))
    BY <1>3, <1>4, <2>1, <2>2 DEF QueueMove
  <2>4. QED
    BY <2>3 DEF Queued, Serial
<1>6. UNCHANGED <<world, disk, rows, web, tools>> /\ RowIds' = RowIds
  BY DEF QueueMove, RowIds
<1>7. r \in 1..MaxRows /\ rows[r].from \in Dirs /\ rows[r] \in Row /\ rows \in Seq(Row)
  BY <1>1, RowTyped DEF Typed
<1>8. from \in Paths
  BY <1>4, <1>7 DEF Paths
<1>9. Fresh(r)
  BY <1>1, <1>3 DEF RowsInStep, RowInStep
<1>10. kind \in Kinds /\ FromFits(kind, r, from)
  BY <1>4 DEF Kinds, FromFits
<1>11. RowFits(rows'[r], kind, r, from, 1)
  <2>1. /\ rows'[r].ws = "AwaitingProcessing" /\ rows'[r].loc = from
        /\ rows'[r].ignored = FALSE
    BY <1>4, <1>6, <1>7, <1>9 DEF Fresh, Row
  <2>2. QED
    BY <1>10, <2>1, Begins
<1>12. OnlyAbout(r)
  BY <1>6 DEF OnlyAbout, SameIssue
<1>13. \A place \in Places : disk'[<<place, r>>] = IF <<place, r>> = from THEN Pages ELSE {}
  <2>1. TAKE place \in Places
  <2>2. <<place, r>> # from
    <3>1. \A d : Upload(d) # <<place, r>>
      BY <1>7, PathsDiffer
    <3>2. QED
      BY <1>4, <3>1
  <2>3. QED
    BY <1>6, <1>9, <2>2 DEF Fresh
<1>14. RowsInStep' /\ \A s \in RowIds \ {r} : Untouched(s)
  BY <1>1, <1>3, <1>4, <1>5, <1>6, <1>8, <1>10, <1>11, <1>12, <1>13, QueuedRows
<1>15. /\ pipes' \in Seq(Pipe) /\ PipeIds \subseteq PipeIds'
       /\ \A o \in PipeIds' : /\ pipes'[o].row \in RowIds
                              /\ DOMAIN pipes'[o].st = 1..Len(pipes'[o].jobs)
  BY <1>1, <1>5, <1>6, <1>8, <1>10, Appended
<1>16. q' \in [Clients -> Request] /\ ClientsInStep'
  <2>1. /\ q' \in [Clients -> Request] /\ ClientInStep(c)' /\ ~Busy(c)'
        /\ \A o \in Clients \ {c} : q'[o] = q[o]
    <3>1. CASE q' = Turned(c)
      BY <1>1, <1>6, <3>1, ClientTurns
    <3>2. CASE q' = [q EXCEPT ![c].pc = "remove"]
      <4>1. /\ q'[c] = [q[c] EXCEPT !.pc = "remove"] /\ \A o \in Clients \ {c} : q'[o] = q[o]
            /\ q' = [q EXCEPT ![c] = q'[c]]
        BY <1>1, <3>2
      <4>2. q'[c] \in Request /\ q'[c].pc = "remove"
        BY <1>1, <4>1 DEF Request
      <4>3. QED
        BY <1>1, <4>1, <4>2 DEF ClientInStep, Busy
    <3>3. QED
      BY <3>1, <3>2 DEF QueueMove
  <2>2. \A o \in Clients \ {c} : q[o].pc = "create" => Rows(Up(o).dir)' = {}
    <3>1. \A o \in Clients \ {c} : Up(o)' = Up(o)
      BY <2>1 DEF Up
    <3>2. \A d : Rows(d)' = Rows(d)
      BY <1>6 DEF Rows, SameKey, Of
    <3>3. QED
      BY <1>1, <3>1, <3>2 DEF ClientsInStep, ClientInStep
  <2>3. ASSUME NEW o \in Clients \ {c}, q[o].pc \in {"jobs", "queue"}
        PROVE  About(q[o].row)' = {} <=> About(q[o].row) = {}
    <3>1. Busy(o) /\ q[o].row \in RowIds /\ SameKey(q[o].row, Up(o).dir)
      BY <1>1, <2>3 DEF ClientsInStep, ClientInStep, Busy
    <3>2. SameKey(r, Up(c).dir)
      BY <1>1, <1>2, <1>3 DEF ClientsInStep, ClientInStep
    <3>3. Up(o).dir \in Dirs /\ Up(o).dir \notin SameKeys(Up(c).dir)
      BY <1>1, <1>2, <3>1, UpInHand DEF ClientsInStep, Apart
    <3>4. q[o].row # r
      <4>1. \/ Of(Up(o).dir).title # Of(Up(c).dir).title
            \/ Of(Up(o).dir).parts # Of(Up(c).dir).parts
        BY <3>3 DEF SameKeys
      <4>2. QED
        BY <3>1, <3>2, <4>1 DEF SameKey
    <3>5. QED
      BY <1>14, <2>1, <3>1, <3>4 DEF Untouched
  <2>4. \A s \in RowIds : SameIssue(rows[s], rows'[s])
    BY <1>6 DEF SameIssue
  <2>5. QED
    BY <1>1, <1>6, <2>1, <2>2, <2>3, <2>4, OneClient
<1>17. Typed'
  BY <1>1, <1>6, <1>7, <1>15, <1>16 DEF Typed, tools, SameKey, Of, Clients
<1>18. PurgeInStep'
  BY <1>1, <1>3, <1>6, <1>14, <1>15, QueuedPurge DEF tools
<1>19. FixerInStep'
  <2>1. ASSUME fixer.pc # "idle"
        PROVE  Untouched(fixer.row)
    <3>1. fixer.row \in RowIds /\ About(fixer.row) # {}
      BY <1>1, <2>1 DEF FixerInStep, InReview
    <3>2. QED
      BY <1>3, <1>14, <3>1
  <2>2. QED
    BY <1>1, <1>6, <2>1, FixerAfter DEF tools
<1>20. QED
  BY <1>14, <1>16, <1>17, <1>18, <1>19 DEF Inv

LEMMA RemoveIssueKeeps ==
  ASSUME Inv, NEW c \in Clients, RemoveIssue(c)
  PROVE  Inv'
<1>1. Typed /\ ClientsInStep
  BY DEF Inv
<1>2. UNCHANGED <<world, disk, rows, pipes, tools>> /\ q' = Turned(c)
  BY DEF RemoveIssue
<1>3. web' \in Web
  BY <1>1 DEF RemoveIssue, Typed, Web, SameKeys
<1>4. QED
  BY <1>1, <1>2, <1>3, ClientTurns, OneReads, QuietClient

(* What an issue in review is like.                                         *)
LEMMA ReviewIs ==
  ASSUME Typed, NEW r \in RowIds, InReview(r)
  PROVE  /\ rows[r].loc = <<"review", r>> /\ rows[r].ignored = FALSE
         /\ disk[Upload(rows[r].from)] = {}
         /\ \A place \in Places : disk[<<place, r>>] = IF place = "review" THEN Pages ELSE {}
         /\ \A o \in About(r) : Done(o) /\ ~pipes[o].removal
         /\ \E o \in About(r) : Took(o)
<1>1. PICK p \in About(r) : Stands(p, "review", Upload(rows[r].from), 12)
  BY DEF InReview
<1>2. p \in PipeIds /\ pipes[p].row = r /\ r \in 1..MaxRows
  BY <1>1, RowTyped DEF About
<1>3. PICK from : from = Upload(rows[r].from)
  OBVIOUS
<1>4. /\ RowFits(rows[r], "review", r, from, 12)
      /\ FilesAt(r, Dir(Home("review", 12), r, from), Dir(Drain("review", 12), r, from))
      /\ About(r) = {p} /\ disk[from] = {} /\ ~pipes[p].removal
      /\ pipes[p].jobs = JobsOf("review", r, from)
  BY <1>1, <1>2, <1>3 DEF Stands
<1>5. rows[r].loc = <<"review", r>> /\ rows[r].ignored = FALSE
  BY <1>4 DEF RowFits, LocOf, Located, Dir, Ignored
<1>6. \A place \in Places : disk[<<place, r>>] = IF place = "review" THEN Pages ELSE {}
  <2>1. Dir(Home("review", 12), r, from) = <<"review", r>> /\ Dir(Drain("review", 12), r, from) = <<"none", r>>
    BY DEF Dir, Home, Drain
  <2>2. \A place \in Places : place # "none"
    BY DEF Places
  <2>3. QED
    BY <1>4, <2>1, <2>2 DEF FilesAt
<1>7. \A o \in About(r) : Done(o)
  BY ReviewDone
<1>8. Took(p)
  <2>1. pipes[p].jobs = JobsOf("review", r, from)
    BY <1>4
  <2>2. Len(pipes[p].jobs) = 11
    BY <2>1, PlanLength DEF Kinds, Length
  <2>3. Done(p) /\ ~pipes[p].removal
    BY <1>4, <1>7
  <2>4. 2 \in 1..11
    OBVIOUS
  <2>5. QED
    BY <2>2, <2>3, <2>4 DEF Took, Done
<1>9. QED
  BY <1>3, <1>4, <1>5, <1>6, <1>7, <1>8

(* A pipeline is queued about an issue that was in review.                  *)
LEMMA ReviewQueued ==
  ASSUME Inv, NEW r \in RowIds, InReview(r), NEW kind \in Kinds, NEW place \in Places,
         Queued(kind, r, <<place, r>>), FromFits(kind, r, <<place, r>>), OnlyAbout(r),
         \A d \in Dirs : disk'[Upload(d)] = disk[Upload(d)],
         rows' \in Seq(Row), disk' \in [Paths -> SUBSET Pages],
         rows'[r].ws = "AwaitingProcessing", rows'[r].loc = <<place, r>>,
         rows'[r].ignored = FALSE,
         \A other \in Places : disk'[<<other, r>>] = IF other = place THEN Pages ELSE {},
         rows'[r] = rows[r] \/ \A x \in purge.list : x.id # r,
         UNCHANGED <<world, q, web, purge>>,
         fixer' = NotFixing \/ (fixer' = fixer /\ fixer.row # r)
  PROVE  Inv'
<1>1. /\ Typed /\ RowsInStep /\ ClientsInStep /\ PurgeInStep /\ FixerInStep
      /\ r \in 1..MaxRows /\ rows[r].from \in Dirs
  BY RowTyped DEF Inv
<1>2. PICK from : from = <<place, r>>
  OBVIOUS
<1>3. from \in Paths /\ \A d : Upload(d) # from
  BY <1>1, <1>2, PathsDiffer
<1>4. /\ disk[Upload(rows[r].from)] = {}
      /\ \A o \in About(r) : Done(o) /\ ~pipes[o].removal
      /\ \E o \in About(r) : Took(o)
  BY <1>1, ReviewIs
<1>5. RowFits(rows'[r], kind, r, from, 1)
  BY <1>2, Begins
<1>6. \A other \in Places : disk'[<<other, r>>] = IF <<other, r>> = from THEN Pages ELSE {}
  <2>1. \A other \in Places : <<other, r>> = <<place, r>> <=> other = place
    OBVIOUS
  <2>2. QED
    BY <1>2, <2>1
<1>7. Queued(kind, r, from) /\ FromFits(kind, r, from) /\ from # Upload(rows[r].from)
  BY <1>2, <1>3
<1>8. RowsInStep' /\ \A s \in RowIds \ {r} : Untouched(s)
  BY <1>1, <1>3, <1>4, <1>5, <1>6, <1>7, QueuedRows
<1>9. RowIds' = RowIds
  BY DEF OnlyAbout
<1>10. /\ pipes' \in Seq(Pipe) /\ PipeIds \subseteq PipeIds'
       /\ \A o \in PipeIds' : /\ pipes'[o].row \in RowIds
                              /\ DOMAIN pipes'[o].st = 1..Len(pipes'[o].jobs)
       /\ About(r)' # {}
  BY <1>1, <1>3, <1>7, <1>9, Appended
<1>11. \A s \in RowIds : SameIssue(rows[s], rows'[s]) /\ (rows[s].ignored => rows'[s].ignored)
  BY DEF OnlyAbout, SameIssue
<1>12. ClientsInStep'
  <2>1. \A s \in RowIds : About(s)' = {} <=> About(s) = {}
    BY <1>4, <1>8, <1>10 DEF Untouched
  <2>2. \A d : Rows(d) = {} => Rows(d)' = {}
    BY <1>9, <1>11, RowsNotFound
  <2>3. QED
    BY <1>1, <1>9, <1>11, <2>1, <2>2, ClientsAfter DEF SameIssue
<1>13. PurgeInStep'
  BY <1>1, <1>4, <1>8, <1>9, <1>10, QueuedPurge
<1>14. FixerInStep'
  <2>1. CASE fixer' = NotFixing
    BY <2>1 DEF FixerInStep, NotFixing
  <2>2. CASE fixer' = fixer /\ fixer.row # r
    BY <1>1, <1>8, <1>9, <2>2, FixerAfter DEF FixerInStep
  <2>3. QED
    BY <2>1, <2>2
<1>15. Typed'
  <2>1. fixer' \in [pc : {"idle", "loaded", "prepared"}, row : Nat, loc : Paths]
    BY <1>1 DEF Typed, NotFixing, Paths
  <2>2. q' \in [Clients -> Request] /\ purge' = purge /\ world' = world /\ web' = web
    BY <1>1 DEF Typed
  <2>3. purge' \in [pc : {"idle", "look"}, list : SUBSET [id : Nat, row : Row],
                    look : SUBSET Nat, cancel : SUBSET Loadable]
    BY <1>1, <2>2 DEF Typed
  <2>4. QED
    BY <1>1, <1>9, <1>10, <1>11, <2>1, <2>2, <2>3, TypedGrow
<1>16. QED
  BY <1>8, <1>12, <1>13, <1>14, <1>15 DEF Inv

LEMMA QueueRemoveKeeps ==
  ASSUME Inv, QueueRemoveErroredIssue
  PROVE  Inv'
<1>1. Typed /\ FixerInStep /\ fixer.pc = "prepared" /\ fixer' = NotFixing
  BY DEF Inv, QueueRemoveErroredIssue
<1>2. PICK r \in RowIds : /\ r = fixer.row /\ InReview(r) /\ fixer.loc = rows[r].loc
                          /\ rows[r].ws = "AwaitingProcessing"
  BY <1>1 DEF FixerInStep
<1>3. /\ rows[r].loc = <<"review", r>> /\ rows[r].ignored = FALSE
      /\ \A place \in Places : disk[<<place, r>>] = IF place = "review" THEN Pages ELSE {}
  BY <1>1, <1>2, ReviewIs
<1>4. Queued("remove", r, <<"review", r>>)
  <2>1. fixer.loc = <<"review", r>>
    BY <1>2, <1>3
  <2>2. pipes' = Append(pipes, QueueSerial(r, TRUE, GetJobsForRemoveErroredIssue(r, <<"review", r>>)))
    BY <1>2, <2>1 DEF QueueRemoveErroredIssue
  <2>3. Serial("remove", r, <<"review", r>>)
          = QueueSerial(r, TRUE, GetJobsForRemoveErroredIssue(r, <<"review", r>>))
    BY DEF Serial, JobsOf
  <2>4. QED
    BY <2>2, <2>3 DEF Queued
<1>5. UNCHANGED <<world, disk, rows, q, web, purge>>
  BY DEF QueueRemoveErroredIssue
<1>6. OnlyAbout(r)
  BY <1>5 DEF OnlyAbout, SameIssue, RowIds
<1>7. "remove" \in Kinds /\ "review" \in Places /\ FromFits("remove", r, <<"review", r>>)
  BY DEF Kinds, Places, FromFits
<1>8. rows' \in Seq(Row) /\ disk' \in [Paths -> SUBSET Pages]
  BY <1>1, <1>5 DEF Typed
<1>9. QED
  BY <1>1, <1>2, <1>3, <1>4, <1>5, <1>6, <1>7, <1>8, ReviewQueued

LEMMA QueueDerivativesKeeps ==
  ASSUME Inv, Undisturbed, NEW r \in RowIds, QueueIssueForDerivatives(r)
  PROVE  Inv'
<1>1. Typed /\ RowsInStep /\ r \in 1..MaxRows /\ rows[r] \in Row
  BY RowTyped DEF Inv
<1>2. InReview(r)
  BY <1>1, ReviewStands DEF QueueIssueForDerivatives
<1>3. /\ rows[r].loc = <<"review", r>> /\ rows[r].ignored = FALSE
      /\ \A place \in Places : disk[<<place, r>>] = IF place = "review" THEN Pages ELSE {}
  BY <1>1, <1>2, ReviewIs
<1>4. PICK here, there : here = <<"review", r>> /\ there = <<"no-touchie", r>>
  OBVIOUS
<1>5. /\ disk' = [disk EXCEPT ![there] = disk[here], ![here] = {}]
      /\ rows' = [rows EXCEPT ![r].loc = there, ![r].ws = "AwaitingProcessing"]
      /\ UNCHANGED <<world, q, web, purge, fixer>> /\ ~Held(r)
  BY <1>3, <1>4 DEF QueueIssueForDerivatives, tools
<1>6. Queued("derive", r, <<"no-touchie", r>>)
  BY DEF QueueIssueForDerivatives, Queued, Serial, JobsOf
<1>7. /\ "derive" \in Kinds /\ "no-touchie" \in Places /\ "review" \in Places
      /\ FromFits("derive", r, <<"no-touchie", r>>)
  BY DEF Kinds, Places, FromFits
<1>8. /\ here \in Paths /\ there \in Paths /\ here # there
      /\ \A d : Upload(d) # here /\ Upload(d) # there
  BY <1>1, <1>4, <1>7, PathsDiffer
<1>9. PICK x : x = [rows[r] EXCEPT !.loc = there, !.ws = "AwaitingProcessing"]
  OBVIOUS
<1>10. /\ x \in Row /\ SameIssue(rows[r], x) /\ x.ignored = FALSE
       /\ x.ws = "AwaitingProcessing" /\ x.loc = there
  BY <1>1, <1>3, <1>8, <1>9 DEF Row, SameIssue, Steps
<1>11. rows \in Seq(Row) /\ r \in 1..Len(rows) /\ rows' = [rows EXCEPT ![r] = x]
  BY <1>1, <1>5, <1>9 DEF Typed, RowIds
<1>12. /\ rows' \in Seq(Row) /\ RowIds' = RowIds /\ rows'[r] = x
       /\ \A s \in RowIds \ {r} : rows'[s] = rows[s]
  BY <1>10, <1>11, ExceptSeq DEF RowIds
<1>13. /\ disk \in [Paths -> SUBSET Pages] /\ disk' \in [Paths -> SUBSET Pages]
       /\ disk'[there] = Pages /\ disk'[here] = {}
       /\ \A path \in Paths \ {here, there} : disk'[path] = disk[path]
  <2>1. disk \in [Paths -> SUBSET Pages] /\ disk[here] = Pages
    BY <1>1, <1>3, <1>4, <1>7 DEF Typed
  <2>2. QED
    BY <1>5, <1>8, <2>1
<1>14. \A d \in Dirs : disk'[Upload(d)] = disk[Upload(d)]
  BY <1>8, <1>13 DEF Paths
<1>15. \A other \in Places : disk'[<<other, r>>] = IF other = "no-touchie" THEN Pages ELSE {}
  <2>1. TAKE other \in Places
  <2>2. <<other, r>> \in Paths
    BY <1>1, PathsDiffer
  <2>3. /\ <<other, r>> = here <=> other = "review"
        /\ <<other, r>> = there <=> other = "no-touchie"
    BY <1>4
  <2>4. QED
    BY <1>3, <1>13, <2>2, <2>3
<1>16. OnlyAbout(r)
  <2>1. ASSUME NEW s \in (1..MaxRows) \ {r}, NEW place \in Places
        PROVE  disk'[<<place, s>>] = disk[<<place, s>>]
    <3>1. <<place, s>> \in Paths /\ <<place, s>> # here /\ <<place, s>> # there
      BY <1>4, PathsDiffer
    <3>2. QED
      BY <1>13, <3>1
  <2>2. SameIssue(rows[r], rows'[r]) /\ (rows[r].ignored => rows'[r].ignored)
    BY <1>3, <1>10, <1>12
  <2>3. QED
    BY <1>12, <1>14, <2>1, <2>2 DEF OnlyAbout
<1>17. (\A y \in purge.list : y.id # r) /\ fixer.row # r
  BY <1>5 DEF Held
<1>18. /\ rows'[r].ws = "AwaitingProcessing" /\ rows'[r].loc = <<"no-touchie", r>>
       /\ rows'[r].ignored = FALSE
  BY <1>4, <1>10, <1>12
<1>19. QED
  BY <1>2, <1>5, <1>6, <1>7, <1>12, <1>13, <1>14, <1>15, <1>16, <1>17, <1>18, ReviewQueued

(* Taking an issue out of review changes nothing but its step.              *)
LEMMA PrepKeeps ==
  ASSUME Inv, PrepForRemoval
  PROVE  Inv'
<1>1. /\ Typed /\ RowsInStep /\ ClientsInStep /\ PurgeInStep /\ FixerInStep
      /\ fixer.pc = "loaded" /\ UNCHANGED <<world, disk, pipes, q, web, purge>>
      /\ fixer' = [fixer EXCEPT !.pc = "prepared"]
  BY DEF Inv, PrepForRemoval
<1>2. PICK r \in RowIds : /\ r = fixer.row /\ InReview(r) /\ fixer.loc = rows[r].loc
                          /\ rows[r].ws = "AwaitingPageReview"
  BY <1>1 DEF FixerInStep
<1>3. rows[r].loc = <<"review", r>> /\ rows[r].ignored = FALSE
  BY <1>1, <1>2, ReviewIs
<1>4. PICK p \in About(r) : Stands(p, "review", Upload(rows[r].from), 12)
  BY <1>2 DEF InReview
<1>5. p \in PipeIds /\ pipes[p].row = r /\ rows[r] \in Row
  BY <1>1, <1>4, RowTyped DEF About
<1>6. PICK x : x = [rows[r] EXCEPT !.ws = "AwaitingProcessing"]
  OBVIOUS
<1>7. /\ x \in Row /\ SameIssue(rows[r], x) /\ x.ignored = rows[r].ignored
      /\ x.ws = "AwaitingProcessing" /\ x.loc = rows[r].loc
  BY <1>5, <1>6 DEF Row, SameIssue, Steps
<1>8. rows \in Seq(Row) /\ r \in 1..Len(rows) /\ rows' = [rows EXCEPT ![r] = x]
  <2>1. rows' = [rows EXCEPT ![r].ws = "AwaitingProcessing", ![r].loc = rows[r].loc]
    BY <1>2 DEF PrepForRemoval
  <2>2. rows \in Seq(Row) /\ r \in 1..Len(rows)
    BY <1>1 DEF Typed, RowIds
  <2>3. [rows[r] EXCEPT !.ws = "AwaitingProcessing", !.loc = rows[r].loc] = x
    BY <1>5, <1>6 DEF Row
  <2>4. QED
    BY <2>1, <2>2, <2>3
<1>9. /\ rows' \in Seq(Row) /\ RowIds' = RowIds /\ rows'[r] = x
      /\ \A s \in RowIds \ {r} : rows'[s] = rows[s]
  BY <1>7, <1>8, ExceptSeq DEF RowIds
<1>10. OnlyAbout(r)
  BY <1>1, <1>7, <1>9 DEF OnlyAbout
<1>11. /\ PipeIds' = PipeIds /\ \A s : About(s)' = About(s)
  BY <1>1 DEF PipeIds, About
<1>12. PICK from : from = Upload(rows[r].from)
  OBVIOUS
<1>13. Stands(p, "review", from, 12)' /\ RowInStep(r)'
  <2>1. Stands(p, "review", from, 12) /\ Restated(p) /\ OnlyAbout(pipes[p].row)
    BY <1>1, <1>4, <1>5, <1>10, <1>12, SameRestated
  <2>2. RowFits(x, "review", r, from, 12)
    <3>1. RowFits(rows[r], "review", r, from, 12)
      BY <1>5, <2>1 DEF Stands
    <3>2. QED
      BY <1>7, <3>1 DEF RowFits
  <2>3. At(p, 12)'
    BY <1>1, <2>1 DEF Stands, At
  <2>4. FilesAt(r, Dir(Home("review", 12), r, from), Dir(Drain("review", 12), r, from))'
    BY <1>1, <1>5, <2>1 DEF Stands, FilesAt
  <2>5. disk'[from] = {}
    BY <1>1, <1>5, <1>12, <2>1 DEF Stands
  <2>6. 12 \in 1..Length("review") + 1 /\ 12 >= 12
    BY DEF Length
  <2>7. RowFits(rows'[pipes[p].row], "review", pipes[p].row, from, 12)
    BY <1>5, <1>9, <2>2
  <2>8. FilesAt(pipes[p].row, Dir(Home("review", 12), pipes[p].row, from),
                Dir(Drain("review", 12), pipes[p].row, from))'
    BY <1>1, <1>5, <2>4
  <2>9. Stands(p, "review", from, 12)' /\ RowInStep(pipes[p].row)'
    BY <1>1, <1>5, <2>1, <2>3, <2>5, <2>6, <2>7, <2>8, StandsAfter
  <2>10. pipes'[p].row = r
    BY <1>1, <1>5
  <2>11. QED
    BY <2>9, <2>10
<1>14. \A s \in RowIds : /\ SameIssue(rows[s], rows'[s]) /\ rows'[s].from = rows[s].from
                         /\ (rows[s].ignored => rows'[s].ignored)
  BY <1>10 DEF OnlyAbout, SameIssue
<1>15. RowsInStep'
  <2>1. \A o : Took(o)' = Took(o)
    BY <1>1 DEF Took
  <2>2. \A s : Taken(s)' = Taken(s)
    BY <1>11, <2>1 DEF Taken
  <2>3. UploadsKept' /\ TakenOnce'
    BY <1>1, <1>9, <1>14, <2>2 DEF RowsInStep, UploadsKept, TakenOnce
  <2>4. Restated(p) /\ OnlyAbout(pipes[p].row) /\ RowInStep(pipes[p].row)'
    <3>1. pipes'[p].row = r
      BY <1>1, <1>5
    <3>2. QED
      BY <1>1, <1>5, <1>10, <1>13, <3>1, SameRestated
  <2>5. QED
    BY <1>1, <1>5, <2>3, <2>4, RowsAfter
<1>16. ClientsInStep'
  <2>1. \A d : Rows(d) = {} => Rows(d)' = {}
    BY <1>1, <1>9, <1>14, RowsNotFound
  <2>2. QED
    BY <1>1, <1>9, <1>11, <1>14, <2>1, ClientsAfter
<1>17. PurgeInStep'
  <2>1. \A y \in purge.list : rows'[y.id] = rows[y.id]
    BY <1>1, <1>2, <1>9 DEF PurgeInStep
  <2>2. ASSUME NEW o \in PipeIds, NEW n \in 1..12, StuckAt(o, n)
        PROVE  StuckAt(o, n)'
    <3>1. At(o, n)'
      BY <1>1, <2>2 DEF StuckAt, At
    <3>2. Last(o)'
      BY <1>1, <1>11, <2>2 DEF StuckAt, Last, Over
    <3>3. QED
      BY <1>1, <2>2, <3>1, <3>2 DEF StuckAt
  <2>3. QED
    BY <1>1, <1>9, <1>11, <2>1, <2>2, PurgeAfter
<1>18. FixerInStep'
  <2>1. /\ fixer'.pc = "prepared" /\ fixer'.row = r /\ fixer'.loc = rows[r].loc
    BY <1>1, <1>2 DEF Typed
  <2>2. InReview(r)'
    <3>1. rows'[r].from = rows[r].from
      BY <1>14
    <3>2. QED
      BY <1>4, <1>11, <1>12, <1>13, <3>1 DEF InReview
  <2>3. \A y : y = r => InReview(y)'
    BY <2>2
  <2>4. rows'[r].loc = rows[r].loc /\ rows'[r].ws = "AwaitingProcessing"
    BY <1>7, <1>9
  <2>5. QED
    BY <1>9, <2>1, <2>3, <2>4 DEF FixerInStep
<1>19. Typed'
  <2>1. fixer' \in [pc : {"idle", "loaded", "prepared"}, row : Nat, loc : Paths]
    BY <1>1 DEF Typed
  <2>2. q' \in [Clients -> Request] /\ disk' \in [Paths -> SUBSET Pages] /\ pipes' \in Seq(Pipe)
    BY <1>1 DEF Typed
  <2>3. \A o \in PipeIds' : /\ pipes'[o].row \in RowIds
                            /\ DOMAIN pipes'[o].st = 1..Len(pipes'[o].jobs)
    BY <1>1, <1>11 DEF Typed
  <2>4. purge' \in [pc : {"idle", "look"}, list : SUBSET [id : Nat, row : Row],
                    look : SUBSET Nat, cancel : SUBSET Loadable]
    BY <1>1 DEF Typed
  <2>5. QED
    BY <1>1, <1>9, <1>14, <2>1, <2>2, <2>3, <2>4, TypedGrow
<1>20. QED
  BY <1>15, <1>16, <1>17, <1>18, <1>19 DEF Inv

----------------------------------------------------------------------------
(* Issues are purged *)

LEMMA WorkIsSixth ==
  ASSUME NEW kind \in {"review", "derive"}, NEW n \in 1..Length(kind), NEW r, NEW from,
         JobsOf(kind, r, from)[n].type = "work"
  PROVE  n = 6
<1>1. \A a, b : /\ Sync(a, b).type = "sync" /\ Rename(a, b).type = "rename"
                /\ Kill(a).type = "kill" /\ OnRow(a, b).type = a
  BY DEF Sync, Kill, OnRow, Rename
<1>2. CASE kind = "review"
  <2> DEFINE J == JobsOf("review", r, from)
  <2>1. n \in {1, 2, 3, 4, 5, 6, 7, 8, 9, 10, 11} /\ J[n].type = "work"
    BY <1>2 DEF Length
  <2>2. /\ J[1] = OnRow("set-step", "AwaitingProcessing") /\ J[2] = Sync(from, <<"wip", r>>)
        /\ J[3] = Kill(from) /\ J[4] = Rename(<<"wip", r>>, <<"workflow", r>>)
        /\ J[5] = OnRow("locate", <<"workflow", r>>)
        /\ J[7] = Sync(<<"workflow", r>>, <<"review-wip", r>>) /\ J[8] = Kill(<<"workflow", r>>)
        /\ J[9] = Rename(<<"review-wip", r>>, <<"review", r>>)
        /\ J[10] = OnRow("locate", <<"review", r>>)
        /\ J[11] = OnRow("set-step", "AwaitingPageReview")
    BY ReviewJobs
  <2> HIDE DEF J
  <2>3. /\ J[1].type # "work" /\ J[2].type # "work" /\ J[3].type # "work" /\ J[4].type # "work"
        /\ J[5].type # "work" /\ J[7].type # "work" /\ J[8].type # "work" /\ J[9].type # "work"
        /\ J[10].type # "work" /\ J[11].type # "work"
    BY <1>1, <2>2
  <2>4. QED
    BY <2>1, <2>3
<1>3. CASE kind = "derive"
  <2> DEFINE J == JobsOf("derive", r, from)
  <2>1. n \in {1, 2, 3, 4, 5, 6, 7} /\ J[n].type = "work"
    BY <1>3 DEF Length
  <2>2. /\ J[1] = OnRow("set-step", "AwaitingProcessing") /\ J[2] = Sync(from, <<"wip", r>>)
        /\ J[3] = Kill(from) /\ J[4] = Rename(<<"wip", r>>, <<"workflow", r>>)
        /\ J[5] = OnRow("locate", <<"workflow", r>>)
        /\ J[7] = OnRow("set-step", "ReadyForMetadataEntry")
    BY DeriveJobs
  <2> HIDE DEF J
  <2>3. /\ J[1].type # "work" /\ J[2].type # "work" /\ J[3].type # "work" /\ J[4].type # "work"
        /\ J[5].type # "work" /\ J[7].type # "work"
    BY <1>1, <2>2
  <2>4. QED
    BY <2>1, <2>3
<1>4. QED
  BY <1>2, <1>3

(* Only pipelines that take an issue in get stuck, at the work in between.  *)
LEMMA StuckStands ==
  ASSUME Typed, RowsInStep, NEW p \in PipeIds, NEW n, StuckAt(p, n)
  PROVE  /\ n = 6 /\ pipes[p].st[6] \in {"failed", "failed_done"} /\ ~pipes[p].removal
         /\ \A m \in 1..5 : pipes[p].st[m] = "success"
         /\ \A m \in 7..Len(pipes[p].jobs) : pipes[p].st[m] \in {"on_hold", "failed_done"}
         /\ 6 \in 1..Len(pipes[p].jobs)
         /\ \A o \in About(pipes[p].row) \ {p} : Done(o) /\ ~pipes[o].removal /\ o < p
         /\ \E kind \in {"review", "derive"}, from \in Froms(pipes[p].row) : Stands(p, kind, from, 6)
<1>1. PICK r \in RowIds : r = pipes[p].row
  BY PipesTyped
<1>2. p \in About(r)
  BY <1>1 DEF About
<1>3. PICK o \in About(r) : InStep(o)
  BY <1>2 DEF RowsInStep, RowInStep
<1>4. o \in PipeIds /\ pipes[o].row = r /\ o \in Nat /\ p \in Nat
  BY <1>3, PipesTyped DEF About
<1>5. PICK kind \in Kinds, from \in Froms(r), m \in 1..12 : Stands(o, kind, from, m)
  BY <1>3, <1>4 DEF InStep
<1>6. o = p
  <2>1. Last(o) /\ Last(p)
    BY <1>5 DEF Stands, StuckAt
  <2>2. o # p => o < p /\ p < o
    BY <1>1, <1>2, <1>3, <1>4, <2>1 DEF Last
  <2>3. QED
    BY <1>4, <2>2
<1>7. Stands(p, kind, from, m)
  BY <1>5, <1>6
<1>8. /\ pipes[p].jobs = JobsOf(kind, r, from) /\ At(p, m) /\ At(p, n)
      /\ pipes[p].jobs[n].type = "work" /\ pipes[p].st[n] \in {"failed", "failed_done"}
      /\ n \in 1..Len(pipes[p].jobs) /\ ~pipes[p].removal
  <2>1. pipes[p].jobs = JobsOf(kind, r, from) /\ At(p, m)
    BY <1>1, <1>7 DEF Stands
  <2>2. /\ At(p, n) /\ n <= Len(pipes[p].jobs) /\ pipes[p].jobs[n].type = "work"
        /\ pipes[p].st[n] # "pending" /\ ~pipes[p].removal
    BY DEF StuckAt
  <2>3. n \in 1..Len(pipes[p].jobs) + 1 /\ pipes[p].st[n] \in {"failed", "failed_done"}
    BY <2>2 DEF At
  <2>4. n \in 1..Len(pipes[p].jobs)
    BY <2>2, <2>3
  <2>5. QED
    BY <2>1, <2>2, <2>3, <2>4
<1>9. m = n
  BY <1>8, PipesTyped DEF At
<1>10. kind # "remove" /\ kind \in {"review", "derive"}
  BY <1>7, <1>8 DEF Stands, Kinds
<1>11. Len(pipes[p].jobs) = Length(kind)
  BY <1>8, PlanLength
<1>12. n = 6
  <2>1. n \in 1..Length(kind) /\ JobsOf(kind, r, from)[n].type = "work"
    BY <1>8, <1>11
  <2>2. QED
    BY <1>10, <2>1, WorkIsSixth
<1>13. \A e \in About(r) \ {p} : Done(e) /\ ~pipes[e].removal /\ e < p
  BY <1>1, <1>7, <1>10 DEF Stands, Last
<1>14. /\ \A k \in 1..5 : pipes[p].st[k] = "success"
       /\ \A k \in 7..Len(pipes[p].jobs) : pipes[p].st[k] \in {"on_hold", "failed_done"}
  BY <1>8, <1>12 DEF At
<1>15. QED
  BY <1>1, <1>7, <1>8, <1>9, <1>10, <1>12, <1>13, <1>14

(* What becomes of a pipeline some of whose jobs are canceled.              *)
Kept(p) ==
  [pipes[p] EXCEPT !.st = [n \in DOMAIN pipes[p].st |->
     IF Canceled(p, n) THEN "failed_done" ELSE pipes[p].st[n]]]

LEMMA KeptIs ==
  ASSUME Typed, NEW p \in PipeIds
  PROVE  /\ Kept(p) \in Pipe /\ Kept(p).row = pipes[p].row /\ Kept(p).removal = pipes[p].removal
         /\ Kept(p).jobs = pipes[p].jobs /\ DOMAIN Kept(p).st = 1..Len(pipes[p].jobs)
         /\ \A m \in 1..Len(pipes[p].jobs) :
              Kept(p).st[m] = IF Canceled(p, m) THEN "failed_done" ELSE pipes[p].st[m]
         /\ (\A m : ~Canceled(p, m)) => Kept(p) = pipes[p]
<1>1. PICK x, st : /\ x = pipes[p]
                   /\ st = [n \in 1..Len(x.jobs) |-> IF Canceled(p, n) THEN "failed_done" ELSE x.st[n]]
  OBVIOUS
<1>2. /\ x \in Pipe /\ Len(x.jobs) \in {7, 11} /\ DOMAIN x.st = 1..Len(x.jobs)
      /\ x.st \in [1..Len(x.jobs) -> Statuses]
      /\ \A n \in 1..Len(x.jobs) : x.st[n] \in Statuses
  BY <1>1, PipesTyped
<1>3. Kept(p) = [x EXCEPT !.st = st]
  BY <1>1, <1>2 DEF Kept
<1>4. st \in [1..Len(x.jobs) -> Statuses]
  <2>1. \A n \in 1..Len(x.jobs) : st[n] \in Statuses
    BY <1>1, <1>2 DEF Statuses
  <2>2. QED
    BY <1>1, <2>1
<1>5. /\ DOMAIN st = 1..Len(x.jobs)
      /\ \A m \in 1..Len(x.jobs) : st[m] = IF Canceled(p, m) THEN "failed_done" ELSE x.st[m]
  BY <1>1
<1>6. ASSUME \A m : ~Canceled(p, m)
      PROVE  st = x.st
  <2>1. st = [n \in 1..Len(x.jobs) |-> x.st[n]]
    BY <1>1, <1>6
  <2>2. x.st = [n \in 1..Len(x.jobs) |-> x.st[n]]
    BY <1>2
  <2>3. QED
    BY <2>1, <2>2
<1>7. [x EXCEPT !.st = x.st] = x
  BY <1>2 DEF Pipe
<1>8. /\ [x EXCEPT !.st = st] \in Pipe /\ [x EXCEPT !.st = st].st = st
      /\ [x EXCEPT !.st = st].row = x.row /\ [x EXCEPT !.st = st].removal = x.removal
      /\ [x EXCEPT !.st = st].jobs = x.jobs
  BY <1>2, <1>4 DEF Pipe
<1>9. (\A m : ~Canceled(p, m)) => Kept(p) = pipes[p]
  BY <1>1, <1>3, <1>6, <1>7
<1>10. QED
  BY <1>1, <1>3, <1>5, <1>8, <1>9

(* Only what was loaded as stuck is canceled.                               *)
LEMMA CanceledStuck ==
  ASSUME Typed, RowsInStep, PurgeInStep, NEW p \in PipeIds
  PROVE  \/ \A m : ~Canceled(p, m)
         \/ /\ StuckAt(p, 6) /\ Canceled(p, 6) /\ \A m \in 1..5 : ~Canceled(p, m)
            /\ \E x \in purge.list : x.id = pipes[p].row
<1>1. SUFFICES ASSUME NEW m, Canceled(p, m)
               PROVE  /\ StuckAt(p, 6) /\ Canceled(p, 6) /\ \A k \in 1..5 : ~Canceled(p, k)
                      /\ \E x \in purge.list : x.id = pipes[p].row
  OBVIOUS
<1>2. PICK j \in purge.cancel : j.pipe = p
  BY <1>1 DEF Canceled
<1>3. \A i \in purge.cancel : i.pipe = p =>
        /\ \E x \in purge.list : x.id = pipes[p].row
        /\ StuckAt(p, 6) /\ i.n \in 6..Len(pipes[p].jobs) /\ i.redone = pipes[p].redone
        /\ \E k \in purge.cancel : k.pipe = p /\ k.n = 6
  <2>1. TAKE i \in purge.cancel
  <2>2. HAVE i.pipe = p
  <2>0. /\ \E x \in purge.list : x.id = i.row
        /\ pipes[i.pipe].row = i.row /\ i.redone = pipes[i.pipe].redone
        /\ \E n \in 1..12 : /\ StuckAt(i.pipe, n) /\ i.n \in n..Len(pipes[i.pipe].jobs)
                            /\ \E k \in purge.cancel : k.pipe = i.pipe /\ k.n = n
    BY Zenon DEF PurgeInStep
  <2>3. pipes[p].row = i.row /\ i.redone = pipes[p].redone /\ \E x \in purge.list : x.id = i.row
    BY <2>2, <2>0
  <2>4. PICK n \in 1..12 : /\ StuckAt(p, n) /\ i.n \in n..Len(pipes[p].jobs)
                           /\ \E k \in purge.cancel : k.pipe = p /\ k.n = n
    BY <2>2, <2>0, Zenon
  <2>5. n = 6
    BY <2>4, StuckStands
  <2>6. QED
    BY <2>3, <2>4, <2>5
<1>4. Canceled(p, 6)
  BY <1>2, <1>3 DEF Canceled
<1>5. \A k \in 1..5 : ~Canceled(p, k)
  BY <1>3 DEF Canceled
<1>6. QED
  BY <1>2, <1>3, <1>4, <1>5

(* The pipelines after a purge: for each of the issues ids, one that takes it
   out of the workflow.                                                     *)
Appends(N, ids) ==
  pipes' = [p \in PipeIds |-> Kept(p)] \o
           [m \in 1..N |-> Serial("remove", ids[m], rows[ids[m]].loc)]

LEMMA Lengths ==
  ASSUME Typed
  PROVE  Len(rows) \in Nat /\ Len(pipes) \in Nat
<1>1. rows \in Seq(Row) /\ pipes \in Seq(Pipe)
  BY DEF Typed
<1>2. QED
  BY <1>1

LEMMA PurgedFinite ==
  ASSUME Typed, PurgeInStep, NEW S \in SUBSET purge.list
  PROVE  IsFiniteSet(S)
<1>1. \A x \in purge.list : /\ x.id \in RowIds /\ x = [id |-> x.id, row |-> rows[x.id]]
  BY DEF PurgeInStep, Typed
<1>2. PICK f : f = [x \in S |-> x.id]
  OBVIOUS
<1>3. f \in Injection(S, RowIds)
  <2>1. f \in [S -> RowIds]
    BY <1>1, <1>2
  <2>2. \A a, b \in S : f[a] = f[b] => a = b
    BY <1>1, <1>2
  <2>3. QED
    BY <2>1, <2>2 DEF Injection, IsInjective
<1>4. IsFiniteSet(RowIds)
  BY Lengths, FS_Interval DEF RowIds
<1>5. QED
  BY <1>3, <1>4, FS_Injection

LEMMA PurgeWrites ==
  ASSUME Inv, DoPurge
  PROVE  /\ rows' = rows
         /\ \E N \in Nat : \E ids \in [1..N -> RowIds] :
              /\ \A m, n \in 1..N : ids[m] = ids[n] => m = n
              /\ \A m \in 1..N : \E j \in purge.cancel : j.row = ids[m]
              /\ Appends(N, ids)
<1>1. Typed /\ PurgeInStep
  BY DEF Inv
<1>2. PICK purged : purged = {x \in purge.list : \E j \in purge.cancel : j.row = x.id}
  OBVIOUS
<1>3. \A x \in purge.list : x.id \in RowIds /\ x.row = rows[x.id] /\ x = [id |-> x.id, row |-> x.row]
  BY <1>1 DEF PurgeInStep, Typed
<1>4. rows' = rows
  <2>1. \A r \in RowIds : rows[r] = IF {x \in purged : x.id = r} = {} THEN rows[r]
                                    ELSE (CHOOSE x \in {x \in purged : x.id = r} : TRUE).row
    <3>1. TAKE r \in RowIds
    <3>2. \A x \in {x \in purged : x.id = r} : x.row = rows[r]
      BY <1>2, <1>3
    <3>3. QED
      BY <3>2
  <2>2. rows' = [r \in RowIds |-> IF {x \in purged : x.id = r} = {} THEN rows[r]
                                  ELSE (CHOOSE x \in {x \in purged : x.id = r} : TRUE).row]
    BY <1>2 DEF DoPurge
  <2>3. rows' = [r \in RowIds |-> rows[r]]
    BY <2>1, <2>2
  <2>4. rows = [r \in RowIds |-> rows[r]]
    BY <1>1 DEF Typed, RowIds
  <2>5. QED
    BY <2>3, <2>4
<1>5. PICK N : N = Cardinality(purged)
  OBVIOUS
<1>6. N \in Nat
  BY <1>1, <1>2, <1>5, PurgedFinite, FS_CardinalityType
<1>7. PICK list \in Orders(purged) :
        pipes' = [p \in PipeIds |-> Kept(p)] \o
                 [n \in DOMAIN list |->
                    QueueSerial(list[n].id, TRUE, GetJobsForRemoveErroredIssue(list[n].id, list[n].row.loc))]
  BY <1>2 DEF DoPurge, Kept
<1>8. list \in [1..N -> purged] /\ \A m, n \in 1..N : list[m] = list[n] => m = n
  BY <1>5, <1>7 DEF Orders
<1>9. PICK ids : ids = [m \in 1..N |-> list[m].id]
  OBVIOUS
<1>10. \A m \in 1..N : /\ list[m] \in purge.list /\ ids[m] = list[m].id
                       /\ \E j \in purge.cancel : j.row = list[m].id
  BY <1>2, <1>8, <1>9
<1>11. ids \in [1..N -> RowIds]
  BY <1>3, <1>9, <1>10
<1>12. \A m, n \in 1..N : ids[m] = ids[n] => m = n
  <2>1. TAKE m, n \in 1..N
  <2>2. HAVE ids[m] = ids[n]
  <2>3. list[m] = list[n]
    BY <1>3, <1>10, <2>2
  <2>4. QED
    BY <1>8, <2>3
<1>13. \A m \in 1..N :
         QueueSerial(list[m].id, TRUE, GetJobsForRemoveErroredIssue(list[m].id, list[m].row.loc))
           = Serial("remove", ids[m], rows[ids[m]].loc)
  <2>1. TAKE m \in 1..N
  <2>2. list[m].id = ids[m] /\ list[m].row = rows[ids[m]]
    BY <1>3, <1>10
  <2>3. QED
    BY <2>2 DEF Serial, JobsOf
<1>14. Appends(N, ids)
  <2>1. [n \in DOMAIN list |->
           QueueSerial(list[n].id, TRUE, GetJobsForRemoveErroredIssue(list[n].id, list[n].row.loc))]
          = [m \in 1..N |-> Serial("remove", ids[m], rows[ids[m]].loc)]
    BY <1>8, <1>13
  <2>2. QED
    BY <1>7, <2>1 DEF Appends
<1>15. QED
  BY <1>4, <1>6, <1>10, <1>11, <1>12, <1>14

LEMMA PurgeAppends ==
  ASSUME Typed, NEW N \in Nat, NEW ids \in [1..N -> RowIds], Appends(N, ids)
  PROVE  /\ pipes' \in Seq(Pipe) /\ PipeIds \subseteq PipeIds' /\ PipeIds' \subseteq Nat
         /\ \A p \in PipeIds : pipes'[p] = Kept(p)
         /\ \A m \in 1..N : /\ Len(pipes) + m \in PipeIds' \ PipeIds
                            /\ pipes'[Len(pipes) + m] = Serial("remove", ids[m], rows[ids[m]].loc)
         /\ \A o \in PipeIds' \ PipeIds : o > Len(pipes) /\ \E m \in 1..N : o = Len(pipes) + m
<1>1. PICK a, b, L : /\ a = [p \in PipeIds |-> Kept(p)]
                     /\ b = [m \in 1..N |-> Serial("remove", ids[m], rows[ids[m]].loc)]
                     /\ L = Len(pipes)
  OBVIOUS
<1>2. L \in Nat /\ PipeIds = 1..L
  BY <1>1 DEF PipeIds, Typed
<1>3. a \in Seq(Pipe) /\ Len(a) = L
  <2>1. \A p \in 1..L : a[p] \in Pipe
    BY <1>1, <1>2, KeptIs
  <2>2. a \in [1..L -> Pipe]
    BY <1>1, <1>2, <2>1
  <2>3. QED
    BY <1>2, <2>2
<1>4. b \in Seq(Pipe) /\ Len(b) = N
  <2>1. \A m \in 1..N : b[m] \in Pipe
    <3>1. TAKE m \in 1..N
    <3>2. PICK r, from : r = ids[m] /\ from = rows[r].loc
      OBVIOUS
    <3>3. r \in 1..MaxRows /\ from \in Paths /\ "remove" \in Kinds
      <4>1. r \in RowIds
        BY <3>2
      <4>2. r \in 1..MaxRows /\ rows[r] \in Row
        BY <4>1, RowTyped
      <4>3. QED
        BY <3>2, <4>2 DEF Row, Kinds
    <3>4. Serial("remove", r, from) \in Pipe
      BY <3>3, SerialRow
    <3>5. QED
      BY <1>1, <3>2, <3>4
  <2>2. b \in [1..N -> Pipe]
    BY <1>1, <2>1
  <2>3. QED
    BY <2>2
<1>5. pipes' = a \o b
  BY <1>1 DEF Appends
<1>6. /\ pipes' \in Seq(Pipe) /\ Len(pipes') = L + N
      /\ \A i \in 1..L + N : pipes'[i] = IF i <= L THEN a[i] ELSE b[i - L]
  BY <1>3, <1>4, <1>5, ConcatProperties
<1>7. PipeIds' = 1..L + N
  BY <1>6 DEF PipeIds
<1>8. \A p \in PipeIds : pipes'[p] = Kept(p)
  BY <1>1, <1>2, <1>6
<1>9. \A m \in 1..N : /\ L + m \in PipeIds' \ PipeIds
                      /\ pipes'[L + m] = Serial("remove", ids[m], rows[ids[m]].loc)
  <2>1. TAKE m \in 1..N
  <2>2. L + m \in 1..L + N /\ ~(L + m <= L) /\ (L + m) - L = m
    BY <1>2
  <2>3. pipes'[L + m] = b[m]
    BY <1>6, <2>2
  <2>4. QED
    BY <1>1, <1>2, <1>7, <2>2, <2>3
<1>10. \A o \in PipeIds' \ PipeIds : o > L /\ \E m \in 1..N : o = L + m
  <2>1. TAKE o \in PipeIds' \ PipeIds
  <2>2. o > L /\ o - L \in 1..N /\ o = L + (o - L)
    BY <1>2, <1>7
  <2>3. QED
    BY <2>2
<1>11. PipeIds \subseteq PipeIds' /\ PipeIds' \subseteq Nat /\ L = Len(pipes) /\ pipes' \in Seq(Pipe)
  BY <1>1, <1>2, <1>6, <1>7
<1>12. QED
  BY <1>8, <1>9, <1>10, <1>11, Zenon

LEMMA CancelFound ==
  ASSUME Typed, RowsInStep, PurgeInStep, NEW j \in purge.cancel
  PROVE  j.pipe \in About(j.row) /\ Canceled(j.pipe, 6)
<1>1. j.pipe \in PipeIds /\ pipes[j.pipe].row = j.row
  BY DEF PurgeInStep
<1>2. PICK n \in 1..12, k \in purge.cancel : StuckAt(j.pipe, n) /\ k.pipe = j.pipe /\ k.n = n
  BY DEF PurgeInStep
<1>3. n = 6
  BY <1>1, <1>2, StuckStands
<1>4. k.redone = pipes[j.pipe].redone
  BY <1>2 DEF PurgeInStep
<1>5. QED
  BY <1>1, <1>2, <1>3, <1>4 DEF About, Canceled

LEMMA RemovalIs ==
  ASSUME NEW r, NEW from, NEW p, pipes'[p] = Serial("remove", r, from)
  PROVE  pipes'[p].row = r /\ pipes'[p].removal
<1>1. "remove" \in Kinds
  BY DEF Kinds
<1>2. pipes'[p].row = r /\ (pipes'[p].removal <=> "remove" = "remove")
  BY <1>1, NewIs
<1>3. QED
  BY <1>2

(* What a purge leaves of the pipelines there were.                         *)
LEMMA PurgedSame ==
  ASSUME Typed, RowsInStep, PurgeInStep, NEW N \in Nat, NEW ids \in [1..N -> RowIds],
         Appends(N, ids), NEW o \in PipeIds
  PROVE  /\ pipes'[o].row = pipes[o].row /\ pipes'[o].removal = pipes[o].removal
         /\ pipes'[o].jobs = pipes[o].jobs /\ DOMAIN pipes'[o].st = 1..Len(pipes[o].jobs)
         /\ \A m \in 1..Len(pipes[o].jobs) :
              pipes'[o].st[m] = IF Canceled(o, m) THEN "failed_done" ELSE pipes[o].st[m]
         /\ Took(o)' <=> Took(o)
         /\ (\A m : ~Canceled(o, m)) => pipes'[o] = pipes[o]
<1>1. pipes'[o] = Kept(o)
  BY PurgeAppends
<1>2. /\ pipes'[o].row = pipes[o].row /\ pipes'[o].removal = pipes[o].removal
      /\ pipes'[o].jobs = pipes[o].jobs /\ DOMAIN pipes'[o].st = 1..Len(pipes[o].jobs)
      /\ \A m \in 1..Len(pipes[o].jobs) :
           pipes'[o].st[m] = IF Canceled(o, m) THEN "failed_done" ELSE pipes[o].st[m]
      /\ (\A m : ~Canceled(o, m)) => pipes'[o] = pipes[o]
  BY <1>1, KeptIs
<1>3. ~Canceled(o, 2)
  BY CanceledStuck
<1>4. 2 \in 1..Len(pipes[o].jobs)
  <2>1. Len(pipes[o].jobs) \in {7, 11}
    BY PipesTyped
  <2>2. QED
    BY <2>1, TwoJobs, Zenon
<1>5. Took(o)' <=> Took(o)
  BY <1>2, <1>3, <1>4 DEF Took
<1>6. QED
  BY <1>2, <1>5

LEMMA PurgedAbout ==
  ASSUME Typed, RowsInStep, PurgeInStep, NEW N \in Nat, NEW ids \in [1..N -> RowIds],
         Appends(N, ids), NEW r \in RowIds
  PROVE  /\ About(r) \subseteq About(r)'
         /\ \A m \in 1..N : ids[m] = r => Len(pipes) + m \in About(r)'
         /\ \A o \in About(r)' : o \in About(r) \/ \E m \in 1..N : ids[m] = r /\ o = Len(pipes) + m
<1>1. PipeIds \subseteq PipeIds'
  BY PurgeAppends
<1>2. \A o \in PipeIds : pipes'[o].row = pipes[o].row
  BY PurgedSame
<1>3. \A m \in 1..N : Len(pipes) + m \in PipeIds' \ PipeIds /\ pipes'[Len(pipes) + m].row = ids[m]
  <2>1. TAKE m \in 1..N
  <2>2. Len(pipes) + m \in PipeIds' \ PipeIds
    BY PurgeAppends
  <2>3. pipes'[Len(pipes) + m] = Serial("remove", ids[m], rows[ids[m]].loc)
    BY PurgeAppends
  <2>4. PICK p, s, from : p = Len(pipes) + m /\ s = ids[m] /\ from = rows[ids[m]].loc
    OBVIOUS
  <2>5. pipes'[p] = Serial("remove", s, from)
    BY <2>3, <2>4
  <2>6. pipes'[p].row = s
    BY <2>5, RemovalIs
  <2>7. QED
    BY <2>2, <2>4, <2>6
<1>4. \A o \in PipeIds' \ PipeIds : \E m \in 1..N : o = Len(pipes) + m
  BY PurgeAppends
<1>5. About(r) \subseteq About(r)'
  BY <1>1, <1>2 DEF About
<1>6. \A m \in 1..N : ids[m] = r => Len(pipes) + m \in About(r)'
  BY <1>3 DEF About
<1>7. ASSUME NEW o \in About(r)'
      PROVE  o \in About(r) \/ \E m \in 1..N : ids[m] = r /\ o = Len(pipes) + m
  <2>1. o \in PipeIds' /\ pipes'[o].row = r
    BY <1>7 DEF About
  <2>2. CASE o \in PipeIds
    BY <1>2, <2>1, <2>2 DEF About
  <2>3. CASE o \notin PipeIds
    <3>1. PICK m \in 1..N : o = Len(pipes) + m
      BY <1>4, <2>1, <2>3
    <3>2. pipes'[o].row = ids[m]
      BY <1>3, <3>1
    <3>3. QED
      BY <2>1, <3>1, <3>2
  <2>4. QED
    BY <2>2, <2>3
<1>8. QED
  BY <1>5, <1>6, <1>7

LEMMA PurgedNew ==
  ASSUME Typed, NEW N \in Nat, NEW ids \in [1..N -> RowIds], Appends(N, ids), NEW m \in 1..N
  PROVE  pipes'[Len(pipes) + m] = Serial("remove", ids[m], rows[ids[m]].loc)
BY PurgeAppends

LEMMA PurgedAside ==
  ASSUME Typed, RowsInStep, PurgeInStep, NEW N \in Nat, NEW ids \in [1..N -> RowIds],
         Appends(N, ids), \A m \in 1..N : \E j \in purge.cancel : j.row = ids[m],
         UNCHANGED <<disk, rows>>,
         NEW r \in RowIds, \A o \in About(r) : \A m : ~Canceled(o, m)
  PROVE  Untouched(r)
<1>1. \A m \in 1..N : ids[m] # r
  BY CancelFound
<1>2. About(r)' = About(r)
  <2>1. About(r) \subseteq About(r)'
    BY PurgedAbout
  <2>2. \A o \in About(r)' : o \in About(r) \/ \E k \in 1..N : ids[k] = r /\ o = Len(pipes) + k
    BY PurgedAbout
  <2>3. QED
    BY <1>1, <2>1, <2>2
<1>3. \A o \in About(r) : pipes'[o] = pipes[o]
  BY PurgedSame DEF About
<1>4. QED
  BY <1>2, <1>3 DEF Untouched

LEMMA PurgedRow ==
  ASSUME Typed, RowsInStep, PurgeInStep, NEW N \in Nat, NEW ids \in [1..N -> RowIds],
         Appends(N, ids), \A m, n \in 1..N : ids[m] = ids[n] => m = n,
         UNCHANGED <<disk, rows>>, NEW r \in RowIds, NEW p \in About(r),
         StuckAt(p, 6), Canceled(p, 6), \A m \in 1..5 : ~Canceled(p, m)
  PROVE  RowInStep(r)'
<1>1. p \in PipeIds /\ pipes[p].row = r /\ r \in 1..MaxRows /\ rows[r] \in Row /\ p \in Nat
  BY RowTyped, PipesTyped DEF About
<1>2. /\ pipes[p].st[6] \in {"failed", "failed_done"} /\ ~pipes[p].removal
      /\ \A m \in 1..5 : pipes[p].st[m] = "success"
      /\ \A m \in 7..Len(pipes[p].jobs) : pipes[p].st[m] \in {"on_hold", "failed_done"}
      /\ 6 \in 1..Len(pipes[p].jobs)
      /\ \A o \in About(r) \ {p} : Done(o) /\ ~pipes[o].removal /\ o < p
  BY <1>1, StuckStands
<1>3. PICK kind \in {"review", "derive"}, from \in Froms(r) : Stands(p, kind, from, 6)
  BY <1>1, StuckStands
<1>4. kind \in Kinds /\ kind # "remove" /\ 6 \in 1..12
  BY DEF Kinds
<1>5. /\ pipes'[p].row = r /\ pipes'[p].removal = pipes[p].removal /\ pipes'[p].jobs = pipes[p].jobs
      /\ \A m \in 1..Len(pipes[p].jobs) :
           pipes'[p].st[m] = IF Canceled(p, m) THEN "failed_done" ELSE pipes[p].st[m]
      /\ Took(p)' <=> Took(p)
  BY <1>1, PurgedSame
<1>6. Len(pipes[p].jobs) \in {7, 11}
  BY <1>1, PipesTyped
<1>7. /\ \A m \in 1..5 : pipes'[p].st[m] = "success"
      /\ pipes'[p].st[6] = "failed_done"
      /\ \A m \in 7..Len(pipes[p].jobs) : pipes'[p].st[m] \in {"on_hold", "failed_done"}
  BY <1>2, <1>5, <1>6
<1>8. At(p, 6)'
  <2>1. pipes[p].jobs[6].type = "work"
    BY DEF StuckAt
  <2>2. QED
    BY <1>5, <1>6, <1>7, <2>1 DEF At
<1>9. Over(p)'
  BY <1>5, <1>6, <1>7 DEF Over
<1>10. \A o \in About(r) \ {p} : pipes'[o] = pipes[o]
  <2>1. TAKE o \in About(r) \ {p}
  <2>2. o \in PipeIds /\ Done(o)
    BY <1>2 DEF About
  <2>3. ~StuckAt(o, 6)
    BY <2>2, StuckStands DEF Done
  <2>4. \A m : ~Canceled(o, m)
    BY <2>2, <2>3, CanceledStuck
  <2>5. QED
    BY <2>2, <2>4, PurgedSame
<1>11. \A o \in About(r) \ {p} : /\ Done(o)' /\ Over(o)' /\ ~pipes'[o].removal /\ o < p
                                 /\ (Took(o)' <=> Took(o))
  <2>1. TAKE o \in About(r) \ {p}
  <2>2. pipes'[o] = pipes[o] /\ Done(o) /\ ~pipes[o].removal /\ o < p
    BY <1>2, <1>10
  <2>3. Done(o)'
    BY <2>2 DEF Done
  <2>4. Over(o)'
    BY <2>2 DEF Done, Over
  <2>5. Took(o)' <=> Took(o)
    BY <2>2 DEF Took
  <2>6. QED
    BY <2>2, <2>3, <2>4, <2>5
<1>12. Took(p)'
  BY <1>2, <1>5 DEF Took
<1>13. PICK up : up = Upload(rows[r].from)
  OBVIOUS
<1>14. /\ RowFits(rows[r], kind, r, from, 6) /\ FromFits(kind, r, from)
       /\ FilesAt(r, Dir(Home(kind, 6), r, from), Dir(Drain(kind, 6), r, from))
       /\ IF from = up THEN About(r) = {p} /\ disk[up] = {}
          ELSE disk[up] = {} /\ \E o \in About(r) \ {p} : Took(o)
       /\ pipes[p].jobs = JobsOf(kind, r, from) /\ 6 \in 1..Length(kind) + 1
  <2>1. /\ RowFits(rows[r], kind, r, from, 6) /\ FromFits(kind, r, from)
        /\ FilesAt(r, Dir(Home(kind, 6), r, from), Dir(Drain(kind, 6), r, from))
        /\ pipes[p].jobs = JobsOf(kind, r, from) /\ 6 \in 1..Length(kind) + 1
    BY <1>1, <1>3 DEF Stands
  <2>2. IF from = up THEN About(r) = {p} /\ (6 >= 4 => disk[up] = {})
        ELSE disk[up] = {} /\ \E o \in About(r) \ {p} : Took(o)
    BY <1>1, <1>3, <1>13 DEF Stands
  <2>3. 6 >= 4
    OBVIOUS
  <2>4. QED
    BY <2>1, <2>2, <2>3
<1>15. CASE \E m \in 1..N : ids[m] = r
  <2>1. PICK m \in 1..N : ids[m] = r
    BY <1>15
  <2>2. PICK P, there : P = Len(pipes) + m /\ there = <<"workflow", r>>
    OBVIOUS
  <2>3. rows[r].loc = there /\ rows[r].ws = "AwaitingProcessing" /\ rows[r].ignored = FALSE
    <3>1. LocOf(kind, r, from, 6) = there /\ Ignored(kind, 6) = FALSE
          /\ StepAt(kind, 6) = "AwaitingProcessing"
      BY <1>4, <2>2 DEF LocOf, Located, Dir, Ignored, StepAt, Length
    <3>2. QED
      BY <1>14, <3>1 DEF RowFits
  <2>4. P \in PipeIds' \ PipeIds /\ pipes'[P] = Serial("remove", r, there) /\ P > Len(pipes)
    <3>1. Len(pipes) + m \in PipeIds' \ PipeIds
      BY PurgeAppends
    <3>2. pipes'[Len(pipes) + m] = Serial("remove", ids[m], rows[ids[m]].loc)
      BY <2>1, PurgedNew
    <3>3. Len(pipes) + m > Len(pipes)
      BY <3>1, PurgeAppends
    <3>4. QED
      BY <2>1, <2>2, <2>3, <3>1, <3>2, <3>3
  <2>5. About(r)' = About(r) \cup {P}
    <3>1. /\ About(r) \subseteq About(r)' /\ P \in About(r)'
      BY <2>1, <2>2, PurgedAbout
    <3>2. \A o \in About(r)' : o \in About(r) \/ \E k \in 1..N : ids[k] = r /\ o = Len(pipes) + k
      BY PurgedAbout
    <3>3. \A k \in 1..N : ids[k] = r => k = m
      BY <2>1
    <3>4. QED
      BY <2>2, <3>1, <3>2, <3>3
  <2>6. "workflow" \in Places /\ "remove" \in Kinds /\ FromFits("remove", r, there)
    BY <2>2 DEF Places, Kinds, FromFits
  <2>7. there \in Paths /\ there # up
    BY <1>1, <1>13, <2>2, <2>6, PathsDiffer
  <2>8. \A place \in Places : disk'[<<place, r>>] = IF <<place, r>> = there THEN Pages ELSE {}
    <3>1. Home(kind, 6) = "workflow" /\ Drain(kind, 6) = "none"
      BY <1>4 DEF Home, Drain, Kinds
    <3>2. Dir(Home(kind, 6), r, from) = there /\ Dir(Drain(kind, 6), r, from) = <<"none", r>>
      BY <2>2, <3>1 DEF Dir
    <3>3. \A place \in Places : <<place, r>> # <<"none", r>>
      BY DEF Places
    <3>4. QED
      BY <1>14, <3>2, <3>3 DEF FilesAt
  <2>9. RowFits(rows'[r], "remove", r, there, 1)
    BY <2>3, <2>6, Begins
  <2>10. Last(P)'
    <3>1. pipes'[P].row = r
      BY <2>4, RemovalIs
    <3>2. \A o \in About(r) : o < P /\ Over(o)' /\ ~pipes'[o].removal
      <4>1. \A o \in About(r) : o \in 1..Len(pipes)
        BY DEF About, PipeIds
      <4>2. Len(pipes) \in Nat /\ P \in Nat
        BY <2>4, Lengths, PurgeAppends
      <4>3. \A o \in About(r) : o < P
        BY <2>4, <4>1, <4>2
      <4>4. QED
        BY <1>2, <1>5, <1>9, <1>11, <4>3
    <3>3. About(pipes[P].row)' = About(r)'
      BY <3>1 DEF About
    <3>4. QED
      BY <2>5, <3>2, <3>3 DEF Last
  <2>11. rows'[r].from = rows[r].from /\ disk'[up] = {} /\ \E o \in About(r)' \ {P} : Took(o)'
    <3>1. p # P
      BY <1>1, <2>4
    <3>2. QED
      BY <1>12, <1>14, <2>5, <3>1
  <2>12. FromFits("remove", r, there)'
    BY <2>6 DEF FromFits
  <2>13. QED
    BY <1>1, <1>13, <2>4, <2>6, <2>7, <2>8, <2>9, <2>10, <2>11, <2>12, NewStands
<1>16. CASE \A m \in 1..N : ids[m] # r
  <2>1. About(r)' = About(r)
    <3>1. About(r) \subseteq About(r)'
      BY PurgedAbout
    <3>2. \A o \in About(r)' : o \in About(r) \/ \E k \in 1..N : ids[k] = r /\ o = Len(pipes) + k
      BY PurgedAbout
    <3>3. QED
      BY <1>16, <3>1, <3>2
  <2>2. About(pipes[p].row)' = About(r)
    BY <1>5, <2>1 DEF About
  <2>3. Last(p)'
    BY <1>11, <2>2 DEF Last
  <2>4. FromFits(kind, r, from)'
    BY <1>14 DEF FromFits
  <2>5. FilesAt(r, Dir(Home(kind, 6), r, from), Dir(Drain(kind, 6), r, from))'
    BY <1>14 DEF FilesAt
  <2>6. IF from = Upload(rows'[r].from)
        THEN About(r)' = {p} /\ (6 >= 4 => disk'[Upload(rows'[r].from)] = {})
        ELSE disk'[Upload(rows'[r].from)] = {} /\ \E o \in About(r)' \ {p} : Took(o)'
    BY <1>11, <1>13, <1>14, <2>1
  <2>7. pipes'[p].removal = (IF kind = "remove" THEN TRUE ELSE FALSE)
    BY <1>1, <1>3, <1>5 DEF Stands
  <2>8. kind # "remove" => \A o \in About(r)' \ {p} : Done(o)'
    BY <1>11, <2>1
  <2>9. pipes'[p].jobs = JobsOf(kind, r, from) /\ RowFits(rows'[r], kind, r, from, 6)
    BY <1>5, <1>14
  <2>10. Stands(p, kind, from, 6)'
    BY <1>4, <1>5, <1>8, <1>14, <2>3, <2>4, <2>5, <2>6, <2>7, <2>8, <2>9 DEF Stands
  <2>11. InStep(p)'
    <3>1. from \in Froms(pipes[p].row)'
      BY <1>5 DEF Froms
    <3>2. QED
      BY <1>4, <2>10, <3>1 DEF InStep
  <2>12. QED
    BY <2>1, <2>11 DEF RowInStep
<1>17. QED
  BY <1>15, <1>16

LEMMA DoPurgeKeeps ==
  ASSUME Inv, DoPurge
  PROVE  Inv'
<1>1. /\ Typed /\ RowsInStep /\ ClientsInStep /\ PurgeInStep /\ FixerInStep /\ rows' = rows
      /\ UNCHANGED <<world, disk, q, web, fixer>> /\ purge' = NotPurging
  BY PurgeWrites DEF Inv, DoPurge
<1>a. PICK N \in Nat : \E ids \in [1..N -> RowIds] :
        /\ \A m, n \in 1..N : ids[m] = ids[n] => m = n
        /\ \A m \in 1..N : \E j \in purge.cancel : j.row = ids[m]
        /\ Appends(N, ids)
  BY PurgeWrites
<1>2. PICK ids \in [1..N -> RowIds] :
        /\ \A m, n \in 1..N : ids[m] = ids[n] => m = n
        /\ \A m \in 1..N : \E j \in purge.cancel : j.row = ids[m]
        /\ Appends(N, ids)
  BY <1>a
<1>3. RowIds' = RowIds
  BY <1>1 DEF RowIds
<1>4. \A r \in RowIds : (\A o \in About(r) : \A m : ~Canceled(o, m)) => Untouched(r)
  BY <1>1, <1>2, PurgedAside
<1>5. \A r \in RowIds : RowInStep(r)'
  <2>1. TAKE r \in RowIds
  <2>2. CASE \A o \in About(r) : \A m : ~Canceled(o, m)
    BY <1>1, <1>4, <2>2, RowKept DEF RowsInStep
  <2>3. CASE \E o \in About(r) : \E m : Canceled(o, m)
    <3>0. PICK p \in About(r) : \E m : Canceled(p, m)
      BY <2>3
    <3>1. PICK m : Canceled(p, m)
      BY <3>0
    <3>2. p \in PipeIds
      BY DEF About
    <3>3. StuckAt(p, 6) /\ Canceled(p, 6) /\ \A k \in 1..5 : ~Canceled(p, k)
      BY <1>1, <3>1, <3>2, CanceledStuck
    <3>4. QED
      BY <1>1, <1>2, <3>3, PurgedRow
  <2>4. QED
    BY <2>2, <2>3
<1>6. /\ pipes' \in Seq(Pipe) /\ PipeIds \subseteq PipeIds' /\ PipeIds' \subseteq Nat
      /\ \A o \in PipeIds' \ PipeIds : o > Len(pipes) /\ \E m \in 1..N : o = Len(pipes) + m
  BY <1>1, <1>2, PurgeAppends
<1>7. \A o \in PipeIds' \ PipeIds : /\ pipes'[o].removal /\ pipes'[o].row \in RowIds
                                    /\ DOMAIN pipes'[o].st = 1..Len(pipes'[o].jobs)
  <2>1. TAKE o \in PipeIds' \ PipeIds
  <2>2. PICK m \in 1..N : o = Len(pipes) + m
    BY <1>6
  <2>0. PICK r \in RowIds : r = ids[m]
    BY <1>2
  <2>3. PICK from : from = rows[r].loc /\ r = ids[m]
    BY <2>0
  <2>4. pipes'[o] = Serial("remove", r, from)
    <3>1. pipes'[Len(pipes) + m] = Serial("remove", ids[m], rows[ids[m]].loc)
      BY <1>1, <1>2, PurgedNew
    <3>2. QED
      BY <2>2, <2>3, <3>1
  <2>5. pipes'[o].row = r /\ pipes'[o].removal
    BY <2>4, RemovalIs
  <2>6. r \in 1..MaxRows /\ from \in Paths /\ "remove" \in Kinds
    <3>1. r \in 1..MaxRows /\ rows[r] \in Row
      BY <1>1, RowTyped
    <3>2. QED
      BY <2>3, <3>1 DEF Row, Kinds
  <2>7. DOMAIN Serial("remove", r, from).st = 1..Len(Serial("remove", r, from).jobs)
    BY <2>6, SerialRow, Zenon
  <2>8. QED
    BY <2>4, <2>5, <2>7
<1>8. \A o \in PipeIds : /\ pipes'[o].row = pipes[o].row /\ pipes'[o].removal = pipes[o].removal
                         /\ pipes'[o].jobs = pipes[o].jobs /\ (Took(o)' <=> Took(o))
                         /\ DOMAIN pipes'[o].st = 1..Len(pipes[o].jobs)
  BY <1>1, <1>2, PurgedSame
<1>9. RowsInStep'
  <2>1. \A o \in PipeIds' \ PipeIds : /\ ~Took(o)' /\ o > Len(pipes)
                                      /\ ~pipes'[o].removal => TakesFirst(o)'
    BY <1>6, <1>7 DEF Took
  <2>2. \A r \in RowIds : SameIssue(rows[r], rows'[r]) /\ (rows[r].ignored => rows'[r].ignored)
    BY <1>1 DEF SameIssue
  <2>3. NoneBeyond'
    BY <1>1, <1>3 DEF RowsInStep, NoneBeyond
  <2>4. \A d \in Dirs : disk'[Upload(d)] = disk[Upload(d)]
    BY <1>1
  <2>5. QED
    BY <1>1, <1>3, <1>5, <1>6, <1>8, <2>1, <2>2, <2>3, <2>4, RowsGrow
<1>10. ClientsInStep'
  <2>1. \A r \in RowIds : About(r)' = {} <=> About(r) = {}
    <3>1. TAKE r \in RowIds
    <3>2. CASE \A o \in About(r) : \A m : ~Canceled(o, m)
      BY <1>4, <3>2 DEF Untouched
    <3>3. CASE \E o \in About(r) : \E m : Canceled(o, m)
      <4>1. About(r) \subseteq About(r)'
        BY <1>1, <1>2, PurgedAbout
      <4>2. QED
        BY <3>3, <4>1
    <3>4. QED
      BY <3>2, <3>3
  <2>2. \A d : Rows(d)' = Rows(d)
    BY <1>1, <1>3 DEF Rows, SameKey, Of
  <2>3. \A r \in RowIds : SameIssue(rows[r], rows'[r])
    BY <1>1 DEF SameIssue
  <2>4. QED
    BY <1>1, <1>3, <2>1, <2>2, <2>3, ClientsAfter
<1>11. PurgeInStep'
  BY <1>1 DEF PurgeInStep, NotPurging
<1>12. FixerInStep'
  <2>1. ASSUME fixer.pc # "idle"
        PROVE  Untouched(fixer.row)
    <3>1. fixer.row \in RowIds /\ \A o \in About(fixer.row) : Done(o)
      BY <1>1, <2>1, ReviewDone DEF FixerInStep
    <3>2. \A o \in About(fixer.row) : \A m : ~Canceled(o, m)
      <4>1. TAKE o \in About(fixer.row)
      <4> TAKE m
      <4>2. o \in PipeIds /\ Done(o)
        BY <3>1 DEF About
      <4>3. ~StuckAt(o, 6)
        BY <1>1, <4>2, StuckStands DEF Done
      <4>4. QED
        BY <1>1, <4>2, <4>3, CanceledStuck
    <3>3. QED
      BY <1>4, <3>1, <3>2
  <2>2. QED
    BY <1>1, <1>3, <2>1, FixerAfter
<1>13. Typed'
  <2>1. purge' \in [pc : {"idle", "look"}, list : SUBSET [id : Nat, row : Row],
                    look : SUBSET Nat, cancel : SUBSET Loadable]
    BY <1>1 DEF NotPurging
  <2>2. \A o \in PipeIds' : /\ pipes'[o].row \in RowIds
                            /\ DOMAIN pipes'[o].st = 1..Len(pipes'[o].jobs)
    BY <1>1, <1>7, <1>8 DEF Typed
  <2>3. \A r \in RowIds : SameIssue(rows[r], rows'[r])
    BY <1>1 DEF SameIssue
  <2>4. /\ q' \in [Clients -> Request] /\ disk' \in [Paths -> SUBSET Pages] /\ rows' \in Seq(Row)
        /\ world' = world /\ web' = web
        /\ fixer' \in [pc : {"idle", "loaded", "prepared"}, row : Nat, loc : Paths]
    BY <1>1 DEF Typed
  <2>5. QED
    BY <1>1, <1>3, <1>6, <2>1, <2>2, <2>3, <2>4, TypedGrow
<1>14. QED
  BY <1>9, <1>10, <1>11, <1>12, <1>13 DEF Inv

----------------------------------------------------------------------------
(* The beginning, and every step                                           *)

LEMMA InitKeeps ==
  ASSUME Init
  PROVE  Inv
<1>1. /\ rows = <<>> /\ pipes = <<>> /\ RowIds = {} /\ PipeIds = {}
      /\ purge = NotPurging /\ fixer = NotFixing
      /\ q = [c \in Clients |-> NoRequest]
      /\ web = [pc |-> "idle", inProcess |-> {}, shown |-> {}, rebuilt |-> FALSE]
  BY DEF Init, RowIds, PipeIds
<1>2. /\ disk = [p \in Paths |-> IF p[1] = "upload" THEN Pages ELSE {}]
      /\ world \in World
  BY IntakeAssumption DEF Init
<1>3. Nowhere \in Paths /\ NoRequest \in Request /\ NoRequest.pc = "idle"
  BY DEF Paths, NoRequest, Request
<1>4. Typed
  <2>1. rows \in Seq(Row) /\ Len(rows) <= MaxRows /\ pipes \in Seq(Pipe)
    BY <1>1, IntakeAssumption
  <2>2. disk \in [Paths -> SUBSET Pages]
    BY <1>2
  <2>3. q \in [Clients -> Request]
    BY <1>1, <1>3
  <2>4. /\ purge \in [pc : {"idle", "look"}, list : SUBSET [id : Nat, row : Row],
                      look : SUBSET Nat, cancel : SUBSET Loadable]
        /\ fixer \in [pc : {"idle", "loaded", "prepared"}, row : Nat, loc : Paths]
    BY <1>1, <1>3 DEF NotPurging, NotFixing
  <2>5. web \in Web
    BY <1>1 DEF Web
  <2>6. QED
    BY <1>1, <1>2, <2>1, <2>2, <2>3, <2>4, <2>5 DEF Typed
<1>5. RowsInStep
  <2>1. \A d \in Dirs : disk[Upload(d)] = Pages
    <3>1. TAKE d \in Dirs
    <3>2. Upload(d) \in Paths /\ Upload(d)[1] = "upload"
      BY DEF Paths, Upload
    <3>3. QED
      BY <1>2, <3>2
  <2>2. \A r \in 1..MaxRows, place \in Places : disk[<<place, r>>] = {}
    <3>1. TAKE r \in 1..MaxRows, place \in Places
    <3>2. <<place, r>> \in Paths /\ <<place, r>>[1] # "upload"
      BY DEF Paths, Places
    <3>3. QED
      BY <1>2, <3>2
  <2>3. \A r \in RowIds : RowInStep(r)
    BY <1>1
  <2>4. FirstTakes /\ KeysUnique /\ TakenOnce
    BY <1>1 DEF FirstTakes, KeysUnique, TakenOnce
  <2>5. UploadsKept
    BY <2>1 DEF UploadsKept
  <2>6. NoneBeyond
    BY <2>2 DEF NoneBeyond
  <2>7. QED
    BY <2>3, <2>4, <2>5, <2>6 DEF RowsInStep
<1>6. ClientsInStep
  <2>1. \A c \in Clients : q[c] = NoRequest /\ q[c].pc = "idle"
    BY <1>1, <1>3
  <2>2. QED
    BY <2>1 DEF ClientsInStep, ClientInStep, Busy, Apart
<1>7. PurgeInStep /\ FixerInStep
  BY <1>1 DEF PurgeInStep, FixerInStep, NotPurging, NotFixing
<1>8. QED
  BY <1>4, <1>5, <1>6, <1>7 DEF Inv

LEMMA StutterKeeps ==
  ASSUME Inv, UNCHANGED vars
  PROVE  Inv'
<1>1. UNCHANGED <<world, disk, rows, pipes>> /\ q' = q /\ web' = web /\ purge' = purge /\ fixer' = fixer
  BY DEF vars, tools
<1>2. RowsInStep' /\ ClientsInStep' /\ PurgeInStep' /\ FixerInStep'
  BY <1>1, QuietKeeps
<1>3. Typed'
  BY <1>1, QuietTyped DEF Inv, Typed
<1>4. QED
  BY <1>2, <1>3 DEF Inv

LEMMA StepKeeps ==
  ASSUME Careful, Inv, [Next]_vars
  PROVE  Inv'
<1>1. Alone /\ Undisturbed /\ RowJobsSucceed
  BY DEF Careful
<1>2. CASE Jobs
  <2>1. PICK p \in PipeIds : RunJob(p) \/ FailJob(p)
    BY <1>2 DEF Jobs
  <2>2. CASE RunJob(p)
    BY <1>1, <2>2, RunJobKeeps
  <2>3. CASE FailJob(p)
    BY <1>1, <2>3, FailJobKeeps
  <2>4. QED
    BY <2>1, <2>2, <2>3
<1>3. CASE Operator
  <2>1. PICK p \in PipeIds : Requeue(p)
    BY <1>3 DEF Operator
  <2>2. QED
    BY <1>1, <2>1, RequeueKeeps
<1>4. ASSUME NEW c \in Clients, ClientStep(c) \/ Die(c)
      PROVE  Inv'
  <2>1. CASE List(c)
    BY <2>1, ListKeeps
  <2>2. CASE NextUpload(c)
    BY <1>1, <2>2, NextUploadKeeps
  <2>3. CASE Find(c)
    BY <2>3, FindKeeps
  <2>4. CASE CreateDatabaseIssue(c)
    BY <2>4, CreateKeeps
  <2>5. CASE CheckJobs(c)
    BY <2>5, CheckJobsKeeps
  <2>6. CASE QueueMove(c)
    BY <2>6, QueueMoveKeeps
  <2>7. CASE Die(c)
    BY <2>7, DieKeeps
  <2>8. CASE RemoveIssue(c)
    BY <2>8, RemoveIssueKeeps
  <2>9. QED
    BY <1>4, <2>1, <2>2, <2>3, <2>4, <2>5, <2>6, <2>7, <2>8 DEF ClientStep, Queue
<1>5. CASE SearcherStep
  BY <1>5, SearcherKeeps
<1>6. CASE IssueWorkflowHandler
  BY <1>1, <1>6, HandlerKeeps
<1>7. CASE Purge
  <2>1. CASE PurgeList
    BY <2>1, PurgeListKeeps
  <2>2. CASE \E r \in RowIds : PurgeIssue(r)
    <3>1. PICK r \in RowIds : PurgeIssue(r)
      BY <2>2
    <3>2. QED
      BY <3>1, PurgeIssueKeeps
  <2>3. CASE DoPurge
    BY <2>3, DoPurgeKeeps
  <2>4. CASE Rollback
    BY <2>4, RollbackKeeps
  <2>5. QED
    BY <1>7, <2>1, <2>2, <2>3, <2>4 DEF Purge
<1>8. CASE Fixer
  <2>1. CASE GetIssues
    BY <2>1, GetIssuesKeeps
  <2>2. CASE PrepForRemoval
    BY <2>2, PrepKeeps
  <2>3. CASE QueueRemoveErroredIssue
    BY <2>3, QueueRemoveKeeps
  <2>4. CASE FixerDies
    BY <2>4, FixerDiesKeeps
  <2>5. QED
    BY <1>8, <2>1, <2>2, <2>3, <2>4 DEF Fixer
<1>9. CASE \E r \in RowIds : QueueIssueForDerivatives(r)
  <2>1. PICK r \in RowIds : QueueIssueForDerivatives(r)
    BY <1>9
  <2>2. QED
    BY <1>1, <2>1, QueueDerivativesKeeps
<1>10. CASE UNCHANGED vars
  BY <1>10, StutterKeeps
<1>11. QED
  BY <1>2, <1>3, <1>4, <1>5, <1>6, <1>7, <1>8, <1>9, <1>10 DEF Next

----------------------------------------------------------------------------
(* What follows                                                            *)

LEMMA WholeAt ==
  ASSUME Typed, NEW p \in PipeIds, NEW kind, NEW from, NEW n, Stands(p, kind, from, n),
         NEW place \in Places, Dir(Home(kind, n), pipes[p].row, from) = <<place, pipes[p].row>>
  PROVE  disk[<<place, pipes[p].row>>] = Pages
<1> DEFINE r == pipes[p].row
           drain == Dir(Drain(kind, n), r, from)
<1>1. /\ r \in RowIds /\ r \in 1..MaxRows /\ rows[r].from \in Dirs /\ Len(rows) <= MaxRows
  BY PipesTyped, RowTyped DEF Typed
<1>2. /\ kind \in Kinds /\ FromFits(kind, r, from) /\ n \in 1..Length(kind) + 1
      /\ FilesAt(r, <<place, r>>, drain)
  BY DEF Stands
<1>3. drain # <<place, r>>
  <2>1. CASE Drain(kind, n) = "none"
    BY <1>1, <2>1 DEF Dir, Places
  <2>2. CASE Drain(kind, n) # "none"
    <3>1. n \in 1..Length(kind)
      BY <1>2, <2>2 DEF Drain, Length, Kinds
    <3>2. QED
      BY <1>1, <1>2, <2>2, <3>1, DrainApart
  <2>3. QED
    BY <2>1, <2>2
<1> HIDE DEF drain
<1>4. QED
  BY <1>2, <1>3 DEF FilesAt

LEMMA Stood ==
  ASSUME Typed, RowsInStep, NEW r \in RowIds, About(r) # {}
  PROVE  \E p \in About(r), kind \in Kinds, from \in Froms(r), n \in 1..12 :
            p \in PipeIds /\ pipes[p].row = r /\ Stands(p, kind, from, n)
<1>1. PICK p \in About(r) : InStep(p)
  BY DEF RowsInStep, RowInStep
<1>2. p \in PipeIds /\ pipes[p].row = r
  BY <1>1 DEF About
<1>3. QED
  BY <1>1, <1>2 DEF InStep

LEMMA KeepsPages ==
  ASSUME Inv
  PROVE  PagesKept
<1>1. Typed /\ RowsInStep
  BY DEF Inv
<1>2. SUFFICES ASSUME NEW d \in Dirs
               PROVE  \E c \in Copies(d) : disk[c] = Pages
  BY DEF PagesKept
<1>3. CASE \A r \in RowIds : rows[r].from = d => ~Taken(r)
  <2>1. disk[Upload(d)] = Pages
    BY <1>1, <1>3 DEF RowsInStep, UploadsKept
  <2>2. QED
    BY <2>1 DEF Copies
<1>4. CASE \E r \in RowIds : rows[r].from = d /\ Taken(r)
  <2>1. PICK r \in RowIds : rows[r].from = d /\ Taken(r)
    BY <1>4
  <2>2. About(r) # {}
    BY <2>1 DEF Taken
  <2>3. PICK p \in About(r), kind \in Kinds, from \in Froms(r), n \in 1..12 :
          p \in PipeIds /\ pipes[p].row = r /\ Stands(p, kind, from, n)
    BY <1>1, <2>2, Stood
  <2>4. ASSUME NEW place \in Places, Dir(Home(kind, n), r, from) = <<place, r>>
        PROVE  \E c \in Copies(d) : disk[c] = Pages
    <3>1. disk[<<place, r>>] = Pages
      BY <1>1, <2>3, <2>4, WholeAt
    <3>2. <<place, r>> \in Copies(d)
      BY <2>1 DEF Copies
    <3>3. QED
      BY <3>1, <3>2
  <2>5. FromFits(kind, r, from) /\ n \in 1..Length(kind) + 1
    BY <2>3 DEF Stands
  <2>6. CASE Home(kind, n) # "from"
    <3>1. Home(kind, n) \in Places /\ Dir(Home(kind, n), r, from) = <<Home(kind, n), r>>
      BY <2>6 DEF Home, Places, Dir
    <3>2. QED
      BY <2>4, <3>1
  <2>7. CASE Home(kind, n) = "from" /\ from = Upload(rows[r].from)
    <3>1. r \in 1..MaxRows
      BY <1>1, RowTyped
    <3>2. kind # "remove"
      BY <2>5, <2>7, <3>1, PathsDiffer DEF FromFits, Places
    <3>3. n \in {1, 2}
      BY <2>3, <2>7, <3>2 DEF Home, Kinds
    <3>4. About(r) = {p} /\ At(p, n) /\ pipes[p].jobs = JobsOf(kind, r, from)
      BY <2>3, <2>7 DEF Stands
    <3>5. 1 \in 1..Len(pipes[p].jobs) /\ 2 \in 1..Len(pipes[p].jobs)
      <4>1. Len(pipes[p].jobs) \in {7, 11}
        BY <2>3, <3>4, PlanLength
      <4>2. \A length \in {7, 11} : 1 \in 1..length /\ 2 \in 1..length
        OBVIOUS
      <4>3. QED
        BY <4>1, <4>2, Zenon
    <3>6. pipes[p].st[2] # "success"
      <4>1. CASE n = 2
        BY <3>4, <3>5, <4>1 DEF At
      <4>2. CASE n = 1
        BY <3>4, <3>5, <4>2 DEF At
      <4>3. QED
        BY <3>3, <4>1, <4>2
    <3>7. QED
      BY <2>1, <3>4, <3>6 DEF Taken, Took
  <2>8. CASE Home(kind, n) = "from" /\ from # Upload(rows[r].from)
    <3>1. \E place \in Places : from = <<place, r>>
      BY <2>5, <2>8 DEF FromFits, Places
    <3>2. Dir(Home(kind, n), r, from) = from
      BY <2>8 DEF Dir
    <3>3. QED
      BY <2>4, <3>1, <3>2
  <2>9. QED
    BY <2>6, <2>7, <2>8
<1>5. QED
  BY <1>3, <1>4

LEMMA AtMostOne ==
  ASSUME NEW S, \A p, o \in S : p = o
  PROVE  Cardinality(S) <= 1
<1>1. CASE S = {}
  <2>1. Cardinality({}) = 0
    BY FS_EmptySet
  <2>2. QED
    BY <1>1, <2>1
<1>2. CASE S # {}
  <2>1. PICK p : S = {p}
    BY <1>2
  <2>2. Cardinality({p}) = 1
    BY FS_Singleton
  <2>3. QED
    BY <2>1, <2>2
<1>3. QED
  BY <1>1, <1>2

LEMMA MovesOnce ==
  ASSUME Inv
  PROVE  MovedOnce
<1> DEFINE S(d) == {p \in PipeIds : /\ ~pipes[p].removal /\ ~rows[pipes[p].row].ignored
                                    /\ pipes[p].jobs[2] = Sync(Upload(d), <<"wip", pipes[p].row>>)}
<1>1. Typed /\ RowsInStep
  BY DEF Inv
<1>2. ASSUME NEW d \in Dirs, NEW p \in S(d)
      PROVE  /\ p \in PipeIds /\ p \in Nat /\ pipes[p].row \in RowIds /\ ~rows[pipes[p].row].ignored
             /\ SameKey(pipes[p].row, d) /\ \A o \in About(pipes[p].row) : p <= o
  <2>1. /\ p \in PipeIds /\ ~pipes[p].removal /\ ~rows[pipes[p].row].ignored
        /\ pipes[p].jobs[2] = Sync(Upload(d), <<"wip", pipes[p].row>>)
    OBVIOUS
  <2>2. pipes[p].row \in RowIds /\ pipes[p].row \in 1..MaxRows /\ p \in Nat
    BY <1>1, <2>1, PipesTyped
  <2>3. pipes[p].jobs[2].src = Upload(d)
    BY <2>1 DEF Sync
  <2>4. TakesFirst(p)
    BY <1>1, <2>1 DEF RowsInStep, FirstTakes
  <2>5. Upload(d) # <<"no-touchie", pipes[p].row>>
    BY <2>2, PathsDiffer DEF Places
  <2>6. Upload(d) = Upload(rows[pipes[p].row].from) /\ \A o \in About(pipes[p].row) : p <= o
    BY <2>3, <2>4, <2>5 DEF TakesFirst
  <2>7. d = rows[pipes[p].row].from
    BY <2>6 DEF Upload
  <2>8. SameKey(pipes[p].row, d)
    BY <1>1, <2>2, <2>7, RowTyped
  <2>9. QED
    BY <2>1, <2>2, <2>6, <2>8
<1>3. ASSUME NEW d \in Dirs, NEW p \in S(d), NEW o \in S(d)
      PROVE  p = o
  <2>1. /\ p \in PipeIds /\ p \in Nat /\ pipes[p].row \in RowIds /\ ~rows[pipes[p].row].ignored
        /\ SameKey(pipes[p].row, d) /\ \A x \in About(pipes[p].row) : p <= x
    BY <1>2
  <2>2. /\ o \in PipeIds /\ o \in Nat /\ pipes[o].row \in RowIds /\ ~rows[pipes[o].row].ignored
        /\ SameKey(pipes[o].row, d) /\ \A x \in About(pipes[o].row) : o <= x
    BY <1>2
  <2>3. pipes[p].row = pipes[o].row
    BY <1>1, <2>1, <2>2 DEF RowsInStep, KeysUnique, SameKey
  <2>4. p \in About(pipes[o].row) /\ o \in About(pipes[p].row)
    BY <2>1, <2>2, <2>3 DEF About
  <2>5. p <= o /\ o <= p
    BY <2>1, <2>2, <2>4
  <2>6. QED
    BY <2>1, <2>2, <2>5
<1>4. ASSUME NEW d \in Dirs
      PROVE  Cardinality(S(d)) <= 1
  <2>1. \A p, o \in S(d) : p = o
    BY <1>3
  <2> HIDE DEF S
  <2>2. QED
    BY <2>1, AtMostOne
<1>5. QED
  BY <1>4 DEF MovedOnce

LEMMA GivesWhole ==
  ASSUME Inv
  PROVE  WholeIssues
<1>1. Typed /\ RowsInStep
  BY DEF Inv
<1>2. SUFFICES ASSUME NEW r \in RowIds,
                      rows[r].ws \in {"AwaitingPageReview", "ReadyForMetadataEntry"}
               PROVE  disk[rows[r].loc] = Pages
  BY DEF WholeIssues
<1>3. About(r) # {}
  BY <1>1, <1>2 DEF RowsInStep, RowInStep, Fresh
<1>4. PICK p \in About(r), kind \in Kinds, from \in Froms(r), n \in 1..12 :
        p \in PipeIds /\ pipes[p].row = r /\ Stands(p, kind, from, n)
  BY <1>1, <1>3, Stood
<1>5. n \in 1..Length(kind) + 1 /\ RowFits(rows[r], kind, r, from, n)
  BY <1>4 DEF Stands
<1>6. rows[r].ws = StepAt(kind, n)
  BY <1>2, <1>5 DEF RowFits
<1>7. n = Length(kind) + 1 /\ kind \in {"review", "derive"}
  BY <1>2, <1>5, <1>6 DEF StepAt, Length, Kinds
<1>8. CASE kind = "review"
  <2>1. n = 12
    BY <1>7, <1>8 DEF Length
  <2>2. Home("review", 12) = "review" /\ Located("review", 12) = "review"
    BY DEF Home, Located
  <2>3. rows[r].loc = <<"review", r>> /\ Dir(Home("review", 12), r, from) = <<"review", r>>
    BY <1>5, <1>8, <2>1, <2>2 DEF RowFits, LocOf, Dir
  <2>4. Stands(p, "review", from, 12) /\ "review" \in Places
    BY <1>4, <1>8, <2>1 DEF Places
  <2>5. disk[<<"review", r>>] = Pages
    BY <1>1, <1>4, <2>3, <2>4, WholeAt
  <2>6. QED
    BY <2>3, <2>5
<1>9. CASE kind = "derive"
  <2>1. n = 8
    BY <1>7, <1>9 DEF Length
  <2>2. Home("derive", 8) = "workflow" /\ Located("derive", 8) = "workflow"
    BY DEF Home, Located
  <2>3. rows[r].loc = <<"workflow", r>> /\ Dir(Home("derive", 8), r, from) = <<"workflow", r>>
    BY <1>5, <1>9, <2>1, <2>2 DEF RowFits, LocOf, Dir
  <2>4. Stands(p, "derive", from, 8) /\ "workflow" \in Places
    BY <1>4, <1>9, <2>1 DEF Places
  <2>5. disk[<<"workflow", r>>] = Pages
    BY <1>1, <1>4, <2>3, <2>4, WholeAt
  <2>6. QED
    BY <2>3, <2>5
<1>10. QED
  BY <1>7, <1>8, <1>9

LEMMA RemovesAlone ==
  ASSUME Inv
  PROVE  RemovedAlone
<1>1. Typed /\ RowsInStep
  BY DEF Inv
<1>2. SUFFICES ASSUME NEW p \in PipeIds, pipes[p].removal
               PROVE  /\ pipes[p].st[1] = "pending" => disk[pipes[p].jobs[1].src] = Pages
                      /\ \A o \in About(pipes[p].row) \ {p} : Live(pipes[o]) = {}
  BY DEF RemovedAlone
<1>3. PICK r \in RowIds : r = pipes[p].row /\ p \in About(r) /\ r \in 1..MaxRows
  BY <1>1, PipesTyped DEF About
<1>4. PICK o \in About(r), kind \in Kinds, from \in Froms(r), n \in 1..12 :
        o \in PipeIds /\ pipes[o].row = r /\ Stands(o, kind, from, n)
  BY <1>1, <1>3, Stood
<1>5. o = p
  BY <1>2, <1>3, <1>4 DEF Stands, Last
<1>6. Stands(p, kind, from, n)
  BY <1>4, <1>5
<1>7. /\ pipes[p].removal = (IF kind = "remove" THEN TRUE ELSE FALSE) /\ Last(p) /\ At(p, n)
      /\ pipes[p].jobs = JobsOf(kind, r, from) /\ FromFits(kind, r, from)
  BY <1>3, <1>6 DEF Stands
<1>8. kind = "remove"
  BY <1>2, <1>7
<1>9. \A x \in About(r) \ {p} : Live(pipes[x]) = {}
  <2>1. TAKE x \in About(r) \ {p}
  <2>2. x \in PipeIds /\ Over(x)
    BY <1>3, <1>7 DEF Last, About
  <2>3. DOMAIN pipes[x].st = 1..Len(pipes[x].jobs)
    BY <1>1, <2>2, PipesTyped
  <2>4. QED
    BY <2>2, <2>3 DEF Over, Live
<1>10. ASSUME pipes[p].st[1] = "pending"
       PROVE  disk[pipes[p].jobs[1].src] = Pages
  <2>1. n = 1
    BY <1>7, <1>10 DEF At
  <2>2. pipes[p].jobs[1] = Sync(from, <<"error-wip", r>>)
    BY <1>7, <1>8, RemoveJobs
  <2>3. pipes[p].jobs[1].src = from
    BY <2>2 DEF Sync
  <2>4. Dir(Home("remove", 1), r, from) = from
    BY DEF Dir, Home
  <2>5. PICK place \in Places : from = <<place, r>>
    BY <1>7, <1>8 DEF FromFits, Places
  <2>6. disk[from] = Pages
    BY <1>1, <1>3, <1>6, <1>8, <2>1, <2>4, <2>5, WholeAt
  <2>7. QED
    BY <2>3, <2>6
<1>11. QED
  BY <1>3, <1>9, <1>10

----------------------------------------------------------------------------
(* Theorems                                                                *)

(* As long as the assumptions of Careful hold, every issue is where the last
   pipeline about it has brought it: the steps of QueueSerial's jobs, when
   jobs that move files fail, and issues are requeued, purged or removed.   *)
THEOREM Invariance ==
  ASSUME Careful
  PROVE  Spec => []Inv
<1>1. Init => Inv
  BY InitKeeps
<1>2. Inv /\ [Next]_vars => Inv'
  BY StepKeeps
<1>3. QED
  BY <1>1, <1>2, PTL DEF Spec

(* With one client at an issue, removals left alone and row jobs that succeed
   (Careful), the pages of an upload are all in one directory: SyncDir,
   KillDir and RenameDir, as the builders order them, lose none of them.    *)
THEOREM PagesAreKept ==
  ASSUME Careful
  PROVE  Spec => []PagesKept
<1>1. Spec => []Inv
  BY Invariance
<1>2. Inv => PagesKept
  BY KeepsPages
<1>3. QED
  BY <1>1, <1>2, PTL

(* With one client at an issue at a time, and the rest of Careful,
   uploads.Issue.Queue takes no upload in twice, though its clients may die
   between writing the row and queueing its jobs, and others queue uploads
   of other keys meanwhile.                                                 *)
THEOREM UploadsMoveOnce ==
  ASSUME Careful
  PROVE  Spec => []MovedOnce
<1>1. Spec => []Inv
  BY Invariance
<1>2. Inv => MovedOnce
  BY MovesOnce
<1>3. QED
  BY <1>1, <1>2, PTL

(* Under Careful, an issue whose step gives it to curators is whole in the
   directory its row names.                                                 *)
THEOREM CuratorsGetWholeIssues ==
  ASSUME Careful
  PROVE  Spec => []WholeIssues
<1>1. Spec => []Inv
  BY Invariance
<1>2. Inv => WholeIssues
  BY GivesWhole
<1>3. QED
  BY <1>1, <1>2, PTL

(* While the removal of an issue, queued by purge-dead-issues or by
   page-review-issue-fixer, is in the table, no job of another pipeline about
   it can run, and it begins with the directory that holds the issue: under
   Careful, so when nothing touched the issue after the tool had loaded it. *)
THEOREM RemovalsAreAlone ==
  ASSUME Careful
  PROVE  Spec => []RemovedAlone
<1>1. Spec => []Inv
  BY Invariance
<1>2. Inv => RemovedAlone
  BY RemovesAlone
<1>3. QED
  BY <1>1, <1>2, PTL
=============================================================================

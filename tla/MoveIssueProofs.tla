-------------------------- MODULE MoveIssueProofs --------------------------
(***************************************************************************)
(* Proofs about MoveIssue, for any pages and any number of faults and      *)
(* retries: what the pipelines do to an issue's files.                     *)
(*                                                                         *)
(* A pipeline is a sequential program, and is treated as one.  Disk, RowAt *)
(* and BatchAt annotate it: they say, between any two jobs, what is in     *)
(* every directory and what the rows hold.  Sound relates two successive   *)
(* annotations by what the job between them is for; AllSound goes through  *)
(* the pipelines.  Midway says what may be there while a job is executed,  *)
(* however often it has failed, died and been begun again.                 *)
(***************************************************************************)
EXTENDS MoveIssue, SequenceTheorems, TLAPS

Originals   == FilesOf("original")
PageFiles   == FilesOf("page")
Derivatives == FilesOf("derivative")
Tars        == FilesOf("tarred")

Disks == [Dirs -> {NoDir} \cup SUBSET Files]

----------------------------------------------------------------------------
(* The annotated pipelines.  s: whether the issue was scanned; k: the number
   of the job that is next.                                                *)

Plans == {"start", "sftp", "derive", "finalize", "remove", "batch", "force"}

Backup(s) == IF s THEN "" ELSE "backup"
Source(s) == IF s THEN "upload" ELSE "notouchie"

JobsOf(plan, s) ==
  CASE plan = "start"    -> <<>>
    [] plan = "sftp"     -> QueueSFTPIssueMove([location |-> "upload"])
    [] plan = "derive"   -> QueueMoveIssueForDerivatives([location |-> Source(s)])
    [] plan = "finalize" -> QueueFinalizeIssue([backup |-> Backup(s)])
    [] plan = "remove"   -> GetJobsForRemoveErroredIssue([location |-> "workflow",
                                                          backup |-> Backup(s)])
    [] plan = "batch"    -> QueueMakeBatch
    [] OTHER             -> QueueForceDerivatives([ws |-> "ReadyForBatching"])

(* How many jobs a pipeline has, and how many of them pack the originals   *)
Packing(s) == IF s THEN 0 ELSE 3
Length(plan, s) ==
  CASE plan = "start"    -> 0
    [] plan = "sftp"     -> 17
    [] plan = "derive"   -> 10
    [] plan = "finalize" -> 3 + Packing(s)
    [] plan = "remove"   -> 10 + Packing(s)
    [] plan = "batch"    -> 7
    [] OTHER             -> 5

Held(files, held) == IF held THEN files ELSE NoDir
If(files, cond)   == IF cond THEN files ELSE {}

Uploaded(s) == (IF s THEN PageFiles ELSE Originals) \cup {Cruft}
Reviewed(s) == PageFiles \cup If({Cruft}, s)
Readied    == PageFiles \cup Derivatives
Batched(s)  == Readied \cup {METS} \cup If(Tars, ~s)

SftpDisk(k, d) ==
  IF d = "upload"              THEN Held(Uploaded(FALSE), k <= 3)
  ELSE IF d = "workflow-wip"   THEN IF k \in 3..4 THEN Uploaded(FALSE)
                                    ELSE Held(PageFiles, k \in 8..11)
  ELSE IF d = "workflow"       THEN IF k \in 5..6 THEN Uploaded(FALSE)
                                    ELSE IF k \in 7..9 THEN Originals
                                    ELSE Held(PageFiles, k \in 12..13)
  ELSE IF d = "backup"         THEN Held(Originals, k >= 9)
  ELSE IF d = "pagereview-wip" THEN Held(PageFiles, k \in 13..14)
  ELSE Held(PageFiles, d = "pagereview" /\ k >= 15)

DeriveDisk(s, k, d) ==
  IF d = Source(s)             THEN Held(Reviewed(s), k <= 3)
  ELSE IF d = "workflow-wip"   THEN Held(Reviewed(s), k \in 3..4)
  ELSE IF d = "workflow"       THEN IF k \in 5..6 THEN Reviewed(s)
                                    ELSE IF k \in 7..8 THEN PageFiles ELSE Held(Readied, k >= 9)
  ELSE Held(Originals, d = "backup" /\ ~s)

FinalizeDisk(s, k, d) ==
  IF d = "workflow" THEN Readied \cup If({METS}, k >= 2) \cup If(Tars, ~s /\ k >= 3)
  ELSE Held(Originals, d = "backup" /\ ~s /\ k <= 3)

RemoveDisk(s, k, d) ==
  LET content == PageFiles \cup If(Derivatives, k <= 4) \cup If({Log}, k >= 6)
                   \cup If(Tars, ~s /\ k >= 7)
      renamed == k >= 7 + Packing(s)
  IN  IF d = "workflow"                    THEN Held(Readied, k <= 2)
      ELSE IF d = "errors-wip/content"     THEN Held(content, k >= 2 /\ ~renamed)
      ELSE IF d = "errors-wip/derivatives" THEN Held(Derivatives, k >= 5 /\ ~renamed)
      ELSE IF d = "errors/content"         THEN Held(content, renamed)
      ELSE IF d = "errors/derivatives"     THEN Held(Derivatives, renamed)
      ELSE Held(Originals, d = "backup" /\ ~s /\ k <= 7)

BatchDisk(s, k, d) ==
  IF d = "workflow"       THEN Batched(s)
  ELSE IF d = "batch-wip" THEN Held(Batched(s), k \in 2..4)
  ELSE Held(Batched(s), d = "batch" /\ k >= 5)

Disk(plan, s, k) ==
  [d \in Dirs |->
    CASE plan = "start"    -> Held(Uploaded(s), d = "upload")
      [] plan = "sftp"     -> SftpDisk(k, d)
      [] plan = "derive"   -> DeriveDisk(s, k, d)
      [] plan = "finalize" -> FinalizeDisk(s, k, d)
      [] plan = "remove"   -> RemoveDisk(s, k, d)
      [] plan = "batch"    -> BatchDisk(s, k, d)
      [] OTHER             -> BatchDisk(s, 8, d)]

RowOf(s, location, backup, ws, ignored) ==
  [scanned |-> s, location |-> location, backup |-> backup, ws |-> ws, ignored |-> ignored]

SftpRow(s, k) ==
  RowOf(s, IF k <= 5 THEN "upload" ELSE IF k <= 15 THEN "workflow" ELSE "pagereview",
        IF k <= 10 THEN "" ELSE "backup",
        IF k <= 1 THEN "Upload"
        ELSE IF k <= 16 THEN "AwaitingProcessing" ELSE "AwaitingPageReview", FALSE)

DeriveRow(s, k) ==
  RowOf(s, IF k <= 5 THEN Source(s) ELSE "workflow", Backup(s),
        IF k <= 1 /\ s THEN "Upload"
        ELSE IF k <= 9 THEN "AwaitingProcessing" ELSE "ReadyForMetadataEntry", FALSE)

FinalizeRow(s, k) ==
  RowOf(s, "workflow", IF k <= 4 THEN Backup(s) ELSE "",
        IF k <= 2 + Packing(s) THEN "ReadyForMETSXML" ELSE "ReadyForBatching", FALSE)

RemoveRow(s, k) ==
  RowOf(s, IF k <= 3 THEN "workflow"
           ELSE IF k <= 8 + Packing(s) THEN "errors-wip/content" ELSE "",
        IF k <= 8 THEN Backup(s) ELSE "",
        IF k <= 9 + Packing(s) THEN "AwaitingProcessing" ELSE "UnfixableMetadataError",
        IF k <= 7 + Packing(s) THEN FALSE ELSE TRUE)

ForceRow(s, k) ==
  RowOf(s, "workflow", "",
        IF k \in 2..4 THEN "AwaitingProcessing" ELSE "ReadyForBatching", FALSE)

RowAt(plan, s, k) ==
  CASE plan = "start"    -> RowOf(s, "upload", "", "Upload", FALSE)
    [] plan = "sftp"     -> SftpRow(s, k)
    [] plan = "derive"   -> DeriveRow(s, k)
    [] plan = "finalize" -> FinalizeRow(s, k)
    [] plan = "remove"   -> RemoveRow(s, k)
    [] plan = "batch"    -> ForceRow(s, 1)
    [] OTHER             -> ForceRow(s, k)

BatchOf(location, status) == [location |-> location, status |-> status]

BatchAt(plan, k) ==
  IF plan = "batch"
  THEN BatchOf(IF k <= 2 THEN "" ELSE IF k <= 5 THEN "batch-wip" ELSE "batch",
               IF k <= 6 THEN "pending" ELSE "qc_ready")
  ELSE IF plan = "force" THEN BatchOf("batch", "deleted") ELSE BatchOf("", "none")

----------------------------------------------------------------------------
(* While a job is executed                                                 *)

Have(L, d) == IF L[d] = NoDir THEN {} ELSE L[d]

AsIn(L, except) == \A d \in Dirs \ except : fs[d] = L[d]

Adding == {"sync_directory", "page_split", "create_batch_structure", "make_derivatives",
           "archive_backups", "build_mets", "write_action_log"}

(* What may be there between L, before the job, and G, after it            *)
Midway(j, L, G) ==
  CASE j.type \in Adding ->
         /\ AsIn(L, {To(j)})
         /\ \/ fs[To(j)] = L[To(j)]
            \/ Have(L, To(j)) \subseteq fs[To(j)] /\ fs[To(j)] \subseteq G[To(j)]
    [] j.type = "delete_directory" ->
         /\ AsIn(L, {From(j)})
         /\ fs[From(j)] = NoDir \/ fs[From(j)] \subseteq L[From(j)]
    [] j.type = "clean_files" ->
         /\ AsIn(L, {From(j)})
         /\ G[From(j)] \subseteq fs[From(j)] /\ fs[From(j)] \subseteq L[From(j)]
    [] j.type = "move_derivatives" ->
         /\ AsIn(L, {From(j), To(j)})
         /\ \/ fs[To(j)] = NoDir /\ fs[From(j)] = L[From(j)] /\ jobState # "running"
            \/ /\ fs[To(j)] \subseteq G[To(j)]
               /\ fs[From(j)] \cup fs[To(j)] = L[From(j)]
               /\ G[From(j)] \subseteq fs[From(j)]
    [] j.type = "rename_directory" ->
         AsIn(L, {}) \/ (AsIn(G, {}) /\ jobState # "running")
    [] OTHER -> AsIn(L, {})

(* Job j is executed: it takes the rows from r and b to r2 and b2.          *)
On(j, L, G, r, r2, b, b2) ==
  /\ row \in {r, r2} /\ batch \in {b, b2}
  /\ Midway(j, L, G)
  /\ jobState = "done" => row = r2 /\ batch = b2 /\ AsIn(G, {})

(* The k-th job of the plan is next, or the plan has come to its end.      *)
Between(plan, s, k) ==
  /\ row = RowAt(plan, s, k) /\ batch = BatchAt(plan, k) /\ AsIn(Disk(plan, s, k), {})

Under(plan, s, k) ==
  /\ k <= Length(plan, s)
  /\ todo = SubSeq(JobsOf(plan, s), k, Length(plan, s))
  /\ scan = "idle"
  /\ On(JobsOf(plan, s)[k], Disk(plan, s, k), Disk(plan, s, k + 1),
        RowAt(plan, s, k), RowAt(plan, s, k + 1), BatchAt(plan, k), BatchAt(plan, k + 1))

(* All jobs that matter to the files and the rows are done ...             *)
Ended(plan, s) == scan = "idle" /\ Between(plan, s, Length(plan, s) + 1)

(* ... or all jobs.                                                        *)
Over(plan, s) == todo = <<>> /\ jobState = "pending" /\ Ended(plan, s)

(* The watcher of page review is at it, or died.                           *)
Watching ==
  /\ todo = <<>> /\ scan # "idle" /\ jobState = "pending"
  /\ AsIn(Disk("derive", FALSE, 1), {}) /\ batch = BatchAt("sftp", 18)
  /\ scan = "renamed" => row = RowAt("sftp", FALSE, 18)
  /\ scan = "saved" => row = RowAt("derive", FALSE, 1)
  /\ scan = "dead" => row \in {RowAt("sftp", FALSE, 18), RowAt("derive", FALSE, 1)}

(* Only uploads that were not scanned are split into pages.                *)
PlansFor(s) == IF s THEN Plans \ {"sftp"} ELSE Plans

OnPlan ==
  \/ Watching
  \/ \E s \in BOOLEAN : \E plan \in PlansFor(s) :
       Over(plan, s) \/ \E k \in 1..17 : Under(plan, s, k)

(* A job that is not doomed by an earlier attempt is retried for faults only. *)
Counted ==
  /\ jobState \in {"on_hold", "stranded", "pending", "running", "done", "failed", "in_process"}
  /\ retries \in 0..MaxRetries /\ faults \in 0..MaxFaults
  /\ scan \in {"idle", "renamed", "saved", "dead"}
  /\ todo = <<>> => retries = 0
  /\ todo # <<>> /\ Head(todo).type \notin Unrepeatable =>
       retries <= faults /\ (MaxFaults <= MaxRetries => jobState # "failed")

IInv == fs \in Disks /\ OnPlan /\ Counted

----------------------------------------------------------------------------
(* Files and pipelines                                                     *)

(* The kinds of files have none in common, and none is NoDir's mark.       *)
LEMMA Kinds ==
  /\ Originals \subseteq Files /\ PageFiles \subseteq Files
  /\ Derivatives \subseteq Files /\ Tars \subseteq Files
  /\ Cruft \in Files /\ METS \in Files /\ Log \in Files
  /\ Originals \cap (PageFiles \cup Derivatives \cup Tars \cup {Cruft, METS, Log}) = {}
  /\ PageFiles \cap (Derivatives \cup Tars \cup {Cruft, METS, Log}) = {}
  /\ Derivatives \cap (Tars \cup {Cruft, METS, Log}) = {}
  /\ Tars \cap {Cruft, METS, Log} = {}
  /\ Cruft # METS /\ Cruft # Log /\ METS # Log
  /\ \A X \in SUBSET Files : X # NoDir
<1>1. \A k \in {"original", "page", "derivative", "tarred"} : FilesOf(k) \subseteq Files
  <2>1. SUFFICES ASSUME NEW k \in {"original", "page", "derivative", "tarred"}, NEW f \in FilesOf(k)
                 PROVE  f \in Files
    OBVIOUS
  <2>2. FilesOf(k) \in {FilesOf(x) : x \in {"original", "page", "derivative", "tarred"}}
    OBVIOUS
  <2>3. QED
    BY <2>1, <2>2 DEF Files
<1>2. <<"no such directory", 0>> \notin Files
  BY DEF Files, FilesOf, Cruft, METS, Log
<1>3. \A X \in SUBSET Files : X # NoDir
  BY <1>2 DEF NoDir
<1>4. Cruft \in Files /\ METS \in Files /\ Log \in Files
  BY DEF Files
<1>5. Cruft # METS /\ Cruft # Log /\ METS # Log
  BY DEF Cruft, METS, Log
<1>6. /\ Originals \cap (PageFiles \cup Derivatives \cup Tars \cup {Cruft, METS, Log}) = {}
      /\ PageFiles \cap (Derivatives \cup Tars \cup {Cruft, METS, Log}) = {}
      /\ Derivatives \cap (Tars \cup {Cruft, METS, Log}) = {}
      /\ Tars \cap {Cruft, METS, Log} = {}
  BY DEF Originals, PageFiles, Derivatives, Tars, FilesOf, Cruft, METS, Log
<1>7. QED
  BY <1>1, <1>3, <1>4, <1>5, <1>6 DEF Originals, PageFiles, Derivatives, Tars

(* There is a page.                                                        *)
LEMMA SomeFiles ==
  Originals # {} /\ PageFiles # {} /\ Derivatives # {} /\ Tars # {}
BY MoveAssumption DEF Originals, PageFiles, Derivatives, Tars, FilesOf

Types ==
  Adding \cup {"delete_directory", "clean_files", "move_derivatives", "rename_directory",
             "set_issue_workflow_step", "set_issue_location",
             "set_issue_original_backup_location", "ignore_issue", "record_issue_action",
             "renumber_pages", "make_batch_xml", "write_bagit_manifest",
             "set_batch_location", "set_batch_status"}
Places == Dirs \cup {"", "issue", "batch", "errors-wip", "errors"}
Jobs == [type : Types, from : Places, to : Places \cup Steps \cup {"qc_ready"}]

(* Two and three lists of jobs one after the other.                        *)
LEMMA JoinTwo ==
  ASSUME NEW a \in Seq(Jobs), NEW b \in Seq(Jobs)
  PROVE  LET J == a \o b
             m == Len(a)
         IN  /\ J \in Seq(Jobs) /\ Len(J) = m + Len(b)
             /\ \A i \in 1..m + Len(b) : J[i] = IF i <= m THEN a[i] ELSE b[i - m]
BY ConcatProperties, LenProperties

LEMMA Join ==
  ASSUME NEW a \in Seq(Jobs), NEW b \in Seq(Jobs), NEW c \in Seq(Jobs)
  PROVE  LET J == a \o b \o c
             m == Len(a)
             n == Len(a) + Len(b)
         IN  /\ J \in Seq(Jobs)
             /\ Len(J) = n + Len(c)
             /\ \A i \in 1..n + Len(c) :
                  J[i] = IF i <= m THEN a[i] ELSE IF i <= n THEN b[i - m] ELSE c[i - n]
<1> DEFINE ab == a \o b
           m == Len(a)
           l == Len(ab)
<1>1. /\ ab \in Seq(Jobs) /\ l = m + Len(b)
      /\ \A i \in 1..m + Len(b) : ab[i] = IF i <= m THEN a[i] ELSE b[i - m]
  BY JoinTwo
<1>2. m \in Nat /\ Len(b) \in Nat /\ Len(c) \in Nat
  BY LenProperties
<1> HIDE DEF ab
<1> DEFINE J == ab \o c
<1>3. /\ J \in Seq(Jobs) /\ Len(J) = l + Len(c)
      /\ \A i \in 1..l + Len(c) : J[i] = IF i <= l THEN ab[i] ELSE c[i - l]
  BY <1>1, JoinTwo
<1> HIDE DEF J
<1>4. /\ J \in Seq(Jobs) /\ Len(J) = Len(a) + Len(b) + Len(c)
      /\ \A i \in 1..Len(a) + Len(b) + Len(c) :
           J[i] = IF i <= Len(a) THEN a[i]
                  ELSE IF i <= Len(a) + Len(b) THEN b[i - Len(a)] ELSE c[i - (Len(a) + Len(b))]
  BY <1>1, <1>2, <1>3
<1>5. QED
  BY <1>4 DEF J, ab

LEMMA Three ==
  ASSUME NEW a \in Jobs, NEW b \in Jobs, NEW c \in Jobs
  PROVE  LET J == <<a, b, c>>
         IN  J \in Seq(Jobs) /\ Len(J) = 3 /\ J[1] = a /\ J[2] = b /\ J[3] = c
OBVIOUS

LEMMA MoveThroughJobs ==
  ASSUME NEW src \in Dirs, NEW wip \in Dirs, NEW dst \in Dirs
  PROVE  LET J == MoveThrough(src, wip, dst)
         IN  /\ J \in Seq(Jobs) /\ Len(J) = 3
             /\ J[1] = SyncDir(src, wip) /\ J[2] = KillDir(src) /\ J[3] = RenameDir(wip, dst)
<1>1. SyncDir(src, wip) \in Jobs /\ KillDir(src) \in Jobs /\ RenameDir(wip, dst) \in Jobs
  BY DEF SyncDir, KillDir, RenameDir, Job, Jobs, Types, Adding, Places
<1>2. QED
  BY <1>1, Three DEF MoveThrough

LEMMA ArchiveJobList ==
  ASSUME NEW issue, issue.backup = "backup"
  PROVE  LET J == ArchiveJobs(issue)
         IN  /\ J \in Seq(Jobs) /\ Len(J) = 3
             /\ J[1] = OnIssue("archive_backups")
             /\ J[2] = KillDir("backup") /\ J[3] = SetBackup("")
<1> DEFINE a == OnIssue("archive_backups")
           b == KillDir("backup")
           c == SetBackup("")
<1>1. a \in Jobs /\ b \in Jobs /\ c \in Jobs
  BY DEF KillDir, OnIssue, SetBackup, Job, Jobs, Types, Adding, Places, Dirs
<1>2. ArchiveJobs(issue) = <<a, b, c>>
  BY DEF ArchiveJobs
<1> HIDE DEF a, b, c
<1>3. ArchiveJobs(issue) \in Seq(Jobs) /\ Len(ArchiveJobs(issue)) = 3
      /\ ArchiveJobs(issue)[1] = a /\ ArchiveJobs(issue)[2] = b /\ ArchiveJobs(issue)[3] = c
  BY <1>1, <1>2
<1>4. QED
  BY <1>3 DEF a, b, c

LEMMA SftpJobs ==
  ASSUME NEW s
  PROVE  LET J == JobsOf("sftp", s)
         IN  /\ J \in Seq(Jobs) /\ Len(J) = 17
             /\ J[1] = SetWS("AwaitingProcessing")
             /\ J[2] = SyncDir("upload", "workflow-wip")
             /\ J[3] = KillDir("upload")
             /\ J[4] = RenameDir("workflow-wip", "workflow")
             /\ J[5] = SetLocation("workflow")
             /\ J[6] = Job("clean_files", "workflow", "")
             /\ J[7] = Job("page_split", "issue", "workflow-wip")
             /\ J[8] = SyncDir("workflow", "backup")
             /\ J[9] = KillDir("workflow")
             /\ J[10] = SetBackup("backup")
             /\ J[11] = RenameDir("workflow-wip", "workflow")
             /\ J[12] = SyncDir("workflow", "pagereview-wip")
             /\ J[13] = KillDir("workflow")
             /\ J[14] = RenameDir("pagereview-wip", "pagereview")
             /\ J[15] = SetLocation("pagereview")
             /\ J[16] = SetWS("AwaitingPageReview")
             /\ J[17] = RecordAction
<1> DEFINE j1 == SetWS("AwaitingProcessing")
           j5 == SetLocation("workflow")
           j6 == Job("clean_files", "workflow", "")
           j7 == Job("page_split", "issue", "workflow-wip")
           j8 == SyncDir("workflow", "backup")
           j9 == KillDir("workflow")
           j10 == SetBackup("backup")
           j11 == RenameDir("workflow-wip", "workflow")
           j15 == SetLocation("pagereview")
           j16 == SetWS("AwaitingPageReview")
           j17 == RecordAction
           b == MoveThrough("upload", "workflow-wip", "workflow")
           d == MoveThrough("workflow", "pagereview-wip", "pagereview")
           a == <<j1>>
           c == <<j5, j6, j7, j8, j9, j10, j11>>
           e == <<j15, j16, j17>>
<1>1. /\ j1 \in Jobs /\ j5 \in Jobs /\ j6 \in Jobs /\ j7 \in Jobs /\ j8 \in Jobs
      /\ j9 \in Jobs /\ j10 \in Jobs /\ j11 \in Jobs /\ j15 \in Jobs /\ j16 \in Jobs
      /\ j17 \in Jobs
  BY DEF SetWS, SetLocation, SyncDir, KillDir, SetBackup, RenameDir, RecordAction, OnIssue,
         Job, Jobs, Types, Adding, Places, Dirs, Steps
<1>2. /\ b \in Seq(Jobs) /\ Len(b) = 3 /\ b[1] = SyncDir("upload", "workflow-wip")
      /\ b[2] = KillDir("upload") /\ b[3] = RenameDir("workflow-wip", "workflow")
      /\ d \in Seq(Jobs) /\ Len(d) = 3 /\ d[1] = SyncDir("workflow", "pagereview-wip")
      /\ d[2] = KillDir("workflow") /\ d[3] = RenameDir("pagereview-wip", "pagereview")
  <2>1. {"upload", "workflow-wip", "workflow", "pagereview-wip", "pagereview"} \subseteq Dirs
    BY DEF Dirs
  <2>2. /\ b \in Seq(Jobs) /\ Len(b) = 3 /\ b[1] = SyncDir("upload", "workflow-wip")
        /\ b[2] = KillDir("upload") /\ b[3] = RenameDir("workflow-wip", "workflow")
    BY <2>1, MoveThroughJobs
  <2>3. /\ d \in Seq(Jobs) /\ Len(d) = 3 /\ d[1] = SyncDir("workflow", "pagereview-wip")
        /\ d[2] = KillDir("workflow") /\ d[3] = RenameDir("pagereview-wip", "pagereview")
    BY <2>1, MoveThroughJobs
  <2> HIDE DEF b, d
  <2>4. QED
    BY <2>2, <2>3
<1>3. JobsOf("sftp", s) = a \o b \o c \o d \o e
  BY DEF JobsOf, QueueSFTPIssueMove
<1> HIDE DEF j1, j5, j6, j7, j8, j9, j10, j11, j15, j16, j17, b, d
<1>4. /\ a \in Seq(Jobs) /\ Len(a) = 1 /\ a[1] = j1
      /\ c \in Seq(Jobs) /\ Len(c) = 7
      /\ c[1] = j5 /\ c[2] = j6 /\ c[3] = j7 /\ c[4] = j8 /\ c[5] = j9 /\ c[6] = j10 /\ c[7] = j11
      /\ e \in Seq(Jobs) /\ Len(e) = 3 /\ e[1] = j15 /\ e[2] = j16 /\ e[3] = j17
  BY <1>1
<1> HIDE DEF a, c, e
<1> DEFINE abc == a \o b \o c
<1>5. LET m == Len(a)
          n == Len(a) + Len(b)
      IN  /\ abc \in Seq(Jobs)
          /\ Len(abc) = n + Len(c)
          /\ \A i \in 1..n + Len(c) :
               abc[i] = IF i <= m THEN a[i] ELSE IF i <= n THEN b[i - m] ELSE c[i - n]
  <2>1. a \in Seq(Jobs) /\ b \in Seq(Jobs) /\ c \in Seq(Jobs)
    BY <1>2, <1>4
  <2>2. QED
    BY <2>1, Join, Zenon
<1>6. JobsOf("sftp", s) = abc \o d \o e
  BY <1>3
<1>7. abc \in Seq(Jobs) /\ d \in Seq(Jobs) /\ e \in Seq(Jobs)
  BY <1>2, <1>4, <1>5
<1> HIDE DEF abc
<1> DEFINE J == abc \o d \o e
<1>8. LET m == Len(abc)
          n == Len(abc) + Len(d)
      IN  /\ J \in Seq(Jobs)
          /\ Len(J) = n + Len(e)
          /\ \A i \in 1..n + Len(e) :
               J[i] = IF i <= m THEN abc[i] ELSE IF i <= n THEN d[i - m] ELSE e[i - n]
  BY <1>7, Join
<1> HIDE DEF J
<1>9. /\ Len(abc) = 11
      /\ abc[1] = j1 /\ abc[2] = b[1] /\ abc[3] = b[2] /\ abc[4] = b[3]
      /\ abc[5] = j5 /\ abc[6] = j6 /\ abc[7] = j7 /\ abc[8] = j8 /\ abc[9] = j9
      /\ abc[10] = j10 /\ abc[11] = j11
  BY <1>2, <1>4, <1>5
<1>10. /\ J \in Seq(Jobs) /\ Len(J) = 17
      /\ J[1] = abc[1] /\ J[2] = abc[2] /\ J[3] = abc[3] /\ J[4] = abc[4] /\ J[5] = abc[5]
      /\ J[6] = abc[6] /\ J[7] = abc[7] /\ J[8] = abc[8] /\ J[9] = abc[9] /\ J[10] = abc[10]
      /\ J[11] = abc[11] /\ J[12] = d[1] /\ J[13] = d[2] /\ J[14] = d[3]
      /\ J[15] = j15 /\ J[16] = j16 /\ J[17] = j17
  BY <1>2, <1>4, <1>8, <1>9
<1>11. JobsOf("sftp", s) = J
  BY <1>6 DEF J
<1>12. QED
  BY <1>2, <1>9, <1>10, <1>11 DEF j1, j5, j6, j7, j8, j9, j10, j11, j15, j16, j17

LEMMA DeriveJobs ==
  ASSUME NEW s
  PROVE  LET J == JobsOf("derive", s)
         IN  /\ J \in Seq(Jobs) /\ Len(J) = 10
             /\ J[1] = SetWS("AwaitingProcessing")
             /\ J[2] = SyncDir(Source(s), "workflow-wip")
             /\ J[3] = KillDir(Source(s))
             /\ J[4] = RenameDir("workflow-wip", "workflow")
             /\ J[5] = SetLocation("workflow")
             /\ J[6] = Job("clean_files", "workflow", "")
             /\ J[7] = OnIssue("renumber_pages")
             /\ J[8] = OnIssue("make_derivatives")
             /\ J[9] = SetWS("ReadyForMetadataEntry")
             /\ J[10] = RecordAction
<1> DEFINE j1 == SetWS("AwaitingProcessing")
           j5 == SetLocation("workflow")
           j6 == Job("clean_files", "workflow", "")
           j7 == OnIssue("renumber_pages")
           j8 == OnIssue("make_derivatives")
           j9 == SetWS("ReadyForMetadataEntry")
           j10 == RecordAction
           b == MoveThrough(Source(s), "workflow-wip", "workflow")
           a == <<j1>>
           c == <<j5, j6, j7, j8, j9, j10>>
           J == a \o b \o c
<1>1. j1 \in Jobs /\ j5 \in Jobs /\ j6 \in Jobs /\ j7 \in Jobs /\ j8 \in Jobs /\ j9 \in Jobs /\ j10 \in Jobs
  BY DEF SetWS, SetLocation, SyncDir, KillDir, SetBackup, RenameDir, RecordAction, OnIssue,
         Job, Jobs, Types, Adding, Places, Dirs, Steps
<1>2. /\ b \in Seq(Jobs) /\ Len(b) = 3 /\ b[1] = SyncDir(Source(s), "workflow-wip")
      /\ b[2] = KillDir(Source(s)) /\ b[3] = RenameDir("workflow-wip", "workflow")
  <2>1. Source(s) \in Dirs /\ "workflow-wip" \in Dirs /\ "workflow" \in Dirs
    BY DEF Dirs, Source
  <2>2. QED
    BY <2>1, MoveThroughJobs
<1>3. JobsOf("derive", s) = J
  BY DEF JobsOf, QueueMoveIssueForDerivatives
<1> HIDE DEF j1, j5, j6, j7, j8, j9, j10, b
<1>4. /\ a \in Seq(Jobs) /\ Len(a) = 1 /\ a[1] = j1
      /\ c \in Seq(Jobs) /\ Len(c) = 6 /\ c[1] = j5 /\ c[2] = j6 /\ c[3] = j7 /\ c[4] = j8 /\ c[5] = j9 /\ c[6] = j10
  BY <1>1
<1> HIDE DEF a, c
<1>5. LET m == Len(a)
          n == Len(a) + Len(b)
      IN  /\ J \in Seq(Jobs)
          /\ Len(J) = n + Len(c)
          /\ \A i \in 1..n + Len(c) :
               J[i] = IF i <= m THEN a[i] ELSE IF i <= n THEN b[i - m] ELSE c[i - n]
  <2>1. a \in Seq(Jobs) /\ b \in Seq(Jobs) /\ c \in Seq(Jobs)
    BY <1>2, <1>4
  <2>2. QED
    BY <2>1, Join, Zenon
<1> HIDE DEF J
<1>6. /\ J \in Seq(Jobs) /\ Len(J) = 10
      /\ J[1] = j1 /\ J[2] = b[1] /\ J[3] = b[2] /\ J[4] = b[3]
      /\ J[5] = j5 /\ J[6] = j6 /\ J[7] = j7 /\ J[8] = j8
      /\ J[9] = j9 /\ J[10] = j10
  BY <1>2, <1>4, <1>5
<1>7. QED
  BY <1>2, <1>3, <1>6 DEF j1, j5, j6, j7, j8, j9, j10

LEMMA FinalizeJobsOfScans ==
  ASSUME NEW s, s = TRUE
  PROVE  LET J == JobsOf("finalize", s)
         IN  /\ J \in Seq(Jobs) /\ Len(J) = 3
             /\ J[1] = OnIssue("build_mets")
             /\ J[2] = SetWS("ReadyForBatching")
             /\ J[3] = RecordAction
<1> DEFINE j1 == OnIssue("build_mets")
           j2 == SetWS("ReadyForBatching")
           j3 == RecordAction
           b == ArchiveJobs([backup |-> ""])
           a == <<j1>>
           c == <<j2, j3>>
           J == a \o b \o c
<1>1. j1 \in Jobs /\ j2 \in Jobs /\ j3 \in Jobs
  BY DEF SetWS, SetLocation, SyncDir, KillDir, SetBackup, RenameDir, RecordAction, OnIssue,
         Job, Jobs, Types, Adding, Places, Dirs, Steps
<1>2. b \in Seq(Jobs) /\ Len(b) = 0
  BY EmptySeq DEF ArchiveJobs
<1>3. JobsOf("finalize", s) = J
  BY DEF JobsOf, QueueFinalizeIssue, Backup
<1> HIDE DEF j1, j2, j3, b
<1>4. /\ a \in Seq(Jobs) /\ Len(a) = 1 /\ a[1] = j1
      /\ c \in Seq(Jobs) /\ Len(c) = 2 /\ c[1] = j2 /\ c[2] = j3
  BY <1>1
<1> HIDE DEF a, c
<1>5. LET m == Len(a)
          n == Len(a) + Len(b)
      IN  /\ J \in Seq(Jobs)
          /\ Len(J) = n + Len(c)
          /\ \A i \in 1..n + Len(c) :
               J[i] = IF i <= m THEN a[i] ELSE IF i <= n THEN b[i - m] ELSE c[i - n]
  <2>1. a \in Seq(Jobs) /\ b \in Seq(Jobs) /\ c \in Seq(Jobs)
    BY <1>2, <1>4
  <2>2. QED
    BY <2>1, Join, Zenon
<1> HIDE DEF J
<1>6. /\ J \in Seq(Jobs) /\ Len(J) = 3
      /\ J[1] = j1 /\ J[2] = j2 /\ J[3] = j3
  BY <1>2, <1>4, <1>5
<1>7. QED
  BY <1>2, <1>3, <1>6 DEF j1, j2, j3

LEMMA FinalizeJobs ==
  ASSUME NEW s, s = FALSE
  PROVE  LET J == JobsOf("finalize", s)
         IN  /\ J \in Seq(Jobs) /\ Len(J) = 6
             /\ J[1] = OnIssue("build_mets")
             /\ J[2] = OnIssue("archive_backups")
             /\ J[3] = KillDir("backup")
             /\ J[4] = SetBackup("")
             /\ J[5] = SetWS("ReadyForBatching")
             /\ J[6] = RecordAction
<1> DEFINE j1 == OnIssue("build_mets")
           j2 == OnIssue("archive_backups")
           j3 == KillDir("backup")
           j4 == SetBackup("")
           j5 == SetWS("ReadyForBatching")
           j6 == RecordAction
           b == ArchiveJobs([backup |-> "backup"])
           a == <<j1>>
           c == <<j5, j6>>
           J == a \o b \o c
<1>1. j1 \in Jobs /\ j2 \in Jobs /\ j3 \in Jobs /\ j4 \in Jobs /\ j5 \in Jobs /\ j6 \in Jobs
  BY DEF SetWS, SetLocation, SyncDir, KillDir, SetBackup, RenameDir, RecordAction, OnIssue,
         Job, Jobs, Types, Adding, Places, Dirs, Steps
<1>2. /\ b \in Seq(Jobs) /\ Len(b) = 3 /\ b[1] = j2 /\ b[2] = j3 /\ b[3] = j4
  BY ArchiveJobList
<1>3. JobsOf("finalize", s) = J
  BY DEF JobsOf, QueueFinalizeIssue, Backup
<1> HIDE DEF j1, j2, j3, j4, j5, j6, b
<1>4. /\ a \in Seq(Jobs) /\ Len(a) = 1 /\ a[1] = j1
      /\ c \in Seq(Jobs) /\ Len(c) = 2 /\ c[1] = j5 /\ c[2] = j6
  BY <1>1
<1> HIDE DEF a, c
<1>5. LET m == Len(a)
          n == Len(a) + Len(b)
      IN  /\ J \in Seq(Jobs)
          /\ Len(J) = n + Len(c)
          /\ \A i \in 1..n + Len(c) :
               J[i] = IF i <= m THEN a[i] ELSE IF i <= n THEN b[i - m] ELSE c[i - n]
  <2>1. a \in Seq(Jobs) /\ b \in Seq(Jobs) /\ c \in Seq(Jobs)
    BY <1>2, <1>4
  <2>2. QED
    BY <2>1, Join, Zenon
<1> HIDE DEF J
<1>6. /\ J \in Seq(Jobs) /\ Len(J) = 6
      /\ J[1] = j1 /\ J[2] = j2 /\ J[3] = j3 /\ J[4] = j4
      /\ J[5] = j5 /\ J[6] = j6
  BY <1>2, <1>4, <1>5
<1>7. QED
  BY <1>2, <1>3, <1>6 DEF j1, j2, j3, j4, j5, j6

LEMMA RemoveJobsOfScans ==
  ASSUME NEW s, s = TRUE
  PROVE  LET J == JobsOf("remove", s)
         IN  /\ J \in Seq(Jobs) /\ Len(J) = 10
             /\ J[1] = SyncDir("workflow", "errors-wip/content")
             /\ J[2] = KillDir("workflow")
             /\ J[3] = SetLocation("errors-wip/content")
             /\ J[4] = Job("move_derivatives", "issue", "errors-wip/derivatives")
             /\ J[5] = OnIssue("write_action_log")
             /\ J[6] = RenameDir("errors-wip", "errors")
             /\ J[7] = OnIssue("ignore_issue")
             /\ J[8] = SetLocation("")
             /\ J[9] = SetWS("UnfixableMetadataError")
             /\ J[10] = RecordAction
<1> DEFINE j1 == SyncDir("workflow", "errors-wip/content")
           j2 == KillDir("workflow")
           j3 == SetLocation("errors-wip/content")
           j4 == Job("move_derivatives", "issue", "errors-wip/derivatives")
           j5 == OnIssue("write_action_log")
           j6 == RenameDir("errors-wip", "errors")
           j7 == OnIssue("ignore_issue")
           j8 == SetLocation("")
           j9 == SetWS("UnfixableMetadataError")
           j10 == RecordAction
           b == ArchiveJobs([location |-> "workflow", backup |-> ""])
           a == <<j1, j2, j3, j4, j5>>
           c == <<j6, j7, j8, j9, j10>>
           J == a \o b \o c
<1>1. j1 \in Jobs /\ j2 \in Jobs /\ j3 \in Jobs /\ j4 \in Jobs /\ j5 \in Jobs /\ j6 \in Jobs /\ j7 \in Jobs /\ j8 \in Jobs /\ j9 \in Jobs /\ j10 \in Jobs
  BY DEF SetWS, SetLocation, SyncDir, KillDir, SetBackup, RenameDir, RecordAction, OnIssue,
         Job, Jobs, Types, Adding, Places, Dirs, Steps
<1>2. b \in Seq(Jobs) /\ Len(b) = 0
  BY EmptySeq DEF ArchiveJobs
<1>3. JobsOf("remove", s) = J
  BY DEF JobsOf, GetJobsForRemoveErroredIssue, Backup
<1> HIDE DEF j1, j2, j3, j4, j5, j6, j7, j8, j9, j10, b
<1>4. /\ a \in Seq(Jobs) /\ Len(a) = 5 /\ a[1] = j1 /\ a[2] = j2 /\ a[3] = j3 /\ a[4] = j4 /\ a[5] = j5
      /\ c \in Seq(Jobs) /\ Len(c) = 5 /\ c[1] = j6 /\ c[2] = j7 /\ c[3] = j8 /\ c[4] = j9 /\ c[5] = j10
  BY <1>1
<1> HIDE DEF a, c
<1>5. LET m == Len(a)
          n == Len(a) + Len(b)
      IN  /\ J \in Seq(Jobs)
          /\ Len(J) = n + Len(c)
          /\ \A i \in 1..n + Len(c) :
               J[i] = IF i <= m THEN a[i] ELSE IF i <= n THEN b[i - m] ELSE c[i - n]
  <2>1. a \in Seq(Jobs) /\ b \in Seq(Jobs) /\ c \in Seq(Jobs)
    BY <1>2, <1>4
  <2>2. QED
    BY <2>1, Join, Zenon
<1> HIDE DEF J
<1>6. /\ J \in Seq(Jobs) /\ Len(J) = 10
      /\ J[1] = j1 /\ J[2] = j2 /\ J[3] = j3 /\ J[4] = j4
      /\ J[5] = j5 /\ J[6] = j6 /\ J[7] = j7 /\ J[8] = j8
      /\ J[9] = j9 /\ J[10] = j10
  BY <1>2, <1>4, <1>5
<1>7. QED
  BY <1>2, <1>3, <1>6 DEF j1, j2, j3, j4, j5, j6, j7, j8, j9, j10

LEMMA RemoveJobs ==
  ASSUME NEW s, s = FALSE
  PROVE  LET J == JobsOf("remove", s)
         IN  /\ J \in Seq(Jobs) /\ Len(J) = 13
             /\ J[1] = SyncDir("workflow", "errors-wip/content")
             /\ J[2] = KillDir("workflow")
             /\ J[3] = SetLocation("errors-wip/content")
             /\ J[4] = Job("move_derivatives", "issue", "errors-wip/derivatives")
             /\ J[5] = OnIssue("write_action_log")
             /\ J[6] = OnIssue("archive_backups")
             /\ J[7] = KillDir("backup")
             /\ J[8] = SetBackup("")
             /\ J[9] = RenameDir("errors-wip", "errors")
             /\ J[10] = OnIssue("ignore_issue")
             /\ J[11] = SetLocation("")
             /\ J[12] = SetWS("UnfixableMetadataError")
             /\ J[13] = RecordAction
<1> DEFINE j1 == SyncDir("workflow", "errors-wip/content")
           j2 == KillDir("workflow")
           j3 == SetLocation("errors-wip/content")
           j4 == Job("move_derivatives", "issue", "errors-wip/derivatives")
           j5 == OnIssue("write_action_log")
           j6 == OnIssue("archive_backups")
           j7 == KillDir("backup")
           j8 == SetBackup("")
           j9 == RenameDir("errors-wip", "errors")
           j10 == OnIssue("ignore_issue")
           j11 == SetLocation("")
           j12 == SetWS("UnfixableMetadataError")
           j13 == RecordAction
           b == ArchiveJobs([location |-> "workflow", backup |-> "backup"])
           a == <<j1, j2, j3, j4, j5>>
           c == <<j9, j10, j11, j12, j13>>
           J == a \o b \o c
<1>1. j1 \in Jobs /\ j2 \in Jobs /\ j3 \in Jobs /\ j4 \in Jobs /\ j5 \in Jobs /\ j6 \in Jobs /\ j7 \in Jobs /\ j8 \in Jobs /\ j9 \in Jobs /\ j10 \in Jobs /\ j11 \in Jobs /\ j12 \in Jobs /\ j13 \in Jobs
  BY DEF SetWS, SetLocation, SyncDir, KillDir, SetBackup, RenameDir, RecordAction, OnIssue,
         Job, Jobs, Types, Adding, Places, Dirs, Steps
<1>2. /\ b \in Seq(Jobs) /\ Len(b) = 3 /\ b[1] = j6 /\ b[2] = j7 /\ b[3] = j8
  BY ArchiveJobList
<1>3. JobsOf("remove", s) = J
  BY DEF JobsOf, GetJobsForRemoveErroredIssue, Backup
<1> HIDE DEF j1, j2, j3, j4, j5, j6, j7, j8, j9, j10, j11, j12, j13, b
<1>4. /\ a \in Seq(Jobs) /\ Len(a) = 5 /\ a[1] = j1 /\ a[2] = j2 /\ a[3] = j3 /\ a[4] = j4 /\ a[5] = j5
      /\ c \in Seq(Jobs) /\ Len(c) = 5 /\ c[1] = j9 /\ c[2] = j10 /\ c[3] = j11 /\ c[4] = j12 /\ c[5] = j13
  BY <1>1
<1> HIDE DEF a, c
<1>5. LET m == Len(a)
          n == Len(a) + Len(b)
      IN  /\ J \in Seq(Jobs)
          /\ Len(J) = n + Len(c)
          /\ \A i \in 1..n + Len(c) :
               J[i] = IF i <= m THEN a[i] ELSE IF i <= n THEN b[i - m] ELSE c[i - n]
  <2>1. a \in Seq(Jobs) /\ b \in Seq(Jobs) /\ c \in Seq(Jobs)
    BY <1>2, <1>4
  <2>2. QED
    BY <2>1, Join, Zenon
<1> HIDE DEF J
<1>6. /\ J \in Seq(Jobs) /\ Len(J) = 13
      /\ J[1] = j1 /\ J[2] = j2 /\ J[3] = j3 /\ J[4] = j4
      /\ J[5] = j5 /\ J[6] = j6 /\ J[7] = j7 /\ J[8] = j8
      /\ J[9] = j9 /\ J[10] = j10 /\ J[11] = j11 /\ J[12] = j12
      /\ J[13] = j13
  BY <1>2, <1>4, <1>5
<1>7. QED
  BY <1>2, <1>3, <1>6 DEF j1, j2, j3, j4, j5, j6, j7, j8, j9, j10, j11, j12, j13

LEMMA BatchJobs ==
  ASSUME NEW s
  PROVE  LET J == JobsOf("batch", s)
         IN  /\ J \in Seq(Jobs) /\ Len(J) = 7
             /\ J[1] = Job("create_batch_structure", "issue", "batch-wip")
             /\ J[2] = Job("set_batch_location", "", "batch-wip")
             /\ J[3] = Job("make_batch_xml", "batch", "")
             /\ J[4] = RenameDir("batch-wip", "batch")
             /\ J[5] = Job("set_batch_location", "", "batch")
             /\ J[6] = Job("set_batch_status", "", "qc_ready")
             /\ J[7] = Job("write_bagit_manifest", "batch", "")
<1> DEFINE j1 == Job("create_batch_structure", "issue", "batch-wip")
           j2 == Job("set_batch_location", "", "batch-wip")
           j3 == Job("make_batch_xml", "batch", "")
           j4 == RenameDir("batch-wip", "batch")
           j5 == Job("set_batch_location", "", "batch")
           j6 == Job("set_batch_status", "", "qc_ready")
           j7 == Job("write_bagit_manifest", "batch", "")
           J == <<j1, j2, j3, j4, j5, j6, j7>>
<1>1. j1 \in Jobs /\ j2 \in Jobs /\ j3 \in Jobs /\ j4 \in Jobs /\ j5 \in Jobs /\ j6 \in Jobs /\ j7 \in Jobs
  BY DEF SetWS, RenameDir, RecordAction, OnIssue, Job, Jobs, Types, Adding, Places, Dirs, Steps
<1>2. JobsOf("batch", s) = J
  BY DEF JobsOf, QueueMakeBatch
<1> HIDE DEF j1, j2, j3, j4, j5, j6, j7
<1>3. /\ J \in Seq(Jobs) /\ Len(J) = 7
      /\ J[1] = j1 /\ J[2] = j2 /\ J[3] = j3 /\ J[4] = j4 /\ J[5] = j5 /\ J[6] = j6 /\ J[7] = j7
  BY <1>1
<1>4. QED
  BY <1>2, <1>3 DEF j1, j2, j3, j4, j5, j6, j7

LEMMA ForceJobs ==
  ASSUME NEW s
  PROVE  LET J == JobsOf("force", s)
         IN  /\ J \in Seq(Jobs) /\ Len(J) = 5
             /\ J[1] = SetWS("AwaitingProcessing")
             /\ J[2] = OnIssue("make_derivatives")
             /\ J[3] = OnIssue("build_mets")
             /\ J[4] = SetWS("ReadyForBatching")
             /\ J[5] = RecordAction
<1> DEFINE j1 == SetWS("AwaitingProcessing")
           j2 == OnIssue("make_derivatives")
           j3 == OnIssue("build_mets")
           j4 == SetWS("ReadyForBatching")
           j5 == RecordAction
           J == <<j1, j2, j3, j4, j5>>
<1>1. j1 \in Jobs /\ j2 \in Jobs /\ j3 \in Jobs /\ j4 \in Jobs /\ j5 \in Jobs
  BY DEF SetWS, RenameDir, RecordAction, OnIssue, Job, Jobs, Types, Adding, Places, Dirs, Steps
<1>2. JobsOf("force", s) = J
  BY DEF JobsOf, QueueForceDerivatives
<1> HIDE DEF j1, j2, j3, j4, j5
<1>3. /\ J \in Seq(Jobs) /\ Len(J) = 5
      /\ J[1] = j1 /\ J[2] = j2 /\ J[3] = j3 /\ J[4] = j4 /\ J[5] = j5
  BY <1>1
<1>4. QED
  BY <1>2, <1>3 DEF j1, j2, j3, j4, j5

----------------------------------------------------------------------------
(* What the job between two annotations does                               *)

At(place, r, b) == IF place = "issue" THEN r.location
                   ELSE IF place = "batch" THEN b.location ELSE place

(* The directories other people look into                                  *)
Shown == {"pagereview", "errors/content", "batch"}

Changes(L, G, d, files) ==
  d \in Dirs \ Shown /\ G[d] = files /\ \A x \in Dirs \ {d} : G[x] = L[x]
Adds(L, G, d, files) ==
  files # {} /\ files \subseteq Files /\ Changes(L, G, d, Have(L, d) \cup files)

RenamesOne(L, G, from, to) ==
  /\ from \in Dirs /\ to \in Dirs /\ from # to
  /\ L[to] = NoDir /\ G[from] = NoDir /\ G[to] = L[from]
  /\ \A x \in Dirs \ {from, to} : G[x] = L[x]

RenamesErrors(L, G) ==
  /\ L["errors/content"] = NoDir /\ L["errors/derivatives"] = NoDir
  /\ G["errors-wip/content"] = NoDir /\ G["errors-wip/derivatives"] = NoDir
  /\ G["errors/content"] = L["errors-wip/content"]
  /\ G["errors/derivatives"] = L["errors-wip/derivatives"]
  /\ \A x \in Dirs \ {"errors-wip/content", "errors-wip/derivatives",
                      "errors/content", "errors/derivatives"} : G[x] = L[x]

(* The job saves the rows, or leaves them alone.                           *)
Saves(j, r, r2, b, b2) ==
  /\ r = RowOf(r.scanned, r.location, r.backup, r.ws, r.ignored)
  /\ b = BatchOf(b.location, b.status)
  /\ CASE j.type = "set_issue_workflow_step" ->
              r2 = RowOf(r.scanned, r.location, r.backup, j.to, r.ignored)
       [] j.type = "set_issue_location" ->
              r2 = RowOf(r.scanned, j.to, r.backup, r.ws, r.ignored)
       [] j.type = "set_issue_original_backup_location" ->
              r2 = RowOf(r.scanned, r.location, j.to, r.ws, r.ignored)
       [] j.type = "ignore_issue" ->
              r2 = RowOf(r.scanned, r.location, r.backup, r.ws, TRUE)
       [] OTHER -> r2 = r
  /\ CASE j.type = "set_batch_location" -> b2 = BatchOf(j.to, b.status)
       [] j.type = "set_batch_status"   -> b2 = BatchOf(b.location, j.to)
       [] OTHER                         -> b2 = b

Sound(j, L, G, r, r2, b, b2) ==
  LET src == At(j.from, r, b)
      dst == At(j.to, r, b)
  IN  /\ L \in Disks /\ G \in Disks
      /\ Saves(j, r, r2, b, b2)
      /\ CASE j.type \in {"sync_directory", "create_batch_structure"} ->
                /\ src \in Dirs \ {dst} /\ L[src] # NoDir
                /\ L[dst] = NoDir /\ Adds(L, G, dst, L[src])
           [] j.type = "page_split" ->
                /\ src \in Dirs \ {dst} /\ L[src] = Originals
                /\ L[dst] = NoDir /\ Adds(L, G, dst, PageFiles)
           [] j.type = "make_derivatives" ->
                /\ src = dst /\ PageFiles \subseteq L[dst]
                /\ L[dst] \subseteq PageFiles \cup Derivatives \cup Tars \cup {METS}
                /\ Adds(L, G, dst, Derivatives)
           [] j.type = "archive_backups" ->
                /\ r.backup = "backup" /\ L["backup"] = Originals
                /\ dst # "backup" /\ L[dst] # NoDir /\ Adds(L, G, dst, Tars)
           [] j.type = "build_mets" -> src = dst /\ L[dst] # NoDir /\ Adds(L, G, dst, {METS})
           [] j.type = "write_action_log" -> src = dst /\ L[dst] # NoDir /\ Adds(L, G, dst, {Log})
           [] j.type = "delete_directory" ->
                j.from \in Dirs \ {"batch"} /\ L[src] # NoDir /\ Changes(L, G, src, NoDir)
           [] j.type = "clean_files" ->
                L[src] # NoDir /\ Changes(L, G, src, L[src] \ {Cruft})
           [] j.type = "move_derivatives" ->
                /\ src \in Dirs \ (Shown \cup {dst}) /\ dst \in Dirs \ Shown
                /\ L[src] = Readied /\ G[src] = PageFiles
                /\ L[dst] = NoDir /\ G[dst] = Derivatives
                /\ \A x \in Dirs \ {src, dst} : G[x] = L[x]
           [] j.type = "rename_directory" ->
                \/ RenamesOne(L, G, j.from, j.to)
                \/ j.from = "errors-wip" /\ j.to = "errors" /\ RenamesErrors(L, G)
           [] OTHER ->
                /\ \A x \in Dirs : G[x] = L[x]
                /\ j.type \in {"renumber_pages", "make_batch_xml", "write_bagit_manifest"} =>
                     src \in Dirs /\ L[src] # NoDir

(* Jobs that touch no file are sound as soon as they save what they should. *)
LEMMA OnlySaves ==
  ASSUME NEW j, NEW L \in Disks, NEW G \in Disks, NEW r, NEW r2, NEW b, NEW b2,
         \A x \in Dirs : G[x] = L[x], Saves(j, r, r2, b, b2),
         j.type \in {"set_issue_workflow_step", "set_issue_location", "set_batch_location",
                    "set_issue_original_backup_location", "set_batch_status", "ignore_issue",
                    "record_issue_action"}
  PROVE  Sound(j, L, G, r, r2, b, b2)
BY DEF Sound

(* What is left to be shown of the jobs for whole directories              *)
LEMMA Copies ==
  ASSUME NEW from \in Dirs \ {"batch"}, NEW to \in Dirs \ {from, "batch"},
         NEW L \in Disks, NEW G \in Disks,
         NEW r, NEW r2, NEW b, NEW b2, Saves(SyncDir(from, to), r, r2, b, b2),
         L[from] # NoDir, L[to] = NoDir, Adds(L, G, to, L[from])
  PROVE  Sound(SyncDir(from, to), L, G, r, r2, b, b2)
<1> DEFINE j == SyncDir(from, to)
<1>1. j.type = "sync_directory" /\ j.from = from /\ j.to = to
  BY DEF SyncDir, Job
<1>2. At(from, r, b) = from /\ At(to, r, b) = to
  BY DEF At, Dirs
<1>3. Saves(j, r, r2, b, b2)
  OBVIOUS
<1> HIDE DEF j
<1>4. Sound(j, L, G, r, r2, b, b2)
  BY <1>1, <1>2, <1>3 DEF Sound
<1>5. QED
  BY <1>4 DEF j

LEMMA Kills ==
  ASSUME NEW from \in Dirs \ {"batch"}, NEW L \in Disks, NEW G \in Disks,
         NEW r, NEW r2, NEW b, NEW b2, Saves(KillDir(from), r, r2, b, b2),
         L[from] # NoDir, Changes(L, G, from, NoDir)
  PROVE  Sound(KillDir(from), L, G, r, r2, b, b2)
BY DEF Sound, At, KillDir, Job, Dirs

LEMMA Renames ==
  ASSUME NEW from, NEW to, NEW L \in Disks, NEW G \in Disks,
         NEW r, NEW r2, NEW b, NEW b2, Saves(RenameDir(from, to), r, r2, b, b2),
         \/ RenamesOne(L, G, from, to)
         \/ from = "errors-wip" /\ to = "errors" /\ RenamesErrors(L, G)
  PROVE  Sound(RenameDir(from, to), L, G, r, r2, b, b2)
BY DEF Sound, RenameDir, Job

(* And of those for the directory the issue or the batch is in             *)
LEMMA Reads ==
  ASSUME NEW j, NEW L \in Disks, NEW G \in Disks, NEW r, NEW r2, NEW b, NEW b2,
         Saves(j, r, r2, b, b2),
         j.type \in {"renumber_pages", "make_batch_xml", "write_bagit_manifest"},
         At(j.from, r, b) \in Dirs, L[At(j.from, r, b)] # NoDir, \A x \in Dirs : G[x] = L[x]
  PROVE  Sound(j, L, G, r, r2, b, b2)
BY DEF Sound

LEMMA Derives ==
  ASSUME NEW L \in Disks, NEW G \in Disks, NEW r, NEW r2, NEW b, NEW b2, NEW d, d = r.location,
         Saves(OnIssue("make_derivatives"), r, r2, b, b2),
         PageFiles \subseteq L[d], L[d] \subseteq PageFiles \cup Derivatives \cup Tars \cup {METS},
         Adds(L, G, d, Derivatives)
  PROVE  Sound(OnIssue("make_derivatives"), L, G, r, r2, b, b2)
BY DEF Sound, At, OnIssue, Job

LEMMA Writes ==
  ASSUME NEW L \in Disks, NEW G \in Disks, NEW r, NEW r2, NEW b, NEW b2, NEW d, d = r.location,
         NEW type \in {"build_mets", "write_action_log"}, Saves(OnIssue(type), r, r2, b, b2),
         L[d] # NoDir, Adds(L, G, d, IF type = "build_mets" THEN {METS} ELSE {Log})
  PROVE  Sound(OnIssue(type), L, G, r, r2, b, b2)
BY DEF Sound, At, OnIssue, Job

(* The annotations describe directories.                                   *)
LEMMA DiskTypes ==
  ASSUME NEW s, NEW plan, NEW k
  PROVE  Disk(plan, s, k) \in Disks
<1> DEFINE X == {NoDir} \cup SUBSET Files
<1> USE Kinds DEF Held, If, Uploaded, Reviewed, Readied, Batched
<1>1. ASSUME NEW d PROVE SftpDisk(k, d) \in X
  BY DEF SftpDisk
<1>2. ASSUME NEW d PROVE DeriveDisk(s, k, d) \in X
  BY DEF DeriveDisk
<1>3. ASSUME NEW d PROVE FinalizeDisk(s, k, d) \in X
  BY DEF FinalizeDisk
<1>4. ASSUME NEW d PROVE RemoveDisk(s, k, d) \in X
  BY DEF RemoveDisk
<1>5. ASSUME NEW d, NEW n PROVE BatchDisk(s, n, d) \in X
  BY DEF BatchDisk
<1>6. ASSUME NEW d PROVE Held(Uploaded(s), d = "upload") \in X
  OBVIOUS
<1>7. QED
  BY <1>1, <1>2, <1>3, <1>4, <1>5, <1>6 DEF Disk, Disks, Plans

LEMMA SftpSound ==
  ASSUME NEW s, s = FALSE, NEW k \in 1..17
  PROVE  Sound(JobsOf("sftp", s)[k], Disk("sftp", s, k), Disk("sftp", s, k + 1),
               RowAt("sftp", s, k), RowAt("sftp", s, k + 1), BatchAt("sftp", k), BatchAt("sftp", k + 1))
<1> DEFINE Right(n, m, j) ==
      \A L, G \in Disks :
        (\A d \in Dirs : L[d] = SftpDisk(n, d) /\ G[d] = SftpDisk(m, d)) =>
          Sound(j, L, G, SftpRow(s, n), SftpRow(s, m), BatchOf("", "none"), BatchOf("", "none"))
<1>1. /\ Right(1, 2, SetWS("AwaitingProcessing"))
      /\ Right(2, 3, SyncDir("upload", "workflow-wip"))
      /\ Right(3, 4, KillDir("upload"))
      /\ Right(4, 5, RenameDir("workflow-wip", "workflow"))
      /\ Right(5, 6, SetLocation("workflow"))
      /\ Right(6, 7, Job("clean_files", "workflow", ""))
      /\ Right(7, 8, Job("page_split", "issue", "workflow-wip"))
      /\ Right(8, 9, SyncDir("workflow", "backup"))
      /\ Right(9, 10, KillDir("workflow"))
      /\ Right(10, 11, SetBackup("backup"))
      /\ Right(11, 12, RenameDir("workflow-wip", "workflow"))
      /\ Right(12, 13, SyncDir("workflow", "pagereview-wip"))
      /\ Right(13, 14, KillDir("workflow"))
      /\ Right(14, 15, RenameDir("pagereview-wip", "pagereview"))
      /\ Right(15, 16, SetLocation("pagereview"))
      /\ Right(16, 17, SetWS("AwaitingPageReview"))
      /\ Right(17, 18, RecordAction)
  <2>1. Right(1, 2, SetWS("AwaitingProcessing"))
    <3>1. Saves(SetWS("AwaitingProcessing"), SftpRow(s, 1), SftpRow(s, 2),
                BatchOf("", "none"), BatchOf("", "none"))
      BY DEF Saves, Job, SetWS, SftpRow, RowOf, BatchOf
    <3>2. \A d : SftpDisk(1, d) = SftpDisk(2, d)
      BY DEF SftpDisk
    <3>3. SetWS("AwaitingProcessing").type = "set_issue_workflow_step"
      BY DEF Job, SetWS
    <3>4. QED
      BY <3>1, <3>2, <3>3, OnlySaves
  <2>5. Right(5, 6, SetLocation("workflow"))
    <3>1. Saves(SetLocation("workflow"), SftpRow(s, 5), SftpRow(s, 6),
                BatchOf("", "none"), BatchOf("", "none"))
      BY DEF Saves, Job, SetLocation, SftpRow, RowOf, BatchOf
    <3>2. \A d : SftpDisk(5, d) = SftpDisk(6, d)
      BY DEF SftpDisk
    <3>3. SetLocation("workflow").type = "set_issue_location"
      BY DEF Job, SetLocation
    <3>4. QED
      BY <3>1, <3>2, <3>3, OnlySaves
  <2>10. Right(10, 11, SetBackup("backup"))
    <3>1. Saves(SetBackup("backup"), SftpRow(s, 10), SftpRow(s, 11),
                BatchOf("", "none"), BatchOf("", "none"))
      BY DEF Saves, Job, SetBackup, SftpRow, RowOf, BatchOf
    <3>2. \A d : SftpDisk(10, d) = SftpDisk(11, d)
      BY DEF SftpDisk
    <3>3. SetBackup("backup").type = "set_issue_original_backup_location"
      BY DEF Job, SetBackup
    <3>4. QED
      BY <3>1, <3>2, <3>3, OnlySaves
  <2>15. Right(15, 16, SetLocation("pagereview"))
    <3>1. Saves(SetLocation("pagereview"), SftpRow(s, 15), SftpRow(s, 16),
                BatchOf("", "none"), BatchOf("", "none"))
      BY DEF Saves, Job, SetLocation, SftpRow, RowOf, BatchOf
    <3>2. \A d : SftpDisk(15, d) = SftpDisk(16, d)
      BY DEF SftpDisk
    <3>3. SetLocation("pagereview").type = "set_issue_location"
      BY DEF Job, SetLocation
    <3>4. QED
      BY <3>1, <3>2, <3>3, OnlySaves
  <2>16. Right(16, 17, SetWS("AwaitingPageReview"))
    <3>1. Saves(SetWS("AwaitingPageReview"), SftpRow(s, 16), SftpRow(s, 17),
                BatchOf("", "none"), BatchOf("", "none"))
      BY DEF Saves, Job, SetWS, SftpRow, RowOf, BatchOf
    <3>2. \A d : SftpDisk(16, d) = SftpDisk(17, d)
      BY DEF SftpDisk
    <3>3. SetWS("AwaitingPageReview").type = "set_issue_workflow_step"
      BY DEF Job, SetWS
    <3>4. QED
      BY <3>1, <3>2, <3>3, OnlySaves
  <2>2. Right(2, 3, SyncDir("upload", "workflow-wip"))
    <3>1. Saves(SyncDir("upload", "workflow-wip"), SftpRow(s, 2), SftpRow(s, 3),
                BatchOf("", "none"), BatchOf("", "none"))
      BY DEF Saves, Job, SyncDir, SftpRow, RowOf, BatchOf
    <3>2. "upload" \in Dirs \ {"batch"} /\ "workflow-wip" \in Dirs \ {"upload", "batch"}
      BY DEF Dirs
    <3>3. ASSUME NEW L \in Disks, NEW G \in Disks,
                 \A d \in Dirs : L[d] = SftpDisk(2, d) /\ G[d] = SftpDisk(3, d)
          PROVE  L["upload"] # NoDir /\ L["workflow-wip"] = NoDir /\ Adds(L, G, "workflow-wip", L["upload"])
      BY <3>3, Kinds, SomeFiles DEF Adds, Changes, Shown, Have, Dirs, SftpDisk, Held, Uploaded
    <3>4. QED
      BY <3>1, <3>2, <3>3, Copies
  <2>3. Right(3, 4, KillDir("upload"))
    <3>1. Saves(KillDir("upload"), SftpRow(s, 3), SftpRow(s, 4),
                BatchOf("", "none"), BatchOf("", "none"))
      BY DEF Saves, Job, KillDir, SftpRow, RowOf, BatchOf
    <3>2. "upload" \in Dirs \ {"batch"}
      BY DEF Dirs
    <3>3. ASSUME NEW L \in Disks, NEW G \in Disks,
                 \A d \in Dirs : L[d] = SftpDisk(3, d) /\ G[d] = SftpDisk(4, d)
          PROVE  L["upload"] # NoDir /\ Changes(L, G, "upload", NoDir)
      BY <3>3, Kinds, SomeFiles DEF Changes, Shown, Dirs, SftpDisk, Held, Uploaded
    <3>4. QED
      BY <3>1, <3>2, <3>3, Kills
  <2>4. Right(4, 5, RenameDir("workflow-wip", "workflow"))
    <3>1. Saves(RenameDir("workflow-wip", "workflow"), SftpRow(s, 4), SftpRow(s, 5),
                BatchOf("", "none"), BatchOf("", "none"))
      BY DEF Saves, Job, RenameDir, SftpRow, RowOf, BatchOf
    <3>2. ASSUME NEW L \in Disks, NEW G \in Disks,
                 \A d \in Dirs : L[d] = SftpDisk(4, d) /\ G[d] = SftpDisk(5, d)
          PROVE  RenamesOne(L, G, "workflow-wip", "workflow")
      BY <3>2, Kinds, SomeFiles DEF RenamesOne, Dirs, SftpDisk, Held, Uploaded
    <3>3. QED
      BY <3>1, <3>2, Renames
  <2>8. Right(8, 9, SyncDir("workflow", "backup"))
    <3>1. Saves(SyncDir("workflow", "backup"), SftpRow(s, 8), SftpRow(s, 9),
                BatchOf("", "none"), BatchOf("", "none"))
      BY DEF Saves, Job, SyncDir, SftpRow, RowOf, BatchOf
    <3>2. "workflow" \in Dirs \ {"batch"} /\ "backup" \in Dirs \ {"workflow", "batch"}
      BY DEF Dirs
    <3>3. ASSUME NEW L \in Disks, NEW G \in Disks,
                 \A d \in Dirs : L[d] = SftpDisk(8, d) /\ G[d] = SftpDisk(9, d)
          PROVE  L["workflow"] # NoDir /\ L["backup"] = NoDir /\ Adds(L, G, "backup", L["workflow"])
      BY <3>3, Kinds, SomeFiles DEF Adds, Changes, Shown, Have, Dirs, SftpDisk, Held, Uploaded
    <3>4. QED
      BY <3>1, <3>2, <3>3, Copies
  <2>9. Right(9, 10, KillDir("workflow"))
    <3>1. Saves(KillDir("workflow"), SftpRow(s, 9), SftpRow(s, 10),
                BatchOf("", "none"), BatchOf("", "none"))
      BY DEF Saves, Job, KillDir, SftpRow, RowOf, BatchOf
    <3>2. "workflow" \in Dirs \ {"batch"}
      BY DEF Dirs
    <3>3. ASSUME NEW L \in Disks, NEW G \in Disks,
                 \A d \in Dirs : L[d] = SftpDisk(9, d) /\ G[d] = SftpDisk(10, d)
          PROVE  L["workflow"] # NoDir /\ Changes(L, G, "workflow", NoDir)
      BY <3>3, Kinds, SomeFiles DEF Changes, Shown, Dirs, SftpDisk, Held, Uploaded
    <3>4. QED
      BY <3>1, <3>2, <3>3, Kills
  <2>11. Right(11, 12, RenameDir("workflow-wip", "workflow"))
    <3>1. Saves(RenameDir("workflow-wip", "workflow"), SftpRow(s, 11), SftpRow(s, 12),
                BatchOf("", "none"), BatchOf("", "none"))
      BY DEF Saves, Job, RenameDir, SftpRow, RowOf, BatchOf
    <3>2. ASSUME NEW L \in Disks, NEW G \in Disks,
                 \A d \in Dirs : L[d] = SftpDisk(11, d) /\ G[d] = SftpDisk(12, d)
          PROVE  RenamesOne(L, G, "workflow-wip", "workflow")
      BY <3>2, Kinds, SomeFiles DEF RenamesOne, Dirs, SftpDisk, Held, Uploaded
    <3>3. QED
      BY <3>1, <3>2, Renames
  <2>12. Right(12, 13, SyncDir("workflow", "pagereview-wip"))
    <3>1. Saves(SyncDir("workflow", "pagereview-wip"), SftpRow(s, 12), SftpRow(s, 13),
                BatchOf("", "none"), BatchOf("", "none"))
      BY DEF Saves, Job, SyncDir, SftpRow, RowOf, BatchOf
    <3>2. "workflow" \in Dirs \ {"batch"} /\ "pagereview-wip" \in Dirs \ {"workflow", "batch"}
      BY DEF Dirs
    <3>3. ASSUME NEW L \in Disks, NEW G \in Disks,
                 \A d \in Dirs : L[d] = SftpDisk(12, d) /\ G[d] = SftpDisk(13, d)
          PROVE  L["workflow"] # NoDir /\ L["pagereview-wip"] = NoDir /\ Adds(L, G, "pagereview-wip", L["workflow"])
      BY <3>3, Kinds, SomeFiles DEF Adds, Changes, Shown, Have, Dirs, SftpDisk, Held, Uploaded
    <3>4. QED
      BY <3>1, <3>2, <3>3, Copies
  <2>13. Right(13, 14, KillDir("workflow"))
    <3>1. Saves(KillDir("workflow"), SftpRow(s, 13), SftpRow(s, 14),
                BatchOf("", "none"), BatchOf("", "none"))
      BY DEF Saves, Job, KillDir, SftpRow, RowOf, BatchOf
    <3>2. "workflow" \in Dirs \ {"batch"}
      BY DEF Dirs
    <3>3. ASSUME NEW L \in Disks, NEW G \in Disks,
                 \A d \in Dirs : L[d] = SftpDisk(13, d) /\ G[d] = SftpDisk(14, d)
          PROVE  L["workflow"] # NoDir /\ Changes(L, G, "workflow", NoDir)
      BY <3>3, Kinds, SomeFiles DEF Changes, Shown, Dirs, SftpDisk, Held, Uploaded
    <3>4. QED
      BY <3>1, <3>2, <3>3, Kills
  <2>14. Right(14, 15, RenameDir("pagereview-wip", "pagereview"))
    <3>1. Saves(RenameDir("pagereview-wip", "pagereview"), SftpRow(s, 14), SftpRow(s, 15),
                BatchOf("", "none"), BatchOf("", "none"))
      BY DEF Saves, Job, RenameDir, SftpRow, RowOf, BatchOf
    <3>2. ASSUME NEW L \in Disks, NEW G \in Disks,
                 \A d \in Dirs : L[d] = SftpDisk(14, d) /\ G[d] = SftpDisk(15, d)
          PROVE  RenamesOne(L, G, "pagereview-wip", "pagereview")
      BY <3>2, Kinds, SomeFiles DEF RenamesOne, Dirs, SftpDisk, Held, Uploaded
    <3>3. QED
      BY <3>1, <3>2, Renames
  <2>17. Right(17, 18, RecordAction)
    <3>1. Saves(RecordAction, SftpRow(s, 17), SftpRow(s, 18),
                BatchOf("", "none"), BatchOf("", "none"))
      BY DEF Saves, Job, RecordAction, OnIssue, SftpRow, RowOf, BatchOf
    <3>2. \A d : SftpDisk(17, d) = SftpDisk(18, d)
      BY DEF SftpDisk
    <3>3. RecordAction.type = "record_issue_action"
      BY DEF Job, RecordAction, OnIssue
    <3>4. QED
      BY <3>1, <3>2, <3>3, OnlySaves
  <2> USE Kinds, SomeFiles
      DEF Sound, Saves, BatchOf, At, Dirs, RowOf, Held, Job, SftpDisk, Uploaded, SftpRow
  <2>6. Right(6, 7, Job("clean_files", "workflow", ""))
    BY DEF Changes, Shown
  <2>7. Right(7, 8, Job("page_split", "issue", "workflow-wip"))
    BY DEF Adds, Changes, Shown, Have
  <2> HIDE Kinds, SomeFiles DEF Right
  <2>18. QED
    BY <2>1, <2>2, <2>3, <2>4, <2>5, <2>6, <2>7, <2>8, <2>9, <2>10, <2>11, <2>12, <2>13,
       <2>14, <2>15, <2>16, <2>17
<1> HIDE DEF Right
<1> DEFINE J == JobsOf("sftp", s)
           L == Disk("sftp", s, k)
           G == Disk("sftp", s, k + 1)
<1>2. /\ Right(1, 2, J[1]) /\ Right(2, 3, J[2]) /\ Right(3, 4, J[3]) /\ Right(4, 5, J[4])
      /\ Right(5, 6, J[5]) /\ Right(6, 7, J[6]) /\ Right(7, 8, J[7]) /\ Right(8, 9, J[8])
      /\ Right(9, 10, J[9]) /\ Right(10, 11, J[10]) /\ Right(11, 12, J[11])
      /\ Right(12, 13, J[12]) /\ Right(13, 14, J[13]) /\ Right(14, 15, J[14])
      /\ Right(15, 16, J[15]) /\ Right(16, 17, J[16]) /\ Right(17, 18, J[17])
  <2>1. /\ Right(1, 2, J[1]) /\ Right(2, 3, J[2]) /\ Right(3, 4, J[3])
        /\ Right(4, 5, J[4]) /\ Right(5, 6, J[5]) /\ Right(6, 7, J[6])
    BY <1>1, SftpJobs, Zenon
  <2>2. /\ Right(7, 8, J[7]) /\ Right(8, 9, J[8]) /\ Right(9, 10, J[9])
        /\ Right(10, 11, J[10]) /\ Right(11, 12, J[11]) /\ Right(12, 13, J[12])
    BY <1>1, SftpJobs, Zenon
  <2>3. /\ Right(13, 14, J[13]) /\ Right(14, 15, J[14]) /\ Right(15, 16, J[15])
        /\ Right(16, 17, J[16]) /\ Right(17, 18, J[17])
    BY <1>1, SftpJobs, Zenon
  <2>4. QED
    BY <2>1, <2>2, <2>3, Zenon
<1>3. \A n : /\ \A d \in Dirs : Disk("sftp", s, n)[d] = SftpDisk(n, d)
            /\ Disk("sftp", s, n) \in Disks
            /\ RowAt("sftp", s, n) = SftpRow(s, n)
            /\ BatchAt("sftp", n) = BatchOf("", "none")
  BY DiskTypes DEF Disk, RowAt, BatchAt
<1>4. /\ L \in Disks /\ G \in Disks
      /\ \A d \in Dirs : L[d] = SftpDisk(k, d) /\ G[d] = SftpDisk(k + 1, d)
  BY <1>3
<1> HIDE DEF J, L, G
<1>5. Right(k, k + 1, J[k])
  BY <1>2
<1>6. Sound(J[k], L, G, SftpRow(s, k), SftpRow(s, k + 1), BatchOf("", "none"), BatchOf("", "none"))
  BY <1>4, <1>5, Zenon DEF Right
<1>7. RowAt("sftp", s, k) = SftpRow(s, k) /\ RowAt("sftp", s, k + 1) = SftpRow(s, k + 1)
      /\ BatchAt("sftp", k) = BatchOf("", "none") /\ BatchAt("sftp", k + 1) = BatchOf("", "none")
  BY <1>3
<1>8. QED
  BY <1>6, <1>7, Zenon DEF J, L, G

LEMMA DeriveSound ==
  ASSUME NEW s \in BOOLEAN, NEW k \in 1..10
  PROVE  Sound(JobsOf("derive", s)[k], Disk("derive", s, k), Disk("derive", s, k + 1),
               RowAt("derive", s, k), RowAt("derive", s, k + 1), BatchAt("derive", k), BatchAt("derive", k + 1))
<1> DEFINE Right(n, m, j) ==
      \A L, G \in Disks :
        (\A d \in Dirs : L[d] = DeriveDisk(s, n, d) /\ G[d] = DeriveDisk(s, m, d)) =>
          Sound(j, L, G, DeriveRow(s, n), DeriveRow(s, m), BatchOf("", "none"), BatchOf("", "none"))
<1>1. /\ Right(1, 2, SetWS("AwaitingProcessing"))
      /\ Right(2, 3, SyncDir(Source(s), "workflow-wip"))
      /\ Right(3, 4, KillDir(Source(s)))
      /\ Right(4, 5, RenameDir("workflow-wip", "workflow"))
      /\ Right(5, 6, SetLocation("workflow"))
      /\ Right(6, 7, Job("clean_files", "workflow", ""))
      /\ Right(7, 8, OnIssue("renumber_pages"))
      /\ Right(8, 9, OnIssue("make_derivatives"))
      /\ Right(9, 10, SetWS("ReadyForMetadataEntry"))
      /\ Right(10, 11, RecordAction)
  <2>1. Right(1, 2, SetWS("AwaitingProcessing"))
    <3>1. Saves(SetWS("AwaitingProcessing"), DeriveRow(s, 1), DeriveRow(s, 2),
                BatchOf("", "none"), BatchOf("", "none"))
      BY DEF Saves, Job, SetWS, DeriveRow, Backup, Source, RowOf, BatchOf
    <3>2. \A d : DeriveDisk(s, 1, d) = DeriveDisk(s, 2, d)
      BY DEF DeriveDisk
    <3>3. SetWS("AwaitingProcessing").type = "set_issue_workflow_step"
      BY DEF Job, SetWS
    <3>4. QED
      BY <3>1, <3>2, <3>3, OnlySaves
  <2>2. Right(2, 3, SyncDir(Source(s), "workflow-wip"))
    <3>1. Saves(SyncDir(Source(s), "workflow-wip"), DeriveRow(s, 2), DeriveRow(s, 3),
                BatchOf("", "none"), BatchOf("", "none"))
      BY DEF Saves, Job, SyncDir, DeriveRow, Backup, Source, RowOf, BatchOf
    <3>2. Source(s) \in Dirs \ {"batch"} /\ "workflow-wip" \in Dirs \ {Source(s), "batch"}
      BY DEF Dirs, Source
    <3>3. ASSUME NEW L \in Disks, NEW G \in Disks,
                 \A d \in Dirs : L[d] = DeriveDisk(s, 2, d) /\ G[d] = DeriveDisk(s, 3, d)
          PROVE  L[Source(s)] # NoDir /\ L["workflow-wip"] = NoDir /\ Adds(L, G, "workflow-wip", L[Source(s)])
      BY <3>3, Kinds, SomeFiles DEF Adds, Changes, Shown, Have, Dirs, DeriveDisk, Held, Source, Reviewed, Readied, If
    <3>4. QED
      BY <3>1, <3>2, <3>3, Copies
  <2>3. Right(3, 4, KillDir(Source(s)))
    <3>1. Saves(KillDir(Source(s)), DeriveRow(s, 3), DeriveRow(s, 4),
                BatchOf("", "none"), BatchOf("", "none"))
      BY DEF Saves, Job, KillDir, DeriveRow, Backup, Source, RowOf, BatchOf
    <3>2. Source(s) \in Dirs \ {"batch"}
      BY DEF Dirs, Source
    <3>3. ASSUME NEW L \in Disks, NEW G \in Disks,
                 \A d \in Dirs : L[d] = DeriveDisk(s, 3, d) /\ G[d] = DeriveDisk(s, 4, d)
          PROVE  L[Source(s)] # NoDir /\ Changes(L, G, Source(s), NoDir)
      BY <3>3, Kinds, SomeFiles DEF Changes, Shown, Dirs, DeriveDisk, Held, Source, Reviewed, Readied, If
    <3>4. QED
      BY <3>1, <3>2, <3>3, Kills
  <2>4. Right(4, 5, RenameDir("workflow-wip", "workflow"))
    <3>1. Saves(RenameDir("workflow-wip", "workflow"), DeriveRow(s, 4), DeriveRow(s, 5),
                BatchOf("", "none"), BatchOf("", "none"))
      BY DEF Saves, Job, RenameDir, DeriveRow, Backup, Source, RowOf, BatchOf
    <3>2. ASSUME NEW L \in Disks, NEW G \in Disks,
                 \A d \in Dirs : L[d] = DeriveDisk(s, 4, d) /\ G[d] = DeriveDisk(s, 5, d)
          PROVE  RenamesOne(L, G, "workflow-wip", "workflow")
      BY <3>2, Kinds, SomeFiles DEF RenamesOne, Dirs, DeriveDisk, Held, Source, Reviewed, Readied, If
    <3>3. QED
      BY <3>1, <3>2, Renames
  <2>5. Right(5, 6, SetLocation("workflow"))
    <3>1. Saves(SetLocation("workflow"), DeriveRow(s, 5), DeriveRow(s, 6),
                BatchOf("", "none"), BatchOf("", "none"))
      BY DEF Saves, Job, SetLocation, DeriveRow, Backup, Source, RowOf, BatchOf
    <3>2. \A d : DeriveDisk(s, 5, d) = DeriveDisk(s, 6, d)
      BY DEF DeriveDisk
    <3>3. SetLocation("workflow").type = "set_issue_location"
      BY DEF Job, SetLocation
    <3>4. QED
      BY <3>1, <3>2, <3>3, OnlySaves
  <2>9. Right(9, 10, SetWS("ReadyForMetadataEntry"))
    <3>1. Saves(SetWS("ReadyForMetadataEntry"), DeriveRow(s, 9), DeriveRow(s, 10),
                BatchOf("", "none"), BatchOf("", "none"))
      BY DEF Saves, Job, SetWS, DeriveRow, Backup, Source, RowOf, BatchOf
    <3>2. \A d : DeriveDisk(s, 9, d) = DeriveDisk(s, 10, d)
      BY DEF DeriveDisk
    <3>3. SetWS("ReadyForMetadataEntry").type = "set_issue_workflow_step"
      BY DEF Job, SetWS
    <3>4. QED
      BY <3>1, <3>2, <3>3, OnlySaves
  <2>10. Right(10, 11, RecordAction)
    <3>1. Saves(RecordAction, DeriveRow(s, 10), DeriveRow(s, 11),
                BatchOf("", "none"), BatchOf("", "none"))
      BY DEF Saves, Job, RecordAction, OnIssue, DeriveRow, Backup, Source, RowOf, BatchOf
    <3>2. \A d : DeriveDisk(s, 10, d) = DeriveDisk(s, 11, d)
      BY DEF DeriveDisk
    <3>3. RecordAction.type = "record_issue_action"
      BY DEF Job, RecordAction, OnIssue
    <3>4. QED
      BY <3>1, <3>2, <3>3, OnlySaves
  <2>7. Right(7, 8, OnIssue("renumber_pages"))
    <3>1. Saves(OnIssue("renumber_pages"), DeriveRow(s, 7), DeriveRow(s, 8),
                BatchOf("", "none"), BatchOf("", "none"))
      BY DEF Saves, Job, OnIssue, DeriveRow, Backup, Source, RowOf, BatchOf
    <3>2. At(OnIssue("renumber_pages").from, DeriveRow(s, 7), BatchOf("", "none")) = "workflow" /\ "workflow" \in Dirs
      BY DEF At, Job, Dirs, OnIssue, DeriveRow, Backup, Source, RowOf, BatchOf
    <3>3. OnIssue("renumber_pages").type = "renumber_pages"
      BY DEF Job, OnIssue
    <3>4. ASSUME NEW L \in Disks, NEW G \in Disks,
                 \A d \in Dirs : L[d] = DeriveDisk(s, 7, d) /\ G[d] = DeriveDisk(s, 8, d)
          PROVE  L["workflow"] # NoDir /\ \A x \in Dirs : G[x] = L[x]
      BY <3>4, Kinds DEF Dirs, DeriveDisk, Held, Source, Reviewed, Readied, If
    <3>5. QED
      BY <3>1, <3>2, <3>3, <3>4, Reads
  <2>8. Right(8, 9, OnIssue("make_derivatives"))
    <3>1. Saves(OnIssue("make_derivatives"), DeriveRow(s, 8), DeriveRow(s, 9),
                BatchOf("", "none"), BatchOf("", "none"))
      BY DEF Saves, Job, OnIssue, DeriveRow, Backup, Source, RowOf, BatchOf
    <3>2. DeriveRow(s, 8).location = "workflow"
      BY DEF DeriveRow, Backup, Source, RowOf, BatchOf
    <3>3. ASSUME NEW L \in Disks, NEW G \in Disks,
                 \A d \in Dirs : L[d] = DeriveDisk(s, 8, d) /\ G[d] = DeriveDisk(s, 9, d)
          PROVE  /\ PageFiles \subseteq L["workflow"]
                 /\ L["workflow"] \subseteq PageFiles \cup Derivatives \cup Tars \cup {METS}
                 /\ Adds(L, G, "workflow", Derivatives)
      BY <3>3, Kinds, SomeFiles DEF Adds, Changes, Shown, Have, Dirs, DeriveDisk, Held, Source, Reviewed, Readied, If
    <3>4. QED
      BY <3>1, <3>2, <3>3, Derives
  <2> USE Kinds, SomeFiles
      DEF Sound, Saves, BatchOf, At, Dirs, RowOf, Held, Job, DeriveDisk, Reviewed, Readied, If, Source, DeriveRow, Backup
  <2>6. Right(6, 7, Job("clean_files", "workflow", ""))
    BY DEF Changes, Shown
  <2> HIDE Kinds, SomeFiles DEF Right
  <2>11. QED
    BY <2>1, <2>2, <2>3, <2>4, <2>5, <2>6, <2>7, <2>8, <2>9, <2>10
<1> HIDE DEF Right
<1> DEFINE J == JobsOf("derive", s)
           L == Disk("derive", s, k)
           G == Disk("derive", s, k + 1)
<1>2. /\ Right(1, 2, J[1]) /\ Right(2, 3, J[2]) /\ Right(3, 4, J[3]) /\ Right(4, 5, J[4])
      /\ Right(5, 6, J[5]) /\ Right(6, 7, J[6]) /\ Right(7, 8, J[7]) /\ Right(8, 9, J[8])
      /\ Right(9, 10, J[9]) /\ Right(10, 11, J[10])
  BY <1>1, DeriveJobs, Zenon
<1>3. \A n : /\ \A d \in Dirs : Disk("derive", s, n)[d] = DeriveDisk(s, n, d)
            /\ Disk("derive", s, n) \in Disks
            /\ RowAt("derive", s, n) = DeriveRow(s, n)
            /\ BatchAt("derive", n) = BatchOf("", "none")
  BY DiskTypes DEF Disk, RowAt, BatchAt
<1>4. /\ L \in Disks /\ G \in Disks
      /\ \A d \in Dirs : L[d] = DeriveDisk(s, k, d) /\ G[d] = DeriveDisk(s, k + 1, d)
  BY <1>3
<1> HIDE DEF J, L, G
<1>5. Right(k, k + 1, J[k])
  BY <1>2
<1>6. Sound(J[k], L, G, DeriveRow(s, k), DeriveRow(s, k + 1), BatchOf("", "none"), BatchOf("", "none"))
  BY <1>4, <1>5, Zenon DEF Right
<1>7. RowAt("derive", s, k) = DeriveRow(s, k) /\ RowAt("derive", s, k + 1) = DeriveRow(s, k + 1)
      /\ BatchAt("derive", k) = BatchOf("", "none") /\ BatchAt("derive", k + 1) = BatchOf("", "none")
  BY <1>3
<1>8. QED
  BY <1>6, <1>7, Zenon DEF J, L, G

LEMMA FinalizeSoundOfScans ==
  ASSUME NEW s, s = TRUE, NEW k \in 1..3
  PROVE  Sound(JobsOf("finalize", s)[k], Disk("finalize", s, k), Disk("finalize", s, k + 1),
               RowAt("finalize", s, k), RowAt("finalize", s, k + 1), BatchAt("finalize", k), BatchAt("finalize", k + 1))
<1> DEFINE Right(n, m, j) ==
      \A L, G \in Disks :
        (\A d \in Dirs : L[d] = FinalizeDisk(s, n, d) /\ G[d] = FinalizeDisk(s, m, d)) =>
          Sound(j, L, G, FinalizeRow(s, n), FinalizeRow(s, m), BatchOf("", "none"), BatchOf("", "none"))
<1>1. /\ Right(1, 2, OnIssue("build_mets"))
      /\ Right(2, 3, SetWS("ReadyForBatching"))
      /\ Right(3, 4, RecordAction)
  <2>2. Right(2, 3, SetWS("ReadyForBatching"))
    <3>1. Saves(SetWS("ReadyForBatching"), FinalizeRow(s, 2), FinalizeRow(s, 3),
                BatchOf("", "none"), BatchOf("", "none"))
      BY DEF Saves, Job, SetWS, FinalizeRow, Backup, Packing, RowOf, BatchOf
    <3>2. \A d : FinalizeDisk(s, 2, d) = FinalizeDisk(s, 3, d)
      BY DEF FinalizeDisk
    <3>3. SetWS("ReadyForBatching").type = "set_issue_workflow_step"
      BY DEF Job, SetWS
    <3>4. QED
      BY <3>1, <3>2, <3>3, OnlySaves
  <2>3. Right(3, 4, RecordAction)
    <3>1. Saves(RecordAction, FinalizeRow(s, 3), FinalizeRow(s, 4),
                BatchOf("", "none"), BatchOf("", "none"))
      BY DEF Saves, Job, RecordAction, OnIssue, FinalizeRow, Backup, Packing, RowOf, BatchOf
    <3>2. \A d : FinalizeDisk(s, 3, d) = FinalizeDisk(s, 4, d)
      BY DEF FinalizeDisk
    <3>3. RecordAction.type = "record_issue_action"
      BY DEF Job, RecordAction, OnIssue
    <3>4. QED
      BY <3>1, <3>2, <3>3, OnlySaves
  <2>1. Right(1, 2, OnIssue("build_mets"))
    <3>1. Saves(OnIssue("build_mets"), FinalizeRow(s, 1), FinalizeRow(s, 2),
                BatchOf("", "none"), BatchOf("", "none"))
      BY DEF Saves, Job, OnIssue, FinalizeRow, Backup, Packing, RowOf, BatchOf
    <3>2. FinalizeRow(s, 1).location = "workflow"
      BY DEF FinalizeRow, Backup, Packing, RowOf, BatchOf
    <3>3. ASSUME NEW L \in Disks, NEW G \in Disks,
                 \A d \in Dirs : L[d] = FinalizeDisk(s, 1, d) /\ G[d] = FinalizeDisk(s, 2, d)
          PROVE  L["workflow"] # NoDir /\ Adds(L, G, "workflow", {METS})
      BY <3>3, Kinds, SomeFiles DEF Adds, Changes, Shown, Have, Dirs, FinalizeDisk, Held, Readied, If
    <3>4. QED
      BY <3>1, <3>2, <3>3, Writes
  <2> HIDE DEF Right
  <2>4. QED
    BY <2>1, <2>2, <2>3
<1> HIDE DEF Right
<1> DEFINE J == JobsOf("finalize", s)
           L == Disk("finalize", s, k)
           G == Disk("finalize", s, k + 1)
<1>2. /\ Right(1, 2, J[1]) /\ Right(2, 3, J[2]) /\ Right(3, 4, J[3])
  BY <1>1, FinalizeJobsOfScans, Zenon
<1>3. \A n : /\ \A d \in Dirs : Disk("finalize", s, n)[d] = FinalizeDisk(s, n, d)
            /\ Disk("finalize", s, n) \in Disks
            /\ RowAt("finalize", s, n) = FinalizeRow(s, n)
            /\ BatchAt("finalize", n) = BatchOf("", "none")
  BY DiskTypes DEF Disk, RowAt, BatchAt
<1>4. /\ L \in Disks /\ G \in Disks
      /\ \A d \in Dirs : L[d] = FinalizeDisk(s, k, d) /\ G[d] = FinalizeDisk(s, k + 1, d)
  BY <1>3
<1> HIDE DEF J, L, G
<1>5. Right(k, k + 1, J[k])
  BY <1>2
<1>6. Sound(J[k], L, G, FinalizeRow(s, k), FinalizeRow(s, k + 1), BatchOf("", "none"), BatchOf("", "none"))
  BY <1>4, <1>5, Zenon DEF Right
<1>7. RowAt("finalize", s, k) = FinalizeRow(s, k) /\ RowAt("finalize", s, k + 1) = FinalizeRow(s, k + 1)
      /\ BatchAt("finalize", k) = BatchOf("", "none") /\ BatchAt("finalize", k + 1) = BatchOf("", "none")
  BY <1>3
<1>8. QED
  BY <1>6, <1>7, Zenon DEF J, L, G

LEMMA FinalizeSound ==
  ASSUME NEW s, s = FALSE, NEW k \in 1..6
  PROVE  Sound(JobsOf("finalize", s)[k], Disk("finalize", s, k), Disk("finalize", s, k + 1),
               RowAt("finalize", s, k), RowAt("finalize", s, k + 1), BatchAt("finalize", k), BatchAt("finalize", k + 1))
<1> DEFINE Right(n, m, j) ==
      \A L, G \in Disks :
        (\A d \in Dirs : L[d] = FinalizeDisk(s, n, d) /\ G[d] = FinalizeDisk(s, m, d)) =>
          Sound(j, L, G, FinalizeRow(s, n), FinalizeRow(s, m), BatchOf("", "none"), BatchOf("", "none"))
<1>1. /\ Right(1, 2, OnIssue("build_mets"))
      /\ Right(2, 3, OnIssue("archive_backups"))
      /\ Right(3, 4, KillDir("backup"))
      /\ Right(4, 5, SetBackup(""))
      /\ Right(5, 6, SetWS("ReadyForBatching"))
      /\ Right(6, 7, RecordAction)
  <2>3. Right(3, 4, KillDir("backup"))
    <3>1. Saves(KillDir("backup"), FinalizeRow(s, 3), FinalizeRow(s, 4),
                BatchOf("", "none"), BatchOf("", "none"))
      BY DEF Saves, Job, KillDir, FinalizeRow, Backup, Packing, RowOf, BatchOf
    <3>2. "backup" \in Dirs \ {"batch"}
      BY DEF Dirs
    <3>3. ASSUME NEW L \in Disks, NEW G \in Disks,
                 \A d \in Dirs : L[d] = FinalizeDisk(s, 3, d) /\ G[d] = FinalizeDisk(s, 4, d)
          PROVE  L["backup"] # NoDir /\ Changes(L, G, "backup", NoDir)
      BY <3>3, Kinds, SomeFiles DEF Changes, Shown, Dirs, FinalizeDisk, Held, Readied, If
    <3>4. QED
      BY <3>1, <3>2, <3>3, Kills
  <2>4. Right(4, 5, SetBackup(""))
    <3>1. Saves(SetBackup(""), FinalizeRow(s, 4), FinalizeRow(s, 5),
                BatchOf("", "none"), BatchOf("", "none"))
      BY DEF Saves, Job, SetBackup, FinalizeRow, Backup, Packing, RowOf, BatchOf
    <3>2. \A d : FinalizeDisk(s, 4, d) = FinalizeDisk(s, 5, d)
      BY DEF FinalizeDisk
    <3>3. SetBackup("").type = "set_issue_original_backup_location"
      BY DEF Job, SetBackup
    <3>4. QED
      BY <3>1, <3>2, <3>3, OnlySaves
  <2>5. Right(5, 6, SetWS("ReadyForBatching"))
    <3>1. Saves(SetWS("ReadyForBatching"), FinalizeRow(s, 5), FinalizeRow(s, 6),
                BatchOf("", "none"), BatchOf("", "none"))
      BY DEF Saves, Job, SetWS, FinalizeRow, Backup, Packing, RowOf, BatchOf
    <3>2. \A d : FinalizeDisk(s, 5, d) = FinalizeDisk(s, 6, d)
      BY DEF FinalizeDisk
    <3>3. SetWS("ReadyForBatching").type = "set_issue_workflow_step"
      BY DEF Job, SetWS
    <3>4. QED
      BY <3>1, <3>2, <3>3, OnlySaves
  <2>6. Right(6, 7, RecordAction)
    <3>1. Saves(RecordAction, FinalizeRow(s, 6), FinalizeRow(s, 7),
                BatchOf("", "none"), BatchOf("", "none"))
      BY DEF Saves, Job, RecordAction, OnIssue, FinalizeRow, Backup, Packing, RowOf, BatchOf
    <3>2. \A d : FinalizeDisk(s, 6, d) = FinalizeDisk(s, 7, d)
      BY DEF FinalizeDisk
    <3>3. RecordAction.type = "record_issue_action"
      BY DEF Job, RecordAction, OnIssue
    <3>4. QED
      BY <3>1, <3>2, <3>3, OnlySaves
  <2>1. Right(1, 2, OnIssue("build_mets"))
    <3>1. Saves(OnIssue("build_mets"), FinalizeRow(s, 1), FinalizeRow(s, 2),
                BatchOf("", "none"), BatchOf("", "none"))
      BY DEF Saves, Job, OnIssue, FinalizeRow, Backup, Packing, RowOf, BatchOf
    <3>2. FinalizeRow(s, 1).location = "workflow"
      BY DEF FinalizeRow, Backup, Packing, RowOf, BatchOf
    <3>3. ASSUME NEW L \in Disks, NEW G \in Disks,
                 \A d \in Dirs : L[d] = FinalizeDisk(s, 1, d) /\ G[d] = FinalizeDisk(s, 2, d)
          PROVE  L["workflow"] # NoDir /\ Adds(L, G, "workflow", {METS})
      BY <3>3, Kinds, SomeFiles DEF Adds, Changes, Shown, Have, Dirs, FinalizeDisk, Held, Readied, If
    <3>4. QED
      BY <3>1, <3>2, <3>3, Writes
  <2> USE Kinds, SomeFiles
      DEF Sound, Saves, BatchOf, At, Dirs, RowOf, Held, Job, FinalizeDisk, Readied, If, FinalizeRow, Backup, Packing
  <2>2. Right(2, 3, OnIssue("archive_backups"))
    BY DEF OnIssue, Adds, Changes, Shown, Have
  <2> HIDE Kinds, SomeFiles DEF Right
  <2>7. QED
    BY <2>1, <2>2, <2>3, <2>4, <2>5, <2>6
<1> HIDE DEF Right
<1> DEFINE J == JobsOf("finalize", s)
           L == Disk("finalize", s, k)
           G == Disk("finalize", s, k + 1)
<1>2. /\ Right(1, 2, J[1]) /\ Right(2, 3, J[2]) /\ Right(3, 4, J[3]) /\ Right(4, 5, J[4])
      /\ Right(5, 6, J[5]) /\ Right(6, 7, J[6])
  BY <1>1, FinalizeJobs, Zenon
<1>3. \A n : /\ \A d \in Dirs : Disk("finalize", s, n)[d] = FinalizeDisk(s, n, d)
            /\ Disk("finalize", s, n) \in Disks
            /\ RowAt("finalize", s, n) = FinalizeRow(s, n)
            /\ BatchAt("finalize", n) = BatchOf("", "none")
  BY DiskTypes DEF Disk, RowAt, BatchAt
<1>4. /\ L \in Disks /\ G \in Disks
      /\ \A d \in Dirs : L[d] = FinalizeDisk(s, k, d) /\ G[d] = FinalizeDisk(s, k + 1, d)
  BY <1>3
<1> HIDE DEF J, L, G
<1>5. Right(k, k + 1, J[k])
  BY <1>2
<1>6. Sound(J[k], L, G, FinalizeRow(s, k), FinalizeRow(s, k + 1), BatchOf("", "none"), BatchOf("", "none"))
  BY <1>4, <1>5, Zenon DEF Right
<1>7. RowAt("finalize", s, k) = FinalizeRow(s, k) /\ RowAt("finalize", s, k + 1) = FinalizeRow(s, k + 1)
      /\ BatchAt("finalize", k) = BatchOf("", "none") /\ BatchAt("finalize", k + 1) = BatchOf("", "none")
  BY <1>3
<1>8. QED
  BY <1>6, <1>7, Zenon DEF J, L, G

LEMMA RemoveSoundOfScans ==
  ASSUME NEW s, s = TRUE, NEW k \in 1..10
  PROVE  Sound(JobsOf("remove", s)[k], Disk("remove", s, k), Disk("remove", s, k + 1),
               RowAt("remove", s, k), RowAt("remove", s, k + 1), BatchAt("remove", k), BatchAt("remove", k + 1))
<1> DEFINE Right(n, m, j) ==
      \A L, G \in Disks :
        (\A d \in Dirs : L[d] = RemoveDisk(s, n, d) /\ G[d] = RemoveDisk(s, m, d)) =>
          Sound(j, L, G, RemoveRow(s, n), RemoveRow(s, m), BatchOf("", "none"), BatchOf("", "none"))
<1>1. /\ Right(1, 2, SyncDir("workflow", "errors-wip/content"))
      /\ Right(2, 3, KillDir("workflow"))
      /\ Right(3, 4, SetLocation("errors-wip/content"))
      /\ Right(4, 5, Job("move_derivatives", "issue", "errors-wip/derivatives"))
      /\ Right(5, 6, OnIssue("write_action_log"))
      /\ Right(6, 7, RenameDir("errors-wip", "errors"))
      /\ Right(7, 8, OnIssue("ignore_issue"))
      /\ Right(8, 9, SetLocation(""))
      /\ Right(9, 10, SetWS("UnfixableMetadataError"))
      /\ Right(10, 11, RecordAction)
  <2>1. Right(1, 2, SyncDir("workflow", "errors-wip/content"))
    <3>1. Saves(SyncDir("workflow", "errors-wip/content"), RemoveRow(s, 1), RemoveRow(s, 2),
                BatchOf("", "none"), BatchOf("", "none"))
      BY DEF Saves, Job, SyncDir, RemoveRow, Backup, Packing, RowOf, BatchOf
    <3>2. "workflow" \in Dirs \ {"batch"} /\ "errors-wip/content" \in Dirs \ {"workflow", "batch"}
      BY DEF Dirs
    <3>3. ASSUME NEW L \in Disks, NEW G \in Disks,
                 \A d \in Dirs : L[d] = RemoveDisk(s, 1, d) /\ G[d] = RemoveDisk(s, 2, d)
          PROVE  L["workflow"] # NoDir /\ L["errors-wip/content"] = NoDir /\ Adds(L, G, "errors-wip/content", L["workflow"])
      BY <3>3, Kinds, SomeFiles DEF Adds, Changes, Shown, Have, Dirs, RemoveDisk, Held, Readied, Packing, If
    <3>4. QED
      BY <3>1, <3>2, <3>3, Copies
  <2>2. Right(2, 3, KillDir("workflow"))
    <3>1. Saves(KillDir("workflow"), RemoveRow(s, 2), RemoveRow(s, 3),
                BatchOf("", "none"), BatchOf("", "none"))
      BY DEF Saves, Job, KillDir, RemoveRow, Backup, Packing, RowOf, BatchOf
    <3>2. "workflow" \in Dirs \ {"batch"}
      BY DEF Dirs
    <3>3. ASSUME NEW L \in Disks, NEW G \in Disks,
                 \A d \in Dirs : L[d] = RemoveDisk(s, 2, d) /\ G[d] = RemoveDisk(s, 3, d)
          PROVE  L["workflow"] # NoDir /\ Changes(L, G, "workflow", NoDir)
      BY <3>3, Kinds, SomeFiles DEF Changes, Shown, Dirs, RemoveDisk, Held, Readied, Packing, If
    <3>4. QED
      BY <3>1, <3>2, <3>3, Kills
  <2>3. Right(3, 4, SetLocation("errors-wip/content"))
    <3>1. Saves(SetLocation("errors-wip/content"), RemoveRow(s, 3), RemoveRow(s, 4),
                BatchOf("", "none"), BatchOf("", "none"))
      BY DEF Saves, Job, SetLocation, RemoveRow, Backup, Packing, RowOf, BatchOf
    <3>2. \A d : RemoveDisk(s, 3, d) = RemoveDisk(s, 4, d)
      BY DEF RemoveDisk, Packing
    <3>3. SetLocation("errors-wip/content").type = "set_issue_location"
      BY DEF Job, SetLocation
    <3>4. QED
      BY <3>1, <3>2, <3>3, OnlySaves
  <2>6. Right(6, 7, RenameDir("errors-wip", "errors"))
    <3>1. Saves(RenameDir("errors-wip", "errors"), RemoveRow(s, 6), RemoveRow(s, 7),
                BatchOf("", "none"), BatchOf("", "none"))
      BY DEF Saves, Job, RenameDir, RemoveRow, Backup, Packing, RowOf, BatchOf
    <3>2. ASSUME NEW L \in Disks, NEW G \in Disks,
                 \A d \in Dirs : L[d] = RemoveDisk(s, 6, d) /\ G[d] = RemoveDisk(s, 7, d)
          PROVE  RenamesErrors(L, G)
      BY <3>2, Kinds, SomeFiles DEF RenamesErrors, Dirs, RemoveDisk, Held, Readied, Packing, If
    <3>3. QED
      BY <3>1, <3>2, Renames
  <2>7. Right(7, 8, OnIssue("ignore_issue"))
    <3>1. Saves(OnIssue("ignore_issue"), RemoveRow(s, 7), RemoveRow(s, 8),
                BatchOf("", "none"), BatchOf("", "none"))
      BY DEF Saves, Job, OnIssue, RemoveRow, Backup, Packing, RowOf, BatchOf
    <3>2. \A d : RemoveDisk(s, 7, d) = RemoveDisk(s, 8, d)
      BY DEF RemoveDisk, Packing
    <3>3. OnIssue("ignore_issue").type = "ignore_issue"
      BY DEF Job, OnIssue
    <3>4. QED
      BY <3>1, <3>2, <3>3, OnlySaves
  <2>8. Right(8, 9, SetLocation(""))
    <3>1. Saves(SetLocation(""), RemoveRow(s, 8), RemoveRow(s, 9),
                BatchOf("", "none"), BatchOf("", "none"))
      BY DEF Saves, Job, SetLocation, RemoveRow, Backup, Packing, RowOf, BatchOf
    <3>2. \A d : RemoveDisk(s, 8, d) = RemoveDisk(s, 9, d)
      BY DEF RemoveDisk, Packing
    <3>3. SetLocation("").type = "set_issue_location"
      BY DEF Job, SetLocation
    <3>4. QED
      BY <3>1, <3>2, <3>3, OnlySaves
  <2>9. Right(9, 10, SetWS("UnfixableMetadataError"))
    <3>1. Saves(SetWS("UnfixableMetadataError"), RemoveRow(s, 9), RemoveRow(s, 10),
                BatchOf("", "none"), BatchOf("", "none"))
      BY DEF Saves, Job, SetWS, RemoveRow, Backup, Packing, RowOf, BatchOf
    <3>2. \A d : RemoveDisk(s, 9, d) = RemoveDisk(s, 10, d)
      BY DEF RemoveDisk, Packing
    <3>3. SetWS("UnfixableMetadataError").type = "set_issue_workflow_step"
      BY DEF Job, SetWS
    <3>4. QED
      BY <3>1, <3>2, <3>3, OnlySaves
  <2>10. Right(10, 11, RecordAction)
    <3>1. Saves(RecordAction, RemoveRow(s, 10), RemoveRow(s, 11),
                BatchOf("", "none"), BatchOf("", "none"))
      BY DEF Saves, Job, RecordAction, OnIssue, RemoveRow, Backup, Packing, RowOf, BatchOf
    <3>2. \A d : RemoveDisk(s, 10, d) = RemoveDisk(s, 11, d)
      BY DEF RemoveDisk, Packing
    <3>3. RecordAction.type = "record_issue_action"
      BY DEF Job, RecordAction, OnIssue
    <3>4. QED
      BY <3>1, <3>2, <3>3, OnlySaves
  <2>5. Right(5, 6, OnIssue("write_action_log"))
    <3>1. Saves(OnIssue("write_action_log"), RemoveRow(s, 5), RemoveRow(s, 6),
                BatchOf("", "none"), BatchOf("", "none"))
      BY DEF Saves, Job, OnIssue, RemoveRow, Backup, Packing, RowOf, BatchOf
    <3>2. RemoveRow(s, 5).location = "errors-wip/content"
      BY DEF RemoveRow, Backup, Packing, RowOf, BatchOf
    <3>3. ASSUME NEW L \in Disks, NEW G \in Disks,
                 \A d \in Dirs : L[d] = RemoveDisk(s, 5, d) /\ G[d] = RemoveDisk(s, 6, d)
          PROVE  L["errors-wip/content"] # NoDir /\ Adds(L, G, "errors-wip/content", {Log})
      BY <3>3, Kinds, SomeFiles DEF Adds, Changes, Shown, Have, Dirs, RemoveDisk, Held, Readied, Packing, If
    <3>4. QED
      BY <3>1, <3>2, <3>3, Writes
  <2> USE Kinds, SomeFiles
      DEF Sound, Saves, BatchOf, At, Dirs, RowOf, Held, Job, RemoveDisk, Readied, If, RemoveRow, Backup, Packing
  <2>4. Right(4, 5, Job("move_derivatives", "issue", "errors-wip/derivatives"))
    BY DEF Shown
  <2> HIDE Kinds, SomeFiles DEF Right
  <2>11. QED
    BY <2>1, <2>2, <2>3, <2>4, <2>5, <2>6, <2>7, <2>8, <2>9, <2>10
<1> HIDE DEF Right
<1> DEFINE J == JobsOf("remove", s)
           L == Disk("remove", s, k)
           G == Disk("remove", s, k + 1)
<1>2. /\ Right(1, 2, J[1]) /\ Right(2, 3, J[2]) /\ Right(3, 4, J[3]) /\ Right(4, 5, J[4])
      /\ Right(5, 6, J[5]) /\ Right(6, 7, J[6]) /\ Right(7, 8, J[7]) /\ Right(8, 9, J[8])
      /\ Right(9, 10, J[9]) /\ Right(10, 11, J[10])
  BY <1>1, RemoveJobsOfScans, Zenon
<1>3. \A n : /\ \A d \in Dirs : Disk("remove", s, n)[d] = RemoveDisk(s, n, d)
            /\ Disk("remove", s, n) \in Disks
            /\ RowAt("remove", s, n) = RemoveRow(s, n)
            /\ BatchAt("remove", n) = BatchOf("", "none")
  BY DiskTypes DEF Disk, RowAt, BatchAt
<1>4. /\ L \in Disks /\ G \in Disks
      /\ \A d \in Dirs : L[d] = RemoveDisk(s, k, d) /\ G[d] = RemoveDisk(s, k + 1, d)
  BY <1>3
<1> HIDE DEF J, L, G
<1>5. Right(k, k + 1, J[k])
  BY <1>2
<1>6. Sound(J[k], L, G, RemoveRow(s, k), RemoveRow(s, k + 1), BatchOf("", "none"), BatchOf("", "none"))
  BY <1>4, <1>5, Zenon DEF Right
<1>7. RowAt("remove", s, k) = RemoveRow(s, k) /\ RowAt("remove", s, k + 1) = RemoveRow(s, k + 1)
      /\ BatchAt("remove", k) = BatchOf("", "none") /\ BatchAt("remove", k + 1) = BatchOf("", "none")
  BY <1>3
<1>8. QED
  BY <1>6, <1>7, Zenon DEF J, L, G

LEMMA RemoveSound ==
  ASSUME NEW s, s = FALSE, NEW k \in 1..13
  PROVE  Sound(JobsOf("remove", s)[k], Disk("remove", s, k), Disk("remove", s, k + 1),
               RowAt("remove", s, k), RowAt("remove", s, k + 1), BatchAt("remove", k), BatchAt("remove", k + 1))
<1> DEFINE Right(n, m, j) ==
      \A L, G \in Disks :
        (\A d \in Dirs : L[d] = RemoveDisk(s, n, d) /\ G[d] = RemoveDisk(s, m, d)) =>
          Sound(j, L, G, RemoveRow(s, n), RemoveRow(s, m), BatchOf("", "none"), BatchOf("", "none"))
<1>1. /\ Right(1, 2, SyncDir("workflow", "errors-wip/content"))
      /\ Right(2, 3, KillDir("workflow"))
      /\ Right(3, 4, SetLocation("errors-wip/content"))
      /\ Right(4, 5, Job("move_derivatives", "issue", "errors-wip/derivatives"))
      /\ Right(5, 6, OnIssue("write_action_log"))
      /\ Right(6, 7, OnIssue("archive_backups"))
      /\ Right(7, 8, KillDir("backup"))
      /\ Right(8, 9, SetBackup(""))
      /\ Right(9, 10, RenameDir("errors-wip", "errors"))
      /\ Right(10, 11, OnIssue("ignore_issue"))
      /\ Right(11, 12, SetLocation(""))
      /\ Right(12, 13, SetWS("UnfixableMetadataError"))
      /\ Right(13, 14, RecordAction)
  <2>1. Right(1, 2, SyncDir("workflow", "errors-wip/content"))
    <3>1. Saves(SyncDir("workflow", "errors-wip/content"), RemoveRow(s, 1), RemoveRow(s, 2),
                BatchOf("", "none"), BatchOf("", "none"))
      BY DEF Saves, Job, SyncDir, RemoveRow, Backup, Packing, RowOf, BatchOf
    <3>2. "workflow" \in Dirs \ {"batch"} /\ "errors-wip/content" \in Dirs \ {"workflow", "batch"}
      BY DEF Dirs
    <3>3. ASSUME NEW L \in Disks, NEW G \in Disks,
                 \A d \in Dirs : L[d] = RemoveDisk(s, 1, d) /\ G[d] = RemoveDisk(s, 2, d)
          PROVE  L["workflow"] # NoDir /\ L["errors-wip/content"] = NoDir /\ Adds(L, G, "errors-wip/content", L["workflow"])
      BY <3>3, Kinds, SomeFiles DEF Adds, Changes, Shown, Have, Dirs, RemoveDisk, Held, Readied, Packing, If
    <3>4. QED
      BY <3>1, <3>2, <3>3, Copies
  <2>2. Right(2, 3, KillDir("workflow"))
    <3>1. Saves(KillDir("workflow"), RemoveRow(s, 2), RemoveRow(s, 3),
                BatchOf("", "none"), BatchOf("", "none"))
      BY DEF Saves, Job, KillDir, RemoveRow, Backup, Packing, RowOf, BatchOf
    <3>2. "workflow" \in Dirs \ {"batch"}
      BY DEF Dirs
    <3>3. ASSUME NEW L \in Disks, NEW G \in Disks,
                 \A d \in Dirs : L[d] = RemoveDisk(s, 2, d) /\ G[d] = RemoveDisk(s, 3, d)
          PROVE  L["workflow"] # NoDir /\ Changes(L, G, "workflow", NoDir)
      BY <3>3, Kinds, SomeFiles DEF Changes, Shown, Dirs, RemoveDisk, Held, Readied, Packing, If
    <3>4. QED
      BY <3>1, <3>2, <3>3, Kills
  <2>3. Right(3, 4, SetLocation("errors-wip/content"))
    <3>1. Saves(SetLocation("errors-wip/content"), RemoveRow(s, 3), RemoveRow(s, 4),
                BatchOf("", "none"), BatchOf("", "none"))
      BY DEF Saves, Job, SetLocation, RemoveRow, Backup, Packing, RowOf, BatchOf
    <3>2. \A d : RemoveDisk(s, 3, d) = RemoveDisk(s, 4, d)
      BY DEF RemoveDisk, Packing
    <3>3. SetLocation("errors-wip/content").type = "set_issue_location"
      BY DEF Job, SetLocation
    <3>4. QED
      BY <3>1, <3>2, <3>3, OnlySaves
  <2>7. Right(7, 8, KillDir("backup"))
    <3>1. Saves(KillDir("backup"), RemoveRow(s, 7), RemoveRow(s, 8),
                BatchOf("", "none"), BatchOf("", "none"))
      BY DEF Saves, Job, KillDir, RemoveRow, Backup, Packing, RowOf, BatchOf
    <3>2. "backup" \in Dirs \ {"batch"}
      BY DEF Dirs
    <3>3. ASSUME NEW L \in Disks, NEW G \in Disks,
                 \A d \in Dirs : L[d] = RemoveDisk(s, 7, d) /\ G[d] = RemoveDisk(s, 8, d)
          PROVE  L["backup"] # NoDir /\ Changes(L, G, "backup", NoDir)
      BY <3>3, Kinds, SomeFiles DEF Changes, Shown, Dirs, RemoveDisk, Held, Readied, Packing, If
    <3>4. QED
      BY <3>1, <3>2, <3>3, Kills
  <2>8. Right(8, 9, SetBackup(""))
    <3>1. Saves(SetBackup(""), RemoveRow(s, 8), RemoveRow(s, 9),
                BatchOf("", "none"), BatchOf("", "none"))
      BY DEF Saves, Job, SetBackup, RemoveRow, Backup, Packing, RowOf, BatchOf
    <3>2. \A d : RemoveDisk(s, 8, d) = RemoveDisk(s, 9, d)
      BY DEF RemoveDisk, Packing
    <3>3. SetBackup("").type = "set_issue_original_backup_location"
      BY DEF Job, SetBackup
    <3>4. QED
      BY <3>1, <3>2, <3>3, OnlySaves
  <2>9. Right(9, 10, RenameDir("errors-wip", "errors"))
    <3>1. Saves(RenameDir("errors-wip", "errors"), RemoveRow(s, 9), RemoveRow(s, 10),
                BatchOf("", "none"), BatchOf("", "none"))
      BY DEF Saves, Job, RenameDir, RemoveRow, Backup, Packing, RowOf, BatchOf
    <3>2. ASSUME NEW L \in Disks, NEW G \in Disks,
                 \A d \in Dirs : L[d] = RemoveDisk(s, 9, d) /\ G[d] = RemoveDisk(s, 10, d)
          PROVE  RenamesErrors(L, G)
      BY <3>2, Kinds, SomeFiles DEF RenamesErrors, Dirs, RemoveDisk, Held, Readied, Packing, If
    <3>3. QED
      BY <3>1, <3>2, Renames
  <2>10. Right(10, 11, OnIssue("ignore_issue"))
    <3>1. Saves(OnIssue("ignore_issue"), RemoveRow(s, 10), RemoveRow(s, 11),
                BatchOf("", "none"), BatchOf("", "none"))
      BY DEF Saves, Job, OnIssue, RemoveRow, Backup, Packing, RowOf, BatchOf
    <3>2. \A d : RemoveDisk(s, 10, d) = RemoveDisk(s, 11, d)
      BY DEF RemoveDisk, Packing
    <3>3. OnIssue("ignore_issue").type = "ignore_issue"
      BY DEF Job, OnIssue
    <3>4. QED
      BY <3>1, <3>2, <3>3, OnlySaves
  <2>11. Right(11, 12, SetLocation(""))
    <3>1. Saves(SetLocation(""), RemoveRow(s, 11), RemoveRow(s, 12),
                BatchOf("", "none"), BatchOf("", "none"))
      BY DEF Saves, Job, SetLocation, RemoveRow, Backup, Packing, RowOf, BatchOf
    <3>2. \A d : RemoveDisk(s, 11, d) = RemoveDisk(s, 12, d)
      BY DEF RemoveDisk, Packing
    <3>3. SetLocation("").type = "set_issue_location"
      BY DEF Job, SetLocation
    <3>4. QED
      BY <3>1, <3>2, <3>3, OnlySaves
  <2>12. Right(12, 13, SetWS("UnfixableMetadataError"))
    <3>1. Saves(SetWS("UnfixableMetadataError"), RemoveRow(s, 12), RemoveRow(s, 13),
                BatchOf("", "none"), BatchOf("", "none"))
      BY DEF Saves, Job, SetWS, RemoveRow, Backup, Packing, RowOf, BatchOf
    <3>2. \A d : RemoveDisk(s, 12, d) = RemoveDisk(s, 13, d)
      BY DEF RemoveDisk, Packing
    <3>3. SetWS("UnfixableMetadataError").type = "set_issue_workflow_step"
      BY DEF Job, SetWS
    <3>4. QED
      BY <3>1, <3>2, <3>3, OnlySaves
  <2>13. Right(13, 14, RecordAction)
    <3>1. Saves(RecordAction, RemoveRow(s, 13), RemoveRow(s, 14),
                BatchOf("", "none"), BatchOf("", "none"))
      BY DEF Saves, Job, RecordAction, OnIssue, RemoveRow, Backup, Packing, RowOf, BatchOf
    <3>2. \A d : RemoveDisk(s, 13, d) = RemoveDisk(s, 14, d)
      BY DEF RemoveDisk, Packing
    <3>3. RecordAction.type = "record_issue_action"
      BY DEF Job, RecordAction, OnIssue
    <3>4. QED
      BY <3>1, <3>2, <3>3, OnlySaves
  <2>5. Right(5, 6, OnIssue("write_action_log"))
    <3>1. Saves(OnIssue("write_action_log"), RemoveRow(s, 5), RemoveRow(s, 6),
                BatchOf("", "none"), BatchOf("", "none"))
      BY DEF Saves, Job, OnIssue, RemoveRow, Backup, Packing, RowOf, BatchOf
    <3>2. RemoveRow(s, 5).location = "errors-wip/content"
      BY DEF RemoveRow, Backup, Packing, RowOf, BatchOf
    <3>3. ASSUME NEW L \in Disks, NEW G \in Disks,
                 \A d \in Dirs : L[d] = RemoveDisk(s, 5, d) /\ G[d] = RemoveDisk(s, 6, d)
          PROVE  L["errors-wip/content"] # NoDir /\ Adds(L, G, "errors-wip/content", {Log})
      BY <3>3, Kinds, SomeFiles DEF Adds, Changes, Shown, Have, Dirs, RemoveDisk, Held, Readied, Packing, If
    <3>4. QED
      BY <3>1, <3>2, <3>3, Writes
  <2> USE Kinds, SomeFiles
      DEF Sound, Saves, BatchOf, At, Dirs, RowOf, Held, Job, RemoveDisk, Readied, If, RemoveRow, Backup, Packing
  <2>4. Right(4, 5, Job("move_derivatives", "issue", "errors-wip/derivatives"))
    BY DEF Shown
  <2>6. Right(6, 7, OnIssue("archive_backups"))
    BY DEF OnIssue, Adds, Changes, Shown, Have
  <2> HIDE Kinds, SomeFiles DEF Right
  <2>14. QED
    BY <2>1, <2>2, <2>3, <2>4, <2>5, <2>6, <2>7, <2>8, <2>9, <2>10, <2>11, <2>12, <2>13
<1> HIDE DEF Right
<1> DEFINE J == JobsOf("remove", s)
           L == Disk("remove", s, k)
           G == Disk("remove", s, k + 1)
<1>2. /\ Right(1, 2, J[1]) /\ Right(2, 3, J[2]) /\ Right(3, 4, J[3]) /\ Right(4, 5, J[4])
      /\ Right(5, 6, J[5]) /\ Right(6, 7, J[6]) /\ Right(7, 8, J[7]) /\ Right(8, 9, J[8])
      /\ Right(9, 10, J[9]) /\ Right(10, 11, J[10]) /\ Right(11, 12, J[11])
      /\ Right(12, 13, J[12]) /\ Right(13, 14, J[13])
  BY <1>1, RemoveJobs, Zenon
<1>3. \A n : /\ \A d \in Dirs : Disk("remove", s, n)[d] = RemoveDisk(s, n, d)
            /\ Disk("remove", s, n) \in Disks
            /\ RowAt("remove", s, n) = RemoveRow(s, n)
            /\ BatchAt("remove", n) = BatchOf("", "none")
  BY DiskTypes DEF Disk, RowAt, BatchAt
<1>4. /\ L \in Disks /\ G \in Disks
      /\ \A d \in Dirs : L[d] = RemoveDisk(s, k, d) /\ G[d] = RemoveDisk(s, k + 1, d)
  BY <1>3
<1> HIDE DEF J, L, G
<1>5. Right(k, k + 1, J[k])
  BY <1>2
<1>6. Sound(J[k], L, G, RemoveRow(s, k), RemoveRow(s, k + 1), BatchOf("", "none"), BatchOf("", "none"))
  BY <1>4, <1>5, Zenon DEF Right
<1>7. RowAt("remove", s, k) = RemoveRow(s, k) /\ RowAt("remove", s, k + 1) = RemoveRow(s, k + 1)
      /\ BatchAt("remove", k) = BatchOf("", "none") /\ BatchAt("remove", k + 1) = BatchOf("", "none")
  BY <1>3
<1>8. QED
  BY <1>6, <1>7, Zenon DEF J, L, G

LEMMA BatchSound ==
  ASSUME NEW s \in BOOLEAN, NEW k \in 1..7
  PROVE  Sound(JobsOf("batch", s)[k], Disk("batch", s, k), Disk("batch", s, k + 1),
               RowAt("batch", s, k), RowAt("batch", s, k + 1), BatchAt("batch", k), BatchAt("batch", k + 1))
<1> DEFINE Right(n, m, j) ==
      \A L, G \in Disks :
        (\A d \in Dirs : L[d] = BatchDisk(s, n, d) /\ G[d] = BatchDisk(s, m, d)) =>
          Sound(j, L, G, ForceRow(s, 1), ForceRow(s, 1), BatchAt("batch", n), BatchAt("batch", m))
<1>1. /\ Right(1, 2, Job("create_batch_structure", "issue", "batch-wip"))
      /\ Right(2, 3, Job("set_batch_location", "", "batch-wip"))
      /\ Right(3, 4, Job("make_batch_xml", "batch", ""))
      /\ Right(4, 5, RenameDir("batch-wip", "batch"))
      /\ Right(5, 6, Job("set_batch_location", "", "batch"))
      /\ Right(6, 7, Job("set_batch_status", "", "qc_ready"))
      /\ Right(7, 8, Job("write_bagit_manifest", "batch", ""))
  <2>2. Right(2, 3, Job("set_batch_location", "", "batch-wip"))
    <3>1. Saves(Job("set_batch_location", "", "batch-wip"), ForceRow(s, 1), ForceRow(s, 1),
                BatchAt("batch", 2), BatchAt("batch", 3))
      BY DEF Saves, Job, ForceRow, RowOf, BatchAt, BatchOf
    <3>2. \A d : BatchDisk(s, 2, d) = BatchDisk(s, 3, d)
      BY DEF BatchDisk
    <3>3. Job("set_batch_location", "", "batch-wip").type = "set_batch_location"
      BY DEF Job
    <3>4. QED
      BY <3>1, <3>2, <3>3, OnlySaves
  <2>5. Right(5, 6, Job("set_batch_location", "", "batch"))
    <3>1. Saves(Job("set_batch_location", "", "batch"), ForceRow(s, 1), ForceRow(s, 1),
                BatchAt("batch", 5), BatchAt("batch", 6))
      BY DEF Saves, Job, ForceRow, RowOf, BatchAt, BatchOf
    <3>2. \A d : BatchDisk(s, 5, d) = BatchDisk(s, 6, d)
      BY DEF BatchDisk
    <3>3. Job("set_batch_location", "", "batch").type = "set_batch_location"
      BY DEF Job
    <3>4. QED
      BY <3>1, <3>2, <3>3, OnlySaves
  <2>6. Right(6, 7, Job("set_batch_status", "", "qc_ready"))
    <3>1. Saves(Job("set_batch_status", "", "qc_ready"), ForceRow(s, 1), ForceRow(s, 1),
                BatchAt("batch", 6), BatchAt("batch", 7))
      BY DEF Saves, Job, ForceRow, RowOf, BatchAt, BatchOf
    <3>2. \A d : BatchDisk(s, 6, d) = BatchDisk(s, 7, d)
      BY DEF BatchDisk
    <3>3. Job("set_batch_status", "", "qc_ready").type = "set_batch_status"
      BY DEF Job
    <3>4. QED
      BY <3>1, <3>2, <3>3, OnlySaves
  <2>4. Right(4, 5, RenameDir("batch-wip", "batch"))
    <3>1. Saves(RenameDir("batch-wip", "batch"), ForceRow(s, 1), ForceRow(s, 1),
                BatchAt("batch", 4), BatchAt("batch", 5))
      BY DEF Saves, Job, RenameDir, ForceRow, RowOf, BatchAt, BatchOf
    <3>2. ASSUME NEW L \in Disks, NEW G \in Disks,
                 \A d \in Dirs : L[d] = BatchDisk(s, 4, d) /\ G[d] = BatchDisk(s, 5, d)
          PROVE  RenamesOne(L, G, "batch-wip", "batch")
      BY <3>2, Kinds, SomeFiles DEF RenamesOne, Dirs, BatchDisk, Held, Batched, Readied, If
    <3>3. QED
      BY <3>1, <3>2, Renames
  <2>3. Right(3, 4, Job("make_batch_xml", "batch", ""))
    <3>1. Saves(Job("make_batch_xml", "batch", ""), ForceRow(s, 1), ForceRow(s, 1),
                BatchAt("batch", 3), BatchAt("batch", 4))
      BY DEF Saves, Job, ForceRow, RowOf, BatchAt, BatchOf
    <3>2. At(Job("make_batch_xml", "batch", "").from, ForceRow(s, 1), BatchAt("batch", 3)) = "batch-wip" /\ "batch-wip" \in Dirs
      BY DEF At, Job, Dirs, ForceRow, RowOf, BatchAt, BatchOf
    <3>3. Job("make_batch_xml", "batch", "").type = "make_batch_xml"
      BY DEF Job
    <3>4. ASSUME NEW L \in Disks, NEW G \in Disks,
                 \A d \in Dirs : L[d] = BatchDisk(s, 3, d) /\ G[d] = BatchDisk(s, 4, d)
          PROVE  L["batch-wip"] # NoDir /\ \A x \in Dirs : G[x] = L[x]
      BY <3>4, Kinds DEF Dirs, BatchDisk, Held, Batched, Readied, If
    <3>5. QED
      BY <3>1, <3>2, <3>3, <3>4, Reads
  <2>7. Right(7, 8, Job("write_bagit_manifest", "batch", ""))
    <3>1. Saves(Job("write_bagit_manifest", "batch", ""), ForceRow(s, 1), ForceRow(s, 1),
                BatchAt("batch", 7), BatchAt("batch", 8))
      BY DEF Saves, Job, ForceRow, RowOf, BatchAt, BatchOf
    <3>2. At(Job("write_bagit_manifest", "batch", "").from, ForceRow(s, 1), BatchAt("batch", 7)) = "batch" /\ "batch" \in Dirs
      BY DEF At, Job, Dirs, ForceRow, RowOf, BatchAt, BatchOf
    <3>3. Job("write_bagit_manifest", "batch", "").type = "write_bagit_manifest"
      BY DEF Job
    <3>4. ASSUME NEW L \in Disks, NEW G \in Disks,
                 \A d \in Dirs : L[d] = BatchDisk(s, 7, d) /\ G[d] = BatchDisk(s, 8, d)
          PROVE  L["batch"] # NoDir /\ \A x \in Dirs : G[x] = L[x]
      BY <3>4, Kinds DEF Dirs, BatchDisk, Held, Batched, Readied, If
    <3>5. QED
      BY <3>1, <3>2, <3>3, <3>4, Reads
  <2> USE Kinds, SomeFiles
      DEF Sound, Saves, BatchOf, At, Dirs, RowOf, Held, Job, BatchDisk, Batched, Readied, If, ForceRow, BatchAt
  <2>1. Right(1, 2, Job("create_batch_structure", "issue", "batch-wip"))
    BY DEF Adds, Changes, Shown, Have
  <2> HIDE Kinds, SomeFiles DEF Right
  <2>8. QED
    BY <2>1, <2>2, <2>3, <2>4, <2>5, <2>6, <2>7
<1> HIDE DEF Right
<1> DEFINE J == JobsOf("batch", s)
           L == Disk("batch", s, k)
           G == Disk("batch", s, k + 1)
<1>2. /\ Right(1, 2, J[1]) /\ Right(2, 3, J[2]) /\ Right(3, 4, J[3]) /\ Right(4, 5, J[4])
      /\ Right(5, 6, J[5]) /\ Right(6, 7, J[6]) /\ Right(7, 8, J[7])
  BY <1>1, BatchJobs, Zenon
<1>3. \A n : /\ \A d \in Dirs : Disk("batch", s, n)[d] = BatchDisk(s, n, d)
            /\ Disk("batch", s, n) \in Disks
            /\ RowAt("batch", s, n) = ForceRow(s, 1)
  BY DiskTypes DEF Disk, RowAt
<1>4. /\ L \in Disks /\ G \in Disks
      /\ \A d \in Dirs : L[d] = BatchDisk(s, k, d) /\ G[d] = BatchDisk(s, k + 1, d)
  BY <1>3
<1> HIDE DEF J, L, G
<1>5. Right(k, k + 1, J[k])
  BY <1>2
<1>6. Sound(J[k], L, G, ForceRow(s, 1), ForceRow(s, 1), BatchAt("batch", k), BatchAt("batch", k + 1))
  BY <1>4, <1>5, Zenon DEF Right
<1>7. RowAt("batch", s, k) = ForceRow(s, 1) /\ RowAt("batch", s, k + 1) = ForceRow(s, 1)
  BY <1>3
<1>8. QED
  BY <1>6, <1>7, Zenon DEF J, L, G

LEMMA ForceSound ==
  ASSUME NEW s \in BOOLEAN, NEW k \in 1..5
  PROVE  Sound(JobsOf("force", s)[k], Disk("force", s, k), Disk("force", s, k + 1),
               RowAt("force", s, k), RowAt("force", s, k + 1), BatchAt("force", k), BatchAt("force", k + 1))
<1> DEFINE Right(n, m, j) ==
      \A L, G \in Disks :
        (\A d \in Dirs : L[d] = BatchDisk(s, 8, d) /\ G[d] = BatchDisk(s, 8, d)) =>
          Sound(j, L, G, ForceRow(s, n), ForceRow(s, m), BatchOf("batch", "deleted"), BatchOf("batch", "deleted"))
<1>1. /\ Right(1, 2, SetWS("AwaitingProcessing"))
      /\ Right(2, 3, OnIssue("make_derivatives"))
      /\ Right(3, 4, OnIssue("build_mets"))
      /\ Right(4, 5, SetWS("ReadyForBatching"))
      /\ Right(5, 6, RecordAction)
  <2>1. Right(1, 2, SetWS("AwaitingProcessing"))
    <3>1. /\ Saves(SetWS("AwaitingProcessing"), ForceRow(s, 1), ForceRow(s, 2),
                   BatchOf("batch", "deleted"), BatchOf("batch", "deleted"))
          /\ SetWS("AwaitingProcessing").type = "set_issue_workflow_step"
      BY DEF Saves, SetWS, Job, ForceRow, RowOf, BatchOf
    <3>2. QED
      BY <3>1, OnlySaves
  <2>4. Right(4, 5, SetWS("ReadyForBatching"))
    <3>1. /\ Saves(SetWS("ReadyForBatching"), ForceRow(s, 4), ForceRow(s, 5),
                   BatchOf("batch", "deleted"), BatchOf("batch", "deleted"))
          /\ SetWS("ReadyForBatching").type = "set_issue_workflow_step"
      BY DEF Saves, SetWS, Job, ForceRow, RowOf, BatchOf
    <3>2. QED
      BY <3>1, OnlySaves
  <2>5. Right(5, 6, RecordAction)
    <3>1. /\ Saves(RecordAction, ForceRow(s, 5), ForceRow(s, 6),
                   BatchOf("batch", "deleted"), BatchOf("batch", "deleted"))
          /\ RecordAction.type = "record_issue_action"
      BY DEF Saves, RecordAction, OnIssue, Job, ForceRow, RowOf, BatchOf
    <3>2. QED
      BY <3>1, OnlySaves
  <2>2. Right(2, 3, OnIssue("make_derivatives"))
    <3>1. Saves(OnIssue("make_derivatives"), ForceRow(s, 2), ForceRow(s, 3),
                BatchOf("batch", "deleted"), BatchOf("batch", "deleted"))
      BY DEF Saves, Job, OnIssue, ForceRow, RowOf, BatchOf
    <3>2. ForceRow(s, 2).location = "workflow"
      BY DEF ForceRow, RowOf, BatchOf
    <3>3. ASSUME NEW L \in Disks, NEW G \in Disks,
                 \A d \in Dirs : L[d] = BatchDisk(s, 8, d) /\ G[d] = BatchDisk(s, 8, d)
          PROVE  /\ PageFiles \subseteq L["workflow"]
                 /\ L["workflow"] \subseteq PageFiles \cup Derivatives \cup Tars \cup {METS}
                 /\ Adds(L, G, "workflow", Derivatives)
      BY <3>3, Kinds, SomeFiles DEF Adds, Changes, Shown, Have, Dirs, BatchDisk, Held, Batched, Readied, If
    <3>4. QED
      BY <3>1, <3>2, <3>3, Derives
  <2>3. Right(3, 4, OnIssue("build_mets"))
    <3>1. Saves(OnIssue("build_mets"), ForceRow(s, 3), ForceRow(s, 4),
                BatchOf("batch", "deleted"), BatchOf("batch", "deleted"))
      BY DEF Saves, Job, OnIssue, ForceRow, RowOf, BatchOf
    <3>2. ForceRow(s, 3).location = "workflow"
      BY DEF ForceRow, RowOf, BatchOf
    <3>3. ASSUME NEW L \in Disks, NEW G \in Disks,
                 \A d \in Dirs : L[d] = BatchDisk(s, 8, d) /\ G[d] = BatchDisk(s, 8, d)
          PROVE  L["workflow"] # NoDir /\ Adds(L, G, "workflow", {METS})
      BY <3>3, Kinds, SomeFiles DEF Adds, Changes, Shown, Have, Dirs, BatchDisk, Held, Batched, Readied, If
    <3>4. QED
      BY <3>1, <3>2, <3>3, Writes
  <2> HIDE DEF Right
  <2>6. QED
    BY <2>1, <2>2, <2>3, <2>4, <2>5
<1> HIDE DEF Right
<1> DEFINE J == JobsOf("force", s)
           L == Disk("force", s, k)
           G == Disk("force", s, k + 1)
<1>2. /\ Right(1, 2, J[1]) /\ Right(2, 3, J[2]) /\ Right(3, 4, J[3]) /\ Right(4, 5, J[4])
      /\ Right(5, 6, J[5])
  BY <1>1, ForceJobs, Zenon
<1>3. \A n : /\ \A d \in Dirs : Disk("force", s, n)[d] = BatchDisk(s, 8, d)
            /\ Disk("force", s, n) \in Disks
            /\ RowAt("force", s, n) = ForceRow(s, n)
            /\ BatchAt("force", n) = BatchOf("batch", "deleted")
  BY DiskTypes DEF Disk, RowAt, BatchAt
<1>4. /\ L \in Disks /\ G \in Disks
      /\ \A d \in Dirs : L[d] = BatchDisk(s, 8, d) /\ G[d] = BatchDisk(s, 8, d)
  BY <1>3
<1> HIDE DEF J, L, G
<1>5. Right(k, k + 1, J[k])
  BY <1>2
<1>6. Sound(J[k], L, G, ForceRow(s, k), ForceRow(s, k + 1), BatchOf("batch", "deleted"), BatchOf("batch", "deleted"))
  BY <1>4, <1>5, Zenon DEF Right
<1>7. RowAt("force", s, k) = ForceRow(s, k) /\ RowAt("force", s, k + 1) = ForceRow(s, k + 1)
      /\ BatchAt("force", k) = BatchOf("batch", "deleted") /\ BatchAt("force", k + 1) = BatchOf("batch", "deleted")
  BY <1>3
<1>8. QED
  BY <1>6, <1>7, Zenon DEF J, L, G

(* Whichever the pipeline and the job.                                     *)
LEMMA AllSound ==
  ASSUME NEW s \in BOOLEAN, NEW plan \in PlansFor(s), NEW k \in 1..Length(plan, s)
  PROVE  Sound(JobsOf(plan, s)[k], Disk(plan, s, k), Disk(plan, s, k + 1),
               RowAt(plan, s, k), RowAt(plan, s, k + 1), BatchAt(plan, k), BatchAt(plan, k + 1))
<1>1. CASE plan = "start"
  BY <1>1 DEF Length
<1>2. CASE plan = "sftp"
  <2>1. s = FALSE /\ k \in 1..17
    BY <1>2 DEF PlansFor, Length
  <2>2. QED
    BY <1>2, <2>1, SftpSound
<1>3. CASE plan = "derive"
  <2>1. k \in 1..10
    BY <1>3 DEF Length
  <2>2. QED
    BY <1>3, <2>1, DeriveSound
<1>4. CASE plan = "finalize"
  <2>1. (s = TRUE /\ k \in 1..3) \/ (s = FALSE /\ k \in 1..6)
    BY <1>4 DEF Length, Packing
  <2>2. QED
    BY <1>4, <2>1, FinalizeSoundOfScans, FinalizeSound
<1>5. CASE plan = "remove"
  <2>1. (s = TRUE /\ k \in 1..10) \/ (s = FALSE /\ k \in 1..13)
    BY <1>5 DEF Length, Packing
  <2>2. QED
    BY <1>5, <2>1, RemoveSoundOfScans, RemoveSound
<1>6. CASE plan = "batch"
  <2>1. k \in 1..7
    BY <1>6 DEF Length
  <2>2. QED
    BY <1>6, <2>1, BatchSound
<1>7. CASE plan = "force"
  <2>1. k \in 1..5
    BY <1>7 DEF Length
  <2>2. QED
    BY <1>7, <2>1, ForceSound
<1>8. plan \in Plans
  BY DEF PlansFor
<1>9. QED
  BY <1>1, <1>2, <1>3, <1>4, <1>5, <1>6, <1>7, <1>8 DEF Plans

LEMMA AllJobs ==
  ASSUME NEW s \in BOOLEAN, NEW plan \in PlansFor(s)
  PROVE  JobsOf(plan, s) \in Seq(Jobs) /\ Len(JobsOf(plan, s)) = Length(plan, s)
<1>1. CASE plan = "start"
  <2>1. JobsOf(plan, s) = <<>> /\ Length(plan, s) = 0
    BY <1>1 DEF JobsOf, Length
  <2>2. QED
    BY <2>1, EmptySeq
<1>2. CASE plan = "sftp"
  BY <1>2, SftpJobs DEF Length
<1>3. CASE plan = "derive"
  BY <1>3, DeriveJobs DEF Length
<1>4. CASE plan = "finalize"
  <2>1. Length(plan, s) = IF s THEN 3 ELSE 6
    BY <1>4 DEF Length, Packing
  <2>2. QED
    BY <1>4, <2>1, FinalizeJobsOfScans, FinalizeJobs
<1>5. CASE plan = "remove"
  <2>1. Length(plan, s) = IF s THEN 10 ELSE 13
    BY <1>5 DEF Length, Packing
  <2>2. QED
    BY <1>5, <2>1, RemoveJobsOfScans, RemoveJobs
<1>6. CASE plan = "batch"
  BY <1>6, BatchJobs DEF Length
<1>7. CASE plan = "force"
  BY <1>7, ForceJobs DEF Length
<1>8. plan \in Plans
  BY DEF PlansFor
<1>9. QED
  BY <1>1, <1>2, <1>3, <1>4, <1>5, <1>6, <1>7, <1>8 DEF Plans

----------------------------------------------------------------------------
(* The steps of a job                                                      *)

LEMMA OneDirectory ==
  ASSUME NEW d \in Dirs
  PROVE  Inside(d) = <<d>> /\ (Exists(d) <=> fs[d] # NoDir)
<1>1. Inside(d) = <<d>>
  BY DEF Dirs, Inside
<1>2. QED
  BY <1>1 DEF Exists

(* These save a row.                                                       *)
Saving == {"set_issue_workflow_step", "set_issue_location",
           "set_issue_original_backup_location", "ignore_issue",
           "set_batch_location", "set_batch_status"}

LEMMA Located ==
  ASSUME NEW j, NEW r, NEW r2, NEW b, NEW b2, Saves(j, r, r2, b, b2), j.type \notin Saving,
         row \in {r, r2}, batch \in {b, b2}
  PROVE  /\ row = r /\ r = r2 /\ batch = b /\ b = b2
         /\ From(j) = At(j.from, r, b) /\ To(j) = At(j.to, r, b)
<1>1. r = r2 /\ b = b2
  BY DEF Saves, Saving
<1>2. QED
  BY <1>1 DEF From, To, Place, At

LEMMA Saved ==
  ASSUME NEW j, NEW r, NEW r2, NEW b, NEW b2, Saves(j, r, r2, b, b2),
         row \in {r, r2}, batch \in {b, b2}
  PROVE  RowAfter(j) = r2 /\ BatchAfter(j) = b2
<1>1. RowAfter(j) = r2
  <2>1. CASE j.type = "set_issue_workflow_step"
    BY <2>1 DEF RowAfter, Saves, RowOf
  <2>2. CASE j.type = "set_issue_location"
    BY <2>2 DEF RowAfter, Saves, RowOf
  <2>3. CASE j.type = "set_issue_original_backup_location"
    BY <2>3 DEF RowAfter, Saves, RowOf
  <2>4. CASE j.type = "ignore_issue"
    BY <2>4 DEF RowAfter, Saves, RowOf
  <2>5. CASE j.type \notin {"set_issue_workflow_step", "set_issue_location",
                            "set_issue_original_backup_location", "ignore_issue"}
    BY <2>5 DEF RowAfter, Saves
  <2>6. QED
    BY <2>1, <2>2, <2>3, <2>4, <2>5
<1>2. BatchAfter(j) = b2
  <2>1. CASE j.type = "set_batch_location"
    BY <2>1 DEF BatchAfter, Saves, BatchOf
  <2>2. CASE j.type = "set_batch_status"
    BY <2>2 DEF BatchAfter, Saves, BatchOf
  <2>3. CASE j.type \notin {"set_batch_location", "set_batch_status"}
    BY <2>3 DEF BatchAfter, Saves
  <2>4. QED
    BY <2>1, <2>2, <2>3
<1>3. QED
  BY <1>1, <1>2

LEMMA Made ==
  ASSUME NEW made, NEW kind, NEW d, FilesOf(kind) \subseteq Content(d)
  PROVE  MadeFrom(made, kind, d) = FilesOf(made)
BY DEF MadeFrom, FilesOf

(* The jobs that put files somewhere want the same files all the while.    *)
LEMMA AddingJob ==
  ASSUME NEW j, NEW L, NEW G, NEW r, NEW r2, NEW b, NEW b2,
         Sound(j, L, G, r, r2, b, b2), On(j, L, G, r, r2, b, b2), fs \in Disks,
         j.type \in Adding
  PROVE  /\ Adds(L, G, To(j), Wanted(j)) /\ Unwanted(j) = {}
         /\ MustNotExist(j) => L[To(j)] = NoDir
         /\ j.type \notin Unrepeatable => ~Impossible(j)
<1> DEFINE src == From(j)
           dst == To(j)
<1>1. /\ row = r /\ batch = b /\ src = At(j.from, r, b) /\ dst = At(j.to, r, b)
  BY Located DEF On, Sound, Adding, Saving
<1>2. AsIn(L, {dst}) /\ L \in Disks /\ G \in Disks
  <2>1. L \in Disks /\ G \in Disks
    BY DEF Sound
  <2>2. Midway(j, L, G)
    BY DEF On
  <2>3. QED
    BY <2>1, <2>2 DEF Midway, Adding
<1>3. \A d \in Dirs : L[d] # NoDir /\ d # dst => fs[d] = L[d] /\ Content(d) = L[d] /\ Exists(d)
  BY <1>2, OneDirectory DEF AsIn, Content
<1>4. Unwanted(j) = {}
  BY DEF Unwanted, Adding
<1>5. CASE j.type \in {"sync_directory", "create_batch_structure"}
  <2>1. /\ src \in Dirs \ {dst} /\ L[src] # NoDir
        /\ L[dst] = NoDir /\ Adds(L, G, dst, L[src])
    BY <1>1, <1>5 DEF Sound
  <2>2. Wanted(j) = Content(src)
    BY <1>5 DEF Wanted, Synced, Linked
  <2>3. ~Impossible(j)
    BY <1>3, <1>5, <2>1 DEF Impossible
  <2>4. QED
    BY <1>3, <1>4, <2>1, <2>2, <2>3
<1>6. CASE j.type = "page_split"
  <2>1. /\ src \in Dirs \ {dst} /\ L[src] = Originals
        /\ L[dst] = NoDir /\ Adds(L, G, dst, PageFiles)
    BY <1>1, <1>6 DEF Sound
  <2>2. Originals # NoDir
    BY Kinds
  <2>3. Wanted(j) = PageFiles
    BY <1>3, <1>6, <2>1, <2>2, Made DEF Wanted, SplitOff, Originals, PageFiles
  <2>4. QED
    BY <1>4, <1>6, <2>1, <2>3 DEF Unrepeatable
<1>7. CASE j.type = "make_derivatives"
  <2>1. /\ src = dst /\ PageFiles \subseteq L[dst]
        /\ L[dst] \subseteq PageFiles \cup Derivatives \cup Tars \cup {METS}
        /\ Adds(L, G, dst, Derivatives)
    BY <1>1, <1>7 DEF Sound
  <2>2. dst \in Dirs /\ L[dst] # NoDir /\ G[dst] = L[dst] \cup Derivatives
    BY <1>2, <2>1, Kinds DEF Adds, Changes, Have
  <2>3. L[dst] \subseteq fs[dst] /\ fs[dst] \subseteq G[dst] /\ fs[dst] # NoDir
    <3>1. L[dst] \subseteq fs[dst] /\ fs[dst] \subseteq G[dst]
      BY <1>7, <2>2 DEF On, Midway, Adding, Have
    <3>2. G[dst] \subseteq Files
      BY <2>1, <2>2, Kinds
    <3>3. QED
      BY <3>1, <3>2, Kinds
  <2>4. Content(dst) = fs[dst]
    BY <2>2, <2>3 DEF Content
  <2>5. Wanted(j) = Derivatives
    BY <1>7, <2>1, <2>3, <2>4, Made DEF Wanted, Derived, Derivatives, PageFiles
  <2>6. ~InvalidSources(src)
    BY <2>1, <2>2, <2>3, <2>4, Kinds, SomeFiles DEF InvalidSources, PageFiles, Originals
  <2>7. QED
    BY <1>4, <1>7, <2>1, <2>5, <2>6 DEF MustNotExist, Impossible
<1>8. CASE j.type = "archive_backups"
  <2>1. /\ r.backup = "backup" /\ L["backup"] = Originals
        /\ dst # "backup" /\ L[dst] # NoDir /\ Adds(L, G, dst, Tars)
    BY <1>1, <1>8 DEF Sound
  <2>2. L["backup"] # NoDir /\ "backup" \in Dirs
    BY <2>1, Kinds DEF Dirs
  <2>3. Content("backup") = Originals /\ Exists("backup")
    BY <1>3, <2>1, <2>2
  <2>4. Wanted(j) = Tars
    BY <1>1, <1>8, <2>1, <2>3, Made DEF Wanted, Archived, Tars, Originals
  <2>5. QED
    BY <1>1, <1>4, <1>8, <2>1, <2>3, <2>4 DEF MustNotExist, Impossible
<1>9. CASE j.type \in {"build_mets", "write_action_log"}
  <2>1. src = dst /\ L[dst] # NoDir /\ Adds(L, G, dst, Wanted(j))
    BY <1>1, <1>9 DEF Sound, Wanted, Transformed, ActionLog
  <2>2. fs[dst] # NoDir /\ dst \in Dirs
    <3>1. fs[dst] = L[dst] \/ fs[dst] \subseteq G[dst]
      BY <1>9 DEF On, Midway, Adding
    <3>2. dst \in Dirs /\ G[dst] \subseteq Files
      BY <1>2, <2>1 DEF Adds, Changes, Have, Disks
    <3>3. QED
      BY <2>1, <3>1, <3>2, Kinds
  <2>3. QED
    BY <1>4, <1>9, <2>1, <2>2, OneDirectory DEF MustNotExist, Impossible
<1>10. QED
  BY <1>5, <1>6, <1>7, <1>8, <1>9 DEF Adding

LEMMA OnBegin ==
  ASSUME NEW j, NEW L, NEW G, NEW r, NEW r2, NEW b, NEW b2,
         Sound(j, L, G, r, r2, b, b2), On(j, L, G, r, r2, b, b2), fs \in Disks,
         Begin, Head(todo) = j
  PROVE  On(j, L, G, r, r2, b, b2)' /\ fs' \in Disks
<1>1. /\ jobState = "pending" /\ jobState' = "running"
      /\ row' = row /\ batch' = batch
      /\ ~(MustNotExist(j) /\ Exists(To(j))) /\ ~Impossible(j)
      /\ fs' = IF MustNotExist(j) /\ j.type # "page_split"
               THEN [fs EXCEPT ![To(j)] = {}] ELSE fs
  BY DEF Begin
<1>2. From(j)' = From(j) /\ To(j)' = To(j)
  BY <1>1 DEF From, To, Place
<1>3. fs' \in Disks
  BY <1>1 DEF Disks
<1>4. SUFFICES Midway(j, L, G)'
  BY <1>1, <1>3 DEF On
<1>5. Midway(j, L, G)
  BY DEF On
<1>6. L \in Disks /\ G \in Disks
  BY DEF Sound
<1>7. CASE j.type \in Adding
  <2>1. Adds(L, G, To(j), Wanted(j)) /\ (MustNotExist(j) => L[To(j)] = NoDir)
    BY <1>7, AddingJob
  <2>2. AsIn(L, {To(j)})'
    BY <1>1, <1>2, <1>5, <1>6, <1>7 DEF Midway, Adding, AsIn, Disks
  <2>3. \/ fs'[To(j)] = L[To(j)]
        \/ Have(L, To(j)) \subseteq fs'[To(j)] /\ fs'[To(j)] \subseteq G[To(j)]
    <3>1. CASE fs' = fs
      BY <1>5, <1>7, <3>1 DEF Midway, Adding
    <3>2. CASE fs' # fs
      BY <1>1, <2>1, <3>2 DEF Adds, Changes, Have, Disks
    <3>3. QED
      BY <3>1, <3>2
  <2>4. QED
    BY <1>2, <1>7, <2>2, <2>3 DEF Midway, Adding
<1>8. CASE j.type = "move_derivatives"
  <2>1. row = r /\ batch = b /\ From(j) = At(j.from, r, b) /\ To(j) = At(j.to, r, b)
    BY <1>8, Located DEF On, Sound, Saving
  <2>2. /\ From(j) \in Dirs /\ To(j) \in Dirs /\ From(j) # To(j)
        /\ L[From(j)] = Readied /\ G[From(j)] = PageFiles
        /\ L[To(j)] = NoDir /\ G[To(j)] = Derivatives
    BY <1>8, <2>1 DEF Sound
  <2>3. MustNotExist(j) /\ fs[To(j)] = NoDir
    BY <1>1, <1>8, <2>2, OneDirectory DEF MustNotExist
  <2>4. fs' = [fs EXCEPT ![To(j)] = {}]
    BY <1>1, <1>8, <2>3
  <2>5. AsIn(L, {From(j), To(j)}) /\ fs[From(j)] = L[From(j)]
    BY <1>5, <1>8, <2>2, <2>3, Kinds DEF Midway, Adding
  <2>6. /\ AsIn(L, {From(j), To(j)})'
        /\ fs'[To(j)] = {} /\ fs'[From(j)] = L[From(j)]
    BY <1>2, <2>2, <2>4, <2>5 DEF AsIn, Disks
  <2>7. QED
    BY <1>2, <1>8, <2>2, <2>6 DEF Midway, Adding, Readied
<1>9. CASE j.type \notin Adding \cup {"move_derivatives"}
  <2>1. fs' = fs
    BY <1>1, <1>9 DEF MustNotExist, Adding
  <2>2. CASE j.type = "rename_directory"
    <3>1. ~AsIn(G, {})
      <4>1. SUFFICES ASSUME AsIn(G, {}) PROVE FALSE
        OBVIOUS
      <4>2. ~CannotRename(j.from, j.to)
        BY <1>1, <2>2 DEF Impossible
      <4>3. CASE RenamesOne(L, G, j.from, j.to)
        BY <4>1, <4>2, <4>3, OneDirectory DEF CannotRename, RenamesOne, AsIn
      <4>4. CASE j.from = "errors-wip" /\ RenamesErrors(L, G)
        <5>1. Inside("errors-wip") = <<"errors-wip/content", "errors-wip/derivatives">>
          BY DEF Inside
        <5>2. ~Exists("errors-wip")
          BY <4>1, <4>4, <5>1 DEF Exists, RenamesErrors, AsIn, Dirs
        <5>3. QED
          BY <4>2, <4>4, <5>2 DEF CannotRename
      <4>5. QED
        BY <2>2, <4>3, <4>4 DEF Sound, Adding
    <3>2. QED
      BY <1>1, <1>5, <2>1, <2>2, <3>1 DEF Midway, Adding, AsIn
  <2>3. CASE j.type # "rename_directory"
    BY <1>2, <1>5, <1>9, <2>1, <2>3 DEF Midway, AsIn
  <2>4. QED
    BY <2>2, <2>3
<1>10. QED
  BY <1>7, <1>8, <1>9

(* A file more                                                             *)
LEMMA OnPutFile ==
  ASSUME NEW j, NEW L, NEW G, NEW r, NEW r2, NEW b, NEW b2,
         Sound(j, L, G, r, r2, b, b2), On(j, L, G, r, r2, b, b2), fs \in Disks,
         PutFile, Head(todo) = j
  PROVE  On(j, L, G, r, r2, b, b2)' /\ fs' \in Disks
<1>0. PICK dst : dst = To(j)
  OBVIOUS
<1> DEFINE new == Wanted(j) \ Content(dst)
<1>1. /\ jobState = "running" /\ jobState' = jobState /\ row' = row /\ batch' = batch
      /\ \E f \in new : fs' = [fs EXCEPT ![dst] =
                           Content(dst) \cup (IF j.type = "archive_backups" THEN new ELSE {f})]
  BY <1>0 DEF PutFile
<1>2. j.type \in Adding
  BY <1>1 DEF Wanted, Adding
<1>3. From(j)' = From(j) /\ To(j)' = dst
  BY <1>0, <1>1 DEF From, To, Place
<1>4. Adds(L, G, dst, Wanted(j)) /\ L \in Disks
  BY <1>0, <1>2, AddingJob DEF Sound
<1>5. dst \in Dirs /\ Wanted(j) \subseteq Files /\ G[dst] = Have(L, dst) \cup Wanted(j)
  BY <1>4 DEF Adds, Changes
<1>6. PICK F \in SUBSET new : fs' = [fs EXCEPT ![dst] = Content(dst) \cup F]
  BY <1>1
<1>7. /\ AsIn(L, {dst})
      /\ fs[dst] = L[dst] \/ (Have(L, dst) \subseteq fs[dst] /\ fs[dst] \subseteq G[dst])
  BY <1>0, <1>2 DEF On, Midway, Adding
<1>8. Have(L, dst) \subseteq Content(dst) /\ Content(dst) \subseteq G[dst]
  <2>1. CASE fs[dst] = L[dst]
    BY <1>5, <2>1 DEF Content, Have
  <2>2. CASE Have(L, dst) \subseteq fs[dst] /\ fs[dst] \subseteq G[dst]
    <3>1. G[dst] \subseteq Files
      BY <1>4, <1>5 DEF Have, Disks
    <3>2. fs[dst] # NoDir
      BY <2>2, <3>1, Kinds
    <3>3. QED
      BY <1>5, <2>2, <3>2 DEF Content
  <2>3. QED
    BY <1>7, <2>1, <2>2
<1>9. /\ AsIn(L, {dst})'
      /\ Have(L, dst) \subseteq fs'[dst] /\ fs'[dst] \subseteq G[dst]
  BY <1>5, <1>6, <1>7, <1>8 DEF AsIn, Disks
<1>10. Midway(j, L, G)'
  BY <1>2, <1>3, <1>9 DEF Midway, Adding
<1>11. fs' \in Disks
  <2>1. Content(dst) \cup F \subseteq Files
    BY <1>4, <1>5, <1>8 DEF Have, Disks
  <2>2. QED
    BY <1>0, <1>6, <2>1 DEF Disks
<1>12. QED
  BY <1>1, <1>10, <1>11 DEF On

(* A file less                                                             *)
LEMMA OnRemoveFile ==
  ASSUME NEW j, NEW L, NEW G, NEW r, NEW r2, NEW b, NEW b2,
         Sound(j, L, G, r, r2, b, b2), On(j, L, G, r, r2, b, b2), fs \in Disks,
         RemoveFile, Head(todo) = j
  PROVE  On(j, L, G, r, r2, b, b2)' /\ fs' \in Disks
<1>0. PICK src, dst : src = From(j) /\ dst = To(j)
  OBVIOUS
<1>1. PICK f \in Unwanted(j) :
        fs' = [d \in Dirs |->
                 IF d = src THEN fs[d] \ {f}
                 ELSE IF j.type = "move_derivatives" /\ d = dst THEN fs[d] \cup {f}
                 ELSE fs[d]]
  <2> DEFINE Removed(x, f) ==
        [d \in Dirs |-> IF d = From(x) THEN fs[d] \ {f}
                       ELSE IF x.type = "move_derivatives" /\ d = To(x) THEN fs[d] \cup {f}
                       ELSE fs[d]]
  <2>1. \E f \in Unwanted(Head(todo)) : fs' = Removed(Head(todo), f)
    BY Zenon DEF RemoveFile
  <2> HIDE DEF Removed
  <2>2. PICK f \in Unwanted(j) : fs' = Removed(j, f)
    BY <2>1
  <2>3. QED
    BY <1>0, <2>2 DEF Removed
<1>2. jobState = "running" /\ jobState' = jobState /\ row' = row /\ batch' = batch
  BY DEF RemoveFile
<1>3. From(j)' = src /\ To(j)' = dst
  BY <1>0, <1>2 DEF From, To, Place
<1>4. j.type \in {"delete_directory", "clean_files", "move_derivatives"}
  BY <1>1 DEF Unwanted
<1>5. /\ row = r /\ batch = b /\ src = At(j.from, r, b) /\ dst = At(j.to, r, b)
  BY <1>0, <1>4, Located DEF On, Sound, Saving
<1>6. Midway(j, L, G) /\ L \in Disks /\ G \in Disks
  BY DEF On, Sound
<1>7. f \in Content(src) /\ src \in Dirs /\ fs[src] # NoDir /\ f \in fs[src] /\ fs[src] \subseteq Files
  <2>1. f \in Content(src)
    BY <1>0, <1>1, <1>4 DEF Unwanted, Killed, Fraggable, Movable
  <2>2. QED
    BY <2>1 DEF Content, Disks
<1>8. CASE j.type \in {"delete_directory", "clean_files"}
  <2>1. fs' = [d \in Dirs |-> IF d = src THEN fs[d] \ {f} ELSE fs[d]]
    BY <1>1, <1>8
  <2>2. AsIn(L, {src}) /\ AsIn(L, {src})' /\ fs'[src] = fs[src] \ {f}
    BY <1>0, <1>6, <1>7, <1>8, <2>1 DEF Midway, Adding, AsIn
  <2>3. ASSUME j.type = "delete_directory" PROVE Midway(j, L, G)'
    <3>1. fs[src] \subseteq L[src]
      BY <1>0, <1>6, <1>7, <2>3 DEF Midway, Adding
    <3>2. QED
      BY <1>3, <2>2, <2>3, <3>1 DEF Midway, Adding, AsIn
  <2>4. ASSUME j.type = "clean_files" PROVE Midway(j, L, G)'
    <3>1. G[src] \subseteq fs[src] /\ fs[src] \subseteq L[src]
      BY <1>0, <1>6, <2>4 DEF Midway, Adding
    <3>2. f = Cruft
      BY <1>0, <1>1, <2>4 DEF Unwanted, Fraggable
    <3>3. G[src] = L[src] \ {Cruft}
      BY <1>5, <2>4 DEF Sound, Changes
    <3>4. QED
      BY <1>3, <2>2, <2>4, <3>1, <3>2, <3>3 DEF Midway, Adding, AsIn
  <2>5. Midway(j, L, G)'
    BY <1>8, <2>3, <2>4
  <2>6. fs' \in Disks
    BY <1>7, <2>1 DEF Disks
  <2>7. QED
    BY <1>2, <2>5, <2>6 DEF On
<1>9. CASE j.type = "move_derivatives"
  <2>1. /\ src \in Dirs /\ dst \in Dirs /\ src # dst
        /\ L[src] = Readied /\ G[src] = PageFiles
        /\ L[dst] = NoDir /\ G[dst] = Derivatives
    BY <1>5, <1>9 DEF Sound
  <2>2. /\ AsIn(L, {src, dst})
        /\ fs[dst] \subseteq Derivatives /\ fs[src] \cup fs[dst] = Readied
        /\ PageFiles \subseteq fs[src]
    BY <1>0, <1>2, <1>6, <1>9, <2>1 DEF Midway, Adding
  <2>3. f \in Derivatives
    <3>1. f \in Derivatives \cup {METS}
      BY <1>0, <1>1, <1>9 DEF Unwanted, Movable, Transformed, Derivatives
    <3>2. QED
      BY <1>7, <2>2, <3>1, Kinds DEF Readied
  <2>4. /\ AsIn(L, {src, dst})'
        /\ fs'[src] = fs[src] \ {f} /\ fs'[dst] = fs[dst] \cup {f}
    BY <1>1, <1>9, <2>1, <2>2 DEF AsIn
  <2>5. /\ fs'[dst] \subseteq Derivatives /\ fs'[src] \cup fs'[dst] = Readied
        /\ PageFiles \subseteq fs'[src]
    BY <1>7, <2>2, <2>3, <2>4, Kinds
  <2>6. Midway(j, L, G)'
    BY <1>3, <1>9, <2>1, <2>4, <2>5 DEF Midway, Adding
  <2>7. fs' \in Disks
    BY <1>1, <1>7, <1>9, <2>1, <2>4, <2>5, Kinds DEF Disks
  <2>8. QED
    BY <1>2, <2>6, <2>7 DEF On
<1>10. QED
  BY <1>4, <1>8, <1>9

(* Renaming a directory, or the two of an issue in error                   *)
LEMMA RenamedOne ==
  ASSUME NEW from \in Dirs, NEW to \in Dirs, from # to
  PROVE  Renamed(from, to)
           = [x \in Dirs |-> IF x = to THEN fs[from] ELSE IF x = from THEN NoDir ELSE fs[x]]
<1>1. Inside(from) = <<from>> /\ Inside(to) = <<to>>
  BY OneDirectory
<1>2. \A x : (\E i \in DOMAIN Inside(to) : Inside(to)[i] = x) <=> x = to
  BY <1>1
<1>3. \A x : (\E i \in DOMAIN Inside(from) : Inside(from)[i] = x) <=> x = from
  BY <1>1
<1>4. Inside(from)[CHOOSE i \in DOMAIN Inside(to) : Inside(to)[i] = to] = from
  <2>1. (CHOOSE i \in DOMAIN Inside(to) : Inside(to)[i] = to) \in DOMAIN Inside(to)
    BY <1>2
  <2>2. DOMAIN Inside(to) = {1} /\ Inside(from)[1] = from
    BY <1>1
  <2>3. QED
    BY <2>1, <2>2
<1>5. ASSUME NEW x \in Dirs
      PROVE  (IF \E i \in DOMAIN Inside(to) : Inside(to)[i] = x
              THEN fs[Inside(from)[CHOOSE i \in DOMAIN Inside(to) : Inside(to)[i] = x]]
              ELSE IF \E i \in DOMAIN Inside(from) : Inside(from)[i] = x THEN NoDir ELSE fs[x])
             = IF x = to THEN fs[from] ELSE IF x = from THEN NoDir ELSE fs[x]
  BY <1>2, <1>3, <1>4
<1>6. QED
  BY <1>5 DEF Renamed

LEMMA RenamedErrors ==
  LET ec == "errors/content"
      ed == "errors/derivatives"
      wc == "errors-wip/content"
      wd == "errors-wip/derivatives"
  IN  Renamed("errors-wip", "errors")
        = [x \in Dirs |-> IF x = ec THEN fs[wc] ELSE IF x = ed THEN fs[wd]
                          ELSE IF x \in {wc, wd} THEN NoDir ELSE fs[x]]
<1> DEFINE ec == "errors/content"
           ed == "errors/derivatives"
           wc == "errors-wip/content"
           wd == "errors-wip/derivatives"
           from == Inside("errors-wip")
           to == Inside("errors")
<1>1. from = <<wc, wd>> /\ to = <<ec, ed>> /\ ec # ed
  BY DEF Inside
<1> HIDE DEF from, to
<1>2. /\ DOMAIN from = {1, 2} /\ from[1] = wc /\ from[2] = wd
      /\ DOMAIN to = {1, 2} /\ to[1] = ec /\ to[2] = ed
  BY <1>1
<1>3. \A x : (\E i \in DOMAIN to : to[i] = x) <=> x \in {ec, ed}
  BY <1>2
<1>4. \A x : (\E i \in DOMAIN from : from[i] = x) <=> x \in {wc, wd}
  BY <1>2
<1>5. (CHOOSE i \in DOMAIN to : to[i] = ec) = 1
  BY <1>1, <1>2
<1>6. (CHOOSE i \in DOMAIN to : to[i] = ed) = 2
  BY <1>1, <1>2
<1>7. ASSUME NEW x \in Dirs
      PROVE  (IF \E i \in DOMAIN to : to[i] = x
              THEN fs[from[CHOOSE i \in DOMAIN to : to[i] = x]]
              ELSE IF \E i \in DOMAIN from : from[i] = x THEN NoDir ELSE fs[x])
             = IF x = ec THEN fs[wc] ELSE IF x = ed THEN fs[wd]
               ELSE IF x \in {wc, wd} THEN NoDir ELSE fs[x]
  <2>1. CASE x = ec
    BY <1>2, <1>3, <1>5, <2>1
  <2>2. CASE x = ed
    BY <1>1, <1>2, <1>3, <1>6, <2>2
  <2>3. CASE x \notin {ec, ed}
    BY <1>3, <1>4, <2>3
  <2>4. QED
    BY <2>1, <2>2, <2>3
<1>8. QED
  BY <1>7 DEF Renamed, from, to

(* Process returns true: the job has made of L what G says.                *)
LEMMA OnFinish ==
  ASSUME NEW j, NEW L, NEW G, NEW r, NEW r2, NEW b, NEW b2,
         Sound(j, L, G, r, r2, b, b2), On(j, L, G, r, r2, b, b2), fs \in Disks,
         Finish, Head(todo) = j
  PROVE  On(j, L, G, r, r2, b, b2)' /\ fs' \in Disks
<1>0. PICK src, dst, W : src = From(j) /\ dst = To(j) /\ W = Wanted(j)
  OBVIOUS
<1>1. /\ jobState = "running" /\ jobState' = "done"
      /\ W \subseteq Content(dst) /\ Unwanted(j) = {}
      /\ fs' = CASE j.type = "rename_directory" -> Renamed(j.from, j.to)
                 [] j.type = "delete_directory" -> [fs EXCEPT ![j.from] = NoDir]
                 [] OTHER                       -> fs
      /\ row' = RowAfter(j) /\ batch' = BatchAfter(j)
  BY <1>0 DEF Finish
<1>2. row' = r2 /\ batch' = b2
  BY <1>1, Saved DEF Sound, On
<1>3. Midway(j, L, G) /\ L \in Disks /\ G \in Disks
  BY DEF On, Sound
<1>4. SUFFICES Midway(j, L, G)' /\ AsIn(G, {})' /\ fs' \in Disks
  BY <1>2, <1>4 DEF On
<1>5. ASSUME j.type \notin Saving
      PROVE  /\ row = r /\ batch = b /\ src = At(j.from, r, b) /\ dst = At(j.to, r, b)
             /\ From(j)' = src /\ To(j)' = dst
  <2>1. /\ row = r /\ r = r2 /\ batch = b /\ b = b2
        /\ From(j) = At(j.from, r, b) /\ To(j) = At(j.to, r, b)
    BY <1>5, Located DEF On, Sound
  <2>2. QED
    BY <1>0, <1>2, <2>1 DEF From, To, Place
<1>6. CASE j.type \in Adding
  <2>1. Adds(L, G, dst, W) /\ j.type \notin Saving
    BY <1>0, <1>6, AddingJob DEF Adding, Saving
  <2>2. /\ dst \in Dirs /\ W # {} /\ G[dst] = Have(L, dst) \cup W
        /\ \A x \in Dirs \ {dst} : G[x] = L[x]
    BY <2>1 DEF Adds, Changes
  <2>3. fs' = fs
    BY <1>1, <1>6 DEF Adding
  <2>4. /\ AsIn(L, {dst})
        /\ fs[dst] = L[dst] \/ (Have(L, dst) \subseteq fs[dst] /\ fs[dst] \subseteq G[dst])
    BY <1>0, <1>3, <1>6 DEF Midway, Adding
  <2>5. W \subseteq fs[dst] /\ fs[dst] # NoDir
    BY <1>1, <2>2 DEF Content
  <2>6. fs[dst] = G[dst]
    BY <2>2, <2>4, <2>5 DEF Have
  <2>7. AsIn(G, {})'
    BY <2>2, <2>3, <2>4, <2>6 DEF AsIn
  <2>8. Midway(j, L, G)'
    BY <1>5, <1>6, <2>1, <2>3, <2>4 DEF Midway, Adding, AsIn
  <2>9. QED
    BY <2>3, <2>7, <2>8
<1>7. CASE j.type = "delete_directory"
  <2>1. /\ src = j.from /\ src \in Dirs /\ G[src] = NoDir
        /\ \A x \in Dirs \ {src} : G[x] = L[x]
    <3>1. src = At(j.from, r, b)
      BY <1>5, <1>7 DEF Saving
    <3>2. j.from \in Dirs \ {"batch"} /\ Changes(L, G, At(j.from, r, b), NoDir)
      BY <1>7 DEF Sound
    <3>3. j.from # "issue" /\ j.from # "batch"
      <4>1. j.from \in Dirs \ {"batch"}
        BY <3>2
      <4>2. QED
        BY <4>1 DEF Dirs
    <3>4. At(j.from, r, b) = j.from
      BY <3>3 DEF At
    <3>5. QED
      BY <3>1, <3>2, <3>4 DEF Changes
  <2>2. fs' = [fs EXCEPT ![src] = NoDir]
    BY <1>1, <1>7, <2>1
  <2>3. AsIn(L, {src})
    BY <1>0, <1>3, <1>7 DEF Midway, Adding
  <2>4. fs'[src] = NoDir /\ AsIn(L, {src})' /\ AsIn(G, {})'
    BY <2>1, <2>2, <2>3 DEF AsIn, Disks
  <2>5. Midway(j, L, G)'
    BY <1>5, <1>7, <2>4 DEF Midway, Adding, Saving
  <2>6. QED
    BY <2>2, <2>4, <2>5 DEF Disks
<1>8. CASE j.type = "clean_files"
  <2>1. /\ src \in Dirs /\ L[src] # NoDir /\ G[src] = L[src] \ {Cruft}
        /\ \A x \in Dirs \ {src} : G[x] = L[x]
    BY <1>5, <1>8 DEF Sound, Saving, Changes
  <2>2. fs' = fs
    BY <1>1, <1>8
  <2>3. AsIn(L, {src}) /\ G[src] \subseteq fs[src] /\ fs[src] \subseteq L[src]
    BY <1>0, <1>3, <1>8 DEF Midway, Adding
  <2>4. fs[src] # NoDir
    BY <1>3, <2>1, <2>3, Kinds DEF Disks
  <2>5. Cruft \notin fs[src]
    BY <1>0, <1>1, <1>8, <2>1, <2>4 DEF Unwanted, Fraggable, Content
  <2>6. fs[src] = G[src]
    BY <2>1, <2>3, <2>5
  <2>7. AsIn(L, {src})' /\ AsIn(G, {})'
    BY <2>1, <2>2, <2>3, <2>6 DEF AsIn
  <2>8. Midway(j, L, G)'
    BY <1>5, <1>8, <2>1, <2>2, <2>6, <2>7 DEF Midway, Adding, Saving
  <2>9. QED
    BY <2>2, <2>7, <2>8
<1>9. CASE j.type = "move_derivatives"
  <2>1. /\ src \in Dirs /\ dst \in Dirs /\ src # dst
        /\ L[src] = Readied /\ G[src] = PageFiles
        /\ L[dst] = NoDir /\ G[dst] = Derivatives
        /\ \A x \in Dirs \ {src, dst} : G[x] = L[x]
    BY <1>5, <1>9 DEF Sound, Saving
  <2>2. fs' = fs
    BY <1>1, <1>9
  <2>3. /\ AsIn(L, {src, dst})
        /\ fs[dst] \subseteq Derivatives /\ fs[src] \cup fs[dst] = Readied
        /\ PageFiles \subseteq fs[src]
    BY <1>0, <1>1, <1>3, <1>9, <2>1 DEF Midway, Adding
  <2>4. fs[src] # NoDir
    <3>1. Readied \subseteq Files
      BY Kinds DEF Readied
    <3>2. QED
      BY <2>3, <3>1, Kinds
  <2>5. fs[src] \cap Derivatives = {}
    BY <1>0, <1>1, <1>9, <2>1, <2>4 DEF Unwanted, Movable, Content, Derivatives
  <2>6. fs[src] = PageFiles /\ fs[dst] = Derivatives
    BY <2>3, <2>5, Kinds DEF Readied
  <2>7. AsIn(L, {src, dst})' /\ AsIn(G, {})'
    BY <2>1, <2>2, <2>3, <2>6 DEF AsIn
  <2>8. Midway(j, L, G)'
    BY <1>5, <1>9, <2>1, <2>2, <2>6, <2>7 DEF Midway, Adding, Saving, Readied
  <2>9. QED
    BY <2>2, <2>7, <2>8
<1>10. CASE j.type = "rename_directory"
  <2>1. AsIn(L, {}) /\ fs' = Renamed(j.from, j.to)
    BY <1>1, <1>3, <1>10 DEF Midway, Adding
  <2>2. AsIn(G, {})' /\ fs' \in Disks
    <3>1. CASE RenamesOne(L, G, j.from, j.to)
      <4>1. /\ j.from \in Dirs /\ j.to \in Dirs /\ j.from # j.to
            /\ G[j.from] = NoDir /\ G[j.to] = L[j.from]
            /\ \A x \in Dirs \ {j.from, j.to} : G[x] = L[x]
        BY <3>1 DEF RenamesOne
      <4>2. fs' = [x \in Dirs |-> IF x = j.to THEN fs[j.from]
                                  ELSE IF x = j.from THEN NoDir ELSE fs[x]]
        BY <2>1, <4>1, RenamedOne
      <4>3. QED
        BY <2>1, <4>1, <4>2 DEF AsIn, Disks
    <3>2. CASE j.from = "errors-wip" /\ j.to = "errors" /\ RenamesErrors(L, G)
      <4>1. fs' = [x \in Dirs |->
                     IF x = "errors/content" THEN fs["errors-wip/content"]
                     ELSE IF x = "errors/derivatives" THEN fs["errors-wip/derivatives"]
                     ELSE IF x \in {"errors-wip/content", "errors-wip/derivatives"} THEN NoDir
                     ELSE fs[x]]
        BY <2>1, <3>2, RenamedErrors
      <4>2. "errors-wip/content" \in Dirs /\ "errors-wip/derivatives" \in Dirs
        BY DEF Dirs
      <4>3. QED
        BY <2>1, <3>2, <4>1, <4>2 DEF AsIn, Disks, RenamesErrors
    <3>3. QED
      BY <1>10, <3>1, <3>2 DEF Sound
  <2>3. QED
    BY <1>1, <1>10, <2>2 DEF Midway, Adding
<1>11. CASE j.type \notin Adding \cup {"delete_directory", "clean_files", "move_derivatives",
                                      "rename_directory"}
  <2>1. fs' = fs
    BY <1>1, <1>11
  <2>2. AsIn(L, {})
    BY <1>3, <1>11 DEF Midway
  <2>3. \A x \in Dirs : G[x] = L[x]
    BY <1>11 DEF Sound, Adding
  <2>4. AsIn(L, {})' /\ AsIn(G, {})'
    BY <2>1, <2>2, <2>3 DEF AsIn
  <2>5. QED
    BY <1>11, <2>1, <2>4 DEF Midway
<1>12. QED
  BY <1>6, <1>7, <1>8, <1>9, <1>10, <1>11

(* Steps of the job's row only                                             *)
LEMMA OnIdle ==
  ASSUME NEW j, NEW L, NEW G, NEW r, NEW r2, NEW b, NEW b2,
         On(j, L, G, r, r2, b, b2), UNCHANGED <<fs, row, batch>>,
         jobState' \notin {"running", "done"}
  PROVE  On(j, L, G, r, r2, b, b2)'
<1>0. PICK src, dst : src = From(j) /\ dst = To(j)
  OBVIOUS
<1>1. fs' = fs /\ row' = row /\ batch' = batch
  OBVIOUS
<1>2. From(j)' = src /\ To(j)' = dst
  BY <1>0, <1>1 DEF From, To, Place
<1>3. Midway(j, L, G)
  BY DEF On
<1>4. \A X : AsIn(L, X)' = AsIn(L, X) /\ AsIn(G, X)' = AsIn(G, X)
  BY <1>1 DEF AsIn
<1>5. Midway(j, L, G)'
  <2>1. CASE j.type \in Adding
    BY <1>0, <1>1, <1>2, <1>3, <1>4, <2>1 DEF Midway, Adding
  <2>2. CASE j.type = "delete_directory"
    BY <1>0, <1>1, <1>2, <1>3, <1>4, <2>2 DEF Midway, Adding
  <2>3. CASE j.type = "clean_files"
    BY <1>0, <1>1, <1>2, <1>3, <1>4, <2>3 DEF Midway, Adding
  <2>4. CASE j.type = "move_derivatives"
    BY <1>0, <1>1, <1>2, <1>3, <1>4, <2>4 DEF Midway, Adding
  <2>5. CASE j.type = "rename_directory"
    BY <1>1, <1>3, <1>4, <2>5 DEF Midway, Adding
  <2>6. CASE j.type \notin Adding \cup {"delete_directory", "clean_files", "move_derivatives",
                                       "rename_directory"}
    BY <1>3, <1>4, <2>6 DEF Midway
  <2>7. QED
    BY <2>1, <2>2, <2>3, <2>4, <2>5, <2>6
<1>6. QED
  BY <1>1, <1>5 DEF On

(* A job becomes the next.                                                 *)
LEMMA OnNext ==
  ASSUME NEW j, NEW L, NEW G, NEW r, NEW r2, NEW b, NEW b2,
         Sound(j, L, G, r, r2, b, b2),
         row' = r, batch' = b, AsIn(L, {})', jobState' \notin {"running", "done"}
  PROVE  On(j, L, G, r, r2, b, b2)'
<1>0. PICK src, dst : src = At(j.from, r, b) /\ dst = At(j.to, r, b)
  OBVIOUS
<1>1. From(j)' = src /\ To(j)' = dst
  BY <1>0 DEF From, To, Place, At
<1>2. \A d \in Dirs : fs'[d] = L[d]
  BY DEF AsIn
<1>3. \A X : AsIn(L, X)'
  BY <1>2 DEF AsIn
<1>4. L \in Disks /\ G \in Disks
  BY DEF Sound
<1>5. CASE j.type \in Adding
  <2>1. dst \in Dirs
    BY <1>0, <1>5 DEF Sound, Adding, Adds, Changes
  <2>2. QED
    BY <1>1, <1>2, <1>3, <1>5, <2>1 DEF On, Midway, Adding
<1>6. CASE j.type = "delete_directory"
  <2>1. src \in Dirs
    BY <1>0, <1>6 DEF Sound, Changes
  <2>2. QED
    BY <1>1, <1>2, <1>3, <1>6, <2>1 DEF On, Midway, Adding
<1>7. CASE j.type = "clean_files"
  <2>1. src \in Dirs /\ G[src] \subseteq L[src]
    BY <1>0, <1>7 DEF Sound, Changes
  <2>2. QED
    BY <1>1, <1>2, <1>3, <1>7, <2>1 DEF On, Midway, Adding
<1>8. CASE j.type = "move_derivatives"
  <2>1. src \in Dirs /\ dst \in Dirs /\ L[dst] = NoDir
    BY <1>0, <1>8 DEF Sound
  <2>2. QED
    BY <1>1, <1>2, <1>3, <1>8, <2>1 DEF On, Midway, Adding
<1>9. CASE j.type \notin Adding \cup {"delete_directory", "clean_files", "move_derivatives"}
  BY <1>3, <1>9 DEF On, Midway
<1>10. QED
  BY <1>5, <1>6, <1>7, <1>8, <1>9

(* Jobs of most types can be executed whatever an earlier attempt has left. *)
LEMMA Doable ==
  ASSUME NEW j, NEW L, NEW G, NEW r, NEW r2, NEW b, NEW b2,
         Sound(j, L, G, r, r2, b, b2), On(j, L, G, r, r2, b, b2), fs \in Disks,
         j.type \notin Unrepeatable
  PROVE  ~Impossible(j) /\ ~MustNotExist(j)
<1>0. PICK src : src = From(j)
  OBVIOUS
<1>1. ~MustNotExist(j)
  BY DEF MustNotExist, Unrepeatable
<1>2. CASE j.type \in Adding
  BY <1>1, <1>2, AddingJob
<1>3. CASE j.type = "delete_directory"
  <2>1. j.from \in Dirs
    BY <1>3 DEF Sound
  <2>2. j.from # ""
    BY <2>1 DEF Dirs
  <2>3. QED
    BY <1>1, <1>3, <2>2 DEF Impossible
<1>4. ASSUME j.type \in {"clean_files", "renumber_pages", "make_batch_xml", "write_bagit_manifest"}
      PROVE  src = At(j.from, r, b)
  BY <1>0, <1>4, Located DEF On, Sound, Saving
<1>5. CASE j.type = "clean_files"
  <2>1. src \in Dirs /\ L[src] # NoDir /\ L \in Disks
    BY <1>4, <1>5 DEF Sound, Changes
  <2>2. fs[src] \subseteq L[src]
    BY <1>0, <1>5 DEF On, Midway, Adding
  <2>3. Exists(src)
    BY <2>1, <2>2, Kinds, OneDirectory DEF Disks
  <2>4. QED
    BY <1>0, <1>1, <1>5, <2>3 DEF Impossible
<1>6. CASE j.type \in {"renumber_pages", "make_batch_xml", "write_bagit_manifest"}
  <2>1. src \in Dirs /\ L[src] # NoDir
    BY <1>4, <1>6 DEF Sound, Adding
  <2>2. AsIn(L, {})
    BY <1>6 DEF On, Midway, Adding
  <2>3. Exists(src)
    BY <2>1, <2>2, OneDirectory DEF AsIn
  <2>4. QED
    BY <1>0, <1>1, <1>6, <2>3 DEF Impossible
<1>7. CASE j.type \notin Adding \cup {"delete_directory", "clean_files", "renumber_pages",
                                     "make_batch_xml", "write_bagit_manifest"}
  BY <1>1, <1>7 DEF Impossible, Unrepeatable, Adding
<1>8. QED
  BY <1>2, <1>3, <1>5, <1>6, <1>7

----------------------------------------------------------------------------
(* From one pipeline to the next                                           *)

(* What the rows hold when a pipeline has ended ...                        *)
LEMMA EndRows ==
  ASSUME NEW s \in BOOLEAN
  PROVE  /\ RowAt("start", s, 1) = RowOf(s, "upload", "", "Upload", FALSE)
         /\ RowAt("sftp", FALSE, 18)
              = RowOf(FALSE, "pagereview", "backup", "AwaitingPageReview", FALSE)
         /\ RowAt("derive", s, 11)
              = RowOf(s, "workflow", Backup(s), "ReadyForMetadataEntry", FALSE)
         /\ RowAt("finalize", s, Length("finalize", s) + 1)
              = RowOf(s, "workflow", "", "ReadyForBatching", FALSE)
         /\ RowAt("remove", s, Length("remove", s) + 1)
              = RowOf(s, "", "", "UnfixableMetadataError", TRUE)
         /\ RowAt("batch", s, 8) = RowOf(s, "workflow", "", "ReadyForBatching", FALSE)
         /\ RowAt("force", s, 6) = RowOf(s, "workflow", "", "ReadyForBatching", FALSE)
<1>1. RowAt("start", s, 1) = RowOf(s, "upload", "", "Upload", FALSE)
  BY DEF RowAt
<1>2. RowAt("sftp", FALSE, 18)
        = RowOf(FALSE, "pagereview", "backup", "AwaitingPageReview", FALSE)
  BY DEF RowAt, SftpRow
<1>3. RowAt("derive", s, 11)
        = RowOf(s, "workflow", Backup(s), "ReadyForMetadataEntry", FALSE)
  BY DEF RowAt, DeriveRow
<1>4. RowAt("finalize", s, Length("finalize", s) + 1)
        = RowOf(s, "workflow", "", "ReadyForBatching", FALSE)
  <2>1. CASE s
    <3>1. Length("finalize", s) + 1 = 4 /\ Packing(s) = 0 /\ Backup(s) = ""
      BY <2>1 DEF Length, Packing, Backup
    <3>2. RowAt("finalize", s, 4) = FinalizeRow(s, 4)
      BY DEF RowAt
    <3>3. FinalizeRow(s, 4) = RowOf(s, "workflow", "", "ReadyForBatching", FALSE)
      <4>1. (IF 4 <= 4 THEN Backup(s) ELSE "") = ""
        BY <3>1
      <4>2. (IF 4 <= 2 + Packing(s) THEN "ReadyForMETSXML" ELSE "ReadyForBatching")
              = "ReadyForBatching"
        BY <2>1 DEF Packing
      <4>3. QED
        BY <4>1, <4>2, Zenon DEF FinalizeRow
    <3>4. QED
      BY <3>1, <3>2, <3>3
  <2>2. CASE ~s
    <3>1. Length("finalize", s) + 1 = 7 /\ Packing(s) = 3
      BY <2>2 DEF Length, Packing
    <3>2. RowAt("finalize", s, 7) = FinalizeRow(s, 7)
      BY DEF RowAt
    <3>3. FinalizeRow(s, 7) = RowOf(s, "workflow", "", "ReadyForBatching", FALSE)
      BY <3>1 DEF FinalizeRow
    <3>4. QED
      BY <3>1, <3>2, <3>3
  <2>3. QED
    BY <2>1, <2>2
<1>5. RowAt("remove", s, Length("remove", s) + 1)
        = RowOf(s, "", "", "UnfixableMetadataError", TRUE)
  BY DEF RowAt, RemoveRow, Length, Packing
<1>6. RowAt("batch", s, 8) = RowOf(s, "workflow", "", "ReadyForBatching", FALSE)
  BY DEF RowAt, ForceRow
<1>7. RowAt("force", s, 6) = RowOf(s, "workflow", "", "ReadyForBatching", FALSE)
  BY DEF RowAt, ForceRow
<1>8. QED
  BY <1>1, <1>2, <1>3, <1>4, <1>5, <1>6, <1>7

(* ... and when one begins                                                 *)
LEMMA FirstRows ==
  ASSUME NEW s \in BOOLEAN
  PROVE  /\ RowAt("sftp", FALSE, 1) = RowOf(FALSE, "upload", "", "Upload", FALSE)
         /\ RowAt("derive", TRUE, 1) = RowOf(TRUE, "upload", "", "Upload", FALSE)
         /\ RowAt("derive", FALSE, 1)
              = RowOf(FALSE, "notouchie", "backup", "AwaitingProcessing", FALSE)
         /\ RowAt("finalize", s, 1) = RowOf(s, "workflow", Backup(s), "ReadyForMETSXML", FALSE)
         /\ RowAt("remove", s, 1) = RowOf(s, "workflow", Backup(s), "AwaitingProcessing", FALSE)
         /\ RowAt("batch", s, 1) = RowOf(s, "workflow", "", "ReadyForBatching", FALSE)
         /\ RowAt("force", s, 1) = RowOf(s, "workflow", "", "ReadyForBatching", FALSE)
<1>1. RowAt("sftp", FALSE, 1) = RowOf(FALSE, "upload", "", "Upload", FALSE)
  BY DEF RowAt, SftpRow
<1>2. RowAt("derive", TRUE, 1) = RowOf(TRUE, "upload", "", "Upload", FALSE)
  BY DEF RowAt, DeriveRow, Source, Backup
<1>3. RowAt("derive", FALSE, 1)
        = RowOf(FALSE, "notouchie", "backup", "AwaitingProcessing", FALSE)
  BY DEF RowAt, DeriveRow, Source, Backup
<1>4. RowAt("finalize", s, 1) = RowOf(s, "workflow", Backup(s), "ReadyForMETSXML", FALSE)
  BY DEF RowAt, FinalizeRow, Packing
<1>5. RowAt("remove", s, 1) = RowOf(s, "workflow", Backup(s), "AwaitingProcessing", FALSE)
  BY DEF RowAt, RemoveRow, Packing
<1>6. RowAt("batch", s, 1) = RowOf(s, "workflow", "", "ReadyForBatching", FALSE)
  BY DEF RowAt, ForceRow
<1>7. RowAt("force", s, 1) = RowOf(s, "workflow", "", "ReadyForBatching", FALSE)
  BY DEF RowAt, ForceRow
<1>8. QED
  BY <1>1, <1>2, <1>3, <1>4, <1>5, <1>6, <1>7

(* The directories are as the pipeline before has left them.               *)
LEMMA SameDisks ==
  ASSUME NEW s \in BOOLEAN
  PROVE  /\ Disk("start", FALSE, 1) = Disk("sftp", FALSE, 1)
         /\ Disk("start", TRUE, 1) = Disk("derive", TRUE, 1)
         /\ Disk("derive", s, 11) = Disk("finalize", s, 1)
         /\ Disk("derive", s, 11) = Disk("remove", s, 1)
         /\ Disk("finalize", s, Length("finalize", s) + 1) = Disk("batch", s, 1)
         /\ Disk("batch", s, 8) = Disk("force", s, 1)
<1> USE DEF Held, If, Disk
<1>1. Disk("start", FALSE, 1) = Disk("sftp", FALSE, 1)
  BY DEF SftpDisk
<1>2. Disk("start", TRUE, 1) = Disk("derive", TRUE, 1)
  BY DEF DeriveDisk, Uploaded, Reviewed, Source
<1>3. Disk("derive", s, 11) = Disk("finalize", s, 1)
  BY DEF DeriveDisk, FinalizeDisk, Source
<1>4. Disk("derive", s, 11) = Disk("remove", s, 1)
  BY DEF DeriveDisk, RemoveDisk, Source, Packing
<1>5. Disk("finalize", s, Length("finalize", s) + 1) = Disk("batch", s, 1)
  BY DEF FinalizeDisk, BatchDisk, Batched, Length, Packing
<1>6. Disk("batch", s, 8) = Disk("force", s, 1)
  OBVIOUS
<1>7. QED
  BY <1>1, <1>2, <1>3, <1>4, <1>5, <1>6

(* The watcher hides the issue's directory.                                *)
LEMMA HiddenDisk ==
  Disk("derive", FALSE, 1)
    = [x \in Dirs |-> IF x = "notouchie" THEN Disk("sftp", FALSE, 18)["pagereview"]
                      ELSE IF x = "pagereview" THEN NoDir ELSE Disk("sftp", FALSE, 18)[x]]
BY DEF Held, If, Disk, SftpDisk, DeriveDisk, Reviewed, Source, Dirs

----------------------------------------------------------------------------
(* The invariant                                                           *)

LEMMA Lengths ==
  ASSUME NEW s \in BOOLEAN, NEW plan \in Plans
  PROVE  Length(plan, s) \in 0..17 /\ (plan # "start" => Length(plan, s) >= 1)
BY DEF Plans, Length, Packing

(* The job that is being executed is the first of those left.              *)
LEMMA FirstJob ==
  ASSUME NEW s \in BOOLEAN, NEW plan \in PlansFor(s), NEW k \in 1..17, Under(plan, s, k)
  PROVE  /\ k \in 1..Length(plan, s) /\ todo # <<>>
         /\ Head(todo) = JobsOf(plan, s)[k]
         /\ Tail(todo) = SubSeq(JobsOf(plan, s), k + 1, Length(plan, s))
<1> DEFINE J == JobsOf(plan, s)
           n == Length(plan, s)
<1>1. J \in Seq(Jobs) /\ Len(J) = n
  BY AllJobs
<1>2. n \in 0..17 /\ k \in 1..n
  BY Lengths DEF PlansFor, Under
<1>3. todo = SubSeq(J, k, n)
  BY DEF Under
<1> HIDE DEF J, n
<1>4. Head(todo) = J[k] /\ Tail(todo) = SubSeq(J, k + 1, n)
  BY <1>1, <1>2, <1>3, HeadTailOfSubSeq
<1>5. todo # <<>>
  <2>1. \A i \in k..n : J[i] \in Jobs
    BY <1>1, <1>2, ElementOfSeq
  <2>2. todo \in Seq(Jobs) /\ Len(todo) = IF k <= n THEN n - k + 1 ELSE 0
    BY <1>2, <1>3, <2>1, SubSeqProperties
  <2>3. Len(todo) > 0
    BY <1>2, <2>2
  <2>4. QED
    BY <2>3, EmptySeq
<1>6. QED
  BY <1>2, <1>4, <1>5 DEF J, n

(* A step of the job under way                                             *)
JobStep ==
  \/ Begin \/ PutFile \/ RemoveFile \/ Finish \/ Refuse \/ Fail \/ Crash \/ ResetCanceledJob
  \/ Requeue \/ QueueNextJob

LEMMA UnderJob ==
  ASSUME NEW s \in BOOLEAN, NEW plan \in PlansFor(s), NEW k \in 1..17, Under(plan, s, k),
         fs \in Disks, JobStep
  PROVE  Under(plan, s, k)' /\ fs' \in Disks
<1>0. PICK j, L, G, r, r2, b, b2 :
        /\ j = JobsOf(plan, s)[k] /\ L = Disk(plan, s, k) /\ G = Disk(plan, s, k + 1)
        /\ r = RowAt(plan, s, k) /\ r2 = RowAt(plan, s, k + 1)
        /\ b = BatchAt(plan, k) /\ b2 = BatchAt(plan, k + 1)
  OBVIOUS
<1>1. k \in 1..Length(plan, s) /\ Head(todo) = j
  BY <1>0, FirstJob
<1>2. Sound(j, L, G, r, r2, b, b2)
  BY <1>0, <1>1, AllSound
<1>3. On(j, L, G, r, r2, b, b2)
  BY <1>0 DEF Under
<1>4. todo' = todo /\ scan' = scan
  BY DEF JobStep, Begin, PutFile, RemoveFile, Finish, Refuse, Fail, Crash, ResetCanceledJob,
         Requeue, QueueNextJob
<1>5. On(j, L, G, r, r2, b, b2)' /\ fs' \in Disks
  <2>1. CASE Begin
    BY <1>1, <1>2, <1>3, <2>1, OnBegin
  <2>2. CASE PutFile
    BY <1>1, <1>2, <1>3, <2>2, OnPutFile
  <2>3. CASE RemoveFile
    BY <1>1, <1>2, <1>3, <2>3, OnRemoveFile
  <2>4. CASE Finish
    BY <1>1, <1>2, <1>3, <2>4, OnFinish
  <2>5. CASE Refuse \/ Fail \/ Crash \/ ResetCanceledJob \/ Requeue \/ QueueNextJob
    <3>1. UNCHANGED <<fs, row, batch>> /\ jobState' \notin {"running", "done"}
      BY <2>5 DEF Refuse, Fail, Retried, Crash, ResetCanceledJob, Requeue, QueueNextJob
    <3>2. QED
      BY <1>3, <3>1, OnIdle
  <2>6. QED
    BY <2>1, <2>2, <2>3, <2>4, <2>5 DEF JobStep
<1>6. QED
  BY <1>0, <1>4, <1>5 DEF Under

(* A pipeline is begun.                                                    *)
LEMMA Started ==
  ASSUME NEW s \in BOOLEAN, NEW plan \in PlansFor(s), plan # "start",
         todo' = JobsOf(plan, s), scan' = "idle", jobState' = "pending",
         row' = RowAt(plan, s, 1), batch' = BatchAt(plan, 1), AsIn(Disk(plan, s, 1), {})'
  PROVE  Under(plan, s, 1)'
<1>0. PICK j, L, G, r, r2, b, b2 :
        /\ j = JobsOf(plan, s)[1] /\ L = Disk(plan, s, 1) /\ G = Disk(plan, s, 1 + 1)
        /\ r = RowAt(plan, s, 1) /\ r2 = RowAt(plan, s, 1 + 1)
        /\ b = BatchAt(plan, 1) /\ b2 = BatchAt(plan, 1 + 1)
  OBVIOUS
<1>1. Length(plan, s) \in 1..17
  BY Lengths DEF PlansFor
<1>2. Sound(j, L, G, r, r2, b, b2)
  BY <1>0, <1>1, AllSound
<1>3. AsIn(L, {})' /\ row' = r /\ batch' = b
  BY <1>0
<1>4. On(j, L, G, r, r2, b, b2)'
  BY <1>2, <1>3, OnNext
<1>5. JobsOf(plan, s) = SubSeq(JobsOf(plan, s), 1, Length(plan, s))
  BY AllJobs, SubSeqFull
<1>6. 1 <= Length(plan, s)
  BY <1>1
<1>7. QED
  BY <1>0, <1>4, <1>5, <1>6 DEF Under

(* The job is saved as successful: the next one is the first that is left.  *)
LEMMA UnderSuccess ==
  ASSUME NEW s \in BOOLEAN, NEW plan \in PlansFor(s), NEW k \in 1..17, Under(plan, s, k),
         HandleSuccess
  PROVE  IF k < Length(plan, s) THEN Under(plan, s, k + 1)' ELSE Over(plan, s)'
<1>0. PICK L, r, b : L = Disk(plan, s, k + 1) /\ r = RowAt(plan, s, k + 1) /\ b = BatchAt(plan, k + 1)
  OBVIOUS
<1>1. /\ Length(plan, s) \in 0..17 /\ k \in 1..Length(plan, s)
      /\ todo' = SubSeq(JobsOf(plan, s), k + 1, Length(plan, s))
  BY Lengths, FirstJob DEF HandleSuccess, PlansFor
<1>2. row = r /\ batch = b /\ AsIn(L, {})
  BY <1>0 DEF Under, On, HandleSuccess
<1>3. /\ row' = r /\ batch' = b /\ AsIn(L, {})' /\ scan' = "idle"
      /\ jobState' = IF todo' = <<>> THEN "pending" ELSE "on_hold"
  BY <1>2 DEF HandleSuccess, AsIn, Under
<1>4. CASE k < Length(plan, s)
  <2>0. PICK m, j, G, r2, b2 :
          /\ m = k + 1 /\ j = JobsOf(plan, s)[m] /\ G = Disk(plan, s, m + 1)
          /\ r2 = RowAt(plan, s, m + 1) /\ b2 = BatchAt(plan, m + 1)
    OBVIOUS
  <2>1. m \in 1..Length(plan, s)
    BY <1>1, <1>4, <2>0
  <2>2. Sound(j, L, G, r, r2, b, b2)
    BY <1>0, <2>0, <2>1, AllSound
  <2>3. On(j, L, G, r, r2, b, b2)'
    BY <1>3, <2>2, OnNext
  <2>4. m <= Length(plan, s)
    BY <1>1, <2>1
  <2>5. Under(plan, s, m)'
    BY <1>0, <1>1, <1>3, <2>0, <2>3, <2>4 DEF Under
  <2>6. QED
    BY <1>4, <2>0, <2>5
<1>5. CASE ~(k < Length(plan, s))
  <2>1. k = Length(plan, s)
    BY <1>1, <1>5
  <2>2. todo' = <<>>
    BY <1>1, <2>1, SubSeqEmpty
  <2>3. QED
    BY <1>0, <1>3, <1>5, <2>1, <2>2 DEF Over, Ended, Between
<1>6. QED
  BY <1>4, <1>5

(* When only the job that records the pipeline is left, nothing else is.   *)
LEMMA RecordLeft ==
  ASSUME NEW s \in BOOLEAN, NEW plan \in PlansFor(s), NEW k \in 1..17, Under(plan, s, k),
         todo = <<RecordAction>>
  PROVE  Ended(plan, s)
<1>0. PICK j, L, G, r, r2, b, b2 :
        /\ j = JobsOf(plan, s)[k] /\ L = Disk(plan, s, k) /\ G = Disk(plan, s, k + 1)
        /\ r = RowAt(plan, s, k) /\ r2 = RowAt(plan, s, k + 1)
        /\ b = BatchAt(plan, k) /\ b2 = BatchAt(plan, k + 1)
  OBVIOUS
<1>1. k \in 1..Length(plan, s) /\ j = RecordAction
  BY <1>0, FirstJob
<1>2. k = Length(plan, s)
  <2> DEFINE J == JobsOf(plan, s)
             n == Length(plan, s)
  <2>1. J \in Seq(Jobs) /\ Len(J) = n /\ n \in 0..17 /\ k \in 1..n /\ todo = SubSeq(J, k, n)
    BY <1>1, AllJobs, Lengths DEF PlansFor, Under
  <2> HIDE DEF J, n
  <2>2. \A i \in k..n : J[i] \in Jobs
    BY <2>1, ElementOfSeq
  <2>3. Len(todo) = n - k + 1
    BY <2>1, <2>2, SubSeqProperties
  <2>4. Len(todo) = 1
    OBVIOUS
  <2>5. k = n
    BY <2>1, <2>3, <2>4
  <2>6. QED
    BY <2>5 DEF n
<1>3. Sound(j, L, G, r, r2, b, b2) /\ On(j, L, G, r, r2, b, b2)
  BY <1>0, <1>1, AllSound DEF Under
<1>4. j.type = "record_issue_action"
  BY <1>1 DEF RecordAction, OnIssue, Job
<1>5. row = r2 /\ batch = b2
  BY <1>3, <1>4, Located DEF On, Sound, Saving
<1>6. AsIn(G, {})
  BY <1>3, <1>4 DEF On, Midway, Sound, Adding, AsIn
<1>7. scan = "idle"
  BY DEF Under
<1>8. QED
  BY <1>0, <1>2, <1>5, <1>6, <1>7 DEF Ended, Between

(* Where the issue and its batch are when nothing is under way             *)
LEMMA AtEnd ==
  ASSUME NEW s \in BOOLEAN, NEW plan \in PlansFor(s), Ended(plan, s)
  PROVE  /\ plan = "start" =>
              /\ row = RowOf(s, "upload", "", "Upload", FALSE)
              /\ batch = BatchOf("", "none") /\ AsIn(Disk("start", s, 1), {})
         /\ plan = "sftp" =>
              /\ s = FALSE
              /\ row = RowOf(FALSE, "pagereview", "backup", "AwaitingPageReview", FALSE)
              /\ batch = BatchOf("", "none") /\ AsIn(Disk("sftp", FALSE, 18), {})
         /\ plan = "derive" =>
              /\ row = RowOf(s, "workflow", Backup(s), "ReadyForMetadataEntry", FALSE)
              /\ batch = BatchOf("", "none") /\ AsIn(Disk("derive", s, 11), {})
         /\ plan = "finalize" =>
              /\ row = RowOf(s, "workflow", "", "ReadyForBatching", FALSE)
              /\ batch = BatchOf("", "none") /\ AsIn(Disk("batch", s, 1), {})
         /\ plan = "remove" =>
              /\ row = RowOf(s, "", "", "UnfixableMetadataError", TRUE)
              /\ batch = BatchOf("", "none")
              /\ AsIn(Disk("remove", s, Length("remove", s) + 1), {})
         /\ plan = "batch" =>
              /\ row = RowOf(s, "workflow", "", "ReadyForBatching", FALSE)
              /\ batch = BatchOf("batch", "qc_ready") /\ AsIn(Disk("force", s, 1), {})
         /\ plan = "force" =>
              /\ row = RowOf(s, "workflow", "", "ReadyForBatching", FALSE)
              /\ batch = BatchOf("batch", "deleted") /\ AsIn(Disk("force", s, 6), {})
<1>1. /\ row = RowAt(plan, s, Length(plan, s) + 1) /\ batch = BatchAt(plan, Length(plan, s) + 1)
      /\ AsIn(Disk(plan, s, Length(plan, s) + 1), {})
  BY DEF Ended, Between
<1>2. CASE plan = "start"
  <2>1. Length(plan, s) + 1 = 1
    BY <1>2 DEF Length
  <2>2. BatchAt("start", 1) = BatchOf("", "none")
    BY DEF BatchAt
  <2>3. QED
    BY <1>1, <1>2, <2>1, <2>2, EndRows
<1>3. CASE plan = "sftp"
  <2>1. Length(plan, s) + 1 = 18 /\ s = FALSE
    BY <1>3 DEF Length, PlansFor
  <2>2. BatchAt("sftp", 18) = BatchOf("", "none")
    BY DEF BatchAt
  <2>3. QED
    BY <1>1, <1>3, <2>1, <2>2, EndRows
<1>4. CASE plan = "derive"
  <2>1. Length(plan, s) + 1 = 11
    BY <1>4 DEF Length
  <2>2. BatchAt("derive", 11) = BatchOf("", "none")
    BY DEF BatchAt
  <2>3. QED
    BY <1>1, <1>4, <2>1, <2>2, EndRows
<1>5. CASE plan = "finalize"
  <2>1. BatchAt("finalize", Length(plan, s) + 1) = BatchOf("", "none")
    BY DEF BatchAt
  <2>2. QED
    BY <1>1, <1>5, <2>1, EndRows, SameDisks
<1>6. CASE plan = "remove"
  <2>1. BatchAt("remove", Length(plan, s) + 1) = BatchOf("", "none")
    BY DEF BatchAt
  <2>2. QED
    BY <1>1, <1>6, <2>1, EndRows
<1>7. CASE plan = "batch"
  <2>1. Length(plan, s) + 1 = 8
    BY <1>7 DEF Length
  <2>2. BatchAt("batch", 8) = BatchOf("batch", "qc_ready")
    BY DEF BatchAt
  <2>3. QED
    BY <1>1, <1>7, <2>1, <2>2, EndRows, SameDisks
<1>8. CASE plan = "force"
  <2>1. Length(plan, s) + 1 = 6
    BY <1>8 DEF Length
  <2>2. BatchAt("force", 6) = BatchOf("batch", "deleted")
    BY DEF BatchAt
  <2>3. QED
    BY <1>1, <1>8, <2>1, <2>2, EndRows
<1>9. plan \in Plans
  BY DEF PlansFor
<1>10. QED
  BY <1>2, <1>3, <1>4, <1>5, <1>6, <1>7, <1>8, <1>9 DEF Plans

(* The workflow step and the status tell which pipeline was the last.       *)
LEMMA StepsAtEnd ==
  ASSUME NEW s \in BOOLEAN, NEW plan \in PlansFor(s), Ended(plan, s)
  PROVE  /\ row.ws = "Upload" => plan = "start"
         /\ row.ws = "AwaitingPageReview" => plan = "sftp"
         /\ row.ws = "ReadyForMetadataEntry" => plan = "derive"
         /\ row.ws = "ReadyForBatching" /\ batch.status = "none" => plan = "finalize"
         /\ row.ws = "ReadyForBatching" /\ batch.status = "qc_ready" => plan = "batch"
<1>1. ASSUME plan = "start" PROVE row.ws = "Upload" /\ batch.status = "none"
  <2>1. row = RowOf(s, "upload", "", "Upload", FALSE) /\ batch = BatchOf("", "none")
    BY <1>1, AtEnd
  <2>2. QED
    BY <2>1 DEF RowOf, BatchOf
<1>2. ASSUME plan = "sftp" PROVE row.ws = "AwaitingPageReview" /\ batch.status = "none"
  <2>1. row = RowOf(FALSE, "pagereview", "backup", "AwaitingPageReview", FALSE) /\ batch = BatchOf("", "none")
    BY <1>2, AtEnd
  <2>2. QED
    BY <2>1 DEF RowOf, BatchOf
<1>3. ASSUME plan = "derive" PROVE row.ws = "ReadyForMetadataEntry" /\ batch.status = "none"
  <2>1. row = RowOf(s, "workflow", Backup(s), "ReadyForMetadataEntry", FALSE) /\ batch = BatchOf("", "none")
    BY <1>3, AtEnd
  <2>2. QED
    BY <2>1 DEF RowOf, BatchOf
<1>4. ASSUME plan = "finalize" PROVE row.ws = "ReadyForBatching" /\ batch.status = "none"
  <2>1. row = RowOf(s, "workflow", "", "ReadyForBatching", FALSE) /\ batch = BatchOf("", "none")
    BY <1>4, AtEnd
  <2>2. QED
    BY <2>1 DEF RowOf, BatchOf
<1>5. ASSUME plan = "remove" PROVE row.ws = "UnfixableMetadataError" /\ batch.status = "none"
  <2>1. row = RowOf(s, "", "", "UnfixableMetadataError", TRUE) /\ batch = BatchOf("", "none")
    BY <1>5, AtEnd
  <2>2. QED
    BY <2>1 DEF RowOf, BatchOf
<1>6. ASSUME plan = "batch" PROVE row.ws = "ReadyForBatching" /\ batch.status = "qc_ready"
  <2>1. row = RowOf(s, "workflow", "", "ReadyForBatching", FALSE) /\ batch = BatchOf("batch", "qc_ready")
    BY <1>6, AtEnd
  <2>2. QED
    BY <2>1 DEF RowOf, BatchOf
<1>7. ASSUME plan = "force" PROVE row.ws = "ReadyForBatching" /\ batch.status = "deleted"
  <2>1. row = RowOf(s, "workflow", "", "ReadyForBatching", FALSE) /\ batch = BatchOf("batch", "deleted")
    BY <1>7, AtEnd
  <2>2. QED
    BY <2>1 DEF RowOf, BatchOf
<1>8. plan \in Plans
  BY DEF PlansFor
<1>9. QED
  BY <1>1, <1>2, <1>3, <1>4, <1>5, <1>6, <1>7, <1>8 DEF Plans

(* A person or a watcher begins a pipeline.                                *)
Queueing ==
  QueueUpload \/ Approve \/ Remove \/ MakeBatch \/ ForceDerivatives \/ NotouchieRename

LEMMA EndedStep ==
  ASSUME NEW s \in BOOLEAN, NEW plan \in PlansFor(s), Ended(plan, s), Queueing
  PROVE  OnPlan'
<1>1. plan \in Plans /\ scan = "idle"
  BY DEF PlansFor, Ended
<1>2. ASSUME NEW p \in PlansFor(s), Under(p, s, 1)'
      PROVE  OnPlan'
  <2>1. 1 \in 1..17
    OBVIOUS
  <2>2. QED
    BY <1>2, <2>1 DEF OnPlan
<1>3. CASE QueueUpload
  <2>1. /\ row.ws = "Upload" /\ row' = row /\ batch' = batch /\ fs' = fs
        /\ todo' = IF row.scanned THEN QueueMoveIssueForDerivatives(row) ELSE QueueSFTPIssueMove(row)
        /\ scan' = "idle" /\ jobState' = "pending"
    BY <1>1, <1>3 DEF QueueUpload, Queue
  <2>2. plan = "start"
    BY <2>1, StepsAtEnd
  <2>3. /\ row = RowOf(s, "upload", "", "Upload", FALSE)
        /\ batch = BatchOf("", "none") /\ AsIn(Disk("start", s, 1), {})
    BY <2>2, AtEnd
  <2>4. row.scanned = s /\ row.location = "upload"
    BY <2>3 DEF RowOf
  <2>5. BatchAt("derive", 1) = BatchOf("", "none") /\ BatchAt("sftp", 1) = BatchOf("", "none")
    BY DEF BatchAt
  <2>6. CASE s = TRUE
    <3>1. todo' = JobsOf("derive", s)
      BY <2>1, <2>4, <2>6 DEF JobsOf, Source, QueueMoveIssueForDerivatives
    <3>2. row' = RowAt("derive", s, 1) /\ AsIn(Disk("derive", s, 1), {})'
      BY <2>1, <2>3, <2>6, FirstRows, SameDisks DEF AsIn
    <3>3. "derive" \in PlansFor(s)
      BY DEF PlansFor, Plans
    <3>4. Under("derive", s, 1)'
      BY <2>1, <2>3, <2>5, <3>1, <3>2, <3>3, Started
    <3>5. QED
      BY <1>2, <3>3, <3>4
  <2>7. CASE s = FALSE
    <3>1. todo' = JobsOf("sftp", s)
      BY <2>1, <2>4, <2>7 DEF JobsOf, QueueSFTPIssueMove
    <3>2. row' = RowAt("sftp", s, 1) /\ AsIn(Disk("sftp", s, 1), {})'
      BY <2>1, <2>3, <2>7, FirstRows, SameDisks DEF AsIn
    <3>3. "sftp" \in PlansFor(s)
      BY <2>7 DEF PlansFor, Plans
    <3>4. Under("sftp", s, 1)'
      BY <2>1, <2>3, <2>5, <3>1, <3>2, <3>3, Started
    <3>5. QED
      BY <1>2, <3>3, <3>4
  <2>8. QED
    BY <2>6, <2>7
<1>4. CASE Approve
  <2>1. /\ row.ws = "ReadyForMetadataEntry" /\ row' = [row EXCEPT !.ws = "ReadyForMETSXML"]
        /\ batch' = batch /\ fs' = fs /\ todo' = QueueFinalizeIssue(row)
        /\ scan' = "idle" /\ jobState' = "pending"
    BY <1>1, <1>4 DEF Approve, Queue
  <2>2. plan = "derive"
    BY <2>1, StepsAtEnd
  <2>3. /\ row = RowOf(s, "workflow", Backup(s), "ReadyForMetadataEntry", FALSE)
        /\ batch = BatchOf("", "none") /\ AsIn(Disk("derive", s, 11), {})
    BY <2>2, AtEnd
  <2>4. row' = RowOf(s, "workflow", Backup(s), "ReadyForMETSXML", FALSE) /\ row.backup = Backup(s)
    BY <2>1, <2>3 DEF RowOf
  <2>5. BatchAt("finalize", 1) = BatchOf("", "none")
    BY DEF BatchAt
  <2>6. todo' = JobsOf("finalize", s)
    BY <2>1, <2>4 DEF JobsOf, QueueFinalizeIssue, ArchiveJobs
  <2>7. row' = RowAt("finalize", s, 1) /\ AsIn(Disk("finalize", s, 1), {})'
    BY <2>1, <2>3, <2>4, FirstRows, SameDisks DEF AsIn
  <2>8. "finalize" \in PlansFor(s)
    BY DEF PlansFor, Plans
  <2>9. Under("finalize", s, 1)'
    BY <2>1, <2>3, <2>5, <2>6, <2>7, <2>8, Started
  <2>10. QED
    BY <1>2, <2>8, <2>9
<1>5. CASE Remove
  <2>1. /\ row.ws = "ReadyForMetadataEntry" /\ row' = [row EXCEPT !.ws = "AwaitingProcessing"]
        /\ batch' = batch /\ fs' = fs /\ todo' = GetJobsForRemoveErroredIssue(row)
        /\ scan' = "idle" /\ jobState' = "pending"
    BY <1>1, <1>5 DEF Remove, Queue
  <2>2. plan = "derive"
    BY <2>1, StepsAtEnd
  <2>3. /\ row = RowOf(s, "workflow", Backup(s), "ReadyForMetadataEntry", FALSE)
        /\ batch = BatchOf("", "none") /\ AsIn(Disk("derive", s, 11), {})
    BY <2>2, AtEnd
  <2>4. /\ row' = RowOf(s, "workflow", Backup(s), "AwaitingProcessing", FALSE)
        /\ row.backup = Backup(s) /\ row.location = "workflow"
    BY <2>1, <2>3 DEF RowOf
  <2>5. BatchAt("remove", 1) = BatchOf("", "none")
    BY DEF BatchAt
  <2>6. todo' = JobsOf("remove", s)
    BY <2>1, <2>4 DEF JobsOf, GetJobsForRemoveErroredIssue, ArchiveJobs
  <2>7. row' = RowAt("remove", s, 1) /\ AsIn(Disk("remove", s, 1), {})'
    BY <2>1, <2>3, <2>4, FirstRows, SameDisks DEF AsIn
  <2>8. "remove" \in PlansFor(s)
    BY DEF PlansFor, Plans
  <2>9. Under("remove", s, 1)'
    BY <2>1, <2>3, <2>5, <2>6, <2>7, <2>8, Started
  <2>10. QED
    BY <1>2, <2>8, <2>9
<1>6. CASE MakeBatch
  <2>1. /\ row.ws = "ReadyForBatching" /\ batch.status = "none"
        /\ batch' = [batch EXCEPT !.status = "pending"]
        /\ row' = row /\ fs' = fs /\ todo' = QueueMakeBatch
        /\ scan' = "idle" /\ jobState' = "pending"
    BY <1>1, <1>6 DEF MakeBatch, Queue
  <2>2. plan = "finalize"
    BY <2>1, StepsAtEnd
  <2>3. /\ row = RowOf(s, "workflow", "", "ReadyForBatching", FALSE)
        /\ batch = BatchOf("", "none") /\ AsIn(Disk("batch", s, 1), {})
    BY <2>2, AtEnd
  <2>4. batch' = BatchOf("", "pending")
    BY <2>1, <2>3 DEF BatchOf
  <2>5. BatchAt("batch", 1) = BatchOf("", "pending")
    BY DEF BatchAt
  <2>6. todo' = JobsOf("batch", s)
    BY <2>1 DEF JobsOf
  <2>7. row' = RowAt("batch", s, 1) /\ AsIn(Disk("batch", s, 1), {})'
    BY <2>1, <2>3, FirstRows DEF AsIn
  <2>8. "batch" \in PlansFor(s)
    BY DEF PlansFor, Plans
  <2>9. Under("batch", s, 1)'
    BY <2>1, <2>4, <2>5, <2>6, <2>7, <2>8, Started
  <2>10. QED
    BY <1>2, <2>8, <2>9
<1>7. CASE ForceDerivatives
  <2>1. /\ row.ws = "ReadyForBatching" /\ batch.status = "qc_ready"
        /\ batch' = [batch EXCEPT !.status = "deleted"]
        /\ row' = row /\ fs' = fs /\ todo' = QueueForceDerivatives(row)
        /\ scan' = "idle" /\ jobState' = "pending"
    BY <1>1, <1>7 DEF ForceDerivatives, Queue
  <2>2. plan = "batch"
    BY <2>1, StepsAtEnd
  <2>3. /\ row = RowOf(s, "workflow", "", "ReadyForBatching", FALSE)
        /\ batch = BatchOf("batch", "qc_ready") /\ AsIn(Disk("force", s, 1), {})
    BY <2>2, AtEnd
  <2>4. batch' = BatchOf("batch", "deleted")
    BY <2>1, <2>3 DEF BatchOf
  <2>5. BatchAt("force", 1) = BatchOf("batch", "deleted")
    BY DEF BatchAt
  <2>6. todo' = JobsOf("force", s)
    BY <2>1 DEF JobsOf, QueueForceDerivatives
  <2>7. row' = RowAt("force", s, 1) /\ AsIn(Disk("force", s, 1), {})'
    BY <2>1, <2>3, FirstRows DEF AsIn
  <2>8. "force" \in PlansFor(s)
    BY DEF PlansFor, Plans
  <2>9. Under("force", s, 1)'
    BY <2>1, <2>4, <2>5, <2>6, <2>7, <2>8, Started
  <2>10. QED
    BY <1>2, <2>8, <2>9
<1>8. CASE NotouchieRename
  <2>1. /\ row.ws = "AwaitingPageReview" /\ todo' = <<>> /\ jobState' = "pending"
        /\ fs' = Renamed(row.location, "notouchie") /\ scan' = "renamed"
        /\ row' = row /\ batch' = batch
    BY <1>1, <1>8 DEF NotouchieRename
  <2>2. plan = "sftp"
    BY <2>1, StepsAtEnd
  <2>3. /\ row = RowOf(FALSE, "pagereview", "backup", "AwaitingPageReview", FALSE)
        /\ batch = BatchOf("", "none") /\ AsIn(Disk("sftp", FALSE, 18), {})
    BY <2>2, AtEnd
  <2>4. row.location = "pagereview"
    BY <2>3 DEF RowOf
  <2>5. "pagereview" \in Dirs /\ "notouchie" \in Dirs /\ "pagereview" # "notouchie"
    BY DEF Dirs
  <2>6. fs' = [x \in Dirs |-> IF x = "notouchie" THEN fs["pagereview"]
                              ELSE IF x = "pagereview" THEN NoDir ELSE fs[x]]
    BY <2>1, <2>4, <2>5, RenamedOne
  <2>7. AsIn(Disk("derive", FALSE, 1), {})'
    BY <2>3, <2>5, <2>6, HiddenDisk DEF AsIn
  <2>8. batch' = BatchAt("sftp", 18)
    BY <2>1, <2>3 DEF BatchAt
  <2>9. row' = RowAt("sftp", FALSE, 18)
    BY <2>1, <2>3, EndRows
  <2>10. Watching'
    BY <2>1, <2>7, <2>8, <2>9 DEF Watching
  <2>11. QED
    BY <2>10 DEF OnPlan
<1>9. QED
  BY <1>3, <1>4, <1>5, <1>6, <1>7, <1>8 DEF Queueing

LEMMA EndedDisks ==
  ASSUME NEW s \in BOOLEAN, NEW plan \in PlansFor(s), Ended(plan, s), fs \in Disks, Queueing
  PROVE  fs' \in Disks
<1>1. CASE NotouchieRename
  <2>1. plan = "sftp" /\ fs' = Renamed(row.location, "notouchie")
    BY <1>1, StepsAtEnd DEF NotouchieRename
  <2>2. row = RowOf(FALSE, "pagereview", "backup", "AwaitingPageReview", FALSE)
    BY <2>1, AtEnd
  <2>3. row.location = "pagereview"
    BY <2>2 DEF RowOf
  <2>4. "pagereview" \in Dirs /\ "notouchie" \in Dirs /\ "pagereview" # "notouchie"
    BY DEF Dirs
  <2>5. fs' = [x \in Dirs |-> IF x = "notouchie" THEN fs["pagereview"]
                              ELSE IF x = "pagereview" THEN NoDir ELSE fs[x]]
    BY <2>1, <2>3, <2>4, RenamedOne
  <2>6. QED
    BY <2>4, <2>5 DEF Disks
<1>2. CASE ~NotouchieRename
  BY <1>2 DEF Queueing, QueueUpload, Approve, Remove, MakeBatch, ForceDerivatives, Queue
<1>3. QED
  BY <1>1, <1>2

(* The watcher of page review goes on, or dies.                            *)
LEMMA WatchingStep ==
  ASSUME Watching, NotouchieSave \/ NotouchieQueue \/ WatcherDies
  PROVE  OnPlan'
<1>1. /\ todo = <<>> /\ jobState = "pending" /\ scan # "idle"
      /\ AsIn(Disk("derive", FALSE, 1), {}) /\ batch = BatchAt("sftp", 18)
      /\ scan = "renamed" => row = RowAt("sftp", FALSE, 18)
      /\ scan = "saved" => row = RowAt("derive", FALSE, 1)
  BY DEF Watching
<1>2. CASE NotouchieSave
  <2>1. /\ row = RowAt("sftp", FALSE, 18) /\ scan' = "saved" /\ fs' = fs /\ batch' = batch
        /\ row' = [row EXCEPT !.location = "notouchie", !.ws = "AwaitingProcessing"]
        /\ todo' = <<>> /\ jobState' = "pending"
    BY <1>1, <1>2 DEF NotouchieSave, jobVars
  <2>2. row' = RowAt("derive", FALSE, 1)
    <3>1. row = RowOf(FALSE, "pagereview", "backup", "AwaitingPageReview", FALSE)
      BY <2>1, EndRows
    <3>2. PICK hidden : hidden = [row EXCEPT !.location = "notouchie"]
      OBVIOUS
    <3>3. hidden = RowOf(FALSE, "notouchie", "backup", "AwaitingPageReview", FALSE)
      BY <3>1, <3>2 DEF RowOf
    <3>4. row' = [hidden EXCEPT !.ws = "AwaitingProcessing"]
      BY <2>1, <3>2
    <3>5. row' = RowOf(FALSE, "notouchie", "backup", "AwaitingProcessing", FALSE)
      BY <3>3, <3>4 DEF RowOf
    <3>6. QED
      BY <3>5, FirstRows
  <2>3. AsIn(Disk("derive", FALSE, 1), {})' /\ batch' = BatchAt("sftp", 18)
    BY <1>1, <2>1 DEF AsIn
  <2>4. Watching'
    BY <2>1, <2>2, <2>3 DEF Watching
  <2>5. QED
    BY <2>4 DEF OnPlan
<1>3. CASE NotouchieQueue
  <2>1. /\ row = RowAt("derive", FALSE, 1) /\ scan' = "idle" /\ fs' = fs /\ batch' = batch
        /\ row' = row /\ todo' = QueueMoveIssueForDerivatives(row) /\ jobState' = "pending"
    BY <1>1, <1>3 DEF NotouchieQueue
  <2>2. row.location = "notouchie"
    <3>1. row = RowOf(FALSE, "notouchie", "backup", "AwaitingProcessing", FALSE)
      BY <2>1, FirstRows
    <3>2. QED
      BY <3>1 DEF RowOf
  <2>3. todo' = JobsOf("derive", FALSE)
    BY <2>1, <2>2 DEF JobsOf, Source, QueueMoveIssueForDerivatives
  <2>4. /\ AsIn(Disk("derive", FALSE, 1), {})' /\ batch' = BatchAt("derive", 1)
    BY <1>1, <2>1 DEF AsIn, BatchAt
  <2>5. "derive" \in PlansFor(FALSE) /\ FALSE \in BOOLEAN /\ 1 \in 1..17
    BY DEF PlansFor, Plans
  <2>6. Under("derive", FALSE, 1)'
    BY <2>1, <2>3, <2>4, <2>5, Started
  <2>7. QED
    BY <2>5, <2>6 DEF OnPlan
<1>4. CASE WatcherDies
  <2>1. /\ scan' = "dead" /\ fs' = fs /\ row' = row /\ batch' = batch
        /\ row \in {RowAt("sftp", FALSE, 18), RowAt("derive", FALSE, 1)}
        /\ todo' = <<>> /\ jobState' = "pending"
    BY <1>1, <1>4 DEF WatcherDies, jobVars
  <2>2. AsIn(Disk("derive", FALSE, 1), {})'
    BY <1>1, <2>1 DEF AsIn
  <2>3. Watching'
    BY <1>1, <2>1, <2>2 DEF Watching
  <2>4. QED
    BY <2>3 DEF OnPlan
<1>5. QED
  BY <1>2, <1>3, <1>4

(* Retries are counted.                                                    *)
LEMMA CountedJob ==
  ASSUME NEW s \in BOOLEAN, NEW plan \in PlansFor(s), NEW k \in 1..17, Under(plan, s, k),
         fs \in Disks, Counted, JobStep \/ HandleSuccess
  PROVE  Counted'
<1>1. todo # <<>> /\ scan = "idle" /\ k \in 1..Length(plan, s) /\ Head(todo) = JobsOf(plan, s)[k]
  BY FirstJob DEF Under
<1>2. ASSUME Head(todo).type \notin Unrepeatable PROVE ~Refuse
  <2>0. PICK j, L, G, r, r2, b, b2 :
          /\ j = JobsOf(plan, s)[k] /\ L = Disk(plan, s, k) /\ G = Disk(plan, s, k + 1)
          /\ r = RowAt(plan, s, k) /\ r2 = RowAt(plan, s, k + 1)
          /\ b = BatchAt(plan, k) /\ b2 = BatchAt(plan, k + 1)
    OBVIOUS
  <2>1. Sound(j, L, G, r, r2, b, b2) /\ On(j, L, G, r, r2, b, b2)
    BY <1>1, <2>0, AllSound DEF Under
  <2>2. ~Impossible(j) /\ ~MustNotExist(j)
    BY <1>1, <1>2, <2>0, <2>1, Doable
  <2>3. QED
    BY <1>1, <2>0, <2>2 DEF Refuse
<1>3. MaxRetries \in Nat /\ MaxFaults \in Nat
  BY MoveAssumption
<1>4. CASE HandleSuccess
  BY <1>1, <1>3, <1>4 DEF HandleSuccess, Counted
<1>5. CASE Refuse
  BY <1>1, <1>2, <1>3, <1>5 DEF Refuse, Retried, Counted
<1>6. CASE Fail
  BY <1>1, <1>3, <1>6 DEF Fail, Retried, Counted
<1>7. CASE Crash
  BY <1>1, <1>3, <1>7 DEF Crash, Counted
<1>8. CASE Requeue
  BY <1>1, <1>3, <1>8 DEF Requeue, Counted
<1>9. CASE Begin \/ PutFile \/ RemoveFile \/ Finish \/ ResetCanceledJob \/ QueueNextJob
  <2>1. /\ todo' = todo /\ retries' = retries /\ faults' = faults /\ scan' = scan
        /\ jobState' \in {"running", "done", "pending"}
    BY <1>9 DEF Begin, PutFile, RemoveFile, Finish, ResetCanceledJob, QueueNextJob
  <2>2. QED
    BY <1>1, <2>1 DEF Counted
<1>10. QED
  BY <1>4, <1>5, <1>6, <1>7, <1>8, <1>9 DEF JobStep

(* Steps that begin a pipeline, and the watcher's                          *)
LEMMA CountedQueue ==
  ASSUME Counted,
         \/ Queueing
         \/ todo = <<>> /\ jobState = "pending" /\ (NotouchieSave \/ NotouchieQueue \/ WatcherDies)
  PROVE  Counted'
<1>1. MaxRetries \in Nat /\ MaxFaults \in Nat
  BY MoveAssumption
<1>2. /\ retries' = 0 /\ jobState' = "pending"
      /\ faults' \in 0..MaxFaults
      /\ scan' \in {"idle", "renamed", "saved", "dead"}
  <2>1. CASE Queueing
    BY <2>1 DEF Queueing, QueueUpload, Approve, Remove, MakeBatch, ForceDerivatives, Queue,
           NotouchieRename, Counted
  <2>2. CASE NotouchieSave \/ NotouchieQueue
    BY <2>2 DEF Queueing, QueueUpload, Approve, Remove, MakeBatch, ForceDerivatives, Queue,
           NotouchieRename, NotouchieSave, NotouchieQueue, jobVars, Counted
  <2>3. CASE WatcherDies /\ ~Queueing
    BY <1>1, <2>3 DEF WatcherDies, jobVars, Counted
  <2>4. QED
    BY <2>1, <2>2, <2>3
<1>3. QED
  BY <1>1, <1>2 DEF Counted

(* IInv is inductive.                                                      *)
LEMMA Initially == Init => IInv
<1> SUFFICES ASSUME Init PROVE IInv
  OBVIOUS
<1>1. PICK s \in BOOLEAN : row = RowOf(s, "upload", "", "Upload", FALSE)
  BY DEF Init, RowOf
<1>2. row.scanned = s
  BY <1>1 DEF RowOf
<1>3. fs = [d \in Dirs |-> IF d # "upload" THEN NoDir
                           ELSE FilesOf(IF s THEN "page" ELSE "original") \cup {Cruft}]
  BY <1>2 DEF Init
<1>4. fs = Disk("start", s, 1)
  BY <1>3 DEF Disk, Held, Uploaded, PageFiles, Originals
<1>5. fs \in Disks
  BY <1>4, DiskTypes
<1>6. todo = <<>> /\ scan = "idle" /\ jobState = "pending" /\ batch = BatchOf("", "none")
  BY DEF Init, BatchOf
<1>7. Length("start", s) + 1 = 1 /\ BatchAt("start", 1) = BatchOf("", "none")
  BY DEF Length, BatchAt
<1>8. row = RowAt("start", s, 1) /\ AsIn(Disk("start", s, 1), {})
  BY <1>1, <1>4, EndRows DEF AsIn
<1>9. "start" \in PlansFor(s)
  BY DEF PlansFor, Plans
<1>10. Over("start", s)
  BY <1>6, <1>7, <1>8 DEF Over, Ended, Between
<1>11. OnPlan
  BY <1>9, <1>10 DEF OnPlan
<1>12. Counted
  <2>1. retries = 0 /\ faults = 0
    BY DEF Init
  <2>2. MaxRetries \in Nat /\ MaxFaults \in Nat
    BY MoveAssumption
  <2>3. retries \in 0..MaxRetries /\ faults \in 0..MaxFaults
    BY <2>1, <2>2
  <2>4. ~(todo # <<>>)
    BY <1>6
  <2>5. QED
    BY <1>6, <2>1, <2>3, <2>4, Zenon DEF Counted
<1>13. QED
  BY <1>5, <1>11, <1>12 DEF IInv

LEMMA Inductive == IInv /\ [Next]_vars => IInv'
<1> SUFFICES ASSUME IInv, [Next]_vars PROVE IInv'
  OBVIOUS
<1>1. fs \in Disks /\ OnPlan /\ Counted
  BY DEF IInv
<1> DEFINE Watched == NotouchieSave \/ NotouchieQueue \/ WatcherDies
<1>2. CASE UNCHANGED vars
  <2>1. /\ fs' = fs /\ row' = row /\ batch' = batch /\ todo' = todo
        /\ jobState' = jobState /\ retries' = retries /\ scan' = scan /\ faults' = faults
    BY <1>2 DEF vars
  <2>2. \A L, X : AsIn(L, X)' <=> AsIn(L, X)
    BY <2>1 DEF AsIn
  <2>3. ASSUME NEW j, NEW L, NEW G, Midway(j, L, G)
        PROVE  Midway(j, L, G)'
    <3>0. PICK src, dst : src = From(j) /\ dst = To(j)
      OBVIOUS
    <3>1. From(j)' = src /\ To(j)' = dst
      BY <2>1, <3>0 DEF From, To, Place
    <3>2. CASE j.type \in Adding
      BY <2>1, <2>2, <2>3, <3>0, <3>1, <3>2 DEF Midway, Adding
    <3>3. CASE j.type = "delete_directory"
      BY <2>1, <2>2, <2>3, <3>0, <3>1, <3>3 DEF Midway, Adding
    <3>4. CASE j.type = "clean_files"
      BY <2>1, <2>2, <2>3, <3>0, <3>1, <3>4 DEF Midway, Adding
    <3>5. CASE j.type = "move_derivatives"
      BY <2>1, <2>2, <2>3, <3>0, <3>1, <3>5 DEF Midway, Adding
    <3>6. CASE j.type = "rename_directory"
      BY <2>1, <2>2, <2>3, <3>6 DEF Midway, Adding
    <3>7. CASE j.type \notin Adding \cup {"delete_directory", "clean_files",
                                         "move_derivatives", "rename_directory"}
      BY <2>2, <2>3, <3>7 DEF Midway
    <3>8. QED
      BY <3>2, <3>3, <3>4, <3>5, <3>6, <3>7
  <2>4. OnPlan'
    <3>1. CASE Watching
      <4>1. Watching'
        BY <2>1, <2>2, <3>1 DEF Watching
      <4>2. QED
        BY <4>1 DEF OnPlan
    <3>2. ASSUME NEW s \in BOOLEAN, NEW plan \in PlansFor(s), Over(plan, s)
          PROVE  OnPlan'
      <4>1. Over(plan, s)'
        BY <2>1, <2>2, <3>2 DEF Over, Ended, Between
      <4>2. QED
        BY <4>1 DEF OnPlan
    <3>3. ASSUME NEW s \in BOOLEAN, NEW plan \in PlansFor(s), NEW k \in 1..17, Under(plan, s, k)
          PROVE  OnPlan'
      <4>1. Under(plan, s, k)'
        BY <2>1, <2>2, <2>3, <3>3 DEF Under, On
      <4>2. QED
        BY <4>1 DEF OnPlan
    <3>4. QED
      BY <1>1, <3>1, <3>2, <3>3 DEF OnPlan
  <2>5. Counted' = Counted
    BY <2>1 DEF Counted
  <2>6. QED
    BY <1>1, <2>1, <2>4, <2>5 DEF IInv
<1>3. CASE Next
  <2>1. JobStep \/ HandleSuccess \/ Queueing \/ Watched
    BY <1>3 DEF Next, Runner, Watcher, People, JobStep, Queueing
  <2>2. CASE Watching
    <3>1. todo = <<>> /\ scan # "idle" /\ jobState = "pending"
      BY <2>2 DEF Watching
    <3>2. Watched
      BY <2>1, <3>1 DEF JobStep, Begin, PutFile, RemoveFile, Finish, Refuse, Fail, Crash,
         ResetCanceledJob, Requeue, QueueNextJob, HandleSuccess, Queueing, QueueUpload, Approve,
         Remove, MakeBatch, ForceDerivatives, Queue, NotouchieRename
    <3>3. fs' = fs
      BY <3>2 DEF NotouchieSave, NotouchieQueue, WatcherDies
    <3>4. OnPlan' /\ Counted'
      BY <1>1, <2>2, <3>1, <3>2, WatchingStep, CountedQueue
    <3>5. QED
      BY <1>1, <3>3, <3>4 DEF IInv
  <2>3. ASSUME NEW s \in BOOLEAN, NEW plan \in PlansFor(s), Over(plan, s)
        PROVE  IInv'
    <3>1. todo = <<>> /\ scan = "idle" /\ jobState = "pending"
      BY <2>3 DEF Over, Ended
    <3>2. Queueing
      BY <2>1, <3>1 DEF JobStep, Begin, PutFile, RemoveFile, Finish, Refuse, Fail, Crash,
         ResetCanceledJob, Requeue, QueueNextJob, HandleSuccess, NotouchieSave, NotouchieQueue,
         WatcherDies
    <3>3. OnPlan' /\ Counted'
      BY <1>1, <2>3, <3>2, EndedStep, CountedQueue DEF Over
    <3>4. fs' \in Disks
      BY <1>1, <2>3, <3>2, EndedDisks DEF Over
    <3>5. QED
      BY <3>3, <3>4 DEF IInv
  <2>4. ASSUME NEW s \in BOOLEAN, NEW plan \in PlansFor(s), NEW k \in 1..17, Under(plan, s, k)
        PROVE  IInv'
    <3>1. todo # <<>> /\ scan = "idle"
      BY <2>4, FirstJob DEF Under
    <3>2. CASE Queueing
      <4>1. todo = <<RecordAction>>
        BY <3>1, <3>2 DEF Queueing, QueueUpload, Approve, Remove, MakeBatch, ForceDerivatives, Queue,
           NotouchieRename, Settled
      <4>2. Ended(plan, s)
        BY <2>4, <4>1, RecordLeft
      <4>3. QED
        BY <1>1, <3>2, <4>2, EndedStep, EndedDisks, CountedQueue DEF IInv
    <3>3. CASE JobStep
      BY <1>1, <2>4, <3>3, UnderJob, CountedJob DEF OnPlan, IInv
    <3>4. CASE HandleSuccess
      <4>1. fs' = fs /\ Counted'
        BY <1>1, <2>4, <3>4, CountedJob DEF HandleSuccess
      <4>2. IF k < Length(plan, s) THEN Under(plan, s, k + 1)' ELSE Over(plan, s)'
        BY <2>4, <3>4, UnderSuccess
      <4>3. k < Length(plan, s) => k + 1 \in 1..17
        BY Lengths DEF PlansFor
      <4>4. QED
        BY <1>1, <4>1, <4>2, <4>3 DEF OnPlan, IInv
    <3>5. ~Watched
      BY <3>1 DEF NotouchieSave, NotouchieQueue, WatcherDies
    <3>6. QED
      BY <2>1, <3>2, <3>3, <3>4, <3>5
  <2>5. QED
    BY <1>1, <2>2, <2>3, <2>4 DEF OnPlan
<1>4. QED
  BY <1>2, <1>3

LEMMA Invariance == Spec => []IInv
<1>1. Init => IInv
  BY Initially
<1>2. IInv /\ [Next]_vars => IInv'
  BY Inductive
<1>3. QED
  BY <1>1, <1>2, PTL DEF Spec

----------------------------------------------------------------------------
(* What follows                                                            *)

LEMMA RowTypes ==
  ASSUME NEW s \in BOOLEAN, NEW plan, NEW k
  PROVE  RowAt(plan, s, k) \in [scanned : {s}, location : Dirs \cup {""},
                                backup : {"", "backup"}, ws : Steps, ignored : BOOLEAN]
<1> DEFINE Rows == [scanned : {s}, location : Dirs \cup {""}, backup : {"", "backup"},
                    ws : Steps, ignored : BOOLEAN]
<1>1. ASSUME NEW l \in Dirs \cup {""}, NEW b \in {"", "backup"}, NEW w \in Steps,
             NEW i \in BOOLEAN
      PROVE  RowOf(s, l, b, w, i) \in Rows
  BY DEF RowOf
<1>2. Backup(s) \in {"", "backup"} /\ Source(s) \in Dirs
  BY DEF Backup, Source, Dirs
<1>3. /\ {"upload", "workflow", "pagereview", "errors-wip/content"} \subseteq Dirs
      /\ {"Upload", "AwaitingProcessing", "AwaitingPageReview", "ReadyForMetadataEntry",
          "ReadyForMETSXML", "ReadyForBatching", "UnfixableMetadataError"} \subseteq Steps
  BY DEF Dirs, Steps
<1> HIDE DEF Rows
<1>4. SftpRow(s, k) \in Rows
  BY <1>1, <1>3 DEF SftpRow
<1>5. DeriveRow(s, k) \in Rows
  BY <1>1, <1>2, <1>3 DEF DeriveRow
<1>6. FinalizeRow(s, k) \in Rows
  BY <1>1, <1>2, <1>3 DEF FinalizeRow
<1>7. RemoveRow(s, k) \in Rows
  BY <1>1, <1>2, <1>3 DEF RemoveRow
<1>8. ForceRow(s, k) \in Rows /\ ForceRow(s, 1) \in Rows
  BY <1>1, <1>3 DEF ForceRow
<1>9. RowOf(s, "upload", "", "Upload", FALSE) \in Rows
  BY <1>1, <1>3
<1>10. RowAt(plan, s, k) \in Rows
  BY <1>4, <1>5, <1>6, <1>7, <1>8, <1>9 DEF RowAt
<1>11. QED
  BY <1>10 DEF Rows

(* The row is one of those the pipelines go through.                       *)
LEMMA RowsOnPlan ==
  ASSUME OnPlan, Counted
  PROVE  \E s \in BOOLEAN, plan \in Plans, k \in 1..18 : row = RowAt(plan, s, k)
<1>1. CASE Watching
  <2>1. row = RowAt("sftp", FALSE, 18) \/ row = RowAt("derive", FALSE, 1)
    BY <1>1 DEF Watching, Counted
  <2>2. "sftp" \in Plans /\ "derive" \in Plans /\ 1 \in 1..18 /\ 18 \in 1..18
    BY DEF Plans
  <2>3. QED
    BY <2>1, <2>2
<1>2. ASSUME NEW s \in BOOLEAN, NEW plan \in PlansFor(s), Over(plan, s)
      PROVE  \E p \in Plans, k \in 1..18 : row = RowAt(p, s, k)
  <2>1. Length(plan, s) + 1 \in 1..18 /\ plan \in Plans
    BY Lengths DEF PlansFor
  <2>2. QED
    BY <1>2, <2>1 DEF Over, Ended, Between
<1>3. ASSUME NEW s \in BOOLEAN, NEW plan \in PlansFor(s), NEW k \in 1..17, Under(plan, s, k)
      PROVE  \E p \in Plans, i \in 1..18 : row = RowAt(p, s, i)
  <2>1. k \in 1..18 /\ k + 1 \in 1..18 /\ plan \in Plans
    BY DEF PlansFor
  <2>2. QED
    BY <1>3, <2>1 DEF Under, On
<1>4. QED
  BY <1>1, <1>2, <1>3 DEF OnPlan

(* Every variable has its type: the directories, the row and its steps are
   those the jobs know.                                                    *)
THEOREM TypeCorrect == Spec => []TypeOK
<1>1. IInv => TypeOK
  <2> SUFFICES ASSUME IInv PROVE TypeOK
    OBVIOUS
  <2>1. \A d \in Dirs : fs[d] = NoDir \/ fs[d] \subseteq Files
    BY DEF IInv, Disks
  <2>2. PICK s \in BOOLEAN, plan \in Plans, k \in 1..18 : row = RowAt(plan, s, k)
    BY RowsOnPlan DEF IInv
  <2>3. row \in [scanned : {s}, location : Dirs \cup {""}, backup : {"", "backup"},
                 ws : Steps, ignored : BOOLEAN]
    BY <2>2, RowTypes
  <2>4. QED
    BY <2>1, <2>3 DEF TypeOK, IInv, Counted
<1>2. QED
  BY <1>1, Invariance, PTL

(* With no more faults than retries a job gives up only if it is one of the
   four types that an earlier attempt can leave undoable: every other job of
   every pipeline, begun again wherever it was interrupted, finds its
   sources.                                                                *)
THEOREM OnlyDoomedFail ==
  ASSUME MaxFaults <= MaxRetries
  PROVE  Spec => []OnlyUnrepeatableFail
<1>1. IInv => OnlyUnrepeatableFail
  <2> SUFFICES ASSUME IInv, jobState = "failed" PROVE Head(todo).type \in Unrepeatable
    BY DEF OnlyUnrepeatableFail
  <2>1. PICK s \in BOOLEAN : \E plan \in PlansFor(s) : \E k \in 1..17 : Under(plan, s, k)
    BY DEF IInv, OnPlan, Watching, Over
  <2>2. todo # <<>>
    BY <2>1, FirstJob
  <2>3. QED
    BY <2>2 DEF IInv, Counted
<1>2. QED
  BY <1>1, Invariance, PTL

(* No directory others look into holds a part of an issue between jobs ... *)
LEMMA ShownDisks ==
  ASSUME NEW s \in BOOLEAN, NEW plan \in Plans, NEW k \in 1..18, NEW d \in Shown
  PROVE  Disk(plan, s, k)[d] = NoDir \/ PageFiles \subseteq Disk(plan, s, k)[d]
<1>1. d \in Dirs
  BY DEF Shown, Dirs
<1> USE DEF Held, If
<1>2. SftpDisk(k, d) = NoDir \/ PageFiles \subseteq SftpDisk(k, d)
  BY DEF SftpDisk, Shown
<1>3. DeriveDisk(s, k, d) = NoDir \/ PageFiles \subseteq DeriveDisk(s, k, d)
  BY DEF DeriveDisk, Shown, Source
<1>4. FinalizeDisk(s, k, d) = NoDir \/ PageFiles \subseteq FinalizeDisk(s, k, d)
  BY DEF FinalizeDisk, Shown
<1>5. RemoveDisk(s, k, d) = NoDir \/ PageFiles \subseteq RemoveDisk(s, k, d)
  BY DEF RemoveDisk, Shown
<1>6. \A n : BatchDisk(s, n, d) = NoDir \/ PageFiles \subseteq BatchDisk(s, n, d)
  BY DEF BatchDisk, Batched, Readied, Shown
<1>7. Held(Uploaded(s), d = "upload") = NoDir
  BY DEF Shown
<1>8. QED
  BY <1>1, <1>2, <1>3, <1>4, <1>5, <1>6, <1>7 DEF Disk

(* ... nor while a job is executed.                                        *)
LEMMA ShownUnder ==
  ASSUME NEW j, NEW L, NEW G, NEW r, NEW r2, NEW b, NEW b2,
         Sound(j, L, G, r, r2, b, b2), On(j, L, G, r, r2, b, b2), fs \in Disks,
         NEW d \in Shown
  PROVE  fs[d] = L[d] \/ fs[d] = G[d]
<1>0. PICK src, dst : src = From(j) /\ dst = To(j)
  OBVIOUS
<1>1. d \in Dirs
  BY DEF Shown, Dirs
<1>2. Midway(j, L, G)
  BY DEF On
<1>3. ASSUME j.type \notin Saving PROVE src = At(j.from, r, b) /\ dst = At(j.to, r, b)
  BY <1>0, <1>3, Located DEF On, Sound
<1>4. CASE j.type \in Adding
  <2>1. dst \notin Shown
    BY <1>0, <1>4, AddingJob DEF Adds, Changes
  <2>2. AsIn(L, {dst})
    BY <1>0, <1>2, <1>4 DEF Midway, Adding
  <2>3. QED
    BY <1>1, <2>1, <2>2 DEF AsIn
<1>5. CASE j.type \in {"delete_directory", "clean_files"}
  <2>1. src \notin Shown
    BY <1>3, <1>5 DEF Sound, Saving, Changes
  <2>2. AsIn(L, {src})
    BY <1>0, <1>2, <1>5 DEF Midway, Adding
  <2>3. QED
    BY <1>1, <2>1, <2>2 DEF AsIn
<1>6. CASE j.type = "move_derivatives"
  <2>1. src \notin Shown /\ dst \notin Shown
    BY <1>3, <1>6 DEF Sound, Saving
  <2>2. AsIn(L, {src, dst})
    BY <1>0, <1>2, <1>6 DEF Midway, Adding
  <2>3. QED
    BY <1>1, <2>1, <2>2 DEF AsIn
<1>7. CASE j.type \notin Adding \cup {"delete_directory", "clean_files", "move_derivatives"}
  <2>1. AsIn(L, {}) \/ AsIn(G, {})
    BY <1>2, <1>7 DEF Midway
  <2>2. QED
    BY <1>1, <2>1 DEF AsIn
<1>8. QED
  BY <1>4, <1>5, <1>6, <1>7

(* The page review, error and batch directories never show an issue half
   moved, whatever has failed or died in the middle of whichever job.      *)
THEOREM NeverHalfShown == Spec => []ShownComplete
<1>1. IInv => ShownComplete
  <2> SUFFICES ASSUME IInv, NEW d \in Shown, fs[d] # NoDir PROVE PageFiles \subseteq fs[d]
    BY DEF ShownComplete, Shown, PageFiles
  <2>1. fs \in Disks /\ OnPlan /\ d \in Dirs
    BY DEF IInv, Shown, Dirs
  <2>2. ASSUME NEW s \in BOOLEAN, NEW plan \in Plans, NEW k \in 1..18,
               fs[d] = Disk(plan, s, k)[d]
        PROVE  PageFiles \subseteq fs[d]
    BY <2>2, ShownDisks
  <2>3. CASE Watching
    <3>1. fs[d] = Disk("derive", FALSE, 1)[d]
      BY <2>1, <2>3 DEF Watching, AsIn
    <3>2. "derive" \in Plans /\ FALSE \in BOOLEAN /\ 1 \in 1..18
      BY DEF Plans
    <3>3. QED
      BY <2>2, <3>1, <3>2
  <2>4. ASSUME NEW s \in BOOLEAN, NEW plan \in PlansFor(s), Over(plan, s)
        PROVE  PageFiles \subseteq fs[d]
    <3>1. fs[d] = Disk(plan, s, Length(plan, s) + 1)[d]
      BY <2>1, <2>4 DEF Over, Ended, Between, AsIn
    <3>2. Length(plan, s) + 1 \in 1..18 /\ plan \in Plans
      BY Lengths DEF PlansFor
    <3>3. QED
      BY <2>2, <3>1, <3>2
  <2>5. ASSUME NEW s \in BOOLEAN, NEW plan \in PlansFor(s), NEW k \in 1..17, Under(plan, s, k)
        PROVE  PageFiles \subseteq fs[d]
    <3>1. k \in 1..Length(plan, s)
      BY <2>5, FirstJob
    <3>2. fs[d] = Disk(plan, s, k)[d] \/ fs[d] = Disk(plan, s, k + 1)[d]
      BY <2>1, <2>5, <3>1, AllSound, ShownUnder DEF Under
    <3>3. k \in 1..18 /\ k + 1 \in 1..18 /\ plan \in Plans
      BY DEF PlansFor
    <3>4. QED
      BY <2>2, <3>2, <3>3
  <2>6. QED
    BY <2>1, <2>3, <2>4, <2>5 DEF OnPlan
<1>2. QED
  BY <1>1, Invariance, PTL

(* Where the issue is between two pipelines, all its files are.            *)
LEMMA EndFiles ==
  ASSUME NEW s \in BOOLEAN
  PROVE  /\ Disk("sftp", FALSE, 18)["pagereview"] = PageFiles
         /\ Disk("derive", s, 11)["workflow"] = Readied
         /\ \A plan \in {"batch", "force"}, k \in {1, 6} :
              /\ Disk(plan, s, k)["workflow"] = Batched(s)
              /\ Disk(plan, s, k)["backup"] = NoDir
         /\ Disk("force", s, 1)["batch"] = Batched(s)
         /\ \A d \in Dirs \ {"errors/content", "errors/derivatives"} :
              Disk("remove", s, Length("remove", s) + 1)[d] = NoDir
<1> USE DEF Held, If, Disk, Dirs
<1>1. Disk("sftp", FALSE, 18)["pagereview"] = PageFiles
  BY DEF SftpDisk
<1>2. Disk("derive", s, 11)["workflow"] = Readied
  BY DEF DeriveDisk, Source
<1>3. ASSUME NEW plan \in {"batch", "force"}, NEW k \in {1, 6}
      PROVE  Disk(plan, s, k)["workflow"] = Batched(s) /\ Disk(plan, s, k)["backup"] = NoDir
  BY DEF BatchDisk
<1>4. Disk("force", s, 1)["batch"] = Batched(s)
  BY DEF BatchDisk
<1>5. ASSUME NEW d \in Dirs \ {"errors/content", "errors/derivatives"}
      PROVE  Disk("remove", s, Length("remove", s) + 1)[d] = NoDir
  BY DEF RemoveDisk, Length, Packing
<1>6. QED
  BY <1>1, <1>2, <1>3, <1>4, <1>5

(* When nothing is under way the issue is where its row says, with the files
   its workflow step asks for, at the end of every pipeline, however its jobs
   went.                                                                   *)
THEOREM StepsMeanFiles == Spec => []StepMeansFiles
<1> DEFINE have == Content(row.location)
<1>1. ASSUME NEW s \in BOOLEAN, NEW plan \in PlansFor(s), Ended(plan, s)
      PROVE  StepMeansFiles
  <2>1. /\ \A d \in Dirs : Content(d) = IF fs[d] = NoDir THEN {} ELSE fs[d]
        /\ \A L : AsIn(L, {}) => \A d \in Dirs : fs[d] = L[d]
    BY DEF Content, AsIn
  <2>2. {"workflow", "pagereview", "backup", "batch"} \subseteq Dirs
    BY DEF Dirs
  <2>3. PageFiles # NoDir /\ Readied # NoDir /\ Batched(s) # NoDir
    <3>1. PageFiles \subseteq Files /\ Readied \subseteq Files /\ Batched(s) \subseteq Files
      BY Kinds DEF Readied, Batched, If
    <3>2. QED
      BY <3>1, Kinds
  <2>4. CASE plan = "start"
    <3>1. row = RowOf(s, "upload", "", "Upload", FALSE)
      BY <1>1, <2>4, AtEnd
    <3>2. row.ws = "Upload"
      BY <3>1 DEF RowOf
    <3>3. QED
      BY <3>2 DEF StepMeansFiles
  <2>5. CASE plan = "sftp"
    <3>1. /\ row = RowOf(FALSE, "pagereview", "backup", "AwaitingPageReview", FALSE)
          /\ AsIn(Disk("sftp", FALSE, 18), {})
      BY <1>1, <2>5, AtEnd
    <3>2. row.ws = "AwaitingPageReview" /\ row.location = "pagereview"
      BY <3>1 DEF RowOf
    <3>3. have = PageFiles
      BY <2>1, <2>2, <2>3, <3>1, <3>2, EndFiles
    <3>4. QED
      BY <3>2, <3>3 DEF StepMeansFiles, PageFiles
  <2>6. CASE plan = "derive"
    <3>1. /\ row = RowOf(s, "workflow", Backup(s), "ReadyForMetadataEntry", FALSE)
          /\ AsIn(Disk("derive", s, 11), {})
      BY <1>1, <2>6, AtEnd
    <3>2. row.ws = "ReadyForMetadataEntry" /\ row.location = "workflow"
      BY <3>1 DEF RowOf
    <3>3. have = Readied
      <4>1. fs["workflow"] = Readied
        BY <2>1, <2>2, <3>1, EndFiles
      <4>2. QED
        BY <2>1, <2>2, <2>3, <3>2, <4>1
    <3>4. QED
      BY <3>2, <3>3 DEF StepMeansFiles, Readied, PageFiles, Derivatives
  <2>7. CASE plan \in {"finalize", "batch", "force"}
    <3>1. PICK p \in {"batch", "force"}, k \in {1, 6} :
            /\ row = RowOf(s, "workflow", "", "ReadyForBatching", FALSE)
            /\ AsIn(Disk(p, s, k), {})
      BY <1>1, <2>7, AtEnd
    <3>2. /\ row.ws = "ReadyForBatching" /\ row.location = "workflow" /\ row.backup = ""
          /\ row.scanned = s
      BY <3>1 DEF RowOf
    <3>3. have = Batched(s) /\ fs["backup"] = NoDir
      <4>1. Disk(p, s, k)["workflow"] = Batched(s) /\ Disk(p, s, k)["backup"] = NoDir
        BY EndFiles
      <4>2. fs["workflow"] = Batched(s) /\ fs["backup"] = NoDir
        BY <2>1, <2>2, <3>1, <4>1
      <4>3. QED
        BY <2>1, <2>2, <2>3, <3>2, <4>2
    <3>4. batch.status = "qc_ready" => Content(batch.location) = Batched(s)
      <4>1. CASE plan = "batch"
        <5>1. batch = BatchOf("batch", "qc_ready") /\ AsIn(Disk("force", s, 1), {})
          BY <1>1, <4>1, AtEnd
        <5>2. batch.location = "batch"
          BY <5>1 DEF BatchOf
        <5>3. Disk("force", s, 1)["batch"] = Batched(s)
          BY EndFiles
        <5>4. fs["batch"] = Batched(s)
          BY <2>1, <2>2, <5>1, <5>3
        <5>5. Content("batch") = Batched(s)
          BY <2>1, <2>2, <2>3, <5>4
        <5>6. QED
          BY <5>2, <5>5
      <4>2. CASE plan = "finalize"
        <5>1. batch = BatchOf("", "none")
          BY <1>1, <4>2, AtEnd
        <5>2. QED
          BY <5>1 DEF BatchOf
      <4>3. CASE plan = "force"
        <5>1. batch = BatchOf("batch", "deleted")
          BY <1>1, <4>3, AtEnd
        <5>2. QED
          BY <5>1 DEF BatchOf
      <4>4. QED
        BY <2>7, <4>1, <4>2, <4>3
    <3>5. Batched(s) = FilesOf("page") \cup FilesOf("derivative") \cup {METS}
                         \cup (IF row.scanned THEN {} ELSE FilesOf("tarred"))
      BY <3>2 DEF Batched, Readied, If, PageFiles, Derivatives, Tars
    <3>6. QED
      BY <3>2, <3>3, <3>4, <3>5 DEF StepMeansFiles
  <2>8. CASE plan = "remove"
    <3>1. /\ row = RowOf(s, "", "", "UnfixableMetadataError", TRUE)
          /\ AsIn(Disk("remove", s, Length("remove", s) + 1), {})
      BY <1>1, <2>8, AtEnd
    <3>2. row.ws = "UnfixableMetadataError" /\ row.location = "" /\ row.ignored
      BY <3>1 DEF RowOf
    <3>3. \A d \in Dirs : fs[d] # NoDir => d \in {"errors/content", "errors/derivatives"}
      BY <2>1, <3>1, EndFiles
    <3>4. QED
      BY <3>2, <3>3 DEF StepMeansFiles
  <2>9. plan \in Plans
    BY DEF PlansFor
  <2>10. QED
    BY <2>4, <2>5, <2>6, <2>7, <2>8, <2>9 DEF Plans
<1>2. IInv => StepMeansFiles
  <2>1. CASE ~(Settled /\ scan = "idle")
    BY <2>1 DEF StepMeansFiles
  <2>2. ASSUME IInv, Settled, scan = "idle" PROVE StepMeansFiles
    <3>1. ~Watching
      BY <2>2 DEF Watching
    <3>2. ASSUME NEW s \in BOOLEAN, NEW plan \in PlansFor(s), Over(plan, s)
          PROVE  StepMeansFiles
      BY <1>1, <3>2 DEF Over
    <3>3. ASSUME NEW s \in BOOLEAN, NEW plan \in PlansFor(s), NEW k \in 1..17, Under(plan, s, k)
          PROVE  StepMeansFiles
      <4>1. todo = <<RecordAction>>
        BY <2>2, <3>3, FirstJob DEF Settled
      <4>2. Ended(plan, s)
        BY <3>3, <4>1, RecordLeft
      <4>3. QED
        BY <1>1, <4>2
    <3>4. QED
      BY <2>2, <3>1, <3>2, <3>3 DEF IInv, OnPlan
  <2>3. QED
    BY <2>1, <2>2
<1>3. QED
  BY <1>2, Invariance, PTL

(* Files that some directory holds before and after the job                *)
Holds(j, L, G, F) ==
  \/ \E d \in Dirs : F \subseteq L[d] /\ F \subseteq G[d]
  \/ /\ j.type = "rename_directory"
     /\ (\E d \in Dirs : F \subseteq L[d]) /\ (\E d \in Dirs : F \subseteq G[d])

LEMMA Placed ==
  ASSUME NEW F \in SUBSET Files, NEW f \in F, NEW d \in Dirs, F \subseteq fs[d]
  PROVE  Somewhere(f)
<1>1. fs[d] # NoDir
  <2>1. F # NoDir
    BY Kinds
  <2>2. QED
    BY <2>1 DEF NoDir
<1>2. f \in Content(d)
  BY <1>1 DEF Content
<1>3. QED
  BY <1>2 DEF Somewhere

(* They are somewhere all the while.                                       *)
LEMMA Kept ==
  ASSUME NEW j, NEW L, NEW G, NEW r, NEW r2, NEW b, NEW b2,
         Sound(j, L, G, r, r2, b, b2), On(j, L, G, r, r2, b, b2), fs \in Disks,
         NEW F \in SUBSET Files, F # {}, Holds(j, L, G, F), NEW f \in F
  PROVE  Somewhere(f)
<1>0. PICK src, dst : src = From(j) /\ dst = To(j)
  OBVIOUS
<1>1. Midway(j, L, G) /\ L \in Disks /\ G \in Disks
  BY DEF On, Sound
<1>2. SUFFICES \E d \in Dirs : F \subseteq fs[d]
  BY <1>2, Placed
<1>3. CASE j.type = "rename_directory"
  <2>1. AsIn(L, {}) \/ AsIn(G, {})
    BY <1>1, <1>3 DEF Midway, Adding
  <2>2. QED
    BY <2>1 DEF AsIn, Holds
<1>4. ASSUME NEW d \in Dirs, F \subseteq L[d], F \subseteq G[d], j.type # "rename_directory"
      PROVE  F \subseteq fs[d]
  <2>1. L[d] # NoDir /\ G[d] # NoDir
    <3>1. F # NoDir
      BY Kinds
    <3>2. QED
      BY <1>4, <3>1 DEF NoDir
  <2>2. CASE j.type \in Adding
    <3>1. /\ AsIn(L, {dst})
          /\ fs[dst] = L[dst] \/ Have(L, dst) \subseteq fs[dst]
      BY <1>0, <1>1, <2>2 DEF Midway, Adding
    <3>2. QED
      BY <1>4, <2>1, <3>1 DEF AsIn, Have
  <2>3. CASE j.type = "delete_directory"
    <3>1. AsIn(L, {src})
      BY <1>0, <1>1, <2>3 DEF Midway, Adding
    <3>2. src = At(j.from, r, b)
      BY <1>0, <2>3, Located DEF On, Sound, Saving
    <3>3. G[src] = NoDir
      BY <2>3, <3>2 DEF Sound, Changes
    <3>4. QED
      BY <1>4, <2>1, <3>1, <3>3 DEF AsIn
  <2>4. CASE j.type = "clean_files"
    <3>1. AsIn(L, {src}) /\ G[src] \subseteq fs[src]
      BY <1>0, <1>1, <2>4 DEF Midway, Adding
    <3>2. QED
      BY <1>4, <3>1 DEF AsIn
  <2>5. CASE j.type = "move_derivatives"
    <3>1. dst = At(j.to, r, b) /\ src = At(j.from, r, b)
      BY <1>0, <2>5, Located DEF On, Sound, Saving
    <3>2. L[dst] = NoDir /\ L[src] = Readied /\ G[src] = PageFiles
      BY <2>5, <3>1 DEF Sound
    <3>3. AsIn(L, {src, dst}) /\ (fs[src] = L[src] \/ G[src] \subseteq fs[src])
      BY <1>0, <1>1, <2>5 DEF Midway, Adding
    <3>4. QED
      BY <1>4, <2>1, <3>2, <3>3 DEF AsIn
  <2>6. CASE j.type \notin Adding \cup {"delete_directory", "clean_files", "move_derivatives"}
    <3>1. AsIn(L, {})
      BY <1>1, <1>4, <2>6 DEF Midway
    <3>2. QED
      BY <1>4, <3>1 DEF AsIn
  <2>7. QED
    BY <2>2, <2>3, <2>4, <2>5, <2>6
<1>5. CASE j.type # "rename_directory"
  BY <1>4, <1>5 DEF Holds
<1>6. QED
  BY <1>3, <1>5

(* The originals of an upload that was not scanned, or the tars made of them *)
LEMMA OriginalsHeld ==
  ASSUME NEW s, s = FALSE, NEW plan \in Plans, NEW k \in 1..Length(plan, s)
  PROVE  \E F \in {Originals, Tars} :
           Holds(JobsOf(plan, s)[k], Disk(plan, s, k), Disk(plan, s, k + 1), F)
<1> DEFINE L == Disk(plan, s, k)
           G == Disk(plan, s, k + 1)
           Both(F, d) == F \subseteq L[d] /\ F \subseteq G[d]
<1>1. k \in 1..17 /\ k + 1 \in 2..18
  <2>1. s \in BOOLEAN
    OBVIOUS
  <2>2. QED
    BY <2>1, Lengths
<1>2. CASE plan = "start"
  BY <1>2 DEF Length
<1>3. CASE plan = "sftp"
  <2>1. CASE k \in 1..2
    <3>1. Both(Originals, "upload")
      BY <1>3, <2>1 DEF SftpDisk, Uploaded, Held, If, Disk, Dirs
    <3>2. QED
      BY <3>1 DEF Holds, Dirs
  <2>2. CASE k = 3
    <3>1. Both(Originals, "workflow-wip")
      BY <1>3, <2>2 DEF SftpDisk, Uploaded, Held, If, Disk, Dirs
    <3>2. QED
      BY <3>1 DEF Holds, Dirs
  <2>3. CASE k = 4
    <3>1. Originals \subseteq L["workflow-wip"] /\ Originals \subseteq G["workflow"]
      BY <1>3, <2>3 DEF SftpDisk, Uploaded, Held, If, Disk, Dirs
    <3>2. JobsOf("sftp", s)[4].type = "rename_directory"
      <4>1. JobsOf("sftp", s)[4] = RenameDir("workflow-wip", "workflow")
        BY SftpJobs
      <4>2. QED
        BY <4>1 DEF RenameDir, Job
    <3>3. QED
      BY <1>3, <2>3, <3>1, <3>2 DEF Holds, Dirs
  <2>4. CASE k \in 5..8
    <3>1. Both(Originals, "workflow")
      BY <1>3, <2>4 DEF SftpDisk, Uploaded, Held, If, Disk, Dirs
    <3>2. QED
      BY <3>1 DEF Holds, Dirs
  <2>5. CASE k \in 9..17
    <3>1. Both(Originals, "backup")
      BY <1>3, <2>5 DEF SftpDisk, Held, If, Disk, Dirs
    <3>2. QED
      BY <3>1 DEF Holds, Dirs
  <2>6. QED
    BY <1>1, <2>1, <2>2, <2>3, <2>4, <2>5
<1>4. CASE plan = "derive"
  <2>1. Both(Originals, "backup")
    BY <1>1, <1>4 DEF DeriveDisk, Source, Held, If, Disk, Dirs
  <2>2. QED
    BY <2>1 DEF Holds, Dirs
<1>5. CASE plan = "finalize"
  <2>1. CASE k \in 1..2
    <3>1. Both(Originals, "backup")
      BY <1>5, <2>1 DEF FinalizeDisk, Held, If, Disk, Dirs
    <3>2. QED
      BY <3>1 DEF Holds, Dirs
  <2>2. CASE k \in 3..17
    <3>1. Both(Tars, "workflow")
      BY <1>5, <2>2 DEF FinalizeDisk, Held, If, Disk, Dirs
    <3>2. QED
      BY <3>1 DEF Holds, Dirs
  <2>3. QED
    BY <1>1, <2>1, <2>2
<1>6. CASE plan = "remove"
  <2>1. CASE k \in 1..6
    <3>1. Both(Originals, "backup")
      BY <1>6, <2>1 DEF RemoveDisk, Held, If, Disk, Dirs, Packing
    <3>2. QED
      BY <3>1 DEF Holds, Dirs
  <2>2. CASE k \in 7..8
    <3>1. Both(Tars, "errors-wip/content")
      BY <1>6, <2>2 DEF RemoveDisk, Held, If, Disk, Dirs, Packing
    <3>2. QED
      BY <3>1 DEF Holds, Dirs
  <2>3. CASE k = 9
    <3>1. Tars \subseteq L["errors-wip/content"] /\ Tars \subseteq G["errors/content"]
      BY <1>6, <2>3 DEF RemoveDisk, Held, If, Disk, Dirs, Packing
    <3>2. JobsOf("remove", s)[9].type = "rename_directory"
      <4>1. JobsOf("remove", s)[9] = RenameDir("errors-wip", "errors")
        BY RemoveJobs
      <4>2. QED
        BY <4>1 DEF RenameDir, Job
    <3>3. QED
      BY <1>6, <2>3, <3>1, <3>2 DEF Holds, Dirs
  <2>4. CASE k \in 10..17
    <3>1. Both(Tars, "errors/content")
      BY <1>6, <2>4 DEF RemoveDisk, Held, If, Disk, Dirs, Packing
    <3>2. QED
      BY <3>1 DEF Holds, Dirs
  <2>5. QED
    BY <1>1, <2>1, <2>2, <2>3, <2>4
<1>7. CASE plan \in {"batch", "force"}
  <2>1. Both(Tars, "workflow")
    BY <1>7 DEF BatchDisk, Batched, Held, If, Disk, Dirs
  <2>2. QED
    BY <2>1 DEF Holds, Dirs
<1>8. QED
  BY <1>2, <1>3, <1>4, <1>5, <1>6, <1>7 DEF Plans

(* The pages, from the time they are made                                  *)
LEMMA PagesHeld ==
  ASSUME NEW s \in BOOLEAN, NEW plan \in Plans, NEW k \in 1..Length(plan, s),
         plan = "sftp" => k >= 10
  PROVE  Holds(JobsOf(plan, s)[k], Disk(plan, s, k), Disk(plan, s, k + 1), PageFiles)
<1> DEFINE L == Disk(plan, s, k)
           G == Disk(plan, s, k + 1)
           Both(d) == PageFiles \subseteq L[d] /\ PageFiles \subseteq G[d]
<1>1. k \in 1..17 /\ k + 1 \in 2..18
  BY Lengths
<1>2. CASE plan = "start"
  BY <1>2 DEF Length
<1>3. CASE plan = "sftp"
  <2>1. CASE k = 10
    <3>1. Both("workflow-wip")
      BY <1>3, <2>1 DEF SftpDisk, Held, If, Disk, Dirs
    <3>2. QED
      BY <3>1 DEF Holds, Dirs
  <2>2. CASE k = 11
    <3>1. PageFiles \subseteq L["workflow-wip"] /\ PageFiles \subseteq G["workflow"]
      BY <1>3, <2>2 DEF SftpDisk, Held, If, Disk, Dirs
    <3>2. JobsOf("sftp", s)[11].type = "rename_directory"
      <4>1. JobsOf("sftp", s)[11] = RenameDir("workflow-wip", "workflow")
        BY SftpJobs
      <4>2. QED
        BY <4>1 DEF RenameDir, Job
    <3>3. QED
      BY <1>3, <2>2, <3>1, <3>2 DEF Holds, Dirs
  <2>3. CASE k = 12
    <3>1. Both("workflow")
      BY <1>3, <2>3 DEF SftpDisk, Held, If, Disk, Dirs
    <3>2. QED
      BY <3>1 DEF Holds, Dirs
  <2>4. CASE k = 13
    <3>1. Both("pagereview-wip")
      BY <1>3, <2>4 DEF SftpDisk, Held, If, Disk, Dirs
    <3>2. QED
      BY <3>1 DEF Holds, Dirs
  <2>5. CASE k = 14
    <3>1. PageFiles \subseteq L["pagereview-wip"] /\ PageFiles \subseteq G["pagereview"]
      BY <1>3, <2>5 DEF SftpDisk, Held, If, Disk, Dirs
    <3>2. JobsOf("sftp", s)[14].type = "rename_directory"
      <4>1. JobsOf("sftp", s)[14] = RenameDir("pagereview-wip", "pagereview")
        BY SftpJobs
      <4>2. QED
        BY <4>1 DEF RenameDir, Job
    <3>3. QED
      BY <1>3, <2>5, <3>1, <3>2 DEF Holds, Dirs
  <2>6. CASE k \in 15..17
    <3>1. Both("pagereview")
      BY <1>3, <2>6 DEF SftpDisk, Held, If, Disk, Dirs
    <3>2. QED
      BY <3>1 DEF Holds, Dirs
  <2>7. QED
    BY <1>1, <1>3, <2>1, <2>2, <2>3, <2>4, <2>5, <2>6
<1>4. CASE plan = "derive"
  <2>1. Source(s) \in Dirs /\ Source(s) \notin {"workflow", "workflow-wip"}
    BY DEF Source, Dirs
  <2>2. CASE k \in 1..2
    <3>1. Both(Source(s))
      BY <1>4, <2>1, <2>2 DEF DeriveDisk, Reviewed, Held, If, Disk, Dirs
    <3>2. QED
      BY <2>1, <3>1 DEF Holds, Dirs
  <2>3. CASE k = 3
    <3>1. Both("workflow-wip")
      BY <1>4, <2>1, <2>3 DEF DeriveDisk, Reviewed, Held, If, Disk, Dirs
    <3>2. QED
      BY <3>1 DEF Holds, Dirs
  <2>4. CASE k = 4
    <3>1. PageFiles \subseteq L["workflow-wip"] /\ PageFiles \subseteq G["workflow"]
      BY <1>4, <2>1, <2>4 DEF DeriveDisk, Reviewed, Held, If, Disk, Dirs
    <3>2. JobsOf("derive", s)[4].type = "rename_directory"
      <4>1. JobsOf("derive", s)[4] = RenameDir("workflow-wip", "workflow")
        BY DeriveJobs
      <4>2. QED
        BY <4>1 DEF RenameDir, Job
    <3>3. QED
      BY <1>4, <2>4, <3>1, <3>2 DEF Holds, Dirs
  <2>5. CASE k \in 5..17
    <3>1. Both("workflow")
      BY <1>4, <2>1, <2>5 DEF DeriveDisk, Reviewed, Readied, Held, If, Disk, Dirs
    <3>2. QED
      BY <3>1 DEF Holds, Dirs
  <2>6. QED
    BY <1>1, <2>2, <2>3, <2>4, <2>5
<1>5. CASE plan = "finalize"
  <2>1. Both("workflow")
    BY <1>5 DEF FinalizeDisk, Readied, Held, If, Disk, Dirs
  <2>2. QED
    BY <2>1 DEF Holds, Dirs
<1>6. CASE plan = "remove"
  <2>1. CASE k = 1
    <3>1. Both("workflow")
      BY <1>6, <2>1 DEF RemoveDisk, Readied, Held, If, Disk, Dirs, Packing
    <3>2. QED
      BY <3>1 DEF Holds, Dirs
  <2>2. CASE k \in 2..17 /\ k < 6 + Packing(s)
    <3>1. Both("errors-wip/content")
      BY <1>6, <2>2 DEF RemoveDisk, Packing, Held, If, Disk, Dirs
    <3>2. QED
      BY <3>1 DEF Holds, Dirs
  <2>3. CASE k = 6 + Packing(s)
    <3>1. PageFiles \subseteq L["errors-wip/content"] /\ PageFiles \subseteq G["errors/content"]
      BY <1>6, <2>3 DEF RemoveDisk, Packing, Held, If, Disk, Dirs
    <3>2. JobsOf("remove", s)[6 + Packing(s)].type = "rename_directory"
      <4>1. JobsOf("remove", s)[6 + Packing(s)] = RenameDir("errors-wip", "errors")
        <5>1. CASE s = TRUE
          <6>1. 6 + Packing(s) = 6
            BY <5>1 DEF Packing
          <6>2. QED
            BY <5>1, <6>1, RemoveJobsOfScans
        <5>2. CASE s = FALSE
          <6>1. 6 + Packing(s) = 9
            BY <5>2 DEF Packing
          <6>2. QED
            BY <5>2, <6>1, RemoveJobs
        <5>3. QED
          BY <5>1, <5>2
      <4>2. QED
        BY <4>1 DEF RenameDir, Job
    <3>3. QED
      BY <1>6, <2>3, <3>1, <3>2 DEF Holds, Dirs
  <2>4. CASE k \in 2..17 /\ k > 6 + Packing(s)
    <3>1. Both("errors/content")
      BY <1>6, <2>4 DEF RemoveDisk, Packing, Held, If, Disk, Dirs
    <3>2. QED
      BY <3>1 DEF Holds, Dirs
  <2>5. Packing(s) \in 0..3
    BY DEF Packing
  <2>6. QED
    BY <1>1, <2>1, <2>2, <2>3, <2>4, <2>5
<1>7. CASE plan \in {"batch", "force"}
  <2>1. Both("workflow")
    BY <1>7 DEF BatchDisk, Batched, Readied, Held, If, Disk, Dirs
  <2>2. QED
    BY <2>1 DEF Holds, Dirs
<1>8. QED
  BY <1>2, <1>3, <1>4, <1>5, <1>6, <1>7 DEF Plans

(* What the rows say while an upload has no pages yet                      *)
LEMMA RowsBeforeSplit ==
  ASSUME NEW s, s = FALSE, NEW k \in 1..10
  PROVE  LET r == RowAt("sftp", s, k)
         IN  ~r.scanned /\ r.backup = "" /\ r.ws \in {"Upload", "AwaitingProcessing"}
<1>1. RowAt("sftp", s, k) = SftpRow(s, k)
  BY DEF RowAt
<1>2. SftpRow(s, k).backup = ""
  BY DEF SftpRow, RowOf
<1>3. SftpRow(s, k).ws \in {"Upload", "AwaitingProcessing"}
  BY DEF SftpRow, RowOf
<1>4. SftpRow(s, k).scanned = s
  BY DEF SftpRow, RowOf
<1>5. QED
  BY <1>1, <1>2, <1>3, <1>4

(* An issue that was scanned is one in every row.                          *)
LEMMA ScannedOnPlan ==
  ASSUME NEW s \in BOOLEAN, NEW plan \in PlansFor(s),
         Over(plan, s) \/ \E k \in 1..17 : Under(plan, s, k)
  PROVE  row.scanned = s
<1>1. PICK k : row = RowAt(plan, s, k)
  BY DEF Over, Ended, Between, Under, On
<1>2. row \in [scanned : {s}, location : Dirs \cup {""}, backup : {"", "backup"},
               ws : Steps, ignored : BOOLEAN]
  BY <1>1, RowTypes
<1>3. row.scanned \in {s}
  BY <1>2
<1>4. QED
  BY <1>3

(* Whatever fails, dies or is begun again, and at whatever file: of each page
   the original upload or a tar is somewhere, and from the time the originals
   leave the workflow area so is the page itself.                          *)
THEOREM NothingLost == Spec => []ContentKept
<1>1. ASSUME IInv, NEW p \in Pages
      PROVE  row.scanned \/ Somewhere(<<"original", p>>) \/ Somewhere(<<"tarred", p>>)
  <2>1. <<"original", p>> \in Originals /\ <<"tarred", p>> \in Tars
    BY DEF Originals, Tars, FilesOf
  <2>2. fs \in Disks /\ OnPlan /\ Originals \in SUBSET Files /\ Tars \in SUBSET Files
    BY <1>1, Kinds DEF IInv
  <2>3. ASSUME NEW F \in {Originals, Tars}, NEW d \in Dirs, F \subseteq fs[d]
        PROVE  Somewhere(<<"original", p>>) \/ Somewhere(<<"tarred", p>>)
    <3>1. CASE F = Originals
      BY <2>1, <2>2, <2>3, <3>1, Placed
    <3>2. CASE F = Tars
      BY <2>1, <2>2, <2>3, <3>2, Placed
    <3>3. QED
      BY <3>1, <3>2
  <2>4. CASE Watching
    <3>1. fs["backup"] = Disk("derive", FALSE, 1)["backup"] /\ "backup" \in Dirs
      BY <2>4 DEF Watching, AsIn, Dirs
    <3>2. Disk("derive", FALSE, 1)["backup"] = Originals
      BY DEF Disk, DeriveDisk, Source, Held, Dirs
    <3>3. QED
      BY <2>3, <3>1, <3>2
  <2>5. ASSUME NEW s, s = FALSE, NEW plan \in PlansFor(s), Over(plan, s)
        PROVE  Somewhere(<<"original", p>>) \/ Somewhere(<<"tarred", p>>)
    <3>0. s \in BOOLEAN /\ plan \in Plans
      BY <2>5 DEF PlansFor
    <3>1. CASE plan = "start"
      <4>1. AsIn(Disk("start", s, 1), {})
        BY <2>5, <3>0, <3>1, AtEnd DEF Over
      <4>2. Originals \subseteq Disk("start", s, 1)["upload"] /\ "upload" \in Dirs
        BY <2>5 DEF Disk, Held, Uploaded, Dirs
      <4>3. Originals \subseteq fs["upload"]
        BY <4>1, <4>2 DEF AsIn
      <4>4. QED
        BY <2>3, <4>2, <4>3
    <3>2. CASE plan # "start"
      <4>0. PICK k : k = Length(plan, s)
        OBVIOUS
      <4>1. k \in 1..k /\ k \in 1..Length(plan, s)
        BY <3>0, <3>2, <4>0, Lengths
      <4>2. PICK F \in {Originals, Tars} :
              Holds(JobsOf(plan, s)[k], Disk(plan, s, k), Disk(plan, s, k + 1), F)
        BY <2>5, <3>0, <4>1, OriginalsHeld
      <4>3. PICK d \in Dirs : F \subseteq Disk(plan, s, k + 1)[d]
        BY <4>2 DEF Holds
      <4>4. fs[d] = Disk(plan, s, k + 1)[d]
        BY <2>5, <4>0 DEF Over, Ended, Between, AsIn
      <4>5. QED
        BY <2>3, <4>3, <4>4
    <3>3. QED
      BY <3>1, <3>2
  <2>6. ASSUME NEW s, s = FALSE, NEW plan \in PlansFor(s), NEW k \in 1..17, Under(plan, s, k)
        PROVE  Somewhere(<<"original", p>>) \/ Somewhere(<<"tarred", p>>)
    <3>0. s \in BOOLEAN /\ plan \in Plans
      BY <2>6 DEF PlansFor
    <3>1. k \in 1..Length(plan, s)
      BY <2>6, <3>0, FirstJob
    <3>2. PICK j, L, G, r, r2, b, b2 :
            /\ j = JobsOf(plan, s)[k] /\ L = Disk(plan, s, k) /\ G = Disk(plan, s, k + 1)
            /\ r = RowAt(plan, s, k) /\ r2 = RowAt(plan, s, k + 1)
            /\ b = BatchAt(plan, k) /\ b2 = BatchAt(plan, k + 1)
      OBVIOUS
    <3>3. Sound(j, L, G, r, r2, b, b2) /\ On(j, L, G, r, r2, b, b2)
      BY <2>6, <3>0, <3>1, <3>2, AllSound DEF Under
    <3>4. PICK F \in {Originals, Tars} : Holds(j, L, G, F)
      BY <2>6, <3>0, <3>1, <3>2, OriginalsHeld
    <3>5. F \in SUBSET Files /\ F # {}
      BY <2>2, SomeFiles
    <3>6. \A f \in F : Somewhere(f)
      BY <2>2, <3>3, <3>4, <3>5, Kept
    <3>7. QED
      BY <2>1, <3>6
  <2>7. CASE \E s \in BOOLEAN : \E plan \in PlansFor(s) :
               Over(plan, s) \/ \E k \in 1..17 : Under(plan, s, k)
    <3>0. PICK s \in BOOLEAN :
            \E q \in PlansFor(s) : Over(q, s) \/ \E k \in 1..17 : Under(q, s, k)
      BY <2>7
    <3>1. PICK plan \in PlansFor(s) : Over(plan, s) \/ \E k \in 1..17 : Under(plan, s, k)
      BY <3>0
    <3>2. row.scanned = s
      BY <3>1, ScannedOnPlan
    <3>3. CASE s = FALSE
      BY <2>5, <2>6, <3>1, <3>3
    <3>4. CASE s = TRUE
      BY <3>2, <3>4
    <3>5. QED
      BY <3>3, <3>4
  <2>8. QED
    BY <2>2, <2>4, <2>7 DEF OnPlan
<1>2. ASSUME IInv, NEW p \in Pages,
             row.scanned \/ row.backup # "" \/ row.ws \notin {"Upload", "AwaitingProcessing"}
      PROVE  Somewhere(<<"page", p>>)
  <2>1. <<"page", p>> \in PageFiles
    BY DEF PageFiles, FilesOf
  <2>2. fs \in Disks /\ OnPlan /\ PageFiles \in SUBSET Files /\ PageFiles # {}
    BY <1>2, Kinds, SomeFiles DEF IInv
  <2>3. ASSUME NEW d \in Dirs, PageFiles \subseteq fs[d]
        PROVE  Somewhere(<<"page", p>>)
    BY <2>1, <2>2, <2>3, Placed
  <2>4. CASE Watching
    <3>1. fs["notouchie"] = Disk("derive", FALSE, 1)["notouchie"] /\ "notouchie" \in Dirs
      BY <2>4 DEF Watching, AsIn, Dirs
    <3>2. PageFiles \subseteq Disk("derive", FALSE, 1)["notouchie"]
      BY DEF Disk, DeriveDisk, Source, Held, Reviewed, If, Dirs
    <3>3. QED
      BY <2>3, <3>1, <3>2
  <2>5. ASSUME NEW s \in BOOLEAN, NEW plan \in PlansFor(s), Over(plan, s)
        PROVE  Somewhere(<<"page", p>>)
    <3>0. plan \in Plans
      BY DEF PlansFor
    <3>1. CASE plan = "start"
      <4>1. row = RowOf(s, "upload", "", "Upload", FALSE) /\ AsIn(Disk("start", s, 1), {})
        BY <2>5, <3>1, AtEnd DEF Over
      <4>2. row.scanned = s /\ row.backup = "" /\ row.ws = "Upload"
        BY <4>1 DEF RowOf
      <4>3. s = TRUE
        BY <1>2, <4>2
      <4>4. PageFiles \subseteq Disk("start", s, 1)["upload"] /\ "upload" \in Dirs
        BY <4>3 DEF Disk, Held, Uploaded, Dirs
      <4>5. PageFiles \subseteq fs["upload"]
        BY <4>1, <4>4 DEF AsIn
      <4>6. QED
        BY <2>3, <4>4, <4>5
    <3>2. CASE plan # "start"
      <4>0. PICK k : k = Length(plan, s)
        OBVIOUS
      <4>1. k \in 1..Length(plan, s) /\ (plan = "sftp" => k >= 10)
        <5>1. plan = "sftp" => Length(plan, s) = 17
          BY DEF Length
        <5>2. QED
          BY <3>0, <3>2, <4>0, <5>1, Lengths
      <4>2. Holds(JobsOf(plan, s)[k], Disk(plan, s, k), Disk(plan, s, k + 1), PageFiles)
        BY <3>0, <4>1, PagesHeld
      <4>3. PICK d \in Dirs : PageFiles \subseteq Disk(plan, s, k + 1)[d]
        BY <4>2 DEF Holds
      <4>4. fs[d] = Disk(plan, s, k + 1)[d]
        BY <2>5, <4>0 DEF Over, Ended, Between, AsIn
      <4>5. QED
        BY <2>3, <4>3, <4>4
    <3>3. QED
      BY <3>1, <3>2
  <2>6. ASSUME NEW s \in BOOLEAN, NEW plan \in PlansFor(s), NEW k \in 1..17, Under(plan, s, k)
        PROVE  Somewhere(<<"page", p>>)
    <3>0. plan \in Plans
      BY DEF PlansFor
    <3>1. k \in 1..Length(plan, s)
      BY <2>6, FirstJob
    <3>2. PICK j, L, G, r, r2, b, b2 :
            /\ j = JobsOf(plan, s)[k] /\ L = Disk(plan, s, k) /\ G = Disk(plan, s, k + 1)
            /\ r = RowAt(plan, s, k) /\ r2 = RowAt(plan, s, k + 1)
            /\ b = BatchAt(plan, k) /\ b2 = BatchAt(plan, k + 1)
      OBVIOUS
    <3>3. Sound(j, L, G, r, r2, b, b2) /\ On(j, L, G, r, r2, b, b2)
      BY <2>6, <3>1, <3>2, AllSound DEF Under
    <3>4. plan = "sftp" => k >= 10
      <4>1. SUFFICES ASSUME plan = "sftp", k \in 1..9 PROVE FALSE
        OBVIOUS
      <4>2. s = FALSE
        BY <4>1 DEF PlansFor
      <4>3. row \in {RowAt("sftp", s, k), RowAt("sftp", s, k + 1)}
        BY <2>6, <4>1 DEF Under, On
      <4>4. k \in 1..10 /\ k + 1 \in 1..10
        BY <4>1
      <4>5. QED
        BY <1>2, <4>2, <4>3, <4>4, RowsBeforeSplit
    <3>5. Holds(j, L, G, PageFiles)
      BY <3>0, <3>1, <3>2, <3>4, PagesHeld
    <3>6. QED
      BY <2>1, <2>2, <3>3, <3>5, Kept
  <2>7. QED
    BY <2>2, <2>4, <2>5, <2>6 DEF OnPlan
<1>3. IInv => ContentKept
  BY <1>1, <1>2 DEF ContentKept
<1>4. QED
  BY <1>3, Invariance, PTL
=============================================================================

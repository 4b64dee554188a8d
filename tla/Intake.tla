------------------------------- MODULE Intake -------------------------------
(***************************************************************************)
(* How uploads get into the workflow, and how issues stuck on the way are  *)
(* taken out again: the web application's list of uploads and its queue    *)
(* button, the watcher for scans in run-jobs, bulk-issue-queue,            *)
(* purge-dead-issues and page-review-issue-fixer, each a process of its    *)
(* own, with the pipelines they queue running meanwhile.                   *)
(*                                                                         *)
(* A pipeline is told by the jobs that write the issue's row and those     *)
(* that move its directory; the work in between (numbering, derivatives,   *)
(* splitting, backups) is one job.  What happens inside a job, file by     *)
(* file, is in MoveIssue; only the removal of a directory, which others    *)
(* may be copying, takes its pages one by one here.                        *)
(***************************************************************************)
EXTENDS Uploads

CONSTANTS
  Dirs,         (* the upload directories                                    *)
  Worlds,       (* what they may be, what is live, and who queues: see World *)
  Pages,        (* the pages of every upload                                 *)
  Failing,      (* the types of jobs that may fail for good                  *)
  MaxRows,      (* bound: how many issues are ever put into the database     *)
  MaxPipes,     (* bound: how many pipelines are ever queued                 *)
  MaxFails,     (* bound: how many jobs fail for good by themselves          *)
  MaxDeaths,    (* bound: how many clients die while queueing                *)
  MaxRequeues,  (* bound: how often "run-jobs requeue" is used               *)
  Alone,        (* whether no two clients are at one issue at a time         *)
  Undisturbed   (* whether an issue that purge-dead-issues or
                   page-review-issue-fixer has loaded is left alone          *)

World == [dirs : [Dirs -> [kind : {"sftp", "scan"}, title : {"t1", "t2"}, listed : BOOLEAN,
                           folder : [date : Seq(Int), ed : Int, flagged : BOOLEAN],
                           files : SUBSET [stem : {"0001", "0002"}, ext : {"pdf", "tif"},
                                           type : {"file", "dir"}, hidden : BOOLEAN,
                                           dpi : BOOLEAN]]],
          live : SUBSET [title : {"t1", "t2"}, parts : Seq(Int), step : {"InProduction"}],
          clients : SUBSET {"web", "watcher", "bulk"}]

ASSUME IntakeAssumption ==
  /\ Worlds \subseteq World /\ IsFiniteSet(Pages)
  /\ \A n \in {MaxRows, MaxPipes, MaxFails, MaxDeaths, MaxRequeues} : n \in Nat
  /\ Alone \in BOOLEAN /\ Undisturbed \in BOOLEAN

VARIABLES
  world,   (* which of Worlds this is                                       *)
  disk,    (* disk[p]: the pages in directory p, none if it does not exist  *)
  rows,    (* the issues table                                              *)
  pipes,   (* the pipelines queued so far                                   *)
  q,       (* q[c]: how far client c is                                     *)
  web,     (* the uploads the web application shows                         *)
  purge,   (* purge-dead-issues                                             *)
  fixer,   (* page-review-issue-fixer                                       *)
  count    (* how many failures, deaths and requeues there have been        *)

tools == <<purge, fixer>>
vars == <<world, disk, rows, pipes, q, web, tools, count>>

----------------------------------------------------------------------------
Steps == {"AwaitingProcessing", "AwaitingPageReview", "ReadyForMetadataEntry",
          "UnfixableMetadataError"}
Statuses == {"on_hold", "pending", "success", "failed", "failed_done"}

Nowhere == <<"nowhere", 0>>
Upload(d) == <<"upload", d>>
Places == {"wip", "workflow", "review-wip", "review", "no-touchie", "error-wip", "error"}
Paths == {Nowhere} \cup {Upload(d) : d \in Dirs} \cup (Places \X (1..MaxRows))

RowIds == 1..Len(rows)
PipeIds == 1..Len(pipes)
Clients == world.clients
Of(d) == IssueOf(world.dirs[d])
SameKeys(d) == {e \in Dirs : Of(e).title = Of(d).title /\ Of(e).parts = Of(d).parts}
SameKey(r, d) == rows[r].title = Of(d).title /\ rows[r].parts = Of(d).parts

(* The rows the application sees, as the finders describe them (SchemaIssue). *)
Known == {Issue(rows[r].title, rows[r].parts, rows[r].ws) :
            r \in {x \in RowIds : ~rows[x].ignored}} \cup world.live

Seen(d) == [dir |-> d, warned |-> CheckDupes(Of(d), Known) # {}]

NoRequest == [pc |-> "idle", todo |-> {}, up |-> {}, row |-> 0, loc |-> Nowhere]
NotPurging == [pc |-> "idle", list |-> {}, look |-> {}, cancel |-> {}]
NotFixing == [pc |-> "idle", row |-> 0, loc |-> Nowhere]

Init ==
  /\ world \in Worlds
  /\ disk = [p \in Paths |-> IF p[1] = "upload" THEN Pages ELSE {}]
  /\ rows = <<>> /\ pipes = <<>>
  /\ q = [c \in Clients |-> NoRequest]
  /\ web = [pc |-> "idle", inProcess |-> {}, shown |-> {}, rebuilt |-> FALSE]
  /\ purge = NotPurging /\ fixer = NotFixing
  /\ count = [fails |-> 0, deaths |-> 0, requeues |-> 0]

----------------------------------------------------------------------------
(* Pipelines.  Jobs that write the row are tied to the issue
   (PrepareIssueJobAdvanced), the others only name directories
   (PrepareJobAdvanced).                                                    *)
OnRow(type, arg) == [type |-> type, src |-> arg, dst |-> arg]
Sync(a, b) == [type |-> "sync", src |-> a, dst |-> b]
Kill(a) == [type |-> "kill", src |-> a, dst |-> a]
Rename(a, b) == [type |-> "rename", src |-> a, dst |-> b]

Tied(job) == job.type \notin {"sync", "kill", "rename"}

(* Mutant: the upload is removed before it is copied. *)
MoveInKillFirst(r, from) ==
  <<OnRow("set-step", "AwaitingProcessing"), Kill(from), Sync(from, <<"wip", r>>),
    Rename(<<"wip", r>>, <<"workflow", r>>), OnRow("locate", <<"workflow", r>>),
    OnRow("work", Nowhere)>>

MoveIn(r, from) ==
  <<OnRow("set-step", "AwaitingProcessing"), Sync(from, <<"wip", r>>), Kill(from),
    Rename(<<"wip", r>>, <<"workflow", r>>), OnRow("locate", <<"workflow", r>>),
    OnRow("work", Nowhere)>>

QueueMoveIssueForDerivatives(r, from) ==
  MoveIn(r, from) \o <<OnRow("set-step", "ReadyForMetadataEntry")>>

(* Mutant: the row is not told of the second move. *)
QueueSFTPIssueMoveUntold(r, from) ==
  MoveIn(r, from) \o
  <<Sync(<<"workflow", r>>, <<"review-wip", r>>), Kill(<<"workflow", r>>),
    Rename(<<"review-wip", r>>, <<"review", r>>),
    OnRow("set-step", "AwaitingPageReview")>>

QueueSFTPIssueMove(r, from) ==
  MoveIn(r, from) \o
  <<Sync(<<"workflow", r>>, <<"review-wip", r>>), Kill(<<"workflow", r>>),
    Rename(<<"review-wip", r>>, <<"review", r>>), OnRow("locate", <<"review", r>>),
    OnRow("set-step", "AwaitingPageReview")>>

GetJobsForRemoveErroredIssue(r, from) ==
  <<Sync(from, <<"error-wip", r>>), Kill(from), OnRow("locate", <<"error-wip", r>>),
    Rename(<<"error-wip", r>>, <<"error", r>>), OnRow("ignore", Nowhere),
    OnRow("locate", Nowhere), OnRow("set-step", "UnfixableMetadataError")>>

(* A pipeline: the issue it is about, whether it takes the issue out, its
   jobs with their statuses, and how often one of them was requeued.        *)
QueueSerial(r, removal, jobs) ==
  [row |-> r, removal |-> removal, jobs |-> jobs, redone |-> 0,
   st |-> [n \in 1..Len(jobs) |-> IF n = 1 THEN "pending" ELSE "on_hold"]]

Live(p) == {n \in DOMAIN p.st : p.st[n] = "pending"}
About(r) == {p \in PipeIds : pipes[p].row = r}

----------------------------------------------------------------------------
(* The jobs *)

CannotRun(r, job) ==
  \/ job.type \in {"sync", "rename"} /\ disk[job.src] = {}
  \/ job.type = "rename" /\ disk[job.dst] # {}
  \/ job.type = "work" /\ disk[rows[r].loc] = {}

(* QueueNextJob makes the next job pending whatever it was.                 *)
Succeed(p, n) ==
  pipes' = [pipes EXCEPT ![p].st =
              [m \in DOMAIN pipes[p].st |->
                 IF m = n THEN "success" ELSE IF m = n + 1 THEN "pending" ELSE pipes[p].st[m]]]

Written(row, job) ==
  IF job.type = "set-step" THEN [row EXCEPT !.ws = job.src]
  ELSE IF job.type = "locate" THEN [row EXCEPT !.loc = job.src]
  ELSE IF job.type = "ignore" THEN [row EXCEPT !.ignored = TRUE]
  ELSE row

Held(r) ==
  /\ Undisturbed
  /\ r = fixer.row \/ \E x \in purge.list : x.id = r

RowJob(p, n) ==
  LET job == pipes[p].jobs[n]
  IN  /\ Tied(job)
      /\ rows' = [rows EXCEPT ![pipes[p].row] = Written(@, job)]
      /\ Succeed(p, n)
      /\ UNCHANGED disk

SyncDir(p, n) ==
  LET job == pipes[p].jobs[n]
  IN  /\ job.type = "sync"
      /\ disk' = [disk EXCEPT ![job.dst] = @ \cup disk[job.src]]
      /\ Succeed(p, n)
      /\ UNCHANGED rows

RenameDir(p, n) ==
  LET job == pipes[p].jobs[n]
  IN  /\ job.type = "rename"
      /\ disk' = [disk EXCEPT ![job.dst] = disk[job.src], ![job.src] = {}]
      /\ Succeed(p, n)
      /\ UNCHANGED rows

(* KillDir removes page after page and has succeeded when none is left.     *)
KillDir(p, n) ==
  LET dir == pipes[p].jobs[n].src
  IN  /\ pipes[p].jobs[n].type = "kill"
      /\ IF disk[dir] = {} THEN Succeed(p, n) /\ UNCHANGED disk
         ELSE /\ \E page \in disk[dir] : disk' = [disk EXCEPT ![dir] = @ \ {page}]
              /\ UNCHANGED pipes
      /\ UNCHANGED rows

RunJob(p) ==
  \E n \in Live(pipes[p]) :
    /\ ~CannotRun(pipes[p].row, pipes[p].jobs[n]) /\ ~Held(pipes[p].row)
    /\ RowJob(p, n) \/ SyncDir(p, n) \/ RenameDir(p, n) \/ KillDir(p, n)
    /\ UNCHANGED <<world, q, web, tools, count>>

(* A job that cannot succeed has failed for good when its retries are used
   up; others may, for reasons of their own.                                *)
FailJob(p) ==
  \E n \in Live(pipes[p]) :
    /\ ~Held(pipes[p].row)
    /\ IF CannotRun(pipes[p].row, pipes[p].jobs[n]) THEN UNCHANGED count
       ELSE /\ pipes[p].jobs[n].type \in Failing /\ count.fails < MaxFails
            /\ count' = [count EXCEPT !.fails = @ + 1]
    /\ pipes' = [pipes EXCEPT ![p].st[n] = "failed"]
    /\ UNCHANGED <<world, disk, rows, q, web, tools>>

(* run-jobs requeue: a copy of the failed job takes its place.              *)
Requeue(p) ==
  \E n \in DOMAIN pipes[p].st :
    /\ pipes[p].st[n] = "failed" /\ count.requeues < MaxRequeues
    /\ ~Held(pipes[p].row)
    /\ pipes' = [pipes EXCEPT ![p].st[n] = "pending", ![p].redone = @ + 1]
    /\ count' = [count EXCEPT !.requeues = @ + 1]
    /\ UNCHANGED <<world, disk, rows, q, web, tools>>

----------------------------------------------------------------------------
(* uploads.Issue.Queue, in the steps between which others come.  A client's
   q[c].up holds the one upload it is at, as it saw it when it listed it.   *)
Busy(c) == q[c].pc \notin {"idle", "listing", "remove"}

Up(c) == CHOOSE u \in q[c].up : TRUE
MayStart(u) == Alone => \A o \in Clients : Busy(o) => Up(o).dir \notin SameKeys(u.dir)
Turned(c) == [q EXCEPT ![c] = [NoRequest EXCEPT !.todo = q[c].todo,
                               !.pc = IF q[c].todo = {} THEN "idle" ELSE "listing"]]

Start(c, u, todo) ==
  /\ MayStart(u)
  /\ q' = [q EXCEPT ![c] = [NoRequest EXCEPT !.pc = "find", !.up = {u}, !.todo = todo]]

(* ValidateAll is not repeated for an upload it has found a warning for: that
   the directory is gone goes unnoticed then, as it does if it is born
   digital, which has no images to look at.                                 *)
Valid(u) == Major(ValidateAll(world.dirs[u.dir], {})) = {}
SeenGone(u) == world.dirs[u.dir].kind = "scan" /\ disk[Upload(u.dir)] = {}

Rows(d) == {r \in RowIds : SameKey(r, d) /\ ~rows[r].ignored}
(* Mutant: an issue that awaits processing is not found. *)
FindSettledIssueByKey(d) ==
  LET found == {r \in Rows(d) : rows[r].ws # "AwaitingProcessing"}
  IN  IF found = {} THEN {0} ELSE found

(* Which row the query may give first, 0 for none: it does not order them.  *)
FindIssueByKey(d) == IF Rows(d) = {} THEN {0} ELSE Rows(d)

Found(c, r) ==
  [q EXCEPT ![c].pc = IF r = 0 THEN "create" ELSE "jobs", ![c].row = r,
            ![c].loc = IF r = 0 THEN Nowhere ELSE rows[r].loc]

Find(c) ==
  /\ q[c].pc = "find"
  /\ LET u == Up(c)
     IN  \/ /\ Valid(u) /\ (SeenGone(u) => u.warned)
            /\ \E r \in FindIssueByKey(u.dir) : q' = Found(c, r)
         \/ /\ ~Valid(u) \/ (SeenGone(u) /\ (u.warned => c = "web"))
            /\ q' = Turned(c)
  /\ UNCHANGED <<world, disk, rows, pipes, web, tools, count>>

CreateDatabaseIssue(c) ==
  /\ q[c].pc = "create" /\ Len(rows) < MaxRows
  /\ LET d == Up(c).dir
     IN  /\ rows' = Append(rows, [title |-> Of(d).title, parts |-> Of(d).parts, from |-> d,
                                  ws |-> "AwaitingProcessing", loc |-> Upload(d),
                                  ignored |-> FALSE])
         /\ q' = [q EXCEPT ![c].pc = "jobs", ![c].row = Len(rows) + 1, ![c].loc = Upload(d)]
  /\ UNCHANGED <<world, disk, pipes, web, tools, count>>

(* The jobs tied to the issue, in no particular order.                      *)
FindJobsForIssueID(r) ==
  UNION {{[pipe |-> p, n |-> n] : n \in {m \in DOMAIN pipes[p].st : Tied(pipes[p].jobs[m])}} :
           p \in About(r)}

Status(j) == pipes[j.pipe].st[j.n]
Closed(S) ==
  [p \in PipeIds |->
     [pipes[p] EXCEPT !.st = [n \in DOMAIN pipes[p].st |->
        IF [pipe |-> p, n |-> n] \in S THEN "failed_done" ELSE pipes[p].st[n]]]]

(* Failed jobs are closed, and with any other that is not closed the upload
   is refused, as broken; some may have been closed by then.                *)
CheckJobs(c) ==
  /\ q[c].pc = "jobs"
  /\ LET jobs == FindJobsForIssueID(q[c].row)
         failed == {j \in jobs : Status(j) = "failed"}
     IN  IF \A j \in jobs : Status(j) \in {"failed", "failed_done"}
         THEN /\ pipes' = Closed(failed)
              /\ q' = [q EXCEPT ![c].pc = "queue"]
         ELSE /\ \E S \in SUBSET failed : pipes' = Closed(S)
              /\ q' = Turned(c)
  /\ UNCHANGED <<world, disk, rows, web, tools, count>>

(* The pipeline is chosen by where this upload is, its source by the row.
   The web application's handler has its list to mend then.                 *)
QueueMove(c) ==
  /\ q[c].pc = "queue" /\ Len(pipes) < MaxPipes
  /\ LET r == q[c].row
         jobs == IF world.dirs[Up(c).dir].kind = "sftp" THEN QueueSFTPIssueMove(r, q[c].loc)
                 ELSE QueueMoveIssueForDerivatives(r, q[c].loc)
     IN  pipes' = Append(pipes, QueueSerial(r, FALSE, jobs))
  /\ q' = IF c = "web" THEN [q EXCEPT ![c].pc = "remove"] ELSE Turned(c)
  /\ UNCHANGED <<world, disk, rows, web, tools, count>>

(* What was queued is hidden by its key, and taken from the title that was
   shown when the request began: if the list was built anew since, from one
   that nobody looks at any more.                                           *)
RemoveIssue(c) ==
  /\ q[c].pc = "remove"
  /\ web' = [web EXCEPT
               !.inProcess = IF web.pc = "decorate" THEN @ \cup SameKeys(Up(c).dir) ELSE @,
               !.shown = IF web.rebuilt THEN @ ELSE @ \ q[c].up]
  /\ q' = Turned(c)
  /\ UNCHANGED <<world, disk, rows, pipes, tools, count>>

Queue(c) == Find(c) \/ CreateDatabaseIssue(c) \/ CheckJobs(c) \/ QueueMove(c) \/ RemoveIssue(c)

Die(c) ==
  /\ q[c].pc \notin {"idle", "listing"} /\ count.deaths < MaxDeaths
  /\ count' = [count EXCEPT !.deaths = @ + 1]
  /\ q' = [q EXCEPT ![c] = NoRequest]
  /\ UNCHANGED <<world, disk, rows, pipes, web, tools>>

----------------------------------------------------------------------------
(* Who queues what *)

Present(kind) == {d \in Dirs : world.dirs[d].kind = kind /\ disk[Upload(d)] # {}}

(* Mutant: a warning keeps a scan out. *)
ScanFlawlessIssues ==
  {Seen(d) : d \in {x \in Present("scan") : ValidateAll(world.dirs[x], Known) = {}}}

(* scanner-scanner goes through the scans without major errors ...          *)
ScanScannerIssues ==
  {Seen(d) : d \in {x \in Present("scan") : Major(ValidateAll(world.dirs[x], Known)) = {}}}

(* ... bulk-issue-queue through the uploads of one kind without any.        *)
BulkIssues(kind) ==
  {Seen(d) : d \in {x \in Present(kind) : ValidateAll(world.dirs[x], Known) = {}}}

List(c) ==
  /\ c # "web" /\ q[c].pc = "idle"
  /\ \E todo \in IF c = "watcher" THEN {ScanScannerIssues}
                 ELSE {BulkIssues(kind) : kind \in {"scan", "sftp"}} :
       /\ todo # {}
       /\ q' = [q EXCEPT ![c].pc = "listing", ![c].todo = todo]
  /\ UNCHANGED <<world, disk, rows, pipes, web, tools, count>>

NextUpload(c) ==
  /\ q[c].pc = "listing"
  /\ \E u \in q[c].todo : Start(c, u, q[c].todo \ {u})
  /\ UNCHANGED <<world, disk, rows, pipes, web, tools, count>>

(* The web application's list: the keys that await processing are read, then
   they become those to hide, then what else is there is shown.  What is
   hidden is read by the last step only; what RemoveIssue adds before the
   second is lost with the list it is added to.                             *)
BuildInProcessList ==
  /\ web.pc = "idle"
  /\ web' = [web EXCEPT !.pc = "listed",
               !.inProcess = {d \in Dirs : \E r \in Rows(d) : rows[r].ws = "AwaitingProcessing"}]

SwapInProcessList == web.pc = "listed" /\ web' = [web EXCEPT !.pc = "decorate"]

DecorateTitles ==
  /\ web.pc = "decorate"
  /\ web' = [pc |-> "idle", inProcess |-> {}, rebuilt |-> q["web"].pc # "idle",
             shown |-> {Seen(d) : d \in (Present("scan") \cup Present("sftp")) \ web.inProcess}]

SearcherStep ==
  /\ "web" \in Clients
  /\ BuildInProcessList \/ SwapInProcessList \/ DecorateTitles
  /\ UNCHANGED <<world, disk, rows, pipes, q, tools, count>>

IssueWorkflowHandler ==
  /\ "web" \in Clients /\ q["web"].pc = "idle"
  /\ \E u \in web.shown : Start("web", u, {})
  /\ web' = [web EXCEPT !.rebuilt = FALSE]
  /\ UNCHANGED <<world, disk, rows, pipes, tools, count>>

----------------------------------------------------------------------------
(* purge-dead-issues, run when something has failed: the issues are read, then
   each one's jobs, then all is written in one transaction.                 *)

PurgeList ==
  /\ purge.pc = "idle" /\ \E p \in PipeIds : "failed" \in {pipes[p].st[n] : n \in DOMAIN pipes[p].st}
  /\ LET ids == {r \in RowIds : rows[r].ws = "AwaitingProcessing" /\ ~rows[r].ignored}
     IN  /\ ids # {}
         /\ purge' = [purge EXCEPT !.pc = "look", !.look = ids,
                                  !.list = {[id |-> r, row |-> rows[r]] : r \in ids}]
  /\ UNCHANGED <<world, disk, rows, pipes, q, web, fixer, count>>

(* Mutant: that no job is running is enough. *)
PurgeableIdle(jobs) == \A j \in jobs : Status(j) # "pending"

Purgeable(jobs) ==
  /\ \A j \in jobs : Status(j) # "pending"
  /\ \E j \in jobs : Status(j) = "failed"

Loaded(j, r) == [pipe |-> j.pipe, n |-> j.n, row |-> r, status |-> Status(j),
                 redone |-> pipes[j.pipe].redone]

PurgeIssue(r) ==
  /\ purge.pc = "look" /\ r \in purge.look
  /\ LET jobs == FindJobsForIssueID(r)
         stuck == {j \in jobs : Status(j) \in {"failed", "on_hold"}}
     IN  purge' = [purge EXCEPT !.look = @ \ {r},
                     !.cancel = @ \cup IF Purgeable(jobs) THEN {Loaded(j, r) : j \in stuck} ELSE {}]
  /\ UNCHANGED <<world, disk, rows, pipes, q, web, fixer, count>>

(* cancelJob writes what was loaded back as failed_done; the row of a failed
   job that was requeued meanwhile is not that of its copy.                 *)
Canceled(p, n) ==
  \E j \in purge.cancel : /\ j.pipe = p /\ j.n = n
                          /\ j.status = "failed" => j.redone = pipes[p].redone

(* The order the database has listed the issues in.                         *)
Orders(S) == {s \in [1..Cardinality(S) -> S] : \A m, n \in DOMAIN s : s[m] = s[n] => m = n}

DoPurge ==
  LET purged == {x \in purge.list : \E j \in purge.cancel : j.row = x.id}
      kept == [p \in PipeIds |->
                 [pipes[p] EXCEPT !.st = [n \in DOMAIN pipes[p].st |->
                    IF Canceled(p, n) THEN "failed_done" ELSE pipes[p].st[n]]]]
      Removal(x) == QueueSerial(x.id, TRUE, GetJobsForRemoveErroredIssue(x.id, x.row.loc))
      Copy(r) == {x \in purged : x.id = r}
  IN  /\ purge.pc = "look" /\ purge.look = {}
      /\ Len(pipes) + Cardinality(purged) <= MaxPipes
      /\ \E list \in Orders(purged) : pipes' = kept \o [n \in DOMAIN list |-> Removal(list[n])]
      /\ rows' = [r \in RowIds |-> IF Copy(r) = {} THEN rows[r] ELSE (CHOOSE x \in Copy(r) : TRUE).row]
      /\ purge' = NotPurging
      /\ UNCHANGED <<world, disk, q, web, fixer, count>>

(* A dry run, an error or the end of the process undoes everything.         *)
Rollback ==
  /\ purge.pc = "look"
  /\ purge' = NotPurging
  /\ UNCHANGED <<world, disk, rows, pipes, q, web, fixer, count>>

----------------------------------------------------------------------------
(* Issues in page review: taken out by page-review-issue-fixer, which knows
   one issue of a key, or renamed and queued by the watcher of page
   review, whose own steps are in MoveIssue.                                *)
InPageReview == {r \in RowIds : rows[r].ws = "AwaitingPageReview" /\ ~rows[r].ignored}

GetIssues ==
  /\ fixer.pc = "idle"
  /\ \E r \in InPageReview : /\ r \in FindIssueByKey(rows[r].from)
                             /\ fixer' = [pc |-> "loaded", row |-> r, loc |-> rows[r].loc]
  /\ UNCHANGED <<world, disk, rows, pipes, q, web, purge, count>>

PrepForRemoval ==
  /\ fixer.pc = "loaded"
  /\ rows' = [rows EXCEPT ![fixer.row].ws = "AwaitingProcessing", ![fixer.row].loc = fixer.loc]
  /\ fixer' = [fixer EXCEPT !.pc = "prepared"]
  /\ UNCHANGED <<world, disk, pipes, q, web, purge, count>>

QueueRemoveErroredIssue ==
  /\ fixer.pc = "prepared" /\ Len(pipes) < MaxPipes
  /\ pipes' = Append(pipes, QueueSerial(fixer.row, TRUE,
                              GetJobsForRemoveErroredIssue(fixer.row, fixer.loc)))
  /\ fixer' = NotFixing
  /\ UNCHANGED <<world, disk, rows, q, web, purge, count>>

FixerDies ==
  /\ fixer.pc = "prepared" /\ count.deaths < MaxDeaths
  /\ count' = [count EXCEPT !.deaths = @ + 1]
  /\ fixer' = NotFixing
  /\ UNCHANGED <<world, disk, rows, pipes, q, web, purge>>

(* The watcher's own steps, and its death between them, are in MoveIssue.   *)
QueueIssueForDerivatives(r) ==
  /\ r \in InPageReview /\ ~Held(r) /\ Len(pipes) < MaxPipes
  /\ disk[rows[r].loc] # {} /\ disk[<<"no-touchie", r>>] = {}
  /\ disk' = [disk EXCEPT ![<<"no-touchie", r>>] = disk[rows[r].loc], ![rows[r].loc] = {}]
  /\ rows' = [rows EXCEPT ![r].loc = <<"no-touchie", r>>, ![r].ws = "AwaitingProcessing"]
  /\ pipes' = Append(pipes, QueueSerial(r, FALSE,
                              QueueMoveIssueForDerivatives(r, <<"no-touchie", r>>)))
  /\ UNCHANGED <<world, q, web, tools, count>>

----------------------------------------------------------------------------
Jobs == \E p \in PipeIds : RunJob(p) \/ FailJob(p)
Operator == \E p \in PipeIds : Requeue(p)
ClientStep(c) == List(c) \/ NextUpload(c) \/ Queue(c)
Purge == PurgeList \/ (\E r \in RowIds : PurgeIssue(r)) \/ DoPurge \/ Rollback
Fixer == GetIssues \/ PrepForRemoval \/ QueueRemoveErroredIssue \/ FixerDies

Next ==
  \/ Jobs \/ Operator
  \/ \E c \in Clients : ClientStep(c) \/ Die(c)
  \/ SearcherStep \/ IssueWorkflowHandler
  \/ Purge \/ Fixer
  \/ \E r \in RowIds : QueueIssueForDerivatives(r)

(* run-jobs runs jobs and its watcher again and again; a client that is at an
   upload goes on.  It waits for nobody in the code: when Alone holds a client
   back, that must not be for ever, whatever others queue again and again.
   Nobody has to press a button or run a tool.                              *)
Fairness ==
  /\ \A p \in 1..MaxPipes : WF_vars(p \in PipeIds /\ (RunJob(p) \/ FailJob(p)))
  /\ \A c \in {"web", "watcher", "bulk"} : SF_vars(c \in Clients /\ (Queue(c) \/ NextUpload(c)))
  /\ WF_vars("watcher" \in Clients /\ List("watcher"))

Spec == Init /\ [][Next]_vars /\ Fairness

----------------------------------------------------------------------------
(* Properties *)

Row == [title : {"t1", "t2"}, parts : Seq(Int), from : Dirs, ws : Steps, loc : Paths, ignored : BOOLEAN]

TypeOK ==
  /\ disk \in [Paths -> SUBSET Pages]
  /\ rows \in Seq(Row) /\ Len(rows) <= MaxRows /\ Len(pipes) <= MaxPipes
  /\ \A p \in PipeIds : /\ pipes[p].row \in RowIds /\ Cardinality(Live(pipes[p])) <= 1
                        /\ pipes[p].st \in [DOMAIN pipes[p].jobs -> Statuses]
  /\ \A c \in Clients : /\ q[c].row \in {0} \cup RowIds /\ Cardinality(q[c].up) <= 1
                        /\ q[c].pc \in {"jobs", "queue"} => q[c].row # 0
  /\ fixer.row \in {0} \cup RowIds

(* Whatever fails, is requeued, purged or removed, and in whatever order the
   jobs of several issues run: the pages of an upload are all in one
   directory.  (KillDir follows only a SyncDir that has succeeded.)

   This and the next three are claimed of what Alone and Undisturbed allow,
   to which nothing in the code sees.  Without Undisturbed none of the four
   holds, and without Alone the last three do not.                          *)
Copies(d) == {Upload(d)} \cup {<<place, r>> : place \in Places, r \in {x \in RowIds : rows[x].from = d}}

PagesKept == \A d \in Dirs : \E p \in Copies(d) : disk[p] = Pages

(* No upload is taken in twice, but when it has been thrown out since, though
   rows, jobs and pipelines are written one after the other, by processes that
   may die, and looked for by key.  Nor is it after a move that has failed:
   see FailedMovesRetried.                                                  *)
MovedOnce ==
  \A d \in Dirs :
    Cardinality({p \in PipeIds : /\ ~pipes[p].removal /\ ~rows[pipes[p].row].ignored
                                 /\ pipes[p].jobs[2] = Sync(Upload(d), <<"wip", pipes[p].row>>)}) <= 1

(* An issue that curators are given has all its pages, where its row says
   they are.                                                                *)
WholeIssues ==
  \A r \in RowIds :
    rows[r].ws \in {"AwaitingPageReview", "ReadyForMetadataEntry"} /\ ~rows[r].ignored
      => disk[rows[r].loc] = Pages

(* An issue is taken out of the workflow only when nothing else is, or will
   be, moving it, and from the directory it is in.                          *)
RemovedAlone ==
  \A p \in PipeIds : pipes[p].removal =>
    /\ pipes[p].st[1] = "pending" => disk[pipes[p].jobs[1].src] = Pages
    /\ \A o \in About(pipes[p].row) \ {p} : Live(pipes[o]) = {}

(* "We're okay closing and retrying a failed move" (uploads/queue.go:72): when
   all there is about an upload's issue is moves that have failed, Queue
   queues it again.                                                         *)
MoveFailed(p) ==
  /\ ~pipes[p].removal /\ Live(pipes[p]) = {}
  /\ \E n \in DOMAIN pipes[p].st : pipes[p].st[n] = "failed" /\ ~Tied(pipes[p].jobs[n])

FailedMovesRetried ==
  [][\A c \in Clients :
       CheckJobs(c) /\ (\A p \in About(q[c].row) : MoveFailed(p)) => q'[c].pc = "queue"]_vars

(* While run-jobs watches for scans, every scan without errors gets into the
   workflow, though the watcher or another client that had begun with it may
   have died: it or another of its key is queued.                           *)
Takeable(d) ==
  /\ "watcher" \in Clients
  /\ world.dirs[d].kind = "scan" /\ Major(ValidateAll(world.dirs[d], {})) = {}

ScansTaken ==
  \A d \in Dirs : Takeable(d) ~> \E p \in PipeIds : SameKey(pipes[p].row, d)
=============================================================================

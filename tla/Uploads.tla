------------------------------ MODULE Uploads ------------------------------
(***************************************************************************)
(* What the finders make of the directories people upload: the issue each  *)
(* one is, its key, what is wrong with it, and which known issues it looks *)
(* like a duplicate of.                                                    *)
(*                                                                         *)
(* A directory is a record                                                 *)
(*   kind    "sftp" (born digital) or "scan"                               *)
(*   title   the directory above, an LCCN or an SFTP directory's name      *)
(*   listed  whether the titles table has it                               *)
(*   folder  its name: date <<year, month, day>>, edition and whether it   *)
(*           ends with "-error"                                            *)
(*   files   what is in it                                                 *)
(* Parts of a date and editions are numbers, NaN when they are not digits. *)
(***************************************************************************)
EXTENDS Integers, Sequences, FiniteSets

NaN == -1
Absent == -2   (* the folder's name has no edition *)

(* An issue as the finders describe it. *)
Issue(title, parts, step) == [title |-> title, parts |-> parts, step |-> step]

----------------------------------------------------------------------------
(* Keys *)

Edition(d) ==
  IF d.kind = "sftp" \/ d.folder.ed = Absent THEN 1
  ELSE IF d.folder.ed = NaN THEN 0 ELSE d.folder.ed

(* What else follows the date spoils it: an edition in an SFTP folder's name,
   "-error" in a scan's.                                                    *)
Spoiled(d) == IF d.kind = "sftp" THEN d.folder.ed # Absent ELSE d.folder.flagged

DateParts(d) == IF Spoiled(d) THEN Append(d.folder.date, NaN) ELSE d.folder.date

IssueOf(d) ==
  Issue(d.title, Append(DateParts(d), Edition(d)),
        IF d.kind = "sftp" THEN "SFTPUpload" ELSE "ScanUpload")

ValidDate(date) == date[1] >= 0 /\ date[2] \in 1..12 /\ date[3] \in 1..31

(* ParseSearchKey reads the digits a key begins with and nothing behind them:
   a folder that is no date at all is searched for by its title alone.  An
   edition of 0 is none.                                                    *)
Digits(parts) ==
  LET bad == {n \in DOMAIN parts : parts[n] = NaN}
  IN  IF bad = {} THEN parts
      ELSE SubSeq(parts, 1, (CHOOSE n \in bad : \A m \in bad : n <= m) - 1)

Parses(key) ==
  /\ Len(key) >= 2 => key[2] \in 1..12
  /\ Len(key) >= 3 => key[3] \in 1..31

SearchKey(parts) ==
  LET key == Digits(parts)
  IN  IF Len(key) = 4 /\ key[4] = 0 THEN SubSeq(key, 1, 3) ELSE key

(* Every issue is looked up by its key and by its key less edition, day,
   month and year.                                                          *)
Lookup(issues, title, key) ==
  {i \in issues : /\ i.title = title /\ Len(key) <= Len(i.parts)
                  /\ SubSeq(i.parts, 1, Len(key)) = key}

----------------------------------------------------------------------------
(* Duplicates: which of two issues is the more certain one                 *)
StepOrder ==
  [s \in {"", "UnfixableMetadataError", "SFTPUpload", "ScanUpload", "AwaitingPageReview",
          "ReadyForMetadataEntry", "AwaitingMetadataReview", "ReadyForMETSXML",
          "ReadyForBatching", "AwaitingProcessing", "InProduction"} |->
     IF s = "" THEN 0
     ELSE IF s = "UnfixableMetadataError" THEN 10
     ELSE IF s \in {"SFTPUpload", "ScanUpload"} THEN 20
     ELSE IF s = "AwaitingPageReview" THEN 30
     ELSE IF s = "ReadyForMetadataEntry" THEN 40
     ELSE IF s = "AwaitingMetadataReview" THEN 50
     ELSE IF s \in {"ReadyForMETSXML", "ReadyForBatching"} THEN 60
     ELSE IF s = "AwaitingProcessing" THEN 100
     ELSE 2147483647]

Before(a, b) == StepOrder[a] < StepOrder[b]

CheckDupes(i, issues) ==
  IF ~Parses(Digits(i.parts)) THEN {}
  ELSE {j \in Lookup(issues, i.title, SearchKey(i.parts)) : Before(i.step, j.step)}

----------------------------------------------------------------------------
(* What is wrong with an upload.  A file is a record of its name up to the
   first dot (stem), its extension, its type ("file", "dir" or "other"),
   whether its name is one to ignore (hidden), and whether a PDF's images
   have the resolution scans must have (dpi).                               *)
Warnings == {"duplicate of another issue", "may be too new"}
Major(errors) == errors \ Warnings

FolderErrors(d) ==
  LET ed == d.folder.ed
      bad == \/ ~ValidDate(d.folder.date) \/ d.folder.flagged
             \/ Spoiled(d)
             \/ d.kind = "scan" /\ ed # Absent /\ ed < 1
  IN  IF bad THEN {"invalid folder name"} ELSE {}

Tiffs == {"tif", "tiff"}
Allowed(kind) == IF kind = "sftp" THEN {"pdf"} ELSE {"pdf"} \cup Tiffs

BadFile(d, f) == f.type # "file" \/ (~f.hidden /\ f.ext \notin Allowed(d.kind))

FileErrors(d) ==
  IF d.files = {} THEN {"no files"}
  ELSE IF \E f \in d.files : BadFile(d, f) THEN {"one or more files are invalid"} ELSE {}

(* The PDFs and TIFFs of a scan go in pairs of one name.  Hidden files and
   directories count here.                                                  *)
Paired(files) ==
  LET With(exts, stem) == Cardinality({f \in files : f.ext \in exts /\ f.stem = stem})
      tiffs == {f \in files : f.ext \in Tiffs}
  IN  /\ tiffs # {}
      /\ \A f \in files : f.ext \in Tiffs \cup {"pdf"} =>
           With(Tiffs, f.stem) = With({"pdf"}, f.stem)

ContentErrors(d) ==
  IF d.kind = "scan" /\ ~Paired(d.files) THEN {"invalid folder contents"} ELSE {}

TitleErrors(d) == IF d.listed THEN {} ELSE {"issue linked to invalid title"}

(* ValidateFast is run when an upload is listed, ValidateAll when it is
   queued; with DaysIssueConsideredNew = 0 none is ever too new.            *)
FoundErrors(d) == FolderErrors(d) \cup FileErrors(d) \cup ContentErrors(d)

ValidateFast(d, known) ==
  FoundErrors(d) \cup TitleErrors(d)
    \cup (IF CheckDupes(IssueOf(d), known) = {} THEN {} ELSE {"duplicate of another issue"})

ValidateDPI(d) ==
  IF d.kind = "scan" /\ \E f \in d.files : f.ext = "pdf" /\ ~f.dpi
  THEN {"one or more files are invalid"} ELSE {}

ValidateAll(d, known) == ValidateFast(d, known) \cup ValidateDPI(d)
=============================================================================

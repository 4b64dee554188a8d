------------------------------ MODULE MCIntake ------------------------------
(***************************************************************************)
(* Small instances of Intake: two uploads, and what they may be.           *)
(***************************************************************************)
EXTENDS Intake, TLC

CONSTANTS u1, u2

Date == <<2021, 5, 1>>
File(stem, ext) ==
  [stem |-> stem, ext |-> ext, type |-> "file", hidden |-> FALSE, dpi |-> TRUE]

Directory(kind, date, files) ==
  [kind |-> kind, title |-> "t1", listed |-> TRUE, files |-> files,
   folder |-> [date |-> date, ed |-> Absent, flagged |-> FALSE]]

Scan == Directory("scan", Date, {File("0001", "tif"), File("0001", "pdf")})

BadScan == Directory("scan", <<2021, 5, 2>>, {File("0001", "tif")})
BornDigital == Directory("sftp", <<2021, 5, 3>>, {File("0001", "pdf")})

In(d1, d2) == (u1 :> d1) @@ (u2 :> d2)
(* One scan under two organizations; a scan that is live already and one with
   an error; a born-digital issue, found by hand; a scan and a born-digital
   issue, queued in bulk.                                                   *)
MCWorlds ==
  {[dirs |-> In(Scan, Scan), live |-> {}, clients |-> {"watcher", "bulk"}],
   [dirs |-> In(Scan, BadScan), live |-> {Issue("t1", Append(Date, 1), "InProduction")},
    clients |-> {"watcher", "web"}],
   [dirs |-> In(BornDigital, BadScan), live |-> {}, clients |-> {"web"}],
   [dirs |-> In(Scan, BornDigital), live |-> {}, clients |-> {"bulk"}]}
=============================================================================

---------------------------- MODULE MCBatchQueue ----------------------------
(***************************************************************************)
(* BatchQueue for TLC: every mixture of a few kinds of issues.  The first  *)
(* run is on day 50, and issues of day 10 are stale by then.               *)
(***************************************************************************)
EXTENDS BatchQueue, FiniteSetsExt

CONSTANTS Sizes

(* No embargo and fresh, stale, or approved after the first run; a long
   approved issue whose embargo lifts late or early                        *)
Times == {<<40, 0>>, <<10, 0>>, <<55, 0>>, <<10, 60>>, <<5, 40>>}

MCKinds ==
  {[pages |-> p, moc |-> m, approved |-> t[1], lifts |-> t[2], valid |-> TRUE] :
     p \in Sizes, m \in MOCs, t \in Times}
  \cup {[pages |-> Min(Sizes), moc |-> CHOOSE m \in MOCs : TRUE,
         approved |-> 40, lifts |-> 0, valid |-> FALSE]}
=============================================================================

--------------------------- MODULE SerialPipeline ---------------------------
(***************************************************************************)
(* What QueueSerial promises the code that calls it: the jobs of a         *)
(* pipeline are carried out one at a time and in the order given, each     *)
(* only when the one before it has been carried out, and none any more     *)
(* once the pipeline has moved on to the next.  The current job may be     *)
(* abandoned and begun again any number of times, even after it has been   *)
(* carried out: execution is at least once, never out of order.            *)
(***************************************************************************)
EXTENDS Integers

CONSTANTS Chains,  (* the pipelines                                        *)
          Length   (* Length[c]: how many jobs pipeline c has              *)

VARIABLES at,    (* at[c]: the current job of pipeline c                   *)
          done,  (* done[c]: the current job has been carried out          *)
          busy   (* busy[c]: the current job is being worked on            *)

pipelineVars == <<at, done, busy>>

Init ==
  /\ at = [c \in Chains |-> 1]
  /\ done = [c \in Chains |-> FALSE]
  /\ busy = [c \in Chains |-> FALSE]

Begin(c) ==
  /\ ~busy[c]
  /\ busy' = [busy EXCEPT ![c] = TRUE]
  /\ UNCHANGED <<at, done>>

CarryOut(c) ==
  /\ busy[c]
  /\ busy' = [busy EXCEPT ![c] = FALSE]
  /\ done' = [done EXCEPT ![c] = TRUE]
  /\ UNCHANGED at

Abandon(c) ==
  /\ busy[c]
  /\ busy' = [busy EXCEPT ![c] = FALSE]
  /\ UNCHANGED <<at, done>>

MoveOn(c) ==
  /\ ~busy[c]
  /\ done[c]
  /\ at[c] < Length[c]
  /\ at' = [at EXCEPT ![c] = @ + 1]
  /\ done' = [done EXCEPT ![c] = FALSE]
  /\ UNCHANGED busy

Next == \E c \in Chains : Begin(c) \/ CarryOut(c) \/ Abandon(c) \/ MoveOn(c)

Spec == Init /\ [][Next]_pipelineVars
=============================================================================

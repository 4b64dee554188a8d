------------------------- MODULE JobQueueRefinement -------------------------
(***************************************************************************)
(* The job queue implements the serial pipelines of SerialPipeline.  The   *)
(* current job of a pipeline is the last one ever released from on_hold,   *)
(* whether or not a crash has since left the pipeline without a live job.  *)
(***************************************************************************)
EXTENDS JobQueue

Released(c) ==
  {jobs[id].step : id \in {i \in 1..lastId : /\ Own(i)
                                           /\ jobs[i].chain = c
                                           /\ jobs[i].status # "on_hold"}}

Current(c) ==
  LET released == Released(c)
  IN  IF released = {} THEN 1
      ELSE CHOOSE i \in released : \A k \in released : k <= i

Executing(c) ==
  \E r \in Runners : /\ pc[r] = "running"
                     /\ Own(held[r])
                     /\ jobs[held[r]].chain = c

Pipeline == INSTANCE SerialPipeline WITH
  Length <- [c \in Chains |-> NumSteps(c)],
  at     <- [c \in Chains |-> Current(c)],
  done   <- [c \in Chains |-> Current(c) \in ran[c]],
  busy   <- [c \in Chains |-> Executing(c)]

(* Whatever crashes, database errors, repairs and requeues do, the queue's
   pipelines run their jobs one at a time and in order, and never go back
   to a job once the next one has been released.                           *)
ImplementsPipeline == Pipeline!Spec
=============================================================================

----------------------------- MODULE MCPlatform -----------------------------
(***************************************************************************)
(* Small instances of RunnerPlatform.  A delivery is named after what it   *)
(* carries and its job: "queued1", "progress1", "success1", "failure1",    *)
(* "cancel1" (the cancelled action) and "skip1" (completed, with the       *)
(* conclusion cancelled or skipped), and the same for job 2.               *)
(***************************************************************************)
EXTENDS RunnerPlatform, TLC

MCJobOf ==
  [d \in Deliveries |->
    IF d \in {"queued2", "progress2", "success2", "cancel2", "skip2"} THEN "job2" ELSE "job1"]

MCActionOf ==
  [d \in Deliveries |->
    CASE d \in {"queued1", "queued2"} -> "queued"
      [] d \in {"progress1", "progress2"} -> "in_progress"
      [] d \in {"success1", "success2"} -> "success"
      [] d \in {"failure1"} -> "failure"
      [] d \in {"cancel1", "skip1", "cancel2", "skip2"} -> "cancelled"]

Symmetry == Permutations(Handlers) \cup Permutations(Runners)
=============================================================================

----------------------------- MODULE Reconciler -----------------------------
(***************************************************************************)
(* lifecycle.Reconciler.Reconcile: one pass lists the jobs, the runners    *)
(* and the leases (three separate reads), then works on these copies:      *)
(* provider truth into runner records, lease repair, job repair with the   *)
(* cleanup of terminal jobs, orphan cleanup, and the reaping of expired    *)
(* runners.  Each record is saved with the revision of the copy, so the    *)
(* store may have moved on under every step.                               *)
(***************************************************************************)
EXTENDS PlatformState

VARIABLE pass

(* Phases of a pass; "save", "mark", "terminate" and "saved" are calls on   *)
(* the record at hand, inside the phase pass.in.                             *)
Phases == {"status", "leases", "jobs", "orphans", "reap"}
PassPCs == {"idle", "listRunners", "listLeases"} \cup Phases
           \cup {"save", "mark", "terminate", "saved"}

(***************************************************************************)
(*   now      the jobs expired when the ticker fired                       *)
(*   jobs, runners, leases   jobByID, runnerByID and leaseByJob            *)
(*   todo     identities the current phase still has to visit              *)
(*   cur, copy, to   the runner at hand, the copy of its record, and the   *)
(*            state the status phase wants to save                         *)
(***************************************************************************)
IdlePass ==
  [pc |-> "idle", in |-> "idle", now |-> {},
   jobs |-> [j \in Jobs |-> NoJob], runners |-> [r \in Runners |-> NoRunnerRecord],
   leases |-> [j \in Jobs |-> NoLease],
   todo |-> {}, cur |-> NoRunner, copy |-> NoRunnerRecord, to |-> "none"]

PassRecords ==
  [pc : PassPCs, in : Phases \cup {"idle"}, now : SUBSET Jobs,
   jobs : [Jobs -> JobRecords], runners : [Runners -> RunnerRecords],
   leases : [Jobs -> LeaseRecords],
   todo : SUBSET (Jobs \cup Runners), cur : Runners \cup {NoRunner},
   copy : RunnerRecords, to : RunnerStates \cup {"none"}]

PassTypeOK == pass \in PassRecords

PassInit == pass = IdlePass

-----------------------------------------------------------------------------
(* What the copies of pass p call for. *)

Dead(st) == st \in {"terminated", "failed", "unknown"}

(* The lease repair switch. *)
LeaseTarget(p, j) ==
  LET lease == p.leases[j]
      runner == p.runners[lease.runner]
  IN  CASE Absent(p.jobs[j]) \/ Absent(runner) ->
             IF lease.st \in {"terminated", "failed"} THEN lease.st ELSE "failed"
        [] ~(Absent(p.jobs[j]) \/ Absent(runner)) ->
             IF j \in p.now \/ Terminal(p.jobs[j].st) \/ runner.st = "terminated"
             THEN "terminated"
             ELSE IF Dead(runner.st) THEN "failed"
             ELSE IF lease.st = "pending" THEN "active" ELSE lease.st

(* The job repair of a job that is neither terminal nor expired. *)
JobTarget(p, j) ==
  LET st == p.jobs[j].st
      lease == p.leases[j]
      runner == p.runners[lease.runner]
  IN  IF Absent(lease)
      THEN IF st \in {"assigned", "running"} THEN "failed" ELSE st
      ELSE IF \/ lease.st \in {"terminated", "failed", "cancelled", "completed"}
              \/ Absent(runner)
              \/ Dead(runner.st)
           THEN "failed"
           ELSE IF runner.st = "busy" /\ st \in {"queued", "provisioning", "assigned"}
                THEN "running"
                ELSE IF runner.st = "ready" /\ st \in {"queued", "provisioning"}
                     THEN "assigned" ELSE st

(* The runner of a terminal job: the one its lease names, or any that carries *)
(* the job's ID.                                                               *)
RunnersOfJob(p, j) ==
  IF Absent(p.leases[j])
  THEN {r \in Runners : ~Absent(p.runners[r]) /\ p.runners[r].job = j}
  ELSE {r \in {p.leases[j].runner} : ~Absent(p.runners[r])}

(* The identities a phase visits. *)
Todo(p, phase) ==
  CASE phase = "status" ->
         {r \in Runners : ~Absent(p.runners[r]) /\ p.runners[r].st # "terminated"}
    [] phase = "leases" ->
         {j \in Jobs : ~Absent(p.leases[j]) /\ LeaseTarget(p, j) # p.leases[j].st}
    [] phase = "jobs" -> {j \in Jobs : ~Absent(p.jobs[j])}
    [] phase = "orphans" ->
         {r \in Runners : /\ ~Absent(p.runners[r]) /\ p.runners[r].st # "terminated"
                          /\ Absent(p.jobs[p.runners[r].job])}
    [] phase = "reap" ->
         {r \in Runners : /\ ~Absent(p.runners[r]) /\ p.runners[r].st # "terminated"
                          /\ p.runners[r].job \in p.now}

(* Phases in the code's order; one with nothing to visit is passed over, and *)
(* the pass ends after the last.                                             *)
Begin(p, phase) == [p EXCEPT !.pc = phase, !.in = phase, !.todo = Todo(p, phase)]

EnterReap(p) == IF Todo(p, "reap") = {} THEN IdlePass ELSE Begin(p, "reap")
EnterOrphans(p) == IF Todo(p, "orphans") = {} THEN EnterReap(p) ELSE Begin(p, "orphans")
EnterJobs(p) == IF Todo(p, "jobs") = {} THEN EnterOrphans(p) ELSE Begin(p, "jobs")
EnterLeases(p) == IF Todo(p, "leases") = {} THEN EnterJobs(p) ELSE Begin(p, "leases")
EnterStatus(p) == IF Todo(p, "status") = {} THEN EnterLeases(p) ELSE Begin(p, "status")

NextPhase(p) ==
  CASE p.in = "status" -> EnterLeases(p)
    [] p.in = "leases" -> EnterJobs(p)
    [] p.in = "jobs" -> EnterOrphans(p)
    [] p.in = "orphans" -> EnterReap(p)
    [] OTHER -> IdlePass

(* Done with x: the next one of the phase, or the next phase. *)
Visited(p, x) ==
  LET rest == [p EXCEPT !.pc = p.in, !.todo = @ \ {x},
                        !.cur = NoRunner, !.copy = NoRunnerRecord, !.to = "none"]
  IN  IF rest.todo # {} THEN rest ELSE NextPhase(rest)

In(phase) == pass.pc = phase

-----------------------------------------------------------------------------
(* Mutant: a pass without a clock. *)
ListJobsNoClock ==
  /\ In("idle")
  /\ pass' = [IdlePass EXCEPT !.pc = "listRunners", !.jobs = jobs]
  /\ UNCHANGED shared

(* The ticker fires: now is fixed, and the jobs are listed. *)
ListJobs ==
  /\ In("idle")
  /\ pass' = [IdlePass EXCEPT !.pc = "listRunners", !.now = expired, !.jobs = jobs]
  /\ UNCHANGED shared

ListRunners ==
  /\ In("listRunners")
  /\ pass' = [pass EXCEPT !.pc = "listLeases", !.runners = runners]
  /\ UNCHANGED shared

ListLeases ==
  /\ In("listLeases")
  /\ pass' = EnterStatus([pass EXCEPT !.leases = leases])
  /\ UNCHANGED shared

(* A list call fails: the pass is given up. *)
ListFails ==
  /\ pass.pc \in {"listRunners", "listLeases"}
  /\ Fault("storage")
  /\ pass' = IdlePass
  /\ UNCHANGED <<store, instances, used, expired>>

-----------------------------------------------------------------------------
(* Provider truth. *)

ReadStatus(r) ==
  /\ In("status") /\ r \in pass.todo
  /\ pass' = IF ProviderState(r) = pass.runners[r].st
             THEN Visited(pass, r)
             ELSE [pass EXCEPT !.pc = "save", !.cur = r, !.to = ProviderState(r)]
  /\ UNCHANGED shared

StatusFails(r) ==
  /\ In("status") /\ r \in pass.todo
  /\ Fault("provider")
  /\ pass' = Visited(pass, r)
  /\ UNCHANGED <<store, instances, used, expired>>

SaveStatus ==
  LET r == pass.cur
      saved == Advanced(pass.runners[r], pass.to)
  IN  /\ In("save")
      /\ IF CanSave(runners, r, pass.runners[r].rev)
         THEN /\ runners' = [runners EXCEPT ![r] = saved]
              /\ pass' = Visited([pass EXCEPT !.runners[r] = saved], r)
         ELSE /\ UNCHANGED runners
              /\ pass' = Visited(pass, r)
      /\ UNCHANGED <<jobs, leases, markers, registration, instances, used, expired, faults>>

-----------------------------------------------------------------------------
RepairLease(j) ==
  LET saved == Advanced(pass.leases[j], LeaseTarget(pass, j))
  IN  /\ In("leases") /\ j \in pass.todo
      /\ IF CanSave(leases, j, pass.leases[j].rev)
         THEN /\ leases' = [leases EXCEPT ![j] = saved]
              /\ pass' = Visited([pass EXCEPT !.leases[j] = saved], j)
         ELSE /\ UNCHANGED leases
              /\ pass' = Visited(pass, j)
      /\ UNCHANGED <<jobs, runners, markers, registration, instances, used, expired, faults>>

-----------------------------------------------------------------------------
(* SaveJob of the copy of j in state st, and the copies after it. *)
JobSaved(j) == CanSave(jobs, j, pass.jobs[j].rev)
JobWrite(j, st) ==
  IF JobSaved(j) THEN [jobs EXCEPT ![j] = Advanced(pass.jobs[j], st)] ELSE jobs
CopyWrite(j, st) ==
  IF JobSaved(j) THEN [pass EXCEPT !.jobs[j] = Advanced(pass.jobs[j], st)] ELSE pass

(* An expired job fails, and is cleaned up as a terminal job right away. *)
ExpireJob(j) ==
  /\ In("jobs") /\ j \in pass.todo
  /\ ~Terminal(pass.jobs[j].st) /\ j \in pass.now
  /\ jobs' = JobWrite(j, "failed")
  /\ pass' = IF JobSaved(j) THEN CopyWrite(j, "failed") ELSE Visited(pass, j)
  /\ UNCHANGED <<runners, leases, markers, registration, instances, used, expired, faults>>

RepairJob(j) ==
  /\ In("jobs") /\ j \in pass.todo
  /\ ~Terminal(pass.jobs[j].st) /\ j \notin pass.now
  /\ IF JobTarget(pass, j) = pass.jobs[j].st
     THEN UNCHANGED jobs /\ pass' = Visited(pass, j)
     ELSE /\ jobs' = JobWrite(j, JobTarget(pass, j))
          /\ pass' = Visited(CopyWrite(j, JobTarget(pass, j)), j)
  /\ UNCHANGED <<runners, leases, markers, registration, instances, used, expired, faults>>

(* Mutant: a runner already terminating is not terminated again. *)
BeginTerminationOnce(p, r) ==
  [p EXCEPT !.pc = IF p.runners[r].st = "terminating" THEN "saved" ELSE "mark",
            !.cur = r, !.copy = p.runners[r]]

(* terminateRunner and the reaper's loop body begin with the copy of r: a   *)
(* record not yet terminating is marked so before the provider is called.    *)
BeginTermination(p, r) ==
  [p EXCEPT !.pc = IF p.runners[r].st = "terminating" THEN "terminate" ELSE "mark",
            !.cur = r, !.copy = p.runners[r]]

(* A terminal job must not retain a live runner. *)
CleanTerminalJob(j) ==
  /\ In("jobs") /\ j \in pass.todo
  /\ Terminal(pass.jobs[j].st)
  /\ LET candidates == RunnersOfJob(pass, j)
     IN  \/ candidates = {} /\ pass' = Visited(pass, j)
         \/ \E r \in candidates :
              pass' = IF pass.runners[r].st = "terminated"
                      THEN Visited(pass, j)
                      ELSE BeginTermination([pass EXCEPT !.todo = @ \ {j}], r)
  /\ UNCHANGED shared

CleanOrphan(r) ==
  /\ In("orphans") /\ r \in pass.todo
  /\ pass' = BeginTermination(pass, r)
  /\ UNCHANGED shared

ReapExpired(r) ==
  /\ In("reap") /\ r \in pass.todo
  /\ pass' = BeginTermination(pass, r)
  /\ UNCHANGED shared

-----------------------------------------------------------------------------
(* Mark terminating, terminate, mark terminated. *)

(* Mutant: the runner is marked, and never terminated. *)
MarkTerminatingOnly ==
  LET r == pass.cur
      saved == Advanced(pass.copy, "terminating")
  IN  /\ In("mark")
      /\ IF CanSave(runners, r, pass.copy.rev)
         THEN /\ runners' = [runners EXCEPT ![r] = saved]
              /\ pass' = [pass EXCEPT !.pc = "saved", !.copy = saved]
         ELSE UNCHANGED runners /\ pass' = Visited(pass, r)
      /\ UNCHANGED <<jobs, leases, markers, registration, instances, used, expired, faults>>

MarkTerminating ==
  LET r == pass.cur
      saved == Advanced(pass.copy, "terminating")
  IN  /\ In("mark")
      /\ IF CanSave(runners, r, pass.copy.rev)
         THEN /\ runners' = [runners EXCEPT ![r] = saved]
              /\ pass' = [pass EXCEPT !.pc = "terminate", !.copy = saved]
         ELSE /\ UNCHANGED runners
              /\ pass' = Visited(pass, r)
      /\ UNCHANGED <<jobs, leases, markers, registration, instances, used, expired, faults>>

Terminate ==
  /\ In("terminate")
  /\ TerminateInstance(pass.cur)
  /\ pass' = [pass EXCEPT !.pc = "saved"]
  /\ UNCHANGED <<store, used, expired, faults>>

MarkTerminated ==
  LET r == pass.cur
      saved == Advanced(pass.copy, "terminated")
  IN  /\ In("saved")
      /\ IF CanSave(runners, r, pass.copy.rev)
         THEN /\ runners' = [runners EXCEPT ![r] = saved]
              /\ pass' = Visited([pass EXCEPT !.runners[r] = saved], r)
         ELSE /\ UNCHANGED runners
              /\ pass' = Visited(pass, r)
      /\ UNCHANGED <<jobs, leases, markers, registration, instances, used, expired, faults>>

(* A call on one record fails: the pass goes on with the next. *)
RecordCallFails ==
  /\ pass.pc \in {"save", "mark", "terminate", "saved"}
  /\ Fault(IF In("terminate") THEN "provider" ELSE "storage")
  /\ pass' = Visited(pass, pass.cur)
  /\ UNCHANGED <<store, instances, used, expired>>

RepairFails(j) ==
  /\ pass.pc \in {"leases", "jobs"} /\ j \in pass.todo
  /\ In("jobs") => /\ ~Terminal(pass.jobs[j].st)
                   /\ j \in pass.now \/ JobTarget(pass, j) # pass.jobs[j].st
  /\ Fault("storage")
  /\ pass' = Visited(pass, j)
  /\ UNCHANGED <<store, instances, used, expired>>

-----------------------------------------------------------------------------
PassProgress ==
  \/ ListJobs \/ ListRunners \/ ListLeases
  \/ (\E r \in Runners : ReadStatus(r)) \/ SaveStatus
  \/ (\E j \in Jobs : RepairLease(j) \/ ExpireJob(j) \/ RepairJob(j) \/ CleanTerminalJob(j))
  \/ (\E r \in Runners : CleanOrphan(r) \/ ReapExpired(r))
  \/ MarkTerminating \/ Terminate \/ MarkTerminated

PassFailure ==
  \/ ListFails \/ RecordCallFails
  \/ (\E r \in Runners : StatusFails(r))
  \/ (\E j \in Jobs : RepairFails(j))

PassStep == PassProgress \/ PassFailure
=============================================================================

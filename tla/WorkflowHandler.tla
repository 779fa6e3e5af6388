-------------------------- MODULE WorkflowHandler --------------------------
(***************************************************************************)
(* The webhook path: controller.Service.HandleWorkflowJob and finish, the  *)
(* assignment service runners.Service.Assign they call (or, without GitHub *)
(* App credentials, scheduler.Scheduler.Schedule), and the in-memory       *)
(* capacity pool.  One handler is one HTTP request; its steps are the      *)
(* repository, provider and GitHub calls it makes, in the code's order,    *)
(* and any number of handlers interleave.                                  *)
(***************************************************************************)
EXTENDS PlatformState

CONSTANTS
  Handlers,      \* HTTP requests in flight at a time
  MaxReceipts,   \* bound: requests received
  MaxAborts,     \* bound: requests whose client goes away
  JIT            \* TRUE: Assignment service configured; FALSE: Scheduler.Schedule

ASSUME HandlerAssumption ==
  /\ MaxReceipts \in Nat
  /\ MaxAborts \in Nat
  /\ JIT \in BOOLEAN

VARIABLES
  handler,       \* [Handlers -> the request's program counter and local copies]
  receipts,      \* requests received so far
  reply,         \* [Deliveries -> the reply to the latest request that ended]
  aborts         \* requests whose client has gone away so far

handlerVars == <<handler, receipts, reply, aborts>>

(* Program counters, in the order of the code. *)
Intake == {"insert", "createJob", "getJob", "toProvisioning", "reserve"}
Assigning == {"provision", "waitReady", "createRunner", "getRunner", "regPending",
              "waitReg", "regFailed", "saveReady", "regReady"}
Cleanup == {"clGet", "clMark", "clTerminate", "clTerminated"}
Ending == {"createLease", "dropRunner", "toAssigned", "releasePool", "failJob", "undo"}
Running == {"getRunning", "toRunning"}
Finishing == {"getFinal", "toFinal", "getLease", "finalRunner", "terminate",
              "release", "saveRunner", "saveLease"}
PCs == {"idle"} \cup Intake \cup Assigning \cup Cleanup \cup Ending \cup Running \cup Finishing

(* 202 for work that is done, 202 for a duplicate, 500. *)
Replies == {"none", "ok", "duplicate", "error"}

Idle == [pc |-> "idle", dlv |-> "none", at |-> 0, alive |-> TRUE,
         job |-> NoJob, r |-> NoRunner, rrev |-> 0, lrev |-> 0, saved |-> FALSE]

Requests ==
  [pc : PCs, dlv : Deliveries \cup {"none"}, at : Instants \cup {0}, alive : BOOLEAN,
   job : JobRecords, r : Runners \cup {NoRunner}, rrev : Nat, lrev : Nat, saved : BOOLEAN]

(* A request works on a delivery; from Provision or GetLease on it has a runner. *)
RunnerPCs == (Assigning \ {"provision"}) \cup Cleanup
             \cup {"createLease", "dropRunner", "finalRunner", "terminate", "release",
                   "saveRunner", "saveLease"}

HandlerTypeOK ==
  /\ handler \in [Handlers -> Requests]
  /\ receipts \in 0 .. MaxReceipts
  /\ reply \in [Deliveries -> Replies]
  /\ aborts \in 0 .. MaxAborts
  /\ \A h \in Handlers : handler[h].pc # "idle" => handler[h].dlv \in Deliveries
  /\ \A h \in Handlers : handler[h].pc \in RunnerPCs => handler[h].r \in Runners

HandlerInit ==
  /\ handler = [h \in Handlers |-> Idle]
  /\ receipts = 0
  /\ reply = [d \in Deliveries |-> "none"]
  /\ aborts = 0

-----------------------------------------------------------------------------
JobFor(h) == JobOf[handler[h].dlv]
ActionFor(h) == ActionOf[handler[h].dlv]

(* The final state finish() is asked for. *)
FinalState(action) ==
  CASE action = "success" -> "completed"
    [] action = "failure" -> "failed"
    [] OTHER -> "cancelled"

(* lifecycle.validTransition *)
ValidTransition(from, to) ==
  \/ from = to
  \/ from = "queued" /\ to \in {"provisioning", "cancelled", "completed", "failed"}
  \/ from = "provisioning" /\ to \in {"assigned", "failed", "cancelled", "completed"}
  \/ from = "assigned" /\ to \in {"running", "failed", "cancelled", "completed"}
  \/ from = "running" /\ to \in {"completed", "failed", "cancelled"}

At(h, pc) == handler[h].pc = pc

(* A call made with the request's context: it can succeed while that is live. *)
InContext(h, pc) == At(h, pc) /\ handler[h].alive

Goto(h, pc) == handler' = [handler EXCEPT ![h].pc = pc]

(* The handler returns and the server answers: 202 for nil, 500 for an error. *)
Return(h, answer) ==
  /\ handler' = [handler EXCEPT ![h] = Idle]
  /\ reply' = [reply EXCEPT ![handler[h].dlv] = answer]

-----------------------------------------------------------------------------
(* A delivery (or a redelivery of it) arrives. *)
Receive(h, d, at) ==
  /\ At(h, "idle")
  /\ receipts < MaxReceipts
  /\ handler' = [handler EXCEPT ![h] = [Idle EXCEPT !.pc = "insert", !.dlv = d, !.at = at]]
  /\ receipts' = receipts + 1
  /\ UNCHANGED <<reply, aborts, shared>>

(* The client closes the connection: the request's context is cancelled. *)
ClientGone(h) ==
  /\ ~At(h, "idle")
  /\ handler[h].alive
  /\ aborts < MaxAborts
  /\ handler' = [handler EXCEPT ![h].alive = FALSE]
  /\ aborts' = aborts + 1
  /\ UNCHANGED <<receipts, reply, shared>>

FirstCall(action) ==
  CASE action = "queued" -> "createJob"
    [] action = "in_progress" -> "getRunning"
    [] OTHER -> "getFinal"

(* InsertLifecycleEvent: a new marker starts the work; the same event is a  *)
(* duplicate and ends it; the same key with another OccurredAt is a conflict. *)
InsertNew(h) ==
  /\ InContext(h, "insert")
  /\ markers[handler[h].dlv] = 0
  /\ markers' = [markers EXCEPT ![handler[h].dlv] = handler[h].at]
  /\ Goto(h, FirstCall(ActionFor(h)))
  /\ UNCHANGED <<jobs, runners, leases, registration, instances, used, expired, faults,
                 receipts, reply, aborts>>

InsertDuplicate(h) ==
  /\ InContext(h, "insert")
  /\ markers[handler[h].dlv] # 0
  /\ Return(h, IF markers[handler[h].dlv] = handler[h].at THEN "duplicate" ELSE "error")
  /\ UNCHANGED <<receipts, aborts, shared>>

-----------------------------------------------------------------------------
(* Queued: the job record. *)

(* Mutant: a job that is already recorded is provisioned again. *)
CreateJobAgain(h) ==
  /\ InContext(h, "createJob")
  /\ jobs' = IF Absent(jobs[JobFor(h)])
             THEN [jobs EXCEPT ![JobFor(h)] = [st |-> "queued", rev |-> 1]] ELSE jobs
  /\ Goto(h, "getJob")
  /\ UNCHANGED <<runners, leases, markers, registration, instances, used, expired, faults,
                 receipts, reply, aborts>>

(* CreateJob: a job that is already recorded ends the request with success. *)
CreateJob(h) ==
  /\ InContext(h, "createJob")
  /\ IF Absent(jobs[JobFor(h)])
     THEN /\ jobs' = [jobs EXCEPT ![JobFor(h)] = [st |-> "queued", rev |-> 1]]
          /\ Goto(h, "getJob")
          /\ UNCHANGED reply
     ELSE Return(h, "ok") /\ UNCHANGED jobs
  /\ UNCHANGED <<runners, leases, markers, registration, instances, used, expired, faults,
                 receipts, aborts>>

(* GetJob: the handler's copy; a missing record is ErrNotFound. *)
ReadJob(h, pc, next) ==
  /\ InContext(h, pc)
  /\ handler' = IF Absent(jobs[JobFor(h)])
                THEN [handler EXCEPT ![h].pc = "undo"]
                ELSE [handler EXCEPT ![h].pc = next, ![h].job = jobs[JobFor(h)]]
  /\ UNCHANGED <<receipts, reply, aborts, shared>>

GetJob(h) == ReadJob(h, "getJob", "toProvisioning")

(* Manager.Transition: refused by the table, or by a revision that moved on. *)
Transition(h, to, next) ==
  LET copy == handler[h].job
  IN  IF ValidTransition(copy.st, to) /\ CanSave(jobs, JobFor(h), copy.rev)
      THEN /\ jobs' = [jobs EXCEPT ![JobFor(h)] = Advanced(copy, to)]
           /\ handler' = [handler EXCEPT ![h].pc = next, ![h].job = Advanced(copy, to)]
      ELSE /\ UNCHANGED jobs
           /\ Goto(h, "undo")

ToProvisioning(h) ==
  /\ InContext(h, "toProvisioning")
  /\ Transition(h, "provisioning", "reserve")
  /\ UNCHANGED <<runners, leases, markers, registration, instances, used, expired, faults,
                 receipts, reply, aborts>>

(* Scheduler.Reserve (the reservation in Schedule is the same). *)
Reserve(h) ==
  /\ At(h, "reserve")
  /\ IF used < MaxRunners
     THEN used' = used + 1 /\ Goto(h, "provision")
     ELSE UNCHANGED used /\ Goto(h, "failJob")
  /\ UNCHANGED <<store, instances, expired, faults, receipts, reply, aborts>>

-----------------------------------------------------------------------------
(* Queued: the assignment. *)

(* GenerateJITConfig and Provision: a new instance, which only this handler  *)
(* knows until its record is created.                                        *)
Provision(h, r) ==
  /\ InContext(h, "provision")
  /\ instances[r].st = "none"
  /\ instances' = [instances EXCEPT ![r] = [st |-> "provisioning", job |-> JobFor(h)]]
  /\ handler' = [handler EXCEPT ![h].pc = "waitReady", ![h].r = r]
  /\ UNCHANGED <<store, used, expired, faults, receipts, reply, aborts>>

(* WaitReady: the instance comes up, or turns out to have ended. *)
WaitReady(h) ==
  /\ InContext(h, "waitReady")
  /\ LET r == handler[h].r
     IN  IF instances[r].st = "provisioning"
         THEN instances' = [instances EXCEPT ![r].st = "ready"] /\ Goto(h, "createRunner")
         ELSE UNCHANGED instances /\ Goto(h, "clTerminate")
  /\ UNCHANGED <<store, used, expired, faults, receipts, reply, aborts>>

(* CreateRunner: Assign records a provisioning runner, Schedule a ready one. *)
CreateRunner(h) ==
  /\ InContext(h, "createRunner")
  /\ runners' = [runners EXCEPT ![handler[h].r] =
                   [st |-> IF JIT THEN "provisioning" ELSE "ready", job |-> JobFor(h), rev |-> 1]]
  /\ handler' = [handler EXCEPT ![h].pc = IF JIT THEN "getRunner" ELSE "createLease",
                                ![h].saved = TRUE]
  /\ UNCHANGED <<jobs, leases, markers, registration, instances, used, expired, faults,
                 receipts, reply, aborts>>

ReadRunner(h, pc, next) ==
  /\ At(h, pc)
  /\ handler' = [handler EXCEPT ![h].pc = next, ![h].rrev = runners[handler[h].r].rev]
  /\ UNCHANGED <<receipts, reply, aborts, shared>>

GetRunner(h) == handler[h].alive /\ ReadRunner(h, "getRunner", "regPending")

(* persistRegistration: one event per runner and registration state. *)
Register(h, st, next) ==
  /\ registration' = [registration EXCEPT ![handler[h].r] = @ \cup {st}]
  /\ Goto(h, next)
  /\ UNCHANGED <<jobs, runners, leases, markers, instances, used, expired, faults,
                 receipts, reply, aborts>>


(* Mutant: the job is assigned without a lease. *)
RegisterReadyNoLease(h) == InContext(h, "regReady") /\ Register(h, "ready", "toAssigned")

RegisterPending(h) == InContext(h, "regPending") /\ Register(h, "pending", "waitReg")
RegisterFailed(h) == At(h, "regFailed") /\ Register(h, "failed", "clGet")
RegisterReady(h) == InContext(h, "regReady") /\ Register(h, "ready", "createLease")

(* WaitForRegistration: GitHub sees the expected runner online. *)
RunnerOnline(h) ==
  /\ InContext(h, "waitReg")
  /\ Goto(h, "saveReady")
  /\ UNCHANGED <<receipts, reply, aborts, shared>>

(* ... or the poll times out because the instance is not running. *)
RegistrationTimesOut(h) ==
  /\ InContext(h, "waitReg")
  /\ instances[handler[h].r].st # "ready"
  /\ Goto(h, "regFailed")
  /\ UNCHANGED <<receipts, reply, aborts, shared>>

(* SaveRunner with the handler's revision: saved, or a revision conflict. *)
WriteRunner(h, st, next, conflict) ==
  LET r == handler[h].r
  IN  IF CanSave(runners, r, handler[h].rrev)
      THEN /\ runners' = [runners EXCEPT ![r] = Advanced(@, st)]
           /\ handler' = [handler EXCEPT ![h].pc = next, ![h].rrev = @ + 1]
      ELSE /\ UNCHANGED runners
           /\ Goto(h, conflict)

SaveReady(h) ==
  /\ InContext(h, "saveReady")
  /\ WriteRunner(h, "ready", "regReady", "clGet")
  /\ UNCHANGED <<jobs, leases, markers, registration, instances, used, expired, faults,
                 receipts, reply, aborts>>

-----------------------------------------------------------------------------
(* Assign's cleanup closure, on a context of its own. *)

CleanupGet(h) == ReadRunner(h, "clGet", "clMark")

CleanupMark(h) ==
  /\ At(h, "clMark")
  /\ WriteRunner(h, "terminating", "clTerminate", "releasePool")
  /\ UNCHANGED <<jobs, leases, markers, registration, instances, used, expired, faults,
                 receipts, reply, aborts>>

CleanupTerminate(h) ==
  /\ At(h, "clTerminate")
  /\ TerminateInstance(handler[h].r)
  /\ Goto(h, IF handler[h].saved THEN "clTerminated" ELSE "releasePool")
  /\ UNCHANGED <<store, used, expired, faults, receipts, reply, aborts>>

CleanupTerminated(h) ==
  /\ At(h, "clTerminated")
  /\ WriteRunner(h, "terminated", "releasePool", "releasePool")
  /\ UNCHANGED <<jobs, leases, markers, registration, instances, used, expired, faults,
                 receipts, reply, aborts>>

(* Mutant: the reservation of a failed assignment is kept. *)
KeepReservation(h) ==
  /\ At(h, "releasePool")
  /\ Goto(h, "failJob")
  /\ UNCHANGED <<shared, receipts, reply, aborts>>

(* The reservation of a failed assignment is returned, ... *)
ReleaseReservation(h) ==
  /\ At(h, "releasePool")
  /\ ReleasePool
  /\ Goto(h, "failJob")
  /\ UNCHANGED <<store, instances, expired, faults, receipts, reply, aborts>>

(* ... its job saved as failed, any error of that ignored, ... *)
FailJob(h) ==
  /\ At(h, "failJob")
  /\ jobs' = IF handler[h].alive /\ CanSave(jobs, JobFor(h), handler[h].job.rev)
             THEN [jobs EXCEPT ![JobFor(h)] = Advanced(handler[h].job, "failed")]
             ELSE jobs
  /\ Goto(h, "undo")
  /\ UNCHANGED <<runners, leases, markers, registration, instances, used, expired, faults,
                 receipts, reply, aborts>>

(* ... and the marker of any request that fails deleted, so that a          *)
(* redelivery is processed again.                                            *)
Undo(h) ==
  /\ At(h, "undo")
  /\ markers' = [markers EXCEPT ![handler[h].dlv] = 0]
  /\ Return(h, "error")
  /\ UNCHANGED <<jobs, runners, leases, registration, instances, used, expired, faults,
                 receipts, aborts>>

-----------------------------------------------------------------------------
(* Queued: the lease. *)

CreateLease(h) ==
  /\ InContext(h, "createLease")
  /\ IF Absent(leases[JobFor(h)])
     THEN /\ leases' = [leases EXCEPT ![JobFor(h)] =
                          [st |-> "active", runner |-> handler[h].r, rev |-> 1]]
          /\ Goto(h, "toAssigned")
     ELSE UNCHANGED leases /\ Goto(h, "dropRunner")
  /\ UNCHANGED <<jobs, runners, markers, registration, instances, used, expired, faults,
                 receipts, reply, aborts>>

(* A lease that cannot be recorded: terminate the instance and give up. *)
DropRunner(h) ==
  /\ At(h, "dropRunner")
  /\ IF handler[h].alive THEN TerminateInstance(handler[h].r) ELSE UNCHANGED instances
  /\ Goto(h, "undo")
  /\ UNCHANGED <<store, used, expired, faults, receipts, reply, aborts>>

ToAssigned(h) ==
  LET copy == handler[h].job
  IN  /\ InContext(h, "toAssigned")
      /\ IF ValidTransition(copy.st, "assigned") /\ CanSave(jobs, JobFor(h), copy.rev)
         THEN /\ jobs' = [jobs EXCEPT ![JobFor(h)] = Advanced(copy, "assigned")]
              /\ Return(h, "ok")
         ELSE UNCHANGED <<jobs, reply>> /\ Goto(h, "undo")
      /\ UNCHANGED <<runners, leases, markers, registration, instances, used, expired, faults,
                     receipts, aborts>>

-----------------------------------------------------------------------------
(* In progress. *)

GetRunning(h) == ReadJob(h, "getRunning", "toRunning")

ToRunning(h) ==
  LET copy == handler[h].job
  IN  /\ InContext(h, "toRunning")
      /\ IF ValidTransition(copy.st, "running") /\ CanSave(jobs, JobFor(h), copy.rev)
         THEN /\ jobs' = [jobs EXCEPT ![JobFor(h)] = Advanced(copy, "running")]
              /\ Return(h, "ok")
         ELSE UNCHANGED <<jobs, reply>> /\ Goto(h, "undo")
      /\ UNCHANGED <<runners, leases, markers, registration, instances, used, expired, faults,
                     receipts, aborts>>

-----------------------------------------------------------------------------
(* Completed and cancelled: Service.finish. *)

GetFinal(h) == ReadJob(h, "getFinal", "toFinal")

(* The job's final state, unless it is in that state already. *)
ToFinal(h) ==
  LET final == FinalState(ActionFor(h))
  IN  /\ At(h, "toFinal")
      /\ IF handler[h].job.st = final
         THEN UNCHANGED jobs /\ Goto(h, "getLease")
         ELSE handler[h].alive /\ Transition(h, final, "getLease")
      /\ UNCHANGED <<runners, leases, markers, registration, instances, used, expired, faults,
                     receipts, reply, aborts>>

GetLease(h) ==
  /\ InContext(h, "getLease")
  /\ LET lease == leases[JobFor(h)]
     IN  handler' = IF Absent(lease)
                    THEN [handler EXCEPT ![h].pc = "undo"]
                    ELSE [handler EXCEPT ![h].pc = "finalRunner", ![h].r = lease.runner,
                                         ![h].lrev = lease.rev]
  /\ UNCHANGED <<receipts, reply, aborts, shared>>

FinalRunner(h) == handler[h].alive /\ ReadRunner(h, "finalRunner", "terminate")

TerminateRunner(h) ==
  /\ InContext(h, "terminate")
  /\ TerminateInstance(handler[h].r)
  /\ Goto(h, "release")
  /\ UNCHANGED <<store, used, expired, faults, receipts, reply, aborts>>

(* Scheduler.Release: the runner's capacity goes back to the pool. *)
ReleaseCapacity(h) ==
  /\ At(h, "release")
  /\ ReleasePool
  /\ Goto(h, "saveRunner")
  /\ UNCHANGED <<store, instances, expired, faults, receipts, reply, aborts>>

SaveTerminated(h) ==
  /\ InContext(h, "saveRunner")
  /\ WriteRunner(h, "terminated", "saveLease", "undo")
  /\ UNCHANGED <<jobs, leases, markers, registration, instances, used, expired, faults,
                 receipts, reply, aborts>>

SaveLease(h) ==
  /\ InContext(h, "saveLease")
  /\ IF CanSave(leases, JobFor(h), handler[h].lrev)
     THEN /\ leases' = [leases EXCEPT ![JobFor(h)] = Advanced(@, "terminated")]
          /\ Return(h, "ok")
     ELSE UNCHANGED <<leases, reply>> /\ Goto(h, "undo")
  /\ UNCHANGED <<jobs, runners, markers, registration, instances, used, expired, faults,
                 receipts, aborts>>

-----------------------------------------------------------------------------
(* Failing calls. *)

(* Where a failing call takes the handler: calls on the request's context,  *)
(* which also fail once the client is gone, ...                              *)
RepositoryErrorPC(pc) ==
  CASE pc \in Intake \cup Running \cup Finishing \cup {"toAssigned"} -> "undo"
    [] pc = "createRunner" -> "clTerminate"
    [] pc \in {"getRunner", "regPending", "saveReady", "regReady"} -> "clGet"
    [] pc = "createLease" -> "dropRunner"

(* Mutants: an error is ignored, or retried for ever. *)
RunnerSaveIgnored(pc) == IF pc = "saveRunner" THEN "saveLease" ELSE RepositoryErrorPC(pc)
RegistrationIgnored(pc) == IF pc = "regReady" THEN "createLease" ELSE RepositoryErrorPC(pc)
TransitionRetried(pc) == IF pc = "toProvisioning" THEN pc ELSE RepositoryErrorPC(pc)

RepositoryError(pc) == RepositoryErrorPC(pc)

RepositoryCalls ==
  {"createJob", "getJob", "toProvisioning", "createRunner", "getRunner", "regPending",
   "saveReady", "regReady", "createLease", "toAssigned", "getRunning", "toRunning",
   "getFinal", "toFinal", "getLease", "finalRunner", "saveRunner", "saveLease"}

ProviderError(pc) ==
  CASE pc = "provision" -> "releasePool"
    [] pc = "waitReady" -> "clTerminate"
    [] pc = "waitReg" -> "regFailed"
    [] pc = "terminate" -> "undo"

ProviderCalls == {"provision", "waitReady", "waitReg", "terminate"}

(* ... and calls on a background context: errors there end the cleanup early. *)
(* Between Terminate and the last save the GitHub runner is removed, which    *)
(* can fail as well.                                                          *)
CleanupFaults(pc) ==
  CASE pc = "clTerminate" -> {"provider"}
    [] pc = "clTerminated" -> {"provider", "storage"}
    [] OTHER -> {"storage"}

CleanupError(pc) ==
  CASE pc = "regFailed" -> "clGet"
    [] pc \in {"clGet", "clMark", "clTerminate", "clTerminated"} -> "releasePool"

RepositoryCallFails(h) ==
  /\ handler[h].pc \in RepositoryCalls
  /\ ~(At(h, "toFinal") /\ handler[h].job.st = FinalState(ActionFor(h)))
  /\ IF handler[h].alive THEN Fault("storage") ELSE UNCHANGED faults
  /\ Goto(h, RepositoryError(handler[h].pc))
  /\ UNCHANGED <<store, instances, used, expired, receipts, reply, aborts>>

ProviderCallFails(h) ==
  /\ handler[h].pc \in ProviderCalls
  /\ IF handler[h].alive THEN Fault("provider") ELSE UNCHANGED faults
  /\ Goto(h, ProviderError(handler[h].pc))
  /\ UNCHANGED <<store, instances, used, expired, receipts, reply, aborts>>

CleanupCallFails(h) ==
  /\ handler[h].pc \in Cleanup \cup {"regFailed"}
  /\ \E kind \in CleanupFaults(handler[h].pc) : Fault(kind)
  /\ Goto(h, CleanupError(handler[h].pc))
  /\ UNCHANGED <<store, instances, used, expired, receipts, reply, aborts>>

(* The first call fails before anything was recorded. *)
InsertFails(h) ==
  /\ At(h, "insert")
  /\ IF handler[h].alive THEN Fault("storage") ELSE UNCHANGED faults
  /\ Return(h, "error")
  /\ UNCHANGED <<store, instances, used, expired, receipts, aborts>>

(* Calls whose errors the code ignores: saving the failed job, terminating   *)
(* an unleased runner, deleting the marker.                                  *)
IgnoredCallFails(h) ==
  /\ \/ At(h, "failJob") /\ Fault("storage") /\ Goto(h, "undo") /\ UNCHANGED reply
     \/ At(h, "dropRunner") /\ Fault("provider") /\ Goto(h, "undo") /\ UNCHANGED reply
     \/ At(h, "undo") /\ Fault("storage") /\ Return(h, "error")
  /\ UNCHANGED <<store, instances, used, expired, receipts, aborts>>

-----------------------------------------------------------------------------
(* Steps a goroutine takes by itself, as opposed to what befalls it. *)
HandlerProgress(h) ==
  \/ InsertNew(h) \/ InsertDuplicate(h) \/ CreateJob(h) \/ GetJob(h) \/ ToProvisioning(h)
  \/ Reserve(h) \/ (\E r \in Runners : Provision(h, r)) \/ WaitReady(h) \/ CreateRunner(h)
  \/ GetRunner(h) \/ RegisterPending(h) \/ RunnerOnline(h) \/ RegistrationTimesOut(h)
  \/ RegisterFailed(h) \/ SaveReady(h) \/ RegisterReady(h)
  \/ CleanupGet(h) \/ CleanupMark(h) \/ CleanupTerminate(h) \/ CleanupTerminated(h)
  \/ ReleaseReservation(h) \/ FailJob(h) \/ Undo(h)
  \/ CreateLease(h) \/ DropRunner(h) \/ ToAssigned(h)
  \/ GetRunning(h) \/ ToRunning(h)
  \/ GetFinal(h) \/ ToFinal(h) \/ GetLease(h) \/ FinalRunner(h) \/ TerminateRunner(h)
  \/ ReleaseCapacity(h) \/ SaveTerminated(h) \/ SaveLease(h)

HandlerFailure(h) ==
  \/ RepositoryCallFails(h) \/ ProviderCallFails(h) \/ CleanupCallFails(h)
  \/ InsertFails(h) \/ IgnoredCallFails(h)

HandlerStep(h) == HandlerProgress(h) \/ HandlerFailure(h)
=============================================================================

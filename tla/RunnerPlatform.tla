--------------------------- MODULE RunnerPlatform ---------------------------
(***************************************************************************)
(* The controller process: webhook requests and the reconciliation loop    *)
(* run concurrently over one durable repository and one cloud provider,    *)
(* and the process may crash and be restarted between any two of their     *)
(* steps.  What it keeps in memory (the requests, the pass, the usage of   *)
(* the capacity pool) is lost then; the repository and the instances stay. *)
(***************************************************************************)
EXTENDS WorkflowHandler, Reconciler

CONSTANT
  Reconciling    \* TRUE: main.go starts the reconciliation loop

ASSUME PlatformAssumption == Reconciling \in BOOLEAN

vars == <<shared, handlerVars, pass>>

TypeOK ==
  /\ StateTypeOK
  /\ HandlerTypeOK
  /\ PassTypeOK

Init ==
  /\ StateInit
  /\ HandlerInit
  /\ PassInit

(* The process dies and a new one starts on the same repository. *)
Crash ==
  /\ Fault("crash")
  /\ handler' = [h \in Handlers |-> Idle]
  /\ pass' = IdlePass
  /\ used' = 0
  /\ UNCHANGED <<store, instances, expired, receipts, reply, aborts>>

Webhook(h) ==
  /\ \/ \E d \in Deliveries, at \in Instants : Receive(h, d, at)
     \/ ClientGone(h)
     \/ HandlerStep(h)
  /\ UNCHANGED pass

Reconcile ==
  /\ Reconciling
  /\ PassStep
  /\ UNCHANGED handlerVars

Environment ==
  /\ \/ \E r \in Runners : TerminationCompletes(r)
     \/ \E r \in Runners, st \in {"failed", "terminated"} : InstanceLost(r, st)
     \/ Reconciling /\ \E j \in Jobs : Expire(j)
  /\ UNCHANGED <<handlerVars, pass>>

Next ==
  \/ \E h \in Handlers : Webhook(h)
  \/ Reconcile
  \/ Environment
  \/ Crash

Spec == Init /\ [][Next]_vars

-----------------------------------------------------------------------------
(* What keeps running: goroutines are scheduled and their calls return      *)
(* (with an error once the client is gone), the ticker fires and a pass is  *)
(* worked off, terminations complete, and time passes.  Nothing is assumed  *)
(* of deliveries, faults, lost instances, departing clients and crashes.    *)

HandlerRuns(h) ==
  /\ HandlerProgress(h) \/ (~handler[h].alive /\ HandlerFailure(h))
  /\ UNCHANGED pass

PassRuns == Reconciling /\ PassProgress /\ UNCHANGED handlerVars

TerminationEnds(r) == TerminationCompletes(r) /\ UNCHANGED <<handlerVars, pass>>

TimePasses(j) == Reconciling /\ Expire(j) /\ UNCHANGED <<handlerVars, pass>>

Fairness ==
  /\ \A h \in Handlers : WF_vars(HandlerRuns(h))
  /\ WF_vars(PassRuns)
  /\ \A r \in Runners : WF_vars(TerminationEnds(r))
  /\ \A j \in Jobs : WF_vars(TimePasses(j))

FairSpec == Spec /\ Fairness

-----------------------------------------------------------------------------
(* Safety. *)

(* A job that has ended keeps its outcome: SaveJob's revision check and      *)
(* validTransition must stop the assignment, the in_progress handler and the *)
(* reconciler from reviving or relabelling a job that finish, failJob or     *)
(* another pass has closed under them.                                       *)
TerminalStable ==
  [][\A j \in Jobs : Terminal(jobs[j].st) => jobs'[j].st = jobs[j].st]_jobs

(* The copies of a job that requests and a pass hold across their calls are  *)
(* never ahead of the repository, and one whose revision is still current is *)
(* the record itself: SaveJob stores the whole copy, so only this keeps a     *)
(* save from writing back what somebody else has changed.  A request that     *)
(* assigns a runner holds the copy it has moved to provisioning, which is     *)
(* what failJob relies on.                                                    *)
IsCopy(copy, record) == copy.rev <= record.rev /\ (copy.rev = record.rev => copy = record)

AssignmentPCs == {"reserve", "releasePool", "failJob"} \cup Assigning \cup Cleanup

CopiesMatchRevisions ==
  /\ \A j \in Jobs : IsCopy(NoJob, jobs[j]) /\ IsCopy(pass.jobs[j], jobs[j])
  /\ \A h \in Handlers : ~At(h, "idle") => IsCopy(handler[h].job, jobs[JobFor(h)])
  /\ \A h \in Handlers : handler[h].pc \in AssignmentPCs => handler[h].job.st = "provisioning"

(* A runner recorded as terminated costs nothing: finish, the cleanup of a   *)
(* failed assignment and the reaper write "terminated" only after the        *)
(* provider accepted the termination, and a pass copies it from the provider.*)
TerminatedRecordMeansReleased ==
  \A r \in Runners : runners[r].st = "terminated" => ~Live(r)

(* Whatever is redelivered, retried after an error or repeated after a       *)
(* restart, a job gets one instance: CreateJob is what decides, the marker   *)
(* is not (it is deleted when the request fails).                            *)
OneInstancePerJob ==
  \A r1, r2 \in Runners :
    instances[r1].job \in Jobs /\ instances[r1].job = instances[r2].job => r1 = r2

(* finish answered without an error only when everything is closed: the job, *)
(* its lease, its runner's record and the instance.  (A pass whose copy of   *)
(* the jobs is older than the job may relabel the closed lease "failed".)    *)
AcknowledgedFinishIsComplete ==
  \A d \in Deliveries :
    reply[d] = "ok" /\ ActionOf[d] \in {"success", "failure", "cancelled"} =>
      /\ Terminal(jobs[JobOf[d]].st)
      /\ leases[JobOf[d]].st \in {"terminated", "failed"}
      /\ runners[leases[JobOf[d]].runner].st = "terminated"
      /\ ~Live(leases[JobOf[d]].runner)

(* A job is assigned or running only with a lease, and every lease names a   *)
(* recorded runner of its own job.  A completed job may be without one: a    *)
(* success delivery records a job that is still queued or provisioning as    *)
(* completed before finish looks for its lease.                              *)
AssignedHasLease ==
  \A j \in Jobs :
    /\ jobs[j].st \in {"assigned", "running"} => ~Absent(leases[j])
    /\ ~Absent(leases[j]) => runners[leases[j].runner].job = j

(* Assign hands a runner to the controller, and so to a lease, only after    *)
(* GitHub has seen it and the registration is recorded as ready.             *)
LeaseOnlyForRegisteredRunner ==
  \A j \in Jobs :
    JIT /\ ~Absent(leases[j]) => "ready" \in registration[leases[j].runner]

(* What the jobs, their leases and the instances are to those outside: every *)
(* call of a request, a pass, the provider and every crash is a step of       *)
(* JobService, or none.                                                       *)
Service ==
  INSTANCE JobService
  WITH stage <- [j \in Jobs |-> jobs[j].st],
       lease <- [j \in Jobs |-> leases[j].runner],
       closed <- {j \in Jobs : leases[j].st \in {"terminated", "failed"}},
       instance <- [r \in Runners |-> [job |-> instances[r].job, up |-> Live(r)]]

ServiceSpec == Service!Spec

-----------------------------------------------------------------------------
(* The pool's counter (configurations without reconciler, faults, aborts     *)
(* and crashes; each of them loses a Release or repeats one).                *)

HoldsReservation(h) ==
  handler[h].pc \in Assigning \cup Cleanup \cup {"releasePool", "createLease", "dropRunner"}

(* Runners a lease holds whose capacity finish has not yet returned. *)
LeasedRunners ==
  {r \in Runners : \E j \in Jobs :
     /\ ~Absent(leases[j]) /\ leases[j].runner = r /\ runners[r].st # "terminated"
     /\ ~\E h \in Handlers : At(h, "saveRunner") /\ handler[h].r = r}

(* The pool counts exactly the reservations in flight and the leased runners,*)
(* through failed assignments, cancellations that overtake the assignment    *)
(* and the redeliveries they need; and its limit bounds what really runs.    *)
PoolCountsRunners ==
  /\ used = Cardinality({h \in Handlers : HoldsReservation(h)}) + Cardinality(LeasedRunners)
  /\ Cardinality({r \in Runners : ~Absent(runners[r]) /\ Live(r)}) <= MaxRunners

-----------------------------------------------------------------------------
(* Liveness, under FairSpec with the reconciler running. *)

(* Every recorded job ends, its TTL if nothing else ends it. *)
EveryJobEnds == \A j \in Jobs : ~Absent(jobs[j]) ~> Terminal(jobs[j].st)

(* Every recorded runner's instance is gone in the end, whatever failed,     *)
(* conflicted or crashed in the meantime.                                    *)
RecordedRunnerIsReleased == \A r \in Runners : ~Absent(runners[r]) ~> ~Live(r)

(* A webhook request is always answered, and its handler freed. *)
EveryRequestEnds == \A h \in Handlers : ~At(h, "idle") ~> At(h, "idle")

-----------------------------------------------------------------------------
(* What the documents and comments say and the code does not do.            *)

(* docs/lifecycle.md: all transitions are idempotent, termination is safe to *)
(* repeat.  finish repeats Scheduler.Release with it, and the pool counts    *)
(* fewer runners than it holds.                                              *)
PoolCoversLeasedRunners == Cardinality(LeasedRunners) <= used

(* lifecycle.Reconciler repairs only transitions that are safe to infer: the *)
(* runner cleaned up as an orphan is one whose job is not recorded.  The     *)
(* jobs are listed before the runners, and a job created in between is.      *)
OrphanHasNoJob ==
  pass.in = "orphans" /\ pass.cur \in Runners => Absent(jobs[runners[pass.cur].job])
=============================================================================

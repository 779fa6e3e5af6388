--------------------------- MODULE PlatformState ---------------------------
(***************************************************************************)
(* What the webhook handlers (WorkflowHandler) and the reconciler          *)
(* (Reconciler) share: the durable repository (state.Repository), the      *)
(* cloud provider (providers.Provider), the in-memory usage counter of     *)
(* the one capacity pool main.go registers, and the passing of time.       *)
(*                                                                         *)
(* A repository table is a function from identities to records with a      *)
(* revision; revision 0 stands for "no such record".  Every write is       *)
(* conditional on the caller's revision, as in SaveJob, SaveRunner and     *)
(* SaveLease.                                                              *)
(***************************************************************************)
EXTENDS Naturals, FiniteSets

CONSTANTS
  Jobs,          \* workflow jobs: job keys "<repository>/job/<id>"
  Runners,       \* identities a provider hands out, one per Provision call
  Deliveries,    \* webhook deliveries: X-GitHub-Delivery values, the dedup keys
  JobOf,         \* [Deliveries -> Jobs]: the job the payload is about
  ActionOf,      \* [Deliveries -> Actions]: action and conclusion of the payload
  Instants,      \* readings of the clock at which a delivery can be received
  MaxRunners,    \* the pool's capacity limit
  NoRunner,      \* no runner
  FaultKinds,    \* which faults happen: "storage", "provider", "instance", "crash"
  MaxFaults      \* bound: how many of them happen

(***************************************************************************)
(* A payload's action; "completed" is split by its conclusion into         *)
(* "success" and "failure", and "cancelled" covers both the cancelled      *)
(* action and the cancelled/skipped conclusions.                           *)
(***************************************************************************)
Actions == {"queued", "in_progress", "success", "failure", "cancelled"}

ASSUME ConstantsAssumption ==
  /\ "none" \notin Jobs
  /\ JobOf \in [Deliveries -> Jobs]
  /\ ActionOf \in [Deliveries -> Actions]
  /\ MaxRunners \in Nat
  /\ FaultKinds \subseteq {"storage", "provider", "instance", "crash"}
  /\ MaxFaults \in Nat
  /\ Instants \subseteq Nat \ {0}
  /\ NoRunner \notin Runners

VARIABLES
  jobs,          \* [Jobs -> job record]
  runners,       \* [Runners -> runner record]
  leases,        \* [Jobs -> lease record]: the lease ID is "lease-" + job ID
  markers,       \* [Deliveries -> instant]: lifecycle event of a delivery, 0 if none
  registration,  \* [Runners -> set of registration events recorded]
  instances,     \* [Runners -> instance]: what the cloud runs, the provider's truth
  used,          \* UsedRunners of the pool, in memory
  expired,       \* jobs whose ExpiresAt has passed
  faults         \* faults that have happened so far

store == <<jobs, runners, leases, markers, registration>>
shared == <<jobs, runners, leases, markers, registration, instances, used, expired, faults>>

-----------------------------------------------------------------------------
(* Record states, internal/state/types.go. *)

JobStates == {"queued", "provisioning", "assigned", "running",
              "completed", "cancelled", "failed"}
RunnerStates == {"provisioning", "ready", "busy", "terminating",
                 "terminated", "failed", "unknown"}
LeaseStates == {"pending", "active", "completed", "cancelled",
                "failed", "terminating", "terminated"}
RegistrationStates == {"pending", "ready", "failed"}

(* States of an instance at the provider: "none" before Provision. *)
InstanceStates == {"none", "provisioning", "ready", "terminating", "terminated", "failed"}

Absent(record) == record.rev = 0

NoJob == [st |-> "none", rev |-> 0]
NoRunnerRecord == [st |-> "none", job |-> "none", rev |-> 0]
NoLease == [st |-> "none", runner |-> NoRunner, rev |-> 0]
NoInstance == [st |-> "none", job |-> "none"]

JobRecords == [st : JobStates \cup {"none"}, rev : Nat]
RunnerRecords == [st : RunnerStates \cup {"none"}, job : Jobs \cup {"none"}, rev : Nat]
LeaseRecords ==
  {lease \in [st : LeaseStates \cup {"none"}, runner : Runners \cup {NoRunner}, rev : Nat] :
     Absent(lease) \/ lease.runner \in Runners}
InstanceRecords == [st : InstanceStates, job : Jobs \cup {"none"}]

StateTypeOK ==
  /\ jobs \in [Jobs -> JobRecords]
  /\ runners \in [Runners -> RunnerRecords]
  /\ leases \in [Jobs -> LeaseRecords]
  /\ markers \in [Deliveries -> Instants \cup {0}]
  /\ registration \in [Runners -> SUBSET RegistrationStates]
  /\ instances \in [Runners -> InstanceRecords]
  /\ used \in Nat
  /\ expired \subseteq Jobs
  /\ faults \in 0 .. MaxFaults

StateInit ==
  /\ jobs = [j \in Jobs |-> NoJob]
  /\ runners = [r \in Runners |-> NoRunnerRecord]
  /\ leases = [j \in Jobs |-> NoLease]
  /\ markers = [d \in Deliveries |-> 0]
  /\ registration = [r \in Runners |-> {}]
  /\ instances = [r \in Runners |-> NoInstance]
  /\ used = 0
  /\ expired = {}
  /\ faults = 0

-----------------------------------------------------------------------------
(* The repository: create if absent, save if the revision still matches. *)

(* Mutant: the revision is not compared. *)
CanSaveBlindly(table, id, rev) == ~Absent(table[id])

CanSave(table, id, rev) == ~Absent(table[id]) /\ table[id].rev = rev

(* Mutant: the revision stays. *)
AdvancedInPlace(record, st) == [record EXCEPT !.st = st]

(* The record SaveX stores: the caller's copy in its new state, one revision on. *)
Advanced(record, st) == [record EXCEPT !.st = st, !.rev = @ + 1]

Terminal(st) == st \in {"completed", "cancelled", "failed"}

-----------------------------------------------------------------------------
(* The provider. *)

Live(r) == instances[r].st \in {"provisioning", "ready", "failed"}

(* Terminate is idempotent: an instance that is gone or going stays so. *)
TerminateInstance(r) ==
  instances' = IF Live(r) THEN [instances EXCEPT ![r].st = "terminating"] ELSE instances

(* Status of the instance, as the runner state the reconciler derives from *)
(* it; an instance the provider does not know counts as terminated.        *)
ProviderState(r) == IF instances[r].st = "none" THEN "terminated" ELSE instances[r].st

(* The pool's counter: Release below zero is rejected, and the callers ignore it. *)
ReleasePool == used' = IF used >= 1 THEN used - 1 ELSE used

(* A fault: a repository call ("storage"), a provider or GitHub call        *)
(* ("provider") that returns an error, an instance the cloud takes away, or a *)
(* crash of the process.                                                    *)
Fault(kind) ==
  /\ kind \in FaultKinds
  /\ faults < MaxFaults
  /\ faults' = faults + 1

-----------------------------------------------------------------------------
(* The environment: instances end on their own, and time passes. *)

(* A termination the provider accepted completes. *)
TerminationCompletes(r) ==
  /\ instances[r].st = "terminating"
  /\ instances' = [instances EXCEPT ![r].st = "terminated"]
  /\ UNCHANGED <<store, used, expired, faults>>

(* A running instance is stopped or reclaimed by the cloud. *)
InstanceLost(r, st) ==
  /\ instances[r].st \in {"provisioning", "ready"}
  /\ st \in {"failed", "terminated"}
  /\ instances' = [instances EXCEPT ![r].st = st]
  /\ Fault("instance")
  /\ UNCHANGED <<store, used, expired>>

(* The job's time to live runs out; its runner and its lease expire with it. *)
Expire(j) ==
  /\ ~Absent(jobs[j])
  /\ j \notin expired
  /\ expired' = expired \cup {j}
  /\ UNCHANGED <<store, instances, used, faults>>
=============================================================================

------------------------------ MODULE Placement ------------------------------
(***************************************************************************)
(* Where a job is placed: capacity.Registry with its administration         *)
(* (Register, Upsert, Remove) and its choice among pools of two owners, the *)
(* older policy.Select, and Scheduler.Schedule, which holds a place in the  *)
(* pool through the provider's calls.  CapacityRegistry has the amounts of  *)
(* CPU, memory and GPU and the replicas; here a pool counts its runners.    *)
(***************************************************************************)
EXTENDS Integers, FiniteSetsExt, SequencesExt

CONSTANTS
  PoolIds,
  Modes,          \* of SCHEDULER_MODE, the unknown ones included
  Served,         \* pools with a provider (PoolProviders)
  Declared,       \* [PoolIds -> pools an administrator writes, with none in use]
  JobLabels,      \* labels a job may ask for
  Jobs,
  MaxWrites,      \* bound: Register, Upsert and Remove
  NoPool

ASSUME PlacementAssumption ==
  /\ Served \subseteq PoolIds /\ NoPool \notin PoolIds
  /\ IsFiniteSet(PoolIds) /\ IsFiniteSet(Jobs)
  /\ \A p \in PoolIds : \A d \in Declared[p] :
       /\ d.owner \in {"customer", "managed"}
       /\ d.availability \in {"available", "draining", "unavailable"}
       /\ d.max \in Nat /\ d.startup \in Nat

VARIABLES
  mode,
  pools,          \* [PoolIds -> the pool, or NoPool]
  reading,        \* the pool an administrator has from Get, and its ID
  job,            \* [Jobs -> what Schedule holds for it]
  stale,          \* history: pools whose usage a write has replaced by another
  writes

placementVars == <<mode, pools, reading, job, stale, writes>>

NoJob == [pc |-> "idle", pool |-> NoPool, labels |-> {}]
NoReading == [id |-> NoPool, pool |-> NoPool]

PlacementInit ==
  /\ mode \in Modes
  /\ pools = [p \in PoolIds |-> NoPool]
  /\ reading = NoReading
  /\ job = [j \in Jobs |-> NoJob]
  /\ stale = {}
  /\ writes = 0

Registered == {p \in PoolIds : pools[p] # NoPool}

-----------------------------------------------------------------------------
(* The choice. *)

HasPlace(p) == pools[p].max = 0 \/ pools[p].used < pools[p].max

(* What Reserve looks at again. *)
Open(p) == p \in Registered /\ pools[p].availability = "available" /\ HasPlace(p)

(* matches. *)
Matches(p, labels) == Open(p) /\ labels \subseteq pools[p].labels

(* Mutant: the pools of one owner only come first. *)
OwnersPreferred(m) ==
  CASE m \in {"customer-first", "customer-only"} -> <<{"customer"}, {"managed"}>>
    [] m \in {"managed-first", "managed-only"} -> <<{"managed"}, {"customer"}>>
    [] OTHER -> <<{"customer", "managed"}>>

(* ownershipOrder: any other mode takes every pool. *)
Owners(m) ==
  CASE m = "customer-first" -> <<{"customer"}, {"managed"}>>
    [] m = "managed-first" -> <<{"managed"}, {"customer"}>>
    [] m = "customer-only" -> <<{"customer"}>>
    [] m = "managed-only" -> <<{"managed"}>>
    [] OTHER -> <<{"customer", "managed"}>>

(* less, on pools with distinct startup times. *)
LeastPool(ids) ==
  IF ids = {} THEN NoPool
  ELSE CHOOSE p \in ids : \A o \in ids : pools[p].startup <= pools[o].startup

(* Registry.Select: the least pool of the first owners that have one. *)
Chosen(m, labels) ==
  LET of(i) == {p \in Registered : Matches(p, labels) /\ pools[p].owner \in Owners(m)[i]}
      having == {i \in DOMAIN Owners(m) : of(i) # {}}
  IN IF having = {} THEN NoPool ELSE LeastPool(of(Min(having)))

(* eligible, in policy.Select: the first of the list whose Available flag its *)
(* caller has set.                                                           *)
Eligible(list, available, owners) ==
  LET fit == {i \in DOMAIN list : list[i] \in available /\ pools[list[i]].owner \in owners}
  IN IF fit = {} THEN NoPool ELSE list[Min(fit)]

(* policy.Select: an unknown mode takes none. *)
PolicyChosen(m, list, available) ==
  LET own == Eligible(list, available, {"customer"})
      rented == Eligible(list, available, {"managed"})
  IN CASE m = "customer-first" -> IF own # NoPool THEN own ELSE rented
       [] m = "managed-first" -> IF rented # NoPool THEN rented ELSE own
       [] m = "customer-only" -> own
       [] m = "managed-only" -> rented
       [] m = "fallback" -> Eligible(list, available, {"customer", "managed"})
       [] OTHER -> NoPool

-----------------------------------------------------------------------------
(* The administration. *)

WithUsage(d, used) == [owner |-> d.owner, availability |-> d.availability, labels |-> d.labels,
                       max |-> d.max, startup |-> d.startup, used |-> used]

(* Validate: the usage must be within the limit. *)
Valid(pool) == pool.max > 0 => pool.used <= pool.max

(* What is written replaces the pool, the usage with it. *)
WritePool(p, pool) ==
  /\ writes < MaxWrites /\ writes' = writes + 1
  /\ pools' = [pools EXCEPT ![p] = pool]
  /\ UNCHANGED <<mode, job>>

HeldIn(p) == {j \in Jobs : job[j].pc \in {"reserved", "provisioned", "ready"} /\ job[j].pool = p}

Stale(p, used) == stale' = IF used # Cardinality(HeldIn(p)) THEN stale \cup {p} ELSE stale \ {p}

RegisterPool(p) ==
  /\ p \notin Registered
  /\ \E d \in Declared[p] : WritePool(p, WithUsage(d, 0))
  /\ Stale(p, 0) /\ UNCHANGED reading

GetPool(p) ==
  /\ p \in Registered /\ reading = NoReading
  /\ reading' = [id |-> p, pool |-> pools[p]]
  /\ UNCHANGED <<mode, pools, job, stale, writes>>

(* Upsert of what Get returned, with the administrator's change. *)
UpsertPool ==
  /\ reading # NoReading
  /\ \E d \in Declared[reading.id] :
       LET pool == WithUsage(d, reading.pool.used)
       IN Valid(pool) /\ WritePool(reading.id, pool)
  /\ Stale(reading.id, reading.pool.used)
  /\ reading' = NoReading

RemovePool(p) ==
  /\ p \in Registered
  /\ WritePool(p, NoPool)
  /\ Stale(p, 0) /\ UNCHANGED reading

-----------------------------------------------------------------------------
(* Schedule. *)

Holds(j, pc) == job' = [job EXCEPT ![j].pc = pc]
LetsGo(j) == job' = [job EXCEPT ![j] = NoJob]

(* Select.  A pool without a provider ends Schedule (or Reserve). *)
SelectPool(j) ==
  /\ job[j].pc = "idle"
  /\ \E labels \in JobLabels :
       LET p == Chosen(mode, labels)
       IN /\ p \in Served
          /\ job' = [job EXCEPT ![j] = [pc |-> "selected", pool |-> p, labels |-> labels]]
  /\ UNCHANGED <<mode, pools, reading, stale, writes>>

(* Registry.Reserve: the pool may have gone, filled up or begun to drain. *)
ReservePool(j) ==
  LET p == job[j].pool
  IN  /\ job[j].pc = "selected"
      /\ IF Open(p)
         THEN pools' = [pools EXCEPT ![p].used = @ + 1] /\ Holds(j, "reserved")
         ELSE LetsGo(j) /\ UNCHANGED pools
      /\ UNCHANGED <<mode, reading, stale, writes>>

(* Registry.Release: refused for a pool that is gone or has none in use; the   *)
(* callers do not look.                                                      *)
Released(p) ==
  IF p \in Registered /\ pools[p].used >= 1 THEN [pools EXCEPT ![p].used = @ - 1] ELSE pools

(* A pool that is stale stays so until nothing holds a place in it and none    *)
(* is counted.                                                               *)
GiveBack(j) ==
  LET p == job[j].pool
  IN  /\ pools' = Released(p)
      /\ LetsGo(j)
      /\ stale' = IF HeldIn(p) = {j} /\ (pools'[p] = NoPool \/ pools'[p].used = 0)
                  THEN stale \ {p} ELSE stale
      /\ UNCHANGED <<mode, reading, writes>>

(* Mutant: the place is kept when Provision fails. *)
ProvisionKeeping(j) ==
  /\ job[j].pc = "reserved"
  /\ Holds(j, "provisioned") \/ LetsGo(j)
  /\ UNCHANGED <<mode, pools, reading, stale, writes>>

(* Provision. *)
ProvisionIn(j) ==
  /\ job[j].pc = "reserved"
  /\ \/ Holds(j, "provisioned") /\ UNCHANGED <<mode, pools, reading, stale, writes>>
     \/ GiveBack(j)

(* WaitReady and CreateRunner; when either fails the instance is terminated. *)
MakeReady(j) ==
  /\ job[j].pc = "provisioned"
  /\ \/ Holds(j, "ready") /\ UNCHANGED <<mode, pools, reading, stale, writes>>
     \/ GiveBack(j)

(* Scheduler.Release, when the job has finished. *)
FinishJob(j) == job[j].pc = "ready" /\ GiveBack(j)

PlacementStep ==
  \/ \E p \in PoolIds : RegisterPool(p) \/ GetPool(p) \/ RemovePool(p)
  \/ UpsertPool
  \/ \E j \in Jobs :
       SelectPool(j) \/ ReservePool(j) \/ ProvisionIn(j) \/ MakeReady(j) \/ FinishJob(j)

-----------------------------------------------------------------------------
(* A pool counts the jobs that hold a place in it, through every failure of    *)
(* Schedule, unless an administrator's write has replaced its usage by one   *)
(* that is out of date (Upsert of an old reading, Remove under running jobs). *)
UsageIsHeld ==
  \A p \in Registered \ stale : pools[p].used = Cardinality(HeldIn(p))

OpenPools == {p \in Registered : Open(p)}

(* The scheduler's two ways of choosing agree, for jobs that ask for no label *)
(* and where the Available flags are set for the pools that can take a job:  *)
(* in the known modes both find a pool or neither does, of the same owner    *)
(* when the mode prefers one, whatever order policy.Select is given.  In a   *)
(* mode nobody knows policy.Select finds none, but the registry finds one    *)
(* whenever any pool can take the job.                                       *)
ChoicesAgree ==
  LET known == {"customer-first", "managed-first", "customer-only", "managed-only", "fallback"}
  IN \A m \in Modes, list \in SetToSeqs(Registered) :
       LET one == Chosen(m, {})
           other == PolicyChosen(m, list, OpenPools)
       IN IF m \in known
          THEN /\ one = NoPool <=> other = NoPool
               /\ one # NoPool /\ m # "fallback" => pools[one].owner = pools[other].owner
          ELSE other = NoPool /\ (one = NoPool <=> OpenPools = {})
=============================================================================

-------------------------- MODULE CapacityRegistry --------------------------
(***************************************************************************)
(* capacity.Registry: pools with limits and usage, the scheduler's two      *)
(* calls Select and Reserve, and the reservation ledger that controller     *)
(* replicas share under a fencing token.  CPU stands for the three          *)
(* resources (CPU, memory, GPU), which the code treats alike; the pools are *)
(* the available ones, as no part of the program lets a pool drain.        *)
(***************************************************************************)
EXTENDS ControllerIds, Sums

CONSTANTS
  Pools,
  MaxRunners,    \* [Pools -> Nat]: limit of runners, 0 for none
  MaxCPU,        \* [Pools -> Nat]: limit of CPUs, 0 for none
  Rank,          \* [Pools -> Nat]: the order less() defines
  Demands,       \* amounts of CPU a runner is requested with
  Reservations,  \* reservation IDs, one per job
  Requests,      \* scheduler requests
  NoPool

ASSUME CapacityAssumption ==
  /\ MaxRunners \in [Pools -> Nat]
  /\ MaxCPU \in [Pools -> Nat]
  /\ Rank \in [Pools -> Nat]
  /\ \A p, q \in Pools : Rank[p] = Rank[q] => p = q
  /\ Demands \subseteq Nat
  /\ NoPool \notin Pools

VARIABLES
  usage,         \* [Pools -> runners and CPUs in use]
  ledger,        \* [Reservations -> the reservation; pool NoPool: none]
  active,        \* the replica with the newest token: owner and token
  replica,       \* [Controllers -> the token of the controller's Replica, 0 for none]
  request        \* [Requests -> what a scheduler request holds]

capacityVars == <<usage, ledger, active, replica, request>>

NoReservation == [pool |-> NoPool, owner |-> NoController, token |-> 0, cpu |-> 0]
NoRequest == [pc |-> "idle", pool |-> NoPool, cpu |-> 0]

CapacityTypeOK ==
  /\ usage \in [Pools -> [runners : Nat, cpu : Nat]]
  /\ ledger \in [Reservations -> [pool : Pools \cup {NoPool},
                                  owner : Controllers \cup {NoController},
                                  token : Nat, cpu : Demands \cup {0}]]
  /\ active \in [owner : Controllers \cup {NoController}, token : Nat]
  /\ replica \in [Controllers -> Nat]
  /\ request \in [Requests -> [pc : {"idle", "selected", "reserved"},
                               pool : Pools \cup {NoPool}, cpu : Demands \cup {0}]]
  /\ \A q \in Requests : request[q].pc # "idle" => request[q].pool \in Pools

CapacityInit ==
  /\ usage = [p \in Pools |-> [runners |-> 0, cpu |-> 0]]
  /\ ledger = [i \in Reservations |-> NoReservation]
  /\ active = [owner |-> NoController, token |-> 0]
  /\ replica = [c \in Controllers |-> 0]
  /\ request = [q \in Requests |-> NoRequest]

-----------------------------------------------------------------------------
Fits(p, cpu) ==
  /\ MaxRunners[p] = 0 \/ usage[p].runners < MaxRunners[p]
  /\ MaxCPU[p] = 0 \/ usage[p].cpu + cpu <= MaxCPU[p]

Eligible(cpu) == {p \in Pools : Fits(p, cpu)}

Consume(p, cpu) ==
  usage' = [usage EXCEPT ![p] = [runners |-> @.runners + 1, cpu |-> @.cpu + cpu]]

CanReturn(p, cpu) == usage[p].runners >= 1 /\ usage[p].cpu >= cpu

Return(p, cpu) ==
  usage' = [usage EXCEPT ![p] = [runners |-> @.runners - 1, cpu |-> @.cpu - cpu]]

-----------------------------------------------------------------------------
(* Scheduler.Reserve: Select and Reserve are two critical sections. *)

Select(q, cpu) ==
  /\ request[q].pc = "idle"
  /\ \E p \in Eligible(cpu) :
       /\ \A o \in Eligible(cpu) : Rank[p] <= Rank[o]
       /\ request' = [request EXCEPT ![q] = [pc |-> "selected", pool |-> p, cpu |-> cpu]]
  /\ UNCHANGED <<usage, ledger, active, replica>>

(* Reserve: the pool may have filled up (ErrNoCapacity). *)
Reserve(q) ==
  LET p == request[q].pool
      cpu == request[q].cpu
  IN  /\ request[q].pc = "selected"
      /\ IF Fits(p, cpu)
         THEN Consume(p, cpu) /\ request' = [request EXCEPT ![q].pc = "reserved"]
         ELSE UNCHANGED usage /\ request' = [request EXCEPT ![q] = NoRequest]
      /\ UNCHANGED <<ledger, active, replica>>

(* Registry.Release: refused when the pool does not use as much. *)
ReleasePool(q) ==
  LET p == request[q].pool
      cpu == request[q].cpu
  IN  /\ request[q].pc = "reserved"
      /\ IF CanReturn(p, cpu) THEN Return(p, cpu) ELSE UNCHANGED usage
      /\ request' = [request EXCEPT ![q] = NoRequest]
      /\ UNCHANGED <<ledger, active, replica>>

-----------------------------------------------------------------------------
(* Replicas. *)

(* Mutant: any token takes over. *)
NewReplicaAlways(c, token) ==
  /\ token > 0
  /\ replica' = [replica EXCEPT ![c] = token]
  /\ active' = [owner |-> c, token |-> token]
  /\ UNCHANGED <<usage, ledger, request>>

(* NewReplica: a token larger than any before takes over; any other makes a  *)
(* replica as well, which is refused later.                                  *)
NewReplica(c, token) ==
  /\ token > 0
  /\ replica' = [replica EXCEPT ![c] = token]
  /\ active' = IF token > active.token THEN [owner |-> c, token |-> token] ELSE active
  /\ UNCHANGED <<usage, ledger, request>>

(* fencedLocked: ErrStaleReplica otherwise. *)
Fenced(c) == replica[c] > 0 /\ active = [owner |-> c, token |-> replica[c]]

(* Mutant: a retry is counted again. *)
ReserveFencedAgain(c, i, p, cpu) ==
  /\ Fenced(c)
  /\ Fits(p, cpu)
  /\ Consume(p, cpu)
  /\ ledger' = [ledger EXCEPT ![i] = [pool |-> p, owner |-> c, token |-> replica[c], cpu |-> cpu]]
  /\ UNCHANGED <<active, replica, request>>

(* ReserveFenced: a reservation that is recorded is not made again, whether  *)
(* it is the same (a retry) or another one (ErrReservation).                 *)
ReserveFenced(c, i, p, cpu) ==
  /\ Fenced(c)
  /\ ledger[i].pool = NoPool
  /\ Fits(p, cpu)
  /\ Consume(p, cpu)
  /\ ledger' = [ledger EXCEPT ![i] = [pool |-> p, owner |-> c, token |-> replica[c], cpu |-> cpu]]
  /\ UNCHANGED <<active, replica, request>>

(* ReleaseFenced: whoever reserved it; one that is not recorded is no error. *)
ReleaseFenced(c, i) ==
  LET p == ledger[i].pool
      cpu == ledger[i].cpu
  IN  /\ Fenced(c)
      /\ p # NoPool
      /\ CanReturn(p, cpu)
      /\ Return(p, cpu)
      /\ ledger' = [ledger EXCEPT ![i] = NoReservation]
      /\ UNCHANGED <<active, replica, request>>

SchedulerStep ==
  \/ \E q \in Requests, cpu \in Demands : Select(q, cpu)
  \/ \E q \in Requests : Reserve(q) \/ ReleasePool(q)

LedgerStep ==
  \/ \E c \in Controllers, i \in Reservations, p \in Pools, cpu \in Demands :
       ReserveFenced(c, i, p, cpu)
  \/ \E c \in Controllers, i \in Reservations : ReleaseFenced(c, i)

-----------------------------------------------------------------------------
(* The limits bound the usage, although Select and Reserve are separate and  *)
(* the scheduler's requests and the replicas share the pools.                *)
UsageWithinLimits ==
  \A p \in Pools :
    /\ MaxRunners[p] > 0 => usage[p].runners <= MaxRunners[p]
    /\ MaxCPU[p] > 0 => usage[p].cpu <= MaxCPU[p]

ReservedIn(p) == {i \in Reservations : ledger[i].pool = p}
TakenIn(p) == {q \in Requests : request[q].pc = "reserved" /\ request[q].pool = p}

(* The usage is within the limits, and is what requests and the ledger hold, *)
(* through retries and failovers: capacity is neither counted twice nor lost.*)
CapacityConserved ==
  /\ UsageWithinLimits
  /\ \A p \in Pools :
       /\ usage[p].runners = Cardinality(ReservedIn(p)) + Cardinality(TakenIn(p))
       /\ usage[p].cpu = Total([i \in ReservedIn(p) |-> ledger[i].cpu])
                         + Total([q \in TakenIn(p) |-> request[q].cpu])
=============================================================================

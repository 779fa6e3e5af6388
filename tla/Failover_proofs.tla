--------------------------- MODULE Failover_proofs ---------------------------
(***************************************************************************)
(* What leases, fencing tokens and the registry guarantee for any number    *)
(* of controllers, pools, reservations and requests.                        *)
(***************************************************************************)
EXTENDS CapacityFailover, Sums_proofs

-----------------------------------------------------------------------------
(* Part 1: the lease. *)

(* The copies of a lease: a controller's own names it as the owner, and one  *)
(* that still runs is the store's entry.  That is what makes OneHolder       *)
(* inductive: all running copies are the same entry, with one owner.         *)
LeaseInv ==
  /\ LeaseTypeOK
  /\ \A c \in Controllers : held[c].token > 0 => held[c].owner = c
  /\ \A c \in Controllers : Holds(c) => entry = held[c]

(* A lease is a record of an owner, a token and an expiry. *)
LEMMA LeaseFields ==
  ASSUME NEW l \in Leases
  PROVE  /\ l = [owner |-> l.owner, token |-> l.token, expires |-> l.expires]
         /\ l.token \in Nat /\ l.expires \in Nat
BY DEF Leases

(* No lease is a Lease. *)
LEMMA NoLeaseTyped == NoLease \in Leases
BY DEF NoLease, Leases

(* Initially nobody holds the lease. *)
LEMMA LeaseInvInit == Init => LeaseInv
BY LeaseAssumption, NoLeaseTyped
   DEF Init, LeaseInit, LeaseInv, LeaseTypeOK, NoLease, Holds

(* Acquire: the holder reads its own entry again, and a new grant is made    *)
(* only when no copy runs.                                                   *)
LEMMA AcquireKeeps ==
  ASSUME LeaseInv, NEW c \in Controllers, NEW ttl \in TTLs, Acquire(c, ttl)
  PROVE  LeaseInv'
<1> DEFINE lease == IF Runs(entry) THEN entry ELSE Grant(c, ttl)
<1>1. clock' = clock /\ entry' = lease /\ held' = [held EXCEPT ![c] = lease]
  BY DEF Acquire
<1>2. clock \in Nat /\ entry \in Leases /\ held \in [Controllers -> Leases] /\ ttl \in Nat
  BY LeaseAssumption DEF LeaseInv, LeaseTypeOK
<1>3. lease \in Leases /\ lease.owner = c
  BY <1>2, LeaseFields DEF Acquire, Grant, Leases
<1>4. LeaseTypeOK'
  BY <1>1, <1>2, <1>3 DEF LeaseInv, LeaseTypeOK
<1>5. ASSUME NEW d \in Controllers, d # c, Holds(d)'
      PROVE  FALSE
  <2>1. held'[d] = held[d] /\ Holds(d)
    BY <1>1, <1>2, <1>5 DEF Holds
  <2>2. entry = held[d] /\ held[d].owner = d /\ Runs(entry)
    BY <2>1, <1>2 DEF LeaseInv, Holds, Runs
  <2> QED BY <2>2, <1>5 DEF Acquire
<1>6. held'[c] = entry'
  BY <1>1, <1>2
<1>7. \A d \in Controllers : held'[d].token > 0 => held'[d].owner = d
  BY <1>1, <1>2, <1>3 DEF LeaseInv
<1> QED BY <1>4, <1>5, <1>6, <1>7 DEF LeaseInv

(* Renew: only the copy that is the entry can be renewed. *)
LEMMA RenewKeeps ==
  ASSUME LeaseInv, NEW c \in Controllers, NEW ttl \in TTLs, Renew(c, ttl)
  PROVE  LeaseInv'
<1>1. clock \in Nat /\ entry \in Leases /\ held \in [Controllers -> Leases] /\ ttl \in Nat
  BY LeaseAssumption DEF LeaseInv, LeaseTypeOK
<1>2. /\ clock' = clock
      /\ entry' = [entry EXCEPT !.expires = clock + ttl]
      /\ held' = [held EXCEPT ![c] = entry']
  BY DEF Renew
<1>3. entry.token > 0 /\ entry.owner = c
  BY DEF Renew, Owns, Runs, LeaseInv
<1>4. entry' \in Leases /\ entry'.owner = c
  BY <1>1, <1>2, <1>3 DEF Leases
<1>5. LeaseTypeOK'
  BY <1>1, <1>2, <1>4 DEF LeaseInv, LeaseTypeOK
<1>6. ASSUME NEW d \in Controllers, d # c, Holds(d)'
      PROVE  FALSE
  <2>1. held'[d] = held[d] /\ Holds(d)
    BY <1>1, <1>2, <1>6 DEF Holds
  <2> QED BY <2>1, <1>1, <1>3, <1>6 DEF LeaseInv, Holds
<1>7. held'[c] = entry'
  BY <1>1, <1>2
<1>8. \A d \in Controllers : held'[d].token > 0 => held'[d].owner = d
  BY <1>1, <1>2, <1>4 DEF LeaseInv
<1> QED BY <1>5, <1>6, <1>7, <1>8 DEF LeaseInv

(* Release: whoever deletes the entry had the copy of it that could run. *)
LEMMA ReleaseKeeps ==
  ASSUME LeaseInv, NEW c \in Controllers, ReleaseLease(c)
  PROVE  LeaseInv'
<1>1. clock \in Nat /\ entry \in Leases /\ held \in [Controllers -> Leases]
  BY DEF LeaseInv, LeaseTypeOK
<1>2. clock' = clock /\ entry' = NoLease /\ held' = [held EXCEPT ![c] = NoLease]
  BY DEF ReleaseLease
<1>3. LeaseTypeOK'
  BY <1>1, <1>2, NoLeaseTyped DEF LeaseInv, LeaseTypeOK
<1>4. ASSUME NEW d \in Controllers, Holds(d)'
      PROVE  FALSE
  <2>1. d # c
    BY <1>1, <1>2, <1>4 DEF Holds, NoLease
  <2>2. held'[d] = held[d] /\ Holds(d)
    BY <1>1, <1>2, <1>4, <2>1 DEF Holds
  <2>3. entry = held[d] /\ held[d].token > 0 /\ held[d].owner = d
    BY <2>2 DEF LeaseInv, Holds
  <2> QED BY <2>1, <2>3 DEF ReleaseLease, LeaseInv
<1>5. \A d \in Controllers : held'[d].token > 0 => held'[d].owner = d
  BY <1>1, <1>2 DEF LeaseInv, NoLease
<1> QED BY <1>3, <1>4, <1>5 DEF LeaseInv

(* Time only ends leases. *)
LEMMA TickKeeps == LeaseInv /\ Tick => LeaseInv'
BY LeaseAssumption DEF LeaseInv, LeaseTypeOK, Tick, Holds, Leases

(* Steps of the registry do not touch the leases. *)
LEMMA LeaseInvStep == LeaseInv /\ [Next]_vars => LeaseInv'
<1> SUFFICES ASSUME LeaseInv, [Next]_vars PROVE LeaseInv'
  OBVIOUS
<1>1. CASE LeaseStep
  BY <1>1, AcquireKeeps, RenewKeeps, ReleaseKeeps, TickKeeps DEF LeaseStep
<1>2. CASE UNCHANGED leaseVars
  BY <1>2 DEF leaseVars, LeaseInv, LeaseTypeOK, Holds
<1> QED BY <1>1, <1>2 DEF Next, vars

(* At most one controller may work by its own copy of the lease, however     *)
(* acquiring, renewing, releasing and the clock interleave (MemoryStore).    *)
THEOREM OneHolderHolds == Spec => []OneHolder
<1>1. LeaseInv => OneHolder
  BY DEF LeaseInv, OneHolder, Holds
<1> QED BY <1>1, LeaseInvInit, LeaseInvStep, PTL DEF Spec

-----------------------------------------------------------------------------
(* Part 2: the fencing tokens.  They identify a grant as long as nobody      *)
(* releases a lease, because a release deletes the store's counter.          *)

(* No token is larger than the entry's, two controllers never have the same, *)
(* and one that is as large as the entry's belongs to the entry's owner: so  *)
(* do the tokens of replicas and the active one.                             *)
TokenInv ==
  /\ LeaseInv
  /\ replica \in [Controllers -> Nat]
  /\ active \in [owner : Controllers \cup {NoController}, token : Nat]
  /\ active.token <= entry.token
  /\ \A c \in Controllers : held[c].token <= entry.token
  /\ \A c \in Controllers :
       held[c].token > 0 /\ held[c].token = entry.token => entry.owner = c
  /\ \A c, d \in Controllers :
       held[c].token > 0 /\ held[c].token = held[d].token => c = d
  /\ \A c \in Controllers :
       replica[c] > 0 /\ replica[c] = entry.token =>
         active = [owner |-> c, token |-> replica[c]]
  /\ active.token > 0 /\ active.token = entry.token => active.owner = entry.owner
  /\ \A c \in Controllers : replica[c] <= active.token

(* At the start every token is zero. *)
LEMMA TokenInvInit == Init => TokenInv
<1> SUFFICES ASSUME Init PROVE TokenInv
  OBVIOUS
<1>1. LeaseInv
  BY LeaseInvInit
<1> QED BY <1>1 DEF Init, LeaseInit, CapacityInit, NoLease, TokenInv

(* A grant has a token of its own, larger than any. *)
LEMMA AcquireFences ==
  ASSUME TokenInv, UNCHANGED capacityVars,
         NEW c \in Controllers, NEW ttl \in TTLs, Acquire(c, ttl)
  PROVE  TokenInv'
<1>1. LeaseInv'
  BY AcquireKeeps DEF TokenInv
<1>2. /\ entry \in Leases /\ entry.token \in Nat
      /\ held \in [Controllers -> Leases]
      /\ \A d \in Controllers : held[d].token \in Nat
  BY DEF TokenInv, LeaseInv, LeaseTypeOK, Leases
<1>3. active' = active /\ replica' = replica
  BY DEF capacityVars
<1>4. CASE Runs(entry)
  <2>1. entry' = entry /\ entry.owner = c /\ held' = [held EXCEPT ![c] = entry]
    BY <1>4 DEF Acquire
  <2>2. \A d \in Controllers : held'[d] = IF d = c THEN entry ELSE held[d]
    BY <2>1, <1>2
  <2> QED BY <1>1, <1>2, <1>3, <2>1, <2>2 DEF TokenInv
<1>5. CASE ~Runs(entry)
  <2>1. entry'.token = entry.token + 1 /\ entry'.owner = c /\ held' = [held EXCEPT ![c] = entry']
    BY <1>5 DEF Acquire, Grant
  <2>2. \A d \in Controllers : held'[d] = IF d = c THEN entry' ELSE held[d]
    BY <2>1, <1>2
  <2>3. \A d \in Controllers : replica[d] \in Nat /\ replica[d] <= entry.token
    BY <1>2 DEF TokenInv
  <2> QED BY <1>1, <1>2, <1>3, <2>1, <2>2, <2>3 DEF TokenInv
<1> QED BY <1>4, <1>5

(* Renewing keeps the token and the owner. *)
LEMMA RenewFences ==
  ASSUME TokenInv, UNCHANGED capacityVars,
         NEW c \in Controllers, NEW ttl \in TTLs, Renew(c, ttl)
  PROVE  TokenInv'
<1>1. LeaseInv'
  BY RenewKeeps DEF TokenInv
<1>2. /\ entry \in Leases /\ held \in [Controllers -> Leases]
  BY DEF TokenInv, LeaseInv, LeaseTypeOK
<1>3. active' = active /\ replica' = replica
  BY DEF capacityVars
<1>4. entry'.token = entry.token /\ entry'.owner = entry.owner
  BY <1>2 DEF Renew, Leases
<1>5. entry.token = held[c].token
  BY DEF Renew, Owns
<1>6. \A d \in Controllers : held'[d].token = held[d].token
  BY <1>2, <1>4, <1>5 DEF Renew
<1> QED BY <1>1, <1>3, <1>4, <1>6 DEF TokenInv

(* NewReplica: the token of a lease that is held is taken over only when it  *)
(* is the newest.                                                            *)
LEMMA AttachFences ==
  ASSUME TokenInv, UNCHANGED leaseVars, NEW c \in Controllers, Attach(c)
  PROVE  TokenInv'
<1>1. LeaseInv'
  BY DEF TokenInv, leaseVars, LeaseInv, LeaseTypeOK, Holds
<1>2. entry' = entry /\ held' = held
  BY DEF leaseVars
<1> DEFINE t == held[c].token
<1>3. t \in Nat /\ t > 0 /\ t <= entry.token /\ entry.token \in Nat /\ held[c].token = t
  BY DEF Attach, NewReplica, TokenInv, LeaseInv, LeaseTypeOK, Leases
<1>4. /\ replica' = [replica EXCEPT ![c] = t]
      /\ active' = IF t > active.token THEN [owner |-> c, token |-> t] ELSE active
  BY DEF Attach, NewReplica
<1>5. \A d \in Controllers : replica'[d] = IF d = c THEN t ELSE replica[d]
  BY <1>4 DEF TokenInv
<1>6. replica' \in [Controllers -> Nat]
  BY <1>3, <1>4 DEF TokenInv
<1> HIDE DEF t
<1>7. t = entry.token => entry.owner = c
  BY <1>3 DEF TokenInv
<1>8. active' \in [owner : Controllers \cup {NoController}, token : Nat]
  BY <1>3, <1>4 DEF TokenInv
<1>9. active'.token <= entry.token /\ active.token <= active'.token /\ t <= active'.token
  BY <1>3, <1>4 DEF TokenInv
<1>10. active'.token = entry.token => active'.owner = entry.owner
  BY <1>3, <1>4, <1>7 DEF TokenInv
<1>11. ASSUME NEW d \in Controllers, replica'[d] > 0, replica'[d] = entry.token
       PROVE  active' = [owner |-> d, token |-> replica'[d]]
  <2>1. CASE d = c
    BY <2>1, <1>3, <1>5, <1>7, <1>8, <1>9, <1>10, <1>11 DEF TokenInv
  <2>2. CASE d # c
    BY <2>2, <1>3, <1>4, <1>5, <1>11 DEF TokenInv
  <2> QED BY <2>1, <2>2
<1>12. \A d \in Controllers : replica'[d] <= active'.token
  BY <1>3, <1>5, <1>8, <1>9 DEF TokenInv
<1> QED
  BY <1>1, <1>2, <1>3, <1>6, <1>8, <1>9, <1>10, <1>11, <1>12 DEF TokenInv

(* Every step, as long as leases are left to expire. *)
LEMMA TokenInvStep ==
  ASSUME ~Releasing
  PROVE  TokenInv /\ [Next]_vars => TokenInv'
<1> SUFFICES ASSUME TokenInv, [Next]_vars PROVE TokenInv'
  OBVIOUS
<1>1. LeaseInv'
  BY LeaseInvStep DEF TokenInv
<1>2. CASE LeaseStep /\ UNCHANGED capacityVars
  <2>1. CASE Tick
    BY <2>1, <1>1, <1>2 DEF Tick, capacityVars, TokenInv
  <2> QED BY <2>1, <1>2, AcquireFences, RenewFences DEF LeaseStep, ReleaseLease
<1>3. CASE (SchedulerStep \/ LedgerStep) /\ UNCHANGED leaseVars
  <2>1. active' = active /\ replica' = replica
    BY <1>3 DEF SchedulerStep, LedgerStep, Select, Reserve, ReleasePool, ReserveFenced,
                ReleaseFenced
  <2> QED BY <2>1, <1>1, <1>3 DEF leaseVars, TokenInv
<1>4. CASE (\E c \in Controllers : Attach(c)) /\ UNCHANGED leaseVars
  BY <1>4, AttachFences
<1>5. CASE UNCHANGED vars
  BY <1>5, <1>1 DEF vars, leaseVars, capacityVars, TokenInv
<1> QED BY <1>2, <1>3, <1>4, <1>5 DEF Next

(* The tokens in use fence, and the registry accepts the replica of a        *)
(* controller whose lease runs, provided that no lease is ever released      *)
(* (MemoryStore.Release deletes the counter of the tokens).                  *)
THEOREM FencingHolds ==
  ASSUME ~Releasing
  PROVE  Spec => [](TokensFence /\ HolderIsActive)
<1>1. TokenInv => TokensFence
  BY DEF TokenInv, LeaseInv, LeaseTypeOK, Leases, TokensFence, Holds
<1>2. TokenInv => HolderIsActive
  BY DEF TokenInv, LeaseInv, LeaseTypeOK, Leases, HolderIsActive, Holds, Fenced
<1> QED BY <1>1, <1>2, TokenInvInit, TokenInvStep, PTL DEF Spec

-----------------------------------------------------------------------------
(* Part 3: the limits of the pools. *)

(* Types and limits together: what a step takes back it has counted before. *)
LimitsInv == CapacityTypeOK /\ UsageWithinLimits

(* A step that consumes a place has seen that it fits, in the same critical  *)
(* section.                                                                  *)
LEMMA ConsumeWithinLimits ==
  ASSUME LimitsInv, NEW p \in Pools, NEW cpu \in Nat, Fits(p, cpu), Consume(p, cpu)
  PROVE  usage' \in [Pools -> [runners : Nat, cpu : Nat]] /\ UsageWithinLimits'
<1>1. usage \in [Pools -> [runners : Nat, cpu : Nat]] /\ cpu \in Nat
  BY CapacityAssumption DEF LimitsInv, CapacityTypeOK
<1>2. usage' \in [Pools -> [runners : Nat, cpu : Nat]]
  BY <1>1 DEF Consume
<1>3. \A o \in Pools : o # p => usage'[o] = usage[o]
  BY <1>1 DEF Consume
<1>4. usage'[p].runners = usage[p].runners + 1 /\ usage'[p].cpu = usage[p].cpu + cpu
  BY <1>1 DEF Consume
<1>5. MaxRunners[p] \in Nat /\ MaxCPU[p] \in Nat /\ usage[p].runners \in Nat /\ usage[p].cpu \in Nat
  BY <1>1, CapacityAssumption
<1>6. UsageWithinLimits
  BY DEF LimitsInv
<1> QED BY <1>1, <1>2, <1>3, <1>4, <1>5, <1>6 DEF Fits, UsageWithinLimits

(* A step that returns a place has seen that it was counted. *)
LEMMA ReturnWithinLimits ==
  ASSUME LimitsInv, NEW p \in Pools, NEW cpu \in Nat, CanReturn(p, cpu), Return(p, cpu)
  PROVE  usage' \in [Pools -> [runners : Nat, cpu : Nat]] /\ UsageWithinLimits'
<1>1. usage \in [Pools -> [runners : Nat, cpu : Nat]]
  BY DEF LimitsInv, CapacityTypeOK
<1>2. usage' \in [Pools -> [runners : Nat, cpu : Nat]]
  BY <1>1 DEF Return, CanReturn
<1>3. \A o \in Pools : o # p => usage'[o] = usage[o]
  BY <1>1 DEF Return
<1>4. usage'[p].runners = usage[p].runners - 1 /\ usage'[p].cpu = usage[p].cpu - cpu
  BY <1>1 DEF Return
<1>5. MaxRunners[p] \in Nat /\ MaxCPU[p] \in Nat /\ usage[p].runners \in Nat /\ usage[p].cpu \in Nat
  BY <1>1, CapacityAssumption
<1>6. UsageWithinLimits
  BY DEF LimitsInv
<1> QED BY <1>1, <1>2, <1>3, <1>4, <1>5, <1>6 DEF CanReturn, UsageWithinLimits

(* Every step keeps types and limits.  A request that holds a place names    *)
(* the pool it has it in, and so does a reservation that is recorded.        *)
LEMMA LimitsStep == LeaseInv /\ LimitsInv /\ [Next]_vars => LimitsInv'
<1> SUFFICES ASSUME LeaseInv, LimitsInv, [Next]_vars PROVE LimitsInv'
  OBVIOUS
<1> USE DEF LimitsInv
<1>1. ASSUME NEW q \in Requests, NEW cpu \in Demands, Select(q, cpu)
      PROVE  LimitsInv'
  <2>1. PICK p \in Pools :
          request' = [request EXCEPT ![q] = [pc |-> "selected", pool |-> p, cpu |-> cpu]]
    BY <1>1 DEF Select, Eligible
  <2>2. UNCHANGED <<usage, ledger, active, replica>>
    BY <1>1 DEF Select
  <2> QED BY <2>1, <2>2 DEF CapacityTypeOK, UsageWithinLimits
<1>2. ASSUME NEW q \in Requests, Reserve(q) \/ ReleasePool(q)
      PROVE  LimitsInv'
  <2>1. /\ request[q].pc # "idle"
        /\ request[q].pool \in Pools /\ request[q].cpu \in Nat
    BY <1>2, CapacityAssumption DEF Reserve, ReleasePool, CapacityTypeOK
  <2>2. usage' \in [Pools -> [runners : Nat, cpu : Nat]] /\ UsageWithinLimits'
    BY <1>2, <2>1, ConsumeWithinLimits, ReturnWithinLimits
       DEF Reserve, ReleasePool, CapacityTypeOK, UsageWithinLimits
  <2>3. /\ \/ request' = [request EXCEPT ![q].pc = "reserved"]
           \/ request' = [request EXCEPT ![q] = NoRequest]
        /\ UNCHANGED <<ledger, active, replica>>
    BY <1>2 DEF Reserve, ReleasePool
  <2>4. [request[q] EXCEPT !.pc = "reserved"] \in
          [pc : {"idle", "selected", "reserved"}, pool : Pools \cup {NoPool},
           cpu : Demands \cup {0}]
    BY DEF CapacityTypeOK
  <2>5. CASE request' = [request EXCEPT ![q].pc = "reserved"]
    <3>1. request' = [request EXCEPT ![q] = [request[q] EXCEPT !.pc = "reserved"]]
      BY <2>5
    <3> QED BY <2>1, <2>2, <2>3, <2>4, <3>1 DEF CapacityTypeOK
  <2>6. CASE request' = [request EXCEPT ![q] = NoRequest]
    BY <2>2, <2>3, <2>6 DEF CapacityTypeOK, NoRequest
  <2> QED BY <2>3, <2>5, <2>6
<1>3. ASSUME NEW c \in Controllers, NEW i \in Reservations, NEW p \in Pools,
             NEW cpu \in Demands, ReserveFenced(c, i, p, cpu)
      PROVE  LimitsInv'
  <2>1. usage' \in [Pools -> [runners : Nat, cpu : Nat]] /\ UsageWithinLimits'
    BY <1>3, CapacityAssumption, ConsumeWithinLimits DEF ReserveFenced
  <2> QED BY <2>1, <1>3 DEF ReserveFenced, CapacityTypeOK
<1>4. ASSUME NEW c \in Controllers, NEW i \in Reservations, ReleaseFenced(c, i)
      PROVE  LimitsInv'
  <2>1. ledger[i].pool \in Pools
    BY <1>4 DEF ReleaseFenced, CapacityTypeOK
  <2>2. ledger[i].cpu \in Nat
    <3>1. ledger[i] \in [pool : Pools \cup {NoPool}, owner : Controllers \cup {NoController},
                         token : Nat, cpu : Demands \cup {0}]
      BY DEF CapacityTypeOK
    <3>2. ledger[i].cpu \in Demands \cup {0}
      BY <3>1
    <3>3. \A x \in Demands \cup {0} : x \in Nat
      BY CapacityAssumption
    <3> QED BY <3>2, <3>3
  <2>3. usage' \in [Pools -> [runners : Nat, cpu : Nat]] /\ UsageWithinLimits'
    BY <1>4, <2>1, <2>2, ReturnWithinLimits DEF ReleaseFenced
  <2> QED BY <2>3, <1>4 DEF ReleaseFenced, CapacityTypeOK, NoReservation
<1>5. ASSUME NEW c \in Controllers, Attach(c)
      PROVE  LimitsInv'
  BY <1>5 DEF Attach, NewReplica, CapacityTypeOK, UsageWithinLimits,
              LeaseInv, LeaseTypeOK, Leases
<1>6. CASE UNCHANGED capacityVars
  BY <1>6 DEF capacityVars, CapacityTypeOK, UsageWithinLimits
<1> QED
  BY <1>1, <1>2, <1>3, <1>4, <1>5, <1>6 DEF Next, SchedulerStep, LedgerStep, vars

(* The limits of every pool hold although Select and Reserve are separate     *)
(* critical sections, and requests and replicas take from the same pools      *)
(* (Registry.Reserve, Replica.ReserveFenced).                                 *)
THEOREM LimitsHold == Spec => []UsageWithinLimits
<1>1. Init => LimitsInv
  BY CapacityAssumption
     DEF Init, CapacityInit, LimitsInv, CapacityTypeOK, UsageWithinLimits, NoReservation, NoRequest
<1>2. LimitsInv => UsageWithinLimits
  BY DEF LimitsInv
<1> QED BY <1>1, <1>2, LeaseInvInit, LeaseInvStep, LimitsStep, PTL DEF Spec

-----------------------------------------------------------------------------
(* Part 4: the counts of the pools. *)

(* The CPUs a pool gives to reservations, and to requests. *)
ReservedCPU(p) == [i \in ReservedIn(p) |-> ledger[i].cpu]
TakenCPU(p) == [q \in TakenIn(p) |-> request[q].cpu]

(* What the registry counts for a pool is what is held of it, and finitely   *)
(* many hold a place.                                                        *)
CountsOf(p) ==
  /\ IsFiniteSet(ReservedIn(p)) /\ IsFiniteSet(TakenIn(p))
  /\ usage[p].runners = Cardinality(ReservedIn(p)) + Cardinality(TakenIn(p))
  /\ usage[p].cpu = Total(ReservedCPU(p)) + Total(TakenCPU(p))

CountsInv == LimitsInv /\ \A p \in Pools : CountsOf(p)

(* The amounts are numbers. *)
LEMMA AmountsAreNumbers ==
  ASSUME CapacityTypeOK
  PROVE  /\ \A i \in Reservations : ledger[i].cpu \in Nat
         /\ \A q \in Requests : request[q].cpu \in Nat
<1>1. \A x \in Demands \cup {0} : x \in Nat
  BY CapacityAssumption
<1>2. ASSUME NEW i \in Reservations PROVE ledger[i].cpu \in Nat
  <2>1. ledger[i] \in [pool : Pools \cup {NoPool}, owner : Controllers \cup {NoController},
                       token : Nat, cpu : Demands \cup {0}]
    BY DEF CapacityTypeOK
  <2>2. ledger[i].cpu \in Demands \cup {0}
    BY <2>1
  <2> QED BY <1>1, <2>2
<1>3. ASSUME NEW q \in Requests PROVE request[q].cpu \in Nat
  <2>1. request[q] \in [pc : {"idle", "selected", "reserved"}, pool : Pools \cup {NoPool},
                        cpu : Demands \cup {0}]
    BY DEF CapacityTypeOK
  <2>2. request[q].cpu \in Demands \cup {0}
    BY <2>1
  <2> QED BY <1>1, <2>2
<1> QED BY <1>2, <1>3

(* One member more, or the same members with the same amounts. *)
LEMMA OneMemberMore ==
  ASSUME NEW f, NEW g, NEW x, IsFiniteSet(DOMAIN f), \A y \in DOMAIN f : f[y] \in Nat,
         x \notin DOMAIN f, DOMAIN g = DOMAIN f \cup {x}, g[x] \in Nat,
         \A y \in DOMAIN f : g[y] = f[y]
  PROVE  /\ IsFiniteSet(DOMAIN g)
         /\ Cardinality(DOMAIN g) = Cardinality(DOMAIN f) + 1 /\ Cardinality(DOMAIN f) \in Nat
         /\ Total(g) = Total(f) + g[x] /\ Total(f) \in Nat
<1>1. \A y \in DOMAIN f : f[y] \in Int
  OBVIOUS
<1>2. Total(g) = Total(f) + g[x]
  BY <1>1, TotalWithOneMore
<1>3. Total(f) \in Nat
  BY TotalIsNatural
<1> QED BY <1>2, <1>3, FS_AddElement, FS_CardinalityType

(* A pool of which the same is held has the same count. *)
LEMMA SameCounts ==
  ASSUME NEW p \in Pools, CountsOf(p), usage'[p] = usage[p],
         ReservedIn(p)' = ReservedIn(p), \A i \in ReservedIn(p) : ledger'[i] = ledger[i],
         TakenIn(p)' = TakenIn(p), \A q \in TakenIn(p) : request'[q] = request[q]
  PROVE  CountsOf(p)'
<1>1. ReservedCPU(p)' = ReservedCPU(p)
  BY DEF ReservedCPU
<1>2. TakenCPU(p)' = TakenCPU(p)
  BY DEF TakenCPU
<1> QED BY <1>1, <1>2 DEF CountsOf

(* ReserveFenced puts one reservation more into the ledger, that of a pool    *)
(* which counts it in the same critical section.                             *)
LEMMA ReserveFencedCounts ==
  ASSUME CountsInv, NEW c \in Controllers, NEW i \in Reservations, NEW p \in Pools,
         NEW cpu \in Demands, ReserveFenced(c, i, p, cpu)
  PROVE  \A o \in Pools : CountsOf(o)'
<1>1. /\ usage' = [usage EXCEPT ![p] = [runners |-> @.runners + 1, cpu |-> @.cpu + cpu]]
      /\ ledger' = [ledger EXCEPT ![i] = [pool |-> p, owner |-> c, token |-> replica[c], cpu |-> cpu]]
      /\ ledger[i].pool = NoPool /\ request' = request
  BY DEF ReserveFenced, Consume
<1>2. CapacityTypeOK /\ p # NoPool /\ cpu \in Nat
  BY CapacityAssumption DEF CountsInv, LimitsInv
<1>3. /\ \A j \in Reservations \ {i} : ledger'[j] = ledger[j]
      /\ ledger'[i].pool = p /\ ledger'[i].cpu = cpu
  BY <1>1, <1>2 DEF CapacityTypeOK
<1>4. \A o \in Pools : TakenIn(o)' = TakenIn(o) /\ TakenCPU(o)' = TakenCPU(o)
  BY <1>1 DEF TakenIn, TakenCPU
<1>5. CountsOf(p)' /\ \A o \in Pools \ {p} : usage'[o] = usage[o]
  <2>1. ReservedIn(p)' = ReservedIn(p) \cup {i} /\ i \notin ReservedIn(p)
        /\ ReservedIn(p) \subseteq Reservations
    BY <1>1, <1>2, <1>3 DEF ReservedIn
  <2> DEFINE f == ReservedCPU(p)
             g == ReservedCPU(p)'
  <2>2. DOMAIN f = ReservedIn(p) /\ DOMAIN g = ReservedIn(p)'
    BY DEF ReservedCPU
  <2>3. \A j \in DOMAIN f : f[j] \in Nat /\ g[j] = f[j]
    BY <1>2, <1>3, <2>1, <2>2, AmountsAreNumbers DEF ReservedCPU
  <2>4. g[i] = cpu
    BY <1>3, <2>1 DEF ReservedCPU
  <2>5. CountsOf(p)
    BY DEF CountsInv
  <2>6. /\ IsFiniteSet(DOMAIN f) /\ IsFiniteSet(DOMAIN g)
        /\ Cardinality(DOMAIN g) = Cardinality(DOMAIN f) + 1 /\ Cardinality(DOMAIN f) \in Nat
        /\ Total(g) = Total(f) + cpu /\ Total(f) \in Nat
    <3> HIDE DEF f, g
    <3>1. IsFiniteSet(DOMAIN f)
      BY <2>1, <2>2, <2>5 DEF CountsOf
    <3> QED BY <1>2, <2>1, <2>2, <2>3, <2>4, <3>1, OneMemberMore
  <2>7. Cardinality(TakenIn(p)) \in Nat /\ Total(TakenCPU(p)) \in Nat
    <3>1. \A j \in DOMAIN TakenCPU(p) : TakenCPU(p)[j] \in Nat
      BY <1>2, AmountsAreNumbers DEF TakenCPU, TakenIn
    <3>2. DOMAIN TakenCPU(p) = TakenIn(p)
      BY DEF TakenCPU
    <3> QED BY <2>5, <3>1, <3>2, TotalIsNatural, FS_CardinalityType DEF CountsOf
  <2>8. usage'[p].runners = usage[p].runners + 1 /\ usage'[p].cpu = usage[p].cpu + cpu
        /\ \A o \in Pools \ {p} : usage'[o] = usage[o]
    BY <1>1, <1>2 DEF CapacityTypeOK
  <2> HIDE DEF f, g
  <2>9. usage'[p].runners = Cardinality(ReservedIn(p)') + Cardinality(TakenIn(p))
    BY <2>2, <2>5, <2>6, <2>7, <2>8 DEF CountsOf
  <2>10. usage'[p].cpu = Total(g) + Total(TakenCPU(p))
    BY <1>2, <2>5, <2>6, <2>7, <2>8 DEF CountsOf, f
  <2>11. IsFiniteSet(ReservedIn(p)') /\ IsFiniteSet(TakenIn(p))
    BY <2>2, <2>5, <2>6 DEF CountsOf
  <2> QED BY <1>2, <1>4, <2>8, <2>9, <2>10, <2>11 DEF CountsOf, g
<1>6. ASSUME NEW o \in Pools, o # p PROVE CountsOf(o)'
  <2>1. ReservedIn(o)' = ReservedIn(o) /\ i \notin ReservedIn(o) /\ ReservedIn(o) \subseteq Reservations
    BY <1>1, <1>3, <1>6, CapacityAssumption DEF ReservedIn
  <2>2. \A j \in ReservedIn(o) : ledger'[j] = ledger[j]
    BY <1>3, <2>1
  <2>3. CountsOf(o)
    BY DEF CountsInv
  <2>4. TakenIn(o)' = TakenIn(o) /\ usage'[o] = usage[o]
    BY <1>4, <1>5, <1>6
  <2> QED BY <1>1, <2>1, <2>2, <2>3, <2>4, SameCounts
<1> QED BY <1>5, <1>6

(* ReleaseFenced takes one from the ledger, and from the count of its pool. *)
LEMMA ReleaseFencedCounts ==
  ASSUME CountsInv, NEW c \in Controllers, NEW i \in Reservations, ReleaseFenced(c, i)
  PROVE  \A o \in Pools : CountsOf(o)'
<1>1. CapacityTypeOK /\ ledger[i].pool \in Pools /\ ledger[i].cpu \in Nat
  <2>1. CapacityTypeOK
    BY DEF CountsInv, LimitsInv
  <2> QED BY <2>1, AmountsAreNumbers DEF ReleaseFenced, CapacityTypeOK
<1>2. PICK p \in Pools, cpu \in Nat : p = ledger[i].pool /\ cpu = ledger[i].cpu
  BY <1>1
<1>3. /\ usage' = [usage EXCEPT ![p] = [runners |-> @.runners - 1, cpu |-> @.cpu - cpu]]
      /\ ledger' = [ledger EXCEPT ![i] = NoReservation] /\ request' = request /\ p # NoPool
  BY <1>2 DEF ReleaseFenced, Return
<1>4. CapacityTypeOK /\ p \in Pools /\ cpu \in Nat /\ p # NoPool
  BY <1>1, CapacityAssumption
<1>5. /\ \A j \in Reservations \ {i} : ledger'[j] = ledger[j]
      /\ ledger'[i].pool = NoPool
  BY <1>3, <1>4 DEF CapacityTypeOK, NoReservation
<1>6. \A o \in Pools : TakenIn(o)' = TakenIn(o) /\ TakenCPU(o)' = TakenCPU(o)
  BY <1>3 DEF TakenIn, TakenCPU
<1>7. CountsOf(p)' /\ \A o \in Pools \ {p} : usage'[o] = usage[o]
  <2>1. ReservedIn(p) = ReservedIn(p)' \cup {i} /\ i \notin ReservedIn(p)'
        /\ ReservedIn(p)' \subseteq Reservations
    BY <1>3, <1>4, <1>5, <1>2, CapacityAssumption DEF ReservedIn
  <2> DEFINE f == ReservedCPU(p)'
             g == ReservedCPU(p)
  <2>2. DOMAIN f = ReservedIn(p)' /\ DOMAIN g = ReservedIn(p)
    BY DEF ReservedCPU
  <2>3. \A j \in DOMAIN f : f[j] \in Nat /\ g[j] = f[j]
    BY <1>4, <1>5, <2>1, <2>2, AmountsAreNumbers DEF ReservedCPU
  <2>4. g[i] = cpu
    BY <1>5, <1>2, <2>1 DEF ReservedCPU
  <2>5. CountsOf(p)
    BY <1>4 DEF CountsInv
  <2>6. /\ IsFiniteSet(DOMAIN f) /\ IsFiniteSet(DOMAIN g)
        /\ Cardinality(DOMAIN g) = Cardinality(DOMAIN f) + 1 /\ Cardinality(DOMAIN f) \in Nat
        /\ Total(g) = Total(f) + cpu /\ Total(f) \in Nat
    <3> HIDE DEF f, g
    <3>1. IsFiniteSet(DOMAIN f)
      BY <2>1, <2>2, <2>5, FS_Subset DEF CountsOf
    <3> QED BY <1>4, <2>1, <2>2, <2>3, <2>4, <3>1, OneMemberMore
  <2>7. Cardinality(TakenIn(p)) \in Nat /\ Total(TakenCPU(p)) \in Nat
    <3>1. \A j \in DOMAIN TakenCPU(p) : TakenCPU(p)[j] \in Nat
      BY <1>4, AmountsAreNumbers DEF TakenCPU, TakenIn
    <3>2. DOMAIN TakenCPU(p) = TakenIn(p)
      BY DEF TakenCPU
    <3> QED BY <2>5, <3>1, <3>2, TotalIsNatural, FS_CardinalityType DEF CountsOf
  <2>8. usage'[p].runners = usage[p].runners - 1 /\ usage'[p].cpu = usage[p].cpu - cpu
        /\ \A o \in Pools \ {p} : usage'[o] = usage[o]
    BY <1>3, <1>4, <1>2 DEF CapacityTypeOK
  <2> HIDE DEF f, g
  <2>9. usage'[p].runners = Cardinality(ReservedIn(p)') + Cardinality(TakenIn(p))
    BY <2>2, <2>5, <2>6, <2>7, <2>8 DEF CountsOf
  <2>10. usage'[p].cpu = Total(f) + Total(TakenCPU(p))
    BY <1>4, <2>5, <2>6, <2>7, <2>8 DEF CountsOf, g
  <2>11. IsFiniteSet(ReservedIn(p)') /\ IsFiniteSet(TakenIn(p))
    BY <2>2, <2>5, <2>6 DEF CountsOf
  <2> QED BY <1>4, <1>6, <2>8, <2>9, <2>10, <2>11 DEF CountsOf, f
<1>8. ASSUME NEW o \in Pools, o # p PROVE CountsOf(o)'
  <2>1. ReservedIn(o)' = ReservedIn(o) /\ i \notin ReservedIn(o) /\ ReservedIn(o) \subseteq Reservations
    BY <1>3, <1>4, <1>5, <1>8, <1>2, CapacityAssumption DEF ReservedIn
  <2>2. \A j \in ReservedIn(o) : ledger'[j] = ledger[j]
    BY <1>5, <2>1
  <2>3. CountsOf(o)
    BY DEF CountsInv
  <2>4. TakenIn(o)' = TakenIn(o) /\ usage'[o] = usage[o]
    BY <1>6, <1>7, <1>8
  <2> QED BY <1>3, <2>1, <2>2, <2>3, <2>4, SameCounts
<1> QED BY <1>7, <1>8

(* Reserve: the request that finds a place is counted with it. *)
LEMMA ReserveCounts ==
  ASSUME CountsInv, NEW q \in Requests, Reserve(q), Fits(request[q].pool, request[q].cpu)
  PROVE  \A o \in Pools : CountsOf(o)'
<1>1. CapacityTypeOK /\ request[q].pool \in Pools /\ request[q].cpu \in Nat
  <2>1. CapacityTypeOK
    BY DEF CountsInv, LimitsInv
  <2> QED BY <2>1, AmountsAreNumbers DEF Reserve, CapacityTypeOK
<1>2. PICK p \in Pools, cpu \in Nat : p = request[q].pool /\ cpu = request[q].cpu
  BY <1>1
<1>3. /\ usage' = [usage EXCEPT ![p] = [runners |-> @.runners + 1, cpu |-> @.cpu + cpu]]
      /\ request' = [request EXCEPT ![q].pc = "reserved"] /\ ledger' = ledger
      /\ request[q].pc = "selected"
  BY <1>2 DEF Reserve, Consume
<1>4. CapacityTypeOK /\ p \in Pools /\ cpu \in Nat
  BY <1>1
<1>5. /\ \A j \in Requests \ {q} : request'[j] = request[j]
      /\ request'[q].pool = p /\ request'[q].cpu = cpu /\ request'[q].pc = "reserved"
  BY <1>3, <1>4, <1>2 DEF CapacityTypeOK
<1>6. \A o \in Pools : ReservedIn(o)' = ReservedIn(o) /\ ReservedCPU(o)' = ReservedCPU(o)
  BY <1>3 DEF ReservedIn, ReservedCPU
<1>7. CountsOf(p)' /\ \A o \in Pools \ {p} : usage'[o] = usage[o]
  <2>1. TakenIn(p)' = TakenIn(p) \cup {q} /\ q \notin TakenIn(p)
        /\ TakenIn(p) \subseteq Requests
    BY <1>3, <1>4, <1>5, <1>2 DEF TakenIn
  <2> DEFINE f == TakenCPU(p)
             g == TakenCPU(p)'
  <2>2. DOMAIN f = TakenIn(p) /\ DOMAIN g = TakenIn(p)'
    BY DEF TakenCPU
  <2>3. \A j \in DOMAIN f : f[j] \in Nat /\ g[j] = f[j]
    BY <1>4, <1>5, <2>1, <2>2, AmountsAreNumbers DEF TakenCPU
  <2>4. g[q] = cpu
    BY <1>5, <1>2, <2>1 DEF TakenCPU
  <2>5. CountsOf(p)
    BY <1>4 DEF CountsInv
  <2>6. /\ IsFiniteSet(DOMAIN f) /\ IsFiniteSet(DOMAIN g)
        /\ Cardinality(DOMAIN g) = Cardinality(DOMAIN f) + 1 /\ Cardinality(DOMAIN f) \in Nat
        /\ Total(g) = Total(f) + cpu /\ Total(f) \in Nat
    <3> HIDE DEF f, g
    <3>1. IsFiniteSet(DOMAIN f)
      BY <2>1, <2>2, <2>5 DEF CountsOf
    <3> QED BY <1>4, <2>1, <2>2, <2>3, <2>4, <3>1, OneMemberMore
  <2>7. Cardinality(ReservedIn(p)) \in Nat /\ Total(ReservedCPU(p)) \in Nat
    <3>1. \A j \in DOMAIN ReservedCPU(p) : ReservedCPU(p)[j] \in Nat
      BY <1>4, AmountsAreNumbers DEF ReservedCPU, ReservedIn
    <3>2. DOMAIN ReservedCPU(p) = ReservedIn(p)
      BY DEF ReservedCPU
    <3> QED BY <2>5, <3>1, <3>2, TotalIsNatural, FS_CardinalityType DEF CountsOf
  <2>8. usage'[p].runners = usage[p].runners + 1 /\ usage'[p].cpu = usage[p].cpu + cpu
        /\ \A o \in Pools \ {p} : usage'[o] = usage[o]
    BY <1>3, <1>4, <1>2 DEF CapacityTypeOK
  <2> HIDE DEF f, g
  <2>9. usage'[p].runners = Cardinality(ReservedIn(p)) + Cardinality(TakenIn(p)')
    BY <2>2, <2>5, <2>6, <2>7, <2>8 DEF CountsOf
  <2>10. usage'[p].cpu = Total(ReservedCPU(p)) + Total(g)
    BY <1>4, <2>5, <2>6, <2>7, <2>8 DEF CountsOf, f
  <2>11. IsFiniteSet(TakenIn(p)') /\ IsFiniteSet(ReservedIn(p))
    BY <2>2, <2>5, <2>6 DEF CountsOf
  <2> QED BY <1>4, <1>6, <2>8, <2>9, <2>10, <2>11 DEF CountsOf, g
<1>8. ASSUME NEW o \in Pools, o # p PROVE CountsOf(o)'
  <2>1. TakenIn(o)' = TakenIn(o) /\ q \notin TakenIn(o) /\ TakenIn(o) \subseteq Requests
    BY <1>3, <1>4, <1>5, <1>8, <1>2 DEF TakenIn
  <2>2. \A j \in TakenIn(o) : request'[j] = request[j]
    BY <1>5, <2>1
  <2>3. CountsOf(o)
    BY DEF CountsInv
  <2>4. ReservedIn(o)' = ReservedIn(o) /\ usage'[o] = usage[o]
    BY <1>6, <1>7, <1>8
  <2> QED BY <1>3, <2>1, <2>2, <2>3, <2>4, SameCounts
<1> QED BY <1>7, <1>8

(* Registry.Release never finds less in use than what it gives back: the      *)
(* request that holds it was counted.                                        *)
LEMMA ReleasePoolCounts ==
  ASSUME CountsInv, NEW q \in Requests, ReleasePool(q)
  PROVE  \A o \in Pools : CountsOf(o)'
<1>1. CapacityTypeOK /\ request[q].pool \in Pools /\ request[q].cpu \in Nat
  <2>1. CapacityTypeOK
    BY DEF CountsInv, LimitsInv
  <2> QED BY <2>1, AmountsAreNumbers DEF ReleasePool, CapacityTypeOK
<1>2. PICK p \in Pools, cpu \in Nat : p = request[q].pool /\ cpu = request[q].cpu
  BY <1>1
<1>3. /\ IF CanReturn(p, cpu) THEN Return(p, cpu) ELSE UNCHANGED usage
      /\ request' = [request EXCEPT ![q] = NoRequest] /\ ledger' = ledger
      /\ request[q].pc = "reserved"
  BY <1>2 DEF ReleasePool
<1>4. CapacityTypeOK /\ p \in Pools /\ cpu \in Nat
  BY <1>1
<1>5. /\ \A j \in Requests \ {q} : request'[j] = request[j]
      /\ request'[q].pc = "idle"
  BY <1>3, <1>4 DEF CapacityTypeOK, NoRequest
<1>6. \A o \in Pools : ReservedIn(o)' = ReservedIn(o) /\ ReservedCPU(o)' = ReservedCPU(o)
  BY <1>3 DEF ReservedIn, ReservedCPU
<1>7. CountsOf(p)' /\ \A o \in Pools \ {p} : usage'[o] = usage[o]
  <2>1. TakenIn(p) = TakenIn(p)' \cup {q} /\ q \notin TakenIn(p)'
        /\ TakenIn(p)' \subseteq Requests
    BY <1>3, <1>4, <1>5, <1>2 DEF TakenIn
  <2> DEFINE f == TakenCPU(p)'
             g == TakenCPU(p)
  <2>2. DOMAIN f = TakenIn(p)' /\ DOMAIN g = TakenIn(p)
    BY DEF TakenCPU
  <2>3. \A j \in DOMAIN f : f[j] \in Nat /\ g[j] = f[j]
    BY <1>4, <1>5, <2>1, <2>2, AmountsAreNumbers DEF TakenCPU
  <2>4. g[q] = cpu
    BY <1>5, <1>2, <2>1 DEF TakenCPU
  <2>5. CountsOf(p)
    BY <1>4 DEF CountsInv
  <2>6. /\ IsFiniteSet(DOMAIN f) /\ IsFiniteSet(DOMAIN g)
        /\ Cardinality(DOMAIN g) = Cardinality(DOMAIN f) + 1 /\ Cardinality(DOMAIN f) \in Nat
        /\ Total(g) = Total(f) + cpu /\ Total(f) \in Nat
    <3> HIDE DEF f, g
    <3>1. IsFiniteSet(DOMAIN f)
      BY <2>1, <2>2, <2>5, FS_Subset DEF CountsOf
    <3> QED BY <1>4, <2>1, <2>2, <2>3, <2>4, <3>1, OneMemberMore
  <2>7. Cardinality(ReservedIn(p)) \in Nat /\ Total(ReservedCPU(p)) \in Nat
    <3>1. \A j \in DOMAIN ReservedCPU(p) : ReservedCPU(p)[j] \in Nat
      BY <1>4, AmountsAreNumbers DEF ReservedCPU, ReservedIn
    <3>2. DOMAIN ReservedCPU(p) = ReservedIn(p)
      BY DEF ReservedCPU
    <3> QED BY <2>5, <3>1, <3>2, TotalIsNatural, FS_CardinalityType DEF CountsOf
  <2>8. usage' = [usage EXCEPT ![p] = [runners |-> @.runners - 1, cpu |-> @.cpu - cpu]]
    <3> HIDE DEF f, g
    <3>1. usage[p].runners = Cardinality(ReservedIn(p)) + Cardinality(DOMAIN g)
      BY <2>2, <2>5 DEF CountsOf
    <3>2. usage[p].cpu = Total(ReservedCPU(p)) + Total(g)
      BY <2>5 DEF CountsOf, g
    <3>3. CanReturn(p, cpu)
      BY <1>4, <2>6, <2>7, <3>1, <3>2 DEF CanReturn
    <3> QED BY <1>3, <3>3 DEF Return
  <2>9. usage'[p].runners = usage[p].runners - 1 /\ usage'[p].cpu = usage[p].cpu - cpu
        /\ \A o \in Pools \ {p} : usage'[o] = usage[o]
    BY <2>8, <1>4 DEF CapacityTypeOK
  <2> HIDE DEF f, g
  <2>10. usage'[p].runners = Cardinality(ReservedIn(p)) + Cardinality(TakenIn(p)')
    BY <2>2, <2>5, <2>6, <2>7, <2>9 DEF CountsOf
  <2>11. usage'[p].cpu = Total(ReservedCPU(p)) + Total(f)
    BY <1>4, <2>5, <2>6, <2>7, <2>9 DEF CountsOf, g
  <2>12. IsFiniteSet(TakenIn(p)') /\ IsFiniteSet(ReservedIn(p))
    BY <2>2, <2>5, <2>6 DEF CountsOf
  <2> QED BY <1>4, <1>6, <2>9, <2>10, <2>11, <2>12 DEF CountsOf, f
<1>8. ASSUME NEW o \in Pools, o # p PROVE CountsOf(o)'
  <2>1. TakenIn(o)' = TakenIn(o) /\ q \notin TakenIn(o) /\ TakenIn(o) \subseteq Requests
    BY <1>3, <1>4, <1>5, <1>8, <1>2 DEF TakenIn
  <2>2. \A j \in TakenIn(o) : request'[j] = request[j]
    BY <1>5, <2>1
  <2>3. CountsOf(o)
    BY DEF CountsInv
  <2>4. ReservedIn(o)' = ReservedIn(o) /\ usage'[o] = usage[o]
    BY <1>6, <1>7, <1>8
  <2> QED BY <1>3, <2>1, <2>2, <2>3, <2>4, SameCounts
<1> QED BY <1>7, <1>8

(* Every other step leaves the places as they are. *)
LEMMA CountsStep == LeaseInv /\ CountsInv /\ [Next]_vars => CountsInv'
<1> SUFFICES ASSUME LeaseInv, CountsInv, [Next]_vars PROVE CountsInv'
  OBVIOUS
<1>0. LimitsInv' /\ CapacityTypeOK
  BY LimitsStep DEF CountsInv, LimitsInv
<1>1. CASE UNCHANGED usage /\ ledger' = ledger
           /\ \A q \in Requests :
                \/ request[q].pc # "reserved" /\ request'[q].pc # "reserved"
                \/ request'[q] = request[q]
  <2>1. ASSUME NEW p \in Pools PROVE CountsOf(p)'
    <3>1. TakenIn(p)' = TakenIn(p) /\ \A q \in TakenIn(p) : request'[q] = request[q]
      BY <1>1 DEF TakenIn
    <3>2. ReservedIn(p)' = ReservedIn(p) /\ usage'[p] = usage[p]
          /\ \A i \in ReservedIn(p) : ledger'[i] = ledger[i]
      BY <1>1 DEF ReservedIn
    <3>3. CountsOf(p)
      BY DEF CountsInv
    <3> QED BY <3>1, <3>2, <3>3, SameCounts
  <2> QED BY <1>0, <2>1 DEF CountsInv
<1>2. ASSUME NEW q \in Requests, NEW cpu \in Demands, Select(q, cpu) PROVE CountsInv'
  <2>1. PICK p \in Pools :
          request' = [request EXCEPT ![q] = [pc |-> "selected", pool |-> p, cpu |-> cpu]]
    BY <1>2 DEF Select, Eligible
  <2>2. UNCHANGED <<usage, ledger>> /\ request[q].pc = "idle"
    BY <1>2 DEF Select
  <2>3. \A o \in Requests :
        \/ request[o].pc # "reserved" /\ request'[o].pc # "reserved"
        \/ request'[o] = request[o]
    BY <1>0, <2>1, <2>2 DEF CapacityTypeOK
  <2> QED BY <1>1, <2>2, <2>3
<1>3. ASSUME NEW q \in Requests, Reserve(q) PROVE CountsInv'
  <2>1. CASE Fits(request[q].pool, request[q].cpu)
    BY <1>0, <1>3, <2>1, ReserveCounts DEF CountsInv
  <2>2. CASE ~Fits(request[q].pool, request[q].cpu)
    <3>1. UNCHANGED <<usage, ledger>> /\ request[q].pc = "selected"
          /\ request' = [request EXCEPT ![q] = NoRequest]
      BY <1>3, <2>2 DEF Reserve
    <3>2. \A o \in Requests :
        \/ request[o].pc # "reserved" /\ request'[o].pc # "reserved"
        \/ request'[o] = request[o]
      BY <1>0, <3>1 DEF CapacityTypeOK, NoRequest
    <3> QED BY <1>1, <3>1, <3>2
  <2> QED BY <2>1, <2>2
<1>4. ASSUME NEW q \in Requests, ReleasePool(q) PROVE CountsInv'
  BY <1>0, <1>4, ReleasePoolCounts DEF CountsInv
<1>5. ASSUME NEW c \in Controllers, NEW i \in Reservations, NEW p \in Pools,
             NEW cpu \in Demands, ReserveFenced(c, i, p, cpu)
      PROVE  CountsInv'
  BY <1>0, <1>5, ReserveFencedCounts DEF CountsInv
<1>6. ASSUME NEW c \in Controllers, NEW i \in Reservations, ReleaseFenced(c, i)
      PROVE  CountsInv'
  BY <1>0, <1>6, ReleaseFencedCounts DEF CountsInv
<1>7. ASSUME NEW c \in Controllers, Attach(c) PROVE CountsInv'
  <2>1. UNCHANGED <<usage, ledger, request>>
    BY <1>7 DEF Attach, NewReplica
  <2> QED BY <1>1, <2>1
<1>8. CASE UNCHANGED capacityVars
  BY <1>1, <1>8 DEF capacityVars
<1> QED
  BY <1>2, <1>3, <1>4, <1>5, <1>6, <1>7, <1>8 DEF Next, SchedulerStep, LedgerStep, vars

(* Capacity is neither counted twice nor lost: through retries, refusals and   *)
(* failovers, what a pool counts in use is what the ledger and the requests   *)
(* hold of it (Registry.Reserve and Release, Replica.ReserveFenced and        *)
(* ReleaseFenced), for any number of each and whatever the tokens do.         *)
THEOREM CapacityHolds == Spec => []CapacityConserved
<1>1. ASSUME Init PROVE CountsInv
  <2>1. LimitsInv
    BY <1>1, CapacityAssumption
       DEF Init, CapacityInit, LimitsInv, CapacityTypeOK, UsageWithinLimits, NoReservation, NoRequest
  <2>2. ASSUME NEW p \in Pools PROVE CountsOf(p)
    <3>1. ReservedIn(p) = {} /\ TakenIn(p) = {} /\ usage[p].runners = 0 /\ usage[p].cpu = 0
      BY <1>1, CapacityAssumption
         DEF Init, CapacityInit, ReservedIn, TakenIn, NoReservation, NoRequest
    <3>2. DOMAIN ReservedCPU(p) = {} /\ DOMAIN TakenCPU(p) = {}
      BY <3>1 DEF ReservedCPU, TakenCPU
    <3>3. Total(ReservedCPU(p)) = 0 /\ Total(TakenCPU(p)) = 0
      BY <3>2, TotalOfNothing
    <3> QED BY <3>1, <3>3, FS_EmptySet DEF CountsOf
  <2> QED BY <2>1, <2>2 DEF CountsInv
<1>2. CountsInv => CapacityConserved
  BY DEF CountsInv, LimitsInv, CountsOf, CapacityConserved, ReservedCPU, TakenCPU
<1> QED BY <1>1, <1>2, LeaseInvInit, LeaseInvStep, CountsStep, PTL DEF Spec
=============================================================================

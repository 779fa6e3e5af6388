-------------------------- MODULE CapacityFailover --------------------------
(***************************************************************************)
(* Controllers that share the reservation ledger of one registry and take   *)
(* turns by the lease of one key: each attaches a replica with the fencing  *)
(* token of the lease it has, and reserves and releases through it, while   *)
(* the scheduler's requests use the same pools.                             *)
(***************************************************************************)
EXTENDS LeaseStore, CapacityRegistry

vars == <<leaseVars, capacityVars>>

Init == LeaseInit /\ CapacityInit

(* A controller attaches a replica for the lease it has, at any time later:  *)
(* the lease may have expired, and another controller may have taken over.   *)
Attach(c) ==
  /\ held[c].token # replica[c]
  /\ NewReplica(c, held[c].token)

Next ==
  \/ LeaseStep /\ UNCHANGED capacityVars
  \/ (SchedulerStep \/ LedgerStep \/ \E c \in Controllers : Attach(c)) /\ UNCHANGED leaseVars

Spec == Init /\ [][Next]_vars

-----------------------------------------------------------------------------
(* A controller whose lease runs, and which has attached its replica, is not *)
(* taken for a stale one: the ledger accepts it, and so nobody else.         *)
HolderIsActive ==
  \A c \in Controllers :
    Holds(c) /\ replica[c] = held[c].token => Fenced(c)
=============================================================================

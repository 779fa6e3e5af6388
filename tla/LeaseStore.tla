----------------------------- MODULE LeaseStore -----------------------------
(***************************************************************************)
(* coordination.MemoryStore behind coordination.Coordinator: the lease of  *)
(* one key, granted for a time to live, with a fencing token.  Leases of    *)
(* different keys share nothing, so one key stands for all of them.        *)
(*                                                                         *)
(* A controller keeps the Lease value its last successful Acquire or Renew *)
(* returned, and may use it however old it is.                             *)
(***************************************************************************)
EXTENDS ControllerIds

CONSTANTS
  TTLs,          \* times to live the callers ask for, in ticks of the clock
  Releasing,     \* TRUE: controllers release leases, FALSE: they let them expire
  MaxTime        \* bound: the clock

ASSUME LeaseAssumption ==
  /\ TTLs \subseteq Nat \ {0}
  /\ Releasing \in BOOLEAN
  /\ MaxTime \in Nat

VARIABLES
  clock,         \* the store's clock
  entry,         \* the store's entry of the key; token 0: there is none
  held           \* [Controllers -> the Lease value the controller has; token 0: none]

leaseVars == <<clock, entry, held>>

Leases == [owner : Controllers \cup {NoController}, token : Nat, expires : Nat]
NoLease == [owner |-> NoController, token |-> 0, expires |-> 0]

LeaseTypeOK ==
  /\ clock \in 0 .. MaxTime
  /\ entry \in Leases
  /\ held \in [Controllers -> Leases]

LeaseInit ==
  /\ clock = 0
  /\ entry = NoLease
  /\ held = [c \in Controllers |-> NoLease]

-----------------------------------------------------------------------------
(* The lease is there and has not expired. *)
Runs(lease) == lease.token > 0 /\ clock < lease.expires

(* The next lease of the key: entry.next is the token of the entry, and     *)
(* starts from zero when there is no entry.                                 *)
Grant(c, ttl) == [owner |-> c, token |-> entry.token + 1, expires |-> clock + ttl]

(* Acquire: the holder gets its lease back as it is, anybody else has to     *)
(* wait until it has expired (ErrLeaseHeld).                                 *)
Acquire(c, ttl) ==
  /\ Runs(entry) => entry.owner = c
  /\ LET lease == IF Runs(entry) THEN entry ELSE Grant(c, ttl)
     IN  entry' = lease /\ held' = [held EXCEPT ![c] = lease]
  /\ UNCHANGED clock

(* Mutant: neither the token nor the owner is compared. *)
OwnsByExpiry(c) == Runs(entry)

(* The checks of Renew, each with an error of its own. *)
Owns(c) == Runs(entry) /\ entry.token = held[c].token /\ entry.owner = held[c].owner

Renew(c, ttl) ==
  /\ held[c].token > 0
  /\ Owns(c)
  /\ entry' = [entry EXCEPT !.expires = clock + ttl]
  /\ held' = [held EXCEPT ![c] = entry']
  /\ UNCHANGED clock

(* Release deletes the entry, and the token with it; one that is deleted     *)
(* already is no error, another one's is left alone (ErrStaleToken,          *)
(* ErrNotOwner).                                                             *)
ReleaseLease(c) ==
  /\ Releasing
  /\ held[c].token > 0
  /\ entry.token > 0 => entry.token = held[c].token /\ entry.owner = held[c].owner
  /\ entry' = NoLease
  /\ held' = [held EXCEPT ![c] = NoLease]
  /\ UNCHANGED clock

Tick ==
  /\ clock < MaxTime
  /\ clock' = clock + 1
  /\ UNCHANGED <<entry, held>>

LeaseStep ==
  \/ \E c \in Controllers, ttl \in TTLs : Acquire(c, ttl) \/ Renew(c, ttl)
  \/ \E c \in Controllers : ReleaseLease(c)
  \/ Tick

-----------------------------------------------------------------------------
(* By its own copy of the lease, a controller may work. *)
Holds(c) == held[c].token > 0 /\ clock < held[c].expires

(* At most one controller may: Acquire, Renew and Release keep the copies    *)
(* of the others from outliving the entry.                                   *)
OneHolder == \A c, d \in Controllers : Holds(c) /\ Holds(d) => c = d

(* A fencing token names one grant: no two controllers have the same, and    *)
(* the running lease has the largest.                                        *)
TokensFence ==
  \A c, d \in Controllers :
    /\ held[c].token > 0 /\ held[c].token = held[d].token => c = d
    /\ Holds(c) => held[d].token <= held[c].token
=============================================================================

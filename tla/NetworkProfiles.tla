--------------------------- MODULE NetworkProfiles ---------------------------
(***************************************************************************)
(* network.FakeResolver: profiles of network access are registered, go in   *)
(* and out of use, and their endpoints can be lost, while Resolve, which    *)
(* waits between its two read locks, looks for the first that meets a       *)
(* requirement.  Names, hosts and ports of endpoints are one value here,    *)
(* and Validate is what it says of exposure.                                *)
(***************************************************************************)
EXTENDS Integers, FiniteSetsExt

CONSTANTS
  ProfileIds,       \* in the order of sort.Strings
  Offers,           \* what an administrator registers
  Requirements,
  MaxEdits,   \* bound: edits of the resolver
  Unset             \* no profile, no answer, and a field left empty

Modalities == {"none", "restricted", "internet", "unrestricted"}

ASSUME NetworkAssumption ==
  /\ ProfileIds \subseteq Nat /\ MaxEdits \in Nat
  /\ Unset \notin Modalities \cup {"public", "private"}
  /\ \A o \in Offers : o.profile \in {"public", "private"} /\ o.egress \in Modalities
  /\ \A r \in Requirements : r.profile \in {"public", "private", Unset}
                             /\ r.egress \in Modalities \cup {Unset}

VARIABLES
  profiles,         \* [ProfileIds -> an offer, or Unset]
  inUse,            \* FakeResolver.available
  reachable,        \* endpoints
  delayed,          \* FakeResolver.delay > 0
  query,            \* the call of Resolve: where it is, for what
  found,            \* its answer: "", "profile", "none" or "cancelled"; which profile
  edits

networkVars == <<profiles, inUse, reachable, delayed, query, found, edits>>

Postures == {"public", "untrusted", "isolated", "tls"}

NoAnswer(kind) == [kind |-> kind, id |-> Unset, offer |-> Unset]

NetworkInit ==
  /\ profiles = [id \in ProfileIds |-> Unset]
  /\ inUse = {} /\ reachable = {} /\ delayed = FALSE
  /\ query = [at |-> "idle", for |-> Unset] /\ found = NoAnswer("")
  /\ edits = 0

Held == {id \in ProfileIds : profiles[id] # Unset}

(* validateSecurity; a posture is the set of its flags. *)
Secure(profile, posture) ==
  /\ ~(profile = "private" /\ "public" \in posture)
  /\ "untrusted" \in posture => "isolated" \in posture

-----------------------------------------------------------------------------
(* The administration. *)

Change == edits < MaxEdits /\ edits' = edits + 1 /\ UNCHANGED <<query, found>>

(* Register: every endpoint of the profile counts as reachable again, also     *)
(* one that other profiles share and that was lost.                          *)
RegisterProfile(id, offer) ==
  /\ id \notin Held /\ Secure(offer.profile, offer.posture)
  /\ profiles' = [profiles EXCEPT ![id] = offer]
  /\ inUse' = inUse \cup {id}
  /\ reachable' = reachable \cup offer.endpoints
  /\ UNCHANGED delayed /\ Change

SetAvailable(id, available) ==
  /\ id \in Held
  /\ inUse' = IF available THEN inUse \cup {id} ELSE inUse \ {id}
  /\ UNCHANGED <<profiles, reachable, delayed>> /\ Change

SetEndpointReachable(e, isReachable) ==
  /\ reachable' = IF isReachable THEN reachable \cup {e} ELSE reachable \ {e}
  /\ UNCHANGED <<profiles, inUse, delayed>> /\ Change

SetDelay ==
  /\ delayed' = ~delayed
  /\ UNCHANGED <<profiles, inUse, reachable>> /\ Change

-----------------------------------------------------------------------------
(* Not an order: restricted access is met by nothing else. *)
EgressSatisfies(actual, required) ==
  actual = required \/ (actual = "unrestricted" /\ required = "internet")

Satisfies(offer, r) ==
  /\ r.profile \in {Unset, offer.profile}
  /\ r.egress = Unset \/ EgressSatisfies(offer.egress, r.egress)
  /\ r.posture \subseteq offer.posture
  /\ r.endpoints \subseteq offer.endpoints \cap reachable

(* Resolve, up to its timer. *)
BeginResolve(r) ==
  /\ query.at = "idle" /\ Secure(r.profile, r.posture)
  /\ query' = [at |-> IF delayed THEN "waiting" ELSE "looking", for |-> r]
  /\ found' = NoAnswer("")
  /\ UNCHANGED <<profiles, inUse, reachable, delayed, edits>>

EndDelay ==
  /\ query.at = "waiting"
  /\ query' = [query EXCEPT !.at = "looking"]
  /\ UNCHANGED <<profiles, inUse, reachable, delayed, found, edits>>

CancelResolve ==
  /\ query.at = "waiting"
  /\ query' = [query EXCEPT !.at = "idle"] /\ found' = NoAnswer("cancelled")
  /\ UNCHANGED <<profiles, inUse, reachable, delayed, edits>>

(* Under the second lock. *)
FindProfile ==
  LET fit == {id \in Held \cap inUse : Satisfies(profiles[id], query.for)}
  IN /\ query.at = "looking"
     /\ query' = [query EXCEPT !.at = "idle"]
     /\ found' = IF fit = {} THEN NoAnswer("none")
                 ELSE [kind |-> "profile", id |-> Min(fit), offer |-> profiles[Min(fit)]]
     /\ UNCHANGED <<profiles, inUse, reachable, delayed, edits>>

NetworkStep ==
  \/ \E id \in ProfileIds, o \in Offers : RegisterProfile(id, o)
  \/ \E id \in ProfileIds, a \in BOOLEAN : SetAvailable(id, a)
  \/ \E e \in UNION {o.endpoints : o \in Offers}, a \in BOOLEAN : SetEndpointReachable(e, a)
  \/ SetDelay
  \/ \E r \in Requirements : BeginResolve(r)
  \/ EndDelay \/ CancelResolve \/ FindProfile

-----------------------------------------------------------------------------
Opens(egress) == CASE egress = "none" -> 0 [] egress = "restricted" -> 1
                   [] egress = "internet" -> 2 [] egress = "unrestricted" -> 3

(* The answer of Resolve is right when it is given, however long it waited: the *)
(* profile is in use, its endpoints can be reached, it opens the network as  *)
(* far as is asked and further only from internet to unrestricted, and       *)
(* untrusted jobs are isolated.  What equals the requirement is never missed. *)
ResolvedIsFit ==
  [][query.at = "looking" /\ query'.at = "idle" =>
       LET r == query.for
       IN IF found'.kind = "none"
          THEN ~\E id \in Held \cap inUse :
                  /\ \A f \in {"profile", "egress", "posture", "endpoints"} : profiles[id][f] = r[f]
                  /\ r.endpoints \subseteq reachable
          ELSE LET o == profiles[found'.id]
               IN /\ found'.id \in inUse /\ found'.offer = o
                  /\ r.endpoints \subseteq reachable
                  /\ r.egress # Unset =>
                       Opens(o.egress) - Opens(r.egress) \in (IF r.egress = "internet" THEN {0, 1} ELSE {0})
                  /\ "untrusted" \in r.posture => "isolated" \in o.posture
                  /\ r.profile = "private" => "public" \notin o.posture]_networkVars
=============================================================================

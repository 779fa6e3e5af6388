-------------------------------- MODULE Cache --------------------------------
(***************************************************************************)
(* cache.Memory and cache.SummaryCollector.  A Memory is a bounded map with *)
(* expiry under m.mu; its operations read the clock before they take the    *)
(* lock, and report what they did when they have given it up.  A scope, a   *)
(* tenant and a namespace, has a Memory of its own; the collector, with its *)
(* own lock, adds up the reports of all of them.                            *)
(***************************************************************************)
EXTENDS Sums, Naturals, Sequences, FiniteSets

CONSTANTS
  Scopes,        \* scopes that pass ValidateScope
  Serving,       \* those whose Config.Mode is "enabled"; the others only observe
  Keys,          \* what NewKey makes of a valid KeyInput
  Users,
  MaxEntries,    \* Config.MaxEntries
  TTLs,          \* Metadata.TTL or DefaultTTL; 0: never expires
  MaxScopes,     \* of the collector
  NoEntry,
  MaxClock, MaxOps   \* bounds: instants, operations

ASSUME CacheAssumption ==
  /\ Serving \subseteq Scopes /\ TTLs \subseteq Nat
  /\ {MaxEntries, MaxScopes, MaxClock} \subseteq Nat \ {0} /\ MaxOps \in Nat

VARIABLES
  clock,
  entries,       \* [Scopes \X Keys -> m.entries: number of the Put, and expiry]
  user,          \* [Users -> the operation under way]
  ops,           \* operations begun
  removed,       \* Puts that are not in a map any more
  emitted,       \* reports so far
  summaries,     \* c.scopes: summaries of the scopes that are known
  unknown        \* c.dropped

cacheVars == <<clock, entries, user, ops, removed, emitted, summaries, unknown>>

Operations == {"get", "put", "delete", "invalidateAll"}
NoSummary == [requests |-> 0, hits |-> 0, misses |-> 0, saves |-> 0, restores |-> 0,
              invalidations |-> 0]
AtRest == [op |-> "none", at |-> NoEntry, id |-> 0, now |-> 0, ttl |-> 0, gone |-> {},
           found |-> NoEntry, todo |-> <<>>]

CacheInit ==
  /\ clock = 1 /\ ops = 0 /\ removed = {}
  /\ entries = [a \in Scopes \X Keys |-> NoEntry]
  /\ user = [u \in Users |-> AtRest]
  /\ emitted = 0 /\ summaries = <<>> /\ unknown = 0

(* An operation is called: the clock is read, the lock not yet taken. *)
BeginCall(u) ==
  /\ user[u].op = "none" /\ ops < MaxOps
  /\ ops' = ops + 1
  /\ \E op \in Operations, at \in Scopes \X Keys : \E ttl \in IF op = "put" THEN TTLs ELSE {0} :
       user' = [user EXCEPT ![u] = [AtRest EXCEPT !.op = op, !.at = at, !.id = ops + 1,
                                      !.now = clock, !.ttl = ttl, !.gone = removed]]
  /\ UNCHANGED <<clock, entries, removed, emitted, summaries, unknown>>

(* Mutant: an entry lives through the instant of its expiry. *)
ExpiredAfter(e, now) == e # NoEntry /\ e.expires # 0 /\ now > e.expires

Expired(e, now) == e # NoEntry /\ e.expires # 0 /\ now >= e.expires

IdOf(e) == IF e = NoEntry THEN {} ELSE {e.id}

(* The lock is given up; the reports follow. *)
Answer(u, found, events) ==
  user' = [user EXCEPT ![u] = IF events = <<>> THEN AtRest
                              ELSE [@ EXCEPT !.op = "report", !.found = found, !.todo = events]]

(* Get: an entry that was expired when it was called is deleted. *)
Get(u) ==
  LET c == user[u]
      e == entries[c.at]
      expired == Expired(e, c.now)
      hit == e # NoEntry /\ ~expired /\ c.at[1] \in Serving
  IN /\ c.op = "get"
     /\ entries' = IF expired THEN [entries EXCEPT ![c.at] = NoEntry] ELSE entries
     /\ removed' = IF expired THEN removed \cup IdOf(e) ELSE removed
     /\ Answer(u, IF hit THEN e ELSE NoEntry, IF hit THEN <<"hit", "restore">> ELSE <<"miss">>)

Used(scope) == {k \in Keys : entries[<<scope, k>>] # NoEntry}

(* Entries count until they are removed, expired or not. *)
MayStore(at) == entries[at] # NoEntry \/ Cardinality(Used(at[1])) < MaxEntries

Stores(scope) == scope \in Serving

(* Put: refused with ErrCacheFull, or stored; only reported if not enabled. *)
Put(u) ==
  LET c == user[u]
      e == [id |-> c.id, expires |-> IF c.ttl = 0 THEN 0 ELSE c.now + c.ttl]
  IN /\ c.op = "put"
     /\ IF ~Stores(c.at[1])
        THEN Answer(u, NoEntry, <<"save">>) /\ UNCHANGED <<entries, removed>>
        ELSE IF ~MayStore(c.at)
        THEN Answer(u, NoEntry, <<>>) /\ UNCHANGED <<entries, removed>>
        ELSE /\ entries' = [entries EXCEPT ![c.at] = e]
             /\ removed' = removed \cup IdOf(entries[c.at])
             /\ Answer(u, NoEntry, <<"save">>)

Delete(u) ==
  LET c == user[u]
  IN /\ c.op = "delete"
     /\ entries' = [entries EXCEPT ![c.at] = NoEntry]
     /\ removed' = removed \cup IdOf(entries[c.at])
     /\ Answer(u, NoEntry, <<"invalidation">>)

InvalidateAll(u) ==
  LET scope == user[u].at[1]
  IN /\ user[u].op = "invalidateAll"
     /\ entries' = [a \in Scopes \X Keys |-> IF a[1] = scope THEN NoEntry ELSE entries[a]]
     /\ removed' = removed \cup UNION {IdOf(entries[<<scope, k>>]) : k \in Keys}
     /\ Answer(u, NoEntry, <<>>)

UnderLock(u) ==
  /\ Get(u) \/ Put(u) \/ Delete(u) \/ InvalidateAll(u)
  /\ UNCHANGED <<clock, ops, emitted, summaries, unknown>>

-----------------------------------------------------------------------------
Counted(s, event) ==
  CASE event = "hit" -> [s EXCEPT !.requests = @ + 1, !.hits = @ + 1]
    [] event = "miss" -> [s EXCEPT !.requests = @ + 1, !.misses = @ + 1]
    [] event = "save" -> [s EXCEPT !.saves = @ + 1]
    [] event = "restore" -> [s EXCEPT !.restores = @ + 1]
    [] event = "invalidation" -> [s EXCEPT !.invalidations = @ + 1]

(* Mutant: the first events of a new scope are not counted. *)
RoomForScope(scope) == Cardinality(DOMAIN summaries) <= MaxScopes

(* A new scope gets a summary while there is room. *)
Room(scope) == scope \in DOMAIN summaries \/ Cardinality(DOMAIN summaries) < MaxScopes

(* SummaryCollector.Emit, one event after the other, each under c.mu. *)
EmitNext(u) ==
  LET scope == user[u].at[1]
      old == IF scope \in DOMAIN summaries THEN summaries[scope] ELSE NoSummary
      new == Counted(old, Head(user[u].todo))
  IN /\ user[u].op = "report"
     /\ emitted' = emitted + 1
     /\ IF Room(scope)
        THEN /\ summaries' = [s \in DOMAIN summaries \cup {scope} |->
                                IF s = scope THEN new ELSE summaries[s]]
             /\ UNCHANGED unknown
        ELSE unknown' = unknown + 1 /\ UNCHANGED summaries
     /\ user' = [user EXCEPT ![u] = IF Len(@.todo) = 1 THEN AtRest ELSE [@ EXCEPT !.todo = Tail(user[u].todo)]]
     /\ UNCHANGED <<clock, entries, ops, removed>>

TickClock ==
  /\ clock < MaxClock /\ clock' = clock + 1
  /\ UNCHANGED <<entries, user, ops, removed, emitted, summaries, unknown>>

CacheStep ==
  \/ TickClock
  \/ \E u \in Users : BeginCall(u) \/ UnderLock(u) \/ EmitNext(u)

-----------------------------------------------------------------------------
(* What a Get returns had not expired, and had not been deleted, invalidated  *)
(* or replaced, when it was called.                                          *)
ServedIsCurrent ==
  \A u \in Users : LET c == user[u] IN
    c.found # NoEntry =>
      /\ c.found.id \notin c.gone
      /\ c.found.expires # 0 => c.now < c.found.expires

Counts(s) == s.hits + s.misses + s.saves + s.restores + s.invalidations

Restoring(scope) ==
  {u \in Users : user[u].op = "report" /\ user[u].at[1] = scope /\ user[u].todo = <<"restore">>}

(* The summaries add up: every event is counted in its scope or as dropped;    *)
(* the requests are the hits and misses; and a hit is a restore as well, but  *)
(* for the moment between the two reports.                                   *)
SummariesAddUp ==
  /\ Cardinality(DOMAIN summaries) <= MaxScopes
  /\ \A s \in DOMAIN summaries :
       /\ summaries[s].requests = summaries[s].hits + summaries[s].misses
       /\ summaries[s].hits = summaries[s].restores + Cardinality(Restoring(s))
  /\ Total([s \in DOMAIN summaries |-> Counts(summaries[s])]) + unknown = emitted
=============================================================================

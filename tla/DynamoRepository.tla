-------------------------- MODULE DynamoRepository --------------------------
(***************************************************************************)
(* state/dynamodb.Repository: records with revisions in one table, changed  *)
(* by conditional PutItem requests; lifecycle events as a marker and copies *)
(* written in one transaction; listings that read an eventually consistent  *)
(* replica (the indexes, and the pages of a scan) page by page.             *)
(*                                                                         *)
(* The SDK sends a request again when its answer is lost, and a caller      *)
(* whose deadline passes leaves a request that may still arrive.  The table *)
(* deletes a record whose expires_at has passed (TTL).                      *)
(***************************************************************************)
EXTENDS Naturals, FiniteSets, Sequences, FiniteSetsExt

CONSTANTS
  Keys,          \* IDs of records: naturals, in the order the pages have
  Clients,       \* operations of the repository that may overlap
  States,        \* states of a record
  Fresh,         \* those a record is created in
  Final,         \* those that ListExpiredX leaves out
  Wanted,        \* the states ListX is called with: sequences, each state once
  PageSize,
  Times,         \* when one event may occur: its fingerprint
  Aggregates,    \* aggregateIDs of the event
  NoTime,
  NoState,
  MaxSaves,      \* bound: records written
  MaxFaults,     \* bound: answers lost and deadlines passed
  MaxExpiries    \* bound: records the table deletes

ASSUME DynamoAssumption ==
  /\ Keys \subseteq Nat \ {0} /\ IsFiniteSet(Keys)
  /\ NoState \notin States /\ NoTime \notin Times
  /\ Fresh \subseteq States /\ Final \subseteq States
  /\ {"scan", "expired"} \cap States = {}
  /\ Wanted \subseteq Seq(States) \ {<<>>}
  /\ \A l \in Wanted : \A i, j \in DOMAIN l : l[i] = l[j] => i = j
  /\ PageSize \in Nat \ {0}
  /\ MaxSaves \in Nat /\ MaxFaults \in Nat /\ MaxExpiries \in Nat

VARIABLES
  items,         \* [Keys -> the record in the table]
  replica,       \* [Keys -> the record the indexes and scans show]
  due,           \* records whose expires_at has passed
  marker,        \* the marker of the event: when it occurred, or NoTime
  copies,        \* the copies of the event: <<aggregate, time>>
  op,            \* [Clients -> the operation, or the last answer]
  late,          \* requests nobody waits for that may still arrive
  saves, faults, expiries,
  written,       \* saves that have reached the table
  owners         \* clients told "inserted" since the marker was last absent

vars == <<items, replica, due, marker, copies, op, late, saves, faults, expiries,
          written, owners>>
tableVars == <<items, replica, due, written, saves, expiries>>
eventVars == <<marker, copies, owners>>

NoRecord == [rev |-> 0, by |-> 0, st |-> NoState]
Records == [rev : Nat, by : 0 .. MaxSaves, st : States \cup {NoState}]

Idle == [pc |-> "idle"]
Answer(a) == [pc |-> "answered", answer |-> a]
Free(c) == op[c].pc \in {"idle", "answered", "listed", "read", "saved"}
Become(c, o) == op' = [op EXCEPT ![c] = o]

Init ==
  /\ items = [k \in Keys |-> NoRecord] /\ replica = items
  /\ due = {} /\ marker = NoTime /\ copies = {}
  /\ op = [c \in Clients |-> Idle]
  /\ late = {} /\ saves = 0 /\ faults = 0 /\ expiries = 0
  /\ written = {} /\ owners = {}

Fault == faults < MaxFaults /\ faults' = faults + 1

-----------------------------------------------------------------------------
(* GetX: a consistent read; ErrNotFound is revision 0. *)
Get(c, k) ==
  /\ Free(c)
  /\ Become(c, [pc |-> "read", key |-> k, rev |-> items[k].rev])
  /\ UNCHANGED <<tableVars, eventVars, late, faults>>

Request(kind, k, expected, st) ==
  [pc |-> "put", kind |-> kind, key |-> k, expected |-> expected,
   rec |-> [rev |-> expected + 1, by |-> saves + 1, st |-> st], resent |-> FALSE]

(* CreateX: the record must be absent. *)
Create(c, k, st) ==
  /\ Free(c) /\ saves < MaxSaves
  /\ saves' = saves + 1
  /\ Become(c, Request("create", k, 0, st))
  /\ UNCHANGED <<items, replica, due, written, expiries, eventVars, late, faults>>

(* SaveX with the revision the caller has read. *)
Save(c, st) ==
  /\ op[c].pc = "read" /\ saves < MaxSaves
  /\ saves' = saves + 1
  /\ Become(c, Request("save", op[c].key, op[c].rev, st))
  /\ UNCHANGED <<items, replica, due, written, expiries, eventVars, late, faults>>

(* Mutant: a save only asks that the record exists. *)
AdmitsAnyRevision(r) == r.expected = 0 <=> items[r.key].rev = 0

(* attribute_not_exists(pk), or attribute_exists(pk) AND revision = :expected. *)
Admits(r) == items[r.key].rev = r.expected

Write(r) ==
  /\ items' = [items EXCEPT ![r.key] = r.rec]
  /\ written' = written \cup {r.rec.by}

(* PutItem succeeds; its answer arrives, or is lost and the SDK asks again. *)
PutItem(c) ==
  /\ op[c].pc = "put" /\ Admits(op[c])
  /\ Write(op[c])
  /\ \/ /\ Become(c, [pc |-> "saved", answer |-> "ok", rec |-> op[c].rec, resent |-> FALSE])
        /\ UNCHANGED faults
     \/ Fault /\ Become(c, [op[c] EXCEPT !.resent = TRUE])
  /\ UNCHANGED <<replica, due, saves, expiries, eventVars, late>>

Refused(o, a) == [pc |-> "saved", answer |-> a, rec |-> o.rec, resent |-> o.resent]

(* The condition fails: create answers ErrAlreadyExists, save reads the       *)
(* record once more.                                                         *)
PutRefused(c) ==
  /\ op[c].pc = "put" /\ ~Admits(op[c])
  /\ Become(c, IF op[c].kind = "create" THEN Refused(op[c], "exists")
                                        ELSE [op[c] EXCEPT !.pc = "check"])
  /\ UNCHANGED <<tableVars, eventVars, late, faults>>

(* Mutant: the revision the caller wanted to write is taken for its write. *)
CheckByRevision(c) ==
  /\ op[c].pc = "check"
  /\ Become(c, Refused(op[c], IF items[op[c].key].rev = op[c].rec.rev THEN "ok" ELSE "conflict"))
  /\ UNCHANGED <<tableVars, eventVars, late, faults>>

(* save's second read tells ErrNotFound from ErrRevisionConflict. *)
Check(c) ==
  /\ op[c].pc = "check"
  /\ Become(c, Refused(op[c], IF items[op[c].key].rev = 0 THEN "notfound" ELSE "conflict"))
  /\ UNCHANGED <<tableVars, eventVars, late, faults>>

(* OperationTimeout, or the caller's context, ends the wait: the request may  *)
(* arrive all the same.  save takes any failure of its second read but       *)
(* ErrNotFound for a conflict.                                               *)
GiveUp(c) ==
  /\ op[c].pc \in {"put", "check", "insert", "reread", "delete"} /\ Fault
  /\ late' = IF op[c].pc \in {"put", "insert", "delete"} THEN late \cup {op[c]} ELSE late
  /\ Become(c, IF op[c].pc = "check" THEN Refused(op[c], "conflict") ELSE Answer("error"))
  /\ UNCHANGED <<tableVars, eventVars>>

-----------------------------------------------------------------------------
(* getEventMarker of InsertLifecycleEvent. *)
Insert(c, t) ==
  /\ Free(c)
  /\ Become(c, IF marker = NoTime THEN [pc |-> "insert", time |-> t, applied |-> FALSE]
               ELSE Answer(IF marker = t THEN "replay" ELSE "event conflict"))
  /\ UNCHANGED <<tableVars, eventVars, late, faults>>

CopiesAt(t) == {<<a, t>> : a \in Aggregates}

(* Mutant: the copies have the condition, the marker has none. *)
CanInsertCopies(t) == copies \cap CopiesAt(t) = {}

(* Every Put of the transaction has the condition attribute_not_exists(pk). *)
CanInsert(t) == marker = NoTime /\ copies \cap CopiesAt(t) = {}

InsertAll(t) == marker' = t /\ copies' = copies \cup CopiesAt(t)

(* The transaction of the marker and its copies.  A request sent again has    *)
(* the token of the first one, and is answered without being applied again.   *)
TransactInsert(c) ==
  /\ op[c].pc = "insert"
  /\ \/ /\ ~op[c].applied /\ CanInsert(op[c].time)
        /\ InsertAll(op[c].time)
        /\ \/ /\ Become(c, Answer("inserted")) /\ owners' = owners \cup {c}
              /\ UNCHANGED faults
           \/ Fault /\ Become(c, [op[c] EXCEPT !.applied = TRUE]) /\ UNCHANGED owners
     \/ /\ op[c].applied
        /\ Become(c, Answer("inserted"))
        /\ owners' = owners \cup {c}
        /\ UNCHANGED <<marker, copies, faults>>
     \/ /\ ~op[c].applied /\ ~CanInsert(op[c].time)
        /\ Become(c, [op[c] EXCEPT !.pc = "reread"])
        /\ UNCHANGED <<eventVars, faults>>
  /\ UNCHANGED <<tableVars, late>>

(* The transaction was cancelled: who has the marker? *)
Reread(c) ==
  /\ op[c].pc = "reread"
  /\ Become(c, Answer(CASE marker = op[c].time -> "replay"
                        [] marker = NoTime -> "error"
                        [] OTHER -> "event conflict"))
  /\ UNCHANGED <<tableVars, eventVars, late, faults>>

(* The controller takes an event back only if its own insert was answered     *)
(* "inserted" and the work on it failed.                                     *)
MayDelete(c) == op[c].pc = "answered" /\ op[c].answer = "inserted"

(* getEventMarker of DeleteLifecycleEvent: the keys of the copies to delete. *)
Delete(c) ==
  /\ MayDelete(c)
  /\ Become(c, IF marker = NoTime THEN Idle ELSE [pc |-> "delete", time |-> marker, applied |-> FALSE])
  /\ UNCHANGED <<tableVars, eventVars, late, faults>>

DeleteAll(t) == marker' = NoTime /\ copies' = copies \ CopiesAt(t) /\ owners' = {}

TransactDelete(c) ==
  /\ op[c].pc = "delete"
  /\ \/ /\ ~op[c].applied /\ marker # NoTime
        /\ DeleteAll(op[c].time)
        /\ \/ Become(c, Idle) /\ UNCHANGED faults
           \/ Fault /\ Become(c, [op[c] EXCEPT !.applied = TRUE])
     \/ /\ op[c].applied \/ marker = NoTime
        /\ Become(c, Idle)
        /\ UNCHANGED <<eventVars, faults>>
  /\ UNCHANGED <<tableVars, late>>

(* A request whose caller has gone arrives. *)
Land(r) ==
  /\ r \in late /\ late' = late \ {r}
  /\ \/ /\ r.pc = "put"
        /\ IF Admits(r) THEN Write(r) ELSE UNCHANGED <<items, written>>
        /\ UNCHANGED eventVars
     \/ /\ r.pc = "insert"
        /\ IF ~r.applied /\ CanInsert(r.time) THEN InsertAll(r.time) ELSE UNCHANGED <<marker, copies>>
        /\ UNCHANGED <<items, written, owners>>
     \/ /\ r.pc = "delete"
        /\ IF ~r.applied /\ marker # NoTime THEN DeleteAll(r.time) ELSE UNCHANGED eventVars
        /\ UNCHANGED <<items, written>>
  /\ UNCHANGED <<replica, due, saves, expiries, op, faults>>

-----------------------------------------------------------------------------
(* The replica catches up with one record. *)
Propagate(k) ==
  /\ replica[k] # items[k]
  /\ replica' = [replica EXCEPT ![k] = items[k]]
  /\ UNCHANGED <<items, due, written, saves, expiries, eventVars, op, late, faults>>

(* The expiry a record was created with passes. *)
FallDue(k) ==
  /\ k \notin due /\ items[k].rev > 0 /\ due' = due \cup {k}
  /\ UNCHANGED <<items, replica, written, saves, expiries, eventVars, op, late, faults>>

(* TTL deletes a record some time after it is due: hours after any request    *)
(* that was on its way when it was due, but a caller may still hold what it  *)
(* has read.                                                                 *)
Expire(k) ==
  /\ k \in due /\ items[k].rev > 0 /\ expiries < MaxExpiries
  /\ \A r \in late \cup {op[c] : c \in Clients} : r.pc \in {"put", "check"} => r.key # k
  /\ items' = [items EXCEPT ![k] = NoRecord]
  /\ due' = due \ {k} /\ expiries' = expiries + 1
  /\ UNCHANGED <<replica, written, saves, eventVars, op, late, faults>>

(* What ListX, or ListExpiredX, asks for: partitions of an index, or a scan. *)
Scan == <<"scan">>
Overdue == <<"expired">>
Listings == {Scan, Overdue} \cup Wanted

Partition(p) ==
  {k \in Keys : replica[k].rev > 0 /\ (p = "scan" \/ (p = "expired" /\ k \in due) \/ replica[k].st = p)}

(* ListExpiredX drops the records that are done; ListX drops nothing a query  *)
(* for its states has found.                                                 *)
Kept(listing, rec) ==
  CASE listing = Scan -> TRUE
    [] listing = Overdue -> rec.st \notin Final
    [] OTHER -> rec.st \in {listing[i] : i \in DOMAIN listing}

Belongs(listing, k) ==
  /\ items[k].rev > 0 /\ Kept(listing, items[k])
  /\ listing = Overdue => k \in due

(* "settled": what the table had, where the replica agreed with it and the    *)
(* record belonged in the listing.                                           *)
List(c, listing) ==
  /\ Free(c)
  /\ Become(c, [pc |-> "list", listing |-> listing, todo |-> listing, after |-> 0, found |-> {},
                settled |-> [k \in {k \in Keys : replica[k] = items[k] /\ Belongs(listing, k)}
                               |-> items[k]]])
  /\ UNCHANGED <<tableVars, eventVars, late, faults>>

(* The first PageSize keys of s in order. *)
FirstPage(s) == {k \in s : Cardinality({j \in s : j < k}) < PageSize}

(* A page of the partition at hand, after the last key of the page before. *)
Page(c) == FirstPage({k \in Partition(Head(op[c].todo)) : k > op[c].after})

(* Mutant: the next query starts after the last key of this one. *)
GoOn(o) == [o EXCEPT !.todo = Tail(@)]

(* The next state's query starts at the first key. *)
NextQuery(o) == [o EXCEPT !.after = 0, !.todo = Tail(@)]

(* query and scanEntities: a page, until there is none left, and then the     *)
(* next partition.  The listing is complete when there is no partition left. *)
ReadPage(c) ==
  LET o == op[c]
      page == Page(c)
      found == o.found \cup {[from |-> Len(o.todo), key |-> k, rec |-> replica[k]] : k \in page}
  IN /\ o.pc = "list"
     /\ Become(c, IF Cardinality(page) = PageSize
                  THEN [o EXCEPT !.found = found, !.after = Max(page)]
                  ELSE IF Len(o.todo) > 1
                  THEN NextQuery([o EXCEPT !.found = found])
                  ELSE [pc |-> "listed", settled |-> o.settled,
                        found |-> {f \in found : Kept(o.listing, f.rec)}])
     /\ UNCHANGED <<tableVars, eventVars, late, faults>>

RecordStep ==
  \/ \E c \in Clients :
       \/ \E k \in Keys : Get(c, k)
       \/ \E k \in Keys, st \in Fresh : Create(c, k, st)
       \/ \E st \in States : Save(c, st)
       \/ PutItem(c) \/ PutRefused(c) \/ Check(c)
       \/ \E l \in Listings : List(c, l)
       \/ ReadPage(c)
  \/ \E k \in Keys : Propagate(k) \/ FallDue(k) \/ Expire(k)

EventStep ==
  \E c \in Clients :
    \/ \E t \in Times : Insert(c, t)
    \/ TransactInsert(c) \/ Reread(c) \/ Delete(c) \/ TransactDelete(c)

RequestStep == (\E c \in Clients : GiveUp(c)) \/ (\E r \in late : Land(r))

Next == RecordStep \/ EventStep \/ RequestStep

Spec == Init /\ [][Next]_vars

-----------------------------------------------------------------------------
Answers ==
  {"error", "ok", "exists", "notfound", "conflict", "inserted", "replay", "event conflict"}
PutRequests ==
  [pc : {"put", "check"}, kind : {"create", "save"}, key : Keys, expected : Nat,
   rec : Records, resent : BOOLEAN]
SaveAnswers == [pc : {"saved"}, answer : Answers, rec : Records, resent : BOOLEAN]
EventRequests == [pc : {"insert", "reread", "delete"}, time : Times, applied : BOOLEAN]

Operations ==
  {Idle} \cup [pc : {"answered"}, answer : Answers] \cup [pc : {"read"}, key : Keys, rev : Nat]
  \cup PutRequests \cup SaveAnswers \cup EventRequests

IsListing(o) == o.pc \in {"list", "listed"} /\ "pc" \in DOMAIN o

(* The tables hold records, and every operation is in one of its steps. *)
TypeOK ==
  /\ items \in [Keys -> Records] /\ replica \in [Keys -> Records]
  /\ due \subseteq Keys
  /\ marker \in Times \cup {NoTime} /\ copies \subseteq Aggregates \X Times
  /\ \A c \in Clients : op[c] \in Operations \/ IsListing(op[c])
  /\ late \subseteq Operations
  /\ written \subseteq 1 .. saves /\ owners \subseteq Clients

(* The table is a VersionedTable whose records expire: a save that two         *)
(* callers base on one revision happens once, whatever is lost, sent again or *)
(* arrives late.                                                             *)
Table == INSTANCE VersionedTable
           WITH Deletable <- Keys,
                table <- [k \in Keys |-> [rev |-> items[k].rev, by |-> items[k].by]]
TableSpec == Table!KeepingSpec

(* repository.go:84: no retry duplicates a conditional mutation.  A write      *)
(* reaches the table at most once.                                           *)
WrittenOnce ==
  [][\A k \in Keys : items'[k] # items[k] /\ items'[k].rev > 0 => items'[k].by \notin written]_vars

(* A save that is answered nil is in the table's history; one that is refused *)
(* is not, unless the answer of its first request was lost.                  *)
AnswersAreTrue ==
  \A c \in Clients :
    op[c].pc = "saved" =>
      IF op[c].answer = "ok" THEN op[c].rec.by \in written
      ELSE op[c].rec.by \in written => op[c].resent

(* README.md of the package: the marker and all the copies are written and    *)
(* deleted together.                                                         *)
EventIsWhole == copies = IF marker = NoTime THEN {} ELSE CopiesAt(marker)

(* Of all deliveries of one event, one is told to do the work. *)
InsertedOnce == Cardinality(owners) <= 1

(* A record that belongs in a listing when it begins, was known to the        *)
(* replica and has not changed since, is in it exactly once and as it is,    *)
(* whatever else changes between the pages.                                  *)
SettledAreListedOnce ==
  \A c \in Clients :
    op[c].pc = "listed" =>
      \A k \in DOMAIN op[c].settled :
        items[k] = op[c].settled[k] =>
          /\ Cardinality({f \in op[c].found : f.key = k}) = 1
          /\ \A f \in op[c].found : f.key = k => f.rec = items[k]
=============================================================================

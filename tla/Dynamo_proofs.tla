---------------------------- MODULE Dynamo_proofs ----------------------------
(***************************************************************************)
(* The DynamoDB repository implements a versioned table, an event is         *)
(* inserted once and whole, and a listing has what does not change while it *)
(* is read, for any number of records, clients, lost answers, requests that *)
(* arrive late and expiries.                                                *)
(***************************************************************************)
EXTENDS DynamoRepository, Sums_proofs

(* All requests and answers there are. *)
Known == late \cup {op[c] : c \in Clients}

(* Those that stand for one save. *)
Numbered(o) == o.pc \in {"put", "check", "saved"}

(* A save's number is in use, and it is one revision on from the one it is    *)
(* based on.                                                                 *)
Made(o) ==
  /\ o.rec.by \in 1 .. saves
  /\ o.pc \in {"put", "check"} => o.rec.rev = o.expected + 1

TypeInv ==
  /\ TypeOK
  /\ saves \in 0 .. MaxSaves
  /\ op = [c \in Clients |-> op[c]]
  /\ \A o \in Known : Numbered(o) => Made(o)

(* No two requests or answers stand for the same save. *)
NumbersDiffer ==
  /\ \A c, d \in Clients :
       Numbered(op[c]) /\ Numbered(op[d]) /\ op[c].rec.by = op[d].rec.by => c = d
  /\ \A r \in late : r.pc = "put" =>
       /\ \A c \in Clients : Numbered(op[c]) => op[c].rec.by # r.rec.by
       /\ \A s \in late : s.pc = "put" /\ s.rec.by = r.rec.by => s = r

(* The table has moved past what a request that was written once is based on. *)
Past(o, table) == table[o.key].rev > o.expected

WrittenIsPast == \A o \in Known : o.pc = "put" /\ o.rec.by \in written => Past(o, items)

(* A request that was written has been sent again by whoever still waits for   *)
(* its answer.                                                               *)
WrittenIsResent ==
  \A c \in Clients :
    op[c].pc \in {"put", "check"} /\ op[c].rec.by \in written => op[c].resent

WriteInv == TypeInv /\ NumbersDiffer /\ WrittenIsPast /\ WrittenIsResent /\ AnswersAreTrue

(* Who may take the event back, or is about to learn that it is its own. *)
Entitled(o) ==
  \/ o.pc = "answered" /\ o.answer = "inserted"
  \/ o.pc = "insert" /\ o.applied
  \/ o.pc = "delete" /\ ~o.applied

Withdraws(o) == o.pc = "delete" /\ ~o.applied

(* One at most is entitled, and only while the event is there. *)
EventInv ==
  /\ EventIsWhole
  /\ marker = NoTime => owners = {}
  /\ \A c \in Clients :
       Entitled(op[c]) => marker # NoTime /\ (Withdraws(op[c]) => op[c].time = marker)
  /\ \A c, d \in Clients : Entitled(op[c]) /\ Entitled(op[d]) => c = d
  /\ \A r \in late : Withdraws(r) =>
       marker = r.time /\ (\A c \in Clients : ~Entitled(op[c]))
  /\ \A r, s \in late : Withdraws(r) /\ Withdraws(s) => r = s
  /\ \A c \in Clients : op[c].pc = "insert" /\ op[c].applied => owners = {}
  /\ \A c, d \in owners : c = d

-----------------------------------------------------------------------------
(* What a step of a client does to its operation, and to no other.            *)
LEMMA Becomes ==
  ASSUME NEW c \in Clients, NEW o, op = [d \in Clients |-> op[d]], Become(c, o)
  PROVE  /\ op' = [d \in Clients |-> op'[d]]
         /\ op'[c] = o
         /\ \A d \in Clients \ {c} : op'[d] = op[d]
BY DEF Become

(* The fields of a request that is on its way, or refused. *)
LEMMA RequestFields ==
  ASSUME TypeInv, NEW o \in Known, Numbered(o)
  PROVE  /\ o \in Operations /\ Made(o)
         /\ o.rec \in Records /\ o.resent \in BOOLEAN
         /\ o.pc \in {"put", "check"} =>
              /\ o \in PutRequests
              /\ o.key \in Keys /\ o.expected \in Nat
<1>1. o \in Operations
  BY DEF Known, TypeInv, TypeOK, IsListing, Numbered
<1> QED BY <1>1 DEF TypeInv, Operations, Numbered, Idle, PutRequests, SaveAnswers, EventRequests

(* A save that is admitted: the one step that changes a record. *)
LEMMA AdmittedSave ==
  ASSUME TypeInv, NEW r \in Known, r.pc = "put", Admits(r), Write(r)
  PROVE  /\ items' \in [Keys -> Records]
         /\ items'[r.key] = r.rec
         /\ r.rec.rev = items[r.key].rev + 1
         /\ r.rec.by \in 1 .. saves
         /\ \A k \in Keys \ {r.key} : items'[k] = items[k]
         /\ written' = written \cup {r.rec.by}
<1>1. r.key \in Keys /\ r.expected \in Nat /\ r.rec \in Records /\ Made(r)
  BY RequestFields DEF Numbered
<1>2. items \in [Keys -> Records]
  BY DEF TypeInv, TypeOK
<1> QED BY <1>1, <1>2 DEF Admits, Write, Made

(* The operations of every client are well typed after a step that gives one   *)
(* of them a well-typed operation.                                           *)
Typed(o, n) ==
  /\ o \in Operations \/ IsListing(o)
  /\ Numbered(o) => /\ o.rec.by \in 1 .. n
                    /\ o.pc \in {"put", "check"} => o.rec.rev = o.expected + 1

(* What clients are left with that has no number. *)
LEMMA PlainTyped ==
  ASSUME NEW n
  PROVE  /\ \A a \in Answers : Typed(Answer(a), n)
         /\ Typed(Idle, n)
         /\ \A k \in Keys, r \in Nat : Typed([pc |-> "read", key |-> k, rev |-> r], n)
         /\ \A o \in EventRequests : Typed(o, n)
<1>1. ASSUME NEW a \in Answers PROVE Typed(Answer(a), n)
  BY DEF Typed, Answer, Operations, Numbered
<1>2. Typed(Idle, n)
  BY DEF Typed, Idle, Operations, Numbered
<1>3. ASSUME NEW k \in Keys, NEW r \in Nat
      PROVE  Typed([pc |-> "read", key |-> k, rev |-> r], n)
  BY DEF Typed, Operations, Numbered
<1>4. ASSUME NEW o \in EventRequests PROVE Typed(o, n)
  BY DEF Typed, Operations, EventRequests, Numbered
<1> QED BY <1>1, <1>2, <1>3, <1>4

(* What a request becomes that was refused, answered or sent again. *)
LEMMA NumberedTyped ==
  ASSUME NEW n, NEW o \in PutRequests, Typed(o, n), NEW a \in Answers
  PROVE  /\ Typed([pc |-> "saved", answer |-> a, rec |-> o.rec, resent |-> FALSE], n)
         /\ Typed(Refused(o, a), n)
         /\ Typed([o EXCEPT !.resent = TRUE], n)
         /\ Typed([o EXCEPT !.pc = "check"], n)
<1>1. o.rec \in Records /\ o.resent \in BOOLEAN /\ o.pc \in {"put", "check"}
  BY DEF PutRequests
<1>2. o.rec.by \in 1 .. n /\ o.rec.rev = o.expected + 1
  BY <1>1 DEF Typed, Numbered
<1>3. ASSUME NEW b \in BOOLEAN
      PROVE  Typed([pc |-> "saved", answer |-> a, rec |-> o.rec, resent |-> b], n)
  <2>1. [pc |-> "saved", answer |-> a, rec |-> o.rec, resent |-> b] \in SaveAnswers
    BY <1>1 DEF SaveAnswers
  <2> QED BY <1>2, <2>1 DEF Typed, Operations, Numbered
<1>4. ASSUME NEW q \in PutRequests, q.rec = o.rec, q.expected = o.expected
      PROVE  Typed(q, n)
  BY <1>2, <1>4 DEF Typed, Operations
<1>5. [o EXCEPT !.resent = TRUE] \in PutRequests /\ [o EXCEPT !.pc = "check"] \in PutRequests
  BY DEF PutRequests
<1>6. /\ [o EXCEPT !.resent = TRUE].rec = o.rec /\ [o EXCEPT !.resent = TRUE].expected = o.expected
      /\ [o EXCEPT !.pc = "check"].rec = o.rec /\ [o EXCEPT !.pc = "check"].expected = o.expected
  BY DEF PutRequests
<1> QED BY <1>1, <1>3, <1>4, <1>5, <1>6 DEF Refused

(* What a page leaves behind is a listing. *)
LEMMA PageRead ==
  ASSUME NEW c, IsListing(op[c]), ReadPage(c)
  PROVE  \E o : Become(c, o) /\ IsListing(o)
<1> DEFINE found == op[c].found \cup {[from |-> Len(op[c].todo), key |-> k, rec |-> replica[k]] : k \in Page(c)}
           more == [op[c] EXCEPT !.found = found, !.after = Max(Page(c))]
           next == NextQuery([op[c] EXCEPT !.found = found])
           done == [pc |-> "listed", settled |-> op[c].settled,
                    found |-> {f \in found : Kept(op[c].listing, f.rec)}]
<1>1. IsListing(more)
  BY DEF IsListing
<1>2. IsListing([op[c] EXCEPT !.found = found])
  BY DEF IsListing
<1>3. ASSUME NEW o, IsListing(o) PROVE IsListing(NextQuery(o))
  BY <1>3 DEF IsListing, NextQuery
<1>4. IsListing(done)
  BY DEF IsListing
<1>5. Become(c, more) \/ Become(c, next) \/ Become(c, done)
  BY DEF ReadPage
<1> HIDE DEF more, next, done
<1>6. IsListing(next)
  BY <1>2, <1>3 DEF next
<1> QED BY <1>1, <1>4, <1>5, <1>6

LEMMA TypedStep ==
  ASSUME TypeInv, NEW c \in Clients, NEW o, Become(c, o),
         saves' \in saves .. MaxSaves, Typed(o, saves'),
         late' \subseteq late \cup {op[c]}, late' \subseteq Operations,
         items' \in [Keys -> Records], replica' \in [Keys -> Records], due' \subseteq Keys,
         marker' \in Times \cup {NoTime}, copies' \subseteq Aggregates \X Times,
         written' \subseteq 1 .. saves', owners' \subseteq Clients
  PROVE  TypeInv'
<1>1. /\ op' = [d \in Clients |-> op'[d]] /\ op'[c] = o
      /\ \A d \in Clients \ {c} : op'[d] = op[d]
  BY Becomes DEF TypeInv
<1>2. TypeOK'
  BY <1>1 DEF TypeInv, TypeOK, Typed
<1>3. ASSUME NEW x \in Known', Numbered(x) PROVE Made(x)'
  <2>1. CASE x \in Known
    BY <1>3, <2>1 DEF TypeInv, Made
  <2>2. CASE x = o
    BY <1>3, <2>2 DEF Typed, Made
  <2> QED BY <1>1, <2>1, <2>2 DEF Known
<1> QED BY <1>1, <1>2, <1>3, DynamoAssumption DEF TypeInv

LEMMA TypeInvStep == TypeInv /\ [Next]_vars => TypeInv'
<1> SUFFICES ASSUME TypeInv, [Next]_vars PROVE TypeInv'
  OBVIOUS
<1> USE DynamoAssumption
<1>1. TypeOK /\ saves \in 0 .. MaxSaves /\ op = [c \in Clients |-> op[c]]
  BY DEF TypeInv
<1>2. ASSUME NEW c \in Clients,
             \/ \E k \in Keys : Get(c, k)
             \/ PutRefused(c) \/ Check(c) \/ ReadPage(c)
             \/ \E l \in Listings : List(c, l)
             \/ \E t \in Times : Insert(c, t)
             \/ Reread(c) \/ Delete(c)
      PROVE TypeInv'
  <2>1. UNCHANGED <<tableVars, eventVars, late>>
    BY <1>2 DEF Get, PutRefused, Check, ReadPage, List, Insert, Reread, Delete
  <2>2. PICK o : Become(c, o) /\ Typed(o, saves')
    <3>1. CASE \E k \in Keys : Get(c, k)
      BY <1>1, <3>1, PlainTyped DEF Get, TypeOK, Records
    <3>2. CASE PutRefused(c) \/ Check(c)
      <4>1. op[c] \in Known /\ Numbered(op[c])
        BY <3>2 DEF PutRefused, Check, Known, Numbered
      <4>2. op[c] \in PutRequests /\ Typed(op[c], saves')
        BY <2>1, <3>2, <4>1, RequestFields DEF PutRefused, Check, Typed, Made, tableVars
      <4>3. \A a \in Answers : Typed(Refused(op[c], a), saves')
        BY <4>2, NumberedTyped
      <4>4. Typed([op[c] EXCEPT !.pc = "check"], saves')
        BY <4>2, NumberedTyped DEF Answers
      <4> QED BY <3>2, <4>3, <4>4 DEF PutRefused, Check, Answers
    <3>3. CASE ReadPage(c)
      <4>1. IsListing(op[c])
        BY <1>1, <3>3
        DEF ReadPage, TypeOK, IsListing, Operations, Idle, PutRequests, SaveAnswers, EventRequests
      <4>2. PICK o : Become(c, o) /\ IsListing(o)
        BY <3>3, <4>1, PageRead
      <4> QED BY <4>2 DEF Typed, IsListing, Numbered
    <3>4. CASE \E l \in Listings : List(c, l)
      BY <3>4 DEF List, Typed, IsListing, Numbered
    <3>5. CASE \E t \in Times : Insert(c, t)
      <4>1. PICK t \in Times : Insert(c, t)
        BY <3>5
      <4>2. [pc |-> "insert", time |-> t, applied |-> FALSE] \in EventRequests
        BY DEF EventRequests
      <4> QED BY <4>1, <4>2, PlainTyped DEF Insert, Answers
    <3>6. CASE Reread(c)
      BY <3>6, PlainTyped DEF Reread, Answers
    <3>7. CASE Delete(c)
      <4>1. marker # NoTime =>
              [pc |-> "delete", time |-> marker, applied |-> FALSE] \in EventRequests
        BY <1>1 DEF TypeOK, EventRequests
      <4> QED BY <3>7, <4>1, PlainTyped DEF Delete
    <3> QED BY <1>2, <3>1, <3>2, <3>3, <3>4, <3>5, <3>6, <3>7
  <2> QED BY <1>1, <2>1, <2>2, TypedStep DEF TypeOK, tableVars, eventVars
<1>3. ASSUME NEW c \in Clients,
             \/ \E k \in Keys, st \in Fresh : Create(c, k, st)
             \/ \E st \in States : Save(c, st)
      PROVE TypeInv'
  <2>1. UNCHANGED <<items, replica, due, written, eventVars, late>> /\ saves' = saves + 1 /\ saves < MaxSaves
    BY <1>3 DEF Create, Save
  <2>2. PICK o : Become(c, o) /\ Typed(o, saves')
    <3>1. ASSUME NEW kind \in {"create", "save"}, NEW k \in Keys, NEW e \in Nat, NEW st \in States
          PROVE  Typed(Request(kind, k, e, st), saves')
      <4>1. Request(kind, k, e, st) \in PutRequests
        BY <1>1, <2>1 DEF Request, PutRequests, Records
      <4> QED BY <1>1, <2>1, <4>1 DEF Typed, Request, Operations
    <3>2. CASE \E k \in Keys, st \in Fresh : Create(c, k, st)
      <4>1. PICK k \in Keys, st \in Fresh : Create(c, k, st)
        BY <3>2
      <4>2. Typed(Request("create", k, 0, st), saves')
        BY <3>1
      <4> QED BY <4>1, <4>2 DEF Create, Request
    <3>3. CASE \E st \in States : Save(c, st)
      <4>1. PICK st \in States : Save(c, st)
        BY <3>3
      <4>2. op[c].key \in Keys /\ op[c].rev \in Nat
        BY <1>1, <4>1 DEF Save, TypeOK, Operations, IsListing, Idle, PutRequests, SaveAnswers, EventRequests
      <4>3. Typed(Request("save", op[c].key, op[c].rev, st), saves')
        BY <3>1, <4>2
      <4> QED BY <4>1, <4>3 DEF Save, Request
    <3> QED BY <1>3, <3>2, <3>3
  <2>3. written' \subseteq 1 .. saves'
    BY <1>1, <2>1 DEF TypeOK
  <2>4. saves' \in saves .. MaxSaves
    BY <1>1, <2>1
  <2> QED BY <1>1, <2>1, <2>2, <2>3, <2>4, TypedStep DEF TypeOK, eventVars
<1>4. ASSUME NEW c \in Clients, PutItem(c) PROVE TypeInv'
  <2>1. op[c] \in Known /\ op[c].pc = "put" /\ Numbered(op[c]) /\ Admits(op[c]) /\ Write(op[c])
    BY <1>4 DEF PutItem, Known, Numbered
  <2>2. items' \in [Keys -> Records] /\ written' \subseteq 1 .. saves
    BY <1>1, <2>1, AdmittedSave DEF TypeOK
  <2>3. UNCHANGED <<replica, due, saves, eventVars, late>>
    BY <1>4 DEF PutItem
  <2>4. PICK o : Become(c, o) /\ Typed(o, saves')
    <3>1. op[c] \in PutRequests /\ Typed(op[c], saves')
      BY <2>1, <2>3, RequestFields DEF Typed, Made
    <3>2. /\ Typed([pc |-> "saved", answer |-> "ok", rec |-> op[c].rec, resent |-> FALSE], saves')
          /\ Typed([op[c] EXCEPT !.resent = TRUE], saves')
      BY <3>1, NumberedTyped DEF Answers
    <3> QED BY <1>4, <3>2 DEF PutItem
  <2> QED BY <1>1, <2>2, <2>3, <2>4, TypedStep DEF TypeOK, eventVars
<1>5. ASSUME NEW c \in Clients, GiveUp(c) PROVE TypeInv'
  <2>1. UNCHANGED <<tableVars, eventVars>> /\ late' \subseteq late \cup {op[c]}
    BY <1>5 DEF GiveUp
  <2>2. late' \subseteq Operations
    BY <1>1, <1>5 DEF GiveUp, TypeOK, IsListing
  <2>3. PICK o : Become(c, o) /\ Typed(o, saves')
    <3>1. CASE op[c].pc = "check"
      <4>1. op[c] \in PutRequests /\ Typed(op[c], saves')
        BY <1>1, <2>1, <3>1, RequestFields DEF Typed, Made, Known, Numbered, tableVars
      <4>2. Typed(Refused(op[c], "conflict"), saves')
        BY <4>1, NumberedTyped DEF Answers, Refused
      <4> QED BY <1>5, <3>1, <4>2 DEF GiveUp
    <3>2. CASE op[c].pc # "check"
      <4>1. Typed(Answer("error"), saves')
        BY PlainTyped DEF Answers
      <4> QED BY <1>5, <3>2, <4>1 DEF GiveUp
    <3> QED BY <3>1, <3>2
  <2> QED BY <1>1, <2>1, <2>2, <2>3, TypedStep DEF TypeOK, tableVars, eventVars
<1>6. ASSUME NEW c \in Clients, TransactInsert(c) \/ TransactDelete(c) PROVE TypeInv'
  <2>1. UNCHANGED <<tableVars, late>>
    BY <1>6 DEF TransactInsert, TransactDelete
  <2>2. op[c] \in EventRequests /\ op[c].time \in Times
    BY <1>1, <1>6
    DEF TransactInsert, TransactDelete, TypeOK, IsListing, Operations, Idle, PutRequests, SaveAnswers, EventRequests
  <2>3. marker' \in Times \cup {NoTime} /\ copies' \subseteq Aggregates \X Times /\ owners' \subseteq Clients
    BY <1>1, <1>6, <2>2
    DEF TransactInsert, TransactDelete, InsertAll, DeleteAll, CopiesAt, TypeOK, eventVars
  <2>4. PICK o : Become(c, o) /\ Typed(o, saves')
    <3>1. Typed([op[c] EXCEPT !.applied = TRUE], saves') /\ Typed([op[c] EXCEPT !.pc = "reread"], saves')
      <4>1. [op[c] EXCEPT !.applied = TRUE] \in EventRequests /\ [op[c] EXCEPT !.pc = "reread"] \in EventRequests
        BY <2>2 DEF EventRequests
      <4> QED BY <4>1, PlainTyped
    <3>2. Typed(Answer("inserted"), saves') /\ Typed(Idle, saves')
      BY PlainTyped DEF Answers
    <3> QED BY <1>6, <3>1, <3>2 DEF TransactInsert, TransactDelete
  <2> QED BY <1>1, <2>1, <2>3, <2>4, TypedStep DEF TypeOK, tableVars
<1>7. ASSUME NEW r \in late, Land(r) PROVE TypeInv'
  <2>1. op' = op /\ late' \subseteq late /\ UNCHANGED <<replica, due, saves>>
    BY <1>7 DEF Land
  <2>2. r \in Operations /\ r \in Known
    BY <1>1 DEF TypeOK, Known
  <2>3. items' \in [Keys -> Records] /\ written' \subseteq 1 .. saves
    <3>1. CASE r.pc = "put" /\ Admits(r)
      BY <1>1, <1>7, <2>2, <3>1, AdmittedSave DEF Land, TypeOK
    <3> QED BY <1>1, <1>7, <3>1 DEF Land, TypeOK
  <2>4. marker' \in Times \cup {NoTime} /\ copies' \subseteq Aggregates \X Times /\ owners' \subseteq Clients
    <3>1. r.pc \in {"insert", "delete"} => r.time \in Times
      BY <2>2 DEF Operations, Idle, PutRequests, SaveAnswers, EventRequests
    <3> QED BY <1>1, <1>7, <3>1 DEF Land, InsertAll, DeleteAll, CopiesAt, TypeOK, eventVars
  <2>5. TypeOK'
    BY <1>1, <2>1, <2>3, <2>4 DEF TypeOK
  <2>6. Known' \subseteq Known
    BY <2>1 DEF Known
  <2> QED BY <1>1, <2>1, <2>5, <2>6 DEF TypeInv, Made
<1>8. ASSUME NEW k \in Keys, Propagate(k) \/ FallDue(k) \/ Expire(k) PROVE TypeInv'
  <2>1. UNCHANGED <<op, late, saves, written, eventVars>>
    BY <1>8 DEF Propagate, FallDue, Expire
  <2>2. items' \in [Keys -> Records] /\ replica' \in [Keys -> Records] /\ due' \subseteq Keys
    <3>1. NoRecord \in Records
      BY DEF NoRecord, Records
    <3>2. items[k] \in Records
      BY <1>1 DEF TypeOK
    <3> QED BY <1>1, <1>8, <3>1, <3>2 DEF Propagate, FallDue, Expire, TypeOK
  <2>3. TypeOK'
    BY <1>1, <2>1, <2>2 DEF TypeOK, eventVars
  <2> QED BY <1>1, <2>1, <2>3 DEF TypeInv, Known, Made
<1>9. CASE UNCHANGED vars
  BY <1>9 DEF vars, TypeInv, TypeOK, Known, Made
<1> QED
  BY <1>2, <1>3, <1>4, <1>5, <1>6, <1>7, <1>8, <1>9 DEF Next, RecordStep, EventStep, RequestStep

LEMMA TypeInvInit == Init => TypeInv
BY DynamoAssumption
DEF Init, TypeInv, TypeOK, NoRecord, Records, Idle, Operations, Known, Numbered

-----------------------------------------------------------------------------
(* What may follow an operation when nothing is written: a save that goes on   *)
(* keeps its record, and is not answered nil.                                *)
Continues(p, o) ==
  Numbered(o) =>
    /\ o.pc # "put" /\ p.pc \in {"put", "check"} /\ o.rec = p.rec /\ o.resent = p.resent
    /\ o.pc = "saved" => o.answer # "ok"

LEMMA QuietStep ==
  ASSUME WriteInv, TypeInv', NEW c \in Clients, NEW o, Become(c, o), Continues(op[c], o),
         items' = items, written' = written,
         late' \subseteq late \cup {op[c]}, Numbered(o) => late' = late
  PROVE  WriteInv'
<1>1. /\ op'[c] = o
      /\ \A d \in Clients \ {c} : op'[d] = op[d]
  BY Becomes DEF WriteInv, TypeInv
<1>2. \A d \in Clients : Numbered(op'[d]) => Numbered(op[d]) /\ op'[d].rec = op[d].rec
  BY <1>1 DEF Continues, Numbered
<1>3. NumbersDiffer'
  <2>1. \A d, e \in Clients :
          Numbered(op'[d]) /\ Numbered(op'[e]) /\ op'[d].rec.by = op'[e].rec.by => d = e
    BY <1>2 DEF WriteInv, NumbersDiffer
  <2>2. ASSUME NEW r \in late', r.pc = "put", NEW d \in Clients, Numbered(op'[d])
        PROVE  op'[d].rec.by # r.rec.by
    <3>1. CASE r \in late
      BY <1>2, <2>2, <3>1 DEF WriteInv, NumbersDiffer
    <3>2. CASE r \notin late
      BY <1>1, <1>2, <2>2, <3>2 DEF WriteInv, NumbersDiffer, Numbered
    <3> QED BY <3>1, <3>2
  <2>3. ASSUME NEW r \in late', NEW s \in late', r.pc = "put", s.pc = "put", s.rec.by = r.rec.by
        PROVE  s = r
    BY <2>3 DEF WriteInv, NumbersDiffer, Numbered
  <2> QED BY <2>1, <2>2, <2>3 DEF NumbersDiffer
<1>4. WrittenIsPast'
  <2>1. ASSUME NEW x \in Known', x.pc = "put" PROVE x \in Known
    BY <1>1, <2>1 DEF Known, Continues, Numbered
  <2> QED BY <2>1 DEF WriteInv, WrittenIsPast
<1>5. WrittenIsResent' /\ AnswersAreTrue'
  BY <1>1 DEF WriteInv, WrittenIsResent, AnswersAreTrue, Continues, Numbered
<1> QED BY <1>3, <1>4, <1>5 DEF WriteInv

(* A new request has a number nobody has. *)
LEMMA NewRequest ==
  ASSUME WriteInv, TypeInv', NEW c \in Clients, NEW o, Become(c, o),
         o.pc = "put", o.rec.by = saves + 1,
         items' = items, written' = written, late' = late
  PROVE  WriteInv'
<1>1. /\ op'[c] = o
      /\ \A d \in Clients \ {c} : op'[d] = op[d]
  BY Becomes DEF WriteInv, TypeInv
<1>2. \A x \in Known : Numbered(x) => x.rec.by \in 1 .. saves
  BY DEF WriteInv, TypeInv, Made
<1>3. saves \in Nat /\ written \subseteq 1 .. saves
  BY DynamoAssumption DEF WriteInv, TypeInv, TypeOK
<1>4. \A x \in Known : Numbered(x) => x.rec.by # saves + 1
  BY <1>2, <1>3
<1>5. saves + 1 \notin written
  BY <1>3
<1>6. Numbered(o) /\ (\A r \in late : r.pc = "put" => Numbered(r))
  BY DEF Numbered
<1>7. NumbersDiffer'
  BY <1>1, <1>4, <1>6 DEF WriteInv, NumbersDiffer, Known
<1>8. WrittenIsPast'
  BY <1>1, <1>5 DEF WriteInv, WrittenIsPast, Known
<1>9. WrittenIsResent' /\ AnswersAreTrue'
  BY <1>1, <1>5 DEF WriteInv, WrittenIsResent, AnswersAreTrue
<1> QED BY <1>7, <1>8, <1>9 DEF WriteInv

(* A request is admitted before it is written, never after: what is based on   *)
(* the revision it replaces cannot be written any more.                      *)
LEMMA AdmittedOnce ==
  ASSUME WriteInv, NEW r \in Known, r.pc = "put", Admits(r), Write(r)
  PROVE  /\ r.rec.by \notin written
         /\ written' = written \cup {r.rec.by}
         /\ \A x \in Known : x.pc = "put" /\ (x.rec.by \in written \/ (x.key = r.key /\ x.expected = r.expected)) =>
              Past(x, items')
<1>1. /\ items' \in [Keys -> Records] /\ items'[r.key] = r.rec
      /\ r.rec.rev = items[r.key].rev + 1
      /\ \A k \in Keys \ {r.key} : items'[k] = items[k]
      /\ written' = written \cup {r.rec.by}
  BY AdmittedSave DEF WriteInv
<1>2. r.key \in Keys /\ r.expected \in Nat /\ items[r.key].rev = r.expected
  BY RequestFields DEF Numbered, WriteInv, Admits
<1>3. r.rec.by \notin written
  BY <1>2 DEF WriteInv, WrittenIsPast, Past
<1>4. ASSUME NEW x \in Known, x.pc = "put", x.rec.by \in written \/ (x.key = r.key /\ x.expected = r.expected)
      PROVE  Past(x, items')
  <2>1. x.key \in Keys /\ x.expected \in Nat
    BY <1>4, RequestFields DEF Numbered, WriteInv
  <2>2. x.rec.by \in written => Past(x, items)
    BY <1>4 DEF WriteInv, WrittenIsPast
  <2>3. CASE x.key = r.key
    BY <1>1, <1>2, <1>4, <2>1, <2>2, <2>3 DEF Past
  <2>4. CASE x.key # r.key
    BY <1>1, <1>4, <2>1, <2>2, <2>4 DEF Past
  <2> QED BY <2>3, <2>4
<1> QED BY <1>1, <1>3, <1>4

LEMMA PutItemStep ==
  ASSUME WriteInv, TypeInv', NEW c \in Clients, PutItem(c)
  PROVE  WriteInv'
<1> DEFINE r == op[c]
<1>1. r \in Known /\ r.pc = "put" /\ Numbered(r) /\ Admits(r) /\ Write(r) /\ late' = late
  BY DEF PutItem, Known, Numbered
<1>2. /\ r.rec.by \notin written
      /\ written' = written \cup {r.rec.by}
      /\ \A x \in Known : x.pc = "put" /\ (x.rec.by \in written \/ (x.key = r.key /\ x.expected = r.expected)) =>
           Past(x, items')
  BY <1>1, AdmittedOnce
<1>3. r \in PutRequests
  BY <1>1, RequestFields DEF WriteInv
<1>4. PICK o : /\ Become(c, o) /\ Numbered(o) /\ o.rec = r.rec
               /\ \/ o.pc = "saved" /\ o.answer = "ok"
                  \/ o.pc = "put" /\ o.resent = TRUE /\ o.key = r.key /\ o.expected = r.expected
  <2>1. LET o == [r EXCEPT !.resent = TRUE]
        IN  o.pc = "put" /\ o.resent = TRUE /\ o.key = r.key /\ o.expected = r.expected /\ o.rec = r.rec
    BY <1>1, <1>3 DEF PutRequests
  <2> QED BY <2>1 DEF PutItem, Numbered
<1>5. /\ op'[c] = o
      /\ \A d \in Clients \ {c} : op'[d] = op[d]
  BY <1>4, Becomes DEF WriteInv, TypeInv
<1>6. NumbersDiffer'
  BY <1>1, <1>4, <1>5 DEF WriteInv, NumbersDiffer
<1>7. \A d \in Clients \ {c} : Numbered(op[d]) => op[d].rec.by # r.rec.by
  BY <1>1 DEF WriteInv, NumbersDiffer
<1>8. \A x \in late : x.pc = "put" => x.rec.by # r.rec.by
  BY <1>1 DEF WriteInv, NumbersDiffer
<1>9. WrittenIsPast'
  <2>1. ASSUME NEW x \in late, x.pc = "put", x.rec.by \in written' PROVE Past(x, items')
    <3>1. x \in Known /\ x.rec.by \in written
      BY <1>2, <1>8, <2>1 DEF Known
    <3> QED BY <1>2, <2>1, <3>1
  <2>2. ASSUME NEW d \in Clients, d # c, op[d].pc = "put", op[d].rec.by \in written'
        PROVE  Past(op[d], items')
    <3>1. op[d] \in Known /\ op[d].rec.by \in written
      BY <1>2, <1>7, <2>2 DEF Known, Numbered
    <3> QED BY <1>2, <2>2, <3>1
  <2>3. o.pc = "put" => Past(o, items')
    BY <1>1, <1>2, <1>4 DEF Past
  <2> QED BY <1>1, <1>5, <2>1, <2>2, <2>3 DEF WrittenIsPast, Known
<1>10. WrittenIsResent' /\ AnswersAreTrue'
  BY <1>2, <1>4, <1>5, <1>7 DEF WriteInv, WrittenIsResent, AnswersAreTrue, Numbered
<1> QED BY <1>6, <1>9, <1>10 DEF WriteInv

LEMMA LandStep ==
  ASSUME WriteInv, TypeInv', NEW r \in late, Land(r)
  PROVE  WriteInv'
<1>1. op' = op /\ late' = late \ {r}
  BY DEF Land
<1>2. NumbersDiffer'
  BY <1>1 DEF WriteInv, NumbersDiffer
<1>3. CASE r.pc = "put" /\ Admits(r)
  <2>1. /\ r.rec.by \notin written
        /\ written' = written \cup {r.rec.by}
        /\ \A x \in Known : x.pc = "put" /\ x.rec.by \in written => Past(x, items')
    <3>1. r \in Known /\ Write(r)
      BY <1>3 DEF Known, Land, Admits, Write
    <3> QED BY <1>3, <3>1, AdmittedOnce
  <2>2. \A d \in Clients : Numbered(op[d]) => op[d].rec.by # r.rec.by
    BY <1>3 DEF WriteInv, NumbersDiffer
  <2>3. \A x \in late' : x.pc = "put" => x.rec.by # r.rec.by
    BY <1>1, <1>3 DEF WriteInv, NumbersDiffer
  <2>4. WrittenIsPast'
    BY <1>1, <2>1, <2>2, <2>3 DEF WrittenIsPast, Known, Numbered
  <2>5. WrittenIsResent' /\ AnswersAreTrue'
    BY <1>1, <2>1, <2>2 DEF WriteInv, WrittenIsResent, AnswersAreTrue, Numbered
  <2> QED BY <1>2, <2>4, <2>5 DEF WriteInv
<1>4. CASE ~(r.pc = "put" /\ Admits(r))
  <2>1. items' = items /\ written' = written
    BY <1>4 DEF Land
  <2>2. WrittenIsPast' /\ WrittenIsResent' /\ AnswersAreTrue'
    BY <1>1, <2>1 DEF WriteInv, WrittenIsPast, WrittenIsResent, AnswersAreTrue, Known
  <2> QED BY <1>2, <2>2 DEF WriteInv
<1> QED BY <1>3, <1>4

LEMMA WriteInvStep == WriteInv /\ [Next]_vars => WriteInv'
<1> SUFFICES ASSUME WriteInv, [Next]_vars PROVE WriteInv'
  OBVIOUS
<1>1. TypeInv'
  BY TypeInvStep DEF WriteInv
<1>2. ASSUME NEW c \in Clients,
             \/ \E k \in Keys : Get(c, k)
             \/ \E l \in Listings : List(c, l)
             \/ \E t \in Times : Insert(c, t)
             \/ Reread(c) \/ Delete(c) \/ ReadPage(c)
      PROVE WriteInv'
  <2>1. items' = items /\ written' = written /\ late' \subseteq late \cup {op[c]}
    BY <1>2 DEF Get, List, Insert, Reread, Delete, ReadPage, tableVars
  <2>2. PICK o : Become(c, o) /\ ~Numbered(o)
    <3>1. CASE ReadPage(c)
      <4>1. IsListing(op[c])
        BY <3>1
        DEF WriteInv, TypeInv, ReadPage, TypeOK, IsListing, Operations, Idle, PutRequests, SaveAnswers, EventRequests
      <4> QED BY <3>1, <4>1, PageRead DEF IsListing, Numbered
    <3>2. CASE ~ReadPage(c)
      <4>1. CASE \E t \in Times : Insert(c, t)
        <5>1. PICK t \in Times : Insert(c, t)
          BY <4>1
        <5>2. CASE marker = NoTime
          BY <5>1, <5>2 DEF Insert, Numbered
        <5>3. CASE marker # NoTime
          <6>1. PICK a : Become(c, Answer(a))
            BY <5>1, <5>3 DEF Insert
          <6> QED BY <6>1 DEF Answer, Numbered
        <5> QED BY <5>2, <5>3
      <4>2. CASE Reread(c)
        <5>1. PICK a : Become(c, Answer(a))
          BY <4>2 DEF Reread
        <5> QED BY <5>1 DEF Answer, Numbered
      <4>3. CASE Delete(c)
        BY <4>3 DEF Delete, Idle, Numbered
      <4>5. CASE \E k \in Keys : Get(c, k)
        BY <4>5 DEF Get, Numbered
      <4>6. CASE \E l \in Listings : List(c, l)
        BY <4>6 DEF List, Numbered
      <4> QED BY <1>2, <3>2, <4>1, <4>2, <4>3, <4>5, <4>6
    <3> QED BY <3>1, <3>2
  <2>3. Continues(op[c], o)
    BY <2>2 DEF Continues
  <2> QED BY <1>1, <2>1, <2>2, <2>3, QuietStep
<1>3. ASSUME NEW c \in Clients, PutRefused(c) \/ Check(c) PROVE WriteInv'
  <2>1. items' = items /\ written' = written /\ late' = late
    BY <1>3 DEF PutRefused, Check, tableVars
  <2>2. op[c] \in PutRequests
    BY <1>3, RequestFields DEF PutRefused, Check, Known, Numbered, WriteInv
  <2>3. ASSUME NEW a, a # "ok" PROVE Continues(op[c], Refused(op[c], a))
    BY <2>2, <2>3 DEF Continues, Refused, PutRequests
  <2>4. Continues(op[c], [op[c] EXCEPT !.pc = "check"])
    BY <2>2 DEF Continues, PutRequests
  <2>5. PICK o : Become(c, o) /\ Continues(op[c], o)
    BY <1>3, <2>3, <2>4 DEF PutRefused, Check
  <2> QED BY <1>1, <2>1, <2>5, QuietStep
<1>4. ASSUME NEW c \in Clients, TransactInsert(c) \/ TransactDelete(c) PROVE WriteInv'
  <2>1. items' = items /\ written' = written /\ late' = late
    BY <1>4 DEF TransactInsert, TransactDelete, tableVars
  <2>2. op[c] \in EventRequests
    BY <1>4
    DEF WriteInv, TypeInv, TransactInsert, TransactDelete, TypeOK, IsListing, Operations, Idle, PutRequests, SaveAnswers,
        EventRequests
  <2>3. PICK o : Become(c, o) /\ ~Numbered(o)
    <3>1. ~Numbered([op[c] EXCEPT !.applied = TRUE]) /\ ~Numbered([op[c] EXCEPT !.pc = "reread"])
      BY <2>2 DEF EventRequests, Numbered
    <3>2. ~Numbered(Answer("inserted")) /\ ~Numbered(Idle)
      BY DEF Answer, Idle, Numbered
    <3>3. CASE TransactInsert(c)
      BY <3>1, <3>2, <3>3 DEF TransactInsert
    <3>4. CASE TransactDelete(c)
      BY <3>1, <3>2, <3>4 DEF TransactDelete
    <3> QED BY <1>4, <3>3, <3>4
  <2>4. Continues(op[c], o)
    BY <2>3 DEF Continues
  <2> QED BY <1>1, <2>1, <2>3, <2>4, QuietStep
<1>5. ASSUME NEW c \in Clients,
             \/ \E k \in Keys, st \in Fresh : Create(c, k, st)
             \/ \E st \in States : Save(c, st)
      PROVE WriteInv'
  <2>1. items' = items /\ written' = written /\ late' = late
    BY <1>5 DEF Create, Save
  <2>2. PICK o : Become(c, o) /\ o.pc = "put" /\ o.rec.by = saves + 1
    <3>1. CASE \E k \in Keys, st \in Fresh : Create(c, k, st)
      <4>1. PICK k \in Keys, st \in Fresh : Create(c, k, st)
        BY <3>1
      <4> QED BY <4>1 DEF Create, Request
    <3>2. CASE \E st \in States : Save(c, st)
      <4>1. PICK st \in States : Save(c, st)
        BY <3>2
      <4> QED BY <4>1 DEF Save, Request
    <3> QED BY <1>5, <3>1, <3>2
  <2> QED BY <1>1, <2>1, <2>2, NewRequest
<1>6. ASSUME NEW c \in Clients, PutItem(c) PROVE WriteInv'
  BY <1>1, <1>6, PutItemStep
<1>7. ASSUME NEW r \in late, Land(r) PROVE WriteInv'
  BY <1>1, <1>7, LandStep
<1>8. ASSUME NEW k \in Keys, Propagate(k) \/ FallDue(k) \/ Expire(k) PROVE WriteInv'
  <2>1. op' = op /\ late' = late /\ written' = written /\ Known' = Known
    BY <1>8 DEF Propagate, FallDue, Expire, Known, eventVars
  <2>2. \A x \in Known : x.pc = "put" => x.key \in Keys
    BY RequestFields DEF WriteInv, Numbered
  <2>3. \A x \in Known : x.pc = "put" => items'[x.key] = items[x.key]
    <3>1. CASE Expire(k)
      BY <2>2, <3>1 DEF Expire, Known, WriteInv, TypeInv, TypeOK
    <3> QED BY <1>8, <3>1 DEF Propagate, FallDue
  <2>4. WrittenIsPast'
    BY <2>1, <2>3 DEF WriteInv, WrittenIsPast, Past
  <2> QED BY <1>1, <2>1, <2>4 DEF WriteInv, NumbersDiffer, WrittenIsResent, AnswersAreTrue
<1>9. CASE UNCHANGED vars
  BY <1>1, <1>9 DEF vars, WriteInv, NumbersDiffer, WrittenIsPast, WrittenIsResent, AnswersAreTrue, Known
<1>10. ASSUME NEW c \in Clients, GiveUp(c) PROVE WriteInv'
  <2>1. /\ items' = items /\ written' = written /\ late' \subseteq late \cup {op[c]}
        /\ op[c].pc = "check" => late' = late
    BY <1>10 DEF GiveUp, tableVars
  <2>2. CASE op[c].pc = "check"
    <3>1. op[c] \in PutRequests
      BY <2>2, RequestFields DEF Known, Numbered, WriteInv
    <3>2. Continues(op[c], Refused(op[c], "conflict"))
      BY <2>2, <3>1 DEF Continues, Refused, PutRequests
    <3>3. Become(c, Refused(op[c], "conflict"))
      BY <1>10, <2>2 DEF GiveUp
    <3> QED BY <1>1, <2>1, <2>2, <3>2, <3>3, QuietStep
  <2>3. CASE op[c].pc # "check"
    <3>1. Become(c, Answer("error"))
      BY <1>10, <2>3 DEF GiveUp
    <3>2. ~Numbered(Answer("error"))
      BY DEF Answer, Numbered
    <3>3. Continues(op[c], Answer("error"))
      BY <3>2 DEF Continues
    <3> QED BY <1>1, <2>1, <3>1, <3>2, <3>3, QuietStep
  <2> QED BY <2>2, <2>3
<1> QED
  BY <1>2, <1>3, <1>4, <1>5, <1>6, <1>7, <1>8, <1>9, <1>10 DEF Next, RecordStep, EventStep, RequestStep

LEMMA WriteInvInit == Init => WriteInv
BY TypeInvInit
DEF Init, WriteInv, NumbersDiffer, WrittenIsPast, WrittenIsResent, AnswersAreTrue, Idle, Known, Numbered

LEMMA WriteInvHolds == Spec => []WriteInv
BY WriteInvInit, WriteInvStep, PTL DEF Spec

(* A step leaves the table alone, writes one admitted request, or expires one  *)
(* record.                                                                   *)
LEMMA TableChanges ==
  ASSUME WriteInv, [Next]_vars
  PROVE  \/ items' = items
         \/ \E r \in Known : r.pc = "put" /\ Admits(r) /\ Write(r)
         \/ \E k \in Keys : Expire(k)
<1>1. ASSUME NEW c \in Clients,
             \/ \E k \in Keys : Get(c, k)
             \/ \E k \in Keys, st \in Fresh : Create(c, k, st)
             \/ \E st \in States : Save(c, st)
             \/ PutRefused(c) \/ Check(c)
             \/ \E l \in Listings : List(c, l)
             \/ ReadPage(c)
             \/ \E t \in Times : Insert(c, t)
             \/ TransactInsert(c) \/ Reread(c) \/ Delete(c) \/ TransactDelete(c) \/ GiveUp(c)
      PROVE items' = items
  BY <1>1 DEF Get, Create, Save, PutRefused, Check, List, ReadPage, Insert, TransactInsert, Reread, Delete,
              TransactDelete, GiveUp, tableVars
<1>2. ASSUME NEW k \in Keys, Propagate(k) \/ FallDue(k) PROVE items' = items
  BY <1>2 DEF Propagate, FallDue
<1>3. ASSUME NEW c \in Clients, PutItem(c)
      PROVE  \E r \in Known : r.pc = "put" /\ Admits(r) /\ Write(r)
  BY <1>3 DEF PutItem, Known
<1>4. ASSUME NEW r \in late, Land(r)
      PROVE  items' = items \/ (r \in Known /\ r.pc = "put" /\ Admits(r) /\ Write(r))
  BY <1>4 DEF Land, Known, Admits, Write
<1>5. UNCHANGED vars => items' = items
  BY DEF vars
<1> QED BY <1>1, <1>2, <1>3, <1>4, <1>5 DEF Next, RecordStep, EventStep, RequestStep

(* The DynamoDB repository implements VersionedTable: its contents change by   *)
(* one conditional save at a time, each on the revision it is based on, and  *)
(* by the expiry of a record, whatever requests are sent again or arrive     *)
(* after their caller has gone.                                              *)
THEOREM TableIsVersioned == Spec => TableSpec
<1> DEFINE T == [k \in Keys |-> [rev |-> items[k].rev, by |-> items[k].by]]
<1>1. Init => Table!Init
  BY DEF Init, NoRecord, Table!Init, Table!EmptyTable, Table!NoRecord
<1>2. WriteInv /\ [Next]_vars => [Table!Change]_T
  <2> SUFFICES ASSUME WriteInv, [Next]_vars
               PROVE  Table!Change \/ T' = T
    OBVIOUS
  <2>1. items \in [Keys -> Records] /\ saves \in 0 .. MaxSaves
    BY DEF WriteInv, TypeInv, TypeOK
  <2>2. ASSUME NEW r \in Known, r.pc = "put", Admits(r), Write(r) PROVE Table!Change
    <3>1. /\ items' \in [Keys -> Records] /\ items'[r.key] = r.rec
          /\ r.rec.rev = items[r.key].rev + 1 /\ r.rec.by \in 1 .. saves
          /\ \A k \in Keys \ {r.key} : items'[k] = items[k]
      BY <2>2, AdmittedSave DEF WriteInv
    <3>2. r.key \in Keys
      BY <2>2, RequestFields DEF WriteInv, Numbered
    <3>3. T' = [T EXCEPT ![r.key] = [rev |-> T[r.key].rev + 1, by |-> r.rec.by]]
      BY <3>1, <3>2
    <3>4. r.rec.by \in 1 .. MaxSaves
      BY <2>1, <3>1, DynamoAssumption
    <3> QED BY <3>2, <3>3, <3>4 DEF Table!Change, Table!OneChangeAfter, Table!OneSaveAfter
  <2>3. ASSUME NEW k \in Keys, Expire(k) PROVE Table!Change
    <3>1. items' = [items EXCEPT ![k] = NoRecord]
      BY <2>3 DEF Expire
    <3>2. T' = [T EXCEPT ![k] = Table!NoRecord]
      BY <2>1, <3>1 DEF NoRecord, Table!NoRecord
    <3> QED BY <3>2 DEF Table!Change, Table!OneChangeAfter, Table!OneDeletionAfter
  <2>4. items' = items => T' = T
    OBVIOUS
  <2> QED BY <2>2, <2>3, <2>4, TableChanges
<1> QED BY <1>1, <1>2, WriteInvHolds, PTL DEF Spec, TableSpec, Table!KeepingSpec

(* A step that changes a record writes a number that was never written, so a    *)
(* record that is what it was has been so throughout.                        *)
LEMMA NumberIsNew ==
  ASSUME WriteInv, [Next]_vars, NEW k \in Keys, items'[k] # items[k], items'[k].rev > 0
  PROVE  items'[k].by \notin written
<1>1. ASSUME NEW r \in Known, r.pc = "put", Admits(r), Write(r) PROVE items'[k].by \notin written
  <2>1. items'[k] = r.rec
    BY <1>1, AdmittedSave DEF WriteInv
  <2>2. r.rec.by \notin written
    BY <1>1, AdmittedOnce
  <2> QED BY <2>1, <2>2
<1>2. ~\E j \in Keys : Expire(j)
  <2> SUFFICES ASSUME NEW j \in Keys, Expire(j) PROVE FALSE
    OBVIOUS
  <2>1. items \in [Keys -> Records] /\ items' = [items EXCEPT ![j] = NoRecord]
    BY DEF Expire, WriteInv, TypeInv, TypeOK
  <2> QED BY <2>1 DEF NoRecord
<1> QED BY <1>1, <1>2, TableChanges

(* No retry of the SDK and no request that arrives late writes a record again: *)
(* a write reaches the table once at most.                                   *)
THEOREM NothingIsWrittenTwice == Spec => WrittenOnce
<1>1. WriteInv /\ [Next]_vars =>
        [\A k \in Keys : items'[k] # items[k] /\ items'[k].rev > 0 => items'[k].by \notin written]_vars
  BY NumberIsNew
<1> QED BY <1>1, WriteInvHolds, PTL DEF Spec, WrittenOnce

(* A save that is answered nil has reached the table; one that is refused has  *)
(* not, unless the answer of its first request was lost.                     *)
THEOREM AnswersHold == Spec => []AnswersAreTrue
BY WriteInvHolds, PTL DEF WriteInv

-----------------------------------------------------------------------------
(* A step that leaves the event alone and entitles nobody keeps EventInv; so   *)
(* does one that goes on to withdraw what its client was entitled to.         *)
LEMMA QuietEvent ==
  ASSUME TypeInv, EventInv, NEW c \in Clients, NEW o, Become(c, o), UNCHANGED eventVars,
         late' \subseteq late \cup {op[c]},
         \/ ~Entitled(o)
         \/ Entitled(op[c]) /\ Withdraws(o) /\ o.time = marker /\ late' = late
  PROVE  EventInv'
<1>1. /\ op'[c] = o
      /\ \A d \in Clients \ {c} : op'[d] = op[d]
  BY Becomes DEF TypeInv
<1>2. UNCHANGED <<marker, copies, owners>>
  BY DEF eventVars
<1>3. \A d \in Clients : Entitled(op'[d]) => Entitled(op[d])
  BY <1>1
<1>4. EventIsWhole'
  BY <1>2 DEF EventInv, EventIsWhole
<1>5. \A d \in Clients : Entitled(op'[d]) => marker # NoTime /\ (Withdraws(op'[d]) => op'[d].time = marker)
  BY <1>1, <1>3 DEF EventInv
<1>6. \A r \in late' : Withdraws(r) =>
        marker = r.time /\ (\A d \in Clients : ~Entitled(op'[d]))
  <2> SUFFICES ASSUME NEW r \in late', Withdraws(r)
               PROVE  marker = r.time /\ (\A d \in Clients : ~Entitled(op'[d]))
    OBVIOUS
  <2>1. CASE r \in late
    BY <1>3, <2>1 DEF EventInv
  <2>2. CASE r \notin late
    <3>1. r = op[c] /\ Entitled(op[c]) /\ ~Entitled(o)
      BY <2>2 DEF Withdraws, Entitled
    <3>2. \A d \in Clients \ {c} : ~Entitled(op[d])
      BY <3>1 DEF EventInv
    <3> QED BY <1>1, <3>1, <3>2 DEF EventInv
  <2> QED BY <2>1, <2>2
<1>7. \A r, s \in late' : Withdraws(r) /\ Withdraws(s) => r = s
  BY DEF EventInv, Withdraws, Entitled
<1>8. \A d \in Clients : op'[d].pc = "insert" /\ op'[d].applied => owners = {}
  BY <1>1 DEF EventInv, Entitled, Withdraws
<1> QED BY <1>2, <1>3, <1>4, <1>5, <1>6, <1>7, <1>8 DEF EventInv

LEMMA TransactInsertStep ==
  ASSUME TypeInv, EventInv, NEW c \in Clients, TransactInsert(c)
  PROVE  EventInv'
<1> DEFINE r == op[c]
<1>1. r \in EventRequests /\ r.pc = "insert" /\ r.time \in Times /\ r.applied \in BOOLEAN /\ late' = late
  BY DEF TypeInv, TransactInsert, TypeOK, IsListing, Operations, Idle, PutRequests, SaveAnswers, EventRequests
<1>2. CASE ~r.applied /\ ~CanInsert(r.time)
  <2>1. Become(c, [r EXCEPT !.pc = "reread"]) /\ UNCHANGED eventVars
    BY <1>1, <1>2 DEF TransactInsert
  <2>2. ~Entitled([r EXCEPT !.pc = "reread"])
    BY <1>1 DEF EventRequests, Entitled
  <2> QED BY <1>1, <2>1, <2>2, QuietEvent
<1>3. CASE r.applied \/ CanInsert(r.time)
  <2>1. PICK o : /\ Become(c, o) /\ Entitled(o) /\ ~Withdraws(o)
                 /\ owners' = (IF o.pc = "answered" THEN owners \cup {c} ELSE owners)
    <3>1. LET o == [r EXCEPT !.applied = TRUE] IN o.pc = "insert" /\ Entitled(o) /\ ~Withdraws(o)
      BY <1>1 DEF EventRequests, Entitled, Withdraws
    <3>2. LET o == Answer("inserted") IN o.pc = "answered" /\ Entitled(o) /\ ~Withdraws(o)
      BY DEF Answer, Entitled, Withdraws
    <3>3. CASE r.applied
      BY <1>1, <3>2, <3>3 DEF TransactInsert
    <3>4. CASE ~r.applied
      BY <1>1, <1>3, <3>1, <3>2, <3>4 DEF TransactInsert
    <3> QED BY <3>3, <3>4
  <2>2. /\ op'[c] = o
        /\ \A d \in Clients \ {c} : op'[d] = op[d]
    BY <2>1, Becomes DEF TypeInv
  <2>3. \/ r.applied /\ UNCHANGED <<marker, copies>>
        \/ ~r.applied /\ CanInsert(r.time) /\ InsertAll(r.time)
    BY <1>1, <1>3 DEF TransactInsert
  <2>4. owners = {} /\ (\A d \in Clients \ {c} : ~Entitled(op[d])) /\ (\A x \in late : ~Withdraws(x))
    <3>1. CASE r.applied
      <4>1. Entitled(r)
        BY <1>1, <3>1 DEF Entitled
      <4> QED BY <1>1, <3>1, <4>1 DEF EventInv
    <3>2. CASE CanInsert(r.time)
      <4>1. \A x \in late : Withdraws(x) => x.time \in Times
        BY DEF TypeInv, TypeOK, Withdraws, Operations, Idle, PutRequests, SaveAnswers, EventRequests
      <4> QED BY <3>2, <4>1, DynamoAssumption DEF EventInv, CanInsert
    <3> QED BY <1>3, <3>1, <3>2
  <2>5. EventIsWhole' /\ marker' # NoTime
    <3>1. CASE r.applied
      <4>1. Entitled(r)
        BY <1>1, <3>1 DEF Entitled
      <4> QED BY <2>3, <3>1, <4>1 DEF EventInv, EventIsWhole
    <3>2. CASE ~r.applied
      <4>1. r.time # NoTime
        BY <1>1, DynamoAssumption
      <4> QED BY <2>3, <3>2, <4>1 DEF EventInv, EventIsWhole, CanInsert, InsertAll
    <3> QED BY <3>1, <3>2
  <2>6. \A d \in Clients : op'[d].pc = "insert" /\ op'[d].applied => owners' = {}
    BY <2>1, <2>2, <2>4 DEF Entitled
  <2>7. \A d, e \in owners' : d = e
    BY <2>1, <2>4
  <2>8. \A d \in Clients : Entitled(op'[d]) => d = c
    BY <2>2, <2>4
  <2> QED BY <1>1, <2>1, <2>2, <2>4, <2>5, <2>6, <2>7, <2>8 DEF EventInv
<1> QED BY <1>2, <1>3

(* The marker and the copies go together, and whoever deletes them was the     *)
(* only one entitled to.                                                     *)
LEMMA EventDeleted ==
  ASSUME EventInv, DeleteAll(marker),
         \A d \in Clients : ~Entitled(op'[d]), \A r \in late' : ~Withdraws(r)
  PROVE  EventInv'
<1>1. EventIsWhole'
  BY DEF EventInv, EventIsWhole, DeleteAll, CopiesAt
<1>2. \A d \in Clients : ~(op'[d].pc = "insert" /\ op'[d].applied)
  BY DEF Entitled
<1> QED BY <1>1, <1>2 DEF EventInv, DeleteAll

LEMMA TransactDeleteStep ==
  ASSUME TypeInv, EventInv, NEW c \in Clients, TransactDelete(c)
  PROVE  EventInv'
<1> DEFINE r == op[c]
<1>1. r \in EventRequests /\ r.pc = "delete" /\ r.applied \in BOOLEAN /\ late' = late
  BY DEF TypeInv, TransactDelete, TypeOK, IsListing, Operations, Idle, PutRequests, SaveAnswers, EventRequests
<1>2. PICK o : Become(c, o) /\ ~Entitled(o)
  <2>1. ~Entitled(Idle) /\ ~Entitled([r EXCEPT !.applied = TRUE])
    BY <1>1 DEF Idle, EventRequests, Entitled
  <2> QED BY <2>1 DEF TransactDelete
<1>3. CASE UNCHANGED eventVars
  BY <1>1, <1>2, <1>3, QuietEvent
<1>4. CASE ~r.applied /\ marker # NoTime /\ DeleteAll(r.time)
  <2>1. Withdraws(r) /\ Entitled(r)
    BY <1>1, <1>4 DEF Withdraws, Entitled
  <2>2. r.time = marker /\ (\A d \in Clients \ {c} : ~Entitled(op[d])) /\ (\A x \in late : ~Withdraws(x))
    BY <2>1 DEF EventInv
  <2>3. \A d \in Clients : ~Entitled(op'[d])
    BY <1>2, <2>2, Becomes DEF TypeInv
  <2> QED BY <1>1, <1>4, <2>2, <2>3, EventDeleted
<1> QED BY <1>1, <1>3, <1>4 DEF TransactDelete

LEMMA LateEvent ==
  ASSUME TypeInv, EventInv, NEW r \in late, Land(r)
  PROVE  EventInv'
<1>1. op' = op /\ late' = late \ {r}
  BY DEF Land
<1>2. r \in Operations
  BY DEF TypeInv, TypeOK
<1>3. CASE UNCHANGED <<marker, copies, owners>>
  BY <1>1, <1>3 DEF EventInv, EventIsWhole
<1>4. CASE r.pc = "insert" /\ CanInsert(r.time) /\ InsertAll(r.time) /\ owners' = owners
  <2>1. r.time # NoTime
    BY <1>2, <1>4, DynamoAssumption DEF Operations, Idle, PutRequests, SaveAnswers, EventRequests
  <2>2. \A x \in late : Withdraws(x) => x.time \in Times
    BY DEF TypeInv, TypeOK, Withdraws, Operations, Idle, PutRequests, SaveAnswers, EventRequests
  <2>3. (\A d \in Clients : ~Entitled(op[d])) /\ (\A x \in late : ~Withdraws(x)) /\ owners = {}
    BY <1>4, <2>2, DynamoAssumption DEF EventInv, CanInsert
  <2>4. EventIsWhole'
    BY <1>4, <2>1 DEF EventInv, EventIsWhole, CanInsert, InsertAll
  <2>5. marker' # NoTime
    BY <1>4, <2>1 DEF InsertAll
  <2> QED BY <1>1, <1>4, <2>3, <2>4, <2>5 DEF EventInv
<1>5. CASE r.pc = "delete" /\ ~r.applied /\ DeleteAll(r.time)
  <2>1. Withdraws(r)
    BY <1>5 DEF Withdraws
  <2>2. marker = r.time /\ (\A d \in Clients : ~Entitled(op[d])) /\ (\A x \in late \ {r} : ~Withdraws(x))
    BY <2>1 DEF EventInv
  <2> QED BY <1>1, <1>5, <2>2, EventDeleted
<1>6. r.pc \in {"insert", "delete"} => r.applied \in BOOLEAN
  BY <1>2 DEF Operations, Idle, PutRequests, SaveAnswers, EventRequests
<1> QED BY <1>3, <1>4, <1>5, <1>6 DEF Land, eventVars, CanInsert

LEMMA EventInvStep == TypeInv /\ EventInv /\ [Next]_vars => EventInv'
<1> SUFFICES ASSUME TypeInv, EventInv, [Next]_vars PROVE EventInv'
  OBVIOUS
<1>1. ASSUME NEW c \in Clients,
             \/ \E k \in Keys : Get(c, k)
             \/ \E k \in Keys, st \in Fresh : Create(c, k, st)
             \/ \E st \in States : Save(c, st)
             \/ PutItem(c) \/ PutRefused(c) \/ Check(c)
             \/ \E l \in Listings : List(c, l)
             \/ ReadPage(c)
             \/ \E t \in Times : Insert(c, t)
             \/ Reread(c) \/ GiveUp(c)
      PROVE EventInv'
  <2>1. UNCHANGED eventVars /\ late' \subseteq late \cup {op[c]}
    BY <1>1 DEF Get, Create, Save, PutItem, PutRefused, Check, List, ReadPage, Insert, Reread, GiveUp
  <2>2. PICK o : Become(c, o) /\ ~Entitled(o)
    <3>1. CASE ReadPage(c)
      <4>1. IsListing(op[c])
        BY <3>1
        DEF TypeInv, ReadPage, TypeOK, IsListing, Operations, Idle, PutRequests, SaveAnswers, EventRequests
      <4> QED BY <3>1, <4>1, PageRead DEF IsListing, Entitled
    <3>2. CASE PutItem(c) \/ PutRefused(c) \/ Check(c)
      <4>1. op[c] \in PutRequests
        BY <3>2, RequestFields DEF PutItem, PutRefused, Check, Known, Numbered
      <4>2. /\ ~Entitled([op[c] EXCEPT !.resent = TRUE]) /\ ~Entitled([op[c] EXCEPT !.pc = "check"])
            /\ ~Entitled([pc |-> "saved", answer |-> "ok", rec |-> op[c].rec, resent |-> FALSE])
            /\ \A a : ~Entitled(Refused(op[c], a))
        BY <4>1 DEF PutRequests, Entitled, Refused
      <4> QED BY <3>2, <4>2 DEF PutItem, PutRefused, Check
    <3>3. CASE Reread(c) \/ (\E t \in Times : Insert(c, t)) \/ GiveUp(c)
      <4>1. \A a : a # "inserted" => ~Entitled(Answer(a))
        BY DEF Answer, Entitled
      <4>2. \A t : ~Entitled([pc |-> "insert", time |-> t, applied |-> FALSE])
        BY DEF Entitled
      <4>3. \A a : ~Entitled(Refused(op[c], a))
        BY DEF Refused, Entitled
      <4> QED BY <3>3, <4>1, <4>2, <4>3 DEF Reread, Insert, GiveUp
    <3>4. CASE \E k \in Keys : Get(c, k)
      BY <3>4 DEF Get, Entitled
    <3>5. CASE \E k \in Keys, st \in Fresh : Create(c, k, st)
      <4>1. \A k, st : ~Entitled(Request("create", k, 0, st))
        BY DEF Request, Entitled
      <4> QED BY <3>5, <4>1 DEF Create
    <3>6. CASE \E st \in States : Save(c, st)
      <4>1. \A k, e, st : ~Entitled(Request("save", k, e, st))
        BY DEF Request, Entitled
      <4> QED BY <3>6, <4>1 DEF Save
    <3>7. CASE \E l \in Listings : List(c, l)
      BY <3>7 DEF List, Entitled
    <3> QED BY <1>1, <3>1, <3>2, <3>3, <3>4, <3>5, <3>6, <3>7
  <2> QED BY <2>1, <2>2, QuietEvent
<1>2. ASSUME NEW c \in Clients, Delete(c) PROVE EventInv'
  <2>1. Entitled(op[c]) /\ UNCHANGED eventVars /\ late' = late
    BY <1>2 DEF Delete, MayDelete, Entitled
  <2>2. Become(c, [pc |-> "delete", time |-> marker, applied |-> FALSE])
    BY <1>2, <2>1 DEF Delete, EventInv
  <2>3. LET o == [pc |-> "delete", time |-> marker, applied |-> FALSE]
        IN  Withdraws(o) /\ o.time = marker
    BY DEF Withdraws
  <2> QED BY <2>1, <2>2, <2>3, QuietEvent
<1>3. ASSUME NEW k \in Keys, Propagate(k) \/ FallDue(k) \/ Expire(k) PROVE EventInv'
  BY <1>3 DEF Propagate, FallDue, Expire, eventVars, EventInv, EventIsWhole
<1>4. CASE UNCHANGED vars
  BY <1>4 DEF vars, EventInv, EventIsWhole
<1> QED
  BY <1>1, <1>2, <1>3, <1>4, TransactInsertStep, TransactDeleteStep, LateEvent
  DEF Next, RecordStep, EventStep, RequestStep

LEMMA EventInvInit == Init => EventInv
BY DEF Init, EventInv, EventIsWhole, Idle, Entitled, Withdraws

LEMMA EventInvHolds == Spec => [](TypeInv /\ EventInv)
BY TypeInvInit, TypeInvStep, EventInvInit, EventInvStep, PTL DEF Spec

(* The variables keep their types: every record, request and answer is one the *)
(* operations build.                                                         *)
THEOREM TypeCorrect == Spec => []TypeOK
BY EventInvHolds, PTL DEF TypeInv

(* The marker of an event and all its copies are written and deleted together, *)
(* whichever transaction arrives when.                                       *)
THEOREM EventHoldsTogether == Spec => []EventIsWhole
BY EventInvHolds, PTL DEF EventInv

(* Of all deliveries of one event, one is told to do the work, until it takes  *)
(* the event back.                                                           *)
THEOREM InsertedOnceHolds == Spec => []InsertedOnce
<1>1. TypeInv /\ EventInv => InsertedOnce
  <2> SUFFICES ASSUME EventInv PROVE Cardinality(owners) <= 1
    BY DEF InsertedOnce
  <2>1. CASE owners = {}
    BY <2>1, FS_EmptySet
  <2>2. CASE owners # {}
    <3>1. PICK c \in owners : TRUE
      BY <2>2
    <3>2. owners = {c}
      BY <3>1 DEF EventInv
    <3> QED BY <3>2, FS_Singleton
  <2> QED BY <2>1, <2>2
<1> QED BY <1>1, EventInvHolds, PTL

-----------------------------------------------------------------------------
(* What a listing has found so far, of the records that stay as they were.    *)
IsRead(o) == o.pc \in {"list", "listed"}

(* What the listing found settled is still so. *)
Still(o, k) == k \in DOMAIN o.settled /\ items[k] = o.settled[k]

(* The partitions a settled record is in, and the one read when j are left. *)
Matches(p, k) == p \in {"scan", "expired"} \/ items[k].st = p
Query(l, j) == l[Len(l) + 1 - j]
Entry(k, j) == [from |-> j, key |-> k, rec |-> items[k]]

ItemsWritten == \A k \in Keys : items[k].rev > 0 => items[k].by \in written

SettledInv ==
  \A c \in Clients : IsRead(op[c]) =>
    \A k \in DOMAIN op[c].settled :
      /\ k \in Keys /\ op[c].settled[k].rev > 0 /\ op[c].settled[k].by \in written
      /\ Still(op[c], k) => replica[k] = items[k]

Reading(l, todo, after, found, settled) ==
  [pc |-> "list", listing |-> l, todo |-> todo, after |-> after, found |-> found, settled |-> settled]

IsEntry(f, l) == f.from \in 1 .. Len(l) /\ f = [from |-> f.from, key |-> f.key, rec |-> f.rec]

IsProgress(o) ==
  /\ o = Reading(o.listing, o.todo, o.after, o.found, o.settled)
  /\ o.listing \in Listings /\ o.after \in Nat
  /\ Len(o.todo) \in 1 .. Len(o.listing)
  /\ o.todo = [i \in 1 .. Len(o.todo) |-> Query(o.listing, Len(o.todo) + 1 - i)]
  /\ \A f \in o.found : IsEntry(f, o.listing)

Passed(o, k, j) == j > Len(o.todo) \/ (j = Len(o.todo) /\ k <= o.after)

FoundAsPassed(o) ==
  \A k \in DOMAIN o.settled : Still(o, k) =>
    /\ Belongs(o.listing, k)
    /\ \A f \in o.found : f.key = k => f.rec = items[k]
    /\ \A j \in 1 .. Len(o.listing) :
         Entry(k, j) \in o.found <=> Matches(Query(o.listing, j), k) /\ Passed(o, k, j)

ListInv ==
  /\ ItemsWritten /\ SettledInv /\ SettledAreListedOnce
  /\ \A c \in Clients : op[c].pc = "list" => IsProgress(op[c]) /\ FoundAsPassed(op[c])

-----------------------------------------------------------------------------
(* The members of s before k: FirstPage(s) are those with fewer than PageSize. *)
Before(s, k) == {j \in s : j < k}

LEMMA BeforeIsFinite ==
  ASSUME NEW s, IsFiniteSet(s), NEW k
  PROVE  IsFiniteSet(Before(s, k)) /\ Cardinality(Before(s, k)) \in Nat
BY FS_Subset, FS_CardinalityType DEF Before

LEMMA PageBefore ==
  ASSUME NEW s
  PROVE  FirstPage(s) = {k \in s : Cardinality(Before(s, k)) < PageSize}
BY DEF FirstPage, Before

(* What comes before one key comes before every later one. *)
LEMMA BeforeGrows ==
  ASSUME NEW s, s \subseteq Nat, NEW k \in Nat, NEW m \in Nat, k <= m
  PROVE  Before(s, k) \in SUBSET Before(s, m)
<1> SUFFICES ASSUME NEW j, j \in s, j < k PROVE j < m
  BY DEF Before
<1>1. j \in Nat
  OBVIOUS
<1> QED BY <1>1

(* A finite set of keys has a last one. *)
LEMMA MaxIsLast ==
  ASSUME NEW s, s \subseteq Nat, IsFiniteSet(s), s # {}
  PROVE  Max(s) \in s /\ \A k \in s : k <= Max(s)
<1> DEFINE After(k) == {j \in s : j > k}
           N == {Cardinality(After(k)) : k \in s}
<1>1. ASSUME NEW k \in s PROVE IsFiniteSet(After(k)) /\ Cardinality(After(k)) \in Nat
  BY FS_Subset, FS_CardinalityType
<1>2. PICK m \in s : \A k \in s : Cardinality(After(m)) <= Cardinality(After(k))
  <2>1. N \subseteq Nat /\ N # {}
    BY <1>1
  <2>2. PICK n \in N : \A i \in N : n <= i
    BY <2>1, LeastNatural
  <2> QED BY <2>2
<1>3. ASSUME NEW k \in s, k > m PROVE FALSE
  <2>1. After(k) \subseteq After(m) /\ k \in After(m) /\ k \notin After(k)
    <3>1. m \in Nat /\ k \in Nat /\ k > m
      BY <1>3
    <3>2. ASSUME NEW j, j \in s, j > k PROVE j > m
      <4>1. j \in Nat
        BY <3>2
      <4> QED BY <3>1, <3>2, <4>1
    <3> QED BY <3>1, <3>2
  <2>2. Cardinality(After(k)) <= Cardinality(After(m)) /\ Cardinality(After(k)) # Cardinality(After(m))
    <3> HIDE DEF After
    <3> QED BY <1>1, <2>1, FS_Subset
  <2> QED BY <1>1, <1>2, <2>2
<1>4. \A k \in s : m >= k
  BY <1>3
<1> QED BY <1>4 DEF Max

(* A page that has all the room there is ends with its last key, and nothing   *)
(* before that is left out.                                                  *)
LEMMA FullPage ==
  ASSUME NEW s, s \subseteq Nat, IsFiniteSet(s), Cardinality(FirstPage(s)) = PageSize
  PROVE  /\ Max(FirstPage(s)) \in s
         /\ \A k \in s : k \in FirstPage(s) <=> k <= Max(FirstPage(s))
<1> DEFINE page == FirstPage(s)
<1>1. page \subseteq s /\ IsFiniteSet(page)
  BY PageBefore, FS_Subset
<1>2. page # {}
  BY DynamoAssumption, FS_EmptySet
<1>3. PICK m \in page : m = Max(page) /\ \A k \in page : k <= m
  BY <1>1, <1>2, MaxIsLast
<1>4. ASSUME NEW k \in s, k <= m PROVE k \in page
  <2>1. Before(s, k) \in SUBSET Before(s, m)
    <3>1. k \in Nat /\ m \in Nat
      BY <1>1
    <3> QED BY <1>4, <3>1, BeforeGrows
  <2>2. Cardinality(Before(s, k)) <= Cardinality(Before(s, m))
    BY <2>1, BeforeIsFinite, FS_Subset
  <2>3. Cardinality(Before(s, m)) < PageSize /\ Cardinality(Before(s, k)) \in Nat
        /\ Cardinality(Before(s, m)) \in Nat
    BY <1>3, PageBefore, BeforeIsFinite
  <2>4. Cardinality(Before(s, k)) < PageSize
    BY <2>2, <2>3, DynamoAssumption
  <2> QED BY <2>4, PageBefore
<1> QED BY <1>1, <1>3, <1>4

(* A page with room to spare has every key. *)
LEMMA ShortPage ==
  ASSUME NEW s, s \subseteq Nat, IsFiniteSet(s), Cardinality(FirstPage(s)) # PageSize
  PROVE  FirstPage(s) = s
<1> DEFINE page == FirstPage(s)
           Left == s \ page
<1>1. page \subseteq s /\ IsFiniteSet(page) /\ Cardinality(page) \in Nat
  BY PageBefore, FS_Subset, FS_CardinalityType
<1>2. Cardinality(page) <= PageSize
  <2>1. CASE page = {}
    BY <2>1, DynamoAssumption, FS_EmptySet
  <2>2. CASE page # {}
    <3>1. PICK m \in page : \A k \in page : k <= m
      BY <1>1, <2>2, MaxIsLast
    <3>2. page \in SUBSET (Before(s, m) \cup {m})
      <4> SUFFICES ASSUME NEW k \in page, k # m PROVE k \in s /\ k < m
        BY DEF Before
      <4>1. k \in Nat /\ m \in Nat /\ k \in s /\ k <= m
        BY <1>1, <3>1
      <4> QED BY <4>1
    <3>3. IsFiniteSet(Before(s, m)) /\ Cardinality(Before(s, m)) \in Nat /\ Cardinality(Before(s, m)) < PageSize
      BY <3>1, BeforeIsFinite, PageBefore
    <3>4. IsFiniteSet(Before(s, m) \cup {m}) /\ m \notin Before(s, m)
          /\ Cardinality(Before(s, m) \cup {m}) = Cardinality(Before(s, m)) + 1
      <4>1. m \notin Before(s, m)
        <5>1. m \in Nat
          BY <1>1
        <5> QED BY <5>1 DEF Before
      <4> QED BY <3>3, <4>1, FS_AddElement
    <3>5. Cardinality(page) <= Cardinality(Before(s, m) \cup {m})
      BY <3>2, <3>4, FS_Subset
    <3> QED BY <1>1, <3>3, <3>4, <3>5, DynamoAssumption
  <2> QED BY <2>1, <2>2
<1>3. ASSUME Left # {} PROVE FALSE
  <2>1. PICK k \in Left : \A j \in Left : k <= j
    BY <1>3, LeastNatural
  <2>2. Before(s, k) \in SUBSET page
    <3> SUFFICES ASSUME NEW j, j \in s, j < k PROVE j \in page
      BY DEF Before
    <3>1. j \in Nat /\ k \in Nat
      OBVIOUS
    <3>2. ~(k <= j)
      BY <3>1
    <3> QED BY <2>1, <3>2
  <2>3. Cardinality(Before(s, k)) <= Cardinality(page)
    BY <1>1, <2>2, FS_Subset
  <2>4. ~(Cardinality(Before(s, k)) < PageSize) /\ Cardinality(Before(s, k)) \in Nat
    BY <2>1, PageBefore, BeforeIsFinite
  <2> QED BY <1>1, <1>2, <2>3, <2>4, DynamoAssumption
<1> QED BY <1>1, <1>3

(* A listing is a sequence of partitions. *)
LEMMA ListingIs ==
  ASSUME NEW l \in Listings
  PROVE  /\ \/ Len(l) = 1 /\ l = Scan /\ l[1] = "scan"
            \/ Len(l) = 1 /\ l = Overdue /\ l[1] = "expired" /\ l # Scan
            \/ l \in Seq(States) /\ l # <<>> /\ l # Scan /\ l # Overdue
               /\ \A i, j \in DOMAIN l : l[i] = l[j] => i = j
         /\ Len(l) \in Nat \ {0}
         /\ DOMAIN l = 1 .. Len(l)
<1>1. CASE l = Scan
  BY <1>1 DEF Scan
<1>2. CASE l = Overdue
  BY <1>2 DEF Scan, Overdue
<1>3. CASE l \in Wanted
  <2>1. l \in Seq(States) /\ l # <<>> /\ \A i, j \in DOMAIN l : l[i] = l[j] => i = j
    BY <1>3, DynamoAssumption
  <2>2. Len(l) \in Nat \ {0} /\ DOMAIN l = 1 .. Len(l)
    BY <2>1
  <2>3. l[1] \in States
    BY <2>1, <2>2
  <2>4. l # Scan /\ l # Overdue
    BY <2>3, DynamoAssumption DEF Scan, Overdue
  <2> QED BY <2>1, <2>2, <2>4
<1> QED BY <1>1, <1>2, <1>3 DEF Listings

(* What is read while j partitions are left. *)
LEMMA QueryIs ==
  ASSUME NEW l \in Listings, NEW j \in 1 .. Len(l)
  PROVE  /\ l = Scan => Query(l, j) = "scan"
         /\ l = Overdue => Query(l, j) = "expired"
         /\ l \notin {Scan, Overdue} => Query(l, j) \in States /\ Query(l, j) \notin {"scan", "expired"}
<1>1. Len(l) + 1 - j \in DOMAIN l
  BY ListingIs
<1>2. CASE l \in {Scan, Overdue}
  <2>1. Len(l) = 1 /\ j = 1 /\ Len(l) + 1 - j = 1 /\ (l = Scan => l[1] = "scan") /\ (l = Overdue => l[1] = "expired")
    <3>1. Len(l) = 1 /\ (l = Scan => l[1] = "scan") /\ (l = Overdue => l[1] = "expired")
      BY <1>2 DEF Scan, Overdue
    <3>2. j = 1 /\ Len(l) + 1 - j = 1
      BY <3>1
    <3> QED BY <3>1, <3>2
  <2> QED BY <1>2, <2>1 DEF Query
<1>3. CASE l \notin {Scan, Overdue}
  <2>1. l \in Seq(States)
    BY <1>3, ListingIs
  <2>2. Query(l, j) \in States
    BY <1>1, <2>1 DEF Query
  <2> QED BY <1>3, <2>2, DynamoAssumption
<1> QED BY <1>2, <1>3

(* A record that belongs in a listing is in one of its partitions, and in no    *)
(* other.                                                                    *)
LEMMA OnePartition ==
  ASSUME NEW l \in Listings, NEW k \in Keys, Belongs(l, k)
  PROVE  \E n \in 1 .. Len(l) : \A j \in 1 .. Len(l) : Matches(Query(l, j), k) <=> j = n
<1>1. CASE l \in {Scan, Overdue}
  <2>1. Len(l) = 1
    BY <1>1 DEF Scan, Overdue
  <2>2. \A j \in 1 .. Len(l) : Matches(Query(l, j), k) /\ j = 1
    BY <1>1, <2>1, QueryIs DEF Matches
  <2> QED BY <2>1, <2>2
<1>2. CASE l \notin {Scan, Overdue}
  <2>1. l \in Seq(States) /\ (\A i, j \in DOMAIN l : l[i] = l[j] => i = j) /\ DOMAIN l = 1 .. Len(l)
        /\ Len(l) \in Nat
    BY <1>2, ListingIs
  <2>2. PICK i \in DOMAIN l : l[i] = items[k].st
    BY <1>2 DEF Belongs, Kept
  <2>3. ASSUME NEW j \in 1 .. Len(l) PROVE Matches(Query(l, j), k) <=> j = Len(l) + 1 - i
    <3>1. Matches(Query(l, j), k) <=> l[Len(l) + 1 - j] = l[i]
      BY <1>2, <2>2, QueryIs DEF Matches, Query
    <3>2. Len(l) + 1 - j \in DOMAIN l
      BY <2>1
    <3>3. l[Len(l) + 1 - j] = l[i] <=> Len(l) + 1 - j = i
      BY <2>1, <3>2
    <3> QED BY <2>1, <3>1, <3>3
  <2>4. Len(l) + 1 - i \in 1 .. Len(l)
    BY <2>1
  <2> QED BY <2>3, <2>4
<1> QED BY <1>1, <1>2

(* The replica has a settled record in just those partitions. *)
LEMMA PartitionHas ==
  ASSUME NEW l \in Listings, NEW j \in 1 .. Len(l), NEW k \in Keys, Belongs(l, k), replica[k] = items[k]
  PROVE  k \in Partition(Query(l, j)) <=> Matches(Query(l, j), k)
<1>1. replica[k].rev > 0
  BY DEF Belongs
<1>2. l = Overdue => k \in due
  BY DEF Belongs
<1>3. CASE l = Scan
  BY <1>1, <1>3, QueryIs DEF Partition, Matches
<1>4. CASE l = Overdue
  BY <1>1, <1>2, <1>4, QueryIs DEF Partition, Matches
<1>5. CASE l \notin {Scan, Overdue}
  BY <1>1, <1>5, QueryIs DEF Partition, Matches
<1> QED BY <1>3, <1>4, <1>5

(* Every record's number has been written, and what was written stays so. *)
LEMMA ItemsWrittenStep ==
  ASSUME WriteInv, ItemsWritten, [Next]_vars
  PROVE  ItemsWritten' /\ written \subseteq written'
<1> USE DEF WriteInv, TypeInv, TypeOK, ItemsWritten
<1>1. ASSUME NEW c \in Clients, PutItem(c) PROVE ItemsWritten' /\ written \subseteq written'
  <2>1. op[c] \in Known /\ op[c].pc = "put" /\ Admits(op[c]) /\ Write(op[c])
    BY <1>1 DEF PutItem, Known
  <2> QED BY <2>1, AdmittedSave
<1>2. ASSUME NEW r \in late, Land(r) PROVE ItemsWritten' /\ written \subseteq written'
  <2>1. CASE r.pc = "put" /\ Admits(r) /\ Write(r)
    <3>1. r \in Known
      BY DEF Known
    <3> QED BY <2>1, <3>1, AdmittedSave
  <2>2. CASE UNCHANGED <<items, written>>
    BY <2>2
  <2> QED BY <1>2, <2>1, <2>2 DEF Land
<1>3. ASSUME NEW k \in Keys, Expire(k) PROVE ItemsWritten' /\ written \subseteq written'
  BY <1>3 DEF Expire, NoRecord
<1>4. CASE UNCHANGED <<items, written>>
  BY <1>4
<1>5. ASSUME NEW c \in Clients,
             \/ \E k \in Keys : Get(c, k)
             \/ \E k \in Keys, st \in Fresh : Create(c, k, st)
             \/ \E st \in States : Save(c, st)
             \/ PutRefused(c) \/ Check(c)
             \/ \E l \in Listings : List(c, l)
             \/ ReadPage(c)
             \/ \E t \in Times : Insert(c, t)
             \/ TransactInsert(c) \/ Reread(c) \/ Delete(c) \/ TransactDelete(c) \/ GiveUp(c)
      PROVE UNCHANGED <<items, written>>
  BY <1>5 DEF Get, Create, Save, PutRefused, Check, List, ReadPage, Insert, TransactInsert, Reread, Delete,
              TransactDelete, GiveUp, tableVars
<1>6. ASSUME NEW k \in Keys, Propagate(k) \/ FallDue(k) PROVE UNCHANGED <<items, written>>
  BY <1>6 DEF Propagate, FallDue
<1>7. UNCHANGED vars => UNCHANGED <<items, written>>
  BY DEF vars
<1> QED BY <1>1, <1>2, <1>3, <1>4, <1>5, <1>6, <1>7 DEF Next, RecordStep, EventStep, RequestStep

(* The replica keeps what it has right, and a record that is due and is not     *)
(* changed stays due.                                                        *)
LEMMA SettledStays ==
  ASSUME WriteInv, [Next]_vars, NEW k \in Keys, items'[k] = items[k], items[k].rev > 0,
         replica[k] = items[k]
  PROVE  replica'[k] = items'[k] /\ (k \in due => k \in due')
<1> USE DEF WriteInv, TypeInv, TypeOK
<1>1. ASSUME NEW j \in Keys, Propagate(j) PROVE replica'[k] = items'[k] /\ (k \in due => k \in due')
  BY <1>1 DEF Propagate
<1>2. ASSUME NEW j \in Keys, FallDue(j) PROVE replica'[k] = items'[k] /\ (k \in due => k \in due')
  BY <1>2 DEF FallDue
<1>3. ASSUME NEW j \in Keys, Expire(j) PROVE replica'[k] = items'[k] /\ (k \in due => k \in due')
  <2>1. j # k
    BY <1>3 DEF Expire, NoRecord
  <2> QED BY <1>3, <2>1 DEF Expire
<1>4. ASSUME NEW c \in Clients,
             \/ \E j \in Keys : Get(c, j)
             \/ \E j \in Keys, st \in Fresh : Create(c, j, st)
             \/ \E st \in States : Save(c, st)
             \/ PutItem(c) \/ PutRefused(c) \/ Check(c)
             \/ \E l \in Listings : List(c, l)
             \/ ReadPage(c)
             \/ \E t \in Times : Insert(c, t)
             \/ TransactInsert(c) \/ Reread(c) \/ Delete(c) \/ TransactDelete(c) \/ GiveUp(c)
      PROVE UNCHANGED <<replica, due>>
  BY <1>4 DEF Get, Create, Save, PutItem, PutRefused, Check, List, ReadPage, Insert, TransactInsert, Reread,
              Delete, TransactDelete, GiveUp, tableVars
<1>5. ASSUME NEW r \in late, Land(r) PROVE UNCHANGED <<replica, due>>
  BY <1>5 DEF Land
<1>6. UNCHANGED vars => UNCHANGED <<replica, due>>
  BY DEF vars
<1> QED BY <1>1, <1>2, <1>3, <1>4, <1>5, <1>6 DEF Next, RecordStep, EventStep, RequestStep

(* A client's operation is what it was, or is no listing, or begins one, or     *)
(* reads a page.                                                             *)
LEMMA ListingSteps ==
  ASSUME WriteInv, [Next]_vars, NEW d \in Clients
  PROVE  \/ op'[d] = op[d] \/ ~IsRead(op'[d])
         \/ (\E l \in Listings : List(d, l)) \/ ReadPage(d)
<1>0. op = [c \in Clients |-> op[c]]
  BY DEF WriteInv, TypeInv
<1>1. ASSUME NEW c \in Clients, NEW o, Become(c, o), c = d => o.pc \notin {"list", "listed"}
      PROVE  op'[d] = op[d] \/ ~IsRead(op'[d])
  BY <1>0, <1>1 DEF Become, IsRead
<1>2. ASSUME NEW c \in Clients, NEW o, Become(c, o), c # d PROVE op'[d] = op[d]
  BY <1>0, <1>2 DEF Become
<1>3. \A a : Answer(a).pc = "answered" /\ Idle.pc = "idle"
  BY DEF Answer, Idle
<1>4. ASSUME NEW c \in Clients,
             \/ \E k \in Keys : Get(c, k)
             \/ \E k \in Keys, st \in Fresh : Create(c, k, st)
             \/ \E st \in States : Save(c, st)
      PROVE  op'[d] = op[d] \/ ~IsRead(op'[d])
  BY <1>1, <1>4 DEF Get, Create, Save, Request
<1>5. ASSUME NEW c \in Clients, op[c].pc \in {"put", "check", "insert", "reread", "delete"}
      PROVE  op[c] \in PutRequests \/ op[c] \in EventRequests
  BY <1>5 DEF WriteInv, TypeInv, TypeOK, Operations, Idle, IsListing, SaveAnswers
<1>6. ASSUME NEW c \in Clients, PutItem(c) \/ PutRefused(c) \/ Check(c)
      PROVE  op'[d] = op[d] \/ ~IsRead(op'[d])
  <2>1. op[c] \in PutRequests \/ op[c] \in EventRequests
    BY <1>5, <1>6 DEF PutItem, PutRefused, Check
  <2>2. [op[c] EXCEPT !.resent = TRUE].pc = op[c].pc /\ [op[c] EXCEPT !.pc = "check"].pc = "check"
    BY <2>1 DEF PutRequests, EventRequests
  <2>3. \A a : Refused(op[c], a).pc = "saved"
    BY DEF Refused
  <2> DEFINE Goes == \E o : Become(c, o) /\ o.pc \in {"put", "check", "saved"}
  <2>4. ASSUME PutItem(c) PROVE Goes
    <3>1. CASE Become(c, [pc |-> "saved", answer |-> "ok", rec |-> op[c].rec, resent |-> FALSE])
      BY <3>1
    <3>2. CASE Become(c, [op[c] EXCEPT !.resent = TRUE])
      <4>1. [op[c] EXCEPT !.resent = TRUE].pc = "put"
        BY <2>2, <2>4 DEF PutItem
      <4> QED BY <3>2, <4>1
    <3> QED BY <2>4, <3>1, <3>2 DEF PutItem
  <2>5. ASSUME PutRefused(c) PROVE Goes
    <3>1. CASE Become(c, Refused(op[c], "exists"))
      BY <2>3, <3>1
    <3>2. CASE Become(c, [op[c] EXCEPT !.pc = "check"])
      BY <2>2, <3>2
    <3> QED BY <2>5, <3>1, <3>2 DEF PutRefused
  <2>6. ASSUME Check(c) PROVE Goes
    BY <2>3, <2>6 DEF Check
  <2>7. Goes
    BY <1>6, <2>4, <2>5, <2>6
  <2> QED BY <1>1, <2>7
<1>7. ASSUME NEW c \in Clients,
             \/ \E t \in Times : Insert(c, t)
             \/ TransactInsert(c) \/ Reread(c) \/ Delete(c) \/ TransactDelete(c) \/ GiveUp(c)
      PROVE  op'[d] = op[d] \/ ~IsRead(op'[d])
  <2>1. op[c].pc \in {"insert", "delete"} =>
          [op[c] EXCEPT !.applied = TRUE].pc = op[c].pc /\ [op[c] EXCEPT !.pc = "reread"].pc = "reread"
    BY <1>5 DEF PutRequests, EventRequests
  <2> DEFINE Goes == \E o : Become(c, o) /\ o.pc \in {"insert", "delete", "reread", "answered", "idle", "saved"}
  <2>2. ASSUME NEW a, Become(c, Answer(a)) PROVE Goes
    BY <1>3, <2>2
  <2>3. Become(c, Idle) => Goes
    BY <1>3
  <2>13. Become(c, Refused(op[c], "conflict")) => Goes
    BY DEF Refused
  <2>4. ASSUME op[c].pc \in {"insert", "delete"},
               \/ Become(c, [op[c] EXCEPT !.applied = TRUE])
               \/ Become(c, [op[c] EXCEPT !.pc = "reread"])
        PROVE  Goes
    <3>1. CASE Become(c, [op[c] EXCEPT !.applied = TRUE])
      BY <2>1, <2>4, <3>1
    <3>2. CASE Become(c, [op[c] EXCEPT !.pc = "reread"])
      BY <2>1, <2>4, <3>2
    <3> QED BY <2>4, <3>1, <3>2
  <2>5. ASSUME NEW t, Become(c, [pc |-> "insert", time |-> t, applied |-> FALSE])
                      \/ Become(c, [pc |-> "delete", time |-> t, applied |-> FALSE])
        PROVE  Goes
    BY <2>5
  <2> HIDE DEF Goes
  <2>6. ASSUME NEW t \in Times, Insert(c, t) PROVE Goes
    BY <2>2, <2>5, <2>6 DEF Insert
  <2>7. TransactInsert(c) => Goes
    BY <2>2, <2>4 DEF TransactInsert
  <2>8. Reread(c) => Goes
    BY <2>2 DEF Reread
  <2>9. Delete(c) => Goes
    BY <2>3, <2>5 DEF Delete
  <2>10. TransactDelete(c) => Goes
    BY <2>3, <2>4 DEF TransactDelete
  <2>11. GiveUp(c) => Goes
    BY <2>2, <2>13 DEF GiveUp
  <2>12. Goes
    BY <1>7, <2>6, <2>7, <2>8, <2>9, <2>10, <2>11
  <2> QED BY <1>1, <2>12 DEF Goes
<1>8. ASSUME NEW c \in Clients, c # d, (\E l \in Listings : List(c, l)) \/ ReadPage(c)
      PROVE  op'[d] = op[d]
  BY <1>2, <1>8 DEF List, ReadPage
<1>9. ASSUME NEW k \in Keys, Propagate(k) \/ FallDue(k) \/ Expire(k) PROVE op' = op
  BY <1>9 DEF Propagate, FallDue, Expire
<1>10. ASSUME NEW r \in late, Land(r) PROVE op' = op
  BY <1>10 DEF Land
<1>11. UNCHANGED vars => op' = op
  BY DEF vars
<1> QED BY <1>4, <1>6, <1>7, <1>8, <1>9, <1>10, <1>11 DEF Next, RecordStep, EventStep, RequestStep

(* What a listing has found of one settled record that belongs in it: its     *)
(* entry under each partition passed that it is in.                          *)
FoundOf(o, k) ==
  /\ \A f \in o.found : f.key = k => f.rec = items[k]
  /\ \A j \in 1 .. Len(o.listing) :
       Entry(k, j) \in o.found <=> Matches(Query(o.listing, j), k) /\ Passed(o, k, j)

(* The keys the next page of a listing has. *)
Ahead(o) == FirstPage({k \in Partition(Head(o.todo)) : k > o.after})

(* What a listing has found with the page it reads now.                       *)
WithPage(o, page) ==
  o.found \cup {[from |-> Len(o.todo), key |-> k, rec |-> replica[k]] : k \in page}

(* The entries a page adds, and what is in them of a settled record.           *)
LEMMA PageAdds ==
  ASSUME NEW o, NEW k \in Keys, NEW page, page \subseteq Keys, IsProgress(o),
         replica[k] = items[k], FoundOf(o, k)
  PROVE  /\ \A f \in WithPage(o, page) : f.key = k => f.rec = items[k]
         /\ \A j \in Nat :
              Entry(k, j) \in WithPage(o, page) <=> Entry(k, j) \in o.found \/ (j = Len(o.todo) /\ k \in page)
         /\ \A f \in WithPage(o, page) : IsEntry(f, o.listing)
<1> DEFINE found == WithPage(o, page)
           n == Len(o.todo)
<1>1. n \in 1 .. Len(o.listing)
  BY DEF IsProgress
<1>2. ASSUME NEW f \in found
      PROVE  f \in o.found \/ \E i \in page : f = [from |-> n, key |-> i, rec |-> replica[i]]
  BY DEF WithPage
<1>3. ASSUME NEW f \in found, f.key = k PROVE f.rec = items[k]
  BY <1>2, <1>3 DEF FoundOf
<1>4. ASSUME NEW f \in found PROVE IsEntry(f, o.listing)
  BY <1>1, <1>2 DEF IsProgress, IsEntry
<1>5. ASSUME NEW j \in Nat
      PROVE  Entry(k, j) \in found <=> Entry(k, j) \in o.found \/ (j = n /\ k \in page)
  <2>1. ASSUME j = n, k \in page PROVE Entry(k, j) \in found
    BY <2>1 DEF Entry, WithPage
  <2>2. ASSUME NEW i \in page, Entry(k, j) = [from |-> n, key |-> i, rec |-> replica[i]]
        PROVE  j = n /\ k = i
    <3>1. Entry(k, j).from = j /\ Entry(k, j).key = k
      BY DEF Entry
    <3>2. [from |-> n, key |-> i, rec |-> replica[i]].from = n /\ [from |-> n, key |-> i, rec |-> replica[i]].key = i
      OBVIOUS
    <3> QED BY <2>2, <3>1, <3>2
  <2>3. Entry(k, j) \in found <=>
          Entry(k, j) \in o.found \/ \E i \in page : Entry(k, j) = [from |-> n, key |-> i, rec |-> replica[i]]
    BY DEF WithPage
  <2> HIDE DEF found
  <2> QED BY <2>1, <2>2, <2>3
<1> QED BY <1>3, <1>4, <1>5

(* The keys a page is taken from. *)
LEMMA KeysAhead ==
  ASSUME NEW p, NEW a \in Nat
  PROVE  LET s == {k \in Partition(p) : k > a}
         IN  s \subseteq Nat /\ s \subseteq Keys /\ IsFiniteSet(s)
<1> DEFINE s == {k \in Partition(p) : k > a}
<1>1. s \subseteq Keys
  BY DEF Partition
<1> QED BY <1>1, DynamoAssumption, FS_Subset

(* The partition read next is the one its number says. *)
LEMMA NextPartition ==
  ASSUME NEW o, IsProgress(o)
  PROVE  /\ Head(o.todo) = Query(o.listing, Len(o.todo))
         /\ o.listing \in Listings /\ Len(o.listing) \in Nat \ {0}
         /\ Len(o.todo) \in 1 .. Len(o.listing) /\ Len(o.todo) \in Nat
<1>1. Len(o.listing) \in Nat \ {0}
  BY ListingIs DEF IsProgress
<1>2. PICK n \in 1 .. Len(o.listing) : n = Len(o.todo)
  BY DEF IsProgress
<1>3. o.todo = [i \in 1 .. n |-> Query(o.listing, n + 1 - i)]
  BY <1>2 DEF IsProgress
<1>4. o.todo[1] = Query(o.listing, n + 1 - 1) /\ n + 1 - 1 = n
  BY <1>1, <1>3
<1>5. Head(o.todo) = o.todo[1]
  OBVIOUS
<1> QED BY <1>1, <1>2, <1>4, <1>5 DEF IsProgress

(* A page that is not the last of the listing. *)
LEMMA PageGoesOn ==
  ASSUME NEW o, IsProgress(o), NEW k \in Keys, k \in DOMAIN o.settled, FoundOf(o, k), Belongs(o.listing, k),
         replica[k] = items[k], NEW page, NEW found, NEW n, n = Len(o.todo),
         page = Ahead(o),
         found = WithPage(o, page),
         NEW q, NEW todo, NEW after, q = Reading(o.listing, todo, after, found, o.settled),
         \/ Cardinality(page) = PageSize /\ todo = o.todo /\ after = Max(page)
         \/ Cardinality(page) # PageSize /\ Len(todo) = n - 1 /\ after = 0
  PROVE  FoundOf(q, k)
<1> DEFINE s == {i \in Partition(Head(o.todo)) : i > o.after}
<1> USE DEF Ahead
<1>0. /\ Head(o.todo) = Query(o.listing, n) /\ o.listing \in Listings /\ n \in 1 .. Len(o.listing)
      /\ Len(o.listing) \in Nat \ {0} /\ o.after \in Nat /\ n \in Nat /\ k \in Nat \ {0}
  BY NextPartition, DynamoAssumption DEF IsProgress
<1>1. s \subseteq Nat /\ s \subseteq Keys /\ IsFiniteSet(s) /\ page = FirstPage(s)
  BY <1>0, KeysAhead
<1>2. k \in s <=> Matches(Query(o.listing, n), k) /\ k > o.after
  BY <1>0, PartitionHas
<1> HIDE DEF s
<1>3. page \subseteq Keys
  BY <1>1, PageBefore
<1>4. /\ \A f \in found : f.key = k => f.rec = items[k]
      /\ \A j \in Nat : Entry(k, j) \in found <=> Entry(k, j) \in o.found \/ (j = n /\ k \in page)
  BY <1>0, <1>3, PageAdds
<1>5. q.listing = o.listing /\ q.todo = todo /\ q.after = after /\ q.found = found
  BY DEF Reading
<1>6. ASSUME NEW j \in 1 .. Len(o.listing)
      PROVE  Entry(k, j) \in found <=> Matches(Query(o.listing, j), k) /\ Passed(q, k, j)
  <2>1. Entry(k, j) \in o.found <=> Matches(Query(o.listing, j), k) /\ Passed(o, k, j)
    BY <1>0 DEF FoundOf
  <2>2. j \in Nat /\ (Entry(k, j) \in found <=> Entry(k, j) \in o.found \/ (j = n /\ k \in page))
    BY <1>0, <1>4
  <2>3. Passed(o, k, j) <=> j > n \/ (j = n /\ k <= o.after)
    BY DEF Passed
  <2>4. CASE Cardinality(page) = PageSize
    <3>1. after \in Nat /\ after > o.after /\ (k \in s => (k \in page <=> k <= after)) /\ (k \in page => k \in s)
      <4>1. after = Max(page) /\ after \in s
        BY <1>1, <2>4, FullPage
      <4>2. k \in s => (k \in page <=> k <= after)
        BY <1>1, <2>4, <4>1, FullPage
      <4>3. after \in Nat /\ after > o.after
        BY <1>1, <4>1 DEF s
      <4> QED BY <1>1, <4>2, <4>3, PageBefore
    <3>2. Passed(q, k, j) <=> j > n \/ (j = n /\ k <= after)
      BY <1>5, <2>4 DEF Passed
    <3>3. CASE j = n
      BY <1>0, <1>2, <2>1, <2>2, <2>3, <3>1, <3>2, <3>3
    <3>4. CASE j # n
      BY <2>1, <2>2, <2>3, <3>2, <3>4
    <3> QED BY <3>3, <3>4
  <2>5. CASE Cardinality(page) # PageSize
    <3>1. page = s
      BY <1>1, <2>5, ShortPage
    <3>2. Passed(q, k, j) <=> j > n - 1
      BY <1>0, <1>5, <2>2, <2>5 DEF Passed
    <3>3. CASE j = n
      BY <1>0, <1>2, <2>1, <2>2, <2>3, <3>1, <3>2, <3>3
    <3>4. CASE j # n
      BY <1>0, <2>1, <2>2, <2>3, <3>2, <3>4
    <3> QED BY <3>3, <3>4
  <2> QED BY <2>4, <2>5
<1> QED BY <1>4, <1>5, <1>6 DEF FoundOf

(* What the listing has when it is complete.                                 *)
Listed(o) == {f \in WithPage(o, Ahead(o)) : Kept(o.listing, f.rec)}

(* The last page: what belongs in the listing is in it once.                  *)
LEMMA ListedOnce ==
  ASSUME NEW o, IsProgress(o), NEW k \in Keys, k \in DOMAIN o.settled, FoundOf(o, k), Belongs(o.listing, k),
         replica[k] = items[k], Len(o.todo) = 1, Cardinality(Ahead(o)) # PageSize
  PROVE  /\ Cardinality({f \in Listed(o) : f.key = k}) = 1
         /\ \A f \in Listed(o) : f.key = k => f.rec = items[k]
<1> PICK page, found, n, all :
      page = Ahead(o) /\ found = WithPage(o, page) /\ n = Len(o.todo) /\ all = Listed(o)
  OBVIOUS
<1> DEFINE s == {i \in Partition(Head(o.todo)) : i > o.after}
<1>1. all = {f \in found : Kept(o.listing, f.rec)}
  BY DEF Listed
<1> USE DEF Ahead
<1>2. /\ Head(o.todo) = Query(o.listing, 1) /\ o.listing \in Listings /\ 1 \in 1 .. Len(o.listing)
      /\ Len(o.listing) \in Nat \ {0} /\ o.after \in Nat /\ k \in Nat \ {0} /\ n \in Nat
  BY NextPartition, DynamoAssumption DEF IsProgress
<1>3. s \subseteq Nat /\ s \subseteq Keys /\ IsFiniteSet(s) /\ page = s
  BY <1>2, KeysAhead, ShortPage
<1>4. k \in s <=> Matches(Query(o.listing, 1), k) /\ k > o.after
  BY <1>2, PartitionHas
<1> HIDE DEF s
<1>5. page \subseteq Keys
  BY <1>3
<1>6. /\ \A f \in found : f.key = k => f.rec = items[k]
      /\ \A j \in Nat : Entry(k, j) \in found <=> Entry(k, j) \in o.found \/ (j = Len(o.todo) /\ k \in page)
      /\ \A f \in found : IsEntry(f, o.listing)
  <2>1. \A f \in found : f.key = k => f.rec = items[k]
    BY <1>5, PageAdds
  <2>2. \A j \in Nat : Entry(k, j) \in found <=> Entry(k, j) \in o.found \/ (j = Len(o.todo) /\ k \in page)
    BY <1>5, PageAdds
  <2>3. \A f \in found : IsEntry(f, o.listing)
    BY <1>5, PageAdds
  <2> QED BY <2>1, <2>2, <2>3
<1>7. ASSUME NEW j \in 1 .. Len(o.listing)
      PROVE  Entry(k, j) \in found <=> Matches(Query(o.listing, j), k)
  <2>1. Entry(k, j) \in o.found <=> Matches(Query(o.listing, j), k) /\ Passed(o, k, j)
    BY <1>2 DEF FoundOf
  <2>2. j \in Nat /\ j >= 1 /\ (Entry(k, j) \in found <=> Entry(k, j) \in o.found \/ (j = n /\ k \in page))
    BY <1>2, <1>6
  <2>3. Passed(o, k, j) <=> j > 1 \/ (j = n /\ k <= o.after)
    BY DEF Passed
  <2>4. CASE j = 1
    BY <1>2, <1>3, <1>4, <2>1, <2>2, <2>3, <2>4
  <2>5. CASE j # 1
    BY <2>1, <2>2, <2>3, <2>5
  <2> QED BY <2>4, <2>5
<1>8. PICK m \in 1 .. Len(o.listing) : \A j \in 1 .. Len(o.listing) : Matches(Query(o.listing, j), k) <=> j = m
  BY <1>2, OnePartition
<1>9. Entry(k, m) \in all /\ Entry(k, m).key = k
  <2>1. Entry(k, m) \in found
    BY <1>7, <1>8
  <2>2. Kept(o.listing, items[k]) /\ Entry(k, m).rec = items[k] /\ Entry(k, m).key = k
    BY DEF Belongs, Entry
  <2> QED BY <1>1, <2>1, <2>2
<1>10. ASSUME NEW f \in all, f.key = k PROVE f = Entry(k, m)
  <2>1. f \in found /\ f.rec = items[k] /\ f.from \in 1 .. Len(o.listing) /\ f = [from |-> f.from, key |-> f.key, rec |-> f.rec]
    BY <1>1, <1>6, <1>10 DEF IsEntry
  <2>2. f = Entry(k, f.from)
    BY <1>10, <2>1 DEF Entry
  <2>3. f.from = m
    BY <1>7, <1>8, <2>1, <2>2
  <2> QED BY <2>2, <2>3
<1>11. {f \in all : f.key = k} = {Entry(k, m)}
  BY <1>9, <1>10
<1> QED BY <1>1, <1>6, <1>11, FS_Singleton

(* The record of a listing that goes on.                                     *)
LEMMA TurnQuery ==
  ASSUME NEW l, NEW todo, NEW after, NEW seen, NEW settled, NEW o, o = Reading(l, todo, after, seen, settled),
         NEW found
  PROVE  NextQuery([o EXCEPT !.found = found]) = Reading(l, Tail(todo), 0, found, settled)
<1>1. PICK r : r = [o EXCEPT !.found = found]
  OBVIOUS
<1>2. r = Reading(l, todo, after, found, settled)
  BY <1>1 DEF Reading
<1>3. r \in [pc : {"list"}, listing : {l}, todo : {todo}, after : {after}, found : {found}, settled : {settled}]
  BY <1>2 DEF Reading
<1> DEFINE q == [r EXCEPT !.after = 0, !.todo = Tail(@)]
<1>4. q \in [pc : {"list"}, listing : {l}, todo : {Tail(todo)}, after : {0}, found : {found}, settled : {settled}]
  BY <1>3
<1>5. q = Reading(l, Tail(todo), 0, found, settled)
  <2> HIDE DEF q
  <2> QED BY <1>4 DEF Reading
<1> QED BY <1>1, <1>5 DEF NextQuery

(* How a page leaves a listing: it goes on, or it has listed what it found.    *)
LEMMA ReadPageIs ==
  ASSUME NEW d \in Clients, ReadPage(d), op = [c \in Clients |-> op[c]], IsProgress(op[d]),
         NEW o, o = op[d], NEW page, page = Ahead(o), NEW found, found = WithPage(o, page)
  PROVE  \/ /\ Cardinality(page) = PageSize
            /\ op'[d] = Reading(o.listing, o.todo, Max(page), found, o.settled)
         \/ /\ Cardinality(page) # PageSize /\ Len(o.todo) > 1
            /\ op'[d] = Reading(o.listing, Tail(o.todo), 0, found, o.settled)
         \/ /\ Cardinality(page) # PageSize /\ ~(Len(o.todo) > 1)
            /\ op'[d] = [pc |-> "listed", settled |-> o.settled,
                         found |-> {f \in found : Kept(o.listing, f.rec)}]
<1>1. PICK l, todo, after, seen, settled : o = Reading(l, todo, after, seen, settled)
  BY DEF IsProgress
<1>2. l = o.listing /\ todo = o.todo /\ settled = o.settled
  BY <1>1 DEF Reading
<1>3. ASSUME NEW q, Become(d, q) PROVE op'[d] = q
  BY <1>3 DEF Become
<1>4. ASSUME NEW a
      PROVE  [o EXCEPT !.found = found, !.after = a] = Reading(l, todo, a, found, settled)
  <2>1. o \in [pc : {"list"}, listing : {l}, todo : {todo}, after : {after}, found : {seen}, settled : {settled}]
    BY <1>1 DEF Reading
  <2> DEFINE q == [o EXCEPT !.found = found, !.after = a]
  <2>2. q \in [pc : {"list"}, listing : {l}, todo : {todo}, after : {a}, found : {found}, settled : {settled}]
    BY <2>1
  <2>3. q = Reading(l, todo, a, found, settled)
    <3> HIDE DEF q
    <3> QED BY <2>2 DEF Reading
  <2> QED BY <2>3
<1>5. NextQuery([o EXCEPT !.found = found]) = Reading(l, Tail(todo), 0, found, settled)
  BY <1>1, TurnQuery
<1>6. Become(d, IF Cardinality(page) = PageSize
                THEN [o EXCEPT !.found = found, !.after = Max(page)]
                ELSE IF Len(o.todo) > 1
                THEN NextQuery([o EXCEPT !.found = found])
                ELSE [pc |-> "listed", settled |-> o.settled,
                      found |-> {f \in found : Kept(o.listing, f.rec)}])
  BY DEF ReadPage, Page, WithPage, Ahead
<1>7. CASE Cardinality(page) = PageSize
  <2>1. Become(d, [o EXCEPT !.found = found, !.after = Max(page)])
    BY <1>6, <1>7
  <2>2. op'[d] = Reading(l, todo, Max(page), found, settled)
    BY <1>3, <1>4, <2>1
  <2> QED BY <1>2, <1>7, <2>2
<1>8. CASE Cardinality(page) # PageSize /\ Len(o.todo) > 1
  <2>1. Become(d, NextQuery([o EXCEPT !.found = found]))
    BY <1>6, <1>8
  <2>2. op'[d] = Reading(l, Tail(todo), 0, found, settled)
    BY <1>3, <1>5, <2>1
  <2> QED BY <1>2, <1>8, <2>2
<1>9. CASE Cardinality(page) # PageSize /\ ~(Len(o.todo) > 1)
  <2> DEFINE q == [pc |-> "listed", settled |-> o.settled, found |-> {f \in found : Kept(o.listing, f.rec)}]
  <2>1. Become(d, q)
    BY <1>6, <1>9
  <2>2. op'[d] = q
    <3> HIDE DEF q
    <3> QED BY <1>3, <2>1
  <2> QED BY <1>9, <2>2
<1> QED BY <1>7, <1>8, <1>9

(* What is said of a record, in the next state, of a listing that goes on.     *)
LEMMA FoundNext ==
  ASSUME NEW o, NEW k \in Keys, FoundOf(o, k), Belongs(o.listing, k), items'[k] = items[k],
         k \in due => k \in due'
  PROVE  FoundOf(o, k)' /\ Belongs(o.listing, k)'
BY DEF FoundOf, Belongs, Kept, Entry, Matches, Passed, Query

(* The next state of a listing's records: those still settled were so before.  *)
LEMMA StillBefore ==
  ASSUME WriteInv, ListInv, [Next]_vars, NEW d \in Clients, IsRead(op[d]), NEW k \in DOMAIN op[d].settled,
         items'[k] = op[d].settled[k]
  PROVE  /\ k \in Keys /\ Still(op[d], k) /\ items'[k] = items[k] /\ items[k].rev > 0
         /\ replica[k] = items[k] /\ replica'[k] = items'[k] /\ (k \in due => k \in due')
<1>1. k \in Keys /\ op[d].settled[k].rev > 0 /\ op[d].settled[k].by \in written
      /\ (Still(op[d], k) => replica[k] = items[k])
  BY DEF ListInv, SettledInv
<1>2. items'[k] = items[k]
  BY <1>1, NumberIsNew
<1>3. Still(op[d], k)
  BY <1>2 DEF Still
<1> QED BY <1>1, <1>2, <1>3, SettledStays

(* What ListInv says of one client.                                          *)
ReadInv(o) ==
  /\ \A k \in DOMAIN o.settled :
       /\ k \in Keys /\ o.settled[k].rev > 0 /\ o.settled[k].by \in written
       /\ Still(o, k) => replica[k] = items[k]
  /\ o.pc = "list" => IsProgress(o) /\ FoundAsPassed(o)
  /\ o.pc = "listed" =>
       \A k \in DOMAIN o.settled : items[k] = o.settled[k] =>
         /\ Cardinality({f \in o.found : f.key = k}) = 1
         /\ \A f \in o.found : f.key = k => f.rec = items[k]

LEMMA ReadInvIsListInv == ListInv <=> ItemsWritten /\ \A c \in Clients : IsRead(op[c]) => ReadInv(op[c])
BY DEF ListInv, SettledInv, SettledAreListedOnce, ReadInv, IsRead

LEMMA FoundIs ==
  ASSUME NEW o
  PROVE  FoundAsPassed(o) <=>
           \A k \in DOMAIN o.settled : Still(o, k) => Belongs(o.listing, k) /\ FoundOf(o, k)
BY DEF FoundAsPassed, FoundOf

(* A listing that stands still while others move.                             *)
LEMMA ReadStays ==
  ASSUME WriteInv, ListInv, [Next]_vars, NEW d \in Clients, IsRead(op[d]), op'[d] = op[d],
         written \subseteq written'
  PROVE  ReadInv(op[d])'
<1>1. PICK o : o = op[d]
  OBVIOUS
<1>2. ReadInv(o) /\ IsRead(o)
  BY <1>1, ReadInvIsListInv
<1>3. ASSUME NEW k \in DOMAIN o.settled, items'[k] = o.settled[k]
      PROVE  /\ k \in Keys /\ Still(o, k) /\ items'[k] = items[k] /\ replica'[k] = items'[k]
             /\ (k \in due => k \in due')
  BY <1>1, <1>3, StillBefore
<1>4. \A k \in DOMAIN o.settled :
        /\ k \in Keys /\ o.settled[k].rev > 0 /\ o.settled[k].by \in written'
        /\ items'[k] = o.settled[k] => replica'[k] = items'[k]
  BY <1>2, <1>3 DEF ReadInv
<1>5. ASSUME o.pc = "list" PROVE IsProgress(o) /\ FoundAsPassed(o)'
  <2>1. IsProgress(o) /\ \A k \in DOMAIN o.settled : Still(o, k) => Belongs(o.listing, k) /\ FoundOf(o, k)
    BY <1>2, <1>5, FoundIs DEF ReadInv
  <2>2. ASSUME NEW k \in DOMAIN o.settled, items'[k] = o.settled[k]
        PROVE  Belongs(o.listing, k)' /\ FoundOf(o, k)'
    BY <1>3, <2>1, <2>2, FoundNext
  <2> QED BY <2>1, <2>2 DEF FoundAsPassed, FoundOf, Still
<1>6. ASSUME o.pc = "listed"
      PROVE \A k \in DOMAIN o.settled : items'[k] = o.settled[k] =>
              /\ Cardinality({f \in o.found : f.key = k}) = 1
              /\ \A f \in o.found : f.key = k => f.rec = items'[k]
  BY <1>2, <1>3, <1>6 DEF ReadInv
<1>7. ReadInv(o)'
  BY <1>4, <1>5, <1>6 DEF ReadInv, Still
<1> QED BY <1>1, <1>7

(* A listing that begins.                                                    *)
LEMMA ReadBegins ==
  ASSUME WriteInv, ItemsWritten, NEW d \in Clients, NEW l \in Listings, List(d, l)
  PROVE  ReadInv(op[d])'
<1>1. UNCHANGED <<items, replica, due, written>>
  BY DEF List, tableVars
<1>2. PICK settled :
        settled = [k \in {k \in Keys : replica[k] = items[k] /\ Belongs(l, k)} |-> items[k]]
  OBVIOUS
<1>3. PICK o : o = Reading(l, l, 0, {}, settled)
  OBVIOUS
<1>4. op'[d] = o
  <2>1. op = [c \in Clients |-> op[c]]
    BY DEF WriteInv, TypeInv
  <2> QED BY <1>2, <1>3, <2>1 DEF List, Become, Reading
<1>5. /\ o.listing = l /\ o.todo = l /\ o.after = 0 /\ o.found = {} /\ o.settled = settled /\ o.pc = "list"
  BY <1>3 DEF Reading
<1>6. \A k \in DOMAIN o.settled :
        /\ k \in Keys /\ o.settled[k] = items[k] /\ Belongs(l, k) /\ replica[k] = items[k]
        /\ items[k].rev > 0 /\ items[k].by \in written
  BY <1>2, <1>5 DEF ItemsWritten, Belongs
<1>7. IsProgress(o)
  <2>1. Len(l) \in Nat \ {0} /\ l = [i \in 1 .. Len(l) |-> l[i]]
    BY ListingIs DEF Scan, Overdue
  <2>2. \A i \in 1 .. Len(l) : Len(l) + 1 - (Len(l) + 1 - i) = i
    BY <2>1
  <2>3. l = [i \in 1 .. Len(l) |-> Query(l, Len(l) + 1 - i)]
    BY <2>1, <2>2 DEF Query
  <2>4. o = Reading(o.listing, o.todo, o.after, o.found, o.settled)
    BY <1>3, <1>5
  <2>5. o.todo = [i \in 1 .. Len(o.todo) |-> Query(o.listing, Len(o.todo) + 1 - i)]
    BY <1>5, <2>3
  <2>6. Len(o.todo) \in 1 .. Len(o.listing) /\ o.listing \in Listings /\ o.after \in Nat
    BY <1>5, <2>1
  <2>7. \A f \in o.found : IsEntry(f, o.listing)
    BY <1>5
  <2> QED BY <2>4, <2>5, <2>6, <2>7 DEF IsProgress
<1>8. ASSUME NEW k \in DOMAIN o.settled PROVE Belongs(o.listing, k) /\ FoundOf(o, k)
  <2>1. k \in Nat \ {0} /\ Len(l) \in Nat
    BY <1>6, DynamoAssumption, ListingIs
  <2>2. ASSUME NEW j \in 1 .. Len(l) PROVE ~Passed(o, k, j)
    BY <1>5, <2>1 DEF Passed
  <2> QED BY <1>5, <1>6, <2>2 DEF FoundOf
<1>9. ReadInv(o)
  BY <1>5, <1>6, <1>7, <1>8, FoundIs DEF ReadInv
<1>10. ReadInv(o)'
  BY <1>1, <1>9 DEF ReadInv, Still, FoundAsPassed, Belongs, Kept, Entry, Matches, Query, IsProgress
<1> QED BY <1>4, <1>10

(* A page that is read leaves a listing as far as it says it is.               *)
LEMMA ProgressIs ==
  ASSUME NEW o, IsProgress(o), NEW page, page = Ahead(o), NEW found, found = WithPage(o, page),
         NEW todo, NEW after,
         \/ Cardinality(page) = PageSize /\ todo = o.todo /\ after = Max(page)
         \/ Len(o.todo) > 1 /\ todo = Tail(o.todo) /\ after = 0
  PROVE  IsProgress(Reading(o.listing, todo, after, found, o.settled))
<1> DEFINE s == {k \in Partition(Head(o.todo)) : k > o.after}
<1>0. PICK l, n : l = o.listing /\ n = Len(o.todo)
  OBVIOUS
<1>1. /\ l \in Listings /\ n \in 1 .. Len(l) /\ Len(l) \in Nat \ {0} /\ o.after \in Nat /\ n \in Nat
      /\ o.todo = [i \in 1 .. n |-> Query(l, n + 1 - i)]
  BY <1>0, NextPartition DEF IsProgress
<1>2. s \subseteq Nat /\ s \subseteq Keys /\ IsFiniteSet(s) /\ page = FirstPage(s)
  BY <1>1, KeysAhead DEF Ahead
<1> HIDE DEF s
<1>3. page \subseteq Keys
  BY <1>2, PageBefore
<1>4. \A f \in found : IsEntry(f, l)
  <2>1. ASSUME NEW f \in found
        PROVE  f \in o.found \/ \E k \in page : f = [from |-> Len(o.todo), key |-> k, rec |-> replica[k]]
    BY DEF WithPage
  <2> QED BY <1>0, <1>1, <2>1 DEF IsProgress, IsEntry
<1>5. after \in Nat
  <2>1. CASE Cardinality(page) = PageSize /\ after = Max(page)
    <3>1. Max(FirstPage(s)) \in s
      BY <1>2, <2>1, FullPage
    <3> QED BY <1>2, <2>1, <3>1
  <2>2. CASE after = 0
    BY <2>2
  <2> QED BY <2>1, <2>2
<1>6. Len(todo) \in 1 .. Len(l) /\ todo = [i \in 1 .. Len(todo) |-> Query(l, Len(todo) + 1 - i)]
  <2>1. CASE todo = o.todo
    BY <1>0, <1>1, <2>1
  <2>2. CASE n > 1 /\ todo = Tail(o.todo)
    <3>1. n - 1 \in 1 .. Len(l)
      BY <1>1, <2>2
    <3>2. todo = [i \in 1 .. n - 1 |-> o.todo[i + 1]]
      BY <1>0, <1>1, <2>2
    <3>3. \A i \in 1 .. n - 1 : i + 1 \in 1 .. n /\ n + 1 - (i + 1) = (n - 1) + 1 - i
      BY <1>1
    <3>4. todo = [i \in 1 .. n - 1 |-> Query(l, (n - 1) + 1 - i)]
      BY <1>1, <3>2, <3>3
    <3>5. Len(todo) = n - 1
      BY <1>1, <3>1, <3>4
    <3> QED BY <3>1, <3>4, <3>5
  <2> QED BY <1>0, <2>1, <2>2
<1>7. PICK q : q = Reading(l, todo, after, found, o.settled)
  OBVIOUS
<1>8. /\ q.listing = l /\ q.todo = todo /\ q.after = after /\ q.found = found /\ q.settled = o.settled
      /\ q = Reading(q.listing, q.todo, q.after, q.found, q.settled)
  BY <1>7 DEF Reading
<1>9. IsProgress(q)
  BY <1>1, <1>4, <1>5, <1>6, <1>8 DEF IsProgress
<1> QED BY <1>0, <1>7, <1>9

(* A page.                                                                   *)
LEMMA ReadGoesOn ==
  ASSUME WriteInv, ListInv, NEW d \in Clients, ReadPage(d)
  PROVE  ReadInv(op[d])'
<1>1. UNCHANGED <<items, replica, due, written>> /\ op[d].pc = "list"
  BY DEF ReadPage, tableVars
<1>2. PICK o : o = op[d]
  OBVIOUS
<1>3. ReadInv(o) /\ o.pc = "list" /\ IsProgress(o) /\ op = [c \in Clients |-> op[c]]
  BY <1>1, <1>2, ReadInvIsListInv DEF IsRead, ReadInv, WriteInv, TypeInv
<1>4. ASSUME NEW k \in DOMAIN o.settled, Still(o, k)
      PROVE  k \in Keys /\ replica[k] = items[k] /\ Belongs(o.listing, k) /\ FoundOf(o, k)
  BY <1>3, <1>4, FoundIs DEF ReadInv
<1>5. PICK page, found : page = Ahead(o) /\ found = WithPage(o, page)
  OBVIOUS
<1>6. PICK n \in Nat : n = Len(o.todo)
  BY <1>3, NextPartition
<1>7. ASSUME NEW todo, NEW after,
             \/ Cardinality(page) = PageSize /\ todo = o.todo /\ after = Max(page)
             \/ Cardinality(page) # PageSize /\ n > 1 /\ todo = Tail(o.todo) /\ after = 0,
             op'[d] = Reading(o.listing, todo, after, found, o.settled)
      PROVE  ReadInv(op[d])'
  <2>1. PICK q : q = Reading(o.listing, todo, after, found, o.settled)
    OBVIOUS
  <2>2. q.listing = o.listing /\ q.settled = o.settled /\ q.pc = "list"
    BY <2>1 DEF Reading
  <2>3. IsProgress(q)
    BY <1>3, <1>5, <1>6, <1>7, <2>1, ProgressIs
  <2>4. Cardinality(page) # PageSize => Len(todo) = n - 1 /\ after = 0
    BY <1>3, <1>6, <1>7 DEF IsProgress
  <2>5. ASSUME NEW k \in DOMAIN q.settled, Still(q, k) PROVE Belongs(q.listing, k) /\ FoundOf(q, k)
    <3>1. k \in DOMAIN o.settled /\ Still(o, k)
      BY <2>2, <2>5 DEF Still
    <3>2. k \in Keys /\ replica[k] = items[k] /\ Belongs(o.listing, k) /\ FoundOf(o, k)
      BY <1>4, <3>1
    <3>3. \/ Cardinality(page) = PageSize /\ todo = o.todo /\ after = Max(page)
          \/ Cardinality(page) # PageSize /\ Len(todo) = n - 1 /\ after = 0
      BY <1>7, <2>4
    <3>4. FoundOf(q, k)
      BY <1>3, <1>5, <1>6, <2>1, <3>1, <3>2, <3>3, PageGoesOn
    <3> QED BY <2>2, <3>2, <3>4
  <2>6. ReadInv(q)
    <3>1. FoundAsPassed(q)
      BY <2>5, FoundIs
    <3>2. \A k \in DOMAIN q.settled : Still(q, k) => Still(o, k)
      BY <2>2 DEF Still
    <3> QED BY <1>3, <2>2, <2>3, <3>1, <3>2 DEF ReadInv
  <2>7. ReadInv(q)'
    BY <1>1, <2>6 DEF ReadInv, Still, FoundAsPassed, Belongs, Kept, Entry, Matches, Query, IsProgress
  <2> QED BY <1>7, <2>1, <2>7
<1>8. ASSUME Cardinality(page) # PageSize, ~(n > 1),
             op'[d] = [pc |-> "listed", settled |-> o.settled,
                       found |-> {f \in found : Kept(o.listing, f.rec)}]
      PROVE  ReadInv(op[d])'
  <2>1. n = 1
    <3>1. n >= 1
      BY <1>3, <1>6, NextPartition
    <3> QED BY <1>8, <3>1
  <2>2. PICK all : all = Listed(o)
    OBVIOUS
  <2>3. PICK q : q = [pc |-> "listed", settled |-> o.settled, found |-> all]
    OBVIOUS
  <2>4. q.settled = o.settled /\ q.pc = "listed" /\ q.found = all
    BY <2>3
  <2>5. ASSUME NEW k \in DOMAIN o.settled, items[k] = o.settled[k]
        PROVE  /\ Cardinality({f \in all : f.key = k}) = 1
               /\ \A f \in all : f.key = k => f.rec = items[k]
    <3>1. k \in Keys /\ replica[k] = items[k] /\ Belongs(o.listing, k) /\ FoundOf(o, k)
      BY <1>4, <2>5 DEF Still
    <3> QED BY <1>3, <1>5, <1>6, <1>8, <2>1, <2>2, <2>5, <3>1, ListedOnce
  <2>6. ReadInv(q)
    <3>1. \A k \in DOMAIN q.settled : Still(q, k) => Still(o, k)
      BY <2>4 DEF Still
    <3> QED BY <1>3, <2>4, <2>5, <3>1 DEF ReadInv
  <2>7. ReadInv(q)'
    BY <1>1, <2>4, <2>6 DEF ReadInv, Still
  <2>8. op'[d] = q
    BY <1>5, <1>8, <2>2, <2>3 DEF Listed
  <2> QED BY <2>7, <2>8
<1>9. \/ /\ Cardinality(page) = PageSize
         /\ op'[d] = Reading(o.listing, o.todo, Max(page), found, o.settled)
      \/ /\ Cardinality(page) # PageSize /\ n > 1
         /\ op'[d] = Reading(o.listing, Tail(o.todo), 0, found, o.settled)
      \/ /\ Cardinality(page) # PageSize /\ ~(n > 1)
         /\ op'[d] = [pc |-> "listed", settled |-> o.settled,
                      found |-> {f \in found : Kept(o.listing, f.rec)}]
  BY <1>2, <1>3, <1>5, <1>6, ReadPageIs
<1> QED BY <1>7, <1>8, <1>9

LEMMA ListInvStep == WriteInv /\ ListInv /\ [Next]_vars => ListInv'
<1> SUFFICES ASSUME WriteInv, ListInv, [Next]_vars PROVE ListInv'
  OBVIOUS
<1>1. ItemsWritten /\ ItemsWritten' /\ written \subseteq written'
  BY ItemsWrittenStep DEF ListInv
<1>2. ASSUME NEW d \in Clients, IsRead(op'[d]) PROVE ReadInv(op[d])'
  <2>1. CASE op'[d] = op[d]
    BY <1>1, <1>2, <2>1, ReadStays
  <2>2. ASSUME NEW l \in Listings, List(d, l) PROVE ReadInv(op[d])'
    BY <1>1, <2>2, ReadBegins
  <2>3. CASE ReadPage(d)
    BY <2>3, ReadGoesOn
  <2> QED BY <1>2, <2>1, <2>2, <2>3, ListingSteps
<1> QED BY <1>1, <1>2 DEF ListInv, SettledInv, SettledAreListedOnce, ReadInv, IsRead

LEMMA ListInvInit == Init => ListInv
BY DEF Init, ListInv, ItemsWritten, SettledInv, SettledAreListedOnce, IsRead, Idle, NoRecord

(* A record that belongs in a listing when it begins, that the replica knows   *)
(* and that stays as it is, is listed once and as it is, whatever changes     *)
(* between the pages.                                                        *)
THEOREM ListingsHold == Spec => []SettledAreListedOnce
<1>1. Spec => []ListInv
  BY WriteInvHolds, ListInvInit, ListInvStep, PTL DEF Spec
<1> QED BY <1>1, PTL DEF ListInv
=============================================================================

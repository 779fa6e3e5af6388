--------------------------- MODULE Provision_proofs ---------------------------
(***************************************************************************)
(* What holds of the provisioning of runners, of the pools they take a      *)
(* place in, of the listing they are awaited in, of the two caches, of the  *)
(* network profiles and of the admission of jobs, for every value of the    *)
(* constants.  Each has a specification of its own here: they share nothing. *)
(***************************************************************************)
EXTENDS Provisioning, Placement, RunnerListing, Cache, ObjectCache, NetworkProfiles, Admission,
        Sums_proofs, SequenceTheorems, FiniteSetTheorems, TLAPS

(* A set of naturals that is not empty has a least element. *)
LEMMA MinIsLeast ==
  ASSUME NEW S, S \subseteq Nat, S # {}
  PROVE  Min(S) \in S /\ \A n \in S : Min(S) <= n
<1>1. \E m \in S : \A n \in S : m <= n
  BY LeastNatural
<1> QED BY <1>1 DEF Min

-----------------------------------------------------------------------------
NetworkSpec == NetworkInit /\ [][NetworkStep]_networkVars

(* The profiles were offered and are secure; a call asks for a requirement. *)
NetworkInv ==
  /\ profiles = [id \in ProfileIds |-> profiles[id]]
  /\ \A id \in Held : profiles[id] \in Offers /\ Secure(profiles[id].profile, profiles[id].posture)
  /\ query.at = "idle" \/ query.for \in Requirements

LEMMA NetworkInvHolds == NetworkSpec => []NetworkInv
<1>1. NetworkInit => NetworkInv
  <2> SUFFICES ASSUME NetworkInit PROVE NetworkInv
    OBVIOUS
  <2>1. profiles = [id \in ProfileIds |-> Unset] /\ query.at = "idle"
    BY DEF NetworkInit
  <2>2. Held = {}
    BY <2>1 DEF Held
  <2> QED BY <2>1, <2>2 DEF NetworkInv
<1>2. NetworkInv /\ [NetworkStep]_networkVars => NetworkInv'
  <2> SUFFICES ASSUME NetworkInv, [NetworkStep]_networkVars PROVE NetworkInv'
    OBVIOUS
  <2>1. ASSUME NEW id \in ProfileIds, NEW o \in Offers, RegisterProfile(id, o) PROVE NetworkInv'
    <3>1. profiles' = [profiles EXCEPT ![id] = o] /\ query' = query /\ Secure(o.profile, o.posture)
      BY <2>1 DEF RegisterProfile, Change
    <3>2. Held' \subseteq Held \cup {id} /\ profiles'[id] = o
          /\ \A other \in ProfileIds \ {id} : profiles'[other] = profiles[other]
      BY <3>1 DEF Held, NetworkInv
    <3> QED BY <3>1, <3>2 DEF NetworkInv, Held
  <2>2. CASE UNCHANGED profiles /\ (query' = query \/ query'.at = "idle" \/ query'.for \in Requirements)
    BY <2>2 DEF NetworkInv, Held
  <2>3. ASSUME NEW r \in Requirements, BeginResolve(r) PROVE NetworkInv'
    <3>1. query'.for = r /\ profiles' = profiles
      BY <2>3 DEF BeginResolve
    <3> QED BY <2>2, <3>1
  <2>4. ASSUME EndDelay PROVE NetworkInv'
    <3>1. query.for \in Requirements /\ profiles' = profiles
      BY <2>4 DEF EndDelay, NetworkInv
    <3>2. query' = query \/ query'.for = query.for
      BY <2>4 DEF EndDelay
    <3> QED BY <2>2, <3>1, <3>2
  <2>5. ASSUME CancelResolve \/ FindProfile PROVE NetworkInv'
    <3>1. profiles' = profiles /\ (query' = [query EXCEPT !.at = "idle"])
      BY <2>5 DEF CancelResolve, FindProfile
    <3> QED BY <2>2, <3>1
  <2>6. ASSUME \/ \E id \in ProfileIds, a \in BOOLEAN : SetAvailable(id, a)
               \/ \E e, a : SetEndpointReachable(e, a)
               \/ SetDelay
               \/ UNCHANGED networkVars
        PROVE NetworkInv'
    BY <2>2, <2>6 DEF SetAvailable, SetEndpointReachable, SetDelay, Change, networkVars
  <2> QED BY <2>1, <2>3, <2>4, <2>5, <2>6 DEF NetworkStep
<1> QED BY <1>1, <1>2, PTL DEF NetworkSpec

(* However long Resolve has waited, its answer is right when it is given.      *)
THEOREM ResolvedHolds == NetworkSpec => ResolvedIsFit
<1> DEFINE Fit ==
      query.at = "looking" /\ query'.at = "idle" =>
        LET r == query.for
        IN IF found'.kind = "none"
           THEN ~\E id \in Held \cap inUse :
                   /\ \A f \in {"profile", "egress", "posture", "endpoints"} : profiles[id][f] = r[f]
                   /\ r.endpoints \subseteq reachable
           ELSE LET o == profiles[found'.id]
                IN /\ found'.id \in inUse /\ found'.offer = o
                   /\ r.endpoints \subseteq reachable
                   /\ r.egress # Unset =>
                        Opens(o.egress) - Opens(r.egress) \in (IF r.egress = "internet" THEN {0, 1} ELSE {0})
                   /\ "untrusted" \in r.posture => "isolated" \in o.posture
                   /\ r.profile = "private" => "public" \notin o.posture
<1>1. NetworkInv /\ [NetworkStep]_networkVars => [Fit]_networkVars
  <2> SUFFICES ASSUME NetworkInv, [NetworkStep]_networkVars, query.at = "looking", query'.at = "idle"
               PROVE  Fit
    OBVIOUS
  <2>1. FindProfile
    BY DEF NetworkStep, RegisterProfile, SetAvailable, SetEndpointReachable, SetDelay, Change, BeginResolve, EndDelay,
           CancelResolve, networkVars
  <2> DEFINE r == query.for
             fit == {id \in Held \cap inUse : Satisfies(profiles[id], r)}
  <2>2. found' = IF fit = {} THEN NoAnswer("none")
                 ELSE [kind |-> "profile", id |-> Min(fit), offer |-> profiles[Min(fit)]]
    BY <2>1 DEF FindProfile
  <2>3. r \in Requirements
    BY DEF NetworkInv
  <2>4. CASE fit = {}
    <3>1. found'.kind = "none"
      BY <2>2, <2>4 DEF NoAnswer
    <3>2. ASSUME NEW id \in Held \cap inUse,
                 \A f \in {"profile", "egress", "posture", "endpoints"} : profiles[id][f] = r[f],
                 r.endpoints \subseteq reachable
          PROVE  Satisfies(profiles[id], r)
      BY <3>2 DEF Satisfies, EgressSatisfies
    <3> QED BY <2>4, <3>1, <3>2
  <2>5. CASE fit # {}
    <3> DEFINE id == Min(fit)
               o == profiles[id]
    <3>1. found'.kind = "profile" /\ found'.id = id /\ found'.offer = o
      BY <2>2, <2>5
    <3>2. id \in fit
      <4>1. fit \subseteq Nat
        BY NetworkAssumption DEF Held
      <4> HIDE DEF fit
      <4> QED BY <2>5, <4>1, MinIsLeast
    <3>3. id \in inUse /\ Satisfies(o, r) /\ o \in Offers /\ Secure(o.profile, o.posture)
      BY <3>2 DEF NetworkInv
    <3> HIDE DEF id, o, fit
    <3>4. r.endpoints \subseteq reachable /\ r.posture \subseteq o.posture
      BY <3>3 DEF Satisfies
    <3>5. r.egress # Unset =>
            Opens(o.egress) - Opens(r.egress) \in (IF r.egress = "internet" THEN {0, 1} ELSE {0})
      BY <2>3, <3>3, NetworkAssumption DEF Satisfies, EgressSatisfies, Opens, Modalities
    <3>6. "untrusted" \in r.posture => "isolated" \in o.posture
      BY <3>3, <3>4 DEF Secure
    <3>7. r.profile = "private" => "public" \notin o.posture
      BY <3>3, NetworkAssumption DEF Satisfies, Secure
    <3> QED BY <3>1, <3>3, <3>4, <3>5, <3>6, <3>7 DEF o
  <2> QED BY <2>4, <2>5
<1> QED BY <1>1, NetworkInvHolds, PTL DEF NetworkSpec, ResolvedIsFit

-----------------------------------------------------------------------------
ObjectSpec == ObjectInit /\ [][ObjectStep]_objectVars

Objects == [put : Nat, intact : BOOLEAN]
Calls ==
  [op : {"none", "get", "put", "delete"}, key : Digests \cup {"none"}, put : Nat, sends : Nat,
   seen : SUBSET Objects,
   answer : {"none", "ok", "immutable", "content", "mismatch", "not found", "error"}]

(* What a call's record says of the bucket b. *)
AnswerIsTrue(r) ==
  /\ r.answer = "content" => \E o \in r.seen : o # NoObject /\ o.intact
  /\ r.answer = "not found" => NoObject \in r.seen
  /\ r.answer = "ok" /\ r.put > 0 => \E o \in r.seen : o.put > 0
  /\ r.answer = "immutable" => r.seen \ {NoObject} # {}

UnderWay(b, r) ==
  /\ r.key \in Digests /\ b[r.key] \in r.seen /\ r.answer = "none"
  /\ r.put > 0 <=> r.op = "put"

CallInv(b, r) == r \in Calls /\ (r.op # "none" => UnderWay(b, r)) /\ AnswerIsTrue(r)

ObjectInv ==
  /\ bucket \in [Digests -> Objects] /\ calls \in Nat
  /\ caller \in [Callers -> Calls]
  /\ \A c \in Callers : CallInv(bucket, caller[c])

(* A call that sees the bucket change. *)
LEMMA WatchedCall ==
  ASSUME NEW b \in [Digests -> Objects], NEW a \in [Digests -> Objects],
         NEW table \in [Callers -> Calls], NEW c \in Callers, CallInv(b, table[c])
  PROVE  CallInv(a, Watch(a, table)[c])
<1>1. CASE table[c].op = "none"
  BY <1>1 DEF Watch, CallInv
<1>2. CASE table[c].op # "none"
  <2> DEFINE r == table[c]
             w == [r EXCEPT !.seen = @ \cup {a[r.key]}]
  <2>1. Watch(a, table)[c] = w
    BY <1>2 DEF Watch
  <2>2. r \in Calls /\ UnderWay(b, r)
    BY <1>2 DEF CallInv
  <2>3. a[r.key] \in Objects
    BY <2>2 DEF UnderWay
  <2>4. w \in Calls /\ w.key = r.key /\ w.answer = r.answer /\ w.put = r.put /\ w.op = r.op
        /\ w.seen = r.seen \cup {a[r.key]}
    BY <2>2, <2>3 DEF Calls
  <2>5. UnderWay(a, w) /\ AnswerIsTrue(w)
    BY <2>2, <2>4 DEF UnderWay, AnswerIsTrue
  <2> QED BY <2>1, <2>4, <2>5 DEF CallInv
<1> QED BY <1>1, <1>2

(* A call that is answered with what is true of what it has seen. *)
LEMMA AnsweredCall ==
  ASSUME ObjectInv, NEW c \in Callers, caller[c].op # "none", NEW a \in [Digests -> Objects],
         NEW answer \in {"ok", "immutable", "content", "mismatch", "not found", "error"},
         Reply(a, c, answer),
         LET o == a[caller[c].key]
         IN /\ answer = "content" => o # NoObject /\ o.intact
            /\ answer = "not found" => o = NoObject
            /\ answer = "ok" /\ caller[c].op = "put" => o.put > 0
            /\ answer = "immutable" => o # NoObject
  PROVE  caller' \in [Callers -> Calls] /\ \A d \in Callers : CallInv(a, caller'[d])
<1> DEFINE w == Watch(a, caller)
           r == caller[c]
<1>1. \A d \in Callers : CallInv(a, w[d])
  BY WatchedCall DEF ObjectInv
<1>2. w[c] = [r EXCEPT !.seen = @ \cup {a[r.key]}] /\ w[c] \in Calls /\ UnderWay(a, w[c])
  <2>1. w[c] = [r EXCEPT !.seen = @ \cup {a[r.key]}]
    BY DEF Watch
  <2>2. w[c].op = r.op
    BY <2>1 DEF ObjectInv, Calls
  <2> QED BY <1>1, <2>1, <2>2 DEF CallInv
<1>3. w[c].op = r.op /\ w[c].key = r.key
  BY <1>2 DEF ObjectInv, Calls
<1>4. w \in [Callers -> Calls]
  BY <1>1 DEF Watch, CallInv
<1> DEFINE x == [w[c] EXCEPT !.op = "none", !.answer = answer]
<1>5. caller' = [w EXCEPT ![c] = x]
  BY DEF Reply
<1>6. x \in Calls /\ x.op = "none" /\ x.answer = answer /\ x.seen = w[c].seen /\ x.put = w[c].put
  BY <1>2 DEF Calls
<1>7. AnswerIsTrue(x)
  <2>1. a[r.key] \in x.seen
    BY <1>2, <1>3, <1>6 DEF UnderWay
  <2>2. x.put > 0 => r.op = "put"
    BY <1>2, <1>3, <1>6 DEF UnderWay
  <2> HIDE DEF x
  <2> QED BY <1>6, <2>1, <2>2 DEF AnswerIsTrue
<1>8. CallInv(a, x)
  BY <1>6, <1>7 DEF CallInv
<1> HIDE DEF w, x
<1> QED BY <1>1, <1>4, <1>5, <1>6, <1>8

(* An object is put into the bucket where there is none; what is there can     *)
(* only be damaged or deleted.                                               *)
ObjectsStay ==
  \A d \in Digests : bucket[d] # NoObject => bucket'[d] = NoObject \/ bucket'[d].put = bucket[d].put

LEMMA ObjectInvStep ==
  ASSUME ObjectInv, [ObjectStep]_objectVars
  PROVE  ObjectInv' /\ ObjectsStay
<1> USE ObjectCacheAssumption
<1>1. /\ bucket \in [Digests -> Objects] /\ calls \in Nat
      /\ caller \in [Callers -> Calls]
      /\ \A c \in Callers : CallInv(bucket, caller[c])
  BY DEF ObjectInv
<1>2. NoObject \in Objects
  BY DEF NoObject, Objects
<1>3. ASSUME NEW c \in Callers, BeginObjectCall(c) PROVE ObjectInv' /\ ObjectsStay
  <2>1. PICK op \in {"get", "put", "delete"}, d \in Digests :
          caller' = [caller EXCEPT ![c] =
                       [op |-> op, key |-> d, put |-> IF op = "put" THEN calls + 1 ELSE 0, sends |-> 0,
                        seen |-> {bucket[d]}, answer |-> "none"]]
    BY <1>3 DEF BeginObjectCall
  <2> DEFINE r == [op |-> op, key |-> d, put |-> IF op = "put" THEN calls + 1 ELSE 0, sends |-> 0,
                   seen |-> {bucket[d]}, answer |-> "none"]
  <2>2. bucket' = bucket /\ calls' = calls + 1
    BY <1>3 DEF BeginObjectCall
  <2>3. r \in Calls
    <3>1. (IF op = "put" THEN calls + 1 ELSE 0) \in Nat
      BY <1>1
    <3>2. {bucket[d]} \in SUBSET Objects
      BY <1>1
    <3> QED BY <3>1, <3>2 DEF Calls
  <2>4. UnderWay(bucket, r) /\ AnswerIsTrue(r)
    BY <1>1 DEF UnderWay, AnswerIsTrue
  <2> HIDE DEF r
  <2>5. CallInv(bucket, r)
    BY <2>3, <2>4 DEF CallInv
  <2>6. caller' = [caller EXCEPT ![c] = r]
    BY <2>1 DEF r
  <2> QED BY <1>1, <2>2, <2>3, <2>5, <2>6 DEF ObjectInv, ObjectsStay
<1>4. ASSUME NEW c \in Callers, PutObject(c) PROVE ObjectInv' /\ ObjectsStay
  <2> DEFINE d == caller[c].key
             new == [put |-> caller[c].put, intact |-> TRUE]
             written == IF MayWrite(d) THEN [bucket EXCEPT ![d] = new] ELSE bucket
  <2>1. caller[c] \in Calls /\ caller[c].op = "put" /\ UnderWay(bucket, caller[c])
    BY <1>1, <1>4 DEF PutObject, CallInv
  <2>2. d \in Digests /\ new \in Objects /\ new # NoObject /\ new.put > 0
    <3>1. d \in Digests /\ caller[c].put \in Nat /\ caller[c].put > 0
      BY <2>1 DEF UnderWay, Calls
    <3>2. new.put > 0 /\ new.put # NoObject.put
      BY <3>1 DEF NoObject
    <3> QED BY <3>1, <3>2 DEF Objects
  <2>3. written \in [Digests -> Objects] /\ written[d] # NoObject
        /\ (MayWrite(d) => written[d].put > 0)
        /\ \A e \in Digests : bucket[e] # NoObject => written[e] = bucket[e]
    BY <1>1, <2>2 DEF MayWrite
  <2>4. bucket' \in {written, bucket} /\ calls' = calls
    BY <1>4 DEF PutObject
  <2> HIDE DEF written
  <2>5. ObjectsStay
    BY <2>3, <2>4 DEF ObjectsStay
  <2>6. bucket' \in [Digests -> Objects]
    BY <1>1, <2>3, <2>4
  <2>7. CASE Reply(bucket', c, IF MayWrite(d) THEN "ok" ELSE "immutable") /\ bucket' = written
    BY <1>1, <2>1, <2>3, <2>4, <2>5, <2>6, <2>7, AnsweredCall DEF ObjectInv
  <2>8. CASE Reply(bucket', c, "error")
    BY <1>1, <2>1, <2>4, <2>5, <2>6, <2>8, AnsweredCall DEF ObjectInv
  <2>9. CASE caller' = [Watch(bucket', caller) EXCEPT ![c].sends = @ + 1]
    <3> DEFINE w == Watch(bucket', caller)
    <3>1. \A e \in Callers : CallInv(bucket', w[e]) /\ w[e] \in Calls
      BY <1>1, <2>6, WatchedCall DEF CallInv
    <3>2. w \in [Callers -> Calls]
      BY <3>1 DEF Watch
    <3>3. caller' = [w EXCEPT ![c].sends = @ + 1]
      BY <2>9
    <3> HIDE DEF w
    <3> DEFINE x == [w[c] EXCEPT !.sends = @ + 1]
    <3>4. caller' = [w EXCEPT ![c] = x]
      BY <3>3
    <3>5. x \in Calls /\ x.op = w[c].op /\ x.key = w[c].key /\ x.put = w[c].put /\ x.seen = w[c].seen
          /\ x.answer = w[c].answer
      <4>1. w[c] \in Calls
        BY <3>1
      <4>2. w[c].sends + 1 \in Nat
        <5> DEFINE y == w[c]
        <5>1. y \in Calls
          BY <4>1
        <5> HIDE DEF y
        <5>2. y.sends \in Nat
          BY <5>1 DEF Calls
        <5>3. y.sends + 1 \in Nat
          BY <5>2
        <5> QED BY <5>3 DEF y
      <4>3. x = [w[c] EXCEPT !.sends = w[c].sends + 1]
        OBVIOUS
      <4> QED BY <4>1, <4>2, <4>3 DEF Calls
    <3> HIDE DEF x
    <3>6. CallInv(bucket', x)
      BY <3>1, <3>5 DEF CallInv, UnderWay, AnswerIsTrue
    <3> QED BY <1>1, <2>4, <2>5, <2>6, <3>1, <3>2, <3>4, <3>5, <3>6 DEF ObjectInv
  <2> QED BY <1>4, <2>7, <2>8, <2>9 DEF PutObject, written
<1>9. ASSUME NEW c \in Callers, PutConflicts(c) PROVE ObjectInv' /\ ObjectsStay
  <2> DEFINE r == caller[c]
             x == [r EXCEPT !.op = "none", !.answer = "immutable", !.seen = @ \cup {Conflict}]
  <2>1. bucket' = bucket /\ calls' = calls /\ caller' = [caller EXCEPT ![c] = x]
    <3>1. caller' = [caller EXCEPT ![c].op = "none", ![c].answer = "immutable",
                                  ![c].seen = @ \cup {Conflict}]
      BY <1>9 DEF PutConflicts
    <3> QED BY <1>1, <1>9, <3>1 DEF PutConflicts, Calls
  <2>2. r \in Calls /\ Conflict \in Objects /\ Conflict # NoObject
    BY <1>1 DEF Conflict, NoObject, Objects
  <2>3. x \in Calls /\ x.op = "none" /\ x.answer = "immutable" /\ x.seen = r.seen \cup {Conflict}
    BY <2>2 DEF Calls
  <2> HIDE DEF x
  <2>4. CallInv(bucket, x)
    BY <2>2, <2>3 DEF CallInv, AnswerIsTrue
  <2> QED BY <1>1, <2>1, <2>3, <2>4 DEF ObjectInv, ObjectsStay
<1>5. ASSUME NEW c \in Callers, GetObject(c) PROVE ObjectInv' /\ ObjectsStay
  <2>1. caller[c].op = "get" /\ UnderWay(bucket, caller[c]) /\ bucket' = bucket /\ calls' = calls
    BY <1>1, <1>5 DEF GetObject, CallInv
  <2>2. PICK answer \in {"not found", "content", "mismatch", "error"} :
          /\ Reply(bucket, c, answer)
          /\ answer = "content" => bucket[caller[c].key] # NoObject /\ bucket[caller[c].key].intact
          /\ answer = "not found" => bucket[caller[c].key] = NoObject
    BY <1>5 DEF GetObject, Verifies
  <2>3. caller' \in [Callers -> Calls] /\ \A d \in Callers : CallInv(bucket, caller'[d])
    BY <1>1, <2>1, <2>2, AnsweredCall
  <2> QED BY <1>1, <2>1, <2>3 DEF ObjectInv, ObjectsStay
<1>6. ASSUME NEW c \in Callers, DeleteObject(c) PROVE ObjectInv' /\ ObjectsStay
  <2> DEFINE deleted == [bucket EXCEPT ![caller[c].key] = NoObject]
  <2>1. caller[c].op = "delete" /\ calls' = calls /\ bucket' \in {bucket, deleted}
    BY <1>6 DEF DeleteObject
  <2>2. bucket' \in [Digests -> Objects] /\ ObjectsStay
    BY <1>1, <1>2, <2>1 DEF ObjectsStay
  <2>3. PICK answer \in {"ok", "error"} : Reply(bucket', c, answer)
    BY <1>6 DEF DeleteObject
  <2>4. caller' \in [Callers -> Calls] /\ \A d \in Callers : CallInv(bucket', caller'[d])
    BY <1>1, <2>1, <2>2, <2>3, AnsweredCall
  <2> QED BY <1>1, <2>1, <2>2, <2>4 DEF ObjectInv
<1>7. ASSUME NEW d \in Digests, DamageObject(d) PROVE ObjectInv' /\ ObjectsStay
  <2>1. bucket' = [bucket EXCEPT ![d].intact = FALSE] /\ caller' = Watch(bucket', caller) /\ calls' = calls
    BY <1>7 DEF DamageObject
  <2>2. bucket' \in [Digests -> Objects] /\ ObjectsStay
    BY <1>1, <2>1 DEF Objects, ObjectsStay
  <2>3. \A c \in Callers : CallInv(bucket', caller'[c]) /\ caller'[c] \in Calls
    BY <1>1, <2>1, <2>2, WatchedCall DEF CallInv
  <2>4. caller' \in [Callers -> Calls]
    BY <2>1, <2>3 DEF Watch
  <2> QED BY <1>1, <2>1, <2>2, <2>3, <2>4 DEF ObjectInv
<1>8. CASE UNCHANGED objectVars
  BY <1>8 DEF objectVars, ObjectInv, ObjectsStay
<1> QED BY <1>3, <1>4, <1>5, <1>6, <1>7, <1>8, <1>9 DEF ObjectStep

LEMMA ObjectInvHolds == ObjectSpec => []ObjectInv
<1>1. ObjectInit => ObjectInv
  <2> SUFFICES ASSUME ObjectInit PROVE ObjectInv
    OBVIOUS
  <2>1. NoObject \in Objects /\ NoCall \in Calls
    BY DEF NoObject, Objects, NoCall, Calls
  <2>2. \A b : CallInv(b, NoCall)
    BY <2>1 DEF CallInv, NoCall, AnswerIsTrue
  <2> QED BY <2>1, <2>2 DEF ObjectInit, ObjectInv
<1> QED BY <1>1, ObjectInvStep, PTL DEF ObjectSpec

(* An object of the cache is never replaced: it is put once under its digest,  *)
(* and can only be damaged or deleted.                                       *)
THEOREM ObjectsStayPut == ObjectSpec => ObjectsAreImmutable
<1>1. ObjectInv /\ [ObjectStep]_objectVars => [ObjectsStay]_objectVars
  BY ObjectInvStep
<1> QED BY <1>1, ObjectInvHolds, PTL DEF ObjectSpec, ObjectsAreImmutable, ObjectsStay

(* Every answer of the cache is true of a moment of the call.                  *)
THEOREM ObjectAnswersHold == ObjectSpec => []ObjectAnswersAreTrue
<1>1. ObjectInv => ObjectAnswersAreTrue
  <2>1. \A o : o.put > 0 => o \notin {NoObject, Conflict}
    BY DEF NoObject, Conflict
  <2> QED BY <2>1 DEF ObjectInv, CallInv, AnswerIsTrue, ObjectAnswersAreTrue
<1> QED BY <1>1, ObjectInvHolds, PTL

-----------------------------------------------------------------------------
AdmissionSpec == AdmissionInit /\ [][AdmissionStep \/ AuthorizationStep]_admissionVars

(* What the gates that are behind a request have found. *)
AdmissionInv ==
  /\ stage \in {"admitted", "approved"} /\ ~direct => Admits(request)
  /\ stage = "approved" => Approves(request)
  /\ GatesAgree

(* The webhook admits nothing that the assignment would refuse. *)
LEMMA AdmittedIsApproved ==
  ASSUME NEW r, Admits(r)
  PROVE  Approves(r)
BY DEF Admits, Approves

(* And the assignment, with the checks before GitHub is asked, lets nothing    *)
(* pass that the webhook would refuse.                                       *)
LEMMA AskedIsAdmitted ==
  ASSUME NEW r, Approves(r)
  PROVE  /\ Asks(r) => Admits(r)
         /\ Admits(r) /\ r.labels # {} /\ ~Backslash(r) => Asks(r)
BY DEF Admits, Approves, Asks

(* A request that no webhook has seen gets no further than one that has, and   *)
(* the later gates agree with the first.                                     *)
THEOREM GatesAgreeAlways == AdmissionSpec => []GatesAgree
<1>1. AdmissionInit => AdmissionInv
  BY DEF AdmissionInit, AdmissionInv, GatesAgree
<1>2. AdmissionInv /\ [AdmissionStep \/ AuthorizationStep]_admissionVars => AdmissionInv'
  <2> SUFFICES ASSUME AdmissionInv, [AdmissionStep \/ AuthorizationStep]_admissionVars PROVE AdmissionInv'
    OBVIOUS
  <2>1. ASSUME NEW s \in ScopeLists, Configure(s) PROVE AdmissionInv'
    BY <2>1 DEF Configure, AdmissionInv, GatesAgree
  <2>2. ASSUME NEW r, scope' = scope PROVE Admits(r)' = Admits(r) /\ Approves(r)' = Approves(r)
    BY <2>2 DEF Admits, Approves
  <2>3. ASSUME NEW r \in Requests, Deliver(r) \/ RequestDirectly(r) PROVE AdmissionInv'
    <3>1. /\ request' = r /\ stage' = "admitted" /\ scope' = scope
          /\ direct' = FALSE => Admits(r)
      BY <2>3 DEF Deliver, RequestDirectly
    <3>2. direct' \in BOOLEAN
      BY <2>3 DEF Deliver, RequestDirectly
    <3>3. ~direct' => Admits(r)'
      BY <2>2, <3>1, <3>2
    <3> QED BY <3>1, <3>3 DEF AdmissionInv, GatesAgree, Admits
  <2>4. CASE Approve
    <3>1. /\ stage = "admitted" /\ UNCHANGED <<scope, request, direct>>
          /\ stage' = IF Approves(request) THEN "approved" ELSE "refused"
      BY <2>4 DEF Approve
    <3>2. Admits(request)' = Admits(request) /\ Approves(request)' = Approves(request)
      BY <3>1 DEF Admits, Approves
    <3>3. CASE Approves(request)
      BY <3>1, <3>2, <3>3 DEF AdmissionInv, GatesAgree
    <3>4. CASE ~Approves(request)
      <4>1. ~Admits(request) /\ direct
        BY <3>1, <3>4, AdmittedIsApproved DEF AdmissionInv
      <4> QED BY <3>1, <3>2, <3>4, <4>1 DEF AdmissionInv, GatesAgree
    <3> QED BY <3>3, <3>4
  <2>5. CASE AskGitHub
    <3>1. /\ stage = "approved" /\ UNCHANGED <<scope, request, direct>>
          /\ stage' = IF Asks(request) THEN "asked" ELSE "refused"
          /\ Approves(request)
      BY <2>5 DEF AskGitHub, AdmissionInv
    <3>2. Admits(request)' = Admits(request) /\ Approves(request)' = Approves(request)
      BY <3>1 DEF Admits, Approves
    <3>3. /\ Asks(request) => Admits(request)
          /\ ~Asks(request) =>
               ~Admits(request) \/ request.labels = {} \/ Backslash(request)
      BY <3>1, AskedIsAdmitted
    <3>4. CASE Asks(request)
      BY <3>1, <3>2, <3>3, <3>4 DEF AdmissionInv, GatesAgree
    <3>5. CASE ~Asks(request)
      BY <3>1, <3>2, <3>3, <3>5 DEF AdmissionInv, GatesAgree
    <3> QED BY <3>4, <3>5
  <2>6. CASE AuthorizationStep \/ UNCHANGED admissionVars
    <3>1. UNCHANGED <<scope, request, stage, direct>>
      BY <2>6 DEF AuthorizationStep, EvaluateInputs, admissionVars
    <3>2. Admits(request)' = Admits(request) /\ Approves(request)' = Approves(request)
      BY <3>1 DEF Admits, Approves
    <3> QED BY <3>1, <3>2 DEF AdmissionInv, GatesAgree
  <2> QED BY <2>1, <2>3, <2>4, <2>5, <2>6 DEF AdmissionStep
<1>3. AdmissionInv => GatesAgree
  BY DEF AdmissionInv
<1> QED BY <1>1, <1>2, <1>3, PTL DEF AdmissionSpec

(* To ask for less, or to be trusted more, is never the reason of a denial.    *)
THEOREM AuthorizationHolds == AdmissionSpec => []AuthorizationIsMonotone
<1> DEFINE Inv == verdict # NoScope => verdict.input \in Inputs /\ (verdict.allowed => Allows(verdict.input))
<1>1. AdmissionInit => Inv
  BY DEF AdmissionInit
<1>2. Inv /\ [AdmissionStep \/ AuthorizationStep]_admissionVars => Inv'
  <2> SUFFICES ASSUME Inv, [AdmissionStep \/ AuthorizationStep]_admissionVars PROVE Inv'
    OBVIOUS
  <2>1. CASE AuthorizationStep
    <3>1. PICK input \in Inputs : verdict' = [input |-> input, allowed |-> Allows(input)]
      BY <2>1 DEF AuthorizationStep, EvaluateInputs
    <3>2. verdict'.input = input /\ verdict'.allowed = Allows(input)
      BY <3>1
    <3> QED BY <3>2
  <2>2. CASE verdict' = verdict
    BY <2>2
  <2>3. CASE AdmissionStep \/ UNCHANGED admissionVars
    BY <2>2, <2>3 DEF AdmissionStep, Configure, Deliver, RequestDirectly, Approve, AskGitHub, admissionVars
  <2> QED BY <2>1, <2>3
<1>3. Inv => AuthorizationIsMonotone
  <2> SUFFICES ASSUME NEW input \in Inputs, Allows(input)
               PROVE  /\ \A other \in Inputs :
                           /\ other.profile = input.profile /\ other.wants \subseteq input.wants
                           /\ Trust(other.trust) >= Trust(input.trust)
                           => Allows(other)
                      /\ Trust(input.trust) < 2 =>
                           input.profile = "isolated" /\ input.wants \subseteq {"secrets", "network"}
    BY DEF AuthorizationIsMonotone
  <2>1. ASSUME NEW other \in Inputs, other.profile = input.profile, other.wants \subseteq input.wants,
               Trust(other.trust) >= Trust(input.trust)
        PROVE  Allows(other)
    <3>1. /\ input.trust = "trusted-branch" => other.trust = "trusted-branch"
          /\ input.trust = "internal-pr" => other.trust \in {"trusted-branch", "internal-pr"}
      BY <2>1 DEF Trust, Inputs
    <3> QED BY <2>1, <3>1 DEF Allows
  <2>2. ASSUME Trust(input.trust) < 2
        PROVE  input.profile = "isolated" /\ input.wants \subseteq {"secrets", "network"}
    <3>1. input.trust # "trusted-branch"
      BY <2>2 DEF Trust
    <3> QED BY <3>1 DEF Allows, Inputs, Capabilities
  <2> QED BY <2>1, <2>2
<1> QED BY <1>1, <1>2, <1>3, PTL DEF AdmissionSpec

-----------------------------------------------------------------------------
ProvisionSpec == ProvisionInit /\ [][ProvisionStep]_provisionVars

States == {"none", "pending", "running", "stopped", "ending", "gone"}

(* One token has an instance; it is there before it is waited for and was      *)
(* running before it is recorded; and a result is the end.                   *)
AttemptInv ==
  /\ vms \in [Tokens -> States]
  /\ \A t \in Tokens \ {Token} : vms[t] = "none"
  /\ step \in {"operation", "wait"} => vms[Token] # "none"
  /\ reported => step \notin {"idle", "jit", "provision", "operation"}
  /\ step \in {"record", "register"} => vms[Token] = "running" \/ died
  /\ result # "none" => step = "end"
  /\ OutcomeIsReal

LEMMA TokenIsOne == Token \in Tokens
BY ProvisioningAssumption DEF Token, Tokens

(* What the clouds do takes nothing back.                                      *)
LEMMA CloudStep ==
  ASSUME AttemptInv, Cloud
  PROVE  AttemptInv'
<1>1. UNCHANGED <<call, step, reported, left, result>>
  BY DEF Cloud
<1>2. vms' \in [Tokens -> States] /\ \A t \in Tokens \ {Token} : vms'[t] = "none"
  BY DEF Cloud, AttemptInv, States
<1>3. vms[Token] # "none" => vms'[Token] # "none"
  BY TokenIsOne DEF Cloud, AttemptInv
<1>4. vms[Token] = "running" \/ died => vms'[Token] = "running" \/ died'
  BY TokenIsOne DEF Cloud, AttemptInv
<1>5. Live' \subseteq Live
  BY DEF Cloud, Live, AttemptInv
<1>6. registration = "online" => registration' = "online"
  BY DEF Cloud
<1>7. OutcomeIsReal'
  BY <1>1, <1>4, <1>5, <1>6 DEF AttemptInv, OutcomeIsReal
<1> QED BY <1>1, <1>2, <1>3, <1>4, <1>7 DEF AttemptInv

(* A step of the client before Provision has returned, which keeps the cloud's *)
(* instances but for the one it asks for.                                    *)
LEMMA EarlyStep ==
  ASSUME AttemptInv, step \in {"idle", "jit", "provision", "operation"},
         vms' = vms \/ vms' = Created, UNCHANGED <<left, died>>,
         \/ result' = "failed" /\ step' = "end" /\ reported' = reported
         \/ result' = result /\ step' \in {"idle", "jit", "provision"} /\ reported' = reported
         \/ result' = result /\ step' \in {"operation", "wait"} /\ vms'[Token] # "none"
            /\ reported' = (step' = "wait")
  PROVE  AttemptInv'
<1>1. ~reported /\ result = "none"
  BY DEF AttemptInv
<1>2. vms' \in [Tokens -> States] /\ \A t \in Tokens \ {Token} : vms'[t] = "none"
  BY DEF AttemptInv, Created, States
<1>4. result' \in {"none", "failed"} /\ (result' = "failed" => ~reported' /\ step' = "end")
  BY <1>1
<1>5. reported' => step' \notin {"idle", "jit", "provision", "operation"}
  BY <1>1
<1>6. step' \in {"operation", "wait"} => vms'[Token] # "none"
  BY <1>1
<1>7. step' \notin {"record", "register"}
  BY <1>1
<1>8. OutcomeIsReal'
  BY <1>4 DEF OutcomeIsReal
<1> QED BY <1>2, <1>4, <1>5, <1>6, <1>7, <1>8 DEF AttemptInv

LEMMA ClientStep ==
  ASSUME AttemptInv, Client
  PROVE  AttemptInv'
<1> USE TokenIsOne
<1>1. CASE PostJIT
  <2>1. UNCHANGED <<vms, reported, left, died>> /\ step = "jit"
    BY <1>1 DEF PostJIT
  <2>2. \/ result' = "failed" /\ step' = "end"
        \/ result' = result /\ step' \in {"jit", "provision"}
    BY <1>1, <2>1 DEF PostJIT, Retry, Fail
  <2> QED BY <2>1, <2>2, EarlyStep
<1>2. CASE RefuseInsert
  BY <1>2, EarlyStep DEF RefuseInsert, Fail
<1>3. CASE RunInstances \/ Insert
  <2>1. PICK answered \in {"wait", "operation"} : Send(answered)
    BY <1>3 DEF RunInstances, Insert
  <2>2. step = "provision" /\ (vms' = vms \/ vms' = Created) /\ UNCHANGED <<left, died>>
    BY <2>1 DEF Send
  <2>3. Created[Token] # "none"
    BY DEF Created, AttemptInv
  <2>4. \/ result' = "failed" /\ step' = "end" /\ reported' = reported
        \/ result' = result /\ step' = "provision" /\ reported' = reported
        \/ result' = result /\ step' \in {"operation", "wait"} /\ vms' = Created
           /\ reported' = (step' = "wait")
    BY <2>1, <2>2 DEF Send, Fail
  <2> QED BY <2>2, <2>3, <2>4, EarlyStep
<1>4. CASE Operation
  <2>1. step = "operation" /\ UNCHANGED <<vms, left, died>> /\ vms[Token] # "none"
    BY <1>4 DEF Operation, AttemptInv
  <2>2. \/ result' = "failed" /\ step' = "end" /\ reported' = reported
        \/ result' = result /\ step' = "wait" /\ reported' = TRUE
    BY <1>4 DEF Operation, Fail
  <2> QED BY <2>1, <2>2, EarlyStep
<1>5. CASE WaitReady \/ Record \/ WaitForRegistration
  <2>1. UNCHANGED <<call, vms, reported, left, died, registration>> /\ result = "none"
    BY <1>5 DEF WaitReady, Record, WaitForRegistration, AttemptInv
  <2>2. \/ step' = "cleanup" /\ result' = result
        \/ step' \in {"record", "register"} /\ result' = result /\ (vms[Token] = "running" \/ died)
        \/ /\ step' = "end" /\ result' = "assigned" /\ (vms[Token] = "running" \/ died)
           /\ call.path = "assign" => registration = "online"
    <3>1. CASE WaitReady
      <4>1. step = "wait" /\ vms[Token] \in States \ {"none"}
        BY <3>1 DEF WaitReady, AttemptInv
      <4>2. IsReady(Token) => vms[Token] = "running"
        BY <4>1 DEF IsReady, Status, EC2Status, GCEStatus, States
      <4> QED BY <3>1, <4>2 DEF WaitReady, GiveUp
    <3>2. CASE Record
      BY <3>2 DEF Record, GiveUp, AttemptInv
    <3>3. CASE WaitForRegistration
      BY <3>3 DEF WaitForRegistration, GiveUp, AttemptInv
    <3> QED BY <1>5, <3>1, <3>2, <3>3
  <2> QED BY <2>1, <2>2 DEF AttemptInv, OutcomeIsReal
<1>6. CASE TimeOut
  <2>1. UNCHANGED <<call, vms, reported, left, died, registration>>
    BY <1>6 DEF TimeOut
  <2>2. CASE step \in {"wait", "register"}
    <3>1. step' = "cleanup" /\ result' = result /\ result = "none"
      BY <1>6, <2>2 DEF TimeOut, GiveUp, AttemptInv
    <3> QED BY <2>1, <3>1 DEF AttemptInv, OutcomeIsReal
  <2>3. CASE step \in {"jit", "provision", "operation"}
    <3>1. step' = "end" /\ result' = "failed"
      BY <1>6, <2>3 DEF TimeOut, Fail
    <3> QED BY <2>1, <2>3, <3>1, EarlyStep
  <2> QED BY <1>6, <2>2, <2>3 DEF TimeOut
<1>7. CASE Terminate
  <2>1. step' = "end" /\ result' = "failed" /\ UNCHANGED <<call, registration, reported, died>>
    BY <1>7 DEF Terminate, Fail
  <2>2. vms' \in {vms, Ended} /\ (vms' = Ended \/ left')
    BY <1>7 DEF Terminate
  <2>3. Ended \in [Tokens -> States] /\ (\A t \in Tokens \ {Token} : Ended[t] = "none")
        /\ Ended[Token] \notin {"pending", "running", "stopped"}
    BY DEF Ended, AttemptInv, States
  <2>4. vms' = Ended => Live' = {}
    BY <2>3 DEF Live
  <2> QED BY <2>1, <2>2, <2>3, <2>4 DEF AttemptInv, OutcomeIsReal
<1> QED BY <1>1, <1>2, <1>3, <1>4, <1>5, <1>6, <1>7 DEF Client

LEMMA AttemptInvHolds == ProvisionSpec => []AttemptInv
<1>1. ProvisionInit => AttemptInv
  <2> SUFFICES ASSUME ProvisionInit PROVE AttemptInv
    OBVIOUS
  <2>1. vms = [t \in Tokens |-> "none"] /\ step = "idle" /\ reported = FALSE /\ result = "none"
    BY DEF ProvisionInit
  <2> QED BY <2>1, TokenIsOne DEF AttemptInv, OutcomeIsReal, States
<1>2. AttemptInv /\ [ProvisionStep]_provisionVars => AttemptInv'
  <2> SUFFICES ASSUME AttemptInv, [ProvisionStep]_provisionVars PROVE AttemptInv'
    OBVIOUS
  <2>1. CASE Begin
    <3>1. step = "idle" /\ UNCHANGED <<vms, reported, left, died, result>> /\ step' \in {"jit", "provision"}
      BY <2>1 DEF Begin
    <3> QED BY <3>1, EarlyStep
  <2>2. CASE Deadline \/ UNCHANGED provisionVars
    BY <2>2 DEF Deadline, provisionVars, AttemptInv, OutcomeIsReal, Live
  <2> QED BY <2>1, <2>2, ClientStep, CloudStep DEF ProvisionStep
<1> QED BY <1>1, <1>2, PTL DEF ProvisionSpec

(* The client token, or the request ID, stands for one instance, whatever       *)
(* answers are lost and however often the SDK asks.                          *)
THEOREM OneInstanceHolds == ProvisionSpec => []AttemptHasOneInstance
<1>1. AttemptInv => AttemptHasOneInstance
  <2> SUFFICES ASSUME AttemptInv PROVE AttemptHasOneInstance
    OBVIOUS
  <2> DEFINE S == {t \in Tokens : vms[t] # "none"}
  <2>1. S = {} \/ S = {Token}
    BY DEF AttemptInv
  <2> HIDE DEF S
  <2>2. CASE S = {}
    <3>1. Cardinality({}) = 0
      BY FS_EmptySet
    <3>2. Cardinality(S) <= 1
      BY <2>2, <3>1
    <3> QED BY <3>2 DEF AttemptHasOneInstance, S
  <2>3. CASE S = {Token}
    <3>1. Cardinality({Token}) = 1
      BY FS_Singleton
    <3>2. Cardinality(S) <= 1
      BY <2>3, <3>1
    <3> QED BY <3>2 DEF AttemptHasOneInstance, S
  <2> QED BY <2>1, <2>2, <2>3
<1> QED BY <1>1, AttemptInvHolds, PTL

(* The result of an attempt is true of the cloud and of GitHub.                *)
THEOREM OutcomeHolds == ProvisionSpec => []OutcomeIsReal
BY AttemptInvHolds, PTL DEF AttemptInv

(* A normalized RetryConfig. *)
IsPolicy(p) == p.initial \in 1 .. MaxInt /\ p.max \in 1 .. MaxInt /\ p.initial <= p.max

(* One round of the loop doubles a delay that is cut to MaxDelay: the test     *)
(* against the half of it comes before the product, which cannot overflow.   *)
LEMMA DoubledIsCut ==
  ASSUME NEW p, IsPolicy(p), NEW w \in Nat, w > 0
  PROVE  Doubled(p, Least(p.max, w)) = Least(p.max, 2 * w)
<1>1. MaxInt \in Nat
  BY ProvisioningAssumption
<1>2. PICK m \in Nat : m = p.max /\ m <= MaxInt
  BY <1>1 DEF IsPolicy
<1>3. CASE m <= w
  BY <1>2, <1>3 DEF Doubled, Least
<1>4. CASE w < m /\ w > m \div 2
  <2>1. m < 2 * w
    BY <1>4
  <2> QED BY <1>2, <1>4, <2>1 DEF Doubled, Least
<1>5. CASE w < m /\ w <= m \div 2
  <2>1. 2 * w <= m
    BY <1>5
  <2>2. 2 * w <= MaxInt
    BY <1>1, <1>2, <2>1
  <2>3. Wrap(2 * w) = 2 * w
    BY <1>1, <2>2 DEF Wrap
  <2> QED BY <1>2, <1>5, <2>1, <2>3 DEF Doubled, Least
<1> QED BY <1>3, <1>4, <1>5

(* The loop computes the power.  The function that says so satisfies the       *)
(* recursion, and no other does: they would differ at a least round.         *)
LEMMA DelayIsPower ==
  ASSUME NEW p, IsPolicy(p), NEW n \in Nat \ {0}
  PROVE  ExponentialDelay(p, n) = Least(p.max, p.initial * 2 ^ (n - 1))
<1> DEFINE W(i) == p.initial * 2 ^ (i - 1)
           Loop(d) == [i \in 1 .. n |-> IF i = 1 THEN p.initial ELSE Doubled(p, d[i - 1])]
           f == [i \in 1 .. n |-> Least(p.max, W(i))]
           delay == CHOOSE d : d = Loop(d)
<1>1. W(1) = p.initial
  BY PowerOfZero, ProvisioningAssumption DEF IsPolicy
<1>2. ASSUME NEW i \in Nat \ {0} PROVE W(i) \in Nat /\ W(i) > 0 /\ W(i + 1) = 2 * W(i)
  <2>1. PICK e \in Nat : e = 2 ^ (i - 1) /\ e > 0
    BY PowerDoubles
  <2>2. 2 ^ ((i - 1) + 1) = 2 * 2 ^ (i - 1)
    BY PowerDoubles
  <2>3. (i - 1) + 1 = i /\ (i + 1) - 1 = i
    OBVIOUS
  <2>4. 2 ^ i = 2 * e
    BY <2>1, <2>2, <2>3
  <2>5. PICK a \in Nat : a = p.initial /\ a > 0
    BY ProvisioningAssumption DEF IsPolicy
  <2>6. W(i) = a * e /\ W(i + 1) = a * (2 * e)
    BY <2>1, <2>3, <2>4, <2>5
  <2>7. a * e \in Nat /\ a * e > 0 /\ a * (2 * e) = 2 * (a * e)
    BY <2>1, <2>5
  <2> HIDE DEF W
  <2> QED BY <2>6, <2>7
<1>3. p.max \in Nat /\ p.initial \in Nat /\ p.initial <= p.max
  BY ProvisioningAssumption DEF IsPolicy
<1>4. f = Loop(f)
  <2> HIDE DEF W
  <2>1. ASSUME NEW i \in 1 .. n, i # 1 PROVE f[i] = Doubled(p, f[i - 1])
    <3>1. i - 1 \in Nat \ {0} /\ i - 1 \in 1 .. n /\ (i - 1) + 1 = i
      BY <2>1
    <3>2. W(i) = 2 * W(i - 1) /\ W(i - 1) \in Nat /\ W(i - 1) > 0
      BY <1>2, <3>1
    <3> QED BY <3>1, <3>2, DoubledIsCut
  <2>2. f[1] = p.initial
    <3>1. Least(p.max, W(1)) = p.initial
      BY <1>1, <1>3 DEF Least
    <3> QED BY <3>1
  <2> QED BY <2>1, <2>2
<1>5. delay = Loop(delay)
  <2> HIDE DEF f, Loop
  <2> QED BY <1>4
<1>6. \A i \in 1 .. n : delay[i] = f[i]
  <2> DEFINE Wrong == {i \in 1 .. n : delay[i] # f[i]}
  <2> SUFFICES ASSUME Wrong # {} PROVE FALSE
    OBVIOUS
  <2>0. Wrong \subseteq Nat
    OBVIOUS
  <2>1. PICK m \in Wrong : \A i \in Wrong : m <= i
    <3> HIDE DEF Wrong
    <3> QED BY <2>0, LeastNatural
  <2> HIDE DEF delay, f
  <2>2. m # 1
    BY <1>4, <1>5, <2>1
  <2>3. m - 1 \in 1 .. n /\ m - 1 \notin Wrong
    BY <2>1, <2>2
  <2>4. delay[m] = Doubled(p, delay[m - 1]) /\ f[m] = Doubled(p, f[m - 1])
    BY <1>4, <1>5, <2>1, <2>2
  <2> QED BY <2>1, <2>3, <2>4
<1>7. ExponentialDelay(p, n) = Least(delay[n], p.max)
  BY DEF ExponentialDelay
<1>8. delay[n] = Least(p.max, W(n))
  <2> HIDE DEF delay, W
  <2> QED BY <1>6
<1>9. PICK w \in Nat : w = W(n)
  BY <1>2
<1> HIDE DEF delay, W
<1>10. Least(delay[n], p.max) = Least(p.max, W(n))
  BY <1>3, <1>8, <1>9 DEF Least
<1> QED BY <1>7, <1>10 DEF W

(* An attempt that is under way has a policy, and its latest wait follows it.  *)
BackoffInv ==
  /\ attempt \in Nat \ {0}
  /\ step # "idle" => call.policy \in Policies
  /\ step = "idle" => waited.after = 0
  /\ waited.after = 0 \/ BackoffIsCapped

(* retryDelay, with or without a header. *)
LEMMA WaitIsCapped ==
  ASSUME NEW p \in Policies, NEW n \in Nat \ {0}, NEW header \in RetryAfters \cup {NoHeader}
  PROVE  /\ RetryDelay(p, n, header) \in 0 .. p.max
         /\ header = NoHeader =>
              RetryDelay(p, n, header) = Least(p.max, p.initial * 2 ^ (n - 1))
<1>1. IsPolicy(p) /\ p.max \in Nat /\ p.initial \in Nat
  BY ProvisioningAssumption DEF IsPolicy
<1>2. CASE header = NoHeader
  <2>1. PICK w \in Nat : w = p.initial * 2 ^ (n - 1)
    <3>1. 2 ^ (n - 1) \in Nat
      BY PowerDoubles
    <3> QED BY <1>1, <3>1
  <2>2. RetryDelay(p, n, header) = Least(p.max, p.initial * 2 ^ (n - 1))
    BY <1>1, <1>2, DelayIsPower DEF RetryDelay
  <2>3. Least(p.max, w) \in 0 .. p.max
    BY <1>1 DEF Least
  <2> QED BY <2>1, <2>2, <2>3
<1>3. CASE header # NoHeader
  <2>1. header \in Nat
    BY <1>3, ProvisioningAssumption
  <2>2. RetryDelay(p, n, header) = Least(header, p.max)
    BY <1>3 DEF RetryDelay
  <2> QED BY <1>1, <1>3, <2>1, <2>2 DEF Least
<1> QED BY <1>2, <1>3

(* The waits of doWithRetry double up to MaxDelay without overflow, for any     *)
(* normalized configuration of the client, and Retry-After never exceeds it. *)
THEOREM BackoffHolds == ProvisionSpec => []BackoffIsCapped
<1>1. ProvisionInit => BackoffInv
  BY DEF ProvisionInit, BackoffInv, NoWait
<1>2. BackoffInv /\ [ProvisionStep]_provisionVars => BackoffInv'
  <2> SUFFICES ASSUME BackoffInv, [ProvisionStep]_provisionVars PROVE BackoffInv'
    OBVIOUS
  <2>1. CASE PostJIT
    <3>1. step = "jit" /\ call' = call /\ step' # "idle"
      BY <2>1 DEF PostJIT, Retry, Fail
    <3>2. CASE UNCHANGED <<attempt, waited>>
      BY <3>1, <3>2 DEF BackoffInv, BackoffIsCapped
    <3>3. ASSUME NEW header \in RetryAfters \cup {NoHeader}, Retry(header), attempt # MaxAttempts
          PROVE  BackoffInv'
      <4>1. call.policy \in Policies /\ attempt \in Nat \ {0}
        BY <3>1 DEF BackoffInv
      <4>2. /\ attempt' = attempt + 1 /\ waited'.after = attempt /\ waited'.header = header
            /\ waited'.delay = RetryDelay(call.policy, attempt, header)
        BY <3>3 DEF Retry
      <4>3. BackoffIsCapped'
        <5> DEFINE p == call.policy
                   r == RetryDelay(p, attempt, header)
                   w == Least(p.max, p.initial * 2 ^ (attempt - 1))
        <5>1. r \in 0 .. p.max /\ (header = NoHeader => r = w)
          BY <4>1, WaitIsCapped
        <5>2. /\ waited'.delay = r /\ waited'.header = header
              /\ Least(call'.policy.max, call'.policy.initial * 2 ^ (waited'.after - 1)) = w
              /\ call'.policy.max = p.max
          BY <3>1, <4>2
        <5> HIDE DEF p, r, w
        <5> QED BY <5>1, <5>2 DEF BackoffIsCapped
      <4> QED BY <3>1, <4>1, <4>2, <4>3 DEF BackoffInv
    <3> QED BY <2>1, <3>2, <3>3 DEF PostJIT, Retry
  <2>2. CASE Begin
    <3>1. /\ step = "idle" /\ step' # "idle" /\ UNCHANGED <<attempt, waited>>
          /\ call'.policy \in Policies
      BY <2>2 DEF Begin
    <3> QED BY <3>1 DEF BackoffInv
  <2>3. CASE UNCHANGED <<call, attempt, waited>> /\ (step' = "idle" <=> step = "idle")
    BY <2>3 DEF BackoffInv, BackoffIsCapped
  <2>4. CASE Cloud \/ Deadline \/ UNCHANGED provisionVars
    BY <2>3, <2>4 DEF Cloud, Deadline, provisionVars
  <2>5. ASSUME Client, ~PostJIT
        PROVE  UNCHANGED <<call, attempt, waited>> /\ step # "idle" /\ step' # "idle"
    BY <2>5 DEF Client, RefuseInsert, RunInstances, Insert, Send, Operation, WaitReady, Record,
                WaitForRegistration, TimeOut, Terminate, Fail, GiveUp
  <2> QED BY <2>1, <2>2, <2>3, <2>4, <2>5 DEF ProvisionStep
<1>3. BackoffInv => BackoffIsCapped
  BY DEF BackoffInv, BackoffIsCapped
<1> QED BY <1>1, <1>2, <1>3, PTL DEF ProvisionSpec

-----------------------------------------------------------------------------
PlacementSpec == PlacementInit /\ [][PlacementStep]_placementVars

Holding == {"reserved", "provisioned", "ready"}

(* A registered pool counts its runners, and so does the reading of one.       *)
CountsInv ==
  /\ DOMAIN pools = PoolIds /\ DOMAIN job = Jobs
  /\ \A p \in Registered : "used" \in DOMAIN pools[p] /\ pools[p].used \in Nat
  /\ reading # NoReading => reading.id \in PoolIds /\ reading.pool.used \in Nat
  /\ \A j \in Jobs : "pc" \in DOMAIN job[j] /\ "pool" \in DOMAIN job[j]

PlaceInv == CountsInv /\ UsageIsHeld

LEMMA HeldInIsFinite ==
  ASSUME NEW p
  PROVE  IsFiniteSet(HeldIn(p)) /\ Cardinality(HeldIn(p)) \in Nat
<1>1. HeldIn(p) \subseteq Jobs
  BY DEF HeldIn
<1>2. IsFiniteSet(HeldIn(p))
  BY <1>1, FS_Subset, PlacementAssumption
<1> QED BY <1>2, FS_CardinalityType

(* A write replaces the usage, and is stale unless the number is right.        *)
LEMMA WriteStep ==
  ASSUME PlaceInv, NEW p \in PoolIds, NEW pool, WritePool(p, pool),
         pool # NoPool => "used" \in DOMAIN pool /\ pool.used \in Nat,
         NEW used \in Nat, Stale(p, used), pool # NoPool => pool.used = used,
         reading' \in {reading, NoReading}
  PROVE  PlaceInv'
<1>1. job' = job /\ DOMAIN pools' = PoolIds /\ pools'[p] = pool
      /\ \A q \in PoolIds \ {p} : pools'[q] = pools[q]
  BY DEF WritePool, PlaceInv, CountsInv
<1>2. CountsInv'
  BY <1>1 DEF PlaceInv, CountsInv, Registered
<1>3. UsageIsHeld'
  <2> SUFFICES ASSUME NEW q \in Registered', q \notin stale'
               PROVE  pools'[q].used = Cardinality(HeldIn(q)')
    BY DEF UsageIsHeld
  <2>1. HeldIn(q)' = HeldIn(q)
    BY <1>1 DEF HeldIn
  <2>2. CASE q = p
    <3>1. pools'[q].used = used
      BY <1>1, <2>2 DEF Registered
    <3>2. used = Cardinality(HeldIn(p))
      BY <2>2 DEF Stale
    <3> QED BY <2>1, <2>2, <3>1, <3>2
  <2>3. CASE q # p
    <3>1. q \in Registered /\ q \notin stale /\ pools'[q] = pools[q]
      BY <1>1, <2>3 DEF Registered, Stale
    <3> QED BY <2>1, <3>1 DEF PlaceInv, UsageIsHeld
  <2> QED BY <2>2, <2>3
<1> QED BY <1>2, <1>3 DEF PlaceInv

(* A place that is given back is no longer counted and no longer held; in a    *)
(* pool that is not stale it was counted.                                    *)
LEMMA GiveBackStep ==
  ASSUME PlaceInv, NEW j \in Jobs, job[j].pc \in Holding, GiveBack(j)
  PROVE  PlaceInv'
<1> PICK p : p = job[j].pool
  OBVIOUS
<1>1. job' = [job EXCEPT ![j] = NoJob] /\ reading' = reading /\ pools' = Released(p)
  BY DEF GiveBack, LetsGo
<1>2. DOMAIN job' = Jobs /\ job'[j] = NoJob /\ \A i \in Jobs \ {j} : job'[i] = job[i]
  BY <1>1 DEF PlaceInv, CountsInv
<1>3. DOMAIN pools' = PoolIds /\ \A q \in PoolIds : q # p => pools'[q] = pools[q]
  BY <1>1 DEF Released, PlaceInv, CountsInv
<1>4. p \in Registered /\ pools[p].used >= 1 =>
        "used" \in DOMAIN pools'[p] /\ pools'[p].used = pools[p].used - 1
  BY <1>1 DEF Released, Registered, PlaceInv, CountsInv
<1>5. ~(p \in Registered /\ pools[p].used >= 1) => pools' = pools
  BY <1>1 DEF Released
<1>6. Registered' \subseteq Registered
  BY <1>3, <1>4, <1>5 DEF Registered
<1>7. j \in HeldIn(p) /\ HeldIn(p)' = HeldIn(p) \ {j}
  BY <1>2 DEF HeldIn, Holding, NoJob
<1>8. CountsInv'
  <2>1. \A q \in Registered' : "used" \in DOMAIN pools'[q] /\ pools'[q].used \in Nat
    <3> SUFFICES ASSUME NEW q \in Registered' PROVE "used" \in DOMAIN pools'[q] /\ pools'[q].used \in Nat
      OBVIOUS
    <3>1. q \in Registered /\ q \in PoolIds /\ "used" \in DOMAIN pools[q] /\ pools[q].used \in Nat
      BY <1>6 DEF PlaceInv, CountsInv, Registered
    <3>2. CASE q = p /\ pools[p].used >= 1
      BY <1>4, <3>1, <3>2
    <3>3. CASE ~(q = p /\ pools[p].used >= 1)
      BY <1>3, <1>5, <3>1, <3>3
    <3> QED BY <3>2, <3>3
  <2>2. \A i \in Jobs : "pc" \in DOMAIN job'[i] /\ "pool" \in DOMAIN job'[i]
    BY <1>2 DEF PlaceInv, CountsInv, NoJob
  <2>3. reading' # NoReading => reading'.id \in PoolIds /\ reading'.pool.used \in Nat
    BY <1>1 DEF PlaceInv, CountsInv
  <2> QED BY <1>2, <1>3, <2>1, <2>2, <2>3 DEF CountsInv
<1>9. UsageIsHeld'
  <2> SUFFICES ASSUME NEW q \in Registered', q \notin stale'
               PROVE  pools'[q].used = Cardinality(HeldIn(q)')
    BY DEF UsageIsHeld
  <2>1. q \in Registered /\ q \in PoolIds
    BY <1>6 DEF Registered
  <2>2. CASE q # p
    <3>1. HeldIn(q)' = HeldIn(q)
      BY <1>2, <2>2 DEF HeldIn, NoJob
    <3>2. q \notin stale
      BY <2>2 DEF GiveBack
    <3> QED BY <1>3, <2>1, <2>2, <3>1, <3>2 DEF PlaceInv, UsageIsHeld
  <2>3. CASE q = p /\ p \notin stale
    <3>1. pools[p].used = Cardinality(HeldIn(p)) /\ pools[p].used \in Nat
      BY <2>1, <2>3 DEF PlaceInv, UsageIsHeld, CountsInv
    <3>2. IsFiniteSet(HeldIn(p))
      BY HeldInIsFinite
    <3>3. Cardinality(HeldIn(p) \ {j}) = Cardinality(HeldIn(p)) - 1
      BY <1>7, <3>2, FS_RemoveElement
    <3>4. Cardinality(HeldIn(p)) # 0
      BY <1>7, <3>2, FS_EmptySet
    <3>5. pools[p].used >= 1
      BY <3>1, <3>4
    <3> QED BY <1>4, <1>7, <2>1, <2>3, <3>1, <3>3, <3>5
  <2>4. CASE q = p /\ p \in stale
    <3>1. HeldIn(p) = {j} /\ (pools'[p] = NoPool \/ pools'[p].used = 0)
      BY <2>4 DEF GiveBack
    <3>2. pools'[p].used = 0
      BY <2>4, <3>1 DEF Registered
    <3>3. HeldIn(p)' = {}
      BY <1>7, <3>1
    <3>4. Cardinality({}) = 0
      BY FS_EmptySet
    <3> QED BY <2>4, <3>2, <3>3, <3>4
  <2> QED BY <2>2, <2>3, <2>4
<1> QED BY <1>8, <1>9 DEF PlaceInv

(* A step of Schedule that neither takes a place nor gives one back.           *)
LEMMA HoldingStep ==
  ASSUME PlaceInv, UNCHANGED <<pools, reading, stale>>, NEW j \in Jobs,
         DOMAIN job' = Jobs, \A i \in Jobs \ {j} : job'[i] = job[i],
         "pc" \in DOMAIN job'[j], "pool" \in DOMAIN job'[j],
         (job[j].pc \in Holding) <=> (job'[j].pc \in Holding),
         job[j].pc \in Holding => job'[j].pool = job[j].pool
  PROVE  PlaceInv'
<1>1. \A p : HeldIn(p)' = HeldIn(p)
  BY DEF HeldIn, Holding
<1>2. Registered' = Registered
  BY DEF Registered
<1> QED BY <1>1, <1>2 DEF PlaceInv, CountsInv, UsageIsHeld

(* Reserve counts the place it takes.                                          *)
LEMMA ReserveStep ==
  ASSUME PlaceInv, NEW j \in Jobs, ReservePool(j)
  PROVE  PlaceInv'
<1> PICK p : p = job[j].pool
  OBVIOUS
<1>0. job[j].pc = "selected" /\ UNCHANGED <<reading, stale>>
      /\ DOMAIN job = Jobs /\ "pc" \in DOMAIN job[j] /\ "pool" \in DOMAIN job[j]
  BY DEF ReservePool, PlaceInv, CountsInv
<1>1. CASE ~Open(p)
  <2>1. pools' = pools /\ job' = [job EXCEPT ![j] = NoJob]
    BY <1>1 DEF ReservePool, LetsGo
  <2>2. job'[j] = NoJob
    BY <1>0, <2>1
  <2>3. "pc" \in DOMAIN job'[j] /\ "pool" \in DOMAIN job'[j] /\ job'[j].pc \notin Holding
    BY <2>2 DEF NoJob, Holding
  <2>4. job[j].pc \notin Holding
    BY <1>0 DEF Holding
  <2> QED BY <1>0, <2>1, <2>3, <2>4, HoldingStep
<1>2. CASE Open(p)
  <2>1. pools' = [pools EXCEPT ![p].used = @ + 1] /\ job' = [job EXCEPT ![j].pc = "reserved"]
    BY <1>2 DEF ReservePool, Holds
  <2>2. p \in Registered /\ p \in PoolIds /\ "used" \in DOMAIN pools[p] /\ pools[p].used \in Nat
    BY <1>2 DEF Open, Registered, PlaceInv, CountsInv
  <2>3. DOMAIN pools' = PoolIds /\ "used" \in DOMAIN pools'[p] /\ pools'[p].used = pools[p].used + 1
        /\ \A q \in PoolIds \ {p} : pools'[q] = pools[q]
    BY <2>1, <2>2 DEF PlaceInv, CountsInv
  <2>4. DOMAIN job' = Jobs /\ (\A i \in Jobs \ {j} : job'[i] = job[i])
        /\ job'[j].pc = "reserved" /\ job'[j].pool = p
        /\ "pc" \in DOMAIN job'[j] /\ "pool" \in DOMAIN job'[j]
    BY <1>0, <2>1
  <2>5. Registered' \subseteq Registered
    BY <2>2, <2>3 DEF Registered
  <2>6. HeldIn(p)' = HeldIn(p) \cup {j} /\ j \notin HeldIn(p)
    BY <1>0, <2>4 DEF HeldIn, Holding
  <2>7. CountsInv'
    BY <1>0, <2>2, <2>3, <2>4, <2>5 DEF PlaceInv, CountsInv, Registered
  <2>8. UsageIsHeld'
    <3> SUFFICES ASSUME NEW q \in Registered', q \notin stale'
                 PROVE  pools'[q].used = Cardinality(HeldIn(q)')
      BY DEF UsageIsHeld
    <3>1. q \in Registered /\ q \in PoolIds /\ q \notin stale
      BY <1>0, <2>5 DEF Registered
    <3>2. CASE q # p
      <4>1. HeldIn(q)' = HeldIn(q)
        BY <1>0, <2>4, <3>2 DEF HeldIn
      <4> QED BY <2>3, <3>1, <3>2, <4>1 DEF PlaceInv, UsageIsHeld
    <3>3. CASE q = p
      <4>1. pools[p].used = Cardinality(HeldIn(p))
        BY <3>1, <3>3 DEF PlaceInv, UsageIsHeld
      <4>2. Cardinality(HeldIn(p) \cup {j}) = Cardinality(HeldIn(p)) + 1
        BY <2>6, HeldInIsFinite, FS_AddElement
      <4> QED BY <2>3, <2>6, <3>3, <4>1, <4>2
    <3> QED BY <3>2, <3>3
  <2> QED BY <2>7, <2>8 DEF PlaceInv
<1> QED BY <1>1, <1>2

(* What a pool counts is what is held in it, through every failure and every   *)
(* interleaving, but where a write has replaced the number.                  *)
THEOREM UsageHolds == PlacementSpec => []UsageIsHeld
<1>1. PlacementInit => PlaceInv
  <2> SUFFICES ASSUME PlacementInit PROVE PlaceInv
    OBVIOUS
  <2>1. Registered = {} /\ reading = NoReading /\ DOMAIN pools = PoolIds /\ job = [j \in Jobs |-> NoJob]
    BY DEF PlacementInit, Registered
  <2> QED BY <2>1 DEF PlaceInv, CountsInv, UsageIsHeld, NoJob
<1>2. PlaceInv /\ [PlacementStep]_placementVars => PlaceInv'
  <2> SUFFICES ASSUME PlaceInv, [PlacementStep]_placementVars PROVE PlaceInv'
    OBVIOUS
  <2>1. CASE UNCHANGED placementVars
    <3>1. \A p : HeldIn(p)' = HeldIn(p)
      BY <2>1 DEF placementVars, HeldIn
    <3> QED BY <2>1, <3>1 DEF placementVars, PlaceInv, CountsInv, UsageIsHeld, Registered
  <2>2. ASSUME NEW p \in PoolIds, RegisterPool(p) PROVE PlaceInv'
    <3>1. PICK d \in Declared[p] : WritePool(p, WithUsage(d, 0))
      BY <2>2 DEF RegisterPool
    <3>2. Stale(p, 0) /\ reading' = reading
      BY <2>2 DEF RegisterPool
    <3>3. "used" \in DOMAIN WithUsage(d, 0) /\ WithUsage(d, 0).used = 0
      BY DEF WithUsage
    <3> QED BY <3>1, <3>2, <3>3, WriteStep
  <2>3. ASSUME NEW p \in PoolIds, GetPool(p) PROVE PlaceInv'
    <3>1. UNCHANGED <<pools, job, stale>> /\ p \in Registered /\ reading'.id = p /\ reading'.pool = pools[p]
      BY <2>3 DEF GetPool
    <3>2. \A q : HeldIn(q)' = HeldIn(q)
      BY <3>1 DEF HeldIn
    <3> QED BY <3>1, <3>2 DEF PlaceInv, CountsInv, UsageIsHeld, Registered
  <2>4. ASSUME NEW p \in PoolIds, RemovePool(p) PROVE PlaceInv'
    <3>1. WritePool(p, NoPool) /\ Stale(p, 0) /\ reading' = reading
      BY <2>4 DEF RemovePool
    <3> QED BY <3>1, WriteStep
  <2>5. CASE UpsertPool
    <3>1. reading # NoReading /\ reading.id \in PoolIds /\ reading.pool.used \in Nat
      BY <2>5 DEF UpsertPool, PlaceInv, CountsInv
    <3>2. PICK d \in Declared[reading.id] : WritePool(reading.id, WithUsage(d, reading.pool.used))
      BY <2>5 DEF UpsertPool
    <3>3. Stale(reading.id, reading.pool.used) /\ reading' = NoReading
      BY <2>5 DEF UpsertPool
    <3>4. "used" \in DOMAIN WithUsage(d, reading.pool.used)
          /\ WithUsage(d, reading.pool.used).used = reading.pool.used
      BY DEF WithUsage
    <3> QED BY <3>1, <3>2, <3>3, <3>4, WriteStep
  <2>6. ASSUME NEW j \in Jobs, SelectPool(j) PROVE PlaceInv'
    <3>1. PICK labels \in JobLabels :
            job' = [job EXCEPT ![j] = [pc |-> "selected", pool |-> Chosen(mode, labels), labels |-> labels]]
      BY <2>6 DEF SelectPool
    <3>2. UNCHANGED <<pools, reading, stale>> /\ job[j].pc = "idle" /\ DOMAIN job = Jobs
      BY <2>6 DEF SelectPool, PlaceInv, CountsInv
    <3>3. job'[j].pc = "selected" /\ "pc" \in DOMAIN job'[j] /\ "pool" \in DOMAIN job'[j]
          /\ DOMAIN job' = Jobs /\ \A i \in Jobs \ {j} : job'[i] = job[i]
      BY <3>1, <3>2
    <3>4. job[j].pc \notin Holding /\ job'[j].pc \notin Holding
      BY <3>2, <3>3 DEF Holding
    <3> QED BY <3>2, <3>3, <3>4, HoldingStep
  <2>7. ASSUME NEW j \in Jobs, ProvisionIn(j) \/ MakeReady(j) \/ FinishJob(j) PROVE PlaceInv'
    <3>1. job[j].pc \in Holding
      BY <2>7 DEF ProvisionIn, MakeReady, FinishJob, Holding
    <3>2. CASE GiveBack(j)
      BY <3>1, <3>2, GiveBackStep
    <3>3. CASE /\ Holds(j, "provisioned") \/ Holds(j, "ready")
               /\ UNCHANGED <<mode, pools, reading, stale, writes>>
      <4>1. DOMAIN job = Jobs /\ "pc" \in DOMAIN job[j] /\ "pool" \in DOMAIN job[j]
        BY DEF PlaceInv, CountsInv
      <4>2. DOMAIN job' = Jobs /\ (\A i \in Jobs \ {j} : job'[i] = job[i])
            /\ job'[j].pc \in {"provisioned", "ready"} /\ job'[j].pool = job[j].pool
            /\ "pc" \in DOMAIN job'[j] /\ "pool" \in DOMAIN job'[j]
        BY <3>3, <4>1 DEF Holds
      <4>3. job'[j].pc \in Holding
        BY <4>2 DEF Holding
      <4> QED BY <3>1, <3>3, <4>2, <4>3, HoldingStep
    <3> QED BY <2>7, <3>2, <3>3 DEF ProvisionIn, MakeReady, FinishJob
  <2> QED BY <2>1, <2>2, <2>3, <2>4, <2>5, <2>6, <2>7, ReserveStep DEF PlacementStep
<1>3. PlaceInv => UsageIsHeld
  BY DEF PlaceInv
<1> QED BY <1>1, <1>2, <1>3, PTL DEF PlacementSpec

(* The pools of some owners that have a place. *)
FitFor(owners) == {p \in Registered : Open(p) /\ pools[p].owner \in owners}

(* A registered pool is as an administrator may declare it. *)
OwnersInv ==
  /\ DOMAIN pools = PoolIds
  /\ \A p \in Registered :
       /\ {"owner", "startup"} \subseteq DOMAIN pools[p]
       /\ pools[p].owner \in {"customer", "managed"} /\ pools[p].startup \in Nat

LEMMA OwnersInvHolds == PlacementSpec => []OwnersInv
<1>1. PlacementInit => OwnersInv
  BY DEF PlacementInit, OwnersInv, Registered
<1>2. OwnersInv /\ [PlacementStep]_placementVars => OwnersInv'
  <2> SUFFICES ASSUME OwnersInv, [PlacementStep]_placementVars PROVE OwnersInv'
    OBVIOUS
  <2>1. CASE pools' = pools
    BY <2>1 DEF OwnersInv, Registered
  <2>2. ASSUME NEW p \in PoolIds, NEW pool, pools' = [pools EXCEPT ![p] = pool],
               pool # NoPool =>
                 /\ {"owner", "startup"} \subseteq DOMAIN pool
                 /\ pool.owner \in {"customer", "managed"} /\ pool.startup \in Nat
        PROVE  OwnersInv'
    BY <2>2 DEF OwnersInv, Registered
  <2>3. ASSUME NEW p \in PoolIds, NEW d \in Declared[p], NEW used
        PROVE  LET pool == WithUsage(d, used)
               IN /\ {"owner", "startup"} \subseteq DOMAIN pool
                  /\ pool.owner \in {"customer", "managed"} /\ pool.startup \in Nat
    BY PlacementAssumption DEF WithUsage
  <2>4. ASSUME NEW p \in Registered, NEW used, pools' = [pools EXCEPT ![p].used = used]
        PROVE  OwnersInv'
    <3> DEFINE pool == [pools[p] EXCEPT !.used = used]
    <3>1. /\ {"owner", "startup"} \subseteq DOMAIN pool
          /\ pool.owner \in {"customer", "managed"} /\ pool.startup \in Nat
      BY DEF OwnersInv
    <3>2. pools' = [pools EXCEPT ![p] = pool] /\ p \in PoolIds
      BY <2>4 DEF Registered
    <3> HIDE DEF pool
    <3> QED BY <2>2, <3>1, <3>2
  <2>5. ASSUME NEW p \in PoolIds, RegisterPool(p) \/ RemovePool(p) \/ GetPool(p) PROVE OwnersInv'
    <3>1. CASE RegisterPool(p)
      <4>1. PICK d \in Declared[p] : WritePool(p, WithUsage(d, 0))
        BY <3>1 DEF RegisterPool
      <4> QED BY <2>2, <2>3, <4>1 DEF WritePool
    <3>2. CASE RemovePool(p)
      BY <2>2, <3>2 DEF RemovePool, WritePool
    <3> QED BY <2>1, <2>5, <3>1, <3>2 DEF GetPool
  <2>6. ASSUME NEW j \in Jobs, ReservePool(j) PROVE OwnersInv'
    <3>1. CASE Open(job[j].pool)
      <4>1. job[j].pool \in Registered
        BY <3>1 DEF Open
      <4>2. pools' = [pools EXCEPT ![job[j].pool].used = pools[job[j].pool].used + 1]
        BY <2>6, <3>1 DEF ReservePool
      <4> QED BY <2>4, <4>1, <4>2
    <3> QED BY <2>1, <2>6, <3>1 DEF ReservePool
  <2>7. ASSUME NEW j \in Jobs, GiveBack(j) PROVE OwnersInv'
    <3>1. \/ pools' = pools
          \/ /\ job[j].pool \in Registered
             /\ pools' = [pools EXCEPT ![job[j].pool].used = pools[job[j].pool].used - 1]
      BY <2>7 DEF GiveBack, Released
    <3> QED BY <2>1, <2>4, <3>1
  <2>8. CASE UpsertPool
    <3>0. CASE reading.id \in PoolIds
      <4>1. PICK d \in Declared[reading.id] : WritePool(reading.id, WithUsage(d, reading.pool.used))
        BY <2>8 DEF UpsertPool
      <4> QED BY <2>2, <2>3, <3>0, <4>1 DEF WritePool
    <3>1. CASE reading.id \notin PoolIds
      <4>1. \E pool : pools' = [pools EXCEPT ![reading.id] = pool]
        BY <2>8 DEF UpsertPool, WritePool
      <4>2. pools' = [p \in PoolIds |-> pools[p]]
        BY <3>1, <4>1 DEF OwnersInv
      <4> QED BY <4>2 DEF OwnersInv, Registered
    <3> QED BY <3>0, <3>1
  <2>9. CASE UNCHANGED placementVars
    BY <2>1, <2>9 DEF placementVars
  <2>10. ASSUME NEW j \in Jobs, SelectPool(j) \/ ProvisionIn(j) \/ MakeReady(j) \/ FinishJob(j)
         PROVE  OwnersInv'
    BY <2>1, <2>7, <2>10 DEF SelectPool, ProvisionIn, MakeReady, FinishJob
  <2> QED BY <2>5, <2>6, <2>8, <2>9, <2>10 DEF PlacementStep
<1> QED BY <1>1, <1>2, PTL DEF PlacementSpec

(* The least of some registered pools is one of them. *)
LEMMA LeastPoolIsOne ==
  ASSUME OwnersInv, NEW ids \in SUBSET Registered, ids # {}
  PROVE  LeastPool(ids) \in ids
<1> DEFINE times == {pools[p].startup : p \in ids}
<1>1. times \subseteq Nat /\ times # {}
  BY DEF OwnersInv
<1>2. PICK t \in times : \A u \in times : t <= u
  <2> HIDE DEF times
  <2> QED BY <1>1, LeastNatural
<1>3. \E p \in ids : \A o \in ids : pools[p].startup <= pools[o].startup
  BY <1>2
<1> QED BY <1>3 DEF LeastPool

(* eligible finds a pool of the list that fits, if there is one, for a list of *)
(* all pools.                                                                *)
LEMMA EligibleFits ==
  ASSUME NEW list \in SetToSeqs(Registered), NEW owners
  PROVE  /\ FitFor(owners) = {} => Eligible(list, OpenPools, owners) = NoPool
         /\ FitFor(owners) # {} => Eligible(list, OpenPools, owners) \in FitFor(owners)
<1> DEFINE D == 1 .. Cardinality(Registered)
           fit == {i \in DOMAIN list : list[i] \in OpenPools /\ pools[list[i]].owner \in owners}
<1>1. list \in [D -> Registered] /\ (\A i, k \in D : i # k => list[i] # list[k])
  BY DEF SetToSeqs
<1>2. IsFiniteSet(Registered) /\ Cardinality(Registered) \in Nat
  <2>1. Registered \subseteq PoolIds
    BY DEF Registered
  <2> QED BY <2>1, PlacementAssumption, FS_Subset, FS_CardinalityType
<1>3. list \in Surjection(D, Registered)
  <2>1. list \in Injection(D, Registered)
    <3> HIDE DEF D
    <3> QED BY <1>1 DEF Injection, IsInjective
  <2>2. Cardinality(D) = Cardinality(Registered)
    BY <1>2, FS_Interval
  <2> HIDE DEF D
  <2> QED BY <1>2, <2>1, <2>2, FS_Injection
<1>4. \A p \in Registered : \E i \in D : list[i] = p
  <2> HIDE DEF D
  <2> QED BY <1>3 DEF Surjection
<1>5. fit \subseteq Nat /\ fit \subseteq D
  BY <1>1
<1>6. FitFor(owners) = {} <=> fit = {}
  <2>1. ASSUME NEW p \in FitFor(owners) PROVE fit # {}
    <3>1. PICK i \in D : list[i] = p
      BY <1>4 DEF FitFor
    <3>2. i \in fit
      BY <1>1, <3>1 DEF FitFor, OpenPools
    <3> QED BY <3>2
  <2>2. ASSUME NEW i \in fit PROVE list[i] \in FitFor(owners)
    BY <1>1 DEF FitFor, OpenPools
  <2> HIDE DEF fit
  <2> QED BY <2>1, <2>2
<1>7. CASE fit = {}
  BY <1>6, <1>7 DEF Eligible
<1>8. CASE fit # {}
  <2>1. Min(fit) \in fit
    <3> HIDE DEF fit
    <3> QED BY <1>5, <1>8, MinIsLeast
  <2>2. Eligible(list, OpenPools, owners) = list[Min(fit)]
    BY <1>8 DEF Eligible
  <2>3. \A i \in fit : list[i] \in FitFor(owners)
    BY <1>1 DEF FitFor, OpenPools
  <2> HIDE DEF fit
  <2> QED BY <1>6, <1>8, <2>1, <2>2, <2>3
<1> QED BY <1>7, <1>8

(* Registry.Select finds a pool that fits, of the first owners that have one.  *)
LEMMA ChosenFits ==
  ASSUME OwnersInv, NEW m
  PROVE  LET having == {i \in DOMAIN Owners(m) : FitFor(Owners(m)[i]) # {}}
         IN /\ having = {} => Chosen(m, {}) = NoPool
            /\ having # {} => Chosen(m, {}) \in FitFor(Owners(m)[Min(having)])
<1> DEFINE of(i) == {p \in Registered : Matches(p, {}) /\ pools[p].owner \in Owners(m)[i]}
           having == {i \in DOMAIN Owners(m) : of(i) # {}}
<1>1. \A i \in DOMAIN Owners(m) : of(i) = FitFor(Owners(m)[i])
  BY DEF Matches, FitFor
<1>2. having = {i \in DOMAIN Owners(m) : FitFor(Owners(m)[i]) # {}}
  <2> HIDE DEF of
  <2> QED BY <1>1
<1>3. CASE having = {}
  BY <1>2, <1>3 DEF Chosen
<1>4. CASE having # {}
  <2>1. Chosen(m, {}) = LeastPool(of(Min(having)))
    BY <1>4 DEF Chosen
  <2>2. having \subseteq Nat /\ having \subseteq DOMAIN Owners(m)
    <3>1. DOMAIN Owners(m) \subseteq Nat
      BY DEF Owners
    <3> QED BY <3>1
  <2>3. Min(having) \in having
    <3> HIDE DEF having
    <3> QED BY <1>4, <2>2, MinIsLeast
  <2>4. of(Min(having)) \in SUBSET Registered /\ of(Min(having)) # {}
    BY <2>3
  <2>5. LeastPool(of(Min(having))) \in of(Min(having))
    <3> HIDE DEF of, having
    <3> QED BY <2>4, LeastPoolIsOne
  <2>6. of(Min(having)) = FitFor(Owners(m)[Min(having)])
    <3> HIDE DEF of, having
    <3> QED BY <1>1, <2>2, <2>3
  <2> HIDE DEF of, having
  <2> QED BY <1>2, <1>4, <2>1, <2>5, <2>6
<1> QED BY <1>3, <1>4

LEMMA FirstOfTwo ==
  ASSUME NEW S \in SUBSET {1, 2}, S # {}
  PROVE  Min(S) = IF 1 \in S THEN 1 ELSE 2
<1>1. S \subseteq Nat
  OBVIOUS
<1>2. Min(S) \in S /\ \A n \in S : Min(S) <= n
  BY <1>1, MinIsLeast
<1>3. Min(S) \in {1, 2} /\ (1 \in S => Min(S) <= 1)
  BY <1>2
<1> QED BY <1>2, <1>3

(* Which pool a mode finds, by the owners it takes in turn. *)
LEMMA ChosenInTurn ==
  ASSUME OwnersInv, NEW m, NEW a, NEW b, Owners(m) = <<a, b>>
  PROVE  /\ FitFor(a) # {} => Chosen(m, {}) \in FitFor(a)
         /\ FitFor(a) = {} /\ FitFor(b) # {} => Chosen(m, {}) \in FitFor(b)
         /\ FitFor(a) = {} /\ FitFor(b) = {} => Chosen(m, {}) = NoPool
<1> DEFINE having == {i \in DOMAIN Owners(m) : FitFor(Owners(m)[i]) # {}}
<1>1. /\ having \in SUBSET {1, 2}
      /\ 1 \in having <=> FitFor(a) # {}
      /\ 2 \in having <=> FitFor(b) # {}
  OBVIOUS
<1>2. having # {} => Chosen(m, {}) \in FitFor(Owners(m)[Min(having)])
  BY ChosenFits
<1>3. having = {} => Chosen(m, {}) = NoPool
  BY ChosenFits
<1>4. having # {} => Min(having) = IF 1 \in having THEN 1 ELSE 2
  <2> HIDE DEF having
  <2> QED BY <1>1, FirstOfTwo
<1>5. Owners(m)[1] = a /\ Owners(m)[2] = b
  OBVIOUS
<1> HIDE DEF having
<1> QED BY <1>1, <1>2, <1>3, <1>4, <1>5

(* The same for a mode that takes one group of owners. *)
LEMMA ChosenOfOne ==
  ASSUME OwnersInv, NEW m, NEW a, Owners(m) = <<a>>
  PROVE  /\ FitFor(a) # {} => Chosen(m, {}) \in FitFor(a)
         /\ FitFor(a) = {} => Chosen(m, {}) = NoPool
<1> DEFINE having == {i \in DOMAIN Owners(m) : FitFor(Owners(m)[i]) # {}}
<1>1. /\ having \in SUBSET {1, 2} /\ 2 \notin having
      /\ 1 \in having <=> FitFor(a) # {}
  OBVIOUS
<1>2. having # {} => Chosen(m, {}) \in FitFor(Owners(m)[Min(having)])
  BY ChosenFits
<1>3. having = {} => Chosen(m, {}) = NoPool
  BY ChosenFits
<1>4. having # {} => Min(having) = IF 1 \in having THEN 1 ELSE 2
  <2> HIDE DEF having
  <2> QED BY <1>1, FirstOfTwo
<1>5. Owners(m)[1] = a
  OBVIOUS
<1> HIDE DEF having
<1> QED BY <1>1, <1>2, <1>3, <1>4, <1>5

(* The two choices of the scheduler agree, for any pools an administrator may  *)
(* declare, any usage of them and any order of the list.                     *)
THEOREM ChoicesHold == PlacementSpec => []ChoicesAgree
<1>1. OwnersInv => ChoicesAgree
  <2> SUFFICES ASSUME OwnersInv, NEW m \in Modes, NEW list \in SetToSeqs(Registered)
               PROVE  LET one == Chosen(m, {})
                          other == PolicyChosen(m, list, OpenPools)
                      IN IF m \in {"customer-first", "managed-first", "customer-only",
                                   "managed-only", "fallback"}
                         THEN /\ one = NoPool <=> other = NoPool
                              /\ one # NoPool /\ m # "fallback" => pools[one].owner = pools[other].owner
                         ELSE other = NoPool /\ (one = NoPool <=> OpenPools = {})
    BY DEF ChoicesAgree
  <2> DEFINE own == Eligible(list, OpenPools, {"customer"})
             rented == Eligible(list, OpenPools, {"managed"})
             any == Eligible(list, OpenPools, {"customer", "managed"})
  <2>1. /\ FitFor({"customer"}) = {} => own = NoPool
        /\ FitFor({"customer"}) # {} => own \in FitFor({"customer"})
    BY EligibleFits
  <2>2. /\ FitFor({"managed"}) = {} => rented = NoPool
        /\ FitFor({"managed"}) # {} => rented \in FitFor({"managed"})
    BY EligibleFits
  <2>3. /\ FitFor({"customer", "managed"}) = {} => any = NoPool
        /\ FitFor({"customer", "managed"}) # {} => any \in FitFor({"customer", "managed"})
    BY EligibleFits
  <2>4. ASSUME NEW a, NEW p \in FitFor(a) PROVE p # NoPool
    BY PlacementAssumption DEF FitFor, Registered
  <2>5. \A o : \A p \in FitFor({o}) : pools[p].owner = o
    BY DEF FitFor
  <2>6. CASE m = "customer-first"
    <3>1. Owners(m) = <<{"customer"}, {"managed"}>>
      BY <2>6 DEF Owners
    <3>2. PolicyChosen(m, list, OpenPools) = IF own # NoPool THEN own ELSE rented
      BY <2>6 DEF PolicyChosen
    <3> HIDE DEF own, rented, any
    <3> QED BY <2>1, <2>2, <2>4, <2>5, <2>6, <3>1, <3>2, ChosenInTurn
  <2>7. CASE m = "managed-first"
    <3>1. Owners(m) = <<{"managed"}, {"customer"}>>
      BY <2>7 DEF Owners
    <3>2. PolicyChosen(m, list, OpenPools) = IF rented # NoPool THEN rented ELSE own
      BY <2>7 DEF PolicyChosen
    <3> HIDE DEF own, rented, any
    <3> QED BY <2>1, <2>2, <2>4, <2>5, <2>7, <3>1, <3>2, ChosenInTurn
  <2>8. CASE m = "customer-only"
    <3>1. Owners(m) = <<{"customer"}>>
      BY <2>8 DEF Owners
    <3>2. PolicyChosen(m, list, OpenPools) = own
      BY <2>8 DEF PolicyChosen
    <3> HIDE DEF own, rented, any
    <3> QED BY <2>1, <2>4, <2>5, <2>8, <3>1, <3>2, ChosenOfOne
  <2>9. CASE m = "managed-only"
    <3>1. Owners(m) = <<{"managed"}>>
      BY <2>9 DEF Owners
    <3>2. PolicyChosen(m, list, OpenPools) = rented
      BY <2>9 DEF PolicyChosen
    <3> HIDE DEF own, rented, any
    <3> QED BY <2>2, <2>4, <2>5, <2>9, <3>1, <3>2, ChosenOfOne
  <2>10. CASE m = "fallback"
    <3>1. Owners(m) = <<{"customer", "managed"}>>
      BY <2>10 DEF Owners
    <3>2. PolicyChosen(m, list, OpenPools) = any
      BY <2>10 DEF PolicyChosen
    <3> HIDE DEF own, rented, any
    <3> QED BY <2>3, <2>4, <2>10, <3>1, <3>2, ChosenOfOne
  <2>11. CASE m \notin {"customer-first", "managed-first", "customer-only", "managed-only", "fallback"}
    <3>1. Owners(m) = <<{"customer", "managed"}>>
      BY <2>11 DEF Owners
    <3>2. FitFor({"customer", "managed"}) = OpenPools
      BY DEF FitFor, OpenPools, OwnersInv
    <3>3. Chosen(m, {}) = NoPool <=> OpenPools = {}
      BY <2>4, <3>1, <3>2, ChosenOfOne
    <3> QED BY <2>11, <3>3 DEF PolicyChosen
  <2> QED BY <2>6, <2>7, <2>8, <2>9, <2>10, <2>11
<1> QED BY <1>1, OwnersInvHolds, PTL

-----------------------------------------------------------------------------
(* The cache: a specification of its own, for any users and scopes. *)

CacheSpec == CacheInit /\ [][CacheStep]_cacheVars

Entries == [id : Nat, expires : Nat]
Reports == {<<>>, <<"hit", "restore">>, <<"restore">>, <<"miss">>, <<"save">>, <<"invalidation">>}
UserCalls ==
  [op : Operations \cup {"none", "report"}, at : (Scopes \X Keys) \cup {NoEntry}, id : Nat, now : Nat,
   ttl : Nat, gone : SUBSET Nat, found : Entries \cup {NoEntry}, todo : Reports]

(* What is where: a call has its types, and names an entry unless it rests. *)
CacheTypeOK ==
  /\ clock \in Nat /\ ops \in Nat
  /\ entries \in [Scopes \X Keys -> Entries \cup {NoEntry}]
  /\ user \in [Users -> UserCalls]
  /\ \A u \in Users : user[u].op # "none" => user[u].at \in Scopes \X Keys
  /\ \A u \in Users : user[u].op = "report" <=> user[u].todo # <<>>

(* The number of a Put is in one place at most: its call, an entry of the map, *)
(* or the removed ones.  What had been removed when a call began still is.     *)
PlacesOK ==
  /\ removed \subseteq 0 .. ops
  /\ \A a \in Scopes \X Keys : entries[a] # NoEntry => entries[a].id <= ops /\ entries[a].id \notin removed
  /\ \A a, b \in Scopes \X Keys :
       entries[a] # NoEntry /\ entries[b] # NoEntry /\ entries[a].id = entries[b].id => a = b
  /\ \A u \in Users : user[u].gone \subseteq removed
  /\ \A u \in Users : user[u].op = "put" => user[u].id <= ops /\ user[u].id \notin removed
  /\ \A u \in Users, a \in Scopes \X Keys :
       user[u].op = "put" /\ entries[a] # NoEntry => entries[a].id # user[u].id
  /\ \A u, v \in Users : user[u].op = "put" /\ user[v].op = "put" /\ user[u].id = user[v].id => u = v

CacheInv == CacheTypeOK /\ PlacesOK /\ ServedIsCurrent

(* A call that begins has a number of its own, and sees what is removed by then. *)
LEMMA BeginCallKeeps ==
  ASSUME CacheInv, NEW u \in Users, BeginCall(u)
  PROVE  CacheInv'
<1>1. PICK op \in Operations, at \in Scopes \X Keys : \E ttl \in IF op = "put" THEN TTLs ELSE {0} :
        user' = [user EXCEPT ![u] = [AtRest EXCEPT !.op = op, !.at = at, !.id = ops + 1,
                                         !.now = clock, !.ttl = ttl, !.gone = removed]]
  BY DEF BeginCall
<1>2. PICK ttl \in IF op = "put" THEN TTLs ELSE {0} :
        user' = [user EXCEPT ![u] = [AtRest EXCEPT !.op = op, !.at = at, !.id = ops + 1,
                                         !.now = clock, !.ttl = ttl, !.gone = removed]]
  BY <1>1
<1>3. ttl \in Nat
  <2>1. TTLs \subseteq Nat
    BY CacheAssumption
  <2>2. ttl \in TTLs \/ ttl = 0
    BY <1>2
  <2> QED BY <2>1, <2>2
<1>4. ops' = ops + 1 /\ UNCHANGED <<clock, entries, removed>>
  BY DEF BeginCall
<1> DEFINE c == [AtRest EXCEPT !.op = op, !.at = at, !.id = ops + 1,
                               !.now = clock, !.ttl = ttl, !.gone = removed]
<1>5. /\ c \in UserCalls
      /\ c.op = op /\ c.at = at /\ c.id = ops + 1 /\ c.gone = removed /\ c.found = NoEntry /\ c.todo = <<>>
      /\ op # "none" /\ op # "report"
  <2>1. removed \in SUBSET Nat /\ clock \in Nat /\ ops + 1 \in Nat
    BY DEF CacheInv, CacheTypeOK, PlacesOK
  <2>2. AtRest \in UserCalls /\ AtRest.found = NoEntry /\ AtRest.todo = <<>>
    BY DEF AtRest, UserCalls, Reports
  <2>4. c \in UserCalls
    BY <1>3, <2>1, <2>2 DEF UserCalls
  <2>5. /\ c.op = op /\ c.at = at /\ c.id = ops + 1 /\ c.gone = removed /\ c.found = NoEntry
        /\ c.todo = <<>>
    BY <2>2 DEF UserCalls
  <2>3. op # "none" /\ op # "report"
    BY DEF Operations
  <2> HIDE DEF c
  <2> QED BY <2>3, <2>4, <2>5
<1> HIDE DEF c
<1>6. user'[u] = c /\ \A v \in Users \ {u} : user'[v] = user[v]
  BY <1>2, <1>3, <1>4 DEF c, CacheInv, CacheTypeOK
<1>7. CacheTypeOK'
  <2>1. user' \in [Users -> UserCalls]
    BY <1>2, <1>3, <1>4, <1>5 DEF c, CacheInv, CacheTypeOK
  <2>2. \A v \in Users : user'[v].op # "none" => user'[v].at \in Scopes \X Keys
    BY <1>5, <1>6 DEF CacheInv, CacheTypeOK
  <2>3. \A v \in Users : user'[v].op = "report" <=> user'[v].todo # <<>>
    BY <1>5, <1>6 DEF CacheInv, CacheTypeOK
  <2> QED BY <1>2, <1>3, <1>4, <2>1, <2>2, <2>3 DEF CacheInv, CacheTypeOK
<1>8. ops \in Nat /\ ops' = ops + 1 /\ entries' = entries /\ removed' = removed
  BY <1>2, <1>3, <1>4 DEF CacheInv, CacheTypeOK
<1>9. PlacesOK'
  <2>1. \A a \in Scopes \X Keys : entries[a] # NoEntry => entries[a].id \in Nat
    BY DEF CacheInv, CacheTypeOK, Entries
  <2>2. \A v \in Users : user[v].id \in Nat
    BY DEF CacheInv, CacheTypeOK, UserCalls
  <2>3. removed' \subseteq 0 .. ops'
    BY <1>8 DEF CacheInv, PlacesOK
  <2>4. \A a \in Scopes \X Keys : entries'[a] # NoEntry => entries'[a].id <= ops' /\ entries'[a].id \notin removed'
    BY <1>8, <2>1 DEF CacheInv, PlacesOK
  <2>5. \A v \in Users : user'[v].gone \subseteq removed'
    BY <1>5, <1>6, <1>8 DEF CacheInv, PlacesOK
  <2>6. \A v \in Users : user'[v].op = "put" => user'[v].id <= ops' /\ user'[v].id \notin removed'
    BY <1>5, <1>6, <1>8, <2>2 DEF CacheInv, PlacesOK
  <2>7. \A v \in Users, a \in Scopes \X Keys :
       user'[v].op = "put" /\ entries'[a] # NoEntry => entries'[a].id # user'[v].id
    BY <1>5, <1>6, <1>8, <2>1 DEF CacheInv, PlacesOK
  <2>8. \A v, w \in Users : user'[v].op = "put" /\ user'[w].op = "put" /\ user'[v].id = user'[w].id => v = w
    BY <1>5, <1>6, <1>8, <2>2 DEF CacheInv, PlacesOK
  <2> QED BY <1>8, <2>3, <2>4, <2>5, <2>6, <2>7, <2>8 DEF CacheInv, PlacesOK
<1>10. ServedIsCurrent'
  BY <1>5, <1>6 DEF CacheInv, ServedIsCurrent
<1> QED BY <1>7, <1>9, <1>10 DEF CacheInv

(* An operation under the lock: it removes what is at the places R, and puts at  *)
(* most its own entry in one of them; what it finds it finds in the map, and   *)
(* not expired.                                                              *)
Writes(u, R, at, new) ==
  /\ at \in Scopes \X Keys /\ R \subseteq Scopes \X Keys /\ new \in Entries \cup {NoEntry}
  /\ entries' = [a \in Scopes \X Keys |->
                   IF a = at THEN new ELSE IF a \in R THEN NoEntry ELSE entries[a]]
  /\ \A i : i \in removed' <=> i \in removed \/ \E a \in R : entries[a] # NoEntry /\ i = entries[a].id
  /\ \/ new = entries[at] /\ at \notin R
     \/ new = NoEntry /\ at \in R
     \/ at \in R /\ user[u].op = "put" /\ new.id = user[u].id
Finds(u, what) ==
  /\ what \in Entries \cup {NoEntry}
  /\ what # NoEntry =>
       /\ \E a \in Scopes \X Keys : what = entries[a]
       /\ what.expires # 0 => user[u].now < what.expires

(* What the four operations have in common under the lock: each moves the      *)
(* numbers it writes or takes out, and finds nothing that is gone or expired.  *)
LEMMA UnderLockKeeps ==
  ASSUME CacheInv, NEW u \in Users, user[u].op \in Operations, UNCHANGED <<clock, ops>>,
         NEW what, NEW events \in Reports, Answer(u, what, events), Finds(u, what),
         NEW R, NEW new, NEW at, Writes(u, R, at, new)
  PROVE  CacheInv'
<1>1. /\ user' = [user EXCEPT ![u] = IF events = <<>> THEN AtRest
                              ELSE [@ EXCEPT !.op = "report", !.found = what, !.todo = events]]
  BY DEF Answer
<1> DEFINE c == user'[u]
<1>2. \A v \in Users \ {u} : user'[v] = user[v]
  BY <1>1 DEF CacheInv, CacheTypeOK
<1>3. /\ c \in UserCalls /\ (c.op # "none" => c.at \in Scopes \X Keys)
      /\ c.op = "report" <=> c.todo # <<>>
      /\ c.op # "put" /\ c.gone \subseteq user[u].gone /\ c.found \in {NoEntry, what}
      /\ c.found = what /\ what # NoEntry => c.now = user[u].now
  <2>1. user[u] \in UserCalls /\ user[u].at \in Scopes \X Keys /\ what \in Entries \cup {NoEntry}
    BY DEF Finds, CacheInv, CacheTypeOK, Operations
  <2>2. CASE events = <<>>
    <3>1. c = AtRest
      BY <1>1, <2>2 DEF CacheInv, CacheTypeOK
    <3> HIDE DEF c
    <3> QED BY <3>1 DEF AtRest, UserCalls, Reports
  <2>3. CASE events # <<>>
    <3>1. c = [user[u] EXCEPT !.op = "report", !.found = what, !.todo = events]
      BY <1>1, <2>3 DEF CacheInv, CacheTypeOK
    <3> HIDE DEF c
    <3>2. /\ c.op = "report" /\ c.found = what /\ c.todo = events /\ c.gone = user[u].gone
          /\ c.now = user[u].now /\ c.at = user[u].at /\ c \in UserCalls
      BY <2>1, <3>1 DEF UserCalls
    <3> QED BY <2>1, <2>3, <3>2
  <2> QED BY <2>2, <2>3
<1>4. user' \in [Users -> UserCalls]
  <2>1. user \in [Users -> UserCalls]
    BY DEF CacheInv, CacheTypeOK
  <2>2. user' = [user EXCEPT ![u] = c]
    BY <1>1, <2>1
  <2> HIDE DEF c
  <2> QED BY <1>3, <2>1, <2>2
<1>5. /\ \A a \in Scopes \X Keys : entries'[a] = IF a = at THEN new ELSE IF a \in R THEN NoEntry ELSE entries[a]
      /\ entries' \in [Scopes \X Keys -> Entries \cup {NoEntry}]
  BY DEF CacheInv, CacheTypeOK, Writes
<1>6. \A i : i \in removed' <=> i \in removed \/ \E a \in R : entries[a] # NoEntry /\ i = entries[a].id
  BY DEF Writes
<1>7. ops' = ops /\ clock' = clock /\ ops \in Nat /\ clock \in Nat /\ R \subseteq Scopes \X Keys
  BY DEF CacheInv, CacheTypeOK, Writes
<1> HIDE DEF c
<1>8. CacheTypeOK'
  <2>1. \A v \in Users : user'[v].op # "none" => user'[v].at \in Scopes \X Keys
    BY <1>2, <1>3 DEF c, CacheInv, CacheTypeOK
  <2>2. \A v \in Users : user'[v].op = "report" <=> user'[v].todo # <<>>
    BY <1>2, <1>3 DEF c, CacheInv, CacheTypeOK
  <2> QED BY <1>4, <1>5, <1>7, <2>1, <2>2 DEF CacheTypeOK
<1>9. PlacesOK'
  <2>1. \A a \in Scopes \X Keys : entries[a] # NoEntry => entries[a].id \in Nat
    BY DEF CacheInv, CacheTypeOK, Entries
  <2>2. user[u].id \in Nat
    BY DEF CacheInv, CacheTypeOK, UserCalls
  <2>3. PlacesOK
    BY DEF CacheInv
  <2>4. removed' \subseteq 0 .. ops'
    <3>1. ASSUME NEW a \in R, entries[a] # NoEntry PROVE entries[a].id \in 0 .. ops
      BY <1>7, <2>1, <2>3, <3>1 DEF PlacesOK
    <3>2. ASSUME NEW i \in removed' PROVE i \in 0 .. ops
      <4>1. i \in removed \/ \E a \in R : entries[a] # NoEntry /\ i = entries[a].id
        BY <1>6, <3>2
      <4>2. removed \subseteq 0 .. ops
        BY <2>3 DEF PlacesOK
      <4> QED BY <3>1, <4>1, <4>2
    <3> QED BY <1>7, <3>2
  <2>5. ASSUME NEW a \in Scopes \X Keys, entries'[a] # NoEntry
        PROVE  \/ a \notin R /\ entries[a] = entries'[a]
               \/ a = at /\ user[u].op = "put" /\ entries'[a].id = user[u].id
    BY <1>5, <2>5 DEF Writes
  <2>6. \A a \in Scopes \X Keys : entries'[a] # NoEntry => entries'[a].id <= ops' /\ entries'[a].id \notin removed'
    <3> SUFFICES ASSUME NEW a \in Scopes \X Keys, entries'[a] # NoEntry
                 PROVE  entries'[a].id <= ops /\ entries'[a].id \notin removed'
      BY <1>7
    <3>1. CASE a \notin R /\ entries[a] = entries'[a]
      <4>1. \A b \in R : entries[b] # NoEntry => entries[b].id # entries[a].id
        BY <1>7, <2>3, <3>1 DEF PlacesOK
      <4> QED BY <1>6, <2>3, <3>1, <4>1 DEF PlacesOK
    <3>2. CASE a = at /\ user[u].op = "put" /\ entries'[a].id = user[u].id
      BY <1>6, <1>7, <2>3, <3>2 DEF PlacesOK
    <3> QED BY <2>5, <3>1, <3>2
  <2>7. \A a, b \in Scopes \X Keys :
       entries'[a] # NoEntry /\ entries'[b] # NoEntry /\ entries'[a].id = entries'[b].id => a = b
    BY <2>3, <2>5 DEF PlacesOK
  <2>8. \A v \in Users : user'[v].gone \subseteq removed'
    BY <1>2, <1>3, <1>6, <2>3 DEF PlacesOK, c
  <2>9. \A v \in Users : user'[v].op = "put" => v # u /\ user[v].op = "put" /\ user'[v] = user[v]
    BY <1>2, <1>3 DEF c
  <2>10. \A v \in Users : user'[v].op = "put" => user'[v].id <= ops' /\ user'[v].id \notin removed'
    BY <1>6, <1>7, <2>3, <2>9 DEF PlacesOK
  <2>11. \A v \in Users, a \in Scopes \X Keys :
       user'[v].op = "put" /\ entries'[a] # NoEntry => entries'[a].id # user'[v].id
    BY <2>3, <2>5, <2>9 DEF PlacesOK
  <2>12. \A v, w \in Users : user'[v].op = "put" /\ user'[w].op = "put" /\ user'[v].id = user'[w].id => v = w
    BY <2>3, <2>9 DEF PlacesOK
  <2> QED BY <2>4, <2>6, <2>7, <2>8, <2>10, <2>11, <2>12 DEF PlacesOK
<1>10. ServedIsCurrent'
  <2>1. ASSUME NEW v \in Users, v # u, user'[v].found # NoEntry
        PROVE  /\ user'[v].found.id \notin user'[v].gone
               /\ user'[v].found.expires # 0 => user'[v].now < user'[v].found.expires
    BY <1>2, <2>1 DEF CacheInv, ServedIsCurrent
  <2>2. ASSUME user'[u].found # NoEntry
        PROVE  /\ user'[u].found.id \notin user'[u].gone
               /\ user'[u].found.expires # 0 => user'[u].now < user'[u].found.expires
    <3>1. c.found = what /\ what # NoEntry /\ c.now = user[u].now /\ c.gone \subseteq removed
      BY <1>3, <2>2 DEF c, CacheInv, PlacesOK
    <3>2. what.id \notin removed /\ (what.expires # 0 => user[u].now < what.expires)
      BY <3>1 DEF Finds, CacheInv, PlacesOK
    <3> QED BY <3>1, <3>2 DEF c
  <2> QED BY <2>1, <2>2 DEF ServedIsCurrent
<1> QED BY <1>8, <1>9, <1>10 DEF CacheInv

(* The three ways to write: nothing, one place, and places that become empty. *)
LEMMA WritesNothing ==
  ASSUME CacheTypeOK, NEW u, NEW at \in Scopes \X Keys, UNCHANGED <<entries, removed>>
  PROVE  Writes(u, {}, at, entries[at])
BY DEF CacheTypeOK, Writes

(* An operation that writes one entry removes the number that was there.       *)
LEMMA WritesOne ==
  ASSUME CacheTypeOK, NEW u, NEW at \in Scopes \X Keys, NEW new \in Entries \cup {NoEntry},
         entries' = [entries EXCEPT ![at] = new], removed' = removed \cup IdOf(entries[at]),
         new = NoEntry \/ (user[u].op = "put" /\ new.id = user[u].id)
  PROVE  Writes(u, {at}, at, new)
BY DEF CacheTypeOK, Writes, IdOf

(* Get finds what is in the map and had not expired when it was called.        *)
LEMMA GetKeeps ==
  ASSUME CacheInv, NEW u \in Users, Get(u), UNCHANGED <<clock, ops>>
  PROVE  CacheInv'
<1> DEFINE e == entries[user[u].at]
           over == Expired(e, user[u].now)
           hit == e # NoEntry /\ ~over /\ user[u].at[1] \in Serving
<1>1. /\ user[u].op = "get" /\ user[u].op \in Operations
      /\ entries' = IF over THEN [entries EXCEPT ![user[u].at] = NoEntry] ELSE entries
      /\ removed' = IF over THEN removed \cup IdOf(e) ELSE removed
      /\ Answer(u, IF hit THEN e ELSE NoEntry, IF hit THEN <<"hit", "restore">> ELSE <<"miss">>)
  BY DEF Get, Operations
<1>2. /\ user[u].at \in Scopes \X Keys /\ user[u].now \in Nat
      /\ entries \in [Scopes \X Keys -> Entries \cup {NoEntry}]
  BY <1>1 DEF CacheInv, CacheTypeOK, UserCalls
<1>3. PICK at \in Scopes \X Keys : at = user[u].at
  BY <1>2
<1>4. e \in Entries \cup {NoEntry} /\ (hit => e \in Entries /\ (e.expires # 0 => user[u].now < e.expires))
  BY <1>2 DEF Expired, Entries
<1>5. /\ (IF hit THEN <<"hit", "restore">> ELSE <<"miss">>) \in Reports
      /\ (IF hit THEN e ELSE NoEntry) \in Entries \cup {NoEntry}
  BY <1>4 DEF Reports
<1>6. e = entries[at]
  BY <1>3
<1> HIDE DEF e, hit, over
<1>7. PICK what \in Entries \cup {NoEntry}, events \in Reports :
        Answer(u, what, events) /\ what = IF hit THEN e ELSE NoEntry
  BY <1>1, <1>5
<1>8. Finds(u, what)
  BY <1>4, <1>6, <1>7 DEF Finds
<1>9. CASE over
  <2>1. Writes(u, {at}, at, NoEntry)
    BY <1>1, <1>3, <1>6, <1>9, WritesOne DEF CacheInv
  <2> QED BY <1>1, <1>7, <1>8, <2>1, UnderLockKeeps
<1>10. CASE ~over
  <2>1. Writes(u, {}, at, entries[at])
    BY <1>1, <1>10, WritesNothing DEF CacheInv
  <2> QED BY <1>1, <1>7, <1>8, <2>1, UnderLockKeeps
<1> QED BY <1>9, <1>10

(* Put puts its own number, which is nowhere else, in the place of the old one. *)
LEMMA PutKeeps ==
  ASSUME CacheInv, NEW u \in Users, Put(u), UNCHANGED <<clock, ops>>
  PROVE  CacheInv'
<1> DEFINE e == [id |-> user[u].id, expires |-> IF user[u].ttl = 0 THEN 0 ELSE user[u].now + user[u].ttl]
<1>1. user[u].op = "put" /\ user[u].op \in Operations
  BY DEF Put, Operations
<1>2. user[u].at \in Scopes \X Keys /\ e \in Entries
  BY <1>1 DEF CacheInv, CacheTypeOK, UserCalls, Entries
<1>3. PICK at \in Scopes \X Keys, new \in Entries : at = user[u].at /\ new = e
  BY <1>2
<1>4. \/ /\ UNCHANGED <<entries, removed>>
         /\ Answer(u, NoEntry, <<>>) \/ Answer(u, NoEntry, <<"save">>)
      \/ /\ entries' = [entries EXCEPT ![at] = new] /\ removed' = removed \cup IdOf(entries[at])
         /\ Answer(u, NoEntry, <<"save">>)
  BY <1>3 DEF Put
<1>5. new.id = user[u].id
  BY <1>3
<1>6. <<"save">> \in Reports /\ <<>> \in Reports /\ Finds(u, NoEntry)
  BY DEF Reports, Finds
<1> HIDE DEF e
<1>7. CASE UNCHANGED <<entries, removed>>
  <2>1. Writes(u, {}, at, entries[at])
    BY <1>7, WritesNothing DEF CacheInv
  <2>2. Answer(u, NoEntry, <<>>) \/ Answer(u, NoEntry, <<"save">>)
    BY <1>4
  <2> QED BY <1>1, <1>6, <2>1, <2>2, UnderLockKeeps
<1>8. CASE /\ entries' = [entries EXCEPT ![at] = new] /\ removed' = removed \cup IdOf(entries[at])
           /\ Answer(u, NoEntry, <<"save">>)
  <2>1. Writes(u, {at}, at, new)
    BY <1>1, <1>5, <1>8, WritesOne DEF CacheInv
  <2> QED BY <1>1, <1>6, <1>8, <2>1, UnderLockKeeps
<1> QED BY <1>4, <1>7, <1>8

(* Delete and InvalidateAll only take numbers out.                            *)
LEMMA RemovalKeeps ==
  ASSUME CacheInv, NEW u \in Users, Delete(u) \/ InvalidateAll(u), UNCHANGED <<clock, ops>>
  PROVE  CacheInv'
<1>1. user[u].op \in Operations
  BY DEF Delete, InvalidateAll, Operations
<1>2. user[u].at \in Scopes \X Keys
  BY <1>1 DEF CacheInv, CacheTypeOK, Operations
<1>3. PICK at \in Scopes \X Keys : at = user[u].at
  BY <1>2
<1>4. Finds(u, NoEntry) /\ <<"invalidation">> \in Reports /\ <<>> \in Reports
  BY DEF Reports, Finds
<1>5. CASE Delete(u)
  <2>1. Writes(u, {at}, at, NoEntry)
    BY <1>3, <1>5, WritesOne DEF Delete, CacheInv
  <2>2. Answer(u, NoEntry, <<"invalidation">>)
    BY <1>5 DEF Delete
  <2> QED BY <1>1, <1>4, <2>1, <2>2, UnderLockKeeps
<1>6. CASE InvalidateAll(u)
  <2> DEFINE R == {a \in Scopes \X Keys : a[1] = at[1]}
  <2>1. entries' = [a \in Scopes \X Keys |-> IF a = at THEN NoEntry ELSE IF a \in R THEN NoEntry ELSE entries[a]]
    BY <1>3, <1>6 DEF InvalidateAll
  <2>2. removed' = removed \cup UNION {IdOf(entries[<<at[1], k>>]) : k \in Keys}
    BY <1>3, <1>6 DEF InvalidateAll
  <2>3. \A k \in Keys : <<at[1], k>> \in R
    OBVIOUS
  <2>4. \A a \in R : a[2] \in Keys /\ a = <<at[1], a[2]>>
    OBVIOUS
  <2>5. at \in R /\ R \subseteq Scopes \X Keys
    OBVIOUS
  <2> HIDE DEF R
  <2>6. ASSUME NEW i PROVE i \in removed' <=> i \in removed \/ \E a \in R : entries[a] # NoEntry /\ i = entries[a].id
    <3>1. i \in removed' <=> i \in removed \/ \E k \in Keys : i \in IdOf(entries[<<at[1], k>>])
      BY <2>2
    <3>2. (\E k \in Keys : i \in IdOf(entries[<<at[1], k>>])) <=> \E a \in R : i \in IdOf(entries[a])
      BY <2>3, <2>4
    <3> QED BY <3>1, <3>2 DEF IdOf
  <2>7. Writes(u, R, at, NoEntry)
    BY <2>1, <2>5, <2>6 DEF Writes
  <2>8. Answer(u, NoEntry, <<>>)
    BY <1>6 DEF InvalidateAll
  <2> QED BY <1>1, <1>4, <2>7, <2>8, UnderLockKeeps
<1> QED BY <1>5, <1>6

(* A report leaves what was served as it is. *)
LEMMA EmitKeeps ==
  ASSUME CacheInv, NEW u \in Users, EmitNext(u)
  PROVE  CacheInv'
<1>1. /\ user' = [user EXCEPT ![u] = IF Len(@.todo) = 1 THEN AtRest ELSE [@ EXCEPT !.todo = Tail(user[u].todo)]]
      /\ user[u].op = "report" /\ UNCHANGED <<clock, entries, ops, removed>>
  BY DEF EmitNext
<1> DEFINE c == user'[u]
<1>2. user[u] \in UserCalls /\ user[u].todo # <<>> /\ \A v \in Users \ {u} : user'[v] = user[v]
  BY <1>1 DEF CacheInv, CacheTypeOK
<1>3. /\ c \in UserCalls /\ (c.op # "none" => c.at \in Scopes \X Keys)
      /\ c.op = "report" <=> c.todo # <<>>
      /\ c.op # "put" /\ c.gone \subseteq user[u].gone
      /\ c.found # NoEntry => c.found = user[u].found /\ c.gone = user[u].gone /\ c.now = user[u].now
  <2>1. CASE Len(user[u].todo) = 1
    <3>1. c = AtRest
      BY <1>1, <2>1 DEF CacheInv, CacheTypeOK
    <3> HIDE DEF c
    <3> QED BY <3>1 DEF AtRest, UserCalls, Reports
  <2>2. CASE Len(user[u].todo) # 1
    <3>1. c = [user[u] EXCEPT !.todo = Tail(user[u].todo)]
      BY <1>1, <2>2 DEF CacheInv, CacheTypeOK
    <3> HIDE DEF c
    <3>2. user[u].todo = <<"hit", "restore">>
      <4>1. user[u].todo \in Reports
        BY <1>2 DEF UserCalls
      <4> QED BY <1>2, <2>2, <4>1 DEF Reports
    <3>3. Tail(user[u].todo) = <<"restore">>
      BY <3>2
    <3>4. /\ c.op = "report" /\ c.found = user[u].found /\ c.todo = <<"restore">> /\ c.gone = user[u].gone
          /\ c.now = user[u].now /\ c.at = user[u].at /\ c \in UserCalls
      BY <1>1, <1>2, <3>1, <3>3 DEF UserCalls, Reports
    <3>5. user[u].at \in Scopes \X Keys
      BY <1>1 DEF CacheInv, CacheTypeOK
    <3> QED BY <3>4, <3>5
  <2> QED BY <2>1, <2>2
<1>4. user' \in [Users -> UserCalls]
  <2>1. user \in [Users -> UserCalls]
    BY DEF CacheInv, CacheTypeOK
  <2>2. user' = [user EXCEPT ![u] = c]
    BY <1>1, <2>1
  <2> HIDE DEF c
  <2> QED BY <1>3, <2>1, <2>2
<1> HIDE DEF c
<1>5. CacheTypeOK'
  <2>1. \A v \in Users : user'[v].op # "none" => user'[v].at \in Scopes \X Keys
    BY <1>2, <1>3 DEF c, CacheInv, CacheTypeOK
  <2>2. \A v \in Users : user'[v].op = "report" <=> user'[v].todo # <<>>
    BY <1>2, <1>3 DEF c, CacheInv, CacheTypeOK
  <2> QED BY <1>1, <1>4, <2>1, <2>2 DEF CacheInv, CacheTypeOK
<1>6. PlacesOK'
  <2>1. \A v \in Users : user'[v].op = "put" => user[v].op = "put" /\ user'[v] = user[v]
    BY <1>2, <1>3 DEF c
  <2>2. \A v \in Users : user'[v].gone \subseteq removed'
    BY <1>1, <1>2, <1>3 DEF PlacesOK, CacheInv, c
  <2> QED BY <1>1, <2>1, <2>2 DEF PlacesOK, CacheInv
<1>7. ServedIsCurrent'
  BY <1>2, <1>3 DEF CacheInv, ServedIsCurrent, c
<1> QED BY <1>5, <1>6, <1>7 DEF CacheInv

(* The invariant of the calls and the entries. *)
LEMMA CacheInvHolds == CacheSpec => []CacheInv
<1>1. CacheInit => CacheInv
  <2> SUFFICES ASSUME CacheInit PROVE CacheInv
    OBVIOUS
  <2>1. user = [u \in Users |-> AtRest] /\ AtRest \in UserCalls /\ AtRest.op = "none"
        /\ AtRest.todo = <<>> /\ AtRest.gone = {} /\ AtRest.found = NoEntry
    BY DEF CacheInit, AtRest, UserCalls, Reports
  <2> QED BY <2>1 DEF CacheInit, CacheInv, CacheTypeOK, PlacesOK, ServedIsCurrent
<1>2. CacheInv /\ [CacheStep]_cacheVars => CacheInv'
  <2> SUFFICES ASSUME CacheInv, [CacheStep]_cacheVars PROVE CacheInv'
    OBVIOUS
  <2>1. CASE UNCHANGED <<entries, user, ops, removed>> /\ clock' \in Nat
    BY <2>1 DEF CacheInv, CacheTypeOK, PlacesOK, ServedIsCurrent
  <2>2. CASE TickClock
    BY <2>1, <2>2 DEF TickClock, CacheInv, CacheTypeOK
  <2>3. ASSUME NEW u \in Users, BeginCall(u) \/ UnderLock(u) \/ EmitNext(u) PROVE CacheInv'
    BY <2>3, BeginCallKeeps, GetKeeps, PutKeeps, RemovalKeeps, EmitKeeps DEF UnderLock
  <2>4. CASE UNCHANGED cacheVars
    BY <2>1, <2>4 DEF cacheVars, CacheInv, CacheTypeOK
  <2> QED BY <2>2, <2>3, <2>4 DEF CacheStep
<1> QED BY <1>1, <1>2, PTL DEF CacheSpec

(* What a Get returns had not expired, and had not been deleted, invalidated or *)
(* replaced, when the Get was called: however the lock is passed on.           *)
THEOREM ServedHolds == CacheSpec => []ServedIsCurrent
<1>1. CacheInv => ServedIsCurrent
  BY DEF CacheInv
<1> QED BY <1>1, CacheInvHolds, PTL

-----------------------------------------------------------------------------
(* The summaries. *)

Events == {"hit", "miss", "save", "restore", "invalidation"}
Summaries == [requests : Nat, hits : Nat, misses : Nat, saves : Nat, restores : Nat, invalidations : Nat]
CountsOf == [s \in DOMAIN summaries |-> Counts(summaries[s])]

(* The summaries are of known scopes and add up; a user that has reported a hit *)
(* and not yet the restore either counts for the summary of its scope, or the *)
(* collector has no room for that scope, and will not have it.            *)
SummariesInv ==
  /\ DOMAIN summaries \subseteq Scopes /\ IsFiniteSet(DOMAIN summaries)
  /\ Cardinality(DOMAIN summaries) <= MaxScopes
  /\ unknown \in Nat /\ emitted \in Nat
  /\ \A s \in Scopes : IsFiniteSet(Restoring(s))
  /\ \A s \in DOMAIN summaries :
       /\ summaries[s] \in Summaries
       /\ summaries[s].requests = summaries[s].hits + summaries[s].misses
       /\ summaries[s].hits = summaries[s].restores + Cardinality(Restoring(s))
  /\ \A s \in Scopes \ DOMAIN summaries : Restoring(s) # {} => Cardinality(DOMAIN summaries) >= MaxScopes
  /\ Total(CountsOf) + unknown = emitted

(* An event is counted once. *)
LEMMA CountedOnce ==
  ASSUME NEW s \in Summaries, NEW event \in Events
  PROVE  /\ Counted(s, event) \in Summaries
         /\ Counts(Counted(s, event)) = Counts(s) + 1 /\ Counts(s) \in Nat
         /\ s.requests = s.hits + s.misses =>
              Counted(s, event).requests = Counted(s, event).hits + Counted(s, event).misses
         /\ Counted(s, event).hits = IF event = "hit" THEN s.hits + 1 ELSE s.hits
         /\ Counted(s, event).restores = IF event = "restore" THEN s.restores + 1 ELSE s.restores
<1>1. CASE event = "hit"
  <2>1. Counted(s, event) = [[s EXCEPT !.requests = s.requests + 1] EXCEPT !.hits = s.hits + 1]
    BY <1>1 DEF Counted, Summaries
  <2>2. Counted(s, event) = [requests |-> Counted(s, event).requests, hits |-> Counted(s, event).hits, misses |-> Counted(s, event).misses,
                             saves |-> s.saves, restores |-> s.restores, invalidations |-> s.invalidations]
    BY <2>1 DEF Summaries
  <2>3. /\ Counted(s, event).requests = s.requests + 1 /\ Counted(s, event).hits = s.hits + 1
        /\ Counted(s, event).misses = s.misses /\ Counted(s, event).saves = s.saves
        /\ Counted(s, event).restores = s.restores /\ Counted(s, event).invalidations = s.invalidations
    BY <2>1 DEF Summaries
  <2>4. s.requests \in Nat /\ s.hits \in Nat /\ s.misses \in Nat /\ s.saves \in Nat /\ s.restores \in Nat
        /\ s.invalidations \in Nat
    BY DEF Summaries
  <2>5. Counted(s, event) \in Summaries
    BY <2>2, <2>3, <2>4 DEF Summaries
  <2> QED BY <1>1, <2>3, <2>4, <2>5 DEF Counts
<1>2. CASE event = "miss"
  <2>1. Counted(s, event) = [[s EXCEPT !.requests = s.requests + 1] EXCEPT !.misses = s.misses + 1]
    BY <1>2 DEF Counted, Summaries
  <2>2. Counted(s, event) = [requests |-> Counted(s, event).requests, hits |-> Counted(s, event).hits, misses |-> Counted(s, event).misses,
                             saves |-> s.saves, restores |-> s.restores, invalidations |-> s.invalidations]
    BY <2>1 DEF Summaries
  <2>3. /\ Counted(s, event).requests = s.requests + 1 /\ Counted(s, event).misses = s.misses + 1
        /\ Counted(s, event).hits = s.hits /\ Counted(s, event).saves = s.saves
        /\ Counted(s, event).restores = s.restores /\ Counted(s, event).invalidations = s.invalidations
    BY <2>1 DEF Summaries
  <2>4. s.requests \in Nat /\ s.hits \in Nat /\ s.misses \in Nat /\ s.saves \in Nat /\ s.restores \in Nat
        /\ s.invalidations \in Nat
    BY DEF Summaries
  <2>5. Counted(s, event) \in Summaries
    BY <2>2, <2>3, <2>4 DEF Summaries
  <2> QED BY <1>2, <2>3, <2>4, <2>5 DEF Counts
<1>3. CASE event = "save"
  BY <1>3 DEF Counted, Counts, Summaries
<1>4. CASE event = "restore"
  BY <1>4 DEF Counted, Counts, Summaries
<1>5. CASE event = "invalidation"
  BY <1>5 DEF Counted, Counts, Summaries
<1> QED BY <1>1, <1>2, <1>3, <1>4, <1>5 DEF Events

(* What a report does to the hits that wait for their restore. *)
LEMMA EmitRestores ==
  ASSUME CacheInv, SummariesInv, NEW u \in Users, EmitNext(u), NEW sc, sc = user[u].at[1]
  PROVE  /\ sc \in Scopes /\ Head(user[u].todo) \in Events
         /\ \A s \in Scopes \ {sc} : Restoring(s)' = Restoring(s)
         /\ IsFiniteSet(Restoring(sc)') /\ Cardinality(Restoring(sc)) \in Nat
         /\ Head(user[u].todo) = "hit" =>
              Cardinality(Restoring(sc)') = Cardinality(Restoring(sc)) + 1
         /\ Head(user[u].todo) = "restore" =>
              /\ Restoring(sc) # {}
              /\ Cardinality(Restoring(sc)') = Cardinality(Restoring(sc)) - 1
         /\ Head(user[u].todo) \notin {"hit", "restore"} => Restoring(sc)' = Restoring(sc)
<1> DEFINE c == user'[u]
<1>1. /\ user' = [user EXCEPT ![u] = IF Len(@.todo) = 1 THEN AtRest ELSE [@ EXCEPT !.todo = Tail(user[u].todo)]]
      /\ user[u].op = "report"
  BY DEF EmitNext
<1>2. user[u] \in UserCalls /\ user[u].todo # <<>> /\ user[u].at \in Scopes \X Keys
      /\ \A v \in Users \ {u} : user'[v] = user[v]
  BY <1>1 DEF CacheInv, CacheTypeOK
<1>3. sc \in Scopes /\ IsFiniteSet(Restoring(sc)) /\ Cardinality(Restoring(sc)) \in Nat
  BY <1>2, FS_CardinalityType DEF SummariesInv
<1>4. c = IF Len(user[u].todo) = 1 THEN AtRest ELSE [user[u] EXCEPT !.todo = Tail(user[u].todo)]
  BY <1>1 DEF CacheInv, CacheTypeOK
<1> HIDE DEF c
<1>5. user[u].todo \in Reports \ {<<>>}
  BY <1>2 DEF UserCalls
<1>6. ASSUME NEW s \in Scopes \ {sc} PROVE Restoring(s)' = Restoring(s)
  <2>1. c.op = "none" \/ c.at = user[u].at
    BY <1>2, <1>4 DEF AtRest, UserCalls
  <2>2. u \notin Restoring(s) /\ u \notin Restoring(s)'
    BY <2>1 DEF Restoring, c
  <2> QED BY <1>2, <2>2 DEF Restoring
<1>7. CASE user[u].todo = <<"hit", "restore">>
  <2>1. Len(user[u].todo) = 2 /\ Tail(user[u].todo) = <<"restore">> /\ Head(user[u].todo) = "hit"
    BY <1>7
  <2>2. c.todo = <<"restore">> /\ c.op = "report" /\ c.at = user[u].at
    BY <1>1, <1>2, <1>4, <2>1 DEF UserCalls
  <2>3. u \in Restoring(sc)' /\ u \notin Restoring(sc)
    BY <1>7, <2>2 DEF Restoring, c
  <2>4. Restoring(sc)' = Restoring(sc) \cup {u}
    BY <1>2, <2>3 DEF Restoring
  <2> QED BY <1>3, <1>6, <2>1, <2>3, <2>4, FS_AddElement DEF Events
<1>8. CASE user[u].todo = <<"restore">>
  <2>1. Len(user[u].todo) = 1 /\ Head(user[u].todo) = "restore"
    BY <1>8
  <2>2. c.op = "none"
    BY <1>4, <2>1 DEF AtRest
  <2>3. u \in Restoring(sc) /\ u \notin Restoring(sc)'
    BY <1>1, <1>8, <2>2 DEF Restoring, c
  <2>4. Restoring(sc)' = Restoring(sc) \ {u}
    BY <1>2, <2>3 DEF Restoring
  <2> QED BY <1>3, <1>6, <2>1, <2>3, <2>4, FS_RemoveElement DEF Events
<1>9. CASE user[u].todo \in {<<"miss">>, <<"save">>, <<"invalidation">>}
  <2>1. Len(user[u].todo) = 1 /\ Head(user[u].todo) \in {"miss", "save", "invalidation"}
        /\ user[u].todo # <<"restore">>
    BY <1>9
  <2>2. c.op = "none"
    BY <1>4, <2>1 DEF AtRest
  <2>3. u \notin Restoring(sc) /\ u \notin Restoring(sc)'
    BY <2>1, <2>2 DEF Restoring, c
  <2>4. Restoring(sc)' = Restoring(sc)
    BY <1>2, <2>3 DEF Restoring
  <2> QED BY <1>3, <1>6, <2>1, <2>4 DEF Events
<1> QED BY <1>5, <1>7, <1>8, <1>9 DEF Reports

(* A report is counted once, in the summary of its scope or as dropped. *)
LEMMA EmitAddsUp ==
  ASSUME CacheInv, SummariesInv, NEW u \in Users, EmitNext(u)
  PROVE  SummariesInv'
<1>1. PICK sc, event, old :
        /\ sc = user[u].at[1] /\ event = Head(user[u].todo)
        /\ old = IF sc \in DOMAIN summaries THEN summaries[sc] ELSE NoSummary
  OBVIOUS
<1>2. /\ emitted' = emitted + 1
      /\ IF Room(sc)
         THEN /\ summaries' = [s \in DOMAIN summaries \cup {sc} |->
                                IF s = sc THEN Counted(old, event) ELSE summaries[s]]
              /\ UNCHANGED unknown
         ELSE unknown' = unknown + 1 /\ UNCHANGED summaries
  BY <1>1 DEF EmitNext
<1>3. /\ sc \in Scopes /\ event \in Events
      /\ \A s \in Scopes \ {sc} : Restoring(s)' = Restoring(s)
      /\ IsFiniteSet(Restoring(sc)') /\ Cardinality(Restoring(sc)) \in Nat
      /\ event = "hit" => Cardinality(Restoring(sc)') = Cardinality(Restoring(sc)) + 1
      /\ event = "restore" => /\ Restoring(sc) # {}
                              /\ Cardinality(Restoring(sc)') = Cardinality(Restoring(sc)) - 1
      /\ event \notin {"hit", "restore"} => Restoring(sc)' = Restoring(sc)
  BY <1>1, EmitRestores
<1>4. \A s \in Scopes : IsFiniteSet(Restoring(s)')
  BY <1>3 DEF SummariesInv
<1>5. unknown \in Nat /\ emitted \in Nat /\ Cardinality(DOMAIN summaries) \in Nat /\ MaxScopes \in Nat
      /\ IsFiniteSet(DOMAIN summaries) /\ DOMAIN summaries \subseteq Scopes
  BY FS_CardinalityType, CacheAssumption DEF SummariesInv
<1>6. /\ \A s \in DOMAIN CountsOf : CountsOf[s] \in Int
      /\ DOMAIN CountsOf = DOMAIN summaries /\ Total(CountsOf) \in Int
      /\ Total(CountsOf) + unknown = emitted
  <2>1. \A s \in DOMAIN summaries : Counts(summaries[s]) \in Int
    BY DEF SummariesInv, Counts, Summaries
  <2>2. DOMAIN CountsOf = DOMAIN summaries /\ \A s \in DOMAIN summaries : CountsOf[s] \in Int
    BY <2>1 DEF CountsOf
  <2>3. Total(CountsOf) \in Int
    BY <1>5, <2>2, TotalType
  <2> QED BY <2>2, <2>3 DEF SummariesInv
<1>7. CASE ~Room(sc)
  <2>1. sc \notin DOMAIN summaries /\ Cardinality(DOMAIN summaries) >= MaxScopes
    BY <1>5, <1>7 DEF Room
  <2>2. summaries' = summaries /\ unknown' = unknown + 1
    BY <1>2, <1>7
  <2>3. CountsOf' = CountsOf
    BY <2>2 DEF CountsOf
  <2>4. \A s \in DOMAIN summaries : Restoring(s)' = Restoring(s)
    BY <1>3, <1>5, <2>1
  <2>5. Total(CountsOf') + unknown' = emitted'
    BY <1>2, <1>5, <1>6, <2>2, <2>3
  <2>6. \A s \in DOMAIN summaries : summaries[s].hits = summaries[s].restores + Cardinality(Restoring(s)')
    BY <2>4 DEF SummariesInv
  <2> QED BY <1>2, <1>4, <1>5, <2>1, <2>2, <2>5, <2>6 DEF SummariesInv
<1>8. CASE Room(sc)
  <2> DEFINE new == Counted(old, event)
  <2>1. summaries' = [s \in DOMAIN summaries \cup {sc} |-> IF s = sc THEN new ELSE summaries[s]]
        /\ unknown' = unknown
    BY <1>2, <1>8
  <2>2. sc \notin DOMAIN summaries => Cardinality(DOMAIN summaries) < MaxScopes /\ Restoring(sc) = {}
    BY <1>3, <1>5, <1>8 DEF Room, SummariesInv
  <2>3. old \in Summaries /\ old.requests = old.hits + old.misses
        /\ old.hits = old.restores + Cardinality(Restoring(sc))
    <3>1. CASE sc \in DOMAIN summaries
      BY <1>1, <3>1 DEF SummariesInv
    <3>2. CASE sc \notin DOMAIN summaries
      <4>1. Cardinality(Restoring(sc)) = 0
        BY <2>2, <3>2, FS_EmptySet
      <4> QED BY <1>1, <3>2, <4>1 DEF NoSummary, Summaries
    <3> QED BY <3>1, <3>2
  <2>4. /\ new \in Summaries /\ Counts(new) = Counts(old) + 1 /\ Counts(old) \in Nat
        /\ new.requests = new.hits + new.misses
        /\ new.hits = IF event = "hit" THEN old.hits + 1 ELSE old.hits
        /\ new.restores = IF event = "restore" THEN old.restores + 1 ELSE old.restores
    BY <1>3, <2>3, CountedOnce
  <2> HIDE DEF new
  <2>5. new.hits = new.restores + Cardinality(Restoring(sc)')
    <3>1. old.hits \in Nat /\ old.restores \in Nat
      BY <2>3 DEF Summaries
    <3>2. CASE event = "hit"
      BY <1>3, <2>3, <2>4, <3>1, <3>2
    <3>3. CASE event = "restore"
      BY <1>3, <2>3, <2>4, <3>1, <3>3
    <3>4. CASE event \notin {"hit", "restore"}
      BY <1>3, <2>3, <2>4, <3>1, <3>4
    <3> QED BY <3>2, <3>3, <3>4
  <2>6. /\ DOMAIN summaries' = DOMAIN summaries \cup {sc} /\ summaries'[sc] = new
        /\ \A s \in DOMAIN summaries \ {sc} : summaries'[s] = summaries[s]
    BY <2>1
  <2>7. IsFiniteSet(DOMAIN summaries') /\ Cardinality(DOMAIN summaries') <= MaxScopes
        /\ DOMAIN summaries' \subseteq Scopes /\ Cardinality(DOMAIN summaries) <= Cardinality(DOMAIN summaries')
    <3>1. CASE sc \in DOMAIN summaries
      <4>1. DOMAIN summaries' = DOMAIN summaries
        BY <2>6, <3>1
      <4> QED BY <1>5, <4>1 DEF SummariesInv
    <3>2. CASE sc \notin DOMAIN summaries
      <4>1. Cardinality(DOMAIN summaries) < MaxScopes
        BY <2>2, <3>2
      <4>2. IsFiniteSet(DOMAIN summaries \cup {sc})
            /\ Cardinality(DOMAIN summaries \cup {sc}) = Cardinality(DOMAIN summaries) + 1
        BY <1>5, <3>2, FS_AddElement
      <4>3. DOMAIN summaries \cup {sc} \subseteq Scopes
        BY <1>3, <1>5
      <4>4. IsFiniteSet(DOMAIN summaries') /\ DOMAIN summaries' \subseteq Scopes
            /\ Cardinality(DOMAIN summaries') = Cardinality(DOMAIN summaries) + 1
        BY <2>6, <4>2, <4>3
      <4> QED BY <1>5, <4>1, <4>4
    <3> QED BY <3>1, <3>2
  <2>8. ASSUME NEW s \in DOMAIN summaries'
        PROVE  /\ summaries'[s] \in Summaries
               /\ summaries'[s].requests = summaries'[s].hits + summaries'[s].misses
               /\ summaries'[s].hits = summaries'[s].restores + Cardinality(Restoring(s)')
    <3>1. CASE s = sc
      BY <2>4, <2>5, <2>6, <3>1
    <3>2. CASE s # sc
      <4>1. s \in DOMAIN summaries /\ summaries'[s] = summaries[s] /\ Restoring(s)' = Restoring(s)
        BY <1>3, <1>5, <2>6, <3>2
      <4> QED BY <4>1 DEF SummariesInv
    <3> QED BY <3>1, <3>2
  <2>9. ASSUME NEW s \in Scopes \ DOMAIN summaries', Restoring(s)' # {}
        PROVE  Cardinality(DOMAIN summaries') >= MaxScopes
    <3>1. s # sc /\ s \in Scopes \ DOMAIN summaries /\ Restoring(s) # {}
      BY <1>3, <2>6, <2>9
    <3>2. Cardinality(DOMAIN summaries) >= MaxScopes
      BY <3>1 DEF SummariesInv
    <3>3. Cardinality(DOMAIN summaries') \in Nat
      BY <2>7, FS_CardinalityType
    <3> QED BY <1>5, <2>7, <3>2, <3>3
  <2>10. Total(CountsOf') + unknown' = emitted'
    <3>1. DOMAIN CountsOf' = DOMAIN summaries \cup {sc} /\ CountsOf'[sc] = Counts(new)
          /\ \A s \in DOMAIN summaries \ {sc} : CountsOf'[s] = CountsOf[s]
      BY <2>6 DEF CountsOf
    <3>2. Counts(new) \in Int
      BY <2>4
    <3>3. CASE sc \in DOMAIN summaries
      <4>1. CountsOf[sc] = Counts(old)
        BY <1>1, <3>3 DEF CountsOf
      <4>2. DOMAIN CountsOf' = DOMAIN CountsOf
        BY <1>6, <3>1, <3>3
      <4>3. Total(CountsOf') = Total(CountsOf) - CountsOf[sc] + CountsOf'[sc]
        BY <1>5, <1>6, <3>1, <3>2, <3>3, <4>2, TotalWithOneChanged
      <4> QED BY <1>2, <1>5, <1>6, <2>1, <2>4, <3>1, <4>1, <4>3
    <3>4. CASE sc \notin DOMAIN summaries
      <4>1. Counts(old) = 0
        BY <1>1, <3>4 DEF NoSummary, Counts
      <4>2. Total(CountsOf') = Total(CountsOf) + CountsOf'[sc]
        BY <1>5, <1>6, <3>1, <3>2, <3>4, TotalWithOneMore
      <4> QED BY <1>2, <1>5, <1>6, <2>1, <2>4, <3>1, <4>1, <4>2
    <3> QED BY <3>3, <3>4
  <2>11. unknown' \in Nat /\ emitted' \in Nat
    BY <1>2, <1>5, <2>1
  <2>12. Total(CountsOf)' + unknown' = emitted'
    BY <2>10
  <2> QED
    <3> HIDE DEF CountsOf
    <3> QED BY <1>4, <2>6, <2>7, <2>8, <2>9, <2>11, <2>12 DEF SummariesInv
<1> QED BY <1>7, <1>8

(* No other step touches the summaries, nor the hits that wait. *)
LEMMA OthersAddUp ==
  ASSUME CacheInv, SummariesInv, UNCHANGED <<emitted, summaries, unknown>>,
         \A s \in Scopes : Restoring(s)' = Restoring(s)
  PROVE  SummariesInv'
<1>1. CountsOf' = CountsOf
  BY DEF CountsOf
<1>2. Total(CountsOf)' + unknown' = emitted'
  BY <1>1 DEF SummariesInv
<1>3. \A s \in DOMAIN summaries : s \in Scopes
  BY DEF SummariesInv
<1> HIDE DEF CountsOf
<1> QED BY <1>2, <1>3 DEF SummariesInv

(* An operation that begins or ends under the lock is not waiting for a restore. *)
LEMMA OthersDoNotWait ==
  ASSUME CacheInv, NEW u \in Users, BeginCall(u) \/ UnderLock(u)
  PROVE  \A s \in Scopes : Restoring(s)' = Restoring(s)
<1>1. user[u].op # "report"
  BY DEF BeginCall, UnderLock, Get, Put, Delete, InvalidateAll
<1>2. user \in [Users -> UserCalls] /\ \A v \in Users \ {u} : user'[v] = user[v]
  BY DEF CacheInv, CacheTypeOK, BeginCall, UnderLock, Get, Put, Delete, InvalidateAll, Answer
<1>3. user'[u].op # "report" \/ user'[u].todo # <<"restore">>
  <2>1. CASE BeginCall(u)
    <3>1. PICK op \in Operations, at \in Scopes \X Keys : \E ttl \in IF op = "put" THEN TTLs ELSE {0} :
            user' = [user EXCEPT ![u] = [AtRest EXCEPT !.op = op, !.at = at, !.id = ops + 1,
                                           !.now = clock, !.ttl = ttl, !.gone = removed]]
      BY <2>1 DEF BeginCall
    <3>2. user'[u].op = op
      BY <1>2, <3>1 DEF AtRest
    <3> QED BY <3>2 DEF Operations
  <2>2. CASE UnderLock(u)
    <3>1. PICK what, events : Answer(u, what, events)
            /\ events \in {<<>>, <<"hit", "restore">>, <<"miss">>, <<"save">>, <<"invalidation">>}
      BY <2>2 DEF UnderLock, Get, Put, Delete, InvalidateAll
    <3>2. events # <<"restore">>
      BY <3>1
    <3> QED BY <1>2, <3>1, <3>2 DEF Answer, AtRest, UserCalls
  <2> QED BY <2>1, <2>2
<1> QED BY <1>1, <1>2, <1>3 DEF Restoring

(* The invariant of the summaries, from that of the calls. *)
LEMMA SummariesInvHolds == CacheSpec => []SummariesInv
<1>1. CacheInit => SummariesInv
  <2> SUFFICES ASSUME CacheInit PROVE SummariesInv
    OBVIOUS
  <2>1. summaries = <<>> /\ DOMAIN summaries = {} /\ unknown = 0 /\ emitted = 0
    BY DEF CacheInit
  <2>2. \A s \in Scopes : Restoring(s) = {}
    BY DEF CacheInit, Restoring, AtRest
  <2>3. IsFiniteSet({}) /\ Cardinality({}) = 0 /\ MaxScopes \in Nat
    BY FS_EmptySet, CacheAssumption
  <2>4. Total(CountsOf) = 0
    <3>1. DOMAIN CountsOf = {}
      BY <2>1 DEF CountsOf
    <3> HIDE DEF CountsOf
    <3> QED BY <3>1, TotalOfNothing
  <2>5. IsFiniteSet(DOMAIN summaries) /\ Cardinality(DOMAIN summaries) <= MaxScopes /\ DOMAIN summaries \subseteq Scopes
    BY <2>1, <2>3
  <2>6. Total(CountsOf) + unknown = emitted /\ unknown \in Nat /\ emitted \in Nat
    BY <2>1, <2>4
  <2>7. \A s \in Scopes : IsFiniteSet(Restoring(s)) /\ Restoring(s) = {}
    BY <2>2, <2>3
  <2> HIDE DEF CountsOf
  <2> QED BY <2>1, <2>5, <2>6, <2>7 DEF SummariesInv
<1>2. CacheInv /\ SummariesInv /\ [CacheStep]_cacheVars => SummariesInv'
  <2> SUFFICES ASSUME CacheInv, SummariesInv, [CacheStep]_cacheVars PROVE SummariesInv'
    OBVIOUS
  <2>1. CASE UNCHANGED <<user, emitted, summaries, unknown>>
    <3>1. \A s \in Scopes : Restoring(s)' = Restoring(s)
      BY <2>1 DEF Restoring
    <3> QED BY <2>1, <3>1, OthersAddUp
  <2>2. ASSUME NEW u \in Users, BeginCall(u) \/ UnderLock(u) PROVE SummariesInv'
    <3>1. UNCHANGED <<emitted, summaries, unknown>>
      BY <2>2 DEF BeginCall, UnderLock
    <3> QED BY <2>2, <3>1, OthersDoNotWait, OthersAddUp
  <2>3. ASSUME NEW u \in Users, EmitNext(u) PROVE SummariesInv'
    BY <2>3, EmitAddsUp
  <2>4. TickClock \/ UNCHANGED cacheVars => UNCHANGED <<user, emitted, summaries, unknown>>
    BY DEF TickClock, cacheVars
  <2> QED BY <2>1, <2>2, <2>3, <2>4 DEF CacheStep
<1> QED BY <1>1, <1>2, CacheInvHolds, PTL DEF CacheSpec

(* Every event is counted once, in the summary of its scope or as dropped; a  *)
(* summary's requests are its hits and misses, and its hits are its restores  *)
(* and those a Get has reported one half of.                                 *)
THEOREM SummariesHold == CacheSpec => []SummariesAddUp
<1>1. SummariesInv => SummariesAddUp
  BY DEF SummariesInv, SummariesAddUp, CountsOf
<1> QED BY <1>1, SummariesInvHolds, PTL

-----------------------------------------------------------------------------
(* The verifier while GitHub's list stays as it is, from any moment at which   *)
(* no listing is under way, with the runner it waits for connected.            *)
StillSpec ==
  /\ listed \in Seq(GitHubRunners) /\ Expected \in ToSet(listed) \cap online
  /\ verifier # "listing" /\ page \in Nat \ {0}
  /\ [][ListingStep /\ UNCHANGED <<listed, online>>]_listingVars

(* What a listing has to say of the runners before place n. *)
Marked(n) == [i \in 1 .. n |-> [id |-> listed[i], online |-> listed[i] \in online]]

(* The pages before this one were full, and got has what is on them. *)
StillInv ==
  /\ listed \in Seq(GitHubRunners) /\ Expected \in ToSet(listed) \cap online
  /\ page \in Nat \ {0}
  /\ verifier = "listing" =>
       /\ (page - 1) * PageSize <= Len(listed)
       /\ got = Marked((page - 1) * PageSize)

(* What is before a page that is full, and what is before the next one. *)
LEMMA PageAfterPage ==
  ASSUME NEW n \in Nat \ {0}
  PROVE  /\ (n - 1) * PageSize \in Nat /\ n * PageSize \in Nat
         /\ n * PageSize = (n - 1) * PageSize + PageSize
<1>1. PageSize \in Nat \ {0} BY ListingAssumption
<1> QED BY <1>1

(* A list given by its entries. *)
LEMMA LengthOfList ==
  ASSUME NEW S, NEW n \in Nat, NEW f \in [1 .. n -> S]
  PROVE  f \in Seq(S) /\ Len(f) = n /\ DOMAIN f = 1 .. n
<1>1. f \in Seq(S)
  BY SeqDef
<1>2. DOMAIN f = 1 .. Len(f) /\ Len(f) \in Nat
  BY <1>1, LenProperties
<1> QED BY <1>1, <1>2

(* A page follows what was read, and is not full only if the list ends there. *)
LEMMA PageIsNext ==
  ASSUME listed \in Seq(GitHubRunners), page \in Nat \ {0}, (page - 1) * PageSize <= Len(listed)
  PROVE  LET last == Min({page * PageSize, Len(listed)})
             items == PageOf(page)
         IN /\ last \in Nat /\ (page - 1) * PageSize <= last /\ last <= Len(listed)
            /\ Len(items) = last - (page - 1) * PageSize
            /\ \A i \in 1 .. Len(items) : items[i] = listed[(page - 1) * PageSize + i]
            /\ DOMAIN items = 1 .. Len(items)
            /\ IF IsLast(items) THEN last = Len(listed) ELSE last = page * PageSize
<1> DEFINE from == (page - 1) * PageSize
           to == page * PageSize
           last == Min({to, Len(listed)})
           items == PageOf(page)
<1>1. from \in Nat /\ to \in Nat /\ to = from + PageSize /\ PageSize \in Nat \ {0} /\ Len(listed) \in Nat
  BY PageAfterPage, ListingAssumption
<1>7. from <= Len(listed)
  OBVIOUS
<1>2. last = IF to <= Len(listed) THEN to ELSE Len(listed)
  <2> HIDE DEF to
  <2>1. to \in Nat /\ Len(listed) \in Nat
    BY <1>1
  <2> QED BY <2>1 DEF Min
<1>3. items = SubSeq(listed, from + 1, last)
  BY DEF PageOf
<1> HIDE DEF from, to, last, items
<1>4. items = [i \in 1 .. last - from |-> listed[from + i]]
  <2>1. SubSeq(listed, from + 1, last) = [i \in 1 .. (last - (from + 1) + 1) |-> listed[i + (from + 1) - 1]]
    BY <1>1, <1>2
  <2> QED BY <1>1, <1>2, <1>3, <2>1
<1>5. Len(items) = last - from
  <2>1. last - from \in Nat /\ \A i \in 1 .. last - from : from + i \in 1 .. Len(listed)
    BY <1>1, <1>2, <1>7
  <2>2. items \in [1 .. last - from -> GitHubRunners]
    BY <2>1, <1>4, ElementOfSeq
  <2> QED BY <2>1, <2>2, LengthOfList
<1>6. IF IsLast(items) THEN last = Len(listed) ELSE last = to
  BY <1>1, <1>2, <1>5, <1>7 DEF IsLast, items
<1>8. /\ last \in Nat /\ from <= last /\ last <= Len(listed) /\ DOMAIN items = 1 .. Len(items)
      /\ \A i \in 1 .. Len(items) : items[i] = listed[from + i]
  BY <1>1, <1>2, <1>4, <1>5, <1>7
<1> QED BY <1>5, <1>6, <1>8 DEF from, to, last, items

(* Two lists one after the other. *)
LEMMA ConcatIsJoined ==
  ASSUME NEW S, NEW s \in Seq(S), NEW t \in Seq(S)
  PROVE  s \o t = [i \in 1 .. Len(s) + Len(t) |-> IF i <= Len(s) THEN s[i] ELSE t[i - Len(s)]]
<1>1. /\ s \o t \in Seq(S) /\ Len(s \o t) = Len(s) + Len(t)
      /\ \A i \in 1 .. Len(s) + Len(t) : (s \o t)[i] = IF i <= Len(s) THEN s[i] ELSE t[i - Len(s)]
  BY ConcatProperties
<1>2. s \o t = [i \in 1 .. Len(s) + Len(t) |-> (s \o t)[i]]
  BY <1>1, LenProperties
<1> QED BY <1>1, <1>2

(* A page adds its runners; after the last one the awaited runner is there. *)
LEMMA ReadPageMarks ==
  ASSUME StillInv, ReadPage
  PROVE  /\ IsLast(PageOf(page)) => verifier' = "found"
         /\ ~IsLast(PageOf(page)) => /\ verifier' = "listing" /\ page' = page + 1
                                     /\ page * PageSize <= Len(listed)
                                     /\ got' = Marked(page * PageSize)
<1> DEFINE from == (page - 1) * PageSize
           last == Min({page * PageSize, Len(listed)})
           items == PageOf(page)
           next == [i \in DOMAIN items |-> [id |-> items[i], online |-> items[i] \in online]]
<1>1. /\ verifier = "listing" /\ got' = got \o next
      /\ IF ~IsLast(items) THEN page' = page + 1 /\ UNCHANGED verifier
         ELSE verifier' = IF [id |-> Expected, online |-> TRUE] \in ToSet(got \o next) THEN "found" ELSE "waiting"
  BY DEF ReadPage
<1>2. from <= Len(listed) /\ got = Marked(from) /\ from \in Nat
  BY <1>1, PageAfterPage DEF StillInv
<1>3. /\ last \in Nat /\ from <= last /\ last <= Len(listed) /\ Len(items) = last - from
      /\ \A i \in 1 .. Len(items) : items[i] = listed[from + i]
      /\ DOMAIN items = 1 .. Len(items)
      /\ IF IsLast(items) THEN last = Len(listed) ELSE last = page * PageSize
  BY <1>2, PageIsNext DEF StillInv
<1> HIDE DEF from, last, items
<1>4. got \o next = Marked(last)
  <2>1. got = Marked(from) /\ Len(Marked(from)) = from /\ Marked(from) \in Seq([id : GitHubRunners, online : BOOLEAN])
    <3>1. \A i \in 1 .. from : listed[i] \in GitHubRunners
      BY <1>2, ElementOfSeq DEF StillInv
    <3>2. Marked(from) \in [1 .. from -> [id : GitHubRunners, online : BOOLEAN]]
      BY <3>1 DEF Marked
    <3> QED BY <1>2, <3>2, LengthOfList
  <2>2. next = [i \in 1 .. last - from |-> [id |-> listed[from + i], online |-> listed[from + i] \in online]]
    BY <1>3
  <2>3. Len(next) = last - from
    BY <1>2, <1>3, <2>2
  <2>7. next \in Seq([id : GitHubRunners, online : BOOLEAN])
    <3>1. last - from \in Nat /\ \A i \in 1 .. last - from : listed[from + i] \in GitHubRunners
      BY <1>2, <1>3, ElementOfSeq DEF StillInv
    <3>2. next \in [1 .. last - from -> [id : GitHubRunners, online : BOOLEAN]]
      <4> HIDE DEF next
      <4>1. \A i \in 1 .. last - from : [id |-> listed[from + i], online |-> listed[from + i] \in online] \in [id : GitHubRunners, online : BOOLEAN]
        BY <3>1
      <4> QED BY <2>2, <4>1
    <3> QED BY <3>1, <3>2, LengthOfList
  <2> HIDE DEF next
  <2>4. got \o next = [i \in 1 .. last |-> IF i <= from THEN Marked(from)[i] ELSE next[i - from]]
    <3>1. got \o next = [i \in 1 .. Len(got) + Len(next) |-> IF i <= Len(got) THEN got[i] ELSE next[i - Len(got)]]
      <4>1. got \in Seq([id : GitHubRunners, online : BOOLEAN])
        BY <2>1
      <4> QED BY <4>1, <2>7, ConcatIsJoined
    <3>2. Len(got) = from /\ Len(got) + Len(next) = last
      BY <1>2, <1>3, <2>1, <2>3
    <3> QED BY <3>1, <3>2, <2>1
  <2>5. \A i \in 1 .. last : (IF i <= from THEN Marked(from)[i] ELSE next[i - from]) = Marked(last)[i]
    <3> SUFFICES ASSUME NEW i \in 1 .. last PROVE (IF i <= from THEN Marked(from)[i] ELSE next[i - from]) = Marked(last)[i]
      OBVIOUS
    <3>1. CASE i <= from
      BY <1>2, <1>3, <3>1 DEF Marked
    <3>2. CASE ~(i <= from)
      <4>1. i - from \in 1 .. last - from /\ from + (i - from) = i
        BY <1>2, <1>3, <3>2
      <4> QED BY <3>2, <4>1, <2>2 DEF Marked
    <3> QED BY <3>1, <3>2
  <2>6. Marked(last) = [i \in 1 .. last |-> Marked(last)[i]]
    BY DEF Marked
  <2> QED BY <2>4, <2>5, <2>6
<1>5. ASSUME last = Len(listed) PROVE [id |-> Expected, online |-> TRUE] \in ToSet(Marked(last))
  <2>1. PICK i \in 1 .. Len(listed) : listed[i] = Expected /\ Expected \in online
    BY DEF StillInv, ToSet
  <2>2. i \in DOMAIN Marked(last) /\ Marked(last)[i] = [id |-> Expected, online |-> TRUE]
    BY <1>5, <2>1 DEF Marked
  <2> QED BY <2>2 DEF ToSet
<1> HIDE DEF next
<1> QED BY <1>1, <1>3, <1>4, <1>5 DEF items

(* Until the last page a listing is what the list was up to there. *)
LEMMA StillInvHolds == StillSpec => []StillInv
<1> DEFINE StillStep == ListingStep /\ UNCHANGED <<listed, online>>
           StillStart == /\ listed \in Seq(GitHubRunners) /\ Expected \in ToSet(listed) \cap online
                         /\ verifier # "listing" /\ page \in Nat \ {0}
<1>1. StillStart => StillInv
  BY DEF StillInv
<1>2. StillInv /\ [StillStep]_listingVars => StillInv'
  <2> SUFFICES ASSUME StillInv, [StillStep]_listingVars PROVE StillInv'
    OBVIOUS
  <2>1. UNCHANGED <<listed, online>>
    BY DEF listingVars
  <2>2. CASE ReadPage
    <3>1. CASE IsLast(PageOf(page))
      <4>1. verifier' = "found" /\ page' = page
        BY <2>2, <3>1, ReadPageMarks DEF ReadPage
      <4> QED BY <2>1, <4>1 DEF StillInv
    <3>2. CASE ~IsLast(PageOf(page))
      <4>1. page' = page + 1 /\ page * PageSize <= Len(listed) /\ got' = Marked(page * PageSize) /\ page' \in Nat \ {0} /\ page' - 1 = page
        BY <2>2, <3>2, ReadPageMarks DEF StillInv
      <4>3. page' - 1 = page
        BY <4>1
      <4>4. (page' - 1) * PageSize = page * PageSize
        BY <4>3
      <4>6. got' = [i \in 1 .. page * PageSize |-> [id |-> listed[i], online |-> listed[i] \in online]]
        BY <4>1 DEF Marked
      <4> QED BY <2>1, <4>1, <4>4, <4>6 DEF StillInv, Marked
    <3> QED BY <3>1, <3>2
  <2>3. CASE BeginListing
    <3>1. page' = 1 /\ got' = <<>> /\ (page' - 1) * PageSize = 0
      BY <2>3, ListingAssumption DEF BeginListing
    <3>2. Marked(0)' = <<>> /\ Len(listed') \in Nat
      BY <2>1 DEF Marked, StillInv
    <3> QED BY <2>1, <3>1, <3>2 DEF StillInv
  <2>4. CASE WaitForRunner \/ EndWait
    BY <2>1, <2>4 DEF WaitForRunner, EndWait, StillInv
  <2>5. CASE GitHubChanges \/ UNCHANGED listingVars
    <3>1. UNCHANGED <<verifier, page, got>>
      BY <2>5 DEF GitHubChanges, listingVars
    <3> QED BY <2>1, <3>1 DEF StillInv, Marked
  <2> QED BY <2>2, <2>3, <2>4, <2>5 DEF ListingStep
<1> QED BY <1>1, <1>2, PTL DEF StillSpec

(* WaitForRegistration: a listing during which no runner comes, goes, connects *)
(* or leaves finds the runner it waits for, on whatever page it is; it is not   *)
(* polled for in vain.                                                         *)
FoundIfStill == [][verifier = "listing" => verifier' # "waiting"]_listingVars

THEOREM StillListingFinds == StillSpec => FoundIfStill
<1>1. StillInv /\ [ListingStep /\ UNCHANGED <<listed, online>>]_listingVars
      => [verifier = "listing" => verifier' # "waiting"]_listingVars
  <2> SUFFICES ASSUME StillInv, ListingStep, verifier = "listing" PROVE verifier' # "waiting"
    BY DEF listingVars
  <2>1. CASE ReadPage
    BY <2>1, ReadPageMarks
  <2>2. CASE GitHubChanges \/ WaitForRunner \/ BeginListing \/ EndWait
    BY <2>2 DEF GitHubChanges, WaitForRunner, BeginListing, EndWait
  <2> QED BY <2>1, <2>2 DEF ListingStep
<1> QED BY <1>1, StillInvHolds, PTL DEF StillSpec, FoundIfStill
===============================================================================

----------------------------- MODULE ObjectCache -----------------------------
(***************************************************************************)
(* cache/backends/s3.Backend: content in a bucket under its own digest.  A  *)
(* Put is conditional on the absence of the object, and the SDK sends it    *)
(* again when the answer is lost; a Get verifies what it reads.             *)
(***************************************************************************)
EXTENDS Naturals

CONSTANTS
  Digests,       \* keys: digests of contents within MaxObjectSize
  Callers,
  SdkResends,    \* times the SDK sends a Put again
  BucketFaults, MaxBucketFaults,   \* of "lost", "damage"; bound: how many
  MaxCalls       \* bound: calls

ASSUME ObjectCacheAssumption ==
  /\ BucketFaults \subseteq {"lost", "damage"}
  /\ {SdkResends, MaxBucketFaults, MaxCalls} \subseteq Nat

VARIABLES
  bucket,        \* [Digests -> [put: which Put wrote it, 0: none; intact]]
  caller,        \* [Callers -> the call under way, or its answer]
  calls, bucketFaults

objectVars == <<bucket, caller, calls, bucketFaults>>

NoObject == [put |-> 0, intact |-> TRUE]

(* What a call sees of an object that others are changing (409). *)
Conflict == [put |-> 0, intact |-> FALSE]
NoCall == [op |-> "none", key |-> "none", put |-> 0, sends |-> 0, seen |-> {}, answer |-> "none"]

ObjectInit ==
  /\ bucket = [d \in Digests |-> NoObject]
  /\ caller = [c \in Callers |-> NoCall]
  /\ calls = 0 /\ bucketFaults = 0

BucketFault(kind) ==
  /\ kind \in BucketFaults /\ bucketFaults < MaxBucketFaults
  /\ bucketFaults' = bucketFaults + 1

(* What the bucket holds now, every call on it may have seen. *)
Watch(b, table) ==
  [c \in Callers |-> IF table[c].op = "none" THEN table[c]
                     ELSE [table[c] EXCEPT !.seen = @ \cup {b[table[c].key]}]]

BeginObjectCall(c) ==
  /\ caller[c].op = "none" /\ calls < MaxCalls
  /\ calls' = calls + 1
  /\ \E op \in {"get", "put", "delete"}, d \in Digests :
       caller' = [caller EXCEPT ![c] =
                    [op |-> op, key |-> d, put |-> IF op = "put" THEN calls + 1 ELSE 0, sends |-> 0,
                     seen |-> {bucket[d]}, answer |-> "none"]]
  /\ UNCHANGED <<bucket, bucketFaults>>

Reply(b, c, answer) ==
  caller' = [Watch(b, caller) EXCEPT ![c] = [@ EXCEPT !.op = "none", !.answer = answer]]

(* If-None-Match: "*". *)
MayWrite(d) == bucket[d] = NoObject

(* Put: ErrImmutable for PreconditionFailed, also when it is the answer to the *)
(* second sending of a Put whose first was carried out ...                   *)
PutObject(c) ==
  LET d == caller[c].key
      written == IF MayWrite(d) THEN [bucket EXCEPT ![d] = [put |-> caller[c].put, intact |-> TRUE]]
                                ELSE bucket
  IN /\ caller[c].op = "put"
     /\ bucket' = written \/ (bucket' = bucket /\ "lost" \in BucketFaults)
     /\ \/ /\ bucket' = written
           /\ Reply(bucket', c, IF MayWrite(d) THEN "ok" ELSE "immutable")
           /\ UNCHANGED bucketFaults
        \/ /\ BucketFault("lost")
           /\ IF caller[c].sends < SdkResends
              THEN caller' = [Watch(bucket', caller) EXCEPT ![c].sends = @ + 1]
              ELSE Reply(bucket', c, "error")
     /\ UNCHANGED calls

(* ... and for ConditionalRequestConflict, which S3 may answer, whatever it     *)
(* holds, while another Put or Delete of the same key is under way.          *)
PutConflicts(c) ==
  /\ caller[c].op = "put"
  /\ \E o \in Callers \ {c} :
       caller[o].op \in {"put", "delete"} /\ caller[o].key = caller[c].key
  /\ caller' = [caller EXCEPT ![c].op = "none", ![c].answer = "immutable",
                             ![c].seen = @ \cup {Conflict}]
  /\ UNCHANGED <<bucket, calls, bucketFaults>>

(* Mutant: the digest of what was read is not compared. *)
VerifiesNothing(o) == TRUE

(* The digest, the length and the checksums have to agree. *)
Verifies(o) == o.intact

GetObject(c) ==
  LET o == bucket[caller[c].key]
  IN /\ caller[c].op = "get"
     /\ \/ /\ Reply(bucket, c, IF o = NoObject THEN "not found"
                               ELSE IF Verifies(o) THEN "content" ELSE "mismatch")
           /\ UNCHANGED bucketFaults
        \/ BucketFault("lost") /\ Reply(bucket, c, "error")
     /\ UNCHANGED <<bucket, calls>>

(* Delete: an object that is absent is deleted as well. *)
DeleteObject(c) ==
  LET deleted == [bucket EXCEPT ![caller[c].key] = NoObject]
  IN /\ caller[c].op = "delete"
     /\ \/ /\ bucket' = deleted /\ Reply(bucket', c, "ok") /\ UNCHANGED bucketFaults
        \/ /\ BucketFault("lost") /\ bucket' \in {bucket, deleted}
           /\ Reply(bucket', c, "error")
     /\ UNCHANGED calls

(* The object is corrupted in the bucket. *)
DamageObject(d) ==
  /\ bucket[d] # NoObject /\ BucketFault("damage")
  /\ bucket' = [bucket EXCEPT ![d].intact = FALSE]
  /\ caller' = Watch(bucket', caller)
  /\ UNCHANGED calls

ObjectStep ==
  \/ \E c \in Callers :
       BeginObjectCall(c) \/ PutObject(c) \/ PutConflicts(c) \/ GetObject(c) \/ DeleteObject(c)
  \/ \E d \in Digests : DamageObject(d)

-----------------------------------------------------------------------------
(* backend.go:187: an object that is there is never replaced, only deleted.    *)
ObjectsAreImmutable ==
  [][\A d \in Digests : bucket[d] # NoObject =>
        bucket'[d] = NoObject \/ bucket'[d].put = bucket[d].put]_objectVars

(* An answer is true of a moment of the call: content that is served was       *)
(* there undamaged, a missing object was missing, a Put that was accepted    *)
(* left the object there, and one that was refused as immutable has met an   *)
(* object, or another call that was changing it.                             *)
ObjectAnswersAreTrue ==
  \A c \in Callers : LET r == caller[c] IN
    /\ r.answer = "content" => \E o \in r.seen : o # NoObject /\ o.intact
    /\ r.answer = "not found" => NoObject \in r.seen
    /\ r.answer = "ok" /\ r.put > 0 => r.seen \ {NoObject, Conflict} # {}
    /\ r.answer = "immutable" => r.seen \ {NoObject} # {}
=============================================================================

------------------------------ MODULE MCDynamo ------------------------------
(***************************************************************************)
(* Small instances of DynamoRepository: jobs that wait or are done.        *)
(***************************************************************************)
EXTENDS DynamoRepository, TLC

MCStates == {"queued", "done"}
MCFresh == {"queued"}
MCFinal == {"done"}
MCWanted == {<<"queued", "done">>}

(* Records and events share no state: it is enough that one of them moves     *)
(* while the other is as it was at the beginning.                            *)
NoEvents ==
  /\ marker = NoTime /\ copies = {} /\ owners = {}
  /\ \A r \in late \cup {op[c] : c \in Clients} :
       /\ r.pc \notin {"insert", "reread", "delete"}
       /\ r.pc = "answered" => r.answer # "inserted"

NoRecords ==
  /\ saves = 0 /\ \A c \in Clients : op[c].pc \notin {"read", "list", "listed"}

(* A listing changes nothing another operation sees, and sees of a request    *)
(* only what it wrote: one listing at a time is enough, and no fault with it. *)
OneListing ==
  LET listing == {c \in Clients : op'[c].pc \in {"list", "listed"}}
  IN listing = {} \/ (Cardinality(listing) = 1 /\ faults' = 0)

MCNext ==
  \/ NoEvents /\ RecordStep /\ OneListing
  \/ NoRecords /\ EventStep
  \/ RequestStep /\ OneListing

MCSpec == Init /\ [][MCNext]_vars

Symmetry == Permutations(Clients)
=============================================================================

--------------------------- MODULE VersionedTable ---------------------------
(***************************************************************************)
(* What a state repository promises of its durable contents: records with   *)
(* revisions, changed by one conditional save, or one deletion where records *)
(* of that kind are deleted, at a time.  A repair after a damage of the disk *)
(* takes back one change at most.                                           *)
(***************************************************************************)
EXTENDS Naturals

CONSTANTS Keys, Deletable, MaxSaves

VARIABLE table

NoRecord == [rev |-> 0, by |-> 0]

Records == [rev : Nat, by : 0 .. MaxSaves]

EmptyTable == [k \in Keys |-> NoRecord]

(* t is s with one save more. *)
OneSaveAfter(s, t) ==
  \E k \in Keys, by \in 1 .. MaxSaves :
    t = [s EXCEPT ![k] = [rev |-> s[k].rev + 1, by |-> by]]

(* t is s without one of the records that may go, if it had it. *)
OneDeletionAfter(s, t) == \E k \in Deletable : t = [s EXCEPT ![k] = NoRecord]

OneChangeAfter(s, t) == OneSaveAfter(s, t) \/ OneDeletionAfter(s, t)

Init == table = EmptyTable

Change == OneChangeAfter(table, table')

TakeBack == table' \in [Keys -> Records] /\ OneChangeAfter(table', table)

Spec == Init /\ [][Change \/ TakeBack]_table

(* A store that never takes a change back. *)
KeepingSpec == Init /\ [][Change]_table
=============================================================================

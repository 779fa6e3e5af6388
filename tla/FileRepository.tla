--------------------------- MODULE FileRepository ---------------------------
(***************************************************************************)
(* state.FileRepository: the memory repository, and a snapshot of it on     *)
(* disk that every change rewrites before it is acknowledged.  Changes hold *)
(* r.mu from the change in memory to the last sync; reads take the lock of  *)
(* the memory alone and may run between any two of these steps.             *)
(*                                                                         *)
(* A record of any kind is its revision and the save that wrote it.         *)
(* CreateX is a save of a record that is absent.  A lifecycle event is      *)
(* inserted and deleted, and never rewritten.                               *)
(***************************************************************************)
EXTENDS Naturals, FiniteSets

CONSTANTS
  Keys,          \* IDs of jobs, runners, leases and lifecycle events
  Events,        \* those of lifecycle events
  Clients,       \* requests and passes that use the repository
  NoClient,
  Missing,       \* a file that does not exist
  Damaged,       \* a file decodeSnapshot rejects
  FaultKinds,    \* which faults happen: "write", "sync", "crash", "damage"
  MaxFaults,     \* bound: how many of them
  MaxSaves       \* bound: changes of the records, saves and deletions

Records == [rev : Nat, by : 0 .. MaxSaves]
Snapshots == [Keys -> Records]
NoRecord == [rev |-> 0, by |-> 0]
Empty == [k \in Keys |-> NoRecord]

ASSUME FileAssumption ==
  /\ NoClient \notin Clients /\ Events \subseteq Keys
  /\ Missing \notin Snapshots /\ Damaged \notin Snapshots /\ Missing # Damaged
  /\ FaultKinds \subseteq {"write", "sync", "crash", "damage"}
  /\ MaxFaults \in Nat /\ MaxSaves \in Nat

VARIABLES
  mem,           \* r.mem
  primary,       \* the file r.path
  backup,        \* the file r.path + ".bak"
  writer,        \* the holder of r.mu: where it is, and its local variables
  copy,          \* [Clients -> the record the client has read last]
  acked,         \* the snapshot of the last change acknowledged, or that load began with
  saves,         \* changes so far
  faults         \* faults so far

vars == <<mem, primary, backup, writer, copy, acked, saves, faults>>

NoCopy == [on |-> FALSE, rec |-> NoRecord]

(* What the holder of r.mu does next ("down": there is no process), for whom *)
(* (NoClient: to load), and the files and the memory it started from.        *)
Writers ==
  [pc : {"down", "idle", "backup", "primary", "sync"}, client : Clients \cup {NoClient},
   before : Snapshots, previous : Snapshots]

Idle == [pc |-> "idle", client |-> NoClient, before |-> Empty, previous |-> Empty]
Down == [Idle EXCEPT !.pc = "down"]
Rewriting(pc, s) == [pc |-> pc, client |-> NoClient, before |-> s, previous |-> s]
Committing(c) == [pc |-> "backup", client |-> c, before |-> mem, previous |-> primary]

IsSnapshot(file) == file # Missing /\ file # Damaged

TypeOK ==
  /\ mem \in Snapshots
  /\ primary \in Snapshots \cup {Missing, Damaged}
  /\ backup \in Snapshots \cup {Missing, Damaged}
  /\ writer \in Writers
  /\ copy \in [Clients -> [Keys -> [on : BOOLEAN, rec : Records]]]
  /\ acked \in Snapshots
  /\ saves \in 0 .. MaxSaves
  /\ faults \in 0 .. MaxFaults

Init ==
  /\ mem = Empty /\ acked = Empty
  /\ primary = Missing /\ backup = Missing
  /\ writer = Down
  /\ copy = [c \in Clients |-> [k \in Keys |-> NoCopy]]
  /\ saves = 0 /\ faults = 0

Fault(kind) ==
  /\ kind \in FaultKinds
  /\ faults < MaxFaults
  /\ faults' = faults + 1

Running == writer.pc # "down" /\ ~(writer.client = NoClient /\ writer.pc # "idle")

-----------------------------------------------------------------------------
(* NewFileRepository and load: the primary if it is valid, else the backup,  *)
(* which is written to both files; with neither file a repository begins,    *)
(* and anything else is an error, with which the process ends.               *)
Load ==
  /\ writer.pc = "down"
  /\ \/ /\ IsSnapshot(primary)
        /\ mem' = primary /\ writer' = Idle
     \/ /\ ~IsSnapshot(primary) /\ IsSnapshot(backup)
        /\ mem' = backup /\ writer' = Rewriting("backup", backup)
     \/ /\ primary = Missing /\ backup = Missing
        /\ mem' = Empty /\ writer' = Rewriting("primary", Empty)
  /\ acked' = mem'
  /\ UNCHANGED <<primary, backup, copy, saves, faults>>

(* GetX and ListX. *)
Read(c, k) ==
  /\ Running
  /\ copy' = [copy EXCEPT ![c][k] = [on |-> TRUE, rec |-> mem[k]]]
  /\ UNCHANGED <<mem, primary, backup, writer, acked, saves, faults>>

(* mutate and saveX, once the change is made: the memory as changed, and the *)
(* snapshot of it that will be written.                                      *)
Change(c, changed) ==
  /\ writer.pc = "idle" /\ saves < MaxSaves
  /\ saves' = saves + 1
  /\ mem' = changed
  /\ writer' = Committing(c)
  /\ UNCHANGED <<primary, backup, copy, acked, faults>>

WithSave(k, rev) == [mem EXCEPT ![k] = [rev |-> rev + 1, by |-> saves + 1]]

(* Mutant: the revision is not compared. *)
SaveBlindly(c, k) ==
  /\ k \notin Events /\ copy[c][k].on
  /\ Change(c, WithSave(k, copy[c][k].rec.rev))

(* SaveX and CreateX of a job, a runner or a lease.  A conflict changes      *)
(* nothing.                                                                  *)
Save(c, k) ==
  /\ k \notin Events /\ copy[c][k].on /\ copy[c][k].rec.rev = mem[k].rev
  /\ Change(c, WithSave(k, mem[k].rev))

(* InsertLifecycleEvent: a second event of a key is not inserted, and then   *)
(* nothing is written.                                                       *)
InsertLifecycleEvent(c, k) ==
  /\ k \in Events /\ mem[k] = NoRecord
  /\ Change(c, WithSave(k, 0))

(* DeleteLifecycleEvent, which writes the snapshot even if there is no such  *)
(* event.                                                                    *)
DeleteLifecycleEvent(c, k) ==
  /\ k \in Events
  /\ Change(c, [mem EXCEPT ![k] = NoRecord])

(* writeLocked: the present file becomes the backup. *)
WriteBackup ==
  /\ writer.pc = "backup"
  /\ backup' = writer.previous
  /\ writer' = [writer EXCEPT !.pc = "primary"]
  /\ UNCHANGED <<mem, primary, copy, acked, saves, faults>>

(* atomicWrite of the snapshot, up to the rename. *)
WritePrimary ==
  /\ writer.pc = "primary"
  /\ primary' = mem
  /\ writer' = [writer EXCEPT !.pc = "sync"]
  /\ UNCHANGED <<mem, backup, copy, acked, saves, faults>>

(* The directory is synced and the change acknowledged; the client goes on   *)
(* with the record Save returns, which the memory has as well.               *)
Acknowledge ==
  /\ writer.pc = "sync"
  /\ acked' = mem
  /\ writer' = Idle
  /\ UNCHANGED <<mem, primary, backup, copy, saves, faults>>

(* Mutant: the change stays in memory. *)
WriteFailsKeepingMemory ==
  /\ writer.pc \in {"backup", "primary"} /\ Fault("write")
  /\ mem' = mem /\ writer' = IF writer.client = NoClient THEN Down ELSE Idle
  /\ UNCHANGED <<primary, backup, copy, acked, saves>>

(* The write of a file fails before its rename, or the sync of the directory *)
(* after the rename of the primary: the memory is restored and an error      *)
(* returned, with which the process ends if it is loading.                   *)
WriteFails ==
  /\ \/ writer.pc \in {"backup", "primary"} /\ Fault("write")
     \/ writer.pc = "sync" /\ Fault("sync")
  /\ mem' = writer.before
  /\ writer' = IF writer.client = NoClient THEN Down ELSE Idle
  /\ UNCHANGED <<primary, backup, copy, acked, saves>>

(* The process dies, and with it its memory and its clients. *)
Crash ==
  /\ writer.pc # "down" /\ Fault("crash")
  /\ mem' = Empty /\ writer' = Down
  /\ copy' = [c \in Clients |-> [k \in Keys |-> NoCopy]]
  /\ UNCHANGED <<primary, backup, acked, saves>>

(* The file is lost or damaged while no process uses it. *)
Damage ==
  /\ writer.pc = "down" /\ IsSnapshot(primary) /\ Fault("damage")
  /\ primary' \in {Damaged, Missing}
  /\ UNCHANGED <<mem, backup, writer, copy, acked, saves>>

Next ==
  \/ Load
  \/ \E c \in Clients, k \in Keys :
       Read(c, k) \/ Save(c, k) \/ InsertLifecycleEvent(c, k) \/ DeleteLifecycleEvent(c, k)
  \/ WriteBackup \/ WritePrimary \/ Acknowledge
  \/ WriteFails \/ Crash \/ Damage

Spec == Init /\ [][Next]_vars

-----------------------------------------------------------------------------
(* What a restart finds. *)
Recovered ==
  IF IsSnapshot(primary) THEN primary ELSE IF IsSnapshot(backup) THEN backup ELSE Empty

(* The files implement a table that changes by one conditional save or one   *)
(* deletion at a time, through failing writes, crashes and recoveries: no    *)
(* change is torn, none takes another one back, and a lost or damaged        *)
(* primary costs one change.                                                 *)
Durable == INSTANCE VersionedTable WITH table <- Recovered, Deletable <- Events
DurableSpec == Durable!Spec

(* An acknowledged change is in the primary from then on; at most one change *)
(* that nobody has acknowledged is there as well.                            *)
AcknowledgedSurvives ==
  IsSnapshot(primary) => primary = acked \/ Durable!OneChangeAfter(acked, primary)

(* docs/reliability.md: the backup serves recovery from a missing or corrupt *)
(* primary; it lacks at most the last change.                                *)
RecoveryLosesOneChange ==
  ~IsSnapshot(primary) /\ acked # Empty =>
    /\ IsSnapshot(backup)
    /\ backup = acked \/ Durable!OneChangeAfter(backup, acked)
=============================================================================

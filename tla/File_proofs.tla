----------------------------- MODULE File_proofs -----------------------------
(***************************************************************************)
(* The files of FileRepository implement VersionedTable, and acknowledged   *)
(* changes survive, for any number of records, clients, changes, failing    *)
(* writes, crashes and damaged files.  The exception is a directory sync    *)
(* that fails after the rename, which leaves a change on disk that the      *)
(* memory has taken back.                                                   *)
(***************************************************************************)
EXTENDS FileRepository, TLAPS

OneChange(s, t) == Durable!OneChangeAfter(s, t)

(* A client's change: it is one step away from the snapshot it started from, *)
(* which is acknowledged and in the primary until the rename, and in the     *)
(* backup from the first write on.                                           *)
ChangeInv ==
  writer.client # NoClient =>
    /\ writer.pc \in {"backup", "primary", "sync"}
    /\ OneChange(writer.before, mem)
    /\ acked = writer.before /\ writer.previous = writer.before
    /\ writer.pc \in {"backup", "primary"} => primary = writer.before
    /\ writer.pc \in {"primary", "sync"} => backup = writer.before
    /\ writer.pc = "sync" => primary = mem

(* A recovery: the snapshot that was found in the backup, or the empty one,  *)
(* is what all agree on before the primary is written.                       *)
RecoveryInv ==
  writer.client = NoClient =>
    /\ writer.pc = "idle" => primary = mem /\ acked = mem
    /\ writer.pc \in {"backup", "primary", "sync"} =>
         /\ acked = mem
         /\ writer.previous = mem
         /\ backup = mem \/ (backup = Missing /\ mem = Empty)
    /\ writer.pc = "backup" => ~IsSnapshot(primary) /\ backup = mem
    /\ writer.pc = "primary" => ~IsSnapshot(primary)
    /\ writer.pc = "sync" => primary = mem
    /\ writer.pc = "down" /\ IsSnapshot(primary) =>
         primary = acked \/ (OneChange(acked, primary) /\ backup = acked)

(* The backup is the primary or the snapshot one change before it; without a *)
(* backup nothing is acknowledged.                                           *)
BackupInv ==
  /\ IsSnapshot(primary) =>
       \/ IsSnapshot(backup) /\ (primary = backup \/ OneChange(backup, primary))
       \/ backup = Missing /\ primary = Empty
  /\ ~IsSnapshot(primary) =>
       \/ IsSnapshot(backup) /\ (backup = acked \/ OneChange(backup, acked))
       \/ backup = Missing /\ acked = Empty

FileInv == TypeOK /\ ChangeInv /\ RecoveryInv /\ BackupInv

(* The empty repository. *)
LEMMA EmptyTyped == Empty \in Snapshots /\ NoRecord \in Records
BY FileAssumption DEF Empty, Snapshots, NoRecord, Records

(* What is a file's contents is a snapshot. *)
LEMMA SnapshotFiles == \A f \in Snapshots \cup {Missing, Damaged} : IsSnapshot(f) <=> f \in Snapshots
BY FileAssumption DEF IsSnapshot

(* The repository before its first start. *)
LEMMA FileInvInit == Init => FileInv
<1> SUFFICES ASSUME Init PROVE FileInv
  OBVIOUS
<1>1. TypeOK
  BY EmptyTyped, FileAssumption DEF Init, TypeOK, Down, Idle, Writers, NoCopy
<1>2. ~IsSnapshot(primary) /\ primary = Missing /\ primary # Damaged
  BY FileAssumption DEF Init, IsSnapshot
<1>3. writer.client = NoClient /\ writer.pc = "down"
  BY DEF Init, Down, Idle
<1> QED BY <1>1, <1>2, <1>3 DEF Init, FileInv, ChangeInv, RecoveryInv, BackupInv

(* Load finds the primary, or the backup, or nothing. *)
LEMMA LoadKeeps ==
  ASSUME FileInv, Load
  PROVE  FileInv'
<1>1. UNCHANGED <<primary, backup, copy, saves, faults>> /\ acked' = mem' /\ writer.pc = "down"
  BY DEF Load
<1>2. /\ primary \in Snapshots \cup {Missing, Damaged}
      /\ backup \in Snapshots \cup {Missing, Damaged}
  BY DEF FileInv, TypeOK
<1>3. CASE IsSnapshot(primary) /\ mem' = primary /\ writer' = Idle
  <2>1. TypeOK'
    BY <1>1, <1>2, <1>3, EmptyTyped, SnapshotFiles DEF FileInv, TypeOK, Idle, Writers
  <2>2. writer'.client = NoClient /\ writer'.pc = "idle"
    BY <1>3 DEF Idle
  <2>3. BackupInv'
    BY <1>1, <1>3 DEF FileInv, BackupInv, IsSnapshot
  <2> QED BY <1>1, <1>3, <2>1, <2>2, <2>3 DEF FileInv, ChangeInv, RecoveryInv
<1>4. CASE ~IsSnapshot(primary) /\ IsSnapshot(backup)
           /\ mem' = backup /\ writer' = Rewriting("backup", backup)
  <2>1. TypeOK'
    BY <1>1, <1>2, <1>4, SnapshotFiles DEF FileInv, TypeOK, Rewriting, Writers
  <2>2. writer'.client = NoClient /\ writer'.pc = "backup" /\ writer'.previous = mem'
    BY <1>4 DEF Rewriting
  <2>3. BackupInv'
    BY <1>1, <1>4 DEF FileInv, BackupInv, IsSnapshot
  <2> QED BY <1>1, <1>4, <2>1, <2>2, <2>3 DEF FileInv, ChangeInv, RecoveryInv, IsSnapshot
<1>5. CASE primary = Missing /\ backup = Missing
           /\ mem' = Empty /\ writer' = Rewriting("primary", Empty)
  <2>1. TypeOK'
    BY <1>1, <1>2, <1>5, EmptyTyped DEF FileInv, TypeOK, Rewriting, Writers
  <2>2. writer'.client = NoClient /\ writer'.pc = "primary" /\ writer'.previous = mem'
    BY <1>5 DEF Rewriting
  <2>3. BackupInv'
    BY <1>1, <1>5, FileAssumption DEF FileInv, BackupInv, IsSnapshot
  <2> QED BY <1>1, <1>5, <2>1, <2>2, <2>3 DEF FileInv, ChangeInv, RecoveryInv, IsSnapshot
<1> QED BY <1>3, <1>4, <1>5 DEF Load

(* What is saved, inserted or deleted is one change after the memory. *)
LEMMA SavedIsOneChange ==
  ASSUME FileInv, saves < MaxSaves, NEW k \in Keys, NEW rev \in Nat, rev = mem[k].rev
  PROVE  WithSave(k, rev) \in Snapshots /\ OneChange(mem, WithSave(k, rev))
<1>1. mem \in Snapshots /\ saves \in 0 .. MaxSaves /\ MaxSaves \in Nat
  BY FileAssumption DEF FileInv, TypeOK
<1>2. saves + 1 \in 1 .. MaxSaves
  BY <1>1
<1>3. WithSave(k, rev) = [mem EXCEPT ![k] = [rev |-> mem[k].rev + 1, by |-> saves + 1]]
  BY DEF WithSave
<1>4. WithSave(k, rev) \in Snapshots
  BY <1>1, <1>2 DEF WithSave, Snapshots, Records
<1>5. \E by \in 1 .. MaxSaves :
        WithSave(k, rev) = [mem EXCEPT ![k] = [rev |-> mem[k].rev + 1, by |-> by]]
  BY <1>2, <1>3
<1>6. Durable!OneSaveAfter(mem, WithSave(k, rev))
  BY <1>5, Zenon DEF Durable!OneSaveAfter
<1> QED BY <1>4, <1>6 DEF OneChange, Durable!OneChangeAfter

LEMMA DeletedIsOneChange ==
  ASSUME FileInv, NEW k \in Events
  PROVE  /\ [mem EXCEPT ![k] = NoRecord] \in Snapshots
         /\ OneChange(mem, [mem EXCEPT ![k] = NoRecord])
<1>1. mem \in Snapshots
  BY DEF FileInv, TypeOK
<1>2. [mem EXCEPT ![k] = NoRecord] \in Snapshots
  BY <1>1, EmptyTyped DEF Snapshots
<1>3. Durable!OneDeletionAfter(mem, [mem EXCEPT ![k] = NoRecord])
  BY Zenon DEF Durable!OneDeletionAfter, Durable!NoRecord, NoRecord
<1> QED BY <1>2, <1>3 DEF OneChange, Durable!OneChangeAfter

(* A change in memory starts from what primary and acknowledged snapshot are. *)
LEMMA ChangeKeeps ==
  ASSUME FileInv, NEW c \in Clients, NEW s \in Snapshots, OneChange(mem, s), Change(c, s)
  PROVE  FileInv'
<1>1. /\ UNCHANGED <<primary, backup, copy, acked, faults>>
      /\ saves' = saves + 1 /\ saves < MaxSaves /\ writer.pc = "idle"
      /\ mem' = s
      /\ writer' = Committing(c)
  BY DEF Change
<1>2. mem \in Snapshots /\ saves \in 0 .. MaxSaves /\ MaxSaves \in Nat
  BY FileAssumption DEF FileInv, TypeOK
<1>3. mem' \in Snapshots /\ saves' \in 0 .. MaxSaves
  BY <1>1, <1>2
<1>4. OneChange(mem, mem')
  BY <1>1
<1>5. writer.client = NoClient /\ primary = mem /\ acked = mem
  BY <1>1 DEF FileInv, ChangeInv, RecoveryInv
<1>6. TypeOK'
  BY <1>1, <1>2, <1>3, <1>5 DEF FileInv, TypeOK, Committing, Writers
<1>7. /\ writer'.client = c /\ writer'.pc = "backup"
      /\ writer'.before = mem /\ writer'.previous = primary
  BY <1>1 DEF Committing
<1>8. ChangeInv' /\ RecoveryInv'
  BY <1>1, <1>4, <1>5, <1>7, FileAssumption DEF ChangeInv, RecoveryInv
<1>9. BackupInv'
  BY <1>1 DEF FileInv, BackupInv, IsSnapshot
<1> QED BY <1>6, <1>8, <1>9 DEF FileInv

(* So the three operations that change records keep the invariant. *)
LEMMA WriterKeeps ==
  ASSUME FileInv, NEW c \in Clients, NEW k \in Keys,
         Save(c, k) \/ InsertLifecycleEvent(c, k) \/ DeleteLifecycleEvent(c, k)
  PROVE  FileInv'
<1>1. mem[k].rev \in Nat
  BY DEF FileInv, TypeOK, Snapshots, Records
<1>2. CASE Save(c, k)
  <2>1. saves < MaxSaves /\ Change(c, WithSave(k, mem[k].rev))
    BY <1>2 DEF Save, Change
  <2> QED BY <1>1, <2>1, SavedIsOneChange, ChangeKeeps
<1>3. CASE InsertLifecycleEvent(c, k)
  <2>1. saves < MaxSaves /\ Change(c, WithSave(k, 0)) /\ mem[k].rev = 0
    BY <1>3 DEF InsertLifecycleEvent, Change, NoRecord
  <2> QED BY <2>1, SavedIsOneChange, ChangeKeeps
<1>4. CASE DeleteLifecycleEvent(c, k)
  <2>1. k \in Events /\ Change(c, [mem EXCEPT ![k] = NoRecord])
    BY <1>4 DEF DeleteLifecycleEvent
  <2> QED BY <2>1, DeletedIsOneChange, ChangeKeeps
<1> QED BY <1>2, <1>3, <1>4

(* The backup takes what the writer started from. *)
LEMMA WriteBackupKeeps ==
  ASSUME FileInv, WriteBackup
  PROVE  FileInv'
<1>1. /\ UNCHANGED <<mem, primary, copy, acked, saves, faults>>
      /\ writer.pc = "backup" /\ backup' = writer.previous
      /\ writer' = [writer EXCEPT !.pc = "primary"]
  BY DEF WriteBackup
<1>2. writer \in Writers
  BY DEF FileInv, TypeOK
<1>3. /\ writer'.pc = "primary" /\ writer'.client = writer.client
      /\ writer'.before = writer.before /\ writer'.previous = writer.previous
      /\ writer' \in Writers /\ backup' \in Snapshots
  BY <1>1, <1>2 DEF Writers
<1>4. TypeOK'
  BY <1>1, <1>3 DEF FileInv, TypeOK
<1>5. CASE writer.client # NoClient
  <2>1. /\ primary = writer.before /\ backup' = writer.before /\ acked = writer.before
        /\ OneChange(writer.before, mem) /\ writer.previous = writer.before
    BY <1>1, <1>5 DEF FileInv, ChangeInv
  <2>2. IsSnapshot(primary) /\ IsSnapshot(backup')
    BY <1>2, <1>3, <2>1, SnapshotFiles DEF Writers
  <2>3. BackupInv'
    BY <1>1, <2>1, <2>2 DEF BackupInv, IsSnapshot
  <2>4. ChangeInv' /\ RecoveryInv'
    BY <1>1, <1>3, <1>5, <2>1 DEF ChangeInv, RecoveryInv
  <2> QED BY <1>4, <2>3, <2>4 DEF FileInv
<1>6. CASE writer.client = NoClient
  <2>1. /\ backup' = backup /\ backup = mem /\ acked = mem /\ writer.previous = mem
        /\ ~IsSnapshot(primary)
    BY <1>1, <1>6 DEF FileInv, RecoveryInv
  <2>2. BackupInv'
    BY <1>1, <2>1 DEF FileInv, BackupInv, IsSnapshot
  <2>3. ChangeInv' /\ RecoveryInv'
    BY <1>1, <1>3, <1>6, <2>1 DEF ChangeInv, RecoveryInv, IsSnapshot
  <2> QED BY <1>4, <2>2, <2>3 DEF FileInv
<1> QED BY <1>5, <1>6

(* The primary takes the memory. *)
LEMMA WritePrimaryKeeps ==
  ASSUME FileInv, WritePrimary
  PROVE  FileInv'
<1>1. /\ UNCHANGED <<mem, backup, copy, acked, saves, faults>>
      /\ writer.pc = "primary" /\ primary' = mem
      /\ writer' = [writer EXCEPT !.pc = "sync"]
  BY DEF WritePrimary
<1>2. writer \in Writers /\ mem \in Snapshots /\ backup \in Snapshots \cup {Missing, Damaged}
  BY DEF FileInv, TypeOK
<1>3. /\ writer'.pc = "sync" /\ writer'.client = writer.client
      /\ writer'.before = writer.before /\ writer'.previous = writer.previous
      /\ writer' \in Writers
  BY <1>1, <1>2 DEF Writers
<1>4. TypeOK'
  BY <1>1, <1>2, <1>3 DEF FileInv, TypeOK
<1>5. IsSnapshot(primary') /\ primary' # Damaged /\ primary' # Missing
  BY <1>1, <1>2, SnapshotFiles DEF IsSnapshot
<1>6. CASE writer.client # NoClient
  <2>1. /\ backup = writer.before /\ acked = writer.before /\ OneChange(writer.before, mem)
        /\ writer.previous = writer.before
    BY <1>1, <1>6 DEF FileInv, ChangeInv
  <2>2. IsSnapshot(backup)
    BY <1>2, <2>1, SnapshotFiles DEF Writers
  <2>3. BackupInv'
    BY <1>1, <1>5, <2>1, <2>2 DEF BackupInv, IsSnapshot
  <2>4. ChangeInv' /\ RecoveryInv'
    BY <1>1, <1>3, <1>6, <2>1 DEF ChangeInv, RecoveryInv
  <2> QED BY <1>4, <2>3, <2>4 DEF FileInv
<1>7. CASE writer.client = NoClient
  <2>1. /\ acked = mem /\ writer.previous = mem
        /\ backup = mem \/ (backup = Missing /\ mem = Empty)
    BY <1>1, <1>7 DEF FileInv, RecoveryInv
  <2>2. BackupInv'
    BY <1>1, <1>2, <1>5, <2>1, SnapshotFiles DEF BackupInv, IsSnapshot
  <2>3. ChangeInv' /\ RecoveryInv'
    BY <1>1, <1>3, <1>7, <2>1 DEF ChangeInv, RecoveryInv
  <2> QED BY <1>4, <2>2, <2>3 DEF FileInv
<1> QED BY <1>6, <1>7

(* With the last sync memory, primary and acknowledged snapshot agree. *)
LEMMA AcknowledgeKeeps ==
  ASSUME FileInv, Acknowledge
  PROVE  FileInv'
<1>1. /\ UNCHANGED <<mem, primary, backup, copy, saves, faults>>
      /\ writer.pc = "sync" /\ acked' = mem /\ writer' = Idle
  BY DEF Acknowledge
<1>2. primary = mem
  BY <1>1 DEF FileInv, ChangeInv, RecoveryInv
<1>3. writer'.pc = "idle" /\ writer'.client = NoClient
  BY <1>1 DEF Idle
<1>4. TypeOK'
  BY <1>1, EmptyTyped DEF FileInv, TypeOK, Idle, Writers
<1>5. mem \in Snapshots
  BY DEF FileInv, TypeOK
<1>6. primary # Damaged /\ primary # Missing
  BY <1>2, <1>5, SnapshotFiles DEF IsSnapshot
<1>7. BackupInv'
  BY <1>1, <1>6 DEF FileInv, BackupInv, IsSnapshot
<1> QED BY <1>1, <1>2, <1>3, <1>4, <1>7 DEF FileInv, ChangeInv, RecoveryInv

(* A write that fails leaves memory, primary and acknowledged snapshot as    *)
(* they were before the change.                                              *)
LEMMA WriteFailsKeeps ==
  ASSUME "sync" \notin FaultKinds, FileInv, WriteFails
  PROVE  FileInv'
<1>1. /\ UNCHANGED <<primary, backup, copy, acked, saves>>
      /\ writer.pc \in {"backup", "primary"} /\ mem' = writer.before
      /\ writer' = IF writer.client = NoClient THEN Down ELSE Idle
      /\ faults < MaxFaults /\ faults' = faults + 1
  BY DEF WriteFails, Fault
<1>2. writer \in Writers /\ faults' \in 0 .. MaxFaults
  BY <1>1, FileAssumption DEF FileInv, TypeOK
<1>3. TypeOK'
  BY <1>1, <1>2, EmptyTyped DEF FileInv, TypeOK, Idle, Down, Writers
<1>4. BackupInv'
  BY <1>1 DEF FileInv, BackupInv, IsSnapshot
<1>5. CASE writer.client # NoClient
  <2>1. primary = writer.before /\ acked = writer.before
    BY <1>1, <1>5 DEF FileInv, ChangeInv
  <2>2. writer'.pc = "idle" /\ writer'.client = NoClient
    BY <1>1, <1>5 DEF Idle
  <2> QED BY <1>1, <1>3, <1>4, <2>1, <2>2 DEF FileInv, ChangeInv, RecoveryInv
<1>6. CASE writer.client = NoClient
  <2>1. ~IsSnapshot(primary)
    BY <1>1, <1>6 DEF FileInv, RecoveryInv
  <2>2. writer'.pc = "down" /\ writer'.client = NoClient
    BY <1>1, <1>6 DEF Down, Idle
  <2> QED BY <1>1, <1>3, <1>4, <2>1, <2>2 DEF FileInv, ChangeInv, RecoveryInv, IsSnapshot
<1> QED BY <1>5, <1>6

(* A crash leaves the files: the primary has what was acknowledged, or the   *)
(* change under way as well, and then the backup has what was acknowledged.  *)
LEMMA CrashKeeps ==
  ASSUME FileInv, Crash
  PROVE  FileInv'
<1>1. /\ UNCHANGED <<primary, backup, acked, saves>>
      /\ writer.pc # "down" /\ mem' = Empty /\ writer' = Down
      /\ copy' = [c \in Clients |-> [k \in Keys |-> NoCopy]]
      /\ faults < MaxFaults /\ faults' = faults + 1
  BY DEF Crash, Fault
<1>2. TypeOK'
  BY <1>1, EmptyTyped, FileAssumption DEF FileInv, TypeOK, Down, Idle, Writers, NoCopy
<1>3. BackupInv'
  BY <1>1 DEF FileInv, BackupInv, IsSnapshot
<1>4. writer'.pc = "down" /\ writer'.client = NoClient
  BY <1>1 DEF Down, Idle
<1>5. IsSnapshot(primary) => primary = acked \/ (OneChange(acked, primary) /\ backup = acked)
  <2>1. writer.pc \in {"idle", "backup", "primary", "sync"}
    BY <1>1 DEF FileInv, TypeOK, Writers
  <2>2. CASE writer.client = NoClient
    BY <2>1, <2>2 DEF FileInv, RecoveryInv
  <2>3. CASE writer.client # NoClient
    BY <2>1, <2>3 DEF FileInv, ChangeInv
  <2> QED BY <2>2, <2>3
<1> QED BY <1>1, <1>2, <1>3, <1>4, <1>5 DEF FileInv, ChangeInv, RecoveryInv, IsSnapshot

(* After a damage the backup stands in for the primary. *)
LEMMA DamageKeeps ==
  ASSUME FileInv, Damage
  PROVE  FileInv'
<1>1. /\ UNCHANGED <<mem, backup, writer, copy, acked, saves>>
      /\ writer.pc = "down" /\ IsSnapshot(primary) /\ primary' \in {Damaged, Missing}
      /\ faults < MaxFaults /\ faults' = faults + 1
  BY DEF Damage, Fault
<1>2. TypeOK'
  BY <1>1, FileAssumption DEF FileInv, TypeOK
<1>3. writer.client = NoClient /\ (primary = acked \/ backup = acked)
  BY <1>1 DEF FileInv, ChangeInv, RecoveryInv
<1>4. acked \in Snapshots /\ ~IsSnapshot(primary')
  BY <1>1 DEF FileInv, TypeOK, IsSnapshot
<1>5. BackupInv'
  BY <1>1, <1>3, <1>4, FileAssumption, SnapshotFiles DEF FileInv, BackupInv, IsSnapshot
<1> QED BY <1>1, <1>2, <1>3, <1>4, <1>5 DEF FileInv, ChangeInv, RecoveryInv

(* A read takes a copy and nothing else. *)
LEMMA ReadKeeps ==
  ASSUME FileInv, NEW c \in Clients, NEW k \in Keys, Read(c, k)
  PROVE  FileInv'
<1>1. /\ UNCHANGED <<mem, primary, backup, writer, acked, saves, faults>>
      /\ copy' = [copy EXCEPT ![c][k] = [on |-> TRUE, rec |-> mem[k]]]
  BY DEF Read
<1>2. copy' \in [Clients -> [Keys -> [on : BOOLEAN, rec : Records]]]
  BY <1>1 DEF FileInv, TypeOK, Snapshots
<1>3. TypeOK'
  BY <1>1, <1>2 DEF FileInv, TypeOK
<1>4. ChangeInv' /\ RecoveryInv' /\ BackupInv'
  BY <1>1 DEF FileInv, ChangeInv, RecoveryInv, BackupInv, IsSnapshot
<1> QED BY <1>3, <1>4 DEF FileInv

(* Every step keeps the invariant, if no directory sync fails. *)
LEMMA FileInvStep ==
  ASSUME "sync" \notin FaultKinds
  PROVE  FileInv /\ [Next]_vars => FileInv'
<1> SUFFICES ASSUME FileInv, [Next]_vars PROVE FileInv'
  OBVIOUS
<1>1. CASE UNCHANGED vars
  BY <1>1 DEF vars, FileInv, TypeOK, ChangeInv, RecoveryInv, BackupInv, IsSnapshot
<1> QED
  BY <1>1, LoadKeeps, ReadKeeps, WriterKeeps, WriteBackupKeeps, WritePrimaryKeeps,
     AcknowledgeKeeps, WriteFailsKeeps, CrashKeeps, DamageKeeps DEF Next

(* FileInv holds from the first start on. *)
LEMMA FileInvHolds == ASSUME "sync" \notin FaultKinds PROVE Spec => []FileInv
<1>1. FileInv /\ [Next]_vars => FileInv'
  BY FileInvStep
<1> QED BY <1>1, FileInvInit, PTL DEF Spec

(* No acknowledged change is lost when writes fail and the process dies, and *)
(* a damaged primary costs the last one at most: whatever the number of      *)
(* records, clients, changes and faults.                                     *)
THEOREM AcknowledgedHolds ==
  ASSUME "sync" \notin FaultKinds
  PROVE  Spec => [](AcknowledgedSurvives /\ RecoveryLosesOneChange)
<1>1. FileInv => AcknowledgedSurvives
  <2> SUFFICES ASSUME FileInv, IsSnapshot(primary)
               PROVE  primary = acked \/ OneChange(acked, primary)
    BY Zenon DEF AcknowledgedSurvives, OneChange
  <2>1. writer.pc \in {"down", "idle", "backup", "primary", "sync"}
    BY DEF FileInv, TypeOK, Writers
  <2>2. CASE writer.client = NoClient
    BY <2>1, <2>2 DEF FileInv, RecoveryInv
  <2>3. CASE writer.client # NoClient
    BY <2>1, <2>3 DEF FileInv, ChangeInv
  <2> QED BY <2>2, <2>3
<1>2. FileInv => RecoveryLosesOneChange
  <2> SUFFICES ASSUME FileInv, ~IsSnapshot(primary), acked # Empty
               PROVE  IsSnapshot(backup) /\ (backup = acked \/ OneChange(backup, acked))
    BY Zenon DEF RecoveryLosesOneChange, OneChange
  <2> QED BY DEF FileInv, BackupInv
<1> QED BY <1>1, <1>2, FileInvHolds, PTL

(* The rename of the primary is the one step of a change that shows after a  *)
(* restart; the rename of a recovery writes what is recovered anyhow.        *)
LEMMA RenameIsOneChange ==
  ASSUME FileInv, WritePrimary
  PROVE  Recovered' = Recovered \/ OneChange(Recovered, Recovered')
<1>1. backup' = backup /\ writer.pc = "primary" /\ primary' = mem
  BY DEF WritePrimary
<1>2. /\ mem \in Snapshots /\ writer.before \in Snapshots
      /\ backup \in Snapshots \cup {Missing, Damaged}
  BY DEF FileInv, TypeOK, Writers
<1>3. Recovered' = mem
  BY <1>1, <1>2, SnapshotFiles DEF Recovered, IsSnapshot
<1>4. CASE writer.client # NoClient
  <2>1. primary = writer.before /\ OneChange(writer.before, mem)
    BY <1>1, <1>4 DEF FileInv, ChangeInv
  <2>2. Recovered = writer.before
    BY <1>2, <2>1, SnapshotFiles DEF Recovered
  <2> QED BY <1>3, <2>1, <2>2
<1>5. CASE writer.client = NoClient
  <2>1. ~IsSnapshot(primary) /\ (backup = mem \/ (backup = Missing /\ mem = Empty))
    BY <1>1, <1>5 DEF FileInv, RecoveryInv
  <2>2. Recovered = mem
    BY <1>2, <2>1, SnapshotFiles DEF Recovered, IsSnapshot
  <2> QED BY <1>3, <2>2
<1> QED BY <1>4, <1>5

(* The backup is written while the primary is valid, or again as it is. *)
LEMMA BackupIsStutter ==
  ASSUME FileInv, WriteBackup
  PROVE  Recovered' = Recovered
<1>1. primary' = primary /\ writer.pc = "backup" /\ backup' = writer.previous
  BY DEF WriteBackup
<1>2. CASE writer.client # NoClient
  <2>1. primary = writer.before /\ writer.before \in Snapshots
    BY <1>1, <1>2 DEF FileInv, ChangeInv, TypeOK, Writers
  <2> QED BY <1>1, <2>1, SnapshotFiles DEF Recovered, IsSnapshot
<1>3. CASE writer.client = NoClient
  BY <1>1, <1>3 DEF FileInv, RecoveryInv, Recovered, IsSnapshot
<1> QED BY <1>2, <1>3

(* A damaged primary takes back one change, or none. *)
LEMMA DamageTakesBackOneChange ==
  ASSUME FileInv, Damage
  PROVE  \/ Recovered' = Recovered
         \/ Recovered' \in Snapshots /\ OneChange(Recovered', Recovered)
<1>1. backup' = backup /\ IsSnapshot(primary) /\ primary' \in {Damaged, Missing}
  BY DEF Damage
<1>2. backup \in Snapshots \cup {Missing, Damaged} /\ ~IsSnapshot(primary')
  BY <1>1 DEF FileInv, TypeOK, IsSnapshot
<1>3. Recovered = primary
  BY <1>1 DEF Recovered
<1>4. CASE IsSnapshot(backup) /\ (primary = backup \/ OneChange(backup, primary))
  <2>1. Recovered' = backup /\ backup \in Snapshots
    BY <1>1, <1>2, <1>4, SnapshotFiles DEF Recovered, IsSnapshot
  <2> QED BY <1>3, <1>4, <2>1
<1>5. CASE backup = Missing /\ primary = Empty
  BY <1>1, <1>2, <1>3, <1>5 DEF Recovered, IsSnapshot
<1> QED BY <1>1, <1>4, <1>5 DEF FileInv, BackupInv

(* What a restart finds behaves as VersionedTable: the files change by one   *)
(* conditional save or one deletion at a time, through failing writes,       *)
(* crashes, recoveries and damaged files, for any number of each.            *)
THEOREM FileImplementsTable ==
  ASSUME "sync" \notin FaultKinds
  PROVE  Spec => DurableSpec
<1>1. Init => Durable!Init
  <2> SUFFICES ASSUME Init PROVE Recovered = Durable!EmptyTable
    BY DEF Durable!Init
  <2>1. primary = Missing /\ backup = Missing
    BY DEF Init
  <2> QED BY <2>1 DEF Recovered, IsSnapshot, Empty, NoRecord, Durable!EmptyTable, Durable!NoRecord
<1>2. FileInv /\ [Next]_vars => [Durable!Change \/ Durable!TakeBack]_Recovered
  <2> SUFFICES ASSUME FileInv, [Next]_vars
               PROVE  \/ Recovered' = Recovered
                      \/ OneChange(Recovered, Recovered')
                      \/ Recovered' \in Snapshots /\ OneChange(Recovered', Recovered)
    BY Zenon DEF Durable!Change, Durable!TakeBack, OneChange, Snapshots, Records, Durable!Records
  <2>1. primary' = primary /\ backup' = backup => Recovered' = Recovered
    BY DEF Recovered, IsSnapshot
  <2>2. CASE UNCHANGED vars
    BY <2>1, <2>2 DEF vars
  <2>3. CASE Load \/ Acknowledge \/ WriteFails \/ Crash
    BY <2>1, <2>3 DEF Load, Acknowledge, WriteFails, Crash
  <2>4. CASE \E c \in Clients, k \in Keys :
               Read(c, k) \/ Save(c, k) \/ InsertLifecycleEvent(c, k) \/ DeleteLifecycleEvent(c, k)
    BY <2>1, <2>4 DEF Read, Save, InsertLifecycleEvent, DeleteLifecycleEvent, Change
  <2> QED
    BY <2>2, <2>3, <2>4, BackupIsStutter, RenameIsOneChange, DamageTakesBackOneChange DEF Next
<1> QED BY <1>1, <1>2, FileInvHolds, PTL DEF Spec, DurableSpec, Durable!Spec
=============================================================================

---------------------------- MODULE Events_proofs ----------------------------
(***************************************************************************)
(* What holds of the archive of events, of the bus, its subscribers and the *)
(* dispatcher of the extensions, of what the consumers count, of what the   *)
(* exporter serves and of the form the policy gives to advice, for every    *)
(* value of the constants.                                                  *)
(***************************************************************************)
EXTENDS Dispatcher, Archive, MetricsExporter, Advice, Integers, Sums_proofs, SequenceTheorems, FiniteSetTheorems, TLAPS

(* The archive alone. *)
ArchiveSpec == ArchiveInit /\ [][ArchiveStep]_archiveVars

(* No write is torn: every line is whole, and is an event. *)
ArchiveFiles == [lines : Seq(Nat), torn : {FALSE}, old : BOOLEAN]

(* The files fs after t rotations: the file at path has what was written since *)
(* the last of them and may have older events, the first sibling has older    *)
(* ones, the others still older; and no event is lost that is not two        *)
(* rotations old, or one of those that are gone for their age.               *)
Bear(t) == born \in Seq(Nat) /\ Len(born) = lines /\ \A e \in 1 .. lines : born[e] \in Nat /\ born[e] <= t
Typed(fs) == fs \in [Siblings -> ArchiveFiles \cup {Missing}]
Dated(fs, t) ==
  \A i \in Siblings : \A e \in EventsIn(fs[i]) :
    e \in 1 .. lines /\ (i = 1 => born[e] + 1 <= t) /\ (i >= 2 => born[e] + 1 < t)
Retained(fs, t, gone) ==
  \A e \in (1 .. lines) \ gone : born[e] + 1 < t \/ \E i \in Siblings : e \in EventsIn(fs[i])
Current(fs, t) == \A e \in 1 .. lines : born[e] = t => e \in EventsIn(fs[0])
FilesInv(fs, t, gone) ==
  /\ t \in Nat /\ lines \in Nat
  /\ Bear(t) /\ Typed(fs) /\ Dated(fs, t) /\ Retained(fs, t, gone) /\ Current(fs, t)

(* The places a file may have, and the files there are none of. *)
LEMMA SiblingsAre ==
  /\ Siblings \subseteq Nat /\ 0 \in Siblings
  /\ MaxFiles > 0 => 1 \in Siblings /\ 2 \in Siblings /\ MaxFiles \in Nat /\ MaxFiles >= 2
  /\ EventsIn(Missing) = {} /\ EventsIn(NewFile) = {} /\ NewFile \in ArchiveFiles
  /\ Missing \notin ArchiveFiles
<1>1. /\ Siblings \subseteq Nat /\ 0 \in Siblings
      /\ MaxFiles > 0 => 1 \in Siblings /\ 2 \in Siblings /\ MaxFiles \in Nat /\ MaxFiles >= 2
  BY ArchiveAssumption DEF Siblings
<1>2. NewFile \in ArchiveFiles
  BY DEF NewFile, ArchiveFiles
<1>3. ArchiveFiles \subseteq [lines : Seq(Nat \cup {Garbage}), torn : BOOLEAN, old : BOOLEAN]
  <2>1. Seq(Nat) \subseteq Seq(Nat \cup {Garbage})
    OBVIOUS
  <2> QED BY <2>1 DEF ArchiveFiles
<1>4. Missing \notin ArchiveFiles
  BY <1>3, ArchiveAssumption
<1>5. EventsIn(Missing) = {}
  BY DEF EventsIn
<1>6. EventsIn(NewFile) = {}
  BY DEF EventsIn, NewFile
<1> QED BY <1>1, <1>2, <1>4, <1>5, <1>6

(* Before the file at path is moved, no line is of the turn that has begun,    *)
(* and the siblings have nothing of the one before either.                   *)
TurnedBack(fs, t) ==
  /\ \A e \in 1 .. lines : born[e] < t
  /\ \A i \in Siblings \ {0} : \A e \in EventsIn(fs[i]) : born[e] + 1 < t

(* A rotation begins: everything there is lies one turn further back. *)
LEMMA TurnKeeps ==
  ASSUME NEW fs, NEW t, NEW gone, FilesInv(fs, t, gone)
  PROVE  FilesInv(fs, t + 1, gone) /\ TurnedBack(fs, t + 1)
<1>1. t \in Nat /\ lines \in Nat /\ \A e \in 1 .. lines : born[e] \in Nat /\ born[e] <= t
  BY DEF FilesInv, Bear
<1>2. Siblings \subseteq Nat /\ 0 \in Siblings
  BY SiblingsAre
<1>3. Bear(t + 1) /\ t + 1 \in Nat /\ \A e \in 1 .. lines : born[e] < t + 1
  BY <1>1 DEF FilesInv, Bear
<1>4. ASSUME NEW i \in Siblings, NEW e \in EventsIn(fs[i])
      PROVE  e \in 1 .. lines /\ (i # 0 => born[e] + 1 < t + 1)
  <2>1. e \in 1 .. lines /\ (i = 1 => born[e] + 1 <= t) /\ (i >= 2 => born[e] + 1 < t)
    BY DEF FilesInv, Dated
  <2> QED BY <1>1, <1>2, <2>1
<1>5. Dated(fs, t + 1) /\ TurnedBack(fs, t + 1)
  <2>1. \A e \in 1 .. lines : born[e] + 1 < t + 1 => born[e] + 1 <= t + 1
    BY <1>1
  <2> QED BY <1>2, <1>3, <1>4, <2>1 DEF Dated, TurnedBack
<1>6. Retained(fs, t + 1, gone)
  <2> SUFFICES ASSUME NEW e \in (1 .. lines) \ gone, ~(born[e] + 1 < t + 1)
               PROVE  \E i \in Siblings : e \in EventsIn(fs[i])
    BY DEF Retained
  <2>1. born[e] = t
    BY <1>1
  <2> QED BY <1>2, <2>1 DEF FilesInv, Current
<1>7. Current(fs, t + 1)
  BY <1>1 DEF Current
<1> QED BY <1>3, <1>5, <1>6, <1>7 DEF FilesInv, Typed

(* A sibling that goes has nothing but events two turns back. *)
LEMMA RemoveKeeps ==
  ASSUME NEW fs, NEW t, NEW gone, FilesInv(fs, t, gone), NEW i \in Siblings \ {0},
         \A e \in EventsIn(fs[i]) : born[e] + 1 < t
  PROVE  /\ FilesInv(Without(fs, i), t, gone) /\ Without(fs, i)[0] = fs[0]
         /\ TurnedBack(fs, t) => TurnedBack(Without(fs, i), t)
<1> DEFINE new == Without(fs, i)
<1>1. Siblings \subseteq Nat /\ 0 \in Siblings /\ EventsIn(Missing) = {}
  BY SiblingsAre
<1>2. /\ new \in [Siblings -> ArchiveFiles \cup {Missing}] /\ new[0] = fs[0]
      /\ new[i] = Missing /\ \A k \in Siblings \ {i} : new[k] = fs[k]
  BY <1>1 DEF Without, FilesInv, Typed
<1> HIDE DEF new
<1>3. \A k \in Siblings : EventsIn(new[k]) \subseteq EventsIn(fs[k])
  BY <1>1, <1>2
<1>4. Dated(new, t) /\ (TurnedBack(fs, t) => TurnedBack(new, t))
  BY <1>3 DEF FilesInv, Dated, TurnedBack
<1>5. Retained(new, t, gone)
  <2> SUFFICES ASSUME NEW e \in (1 .. lines) \ gone, ~(born[e] + 1 < t)
               PROVE  \E k \in Siblings : e \in EventsIn(new[k])
    BY DEF Retained
  <2>1. PICK k \in Siblings : e \in EventsIn(fs[k])
    BY DEF FilesInv, Retained
  <2>2. k # i
    BY <2>1
  <2> QED BY <1>2, <2>1, <2>2
<1>6. Current(new, t)
  BY <1>2 DEF FilesInv, Current
<1> QED BY <1>2, <1>4, <1>5, <1>6 DEF FilesInv, Typed, new

(* A file that moves on takes the place of one two turns back, and is at least *)
(* as far back as its place says.                                            *)
LEMMA MoveKeeps ==
  ASSUME NEW fs, NEW t, NEW gone, FilesInv(fs, t, gone), TurnedBack(fs, t),
         NEW i \in Siblings, i + 1 \in Siblings
  PROVE  /\ FilesInv(Moved(fs, i), t, gone)
         /\ i # 0 => TurnedBack(Moved(fs, i), t) /\ Moved(fs, i)[0] = fs[0]
<1> DEFINE new == Moved(fs, i)
<1>1. t \in Nat /\ lines \in Nat /\ \A e \in 1 .. lines : born[e] \in Nat
  BY DEF FilesInv, Bear
<1>2. Siblings \subseteq Nat /\ 0 \in Siblings /\ EventsIn(Missing) = {}
  BY SiblingsAre
<1>3. /\ new \in [Siblings -> ArchiveFiles \cup {Missing}]
      /\ new[i] = Missing /\ new[i + 1] = fs[i]
      /\ \A k \in Siblings \ {i, i + 1} : new[k] = fs[k]
  BY <1>2 DEF Moved, FilesInv, Typed
<1> HIDE DEF new
<1>4. ASSUME NEW k \in Siblings, NEW e \in EventsIn(new[k])
      PROVE  e \in 1 .. lines /\ (k = 1 => born[e] + 1 <= t) /\ (k >= 2 => born[e] + 1 < t)
             /\ (i # 0 /\ k # 0 => born[e] + 1 < t)
  <2>1. CASE k = i
    BY <1>2, <1>3, <1>4, <2>1
  <2>2. CASE k = i + 1
    <3>1. e \in EventsIn(fs[i])
      BY <1>3, <1>4, <2>2
    <3>2. e \in 1 .. lines /\ born[e] < t /\ (i # 0 => born[e] + 1 < t)
      BY <3>1 DEF FilesInv, Dated, TurnedBack
    <3> QED BY <1>1, <1>2, <2>2, <3>2
  <2>3. CASE k # i /\ k # i + 1
    <3>1. e \in EventsIn(fs[k])
      BY <1>3, <1>4, <2>3
    <3> QED BY <3>1 DEF FilesInv, Dated, TurnedBack
  <2> QED BY <2>1, <2>2, <2>3
<1>5. Dated(new, t) /\ (i # 0 => TurnedBack(new, t))
  <2>1. \A e \in 1 .. lines : born[e] < t
    BY DEF TurnedBack
  <2> QED BY <1>4, <2>1 DEF Dated, TurnedBack
<1>6. Retained(new, t, gone)
  <2> SUFFICES ASSUME NEW e \in (1 .. lines) \ gone, ~(born[e] + 1 < t)
               PROVE  \E k \in Siblings : e \in EventsIn(new[k])
    BY DEF Retained
  <2>1. PICK k \in Siblings : e \in EventsIn(fs[k])
    BY DEF FilesInv, Retained
  <2>2. k = 0
    BY <2>1 DEF TurnedBack
  <2>3. CASE i = 0
    BY <1>3, <2>1, <2>2, <2>3
  <2>4. CASE i # 0
    <3>1. k # i /\ k # i + 1
      BY <1>2, <2>2, <2>4
    <3> QED BY <1>3, <2>1, <3>1
  <2> QED BY <2>3, <2>4
<1>7. Current(new, t)
  BY <1>1 DEF Current, TurnedBack
<1>8. i # 0 => new[0] = fs[0]
  BY <1>2, <1>3
<1> QED BY <1>3, <1>5, <1>6, <1>7, <1>8 DEF FilesInv, Typed, new

(* A new file takes the free path. *)
LEMMA NewFileKeeps ==
  ASSUME NEW fs, NEW t, NEW gone, FilesInv(fs, t, gone)
  PROVE  FilesInv(Created(fs), t, gone) /\ Created(fs)[0] # Missing
<1> DEFINE new == [fs EXCEPT ![0] = NewFile]
<1>1. Siblings \subseteq Nat /\ 0 \in Siblings /\ EventsIn(Missing) = {} /\ EventsIn(NewFile) = {}
      /\ NewFile \in ArchiveFiles
  BY SiblingsAre
<1>2. /\ new \in [Siblings -> ArchiveFiles \cup {Missing}] /\ new[0] = NewFile
      /\ fs[0] = Missing => \A i \in Siblings : EventsIn(new[i]) = EventsIn(fs[i])
  BY <1>1 DEF FilesInv, Typed
<1>3. fs[0] = Missing => FilesInv(new, t, gone)
  <2> HIDE DEF new
  <2> QED BY <1>1, <1>2 DEF FilesInv, Typed, Dated, Retained, Current
<1>4. CASE fs[0] = Missing
  BY <1>1, <1>2, <1>3, <1>4, SiblingsAre DEF Created
<1>5. CASE fs[0] # Missing
  BY <1>5 DEF Created
<1> QED BY <1>4, <1>5

(* Open removes the first sibling for its age: its events count as gone. *)
LEMMA AgedKeeps ==
  ASSUME NEW fs, NEW t, NEW gone, FilesInv(fs, t, gone), MaxFiles > 0
  PROVE  /\ FilesInv(Without(fs, 1), t, gone \cup EventsIn(fs[1]))
         /\ Without(fs, 1)[0] = fs[0]
<1> DEFINE new == Without(fs, 1)
<1>1. Siblings \subseteq Nat /\ 0 \in Siblings /\ 1 \in Siblings /\ EventsIn(Missing) = {}
  BY SiblingsAre
<1>2. /\ new \in [Siblings -> ArchiveFiles \cup {Missing}] /\ new[0] = fs[0]
      /\ new[1] = Missing /\ \A i \in Siblings \ {1} : new[i] = fs[i]
  BY <1>1 DEF Without, FilesInv, Typed
<1> HIDE DEF new
<1>3. Dated(new, t)
  BY <1>1, <1>2 DEF FilesInv, Dated
<1>4. Retained(new, t, gone \cup EventsIn(fs[1]))
  BY <1>1, <1>2 DEF FilesInv, Retained
<1>5. Current(new, t)
  BY <1>1, <1>2 DEF FilesInv, Current
<1> QED BY <1>2, <1>3, <1>4, <1>5 DEF FilesInv, Typed, new

(* Files that have the same events, and the same shape, keep it too. *)
LEMMA SameEventsKeep ==
  ASSUME NEW fs, NEW t, NEW gone, FilesInv(fs, t, gone), NEW new, Typed(new),
         \A i \in Siblings : EventsIn(new[i]) = EventsIn(fs[i])
  PROVE  FilesInv(new, t, gone)
<1>1. 0 \in Siblings
  BY SiblingsAre
<1> QED BY <1>1 DEF FilesInv, Dated, Retained, Current

(* The variables of a replay. *)
Replays == [on : BOOLEAN, acked : SUBSET Nat, turn : Nat, result : SUBSET Nat]

(* The files, and which of them there are at every step of a rotation; what a *)
(* replay asks for had been acknowledged, and its result has it.             *)
ArchiveInv ==
  /\ FilesInv(files, turn, aged)
  /\ archive \in Steps /\ handle \in BOOLEAN
  /\ caller \in Callers /\ place \in Siblings
  /\ archive \in {"shift", "prune"} => MaxFiles > 0
  /\ handle => Exists(0)
  /\ archive \in {"prune", "write", "sync"} => handle
  /\ archive = "shift" => ~handle /\ TurnedBack(files, turn) /\ place < MaxFiles
  /\ archive = "prune" => place >= 1
  /\ archive = "sync" => lines >= 1
  /\ acknowledged \subseteq 1 .. lines
  /\ replay \in Replays /\ replay.acked \subseteq acknowledged
  /\ ReplayHasAcknowledged

(* What FilesInv says depends on the lines and when they were written, too. *)
LEMMA FilesInvFrame ==
  ASSUME UNCHANGED <<lines, born>>, FilesInv(files', turn', aged')
  PROVE  FilesInv(files, turn, aged)'
BY DEF FilesInv, Bear, Typed, Dated, Retained, Current, EventsIn

LEMMA TurnedBackFrame ==
  ASSUME UNCHANGED <<lines, born>>, TurnedBack(files', turn')
  PROVE  TurnedBack(files, turn)'
BY DEF TurnedBack, EventsIn

(* A rotation begins, for Open or an Append. *)
LEMMA BeginKeeps ==
  ASSUME ArchiveInv, MaxFiles > 0, NEW c \in Callers, BeginRotation(c),
         UNCHANGED <<files, lines, born, acknowledged, aged, replay>>
  PROVE  ArchiveInv'
<1>1. archive' = "shift" /\ caller' = c /\ place' = MaxFiles - 1 /\ turn' = turn + 1 /\ handle' = FALSE
  BY DEF BeginRotation
<1>2. FilesInv(files', turn', aged') /\ TurnedBack(files', turn')
  BY <1>1, TurnKeeps DEF ArchiveInv
<1>3. FilesInv(files, turn, aged)' /\ TurnedBack(files, turn)'
  BY <1>2, FilesInvFrame, TurnedBackFrame
<1>4. MaxFiles \in Nat /\ MaxFiles >= 2 /\ MaxFiles - 1 \in Siblings
  BY SiblingsAre DEF Siblings
<1>5. place' \in Siblings /\ place' < MaxFiles
  BY <1>1, <1>4
<1> QED BY <1>1, <1>3, <1>5 DEF ArchiveInv, Exists, Steps, ReplayHasAcknowledged

(* Open rotates a stale file, or goes on to open the one there is. *)
LEMMA OpenKeeps ==
  ASSUME ArchiveInv, Open
  PROVE  ArchiveInv'
<1>1. UNCHANGED <<files, lines, born, acknowledged, aged, replay>> /\ archive = "down"
  BY DEF Open
<1>2. CASE MaxFiles > 0 /\ BeginRotation("stale")
  BY <1>1, <1>2, BeginKeeps DEF Callers
<1>3. CASE archive' = "reopen" /\ caller' = "open" /\ UNCHANGED <<place, turn, handle>>
  <2>1. FilesInv(files, turn, aged)'
    BY <1>1, <1>3, FilesInvFrame DEF ArchiveInv
  <2> QED BY <1>1, <1>3, <2>1 DEF ArchiveInv, Exists, Steps, Callers, ReplayHasAcknowledged
<1> QED BY <1>2, <1>3 DEF Open

(* A file is moved, or the last one removed. *)
LEMMA ShiftKeeps ==
  ASSUME ArchiveInv, Shift
  PROVE  ArchiveInv'
<1>1. /\ UNCHANGED <<caller, handle, lines, turn, born, acknowledged, aged, replay>>
      /\ archive = "shift" /\ TurnedBack(files, turn) /\ FilesInv(files, turn, aged)
      /\ place \in Siblings /\ place < MaxFiles /\ MaxFiles > 0
  BY DEF Shift, ArchiveInv
<1>2. MaxFiles \in Nat /\ MaxFiles >= 2 /\ 0 \in Siblings /\ Siblings = 0 .. MaxFiles
  BY <1>1, SiblingsAre DEF Siblings
<1>3. FilesInv(files', turn, aged) /\ (place # 0 => TurnedBack(files', turn) /\ files'[0] = files[0])
  <2>1. CASE place = MaxFiles - 1
    <3>1. files' = Without(files, place) /\ place \in Siblings \ {0}
      BY <1>1, <1>2, <2>1 DEF Shift
    <3>2. \A e \in EventsIn(files[place]) : born[e] + 1 < turn
      BY <1>1, <3>1 DEF TurnedBack
    <3> QED BY <1>1, <3>1, <3>2, RemoveKeeps
  <2>2. CASE place # MaxFiles - 1 /\ files' = Moved(files, place)
    <3>1. place + 1 \in Siblings
      BY <1>1, <1>2
    <3> QED BY <1>1, <2>2, <3>1, MoveKeeps
  <2>3. CASE files' = files
    BY <1>1, <2>3
  <2> QED BY <2>1, <2>2, <2>3 DEF Shift
<1>4. FilesInv(files, turn, aged)'
  BY <1>1, <1>3, FilesInvFrame
<1>5. CASE place = 0
  <2>1. archive' = "reopen" /\ place' = place
    BY <1>5 DEF Shift
  <2>2. ~handle
    BY <1>1 DEF ArchiveInv
  <2> QED BY <1>1, <1>4, <2>1, <2>2 DEF ArchiveInv, Exists, Steps, ReplayHasAcknowledged
<1>6. CASE place # 0
  <2>1. archive' = "shift" /\ place' = place - 1 /\ place - 1 \in Siblings /\ place - 1 < MaxFiles
    BY <1>1, <1>2, <1>6 DEF Shift
  <2>2. TurnedBack(files, turn)'
    BY <1>1, <1>3, <1>6, TurnedBackFrame
  <2> QED BY <1>1, <1>3, <1>4, <1>6, <2>1, <2>2 DEF ArchiveInv, Exists, Steps, ReplayHasAcknowledged
<1> QED BY <1>5, <1>6

(* The file at path is opened, and made if there is none. *)
LEMMA ReopenKeeps ==
  ASSUME ArchiveInv, Reopen
  PROVE  ArchiveInv'
<1>1. /\ files' = Created(files) /\ handle' = TRUE
      /\ UNCHANGED <<caller, lines, turn, born, acknowledged, aged, replay>>
      /\ \/ MaxFiles > 0 /\ archive' = "prune" /\ place' = MaxFiles
         \/ archive' = "idle" /\ place' = place
  BY DEF Reopen
<1>2. FilesInv(files', turn, aged) /\ files'[0] # Missing
  BY <1>1, NewFileKeeps DEF ArchiveInv
<1>3. FilesInv(files, turn, aged)'
  BY <1>1, <1>2, FilesInvFrame
<1>4. MaxFiles > 0 => MaxFiles \in Siblings /\ MaxFiles >= 1
  BY SiblingsAre DEF Siblings
<1> QED BY <1>1, <1>2, <1>3, <1>4 DEF ArchiveInv, Exists, Steps, ReplayHasAcknowledged

(* A sibling beyond the first goes, or the first one for its age. *)
LEMMA PruneKeeps ==
  ASSUME ArchiveInv, Prune
  PROVE  ArchiveInv'
<1>1. /\ UNCHANGED <<caller, handle, lines, turn, born, acknowledged, replay>>
      /\ archive = "prune" /\ handle /\ Exists(0) /\ MaxFiles > 0 /\ place \in Siblings /\ place >= 1
      /\ FilesInv(files, turn, aged)
      /\ \/ archive' = "prune" /\ place > 1 /\ place' = place - 1
         \/ archive' \in {"write", "idle"} /\ place' = place
  BY DEF Prune, Pruned, ArchiveInv
<1>2. MaxFiles \in Nat /\ MaxFiles >= 2 /\ 0 \in Siblings /\ Siblings = 0 .. MaxFiles
  BY <1>1, SiblingsAre DEF Siblings
<1>3. FilesInv(files', turn, aged') /\ files'[0] = files[0]
  <2>1. CASE place > 1
    <3>1. files' = Without(files, place) /\ aged' = aged /\ place \in Siblings \ {0} /\ place >= 2
      BY <1>1, <1>2, <2>1 DEF Prune
    <3>2. \A e \in EventsIn(files[place]) : born[e] + 1 < turn
      BY <1>1, <3>1 DEF FilesInv, Dated
    <3> QED BY <1>1, <3>1, <3>2, RemoveKeeps
  <2>2. CASE files' = Without(files, 1) /\ aged' = aged \cup EventsIn(files[1])
    BY <1>1, <2>2, AgedKeeps
  <2>3. CASE files' = files /\ aged' = aged
    BY <1>1, <2>3
  <2>4. place > 1 \/ place = 1
    BY <1>1, <1>2
  <2> QED BY <2>1, <2>2, <2>3, <2>4 DEF Prune
<1>4. FilesInv(files, turn, aged)'
  BY <1>1, <1>3, FilesInvFrame
<1>5. archive' = "prune" => place' \in Siblings /\ place' >= 1
  BY <1>1, <1>2
<1>6. place' \in Siblings
  BY <1>1, <1>5
<1> QED BY <1>1, <1>3, <1>4, <1>5, <1>6 DEF ArchiveInv, Exists, Steps, ReplayHasAcknowledged

(* A failing step leaves the files as they are, or a new one at path. *)
LEMMA RotateFailsKeeps ==
  ASSUME ArchiveInv, RotateFails
  PROVE  ArchiveInv'
<1>1. /\ files' \in {files, Created(files)}
      /\ archive' \in {"idle", "down"} /\ handle' = (handle /\ caller = "append")
      /\ UNCHANGED <<caller, place, lines, turn, born, acknowledged, aged, replay>>
  BY DEF RotateFails
<1>2. FilesInv(files', turn, aged) /\ (files[0] # Missing => files'[0] # Missing)
  BY <1>1, NewFileKeeps DEF ArchiveInv
<1>3. FilesInv(files, turn, aged)'
  BY <1>1, <1>2, FilesInvFrame
<1> QED BY <1>1, <1>2, <1>3 DEF ArchiveInv, Exists, Steps, ReplayHasAcknowledged

(* A line is written whole, or fails and leaves nothing: it is in the file at *)
(* path, born in this turn.                                                   *)
LEMMA WriteKeeps ==
  ASSUME "torn" \notin FailureKinds, ArchiveInv, WriteLine
  PROVE  ArchiveInv'
<1>1. /\ archive = "write" /\ archive' = "sync" /\ lines' = lines + 1 /\ born' = Append(born, turn)
      /\ files' = [files EXCEPT ![0] = WithLine(files[0], lines + 1)]
      /\ UNCHANGED <<caller, place, handle, turn, acknowledged, aged, replay>>
  BY DEF WriteLine, Failure
<1>2. /\ turn \in Nat /\ lines \in Nat /\ born \in Seq(Nat) /\ Len(born) = lines
      /\ \A e \in 1 .. lines : born[e] \in Nat /\ born[e] <= turn
      /\ files \in [Siblings -> ArchiveFiles \cup {Missing}]
  BY DEF ArchiveInv, FilesInv, Bear, Typed
<1>3. 0 \in Siblings /\ Siblings \subseteq Nat /\ Missing \notin ArchiveFiles
  BY SiblingsAre
<1>4. files[0] \in ArchiveFiles /\ files[0].lines \in Seq(Nat)
  BY <1>1, <1>2, <1>3 DEF ArchiveInv, Exists, ArchiveFiles
<1>5. PICK f : f = WithLine(files[0], lines + 1)
  OBVIOUS
<1>6. f \in ArchiveFiles /\ f.lines = Append(files[0].lines, lines + 1)
  <2>1. files[0].torn = FALSE
    BY <1>4 DEF ArchiveFiles
  <2>2. f = [lines |-> Append(files[0].lines, lines + 1), torn |-> FALSE, old |-> FALSE]
    BY <1>5, <2>1 DEF WithLine
  <2>3. Append(files[0].lines, lines + 1) \in Seq(Nat)
    BY <1>2, <1>4
  <2> QED BY <2>2, <2>3 DEF ArchiveFiles
<1>7. EventsIn(f) = EventsIn(files[0]) \cup {lines + 1}
  <2>1. EventsIn(f) = {f.lines[i] : i \in DOMAIN f.lines} /\ EventsIn(files[0]) = {files[0].lines[i] : i \in DOMAIN files[0].lines}
    <3>1. f # Missing /\ files[0] # Missing /\ Garbage \notin Nat
      BY <1>3, <1>4, <1>6, ArchiveAssumption
    <3>2. (\A i \in DOMAIN f.lines : f.lines[i] # Garbage) /\ \A i \in DOMAIN files[0].lines : files[0].lines[i] # Garbage
      <4>1. f.lines \in Seq(Nat) /\ files[0].lines \in Seq(Nat)
        BY <1>4, <1>6 DEF ArchiveFiles
      <4>2. \A q \in Seq(Nat) : \A i \in DOMAIN q : q[i] # Garbage
        BY <3>1
      <4> QED BY <4>1, <4>2
    <3> QED BY <3>1, <3>2 DEF EventsIn
  <2>2. PICK q \in Seq(Nat) : q = files[0].lines
    BY <1>4
  <2>3. \A e : (\E i \in DOMAIN Append(q, lines + 1) : e = Append(q, lines + 1)[i])
               <=> (\E i \in DOMAIN q : e = q[i]) \/ e = lines + 1
    <3>1. DOMAIN Append(q, lines + 1) = 1 .. (Len(q) + 1) /\ DOMAIN q = 1 .. Len(q) /\ Len(q) \in Nat
          /\ Append(q, lines + 1)[Len(q) + 1] = lines + 1
          /\ \A i \in 1 .. Len(q) : Append(q, lines + 1)[i] = q[i]
      OBVIOUS
    <3> QED BY <3>1
  <2>4. EventsIn(f) = {Append(q, lines + 1)[i] : i \in DOMAIN Append(q, lines + 1)}
        /\ EventsIn(files[0]) = {q[i] : i \in DOMAIN q}
    BY <1>6, <2>1, <2>2
  <2>5. \A e : e \in EventsIn(f) <=> \E i \in DOMAIN Append(q, lines + 1) : e = Append(q, lines + 1)[i]
    BY <2>4
  <2>6. \A e : e \in EventsIn(files[0]) <=> \E i \in DOMAIN q : e = q[i]
    BY <2>4
  <2> QED BY <2>3, <2>5, <2>6
<1>8. /\ files'[0] = f /\ files' \in [Siblings -> ArchiveFiles \cup {Missing}]
      /\ \A i \in Siblings \ {0} : files'[i] = files[i]
  BY <1>1, <1>2, <1>3, <1>5, <1>6
<1>9. /\ lines' \in Nat /\ turn' \in Nat /\ born' \in Seq(Nat) /\ Len(born') = lines'
      /\ born'[lines + 1] = turn /\ \A e \in 1 .. lines : born'[e] = born[e]
      /\ \A e \in 1 .. lines' : e \in 1 .. lines \/ e = lines + 1
      /\ 1 .. lines \subseteq 1 .. lines' /\ lines + 1 \in 1 .. lines' /\ turn' = turn /\ lines' >= 1
  BY <1>1, <1>2
<1>10. \A e \in 1 .. lines' : born'[e] \in Nat /\ born'[e] <= turn'
  BY <1>2, <1>9
<1>11. \A i \in Siblings : \A e \in EventsIn(files'[i]) :
         e \in 1 .. lines' /\ (i = 1 => born'[e] + 1 <= turn') /\ (i >= 2 => born'[e] + 1 < turn')
  <2> SUFFICES ASSUME NEW i \in Siblings, NEW e \in EventsIn(files'[i])
               PROVE  e \in 1 .. lines' /\ (i = 1 => born'[e] + 1 <= turn') /\ (i >= 2 => born'[e] + 1 < turn')
    OBVIOUS
  <2>1. CASE i = 0
    BY <1>7, <1>8, <1>9, <1>3, <2>1 DEF ArchiveInv, FilesInv, Dated
  <2>2. CASE i # 0
    <3>1. e \in 1 .. lines /\ (i = 1 => born[e] + 1 <= turn) /\ (i >= 2 => born[e] + 1 < turn)
      BY <1>8, <2>2 DEF ArchiveInv, FilesInv, Dated
    <3> QED BY <1>9, <3>1
  <2> QED BY <2>1, <2>2
<1>12. \A e \in (1 .. lines') \ aged' : born'[e] + 1 < turn' \/ \E i \in Siblings : e \in EventsIn(files'[i])
  <2> SUFFICES ASSUME NEW e \in (1 .. lines') \ aged', ~(born'[e] + 1 < turn')
               PROVE  \E i \in Siblings : e \in EventsIn(files'[i])
    OBVIOUS
  <2>1. CASE e = lines + 1
    BY <1>3, <1>7, <1>8, <2>1
  <2>2. CASE e \in 1 .. lines
    <3>1. PICK i \in Siblings : e \in EventsIn(files[i])
      BY <1>1, <1>9, <2>2 DEF ArchiveInv, FilesInv, Retained
    <3> QED BY <1>7, <1>8, <3>1
  <2> QED BY <1>9, <2>1, <2>2
<1>13. \A e \in 1 .. lines' : born'[e] = turn' => e \in EventsIn(files'[0])
  BY <1>7, <1>8, <1>9 DEF ArchiveInv, FilesInv, Current
<1>14. FilesInv(files, turn, aged)'
  BY <1>8, <1>9, <1>10, <1>11, <1>12, <1>13 DEF FilesInv, Bear, Typed, Dated, Retained, Current, EventsIn
<1> QED BY <1>1, <1>3, <1>6, <1>8, <1>9, <1>14 DEF ArchiveInv, Exists, Steps, ReplayHasAcknowledged

(* A replay reads one file after the other, and has what was acknowledged     *)
(* when it began.                                                             *)
LEMMA ReadKeeps ==
  ASSUME ArchiveInv, ReplayReads
  PROVE  ArchiveInv'
<1>1. UNCHANGED <<files, archive, caller, place, handle, lines, turn, born, acknowledged, aged, failures>>
  BY DEF ReplayReads
<1>2. FilesInv(files, turn, aged)'
  BY <1>1, FilesInvFrame DEF ArchiveInv
<1>3. replay' \in Replays /\ replay'.acked \subseteq acknowledged /\ replay'.acked \subseteq replay'.result
  <2>1. CASE replay' = NoReplay
    BY <2>1 DEF NoReplay, Replays
  <2>2. CASE Exists(0) /\ replay' = [on |-> FALSE, acked |-> {e \in replay.acked : born[e] = turn},
                                     turn |-> turn, result |-> Readable(files[0])]
    <3>1. turn \in Nat /\ lines \in Nat /\ 0 \in Siblings /\ replay.acked \subseteq 1 .. lines
      BY SiblingsAre DEF ArchiveInv, FilesInv
    <3>2. Readable(files[0]) \subseteq 1 .. lines
      BY <3>1 DEF Readable, ArchiveInv, FilesInv, Dated
    <3>3. {e \in replay.acked : born[e] = turn} \subseteq Readable(files[0])
      BY <3>1 DEF Readable, ArchiveInv, FilesInv, Current
    <3>4. \A e \in 1 .. lines : e \in Nat
      BY <3>1
    <3> QED BY <2>2, <3>1, <3>2, <3>3, <3>4 DEF Replays, ArchiveInv
  <2> QED BY <2>1, <2>2 DEF ReplayReads
<1>4. archive = "shift" => TurnedBack(files, turn)'
  BY <1>1, TurnedBackFrame DEF ArchiveInv
<1> QED BY <1>1, <1>2, <1>3, <1>4 DEF ArchiveInv, Exists, ReplayHasAcknowledged

(* The steps that leave the files, and the rotations, alone. *)
LEMMA OtherStepsKeep ==
  ASSUME ArchiveInv, StartAppend \/ Sync \/ CloseArchive \/ CrashArchive \/ ReplayBegins
                     \/ UNCHANGED archiveVars
  PROVE  ArchiveInv'
<1>1. UNCHANGED <<files, lines, born, aged>> /\ (turn' = turn \/ StartAppend)
  BY DEF StartAppend, Sync, CloseArchive, CrashArchive, ReplayBegins, archiveVars
<1>2. turn' = turn => FilesInv(files, turn, aged)'
  BY <1>1, FilesInvFrame DEF ArchiveInv
<1>0. turn' = turn /\ archive = "shift" => TurnedBack(files, turn)'
  BY <1>1, TurnedBackFrame DEF ArchiveInv
<1>3. CASE StartAppend /\ MustRotate
  BY <1>3, BeginKeeps DEF StartAppend, MustRotate, Callers
<1>4. CASE StartAppend /\ ~MustRotate
  BY <1>1, <1>2, <1>4 DEF StartAppend, ArchiveInv, Exists, Steps, ReplayHasAcknowledged
<1>5. CASE Sync
  <2>1. lines \in Nat /\ lines \in 1 .. lines
    BY <1>5 DEF Sync, ArchiveInv, FilesInv
  <2>2. acknowledged' \subseteq 1 .. lines /\ acknowledged \subseteq acknowledged'
    BY <1>5, <2>1 DEF Sync, ArchiveInv
  <2> QED BY <1>1, <1>2, <1>5, <2>2 DEF Sync, ArchiveInv, Exists, Steps, ReplayHasAcknowledged
<1>6. CASE CloseArchive
  BY <1>1, <1>2, <1>6 DEF CloseArchive, ArchiveInv, Exists, Steps, ReplayHasAcknowledged
<1>7. CASE CrashArchive
  <2>1. NoReplay \in Replays /\ NoReplay.acked = {} /\ NoReplay.result = {}
    BY DEF NoReplay, Replays
  <2> QED BY <1>1, <1>2, <1>7, <2>1 DEF CrashArchive, ArchiveInv, Exists, Steps, ReplayHasAcknowledged
<1>8. CASE ReplayBegins
  <2>1. acknowledged \subseteq Nat /\ turn \in Nat
    <3>1. \A e \in 1 .. lines : e \in Nat
      BY DEF ArchiveInv, FilesInv
    <3> QED BY <3>1 DEF ArchiveInv, FilesInv
  <2>2. replay' = [on |-> TRUE, acked |-> acknowledged, turn |-> turn, result |-> {}]
    BY <1>8 DEF ReplayBegins
  <2>3. replay' \in Replays /\ replay'.acked = acknowledged /\ replay'.on
    BY <2>1, <2>2 DEF Replays
  <2> QED BY <1>0, <1>1, <1>2, <1>8, <2>3 DEF ReplayBegins, ArchiveInv, Exists, ReplayHasAcknowledged
<1>9. CASE UNCHANGED archiveVars
  BY <1>0, <1>1, <1>2, <1>9 DEF archiveVars, ArchiveInv, Exists, ReplayHasAcknowledged
<1> QED BY <1>3, <1>4, <1>5, <1>6, <1>7, <1>8, <1>9

(* A file gets old: its events stay. *)
LEMMA AgeKeeps ==
  ASSUME ArchiveInv, NEW i \in Siblings, Age(i)
  PROVE  ArchiveInv'
<1>1. /\ files' = [files EXCEPT ![i] = [files[i] EXCEPT !.old = TRUE]] /\ files[i] # Missing
      /\ UNCHANGED <<archive, caller, place, handle, lines, turn, born, acknowledged, aged, replay>>
  BY DEF Age, Exists
<1>2. files \in [Siblings -> ArchiveFiles \cup {Missing}] /\ files[i] \in ArchiveFiles
  BY <1>1 DEF ArchiveInv, FilesInv, Typed
<1>3. PICK f : f = [files[i] EXCEPT !.old = TRUE]
  OBVIOUS
<1>4. f \in ArchiveFiles /\ f.lines = files[i].lines /\ f # Missing
  BY <1>2, <1>3, SiblingsAre DEF ArchiveFiles
<1>5. EventsIn(f) = EventsIn(files[i])
  BY <1>1, <1>4 DEF EventsIn
<1>6. files' \in [Siblings -> ArchiveFiles \cup {Missing}] /\ files'[i] = f
      /\ \A k \in Siblings \ {i} : files'[k] = files[k]
  BY <1>1, <1>2, <1>3, <1>4
<1>7. FilesInv(files', turn', aged')
  BY <1>1, <1>5, <1>6, SameEventsKeep DEF ArchiveInv, Typed
<1>8. FilesInv(files, turn, aged)'
  BY <1>1, <1>7, FilesInvFrame
<1>9. 0 \in Siblings /\ MaxFiles > 0 /\ 1 \in Siblings
  BY SiblingsAre DEF Age
<1>10. \A k \in Siblings : files'[k] = Missing <=> files[k] = Missing
  BY <1>1, <1>4, <1>6
<1>11. archive = "shift" => TurnedBack(files, turn)'
  <2>1. \A k \in Siblings : EventsIn(files'[k]) = EventsIn(files[k])
    BY <1>5, <1>6
  <2>2. archive = "shift" => TurnedBack(files', turn')
    BY <1>1, <2>1 DEF ArchiveInv, TurnedBack
  <2> QED BY <1>1, <2>2, TurnedBackFrame DEF Age
<1> QED BY <1>1, <1>8, <1>9, <1>10, <1>11 DEF ArchiveInv, Exists, ReplayHasAcknowledged

(* ArchiveInv is an invariant, when no write is torn. *)
LEMMA ArchiveInvHolds ==
  ASSUME "torn" \notin FailureKinds
  PROVE  ArchiveSpec => []ArchiveInv
<1>1. ArchiveInit => ArchiveInv
  <2> SUFFICES ASSUME ArchiveInit PROVE ArchiveInv
    OBVIOUS
  <2>1. /\ \A i \in Siblings : files[i] = Missing
        /\ files \in [Siblings -> ArchiveFiles \cup {Missing}] /\ born \in Seq(Nat) /\ Len(born) = 0 /\ lines = 0
        /\ 1 .. lines = {}
    BY DEF ArchiveInit
  <2>2. FilesInv(files, turn, aged)
    BY <2>1, SiblingsAre DEF ArchiveInit, FilesInv, Bear, Typed, Dated, Retained, Current
  <2>3. NoReplay \in Replays /\ NoReplay.acked = {} /\ NoReplay.result = {}
    BY DEF NoReplay, Replays
  <2> QED BY <2>2, <2>3, SiblingsAre DEF ArchiveInit, ArchiveInv, Exists, Steps, Callers, ReplayHasAcknowledged
<1>2. ArchiveInv /\ [ArchiveStep]_archiveVars => ArchiveInv'
  <2> SUFFICES ASSUME ArchiveInv, [ArchiveStep]_archiveVars PROVE ArchiveInv'
    OBVIOUS
  <2> QED BY OpenKeeps, ShiftKeeps, ReopenKeeps, PruneKeeps, RotateFailsKeeps, WriteKeeps, ReadKeeps,
        OtherStepsKeep, AgeKeeps DEF ArchiveStep
<1> QED BY <1>1, <1>2, PTL DEF ArchiveSpec

(* An event that Append has acknowledged stays in the files until two         *)
(* rotations have begun or its file is removed for its age, through failures *)
(* and crashes, as long as no write is torn: the line after a torn one is     *)
(* part of it.                                                                *)
THEOREM KeptHolds ==
  ASSUME "torn" \notin FailureKinds
  PROVE  ArchiveSpec => []AcknowledgedIsKept
<1>1. ArchiveInv => AcknowledgedIsKept
  BY DEF ArchiveInv, FilesInv, Retained, AcknowledgedIsKept, Kept
<1> QED BY <1>1, ArchiveInvHolds, PTL

(* A replay returns every event that was acknowledged when it began and is    *)
(* kept.                                                                      *)
THEOREM ReplayHolds ==
  ASSUME "torn" \notin FailureKinds
  PROVE  ArchiveSpec => []ReplayHasAcknowledged
<1>1. ArchiveInv => ReplayHasAcknowledged
  BY DEF ArchiveInv
<1> QED BY <1>1, ArchiveInvHolds, PTL

(* The bus, its subscribers and the dispatcher. *)
DispatcherSpec == BusInit /\ DispatcherInit /\ [][BusStep \/ DispatcherStep]_<<busVars, dispatcherVars>>

(* The elements of a sequence and one more. *)
LEMMA ElementsOfOne ==
  ASSUME NEW S, NEW a \in Seq(S), NEW e \in S
  PROVE  ElementsOf(Append(a, e)) = ElementsOf(a) \cup {e}
<1>1. DOMAIN a = 1 .. Len(a) /\ Len(a) \in Nat
  BY LenProperties
<1>2. DOMAIN Append(a, e) = 1 .. Len(a) + 1 /\ Append(a, e)[Len(a) + 1] = e
      /\ \A i \in 1 .. Len(a) : Append(a, e)[i] = a[i]
  BY AppendProperties, LenProperties
<1>3. \A v : v \in ElementsOf(Append(a, e)) <=> \E i \in DOMAIN Append(a, e) : v = Append(a, e)[i]
  BY DEF ElementsOf
<1>4. \A v : v \in ElementsOf(a) <=> \E i \in DOMAIN a : v = a[i]
  BY DEF ElementsOf
<1> QED BY <1>1, <1>2, <1>3, <1>4

(* One element, and none. *)
LEMMA ElementsOfFew == (\A e : ElementsOf(<<e>>) = {e}) /\ ElementsOf(<<>>) = {}
BY DEF ElementsOf

(* The elements of sequences that are put together. *)
LEMMA ElementsOfParts ==
  ASSUME NEW S, NEW a \in Seq(S), NEW b \in Seq(S)
  PROVE  ElementsOf(a \o b) = ElementsOf(a) \cup ElementsOf(b)
<1>1. /\ DOMAIN a = 1 .. Len(a) /\ DOMAIN b = 1 .. Len(b) /\ Len(a) \in Nat /\ Len(b) \in Nat
      /\ DOMAIN (a \o b) = 1 .. Len(a) + Len(b)
      /\ \A i \in 1 .. Len(a) + Len(b) : (a \o b)[i] = IF i <= Len(a) THEN a[i] ELSE b[i - Len(a)]
  BY ConcatProperties, LenProperties
<1>2. ElementsOf(a \o b) \subseteq ElementsOf(a) \cup ElementsOf(b)
  <2> SUFFICES ASSUME NEW i \in DOMAIN (a \o b) PROVE (a \o b)[i] \in ElementsOf(a) \cup ElementsOf(b)
    BY DEF ElementsOf
  <2>1. CASE i <= Len(a)
    <3>1. i \in DOMAIN a /\ (a \o b)[i] = a[i]
      BY <1>1, <2>1
    <3> QED BY <3>1 DEF ElementsOf
  <2>2. CASE ~(i <= Len(a))
    <3>1. i - Len(a) \in DOMAIN b /\ (a \o b)[i] = b[i - Len(a)]
      BY <1>1, <2>2
    <3> QED BY <3>1 DEF ElementsOf
  <2> QED BY <2>1, <2>2
<1>3. ElementsOf(a) \subseteq ElementsOf(a \o b)
  <2> SUFFICES ASSUME NEW i \in DOMAIN a PROVE a[i] \in ElementsOf(a \o b)
    BY DEF ElementsOf
  <2>1. i \in DOMAIN (a \o b) /\ (a \o b)[i] = a[i]
    BY <1>1
  <2> QED BY <2>1 DEF ElementsOf
<1>4. ElementsOf(b) \subseteq ElementsOf(a \o b)
  <2> SUFFICES ASSUME NEW i \in DOMAIN b PROVE b[i] \in ElementsOf(a \o b)
    BY DEF ElementsOf
  <2>1. i + Len(a) \in DOMAIN (a \o b) /\ (a \o b)[i + Len(a)] = b[i]
    BY <1>1
  <2> QED BY <2>1 DEF ElementsOf
<1> QED BY <1>2, <1>3, <1>4

(* Everything of a was published before anything of b. *)
AllBefore(a, b) == \A d \in ElementsOf(a), e \in ElementsOf(b) : Position(d) < Position(e)

(* What is in order in two parts: each part, and the first before the second. *)
LEMMA OrderOfParts ==
  ASSUME NEW S, NEW a \in Seq(S), NEW b \in Seq(S), NEW n
  PROVE  InOrder(a \o b, n) <=> InOrder(a, n) /\ InOrder(b, n) /\ AllBefore(a, b)
<1>1. /\ DOMAIN a = 1 .. Len(a) /\ DOMAIN b = 1 .. Len(b) /\ Len(a) \in Nat /\ Len(b) \in Nat
      /\ DOMAIN (a \o b) = 1 .. Len(a) + Len(b)
      /\ \A i \in DOMAIN a : i \in DOMAIN (a \o b) /\ (a \o b)[i] = a[i]
      /\ \A i \in DOMAIN b : i + Len(a) \in DOMAIN (a \o b) /\ (a \o b)[i + Len(a)] = b[i]
      /\ \A i \in DOMAIN (a \o b) : i \in DOMAIN a \/ i - Len(a) \in DOMAIN b
      /\ \A i \in DOMAIN (a \o b) : i \notin DOMAIN a => (a \o b)[i] = b[i - Len(a)]
  BY ConcatProperties, LenProperties
<1>2. ASSUME InOrder(a \o b, n) PROVE InOrder(a, n)
  BY <1>1, <1>2 DEF InOrder
<1>3. ASSUME InOrder(a \o b, n) PROVE InOrder(b, n)
  <2>1. \A i \in DOMAIN b : b[i] \in ElementsOf(published) /\ Position(b[i]) > n
    BY <1>1, <1>3 DEF InOrder
  <2>2. ASSUME NEW i \in DOMAIN b, NEW k \in DOMAIN b, i < k PROVE Position(b[i]) < Position(b[k])
    <3>1. i + Len(a) < k + Len(a) /\ i + Len(a) \in DOMAIN (a \o b) /\ k + Len(a) \in DOMAIN (a \o b)
      BY <1>1, <2>2
    <3> QED BY <1>1, <1>3, <3>1 DEF InOrder
  <2> QED BY <2>1, <2>2 DEF InOrder
<1>4. ASSUME InOrder(a \o b, n) PROVE AllBefore(a, b)
  <2> SUFFICES ASSUME NEW i \in DOMAIN a, NEW k \in DOMAIN b PROVE Position(a[i]) < Position(b[k])
    BY DEF AllBefore, ElementsOf
  <2>1. i < k + Len(a)
    BY <1>1
  <2> QED BY <1>1, <1>4, <2>1 DEF InOrder
<1>5. ASSUME InOrder(a, n), InOrder(b, n), AllBefore(a, b) PROVE InOrder(a \o b, n)
  <2>1. \A i \in DOMAIN (a \o b) : (a \o b)[i] \in ElementsOf(published) /\ Position((a \o b)[i]) > n
    BY <1>1, <1>5 DEF InOrder
  <2>2. ASSUME NEW i \in DOMAIN (a \o b), NEW k \in DOMAIN (a \o b), i < k
        PROVE  Position((a \o b)[i]) < Position((a \o b)[k])
    <3>1. CASE k \in DOMAIN a
      <4>1. i \in DOMAIN a
        BY <1>1, <2>2, <3>1
      <4> QED BY <1>1, <1>5, <2>2, <3>1, <4>1 DEF InOrder
    <3>2. CASE i \in DOMAIN a /\ k \notin DOMAIN a
      <4>1. a[i] \in ElementsOf(a) /\ b[k - Len(a)] \in ElementsOf(b)
        BY <1>1, <3>2 DEF ElementsOf
      <4> QED BY <1>1, <1>5, <3>2, <4>1 DEF AllBefore
    <3>3. CASE i \notin DOMAIN a /\ k \notin DOMAIN a
      <4>1. i - Len(a) < k - Len(a) /\ i - Len(a) \in DOMAIN b /\ k - Len(a) \in DOMAIN b
        BY <1>1, <2>2, <3>3
      <4> QED BY <1>1, <1>5, <3>3, <4>1 DEF InOrder
    <3> QED BY <3>1, <3>2, <3>3
  <2> QED BY <2>1, <2>2 DEF InOrder
<1> QED BY <1>2, <1>3, <1>4, <1>5

(* One event, and none. *)
LEMMA OrderOfOne ==
  ASSUME NEW e, NEW n
  PROVE  /\ InOrder(<<e>>, n) <=> e \in ElementsOf(published) /\ Position(e) > n
         /\ InOrder(<<>>, n)
<1>1. DOMAIN <<e>> = {1} /\ <<e>>[1] = e /\ ~(1 < 1)
  OBVIOUS
<1>2. InOrder(<<e>>, n) <=> e \in ElementsOf(published) /\ Position(e) > n
  BY <1>1 DEF InOrder
<1> QED BY <1>2 DEF InOrder

(* A part that is left out leaves the others in order. *)
LEMMA OrderWithout ==
  ASSUME NEW S, NEW a \in Seq(S), NEW b \in Seq(S), NEW c \in Seq(S), NEW n, InOrder(a \o (b \o c), n)
  PROVE  InOrder(a \o c, n)
<1>1. b \o c \in Seq(S)
  BY ConcatProperties
<1>2. InOrder(a, n) /\ InOrder(b \o c, n) /\ AllBefore(a, b \o c)
  BY <1>1, OrderOfParts
<1>3. InOrder(c, n)
  BY <1>2, OrderOfParts
<1>4. AllBefore(a, c)
  <2>1. ElementsOf(b \o c) = ElementsOf(b) \cup ElementsOf(c)
    BY ElementsOfParts
  <2> QED BY <1>2, <2>1 DEF AllBefore
<1> QED BY <1>2, <1>3, <1>4, OrderOfParts

(* The events published, each once; and what every subscription has of them. *)
PublishedOnce ==
  /\ published \in Seq(Events)
  /\ \A i, k \in DOMAIN published : published[i] = published[k] => i = k

(* The position of an event is where it is. *)
LEMMA PositionIs ==
  ASSUME PublishedOnce
  PROVE  /\ \A i \in DOMAIN published : Position(published[i]) = i
         /\ \A e \in ElementsOf(published) : Position(e) \in DOMAIN published /\ published[Position(e)] = e
         /\ DOMAIN published = 1 .. Len(published) /\ Len(published) \in Nat
<1>1. DOMAIN published = 1 .. Len(published) /\ Len(published) \in Nat
  BY LenProperties DEF PublishedOnce
<1>2. \A e \in ElementsOf(published) : Position(e) \in DOMAIN published /\ published[Position(e)] = e
  <2> SUFFICES ASSUME NEW e \in ElementsOf(published)
               PROVE  Position(e) \in DOMAIN published /\ published[Position(e)] = e
    OBVIOUS
  <2>1. \E i \in DOMAIN published : published[i] = e
    BY DEF ElementsOf
  <2> QED BY <2>1 DEF Position
<1>3. \A i \in DOMAIN published : published[i] \in ElementsOf(published)
  BY DEF ElementsOf
<1> QED BY <1>1, <1>2, <1>3 DEF PublishedOnce

(* A fresh event is published after all the others, which stay where they are. *)
LEMMA PublishedNext ==
  ASSUME PublishedOnce, NEW e \in Events, Fresh(e), published' = Append(published, e)
  PROVE  /\ PublishedOnce' /\ Len(published') = Len(published) + 1
         /\ ElementsOf(published)' = ElementsOf(published) \cup {e}
         /\ \A d \in ElementsOf(published) : Position(d)' = Position(d)
         /\ Position(e)' = Len(published) + 1
<1>1. /\ published' \in Seq(Events) /\ Len(published') = Len(published) + 1
      /\ DOMAIN published' = 1 .. Len(published) + 1 /\ DOMAIN published = 1 .. Len(published)
      /\ Len(published) \in Nat
      /\ \A i \in 1 .. Len(published) : published'[i] = published[i]
      /\ published'[Len(published) + 1] = e
  BY AppendProperties, LenProperties DEF PublishedOnce
<1>2. ElementsOf(published') = ElementsOf(published) \cup {e}
  <2>1. ElementsOf(Append(published, e)) = ElementsOf(published) \cup {e}
    <3>1. PICK q \in Seq(Events) : q = published
      BY DEF PublishedOnce
    <3>2. ElementsOf(Append(q, e)) = ElementsOf(q) \cup {e}
      BY ElementsOfOne
    <3> QED BY <3>1, <3>2
  <2> QED BY <2>1
<1>3. \A i \in DOMAIN published : published[i] # e
  BY DEF Fresh, ElementsOf
<1>4. PublishedOnce'
  <2> SUFFICES ASSUME NEW i \in DOMAIN published', NEW k \in DOMAIN published', published'[i] = published'[k]
               PROVE  i = k
    BY <1>1 DEF PublishedOnce
  <2>1. (i \in DOMAIN published \/ i = Len(published) + 1) /\ (k \in DOMAIN published \/ k = Len(published) + 1)
    BY <1>1
  <2> QED BY <1>1, <1>3, <2>1 DEF PublishedOnce
<1>6. \A d \in ElementsOf(published) : Position(d)' = Position(d)
  <2> SUFFICES ASSUME NEW d \in ElementsOf(published) PROVE Position(d)' = Position(d)
    OBVIOUS
  <2>1. Position(d) \in DOMAIN published /\ published[Position(d)] = d
    BY PositionIs
  <2>2. Position(d) \in DOMAIN published' /\ published'[Position(d)] = d
    BY <1>1, <2>1
  <2>3. \E i \in DOMAIN published' : published'[i] = d
    BY <2>2
  <2>4. Position(d)' \in DOMAIN published' /\ published'[Position(d)'] = d
    BY <2>3 DEF Position
  <2> QED BY <1>4, <2>2, <2>4 DEF PublishedOnce
<1>7. Position(e)' = Len(published) + 1
  <2>1. Len(published) + 1 \in DOMAIN published' /\ published'[Len(published) + 1] = e
    BY <1>1
  <2>2. Position(e)' \in DOMAIN published' /\ published'[Position(e)'] = e
    BY <2>1 DEF Position
  <2> QED BY <1>4, <2>1, <2>2 DEF PublishedOnce
<1> QED BY <1>1, <1>2, <1>4, <1>6, <1>7

(* What was in order still is, and with the new event at its end. *)
LEMMA OrderStays ==
  ASSUME PublishedOnce, NEW e \in Events, Fresh(e), published' = Append(published, e),
         NEW q \in Seq(Events), NEW n \in Nat, n <= Len(published), InOrder(q, n)
  PROVE  InOrder(q, n)' /\ InOrder(Append(q, e), n)'
<1>1. /\ ElementsOf(published)' = ElementsOf(published) \cup {e}
      /\ \A d \in ElementsOf(published) : Position(d)' = Position(d)
      /\ Position(e)' = Len(published) + 1 /\ Len(published) \in Nat
      /\ \A d \in ElementsOf(published) : Position(d) \in 1 .. Len(published)
  BY PublishedNext, PositionIs
<1>2. InOrder(q, n)'
  BY <1>1 DEF InOrder
<1>3. /\ DOMAIN Append(q, e) = 1 .. Len(q) + 1 /\ Append(q, e)[Len(q) + 1] = e /\ DOMAIN q = 1 .. Len(q)
      /\ Len(q) \in Nat /\ \A i \in 1 .. Len(q) : Append(q, e)[i] = q[i]
  BY AppendProperties, LenProperties
<1>4. \A i \in DOMAIN q : q[i] \in ElementsOf(published) /\ Position(q[i])' < Position(e)'
  BY <1>1 DEF InOrder
<1>5. InOrder(Append(q, e), n)'
  <2>1. \A i \in DOMAIN Append(q, e) : Append(q, e)[i] \in ElementsOf(published)' /\ Position(Append(q, e)[i])' > n
    BY <1>1, <1>2, <1>3 DEF InOrder
  <2>2. \A i, k \in DOMAIN Append(q, e) : i < k => Position(Append(q, e)[i])' < Position(Append(q, e)[k])'
    BY <1>2, <1>3, <1>4 DEF InOrder
  <2> QED BY <2>1, <2>2 DEF InOrder
<1> QED BY <1>2, <1>5

(* The first element of a sequence may go to the end of the one before it. *)
LEMMA HeadAtSeam ==
  ASSUME NEW S, NEW a \in Seq(S), NEW b \in Seq(S), b # <<>>
  PROVE  /\ Head(b) \in S /\ Tail(b) \in Seq(S) /\ Len(Tail(b)) = Len(b) - 1
         /\ <<Head(b)>> \o Tail(b) = b /\ Append(a, Head(b)) \o Tail(b) = a \o b
<1>1. /\ Head(b) \in S /\ Tail(b) \in Seq(S) /\ Len(Tail(b)) = Len(b) - 1 /\ Len(b) \in Nat
      /\ \A i \in 1 .. Len(Tail(b)) : Tail(b)[i] = b[i + 1]
  BY HeadTailProperties, LenProperties
<1>2. <<Head(b)>> \in Seq(S) /\ Len(<<Head(b)>>) = 1 /\ <<Head(b)>>[1] = b[1]
  BY <1>1
<1>3. PICK t \in Seq(S), h \in Seq(S) : t = Tail(b) /\ h = <<Head(b)>>
  BY <1>1, <1>2
<1>4. h \o t \in Seq(S) /\ Len(h \o t) = Len(h) + Len(t)
      /\ \A i \in 1 .. Len(h) + Len(t) : (h \o t)[i] = IF i <= Len(h) THEN h[i] ELSE t[i - Len(h)]
  BY ConcatProperties
<1>5. h \o t = b
  <2>1. Len(h \o t) = Len(b)
    BY <1>1, <1>2, <1>3, <1>4
  <2>2. \A i \in 1 .. Len(h \o t) : (h \o t)[i] = b[i]
    BY <1>1, <1>2, <1>3, <1>4
  <2> QED BY <1>4, <2>1, <2>2, SeqEqual
<1>6. Append(a, Head(b)) = a \o h
  BY <1>1, <1>3, AppendIsConcat
<1>7. (a \o h) \o t = a \o (h \o t)
  BY ConcatAssociative
<1> QED BY <1>1, <1>3, <1>5, <1>6, <1>7

(* The bus, for all its subscriptions: what one has got, what its full channel *)
(* lost, and what it still may get are the events since it began.              *)
BusInv ==
  /\ PublishedOnce /\ busClosed \in BOOLEAN
  /\ sub \in [Subscribers -> {"none", "open", "closed"}]
  /\ channel \in [Subscribers -> Seq(Events)] /\ seen \in [Subscribers -> Seq(Events)]
  /\ lost \in [Subscribers -> Nat] /\ since \in [Subscribers -> Nat]
  /\ \A s \in Subscribers :
       /\ since[s] <= Len(published)
       /\ sub[s] = "none" => seen[s] = <<>> /\ channel[s] = <<>> /\ lost[s] = 0
  /\ SubscriberMissesOnlyLost

(* Publish: one more event, in every channel that has a place. *)
LEMMA PublishKeepsBus ==
  ASSUME BusInv, NEW e \in Events, Publish(e)
  PROVE  BusInv'
<1>1. /\ Fresh(e) /\ published' = Append(published, e) /\ ~busClosed
      /\ channel' = [s \in Subscribers |-> Send(s, e)]
      /\ lost' = [s \in Subscribers |-> lost[s] + IF sub[s] = "open" /\ Full(s) THEN 1 ELSE 0]
      /\ UNCHANGED <<busClosed, sub, seen, since>>
  BY DEF Publish
<1>2. PublishedOnce' /\ Len(published') = Len(published) + 1 /\ Len(published) \in Nat
  BY <1>1, PublishedNext, PositionIs DEF BusInv
<1>3. ASSUME NEW s \in Subscribers
      PROVE  /\ channel'[s] \in Seq(Events) /\ lost'[s] \in Nat
             /\ since'[s] <= Len(published')
             /\ sub'[s] = "none" => seen'[s] = <<>> /\ channel'[s] = <<>> /\ lost'[s] = 0
             /\ InOrder(seen[s] \o channel[s], since[s])'
             /\ sub'[s] = "open" => Len(seen'[s] \o channel'[s]) + lost'[s] = Len(published') - since'[s]
             /\ sub'[s] = "closed" => Len(seen'[s] \o channel'[s]) + lost'[s] <= Len(published') - since'[s]
  <2>1. PICK a \in Seq(Events), b \in Seq(Events), n \in Nat, k \in Nat :
          a = seen[s] /\ b = channel[s] /\ n = since[s] /\ k = lost[s]
    BY DEF BusInv
  <2>2. /\ n <= Len(published) /\ InOrder(a \o b, n)
        /\ sub[s] = "none" => a = <<>> /\ b = <<>> /\ k = 0
        /\ sub[s] = "open" => Len(a \o b) + k = Len(published) - n
        /\ sub[s] = "closed" => Len(a \o b) + k <= Len(published) - n
        /\ sub[s] \in {"none", "open", "closed"}
    BY <2>1 DEF BusInv, SubscriberMissesOnlyLost
  <2>3. a \o b \in Seq(Events) /\ Len(a \o b) = Len(a) + Len(b) /\ Len(a) \in Nat /\ Len(b) \in Nat
    BY ConcatProperties, LenProperties
  <2>4. InOrder(a \o b, n)' /\ InOrder(Append(a \o b, e), n)'
    BY <1>1, <2>2, <2>3, OrderStays DEF BusInv
  <2>5. /\ Append(b, e) \in Seq(Events) /\ Len(Append(b, e)) = Len(b) + 1
        /\ Append(a \o b, e) = a \o Append(b, e)
        /\ Len(a \o Append(b, e)) = Len(a) + Len(b) + 1
    <3>1. Append(b, e) \in Seq(Events) /\ Len(Append(b, e)) = Len(b) + 1
      BY AppendProperties
    <3>2. Len(a \o Append(b, e)) = Len(a) + Len(Append(b, e))
      BY <3>1, ConcatProperties
    <3>3. Append(a \o b, e) = a \o Append(b, e)
      OBVIOUS
    <3> QED BY <2>3, <3>1, <3>2, <3>3
  <2>6. /\ seen'[s] = a /\ since'[s] = n /\ sub'[s] = sub[s]
        /\ channel'[s] = (IF sub[s] = "open" /\ ~Full(s) THEN Append(b, e) ELSE b)
        /\ lost'[s] = k + IF sub[s] = "open" /\ Full(s) THEN 1 ELSE 0
    BY <1>1, <2>1 DEF Send
  <2>7. CASE sub[s] = "open" /\ ~Full(s)
    <3>1. channel'[s] = Append(b, e) /\ lost'[s] = k /\ seen'[s] \o channel'[s] = Append(a \o b, e)
      BY <2>5, <2>6, <2>7
    <3>2. InOrder(seen[s] \o channel[s], since[s])'
      BY <2>4, <2>6, <3>1
    <3> QED BY <1>2, <2>2, <2>3, <2>5, <2>6, <2>7, <3>1, <3>2
  <2>8. CASE ~(sub[s] = "open" /\ ~Full(s))
    <3>1. channel'[s] = b /\ seen'[s] \o channel'[s] = a \o b
      BY <2>6, <2>8
    <3>2. InOrder(seen[s] \o channel[s], since[s])'
      BY <2>4, <2>6, <3>1
    <3>3. lost'[s] = IF sub[s] = "open" THEN k + 1 ELSE k
      BY <2>6, <2>8
    <3>4. PICK m \in Nat : m = Len(a \o b)
      BY <2>3
    <3>5. /\ sub[s] = "open" => m + lost'[s] = Len(published') - n
          /\ sub[s] = "closed" => m + lost'[s] <= Len(published') - n
      BY <1>2, <2>2, <3>3, <3>4
    <3>6. Len(seen'[s] \o channel'[s]) = m
      BY <3>1, <3>4
    <3>7. lost'[s] \in Nat /\ since'[s] <= Len(published') /\ since'[s] = n
      BY <1>2, <2>2, <2>6, <3>3
    <3>8. sub'[s] = "none" => seen'[s] = <<>> /\ channel'[s] = <<>> /\ lost'[s] = 0
      BY <2>2, <2>6, <3>1, <3>3
    <3>9. channel'[s] \in Seq(Events) /\ sub'[s] = sub[s]
      BY <2>6, <3>1
    <3> QED BY <3>2, <3>5, <3>6, <3>7, <3>8, <3>9
  <2> QED BY <2>7, <2>8
<1>4. channel' \in [Subscribers -> Seq(Events)] /\ lost' \in [Subscribers -> Nat]
  BY <1>1, <1>3
<1> QED BY <1>1, <1>2, <1>3, <1>4 DEF BusInv, SubscriberMissesOnlyLost

(* A receive moves an event from the channel to what was seen. *)
LEMMA ReceiveKeepsBus ==
  ASSUME BusInv, NEW s \in Subscribers, Receive(s)
  PROVE  BusInv' /\ seen'[s] \o channel'[s] = seen[s] \o channel[s]
<1>1. /\ channel[s] # <<>>
      /\ seen' = [seen EXCEPT ![s] = Append(seen[s], Head(channel[s]))]
      /\ channel' = [channel EXCEPT ![s] = Tail(channel[s])]
      /\ UNCHANGED <<published, busClosed, sub, lost, since>>
  BY DEF Receive
<1>2. PICK a \in Seq(Events), b \in Seq(Events) : a = seen[s] /\ b = channel[s] /\ b # <<>>
  BY <1>1 DEF BusInv
<1>3. /\ Head(b) \in Events /\ Tail(b) \in Seq(Events) /\ Append(a, Head(b)) \in Seq(Events)
      /\ Append(a, Head(b)) \o Tail(b) = a \o b
  <2>1. Head(b) \in Events /\ Tail(b) \in Seq(Events) /\ Append(a, Head(b)) \o Tail(b) = a \o b
    <3>1. Head(b) \in Events /\ Tail(b) \in Seq(Events)
      BY <1>2, HeadAtSeam
    <3>2. b # <<>>
      BY <1>2
    <3>3. Append(a, Head(b)) \o Tail(b) = a \o b
      BY <3>2, HeadAtSeam
    <3> QED BY <3>1, <3>3
  <2>2. Append(a, Head(b)) \in Seq(Events)
    BY <2>1, AppendProperties
  <2> QED BY <2>1, <2>2
<1>4. /\ seen' \in [Subscribers -> Seq(Events)] /\ channel' \in [Subscribers -> Seq(Events)]
      /\ \A r \in Subscribers : seen'[r] \o channel'[r] = seen[r] \o channel[r]
      /\ \A r \in Subscribers : r # s => seen'[r] = seen[r] /\ channel'[r] = channel[r]
  <2>1. seen' = [seen EXCEPT ![s] = Append(a, Head(b))] /\ channel' = [channel EXCEPT ![s] = Tail(b)]
    BY <1>1, <1>2
  <2> QED BY <1>2, <1>3, <2>1 DEF BusInv
<1>5. PublishedOnce' /\ sub[s] # "none"
  BY <1>1 DEF BusInv, PublishedOnce
<1>6. SubscriberMissesOnlyLost'
  <2>1. \A q, n : InOrder(q, n)' = InOrder(q, n)
    BY <1>1 DEF InOrder, ElementsOf, Position
  <2>2. \A r \in Subscribers : InOrder(seen[r] \o channel[r], since[r])'
    BY <1>1, <1>4, <2>1 DEF BusInv, SubscriberMissesOnlyLost
  <2> QED BY <1>1, <1>4, <2>2 DEF BusInv, SubscriberMissesOnlyLost
<1> QED BY <1>1, <1>4, <1>5, <1>6 DEF BusInv

(* Subscriptions begin and end, and the bus closes: no event moves. *)
LEMMA SubscriptionsKeepBus ==
  ASSUME BusInv, CloseBus \/ (\E s \in Subscribers : Subscribe(s) \/ Unsubscribe(s)) \/ UNCHANGED busVars
  PROVE  BusInv'
<1>1. UNCHANGED <<published, channel, lost, seen>> /\ Len(published) \in Nat
  BY PositionIs DEF BusInv, CloseBus, Subscribe, Unsubscribe, busVars
<1>2. PublishedOnce' /\ busClosed' \in BOOLEAN
  BY <1>1 DEF BusInv, PublishedOnce, CloseBus, Subscribe, Unsubscribe, busVars
<1>3. /\ sub' \in [Subscribers -> {"none", "open", "closed"}] /\ since' \in [Subscribers -> Nat]
      /\ \A s \in Subscribers :
           \/ sub'[s] = sub[s] /\ since'[s] = since[s]
           \/ sub[s] = "open" /\ sub'[s] = "closed" /\ since'[s] = since[s]
           \/ sub[s] = "none" /\ sub'[s] = "open" /\ since'[s] = Len(published)
  BY <1>1 DEF BusInv, CloseBus, Subscribe, Unsubscribe, busVars
<1>4. \A q, n : InOrder(q, n)' = InOrder(q, n)
  BY <1>1 DEF InOrder, ElementsOf, Position
<1>5. ASSUME NEW s \in Subscribers
      PROVE  /\ since'[s] <= Len(published)
             /\ sub'[s] = "none" => seen[s] = <<>> /\ channel[s] = <<>> /\ lost[s] = 0
             /\ InOrder(seen[s] \o channel[s], since'[s])
             /\ sub'[s] = "open" => Len(seen[s] \o channel[s]) + lost[s] = Len(published) - since'[s]
             /\ sub'[s] = "closed" => Len(seen[s] \o channel[s]) + lost[s] <= Len(published) - since'[s]
  <2>1. CASE sub'[s] = sub[s] /\ since'[s] = since[s]
    BY <2>1 DEF BusInv, SubscriberMissesOnlyLost
  <2>2. CASE sub[s] = "open" /\ sub'[s] = "closed" /\ since'[s] = since[s]
    <3>1. Len(seen[s] \o channel[s]) + lost[s] = Len(published) - since[s] /\ since[s] \in Nat
          /\ InOrder(seen[s] \o channel[s], since[s]) /\ since[s] <= Len(published)
      BY <2>2 DEF BusInv, SubscriberMissesOnlyLost
    <3>2. PICK k \in Nat : k = Len(published) - since[s]
      BY <1>1, <3>1
    <3>3. Len(seen[s] \o channel[s]) + lost[s] = k
      BY <3>1, <3>2, Zenon
    <3>4. Len(published) - since'[s] = k
      BY <2>2, <3>2
    <3>5. Len(seen[s] \o channel[s]) + lost[s] <= Len(published) - since'[s]
      <4>1. k <= k
        OBVIOUS
      <4> QED BY <3>3, <3>4, <4>1, Zenon
    <3> QED BY <2>2, <3>1, <3>5
  <2>3. CASE sub[s] = "none" /\ sub'[s] = "open" /\ since'[s] = Len(published)
    <3>1. seen[s] = <<>> /\ channel[s] = <<>> /\ lost[s] = 0 /\ seen[s] \o channel[s] = <<>>
      BY <2>3 DEF BusInv
    <3>2. InOrder(seen[s] \o channel[s], since'[s])
      BY <3>1, OrderOfOne
    <3>3. Len(seen[s] \o channel[s]) + lost[s] = 0
      BY <3>1
    <3> QED BY <1>1, <2>3, <3>1, <3>2, <3>3
  <2> QED BY <1>3, <2>1, <2>2, <2>3
<1>6. SubscriberMissesOnlyLost'
  BY <1>1, <1>4, <1>5 DEF SubscriberMissesOnlyLost
<1> QED BY <1>1, <1>2, <1>3, <1>5, <1>6 DEF BusInv

(* BusInv is an invariant of the bus and the dispatcher together. *)
LEMMA BusInvHolds == DispatcherSpec => []BusInv
<1>1. BusInit => BusInv
  <2> SUFFICES ASSUME BusInit PROVE BusInv
    OBVIOUS
  <2>1. PublishedOnce /\ Len(published) = 0
    BY DEF BusInit, PublishedOnce
  <2>2. \A s \in Subscribers : seen[s] = <<>> /\ channel[s] = <<>> /\ seen[s] \o channel[s] = <<>>
    BY DEF BusInit
  <2>3. \A s \in Subscribers : InOrder(seen[s] \o channel[s], since[s])
    BY <2>2, OrderOfOne
  <2>4. SubscriberMissesOnlyLost
    <3>1. \A s \in Subscribers : sub[s] # "open" /\ sub[s] # "closed"
      BY DEF BusInit
    <3> QED BY <2>3, <3>1, Zenon DEF SubscriberMissesOnlyLost
  <2>5. /\ sub \in [Subscribers -> {"none", "open", "closed"}] /\ busClosed \in BOOLEAN
        /\ channel \in [Subscribers -> Seq(Events)] /\ seen \in [Subscribers -> Seq(Events)]
        /\ lost \in [Subscribers -> Nat] /\ since \in [Subscribers -> Nat]
    <3>1. <<>> \in Seq(Events)
      OBVIOUS
    <3>2. channel \in [Subscribers -> Seq(Events)] /\ seen \in [Subscribers -> Seq(Events)]
      BY <3>1 DEF BusInit
    <3>3. lost \in [Subscribers -> Nat] /\ since \in [Subscribers -> Nat]
      BY DEF BusInit
    <3> QED BY <3>2, <3>3 DEF BusInit
  <2>6. \A s \in Subscribers : since[s] <= Len(published) /\ lost[s] = 0
    BY <2>1 DEF BusInit
  <2> QED BY <2>1, <2>2, <2>4, <2>5, <2>6 DEF BusInv
<1>2. BusInv /\ [BusStep \/ DispatcherStep]_<<busVars, dispatcherVars>> => BusInv'
  <2> SUFFICES ASSUME BusInv, [BusStep \/ DispatcherStep]_<<busVars, dispatcherVars>> PROVE BusInv'
    OBVIOUS
  <2>1. Dispatch \in Subscribers
    BY DispatcherAssumption
  <2>2. ASSUME BusStep PROVE BusInv'
    BY <2>2, PublishKeepsBus, ReceiveKeepsBus, SubscriptionsKeepBus DEF BusStep
  <2>3. ASSUME DispatcherStep PROVE BusInv'
    <3>1. Subscribe(Dispatch) \/ Receive(Dispatch) \/ Unsubscribe(Dispatch) \/ UNCHANGED busVars
      BY <2>3 DEF DispatcherStep, Start, TakeEvent, Report, Close, Wait, Offer, Work, Handle, Release, End, busVars
    <3> QED BY <2>1, <3>1, ReceiveKeepsBus, SubscriptionsKeepBus
  <2> QED BY <2>2, <2>3, SubscriptionsKeepBus
<1> QED BY <1>1, <1>2, PTL DEF DispatcherSpec

(* A subscriber gets what is published while it is open, once and in order,   *)
(* but for what its full channel lost.                                       *)
THEOREM SubscribersHold == DispatcherSpec => []SubscriberMissesOnlyLost
<1>1. BusInv => SubscriberMissesOnlyLost
  BY DEF BusInv
<1> QED BY <1>1, BusInvHolds, PTL

(* The types of the dispatcher's variables. *)
DispatcherStates == {"new", "running", "closing", "releasing", "closed", "timeout"}
Tallies == [received : Nat, queued : Nat, dropped : Nat, succeeded : Nat, failed : Nat]

DispatcherTypeOK ==
  /\ dispatcher \in DispatcherStates
  /\ alive \subseteq Extensions \cup {"dispatch", "reports"} /\ released \subseteq Extensions
  /\ offering \in [event : Events \cup {NoEvent}, todo : SUBSET Extensions]
  /\ offering.todo # {} => offering.event \in Events
  /\ queue \in [Extensions -> Seq(Events)] /\ busy \in [Extensions -> Events \cup {NoEvent}]
  /\ handled \in [Extensions -> Seq(Events)] /\ output \in [Extensions -> Seq(Events)]
  /\ counters \in [Extensions -> Tallies] /\ overflow \in [Extensions -> Nat]
  /\ reports \in Nat /\ reported \in Nat /\ reportsDropped \in Nat

(* Whose turn it is: a handler runs in a goroutine; none is left once one is    *)
(* released; and nothing has happened before the start.                      *)
QuietInv ==
  /\ \A x \in Extensions : busy[x] # NoEvent => x \in alive
  /\ dispatcher = "releasing" \/ released # {} => alive = {}
  /\ dispatcher = "new" =>
       /\ alive = {} /\ released = {} /\ sub[Dispatch] = "none" /\ offering = Nothing
       /\ \A x \in Extensions : queue[x] = <<>> /\ handled[x] = <<>>

DispatcherInv == BusInv /\ DispatcherTypeOK /\ QuietInv

(* A tally counts an event as received, and as queued or dropped. *)
LEMMA CountIs ==
  ASSUME DispatcherTypeOK, NEW x \in Extensions, NEW name \in {"queued", "dropped"}
  PROVE  /\ Count(x, name) \in [Extensions -> Tallies]
         /\ \A y \in Extensions \ {x} : Count(x, name)[y] = counters[y]
         /\ Count(x, name)[x].received = counters[x].received + 1
         /\ Count(x, name)[x].queued = IF name = "queued" THEN counters[x].queued + 1 ELSE counters[x].queued
         /\ Count(x, name)[x].dropped = IF name = "dropped" THEN counters[x].dropped + 1 ELSE counters[x].dropped
         /\ Count(x, name)[x].succeeded = counters[x].succeeded /\ Count(x, name)[x].failed = counters[x].failed
<1>1. counters \in [Extensions -> Tallies] /\ counters[x] \in Tallies
  BY DEF DispatcherTypeOK
<1>2. CASE name = "queued"
  <2>1. PICK t : t = [counters[x] EXCEPT !.received = counters[x].received + 1]
    OBVIOUS
  <2>2. /\ t \in Tallies /\ t.received = counters[x].received + 1 /\ t.queued = counters[x].queued
        /\ t.dropped = counters[x].dropped /\ t.succeeded = counters[x].succeeded /\ t.failed = counters[x].failed
    BY <1>1, <2>1 DEF Tallies
  <2>3. PICK r : r = [t EXCEPT !.queued = t.queued + 1]
    OBVIOUS
  <2>4. /\ r \in Tallies /\ r.received = t.received /\ r.queued = t.queued + 1
        /\ r.dropped = t.dropped /\ r.succeeded = t.succeeded /\ r.failed = t.failed
    BY <2>2, <2>3 DEF Tallies
  <2>5. Count(x, name) = [counters EXCEPT ![x] = r]
    BY <1>1, <1>2, <2>1, <2>2, <2>3 DEF Count, Tallies
  <2> QED BY <1>1, <1>2, <2>2, <2>4, <2>5
<1>3. CASE name = "dropped"
  <2>1. PICK t : t = [counters[x] EXCEPT !.received = counters[x].received + 1]
    OBVIOUS
  <2>2. /\ t \in Tallies /\ t.received = counters[x].received + 1 /\ t.queued = counters[x].queued
        /\ t.dropped = counters[x].dropped /\ t.succeeded = counters[x].succeeded /\ t.failed = counters[x].failed
    BY <1>1, <2>1 DEF Tallies
  <2>3. PICK r : r = [t EXCEPT !.dropped = t.dropped + 1]
    OBVIOUS
  <2>4. /\ r \in Tallies /\ r.received = t.received /\ r.dropped = t.dropped + 1
        /\ r.queued = t.queued /\ r.succeeded = t.succeeded /\ r.failed = t.failed
    BY <2>2, <2>3 DEF Tallies
  <2>5. Count(x, name) = [counters EXCEPT ![x] = r]
    BY <1>1, <1>3, <2>1, <2>2, <2>3 DEF Count, Tallies
  <2> QED BY <1>1, <1>3, <2>2, <2>4, <2>5
<1> QED BY <1>2, <1>3

(* A tally with one more execution. *)
LEMMA OneMoreExecution ==
  ASSUME NEW t \in Tallies, NEW r,
         r = [t EXCEPT !.succeeded = t.succeeded + 1] \/ r = [t EXCEPT !.failed = t.failed + 1]
  PROVE  /\ r \in Tallies /\ r.received = t.received /\ r.queued = t.queued /\ r.dropped = t.dropped
         /\ r.succeeded + r.failed = t.succeeded + t.failed + 1
<1>1. t.succeeded \in Nat /\ t.failed \in Nat /\ t.succeeded + 1 \in Nat /\ t.failed + 1 \in Nat
  BY DEF Tallies
<1>2. r \in Tallies
  BY <1>1 DEF Tallies
<1>3. /\ r.received = t.received /\ r.queued = t.queued /\ r.dropped = t.dropped
      /\ \/ r.succeeded = t.succeeded + 1 /\ r.failed = t.failed
         \/ r.succeeded = t.succeeded /\ r.failed = t.failed + 1
  BY DEF Tallies
<1>4. r.succeeded + r.failed = t.succeeded + t.failed + 1
  BY <1>1, <1>3
<1> QED BY <1>2, <1>3, <1>4

(* The bus moves: the dispatcher does not. *)
LEMMA BusKeepsDispatcher ==
  ASSUME DispatcherInv, BusStep \/ UNCHANGED <<busVars, dispatcherVars>>
  PROVE  DispatcherTypeOK' /\ QuietInv'
<1>1. UNCHANGED dispatcherVars
  BY DEF BusStep
<1>2. sub[Dispatch] = "none" => sub'[Dispatch] = "none"
  BY DispatcherAssumption DEF DispatcherInv, BusInv, BusStep, busVars, Publish, CloseBus, Subscribe, Receive, Unsubscribe
<1> QED BY <1>1, <1>2 DEF dispatcherVars, runVars, DispatcherInv, DispatcherTypeOK, QuietInv

(* Start begins every goroutine. *)
LEMMA StartKeeps ==
  ASSUME DispatcherInv, Start
  PROVE  DispatcherTypeOK' /\ QuietInv'
BY DEF Start, DispatcherInv, DispatcherTypeOK, QuietInv, DispatcherStates

(* dispatch takes an event of its channel, to be offered to all. *)
LEMMA TakeKeeps ==
  ASSUME DispatcherInv, TakeEvent
  PROVE  DispatcherTypeOK' /\ QuietInv'
<1>1. /\ "dispatch" \in alive /\ channel[Dispatch] # <<>> /\ channel[Dispatch] \in Seq(Events)
      /\ offering' = [event |-> Head(channel[Dispatch]), todo |-> Extensions]
      /\ UNCHANGED <<sub, dispatcher, alive, queue, busy, handled, counters, reports, reported,
                     reportsDropped, output, overflow, released>>
  BY DispatcherAssumption DEF TakeEvent, Receive, DispatcherInv, BusInv
<1>2. Head(channel[Dispatch]) \in Events
  BY <1>1, HeadTailProperties
<1> QED BY <1>1, <1>2 DEF DispatcherInv, DispatcherTypeOK, QuietInv

(* It is offered to one extension. *)
LEMMA OfferKeeps ==
  ASSUME DispatcherInv, NEW x \in Extensions, Offer(x)
  PROVE  DispatcherTypeOK' /\ QuietInv'
<1>1. /\ x \in offering.todo /\ dispatcher # "new" /\ offering.event \in Events /\ queue[x] \in Seq(Events)
      /\ UNCHANGED <<busVars, dispatcher, alive, busy, handled, reports, reported,
                     reportsDropped, output, overflow, released>>
  BY DEF Offer, Nothing, DispatcherInv, DispatcherTypeOK, QuietInv
<1>2. offering' = IF offering.todo = {x} THEN Nothing ELSE [offering EXCEPT !.todo = offering.todo \ {x}]
  BY DEF Offer
<1>3. /\ offering' \in [event : Events \cup {NoEvent}, todo : SUBSET Extensions]
      /\ offering'.todo # {} => offering'.event \in Events
  BY <1>1, <1>2 DEF Nothing, DispatcherInv, DispatcherTypeOK
<1>4. queue' \in [Extensions -> Seq(Events)] /\ counters' \in [Extensions -> Tallies]
  <2>1. CASE Len(queue[x]) < QueueSize
    <3>1. queue' = [queue EXCEPT ![x] = Append(queue[x], offering.event)] /\ counters' = Count(x, "queued")
      BY <2>1 DEF Offer
    <3>2. Append(queue[x], offering.event) \in Seq(Events)
      BY <1>1, AppendProperties
    <3>3. Count(x, "queued") \in [Extensions -> Tallies]
      BY CountIs DEF DispatcherInv
    <3> QED BY <3>1, <3>2, <3>3 DEF DispatcherInv, DispatcherTypeOK
  <2>2. CASE ~(Len(queue[x]) < QueueSize)
    <3>1. queue' = queue /\ counters' = Count(x, "dropped")
      BY <2>2 DEF Offer
    <3>2. Count(x, "dropped") \in [Extensions -> Tallies]
      BY CountIs DEF DispatcherInv
    <3> QED BY <3>1, <3>2 DEF DispatcherInv, DispatcherTypeOK
  <2> QED BY <2>1, <2>2
<1> QED BY <1>1, <1>3, <1>4 DEF DispatcherInv, DispatcherTypeOK, QuietInv

(* A worker takes an event from its queue: it is alive. *)
LEMMA WorkKeeps ==
  ASSUME DispatcherInv, NEW x \in Extensions, Work(x)
  PROVE  DispatcherTypeOK' /\ QuietInv'
<1>1. /\ x \in alive /\ queue[x] # <<>> /\ queue[x] \in Seq(Events)
      /\ busy' = [busy EXCEPT ![x] = Head(queue[x])] /\ queue' = [queue EXCEPT ![x] = Tail(queue[x])]
      /\ UNCHANGED <<busVars, dispatcher, alive, offering, handled, counters, reports, reported,
                     reportsDropped, output, overflow, released>>
  BY DEF Work, DispatcherInv, DispatcherTypeOK
<1>2. Head(queue[x]) \in Events /\ Tail(queue[x]) \in Seq(Events)
  BY <1>1, HeadTailProperties
<1>3. queue' \in [Extensions -> Seq(Events)] /\ busy' \in [Extensions -> Events \cup {NoEvent}]
  BY <1>1, <1>2 DEF DispatcherInv, DispatcherTypeOK
<1>4. \A y \in Extensions : busy'[y] # NoEvent => y \in alive
  BY <1>1 DEF DispatcherInv, DispatcherTypeOK, QuietInv
<1> QED BY <1>1, <1>3, <1>4 DEF DispatcherInv, DispatcherTypeOK, QuietInv

(* A handler returns. *)
LEMMA HandleKeeps ==
  ASSUME DispatcherInv, NEW x \in Extensions, Handle(x)
  PROVE  DispatcherTypeOK' /\ QuietInv'
<1>1. PICK e \in Events : e = busy[x]
  BY DEF Handle, DispatcherInv, DispatcherTypeOK
<1>2. /\ x \in alive /\ handled[x] \in Seq(Events) /\ output[x] \in Seq(Events) /\ overflow[x] \in Nat
      /\ counters[x] \in Tallies
      /\ busy' = [busy EXCEPT ![x] = NoEvent] /\ handled' = [handled EXCEPT ![x] = Append(handled[x], e)]
      /\ UNCHANGED <<busVars, dispatcher, alive, offering, queue, reported, released>>
  BY <1>1 DEF Handle, DispatcherInv, DispatcherTypeOK, QuietInv
<1>3. Append(handled[x], e) \in Seq(Events) /\ Append(output[x], e) \in Seq(Events)
  BY <1>1, <1>2, AppendProperties
<1>4. handled' \in [Extensions -> Seq(Events)] /\ busy' \in [Extensions -> Events \cup {NoEvent}]
  BY <1>2, <1>3 DEF DispatcherInv, DispatcherTypeOK
<1>5. output' \in [Extensions -> Seq(Events)] /\ overflow' \in [Extensions -> Nat]
  <2>1. \/ output' = [output EXCEPT ![x] = Append(output[x], e)] /\ overflow' = overflow
        \/ output' = output /\ overflow' = [overflow EXCEPT ![x] = overflow[x] + 1]
        \/ output' = output /\ overflow' = overflow
    BY <1>1 DEF Handle, Emit
  <2>2. CASE output' = [output EXCEPT ![x] = Append(output[x], e)] /\ overflow' = overflow
    BY <1>2, <1>3, <2>2 DEF DispatcherInv, DispatcherTypeOK
  <2>3. CASE output' = output /\ overflow' = [overflow EXCEPT ![x] = overflow[x] + 1]
    BY <1>2, <2>3 DEF DispatcherInv, DispatcherTypeOK
  <2>4. CASE output' = output /\ overflow' = overflow
    BY <2>4 DEF DispatcherInv, DispatcherTypeOK
  <2> QED BY <2>1, <2>2, <2>3, <2>4
<1>6. counters' \in [Extensions -> Tallies]
  <2>1. PICK r : /\ counters' = [counters EXCEPT ![x] = r]
                 /\ \/ r = [counters[x] EXCEPT !.succeeded = counters[x].succeeded + 1]
                    \/ r = [counters[x] EXCEPT !.failed = counters[x].failed + 1]
    BY DEF Handle, DispatcherInv, DispatcherTypeOK
  <2>2. r \in Tallies
    BY <1>2, <2>1, OneMoreExecution
  <2> QED BY <2>1, <2>2 DEF DispatcherInv, DispatcherTypeOK
<1>7. reports' \in Nat /\ reportsDropped' \in Nat
  BY DEF Handle, EnqueueReport, DispatcherInv, DispatcherTypeOK
<1>8. \A y \in Extensions : busy'[y] # NoEvent => y \in alive
  BY <1>2 DEF DispatcherInv, DispatcherTypeOK, QuietInv
<1>9. alive # {} /\ dispatcher # "new"
  BY <1>2 DEF DispatcherInv, QuietInv
<1> QED BY <1>2, <1>4, <1>5, <1>6, <1>7, <1>8, <1>9 DEF DispatcherInv, DispatcherTypeOK, QuietInv

(* A goroutine ends, and a worker only between two events. *)
LEMMA EndKeeps ==
  ASSUME DispatcherInv, NEW g \in alive, End(g)
  PROVE  DispatcherTypeOK' /\ QuietInv'
<1>1. /\ alive' = alive \ {g} /\ MayEnd(g) /\ alive # {}
      /\ UNCHANGED <<busVars, dispatcher, offering, queue, busy, handled, counters, reports, reported,
                     reportsDropped, output, overflow, released>>
  BY DEF End
<1>2. g \in Extensions => busy[g] = NoEvent
  <2> SUFFICES ASSUME g \in Extensions PROVE busy[g] = NoEvent
    OBVIOUS
  <2>1. g # "dispatch" /\ g # "reports"
    BY DispatcherAssumption
  <2> QED BY <1>1, <2>1 DEF MayEnd
<1> QED BY <1>1, <1>2 DEF DispatcherInv, DispatcherTypeOK, QuietInv

(* Reports, and the steps of Close: nothing is released while a goroutine is  *)
(* left.                                                                      *)
LEMMA ClosingKeeps ==
  ASSUME DispatcherInv, Report \/ Close \/ Wait \/ \E x \in Extensions : Release(x)
  PROVE  DispatcherTypeOK' /\ QuietInv'
<1>1. CASE Report
  BY <1>1 DEF Report, busVars, DispatcherInv, DispatcherTypeOK, QuietInv
<1>2. CASE Close
  BY <1>2 DEF Close, runVars, DispatcherInv, DispatcherTypeOK, QuietInv, DispatcherStates
<1>3. CASE Wait
  BY <1>3 DEF Wait, runVars, busVars, DispatcherInv, DispatcherTypeOK, QuietInv, DispatcherStates
<1>4. ASSUME NEW x \in Extensions, Release(x) PROVE DispatcherTypeOK' /\ QuietInv'
  BY <1>4 DEF Release, busVars, DispatcherInv, DispatcherTypeOK, QuietInv, DispatcherStates
<1> QED BY <1>1, <1>2, <1>3, <1>4

(* DispatcherInv is an invariant. *)
LEMMA DispatcherInvHolds == DispatcherSpec => []DispatcherInv
<1>1. BusInit /\ DispatcherInit => DispatcherTypeOK /\ QuietInv
  <2> SUFFICES ASSUME BusInit, DispatcherInit PROVE DispatcherTypeOK /\ QuietInv
    OBVIOUS
  <2>1. <<>> \in Seq(Events) /\ Zero \in Tallies /\ Dispatch \in Subscribers
        /\ Nothing \in [event : Events \cup {NoEvent}, todo : SUBSET Extensions] /\ Nothing.todo = {}
    BY DispatcherAssumption DEF Zero, Tallies, Nothing
  <2>2. DispatcherTypeOK
    <3>1. /\ queue \in [Extensions -> Seq(Events)] /\ handled \in [Extensions -> Seq(Events)]
          /\ output \in [Extensions -> Seq(Events)] /\ counters \in [Extensions -> Tallies]
      BY <2>1 DEF DispatcherInit
    <3> QED BY <2>1, <3>1 DEF DispatcherInit, DispatcherTypeOK, DispatcherStates
  <2>3. QuietInv
    BY <2>1 DEF BusInit, DispatcherInit, QuietInv
  <2> QED BY <2>2, <2>3
<1>2. BusInv /\ DispatcherTypeOK /\ QuietInv /\ [BusStep \/ DispatcherStep]_<<busVars, dispatcherVars>>
        => DispatcherTypeOK' /\ QuietInv'
  <2> SUFFICES ASSUME BusInv, DispatcherTypeOK, QuietInv, [BusStep \/ DispatcherStep]_<<busVars, dispatcherVars>>
               PROVE  DispatcherTypeOK' /\ QuietInv'
    OBVIOUS
  <2>1. DispatcherInv
    BY DEF DispatcherInv
  <2>2. ASSUME DispatcherStep PROVE DispatcherTypeOK' /\ QuietInv'
    BY <2>1, <2>2, StartKeeps, TakeKeeps, OfferKeeps, WorkKeeps, HandleKeeps, EndKeeps, ClosingKeeps DEF DispatcherStep
  <2> QED BY <2>1, <2>2, BusKeepsDispatcher
<1>3. BusInv /\ DispatcherTypeOK /\ QuietInv => DispatcherInv
  BY DEF DispatcherInv
<1> QED BY <1>1, <1>2, <1>3, BusInvHolds, PTL DEF DispatcherSpec

(* An extension is closed only when no goroutine is left that could call it. *)
THEOREM QuietHolds == DispatcherSpec => []ReleasedWhenQuiet
<1>1. DispatcherInv => ReleasedWhenQuiet
  BY DEF DispatcherInv, QuietInv, ReleasedWhenQuiet
<1> QED BY <1>1, DispatcherInvHolds, PTL

(* The way of the events to an extension: handled, in hand, queued, offered,   *)
(* and in the channel of the dispatcher.                                     *)
Way(h, i, q, o, c) == h \o i \o q \o o \o c

(* Its beginnings. *)
Inside(h, i) == h \o i
Behind(h, i, q) == h \o i \o q
Beyond(h, i, q, o) == h \o i \o q \o o

(* What is taken from the head of a part comes between it and the part before. *)
LEMMA HeadMoves ==
  ASSUME NEW S, NEW a \in Seq(S), NEW c \in Seq(S), c # <<>>
  PROVE  (a \o <<Head(c)>>) \o Tail(c) = (a \o <<>>) \o c
<1>1. Head(c) \in S /\ Tail(c) \in Seq(S) /\ <<Head(c)>> \o Tail(c) = c
  BY HeadAtSeam
<1>2. <<Head(c)>> \in Seq(S)
  BY <1>1
<1>3. PICK d \in Seq(S), t \in Seq(S) : d = <<Head(c)>> /\ t = Tail(c)
  BY <1>1, <1>2
<1>4. (a \o d) \o t = a \o (d \o t)
  BY ConcatAssociative
<1>5. a \o <<>> = a
  BY ConcatEmptySeq
<1> QED BY <1>1, <1>3, <1>4, <1>5

(* What is put at the end of a part was between it and the part behind. *)
LEMMA EndMoves ==
  ASSUME NEW S, NEW a \in Seq(S), NEW q \in Seq(S), NEW e \in S
  PROVE  (a \o Append(q, e)) \o <<>> = (a \o q) \o <<e>> /\ Append(q, e) \o <<>> = q \o <<e>>
<1>1. <<e>> \in Seq(S)
  OBVIOUS
<1>2. PICK d \in Seq(S) : d = <<e>>
  BY <1>1
<1>3. Append(q, e) = q \o d /\ q \o d \in Seq(S)
  BY <1>2, AppendIsConcat, ConcatProperties
<1>4. (a \o q) \o d = a \o (q \o d)
  BY ConcatAssociative
<1>5. a \o (q \o d) \in Seq(S)
  BY <1>3, ConcatProperties
<1>6. (a \o (q \o d)) \o <<>> = a \o (q \o d)
  BY <1>5, ConcatEmptySeq
<1>7. (q \o d) \o <<>> = q \o d
  BY <1>3, ConcatEmptySeq
<1> QED BY <1>2, <1>3, <1>4, <1>6, <1>7

(* dispatch takes the next event of the channel. *)
LEMMA WayTakes ==
  ASSUME NEW S, NEW h, NEW i, NEW q, NEW a \in Seq(S), a = Behind(h, i, q), NEW c \in Seq(S), c # <<>>
  PROVE  Way(h, i, q, <<Head(c)>>, Tail(c)) = Way(h, i, q, <<>>, c)
<1>1. (a \o <<Head(c)>>) \o Tail(c) = (a \o <<>>) \o c
  BY HeadMoves
<1> QED BY <1>1 DEF Way, Behind

(* dispatch puts it in the queue. *)
LEMMA WayQueues ==
  ASSUME NEW S, NEW h, NEW i, NEW c, NEW a \in Seq(S), a = Inside(h, i), NEW q \in Seq(S), NEW e \in S
  PROVE  Way(h, i, Append(q, e), <<>>, c) = Way(h, i, q, <<e>>, c)
<1>1. (a \o Append(q, e)) \o <<>> = (a \o q) \o <<e>>
  BY EndMoves
<1> QED BY <1>1 DEF Way, Inside

(* The worker takes the next event of the queue. *)
LEMMA WayWorks ==
  ASSUME NEW S, NEW o, NEW c, NEW h \in Seq(S), NEW q \in Seq(S), q # <<>>
  PROVE  Way(h, <<Head(q)>>, Tail(q), o, c) = Way(h, <<>>, q, o, c)
<1>1. (h \o <<Head(q)>>) \o Tail(q) = (h \o <<>>) \o q
  BY HeadMoves
<1> QED BY <1>1 DEF Way

(* Its handler returns. *)
LEMMA WayHandles ==
  ASSUME NEW S, NEW q, NEW o, NEW c, NEW h \in Seq(S), NEW e \in S
  PROVE  Way(Append(h, e), <<>>, q, o, c) = Way(h, <<e>>, q, o, c)
<1>1. Append(h, e) \o <<>> = h \o <<e>>
  BY EndMoves
<1> QED BY <1>1 DEF Way

(* The parts of a way that are put together. *)
LEMMA WayParts ==
  ASSUME NEW S, NEW h \in Seq(S), NEW i \in Seq(S), NEW q \in Seq(S), NEW o \in Seq(S)
  PROVE  Inside(h, i) \in Seq(S) /\ Behind(h, i, q) \in Seq(S) /\ Beyond(h, i, q, o) \in Seq(S)
<1>1. h \o i \in Seq(S)
  BY ConcatProperties
<1>2. (h \o i) \o q \in Seq(S)
  BY <1>1, ConcatProperties
<1>3. ((h \o i) \o q) \o o \in Seq(S)
  BY <1>2, ConcatProperties
<1> QED BY <1>1, <1>2, <1>3 DEF Inside, Behind, Beyond

(* The bus sends one more event. *)
LEMMA WayGrows ==
  ASSUME NEW S, NEW h, NEW i, NEW q, NEW o, NEW a \in Seq(S), a = Beyond(h, i, q, o),
         NEW c \in Seq(S), NEW e \in S
  PROVE  Append(Way(h, i, q, o, c), e) = Way(h, i, q, o, Append(c, e)) /\ Way(h, i, q, o, c) \in Seq(S)
<1>1. Append(a \o c, e) = a \o Append(c, e)
  OBVIOUS
<1>2. a \o c \in Seq(S)
  BY ConcatProperties
<1>3. \A d : Way(h, i, q, o, d) = a \o d
  BY DEF Way, Beyond
<1> QED BY <1>1, <1>2, <1>3

(* What is on the way stays in order when the event at hand is dropped. *)
LEMMA WayWithout ==
  ASSUME NEW h \in Seq(Events), NEW i \in Seq(Events), NEW q \in Seq(Events), NEW e \in Events,
         NEW c \in Seq(Events), NEW n, InOrder(Way(h, i, q, <<e>>, c), n)
  PROVE  InOrder(Way(h, i, q, <<>>, c), n)
<1>1. <<e>> \in Seq(Events) /\ <<>> \in Seq(Events)
  OBVIOUS
<1>2. (h \o i) \o q \in Seq(Events)
  <2>1. h \o i \in Seq(Events)
    BY ConcatProperties
  <2> QED BY <2>1, ConcatProperties
<1>3. PICK a \in Seq(Events), d \in Seq(Events), z \in Seq(Events) : a = (h \o i) \o q /\ d = <<e>> /\ z = <<>>
  BY <1>1, <1>2
<1>4. (a \o d) \o c = a \o (d \o c) /\ a \o z = a
  BY <1>3, ConcatAssociative, ConcatEmptySeq
<1>5. InOrder(a \o (d \o c), n)
  BY <1>3, <1>4 DEF Way
<1>6. InOrder(a \o c, n)
  BY <1>5, OrderWithout
<1>7. (a \o z) \o c = a \o c
  BY <1>4
<1>8. Way(h, i, q, <<>>, c) = (a \o z) \o c
  BY <1>3 DEF Way
<1> QED BY <1>6, <1>7, <1>8

(* The event in hand comes after the outputs, which are of events handled. *)
LEMMA WayToOutput ==
  ASSUME PublishedOnce,
         NEW h \in Seq(Events), NEW e \in Events, NEW q \in Seq(Events), NEW o \in Seq(Events),
         NEW c \in Seq(Events), NEW n \in Nat, InOrder(Way(h, <<e>>, q, o, c), n),
         NEW out \in Seq(Events), ElementsOf(out) \subseteq ElementsOf(h), InOrder(out, 0)
  PROVE  InOrder(Append(out, e), 0)
<1>1. <<e>> \in Seq(Events)
  OBVIOUS
<1>2. PICK d \in Seq(Events) : d = <<e>>
  BY <1>1
<1>3. h \o d \in Seq(Events) /\ (h \o d) \o q \in Seq(Events) /\ ((h \o d) \o q) \o o \in Seq(Events)
  <2>1. h \o d \in Seq(Events)
    BY ConcatProperties
  <2>2. (h \o d) \o q \in Seq(Events)
    BY <2>1, ConcatProperties
  <2> QED BY <2>1, <2>2, ConcatProperties
<1>4. InOrder((((h \o d) \o q) \o o) \o c, n)
  BY <1>2 DEF Way
<1>5. InOrder(h, n) /\ InOrder(d, n) /\ AllBefore(h, d)
  <2>1. InOrder(((h \o d) \o q) \o o, n)
    BY <1>3, <1>4, OrderOfParts
  <2>2. InOrder((h \o d) \o q, n)
    BY <1>3, <2>1, OrderOfParts
  <2>3. InOrder(h \o d, n)
    BY <1>3, <2>2, OrderOfParts
  <2> QED BY <2>3, OrderOfParts
<1>6. AllBefore(out, d)
  BY <1>5 DEF AllBefore
<1>7. InOrder(d, 0)
  <2>1. e \in ElementsOf(published)
    BY <1>2, <1>5, OrderOfOne
  <2>2. Position(e) > 0
    BY <2>1, PositionIs
  <2> QED BY <1>2, <2>1, <2>2, OrderOfOne
<1>8. InOrder(out \o d, 0)
  BY <1>6, <1>7, OrderOfParts
<1>9. Append(out, e) = out \o d
  BY <1>2, AppendIsConcat
<1> QED BY <1>8, <1>9

(* The events on the way to an extension are in order. *)
Ordered(x) == InOrder(Way(handled[x], InHand(x), queue[x], Offered(x), channel[Dispatch]), since[Dispatch])

(* Every one of them is in one tally. *)
Tallied(x) ==
  /\ counters[x].received + Len(Offered(x)) = Len(seen[Dispatch])
  /\ counters[x].received = counters[x].queued + counters[x].dropped
  /\ counters[x].queued = counters[x].succeeded + counters[x].failed + Len(InHand(x)) + Len(queue[x])
  /\ Len(handled[x]) = counters[x].succeeded + counters[x].failed

(* The outputs are of events handled, in order. *)
SinkOutputs(x) ==
  /\ ElementsOf(output[x]) \subseteq Allowed \cap ElementsOf(handled[x])
  /\ InOrder(output[x], 0)
  /\ Len(output[x]) + overflow[x] <= counters[x].succeeded

(* Every execution makes one report. *)
HandledCounts == [x \in Extensions |-> Len(handled[x])]
EveryReport == Total(HandledCounts) = reported + reports + reportsDropped

(* What is on the way, tallied, written and reported, for all of them. *)
FlowInv == EveryReport /\ \A x \in Extensions : Ordered(x) /\ Tallied(x) /\ SinkOutputs(x)

(* The types of what belongs to one extension. *)
LEMMA TypesOfOne ==
  ASSUME DispatcherInv, NEW x \in Extensions
  PROVE  /\ handled[x] \in Seq(Events) /\ InHand(x) \in Seq(Events) /\ queue[x] \in Seq(Events)
         /\ Offered(x) \in Seq(Events) /\ channel[Dispatch] \in Seq(Events) /\ output[x] \in Seq(Events)
         /\ seen[Dispatch] \in Seq(Events) /\ since[Dispatch] \in Nat /\ overflow[x] \in Nat
         /\ counters[x] \in Tallies
         /\ Len(InHand(x)) = IF busy[x] = NoEvent THEN 0 ELSE 1
         /\ Len(Offered(x)) = IF x \in offering.todo THEN 1 ELSE 0
         /\ Len(handled[x]) \in Nat /\ Len(queue[x]) \in Nat /\ Len(output[x]) \in Nat /\ Len(seen[Dispatch]) \in Nat
         /\ PublishedOnce
<1>1. Dispatch \in Subscribers
  BY DispatcherAssumption
<1>2. /\ handled[x] \in Seq(Events) /\ queue[x] \in Seq(Events) /\ output[x] \in Seq(Events)
      /\ overflow[x] \in Nat /\ counters[x] \in Tallies /\ busy[x] \in Events \cup {NoEvent}
      /\ offering.todo # {} => offering.event \in Events
  BY DEF DispatcherInv, DispatcherTypeOK
<1>3. channel[Dispatch] \in Seq(Events) /\ seen[Dispatch] \in Seq(Events) /\ since[Dispatch] \in Nat /\ PublishedOnce
  BY <1>1 DEF DispatcherInv, BusInv
<1>4. InHand(x) \in Seq(Events) /\ Len(InHand(x)) = IF busy[x] = NoEvent THEN 0 ELSE 1
  BY <1>2 DEF InHand
<1>5. Offered(x) \in Seq(Events) /\ Len(Offered(x)) = IF x \in offering.todo THEN 1 ELSE 0
  BY <1>2 DEF Offered
<1>6. Len(handled[x]) \in Nat /\ Len(queue[x]) \in Nat /\ Len(output[x]) \in Nat /\ Len(seen[Dispatch]) \in Nat
  BY <1>2, <1>3, LenProperties
<1> QED BY <1>2, <1>3, <1>4, <1>5, <1>6

(* The order in a sequence is that of the events published, and of nothing else. *)
LEMMA OrderOfPublished ==
  ASSUME UNCHANGED published
  PROVE  \A q, n : InOrder(q, n)' = InOrder(q, n)
BY DEF InOrder, ElementsOf, Position

(* What a step does not touch of an extension stays as it is. *)
LEMMA FlowFrame ==
  ASSUME NEW x \in Extensions, Ordered(x), Tallied(x), SinkOutputs(x),
         UNCHANGED <<published, channel[Dispatch], seen[Dispatch], since[Dispatch], Offered(x)>>,
         UNCHANGED <<handled[x], busy[x], queue[x], counters[x], output[x], overflow[x]>>
  PROVE  Ordered(x)' /\ Tallied(x)' /\ SinkOutputs(x)'
<1>1. InHand(x)' = InHand(x)
  BY DEF InHand
<1>2. \A q, n : InOrder(q, n)' = InOrder(q, n)
  BY OrderOfPublished
<1>3. Ordered(x)'
  BY <1>1, <1>2 DEF Ordered
<1>4. Tallied(x)'
  BY <1>1 DEF Tallied
<1>5. SinkOutputs(x)'
  BY <1>2 DEF SinkOutputs, ElementsOf
<1> QED BY <1>3, <1>4, <1>5

(* And so for the outputs alone. *)
LEMMA OutputsFrame ==
  ASSUME NEW x \in Extensions, SinkOutputs(x), UNCHANGED <<published, handled[x], output[x], overflow[x]>>,
         counters'[x].succeeded = counters[x].succeeded
  PROVE  SinkOutputs(x)'
<1>1. InOrder(output[x], 0)'
  BY OrderOfPublished DEF SinkOutputs
<1>2. ElementsOf(output[x])' = ElementsOf(output[x]) /\ ElementsOf(handled[x])' = ElementsOf(handled[x])
  BY DEF ElementsOf
<1> QED BY <1>1, <1>2 DEF SinkOutputs

(* A step that handles nothing and moves no report leaves the reports as they *)
(* are.                                                                       *)
LEMMA ReportsFrame ==
  ASSUME EveryReport, UNCHANGED <<handled, reported, reports, reportsDropped>>
  PROVE  EveryReport'
BY DEF EveryReport, HandledCounts

(* The bus moves. *)
LEMMA BusKeepsFlow ==
  ASSUME DispatcherInv, FlowInv, BusStep
  PROVE  FlowInv'
<1>1. UNCHANGED dispatcherVars /\ Dispatch \in Subscribers
  BY DispatcherAssumption DEF BusStep
<1>2. UNCHANGED <<dispatcher, alive, offering, queue, busy, handled, counters, reports, reported, reportsDropped,
                  output, overflow, released>>
  BY <1>1 DEF dispatcherVars, runVars
<1>3. EveryReport'
  BY <1>2, ReportsFrame DEF FlowInv
<1>4. ASSUME NEW x \in Extensions PROVE Offered(x)' = Offered(x) /\ InHand(x)' = InHand(x)
  BY <1>2 DEF Offered, InHand
<1>5. CASE UNCHANGED <<published, channel[Dispatch], seen[Dispatch], since[Dispatch]>>
  BY <1>2, <1>3, <1>4, <1>5, FlowFrame DEF FlowInv
<1>6. ASSUME NEW e \in Events, Publish(e) PROVE FlowInv'
  <2>1. /\ Fresh(e) /\ published' = Append(published, e) /\ UNCHANGED <<seen, since>>
        /\ channel'[Dispatch] = channel[Dispatch] \/ channel'[Dispatch] = Append(channel[Dispatch], e)
    BY <1>1, <1>6 DEF Publish, Send
  <2>2. PublishedOnce /\ since[Dispatch] \in Nat /\ since[Dispatch] <= Len(published)
    BY <1>1 DEF DispatcherInv, BusInv
  <2>3. ASSUME NEW x \in Extensions PROVE Ordered(x)' /\ Tallied(x)' /\ SinkOutputs(x)'
    <3>1. PICK h \in Seq(Events), i \in Seq(Events), q \in Seq(Events), o \in Seq(Events),
               c \in Seq(Events), n \in Nat :
            /\ h = handled[x] /\ i = InHand(x) /\ q = queue[x] /\ o = Offered(x) /\ c = channel[Dispatch]
            /\ n = since[Dispatch]
      BY TypesOfOne
    <3>2. PICK a \in Seq(Events) : a = Beyond(h, i, q, o)
      BY WayParts
    <3>3. Append(Way(h, i, q, o, c), e) = Way(h, i, q, o, Append(c, e)) /\ Way(h, i, q, o, c) \in Seq(Events)
      BY <3>2, WayGrows
    <3>4. PICK w \in Seq(Events) : w = Way(h, i, q, o, c)
      BY <3>3
    <3>5. InOrder(w, n)
      BY <3>1, <3>4 DEF FlowInv, Ordered
    <3>6. InOrder(w, n)' /\ InOrder(Append(w, e), n)'
      BY <2>1, <2>2, <3>1, <3>5, OrderStays
    <3>7. PICK k : k = channel'[Dispatch]
      OBVIOUS
    <3>8. k = c \/ k = Append(c, e)
      BY <2>1, <3>1, <3>7
    <3>9. InOrder(Way(h, i, q, o, k), n)'
      BY <3>3, <3>4, <3>6, <3>8
    <3>10. Ordered(x)'
      BY <1>2, <1>4, <2>1, <3>1, <3>7, <3>9 DEF Ordered
    <3>11. Tallied(x)'
      BY <1>2, <1>4, <2>1 DEF Tallied, FlowInv
    <3>12. SinkOutputs(x)'
      <4>1. PICK out \in Seq(Events) : out = output[x]
        BY TypesOfOne
      <4>2. PICK z \in Nat : z = 0
        OBVIOUS
      <4>3. InOrder(out, z) /\ z <= Len(published)
        BY <2>2, <4>1, <4>2, PositionIs DEF FlowInv, SinkOutputs
      <4>4. InOrder(out, z)'
        BY <2>1, <2>2, <4>3, OrderStays
      <4>5. ElementsOf(output[x])' = ElementsOf(output[x]) /\ ElementsOf(handled[x])' = ElementsOf(handled[x])
        BY <1>2 DEF ElementsOf
      <4>6. InOrder(output[x], 0)'
        BY <1>2, <4>1, <4>2, <4>4
      <4> QED BY <1>2, <4>5, <4>6 DEF FlowInv, SinkOutputs
    <3> QED BY <3>10, <3>11, <3>12
  <2> QED BY <1>3, <2>3 DEF FlowInv
<1>7. \/ \E e \in Events : Publish(e)
      \/ UNCHANGED <<published, channel[Dispatch], seen[Dispatch], since[Dispatch]>>
  BY <1>1 DEF BusStep, CloseBus, Subscribe, Receive, Unsubscribe, DispatcherInv, BusInv
<1> QED BY <1>5, <1>6, <1>7

(* The dispatcher subscribes: nothing is on the way yet. *)
LEMMA StartKeepsFlow ==
  ASSUME DispatcherInv, FlowInv, Start
  PROVE  FlowInv'
<1>1. /\ dispatcher = "new" /\ Dispatch \in Subscribers
      /\ UNCHANGED <<published, channel, seen, offering, queue, busy, handled, counters, reports, reported,
                     reportsDropped, output, overflow>>
  BY DispatcherAssumption DEF Start, Subscribe
<1>2. \A q, n : InOrder(q, n)' = InOrder(q, n)
  BY <1>1, OrderOfPublished
<1>3. ASSUME NEW x \in Extensions PROVE Ordered(x)' /\ Tallied(x)' /\ SinkOutputs(x)'
  <2>1. handled[x] = <<>> /\ queue[x] = <<>> /\ busy[x] = NoEvent /\ offering.todo = {} /\ channel[Dispatch] = <<>>
    BY <1>1 DEF DispatcherInv, QuietInv, BusInv, Nothing
  <2>2. InHand(x)' = InHand(x) /\ Offered(x)' = Offered(x) /\ InHand(x) = <<>> /\ Offered(x) = <<>>
    BY <1>1, <2>1 DEF InHand, Offered
  <2>3. Way(<<>>, <<>>, <<>>, <<>>, <<>>) = <<>>
    BY DEF Way
  <2>4. Ordered(x)'
    <3>1. Way(handled[x], InHand(x), queue[x], Offered(x), channel[Dispatch])' = <<>>
      BY <1>1, <2>1, <2>2, <2>3
    <3>2. \A n : InOrder(<<>>, n)'
      BY <1>2, OrderOfOne
    <3> QED BY <3>1, <3>2 DEF Ordered
  <2>5. Tallied(x)'
    BY <1>1, <2>2 DEF Tallied, FlowInv
  <2>6. SinkOutputs(x)'
    BY <1>1, OutputsFrame DEF FlowInv
  <2> QED BY <2>4, <2>5, <2>6
<1>4. EveryReport'
  BY <1>1, ReportsFrame DEF FlowInv
<1> QED BY <1>3, <1>4 DEF FlowInv

(* dispatch takes an event, for every extension. *)
LEMMA TakeKeepsFlow ==
  ASSUME DispatcherInv, FlowInv, TakeEvent
  PROVE  FlowInv'
<1>1. /\ offering.todo = {} /\ channel[Dispatch] # <<>> /\ Dispatch \in Subscribers
      /\ channel[Dispatch] \in Seq(Events) /\ seen[Dispatch] \in Seq(Events)
      /\ channel'[Dispatch] = Tail(channel[Dispatch])
      /\ seen'[Dispatch] = Append(seen[Dispatch], Head(channel[Dispatch]))
      /\ offering' = [event |-> Head(channel[Dispatch]), todo |-> Extensions]
      /\ UNCHANGED <<published, since, queue, busy, handled, counters, reports, reported,
                     reportsDropped, output, overflow>>
  BY DispatcherAssumption DEF TakeEvent, Receive, Nothing, DispatcherInv, BusInv
<1>2. Len(seen'[Dispatch]) = Len(seen[Dispatch]) + 1 /\ Len(seen[Dispatch]) \in Nat
  <2>1. Head(channel[Dispatch]) \in Events
    BY <1>1, HeadTailProperties
  <2> QED BY <1>1, <2>1, AppendProperties, LenProperties
<1>3. \A q, n : InOrder(q, n)' = InOrder(q, n)
  BY <1>1, OrderOfPublished
<1>4. ASSUME NEW x \in Extensions PROVE Ordered(x)' /\ Tallied(x)' /\ SinkOutputs(x)'
  <2>1. InHand(x)' = InHand(x) /\ Offered(x) = <<>> /\ Offered(x)' = <<Head(channel[Dispatch])>>
    BY <1>1 DEF InHand, Offered
  <2>2. Ordered(x)'
    <3>1. PICK h \in Seq(Events), i \in Seq(Events), q \in Seq(Events), c \in Seq(Events), n \in Nat :
            h = handled[x] /\ i = InHand(x) /\ q = queue[x] /\ c = channel[Dispatch] /\ n = since[Dispatch]
      BY TypesOfOne
    <3>2. PICK a \in Seq(Events) : a = Behind(h, i, q)
      BY WayParts
    <3>3. c # <<>>
      BY <1>1, <3>1
    <3>4. Way(h, i, q, <<Head(c)>>, Tail(c)) = Way(h, i, q, <<>>, c)
      BY <3>2, <3>3, WayTakes
    <3>5. InOrder(Way(h, i, q, <<>>, c), n)
      BY <2>1, <3>1 DEF FlowInv, Ordered
    <3>6. InOrder(Way(h, i, q, <<Head(c)>>, Tail(c)), n)'
      BY <1>3, <3>4, <3>5
    <3> QED BY <1>1, <2>1, <3>1, <3>6 DEF Ordered
  <2>3. Tallied(x)'
    <3>1. Len(<<Head(channel[Dispatch])>>) = 1 /\ Len(<<>>) = 0
      OBVIOUS
    <3>2. counters[x].received \in Nat
      BY TypesOfOne DEF Tallies
    <3> QED BY <1>1, <1>2, <2>1, <3>1, <3>2 DEF Tallied, FlowInv
  <2>4. SinkOutputs(x)'
    BY <1>1, OutputsFrame DEF FlowInv
  <2> QED BY <2>2, <2>3, <2>4
<1>5. EveryReport'
  BY <1>1, ReportsFrame DEF FlowInv
<1> QED BY <1>4, <1>5 DEF FlowInv

(* dispatch puts it in the queue of an extension, or counts it as dropped. *)
LEMMA OfferKeepsFlow ==
  ASSUME DispatcherInv, FlowInv, NEW x \in Extensions, Offer(x)
  PROVE  FlowInv'
<1>1. /\ x \in offering.todo /\ queue[x] \in Seq(Events) /\ offering.event \in Events
      /\ offering' = IF offering.todo = {x} THEN Nothing ELSE [offering EXCEPT !.todo = offering.todo \ {x}]
      /\ UNCHANGED <<published, channel, seen, since, busy, handled, reports, reported,
                     reportsDropped, output, overflow>>
  BY DEF Offer, busVars, DispatcherInv, DispatcherTypeOK
<1>2. offering'.todo = offering.todo \ {x} /\ (offering'.todo # {} => offering'.event = offering.event)
  BY <1>1 DEF Nothing, DispatcherInv, DispatcherTypeOK
<1>3. \A y \in Extensions \ {x} : Offered(y)' = Offered(y) /\ queue'[y] = queue[y] /\ counters'[y] = counters[y]
  <2>1. \A y \in Extensions \ {x} : Offered(y)' = Offered(y)
    BY <1>2 DEF Offered
  <2>2. \A y \in Extensions \ {x} : queue'[y] = queue[y]
    BY DEF Offer, DispatcherInv, DispatcherTypeOK
  <2>3. \A y \in Extensions \ {x} : counters'[y] = counters[y]
    BY CountIs DEF Offer, DispatcherInv
  <2> QED BY <2>1, <2>2, <2>3
<1>4. ASSUME NEW y \in Extensions, y # x PROVE Ordered(y)' /\ Tallied(y)' /\ SinkOutputs(y)'
  BY <1>1, <1>3, <1>4, FlowFrame DEF FlowInv
<1>5. \A q, n : InOrder(q, n)' = InOrder(q, n)
  BY <1>1, OrderOfPublished
<1>6. InHand(x)' = InHand(x) /\ Offered(x) = <<offering.event>> /\ Offered(x)' = <<>>
  BY <1>1, <1>2 DEF InHand, Offered
<1>7. PICK h \in Seq(Events), i \in Seq(Events), q \in Seq(Events), c \in Seq(Events), e \in Events, n \in Nat :
        /\ h = handled[x] /\ i = InHand(x) /\ q = queue[x] /\ c = channel[Dispatch] /\ n = since[Dispatch]
        /\ e = offering.event
  BY <1>1, TypesOfOne
<1>8. InOrder(Way(h, i, q, <<e>>, c), n)
  BY <1>6, <1>7 DEF FlowInv, Ordered
<1>9. PICK r \in Nat, k \in Nat, d \in Nat :
        r = counters[x].received /\ k = counters[x].queued /\ d = counters[x].dropped
  BY TypesOfOne DEF Tallies
<1>10. Len(<<e>>) = 1 /\ Len(<<>>) = 0 /\ Len(q) \in Nat /\ Len(i) \in Nat
  BY LenProperties
<1>11. SinkOutputs(x)'
  <2>1. counters'[x].succeeded = counters[x].succeeded
    BY CountIs DEF Offer, DispatcherInv
  <2> QED BY <1>1, <2>1, OutputsFrame DEF FlowInv
<1>12. ASSUME Len(queue[x]) < QueueSize PROVE Ordered(x)' /\ Tallied(x)' /\ SinkOutputs(x)'
  <2>1. queue'[x] = Append(q, e) /\ counters' = Count(x, "queued")
    BY <1>7, <1>12 DEF Offer, DispatcherInv, DispatcherTypeOK
  <2>2. Ordered(x)'
    <3>1. PICK a \in Seq(Events) : a = Inside(h, i)
      BY WayParts
    <3>2. Way(h, i, Append(q, e), <<>>, c) = Way(h, i, q, <<e>>, c)
      BY <3>1, WayQueues
    <3>3. InOrder(Way(h, i, Append(q, e), <<>>, c), n)'
      BY <1>5, <1>8, <3>2
    <3> QED BY <1>1, <1>6, <1>7, <2>1, <3>3 DEF Ordered
  <2>3. Tallied(x)'
    <3>1. Len(Append(q, e)) = Len(q) + 1
      BY AppendProperties
    <3>2. /\ counters'[x].received = r + 1 /\ counters'[x].queued = k + 1 /\ counters'[x].dropped = d
          /\ counters'[x].succeeded = counters[x].succeeded /\ counters'[x].failed = counters[x].failed
      BY <1>9, <2>1, CountIs DEF DispatcherInv
    <3>3. counters[x].succeeded \in Nat /\ counters[x].failed \in Nat /\ Len(seen[Dispatch]) \in Nat
      BY TypesOfOne DEF Tallies
    <3>4. r + 1 = Len(seen[Dispatch]) /\ r = k + d /\ k = counters[x].succeeded + counters[x].failed + Len(i) + Len(q)
          /\ Len(h) = counters[x].succeeded + counters[x].failed
      BY <1>6, <1>7, <1>9, <1>10 DEF Tallied, FlowInv
    <3>5. handled'[x] = h /\ InHand(x)' = i /\ queue'[x] = Append(q, e) /\ Offered(x)' = <<>> /\ seen' = seen
      BY <1>1, <1>6, <1>7, <2>1
    <3>6. PICK l \in Nat : l = Len(Append(q, e)) /\ l = Len(q) + 1
      BY <1>10, <3>1
    <3>7. counters'[x].received + Len(Offered(x)') = Len(seen'[Dispatch])
      BY <1>9, <1>10, <3>2, <3>3, <3>4, <3>5
    <3>8. counters'[x].received = counters'[x].queued + counters'[x].dropped
      <4>1. r \in Nat /\ k \in Nat /\ d \in Nat /\ r = k + d
        BY <1>9, <3>4
      <4>2. r + 1 = (k + 1) + d
        BY ONLY <4>1
      <4> QED BY <3>2, <4>2, Zenon
    <3>9. counters'[x].queued = counters'[x].succeeded + counters'[x].failed + Len(InHand(x)') + Len(queue'[x])
      <4>1. PICK m \in Nat, u \in Nat, f \in Nat, g \in Nat :
              m = Len(i) /\ u = Len(q) /\ f = counters[x].succeeded /\ g = counters[x].failed
        BY <1>10, <3>3
      <4>2. Len(queue'[x]) = u + 1 /\ Len(InHand(x)') = m
        BY <3>5, <3>6, <4>1
      <4>3. k = f + g + m + u
        BY <3>4, <4>1, Zenon
      <4>4. k + 1 = f + g + m + (u + 1)
        BY <4>3
      <4> QED BY <1>9, <3>2, <4>1, <4>2, <4>4
    <3>10. Len(handled'[x]) = counters'[x].succeeded + counters'[x].failed
      BY <3>2, <3>4, <3>5
    <3> QED BY <3>7, <3>8, <3>9, <3>10 DEF Tallied
  <2> QED BY <1>11, <2>2, <2>3
<1>13. ASSUME ~(Len(queue[x]) < QueueSize) PROVE Ordered(x)' /\ Tallied(x)' /\ SinkOutputs(x)'
  <2>1. queue'[x] = q /\ counters' = Count(x, "dropped")
    BY <1>7, <1>13 DEF Offer
  <2>2. Ordered(x)'
    <3>1. InOrder(Way(h, i, q, <<>>, c), n)
      BY <1>8, WayWithout
    <3> QED BY <1>1, <1>5, <1>6, <1>7, <2>1, <3>1 DEF Ordered
  <2>3. Tallied(x)'
    <3>2. /\ counters'[x].received = r + 1 /\ counters'[x].queued = k /\ counters'[x].dropped = d + 1
          /\ counters'[x].succeeded = counters[x].succeeded /\ counters'[x].failed = counters[x].failed
      BY <1>9, <2>1, CountIs DEF DispatcherInv
    <3>3. counters[x].succeeded \in Nat /\ counters[x].failed \in Nat /\ Len(seen[Dispatch]) \in Nat
      BY TypesOfOne DEF Tallies
    <3>4. r + 1 = Len(seen[Dispatch]) /\ r = k + d /\ k = counters[x].succeeded + counters[x].failed + Len(i) + Len(q)
          /\ Len(h) = counters[x].succeeded + counters[x].failed
      BY <1>6, <1>7, <1>9, <1>10 DEF Tallied, FlowInv
    <3>5. handled'[x] = h /\ InHand(x)' = i /\ queue'[x] = q /\ Offered(x)' = <<>> /\ seen' = seen
      BY <1>1, <1>6, <1>7, <2>1
    <3>6. counters'[x].received + Len(Offered(x)') = Len(seen'[Dispatch])
      BY <1>9, <1>10, <3>2, <3>3, <3>4, <3>5
    <3>7. counters'[x].received = counters'[x].queued + counters'[x].dropped
      BY <1>9, <3>2, <3>4
    <3>8. counters'[x].queued = counters'[x].succeeded + counters'[x].failed + Len(InHand(x)') + Len(queue'[x])
      BY <1>9, <1>10, <3>2, <3>3, <3>4, <3>5
    <3>9. Len(handled'[x]) = counters'[x].succeeded + counters'[x].failed
      BY <3>2, <3>4, <3>5
    <3> QED BY <3>6, <3>7, <3>8, <3>9 DEF Tallied
  <2> QED BY <1>11, <2>2, <2>3
<1>14. EveryReport'
  BY <1>1, ReportsFrame DEF FlowInv
<1> QED BY <1>4, <1>12, <1>13, <1>14 DEF FlowInv

(* The worker takes an event out of the queue. *)
LEMMA WorkKeepsFlow ==
  ASSUME DispatcherInv, FlowInv, NEW x \in Extensions, Work(x)
  PROVE  FlowInv'
<1>1. /\ busy[x] = NoEvent /\ queue[x] # <<>> /\ queue[x] \in Seq(Events)
      /\ busy' = [busy EXCEPT ![x] = Head(queue[x])] /\ queue' = [queue EXCEPT ![x] = Tail(queue[x])]
      /\ UNCHANGED <<published, channel, seen, since, offering, handled, counters, reports, reported,
                     reportsDropped, output, overflow>>
  BY DEF Work, busVars, DispatcherInv, DispatcherTypeOK
<1>2. \A y \in Extensions \ {x} : busy'[y] = busy[y] /\ queue'[y] = queue[y]
  BY <1>1 DEF DispatcherInv, DispatcherTypeOK
<1>3. \A y \in Extensions : Offered(y)' = Offered(y)
  BY <1>1 DEF Offered
<1>4. ASSUME NEW y \in Extensions, y # x PROVE Ordered(y)' /\ Tallied(y)' /\ SinkOutputs(y)'
  BY <1>1, <1>2, <1>3, <1>4, FlowFrame DEF FlowInv
<1>5. PICK h \in Seq(Events), q \in Seq(Events), o \in Seq(Events), c \in Seq(Events), n \in Nat :
        /\ h = handled[x] /\ q = queue[x] /\ o = Offered(x) /\ c = channel[Dispatch] /\ n = since[Dispatch]
        /\ q # <<>>
  BY <1>1, TypesOfOne
<1>6. Head(q) \in Events /\ Tail(q) \in Seq(Events) /\ Len(q) = Len(Tail(q)) + 1 /\ Len(Tail(q)) \in Nat
  BY <1>5, HeadTailProperties, LenProperties
<1>7. busy'[x] = Head(q) /\ queue'[x] = Tail(q) /\ Head(q) # NoEvent
  BY <1>1, <1>5, <1>6, DispatcherAssumption DEF DispatcherInv, DispatcherTypeOK
<1>8. InHand(x) = <<>> /\ InHand(x)' = <<Head(q)>>
  BY <1>1, <1>7 DEF InHand
<1>9. Ordered(x)'
  <2>1. Way(h, <<Head(q)>>, Tail(q), o, c) = Way(h, <<>>, q, o, c)
    BY <1>5, WayWorks
  <2>2. InOrder(Way(h, <<>>, q, o, c), n)
    BY <1>5, <1>8 DEF FlowInv, Ordered
  <2>3. InOrder(Way(h, <<Head(q)>>, Tail(q), o, c), n)'
    BY <1>1, <2>1, <2>2, OrderOfPublished
  <2> QED BY <1>1, <1>3, <1>5, <1>7, <1>8, <2>3 DEF Ordered
<1>10. Tallied(x)'
  <2>1. PICK u \in Nat, f \in Nat, g \in Nat : u = Len(Tail(q)) /\ f = counters[x].succeeded /\ g = counters[x].failed
    BY <1>6, TypesOfOne DEF Tallies
  <2>2. Len(<<Head(q)>>) = 1 /\ Len(<<>>) = 0
    OBVIOUS
  <2>3. counters[x].queued = f + g + Len(InHand(x)) + Len(queue[x])
    BY <2>1 DEF FlowInv, Tallied
  <2>4. Len(InHand(x)) = 0 /\ Len(queue[x]) = u + 1 /\ Len(InHand(x)') = 1 /\ Len(queue'[x]) = u
    BY <1>5, <1>6, <1>7, <1>8, <2>1, <2>2
  <2>5. counters[x].queued = f + g + Len(InHand(x)') + Len(queue'[x])
    BY <2>3, <2>4
  <2>6. /\ counters[x].received + Len(Offered(x)) = Len(seen[Dispatch])
        /\ counters[x].received = counters[x].queued + counters[x].dropped
        /\ Len(handled[x]) = counters[x].succeeded + counters[x].failed
    BY DEF FlowInv, Tallied
  <2> QED BY <1>1, <1>3, <2>1, <2>5, <2>6, Zenon DEF Tallied
<1>11. SinkOutputs(x)'
  BY <1>1, OutputsFrame DEF FlowInv
<1>12. EveryReport'
  BY <1>1, ReportsFrame DEF FlowInv
<1> QED BY <1>4, <1>9, <1>10, <1>11, <1>12 DEF FlowInv

(* One more execution, and one more report. *)
LEMMA HandleReports ==
  ASSUME DispatcherInv, EveryReport, NEW x \in Extensions, NEW e \in Events,
         handled' = [handled EXCEPT ![x] = Append(handled[x], e)], EnqueueReport, UNCHANGED reported
  PROVE  EveryReport'
<1>1. \A y \in Extensions : handled[y] \in Seq(Events) /\ Len(handled[y]) \in Nat
  BY TypesOfOne
<1>2. PICK f, g : f = HandledCounts /\ g = HandledCounts'
  OBVIOUS
<1>3. /\ DOMAIN f = Extensions /\ DOMAIN g = Extensions /\ IsFiniteSet(DOMAIN f) /\ \A y \in Extensions : f[y] \in Int
      /\ \A y \in DOMAIN f \ {x} : g[y] = f[y]
  BY <1>1, <1>2, DispatcherAssumption DEF HandledCounts, DispatcherInv, DispatcherTypeOK
<1>4. g[x] = f[x] + 1
  <2>1. Len(Append(handled[x], e)) = Len(handled[x]) + 1
    BY <1>1, AppendProperties
  <2>2. handled'[x] = Append(handled[x], e)
    BY DEF DispatcherInv, DispatcherTypeOK
  <2> QED BY <1>2, <2>1, <2>2 DEF HandledCounts
<1>5. Total(g) = Total(f) - f[x] + g[x] /\ Total(f) \in Int
  <2>1. x \in DOMAIN f /\ DOMAIN g = DOMAIN f /\ g[x] \in Int
    BY <1>3, <1>4
  <2>2. Total(g) = Total(f) - f[x] + g[x]
    BY <1>3, <2>1, TotalWithOneChanged
  <2>3. Total(f) \in Int
    BY <1>3, TotalType
  <2> QED BY <2>2, <2>3
<1>6. PICK t \in Int : t = Total(f) /\ Total(g) = t + 1
  BY <1>3, <1>4, <1>5
<1>7. reports \in Nat /\ reported \in Nat /\ reportsDropped \in Nat /\ t = reported + reports + reportsDropped
  BY <1>2, <1>6 DEF EveryReport, DispatcherInv, DispatcherTypeOK
<1>8. t + 1 = reported' + reports' + reportsDropped'
  BY <1>7 DEF EnqueueReport
<1> QED BY <1>2, <1>6, <1>8 DEF EveryReport

(* The handler returns, with or without an output. *)
LEMMA HandleKeepsFlow ==
  ASSUME DispatcherInv, FlowInv, NEW x \in Extensions, Handle(x)
  PROVE  FlowInv'
<1>1. PICK e \in Events : e = busy[x] /\ e # NoEvent
  BY DEF Handle, DispatcherInv, DispatcherTypeOK
<1>2. /\ handled[x] \in Seq(Events) /\ output[x] \in Seq(Events) /\ counters[x] \in Tallies
      /\ busy' = [busy EXCEPT ![x] = NoEvent] /\ handled' = [handled EXCEPT ![x] = Append(handled[x], e)]
      /\ EnqueueReport
      /\ UNCHANGED <<published, channel, seen, since, offering, queue, reported>>
  BY <1>1 DEF Handle, busVars, DispatcherInv, DispatcherTypeOK
<1>3. EveryReport'
  BY <1>2, HandleReports DEF FlowInv
<1>4. \A y \in Extensions \ {x} : /\ busy'[y] = busy[y] /\ handled'[y] = handled[y] /\ counters'[y] = counters[y]
                                  /\ output'[y] = output[y] /\ overflow'[y] = overflow[y]
  BY DEF Handle, Emit, DispatcherInv, DispatcherTypeOK
<1>5. \A y \in Extensions : Offered(y)' = Offered(y)
  BY <1>2 DEF Offered
<1>6. ASSUME NEW y \in Extensions, y # x PROVE Ordered(y)' /\ Tallied(y)' /\ SinkOutputs(y)'
  BY <1>2, <1>4, <1>5, <1>6, FlowFrame DEF FlowInv
<1>7. PICK h \in Seq(Events), q \in Seq(Events), o \in Seq(Events), c \in Seq(Events), n \in Nat, out \in Seq(Events) :
        /\ h = handled[x] /\ q = queue[x] /\ o = Offered(x) /\ c = channel[Dispatch] /\ n = since[Dispatch]
        /\ out = output[x]
  BY TypesOfOne
<1>8. /\ handled'[x] = Append(h, e) /\ InHand(x)' = <<>> /\ InHand(x) = <<e>>
      /\ Append(h, e) \in Seq(Events) /\ Len(Append(h, e)) = Len(h) + 1 /\ Len(h) \in Nat
  <2>1. handled'[x] = Append(h, e) /\ busy'[x] = NoEvent
    BY <1>2, <1>7 DEF DispatcherInv, DispatcherTypeOK
  <2>2. Append(h, e) \in Seq(Events) /\ Len(Append(h, e)) = Len(h) + 1 /\ Len(h) \in Nat
    BY AppendProperties, LenProperties
  <2> QED BY <1>1, <2>1, <2>2 DEF InHand
<1>9. InOrder(Way(h, <<e>>, q, o, c), n)
  BY <1>7, <1>8 DEF FlowInv, Ordered
<1>10. Ordered(x)'
  <2>1. Way(Append(h, e), <<>>, q, o, c) = Way(h, <<e>>, q, o, c)
    BY WayHandles
  <2>2. InOrder(Way(Append(h, e), <<>>, q, o, c), n)'
    BY <1>2, <1>9, <2>1, OrderOfPublished
  <2> QED BY <1>2, <1>5, <1>7, <1>8, <2>2 DEF Ordered
<1>11. PICK f \in Nat, g \in Nat, f2 \in Nat, g2 \in Nat :
         /\ f = counters[x].succeeded /\ g = counters[x].failed
         /\ f2 = counters'[x].succeeded /\ g2 = counters'[x].failed /\ f2 + g2 = f + g + 1
         /\ counters'[x].received = counters[x].received /\ counters'[x].queued = counters[x].queued
         /\ counters'[x].dropped = counters[x].dropped
         /\ \/ f2 = f + 1 /\ Emit(x, e)
            \/ f2 = f /\ UNCHANGED <<output, overflow>>
  <2>1. PICK r : /\ counters' = [counters EXCEPT ![x] = r]
                 /\ \/ r = [counters[x] EXCEPT !.succeeded = counters[x].succeeded + 1] /\ Emit(x, e)
                    \/ r = [counters[x] EXCEPT !.failed = counters[x].failed + 1] /\ UNCHANGED <<output, overflow>>
    BY <1>1 DEF Handle, DispatcherInv, DispatcherTypeOK
  <2>2. counters'[x] = r
    BY <2>1 DEF DispatcherInv, DispatcherTypeOK
  <2>3. r \in Tallies /\ r.received = counters[x].received /\ r.queued = counters[x].queued
        /\ r.dropped = counters[x].dropped /\ r.succeeded + r.failed = counters[x].succeeded + counters[x].failed + 1
    <3>1. counters[x] \in Tallies
      BY <1>2
    <3> QED BY <2>1, <3>1, OneMoreExecution
  <2>4. \/ r.succeeded = counters[x].succeeded + 1 /\ Emit(x, e)
        \/ r.succeeded = counters[x].succeeded /\ UNCHANGED <<output, overflow>>
    BY <1>2, <2>1 DEF Tallies
  <2>5. r.succeeded \in Nat /\ r.failed \in Nat /\ counters[x].succeeded \in Nat /\ counters[x].failed \in Nat
    BY <1>2, <2>3 DEF Tallies
  <2> QED BY <2>2, <2>3, <2>4, <2>5
<1>12. Tallied(x)'
  <2>1. PICK u \in Nat, l \in Nat : u = Len(queue[x]) /\ l = Len(h)
    BY <1>8, TypesOfOne
  <2>2. Len(<<e>>) = 1 /\ Len(<<>>) = 0
    OBVIOUS
  <2>3. /\ counters[x].received + Len(Offered(x)) = Len(seen[Dispatch])
        /\ counters[x].received = counters[x].queued + counters[x].dropped
        /\ counters[x].queued = f + g + Len(InHand(x)) + u
        /\ l = f + g
    BY <1>7, <1>11, <2>1 DEF FlowInv, Tallied
  <2>4. Len(InHand(x)) = 1 /\ Len(InHand(x)') = 0 /\ Len(queue'[x]) = u /\ Len(handled'[x]) = l + 1
    BY <1>2, <1>8, <2>1, <2>2
  <2>5. counters[x].queued = f2 + g2 + Len(InHand(x)') + Len(queue'[x]) /\ Len(handled'[x]) = f2 + g2
    BY <1>11, <2>3, <2>4
  <2> QED BY <1>2, <1>5, <1>11, <2>3, <2>5, Zenon DEF Tallied
<1>13. SinkOutputs(x)'
  <2>1. ElementsOf(out) \subseteq Allowed /\ ElementsOf(out) \subseteq ElementsOf(h) /\ InOrder(out, 0)
    BY <1>7 DEF FlowInv, SinkOutputs
  <2>2. ElementsOf(Append(h, e)) = ElementsOf(h) \cup {e} /\ ElementsOf(Append(out, e)) = ElementsOf(out) \cup {e}
    BY ElementsOfOne
  <2>3. PICK m \in Nat, k \in Nat : m = Len(out) /\ k = overflow[x] /\ m + k <= f
    BY <1>7, <1>11, TypesOfOne DEF FlowInv, SinkOutputs
  <2>4. CASE output'[x] = out /\ overflow'[x] = overflow[x] /\ f <= f2
    <3>1. InOrder(output[x], 0)'
      BY <1>2, <2>1, <2>4, OrderOfPublished
    <3>2. ElementsOf(output'[x]) \subseteq Allowed \cap ElementsOf(handled'[x])
      BY <1>8, <2>1, <2>2, <2>4
    <3>3. Len(output'[x]) + overflow'[x] <= f2
      BY <2>3, <2>4
    <3> QED BY <1>11, <3>1, <3>2, <3>3 DEF SinkOutputs, ElementsOf
  <2>5. CASE output'[x] = Append(out, e) /\ overflow'[x] = overflow[x] /\ e \in Allowed /\ f2 = f + 1
    <3>1. InOrder(Append(out, e), 0)
      BY <1>9, <2>1, WayToOutput DEF DispatcherInv, BusInv
    <3>2. InOrder(output[x], 0)'
      BY <1>2, <2>5, <3>1, OrderOfPublished
    <3>3. ElementsOf(output'[x]) \subseteq Allowed \cap ElementsOf(handled'[x])
      BY <1>8, <2>1, <2>2, <2>5
    <3>4. Len(Append(out, e)) = m + 1
      BY <2>3, AppendProperties
    <3>5. Len(output'[x]) + overflow'[x] <= f2
      BY <2>3, <2>5, <3>4
    <3> QED BY <1>11, <3>2, <3>3, <3>5 DEF SinkOutputs, ElementsOf
  <2>6. CASE output'[x] = out /\ overflow'[x] = overflow[x] + 1 /\ f2 = f + 1
    <3>1. InOrder(output[x], 0)'
      BY <1>2, <2>1, <2>6, OrderOfPublished
    <3>2. ElementsOf(output'[x]) \subseteq Allowed \cap ElementsOf(handled'[x])
      BY <1>8, <2>1, <2>2, <2>6
    <3>3. Len(output'[x]) + overflow'[x] <= f2
      BY <2>3, <2>6
    <3> QED BY <1>11, <3>1, <3>2, <3>3 DEF SinkOutputs, ElementsOf
  <2>7. \/ output'[x] = out /\ overflow'[x] = overflow[x] /\ f <= f2
        \/ output'[x] = Append(out, e) /\ overflow'[x] = overflow[x] /\ e \in Allowed /\ f2 = f + 1
        \/ output'[x] = out /\ overflow'[x] = overflow[x] + 1 /\ f2 = f + 1
    <3>1. /\ output \in [Extensions -> Seq(Events)] /\ overflow \in [Extensions -> Nat] /\ f <= f /\ f <= f + 1
          /\ out = output[x]
      BY <1>7 DEF DispatcherInv, DispatcherTypeOK
    <3>2. \/ output' = output /\ overflow' = overflow /\ f <= f2
          \/ output' = [output EXCEPT ![x] = Append(out, e)] /\ overflow' = overflow /\ e \in Allowed /\ f2 = f + 1
          \/ output' = output /\ overflow' = [overflow EXCEPT ![x] = overflow[x] + 1] /\ f2 = f + 1
      BY <1>11, <3>1 DEF Emit, Writes
    <3> QED BY <3>1, <3>2
  <2> QED BY <2>4, <2>5, <2>6, <2>7
<1> QED BY <1>3, <1>6, <1>10, <1>12, <1>13 DEF FlowInv

(* Nothing has happened yet. *)
LEMMA FlowAtFirst == BusInit /\ DispatcherInit => FlowInv
<1> SUFFICES ASSUME BusInit, DispatcherInit PROVE FlowInv
  OBVIOUS
<1>1. Dispatch \in Subscribers /\ IsFiniteSet(Extensions)
  BY DispatcherAssumption
<1>2. Len(<<>>) = 0 /\ Way(<<>>, <<>>, <<>>, <<>>, <<>>) = <<>> /\ ElementsOf(<<>>) = {}
  BY ElementsOfFew DEF Way
<1>3. EveryReport
  <2>1. DOMAIN HandledCounts = Extensions /\ \A x \in Extensions : HandledCounts[x] = 0
    BY <1>2 DEF HandledCounts, DispatcherInit
  <2>2. Total(HandledCounts) = 0
    <3>1. PICK h : SumsOf(h, HandledCounts, DOMAIN HandledCounts) /\ Total(HandledCounts) = h[DOMAIN HandledCounts]
      BY <1>1, <2>1, TotalIsSum
    <3>2. 0 \in {0} /\ \A a, b \in {0} : a + b \in {0}
      OBVIOUS
    <3>3. \A x \in DOMAIN HandledCounts : HandledCounts[x] \in {0}
      BY <2>1
    <3>4. \A s \in SUBSET DOMAIN HandledCounts : h[s] \in {0}
      BY <1>1, <2>1, <3>1, <3>2, <3>3, SumsAreNumbers
    <3> QED BY <3>1, <3>4
  <2> QED BY <2>2 DEF EveryReport, DispatcherInit
<1>4. ASSUME NEW x \in Extensions PROVE Ordered(x) /\ Tallied(x) /\ SinkOutputs(x)
  <2>1. /\ handled[x] = <<>> /\ queue[x] = <<>> /\ InHand(x) = <<>> /\ Offered(x) = <<>> /\ output[x] = <<>>
        /\ channel[Dispatch] = <<>> /\ seen[Dispatch] = <<>> /\ overflow[x] = 0 /\ counters[x] = Zero
    BY <1>1 DEF BusInit, DispatcherInit, InHand, Offered, Nothing
  <2>2. Ordered(x)
    BY <1>2, <2>1, OrderOfOne DEF Ordered
  <2>3. Tallied(x)
    BY <1>2, <2>1 DEF Tallied, Zero
  <2>4. SinkOutputs(x)
    <3>1. InOrder(output[x], 0) /\ ElementsOf(output[x]) = {}
      BY <1>2, <2>1, OrderOfOne
    <3>2. Len(output[x]) = 0 /\ counters[x].succeeded = 0
      BY <1>2, <2>1 DEF Zero
    <3> QED BY <2>1, <3>1, <3>2 DEF SinkOutputs
  <2> QED BY <2>2, <2>3, <2>4
<1> QED BY <1>3, <1>4 DEF FlowInv

(* The steps that move no event. *)
LEMMA ClosingKeepsFlow ==
  ASSUME DispatcherInv, FlowInv,
         \/ Report \/ Close \/ Wait \/ (\E x \in Extensions : Release(x)) \/ (\E g \in alive : End(g))
         \/ UNCHANGED <<busVars, dispatcherVars>>
  PROVE  FlowInv'
<1>1. UNCHANGED <<published, channel, seen, since, offering, queue, busy, handled, counters, reportsDropped,
                  output, overflow>>
  BY DEF Report, Close, Unsubscribe, Wait, Release, End, busVars, dispatcherVars, runVars
<1>2. Report \/ UNCHANGED <<reports, reported>>
  BY DEF Close, Wait, Release, End, dispatcherVars, runVars
<1>3. EveryReport'
  <2>1. reports \in Nat /\ reported \in Nat /\ reportsDropped \in Nat
    BY DEF DispatcherInv, DispatcherTypeOK
  <2>2. HandledCounts' = HandledCounts
    BY <1>1 DEF HandledCounts
  <2>3. reported' + reports' + reportsDropped = reported + reports + reportsDropped
    <3>1. CASE Report
      <4>1. reported' = reported + 1 /\ reports' = reports - 1
        BY <3>1 DEF Report
      <4> QED BY <2>1, <4>1
    <3> QED BY <1>2, <3>1
  <2>4. Total(HandledCounts) = reported + reports + reportsDropped
    BY DEF FlowInv, EveryReport
  <2> QED BY <1>1, <2>2, <2>3, <2>4 DEF EveryReport
<1>4. ASSUME NEW x \in Extensions PROVE Ordered(x)' /\ Tallied(x)' /\ SinkOutputs(x)'
  <2>1. Offered(x)' = Offered(x)
    BY <1>1 DEF Offered
  <2> QED BY <1>1, <2>1, FlowFrame DEF FlowInv
<1> QED BY <1>3, <1>4 DEF FlowInv

(* FlowInv is an invariant. *)
LEMMA FlowHolds == DispatcherSpec => []FlowInv
<1>1. DispatcherInv /\ FlowInv /\ [BusStep \/ DispatcherStep]_<<busVars, dispatcherVars>> => FlowInv'
  BY BusKeepsFlow, StartKeepsFlow, TakeKeepsFlow, OfferKeepsFlow, WorkKeepsFlow, HandleKeepsFlow, ClosingKeepsFlow
     DEF DispatcherStep
<1> QED BY <1>1, FlowAtFirst, DispatcherInvHolds, PTL DEF DispatcherSpec

(* An extension gets every event once at most, in the order of the bus, and   *)
(* misses only what is counted, whatever its queue, its sink and Close do.    *)
THEOREM ExtensionHolds == DispatcherSpec => []ExtensionMissesOnlyCounted
<1>1. DispatcherInv /\ FlowInv => ExtensionMissesOnlyCounted
  <2> SUFFICES ASSUME DispatcherInv, FlowInv PROVE ExtensionMissesOnlyCounted
    OBVIOUS
  <2>1. Total([x \in Extensions |-> Len(handled[x])]) = reported + reports + reportsDropped
    BY DEF FlowInv, EveryReport, HandledCounts
  <2>2. ASSUME NEW x \in Extensions
        PROVE  /\ InOrder(handled[x] \o InHand(x) \o queue[x] \o Offered(x) \o channel[Dispatch], since[Dispatch])
               /\ counters[x].received = Len(seen[Dispatch]) - Len(Offered(x))
               /\ counters[x].received = counters[x].queued + counters[x].dropped
               /\ counters[x].queued = counters[x].succeeded + counters[x].failed + Len(InHand(x)) + Len(queue[x])
               /\ Len(handled[x]) = counters[x].succeeded + counters[x].failed
               /\ ElementsOf(output[x]) \subseteq Allowed /\ InOrder(output[x], 0)
               /\ Len(output[x]) + overflow[x] <= counters[x].succeeded
    <3>1. Ordered(x) /\ Tallied(x) /\ SinkOutputs(x)
      BY DEF FlowInv
    <3>2. PICK r \in Nat, o \in Nat, l \in Nat :
            r = counters[x].received /\ o = Len(Offered(x)) /\ l = Len(seen[Dispatch])
      BY TypesOfOne DEF Tallies
    <3>3. r = l - o
      BY <3>1, <3>2 DEF Tallied
    <3> QED BY <3>1, <3>2, <3>3, Zenon DEF Ordered, Way, Tallied, SinkOutputs
  <2> QED BY <2>1, <2>2 DEF ExtensionMissesOnlyCounted
<1> QED BY <1>1, DispatcherInvHolds, FlowHolds, PTL

-----------------------------------------------------------------------------
(* The consumers and the policy alone. *)
AdviceSpec == AdviceInit /\ [][AdviceStep \/ PolicyStep]_adviceVars

Types == {e.type : e \in JobEvents}
Summaries == [by : Summarizers, event : JobEvents, count : Nat]

(* The consumers' counters, and what they have at hand. *)
CountersInv ==
  /\ atHand \in [Consumers -> JobEvents \cup {Nobody}]
  /\ observed \in [Consumers -> Nat]
  /\ byType \in [Types -> Nat] /\ byOutcome \in [Outcomes -> Nat]
  /\ Total(byType) + Uncounted("analytics") = observed["analytics"]
  /\ Total(byOutcome) + Uncounted("cache") = observed["cache"]
  /\ \A c \in Consumers : Pending(c) <= observed[c]
  /\ counted \subseteq {c \in Summarizers : atHand[c] # Nobody}

(* What the sink has of it, and what it gave up. *)
SinkInv ==
  /\ summaries \in Seq(Summaries) /\ outputs \in Seq([event : JobEvents, output : {AdviceFor(e) : e \in JobEvents}])
  /\ sinkDropped \in Nat
  /\ Len(summaries) <= SinkMax /\ Len(outputs) <= SinkMax
  /\ LET emitted == observed["analytics"] - Pending("analytics") + (observed["cache"] - Pending("cache"))
     IN /\ Len(summaries) + Len(outputs) + sinkDropped >= emitted
        /\ Len(summaries) + Len(outputs) + sinkDropped <= emitted + observed["security"] - Pending("security")
  /\ sinkDropped > 0 => SinkMax \in {Len(summaries), Len(outputs)}

(* Unless it gave something up, it has a record of every event the analytics  *)
(* has counted, but for the one at hand.                                     *)
AtHand(t) == IF "analytics" \in counted /\ atHand["analytics"].type = t THEN 1 ELSE 0
TurnsInv ==
  sinkDropped = 0 =>
    /\ \A t \in Types : byType[t] = Cardinality(Turns(summaries, t, Len(summaries))) + AtHand(t)
    /\ \A i \in DOMAIN summaries :
         summaries[i].by = "analytics" => summaries[i].count = Cardinality(Turns(summaries, summaries[i].event.type, i))

ConsumersInv == CountersInv /\ SinkInv /\ TurnsInv

LEMMA AdviceConstants ==
  /\ SinkMax \in Nat /\ SinkMax > 0 /\ IsFiniteSet(Types) /\ IsFiniteSet(Outcomes)
  /\ Summarizers \subseteq Consumers /\ "security" \in Consumers \ Summarizers
<1>1. IsFiniteSet(Types)
  <2> DEFINE f == [e \in JobEvents |-> e.type]
  <2>1. f \in Surjection(JobEvents, Types)
    BY DEF Surjection, Types
  <2> HIDE DEF f
  <2> QED BY <2>1, AdviceAssumption, FS_Surjection
<1>2. IsFiniteSet(Outcomes)
  <2>1. Outcomes = ({"hit"} \cup {"miss"}) \cup {"unknown"}
    BY DEF Outcomes
  <2>2. IsFiniteSet({"hit"}) /\ IsFiniteSet({"miss"}) /\ IsFiniteSet({"unknown"})
    BY FS_Singleton
  <2>3. IsFiniteSet({"hit"} \cup {"miss"})
    BY <2>2, FS_Union
  <2>4. IsFiniteSet(({"hit"} \cup {"miss"}) \cup {"unknown"})
    BY <2>2, <2>3, FS_Union
  <2> QED BY <2>1, <2>4
<1>3. SinkMax \in Nat /\ SinkMax > 0
  <2>1. {MaxActions, MaxAnnotations, SinkMax} \subseteq Nat \ {0}
    BY AdviceAssumption
  <2>2. SinkMax \in Nat \ {0}
    BY ONLY <2>1
  <2> QED BY ONLY <2>2
<1>4. Summarizers \subseteq Consumers /\ "security" \in Consumers \ Summarizers
  BY DEF Summarizers, Consumers
<1> QED BY <1>1, <1>2, <1>3, <1>4

LEMMA TurnsAreFinite ==
  ASSUME NEW records, NEW t, NEW i \in Nat
  PROVE  IsFiniteSet(Turns(records, t, i)) /\ Cardinality(Turns(records, t, i)) \in Nat
<1>1. IsFiniteSet(1 .. i)
  BY FS_Interval
<1>2. Turns(records, t, i) \subseteq 1 .. i
  BY Zenon DEF Turns
<1> QED BY <1>1, <1>2, FS_Subset, FS_CardinalityType

(* The sum over the two consumers that emit summaries. *)
LEMMA TotalOfTwo ==
  ASSUME NEW f, DOMAIN f = Summarizers, \A c \in Summarizers : f[c] \in Int
  PROVE  Total(f) = f["analytics"] + f["cache"]
<1> DEFINE none == [c \in {} |-> 0]
           one == [c \in {"analytics"} |-> f["analytics"]]
<1>1. Total(none) = 0
  BY TotalOfNothing
<1>2. Total(one) = Total(none) + one["analytics"]
  <2>1. IsFiniteSet(DOMAIN none)
    BY FS_EmptySet
  <2>2. /\ "analytics" \notin DOMAIN none /\ DOMAIN one = DOMAIN none \cup {"analytics"}
        /\ one["analytics"] \in Int /\ \A y \in DOMAIN none : none[y] \in Int /\ one[y] = none[y]
    BY DEF Summarizers
  <2> HIDE DEF none, one
  <2> QED BY <2>1, <2>2, TotalWithOneMore
<1>3. Total(f) = Total(one) + f["cache"]
  <2>1. IsFiniteSet(DOMAIN one)
    BY FS_Singleton
  <2>2. /\ "cache" \notin DOMAIN one /\ DOMAIN f = DOMAIN one \cup {"cache"}
        /\ f["cache"] \in Int /\ \A y \in DOMAIN one : one[y] \in Int /\ f[y] = one[y]
    BY DEF Summarizers
  <2> HIDE DEF one
  <2> QED BY <2>1, <2>2, TotalWithOneMore
<1>4. one["analytics"] = f["analytics"] /\ f["analytics"] \in Int /\ f["cache"] \in Int
  BY DEF Summarizers
<1> HIDE DEF none, one
<1> QED BY <1>1, <1>2, <1>3, <1>4

LEMMA TotalsAreNumbers ==
  ASSUME CountersInv
  PROVE  Total(byType) \in Int /\ Total(byOutcome) \in Int
<1>1. /\ DOMAIN byType = Types /\ DOMAIN byOutcome = Outcomes
      /\ \A t \in Types : byType[t] \in Int
      /\ \A o \in Outcomes : byOutcome[o] \in Int
  BY DEF CountersInv
<1> QED BY <1>1, AdviceConstants, TotalType

(* An event that a consumer observes is at hand, and in no counter of its own. *)
LEMMA ObserveKeeps ==
  ASSUME ConsumersInv, NEW c \in Consumers, NEW e \in JobEvents, Observe(c, e)
  PROVE  ConsumersInv'
<1>1. /\ atHand[c] = Nobody /\ e # Nobody /\ atHand' = [atHand EXCEPT ![c] = e]
      /\ observed' = [observed EXCEPT ![c] = observed[c] + 1]
      /\ UNCHANGED <<counted, byType, byOutcome, summaries, outputs, sinkDropped>>
  BY AdviceAssumption DEF Observe
<1>2. /\ atHand'[c] = e /\ (\A d \in Consumers \ {c} : atHand'[d] = atHand[d])
      /\ observed'[c] = observed[c] + 1 /\ \A d \in Consumers \ {c} : observed'[d] = observed[d]
      /\ atHand' \in [Consumers -> JobEvents \cup {Nobody}] /\ observed' \in [Consumers -> Nat]
  BY <1>1 DEF ConsumersInv, CountersInv
<1>3. /\ Pending(c) = 0 /\ Pending(c)' = 1
      /\ \A d \in Consumers \ {c} : Pending(d)' = Pending(d)
  BY <1>1, <1>2 DEF Pending
<1>4. c \notin counted /\ counted \subseteq Summarizers
  BY <1>1 DEF ConsumersInv, CountersInv
<1>5. /\ Uncounted(c) = 0 /\ Uncounted(c)' = 1
      /\ \A d \in Consumers \ {c} : Uncounted(d)' = Uncounted(d)
  BY <1>1, <1>2, <1>4 DEF Uncounted
<1>6. \A d \in Consumers : Pending(d) \in Nat /\ observed[d] \in Nat
  BY DEF Pending, ConsumersInv, CountersInv
<1>7. \A d \in Consumers : observed'[d] - Pending(d)' = observed[d] - Pending(d)
  BY <1>2, <1>3, <1>6
<1>8. CountersInv'
  <2>1. \A d \in Consumers : Pending(d)' <= observed'[d]
    BY <1>2, <1>3, <1>6 DEF ConsumersInv, CountersInv
  <2>2. \A d \in Consumers : observed'[d] = observed[d] + (Uncounted(d)' - Uncounted(d))
    BY <1>2, <1>5, <1>6 DEF Uncounted
  <2>3. "analytics" \in Consumers /\ "cache" \in Consumers
    BY DEF Consumers, Summarizers
  <2>4. ASSUME NEW d \in Consumers, NEW k \in Int, k + Uncounted(d) = observed[d]
        PROVE  k + Uncounted(d)' = observed'[d]
    <3>1. Uncounted(d) \in Nat /\ Uncounted(d)' \in Nat
      BY DEF Uncounted
    <3> QED BY <2>2, <2>4, <3>1
  <2>5. /\ Total(byType) + Uncounted("analytics")' = observed'["analytics"]
        /\ Total(byOutcome) + Uncounted("cache")' = observed'["cache"]
    <3>1. Total(byType) \in Int /\ Total(byOutcome) \in Int
      BY TotalsAreNumbers DEF ConsumersInv
    <3> QED BY <2>3, <2>4, <3>1 DEF ConsumersInv, CountersInv
  <2>6. counted' \subseteq {d \in Summarizers : atHand'[d] # Nobody}
    BY <1>1, <1>2, <1>4, AdviceConstants DEF ConsumersInv, CountersInv
  <2>7. Total(byType)' = Total(byType) /\ Total(byOutcome)' = Total(byOutcome)
    BY <1>1
  <2> QED BY <1>1, <1>2, <2>1, <2>5, <2>6, <2>7 DEF ConsumersInv, CountersInv
<1>9. SinkInv'
  <2>1. /\ observed'["analytics"] - Pending("analytics")' = observed["analytics"] - Pending("analytics")
        /\ observed'["cache"] - Pending("cache")' = observed["cache"] - Pending("cache")
        /\ observed'["security"] - Pending("security")' = observed["security"] - Pending("security")
    BY <1>7 DEF Consumers, Summarizers
  <2>2. /\ "analytics" \in Consumers /\ "cache" \in Consumers /\ "security" \in Consumers
        /\ Pending("security") \in Nat /\ Pending("security")' \in Nat
    BY DEF Consumers, Summarizers, Pending
  <2> QED BY <1>1, <1>2, <1>6, <2>1, <2>2 DEF ConsumersInv, SinkInv
<1>10. TurnsInv'
  <2>1. \A t : AtHand(t)' = AtHand(t)
    BY <1>1, <1>2, <1>4 DEF AtHand, Consumers, Summarizers
  <2> QED BY <1>1, <2>1 DEF ConsumersInv, TurnsInv
<1> QED BY <1>8, <1>9, <1>10 DEF ConsumersInv

(* What a consumer counts is what it has at hand, once. *)
LEMMA CountKeeps ==
  ASSUME ConsumersInv, NEW c \in Summarizers, CountEvent(c)
  PROVE  ConsumersInv'
<1> PICK e : e = atHand[c]
  OBVIOUS
<1>1. /\ c \notin counted /\ e # Nobody /\ counted' = counted \cup {c}
      /\ UNCHANGED <<atHand, observed, summaries, outputs, sinkDropped>>
      /\ byType' = IF c = "analytics" THEN [byType EXCEPT ![e.type] = byType[e.type] + 1] ELSE byType
      /\ byOutcome' = IF c = "cache" THEN [byOutcome EXCEPT ![Outcome(e)] = byOutcome[Outcome(e)] + 1] ELSE byOutcome
  BY DEF CountEvent
<1>2. c \in Consumers /\ e \in JobEvents /\ e.type \in Types
  BY <1>1, AdviceConstants DEF ConsumersInv, CountersInv, Types
<1>3. /\ Uncounted(c) = 1 /\ Uncounted(c)' = 0
      /\ \A d \in Consumers \ {c} : Uncounted(d)' = Uncounted(d)
      /\ \A d \in Consumers : Pending(d)' = Pending(d)
  BY <1>1 DEF Uncounted, Pending
<1>4. /\ byType' \in [Types -> Nat]
      /\ Total(byType') = IF c = "analytics" THEN Total(byType) + 1 ELSE Total(byType)
  <2>1. CASE c = "analytics"
    <3> PICK y \in Types : y = e.type
      BY <1>2
    <3>1. byType' = [byType EXCEPT ![y] = byType[y] + 1]
      BY <1>1, <2>1
    <3>2. /\ byType' \in [Types -> Nat] /\ DOMAIN byType = Types /\ DOMAIN byType' = Types
          /\ y \in DOMAIN byType
          /\ \A t \in Types : byType[t] \in Int
          /\ byType'[y] = byType[y] + 1 /\ byType'[y] \in Int
          /\ \A t \in Types \ {y} : byType'[t] = byType[t]
      BY <3>1 DEF ConsumersInv, CountersInv
    <3>3. Total(byType') = Total(byType) - byType[y] + byType'[y]
      <4>1. IsFiniteSet(DOMAIN byType)
        BY <3>2, AdviceConstants
      <4> QED BY ONLY <3>2, <4>1, TotalWithOneChanged
    <3>4. Total(byType) \in Int
      BY TotalsAreNumbers DEF ConsumersInv
    <3> QED BY <2>1, <3>2, <3>3, <3>4
  <2>2. CASE c # "analytics"
    <3>1. byType' = byType
      BY <1>1, <2>2
    <3> QED BY <2>2, <3>1 DEF ConsumersInv, CountersInv
  <2> QED BY <2>1, <2>2
<1>5. /\ byOutcome' \in [Outcomes -> Nat]
      /\ Total(byOutcome') = IF c = "cache" THEN Total(byOutcome) + 1 ELSE Total(byOutcome)
  <2>1. CASE c = "cache"
    <3> PICK o \in Outcomes : o = Outcome(e)
      BY DEF Outcome, Outcomes
    <3>1. byOutcome' = [byOutcome EXCEPT ![o] = byOutcome[o] + 1]
      BY <1>1, <2>1
    <3>2. /\ byOutcome' \in [Outcomes -> Nat] /\ DOMAIN byOutcome = Outcomes /\ DOMAIN byOutcome' = Outcomes
          /\ o \in DOMAIN byOutcome
          /\ \A x \in Outcomes : byOutcome[x] \in Int
          /\ byOutcome'[o] = byOutcome[o] + 1 /\ byOutcome'[o] \in Int
          /\ \A x \in Outcomes \ {o} : byOutcome'[x] = byOutcome[x]
      BY <3>1 DEF ConsumersInv, CountersInv
    <3>3. Total(byOutcome') = Total(byOutcome) - byOutcome[o] + byOutcome'[o]
      <4>1. IsFiniteSet(DOMAIN byOutcome)
        BY <3>2, AdviceConstants
      <4> QED BY ONLY <3>2, <4>1, TotalWithOneChanged
    <3>4. Total(byOutcome) \in Int
      BY TotalsAreNumbers DEF ConsumersInv
    <3> QED BY <2>1, <3>2, <3>3, <3>4
  <2>2. CASE c # "cache"
    <3>1. byOutcome' = byOutcome
      BY <1>1, <2>2
    <3> QED BY <2>2, <3>1 DEF ConsumersInv, CountersInv
  <2> QED BY <2>1, <2>2
<1>6. CountersInv'
  <2>1. /\ Total(byType') + Uncounted("analytics")' = observed["analytics"]
        /\ Total(byOutcome') + Uncounted("cache")' = observed["cache"]
    <3>1. Total(byType) \in Int /\ Total(byOutcome) \in Int
      BY TotalsAreNumbers DEF ConsumersInv
    <3>2. /\ Total(byType) + Uncounted("analytics") = observed["analytics"]
          /\ Total(byOutcome) + Uncounted("cache") = observed["cache"]
      BY DEF ConsumersInv, CountersInv
    <3>3. \/ c = "analytics" /\ Uncounted("cache")' = Uncounted("cache")
          \/ c = "cache" /\ Uncounted("analytics")' = Uncounted("analytics")
      BY <1>3 DEF Consumers, Summarizers
    <3>4. Uncounted("analytics") \in Nat /\ Uncounted("cache") \in Nat
      BY DEF Uncounted
    <3> QED BY <1>3, <1>4, <1>5, <3>1, <3>2, <3>3, <3>4
  <2>2. counted' \subseteq {d \in Summarizers : atHand'[d] # Nobody}
    BY <1>1 DEF ConsumersInv, CountersInv
  <2> QED BY <1>1, <1>3, <1>4, <1>5, <2>1, <2>2 DEF ConsumersInv, CountersInv
<1>7. SinkInv'
  BY <1>1, <1>3 DEF ConsumersInv, SinkInv, Consumers, Summarizers
<1>8. TurnsInv'
  <2> SUFFICES ASSUME sinkDropped = 0 PROVE TurnsInv'
    BY <1>1 DEF TurnsInv
  <2>1. ASSUME NEW t \in Types
        PROVE  byType'[t] = Cardinality(Turns(summaries, t, Len(summaries))) + AtHand(t)'
    <3>1. /\ byType[t] = Cardinality(Turns(summaries, t, Len(summaries))) + AtHand(t)
          /\ byType[t] \in Nat /\ Cardinality(Turns(summaries, t, Len(summaries))) \in Nat
      BY TurnsAreFinite DEF ConsumersInv, CountersInv, SinkInv, TurnsInv
    <3>2. CASE c = "analytics"
      <4>1. AtHand(t) = 0 /\ AtHand(t)' = IF e.type = t THEN 1 ELSE 0
        BY <1>1, <3>2 DEF AtHand
      <4>2. byType'[t] = IF e.type = t THEN byType[t] + 1 ELSE byType[t]
        BY <1>1, <3>2 DEF ConsumersInv, CountersInv
      <4> QED BY <3>1, <4>1, <4>2
    <3>3. CASE c # "analytics"
      <4>1. AtHand(t)' = AtHand(t) /\ byType' = byType
        BY <1>1, <3>3 DEF AtHand
      <4> QED BY <3>1, <4>1
    <3> QED BY <3>2, <3>3
  <2> QED BY <1>1, <2>1 DEF ConsumersInv, TurnsInv
<1> QED BY <1>6, <1>7, <1>8 DEF ConsumersInv

(* Nothing changes but what a consumer has at hand: it has done with it.       *)
LEMMA DoneKeeps ==
  ASSUME ConsumersInv, NEW c \in Consumers, atHand[c] # Nobody, Done(c),
         c \in counted \/ c = "security", UNCHANGED <<observed, byType, byOutcome>>
  PROVE  /\ CountersInv'
         /\ Pending(c) = 1 /\ Pending(c)' = 0 /\ \A d \in Consumers \ {c} : Pending(d)' = Pending(d)
         /\ \A t : AtHand(t)' = IF c = "analytics" THEN 0 ELSE AtHand(t)
<1>1. /\ atHand' \in [Consumers -> JobEvents \cup {Nobody}] /\ atHand'[c] = Nobody
      /\ \A d \in Consumers \ {c} : atHand'[d] = atHand[d]
      /\ counted' = counted \ {c} /\ counted \subseteq Summarizers
  BY DEF Done, ConsumersInv, CountersInv
<1>2. Pending(c) = 1 /\ Pending(c)' = 0 /\ \A d \in Consumers \ {c} : Pending(d)' = Pending(d)
  BY <1>1 DEF Pending
<1>3. \A t : AtHand(t)' = IF c = "analytics" THEN 0 ELSE AtHand(t)
  BY <1>1 DEF AtHand, Consumers, Summarizers
<1>4. \A d \in Consumers : Pending(d)' <= observed[d]
  BY <1>2 DEF ConsumersInv, CountersInv
<1>5. Uncounted("analytics")' = Uncounted("analytics") /\ Uncounted("cache")' = Uncounted("cache")
  BY <1>1 DEF Uncounted, Consumers, Summarizers
<1>6. counted' \subseteq {d \in Summarizers : atHand'[d] # Nobody}
  BY <1>1, AdviceConstants DEF ConsumersInv, CountersInv
<1> QED BY <1>1, <1>2, <1>3, <1>4, <1>5, <1>6 DEF ConsumersInv, CountersInv

(* A record more is the last of its turns, and changes none before it. *)
HasOneMore(t, old, s) ==
  LET new == Append(old, s)
      n == Len(old)
  IN /\ \A i \in 0 .. n : Turns(new, t, i) = Turns(old, t, i)
     /\ s.by = "analytics" /\ s.event.type = t =>
          Cardinality(Turns(new, t, n + 1)) = Cardinality(Turns(old, t, n)) + 1
     /\ ~(s.by = "analytics" /\ s.event.type = t) =>
          Cardinality(Turns(new, t, n + 1)) = Cardinality(Turns(old, t, n))

LEMMA TurnsGrow ==
  ASSUME NEW t, NEW s \in Summaries, NEW old \in Seq(Summaries)
  PROVE  HasOneMore(t, old, s)
<1> PICK new, n : new = Append(old, s) /\ n = Len(old)
  OBVIOUS
<1>0. n \in Nat
  OBVIOUS
<1>1. new[n + 1] = s /\ \A i \in 1 .. n : new[i] = old[i]
  OBVIOUS
<1>2. \A i \in 0 .. n : Turns(new, t, i) = Turns(old, t, i)
  BY <1>1 DEF Turns
<1>3. 1 .. n + 1 = (1 .. n) \cup {n + 1}
  OBVIOUS
<1>4. IsFiniteSet(Turns(old, t, n)) /\ Cardinality(Turns(old, t, n)) \in Nat
  BY <1>0, TurnsAreFinite
<1>5. CASE s.by = "analytics" /\ s.event.type = t
  <2>1. Turns(new, t, n + 1) = Turns(old, t, n) \cup {n + 1}
    BY <1>1, <1>3, <1>5 DEF Turns
  <2>2. n + 1 \notin Turns(old, t, n)
    BY DEF Turns
  <2>3. Cardinality(Turns(old, t, n) \cup {n + 1}) = Cardinality(Turns(old, t, n)) + 1
    BY <1>4, <2>2, FS_AddElement
  <2> QED BY <1>2, <1>5, <2>1, <2>3 DEF HasOneMore
<1>6. CASE ~(s.by = "analytics" /\ s.event.type = t)
  <2>1. Turns(new, t, n + 1) = Turns(old, t, n)
    BY <1>1, <1>3, <1>6 DEF Turns
  <2> QED BY <1>2, <1>6, <2>1 DEF HasOneMore
<1> QED BY <1>5, <1>6

LEMMA SummarizeKeeps ==
  ASSUME ConsumersInv, NEW c \in Summarizers, Summarize(c)
  PROVE  ConsumersInv'
<1> PICK e, s : /\ e = atHand[c]
                /\ s = [by |-> c, event |-> e, count |-> IF c = "analytics" THEN byType[e.type] ELSE 0]
  OBVIOUS
<1> PICK a \in Nat, b \in Nat, x \in Nat, n \in Nat, o \in Nat, d \in Nat :
      /\ a = observed["analytics"] /\ b = observed["cache"] /\ x = observed["security"]
      /\ n = Len(summaries) /\ o = Len(outputs) /\ d = sinkDropped
  BY DEF ConsumersInv, CountersInv, SinkInv, Consumers, Summarizers
<1>1. /\ c \in Consumers /\ atHand[c] # Nobody /\ Done(c) /\ UNCHANGED <<observed, byType, byOutcome, outputs>>
      /\ c \in counted
  BY AdviceConstants DEF Summarize, ConsumersInv, CountersInv
<1>2. /\ CountersInv'
      /\ Pending(c) = 1 /\ Pending(c)' = 0 /\ \A k \in Consumers \ {c} : Pending(k)' = Pending(k)
      /\ \A t : AtHand(t)' = IF c = "analytics" THEN 0 ELSE AtHand(t)
  BY <1>1, DoneKeeps
<1>3. PICK p \in 0 .. 1, q \in 0 .. 1, r \in 0 .. 1 :
        p = Pending("analytics") /\ q = Pending("cache") /\ r = Pending("security")
  BY DEF Pending
<1>4. /\ Pending("security")' = r
      /\ \/ c = "analytics" /\ p = 1 /\ Pending("analytics")' = 0 /\ Pending("cache")' = q
         \/ c = "cache" /\ q = 1 /\ Pending("analytics")' = p /\ Pending("cache")' = 0
  BY <1>2, <1>3 DEF Consumers, Summarizers
<1>5. /\ n <= SinkMax /\ o <= SinkMax /\ n + o + d >= a - p + (b - q)
      /\ n + o + d <= a - p + (b - q) + x - r /\ (d > 0 => SinkMax \in {n, o})
  BY <1>3 DEF ConsumersInv, SinkInv
<1>6. e \in JobEvents /\ s \in Summaries
  <2>1. e \in JobEvents
    BY <1>1 DEF ConsumersInv, CountersInv
  <2>2. byType[e.type] \in Nat
    BY <2>1 DEF ConsumersInv, CountersInv, Types
  <2> QED BY <2>1, <2>2 DEF Summaries
<1>7. \/ n < SinkMax /\ summaries' = Append(summaries, s) /\ sinkDropped' = d
      \/ n >= SinkMax /\ summaries' = summaries /\ sinkDropped' = d + 1
  <2>1. \/ Len(summaries) < SinkMax /\ summaries' = Append(summaries, s) /\ sinkDropped' = sinkDropped
        \/ ~(Len(summaries) < SinkMax) /\ summaries' = summaries /\ sinkDropped' = sinkDropped + 1
    BY DEF Summarize
  <2>2. SinkMax \in Nat
    BY AdviceConstants
  <2> QED BY <2>1, <2>2
<1>8. SinkInv'
  <2>1. summaries \in Seq(Summaries) /\ SinkMax \in Nat
    BY AdviceConstants DEF ConsumersInv, SinkInv
  <2>2. PICK m \in Nat, f \in Nat :
          /\ summaries' \in Seq(Summaries) /\ m = Len(summaries') /\ f = sinkDropped'
          /\ m <= SinkMax /\ m + f = n + d + 1 /\ (f > 0 => SinkMax \in {m, o})
    <3>1. CASE n < SinkMax
      <4>1. summaries' \in Seq(Summaries) /\ Len(summaries') = n + 1 /\ sinkDropped' = d
        BY <1>6, <1>7, <2>1, <3>1
      <4> QED BY <1>5, <2>1, <3>1, <4>1
    <3>2. CASE ~(n < SinkMax)
      <4>1. summaries' = summaries /\ sinkDropped' = d + 1 /\ n = SinkMax
        BY <1>5, <1>7, <2>1, <3>2
      <4> QED BY <2>1, <4>1
    <3> QED BY <3>1, <3>2
  <2>3. PICK u \in 0 .. 1, v \in 0 .. 1 :
          /\ u = Pending("analytics")' /\ v = Pending("cache")' /\ u + v + 1 = p + q
    BY <1>3, <1>4
  <2>4. /\ m + o + f >= a - u + (b - v) /\ m + o + f <= a - u + (b - v) + x - r
    <3>1. n + o + d >= a - p + (b - q) /\ n + o + d <= a - p + (b - q) + x - r
      BY <1>5
    <3>2. m + f = n + d + 1 /\ u + v + 1 = p + q
      BY <2>2, <2>3
    <3> QED BY ONLY <3>1, <3>2, a \in Nat, b \in Nat, x \in Nat, n \in Nat, o \in Nat, d \in Nat,
                    m \in Nat, f \in Nat, p \in 0 .. 1, q \in 0 .. 1, r \in 0 .. 1, u \in 0 .. 1, v \in 0 .. 1
  <2>5. outputs' = outputs /\ observed' = observed
    BY <1>1
  <2>6. outputs \in Seq([event : JobEvents, output : {AdviceFor(k) : k \in JobEvents}])
    BY DEF ConsumersInv, SinkInv
  <2> QED BY <1>4, <1>5, <2>1, <2>2, <2>3, <2>4, <2>5, <2>6 DEF SinkInv
<1>9. TurnsInv'
  <2> SUFFICES ASSUME sinkDropped' = 0 PROVE TurnsInv'
    BY DEF TurnsInv
  <2>1. sinkDropped = 0 /\ summaries' = Append(summaries, s) /\ summaries \in Seq(Summaries)
    BY <1>7 DEF ConsumersInv, SinkInv
  <2>2. /\ Len(summaries') = n + 1 /\ summaries'[n + 1] = s /\ \A i \in 1 .. n : summaries'[i] = summaries[i]
        /\ DOMAIN summaries' = 1 .. n + 1 /\ DOMAIN summaries = 1 .. n
    BY <1>6, <2>1
  <2>3. ASSUME NEW t
        PROVE  /\ \A i \in 0 .. n : Turns(summaries', t, i) = Turns(summaries, t, i)
               /\ s.by = "analytics" /\ s.event.type = t =>
                    Cardinality(Turns(summaries', t, n + 1)) = Cardinality(Turns(summaries, t, n)) + 1
               /\ ~(s.by = "analytics" /\ s.event.type = t) =>
                    Cardinality(Turns(summaries', t, n + 1)) = Cardinality(Turns(summaries, t, n))
    <3>1. HasOneMore(t, summaries, s)
      BY <1>6, <2>1, TurnsGrow
    <3> QED BY <2>1, <3>1 DEF HasOneMore
  <2>4. s.by = c /\ s.event = e /\ (c = "analytics" => s.count = byType[e.type] /\ e = atHand["analytics"])
    OBVIOUS
  <2>5. \A t \in Types : byType[t] \in Nat /\ Cardinality(Turns(summaries, t, n)) \in Nat
                         /\ byType[t] = Cardinality(Turns(summaries, t, n)) + AtHand(t)
    BY <2>1, TurnsAreFinite DEF ConsumersInv, CountersInv, TurnsInv
  <2>6. ASSUME NEW t \in Types PROVE byType'[t] = Cardinality(Turns(summaries', t, n + 1)) + AtHand(t)'
    <3>1. byType'[t] = byType[t]
      BY <1>1
    <3>2. CASE c = "analytics"
      <4>1. AtHand(t)' = 0 /\ AtHand(t) = IF e.type = t THEN 1 ELSE 0
        BY <1>1, <1>2, <2>4, <3>2 DEF AtHand
      <4>2. /\ e.type = t => Cardinality(Turns(summaries', t, n + 1)) = Cardinality(Turns(summaries, t, n)) + 1
            /\ e.type # t => Cardinality(Turns(summaries', t, n + 1)) = Cardinality(Turns(summaries, t, n))
        BY <2>3, <2>4, <3>2
      <4> QED BY <2>5, <3>1, <4>1, <4>2
    <3>3. CASE c # "analytics"
      <4>1. AtHand(t)' = AtHand(t)
        BY <1>2, <3>3
      <4>2. Cardinality(Turns(summaries', t, n + 1)) = Cardinality(Turns(summaries, t, n))
        BY <2>3, <2>4, <3>3
      <4> QED BY <2>5, <3>1, <4>1, <4>2
    <3> QED BY <3>2, <3>3
  <2>7. ASSUME NEW i \in 1 .. n + 1, summaries'[i].by = "analytics"
        PROVE  summaries'[i].count = Cardinality(Turns(summaries', summaries'[i].event.type, i))
    <3>1. CASE i \in 1 .. n
      <4>1. summaries'[i] = summaries[i]
        BY <2>2, <3>1
      <4>2. summaries[i].count = Cardinality(Turns(summaries, summaries[i].event.type, i))
        BY <2>1, <2>2, <2>7, <3>1, <4>1 DEF ConsumersInv, TurnsInv
      <4>3. Turns(summaries', summaries[i].event.type, i) = Turns(summaries, summaries[i].event.type, i)
        <5> PICK t : t = summaries[i].event.type
          OBVIOUS
        <5>1. Turns(summaries', t, i) = Turns(summaries, t, i)
          BY <2>3, <3>1
        <5> QED BY <5>1
      <4> QED BY <4>1, <4>2, <4>3
    <3>2. CASE i = n + 1
      <4>1. c = "analytics" /\ e.type \in Types
        BY <1>6, <2>2, <2>4, <2>7, <3>2 DEF Types
      <4>2. AtHand(e.type) = 1 /\ byType[e.type] = Cardinality(Turns(summaries, e.type, n)) + AtHand(e.type)
        BY <1>1, <2>4, <2>5, <4>1 DEF AtHand
      <4>3. Cardinality(Turns(summaries', e.type, n + 1)) = Cardinality(Turns(summaries, e.type, n)) + 1
        BY <2>3, <2>4, <4>1
      <4> QED BY <2>2, <2>4, <3>2, <4>1, <4>2, <4>3
    <3> QED BY <3>1, <3>2
  <2> QED BY <2>2, <2>6, <2>7 DEF TurnsInv
<1> QED BY <1>2, <1>8, <1>9 DEF ConsumersInv

(* The advice takes its place in the sink without a record. *)
LEMMA AdviseKeeps ==
  ASSUME ConsumersInv, Advise
  PROVE  ConsumersInv'
<1> PICK a \in Nat, b \in Nat, x \in Nat, n \in Nat, o \in Nat, d \in Nat :
      /\ a = observed["analytics"] /\ b = observed["cache"] /\ x = observed["security"]
      /\ n = Len(summaries) /\ o = Len(outputs) /\ d = sinkDropped
  BY DEF ConsumersInv, CountersInv, SinkInv, Consumers, Summarizers
<1> PICK e : e = atHand["security"]
  OBVIOUS
<1>1. /\ "security" \in Consumers /\ e # Nobody /\ Done("security")
      /\ UNCHANGED <<observed, byType, byOutcome, summaries>>
  BY AdviceConstants DEF Advise
<1>2. /\ CountersInv'
      /\ Pending("security") = 1 /\ Pending("security")' = 0
      /\ Pending("analytics")' = Pending("analytics") /\ Pending("cache")' = Pending("cache")
      /\ \A t : AtHand(t)' = AtHand(t)
  BY <1>1, DoneKeeps DEF Consumers, Summarizers
<1>3. PICK p \in 0 .. 1, q \in 0 .. 1 : p = Pending("analytics") /\ q = Pending("cache")
  BY DEF Pending
<1>4. /\ n <= SinkMax /\ o <= SinkMax /\ n + o + d >= a - p + (b - q)
      /\ n + o + d <= a - p + (b - q) + x - 1 /\ (d > 0 => SinkMax \in {n, o})
  BY <1>2, <1>3 DEF ConsumersInv, SinkInv
<1>5. e \in JobEvents
  BY <1>1 DEF ConsumersInv, CountersInv
<1>6. \/ outputs' = outputs /\ sinkDropped' = d
      \/ Len(outputs) < SinkMax /\ outputs' = Append(outputs, [event |-> e, output |-> AdviceFor(e)]) /\ sinkDropped' = d
      \/ ~(Len(outputs) < SinkMax) /\ outputs' = outputs /\ sinkDropped' = sinkDropped + 1
  BY DEF Advise
<1>7. SinkInv'
  <2> DEFINE Given == [event : JobEvents, output : {AdviceFor(k) : k \in JobEvents}]
  <2>1. outputs \in Seq(Given) /\ SinkMax \in Nat /\ [event |-> e, output |-> AdviceFor(e)] \in Given
    BY <1>5, AdviceConstants DEF ConsumersInv, SinkInv
  <2>2. PICK m \in Nat, f \in Nat :
          /\ outputs' \in Seq(Given) /\ m = Len(outputs') /\ f = sinkDropped'
          /\ m <= SinkMax /\ m + f \in {o + d, o + d + 1} /\ (f > 0 => SinkMax \in {n, m})
    <3> HIDE DEF Given
    <3>1. CASE outputs' = outputs /\ sinkDropped' = d
      BY <1>4, <2>1, <3>1
    <3>2. CASE /\ Len(outputs) < SinkMax /\ sinkDropped' = d
               /\ outputs' = Append(outputs, [event |-> e, output |-> AdviceFor(e)])
      <4>1. outputs' \in Seq(Given) /\ Len(outputs') = o + 1
        BY <2>1, <3>2
      <4> QED BY <1>4, <2>1, <3>2, <4>1
    <3>3. CASE ~(Len(outputs) < SinkMax) /\ outputs' = outputs /\ sinkDropped' = sinkDropped + 1
      <4>1. o = SinkMax
        BY <1>4, <2>1, <3>3
      <4> QED BY <2>1, <3>3, <4>1
    <3> QED BY <1>6, <3>1, <3>2, <3>3
  <2>3. n + m + f >= a - p + (b - q) /\ n + m + f <= a - p + (b - q) + x
    <3>1. n + o + d >= a - p + (b - q) /\ n + o + d <= a - p + (b - q) + x - 1
      BY <1>4
    <3>2. m + f = o + d \/ m + f = o + d + 1
      BY <2>2
    <3> QED BY ONLY <3>1, <3>2, a \in Nat, b \in Nat, x \in Nat, n \in Nat, o \in Nat, d \in Nat,
                    m \in Nat, f \in Nat, p \in 0 .. 1, q \in 0 .. 1
  <2>4. summaries' = summaries /\ observed' = observed /\ summaries \in Seq(Summaries)
    BY <1>1 DEF ConsumersInv, SinkInv
  <2> QED BY <1>2, <1>3, <1>4, <2>1, <2>2, <2>3, <2>4 DEF SinkInv
<1>8. TurnsInv'
  <2> SUFFICES ASSUME sinkDropped' = 0 PROVE TurnsInv'
    BY DEF TurnsInv
  <2>1. sinkDropped = 0
    BY <1>6
  <2> QED BY <1>1, <1>2, <2>1 DEF ConsumersInv, TurnsInv
<1> QED BY <1>2, <1>7, <1>8 DEF ConsumersInv

(* The counters of the consumers, and what the sink they share has of them, add *)
(* up, for any events, any number of them and a sink of any size.            *)
THEOREM ConsumersHold == AdviceSpec => []ConsumersAddUp
<1>1. AdviceInit => ConsumersInv
  <2> SUFFICES ASSUME AdviceInit PROVE ConsumersInv
    OBVIOUS
  <2>1. /\ atHand = [c \in Consumers |-> Nobody] /\ observed = [c \in Consumers |-> 0]
        /\ byType = [t \in Types |-> 0] /\ byOutcome = [o \in Outcomes |-> 0]
        /\ summaries = <<>> /\ outputs = <<>> /\ sinkDropped = 0 /\ counted = {}
    BY DEF AdviceInit, Types
  <2>2. Total(byType) = 0 /\ Total(byOutcome) = 0
    BY <2>1, AdviceConstants, TotalOfZeros
  <2>3. "analytics" \in Consumers /\ "cache" \in Consumers /\ "security" \in Consumers
    BY DEF Consumers, Summarizers
  <2>4. \A c \in Consumers : Pending(c) = 0 /\ Uncounted(c) = 0
    BY <2>1 DEF Pending, Uncounted
  <2>5. CountersInv
    BY <2>1, <2>2, <2>3, <2>4 DEF CountersInv
  <2>6. SinkInv
    BY <2>1, <2>3, <2>4, AdviceConstants DEF SinkInv
  <2>7. TurnsInv
    <3>1. \A t : Cardinality(Turns(summaries, t, Len(summaries))) = 0
      <4>1. \A t : Turns(summaries, t, Len(summaries)) = {}
        BY <2>1 DEF Turns
      <4> QED BY <4>1, FS_EmptySet
    <3>2. \A t : AtHand(t) = 0
      BY <2>1, <2>3 DEF AtHand
    <3> QED BY <2>1, <3>1, <3>2 DEF TurnsInv
  <2> QED BY <2>5, <2>6, <2>7 DEF ConsumersInv
<1>2. ConsumersInv /\ [AdviceStep \/ PolicyStep]_adviceVars => ConsumersInv'
  <2> SUFFICES ASSUME ConsumersInv, [AdviceStep \/ PolicyStep]_adviceVars PROVE ConsumersInv'
    OBVIOUS
  <2>1. CASE UNCHANGED <<atHand, counted, observed, byType, byOutcome, summaries, outputs, sinkDropped>>
    <3>1. /\ \A c : Pending(c)' = Pending(c) /\ Uncounted(c)' = Uncounted(c)
          /\ \A t : AtHand(t)' = AtHand(t)
      BY <2>1 DEF Pending, Uncounted, AtHand
    <3> QED BY <2>1, <3>1 DEF ConsumersInv, CountersInv, SinkInv, TurnsInv
  <2>2. CASE PolicyStep \/ UNCHANGED adviceVars
    BY <2>1, <2>2 DEF PolicyStep, Evaluate, adviceVars
  <2> QED BY <2>2, ObserveKeeps, CountKeeps, SummarizeKeeps, AdviseKeeps DEF AdviceStep
<1>3. ConsumersInv => ConsumersAddUp
  <2> SUFFICES ASSUME ConsumersInv PROVE ConsumersAddUp
    OBVIOUS
  <2> DEFINE g == [c \in Summarizers |-> observed[c] - Pending(c)]
  <2>1. \A c \in Summarizers : g[c] \in Int
    BY AdviceConstants DEF ConsumersInv, CountersInv, Pending
  <2>2. Total(g) = g["analytics"] + g["cache"]
    <3>1. DOMAIN g = Summarizers
      OBVIOUS
    <3> HIDE DEF g
    <3> QED BY <2>1, <3>1, TotalOfTwo
  <2>3. g["analytics"] = observed["analytics"] - Pending("analytics") /\ g["cache"] = observed["cache"] - Pending("cache")
    BY DEF Summarizers
  <2>4. /\ Len(summaries) + Len(outputs) + sinkDropped >= Total(g)
        /\ Len(summaries) + Len(outputs) + sinkDropped <= Total(g) + observed["security"] - Pending("security")
    <3> HIDE DEF g
    <3> QED BY <2>2, <2>3 DEF ConsumersInv, SinkInv
  <2> QED BY <2>4 DEF ConsumersInv, CountersInv, SinkInv, TurnsInv, ConsumersAddUp
<1> QED BY <1>1, <1>2, <1>3, PTL DEF AdviceSpec

-----------------------------------------------------------------------------
(* The exporter: what is kept of a series, and an update of it. *)
Series == [total : Int, count : Nat, buckets : [Buckets -> Nat]]
Accepted == [sample : Samples, labels : LabelSets]

(* The greatest of some naturals up to n. *)
LEMMA MaxIsGreatest ==
  ASSUME NEW n \in Nat, NEW S \in SUBSET (0 .. n), S # {}
  PROVE  Max(S) \in S /\ \A x \in S : x <= Max(S)
<1> DEFINE T == {n - x : x \in S}
<1>1. T \subseteq Nat /\ T # {}
  <2>1. \A x \in S : n - x \in Nat
    OBVIOUS
  <2> QED BY <2>1
<1>2. PICK t \in T : \A u \in T : t <= u
  <2> HIDE DEF T
  <2> QED BY <1>1, LeastNatural
<1>3. PICK y \in S : t = n - y
  OBVIOUS
<1>4. ASSUME NEW x \in S PROVE x <= y
  <2>1. n - y <= n - x
    BY <1>2, <1>3
  <2> QED BY <2>1
<1>5. \E y0 \in S : \A x \in S : y0 >= x
  BY <1>4
<1>6. Max(S) \in S /\ \A x \in S : Max(S) >= x
  BY <1>5 DEF Max
<1>7. \A x \in S : x \in Int
  OBVIOUS
<1> QED BY <1>6, <1>7

LEMMA AppliedType ==
  ASSUME NEW s \in Series, NEW sample \in Samples
  PROVE  Applied(s, sample) \in Series
BY ExporterAssumption DEF Applied, Series

LEMMA NewSeriesType == NewSeries \in Series
BY DEF NewSeries, Series

(* The last setting among some of the updates of a list. *)
LEMMA LastSetIs ==
  ASSUME NEW list \in Seq(Accepted), NEW given \in SUBSET DOMAIN list
  PROVE  /\ LastSet(list, given) \in 0 .. Len(list)
         /\ LastSet(list, given) # 0 => LastSet(list, given) \in given
<1> DEFINE S == {0} \cup {i \in given : list[i].sample.op = "set"}
<1>1. S \in SUBSET (0 .. Len(list)) /\ S # {} /\ Len(list) \in Nat
  OBVIOUS
<1>2. LastSet(list, given) = Max(S)
  BY DEF LastSet
<1>3. Max(S) \in S
  <2> HIDE DEF S
  <2> QED BY <1>1, MaxIsGreatest
<1> QED BY <1>1, <1>2, <1>3

LEMMA NothingAddsUp ==
  ASSUME NEW type, NEW list
  PROVE  AddsUp(NewSeries, type, list, {})
<1>1. Total([i \in {k \in {} : k >= LastSet(list, {})} |-> list[i].sample.amount]) = 0
  BY TotalOfNothing
<1>2. Cardinality({}) = 0
  BY FS_EmptySet
<1>3. ASSUME NEW b \in Buckets
      PROVE  Gathered(NewSeries, b) = Cardinality({i \in {} : list[i].sample.amount <= b})
  <2> DEFINE f == [c \in {d \in Buckets : d <= b} |-> NewSeries.buckets[c]]
  <2>1. IsFiniteSet({d \in Buckets : d <= b})
    BY ExporterAssumption, FS_Subset
  <2>2. DOMAIN f = {d \in Buckets : d <= b} /\ \A x \in DOMAIN f : f[x] = 0
    BY DEF NewSeries
  <2>3. Total(f) = 0
    <3> HIDE DEF f
    <3> QED BY <2>1, <2>2, TotalOfZeros
  <2>4. {i \in {} : list[i].sample.amount <= b} = {}
    OBVIOUS
  <2> QED BY <1>2, <2>3, <2>4 DEF Gathered
<1> QED BY <1>1, <1>2, <1>3 DEF AddsUp, NewSeries

(* An update that is given to another series changes nothing. *)
LEMMA OthersAddUpStill ==
  ASSUME NEW s, NEW type, NEW list \in Seq(Accepted), NEW given \in SUBSET DOMAIN list,
         NEW u \in Accepted, AddsUp(s, type, list, given)
  PROVE  AddsUp(s, type, Append(list, u), given)
<1> PICK new : new = Append(list, u)
  OBVIOUS
<1>1. \A i \in given : new[i] = list[i]
  OBVIOUS
<1>2. LastSet(new, given) = LastSet(list, given)
  <2>1. {i \in given : new[i].sample.op = "set"} = {i \in given : list[i].sample.op = "set"}
    BY <1>1
  <2> QED BY <2>1 DEF LastSet
<1> PICK l : l = LastSet(list, given)
  OBVIOUS
<1>3. [i \in {k \in given : k >= l} |-> new[i].sample.amount] = [i \in {k \in given : k >= l} |-> list[i].sample.amount]
  BY <1>1
<1>4. \A b : {i \in given : new[i].sample.amount <= b} = {i \in given : list[i].sample.amount <= b}
  BY <1>1
<1>5. s.total = Total([i \in {k \in given : k >= l} |-> list[i].sample.amount])
  BY DEF AddsUp
<1>6. s.total = Total([i \in {k \in given : k >= LastSet(new, given)} |-> new[i].sample.amount])
  BY <1>2, <1>3, <1>5, Zenon
<1>7. type = "histogram" =>
        /\ s.count = Cardinality(given)
        /\ \A b \in Buckets : Gathered(s, b) = Cardinality({i \in given : new[i].sample.amount <= b})
  BY <1>4 DEF AddsUp
<1> QED BY <1>6, <1>7 DEF AddsUp

(* The bucket that takes an amount is counted in the lines of all bounds from  *)
(* the amount on.                                                            *)
LEMMA GatheredGrows ==
  ASSUME NEW s \in Series, NEW sample \in Samples, sample.op = "observe", NEW b \in Buckets
  PROVE  Gathered(Applied(s, sample), b) = Gathered(s, b) + IF sample.amount <= b THEN 1 ELSE 0
<1> PICK x \in Int : x = sample.amount
  BY ExporterAssumption
<1> PICK r \in Series : r = Applied(s, sample)
  BY AppliedType
<1> DEFINE D == {d \in Buckets : d <= b}
           f == [c \in D |-> s.buckets[c]]
           g == [c \in D |-> r.buckets[c]]
<1>1. Buckets \subseteq Nat /\ IsFiniteSet(D)
  BY ExporterAssumption, FS_Subset
<1>2. \A c \in Buckets : /\ s.buckets[c] \in Nat /\ r.buckets[c] \in Nat
                         /\ c \in FirstFit(x) => r.buckets[c] = s.buckets[c] + 1
                         /\ c \notin FirstFit(x) => r.buckets[c] = s.buckets[c]
  BY DEF Applied, Series
<1>3. /\ DOMAIN f = D /\ DOMAIN g = D /\ Gathered(s, b) = Total(f) /\ Gathered(r, b) = Total(g)
      /\ \A c \in D : f[c] = s.buckets[c] /\ g[c] = r.buckets[c] /\ f[c] \in Int /\ g[c] \in Int
  BY <1>2 DEF Gathered
<1>4. Total(f) \in Int
  <2> HIDE DEF f, g, D
  <2> QED BY <1>1, <1>3, TotalType
<1>5. CASE x <= b
  <2> DEFINE Fits == {c \in Buckets : x <= c}
  <2>1. Fits \subseteq Nat /\ Fits # {}
    BY <1>1, <1>5
  <2>2. PICK c \in Fits : \A d \in Fits : c <= d
    <3> HIDE DEF Fits
    <3> QED BY <2>1, LeastNatural
  <2>3. c \in D /\ c \in FirstFit(x)
    BY <1>1, <1>5, <2>2 DEF FirstFit
  <2>4. \A d \in FirstFit(x) : d = c
    <3> SUFFICES ASSUME NEW d \in FirstFit(x) PROVE d = c
      OBVIOUS
    <3>1. d <= c /\ c <= d
      BY <2>2 DEF FirstFit
    <3>2. d \in Nat /\ c \in Nat
      BY <1>1, <2>2 DEF FirstFit
    <3> QED BY <3>1, <3>2
  <2>5. g[c] = f[c] + 1 /\ \A d \in D \ {c} : g[d] = f[d]
    BY <1>2, <1>3, <2>3, <2>4
  <2>6. Total(g) = Total(f) - f[c] + g[c]
    <3> HIDE DEF f, g, D
    <3>1. IsFiniteSet(DOMAIN f) /\ c \in DOMAIN f /\ DOMAIN g = DOMAIN f /\ g[c] \in Int
          /\ (\A y \in DOMAIN f : f[y] \in Int) /\ \A y \in DOMAIN f \ {c} : g[y] = f[y]
      BY <1>1, <1>3, <2>3, <2>5
    <3> QED BY ONLY <3>1, TotalWithOneChanged
  <2>7. f[c] \in Int
    BY <1>3, <2>3
  <2> HIDE DEF f, g, D
  <2> QED BY <1>3, <1>4, <1>5, <2>5, <2>6, <2>7
<1>6. CASE ~(x <= b)
  <2>1. \A c \in D : c \notin FirstFit(x)
    BY <1>1, <1>6 DEF FirstFit
  <2>2. g = f
    BY <1>2, <2>1
  <2> HIDE DEF f, g, D
  <2> QED BY <1>3, <1>4, <1>6, <2>2
<1> QED BY <1>5, <1>6

(* An update that is given to the series is applied to it. *)
LEMMA AppliedAddsUp ==
  ASSUME NEW s \in Series, NEW type, NEW list \in Seq(Accepted), NEW given \in SUBSET DOMAIN list,
         NEW u \in Accepted, u.sample.type = type, AddsUp(s, type, list, given)
  PROVE  AddsUp(Applied(s, u.sample), type, Append(list, u), given \cup {Len(list) + 1})
<1> PICK n \in Nat : n = Len(list)
  OBVIOUS
<1> PICK sample \in Samples : sample = u.sample
  BY DEF Accepted
<1> PICK new, grown : new = Append(list, u) /\ grown = given \cup {n + 1}
  OBVIOUS
<1> PICK r \in Series : r = Applied(s, sample)
  BY AppliedType
<1>1. /\ new[n + 1] = u /\ (\A i \in given : new[i] = list[i] /\ i \in 1 .. n) /\ n + 1 \notin given
      /\ new \in Seq(Accepted) /\ grown \in SUBSET DOMAIN new /\ Len(new) = n + 1
  OBVIOUS
<1>2. sample.op \in {"add", "set", "observe"} /\ sample.amount \in Int
      /\ (type = "histogram" => sample.op = "observe")
  BY ExporterAssumption
<1>3. IsFiniteSet(given) /\ Cardinality(given) \in Nat
  <2>1. given \subseteq 1 .. n /\ IsFiniteSet(1 .. n)
    BY FS_Interval
  <2> QED BY <2>1, FS_Subset, FS_CardinalityType
<1>4. r.total = Total([i \in {k \in grown : k >= LastSet(new, grown)} |-> new[i].sample.amount])
  <2>1. CASE sample.op = "set"
    <3>1. LastSet(new, grown) = n + 1
      <4> DEFINE S == {0} \cup {i \in grown : new[i].sample.op = "set"}
      <4>1. n + 1 \in S /\ S \in SUBSET (0 .. n + 1)
        BY <1>1, <2>1
      <4>2. Max(S) \in S /\ n + 1 <= Max(S)
        <5> HIDE DEF S
        <5>1. n + 1 \in Nat
          OBVIOUS
        <5> QED BY <4>1, <5>1, MaxIsGreatest
      <4>3. Max(S) = n + 1
        <5> HIDE DEF S
        <5>1. Max(S) \in 0 .. n + 1
          BY <4>1, <4>2
        <5> QED BY <4>2, <5>1
      <4> QED BY <4>3 DEF LastSet
    <3> DEFINE g == [i \in {n + 1} |-> new[i].sample.amount]
    <3>2. {k \in grown : k >= n + 1} = {n + 1}
      BY <1>1
    <3>3. Total(g) = sample.amount
      <4> DEFINE none == [i \in {} |-> 0]
      <4>1. Total(none) = 0
        BY TotalOfNothing
      <4>2. /\ IsFiniteSet(DOMAIN none) /\ n + 1 \notin DOMAIN none /\ DOMAIN g = DOMAIN none \cup {n + 1}
            /\ g[n + 1] = sample.amount /\ g[n + 1] \in Int /\ \A y \in DOMAIN none : none[y] \in Int /\ g[y] = none[y]
        BY <1>1, <1>2, FS_EmptySet
      <4>3. Total(g) = Total(none) + g[n + 1]
        <5> HIDE DEF none, g
        <5> QED BY <4>2, TotalWithOneMore
      <4> HIDE DEF none, g
      <4> QED BY <1>2, <4>1, <4>2, <4>3
    <3>4. r.total = sample.amount
      BY <1>2, <2>1 DEF Applied, Series
    <3>5. [i \in {k \in grown : k >= LastSet(new, grown)} |-> new[i].sample.amount] = g
      BY <3>1, <3>2
    <3> HIDE DEF g
    <3> QED BY <3>3, <3>4, <3>5
  <2>2. CASE sample.op # "set"
    <3>1. LastSet(new, grown) = LastSet(list, given)
      <4>1. {i \in grown : new[i].sample.op = "set"} = {i \in given : list[i].sample.op = "set"}
        BY <1>1, <2>2
      <4> QED BY <4>1 DEF LastSet
    <3> PICK l \in 0 .. n : l = LastSet(list, given)
      BY LastSetIs
    <3> DEFINE f == [i \in {k \in given : k >= l} |-> list[i].sample.amount]
               g == [i \in {k \in grown : k >= l} |-> new[i].sample.amount]
    <3>2. s.total = Total(f)
      BY DEF AddsUp
    <3>3. /\ n + 1 \notin DOMAIN f /\ DOMAIN g = DOMAIN f \cup {n + 1} /\ g[n + 1] = sample.amount
          /\ \A y \in DOMAIN f : g[y] = f[y]
      BY <1>1
    <3>4. \A y \in DOMAIN f : f[y] \in Int
      <4> SUFFICES ASSUME NEW y \in given PROVE list[y].sample.amount \in Int
        OBVIOUS
      <4>1. list[y] \in Accepted
        OBVIOUS
      <4> QED BY <4>1, ExporterAssumption DEF Accepted
    <3>5. IsFiniteSet(DOMAIN f)
      BY <1>3, FS_Subset
    <3>6. Total(g) = Total(f) + g[n + 1]
      <4> HIDE DEF f, g
      <4> QED BY <1>2, <3>3, <3>4, <3>5, TotalWithOneMore
    <3>7. r.total = s.total + sample.amount
      BY <1>2, <2>2 DEF Applied, Series
    <3>8. [i \in {k \in grown : k >= LastSet(new, grown)} |-> new[i].sample.amount] = g
      BY <3>1
    <3> HIDE DEF f, g
    <3> QED BY <3>2, <3>3, <3>6, <3>7, <3>8
  <2> QED BY <2>1, <2>2
<1>5. ASSUME type = "histogram"
      PROVE  /\ r.count = Cardinality(grown)
             /\ \A b \in Buckets : Gathered(r, b) = Cardinality({i \in grown : new[i].sample.amount <= b})
  <2>1. sample.op = "observe"
    BY <1>2, <1>5
  <2>2. r.count = Cardinality(grown)
    <3>1. r.count = s.count + 1 /\ s.count = Cardinality(given)
      BY <1>5, <2>1 DEF Applied, AddsUp
    <3>2. Cardinality(given \cup {n + 1}) = Cardinality(given) + 1
      BY <1>1, <1>3, FS_AddElement
    <3> QED BY <3>1, <3>2
  <2>3. ASSUME NEW b \in Buckets
        PROVE  Gathered(r, b) = Cardinality({i \in grown : new[i].sample.amount <= b})
    <3> DEFINE Under == {i \in given : list[i].sample.amount <= b}
               UnderNow == {i \in grown : new[i].sample.amount <= b}
    <3>1. Gathered(s, b) = Cardinality(Under) /\ IsFiniteSet(Under) /\ Cardinality(Under) \in Nat
      <4>1. IsFiniteSet(Under)
        BY <1>3, FS_Subset
      <4> QED BY <1>5, <4>1, FS_CardinalityType DEF AddsUp
    <3>2. Gathered(r, b) = Gathered(s, b) + IF sample.amount <= b THEN 1 ELSE 0
      BY <2>1, GatheredGrows
    <3>3. ASSUME sample.amount <= b PROVE Gathered(r, b) = Cardinality(UnderNow)
      <4>1. UnderNow = Under \cup {n + 1} /\ n + 1 \notin Under
        BY <1>1, <3>3
      <4>2. Cardinality(Under \cup {n + 1}) = Cardinality(Under) + 1
        <5> HIDE DEF Under, UnderNow
        <5> QED BY <3>1, <4>1, FS_AddElement
      <4> HIDE DEF Under, UnderNow
      <4> QED BY <3>1, <3>2, <3>3, <4>1, <4>2
    <3>4. ASSUME ~(sample.amount <= b) PROVE Gathered(r, b) = Cardinality(UnderNow)
      <4>1. UnderNow = Under
        BY <1>1, <3>4
      <4> HIDE DEF Under, UnderNow
      <4> QED BY <3>1, <3>2, <3>4, <4>1
    <3> HIDE DEF Under, UnderNow
    <3>5. Gathered(r, b) = Cardinality(UnderNow)
      BY <3>3, <3>4
    <3> QED BY <3>5 DEF UnderNow
  <2> QED BY <2>2, <2>3
<1> QED BY <1>4, <1>5 DEF AddsUp

(* The updates of a list that are given to a key. *)
Taken(names, list, key) == {i \in DOMAIN list : Canonical(names, list[i].labels) = key}
KeysIn(names, list) == {Canonical(names, list[i].labels) : i \in DOMAIN list}

LEMMA TakenGrows ==
  ASSUME NEW names, NEW list \in Seq(Accepted), NEW u \in Accepted
  PROVE  /\ KeysIn(names, Append(list, u)) = KeysIn(names, list) \cup {Canonical(names, u.labels)}
         /\ Taken(names, Append(list, u), Canonical(names, u.labels))
              = Taken(names, list, Canonical(names, u.labels)) \cup {Len(list) + 1}
         /\ \A k : k # Canonical(names, u.labels) => Taken(names, Append(list, u), k) = Taken(names, list, k)
<1> PICK n \in Nat : n = Len(list)
  OBVIOUS
<1> PICK new : new = Append(list, u)
  OBVIOUS
<1> PICK key : key = Canonical(names, u.labels)
  OBVIOUS
<1>1. /\ new[n + 1] = u /\ \A i \in 1 .. n : new[i] = list[i]
      /\ DOMAIN list = 1 .. n /\ DOMAIN new = (1 .. n) \cup {n + 1}
  OBVIOUS
<1>2. KeysIn(names, new) = KeysIn(names, list) \cup {key}
  BY <1>1 DEF KeysIn
<1>3. Taken(names, new, key) = Taken(names, list, key) \cup {n + 1}
  BY <1>1 DEF Taken
<1>4. \A k : k # key => Taken(names, new, k) = Taken(names, list, k)
  BY <1>1 DEF Taken
<1> QED BY <1>2, <1>3, <1>4

(* What is kept of a metric that has a family: its family, the label values    *)
(* admitted for it and the updates accepted for it, which all say the same.    *)
FamilyIs(f) ==
  /\ f = [type |-> f.type, help |-> f.help, labels |-> f.labels, series |-> f.series]
  /\ f.labels \subseteq AllowedLabels
  /\ f.series = [k \in DOMAIN f.series |-> f.series[k]]
  /\ IsFiniteSet(DOMAIN f.series)
  /\ \A k \in DOMAIN f.series : f.series[k] \in Series
ValuesOf(f, l) == {key[l] : key \in {k \in DOMAIN f.series : l \in DOMAIN k}}
ValuesAre(f, values) ==
  /\ values = [l \in AllowedLabels |-> ValuesOf(f, l)]
  /\ \A l \in AllowedLabels :
       IsFiniteSet(ValuesOf(f, l)) /\ Cardinality(ValuesOf(f, l)) <= MaxLabelValues
SeriesAre(f, list) ==
  /\ list \in Seq(Accepted)
  /\ DOMAIN f.series = KeysIn(f.labels, list)
  /\ \A k \in DOMAIN f.series : AddsUp(f.series[k], f.type, list, Taken(f.labels, list, k))
MetricKept(f, values, list) == FamilyIs(f) /\ ValuesAre(f, values) /\ SeriesAre(f, list)

LEMMA NewFamilyKept ==
  ASSUME NEW type, NEW help, NEW labels \in SUBSET AllowedLabels
  PROVE  MetricKept([type |-> type, help |-> help, labels |-> labels, series |-> <<>>],
              [l \in AllowedLabels |-> {}], <<>>)
<1> PICK f : f = [type |-> type, help |-> help, labels |-> labels, series |-> <<>>]
  OBVIOUS
<1>1. DOMAIN f.series = {} /\ f.series = [k \in DOMAIN f.series |-> f.series[k]] /\ IsFiniteSet({})
  BY FS_EmptySet
<1>2. FamilyIs(f)
  BY <1>1 DEF FamilyIs
<1>3. \A l : ValuesOf(f, l) = {}
  BY <1>1 DEF ValuesOf
<1>4. Cardinality({}) <= MaxLabelValues
  BY FS_EmptySet, ExporterAssumption
<1>5. ValuesAre(f, [l \in AllowedLabels |-> {}])
  BY <1>3, <1>4, FS_EmptySet DEF ValuesAre
<1>6. KeysIn(f.labels, <<>>) = {}
  BY DEF KeysIn
<1>7. <<>> \in Seq(Accepted)
  OBVIOUS
<1>8. SeriesAre(f, <<>>)
  BY <1>1, <1>6, <1>7 DEF SeriesAre
<1> QED BY <1>2, <1>5, <1>8 DEF MetricKept

(* Taken is a set of turns. *)
LEMMA TakenType ==
  ASSUME NEW names, NEW list, NEW k
  PROVE  Taken(names, list, k) \in SUBSET DOMAIN list
BY DEF Taken

LEMMA NobodyTaken ==
  ASSUME NEW names, NEW list, NEW k, k \notin KeysIn(names, list)
  PROVE  Taken(names, list, k) = {}
BY DEF Taken, KeysIn

(* The series of the other keys add up as before, and the one of the key of   *)
(* the update when the update is applied to it.                              *)
GrownBy(g, f, key, s) ==
  /\ g.type = f.type /\ g.labels = f.labels
  /\ DOMAIN g.series = DOMAIN f.series \cup {key} /\ g.series[key] = s
  /\ \A k \in DOMAIN f.series \ {key} : g.series[k] = f.series[k]

LEMMA SeriesGrow ==
  ASSUME NEW f, FamilyIs(f), NEW list, SeriesAre(f, list), NEW u \in Accepted, u.sample.type = f.type,
         NEW key, key = Canonical(f.labels, u.labels),
         NEW before \in Series, AddsUp(before, f.type, list, Taken(f.labels, list, key)),
         NEW g, GrownBy(g, f, key, Applied(before, u.sample))
  PROVE  SeriesAre(g, Append(list, u))
<1> PICK n \in Nat : n = Len(list)
  BY DEF SeriesAre
<1> PICK new : new = Append(list, u)
  OBVIOUS
<1>0. /\ g.type = f.type /\ g.labels = f.labels
      /\ DOMAIN g.series = DOMAIN f.series \cup {key} /\ g.series[key] = Applied(before, u.sample)
      /\ \A k \in DOMAIN f.series \ {key} : g.series[k] = f.series[k]
  BY DEF GrownBy
<1>1. list \in Seq(Accepted) /\ new \in Seq(Accepted)
  BY DEF SeriesAre
<1>2. /\ KeysIn(f.labels, new) = KeysIn(f.labels, list) \cup {key}
      /\ Taken(f.labels, new, key) = Taken(f.labels, list, key) \cup {n + 1}
      /\ \A k : k # key => Taken(f.labels, new, k) = Taken(f.labels, list, k)
  <2> PICK names, at : names = f.labels /\ at = Canonical(names, u.labels)
    OBVIOUS
  <2>1. /\ KeysIn(names, Append(list, u)) = KeysIn(names, list) \cup {at}
        /\ Taken(names, Append(list, u), at) = Taken(names, list, at) \cup {Len(list) + 1}
        /\ \A k : k # at => Taken(names, Append(list, u), k) = Taken(names, list, k)
    <3>1. list \in Seq(Accepted) /\ u \in Accepted
      BY <1>1
    <3>2. /\ KeysIn(names, Append(list, u)) = KeysIn(names, list) \cup {Canonical(names, u.labels)}
          /\ Taken(names, Append(list, u), Canonical(names, u.labels))
               = Taken(names, list, Canonical(names, u.labels)) \cup {Len(list) + 1}
          /\ \A k : k # Canonical(names, u.labels) => Taken(names, Append(list, u), k) = Taken(names, list, k)
      BY ONLY <3>1, TakenGrows, Zenon
    <3> QED BY <3>2, Zenon
  <2> QED BY <2>1, Zenon
<1>3. DOMAIN g.series = KeysIn(g.labels, new)
  BY <1>0, <1>2 DEF SeriesAre
<1>4. AddsUp(g.series[key], g.type, new, Taken(g.labels, new, key))
  <2>1. AddsUp(Applied(before, u.sample), f.type, new, Taken(f.labels, list, key) \cup {n + 1})
    BY <1>1, TakenType, AppliedAddsUp
  <2> QED BY <1>0, <1>2, <2>1
<1>5. ASSUME NEW k \in DOMAIN f.series, k # key
      PROVE  AddsUp(g.series[k], g.type, new, Taken(g.labels, new, k))
  <2>1. AddsUp(f.series[k], f.type, list, Taken(f.labels, list, k))
    BY DEF SeriesAre
  <2>2. AddsUp(f.series[k], f.type, new, Taken(f.labels, list, k))
    BY <1>1, <2>1, TakenType, OthersAddUpStill
  <2>3. g.series[k] = f.series[k] /\ Taken(g.labels, new, k) = Taken(f.labels, list, k)
    BY <1>0, <1>2, <1>5
  <2> QED BY <1>0, <2>2, <2>3
<1> QED BY <1>0, <1>1, <1>3, <1>4, <1>5 DEF SeriesAre

(* An update of a series that exists. *)
LEMMA ExistingKept ==
  ASSUME NEW f, NEW values, NEW list, MetricKept(f, values, list), NEW u \in Accepted, u.sample.type = f.type,
         NEW key, key = Canonical(f.labels, u.labels), key \in DOMAIN f.series
  PROVE  MetricKept([f EXCEPT !.series[key] = Applied(@, u.sample)], values, Append(list, u))
<1> PICK g : g = [f EXCEPT !.series[key] = Applied(@, u.sample)]
  OBVIOUS
<1>1. FamilyIs(f) /\ ValuesAre(f, values) /\ SeriesAre(f, list)
  BY DEF MetricKept
<1>2. f.series[key] \in Series /\ u.sample \in Samples
  BY <1>1 DEF FamilyIs, Accepted
<1>3. Applied(f.series[key], u.sample) \in Series
  BY <1>2, AppliedType
<1>4. /\ g.type = f.type /\ g.labels = f.labels /\ g.help = f.help
      /\ g.series = [f.series EXCEPT ![key] = Applied(f.series[key], u.sample)]
      /\ g = [type |-> g.type, help |-> g.help, labels |-> g.labels, series |-> g.series]
  BY <1>1 DEF FamilyIs
<1>5. /\ DOMAIN g.series = DOMAIN f.series /\ g.series[key] = Applied(f.series[key], u.sample)
      /\ \A k \in DOMAIN f.series \ {key} : g.series[k] = f.series[k]
      /\ g.series = [k \in DOMAIN g.series |-> g.series[k]]
  BY <1>4
<1>6. FamilyIs(g)
  BY <1>1, <1>3, <1>4, <1>5 DEF FamilyIs
<1>7. ValuesAre(g, values)
  <2>1. \A l : ValuesOf(g, l) = ValuesOf(f, l)
    BY <1>5 DEF ValuesOf
  <2> QED BY <1>1, <2>1 DEF ValuesAre
<1>8. SeriesAre(g, Append(list, u))
  <2>1. AddsUp(f.series[key], f.type, list, Taken(f.labels, list, key))
    BY <1>1 DEF SeriesAre
  <2>2. GrownBy(g, f, key, Applied(f.series[key], u.sample))
    BY <1>4, <1>5 DEF GrownBy
  <2> QED BY <1>1, <1>2, <1>6, <2>1, <2>2, SeriesGrow
<1> QED BY <1>6, <1>7, <1>8 DEF MetricKept

(* An update that needs a series, admitted. *)
Admits(key, values) ==
  [l \in AllowedLabels |-> IF l \in DOMAIN key THEN values[l] \cup {key[l]} ELSE values[l]]

LEMMA NewKept ==
  ASSUME NEW f, NEW values, NEW list, MetricKept(f, values, list), NEW u \in Accepted, u.sample.type = f.type,
         NEW key, key = Canonical(f.labels, u.labels), key \notin DOMAIN f.series,
         \A l \in DOMAIN key : key[l] \in values[l] \/ Cardinality(values[l]) < MaxLabelValues
  PROVE  MetricKept([f EXCEPT !.series = Assigned(@, key, Applied(NewSeries, u.sample))],
              Admits(key, values), Append(list, u))
<1> PICK g : g = [f EXCEPT !.series = Assigned(@, key, Applied(NewSeries, u.sample))]
  OBVIOUS
<1>1. FamilyIs(f) /\ ValuesAre(f, values) /\ SeriesAre(f, list)
  BY DEF MetricKept
<1>2. NewSeries \in Series /\ u.sample \in Samples
  BY NewSeriesType DEF Accepted
<1>3. Applied(NewSeries, u.sample) \in Series
  BY <1>2, AppliedType
<1>4. /\ g.type = f.type /\ g.labels = f.labels /\ g.help = f.help
      /\ g.series = Assigned(f.series, key, Applied(NewSeries, u.sample))
      /\ g = [type |-> g.type, help |-> g.help, labels |-> g.labels, series |-> g.series]
  BY <1>1 DEF FamilyIs
<1>5. /\ DOMAIN g.series = DOMAIN f.series \cup {key} /\ g.series[key] = Applied(NewSeries, u.sample)
      /\ \A k \in DOMAIN f.series \ {key} : g.series[k] = f.series[k]
      /\ g.series = [k \in DOMAIN g.series |-> g.series[k]]
  BY <1>4 DEF Assigned
<1>6. FamilyIs(g)
  <2>1. IsFiniteSet(DOMAIN g.series)
    BY <1>1, <1>5, FS_AddElement DEF FamilyIs
  <2>2. \A k \in DOMAIN g.series : g.series[k] \in Series
    BY <1>1, <1>3, <1>5 DEF FamilyIs
  <2> QED BY <1>1, <1>4, <1>5, <2>1, <2>2 DEF FamilyIs
<1>7. ValuesAre(g, Admits(key, values))
  <2>1. DOMAIN key = f.labels
    BY DEF Canonical
  <2>2. ASSUME NEW l \in AllowedLabels
        PROVE  /\ ValuesOf(g, l) = Admits(key, values)[l]
               /\ IsFiniteSet(ValuesOf(g, l)) /\ Cardinality(ValuesOf(g, l)) <= MaxLabelValues
    <3>1. values[l] = ValuesOf(f, l) /\ IsFiniteSet(values[l]) /\ Cardinality(values[l]) <= MaxLabelValues
      BY <1>1 DEF ValuesAre
    <3>2. CASE l \in DOMAIN key
      <4>1. ValuesOf(g, l) = values[l] \cup {key[l]}
        BY <1>5, <3>1, <3>2 DEF ValuesOf
      <4>2. Cardinality(values[l]) \in Nat /\ MaxLabelValues \in Nat
        BY <3>1, FS_CardinalityType, ExporterAssumption
      <4>3. /\ IsFiniteSet(values[l] \cup {key[l]})
            /\ Cardinality(values[l] \cup {key[l]})
                 = IF key[l] \in values[l] THEN Cardinality(values[l]) ELSE Cardinality(values[l]) + 1
        BY <3>1, FS_AddElement
      <4>4. Cardinality(values[l] \cup {key[l]}) <= MaxLabelValues
        BY <3>1, <3>2, <4>2, <4>3
      <4> QED BY <3>2, <4>1, <4>3, <4>4 DEF Admits
    <3>3. CASE l \notin DOMAIN key
      <4>1. ValuesOf(g, l) = values[l]
        BY <1>5, <3>1, <3>3 DEF ValuesOf
      <4> QED BY <3>1, <3>3, <4>1 DEF Admits
    <3> QED BY <3>2, <3>3
  <2>3. Admits(key, values) = [l \in AllowedLabels |-> ValuesOf(g, l)]
    BY <2>2 DEF Admits
  <2> QED BY <2>2, <2>3 DEF ValuesAre
<1>8. SeriesAre(g, Append(list, u))
  <2>1. AddsUp(NewSeries, f.type, list, Taken(f.labels, list, key))
    <3>1. key \notin KeysIn(f.labels, list)
      BY <1>1 DEF SeriesAre
    <3>2. Taken(f.labels, list, key) = {}
      BY <3>1, NobodyTaken
    <3> QED BY <3>2, NothingAddsUp
  <2>2. GrownBy(g, f, key, Applied(NewSeries, u.sample))
    BY <1>4, <1>5 DEF GrownBy
  <2> QED BY <1>1, <1>2, <1>6, <2>1, <2>2, SeriesGrow
<1> QED BY <1>6, <1>7, <1>8 DEF MetricKept

(* The invariant of the exporter: what is kept of every metric, and the series *)
(* counted.                                                                  *)
MetricInv(m) ==
  IF m \in DOMAIN families THEN MetricKept(families[m], labelValues[m], accepted[m])
  ELSE labelValues[m] = [l \in AllowedLabels |-> {}] /\ accepted[m] = <<>>
SeriesOf == [m \in Metrics |-> Cardinality(KeysOf(m))]
ExporterInv ==
  /\ DOMAIN families \subseteq Metrics
  /\ labelValues = [m \in Metrics |-> labelValues[m]]
  /\ accepted = [m \in Metrics |-> accepted[m]]
  /\ \A m \in Metrics : MetricInv(m)
  /\ seriesCount \in Nat /\ seriesCount <= MaxSeries
  /\ seriesCount = Total(SeriesOf)

LEMMA SeriesOfType ==
  ASSUME ExporterInv, NEW m \in Metrics
  PROVE  IsFiniteSet(KeysOf(m)) /\ SeriesOf[m] \in Nat /\ SeriesOf[m] = Cardinality(KeysOf(m))
<1>1. IsFiniteSet(KeysOf(m))
  BY FS_EmptySet DEF ExporterInv, MetricInv, MetricKept, FamilyIs, KeysOf
<1> QED BY <1>1, FS_CardinalityType DEF SeriesOf

(* A step that changes what is kept of one metric. *)
LEMMA MetricChanges ==
  ASSUME ExporterInv, NEW m \in Metrics, NEW f, NEW values, NEW list, MetricKept(f, values, list),
         families' = Assigned(families, m, f),
         labelValues' = [labelValues EXCEPT ![m] = values],
         accepted' = [accepted EXCEPT ![m] = list],
         NEW more \in {0, 1}, Cardinality(DOMAIN f.series) = Cardinality(KeysOf(m)) + more,
         seriesCount' = seriesCount + more, seriesCount' <= MaxSeries
  PROVE  ExporterInv'
<1>1. /\ DOMAIN families' = DOMAIN families \cup {m} /\ families'[m] = f
      /\ \A o \in DOMAIN families \ {m} : families'[o] = families[o]
  BY DEF Assigned
<1>2. /\ labelValues' = [o \in Metrics |-> labelValues'[o]] /\ accepted' = [o \in Metrics |-> accepted'[o]]
      /\ labelValues'[m] = values /\ accepted'[m] = list
      /\ \A o \in Metrics \ {m} : labelValues'[o] = labelValues[o] /\ accepted'[o] = accepted[o]
  BY DEF ExporterInv
<1>3. ASSUME NEW o \in Metrics PROVE MetricInv(o)'
  <2>1. CASE o = m
    BY <1>1, <1>2, <2>1 DEF MetricInv
  <2>2. CASE o # m
    <3>1. MetricInv(o)
      BY DEF ExporterInv
    <3>2. /\ labelValues'[o] = labelValues[o] /\ accepted'[o] = accepted[o]
          /\ o \in DOMAIN families' <=> o \in DOMAIN families
          /\ o \in DOMAIN families => families'[o] = families[o]
      BY <1>1, <1>2, <2>2
    <3> QED BY <3>1, <3>2 DEF MetricInv
  <2> QED BY <2>1, <2>2
<1>4. seriesCount' = Total(SeriesOf')
  <2> PICK old : old = SeriesOf
    OBVIOUS
  <2> PICK new : new = SeriesOf'
    OBVIOUS
  <2>1. DOMAIN old = Metrics /\ DOMAIN new = Metrics /\ IsFiniteSet(Metrics)
    BY ExporterAssumption DEF SeriesOf
  <2>2. \A o \in Metrics : old[o] \in Nat /\ old[o] = Cardinality(KeysOf(o))
    BY SeriesOfType
  <2>3. ASSUME NEW o \in Metrics PROVE new[o] = IF o = m THEN old[o] + more ELSE old[o]
    <3>1. new[o] = Cardinality(KeysOf(o)')
      BY DEF SeriesOf
    <3>2. CASE o = m
      <4>1. KeysOf(o)' = DOMAIN f.series
        BY <1>1, <3>2 DEF KeysOf
      <4> QED BY <2>2, <3>1, <3>2, <4>1
    <3>3. CASE o # m
      <4>1. KeysOf(o)' = KeysOf(o)
        BY <1>1, <3>3 DEF KeysOf
      <4> QED BY <2>2, <3>1, <3>3, <4>1
    <3> QED BY <3>2, <3>3
  <2>4. old[m] \in Int /\ new[m] = old[m] + more /\ new[m] \in Int
    BY <2>2, <2>3
  <2>5. (\A y \in DOMAIN old : old[y] \in Int) /\ \A y \in DOMAIN old \ {m} : new[y] = old[y]
    BY <2>1, <2>2, <2>3
  <2>6. Total(new) = Total(old) - old[m] + new[m]
    <3>1. m \in DOMAIN old /\ IsFiniteSet(DOMAIN old) /\ DOMAIN new = DOMAIN old
      BY <2>1
    <3> QED BY ONLY <2>4, <2>5, <3>1, TotalWithOneChanged
  <2>7. seriesCount = Total(old) /\ seriesCount \in Nat
    BY DEF ExporterInv
  <2>8. Total(new) = Total(old) + more
    BY <2>4, <2>6, <2>7
  <2> QED BY <2>7, <2>8
<1>5. seriesCount' \in Nat
  BY DEF ExporterInv
<1>6. DOMAIN families' \subseteq Metrics
  BY <1>1 DEF ExporterInv
<1> QED BY <1>2, <1>3, <1>4, <1>5, <1>6 DEF ExporterInv

LEMMA UpdateSeriesKeeps ==
  ASSUME ExporterInv, NEW m \in Metrics, NEW sample \in Samples, NEW labels \in LabelSets,
         UpdateSeries(m, sample, labels)
  PROVE  ExporterInv'
<1> PICK f, values, list : f = families[m] /\ values = labelValues[m] /\ list = accepted[m]
  OBVIOUS
<1> PICK u, key : u = [sample |-> sample, labels |-> labels] /\ key = Canonical(f.labels, labels)
  OBVIOUS
<1>1. u \in Accepted /\ u.sample = sample /\ u.labels = labels
  BY DEF Accepted
<1>2. m \in DOMAIN families /\ f.type = sample.type /\ key \in DOMAIN f.series
  BY DEF UpdateSeries
<1>3. MetricKept(f, values, list)
  BY <1>2 DEF ExporterInv, MetricInv
<1> PICK g : g = [f EXCEPT !.series[key] = Applied(@, sample)]
  OBVIOUS
<1>4. MetricKept(g, values, Append(list, u))
  <2>1. u.sample.type = f.type /\ key = Canonical(f.labels, u.labels)
    BY <1>1, <1>2
  <2>2. MetricKept([f EXCEPT !.series[key] = Applied(@, u.sample)], values, Append(list, u))
    BY <1>1, <1>2, <1>3, <2>1, ExistingKept
  <2> QED BY <1>1, <2>2
<1>5. families' = Assigned(families, m, g)
  <2>1. families' = [families EXCEPT ![m].series[key] = Applied(@, sample)]
    BY DEF UpdateSeries
  <2>2. families' = [families EXCEPT ![m] = g]
    BY <2>1
  <2>3. families' = [o \in DOMAIN families |-> IF o = m THEN g ELSE families[o]]
    BY <2>2
  <2>4. DOMAIN families \cup {m} = DOMAIN families
    BY <1>2
  <2> QED BY <2>3, <2>4 DEF Assigned
<1>6. /\ labelValues' = [labelValues EXCEPT ![m] = values] /\ seriesCount' = seriesCount
      /\ accepted' = [accepted EXCEPT ![m] = Append(list, u)]
  <2>1. labelValues = [labelValues EXCEPT ![m] = values]
    BY DEF ExporterInv
  <2> QED BY <2>1 DEF UpdateSeries, Accept
<1>7. DOMAIN g.series = DOMAIN f.series /\ KeysOf(m) = DOMAIN f.series
  BY <1>2, <1>3 DEF KeysOf, MetricKept, FamilyIs
<1>8. /\ Cardinality(DOMAIN g.series) = Cardinality(KeysOf(m)) + 0
      /\ seriesCount' = seriesCount + 0 /\ seriesCount' <= MaxSeries
  <2>1. Cardinality(KeysOf(m)) \in Nat /\ seriesCount \in Nat
    BY SeriesOfType DEF ExporterInv
  <2> QED BY <1>6, <1>7, <2>1 DEF ExporterInv
<1> QED BY <1>4, <1>5, <1>6, <1>8, MetricChanges

LEMMA UpdateNewKeeps ==
  ASSUME ExporterInv, NEW m \in Metrics, NEW sample \in Samples, NEW labels \in LabelSets,
         UpdateNew(m, sample, labels)
  PROVE  ExporterInv'
<1> PICK f, values, list : f = FamilyFor(m, sample, labels) /\ values = labelValues[m] /\ list = accepted[m]
  OBVIOUS
<1> PICK u, key : u = [sample |-> sample, labels |-> labels] /\ key = Canonical(f.labels, labels)
  OBVIOUS
<1>1. u \in Accepted /\ u.sample = sample /\ u.labels = labels
  BY DEF Accepted
<1>2. /\ f.type = sample.type /\ key \notin DOMAIN f.series
      /\ IF HasRoom /\ Admissible(m, key)
         THEN /\ families' = Assigned(families, m, [f EXCEPT !.series = Assigned(@, key, Applied(NewSeries, sample))])
              /\ seriesCount' = seriesCount + 1
              /\ Accept(m, sample, labels)
         ELSE UNCHANGED <<families, seriesCount, accepted>>
      /\ labelValues' = IF HasRoom THEN Admit(m, key) ELSE labelValues
  BY DEF UpdateNew
<1>3. MetricKept(f, values, list) /\ DOMAIN f.series = KeysOf(m)
  <2>1. MetricInv(m)
    BY DEF ExporterInv
  <2>2. CASE m \in DOMAIN families
    BY <2>1, <2>2 DEF MetricInv, FamilyFor, KeysOf
  <2>3. CASE m \notin DOMAIN families
    <3>1. values = [l \in AllowedLabels |-> {}] /\ list = <<>>
      BY <2>1, <2>3 DEF MetricInv
    <3>2. f = [type |-> sample.type, help |-> "", labels |-> DOMAIN labels \cap AllowedLabels, series |-> <<>>]
      BY <2>3 DEF FamilyFor
    <3>3. DOMAIN labels \cap AllowedLabels \in SUBSET AllowedLabels
      OBVIOUS
    <3>4. MetricKept([type |-> sample.type, help |-> "", labels |-> DOMAIN labels \cap AllowedLabels, series |-> <<>>],
               [l \in AllowedLabels |-> {}], <<>>)
      BY ONLY <3>3, NewFamilyKept, Zenon
    <3>5. MetricKept(f, values, list)
      BY <3>1, <3>2, <3>4, Zenon
    <3>6. KeysOf(m) = {}
      BY <2>3 DEF KeysOf
    <3>7. f.series = <<>>
      <4> PICK type, help, names : type = sample.type /\ help = "" /\ names = DOMAIN labels \cap AllowedLabels
        OBVIOUS
      <4>1. f = [type |-> type, help |-> help, labels |-> names, series |-> <<>>]
        BY <3>2
      <4> QED BY ONLY <4>1
    <3>8. DOMAIN f.series = {}
      BY <3>7
    <3> QED BY <3>5, <3>6, <3>8
  <2> QED BY <2>2, <2>3
<1>4. CASE HasRoom /\ Admissible(m, key)
  <2> PICK g : g = [f EXCEPT !.series = Assigned(@, key, Applied(NewSeries, sample))]
    OBVIOUS
  <2>1. MetricKept(g, Admits(key, values), Append(list, u))
    <3>1. u.sample.type = f.type /\ key = Canonical(f.labels, u.labels)
      BY <1>1, <1>2
    <3>2. \A l \in DOMAIN key : key[l] \in values[l] \/ Cardinality(values[l]) < MaxLabelValues
      BY <1>4 DEF Admissible
    <3>3. MetricKept([f EXCEPT !.series = Assigned(@, key, Applied(NewSeries, u.sample))],
               Admits(key, values), Append(list, u))
      BY <1>1, <1>2, <1>3, <3>1, <3>2, NewKept
    <3> QED BY <1>1, <3>3
  <2>2. families' = Assigned(families, m, g)
    BY <1>2, <1>4
  <2>3. labelValues' = [labelValues EXCEPT ![m] = Admits(key, values)]
    <3>1. labelValues' = Admit(m, key)
      BY <1>2, <1>4
    <3>2. Admit(m, key) = [labelValues EXCEPT ![m] = Admits(key, labelValues[m])]
      BY <1>4 DEF Admit, Admits
    <3> QED BY <3>1, <3>2
  <2>4. accepted' = [accepted EXCEPT ![m] = Append(list, u)]
    BY <1>2, <1>4 DEF Accept
  <2>5. Cardinality(DOMAIN g.series) = Cardinality(KeysOf(m)) + 1
    <3>1. g.series = Assigned(f.series, key, Applied(NewSeries, sample))
      BY <1>3 DEF MetricKept, FamilyIs
    <3>2. DOMAIN g.series = KeysOf(m) \cup {key} /\ key \notin KeysOf(m)
      BY <1>2, <1>3, <3>1 DEF Assigned
    <3>3. IsFiniteSet(KeysOf(m))
      BY SeriesOfType
    <3> QED BY <3>2, <3>3, FS_AddElement
  <2>6. seriesCount' = seriesCount + 1 /\ seriesCount' <= MaxSeries
    <3>1. seriesCount \in Nat /\ MaxSeries \in Nat
      BY ExporterAssumption DEF ExporterInv
    <3> QED BY <1>2, <1>4, <3>1 DEF HasRoom
  <2> QED BY <2>1, <2>2, <2>3, <2>4, <2>5, <2>6, MetricChanges
<1>5. CASE ~(HasRoom /\ Admissible(m, key))
  <2>1. labelValues' = labelValues
    BY <1>2, <1>5 DEF Admit
  <2>2. UNCHANGED exporterVars
    BY <1>2, <1>5, <2>1 DEF exporterVars
  <2> QED BY <2>2 DEF ExporterInv, exporterVars, MetricInv, SeriesOf, KeysOf
<1> QED BY <1>4, <1>5

LEMMA RegisterKeeps ==
  ASSUME ExporterInv, NEW m \in Metrics, NEW r \in Registrations, Register(m, r)
  PROVE  ExporterInv'
<1> PICK f : f = [type |-> r.type, help |-> r.help, labels |-> r.labels \cap AllowedLabels, series |-> <<>>]
  OBVIOUS
<1>1. m \notin DOMAIN families /\ families' = Assigned(families, m, f)
      /\ UNCHANGED <<labelValues, seriesCount, accepted>>
  BY DEF Register
<1>2. labelValues[m] = [l \in AllowedLabels |-> {}] /\ accepted[m] = <<>>
  BY <1>1 DEF ExporterInv, MetricInv
<1>3. MetricKept(f, labelValues[m], accepted[m])
  <2>1. r.labels \cap AllowedLabels \in SUBSET AllowedLabels
    OBVIOUS
  <2>2. MetricKept([type |-> r.type, help |-> r.help, labels |-> r.labels \cap AllowedLabels, series |-> <<>>],
             [l \in AllowedLabels |-> {}], <<>>)
    BY ONLY <2>1, NewFamilyKept, Zenon
  <2> QED BY <1>2, <2>2, Zenon
<1>4. labelValues' = [labelValues EXCEPT ![m] = labelValues[m]] /\ accepted' = [accepted EXCEPT ![m] = accepted[m]]
  BY <1>1 DEF ExporterInv
<1>5. DOMAIN f.series = {} /\ KeysOf(m) = {}
  BY <1>1 DEF KeysOf
<1>6. /\ Cardinality(DOMAIN f.series) = Cardinality(KeysOf(m)) + 0
      /\ seriesCount' = seriesCount + 0 /\ seriesCount' <= MaxSeries
  BY <1>1, <1>5, FS_EmptySet DEF ExporterInv
<1> QED BY <1>1, <1>3, <1>4, <1>6, MetricChanges

(* The Collector's samples are the last of those recorded. *)
CollectorInv ==
  /\ samples \in Seq(Samples) /\ recorded \in Seq(Samples) /\ dropped \in Nat
  /\ Len(samples) <= MaxSamples /\ Len(recorded) = dropped + Len(samples)
  /\ \A i \in 1 .. Len(samples) : samples[i] = recorded[dropped + i]

LEMMA RecordKeeps ==
  ASSUME CollectorInv, NEW s \in Samples, Record(s)
  PROVE  CollectorInv'
<1> PICK n \in Nat : n = Len(samples)
  BY DEF CollectorInv
<1> PICK d \in Nat : d = dropped
  BY DEF CollectorInv
<1> PICK given \in Seq(Samples) : given = recorded
  BY DEF CollectorInv
<1> PICK now : now = recorded'
  OBVIOUS
<1>1. /\ samples \in Seq(Samples) /\ n <= MaxSamples /\ Len(given) = d + n
      /\ \A i \in 1 .. n : samples[i] = given[d + i]
  BY DEF CollectorInv
<1>2. /\ now = Append(given, s) /\ now \in Seq(Samples) /\ Len(now) = d + n + 1 /\ now[d + n + 1] = s
      /\ \A i \in 1 .. d + n : now[i] = given[i]
  <2>1. now = Append(given, s)
    BY DEF Record
  <2>2. now \in Seq(Samples) /\ Len(now) = Len(given) + 1 /\ now[Len(given) + 1] = s
        /\ \A i \in 1 .. Len(given) : now[i] = given[i]
    BY <2>1
  <2> QED BY <1>1, <2>1, <2>2
<1>3. CASE n = MaxSamples
  <2>0. n >= 1
    BY <1>3, ExporterAssumption
  <2> PICK kept : kept = samples'
    OBVIOUS
  <2>1. kept = Append(Tail(samples), s) /\ dropped' = d + 1
    BY <1>3 DEF Record, Pushed
  <2>2. /\ kept \in Seq(Samples) /\ Len(kept) = n /\ kept[n] = s
        /\ \A i \in 1 .. n - 1 : kept[i] = samples[i + 1]
    BY <1>1, <2>0, <2>1
  <2>3. ASSUME NEW i \in 1 .. n PROVE kept[i] = now[d + 1 + i]
    <3>1. CASE i = n
      <4>1. d + 1 + i = d + n + 1
        BY <3>1
      <4> QED BY <1>2, <2>2, <3>1, <4>1
    <3>2. CASE i # n
      <4>1. i \in 1 .. n - 1 /\ i + 1 \in 1 .. n /\ d + (i + 1) \in 1 .. d + n /\ d + (i + 1) = d + 1 + i
        BY <3>2
      <4> QED BY <1>1, <1>2, <2>2, <4>1
    <3> QED BY <3>1, <3>2
  <2>4. Len(now) = d + 1 + n /\ d + 1 \in Nat
    BY <1>2
  <2> QED BY <1>1, <1>2, <2>1, <2>2, <2>3, <2>4 DEF CollectorInv
<1>4. CASE n # MaxSamples
  <2> PICK kept : kept = samples'
    OBVIOUS
  <2>1. kept = Append(samples, s) /\ dropped' = d
    BY <1>4 DEF Record, Pushed
  <2>2. /\ kept \in Seq(Samples) /\ Len(kept) = n + 1 /\ kept[n + 1] = s
        /\ \A i \in 1 .. n : kept[i] = samples[i]
    BY <1>1, <2>1
  <2>3. ASSUME NEW i \in 1 .. n + 1 PROVE kept[i] = now[d + i]
    <3>1. CASE i = n + 1
      <4>1. d + i = d + n + 1
        BY <3>1
      <4> QED BY <1>2, <2>2, <3>1, <4>1
    <3>2. CASE i # n + 1
      <4>1. i \in 1 .. n /\ d + i \in 1 .. d + n
        BY <3>2
      <4> QED BY <1>1, <1>2, <2>2, <4>1
    <3> QED BY <3>1, <3>2
  <2>4. n + 1 <= MaxSamples /\ Len(now) = d + (n + 1)
    BY <1>1, <1>2, <1>4, ExporterAssumption
  <2> QED BY <1>1, <1>2, <2>1, <2>2, <2>3, <2>4 DEF CollectorInv
<1> QED BY <1>3, <1>4

LEMMA ExporterStarts ==
  ASSUME ExporterInit, CollectorInit
  PROVE  ExporterInv /\ CollectorInv
<1>1. DOMAIN families = {} /\ seriesCount = 0
  BY DEF ExporterInit
<1>2. \A m \in Metrics : MetricInv(m)
  BY <1>1 DEF ExporterInit, MetricInv
<1>3. Total(SeriesOf) = 0
  <2>1. \A m \in Metrics : KeysOf(m) = {}
    BY <1>1 DEF KeysOf
  <2>2. DOMAIN SeriesOf = Metrics /\ \A m \in Metrics : SeriesOf[m] = 0
    BY <2>1, FS_EmptySet DEF SeriesOf
  <2> QED BY <2>2, TotalOfZeros, ExporterAssumption
<1>4. 0 \in Nat /\ 0 <= MaxSeries /\ 0 <= MaxSamples
  BY ExporterAssumption
<1>5. ExporterInv
  BY <1>1, <1>2, <1>3, <1>4 DEF ExporterInit, ExporterInv
<1>6. CollectorInv
  BY <1>4 DEF CollectorInit, CollectorInv
<1> QED BY <1>5, <1>6

LEMMA ServedFollows ==
  ASSUME ExporterInv, CollectorInv
  PROVE  ServedAddsUp
<1>1. samples = SubSeq(recorded, dropped + 1, Len(recorded))
  <2> PICK n \in Nat : n = Len(samples)
    BY DEF CollectorInv
  <2> PICK d \in Nat : d = dropped
    BY DEF CollectorInv
  <2> PICK given \in Seq(Samples) : given = recorded
    BY DEF CollectorInv
  <2> PICK last : last = SubSeq(given, d + 1, d + n)
    OBVIOUS
  <2>1. samples \in Seq(Samples) /\ Len(given) = d + n /\ \A i \in 1 .. n : samples[i] = given[d + i]
    BY DEF CollectorInv
  <2>2. last \in Seq(Samples) /\ Len(last) = n /\ \A i \in 1 .. n : last[i] = given[d + i]
    BY <2>1
  <2>3. samples = last
    <3>1. samples \in Seq(Samples) /\ last \in Seq(Samples) /\ Len(samples) = n /\ Len(last) = n
      BY <2>1, <2>2
    <3>2. \A i \in 1 .. n : samples[i] = last[i]
      BY <2>1, <2>2
    <3> QED BY ONLY <3>1, <3>2, SeqEqual
  <2> QED BY <2>1, <2>3
<1>2. ASSUME NEW m \in Metrics
      PROVE  /\ m \notin DOMAIN families => accepted[m] = <<>>
             /\ KeysOf(m) = {Canonical(families[m].labels, accepted[m][i].labels) : i \in DOMAIN accepted[m]}
             /\ \A l \in AllowedLabels :
                  /\ labelValues[m][l] = {key[l] : key \in {k \in KeysOf(m) : l \in DOMAIN k}}
                  /\ Cardinality(labelValues[m][l]) <= MaxLabelValues
             /\ \A key \in KeysOf(m) :
                  AddsUp(families[m].series[key], families[m].type, accepted[m], GivenTo(m, key))
  <2>1. MetricInv(m)
    BY DEF ExporterInv
  <2>2. CASE m \in DOMAIN families
    <3> PICK f : f = families[m]
      OBVIOUS
    <3>1. ValuesAre(f, labelValues[m]) /\ SeriesAre(f, accepted[m]) /\ KeysOf(m) = DOMAIN f.series
      BY <2>1, <2>2 DEF MetricInv, MetricKept, KeysOf
    <3>2. \A l \in AllowedLabels :
            /\ labelValues[m][l] = {key[l] : key \in {k \in KeysOf(m) : l \in DOMAIN k}}
            /\ Cardinality(labelValues[m][l]) <= MaxLabelValues
      BY <3>1 DEF ValuesAre, ValuesOf
    <3>3. \A key : GivenTo(m, key) = Taken(f.labels, accepted[m], key)
      BY DEF GivenTo, Taken
    <3>4. \A key \in KeysOf(m) : AddsUp(f.series[key], f.type, accepted[m], GivenTo(m, key))
      BY <3>1, <3>3 DEF SeriesAre
    <3>5. KeysOf(m) = {Canonical(f.labels, accepted[m][i].labels) : i \in DOMAIN accepted[m]}
      BY <3>1 DEF SeriesAre, KeysIn
    <3> QED BY <2>2, <3>2, <3>4, <3>5
  <2>3. CASE m \notin DOMAIN families
    <3>1. labelValues[m] = [l \in AllowedLabels |-> {}] /\ accepted[m] = <<>> /\ KeysOf(m) = {}
      BY <2>1, <2>3 DEF MetricInv, KeysOf
    <3>2. Cardinality({}) <= MaxLabelValues
      BY FS_EmptySet, ExporterAssumption
    <3> QED BY <3>1, <3>2
  <2> QED BY <2>2, <2>3
<1>3. seriesCount = Total([m \in Metrics |-> Cardinality(KeysOf(m))]) /\ seriesCount <= MaxSeries
  BY DEF ExporterInv, SeriesOf
<1> QED BY <1>1, <1>2, <1>3 DEF ServedAddsUp, CollectorInv

ServedStep ==
  \/ ExporterStep /\ UNCHANGED collectorVars
  \/ CollectorStep /\ UNCHANGED exporterVars
ExporterSpec == ExporterInit /\ CollectorInit /\ [][ServedStep]_<<exporterVars, collectorVars>>

(* What the exporter serves and the Collector keeps accounts for everything    *)
(* they accepted, for any metrics, labels, buckets and limits.                *)
THEOREM ServedTotalsHold == ExporterSpec => []ServedAddsUp
<1> DEFINE Inv == ExporterInv /\ CollectorInv
<1>1. ExporterInit /\ CollectorInit => Inv
  BY ExporterStarts
<1>2. Inv /\ [ServedStep]_<<exporterVars, collectorVars>> => Inv'
  <2>1. ASSUME CollectorInv, UNCHANGED collectorVars PROVE CollectorInv'
    BY <2>1 DEF CollectorInv, collectorVars
  <2>2. ASSUME ExporterInv, UNCHANGED exporterVars PROVE ExporterInv'
    BY <2>2 DEF ExporterInv, exporterVars, MetricInv, SeriesOf, KeysOf
  <2>3. ASSUME ExporterInv, ExporterStep PROVE ExporterInv'
    BY <2>3, UpdateSeriesKeeps, UpdateNewKeeps, RegisterKeeps DEF ExporterStep
  <2>4. ASSUME CollectorInv, CollectorStep PROVE CollectorInv'
    BY <2>4, RecordKeeps DEF CollectorStep
  <2> QED BY <2>1, <2>2, <2>3, <2>4 DEF ServedStep
<1>3. Inv => ServedAddsUp
  BY ServedFollows
<1> QED BY <1>1, <1>2, <1>3, PTL DEF ExporterSpec

-----------------------------------------------------------------------------
(* The policy: the order of clean items, and a list put in it. *)
CleanItems == [name : DOMAIN Order, start : DOMAIN Decimal, end : DOMAIN Decimal]

(* Before compares the three parts of the keys one after the other. *)
LEMMA BeforeByParts ==
  ASSUME NEW a, NEW b
  PROVE  Before(a, b) <=>
           \/ Order[a.name] < Order[b.name]
           \/ /\ Order[a.name] = Order[b.name]
              /\ \/ Decimal[a.start] < Decimal[b.start]
                 \/ Decimal[a.start] = Decimal[b.start] /\ Decimal[a.end] < Decimal[b.end]
<1> DEFINE k == Key(a)
           l == Key(b)
           P(i) == k[i] < l[i] /\ \A h \in 1 .. i - 1 : k[h] = l[h]
<1>1. Before(a, b) <=> P(1) \/ P(2) \/ P(3)
  <2>1. 1 .. 3 = {1, 2, 3}
    OBVIOUS
  <2>2. Before(a, b) <=> \E i \in 1 .. 3 : P(i)
    BY DEF Before
  <2> HIDE DEF P
  <2> QED BY <2>1, <2>2
<1>2. /\ k[1] = Order[a.name] /\ k[2] = Decimal[a.start] /\ k[3] = Decimal[a.end]
      /\ l[1] = Order[b.name] /\ l[2] = Decimal[b.start] /\ l[3] = Decimal[b.end]
  BY DEF Key
<1> HIDE DEF k, l
<1>3. 1 .. 1 - 1 = {} /\ 1 .. 2 - 1 = {1} /\ 1 .. 3 - 1 = {1, 2}
  OBVIOUS
<1>4. P(1) <=> k[1] < l[1]
  BY <1>3
<1>5. P(2) <=> k[2] < l[2] /\ k[1] = l[1]
  BY <1>3
<1>6. P(3) <=> k[3] < l[3] /\ k[1] = l[1] /\ k[2] = l[2]
  BY <1>3
<1> HIDE DEF P
<1> QED BY <1>1, <1>2, <1>4, <1>5, <1>6

(* It is a strict order of the clean items, and their keys tell them apart. *)
LEMMA BeforeIsOrder ==
  ASSUME NEW a \in CleanItems, NEW b \in CleanItems, NEW c \in CleanItems
  PROVE  /\ ~Before(a, a)
         /\ Before(a, b) /\ Before(b, c) => Before(a, c)
         /\ Before(a, b) \/ Before(b, a) \/ a = b
         /\ Key(a) = Key(b) => a = b
<1>1. \A x \in CleanItems : /\ Order[x.name] \in Nat /\ Decimal[x.start] \in Nat /\ Decimal[x.end] \in Nat
                            /\ x.name \in DOMAIN Order /\ x.start \in DOMAIN Decimal /\ x.end \in DOMAIN Decimal
  BY OrderAssumption DEF CleanItems
<1>2. ASSUME NEW x \in CleanItems, NEW y \in CleanItems,
             Order[x.name] = Order[y.name], Decimal[x.start] = Decimal[y.start], Decimal[x.end] = Decimal[y.end]
      PROVE  x = y
  <2>1. x.name = y.name /\ x.start = y.start /\ x.end = y.end
    BY <1>1, <1>2, OrderAssumption
  <2> QED BY <2>1 DEF CleanItems
<1>3. ~Before(a, a)
  BY <1>1, BeforeByParts
<1>4. Before(a, b) /\ Before(b, c) => Before(a, c)
  BY <1>1, BeforeByParts
<1>5. Before(a, b) \/ Before(b, a) \/ a = b
  BY <1>1, <1>2, BeforeByParts
<1>6. Key(a) = Key(b) => a = b
  <2> SUFFICES ASSUME Key(a) = Key(b) PROVE a = b
    OBVIOUS
  <2>1. Order[a.name] = Order[b.name] /\ Decimal[a.start] = Decimal[b.start] /\ Decimal[a.end] = Decimal[b.end]
    BY DEF Key
  <2> QED BY <1>2, <2>1
<1> QED BY <1>3, <1>4, <1>5, <1>6

(* Any strict order of finitely many places has an arrangement that follows  *)
(* it: the rank of a place is how many come before it.                       *)
LEMMA ArrangementExists ==
  ASSUME NEW n \in Nat, NEW R,
         \A i \in 1 .. n : <<i, i>> \notin R,
         \A i, h, k \in 1 .. n : <<i, h>> \in R /\ <<h, k>> \in R => <<i, k>> \in R,
         \A i, h \in 1 .. n : i # h => <<i, h>> \in R \/ <<h, i>> \in R
  PROVE  \E p \in Bijection(1 .. n, 1 .. n) :
           \A i, h \in 1 .. n : i < h => <<p[i], p[h]>> \in R
<1> DEFINE D == 1 .. n
           below(i) == {h \in D : <<h, i>> \in R}
           rank == [i \in D |-> Cardinality(below(i)) + 1]
<1>1. IsFiniteSet(D) /\ Cardinality(D) = n
  BY FS_Interval
<1>2. \A i \in D : below(i) \subseteq D /\ IsFiniteSet(below(i)) /\ Cardinality(below(i)) \in Nat
  <2>1. \A i \in D : below(i) \subseteq D
    OBVIOUS
  <2> HIDE DEF below, D
  <2> QED BY <1>1, <2>1, FS_Subset, FS_CardinalityType
<1>3. ASSUME NEW S, NEW x, IsFiniteSet(S), x \notin S, NEW T, S \subseteq T, x \in T, IsFiniteSet(T)
      PROVE  Cardinality(S) + 1 <= Cardinality(T)
  <2>1. Cardinality(S \cup {x}) = Cardinality(S) + 1
    BY <1>3, FS_AddElement
  <2>2. S \cup {x} \subseteq T
    BY <1>3
  <2> QED BY <1>3, <2>1, <2>2, FS_Subset
<1>4. ASSUME NEW i \in D, NEW h \in D, <<i, h>> \in R
      PROVE  rank[i] < rank[h]
  <2>1. below(i) \subseteq below(h) /\ i \in below(h) /\ i \notin below(i)
    BY <1>4
  <2>2. Cardinality(below(i)) + 1 <= Cardinality(below(h))
    <3> HIDE DEF below, D
    <3> QED BY <1>2, <1>3, <1>4, <2>1
  <2>3. rank[i] = Cardinality(below(i)) + 1 /\ rank[h] = Cardinality(below(h)) + 1
    OBVIOUS
  <2> HIDE DEF rank, below, D
  <2> QED BY <1>2, <1>4, <2>2, <2>3
<1>5. ASSUME NEW i \in D
      PROVE  rank[i] \in D
  <2>1. i \notin below(i)
    OBVIOUS
  <2>2. Cardinality(below(i)) + 1 <= n
    <3> HIDE DEF below, D
    <3> QED BY <1>1, <1>2, <1>3, <1>5, <2>1
  <2>3. rank[i] = Cardinality(below(i)) + 1
    OBVIOUS
  <2>4. Cardinality(below(i)) \in Nat
    BY <1>2
  <2> HIDE DEF rank, below
  <2> QED BY <2>2, <2>3, <2>4
<1>6. rank \in Injection(D, D)
  <2>1. rank \in [D -> D]
    BY <1>5
  <2>2. ASSUME NEW i \in D, NEW h \in D, rank[i] = rank[h]
        PROVE  i = h
    <3> SUFFICES ASSUME i # h PROVE FALSE
      OBVIOUS
    <3>1. rank[i] < rank[h] \/ rank[h] < rank[i]
      BY <1>4
    <3>2. rank[i] \in D /\ rank[h] \in D
      BY <1>5
    <3> HIDE DEF rank
    <3> QED BY <2>2, <3>1, <3>2
  <2> HIDE DEF rank
  <2> QED BY <2>1, <2>2 DEF Injection, IsInjective
<1>7. rank \in Surjection(D, D)
  <2> HIDE DEF rank, D
  <2> QED BY <1>1, <1>6, FS_Injection
<1> DEFINE p == [k \in D |-> CHOOSE i \in D : rank[i] = k]
<1>8. ASSUME NEW k \in D PROVE p[k] \in D /\ rank[p[k]] = k
  <2>1. \E i \in D : rank[i] = k
    BY <1>7 DEF Surjection
  <2> HIDE DEF rank, D
  <2> QED BY <2>1
<1>9. p \in Bijection(D, D)
  <2>1. p \in [D -> D]
    BY <1>8
  <2>2. \A k, l \in D : p[k] = p[l] => k = l
    BY <1>8
  <2>3. ASSUME NEW i \in D PROVE \E k \in D : p[k] = i
    <3>1. rank[i] \in D /\ p[rank[i]] \in D /\ rank[p[rank[i]]] = rank[i]
      BY <1>5, <1>8
    <3>2. p[rank[i]] = i
      <4> HIDE DEF rank, p
      <4> QED BY <1>6, <3>1 DEF Injection, IsInjective
    <3> QED BY <3>1, <3>2
  <2> HIDE DEF p
  <2> QED BY <2>1, <2>2, <2>3 DEF Bijection, Injection, Surjection, IsInjective
<1>10. ASSUME NEW i \in D, NEW h \in D, i < h
       PROVE  <<p[i], p[h]>> \in R
  <2>1. p[i] \in D /\ p[h] \in D /\ rank[p[i]] = i /\ rank[p[h]] = h
    BY <1>8
  <2>2. ~(<<p[h], p[i]>> \in R)
    <3> SUFFICES ASSUME <<p[h], p[i]>> \in R PROVE FALSE
      OBVIOUS
    <3> HIDE DEF rank, p, D
    <3>1. rank[p[h]] < rank[p[i]]
      BY <1>4, <2>1
    <3>2. h < i
      BY <2>1, <3>1
    <3>3. i \in Nat /\ h \in Nat
      BY DEF D
    <3> QED BY <1>10, <3>2, <3>3
  <2>3. p[i] # p[h]
    <3>1. i # h
      BY <1>10
    <3> HIDE DEF rank, p
    <3> QED BY <2>1, <3>1
  <2> HIDE DEF p
  <2> QED BY <2>1, <2>2, <2>3
<1> HIDE DEF p
<1> QED BY <1>9, <1>10

(* What is kept of a list that goes on, and of the places in s: the greatest *)
(* of them comes last.                                                       *)
Kept1(got, a) == IF Contains(got, a) THEN got ELSE Append(got, a)
KeptAt(g, items, s) == g[s] = IF s = {} THEN <<>> ELSE Kept1(g[s \ {Max(s)}], items[Max(s)])
KeptOf(g, items, D) ==
  g = [s \in SUBSET D |-> IF s = {} THEN <<>> ELSE Kept1(g[s \ {Max(s)}], items[Max(s)])]

LEMMA UniqueIsChosen ==
  ASSUME NEW items
  PROVE  Unique(items) = (CHOOSE g : KeptOf(g, items, DOMAIN items))[DOMAIN items]
BY DEF Unique, FoldLeft, MapThenFoldSet, KeptOf, Kept1

(* The greatest of the first places. *)
LEMMA LastPlace ==
  ASSUME NEW n \in Nat, n # 0
  PROVE  Max(1 .. n) = n /\ (1 .. n) \ {Max(1 .. n)} = 1 .. n - 1 /\ 1 .. n # {}
<1>1. n \in 1 .. n /\ \A y \in 1 .. n : n >= y
  OBVIOUS
<1>2. \A x \in 1 .. n : (\A y \in 1 .. n : x >= y) => x = n
  OBVIOUS
<1>3. Max(1 .. n) = n
  BY <1>1, <1>2 DEF Max
<1>4. \A x \in 1 .. n : x # n <=> x \in 1 .. n - 1
  OBVIOUS
<1>5. 1 .. n - 1 \subseteq 1 .. n
  OBVIOUS
<1>6. (1 .. n) \ {n} = 1 .. n - 1
  BY <1>4, <1>5
<1> QED BY <1>1, <1>3, <1>6

(* What is kept of the first n places, for every n. *)
LEMMA KeptByPlace ==
  ASSUME NEW items, NEW n \in Nat, NEW D, D = 1 .. n, NEW g, KeptOf(g, items, D)
  PROVE  \E k : /\ k[0] = <<>> /\ k[n] = g[D]
                /\ \A m \in 1 .. n : k[m] = Kept1(k[m - 1], items[m])
<1> DEFINE k == [m \in 0 .. n |-> g[1 .. m]]
<1>1. \A m \in 0 .. n : 1 .. m \in SUBSET D
  OBVIOUS
<1>2. \A s \in SUBSET D : KeptAt(g, items, s)
  BY DEF KeptOf, KeptAt
<1>3. k[0] = <<>>
  <2>1. 1 .. 0 = {} /\ 0 \in 0 .. n
    OBVIOUS
  <2> QED BY <1>1, <1>2, <2>1 DEF KeptAt
<1>4. k[n] = g[D]
  OBVIOUS
<1>5. ASSUME NEW m \in 1 .. n PROVE k[m] = Kept1(k[m - 1], items[m])
  <2>1. m \in Nat /\ m # 0 /\ m \in 0 .. n /\ m - 1 \in 0 .. n
    OBVIOUS
  <2>2. KeptAt(g, items, 1 .. m)
    BY <1>1, <1>2, <2>1
  <2>3. Max(1 .. m) = m /\ (1 .. m) \ {Max(1 .. m)} = 1 .. m - 1 /\ 1 .. m # {}
    BY <2>1, LastPlace
  <2>4. g[1 .. m] = Kept1(g[1 .. m - 1], items[m])
    BY <2>2, <2>3 DEF KeptAt
  <2>5. k[m] = g[1 .. m] /\ k[m - 1] = g[1 .. m - 1]
    BY <2>1
  <2> QED BY <2>4, <2>5
<1> HIDE DEF k
<1> QED BY <1>3, <1>4, <1>5

(* There is such a family: of n + 1 places from n of them. *)
LEMMA KeptExists ==
  ASSUME NEW items, NEW n \in Nat, NEW D, D = 1 .. n
  PROVE  \E g : KeptOf(g, items, D)
<1> DEFINE UpTo(c) == \E g : \A s \in SUBSET D : Cardinality(s) <= c => KeptAt(g, items, s)
           Bad == {c \in Nat : ~UpTo(c)}
<1>1. \A s \in SUBSET D : IsFiniteSet(s) /\ Cardinality(s) \in Nat
  <2>1. IsFiniteSet(D)
    BY FS_Interval
  <2> QED BY <2>1, FS_Subset, FS_CardinalityType
<1>2. UpTo(0)
  <2>1. \A s \in SUBSET D : Cardinality(s) <= 0 => s = {}
    BY <1>1, FS_EmptySet
  <2>2. \A s \in SUBSET D : Cardinality(s) <= 0 => KeptAt([t \in SUBSET D |-> <<>>], items, s)
    BY <2>1 DEF KeptAt
  <2> QED BY <2>2
<1>3. ASSUME NEW s \in SUBSET D, s # {} PROVE Max(s) \in s
  <2>1. s \in SUBSET (0 .. n)
    OBVIOUS
  <2> QED BY <1>3, <2>1, MaxIsGreatest
<1>4. ASSUME NEW c \in Nat, c > 0, UpTo(c - 1) PROVE UpTo(c)
  <2>1. PICK g : \A s \in SUBSET D : Cardinality(s) <= c - 1 => KeptAt(g, items, s)
    BY <1>4
  <2> DEFINE k == [s \in SUBSET D |->
                     IF Cardinality(s) <= c - 1 THEN g[s] ELSE Kept1(g[s \ {Max(s)}], items[Max(s)])]
  <2>2. ASSUME NEW s \in SUBSET D, Cardinality(s) <= c PROVE KeptAt(k, items, s)
    <3>1. CASE s = {}
      <4>1. Cardinality(s) = 0 /\ c - 1 >= 0
        BY <1>4, <3>1, FS_EmptySet
      <4>2. Cardinality(s) <= c - 1
        BY <4>1
      <4>3. KeptAt(g, items, s) /\ k[s] = g[s]
        BY <4>2, <2>1
      <4> QED BY <3>1, <4>3 DEF KeptAt
    <3>2. CASE s # {}
      <4> DEFINE r == s \ {Max(s)}
      <4>1. Max(s) \in s /\ r \in SUBSET D
        BY <1>3, <3>2
      <4>2. Cardinality(r) <= c - 1
        <5>1. IsFiniteSet(s) /\ Cardinality(s) \in Nat
          BY <1>1
        <5>2. Cardinality(r) = Cardinality(s) - 1
          BY <4>1, <5>1, FS_RemoveElement
        <5> QED BY <2>2, <5>1, <5>2
      <4>3. k[r] = g[r]
        BY <4>1, <4>2
      <4>4. k[s] = Kept1(g[r], items[Max(s)])
        <5>1. CASE Cardinality(s) <= c - 1
          <6>1. KeptAt(g, items, s) /\ k[s] = g[s]
            BY <5>1, <2>1
          <6> QED BY <6>1, <3>2 DEF KeptAt
        <5> QED BY <5>1
      <4> HIDE DEF k
      <4> QED BY <3>2, <4>3, <4>4 DEF KeptAt
    <3> QED BY <3>1, <3>2
  <2> HIDE DEF k
  <2> QED BY <2>2
<1>5. Bad = {}
  <2> SUFFICES ASSUME Bad # {} PROVE FALSE
    OBVIOUS
  <2>1. PICK m \in Bad : \A c \in Bad : m <= c
    <3> HIDE DEF UpTo
    <3>1. Bad \subseteq Nat
      OBVIOUS
    <3> HIDE DEF Bad
    <3> QED BY <3>1, LeastNatural
  <2> HIDE DEF UpTo
  <2>2. m \in Nat /\ ~UpTo(m) /\ m # 0
    BY <2>1, <1>2
  <2>3. m - 1 \in Nat /\ m > 0
    BY <2>2
  <2>4. UpTo(m - 1)
    BY <2>1, <2>3
  <2> QED BY <1>4, <2>2, <2>3, <2>4
<1>6. UpTo(Cardinality(D))
  <2> HIDE DEF UpTo
  <2>1. Cardinality(D) \in Nat
    BY <1>1
  <2> QED BY <1>5, <2>1
<1>7. PICK g : \A s \in SUBSET D : Cardinality(s) <= Cardinality(D) => KeptAt(g, items, s)
  BY <1>6
<1>8. \A s \in SUBSET D : KeptAt(g, items, s)
  <2>1. \A s \in SUBSET D : Cardinality(s) <= Cardinality(D)
    <3>1. IsFiniteSet(D)
      BY FS_Interval
    <3> QED BY <3>1, FS_Subset
  <2> QED BY <1>7, <2>1
<1> DEFINE k == [s \in SUBSET D |-> g[s]]
<1>9. ASSUME NEW s \in SUBSET D
      PROVE  k[s] = IF s = {} THEN <<>> ELSE Kept1(k[s \ {Max(s)}], items[Max(s)])
  BY <1>8 DEF KeptAt
<1>10. KeptOf(k, items, D)
  <2> HIDE DEF k
  <2>1. k = [s \in SUBSET D |-> k[s]]
    BY DEF k
  <2>2. [s \in SUBSET D |-> k[s]]
        = [s \in SUBSET D |-> IF s = {} THEN <<>> ELSE Kept1(k[s \ {Max(s)}], items[Max(s)])]
    BY <1>9
  <2> QED BY <2>1, <2>2 DEF KeptOf
<1> QED BY <1>10

(* A list in order, and one in order without repetitions. *)
Ascending(s) == \A i, h \in DOMAIN s : i < h => Before(s[i], s[h]) \/ s[i] = s[h]
Increasing(s) == \A i, h \in DOMAIN s : i < h => Before(s[i], s[h])

(* Sorting arranges a list: the same items, in order. *)
LEMMA SortedIsInOrder ==
  ASSUME NEW items \in Seq(CleanItems)
  PROVE  /\ Sorted(items) \in Seq(CleanItems) /\ Len(Sorted(items)) = Len(items)
         /\ ToSet(Sorted(items)) = ToSet(items) /\ Ascending(Sorted(items))
<1> DEFINE n == Len(items)
           D == 1 .. n
           first(i, h) == \/ Before(items[i], items[h])
                          \/ Key(items[i]) = Key(items[h]) /\ i < h
           R == {e \in D \X D : first(e[1], e[2])}
<1>1. n \in Nat /\ DOMAIN items = D /\ \A i \in D : items[i] \in CleanItems
  BY LenProperties, ElementOfSeq
<1>2. \A i, h \in D : <<i, h>> \in R <=> first(i, h)
  OBVIOUS
<1>3. \A i \in D : ~first(i, i)
  BY <1>1, BeforeIsOrder
<1>4. ASSUME NEW i \in D, NEW h \in D, NEW k \in D, first(i, h), first(h, k)
      PROVE  first(i, k)
  <2>1. items[i] \in CleanItems /\ items[h] \in CleanItems /\ items[k] \in CleanItems
    BY <1>1
  <2>2. CASE Before(items[i], items[h]) /\ Before(items[h], items[k])
    BY <2>1, <2>2, BeforeIsOrder
  <2>3. CASE Key(items[i]) = Key(items[h]) /\ i < h
    BY <1>4, <2>1, <2>3, BeforeIsOrder
  <2>4. CASE Key(items[h]) = Key(items[k]) /\ h < k
    BY <1>4, <2>1, <2>4, BeforeIsOrder
  <2> QED BY <1>4, <2>2, <2>3, <2>4
<1>5. ASSUME NEW i \in D, NEW h \in D, i # h
      PROVE  first(i, h) \/ first(h, i)
  <2>1. items[i] \in CleanItems /\ items[h] \in CleanItems
    BY <1>1
  <2>2. i < h \/ h < i
    BY <1>5
  <2>3. Before(items[i], items[h]) \/ Before(items[h], items[i]) \/ items[i] = items[h]
    BY <2>1, BeforeIsOrder
  <2> QED BY <2>2, <2>3
<1>6. \E p \in Bijection(D, D) : \A i, h \in D : i < h => <<p[i], p[h]>> \in R
  <2> HIDE DEF first
  <2>1. \A i \in D : <<i, i>> \notin R
    BY <1>2, <1>3
  <2>2. \A i, h, k \in D : <<i, h>> \in R /\ <<h, k>> \in R => <<i, k>> \in R
    BY <1>2, <1>4
  <2>3. \A i, h \in D : i # h => <<i, h>> \in R \/ <<h, i>> \in R
    BY <1>2, <1>5
  <2> HIDE DEF R, n
  <2> QED BY <1>1, <2>1, <2>2, <2>3, ArrangementExists
<1>7. \E p \in Bijection(DOMAIN items, DOMAIN items) : Arranges(p, items)
  <2>1. PICK p \in Bijection(D, D) : \A i, h \in D : i < h => <<p[i], p[h]>> \in R
    BY <1>6
  <2>2. \A i \in D : p[i] \in D
    BY DEF Bijection, Injection
  <2>3. \A i, h \in D : i < h => first(p[i], p[h])
    <3> HIDE DEF R, first
    <3> QED BY <1>2, <2>1, <2>2
  <2>4. Arranges(p, items)
    BY <1>1, <2>3, Zenon DEF Arranges
  <2> QED BY <1>1, <2>4
<1> DEFINE p == CHOOSE p \in Bijection(DOMAIN items, DOMAIN items) : Arranges(p, items)
<1>8. p \in Bijection(D, D) /\ Arranges(p, items)
  <2>1. p \in Bijection(DOMAIN items, DOMAIN items) /\ Arranges(p, items)
    BY <1>7
  <2> HIDE DEF p
  <2> QED BY <1>1, <2>1
<1> DEFINE s == [i \in D |-> items[p[i]]]
<1>9. Sorted(items) = s
  BY <1>1 DEF Sorted
<1> HIDE DEF p
<1>10. \A i \in D : p[i] \in D
  BY <1>8 DEF Bijection, Injection
<1>11. s \in [D -> CleanItems]
  BY <1>1, <1>10
<1>12. s \in Seq(CleanItems) /\ Len(s) = n /\ DOMAIN s = D
  BY <1>1, <1>11
<1>13. ToSet(s) = ToSet(items)
  <2>1. ASSUME NEW i \in D PROVE s[i] \in ToSet(items)
    BY <1>1, <1>10 DEF ToSet
  <2>2. ASSUME NEW i \in D PROVE items[i] \in ToSet(s)
    <3>1. PICK k \in D : p[k] = i
      BY <1>8 DEF Bijection, Surjection
    <3>2. s[k] = items[i]
      BY <3>1
    <3> QED BY <1>12, <3>2 DEF ToSet
  <2>3. ToSet(s) = {s[i] : i \in D} /\ ToSet(items) = {items[i] : i \in D}
    BY <1>1, <1>12 DEF ToSet
  <2> HIDE DEF s
  <2> QED BY <2>1, <2>2, <2>3
<1>14. Ascending(s)
  <2> SUFFICES ASSUME NEW i \in D, NEW h \in D, i < h
               PROVE  Before(s[i], s[h]) \/ s[i] = s[h]
    BY <1>12 DEF Ascending
  <2>1. Before(items[p[i]], items[p[h]]) \/ Key(items[p[i]]) = Key(items[p[h]])
    BY <1>1, <1>8, Zenon DEF Arranges
  <2>2. items[p[i]] \in CleanItems /\ items[p[h]] \in CleanItems
    BY <1>1, <1>10
  <2>3. Before(items[p[i]], items[p[h]]) \/ items[p[i]] = items[p[h]]
    BY <2>1, <2>2, BeforeIsOrder
  <2> QED BY <2>3
<1> HIDE DEF s
<1> QED BY <1>9, <1>12, <1>13, <1>14

(* Dropping the repetitions of a list in order: each item once. *)
LEMMA UniqueIsIncreasing ==
  ASSUME NEW items \in Seq(CleanItems), Ascending(items)
  PROVE  /\ Unique(items) \in Seq(CleanItems) /\ Len(Unique(items)) <= Len(items)
         /\ ToSet(Unique(items)) = ToSet(items) /\ Increasing(Unique(items))
<1> DEFINE n == Len(items)
<1>1. n \in Nat /\ DOMAIN items = 1 .. n /\ \A i \in 1 .. n : items[i] \in CleanItems
  BY LenProperties, ElementOfSeq
<1>2. \E k : /\ k[0] = <<>> /\ k[n] = Unique(items)
             /\ \A m \in 1 .. n : k[m] = Kept1(k[m - 1], items[m])
  <2> HIDE DEF n
  <2>1. \E g : KeptOf(g, items, DOMAIN items)
    BY <1>1, KeptExists
  <2> DEFINE g == CHOOSE g : KeptOf(g, items, DOMAIN items)
  <2>2. KeptOf(g, items, DOMAIN items) /\ Unique(items) = g[DOMAIN items]
    BY <2>1, UniqueIsChosen
  <2> HIDE DEF g
  <2> QED BY <1>1, <2>2, KeptByPlace
<1>3. PICK k : /\ k[0] = <<>> /\ k[n] = Unique(items)
               /\ \A m \in 1 .. n : k[m] = Kept1(k[m - 1], items[m])
  BY <1>2
<1> DEFINE Good(m) == /\ k[m] \in Seq(CleanItems) /\ Len(k[m]) <= m
                      /\ ToSet(k[m]) = {items[i] : i \in 1 .. m} /\ Increasing(k[m])
<1>4. Good(0)
  <2>1. 1 .. 0 = {} /\ DOMAIN <<>> = {} /\ <<>> \in Seq(CleanItems) /\ Len(<<>>) = 0
    OBVIOUS
  <2>2. ToSet(<<>>) = {} /\ Increasing(<<>>)
    BY <2>1 DEF ToSet, Increasing
  <2> QED BY <1>3, <2>1, <2>2
<1>5. ASSUME NEW m \in 1 .. n, Good(m - 1)
      PROVE  Good(m)
  <2> DEFINE got == k[m - 1]
             e == items[m]
  <2>1. k[m] = Kept1(got, e) /\ m \in Nat /\ m - 1 \in Nat
    BY <1>3
  <2>2. got \in Seq(CleanItems) /\ Len(got) <= m - 1 /\ Increasing(got) /\ e \in CleanItems
    BY <1>1, <1>5
  <2>3. ToSet(got) = {items[i] : i \in 1 .. m - 1}
    BY <1>5
  <2>4. Len(got) \in Nat /\ DOMAIN got = 1 .. Len(got) /\ \A i \in 1 .. Len(got) : got[i] \in CleanItems
    BY <2>2, LenProperties, ElementOfSeq
  <2>5. {items[i] : i \in 1 .. m} = {items[i] : i \in 1 .. m - 1} \cup {e}
    <3>1. 1 .. m = 1 .. m - 1 \cup {m}
      BY <2>1
    <3> QED BY <3>1
  <2> HIDE DEF got, e
  <2>6. CASE Contains(got, e)
    <3>1. k[m] = got
      BY <2>1, <2>6 DEF Kept1
    <3>2. e \in ToSet(got)
      BY <2>4, <2>6 DEF Contains, ToSet
    <3>3. Len(got) <= m
      BY <2>1, <2>2, <2>4
    <3> QED BY <2>2, <2>3, <2>5, <3>1, <3>2, <3>3
  <2>7. CASE ~Contains(got, e)
    <3> DEFINE new == Append(got, e)
    <3>1. k[m] = new
      BY <2>1, <2>7 DEF Kept1
    <3>2. /\ new \in Seq(CleanItems) /\ Len(new) = Len(got) + 1
          /\ \A i \in 1 .. Len(got) : new[i] = got[i]
          /\ new[Len(got) + 1] = e
      BY <2>2, AppendProperties
    <3>3. DOMAIN new = 1 .. Len(got) + 1
      BY <3>2, LenProperties
    <3> HIDE DEF new
    <3>4. 1 .. Len(got) + 1 = 1 .. Len(got) \cup {Len(got) + 1}
      BY <2>4
    <3>5. ToSet(new) = ToSet(got) \cup {e}
      <4>1. ToSet(new) = {new[i] : i \in 1 .. Len(got)} \cup {new[Len(got) + 1]}
        BY <3>3, <3>4 DEF ToSet
      <4>2. {new[i] : i \in 1 .. Len(got)} = {got[i] : i \in 1 .. Len(got)}
        BY <3>2
      <4> QED BY <2>4, <3>2, <4>1, <4>2 DEF ToSet
    <3>6. ASSUME NEW i \in 1 .. Len(got) PROVE Before(got[i], e)
      <4>1. got[i] \in ToSet(got)
        BY <2>4 DEF ToSet
      <4>2. PICK h \in 1 .. m - 1 : got[i] = items[h]
        BY <2>3, <4>1
      <4>3. h \in DOMAIN items /\ m \in DOMAIN items /\ h < m
        BY <1>1, <2>1
      <4>4. Before(items[h], items[m]) \/ items[h] = items[m]
        BY <4>3 DEF Ascending
      <4>5. got[i] # e
        BY <2>7 DEF Contains
      <4> QED BY <4>2, <4>4, <4>5 DEF e
    <3>7. Increasing(new)
      <4> SUFFICES ASSUME NEW i \in DOMAIN new, NEW h \in DOMAIN new, i < h
                   PROVE  Before(new[i], new[h])
        BY DEF Increasing
      <4>1. i \in 1 .. Len(got) /\ new[i] = got[i]
        BY <2>4, <3>2, <3>3
      <4>2. CASE h = Len(got) + 1
        BY <3>2, <3>6, <4>1, <4>2
      <4>3. CASE h # Len(got) + 1
        <5>1. h \in 1 .. Len(got) /\ new[h] = got[h]
          BY <3>2, <3>3, <3>4, <4>3
        <5> QED BY <2>2, <2>4, <4>1, <5>1 DEF Increasing
      <4> QED BY <4>2, <4>3
    <3>8. Len(new) <= m
      BY <2>1, <2>2, <2>4, <3>2
    <3> QED BY <2>3, <2>5, <3>1, <3>2, <3>5, <3>7, <3>8
  <2> QED BY <2>6, <2>7
<1> DEFINE Bad == {m \in 0 .. n : ~Good(m)}
<1>6. Bad = {}
  <2> SUFFICES ASSUME Bad # {} PROVE FALSE
    OBVIOUS
  <2>1. PICK m \in Bad : \A c \in Bad : m <= c
    <3> HIDE DEF Good
    <3>1. Bad \subseteq Nat
      OBVIOUS
    <3> HIDE DEF Bad
    <3> QED BY <3>1, LeastNatural
  <2> HIDE DEF Good
  <2>2. m \in 0 .. n /\ ~Good(m) /\ m # 0
    BY <2>1, <1>4
  <2>3. m - 1 \in 0 .. n /\ m \in 1 .. n /\ m - 1 < m
    BY <1>1, <2>2
  <2>4. Good(m - 1)
    BY <2>1, <2>3
  <2> QED BY <1>5, <2>2, <2>3, <2>4
<1>7. Good(n)
  <2> HIDE DEF Good
  <2> QED BY <1>1, <1>6
<1>8. ToSet(items) = {items[i] : i \in 1 .. n}
  BY <1>1 DEF ToSet
<1> QED BY <1>3, <1>7, <1>8

(* Cleaning: the items are clean, as many as before, and clean ones stay. *)
LEMMA CleanedIsClean ==
  ASSUME NEW items \in Seq(Items)
  PROVE  /\ Cleaned(items) \in Seq(CleanItems) /\ Len(Cleaned(items)) = Len(items)
         /\ \A i \in 1 .. Len(items) :
              Cleaned(items)[i] = [name |-> Clean[items[i].name], start |-> items[i].start, end |-> items[i].end]
<1> DEFINE n == Len(items)
           s == Cleaned(items)
<1>1. n \in Nat /\ DOMAIN items = 1 .. n /\ \A i \in 1 .. n : items[i] \in Items
  BY LenProperties, ElementOfSeq
<1>2. s = [i \in 1 .. n |-> [items[i] EXCEPT !.name = Clean[@]]]
  BY <1>1 DEF Cleaned
<1>3. ASSUME NEW i \in 1 .. n
      PROVE  /\ s[i] = [name |-> Clean[items[i].name], start |-> items[i].start, end |-> items[i].end]
             /\ s[i] \in CleanItems
  <2>1. items[i] \in Items /\ s[i] = [items[i] EXCEPT !.name = Clean[@]]
    BY <1>1, <1>2
  <2>2. s[i] = [name |-> Clean[items[i].name], start |-> items[i].start, end |-> items[i].end]
    BY <2>1 DEF Items
  <2>3. Clean[items[i].name] \in DOMAIN Order /\ items[i].start \in DOMAIN Decimal /\ items[i].end \in DOMAIN Decimal
    BY <2>1, OrderAssumption DEF Items
  <2> QED BY <2>2, <2>3 DEF CleanItems
<1>4. s \in [1 .. n -> CleanItems]
  BY <1>2, <1>3
<1> HIDE DEF s
<1>5. s \in Seq(CleanItems) /\ Len(s) = n
  BY <1>1, <1>4
<1>6. \A i \in 1 .. n : s[i] = [name |-> Clean[items[i].name], start |-> items[i].start, end |-> items[i].end]
  BY <1>3
<1> QED BY <1>5, <1>6 DEF s, n

LEMMA CleanAreItems == CleanItems \subseteq Items
  BY OrderAssumption DEF CleanItems, Items

LEMMA CleanedAgain ==
  ASSUME NEW items \in Seq(CleanItems)
  PROVE  Cleaned(items) = items
<1>1. items \in Seq(Items)
  BY CleanAreItems, SeqMonotonic
<1>2. ASSUME NEW i \in 1 .. Len(items) PROVE Cleaned(items)[i] = items[i]
  <2>1. items[i] \in CleanItems
    BY ElementOfSeq
  <2>2. Clean[items[i].name] = items[i].name
    BY <2>1, OrderAssumption DEF CleanItems
  <2>3. Cleaned(items)[i] = [name |-> items[i].name, start |-> items[i].start, end |-> items[i].end]
    BY <1>1, <2>2, CleanedIsClean
  <2> QED BY <2>1, <2>3 DEF CleanItems
<1> QED BY <1>1, <1>2, CleanedIsClean, SeqEqual

(* The normal form of a list: the cleaned items, each once and in order. *)
LEMMA NormalForm ==
  ASSUME NEW items \in Seq(Items)
  PROVE  /\ Normalize(items) \in Seq(CleanItems) /\ Len(Normalize(items)) <= Len(items)
         /\ ToSet(Normalize(items)) = ToSet(Cleaned(items)) /\ Increasing(Normalize(items))
<1> DEFINE c == Cleaned(items)
<1>1. c \in Seq(CleanItems) /\ Len(c) = Len(items)
  BY CleanedIsClean
<1> HIDE DEF c
<1> DEFINE s == Sorted(c)
<1>2. s \in Seq(CleanItems) /\ Len(s) = Len(c) /\ ToSet(s) = ToSet(c) /\ Ascending(s)
  BY <1>1, SortedIsInOrder
<1> HIDE DEF s
<1>3. /\ Unique(s) \in Seq(CleanItems) /\ Len(Unique(s)) <= Len(s)
      /\ ToSet(Unique(s)) = ToSet(s) /\ Increasing(Unique(s))
  BY <1>2, UniqueIsIncreasing
<1>4. Normalize(items) = Unique(s)
  BY DEF Normalize, s, c
<1> QED BY <1>1, <1>2, <1>3, <1>4 DEF c

(* A list in order without repetitions is given by its items. *)
LEMMA IncreasingAgree ==
  ASSUME NEW u \in Seq(CleanItems), NEW v \in Seq(CleanItems), Increasing(u), Increasing(v), ToSet(u) = ToSet(v)
  PROVE  \A i \in 1 .. Len(u) : i <= Len(v) /\ u[i] = v[i]
<1>1. /\ Len(u) \in Nat /\ DOMAIN u = 1 .. Len(u) /\ \A i \in 1 .. Len(u) : u[i] \in CleanItems
      /\ Len(v) \in Nat /\ DOMAIN v = 1 .. Len(v) /\ \A i \in 1 .. Len(v) : v[i] \in CleanItems
  BY LenProperties, ElementOfSeq
<1> DEFINE Bad == {i \in 1 .. Len(u) : ~(i <= Len(v) /\ u[i] = v[i])}
<1>2. SUFFICES ASSUME Bad # {} PROVE FALSE
  OBVIOUS
<1>3. PICK m \in Bad : \A i \in Bad : m <= i
  <2>1. Bad \subseteq Nat
    OBVIOUS
  <2> HIDE DEF Bad
  <2> QED BY <1>2, <2>1, LeastNatural
<1>4. m \in 1 .. Len(u) /\ m \in Nat /\ ~(m <= Len(v) /\ u[m] = v[m])
  OBVIOUS
<1>5. \A i \in 1 .. m - 1 : i \in 1 .. Len(u) /\ i \in 1 .. Len(v) /\ u[i] = v[i]
  <2> SUFFICES ASSUME NEW i \in 1 .. m - 1 PROVE i \in 1 .. Len(u) /\ i \in 1 .. Len(v) /\ u[i] = v[i]
    OBVIOUS
  <2>1. i \in 1 .. Len(u) /\ ~(m <= i)
    BY <1>1, <1>4
  <2>2. i \notin Bad
    <3> HIDE DEF Bad
    <3> QED BY <1>3, <2>1
  <2>3. i <= Len(v) /\ u[i] = v[i]
    BY <2>1, <2>2
  <2> QED BY <1>1, <2>1, <2>3
<1> HIDE DEF Bad
<1>6. \A i, h \in 1 .. Len(u) : i < h => Before(u[i], u[h])
  BY <1>1 DEF Increasing
<1>7. \A i, h \in 1 .. Len(v) : i < h => Before(v[i], v[h])
  BY <1>1 DEF Increasing
<1>8. PICK q \in 1 .. Len(v) : u[m] = v[q]
  <2>1. u[m] \in ToSet(v)
    BY <1>1, <1>4 DEF ToSet
  <2> QED BY <1>1, <2>1 DEF ToSet
<1>9. m < q
  <2> SUFFICES ASSUME ~(m < q) PROVE FALSE
    OBVIOUS
  <2>1. q # m
    BY <1>1, <1>4, <1>8
  <2>2. q \in 1 .. m - 1
    BY <1>1, <1>4, <2>1
  <2>3. u[q] = v[q] /\ q \in 1 .. Len(u) /\ q < m
    BY <1>4, <1>5, <2>2
  <2>4. Before(u[q], u[m])
    BY <1>4, <1>6, <2>3
  <2> QED BY <1>1, <1>4, <1>8, <2>3, <2>4, BeforeIsOrder
<1>10. m \in 1 .. Len(v) /\ Before(v[m], u[m])
  <2>1. m \in 1 .. Len(v)
    BY <1>1, <1>4, <1>9
  <2> QED BY <1>7, <1>8, <1>9, <2>1
<1>11. PICK t \in 1 .. Len(u) : v[m] = u[t]
  <2>1. v[m] \in ToSet(u)
    BY <1>1, <1>10 DEF ToSet
  <2> QED BY <1>1, <2>1 DEF ToSet
<1>12. CASE t < m
  <2>1. t \in 1 .. m - 1
    BY <1>1, <1>4, <1>12
  <2>2. u[t] = v[t] /\ t \in 1 .. Len(v)
    BY <1>5, <2>1
  <2>3. Before(v[t], v[m])
    BY <1>7, <1>10, <1>12, <2>2
  <2> QED BY <1>1, <1>10, <1>11, <2>2, <2>3, BeforeIsOrder
<1>13. CASE t = m
  BY <1>1, <1>4, <1>10, <1>11, <1>13, BeforeIsOrder
<1>14. CASE m < t
  <2>1. Before(u[m], u[t])
    BY <1>4, <1>6, <1>14
  <2> QED BY <1>1, <1>4, <1>10, <1>11, <2>1, BeforeIsOrder
<1> QED BY <1>1, <1>4, <1>12, <1>13, <1>14

(* A normal form is its own normal form. *)
LEMMA NormalizedAgain ==
  ASSUME NEW items \in Seq(Items)
  PROVE  Normalize(Normalize(items)) = Normalize(items)
<1> DEFINE u == Normalize(items)
           v == Normalize(u)
<1>1. u \in Seq(CleanItems) /\ Increasing(u)
  BY NormalForm
<1> HIDE DEF u
<1>2. u \in Seq(Items) /\ Cleaned(u) = u
  BY <1>1, CleanAreItems, SeqMonotonic, CleanedAgain
<1>3. v \in Seq(CleanItems) /\ Increasing(v) /\ ToSet(v) = ToSet(u)
  BY <1>2, NormalForm
<1> HIDE DEF v
<1>4. \A i \in 1 .. Len(u) : i <= Len(v) /\ u[i] = v[i]
  BY <1>1, <1>3, IncreasingAgree
<1>5. \A i \in 1 .. Len(v) : i <= Len(u) /\ v[i] = u[i]
  BY <1>1, <1>3, IncreasingAgree
<1>6. Len(u) \in Nat /\ Len(v) \in Nat
  BY <1>1, <1>3, LenProperties
<1>7. Len(u) = Len(v)
  <2>1. Len(u) <= Len(v)
    BY <1>4, <1>6
  <2>2. Len(v) <= Len(u)
    BY <1>5, <1>6
  <2> QED BY <1>6, <2>1, <2>2
<1>8. u = v
  BY <1>1, <1>3, <1>4, <1>7, SeqEqual
<1> QED BY <1>8 DEF u, v

(* What the policy accepts it accepts again, in the form it has given it. *)
LEMMA AcceptedAgain ==
  ASSUME NEW t, NEW x, NEW o \in Outputs, Accepts(t, x, o)
  PROVE  LET out == Normalized(t, x, o)
         IN Accepts(out.tenant, out.extension, out)
<1> DEFINE out == Normalized(t, x, o)
           acts == Normalize(o.actions)
           notes == Normalize(o.annotations)
<1>1. o.actions \in Seq(Items) /\ o.annotations \in Seq(Items)
  BY OutputsAssumption
<1>2. /\ acts \in Seq(CleanItems) /\ Len(acts) <= Len(o.actions) /\ ToSet(acts) = ToSet(Cleaned(o.actions))
      /\ notes \in Seq(CleanItems) /\ Len(notes) <= Len(o.annotations)
      /\ ToSet(notes) = ToSet(Cleaned(o.annotations))
  BY <1>1, NormalForm
<1>3. ASSUME NEW items \in Seq(Items), NEW s \in Seq(CleanItems), ToSet(s) = ToSet(Cleaned(items)),
             NEW i \in DOMAIN s
      PROVE  \E h \in DOMAIN items :
               /\ s[i] = [name |-> Clean[items[h].name], start |-> items[h].start, end |-> items[h].end]
               /\ Clean[s[i].name] = s[i].name
  <2>1. s[i] \in ToSet(Cleaned(items)) /\ s[i] \in CleanItems
    <3>1. s[i] \in ToSet(s)
      BY DEF ToSet
    <3>2. s[i] \in CleanItems
      BY LenProperties, ElementOfSeq
    <3> QED BY <1>3, <3>1, <3>2
  <2>2. DOMAIN Cleaned(items) = DOMAIN items /\ DOMAIN items = 1 .. Len(items)
    BY LenProperties DEF Cleaned
  <2>3. PICK h \in DOMAIN items : s[i] = Cleaned(items)[h]
    BY <2>1, <2>2 DEF ToSet
  <2>4. Clean[s[i].name] = s[i].name
    BY <2>1, OrderAssumption DEF CleanItems
  <2> QED BY <2>2, <2>3, <2>4, CleanedIsClean
<1> HIDE DEF acts, notes
<1>4. ASSUME NEW i \in DOMAIN acts PROVE Clean[acts[i].name] \in AllowedActions
  <2>1. \E h \in DOMAIN o.actions :
          /\ acts[i] = [name |-> Clean[o.actions[h].name], start |-> o.actions[h].start, end |-> o.actions[h].end]
          /\ Clean[acts[i].name] = acts[i].name
    BY <1>1, <1>2, <1>3
  <2>2. PICK h \in DOMAIN o.actions : acts[i].name = Clean[o.actions[h].name] /\ Clean[acts[i].name] = acts[i].name
    BY <2>1
  <2> QED BY <2>2 DEF Accepts
<1>5. ASSUME NEW i \in DOMAIN notes PROVE ValidAnnotation(notes[i])
  <2>1. PICK h \in DOMAIN o.annotations :
          /\ notes[i] = [name |-> Clean[o.annotations[h].name], start |-> o.annotations[h].start,
                         end |-> o.annotations[h].end]
          /\ Clean[notes[i].name] = notes[i].name
    BY <1>1, <1>2, <1>3
  <2>2. ValidAnnotation(o.annotations[h])
    BY DEF Accepts
  <2>3. /\ Clean[notes[i].name] = Clean[o.annotations[h].name]
        /\ notes[i].start = o.annotations[h].start /\ notes[i].end = o.annotations[h].end
    BY <2>1
  <2> QED BY <2>2, <2>3 DEF ValidAnnotation
<1>6. Len(acts) <= MaxActions /\ Len(notes) <= MaxAnnotations
  <2>1. Len(o.actions) <= MaxActions /\ Len(o.annotations) <= MaxAnnotations
    BY DEF Accepts
  <2>2. MaxActions \in Nat /\ MaxAnnotations \in Nat
    <3>1. {MaxActions, MaxAnnotations, SinkMax} \subseteq Nat \ {0}
      BY AdviceAssumption
    <3> QED BY ONLY <3>1
  <2>3. /\ Len(o.actions) \in Nat /\ Len(o.annotations) \in Nat /\ Len(acts) \in Nat /\ Len(notes) \in Nat
    BY <1>1, <1>2, LenProperties
  <2> QED BY <1>2, <2>1, <2>2, <2>3
<1>7. out = [version |-> "v1", tenant |-> t, extension |-> x, job |-> o.job, actions |-> acts, annotations |-> notes]
  BY DEF Normalized, acts, notes
<1> HIDE DEF out
<1>8. /\ out.version = "v1" /\ out.tenant = t /\ out.extension = x /\ out.job = o.job
      /\ out.actions = acts /\ out.annotations = notes
  BY <1>7
<1>9. Identified(t, x, out)
  BY <1>8 DEF Accepts, Identified
<1>10. Accepts(t, x, out)
  BY <1>4, <1>5, <1>6, <1>8, <1>9 DEF Accepts
<1> QED BY <1>8, <1>10 DEF out

(* What the policy accepts is in normal form, has what it was given and is   *)
(* accepted again unchanged, whatever an extension hands in.                 *)
THEOREM AcceptedHolds == AdviceSpec => []AcceptedIsCanonical
<1>1. AdviceInit => AcceptedIsCanonical
  BY DEF AdviceInit, AcceptedIsCanonical
<1>2. AcceptedIsCanonical /\ [AdviceStep \/ PolicyStep]_adviceVars => AcceptedIsCanonical'
  <2> SUFFICES ASSUME AcceptedIsCanonical, [AdviceStep \/ PolicyStep]_adviceVars
               PROVE  AcceptedIsCanonical'
    OBVIOUS
  <2>1. CASE UNCHANGED decision
    BY <2>1 DEF AcceptedIsCanonical
  <2>2. CASE AdviceStep
    <3>1. UNCHANGED decision
      BY <2>2 DEF AdviceStep, Observe, CountEvent, Summarize, Advise
    <3> QED BY <2>1, <3>1
  <2>3. CASE UNCHANGED adviceVars
    BY <2>1, <2>3 DEF adviceVars
  <2>4. CASE PolicyStep
    <3>1. PICK t \in Tenants \cup {Nobody}, x \in Advisors \cup {Nobody}, o \in Outputs : Evaluate(t, x, o)
      BY <2>4 DEF PolicyStep
    <3> SUFFICES ASSUME decision'.accepted PROVE AcceptedIsCanonical'
      BY DEF AcceptedIsCanonical
    <3> DEFINE out == Normalized(t, x, o)
    <3>2. Accepts(t, x, o) /\ decision'.given = o /\ decision'.output = out
      BY <3>1 DEF Evaluate
    <3>3. o.actions \in Seq(Items) /\ o.annotations \in Seq(Items)
      BY OutputsAssumption
    <3>4. /\ out.tenant = t /\ out.actions = Normalize(o.actions) /\ out.annotations = Normalize(o.annotations)
      BY DEF Normalized
    <3>5. t \in Tenants
      BY <3>2 DEF Accepts
    <3>6. /\ ToSet(out.actions) = ToSet(Cleaned(o.actions)) /\ Increasing(out.actions)
          /\ ToSet(out.annotations) = ToSet(Cleaned(o.annotations)) /\ Increasing(out.annotations)
      BY <3>3, <3>4, NormalForm
    <3>7. Accepts(out.tenant, out.extension, out)
      BY <3>2, AcceptedAgain
    <3>8. Normalize(out.actions) = out.actions /\ Normalize(out.annotations) = out.annotations
      BY <3>3, <3>4, NormalizedAgain
    <3>9. ASSUME NEW i \in DOMAIN out.actions PROVE out.actions[i].name \in AllowedActions
      <4>1. out.actions \in Seq(CleanItems)
        BY <3>3, <3>4, NormalForm
      <4> HIDE DEF out
      <4>2. out.actions[i] \in CleanItems
        BY <4>1, LenProperties, ElementOfSeq
      <4>3. Clean[out.actions[i].name] = out.actions[i].name
        BY <4>2, OrderAssumption DEF CleanItems
      <4> QED BY <3>7, <4>3 DEF Accepts
    <3> HIDE DEF out
    <3>10. \A items \in {out.actions, out.annotations} :
             \A i, h \in DOMAIN items : i < h => Before(items[i], items[h])
      BY <3>6, Zenon DEF Increasing
    <3> DEFINE again == [i \in {"actions", "annotations"} |-> Normalize(out[i])]
    <3>11. again["actions"] = out.actions /\ again["annotations"] = out.annotations
      BY <3>8
    <3> HIDE DEF again
    <3> QED BY <3>2, <3>4, <3>5, <3>6, <3>7, <3>9, <3>10, <3>11, Zenon DEF AcceptedIsCanonical, again
  <2> QED BY <2>2, <2>3, <2>4
<1> QED BY <1>1, <1>2, PTL DEF AdviceSpec
=============================================================================

------------------------------- MODULE Archive -------------------------------
(***************************************************************************)
(* events/archive.Archive: an append-only file of events, one per line,     *)
(* rotated into numbered siblings when it is full or old.  Append and Close *)
(* hold a.mu to their end; Replay gives it up before it reads the file.     *)
(*                                                                         *)
(* An event is the number of its line: the how-manieth line ever written.   *)
(***************************************************************************)
EXTENDS Naturals, Sequences, FiniteSets

CONSTANTS
  MaxFiles,      \* RetentionPolicy.MaxFiles; 0 disables the rotation
  MaxLines,      \* RetentionPolicy.MaxBytes, in lines
  Missing,       \* a file that does not exist
  Garbage,       \* a line that json.Unmarshal rejects
  FailureKinds,  \* "rename" (of any file operation of a rotation), "sync", "torn", "crash", "age"
  MaxFailures,   \* bound: how many of them
  MaxEvents      \* bound: lines written

ASSUME ArchiveAssumption ==
  /\ MaxFiles = 0 \/ (MaxFiles \in Nat /\ MaxFiles >= 2)     \* RetentionPolicy.Validate
  /\ MaxLines \in Nat \ {0}
  /\ FailureKinds \subseteq {"rename", "sync", "torn", "crash", "age"}
  /\ MaxFailures \in Nat /\ MaxEvents \in Nat
  /\ Garbage \notin Nat
  /\ Missing \notin [lines : Seq(Nat \cup {Garbage}), torn : BOOLEAN, old : BOOLEAN]

VARIABLES
  files,         \* 0: the file at path; n: path.n
  archive,       \* what the process does: see Steps
  caller,        \* who moves or prunes the files: see Callers
  place,         \* the sibling it is at
  handle,        \* a.file is open
  lines,         \* lines written so far
  turn,          \* rotations begun so far
  born,          \* [lines -> the rotations before it]
  acknowledged,  \* the events whose Append has returned nil
  aged,          \* the events that were in a file removed for its age
  replay,        \* a Replay: what was acknowledged when it began, or its result
  failures

archiveVars ==
  <<files, archive, caller, place, handle, lines, turn, born, acknowledged, aged, replay, failures>>

(* "down", "closed"; "idle"; and the steps of Open and of an Append. *)
Steps == {"down", "closed", "idle", "shift", "reopen", "prune", "write", "sync"}

(* An Append; Open; Open when it has to rotate a stale file. *)
Callers == {"append", "open", "stale"}

Siblings == 0 .. MaxFiles
NewFile == [lines |-> <<>>, torn |-> FALSE, old |-> FALSE]
NoReplay == [on |-> FALSE, acked |-> {}, turn |-> 0, result |-> {}]

ArchiveInit ==
  /\ files = [i \in Siblings |-> Missing]
  /\ archive = "down" /\ caller = "open" /\ place = 0 /\ handle = FALSE
  /\ lines = 0 /\ turn = 0 /\ born = <<>>
  /\ acknowledged = {} /\ aged = {}
  /\ replay = NoReplay /\ failures = 0

Failure(kind) ==
  /\ kind \in FailureKinds /\ failures < MaxFailures
  /\ failures' = failures + 1

Exists(i) == files[i] # Missing
EventsIn(f) == IF f = Missing THEN {} ELSE {f.lines[i] : i \in DOMAIN f.lines} \ {Garbage}

Without(fs, i) == [fs EXCEPT ![i] = Missing]
Moved(fs, i) == [fs EXCEPT ![i + 1] = fs[i], ![i] = Missing]
Created(fs) == IF fs[0] = Missing THEN [fs EXCEPT ![0] = NewFile] ELSE fs

-----------------------------------------------------------------------------
(* rotatePath begins with the last sibling. *)
BeginRotation(c) ==
  /\ archive' = "shift" /\ caller' = c /\ place' = MaxFiles - 1
  /\ turn' = turn + 1 /\ handle' = FALSE

(* Open: rotateStale moves a file that is old and not empty out of the way. *)
Open ==
  /\ archive = "down"
  /\ IF MaxFiles > 0 /\ Exists(0) /\ files[0].old /\ files[0].lines # <<>>
     THEN BeginRotation("stale")
     ELSE archive' = "reopen" /\ caller' = "open" /\ UNCHANGED <<place, turn, handle>>
  /\ UNCHANGED <<files, lines, born, acknowledged, aged, replay, failures>>

(* rotateIfNeeded: the file would exceed MaxBytes, or is old and not empty. *)
MustRotate ==
  /\ MaxFiles > 0
  /\ \/ Len(files[0].lines) >= MaxLines
     \/ files[0].old /\ files[0].lines # <<>>

(* Append takes a.mu.  A handle that a failed rotation has closed fails here:  *)
(* the Append returns an error and nothing changes.                          *)
StartAppend ==
  /\ archive = "idle" /\ handle /\ lines < MaxEvents
  /\ IF MustRotate THEN BeginRotation("append")
                   ELSE archive' = "write" /\ UNCHANGED <<caller, place, turn, handle>>
  /\ UNCHANGED <<files, lines, born, acknowledged, aged, replay, failures>>

(* rotatePath, from the last sibling to the file at path: the last one is      *)
(* removed, every other one that there is becomes the next one.              *)
Shift ==
  /\ archive = "shift"
  /\ files' = IF place = MaxFiles - 1 THEN Without(files, place)
              ELSE IF Exists(place) THEN Moved(files, place) ELSE files
  /\ IF place = 0 THEN archive' = "reopen" /\ UNCHANGED place
                  ELSE place' = place - 1 /\ UNCHANGED archive
  /\ UNCHANGED <<caller, handle, lines, turn, born, acknowledged, aged, replay, failures>>

(* os.OpenFile with O_CREATE. *)
Reopen ==
  /\ archive = "reopen"
  /\ files' = Created(files) /\ handle' = TRUE
  /\ IF MaxFiles > 0 THEN archive' = "prune" /\ place' = MaxFiles
                     ELSE archive' = "idle" /\ UNCHANGED place
  /\ UNCHANGED <<caller, lines, turn, born, acknowledged, aged, replay, failures>>

Pruned == archive' = (IF caller = "append" THEN "write" ELSE "idle") /\ UNCHANGED place

(* Mutant: the first sibling goes as well. *)
PruneAll ==
  /\ archive = "prune"
  /\ files' = Without(files, place)
  /\ IF place > 1 THEN place' = place - 1 /\ UNCHANGED archive ELSE Pruned
  /\ UNCHANGED <<caller, handle, lines, turn, born, acknowledged, aged, replay, failures>>

(* pruneRotated removes every sibling from the last to the second, and then    *)
(* the first one if it is old, unless it has been rotated just now.          *)
Prune ==
  LET tooOld == place = 1 /\ caller = "open" /\ Exists(1) /\ files[1].old
  IN /\ archive = "prune"
     /\ files' = IF place > 1 \/ tooOld THEN Without(files, place) ELSE files
     /\ aged' = IF tooOld THEN aged \cup EventsIn(files[1]) ELSE aged
     /\ IF place > 1 THEN place' = place - 1 /\ UNCHANGED archive ELSE Pruned
     /\ UNCHANGED <<caller, handle, lines, turn, born, acknowledged, replay, failures>>

(* Moving, removing or opening a file fails; of a file that is opened only the *)
(* mode may fail, when it is there.  An Append returns the error, with a.file *)
(* closed unless it was pruning; without an archive the process ends.        *)
RotateFails ==
  /\ archive \in {"shift", "reopen", "prune"} /\ Failure("rename")
  /\ files' \in IF archive = "reopen" THEN {files, Created(files)} ELSE {files}
  /\ archive' = IF caller = "append" THEN "idle" ELSE "down"
  /\ handle' = (handle /\ caller = "append")
  /\ UNCHANGED <<caller, place, lines, turn, born, acknowledged, aged, replay>>

(* What the file is with one line more: a line without its end swallows it. *)
WithLine(f, e) ==
  [lines |-> IF f.torn THEN [f.lines EXCEPT ![Len(f.lines)] = Garbage] ELSE Append(f.lines, e),
   torn |-> FALSE, old |-> FALSE]

(* Write: the whole line, or a part of it, for which Append returns an error. *)
WriteLine ==
  /\ archive = "write"
  /\ lines' = lines + 1
  /\ born' = Append(born, turn)
  /\ \/ /\ files' = [files EXCEPT ![0] = WithLine(@, lines + 1)]
        /\ archive' = "sync" /\ UNCHANGED failures
     \/ /\ Failure("torn")
        /\ files' = [files EXCEPT ![0] = [WithLine(@, Garbage) EXCEPT !.torn = TRUE]]
        /\ archive' = "idle"
  /\ UNCHANGED <<caller, place, handle, turn, acknowledged, aged, replay>>

(* Sync; Append returns nil, or the error of the flush. *)
Sync ==
  /\ archive = "sync" /\ archive' = "idle"
  /\ \/ acknowledged' = acknowledged \cup {lines} /\ UNCHANGED failures
     \/ Failure("sync") /\ UNCHANGED acknowledged
  /\ UNCHANGED <<files, caller, place, handle, lines, turn, born, aged, replay>>

(* Close: every later Append and Replay is refused. *)
CloseArchive ==
  /\ archive = "idle" /\ archive' = "closed" /\ handle' = FALSE
  /\ UNCHANGED <<files, caller, place, lines, turn, born, acknowledged, aged, replay, failures>>

(* The process ends, at any point; a new one opens the archive again. *)
CrashArchive ==
  /\ archive # "down"
  /\ IF archive = "closed" THEN UNCHANGED failures ELSE Failure("crash")
  /\ archive' = "down" /\ handle' = FALSE /\ replay' = NoReplay
  /\ UNCHANGED <<files, caller, place, lines, turn, born, acknowledged, aged>>

(* MaxAge passes for a file. *)
Age(i) ==
  /\ MaxFiles > 0 /\ Exists(i) /\ ~files[i].old /\ Failure("age")
  /\ files' = [files EXCEPT ![i].old = TRUE]
  /\ UNCHANGED <<archive, caller, place, handle, lines, turn, born, acknowledged, aged, replay>>

(* Replay takes a.mu for reading, and reads the file when it has given it up.  *)
ReplayBegins ==
  /\ archive = "idle" /\ ~replay.on
  /\ replay' = [on |-> TRUE, acked |-> acknowledged, turn |-> turn, result |-> {}]
  /\ UNCHANGED <<files, archive, caller, place, handle, lines, turn, born, acknowledged, aged, failures>>

(* Mutant: the last line is only read when another one follows it. *)
ReadableButLast(f) == {f.lines[i] : i \in 1 .. Len(f.lines) - 1} \ {Garbage}

(* Every line is decoded: one that cannot be fails the replay. *)
Readable(f) == EventsIn(f)

Decodes(f) == ~f.torn /\ \A i \in DOMAIN f.lines : f.lines[i] # Garbage

ReplayReads ==
  /\ replay.on
  /\ replay' = IF Exists(0) /\ Decodes(files[0])
               THEN [on |-> FALSE, acked |-> {e \in replay.acked : born[e] = turn},
                     turn |-> turn, result |-> Readable(files[0])]
               ELSE NoReplay
  /\ UNCHANGED <<files, archive, caller, place, handle, lines, turn, born, acknowledged, aged, failures>>

ArchiveStep ==
  \/ Open \/ StartAppend \/ Shift \/ Reopen \/ Prune \/ RotateFails \/ WriteLine \/ Sync
  \/ CloseArchive \/ CrashArchive \/ ReplayBegins \/ ReplayReads
  \/ \E i \in Siblings : Age(i)

-----------------------------------------------------------------------------
Kept == UNION {EventsIn(files[i]) : i \in Siblings}

(* archive.go:180: Append is durable.  An acknowledged event is in the files   *)
(* until two rotations have begun since, or its file was too old.            *)
AcknowledgedIsKept ==
  \A e \in acknowledged \ aged : e \in Kept \/ born[e] + 1 < turn

(* A Replay that succeeds has every event acknowledged before it began that    *)
(* no rotation has moved since.                                              *)
ReplayHasAcknowledged == replay.acked \subseteq replay.result \/ replay.on
=============================================================================

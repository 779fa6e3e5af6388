----------------------- MODULE RunnerPlatform_proofs -----------------------
(***************************************************************************)
(* Type correctness of RunnerPlatform, and that a job's outcome is final,  *)
(* for any number of jobs, runners, requests, faults and crashes.          *)
(***************************************************************************)
EXTENDS RunnerPlatform, TLAPS

-----------------------------------------------------------------------------
(* Writes to the shared state, one lemma per table. *)

(* SaveJob stores a job record: the copy in a job state, one revision on. *)
LEMMA AdvancedJob ==
  ASSUME NEW record \in JobRecords, NEW st \in JobStates \cup {"none"}
  PROVE  Advanced(record, st) \in JobRecords
<1> DEFINE n == record.rev + 1
<1>1. n \in Nat
  BY DEF JobRecords
<1> HIDE DEF n
<1>2. [record EXCEPT !.st = st, !.rev = n] \in JobRecords
  BY <1>1 DEF JobRecords
<1> QED BY <1>2 DEF Advanced, n

(* SaveRunner stores a runner record. *)
LEMMA AdvancedRunner ==
  ASSUME NEW record \in RunnerRecords, NEW st \in RunnerStates \cup {"none"}
  PROVE  Advanced(record, st) \in RunnerRecords
<1> DEFINE n == record.rev + 1
<1>1. n \in Nat
  BY DEF RunnerRecords
<1> HIDE DEF n
<1>2. [record EXCEPT !.st = st, !.rev = n] \in RunnerRecords
  BY <1>1 DEF RunnerRecords
<1> QED BY <1>2 DEF Advanced, n

(* SaveLease of a recorded lease stores a lease that still names its runner. *)
LEMMA AdvancedLease ==
  ASSUME NEW record \in LeaseRecords, NEW st \in LeaseStates \cup {"none"}, ~Absent(record)
  PROVE  Advanced(record, st) \in LeaseRecords
<1> DEFINE n == record.rev + 1
<1>1. n \in Nat
  BY DEF LeaseRecords
<1> HIDE DEF n
<1>2. [record EXCEPT !.st = st, !.rev = n] \in LeaseRecords
  BY <1>1 DEF LeaseRecords, Absent
<1> QED BY <1>2 DEF Advanced, n

(* A step that only reads the repository and the provider keeps their types. *)
LEMMA SharedKept ==
  ASSUME StateTypeOK, UNCHANGED shared
  PROVE  StateTypeOK'
  BY DEF StateTypeOK, shared, Absent

(* So does a call that fails without having had an effect. *)
LEMMA FaultKept ==
  ASSUME StateTypeOK, NEW kind, Fault(kind) \/ UNCHANGED faults,
         UNCHANGED <<store, instances, used, expired>>
  PROVE  StateTypeOK'
  BY ConstantsAssumption DEF StateTypeOK, store, Fault, Absent

(* A step that writes only the jobs table (CreateJob, SaveJob). *)
LEMMA JobsWritten ==
  ASSUME StateTypeOK, jobs' \in [Jobs -> JobRecords],
         UNCHANGED <<runners, leases, markers, registration, instances, used, expired, faults>>
  PROVE  StateTypeOK'
  BY DEF StateTypeOK, Absent

(* A step that writes only the runners table (CreateRunner, SaveRunner). *)
LEMMA RunnersWritten ==
  ASSUME StateTypeOK, runners' \in [Runners -> RunnerRecords],
         UNCHANGED <<jobs, leases, markers, registration, instances, used, expired, faults>>
  PROVE  StateTypeOK'
  BY DEF StateTypeOK, Absent

(* A step that writes only a lease (CreateLease, SaveLease). *)
LEMMA LeaseWritten ==
  ASSUME StateTypeOK, NEW j \in Jobs, NEW lease \in LeaseRecords,
         leases' = [leases EXCEPT ![j] = lease],
         UNCHANGED <<jobs, runners, markers, registration, instances, used, expired, faults>>
  PROVE  StateTypeOK'
  BY DEF StateTypeOK

(* A step that changes only instances (the Provider interface). *)
LEMMA InstancesWritten ==
  ASSUME StateTypeOK, instances' \in [Runners -> InstanceRecords],
         UNCHANGED <<store, used, expired, faults>>
  PROVE  StateTypeOK'
  BY DEF StateTypeOK, store, Absent

(* Provider.Terminate leaves every instance in a state the provider reports. *)
LEMMA InstanceTerminated ==
  ASSUME StateTypeOK, NEW r, TerminateInstance(r)
  PROVE  instances' \in [Runners -> InstanceRecords]
<1>1. CASE r \in Runners
  BY <1>1 DEF StateTypeOK, TerminateInstance, InstanceRecords, InstanceStates
<1>2. CASE r \notin Runners
  BY <1>2 DEF StateTypeOK, TerminateInstance
<1> QED BY <1>1, <1>2

(* A step that changes only the pool's counter (Registry.Reserve, Release). *)
LEMMA UsedWritten ==
  ASSUME StateTypeOK, used' \in Nat, UNCHANGED <<store, instances, expired, faults>>
  PROVE  StateTypeOK'
  BY DEF StateTypeOK, store, Absent

(* Registry.Release never takes the pool's counter below zero. *)
LEMMA PoolReleased ==
  ASSUME StateTypeOK, ReleasePool
  PROVE  used' \in Nat
  BY DEF StateTypeOK, ReleasePool

-----------------------------------------------------------------------------
(* Steps of one request, by what they do to its record. *)

(* A step that gives one request a typed record, with the delivery and the   *)
(* runner its program counter needs.                                         *)
LEMMA RequestWritten ==
  ASSUME HandlerTypeOK, NEW h \in Handlers, NEW q \in Requests,
         q.pc # "idle" => q.dlv \in Deliveries,
         q.pc \in RunnerPCs => q.r \in Runners,
         handler' = [handler EXCEPT ![h] = q],
         UNCHANGED <<reply, aborts>>, receipts' \in 0 .. MaxReceipts
  PROVE  HandlerTypeOK'
<1>1. handler' \in [Handlers -> Requests]
  BY DEF HandlerTypeOK
<1>2. \A i \in Handlers : handler'[i] = IF i = h THEN q ELSE handler[i]
  BY DEF HandlerTypeOK
<1> QED BY <1>1, <1>2 DEF HandlerTypeOK

(* A request goes on to its next call. *)
LEMMA GotoTyped ==
  ASSUME HandlerTypeOK, NEW h \in Handlers, NEW pc \in PCs, handler[h].pc # "idle",
         pc \in RunnerPCs => handler[h].r \in Runners,
         Goto(h, pc), UNCHANGED <<receipts, reply, aborts>>
  PROVE  HandlerTypeOK'
  BY DEF HandlerTypeOK, Requests, Goto

(* A request is answered and its goroutine ends. *)
LEMMA ReturnTyped ==
  ASSUME HandlerTypeOK, NEW h \in Handlers, NEW answer \in Replies,
         Return(h, answer), UNCHANGED <<receipts, aborts>>
  PROVE  HandlerTypeOK'
  BY DEF HandlerTypeOK, Requests, Return, Idle, PCs, NoJob, JobRecords,
         RunnerPCs, Assigning, Cleanup

(* A request takes a copy of a job (GetJob, Transition). *)
LEMMA CopyJobTyped ==
  ASSUME HandlerTypeOK, NEW h \in Handlers, NEW pc \in PCs \ RunnerPCs, NEW job \in JobRecords,
         handler[h].pc # "idle",
         handler' = [handler EXCEPT ![h].pc = pc, ![h].job = job],
         UNCHANGED <<receipts, reply, aborts>>
  PROVE  HandlerTypeOK'
<1> DEFINE q == [handler[h] EXCEPT !.pc = pc, !.job = job]
<1>1. /\ q \in Requests /\ q.pc = pc /\ q.dlv = handler[h].dlv
  BY DEF HandlerTypeOK, Requests
<1>2. handler' = [handler EXCEPT ![h] = q]
  BY DEF HandlerTypeOK, Requests
<1> HIDE DEF q
<1>3. handler[h].dlv \in Deliveries /\ receipts' \in 0 .. MaxReceipts
  BY DEF HandlerTypeOK
<1> QED BY <1>1, <1>2, <1>3, RequestWritten

(* A request takes or advances a runner's revision (GetRunner, SaveRunner). *)
LEMMA CopyRunnerTyped ==
  ASSUME HandlerTypeOK, NEW h \in Handlers, NEW pc \in PCs, NEW rrev \in Nat,
         handler[h].pc # "idle", handler[h].r \in Runners,
         handler' = [handler EXCEPT ![h].pc = pc, ![h].rrev = rrev],
         UNCHANGED <<receipts, reply, aborts>>
  PROVE  HandlerTypeOK'
<1> DEFINE q == [handler[h] EXCEPT !.pc = pc, !.rrev = rrev]
<1>1. q \in Requests /\ q.pc = pc /\ q.dlv = handler[h].dlv /\ q.r = handler[h].r
  BY DEF HandlerTypeOK, Requests
<1>2. handler' = [handler EXCEPT ![h] = q]
  BY DEF HandlerTypeOK, Requests
<1> HIDE DEF q
<1>3. handler[h].dlv \in Deliveries /\ receipts' \in 0 .. MaxReceipts
  BY DEF HandlerTypeOK
<1> QED BY <1>1, <1>2, <1>3, RequestWritten

(* A request learns its runner from Provision. *)
LEMMA RunnerTakenTyped ==
  ASSUME HandlerTypeOK, NEW h \in Handlers, NEW pc \in PCs, NEW r \in Runners,
         handler[h].pc # "idle",
         handler' = [handler EXCEPT ![h].pc = pc, ![h].r = r],
         UNCHANGED <<receipts, reply, aborts>>
  PROVE  HandlerTypeOK'
<1> DEFINE q == [handler[h] EXCEPT !.pc = pc, !.r = r]
<1>1. q \in Requests /\ q.pc = pc /\ q.dlv = handler[h].dlv /\ q.r = r
  BY DEF HandlerTypeOK, Requests
<1>2. handler' = [handler EXCEPT ![h] = q]
  BY DEF HandlerTypeOK, Requests
<1> HIDE DEF q
<1>3. handler[h].dlv \in Deliveries /\ receipts' \in 0 .. MaxReceipts
  BY DEF HandlerTypeOK
<1> QED BY <1>1, <1>2, <1>3, RequestWritten

(* A request learns its runner and the revision of its lease from GetLease. *)
LEMMA LeaseTakenTyped ==
  ASSUME HandlerTypeOK, NEW h \in Handlers, NEW pc \in PCs, NEW r \in Runners, NEW lrev \in Nat,
         handler[h].pc # "idle",
         handler' = [handler EXCEPT ![h].pc = pc, ![h].r = r, ![h].lrev = lrev],
         UNCHANGED <<receipts, reply, aborts>>
  PROVE  HandlerTypeOK'
<1> DEFINE q == [handler[h] EXCEPT !.pc = pc, !.r = r, !.lrev = lrev]
<1>1. q \in Requests /\ q.pc = pc /\ q.dlv = handler[h].dlv /\ q.r = r
  BY DEF HandlerTypeOK, Requests
<1>2. handler' = [handler EXCEPT ![h] = q]
  BY DEF HandlerTypeOK, Requests
<1> HIDE DEF q
<1>3. handler[h].dlv \in Deliveries /\ receipts' \in 0 .. MaxReceipts
  BY DEF HandlerTypeOK
<1> QED BY <1>1, <1>2, <1>3, RequestWritten

-----------------------------------------------------------------------------
(* The operators several actions share. *)

(* GetJob of the three actions. *)
LEMMA ReadJobTyped ==
  ASSUME StateTypeOK, HandlerTypeOK, NEW h \in Handlers, NEW pc, NEW next \in PCs \ RunnerPCs,
         pc # "idle", ReadJob(h, pc, next)
  PROVE  StateTypeOK' /\ HandlerTypeOK'
<1>1. handler[h].pc # "idle" /\ jobs[JobFor(h)] \in JobRecords
  BY ConstantsAssumption DEF ReadJob, InContext, At, JobFor, HandlerTypeOK, StateTypeOK
<1>2. CASE Absent(jobs[JobFor(h)])
  <2>1. Goto(h, "undo")
    BY <1>2 DEF ReadJob, Goto
  <2> QED BY <1>1, <2>1, GotoTyped, SharedKept
       DEF ReadJob, shared, PCs, Ending, RunnerPCs, Assigning, Cleanup
<1>3. CASE ~Absent(jobs[JobFor(h)])
  BY <1>1, <1>3, CopyJobTyped, SharedKept DEF ReadJob, shared
<1> QED BY <1>2, <1>3

(* GetRunner in Assign, in its cleanup and in finish. *)
LEMMA ReadRunnerTyped ==
  ASSUME StateTypeOK, HandlerTypeOK, NEW h \in Handlers, NEW pc \in RunnerPCs, NEW next \in PCs,
         ReadRunner(h, pc, next)
  PROVE  StateTypeOK' /\ HandlerTypeOK'
<1>1. handler[h].pc # "idle" /\ handler[h].r \in Runners
  BY DEF ReadRunner, At, HandlerTypeOK, RunnerPCs, Assigning, Cleanup
<1>2. runners[handler[h].r].rev \in Nat
  BY <1>1 DEF StateTypeOK, RunnerRecords
<1> QED BY <1>1, <1>2, CopyRunnerTyped, SharedKept DEF ReadRunner, shared

(* SaveRunner in Assign, in its cleanup and in finish. *)
LEMMA WriteRunnerTyped ==
  ASSUME StateTypeOK, HandlerTypeOK, NEW h \in Handlers, NEW st \in RunnerStates,
         NEW next \in PCs, NEW conflict \in PCs, handler[h].pc \in RunnerPCs,
         WriteRunner(h, st, next, conflict),
         UNCHANGED <<jobs, leases, markers, registration, instances, used, expired, faults,
                     receipts, reply, aborts>>
  PROVE  StateTypeOK' /\ HandlerTypeOK'
<1>1. handler[h].pc # "idle" /\ handler[h].r \in Runners /\ handler[h].rrev + 1 \in Nat
  BY DEF HandlerTypeOK, RunnerPCs, Assigning, Cleanup, Requests
<1>2. Advanced(runners[handler[h].r], st) \in RunnerRecords
  BY <1>1, AdvancedRunner DEF StateTypeOK
<1>3. CASE CanSave(runners, handler[h].r, handler[h].rrev)
  <2>1. runners' = [runners EXCEPT ![handler[h].r] = Advanced(runners[handler[h].r], st)]
    BY <1>1, <1>3 DEF WriteRunner
  <2>2. runners' \in [Runners -> RunnerRecords]
    BY <1>2, <2>1 DEF StateTypeOK
  <2>3. handler' = [handler EXCEPT ![h].pc = next, ![h].rrev = handler[h].rrev + 1]
    BY <1>1, <1>3 DEF WriteRunner, HandlerTypeOK
  <2> QED BY <1>1, <2>2, <2>3, RunnersWritten, CopyRunnerTyped
<1>4. CASE ~CanSave(runners, handler[h].r, handler[h].rrev)
  BY <1>1, <1>4, GotoTyped, SharedKept DEF WriteRunner, shared
<1> QED BY <1>3, <1>4

(* Manager.Transition. *)
LEMMA TransitionTyped ==
  ASSUME StateTypeOK, HandlerTypeOK, NEW h \in Handlers, NEW to \in JobStates,
         NEW next \in PCs \ RunnerPCs, handler[h].pc # "idle",
         Transition(h, to, next),
         UNCHANGED <<runners, leases, markers, registration, instances, used, expired, faults,
                     receipts, reply, aborts>>
  PROVE  StateTypeOK' /\ HandlerTypeOK'
<1> DEFINE can == ValidTransition(handler[h].job.st, to)
                  /\ CanSave(jobs, JobFor(h), handler[h].job.rev)
<1>1. JobFor(h) \in Jobs /\ Advanced(handler[h].job, to) \in JobRecords
  BY ConstantsAssumption, AdvancedJob DEF JobFor, HandlerTypeOK, Requests
<1>2. CASE can
  <2>1. jobs' \in [Jobs -> JobRecords]
    BY <1>1, <1>2 DEF Transition, StateTypeOK
  <2> QED BY <1>1, <1>2, <2>1, JobsWritten, CopyJobTyped DEF Transition
<1>3. CASE ~can
  BY <1>3, GotoTyped, SharedKept
     DEF Transition, shared, PCs, Ending, RunnerPCs, Assigning, Cleanup
<1> QED BY <1>2, <1>3

-----------------------------------------------------------------------------
(* A step of a request preserves the types. *)

(* A request works on the job of its delivery. *)
LEMMA WorksOnJob ==
  ASSUME HandlerTypeOK, NEW h \in Handlers, handler[h].pc # "idle"
  PROVE  JobFor(h) \in Jobs
  BY ConstantsAssumption DEF JobFor, HandlerTypeOK

(* Every call of HandleWorkflowJob, Assign, Schedule and finish, and every   *)
(* failure of one, preserves the types.                                      *)
LEMMA HandlerStepTyped ==
  ASSUME StateTypeOK, HandlerTypeOK, NEW h \in Handlers, HandlerStep(h)
  PROVE  StateTypeOK' /\ HandlerTypeOK'
<1> DEFINE job == handler[h].job
           r == handler[h].r
<1>1. CASE InsertNew(h)
  <2>1. handler[h].pc # "idle" /\ (handler[h].pc \in RunnerPCs => r \in Runners)
    BY <1>1 DEF InsertNew, InContext, At, HandlerTypeOK
  <2>2. StateTypeOK'
    BY <1>1, <2>1 DEF InsertNew, InContext, At, StateTypeOK, HandlerTypeOK, Requests, Absent
  <2>3. HandlerTypeOK'
    BY <1>1, <2>1, GotoTyped, ReturnTyped DEF InsertNew, InContext, At, FirstCall, Replies,
       PCs, Intake, Running, Finishing, Ending, RunnerPCs, Assigning, Cleanup
  <2> QED BY <2>2, <2>3
<1>2. CASE InsertDuplicate(h)
  <2>1. handler[h].pc # "idle" /\ (handler[h].pc \in RunnerPCs => r \in Runners)
    BY <1>2 DEF InsertDuplicate, InContext, At, HandlerTypeOK
  <2>2. StateTypeOK'
    BY <1>2, <2>1, SharedKept DEF InsertDuplicate
  <2>3. HandlerTypeOK'
    BY <1>2, <2>1, GotoTyped, ReturnTyped DEF InsertDuplicate, InContext, At, Replies,
       PCs, Intake, Running, Finishing, Ending, RunnerPCs, Assigning, Cleanup
  <2> QED BY <2>2, <2>3
<1>3. CASE CreateJob(h)
  <2>1. handler[h].pc # "idle" /\ JobFor(h) \in Jobs
    BY <1>3, WorksOnJob DEF CreateJob, InContext, At
  <2>2. jobs' \in [Jobs -> JobRecords]
    BY <1>3, <2>1 DEF CreateJob, StateTypeOK, JobRecords, JobStates
  <2>3. HandlerTypeOK'
    BY <1>3, <2>1, GotoTyped, ReturnTyped DEF CreateJob, Replies,
       PCs, Intake, Running, Finishing, Ending, RunnerPCs, Assigning, Cleanup
  <2> QED BY <1>3, <2>2, <2>3, JobsWritten DEF CreateJob
<1>4. CASE GetJob(h)
  BY <1>4, ReadJobTyped
     DEF GetJob, PCs, Intake, Running, Finishing, Ending, RunnerPCs, Assigning, Cleanup
<1>5. CASE GetRunning(h)
  BY <1>5, ReadJobTyped
     DEF GetRunning, PCs, Intake, Running, Finishing, Ending, RunnerPCs, Assigning, Cleanup
<1>6. CASE GetFinal(h)
  BY <1>6, ReadJobTyped
     DEF GetFinal, PCs, Intake, Running, Finishing, Ending, RunnerPCs, Assigning, Cleanup
<1>7. CASE ToProvisioning(h)
  BY <1>7, TransitionTyped DEF ToProvisioning, InContext, At, JobStates,
     PCs, Intake, Running, Finishing, Ending, RunnerPCs, Assigning, Cleanup
<1>8. CASE Reserve(h)
  <2>1. handler[h].pc # "idle" /\ (handler[h].pc \in RunnerPCs => r \in Runners)
    BY <1>8 DEF Reserve, InContext, At, HandlerTypeOK
  <2>2. StateTypeOK'
    BY <1>8, <2>1, UsedWritten DEF Reserve, StateTypeOK
  <2>3. HandlerTypeOK'
    BY <1>8, <2>1, GotoTyped, ReturnTyped DEF Reserve, At, Replies,
       PCs, Intake, Running, Finishing, Ending, RunnerPCs, Assigning, Cleanup
  <2> QED BY <2>2, <2>3
<1>9. CASE \E x \in Runners : Provision(h, x)
  <2> PICK x \in Runners : Provision(h, x)
    BY <1>9
  <2>1. handler[h].pc # "idle" /\ JobFor(h) \in Jobs
    BY WorksOnJob DEF Provision, InContext, At
  <2>2. instances' \in [Runners -> InstanceRecords]
    BY <2>1 DEF Provision, StateTypeOK, InstanceRecords, InstanceStates
  <2>3. HandlerTypeOK'
    BY <2>1, RunnerTakenTyped
       DEF Provision, PCs, Intake, Running, Finishing, Ending, RunnerPCs, Assigning, Cleanup
  <2> QED BY <2>2, <2>3, InstancesWritten DEF Provision
<1>10. CASE WaitReady(h)
  <2>1. handler[h].pc # "idle" /\ r \in Runners
    BY <1>10 DEF WaitReady, InContext, At, HandlerTypeOK, RunnerPCs, Assigning
  <2>2. instances' \in [Runners -> InstanceRecords]
    BY <1>10, <2>1 DEF WaitReady, StateTypeOK, InstanceRecords, InstanceStates
  <2>3. HandlerTypeOK'
    BY <1>10, <2>1, GotoTyped
       DEF WaitReady, PCs, Intake, Running, Finishing, Ending, RunnerPCs, Assigning, Cleanup
  <2> QED BY <1>10, <2>2, <2>3, InstancesWritten DEF WaitReady
<1>11. CASE CreateRunner(h)
  <2>1. handler[h].pc # "idle" /\ r \in Runners /\ JobFor(h) \in Jobs
    BY <1>11, WorksOnJob DEF CreateRunner, InContext, At, HandlerTypeOK, RunnerPCs, Assigning
  <2>2. runners' \in [Runners -> RunnerRecords]
    BY <1>11, <2>1 DEF CreateRunner, StateTypeOK, RunnerRecords, RunnerStates
  <2>3. HandlerTypeOK'
    <3> DEFINE pc == IF JIT THEN "getRunner" ELSE "createLease"
               q == [handler[h] EXCEPT !.pc = pc, !.saved = TRUE]
    <3>0. pc \in PCs
      BY DEF PCs, Intake, Running, Finishing, Ending, RunnerPCs, Assigning, Cleanup
    <3>2. handler' = [handler EXCEPT ![h] = q]
      BY <1>11 DEF CreateRunner, HandlerTypeOK, Requests
    <3> HIDE DEF pc
    <3>1. q \in Requests /\ q.dlv = handler[h].dlv /\ q.r = r
      BY <3>0 DEF HandlerTypeOK, Requests
    <3>3. handler[h].dlv \in Deliveries /\ receipts' \in 0 .. MaxReceipts
      BY <1>11, <2>1 DEF CreateRunner, HandlerTypeOK
    <3> HIDE DEF q
    <3> QED BY <1>11, <2>1, <3>1, <3>2, <3>3, RequestWritten DEF CreateRunner
  <2> QED BY <1>11, <2>2, <2>3, RunnersWritten DEF CreateRunner
<1>12. CASE GetRunner(h)
  BY <1>12, ReadRunnerTyped
     DEF GetRunner, PCs, Intake, Running, Finishing, Ending, RunnerPCs, Assigning, Cleanup
<1>13. CASE CleanupGet(h)
  BY <1>13, ReadRunnerTyped
     DEF CleanupGet, PCs, Intake, Running, Finishing, Ending, RunnerPCs, Assigning, Cleanup
<1>14. CASE FinalRunner(h)
  BY <1>14, ReadRunnerTyped
     DEF FinalRunner, PCs, Intake, Running, Finishing, Ending, RunnerPCs, Assigning, Cleanup
<1>15. CASE RegisterPending(h)
  <2>1. handler[h].pc # "idle" /\ (handler[h].pc \in RunnerPCs => r \in Runners)
    BY <1>15 DEF RegisterPending, InContext, At, HandlerTypeOK
  <2>2. StateTypeOK'
    BY <1>15, <2>1 DEF RegisterPending, Register, StateTypeOK, RegistrationStates, Absent
  <2>3. HandlerTypeOK'
    BY <1>15, <2>1, GotoTyped, ReturnTyped DEF RegisterPending, Register, InContext, At, Replies,
       PCs, Intake, Running, Finishing, Ending, RunnerPCs, Assigning, Cleanup
  <2> QED BY <2>2, <2>3
<1>16. CASE RegisterFailed(h)
  <2>1. handler[h].pc # "idle" /\ (handler[h].pc \in RunnerPCs => r \in Runners)
    BY <1>16 DEF RegisterFailed, InContext, At, HandlerTypeOK
  <2>2. StateTypeOK'
    BY <1>16, <2>1 DEF RegisterFailed, Register, StateTypeOK, RegistrationStates, Absent
  <2>3. HandlerTypeOK'
    BY <1>16, <2>1, GotoTyped, ReturnTyped DEF RegisterFailed, Register, InContext, At, Replies,
       PCs, Intake, Running, Finishing, Ending, RunnerPCs, Assigning, Cleanup
  <2> QED BY <2>2, <2>3
<1>17. CASE RegisterReady(h)
  <2>1. handler[h].pc # "idle" /\ (handler[h].pc \in RunnerPCs => r \in Runners)
    BY <1>17 DEF RegisterReady, InContext, At, HandlerTypeOK
  <2>2. StateTypeOK'
    BY <1>17, <2>1 DEF RegisterReady, Register, StateTypeOK, RegistrationStates, Absent
  <2>3. HandlerTypeOK'
    BY <1>17, <2>1, GotoTyped, ReturnTyped DEF RegisterReady, Register, InContext, At, Replies,
       PCs, Intake, Running, Finishing, Ending, RunnerPCs, Assigning, Cleanup
  <2> QED BY <2>2, <2>3
<1>18. CASE RunnerOnline(h)
  <2>1. handler[h].pc # "idle" /\ (handler[h].pc \in RunnerPCs => r \in Runners)
    BY <1>18 DEF RunnerOnline, InContext, At, HandlerTypeOK
  <2>2. StateTypeOK'
    BY <1>18, <2>1, SharedKept DEF RunnerOnline
  <2>3. HandlerTypeOK'
    BY <1>18, <2>1, GotoTyped, ReturnTyped DEF RunnerOnline, InContext, At, Replies,
       PCs, Intake, Running, Finishing, Ending, RunnerPCs, Assigning, Cleanup
  <2> QED BY <2>2, <2>3
<1>19. CASE RegistrationTimesOut(h)
  <2>1. handler[h].pc # "idle" /\ (handler[h].pc \in RunnerPCs => r \in Runners)
    BY <1>19 DEF RegistrationTimesOut, InContext, At, HandlerTypeOK
  <2>2. StateTypeOK'
    BY <1>19, <2>1, SharedKept DEF RegistrationTimesOut
  <2>3. HandlerTypeOK'
    BY <1>19, <2>1, GotoTyped, ReturnTyped DEF RegistrationTimesOut, InContext, At, Replies,
       PCs, Intake, Running, Finishing, Ending, RunnerPCs, Assigning, Cleanup
  <2> QED BY <2>2, <2>3
<1>20. CASE SaveReady(h)
  BY <1>20, WriteRunnerTyped DEF SaveReady, InContext, At, RunnerStates,
     PCs, Intake, Running, Finishing, Ending, RunnerPCs, Assigning, Cleanup
<1>21. CASE CleanupMark(h)
  BY <1>21, WriteRunnerTyped DEF CleanupMark, InContext, At, RunnerStates,
     PCs, Intake, Running, Finishing, Ending, RunnerPCs, Assigning, Cleanup
<1>22. CASE CleanupTerminated(h)
  BY <1>22, WriteRunnerTyped DEF CleanupTerminated, InContext, At, RunnerStates,
     PCs, Intake, Running, Finishing, Ending, RunnerPCs, Assigning, Cleanup
<1>23. CASE SaveTerminated(h)
  BY <1>23, WriteRunnerTyped DEF SaveTerminated, InContext, At, RunnerStates,
     PCs, Intake, Running, Finishing, Ending, RunnerPCs, Assigning, Cleanup
<1>24. CASE CleanupTerminate(h)
  <2>1. handler[h].pc # "idle" /\ (handler[h].pc \in RunnerPCs => r \in Runners)
    BY <1>24 DEF CleanupTerminate, InContext, At, HandlerTypeOK
  <2>2. StateTypeOK'
    BY <1>24, <2>1, InstanceTerminated, InstancesWritten DEF CleanupTerminate
  <2>3. HandlerTypeOK'
    BY <1>24, <2>1, GotoTyped, ReturnTyped DEF CleanupTerminate, InContext, At, Replies,
       PCs, Intake, Running, Finishing, Ending, RunnerPCs, Assigning, Cleanup
  <2> QED BY <2>2, <2>3
<1>25. CASE TerminateRunner(h)
  <2>1. handler[h].pc # "idle" /\ (handler[h].pc \in RunnerPCs => r \in Runners)
    BY <1>25 DEF TerminateRunner, InContext, At, HandlerTypeOK
  <2>2. StateTypeOK'
    BY <1>25, <2>1, InstanceTerminated, InstancesWritten DEF TerminateRunner
  <2>3. HandlerTypeOK'
    BY <1>25, <2>1, GotoTyped, ReturnTyped DEF TerminateRunner, InContext, At, Replies,
       PCs, Intake, Running, Finishing, Ending, RunnerPCs, Assigning, Cleanup
  <2> QED BY <2>2, <2>3
<1>26. CASE DropRunner(h)
  <2>1. instances' \in [Runners -> InstanceRecords]
    BY <1>26, InstanceTerminated DEF DropRunner, StateTypeOK
  <2>2. HandlerTypeOK'
    BY <1>26, GotoTyped
       DEF DropRunner, At, PCs, Intake, Running, Finishing, Ending, RunnerPCs, Assigning,
           Cleanup
  <2> QED BY <1>26, <2>1, <2>2, InstancesWritten DEF DropRunner
<1>27. CASE ReleaseReservation(h)
  <2>1. handler[h].pc # "idle" /\ (handler[h].pc \in RunnerPCs => r \in Runners)
    BY <1>27 DEF ReleaseReservation, InContext, At, HandlerTypeOK
  <2>2. StateTypeOK'
    BY <1>27, <2>1, PoolReleased, UsedWritten DEF ReleaseReservation
  <2>3. HandlerTypeOK'
    BY <1>27, <2>1, GotoTyped, ReturnTyped DEF ReleaseReservation, At, Replies,
       PCs, Intake, Running, Finishing, Ending, RunnerPCs, Assigning, Cleanup
  <2> QED BY <2>2, <2>3
<1>28. CASE ReleaseCapacity(h)
  <2>1. handler[h].pc # "idle" /\ (handler[h].pc \in RunnerPCs => r \in Runners)
    BY <1>28 DEF ReleaseCapacity, InContext, At, HandlerTypeOK
  <2>2. StateTypeOK'
    BY <1>28, <2>1, PoolReleased, UsedWritten DEF ReleaseCapacity
  <2>3. HandlerTypeOK'
    BY <1>28, <2>1, GotoTyped, ReturnTyped DEF ReleaseCapacity, At, Replies,
       PCs, Intake, Running, Finishing, Ending, RunnerPCs, Assigning, Cleanup
  <2> QED BY <2>2, <2>3
<1>29. CASE FailJob(h)
  <2>1. handler[h].pc = "failJob" /\ JobFor(h) \in Jobs
    BY <1>29, WorksOnJob DEF FailJob, At
  <2>2. Advanced(job, "failed") \in JobRecords
    BY AdvancedJob DEF HandlerTypeOK, Requests, JobStates
  <2>3. jobs' \in [Jobs -> JobRecords]
    BY <1>29, <2>1, <2>2 DEF FailJob, StateTypeOK
  <2>4. HandlerTypeOK'
    BY <1>29, <2>1, GotoTyped
       DEF FailJob, PCs, Intake, Running, Finishing, Ending, RunnerPCs, Assigning, Cleanup
  <2> QED BY <1>29, <2>3, <2>4, JobsWritten DEF FailJob
<1>30. CASE Undo(h)
  <2>1. handler[h].pc # "idle" /\ (handler[h].pc \in RunnerPCs => r \in Runners)
    BY <1>30 DEF Undo, InContext, At, HandlerTypeOK
  <2>2. StateTypeOK'
    BY <1>30, <2>1 DEF Undo, StateTypeOK, Absent
  <2>3. HandlerTypeOK'
    BY <1>30, <2>1, GotoTyped, ReturnTyped DEF Undo, At, Replies,
       PCs, Intake, Running, Finishing, Ending, RunnerPCs, Assigning, Cleanup
  <2> QED BY <2>2, <2>3
<1>31. CASE CreateLease(h)
  <2>1. handler[h].pc = "createLease" /\ r \in Runners /\ JobFor(h) \in Jobs
    BY <1>31, WorksOnJob DEF CreateLease, InContext, At, HandlerTypeOK, RunnerPCs
  <2>2. StateTypeOK'
    <3>1. CASE Absent(leases[JobFor(h)])
      <4> DEFINE lse == [st |-> "active", runner |-> r, rev |-> 1]
      <4>1. lse \in LeaseRecords
        BY <2>1 DEF LeaseRecords, LeaseStates
      <4> QED BY <1>31, <2>1, <3>1, <4>1, LeaseWritten DEF CreateLease
    <3>2. CASE ~Absent(leases[JobFor(h)])
      BY <1>31, <3>2, SharedKept DEF CreateLease, shared
    <3> QED BY <3>1, <3>2
  <2>3. HandlerTypeOK'
    BY <1>31, <2>1, GotoTyped
       DEF CreateLease, PCs, Intake, Running, Finishing, Ending, RunnerPCs, Assigning,
           Cleanup
  <2> QED BY <2>2, <2>3
<1>32. CASE ToAssigned(h)
  <2>1. handler[h].pc # "idle" /\ JobFor(h) \in Jobs
    BY <1>32, WorksOnJob DEF ToAssigned, InContext, At
  <2>2. Advanced(job, "assigned") \in JobRecords
    BY AdvancedJob DEF HandlerTypeOK, Requests, JobStates
  <2>3. jobs' \in [Jobs -> JobRecords]
    BY <1>32, <2>1, <2>2 DEF ToAssigned, StateTypeOK
  <2>4. HandlerTypeOK'
    BY <1>32, <2>1, GotoTyped, ReturnTyped DEF ToAssigned, Replies,
       PCs, Intake, Running, Finishing, Ending, RunnerPCs, Assigning, Cleanup
  <2> QED BY <1>32, <2>3, <2>4, JobsWritten DEF ToAssigned
<1>33. CASE ToRunning(h)
  <2>1. handler[h].pc # "idle" /\ JobFor(h) \in Jobs
    BY <1>33, WorksOnJob DEF ToRunning, InContext, At
  <2>2. Advanced(job, "running") \in JobRecords
    BY AdvancedJob DEF HandlerTypeOK, Requests, JobStates
  <2>3. jobs' \in [Jobs -> JobRecords]
    BY <1>33, <2>1, <2>2 DEF ToRunning, StateTypeOK
  <2>4. HandlerTypeOK'
    BY <1>33, <2>1, GotoTyped, ReturnTyped DEF ToRunning, Replies,
       PCs, Intake, Running, Finishing, Ending, RunnerPCs, Assigning, Cleanup
  <2> QED BY <1>33, <2>3, <2>4, JobsWritten DEF ToRunning
<1>34. CASE ToFinal(h)
  <2>1. handler[h].pc = "toFinal" /\ FinalState(ActionFor(h)) \in JobStates
    BY <1>34 DEF ToFinal, At, FinalState, JobStates
  <2>2. CASE job.st = FinalState(ActionFor(h))
    BY <1>34, <2>1, <2>2, GotoTyped, SharedKept
       DEF ToFinal, shared, PCs, Intake, Running, Finishing, Ending, RunnerPCs, Assigning, Cleanup
  <2>3. CASE job.st # FinalState(ActionFor(h))
    BY <1>34, <2>1, <2>3, TransitionTyped
       DEF ToFinal, PCs, Intake, Running, Finishing, Ending, RunnerPCs, Assigning, Cleanup
  <2> QED BY <2>2, <2>3
<1>35. CASE GetLease(h)
  <2>1. handler[h].pc = "getLease" /\ JobFor(h) \in Jobs
    BY <1>35, WorksOnJob DEF GetLease, InContext, At
  <2>2. CASE Absent(leases[JobFor(h)])
    <3>1. Goto(h, "undo")
      BY <1>35, <2>2 DEF GetLease, Goto
    <3> QED BY <1>35, <2>1, <3>1, GotoTyped, SharedKept
         DEF GetLease, shared, PCs, Intake, Running, Finishing, Ending, RunnerPCs, Assigning, Cleanup
  <2>3. CASE ~Absent(leases[JobFor(h)])
    <3>1. leases[JobFor(h)].runner \in Runners /\ leases[JobFor(h)].rev \in Nat
      BY <2>1, <2>3 DEF StateTypeOK, LeaseRecords, Absent
    <3> QED BY <1>35, <2>1, <2>3, <3>1, LeaseTakenTyped, SharedKept
         DEF GetLease, shared, PCs, Intake, Running, Finishing, Ending, RunnerPCs, Assigning, Cleanup
  <2> QED BY <2>2, <2>3
<1>36. CASE SaveLease(h)
  <2>1. handler[h].pc = "saveLease" /\ JobFor(h) \in Jobs
    BY <1>36, WorksOnJob DEF SaveLease, InContext, At
  <2>2. StateTypeOK'
    <3>1. CASE CanSave(leases, JobFor(h), handler[h].lrev)
      <4> DEFINE lse == Advanced(leases[JobFor(h)], "terminated")
      <4>1. leases[JobFor(h)] \in LeaseRecords /\ ~Absent(leases[JobFor(h)])
        BY <2>1, <3>1 DEF CanSave, StateTypeOK
      <4>2. lse \in LeaseRecords
        BY <4>1, AdvancedLease DEF LeaseStates
      <4>3. leases' = [leases EXCEPT ![JobFor(h)] = lse]
        BY <1>36, <2>1, <3>1 DEF SaveLease
      <4> HIDE DEF lse
      <4> QED BY <1>36, <2>1, <4>2, <4>3, LeaseWritten DEF SaveLease
    <3>2. CASE ~CanSave(leases, JobFor(h), handler[h].lrev)
      BY <1>36, <3>2, SharedKept DEF SaveLease, shared
    <3> QED BY <3>1, <3>2
  <2>3. HandlerTypeOK'
    BY <1>36, <2>1, GotoTyped, ReturnTyped DEF SaveLease, Replies,
       PCs, Intake, Running, Finishing, Ending, RunnerPCs, Assigning, Cleanup
  <2> QED BY <2>2, <2>3
<1>37. CASE RepositoryCallFails(h)
  <2>1. StateTypeOK'
    BY <1>37, FaultKept DEF RepositoryCallFails, store
  <2>2. HandlerTypeOK'
    BY <1>37, GotoTyped
       DEF RepositoryCallFails, RepositoryCalls, RepositoryError, RepositoryErrorPC,
           HandlerTypeOK,
       PCs, Intake, Running, Finishing, Ending, RunnerPCs, Assigning, Cleanup
  <2> QED BY <2>1, <2>2
<1>38. CASE ProviderCallFails(h)
  <2>1. StateTypeOK'
    BY <1>38, FaultKept DEF ProviderCallFails, store
  <2>2. HandlerTypeOK'
    BY <1>38, GotoTyped DEF ProviderCallFails, ProviderCalls, ProviderError, HandlerTypeOK,
       PCs, Intake, Running, Finishing, Ending, RunnerPCs, Assigning, Cleanup
  <2> QED BY <2>1, <2>2
<1>39. CASE CleanupCallFails(h)
  <2>1. StateTypeOK'
    <3> PICK kind : Fault(kind)
      BY <1>39 DEF CleanupCallFails
    <3> QED BY <1>39, FaultKept DEF CleanupCallFails
  <2>2. HandlerTypeOK'
    BY <1>39, GotoTyped DEF CleanupCallFails, CleanupError, HandlerTypeOK,
       PCs, Intake, Running, Finishing, Ending, RunnerPCs, Assigning, Cleanup
  <2> QED BY <2>1, <2>2
<1>40. CASE InsertFails(h)
  BY <1>40, FaultKept, ReturnTyped DEF InsertFails, Replies
<1>41. CASE IgnoredCallFails(h)
  <2>1. StateTypeOK'
    BY <1>41, FaultKept DEF IgnoredCallFails
  <2>2. HandlerTypeOK'
    BY <1>41, GotoTyped, ReturnTyped DEF IgnoredCallFails, At, Replies,
       PCs, Intake, Running, Finishing, Ending, RunnerPCs, Assigning, Cleanup
  <2> QED BY <2>1, <2>2
<1> QED
  BY <1>1, <1>2, <1>3, <1>4, <1>5, <1>6, <1>7, <1>8, <1>9, <1>10, <1>11, <1>12,
     <1>13, <1>14, <1>15, <1>16, <1>17, <1>18, <1>19, <1>20, <1>21, <1>22, <1>23,
     <1>24, <1>25, <1>26, <1>27, <1>28, <1>29, <1>30, <1>31, <1>32, <1>33, <1>34,
     <1>35, <1>36, <1>37, <1>38, <1>39, <1>40, <1>41
  DEF HandlerStep, HandlerProgress, HandlerFailure

(* So do the arrival of a delivery and the departure of a client. *)
LEMMA WebhookTyped ==
  ASSUME StateTypeOK, HandlerTypeOK, NEW h \in Handlers, Webhook(h)
  PROVE  StateTypeOK' /\ HandlerTypeOK'
<1>1. ASSUME NEW d \in Deliveries, NEW at \in Instants, Receive(h, d, at)
      PROVE  StateTypeOK' /\ HandlerTypeOK'
  <2> DEFINE q == [Idle EXCEPT !.pc = "insert", !.dlv = d, !.at = at]
  <2>1. q \in Requests /\ q.dlv = d /\ q.pc = "insert"
    BY DEF Requests, Idle, NoJob, JobRecords, PCs, Intake
  <2>2. handler' = [handler EXCEPT ![h] = q] /\ receipts' \in 0 .. MaxReceipts
    BY <1>1, HandlerAssumption DEF Receive, HandlerTypeOK
  <2> HIDE DEF q
  <2>3. HandlerTypeOK'
    BY <1>1, <2>1, <2>2, RequestWritten DEF Receive, RunnerPCs, Assigning, Cleanup
  <2> QED BY <1>1, <2>3, SharedKept DEF Receive, shared
<1>2. CASE ClientGone(h)
  <2> DEFINE q == [handler[h] EXCEPT !.alive = FALSE]
  <2>1. q \in Requests /\ q.dlv = handler[h].dlv /\ q.pc = handler[h].pc /\ q.r = handler[h].r
    BY DEF HandlerTypeOK, Requests
  <2>2. handler' = [handler EXCEPT ![h] = q] /\ aborts' \in 0 .. MaxAborts
    BY <1>2, HandlerAssumption DEF ClientGone, HandlerTypeOK, Requests
  <2> HIDE DEF q
  <2>3. \A i \in Handlers : handler'[i] = IF i = h THEN q ELSE handler[i]
    BY <2>1, <2>2 DEF HandlerTypeOK
  <2>4. HandlerTypeOK'
    BY <1>2, <2>1, <2>2, <2>3 DEF ClientGone, HandlerTypeOK
  <2> QED BY <1>2, <2>4, SharedKept DEF ClientGone, shared
<1> QED BY <1>1, <1>2, HandlerStepTyped DEF Webhook

-----------------------------------------------------------------------------
(* The reconciler: entering phases, and its actions. *)

(* Between two ticks there is no pass. *)
LEMMA IdlePassTyped == IdlePass \in PassRecords
  BY DEF IdlePass, PassRecords, PassPCs, Phases, NoJob, NoRunnerRecord, NoLease,
         JobRecords, RunnerRecords, LeaseRecords, Absent

(* A pass goes on to the next phase that has something to do. *)
LEMMA EnterTyped ==
  ASSUME NEW p \in PassRecords
  PROVE  EnterStatus(p) \in PassRecords /\ NextPhase(p) \in PassRecords
<1>1. \A phase \in Phases : Todo(p, phase) \in SUBSET (Jobs \cup Runners)
  BY DEF Phases, Todo
<1>2. ASSUME NEW phase \in Phases
      PROVE  Begin(p, phase) \in PassRecords
  <2>1. phase \in PassPCs /\ phase \in Phases \cup {"idle"}
    BY DEF PassPCs
  <2> DEFINE todo == Todo(p, phase)
  <2>2. todo \in SUBSET (Jobs \cup Runners)
    BY <1>1
  <2> HIDE DEF todo
  <2>3. [p EXCEPT !.pc = phase, !.in = phase, !.todo = todo] \in PassRecords
    BY <2>1, <2>2 DEF PassRecords
  <2> QED BY <2>3 DEF Begin, todo
<1>3. EnterReap(p) \in PassRecords
  BY <1>2, IdlePassTyped DEF EnterReap, Phases
<1>4. EnterOrphans(p) \in PassRecords
  BY <1>2, <1>3 DEF EnterOrphans, Phases
<1>5. EnterJobs(p) \in PassRecords
  BY <1>2, <1>4 DEF EnterJobs, Phases
<1>6. EnterLeases(p) \in PassRecords
  BY <1>2, <1>5 DEF EnterLeases, Phases
<1>7. EnterStatus(p) \in PassRecords
  BY <1>2, <1>6 DEF EnterStatus, Phases
<1> QED BY <1>3, <1>4, <1>5, <1>6, <1>7, IdlePassTyped DEF NextPhase

(* A pass goes on to its next record. *)
LEMMA VisitedTyped ==
  ASSUME NEW p \in PassRecords, NEW x
  PROVE  Visited(p, x) \in PassRecords
<1> DEFINE rest == [p EXCEPT !.pc = p.in, !.todo = p.todo \ {x},
                             !.cur = NoRunner, !.copy = NoRunnerRecord, !.to = "none"]
<1>1. p.in \in PassPCs /\ p.todo \ {x} \in SUBSET (Jobs \cup Runners)
  BY DEF PassRecords, PassPCs
<1>2. NoRunnerRecord \in RunnerRecords
  BY DEF NoRunnerRecord, RunnerRecords
<1>3. rest \in PassRecords
  BY <1>1, <1>2 DEF PassRecords
<1>4. Visited(p, x) = IF rest.todo # {} THEN rest ELSE NextPhase(rest)
  BY DEF Visited
<1> HIDE DEF rest
<1> QED BY <1>3, <1>4, EnterTyped
(* A runner's record and its copy are advanced together. *)
LEMMA RunnerSaved ==
  ASSUME StateTypeOK, NEW p \in PassRecords, NEW r, NEW copy \in RunnerRecords,
         NEW st \in RunnerStates \cup {"none"}
  PROVE  /\ [runners EXCEPT ![r] = Advanced(copy, st)] \in [Runners -> RunnerRecords]
         /\ [p EXCEPT !.runners[r] = Advanced(copy, st)] \in PassRecords
         /\ [p EXCEPT !.pc = "terminate", !.copy = Advanced(copy, st)] \in PassRecords
<1> DEFINE saved == Advanced(copy, st)
<1>1. saved \in RunnerRecords
  BY AdvancedRunner
<1> HIDE DEF saved
<1>2. [runners EXCEPT ![r] = saved] \in [Runners -> RunnerRecords]
  BY <1>1 DEF StateTypeOK
<1>3. [p.runners EXCEPT ![r] = saved] \in [Runners -> RunnerRecords]
  BY <1>1 DEF PassRecords
<1>4. [p EXCEPT !.runners[r] = saved] \in PassRecords
  BY <1>3 DEF PassRecords
<1>5. [p EXCEPT !.pc = "terminate", !.copy = saved] \in PassRecords
  BY <1>1 DEF PassRecords, PassPCs
<1> QED BY <1>2, <1>4, <1>5 DEF saved

(* terminateRunner and the reaper begin with the copy of a runner. *)
LEMMA TerminationBegun ==
  ASSUME NEW p \in PassRecords, NEW r \in Runners
  PROVE  BeginTermination(p, r) \in PassRecords
<1> DEFINE pc == IF p.runners[r].st = "terminating" THEN "terminate" ELSE "mark"
<1>1. pc \in PassPCs /\ p.runners[r] \in RunnerRecords
  BY DEF PassRecords, PassPCs
<1>2. BeginTermination(p, r) = [p EXCEPT !.pc = pc, !.cur = r, !.copy = p.runners[r]]
  BY DEF BeginTermination
<1> HIDE DEF pc
<1> QED BY <1>1, <1>2 DEF PassRecords

(* SaveJob by the reconciler, and the copy it keeps of the result. *)
LEMMA JobSavedTyped ==
  ASSUME StateTypeOK, PassTypeOK, NEW j \in Jobs, NEW st \in JobStates \cup {"none"}
  PROVE  JobWrite(j, st) \in [Jobs -> JobRecords] /\ CopyWrite(j, st) \in PassRecords
<1> DEFINE saved == Advanced(pass.jobs[j], st)
<1>1. saved \in JobRecords
  BY AdvancedJob DEF PassTypeOK, PassRecords
<1>2. /\ JobWrite(j, st) = IF JobSaved(j) THEN [jobs EXCEPT ![j] = saved] ELSE jobs
      /\ CopyWrite(j, st) = IF JobSaved(j) THEN [pass EXCEPT !.jobs[j] = saved] ELSE pass
  BY DEF JobWrite, CopyWrite
<1> HIDE DEF saved
<1>3. JobWrite(j, st) \in [Jobs -> JobRecords]
  BY <1>1, <1>2 DEF StateTypeOK
<1>4. [pass.jobs EXCEPT ![j] = saved] \in [Jobs -> JobRecords]
  BY <1>1 DEF PassTypeOK, PassRecords
<1>5. CopyWrite(j, st) \in PassRecords
  BY <1>2, <1>4 DEF PassTypeOK, PassRecords
<1> QED BY <1>3, <1>5

(* The states the repair switches ask for are states of a lease and of a job. *)
LEMMA TargetTyped ==
  ASSUME PassTypeOK, NEW j \in Jobs
  PROVE  /\ LeaseTarget(pass, j) \in LeaseStates \cup {"none"}
         /\ JobTarget(pass, j) \in JobStates \cup {"none"}
<1>1. pass.leases[j].st \in LeaseStates \cup {"none"} /\ pass.jobs[j].st \in JobStates \cup {"none"}
  BY DEF PassTypeOK, PassRecords, LeaseRecords, JobRecords
<1>2. LeaseTarget(pass, j) \in LeaseStates \cup {"none"}
  BY <1>1 DEF LeaseTarget, LeaseStates
<1>3. JobTarget(pass, j) \in JobStates \cup {"none"}
  BY <1>1 DEF JobTarget, JobStates
<1> QED BY <1>2, <1>3

(* Every call of Reconcile, and every failure of one, preserves the types. *)
LEMMA PassStepTyped ==
  ASSUME StateTypeOK, PassTypeOK, PassStep
  PROVE  StateTypeOK' /\ PassTypeOK'
<1> USE DEF PassTypeOK
<1>1. CASE ListJobs
  <2>1. pass' \in PassRecords
    BY <1>1, IdlePassTyped DEF ListJobs, StateTypeOK, PassRecords, PassPCs
  <2> QED BY <1>1, <2>1, SharedKept DEF ListJobs
<1>2. CASE ListRunners
  <2>1. pass' \in PassRecords
    BY <1>2 DEF ListRunners, StateTypeOK, PassRecords, PassPCs
  <2> QED BY <1>2, <2>1, SharedKept DEF ListRunners
<1>3. CASE ListLeases
  <2>1. [pass EXCEPT !.leases = leases] \in PassRecords
    BY DEF StateTypeOK, PassRecords
  <2> QED BY <1>3, <2>1, EnterTyped, SharedKept DEF ListLeases
<1>4. CASE ListFails
  BY <1>4, IdlePassTyped, FaultKept DEF ListFails
<1>5. CASE \E r \in Runners : ReadStatus(r)
  <2> PICK r \in Runners : ReadStatus(r)
    BY <1>5
  <2>1. ProviderState(r) \in RunnerStates
    BY DEF ReadStatus, ProviderState, StateTypeOK, InstanceRecords, InstanceStates, RunnerStates
  <2>2. [pass EXCEPT !.pc = "save", !.cur = r, !.to = ProviderState(r)] \in PassRecords
    BY <2>1 DEF PassRecords, PassPCs
  <2> QED BY <2>2, VisitedTyped, SharedKept DEF ReadStatus
<1>6. CASE \E r \in Runners : StatusFails(r)
  BY <1>6, VisitedTyped, FaultKept DEF StatusFails
<1>7. CASE SaveStatus
  <2> DEFINE r == pass.cur
             saved == Advanced(pass.runners[r], pass.to)
  <2>1. CASE r \in Runners
    <3>1. pass.runners[r] \in RunnerRecords /\ pass.to \in RunnerStates \cup {"none"}
      BY <2>1 DEF PassRecords
    <3>2. /\ [runners EXCEPT ![r] = saved] \in [Runners -> RunnerRecords]
          /\ [pass EXCEPT !.runners[r] = saved] \in PassRecords
      BY <3>1, RunnerSaved
    <3>3. runners' \in [Runners -> RunnerRecords] /\ pass' \in PassRecords
      BY <1>7, <3>2, VisitedTyped DEF SaveStatus, StateTypeOK
    <3> QED BY <1>7, <3>3, RunnersWritten DEF SaveStatus
  <2>2. CASE r \notin Runners
    <3>1. [pass.runners EXCEPT ![r] = saved] = pass.runners
      BY <2>2 DEF PassRecords
    <3>2. [pass EXCEPT !.runners[r] = saved] \in PassRecords
      BY <3>1 DEF PassRecords
    <3>3. runners' \in [Runners -> RunnerRecords] /\ pass' \in PassRecords
      BY <1>7, <2>2, <3>2, VisitedTyped DEF SaveStatus, StateTypeOK
    <3> QED BY <1>7, <3>3, RunnersWritten DEF SaveStatus
  <2> QED BY <2>1, <2>2
<1>8. CASE \E j \in Jobs : RepairLease(j)
  <2> PICK j \in Jobs : RepairLease(j)
    BY <1>8
  <2> DEFINE saved == Advanced(pass.leases[j], LeaseTarget(pass, j))
  <2>1. CASE CanSave(leases, j, pass.leases[j].rev)
    <3>1. pass.leases[j] \in LeaseRecords /\ ~Absent(pass.leases[j])
      BY <2>1 DEF PassRecords, CanSave, Absent
    <3>2. saved \in LeaseRecords
      BY <3>1, AdvancedLease, TargetTyped
    <3>3. leases' = [leases EXCEPT ![j] = saved] /\ pass' = Visited([pass EXCEPT !.leases[j] = saved], j)
      BY <2>1 DEF RepairLease
    <3> HIDE DEF saved
    <3>4. [pass.leases EXCEPT ![j] = saved] \in [Jobs -> LeaseRecords]
      BY <3>2 DEF PassRecords
    <3>5. [pass EXCEPT !.leases[j] = saved] \in PassRecords
      BY <3>4 DEF PassRecords
    <3>6. pass' \in PassRecords
      BY <3>3, <3>5, VisitedTyped
    <3> QED BY <3>2, <3>3, <3>6, LeaseWritten DEF RepairLease
  <2>2. CASE ~CanSave(leases, j, pass.leases[j].rev)
    BY <2>2, VisitedTyped, SharedKept DEF RepairLease, shared
  <2> QED BY <2>1, <2>2
<1>9. CASE \E j \in Jobs : ExpireJob(j)
  <2> PICK j \in Jobs : ExpireJob(j)
    BY <1>9
  <2>1. "failed" \in JobStates \cup {"none"}
    BY DEF JobStates
  <2>2. jobs' \in [Jobs -> JobRecords] /\ pass' \in PassRecords
    BY <2>1, JobSavedTyped, VisitedTyped DEF ExpireJob
  <2> QED BY <2>2, JobsWritten DEF ExpireJob
<1>10. CASE \E j \in Jobs : RepairJob(j)
  <2> PICK j \in Jobs : RepairJob(j)
    BY <1>10
  <2>1. CASE JobTarget(pass, j) = pass.jobs[j].st
    BY <2>1, VisitedTyped, SharedKept DEF RepairJob, shared
  <2>2. CASE JobTarget(pass, j) # pass.jobs[j].st
    <3>1. JobTarget(pass, j) \in JobStates \cup {"none"}
      BY TargetTyped
    <3>2. jobs' \in [Jobs -> JobRecords] /\ pass' \in PassRecords
      BY <2>2, <3>1, JobSavedTyped, VisitedTyped DEF RepairJob
    <3> QED BY <3>2, JobsWritten DEF RepairJob
  <2> QED BY <2>1, <2>2
<1>11. CASE \E j \in Jobs : CleanTerminalJob(j)
  <2> PICK j \in Jobs : CleanTerminalJob(j)
    BY <1>11
  <2>0. Absent(pass.leases[j]) \/ pass.leases[j].runner \in Runners
    BY DEF PassRecords, LeaseRecords
  <2>1. RunnersOfJob(pass, j) \subseteq Runners
    BY <2>0 DEF RunnersOfJob
  <2>2. [pass EXCEPT !.todo = pass.todo \ {j}] \in PassRecords
    BY DEF PassRecords
  <2>3. pass' \in PassRecords
    BY <2>1, <2>2, VisitedTyped, TerminationBegun DEF CleanTerminalJob
  <2> QED BY <2>3, SharedKept DEF CleanTerminalJob
<1>12. CASE \E r \in Runners : CleanOrphan(r) \/ ReapExpired(r)
  BY <1>12, TerminationBegun, SharedKept DEF CleanOrphan, ReapExpired
<1>13. CASE MarkTerminating
  <2> DEFINE saved == Advanced(pass.copy, "terminating")
  <2>1. pass.copy \in RunnerRecords /\ "terminating" \in RunnerStates \cup {"none"}
    BY DEF PassRecords, RunnerStates
  <2>2. /\ [runners EXCEPT ![pass.cur] = saved] \in [Runners -> RunnerRecords]
        /\ [pass EXCEPT !.pc = "terminate", !.copy = saved] \in PassRecords
    BY <2>1, RunnerSaved, VisitedTyped
  <2>3. \/ runners' = [runners EXCEPT ![pass.cur] = saved] /\ pass' = [pass EXCEPT !.pc = "terminate", !.copy = saved]
        \/ runners' = runners /\ pass' = Visited(pass, pass.cur)
    BY <1>13 DEF MarkTerminating
  <2> HIDE DEF saved
  <2>4. runners' \in [Runners -> RunnerRecords] /\ pass' \in PassRecords
    BY <2>2, <2>3, VisitedTyped DEF StateTypeOK
  <2> QED BY <1>13, <2>4, RunnersWritten DEF MarkTerminating
<1>14. CASE Terminate
  <2>1. pass' \in PassRecords
    BY <1>14 DEF Terminate, PassRecords, PassPCs
  <2> QED BY <1>14, <2>1, InstanceTerminated, InstancesWritten DEF Terminate
<1>15. CASE MarkTerminated
  <2> DEFINE saved == Advanced(pass.copy, "terminated")
  <2>1. pass.copy \in RunnerRecords /\ "terminated" \in RunnerStates \cup {"none"}
    BY DEF PassRecords, RunnerStates
  <2>2. /\ [runners EXCEPT ![pass.cur] = saved] \in [Runners -> RunnerRecords]
        /\ Visited([pass EXCEPT !.runners[pass.cur] = saved], pass.cur) \in PassRecords
    BY <2>1, RunnerSaved, VisitedTyped
  <2>3. \/ runners' = [runners EXCEPT ![pass.cur] = saved] /\ pass' = Visited([pass EXCEPT !.runners[pass.cur] = saved], pass.cur)
        \/ runners' = runners /\ pass' = Visited(pass, pass.cur)
    BY <1>15 DEF MarkTerminated
  <2> HIDE DEF saved
  <2>4. runners' \in [Runners -> RunnerRecords] /\ pass' \in PassRecords
    BY <2>2, <2>3, VisitedTyped DEF StateTypeOK
  <2> QED BY <1>15, <2>4, RunnersWritten DEF MarkTerminated
<1>16. CASE RecordCallFails
  BY <1>16, VisitedTyped, FaultKept DEF RecordCallFails
<1>17. CASE \E j \in Jobs : RepairFails(j)
  BY <1>17, VisitedTyped, FaultKept DEF RepairFails
<1> QED
  BY <1>1, <1>2, <1>3, <1>4, <1>5, <1>6, <1>7, <1>8, <1>9, <1>10, <1>11, <1>12, <1>13, <1>14,
     <1>15, <1>16, <1>17
  DEF PassStep, PassProgress, PassFailure

-----------------------------------------------------------------------------
(* The platform. *)

(* What befalls instances, and time, preserve the types. *)
LEMMA EnvironmentTyped ==
  ASSUME TypeOK, Environment
  PROVE  TypeOK'
<1>1. StateTypeOK'
  <2>1. CASE \E r \in Runners : TerminationCompletes(r)
    <3> PICK r \in Runners : TerminationCompletes(r)
      BY <2>1
    <3>1. instances' \in [Runners -> InstanceRecords]
      BY DEF TerminationCompletes, TypeOK, StateTypeOK, InstanceRecords, InstanceStates
    <3> QED BY <3>1, InstancesWritten DEF TerminationCompletes, TypeOK
  <2>2. CASE \E r \in Runners, st \in {"failed", "terminated"} : InstanceLost(r, st)
    <3> PICK r \in Runners, st \in {"failed", "terminated"} : InstanceLost(r, st)
      BY <2>2
    <3>1. instances' \in [Runners -> InstanceRecords]
      BY DEF InstanceLost, TypeOK, StateTypeOK, InstanceRecords, InstanceStates
    <3>2. faults' \in 0 .. MaxFaults
      BY ConstantsAssumption DEF InstanceLost, Fault, TypeOK, StateTypeOK
    <3> QED BY <3>1, <3>2 DEF InstanceLost, store, TypeOK, StateTypeOK
  <2>3. CASE \E j \in Jobs : Expire(j)
    BY <2>3 DEF Expire, store, TypeOK, StateTypeOK
  <2> QED BY <2>1, <2>2, <2>3 DEF Environment
<1>2. HandlerTypeOK' /\ PassTypeOK'
  BY DEF Environment, TypeOK, HandlerTypeOK, PassTypeOK, handlerVars
<1> QED BY <1>1, <1>2 DEF TypeOK

(* A restart begins without requests and without a pass. *)
LEMMA CrashTyped ==
  ASSUME TypeOK, Crash
  PROVE  TypeOK'
<1>1. StateTypeOK'
  <2>1. faults' \in 0 .. MaxFaults
    BY ConstantsAssumption DEF Crash, Fault, TypeOK, StateTypeOK
  <2> QED BY <2>1 DEF Crash, TypeOK, StateTypeOK, store
<1>2. Idle \in Requests /\ Idle.pc = "idle"
  BY DEF Idle, Requests, PCs, NoJob, JobRecords
<1>3. HandlerTypeOK'
  BY <1>2 DEF Crash, TypeOK, HandlerTypeOK, RunnerPCs, Assigning, Cleanup
<1>4. PassTypeOK'
  BY IdlePassTyped DEF Crash, TypeOK, PassTypeOK
<1> QED BY <1>1, <1>3, <1>4 DEF TypeOK

(* An empty repository and an idle process are typed. *)
LEMMA InitTyped == Init => TypeOK
<1> SUFFICES ASSUME Init PROVE TypeOK
  OBVIOUS
<1>1. StateTypeOK
  BY ConstantsAssumption
     DEF Init, StateInit, StateTypeOK, NoJob, NoRunnerRecord, NoLease, NoInstance, Absent,
         JobRecords, RunnerRecords, LeaseRecords, InstanceRecords, InstanceStates
<1>2. Idle \in Requests /\ Idle.pc = "idle"
  BY DEF Idle, Requests, PCs, NoJob, JobRecords
<1>3. HandlerTypeOK
  BY <1>2, HandlerAssumption
     DEF Init, HandlerInit, HandlerTypeOK, RunnerPCs, Assigning, Cleanup, Replies
<1>4. PassTypeOK
  BY IdlePassTyped, PlatformAssumption DEF Init, PassInit, PassTypeOK
<1> QED BY <1>1, <1>3, <1>4 DEF TypeOK

(* Every step of the platform preserves the types. *)
LEMMA StepTyped == TypeOK /\ [Next]_vars => TypeOK'
<1> SUFFICES ASSUME TypeOK, [Next]_vars PROVE TypeOK'
  OBVIOUS
<1>1. CASE \E h \in Handlers : Webhook(h)
  BY <1>1, WebhookTyped DEF Webhook, TypeOK, PassTypeOK
<1>2. CASE Reconcile
  BY <1>2, PassStepTyped DEF Reconcile, TypeOK, HandlerTypeOK, handlerVars
<1>3. CASE Environment
  BY <1>3, EnvironmentTyped
<1>4. CASE Crash
  BY <1>4, CrashTyped
<1>5. CASE UNCHANGED vars
  BY <1>5, SharedKept DEF vars, handlerVars, TypeOK, HandlerTypeOK, PassTypeOK
<1> QED BY <1>1, <1>2, <1>3, <1>4, <1>5 DEF Next

(* Every reachable state is type correct: in particular a request past        *)
(* Provision or GetLease always has a runner to work on (runners.Assign,       *)
(* Service.finish), a recorded lease always names one, and the pool's counter  *)
(* never falls below zero (capacity.Registry.Release).                         *)
THEOREM TypeCorrect == Spec => []TypeOK
<1>1. Init => TypeOK
  BY InitTyped
<1>2. TypeOK /\ [Next]_vars => TypeOK'
  BY StepTyped
<1> QED BY <1>1, <1>2, PTL DEF Spec

-----------------------------------------------------------------------------
(* The outcome of a job.                                                    *)
(*                                                                         *)
(* Whoever saves a job saves the copy it read earlier, so the argument is  *)
(* about copies: one that still has the job's revision is the job itself   *)
(* (CopiesMatchRevisions).  Every save then starts from the job as it is,  *)
(* and what the code checks on the copy - validTransition, or that the     *)
(* copy is not terminal - holds of the job.                                *)

(* What a step does to the jobs: each is kept, or saved with the next       *)
(* revision and, if it has ended, in the same state.                         *)
JobsProgress ==
  \A j \in Jobs :
    \/ jobs'[j] = jobs[j]
    \/ /\ jobs'[j].rev = jobs[j].rev + 1
       /\ Terminal(jobs[j].st) => jobs'[j].st = jobs[j].st

(* ... and to the copy of request h: it ends, keeps its copy, or has another. *)
OthersKept(h) == \A i \in Handlers \ {h} : handler'[i] = handler[i]

Ended(h) == handler'[h].pc = "idle"

CopyKept(h) ==
  /\ handler'[h].dlv = handler[h].dlv /\ handler'[h].job = handler[h].job
  /\ handler[h].pc # "idle"
  /\ handler'[h].pc \in AssignmentPCs => handler[h].pc \in AssignmentPCs

CopyTaken(h) ==
  /\ handler'[h].dlv = handler[h].dlv /\ handler'[h].job = jobs'[JobFor(h)]
  /\ handler'[h].pc \in AssignmentPCs => handler'[h].job.st = "provisioning"

RequestEffect(h) == OthersKept(h) /\ (Ended(h) \/ CopyKept(h) \/ CopyTaken(h))

(* ... and to the copies of the pass. *)
PassEffect == \A j \in Jobs : pass'.jobs[j] \in {pass.jobs[j], NoJob, jobs'[j]}

-----------------------------------------------------------------------------
(* Copies and saves. *)

(* The transition table of lifecycle.validTransition leaves no ended state. *)
LEMMA EndedStays ==
  ASSUME NEW from, NEW to, Terminal(from), ValidTransition(from, to)
  PROVE  to = from
  BY DEF Terminal, ValidTransition

(* A copy stays one when the record moves on to its next revision. *)
LEMMA CopyStays ==
  ASSUME NEW copy \in JobRecords, NEW old \in JobRecords, NEW new \in JobRecords,
         IsCopy(copy, old), new = old \/ new.rev = old.rev + 1
  PROVE  IsCopy(copy, new)
  BY DEF IsCopy, JobRecords

(* The record SaveJob stores has the next revision and the state asked for. *)
LEMMA AdvancedParts ==
  ASSUME NEW record \in JobRecords, NEW st \in JobStates \cup {"none"}
  PROVE  Advanced(record, st).rev = record.rev + 1 /\ Advanced(record, st).st = st
<1> DEFINE n == record.rev + 1
<1> HIDE DEF n
<1>1. [record EXCEPT !.st = st, !.rev = n].rev = n /\ [record EXCEPT !.st = st, !.rev = n].st = st
  BY DEF JobRecords
<1> QED BY <1>1 DEF Advanced, n

(* SaveJob of a copy, in a state the copy may go to, is progress. *)
LEMMA SaveProgresses ==
  ASSUME StateTypeOK, NEW j \in Jobs, NEW copy \in JobRecords, IsCopy(copy, jobs[j]),
         CanSave(jobs, j, copy.rev), NEW st \in JobStates \cup {"none"},
         Terminal(copy.st) => st = copy.st,
         jobs' = [jobs EXCEPT ![j] = Advanced(copy, st)]
  PROVE  JobsProgress /\ jobs'[j] = Advanced(copy, st)
<1>1. copy = jobs[j]
  BY DEF IsCopy, CanSave
<1>2. \A i \in Jobs : jobs'[i] = IF i = j THEN Advanced(copy, st) ELSE jobs[i]
  BY DEF StateTypeOK
<1>3. Advanced(copy, st).rev = copy.rev + 1 /\ Advanced(copy, st).st = st
  BY AdvancedParts
<1> QED BY <1>1, <1>2, <1>3 DEF JobsProgress

(* A step that leaves the jobs table alone is progress. *)
LEMMA JobsKept ==
  ASSUME UNCHANGED jobs
  PROVE  JobsProgress
  BY DEF JobsProgress

-----------------------------------------------------------------------------
(* Requests. *)

(* A request that goes on to its next call keeps its copy. *)
LEMMA GotoEffect ==
  ASSUME HandlerTypeOK, NEW h \in Handlers, NEW pc, Goto(h, pc), handler[h].pc # "idle",
         pc \in AssignmentPCs => handler[h].pc \in AssignmentPCs
  PROVE  RequestEffect(h)
  BY DEF HandlerTypeOK, Requests, Goto, RequestEffect, OthersKept, CopyKept

(* A request that is answered has no copy any more. *)
LEMMA ReturnEffect ==
  ASSUME HandlerTypeOK, NEW h \in Handlers, NEW answer, Return(h, answer)
  PROVE  RequestEffect(h)
  BY DEF HandlerTypeOK, Return, Idle, RequestEffect, OthersKept, Ended

(* GetJob gives a request a copy of the job as it is. *)
LEMMA ReadJobEffect ==
  ASSUME HandlerTypeOK, NEW h \in Handlers, NEW pc, NEW next, pc # "idle",
         next \notin AssignmentPCs, ReadJob(h, pc, next)
  PROVE  JobsProgress /\ RequestEffect(h)
<1>1. UNCHANGED jobs /\ handler[h].pc # "idle"
  BY DEF ReadJob, shared, InContext, At
<1>2. CASE Absent(jobs[JobFor(h)])
  BY <1>1, <1>2, GotoEffect, JobsKept DEF ReadJob, Goto, AssignmentPCs, Intake, Assigning, Cleanup
<1>3. CASE ~Absent(jobs[JobFor(h)])
  <2>1. handler' = [handler EXCEPT ![h].pc = next, ![h].job = jobs[JobFor(h)]]
    BY <1>3 DEF ReadJob
  <2>2. OthersKept(h) /\ CopyTaken(h)
    BY <1>1, <2>1 DEF HandlerTypeOK, Requests, OthersKept, CopyTaken
  <2> QED BY <1>1, <2>2, JobsKept DEF RequestEffect
<1> QED BY <1>2, <1>3

(* GetRunner leaves the copy of the job alone. *)
LEMMA ReadRunnerEffect ==
  ASSUME HandlerTypeOK, NEW h \in Handlers, NEW pc, NEW next, pc # "idle",
         next \in AssignmentPCs => pc \in AssignmentPCs, ReadRunner(h, pc, next)
  PROVE  JobsProgress /\ RequestEffect(h)
  BY JobsKept
     DEF ReadRunner, At, shared, HandlerTypeOK, Requests, RequestEffect, OthersKept,
         CopyKept

(* So does SaveRunner, saved or not. *)
LEMMA WriteRunnerEffect ==
  ASSUME HandlerTypeOK, NEW h \in Handlers, NEW st, NEW next, NEW conflict, handler[h].pc # "idle",
         next \in AssignmentPCs => handler[h].pc \in AssignmentPCs,
         conflict \in AssignmentPCs => handler[h].pc \in AssignmentPCs,
         WriteRunner(h, st, next, conflict)
  PROVE  RequestEffect(h)
<1>1. CASE CanSave(runners, handler[h].r, handler[h].rrev)
  BY <1>1 DEF WriteRunner, HandlerTypeOK, Requests, RequestEffect, OthersKept, CopyKept
<1>2. CASE ~CanSave(runners, handler[h].r, handler[h].rrev)
  BY <1>2, GotoEffect DEF WriteRunner
<1> QED BY <1>1, <1>2

(* Manager.Transition saves the job from a copy that is the job, as the table*)
(* allows, and the request keeps a copy of the result.                       *)
LEMMA TransitionEffect ==
  ASSUME StateTypeOK, HandlerTypeOK, CopiesMatchRevisions, NEW h \in Handlers,
         NEW to \in JobStates, NEW next, handler[h].pc # "idle",
         next \in AssignmentPCs => to = "provisioning", Transition(h, to, next)
  PROVE  JobsProgress /\ RequestEffect(h)
<1> DEFINE copy == handler[h].job
           saved == Advanced(copy, to)
<1>1. JobFor(h) \in Jobs /\ copy \in JobRecords /\ IsCopy(copy, jobs[JobFor(h)])
  BY WorksOnJob DEF HandlerTypeOK, Requests, CopiesMatchRevisions, At
<1>2. CASE ValidTransition(copy.st, to) /\ CanSave(jobs, JobFor(h), copy.rev)
  <2>1. JobsProgress /\ jobs'[JobFor(h)] = saved
    BY <1>1, <1>2, SaveProgresses, EndedStays DEF Transition
  <2>2. saved.st = to
    BY <1>1, AdvancedParts
  <2>3. handler' = [handler EXCEPT ![h].pc = next, ![h].job = saved]
    BY <1>2 DEF Transition
  <2> HIDE DEF saved
  <2>4. OthersKept(h) /\ CopyTaken(h)
    BY <2>1, <2>2, <2>3 DEF HandlerTypeOK, Requests, OthersKept, CopyTaken
  <2> QED BY <2>1, <2>4 DEF RequestEffect
<1>3. CASE ~(ValidTransition(copy.st, to) /\ CanSave(jobs, JobFor(h), copy.rev))
  BY <1>3, GotoEffect, JobsKept DEF Transition, AssignmentPCs, Intake, Assigning, Cleanup
<1> QED BY <1>2, <1>3

(* A request that records a state and answers: ToAssigned and ToRunning. *)
LEMMA LastTransitionEffect ==
  ASSUME StateTypeOK, HandlerTypeOK, CopiesMatchRevisions, NEW h \in Handlers,
         NEW to \in JobStates, handler[h].pc # "idle",
         IF ValidTransition(handler[h].job.st, to) /\ CanSave(jobs, JobFor(h), handler[h].job.rev)
         THEN /\ jobs' = [jobs EXCEPT ![JobFor(h)] = Advanced(handler[h].job, to)]
              /\ Return(h, "ok")
         ELSE UNCHANGED <<jobs, reply>> /\ Goto(h, "undo")
  PROVE  JobsProgress /\ RequestEffect(h)
<1>1. /\ JobFor(h) \in Jobs /\ handler[h].job \in JobRecords
      /\ IsCopy(handler[h].job, jobs[JobFor(h)])
  BY WorksOnJob DEF HandlerTypeOK, Requests, CopiesMatchRevisions, At
<1>2. CASE ValidTransition(handler[h].job.st, to) /\ CanSave(jobs, JobFor(h), handler[h].job.rev)
  BY <1>1, <1>2, SaveProgresses, EndedStays, ReturnEffect
<1>3. CASE ~(ValidTransition(handler[h].job.st, to) /\ CanSave(jobs, JobFor(h), handler[h].job.rev))
  BY <1>3, GotoEffect, JobsKept DEF AssignmentPCs, Intake, Assigning, Cleanup
<1> QED BY <1>2, <1>3

(* Only a request in flight takes steps. *)
LEMMA StepOfRequest ==
  ASSUME NEW h \in Handlers, HandlerStep(h)
  PROVE  handler[h].pc # "idle"
<1>1. ASSUME HandlerProgress(h) PROVE handler[h].pc # "idle"
  BY <1>1
     DEF HandlerProgress, InContext, At, InsertNew, InsertDuplicate, CreateJob, GetJob,
         ReadJob,
     ToProvisioning, Reserve, Provision, WaitReady, CreateRunner, GetRunner, ReadRunner,
     RegisterPending, RunnerOnline, RegistrationTimesOut, RegisterFailed, SaveReady, RegisterReady,
     CleanupGet, CleanupMark, CleanupTerminate, CleanupTerminated, ReleaseReservation, FailJob,
     Undo, CreateLease, DropRunner, ToAssigned, GetRunning, ToRunning, GetFinal, ToFinal, GetLease,
     FinalRunner, TerminateRunner, ReleaseCapacity, SaveTerminated, SaveLease
<1>2. ASSUME HandlerFailure(h) PROVE handler[h].pc # "idle"
  BY <1>2 DEF HandlerFailure, At, RepositoryCallFails, ProviderCallFails, CleanupCallFails,
     InsertFails, IgnoredCallFails, RepositoryCalls, ProviderCalls, Cleanup
<1> QED BY <1>1, <1>2 DEF HandlerStep

(* Every call of a request, and every failure of one, lets jobs progress. *)
LEMMA HandlerStepEffect ==
  ASSUME StateTypeOK, HandlerTypeOK, CopiesMatchRevisions, NEW h \in Handlers, HandlerStep(h)
  PROVE  JobsProgress /\ RequestEffect(h)
<1>1. CASE InsertNew(h)
  BY <1>1, GotoEffect, JobsKept
     DEF InsertNew, FirstCall, InContext, At, store, shared, AssignmentPCs, Intake,
         Assigning, Cleanup
<1>2. CASE Reserve(h)
  BY <1>2, GotoEffect, JobsKept
     DEF Reserve, InContext, At, store, shared, AssignmentPCs, Intake, Assigning, Cleanup
<1>3. CASE WaitReady(h)
  BY <1>3, GotoEffect, JobsKept
     DEF WaitReady, InContext, At, store, shared, AssignmentPCs, Intake, Assigning, Cleanup
<1>4. CASE RegisterPending(h)
  BY <1>4, GotoEffect, JobsKept
     DEF RegisterPending, Register, InContext, At, store, shared, AssignmentPCs, Intake,
         Assigning, Cleanup
<1>5. CASE RegisterFailed(h)
  BY <1>5, GotoEffect, JobsKept
     DEF RegisterFailed, Register, InContext, At, store, shared, AssignmentPCs, Intake,
         Assigning, Cleanup
<1>6. CASE RegisterReady(h)
  BY <1>6, GotoEffect, JobsKept
     DEF RegisterReady, Register, InContext, At, store, shared, AssignmentPCs, Intake,
         Assigning, Cleanup
<1>7. CASE RunnerOnline(h)
  BY <1>7, GotoEffect, JobsKept
     DEF RunnerOnline, InContext, At, store, shared, AssignmentPCs, Intake, Assigning,
         Cleanup
<1>8. CASE RegistrationTimesOut(h)
  BY <1>8, GotoEffect, JobsKept
     DEF RegistrationTimesOut, InContext, At, store, shared, AssignmentPCs, Intake,
         Assigning, Cleanup
<1>9. CASE CleanupTerminate(h)
  BY <1>9, GotoEffect, JobsKept
     DEF CleanupTerminate, InContext, At, store, shared, AssignmentPCs, Intake, Assigning,
         Cleanup
<1>10. CASE ReleaseReservation(h)
  BY <1>10, GotoEffect, JobsKept
     DEF ReleaseReservation, InContext, At, store, shared, AssignmentPCs, Intake, Assigning,
         Cleanup
<1>11. CASE CreateLease(h)
  BY <1>11, GotoEffect, JobsKept
     DEF CreateLease, InContext, At, store, shared, AssignmentPCs, Intake, Assigning,
         Cleanup
<1>12. CASE DropRunner(h)
  BY <1>12, GotoEffect, JobsKept
     DEF DropRunner, InContext, At, store, shared, AssignmentPCs, Intake, Assigning, Cleanup
<1>13. CASE TerminateRunner(h)
  BY <1>13, GotoEffect, JobsKept
     DEF TerminateRunner, InContext, At, store, shared, AssignmentPCs, Intake, Assigning,
         Cleanup
<1>14. CASE ReleaseCapacity(h)
  BY <1>14, GotoEffect, JobsKept
     DEF ReleaseCapacity, InContext, At, store, shared, AssignmentPCs, Intake, Assigning,
         Cleanup
<1>15. CASE RepositoryCallFails(h)
  BY <1>15, GotoEffect, JobsKept
     DEF RepositoryCallFails, RepositoryCalls, RepositoryError, RepositoryErrorPC, Running,
         Finishing, InContext, At, store, shared, AssignmentPCs, Intake, Assigning, Cleanup
<1>16. CASE ProviderCallFails(h)
  BY <1>16, GotoEffect, JobsKept
     DEF ProviderCallFails, ProviderCalls, ProviderError, InContext, At, store, shared,
         AssignmentPCs, Intake, Assigning, Cleanup
<1>17. CASE CleanupCallFails(h)
  BY <1>17, GotoEffect, JobsKept
     DEF CleanupCallFails, CleanupError, InContext, At, store, shared, AssignmentPCs,
         Intake, Assigning, Cleanup
<1>18. CASE InsertDuplicate(h)
  BY <1>18, GotoEffect, ReturnEffect, JobsKept
     DEF InsertDuplicate, InContext, At, store, shared, AssignmentPCs, Intake, Assigning,
         Cleanup
<1>19. CASE Undo(h)
  BY <1>19, GotoEffect, ReturnEffect, JobsKept
     DEF Undo, InContext, At, store, shared, AssignmentPCs, Intake, Assigning, Cleanup
<1>20. CASE SaveLease(h)
  BY <1>20, GotoEffect, ReturnEffect, JobsKept
     DEF SaveLease, InContext, At, store, shared, AssignmentPCs, Intake, Assigning, Cleanup
<1>21. CASE InsertFails(h)
  BY <1>21, GotoEffect, ReturnEffect, JobsKept
     DEF InsertFails, InContext, At, store, shared, AssignmentPCs, Intake, Assigning,
         Cleanup
<1>22. CASE IgnoredCallFails(h)
  BY <1>22, GotoEffect, ReturnEffect, JobsKept
     DEF IgnoredCallFails, InContext, At, store, shared, AssignmentPCs, Intake, Assigning,
         Cleanup
<1>23. CASE GetJob(h)
  BY <1>23, ReadJobEffect DEF GetJob, AssignmentPCs, Intake, Assigning, Cleanup
<1>24. CASE GetRunning(h)
  BY <1>24, ReadJobEffect DEF GetRunning, AssignmentPCs, Intake, Assigning, Cleanup
<1>25. CASE GetFinal(h)
  BY <1>25, ReadJobEffect DEF GetFinal, AssignmentPCs, Intake, Assigning, Cleanup
<1>26. CASE GetRunner(h)
  BY <1>26, ReadRunnerEffect DEF GetRunner, AssignmentPCs, Intake, Assigning, Cleanup
<1>27. CASE CleanupGet(h)
  BY <1>27, ReadRunnerEffect DEF CleanupGet, AssignmentPCs, Intake, Assigning, Cleanup
<1>28. CASE FinalRunner(h)
  BY <1>28, ReadRunnerEffect DEF FinalRunner, AssignmentPCs, Intake, Assigning, Cleanup
<1>29. CASE SaveReady(h)
  BY <1>29, WriteRunnerEffect, JobsKept
     DEF SaveReady, InContext, At, AssignmentPCs, Intake, Assigning, Cleanup
<1>30. CASE CleanupMark(h)
  BY <1>30, WriteRunnerEffect, JobsKept
     DEF CleanupMark, InContext, At, AssignmentPCs, Intake, Assigning, Cleanup
<1>31. CASE CleanupTerminated(h)
  BY <1>31, WriteRunnerEffect, JobsKept
     DEF CleanupTerminated, InContext, At, AssignmentPCs, Intake, Assigning, Cleanup
<1>32. CASE SaveTerminated(h)
  BY <1>32, WriteRunnerEffect, JobsKept
     DEF SaveTerminated, InContext, At, AssignmentPCs, Intake, Assigning, Cleanup
<1>33. CASE ToProvisioning(h)
  BY <1>33, TransitionEffect DEF ToProvisioning, InContext, At, JobStates
<1>34. CASE ToAssigned(h)
  BY <1>34, LastTransitionEffect DEF ToAssigned, InContext, At, JobStates
<1>35. CASE ToRunning(h)
  BY <1>35, LastTransitionEffect DEF ToRunning, InContext, At, JobStates
<1>36. CASE CreateJob(h)
  <2>1. handler[h].pc # "idle" /\ JobFor(h) \in Jobs
    BY <1>36, WorksOnJob DEF CreateJob, InContext, At
  <2>2. CASE Absent(jobs[JobFor(h)])
    <3>1. jobs[JobFor(h)] = NoJob
      BY <2>1, <2>2 DEF CopiesMatchRevisions, IsCopy, NoJob, Absent
    <3>2. jobs' = [jobs EXCEPT ![JobFor(h)] = [st |-> "queued", rev |-> 1]]
      BY <1>36, <2>2 DEF CreateJob
    <3>3. JobsProgress
      BY <2>1, <3>1, <3>2 DEF JobsProgress, StateTypeOK, NoJob, Terminal
    <3> QED
      BY <1>36, <2>1, <2>2, <3>3, GotoEffect
         DEF CreateJob, AssignmentPCs, Intake, Assigning, Cleanup
  <2>3. CASE ~Absent(jobs[JobFor(h)])
    BY <1>36, <2>3, ReturnEffect, JobsKept DEF CreateJob
  <2> QED BY <2>2, <2>3
<1>37. CASE \E r \in Runners : Provision(h, r)
  <2> PICK r \in Runners : Provision(h, r)
    BY <1>37
  <2>1. handler' = [handler EXCEPT ![h].pc = "waitReady", ![h].r = r]
    BY DEF Provision
  <2>2. handler[h].pc = "provision" /\ UNCHANGED jobs
    BY DEF Provision, InContext, At, store
  <2>3. OthersKept(h) /\ CopyKept(h)
    BY <2>1, <2>2
       DEF HandlerTypeOK, Requests, OthersKept, CopyKept, AssignmentPCs, Intake, Assigning,
           Cleanup
  <2> QED BY <2>2, <2>3, JobsKept DEF RequestEffect
<1>38. CASE CreateRunner(h)
  <2> DEFINE pc == IF JIT THEN "getRunner" ELSE "createLease"
  <2>1. handler' = [handler EXCEPT ![h].pc = pc, ![h].saved = TRUE]
    BY <1>38 DEF CreateRunner
  <2>2. handler[h].pc = "createRunner" /\ UNCHANGED jobs
    BY <1>38 DEF CreateRunner, InContext, At
  <2>3. handler[h].pc # "idle" /\ handler[h].pc \in AssignmentPCs
    BY <2>2 DEF AssignmentPCs, Intake, Assigning, Cleanup
  <2> HIDE DEF pc
  <2>4. OthersKept(h) /\ CopyKept(h)
    BY <2>1, <2>3 DEF HandlerTypeOK, Requests, OthersKept, CopyKept
  <2> QED BY <2>2, <2>4, JobsKept DEF RequestEffect
<1>39. CASE FailJob(h)
  <2> DEFINE copy == handler[h].job
  <2>1. handler[h].pc = "failJob" /\ JobFor(h) \in Jobs
    BY <1>39, WorksOnJob DEF FailJob, At
  <2>2. copy \in JobRecords /\ IsCopy(copy, jobs[JobFor(h)]) /\ copy.st = "provisioning"
    BY <2>1 DEF HandlerTypeOK, Requests, CopiesMatchRevisions, At, AssignmentPCs
  <2>3. JobsProgress
    <3>1. CASE handler[h].alive /\ CanSave(jobs, JobFor(h), copy.rev)
      BY <1>39, <2>1, <2>2, <3>1, SaveProgresses DEF FailJob, Terminal, JobStates
    <3>2. CASE ~(handler[h].alive /\ CanSave(jobs, JobFor(h), copy.rev))
      BY <1>39, <3>2, JobsKept DEF FailJob
    <3> QED BY <3>1, <3>2
  <2> QED BY <1>39, <2>1, <2>3, GotoEffect DEF FailJob, AssignmentPCs, Intake, Assigning, Cleanup
<1>40. CASE ToFinal(h)
  <2>1. handler[h].pc = "toFinal" /\ FinalState(ActionFor(h)) \in JobStates
    BY <1>40 DEF ToFinal, At, FinalState, JobStates
  <2>2. CASE handler[h].job.st = FinalState(ActionFor(h))
    BY <1>40, <2>1, <2>2, GotoEffect, JobsKept
       DEF ToFinal, AssignmentPCs, Intake, Assigning, Cleanup
  <2>3. CASE handler[h].job.st # FinalState(ActionFor(h))
    BY <1>40, <2>1, <2>3, TransitionEffect DEF ToFinal, AssignmentPCs, Intake, Assigning, Cleanup
  <2> QED BY <2>2, <2>3
<1>41. CASE GetLease(h)
  <2>1. handler[h].pc = "getLease" /\ UNCHANGED jobs
    BY <1>41 DEF GetLease, InContext, At, shared
  <2>2. OthersKept(h) /\ CopyKept(h)
    BY <1>41, <2>1
       DEF GetLease, HandlerTypeOK, Requests, OthersKept, CopyKept, AssignmentPCs, Intake,
           Assigning, Cleanup
  <2> QED BY <2>1, <2>2, JobsKept DEF RequestEffect
<1> QED
  BY <1>1, <1>2, <1>3, <1>4, <1>5, <1>6, <1>7, <1>8, <1>9, <1>10, <1>11, <1>12, <1>13, <1>14,
     <1>15, <1>16, <1>17, <1>18, <1>19, <1>20, <1>21, <1>22, <1>23, <1>24, <1>25, <1>26, <1>27,
     <1>28, <1>29, <1>30, <1>31, <1>32, <1>33, <1>34, <1>35, <1>36, <1>37, <1>38, <1>39, <1>40,
     <1>41
  DEF HandlerStep, HandlerProgress, HandlerFailure

-----------------------------------------------------------------------------
(* The pass. *)

(* A pass keeps its copies of the jobs until it ends. *)
LEMMA VisitedCopies ==
  ASSUME NEW p \in PassRecords, NEW x, NEW j \in Jobs
  PROVE  /\ Visited(p, x).jobs[j] \in {p.jobs[j], NoJob}
         /\ EnterStatus(p).jobs[j] \in {p.jobs[j], NoJob}
<1>1. ASSUME NEW q \in PassRecords, NEW phase
      PROVE  Begin(q, phase).jobs = q.jobs
  BY DEF Begin, PassRecords
<1>2. IdlePass.jobs[j] = NoJob
  BY DEF IdlePass
<1>3. ASSUME NEW q \in PassRecords
      PROVE  /\ EnterReap(q).jobs[j] \in {q.jobs[j], NoJob}
             /\ EnterOrphans(q).jobs[j] \in {q.jobs[j], NoJob}
             /\ EnterJobs(q).jobs[j] \in {q.jobs[j], NoJob}
             /\ EnterLeases(q).jobs[j] \in {q.jobs[j], NoJob}
             /\ EnterStatus(q).jobs[j] \in {q.jobs[j], NoJob}
  BY <1>1, <1>2 DEF EnterReap, EnterOrphans, EnterJobs, EnterLeases, EnterStatus
<1> DEFINE rest == [p EXCEPT !.pc = p.in, !.todo = p.todo \ {x},
                             !.cur = NoRunner, !.copy = NoRunnerRecord, !.to = "none"]
<1>4. rest \in PassRecords /\ rest.jobs = p.jobs
  BY DEF PassRecords, PassPCs, NoRunnerRecord, RunnerRecords
<1>5. Visited(p, x) = IF rest.todo # {} THEN rest ELSE NextPhase(rest)
  BY DEF Visited
<1> HIDE DEF rest
<1>6. NextPhase(rest).jobs[j] \in {rest.jobs[j], NoJob}
  BY <1>2, <1>3, <1>4 DEF NextPhase
<1> QED BY <1>3, <1>4, <1>5, <1>6

(* Beginning a termination leaves them alone. *)
LEMMA BeginTerminationCopies ==
  ASSUME NEW p \in PassRecords, NEW r
  PROVE  BeginTermination(p, r).jobs = p.jobs
  BY DEF BeginTermination, PassRecords

(* SaveJob by the pass, from a copy that has not ended. *)
LEMMA JobWriteEffect ==
  ASSUME StateTypeOK, PassTypeOK, CopiesMatchRevisions, NEW j \in Jobs,
         ~Terminal(pass.jobs[j].st), NEW st \in JobStates \cup {"none"},
         jobs' = JobWrite(j, st)
  PROVE  /\ JobsProgress
         /\ \A i \in Jobs : CopyWrite(j, st).jobs[i] \in {pass.jobs[i], jobs'[i]}
<1>1. pass.jobs[j] \in JobRecords /\ IsCopy(pass.jobs[j], jobs[j])
  BY DEF PassTypeOK, PassRecords, CopiesMatchRevisions
<1>2. CASE JobSaved(j)
  <2> DEFINE saved == Advanced(pass.jobs[j], st)
  <2>1. JobsProgress /\ jobs'[j] = saved
    BY <1>1, <1>2, SaveProgresses DEF JobWrite, JobSaved
  <2>2. CopyWrite(j, st) = [pass EXCEPT !.jobs[j] = saved]
    BY <1>2 DEF CopyWrite
  <2> HIDE DEF saved
  <2>3. \A i \in Jobs : CopyWrite(j, st).jobs[i] = IF i = j THEN saved ELSE pass.jobs[i]
    BY <2>2 DEF PassTypeOK, PassRecords
  <2> QED BY <2>1, <2>3
<1>3. CASE ~JobSaved(j)
  BY <1>3, JobsKept DEF JobWrite, CopyWrite
<1> QED BY <1>2, <1>3

(* Every call of a pass, and every failure of one, lets jobs progress. *)
LEMMA PassStepEffect ==
  ASSUME StateTypeOK, PassTypeOK, CopiesMatchRevisions, PassStep
  PROVE  JobsProgress /\ PassEffect
<1> USE DEF PassTypeOK
<1>1. CASE ListJobs
  BY <1>1, JobsKept DEF ListJobs, PassEffect, shared, IdlePass
<1>2. CASE ListRunners
  BY <1>2, JobsKept DEF ListRunners, PassEffect, shared, PassRecords
<1>3. CASE ListLeases
  <2>1. [pass EXCEPT !.leases = leases] \in PassRecords /\ [pass EXCEPT !.leases = leases].jobs = pass.jobs
    BY DEF StateTypeOK, PassRecords
  <2> QED BY <1>3, <2>1, VisitedCopies, JobsKept DEF ListLeases, PassEffect, shared
<1>4. CASE ListFails
  BY <1>4, JobsKept DEF ListFails, PassEffect, store, IdlePass
<1>5. CASE \E r \in Runners : ReadStatus(r)
  <2> PICK r \in Runners : ReadStatus(r)
    BY <1>5
  <2>1. [pass EXCEPT !.pc = "save", !.cur = r, !.to = ProviderState(r)].jobs = pass.jobs
    BY DEF PassRecords
  <2> QED BY <2>1, VisitedCopies, JobsKept DEF ReadStatus, PassEffect, shared
<1>6. CASE \E r \in Runners : StatusFails(r)
  BY <1>6, VisitedCopies, JobsKept DEF StatusFails, PassEffect, store
<1>7. CASE SaveStatus
  <2> DEFINE saved == Advanced(pass.runners[pass.cur], pass.to)
             copied == [pass.runners EXCEPT ![pass.cur] = saved]
  <2>1. copied \in [Runners -> RunnerRecords]
    <3>1. CASE pass.cur \in Runners
      BY <3>1, AdvancedRunner DEF PassRecords
    <3>2. CASE pass.cur \notin Runners
      BY <3>2 DEF PassRecords
    <3> QED BY <3>1, <3>2
  <2> DEFINE next == [pass EXCEPT !.runners = copied]
  <2>2. /\ pass' = Visited(pass, pass.cur) \/ pass' = Visited(next, pass.cur)
        /\ UNCHANGED jobs
    BY <1>7 DEF SaveStatus, PassRecords
  <2> HIDE DEF copied
  <2>3. next \in PassRecords /\ next.jobs = pass.jobs
    BY <2>1 DEF PassRecords
  <2> HIDE DEF next
  <2> QED BY <2>2, <2>3, VisitedCopies, JobsKept DEF PassEffect
<1>8. CASE \E j \in Jobs : RepairLease(j)
  <2> PICK j \in Jobs : RepairLease(j)
    BY <1>8
  <2> DEFINE copied == [pass.leases EXCEPT ![j] = Advanced(pass.leases[j], LeaseTarget(pass, j))]
  <2>1. CASE CanSave(leases, j, pass.leases[j].rev)
    <3>1. pass.leases[j] \in LeaseRecords /\ ~Absent(pass.leases[j])
      BY <2>1 DEF PassRecords, CanSave, Absent
    <3>2. copied \in [Jobs -> LeaseRecords]
      BY <3>1, AdvancedLease, TargetTyped DEF PassRecords
    <3> DEFINE next == [pass EXCEPT !.leases = copied]
    <3>3. pass' = Visited(next, j) /\ UNCHANGED jobs
      BY <2>1 DEF RepairLease, PassRecords
    <3> HIDE DEF copied
    <3>4. next \in PassRecords /\ next.jobs = pass.jobs
      BY <3>2 DEF PassRecords
    <3> HIDE DEF next
    <3> QED BY <3>3, <3>4, VisitedCopies, JobsKept DEF PassEffect
  <2>2. CASE ~CanSave(leases, j, pass.leases[j].rev)
    BY <2>2, VisitedCopies, JobsKept DEF RepairLease, PassEffect
  <2> QED BY <2>1, <2>2
<1>9. CASE \E j \in Jobs : ExpireJob(j)
  <2> PICK j \in Jobs : ExpireJob(j)
    BY <1>9
  <2>1. "failed" \in JobStates \cup {"none"}
    BY DEF JobStates
  <2>2. JobsProgress /\ \A i \in Jobs : CopyWrite(j, "failed").jobs[i] \in {pass.jobs[i], jobs'[i]}
    BY <2>1, JobWriteEffect DEF ExpireJob
  <2> QED BY <2>2, VisitedCopies DEF ExpireJob, PassEffect
<1>10. CASE \E j \in Jobs : RepairJob(j)
  <2> PICK j \in Jobs : RepairJob(j)
    BY <1>10
  <2> DEFINE st == JobTarget(pass, j)
  <2>1. CASE st = pass.jobs[j].st
    BY <2>1, VisitedCopies, JobsKept DEF RepairJob, PassEffect
  <2>2. CASE st # pass.jobs[j].st
    <3>1. st \in JobStates \cup {"none"}
      BY TargetTyped
    <3>2. jobs' = JobWrite(j, st) /\ pass' = Visited(CopyWrite(j, st), j) /\ ~Terminal(pass.jobs[j].st)
      BY <2>2 DEF RepairJob
    <3> HIDE DEF st
    <3>3. JobsProgress /\ \A i \in Jobs : CopyWrite(j, st).jobs[i] \in {pass.jobs[i], jobs'[i]}
      BY <3>1, <3>2, JobWriteEffect
    <3>4. CopyWrite(j, st) \in PassRecords
      BY <3>1, JobSavedTyped
    <3> QED BY <3>2, <3>3, <3>4, VisitedCopies DEF PassEffect
  <2> QED BY <2>1, <2>2
<1>11. CASE \E j \in Jobs : CleanTerminalJob(j)
  <2> PICK j \in Jobs : CleanTerminalJob(j)
    BY <1>11
  <2> DEFINE rest == [pass EXCEPT !.todo = pass.todo \ {j}]
  <2>1. rest \in PassRecords /\ rest.jobs = pass.jobs
    BY DEF PassRecords
  <2>2. UNCHANGED jobs /\ (pass' = Visited(pass, j) \/ \E r : pass' = BeginTermination(rest, r))
    BY DEF CleanTerminalJob, shared
  <2> HIDE DEF rest
  <2> QED BY <2>1, <2>2, VisitedCopies, BeginTerminationCopies, JobsKept DEF PassEffect
<1>12. CASE \E r \in Runners : CleanOrphan(r) \/ ReapExpired(r)
  BY <1>12, BeginTerminationCopies, JobsKept DEF CleanOrphan, ReapExpired, PassEffect, shared
<1>13. CASE MarkTerminating
  <2> DEFINE saved == Advanced(pass.copy, "terminating")
  <2> DEFINE next == [pass EXCEPT !.pc = "terminate", !.copy = saved]
  <2>1. (pass' = Visited(pass, pass.cur) \/ pass' = next) /\ UNCHANGED jobs
    BY <1>13 DEF MarkTerminating
  <2> HIDE DEF saved
  <2>2. next.jobs = pass.jobs
    BY DEF PassRecords
  <2> HIDE DEF next
  <2> QED BY <2>1, <2>2, VisitedCopies, JobsKept DEF PassEffect
<1>14. CASE Terminate
  BY <1>14, JobsKept DEF Terminate, PassEffect, store, PassRecords
<1>15. CASE MarkTerminated
  <2> DEFINE saved == Advanced(pass.copy, "terminated")
             copied == [pass EXCEPT !.runners[pass.cur] = saved]
  <2>1. pass.copy \in RunnerRecords /\ "terminated" \in RunnerStates \cup {"none"}
    BY DEF PassRecords, RunnerStates
  <2>2. copied \in PassRecords
    BY <2>1, RunnerSaved
  <2>3. pass' = Visited(pass, pass.cur) \/ pass' = Visited(copied, pass.cur)
    BY <1>15 DEF MarkTerminated
  <2> HIDE DEF saved
  <2>4. copied.jobs = pass.jobs
    BY DEF PassRecords
  <2> HIDE DEF copied
  <2> QED BY <1>15, <2>2, <2>3, <2>4, VisitedCopies, JobsKept DEF MarkTerminated, PassEffect
<1>16. CASE RecordCallFails
  BY <1>16, VisitedCopies, JobsKept DEF RecordCallFails, PassEffect, store
<1>17. CASE \E j \in Jobs : RepairFails(j)
  BY <1>17, VisitedCopies, JobsKept DEF RepairFails, PassEffect, store
<1> QED
  BY <1>1, <1>2, <1>3, <1>4, <1>5, <1>6, <1>7, <1>8, <1>9, <1>10, <1>11, <1>12, <1>13, <1>14,
     <1>15, <1>16, <1>17
  DEF PassStep, PassProgress, PassFailure

-----------------------------------------------------------------------------
(* The invariant, and the outcome. *)

(* A step that lets jobs progress and one request or the pass change its    *)
(* copies in these ways keeps all copies what they should be.               *)
LEMMA ProgressKeepsCopies ==
  ASSUME TypeOK, TypeOK', CopiesMatchRevisions, JobsProgress,
         PassEffect,
         \A h \in Handlers :
           \/ handler'[h] = handler[h]
           \/ Ended(h)
           \/ CopyKept(h)
           \/ handler[h].pc # "idle" /\ CopyTaken(h)
           \/ handler'[h].job = NoJob /\ handler'[h].pc = "insert"
  PROVE  CopiesMatchRevisions'
<1> USE DEF TypeOK
<1>1. ASSUME NEW j \in Jobs
      PROVE  /\ jobs[j] \in JobRecords /\ jobs'[j] \in JobRecords /\ NoJob \in JobRecords
             /\ jobs'[j] = jobs[j] \/ jobs'[j].rev = jobs[j].rev + 1
  BY DEF StateTypeOK, JobsProgress, NoJob, JobRecords
<1>2. ASSUME NEW j \in Jobs
      PROVE  IsCopy(NoJob, jobs'[j]) /\ IsCopy(jobs'[j], jobs'[j])
  <2>1. IsCopy(NoJob, jobs'[j])
    BY <1>1, CopyStays DEF CopiesMatchRevisions
  <2>2. IsCopy(jobs'[j], jobs'[j])
    BY <1>1 DEF IsCopy, JobRecords
  <2> QED BY <2>1, <2>2
<1>3. ASSUME NEW j \in Jobs
      PROVE  IsCopy(pass'.jobs[j], jobs'[j])
  <2>1. pass.jobs[j] \in JobRecords /\ IsCopy(pass.jobs[j], jobs[j])
    BY DEF PassTypeOK, PassRecords, CopiesMatchRevisions
  <2>2. IsCopy(pass.jobs[j], jobs'[j])
    BY <1>1, <2>1, CopyStays
  <2> QED BY <1>2, <2>2 DEF PassEffect
<1>4. ASSUME NEW h \in Handlers, handler'[h].pc # "idle"
      PROVE  /\ IsCopy(handler'[h].job, jobs'[JobOf[handler'[h].dlv]])
             /\ handler'[h].pc \in AssignmentPCs => handler'[h].job.st = "provisioning"
  <2> DEFINE j == JobOf[handler'[h].dlv]
  <2>1. j \in Jobs
    BY <1>4, ConstantsAssumption DEF HandlerTypeOK
  <2>2. CASE handler[h].pc # "idle" /\ handler'[h].dlv = handler[h].dlv /\ handler'[h].job = handler[h].job
    <3>1. JobFor(h) = j
      BY <2>2 DEF JobFor
    <3>2. handler[h].job \in JobRecords /\ IsCopy(handler[h].job, jobs[j])
      BY <2>2, <3>1 DEF HandlerTypeOK, Requests, CopiesMatchRevisions, At
    <3>3. IsCopy(handler'[h].job, jobs'[j])
      BY <1>1, <2>1, <2>2, <3>2, CopyStays
    <3>4. handler'[h].pc \in AssignmentPCs => handler'[h].job.st = "provisioning"
      BY <1>4, <2>2 DEF CopyKept, Ended, CopyTaken, CopiesMatchRevisions,
         AssignmentPCs, Assigning, Cleanup
    <3> QED BY <3>3, <3>4
  <2>3. CASE handler[h].pc # "idle" /\ CopyTaken(h)
    <3>1. JobFor(h) = j
      BY <2>3 DEF JobFor, CopyTaken
    <3> QED BY <1>2, <2>1, <2>3, <3>1 DEF CopyTaken
  <2>4. CASE handler'[h].job = NoJob /\ handler'[h].pc = "insert"
    BY <1>2, <2>1, <2>4 DEF AssignmentPCs, Assigning, Cleanup
  <2>5. \/ handler'[h] = handler[h]
        \/ handler[h].pc # "idle" /\ handler'[h].dlv = handler[h].dlv /\ handler'[h].job = handler[h].job
        \/ handler[h].pc # "idle" /\ CopyTaken(h)
        \/ handler'[h].job = NoJob /\ handler'[h].pc = "insert"
    BY <1>4 DEF CopyKept, Ended
  <2>6. CASE handler'[h] = handler[h]
    BY <1>4, <2>2, <2>6
  <2> QED BY <2>2, <2>3, <2>4, <2>5, <2>6
<1>5. (\A j \in Jobs : IsCopy(NoJob, jobs[j]) /\ IsCopy(pass.jobs[j], jobs[j]))'
  BY <1>2, <1>3
<1>6. (\A h \in Handlers : ~At(h, "idle") => IsCopy(handler[h].job, jobs[JobFor(h)]))'
  BY <1>4 DEF At, JobFor
<1>7. (\A h \in Handlers : handler[h].pc \in AssignmentPCs => handler[h].job.st = "provisioning")'
  BY <1>4 DEF AssignmentPCs, Assigning, Cleanup
<1> QED BY <1>5, <1>6, <1>7 DEF CopiesMatchRevisions

(* Before the first request nobody holds a copy. *)
LEMMA InitCopies == Init => CopiesMatchRevisions
  BY DEF Init, StateInit, HandlerInit, PassInit, IdlePass, CopiesMatchRevisions, IsCopy, NoJob,
         Idle, At, AssignmentPCs, Assigning, Cleanup

(* Every step of the platform lets jobs progress and keeps the copies sound. *)
LEMMA StepProgress ==
  ASSUME TypeOK, TypeOK', CopiesMatchRevisions, [Next]_vars
  PROVE  JobsProgress /\ CopiesMatchRevisions'
<1> USE DEF TypeOK
<1>1. ASSUME NEW h \in Handlers, Webhook(h)
      PROVE  JobsProgress /\ CopiesMatchRevisions'
  <2>1. PassEffect
    BY <1>1 DEF Webhook, PassEffect
  <2>2. ASSUME NEW d \in Deliveries, NEW at \in Instants, Receive(h, d, at)
        PROVE  JobsProgress /\ CopiesMatchRevisions'
    <3>1. JobsProgress
      BY <2>2, JobsKept DEF Receive, shared
    <3>2. \A i \in Handlers :
            \/ handler'[i] = handler[i]
            \/ handler'[i].job = NoJob /\ handler'[i].pc = "insert"
      BY <2>2 DEF Receive, HandlerTypeOK, Idle
    <3> QED BY <2>1, <3>1, <3>2, ProgressKeepsCopies
  <2>3. CASE ClientGone(h)
    <3>1. JobsProgress
      BY <2>3, JobsKept DEF ClientGone, shared
    <3>2. \A i \in Handlers : handler'[i] = handler[i] \/ CopyKept(i)
      BY <2>3 DEF ClientGone, At, HandlerTypeOK, Requests, CopyKept
    <3> QED BY <2>1, <3>1, <3>2, ProgressKeepsCopies
  <2>4. CASE HandlerStep(h)
    <3>1. JobsProgress /\ RequestEffect(h)
      BY <2>4, HandlerStepEffect
    <3>2. handler[h].pc # "idle"
      BY <2>4, StepOfRequest
    <3> QED BY <2>1, <3>1, <3>2, ProgressKeepsCopies DEF RequestEffect, OthersKept
  <2> QED BY <1>1, <2>2, <2>3, <2>4 DEF Webhook
<1>2. CASE Reconcile
  <2>1. JobsProgress /\ PassEffect /\ UNCHANGED handler
    BY <1>2, PassStepEffect DEF Reconcile, handlerVars
  <2> QED BY <2>1, ProgressKeepsCopies
<1>3. CASE Environment \/ UNCHANGED vars
  <2>1. UNCHANGED <<jobs, handler, pass>>
    BY <1>3
       DEF Environment, TerminationCompletes, InstanceLost, Expire, store, vars, shared,
           handlerVars
  <2>2. JobsProgress /\ PassEffect
    BY <2>1, JobsKept DEF PassEffect
  <2> QED BY <2>1, <2>2, ProgressKeepsCopies
<1>4. CASE Crash
  <2>1. JobsProgress /\ PassEffect /\ \A i \in Handlers : Ended(i)
    BY <1>4, JobsKept DEF Crash, store, PassEffect, IdlePass, Idle, Ended
  <2> QED BY <2>1, ProgressKeepsCopies
<1> QED BY <1>1, <1>2, <1>3, <1>4 DEF Next

(* Optimistic locking works: a request's or a pass's copy of a job that still *)
(* has the job's revision is the job itself, whatever happened between the    *)
(* read and the save (Manager.Transition, failJob, the reconciler's SaveJob). *)
THEOREM CopiesAreSound == Spec => []CopiesMatchRevisions
<1>1. Init => CopiesMatchRevisions
  BY InitCopies
<1>2. TypeOK /\ TypeOK' /\ CopiesMatchRevisions /\ [Next]_vars => CopiesMatchRevisions'
  BY StepProgress
<1>3. Spec => []TypeOK
  BY TypeCorrect
<1> QED BY <1>1, <1>2, <1>3, PTL DEF Spec

(* A job that is completed, cancelled or failed stays so: no late assignment, *)
(* in_progress event, repeated finish or reconciliation pass revives or       *)
(* relabels it.                                                               *)
THEOREM OutcomeIsFinal == Spec => TerminalStable
<1> DEFINE Stable == \A j \in Jobs : Terminal(jobs[j].st) => jobs'[j].st = jobs[j].st
<1>1. TypeOK /\ TypeOK' /\ CopiesMatchRevisions /\ [Next]_vars => [Stable]_jobs
  BY StepProgress DEF JobsProgress
<1> HIDE DEF Stable
<1>2. Spec => [][Stable]_jobs
  BY <1>1, TypeCorrect, CopiesAreSound, PTL DEF Spec
<1> QED BY <1>2 DEF Stable, TerminalStable
=============================================================================

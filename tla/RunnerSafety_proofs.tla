------------------------- MODULE RunnerSafety_proofs -------------------------
(***************************************************************************)
(* The safety invariants of RunnerPlatform, for any number of jobs,        *)
(* runners, requests, passes, faults and crashes.                          *)
(*                                                                         *)
(* None of them is inductive.  What carries them is who is responsible for *)
(* what: of the requests on a job at most one assigns it a runner          *)
(* (OneAssigner), because CreateJob lets one of them through; until its    *)
(* CreateLease only that request writes the runner's record; and what a    *)
(* request has established at a program point (the instance is its own, it *)
(* is not live any more, the lease names the runner, the job has ended)    *)
(* stays true while it waits for its next call, whatever other requests,   *)
(* passes, the provider and crashes do in between.                         *)
(* With who does what settled, each call is one step of JobService, which  *)
(* the section after the theorems shows.  The last section is about the    *)
(* pool's counter, which needs more: that no request is given up or        *)
(* repeated (PoolUndisturbed).                                             *)
(***************************************************************************)
EXTENDS RunnerPlatform_proofs, FiniteSetTheorems

-----------------------------------------------------------------------------
(* The inductive invariant. *)

FinalActions == {"success", "failure", "cancelled"}

(* A request that prepares an assignment, one that has an instance and no    *)
(* lease for it yet, and one that finishes a job.                            *)
Preparing == {"getJob", "toProvisioning", "reserve", "provision"}
Owning == (Assigning \ {"provision"}) \cup Cleanup \cup {"createLease"}
Assigners == Preparing \cup Owning
Closing == {"finalRunner", "terminate", "release", "saveRunner", "saveLease"}

Provisioned == Owning \cup {"dropRunner"}
Unrecorded == {"waitReady", "createRunner"}
Recorded == {"getRunner", "regPending", "waitReg", "saveReady", "regReady", "createLease"}
Releasing == {"clTerminated", "release", "saveRunner", "saveLease"}
Assignment == Assigners \cup {"createJob", "toAssigned", "getRunning", "toRunning"}

(* Provision: the instance is there, and it is the job's. *)
OwnsInstance(h) ==
  handler[h].pc \in Provisioned =>
    instances[handler[h].r].st # "none" /\ instances[handler[h].r].job = JobFor(h)

(* CreateRunner and the registration: what is recorded of the runner. *)
HoldsRecord(h) ==
  /\ handler[h].pc \in Unrecorded => Absent(runners[handler[h].r])
  /\ handler[h].pc \in Recorded => ~Absent(runners[handler[h].r])
  /\ At(h, "createLease") /\ JIT => "ready" \in registration[handler[h].r]

(* Terminate: the instance is gone or going. *)
HasReleased(h) == handler[h].pc \in Releasing => ~Live(handler[h].r)

(* finish and toAssigned: the job, its lease and its runner. *)
HoldsLease(h) ==
  /\ handler[h].pc \in Closing =>
       ~Absent(leases[JobFor(h)]) /\ leases[JobFor(h)].runner = handler[h].r
  /\ handler[h].pc \in Closing \cup {"getLease"} => Terminal(jobs[JobFor(h)].st)
  /\ At(h, "saveLease") => runners[handler[h].r].st = "terminated"
  /\ At(h, "toAssigned") => ~Absent(leases[JobFor(h)])

(* The assignment: the job is recorded, and has no lease and, before         *)
(* Provision, no instance.                                                   *)
AssignsJob(h) ==
  /\ handler[h].pc \in Assigners => ~Absent(jobs[JobFor(h)]) /\ Absent(leases[JobFor(h)])
  /\ handler[h].pc \in Preparing => \A r \in Runners : instances[r].job # JobFor(h)
  /\ handler[h].pc \in Assignment => ActionFor(h) \notin FinalActions

RequestOK(h) ==
  OwnsInstance(h) /\ HoldsRecord(h) /\ HasReleased(h) /\ HoldsLease(h) /\ AssignsJob(h)

RequestsOK == \A h \in Handlers : RequestOK(h)

(* CreateJob lets one request per job through. *)
OneAssigner ==
  \A h1, h2 \in Handlers :
    handler[h1].pc \in Assigners /\ handler[h2].pc \in Assigners /\ JobFor(h1) = JobFor(h2) =>
      h1 = h2

(* The tables agree with each other and with the provider. *)
RecordsOfInstances ==
  \A r \in Runners :
    ~Absent(runners[r]) => instances[r].st # "none" /\ runners[r].job = instances[r].job

LeasesOfRecords ==
  \A j \in Jobs :
    ~Absent(leases[j]) =>
      ~Absent(runners[leases[j].runner]) /\ runners[leases[j].runner].job = j

InstancesOfJobs ==
  \A r \in Runners : instances[r].job \in Jobs => ~Absent(jobs[instances[r].job])

TablesOK == RecordsOfInstances /\ LeasesOfRecords /\ InstancesOfJobs

(* The pass: its copies are never ahead of the tables, it changes no runner  *)
(* it knows to be terminated, and what it is about to record as terminated   *)
(* is not live.                                                              *)
RunnerCopies ==
  \A r \in Runners : IsCopy(NoRunnerRecord, runners[r]) /\ IsCopy(pass.runners[r], runners[r])

LeaseCopies ==
  \A j \in Jobs : IsCopy(NoLease, leases[j]) /\ IsCopy(pass.leases[j], leases[j])

OnRunner == {"save", "mark", "terminate", "saved"}

PassWork ==
  /\ pass.pc \in Phases => pass.in = pass.pc
  /\ pass.pc \in {"listRunners", "listLeases"} => pass.in = "idle"
  /\ pass.in \in {"status", "orphans", "reap"} =>
       \A r \in Runners : r \in pass.todo => pass.runners[r].st # "terminated"
  /\ pass.pc \in OnRunner => pass.cur \in Runners
  /\ pass.pc \in OnRunner \ {"save"} =>
       IsCopy(pass.copy, runners[pass.cur]) /\ pass.copy.st # "terminated"
  /\ pass.pc = "save" =>
       /\ pass.runners[pass.cur].st # "terminated"
       /\ pass.to = "terminated" /\ ~Absent(pass.runners[pass.cur]) => ~Live(pass.cur)
  /\ pass.pc = "saved" /\ ~Absent(pass.copy) => ~Live(pass.cur)

PassOK == RunnerCopies /\ LeaseCopies /\ PassWork

Promises ==
  /\ TerminatedRecordMeansReleased
  /\ OneInstancePerJob
  /\ AssignedHasLease
  /\ LeaseOnlyForRegisteredRunner
  /\ AcknowledgedFinishIsComplete

SafetyInv == RequestsOK /\ OneAssigner /\ TablesOK /\ PassOK /\ Promises

-----------------------------------------------------------------------------
(* What a step may do to each table, whoever takes it. *)

InstancesEvolve ==
  \A r \in Runners :
    \/ instances'[r] = instances[r]
    \/ /\ instances[r].st # "none" /\ instances'[r].st # "none"
       /\ instances'[r].job = instances[r].job
       /\ ~Live(r) => ~Live(r)'
    \/ /\ instances[r].st = "none" /\ instances'[r].st # "none"
       /\ \A q \in Runners \ {r} : instances'[q] = instances[q]
       /\ \E h \in Handlers :
            At(h, "provision") /\ handler'[h].pc = "waitReady" /\ instances'[r].job = JobFor(h)

Leased(r) == \E j \in Jobs : ~Absent(leases[j]) /\ leases[j].runner = r

RunnersEvolve ==
  \A r \in Runners :
    \/ runners'[r] = runners[r]
    \/ /\ ~Absent(runners[r])
       /\ runners'[r].rev = runners[r].rev + 1 /\ runners'[r].job = runners[r].job
       /\ runners'[r].st = "terminated" => ~Live(r)
       /\ runners[r].st = "terminated" /\ Leased(r) => runners'[r].st = "terminated"
    \/ /\ Absent(runners[r])
       /\ runners'[r].rev = 1 /\ runners'[r].st # "terminated"
       /\ \E h \in Handlers :
            /\ At(h, "createRunner") /\ handler[h].r = r /\ runners'[r].job = JobFor(h)
            /\ handler'[h].pc \notin Unrecorded

Closed(lease) == lease.st \in {"terminated", "failed"}

LeasesEvolve ==
  \A j \in Jobs :
    \/ leases'[j] = leases[j]
    \/ /\ ~Absent(leases[j])
       /\ leases'[j].rev = leases[j].rev + 1 /\ leases'[j].runner = leases[j].runner
       /\ Closed(leases[j]) => Closed(leases'[j])
    \/ /\ Absent(leases[j])
       /\ leases'[j].rev = 1
       /\ \E h \in Handlers :
            /\ At(h, "createLease") /\ JobFor(h) = j /\ leases'[j].runner = handler[h].r
            /\ handler'[h].pc = "toAssigned"

RegistrationGrows == \A r \in Runners : registration[r] \subseteq registration'[r]

AssignedFromLease ==
  \A j \in Jobs :
    jobs'[j].st \in {"assigned", "running"} =>
      jobs[j].st \in {"assigned", "running"} \/ ~Absent(leases[j])

FinishAnswered ==
  \A d \in Deliveries :
    reply'[d] = "ok" /\ ActionOf[d] \in FinalActions =>
      \/ reply[d] = "ok"
      \/ \E h \in Handlers :
           At(h, "saveLease") /\ handler[h].dlv = d /\ Closed(leases'[JobOf[d]])

TablesEvolve ==
  /\ InstancesEvolve /\ RunnersEvolve /\ LeasesEvolve /\ RegistrationGrows
  /\ JobsProgress /\ AssignedFromLease /\ FinishAnswered

(* A request becomes an assigner only when it creates the job. *)
BecomesAssigner(h) ==
  handler'[h].pc \in Assigners =>
    /\ handler'[h].dlv = handler[h].dlv
    /\ \/ handler[h].pc \in Assigners
       \/ At(h, "createJob") /\ Absent(jobs[JobFor(h)])

RequestStep(h) == OthersKept(h) /\ BecomesAssigner(h) /\ RequestOK(h)'

-----------------------------------------------------------------------------
(* What has been established stays true. *)

(* An instance the provider knows stays known, keeps its job, and does not   *)
(* come back once it is gone.                                                *)
LEMMA InstanceStays ==
  ASSUME InstancesEvolve, NEW r \in Runners, instances[r].st # "none"
  PROVE  /\ instances'[r].st # "none" /\ instances'[r].job = instances[r].job
         /\ ~Live(r) => ~Live(r)'
  BY DEF InstancesEvolve, Live

(* A recorded runner stays recorded, for the same job. *)
LEMMA RecordStays ==
  ASSUME TypeOK, RunnersEvolve, NEW r \in Runners, ~Absent(runners[r])
  PROVE  ~Absent(runners'[r]) /\ runners'[r].job = runners[r].job
<1>1. runners[r].rev \in Nat
  BY DEF TypeOK, StateTypeOK, RunnerRecords
<1> QED BY <1>1 DEF RunnersEvolve, Absent

(* A recorded lease stays recorded, for the same runner. *)
LEMMA LeaseStays ==
  ASSUME TypeOK, LeasesEvolve, NEW j \in Jobs, ~Absent(leases[j])
  PROVE  /\ ~Absent(leases'[j]) /\ leases'[j].runner = leases[j].runner
         /\ Closed(leases[j]) => Closed(leases'[j])
<1>1. leases[j].rev \in Nat
  BY DEF TypeOK, StateTypeOK, LeaseRecords
<1> QED BY <1>1 DEF LeasesEvolve, Absent

(* A recorded job stays recorded, and an ended one stays as it ended. *)
LEMMA JobStays ==
  ASSUME TypeOK, JobsProgress, NEW j \in Jobs
  PROVE  /\ ~Absent(jobs[j]) => ~Absent(jobs'[j])
         /\ Terminal(jobs[j].st) => Terminal(jobs'[j].st)
<1>1. jobs[j].rev \in Nat
  BY DEF TypeOK, StateTypeOK, JobRecords
<1> QED BY <1>1 DEF JobsProgress, Absent

(* A copy that is not ahead of its record stays so. *)
LEMMA CopyNotAhead ==
  ASSUME NEW copy, NEW old, NEW new, copy.rev \in Nat, old.rev \in Nat,
         IsCopy(copy, old), new = old \/ new.rev = old.rev + 1
  PROVE  IsCopy(copy, new)
  BY DEF IsCopy

(* Every lease names a recorded runner with an instance. *)
LEMMA LeaseHasInstance ==
  ASSUME TypeOK, SafetyInv, NEW j \in Jobs, ~Absent(leases[j])
  PROVE  /\ leases[j].runner \in Runners /\ ~Absent(runners[leases[j].runner])
         /\ instances[leases[j].runner].st # "none"
         /\ runners[leases[j].runner].job = j /\ instances[leases[j].runner].job = j
<1>1. leases[j].runner \in Runners
  BY DEF TypeOK, StateTypeOK, LeaseRecords
<1> QED BY <1>1 DEF SafetyInv, TablesOK, RecordsOfInstances, LeasesOfRecords

-----------------------------------------------------------------------------
(* A request keeps what it has established while it, or anybody else, takes  *)
(* a step.                                                                   *)

SameWork(h) == handler'[h].dlv = handler[h].dlv /\ handler'[h].r = handler[h].r

(* The instance a request has provisioned stays its job's. *)
LEMMA OwnsInstanceKept ==
  ASSUME TypeOK, SafetyInv, TablesEvolve, NEW i \in Handlers,
         handler'[i].pc \in Provisioned => handler[i].pc \in Provisioned /\ SameWork(i)
  PROVE  OwnsInstance(i)'
<1> SUFFICES ASSUME handler'[i].pc \in Provisioned
             PROVE  /\ instances'[handler'[i].r].st # "none"
                    /\ instances'[handler'[i].r].job = JobOf[handler'[i].dlv]
  BY DEF OwnsInstance, JobFor
<1>1. handler[i].pc \in Provisioned /\ SameWork(i)
  OBVIOUS
<1>2. handler[i].r \in Runners
  BY <1>1 DEF TypeOK, HandlerTypeOK, RunnerPCs, Provisioned, Owning
<1>3. instances[handler[i].r].st # "none" /\ instances[handler[i].r].job = JobOf[handler[i].dlv]
  BY <1>1 DEF SafetyInv, RequestsOK, RequestOK, OwnsInstance, JobFor
<1> QED BY <1>1, <1>2, <1>3, InstanceStays DEF TablesEvolve, SameWork

(* The instance a request has terminated does not come back. *)
LEMMA HasReleasedKept ==
  ASSUME TypeOK, SafetyInv, TablesEvolve, NEW i \in Handlers,
         handler'[i].pc \in Releasing => handler[i].pc \in Releasing /\ SameWork(i)
  PROVE  HasReleased(i)'
<1> SUFFICES ASSUME handler'[i].pc \in Releasing
             PROVE  ~Live(handler[i].r)'
  BY DEF HasReleased, SameWork
<1>1. handler[i].pc \in Releasing /\ SameWork(i)
  OBVIOUS
<1>2. handler[i].r \in Runners /\ ~Live(handler[i].r)
  BY <1>1 DEF TypeOK, HandlerTypeOK, RunnerPCs, Releasing, Cleanup, SafetyInv, RequestsOK, RequestOK,
     HasReleased
<1>3. instances[handler[i].r].st # "none"
  <2>1. CASE handler[i].pc \in Provisioned
    BY <2>1 DEF SafetyInv, RequestsOK, RequestOK, OwnsInstance
  <2>2. CASE handler[i].pc \in Closing
    <3>1. JobFor(i) \in Jobs
      BY <2>2, WorksOnJob DEF TypeOK, Closing
    <3>2. ~Absent(leases[JobFor(i)]) /\ leases[JobFor(i)].runner = handler[i].r
      BY <2>2 DEF SafetyInv, RequestsOK, RequestOK, HoldsLease
    <3> QED BY <3>1, <3>2, LeaseHasInstance
  <2> QED BY <1>1, <2>1, <2>2 DEF Releasing, Provisioned, Owning, Cleanup, Closing
<1> DEFINE r == handler[i].r
<1>4. r \in Runners /\ instances[r].st # "none" /\ ~Live(r)
  BY <1>2, <1>3
<1>5. instances'[r].st \notin {"provisioning", "ready", "failed"}
  BY <1>4, InstanceStays DEF TablesEvolve, InstancesEvolve, Live
<1>6. handler'[i].r = r
  BY <1>1 DEF SameWork
<1> QED BY <1>5, <1>6 DEF Live

(* Nobody else records the runner a request is assigning, and a recorded or *)
(* registered runner stays so.                                               *)
LEMMA HoldsRecordKept ==
  ASSUME TypeOK, SafetyInv, TablesEvolve, NEW i \in Handlers,
         handler'[i].pc \in Unrecorded => handler[i].pc \in Unrecorded /\ SameWork(i),
         handler'[i].pc \in Recorded => handler[i].pc \in Recorded /\ SameWork(i),
         handler'[i].pc = "createLease" => handler[i].pc = "createLease" /\ SameWork(i)
  PROVE  HoldsRecord(i)'
<1> DEFINE r == handler[i].r
<1>1. ASSUME handler'[i].pc \in Unrecorded
      PROVE  Absent(runners'[handler'[i].r])
  <2>1. handler[i].pc \in Unrecorded /\ SameWork(i)
    BY <1>1
  <2>2. r \in Runners /\ handler[i].pc \in Owning
    BY <2>1 DEF TypeOK, HandlerTypeOK, RunnerPCs, Unrecorded, Assigning, Owning
  <2>3. Absent(runners[r]) /\ instances[r].job = JobFor(i)
    BY <2>1, <2>2 DEF SafetyInv, RequestsOK, RequestOK, HoldsRecord, OwnsInstance, Provisioned
  <2>4. ASSUME NEW h \in Handlers, At(h, "createRunner"), handler[h].r = r,
               handler'[h].pc \notin Unrecorded
        PROVE  FALSE
    <3>1. handler[h].pc \in Owning /\ instances[r].job = JobFor(h)
      BY <2>4 DEF SafetyInv, RequestsOK, RequestOK, OwnsInstance, Provisioned, Owning, Assigning, At
    <3>2. h = i
      BY <2>2, <2>3, <3>1 DEF SafetyInv, OneAssigner, Assigners
    <3> QED BY <1>1, <2>4, <3>2
  <2>5. runners'[r] = runners[r]
    BY <2>2, <2>3, <2>4 DEF TablesEvolve, RunnersEvolve
  <2> QED BY <2>1, <2>3, <2>5 DEF SameWork
<1>2. ASSUME handler'[i].pc \in Recorded
      PROVE  ~Absent(runners'[handler'[i].r])
  <2>1. handler[i].pc \in Recorded /\ SameWork(i)
    BY <1>2
  <2>2. r \in Runners /\ ~Absent(runners[r])
    BY <2>1 DEF TypeOK, HandlerTypeOK, RunnerPCs, Recorded, Assigning, SafetyInv, RequestsOK,
       RequestOK, HoldsRecord
  <2> QED BY <2>1, <2>2, RecordStays DEF TablesEvolve, SameWork
<1>3. ASSUME handler'[i].pc = "createLease", JIT
      PROVE  "ready" \in registration'[handler'[i].r]
  <2>1. handler[i].pc = "createLease" /\ SameWork(i)
    BY <1>3
  <2>2. r \in Runners /\ "ready" \in registration[r]
    BY <1>3, <2>1 DEF TypeOK, HandlerTypeOK, RunnerPCs, SafetyInv, RequestsOK, RequestOK,
       HoldsRecord, At
  <2> QED BY <2>1, <2>2 DEF TablesEvolve, RegistrationGrows, SameWork
<1> QED BY <1>1, <1>2, <1>3 DEF HoldsRecord, At

(* The lease finish works on keeps its runner, the job stays ended, and the  *)
(* runner stays terminated.                                                  *)
LEMMA HoldsLeaseKept ==
  ASSUME TypeOK, SafetyInv, TablesEvolve, NEW i \in Handlers,
         handler'[i].pc \in Closing => handler[i].pc \in Closing /\ SameWork(i),
         handler'[i].pc \in Closing \cup {"getLease"} =>
           handler[i].pc \in Closing \cup {"getLease"} /\ SameWork(i),
         handler'[i].pc \in {"saveLease", "toAssigned"} =>
           handler'[i].pc = handler[i].pc /\ SameWork(i)
  PROVE  HoldsLease(i)'
<1> DEFINE r == handler[i].r
           j == JobOf[handler[i].dlv]
<1>1. ASSUME handler'[i].pc \in Closing
      PROVE  /\ ~Absent(leases'[JobOf[handler'[i].dlv]])
             /\ leases'[JobOf[handler'[i].dlv]].runner = handler'[i].r
  <2>1. handler[i].pc \in Closing /\ SameWork(i)
    BY <1>1
  <2>2. j \in Jobs
    BY <2>1, WorksOnJob DEF TypeOK, Closing, JobFor
  <2>3. ~Absent(leases[j]) /\ leases[j].runner = r
    BY <2>1 DEF SafetyInv, RequestsOK, RequestOK, HoldsLease, JobFor
  <2> QED BY <2>1, <2>2, <2>3, LeaseStays DEF TablesEvolve, SameWork
<1>2. ASSUME handler'[i].pc \in Closing \cup {"getLease"}
      PROVE  Terminal(jobs'[JobOf[handler'[i].dlv]].st)
  <2>1. handler[i].pc \in Closing \cup {"getLease"} /\ SameWork(i)
    BY <1>2
  <2>2. j \in Jobs
    BY <2>1, WorksOnJob DEF TypeOK, Closing, JobFor
  <2>3. Terminal(jobs[j].st)
    BY <2>1 DEF SafetyInv, RequestsOK, RequestOK, HoldsLease, JobFor
  <2> QED BY <2>1, <2>2, <2>3, JobStays DEF TablesEvolve, SameWork
<1>3. ASSUME handler'[i].pc = "saveLease"
      PROVE  runners'[handler'[i].r].st = "terminated"
  <2>1. handler[i].pc = "saveLease" /\ SameWork(i)
    BY <1>3
  <2>2. j \in Jobs /\ ~Absent(leases[j]) /\ leases[j].runner = r /\ runners[r].st = "terminated"
    BY <2>1, WorksOnJob DEF SafetyInv, RequestsOK, RequestOK, HoldsLease, JobFor, TypeOK, At, Closing
  <2>3. r \in Runners /\ Leased(r) /\ ~Absent(runners[r])
    BY <2>2, LeaseHasInstance DEF Leased
  <2> QED BY <2>1, <2>2, <2>3 DEF TablesEvolve, RunnersEvolve, SameWork
<1>4. ASSUME handler'[i].pc = "toAssigned"
      PROVE  ~Absent(leases'[JobOf[handler'[i].dlv]])
  <2>1. handler[i].pc = "toAssigned" /\ SameWork(i)
    BY <1>4
  <2>2. j \in Jobs /\ ~Absent(leases[j])
    BY <2>1, WorksOnJob DEF SafetyInv, RequestsOK, RequestOK, HoldsLease, JobFor, TypeOK, At
  <2> QED BY <2>1, <2>2, LeaseStays DEF TablesEvolve, SameWork
<1> QED BY <1>1, <1>2, <1>3, <1>4 DEF HoldsLease, At, JobFor

(* Nobody else leases or provisions for the job a request is assigning. *)
LEMMA AssignsJobKept ==
  ASSUME TypeOK, SafetyInv, TablesEvolve, NEW i \in Handlers,
         handler'[i].pc \in Assigners =>
           handler[i].pc \in Assigners /\ handler'[i].dlv = handler[i].dlv,
         handler'[i].pc \in Preparing =>
           handler[i].pc \in Preparing /\ handler'[i].dlv = handler[i].dlv,
         handler'[i].pc \in Assignment =>
           handler[i].pc \in Assignment /\ handler'[i].dlv = handler[i].dlv
  PROVE  AssignsJob(i)'
<1> DEFINE j == JobOf[handler[i].dlv]
<1>1. ASSUME handler'[i].pc \in Assigners
      PROVE  /\ ~Absent(jobs'[JobOf[handler'[i].dlv]])
             /\ Absent(leases'[JobOf[handler'[i].dlv]])
  <2>1. handler[i].pc \in Assigners /\ handler'[i].dlv = handler[i].dlv
    BY <1>1
  <2>2. j \in Jobs
    BY <2>1, WorksOnJob DEF TypeOK, Assigners, Preparing, Owning, Assigning, Cleanup, JobFor
  <2>3. ~Absent(jobs[j]) /\ Absent(leases[j])
    BY <2>1 DEF SafetyInv, RequestsOK, RequestOK, AssignsJob, JobFor
  <2>4. ASSUME NEW h \in Handlers, At(h, "createLease"), JobFor(h) = j,
               handler'[h].pc = "toAssigned"
        PROVE  FALSE
    <3>1. handler[h].pc \in Assigners
      BY <2>4 DEF At, Assigners, Owning
    <3>2. h = i
      BY <2>1, <2>4, <3>1 DEF SafetyInv, OneAssigner, JobFor
    <3> QED BY <1>1, <2>4, <3>2 DEF Assigners, Preparing, Owning, Assigning, Cleanup
  <2>5. leases'[j] = leases[j]
    BY <2>2, <2>3, <2>4 DEF TablesEvolve, LeasesEvolve
  <2>6. ~Absent(jobs'[j])
    BY <2>2, <2>3, JobStays DEF TablesEvolve
  <2> QED BY <2>1, <2>3, <2>5, <2>6
<1>2. ASSUME handler'[i].pc \in Preparing, NEW r \in Runners
      PROVE  instances'[r].job # JobOf[handler'[i].dlv]
  <2>1. handler[i].pc \in Preparing /\ handler'[i].dlv = handler[i].dlv
    BY <1>2
  <2>2. instances[r].job # j
    BY <2>1 DEF SafetyInv, RequestsOK, RequestOK, AssignsJob, JobFor
  <2>3. ASSUME NEW h \in Handlers, At(h, "provision"), JobFor(h) = j, handler'[h].pc = "waitReady"
        PROVE  FALSE
    <3>1. handler[h].pc \in Assigners /\ handler[i].pc \in Assigners
      BY <2>1, <2>3 DEF At, Assigners, Preparing
    <3>2. h = i
      BY <2>3, <3>1 DEF SafetyInv, OneAssigner, JobFor
    <3> QED BY <1>2, <2>3, <3>2 DEF Preparing
  <2>4. instances'[r].job # j
    BY <2>2, <2>3 DEF TablesEvolve, InstancesEvolve
  <2> QED BY <2>1, <2>4
<1>3. ASSUME handler'[i].pc \in Assignment
      PROVE  ActionOf[handler'[i].dlv] \notin FinalActions
  BY <1>3 DEF SafetyInv, RequestsOK, RequestOK, AssignsJob, ActionFor
<1> QED BY <1>1, <1>2, <1>3 DEF AssignsJob, JobFor, ActionFor

(* A program point that asks for nothing the one before it does not. *)
Follows(from, to) ==
  /\ to \in Provisioned => from \in Provisioned
  /\ to \in Unrecorded => from \in Unrecorded
  /\ to \in Recorded => from \in Recorded
  /\ to \in Releasing => from \in Releasing
  /\ to \in Closing => from \in Closing
  /\ to \in Closing \cup {"getLease"} => from \in Closing \cup {"getLease"}
  /\ to \in Assigners => from \in Assigners
  /\ to \in Preparing => from \in Preparing
  /\ to \in Assignment => from \in Assignment
  /\ to \in {"createLease", "saveLease", "toAssigned"} => to = from

Inherits(h) == SameWork(h) /\ Follows(handler[h].pc, handler'[h].pc)

(* A request that goes on to a program point asking for no more keeps all it *)
(* has established.                                                          *)
LEMMA InheritedKept ==
  ASSUME TypeOK, SafetyInv, TablesEvolve, NEW i \in Handlers, Inherits(i)
  PROVE  RequestOK(i)'
<1>1. OwnsInstance(i)'
  BY OwnsInstanceKept DEF Inherits, Follows
<1>2. HasReleased(i)'
  BY HasReleasedKept DEF Inherits, Follows
<1>3. HoldsRecord(i)'
  BY HoldsRecordKept DEF Inherits, Follows
<1>4. HoldsLease(i)'
  BY HoldsLeaseKept DEF Inherits, Follows
<1>5. AssignsJob(i)'
  BY AssignsJobKept DEF Inherits, Follows, SameWork
<1> QED BY <1>1, <1>2, <1>3, <1>4, <1>5 DEF RequestOK

(* A request that takes no step keeps everything. *)
LEMMA UntouchedKept ==
  ASSUME TypeOK, SafetyInv, TablesEvolve, NEW i \in Handlers, handler'[i] = handler[i]
  PROVE  RequestOK(i)'
  BY InheritedKept DEF Inherits, Follows, SameWork

(* The program points at which something has been established. *)
Obliging == Provisioned \cup Unrecorded \cup Recorded \cup Releasing \cup Closing \cup Assignment
           \cup {"getLease"}

(* A request at any other program point has nothing to keep. *)
LEMMA ObligesNothing ==
  ASSUME NEW i \in Handlers, handler'[i].pc \notin Obliging
  PROVE  RequestOK(i)'
<1>1. /\ handler'[i].pc \notin Provisioned /\ handler'[i].pc \notin Unrecorded
      /\ handler'[i].pc \notin Recorded /\ handler'[i].pc \notin Releasing
      /\ handler'[i].pc \notin Closing /\ handler'[i].pc \notin Assignment
      /\ handler'[i].pc \notin Assigners /\ handler'[i].pc \notin Preparing
      /\ handler'[i].pc \notin {"createLease", "saveLease", "toAssigned", "getLease"}
  BY DEF Obliging, Assignment, Assigners, Recorded, Closing
<1> QED BY <1>1
     DEF RequestOK, OwnsInstance, HoldsRecord, HasReleased, HoldsLease, AssignsJob, At

-----------------------------------------------------------------------------
(* The tables after a step. *)

(* A new record is made of the request's own instance, a new lease of a      *)
(* recorded runner, a new instance for a recorded job.                       *)
LEMMA TablesKept ==
  ASSUME TypeOK, SafetyInv, TablesEvolve
  PROVE  TablesOK'
<1>1. ASSUME NEW r \in Runners, ~Absent(runners'[r])
      PROVE  instances'[r].st # "none" /\ runners'[r].job = instances'[r].job
  <2>1. CASE ~Absent(runners[r])
    <3>1. instances[r].st # "none" /\ runners[r].job = instances[r].job
      BY <2>1 DEF SafetyInv, TablesOK, RecordsOfInstances
    <3> QED BY <2>1, <3>1, InstanceStays, RecordStays DEF TablesEvolve
  <2>2. CASE Absent(runners[r])
    <3>1. PICK h \in Handlers :
            At(h, "createRunner") /\ handler[h].r = r /\ runners'[r].job = JobFor(h)
      BY <1>1, <2>2 DEF TablesEvolve, RunnersEvolve
    <3>2. instances[r].st # "none" /\ instances[r].job = JobFor(h)
      BY <3>1 DEF SafetyInv, RequestsOK, RequestOK, OwnsInstance, Provisioned, Owning, Assigning, At
    <3> QED BY <3>1, <3>2, InstanceStays DEF TablesEvolve
  <2> QED BY <2>1, <2>2
<1>2. ASSUME NEW j \in Jobs, ~Absent(leases'[j])
      PROVE  ~Absent(runners'[leases'[j].runner]) /\ runners'[leases'[j].runner].job = j
  <2>1. CASE ~Absent(leases[j])
    BY <2>1, LeaseHasInstance, LeaseStays, RecordStays DEF TablesEvolve
  <2>2. CASE Absent(leases[j])
    <3>1. PICK h \in Handlers :
            At(h, "createLease") /\ JobFor(h) = j /\ leases'[j].runner = handler[h].r
      BY <1>2, <2>2 DEF TablesEvolve, LeasesEvolve
    <3> DEFINE r == handler[h].r
    <3>2. r \in Runners /\ ~Absent(runners[r]) /\ instances[r].job = j
      BY <3>1 DEF SafetyInv, RequestsOK, RequestOK, OwnsInstance, HoldsRecord, Provisioned, Owning,
         Recorded, At, TypeOK, HandlerTypeOK, RunnerPCs
    <3>3. runners[r].job = j
      BY <3>2 DEF SafetyInv, TablesOK, RecordsOfInstances
    <3> QED BY <3>1, <3>2, <3>3, RecordStays DEF TablesEvolve
  <2> QED BY <2>1, <2>2
<1>3. ASSUME NEW r \in Runners, instances'[r].job \in Jobs
      PROVE  ~Absent(jobs'[instances'[r].job])
  <2>1. CASE instances'[r].job = instances[r].job
    BY <1>3, <2>1, JobStays DEF SafetyInv, TablesOK, InstancesOfJobs, TablesEvolve
  <2>2. CASE instances'[r].job # instances[r].job
    <3>1. PICK h \in Handlers : At(h, "provision") /\ instances'[r].job = JobFor(h)
      BY <2>2 DEF TablesEvolve, InstancesEvolve
    <3>2. ~Absent(jobs[JobFor(h)])
      BY <3>1 DEF SafetyInv, RequestsOK, RequestOK, AssignsJob, Assigners, Preparing, At
    <3> QED BY <1>3, <3>1, <3>2, JobStays DEF TablesEvolve
  <2> QED BY <2>1, <2>2
<1> QED BY <1>1, <1>2, <1>3 DEF TablesOK, RecordsOfInstances, LeasesOfRecords, InstancesOfJobs

(* A runner is recorded as terminated when its instance is gone, and it does *)
(* not come back.                                                            *)
LEMMA TerminatedKept ==
  ASSUME TypeOK, SafetyInv, TablesEvolve
  PROVE  TerminatedRecordMeansReleased'
<1> SUFFICES ASSUME NEW r \in Runners, runners'[r].st = "terminated"
             PROVE  ~Live(r)'
  BY DEF TerminatedRecordMeansReleased
<1>1. ~Absent(runners[r]) /\ ~Live(r)
  <2>1. CASE runners'[r] = runners[r]
    <3>1. ~Live(r)
      BY <2>1 DEF SafetyInv, Promises, TerminatedRecordMeansReleased
    <3>2. ~Absent(runners[r])
      BY <2>1 DEF SafetyInv, PassOK, RunnerCopies, IsCopy, Absent, NoRunnerRecord
    <3> QED BY <3>1, <3>2
  <2>2. CASE runners'[r] # runners[r]
    BY <2>2 DEF TablesEvolve, RunnersEvolve
  <2> QED BY <2>1, <2>2
<1>2. instances[r].st # "none"
  BY <1>1 DEF SafetyInv, TablesOK, RecordsOfInstances
<1> QED BY <1>1, <1>2, InstanceStays DEF TablesEvolve

(* Only a request that found no instance of its job provisions one. *)
LEMMA OneInstanceKept ==
  ASSUME TypeOK, SafetyInv, TablesEvolve
  PROVE  OneInstancePerJob'
<1>1. ASSUME NEW r \in Runners, instances'[r].job # instances[r].job,
             NEW q \in Runners, q # r
      PROVE  instances'[q].job # instances'[r].job
  <2>1. /\ instances'[q] = instances[q]
        /\ \E h \in Handlers : At(h, "provision") /\ instances'[r].job = JobFor(h)
    BY <1>1 DEF TablesEvolve, InstancesEvolve
  <2> PICK h \in Handlers : At(h, "provision") /\ instances'[r].job = JobFor(h)
    BY <2>1
  <2>2. instances[q].job # JobFor(h)
    BY DEF SafetyInv, RequestsOK, RequestOK, AssignsJob, Preparing, At
  <2> QED BY <2>1, <2>2
<1> QED BY <1>1 DEF SafetyInv, Promises, OneInstancePerJob

(* A job becomes assigned from its lease, and the lease stays. *)
LEMMA AssignedKept ==
  ASSUME TypeOK, SafetyInv, TablesEvolve, TablesOK'
  PROVE  AssignedHasLease'
<1> SUFFICES ASSUME NEW j \in Jobs, jobs'[j].st \in {"assigned", "running"}
             PROVE  ~Absent(leases'[j])
  BY DEF AssignedHasLease, TablesOK, LeasesOfRecords
<1>1. ~Absent(leases[j])
  BY DEF SafetyInv, Promises, AssignedHasLease, TablesEvolve, AssignedFromLease
<1>2. ~Absent(leases'[j])
  BY <1>1, LeaseStays DEF TablesEvolve
<1> QED BY <1>2

(* A lease is made out to a registered runner, and registrations stay. *)
LEMMA RegisteredKept ==
  ASSUME TypeOK, SafetyInv, TablesEvolve
  PROVE  LeaseOnlyForRegisteredRunner'
<1> SUFFICES ASSUME NEW j \in Jobs, JIT, ~Absent(leases'[j])
             PROVE  "ready" \in registration'[leases'[j].runner]
  BY DEF LeaseOnlyForRegisteredRunner
<1>1. CASE ~Absent(leases[j])
  <2>1. leases[j].runner \in Runners /\ "ready" \in registration[leases[j].runner]
    BY <1>1, LeaseHasInstance DEF SafetyInv, Promises, LeaseOnlyForRegisteredRunner
  <2> QED BY <1>1, <2>1, LeaseStays DEF TablesEvolve, RegistrationGrows
<1>2. CASE Absent(leases[j])
  <2>1. PICK h \in Handlers : At(h, "createLease") /\ leases'[j].runner = handler[h].r
    BY <1>2 DEF TablesEvolve, LeasesEvolve
  <2>2. handler[h].r \in Runners /\ "ready" \in registration[handler[h].r]
    BY <2>1 DEF SafetyInv, RequestsOK, RequestOK, HoldsRecord, At, TypeOK, HandlerTypeOK, RunnerPCs
  <2> QED BY <2>1, <2>2 DEF TablesEvolve, RegistrationGrows
<1> QED BY <1>1, <1>2

(* finish answers when everything is closed, and everything stays closed. *)
LEMMA FinishedKept ==
  ASSUME TypeOK, SafetyInv, TablesEvolve, TerminatedRecordMeansReleased'
  PROVE  AcknowledgedFinishIsComplete'
<1> SUFFICES ASSUME NEW d \in Deliveries, reply'[d] = "ok", ActionOf[d] \in FinalActions
             PROVE  /\ Terminal(jobs'[JobOf[d]].st)
                    /\ Closed(leases'[JobOf[d]])
                    /\ runners'[leases'[JobOf[d]].runner].st = "terminated"
                    /\ ~Live(leases[JobOf[d]].runner)'
  BY DEF AcknowledgedFinishIsComplete, Closed, FinalActions
<1> DEFINE j == JobOf[d]
           r == leases[j].runner
<1>1. j \in Jobs
  BY ConstantsAssumption
<1>2. /\ Terminal(jobs[j].st) /\ ~Absent(leases[j])
      /\ runners[r].st = "terminated" /\ Closed(leases'[j])
  <2>1. CASE reply[d] = "ok"
    <3>1. Terminal(jobs[j].st) /\ Closed(leases[j]) /\ runners[r].st = "terminated"
      BY <2>1 DEF SafetyInv, Promises, AcknowledgedFinishIsComplete, Closed, FinalActions
    <3>2. ~Absent(leases[j])
      BY <1>1, <3>1 DEF SafetyInv, PassOK, LeaseCopies, IsCopy, Absent, NoLease, Closed
    <3> QED BY <1>1, <3>1, <3>2, LeaseStays DEF TablesEvolve
  <2>2. CASE reply[d] # "ok"
    <3>1. PICK h \in Handlers : At(h, "saveLease") /\ handler[h].dlv = d /\ Closed(leases'[j])
      BY <2>2 DEF TablesEvolve, FinishAnswered
    <3> QED BY <3>1 DEF SafetyInv, RequestsOK, RequestOK, HoldsLease, Closing, At, JobFor
  <2> QED BY <2>1, <2>2
<1>3. r \in Runners /\ ~Absent(runners[r]) /\ Leased(r)
  BY <1>1, <1>2, LeaseHasInstance DEF Leased
<1>4. runners'[r].st = "terminated"
  BY <1>2, <1>3 DEF TablesEvolve, RunnersEvolve
<1>5. leases'[j].runner = r
  BY <1>1, <1>2, LeaseStays DEF TablesEvolve
<1>6. Terminal(jobs'[j].st)
  BY <1>1, <1>2, JobStays DEF TablesEvolve
<1>7. instances'[r].st \notin {"provisioning", "ready", "failed"}
  BY <1>3, <1>4 DEF TerminatedRecordMeansReleased, Live
<1> QED BY <1>2, <1>4, <1>5, <1>6, <1>7 DEF Live

(* Every step keeps every promise. *)
LEMMA PromisesKept ==
  ASSUME TypeOK, SafetyInv, TablesEvolve
  PROVE  TablesOK' /\ Promises'
  BY TablesKept, TerminatedKept, OneInstanceKept, AssignedKept, RegisteredKept, FinishedKept
     DEF Promises

-----------------------------------------------------------------------------
(* The pass while somebody else takes a step. *)

(* Its copies are still never ahead of the tables. *)
LEMMA CopiesStay ==
  ASSUME TypeOK, SafetyInv, TablesEvolve
  PROVE  /\ \A r \in Runners : IsCopy(NoRunnerRecord, runners'[r]) /\ IsCopy(pass.runners[r], runners'[r])
         /\ \A j \in Jobs : IsCopy(NoLease, leases'[j]) /\ IsCopy(pass.leases[j], leases'[j])
         /\ pass.pc \in OnRunner \ {"save"} => IsCopy(pass.copy, runners'[pass.cur])
<1>1. /\ NoRunnerRecord \in RunnerRecords /\ NoLease \in LeaseRecords /\ pass.copy \in RunnerRecords
      /\ \A r \in Runners : pass.runners[r] \in RunnerRecords
      /\ \A j \in Jobs : pass.leases[j] \in LeaseRecords
  BY DEF TypeOK, PassTypeOK, PassRecords, NoRunnerRecord, NoLease, RunnerRecords, LeaseRecords, Absent
<1>2. ASSUME NEW r \in Runners, NEW copy \in RunnerRecords, IsCopy(copy, runners[r])
      PROVE  IsCopy(copy, runners'[r])
  <2>1. runners[r].rev \in Nat /\ copy.rev \in Nat
    BY DEF TypeOK, StateTypeOK, RunnerRecords
  <2>2. runners'[r] = runners[r] \/ runners'[r].rev = runners[r].rev + 1
    BY <2>1 DEF TablesEvolve, RunnersEvolve, Absent
  <2> QED BY <1>2, <2>1, <2>2, CopyNotAhead
<1>3. ASSUME NEW j \in Jobs, NEW copy \in LeaseRecords, IsCopy(copy, leases[j])
      PROVE  IsCopy(copy, leases'[j])
  <2>1. leases[j].rev \in Nat /\ copy.rev \in Nat
    BY DEF TypeOK, StateTypeOK, LeaseRecords
  <2>2. leases'[j] = leases[j] \/ leases'[j].rev = leases[j].rev + 1
    BY <2>1 DEF TablesEvolve, LeasesEvolve, Absent
  <2> QED BY <1>3, <2>1, <2>2, CopyNotAhead
<1>4. /\ \A r \in Runners : IsCopy(NoRunnerRecord, runners[r]) /\ IsCopy(pass.runners[r], runners[r])
      /\ \A j \in Jobs : IsCopy(NoLease, leases[j]) /\ IsCopy(pass.leases[j], leases[j])
      /\ pass.pc \in OnRunner \ {"save"} =>
           pass.cur \in Runners /\ IsCopy(pass.copy, runners[pass.cur])
  BY DEF SafetyInv, PassOK, RunnerCopies, LeaseCopies, PassWork
<1> QED BY <1>1, <1>2, <1>3, <1>4

(* A runner of which the pass has a copy is recorded and has an instance. *)
LEMMA CopyHasInstance ==
  ASSUME TypeOK, SafetyInv, NEW r \in Runners, NEW copy \in RunnerRecords,
         IsCopy(copy, runners[r]), ~Absent(copy)
  PROVE  ~Absent(runners[r]) /\ instances[r].st # "none"
<1>1. ~Absent(runners[r])
  BY DEF IsCopy, Absent, RunnerRecords, TypeOK, StateTypeOK
<1>2. instances[r].st # "none"
  BY <1>1 DEF SafetyInv, TablesOK, RecordsOfInstances
<1> QED BY <1>1, <1>2

(* A pass that takes no step keeps everything. *)
LEMMA PassKept ==
  ASSUME TypeOK, SafetyInv, TablesEvolve, pass' = pass
  PROVE  PassOK'
<1>1. RunnerCopies' /\ LeaseCopies'
  BY CopiesStay DEF RunnerCopies, LeaseCopies
<1>2. ASSUME pass.pc = "save", pass.to = "terminated", ~Absent(pass.runners[pass.cur])
      PROVE  pass.cur \in Runners /\ ~Live(pass.cur)'
  <2>1. pass.cur \in Runners /\ ~Live(pass.cur)
    BY <1>2 DEF SafetyInv, PassOK, PassWork, OnRunner
  <2>2. pass.runners[pass.cur] \in RunnerRecords /\ IsCopy(pass.runners[pass.cur], runners[pass.cur])
    BY <2>1 DEF TypeOK, PassTypeOK, PassRecords, SafetyInv, PassOK, RunnerCopies
  <2> PICK r \in Runners : r = pass.cur
    BY <2>1
  <2>3. ~Live(r) /\ ~Absent(pass.runners[r]) /\ IsCopy(pass.runners[r], runners[r])
        /\ pass.runners[r] \in RunnerRecords
    BY <1>2, <2>1, <2>2
  <2>4. instances'[r].st \notin {"provisioning", "ready", "failed"}
    BY <2>3, CopyHasInstance, InstanceStays DEF TablesEvolve, InstancesEvolve, Live
  <2> QED BY <2>4 DEF Live
<1>3. ASSUME pass.pc = "saved", ~Absent(pass.copy)
      PROVE  ~Live(pass.cur)'
  <2>1. pass.cur \in Runners /\ ~Live(pass.cur) /\ IsCopy(pass.copy, runners[pass.cur])
    BY <1>3 DEF SafetyInv, PassOK, PassWork, OnRunner
  <2>2. pass.copy \in RunnerRecords
    BY DEF TypeOK, PassTypeOK, PassRecords
  <2> PICK r \in Runners : r = pass.cur
    BY <2>1
  <2>3. ~Live(r) /\ IsCopy(pass.copy, runners[r])
    BY <2>1
  <2>4. instances'[r].st \notin {"provisioning", "ready", "failed"}
    BY <1>3, <2>2, <2>3, CopyHasInstance, InstanceStays DEF TablesEvolve, InstancesEvolve, Live
  <2> QED BY <2>4 DEF Live
<1>4. PassWork'
  BY <1>2, <1>3, CopiesStay DEF PassWork, SafetyInv, PassOK, OnRunner
<1> QED BY <1>1, <1>4 DEF PassOK

-----------------------------------------------------------------------------
(* A step of a request. *)

(* No step of a request makes it a second assigner of a job. *)
LEMMA AssignerStays ==
  ASSUME TypeOK, SafetyInv, TablesEvolve, NEW h \in Handlers, RequestStep(h)
  PROVE  OneAssigner'
<1>1. ASSUME NEW i \in Handlers, i # h, handler'[i].pc \in Assigners, handler'[h].pc \in Assigners,
             JobOf[handler'[i].dlv] = JobOf[handler'[h].dlv]
      PROVE  FALSE
  <2>1. handler[i].pc \in Assigners /\ JobFor(i) = JobFor(h)
    BY <1>1 DEF RequestStep, OthersKept, BecomesAssigner, JobFor
  <2>2. ~Absent(jobs[JobFor(h)])
    BY <2>1 DEF SafetyInv, RequestsOK, RequestOK, AssignsJob
  <2>3. handler[h].pc \in Assigners
    BY <1>1, <2>2 DEF RequestStep, BecomesAssigner
  <2> QED BY <1>1, <2>1, <2>3 DEF SafetyInv, OneAssigner
<1>2. ASSUME NEW i \in Handlers, i # h, NEW k \in Handlers, k # h,
             handler'[i].pc \in Assigners, handler'[k].pc \in Assigners,
             JobOf[handler'[i].dlv] = JobOf[handler'[k].dlv]
      PROVE  i = k
  BY <1>2 DEF RequestStep, OthersKept, JobFor, SafetyInv, OneAssigner
<1> QED BY <1>1, <1>2 DEF OneAssigner, JobFor

(* A step of one request keeps the invariant. *)
LEMMA RequestStepSafe ==
  ASSUME TypeOK, SafetyInv, TablesEvolve, NEW h \in Handlers, RequestStep(h), pass' = pass
  PROVE  SafetyInv'
<1>1. ASSUME NEW i \in Handlers
      PROVE  RequestOK(i)'
  <2>1. CASE i = h
    BY <2>1 DEF RequestStep
  <2>2. CASE i # h
    BY <2>2, UntouchedKept DEF RequestStep, OthersKept
  <2> QED BY <2>1, <2>2
<1> QED BY <1>1, AssignerStays, PromisesKept, PassKept DEF SafetyInv, RequestsOK

(* A request that moves on, on the same delivery and runner. *)
LEMMA MoveStep ==
  ASSUME TypeOK, SafetyInv, TablesEvolve, NEW h \in Handlers, OthersKept(h), SameWork(h),
         Follows(handler[h].pc, handler'[h].pc)
  PROVE  RequestStep(h)
<1>1. RequestOK(h)'
  BY InheritedKept DEF Inherits
<1> QED BY <1>1 DEF RequestStep, BecomesAssigner, SameWork, Follows

(* ... in particular one that only moves on. *)
LEMMA GotoStep ==
  ASSUME TypeOK, SafetyInv, TablesEvolve, NEW h \in Handlers, NEW pc, Goto(h, pc),
         Follows(handler[h].pc, pc)
  PROVE  RequestStep(h)
<1>1. OthersKept(h) /\ SameWork(h) /\ handler'[h].pc = pc
  BY DEF Goto, TypeOK, HandlerTypeOK, Requests, OthersKept, SameWork
<1> QED BY <1>1, MoveStep

(* A request that is answered. *)
LEMMA ReturnStep ==
  ASSUME TypeOK, NEW h \in Handlers, NEW answer, Return(h, answer)
  PROVE  RequestStep(h)
<1>1. OthersKept(h) /\ handler'[h].pc = "idle"
  BY DEF Return, TypeOK, HandlerTypeOK, OthersKept, Idle
<1>2. RequestOK(h)'
  BY <1>1, ObligesNothing DEF Obliging, Provisioned, Unrecorded, Recorded, Releasing, Closing,
     Assignment, Assigners, Preparing, Owning, Assigning, Cleanup
<1> QED BY <1>1, <1>2
        DEF RequestStep, BecomesAssigner, Assigners, Preparing, Owning, Assigning, Cleanup

(* Steps from one program point to another that establish nothing new. *)
LEMMA Flow ==
  /\ \A pc : /\ Follows(pc, "undo") /\ Follows(pc, "releasePool") /\ Follows(pc, "failJob")
             /\ Follows(pc, "getFinal") /\ Follows(pc, "toFinal") /\ Follows(pc, pc)
  /\ Follows("getJob", "toProvisioning") /\ Follows("toProvisioning", "reserve")
  /\ Follows("reserve", "provision") /\ Follows("waitReady", "createRunner")
  /\ Follows("waitReady", "clTerminate") /\ Follows("createRunner", "clTerminate")
  /\ Follows("getRunner", "regPending") /\ Follows("regPending", "waitReg")
  /\ Follows("waitReg", "saveReady") /\ Follows("waitReg", "regFailed")
  /\ Follows("saveReady", "regReady") /\ Follows("regFailed", "clGet")
  /\ \A pc \in {"getRunner", "regPending", "saveReady", "regReady"} : Follows(pc, "clGet")
  /\ Follows("clGet", "clMark") /\ Follows("clMark", "clTerminate")
  /\ Follows("createLease", "dropRunner") /\ Follows("getRunning", "toRunning")
  /\ Follows("finalRunner", "terminate") /\ Follows("release", "saveRunner")
  BY DEF Follows, Provisioned, Unrecorded, Recorded, Releasing, Closing,
     Assignment, Assigners, Preparing, Owning, Assigning, Cleanup

(* A table nobody writes. *)
LEMMA Untouched ==
  /\ UNCHANGED instances => InstancesEvolve
  /\ UNCHANGED runners => RunnersEvolve
  /\ UNCHANGED leases => LeasesEvolve
  /\ UNCHANGED registration => RegistrationGrows
  /\ UNCHANGED jobs => AssignedFromLease
  /\ UNCHANGED reply => FinishAnswered
  BY DEF InstancesEvolve, RunnersEvolve, LeasesEvolve, RegistrationGrows, AssignedFromLease,
     FinishAnswered

(* An answer that does not report a finished job. *)
LEMMA OtherAnswer ==
  ASSUME TypeOK, NEW h \in Handlers, NEW answer, Return(h, answer),
         answer # "ok" \/ ActionFor(h) \notin FinalActions
  PROVE  FinishAnswered
  BY DEF Return, TypeOK, HandlerTypeOK, FinishAnswered, ActionFor

StepOK(h) == TablesEvolve /\ RequestStep(h)

(* Calls that write none of the tables, failing calls among them. *)
LEMMA QuietStep ==
  ASSUME TypeOK, SafetyInv, JobsProgress, NEW h \in Handlers,
         UNCHANGED <<jobs, runners, leases, registration, instances, reply>>,
         OthersKept(h), SameWork(h), Follows(handler[h].pc, handler'[h].pc)
  PROVE  StepOK(h)
<1>1. TablesEvolve
  BY Untouched DEF TablesEvolve
<1> QED BY <1>1, MoveStep DEF StepOK

(* ... in particular one that only moves on, *)
LEMMA QuietGoto ==
  ASSUME TypeOK, SafetyInv, JobsProgress, NEW h \in Handlers, NEW pc, Goto(h, pc),
         UNCHANGED <<jobs, runners, leases, registration, instances, reply>>,
         Follows(handler[h].pc, pc)
  PROVE  StepOK(h)
<1>1. TablesEvolve
  BY Untouched DEF TablesEvolve
<1> QED BY <1>1, GotoStep DEF StepOK

(* ... or is answered. *)
LEMMA QuietReturn ==
  ASSUME TypeOK, SafetyInv, JobsProgress, NEW h \in Handlers, NEW answer, Return(h, answer),
         UNCHANGED <<jobs, runners, leases, registration, instances>>,
         answer # "ok" \/ ActionFor(h) \notin FinalActions
  PROVE  StepOK(h)
<1>1. TablesEvolve
  BY Untouched, OtherAnswer DEF TablesEvolve
<1> QED BY <1>1, ReturnStep DEF StepOK

(* GetJob reads. *)
LEMMA ReadJobStep ==
  ASSUME TypeOK, SafetyInv, JobsProgress, NEW h \in Handlers, NEW pc, NEW next, ReadJob(h, pc, next),
         Follows(pc, next)
  PROVE  StepOK(h)
<1>1. OthersKept(h) /\ SameWork(h) /\ handler'[h].pc \in {"undo", next} /\ handler[h].pc = pc
  BY DEF ReadJob, InContext, At, TypeOK, HandlerTypeOK, Requests, OthersKept, SameWork
<1>2. UNCHANGED <<jobs, runners, leases, registration, instances, reply>>
  BY DEF ReadJob, shared
<1> QED BY <1>1, <1>2, Flow, QuietStep

(* GetRunner reads. *)
LEMMA ReadRunnerStep ==
  ASSUME TypeOK, SafetyInv, JobsProgress, NEW h \in Handlers, NEW pc, NEW next,
         ReadRunner(h, pc, next), Follows(pc, next)
  PROVE  StepOK(h)
<1>1. OthersKept(h) /\ SameWork(h) /\ handler'[h].pc = next /\ handler[h].pc = pc
  BY DEF ReadRunner, At, TypeOK, HandlerTypeOK, Requests, OthersKept, SameWork
<1>2. UNCHANGED <<jobs, runners, leases, registration, instances, reply>>
  BY DEF ReadRunner, shared
<1> QED BY <1>1, <1>2, QuietStep

(* A failing call: the request goes where the code's error path takes it. *)
LEMMA FailureStep ==
  ASSUME TypeOK, SafetyInv, JobsProgress, NEW h \in Handlers, HandlerFailure(h)
  PROVE  StepOK(h)
<1>1. CASE RepositoryCallFails(h)
  <2> DEFINE pc == handler[h].pc
  <2>1. /\ pc \in RepositoryCalls /\ Goto(h, RepositoryErrorPC(pc))
        /\ UNCHANGED <<jobs, runners, leases, registration, instances, reply>>
    BY <1>1 DEF RepositoryCallFails, RepositoryError, store
  <2>2. Follows(pc, RepositoryErrorPC(pc))
    BY <2>1, Flow DEF RepositoryErrorPC, RepositoryCalls, Intake, Running, Finishing
  <2> QED BY <2>1, <2>2, QuietGoto
<1>2. CASE ProviderCallFails(h)
  <2> DEFINE pc == handler[h].pc
  <2>1. /\ pc \in ProviderCalls /\ Goto(h, ProviderError(pc))
        /\ UNCHANGED <<jobs, runners, leases, registration, instances, reply>>
    BY <1>2 DEF ProviderCallFails, store
  <2>2. Follows(pc, ProviderError(pc))
    BY <2>1, Flow DEF ProviderError, ProviderCalls
  <2> QED BY <2>1, <2>2, QuietGoto
<1>3. CASE CleanupCallFails(h)
  <2> DEFINE pc == handler[h].pc
  <2>1. /\ pc \in Cleanup \cup {"regFailed"} /\ Goto(h, CleanupError(pc))
        /\ UNCHANGED <<jobs, runners, leases, registration, instances, reply>>
    BY <1>3 DEF CleanupCallFails, store
  <2>2. Follows(pc, CleanupError(pc))
    BY <2>1, Flow DEF CleanupError, Cleanup
  <2> QED BY <2>1, <2>2, QuietGoto
<1>4. CASE InsertFails(h)
  BY <1>4, QuietReturn DEF InsertFails, store
<1>5. CASE IgnoredCallFails(h)
  BY <1>5, Flow, QuietReturn, QuietGoto DEF IgnoredCallFails, store, At
<1> QED BY <1>1, <1>2, <1>3, <1>4, <1>5 DEF HandlerFailure

(* Calls that only read, or write the marker or the pool's counter. *)
LEMMA ReadStep ==
  ASSUME TypeOK, SafetyInv, JobsProgress, NEW h \in Handlers,
         \/ InsertDuplicate(h) \/ GetJob(h) \/ GetRunning(h) \/ GetFinal(h) \/ Reserve(h)
         \/ GetRunner(h) \/ RunnerOnline(h) \/ RegistrationTimesOut(h) \/ CleanupGet(h)
         \/ ReleaseReservation(h) \/ Undo(h) \/ FinalRunner(h) \/ ReleaseCapacity(h)
  PROVE  StepOK(h)
<1>1. CASE InsertDuplicate(h)
  BY <1>1, QuietReturn DEF InsertDuplicate, shared
<1>2. CASE Undo(h)
  BY <1>2, QuietReturn DEF Undo
<1>3. CASE GetJob(h) \/ GetRunning(h) \/ GetFinal(h)
  BY <1>3, Flow, ReadJobStep DEF GetJob, GetRunning, GetFinal
<1>4. CASE GetRunner(h) \/ CleanupGet(h) \/ FinalRunner(h)
  BY <1>4, Flow, ReadRunnerStep DEF GetRunner, CleanupGet, FinalRunner
<1>5. CASE Reserve(h)
  BY <1>5, Flow, QuietGoto DEF Reserve, At, store
<1>6. CASE RunnerOnline(h) \/ RegistrationTimesOut(h)
  BY <1>6, Flow, QuietGoto DEF RunnerOnline, RegistrationTimesOut, InContext, At, shared
<1>7. CASE ReleaseReservation(h) \/ ReleaseCapacity(h)
  BY <1>7, Flow, QuietGoto DEF ReleaseReservation, ReleaseCapacity, At, store
<1> QED BY <1>1, <1>2, <1>3, <1>4, <1>5, <1>6, <1>7

-----------------------------------------------------------------------------
(* A step of a request that establishes something. *)

(* InsertNew sends only the deliveries of a job that does not end on to the  *)
(* assignment and to in_progress.                                            *)
LEMMA InsertStep ==
  ASSUME TypeOK, SafetyInv, JobsProgress, NEW h \in Handlers, InsertNew(h)
  PROVE  StepOK(h)
<1> DEFINE pc == FirstCall(ActionFor(h))
<1>1. TablesEvolve
  BY Untouched DEF InsertNew, TablesEvolve
<1>2. /\ OthersKept(h) /\ SameWork(h) /\ handler'[h].pc = pc
  BY DEF InsertNew, Goto, TypeOK, HandlerTypeOK, Requests, OthersKept, SameWork
<1>3. pc \in {"createJob", "getRunning", "getFinal"}
      /\ (pc # "getFinal" => ActionFor(h) \notin FinalActions)
  BY DEF FirstCall, FinalActions
<1> HIDE DEF pc
<1>4. /\ pc \notin Provisioned /\ pc \notin Unrecorded /\ pc \notin Recorded
      /\ pc \notin Releasing /\ pc \notin Closing \cup {"getLease", "saveLease", "toAssigned"}
      /\ pc \notin Assigners /\ pc \notin Preparing /\ (pc \in Assignment => pc # "getFinal")
  BY <1>3 DEF Provisioned, Unrecorded, Recorded, Releasing, Closing,
     Assignment, Assigners, Preparing, Owning, Assigning, Cleanup
<1>5. AssignsJob(h)'
  BY <1>2, <1>3, <1>4 DEF AssignsJob, SameWork, ActionFor
<1>6. OwnsInstance(h)' /\ HoldsRecord(h)' /\ HasReleased(h)' /\ HoldsLease(h)'
  BY <1>2, <1>4 DEF OwnsInstance, HoldsRecord, HasReleased, HoldsLease, Recorded, At
<1> QED BY <1>1, <1>2, <1>4, <1>5, <1>6 DEF StepOK, RequestStep, BecomesAssigner, RequestOK

(* The parts of a request's duties that a step to pc adds nothing to. *)
LEMMA RestKept ==
  ASSUME TypeOK, SafetyInv, TablesEvolve, NEW h \in Handlers, SameWork(h)
  PROVE  /\ (handler'[h].pc \in Provisioned => handler[h].pc \in Provisioned) => OwnsInstance(h)'
         /\ (handler'[h].pc \in Releasing => handler[h].pc \in Releasing) => HasReleased(h)'
         /\ (handler'[h].pc \notin Unrecorded \cup Recorded) => HoldsRecord(h)'
         /\ (handler'[h].pc \notin Closing \cup {"getLease", "toAssigned"}) => HoldsLease(h)'
         /\ (/\ handler'[h].pc \in Assigners => handler[h].pc \in Assigners
             /\ handler'[h].pc \in Preparing => handler[h].pc \in Preparing
             /\ handler'[h].pc \in Assignment => handler[h].pc \in Assignment) => AssignsJob(h)'
<1>1. (handler'[h].pc \in Provisioned => handler[h].pc \in Provisioned) => OwnsInstance(h)'
  BY OwnsInstanceKept
<1>2. (handler'[h].pc \in Releasing => handler[h].pc \in Releasing) => HasReleased(h)'
  BY HasReleasedKept
<1>3. (handler'[h].pc \notin Unrecorded \cup Recorded) => HoldsRecord(h)'
  BY DEF HoldsRecord, At, Recorded
<1>4. (handler'[h].pc \notin Closing \cup {"getLease", "toAssigned"}) => HoldsLease(h)'
  BY DEF HoldsLease, At, Closing
<1>5. (/\ handler'[h].pc \in Assigners => handler[h].pc \in Assigners
       /\ handler'[h].pc \in Preparing => handler[h].pc \in Preparing
       /\ handler'[h].pc \in Assignment => handler[h].pc \in Assignment) => AssignsJob(h)'
  BY AssignsJobKept DEF SameWork
<1> QED BY <1>1, <1>2, <1>3, <1>4, <1>5

(* CreateJob: whoever creates the job is the first to assign it, since       *)
(* instances, leases and assigners belong to recorded jobs.                  *)
LEMMA CreateJobStep ==
  ASSUME TypeOK, SafetyInv, CopiesMatchRevisions, JobsProgress, NEW h \in Handlers, CreateJob(h)
  PROVE  StepOK(h)
<1> DEFINE j == JobFor(h)
<1>1. handler[h].pc = "createJob" /\ j \in Jobs /\ ActionFor(h) \notin FinalActions
  BY WorksOnJob DEF CreateJob, InContext, At, TypeOK, SafetyInv, RequestsOK, RequestOK, AssignsJob,
     Assignment
<1>2. CASE ~Absent(jobs[j])
  BY <1>1, <1>2, QuietReturn DEF CreateJob
<1>3. CASE Absent(jobs[j])
  <2>1. /\ Goto(h, "getJob") /\ reply' = reply
        /\ jobs' = [jobs EXCEPT ![j] = [st |-> "queued", rev |-> 1]]
    BY <1>3 DEF CreateJob
  <2>2. \A i \in Jobs : jobs'[i] = IF i = j THEN [st |-> "queued", rev |-> 1] ELSE jobs[i]
    BY <1>1, <2>1 DEF TypeOK, StateTypeOK
  <2>3. AssignedFromLease
    BY <2>2 DEF AssignedFromLease
  <2>4. TablesEvolve
    BY <2>1, <2>3, Untouched DEF CreateJob, TablesEvolve
  <2>5. /\ OthersKept(h) /\ SameWork(h) /\ handler'[h].pc = "getJob"
    BY <2>1 DEF Goto, TypeOK, HandlerTypeOK, Requests, OthersKept, SameWork
  <2>6. \A r \in Runners : instances[r].job # j
    BY <1>1, <1>3 DEF SafetyInv, TablesOK, InstancesOfJobs
  <2>7. Absent(leases[j])
    BY <1>1, <2>6, LeaseHasInstance
  <2>8. AssignsJob(h)'
    <3>1. UNCHANGED <<instances, leases>> /\ ~Absent(jobs'[j])
      BY <1>1, <2>2 DEF CreateJob, Absent
    <3> QED BY <1>1, <2>5, <2>6, <2>7, <3>1 DEF AssignsJob, SameWork, ActionFor, JobFor
  <2>9. OwnsInstance(h)' /\ HoldsRecord(h)' /\ HasReleased(h)' /\ HoldsLease(h)'
    BY <2>5 DEF OwnsInstance, HoldsRecord, HasReleased, HoldsLease, At, Provisioned, Unrecorded,
       Recorded, Releasing, Closing, Owning, Assigning, Cleanup
  <2> QED BY <1>1, <1>3, <2>4, <2>5, <2>8, <2>9
          DEF StepOK, RequestStep, BecomesAssigner, RequestOK, At, SameWork
<1> QED BY <1>2, <1>3

(* Provision: the instance is new, and the job's only one. *)
LEMMA ProvisionStep ==
  ASSUME TypeOK, SafetyInv, JobsProgress, NEW h \in Handlers, NEW r \in Runners, Provision(h, r)
  PROVE  StepOK(h)
<1> DEFINE j == JobFor(h)
<1>1. handler[h].pc = "provision" /\ j \in Jobs /\ instances[r].st = "none"
  BY WorksOnJob DEF Provision, InContext, At, TypeOK
<1>2. /\ instances'[r] = [st |-> "provisioning", job |-> j]
      /\ \A q \in Runners \ {r} : instances'[q] = instances[q]
  BY DEF Provision, TypeOK, StateTypeOK
<1>3. /\ OthersKept(h) /\ handler'[h].dlv = handler[h].dlv /\ handler'[h].r = r
      /\ handler'[h].pc = "waitReady"
  BY DEF Provision, TypeOK, HandlerTypeOK, Requests, OthersKept
<1>4. InstancesEvolve
  BY <1>1, <1>2, <1>3 DEF InstancesEvolve, At
<1>5. TablesEvolve
  BY <1>4, Untouched DEF Provision, TablesEvolve, store
<1>6. AssignsJob(h)'
  BY <1>1, <1>3, <1>5, AssignsJobKept DEF Assigners, Assignment, Preparing, Owning, Assigning
<1>7. OwnsInstance(h)'
  BY <1>2, <1>3 DEF OwnsInstance, JobFor
<1>8. Absent(runners[r]) /\ runners' = runners
  BY <1>1 DEF SafetyInv, TablesOK, RecordsOfInstances, Provision, store
<1>9. HoldsRecord(h)'
  BY <1>3, <1>8 DEF HoldsRecord, Recorded, At
<1>10. HasReleased(h)' /\ HoldsLease(h)'
  BY <1>3 DEF HasReleased, HoldsLease, At, Releasing, Closing
<1>11. BecomesAssigner(h)
  BY <1>1, <1>3 DEF BecomesAssigner, Assigners, Preparing
<1> QED BY <1>3, <1>5, <1>6, <1>7, <1>9, <1>10, <1>11 DEF StepOK, RequestStep, RequestOK

(* Provider.Terminate. *)
LEMMA TerminateEvolves ==
  ASSUME TypeOK, NEW r \in Runners, TerminateInstance(r)
  PROVE  InstancesEvolve /\ instances'[r].st \notin {"provisioning", "ready", "failed"}
<1>1. CASE Live(r)
  <2>1. instances' = [instances EXCEPT ![r].st = "terminating"]
    BY <1>1 DEF TerminateInstance
  <2>2. /\ instances'[r].st = "terminating" /\ instances'[r].job = instances[r].job
        /\ \A q \in Runners \ {r} : instances'[q] = instances[q]
    BY <2>1 DEF TypeOK, StateTypeOK, InstanceRecords
  <2> QED BY <1>1, <2>2 DEF InstancesEvolve, Live
<1>2. CASE ~Live(r)
  BY <1>2 DEF TerminateInstance, InstancesEvolve, Live
<1> QED BY <1>1, <1>2

(* WaitReady, and the terminations a request asks for.  CleanupTerminate and *)
(* TerminateRunner are what entitles it to record "terminated".              *)
LEMMA InstanceStep ==
  ASSUME TypeOK, SafetyInv, JobsProgress, NEW h \in Handlers,
         WaitReady(h) \/ CleanupTerminate(h) \/ DropRunner(h) \/ TerminateRunner(h)
  PROVE  StepOK(h)
<1> DEFINE r == handler[h].r
<1>1. CASE WaitReady(h)
  <2>1. handler[h].pc = "waitReady" /\ r \in Runners
    BY <1>1 DEF WaitReady, InContext, At, TypeOK, HandlerTypeOK, RunnerPCs, Assigning
  <2>2. InstancesEvolve
    <3>1. CASE instances[r].st = "provisioning"
      <4>1. instances' = [instances EXCEPT ![r].st = "ready"]
        BY <1>1, <3>1 DEF WaitReady
      <4>2. /\ instances'[r].st = "ready" /\ instances'[r].job = instances[r].job
            /\ \A q \in Runners \ {r} : instances'[q] = instances[q]
        BY <2>1, <4>1 DEF TypeOK, StateTypeOK, InstanceRecords
      <4> QED BY <3>1, <4>2 DEF InstancesEvolve, Live
    <3>2. CASE instances[r].st # "provisioning"
      BY <1>1, <3>2, Untouched DEF WaitReady
    <3> QED BY <3>1, <3>2
  <2>3. TablesEvolve
    BY <1>1, <2>2, Untouched DEF WaitReady, TablesEvolve, store
  <2> QED BY <1>1, <2>1, <2>3, Flow, GotoStep DEF WaitReady, StepOK
<1>2. CASE DropRunner(h)
  <2>1. handler[h].pc = "dropRunner" /\ r \in Runners
    BY <1>2 DEF DropRunner, At, TypeOK, HandlerTypeOK, RunnerPCs
  <2>2. InstancesEvolve
    BY <1>2, <2>1, TerminateEvolves, Untouched DEF DropRunner
  <2>3. TablesEvolve
    BY <1>2, <2>2, Untouched DEF DropRunner, TablesEvolve, store
  <2> QED BY <1>2, <2>1, <2>3, Flow, GotoStep DEF DropRunner, StepOK
<1>3. CASE CleanupTerminate(h)
  <2>1. handler[h].pc = "clTerminate" /\ r \in Runners
    BY <1>3 DEF CleanupTerminate, At, TypeOK, HandlerTypeOK, RunnerPCs, Cleanup
  <2>2. InstancesEvolve /\ instances'[r].st \notin {"provisioning", "ready", "failed"}
    BY <1>3, <2>1, TerminateEvolves DEF CleanupTerminate
  <2>3. TablesEvolve
    BY <1>3, <2>2, Untouched DEF CleanupTerminate, TablesEvolve, store
  <2>4. CASE ~handler[h].saved
    BY <1>3, <2>1, <2>3, <2>4, Flow, GotoStep DEF CleanupTerminate, StepOK
  <2>5. CASE handler[h].saved
    <3>1. OthersKept(h) /\ SameWork(h) /\ handler'[h].pc = "clTerminated"
      BY <1>3, <2>5
         DEF CleanupTerminate, Goto, TypeOK, HandlerTypeOK, Requests, OthersKept, SameWork
    <3>2. HasReleased(h)'
      BY <2>2, <3>1 DEF HasReleased, Live, SameWork
    <3>3. OwnsInstance(h)' /\ HoldsRecord(h)' /\ HoldsLease(h)' /\ AssignsJob(h)'
      BY <2>1, <2>3, <3>1, RestKept DEF Provisioned, Unrecorded, Recorded, Closing, Assigners,
         Preparing, Owning, Assignment, Assigning, Cleanup
    <3>4. BecomesAssigner(h)
      BY <2>1, <3>1 DEF BecomesAssigner, SameWork, Assigners, Owning, Cleanup
    <3> QED BY <2>3, <3>1, <3>2, <3>3, <3>4 DEF StepOK, RequestStep, RequestOK
  <2> QED BY <2>4, <2>5
<1>4. CASE TerminateRunner(h)
  <2>1. handler[h].pc = "terminate" /\ r \in Runners
    BY <1>4 DEF TerminateRunner, InContext, At, TypeOK, HandlerTypeOK, RunnerPCs, Cleanup
  <2>2. InstancesEvolve /\ instances'[r].st \notin {"provisioning", "ready", "failed"}
    BY <1>4, <2>1, TerminateEvolves DEF TerminateRunner
  <2>3. TablesEvolve
    BY <1>4, <2>2, Untouched DEF TerminateRunner, TablesEvolve, store
  <2>4. OthersKept(h) /\ SameWork(h) /\ handler'[h].pc = "release"
    BY <1>4 DEF TerminateRunner, Goto, TypeOK, HandlerTypeOK, Requests, OthersKept, SameWork
  <2>5. HasReleased(h)'
    BY <2>2, <2>4 DEF HasReleased, Live, SameWork
  <2>6. OwnsInstance(h)' /\ HoldsRecord(h)' /\ AssignsJob(h)'
    BY <2>1, <2>3, <2>4, RestKept DEF Provisioned, Unrecorded, Recorded, Assigners,
       Preparing, Owning, Assignment, Assigning, Cleanup
  <2>7. HoldsLease(h)'
    BY <2>1, <2>3, <2>4, HoldsLeaseKept DEF Closing
  <2>8. BecomesAssigner(h)
    BY <2>4 DEF BecomesAssigner, Assigners, Preparing, Owning, Assigning, Cleanup
  <2> QED BY <2>3, <2>4, <2>5, <2>6, <2>7, <2>8 DEF StepOK, RequestStep, RequestOK
<1> QED BY <1>1, <1>2, <1>3, <1>4

(* CreateRunner: the record of the request's own instance. *)
LEMMA CreateRunnerStep ==
  ASSUME TypeOK, SafetyInv, JobsProgress, NEW h \in Handlers, CreateRunner(h)
  PROVE  StepOK(h)
<1> DEFINE r == handler[h].r
           next == IF JIT THEN "getRunner" ELSE "createLease"
<1>1. handler[h].pc = "createRunner" /\ r \in Runners
  BY DEF CreateRunner, InContext, At, TypeOK, HandlerTypeOK, RunnerPCs, Assigning
<1>2. Absent(runners[r])
  BY <1>1 DEF SafetyInv, RequestsOK, RequestOK, HoldsRecord, Unrecorded
<1>3. /\ runners'[r] = [st |-> IF JIT THEN "provisioning" ELSE "ready", job |-> JobFor(h), rev |-> 1]
      /\ \A q \in Runners \ {r} : runners'[q] = runners[q]
  BY <1>1 DEF CreateRunner, TypeOK, StateTypeOK
<1>4. OthersKept(h) /\ SameWork(h) /\ handler'[h].pc = next
  BY DEF CreateRunner, TypeOK, HandlerTypeOK, Requests, OthersKept, SameWork
<1>5. next \in Recorded /\ next \notin Unrecorded
  BY DEF Recorded, Unrecorded
<1>6. /\ runners'[r].rev = 1 /\ runners'[r].st # "terminated" /\ runners'[r].job = JobFor(h)
  BY <1>3
<1>7. RunnersEvolve
  BY <1>1, <1>2, <1>3, <1>4, <1>5, <1>6 DEF RunnersEvolve, At
<1>8. TablesEvolve
  BY <1>7, Untouched DEF CreateRunner, TablesEvolve
<1>9. HoldsRecord(h)'
  BY <1>4, <1>5, <1>6 DEF HoldsRecord, At, SameWork, Absent
<1>10. OwnsInstance(h)' /\ HasReleased(h)' /\ HoldsLease(h)' /\ AssignsJob(h)'
  BY <1>1, <1>4, <1>8, RestKept DEF Provisioned, Releasing, Closing, Assigners,
     Preparing, Owning, Assignment, Assigning, Cleanup
<1>11. BecomesAssigner(h)
  BY <1>1, <1>4 DEF BecomesAssigner, SameWork, Assigners, Owning, Assigning
<1> QED BY <1>4, <1>8, <1>9, <1>10, <1>11 DEF StepOK, RequestStep, RequestOK

(* SaveRunner of a request: of the runner it is assigning, which has no      *)
(* lease, or of one it has terminated.                                       *)
LEMMA WriteRunnerEvolves ==
  ASSUME TypeOK, SafetyInv, NEW h \in Handlers, NEW st \in RunnerStates, NEW next, NEW conflict,
         handler[h].pc \in RunnerPCs, WriteRunner(h, st, next, conflict),
         st = "terminated" => ~Live(handler[h].r),
         st # "terminated" => handler[h].pc \in Owning
  PROVE  /\ RunnersEvolve /\ OthersKept(h) /\ SameWork(h)
         /\ \/ handler'[h].pc = next /\ runners'[handler[h].r].st = st
            \/ handler'[h].pc = conflict
<1> DEFINE r == handler[h].r
<1>1. r \in Runners
  BY DEF TypeOK, HandlerTypeOK
<1>2. CASE ~CanSave(runners, r, handler[h].rrev)
  <2>1. Goto(h, conflict) /\ runners' = runners
    BY <1>2 DEF WriteRunner
  <2> QED BY <2>1, Untouched
          DEF Goto, TypeOK, HandlerTypeOK, Requests, OthersKept, SameWork
<1>3. CASE CanSave(runners, r, handler[h].rrev)
  <2> DEFINE n == runners[r].rev + 1
  <2>0. runners' = [runners EXCEPT ![r] = Advanced(runners[r], st)]
    BY <1>1, <1>3 DEF WriteRunner
  <2>1. /\ handler'[h].pc = next /\ OthersKept(h) /\ SameWork(h)
    BY <1>3 DEF WriteRunner, TypeOK, HandlerTypeOK, Requests, OthersKept, SameWork
  <2>2. runners[r] \in RunnerRecords
    BY <1>1 DEF TypeOK, StateTypeOK
  <2>3. /\ Advanced(runners[r], st).rev = n /\ Advanced(runners[r], st).st = st
        /\ Advanced(runners[r], st).job = runners[r].job
    BY <2>2 DEF Advanced, RunnerRecords
  <2>4. /\ runners'[r].rev = runners[r].rev + 1 /\ runners'[r].st = st
        /\ runners'[r].job = runners[r].job
        /\ \A q \in Runners \ {r} : runners'[q] = runners[q]
    BY <1>1, <2>0, <2>3 DEF TypeOK, StateTypeOK
  <2>5. ~Absent(runners[r])
    BY <1>3 DEF CanSave
  <2>6. st # "terminated" => ~Leased(r)
    <3> SUFFICES ASSUME st # "terminated", NEW j \in Jobs, ~Absent(leases[j]), leases[j].runner = r
                 PROVE  FALSE
      BY DEF Leased
    <3>1. instances[r].job = j
      BY LeaseHasInstance
    <3>2. instances[r].job = JobFor(h) /\ Absent(leases[JobFor(h)])
      BY DEF SafetyInv, RequestsOK, RequestOK, OwnsInstance, AssignsJob, Provisioned, Assigners
    <3> QED BY <3>1, <3>2
  <2>7. RunnersEvolve
    BY <2>4, <2>5, <2>6 DEF RunnersEvolve
  <2> QED BY <2>1, <2>4, <2>7
<1> QED BY <1>2, <1>3

(* SaveRunner: Assign's save as ready, the two saves of its cleanup, and     *)
(* finish's, after which the lease's runner is recorded as terminated.       *)
LEMMA SaveRunnerStep ==
  ASSUME TypeOK, SafetyInv, JobsProgress, NEW h \in Handlers,
         SaveReady(h) \/ CleanupMark(h) \/ CleanupTerminated(h) \/ SaveTerminated(h)
  PROVE  StepOK(h)
<1> DEFINE r == handler[h].r
           j == JobFor(h)
<1>1. CASE SaveReady(h)
  <2>1. handler[h].pc = "saveReady" /\ WriteRunner(h, "ready", "regReady", "clGet")
    BY <1>1 DEF SaveReady, InContext, At
  <2>2. /\ RunnersEvolve /\ OthersKept(h) /\ SameWork(h)
        /\ handler'[h].pc \in {"regReady", "clGet"}
    BY <2>1, WriteRunnerEvolves DEF RunnerPCs, Owning, Assigning, RunnerStates
  <2>3. TablesEvolve
    BY <1>1, <2>2, Untouched DEF SaveReady, TablesEvolve
  <2> QED BY <2>1, <2>2, <2>3, Flow, MoveStep DEF StepOK
<1>2. CASE CleanupMark(h)
  <2>1. handler[h].pc = "clMark" /\ WriteRunner(h, "terminating", "clTerminate", "releasePool")
    BY <1>2 DEF CleanupMark, At
  <2>2. /\ RunnersEvolve /\ OthersKept(h) /\ SameWork(h)
        /\ handler'[h].pc \in {"clTerminate", "releasePool"}
    BY <2>1, WriteRunnerEvolves DEF RunnerPCs, Owning, Cleanup, RunnerStates
  <2>3. TablesEvolve
    BY <1>2, <2>2, Untouched DEF CleanupMark, TablesEvolve
  <2> QED BY <2>1, <2>2, <2>3, Flow, MoveStep DEF StepOK
<1>3. CASE CleanupTerminated(h)
  <2>1. handler[h].pc = "clTerminated" /\ WriteRunner(h, "terminated", "releasePool", "releasePool")
    BY <1>3 DEF CleanupTerminated, At
  <2>2. ~Live(r)
    BY <2>1 DEF SafetyInv, RequestsOK, RequestOK, HasReleased, Releasing
  <2>3. /\ RunnersEvolve /\ OthersKept(h) /\ SameWork(h) /\ handler'[h].pc = "releasePool"
    BY <2>1, <2>2, WriteRunnerEvolves DEF RunnerPCs, Owning, Cleanup, RunnerStates
  <2>4. TablesEvolve
    BY <1>3, <2>3, Untouched DEF CleanupTerminated, TablesEvolve
  <2> QED BY <2>1, <2>3, <2>4, Flow, MoveStep DEF StepOK
<1>4. CASE SaveTerminated(h)
  <2>1. handler[h].pc = "saveRunner" /\ WriteRunner(h, "terminated", "saveLease", "undo")
    BY <1>4 DEF SaveTerminated, InContext, At
  <2>2. ~Live(r)
    BY <2>1 DEF SafetyInv, RequestsOK, RequestOK, HasReleased, Releasing
  <2>3. /\ RunnersEvolve /\ OthersKept(h) /\ SameWork(h)
        /\ \/ handler'[h].pc = "saveLease" /\ runners'[r].st = "terminated"
           \/ handler'[h].pc = "undo"
    BY <2>1, <2>2, WriteRunnerEvolves DEF RunnerPCs, RunnerStates
  <2>4. TablesEvolve
    BY <1>4, <2>3, Untouched DEF SaveTerminated, TablesEvolve
  <2>5. CASE handler'[h].pc = "undo"
    BY <2>3, <2>4, <2>5, Flow, MoveStep DEF StepOK
  <2>6. CASE handler'[h].pc = "saveLease" /\ runners'[r].st = "terminated"
    <3>1. ~Absent(leases[j]) /\ leases[j].runner = r /\ Terminal(jobs[j].st)
      BY <2>1 DEF SafetyInv, RequestsOK, RequestOK, HoldsLease, Closing
    <3>2. UNCHANGED <<jobs, leases>>
      BY <1>4 DEF SaveTerminated
    <3>3. HoldsLease(h)'
      BY <2>3, <2>6, <3>1, <3>2 DEF HoldsLease, At, SameWork, JobFor
    <3>4. OwnsInstance(h)' /\ HoldsRecord(h)' /\ AssignsJob(h)' /\ HasReleased(h)'
      BY <2>1, <2>3, <2>4, <2>6, RestKept DEF Provisioned, Unrecorded, Recorded, Releasing,
         Assigners, Preparing, Owning, Assignment, Assigning, Cleanup
    <3>5. BecomesAssigner(h)
      BY <2>6 DEF BecomesAssigner, Assigners, Preparing, Owning, Assigning, Cleanup
    <3> QED BY <2>3, <2>4, <3>3, <3>4, <3>5 DEF StepOK, RequestStep, RequestOK
  <2> QED BY <2>3, <2>5, <2>6
<1> QED BY <1>1, <1>2, <1>3, <1>4

(* persistRegistration: the runner that goes on to CreateLease is recorded   *)
(* as ready.                                                                 *)
LEMMA RegisterStep ==
  ASSUME TypeOK, SafetyInv, JobsProgress, NEW h \in Handlers,
         RegisterPending(h) \/ RegisterFailed(h) \/ RegisterReady(h)
  PROVE  StepOK(h)
<1> DEFINE r == handler[h].r
<1>1. ASSUME NEW st, NEW next, Register(h, st, next)
      PROVE  /\ \A q \in Runners :
                  registration'[q] = IF q = r THEN registration[q] \cup {st} ELSE registration[q]
             /\ TablesEvolve
  <2>1. \A q \in Runners :
          registration'[q] = IF q = r THEN registration[q] \cup {st} ELSE registration[q]
    BY <1>1 DEF Register, TypeOK, StateTypeOK
  <2>2. RegistrationGrows
    BY <2>1 DEF RegistrationGrows
  <2> QED BY <1>1, <2>1, <2>2, Untouched DEF Register, TablesEvolve
<1>2. CASE RegisterPending(h) \/ RegisterFailed(h)
  BY <1>1, <1>2, Flow, GotoStep DEF RegisterPending, RegisterFailed, Register, InContext, At, StepOK
<1>3. CASE RegisterReady(h)
  <2>1. handler[h].pc = "regReady" /\ r \in Runners /\ Register(h, "ready", "createLease")
    BY <1>3 DEF RegisterReady, InContext, At, TypeOK, HandlerTypeOK, RunnerPCs, Assigning
  <2>2. TablesEvolve /\ "ready" \in registration'[r] /\ runners' = runners
    <3>1. TablesEvolve /\ registration'[r] = registration[r] \cup {"ready"}
      BY <1>1, <2>1
    <3> QED BY <2>1, <3>1 DEF Register
  <2>3. OthersKept(h) /\ SameWork(h) /\ handler'[h].pc = "createLease"
    BY <2>1 DEF Register, Goto, TypeOK, HandlerTypeOK, Requests, OthersKept, SameWork
  <2>4. ~Absent(runners[r])
    BY <2>1 DEF SafetyInv, RequestsOK, RequestOK, HoldsRecord, Recorded
  <2>5. HoldsRecord(h)'
    BY <2>2, <2>3, <2>4 DEF HoldsRecord, Unrecorded, SameWork, At
  <2>6. OwnsInstance(h)' /\ HasReleased(h)' /\ HoldsLease(h)' /\ AssignsJob(h)'
    BY <2>1, <2>2, <2>3, RestKept DEF Provisioned, Releasing, Closing,
       Assigners, Preparing, Owning, Assignment, Assigning, Cleanup
  <2>7. BecomesAssigner(h)
    BY <2>1, <2>3 DEF BecomesAssigner, SameWork, Assigners, Owning, Assigning
  <2> QED BY <2>2, <2>3, <2>5, <2>6, <2>7 DEF StepOK, RequestStep, RequestOK
<1> QED BY <1>2, <1>3

(* CreateLease: the lease of a registered runner, which is the job's.        *)
LEMMA CreateLeaseStep ==
  ASSUME TypeOK, SafetyInv, JobsProgress, NEW h \in Handlers, CreateLease(h)
  PROVE  StepOK(h)
<1> DEFINE j == JobFor(h)
           r == handler[h].r
<1>1. handler[h].pc = "createLease" /\ j \in Jobs
  BY WorksOnJob DEF CreateLease, InContext, At, TypeOK
<1>2. CASE ~Absent(leases[j])
  BY <1>1, <1>2, Flow, QuietGoto DEF CreateLease
<1>3. CASE Absent(leases[j])
  <2>1. /\ Goto(h, "toAssigned")
        /\ leases' = [leases EXCEPT ![j] = [st |-> "active", runner |-> r, rev |-> 1]]
    BY <1>3 DEF CreateLease
  <2>2. /\ leases'[j] = [st |-> "active", runner |-> r, rev |-> 1]
        /\ \A i \in Jobs \ {j} : leases'[i] = leases[i]
    BY <1>1, <2>1 DEF TypeOK, StateTypeOK
  <2>3. OthersKept(h) /\ SameWork(h) /\ handler'[h].pc = "toAssigned"
    BY <2>1 DEF Goto, TypeOK, HandlerTypeOK, Requests, OthersKept, SameWork
  <2>4. LeasesEvolve
    BY <1>1, <1>3, <2>2, <2>3 DEF LeasesEvolve, At
  <2>5. TablesEvolve
    BY <2>4, Untouched DEF CreateLease, TablesEvolve
  <2>6. HoldsLease(h)'
    BY <2>2, <2>3 DEF HoldsLease, Closing, At, SameWork, JobFor, Absent
  <2>7. OwnsInstance(h)' /\ HoldsRecord(h)' /\ HasReleased(h)' /\ AssignsJob(h)'
    BY <1>1, <2>3, <2>5, RestKept DEF Provisioned, Unrecorded, Recorded, Releasing,
       Assigners, Preparing, Owning, Assignment, Assigning, Cleanup
  <2>8. BecomesAssigner(h)
    BY <2>3 DEF BecomesAssigner, Assigners, Preparing, Owning, Assigning, Cleanup
  <2> QED BY <2>3, <2>5, <2>6, <2>7, <2>8 DEF StepOK, RequestStep, RequestOK
<1> QED BY <1>2, <1>3

(* GetLease: finish works on the runner the lease names. *)
LEMMA GetLeaseStep ==
  ASSUME TypeOK, SafetyInv, JobsProgress, NEW h \in Handlers, GetLease(h)
  PROVE  StepOK(h)
<1> DEFINE j == JobFor(h)
<1>1. handler[h].pc = "getLease" /\ j \in Jobs
  BY WorksOnJob DEF GetLease, InContext, At, TypeOK
<1>2. UNCHANGED <<jobs, runners, leases, registration, instances, reply>>
  BY DEF GetLease, shared
<1>3. CASE Absent(leases[j])
  <2>1. OthersKept(h) /\ SameWork(h) /\ handler'[h].pc = "undo"
    BY <1>3 DEF GetLease, TypeOK, HandlerTypeOK, Requests, OthersKept, SameWork
  <2> QED BY <1>2, <2>1, Flow, QuietStep
<1>4. CASE ~Absent(leases[j])
  <2>1. /\ OthersKept(h) /\ handler'[h].pc = "finalRunner" /\ handler'[h].dlv = handler[h].dlv
        /\ handler'[h].r = leases[j].runner
    BY <1>4 DEF GetLease, TypeOK, HandlerTypeOK, Requests, OthersKept
  <2>2. Terminal(jobs[j].st)
    BY <1>1 DEF SafetyInv, RequestsOK, RequestOK, HoldsLease
  <2>3. HoldsLease(h)'
    BY <1>2, <1>4, <2>1, <2>2 DEF HoldsLease, Closing, At, JobFor
  <2>4. OwnsInstance(h)' /\ HoldsRecord(h)' /\ HasReleased(h)' /\ AssignsJob(h)'
    BY <2>1 DEF OwnsInstance, HoldsRecord, HasReleased, AssignsJob, At, Provisioned, Unrecorded,
       Recorded, Releasing, Assigners, Preparing, Owning, Assignment, Assigning, Cleanup
  <2>5. BecomesAssigner(h)
    BY <2>1 DEF BecomesAssigner, Assigners, Preparing, Owning, Assigning, Cleanup
  <2>6. TablesEvolve
    BY <1>2, Untouched DEF TablesEvolve
  <2> QED BY <2>1, <2>3, <2>4, <2>5, <2>6 DEF StepOK, RequestStep, RequestOK
<1> QED BY <1>3, <1>4

(* SaveLease stores the lease with its next revision and the state asked for. *)
LEMMA SavedLease ==
  ASSUME NEW lease \in LeaseRecords, NEW st
  PROVE  /\ Advanced(lease, st).rev = lease.rev + 1 /\ Advanced(lease, st).st = st
         /\ Advanced(lease, st).runner = lease.runner
<1> DEFINE n == lease.rev + 1
<1> HIDE DEF n
<1>1. /\ [lease EXCEPT !.st = st, !.rev = n].rev = n /\ [lease EXCEPT !.st = st, !.rev = n].st = st
      /\ [lease EXCEPT !.st = st, !.rev = n].runner = lease.runner
  BY DEF LeaseRecords
<1> QED BY <1>1 DEF Advanced, n

(* SaveLease of finish: the lease is closed, and the request answered. *)
LEMMA SaveLeaseStep ==
  ASSUME TypeOK, SafetyInv, JobsProgress, NEW h \in Handlers, SaveLease(h)
  PROVE  StepOK(h)
<1> DEFINE j == JobFor(h)
<1>1. handler[h].pc = "saveLease" /\ j \in Jobs /\ leases[j] \in LeaseRecords
  BY WorksOnJob DEF SaveLease, InContext, At, TypeOK, StateTypeOK
<1>2. CASE ~CanSave(leases, j, handler[h].lrev)
  BY <1>1, <1>2, Flow, QuietGoto DEF SaveLease
<1>3. CASE CanSave(leases, j, handler[h].lrev)
  <2> DEFINE saved == Advanced(leases[j], "terminated")
  <2>1. Return(h, "ok") /\ leases' = [leases EXCEPT ![j] = saved]
    BY <1>3 DEF SaveLease
  <2>2. saved.rev = leases[j].rev + 1 /\ saved.st = "terminated" /\ saved.runner = leases[j].runner
    BY <1>1, SavedLease
  <2> HIDE DEF saved
  <2>3. leases'[j] = saved /\ \A i \in Jobs \ {j} : leases'[i] = leases[i]
    BY <1>1, <2>1 DEF TypeOK, StateTypeOK
  <2>4. LeasesEvolve
    BY <1>3, <2>2, <2>3 DEF LeasesEvolve, Closed, CanSave
  <2>5. FinishAnswered
    BY <1>1, <2>1, <2>2, <2>3 DEF FinishAnswered, Return, TypeOK, HandlerTypeOK, At, JobFor, Closed
  <2>6. TablesEvolve
    BY <2>4, <2>5, Untouched DEF SaveLease, TablesEvolve
  <2> QED BY <2>1, <2>6, ReturnStep DEF StepOK
<1> QED BY <1>2, <1>3

-----------------------------------------------------------------------------
(* Saves of the job. *)

(* A copy of a job that has ended is a copy of a job that has ended: finish  *)
(* relies on it when its copy is in the final state already.                 *)
EndedCopies ==
  \A h \in Handlers :
    ~At(h, "idle") /\ Terminal(handler[h].job.st) => Terminal(jobs[JobFor(h)].st)

(* A job saved as assigned or running has a lease, or had that state before. *)
LEMMA JobSaveEvolves ==
  ASSUME TypeOK, NEW j \in Jobs, NEW copy \in JobRecords, NEW st \in JobStates \cup {"none"},
         jobs' = [jobs EXCEPT ![j] = Advanced(copy, st)],
         \/ st \notin {"assigned", "running"}
         \/ jobs[j].st \in {"assigned", "running"}
         \/ ~Absent(leases[j])
  PROVE  AssignedFromLease /\ jobs'[j].st = st
<1> DEFINE saved == Advanced(copy, st)
<1>1. saved.st = st
  BY AdvancedParts
<1>2. jobs' = [jobs EXCEPT ![j] = saved]
  OBVIOUS
<1> HIDE DEF saved
<1>3. jobs'[j] = saved /\ \A i \in Jobs \ {j} : jobs'[i] = jobs[i]
  BY <1>2 DEF TypeOK, StateTypeOK
<1> QED BY <1>1, <1>3 DEF AssignedFromLease

(* Manager.Transition to a state that is not assigned or running. *)
LEMMA TransitionEvolves ==
  ASSUME TypeOK, NEW h \in Handlers, NEW to \in JobStates, NEW next, handler[h].pc # "idle",
         to \notin {"assigned", "running"}, Transition(h, to, next)
  PROVE  /\ AssignedFromLease /\ OthersKept(h) /\ SameWork(h)
         /\ \/ handler'[h].pc = next /\ jobs'[JobFor(h)].st = to
            \/ handler'[h].pc = "undo"
<1> DEFINE j == JobFor(h)
           copy == handler[h].job
<1>1. j \in Jobs /\ copy \in JobRecords
  BY WorksOnJob DEF TypeOK, HandlerTypeOK, Requests
<1>2. CASE ValidTransition(copy.st, to) /\ CanSave(jobs, j, copy.rev)
  <2>1. AssignedFromLease /\ jobs'[j].st = to
    BY <1>1, <1>2, JobSaveEvolves DEF Transition
  <2>2. OthersKept(h) /\ SameWork(h) /\ handler'[h].pc = next
    BY <1>2 DEF Transition, TypeOK, HandlerTypeOK, Requests, OthersKept, SameWork
  <2> QED BY <2>1, <2>2
<1>3. CASE ~(ValidTransition(copy.st, to) /\ CanSave(jobs, j, copy.rev))
  <2>1. Goto(h, "undo") /\ UNCHANGED jobs
    BY <1>3 DEF Transition
  <2> QED BY <2>1, Untouched DEF Goto, TypeOK, HandlerTypeOK, Requests, OthersKept, SameWork
<1> QED BY <1>2, <1>3

(* Every save of a job by a request. *)
LEMMA JobStep ==
  ASSUME TypeOK, SafetyInv, CopiesMatchRevisions, EndedCopies, JobsProgress, NEW h \in Handlers,
         ToProvisioning(h) \/ ToAssigned(h) \/ ToRunning(h) \/ ToFinal(h) \/ FailJob(h)
  PROVE  StepOK(h)
<1> DEFINE j == JobFor(h)
           copy == handler[h].job
<1>1. handler[h].pc # "idle" /\ j \in Jobs /\ copy \in JobRecords
  BY WorksOnJob DEF ToProvisioning, ToAssigned, ToRunning, ToFinal, FailJob, InContext, At, TypeOK,
     HandlerTypeOK, Requests
<1>2. CASE ToProvisioning(h)
  <2>1. handler[h].pc = "toProvisioning" /\ Transition(h, "provisioning", "reserve")
    BY <1>2 DEF ToProvisioning, InContext, At
  <2>2. /\ AssignedFromLease /\ OthersKept(h) /\ SameWork(h)
        /\ handler'[h].pc \in {"reserve", "undo"}
    BY <1>1, <2>1, TransitionEvolves DEF JobStates
  <2>3. TablesEvolve
    BY <1>2, <2>2, Untouched DEF ToProvisioning, TablesEvolve
  <2> QED BY <2>1, <2>2, <2>3, Flow, MoveStep DEF StepOK
<1>3. CASE ToAssigned(h)
  <2>1. handler[h].pc = "toAssigned"
    BY <1>3 DEF ToAssigned, InContext, At
  <2>2. CASE ~(ValidTransition(copy.st, "assigned") /\ CanSave(jobs, j, copy.rev))
    BY <1>3, <2>1, <2>2, Flow, QuietGoto DEF ToAssigned
  <2>3. CASE ValidTransition(copy.st, "assigned") /\ CanSave(jobs, j, copy.rev)
    <3>1. ~Absent(leases[j]) /\ ActionFor(h) \notin FinalActions
      BY <2>1 DEF SafetyInv, RequestsOK, RequestOK, HoldsLease, AssignsJob, Assignment, At
    <3>2. Return(h, "ok") /\ jobs' = [jobs EXCEPT ![j] = Advanced(copy, "assigned")]
      BY <1>3, <2>3 DEF ToAssigned
    <3>3. AssignedFromLease
      BY <1>1, <3>1, <3>2, JobSaveEvolves DEF JobStates
    <3>4. TablesEvolve
      BY <1>3, <3>1, <3>2, <3>3, OtherAnswer, Untouched DEF ToAssigned, TablesEvolve
    <3> QED BY <3>2, <3>4, ReturnStep DEF StepOK
  <2> QED BY <2>2, <2>3
<1>4. CASE ToRunning(h)
  <2>1. handler[h].pc = "toRunning"
    BY <1>4 DEF ToRunning, InContext, At
  <2>2. CASE ~(ValidTransition(copy.st, "running") /\ CanSave(jobs, j, copy.rev))
    BY <1>4, <2>1, <2>2, Flow, QuietGoto DEF ToRunning
  <2>3. CASE ValidTransition(copy.st, "running") /\ CanSave(jobs, j, copy.rev)
    <3>1. ActionFor(h) \notin FinalActions
      BY <2>1 DEF SafetyInv, RequestsOK, RequestOK, AssignsJob, Assignment
    <3>2. Return(h, "ok") /\ jobs' = [jobs EXCEPT ![j] = Advanced(copy, "running")]
      BY <1>4, <2>3 DEF ToRunning
    <3>3. IsCopy(copy, jobs[j])
      BY <1>1 DEF CopiesMatchRevisions, At
    <3>4. jobs[j].st \in {"assigned", "running"}
      BY <2>3, <3>3 DEF IsCopy, CanSave, ValidTransition
    <3>5. AssignedFromLease
      BY <1>1, <3>2, <3>4, JobSaveEvolves DEF JobStates
    <3>6. TablesEvolve
      BY <1>4, <3>1, <3>2, <3>5, OtherAnswer, Untouched DEF ToRunning, TablesEvolve
    <3> QED BY <3>2, <3>6, ReturnStep DEF StepOK
  <2> QED BY <2>2, <2>3
<1>5. CASE ToFinal(h)
  <2> DEFINE final == FinalState(ActionFor(h))
  <2>1. handler[h].pc = "toFinal"
    BY <1>5 DEF ToFinal, At
  <2>2. final \in JobStates \ {"assigned", "running"} /\ Terminal(final)
    BY DEF FinalState, Terminal, JobStates
  <2>3. /\ AssignedFromLease /\ OthersKept(h) /\ SameWork(h)
        /\ \/ handler'[h].pc = "getLease" /\ Terminal(jobs'[j].st)
           \/ handler'[h].pc = "undo"
    <3>1. CASE copy.st = final
      <4>1. Goto(h, "getLease") /\ UNCHANGED jobs
        BY <1>5, <3>1 DEF ToFinal
      <4>2. Terminal(jobs[j].st)
        BY <1>1, <2>2, <3>1 DEF EndedCopies, At
      <4> QED BY <4>1, <4>2, Untouched DEF Goto, TypeOK, HandlerTypeOK, Requests, OthersKept, SameWork
    <3>2. CASE copy.st # final
      <4>1. Transition(h, final, "getLease")
        BY <1>5, <3>2 DEF ToFinal
      <4> HIDE DEF final
      <4> QED BY <1>1, <2>2, <4>1, TransitionEvolves
    <3> QED BY <3>1, <3>2
  <2>4. TablesEvolve
    BY <1>5, <2>3, Untouched DEF ToFinal, TablesEvolve
  <2>5. CASE handler'[h].pc = "undo"
    BY <2>3, <2>4, <2>5, Flow, MoveStep DEF StepOK
  <2>6. CASE handler'[h].pc = "getLease" /\ Terminal(jobs'[j].st)
    <3>1. HoldsLease(h)'
      BY <2>3, <2>6 DEF HoldsLease, Closing, At, SameWork, JobFor
    <3>2. OwnsInstance(h)' /\ HoldsRecord(h)' /\ HasReleased(h)' /\ AssignsJob(h)'
      BY <2>6 DEF OwnsInstance, HoldsRecord, HasReleased, AssignsJob, At, Provisioned, Unrecorded,
         Recorded, Releasing, Assigners, Preparing, Owning, Assignment, Assigning, Cleanup
    <3>3. BecomesAssigner(h)
      BY <2>6 DEF BecomesAssigner, Assigners, Preparing, Owning, Assigning, Cleanup
    <3> QED BY <2>3, <2>4, <3>1, <3>2, <3>3 DEF StepOK, RequestStep, RequestOK
  <2> QED BY <2>3, <2>5, <2>6
<1>6. CASE FailJob(h)
  <2>1. handler[h].pc = "failJob" /\ Goto(h, "undo")
    BY <1>6 DEF FailJob, At
  <2>2. AssignedFromLease
    <3>1. CASE handler[h].alive /\ CanSave(jobs, j, copy.rev)
      BY <1>1, <1>6, <3>1, JobSaveEvolves DEF FailJob, JobStates
    <3>2. CASE ~(handler[h].alive /\ CanSave(jobs, j, copy.rev))
      BY <1>6, <3>2, Untouched DEF FailJob
    <3> QED BY <3>1, <3>2
  <2>3. TablesEvolve
    BY <1>6, <2>2, Untouched DEF FailJob, TablesEvolve
  <2> QED BY <2>1, <2>3, Flow, GotoStep DEF StepOK
<1> QED BY <1>2, <1>3, <1>4, <1>5, <1>6

-----------------------------------------------------------------------------
(* Every step of the webhook path. *)

(* A delivery that arrives has established nothing yet. *)
LEMMA ReceiveStep ==
  ASSUME TypeOK, SafetyInv, JobsProgress, NEW h \in Handlers,
         NEW d \in Deliveries, NEW at \in Instants, Receive(h, d, at)
  PROVE  StepOK(h)
<1>1. OthersKept(h) /\ handler'[h].pc = "insert"
  BY DEF Receive, TypeOK, HandlerTypeOK, OthersKept, Idle
<1>2. "insert" \notin Obliging /\ "insert" \notin Assigners
  BY DEF Obliging, Provisioned, Unrecorded, Recorded, Releasing, Closing, Assignment, Assigners,
     Preparing, Owning, Assigning, Cleanup
<1>3. RequestOK(h)'
  BY <1>1, <1>2, ObligesNothing
<1>4. TablesEvolve
  BY Untouched DEF Receive, shared, TablesEvolve
<1> QED BY <1>1, <1>2, <1>3, <1>4 DEF StepOK, RequestStep, BecomesAssigner

(* A client that goes away takes nothing back. *)
LEMMA ClientGoneStep ==
  ASSUME TypeOK, SafetyInv, JobsProgress, NEW h \in Handlers, ClientGone(h)
  PROVE  StepOK(h)
<1>1. OthersKept(h) /\ SameWork(h) /\ handler'[h].pc = handler[h].pc
  BY DEF ClientGone, TypeOK, HandlerTypeOK, Requests, OthersKept, SameWork
<1>2. UNCHANGED <<jobs, runners, leases, registration, instances, reply>>
  BY DEF ClientGone, shared
<1> QED BY <1>1, <1>2, Flow, QuietStep

(* Every call of a request, successful or not. *)
LEMMA HandlerStepSafe ==
  ASSUME TypeOK, SafetyInv, CopiesMatchRevisions, EndedCopies, JobsProgress, NEW h \in Handlers,
         HandlerStep(h)
  PROVE  StepOK(h)
<1>1. CASE HandlerFailure(h)
  BY <1>1, FailureStep
<1>2. CASE HandlerProgress(h)
  <2>1. \/ InsertDuplicate(h) \/ GetJob(h) \/ GetRunning(h) \/ GetFinal(h) \/ Reserve(h)
        \/ GetRunner(h) \/ RunnerOnline(h) \/ RegistrationTimesOut(h) \/ CleanupGet(h)
        \/ ReleaseReservation(h) \/ Undo(h) \/ FinalRunner(h) \/ ReleaseCapacity(h)
        \/ WaitReady(h) \/ CleanupTerminate(h) \/ DropRunner(h) \/ TerminateRunner(h)
        \/ SaveReady(h) \/ CleanupMark(h) \/ CleanupTerminated(h) \/ SaveTerminated(h)
        \/ RegisterPending(h) \/ RegisterFailed(h) \/ RegisterReady(h)
        \/ ToProvisioning(h) \/ ToAssigned(h) \/ ToRunning(h) \/ ToFinal(h) \/ FailJob(h)
        \/ InsertNew(h) \/ CreateJob(h) \/ (\E r \in Runners : Provision(h, r)) \/ CreateRunner(h)
        \/ CreateLease(h) \/ GetLease(h) \/ SaveLease(h)
    BY <1>2 DEF HandlerProgress
  <2> QED BY <2>1, ReadStep, InstanceStep, SaveRunnerStep, RegisterStep, JobStep, InsertStep,
          CreateJobStep, ProvisionStep, CreateRunnerStep, CreateLeaseStep, GetLeaseStep, SaveLeaseStep
<1> QED BY <1>1, <1>2 DEF HandlerStep

(* A delivery, a client that goes away, or a call of a request. *)
LEMMA WebhookSafe ==
  ASSUME TypeOK, SafetyInv, CopiesMatchRevisions, EndedCopies, JobsProgress, NEW h \in Handlers,
         Webhook(h)
  PROVE  TablesEvolve /\ SafetyInv'
<1>1. StepOK(h) /\ pass' = pass
  BY HandlerStepSafe, ReceiveStep, ClientGoneStep DEF Webhook
<1> QED BY <1>1, RequestStepSafe DEF StepOK

(* A copy of an ended job is one after every step. *)
LEMMA EndedCopiesKept ==
  ASSUME TypeOK, TypeOK', CopiesMatchRevisions, EndedCopies, [Next]_vars
  PROVE  EndedCopies'
<1>1. JobsProgress
  BY StepProgress
<1>2. ASSUME NEW j \in Jobs, Terminal(jobs[j].st)
      PROVE  Terminal(jobs'[j].st)
  BY <1>1, <1>2, JobStays
<1>3. ASSUME NEW h \in Handlers, handler[h].pc # "idle", CopyKept(h) \/ CopyTaken(h),
             Terminal(handler'[h].job.st)
      PROVE  Terminal(jobs'[JobOf[handler'[h].dlv]].st)
  <2>1. JobFor(h) \in Jobs /\ JobOf[handler'[h].dlv] = JobFor(h)
    BY <1>3, WorksOnJob DEF TypeOK, CopyKept, CopyTaken, JobFor
  <2>2. CASE CopyKept(h)
    BY <1>2, <1>3, <2>1, <2>2 DEF CopyKept, EndedCopies, At
  <2>3. CASE CopyTaken(h)
    BY <1>3, <2>1, <2>3 DEF CopyTaken
  <2> QED BY <1>3, <2>2, <2>3
<1>4. ASSUME NEW h \in Handlers, handler'[h] = handler[h], handler[h].pc # "idle",
             Terminal(handler[h].job.st)
      PROVE  Terminal(jobs'[JobFor(h)].st)
  BY <1>2, <1>4, WorksOnJob DEF EndedCopies, At, TypeOK
<1>5. ASSUME NEW h \in Handlers, handler'[h].pc # "idle", Terminal(handler'[h].job.st)
      PROVE  \/ handler'[h] = handler[h]
             \/ handler[h].pc # "idle" /\ (CopyKept(h) \/ CopyTaken(h))
  <2>1. CASE handler' = handler
    BY <2>1
  <2>2. ASSUME NEW i \in Handlers, Webhook(i)
        PROVE  \/ handler'[h] = handler[h]
               \/ handler[h].pc # "idle" /\ (CopyKept(h) \/ CopyTaken(h))
    <3>1. CASE HandlerStep(i)
      BY <1>5, <3>1, HandlerStepEffect, StepOfRequest DEF RequestEffect, OthersKept, Ended, TypeOK
    <3>2. CASE ClientGone(i)
      BY <3>2 DEF ClientGone, At, TypeOK, HandlerTypeOK, Requests, CopyKept
    <3>3. ASSUME NEW d \in Deliveries, NEW at \in Instants, Receive(i, d, at)
          PROVE  handler'[h] = handler[h]
      BY <1>5, <3>3 DEF Receive, TypeOK, HandlerTypeOK, Idle, NoJob, Terminal
    <3> QED BY <2>2, <3>1, <3>2, <3>3 DEF Webhook
  <2>3. CASE Crash
    BY <1>5, <2>3 DEF Crash, Idle
  <2> QED BY <2>1, <2>2, <2>3 DEF Next, Reconcile, Environment, vars, handlerVars
<1> QED BY <1>3, <1>4, <1>5 DEF EndedCopies, At, JobFor

-----------------------------------------------------------------------------
(* Every step of the reconciler. *)

(* Requests that take no step, and the promises, while the pass takes one. *)
LEMMA BystandersKept ==
  ASSUME TypeOK, SafetyInv, TablesEvolve, handler' = handler, PassOK'
  PROVE  SafetyInv'
<1>1. RequestsOK'
  BY UntouchedKept DEF RequestsOK
<1>2. OneAssigner'
  BY DEF SafetyInv, OneAssigner, JobFor
<1> QED BY <1>1, <1>2, PromisesKept DEF SafetyInv

(* A pass between two records: q has the copies of p, or none at all. *)
AtRest(p, q) ==
  /\ \A r \in Runners : q.runners[r] \in {p.runners[r], NoRunnerRecord}
  /\ \A j \in Jobs : q.leases[j] \in {p.leases[j], NoLease}
  /\ \/ q.pc = q.in /\ q.in \in Phases \cup {"idle"}
     \/ q.pc \in {"listRunners", "listLeases"} /\ q.in = "idle"
  /\ q.in \in {"status", "orphans", "reap"} =>
       \A r \in Runners : r \in q.todo => q.runners[r].st # "terminated"

(* The next phase visits no runner whose copy is terminated. *)
LEMMA EnterRest ==
  ASSUME NEW p \in PassRecords
  PROVE  AtRest(p, IdlePass) /\ AtRest(p, EnterStatus(p)) /\ AtRest(p, NextPhase(p))
<1>1. AtRest(p, IdlePass)
  BY DEF AtRest, IdlePass
<1>2. ASSUME NEW phase \in Phases
      PROVE  AtRest(p, Begin(p, phase))
  <2>1. /\ Begin(p, phase).pc = phase /\ Begin(p, phase).in = phase
        /\ Begin(p, phase).todo = Todo(p, phase)
        /\ Begin(p, phase).runners = p.runners /\ Begin(p, phase).leases = p.leases
    BY DEF Begin, PassRecords
  <2>2. phase \in {"status", "orphans", "reap"} =>
          \A r \in Todo(p, phase) : p.runners[r].st # "terminated"
    BY DEF Todo
  <2> QED BY <2>1, <2>2 DEF AtRest
<1>3. AtRest(p, EnterReap(p))
  BY <1>1, <1>2 DEF EnterReap, Phases
<1>4. AtRest(p, EnterOrphans(p))
  BY <1>2, <1>3 DEF EnterOrphans, Phases
<1>5. AtRest(p, EnterJobs(p))
  BY <1>2, <1>4 DEF EnterJobs, Phases
<1>6. AtRest(p, EnterLeases(p))
  BY <1>2, <1>5 DEF EnterLeases, Phases
<1>7. AtRest(p, EnterStatus(p))
  BY <1>2, <1>6 DEF EnterStatus, Phases
<1> QED BY <1>1, <1>3, <1>4, <1>5, <1>6, <1>7 DEF NextPhase

(* So does the pass that is done with x. *)
LEMMA VisitedRest ==
  ASSUME NEW p \in PassRecords, NEW x,
         p.in \in {"status", "orphans", "reap"} =>
           \A r \in Runners : r \in p.todo \ {x} => p.runners[r].st # "terminated"
  PROVE  AtRest(p, Visited(p, x))
<1> DEFINE rest == [p EXCEPT !.pc = p.in, !.todo = p.todo \ {x},
                             !.cur = NoRunner, !.copy = NoRunnerRecord, !.to = "none"]
<1>1. /\ rest.runners = p.runners /\ rest.leases = p.leases
      /\ rest.pc = p.in /\ rest.in = p.in /\ rest.todo = p.todo \ {x}
      /\ p.in \in Phases \cup {"idle"}
  BY DEF PassRecords
<1>2. NoRunnerRecord \in RunnerRecords /\ p.in \in PassPCs
  BY DEF NoRunnerRecord, RunnerRecords, PassRecords, PassPCs
<1>3. rest \in PassRecords
  BY <1>2 DEF PassRecords
<1>4. Visited(p, x) = IF rest.todo # {} THEN rest ELSE NextPhase(rest)
  BY DEF Visited
<1> HIDE DEF rest
<1>5. AtRest(p, rest)
  BY <1>1 DEF AtRest
<1>6. AtRest(rest, NextPhase(rest))
  BY <1>3, EnterRest
<1>7. AtRest(p, NextPhase(rest))
  BY <1>1, <1>6 DEF AtRest
<1> QED BY <1>4, <1>5, <1>7

(* Between two records the pass has nothing on hand, and its copies are not  *)
(* ahead of the tables.                                                      *)
LEMMA RestOK ==
  ASSUME TypeOK, SafetyInv, TablesEvolve, NEW p, AtRest(p, pass'),
         \A r \in Runners : IsCopy(p.runners[r], runners'[r]),
         \A j \in Jobs : IsCopy(p.leases[j], leases'[j])
  PROVE  PassOK'
<1>1. /\ \A r \in Runners : IsCopy(NoRunnerRecord, runners'[r])
      /\ \A j \in Jobs : IsCopy(NoLease, leases'[j])
  BY CopiesStay
<1>2. RunnerCopies' /\ LeaseCopies'
  BY <1>1 DEF RunnerCopies, LeaseCopies, AtRest
<1>3. pass'.pc \notin OnRunner
  BY DEF AtRest, OnRunner, Phases
<1>4. PassWork'
  BY <1>3 DEF PassWork, AtRest, OnRunner, Phases
<1> QED BY <1>2, <1>4 DEF PassOK

(* The pass is done with x, and has changed none of its copies. *)
LEMMA VisitedOK ==
  ASSUME TypeOK, SafetyInv, TablesEvolve, NEW x, pass' = Visited(pass, x)
  PROVE  PassOK'
<1>1. pass \in PassRecords
  BY DEF TypeOK, PassTypeOK
<1>2. AtRest(pass, Visited(pass, x))
  BY <1>1, VisitedRest DEF SafetyInv, PassOK, PassWork
<1> QED BY <1>2, CopiesStay, RestOK

(* The pass begins to terminate runner r, of which it has a live copy. *)
LEMMA BegunOK ==
  ASSUME TypeOK, SafetyInv, UNCHANGED <<runners, leases>>, NEW r \in Runners, NEW todo,
         todo \subseteq pass.todo, pass.runners[r].st # "terminated",
         pass' = BeginTermination([pass EXCEPT !.todo = todo], r)
  PROVE  PassOK'
<1> DEFINE p == [pass EXCEPT !.todo = todo]
           pc == IF pass.runners[r].st = "terminating" THEN "terminate" ELSE "mark"
<1>1. pass \in PassRecords
  BY DEF TypeOK, PassTypeOK
<1>2. p.runners = pass.runners /\ p.leases = pass.leases /\ p.in = pass.in /\ p.todo = todo
  BY <1>1 DEF PassRecords
<1>3. /\ pass'.pc = pc /\ pass'.cur = r /\ pass'.copy = pass.runners[r]
      /\ pass'.runners = pass.runners /\ pass'.leases = pass.leases
      /\ pass'.in = pass.in /\ pass'.todo = todo
  <2>1. pass' = [p EXCEPT !.pc = pc, !.cur = r, !.copy = p.runners[r]]
    BY <1>2 DEF BeginTermination
  <2> HIDE DEF pc
  <2> QED BY <1>1, <1>2, <2>1 DEF PassRecords
<1>4. IsCopy(pass.runners[r], runners[r])
  BY DEF SafetyInv, PassOK, RunnerCopies
<1>5. PassWork'
  BY <1>3, <1>4 DEF PassWork, SafetyInv, PassOK, OnRunner, Phases
<1> QED BY <1>3, <1>5 DEF PassOK, RunnerCopies, LeaseCopies, SafetyInv

(* SaveRunner stores a runner with its next revision and the state asked for. *)
LEMMA SavedRunner ==
  ASSUME NEW record \in RunnerRecords, NEW st
  PROVE  /\ Advanced(record, st).rev = record.rev + 1 /\ Advanced(record, st).st = st
         /\ Advanced(record, st).job = record.job
<1> DEFINE n == record.rev + 1
<1> HIDE DEF n
<1>1. /\ [record EXCEPT !.st = st, !.rev = n].rev = n /\ [record EXCEPT !.st = st, !.rev = n].st = st
      /\ [record EXCEPT !.st = st, !.rev = n].job = record.job
  BY DEF RunnerRecords
<1> QED BY <1>1 DEF Advanced, n

(* SaveRunner by the pass: a copy with the current revision is the record,   *)
(* so that no terminated runner is changed.                                  *)
LEMMA PassSavesRunner ==
  ASSUME TypeOK, NEW r \in Runners, NEW copy \in RunnerRecords, NEW st,
         IsCopy(copy, runners[r]), copy.st # "terminated", CanSave(runners, r, copy.rev),
         st = "terminated" => ~Live(r),
         runners' = [runners EXCEPT ![r] = Advanced(copy, st)]
  PROVE  /\ RunnersEvolve /\ runners'[r] = Advanced(copy, st)
         /\ \A q \in Runners \ {r} : runners'[q] = runners[q]
<1> DEFINE saved == Advanced(copy, st)
<1>1. copy = runners[r] /\ ~Absent(runners[r])
  BY DEF IsCopy, CanSave
<1>2. saved.rev = copy.rev + 1 /\ saved.st = st /\ saved.job = copy.job
  BY SavedRunner
<1>3. runners' = [runners EXCEPT ![r] = saved]
  OBVIOUS
<1> HIDE DEF saved
<1>4. runners'[r] = saved /\ \A q \in Runners \ {r} : runners'[q] = runners[q]
  BY <1>3 DEF TypeOK, StateTypeOK
<1>5. RunnersEvolve
  BY <1>1, <1>2, <1>4 DEF RunnersEvolve
<1> QED BY <1>4, <1>5 DEF saved

(* A copy is as old as itself. *)
LEMMA OwnCopy ==
  ASSUME NEW record, record.rev \in Nat
  PROVE  IsCopy(record, record)
  BY DEF IsCopy

(* The pass is done with a runner it has saved. *)
LEMMA SavedVisitOK ==
  ASSUME TypeOK, SafetyInv, TablesEvolve, TypeOK', NEW r \in Runners, NEW saved \in RunnerRecords,
         runners'[r] = saved,
         pass' = Visited([pass EXCEPT !.runners[r] = saved], r)
  PROVE  PassOK'
<1> DEFINE p == [pass EXCEPT !.runners[r] = saved]
<1>1. pass \in PassRecords
  BY DEF TypeOK, PassTypeOK
<1>2. [pass.runners EXCEPT ![r] = saved] \in [Runners -> RunnerRecords]
  BY <1>1 DEF PassRecords
<1>3. p \in PassRecords
  BY <1>1, <1>2 DEF PassRecords
<1>4. /\ p.in = pass.in /\ p.todo = pass.todo /\ p.leases = pass.leases
      /\ \A q \in Runners : p.runners[q] = IF q = r THEN saved ELSE pass.runners[q]
  BY <1>1 DEF PassRecords
<1>5. pass' = Visited(p, r)
  OBVIOUS
<1> HIDE DEF p
<1>6. AtRest(p, Visited(p, r))
  BY <1>3, <1>4, VisitedRest DEF SafetyInv, PassOK, PassWork
<1>7. IsCopy(saved, saved)
  BY OwnCopy DEF RunnerRecords
<1>8. /\ \A q \in Runners : IsCopy(p.runners[q], runners'[q])
      /\ \A j \in Jobs : IsCopy(p.leases[j], leases'[j])
  BY <1>4, <1>7, CopiesStay
<1> QED BY <1>5, <1>6, <1>8, RestOK

(* The saves of the pass on a runner: what the provider said of it, that it  *)
(* is terminating, and, once the provider has accepted that, terminated.     *)
LEMMA PassRunnerStep ==
  ASSUME TypeOK, TypeOK', SafetyInv, JobsProgress, UNCHANGED handlerVars,
         SaveStatus \/ MarkTerminating \/ MarkTerminated
  PROVE  TablesEvolve /\ PassOK'
<1> DEFINE r == pass.cur
<1>1. pass \in PassRecords /\ UNCHANGED <<jobs, leases, registration, instances, reply>>
  BY DEF TypeOK, PassTypeOK, SaveStatus, MarkTerminating, MarkTerminated, handlerVars
<1>2. r \in Runners
  BY DEF SaveStatus, MarkTerminating, MarkTerminated, In, SafetyInv, PassOK, PassWork, OnRunner
<1>3. ASSUME RunnersEvolve PROVE TablesEvolve
  BY <1>1, <1>3, Untouched DEF TablesEvolve
<1>4. CASE SaveStatus
  <2> DEFINE copy == pass.runners[r]
             saved == Advanced(copy, pass.to)
  <2>1. copy \in RunnerRecords /\ IsCopy(copy, runners[r])
    BY <1>1, <1>2 DEF PassRecords, SafetyInv, PassOK, RunnerCopies
  <2>2. CASE CanSave(runners, r, copy.rev)
    <3>1. copy.st # "terminated" /\ (pass.to = "terminated" => ~Live(r))
      BY <1>4, <2>1, <2>2 DEF SaveStatus, In, SafetyInv, PassOK, PassWork, IsCopy, CanSave
    <3>2. /\ runners' = [runners EXCEPT ![r] = saved]
          /\ pass' = Visited([pass EXCEPT !.runners[r] = saved], r)
      BY <1>4, <2>2 DEF SaveStatus
    <3>3. RunnersEvolve /\ runners'[r] = saved
      BY <1>2, <2>1, <2>2, <3>1, <3>2, PassSavesRunner
    <3>4. saved \in RunnerRecords
      BY <1>1, <2>1, AdvancedRunner DEF PassRecords
    <3> QED BY <1>2, <1>3, <3>2, <3>3, <3>4, SavedVisitOK
  <2>3. CASE ~CanSave(runners, r, copy.rev)
    BY <1>3, <1>4, <2>3, Untouched, VisitedOK DEF SaveStatus
  <2> QED BY <2>2, <2>3
<1>5. CASE MarkTerminating
  <2> DEFINE copy == pass.copy
             saved == Advanced(copy, "terminating")
  <2>1. copy \in RunnerRecords /\ IsCopy(copy, runners[r]) /\ copy.st # "terminated"
    BY <1>1, <1>5 DEF PassRecords, SafetyInv, PassOK, PassWork, MarkTerminating, In, OnRunner
  <2>2. CASE CanSave(runners, r, copy.rev)
    <3>1. /\ runners' = [runners EXCEPT ![r] = saved]
          /\ pass' = [pass EXCEPT !.pc = "terminate", !.copy = saved]
      BY <1>5, <2>2 DEF MarkTerminating
    <3>2. RunnersEvolve /\ runners'[r] = saved
      BY <1>2, <2>1, <2>2, <3>1, PassSavesRunner
    <3>3. saved \in RunnerRecords /\ saved.st = "terminating"
      BY <2>1, AdvancedRunner, SavedRunner DEF RunnerStates
    <3> HIDE DEF saved
    <3>4. /\ pass'.pc = "terminate" /\ pass'.copy = saved /\ pass'.cur = r
          /\ pass'.in = pass.in /\ pass'.todo = pass.todo
          /\ pass'.runners = pass.runners /\ pass'.leases = pass.leases
      BY <1>1, <3>1 DEF PassRecords
    <3>5. IsCopy(saved, saved)
      BY <3>3, OwnCopy DEF RunnerRecords
    <3>6. TablesEvolve
      BY <1>3, <3>2
    <3>7. RunnerCopies' /\ LeaseCopies'
      BY <3>4, <3>6, CopiesStay DEF RunnerCopies, LeaseCopies
    <3>8. PassWork'
      BY <1>2, <3>2, <3>3, <3>4, <3>5 DEF PassWork, SafetyInv, PassOK, OnRunner, Phases
    <3> QED BY <3>6, <3>7, <3>8 DEF PassOK
  <2>3. CASE ~CanSave(runners, r, copy.rev)
    BY <1>3, <1>5, <2>3, Untouched, VisitedOK DEF MarkTerminating
  <2> QED BY <2>2, <2>3
<1>6. CASE MarkTerminated
  <2> DEFINE copy == pass.copy
             saved == Advanced(copy, "terminated")
  <2>1. copy \in RunnerRecords /\ IsCopy(copy, runners[r]) /\ copy.st # "terminated"
    BY <1>1, <1>6 DEF PassRecords, SafetyInv, PassOK, PassWork, MarkTerminated, In, OnRunner
  <2>2. CASE CanSave(runners, r, copy.rev)
    <3>1. /\ runners' = [runners EXCEPT ![r] = saved]
          /\ pass' = Visited([pass EXCEPT !.runners[r] = saved], r)
      BY <1>6, <2>2 DEF MarkTerminated
    <3>2. ~Live(r)
      BY <1>6, <2>1, <2>2 DEF MarkTerminated, In, SafetyInv, PassOK, PassWork, IsCopy, CanSave, Absent
    <3>3. RunnersEvolve /\ runners'[r] = saved
      BY <1>2, <2>1, <2>2, <3>1, <3>2, PassSavesRunner
    <3>4. saved \in RunnerRecords
      BY <2>1, AdvancedRunner DEF RunnerStates
    <3> QED BY <1>2, <1>3, <3>1, <3>3, <3>4, SavedVisitOK
  <2>3. CASE ~CanSave(runners, r, copy.rev)
    BY <1>3, <1>6, <2>3, Untouched, VisitedOK DEF MarkTerminated
  <2> QED BY <2>2, <2>3
<1> QED BY <1>4, <1>5, <1>6

(* RepairLease: a closed lease is not opened again. *)
LEMMA RepairLeaseStep ==
  ASSUME TypeOK, SafetyInv, JobsProgress, UNCHANGED handlerVars, NEW j \in Jobs, RepairLease(j)
  PROVE  TablesEvolve /\ PassOK'
<1> DEFINE copy == pass.leases[j]
           st == LeaseTarget(pass, j)
           saved == Advanced(copy, st)
<1>1. /\ pass \in PassRecords /\ copy \in LeaseRecords /\ IsCopy(copy, leases[j])
      /\ pass.in = "leases"
  BY DEF TypeOK, PassTypeOK, PassRecords, SafetyInv, PassOK, LeaseCopies, PassWork, RepairLease, In,
     Phases
<1>2. UNCHANGED <<jobs, runners, registration, instances, reply>>
  BY DEF RepairLease, handlerVars
<1>3. ASSUME LeasesEvolve PROVE TablesEvolve
  BY <1>2, <1>3, Untouched DEF TablesEvolve
<1>4. CASE ~CanSave(leases, j, copy.rev)
  BY <1>3, <1>4, Untouched, VisitedOK DEF RepairLease
<1>5. CASE CanSave(leases, j, copy.rev)
  <2>1. /\ leases' = [leases EXCEPT ![j] = saved]
        /\ pass' = Visited([pass EXCEPT !.leases[j] = saved], j)
    BY <1>5 DEF RepairLease
  <2>2. copy = leases[j] /\ ~Absent(leases[j])
    BY <1>1, <1>5 DEF IsCopy, CanSave
  <2>3. Closed(copy) => st \in {"terminated", "failed"}
    BY DEF Closed, LeaseTarget
  <2>4. saved.rev = copy.rev + 1 /\ saved.st = st /\ saved.runner = copy.runner
    BY <1>1, SavedLease
  <2>5. saved \in LeaseRecords
    <3>1. st \in LeaseStates \cup {"none"}
      BY TargetTyped DEF TypeOK
    <3> HIDE DEF st
    <3> QED BY <1>1, <2>2, <3>1, AdvancedLease
  <2> HIDE DEF saved, st
  <2>6. leases'[j] = saved /\ \A i \in Jobs \ {j} : leases'[i] = leases[i]
    BY <2>1 DEF TypeOK, StateTypeOK
  <2>7. LeasesEvolve
    BY <2>2, <2>3, <2>4, <2>6 DEF LeasesEvolve, Closed
  <2>8. TablesEvolve
    BY <1>3, <2>7
  <2> DEFINE p == [pass EXCEPT !.leases[j] = saved]
  <2>9. [pass.leases EXCEPT ![j] = saved] \in [Jobs -> LeaseRecords]
    BY <1>1, <2>5 DEF PassRecords
  <2>10. p \in PassRecords
    BY <1>1, <2>9 DEF PassRecords
  <2>11. /\ p.in = "leases" /\ p.runners = pass.runners
         /\ \A i \in Jobs : p.leases[i] = IF i = j THEN saved ELSE pass.leases[i]
    BY <1>1 DEF PassRecords
  <2>12. pass' = Visited(p, j)
    BY <2>1
  <2> HIDE DEF p
  <2>13. AtRest(p, Visited(p, j))
    BY <2>10, <2>11, VisitedRest
  <2>14. IsCopy(saved, saved)
    BY <2>5, OwnCopy DEF LeaseRecords
  <2>15. /\ \A r \in Runners : IsCopy(p.runners[r], runners'[r])
         /\ \A i \in Jobs : IsCopy(p.leases[i], leases'[i])
    BY <2>6, <2>8, <2>11, <2>14, CopiesStay
  <2> QED BY <2>8, <2>12, <2>13, <2>15, RestOK
<1> QED BY <1>4, <1>5

(* SaveJob by the pass: a job is repaired to assigned or running only by its *)
(* lease.                                                                    *)
LEMMA JobWriteEvolves ==
  ASSUME TypeOK, SafetyInv, NEW j \in Jobs, NEW st \in JobStates \cup {"none"},
         jobs' = JobWrite(j, st),
         st \in {"assigned", "running"} => ~Absent(pass.leases[j])
  PROVE  /\ AssignedFromLease
         /\ CopyWrite(j, st) \in PassRecords
         /\ CopyWrite(j, st).pc = pass.pc /\ CopyWrite(j, st).in = pass.in
         /\ CopyWrite(j, st).todo = pass.todo
         /\ CopyWrite(j, st).runners = pass.runners /\ CopyWrite(j, st).leases = pass.leases
<1>1. pass \in PassRecords /\ pass.jobs[j] \in JobRecords /\ pass.leases[j] \in LeaseRecords
      /\ leases[j] \in LeaseRecords
  BY DEF TypeOK, StateTypeOK, PassTypeOK, PassRecords
<1>2. st \in {"assigned", "running"} => ~Absent(leases[j])
  BY <1>1 DEF SafetyInv, PassOK, LeaseCopies, IsCopy, Absent, LeaseRecords
<1>3. AssignedFromLease
  BY <1>1, <1>2, JobSaveEvolves, Untouched DEF JobWrite
<1> DEFINE saved == Advanced(pass.jobs[j], st)
<1>4. CopyWrite(j, st) = IF JobSaved(j) THEN [pass EXCEPT !.jobs[j] = saved] ELSE pass
  BY DEF CopyWrite
<1> HIDE DEF saved
<1>5. /\ CopyWrite(j, st).pc = pass.pc /\ CopyWrite(j, st).in = pass.in
      /\ CopyWrite(j, st).todo = pass.todo
      /\ CopyWrite(j, st).runners = pass.runners /\ CopyWrite(j, st).leases = pass.leases
  BY <1>1, <1>4 DEF PassRecords
<1>6. CopyWrite(j, st) \in PassRecords
  BY JobSavedTyped DEF TypeOK
<1> QED BY <1>3, <1>5, <1>6

(* ExpireJob and RepairJob. *)
LEMMA RepairJobStep ==
  ASSUME TypeOK, SafetyInv, JobsProgress, UNCHANGED handlerVars, NEW j \in Jobs,
         ExpireJob(j) \/ RepairJob(j)
  PROVE  TablesEvolve /\ PassOK'
<1>1. /\ pass \in PassRecords /\ pass.pc = "jobs" /\ pass.in = "jobs"
      /\ UNCHANGED <<runners, leases, registration, instances, reply>>
  BY DEF ExpireJob, RepairJob, In, TypeOK, PassTypeOK, SafetyInv, PassOK, PassWork, Phases, handlerVars
<1>2. ASSUME AssignedFromLease PROVE TablesEvolve
  BY <1>1, <1>2, Untouched DEF TablesEvolve
<1>3. ASSUME NEW p, TablesEvolve, p.runners = pass.runners, p.leases = pass.leases, AtRest(p, pass')
      PROVE  PassOK'
  BY <1>3, CopiesStay, RestOK
<1>4. CASE ExpireJob(j)
  <2>1. jobs' = JobWrite(j, "failed") /\ "failed" \in JobStates
    BY <1>4 DEF ExpireJob, JobStates
  <2>2. TablesEvolve
    BY <1>2, <2>1, JobWriteEvolves
  <2>3. CASE ~JobSaved(j)
    BY <1>4, <2>2, <2>3, VisitedOK DEF ExpireJob
  <2>4. CASE JobSaved(j)
    <3>1. /\ pass' = CopyWrite(j, "failed")
          /\ pass'.runners = pass.runners /\ pass'.leases = pass.leases
          /\ pass'.pc = "jobs" /\ pass'.in = "jobs"
      BY <1>1, <1>4, <2>1, <2>4, JobWriteEvolves DEF ExpireJob
    <3>2. AtRest(pass, pass')
      BY <3>1 DEF AtRest, Phases
    <3> QED BY <1>3, <2>2, <3>2
  <2> QED BY <2>3, <2>4
<1>5. CASE RepairJob(j)
  <2> DEFINE st == JobTarget(pass, j)
  <2>1. CASE st = pass.jobs[j].st
    <3>1. UNCHANGED jobs /\ pass' = Visited(pass, j)
      BY <1>5, <2>1 DEF RepairJob
    <3> QED BY <1>2, <3>1, Untouched, VisitedOK
  <2>2. CASE st # pass.jobs[j].st
    <3>1. jobs' = JobWrite(j, st) /\ pass' = Visited(CopyWrite(j, st), j)
      BY <1>5, <2>2 DEF RepairJob
    <3>2. st \in JobStates \cup {"none"}
      BY TargetTyped DEF TypeOK
    <3>3. st \in {"assigned", "running"} => ~Absent(pass.leases[j])
      BY <2>2 DEF JobTarget
    <3> HIDE DEF st
    <3> DEFINE p == CopyWrite(j, st)
    <3>4. /\ AssignedFromLease /\ p \in PassRecords /\ p.in = "jobs"
          /\ p.runners = pass.runners /\ p.leases = pass.leases
      BY <1>1, <3>1, <3>2, <3>3, JobWriteEvolves
    <3> HIDE DEF p
    <3>5. AtRest(p, Visited(p, j))
      BY <3>4, VisitedRest
    <3>6. TablesEvolve
      BY <1>2, <3>4
    <3> QED BY <1>3, <3>1, <3>4, <3>5, <3>6 DEF p
  <2> QED BY <2>1, <2>2
<1> QED BY <1>4, <1>5

(* Provider.Terminate by the pass: it may record the runner as terminated. *)
LEMMA PassTerminateStep ==
  ASSUME TypeOK, SafetyInv, JobsProgress, UNCHANGED handlerVars, Terminate
  PROVE  TablesEvolve /\ PassOK'
<1> DEFINE r == pass.cur
<1>1. r \in Runners /\ pass \in PassRecords
  BY DEF Terminate, In, SafetyInv, PassOK, PassWork, OnRunner, TypeOK, PassTypeOK
<1>2. InstancesEvolve /\ instances'[r].st \notin {"provisioning", "ready", "failed"}
  BY <1>1, TerminateEvolves DEF Terminate
<1>3. TablesEvolve
  BY <1>2, Untouched DEF Terminate, TablesEvolve, store, handlerVars
<1>4. /\ pass'.pc = "saved" /\ pass'.cur = r /\ pass'.copy = pass.copy
      /\ pass'.in = pass.in /\ pass'.todo = pass.todo
      /\ pass'.runners = pass.runners /\ pass'.leases = pass.leases
  BY <1>1 DEF Terminate, PassRecords
<1>5. RunnerCopies' /\ LeaseCopies'
  BY <1>3, <1>4, CopiesStay DEF RunnerCopies, LeaseCopies
<1>6. pass.pc = "terminate"
  BY DEF Terminate, In
<1>7. IsCopy(pass.copy, runners'[r]) /\ pass.copy.st # "terminated"
  BY <1>3, <1>6, CopiesStay DEF OnRunner, SafetyInv, PassOK, PassWork
<1>8. PassWork'
  BY <1>1, <1>2, <1>4, <1>7 DEF PassWork, Live, SafetyInv, PassOK, OnRunner, Phases
<1> QED BY <1>3, <1>5, <1>8 DEF PassOK

(* Lists, reads, failing calls, and the choice of a runner to terminate. *)
LEMMA PassReadStep ==
  ASSUME TypeOK, SafetyInv, JobsProgress,
         UNCHANGED <<jobs, runners, leases, registration, instances, reply>>,
         \/ ListJobs \/ ListRunners \/ ListLeases \/ ListFails \/ RecordCallFails
         \/ \E r \in Runners : ReadStatus(r) \/ StatusFails(r) \/ CleanOrphan(r) \/ ReapExpired(r)
         \/ \E j \in Jobs : CleanTerminalJob(j) \/ RepairFails(j)
  PROVE  TablesEvolve /\ PassOK'
<1>1. TablesEvolve /\ pass \in PassRecords
  BY Untouched DEF TablesEvolve, TypeOK, PassTypeOK
<1>2. CASE ListJobs
  <2>1. AtRest(pass, pass')
    BY <1>2 DEF ListJobs, IdlePass, AtRest
  <2> QED BY <1>1, <2>1, CopiesStay, RestOK
<1>3. CASE ListRunners
  <2> DEFINE p == [pass EXCEPT !.runners = runners]
  <2>1. p.runners = runners /\ p.leases = pass.leases
    BY <1>1 DEF PassRecords
  <2>2. AtRest(p, pass')
    <3>1. /\ pass'.runners = runners /\ pass'.leases = pass.leases /\ pass'.pc = "listLeases"
          /\ pass'.in = pass.in
      BY <1>1, <1>3 DEF ListRunners, PassRecords
    <3> QED BY <1>3, <2>1, <3>1 DEF ListRunners, In, SafetyInv, PassOK, PassWork, AtRest
  <2>3. \A r \in Runners : IsCopy(p.runners[r], runners'[r])
    BY <2>1, OwnCopy DEF TypeOK, StateTypeOK, RunnerRecords
  <2> HIDE DEF p
  <2> QED BY <1>1, <2>1, <2>2, <2>3, CopiesStay, RestOK
<1>4. CASE ListLeases
  <2> DEFINE p == [pass EXCEPT !.leases = leases]
  <2>1. p.runners = pass.runners /\ p.leases = leases /\ p \in PassRecords
    BY <1>1 DEF PassRecords, TypeOK, StateTypeOK
  <2>2. pass' = EnterStatus(p)
    BY <1>4 DEF ListLeases
  <2> HIDE DEF p
  <2>3. AtRest(p, pass')
    BY <2>1, <2>2, EnterRest
  <2>4. \A j \in Jobs : IsCopy(p.leases[j], leases'[j])
    BY <2>1, OwnCopy DEF TypeOK, StateTypeOK, LeaseRecords
  <2> QED BY <1>1, <2>1, <2>3, <2>4, CopiesStay, RestOK
<1>5. CASE ListFails
  BY <1>1, <1>5, EnterRest, CopiesStay, RestOK DEF ListFails
<1>6. CASE RecordCallFails
  BY <1>1, <1>6, VisitedOK DEF RecordCallFails
<1>7. ASSUME NEW r \in Runners, ReadStatus(r)
      PROVE  PassOK'
  <2>1. pass.pc = "status" /\ pass.in = "status" /\ pass.runners[r].st # "terminated"
    BY <1>7 DEF ReadStatus, In, SafetyInv, PassOK, PassWork, Phases
  <2>2. CASE ProviderState(r) = pass.runners[r].st
    BY <1>1, <1>7, <2>2, VisitedOK DEF ReadStatus
  <2>3. CASE ProviderState(r) # pass.runners[r].st
    <3>1. pass' = [pass EXCEPT !.pc = "save", !.cur = r, !.to = ProviderState(r)]
      BY <1>7, <2>3 DEF ReadStatus
    <3>2. /\ pass'.pc = "save" /\ pass'.cur = r /\ pass'.to = ProviderState(r)
          /\ pass'.in = pass.in /\ pass'.todo = pass.todo
          /\ pass'.runners = pass.runners /\ pass'.leases = pass.leases
      BY <1>1, <3>1 DEF PassRecords
    <3>3. RunnerCopies' /\ LeaseCopies'
      BY <1>1, <3>2, CopiesStay DEF RunnerCopies, LeaseCopies
    <3>4. pass'.to = "terminated" => instances'[r].st \notin {"provisioning", "ready", "failed"}
      BY <3>2 DEF ProviderState
    <3>5. PassWork'
      BY <2>1, <3>2, <3>4 DEF PassWork, Live, SafetyInv, PassOK, OnRunner, Phases
    <3> QED BY <3>3, <3>5 DEF PassOK
  <2> QED BY <2>2, <2>3
<1>8. ASSUME NEW r \in Runners, StatusFails(r)
      PROVE  PassOK'
  BY <1>1, <1>8, VisitedOK DEF StatusFails
<1>9. ASSUME NEW r \in Runners, CleanOrphan(r) \/ ReapExpired(r)
      PROVE  PassOK'
  <2>1. pass.runners[r].st # "terminated" /\ pass' = BeginTermination(pass, r)
    BY <1>9 DEF CleanOrphan, ReapExpired, In, SafetyInv, PassOK, PassWork, Phases
  <2>2. pass = [pass EXCEPT !.todo = pass.todo]
    BY <1>1 DEF PassRecords
  <2> QED BY <2>1, <2>2, BegunOK
<1>10. ASSUME NEW j \in Jobs, CleanTerminalJob(j)
       PROVE  PassOK'
  <2>1. CASE pass' = Visited(pass, j)
    BY <1>1, <2>1, VisitedOK
  <2>2. CASE pass' # Visited(pass, j)
    <3>1. PICK r \in RunnersOfJob(pass, j) :
            /\ pass.runners[r].st # "terminated"
            /\ pass' = BeginTermination([pass EXCEPT !.todo = pass.todo \ {j}], r)
      BY <1>10, <2>2 DEF CleanTerminalJob
    <3>2. r \in Runners
      BY <1>1 DEF RunnersOfJob, PassRecords, LeaseRecords
    <3> QED BY <3>1, <3>2, BegunOK
  <2> QED BY <2>1, <2>2
<1>11. ASSUME NEW j \in Jobs, RepairFails(j)
       PROVE  PassOK'
  BY <1>1, <1>11, VisitedOK DEF RepairFails
<1> QED BY <1>1, <1>2, <1>3, <1>4, <1>5, <1>6, <1>7, <1>8, <1>9, <1>10, <1>11

(* A call of the pass, successful or not. *)
LEMMA ReconcileSafe ==
  ASSUME TypeOK, TypeOK', SafetyInv, JobsProgress, Reconcile
  PROVE  TablesEvolve /\ SafetyInv'
<1>1. UNCHANGED handlerVars /\ handler' = handler /\ reply' = reply /\ PassStep
  BY DEF Reconcile, handlerVars
<1>2. TablesEvolve /\ PassOK'
  <2>1. CASE SaveStatus \/ MarkTerminating \/ MarkTerminated
    BY <1>1, <2>1, PassRunnerStep
  <2>2. CASE \E j \in Jobs : RepairLease(j)
    BY <1>1, <2>2, RepairLeaseStep
  <2>3. CASE \E j \in Jobs : ExpireJob(j) \/ RepairJob(j)
    BY <1>1, <2>3, RepairJobStep
  <2>4. CASE Terminate
    BY <1>1, <2>4, PassTerminateStep
  <2>5. ASSUME \/ ListJobs \/ ListRunners \/ ListLeases \/ ListFails \/ RecordCallFails
               \/ \E r \in Runners : ReadStatus(r) \/ StatusFails(r) \/ CleanOrphan(r) \/ ReapExpired(r)
               \/ \E j \in Jobs : CleanTerminalJob(j) \/ RepairFails(j)
        PROVE  TablesEvolve /\ PassOK'
    <3>1. UNCHANGED <<jobs, runners, leases, registration, instances>>
      BY <2>5 DEF ListJobs, ListRunners, ListLeases, ListFails, RecordCallFails, ReadStatus, StatusFails,
         CleanOrphan, ReapExpired, CleanTerminalJob, RepairFails, shared, store
    <3> QED BY <1>1, <2>5, <3>1, PassReadStep
  <2> QED BY <1>1, <2>1, <2>2, <2>3, <2>4, <2>5 DEF PassStep, PassProgress, PassFailure
<1> QED BY <1>1, <1>2, BystandersKept

-----------------------------------------------------------------------------
(* Everything else. *)

(* Instances end on their own, and time passes. *)
LEMMA EnvironmentEvolves ==
  ASSUME TypeOK, JobsProgress, Environment
  PROVE  TablesEvolve
<1>1. UNCHANGED <<jobs, runners, leases, registration, handler, reply, pass>>
  BY DEF Environment, TerminationCompletes, InstanceLost, Expire, store, handlerVars
<1>2. InstancesEvolve
  <2>1. ASSUME NEW r \in Runners, TerminationCompletes(r)
        PROVE  InstancesEvolve
    <3>1. instances' = [instances EXCEPT ![r].st = "terminated"] /\ instances[r].st = "terminating"
      BY <2>1 DEF TerminationCompletes
    <3>2. /\ instances'[r].st = "terminated" /\ instances'[r].job = instances[r].job
          /\ \A q \in Runners \ {r} : instances'[q] = instances[q]
      BY <3>1 DEF TypeOK, StateTypeOK, InstanceRecords
    <3> QED BY <3>1, <3>2 DEF InstancesEvolve, Live
  <2>2. ASSUME NEW r \in Runners, NEW st \in {"failed", "terminated"}, InstanceLost(r, st)
        PROVE  InstancesEvolve
    <3>1. instances' = [instances EXCEPT ![r].st = st] /\ Live(r) /\ instances[r].st # "none"
      BY <2>2 DEF InstanceLost, Live
    <3>2. /\ instances'[r].st = st /\ instances'[r].job = instances[r].job
          /\ \A q \in Runners \ {r} : instances'[q] = instances[q]
      BY <3>1 DEF TypeOK, StateTypeOK, InstanceRecords
    <3> QED BY <3>1, <3>2 DEF InstancesEvolve, Live
  <2>3. ASSUME NEW j \in Jobs, Expire(j)
        PROVE  InstancesEvolve
    BY <2>3, Untouched DEF Expire
  <2> QED BY <2>1, <2>2, <2>3 DEF Environment
<1> QED BY <1>1, <1>2, Untouched DEF TablesEvolve

(* Neither breaks a promise. *)
LEMMA EnvironmentSafe ==
  ASSUME TypeOK, SafetyInv, JobsProgress, Environment
  PROVE  TablesEvolve /\ SafetyInv'
<1>1. handler' = handler /\ reply' = reply /\ pass' = pass
  BY DEF Environment, handlerVars
<1> QED BY <1>1, EnvironmentEvolves, PassKept, BystandersKept

(* A crash: the requests and the pass are gone, and with them what they were *)
(* responsible for; the tables and the instances stay.                       *)
LEMMA CrashSafe ==
  ASSUME TypeOK, SafetyInv, JobsProgress, Crash
  PROVE  TablesEvolve /\ SafetyInv'
<1>1. /\ UNCHANGED <<jobs, runners, leases, registration, instances, reply>> /\ pass' = IdlePass
      /\ \A h \in Handlers : handler'[h].pc = "idle"
  BY DEF Crash, store, Idle
<1>2. TablesEvolve
  BY <1>1, Untouched DEF TablesEvolve
<1>3. "idle" \notin Obliging /\ "idle" \notin Assigners
  BY DEF Obliging, Provisioned, Unrecorded, Recorded, Releasing, Closing, Assignment, Assigners,
     Preparing, Owning, Assigning, Cleanup
<1>4. RequestsOK' /\ OneAssigner'
  BY <1>1, <1>3, ObligesNothing DEF RequestsOK, OneAssigner
<1>5. AtRest(pass, pass')
  BY <1>1, EnterRest DEF TypeOK, PassTypeOK
<1>6. PassOK'
  BY <1>2, <1>5, CopiesStay, RestOK
<1> QED BY <1>2, <1>4, <1>6, PromisesKept DEF SafetyInv

(* Before the first request there is nothing to promise. *)
LEMMA InitSafe == Init => SafetyInv /\ EndedCopies
<1> SUFFICES ASSUME Init PROVE SafetyInv /\ EndedCopies
  OBVIOUS
<1> USE DEF Init, StateInit, HandlerInit, PassInit
<1>1. \A h \in Handlers : handler[h].pc = "idle"
  BY DEF Idle
<1>2. RequestsOK /\ OneAssigner /\ EndedCopies
  BY <1>1 DEF RequestsOK, RequestOK, OwnsInstance, HoldsRecord, HasReleased, HoldsLease, AssignsJob,
     OneAssigner, EndedCopies, At, Provisioned, Unrecorded, Recorded, Releasing, Closing, Assignment,
     Assigners, Preparing, Owning, Assigning, Cleanup
<1>3. TablesOK
  BY ConstantsAssumption DEF TablesOK, RecordsOfInstances, LeasesOfRecords, InstancesOfJobs,
     NoRunnerRecord, NoLease, NoInstance, Absent
<1>4. PassOK
  BY DEF PassOK, RunnerCopies, LeaseCopies, PassWork, IdlePass, IsCopy, OnRunner, Phases,
     NoRunnerRecord, NoLease
<1>5. Promises
  BY ConstantsAssumption DEF Promises, TerminatedRecordMeansReleased, OneInstancePerJob,
     AssignedHasLease, LeaseOnlyForRegisteredRunner, AcknowledgedFinishIsComplete,
     NoRunnerRecord, NoLease, NoInstance, NoJob, Absent
<1> QED BY <1>2, <1>3, <1>4, <1>5 DEF SafetyInv

(* Every step of the platform keeps the invariant. *)
LEMMA StepSafe ==
  ASSUME TypeOK, TypeOK', CopiesMatchRevisions, EndedCopies, SafetyInv, [Next]_vars
  PROVE  TablesEvolve /\ SafetyInv' /\ EndedCopies'
<1>1. JobsProgress
  BY StepProgress
<1>2. CASE UNCHANGED vars
  <2>1. UNCHANGED <<jobs, runners, leases, registration, instances, handler, reply, pass>>
    BY <1>2 DEF vars, shared, handlerVars
  <2>2. TablesEvolve
    BY <1>1, <2>1, Untouched DEF TablesEvolve
  <2> QED BY <2>1, <2>2, PassKept, BystandersKept, EndedCopiesKept
<1>3. CASE Next
  BY <1>1, <1>3, WebhookSafe, ReconcileSafe, EnvironmentSafe, CrashSafe, EndedCopiesKept DEF Next
<1> QED BY <1>2, <1>3

-----------------------------------------------------------------------------
(* The theorems. *)

(* What the promises rest on: who is responsible for an instance, a record   *)
(* and a lease, between any two calls of the webhook handlers, the           *)
(* assignment service and the reconciler, and across crashes.                *)
THEOREM SafetyIsInvariant == Spec => []SafetyInv
<1>1. Init => SafetyInv /\ EndedCopies
  BY InitSafe
<1>2. /\ TypeOK /\ TypeOK' /\ CopiesMatchRevisions /\ (SafetyInv /\ EndedCopies) /\ [Next]_vars
      => (SafetyInv /\ EndedCopies)'
  BY StepSafe
<1> QED BY <1>1, <1>2, TypeCorrect, CopiesAreSound, PTL DEF Spec

(* A runner recorded as terminated costs nothing: finish, Assign's cleanup   *)
(* and the reconciler record "terminated" only of an instance the provider   *)
(* has been told to terminate, or says is gone, and no later save revives    *)
(* the record of a leased runner or the instance.                            *)
THEOREM TerminatedIsReleased == Spec => []TerminatedRecordMeansReleased
  BY SafetyIsInvariant, PTL DEF SafetyInv, Promises

(* Whatever is redelivered, retried or repeated after a crash, Provision is  *)
(* called once for a job: CreateJob lets one request through, and nothing    *)
(* but CreateJob leads to Provision.                                         *)
THEOREM JobHasOneInstance == Spec => []OneInstancePerJob
  BY SafetyIsInvariant, PTL DEF SafetyInv, Promises

(* A job that is assigned or running has a lease, and every lease is on a    *)
(* recorded runner of its own job, whichever of ToAssigned, the in_progress  *)
(* event and the reconciler's repair moved the job on.                       *)
THEOREM AssignedJobHasLease == Spec => []AssignedHasLease
  BY SafetyIsInvariant, PTL DEF SafetyInv, Promises

(* CreateLease is reached only with a runner whose registration Assign has   *)
(* recorded as ready.                                                        *)
THEOREM LeasedRunnerIsRegistered == Spec => []LeaseOnlyForRegisteredRunner
  BY SafetyIsInvariant, PTL DEF SafetyInv, Promises

(* A completed or cancelled delivery that was answered without an error has  *)
(* closed everything, the job, its lease, its runner's record and the        *)
(* instance, and no later request, pass or crash opens any of them again.    *)
THEOREM FinishIsComplete == Spec => []AcknowledgedFinishIsComplete
  BY SafetyIsInvariant, PTL DEF SafetyInv, Promises

-----------------------------------------------------------------------------
(* The service as it is seen from outside (JobService).                      *)
(*                                                                         *)
(* What is added to the invariant: a job that is not recorded has no state, *)
(* a runner that was never provisioned no job; and a request that assigns a *)
(* runner has moved its job on, however far others have since.               *)
Stated == \A j \in Jobs : jobs[j].st = "none" => Absent(jobs[j])
Unused == \A r \in Runners : instances[r].st = "none" => instances[r].job = "none"
Begun == \A h \in Handlers : handler[h].pc \in AssignmentPCs => jobs[JobFor(h)].st \notin {"none", "queued"}

ServiceInv == Stated /\ Unused /\ Begun

(* A job goes on, to a state that is further on its way. *)
GoesOn(from, to) ==
  \/ to = from
  \/ from = "none" /\ to = "queued"
  \/ from # "none" /\ Service!Way(from) < Service!Way(to)

(* What is written of each table at a time: one entry. *)
JobWritten ==
  \E j \in Jobs, rec \in JobRecords :
    jobs' = [jobs EXCEPT ![j] = rec] /\ rec.st # "none" /\ GoesOn(jobs[j].st, rec.st)

LeaseEntered ==
  \E j \in Jobs, rec \in LeaseRecords :
    leases' = [leases EXCEPT ![j] = rec] /\ (Absent(leases[j]) => ~Closed(rec))

InstanceChanged ==
  \E r \in Runners, rec \in InstanceRecords :
    instances' = [instances EXCEPT ![r] = rec] /\ (instances[r].st = "none" => rec.st = "provisioning")

(* ... and of one table. *)
OneWritten ==
  \/ UNCHANGED <<jobs, leases, instances>>
  \/ JobWritten /\ UNCHANGED <<leases, instances>>
  \/ LeaseEntered /\ UNCHANGED <<jobs, instances>>
  \/ InstanceChanged /\ UNCHANGED <<jobs, leases>>

(* The transition table of lifecycle.validTransition leads on. *)
LEMMA TransitionGoesOn ==
  ASSUME NEW from \in JobStates \cup {"none"}, NEW to \in JobStates, ValidTransition(from, to)
  PROVE  GoesOn(from, to)
  BY DEF JobStates, ValidTransition, GoesOn, Service!Way, Service!Ends

(* SaveJob of a copy that is the job. *)
LEMMA SavedGoesOn ==
  ASSUME TypeOK, NEW j \in Jobs, NEW copy \in JobRecords, IsCopy(copy, jobs[j]),
         CanSave(jobs, j, copy.rev), NEW st \in JobStates, GoesOn(copy.st, st),
         jobs' = [jobs EXCEPT ![j] = Advanced(copy, st)]
  PROVE  JobWritten
<1> DEFINE rec == Advanced(copy, st)
<1>1. rec \in JobRecords
  BY AdvancedJob
<1>2. rec.st = st
  BY AdvancedParts
<1>3. copy = jobs[j]
  BY DEF IsCopy, CanSave
<1>4. jobs' = [jobs EXCEPT ![j] = rec]
  OBVIOUS
<1> HIDE DEF rec
<1>5. rec.st # "none" /\ GoesOn(jobs[j].st, rec.st)
  BY <1>2, <1>3 DEF JobStates
<1> QED BY <1>1, <1>4, <1>5 DEF JobWritten

(* The calls of a request that write a job, a lease or an instance; the      *)
(* others write none of them.                                                *)
WritesJob(h) ==
  CreateJob(h) \/ ToProvisioning(h) \/ FailJob(h) \/ ToAssigned(h) \/ ToRunning(h) \/ ToFinal(h)
WritesLease(h) == CreateLease(h) \/ SaveLease(h)
WritesInstance(h) ==
  (\E r \in Runners : Provision(h, r)) \/ WaitReady(h) \/ CleanupTerminate(h) \/ DropRunner(h) \/ TerminateRunner(h)

LEMMA RequestWrites ==
  ASSUME NEW h \in Handlers, HandlerStep(h)
  PROVE  \/ UNCHANGED <<jobs, leases, instances>>
         \/ WritesJob(h) /\ UNCHANGED <<leases, instances>>
         \/ WritesLease(h) /\ UNCHANGED <<jobs, instances>>
         \/ WritesInstance(h) /\ UNCHANGED <<jobs, leases>>
<1>1. CASE HandlerFailure(h)
  BY <1>1 DEF HandlerFailure, RepositoryCallFails, ProviderCallFails, CleanupCallFails, InsertFails,
     IgnoredCallFails, store
<1>2. CASE WritesJob(h)
  BY <1>2 DEF WritesJob, CreateJob, ToProvisioning, FailJob, ToAssigned, ToRunning, ToFinal
<1>3. CASE WritesLease(h)
  BY <1>3 DEF WritesLease, CreateLease, SaveLease
<1>4. CASE WritesInstance(h)
  BY <1>4 DEF WritesInstance, Provision, WaitReady, CleanupTerminate, DropRunner, TerminateRunner, store
<1>5. CASE \/ InsertNew(h) \/ InsertDuplicate(h) \/ GetJob(h) \/ Reserve(h) \/ CreateRunner(h) \/ GetRunner(h)
           \/ RegisterPending(h) \/ RunnerOnline(h) \/ RegistrationTimesOut(h) \/ RegisterFailed(h)
           \/ SaveReady(h) \/ RegisterReady(h) \/ CleanupGet(h) \/ CleanupMark(h) \/ CleanupTerminated(h)
           \/ ReleaseReservation(h) \/ Undo(h) \/ GetRunning(h) \/ GetFinal(h) \/ GetLease(h)
           \/ FinalRunner(h) \/ ReleaseCapacity(h) \/ SaveTerminated(h)
  BY <1>5 DEF InsertNew, InsertDuplicate, GetJob, ReadJob, Reserve, CreateRunner, GetRunner, ReadRunner,
     RegisterPending, Register, RunnerOnline, RegistrationTimesOut, RegisterFailed, SaveReady, RegisterReady,
     CleanupGet, CleanupMark, CleanupTerminated, ReleaseReservation, Undo, GetRunning, GetFinal, GetLease,
     FinalRunner, ReleaseCapacity, SaveTerminated, shared, store
<1> QED BY <1>1, <1>2, <1>3, <1>4, <1>5 DEF HandlerStep, HandlerProgress, WritesJob, WritesLease, WritesInstance

(* A call of a request that writes a job moves it on. *)
LEMMA RequestMovesJob ==
  ASSUME TypeOK, SafetyInv, CopiesMatchRevisions, NEW h \in Handlers, WritesJob(h)
  PROVE  UNCHANGED jobs \/ JobWritten
<1> DEFINE j == JobFor(h)
           copy == handler[h].job
<1>1. handler[h].pc # "idle"
  BY DEF WritesJob, CreateJob, ToProvisioning, FailJob, ToAssigned, ToRunning, ToFinal, InContext, At
<1>2. j \in Jobs /\ copy \in JobRecords /\ IsCopy(copy, jobs[j]) /\ copy.st \in JobStates \cup {"none"}
  BY <1>1, WorksOnJob DEF TypeOK, HandlerTypeOK, Requests, CopiesMatchRevisions, At, JobRecords
<1>3. ASSUME NEW st \in JobStates, GoesOn(copy.st, st), CanSave(jobs, j, copy.rev),
             jobs' = [jobs EXCEPT ![j] = Advanced(copy, st)]
      PROVE  JobWritten
  BY <1>2, <1>3, SavedGoesOn
<1>4. ASSUME NEW st \in JobStates, NEW next, Transition(h, st, next)
      PROVE  UNCHANGED jobs \/ JobWritten
  BY <1>2, <1>3, <1>4, TransitionGoesOn DEF Transition
<1>5. CASE CreateJob(h)
  <2>1. CASE Absent(jobs[j])
    <3> DEFINE rec == [st |-> "queued", rev |-> 1]
    <3>1. rec \in JobRecords /\ rec.st # "none" /\ jobs' = [jobs EXCEPT ![j] = rec]
      BY <1>5, <2>1 DEF CreateJob, JobRecords, JobStates
    <3>2. jobs[j] = NoJob
      BY <1>2, <2>1 DEF CopiesMatchRevisions, IsCopy, NoJob, Absent
    <3>3. GoesOn(jobs[j].st, rec.st)
      BY <3>2 DEF GoesOn, NoJob
    <3> QED BY <1>2, <3>1, <3>3 DEF JobWritten
  <2>2. CASE ~Absent(jobs[j])
    BY <1>5, <2>2 DEF CreateJob
  <2> QED BY <2>1, <2>2
<1>6. CASE ToProvisioning(h)
  BY <1>4, <1>6 DEF ToProvisioning, JobStates
<1>7. CASE ToFinal(h)
  BY <1>4, <1>7 DEF ToFinal, FinalState, JobStates
<1>8. CASE FailJob(h)
  <2>1. copy.st = "provisioning"
    BY <1>8 DEF FailJob, At, CopiesMatchRevisions, AssignmentPCs
  <2>2. GoesOn(copy.st, "failed")
    BY <2>1 DEF GoesOn, Service!Way, Service!Ends
  <2> QED BY <1>3, <1>8, <2>2 DEF FailJob, JobStates
<1>9. CASE ToAssigned(h)
  BY <1>2, <1>3, <1>9, TransitionGoesOn DEF ToAssigned, JobStates
<1>10. CASE ToRunning(h)
  BY <1>2, <1>3, <1>10, TransitionGoesOn DEF ToRunning, JobStates
<1> QED BY <1>5, <1>6, <1>7, <1>8, <1>9, <1>10 DEF WritesJob

(* A call of a request that writes a lease: CreateLease opens it. *)
LEMMA RequestEntersLease ==
  ASSUME TypeOK, TypeOK', NEW h \in Handlers, WritesLease(h)
  PROVE  UNCHANGED leases \/ LeaseEntered
<1> DEFINE j == JobFor(h)
<1>1. handler[h].pc # "idle" /\ j \in Jobs
  BY WorksOnJob DEF WritesLease, CreateLease, SaveLease, InContext, At, TypeOK
<1>2. leases' \in [Jobs -> LeaseRecords] /\ leases \in [Jobs -> LeaseRecords]
  BY DEF TypeOK, StateTypeOK
<1>3. ASSUME NEW rec, leases' = [leases EXCEPT ![j] = rec], Absent(leases[j]) => ~Closed(rec)
      PROVE  LeaseEntered
  <2>1. rec \in LeaseRecords
    BY <1>1, <1>2, <1>3
  <2> QED BY <1>1, <1>3, <2>1 DEF LeaseEntered
<1>4. CASE CreateLease(h)
  <2>1. CASE Absent(leases[j])
    <3> DEFINE rec == [st |-> "active", runner |-> handler[h].r, rev |-> 1]
    <3>1. leases' = [leases EXCEPT ![j] = rec] /\ ~Closed(rec)
      BY <1>4, <2>1 DEF CreateLease, Closed
    <3> HIDE DEF rec
    <3> QED BY <1>3, <3>1
  <2>2. CASE ~Absent(leases[j])
    BY <1>4, <2>2 DEF CreateLease
  <2> QED BY <2>1, <2>2
<1>5. CASE SaveLease(h)
  <2>1. CASE CanSave(leases, j, handler[h].lrev)
    <3> DEFINE rec == Advanced(leases[j], "terminated")
    <3>1. leases' = [leases EXCEPT ![j] = rec] /\ ~Absent(leases[j])
      BY <1>5, <2>1 DEF SaveLease, CanSave
    <3> HIDE DEF rec
    <3> QED BY <1>3, <3>1
  <2>2. CASE ~CanSave(leases, j, handler[h].lrev)
    BY <1>5, <2>2 DEF SaveLease
  <2> QED BY <2>1, <2>2
<1> QED BY <1>4, <1>5 DEF WritesLease

(* Terminate, whoever calls it, changes one instance. *)
LEMMA TerminateChanges ==
  ASSUME TypeOK, TypeOK', NEW r \in Runners, TerminateInstance(r)
  PROVE  UNCHANGED instances \/ InstanceChanged
<1>1. CASE Live(r)
  <2> DEFINE rec == [instances[r] EXCEPT !.st = "terminating"]
  <2>1. instances' = [instances EXCEPT ![r] = rec] /\ instances[r].st # "none"
    BY <1>1 DEF TerminateInstance, Live
  <2> HIDE DEF rec
  <2>2. rec \in InstanceRecords
    BY <2>1 DEF TypeOK, StateTypeOK
  <2> QED BY <2>1, <2>2 DEF InstanceChanged
<1>2. CASE ~Live(r)
  BY <1>2 DEF TerminateInstance
<1> QED BY <1>1, <1>2

(* A call of a request that writes an instance: Provision starts a new one. *)
LEMMA RequestChangesInstance ==
  ASSUME TypeOK, TypeOK', NEW h \in Handlers, WritesInstance(h)
  PROVE  UNCHANGED instances \/ InstanceChanged
<1>1. ASSUME NEW r \in Runners, NEW rec, instances' = [instances EXCEPT ![r] = rec],
             instances[r].st = "none" => rec.st = "provisioning"
      PROVE  InstanceChanged
  <2>1. rec \in InstanceRecords
    BY <1>1 DEF TypeOK, StateTypeOK
  <2> QED BY <1>1, <2>1 DEF InstanceChanged
<1>2. ASSUME NEW r \in Runners, Provision(h, r) PROVE InstanceChanged
  <2> DEFINE rec == [st |-> "provisioning", job |-> JobFor(h)]
  <2>1. instances' = [instances EXCEPT ![r] = rec] /\ rec.st = "provisioning"
    BY <1>2 DEF Provision
  <2> HIDE DEF rec
  <2> QED BY <1>1, <2>1
<1>3. CASE WaitReady(h)
  <2>1. handler[h].r \in Runners
    BY <1>3 DEF WaitReady, InContext, At, TypeOK, HandlerTypeOK, RunnerPCs, Assigning
  <2> DEFINE r == handler[h].r
             rec == [instances[r] EXCEPT !.st = "ready"]
  <2>2. CASE instances[r].st = "provisioning"
    <3>1. instances' = [instances EXCEPT ![r] = rec] /\ instances[r].st # "none"
      BY <1>3, <2>2 DEF WaitReady
    <3> HIDE DEF rec
    <3> QED BY <1>1, <2>1, <3>1
  <2>3. CASE instances[r].st # "provisioning"
    BY <1>3, <2>3 DEF WaitReady
  <2> QED BY <2>2, <2>3
<1>4. CASE CleanupTerminate(h) \/ DropRunner(h) \/ TerminateRunner(h)
  <2>1. handler[h].r \in Runners
    BY <1>4 DEF CleanupTerminate, DropRunner, TerminateRunner, InContext, At, TypeOK, HandlerTypeOK, RunnerPCs, Cleanup
  <2>2. UNCHANGED instances \/ TerminateInstance(handler[h].r)
    BY <1>4 DEF CleanupTerminate, DropRunner, TerminateRunner
  <2> QED BY <2>1, <2>2, TerminateChanges
<1> QED BY <1>2, <1>3, <1>4 DEF WritesInstance

(* Every call of a request writes one entry of one table, or nothing. *)
LEMMA RequestWritesOne ==
  ASSUME TypeOK, TypeOK', SafetyInv, CopiesMatchRevisions, NEW h \in Handlers, HandlerStep(h)
  PROVE  OneWritten
  BY RequestWrites, RequestMovesJob, RequestEntersLease, RequestChangesInstance DEF OneWritten

-----------------------------------------------------------------------------
(* So does every call of a pass. *)

(* The repair of a job moves it on: a job that has not ended ends, or is     *)
(* assigned or running for a runner that is ready or busy.                   *)
LEMMA TargetGoesOn ==
  ASSUME NEW p, NEW j, p.jobs[j].st \in JobStates \cup {"none"}, ~Terminal(p.jobs[j].st), p.jobs[j].st # "none"
  PROVE  JobTarget(p, j) \in JobStates /\ GoesOn(p.jobs[j].st, JobTarget(p, j))
<1> DEFINE st == p.jobs[j].st
           to == JobTarget(p, j)
<1>1. \/ to = "failed" \/ to = st
      \/ to = "running" /\ st \in {"queued", "provisioning", "assigned"}
      \/ to = "assigned" /\ st \in {"queued", "provisioning"}
  BY DEF JobTarget
<1>2. st \in {"queued", "provisioning", "assigned", "running"}
  BY DEF JobStates, Terminal
<1> HIDE DEF st, to
<1>3. to \in JobStates /\ GoesOn(st, to)
  BY <1>1, <1>2 DEF JobStates, GoesOn, Service!Way, Service!Ends
<1> QED BY <1>3 DEF st, to

LEMMA PassMovesJob ==
  ASSUME TypeOK, CopiesMatchRevisions, Stated, NEW j \in Jobs, ExpireJob(j) \/ RepairJob(j)
  PROVE  UNCHANGED jobs \/ JobWritten
<1> DEFINE copy == pass.jobs[j]
<1>1. copy \in JobRecords /\ IsCopy(copy, jobs[j]) /\ copy.st \in JobStates \cup {"none"}
  BY DEF TypeOK, PassTypeOK, PassRecords, CopiesMatchRevisions, JobRecords
<1>2. ASSUME JobSaved(j) PROVE copy = jobs[j] /\ copy.st # "none" /\ CanSave(jobs, j, copy.rev)
  BY <1>1, <1>2 DEF JobSaved, CanSave, IsCopy, Stated
<1>3. ASSUME NEW st \in JobStates, JobSaved(j) => GoesOn(copy.st, st), jobs' = JobWrite(j, st)
      PROVE  UNCHANGED jobs \/ JobWritten
  BY <1>1, <1>2, <1>3, SavedGoesOn DEF JobWrite
<1>4. CASE ExpireJob(j)
  <2>1. JobSaved(j) => GoesOn(copy.st, "failed")
    BY <1>1, <1>2, <1>4 DEF ExpireJob, Terminal, JobStates, GoesOn, Service!Way, Service!Ends
  <2> QED BY <1>3, <1>4, <2>1 DEF ExpireJob, JobStates
<1>5. CASE RepairJob(j)
  <2>1. CASE copy.st = "none"
    <3>1. ~JobSaved(j)
      BY <1>2, <2>1
    <3> QED BY <1>5, <3>1 DEF RepairJob, JobWrite
  <2>2. CASE copy.st # "none"
    <3>1. ~Terminal(copy.st)
      BY <1>5 DEF RepairJob
    <3>2. JobTarget(pass, j) \in JobStates /\ GoesOn(copy.st, JobTarget(pass, j))
      BY <1>1, <2>2, <3>1, TargetGoesOn
    <3>3. UNCHANGED jobs \/ jobs' = JobWrite(j, JobTarget(pass, j))
      BY <1>5 DEF RepairJob
    <3> QED BY <1>3, <3>2, <3>3
  <2> QED BY <2>1, <2>2
<1> QED BY <1>4, <1>5

LEMMA PassWritesOne ==
  ASSUME TypeOK, TypeOK', SafetyInv, CopiesMatchRevisions, Stated, PassStep
  PROVE  OneWritten
<1>1. CASE \/ ListJobs \/ ListRunners \/ ListLeases \/ ListFails \/ RecordCallFails
           \/ SaveStatus \/ MarkTerminating \/ MarkTerminated
           \/ \E r \in Runners : ReadStatus(r) \/ StatusFails(r) \/ CleanOrphan(r) \/ ReapExpired(r)
           \/ \E j \in Jobs : CleanTerminalJob(j) \/ RepairFails(j)
  <2>1. UNCHANGED <<jobs, leases, instances>>
    BY <1>1 DEF ListJobs, ListRunners, ListLeases, ListFails, RecordCallFails, SaveStatus, MarkTerminating,
       MarkTerminated, ReadStatus, StatusFails, CleanOrphan, ReapExpired, CleanTerminalJob, RepairFails,
       shared, store
  <2> QED BY <2>1 DEF OneWritten
<1>2. ASSUME NEW j \in Jobs, ExpireJob(j) \/ RepairJob(j) PROVE OneWritten
  <2>1. UNCHANGED <<leases, instances>>
    BY <1>2 DEF ExpireJob, RepairJob
  <2> QED BY <1>2, <2>1, PassMovesJob DEF OneWritten
<1>3. ASSUME NEW j \in Jobs, RepairLease(j) PROVE OneWritten
  <2> DEFINE rec == Advanced(pass.leases[j], LeaseTarget(pass, j))
  <2>1. UNCHANGED <<jobs, instances>>
    BY <1>3 DEF RepairLease
  <2>2. CASE CanSave(leases, j, pass.leases[j].rev)
    <3>1. leases' = [leases EXCEPT ![j] = rec] /\ ~Absent(leases[j])
      BY <1>3, <2>2 DEF RepairLease, CanSave
    <3> HIDE DEF rec
    <3>2. rec \in LeaseRecords
      BY <3>1 DEF TypeOK, StateTypeOK
    <3>3. LeaseEntered
      BY <3>1, <3>2 DEF LeaseEntered
    <3> QED BY <2>1, <3>3 DEF OneWritten
  <2>3. CASE ~CanSave(leases, j, pass.leases[j].rev)
    BY <1>3, <2>1, <2>3 DEF RepairLease, OneWritten
  <2> QED BY <2>2, <2>3
<1>4. CASE Terminate
  <2>1. pass.cur \in Runners
    BY <1>4 DEF Terminate, In, SafetyInv, PassOK, PassWork, OnRunner
  <2>2. TerminateInstance(pass.cur) /\ UNCHANGED <<jobs, leases>>
    BY <1>4 DEF Terminate, store
  <2> QED BY <2>1, <2>2, TerminateChanges DEF OneWritten
<1> QED BY <1>1, <1>2, <1>3, <1>4 DEF PassStep, PassProgress, PassFailure

(* And what happens by itself. *)
LEMMA EnvironmentWritesOne ==
  ASSUME TypeOK, TypeOK', Environment
  PROVE  OneWritten
<1>1. ASSUME NEW r \in Runners, NEW st \in {"failed", "terminated"}, instances[r].st # "none",
             instances' = [instances EXCEPT ![r].st = st], UNCHANGED <<jobs, leases>>
      PROVE  OneWritten
  <2> DEFINE rec == [instances[r] EXCEPT !.st = st]
  <2>1. instances' = [instances EXCEPT ![r] = rec]
    BY <1>1
  <2> HIDE DEF rec
  <2>2. rec \in InstanceRecords
    BY <2>1 DEF TypeOK, StateTypeOK
  <2>3. InstanceChanged
    BY <1>1, <2>1, <2>2 DEF InstanceChanged
  <2> QED BY <1>1, <2>3 DEF OneWritten
<1>2. ASSUME NEW r \in Runners, TerminationCompletes(r) PROVE OneWritten
  BY <1>1, <1>2 DEF TerminationCompletes, store
<1>3. ASSUME NEW r \in Runners, NEW st \in {"failed", "terminated"}, InstanceLost(r, st) PROVE OneWritten
  BY <1>1, <1>3 DEF InstanceLost, store
<1>4. ASSUME NEW j \in Jobs, Expire(j) PROVE OneWritten
  BY <1>4 DEF Expire, store, OneWritten
<1> QED BY <1>2, <1>3, <1>4 DEF Environment

(* Every step of the platform, a crash among them. *)
LEMMA StepWritesOne ==
  ASSUME TypeOK, TypeOK', SafetyInv, CopiesMatchRevisions, Stated, [Next]_vars
  PROVE  OneWritten
<1>1. CASE Crash \/ UNCHANGED vars
  BY <1>1 DEF Crash, vars, shared, store, OneWritten
<1>2. ASSUME NEW h \in Handlers, Webhook(h) PROVE OneWritten
  <2>1. ASSUME NEW d \in Deliveries, NEW at \in Instants, Receive(h, d, at) PROVE OneWritten
    BY <2>1 DEF Receive, shared, OneWritten
  <2>2. CASE ClientGone(h)
    BY <2>2 DEF ClientGone, shared, OneWritten
  <2> QED BY <1>2, <2>1, <2>2, RequestWritesOne DEF Webhook
<1> QED BY <1>1, <1>2, PassWritesOne, EnvironmentWritesOne DEF Next, Reconcile

(* What is added to the invariant stays. *)
LEMMA ServiceKept ==
  ASSUME TypeOK, TypeOK', CopiesMatchRevisions, ServiceInv, TablesEvolve, OneWritten, [Next]_vars
  PROVE  ServiceInv'
<1>1. Stated'
  <2> SUFFICES ASSUME NEW j \in Jobs, jobs'[j].st = "none" PROVE jobs'[j] = jobs[j]
    BY DEF ServiceInv, Stated, Absent
  <2>1. ASSUME NEW i \in Jobs, NEW rec \in JobRecords, jobs' = [jobs EXCEPT ![i] = rec], rec.st # "none"
        PROVE  jobs'[j] = jobs[j]
    <3>1. jobs'[j] = IF i = j THEN rec ELSE jobs[j]
      BY <2>1 DEF TypeOK, StateTypeOK
    <3> QED BY <2>1, <3>1
  <2> QED BY <2>1 DEF OneWritten, JobWritten
<1>2. Unused'
  BY DEF ServiceInv, Unused, TablesEvolve, InstancesEvolve
<1>3. Begun'
  <2>1. ASSUME NEW j \in Jobs, jobs[j].st \notin {"none", "queued"} PROVE jobs'[j].st \notin {"none", "queued"}
    <3>1. CASE jobs'[j] = jobs[j]
      BY <2>1, <3>1
    <3>2. ASSUME NEW i \in Jobs, NEW rec \in JobRecords, jobs' = [jobs EXCEPT ![i] = rec], rec.st # "none",
                 GoesOn(jobs[i].st, rec.st), jobs'[j] # jobs[j]
          PROVE  jobs'[j].st \notin {"none", "queued"}
      <4>1. i = j /\ jobs'[j] = rec
        BY <3>2 DEF TypeOK, StateTypeOK
      <4>2. jobs[j].st \in JobStates
        BY <2>1 DEF TypeOK, StateTypeOK, JobRecords
      <4>3. rec.st # "queued"
        BY <2>1, <3>2, <4>1, <4>2 DEF GoesOn, JobStates, Service!Way, Service!Ends
      <4> QED BY <3>2, <4>1, <4>3
    <3> QED BY <3>1, <3>2 DEF OneWritten, JobWritten
  <2>2. ASSUME NEW h \in Handlers, handler'[h].pc \in AssignmentPCs, handler[h].pc \in AssignmentPCs,
               handler'[h].dlv = handler[h].dlv
        PROVE  jobs'[JobOf[handler'[h].dlv]].st \notin {"none", "queued"}
    <3>1. JobFor(h) \in Jobs
      BY <2>2, WorksOnJob DEF TypeOK, AssignmentPCs, Assigning, Cleanup
    <3> QED BY <2>1, <2>2, <3>1 DEF ServiceInv, Begun, JobFor
  <2>3. ASSUME NEW h \in Handlers, handler'[h].pc \in AssignmentPCs
        PROVE  jobs'[JobOf[handler'[h].dlv]].st \notin {"none", "queued"}
    <3>1. ASSUME NEW i \in Handlers, HandlerStep(i) PROVE jobs'[JobOf[handler'[h].dlv]].st \notin {"none", "queued"}
      <4>1. RequestEffect(i)
        BY <3>1, HandlerStepEffect DEF TypeOK
      <4>2. CASE h # i
        BY <2>2, <2>3, <4>1, <4>2 DEF RequestEffect, OthersKept
      <4>3. CASE h = i /\ CopyKept(h)
        BY <2>2, <2>3, <4>3 DEF CopyKept
      <4>4. CASE h = i /\ CopyTaken(h)
        BY <2>3, <4>4 DEF CopyTaken, JobFor
      <4>5. ~Ended(h)
        BY <2>3 DEF Ended, AssignmentPCs, Assigning, Cleanup
      <4> QED BY <4>1, <4>2, <4>3, <4>4, <4>5 DEF RequestEffect
    <3>2. ASSUME NEW i \in Handlers, NEW d \in Deliveries, NEW at \in Instants, Receive(i, d, at)
          PROVE  handler'[h] = handler[h]
      BY <2>3, <3>2 DEF Receive, Idle, TypeOK, HandlerTypeOK, AssignmentPCs, Assigning, Cleanup
    <3>3. ASSUME NEW i \in Handlers, ClientGone(i)
          PROVE  handler'[h].pc = handler[h].pc /\ handler'[h].dlv = handler[h].dlv
      BY <3>3 DEF ClientGone, TypeOK, HandlerTypeOK, Requests
    <3>4. ASSUME Reconcile \/ Environment \/ UNCHANGED vars PROVE handler'[h] = handler[h]
      BY <3>4 DEF Reconcile, Environment, handlerVars, vars
    <3>5. ~Crash
      BY <2>3 DEF Crash, Idle, AssignmentPCs, Assigning, Cleanup
    <3> QED BY <2>2, <2>3, <3>1, <3>2, <3>3, <3>4, <3>5 DEF Next, Webhook
  <2> QED BY <2>3 DEF Begun, JobFor
<1> QED BY <1>1, <1>2, <1>3 DEF ServiceInv

LEMMA InitServes == Init => ServiceInv /\ Service!Init
<1> SUFFICES ASSUME Init PROVE ServiceInv /\ Service!Init
  OBVIOUS
<1> USE DEF Init, StateInit, HandlerInit
<1>1. Stated /\ Unused
  BY DEF Stated, Unused, NoJob, NoInstance, Absent
<1>2. Begun
  BY DEF Begun, Idle, AssignmentPCs, Assigning, Cleanup
<1>3. Service!Init
  <2>1. [j \in Jobs |-> jobs[j].st] = [j \in Jobs |-> "none"]
    BY DEF NoJob
  <2>2. [j \in Jobs |-> leases[j].runner] = [j \in Jobs |-> NoRunner]
    BY DEF NoLease
  <2>3. {j \in Jobs : leases[j].st \in {"terminated", "failed"}} = {}
    BY DEF NoLease
  <2>4. \A r \in Runners : instances[r].job = "none" /\ ~Live(r)
    BY DEF NoInstance, Live
  <2>5. [r \in Runners |-> [job |-> instances[r].job, up |-> Live(r)]] = [r \in Runners |-> Service!NoInstance]
    <3>1. ASSUME NEW r \in Runners PROVE [job |-> instances[r].job, up |-> Live(r)] = Service!NoInstance
      <4>1. Live(r) = FALSE /\ instances[r].job = "none"
        BY <2>4
      <4> QED BY <4>1 DEF Service!NoInstance
    <3> QED BY <3>1
  <2> QED BY <2>1, <2>2, <2>3, <2>5 DEF Service!Init
<1> QED BY <1>1, <1>2, <1>3 DEF ServiceInv

(* Where nothing is written nothing is seen. *)
LEMMA NothingServed ==
  ASSUME UNCHANGED jobs, UNCHANGED leases, UNCHANGED instances
  PROVE  UNCHANGED Service!serviceVars
<1>1. UNCHANGED [j \in Jobs |-> jobs[j].st] /\ UNCHANGED [j \in Jobs |-> leases[j].runner]
  OBVIOUS
<1>2. UNCHANGED {j \in Jobs : leases[j].st \in {"terminated", "failed"}}
  OBVIOUS
<1>3. UNCHANGED [r \in Runners |-> [job |-> instances[r].job, up |-> Live(r)]]
  BY DEF Live
<1> QED BY <1>1, <1>2, <1>3 DEF Service!serviceVars

(* A write of the jobs is an acceptance or an advance, or shows nowhere. *)
LEMMA JobServed ==
  ASSUME TypeOK, SafetyInv, TablesEvolve, JobWritten, UNCHANGED <<leases, instances>>
  PROVE  Service!Next \/ UNCHANGED Service!serviceVars
<1>1. PICK j \in Jobs, rec \in JobRecords :
        jobs' = [jobs EXCEPT ![j] = rec] /\ rec.st # "none" /\ GoesOn(jobs[j].st, rec.st)
  BY DEF JobWritten
<1> DEFINE stage == [i \in Jobs |-> jobs[i].st]
           later == [i \in Jobs |-> jobs'[i].st]
<1>2. jobs'[j] = rec /\ \A i \in Jobs \ {j} : jobs'[i] = jobs[i]
  BY <1>1 DEF TypeOK, StateTypeOK
<1>3. later = [stage EXCEPT ![j] = rec.st]
  BY <1>2
<1>4. stage[j] = jobs[j].st
  OBVIOUS
<1>5. /\ UNCHANGED [i \in Jobs |-> leases[i].runner]
      /\ UNCHANGED {i \in Jobs : leases[i].st \in {"terminated", "failed"}}
      /\ UNCHANGED [r \in Runners |-> [job |-> instances[r].job, up |-> Live(r)]]
  BY DEF Live
<1>6. CASE rec.st = jobs[j].st
  <2>1. later = stage
    BY <1>3, <1>6
  <2> QED BY <1>5, <2>1 DEF Service!serviceVars
<1>7. CASE jobs[j].st = "none" /\ rec.st = "queued"
  <2>1. Service!Accept(j)
    BY <1>3, <1>4, <1>5, <1>7 DEF Service!Accept
  <2> QED BY <2>1 DEF Service!Next
<1>8. CASE jobs[j].st # "none" /\ Service!Way(jobs[j].st) < Service!Way(rec.st)
  <2>1. rec.st \in Service!Stages
    BY <1>1 DEF JobRecords, JobStates, Service!Stages, Service!Ends
  <2>2. rec.st \in {"assigned", "running"} => leases[j].runner # NoRunner
    <3> SUFFICES ASSUME rec.st \in {"assigned", "running"} PROVE leases[j].runner # NoRunner
      OBVIOUS
    <3>1. jobs[j].st \in {"assigned", "running"} \/ ~Absent(leases[j])
      BY <1>2 DEF TablesEvolve, AssignedFromLease
    <3>2. ~Absent(leases[j])
      BY <3>1 DEF SafetyInv, Promises, AssignedHasLease
    <3> QED BY <3>2, LeaseHasInstance, ConstantsAssumption
  <2>3. Service!Advance(j, rec.st)
    BY <1>3, <1>4, <1>5, <1>8, <2>2 DEF Service!Advance
  <2> QED BY <2>1, <2>3 DEF Service!Next
<1> QED BY <1>1, <1>6, <1>7, <1>8 DEF GoesOn

(* A write of a lease grants it or closes it, or shows nowhere. *)
LEMMA LeaseServed ==
  ASSUME TypeOK, SafetyInv, TablesEvolve, LeaseEntered, UNCHANGED <<jobs, instances>>
  PROVE  Service!Next \/ UNCHANGED Service!serviceVars
<1>1. PICK j \in Jobs, rec \in LeaseRecords :
        leases' = [leases EXCEPT ![j] = rec] /\ (Absent(leases[j]) => ~Closed(rec))
  BY DEF LeaseEntered
<1> DEFINE lease == [i \in Jobs |-> leases[i].runner]
           closed == {i \in Jobs : leases[i].st \in {"terminated", "failed"}}
<1>2. leases'[j] = rec /\ \A i \in Jobs \ {j} : leases'[i] = leases[i]
  BY <1>1 DEF TypeOK, StateTypeOK
<1>3. /\ UNCHANGED [i \in Jobs |-> jobs[i].st]
      /\ UNCHANGED [r \in Runners |-> [job |-> instances[r].job, up |-> Live(r)]]
  BY DEF Live
<1>4. lease' = [lease EXCEPT ![j] = rec.runner]
  BY <1>2
<1>5. closed' = IF Closed(rec) THEN closed \cup {j} ELSE closed \ {j}
  BY <1>2 DEF Closed
<1>6. CASE Absent(leases[j])
  <2>1. leases[j] = NoLease
    BY <1>6 DEF SafetyInv, PassOK, LeaseCopies, IsCopy, NoLease, Absent
  <2>2. closed' = closed
    BY <1>1, <1>5, <1>6, <2>1 DEF NoLease
  <2>3. CASE rec = leases[j]
    <3>1. lease' = lease
      BY <1>4, <2>3
    <3> QED BY <1>3, <2>2, <3>1 DEF Service!serviceVars
  <2>4. CASE rec # leases[j]
    <3>1. PICK h \in Handlers : At(h, "createLease") /\ JobFor(h) = j /\ rec.runner = handler[h].r
      <4>1. leases[j].rev = 0
        BY <1>6 DEF Absent
      <4> QED BY <1>2, <1>6, <2>4, <4>1 DEF TablesEvolve, LeasesEvolve
    <3> DEFINE r == rec.runner
    <3>2. r \in Runners
      BY <3>1 DEF At, TypeOK, HandlerTypeOK, RunnerPCs
    <3>3. instances[r].job = j
      BY <3>1 DEF At, SafetyInv, RequestsOK, RequestOK, OwnsInstance, Provisioned, Owning
    <3>4. lease[j] = NoRunner
      BY <2>1 DEF NoLease
    <3>5. Service!Grant(j, r)
      BY <1>3, <1>4, <2>2, <3>2, <3>3, <3>4 DEF Service!Grant
    <3> QED BY <3>2, <3>5 DEF Service!Next
  <2> QED BY <2>3, <2>4
<1>7. CASE ~Absent(leases[j])
  <2>1. rec.runner = leases[j].runner /\ (Closed(leases[j]) => Closed(rec))
    BY <1>2, <1>7, LeaseStays DEF TablesEvolve
  <2>2. lease' = lease
    BY <1>4, <2>1
  <2>3. CASE Closed(rec) /\ ~Closed(leases[j])
    <3>1. j \notin closed /\ closed' = closed \cup {j}
      BY <1>5, <2>3 DEF Closed
    <3>2. lease[j] # NoRunner
      BY <1>7, LeaseHasInstance, ConstantsAssumption
    <3>3. Service!Close(j)
      BY <1>3, <2>2, <3>1, <3>2 DEF Service!Close
    <3> QED BY <3>3 DEF Service!Next
  <2>4. CASE Closed(rec) <=> Closed(leases[j])
    <3>1. closed' = closed
      BY <1>5, <2>4 DEF Closed
    <3> QED BY <1>3, <2>2, <3>1 DEF Service!serviceVars
  <2> QED BY <2>1, <2>3, <2>4
<1> QED BY <1>6, <1>7

(* A change of an instance starts it or stops it, or shows nowhere. *)
LEMMA InstanceServed ==
  ASSUME TypeOK, SafetyInv, ServiceInv, TablesEvolve, InstanceChanged, UNCHANGED <<jobs, leases>>
  PROVE  Service!Next \/ UNCHANGED Service!serviceVars
<1>1. PICK r \in Runners, rec \in InstanceRecords :
        instances' = [instances EXCEPT ![r] = rec] /\ (instances[r].st = "none" => rec.st = "provisioning")
  BY DEF InstanceChanged
<1> DEFINE up(i) == i.st \in {"provisioning", "ready", "failed"}
           instance == [q \in Runners |-> [job |-> instances[q].job, up |-> up(instances[q])]]
           later == [q \in Runners |-> [job |-> instances'[q].job, up |-> up(instances'[q])]]
<1>2. instances'[r] = rec /\ \A q \in Runners \ {r} : instances'[q] = instances[q]
  BY <1>1 DEF TypeOK, StateTypeOK
<1>3. /\ UNCHANGED [i \in Jobs |-> jobs[i].st]
      /\ UNCHANGED [i \in Jobs |-> leases[i].runner]
      /\ UNCHANGED {i \in Jobs : leases[i].st \in {"terminated", "failed"}}
  OBVIOUS
<1>4. /\ [q \in Runners |-> [job |-> instances[q].job, up |-> Live(q)]] = instance
      /\ [q \in Runners |-> [job |-> instances[q].job, up |-> Live(q)]]' = later
  BY DEF Live
<1>5. later = [instance EXCEPT ![r] = [job |-> rec.job, up |-> up(rec)]]
  BY <1>2
<1>6. instance[r] = [job |-> instances[r].job, up |-> up(instances[r])]
  OBVIOUS
<1>7. CASE instances[r].st = "none"
  <2>1. PICK h \in Handlers : At(h, "provision") /\ rec.job = JobFor(h)
    BY <1>1, <1>2, <1>7 DEF TablesEvolve, InstancesEvolve
  <2> DEFINE j == JobFor(h)
  <2>2. j \in Jobs /\ jobs[j].st \notin {"none", "queued"}
    BY <2>1, WorksOnJob DEF At, TypeOK, ServiceInv, Begun, AssignmentPCs, Assigning
  <2>3. \A q \in Runners : instances[q].job # j
    BY <2>1 DEF At, SafetyInv, RequestsOK, RequestOK, AssignsJob, Preparing
  <2>4. Service!Way(jobs[j].st) >= Service!Way("provisioning")
    <3>1. jobs[j].st \in JobStates
      BY <2>2 DEF TypeOK, StateTypeOK, JobRecords
    <3> QED BY <2>2, <3>1 DEF JobStates, Service!Way, Service!Ends
  <2>5. instance[r] = Service!NoInstance
    <3>1. instances[r].job = "none" /\ up(instances[r]) = FALSE
      BY <1>7 DEF ServiceInv, Unused
    <3> HIDE DEF instance, up
    <3> QED BY <1>6, <3>1 DEF Service!NoInstance
  <2>6. later = [instance EXCEPT ![r] = [job |-> j, up |-> TRUE]]
    BY <1>1, <1>5, <1>7, <2>1
  <2>7. [i \in Jobs |-> jobs[i].st][j] = jobs[j].st
    BY <2>2
  <2>8. \A q \in Runners : instance[q].job # j
    BY <2>3
  <2> HIDE DEF instance, later, j
  <2>9. Service!Launch(j, r)
    BY <1>3, <1>4, <2>4, <2>5, <2>6, <2>7, <2>8 DEF Service!Launch
  <2> QED BY <2>2, <2>9 DEF Service!Next
<1>8. CASE instances[r].st # "none"
  <2>1. rec.job = instances[r].job /\ (~up(instances[r]) => ~up(rec))
    BY <1>2, <1>8, InstanceStays DEF TablesEvolve, Live
  <2>2. CASE up(instances[r]) /\ ~up(rec)
    <3> HIDE DEF instance, later
    <3>1. later = [instance EXCEPT ![r] = [job |-> instance[r].job, up |-> FALSE]] /\ instance[r].up
      <4>1. up(rec) = FALSE /\ up(instances[r]) = TRUE
        BY <2>2
      <4> HIDE DEF up
      <4>2. instance[r].job = rec.job /\ instance[r].up
        BY <1>6, <2>1, <4>1
      <4> QED BY <1>5, <4>1, <4>2
    <3>2. Service!Stop(r)
      BY <1>3, <1>4, <3>1 DEF Service!Stop
    <3> QED BY <3>2 DEF Service!Next
  <2>3. CASE up(rec) <=> up(instances[r])
    <3>1. later = instance
      <4>1. up(rec) = up(instances[r])
        BY <2>3
      <4> HIDE DEF up
      <4>2. instance[r] = [job |-> rec.job, up |-> up(rec)]
        BY <1>6, <2>1, <4>1
      <4> QED BY <1>5, <4>2
    <3> HIDE DEF instance, later
    <3> QED BY <1>3, <1>4, <3>1 DEF Service!serviceVars
  <2> QED BY <2>1, <2>2, <2>3
<1> QED BY <1>7, <1>8

(* Every call of every request and of every pass, whatever fails, ends by    *)
(* itself or crashes, is one step of the service or shows nowhere: a job     *)
(* goes forward only, gets one instance and one lease on it, and nothing is  *)
(* done in one step to two of them.                                          *)
THEOREM PlatformServes == Spec => ServiceSpec
<1>1. Init => ServiceInv /\ Service!Init
  BY InitServes
<1>2. Init => SafetyInv /\ EndedCopies
  BY InitSafe
<1>3. /\ TypeOK /\ TypeOK' /\ CopiesMatchRevisions /\ (SafetyInv /\ EndedCopies) /\ ServiceInv /\ [Next]_vars
      => (SafetyInv /\ EndedCopies)' /\ ServiceInv' /\ [Service!Next]_(Service!serviceVars)
  <2> SUFFICES ASSUME TypeOK, TypeOK', CopiesMatchRevisions, SafetyInv, EndedCopies, ServiceInv, [Next]_vars
               PROVE  (SafetyInv /\ EndedCopies)' /\ ServiceInv' /\ [Service!Next]_(Service!serviceVars)
    OBVIOUS
  <2>1. TablesEvolve /\ SafetyInv' /\ EndedCopies'
    BY StepSafe
  <2>2. OneWritten
    BY StepWritesOne DEF ServiceInv
  <2>3. ServiceInv'
    BY <2>1, <2>2, ServiceKept
  <2>4. ASSUME UNCHANGED <<jobs, leases, instances>> PROVE UNCHANGED Service!serviceVars
    BY <2>4, NothingServed
  <2>5. Service!Next \/ UNCHANGED Service!serviceVars
    BY <2>1, <2>2, <2>4, JobServed, LeaseServed, InstanceServed DEF OneWritten
  <2> QED BY <2>1, <2>3, <2>5
<1> QED BY <1>1, <1>2, <1>3, TypeCorrect, CopiesAreSound, PTL DEF Spec, ServiceSpec, Service!Spec

-----------------------------------------------------------------------------
(* The pool's counter.                                                       *)
(*                                                                         *)
(* A place is reserved by the request that assigns a runner, passed on to   *)
(* the lease it creates, and returned by the request that ends the job.  The *)
(* counter is right as long as none of the three is repeated or left out:   *)
(* each request knows whether its runner is recorded and with which         *)
(* revision, so that its saves succeed (Knows); nobody else works on its    *)
(* delivery or its runner (Apart); and a runner that has been ended is not  *)
(* ended again, since its delivery is not handled again (EndedOnce).        *)

(* What the counter relies on: nothing but requests changes the platform, no  *)
(* call of the repository is lost, an assignment that a failing provider has  *)
(* broken off leaves no recorded runner behind, and a job ends once.         *)
PoolUndisturbed ==
  /\ IsFiniteSet(Handlers) /\ IsFiniteSet(Runners)
  /\ ~Reconciling /\ MaxAborts = 0
  /\ FaultKinds \subseteq {"instance", "provider"} /\ (JIT => "provider" \notin FaultKinds)
  /\ \A d1, d2 \in Deliveries :
       ActionOf[d1] \in FinalActions /\ ActionOf[d2] \in FinalActions /\ JobOf[d1] = JobOf[d2] =>
         d1 = d2

Working(h) == handler[h].pc \notin {"idle", "insert"}
Unprovisioned == {"insert", "createJob"} \cup Preparing
Registered == {"getRunner", "regPending", "waitReg", "saveReady", "regReady",
               "regFailed", "clGet", "clMark", "clTerminated"}
Ends == {"getFinal", "toFinal", "getLease"} \cup Closing
Revised == {"terminate", "release", "saveRunner"}
Using == Owning \cup {"releasePool"}

(* The delivery: its marker is there while it is worked on. *)
KnowsDelivery(h) ==
  /\ handler[h].alive
  /\ handler[h].pc # "idle" => handler[h].at # 0
  /\ Working(h) => markers[handler[h].dlv] # 0
  /\ handler[h].pc \in Ends => ActionFor(h) \in FinalActions
  /\ handler[h].pc # "dropRunner"

(* What Assign gives back the reservation of costs nothing, or is unrecorded. *)
GivenBack(r) ==
  /\ r \in Runners /\ instances[r].st # "none"
  /\ Absent(runners[r]) \/ ~Live(r)

(* The runner it assigns: whether it is recorded, and with which revision. *)
KnowsRunner(h) ==
  /\ handler[h].pc \in Unprovisioned => handler[h].r = NoRunner /\ ~handler[h].saved
  /\ handler[h].pc \in Owning => (handler[h].saved <=> ~Absent(runners[handler[h].r]))
  /\ handler[h].pc \in Registered => handler[h].saved /\ JIT
  /\ At(h, "clTerminate") /\ handler[h].saved => JIT
  /\ At(h, "clMark") => handler[h].rrev = runners[handler[h].r].rev
  /\ handler[h].pc \in Recorded => runners[handler[h].r].st # "terminated"
  /\ At(h, "releasePool") /\ handler[h].r # NoRunner => GivenBack(handler[h].r)

(* The runner it ends: nobody has ended it yet, and nobody will before it. *)
KnowsLease(h) ==
  /\ handler[h].pc \in Closing => handler[h].lrev = leases[JobFor(h)].rev
  /\ handler[h].pc \in Revised => handler[h].rrev = runners[handler[h].r].rev
  /\ handler[h].pc \in Closing \ {"saveLease"} => runners[handler[h].r].st # "terminated"

Knows(h) == KnowsDelivery(h) /\ KnowsRunner(h) /\ KnowsLease(h)

(* Nobody works on the delivery of another request, or on its runner. *)
ApartFrom(h, i) ==
  /\ Working(h) /\ Working(i) => handler[h].dlv # handler[i].dlv
  /\ handler[h].pc \in Using /\ handler[i].pc \in Using /\ handler[h].r # NoRunner =>
       handler[h].r # handler[i].r

Apart == \A h, i \in Handlers : h # i => ApartFrom(h, i)

(* A lease whose runner is terminated has been ended, or nearly, by the       *)
(* delivery that ends the job; that delivery is not handled again.           *)
EndedBy(d, j) ==
  /\ JobOf[d] = j /\ ActionOf[d] \in FinalActions /\ markers[d] # 0
  /\ \A h \in Handlers : Working(h) /\ handler[h].dlv = d => At(h, "saveLease")

EndedOnce ==
  \A j \in Jobs :
    ~Absent(leases[j]) /\ runners[leases[j].runner].st = "terminated" =>
      \E d \in Deliveries : EndedBy(d, j)

(* Every recorded runner that costs something has a place. *)
Reserved(r) == \E h \in Handlers : HoldsReservation(h) /\ handler[h].r = r
Places ==
  \A r \in Runners : ~Absent(runners[r]) /\ Live(r) => r \in LeasedRunners \/ Reserved(r)

Holders == {h \in Handlers : HoldsReservation(h)}
Counted ==
  /\ used = Cardinality(Holders) + Cardinality(LeasedRunners)
  /\ used <= MaxRunners

PoolInv == (\A h \in Handlers : Knows(h)) /\ Apart /\ EndedOnce /\ Places /\ Counted

-----------------------------------------------------------------------------
(* What a call of a request may touch: the marker of its own delivery, the   *)
(* record of a runner it assigns or ends, and the lease of its job.          *)
PoolFrame(h) ==
  /\ OthersKept(h)
  /\ \A d \in Deliveries :
       \/ markers'[d] = markers[d]
       \/ handler[h].dlv = d /\ (At(h, "undo") \/ (At(h, "insert") /\ markers'[d] # 0))
  /\ \A r \in Runners :
       \/ runners'[r] = runners[r]
       \/ handler[h].r = r /\ (handler[h].pc \in Owning \/ At(h, "saveRunner"))
  /\ \A j \in Jobs :
       \/ leases'[j] = leases[j]
       \/ JobFor(h) = j /\ ((At(h, "createLease") /\ Absent(leases[j])) \/ At(h, "saveLease"))

PoolFacts == TypeOK /\ SafetyInv /\ PoolUndisturbed /\ PoolInv

(* A request that assigns a runner, or ends one, works on a job of its own.  *)
LEMMA AssignsOwn ==
  ASSUME PoolFacts, NEW i \in Handlers, handler[i].pc \in Owning
  PROVE  /\ handler[i].r \in Runners /\ JobFor(i) \in Jobs /\ Working(i)
         /\ Absent(leases[JobFor(i)])
         /\ instances[handler[i].r].st # "none" /\ instances[handler[i].r].job = JobFor(i)
<1>1. handler[i].pc \in RunnerPCs /\ handler[i].pc \notin {"idle", "insert"}
  BY DEF RunnerPCs, Owning, Assigning, Cleanup
<1>2. handler[i].r \in Runners /\ JobFor(i) \in Jobs /\ Working(i)
  BY <1>1, WorksOnJob DEF PoolFacts, TypeOK, HandlerTypeOK, Working
<1>3. OwnsInstance(i) /\ AssignsJob(i)
  BY DEF PoolFacts, SafetyInv, RequestsOK, RequestOK
<1> QED BY <1>2, <1>3 DEF OwnsInstance, AssignsJob, Provisioned, Assigners

(* A request that ends a runner has found it in the lease of its job. *)
LEMMA EndsOwn ==
  ASSUME PoolFacts, NEW i \in Handlers, handler[i].pc \in Closing
  PROVE  /\ handler[i].r \in Runners /\ JobFor(i) \in Jobs /\ Working(i)
         /\ ~Absent(leases[JobFor(i)]) /\ leases[JobFor(i)].runner = handler[i].r
         /\ ~Absent(runners[handler[i].r]) /\ instances[handler[i].r].st # "none"
         /\ instances[handler[i].r].job = JobFor(i) /\ runners[handler[i].r].job = JobFor(i)
<1>1. handler[i].pc \in RunnerPCs /\ handler[i].pc \notin {"idle", "insert"}
  BY DEF RunnerPCs, Closing
<1>2. handler[i].r \in Runners /\ JobFor(i) \in Jobs /\ Working(i)
  BY <1>1, WorksOnJob DEF PoolFacts, TypeOK, HandlerTypeOK, Working
<1>3. ~Absent(leases[JobFor(i)]) /\ leases[JobFor(i)].runner = handler[i].r
  BY DEF PoolFacts, SafetyInv, RequestsOK, RequestOK, HoldsLease
<1> QED BY <1>2, <1>3, LeaseHasInstance DEF PoolFacts

(* A job ends by one delivery, which one request handles at a time. *)
LEMMA OneEnder ==
  ASSUME PoolFacts, NEW h \in Handlers, NEW i \in Handlers, handler[h].pc \in Ends, handler[i].pc \in Ends,
         JobFor(h) = JobFor(i)
  PROVE  h = i
<1>1. /\ ActionFor(h) \in FinalActions /\ ActionFor(i) \in FinalActions
      /\ Working(h) /\ Working(i)
  BY DEF PoolFacts, PoolInv, Knows, KnowsDelivery, Working, Ends, Closing
<1>2. handler[h].dlv \in Deliveries /\ handler[i].dlv \in Deliveries
  BY <1>1 DEF PoolFacts, TypeOK, HandlerTypeOK, Working
<1>3. handler[h].dlv = handler[i].dlv
  BY <1>1, <1>2 DEF PoolFacts, PoolUndisturbed, ActionFor, JobFor
<1> QED BY <1>1, <1>3 DEF PoolFacts, PoolInv, Apart, ApartFrom

(* Two requests that end runners end different ones. *)
LEMMA OneEnderOfRunner ==
  ASSUME PoolFacts, NEW h \in Handlers, NEW i \in Handlers,
         handler[h].pc \in Closing, handler[i].pc \in Closing, handler[h].r = handler[i].r
  PROVE  h = i
<1>1. JobFor(h) = JobFor(i)
  BY EndsOwn
<1> QED BY <1>1, OneEnder DEF Ends

(* A runner that is being assigned is not being ended. *)
LEMMA AssignedNotEnded ==
  ASSUME PoolFacts, NEW h \in Handlers, NEW i \in Handlers,
         handler[h].pc \in Closing, handler[i].pc \in Owning
  PROVE  handler[h].r # handler[i].r
  BY EndsOwn, AssignsOwn

(* The runner of one request is left alone by the others. *)
LEMMA RunnerLeftAlone ==
  ASSUME PoolFacts, NEW h \in Handlers, NEW i \in Handlers, i # h, PoolFrame(h),
         handler[i].pc \in Owning \cup Closing
  PROVE  runners'[handler[i].r] = runners[handler[i].r]
<1> DEFINE r == handler[i].r
<1>1. r \in Runners
  BY AssignsOwn, EndsOwn
<1>2. r # NoRunner
  BY <1>1, ConstantsAssumption
<1> SUFFICES ASSUME handler[h].r = r, handler[h].pc \in Owning \/ At(h, "saveRunner")
             PROVE  FALSE
  BY <1>1 DEF PoolFrame
<1>3. handler[h].pc \in Owning \/ handler[h].pc \in Closing
  BY DEF Closing, At
<1>4. CASE handler[h].pc \in Owning /\ handler[i].pc \in Owning
  BY <1>2, <1>4 DEF PoolFacts, PoolInv, Apart, ApartFrom, Using
<1>5. CASE handler[h].pc \in Closing /\ handler[i].pc \in Closing
  BY <1>5, OneEnderOfRunner
<1>6. CASE handler[h].pc \in Closing /\ handler[i].pc \in Owning
  BY <1>6, AssignedNotEnded
<1>7. CASE handler[h].pc \in Owning /\ handler[i].pc \in Closing
  BY <1>7, AssignedNotEnded
<1> QED BY <1>3, <1>4, <1>5, <1>6, <1>7

(* ... and so is the lease that one of them ends. *)
LEMMA LeaseLeftAlone ==
  ASSUME PoolFacts, NEW h \in Handlers, NEW i \in Handlers, i # h, PoolFrame(h),
         handler[i].pc \in Closing
  PROVE  leases'[JobFor(i)] = leases[JobFor(i)]
<1>1. JobFor(i) \in Jobs /\ ~Absent(leases[JobFor(i)])
  BY EndsOwn
<1>2. ~(At(h, "saveLease") /\ JobFor(h) = JobFor(i))
  BY OneEnder DEF Ends, Closing, At
<1> QED BY <1>1, <1>2 DEF PoolFrame

(* What a request knows stays true while another one takes a step. *)
LEMMA KnowsKept ==
  ASSUME PoolFacts, TablesEvolve, NEW h \in Handlers, NEW i \in Handlers, i # h, PoolFrame(h)
  PROVE  Knows(i)'
<1>1. handler'[i] = handler[i] /\ Knows(i)
  BY DEF PoolFrame, OthersKept, PoolFacts, PoolInv
<1>2. KnowsDelivery(i)'
  <2>1. ASSUME Working(i)
        PROVE  markers'[handler[i].dlv] # 0
    <3>1. handler[i].dlv \in Deliveries /\ markers[handler[i].dlv] # 0
      BY <1>1, <2>1 DEF PoolFacts, TypeOK, HandlerTypeOK, Working, Knows, KnowsDelivery
    <3>2. ~(At(h, "undo") /\ handler[h].dlv = handler[i].dlv)
      BY <2>1 DEF PoolFacts, PoolInv, Apart, ApartFrom, Working, At
    <3> QED BY <3>1, <3>2 DEF PoolFrame
  <2> QED BY <1>1, <2>1 DEF Knows, KnowsDelivery, Working, ActionFor, At
<1>3. KnowsRunner(i)'
  <2>1. handler[i].pc \in Owning => runners'[handler[i].r] = runners[handler[i].r]
    BY RunnerLeftAlone
  <2>2. ASSUME NEW r \in Runners, r = handler[i].r, At(i, "releasePool")
        PROVE  GivenBack(r)'
    <3>1. GivenBack(r) /\ r # NoRunner
      BY <1>1, <2>2, ConstantsAssumption DEF Knows, KnowsRunner
    <3>2. instances'[r].st # "none" /\ (~Live(r) => ~Live(r)')
      BY <3>1, InstanceStays DEF GivenBack, TablesEvolve
    <3>3. ASSUME Absent(runners[r])
          PROVE  runners'[r] = runners[r]
      <4>1. ASSUME handler[h].r = r, handler[h].pc \in Owning
            PROVE  FALSE
        BY <2>2, <3>1, <4>1 DEF PoolFacts, PoolInv, Apart, ApartFrom, Using, At
      <4>2. ASSUME handler[h].r = r, At(h, "saveRunner")
            PROVE  ~Absent(runners[r])
        BY <4>2, EndsOwn DEF Closing, At
      <4> QED BY <3>3, <4>1, <4>2 DEF PoolFrame
    <3> QED BY <3>1, <3>2, <3>3 DEF GivenBack
  <2>3. Recorded \subseteq Owning /\ "clMark" \in Owning
    BY DEF Recorded, Owning, Assigning, Cleanup
  <2>4. At(i, "releasePool") /\ handler[i].r # NoRunner => handler[i].r \in Runners
    BY <1>1 DEF Knows, KnowsRunner, GivenBack
  <2> QED BY <1>1, <2>1, <2>2, <2>3, <2>4 DEF Knows, KnowsRunner, At
<1>4. KnowsLease(i)'
  <2>1. handler[i].pc \in Closing =>
          /\ runners'[handler[i].r] = runners[handler[i].r]
          /\ leases'[JobFor(i)] = leases[JobFor(i)]
    BY RunnerLeftAlone, LeaseLeftAlone
  <2>2. Revised \subseteq Closing
    BY DEF Revised, Closing
  <2> QED BY <1>1, <2>1, <2>2 DEF Knows, KnowsLease, JobFor
<1> QED BY <1>2, <1>3, <1>4 DEF Knows

(* Where a call takes the request. *)
PoolMoves(h) ==
  /\ Working(h)' =>
       /\ handler'[h].dlv = handler[h].dlv
       /\ Working(h) \/ (At(h, "insert") /\ markers[handler[h].dlv] = 0)
  /\ handler'[h].pc \in Using /\ handler'[h].r # NoRunner =>
       \/ handler[h].pc \in Using /\ handler'[h].r = handler[h].r
       \/ handler'[h].r \in Runners /\ instances[handler'[h].r].st = "none"
  /\ At(h, "saveRunner") =>
       handler'[h].pc = "saveLease" /\ runners'[handler[h].r].st = "terminated"
  /\ At(h, "saveLease") => handler'[h].pc = "idle"

(* What it does to the places: it takes one, gives one back, passes one on   *)
(* to the lease, ends the lease's, or leaves them as they are.               *)
TakesPlace(h) ==
  /\ At(h, "reserve") /\ used < MaxRunners /\ used' = used + 1
  /\ handler'[h].pc = "provision"

ReturnsPlace(h) == At(h, "releasePool") /\ ReleasePool /\ handler'[h].pc = "failJob"

PassesPlace(h) ==
  /\ At(h, "createLease") /\ UNCHANGED <<used, runners>>
  /\ handler'[h].pc = "toAssigned"
  /\ ~Absent(leases'[JobFor(h)]) /\ leases'[JobFor(h)].runner = handler[h].r

EndsPlace(h) ==
  /\ At(h, "release") /\ ReleasePool /\ UNCHANGED <<runners, leases>>
  /\ handler'[h].pc = "saveRunner" /\ handler'[h].r = handler[h].r

KeepsPlaces(h) ==
  /\ handler[h].pc \notin {"createLease", "release", "releasePool"}
  /\ handler'[h].pc # "saveRunner" /\ UNCHANGED used
  /\ HoldsReservation(h)' <=> HoldsReservation(h)
  /\ HoldsReservation(h) /\ handler[h].r \in Runners => handler'[h].r = handler[h].r

PlacesEvolve(h) ==
  TakesPlace(h) \/ ReturnsPlace(h) \/ PassesPlace(h) \/ EndsPlace(h) \/ KeepsPlaces(h)

PoolStep(h) == PoolFrame(h) /\ PoolMoves(h) /\ PlacesEvolve(h) /\ Knows(h)'

(* Requests stay apart: a delivery is begun only without its marker, and a   *)
(* runner is new when Provision hands it out.                                *)
LEMMA ApartKept ==
  ASSUME PoolFacts, NEW h \in Handlers, PoolStep(h)
  PROVE  Apart'
<1>1. \A i \in Handlers \ {h} : handler'[i] = handler[i]
  BY DEF PoolStep, PoolFrame, OthersKept
<1>2. ASSUME NEW i \in Handlers, i # h
      PROVE  /\ Working(h)' /\ Working(i) => handler'[h].dlv # handler[i].dlv
             /\ handler'[h].pc \in Using /\ handler[i].pc \in Using /\ handler'[h].r # NoRunner =>
                  handler'[h].r # handler[i].r
  <2>1. ApartFrom(h, i) /\ Knows(i)
    BY <1>2 DEF PoolFacts, PoolInv, Apart
  <2>2. ASSUME Working(h)', Working(i)
        PROVE  handler'[h].dlv # handler[i].dlv
    BY <2>1, <2>2 DEF PoolStep, PoolMoves, ApartFrom, Knows, KnowsDelivery
  <2>3. ASSUME handler'[h].pc \in Using, handler[i].pc \in Using, handler'[h].r # NoRunner,
               handler'[h].r = handler[i].r
        PROVE  FALSE
    <3>1. CASE handler[h].pc \in Using /\ handler'[h].r = handler[h].r
      BY <2>1, <2>3, <3>1 DEF ApartFrom
    <3>2. CASE handler'[h].r \in Runners /\ instances[handler'[h].r].st = "none"
      <4>1. instances[handler[i].r].st # "none"
        BY <2>1, <2>3, AssignsOwn DEF Using, Knows, KnowsRunner, GivenBack, At
      <4> QED BY <2>3, <3>2, <4>1
    <3> QED BY <2>3, <3>1, <3>2 DEF PoolStep, PoolMoves
  <2> QED BY <2>2, <2>3
<1>3. ASSUME NEW i \in Handlers, NEW k \in Handlers, i # k
      PROVE  ApartFrom(i, k)'
  <2>1. CASE i # h /\ k # h
    <3>1. ApartFrom(i, k)
      BY <1>3 DEF PoolFacts, PoolInv, Apart
    <3> QED BY <1>1, <2>1, <3>1 DEF ApartFrom, Working
  <2>2. CASE i = h
    <3>1. handler'[k] = handler[k]
      BY <1>1, <1>3, <2>2
    <3> QED BY <1>2, <1>3, <2>2, <3>1 DEF ApartFrom, Working
  <2>3. CASE k = h
    <3>1. handler'[i] = handler[i]
      BY <1>1, <1>3, <2>3
    <3> QED BY <1>2, <1>3, <2>3, <3>1 DEF ApartFrom, Working
  <2> QED BY <2>1, <2>2, <2>3
<1> QED BY <1>3 DEF Apart

(* What has ended stays ended by its delivery, and a runner is recorded as   *)
(* terminated while it is leased only by the delivery that ends the job.     *)
LEMMA EndedOnceKept ==
  ASSUME PoolFacts, TablesEvolve, NEW h \in Handlers, PoolStep(h)
  PROVE  EndedOnce'
<1>1. \A i \in Handlers \ {h} : handler'[i] = handler[i]
  BY DEF PoolStep, PoolFrame, OthersKept
<1> SUFFICES ASSUME NEW j \in Jobs, ~Absent(leases'[j]), runners'[leases'[j].runner].st = "terminated"
             PROVE  \E d \in Deliveries : EndedBy(d, j)'
  BY DEF EndedOnce
<1>2. CASE ~Absent(leases[j]) /\ runners[leases[j].runner].st = "terminated"
  <2> PICK d \in Deliveries : EndedBy(d, j)
    BY <1>2 DEF PoolFacts, PoolInv, EndedOnce
  <2>1. markers'[d] # 0
    BY DEF EndedBy, PoolStep, PoolFrame, At, Working
  <2>2. ASSUME NEW i \in Handlers, Working(i)', handler'[i].dlv = d
        PROVE  handler'[i].pc = "saveLease"
    <3>1. CASE i = h
      BY <2>2, <3>1 DEF EndedBy, PoolStep, PoolMoves, Working
    <3>2. CASE i # h
      BY <1>1, <2>2, <3>2 DEF EndedBy, Working, At
    <3> QED BY <3>1, <3>2
  <2> QED BY <2>1, <2>2 DEF EndedBy, At
<1>3. CASE ~Absent(leases[j]) /\ runners[leases[j].runner].st # "terminated"
  <2> DEFINE r == leases[j].runner
  <2>1. r \in Runners /\ instances[r].job = j /\ leases'[j].runner = r
    BY <1>3, LeaseHasInstance, LeaseStays DEF PoolFacts, TablesEvolve
  <2>2. handler[h].r = r /\ (handler[h].pc \in Owning \/ At(h, "saveRunner"))
    BY <1>3, <2>1 DEF PoolStep, PoolFrame
  <2>3. At(h, "saveRunner") /\ JobFor(h) = j
    BY <1>3, <2>1, <2>2, AssignsOwn, EndsOwn DEF Closing, At
  <2> PICK d : d = handler[h].dlv
    OBVIOUS
  <2>4. Working(h) /\ d \in Deliveries /\ markers[d] # 0 /\ ActionOf[d] \in FinalActions
    BY <2>3 DEF PoolFacts, PoolInv, Knows, KnowsDelivery, Working, Ends, Closing, At, ActionFor, TypeOK,
       HandlerTypeOK
  <2>5. markers'[d] # 0
    BY <2>3, <2>4 DEF PoolStep, PoolFrame, At
  <2>6. ASSUME NEW i \in Handlers, Working(i)', handler'[i].dlv = d
        PROVE  handler'[i].pc = "saveLease"
    <3>1. CASE i = h
      BY <2>3, <3>1 DEF PoolStep, PoolMoves
    <3>2. CASE i # h
      <4>1. ApartFrom(h, i)
        BY <3>2 DEF PoolFacts, PoolInv, Apart
      <4> QED BY <1>1, <2>4, <2>6, <3>2, <4>1 DEF ApartFrom, Working
    <3> QED BY <3>1, <3>2
  <2>7. JobOf[d] = j
    BY <2>3 DEF JobFor
  <2>8. EndedBy(d, j)'
    BY <2>4, <2>5, <2>6, <2>7 DEF EndedBy, At
  <2> QED BY <2>4, <2>8
<1>4. CASE Absent(leases[j])
  <2>1. At(h, "createLease") /\ JobFor(h) = j
    BY <1>4, EndsOwn DEF PoolStep, PoolFrame, At, Closing
  <2>2. PassesPlace(h)
    BY <2>1 DEF PoolStep, PlacesEvolve, TakesPlace, ReturnsPlace, EndsPlace, KeepsPlaces, At
  <2>3. runners[handler[h].r].st # "terminated"
    BY <2>1 DEF PoolFacts, PoolInv, Knows, KnowsRunner, Recorded, At
  <2> QED BY <2>1, <2>2, <2>3 DEF PassesPlace
<1> QED BY <1>2, <1>3, <1>4

(* finish is between Scheduler.Release and SaveRunner. *)
BeingEnded(r) == \E h \in Handlers : At(h, "saveRunner") /\ handler[h].r = r

(* A runner that holds its lease's place. *)
LEMMA LeasedRunner ==
  ASSUME NEW r \in Runners
  PROVE  r \in LeasedRunners <=> Leased(r) /\ runners[r].st # "terminated" /\ ~BeingEnded(r)
  BY DEF LeasedRunners, Leased, BeingEnded

(* Which runners have a lease after a call. *)
LEMMA LeasedAfter ==
  ASSUME PoolFacts, TablesEvolve, NEW h \in Handlers, PoolStep(h), NEW r \in Runners
  PROVE  Leased(r)' <=> Leased(r) \/ (PassesPlace(h) /\ r = handler[h].r)
<1>1. ASSUME Leased(r)
      PROVE  Leased(r)'
  <2> PICK j \in Jobs : ~Absent(leases[j]) /\ leases[j].runner = r
    BY <1>1 DEF Leased
  <2>1. ~Absent(leases'[j]) /\ leases'[j].runner = r
    BY LeaseStays DEF PoolFacts, TablesEvolve
  <2> QED BY <2>1 DEF Leased
<1>2. ASSUME Leased(r)', ~Leased(r)
      PROVE  PassesPlace(h) /\ r = handler[h].r
  <2> PICK j \in Jobs : ~Absent(leases'[j]) /\ leases'[j].runner = r
    BY <1>2 DEF Leased
  <2>1. Absent(leases[j])
    BY <1>2, LeaseStays DEF Leased, PoolFacts, TablesEvolve
  <2>2. At(h, "createLease") /\ JobFor(h) = j
    BY <2>1, EndsOwn DEF PoolStep, PoolFrame, At, Closing
  <2>3. PassesPlace(h)
    BY <2>2 DEF PoolStep, PlacesEvolve, TakesPlace, ReturnsPlace, EndsPlace, KeepsPlaces, At
  <2> QED BY <2>2, <2>3 DEF PassesPlace
<1>3. ASSUME PassesPlace(h), r = handler[h].r
      PROVE  Leased(r)'
  <2>1. JobFor(h) \in Jobs
    BY <1>3, AssignsOwn DEF PassesPlace, At, Owning
  <2> QED BY <1>3, <2>1 DEF PassesPlace, Leased
<1> QED BY <1>1, <1>2, <1>3

(* A runner that has its lease is not written by the request that assigns. *)
LEMMA LeasedNotAssigned ==
  ASSUME PoolFacts, NEW h \in Handlers, handler[h].pc \in Owning, Leased(handler[h].r)
  PROVE  FALSE
<1> PICK j \in Jobs : ~Absent(leases[j]) /\ leases[j].runner = handler[h].r
  BY DEF Leased
<1>1. instances[handler[h].r].job = j
  BY LeaseHasInstance DEF PoolFacts
<1> QED BY <1>1, AssignsOwn

(* The runners that hold a place after a call: CreateLease adds the request's *)
(* runner, Release takes it out, and no other call changes them.             *)
LEMMA LeasedRunnersAfter ==
  ASSUME PoolFacts, TablesEvolve, NEW h \in Handlers, PoolStep(h)
  PROVE  /\ PassesPlace(h) => /\ handler[h].r \notin LeasedRunners
                              /\ LeasedRunners' = LeasedRunners \cup {handler[h].r}
         /\ EndsPlace(h) => /\ handler[h].r \in LeasedRunners
                            /\ LeasedRunners' = LeasedRunners \ {handler[h].r}
         /\ ~PassesPlace(h) /\ ~EndsPlace(h) => LeasedRunners' = LeasedRunners
<1>1. /\ \A i \in Handlers \ {h} : handler'[i] = handler[i]
      /\ At(h, "saveRunner") =>
           handler'[h].pc = "saveLease" /\ runners'[handler[h].r].st = "terminated"
      /\ handler'[h].pc = "saveRunner" => EndsPlace(h)
  BY DEF PoolStep, PoolFrame, OthersKept, PoolMoves, PlacesEvolve, TakesPlace, ReturnsPlace,
     PassesPlace, KeepsPlaces
<1>2. ASSUME PassesPlace(h)
      PROVE  /\ handler[h].r \in Runners /\ handler[h].r \notin LeasedRunners
             /\ handler[h].r \in LeasedRunners'
  <2>1. handler[h].pc \in Owning /\ handler[h].pc \in Recorded
    BY <1>2 DEF PassesPlace, At, Owning, Recorded
  <2>2. PICK r \in Runners : r = handler[h].r
    BY <2>1, AssignsOwn
  <2>3. ~Leased(r) /\ Leased(r)'
    BY <1>2, <2>1, <2>2, LeasedNotAssigned, LeasedAfter
  <2>4. runners'[r].st # "terminated"
    BY <1>2, <2>1, <2>2 DEF PassesPlace, PoolFacts, PoolInv, Knows, KnowsRunner
  <2>5. ASSUME NEW i \in Handlers, handler'[i].pc = "saveRunner", handler'[i].r = r
        PROVE  FALSE
    <3>1. i # h
      BY <1>2, <2>5 DEF PassesPlace
    <3>2. At(i, "saveRunner") /\ handler[i].r = r
      BY <1>1, <2>5, <3>1 DEF At
    <3> QED BY <2>1, <2>2, <3>2, AssignedNotEnded DEF At, Closing
  <2>6. ~BeingEnded(r)'
    BY <2>5 DEF BeingEnded, At
  <2>7. r \notin LeasedRunners
    BY <2>3, LeasedRunner
  <2>8. r \in LeasedRunners'
    BY <2>3, <2>4, <2>6, LeasedRunner DEF Leased, BeingEnded, LeasedRunners
  <2> QED BY <2>2, <2>7, <2>8
<1>3. ASSUME EndsPlace(h)
      PROVE  /\ handler[h].r \in Runners /\ handler[h].r \in LeasedRunners
             /\ handler[h].r \notin LeasedRunners'
  <2>1. handler[h].pc \in Closing /\ handler[h].pc # "saveLease" /\ ~At(h, "saveRunner")
    BY <1>3 DEF EndsPlace, At, Closing
  <2>2. PICK r \in Runners : r = handler[h].r
    BY <2>1, EndsOwn
  <2>3. Leased(r)
    BY <2>1, <2>2, EndsOwn DEF Leased
  <2>4. runners[r].st # "terminated"
    BY <2>1, <2>2 DEF PoolFacts, PoolInv, Knows, KnowsLease
  <2>5. ~BeingEnded(r)
    BY <2>1, <2>2, OneEnderOfRunner DEF BeingEnded, At, Closing
  <2>6. BeingEnded(r)'
    BY <1>3, <2>2 DEF BeingEnded, EndsPlace, At
  <2>7. r \in LeasedRunners
    BY <2>3, <2>4, <2>5, LeasedRunner
  <2>8. r \notin LeasedRunners'
    BY <2>6 DEF LeasedRunners, BeingEnded
  <2> QED BY <2>2, <2>7, <2>8
<1>4. ASSUME NEW r \in Runners, ~(PassesPlace(h) /\ r = handler[h].r),
             ~(EndsPlace(h) /\ r = handler[h].r)
      PROVE  r \in LeasedRunners' <=> r \in LeasedRunners
  <2>1. Leased(r)' <=> Leased(r)
    BY <1>4, LeasedAfter
  <2>2. CASE At(h, "saveRunner") /\ handler[h].r = r
    <3>1. BeingEnded(r) /\ runners'[r].st = "terminated"
      BY <1>1, <2>2 DEF BeingEnded
    <3>2. r \notin LeasedRunners
      BY <3>1, LeasedRunner
    <3>3. r \notin LeasedRunners'
      BY <3>1 DEF LeasedRunners
    <3> QED BY <3>2, <3>3
  <2>3. CASE ~(At(h, "saveRunner") /\ handler[h].r = r) /\ Leased(r)
    <3>1. runners'[r] = runners[r]
      BY <2>3, LeasedNotAssigned DEF PoolStep, PoolFrame
    <3>2. BeingEnded(r)' <=> BeingEnded(r)
      <4>1. ASSUME NEW i \in Handlers, i # h
            PROVE  (At(i, "saveRunner") /\ handler[i].r = r)' <=> At(i, "saveRunner") /\ handler[i].r = r
        BY <1>1, <4>1 DEF At
      <4>2. ~(handler'[h].pc = "saveRunner" /\ handler'[h].r = r)
        BY <1>1, <1>4 DEF EndsPlace
      <4> QED BY <2>3, <4>1, <4>2 DEF BeingEnded, At
    <3>3. r \in LeasedRunners <=> Leased(r) /\ runners[r].st # "terminated" /\ ~BeingEnded(r)
      BY LeasedRunner
    <3>4. r \in LeasedRunners' <=> Leased(r)' /\ runners'[r].st # "terminated" /\ ~BeingEnded(r)'
      BY DEF LeasedRunners, Leased, BeingEnded
    <3> QED BY <2>1, <3>1, <3>2, <3>3, <3>4
  <2>4. CASE ~Leased(r)
    <3>1. r \notin LeasedRunners
      BY <2>4, LeasedRunner
    <3>2. r \notin LeasedRunners'
      BY <2>1, <2>4 DEF LeasedRunners, Leased
    <3> QED BY <3>1, <3>2
  <2> QED BY <2>2, <2>3, <2>4
<1>5. LeasedRunners \subseteq Runners /\ LeasedRunners' \subseteq Runners
  BY DEF LeasedRunners
<1>6. ~(PassesPlace(h) /\ EndsPlace(h))
  BY DEF PassesPlace, EndsPlace, At
<1> QED BY <1>2, <1>3, <1>4, <1>5, <1>6

(* The requests that hold a place after a call. *)
LEMMA HoldersAfter ==
  ASSUME NEW h \in Handlers, PoolStep(h)
  PROVE  /\ TakesPlace(h) => h \notin Holders /\ Holders' = Holders \cup {h}
         /\ ReturnsPlace(h) \/ PassesPlace(h) => h \in Holders /\ Holders' = Holders \ {h}
         /\ EndsPlace(h) \/ KeepsPlaces(h) => Holders' = Holders
<1>1. ASSUME NEW i \in Handlers, i # h
      PROVE  HoldsReservation(i)' <=> HoldsReservation(i)
  BY <1>1 DEF PoolStep, PoolFrame, OthersKept, HoldsReservation
<1>2. TakesPlace(h) => ~HoldsReservation(h) /\ HoldsReservation(h)'
  BY DEF TakesPlace, At, HoldsReservation, Assigning, Cleanup
<1>3. ReturnsPlace(h) \/ PassesPlace(h) => HoldsReservation(h) /\ ~HoldsReservation(h)'
  BY DEF ReturnsPlace, PassesPlace, At, HoldsReservation, Assigning, Cleanup
<1>4. EndsPlace(h) \/ KeepsPlaces(h) => (HoldsReservation(h)' <=> HoldsReservation(h))
  BY DEF EndsPlace, KeepsPlaces, At, HoldsReservation, Assigning, Cleanup
<1> QED BY <1>1, <1>2, <1>3, <1>4 DEF Holders

(* There are finitely many requests and runners to hold places. *)
LEMMA HoldersFinite ==
  ASSUME PoolUndisturbed
  PROVE  IsFiniteSet(Holders) /\ IsFiniteSet(LeasedRunners)
<1>1. Holders \subseteq Handlers /\ LeasedRunners \subseteq Runners
  BY DEF Holders, LeasedRunners
<1> QED BY <1>1, FS_Subset DEF PoolUndisturbed

(* The counter follows the places. *)
LEMMA CountedKept ==
  ASSUME PoolFacts, TablesEvolve, NEW h \in Handlers, PoolStep(h)
  PROVE  Counted'
<1> DEFINE H == Cardinality(Holders)
           L == Cardinality(LeasedRunners)
<1>1. PoolUndisturbed /\ used = H + L /\ used <= MaxRunners /\ used \in Nat /\ MaxRunners \in Nat
  BY ConstantsAssumption DEF PoolFacts, PoolInv, Counted, TypeOK, StateTypeOK
<1>2. /\ IsFiniteSet(Holders) /\ IsFiniteSet(LeasedRunners) /\ H \in Nat /\ L \in Nat
  BY <1>1, HoldersFinite, FS_CardinalityType
<1>3. CASE TakesPlace(h)
  <2>1. LeasedRunners' = LeasedRunners /\ h \notin Holders /\ Holders' = Holders \cup {h}
    BY <1>3, LeasedRunnersAfter, HoldersAfter DEF TakesPlace, PassesPlace, EndsPlace, At
  <2>2. Cardinality(Holders') = H + 1 /\ Cardinality(LeasedRunners') = L
    BY <1>2, <2>1, FS_AddElement
  <2>3. used' = used + 1 /\ used < MaxRunners
    BY <1>3 DEF TakesPlace
  <2> HIDE DEF H, L
  <2>4. used' = (H + 1) + L /\ used' <= MaxRunners
    BY <1>1, <1>2, <2>3
  <2> QED BY <2>2, <2>4 DEF Counted
<1>4. CASE ReturnsPlace(h)
  <2>1. LeasedRunners' = LeasedRunners /\ h \in Holders /\ Holders' = Holders \ {h}
    BY <1>4, LeasedRunnersAfter, HoldersAfter DEF ReturnsPlace, PassesPlace, EndsPlace, At
  <2>2. Cardinality(Holders') = H - 1 /\ Cardinality(LeasedRunners') = L /\ H - 1 \in Nat
    <3>1. IsFiniteSet(Holders') /\ Cardinality(Holders') = H - 1
      BY <1>2, <2>1, FS_RemoveElement
    <3> QED BY <2>1, <3>1, FS_CardinalityType
  <2>3. used' = IF used >= 1 THEN used - 1 ELSE used
    BY <1>4 DEF ReturnsPlace, ReleasePool
  <2> HIDE DEF H, L
  <2>4. used' = (H - 1) + L /\ used' <= MaxRunners
    BY <1>1, <1>2, <2>2, <2>3
  <2> QED BY <2>2, <2>4 DEF Counted
<1>5. CASE PassesPlace(h)
  <2>1. /\ h \in Holders /\ Holders' = Holders \ {h}
        /\ handler[h].r \notin LeasedRunners
        /\ LeasedRunners' = LeasedRunners \cup {handler[h].r}
    BY <1>5, LeasedRunnersAfter, HoldersAfter
  <2>2. Cardinality(Holders') = H - 1 /\ Cardinality(LeasedRunners') = L + 1
    BY <1>2, <2>1, FS_AddElement, FS_RemoveElement
  <2>3. used' = used
    BY <1>5 DEF PassesPlace
  <2> HIDE DEF H, L
  <2>4. used' = (H - 1) + (L + 1) /\ used' <= MaxRunners
    BY <1>1, <1>2, <2>3
  <2> QED BY <2>2, <2>4 DEF Counted
<1>6. CASE EndsPlace(h)
  <2>1. /\ Holders' = Holders /\ handler[h].r \in LeasedRunners
        /\ LeasedRunners' = LeasedRunners \ {handler[h].r}
    BY <1>6, LeasedRunnersAfter, HoldersAfter
  <2>2. Cardinality(Holders') = H /\ Cardinality(LeasedRunners') = L - 1 /\ L - 1 \in Nat
    <3>1. IsFiniteSet(LeasedRunners') /\ Cardinality(LeasedRunners') = L - 1
      BY <1>2, <2>1, FS_RemoveElement
    <3> QED BY <2>1, <3>1, FS_CardinalityType
  <2>3. used' = IF used >= 1 THEN used - 1 ELSE used
    BY <1>6 DEF EndsPlace, ReleasePool
  <2> HIDE DEF H, L
  <2>4. used' = H + (L - 1) /\ used' <= MaxRunners
    BY <1>1, <1>2, <2>2, <2>3
  <2> QED BY <2>2, <2>4 DEF Counted
<1>7. CASE KeepsPlaces(h)
  <2>1. Holders' = Holders /\ LeasedRunners' = LeasedRunners /\ used' = used
    BY <1>7, LeasedRunnersAfter, HoldersAfter DEF KeepsPlaces, PassesPlace, EndsPlace, At
  <2> QED BY <1>1, <2>1 DEF Counted
<1> QED BY <1>3, <1>4, <1>5, <1>6, <1>7 DEF PoolStep, PlacesEvolve

(* A recorded runner that costs something was recorded before, unless it is  *)
(* the one CreateRunner has just recorded.                                   *)
LEMMA CostsBefore ==
  ASSUME PoolFacts, TablesEvolve, NEW r \in Runners, ~Absent(runners[r]), Live(r)'
  PROVE  Live(r)
<1>1. instances[r].st # "none"
  BY DEF PoolFacts, SafetyInv, TablesOK, RecordsOfInstances
<1> QED BY <1>1, InstanceStays DEF TablesEvolve

(* No place is given up for a runner that still costs something. *)
LEMMA PlacesKept ==
  ASSUME PoolFacts, TablesEvolve, NEW h \in Handlers, PoolStep(h)
  PROVE  Places'
<1> SUFFICES ASSUME NEW r \in Runners, ~Absent(runners'[r]), Live(r)'
             PROVE  r \in LeasedRunners' \/ Reserved(r)'
  BY DEF Places
<1>1. \A i \in Handlers \ {h} : handler'[i] = handler[i]
  BY DEF PoolStep, PoolFrame, OthersKept
<1>2. ASSUME NEW i \in Handlers, i # h, HoldsReservation(i), handler[i].r = r
      PROVE  Reserved(r)'
  BY <1>1, <1>2 DEF Reserved, HoldsReservation
<1>3. ASSUME HoldsReservation(h), handler[h].r = r, KeepsPlaces(h)
      PROVE  Reserved(r)'
  BY <1>3 DEF Reserved, KeepsPlaces
<1>4. CASE Absent(runners[r])
  <2>1. PICK i \in Handlers :
          At(i, "createRunner") /\ handler[i].r = r /\ handler'[i].pc \notin Unrecorded
    BY <1>4 DEF TablesEvolve, RunnersEvolve
  <2>2. i = h /\ HoldsReservation(h)
    BY <1>1, <2>1 DEF At, Unrecorded, HoldsReservation, Assigning
  <2>3. KeepsPlaces(h)
    BY <2>1, <2>2 DEF At, PoolStep, PlacesEvolve, TakesPlace, ReturnsPlace, PassesPlace, EndsPlace
  <2> QED BY <1>3, <2>1, <2>2, <2>3
<1>5. CASE ~Absent(runners[r])
  <2>1. Live(r) /\ (r \in LeasedRunners \/ Reserved(r))
    BY <1>5, CostsBefore DEF PoolFacts, PoolInv, Places
  <2>2. CASE r \in LeasedRunners
    <3>1. EndsPlace(h) => handler[h].r # r
      BY <2>1 DEF EndsPlace, At, Releasing, PoolFacts, SafetyInv, RequestsOK, RequestOK, HasReleased
    <3> QED BY <2>2, <3>1, LeasedRunnersAfter
  <2>3. CASE Reserved(r)
    <3> PICK i \in Handlers : HoldsReservation(i) /\ handler[i].r = r
      BY <2>3 DEF Reserved
    <3>1. CASE i # h
      BY <1>2, <3>1
    <3>2. CASE i = h
      <4>1. ~TakesPlace(h) /\ ~EndsPlace(h)
        BY <3>2 DEF TakesPlace, EndsPlace, At, HoldsReservation, Assigning, Cleanup
      <4>2. ~ReturnsPlace(h)
        <5>1. r # NoRunner
          BY ConstantsAssumption
        <5> QED BY <1>5, <2>1, <3>2, <5>1
                DEF ReturnsPlace, PoolFacts, PoolInv, Knows, KnowsRunner, GivenBack
      <4>3. CASE PassesPlace(h)
        BY <3>2, <4>3, LeasedRunnersAfter
      <4>4. CASE KeepsPlaces(h)
        BY <1>3, <3>2, <4>4
      <4> QED BY <4>1, <4>2, <4>3, <4>4 DEF PoolStep, PlacesEvolve
    <3> QED BY <3>1, <3>2
  <2> QED BY <2>1, <2>2, <2>3
<1> QED BY <1>4, <1>5

(* A call of a request keeps everything. *)
LEMMA PoolStepKept ==
  ASSUME PoolFacts, TablesEvolve, NEW h \in Handlers, PoolStep(h)
  PROVE  PoolInv'
<1>1. \A i \in Handlers : Knows(i)'
  BY KnowsKept DEF PoolStep
<1> QED BY <1>1, ApartKept, EndedOnceKept, PlacesKept, CountedKept DEF PoolInv

(* So does anything that leaves the requests and the tables alone. *)
LEMMA PoolBystanderKept ==
  ASSUME PoolFacts, TablesEvolve, UNCHANGED <<handler, markers, runners, leases, used>>
  PROVE  PoolInv'
<1>1. ASSUME NEW i \in Handlers
      PROVE  Knows(i)'
  <2>1. Knows(i)
    BY DEF PoolFacts, PoolInv
  <2>2. ASSUME NEW r, GivenBack(r)
        PROVE  GivenBack(r)'
    BY <2>2, InstanceStays DEF GivenBack, TablesEvolve
  <2>3. KnowsDelivery(i)' /\ KnowsLease(i)'
    BY <2>1 DEF Knows, KnowsDelivery, KnowsLease, Working, ActionFor, JobFor, At
  <2>4. KnowsRunner(i)'
    <3>1. ASSUME NEW r, r = handler[i].r, At(i, "releasePool"), r # NoRunner
          PROVE  GivenBack(r)'
      BY <2>1, <2>2, <3>1 DEF Knows, KnowsRunner
    <3> QED BY <2>1, <3>1 DEF Knows, KnowsRunner, At
  <2> QED BY <2>3, <2>4 DEF Knows
<1>2. Apart'
  BY DEF PoolFacts, PoolInv, Apart, ApartFrom, Working
<1>3. EndedOnce'
  BY DEF PoolFacts, PoolInv, EndedOnce, EndedBy, Working, At
<1>4. /\ LeasedRunners' = LeasedRunners /\ Holders' = Holders
      /\ \A r \in Runners : Reserved(r)' <=> Reserved(r)
  BY DEF LeasedRunners, Holders, Reserved, HoldsReservation, At
<1>5. Counted'
  BY <1>4 DEF PoolFacts, PoolInv, Counted
<1>6. Places'
  BY <1>4, CostsBefore DEF PoolFacts, PoolInv, Places
<1> QED BY <1>1, <1>2, <1>3, <1>5, <1>6 DEF PoolInv

-----------------------------------------------------------------------------
(* Every call is one of these. *)

SameRequest(h) ==
  /\ handler'[h].dlv = handler[h].dlv /\ handler'[h].r = handler[h].r
  /\ handler'[h].at = handler[h].at /\ handler'[h].alive = handler[h].alive
  /\ handler'[h].saved = handler[h].saved /\ handler'[h].lrev = handler[h].lrev

(* A program point that asks for nothing the one before it has not settled. *)
PoolFollows(from, to) ==
  /\ to \notin {"idle", "insert", "dropRunner", "saveLease"}
  /\ from \notin {"idle", "insert", "dropRunner", "saveLease", "saveRunner", "createLease"}
  /\ to \in Ends => from \in Ends
  /\ to \in Unprovisioned => from \in Unprovisioned
  /\ to \in Owning => from \in Owning
  /\ to \in Registered \ {"clTerminated"} => from \in Registered
  /\ to \in Recorded => from \in Recorded
  /\ to \in Closing => from \in Closing
  /\ to = "clMark" => from = "clGet"
  /\ to = "clTerminate" => from = "waitReady"
  /\ to = "clTerminated" => from = "clTerminate"
  /\ to \in Revised => from \in {"finalRunner", "terminate", "release"}
  /\ to = "saveRunner" => from = "release"
  /\ to = "releasePool" => from \in {"provision", "clTerminate", "clTerminated"}
  /\ to \in Assigning \cup Cleanup \cup {"releasePool", "createLease", "dropRunner"} =>
       from \in {"reserve", "releasePool"} \cup Assigning \cup Cleanup
  /\ from \in Assigning \cup Cleanup =>
       to \in Assigning \cup Cleanup \cup {"releasePool", "createLease", "dropRunner"}

PlainMoves ==
  {<<"createJob", "getJob">>, <<"getJob", "toProvisioning">>, <<"toProvisioning", "reserve">>,
   <<"reserve", "provision">>, <<"reserve", "failJob">>, <<"provision", "releasePool">>,
   <<"waitReady", "createRunner">>, <<"waitReady", "clTerminate">>,
   <<"getRunner", "regPending">>, <<"regPending", "waitReg">>, <<"waitReg", "saveReady">>,
   <<"waitReg", "regFailed">>, <<"regFailed", "clGet">>, <<"regReady", "createLease">>,
   <<"saveReady", "clGet">>, <<"clGet", "clMark">>, <<"clTerminate", "clTerminated">>,
   <<"clTerminate", "releasePool">>, <<"clTerminated", "releasePool">>,
   <<"releasePool", "failJob">>, <<"failJob", "undo">>,
   <<"getRunning", "toRunning">>, <<"getFinal", "toFinal">>, <<"toFinal", "getLease">>,
   <<"finalRunner", "terminate">>, <<"terminate", "release">>, <<"release", "saveRunner">>}
  \cup {"getJob", "toProvisioning", "getRunning", "toRunning", "toAssigned", "getFinal",
        "toFinal", "getLease", "terminate"} \X {"undo"}

(* Those moves ask for nothing new. *)
LEMMA PlainMovesFollow ==
  ASSUME NEW from, NEW to, <<from, to>> \in PlainMoves
  PROVE  PoolFollows(from, to)
<1>1. from \in {"createJob", "getJob", "toProvisioning", "reserve", "provision"} => PoolFollows(from, to)
  BY DEF PlainMoves, PoolFollows, Ends, Unprovisioned, Owning, Registered, Recorded, Closing, Revised,
     Preparing, Assigning, Cleanup
<1>2. from \in {"waitReady", "getRunner", "regPending", "waitReg", "regFailed", "regReady", "saveReady"}
        => PoolFollows(from, to)
  BY DEF PlainMoves, PoolFollows, Ends, Unprovisioned, Owning, Registered, Recorded, Closing, Revised,
     Preparing, Assigning, Cleanup
<1>3. from \in {"clGet", "clTerminate", "clTerminated", "releasePool", "failJob", "getRunning",
                "toRunning", "toAssigned"} => PoolFollows(from, to)
  BY DEF PlainMoves, PoolFollows, Ends, Unprovisioned, Owning, Registered, Recorded, Closing, Revised,
     Preparing, Assigning, Cleanup
<1>4. from \in {"getFinal", "toFinal", "getLease", "terminate", "finalRunner", "release"}
        => PoolFollows(from, to)
  BY DEF PlainMoves, PoolFollows, Ends, Unprovisioned, Owning, Registered, Recorded, Closing, Revised,
     Preparing, Assigning, Cleanup
<1> QED BY <1>1, <1>2, <1>3, <1>4 DEF PlainMoves

(* A call that writes neither marker nor runner nor lease, and moves on. *)
PlainStep(h) ==
  /\ OthersKept(h) /\ SameRequest(h)
  /\ UNCHANGED <<markers, runners, leases>>
  /\ <<handler[h].pc, handler'[h].pc>> \in PlainMoves
  /\ \/ handler'[h].rrev = handler[h].rrev /\ handler[h].pc \notin {"clGet", "finalRunner"}
     \/ handler'[h].rrev = runners[handler[h].r].rev
  /\ At(h, "clTerminate") => (handler[h].saved <=> handler'[h].pc = "clTerminated")
  /\ \/ UNCHANGED used /\ handler[h].pc \notin {"release", "releasePool"}
                       /\ <<handler[h].pc, handler'[h].pc>> # <<"reserve", "provision">>
     \/ handler[h].pc \in {"release", "releasePool"} /\ ReleasePool
     \/ TakesPlace(h)

(* What the request knows carries over. *)
LEMMA PlainKnows ==
  ASSUME PoolFacts, TablesEvolve, NEW h \in Handlers, PlainStep(h)
  PROVE  Knows(h)'
<1> DEFINE from == handler[h].pc
           to == handler'[h].pc
<1>1. PoolFollows(from, to) /\ Knows(h)
  BY PlainMovesFollow DEF PlainStep, PoolFacts, PoolInv
<1>2. KnowsDelivery(h)'
  BY <1>1 DEF PlainStep, SameRequest, PoolFollows, Knows, KnowsDelivery, Working, ActionFor
<1>3. KnowsLease(h)'
  <2>1. to \in Closing => handler'[h].lrev = leases[JobFor(h)].rev /\ from # "saveLease"
    BY <1>1 DEF PlainStep, SameRequest, PoolFollows, Knows, KnowsLease
  <2>2. to \in Revised => handler'[h].rrev = runners[handler[h].r].rev
    BY <1>1 DEF PlainStep, PoolFollows, Knows, KnowsLease, Revised
  <2>3. to \in Closing => runners[handler[h].r].st # "terminated"
    BY <1>1, <2>1 DEF PoolFollows, Knows, KnowsLease
  <2> QED BY <2>1, <2>2, <2>3 DEF PlainStep, SameRequest, KnowsLease, JobFor
<1>4. KnowsRunner(h)'
  <2>1. ASSUME to \in Unprovisioned
        PROVE  handler[h].r = NoRunner /\ ~handler[h].saved
    BY <1>1, <2>1 DEF PoolFollows, Knows, KnowsRunner
  <2>2. ASSUME to \in Owning
        PROVE  handler[h].saved <=> ~Absent(runners[handler[h].r])
    BY <1>1, <2>2 DEF PoolFollows, Knows, KnowsRunner
  <2>3. ASSUME to \in Registered
        PROVE  handler[h].saved /\ JIT
    BY <1>1, <2>3 DEF PoolFollows, Knows, KnowsRunner, PlainStep, At
  <2>4. ASSUME to = "clTerminate"
        PROVE  ~handler[h].saved
    <3>1. from = "waitReady"
      BY <1>1, <2>4 DEF PoolFollows
    <3>2. Absent(runners[handler[h].r]) /\ from \in Owning
      BY <3>1 DEF PoolFacts, SafetyInv, RequestsOK, RequestOK, HoldsRecord, Unrecorded, Owning, Assigning
    <3> QED BY <1>1, <3>2 DEF Knows, KnowsRunner
  <2>5. ASSUME to = "clMark"
        PROVE  handler'[h].rrev = runners[handler[h].r].rev
    BY <1>1, <2>5 DEF PoolFollows, PlainStep
  <2>6. ASSUME to \in Recorded
        PROVE  runners[handler[h].r].st # "terminated"
    BY <1>1, <2>6 DEF PoolFollows, Knows, KnowsRunner
  <2>7. ASSUME to = "releasePool", NEW r, r = handler[h].r, r # NoRunner
        PROVE  GivenBack(r)'
    <3>1. from \in {"clTerminate", "clTerminated"}
      BY <1>1, <2>7 DEF PoolFollows, Knows, KnowsRunner, Unprovisioned, Preparing
    <3>2. from \in Owning
      BY <3>1 DEF Owning, Cleanup
    <3>3. r \in Runners /\ instances[r].st # "none"
      BY <2>7, <3>2, AssignsOwn
    <3>4. CASE from = "clTerminate"
      <4>1. Absent(runners[r])
        BY <1>1, <2>7, <3>2, <3>4 DEF PlainStep, At, Knows, KnowsRunner
      <4> QED BY <3>3, <4>1, InstanceStays DEF GivenBack, PlainStep, TablesEvolve
    <3>5. CASE from = "clTerminated"
      <4>1. ~Live(r)
        BY <2>7, <3>5 DEF PoolFacts, SafetyInv, RequestsOK, RequestOK, HasReleased, Releasing
      <4> QED BY <3>3, <4>1, InstanceStays DEF GivenBack, TablesEvolve
    <3> QED BY <3>1, <3>4, <3>5
  <2> QED BY <2>1, <2>2, <2>3, <2>4, <2>5, <2>6, <2>7 DEF PlainStep, SameRequest, KnowsRunner, At
<1> QED BY <1>2, <1>3, <1>4 DEF Knows

(* Such a call moves a place at most from one program point to the next. *)
LEMMA PlainPoolStep ==
  ASSUME PoolFacts, TablesEvolve, NEW h \in Handlers, PlainStep(h)
  PROVE  PoolStep(h)
<1> DEFINE from == handler[h].pc
           to == handler'[h].pc
<1>1. PoolFollows(from, to) /\ Knows(h)
  BY PlainMovesFollow DEF PlainStep, PoolFacts, PoolInv
<1>2. PoolFrame(h)
  BY DEF PlainStep, PoolFrame
<1>3. PoolMoves(h)
  <2>1. ASSUME to \in Using, handler'[h].r # NoRunner
        PROVE  from \in Using
    BY <1>1, <2>1 DEF PlainStep, SameRequest, PoolFollows, Using, Knows, KnowsRunner, Unprovisioned,
       Preparing, Owning, Cleanup
  <2> QED BY <1>1, <2>1 DEF PlainStep, SameRequest, PoolMoves, PoolFollows, Working, At
<1>4. PlacesEvolve(h)
  <2>1. CASE from = "release"
    <3>1. to = "saveRunner"
      BY <2>1 DEF PlainStep, PlainMoves
    <3> QED BY <2>1, <3>1 DEF PlainStep, SameRequest, PlacesEvolve, EndsPlace, TakesPlace, At
  <2>2. CASE from = "releasePool"
    <3>1. to = "failJob"
      BY <2>2 DEF PlainStep, PlainMoves
    <3> QED BY <2>2, <3>1 DEF PlainStep, PlacesEvolve, ReturnsPlace, TakesPlace, At
  <2>3. CASE TakesPlace(h)
    BY <2>3 DEF PlacesEvolve
  <2>4. CASE from \notin {"release", "releasePool"} /\ ~TakesPlace(h)
    <3>1. UNCHANGED used /\ from # "createLease" /\ to # "saveRunner"
      BY <1>1, <2>4 DEF PlainStep, PoolFollows
    <3>2. HoldsReservation(h)' <=> HoldsReservation(h)
      <4>1. CASE from = "reserve"
        <5>1. to = "failJob"
          BY <2>4, <4>1 DEF PlainStep, PlainMoves, TakesPlace
        <5> QED BY <4>1, <5>1 DEF HoldsReservation, Assigning, Cleanup
      <4>2. CASE from # "reserve"
        BY <1>1, <2>4, <3>1, <4>2 DEF PoolFollows, HoldsReservation
      <4> QED BY <4>1, <4>2
    <3> QED BY <2>4, <3>1, <3>2 DEF PlainStep, SameRequest, PlacesEvolve, KeepsPlaces
  <2> QED BY <2>1, <2>2, <2>3, <2>4
<1> QED BY <1>2, <1>3, <1>4, PlainKnows DEF PoolStep

(* A request that is answered. *)
LEMMA AnsweredPoolStep ==
  ASSUME PoolFacts, NEW h \in Handlers, NEW answer, Return(h, answer),
         UNCHANGED <<runners, used>>,
         handler[h].pc \in {"insert", "createJob", "toAssigned", "toRunning", "saveLease", "undo"},
         UNCHANGED leases \/ (At(h, "saveLease") /\ \E lease : leases' = [leases EXCEPT ![JobFor(h)] = lease]),
         UNCHANGED markers \/ (At(h, "undo") /\ markers' = [markers EXCEPT ![handler[h].dlv] = 0])
  PROVE  PoolStep(h)
<1>1. handler'[h] = Idle /\ OthersKept(h)
  BY DEF Return, PoolFacts, TypeOK, HandlerTypeOK, OthersKept
<1>2. Knows(h)'
  BY <1>1 DEF Idle, Knows, KnowsDelivery, KnowsRunner, KnowsLease, Working, At, Ends, Closing,
     Unprovisioned, Preparing, Owning, Assigning, Cleanup, Registered, Recorded, Revised
<1>3. PoolFrame(h)
  BY <1>1 DEF PoolFrame, PoolFacts, TypeOK, StateTypeOK, JobFor
<1>4. PoolMoves(h)
  BY <1>1 DEF PoolMoves, Idle, Working, Using, Owning, Assigning, Cleanup, At
<1>5. KeepsPlaces(h)
  BY <1>1 DEF KeepsPlaces, Idle, HoldsReservation, Assigning, Cleanup
<1> QED BY <1>2, <1>3, <1>4, <1>5 DEF PoolStep, PlacesEvolve

(* A call after which the request moves on. *)
LEMMA PlainGoto ==
  ASSUME PoolFacts, TablesEvolve, NEW h \in Handlers, NEW to, Goto(h, to),
         <<handler[h].pc, to>> \in PlainMoves, handler[h].pc \notin {"clGet", "finalRunner"},
         UNCHANGED <<markers, runners, leases>>,
         At(h, "clTerminate") => (handler[h].saved <=> to = "clTerminated"),
         \/ UNCHANGED used /\ handler[h].pc \notin {"reserve", "release", "releasePool"}
         \/ UNCHANGED used /\ to = "failJob" /\ At(h, "reserve")
         \/ handler[h].pc \in {"release", "releasePool"} /\ ReleasePool
         \/ At(h, "reserve") /\ used < MaxRunners /\ used' = used + 1 /\ to = "provision"
  PROVE  PoolStep(h)
<1>1. /\ OthersKept(h) /\ SameRequest(h) /\ handler'[h].pc = to
      /\ handler'[h].rrev = handler[h].rrev
  BY DEF Goto, PoolFacts, TypeOK, HandlerTypeOK, Requests, OthersKept, SameRequest
<1>2. PlainStep(h)
  BY <1>1 DEF PlainStep, TakesPlace, At
<1> QED BY <1>2, PlainPoolStep

(* GetJob. *)
LEMMA ReadJobPoolStep ==
  ASSUME PoolFacts, TablesEvolve, NEW h \in Handlers, NEW pc, NEW next, ReadJob(h, pc, next),
         <<pc, next>> \in {<<"getJob", "toProvisioning">>, <<"getRunning", "toRunning">>,
                           <<"getFinal", "toFinal">>}
  PROVE  PoolStep(h)
<1>1. /\ OthersKept(h) /\ SameRequest(h) /\ handler'[h].pc \in {"undo", next}
      /\ handler'[h].rrev = handler[h].rrev /\ handler[h].pc = pc
  BY DEF ReadJob, InContext, At, PoolFacts, TypeOK, HandlerTypeOK, Requests, OthersKept, SameRequest
<1>2. UNCHANGED <<markers, runners, leases, used>>
  BY DEF ReadJob, shared
<1>3. PlainStep(h)
  BY <1>1, <1>2 DEF PlainStep, PlainMoves, At
<1> QED BY <1>3, PlainPoolStep

(* GetRunner. *)
LEMMA ReadRunnerPoolStep ==
  ASSUME PoolFacts, TablesEvolve, NEW h \in Handlers, NEW pc, NEW next, ReadRunner(h, pc, next),
         <<pc, next>> \in {<<"getRunner", "regPending">>, <<"clGet", "clMark">>,
                           <<"finalRunner", "terminate">>}
  PROVE  PoolStep(h)
<1>1. /\ OthersKept(h) /\ SameRequest(h) /\ handler'[h].pc = next
      /\ handler'[h].rrev = runners[handler[h].r].rev /\ handler[h].pc = pc
  BY DEF ReadRunner, At, PoolFacts, TypeOK, HandlerTypeOK, Requests, OthersKept, SameRequest
<1>2. UNCHANGED <<markers, runners, leases, used>>
  BY DEF ReadRunner, shared
<1>3. PlainStep(h)
  BY <1>1, <1>2 DEF PlainStep, PlainMoves, At
<1> QED BY <1>3, PlainPoolStep

(* Manager.Transition. *)
LEMMA TransitionPoolStep ==
  ASSUME PoolFacts, TablesEvolve, NEW h \in Handlers, NEW st, NEW next, Transition(h, st, next),
         <<handler[h].pc, next>> \in {<<"toProvisioning", "reserve">>, <<"toFinal", "getLease">>},
         UNCHANGED <<markers, runners, leases, used>>
  PROVE  PoolStep(h)
<1>1. /\ OthersKept(h) /\ SameRequest(h) /\ handler'[h].pc \in {"undo", next}
      /\ handler'[h].rrev = handler[h].rrev
  BY DEF Transition, Goto, PoolFacts, TypeOK, HandlerTypeOK, Requests, OthersKept, SameRequest
<1>2. PlainStep(h)
  BY <1>1 DEF PlainStep, PlainMoves, At
<1> QED BY <1>2, PlainPoolStep

(* The faults there are: a call to the provider, in a configuration without  *)
(* GitHub registration.                                                      *)
LEMMA OnlyProviderFaults ==
  ASSUME PoolUndisturbed, NEW kind, Fault(kind)
  PROVE  kind \in {"instance", "provider"} /\ (kind = "provider" => ~JIT)
  BY DEF Fault, PoolUndisturbed

(* A failing call: of those that can fail here none loses a save. *)
LEMMA FailurePoolStep ==
  ASSUME PoolFacts, TablesEvolve, NEW h \in Handlers, HandlerFailure(h)
  PROVE  PoolStep(h)
<1>1. PoolUndisturbed /\ handler[h].alive /\ Knows(h)
  BY DEF PoolFacts, PoolInv, Knows, KnowsDelivery
<1>2. ~Fault("storage") /\ (Fault("provider") => ~JIT)
  BY <1>1, OnlyProviderFaults
<1>3. ~RepositoryCallFails(h) /\ ~InsertFails(h)
  BY <1>1, <1>2 DEF RepositoryCallFails, InsertFails
<1>4. ~IgnoredCallFails(h)
  BY <1>1, <1>2 DEF IgnoredCallFails, Knows, KnowsDelivery, At
<1>5. CASE ProviderCallFails(h)
  <2>1. /\ handler[h].pc \in ProviderCalls /\ Goto(h, ProviderError(handler[h].pc))
        /\ UNCHANGED <<markers, runners, leases, used>>
    BY <1>5 DEF ProviderCallFails, store
  <2>2. <<handler[h].pc, ProviderError(handler[h].pc)>> \in PlainMoves
    BY <2>1 DEF ProviderError, ProviderCalls, PlainMoves
  <2> QED BY <2>1, <2>2, PlainGoto DEF ProviderCalls, At
<1>6. CASE CleanupCallFails(h)
  <2>1. /\ handler[h].pc \in Cleanup \cup {"regFailed"} /\ Goto(h, CleanupError(handler[h].pc))
        /\ UNCHANGED <<markers, runners, leases, used>>
        /\ \E kind \in CleanupFaults(handler[h].pc) : Fault(kind)
    BY <1>6 DEF CleanupCallFails, store
  <2>2. Fault("provider") /\ ~JIT /\ handler[h].pc \in {"clTerminate", "clTerminated"}
    <3>1. PICK kind \in CleanupFaults(handler[h].pc) : Fault(kind)
      BY <2>1
    <3>2. kind \in {"provider", "storage"}
      BY <3>1 DEF CleanupFaults
    <3> QED BY <1>2, <2>1, <3>1, <3>2 DEF CleanupFaults
  <2>3. At(h, "clTerminate") /\ ~handler[h].saved
    BY <1>1, <2>2 DEF Knows, KnowsRunner, Registered, At
  <2>4. Goto(h, "releasePool")
    BY <2>1, <2>3 DEF CleanupError, At
  <2>5. <<"clTerminate", "releasePool">> \in PlainMoves
    BY DEF PlainMoves
  <2> QED BY <2>1, <2>3, <2>4, <2>5, PlainGoto DEF At
<1> QED BY <1>3, <1>4, <1>5, <1>6 DEF HandlerFailure

(* The calls that write neither marker nor runner nor lease. *)
LEMMA PlainCalls ==
  ASSUME PoolFacts, TablesEvolve, NEW h \in Handlers,
         \/ GetJob(h) \/ GetRunning(h) \/ GetFinal(h) \/ GetRunner(h) \/ CleanupGet(h) \/ FinalRunner(h)
         \/ ToProvisioning(h) \/ ToFinal(h) \/ Reserve(h) \/ WaitReady(h)
         \/ RegisterPending(h) \/ RegisterFailed(h) \/ RegisterReady(h)
         \/ RunnerOnline(h) \/ RegistrationTimesOut(h) \/ CleanupTerminate(h) \/ ReleaseReservation(h)
         \/ FailJob(h) \/ TerminateRunner(h) \/ ReleaseCapacity(h)
  PROVE  PoolStep(h)
<1>1. CASE GetJob(h) \/ GetRunning(h) \/ GetFinal(h)
  BY <1>1, ReadJobPoolStep DEF GetJob, GetRunning, GetFinal
<1>2. CASE GetRunner(h) \/ CleanupGet(h) \/ FinalRunner(h)
  BY <1>2, ReadRunnerPoolStep DEF GetRunner, CleanupGet, FinalRunner
<1>3. CASE ToProvisioning(h)
  BY <1>3, TransitionPoolStep DEF ToProvisioning, InContext, At
<1>4. CASE ToFinal(h)
  <2>1. At(h, "toFinal") /\ UNCHANGED <<markers, runners, leases, used>>
    BY <1>4 DEF ToFinal
  <2>2. CASE Goto(h, "getLease")
    BY <2>1, <2>2, PlainGoto DEF PlainMoves, At
  <2>3. CASE Transition(h, FinalState(ActionFor(h)), "getLease")
    BY <2>1, <2>3, TransitionPoolStep DEF At
  <2> QED BY <1>4, <2>2, <2>3 DEF ToFinal
<1>5. CASE Reserve(h)
  BY <1>5, PlainGoto DEF Reserve, At, store, PlainMoves
<1>6. CASE WaitReady(h)
  BY <1>6, PlainGoto DEF WaitReady, InContext, At, store, PlainMoves
<1>7. CASE RegisterPending(h) \/ RegisterFailed(h) \/ RegisterReady(h)
  BY <1>7, PlainGoto DEF RegisterPending, RegisterFailed, RegisterReady, Register, InContext, At, PlainMoves
<1>8. CASE RunnerOnline(h) \/ RegistrationTimesOut(h)
  BY <1>8, PlainGoto DEF RunnerOnline, RegistrationTimesOut, InContext, At, shared, PlainMoves
<1>9. CASE CleanupTerminate(h)
  BY <1>9, PlainGoto DEF CleanupTerminate, At, store, PlainMoves
<1>10. CASE ReleaseReservation(h) \/ ReleaseCapacity(h)
  BY <1>10, PlainGoto DEF ReleaseReservation, ReleaseCapacity, At, store, PlainMoves
<1>11. CASE FailJob(h)
  BY <1>11, PlainGoto DEF FailJob, At, PlainMoves
<1>12. CASE TerminateRunner(h)
  BY <1>12, PlainGoto DEF TerminateRunner, InContext, At, store, PlainMoves
<1> QED BY <1>1, <1>2, <1>3, <1>4, <1>5, <1>6, <1>7, <1>8, <1>9, <1>10, <1>11, <1>12

(* The calls after which a request may be answered. *)
LEMMA LastCalls ==
  ASSUME PoolFacts, TablesEvolve, NEW h \in Handlers,
         \/ InsertDuplicate(h) \/ CreateJob(h) \/ ToAssigned(h) \/ ToRunning(h) \/ SaveLease(h)
         \/ Undo(h)
  PROVE  PoolStep(h)
<1>1. CASE InsertDuplicate(h)
  BY <1>1, AnsweredPoolStep DEF InsertDuplicate, InContext, At, shared
<1>2. CASE CreateJob(h)
  <2>1. At(h, "createJob") /\ UNCHANGED <<markers, runners, leases, used>>
    BY <1>2 DEF CreateJob, InContext
  <2>2. CASE Goto(h, "getJob")
    BY <2>1, <2>2, PlainGoto DEF PlainMoves, At
  <2>3. CASE Return(h, "ok")
    BY <2>1, <2>3, AnsweredPoolStep DEF At
  <2> QED BY <1>2, <2>2, <2>3 DEF CreateJob
<1>3. CASE ToAssigned(h) \/ ToRunning(h)
  <2>1. handler[h].pc \in {"toAssigned", "toRunning"} /\ UNCHANGED <<markers, runners, leases, used>>
    BY <1>3 DEF ToAssigned, ToRunning, InContext, At
  <2>2. CASE Goto(h, "undo")
    BY <2>1, <2>2, PlainGoto DEF PlainMoves, At
  <2>3. CASE Return(h, "ok")
    BY <2>1, <2>3, AnsweredPoolStep
  <2> QED BY <1>3, <2>2, <2>3 DEF ToAssigned, ToRunning
<1>4. CASE SaveLease(h)
  <2>1. At(h, "saveLease") /\ UNCHANGED <<markers, runners, used>>
    BY <1>4 DEF SaveLease, InContext
  <2>2. CanSave(leases, JobFor(h), handler[h].lrev)
    <3>1. handler[h].lrev = leases[JobFor(h)].rev
      BY <2>1 DEF PoolFacts, PoolInv, Knows, KnowsLease, Closing, At
    <3> QED BY <2>1, <3>1, EndsOwn DEF CanSave, Closing, At
  <2>3. /\ leases' = [leases EXCEPT ![JobFor(h)] = Advanced(leases[JobFor(h)], "terminated")]
        /\ Return(h, "ok")
    BY <1>4, <2>2 DEF SaveLease
  <2> HIDE DEF Advanced
  <2>4. \E lease : leases' = [leases EXCEPT ![JobFor(h)] = lease]
    BY <2>3
  <2> QED BY <2>1, <2>3, <2>4, AnsweredPoolStep DEF At
<1>5. CASE Undo(h)
  BY <1>5, AnsweredPoolStep DEF Undo, At
<1> QED BY <1>1, <1>2, <1>3, <1>4, <1>5

-----------------------------------------------------------------------------
(* The calls by which a request comes to know something. *)

(* A delivery arrives. *)
LEMMA ReceivePoolStep ==
  ASSUME PoolFacts, NEW h \in Handlers, NEW d \in Deliveries, NEW at \in Instants, Receive(h, d, at)
  PROVE  PoolStep(h)
<1>1. /\ handler'[h] = [Idle EXCEPT !.pc = "insert", !.dlv = d, !.at = at]
      /\ OthersKept(h) /\ At(h, "idle") /\ UNCHANGED <<markers, runners, leases, used>>
  BY DEF Receive, PoolFacts, TypeOK, HandlerTypeOK, OthersKept, shared
<1>2. /\ handler'[h].pc = "insert" /\ handler'[h].r = NoRunner /\ ~handler'[h].saved
      /\ handler'[h].alive /\ handler'[h].at = at
  BY <1>1 DEF Idle
<1>3. at # 0
  BY ConstantsAssumption
<1>4. Knows(h)'
  BY <1>2, <1>3 DEF Knows, KnowsDelivery, KnowsRunner, KnowsLease, Working, At, Ends, Closing,
     Unprovisioned, Preparing, Owning, Assigning, Cleanup, Registered, Recorded, Revised
<1>5. PoolFrame(h)
  BY <1>1 DEF PoolFrame
<1>6. PoolMoves(h)
  BY <1>1, <1>2 DEF PoolMoves, Working, Using, Owning, Assigning, Cleanup, At
<1>7. KeepsPlaces(h)
  BY <1>1, <1>2 DEF KeepsPlaces, HoldsReservation, Assigning, Cleanup, At
<1> QED BY <1>4, <1>5, <1>6, <1>7 DEF PoolStep, PlacesEvolve

(* InsertLifecycleEvent begins a delivery that has no marker. *)
LEMMA InsertPoolStep ==
  ASSUME PoolFacts, NEW h \in Handlers, InsertNew(h)
  PROVE  PoolStep(h)
<1> DEFINE to == FirstCall(ActionFor(h))
<1>1. /\ OthersKept(h) /\ SameRequest(h) /\ handler'[h].pc = to /\ At(h, "insert")
      /\ UNCHANGED <<runners, leases, used>>
      /\ markers[handler[h].dlv] = 0
      /\ markers' = [markers EXCEPT ![handler[h].dlv] = handler[h].at]
  BY DEF InsertNew, Goto, InContext, PoolFacts, TypeOK, HandlerTypeOK, Requests, OthersKept, SameRequest
<1>2. Knows(h) /\ handler[h].dlv \in Deliveries /\ handler[h].at # 0
  BY <1>1 DEF PoolFacts, PoolInv, Knows, KnowsDelivery, At, TypeOK, HandlerTypeOK
<1>3. ActionFor(h) \in Actions
  BY <1>2, ConstantsAssumption DEF ActionFor
<1>4. to \in {"createJob", "getRunning", "getFinal"} /\ (to = "getFinal" => ActionFor(h) \in FinalActions)
  BY <1>3 DEF FirstCall, FinalActions, Actions
<1> HIDE DEF to
<1>5. /\ markers'[handler[h].dlv] = handler[h].at
      /\ \A d \in Deliveries : d # handler[h].dlv => markers'[d] = markers[d]
  BY <1>1, <1>2 DEF PoolFacts, TypeOK, StateTypeOK
<1>6. handler[h].r = NoRunner /\ ~handler[h].saved
  BY <1>1, <1>2 DEF Knows, KnowsRunner, Unprovisioned, At
<1>7. Knows(h)'
  <2>1. KnowsDelivery(h)'
    BY <1>1, <1>2, <1>4, <1>5 DEF KnowsDelivery, Knows, SameRequest, Working, Ends, Closing, ActionFor
  <2>2. KnowsRunner(h)' /\ KnowsLease(h)'
    BY <1>1, <1>4, <1>6 DEF KnowsRunner, KnowsLease, SameRequest, At, Closing, Unprovisioned, Preparing,
       Owning, Assigning, Cleanup, Registered, Recorded, Revised
  <2> QED BY <2>1, <2>2 DEF Knows
<1>8. PoolFrame(h)
  BY <1>1, <1>2, <1>5 DEF PoolFrame
<1>9. PoolMoves(h)
  BY <1>1, <1>4 DEF PoolMoves, SameRequest, Working, Using, Owning, Assigning, Cleanup, At
<1>10. KeepsPlaces(h)
  BY <1>1, <1>4 DEF KeepsPlaces, HoldsReservation, Assigning, Cleanup, At
<1> QED BY <1>7, <1>8, <1>9, <1>10 DEF PoolStep, PlacesEvolve

(* Provision hands out a runner nobody has. *)
LEMMA ProvisionPoolStep ==
  ASSUME PoolFacts, NEW h \in Handlers, NEW r \in Runners, Provision(h, r)
  PROVE  PoolStep(h)
<1>1. /\ OthersKept(h) /\ At(h, "provision") /\ UNCHANGED <<markers, runners, leases, used>>
      /\ handler'[h].pc = "waitReady" /\ handler'[h].r = r /\ instances[r].st = "none"
      /\ handler'[h].dlv = handler[h].dlv /\ handler'[h].at = handler[h].at
      /\ handler'[h].alive = handler[h].alive /\ handler'[h].saved = handler[h].saved
  BY DEF Provision, InContext, PoolFacts, TypeOK, HandlerTypeOK, Requests, OthersKept, store
<1>2. Knows(h) /\ handler[h].r = NoRunner /\ ~handler[h].saved
  BY <1>1 DEF PoolFacts, PoolInv, Knows, KnowsRunner, Unprovisioned, Preparing, At
<1>3. Absent(runners[r])
  BY <1>1 DEF PoolFacts, SafetyInv, TablesOK, RecordsOfInstances
<1>4. Knows(h)'
  <2>1. KnowsDelivery(h)'
    BY <1>1, <1>2 DEF KnowsDelivery, Knows, Working, Ends, Closing, At
  <2>2. KnowsRunner(h)' /\ KnowsLease(h)'
    BY <1>1, <1>2, <1>3 DEF KnowsRunner, KnowsLease, At, Closing, Unprovisioned, Preparing,
       Registered, Recorded, Revised
  <2> QED BY <2>1, <2>2 DEF Knows
<1>5. PoolFrame(h)
  BY <1>1 DEF PoolFrame
<1>6. PoolMoves(h)
  BY <1>1 DEF PoolMoves, Working, At
<1>7. KeepsPlaces(h)
  BY <1>1, <1>2, ConstantsAssumption DEF KeepsPlaces, HoldsReservation, Assigning, At
<1> QED BY <1>4, <1>5, <1>6, <1>7 DEF PoolStep, PlacesEvolve

(* CreateRunner records it. *)
LEMMA CreateRunnerPoolStep ==
  ASSUME PoolFacts, NEW h \in Handlers, CreateRunner(h)
  PROVE  PoolStep(h)
<1> DEFINE r == handler[h].r
           st == IF JIT THEN "provisioning" ELSE "ready"
           to == IF JIT THEN "getRunner" ELSE "createLease"
<1>1. At(h, "createRunner") /\ handler[h].pc \in Owning /\ UNCHANGED <<markers, leases, used>>
  BY DEF CreateRunner, InContext, At, Owning, Assigning
<1>2. /\ runners' = [runners EXCEPT ![r] = [st |-> st, job |-> JobFor(h), rev |-> 1]]
      /\ handler' = [handler EXCEPT ![h].pc = to, ![h].saved = TRUE]
  BY DEF CreateRunner
<1>3. r \in Runners /\ Knows(h)
  BY <1>1, AssignsOwn DEF PoolFacts, PoolInv
<1>4. /\ OthersKept(h) /\ handler'[h].pc = to /\ handler'[h].r = r /\ handler'[h].saved = TRUE
      /\ handler'[h].dlv = handler[h].dlv /\ handler'[h].at = handler[h].at
      /\ handler'[h].alive = handler[h].alive
  BY <1>2 DEF PoolFacts, TypeOK, HandlerTypeOK, Requests, OthersKept
<1>5. /\ runners'[r].st = st /\ runners'[r].rev = 1
      /\ \A q \in Runners : q # r => runners'[q] = runners[q]
  BY <1>2, <1>3 DEF PoolFacts, TypeOK, StateTypeOK
<1>6. to \in {"getRunner", "createLease"} /\ (to = "getRunner" => JIT) /\ st # "terminated"
  OBVIOUS
<1> HIDE DEF r, st, to
<1>7. Knows(h)'
  <2>1. KnowsDelivery(h)'
    BY <1>1, <1>3, <1>4, <1>6 DEF KnowsDelivery, Knows, Working, Ends, Closing, At
  <2>2. KnowsRunner(h)' /\ KnowsLease(h)'
    BY <1>4, <1>5, <1>6 DEF KnowsRunner, KnowsLease, At, Closing, Unprovisioned, Preparing,
       Registered, Revised, Absent, Recorded
  <2> QED BY <2>1, <2>2 DEF Knows
<1>8. PoolFrame(h)
  BY <1>1, <1>4, <1>5 DEF PoolFrame, r
<1>9. PoolMoves(h)
  BY <1>1, <1>4 DEF PoolMoves, Working, Using, At, r
<1>10. KeepsPlaces(h)
  BY <1>1, <1>4, <1>6 DEF KeepsPlaces, HoldsReservation, Assigning, At, r
<1> QED BY <1>7, <1>8, <1>9, <1>10 DEF PoolStep, PlacesEvolve

(* CreateLease passes the place on. *)
LEMMA CreateLeasePoolStep ==
  ASSUME PoolFacts, NEW h \in Handlers, CreateLease(h)
  PROVE  PoolStep(h)
<1> DEFINE j == JobFor(h)
           lease == [st |-> "active", runner |-> handler[h].r, rev |-> 1]
<1>1. At(h, "createLease") /\ handler[h].pc \in Owning /\ UNCHANGED <<markers, runners, used>>
  BY DEF CreateLease, InContext, At, Owning
<1>2. j \in Jobs /\ Absent(leases[j]) /\ Knows(h)
  BY <1>1, AssignsOwn DEF PoolFacts, PoolInv
<1>3. leases' = [leases EXCEPT ![j] = lease] /\ Goto(h, "toAssigned")
  BY <1>2 DEF CreateLease
<1>4. /\ OthersKept(h) /\ SameRequest(h) /\ handler'[h].pc = "toAssigned"
  BY <1>3 DEF Goto, PoolFacts, TypeOK, HandlerTypeOK, Requests, OthersKept, SameRequest
<1>5. /\ leases'[j].runner = handler[h].r /\ leases'[j].rev = 1
      /\ \A i \in Jobs : i # j => leases'[i] = leases[i]
  BY <1>2, <1>3 DEF PoolFacts, TypeOK, StateTypeOK
<1>6. Knows(h)'
  <2>1. KnowsDelivery(h)'
    BY <1>1, <1>2, <1>4 DEF KnowsDelivery, Knows, SameRequest, Working, Ends, Closing, At
  <2>2. KnowsRunner(h)' /\ KnowsLease(h)'
    BY <1>4 DEF KnowsRunner, KnowsLease, At, Closing, Unprovisioned, Preparing, Owning, Assigning,
       Cleanup, Registered, Revised, Recorded
  <2> QED BY <2>1, <2>2 DEF Knows
<1>7. PoolFrame(h)
  BY <1>1, <1>2, <1>4, <1>5 DEF PoolFrame
<1>8. PoolMoves(h)
  BY <1>1, <1>4 DEF PoolMoves, SameRequest, Working, Using, Owning, Assigning, Cleanup, At
<1>9. PassesPlace(h)
  BY <1>1, <1>4, <1>5 DEF PassesPlace, Absent
<1> QED BY <1>6, <1>7, <1>8, <1>9 DEF PoolStep, PlacesEvolve

(* GetLease finds a runner nobody has ended: only this delivery ends it. *)
LEMMA GetLeasePoolStep ==
  ASSUME PoolFacts, TablesEvolve, NEW h \in Handlers, GetLease(h)
  PROVE  PoolStep(h)
<1> DEFINE j == JobFor(h)
<1>1. At(h, "getLease") /\ UNCHANGED <<markers, runners, leases, used>> /\ Knows(h)
  BY DEF GetLease, InContext, shared, PoolFacts, PoolInv
<1>2. /\ Working(h) /\ j \in Jobs /\ handler[h].dlv \in Deliveries
      /\ ActionFor(h) \in FinalActions
  BY <1>1, WorksOnJob DEF Working, At, PoolFacts, TypeOK, HandlerTypeOK, Knows, KnowsDelivery, Ends
<1>3. CASE Absent(leases[j])
  <2>1. Goto(h, "undo")
    BY <1>3 DEF GetLease, Goto
  <2> QED BY <1>1, <2>1, PlainGoto DEF PlainMoves, At
<1>4. CASE ~Absent(leases[j])
  <2>1. handler' = [handler EXCEPT ![h].pc = "finalRunner", ![h].r = leases[j].runner,
                                   ![h].lrev = leases[j].rev]
    BY <1>4 DEF GetLease
  <2>2. /\ OthersKept(h) /\ handler'[h].pc = "finalRunner" /\ handler'[h].r = leases[j].runner
        /\ handler'[h].lrev = leases[j].rev
        /\ handler'[h].dlv = handler[h].dlv /\ handler'[h].at = handler[h].at
        /\ handler'[h].alive = handler[h].alive
    BY <2>1 DEF PoolFacts, TypeOK, HandlerTypeOK, Requests, OthersKept
  <2>3. runners[leases[j].runner].st # "terminated"
    <3> SUFFICES ASSUME runners[leases[j].runner].st = "terminated" PROVE FALSE
      OBVIOUS
    <3> PICK d \in Deliveries : EndedBy(d, j)
      BY <1>2, <1>4 DEF PoolFacts, PoolInv, EndedOnce
    <3>1. d = handler[h].dlv
      BY <1>2 DEF EndedBy, PoolFacts, PoolUndisturbed, ActionFor, JobFor
    <3> QED BY <1>1, <1>2, <3>1 DEF EndedBy, At
  <2>4. Knows(h)'
    <3>1. KnowsDelivery(h)'
      BY <1>1, <1>2, <2>2 DEF KnowsDelivery, Knows, Working, ActionFor, At
    <3>2. KnowsRunner(h)' /\ KnowsLease(h)'
      BY <1>1, <2>2, <2>3 DEF KnowsRunner, KnowsLease, At, Closing, Unprovisioned, Preparing, Owning,
         Assigning, Cleanup, Registered, Revised, Recorded, JobFor
    <3> QED BY <3>1, <3>2 DEF Knows
  <2>5. PoolFrame(h)
    BY <1>1, <2>2 DEF PoolFrame
  <2>6. PoolMoves(h)
    BY <1>1, <2>2 DEF PoolMoves, Working, Using, Owning, Assigning, Cleanup, At
  <2>7. KeepsPlaces(h)
    BY <1>1, <2>2 DEF KeepsPlaces, HoldsReservation, Assigning, Cleanup, At
  <2> QED BY <2>4, <2>5, <2>6, <2>7 DEF PoolStep, PlacesEvolve
<1> QED BY <1>3, <1>4

(* SaveRunner of a record that is still as the request read it. *)
RunnerSaves ==
  {<<"saveReady", "regReady", "ready">>, <<"clMark", "clTerminate", "terminating">>,
   <<"clTerminated", "releasePool", "terminated">>, <<"saveRunner", "saveLease", "terminated">>}

(* Such a save leaves the places as they are. *)
LEMMA SavedRunnerPoolStep ==
  ASSUME PoolFacts, NEW h \in Handlers, NEW st, NEW next,
         <<handler[h].pc, next, st>> \in RunnerSaves,
         CanSave(runners, handler[h].r, handler[h].rrev),
         runners' = [runners EXCEPT ![handler[h].r] = Advanced(@, st)],
         handler' = [handler EXCEPT ![h].pc = next, ![h].rrev = @ + 1],
         UNCHANGED <<markers, leases, instances, used>>
  PROVE  PoolStep(h)
<1> DEFINE r == handler[h].r
           from == handler[h].pc
<1>1. Knows(h) /\ from \in {"saveReady", "clMark", "clTerminated", "saveRunner"}
  BY DEF PoolFacts, PoolInv, RunnerSaves
<1>2. r \in Runners /\ (from # "saveRunner" => from \in Owning)
  BY <1>1, AssignsOwn, EndsOwn DEF Owning, Assigning, Cleanup, Closing
<1>3. /\ OthersKept(h) /\ SameRequest(h) /\ handler'[h].pc = next
  BY DEF PoolFacts, TypeOK, HandlerTypeOK, Requests, OthersKept, SameRequest
<1>4. /\ runners'[r].st = st /\ ~Absent(runners'[r]) /\ ~Absent(runners[r])
      /\ \A q \in Runners : q # r => runners'[q] = runners[q]
  <2>1. runners[r] \in RunnerRecords /\ ~Absent(runners[r])
    BY <1>2 DEF PoolFacts, TypeOK, StateTypeOK, CanSave
  <2>2. runners'[r] = Advanced(runners[r], st) /\ \A q \in Runners : q # r => runners'[q] = runners[q]
    BY <1>2 DEF PoolFacts, TypeOK, StateTypeOK
  <2>3. Advanced(runners[r], st).st = st /\ Advanced(runners[r], st).rev = runners[r].rev + 1
    BY <2>1 DEF Advanced, RunnerRecords
  <2> QED BY <2>1, <2>2, <2>3 DEF Absent, RunnerRecords
<1>5. KnowsDelivery(h)'
  BY <1>1, <1>3 DEF KnowsDelivery, Knows, SameRequest, Working, Ends, Closing, ActionFor, RunnerSaves
<1>6. KnowsLease(h)'
  BY <1>1, <1>3 DEF KnowsLease, Knows, SameRequest, Closing, Revised, JobFor, RunnerSaves
<1>7. KnowsRunner(h)'
  <2>1. CASE from = "saveReady"
    <3>1. next = "regReady" /\ st = "ready"
      BY <2>1 DEF RunnerSaves
    <3>2. handler[h].saved /\ JIT
      BY <1>1, <2>1 DEF Knows, KnowsRunner, Registered
    <3> QED BY <1>3, <1>4, <3>1, <3>2 DEF KnowsRunner, SameRequest, At, Unprovisioned, Preparing
  <2>2. CASE from = "clMark"
    <3>1. next = "clTerminate"
      BY <2>2 DEF RunnerSaves
    <3>2. handler[h].saved /\ JIT
      BY <1>1, <2>2 DEF Knows, KnowsRunner, Registered
    <3> QED BY <1>3, <1>4, <3>1, <3>2
            DEF KnowsRunner, SameRequest, At, Unprovisioned, Preparing, Registered, Recorded
  <2>3. CASE from = "clTerminated"
    <3>1. next = "releasePool"
      BY <2>3 DEF RunnerSaves
    <3>2. ~Live(r) /\ instances[r].st # "none"
      BY <1>2, <2>3, AssignsOwn
         DEF PoolFacts, SafetyInv, RequestsOK, RequestOK, HasReleased, Releasing
    <3>3. ASSUME NEW q, q = r
          PROVE  GivenBack(q)'
      BY <1>2, <3>2, <3>3 DEF GivenBack, Live
    <3> QED BY <1>3, <1>4, <3>1, <3>3
            DEF KnowsRunner, SameRequest, At, Unprovisioned, Preparing, Registered, Recorded, Owning,
                Assigning, Cleanup
  <2>4. CASE from = "saveRunner"
    <3>1. next = "saveLease"
      BY <2>4 DEF RunnerSaves
    <3> QED BY <1>3, <3>1
            DEF KnowsRunner, SameRequest, At, Unprovisioned, Preparing, Registered, Recorded, Owning,
                Assigning, Cleanup
  <2> QED BY <1>1, <2>1, <2>2, <2>3, <2>4
<1>8. PoolFrame(h)
  BY <1>1, <1>2, <1>3, <1>4 DEF PoolFrame, At
<1>9. PoolMoves(h)
  BY <1>1, <1>3, <1>4
     DEF PoolMoves, SameRequest, RunnerSaves, Working, Using, Owning, Assigning, Cleanup, At
<1>10. KeepsPlaces(h)
  BY <1>1, <1>3 DEF KeepsPlaces, SameRequest, RunnerSaves, HoldsReservation, Assigning, Cleanup, At
<1> QED BY <1>3, <1>5, <1>6, <1>7, <1>8, <1>9, <1>10 DEF PoolStep, PlacesEvolve, Knows

(* The request that ends or cleans up a runner is the only one to have       *)
(* written its record.                                                       *)
LEMMA SaveRunnerPoolStep ==
  ASSUME PoolFacts, TablesEvolve, NEW h \in Handlers,
         SaveReady(h) \/ CleanupMark(h) \/ CleanupTerminated(h) \/ SaveTerminated(h)
  PROVE  PoolStep(h)
<1> DEFINE saves == CanSave(runners, handler[h].r, handler[h].rrev)
<1>1. Knows(h)
  BY DEF PoolFacts, PoolInv
<1>2. CASE SaveReady(h)
  <2>1. /\ At(h, "saveReady") /\ WriteRunner(h, "ready", "regReady", "clGet")
        /\ UNCHANGED <<markers, leases, instances, used>>
    BY <1>2 DEF SaveReady, InContext
  <2>2. CASE saves
    BY <2>1, <2>2, SavedRunnerPoolStep DEF WriteRunner, RunnerSaves, At
  <2>3. CASE ~saves
    BY <2>1, <2>3, PlainGoto DEF WriteRunner, PlainMoves, At
  <2> QED BY <2>2, <2>3
<1>3. CASE CleanupMark(h)
  <2>1. /\ At(h, "clMark") /\ WriteRunner(h, "terminating", "clTerminate", "releasePool")
        /\ UNCHANGED <<markers, leases, instances, used>>
    BY <1>3 DEF CleanupMark
  <2>2. saves
    BY <1>1, <2>1 DEF Knows, KnowsRunner, Registered, Owning, Cleanup, At, CanSave
  <2> QED BY <2>1, <2>2, SavedRunnerPoolStep DEF WriteRunner, RunnerSaves, At
<1>4. CASE CleanupTerminated(h)
  <2>1. /\ At(h, "clTerminated") /\ WriteRunner(h, "terminated", "releasePool", "releasePool")
        /\ UNCHANGED <<markers, leases, instances, used>>
    BY <1>4 DEF CleanupTerminated
  <2>2. CASE saves
    BY <2>1, <2>2, SavedRunnerPoolStep DEF WriteRunner, RunnerSaves, At
  <2>3. CASE ~saves
    BY <2>1, <2>3, PlainGoto DEF WriteRunner, PlainMoves, At
  <2> QED BY <2>2, <2>3
<1>5. CASE SaveTerminated(h)
  <2>1. /\ At(h, "saveRunner") /\ WriteRunner(h, "terminated", "saveLease", "undo")
        /\ UNCHANGED <<markers, leases, instances, used>>
    BY <1>5 DEF SaveTerminated, InContext
  <2>2. saves
    <3>1. handler[h].rrev = runners[handler[h].r].rev
      BY <1>1, <2>1 DEF Knows, KnowsLease, Revised, At
    <3> QED BY <2>1, <3>1, EndsOwn DEF CanSave, Closing, At
  <2> QED BY <2>1, <2>2, SavedRunnerPoolStep DEF WriteRunner, RunnerSaves, At
<1> QED BY <1>2, <1>3, <1>4, <1>5

(* Every call of a request, successful or not. *)
LEMMA HandlerPoolStep ==
  ASSUME PoolFacts, TablesEvolve, NEW h \in Handlers, HandlerStep(h)
  PROVE  PoolStep(h)
<1>1. CASE HandlerFailure(h)
  BY <1>1, FailurePoolStep
<1>2. CASE HandlerProgress(h)
  <2>1. ~DropRunner(h)
    BY DEF DropRunner, PoolFacts, PoolInv, Knows, KnowsDelivery, At
  <2>2. \/ GetJob(h) \/ GetRunning(h) \/ GetFinal(h) \/ GetRunner(h) \/ CleanupGet(h) \/ FinalRunner(h)
        \/ ToProvisioning(h) \/ ToFinal(h) \/ Reserve(h) \/ WaitReady(h)
        \/ RegisterPending(h) \/ RegisterFailed(h) \/ RegisterReady(h)
        \/ RunnerOnline(h) \/ RegistrationTimesOut(h) \/ CleanupTerminate(h) \/ ReleaseReservation(h)
        \/ FailJob(h) \/ TerminateRunner(h) \/ ReleaseCapacity(h)
        \/ InsertDuplicate(h) \/ CreateJob(h) \/ ToAssigned(h) \/ ToRunning(h) \/ SaveLease(h)
        \/ Undo(h)
        \/ SaveReady(h) \/ CleanupMark(h) \/ CleanupTerminated(h) \/ SaveTerminated(h)
        \/ InsertNew(h) \/ (\E r \in Runners : Provision(h, r)) \/ CreateRunner(h)
        \/ CreateLease(h) \/ GetLease(h)
    BY <1>2, <2>1 DEF HandlerProgress
  <2> QED BY <2>2, PlainCalls, LastCalls, SaveRunnerPoolStep, InsertPoolStep, ProvisionPoolStep,
          CreateRunnerPoolStep, CreateLeasePoolStep, GetLeasePoolStep
<1> QED BY <1>1, <1>2 DEF HandlerStep

(* Before the first request all places are free. *)
LEMMA InitPool ==
  ASSUME PoolUndisturbed, Init
  PROVE  PoolInv
<1>1. \A h \in Handlers : handler[h] = Idle
  BY DEF Init, HandlerInit
<1>2. \A h \in Handlers : Knows(h)
  BY <1>1 DEF Idle, Knows, KnowsDelivery, KnowsRunner, KnowsLease, Working, At, Ends, Closing,
     Unprovisioned, Preparing, Owning, Assigning, Cleanup, Registered, Recorded, Revised
<1>3. Apart
  BY <1>1 DEF Idle, Apart, ApartFrom, Working, Using, Owning, Assigning, Cleanup
<1>4. \A j \in Jobs : Absent(leases[j])
  BY DEF Init, StateInit, NoLease, Absent
<1>5. EndedOnce
  BY <1>4 DEF EndedOnce
<1>6. Places
  BY DEF Init, StateInit, NoRunnerRecord, Absent, Places
<1>7. LeasedRunners = {} /\ Holders = {}
  BY <1>1, <1>4 DEF LeasedRunners, Holders, HoldsReservation, Idle, Assigning, Cleanup
<1>8. Counted
  BY <1>7, FS_EmptySet, ConstantsAssumption DEF Counted, Init, StateInit
<1> QED BY <1>2, <1>3, <1>5, <1>6, <1>8 DEF PoolInv

(* Every step of a platform that nothing but requests disturbs. *)
LEMMA StepPool ==
  ASSUME TypeOK, TypeOK', CopiesMatchRevisions, EndedCopies, SafetyInv, PoolUndisturbed, PoolInv,
         [Next]_vars
  PROVE  PoolInv'
<1>1. JobsProgress /\ PoolFacts
  BY StepProgress DEF PoolFacts
<1>2. CASE UNCHANGED vars
  <2>1. UNCHANGED <<jobs, runners, leases, registration, instances, handler, reply, markers, used>>
    BY <1>2 DEF vars, shared, handlerVars
  <2>2. TablesEvolve
    BY <1>1, <2>1, Untouched DEF TablesEvolve
  <2> QED BY <1>1, <2>1, <2>2, PoolBystanderKept
<1>3. ASSUME NEW h \in Handlers, Webhook(h)
      PROVE  PoolInv'
  <2>1. CASE HandlerStep(h)
    <3>1. TablesEvolve
      BY <1>1, <2>1, HandlerStepSafe DEF StepOK
    <3> QED BY <1>1, <2>1, <3>1, HandlerPoolStep, PoolStepKept
  <2>2. ASSUME NEW d \in Deliveries, NEW at \in Instants, Receive(h, d, at)
        PROVE  PoolInv'
    <3>1. TablesEvolve
      BY <1>1, <2>2, ReceiveStep DEF StepOK
    <3> QED BY <1>1, <2>2, <3>1, ReceivePoolStep, PoolStepKept
  <2>3. ~ClientGone(h)
    BY DEF ClientGone, PoolUndisturbed, TypeOK, HandlerTypeOK
  <2> QED BY <1>3, <2>1, <2>2, <2>3 DEF Webhook
<1>4. CASE Environment
  <2>1. UNCHANGED <<handler, markers, runners, leases, used>>
    BY <1>4 DEF Environment, TerminationCompletes, InstanceLost, Expire, store, handlerVars
  <2>2. TablesEvolve
    BY <1>1, <1>4, EnvironmentEvolves
  <2> QED BY <1>1, <2>1, <2>2, PoolBystanderKept
<1>5. ~Reconcile
  BY DEF Reconcile, PoolUndisturbed
<1>6. ~Crash
  BY OnlyProviderFaults DEF Crash
<1> QED BY <1>2, <1>3, <1>4, <1>5, <1>6 DEF Next

(* The recorded runners that cost something are those of the requests that   *)
(* hold a reservation and those a lease holds: no more than there are places. *)
LEMMA PlacesSuffice ==
  ASSUME PoolUndisturbed, TypeOK, Places, Counted
  PROVE  PoolCountsRunners
<1> DEFINE Costly == {r \in Runners : ~Absent(runners[r]) /\ Live(r)}
           taken == [h \in Holders |-> handler[h].r]
           Held == {handler[h].r : h \in Holders}
<1>1. /\ IsFiniteSet(Holders) /\ IsFiniteSet(LeasedRunners)
      /\ Cardinality(Holders) \in Nat /\ Cardinality(LeasedRunners) \in Nat
  BY HoldersFinite, FS_CardinalityType
<1>2. IsFiniteSet(Held) /\ Cardinality(Held) <= Cardinality(Holders)
  <2>1. taken \in Surjection(Holders, Held)
    BY DEF Surjection
  <2> QED BY <1>1, <2>1, FS_Surjection
<1>3. Costly \subseteq Held \cup LeasedRunners
  BY DEF Places, Reserved, Holders
<1> HIDE DEF Costly, Held, taken
<1>4. /\ IsFiniteSet(Held \cup LeasedRunners)
      /\ Cardinality(Held \cup LeasedRunners) =
           Cardinality(Held) + Cardinality(LeasedRunners) - Cardinality(Held \cap LeasedRunners)
  BY <1>1, <1>2, FS_Union
<1>5. /\ Cardinality(Held) \in Nat /\ Cardinality(Held \cap LeasedRunners) \in Nat
      /\ Cardinality(Held \cup LeasedRunners) \in Nat
  <2>1. IsFiniteSet(Held \cap LeasedRunners)
    BY <1>2, FS_Subset
  <2> QED BY <1>2, <1>4, <2>1, FS_CardinalityType
<1>6. IsFiniteSet(Costly) /\ Cardinality(Costly) <= Cardinality(Held \cup LeasedRunners)
  BY <1>3, <1>4, FS_Subset
<1>7. Cardinality(Costly) \in Nat
  BY <1>6, FS_CardinalityType
<1>8. /\ used = Cardinality(Holders) + Cardinality(LeasedRunners)
      /\ used <= MaxRunners /\ MaxRunners \in Nat
  BY ConstantsAssumption DEF Counted
<1>9. Cardinality(Costly) <= MaxRunners
  BY <1>1, <1>2, <1>4, <1>5, <1>6, <1>7, <1>8
<1> QED BY <1>8, <1>9 DEF PoolCountsRunners, Holders, Costly

(* Scheduler.Reserve and Release: the counter is exact, and its limit bounds *)
(* what runs, through failed assignments, cancellations that overtake them   *)
(* and redeliveries, as long as nothing but requests acts on the platform    *)
(* and none of their saves is lost.                                          *)
THEOREM PoolHolds == ASSUME PoolUndisturbed PROVE Spec => []PoolCountsRunners
<1>1. Init => SafetyInv /\ EndedCopies /\ PoolInv
  BY InitSafe, InitPool
<1>2. /\ TypeOK /\ TypeOK' /\ CopiesMatchRevisions
      /\ (SafetyInv /\ EndedCopies /\ PoolInv) /\ [Next]_vars
      => (SafetyInv /\ EndedCopies /\ PoolInv)'
  BY StepSafe, StepPool
<1>3. TypeOK /\ PoolInv => PoolCountsRunners
  BY PlacesSuffice DEF PoolInv
<1> QED BY <1>1, <1>2, <1>3, TypeCorrect, CopiesAreSound, PTL DEF Spec
=============================================================================

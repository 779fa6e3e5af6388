# leoRunners: verification of the runner controller

TLA+ specifications of the controller under `src/controller`, the TLC
configurations that check them on small instances, and theorems about them
checked by TLAPS.

The controller turns GitHub `workflow_job` webhooks into ephemeral runners: one
job, one cloud instance, one lease, all of it recorded in a repository that
survives the process. Nothing in the code is one transaction: a request is a
chain of up to a dozen repository, provider and GitHub calls, any number of
requests run at once, a reconciliation loop works on the same records from
copies it listed earlier, and the process may die between any two calls. What
holds everything together is the revision every record carries. That is what
these specifications are about.

## 1. The system

| part | state it keeps | operations | interacts with |
|---|---|---|---|
| controller service (`controller/controller.go`) | none of its own | `HandleWorkflowJob` (queued, in_progress, completed, cancelled), `finish` | repository, assignment or scheduler, lifecycle manager, provider |
| assignment service (`runners/runners.go`) | jobs being assigned | `Assign` with its `cleanup` | GitHub (JIT configuration, registration), provider, repository |
| scheduler (`scheduler/scheduler.go`) | none | `Reserve`, `Schedule`, `Release` | capacity registry, provider, repository |
| lifecycle manager (`lifecycle/lifecycle.go`) | none | `Transition` | repository, telemetry |
| reconciler (`lifecycle/reconciler.go`) | the copies of one pass | `Reconcile`, `ReapExpired` | repository, provider |
| repository (`state/memory.go`, `state/file.go`, `state/dynamodb`) | jobs, runners, leases, lifecycle events, each with a revision | create, get, save if the revision matches, list | |
| provider (`providers/provider.go`, `aws`, `gcp`) | instances | `Provision`, `WaitReady`, `Status`, `Terminate` | |
| capacity registry (`capacity/capacity.go`) | pools with limits and usage, reservations, active replica | `Register`, `Select`, `Reserve`, `Release`, `ReserveFenced`, `ReleaseFenced`, `NewReplica` | |
| coordination (`coordination`) | leases with fencing tokens | `Acquire`, `Renew`, `Release` | |
| controller process (`cmd/runner-controller/main.go`) | all of the in-memory state above | HTTP server, ticker loop, start and stop | |
| GitHub client (`github`) | none | webhook normalisation, JIT configuration, registration poll, retries | |
| EC2 and Compute Engine adapters (`providers/aws`, `providers/gcp`) | none | one provider call is several cloud requests, each of which may be lost, repeated or cut off | SDKs |
| event bus (`events`) | subscriptions with a bounded channel, drop counters | `Publish`, `Subscribe`, `Close` of either | telemetry, archive, dispatcher |
| archive (`events/archive`) | a file and its rotated siblings | `Open`, `Append`, `Replay`, `Close` | disk |
| extensions (`extensions`, `runtime`, `consumers`, `policy`) | queues, workers, counters, a bounded sink | `Start`, `Close`, handlers, `Evaluate` | event bus |
| observability (`observability`, `prometheus`) | series, samples | `Register`, updates, `Gather`, `Record` | every caller of a metric |
| caches (`cache`, `cache/backends/s3`) | bounded maps, summaries; objects in a bucket | `Get`, `Put`, `Delete`, `InvalidateAll` | none in the process |
| placement policy (`policy`, administration in `capacity`) | pools | `Register`, `Upsert`, `Remove`, `Select` | scheduler |
| network and security helpers (`network`, `security`) | profiles and their availability | `Resolve`, `Evaluate` | none in the process |
| configuration, intelligence, domain helpers | none over time | parsing, statistics | |

The behaviours that are hard, and that the hazards of `PROJECT.json` list line
by line:

* *stale copies*: a request reads a job, provisions for minutes, and saves the
  job; a pass lists everything first and saves at the end;
* *overtaking*: a cancellation or completion arrives while the job is still
  being assigned, or before it;
* *redelivery*: GitHub repeats deliveries, the marker of a failed one is
  deleted, the marker of a crashed one is not;
* *partial failure*: every call may fail, those of the cleanup too, and the
  client may hang up, which cancels the context of most calls;
* *crash*: requests, pass and pool usage are lost, records and instances stay;
* *three separate lists*: a pass sees jobs, runners and leases of three
  different moments.

What makes each part correct: a job's outcome is final (manager, repository); one
instance per job (controller); a terminated record means a released instance
(assignment cleanup, `finish`, reaper); an acknowledged `finish` has closed
everything; an assigned job has a lease and a registered runner; the pool counts
what it stands for; every request, every job and every recorded runner ends.

## 2. The modules

`PlatformState` is what the others share; `WorkflowHandler` and `Reconciler` are
the two components that act on it; `RunnerPlatform` composes them into the
process, adds crashes and the environment, and states the properties.

| module | models | state | actions |
|---|---|---|---|
| `PlatformState` | `state.Repository`, the provider, the pool counter, time | `jobs`, `runners`, `leases` (tables of records with a revision, 0 = no record), `markers` (lifecycle events of deliveries, by their `OccurredAt`), `registration`, `instances` (provider truth), `used`, `expired`, `faults` | helpers for conditional saves, `TerminateInstance`, `ReleasePool`; `TerminationCompletes`, `InstanceLost`, `Expire` |
| `WorkflowHandler` | `HandleWorkflowJob`, `finish`, `Assign`, `Schedule`, `Reserve`, `Transition` | `handler` (program counter and local copies of each request in flight), `reply`, `receipts`, `aborts` | one per call, named after the call; failing calls in `RepositoryCallFails`, `ProviderCallFails`, `CleanupCallFails`, `InsertFails`, `IgnoredCallFails` |
| `Reconciler` | `Reconcile`, `reapExpired`, `terminateRunner` | `pass` (phase, the three lists, what is left to visit, the record at hand) | one per call: lists, `ReadStatus`/`SaveStatus`, `RepairLease`, `ExpireJob`, `RepairJob`, `CleanTerminalJob`, `CleanOrphan`, `ReapExpired`, `MarkTerminating`, `Terminate`, `MarkTerminated` |
| `RunnerPlatform` | the process | the two components' | `Webhook`, `Reconcile`, `Environment`, `Crash` |
| `MCPlatform` | instances for TLC | | |
| `JobService` | what the platform promises of a job, seen from outside | `stage`, `lease`, `closed`, `instance` | `Accept`, `Advance`, `Launch`, `Stop`, `Grant`, `Close` |
| `ControllerIds` | the controller processes as owners | constants only | |
| `LeaseStore` | `coordination.Coordinator` over `MemoryStore`, one key | `clock`, `entry` (the store's), `held` (each controller's `Lease` value) | `Acquire`, `Renew`, `ReleaseLease`, `Tick` |
| `CapacityRegistry` | `capacity.Registry` with its pools and the ledger of its replicas | `usage`, `ledger`, `active` (owner and newest token), `replica`, `request` (what `Scheduler.Reserve` holds) | `Select`, `Reserve`, `ReleasePool`, `NewReplica`, `ReserveFenced`, `ReleaseFenced` |
| `CapacityFailover` | controllers that attach replicas with the tokens of their leases, as `capacity_test.go` does | the two components' | both components', `Attach` |
| `MCFailover` | its instance for TLC | | |
| `VersionedTable` | what a durable repository promises | `table` | `Change` (a save, or a deletion of what may be deleted), `TakeBack` |
| `FileRepository` | `state.FileRepository` | `mem`, `primary`, `backup` (the memory and the two files), `writer` (the holder of `r.mu`), `copy` (what clients have read), `acked` | `Load`, `Read`, `Save`, `InsertLifecycleEvent`, `DeleteLifecycleEvent`, `WriteBackup`, `WritePrimary`, `Acknowledge`, `WriteFails`, `Crash`, `Damage` |
| `MCFile` | its instance for TLC | | |
| `DynamoRepository` | `state/dynamodb.Repository` | `items` and `replica` (the table, and what the indexes show of it), `marker` and `copies` of an event, `op` (each client's operation), `late` (requests nobody waits for) | one per request: `Get`, `Create`, `Save`, `PutItem`, `PutRefused`, `Check`, `Insert`, `TransactInsert`, `Reread`, `Delete`, `TransactDelete`, `List`, `ReadPage`, `GiveUp`; external `Land`, `Propagate`, `FallDue`, `Expire` |
| `MCDynamo` | its instance for TLC | | |
| `EventBus` | `events.Bus` | `published`, `channel`, `lost`, `seen` of each subscription | `Publish`, `Subscribe`, `Receive`, `Unsubscribe`, `CloseBus` |
| `Dispatcher` | `extensions.Dispatcher` on the bus, handlers as `extensions/runtime` builds them | `dispatcher` (how far `Close` is), `alive` (goroutines), `offering`, `queue`, `busy`, `counters`, `reports`, `output` | `Start`, `TakeEvent`, `Offer`, `Work`, `Handle`, `Report`, `End`, `Close`, `Wait`, `Release` |
| `Archive` | `events/archive.Archive` | `files` (the file and its siblings), `archive`, `caller` and `place` (the step of `a.mu`'s holder, for whom it rotates, and the sibling it is at), `replay` | `Open`, `StartAppend`, `Shift`, `Reopen`, `Prune`, `RotateFails`, `WriteLine`, `Sync`, `CloseArchive`, `CrashArchive`, `ReplayBegins`, `ReplayReads`, `Age` |
| `MetricsExporter` | `prometheus.Exporter` and `observability.Collector` | `families` with their series, `labelValues`, `samples`, `dropped` | `Register`, `UpdateNew`, `UpdateSeries`, `Record` |
| `Advice` | `extensions/consumers` with their sink, `extensions/policy` | counters of the consumers, `summaries`, `outputs`, `decision` | `Observe`, `CountEvent`, `Summarize`, `Advise`, `Evaluate` |
| `MCEvents` | an instance of these five side by side | | |
| `Sums` | the total of a function with numbers as values, which five modules count with | | |
| `Provisioning` | the calls inside one assignment: `Client.doWithRetry`, both cloud adapters, the polls, the cleanup | `step`, `attempt` and `waited` of the retry, `vms` (the cloud's instances by client token), `sends`, `expired` | `PostJIT`, `Retry`, `RunInstances`, `Insert`, `Operation`, `RefuseInsert`, `WaitReady`, `Record`, `WaitForRegistration`, `TimeOut`, `Terminate`; external `Cloud`, `Deadline` |
| `Placement` | `capacity.Registry` with its administration, `policy.Select`, `Scheduler.Schedule` over several pools | `pools`, `reading` (an administrator's copy), `job` | `RegisterPool`, `GetPool`, `UpsertPool`, `RemovePool`, `SelectPool`, `ReservePool`, `ProvisionIn`, `MakeReady`, `FinishJob` |
| `RunnerListing` | `github.Client.ListRunners` under `RegistrationVerifier` | `listed` and `online` (GitHub's), `page`, `got` | `WaitForRunner`, `BeginListing`, `ReadPage`, `EndWait`; external `GitHubChanges` |
| `Cache` | `cache.Memory` and `cache.SummaryCollector` | `entries`, `user`, `summaries` | `Get`, `Put`, `Delete`, `InvalidateAll` (clock, lock and report are steps of their own) |
| `ObjectCache` | `cache/backends/s3.Backend` | `bucket`, `caller` | `PutObject`, `GetObject`, `DeleteObject`; external `PutConflicts`, `DamageObject` |
| `NetworkProfiles` | `network.FakeResolver` | `profiles`, `inUse`, `query`, `found` | `RegisterProfile`, `SetAvailable`, `SetDelay`, `BeginResolve`, `EndDelay`, `CancelResolve`, `FindProfile` |
| `Admission` | `github.ScopePolicy`, `runners.AssignmentPolicy`, the JIT adapter's checks, `security.Evaluate` | `scope`, `request`, `stage`, `verdict` | `Configure`, `Deliver`, `RequestDirectly`, `Approve`, `AskGitHub`, `EvaluateInputs` |
| `MCProvision` | an instance of these seven side by side | | |

Proofs are in modules of their own, which extend the modules they are about:
`RunnerPlatform_proofs` and `RunnerSafety_proofs` (the platform), `Failover_proofs`,
`File_proofs`, `Dynamo_proofs`, `Provision_proofs` (the components of
`MCProvision`), `Events_proofs` (the components of `MCEvents`) and `Sums_proofs` (lemmas on least elements and
totals).

How they hang together: `Provisioning` and `RunnerListing` open up what
`WorkflowHandler` takes as the single calls `GenerateJIT`, `Provision`, `WaitReady`,
`WaitForRegistration` and `Terminate`; `Admission` is what comes before its first
step; `Placement` and `CapacityRegistry` are its pool counter at full size;
`FileRepository` and `DynamoRepository` are two implementations of the revisions it
relies on, and `VersionedTable` is the promise both are shown to keep. `JobService` is
the promise of the whole: `RunnerPlatform` states in `ServiceSpec` that it implements it.

An action is one call with everything the code does up to the next call: local
assignments, early returns, the branch on the result. Conditional saves are
`CanSave` (the revision still matches, `SaveJob`, `SaveRunner` and `SaveLease`
alike) and `Advanced` (the caller's whole copy, one revision on).

Abstractions:

* Records keep their state, revision and the reference to job or runner. A job
  expires at a moment the environment chooses (`Expire`); its lease and its
  runner carry the same `ExpiresAt` and expire with it.
* An instance is identified with the runner ID the provider gives it.
  `Terminate` is accepted at once and completes later, as EC2 and Compute Engine
  do; the fake provider completes in the same call, which is the case where
  `TerminationCompletes` follows directly. The fake's `WaitReady` also succeeds
  on a terminated instance, where the cloud adapters fail; the model takes the
  adapters' outcome.
* Removing the GitHub runner in `cleanup` has no state; its failure is the
  provider fault of `CleanupFaults("clTerminated")`.
* A map of the reconciler is visited in any order; the status phase of the code
  sorts its keys, so the model has more orders there than the code.
* The context of a pass ends after one interval (`main.go`): from then on every
  call fails, which the model covers by single failing calls, up to `MaxFaults`.
  The listing of the jobs failing leaves no trace and is a step not taken.
* A process that is stopped by a signal is a crash: `main` returns as soon as
  `ListenAndServe` does, whatever requests are in flight.
* Telemetry is omitted; no call depends on its result.
* With one job per `CreateJob`, `ErrAssignmentInProgress` cannot occur.

## 3. The runs

| run | instance | question |
|---|---|---|
| `webhook` | 1 job, 2 runners, 2 requests at a time, 4 deliveries of queued, in_progress and success at 2 instants, 1 failing call, 1 client gone | is everything a request promises kept when requests interleave, fail and are retried |
| `reconcile` | 1 job, queued and cancelled, the loop, 1 failing call on either side, lost instance or crash | the same with the loop, expiry and restart; does the platform implement `JobService` |
| `liveness` | 1 job, queued, the loop, 2 failing calls or crashes, 1 client gone; fair | does every request and every job end, and every recorded runner go |
| `pool` | 2 jobs, 1 place, 5 receipts of queued, queued and cancelled, 1 lost instance, `Schedule` instead of `Assign` | is the counter exact and the limit kept |
| `failover` | 2 controllers, leases of 1 or 2 ticks up to tick 4, 2 reservations, 2 requests, 2 pools; leases expire | does failover keep one holder, the limits and every place |
| `file` | 2 clients, 2 records and a lifecycle event, 3 changes, 3 faults: failing writes, crashes, lost or damaged primaries | do acknowledged changes survive, and do the files implement `VersionedTable` |
| `dynamo` | 2 clients, 2 records, pages of 1, 3 saves, 1 lost answer or deadline, 1 expiry; or 2 clients and an event of 2 aggregates at 2 instants | does the table implement `VersionedTable`, are answers true, is an event whole and inserted once, does a listing name what has settled |
| `events` | bus of 2 places with a plain subscriber, or with the dispatcher, 2 extensions (one faulty), queues of 1, 3 events; archive of 3 files of 2 lines, 5 events, 3 faults; exporter of 3 series, 4 updates; 2 events for 4 consumers; outputs of up to 3 actions and 2 annotations, with a line number of two digits | is nothing lost unaccounted for, and nothing kept that a limit forbids |
| `provision` | both clouds, both paths, 4 HTTP attempts, 2 resends, 4 faults; 3 pools, 2 jobs, 4 writes; 4 runners, pages of 2; 2 cache scopes and keys, 3 operations; 2 object digests, 3 calls; 2 network profiles; 5 shapes of repository name | does a job get one instance and no other, a place that exists, and the access it asked for |

and the runs whose property is violated, each one a finding of `PROJECT.json`:

| run | what the trace shows |
|---|---|
| `double_release` | the cancelled and the completed delivery of a job both return its capacity |
| `stale_orphan` | a job recorded between two lists loses its runner as an orphan |
| `untagged_instance` | an instance provisioned by `Assign` carries none of the tags that name its job or its expiry |

In the failover run deadlock is checked, the clock stops at `MaxTime` (a lease
can be granted, expire and be granted to the other controller, and renewed, in
four ticks), and controllers, reservations and requests are symmetric. The small
pool limits runners and CPUs, the other only CPUs, so that `fits` refuses for
either reason. `FencingHolds` and `failover` need `Releasing = FALSE`: `Release`
deletes the entry and with it the last token, so the next grant starts again from 1,
below the token the registry has seen (a hazard of `PROJECT.json`; the failover of
the code's tests lets leases expire).

`FileRepository` is a component of its own: the platform's `jobs`, `runners` and
`leases` are what it implements. The holder of `r.mu` is one `writer` that stops
after the change in memory, after the backup, after the rename and after the last
sync; a read may come in between, a crash too, and each write may fail. A failing
sync of the backup's directory is `WriteBackup` followed by `WriteFails`. A rename
is durable for a process that dies; a machine that loses a rename it has not
synced is the state before the rename, which a crash reaches as well. Three changes
and three faults let a change fail, its successor be cut off, and the recovery
from a damaged primary be cut off as well. The process ends when `load` fails on
an unreadable state, so the run does not check deadlock. The fault `"sync"`, a
directory sync failing after the rename, is in the model and in no run: the change
stays on disk while the memory takes it back, which the properties exclude and the
code accepts (a hazard of `PROJECT.json`).

In the `dynamo` run records and events take turns, as they share no item of the
table, and one listing runs at a time, since a listing changes nothing that another
operation sees. One fault is enough for every overlap of an answer that is lost with
one other operation; a request that was given up lands at any later moment, except
that the hours between `expires_at` and the deletion by TTL outlast a save and its second
read (`Expire`). What a caller has read, it may hold for longer: its save is then answered
`ErrNotFound`. A second read that fails makes the answer a conflict, as in the code.
What the answers tell a caller is taken against the table, what a listing tells is
taken only of records that no operation has touched since the listing began.

`MCEvents` and `MCProvision` put components into one run that share no state: each
moves only while the others have not begun, so the run has the sum of their states
and not the product. In `MCEvents` the bus is either followed by a plain subscriber or
by the dispatcher; events are told apart by the order of their first publication. The
archive moves, removes and creates one file at a step, any of which may fail (`RotateFails`)
or be the last one of the process (`CrashArchive`), so that gaps among the siblings and
rotations begun again are reached; `RotateFails` goes by the name "rename" in the constants.
The archive's fault that leaves a torn line in the middle of a file that is still written
is in the model (`"torn"`) and in no run: `Replay` then fails on that file for good. `main.go` opens its archive with rotation
switched off and builds the extensions without sinks; the model has both on, as their
own packages and tests do.

In `MCProvision` the waits of the retry are numbers up to `MaxInt` = 7, the greatest
duration that fits, so that doubling past it shows what an overflow of `time.Duration`
does. `Placement` gives pools of two owners three limits (1, 2, none) and lets an administrator
change them between any two calls of `Schedule`. `policy.Select` is given the list of its
pools by its caller, with a flag on each that says whether it is available; the property
`ChoicesAgree` is about flags that say what the registry says, and for a mode nobody knows it
says that the policy takes no pool where the registry takes one if there is one. `RunnerListing` has twice as many
runners as fit on a page, so that a runner that leaves shifts the others across a page
boundary. Inputs of `Admission` are repository names of one, two and three parts, in
either case, with a blank part, with blanks around the whole name and around a part, and with
a backslash; the runner-group check, which `main.go` always satisfies, is left out.
`ObjectCache` has the conflict S3 may answer while another call on the key is under way, which
`Put` takes for an object that is there: `ErrImmutable` is then true of no content. `NetworkProfiles` and `security.Evaluate` are packages that no
code of the process calls yet; they are checked for what they promise.

None of the runs but `failover`, `reconcile` and `liveness` checks deadlock: their
operations are bounded in number, and the system stops when they are used up.

Fairness beyond the platform's: the dispatcher's goroutines run, its handlers return
and a closed bus is drained (`DispatcherFairness`: Go schedules goroutines, each
handler has a timeout); a provisioning attempt takes its next step or its deadline
passes (`ProvisionFairness`: every call has a context with a timeout,
`operationContext`); the verifier goes on with its listing (`ListingFairness`: a poll is
an HTTP request with a timeout). Clouds, GitHub and clients are given none, but that a
deadline passes. `OnlineIsSeen` assumes that the runner it waits for stays online in
the end (`<>[](Expected \in online /\ verifier # "idle")`), and allows the verifier to
have given up before; one listing may miss the runner, since the pages shift when
another one leaves.

Bounds, all named constants. `MaxReceipts` bounds the requests: each hazard
needs one request per delivery and one redelivery. Two requests at a time give
every pairwise interleaving; the deliveries of one job are serialised by the
records of that job, so a third adds no new pair. `MaxFaults` (failing calls,
lost instances and crashes) and `MaxAborts` are one where safety is checked, as
each hazard is about one failure and its consequences; the liveness run has two,
so that the recovery fails as well. Two instants distinguish a repeated
`OccurredAt` from another one. One job is enough wherever the property is about
the records of one job (records of different jobs share nothing but the pool);
the pool runs have two. The number of passes is not bounded. Runs without the
reconciler stop when all receipts are used up, so deadlock is checked only in
those with it. Requests and runners are symmetric; the liveness runs use no
symmetry.

Fairness (`FairSpec`): goroutines are scheduled and their calls return, with an
error at the latest when the context ends (`HandlerRuns`); the ticker fires and a
pass is worked off (`PassRuns`); the cloud completes accepted terminations; time
passes. A delivery, a fault, a departing client and a crash are never assumed.

## 4. The proofs

`RunnerPlatform_proofs` proves `Spec => []TypeOK`. The invariant is inductive
because it includes what makes the steps well typed: an existing lease names a
runner (`LeaseRecords`), a request that works has a delivery, and one past
`Provision` or `GetLease` has a runner (`HandlerTypeOK`). Each operator that
changes a part of the state (`Goto`, `Return`, `WriteRunner`, `Transition`,
`Visited`, ...) has a lemma that says it keeps the type, and each action follows
from these.

It also proves that a job's outcome is final (`TerminalStable`), for
any number of jobs, runners, requests, faults, aborts and crashes. `TerminalStable`
alone is not inductive: `failJob`, `ExpireJob` and `Transition` check the state of
a *copy*. The strengthening is `CopiesMatchRevisions`: a copy in a request or a
pass is never ahead of the record, and one that still has the record's revision
*is* the record; and a request between the transition to provisioning and its end
holds a copy in that state. The proof has two halves: what every step does to the
records (`JobsProgress`: kept, or one revision on and an ended job in the same
state) and what it does to the copies (`RequestEffect`, `PassEffect`: kept,
dropped, or set to the new record); `ProgressKeepsCopies` combines them. From
`CopiesMatchRevisions` a save that succeeds starts from the record as it is, so
`validTransition` and the terminal check hold of the record.

`RunnerSafety_proofs` proves the platform's safety properties, all from one inductive
invariant, `SafetyInv`. None of them is inductive by itself, and no two of them are
together: each rests on who is responsible for what between two calls. The invariant says
what a request knows at each place of its program (`RequestOK`: past `Provision` it has an
instance of its job's; past `CreateRunner` a record; past `Terminate` an instance that is
gone or going; a finish past `GetLease` holds the lease's runner), that one request per job
is between `CreateJob` and `CreateLease` (`OneAssigner`), that the tables agree
(`TablesOK`: a record is of an instance, a lease of a record, an instance of a recorded
job), and that no copy a pass holds is ahead of its table, nor is a runner that the pass
is about to record as terminated alive (`PassOK`). TLC checked it on the `webhook` and
`reconcile` instances before it was proved. The proof is by tables, not by actions: every
step evolves the tables as `TablesEvolve` says (a record keeps its owner and its revision
grows, an instance that is gone stays gone, a job becomes assigned only while it has a
lease); the actions that a property could fear are those lemmas; and from `TablesEvolve`
each part of the invariant is kept for the requests and the pass that did not move. The
one that moved has a lemma per call.

The same module proves the pool's counter (`PoolHolds`). It is no property of `Spec` for all
constants: a second final delivery, a crash, a failing call of the repository or the reconciler
breaks it (see the hazards). The theorem therefore assumes `PoolUndisturbed`: no reconciler, no
aborted request, no fault but those of the cloud's instances and, without JIT, of the provider's
calls, and one final delivery per job. The constants of the run `pool` meet it; `double_release`
drops its last part and finds a place returned twice. Under it a place has one holder at a time:
the request that reserved it, the lease that request creates, the request that ends the job
(`Places`, `Counted`). That none of the three is repeated or skipped is the rest of `PoolInv`: a
request knows the revisions it saves with, so that its saves succeed (`Knows`); no two requests
work on one delivery, and no two assign one runner (`Apart`); and a runner that has been
ended is not ended again, since its delivery is marked as handled (`EndedOnce`).

Its last section is the refinement. `JobService` has one step for each thing that can be seen of
a job: it is accepted, goes on along `Way`, gets its instance and its lease, and either ends. It
says more than the invariants together, as it speaks of steps: stages are never taken back
though the saves come from old copies, a lease is granted once and stays closed, an instance
that was stopped does not come back, and a launch needs a job that is known to be in the
making. And each step writes one entry of one table, which is what a crash between any
two calls leaves whole. `Stop` and `Close` ask for little on purpose: the cloud may lose any
instance, and a pass may reap, from copies it listed earlier, a lease whose job still runs.
`ServiceInv` adds to `SafetyInv` what the abstract guards ask (the stages are those of `Stages`, an
unused instance has no job, a request past the transition to provisioning has a job that
has begun); `OneWritten` says which one table a step writes, from `TablesEvolve`; and
`JobServed`, `LeaseServed` and `InstanceServed` give the abstract step for each. `TerminalStable`
is a consequence, so no run checks it by itself; and saves that do not compare the revision
break the refinement in the run `reconcile`.

`Failover_proofs` is about leases and the ledger. `OneHolder` is inductive with
"a copy that still runs is the store's entry" (`LeaseInv`): a grant is made only
when no copy runs, and only the copy that is the entry is renewed or released.
`FencingHolds` (`TokensFence` and `HolderIsActive`) adds that no token, of a
copy, a replica or the active one, exceeds the entry's, and that one equal to the
entry's belongs to its owner (`TokenInv`); `Release` breaks exactly the first
part, hence the assumption `~Releasing`. `LimitsHold` needs only the types: who
consumes a place has seen that it fits in the same critical section
(`ConsumeWithinLimits`). `CapacityHolds` relates the pools to the ledger: what a pool
counts is the sum over its reservations, and a step changes one of them.

`Sums_proofs` is what every proof about a sum uses. `Total(f)` is a fold over the domain of
`f`, by recursion over sets, and no induction principle with an operator parameter can be
instantiated; so the lemmas argue by a minimal counterexample (`LeastNatural`, an instance of
well-foundedness with sets only): the sums of the subsets of a finite set exist
(`SumsExist`), do not depend on which element is taken first (`AnyFirst`), and the total
changes by the difference where the function changes (`TotalWithOneMore`,
`TotalWithOneChanged`).

`File_proofs` is about the file repository when no directory sync fails after a
rename. `FileInv` ties memory, files and acknowledged snapshot together at each
place of the writer: a client's change is one save or one deletion away from the snapshot it
started from, which is in the primary until the rename and in the backup after
the first write (`ChangeInv`); during a recovery memory, backup and acknowledged
snapshot are one (`RecoveryInv`); the backup is the primary or one change behind it
(`BackupInv`). From it `AcknowledgedHolds` follows in each state, and
`FileImplementsTable` step by step: the rename of a client's change is the one
step that shows (`RenameIsOneChange`), the rest stutters, and a damage takes back
one change (`DamageTakesBackOneChange`). Lifecycle events are the records that may be deleted.

`Dynamo_proofs` is about the table, for any number of clients, records, resends and
requests that land after their caller has given up. Types come first (`TypeInv`: the
revision a save writes is one on from the one it was based on, `Made`). For what an
answer says, each save carries a number of its own, and the invariant relates the
numbers of requests that are under way, late or written (`WriteInv`): they differ; where
a request that was written is under way once more, the table has moved past what it is
based on; and a client that still waits for it has sent it again. From there
`AnswersHold` is one step. `TableIsVersioned` maps every step
to a save, a deletion (an expiry) or a stutter of `VersionedTable`, which takes nothing back
(`KeepingSpec`); the steps that touch the table
are those that put an item, and an item is put only under its condition. For events,
one operation at most may take the event back or is about to learn that it is its own,
counting those nobody waits for, and only while the marker is there (`EventInv`);
`InsertedOnceHolds` is its last part.
A listing is proved of the records that stay as they were (`Still`): a number is written
once, so a record that is what it was when the listing began has not changed in between,
and the index, which had it, has it still. `ListInv` then says how far the listing is: such
a record has been found under the one partition it is in if and only if its key has been
passed there (`FoundAsPassed`). A page moves that mark because it is all that lies before
its last key (`FullPage`) or all there is (`ShortPage`). `DynamoAssumption` says that a call
names a state once and at least one: a state named twice would be queried and listed twice
(`repository.go:622`), where the memory repository lists it once; no caller does that.

`Events_proofs` has six parts. For the archive, `FilesInv` gives every line the turn it
was born in, a number of rotations: the file at path has all lines of this turn, the
siblings only older ones, those beyond the first by two turns; and a line that is in no file
is two turns old or went with a file that was removed for its age. It is stated of any files and
any turn, and each file operation of a rotation keeps it by itself: a turn that begins
(`TurnKeeps`), a sibling removed, moved or aged (`RemoveKeeps`, `MoveKeeps`, `AgedKeeps`), a
file created (`NewFileKeeps`). The turn counts from the moment a rotation begins, so that one
which fails half-way counts too: until the file at path is moved, no line is of the new turn
and no sibling has one of the turn before (`TurnedBack`), which is why a sibling may go on to the
next place, or be removed, whatever an earlier attempt has left where. `KeptHolds` and `ReplayHolds` assume that no write is torn
(`"torn" \notin FailureKinds`): the line after a torn one is glued to it, so an event
acknowledged afterwards cannot be read, which the runs leave out as well.
For the bus, `BusInv` is `SubscriberMissesOnlyLost` with the types, that no event is
published twice, and that a subscription that has not begun has nothing; sequences of
events are in order when their parts are and one comes before the other (`OrderOfParts`),
and what is in order stays so when a fresh event is appended (`OrderStays`). For the
dispatcher, `QuietInv` says that a handler that runs has its goroutine and that nothing is
released while one is left. `FlowInv` is the way of an event (`Way`: handled, in hand,
queued, offered, still in the channel), on which every action only moves a seam
(`HeadMoves`, `EndMoves`), takes an event out (`WayWithout`) or adds one (`WayGrows`); the
tallies count its pieces, the outputs are a part of what was handled, which is why what is
handled next comes after all of them (`WayToOutput`), and the reports are the total of
the executions.

For the consumers, `ConsumersInv` has three parts: every counter but for the event at hand,
which the base and the consumer count under two locks (`CountersInv`), what the shared sink has of each consumer or gave up (`SinkInv`), and, for
analytics, that the number in each record is the turn of its event (`TurnsInv`). The
sequences are counted by sets of turns, so that a record more is one turn more
(`TurnsGrow`). For the exporter, `MetricKept` says of one metric that its family, the label values
admitted for it and the updates accepted for it tell the same story; an update of a series that
exists, one that makes a series, and a family just made keep it (`ExistingKept`, `NewKept`,
`NewFamilyKept`), by what one update does to a total: a gauge starts afresh at the last update
that set it (`LastSet`), and of the buckets the one that takes an amount is in the lines of
all bounds from the amount on (`GatheredGrows`). `MetricChanges` puts one metric among
the others and counts its series.

For the policy (`AcceptedHolds`), the sort is specified by what it does, `Sorted`: the items
taken by a permutation under which each comes before the next or is as good as it, and first in the
list if it is. Keys are compared as the code joins them, line numbers as text, so that 10
comes before 2; `OrderAssumption` says that equal keys are equal items and that cleaning once
is enough, `OutputsAssumption` gives the outputs their types. That there is such a permutation
is counted, not constructed: the place of an item is the number of those that come before it
(`ArrangementExists`). The loop that drops repetitions is a fold of the library over the list,
and is spoken of by prefixes: each item is kept the first time it is met (`KeptByPlace`,
`KeptExists`). So a normal form has the cleaned items once each and strictly in order
(`NormalForm`), two such lists of the same items are the same (`IncreasingAgree`), and to
normalise again changes nothing (`NormalizedAgain`), nor does it bring an output
over a limit it was within (`AcceptedAgain`).

`Provision_proofs` has one section for each component of `MCProvision`, with a
specification of the component alone. `AttemptInv`: all tokens but one have no instance,
a step that waits has one, and one that records found it running; client tokens that
depend on how often a request was sent would break the first part. `PlaceInv`: the
usage of a pool is the number of its holders, of which a release needs that the one who
releases is counted; so a pool written under its holders is left out (`stale`) until
nobody holds a place in it. `ObjectInv`: what is in the bucket now is among what a call
under way has seen. `NetworkInv`: profiles are as they were offered, and a lookup asks
for a requirement. `AdmissionInv`: what the gates behind a request have found of it. `CacheInv`: the number
of a `Put` is in one place at most, its call, an entry or the removed ones, and what had been
removed when a call began stays removed. `SummariesInv`: the hits of a scope are its restores
and the restores users have still to report, unless the collector has no room for the scope,
and the total over the scopes is what was emitted but for the unknown ones.

`BackoffInv`: an operation that waits has a policy `IsPolicy` describes and a round that the policy
allows. The delay is defined by recursion over the rounds, of which no induction theorem
can speak here; `DelayIsPower` shows that it has one solution by the least round two
solutions would differ in, and `Sums_proofs` counts powers of two as sets of subsets
(`PowerDoubles`), so that doubling and cutting at every round is cutting once in the end
(`DoubledIsCut`). `OwnersInv` and `FitFor`: both ways of choosing look at the pools that fit, by
the owners in the order the request prefers; each finds one exactly when there is one
(`EligibleFits`, `ChosenFits`), and then among the first owners that have one.

Of the listing the safety part of `OnlineIsSeen` is proved, `StillListingFinds`: from any moment
between two listings, as long as GitHub's list stays as it is with the awaited runner in it and
connected, no listing sends the verifier back to wait: unless a call fails or the deadline passes first, the
runner is found, whatever the size of a page and on whatever page it is. `StillInv` says that the pages read were full and that what they held is
the list up to there; the page that is not full then ends where the list ends (`PageIsNext`). The
hypothesis is `StillSpec`, in the proof module, since without it a listing may miss the runner.

Only model-checked is liveness: `EveryRequestEnds`, `EveryJobEnds`, `RecordedRunnerIsReleased`,
`ClosedBusDrains`, `AttemptEnds` and `OnlineIsSeen`. Each rests on fairness, and so on
`ENABLED` of actions, which the provers cannot reason about. Every safety invariant, action
property and refinement a passing run checks is a theorem as well.
And `PoolHolds` is proved under its hypothesis only; that the counter goes wrong without it is
what the run `double_release` shows on one instance.

The assumptions are those of the modules (`ConstantsAssumption`,
`HandlerAssumption`, `PlatformAssumption`, `ControllersAssumption`, `LeaseAssumption`,
`CapacityAssumption`, `FileAssumption`, `DynamoAssumption`, `ProvisioningAssumption`,
`PlacementAssumption`, `ObjectCacheAssumption`, `NetworkAssumption`, `AdmissionAssumption`,
`CacheAssumption`, `BusAssumption`, `DispatcherAssumption`, `ArchiveAssumption`, `AdviceAssumption`,
`OrderAssumption`, `OutputsAssumption`, `ExporterAssumption`, `ListingAssumption`): types of
the constants, that values which stand for "nothing" are none of the others (no job is
called `"none"`, no extension `"dispatch"` or `"reports"`, which name the dispatcher's own
goroutines; a torn line is no event, a missing file no file), and that the extensions,
reservations and scopes that are summed over are finitely many. No bound is used but as
a natural number. Liveness stays with TLC.

## 5. Not modelled, and the plan

`PROJECT.json` lists every part with its status. The model is as wide as it is meant to get; what is left is proof, in this order:

1. `PoolHolds` under weaker hypotheses: a lost call of the repository before `CreateLease`
   keeps a place for good, so the counter would be bounded from below only.
2. Liveness, once the provers can reason about `ENABLED`: the safety parts it rests on are
   there (`CopiesMatchRevisions` for the saves of a pass, `StillListingFinds` for the poll).

Not modelled, and why:

* Configuration (`config`), request building and response parsing of the cloud and
  GitHub APIs, the signature of a webhook: input validation without state.
* Intelligence, the cost estimate of the extensions, `domain.Transition`: arithmetic
  or a table that nothing else depends on (`domain.Transition` has no caller).
* Rendering: the Prometheus text, the CloudWatch format, the logger, the encoding of
  telemetry and of archive lines.
* Scripts, images, Terraform and Kubernetes files, the validation tools: they are
  not part of the process.
* Eventual consistency of the clouds' own reads. `Terminate` of the EC2 adapter takes
  a `NotFound` for success (`aws/provider.go:304`); the model assumes that an instance
  `RunInstances` has returned is found.
* `ListLifecycleEvents`, `List`, `Evidence` and other reads without a caller that acts
  on what they return.

----------------------------- MODULE Provisioning -----------------------------
(***************************************************************************)
(* One provisioning attempt, inside the calls that WorkflowHandler takes    *)
(* for single steps: the HTTP attempts of the GitHub client, the requests   *)
(* of the EC2 and the Compute Engine adapter, the polls of WaitReady and    *)
(* WaitForRegistration, and the cleanup.  It is started by                  *)
(* runners.Service.Assign, or by scheduler.Scheduler.Schedule.              *)
(***************************************************************************)
EXTENDS Integers, FiniteSets

CONSTANTS
  Clouds,        \* of "ec2", "gce"
  Paths,         \* of "assign", "schedule"
  MaxAttempts,   \* RetryConfig.MaxAttempts
  Policies,      \* RetryConfig: records of initial and max, normalized
  MaxInt,        \* the largest time.Duration
  NoHeader, RetryAfters,   \* Retry-After: absent, or of these delays
  Resends,       \* times the SDK sends a request again
  MaxFailures    \* bound: failures of any kind

ASSUME ProvisioningAssumption ==
  /\ Clouds \subseteq {"ec2", "gce"} /\ Paths \subseteq {"assign", "schedule"}
  /\ {MaxAttempts, MaxInt} \subseteq Nat \ {0} /\ {Resends, MaxFailures} \subseteq Nat
  /\ RetryAfters \subseteq Nat /\ NoHeader \notin Nat
  /\ \A p \in Policies : {p.initial, p.max} \subseteq 1 .. MaxInt /\ p.initial <= p.max

VARIABLES
  call,          \* [cloud, path, policy]: what is called, chosen when it starts
  step,          \* where it is
  attempt,       \* the HTTP attempt doWithRetry is at
  waited,        \* its latest Sleep: after which attempt, which header, how long
  registration,  \* the runner of this name at GitHub: "none", "offline", "online"
  vms,           \* [tokens -> the instance the cloud made for it]
  sends,         \* times the request for an instance was sent
  reported,      \* Provision has returned the instance
  expired,       \* the deadline of the call that runs, or its caller's, has passed
  died,          \* the cloud took the instance away
  left,          \* Terminate has failed
  result,        \* "none", "assigned", "failed"
  failures

provisionVars == <<call, step, attempt, waited, registration, vms, sends, reported,
                   expired, died, left, result, failures>>

Tokens == 1 .. 1 + Resends
NoWait == [after |-> 0, header |-> NoHeader, delay |-> 0]

Uncalled == [cloud |-> "none", path |-> "none", policy |-> "none"]

ProvisionInit ==
  /\ call = Uncalled /\ step = "idle"
  /\ attempt = 1 /\ waited = NoWait
  /\ registration = "none"
  /\ vms = [t \in Tokens |-> "none"]
  /\ sends = 0 /\ reported = FALSE /\ expired = FALSE
  /\ died = FALSE /\ left = FALSE
  /\ result = "none" /\ failures = 0

(* Assign or Schedule is called. *)
Begin ==
  /\ step = "idle"
  /\ call' \in [cloud : Clouds, path : Paths, policy : Policies]
  /\ step' = IF call'.path = "assign" THEN "jit" ELSE "provision"
  /\ UNCHANGED <<attempt, waited, registration, vms, sends, reported, expired, died, left,
                 result, failures>>

Fault == failures < MaxFailures /\ failures' = failures + 1
NoFault == UNCHANGED failures

Fail == step' = "end" /\ result' = "failed"

-----------------------------------------------------------------------------
Least(m, n) == IF m <= n THEN m ELSE n

(* int64 arithmetic. *)
Wrap(n) == IF n > MaxInt THEN n - 2 * (MaxInt + 1) ELSE n

(* Mutant: the delay is doubled first and cut afterwards. *)
DoubledAndCut(p, d) == IF d >= p.max THEN d ELSE Least(Wrap(2 * d), p.max)

(* One round of the loop of exponentialDelay. *)
Doubled(p, d) ==
  IF d >= p.max THEN d ELSE IF d > p.max \div 2 THEN p.max ELSE Wrap(2 * d)

ExponentialDelay(p, n) ==
  LET delay[i \in 1 .. n] == IF i = 1 THEN p.initial ELSE Doubled(p, delay[i - 1])
  IN Least(delay[n], p.max)

(* retryDelay: Retry-After counts for 429 and 503, up to MaxDelay. *)
RetryDelay(p, n, header) ==
  IF header = NoHeader THEN ExponentialDelay(p, n) ELSE Least(header, p.max)

(* doWithRetry, after an error of the transport or a retryable status.  *)
Retry(header) ==
  IF attempt = MaxAttempts
  THEN Fail /\ UNCHANGED <<attempt, waited>>
  ELSE /\ attempt' = attempt + 1
       /\ waited' = [after |-> attempt, header |-> header,
                     delay |-> RetryDelay(call.policy, attempt, header)]
       /\ UNCHANGED <<step, result>>

(* GenerateJITConfig: the POST reaches GitHub or not, and the answer comes     *)
(* back or not.  A name that is registered already is refused with 409, which *)
(* is not retried; Assign returns, and the registration stays.               *)
PostJIT ==
  /\ step = "jit" /\ ~expired
  /\ \/ /\ registration = "none" /\ registration' = "offline"
        /\ step' = "provision" /\ NoFault
        /\ UNCHANGED <<attempt, waited, result>>
     \/ /\ registration # "none" /\ Fail /\ NoFault
        /\ UNCHANGED <<attempt, waited, registration>>
     \/ /\ Fault /\ registration' \in {registration, "offline"}
        /\ \E header \in RetryAfters \cup {NoHeader} : Retry(header)
     \/ /\ Fault /\ Fail /\ UNCHANGED <<attempt, waited, registration>>
  /\ UNCHANGED <<call, vms, sends, reported, expired, died, left>>

-----------------------------------------------------------------------------
(* The RunnerSpec of HandleEvent, by the keys of its Metadata. *)
RequestSpec ==
  [metadata |-> {"job_id", "repository", "workflow", "run_id", "owner", "created_at",
                 "expires_at", "github_runner_name", "provider_attempt_key"}]

(* cloneSpec gives its own argument a new Metadata, and then copies what that *)
(* argument's Metadata has.                                                  *)
CloneSpec(spec) ==
  LET made == [spec EXCEPT !.metadata = {}]
  IN [made EXCEPT !.metadata = @ \cup made.metadata]

(* What Assign adds to its clone. *)
JITMetadata ==
  {"github_jit_config", "github_runner_id", "github_runner_name", "github_repository"}

(* The Metadata Provision is given: by Assign, and by Schedule. *)
Metadata ==
  IF call.path = "assign" THEN CloneSpec(RequestSpec).metadata \cup JITMetadata
                          ELSE RequestSpec.metadata

Keyed == "provider_attempt_key" \in Metadata

(* tags of the EC2 adapter, by the key of the Metadata they are made of. *)
Tags ==
  {"managed_by", "runner_id"} \cup
  (Metadata \cap {"job_id", "owner", "repository", "run_id", "workflow", "created_at",
                  "expires_at"})

(* Mutant: every request has a token of its own. *)
FreshToken == IF step = "provision" THEN sends + 1 ELSE sends

(* ClientToken and RequestId are made of the attempt key, or by the SDK for    *)
(* the call: the same for every time the request is sent.                    *)
Token == 1

Created == [vms EXCEPT ![Token] = IF @ = "none" THEN "pending" ELSE @]

(* The Compute Engine adapter refuses a request without the key. *)
RefuseInsert ==
  /\ step = "provision" /\ call.cloud = "gce" /\ ~Keyed
  /\ Fail
  /\ UNCHANGED <<call, attempt, waited, registration, vms, sends, reported, expired,
                 died, left, failures>>

(* The request is sent, once, or again by the SDK when the answer is lost. *)
Send(answered) ==
  /\ step = "provision" /\ ~expired
  /\ sends' = sends + 1
  /\ \/ /\ vms' = Created /\ NoFault
        /\ step' = answered /\ reported' = (answered = "wait")
        /\ UNCHANGED result
     \/ /\ Fault /\ vms' \in {vms, Created}
        /\ IF sends < Resends THEN UNCHANGED <<step, result>> ELSE Fail
        /\ UNCHANGED reported
  /\ UNCHANGED <<call, attempt, waited, registration, expired, died, left>>

(* The answer of EC2 names the instance; that of Compute Engine an operation. *)
RunInstances == call.cloud = "ec2" /\ Send("wait")
Insert == call.cloud = "gce" /\ Keyed /\ Send("operation")

(* op.Wait of a Compute Engine insert. *)
Operation ==
  /\ step = "operation" /\ ~expired
  /\ \/ step' = "wait" /\ reported' = TRUE /\ NoFault /\ UNCHANGED result
     \/ Fault /\ Fail /\ UNCHANGED reported
  /\ UNCHANGED <<call, attempt, waited, registration, vms, sends, expired, died, left>>

-----------------------------------------------------------------------------
(* Provider.Status, by what has become of the instance.  To EC2 a stopped      *)
(* instance has failed; Compute Engine calls it TERMINATED, and no longer    *)
(* finds one that is gone.                                                   *)
EC2Status ==
  [pending |-> "provisioning", running |-> "ready", ending |-> "terminating",
   stopped |-> "failed", gone |-> "terminated"]
GCEStatus ==
  [pending |-> "provisioning", running |-> "ready", ending |-> "terminating",
   stopped |-> "terminated", gone |-> "missing"]

Status(t) == IF call.cloud = "ec2" THEN EC2Status[vms[t]] ELSE GCEStatus[vms[t]]

IsReady(t) == Status(t) = "ready"

(* Mutant: an instance that does not become ready is left to the reaper. *)
GiveUpWaiting == Fail

(* The error paths of Assign and Schedule after Provision. *)
GiveUp == step' = "cleanup" /\ UNCHANGED result

(* WaitReady, poll by poll. *)
WaitReady ==
  /\ step = "wait" /\ ~expired
  /\ \/ IsReady(Token) /\ step' = "record" /\ NoFault /\ UNCHANGED result
     \/ Status(Token) \notin {"ready", "provisioning"} /\ GiveUp /\ NoFault
     \/ Fault /\ GiveUp
  /\ UNCHANGED <<call, attempt, waited, registration, vms, sends, reported, expired, died, left>>

(* CreateRunner, GetRunner and the pending event; Schedule ends with it. *)
Record ==
  /\ step = "record"
  /\ \/ /\ ~expired /\ NoFault
        /\ IF call.path = "assign" THEN step' = "register" /\ UNCHANGED result
                                   ELSE step' = "end" /\ result' = "assigned"
     \/ expired /\ GiveUp /\ NoFault
     \/ Fault /\ GiveUp
  /\ UNCHANGED <<call, attempt, waited, registration, vms, sends, reported, expired, died, left>>

(* WaitForRegistration, poll by poll: every page of ListRunners, looking for  *)
(* the ID and the name; SaveRunner and the ready event.                      *)
WaitForRegistration ==
  /\ step = "register" /\ ~expired
  /\ \/ registration = "online" /\ step' = "end" /\ result' = "assigned" /\ NoFault
     \/ Fault /\ GiveUp
  /\ UNCHANGED <<call, attempt, waited, registration, vms, sends, reported, expired, died, left>>

(* Mutant: the polls go on until they are answered. *)
TimeOutOfCalls ==
  /\ expired /\ step \in {"jit", "provision", "operation"} /\ Fail
  /\ UNCHANGED <<call, attempt, waited, registration, vms, sends, reported, expired,
                 died, left, failures>>

(* The polls and the calls end when their deadline has passed. *)
TimeOut ==
  /\ expired
  /\ \/ step \in {"wait", "register"} /\ GiveUp
     \/ step \in {"jit", "provision", "operation"} /\ Fail
  /\ UNCHANGED <<call, attempt, waited, registration, vms, sends, reported, expired,
                 died, left, failures>>

Ended == [vms EXCEPT ![Token] = IF @ \in {"pending", "running", "stopped"} THEN "ending" ELSE @]

(* Terminate, under a context of its own.  An instance that is gone counts as *)
(* terminated; a failure may follow what was asked for, as in op.Wait of a   *)
(* delete.  The adapter to GitHub has no RemoveRunner to call.               *)
Terminate ==
  /\ step = "cleanup" /\ Fail
  /\ \/ vms' = Ended /\ NoFault /\ UNCHANGED left
     \/ Fault /\ left' = TRUE /\ vms' \in {vms, Ended}
  /\ UNCHANGED <<call, attempt, waited, registration, sends, reported, expired, died>>

-----------------------------------------------------------------------------
(* The clouds and GitHub: an instance starts, stops, is taken away; its runner *)
(* connects.                                                                 *)
Cloud ==
  /\ \E t \in Tokens :
       \/ /\ vms[t] = "pending" /\ vms' = [vms EXCEPT ![t] = "running"]
          /\ UNCHANGED <<died, registration, failures>>
       \/ /\ vms[t] = "ending" /\ vms' = [vms EXCEPT ![t] = "gone"]
          /\ UNCHANGED <<died, registration, failures>>
       \/ /\ vms[t] \in {"pending", "running"} /\ Fault
          /\ \E end \in {"stopped", "gone"} : vms' = [vms EXCEPT ![t] = end]
          /\ died' = TRUE
          /\ UNCHANGED registration
       \/ /\ vms[t] = "running" /\ registration = "offline" /\ registration' = "online"
          /\ UNCHANGED <<vms, died, failures>>
  /\ UNCHANGED <<call, step, attempt, waited, sends, reported, expired, left, result>>

Deadline ==
  /\ step \notin {"idle", "end"} /\ ~expired /\ expired' = TRUE
  /\ UNCHANGED <<call, step, attempt, waited, registration, vms, sends, reported, died,
                 left, result, failures>>

Client ==
  \/ PostJIT \/ RefuseInsert \/ RunInstances \/ Insert \/ Operation \/ WaitReady \/ Record
  \/ WaitForRegistration \/ TimeOut \/ Terminate

ProvisionStep == Begin \/ Client \/ Cloud \/ Deadline

(* The calls return, and every wait has a deadline: RetryConfig.MaxAttempts,   *)
(* OperationTimeout, ReadyTimeout, the timeout of the verifier.              *)
ProvisionFairness == WF_provisionVars(Client) /\ WF_provisionVars(Deadline)

-----------------------------------------------------------------------------
Live == {t \in Tokens : vms[t] \in {"pending", "running", "stopped"}}

(* docs/aws-provider.md:8: one instance at most is launched for an attempt,    *)
(* however often its request is sent.                                        *)
AttemptHasOneInstance == Cardinality({t \in Tokens : vms[t] # "none"}) <= 1

(* The result is true of the world.  An instance outlives a failed attempt     *)
(* only if Provision has not returned it (its answer was lost, or came too    *)
(* late), or Terminate has failed; and a runner that is handed out was        *)
(* running, and with a JIT configuration was online, unless the cloud took it *)
(* away.                                                                     *)
OutcomeIsReal ==
  /\ result = "failed" /\ Live # {} => ~reported \/ left
  /\ result = "assigned" =>
       /\ vms[Token] = "running" \/ died
       /\ call.path = "assign" => registration = "online"

(* The waits of doWithRetry double up to MaxDelay, without overflow, and none  *)
(* is longer, whatever Retry-After says.                                     *)
BackoffIsCapped ==
  waited.after > 0 =>
    /\ waited.delay \in 0 .. call.policy.max
    /\ waited.header = NoHeader =>
         waited.delay = Least(call.policy.max, call.policy.initial * 2 ^ (waited.after - 1))

(* docs/aws-provider.md:9: an EC2 instance is launched with the tags of its   *)
(* repository, workflow run, job, creation and expiry, whichever service     *)
(* asked for it.                                                             *)
InstancesAreOwned ==
  call.cloud = "ec2" /\ Live # {} =>
    {"job_id", "repository", "run_id", "created_at", "expires_at"} \subseteq Tags

(* An attempt that has begun ends, whatever GitHub and the cloud do not answer. *)
AttemptEnds == step # "idle" ~> result # "none"
=============================================================================

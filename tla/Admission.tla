------------------------------ MODULE Admission ------------------------------
(***************************************************************************)
(* Which jobs get a runner: the scope that main.go reads at start, the      *)
(* webhook's github.ScopePolicy, runners.AssignmentPolicy, which is made of *)
(* the same lists and meets direct requests too, and the checks of the JIT  *)
(* adapter and client.  Each cuts up the repository's name in its own way.  *)
(* security.Evaluate decides on what a workload asks for.                   *)
(***************************************************************************)
EXTENDS Integers, Sequences, FiniteSets

CONSTANTS
  ScopeLists,       \* [organizations, repositories, labels: sequences; forks]
  Requests,      \* [repository: sequence of segments, labels: a set, fork]
  Folded,        \* strings in lower case, by where blanks are taken off: [both, left, right, none]
  Backslashed,   \* strings with a backslash in them
  NoScope

ASSUME AdmissionAssumption ==
  /\ \A s \in ScopeLists : s # NoScope /\ s.forks \in BOOLEAN
  /\ \A r \in Requests : r.repository # <<>> /\ r.fork \in BOOLEAN

VARIABLES
  scope,         \* the configuration the process started with
  request,
  stage,         \* "start", "idle", "admitted", "approved", "asked", "refused"
  direct,        \* it did not come from the webhook
  verdict        \* Evaluate: the last inputs, and whether they are allowed

admissionVars == <<scope, request, stage, direct, verdict>>

AdmissionInit ==
  /\ scope = NoScope /\ request = NoScope /\ stage = "start" /\ direct = FALSE
  /\ verdict = NoScope

(* TrimSpace and ToLower of a name take the blanks off its ends only. *)
Fold(name) ==
  LET last == Len(name)
      blanks(i) == IF last = 1 THEN "both" ELSE IF i = 1 THEN "left"
                   ELSE IF i = last THEN "right" ELSE "none"
  IN [i \in DOMAIN name |-> Folded[name[i]][blanks(i)]]
Blank(part) == Folded[part].both = ""

In(names, want) == \E i \in DOMAIN names : Fold(names[i]) = Fold(want)
LabelsIn(names, labels) == \A l \in labels : In(names, <<l>>)

(* ScopePolicy.Validate: nothing is blank and nothing is there twice, in all   *)
(* three lists together.                                                     *)
ValidScope(s) ==
  LET all == s.organizations \o s.repositories \o s.labels
  IN /\ s.organizations \o s.repositories # <<>> /\ s.labels # <<>>
     /\ \A i \in DOMAIN all : Fold(all[i]) # <<"">>
     /\ \A i, j \in DOMAIN all : Fold(all[i]) = Fold(all[j]) => i = j

(* configureGitHubAssignment ends the process when the scope is not valid. *)
Configure(s) ==
  /\ stage = "start" /\ ValidScope(s)
  /\ scope' = s /\ stage' = "idle"
  /\ UNCHANGED <<request, direct, verdict>>

(* Mutant: forks are left to the assignment. *)
AdmitsForks(r) ==
  /\ Len(r.repository) = 2 /\ \A i \in 1 .. 2 : ~Blank(r.repository[i])
  /\ In(scope.organizations, <<r.repository[1]>>) \/ In(scope.repositories, r.repository)
  /\ LabelsIn(scope.labels, r.labels)

(* ValidateEvent: owner/name, exactly. *)
Admits(r) ==
  /\ Len(r.repository) = 2 /\ \A i \in 1 .. 2 : ~Blank(r.repository[i])
  /\ r.fork => scope.forks
  /\ In(scope.organizations, <<r.repository[1]>>) \/ In(scope.repositories, r.repository)
  /\ LabelsIn(scope.labels, r.labels)

(* HandleWorkflowJob. *)
Deliver(r) ==
  /\ stage = "idle" /\ Admits(r)
  /\ request' = r /\ direct' = FALSE /\ stage' = "admitted"
  /\ UNCHANGED <<scope, verdict>>

(* A request to Assign that no webhook has seen. *)
RequestDirectly(r) ==
  /\ stage = "idle"
  /\ request' = r /\ direct' = TRUE /\ stage' = "admitted"
  /\ UNCHANGED <<scope, verdict>>

(* AssignmentPolicy.validate: the owner is what is before the first slash. *)
Approves(r) ==
  /\ r.fork => scope.forks
  /\ In(scope.repositories, r.repository) \/ In(scope.organizations, <<r.repository[1]>>)
  /\ LabelsIn(scope.labels, r.labels)

Approve ==
  /\ stage = "admitted"
  /\ stage' = IF Approves(request) THEN "approved" ELSE "refused"
  /\ UNCHANGED <<scope, request, direct, verdict>>

(* GitHubJITAdapter cuts at the first slash; GenerateJITConfig takes no slash   *)
(* or backslash in either part, no blank part and no job without labels.     *)
Backslash(r) == \E i \in DOMAIN r.repository : r.repository[i] \in Backslashed
Asks(r) ==
  /\ Len(r.repository) = 2 /\ \A i \in 1 .. 2 : ~Blank(r.repository[i])
  /\ ~Backslash(r)
  /\ r.labels # {}

AskGitHub ==
  /\ stage = "approved"
  /\ stage' = IF Asks(request) THEN "asked" ELSE "refused"
  /\ UNCHANGED <<scope, request, direct, verdict>>

-----------------------------------------------------------------------------
Capabilities == {"secrets", "credentials", "docker", "mounts", "network", "iam"}
Inputs == [trust : {"trusted-branch", "internal-pr", "fork-pr", "untrusted"},
           profile : {"isolated", "privileged"}, wants : SUBSET Capabilities]

(* Evaluate. *)
Allows(input) ==
  LET trusted == input.trust = "trusted-branch"
      privileged == input.profile = "privileged"
      wants(c) == c \in input.wants
  IN /\ privileged => trusted
     /\ wants("secrets") => trusted \/ input.trust = "internal-pr"
     /\ \A c \in {"credentials", "docker", "mounts", "iam"} : wants(c) => trusted
     /\ \A c \in {"docker", "mounts", "iam"} : wants(c) => privileged
     /\ wants("network") /\ privileged => trusted

EvaluateInputs(input) ==
  /\ verdict' = [input |-> input, allowed |-> Allows(input)]
  /\ UNCHANGED <<scope, request, stage, direct>>

AdmissionStep ==
  \/ \E s \in ScopeLists : Configure(s)
  \/ \E r \in Requests : Deliver(r) \/ RequestDirectly(r)
  \/ Approve \/ AskGitHub

AuthorizationStep == \E input \in Inputs : EvaluateInputs(input)

-----------------------------------------------------------------------------
(* runners.go:129: a direct request does not get past what the webhook would   *)
(* admit, though the assignment reads the name of the repository less        *)
(* strictly; and what the webhook admits, the later checks do not refuse,    *)
(* except for a job without labels and a name with a backslash in it.        *)
GatesAgree ==
  /\ stage = "asked" => Admits(request)
  /\ stage = "refused" /\ ~direct => request.labels = {} \/ Backslash(request)
  /\ stage = "refused" /\ direct =>
       ~Admits(request) \/ request.labels = {} \/ Backslash(request)

Trust(t) == CASE t = "trusted-branch" -> 2 [] t = "internal-pr" -> 1 [] OTHER -> 0

(* Under one profile, to ask for less or to be trusted more is never the reason *)
(* of a denial; and code that is not of a trusted branch never gets what     *)
(* reaches outside its runner.                                               *)
AuthorizationIsMonotone ==
  verdict # NoScope /\ verdict.allowed =>
    LET input == verdict.input
    IN /\ \A other \in Inputs :
            /\ other.profile = input.profile /\ other.wants \subseteq input.wants
            /\ Trust(other.trust) >= Trust(input.trust)
            => Allows(other)
       /\ Trust(input.trust) < 2 =>
            input.profile = "isolated" /\ input.wants \subseteq {"secrets", "network"}
=============================================================================

----------------------------- MODULE JobService -----------------------------
(***************************************************************************)
(* What the platform promises of a job, seen from outside: it is accepted  *)
(* once and goes forward only; it gets one instance and one lease, of that *)
(* instance, and is assigned and run only with it; an instance that is     *)
(* stopped stays so.  Nothing is done to two of the tables, or to two of    *)
(* their entries, at a time: that is all a crash between two calls leaves.  *)
(***************************************************************************)
EXTENDS Naturals

CONSTANTS Jobs, Runners, NoRunner

VARIABLES
  stage,         \* [Jobs -> how far the job is; "none": not recorded]
  lease,         \* [Jobs -> the runner leased for it, or NoRunner]
  closed,        \* jobs whose lease has ended
  instance       \* [Runners -> what runs for which job]

serviceVars == <<stage, lease, closed, instance>>

NoInstance == [job |-> "none", up |-> FALSE]

Ends == {"completed", "cancelled", "failed"}
Stages == {"none", "queued", "provisioning", "assigned", "running"} \cup Ends

(* How far a stage is on the way of a job; every end is equally far. *)
Way(st) ==
  CASE st = "none" -> 0 [] st = "queued" -> 1 [] st = "provisioning" -> 2
    [] st = "assigned" -> 3 [] st = "running" -> 4 [] st \in Ends -> 5

Init ==
  /\ stage = [j \in Jobs |-> "none"]
  /\ lease = [j \in Jobs |-> NoRunner]
  /\ closed = {}
  /\ instance = [r \in Runners |-> NoInstance]

(* A job is recorded. *)
Accept(j) ==
  /\ stage[j] = "none"
  /\ stage' = [stage EXCEPT ![j] = "queued"]
  /\ UNCHANGED <<lease, closed, instance>>

(* A recorded job goes on; it is assigned and run with a lease. *)
Advance(j, st) ==
  /\ stage[j] # "none" /\ Way(stage[j]) < Way(st)
  /\ st \in {"assigned", "running"} => lease[j] # NoRunner
  /\ stage' = [stage EXCEPT ![j] = st]
  /\ UNCHANGED <<lease, closed, instance>>

(* The one instance of a job, once the job is known to be in the making. *)
Launch(j, r) ==
  /\ Way(stage[j]) >= Way("provisioning")
  /\ instance[r] = NoInstance /\ \A q \in Runners : instance[q].job # j
  /\ instance' = [instance EXCEPT ![r] = [job |-> j, up |-> TRUE]]
  /\ UNCHANGED <<stage, lease, closed>>

Stop(r) ==
  /\ instance[r].up
  /\ instance' = [instance EXCEPT ![r] = [job |-> @.job, up |-> FALSE]]
  /\ UNCHANGED <<stage, lease, closed>>

(* The one lease of a job, on the job's instance. *)
Grant(j, r) ==
  /\ lease[j] = NoRunner /\ instance[r].job = j
  /\ lease' = [lease EXCEPT ![j] = r]
  /\ UNCHANGED <<stage, closed, instance>>

Close(j) ==
  /\ lease[j] # NoRunner /\ j \notin closed
  /\ closed' = closed \cup {j}
  /\ UNCHANGED <<stage, lease, instance>>

Next ==
  \/ \E j \in Jobs : Accept(j) \/ Close(j) \/ \E st \in Stages : Advance(j, st)
  \/ \E j \in Jobs, r \in Runners : Launch(j, r) \/ Grant(j, r)
  \/ \E r \in Runners : Stop(r)

Spec == Init /\ [][Next]_serviceVars
=============================================================================

-------------------------------- MODULE Advice --------------------------------
(***************************************************************************)
(* What the extensions do with an event: extensions/runtime lets only the   *)
(* events of allowed tenants through; extensions/consumers counts them and  *)
(* emits summaries, and advice on runners that are not trusted, into a      *)
(* bounded MemorySink that all of them share; extensions/policy decides     *)
(* what advice passes, and puts it in one form.  Each consumer has a worker *)
(* of its own (Dispatcher).                                                 *)
(***************************************************************************)
EXTENDS Sums, Integers, SequencesExt

CONSTANTS
  Tenants,            \* the allowlist
  JobEvents,          \* events: [tenant, type, outcome, trust]
  Advisors,           \* extensions the policy enables
  Outputs,            \* what an extension may hand to the policy
  Clean,              \* strings with blanks trimmed, in lower case
  AllowedActions,
  Order,              \* of the clean strings
  Decimal,            \* of the line numbers as they are printed: 10 before 2
  MaxActions, MaxAnnotations,
  SinkMax,            \* MemorySink.max
  MaxObserved,          \* bound: events for each consumer
  Nobody              \* no event, no tenant or no decision

(* An action or an annotation: what is cleaned of it, and its lines. *)
Items == [name : DOMAIN Clean, start : DOMAIN Decimal, end : DOMAIN Decimal]

ASSUME AdviceAssumption ==
  /\ {MaxActions, MaxAnnotations, SinkMax} \subseteq Nat \ {0}
  /\ Nobody \notin Tenants \cup JobEvents /\ IsFiniteSet(JobEvents)

(* Strings and numbers are told apart by their order, and cleaning once is enough. *)
ASSUME OrderAssumption ==
  /\ Clean \in [DOMAIN Clean -> DOMAIN Order] /\ DOMAIN Order \subseteq DOMAIN Clean
  /\ \A s \in DOMAIN Order : Order[s] \in Nat /\ Clean[s] = s
  /\ DOMAIN Decimal \subseteq Int /\ \A n \in DOMAIN Decimal : Decimal[n] \in Nat
  /\ \A s, t \in DOMAIN Order : Order[s] = Order[t] => s = t
  /\ \A m, n \in DOMAIN Decimal : Decimal[m] = Decimal[n] => m = n

ASSUME OutputsAssumption ==
  \A o \in Outputs : o.actions \in Seq(Items) /\ o.annotations \in Seq(Items)

Summarizers == {"analytics", "cache"}
Consumers == Summarizers \cup {"security"}

VARIABLES
  atHand,             \* [Consumers -> the event a handler has observed, or Nobody]
  counted,            \* consumers that have it in their own counters as well
  observed,               \* base.count
  byType,             \* AnalyticsConsumer.byType
  byOutcome,          \* CacheConsumer.hits, misses, unknown
  summaries, outputs, sinkDropped,     \* MemorySink
  decision            \* Evaluate: the last output and what came of it

adviceVars ==
  <<atHand, counted, observed, byType, byOutcome, summaries, outputs, sinkDropped, decision>>

Outcomes == {"hit", "miss", "unknown"}

AdviceInit ==
  /\ atHand = [c \in Consumers |-> Nobody] /\ counted = {}
  /\ observed = [c \in Consumers |-> 0]
  /\ byType = [t \in {e.type : e \in JobEvents} |-> 0]
  /\ byOutcome = [o \in Outcomes |-> 0]
  /\ summaries = <<>> /\ outputs = <<>> /\ sinkDropped = 0
  /\ decision = Nobody

-----------------------------------------------------------------------------
(* policy.Adapter *)

(* actionKey and annotationKey; an action has no lines. *)
Key(item) == <<Order[item.name], Decimal[item.start], Decimal[item.end]>>

Before(a, b) ==
  LET k == Key(a)
      l == Key(b)
  IN \E i \in 1 .. 3 : k[i] < l[i] /\ \A h \in 1 .. i - 1 : k[h] = l[h]

Cleaned(items) == [i \in DOMAIN items |-> [items[i] EXCEPT !.name = Clean[@]]]

(* sort.SliceStable: the arrangement p in which the smaller key comes first, *)
(* and of two that are the same the one that came first.                     *)
Arranges(p, items) ==
  \A i, h \in DOMAIN items :
    i < h => \/ Before(items[p[i]], items[p[h]])
             \/ Key(items[p[i]]) = Key(items[p[h]]) /\ p[i] < p[h]

Sorted(items) ==
  LET place == CHOOSE p \in Bijection(DOMAIN items, DOMAIN items) : Arranges(p, items)
  IN [i \in DOMAIN items |-> items[place[i]]]

(* uniqueActions, uniqueAnnotations: the first of each. *)
Unique(items) == FoldLeft(LAMBDA got, a : IF Contains(got, a) THEN got ELSE Append(got, a), <<>>, items)

(* Mutant: duplicates go before the names are cleaned. *)
NormalizeUnique(items) == Sorted(Cleaned(Unique(items)))

(* normalize: clean, sort, and drop the duplicates. *)
Normalize(items) == Unique(Sorted(Cleaned(items)))

(* validateIdentity. *)
Identified(tenant, extension, output) ==
  /\ output.version \in {"", "v1"}
  /\ output.tenant \in {Nobody, tenant}
  /\ output.extension \in {Nobody, extension}
  /\ output.job # ""

(* validateAnnotations. *)
ValidAnnotation(a) ==
  /\ Clean[a.name] # "" /\ a.start >= 0 /\ a.end >= 0
  /\ a.end # 0 => a.start <= a.end

(* Evaluate. *)
Accepts(tenant, extension, output) ==
  /\ tenant \in Tenants /\ extension \in Advisors
  /\ Identified(tenant, extension, output)
  /\ Len(output.actions) <= MaxActions /\ Len(output.annotations) <= MaxAnnotations
  /\ \A i \in DOMAIN output.actions : Clean[output.actions[i].name] \in AllowedActions
  /\ \A i \in DOMAIN output.annotations : ValidAnnotation(output.annotations[i])

Normalized(tenant, extension, output) ==
  [version |-> "v1", tenant |-> tenant, extension |-> extension, job |-> output.job,
   actions |-> Normalize(output.actions), annotations |-> Normalize(output.annotations)]

Evaluate(tenant, extension, output) ==
  /\ decision = Nobody
  /\ decision' = [given |-> output, accepted |-> Accepts(tenant, extension, output),
                  output |-> IF Accepts(tenant, extension, output)
                             THEN Normalized(tenant, extension, output) ELSE Nobody]
  /\ UNCHANGED <<atHand, counted, observed, byType, byOutcome, summaries, outputs, sinkDropped>>

-----------------------------------------------------------------------------
(* The consumers. *)

(* scoped.Handle. *)
InScope(e) == e.tenant \in Tenants

(* Mutant: an outcome nobody knows is counted nowhere. *)
OutcomeGiven(e) == e.outcome

(* CacheConsumer.Handle. *)
Outcome(e) == IF e.outcome \in Outcomes THEN e.outcome ELSE "unknown"

(* base.observe, under the lock of the base. *)
Observe(c, e) ==
  /\ atHand[c] = Nobody /\ InScope(e)
  /\ atHand' = [atHand EXCEPT ![c] = e]
  /\ observed' = [observed EXCEPT ![c] = @ + 1]
  /\ UNCHANGED <<counted, byType, byOutcome, summaries, outputs, sinkDropped, decision>>

(* The consumer's own counters, under a lock of their own. *)
CountEvent(c) ==
  LET e == atHand[c]
  IN /\ c \in Summarizers \ counted /\ e # Nobody
     /\ counted' = counted \cup {c}
     /\ byType' = IF c = "analytics" THEN [byType EXCEPT ![e.type] = @ + 1] ELSE byType
     /\ byOutcome' = IF c = "cache" THEN [byOutcome EXCEPT ![Outcome(e)] = @ + 1] ELSE byOutcome
     /\ UNCHANGED <<atHand, observed, summaries, outputs, sinkDropped, decision>>

Done(c) == atHand' = [atHand EXCEPT ![c] = Nobody] /\ counted' = counted \ {c}

(* EmitSummary.  Analytics reads its counter again (countFor) for the record. *)
Summarize(c) ==
  LET e == atHand[c]
      count == IF c = "analytics" THEN byType[e.type] ELSE 0
  IN /\ c \in Summarizers \cap counted
     /\ IF Len(summaries) < SinkMax
        THEN /\ summaries' = Append(summaries, [by |-> c, event |-> e, count |-> count])
             /\ UNCHANGED sinkDropped
        ELSE sinkDropped' = sinkDropped + 1 /\ UNCHANGED summaries
     /\ Done(c)
     /\ UNCHANGED <<observed, byType, byOutcome, outputs, decision>>

Untrusted(e) == e.trust \in {"fork", "untrusted"}

SecurityAdvice ==
  [version |-> "v1", tenant |-> Nobody, extension |-> "security", job |-> "unknown",
   actions |-> <<[name |-> "annotate", start |-> 0, end |-> 0]>>,
   annotations |-> <<[name |-> "workflows", start |-> 0, end |-> 0]>>]

(* policySink: the tenant of the event, from the context. *)
AdviceFor(e) == Normalized(e.tenant, "security", SecurityAdvice)

(* SecurityConsumer.Handle: known trust that is lacking is advised upon. *)
Advise ==
  LET e == atHand["security"]
  IN /\ e # Nobody
     /\ IF ~Untrusted(e) \/ ~Accepts(e.tenant, "security", SecurityAdvice)
        THEN UNCHANGED <<outputs, sinkDropped>>
        ELSE IF Len(outputs) < SinkMax
        THEN /\ outputs' = Append(outputs, [event |-> e, output |-> AdviceFor(e)])
             /\ UNCHANGED sinkDropped
        ELSE sinkDropped' = sinkDropped + 1 /\ UNCHANGED outputs
     /\ Done("security")
     /\ UNCHANGED <<observed, byType, byOutcome, summaries, decision>>

AdviceStep ==
  \/ \E c \in Consumers, e \in JobEvents : observed[c] < MaxObserved /\ Observe(c, e)
  \/ \E c \in Summarizers : CountEvent(c) \/ Summarize(c)
  \/ Advise

PolicyStep ==
  \E t \in Tenants \cup {Nobody}, x \in Advisors \cup {Nobody}, o \in Outputs : Evaluate(t, x, o)

-----------------------------------------------------------------------------
(* Whatever an extension hands in, what the policy accepts is in one form: it  *)
(* has what was given, cleaned, once each and in order, so that the order and *)
(* the repetitions of the extension do not show; evaluated again it is       *)
(* accepted and stays the same; and it only advises, for the tenant at hand. *)
AcceptedIsCanonical ==
  decision # Nobody /\ decision.accepted =>
    LET out == decision.output
        again == [i \in {"actions", "annotations"} |-> Normalize(out[i])]
    IN /\ out.tenant \in Tenants
       /\ ToSet(out.actions) = ToSet(Cleaned(decision.given.actions))
       /\ ToSet(out.annotations) = ToSet(Cleaned(decision.given.annotations))
       /\ \A i \in DOMAIN out.actions : out.actions[i].name \in AllowedActions
       /\ \A items \in {out.actions, out.annotations} :
            \A i, h \in DOMAIN items : i < h => Before(items[i], items[h])
       /\ Accepts(out.tenant, out.extension, out)
       /\ again["actions"] = out.actions /\ again["annotations"] = out.annotations

(* Which records are of the analytics on events of type t, up to the i-th. *)
Turns(records, t, i) == {h \in 1 .. i : records[h].by = "analytics" /\ records[h].event.type = t}

(* 1 if a handler is at work, 1 if it has yet to count. *)
Pending(c) == IF atHand[c] = Nobody THEN 0 ELSE 1
Uncounted(c) == IF atHand[c] = Nobody \/ c \in counted THEN 0 ELSE 1

(* The counters of a consumer, which have locks of their own, differ by the    *)
(* event at hand at most, and agree, through the sink the consumers share,   *)
(* with what was emitted and dropped; and the count a record of the   *)
(* analytics gives is that of the event's turn among those of its type.      *)
ConsumersAddUp ==
  /\ Total(byType) + Uncounted("analytics") = observed["analytics"]
  /\ Total(byOutcome) + Uncounted("cache") = observed["cache"]
  /\ Len(summaries) <= SinkMax /\ Len(outputs) <= SinkMax
  /\ LET emitted == Total([c \in Summarizers |-> observed[c] - Pending(c)])
     IN /\ Len(summaries) + Len(outputs) + sinkDropped >= emitted
        /\ Len(summaries) + Len(outputs) + sinkDropped <= emitted + observed["security"] - Pending("security")
        /\ sinkDropped > 0 => SinkMax \in {Len(summaries), Len(outputs)}
  /\ sinkDropped = 0 =>
       \A i \in DOMAIN summaries :
         summaries[i].by = "analytics" => summaries[i].count = Cardinality(Turns(summaries, summaries[i].event.type, i))
=============================================================================

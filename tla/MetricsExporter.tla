--------------------------- MODULE MetricsExporter ---------------------------
(***************************************************************************)
(* observability: the Prometheus exporter, which keeps one series per set   *)
(* of label values and refuses what would pass its limits, and the          *)
(* Collector, which keeps the newest samples.  Both hold one mutex through  *)
(* a call.  Names are taken as the sanitizing leaves them: distinct.        *)
(***************************************************************************)
EXTENDS Sums, Integers, SequencesExt

CONSTANTS
  Metrics, LabelNames,
  AllowedLabels,       \* the others are dropped
  LabelSets,           \* what callers pass: partial functions on LabelNames
  Empty,               \* the value of a label that is not passed
  Samples,             \* calls: [type, op, amount]
  Registrations,       \* declarations: [type, help, labels]
  Buckets,             \* upper bounds
  MaxLabelValues, MaxSeries,
  MaxSamples,          \* of the Collector
  MaxUpdates           \* bound: accepted updates, and recorded samples

ASSUME ExporterAssumption ==
  /\ AllowedLabels \subseteq LabelNames
  /\ IsFiniteSet(Metrics) /\ IsFiniteSet(Buckets)
  /\ \A s \in Samples :
       /\ s.op \in {"add", "set", "observe"} /\ s.amount \in Int
       /\ s.type = "histogram" => s.op = "observe"
  /\ \A labels \in LabelSets : DOMAIN labels \subseteq LabelNames
  /\ {MaxLabelValues, MaxSeries, MaxSamples} \subseteq Nat \ {0}
  /\ Buckets \subseteq Nat

VARIABLES
  families,      \* [the metrics that have one -> type, help, labels, series]
  labelValues,   \* [Metrics -> [AllowedLabels -> values admitted]]
  seriesCount,
  accepted,      \* history: [Metrics -> updates that returned no error]
  samples, dropped,
  recorded       \* history: samples given to the Collector

exporterVars == <<families, labelValues, seriesCount, accepted>>
collectorVars == <<samples, dropped, recorded>>

ExporterInit ==
  /\ families = <<>>
  /\ labelValues = [m \in Metrics |-> [l \in AllowedLabels |-> {}]]
  /\ seriesCount = 0
  /\ accepted = [m \in Metrics |-> <<>>]

CollectorInit == samples = <<>> /\ dropped = 0 /\ recorded = <<>>

NewSeries == [total |-> 0, count |-> 0, buckets |-> [b \in Buckets |-> 0]]

(* What a map is after f[x] = v. *)
Assigned(f, x, v) == [y \in DOMAIN f \cup {x} |-> IF y = x THEN v ELSE f[y]]

(* canonicalLabels: the labels of the family, whatever the caller passed. *)
Canonical(names, labels) ==
  [l \in names |-> IF l \in DOMAIN labels THEN labels[l] ELSE Empty]

(* Mutant: an observation is counted in every bucket it fits. *)
FirstFits(amount) == {b \in Buckets : amount <= b}

(* Observe: the first bucket that fits. *)
FirstFit(amount) ==
  {b \in Buckets : amount <= b /\ \A c \in Buckets : amount <= c => b <= c}

(* The closures AddCounter, SetGauge, AddGauge and Observe pass to update. *)
Applied(s, sample) ==
  CASE sample.op = "add" -> [s EXCEPT !.total = @ + sample.amount]
    [] sample.op = "set" -> [s EXCEPT !.total = sample.amount]
    [] sample.op = "observe" ->
         [total |-> s.total + sample.amount, count |-> s.count + 1,
          buckets |-> [b \in Buckets |->
                         s.buckets[b] + IF b \in FirstFit(sample.amount) THEN 1 ELSE 0]]

(* The family update works on: its first call fixes the labels. *)
FamilyFor(m, sample, labels) ==
  IF m \in DOMAIN families THEN families[m]
  ELSE [type |-> sample.type, help |-> "", labels |-> DOMAIN labels \cap AllowedLabels,
        series |-> <<>>]

HasRoom == seriesCount < MaxSeries

(* admitLabelValues: all labels or none. *)
Admissible(m, key) ==
  \A l \in DOMAIN key : key[l] \in labelValues[m][l]
                        \/ Cardinality(labelValues[m][l]) < MaxLabelValues

Admit(m, key) ==
  IF ~Admissible(m, key) THEN labelValues
  ELSE [labelValues EXCEPT ![m] =
          [l \in AllowedLabels |-> IF l \in DOMAIN key THEN @[l] \cup {key[l]} ELSE @[l]]]

Accept(m, sample, labels) ==
  accepted' = [accepted EXCEPT ![m] = Append(@, [sample |-> sample, labels |-> labels])]

(* update on a series that exists. *)
UpdateSeries(m, sample, labels) ==
  LET f == families[m]
      key == Canonical(f.labels, labels)
  IN  /\ m \in DOMAIN families /\ f.type = sample.type /\ key \in DOMAIN f.series
      /\ families' = [families EXCEPT ![m].series[key] = Applied(@, sample)]
      /\ Accept(m, sample, labels)
      /\ UNCHANGED <<labelValues, seriesCount>>

(* update that needs a series: made when the limits allow, with its family.    *)
(* Refused, it takes back the family it has just made and no other.          *)
UpdateNew(m, sample, labels) ==
  LET f == FamilyFor(m, sample, labels)
      key == Canonical(f.labels, labels)
      made == [f EXCEPT !.series = Assigned(@, key, Applied(NewSeries, sample))]
  IN  /\ f.type = sample.type /\ key \notin DOMAIN f.series
      /\ IF HasRoom /\ Admissible(m, key)
         THEN /\ families' = Assigned(families, m, made)
              /\ seriesCount' = seriesCount + 1
              /\ Accept(m, sample, labels)
         ELSE UNCHANGED <<families, seriesCount, accepted>>
      /\ labelValues' = IF HasRoom THEN Admit(m, key) ELSE labelValues

(* Register: a family that exists, declared or made by an update, stays as it is. *)
Register(m, r) ==
  /\ m \notin DOMAIN families
  /\ families' = Assigned(families, m,
       [type |-> r.type, help |-> r.help, labels |-> r.labels \cap AllowedLabels,
        series |-> <<>>])
  /\ UNCHANGED <<labelValues, seriesCount, accepted>>

Updates == Total([m \in Metrics |-> Len(accepted[m])])

ExporterStep ==
  \E m \in Metrics :
    \/ /\ Updates < MaxUpdates
       /\ \E sample \in Samples, labels \in LabelSets :
            UpdateSeries(m, sample, labels) \/ UpdateNew(m, sample, labels)
    \/ \E r \in Registrations : Register(m, r)

-----------------------------------------------------------------------------
(* Collector.Record: a full one gives up its oldest sample. *)
Pushed(s) ==
  IF Len(samples) = MaxSamples THEN Append(Tail(samples), s) ELSE Append(samples, s)

Record(s) ==
  /\ samples' = Pushed(s)
  /\ dropped' = IF Len(samples) = MaxSamples THEN dropped + 1 ELSE dropped
  /\ recorded' = Append(recorded, s)

CollectorStep == Len(recorded) < MaxUpdates /\ \E s \in Samples : Record(s)

-----------------------------------------------------------------------------
KeysOf(m) == IF m \in DOMAIN families THEN DOMAIN families[m].series ELSE {}
(* The updates of m, by their turn, that belong to the series of a key. *)
GivenTo(m, key) ==
  {i \in DOMAIN accepted[m] : Canonical(families[m].labels, accepted[m][i].labels) = key}

(* Gather: the bucket lines are cumulative. *)
Gathered(s, b) == Total([c \in {d \in Buckets : d <= b} |-> s.buckets[c]])

(* A series is what the given updates of a list make of it: a gauge what its   *)
(* last setting and the additions since make of it.                          *)
LastSet(list, given) == Max({0} \cup {i \in given : list[i].sample.op = "set"})
AddsUp(s, type, list, given) ==
  /\ s.total = Total([i \in {k \in given : k >= LastSet(list, given)} |-> list[i].sample.amount])
  /\ type = "histogram" =>
       /\ s.count = Cardinality(given)
       /\ \A b \in Buckets : Gathered(s, b) = Cardinality({i \in given : list[i].sample.amount <= b})

(* What the exporter serves accounts for every update it accepted, whatever   *)
(* labels were dropped or filled in on the way and whatever was refused in    *)
(* between: a series per set of label values; a counter is the sum of its     *)
(* updates and a gauge follows the last that set it; the line of a            *)
(* histogram's bucket counts the observations up to its bound; a refused      *)
(* update uses up nothing of the limits; and the Collector has the newest     *)
(* samples and counts those it gave up.                                      *)
ServedAddsUp ==
  /\ Len(samples) <= MaxSamples /\ samples = SubSeq(recorded, dropped + 1, Len(recorded))
  /\ seriesCount = Total([m \in Metrics |-> Cardinality(KeysOf(m))])
  /\ seriesCount <= MaxSeries
  /\ \A m \in Metrics :
       /\ m \notin DOMAIN families => accepted[m] = <<>>
       /\ KeysOf(m) = {Canonical(families[m].labels, accepted[m][i].labels) : i \in DOMAIN accepted[m]}
       /\ \A l \in AllowedLabels :
            /\ labelValues[m][l] = {key[l] : key \in {k \in KeysOf(m) : l \in DOMAIN k}}
            /\ Cardinality(labelValues[m][l]) <= MaxLabelValues
       /\ \A key \in KeysOf(m) :
            AddsUp(families[m].series[key], families[m].type, accepted[m], GivenTo(m, key))
=============================================================================

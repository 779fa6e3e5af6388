------------------------------ MODULE MCEvents ------------------------------
(* The bus with its dispatcher, the bus with a plain subscriber, the archive,  *)
(* the exporter, the collector, the consumers and the policy, which share    *)
(* nothing: each of the seven moves only while the others have not begun.    *)
EXTENDS Dispatcher, Archive, MetricsExporter, Advice

CONSTANTS Tap, p, q, j, p1, p2, q1, q2, q3, j1, t1, t2

MCEventSet == 1 .. 3
MCSubscribers == {Dispatch, Tap}

MCLabelSets ==
  {p :> p1 @@ q :> q1, p :> p1 @@ q :> q2, p :> p2 @@ q :> q3,
   p :> p1 @@ j :> j1}
MCSamples ==
  {[type |-> "counter", op |-> "add", amount |-> 1],
   [type |-> "gauge", op |-> "set", amount |-> 2],
   [type |-> "gauge", op |-> "add", amount |-> -1],
   [type |-> "histogram", op |-> "observe", amount |-> 1],
   [type |-> "histogram", op |-> "observe", amount |-> 3]}
MCRegistrations ==
  {[type |-> "counter", help |-> "jobs", labels |-> {p, j}],
   [type |-> "histogram", help |-> "", labels |-> {p, q}]}

MCClean == [s \in {"", " ", "Annotate ", "annotate", "link", "retry", "workflows"} |->
              CASE s = " " -> "" [] s = "Annotate " -> "annotate" [] OTHER -> s]
MCOrder == [s \in {"", "annotate", "link", "retry", "workflows"} |->
              CASE s = "" -> 0 [] s = "annotate" -> 1 [] s = "link" -> 2 [] s = "retry" -> 3
                [] OTHER -> 4]

MCDecimal == [n \in {-1, 0, 1, 2, 3, 10} |->
                CASE n = -1 -> 0 [] n = 0 -> 1 [] n = 1 -> 2 [] n = 10 -> 3 [] n = 2 -> 4 [] OTHER -> 5]

MCItems(names, spans) == {[name |-> n, start |-> l[1], end |-> l[2]] : n \in names, l \in spans}
MCActions == MCItems({" ", "Annotate ", "annotate", "link", "retry"}, {<<0, 0>>})
MCAnnotations == MCItems({"workflows", " "}, {<<0, 0>>}) \cup MCItems({"workflows"}, {<<-1, 0>>, <<2, 1>>, <<2, 3>>, <<10, 0>>})
MCLists(items, n) == UNION {[1 .. k -> items] : k \in 0 .. n}
MCOutputs ==
  {[version |-> i[1], tenant |-> i[2], extension |-> i[3], job |-> i[4], actions |-> a, annotations |-> b] :
     i \in {<<"", Nobody, Nobody, "j">>, <<"v1", t1, "diagnostics", "j">>},
     a \in MCLists(MCActions, 3), b \in MCLists(MCAnnotations, 1)}
  \cup
  {[version |-> i[1], tenant |-> i[2], extension |-> i[3], job |-> i[4], actions |-> <<>>, annotations |-> b] :
     i \in {<<"v2", t1, "diagnostics", "j">>, <<"v1", t2, Nobody, "j">>, <<"v1", Nobody, "other", "j">>,
            <<"v1", Nobody, Nobody, "">>, <<"", Nobody, Nobody, "j">>},
     b \in MCLists(MCAnnotations, 2)}

MCJobEvents ==
  {[tenant |-> t1, type |-> "queued", outcome |-> "hit", trust |-> "fork"],
   [tenant |-> t2, type |-> "queued", outcome |-> "cold", trust |-> ""],
   [tenant |-> t2, type |-> "done", outcome |-> "miss", trust |-> "untrusted"],
   [tenant |-> Nobody, type |-> "done", outcome |-> "", trust |-> "fork"]}

(* The events are published for the first time in the order of their names. *)
InTurn == published' # published => published'[Len(published')] <= Len(published) + 1

BusMoves == BusStep /\ InTurn /\ (sub'[Tap] = "none" \/ dispatcher = "new")
DispatcherMoves == DispatcherStep /\ sub[Tap] = "none"

BusRests == BusInit /\ dispatcher = "new"

MCInit ==
  /\ BusInit /\ DispatcherInit /\ ArchiveInit /\ ExporterInit /\ CollectorInit /\ AdviceInit
MCNext ==
  \/ /\ ArchiveInit /\ ExporterInit /\ CollectorInit /\ AdviceInit
     /\ BusMoves \/ DispatcherMoves
     /\ UNCHANGED <<archiveVars, exporterVars, collectorVars, adviceVars>>
  \/ /\ BusRests /\ ExporterInit /\ CollectorInit /\ AdviceInit
     /\ ArchiveStep
     /\ UNCHANGED <<busVars, dispatcherVars, exporterVars, collectorVars, adviceVars>>
  \/ /\ BusRests /\ ArchiveInit /\ CollectorInit /\ AdviceInit
     /\ ExporterStep
     /\ UNCHANGED <<busVars, dispatcherVars, archiveVars, collectorVars, adviceVars>>
  \/ /\ BusRests /\ ArchiveInit /\ ExporterInit /\ AdviceInit
     /\ CollectorStep
     /\ UNCHANGED <<busVars, dispatcherVars, archiveVars, exporterVars, adviceVars>>
  \/ /\ BusRests /\ ArchiveInit /\ ExporterInit /\ CollectorInit
     /\ \/ AdviceInit /\ PolicyStep
        \/ decision = Nobody /\ AdviceStep
     /\ UNCHANGED <<busVars, dispatcherVars, archiveVars, exporterVars, collectorVars>>

MCSpec ==
  /\ MCInit
  /\ [][MCNext]_<<busVars, dispatcherVars, archiveVars, exporterVars, collectorVars, adviceVars>>
  /\ DispatcherFairness
=============================================================================

------------------------------ MODULE Dispatcher ------------------------------
(***************************************************************************)
(* extensions.Dispatcher: a subscriber of the bus that hands every event to *)
(* the bounded queue of every enabled extension; a worker per extension,    *)
(* which calls its handler; a reporter.  Close cancels all of them, and     *)
(* releases the extensions when they have ended.                            *)
(*                                                                         *)
(* The handlers are those extensions/runtime builds: scoped by tenant, they *)
(* write to a sink (consumers, policySink) that may fail, panic or hang.    *)
(***************************************************************************)
EXTENDS EventBus, Sums

CONSTANTS
  Dispatch,      \* the dispatcher's subscription
  Extensions,    \* enabled extensions
  Faulty,       \* those whose sinks may fail or block for ever
  Allowed,       \* events of a tenant on the allowlist
  QueueSize, ReportBuffer, SinkSize,
  NoEvent

ASSUME DispatcherAssumption ==
  /\ Dispatch \in Subscribers /\ Faulty \subseteq Extensions /\ Allowed \subseteq Events
  /\ NoEvent \notin Events
  /\ IsFiniteSet(Extensions)
  /\ {"dispatch", "reports"} \cap Extensions = {}
  /\ {QueueSize, ReportBuffer, SinkSize} \subseteq Nat \ {0}

VARIABLES
  dispatcher,    \* "new", "running", "closing", "releasing", "closed", "timeout"
  alive,         \* goroutines that run: extensions, "dispatch", "reports"
  offering,      \* dispatch: the event at hand, and the extensions that wait for it
  queue,         \* [Extensions -> runtime.queue]
  busy,          \* [Extensions -> the event its handler works on, or NoEvent]
  handled,       \* [Extensions -> the events its handler returned from]
  counters,      \* [Extensions -> received, queued, dropped, succeeded, failed]
  reports,       \* d.reports: how many are buffered
  reported, reportsDropped,
  output,        \* [Extensions -> events whose summary the sink has]
  overflow,      \* [Extensions -> summaries the full sink dropped]
  released       \* extensions whose Close has returned

runVars == <<alive, offering, queue, busy, handled, counters, reports, reported,
             reportsDropped, output, overflow, released>>
dispatcherVars == <<dispatcher, runVars>>

Zero == [received |-> 0, queued |-> 0, dropped |-> 0, succeeded |-> 0, failed |-> 0]
Nothing == [event |-> NoEvent, todo |-> {}]
Cancelled == dispatcher \notin {"new", "running"}

DispatcherInit ==
  /\ dispatcher = "new" /\ alive = {} /\ offering = Nothing
  /\ queue = [x \in Extensions |-> <<>>]
  /\ busy = [x \in Extensions |-> NoEvent]
  /\ handled = [x \in Extensions |-> <<>>]
  /\ counters = [x \in Extensions |-> Zero]
  /\ reports = 0 /\ reported = 0 /\ reportsDropped = 0
  /\ output = [x \in Extensions |-> <<>>]
  /\ overflow = [x \in Extensions |-> 0]
  /\ released = {}

(* Start: subscribe, and run dispatch, the workers and the reporter. *)
Start ==
  /\ dispatcher = "new"
  /\ Subscribe(Dispatch)
  /\ dispatcher' = "running"
  /\ alive' = Extensions \cup {"dispatch", "reports"}
  /\ UNCHANGED <<offering, queue, busy, handled, counters, reports, reported,
                 reportsDropped, output, overflow, released>>

(* dispatch receives an event. *)
TakeEvent ==
  /\ "dispatch" \in alive /\ offering = Nothing
  /\ Receive(Dispatch)
  /\ offering' = [event |-> Head(channel[Dispatch]), todo |-> Extensions]
  /\ UNCHANGED <<dispatcher, alive, queue, busy, handled, counters, reports, reported,
                 reportsDropped, output, overflow, released>>

Count(x, name) == [counters EXCEPT ![x].received = @ + 1, ![x][name] = @ + 1]

(* Mutant: the full queue of one extension ends the round. *)
OfferUntilFull(x) ==
  /\ x \in offering.todo
  /\ IF Len(queue[x]) < QueueSize
     THEN /\ queue' = [queue EXCEPT ![x] = Append(@, offering.event)]
          /\ counters' = Count(x, "queued")
          /\ offering' = IF offering.todo = {x} THEN Nothing ELSE [offering EXCEPT !.todo = @ \ {x}]
     ELSE /\ counters' = Count(x, "dropped")
          /\ offering' = Nothing /\ UNCHANGED queue
  /\ UNCHANGED <<busVars, dispatcher, alive, busy, handled, reports, reported,
                 reportsDropped, output, overflow, released>>

(* Mutant: dispatch waits for a place in every queue. *)
OfferWaiting(x) ==
  /\ x \in offering.todo /\ \A y \in offering.todo : Len(queue[y]) < QueueSize
  /\ queue' = [queue EXCEPT ![x] = Append(@, offering.event)]
  /\ counters' = Count(x, "queued")
  /\ offering' = IF offering.todo = {x} THEN Nothing ELSE [offering EXCEPT !.todo = @ \ {x}]
  /\ UNCHANGED <<busVars, dispatcher, alive, busy, handled, reports, reported,
                 reportsDropped, output, overflow, released>>

(* dispatch offers the event to one extension; a full queue loses it. *)
Offer(x) ==
  /\ x \in offering.todo
  /\ IF Len(queue[x]) < QueueSize
     THEN /\ queue' = [queue EXCEPT ![x] = Append(@, offering.event)]
          /\ counters' = Count(x, "queued")
     ELSE /\ counters' = Count(x, "dropped") /\ UNCHANGED queue
  /\ offering' = IF offering.todo = {x} THEN Nothing ELSE [offering EXCEPT !.todo = @ \ {x}]
  /\ UNCHANGED <<busVars, dispatcher, alive, busy, handled, reports, reported,
                 reportsDropped, output, overflow, released>>

(* worker receives an event and calls the handler. *)
Work(x) ==
  /\ x \in alive /\ busy[x] = NoEvent /\ queue[x] # <<>>
  /\ busy' = [busy EXCEPT ![x] = Head(queue[x])]
  /\ queue' = [queue EXCEPT ![x] = Tail(@)]
  /\ UNCHANGED <<busVars, dispatcher, alive, offering, handled, counters, reports, reported,
                 reportsDropped, output, overflow, released>>

(* scoped.Handle: an event of another tenant is not passed on. *)
Writes(e) == e \in Allowed

(* MemorySink: a full sink drops the summary and says nothing. *)
Emit(x, e) ==
  IF ~Writes(e) THEN UNCHANGED <<output, overflow>>
  ELSE IF Len(output[x]) < SinkSize
  THEN output' = [output EXCEPT ![x] = Append(@, e)] /\ UNCHANGED overflow
  ELSE overflow' = [overflow EXCEPT ![x] = @ + 1] /\ UNCHANGED output

(* enqueueReport. *)
EnqueueReport ==
  IF reports < ReportBuffer
  THEN reports' = reports + 1 /\ UNCHANGED reportsDropped
  ELSE reportsDropped' = reportsDropped + 1 /\ UNCHANGED reports

(* execute: the handler succeeds; or its sink, which only an allowed event     *)
(* reaches, returns an error, panics or gives up at its deadline.            *)
Handle(x) ==
  LET e == busy[x]
  IN /\ e # NoEvent
     /\ \/ /\ Emit(x, e)
           /\ counters' = [counters EXCEPT ![x].succeeded = @ + 1]
        \/ /\ x \in Faulty /\ Writes(e)
           /\ counters' = [counters EXCEPT ![x].failed = @ + 1]
           /\ UNCHANGED <<output, overflow>>
     /\ busy' = [busy EXCEPT ![x] = NoEvent]
     /\ handled' = [handled EXCEPT ![x] = Append(@, e)]
     /\ EnqueueReport
     /\ UNCHANGED <<busVars, dispatcher, alive, offering, queue, reported, released>>

(* reportLoop. *)
Report ==
  /\ "reports" \in alive /\ reports > 0
  /\ reports' = reports - 1 /\ reported' = reported + 1
  /\ UNCHANGED <<busVars, dispatcher, alive, offering, queue, busy, handled, counters,
                 reportsDropped, output, overflow, released>>

(* A goroutine ends between two events: the context is done, or, for dispatch, *)
(* the channel is closed and empty.                                          *)
MayEnd(g) ==
  CASE g = "dispatch" -> offering = Nothing
                         /\ (Cancelled \/ (sub[Dispatch] = "closed" /\ channel[Dispatch] = <<>>))
    [] g = "reports" -> Cancelled
    [] OTHER -> Cancelled /\ busy[g] = NoEvent

End(g) ==
  /\ g \in alive /\ MayEnd(g)
  /\ alive' = alive \ {g}
  /\ UNCHANGED <<busVars, dispatcher, offering, queue, busy, handled, counters, reports, reported,
                 reportsDropped, output, overflow, released>>

(* Close: cancel the context and the subscription.  A dispatcher that was      *)
(* never started is closed at once; a second call does nothing.              *)
Close ==
  /\ dispatcher \in {"new", "running"}
  /\ dispatcher' = IF dispatcher = "new" THEN "closed" ELSE "closing"
  /\ Unsubscribe(Dispatch)
  /\ UNCHANGED runVars

(* Mutant: only the dispatch goroutine is waited for. *)
WaitForDispatch ==
  /\ dispatcher = "closing" /\ "dispatch" \notin alive
  /\ dispatcher' = "releasing"
  /\ UNCHANGED <<busVars, runVars>>

(* The wait groups are done, or CloseTimeout passes. *)
Wait ==
  /\ dispatcher = "closing"
  /\ \/ alive = {} /\ dispatcher' = "releasing"
     \/ dispatcher' = "timeout"
  /\ UNCHANGED <<busVars, runVars>>

(* closeWithTimeout for one extension after the other; an error, or            *)
(* CloseTimeout, ends it.                                                    *)
Release(x) ==
  /\ dispatcher = "releasing" /\ x \notin released
  /\ \/ /\ released' = released \cup {x}
        /\ dispatcher' = IF released' = Extensions THEN "closed" ELSE dispatcher
     \/ dispatcher' = "closed" /\ UNCHANGED released
  /\ UNCHANGED <<busVars, alive, offering, queue, busy, handled, counters, reports, reported,
                 reportsDropped, output, overflow>>

BusStep ==
  /\ \/ \E e \in Events : Publish(e)
     \/ CloseBus
     \/ \E s \in Subscribers \ {Dispatch} :
          Subscribe(s) \/ Receive(s) \/ (sub[s] = "open" /\ Unsubscribe(s))
  /\ UNCHANGED dispatcherVars

DispatcherStep ==
  \/ Start \/ TakeEvent \/ Report \/ Close \/ Wait
  \/ \E x \in Extensions : Offer(x) \/ Work(x) \/ Handle(x) \/ Release(x)
  \/ \E g \in alive : End(g)

(* The goroutines are scheduled; a handler returns unless its sink hangs.     *)
DispatcherFairness ==
  /\ WF_<<busVars, dispatcherVars>>(TakeEvent)
  /\ \A x \in Extensions :
       WF_<<busVars, dispatcherVars>>(Offer(x)) /\ WF_<<busVars, dispatcherVars>>(Work(x))
  /\ \A x \in Extensions \ Faulty : WF_<<busVars, dispatcherVars>>(Handle(x))

-----------------------------------------------------------------------------
InHand(x) == IF busy[x] = NoEvent THEN <<>> ELSE <<busy[x]>>
Offered(x) == IF x \in offering.todo THEN <<offering.event>> ELSE <<>>

(* An extension gets every event once at most, in the order of the bus, through *)
(* the channel, the fan-out and its queue, and misses only what is counted:    *)
(* what the bus delivered was offered to every extension, and is queued or     *)
(* dropped; what was queued has succeeded, failed, or waits; every execution   *)
(* is reported, waits to be, or is counted as dropped; and the outputs are of  *)
(* successes on allowed events.                                                *)
ExtensionMissesOnlyCounted ==
  /\ Total([x \in Extensions |-> Len(handled[x])]) = reported + reports + reportsDropped
  /\ \A x \in Extensions :
       LET c == counters[x]
       IN /\ InOrder(handled[x] \o InHand(x) \o queue[x] \o Offered(x) \o channel[Dispatch],
                     since[Dispatch])
          /\ c.received = Len(seen[Dispatch]) - Len(Offered(x))
          /\ c.received = c.queued + c.dropped
          /\ c.queued = c.succeeded + c.failed + Len(InHand(x)) + Len(queue[x])
          /\ Len(handled[x]) = c.succeeded + c.failed
          /\ ElementsOf(output[x]) \subseteq Allowed /\ InOrder(output[x], 0)
          /\ Len(output[x]) + overflow[x] <= c.succeeded

(* An extension is closed only when no goroutine is left that could call it. *)
ReleasedWhenQuiet ==
  released # {} => alive = {} /\ \A x \in Extensions : busy[x] = NoEvent

Idle(x) == InHand(x) \o queue[x] \o Offered(x) \o channel[Dispatch] = <<>>

(* When the bus closes, what it has delivered still reaches every extension    *)
(* whose handlers return, whatever those of the others do, unless the        *)
(* dispatcher is closed first.                                               *)
ClosedBusDrains ==
  busClosed ~> Cancelled \/ \A x \in Extensions \ Faulty : Idle(x)
=============================================================================

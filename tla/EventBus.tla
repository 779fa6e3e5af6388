------------------------------- MODULE EventBus -------------------------------
(***************************************************************************)
(* events.Bus: what is published is sent to the channel of every            *)
(* subscription, without waiting; a channel that is full loses the event.   *)
(* Publish, Subscribe and Close hold b.mu; a receiver takes no lock.        *)
(***************************************************************************)
EXTENDS Naturals, Sequences, FiniteSets

CONSTANTS
  Subscribers,
  Events,        \* event IDs: DeterministicID of what New has validated
  Buffer         \* BusConfig.Buffer

ASSUME BusAssumption == Buffer \in Nat \ {0}

VARIABLES
  published,     \* the events published, in the order of b.mu
  busClosed,     \* metrics.Closed
  sub,           \* [Subscribers -> "none", "open" or "closed"]
  channel,       \* [Subscribers -> what is buffered in s.ch]
  lost,          \* [Subscribers -> s.dropped]
  seen,          \* [Subscribers -> what was received]
  since          \* [Subscribers -> how many were published before Subscribe]

busVars == <<published, busClosed, sub, channel, lost, seen, since>>

BusInit ==
  /\ published = <<>> /\ busClosed = FALSE
  /\ sub = [s \in Subscribers |-> "none"]
  /\ channel = [s \in Subscribers |-> <<>>]
  /\ lost = [s \in Subscribers |-> 0]
  /\ seen = [s \in Subscribers |-> <<>>]
  /\ since = [s \in Subscribers |-> 0]

ElementsOf(q) == {q[i] : i \in DOMAIN q}

(* b.dedup: an ID is published once, whatever became of it. *)
Fresh(e) == e \notin ElementsOf(published)

Full(s) == Len(channel[s]) >= Buffer

(* Mutant: a full channel is emptied for the newest event. *)
SendNewest(s, e) ==
  IF sub[s] # "open" THEN channel[s] ELSE IF Full(s) THEN <<e>> ELSE Append(channel[s], e)

Send(s, e) == IF sub[s] = "open" /\ ~Full(s) THEN Append(channel[s], e) ELSE channel[s]

(* Publish; a duplicate and a closed bus change nothing. *)
Publish(e) ==
  /\ ~busClosed /\ Fresh(e)
  /\ published' = Append(published, e)
  /\ channel' = [s \in Subscribers |-> Send(s, e)]
  /\ lost' = [s \in Subscribers |-> lost[s] + IF sub[s] = "open" /\ Full(s) THEN 1 ELSE 0]
  /\ UNCHANGED <<busClosed, sub, seen, since>>

Subscribe(s) ==
  /\ ~busClosed /\ sub[s] = "none"
  /\ sub' = [sub EXCEPT ![s] = "open"]
  /\ since' = [since EXCEPT ![s] = Len(published)]
  /\ UNCHANGED <<published, busClosed, channel, lost, seen>>

(* A receive from C(): a closed channel still gives what it has buffered. *)
Receive(s) ==
  /\ channel[s] # <<>>
  /\ seen' = [seen EXCEPT ![s] = Append(@, Head(channel[s]))]
  /\ channel' = [channel EXCEPT ![s] = Tail(@)]
  /\ UNCHANGED <<published, busClosed, sub, lost, since>>

(* Subscription.Close, once: remove does nothing to a bus that is closed. *)
Unsubscribe(s) ==
  /\ sub' = [sub EXCEPT ![s] = IF @ = "open" THEN "closed" ELSE @]
  /\ UNCHANGED <<published, busClosed, channel, lost, seen, since>>

CloseBus ==
  /\ ~busClosed /\ busClosed' = TRUE
  /\ sub' = [s \in Subscribers |-> IF sub[s] = "open" THEN "closed" ELSE sub[s]]
  /\ UNCHANGED <<published, channel, lost, seen, since>>

-----------------------------------------------------------------------------
Position(e) == CHOOSE i \in DOMAIN published : published[i] = e

(* q is a part of what was published after the first n, in the same order. *)
InOrder(q, n) ==
  /\ \A i \in DOMAIN q : q[i] \in ElementsOf(published) /\ Position(q[i]) > n
  /\ \A i, j \in DOMAIN q : i < j => Position(q[i]) < Position(q[j])

(* A subscriber receives what is published while it is open, in order and     *)
(* once, but for the events its full channel lost, which Dropped counts.     *)
SubscriberMissesOnlyLost ==
  \A s \in Subscribers :
    LET got == seen[s] \o channel[s]
    IN /\ InOrder(got, since[s])
       /\ sub[s] = "open" => Len(got) + lost[s] = Len(published) - since[s]
       /\ sub[s] = "closed" => Len(got) + lost[s] <= Len(published) - since[s]
=============================================================================

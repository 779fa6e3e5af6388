----------------------------- MODULE RunnerListing -----------------------------
(***************************************************************************)
(* github.RegistrationVerifier: it lists the repository's runners page by   *)
(* page, while runners come and go, until the one it waits for is online or *)
(* the deadline passes.                                                     *)
(***************************************************************************)
EXTENDS Integers, SequencesExt

CONSTANTS
  GitHubRunners,
  Expected,          \* the runner the assignment waits for
  PageSize,          \* githubRunnerPageSize
  MaxChanges         \* bound: runners registered, removed, connected, disconnected

ASSUME ListingAssumption == Expected \in GitHubRunners /\ PageSize \in Nat \ {0}

VARIABLES
  listed,            \* GitHub: the registered runners, in the order of the listing
  online,            \* GitHub: those that are connected
  verifier,          \* "idle", "waiting", "listing", "found", "failed", "timeout"
  page, got,         \* ListRunners
  changes

listingVars == <<listed, online, verifier, page, got, changes>>

ListingInit ==
  /\ listed = <<Expected>> /\ online = {}
  /\ verifier = "idle" /\ page = 1 /\ got = <<>>
  /\ changes = 0

(* Other assignments register runners, and ephemeral ones go away. *)
GitHubChanges ==
  /\ changes < MaxChanges /\ changes' = changes + 1
  /\ \/ \E r \in GitHubRunners \ ToSet(listed) :
          \E i \in 1 .. Len(listed) + 1 : listed' = InsertAt(listed, i, r) /\ UNCHANGED online
     \/ \E r \in ToSet(listed) \ {Expected} :
          /\ listed' = SelectSeq(listed, LAMBDA s : s # r)
          /\ online' = online \ {r}
     \/ \E r \in ToSet(listed) :
          /\ online' = IF r \in online THEN online \ {r} ELSE online \cup {r}
          /\ UNCHANGED listed
  /\ UNCHANGED <<verifier, page, got>>

PageOf(n) == SubSeq(listed, (n - 1) * PageSize + 1, Min({n * PageSize, Len(listed)}))

(* WaitForRegistration is called. *)
WaitForRunner ==
  /\ verifier = "idle" /\ verifier' = "waiting"
  /\ UNCHANGED <<listed, online, page, got, changes>>

BeginListing ==
  /\ verifier = "waiting"
  /\ verifier' = "listing" /\ page' = 1 /\ got' = <<>>
  /\ UNCHANGED <<listed, online, changes>>

(* Mutant: a page that is just full is taken for the last. *)
IsLastIfFull(items) == Len(items) <= PageSize

(* ListRunners: a page that is not full is the last. *)
IsLast(items) == Len(items) < PageSize

(* getJSON for one page; after the last one the poll looks for its runner. *)
ReadPage ==
  LET items == PageOf(page)
      all == got \o [i \in DOMAIN items |-> [id |-> items[i], online |-> items[i] \in online]]
  IN /\ verifier = "listing"
     /\ got' = all
     /\ IF ~IsLast(items) THEN page' = page + 1 /\ UNCHANGED verifier
        ELSE /\ verifier' = IF [id |-> Expected, online |-> TRUE] \in ToSet(all)
                            THEN "found" ELSE "waiting"
             /\ UNCHANGED page
     /\ UNCHANGED <<listed, online, changes>>

(* Retries have run out, or the deadline of the verifier or its caller passes. *)
EndWait ==
  /\ \/ verifier = "listing" /\ verifier' \in {"failed", "timeout"}
     \/ verifier = "waiting" /\ verifier' = "timeout"
  /\ UNCHANGED <<listed, online, page, got, changes>>

ListingStep == GitHubChanges \/ WaitForRunner \/ BeginListing \/ ReadPage \/ EndWait

(* The poll goes on until the deadline, which may or may not come first. *)
ListingFairness == WF_listingVars(BeginListing) /\ WF_listingVars(ReadPage)

-----------------------------------------------------------------------------
(* Once the runner stays online, and few enough others come and go, the        *)
(* verifier sees it, unless it has given up before.  A single listing may     *)
(* miss it: a removal moves the runners behind it one place up, and one may   *)
(* pass from a page to the one just read.                                    *)
OnlineIsSeen ==
  <>[](Expected \in online /\ verifier # "idle") => <>(verifier \in {"found", "failed", "timeout"})
=============================================================================

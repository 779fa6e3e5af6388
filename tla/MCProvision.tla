----------------------------- MODULE MCProvision -----------------------------
(* Provisioning, the placement of jobs in pools, the wait for a runner to      *)
(* register, the two caches, the network profiles and the admission of jobs,  *)
(* which share nothing: each of the seven moves only while the others have   *)
(* not begun.                                                                 *)
EXTENDS Provisioning, Placement, RunnerListing, Cache, ObjectCache, NetworkProfiles,
        Admission, TLC

MCPolicies == {[initial |-> 1, max |-> 3], [initial |-> 3, max |-> 7]}

MCJobLabels == {{}, {"gpu"}}

MCDeclared ==
  LET pool(owner, max, startup, labels, availabilities) ==
        {[owner |-> owner, max |-> max, startup |-> startup, labels |-> labels,
          availability |-> a] : a \in availabilities}
  IN [id \in PoolIds |->
        CASE id = "own" -> pool("customer", 1, 2, {"linux"}, {"available", "draining"})
          [] id = "spare" -> pool("customer", 0, 3, {"linux", "gpu"}, {"available"})
          [] id = "rented" -> pool("managed", 1, 1, {"linux"}, {"available", "unavailable"})
                              \cup pool("managed", 2, 1, {}, {"available"})]

MCOffers ==
  LET offer(profile, egress, posture, endpoints) ==
        [profile |-> profile, egress |-> egress, posture |-> posture, endpoints |-> endpoints]
  IN {offer("private", "restricted", {"isolated"}, {"git"}),
      offer("private", "unrestricted", {"isolated", "untrusted"}, {"git", "registry"}),
      offer("public", "internet", {"public"}, {"git"}),
      offer("private", "none", {"untrusted"}, {})}

MCRequirements ==
  MCOffers \cup
  [profile : {Unset}, egress : {Unset, "restricted", "internet"},
   posture : {{}, {"untrusted", "isolated"}}, endpoints : {{}, {"git"}}]

Unblanked(x) == [both |-> x, left |-> x, right |-> x, none |-> x]
BlankAfter(x, blank) == [both |-> x, left |-> blank, right |-> x, none |-> blank]

MCFolded ==
  [x \in {"Acme", "acme", "acme ", "Widgets", "widgets", "wid\\gets", "Linux ", "linux", "other",
          "", " "} |->
     CASE x = "Acme" -> Unblanked("acme") [] x = "Widgets" -> Unblanked("widgets")
       [] x = "acme " -> BlankAfter("acme", "acme ") [] x = "Linux " -> BlankAfter("linux", "linux ")
       [] x = " " -> [both |-> "", left |-> "", right |-> "", none |-> " "]
       [] OTHER -> Unblanked(x)]

MCBackslashed == {"wid\\gets"}

MCScopes ==
  [organizations : {<<>>, <<<<"Acme">>>>, <<<<"linux">>>>},
   repositories : {<<>>, <<<<"acme", "Widgets">>>>, <<<<"acme", "Widgets">>, <<"Acme", "widgets">>>>},
   labels : {<<>>, <<<<"linux">>>>, <<<<"Linux ">>, <<" ">>>>},
   forks : BOOLEAN]

MCRequests ==
  [repository : {<<"acme", "widgets">>, <<"Acme", "other">>, <<"other", "widgets">>, <<"acme">>,
                 <<"acme", "">>, <<"acme", "widgets", "other">>, <<"acme ", "widgets">>,
                 <<"acme", "wid\\gets">>},
   labels : {{}, {"Linux "}, {"linux", "other"}}, fork : BOOLEAN]

CacheRests == clock = 1 /\ ops = 0
ObjectsRest == calls = 0
ProvisionRests == step = "idle"
NetworkRests == edits = 0 /\ query.for = Unset
AdmissionRests == stage = "start" /\ verdict = NoScope
PlacementRests == writes = 0 /\ mode = CHOOSE m \in Modes : TRUE

MCInit ==
  /\ ProvisionInit
  /\ PlacementInit
  /\ ListingInit
  /\ CacheInit
  /\ ObjectInit
  /\ NetworkInit
  /\ AdmissionInit

MCNext ==
  \/ /\ PlacementRests /\ ListingInit /\ CacheRests /\ ObjectsRest /\ NetworkRests
     /\ AdmissionRests
     /\ ProvisionStep
     /\ UNCHANGED <<placementVars, listingVars, cacheVars, objectVars, networkVars, admissionVars>>
  \/ /\ ProvisionRests /\ ListingInit /\ CacheRests /\ ObjectsRest /\ NetworkRests
     /\ AdmissionRests
     /\ PlacementStep
     /\ UNCHANGED <<provisionVars, listingVars, cacheVars, objectVars, networkVars, admissionVars>>
  \/ /\ ProvisionRests /\ PlacementRests /\ CacheRests /\ ObjectsRest
     /\ NetworkRests /\ AdmissionRests
     /\ ListingStep
     /\ UNCHANGED <<provisionVars, placementVars, cacheVars, objectVars, networkVars, admissionVars>>
  \/ /\ ProvisionRests /\ PlacementRests /\ ListingInit /\ ObjectsRest
     /\ NetworkRests /\ AdmissionRests
     /\ CacheStep
     /\ UNCHANGED <<provisionVars, placementVars, listingVars, objectVars, networkVars, admissionVars>>
  \/ /\ ProvisionRests /\ PlacementRests /\ ListingInit /\ CacheRests
     /\ NetworkRests /\ AdmissionRests
     /\ ObjectStep
     /\ UNCHANGED <<provisionVars, placementVars, listingVars, cacheVars, networkVars, admissionVars>>
  \/ /\ ProvisionRests /\ PlacementRests /\ ListingInit /\ CacheRests /\ ObjectsRest
     /\ AdmissionRests
     /\ NetworkStep
     /\ UNCHANGED <<provisionVars, placementVars, listingVars, cacheVars, objectVars, admissionVars>>
  \/ /\ ProvisionRests /\ PlacementRests /\ ListingInit /\ CacheRests /\ ObjectsRest
     /\ NetworkRests
     /\ \/ verdict = NoScope /\ AdmissionStep
        \/ stage = "start" /\ AuthorizationStep
     /\ UNCHANGED <<provisionVars, placementVars, listingVars, cacheVars, objectVars, networkVars>>

MCSpec ==
  /\ MCInit
  /\ [][MCNext]_<<provisionVars, placementVars, listingVars, cacheVars, objectVars,
                   networkVars, admissionVars>>
  /\ ProvisionFairness /\ ListingFairness
=============================================================================

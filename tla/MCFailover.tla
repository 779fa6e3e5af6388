----------------------------- MODULE MCFailover -----------------------------
(***************************************************************************)
(* A small instance of CapacityFailover: a pool that limits both runners    *)
(* and CPUs and comes first, and one that limits the CPUs only.             *)
(***************************************************************************)
EXTENDS CapacityFailover, TLC

MCMaxRunners == [p \in Pools |-> IF p = "small" THEN 2 ELSE 0]
MCMaxCPU == [p \in Pools |-> IF p = "small" THEN 3 ELSE 2]
MCRank == [p \in Pools |-> IF p = "small" THEN 1 ELSE 2]

Symmetry == Permutations(Controllers) \cup Permutations(Reservations)
            \cup Permutations(Requests)
=============================================================================

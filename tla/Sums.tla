--------------------------------- MODULE Sums ---------------------------------
(***************************************************************************)
(* The total of the values of a function: what the properties compare       *)
(* counters with.                                                           *)
(***************************************************************************)
EXTENDS FiniteSetsExt

Total(f) == MapThenSumSet(LAMBDA x : f[x], DOMAIN f)
===============================================================================

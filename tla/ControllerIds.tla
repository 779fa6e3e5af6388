--------------------------- MODULE ControllerIds ---------------------------
(***************************************************************************)
(* The controller processes, which are the owners of leases                *)
(* (coordination.OwnerID) and of replicas (capacity.Replica).              *)
(***************************************************************************)
EXTENDS Naturals

CONSTANTS
  Controllers,
  NoController   \* the empty owner

ASSUME ControllersAssumption == NoController \notin Controllers
=============================================================================

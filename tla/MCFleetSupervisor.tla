-------------------------- MODULE MCFleetSupervisor --------------------------
(***************************************************************************)
(* Instances of FleetSupervisor.  Repositories are started in their order, *)
(* so they are not interchangeable; poll slots are, but liveness forbids   *)
(* the symmetry.                                                           *)
(***************************************************************************)
EXTENDS FleetSupervisor
===============================================================================

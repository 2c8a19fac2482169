--------------------------- MODULE MCFleetAdmission ---------------------------
(* Instances of FleetAdmission for TLC. *)
EXTENDS FleetAdmission

CONSTANTS j1, j2
OneJob == {j1}
===============================================================================

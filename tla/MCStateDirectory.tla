--------------------------- MODULE MCStateDirectory ---------------------------
(* Two process ids for supervisors, one of them of an older build than the   *)
(* other and than the command.                                               *)
EXTENDS StateDirectory, TLC

CONSTANTS s1, s2, c

MCBuild == (s1 :> 1) @@ (s2 :> 2) @@ (c :> 2)
=============================================================================

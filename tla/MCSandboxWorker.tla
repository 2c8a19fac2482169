--------------------------- MODULE MCSandboxWorker ---------------------------
(***************************************************************************)
(* Instances of SandboxWorker.  One task has several runs, and the boxes   *)
(* of its runs meet in its clone.                                          *)
(***************************************************************************)
EXTENDS SandboxWorker
===============================================================================

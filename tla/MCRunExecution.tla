---------------------------- MODULE MCRunExecution ----------------------------
(* One task with two recoveries, so that a run can come after the one that   *)
(* fell back; any one thing may go wrong.                                    *)
EXTENDS RunExecution
=============================================================================

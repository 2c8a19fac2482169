------------------------ MODULE MCWorkspaceLifecycle ------------------------
(***************************************************************************)
(* Instances of WorkspaceLifecycle.  Tasks meet only at the retention      *)
(* limit, which RetentionIsBounded is about; everything else happens       *)
(* between the worker, the janitors and the operator of one task.          *)
(***************************************************************************)
EXTENDS WorkspaceLifecycle

\* One task has its life before it, the others ended and were cleaned up.
OneTaskInit ==
    /\ \E t \in Tasks :
         /\ task = [u \in Tasks |-> IF u = t THEN "queued" ELSE "succeeded"]
         /\ row = [u \in Tasks |-> IF u = t THEN "none" ELSE "cleaned"]
    /\ attempt = [t \in Tasks |-> 0]
    /\ reason = [t \in Tasks |-> "none"]
    /\ tree = [t \in Tasks |-> Absent]
    /\ worker = [t \in Tasks |-> "none"]
    /\ slots = "unread"
    /\ janitor = [j \in Janitors |-> Idle]
    /\ confirmed = {}
    /\ crashes = 0
    /\ up = TRUE

OneTaskSpec == OneTaskInit /\ [][Next]_vars /\ Fairness
===============================================================================

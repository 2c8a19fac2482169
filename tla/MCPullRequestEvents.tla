-------------------------- MODULE MCPullRequestEvents --------------------------
(***************************************************************************)
(* Two tickets with deliveries, one of which depends on the other; a task  *)
(* that depends on both, and one that depends on the first only through    *)
(* the second.                                                             *)
(***************************************************************************)
EXTENDS PullRequestEvents, TLC

CONSTANTS a, b, waiting, later

AllBlockers ==
    [t \in Tasks |-> CASE t = a -> {} [] t = b -> {a} [] t = waiting -> {a, b} [] t = later -> {b}]
AllReachable == [t \in Tasks |-> IF t = later THEN {a, b} ELSE AllBlockers[t]]
AllAutonomous == [t \in Tasks |-> "autonomous"]
SomeOpened == {[state |-> "open", attention |-> TRUE, rev |-> 0],
               [state |-> "merged", attention |-> FALSE, rev |-> 0]}
==============================================================================

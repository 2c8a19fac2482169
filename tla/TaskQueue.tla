------------------------------ MODULE TaskQueue ------------------------------
(***************************************************************************)
(* What the ledger promises about each task, without runs, daemons, leases *)
(* or processes: a task is queued, executed by one attempt at a time,      *)
(* retried at most Budget times, and then concluded; a concluded task      *)
(* stays concluded, except that a succeeded one may be continued.          *)
(*                                                                         *)
(* Every component that writes the state of a task keeps this promise:     *)
(* the ledger with its daemons, the supervision of an execution on the     *)
(* host, the sandbox backend and the workers of workspaces.                *)
(*                                                                         *)
(* One recovery closes the runs of several tasks in a single transaction,  *)
(* so one step may move several tasks.                                     *)
(***************************************************************************)
EXTENDS Naturals

CONSTANTS Tasks, Budget, Continuable

VARIABLES status, spent

vars == <<status, spent>>

Status == {"absent", "queued", "running", "succeeded", "failed", "cancelled"}

TypeOK ==
    /\ status \in [Tasks -> Status]
    /\ spent \in [Tasks -> 0 .. Budget]

\* Tasks may be there from the start, but no attempt at one.
Init ==
    /\ status \in [Tasks -> Status \ {"running"}]
    /\ spent = [t \in Tasks |-> 0]

\* Task t goes from one status to another; its count of retries follows.
Moves(t, from, to, count) ==
    /\ status[t] = from
    /\ status'[t] = to
    /\ spent'[t] = count

Stays(t) == status'[t] = status[t] /\ spent'[t] = spent[t]

Submit(t) == Moves(t, "absent", "queued", 0)
Start(t) == Moves(t, "queued", "running", spent[t])
Retry(t) == spent[t] < Budget /\ Moves(t, "running", "queued", spent[t] + 1)
Conclude(t) == \E s \in {"succeeded", "failed", "cancelled"} : Moves(t, "running", s, 0)
Continue(t) == t \in Continuable /\ Moves(t, "succeeded", "queued", 0)

Next ==
    /\ status' \in [Tasks -> Status]
    /\ spent' \in [Tasks -> 0 .. Budget]
    /\ \A t \in Tasks :
         Stays(t) \/ Submit(t) \/ Start(t) \/ Retry(t) \/ Conclude(t) \/ Continue(t)

Spec == Init /\ [][Next]_vars
==============================================================================

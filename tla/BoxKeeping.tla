------------------------------ MODULE BoxKeeping ------------------------------
(***************************************************************************)
(* What the sandbox backend promises about the box of each run, without    *)
(* rows, clones, workers, failing commands and dying daemons: a run gets   *)
(* one box at most, an agent works only in the box of its open run, what   *)
(* it changed is saved after it has left, and only then the box goes.      *)
(*                                                                         *)
(* An agent that an attempt to stop did not reach is lost: it may change   *)
(* its box at any time, and nothing can be promised about what it does     *)
(* after the box was saved.                                                *)
(*                                                                         *)
(* One recovery closes the runs of several tasks in a single transaction,  *)
(* so one step may move several runs.                                      *)
(***************************************************************************)
CONSTANT Runs

VARIABLE run

States == [life : {"ahead", "open", "closed"},
           box : {"none", "creating", "present", "gone"},
           agent : {"out", "in", "lost"},
           work : {"none", "unsaved", "saved"}]

Init == run = [r \in Runs |-> [life |-> "ahead", box |-> "none",
                               agent |-> "out", work |-> "none"]]

\* A run is open only once, and no agent goes on in the box of a closed one.
Open(r) ==
    /\ run[r].life = "ahead"
    /\ run'[r] = [run[r] EXCEPT !.life = "open"]

Close(r) ==
    /\ run[r].life = "open" /\ run[r].agent # "in"
    /\ run'[r] = [run[r] EXCEPT !.life = "closed"]

\* The box appears or its creation comes to nothing, also after the run has ended.
Create(r) ==
    /\ run[r].life = "open" /\ run[r].box = "none"
    /\ run'[r] = [run[r] EXCEPT !.box = "creating"]

Appear(r) ==
    /\ run[r].box = "creating"
    /\ \E s \in {"present", "gone"} : run'[r] = [run[r] EXCEPT !.box = s]

Enter(r) ==
    /\ run[r].life = "open" /\ run[r].box = "present"
    /\ run[r].agent = "out" /\ run[r].work = "none"
    /\ run'[r] = [run[r] EXCEPT !.agent = "in"]

Change(r) ==
    /\ run[r].agent # "out"
    /\ run'[r] = [run[r] EXCEPT !.work = "unsaved"]

Leave(r) ==
    /\ run[r].agent = "in"
    /\ \E s \in {"out", "lost"} : run'[r] = [run[r] EXCEPT !.agent = s]

\* Nothing is saved under the hands of the agent, and nothing unsaved goes.
Save(r) ==
    /\ run[r].box = "present" /\ run[r].agent # "in" /\ run[r].work = "unsaved"
    /\ run'[r] = [run[r] EXCEPT !.work = "saved"]

Discard(r) ==
    /\ run[r].box = "present" /\ run[r].agent # "in"
    /\ run[r].work # "unsaved" \/ run[r].agent = "lost"
    /\ run'[r] = [run[r] EXCEPT !.box = "gone"]

Moves(r) ==
    \/ Open(r) \/ Close(r) \/ Create(r) \/ Appear(r) \/ Enter(r)
    \/ Change(r) \/ Leave(r) \/ Save(r) \/ Discard(r)

Next ==
    /\ run' \in [Runs -> States]
    /\ \A r \in Runs : run'[r] = run[r] \/ Moves(r)

Spec == Init /\ [][Next]_run
===============================================================================

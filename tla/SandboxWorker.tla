----------------------------- MODULE SandboxWorker -----------------------------
(***************************************************************************)
(* Ticket tasks in Docker Sandbox mode: execute_sandbox_task and           *)
(* reconcile_sandbox_workers of src/daemon.rs over the commands of         *)
(* src/sandbox.rs and the clones of src/clone.rs.                          *)
(*                                                                         *)
(* Every run works in a microVM of its own, the box, on a copy of the      *)
(* task's host clone.  What the agent leaves is fetched back into the      *)
(* clone before the box is removed.  A row of run_sandboxes says how far   *)
(* that has come; the row is always written before the command it          *)
(* announces, and a daemon that starts settles the boxes it finds before   *)
(* it requeues the runs they belong to.  Commands fail, the daemon dies    *)
(* between any two steps, and the creation of a box may outlive its        *)
(* client.                                                                 *)
(*                                                                         *)
(* A row and the command after it are one step: that the daemon dies       *)
(* between the two looks like the failure of the command.  The other       *)
(* assumption is that `sbx exec` lasts as long as the agent it started.    *)
(***************************************************************************)
EXTENDS Naturals, FiniteSets

CONSTANTS
    Tasks,        \* ids of ticket tasks
    MaxAttempts,  \* MAX_RECOVERY_ATTEMPTS
    MaxTroubles   \* bound of the model on failing commands, lost ledger writes
                  \* and deaths of the daemon

ASSUME SandboxAssumption == MaxAttempts \in Nat /\ MaxTroubles \in Nat

VARIABLES
    task,       \* tasks.state
    attempt,    \* recovery attempts a task has used
    outcome,    \* runs.outcome, "none" before the claim
    requested,  \* runs that an operator wants cancelled
    row,        \* run_sandboxes.state, "none" without a row
    gone,       \* rows with a removed_at
    box,        \* the microVM of each run
    agents,     \* runs whose agent is at work in its box
    work,       \* what became of the changes of each run's agent
    clone,      \* the host clone of a task, or rather its task_workspaces row
    head,       \* the attempt whose changes the clone shows, 0 for the base
    worker,     \* the step of each task's worker
    result,     \* how the execution of its run ended
    daemon,     \* the stage of the daemon
    found,      \* boxes that start-up has still to settle
    troubles,   \* how much has gone wrong
    late,       \* history: boxes that appeared, since the last start looked, when nobody
                \* expected them any more
    unstopped   \* boxes that an attempt to stop did not stop

ledger == <<task, attempt, outcome, requested>>
rows == <<row, gone>>
boxes == <<box, agents, late, unstopped>>
contents == <<work, clone, head>>
workers == <<worker, result>>
host == <<daemon, found, troubles>>
vars == <<ledger, rows, boxes, contents, workers, host>>

Attempts == 0 .. MaxAttempts
Runs == Tasks \X Attempts
Run(t) == <<t, attempt[t]>>

TaskStates == {"queued", "running", "succeeded", "failed", "cancelled"}
Terminal(t) == task[t] \in {"succeeded", "failed", "cancelled"}
Outcomes == {"none", "running", "succeeded", "failed", "cancelled"}
Endings == {"exited", "timed_out", "cancelled", "error"}
RowStates == {"none", "creating", "created", "retained", "removing", "removed", "recovered"}
             \cup Endings
WorkerSteps == {"none", "claimed", "prepared", "creating", "executing", "failing",
                "preserving", "reporting", "removing", "removed", "closing", "finalizing"}
Boots == {"down", "settling", "rescuing", "removing", "removed", "up", "stopping"}

Init ==
    /\ task = [t \in Tasks |-> "queued"]
    /\ attempt = [t \in Tasks |-> 0]
    /\ outcome = [r \in Runs |-> "none"]
    /\ requested = {}
    /\ row = [r \in Runs |-> "none"] /\ gone = {}
    /\ box = [r \in Runs |-> "none"]
    /\ agents = {} /\ late = {} /\ unstopped = {}
    /\ work = [r \in Runs |-> "none"]
    /\ clone = [t \in Tasks |-> "none"]
    /\ head = [t \in Tasks |-> 0]
    /\ worker = [t \in Tasks |-> "none"]
    /\ result = [t \in Tasks |-> "exited"]
    /\ daemon = [at |-> "up", run |-> {}]
    /\ found = {}
    /\ troubles = 0

--------------------------------------------------------------------------------
\* What the world does to a command.

Trouble == troubles < MaxTroubles /\ troubles' = troubles + 1
Fine == UNCHANGED troubles
Stage(s) == daemon.at = s
Serving == daemon.at \in {"up", "stopping"}
\* The run's token: the daemon stops, or the monitor has seen a durable request.  A
\* monitor that cannot read the ledger cancels as well, which is a trouble below.
Interrupted(t) == Stage("stopping") \/ Run(t) \in requested

Goto(t, s) == worker' = [worker EXCEPT ![t] = s]
SetRow(r, s) == row' = [row EXCEPT ![r] = s]

\* `sbx stop` ends the agent or fails, and then the agent may go on.
Stopped(r) == agents' = agents \ {r} /\ UNCHANGED <<box, late, unstopped>>
NotStopped(r) == unstopped' = unstopped \cup (agents \cap {r}) /\ UNCHANGED <<box, late, agents>>

--------------------------------------------------------------------------------
\* Claim and workspace.

Claim(t) ==
    /\ Stage("up") /\ task[t] = "queued"
    /\ worker[t] = "none"
    /\ task' = [task EXCEPT ![t] = "running"]
    /\ outcome' = [outcome EXCEPT ![Run(t)] = "running"]
    /\ Goto(t, "claimed")
    /\ UNCHANGED <<attempt, requested, rows, boxes, contents, result, host>>

\* The run ends before its launch or is found orphaned; a budget limits how often
\* the task returns to the queue.
Requeued(t) ==
    IF attempt[t] < MaxAttempts THEN "queued" ELSE "failed"

NextAttempt(t) == IF attempt[t] < MaxAttempts THEN attempt[t] + 1 ELSE attempt[t]

\* A clone is made aside and moved into place unless there is one already.
CloneReady(t) == clone' = [clone EXCEPT ![t] = "ready"]

\* The reserved base is checked out whatever the clone shows: no task has a branch of
\* its own.
CheckedOut(t) == head' = [head EXCEPT ![t] = 0]

Prepare(t) ==
    /\ Serving /\ worker[t] = "claimed"
    /\ clone[t] # "cleaned"
    /\ CloneReady(t) /\ CheckedOut(t)
    /\ Goto(t, "prepared")
    /\ UNCHANGED <<ledger, rows, boxes, work, result, host>>

PrepareFails(t) ==
    /\ Serving /\ worker[t] = "claimed"
    /\ outcome' = [outcome EXCEPT ![Run(t)] = "failed"]
    /\ task' = [task EXCEPT ![t] = Requeued(t)]
    /\ attempt' = [attempt EXCEPT ![t] = NextAttempt(t)]
    /\ Goto(t, "none")
    /\ UNCHANGED <<requested, rows, boxes, contents, result, host>>

--------------------------------------------------------------------------------
\* SandboxWorker::run.

\* `sbx create`, under a name made from instance and run.
CreationStarted(r) ==
    box' = [box EXCEPT ![r] = "creating"] /\ UNCHANGED <<agents, late, unstopped>>

\* The row of a box, which only an open run can have.
Recorded(r) == outcome[r] = "running" /\ SetRow(r, "creating")

Create(t) ==
    /\ Serving /\ worker[t] = "prepared"
    /\ Recorded(Run(t))
    /\ CreationStarted(Run(t))
    /\ Goto(t, "creating")
    /\ UNCHANGED <<ledger, gone, contents, result, host>>

\* `sbx version` fails or is cancelled, or the row is refused: the run ends without a
\* box.
VersionFails(t) ==
    /\ Serving /\ worker[t] = "prepared"
    /\ result' = [result EXCEPT ![t] = "error"]
    /\ Goto(t, "closing")
    /\ UNCHANGED <<ledger, rows, boxes, contents, host>>

\* Somebody still waits for the creation of this box.
Expected(r) ==
    /\ outcome[r] = "running"
    /\ Stage("down") \/ worker[r[1]] \in {"creating", "failing", "removing"}

\* The box appears, or its creation comes to nothing.
CreationEnds(r) ==
    /\ box[r] = "creating"
    /\ \/ box' = [box EXCEPT ![r] = "present"]
          /\ late' = IF Expected(r) THEN late ELSE late \cup {r}
       \/ box' = [box EXCEPT ![r] = "none"]
          /\ UNCHANGED late
    /\ UNCHANGED <<ledger, rows, agents, unstopped, contents, workers, host>>

\* `sbx create` returns; the row says so before the agent starts.
Execute(t) ==
    /\ Serving /\ worker[t] = "creating" /\ box[Run(t)] = "present"
    /\ SetRow(Run(t), "created")
    /\ agents' = agents \cup {Run(t)}
    /\ Goto(t, "executing")
    /\ UNCHANGED <<ledger, gone, box, late, unstopped, contents, result, host>>

\* `sbx create` fails, takes longer than its timeout or is cancelled.  Only its
\* client is killed.
CreateFails(t) ==
    /\ Serving /\ worker[t] = "creating"
    /\ result' = [result EXCEPT ![t] = "error"]
    /\ Goto(t, "failing")
    /\ UNCHANGED <<ledger, rows, boxes, contents, host>>

\* The box is there, but the ledger does not take its row: it is removed at once,
\* if that works.
RecordCreatedFails(t) ==
    /\ Serving /\ worker[t] = "creating" /\ box[Run(t)] = "present"
    /\ Trouble
    /\ box' \in {box, [box EXCEPT ![Run(t)] = "none"]}
    /\ result' = [result EXCEPT ![t] = "error"]
    /\ Goto(t, "failing")
    /\ UNCHANGED <<ledger, rows, agents, late, unstopped, contents, daemon, found>>

AgentWorks(r) ==
    /\ r \in agents
    /\ work' = [work EXCEPT ![r] = "unsaved"]
    /\ UNCHANGED <<ledger, rows, boxes, clone, head, workers, host>>

AgentExits(r) ==
    /\ r \in agents
    /\ agents' = agents \ {r}
    /\ UNCHANGED <<ledger, rows, box, late, unstopped, contents, workers, host>>

\* The agent's exit, a cancellation or the deadline ends the execution.
ExecutionEnds(t) ==
    /\ Serving /\ worker[t] = "executing" /\ Run(t) \notin agents
    /\ result' = [result EXCEPT ![t] = "exited"]
    /\ Goto(t, "preserving")
    /\ UNCHANGED <<ledger, rows, boxes, contents, host>>

\* The defect: only cancellations are answered.
InterruptCancelled(t) ==
    /\ Serving /\ worker[t] = "executing" /\ Run(t) \in agents
    /\ Interrupted(t) /\ result' = [result EXCEPT ![t] = "cancelled"]
    /\ Stopped(Run(t))
    /\ Goto(t, "preserving")
    /\ UNCHANGED <<ledger, rows, contents, host>>

\* The defect: the agent is left to itself.
InterruptOnly(t) ==
    /\ Serving /\ worker[t] = "executing" /\ Run(t) \in agents
    /\ \/ Interrupted(t) /\ result' = [result EXCEPT ![t] = "cancelled"]
       \/ result' = [result EXCEPT ![t] = "timed_out"]
    /\ Goto(t, "preserving")
    /\ UNCHANGED <<ledger, rows, boxes, contents, host>>

Interrupt(t) ==
    /\ Serving /\ worker[t] = "executing" /\ Run(t) \in agents
    /\ \/ Interrupted(t) /\ Fine /\ result' = [result EXCEPT ![t] = "cancelled"]
       \/ Trouble /\ result' = [result EXCEPT ![t] = "cancelled"]
       \/ Fine /\ result' = [result EXCEPT ![t] = "timed_out"]
    /\ Stopped(Run(t))
    /\ Goto(t, "preserving")
    /\ UNCHANGED <<ledger, rows, contents, daemon, found>>

\* The exec cannot be started or fed, the stop fails, or a pipe stays open.  One
\* more stop is tried.
ExecutionFails(t) ==
    /\ Serving /\ worker[t] = "executing"
    /\ Trouble
    /\ Stopped(Run(t)) \/ NotStopped(Run(t))
    /\ result' = [result EXCEPT ![t] = "error"]
    /\ Goto(t, "failing")
    /\ UNCHANGED <<ledger, rows, contents, daemon, found>>

--------------------------------------------------------------------------------
\* The end of a run.

\* The defect: no box is rescued after an error.
FailForgets(t) ==
    /\ Serving /\ worker[t] = "failing"
    /\ SetRow(Run(t), "error")
    /\ Goto(t, "removing")
    /\ UNCHANGED <<ledger, gone, boxes, contents, result, host>>

\* After an error only a box that was recorded as created is worth a rescue.
Fail(t) ==
    /\ Serving /\ worker[t] = "failing"
    /\ SetRow(Run(t), "error")
    /\ Goto(t, IF row[Run(t)] = "created" THEN "preserving" ELSE "removing")
    /\ UNCHANGED <<ledger, gone, boxes, contents, result, host>>

\* The snapshot in the box is fetched into the clone and checked out there.
HandedOver(r) ==
    /\ work' = [work EXCEPT ![r] = IF @ = "none" THEN @ ELSE "saved"]
    /\ head' = [head EXCEPT ![r[1]] = IF work[r] = "none" THEN 0 ELSE r[2] + 1]
    /\ UNCHANGED clone

\* Sandbox and host Git must work, and there must be a clone to fetch into.
Possible(r) == box[r] = "present" /\ clone[r[1]] # "cleaned"

Preserve(t) ==
    /\ Serving /\ worker[t] = "preserving"
    /\ Possible(Run(t))
    /\ SetRow(Run(t), result[t])
    /\ HandedOver(Run(t))
    /\ Goto(t, IF result[t] = "error" THEN "removing" ELSE "reporting")
    /\ UNCHANGED <<ledger, gone, boxes, result, host>>

\* The box is stopped, if that works, and kept; the run fails.
PreserveFails(t) ==
    /\ Serving /\ worker[t] = "preserving"
    /\ Trouble
    /\ Stopped(Run(t)) \/ NotStopped(Run(t))
    /\ SetRow(Run(t), "retained")
    /\ result' = [result EXCEPT ![t] = "error"]
    /\ Goto(t, "closing")
    /\ UNCHANGED <<ledger, gone, contents, daemon, found>>

\* finish_run_and_task.  No process was ever recorded for the run, so that a failure
\* is final; a durable cancellation takes precedence.
Finish(t, o) ==
    LET final == IF Run(t) \in requested THEN "cancelled" ELSE o
    IN  /\ outcome' = [outcome EXCEPT ![Run(t)] = final]
        /\ task' = [task EXCEPT ![t] = final]
        /\ UNCHANGED <<attempt, requested>>

\* The status of the agent decides about a run that exited.
Verdicts(t) ==
    CASE result[t] = "exited" -> {"succeeded", "failed"}
      [] result[t] = "cancelled" -> {"cancelled"}
      [] OTHER -> {"failed"}

Report(t) ==
    /\ Serving /\ worker[t] = "reporting"
    /\ \E o \in Verdicts(t) : Finish(t, o)
    /\ Goto(t, "removing")
    /\ UNCHANGED <<rows, boxes, contents, result, host>>

\* After an execution the run is closed by now, after an error it is not.
AfterRemoval(t) == IF result[t] = "error" THEN "closing" ELSE "finalizing"

\* `sbx rm --force`, which does not reach a box that is still being created.
Erased(r) ==
    /\ box' = [box EXCEPT ![r] = IF @ = "present" THEN "none" ELSE @]
    /\ agents' = agents \ {r}
    /\ UNCHANGED <<late, unstopped>>

Remove(t) ==
    /\ Serving /\ worker[t] = "removing"
    /\ SetRow(Run(t), "removing")
    /\ Erased(Run(t))
    /\ Goto(t, "removed")
    /\ UNCHANGED <<ledger, gone, contents, result, host>>

RemoveFails(t) ==
    /\ Serving /\ worker[t] = "removing"
    /\ Trouble
    /\ SetRow(Run(t), "removing")
    /\ Goto(t, AfterRemoval(t))
    /\ UNCHANGED <<ledger, gone, boxes, contents, result, daemon, found>>

CloseRow(t) ==
    /\ Serving /\ worker[t] = "removed"
    /\ SetRow(Run(t), result[t])
    /\ gone' = gone \cup {Run(t)}
    /\ Goto(t, AfterRemoval(t))
    /\ UNCHANGED <<ledger, boxes, contents, result, host>>

CloseFailed(t) ==
    /\ Serving /\ worker[t] = "closing"
    /\ Finish(t, "failed")
    /\ Goto(t, "finalizing")
    /\ UNCHANGED <<rows, boxes, contents, result, host>>

\* A ledger write fails and the worker gives up where it is: a run that is still
\* open stays so until the daemon starts again.
Abandon(t) ==
    /\ Serving /\ worker[t] \notin {"none", "claimed", "executing", "finalizing"}
    /\ Trouble
    /\ Goto(t, "finalizing")
    /\ UNCHANGED <<ledger, rows, boxes, contents, result, daemon, found>>

\* What `git status` may say of a clone: it is clean, it is not, it cannot be read.
Previews == {"clean", "dirty", "error"}

\* finalize_task_workspace, called by the worker and by every recovery tick.  The
\* clone is detached, so that whatever is not the base counts as unpublished.
Disposal(t) ==
    {IF task[t] = "succeeded" /\ head[t] = 0 /\ p = "clean" THEN "cleaned" ELSE "retained" :
        p \in Previews}

Finalize(t) ==
    /\ Serving /\ worker[t] \in {"none", "finalizing"}
    /\ Goto(t, "none")
    /\ IF Terminal(t) /\ clone[t] = "ready"
       THEN \E s \in Disposal(t) : clone' = [clone EXCEPT ![t] = s]
       ELSE worker[t] = "finalizing" /\ UNCHANGED clone
    /\ UNCHANGED <<ledger, rows, boxes, work, head, result, host>>

--------------------------------------------------------------------------------
\* The daemon's start.

\* The boxes that `sbx ls` shows, and the rows whose removal is not recorded.
Owned == {r \in Runs : box[r] = "present"}
Unremoved == {r \in Runs : row[r] # "none"} \ gone

\* A removal that was announced and whose box has gone is complete.
Boot ==
    LET complete == {r \in Unremoved \ Owned : row[r] = "removing"}
    IN  /\ Stage("down")
        /\ found' = Owned
        /\ row' = [r \in Runs |-> IF r \in complete THEN "removed" ELSE row[r]]
        /\ gone' = gone \cup complete
        /\ daemon' = [at |-> "settling", run |-> {}]
        /\ late' = {}
        /\ UNCHANGED <<ledger, box, agents, unstopped, contents, workers, troubles>>

\* The defect: a row with an ending counts as settled.
SettleOpen(r) ==
    /\ Stage("settling") /\ r \in found
    /\ Stopped(r) /\ Fine
    /\ IF row[r] \in Endings \cup {"retained"}
       THEN found' = found \ {r} /\ UNCHANGED <<row, daemon>>
       ELSE SetRow(r, "recovered") /\ daemon' = [at |-> "rescuing", run |-> {r}] /\ UNCHANGED found
    /\ UNCHANGED <<ledger, gone, contents, workers>>

\* recover_sandbox stops the box, and if that fails it does not matter.
Silenced(r) ==
    \/ Stopped(r) /\ Fine
    \/ NotStopped(r) /\ Trouble

\* A box that was retained stays where it is.
Settle(r) ==
    /\ Stage("settling") /\ r \in found
    /\ Silenced(r)
    /\ IF row[r] = "retained"
       THEN found' = found \ {r} /\ UNCHANGED <<row, daemon>>
       ELSE SetRow(r, "recovered") /\ daemon' = [at |-> "rescuing", run |-> {r}] /\ UNCHANGED found
    /\ UNCHANGED <<ledger, gone, contents, workers>>

\* The stage at which start-up has the box of run r in hand.
Holds(s, r) == Stage(s) /\ daemon.run = {r}
Settled(r) == found' = found \ {r} /\ daemon' = [at |-> "settling", run |-> {}]

SettlePreserves(r) ==
    /\ Holds("rescuing", r) /\ Possible(r)
    /\ HandedOver(r)
    /\ daemon' = [at |-> "removing", run |-> {r}]
    /\ UNCHANGED <<ledger, rows, boxes, workers, found, troubles>>

\* Without a clone preservation cannot succeed.
SettleRetains(r) ==
    /\ Holds("rescuing", r)
    /\ \/ Trouble /\ (Stopped(r) \/ NotStopped(r))
       \/ ~Possible(r) /\ Fine /\ Stopped(r)
    /\ SetRow(r, "retained")
    /\ Settled(r)
    /\ UNCHANGED <<ledger, gone, contents, workers>>

SettleRemoves(r) ==
    /\ Holds("removing", r)
    /\ SetRow(r, "removing")
    /\ Erased(r)
    /\ daemon' = [at |-> "removed", run |-> {r}]
    /\ UNCHANGED <<ledger, gone, contents, workers, found, troubles>>

\* A box that cannot be removed ends the start.
SettleRemoveFails(r) ==
    /\ Holds("removing", r)
    /\ Trouble
    /\ SetRow(r, "removing")
    /\ daemon' = [at |-> "down", run |-> {}] /\ found' = {}
    /\ UNCHANGED <<ledger, gone, boxes, contents, workers>>

SettleCloses(r) ==
    /\ Holds("removed", r)
    /\ SetRow(r, "recovered")
    /\ gone' = gone \cup {r}
    /\ Settled(r)
    /\ UNCHANGED <<ledger, boxes, contents, workers, troubles>>

\* recover_orphaned_runs: every open run belonged to the daemon that died.
Recover ==
    LET open == {t \in Tasks : task[t] = "running"}
        final(t) == IF Run(t) \in requested THEN "cancelled" ELSE "failed"
    IN  /\ Stage("settling") /\ found = {}
        /\ outcome' = [r \in Runs |-> IF r[1] \in open /\ r = Run(r[1]) THEN final(r[1])
                                      ELSE outcome[r]]
        /\ task' = [t \in Tasks |-> IF t \notin open THEN task[t]
                                    ELSE IF Run(t) \in requested THEN "cancelled"
                                    ELSE Requeued(t)]
        /\ attempt' = [t \in Tasks |-> IF t \in open /\ Run(t) \notin requested THEN NextAttempt(t)
                                       ELSE attempt[t]]
        /\ daemon' = [at |-> "up", run |-> {}]
        /\ UNCHANGED <<requested, rows, boxes, contents, workers, found, troubles>>

\* Ctrl-C: no new claims, and the workers are cancelled and awaited.
Shutdown ==
    /\ Stage("up")
    /\ daemon' = [at |-> "stopping", run |-> {}]
    /\ UNCHANGED <<ledger, rows, boxes, contents, workers, found, troubles>>

Drained ==
    /\ Stage("stopping")
    /\ \A t \in Tasks : worker[t] = "none"
    /\ daemon' = [at |-> "down", run |-> {}]
    /\ UNCHANGED <<ledger, rows, boxes, contents, workers, found, troubles>>

\* The process dies.  Boxes, agents and creations under way live on.
Crash ==
    /\ ~Stage("down")
    /\ Trouble
    /\ daemon' = [at |-> "down", run |-> {}]
    /\ found' = {}
    /\ worker' = [t \in Tasks |-> "none"]
    /\ UNCHANGED <<ledger, rows, boxes, contents, result>>

\* request_run_cancellation, from the command line.
Request(t) ==
    /\ outcome[Run(t)] = "running"
    /\ requested' = requested \cup {Run(t)}
    /\ UNCHANGED <<task, attempt, outcome, rows, boxes, contents, workers, host>>

--------------------------------------------------------------------------------
\* What a worker does of its own accord, and what else a start does.
WorkerStep(t) ==
    \/ Prepare(t) \/ Create(t) \/ Execute(t) \/ CreateFails(t)
    \/ ExecutionEnds(t) \/ Interrupt(t) \/ Fail(t)
    \/ Preserve(t) \/ Report(t) \/ Remove(t) \/ CloseRow(t) \/ CloseFailed(t) \/ Finalize(t)

WorkerTrouble(t) ==
    \/ PrepareFails(t) \/ VersionFails(t) \/ RecordCreatedFails(t) \/ ExecutionFails(t)
    \/ PreserveFails(t) \/ RemoveFails(t) \/ Abandon(t)

BootStep ==
    \/ \E r \in Runs : Settle(r) \/ SettlePreserves(r) \/ SettleRetains(r) \/ SettleRemoves(r)
                       \/ SettleCloses(r)
    \/ Recover

Next ==
    \/ \E t \in Tasks : Claim(t) \/ WorkerStep(t) \/ WorkerTrouble(t) \/ Request(t)
    \/ \E r \in Runs : CreationEnds(r) \/ AgentWorks(r) \/ AgentExits(r) \/ SettleRemoveFails(r)
    \/ Boot \/ BootStep \/ Shutdown \/ Drained \/ Crash

\* The scheduler runs the workers and the start-up on.  Nobody promises that an
\* agent exits, that a box appears, or that somebody starts the daemon.
Fairness ==
    /\ \A t \in Tasks : WF_vars(WorkerStep(t))
    /\ WF_vars(BootStep)

Spec == Init /\ [][Next]_vars /\ Fairness

--------------------------------------------------------------------------------
\* Properties.

\* Tasks, runs, rows, boxes and the steps of workers and start-up keep their types.
TypeOK ==
    /\ task \in [Tasks -> TaskStates]
    /\ attempt \in [Tasks -> Attempts]
    /\ outcome \in [Runs -> Outcomes]
    /\ row \in [Runs -> RowStates]
    /\ box \in [Runs -> {"none", "creating", "present"}]
    /\ work \in [Runs -> {"none", "unsaved", "saved"}]
    /\ clone \in [Tasks -> {"none", "ready", "retained", "cleaned"}]
    /\ head \in [Tasks -> 0 .. MaxAttempts + 1]
    /\ worker \in [Tasks -> WorkerSteps] /\ result \in [Tasks -> Endings]
    /\ daemon \in [at : Boots, run : SUBSET Runs]
    /\ requested \cup gone \cup agents \cup found \cup late \cup unstopped \subseteq Runs
    /\ troubles \in 0 .. MaxTroubles

\* A box goes only when nothing in it is unsaved, wherever commands failed and the
\* daemon died; except where its agent could not be stopped and worked on.
RemovedBoxesAreHandedOver ==
    [][\A r \in Runs : box[r] = "present" /\ box'[r] = "none" /\ r \notin unstopped
                       => work[r] # "unsaved"]_vars

\* The agent of a run that is no longer open works nowhere, so that a recovery never
\* meets the agent it recovers from; except where no stop reached it.
AgentsHaveOpenRuns == \A r \in agents \ unstopped : outcome[r] = "running"

\* When a start lets the daemon claim, every box is removed or retained; except those
\* that appeared after it had looked.
StartSettlesBoxes ==
    [][Stage("settling") /\ daemon'.at = "up"
       => \A r \in Runs : box[r] = "present" => (row[r] = "retained" \/ r \in late)]_vars

\* A run ends, whatever its agent does, unless the daemon dies or the ledger refuses a
\* write of the worker, which leaves the run open without anybody to close it.
RunsEnd ==
    \A t \in Tasks :
        task[t] = "running" ~> \/ task[t] # "running" \/ Stage("down")
                               \/ Serving /\ worker[t] = "none"

--------------------------------------------------------------------------------
\* What a run is for its box: rows, workers and daemons left out.  A box that is
\* recorded and no longer there is gone; an agent that no stop reached is lost.
Life(r) ==
    CASE outcome[r] = "none" -> "ahead"
      [] outcome[r] = "running" -> "open"
      [] OTHER -> "closed"
BoxOf(r) == IF box[r] = "none" /\ row[r] # "none" THEN "gone" ELSE box[r]
AgentOf(r) == IF r \in unstopped THEN "lost" ELSE IF r \in agents THEN "in" ELSE "out"
RunState(r) == [life |-> Life(r), box |-> BoxOf(r), agent |-> AgentOf(r), work |-> work[r]]

Boxes == INSTANCE BoxKeeping WITH run <- [r \in Runs |-> RunState(r)]

\* Wherever commands fail and daemons die, workers and starts together keep the
\* boxes as promised: one box for a run, an agent only in the box of its open run,
\* its changes saved only after it has left, and the box removed only after that.
KeepsBoxes == Boxes!Spec

--------------------------------------------------------------------------------
\* The task as the queue sees it: the attempts it has used are forgotten when it has
\* ended, and nothing here continues one that succeeded.
Queue == INSTANCE TaskQueue WITH
    Budget <- MaxAttempts,
    Continuable <- {},
    status <- task,
    spent <- [t \in Tasks |-> IF Terminal(t) THEN 0 ELSE attempt[t]]

\* Seen through tasks alone, the workers, starts and recoveries of sandboxes implement the
\* task queue: a task that ended is not touched again by whoever still works for it.
ImplementsTaskQueue == Queue!Spec
================================================================================

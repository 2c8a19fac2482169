------------------------------ MODULE RunExecution ------------------------------
(***************************************************************************)
(* The executions of one task on the host: execute_task_inner, its run     *)
(* monitor and its record in src/daemon.rs, over the process supervision   *)
(* of src/runtime.rs and the rows of src/storage.rs.                       *)
(*                                                                         *)
(* A run starts a shell, the anchor, whose process id names a process      *)
(* group and is written to the ledger before the agent is spawned into     *)
(* that group.  A run that recovers an earlier one first resumes its       *)
(* session and, when that fails, starts afresh under a second anchor: a    *)
(* run has up to two executions.  A monitor per execution copies what the  *)
(* agent reports to the ledger and watches for a cancellation.  Exits,     *)
(* deadline, cancellation, failing ledger writes, the death of the daemon  *)
(* and of its host come in any order, and a process id is free for others  *)
(* as soon as its process is reaped.                                       *)
(*                                                                         *)
(* Assumed: nobody else kills an anchor alone; one daemon per data         *)
(* directory; a signal to a group that has left takes no time.             *)
(***************************************************************************)
EXTENDS Naturals

CONSTANTS
    MaxAttempts,  \* MAX_RECOVERY_ATTEMPTS
    MaxTroubles   \* bound of the model on failing steps and deaths of the daemon

ASSUME ExecutionAssumption == MaxAttempts \in Nat /\ MaxTroubles \in Nat

VARIABLES
    task,      \* tasks.state
    run,       \* how many runs the task has had
    row,       \* the row of the latest
    anchor,    \* the anchor shell of each group
    agent,     \* the agent process of each group
    helpers,   \* groups with a living descendant of their agent
    escaped,   \* a descendant outside the group holds the agent's pipes
    reused,    \* groups whose process id now names somebody else's group
    worker,    \* the step of the execution under way
    exec,      \* which execution of the run that is
    resumed,   \* the session it resumes
    held,      \* RunProcessGroup.process_id is set
    result,    \* the termination it observed
    token,     \* its cancellation token is cancelled
    expired,   \* its deadline is over
    observed,  \* the value in the observation channel of each execution
    unseen,    \* channels whose value their monitor has not seen
    monitors,  \* executions whose monitor is alive
    daemon,    \* the stage of the daemon
    troubles,  \* how much has gone wrong
    strayed    \* reused process ids that were signalled

ledger == <<task, run, row>>
processes == <<anchor, agent, helpers, escaped, reused, strayed>>
execution == <<worker, exec, resumed, held, result>>
signals == <<token, expired>>
channels == <<observed, unseen, monitors>>
host == <<daemon, troubles>>
vars == <<ledger, processes, execution, signals, channels, host>>

Executions == {1, 2}
Groups == (1 .. MaxAttempts + 1) \X Executions
None == <<0, 0>>

\* A session is named after the group of the agent that opened it.
Observations == [anchor : Groups \cup {None}, session : Groups \cup {None}]
Blank == [anchor |-> None, session |-> None]
Rows == [anchor : Groups \cup {None}, session : Groups \cup {None},
         requested : BOOLEAN,
         outcome : {"none", "running", "succeeded", "failed", "cancelled"}]
Row(outcome) == [anchor |-> None, session |-> None, requested |-> FALSE,
                 outcome |-> outcome]

Open == row.outcome = "running"
Group == <<run, exec>>

TypeOK ==
    /\ task \in {"queued", "running", "succeeded", "failed", "cancelled"}
    /\ run \in 0 .. MaxAttempts + 1 /\ row \in Rows
    /\ anchor \in [Groups -> {"gone", "alive", "zombie"}]
    /\ agent \in [Groups -> {"gone", "working", "ok", "bad"}]
    /\ helpers \subseteq Groups /\ escaped \in BOOLEAN
    /\ reused \subseteq Groups /\ strayed \subseteq Groups
    /\ worker \in {"idle", "starting", "anchored", "persisted", "running",
                   "terminating", "reaping", "joining", "returned", "recording"}
    /\ exec \in Executions /\ resumed \in Groups \cup {None}
    /\ held \in BOOLEAN /\ token \in BOOLEAN /\ expired \in BOOLEAN
    /\ result \in {"none", "ok", "bad", "error", "cancelled", "timed out"}
    /\ observed \in [Executions -> Observations]
    /\ unseen \subseteq Executions /\ monitors \subseteq Executions
    /\ daemon \in {"down", "up", "stopping"} /\ troubles \in 0 .. MaxTroubles

Init ==
    /\ task = "queued" /\ run = 0 /\ row = Row("none")
    /\ anchor = [g \in Groups |-> "gone"] /\ agent = [g \in Groups |-> "gone"]
    /\ helpers = {} /\ escaped = FALSE /\ reused = {} /\ strayed = {}
    /\ worker = "idle" /\ exec = 1 /\ resumed = None /\ held = FALSE
    /\ result = "none"
    /\ token = FALSE /\ expired = FALSE
    /\ observed = [e \in Executions |-> Blank] /\ unseen = {} /\ monitors = {}
    /\ daemon = "down" /\ troubles = 0

Trouble ==
    /\ troubles < MaxTroubles
    /\ troubles' = troubles + 1
    /\ UNCHANGED daemon

(***************************************************************************)
(* The ledger.                                                             *)
(***************************************************************************)

\* COALESCE: what an observation leaves out keeps its value in the row.
Observe(o) ==
    row' = [row EXCEPT !.anchor = IF o.anchor = None THEN @ ELSE o.anchor,
                       !.session = IF o.session = None THEN @ ELSE o.session]

Reset == row' = [row EXCEPT !.anchor = None, !.session = None]

\* The defect: the outcome of the execution overrides a request.
FinishAsObserved(outcome, allowRecovery) ==
    LET retry == /\ allowRecovery /\ outcome = "failed"
                 /\ row.anchor # None /\ run <= MaxAttempts
    IN /\ row' = [row EXCEPT !.outcome = outcome]
       /\ task' = IF retry THEN "queued" ELSE outcome
       /\ UNCHANGED run

\* A run ends as asked, or cancelled when that was requested; a failed one is
\* queued again if its process was recorded and attempts are left.
Finish(outcome, allowRecovery) ==
    LET final == IF row.requested THEN "cancelled" ELSE outcome
        retry == /\ allowRecovery /\ final = "failed"
                 /\ row.anchor # None /\ run <= MaxAttempts
    IN /\ row' = [row EXCEPT !.outcome = final]
       /\ task' = IF retry THEN "queued" ELSE final
       /\ UNCHANGED run

(***************************************************************************)
(* Processes.                                                              *)
(***************************************************************************)

Members(g) ==
    (IF agent[g] = "working" THEN {"agent"} ELSE {})
    \cup (IF g \in helpers THEN {"helper"} ELSE {})

\* A signal to the group that this process id names today.
Signal(g) == strayed' = IF g \in reused THEN strayed \cup {g} ELSE strayed

\* SIGKILL.  The anchor is left for its parent to reap; without a parent
\* ("gone") the system reaps it.
Kill(g, left) ==
    /\ Signal(g)
    /\ anchor' = [anchor EXCEPT ![g] = IF @ = "alive" THEN left ELSE @]
    /\ helpers' = helpers \ {g}
    /\ UNCHANGED <<escaped, reused>>

\* The agent of a group that was killed, by whether it is reaped too.
AgentKilled(g, left) ==
    agent' = [agent EXCEPT ![g] = IF @ = "working" THEN left ELSE @]

(***************************************************************************)
(* Starting an execution.                                                  *)
(***************************************************************************)

\* A worker takes all it knew of its execution with it.
EndWorker ==
    /\ worker' = "idle" /\ exec' = 1 /\ resumed' = None /\ held' = FALSE
    /\ result' = "none" /\ token' = FALSE /\ expired' = FALSE
    /\ observed' = [e \in Executions |-> Blank] /\ unseen' = {} /\ monitors' = {}

\* The claim opens a run; a recovery passes on the session of the run before.
Dispatch ==
    /\ daemon = "up" /\ task = "queued" /\ worker = "idle"
    /\ task' = "running"
    /\ run' = run + 1 /\ row' = Row("running")
    /\ worker' = "starting"
    /\ resumed' = row.session
    /\ monitors' = {1}
    /\ UNCHANGED <<processes, exec, held, result, signals, observed,
                   unseen, host>>

Interruption == IF token THEN "cancelled" ELSE "timed out"

\* The backend returns its verdict to execute_task_inner.
Returns(verdict) ==
    /\ worker' = "returned" /\ result' = verdict /\ held' = FALSE
    /\ UNCHANGED <<exec, resumed>>

\* Nothing was started yet: cancelled, out of time, a runtime that cannot
\* resume, an anchor that does not start.
StopEarly ==
    /\ worker = "starting" /\ (token \/ expired)
    /\ Returns(Interruption)
    /\ UNCHANGED <<ledger, processes, signals, channels, host>>

Refuse ==
    /\ worker = "starting" /\ resumed # None
    /\ Returns("error")
    /\ UNCHANGED <<ledger, processes, signals, channels, host>>

StartFails ==
    /\ worker = "starting" /\ Trouble
    /\ Returns("error")
    /\ UNCHANGED <<ledger, processes, signals, channels>>

StartAnchor ==
    /\ worker = "starting"
    /\ worker' = "anchored" /\ held' = TRUE
    /\ anchor' = [anchor EXCEPT ![Group] = "alive"]
    /\ escaped' = FALSE /\ reused' = {}
    /\ UNCHANGED <<ledger, agent, helpers, strayed, exec, resumed,
                   result, signals, channels, host>>

\* What the execution observes is sent to its monitor.
UpdateObservation(o) ==
    /\ observed' = [observed EXCEPT ![exec] = o]
    /\ unseen' = unseen \cup {exec}

\* The callback before the spawn writes the anchor to the ledger.
Persist ==
    /\ worker = "anchored" /\ ~token /\ ~expired
    /\ Observe([Blank EXCEPT !.anchor = Group])
    /\ UpdateObservation([Blank EXCEPT !.anchor = Group])
    /\ worker' = "persisted"
    /\ UNCHANGED <<task, run, processes, exec, resumed, held, result, signals,
                   monitors, host>>

\* RunProcessGroup::stop before there is an agent.
StopGroup(verdict) ==
    /\ Kill(Group, "gone")
    /\ Returns(verdict)
    /\ UNCHANGED <<ledger, agent, signals, channels>>

StopAnchored ==
    /\ worker \in {"anchored", "persisted"} /\ (token \/ expired)
    /\ StopGroup(Interruption)
    /\ UNCHANGED host

AnchoredFails ==
    /\ worker \in {"anchored", "persisted"} /\ Trouble
    /\ StopGroup("error")

Spawn ==
    /\ worker = "persisted" /\ ~token /\ ~expired
    /\ worker' = "running"
    /\ agent' = [agent EXCEPT ![Group] = "working"]
    /\ UNCHANGED <<ledger, anchor, helpers, escaped, reused, strayed, exec, resumed,
                   held, result, signals, channels, host>>

(***************************************************************************)
(* The agent.                                                              *)
(***************************************************************************)

\* Its first line names its session; a resumed one keeps the name it had.
AgentReports ==
    /\ worker \in {"running", "terminating"} /\ agent[Group] = "working"
    /\ observed[exec].session = None
    /\ UpdateObservation([observed[exec] EXCEPT !.session =
                             IF resumed = None THEN Group ELSE resumed])
    /\ UNCHANGED <<ledger, processes, execution, signals, monitors, host>>

\* Agents exit when they like, at a SIGTERM or in spite of one.
AgentExits(g) ==
    /\ agent[g] = "working"
    /\ \E status \in {"ok", "bad"} :
           agent' = [agent EXCEPT ![g] = IF daemon = "down" THEN "gone" ELSE status]
    /\ UNCHANGED <<ledger, anchor, helpers, escaped, reused, strayed, execution,
                   signals, channels, host>>

HelperStarts(g) ==
    /\ agent[g] = "working" /\ helpers' = helpers \cup {g}
    /\ UNCHANGED <<ledger, anchor, agent, escaped, reused, strayed, execution,
                   signals, channels, host>>

\* A descendant that calls setsid leaves the group with the agent's pipes.
HelperEscapes(g) ==
    /\ g \in helpers
    /\ helpers' = helpers \ {g} /\ escaped' = TRUE
    /\ UNCHANGED <<ledger, anchor, agent, reused, strayed, execution, signals,
                   channels, host>>

\* Somebody else's process gets the recorded id once nobody is left in the
\* group; ids that nothing refers to any more are left out.
Reuse(g) ==
    /\ g = row.anchor /\ anchor[g] = "gone" /\ Members(g) = {}
    /\ reused' = reused \cup {g}
    /\ UNCHANGED <<ledger, anchor, agent, helpers, escaped, strayed, execution,
                   signals, channels, host>>

(***************************************************************************)
(* Waiting for it.                                                         *)
(***************************************************************************)

\* The exit is observed without reaping, the group is killed, then the agent
\* is reaped: until then its process id and the anchor's are its own.
Exited(verdict) ==
    /\ worker' = "reaping" /\ result' = verdict
    /\ Kill(Group, "zombie")
    /\ agent' = [agent EXCEPT ![Group] = "gone"]
    /\ UNCHANGED <<ledger, exec, resumed, held, signals, channels, host>>

AwaitExit ==
    /\ worker = "running" /\ ~token /\ ~expired
    /\ agent[Group] \in {"ok", "bad"}
    /\ Exited(agent[Group])

\* SIGTERM to the group, on a cancellation or at the deadline, which come
\* before an exit, or because the prompt could not be delivered.
Terminate(verdict) ==
    /\ worker' = "terminating" /\ result' = verdict
    /\ Signal(Group)
    /\ UNCHANGED <<ledger, anchor, agent, helpers, escaped, reused, exec, resumed,
                   held, signals, channels>>

Interrupt ==
    /\ worker = "running" /\ (token \/ expired)
    /\ Terminate(Interruption)
    /\ UNCHANGED host

DeliveryFails ==
    /\ worker = "running" /\ Trouble
    /\ Terminate("error")

Terminated ==
    /\ worker = "terminating" /\ agent[Group] \in {"ok", "bad"}
    /\ Exited(result)

\* The defect: the grace ends with another SIGTERM.
GraceOverAgain ==
    /\ worker = "terminating" /\ agent[Group] = "working"
    /\ Signal(Group)
    /\ UNCHANGED <<ledger, anchor, agent, helpers, escaped, reused, execution, signals,
                   channels, host>>

\* The grace is over.
GraceOver ==
    /\ worker = "terminating" /\ agent[Group] = "working"
    /\ Kill(Group, "zombie") /\ AgentKilled(Group, "bad")
    /\ UNCHANGED <<ledger, execution, signals, channels, host>>

\* What the drop of the RunProcessGroup does when a group is still held.
DropGroup ==
    IF held
    THEN Kill(Group, "gone") /\ AgentKilled(Group, "gone")
    ELSE UNCHANGED processes

\* A signal or a wait fails: the error drops the group.
SupervisionFails ==
    /\ worker \in {"running", "terminating"} /\ Trouble
    /\ DropGroup
    /\ Returns("error")
    /\ UNCHANGED <<ledger, signals, channels>>

\* The defect: the group stays held after its anchor was reaped.
ReapHeld ==
    /\ worker = "reaping" /\ anchor[Group] = "zombie"
    /\ anchor' = [anchor EXCEPT ![Group] = "gone"]
    /\ worker' = "joining"
    /\ UNCHANGED <<ledger, agent, helpers, escaped, reused, strayed, exec, resumed,
                   held, result, signals, channels, host>>

\* Waits for the anchor, which only the kill above ends.
Reap ==
    /\ worker = "reaping" /\ anchor[Group] = "zombie"
    /\ anchor' = [anchor EXCEPT ![Group] = "gone"]
    /\ worker' = "joining" /\ held' = FALSE
    /\ UNCHANGED <<ledger, agent, helpers, escaped, reused, strayed, exec, resumed,
                   result, signals, channels, host>>

\* The readers end with the pipes of the agent.  A descendant that escaped
\* keeps them open; malformed output counts only for an agent that exited.
Join ==
    /\ worker = "joining"
    /\ DropGroup
    /\ \/ ~escaped /\ Returns(result)
       \/ (escaped \/ result \in {"ok", "bad"}) /\ Returns("error")
    /\ UNCHANGED <<ledger, signals, channels, host>>

(***************************************************************************)
(* The fallback, the record and the monitors.                              *)
(***************************************************************************)

NeedsFallback ==
    resumed # None /\ result \in {"bad", "error"} /\ ~token /\ ~expired

\* The defect: the first monitor runs on.
MonitorsKept == monitors' = monitors \cup {2}

\* The first monitor is gone before the row is reset and the second starts.
MonitorsReplaced == monitors' = {2}

FallBack ==
    /\ worker = "returned" /\ NeedsFallback
    /\ MonitorsReplaced
    /\ Reset
    /\ observed' = [observed EXCEPT ![2] = Blank]
    /\ exec' = 2 /\ resumed' = None /\ worker' = "starting" /\ result' = "none"
    /\ UNCHANGED <<task, run, processes, held, signals, unseen, host>>

ResetFails ==
    /\ worker = "returned" /\ NeedsFallback /\ Trouble
    /\ Finish("failed", TRUE)
    /\ EndWorker
    /\ UNCHANGED processes

\* The monitor is stopped and the last observation written.
Record ==
    /\ worker = "returned" /\ ~NeedsFallback
    /\ monitors' = {}
    /\ Observe(observed[exec])
    /\ worker' = "recording"
    /\ UNCHANGED <<task, run, processes, exec, resumed, held, result, signals,
                   observed, unseen, host>>

Outcome ==
    CASE result = "cancelled" -> "cancelled"
      [] result = "ok" -> "succeeded"
      [] OTHER -> "failed"

\* An execution that ran out of time is not tried again.
Close ==
    /\ worker = "recording"
    /\ Finish(Outcome, result # "timed out")
    /\ EndWorker
    /\ UNCHANGED <<processes, host>>

\* A failing write ends the worker and leaves the run open until a restart.
Abandon ==
    /\ worker \in {"returned", "recording"} /\ Trouble
    /\ EndWorker
    /\ UNCHANGED <<ledger, processes>>

MonitorWrites(e) ==
    /\ e \in monitors \cap unseen
    /\ Observe(observed[e])
    /\ unseen' = unseen \ {e}
    /\ UNCHANGED <<task, run, processes, execution, signals, observed, monitors, host>>

\* A monitor ends with the token; it cancels the token when it sees a request
\* and when it fails.
MonitorEnds(e) ==
    /\ e \in monitors /\ (token \/ row.requested)
    /\ token' = TRUE /\ monitors' = monitors \ {e}
    /\ UNCHANGED <<ledger, processes, execution, expired, observed, unseen, host>>

MonitorFails(e) ==
    /\ e \in monitors /\ Trouble
    /\ token' = TRUE /\ monitors' = monitors \ {e}
    /\ UNCHANGED <<ledger, processes, execution, expired, observed, unseen>>

(***************************************************************************)
(* The host.                                                               *)
(***************************************************************************)

Expire ==
    /\ worker # "idle" /\ ~expired /\ expired' = TRUE
    /\ UNCHANGED <<ledger, processes, execution, token, channels, host>>

\* Refused unless the run is open and its owner alive.
Request ==
    /\ Open /\ daemon # "down" /\ ~row.requested
    /\ row' = [row EXCEPT !.requested = TRUE]
    /\ UNCHANGED <<task, run, processes, execution, signals, channels, host>>

Stop ==
    /\ daemon = "up" /\ daemon' = "stopping"
    /\ token' = (worker # "idle")
    /\ UNCHANGED <<ledger, processes, execution, expired, channels, troubles>>

\* The loop waits for its workers.
Drained ==
    /\ daemon = "stopping" /\ worker = "idle" /\ daemon' = "down"
    /\ UNCHANGED <<ledger, processes, execution, signals, channels, troubles>>

\* The daemon is killed; what it had not reaped the system reaps.  When the
\* host goes down with it nothing is left of any process.
Die(rebooted) ==
    /\ daemon # "down" /\ daemon' = "down"
    /\ troubles < MaxTroubles /\ troubles' = troubles + 1
    /\ EndWorker
    /\ anchor' = [g \in Groups |->
                    IF anchor[g] = "zombie" \/ (rebooted /\ anchor[g] = "alive")
                    THEN "gone" ELSE anchor[g]]
    /\ agent' = [g \in Groups |->
                   IF \/ agent[g] \in {"ok", "bad"}
                      \/ rebooted /\ agent[g] = "working"
                   THEN "gone" ELSE agent[g]]
    /\ helpers' = (IF rebooted THEN {} ELSE helpers)
    /\ escaped' = (escaped /\ ~rebooted)
    /\ reused' = (IF rebooted THEN {} ELSE reused)
    /\ UNCHANGED <<ledger, strayed>>

\* The recorded process is stopped with its group if it still is the one that
\* was recorded.
StopRecorded ==
    LET g == row.anchor
    IN IF g # None /\ anchor[g] = "alive"
       THEN Kill(g, "gone") /\ AgentKilled(g, "gone")
       ELSE UNCHANGED processes

\* A daemon that starts closes the run its predecessor left open.
Boot ==
    /\ daemon = "down" /\ daemon' = "up"
    /\ \/ /\ Open /\ StopRecorded
          /\ row' = [row EXCEPT !.outcome =
                        IF row.requested THEN "cancelled" ELSE "failed"]
          /\ task' = CASE row.requested -> "cancelled"
                       [] ~row.requested /\ run <= MaxAttempts -> "queued"
                       [] OTHER -> "failed"
       \/ ~Open /\ UNCHANGED <<ledger, processes>>
    /\ UNCHANGED <<run, execution, signals, channels, troubles>>

WorkerStep ==
    \/ StopEarly \/ Refuse \/ StartAnchor \/ Persist \/ StopAnchored \/ Spawn
    \/ AwaitExit \/ Interrupt \/ Terminated \/ GraceOver \/ Reap \/ Join
    \/ FallBack \/ Record \/ Close

MonitorStep == \E e \in Executions : MonitorWrites(e) \/ MonitorEnds(e)

Next ==
    \/ Dispatch \/ WorkerStep \/ MonitorStep
    \/ StartFails \/ AnchoredFails \/ DeliveryFails \/ SupervisionFails
    \/ ResetFails \/ Abandon \/ (\E e \in Executions : MonitorFails(e))
    \/ AgentReports
    \/ \E g \in Groups : \/ AgentExits(g) \/ HelperStarts(g)
                         \/ HelperEscapes(g) \/ Reuse(g)
    \/ Expire \/ Request \/ Stop \/ Drained \/ Boot
    \/ \E rebooted \in BOOLEAN : Die(rebooted)

\* The worker and its monitors are tasks of the runtime and are scheduled; no
\* fairness is asked of agents, which may ignore every SIGTERM.
Spec == Init /\ [][Next]_vars /\ WF_vars(WorkerStep) /\ WF_vars(MonitorStep)

(***************************************************************************)
(* Properties.                                                             *)
(***************************************************************************)

\* Whatever lives in a group of a run, the run is open and its row names that
\* group: the ledger leads a daemon that starts after a crash to every agent,
\* none survives the record of its run, and a fallback never works beside the
\* agent it replaces.
AgentsAreAnchored ==
    \A g \in Groups : Members(g) # {} =>
        g[1] = run /\ Open /\ row.anchor = g

\* No signal of the supervision, of the drop of a group or of a recovery
\* reaches a process that merely got the id of one of the run's own.
SignalsStayHome == strayed = {}

\* A cancellation that was accepted while a run was open decides how it ends,
\* whichever of exit, deadline, fallback and crash comes first.
RequestsBind ==
    row.requested => row.outcome \in {"running", "cancelled"}

\* An execution that is cancelled, out of time or asked to stop ends, although
\* its agent and its descendants may ignore SIGTERM for ever.
ExecutionsEnd ==
    (worker # "idle" /\ (token \/ expired \/ row.requested))
        ~> (worker = "idle")

(***************************************************************************)
(* The one task as the queue sees it: every run after the first is an      *)
(* attempt it has used, and a task that has ended needs none.              *)
(***************************************************************************)
Only == "task"
Spent ==
    CASE task = "queued" -> run
      [] task = "running" -> run - 1
      [] OTHER -> 0

Queue == INSTANCE TaskQueue WITH
    Tasks <- {Only},
    Budget <- MaxAttempts,
    Continuable <- {},
    status <- [t \in {Only} |-> task],
    spent <- [t \in {Only} |-> Spent]

\* Whatever exits, fallbacks, monitors, failing writes and restarts do, the execution
\* closes each run of the task once, and retries stay within the budget.
ImplementsTaskQueue == Queue!Spec
=============================================================================

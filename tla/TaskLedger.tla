------------------------------ MODULE TaskLedger ------------------------------
(***************************************************************************)
(* The durable queue of src/storage.rs and the daemons of src/daemon.rs    *)
(* that drive it: the tables tasks, runs and daemon_owners, the ledger     *)
(* transactions that change them, the worker each claimed run has inside   *)
(* its daemon, and the agent process a worker supervises.                  *)
(*                                                                         *)
(* Several daemons may share one ledger, and any of them may stall, stop   *)
(* or crash between two transactions.  Every ledger operation is one       *)
(* SQLite transaction and therefore one step.  Time is abstracted: a lease *)
(* is fresh until, at a moment nobody controls, ten seconds have passed    *)
(* without a heartbeat.                                                    *)
(***************************************************************************)
EXTENDS Naturals, Sequences, FiniteSets

CONSTANTS
    Tasks,                \* rows of the tasks table that may come to exist
    Daemons,              \* daemon processes; each has an owner id of its own
    Sources,              \* (repository, source_item) pairs of tickets
    NoSource,             \* the source of a scheduled task
    SourceOf,             \* the source of each task
    RepositoryOf,         \* the repository of each task
    ServedBy,             \* the repository each daemon serves
    BranchOwned,          \* tasks whose workspace row records a branch
    MaxRecoveryAttempts,  \* MAX_RECOVERY_ATTEMPTS, two in the code
    ContinuationLimit,    \* reservations per ticket, three in the code
    MaxConcurrentRuns,    \* max_concurrent_runs of the configuration
    MaxRuns               \* bound of the model on the length of the runs table

ASSUME LedgerAssumption ==
    /\ NoSource \notin Sources
    /\ SourceOf \in [Tasks -> Sources \cup {NoSource}]
    /\ BranchOwned \subseteq Tasks
    /\ \A t \in BranchOwned : SourceOf[t] # NoSource
    /\ MaxRecoveryAttempts \in Nat
    /\ ContinuationLimit \in Nat
    /\ MaxConcurrentRuns \in Nat
    /\ MaxRuns \in Nat

VARIABLES
    taskState,       \* tasks.state, "absent" before the row exists
    recoverySource,  \* tasks.recovery_source_run_id, 0 for NULL
    continued,       \* rows of autonomous_continuations per ticket
    runs,            \* the runs table; a run's id is its position
    lease,           \* the daemon_owners row of each daemon
    proc,            \* where each daemon process is in its life
    worker,          \* where the worker of each run is; parallel to runs
    resuming,        \* runs whose worker will first resume a stored session
    agents           \* runs with a live agent process group

tables == <<taskState, recoverySource, continued, runs>>
vars == <<tables, lease, proc, worker, resuming, agents>>

TaskStates == {"absent", "queued", "running", "succeeded", "failed", "cancelled"}
Outcomes == {"running", "succeeded", "failed", "cancelled"}
LeaseStates == {"none", "fresh", "lapsed"}
ProcStates == {"unborn", "starting", "serving", "stopping", "exited", "crashed"}
WorkerStates == {"claimed", "prelaunch", "launching", "anchored", "supervising",
                 "recording", "gone"}

\* A run row.  anchored: process_id IS NOT NULL.  cancel:
\* cancellation_requested_at IS NOT NULL.  recoveryOf is 0 for NULL.
RunRow == [task : Tasks, owner : Daemons, outcome : Outcomes, anchored : BOOLEAN,
           cancel : BOOLEAN, attempt : Nat, recoveryOf : Nat]

RunIds == 1 .. Len(runs)
Running(r) == runs[r].outcome = "running"
Alive(d) == proc[d] \in {"starting", "serving", "stopping"}

\* A live owner holds an unexpired lease and its process exists.
OwnerIsLive(d) == lease[d] = "fresh" /\ Alive(d)

WorkersOf(d) == {r \in RunIds : runs[r].owner = d /\ worker[r] # "gone"}

\* The select loop of d is inside dispatch_available, between the claim
\* transaction and the spawn of the worker.
Dispatching(d) == \E r \in WorkersOf(d) : worker[r] = "claimed"

-------------------------------------------------------------------------------
Init ==
    /\ taskState = [t \in Tasks |-> "absent"]
    /\ recoverySource = [t \in Tasks |-> 0]
    /\ continued = [s \in Sources |-> 0]
    /\ runs = << >>
    /\ lease = [d \in Daemons |-> "none"]
    /\ proc = [d \in Daemons |-> "unborn"]
    /\ worker = << >>
    /\ resuming = {}
    /\ agents = {}

\* A poller or a schedule inserts a task row.
Enqueue(t) ==
    /\ taskState[t] = "absent"
    /\ taskState' = [taskState EXCEPT ![t] = "queued"]
    /\ UNCHANGED <<recoverySource, continued, runs, lease, proc, worker, resuming, agents>>

\* A trusted pull-request observation returns a succeeded task to the queue.
RequestContinuation(d, t) ==
    /\ proc[d] = "serving" /\ ~Dispatching(d)
    /\ ServedBy[d] = RepositoryOf[t]
    /\ t \in BranchOwned
    /\ taskState[t] = "succeeded"
    /\ continued[SourceOf[t]] < ContinuationLimit
    /\ continued' = [continued EXCEPT ![SourceOf[t]] = @ + 1]
    /\ taskState' = [taskState EXCEPT ![t] = "queued"]
    /\ UNCHANGED <<recoverySource, runs, lease, proc, worker, resuming, agents>>

-------------------------------------------------------------------------------
\* Defects the properties must notice: recovering runs of live owners, and
\* recovering only runs with a recorded process.
OrphansOfAnyOwner(d) == {r \in RunIds : Running(r) /\ RepositoryOf[runs[r].task] = ServedBy[d]}
OrphansWithProcess(d) ==
    {r \in OrphansOfAnyOwner(d) : runs[r].anchored /\ ~OwnerIsLive(runs[r].owner)}

\* Orphan recovery: one transaction over every running row of the served
\* repository whose owner is not live.  A recorded process group is killed, the
\* row is closed, and its task is requeued, failed or cancelled.
Orphans(d) ==
    {r \in RunIds : /\ Running(r)
                    /\ ~OwnerIsLive(runs[r].owner)
                    /\ RepositoryOf[runs[r].task] = ServedBy[d]}

OrphanOutcome(run) == IF run.cancel THEN "cancelled" ELSE "failed"

\* Defects: an off-by-one in the budget; a recovery that forgets cancellations.
OrphanTaskStateOneMore(run) ==
    IF run.cancel THEN "cancelled"
    ELSE IF run.attempt <= MaxRecoveryAttempts THEN "queued" ELSE "failed"
OrphanTaskStateUncancelled(run) ==
    IF run.attempt < MaxRecoveryAttempts THEN "queued" ELSE "failed"

OrphanTaskState(run) ==
    IF run.cancel THEN "cancelled"
    ELSE IF run.attempt < MaxRecoveryAttempts THEN "queued" ELSE "failed"

\* The recorded process groups of the orphans are killed.
Killed(d) == {r \in Orphans(d) : runs[r].anchored}

\* A running task with an orphaned run, and that run.
Interrupted(d, t) == taskState[t] = "running" /\ \E r \in Orphans(d) : runs[r].task = t
OrphanOf(d, t) == CHOOSE r \in Orphans(d) : runs[r].task = t

RecoverOrphans(d) ==
    /\ runs' = [r \in RunIds |->
                  IF r \in Orphans(d)
                  THEN [runs[r] EXCEPT !.outcome = OrphanOutcome(runs[r])]
                  ELSE runs[r]]
    /\ taskState' = [t \in Tasks |->
                  IF Interrupted(d, t) THEN OrphanTaskState(runs[OrphanOf(d, t)])
                  ELSE taskState[t]]
    /\ recoverySource' = [t \in Tasks |->
                  IF Interrupted(d, t) /\ OrphanTaskState(runs[OrphanOf(d, t)]) = "queued"
                  THEN OrphanOf(d, t)
                  ELSE recoverySource[t]]
    /\ agents' = agents \ Killed(d)

\* A new daemon recovers orphans before it registers its own lease.
StartupRecovery(d) ==
    /\ proc[d] = "unborn"
    /\ proc' = [proc EXCEPT ![d] = "starting"]
    /\ RecoverOrphans(d)
    /\ UNCHANGED <<continued, lease, worker, resuming>>

Register(d) ==
    /\ proc[d] = "starting"
    /\ proc' = [proc EXCEPT ![d] = "serving"]
    /\ lease' = [lease EXCEPT ![d] = "fresh"]
    /\ UNCHANGED <<tables, worker, resuming, agents>>

\* The recovery tick.  Its heartbeat and its recovery are two transactions, so
\* the lease may lapse in between: the step does not require it.
RecoveryTick(d) ==
    /\ proc[d] = "serving" /\ ~Dispatching(d)
    /\ Orphans(d) # {}
    /\ RecoverOrphans(d)
    /\ UNCHANGED <<continued, lease, proc, worker, resuming>>

-------------------------------------------------------------------------------
\* The daemon process and its lease.

\* Ten seconds pass without a heartbeat: the process stalls, or it is gone.
LeaseLapses(d) ==
    /\ lease[d] = "fresh"
    /\ lease' = [lease EXCEPT ![d] = "lapsed"]
    /\ UNCHANGED <<tables, proc, worker, resuming, agents>>

\* A heartbeat, or the lease check of a claim, finds the lease expired; either
\* ends the select loop and cancels every worker.
HeartbeatRejected(d) ==
    /\ proc[d] = "serving"
    /\ lease[d] # "fresh"
    /\ proc' = [proc EXCEPT ![d] = "stopping"]
    /\ UNCHANGED <<tables, lease, worker, resuming, agents>>

\* Ctrl-C, or an error that a select arm returns.
StopRequested(d) ==
    /\ proc[d] = "serving"
    /\ proc' = [proc EXCEPT ![d] = "stopping"]
    /\ UNCHANGED <<tables, lease, worker, resuming, agents>>

\* The workers have drained; the owner row is deleted.
Exit(d) ==
    /\ proc[d] = "stopping"
    /\ WorkersOf(d) = {}
    /\ proc' = [proc EXCEPT ![d] = "exited"]
    /\ lease' = [lease EXCEPT ![d] = "none"]
    /\ UNCHANGED <<tables, worker, resuming, agents>>

\* The process dies.  Its workers die with it; agent processes do not.
Crash(d) ==
    /\ Alive(d)
    /\ proc' = [proc EXCEPT ![d] = "crashed"]
    /\ worker' = [r \in RunIds |-> IF runs[r].owner = d THEN "gone" ELSE worker[r]]
    /\ resuming' = resuming \ WorkersOf(d)
    /\ UNCHANGED <<tables, lease, agents>>

-------------------------------------------------------------------------------
\* Claiming and dispatching.

\* Defect: a ticket is claimed although another task of it runs.
ClaimableAnyTicket(d, t) == taskState[t] = "queued" /\ RepositoryOf[t] = ServedBy[d]

\* A ticket waits while another task of the same ticket runs.
Claimable(d, t) ==
    /\ taskState[t] = "queued"
    /\ RepositoryOf[t] = ServedBy[d]
    /\ \/ SourceOf[t] = NoSource
       \/ \A u \in Tasks : taskState[u] = "running" => SourceOf[u] # SourceOf[t]

NewRun(d, t) ==
    [task |-> t, owner |-> d, outcome |-> "running", anchored |-> FALSE, cancel |-> FALSE,
     attempt |-> IF recoverySource[t] = 0 THEN 0 ELSE runs[recoverySource[t]].attempt + 1,
     recoveryOf |-> recoverySource[t]]

\* One transaction marks the task running, inserts its run and consumes the
\* recovery source.  Which claimable task is first is left open: the delivery
\* limit may skip any of them (WorkspaceLifecycle models order and limit).
Claim(d, t) ==
    /\ proc[d] = "serving" /\ ~Dispatching(d)
    /\ lease[d] = "fresh"
    /\ Cardinality(WorkersOf(d)) < MaxConcurrentRuns
    /\ Claimable(d, t)
    /\ Len(runs) < MaxRuns
    /\ taskState' = [taskState EXCEPT ![t] = "running"]
    /\ runs' = Append(runs, NewRun(d, t))
    /\ recoverySource' = [recoverySource EXCEPT ![t] = 0]
    /\ worker' = Append(worker, "claimed")
    /\ UNCHANGED <<continued, lease, proc, resuming, agents>>

\* set_run_agent_profile accepts the row and the worker is spawned.  A recovery
\* run resumes the stored session of its source when there is one.
Dispatch(r) ==
    /\ worker[r] = "claimed"
    /\ Running(r)
    /\ worker' = [worker EXCEPT ![r] = "prelaunch"]
    /\ \/ UNCHANGED resuming
       \/ runs[r].recoveryOf # 0 /\ resuming' = resuming \cup {r}
    /\ UNCHANGED <<tables, lease, proc, agents>>

\* An error between claim and spawn ends the select loop; the row stays behind.
DispatchFails(r) ==
    /\ worker[r] = "claimed"
    /\ worker' = [worker EXCEPT ![r] = "gone"]
    /\ proc' = [proc EXCEPT ![runs[r].owner] = "stopping"]
    /\ UNCHANGED <<tables, lease, resuming, agents>>

-------------------------------------------------------------------------------
\* The worker of one run.

\* The worker is gone: its last write succeeded or was refused.
Retire(r) ==
    /\ worker' = [worker EXCEPT ![r] = "gone"]
    /\ resuming' = resuming \ {r}

\* Close row r and move its task, as every finishing transaction does.
Close(r, outcome, requeue) ==
    LET t == runs[r].task
    IN  /\ runs' = [runs EXCEPT ![r].outcome = outcome]
        /\ taskState[t] = "running"
        /\ taskState' = [taskState EXCEPT ![t] = IF requeue THEN "queued" ELSE outcome]
        /\ recoverySource' = [recoverySource EXCEPT ![t] = IF requeue THEN r ELSE @]

\* Authorization, workspace preparation or the prompt failed.
PrelaunchFails(r) ==
    /\ worker[r] = "prelaunch"
    /\ Running(r) /\ ~runs[r].anchored
    /\ Close(r, "failed", runs[r].attempt < MaxRecoveryAttempts)
    /\ Retire(r)
    /\ UNCHANGED <<continued, lease, proc, agents>>

\* The workspace is ready: record_run_workspace accepts the row.
Prepared(r) ==
    /\ worker[r] = "prelaunch"
    /\ Running(r)
    /\ worker' = [worker EXCEPT ![r] = "launching"]
    /\ UNCHANGED <<tables, lease, proc, resuming, agents>>

\* Defect: the agent is spawned without its process id on record.
PersistAnchorSkipped(r) ==
    /\ worker[r] = "launching"
    /\ Running(r)
    /\ worker' = [worker EXCEPT ![r] = "anchored"]
    /\ UNCHANGED <<tables, lease, proc, resuming, agents>>

\* The anchor of the process group runs and its process id is persisted before
\* the agent is spawned into the group.
PersistAnchor(r) ==
    /\ worker[r] = "launching"
    /\ Running(r)
    /\ runs' = [runs EXCEPT ![r].anchored = TRUE]
    /\ worker' = [worker EXCEPT ![r] = "anchored"]
    /\ UNCHANGED <<taskState, recoverySource, continued, lease, proc, resuming, agents>>

\* The spawn does not look at the ledger again.  A killed anchor that its owner
\* has not reaped still carries the group, so the row may have been closed.
SpawnAgent(r) ==
    /\ worker[r] = "anchored"
    /\ agents' = agents \cup {r}
    /\ worker' = [worker EXCEPT ![r] = "supervising"]
    /\ UNCHANGED <<tables, lease, proc, resuming>>

\* The agent ends by itself, at its timeout, by a cancellation, or because its
\* group was killed.
AgentExits(r) ==
    /\ worker[r] = "supervising"
    /\ agents' = agents \ {r}
    /\ worker' = [worker EXCEPT ![r] = "recording"]
    /\ UNCHANGED <<tables, lease, proc, resuming>>

\* A resume that did not succeed starts once more from nothing; the stale
\* process id is erased first.
SessionFallback(r) ==
    /\ r \in resuming
    /\ worker[r] \in {"launching", "anchored", "recording"}
    /\ Running(r)
    /\ runs' = [runs EXCEPT ![r].anchored = FALSE]
    /\ worker' = [worker EXCEPT ![r] = "launching"]
    /\ resuming' = resuming \ {r}
    /\ UNCHANGED <<taskState, recoverySource, continued, lease, proc, agents>>

\* Defect: the completion does not ask whether the row is still open.
FinishWithUnguarded(r, outcome, allowRecovery) ==
    LET final == IF runs[r].cancel THEN "cancelled" ELSE outcome
        retry == /\ allowRecovery /\ final = "failed"
                 /\ runs[r].anchored /\ runs[r].attempt < MaxRecoveryAttempts
    IN  /\ Close(r, final, retry)
        /\ Retire(r)
        /\ UNCHANGED <<continued, lease, proc, agents>>

\* finish_run_and_task: a requested cancellation overrides the outcome, and a
\* failure of a launched process is retried within the recovery budget.
FinishWith(r, outcome, allowRecovery) ==
    LET final == IF runs[r].cancel THEN "cancelled" ELSE outcome
        retry == /\ allowRecovery /\ final = "failed"
                 /\ runs[r].anchored /\ runs[r].attempt < MaxRecoveryAttempts
    IN  /\ Running(r)
        /\ Close(r, final, retry)
        /\ Retire(r)
        /\ UNCHANGED <<continued, lease, proc, agents>>

\* The agent ran: it succeeded, failed, was cancelled or timed out.  Only a
\* timeout forgoes recovery.
Finish(r) ==
    /\ worker[r] = "recording"
    /\ \/ \E outcome \in {"succeeded", "failed", "cancelled"} : FinishWith(r, outcome, TRUE)
       \/ FinishWith(r, "failed", FALSE)

\* The launch itself failed, was cancelled or ran out of time.
LaunchFails(r) ==
    /\ worker[r] \in {"launching", "anchored"}
    /\ \/ \E outcome \in {"failed", "cancelled"} : FinishWith(r, outcome, TRUE)
       \/ FinishWith(r, "failed", FALSE)

\* A worker whose row was closed by a recovery: its next write is refused.
LateWriteRefused(r) ==
    /\ worker[r] \in {"prelaunch", "launching", "anchored", "recording"}
    /\ ~Running(r)
    /\ Retire(r)
    /\ UNCHANGED <<tables, lease, proc, agents>>

\* A write fails on the database itself: the worker gives up, the row stays.
WriteLost(r) ==
    /\ worker[r] \in {"prelaunch", "launching", "anchored", "recording"}
    /\ Running(r)
    /\ Retire(r)
    /\ UNCHANGED <<tables, lease, proc, agents>>

-------------------------------------------------------------------------------
\* The operator, and processes nobody supervises any more.

RequestCancellation(r) ==
    /\ Running(r)
    /\ ~runs[r].cancel
    /\ OwnerIsLive(runs[r].owner)
    /\ runs' = [runs EXCEPT ![r].cancel = TRUE]
    /\ UNCHANGED <<taskState, recoverySource, continued, lease, proc, worker, resuming, agents>>

UnsupervisedAgentExits(r) ==
    /\ r \in agents
    /\ worker[r] # "supervising"
    /\ agents' = agents \ {r}
    /\ UNCHANGED <<tables, lease, proc, worker, resuming>>

DaemonStep(d) ==
    \/ StartupRecovery(d) \/ Register(d) \/ RecoveryTick(d)
    \/ LeaseLapses(d) \/ HeartbeatRejected(d) \/ StopRequested(d) \/ Exit(d) \/ Crash(d)
    \/ \E t \in Tasks : Claim(d, t) \/ RequestContinuation(d, t)

WorkerStep(r) ==
    \/ Dispatch(r) \/ DispatchFails(r)
    \/ PrelaunchFails(r) \/ Prepared(r) \/ PersistAnchor(r) \/ SpawnAgent(r)
    \/ AgentExits(r) \/ SessionFallback(r) \/ Finish(r) \/ LaunchFails(r)
    \/ LateWriteRefused(r) \/ WriteLost(r)

Next ==
    \/ \E t \in Tasks : Enqueue(t)
    \/ \E d \in Daemons : DaemonStep(d)
    \/ \E r \in RunIds : WorkerStep(r) \/ RequestCancellation(r) \/ UnsupervisedAgentExits(r)

Spec == Init /\ [][Next]_vars

\* Every timer of a live daemon keeps ticking, every worker keeps going (its
\* agent has a timeout), and a new process reaches its loop.  Nothing is assumed
\* of pollers, operators, crashes, stalls or of which task is claimed.
Fairness ==
    /\ \A d \in Daemons :
         /\ WF_vars(Register(d))
         /\ WF_vars(RecoveryTick(d))
         /\ WF_vars(HeartbeatRejected(d))
         /\ WF_vars(Exit(d))
    /\ \A r \in 1 .. MaxRuns : WF_vars(r \in RunIds /\ WorkerStep(r))

FairSpec == Spec /\ Fairness

-------------------------------------------------------------------------------
\* Types of the tables, of the process states and of the workers.
TypeOK ==
    /\ taskState \in [Tasks -> TaskStates]
    /\ recoverySource \in [Tasks -> 0 .. Len(runs)]
    /\ continued \in [Sources -> Nat]
    /\ runs \in Seq(RunRow)
    /\ lease \in [Daemons -> LeaseStates]
    /\ proc \in [Daemons -> ProcStates]
    /\ worker \in Seq(WorkerStates)
    /\ Len(worker) = Len(runs)
    /\ resuming \subseteq RunIds
    /\ agents \subseteq RunIds

\* A task is running exactly while one of its runs is open, and never two are:
\* claims, completions, prelaunch failures and recoveries by any daemon keep the
\* two tables in step.
OneOpenRunPerRunningTask ==
    /\ \A t \in Tasks :
         (taskState[t] = "running") <=> (\E r \in RunIds : runs[r].task = t /\ Running(r))
    /\ \A r, q \in RunIds :
         Running(r) /\ Running(q) /\ runs[r].task = runs[q].task => r = q

\* Two tasks of one ticket never run at the same time, however they were queued,
\* requeued or continued and whichever daemon claims them.
OneRunningTaskPerTicket ==
    \A t, u \in Tasks :
        /\ taskState[t] = "running" /\ taskState[u] = "running"
        /\ SourceOf[t] = SourceOf[u] /\ SourceOf[t] # NoSource
        => t = u

\* An agent process runs for an open, anchored row, or its daemon has lost the
\* lease: recovery never leaves behind a process it could not have killed.
StaleAgentsAreFenced ==
    \A r \in agents :
        \/ Running(r) /\ runs[r].anchored
        \/ lease[runs[r].owner] # "fresh"

\* Recovery is a bounded chain: a recovery run continues an earlier failed run
\* of its own task, one attempt later, no run is recovered twice, and nobody
\* exceeds the budget.
RecoveryChains ==
    \A r \in RunIds :
        /\ runs[r].attempt <= MaxRecoveryAttempts
        /\ runs[r].recoveryOf = 0 => runs[r].attempt = 0
        /\ runs[r].recoveryOf # 0 =>
             LET p == runs[r].recoveryOf
             IN  /\ p < r
                 /\ runs[p].task = runs[r].task
                 /\ runs[p].outcome = "failed"
                 /\ runs[r].attempt = runs[p].attempt + 1
        /\ \A q \in RunIds :
             runs[q].recoveryOf = runs[r].recoveryOf /\ runs[r].recoveryOf # 0 => q = r

\* A closed run row never changes again: the late writes of a worker whose run
\* was recovered are refused.
ClosedRunsKept == \A r \in RunIds : ~Running(r) => runs'[r] = runs[r]
ClosedRunsStayClosed == [][ClosedRunsKept]_vars

\* Only its own worker closes a run whose owner is live: neither a second daemon
\* nor a starting one takes it over.
LiveOwnerCloses ==
    \A r \in RunIds :
       Running(r) /\ OwnerIsLive(runs[r].owner) /\ runs'[r].outcome # "running" =>
          worker[r] # "gone" /\ worker'[r] = "gone"
LiveOwnersKeepTheirRuns == [][LiveOwnerCloses]_vars

\* Once the process of a run was launched, a requested cancellation decides the
\* run and its task, whether the worker or a recovery closes them.
CancellationDecides ==
    \A r \in RunIds :
       /\ Running(r) /\ runs[r].cancel /\ worker[r] # "prelaunch"
       /\ runs'[r].outcome # "running"
       => runs'[r].outcome = "cancelled" /\ taskState'[runs[r].task] = "cancelled"
LaunchedCancellationsHold == [][CancellationDecides]_vars

Orphaned(r) == r \in RunIds /\ Running(r) /\ ~OwnerIsLive(runs[r].owner)
Attended(r) ==
    \E d \in Daemons : proc[d] = "serving" /\ ServedBy[d] = RepositoryOf[runs[r].task]

\* While some daemon serves its repository, a run whose owner is dead, stalled or
\* gone is closed in the end.
OrphansAreRecovered ==
    \A r \in 1 .. MaxRuns : Orphaned(r) ~> ~(Orphaned(r) /\ Attended(r))

-------------------------------------------------------------------------------
\* The abstract view of a task: the recovery attempts it has used up.
OpenRun(t) == CHOOSE r \in RunIds : runs[r].task = t /\ Running(r)

SpentAttempts(t) ==
    CASE taskState[t] = "running" -> runs[OpenRun(t)].attempt
      [] taskState[t] = "queued" /\ recoverySource[t] # 0 -> runs[recoverySource[t]].attempt + 1
      [] OTHER -> 0

Queue == INSTANCE TaskQueue WITH
    Budget <- MaxRecoveryAttempts,
    Continuable <- BranchOwned,
    status <- taskState,
    spent <- [t \in Tasks |-> SpentAttempts(t)]

\* The ledger implements the task queue: seen through tasks alone, claims,
\* retries, recoveries, late writes and continuations are the promised moves,
\* and no task is executed more than MaxRecoveryAttempts + 1 times in a row.
ImplementsTaskQueue == Queue!Spec
===============================================================================

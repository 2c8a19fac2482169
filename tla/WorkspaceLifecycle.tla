-------------------------- MODULE WorkspaceLifecycle --------------------------
(***************************************************************************)
(* The workspaces of tasks in worktree mode: the task_workspaces rows of   *)
(* src/storage.rs, the directories behind them, and everybody who changes  *)
(* either: the workers of src/daemon.rs that reserve, create and reuse     *)
(* them, the janitors that finalize or clean them up (each worker once its *)
(* task has ended, the recovery tick, `factory cleanup --confirm`), agents *)
(* and people.                                                             *)
(*                                                                         *)
(* Row and directory are never changed together, janitors do not exclude   *)
(* each other, and the daemon may crash between any two steps.             *)
(***************************************************************************)
EXTENDS Naturals, FiniteSets

CONSTANTS
    Tasks,        \* task ids
    Tickets,      \* ticket tasks own "delivery" workspaces, the others "proposal" ones
    Tick,         \* the janitor inside the recovery tick
    Operator,     \* the `factory cleanup` command
    None,         \* no task
    Cap,          \* delivery workspaces retained at most, ten in the code
    MaxAttempts,  \* MAX_RECOVERY_ATTEMPTS
    MaxCrashes    \* bound of the model on crashes of the daemon

\* dirty: uncommitted changes.  branch: HEAD is on a branch and not detached.
\* unpublished: commits that no remote branch has; without them a detached HEAD is
\* the reserved base.
Trees == [dirty : BOOLEAN, branch : BOOLEAN, unpublished : BOOLEAN]

ASSUME WorkspaceAssumption ==
    /\ Tickets \subseteq Tasks
    /\ None \notin Tasks
    /\ {Tick, Operator} \cap Tasks = {} /\ Tick # Operator
    /\ Cap \in Nat /\ MaxAttempts \in Nat /\ MaxCrashes \in Nat

VARIABLES
    task,       \* tasks.state; "failed" stands for failed and cancelled
    attempt,    \* recovery attempts a task has used
    row,        \* task_workspaces.state, "none" without a row
    reason,     \* the provenance a cleanup_pending row records
    tree,       \* the directory and the Git state in it
    worker,     \* the worker of each running task
    slots,      \* what dispatch_available last read of the retention limit
    janitor,    \* what each janitor is doing
    confirmed,  \* tasks whose cleanup the operator has confirmed
    crashes,    \* how often the daemon has crashed
    up          \* the daemon runs

claims == <<task, attempt, worker, slots>>
daemon == <<crashes, up>>
vars == <<claims, row, reason, tree, janitor, confirmed, daemon>>

\* What a step that only looks at a directory or changes it leaves alone.
LedgerKept == UNCHANGED <<claims, row, reason, confirmed, daemon>>

TaskStates == {"queued", "running", "succeeded", "failed"}
RowStates == {"none", "preparing", "ready", "retained", "cleanup_pending", "cleaned"}
Reasons == {"none", "proposal", "automatic", "operator"}
WorkerSteps == {"none", "claimed", "reserved", "created", "ready", "working"}

Fresh == [dirty |-> FALSE, branch |-> FALSE, unpublished |-> FALSE]
Absent == [dirty |-> FALSE, branch |-> FALSE, unpublished |-> FALSE, absent |-> TRUE]
Exists(t) == tree[t] # Absent

Terminal(t) == task[t] \in {"succeeded", "failed"}

\* A janitor idles, or stands before one of its steps with a task in hand.
Janitors == Tasks \cup {Tick, Operator}
JanitorSteps == {"idle", "begin", "preview", "inspect", "retain", "pend", "clean",
                 "dispose", "revalidate", "confirm", "force", "close"}
JanitorStates == [at : JanitorSteps, task : Tasks \cup {None}, dirty : BOOLEAN]
Idle == [at |-> "idle", task |-> None, dirty |-> FALSE]

\* `Start` gives a janitor a task, `Goto` and `Leave` move it.
Start(j, step, t) == janitor' = [janitor EXCEPT ![j] = [at |-> step, task |-> t, dirty |-> FALSE]]
Goto(j, step) == janitor' = [janitor EXCEPT ![j].at = step]
Leave(j) == janitor' = [janitor EXCEPT ![j] = Idle]
At(j, step, t) == janitor[j].at = step /\ janitor[j].task = t

Init ==
    /\ task = [t \in Tasks |-> "queued"]
    /\ attempt = [t \in Tasks |-> 0]
    /\ row = [t \in Tasks |-> "none"]
    /\ reason = [t \in Tasks |-> "none"]
    /\ tree = [t \in Tasks |-> Absent]
    /\ worker = [t \in Tasks |-> "none"]
    /\ slots = "unread"
    /\ janitor = [j \in Janitors |-> Idle]
    /\ confirmed = {}
    /\ crashes = 0
    /\ up = TRUE

-------------------------------------------------------------------------------
\* Claims, and the reservation and creation of a workspace.

Retained == {t \in Tickets : row[t] \notin {"none", "cleaned"}}

\* Each pass of dispatch_available reads the limit before it claims.
ReadSlots ==
    /\ up /\ slots = "unread"
    /\ slots' = IF Cardinality(Retained) < Cap THEN "free" ELSE "full"
    /\ UNCHANGED <<task, attempt, worker, row, reason, tree, janitor, confirmed, daemon>>

\* At the limit only tasks that own a workspace are claimed.
Claimable(t) ==
    /\ task[t] = "queued"
    /\ t \in Tickets => slots = "free" \/ row[t] \notin {"none", "cleaned"}

Claim(t) ==
    /\ slots # "unread"
    /\ Claimable(t)
    /\ task' = [task EXCEPT ![t] = "running"]
    /\ worker' = [worker EXCEPT ![t] = "claimed"]
    /\ slots' = "unread"
    /\ UNCHANGED <<attempt, row, reason, tree, janitor, confirmed, daemon>>

ClaimNothing ==
    /\ slots # "unread"
    /\ ~\E t \in Tasks : Claimable(t)
    /\ slots' = "unread"
    /\ UNCHANGED <<task, attempt, worker, row, reason, tree, janitor, confirmed, daemon>>

\* The task returns to the queue while its budget lasts.
Requeue(t) ==
    /\ task' = [task EXCEPT ![t] = IF attempt[t] < MaxAttempts THEN "queued" ELSE "failed"]
    /\ attempt' = [attempt EXCEPT ![t] = IF @ < MaxAttempts THEN @ + 1 ELSE @]

\* fail_prelaunch_and_requeue; this worker does not finalize.
FailPrelaunch(t) ==
    /\ Requeue(t)
    /\ worker' = [worker EXCEPT ![t] = "none"]
    /\ UNCHANGED <<slots, row, reason, tree, janitor, confirmed, daemon>>

\* The limit is enforced once more, in the transaction that inserts the row.
AtCapacity(t) == t \in Tickets /\ Cardinality(Retained) >= Cap

Reserve(t) ==
    /\ worker[t] = "claimed"
    /\ row[t] # "cleaned"
    /\ \/ row[t] # "none" /\ UNCHANGED row
       \/ row[t] = "none" /\ ~AtCapacity(t) /\ row' = [row EXCEPT ![t] = "preparing"]
    /\ worker' = [worker EXCEPT ![t] = "reserved"]
    /\ UNCHANGED <<task, attempt, slots, reason, tree, janitor, confirmed, daemon>>

\* An existing directory is reused when it is detached and, unless the workspace
\* was ready before, still a clean checkout of its base.
Reusable(t) == ~tree[t].branch /\ (row[t] = "preparing" => tree[t] = Fresh)

CreateTree(t) ==
    /\ worker[t] = "reserved"
    /\ \/ ~Exists(t) /\ tree' = [tree EXCEPT ![t] = Fresh]
       \/ Exists(t) /\ Reusable(t) /\ UNCHANGED tree
    /\ worker' = [worker EXCEPT ![t] = "created"]
    /\ UNCHANGED <<task, attempt, slots, row, reason, janitor, confirmed, daemon>>

\* A reservation over the limit and a directory that is not reusable are refused, and
\* the forge, Git or the prompt may fail.
PrepareFails(t) ==
    /\ worker[t] \in {"claimed", "reserved", "created", "ready"}
    /\ FailPrelaunch(t)

MarkReady(t) ==
    /\ worker[t] = "created"
    /\ row' = [row EXCEPT ![t] = "ready"]
    /\ reason' = [reason EXCEPT ![t] = "none"]
    /\ worker' = [worker EXCEPT ![t] = "ready"]
    /\ UNCHANGED <<task, attempt, slots, tree, janitor, confirmed, daemon>>

Launch(t) ==
    /\ worker[t] = "ready"
    /\ worker' = [worker EXCEPT ![t] = "working"]
    /\ UNCHANGED <<task, attempt, slots, row, reason, tree, janitor, confirmed, daemon>>

\* The agent edits, commits, switches branches and pushes.
AgentWorks(t) ==
    /\ worker[t] = "working"
    /\ \E w \in Trees : tree' = [tree EXCEPT ![t] = w]
    /\ LedgerKept /\ UNCHANGED janitor

\* Defect: the workspace is finalized although the task returns to the queue.
RunEndsFinalizing(t) ==
    /\ worker[t] = "working"
    /\ \/ /\ \E outcome \in {"succeeded", "failed"} : task' = [task EXCEPT ![t] = outcome]
          /\ UNCHANGED attempt
       \/ attempt[t] < MaxAttempts /\ Requeue(t)
    /\ Start(t, "begin", t)
    /\ worker' = [worker EXCEPT ![t] = "none"]
    /\ UNCHANGED <<slots, row, reason, tree, confirmed, daemon>>

\* The run is recorded.  Its worker finalizes the workspace if the task has ended.
RunEnds(t) ==
    /\ worker[t] = "working"
    /\ \/ /\ \E outcome \in {"succeeded", "failed"} : task' = [task EXCEPT ![t] = outcome]
          /\ Start(t, "begin", t)
          /\ UNCHANGED attempt
       \/ attempt[t] < MaxAttempts /\ Requeue(t) /\ UNCHANGED janitor
    /\ worker' = [worker EXCEPT ![t] = "none"]
    /\ UNCHANGED <<slots, row, reason, tree, confirmed, daemon>>

-------------------------------------------------------------------------------
\* Steps of a janitor.  `SetRow` is one update of the ledger, which does not look at
\* the state it replaces.
SetRow(t, state, why) ==
    /\ row' = [row EXCEPT ![t] = state]
    /\ reason' = [reason EXCEPT ![t] = why]

\* What a step that only updates the row leaves alone.
TreeKept == UNCHANGED <<claims, tree, confirmed, daemon>>

\* Defect: a workspace whose preparation failed is overlooked.
TickFinalizesReady(t) ==
    /\ up /\ janitor[Tick] = Idle
    /\ Terminal(t) /\ row[t] = "ready"
    /\ Start(Tick, "begin", t)
    /\ LedgerKept /\ UNCHANGED tree

\* The recovery tick picks up ended tasks with an unfinished workspace, and
\* cleanups that somebody has begun.
TickFinalizes(t) ==
    /\ up /\ janitor[Tick] = Idle
    /\ Terminal(t) /\ row[t] \in {"preparing", "ready"}
    /\ Start(Tick, "begin", t)
    /\ LedgerKept /\ UNCHANGED tree

\* What becomes of it depends on the directory, the kind and the provenance.
Resumption(t) ==
    IF ~Exists(t) THEN "close"
    ELSE IF t \notin Tickets THEN "dispose"
    ELSE IF reason[t] = "operator" THEN "force"
    ELSE "revalidate"

TickResumes(t) ==
    /\ up /\ janitor[Tick] = Idle
    /\ row[t] = "cleanup_pending"
    /\ Start(Tick, Resumption(t), t)
    /\ LedgerKept /\ UNCHANGED tree

\* factory cleanup --confirm reads task and row, and refuses a task that has not
\* ended or is clean.
OperatorBegins(t) ==
    /\ janitor[Operator] = Idle
    /\ Terminal(t) /\ row[t] \notin {"none", "cleaned"}
    /\ Start(Operator, "confirm", t)
    /\ confirmed' = confirmed \cup {t}
    /\ UNCHANGED <<claims, row, reason, tree, daemon>>

Confirm(j, t) ==
    /\ At(j, "confirm", t)
    /\ IF Exists(t)
       THEN SetRow(t, "cleanup_pending", "operator") /\ Goto(j, "force")
       ELSE SetRow(t, "cleaned", "none") /\ Leave(j)
    /\ TreeKept

\* finalize_task_workspace: a proposal is discarded; a missing directory settles a
\* delivery; anything else is inspected.
Begin(j, t) ==
    /\ At(j, "begin", t)
    /\ \/ t \notin Tickets /\ SetRow(t, "cleanup_pending", "proposal") /\ Goto(j, "dispose")
       \/ t \in Tickets /\ ~Exists(t) /\ SetRow(t, "cleaned", "none") /\ Leave(j)
       \/ t \in Tickets /\ Exists(t) /\ UNCHANGED <<row, reason>> /\ Goto(j, "preview")
    /\ TreeKept

\* git status; it fails when the directory has gone meanwhile.
Preview(j, t) ==
    /\ At(j, "preview", t)
    /\ IF Exists(t)
       THEN janitor' = [janitor EXCEPT ![j] = [at |-> "inspect", task |-> t, dirty |-> tree[t].dirty]]
       ELSE Goto(j, "retain")
    /\ LedgerKept /\ UNCHANGED tree

\* Defect: nobody asks whether the commits were pushed.
SafeUnpublished(t, dirty) == task[t] = "succeeded" /\ ~dirty

\* The workspace of a succeeded task may go when nothing in it is unique.
Safe(t, dirty) == task[t] = "succeeded" /\ ~dirty /\ ~tree[t].unpublished

\* Commit and remote branch are compared.  A succeeded workflow that awaits a
\* continuation, and a remote that does not answer, keep the workspace.
Inspect(j, t) ==
    /\ At(j, "inspect", t)
    /\ \/ ~Exists(t) /\ Leave(j)
       \/ Exists(t) /\ Goto(j, "retain")
       \/ Exists(t) /\ Safe(t, janitor[j].dirty) /\ Goto(j, "pend")
    /\ LedgerKept /\ UNCHANGED tree

Retain(j, t) ==
    /\ At(j, "retain", t)
    /\ SetRow(t, "retained", "none")
    /\ Leave(j)
    /\ TreeKept

Pend(j, t) ==
    /\ At(j, "pend", t)
    /\ SetRow(t, "cleanup_pending", "automatic")
    /\ Goto(j, "clean")
    /\ TreeKept

\* automatic_cleanup_is_still_safe, for a cleanup that was interrupted.
Revalidate(j, t) ==
    /\ At(j, "revalidate", t)
    /\ \/ Goto(j, "retain")
       \/ Exists(t) /\ Safe(t, tree[t].dirty) /\ Goto(j, "clean")
    /\ LedgerKept /\ UNCHANGED tree

\* cleanup_clean refuses uncommitted changes, cleanup_disposable and a confirmed
\* cleanup do not.  None of them minds that the directory has gone.
Removes(j, t) ==
    \/ At(j, "clean", t) /\ ~tree[t].dirty
    \/ At(j, "dispose", t)
    \/ At(j, "force", t)

RemoveTree(j, t) ==
    /\ Removes(j, t)
    /\ tree' = [tree EXCEPT ![t] = Absent]
    /\ Goto(j, "close")
    /\ LedgerKept

\* Defect: the row of a failed removal is closed as well.
RemoveFailsClosing(j, t) ==
    /\ At(j, "clean", t) \/ At(j, "dispose", t) \/ At(j, "force", t)
    /\ Goto(j, "close")
    /\ LedgerKept /\ UNCHANGED tree

\* The removal fails and the row stays cleanup_pending.
RemoveFails(j, t) ==
    /\ At(j, "clean", t) \/ At(j, "dispose", t) \/ At(j, "force", t)
    /\ Leave(j)
    /\ LedgerKept /\ UNCHANGED tree

Close(j, t) ==
    /\ At(j, "close", t)
    /\ SetRow(t, "cleaned", "none")
    /\ Leave(j)
    /\ TreeKept

JanitorStep(j, t) ==
    \/ Confirm(j, t) \/ Begin(j, t) \/ Preview(j, t) \/ Inspect(j, t) \/ Retain(j, t)
    \/ Pend(j, t) \/ Revalidate(j, t) \/ RemoveTree(j, t) \/ RemoveFails(j, t) \/ Close(j, t)

-------------------------------------------------------------------------------
\* People edit the files of a workspace whose task has ended at any time.
PersonEdits(t) ==
    /\ Terminal(t) /\ Exists(t)
    /\ tree' = [tree EXCEPT ![t].dirty = TRUE]
    /\ LedgerKept /\ UNCHANGED janitor

\* They commit, push and switch branches only while nobody cleans up: a commit that
\* follows the inspection cannot be noticed by the removal.
PersonWorks(t) ==
    /\ Terminal(t) /\ Exists(t)
    /\ \A j \in Janitors : janitor[j].task # t
    /\ \E w \in Trees : tree' = [tree EXCEPT ![t] = w]
    /\ LedgerKept /\ UNCHANGED janitor

\* The daemon dies with its workers and its janitors.
Crash ==
    /\ up /\ crashes < MaxCrashes
    /\ up' = FALSE
    /\ crashes' = crashes + 1
    /\ worker' = [t \in Tasks |-> "none"]
    /\ slots' = "unread"
    /\ janitor' = [j \in Janitors |-> IF j = Operator THEN janitor[j] ELSE Idle]
    /\ UNCHANGED <<task, attempt, row, reason, tree, confirmed>>

\* A new daemon closes the orphaned runs before it serves.
Restart ==
    /\ ~up
    /\ up' = TRUE
    /\ task' = [t \in Tasks |->
                  IF task[t] # "running" THEN task[t]
                  ELSE IF attempt[t] < MaxAttempts THEN "queued" ELSE "failed"]
    /\ attempt' = [t \in Tasks |->
                  IF task[t] = "running" /\ attempt[t] < MaxAttempts THEN attempt[t] + 1
                  ELSE attempt[t]]
    /\ UNCHANGED <<worker, slots, row, reason, tree, janitor, confirmed, crashes>>

WorkerStep(t) ==
    \/ Claim(t) \/ Reserve(t) \/ CreateTree(t) \/ PrepareFails(t)
    \/ MarkReady(t) \/ Launch(t) \/ RunEnds(t)

Next ==
    \/ ReadSlots \/ ClaimNothing \/ Crash \/ Restart
    \/ \E t \in Tasks :
         \/ WorkerStep(t) \/ AgentWorks(t) \/ PersonEdits(t) \/ PersonWorks(t)
         \/ TickFinalizes(t) \/ TickResumes(t) \/ OperatorBegins(t)
         \/ \E j \in Janitors : JanitorStep(j, t)

Spec == Init /\ [][Next]_vars

\* The tick of a daemon that lives on visits every task again and again and ends
\* what it begins, and a removal does not fail for ever.
Fairness ==
    \A t \in Tasks :
        /\ SF_vars(TickFinalizes(t) \/ TickResumes(t))
        /\ \A j \in {t, Tick} : WF_vars(JanitorStep(j, t)) /\ SF_vars(RemoveTree(j, t))

FairSpec == Spec /\ Fairness

-------------------------------------------------------------------------------
\* Tasks, rows, trees, workers and janitors keep their types, and no task exceeds
\* its recovery budget.
TypeOK ==
    /\ task \in [Tasks -> TaskStates]
    /\ attempt \in [Tasks -> 0..MaxAttempts]
    /\ row \in [Tasks -> RowStates]
    /\ reason \in [Tasks -> Reasons]
    /\ tree \in [Tasks -> Trees \cup {Absent}]
    /\ worker \in [Tasks -> WorkerSteps]
    /\ slots \in {"unread", "free", "full"}
    /\ janitor \in [Janitors -> JanitorStates]
    /\ confirmed \subseteq Tasks
    /\ crashes \in 0..MaxCrashes
    /\ up \in BOOLEAN

\* What the next property says of one step.
RemovalsAreJustified ==
    \A t \in Tickets :
        (Exists(t) /\ ~Exists(t)') =>
            \/ t \in confirmed
            \/ task[t] = "succeeded" /\ ~tree[t].dirty /\ ~tree[t].unpublished

\* Whatever janitors, workers, crashes and people do, the directory of a ticket
\* disappears only when an operator has confirmed it, or when the task succeeded
\* and the directory holds neither an uncommitted change nor an unpublished commit
\* (finalize_task_workspace, automatic_cleanup_is_still_safe, cleanup_clean).
WorkIsNeverLost ==
    [][RemovalsAreJustified]_vars

\* A task that may still run is not cleaned up: its row is neither retained nor in
\* cleanup, and no janitor has it in hand, not even one that began earlier.
LiveTasksKeepTheirWorkspace ==
    \A t \in Tasks : ~Terminal(t) =>
        /\ row[t] \in {"none", "preparing", "ready"}
        /\ \A j \in Janitors : janitor[j].task # t

\* Every directory is reachable through its row: whatever fails or crashes half-way
\* through a creation or a removal, no directory stays behind a row that is missing
\* or cleaned, where neither the tick nor the operator would find it.
NoOrphanDirectories ==
    \A t \in Tasks : Exists(t) => row[t] \notin {"none", "cleaned"}

\* While the daemon lives, the workspace of every ended task is eventually retained
\* or cleaned up, also when the worker or an earlier cleanup died half-way.
Unsettled(t) == Terminal(t) /\ row[t] \in {"preparing", "ready", "cleanup_pending"}
Settled(t) == row[t] \in {"retained", "cleaned"}
TerminalWorkspacesSettle ==
    \A t \in Tasks : Unsettled(t) ~> (Settled(t) \/ ~up)

--------------------------------------------------------------------------------
\* The task as the queue sees it: the attempts it has used are forgotten when it has
\* ended, and nothing here continues one that succeeded.
Queue == INSTANCE TaskQueue WITH
    Budget <- MaxAttempts,
    Continuable <- {},
    status <- task,
    spent <- [t \in Tasks |-> IF Terminal(t) THEN 0 ELSE attempt[t]]

\* Seen through tasks alone, the workers, starts and recoveries of workspaces implement the
\* task queue: a task that ended is not touched again by whoever still works for it.
ImplementsTaskQueue == Queue!Spec
===============================================================================

# Flashy Factory in TLA+

Flashy Factory watches tickets and schedules, turns them into durable tasks, and
runs a coding agent for each task in a workspace of its own. Everything that must
survive a restart is in SQLite ledgers (`src/src/storage.rs`), in Git worktrees or
clones, and in Docker sandboxes; everything that moves is in daemons
(`src/src/daemon.rs`) that share a ledger and may stall, stop or die between any two
steps, and in the agents they start.

This directory holds models of that machinery, model-checked with TLC on small
instances, and theorems about them, proved with TLAPS for every value of the
constants. The models are translated from the code; where a document or a test
says something else, the difference is listed under
[divergences](#divergences-from-the-documentation).

Contents: [inventory](#inventory) · [modules](#modules) · [runs](#runs) ·
[divergences](#divergences-from-the-documentation) · [fairness](#fairness) ·
[proofs](#proofs) · [what is not modelled](#what-is-not-modelled) · [plan](#plan) ·
[how to run](#how-to-run)

## Inventory

File names are relative to `src/src/`.

| Component | State it keeps | Operations | Modelled in |
| --- | --- | --- | --- |
| Task and run ledger (`storage.rs`) | tables `tasks`, `runs`, `daemon_owners`, `autonomous_continuations` | enqueue, claim (task and run row in one transaction), persist the process anchor, finish, fail before launch and requeue, request cancellation, recover orphaned runs, request a continuation, register, heartbeat and remove an owner | `TaskLedger`, `TaskQueue` |
| Daemon loop and dispatch (`daemon.rs`) | the select loop, the set of workers, the owner lease | startup recovery, dispatch, authorization, preparation, execution, terminal record, stop | `TaskLedger`, `FleetAdmission`, `RunExecution` |
| Fleet admission (`daemon.rs:333-535`) | free slots, whose turn it is, who waits | acquire, refuse, drop a permit, notify | `FleetAdmission` |
| Fleet supervisor and health (`daemon.rs:537-1310`) | member states, backoff, rate-limit pause, polls under way | start members, retry, pause, poll, record health, cancel, drain | `FleetSupervisor` |
| Trigger observations (`storage.rs:1461-1591`, `source.rs`, `github.rs`) | `trigger_observations` rows, task identity keys | query a source, reconcile a poll, authorize a claimed task | `TriggerPoll`, `TicketAuthorization` |
| Schedules (`storage.rs:2034-2249`, `daemon.rs:3736-3898`) | `schedule_cursors`, `schedule_owners` | resolve a cursor, enqueue an occurrence | `ScheduleCursors` |
| Task workspaces (`workspace.rs`, `storage.rs:1654-1947`, `daemon.rs:1994-2160, 2572-2960`, `main.rs:960-1073`) | `task_workspaces` rows, worktrees | reserve, create, reuse, retain, inspect, remove, resume a half-done removal | `WorkspaceLifecycle` |
| Clone workspaces (`clone.rs`) | standalone clones | prepare, take over from a box, preview, remove | `SandboxWorker` |
| Pull request events (`storage.rs:875-1113`, `daemon.rs:3992-4469`, `forge.rs`, `clients/asana`) | associations, fingerprints, claims with an expiry; sections and completion in Asana | observe, claim, authorize, continue, project, mark, consume | `PullRequestEvents` |
| Agent process supervision (`runtime.rs`) | process group, anchor, deadline, pipes | anchor, spawn, observe, stop the group, reap, resume, fall back | `RunExecution` |
| Docker sandbox (`sandbox.rs`, `daemon.rs:1811-1993, 2971-3232`) | `run_sandboxes` rows, boxes named after runs | record, create, execute, stop, preserve, remove, settle at start-up | `SandboxWorker` |
| State directory, locks, reset, migrations (`storage.rs`, `main.rs`, `fleet.rs`) | lock files, schema version, the manifest of a fleet | open shared or exclusive, migrate, reset, publish, resolve a ledger | `StateDirectory` |
| Approvals and project claims (`approval.rs`, `github.rs`, `storage.rs:1115-1375`) | approvals, project claims | authorize, claim, restart | no |
| Configuration, workflows, discovery (`config.rs`, `workflow.rs`, `init.rs`, `repository.rs`) | files | parse, validate | no |
| Command line, inspection (`main.rs`, `inspection.rs`, `table.rs`, `hash.rs`) | none | query, format, cancel, cleanup, reset | `cancel`, `cleanup` and `reset` only |

### How the components interact

* Pollers and schedules **insert** task rows; daemons **claim** them. The only
  synchronisation is the ledger: each operation is one `IMMEDIATE` transaction.
* A claim creates a run row owned by the daemon. A **worker** (a tokio task)
  authorizes it against the tracker, prepares a workspace, persists a process group
  anchor, spawns the agent behind it, supervises it and closes the row.
* A **monitor** per execution copies what the agent reports into the row and cancels
  the worker when the row asks for it.
* A daemon proves that it lives with a **lease** renewed every second and valid for
  ten, and with its process id. Recovery, at startup and once a second, closes the
  runs of owners that are not live: it kills the recorded process group, and
  requeues, fails or cancels the task.
* All members of a fleet draw from one set of **permits**; a dropped permit
  notifies every parked member. They share a **host coordinator**, which holds every
  operation back after a rate limit, and one **cancellation token**.
* A task keeps one workspace for all its attempts. When the task has ended, three
  parties may clean up, without excluding each other: its last worker, the recovery
  tick, and `factory cleanup --confirm`.
* In sandbox mode the agent works in a **box**; what it leaves is fetched back into
  the clone before the box is removed. A row announces every command on a box before
  the command is given.
* A successful delivery is associated with its **pull request**. What later happens
  to the pull request is projected into Asana by a command that is a process of its
  own and outlives the daemon that started it.
* Every process opens a ledger under a **shared file lock**; a reset needs it
  exclusively. Commands find the ledger of a running fleet through its **manifest**.

### Which behaviours are hard, and what makes the components correct

* **Ledger and daemons.** Two daemons claim together; a stalled daemon is recovered
  by a peer and wakes up with a worker in its hands; a daemon dies between spawn and
  record. Correct means: a task is running exactly while one run is open, late
  writers are fenced, recovery is a bounded chain, a live owner is never robbed, no
  agent runs that recovery cannot kill, orphans are recovered in the end.
* **Processes.** Deadline, cancellation, exit and the pipes of escaped descendants
  race; a process id is reused once its process is reaped. Correct means: whatever
  lives belongs to an open row that names it, no signal strays, a request that was
  accepted decides, an execution ends.
* **Admission.** Permits return on every path; the turn rotates only when it is
  granted. Correct means: permits are conserved and nobody starves.
* **Fleet supervisor.** Failures, rate limits, polls and the end of the fleet overlap.
  Correct means: a pause binds everybody for its whole length, a failing repository is
  tried again, a fleet stops drained, and it stops.
* **Polling.** A reading and its reconciliation are two steps, polls overlap, the
  edge may come while a task is active. Correct means: one continuous match creates
  one task, one ticket has one active task, an agent is launched only for a ticket
  that is what its task says.
* **Schedules.** Handover between daemons with different definitions, downtimes,
  one-shot runs. Correct means: one task per instant, no served instant is skipped,
  a due instant fires.
* **Workspaces.** Directory and row change separately, janitors race, daemons crash
  between the two. Correct means: nobody's work is lost, no directory is orphaned,
  a live task keeps its workspace, every ended one is settled.
* **Sandboxes.** Commands fail half-way, creations outlive their client. Correct
  means: a box goes only when its work is saved, start-up settles every box, no agent
  works for a run that is closed.
* **Pull request events.** Three stores, at-least-once delivery; a claim expires, a
  command outlives its daemon. Correct means: an event is forgotten only when Asana
  shows it, dependents wait for all their blockers and are released with the last, in
  whatever order merges are projected that come in the order of the dependencies.
* **State directory.** Reset, migration and start of different builds overlap and are
  killed. Correct means: no ledger is taken from its users, no commit goes back, the
  schema is whole, commands find the ledger that is in use.

`PROJECT.json` lists the hazards line by line with the properties that watch them.

## Modules

| Module | Models | Composes |
| --- | --- | --- |
| `TaskLedger` | ledger, daemons, workers, agents | implements `TaskQueue` |
| `TaskQueue` | what everybody who writes the state of a task promises about it | |
| `BoxKeeping` | what is promised about the box of each run | |
| `MergeProjection` | what is promised about events, tickets and followers | |
| `FleetAdmission` | permits, members' loops, workers that hold permits | |
| `FleetSupervisor` | supervisor, members, polls, host coordinator, health, token | |
| `TriggerPoll` | a source, overlapping pollers, observations, tasks | |
| `TicketAuthorization` | one ticket from the poll to the launch | |
| `ScheduleCursors` | cursor, owners, ticks, one-shot runs, clock | |
| `WorkspaceLifecycle` | rows, worktrees, workers, janitors, agents, people | implements `TaskQueue` |
| `RunExecution` | one task's executions on the host: processes, monitors, rows | implements `TaskQueue` |
| `SandboxWorker` | one task's executions in boxes, clones, start-up | implements `TaskQueue` and `BoxKeeping` |
| `PullRequestEvents` | provider, ledger and Asana, arms of daemons, commands | implements `MergeProjection` |
| `StateDirectory` | ledger files, locks, migrations, reset, manifest | |
| `MC…` | instances of a module for TLC | |
| `FleetProofs` | theorems about `FleetSupervisor` and `FleetAdmission` | |
| `WorkEntryProofs` | theorems about `ScheduleCursors`, `TriggerPoll` and `TicketAuthorization` | |
| `…Proofs` | theorems about the module of that name | |

In every module the operators called "Defect" are variants of a definition with a
plausible bug. No behaviour uses them; they document what a property would notice.

The modules share no variables. Where two of them model the same function, one keeps
its detail and the other its outcome: `TaskLedger` has the tables and many daemons and
makes the life of an agent one step per ledger transaction, `RunExecution` and
`SandboxWorker` have one daemon and take the steps between these transactions apart, as
`WorkspaceLifecycle` does around the workspace. What ties these four together is
`TaskQueue`: each implements it, so none of them lets a task do what the others exclude;
`FleetAdmission` is what a serving member of `FleetSupervisor` does with its permits;
`TriggerPoll` has many pollers and one read per poll, `TicketAuthorization` one poller
with each of its reads.

### TaskLedger

State: `taskState`, `recoverySource`, `continued` and `runs` are the tables. A run is
a record whose position in `runs` is its id. `lease` is the owner row reduced to
*fresh* or *lapsed* (time is abstracted: a lease lapses whenever its daemon has
stalled long enough, see `LeaseLapses`). `proc` is the life of a daemon process,
`worker` where the worker of each run stands, `agents` the live process groups.

Actions follow the functions: `Claim` is `claim_and_start_run_with_workdirs_filtered`
with the ticket filter; `PrelaunchFails` is `fail_prelaunch_and_requeue`; `Finish` is
`finish_run_and_task_with_recovery`; `StartupRecovery` and `RecoveryTick` are
`recover_orphaned_runs_matching`, one transaction over all orphans of the served
repository; `LateWriteRefused` is a worker whose run was closed under it; `WriteLost`
is a ledger error at the end of a worker; `Crash` leaves agents behind, `Exit` does
not.

`TaskQueue` is the abstraction: a task is queued, executed by one attempt at a time,
retried at most `Budget` times and concluded. `ImplementsTaskQueue` maps the attempt
counter to the run that is open or waits to be recovered. The same abstraction is
implemented by `WorkspaceLifecycle`, `RunExecution` and `SandboxWorker`, which keep the
counter of the task itself; there it is proved and no run repeats it.

### FleetAdmission

`available`, `cursor` and `waiting` are the fields of the admission object, which is
behind a mutex, so each of its operations is one step. `pc` is the loop of a member:
inside `dispatch_available`, with a permit in hand, on its way to the select, parked
in it, or inside the pull request arm, which the loop awaits. `DropPermit` frees the
slot and wakes the loops that are parked at that moment, as `notify_waiters` does.

### FleetSupervisor

`phase`, `turn` and `prepared` are `FleetSupervisor::run`: the start-up loop, which
prepares the repositories one after the other, the service, and the drain. `member` is
the task of each repository with its retry sleep, `health`, `failures` and `retryIn` its
health record, `host` the operation of a member or a poll slot with the coordinator,
`pauseIn` the pause. `HostAcquires` to `HostMarks` are
`FleetHostCoordinator::run`: an operation is queued with the wait that it read, takes a
permit when that is over, looks at the pause again under the permit (`HostRechecks`) and
either starts or drops the permit and begins anew; after a rate limit it gives the permit
back, extends the pause and records it, three steps between which others act. `owed` is
history: what is left of the wait that each answer asked for. `StartupDefers` is a start-up that meets a pause
and leaves the repository to its retry. Deadlines are countdowns; `Tick` lowers them.
Time stops with the token, which every wait also watches.

### TriggerPoll

`Query` reads the source and `Reconcile` writes; any number of pollers are between
the two. `EventTickets` have a new revision for each entry (labels), the others a
revision that is a hash of what matched (states). `Edge`, `Visit`, `KeyIsTaken` and
`Recorded` are the four decisions of `reconcile_ticket_poll`. `latest` and `overtaken` are
history: the newest reading that the ledger has got of each ticket, and the entries of
which it got readings out of order.

### TicketAuthorization

`open`, `matched`, `blank`, `event` and `option` are the ticket as people see it, `row`,
`keys`, `task`, `payload` and `attempt` what the ledger has of it, `poll` and `worker` what
a poll and a worker have read so far. A poll and an authorization read in two steps (issue
and timeline; options of the field and item), `Read` and `Authorize`, and conclude from
both. `valid` is history: the ticket was, at one instant since the claim, what its task
says. `Enter`, `Leave`, `CloseOrReopen` and `Recreate` are people, `Revise` is a source
that names another revision of a ticket, a new one or an earlier one; `Restart` is a daemon
that dies and comes back with another list of trusted authors. A task whose attempts are
used up has *failed*, one whose agent has worked has *ended*.

### ScheduleCursors

The cursor has a definition and a due instant; owners register the definition they
serve with. A tick reads the clock, resolves the cursor (`Initialize`), reads it
again and enqueues one instant per transaction. A cron expression is a period: its
instants are the multiples. Instants are natural numbers, so the gaps and repeats of
a timezone are out of scope.

### WorkspaceLifecycle

`row` and `reason` are the row, `tree` the directory: absent, or present with three
facts: uncommitted changes, HEAD on a branch, commits that no remote has. `worker`
follows a run from the claim to its end. A janitor is a party that cleans up; it has
a task in hand and stands before one of its steps, so every read and every write of
`finalize_task_workspace`, `reconcile_pending_cleanup` and `cleanup_run` is a step of
its own. `SetRow` is `update_task_workspace_state`, which replaces the state whatever
it was. `PersonEdits` lets people edit at any time, also under the hands of a
janitor; commits and pushes of people happen only while no janitor works on the task
(Git cannot notice a commit made between inspection and removal).

Refusals that look the same from the ledger are one action: a reservation over the
limit, a directory that is not reusable, and a failing forge all end in
`PrepareFails`, while `Reserve` and `CreateTree` carry the guards.

### RunExecution

A *group* is named after the run and the execution that started it (a run has a second
execution when it falls back from a session that could not be resumed). `anchor`, `agent`,
`helpers` and `escaped` are the processes, `reused` the groups whose id now belongs to
somebody else, `strayed` the signals that hit one of those. `worker` walks through
`execute_task_inner`: anchor, persist, spawn, await, interrupt, grace, kill, reap, join the
pipes, fall back, record. `observed` and `unseen` are the watch channel to the monitor,
which may write an observation of an execution that is over. `Die(rebooted)` kills the
daemon or its host, `Boot` is the recovery by process id.

### SandboxWorker

A run is a task and an attempt. `row` and `gone` are `run_sandboxes`, `box` and `agents`
the microVM and the agent in it, `work` whether what the agent changed is only in the box,
`clone` and `head` the host clone. `worker` follows `execute_sandbox_task`, `daemon` the
start with `reconcile_sandbox_workers`. `CreationEnds` makes a box appear after its client
was cancelled; `late` and `unstopped` mark the boxes that appear after a start has looked
and those whose stop failed, which the properties exclude by name. The next start finds the
late ones, so `Boot` empties `late`.

`BoxKeeping` is the abstraction, a record for each run: whether the run is ahead, open or
closed, whether its box is there, whether its agent is out, in, or *lost* to a stop that
failed, and whether its work is saved. `KeepsBoxes` maps a row without a box to *gone*. The
abstraction has no rows, workers, start-up or late creations; that one may close a run, save
a box and remove it in this order only is all that is left of them.

### PullRequestEvents

`pr` is the provider, `event`, `reserved`, `associated` and `delivery` the ledger, `section`,
`completed` and `lane` (the policy tags) Asana. The arm of a daemon holds the file lock,
walks over the associations and, for each, observes, claims, authorizes, continues or
starts a command, marks and consumes. A command reads the task, reads the dependents that
it would release, and then sends one request after the other; a `Crash` of its daemon turns
it into an orphan. A fingerprint is what the code hashes: the state, and a revision that
stands for head, reviews and pipeline. `overtaken` is history: the followers of which a
direct dependency was merged while one that they depend on through others was open.

`MergeProjection` is the abstraction: an event of a ticket is pending, applied, forgotten; a
merge is applied only when its ticket is completed or people decide about it; a ticket is
completed only when it is merged; a follower is released only when all it needs is completed;
an event that is no merge may continue its ticket once, while it is pending, within the limit.
Under `ImplementsMergeProjection` claims, leases, arms, the lock, commands and their orphans
all vanish: *observed*, *claimed* and *expired* are pending.

### StateDirectory

A ledger is a main file and a write-ahead log; `Visible` is what SQLite reads, `committed`
what it ought to read. Processes step through opening (`LockState`, `Connect`), the
migrations, each one write transaction that begins by reading the version
(`BeginMigration`, `Migrate`), and their use of the ledger. A reset locks all its targets, inspects all and
then removes file by file. `Publish` and `Retire` write the manifest; a killed supervisor
leaves it, and its process id may come back as a stranger or as another supervisor.

## Runs

| Run | Configuration | Question |
| --- | --- | --- |
| `ledger` | `TaskLedger.cfg` | Do tables, leases, workers and agents stay consistent when two daemons share a ledger? Are orphans recovered? Does the ledger implement the queue? |
| `admission` | `FleetAdmission.cfg` | Are permits conserved, does nobody starve? |
| `fleet` | `FleetSupervisor.cfg` | Does a pause last as long as each of two overlapping answers asks for, and bind everybody? Does a fleet that served end drained? |
| `fleet_progress` | `FleetSupervisorProgress.cfg` | Is a failing repository tried again, does a cancelled fleet end? |
| `poll_overlap` | `TriggerPoll.cfg` | Two polls at once: does an entry get a second task only if readings of it came out of order? |
| `authorization` | `TicketAuthorization.cfg` | Is an agent launched only for a current ticket, does each task settle, is each entry served? |
| `schedules` | `ScheduleCursors.cfg` | Handover, downtime and crash: no two definitions, no instant skipped, all fired? |
| `workspaces` | `WorkspaceLifecycle.cfg` | Is work kept, is no directory orphaned, is everything settled? |
| `execution` | `RunExecution.cfg` | Is every living process behind an open row, does no signal stray, does a request bind, does an execution end? |
| `sandbox` | `SandboxWorker.cfg` | Has every agent an open run, is every box settled, does a run end? Is the keeping of boxes implemented, so that no box goes with unsaved work? |
| `pr_events` | `PullRequestEvents.cfg` | Are dependents released no earlier than the last merge, and with it if the merges came in order? Is the abstract projection implemented, so that no merge is forgotten before Asana shows it? Is every merge shown in the end? |
| `state` | `StateDirectory.cfg` | Do reset, migration and manifest keep ledgers whole and found? |

### Bounds, and why they are enough

* `ledger`: two daemons, two tasks of one ticket, two runs, one recovery attempt (two in
  the code), one continuation. Two runs are an attempt and its recovery by the other daemon,
  or two tasks that compete; one attempt suffices because the budget enters only through
  `attempt < MaxRecoveryAttempts`. `MaxRuns` bounds the claims. A daemon that exits or crashes
  does not come back under the same owner id, as in the code; a restarted daemon is the
  other daemon. Histories with more runs, in which both things happen, are left to the
  proofs: every property of this run but the liveness of recovery is a theorem for any number
  of tasks, daemons and runs. The daemons are interchangeable, but liveness forbids the
  symmetry.
* `admission`: three repositories, two slots, one worker each, one queued task. Three
  members are the least for which the order of turns matters, two slots the least for
  which one can be free while others wait.
* `fleet`: two repositories, so that one is prepared while the other fails or is in the
  pause; one poll, two host slots (as in the code), delays of one tick. Two rate limits, with
  waits of one tick or two, so that two operations in flight are refused together and the
  shorter wait may come in last. `fleet_progress` has one rate limit: its
  questions are whether things go on, which a second pause only delays.
* `poll_overlap`: two pollers, one label ticket and one state ticket, two entries each. Two
  polls are the least that overlap, two entries let a reading of the first arrive in the
  second.
* `authorization`: one ticket of any kind, six moves of people (enough to leave, return,
  leave and return again around a poll and an authorization, or to take a revision back),
  two troubles and one recovery, so that troubles can use up all attempts of a task.
* `schedules`: a daemon with the definition `old` (period 1), one with `new`
  (period 2), a one-shot run, a clock to 2. Two definitions whose instants meet and
  differ are enough for a handover; instant 2 belongs to both, instant 1 to one.
* `workspaces`: a ticket or a proposal has its life before it, with one recovery, one
  crash of the daemon anywhere and an operator who may clean up at any time; the
  other task is already settled. Tasks meet only at the retention limit (ten in the
  code). The proofs of the three safety properties hold for any number of tasks.
* `execution`: one task with two recoveries, as in the code; one thing fails or dies at
  any step. Two recoveries let a run follow the one that fell back.
* `sandbox`: one task with one recovery, four troubles: a command, a stop, a ledger write
  and the daemon may all fail in one behaviour. Runs of other tasks use other boxes and
  other clones.
* `pr_events`: two daemons and one orphaned command, two delivered tickets of which the
  second depends on the first, a task that waits for both and one that waits for the second
  only, so that the first is its indirect dependency; one change of a pull request, one
  trouble at any step. Two blockers are the least for which one release can miss the other,
  and the chain is the least in which merges can come out of order.
* `state`: two process ids for supervisors, of builds 1 and 2, and a command of build 2,
  three ledgers, at most two processes with the ids, and one kill, one edit, one write and
  one reset.

Deadlock checking is off where the system may rightly stop: when all daemons have
exited (`TaskLedger`), when the clock of the model has ended (`ScheduleCursors`), and when
the runs, births and troubles of the model are used up (`SandboxWorker`,
`StateDirectory`).

## Divergences from the documentation

Modelling met these places where the code does something else than a document, a
comment or a test says. The models follow the code; no property claims the documented
behaviour.

1. **A cancellation before launch is dropped.** `fail_prelaunch_and_requeue`
   (`storage.rs:2710`) does not look at `cancellation_requested_at`: the run ends failed
   and the task is queued again, though the request was accepted with "the owning Flashy
   Factory daemon will stop the active process tree" (`main.rs:926`) and the test at
   `src/tests/storage.rs:1653` is named "…durable_idempotent_and_force_cancelled_outcome".
   After the launch cancellations hold: `LaunchedCancellationsHold`, `RequestsBind`.
2. **An idle fleet is not idle.** A member with nothing to claim acquires a permit and
   drops it; the drop (`daemon.rs:428`) wakes every parked member, which does the same,
   without end. `docs/design.md:55`: "Idle must be cheap".
3. **One match, two tasks.** An older reading that is written after a newer one clears
   the eligibility (`storage.rs:1493`); the next poll takes the unchanged ticket for a new
   visit. `docs/local-v1.md:185`: "One continuous match creates one task".
   `OneTaskPerEntry` excepts exactly the entries whose own readings came out of order; it
   holds for all others, however polls overlap.
4. **A re-entry during an active task is consumed.** The edge is skipped at
   `storage.rs:1538` and recorded all the same at `storage.rs:1565`.
   `docs/operations.md:30`: "Leaving and re-entering creates one new task-scoped sandbox".
5. **Retention can exceed its limit.** A janitor whose inspection fails because another
   one has just removed the directory writes *retained* over *cleaned* (`daemon.rs:2898`):
   the row takes a slot that has been given away. `docs/operations.md:416`: retained "up to
   ten".
6. **A branch blocks recovery.** `prepare_proposal` refuses an owned worktree that is not
   detached (`workspace.rs:213`). Every task workspace is prepared by it, and the agent is
   asked to create a branch, so the recovery attempts of such a task are spent in
   preparation. `docs/design.md:259`: "Interrupted work receives up to two bounded recovery
   attempts".
7. **One failing loop ends the whole fleet.** A loop that ends cancels the token that it
   shares (`daemon.rs:1564`). `docs/operations.md:460`: other repositories "remain
   retryable and never become permanently disabled".
8. **A revision that comes back is not served.** A source may name a revision that it had
   before (`source.rs:611`), and the label event of an author comes back when the
   configuration trusts them again (in between the row says *absent*, `github.rs:1307`).
   The revision differs from that of the row, so that no visit is counted, the key is that of
   the first task, and `INSERT OR IGNORE` (`storage.rs:1543`) passes over it, while the row
   says that the ticket was seen. `docs/design.md:214`: "Leaving the condition rearms the
   pair, so returning later creates a new task". `EntriesAreServed` excepts these returns
   (`Repeats`).
9. **Merges out of order leave a task waiting.** If a direct dependency is merged before
   one of its own dependencies is completed, its command finds the waiting task blocked, and
   the command of the last merge looks at its own direct dependents only
   (`clients/asana:1942`); the revision by which a waiting task can be tried again covers
   direct dependencies only, too (`clients/asana:622`). Two merges within a minute may be
   projected in this order. `docs/asana.md:368`: in "`Approved - Waiting On Dependencies`
   until the predecessor's PR is human-merged". `MergesReleaseDependents` excepts exactly
   these followers (`overtaken`).

Smaller observations, each in the module of its component: a start-up that is cancelled
drops its members instead of waiting for their workers (`daemon.rs:647`, compare
`docs/operations.md:343`); health snapshots are written after the mutex is released and may
arrive in the wrong order (`daemon.rs:1205`); a later failure can bring `retry_at` forward
(`daemon.rs:1103`); a successful poll sets a member healthy that is down; the next attempt
resets a clone and leaves the commits of the last one unreferenced (`clone.rs:220`); a
continuation is always refused, because no branch is ever recorded (`storage.rs:1087`); a
task of an earlier visit may be launched for the present one where the trigger has no
event (`github.rs:690`); an authorization that failed is retried without a pause
(`daemon.rs:2427`), so that three failed reads in a row use up the attempts of a task, and
its ticket is not served again before it leaves the condition (`EntriesAreServed` is about
tickets with fewer troubles than that); a ledger error in a monitor cancels its run (`daemon.rs:3437`);
`run_fleet` writes *disabled* records before it has the fleet lock; a daemon of an older
build goes on writing after a newer one migrated; a reused process id makes a reset refuse;
a pull request that is reopened and closed at the same head is not projected again
(`daemon.rs:4376`); a crash between the end of a run and its association loses the
association (`daemon.rs:3942`).

## Fairness

* `TaskLedger`: a daemon that serves ticks and heartbeats, a worker goes on (every
  agent has a deadline), a new process reaches its loop. Nothing is assumed of
  operators, stalls, crashes, arrivals, or of which task is claimed. These are timers
  of tokio (`recovery_interval`, `maintain_owner_lease`) and timeouts of `runtime.rs`.
* `FleetAdmission`: loops are scheduled, timers tick, arms and workers end. Strong
  fairness of `Reap` is the random choice of `select!` among ready branches.
* `FleetSupervisor`: time passes, operations end (each has a timeout), tasks that can go
  on do. Strong fairness of `HostAcquires` is the first-come-first-served semaphore of tokio:
  between two waits a slot may be taken, but not for ever by others. The operator need
  not act and no loop need fail.
* `TicketAuthorization`: polls go on, queued tasks are claimed, an authorization answers
  or times out, a launched task ends. People are free.
* `ScheduleCursors`: the tick of each daemon happens, an enqueue does not fail for
  ever, a one-shot run ends.
* `WorkspaceLifecycle`: the tick visits each ended task again and again (it iterates
  over all of them), a janitor of a living daemon goes on, a removal does not fail for
  ever. The operator and the restart of a daemon are not fair.
* `RunExecution` and `SandboxWorker`: the worker, its monitors and the start-up are
  scheduled. In boxes, two steps are assumed to return that have no timeout in the code:
  writing the prompt of an agent (`sandbox.rs:299`) and the fetch on the host
  (`sandbox.rs:529`). Agents may ignore every signal that can be ignored and need not exit, a box
  need not appear, nobody need start a daemon.
* `PullRequestEvents`: the arm runs every minute and comes to its end, a command goes on,
  a claim expires, a worker hands over what it committed. Strong fairness of `Acquire` is
  one minute's timer against a lock that others hold for a moment each.
* `TriggerPoll` and `StateDirectory`: none; their properties are safety.

## Proofs

All theorems are of the form `Spec => …` without use of fairness, for every value of the
constants under the named assumption of the component (`LedgerAssumption`,
`AdmissionAssumption`, `SupervisorAssumption`, `PollAssumption`, `ScheduleAssumption`,
`AuthorizationAssumption`, `WorkspaceAssumption`, `EventAssumption`, `GraphAssumption`,
`ExecutionAssumption`, `SandboxAssumption`, `StateAssumption`), which every run of the component evaluates. Bounds
such as `MaxTroubles` or `MaxRuns` are constants like others: the theorems hold for all of
them.

`FleetProofs` extends `FleetSupervisor` and takes an instance of `FleetAdmission`;
`WorkEntryProofs` extends `ScheduleCursors` and takes instances of `TriggerPoll` and
`TicketAuthorization`. Where a theorem about an instance needs its assumption, that is a
hypothesis of the theorem.
All others are about the one module in their name.

* `TaskLedgerProofs`:
  * `TypeCorrect`, `OneOpenRun`. The two facts about a task, *running iff an open run* and
    *at most one*, are inductive together with the types: a claim opens a run only for a
    queued task, which by the first fact has none; everything that closes a run moves its
    task in the same step. The recovery of many orphans in one step is proved pointwise,
    per run and per task.
  * `OneTaskOfATicket`: a task becomes running only by a claim, whose filter sees the
    other tasks of the ticket.
  * `ClosedRunsAreFinal`, `LiveRunsAreTheirOwners`, `CancellationsDecide`: action
    properties, one step per action; a recovery decides each row by itself.
  * `AgentsAreFenced` is not inductive: `FenceInv` adds that who supervises, *or is about
    to spawn*, has an open and anchored row or a daemon without its lease, and that a
    worker belongs to a daemon that serves. A recovery may only close rows of owners that
    are not live, which is what makes the second disjunct true.
  * `RecoveriesChain`: `ChainInv` adds `PendingRecoveries` (a task that waits for a
    recovery names its own failed run, below the budget, that nobody has recovered) and
    needs `OneOpenRunPerRunningTask`.
  * `LedgerIsAQueue`: the refinement. With `ChainInv`, every step is for every task a move
    of the queue or none: `SpentAttempts` is the attempt of the one open run, or one more
    than that of the run to be recovered. Tasks may be in the ledger from the start, in any
    state but running.
* `FleetProofs`, the supervisor: `FleetsDrain`, `PausesHold`. `FleetInv` says to whom an
  operation belongs: polls run only while the poller does, and a repository has an
  operation only while its member prepares or the start-up is at it; then joined members
  and a joined poller leave no operation behind. `PausesHold` rests on
  `WaitsAreInThePause`, what is left of the wait of any answer is within the pause: each
  answer leaves the larger of its wait and the pause, and both run down together; and an
  operation starts only from a look at the pause under its permit. The delay after failures is a power of two, of which the prover knows
  nothing; the types of the proof leave the retry clocks out, on which neither theorem
  depends.
* `FleetProofs`, admission: `SlotsTypeCorrect`, `SlotsAreConserved`, `GrantsRotate`. That
  `available` stays below `Limit` is not inductive: it needs the conservation law, and the
  law needs finiteness of the sets it counts. `SlotInv` therefore types `available` as a
  natural number and counts; the bound is a corollary. `GrantsRotate` is arithmetic of the
  distance to the cursor modulo `N`.
* `WorkEntryProofs`, schedules: `TypeCorrect`, `OneDefinitionServed`, `InstantsAreUnique`,
  `OnlyDowntimeSkips`. `AgreeInv` adds that only a registered owner has a row;
  `InstantsAreUnique` rests on the key that ignores the definition and is inductive alone.
  `OnlyDowntimeSkips` is the action property `NoServedInstantSkipped`: beside a live owner
  whoever resolves keeps the stored instant (`ServedCursorKept`, which needs that a row
  holds the definition of its owner), and between an instant and the occurrence after it
  there is no other (`NothingBetween`), so an owner that moves the cursor enqueues all
  that it passes.
* `WorkEntryProofs`, polls: `PollTypesCorrect`, `OneActiveTask`, `UniqueKeys`, for any number
  of pollers and any order of their readings, so divergence 3 is about entries, never about
  two workers at once. `OneTaskOfAnEntry` holds for any number of
  overlapping polls, too: `EntryInv` adds `TasksFollow`, no task is ahead of the newest
  reading that the ledger has got, and where that is a match of an entry that has its task
  and whose readings came in order, the row is as that reading left it. So the next reading
  of the entry finds no edge, and one that is older marks the entry.
* `WorkEntryProofs`, authorization: `TicketTypesCorrect`, `LaunchesWereCurrent`. `TicketInv`
  says what the first of the two reads has established for the second (`Established`): a
  label claim either saw the whole ticket current or is already behind the timeline, so that
  the second read refuses it, because events are numbered as they happen; a status claim has
  a trusted author, which only a restart can change; a source claim has one read.
* `WorkspaceLifecycleProofs`: `TypeCorrect`, `LiveTasksAreSafe`,
  `DirectoriesAreKnown`, `WorkSurvives`, `WorkspaceTasksAreAQueue`. The properties are not inductive. `IInv` adds,
  per task: a worker exists only while its daemon runs, for a running task with a
  reserved row; a janitor has only ended tasks in hand; and what a janitor is about to
  do is justified (`Justified`): before a removal the task succeeded and nothing is
  unpublished, or it is a proposal, or it was confirmed; before closing a row the
  directory is gone. A step concerns one task (`LocalTo`), so the invariant of all
  others follows from one lemma, and each action is left with its own task.
  `WorkSurvives` is an action property: only `RemoveTree` makes a directory disappear,
  and it does so in a justified state. `WorkspaceTasksAreAQueue` is the refinement of
  `TaskQueue`; a worker that ends a run does so only for a running task, which is part of
  `IInv`, and the start requeues or fails all running tasks in one step.
* `RunExecutionProofs`: `TypeCorrect`, `RequestsDecide`, `AgentsStayAnchored`,
  `SignalsReachTheirOwn`, `ExecutionIsAQueue`. `AgentInv` says per step of the worker who may be alive: the
  worker holds a group as long as it may signal it, and the row names the group before the
  agent is spawned (`Supervised`); at any other step, and without a worker while the daemon
  is up, nobody lives (`Quiet`); whoever lives has its anchor (`Anchored`). Others get a
  process id only from an anchor that is gone, so a signal to a held group stays at home.
  `ExecutionIsAQueue` refines `TaskQueue` with one task; it needs that a run is open
  exactly while the task is running (`OpenTask`): otherwise the late end of a run could
  conclude a task that the recovery has requeued.
* `SandboxWorkerProofs`: `TypeCorrect`, `AgentsOfOpenRuns`, `BoxesAreHandedOver`,
  `StartsSettleBoxes`, `SandboxTasksAreAQueue`, `BoxesAreKept`. In `SandboxInv`, a run that was not claimed has left nothing
  (`Future`); until its agent starts a worker has an open run without changes, the row tells
  after an error whether there is anything to rescue, and what is about to be removed is
  saved (`OnTrack` for workers, `RescuesSaved` for a start); an agent that no failed stop has
  missed is either its worker's or one the start has still to look at (`AgentsAtWork`); and a
  start has in hand or before it every box that is neither retained nor late (`BoxesFound`).
  Two refinements follow. Both rest on `HandInv`, which says of each worker and each row in
  hand what the abstractions ask for at its step: a run is closed only for a running task, a
  creation is recorded before it starts, nobody preserves a box beside its agent, and a run
  that is closed has no agent in. A step moves the run of one worker, one box
  of the start, or, in the recovery, the run of each open task; for each of them `RunMoves`
  says in the terms of the code what may change together, and `BoxesMove` that each such
  change is a move of the abstraction.
* `StateDirectoryProofs`: `StoresTyped`, `NoCommitIsLost`, `MigrationsApplyOnce`,
  `ResetsSpareWork`, `CommandsResolveTheLedger`. Each step keeps, makes, removes or
  rewrites each ledger (`Changed`). `StateInv` adds that who has connected has its main
  file, that who migrates is the writer and has read the version that is still there (it
  reads inside the transaction), which locks a reset holds at which of its steps,
  and that a manifest left over is that of an earlier process of its id. The types of the
  proof leave out that births stay within their bound, a sum over processes; no theorem
  depends on it.
* `PullRequestEventsProofs`: `TypeCorrect`, `MergesAreNotForgotten`, `FollowersWaitForAll`,
  `LastMergeReleases`, `EventsAreProjected`. Completion and exemption (tags that people changed, or that
  contradict each other) are for ever, `SettledStays`. `EventInv` follows a merge from the
  command to the ledger: the command of a daemon works on the event of the daemon, a command
  that reports a merge as done has completed its ticket, and so has a daemon that marks it.
  `ReleaseInv` says that what a command is about to release waits for its own ticket at most,
  and that it releases after completing; commands that overlap do no harm because completions
  are never taken back. `LastInv` is its counterpart: the lock admits one arm, which waits for
  its command, and the command of the last merge has the follower among its routes or has
  released it; without the lock two last merges would each see the other's ticket open. The
  graph may be any: `IndirectFirst` says of the followers that were not overtaken that once a
  direct dependency is merged, all indirect ones are completed, so that what
  `dependency_state` still finds open is the command's own ticket at most. A
  follower without any dependency is not a subject of the property: no merge would release it.
  Both this and `EventsAreProjected`, the refinement of `MergeProjection`, rest on `ArmInv`:
  beside the lock (`OneArm`, `ArmsWait`) it says that a merge that a
  daemon has seen or a command projects is still a merge, though the provider has moved on
  (`SeenMerges`, `ProjectedMerges`), and the event a daemon works on is still as the daemon left
  it (`HeldEvents`), because a claim is not let lapse under its daemon and the lock admits no
  other arm. Without `HeldEvents` an event could be applied after it was forgotten.
  The types need two facts of their own: a reading is no newer than the changes so far, and
  only an open pull request asks for a continuation.

Every invariant that a run checks, every action property without `~>` and every refinement is
thereby the subject of a theorem. Three of the invariants are those of a module that a proof
module takes by a named instance: `FleetAdmission`'s `PermitsConserved` (`SlotsAreConserved`),
`TriggerPoll`'s `OneTaskPerEntry` (`OneTaskOfAnEntry`) and
`TicketAuthorization`'s `LaunchesAreCurrent` (`LaunchesWereCurrent`). Some theorems state what no run checks by itself:
`BoxesAreHandedOver` (`RemovedBoxesAreHandedOver`) and `MergesAreNotForgotten`
(`ConsumedMergesAreProjected`) are safety properties that `KeepsBoxes` and
`ImplementsMergeProjection`, which the runs check, imply, and `SandboxTasksAreAQueue`,
`WorkspaceTasksAreAQueue` and `ExecutionIsAQueue` are the refinements of `TaskQueue` by the
three modules beside the ledger. Only model-checked: the liveness properties, because TLAPS treats
neither fairness nor `ENABLED` here. Facts about exponents and sums over sets are out of the
prover's reach; where a type rests on one, it is left to TLC, as said above.

## What is not modelled

* **Approvals and project claims**: `authorize_claim`, the reservations and consumptions
  of approvals and the project claims have no caller in production; the daemon authorizes
  through `authorize_label_claim`, `authorize_project_claim` and `SourceClient::authorize`,
  which `TicketAuthorization` models.
* **Named branches of clones** (`prepare_delivery`, `branch_is_pushed`): the daemon never
  names a branch, so this half of `clone.rs` is unreachable from it. `WorkspaceLifecycle`
  leaves named delivery branches out for the same reason, and rows of foreign
  repositories, which are only marked retained.
* **Sources, GitHub client, forge**: pagination, retries and decoding are input and
  output; what they conclude is the input of `TriggerPoll`, `TicketAuthorization` and
  `PullRequestEvents`. Of the clients under `.flashy-factory/` only the projection of a
  pull request into Asana is modelled, because it is the other half of a protocol.
* **Configuration, workflows, discovery, command line, inspection**: sequential parsing
  and formatting without shared state. The commands that change state (`cancel`,
  `cleanup`, `reset`) are steps of the modules that own the state.
* In `TaskLedger`: events, artifacts and usage of runs, which nothing reads back. In
  `RunExecution`: the JSONL stream beyond its session line, health checks of the runtimes.
  In `SandboxWorker`: secrets, version checks, captured output, and a second daemon on one
  data directory. In `FleetSupervisor`: the copies of the health records in the ledgers and
  the jitter of delays. In `StateDirectory`: the bodies of the migrations, each one step.
  In `ScheduleCursors`: the filter of a claim by definition.
* Hazards without a property are listed in `PROJECT.json` with the reason: mostly, the
  code really does what a property would forbid.

## Plan

All modules of the plan exist, with their abstract specifications, and so do the theorems
about every safety property and every refinement. Further work would widen the models, as the
list above says: the filter of a claim by definition of a schedule, timezones, and several
daemons beside one workspace.

## How to run

```sh
cd tla
tlc -workers 2 -config TaskLedger.cfg MCTaskLedger
tlc -workers 2 -config PullRequestEvents.cfg MCPullRequestEvents
tlapm TaskLedgerProofs.tla
```

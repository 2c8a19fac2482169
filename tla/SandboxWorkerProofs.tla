-------------------------- MODULE SandboxWorkerProofs --------------------------
(***************************************************************************)
(* Proofs about SandboxWorker for any number of tasks and attempts, and    *)
(* any number of commands, ledger writes and daemons that fail.            *)
(***************************************************************************)
EXTENDS SandboxWorker, TLAPS

Booting == daemon.at \in {"settling", "rescuing", "removing", "removed"}

\* A worker before its agent is started.
Early == {"claimed", "prepared", "creating"}

\* Agents that no attempt to stop them has missed.
Loose == agents \ unstopped

\* The workers live in the daemon.
WorkersServe == ~Serving => \A t \in Tasks : worker[t] = "none"

\* The attempts of a task follow one another: a run that was not claimed has
\* left nothing behind.
Future ==
    /\ \A r \in Runs : r[2] > attempt[r[1]] => outcome[r] = "none"
    /\ \A t \in Tasks : task[t] = "queued" => outcome[Run(t)] = "none"
    /\ \A r \in Runs : outcome[r] = "none" => r \notin agents /\ work[r] = "none"

\* Until its agent starts a worker has an open run that has left nothing; then
\* the row tells whether there can be anything to rescue after an error, and what
\* the worker is about to remove is saved.
OnTrack(t) ==
    /\ worker[t] \in Early \cup {"executing"} => outcome[Run(t)] = "running"
    /\ worker[t] \in Early => Run(t) \notin agents /\ work[Run(t)] = "none"
    /\ worker[t] = "executing" => row[Run(t)] = "created"
    /\ worker[t] = "failing" =>
          row[Run(t)] = "created" \/ (Run(t) \notin agents /\ work[Run(t)] = "none")
    /\ worker[t] \in {"reporting", "removing", "removed"} =>
          Run(t) \in unstopped \/ work[Run(t)] # "unsaved"

WorkersOnTrack == \A t \in Tasks : OnTrack(t)

\* An agent has its box and an open run; while the daemon serves it has its
\* worker, and while the daemon starts it is one of those not yet looked at.
AgentsAtWork ==
    \A r \in Loose :
        /\ box[r] = "present" /\ outcome[r] = "running"
        /\ Serving => worker[r[1]] = "executing" /\ r = Run(r[1])
        /\ Booting => r \in found \ daemon.run

\* So is what a start is about to remove.
RescuesSaved ==
    Stage("removing") => \A r \in daemon.run : r \in unstopped \/ work[r] # "unsaved"

\* What a start has still to settle.
BoxesFound ==
    Booting =>
        /\ daemon.run \subseteq found /\ (Stage("settling") => daemon.run = {})
        /\ \A r \in Runs : box[r] = "present" => r \in found \/ row[r] = "retained" \/ r \in late
        /\ \A r \in daemon.run : Stage("removed") /\ box[r] = "present" => r \in late

WorkInv == WorkersServe /\ Future /\ WorkersOnTrack /\ AgentsAtWork /\ RescuesSaved
SandboxInv == TypeOK /\ WorkInv /\ BoxesFound

--------------------------------------------------------------------------------
LEMMA RunFacts ==
    ASSUME TypeOK
    PROVE  /\ \A t \in Tasks : Run(t) \in Runs /\ Run(t)[1] = t /\ Run(t)[2] = attempt[t]
           /\ \A r \in Runs : r[1] \in Tasks /\ r[2] \in Attempts /\ r = <<r[1], r[2]>>
           /\ \A t \in Tasks : NextAttempt(t) \in Attempts /\ Requeued(t) \in TaskStates
           /\ \A r \in Runs : r[2] + 1 \in 0 .. MaxAttempts + 1
           /\ \A t, u \in Tasks : Run(t) = Run(u) => t = u
<1>1. attempt \in [Tasks -> Attempts] /\ MaxAttempts \in Nat
  BY SandboxAssumption DEF TypeOK
<1>2. \A t \in Tasks : attempt[t] \in Attempts
  BY <1>1
<1>3. \A t \in Tasks : Run(t) \in Runs /\ Run(t)[1] = t /\ Run(t)[2] = attempt[t]
  BY <1>2 DEF Run, Runs
<1>4. \A r \in Runs : r[1] \in Tasks /\ r[2] \in Attempts /\ r = <<r[1], r[2]>>
  BY DEF Runs
<1>5. \A t \in Tasks : NextAttempt(t) \in Attempts /\ Requeued(t) \in TaskStates
  BY <1>1, <1>2 DEF NextAttempt, Requeued, Attempts, TaskStates
<1>6. \A r \in Runs : r[2] + 1 \in 0 .. MaxAttempts + 1
  BY <1>1, <1>4 DEF Attempts
<1> QED
  BY <1>3, <1>4, <1>5, <1>6

LEMMA TypesInit == Init => TypeOK
<1> SUFFICES ASSUME Init PROVE TypeOK
  OBVIOUS
<1>1. 0 \in Attempts /\ 0 \in 0 .. MaxAttempts + 1 /\ 0 \in 0 .. MaxTroubles
  BY SandboxAssumption DEF Attempts
<1>2. daemon \in [at : Boots, run : SUBSET Runs]
  BY DEF Init, Boots
<1> QED
  BY <1>1, <1>2 DEF Init, TypeOK, TaskStates, Outcomes, RowStates, WorkerSteps, Endings

\* The groups of variables that a step may leave alone or change, and their types.
LedgerTypes ==
    /\ task \in [Tasks -> TaskStates] /\ attempt \in [Tasks -> Attempts]
    /\ outcome \in [Runs -> Outcomes] /\ requested \subseteq Runs

BoxTypes ==
    /\ row \in [Runs -> RowStates] /\ gone \subseteq Runs
    /\ box \in [Runs -> {"none", "creating", "present"}]
    /\ agents \cup late \cup unstopped \subseteq Runs

ContentTypes ==
    /\ work \in [Runs -> {"none", "unsaved", "saved"}]
    /\ clone \in [Tasks -> {"none", "ready", "retained", "cleaned"}]
    /\ head \in [Tasks -> 0 .. MaxAttempts + 1]

WorkerTypes == worker \in [Tasks -> WorkerSteps] /\ result \in [Tasks -> Endings]

HostTypes ==
    /\ daemon \in [at : Boots, run : SUBSET Runs]
    /\ found \subseteq Runs /\ troubles \in 0 .. MaxTroubles

LEMMA TypeParts ==
    TypeOK <=> LedgerTypes /\ BoxTypes /\ ContentTypes /\ WorkerTypes /\ HostTypes
  BY DEF TypeOK, LedgerTypes, BoxTypes, ContentTypes, WorkerTypes, HostTypes

LEMMA LedgerTypesNext == TypeOK /\ [Next]_vars => LedgerTypes'
<1> SUFFICES ASSUME TypeOK, [Next]_vars PROVE LedgerTypes'
  OBVIOUS
<1>1. LedgerTypes /\ WorkerTypes
  BY TypeParts
<1>2. CASE UNCHANGED ledger
  BY <1>1, <1>2 DEF LedgerTypes, ledger
<1>3. ASSUME NEW t \in Tasks, NEW o \in {"succeeded", "failed", "cancelled"}, Finish(t, o)
      PROVE  LedgerTypes'
  BY <1>1, <1>3 DEF LedgerTypes, Finish, TaskStates, Outcomes
<1>4. ASSUME NEW t \in Tasks, Claim(t) \/ Request(t) \/ PrepareFails(t)
      PROVE  LedgerTypes'
  <2>1. Run(t) \in Runs /\ NextAttempt(t) \in Attempts /\ Requeued(t) \in TaskStates
        /\ "running" \in TaskStates /\ {"running", "failed"} \subseteq Outcomes
    BY RunFacts DEF TaskStates, Outcomes
  <2>2. CASE Claim(t)
    BY <1>1, <2>1, <2>2 DEF LedgerTypes, Claim
  <2>3. CASE Request(t)
    BY <1>1, <2>1, <2>3 DEF LedgerTypes, Request
  <2>4. CASE PrepareFails(t)
    BY <1>1, <2>1, <2>4 DEF LedgerTypes, PrepareFails
  <2> QED
    BY <1>4, <2>2, <2>3, <2>4
<1>5. ASSUME NEW t \in Tasks, Report(t) \/ CloseFailed(t)
      PROVE  LedgerTypes'
  <2>1. Verdicts(t) \subseteq {"succeeded", "failed", "cancelled"}
    BY DEF Verdicts
  <2> QED
    BY <1>3, <1>5, <2>1 DEF Report, CloseFailed
<1>6. CASE Recover
  <2>1. outcome' \in [Runs -> Outcomes]
    BY <1>1, <1>6 DEF LedgerTypes, Recover, Outcomes
  <2>2. task' \in [Tasks -> TaskStates] /\ attempt' \in [Tasks -> Attempts] /\ requested' = requested
    BY <1>1, <1>6, RunFacts DEF LedgerTypes, Recover, TaskStates
  <2> QED
    BY <1>1, <2>1, <2>2 DEF LedgerTypes
<1> QED
  BY <1>2, <1>4, <1>5, <1>6
  DEF Next, vars, WorkerStep, WorkerTrouble, BootStep, Prepare, Create, Execute, CreateFails,
      ExecutionEnds, Interrupt, Fail, Preserve, Remove, CloseRow, Finalize, VersionFails,
      RecordCreatedFails, ExecutionFails, PreserveFails, RemoveFails, Abandon, Settle,
      SettlePreserves, SettleRetains, SettleRemoves, SettleCloses, CreationEnds, AgentWorks,
      AgentExits, SettleRemoveFails, Boot, Shutdown, Drained, Crash

LEMMA BoxTypesNext == TypeOK /\ [Next]_vars => BoxTypes'
<1> SUFFICES ASSUME TypeOK, [Next]_vars PROVE BoxTypes'
  OBVIOUS
<1>1. BoxTypes /\ WorkerTypes /\ HostTypes
  BY TypeParts
<1>2. CASE UNCHANGED <<rows, boxes>>
  BY <1>1, <1>2 DEF BoxTypes, rows, boxes
<1>3. ASSUME NEW r \in Runs, NEW s \in RowStates, SetRow(r, s) \/ UNCHANGED row,
             gone' \in {gone, gone \cup {r}},
             Stopped(r) \/ NotStopped(r) \/ Erased(r) \/ CreationStarted(r) \/ UNCHANGED boxes
      PROVE  BoxTypes'
  <2>1. row' \in [Runs -> RowStates] /\ gone' \subseteq Runs
    BY <1>1, <1>3 DEF BoxTypes, SetRow
  <2>2. box' \in [Runs -> {"none", "creating", "present"}]
    BY <1>1, <1>3 DEF BoxTypes, Stopped, NotStopped, Erased, CreationStarted, boxes
  <2>3. agents' \cup late' \cup unstopped' \subseteq Runs
    BY <1>1, <1>3 DEF BoxTypes, Stopped, NotStopped, Erased, CreationStarted, boxes
  <2> QED
    BY <2>1, <2>2, <2>3 DEF BoxTypes
<1>4. \A t \in Tasks : Run(t) \in Runs /\ result[t] \in RowStates
  BY <1>1, RunFacts DEF WorkerTypes, RowStates
<1>5. {"creating", "created", "retained", "removing", "removed", "recovered", "error"} \subseteq RowStates
  BY DEF RowStates, Endings
<1>6. ASSUME NEW t \in Tasks, Create(t) \/ Interrupt(t) \/ ExecutionFails(t)
      PROVE  BoxTypes'
  BY <1>3, <1>4, <1>5, <1>6
  DEF Create, Recorded, Interrupt, ExecutionFails, rows
<1>7. ASSUME NEW t \in Tasks, Fail(t) \/ Preserve(t) \/ PreserveFails(t)
      PROVE  BoxTypes'
  BY <1>3, <1>4, <1>5, <1>7 DEF Fail, Preserve, PreserveFails
<1>8. ASSUME NEW t \in Tasks, Remove(t) \/ RemoveFails(t) \/ CloseRow(t)
      PROVE  BoxTypes'
  BY <1>3, <1>4, <1>5, <1>8 DEF Remove, RemoveFails, CloseRow
<1>9. ASSUME NEW t \in Tasks, Execute(t) \/ RecordCreatedFails(t)
      PROVE  BoxTypes'
  BY <1>1, <1>4, <1>5, <1>9 DEF BoxTypes, Execute, RecordCreatedFails, SetRow, rows
<1>10. ASSUME NEW r \in Runs, CreationEnds(r) \/ AgentExits(r)
       PROVE  BoxTypes'
  BY <1>1, <1>10 DEF BoxTypes, CreationEnds, AgentExits, rows
<1>11. ASSUME NEW r \in Runs,
              \/ Settle(r) \/ SettleRetains(r) \/ SettleRemoves(r) \/ SettleCloses(r)
              \/ SettleRemoveFails(r)
       PROVE  BoxTypes'
  <2>1. CASE Settle(r)
    BY <1>3, <1>5, <2>1 DEF Settle, Silenced
  <2>2. CASE SettleRetains(r)
    BY <1>3, <1>5, <2>2 DEF SettleRetains
  <2>3. CASE SettleRemoves(r) \/ SettleCloses(r) \/ SettleRemoveFails(r)
    BY <1>3, <1>5, <2>3 DEF SettleRemoves, SettleCloses, SettleRemoveFails
  <2> QED
    BY <1>11, <2>1, <2>2, <2>3
<1>12. CASE Boot
  BY <1>1, <1>5, <1>12 DEF BoxTypes, Boot, Unremoved, boxes
<1> QED
  BY <1>2, <1>6, <1>7, <1>8, <1>9, <1>10, <1>11, <1>12
  DEF Next, vars, WorkerStep, WorkerTrouble, BootStep, Claim, Request, Prepare, PrepareFails,
      CreateFails, ExecutionEnds, Report, CloseFailed, Finalize, VersionFails, Abandon, Recover,
      SettlePreserves, AgentWorks, Shutdown, Drained, Crash

LEMMA ContentTypesNext == TypeOK /\ [Next]_vars => ContentTypes'
<1> SUFFICES ASSUME TypeOK, [Next]_vars PROVE ContentTypes'
  OBVIOUS
<1>1. ContentTypes
  BY TypeParts
<1>2. CASE UNCHANGED contents
  BY <1>1, <1>2 DEF ContentTypes, contents
<1>3. ASSUME NEW r \in Runs, HandedOver(r) PROVE ContentTypes'
  <2>1. /\ r[1] \in Tasks /\ 0 \in 0 .. MaxAttempts + 1 /\ r[2] + 1 \in 0 .. MaxAttempts + 1
        /\ work[r] \in {"none", "unsaved", "saved"}
    BY <1>1, RunFacts, SandboxAssumption DEF ContentTypes
  <2> QED
    BY <1>1, <1>3, <2>1 DEF ContentTypes, HandedOver
<1>4. ASSUME NEW t \in Tasks, Prepare(t) \/ Finalize(t) PROVE ContentTypes'
  <2>1. 0 \in 0 .. MaxAttempts + 1 /\ Disposal(t) \subseteq {"retained", "cleaned"}
    BY SandboxAssumption DEF Disposal
  <2> QED
    BY <1>1, <1>4, <2>1 DEF ContentTypes, Prepare, Finalize, CloneReady, CheckedOut
<1>5. ASSUME NEW r \in Runs, AgentWorks(r) PROVE ContentTypes'
  BY <1>1, <1>5 DEF ContentTypes, AgentWorks
<1> QED
  BY <1>2, <1>3, <1>4, <1>5, RunFacts
  DEF Next, vars, WorkerStep, WorkerTrouble, BootStep, Claim, Request, Create, Execute, CreateFails,
      ExecutionEnds, Interrupt, Fail, Preserve, Remove, CloseRow, VersionFails, PrepareFails, Report,
      RecordCreatedFails, ExecutionFails, PreserveFails, RemoveFails, Abandon, Settle, CloseFailed,
      SettlePreserves, SettleRetains, SettleRemoves, SettleCloses, CreationEnds,
      AgentExits, SettleRemoveFails, Boot, Shutdown, Drained, Crash, Recover

LEMMA WorkerTypesNext == TypeOK /\ [Next]_vars => WorkerTypes'
<1> SUFFICES ASSUME TypeOK, [Next]_vars PROVE WorkerTypes'
  OBVIOUS
<1>1. WorkerTypes
  BY TypeParts
<1>2. CASE UNCHANGED workers
  BY <1>1, <1>2 DEF WorkerTypes, workers
<1>3. ASSUME NEW t \in Tasks, NEW s \in WorkerSteps, Goto(t, s), NEW e \in Endings,
             result' = result \/ result' = [result EXCEPT ![t] = e]
      PROVE  WorkerTypes'
  BY <1>1, <1>3 DEF WorkerTypes, Goto
<1>4. {"exited", "cancelled", "timed_out", "error"} \subseteq Endings
  BY DEF Endings
<1>5. ASSUME NEW t \in Tasks, Claim(t) \/ WorkerStep(t) \/ WorkerTrouble(t) PROVE WorkerTypes'
  <2>1. PICK s : Goto(t, s)
    BY <1>5
    DEF WorkerStep, WorkerTrouble, Claim, Prepare, Create, Execute, CreateFails, ExecutionEnds,
        Interrupt, Fail, Preserve, Remove, CloseRow, VersionFails, PrepareFails, Report,
        RecordCreatedFails, ExecutionFails, PreserveFails, RemoveFails, Abandon, CloseFailed, Finalize
  <2>2. \E w \in WorkerSteps : Goto(t, w)
    BY <1>5
    DEF WorkerSteps, AfterRemoval, WorkerStep, WorkerTrouble, Claim, Prepare, Create, Execute,
        CreateFails, ExecutionEnds, Interrupt, Fail, Preserve, Remove, CloseRow, VersionFails,
        PrepareFails, Report, RecordCreatedFails, ExecutionFails, PreserveFails, RemoveFails, Abandon,
        CloseFailed, Finalize
  <2>3. result' = result \/ \E e \in Endings : result' = [result EXCEPT ![t] = e]
    BY <1>4, <1>5
    DEF WorkerStep, WorkerTrouble, Claim, Prepare, Create, Execute, CreateFails, ExecutionEnds,
        Interrupt, Fail, Preserve, Remove, CloseRow, VersionFails, PrepareFails, Report,
        RecordCreatedFails, ExecutionFails, PreserveFails, RemoveFails, Abandon, CloseFailed, Finalize
  <2> QED
    BY <1>3, <1>4, <2>2, <2>3
<1>6. CASE Crash
  BY <1>1, <1>6 DEF WorkerTypes, Crash, WorkerSteps
<1> QED
  BY <1>2, <1>5, <1>6
  DEF Next, vars, BootStep, Request, Settle, SettlePreserves, SettleRetains, SettleRemoves,
      SettleCloses, CreationEnds, AgentWorks, AgentExits, SettleRemoveFails, Boot, Shutdown, Drained,
      Recover

LEMMA HostTypesNext == TypeOK /\ [Next]_vars => HostTypes'
<1> SUFFICES ASSUME TypeOK, [Next]_vars PROVE HostTypes'
  OBVIOUS
<1>1. HostTypes /\ MaxTroubles \in Nat /\ Owned \subseteq Runs
  BY TypeParts, SandboxAssumption DEF Owned
<1>2. Trouble \/ Fine => troubles' \in 0 .. MaxTroubles
  BY <1>1 DEF HostTypes, Trouble, Fine
<1>3. CASE UNCHANGED <<daemon, found>> /\ (Trouble \/ Fine)
  BY <1>1, <1>2, <1>3 DEF HostTypes
<1>4. ASSUME NEW at \in Boots, NEW run \in SUBSET Runs, daemon' = [at |-> at, run |-> run],
             found' \subseteq Runs, Trouble \/ Fine
      PROVE  HostTypes'
  BY <1>1, <1>2, <1>4 DEF HostTypes
<1>5. {"down", "settling", "rescuing", "removing", "removed", "up", "stopping"} \subseteq Boots
  BY DEF Boots
<1>6. ASSUME NEW t \in Tasks, Claim(t) \/ WorkerStep(t) \/ WorkerTrouble(t) \/ Request(t)
      PROVE  UNCHANGED <<daemon, found>> /\ (Trouble \/ Fine)
  BY <1>6
  DEF host, Fine, WorkerStep, WorkerTrouble, Claim, Request, Prepare, Create, Execute, CreateFails,
      ExecutionEnds, Interrupt, Fail, Preserve, Remove, CloseRow, VersionFails, PrepareFails, Report,
      RecordCreatedFails, ExecutionFails, PreserveFails, RemoveFails, Abandon, CloseFailed, Finalize
<1>7. ASSUME NEW r \in Runs, CreationEnds(r) \/ AgentWorks(r) \/ AgentExits(r)
      PROVE  UNCHANGED <<daemon, found>> /\ (Trouble \/ Fine)
  BY <1>7 DEF CreationEnds, AgentWorks, AgentExits, host, Fine
<1>8. ASSUME NEW r \in Runs, Settle(r) PROVE HostTypes'
  <2>1. (Trouble \/ Fine) /\ found \ {r} \subseteq Runs
    BY <1>1, <1>8 DEF Settle, Silenced, HostTypes
  <2>2. \/ UNCHANGED daemon /\ found' = found \ {r}
        \/ daemon' = [at |-> "rescuing", run |-> {r}] /\ found' = found
    BY <1>8 DEF Settle
  <2> QED
    BY <1>1, <1>2, <1>4, <1>5, <2>1, <2>2 DEF HostTypes
<1>9. ASSUME NEW r \in Runs,
             \/ SettlePreserves(r) \/ SettleRetains(r) \/ SettleRemoves(r) \/ SettleCloses(r)
             \/ SettleRemoveFails(r)
      PROVE  HostTypes'
  <2>1. \E at \in Boots, run \in SUBSET Runs : daemon' = [at |-> at, run |-> run]
    BY <1>5, <1>9
    DEF SettlePreserves, SettleRetains, SettleRemoves, SettleCloses, SettleRemoveFails, Settled
  <2>2. found' \subseteq Runs
    BY <1>1, <1>9
    DEF HostTypes, SettlePreserves, SettleRetains, SettleRemoves, SettleCloses, SettleRemoveFails, Settled
  <2>3. Trouble \/ Fine
    BY <1>9
    DEF SettlePreserves, SettleRetains, SettleRemoves, SettleCloses, SettleRemoveFails, Fine
  <2> QED
    BY <1>4, <2>1, <2>2, <2>3
<1>10. CASE Boot \/ Recover \/ Shutdown \/ Drained \/ Crash
  <2>1. \E at \in Boots, run \in SUBSET Runs : daemon' = [at |-> at, run |-> run]
    BY <1>5, <1>10 DEF Boot, Recover, Shutdown, Drained, Crash
  <2>2. found' \subseteq Runs
    BY <1>1, <1>10 DEF HostTypes, Boot, Recover, Shutdown, Drained, Crash
  <2>3. Trouble \/ Fine
    BY <1>10 DEF Boot, Recover, Shutdown, Drained, Crash, Fine
  <2> QED
    BY <1>4, <2>1, <2>2, <2>3
<1>11. CASE UNCHANGED vars
  BY <1>3, <1>11 DEF vars, host, Fine
<1> QED
  BY <1>3, <1>6, <1>7, <1>8, <1>9, <1>10, <1>11 DEF Next, BootStep

LEMMA TypesNext == TypeOK /\ [Next]_vars => TypeOK'
<1>1. TypeOK /\ [Next]_vars =>
        LedgerTypes' /\ BoxTypes' /\ ContentTypes' /\ WorkerTypes' /\ HostTypes'
  BY LedgerTypesNext, BoxTypesNext, ContentTypesNext, WorkerTypesNext, HostTypesNext
<1> QED
  BY <1>1 DEF TypeOK, LedgerTypes, BoxTypes, ContentTypes, WorkerTypes, HostTypes

\* Ledger, rows, boxes, contents, workers and the daemon keep their types
\* (SandboxWorker::run in src/sandbox.rs, execute_sandbox_task and
\* reconcile_sandbox_workers in src/daemon.rs).
THEOREM TypeCorrect == Spec => []TypeOK
  BY TypesInit, TypesNext, PTL DEF Spec

--------------------------------------------------------------------------------
\* Who acts.

WorkerActs(t) == Claim(t) \/ WorkerStep(t) \/ WorkerTrouble(t)
BoxActs(r) == CreationEnds(r) \/ AgentWorks(r) \/ AgentExits(r)
SettleActs(r) ==
    \/ Settle(r) \/ SettlePreserves(r) \/ SettleRetains(r) \/ SettleRemoves(r)
    \/ SettleCloses(r) \/ SettleRemoveFails(r)
HostActs == Shutdown \/ Drained \/ Crash

LEMMA Actors ==
    ASSUME [Next]_vars
    PROVE  \/ \E t \in Tasks : WorkerActs(t)
           \/ \E r \in Runs : BoxActs(r) \/ SettleActs(r)
           \/ Boot \/ Recover \/ HostActs
           \/ UNCHANGED <<task, attempt, outcome, rows, boxes, contents, workers, daemon, found>>
  BY DEF Next, vars, ledger, host, BootStep, Request, WorkerActs, BoxActs, SettleActs, HostActs

\* A worker leaves the runs of others, and earlier runs of its own task, alone.
LEMMA WorkerFrame ==
    ASSUME TypeOK, NEW t \in Tasks, WorkerActs(t)
    PROVE  /\ Serving /\ UNCHANGED <<daemon, found, late>> /\ unstopped \subseteq unstopped'
           /\ \A u \in Tasks : u # t =>
                 worker'[u] = worker[u] /\ attempt'[u] = attempt[u] /\ task'[u] = task[u]
           /\ \A r \in Runs : r # Run(t) =>
                 /\ outcome'[r] = outcome[r] /\ row'[r] = row[r] /\ box'[r] = box[r]
                 /\ work'[r] = work[r] /\ (r \in agents' <=> r \in agents)
                 /\ r \in unstopped' <=> r \in unstopped
<1>1. LedgerTypes /\ BoxTypes /\ ContentTypes /\ WorkerTypes /\ Run(t) \in Runs
  BY TypeParts, RunFacts
<1>2. Serving /\ UNCHANGED <<daemon, found, late>> /\ unstopped \subseteq unstopped'
  BY DEF WorkerActs, host, boxes, rows, Serving, Stage, Fine, WorkerStep, WorkerTrouble, Claim, Prepare,
         Create, Execute, CreateFails, ExecutionEnds, Interrupt, Fail, Preserve, Remove, CloseRow,
         VersionFails, PrepareFails, Report, RecordCreatedFails, ExecutionFails, PreserveFails,
         RemoveFails, Abandon, CloseFailed, Finalize, CreationStarted, Stopped, NotStopped, Erased
<1>3. \A u \in Tasks : u # t => worker'[u] = worker[u]
  BY <1>1
  DEF WorkerTypes, Goto, WorkerActs, WorkerStep, WorkerTrouble, Claim, Prepare,
      Create, Execute, CreateFails, ExecutionEnds, Interrupt, Fail, Preserve, Remove, CloseRow,
      VersionFails, PrepareFails, Report, RecordCreatedFails, ExecutionFails, PreserveFails,
      RemoveFails, Abandon, CloseFailed, Finalize
<1>4. /\ \A u \in Tasks : u # t => attempt'[u] = attempt[u] /\ task'[u] = task[u]
      /\ \A r \in Runs : r # Run(t) => outcome'[r] = outcome[r]
  BY <1>1
  DEF LedgerTypes, ledger, Finish, WorkerActs, WorkerStep, WorkerTrouble, Claim, Prepare,
      Create, Execute, CreateFails, ExecutionEnds, Interrupt, Fail, Preserve, Remove, CloseRow,
      VersionFails, PrepareFails, Report, RecordCreatedFails, ExecutionFails, PreserveFails,
      RemoveFails, Abandon, CloseFailed, Finalize
<1>5. \A r \in Runs : r # Run(t) => row'[r] = row[r]
  BY <1>1
  DEF BoxTypes, SetRow, Recorded, rows, WorkerActs, WorkerStep, WorkerTrouble, Claim, Prepare,
      Create, Execute, CreateFails, ExecutionEnds, Interrupt, Fail, Preserve, Remove, CloseRow,
      VersionFails, PrepareFails, Report, RecordCreatedFails, ExecutionFails, PreserveFails,
      RemoveFails, Abandon, CloseFailed, Finalize
<1>6. \A r \in Runs : r # Run(t) => work'[r] = work[r]
  BY <1>1
  DEF ContentTypes, contents, HandedOver, WorkerActs, WorkerStep, WorkerTrouble, Claim, Prepare,
      Create, Execute, CreateFails, ExecutionEnds, Interrupt, Fail, Preserve, Remove, CloseRow,
      VersionFails, PrepareFails, Report, RecordCreatedFails, ExecutionFails, PreserveFails,
      RemoveFails, Abandon, CloseFailed, Finalize
<1>7. \A r \in Runs : r # Run(t) =>
         box'[r] = box[r] /\ (r \in agents' <=> r \in agents) /\ (r \in unstopped' <=> r \in unstopped)
  BY <1>1
  DEF BoxTypes, boxes, CreationStarted, Stopped, NotStopped, Erased, WorkerActs, WorkerStep,
      WorkerTrouble, Claim, Prepare,
      Create, Execute, CreateFails, ExecutionEnds, Interrupt, Fail, Preserve, Remove, CloseRow,
      VersionFails, PrepareFails, Report, RecordCreatedFails, ExecutionFails, PreserveFails,
      RemoveFails, Abandon, CloseFailed, Finalize
<1> QED
  BY <1>2, <1>3, <1>4, <1>5, <1>6, <1>7

LEMMA WorkersServeStep == TypeOK /\ WorkersServe /\ [Next]_vars => WorkersServe'
<1> SUFFICES ASSUME TypeOK, WorkersServe, [Next]_vars PROVE WorkersServe'
  OBVIOUS
<1>1. ASSUME NEW t \in Tasks, WorkerActs(t) PROVE WorkersServe'
  BY <1>1, WorkerFrame DEF WorkersServe, Serving
<1>2. ASSUME NEW r \in Runs, BoxActs(r) PROVE WorkersServe'
  BY <1>2 DEF BoxActs, CreationEnds, AgentWorks, AgentExits, workers, host, WorkersServe, Serving
<1>3. ASSUME NEW r \in Runs, SettleActs(r) PROVE WorkersServe'
  <2>1. ~Serving /\ UNCHANGED worker
    BY <1>3
    DEF SettleActs, Settle, SettlePreserves, SettleRetains, SettleRemoves, SettleCloses,
        SettleRemoveFails, Holds, Stage, Serving, workers
  <2> QED
    BY <2>1 DEF WorkersServe
<1>4. CASE Boot \/ Recover
  <2>1. ~Serving /\ UNCHANGED worker
    BY <1>4 DEF Boot, Recover, Stage, Serving, workers
  <2> QED
    BY <2>1 DEF WorkersServe
<1>5. CASE HostActs
  <2>1. CASE Crash
    BY <2>1 DEF Crash, WorkersServe
  <2>2. CASE Drained
    BY <2>2 DEF Drained, WorkersServe, workers
  <2>3. CASE Shutdown
    BY <2>3 DEF Shutdown, WorkersServe, Serving
  <2> QED
    BY <1>5, <2>1, <2>2, <2>3 DEF HostActs
<1>6. CASE UNCHANGED <<workers, daemon>>
  BY <1>6 DEF WorkersServe, Serving, workers
<1> QED
  BY <1>1, <1>2, <1>3, <1>4, <1>5, <1>6, Actors

\* What a worker does to the ledger.
LEMMA LedgerMoves ==
    ASSUME TypeOK, Future, NEW t \in Tasks, WorkerActs(t)
    PROVE  /\ attempt'[t] \in Attempts /\ attempt'[t] >= attempt[t]
           /\ outcome'[Run(t)] = "none" => outcome[Run(t)] = "none"
           /\ task'[t] = "queued" =>
                 \/ task[t] = "queued" /\ outcome' = outcome /\ attempt' = attempt
                 \/ attempt'[t] > attempt[t]
<1>1. LedgerTypes /\ Run(t) \in Runs /\ attempt[t] \in Nat /\ MaxAttempts \in Nat /\ attempt[t] \in Attempts
  BY TypeParts, RunFacts, SandboxAssumption DEF LedgerTypes, Attempts
<1>2. CASE UNCHANGED ledger
  BY <1>1, <1>2 DEF ledger
<1>3. CASE Claim(t)
  BY <1>1, <1>3 DEF LedgerTypes, Claim
<1>4. CASE PrepareFails(t)
  <2>1. task'[t] = Requeued(t) /\ attempt'[t] = NextAttempt(t) /\ outcome'[Run(t)] = "failed"
    BY <1>1, <1>4 DEF LedgerTypes, PrepareFails
  <2> QED
    BY <1>1, <2>1, RunFacts DEF Requeued, NextAttempt
<1>5. CASE Report(t) \/ CloseFailed(t)
  <2>1. PICK o \in {"succeeded", "failed", "cancelled"} : Finish(t, o)
    BY <1>5 DEF Report, CloseFailed, Verdicts
  <2> QED
    BY <1>1, <2>1 DEF LedgerTypes, Finish
<1> QED
  BY <1>2, <1>3, <1>4, <1>5
  DEF WorkerActs, WorkerStep, WorkerTrouble, Prepare,
      Create, Execute, CreateFails, ExecutionEnds, Interrupt, Fail, Preserve, Remove, CloseRow,
      VersionFails, RecordCreatedFails, ExecutionFails, PreserveFails,
      RemoveFails, Abandon, Finalize

\* A worker starts its agent only in a box of a run it has claimed.
LEMMA AgentMoves ==
    ASSUME TypeOK, WorkersOnTrack, Future, NEW t \in Tasks, WorkerActs(t), outcome[Run(t)] = "none"
    PROVE  (Run(t) \in agents' => Run(t) \in agents) /\ (work[Run(t)] = "none" => work'[Run(t)] = "none")
<1>1. BoxTypes /\ ContentTypes /\ Run(t) \in Runs
  BY TypeParts, RunFacts
<1>2. worker[t] \notin Early \cup {"executing"}
  BY DEF WorkersOnTrack, OnTrack
<1>3. Run(t) \in agents' => Run(t) \in agents
  BY <1>1, <1>2
  DEF Early, BoxTypes, boxes, CreationStarted, Stopped, NotStopped, Erased, WorkerActs, WorkerStep,
      WorkerTrouble, Claim, Prepare,
      Create, Execute, CreateFails, ExecutionEnds, Interrupt, Fail, Preserve, Remove, CloseRow,
      VersionFails, PrepareFails, Report, RecordCreatedFails, ExecutionFails, PreserveFails,
      RemoveFails, Abandon, CloseFailed, Finalize
<1>4. work[Run(t)] = "none" => work'[Run(t)] = "none"
  BY <1>1
  DEF ContentTypes, contents, HandedOver, WorkerActs, WorkerStep, WorkerTrouble, Claim, Prepare,
      Create, Execute, CreateFails, ExecutionEnds, Interrupt, Fail, Preserve, Remove, CloseRow,
      VersionFails, PrepareFails, Report, RecordCreatedFails, ExecutionFails, PreserveFails,
      RemoveFails, Abandon, CloseFailed, Finalize
<1> QED
  BY <1>3, <1>4

LEMMA FutureStep == TypeOK /\ Future /\ WorkersOnTrack /\ [Next]_vars => Future'
<1> SUFFICES ASSUME TypeOK, Future, WorkersOnTrack, [Next]_vars PROVE Future'
  OBVIOUS
<1>1. /\ LedgerTypes /\ BoxTypes /\ ContentTypes
      /\ \A t \in Tasks : attempt[t] \in Nat /\ attempt[t] <= MaxAttempts
      /\ \A r \in Runs : r[1] \in Tasks /\ r[2] \in Nat
  BY TypeParts, RunFacts DEF LedgerTypes, Attempts
\* The three parts of the goal, in terms of what happens to each run.
<1>2. ASSUME \A t \in Tasks : attempt'[t] >= attempt[t] /\ attempt'[t] \in Attempts,
             \A r \in Runs :
                /\ outcome'[r] = outcome[r] \/ (outcome'[r] # "none" /\ r[2] <= attempt[r[1]])
                /\ outcome[r] = "none" => /\ r \in agents' => r \in agents
                                          /\ work[r] = "none" => work'[r] = "none",
             \A t \in Tasks : task'[t] = "queued" =>
                \/ task[t] = "queued" /\ outcome'[Run(t)] = outcome[Run(t)] /\ attempt'[t] = attempt[t]
                \/ attempt'[t] > attempt[t]
      PROVE  Future'
  <2>1. \A t \in Tasks : attempt'[t] \in Nat
    BY <1>2 DEF Attempts
  <2>2. \A r \in Runs : r[2] > attempt'[r[1]] => r[2] > attempt[r[1]] /\ ~(r[2] <= attempt[r[1]])
    BY <1>1, <1>2, <2>1
  <2>3. \A r \in Runs : r[2] > attempt'[r[1]] => outcome'[r] = "none"
    BY <1>2, <2>2 DEF Future
  <2>4. ASSUME NEW t \in Tasks, task'[t] = "queued" PROVE outcome'[Run(t)'] = "none"
    <3>1. CASE task[t] = "queued" /\ outcome'[Run(t)] = outcome[Run(t)] /\ attempt'[t] = attempt[t]
      BY <3>1 DEF Future, Run
    <3>2. CASE attempt'[t] > attempt[t]
      <4> DEFINE r == <<t, attempt'[t]>>
      <4>1. r \in Runs /\ r[1] = t /\ r[2] = attempt'[t]
        BY <1>2 DEF Runs
      <4>2. outcome[r] = "none" /\ ~(r[2] <= attempt[r[1]])
        BY <1>1, <2>1, <3>2, <4>1 DEF Future
      <4>3. outcome'[r] = "none"
        BY <1>2, <4>1, <4>2
      <4> QED
        BY <4>3 DEF Run
    <3> QED
      BY <1>2, <2>4, <3>1, <3>2
  <2>5. \A r \in Runs : outcome'[r] = "none" => r \notin agents' /\ work'[r] = "none"
    BY <1>2 DEF Future
  <2> QED
    BY <2>3, <2>4, <2>5 DEF Future
<1>3. \A t \in Tasks : attempt[t] \in Attempts /\ attempt[t] >= attempt[t]
  BY <1>1 DEF LedgerTypes
<1>4. ASSUME UNCHANGED <<task, attempt, outcome>>,
             \A r \in Runs : outcome[r] = "none" =>
                /\ r \in agents' => r \in agents
                /\ work[r] = "none" => work'[r] = "none"
      PROVE  Future'
  BY <1>2, <1>3, <1>4
<1>5. ASSUME NEW t \in Tasks, WorkerActs(t) PROVE Future'
  <2>1. ASSUME NEW r \in Runs
        PROVE  /\ outcome'[r] = outcome[r] \/ (outcome'[r] # "none" /\ r[2] <= attempt[r[1]])
               /\ outcome[r] = "none" => /\ r \in agents' => r \in agents
                                         /\ work[r] = "none" => work'[r] = "none"
    <3>1. CASE r # Run(t)
      BY <1>5, <3>1, WorkerFrame
    <3>2. CASE r = Run(t)
      <4>1. r[2] <= attempt[r[1]]
        BY <1>1, <3>2, RunFacts
      <4>2. outcome'[r] = outcome[r] \/ outcome'[r] # "none"
        BY <1>5, <3>2, LedgerMoves
      <4> QED
        BY <1>5, <3>2, <4>1, <4>2, AgentMoves
    <3> QED
      BY <3>1, <3>2
  <2>2. ASSUME NEW u \in Tasks
        PROVE  /\ attempt'[u] >= attempt[u] /\ attempt'[u] \in Attempts
               /\ task'[u] = "queued" =>
                     \/ task[u] = "queued" /\ outcome'[Run(u)] = outcome[Run(u)] /\ attempt'[u] = attempt[u]
                     \/ attempt'[u] > attempt[u]
    <3>1. CASE u = t
      BY <1>5, <3>1, LedgerMoves
    <3>2. CASE u # t
      <4>1. Run(u) \in Runs /\ Run(u) # Run(t)
        BY <3>2, RunFacts
      <4> QED
        BY <1>3, <1>5, <3>2, <4>1, WorkerFrame
    <3> QED
      BY <3>1, <3>2
  <2> QED
    BY <1>2, <2>1, <2>2
<1>6. ASSUME NEW q \in Runs, BoxActs(q) PROVE Future'
  <2>1. UNCHANGED <<task, attempt, outcome>> /\ agents' \subseteq agents
    BY <1>6 DEF BoxActs, CreationEnds, AgentWorks, AgentExits, ledger, boxes
  <2>2. ASSUME NEW r \in Runs, outcome[r] = "none", work[r] = "none" PROVE work'[r] = "none"
    <3>1. r \notin agents
      BY <2>2 DEF Future
    <3> QED
      BY <1>1, <1>6, <2>2, <3>1
      DEF BoxActs, CreationEnds, AgentWorks, AgentExits, contents, ContentTypes
  <2> QED
    BY <1>4, <2>1, <2>2
<1>7. ASSUME NEW q \in Runs, SettleActs(q) PROVE Future'
  <2>1. UNCHANGED <<task, attempt, outcome>>
    BY <1>7
    DEF SettleActs, Settle, SettlePreserves, SettleRetains, SettleRemoves, SettleCloses,
        SettleRemoveFails, ledger
  <2>2. agents' \subseteq agents
    BY <1>7
    DEF SettleActs, Settle, Silenced, SettlePreserves, SettleRetains, SettleRemoves, SettleCloses,
        SettleRemoveFails, boxes, Stopped, NotStopped, Erased
  <2>3. ASSUME NEW r \in Runs, work[r] = "none" PROVE work'[r] = "none"
    BY <1>1, <1>7, <2>3
    DEF SettleActs, Settle, SettlePreserves, SettleRetains, SettleRemoves, SettleCloses,
        SettleRemoveFails, contents, HandedOver, ContentTypes
  <2> QED
    BY <1>4, <2>1, <2>2, <2>3
<1>8. CASE Boot \/ HostActs \/ UNCHANGED <<task, attempt, outcome, boxes, contents>>
  BY <1>4, <1>8 DEF Boot, HostActs, Shutdown, Drained, Crash, ledger, boxes, contents
<1>9. CASE Recover
  <2>1. ASSUME NEW t \in Tasks
        PROVE  /\ attempt'[t] >= attempt[t] /\ attempt'[t] \in Attempts
               /\ task'[t] = "queued" =>
                     \/ task[t] = "queued" /\ outcome'[Run(t)] = outcome[Run(t)] /\ attempt'[t] = attempt[t]
                     \/ attempt'[t] > attempt[t]
    <3>1. CASE task[t] = "running"
      <4>1. task'[t] = IF Run(t) \in requested THEN "cancelled" ELSE Requeued(t)
        BY <1>9, <3>1 DEF Recover
      <4>2. attempt'[t] = IF Run(t) \in requested THEN attempt[t] ELSE NextAttempt(t)
        BY <1>9, <3>1 DEF Recover
      <4> QED
        BY <1>1, <1>3, <4>1, <4>2, RunFacts DEF NextAttempt, Requeued
    <3>2. CASE task[t] # "running"
      <4>1. task'[t] = task[t] /\ attempt'[t] = attempt[t]
        BY <1>9, <3>2 DEF Recover
      <4>2. Run(t) \in Runs /\ Run(t)[1] = t
        BY RunFacts
      <4>3. outcome'[Run(t)] = outcome[Run(t)]
        BY <1>9, <3>2, <4>2 DEF Recover
      <4> QED
        BY <1>3, <4>1, <4>3
    <3> QED
      BY <3>1, <3>2
  <2>2. ASSUME NEW r \in Runs
        PROVE  /\ outcome'[r] = outcome[r] \/ (outcome'[r] # "none" /\ r[2] <= attempt[r[1]])
               /\ outcome[r] = "none" => /\ r \in agents' => r \in agents
                                         /\ work[r] = "none" => work'[r] = "none"
    <3>1. UNCHANGED <<agents, work>>
      BY <1>9 DEF Recover, boxes, contents
    <3>2. outcome'[r] = outcome[r] \/ (outcome'[r] # "none" /\ r = Run(r[1]))
      BY <1>9 DEF Recover
    <3>3. r = Run(r[1]) => r[2] <= attempt[r[1]]
      BY <1>1, RunFacts
    <3> QED
      BY <3>1, <3>2, <3>3
  <2> QED
    BY <1>2, <2>1, <2>2
<1> QED
  BY <1>5, <1>6, <1>7, <1>8, <1>9, Actors

\* A start finds no workers.
LEMMA StartFrame ==
    ASSUME WorkersServe, Boot \/ Recover \/ \E r \in Runs : SettleActs(r)
    PROVE  ~Serving /\ UNCHANGED workers /\ \A t \in Tasks : worker'[t] = "none"
<1>1. ~Serving /\ UNCHANGED workers
  BY DEF Boot, Recover, SettleActs, Settle, SettlePreserves, SettleRetains, SettleRemoves, SettleCloses,
         SettleRemoveFails, Holds, Stage, Serving
<1> QED
  BY <1>1 DEF WorkersServe, workers

\* Its own steps keep a worker on track.
LEMMA OnTrackMoves ==
    ASSUME TypeOK, Future, NEW t \in Tasks, OnTrack(t), WorkerActs(t)
    PROVE  OnTrack(t)'
<1>1. LedgerTypes /\ BoxTypes /\ ContentTypes /\ WorkerTypes /\ Run(t) \in Runs
  BY TypeParts, RunFacts
<1>2. ASSUME NEW s, Goto(t, s) PROVE worker'[t] = s
  BY <1>1, <1>2 DEF Goto, WorkerTypes
<1>3. attempt' = attempt => Run(t)' = Run(t)
  BY DEF Run
<1>4. ASSUME worker'[t] \notin Early \cup {"executing", "failing", "reporting", "removing", "removed"}
      PROVE  OnTrack(t)'
  BY <1>4 DEF OnTrack, Early
<1>5. CASE Claim(t)
  <2>1. worker'[t] = "claimed" /\ outcome'[Run(t)] = "running" /\ UNCHANGED <<attempt, boxes, contents>>
    BY <1>1, <1>2, <1>5 DEF Claim, LedgerTypes
  <2>2. Run(t) \notin agents /\ work[Run(t)] = "none"
    BY <1>1, <1>5 DEF Claim, Future
  <2> QED
    BY <1>3, <2>1, <2>2 DEF OnTrack, Early, boxes, contents
<1>6. CASE Prepare(t)
  BY <1>2, <1>3, <1>6 DEF Prepare, OnTrack, Early, ledger, boxes
<1>7. CASE Create(t)
  BY <1>2, <1>3, <1>7 DEF Create, Recorded, CreationStarted, OnTrack, Early, ledger, contents
<1>8. CASE Execute(t)
  <2>1. row'[Run(t)] = "created"
    BY <1>1, <1>8 DEF Execute, SetRow, BoxTypes
  <2> QED
    BY <1>2, <1>3, <1>8, <2>1 DEF Execute, OnTrack, Early, ledger
<1>9. CASE CreateFails(t)
  BY <1>2, <1>3, <1>9 DEF CreateFails, OnTrack, Early, ledger, boxes, contents
<1>10. CASE RecordCreatedFails(t)
  BY <1>2, <1>3, <1>10 DEF RecordCreatedFails, OnTrack, Early, ledger, rows, contents
<1>11. CASE ExecutionFails(t)
  BY <1>2, <1>3, <1>11 DEF ExecutionFails, OnTrack, Early, ledger, rows
<1>12. CASE Fail(t)
  <2>1. CASE row[Run(t)] = "created"
    BY <1>2, <1>4, <1>12, <2>1 DEF Fail, Early
  <2>2. CASE row[Run(t)] # "created"
    BY <1>2, <1>3, <1>12, <2>2 DEF Fail, OnTrack, Early, ledger, contents
  <2> QED
    BY <2>1, <2>2
<1>13. CASE Preserve(t)
  <2>1. work'[Run(t)] # "unsaved"
    BY <1>1, <1>13 DEF Preserve, HandedOver, ContentTypes
  <2>2. worker'[t] \in {"removing", "reporting"} /\ Run(t)' = Run(t)
    BY <1>2, <1>3, <1>13 DEF Preserve, ledger
  <2> QED
    BY <2>1, <2>2 DEF OnTrack, Early
<1>14. CASE Report(t)
  <2>1. worker'[t] = "removing" /\ Run(t)' = Run(t) /\ UNCHANGED <<boxes, contents>>
    BY <1>2, <1>3, <1>14 DEF Report, Finish
  <2>2. Run(t) \in unstopped \/ work[Run(t)] # "unsaved"
    BY <1>14 DEF Report, OnTrack
  <2> QED
    BY <2>1, <2>2 DEF OnTrack, Early, boxes, contents
<1>15. CASE Remove(t)
  BY <1>2, <1>3, <1>15 DEF Remove, Erased, OnTrack, Early, ledger, contents
<1>16. CASE CloseRow(t) \/ RemoveFails(t)
  BY <1>2, <1>4, <1>16 DEF CloseRow, RemoveFails, AfterRemoval, Early
<1>17. ASSUME \/ PrepareFails(t) \/ VersionFails(t) \/ ExecutionEnds(t) \/ Interrupt(t)
              \/ PreserveFails(t) \/ CloseFailed(t) \/ Abandon(t) \/ Finalize(t)
       PROVE  OnTrack(t)'
  BY <1>2, <1>4, <1>17
  DEF PrepareFails, VersionFails, ExecutionEnds, Interrupt, PreserveFails, CloseFailed, Abandon,
      Finalize, Early
<1> QED
  BY <1>5, <1>6, <1>7, <1>8, <1>9, <1>10, <1>11, <1>12, <1>13, <1>14, <1>15, <1>16, <1>17
  DEF WorkerActs, WorkerStep, WorkerTrouble

LEMMA OnTrackStep == TypeOK /\ WorkInv /\ [Next]_vars => WorkersOnTrack'
<1> SUFFICES ASSUME TypeOK, WorkInv, [Next]_vars, NEW t \in Tasks PROVE OnTrack(t)'
  BY DEF WorkersOnTrack
<1>1. /\ WorkersServe /\ Future /\ AgentsAtWork /\ OnTrack(t)
      /\ ContentTypes /\ Run(t) \in Runs /\ Run(t)[1] = t
  BY TypeParts, RunFacts DEF WorkInv, WorkersOnTrack
\* Steps of others.
<1>2. ASSUME worker'[t] = worker[t], attempt'[t] = attempt[t], outcome'[Run(t)] = outcome[Run(t)],
             row'[Run(t)] = row[Run(t)], work'[Run(t)] = work[Run(t)],
             Run(t) \in agents' => Run(t) \in agents, Run(t) \in unstopped => Run(t) \in unstopped'
      PROVE  OnTrack(t)'
  <2>1. Run(t)' = Run(t)
    BY <1>2 DEF Run
  <2> QED
    BY <1>1, <1>2, <2>1 DEF OnTrack
<1>3. ASSUME NEW u \in Tasks, WorkerActs(u) PROVE OnTrack(t)'
  <2>1. CASE u = t
    BY <1>1, <1>3, <2>1, OnTrackMoves
  <2>2. CASE u # t
    <3>1. Run(t) # Run(u)
      BY <2>2, RunFacts
    <3> QED
      BY <1>1, <1>2, <1>3, <2>2, <3>1, WorkerFrame
  <2> QED
    BY <2>1, <2>2
<1>4. ASSUME NEW r \in Runs, BoxActs(r) PROVE OnTrack(t)'
  <2>1. UNCHANGED <<task, attempt, outcome, row, worker, unstopped>> /\ agents' \subseteq agents
    BY <1>4 DEF BoxActs, CreationEnds, AgentWorks, AgentExits, ledger, rows, workers, boxes
  <2>2. CASE work'[Run(t)] = work[Run(t)]
    BY <1>2, <2>1, <2>2
  <2>3. CASE work'[Run(t)] # work[Run(t)]
    <3>1. r = Run(t) /\ AgentWorks(r) /\ r \in agents
      BY <1>1, <1>4, <2>3
      DEF BoxActs, CreationEnds, AgentWorks, AgentExits, contents, ContentTypes
    <3>2. Run(t) \in unstopped \/ (Serving => worker[t] = "executing")
      BY <1>1, <3>1 DEF AgentsAtWork, Loose
    <3>3. worker[t] # "none" => Serving
      BY <1>1 DEF WorkersServe
    <3>4. Run(t)' = Run(t)
      BY <2>1 DEF Run
    <3>5. worker[t] \in {"reporting", "removing", "removed"} => Run(t) \in unstopped
      BY <3>2, <3>3
    <3>6. worker[t] \notin Early
      BY <1>1, <3>1 DEF OnTrack
    <3>7. worker[t] = "failing" => row[Run(t)] = "created"
      BY <1>1, <3>1 DEF OnTrack
    <3> QED
      BY <1>1, <2>1, <3>4, <3>5, <3>6, <3>7 DEF OnTrack
  <2> QED
    BY <2>2, <2>3
<1>5. CASE Boot \/ Recover \/ \E r \in Runs : SettleActs(r)
  BY <1>1, <1>5, StartFrame DEF OnTrack, Early
<1>6. CASE HostActs
  <2>1. CASE Crash
    BY <2>1 DEF Crash, OnTrack, Early
  <2>2. CASE Shutdown \/ Drained
    BY <1>2, <2>2 DEF Shutdown, Drained, ledger, rows, boxes, contents, workers
  <2> QED
    BY <1>6, <2>1, <2>2 DEF HostActs
<1>7. CASE UNCHANGED <<task, attempt, outcome, rows, boxes, contents, workers, daemon, found>>
  BY <1>2, <1>7 DEF rows, boxes, contents, workers
<1> QED
  BY <1>3, <1>4, <1>5, <1>6, <1>7, Actors

\* The agent of a run is started by its worker, and the worker goes on only when
\* the agent has ended, was stopped or could not be stopped.
LEMMA AgentsOfWorkers ==
    ASSUME TypeOK, WorkInv, NEW t \in Tasks, WorkerActs(t), Run(t) \in Loose'
    PROVE  /\ box'[Run(t)] = "present" /\ outcome'[Run(t)] = "running"
           /\ worker'[t] = "executing" /\ attempt' = attempt
<1>1. /\ LedgerTypes /\ BoxTypes /\ WorkerTypes /\ Run(t) \in Runs /\ Run(t)[1] = t
      /\ OnTrack(t) /\ Serving
  BY TypeParts, RunFacts, WorkerFrame DEF WorkInv, WorkersOnTrack
<1>2. Run(t) \in Loose => box[Run(t)] = "present" /\ worker[t] = "executing"
  BY <1>1 DEF WorkInv, AgentsAtWork
<1>3. Run(t) \in agents' /\ Run(t) \notin unstopped'
  BY DEF Loose
<1>4. Run(t) \notin unstopped /\ (Run(t) \in agents => worker[t] = "executing")
  BY <1>2, <1>3, WorkerFrame DEF Loose
<1>5. CASE Execute(t)
  BY <1>1, <1>5 DEF Execute, ledger, OnTrack, Early, Goto, WorkerTypes
<1>6. CASE ~Execute(t)
  <2>1. CASE Run(t) \in agents
    <3>1. worker[t] = "executing"
      BY <1>4, <2>1
    <3>2. CASE Interrupt(t) \/ ExecutionFails(t)
      BY <1>3, <2>1, <3>2 DEF Interrupt, ExecutionFails, Stopped, NotStopped
    <3> QED
      BY <1>6, <2>1, <3>1, <3>2
      DEF WorkerActs, WorkerStep, WorkerTrouble, Claim, Prepare, Create, CreateFails, ExecutionEnds,
          Fail, Preserve, Remove, CloseRow, VersionFails, PrepareFails, Report, RecordCreatedFails,
          PreserveFails, RemoveFails, Abandon, CloseFailed, Finalize
  <2>2. CASE Run(t) \notin agents
    <3>1. agents' \subseteq agents
      BY <1>6
      DEF WorkerActs, WorkerStep, WorkerTrouble, Claim, Prepare, Create, CreateFails, ExecutionEnds,
          Fail, Preserve, Remove, CloseRow, VersionFails, PrepareFails, Report, RecordCreatedFails,
          PreserveFails, RemoveFails, Abandon, CloseFailed, Finalize, Interrupt, ExecutionFails,
          boxes, CreationStarted, Stopped, NotStopped, Erased
    <3> QED
      BY <1>3, <2>2, <3>1
  <2> QED
    BY <2>1, <2>2
<1> QED
  BY <1>5, <1>6

\* What a start does to the agents and boxes it finds.
LEMMA SettleFrame ==
    ASSUME TypeOK, NEW q \in Runs, SettleActs(q)
    PROVE  /\ Booting /\ ~Serving /\ ~Serving' /\ UNCHANGED <<ledger, workers, late>>
           /\ agents' \subseteq agents /\ unstopped \subseteq unstopped'
           /\ \A r \in Runs : r # q => box'[r] = box[r] /\ row'[r] = row[r]
           /\ Booting' =>
                 \/ Settle(q) /\ row[q] # "retained" /\ found' = found /\ daemon'.run = {q}
                 \/ Settle(q) /\ row[q] = "retained" /\ found' = found \ {q} /\ UNCHANGED <<daemon, row>>
                 \/ /\ SettlePreserves(q) \/ SettleRemoves(q)
                    /\ found' = found /\ daemon.run = {q} /\ daemon'.run = {q}
                 \/ /\ SettleRetains(q) \/ SettleCloses(q)
                    /\ found' = found \ {q} /\ daemon.run = {q} /\ daemon'.run = {}
<1>1. BoxTypes /\ daemon \in [at : Boots, run : SUBSET Runs]
  BY TypeParts DEF HostTypes
<1>2. Booting /\ ~Serving /\ UNCHANGED <<ledger, workers, late>>
  BY DEF SettleActs, Settle, Silenced, SettlePreserves, SettleRetains, SettleRemoves, SettleCloses,
         SettleRemoveFails, Holds, Stage, Serving, Booting, boxes, Stopped, NotStopped, Erased
<1>3. agents' \subseteq agents /\ unstopped \subseteq unstopped'
  BY DEF SettleActs, Settle, Silenced, SettlePreserves, SettleRetains, SettleRemoves, SettleCloses,
         SettleRemoveFails, boxes, Stopped, NotStopped, Erased
<1>4. \A r \in Runs : r # q => box'[r] = box[r] /\ row'[r] = row[r]
  BY <1>1
  DEF BoxTypes, SettleActs, Settle, Silenced, SettlePreserves, SettleRetains, SettleRemoves, SettleCloses,
      SettleRemoveFails, boxes, rows, Stopped, NotStopped, Erased, SetRow
<1>5. CASE Settle(q)
  <2>1. CASE row[q] = "retained"
    BY <1>2, <1>3, <1>4, <1>5, <2>1 DEF Settle, Serving
  <2>2. CASE row[q] # "retained"
    <3>1. daemon' = [at |-> "rescuing", run |-> {q}] /\ found' = found
      BY <1>5, <2>2 DEF Settle
    <3> QED
      BY <1>2, <1>3, <1>4, <1>5, <2>2, <3>1 DEF Serving
  <2> QED
    BY <2>1, <2>2
<1>6. CASE SettlePreserves(q) \/ SettleRemoves(q)
  <2>1. \E at \in {"removing", "removed"} : daemon' = [at |-> at, run |-> {q}]
    BY <1>6 DEF SettlePreserves, SettleRemoves
  <2>2. found' = found /\ daemon.run = {q}
    BY <1>6 DEF SettlePreserves, SettleRemoves, Holds
  <2> QED
    BY <1>2, <1>3, <1>4, <1>6, <2>1, <2>2 DEF Serving
<1>7. CASE SettleRetains(q) \/ SettleCloses(q)
  <2>1. daemon' = [at |-> "settling", run |-> {}] /\ found' = found \ {q} /\ daemon.run = {q}
    BY <1>7 DEF SettleRetains, SettleCloses, Settled, Holds
  <2> QED
    BY <1>2, <1>3, <1>4, <1>7, <2>1 DEF Serving
<1>8. CASE SettleRemoveFails(q)
  <2>1. daemon' = [at |-> "down", run |-> {}]
    BY <1>8 DEF SettleRemoveFails
  <2> QED
    BY <1>2, <1>3, <1>4, <2>1 DEF Serving, Booting
<1> QED
  BY <1>5, <1>6, <1>7, <1>8 DEF SettleActs

LEMMA AgentsStep == TypeOK /\ WorkInv /\ [Next]_vars => AgentsAtWork'
<1> SUFFICES ASSUME TypeOK, WorkInv, [Next]_vars, NEW r \in Runs, r \in Loose'
             PROVE  /\ box'[r] = "present" /\ outcome'[r] = "running"
                    /\ Serving' => worker'[r[1]] = "executing" /\ r = Run(r[1])'
                    /\ Booting' => r \in found' \ daemon'.run
  <2>1. TypeOK /\ [Next]_vars => Loose' \subseteq Runs
    BY BoxTypesNext DEF BoxTypes, Loose
  <2> QED
    BY <2>1 DEF AgentsAtWork
<1>1. /\ AgentsAtWork /\ BoxTypes /\ HostTypes /\ r[1] \in Tasks
      /\ \A t \in Tasks : Run(t) \in Runs /\ Run(t)[1] = t
  BY TypeParts, RunFacts DEF WorkInv
<1>2. r \in Loose =>
        /\ box[r] = "present" /\ outcome[r] = "running"
        /\ Serving => worker[r[1]] = "executing" /\ r = Run(r[1])
        /\ Booting => r \in found \ daemon.run
  BY <1>1 DEF AgentsAtWork
<1>3. Serving => ~Booting
  BY DEF Serving, Booting
<1>4. ASSUME r \in Loose, box'[r] = box[r], outcome'[r] = outcome[r],
             UNCHANGED <<attempt, worker, daemon, found>>
      PROVE  /\ box'[r] = "present" /\ outcome'[r] = "running"
             /\ Serving' => worker'[r[1]] = "executing" /\ r = Run(r[1])'
             /\ Booting' => r \in found' \ daemon'.run
  BY <1>2, <1>4 DEF Serving, Booting, Run
<1>5. ASSUME NEW t \in Tasks, WorkerActs(t)
      PROVE  /\ box'[r] = "present" /\ outcome'[r] = "running"
             /\ Serving' => worker'[r[1]] = "executing" /\ r = Run(r[1])'
             /\ Booting' => r \in found' \ daemon'.run
  <2>1. Serving /\ ~Booting' /\ UNCHANGED <<daemon, found>>
    BY <1>3, <1>5, WorkerFrame DEF Booting
  <2>2. CASE r = Run(t)
    <3>1. box'[r] = "present" /\ outcome'[r] = "running" /\ worker'[t] = "executing" /\ attempt' = attempt
      BY <1>5, <2>2, AgentsOfWorkers
    <3> QED
      BY <1>1, <2>1, <2>2, <3>1 DEF Run
  <2>3. CASE r # Run(t)
    <3>1. r \in Loose
      BY <1>5, <2>3, WorkerFrame DEF Loose
    <3>2. worker[r[1]] = "executing" /\ r = Run(r[1]) /\ r[1] # t
      BY <1>2, <2>1, <2>3, <3>1
    <3>3. worker'[r[1]] = "executing" /\ attempt'[r[1]] = attempt[r[1]] /\ box'[r] = box[r]
          /\ outcome'[r] = outcome[r]
      BY <1>1, <1>5, <2>3, <3>2, WorkerFrame
    <3> QED
      BY <1>2, <2>1, <3>1, <3>2, <3>3 DEF Run
  <2> QED
    BY <2>2, <2>3
<1>6. ASSUME NEW q \in Runs, BoxActs(q)
      PROVE  /\ box'[r] = "present" /\ outcome'[r] = "running"
             /\ Serving' => worker'[r[1]] = "executing" /\ r = Run(r[1])'
             /\ Booting' => r \in found' \ daemon'.run
  <2>1. UNCHANGED <<attempt, outcome, worker, daemon, found, unstopped>> /\ agents' \subseteq agents
    BY <1>6 DEF BoxActs, CreationEnds, AgentWorks, AgentExits, ledger, workers, host, boxes
  <2>2. r \in Loose
    BY <2>1 DEF Loose
  <2>3. box'[r] = box[r]
    BY <1>1, <1>2, <1>6, <2>2
    DEF BoxActs, CreationEnds, AgentWorks, AgentExits, boxes, BoxTypes
  <2> QED
    BY <1>4, <2>1, <2>2, <2>3
<1>7. ASSUME NEW q \in Runs, SettleActs(q)
      PROVE  /\ box'[r] = "present" /\ outcome'[r] = "running"
             /\ Serving' => worker'[r[1]] = "executing" /\ r = Run(r[1])'
             /\ Booting' => r \in found' \ daemon'.run
  <2>1. r \in Loose /\ Booting /\ ~Serving'
    BY <1>7, SettleFrame DEF Loose
  <2>2. r \in found /\ r \notin daemon.run
    BY <1>2, <2>1
  <2>3. Settle(q) \/ SettleRemoves(q) => r # q
    BY DEF Loose, Settle, Silenced, Stopped, NotStopped, SettleRemoves, Erased
  <2>4. Booting' => r # q
    BY <1>7, <2>2, <2>3, SettleFrame
  <2>5. box'[r] = "present"
    <3>1. CASE r # q
      BY <1>2, <1>7, <2>1, <3>1, SettleFrame
    <3>2. CASE r = q
      <4>1. UNCHANGED box
        BY <1>7, <2>3, <3>2
        DEF SettleActs, SettlePreserves, SettleRetains, SettleCloses, SettleRemoveFails, boxes,
            Stopped, NotStopped
      <4> QED
        BY <1>2, <2>1, <4>1
    <3> QED
      BY <3>1, <3>2
  <2>6. outcome'[r] = "running"
    BY <1>2, <1>7, <2>1, SettleFrame DEF ledger
  <2>7. Booting' => r \in found' \ daemon'.run
    BY <1>7, <2>2, <2>4, SettleFrame
  <2> QED
    BY <2>1, <2>5, <2>6, <2>7
<1>8. CASE Boot
  <2>1. r \in Loose /\ UNCHANGED <<box, outcome>>
    BY <1>8 DEF Boot, boxes, ledger, Loose
  <2>2. daemon' = [at |-> "settling", run |-> {}] /\ r \in found'
    BY <1>2, <1>8, <2>1 DEF Boot, Owned
  <2> QED
    BY <1>2, <2>1, <2>2 DEF Serving
<1>9. CASE Recover
  <2>1. r \in Loose /\ Booting /\ found = {}
    BY <1>9 DEF Recover, boxes, Loose, Stage, Booting
  <2> QED
    BY <1>2, <2>1
<1>10. CASE HostActs
  <2>1. r \in Loose /\ UNCHANGED <<box, outcome, attempt>>
    BY <1>10 DEF HostActs, Shutdown, Drained, Crash, boxes, ledger, Loose
  <2>2. CASE Crash
    <3>1. ~Serving' /\ ~Booting'
      BY <2>2 DEF Crash, Serving, Booting
    <3> QED
      BY <1>2, <2>1, <3>1
  <2>3. CASE Drained
    BY <1>1, <1>2, <2>1, <2>3 DEF Drained, Stage, Serving
  <2>4. CASE Shutdown
    <3>1. Serving /\ ~Booting' /\ UNCHANGED worker
      BY <2>4 DEF Shutdown, Stage, Serving, Booting, workers
    <3> QED
      BY <1>2, <2>1, <3>1 DEF Run
  <2> QED
    BY <1>10, <2>2, <2>3, <2>4 DEF HostActs
<1>11. CASE UNCHANGED <<task, attempt, outcome, rows, boxes, contents, workers, daemon, found>>
  BY <1>4, <1>11 DEF boxes, workers, Loose
<1> QED
  BY <1>5, <1>6, <1>7, <1>8, <1>9, <1>10, <1>11, Actors

LEMMA RescuesStep == TypeOK /\ WorkInv /\ [Next]_vars => RescuesSaved'
<1> SUFFICES ASSUME TypeOK, WorkInv, [Next]_vars, daemon'.at = "removing", NEW r \in daemon'.run
             PROVE  r \in unstopped' \/ work'[r] # "unsaved"
  BY DEF RescuesSaved, Stage
<1>1. BoxTypes /\ ContentTypes /\ r \in Runs
  BY TypeParts, HostTypesNext DEF HostTypes
<1>2. /\ Stage("removing") /\ r \in daemon.run => r \in unstopped \/ work[r] # "unsaved"
      /\ Stage("removing") /\ r \in daemon.run => r \notin Loose
  BY DEF WorkInv, RescuesSaved, AgentsAtWork, Booting, Stage
<1>3. ASSUME UNCHANGED daemon, unstopped \subseteq unstopped', work'[r] = work[r]
      PROVE  r \in unstopped' \/ work'[r] # "unsaved"
  BY <1>2, <1>3 DEF Stage
<1>4. ASSUME NEW t \in Tasks, WorkerActs(t) PROVE FALSE
  BY <1>4, WorkerFrame DEF Serving
<1>5. ASSUME NEW q \in Runs, BoxActs(q) PROVE r \in unstopped' \/ work'[r] # "unsaved"
  <2>1. UNCHANGED <<daemon, unstopped>>
    BY <1>5 DEF BoxActs, CreationEnds, AgentWorks, AgentExits, host, boxes
  <2>2. r \notin agents => work'[r] = work[r]
    BY <1>1, <1>5 DEF BoxActs, CreationEnds, AgentWorks, AgentExits, contents, ContentTypes
  <2> QED
    BY <1>2, <1>3, <2>1, <2>2 DEF Loose, Stage
<1>6. ASSUME NEW q \in Runs, SettleActs(q) PROVE work'[r] # "unsaved"
  <2>1. SettlePreserves(q)
    <3>1. CASE Settle(q)
      BY <1>6, <3>1 DEF Settle, Stage
    <3>2. CASE SettleRetains(q) \/ SettleCloses(q)
      BY <3>2 DEF SettleRetains, SettleCloses, Settled
    <3>3. CASE SettleRemoves(q) \/ SettleRemoveFails(q)
      BY <3>3 DEF SettleRemoves, SettleRemoveFails
    <3> QED
      BY <1>6, <3>1, <3>2, <3>3 DEF SettleActs
  <2>2. r = q
    BY <2>1 DEF SettlePreserves
  <2> QED
    BY <1>1, <2>1, <2>2 DEF SettlePreserves, HandedOver, ContentTypes
<1>7. CASE Boot \/ Recover \/ HostActs
  BY <1>7 DEF Boot, Recover, HostActs, Shutdown, Drained, Crash
<1>8. CASE UNCHANGED <<task, attempt, outcome, rows, boxes, contents, workers, daemon, found>>
  BY <1>3, <1>8 DEF boxes, contents
<1> QED
  BY <1>4, <1>5, <1>6, <1>7, <1>8, Actors

LEMMA BoxesFoundStep == TypeOK /\ WorkersServe /\ BoxesFound /\ [Next]_vars => BoxesFound'
<1> DEFINE Found(q) ==
      /\ box[q] = "present" => q \in found \/ row[q] = "retained" \/ q \in late
      /\ q \in daemon.run /\ Stage("removed") /\ box[q] = "present" => q \in late
<1> SUFFICES ASSUME TypeOK, WorkersServe, BoxesFound, [Next]_vars, Booting'
             PROVE  /\ daemon'.run \subseteq found' /\ (daemon'.at = "settling" => daemon'.run = {})
                    /\ \A r \in Runs : Found(r)'
  <2>1. TypeOK /\ [Next]_vars => daemon'.run \subseteq Runs
    BY HostTypesNext DEF HostTypes
  <2> QED
    BY <2>1 DEF BoxesFound, Stage
<1>1. BoxTypes /\ HostTypes
  BY TypeParts
<1>2. Booting => /\ daemon.run \subseteq found /\ (daemon.at = "settling" => daemon.run = {})
                 /\ \A r \in Runs : Found(r)
  BY DEF BoxesFound, Stage
<1>3. ASSUME Booting, UNCHANGED <<row, daemon, found>>,
             \A r \in Runs : (r \in late => r \in late') /\ (box'[r] = "present" => box[r] = "present" \/ r \in late')
      PROVE  /\ daemon'.run \subseteq found' /\ (daemon'.at = "settling" => daemon'.run = {})
             /\ \A r \in Runs : Found(r)'
  BY <1>2, <1>3 DEF Stage
<1>4. ASSUME NEW t \in Tasks, WorkerActs(t) PROVE FALSE
  BY <1>4, WorkerFrame DEF Serving, Booting
<1>5. ASSUME NEW q \in Runs, BoxActs(q)
      PROVE  /\ daemon'.run \subseteq found' /\ (daemon'.at = "settling" => daemon'.run = {})
             /\ \A r \in Runs : Found(r)'
  <2>1. UNCHANGED <<row, daemon, found>> /\ Booting
    BY <1>5 DEF BoxActs, CreationEnds, AgentWorks, AgentExits, host, rows, Booting
  <2>2. worker[q[1]] = "none" /\ ~Stage("down")
    BY <2>1, RunFacts DEF WorkersServe, Booting, Serving, Stage
  <2>3. ~Expected(q)
    BY <2>2 DEF Expected
  <2>4. \A r \in Runs : (r \in late => r \in late') /\ (box'[r] = "present" => box[r] = "present" \/ r \in late')
    BY <1>1, <1>5, <2>3 DEF BoxActs, CreationEnds, AgentWorks, AgentExits, boxes, BoxTypes
  <2> QED
    BY <1>3, <2>1, <2>4
<1>6. ASSUME NEW q \in Runs, SettleActs(q)
      PROVE  /\ daemon'.run \subseteq found' /\ (daemon'.at = "settling" => daemon'.run = {})
             /\ \A r \in Runs : Found(r)'
  <2>1. /\ Booting /\ late' = late
        /\ \A r \in Runs : r # q => box'[r] = box[r] /\ row'[r] = row[r]
    BY <1>6, SettleFrame
  <2>2. ASSUME q \in found, found' = found, daemon'.run = {q}, daemon'.at # "settling",
               daemon.run \subseteq {q}, daemon'.at = "removed" => box'[q] # "present"
        PROVE  /\ daemon'.run \subseteq found' /\ (daemon'.at = "settling" => daemon'.run = {})
               /\ \A r \in Runs : Found(r)'
    BY <1>2, <2>1, <2>2 DEF Stage
  <2>3. ASSUME found' = found \ {q}, daemon' = [at |-> "settling", run |-> {}],
               box'[q] = "present" => row'[q] = "retained" \/ q \in late
        PROVE  /\ daemon'.run \subseteq found' /\ (daemon'.at = "settling" => daemon'.run = {})
               /\ \A r \in Runs : Found(r)'
    BY <1>2, <2>1, <2>3 DEF Stage
  <2>4. CASE Settle(q)
    <3>1. q \in found /\ daemon.at = "settling" /\ daemon.run = {}
      BY <1>2, <2>1, <2>4 DEF Settle, Stage
    <3>2. CASE row[q] = "retained"
      <4>1. found' = found \ {q} /\ UNCHANGED <<daemon, row>>
        BY <2>4, <3>2 DEF Settle
      <4>2. daemon' = [at |-> "settling", run |-> {}]
        BY <1>1, <3>1, <4>1 DEF HostTypes
      <4> QED
        BY <2>3, <3>2, <4>1, <4>2
    <3>3. CASE row[q] # "retained"
      <4>1. found' = found /\ daemon' = [at |-> "rescuing", run |-> {q}]
        BY <2>4, <3>3 DEF Settle
      <4> QED
        BY <2>2, <3>1, <4>1
    <3> QED
      BY <3>2, <3>3
  <2>5. CASE SettlePreserves(q) \/ SettleRemoves(q)
    <3>1. q \in found /\ found' = found /\ daemon.run = {q}
      BY <1>2, <2>1, <2>5 DEF SettlePreserves, SettleRemoves, Holds
    <3>2. CASE SettlePreserves(q)
      <4>1. daemon' = [at |-> "removing", run |-> {q}]
        BY <3>2 DEF SettlePreserves
      <4> QED
        BY <2>2, <3>1, <4>1
    <3>3. CASE SettleRemoves(q)
      <4>1. daemon' = [at |-> "removed", run |-> {q}] /\ box'[q] # "present"
        BY <1>1, <3>3 DEF SettleRemoves, Erased, BoxTypes
      <4> QED
        BY <2>2, <3>1, <4>1
    <3> QED
      BY <2>5, <3>2, <3>3
  <2>6. CASE SettleRetains(q)
    <3>1. row'[q] = "retained" /\ found' = found \ {q} /\ daemon' = [at |-> "settling", run |-> {}]
      BY <1>1, <2>6 DEF SettleRetains, SetRow, Settled, BoxTypes
    <3> QED
      BY <2>3, <3>1
  <2>7. CASE SettleCloses(q)
    <3>1. found' = found \ {q} /\ daemon' = [at |-> "settling", run |-> {}] /\ UNCHANGED box
      BY <2>7 DEF SettleCloses, Settled, boxes
    <3>2. box[q] = "present" => q \in late
      BY <1>2, <2>1, <2>7 DEF SettleCloses, Holds
    <3> QED
      BY <2>3, <3>1, <3>2
  <2>8. CASE SettleRemoveFails(q)
    BY <2>8 DEF SettleRemoveFails, Booting
  <2> QED
    BY <1>6, <2>4, <2>5, <2>6, <2>7, <2>8 DEF SettleActs
<1>7. CASE Boot
  <2>1. daemon' = [at |-> "settling", run |-> {}] /\ found' = Owned /\ UNCHANGED box
    BY <1>7 DEF Boot, boxes
  <2> QED
    BY <2>1 DEF Owned, Stage
<1>8. CASE Recover \/ HostActs
  BY <1>8 DEF Recover, HostActs, Shutdown, Drained, Crash, Booting
<1>9. CASE UNCHANGED <<task, attempt, outcome, rows, boxes, contents, workers, daemon, found>>
  BY <1>3, <1>9 DEF rows, boxes, Booting
<1> QED
  BY <1>4, <1>5, <1>6, <1>7, <1>8, <1>9, Actors

--------------------------------------------------------------------------------
LEMMA InvInit == Init => SandboxInv
<1> SUFFICES ASSUME Init PROVE SandboxInv
  OBVIOUS
<1>1. /\ TypeOK /\ Loose = {} /\ Serving /\ ~Booting /\ ~Stage("removing")
      /\ \A t \in Tasks : worker[t] = "none" /\ attempt[t] = 0 /\ Run(t) \in Runs
      /\ \A r \in Runs : outcome[r] = "none" /\ r \notin agents /\ work[r] = "none"
  BY TypesInit, RunFacts DEF Init, Loose, Serving, Booting, Stage
<1>2. Future /\ WorkersServe /\ AgentsAtWork /\ RescuesSaved /\ BoxesFound
  BY <1>1 DEF Future, WorkersServe, AgentsAtWork, RescuesSaved, BoxesFound
<1>3. WorkersOnTrack
  BY <1>1 DEF WorkersOnTrack, OnTrack, Early
<1> QED
  BY <1>1, <1>2, <1>3 DEF SandboxInv, WorkInv

LEMMA InvNext == SandboxInv /\ [Next]_vars => SandboxInv'
<1>1. SandboxInv /\ [Next]_vars => WorkInv'
  BY WorkersServeStep, FutureStep, OnTrackStep, AgentsStep, RescuesStep DEF SandboxInv, WorkInv
<1>2. SandboxInv /\ [Next]_vars => TypeOK' /\ BoxesFound'
  BY TypesNext, BoxesFoundStep DEF SandboxInv, WorkInv
<1> QED
  BY <1>1, <1>2 DEF SandboxInv

LEMMA SandboxInvariant == Spec => []SandboxInv
  BY InvInit, InvNext, PTL DEF Spec

\* Wherever commands fail and the daemon dies between two steps, an agent that
\* works on belongs to a run the ledger still calls running: no worker closes its
\* run and no start requeues it before a stop was tried on its box.
THEOREM AgentsOfOpenRuns == Spec => []AgentsHaveOpenRuns
<1>1. SandboxInv => AgentsHaveOpenRuns
  BY DEF SandboxInv, WorkInv, AgentsAtWork, AgentsHaveOpenRuns, Loose
<1> QED
  BY SandboxInvariant, <1>1, PTL

\* A box that goes was removed by its worker after the hand-over, by its worker
\* before its agent was ever started, or by a start after the rescue.
LEMMA HandedOverOnRemoval ==
    ASSUME SandboxInv, Next, NEW r \in Runs, box[r] = "present", box'[r] = "none"
    PROVE  r \in unstopped \/ work[r] # "unsaved"
<1>1. TypeOK /\ BoxTypes /\ r[1] \in Tasks
  BY TypeParts, RunFacts DEF SandboxInv
<1>2. ASSUME NEW t \in Tasks, WorkerActs(t) PROVE r \in unstopped \/ work[r] # "unsaved"
  <2>1. r = Run(t) /\ OnTrack(t)
    BY <1>1, <1>2, WorkerFrame DEF SandboxInv, WorkInv, WorkersOnTrack
  <2>2. CASE Remove(t)
    BY <2>1, <2>2 DEF Remove, OnTrack
  <2>3. CASE RecordCreatedFails(t)
    BY <2>1, <2>3 DEF RecordCreatedFails, OnTrack, Early
  <2>4. CASE Create(t)
    BY <1>1, <2>1, <2>4 DEF Create, CreationStarted, BoxTypes
  <2>5. CASE ~(Remove(t) \/ RecordCreatedFails(t) \/ Create(t))
    <3>1. UNCHANGED box
      BY <1>2, <2>5 DEF WorkerActs, Claim, WorkerStep, WorkerTrouble, Prepare, Execute, CreateFails,
            ExecutionEnds, Interrupt, Fail, Preserve, Report, CloseRow, CloseFailed, Finalize,
            PrepareFails, VersionFails, ExecutionFails, PreserveFails, RemoveFails, Abandon,
            Stopped, NotStopped, boxes
    <3> QED
      BY <3>1
  <2> QED
    BY <2>2, <2>3, <2>4, <2>5
<1>3. ASSUME NEW q \in Runs, BoxActs(q) PROVE FALSE
  BY <1>1, <1>3 DEF BoxActs, CreationEnds, AgentWorks, AgentExits, boxes, BoxTypes
<1>4. ASSUME NEW q \in Runs, SettleActs(q) PROVE r \in unstopped \/ work[r] # "unsaved"
  <2>1. r = q
    BY <1>1, <1>4, SettleFrame
  <2>2. CASE SettleRemoves(q)
    BY <2>1, <2>2 DEF SettleRemoves, Holds, SandboxInv, WorkInv, RescuesSaved
  <2>3. CASE ~SettleRemoves(q)
    BY <1>4, <2>3 DEF SettleActs, Settle, SettlePreserves, SettleRetains, SettleCloses,
          SettleRemoveFails, Silenced, Stopped, NotStopped, boxes
  <2> QED
    BY <2>2, <2>3
<1>5. ASSUME Boot \/ Recover \/ HostActs PROVE FALSE
  BY <1>5 DEF Boot, Recover, HostActs, Shutdown, Drained, Crash, boxes
<1>6. ASSUME UNCHANGED boxes PROVE FALSE
  BY <1>6 DEF boxes
<1> QED
  BY <1>2, <1>3, <1>4, <1>5, <1>6, Actors

\* Unsaved changes never go with their box, in whatever order commands fail, the
\* ledger refuses rows and the daemon dies: each removal follows a fetch into the
\* host clone, or there was nothing to fetch.
THEOREM BoxesAreHandedOver == Spec => RemovedBoxesAreHandedOver
<1> DEFINE Handed ==
      \A r \in Runs : box[r] = "present" /\ box'[r] = "none" /\ r \notin unstopped
                      => work[r] # "unsaved"
<1>1. SandboxInv /\ [Next]_vars => [Handed]_vars
  BY HandedOverOnRemoval
<1> QED
  BY <1>1, SandboxInvariant, PTL DEF Spec, RemovedBoxesAreHandedOver

\* A daemon starts to claim only after every box of its instance that was there
\* when it looked was removed or recorded as retained.
THEOREM StartsSettleBoxes == Spec => StartSettlesBoxes
<1> DEFINE Settles ==
      Stage("settling") /\ daemon'.at = "up"
      => \A r \in Runs : box[r] = "present" => (row[r] = "retained" \/ r \in late)
<1>1. SandboxInv /\ [Next]_vars => [Settles]_vars
  <2> SUFFICES ASSUME SandboxInv, [Next]_vars, Stage("settling"), daemon'.at = "up",
                      NEW r \in Runs, box[r] = "present"
               PROVE  row[r] = "retained" \/ r \in late
    OBVIOUS
  <2>1. TypeOK /\ HostTypes /\ ~Serving /\ ~Stage("down") /\ Booting
    BY TypeParts DEF SandboxInv, Stage, Serving, Booting
  <2>2. ~\E t \in Tasks : WorkerActs(t)
    BY <2>1, WorkerFrame
  <2>3. ~(\E q \in Runs : BoxActs(q)) /\ ~(\E q \in Runs : SettleActs(q))
    BY <2>1, SettleFrame DEF BoxActs, CreationEnds, AgentWorks, AgentExits, host, Stage, Serving
  <2>4. ~Boot /\ ~HostActs
    BY <2>1 DEF Boot, HostActs, Shutdown, Drained, Crash, Stage
  <2>5. found = {}
    BY <2>2, <2>3, <2>4, Actors DEF Recover, Stage
  <2> QED
    BY <2>1, <2>5 DEF SandboxInv, BoxesFound
<1> QED
  BY <1>1, SandboxInvariant, PTL DEF Spec, StartSettlesBoxes

--------------------------------------------------------------------------------
\* What the refinements need beyond SandboxInv.

\* A worker that may still close its run.
InHand(t) ==
    \/ worker[t] \in {"claimed", "prepared", "creating", "executing", "failing", "preserving",
                      "reporting", "closing"}
    \/ worker[t] \in {"removing", "removed"} /\ result[t] = "error"

\* It finds the run open, and the row says as much of the box as was tried.
Keeps(t) ==
    /\ InHand(t) => outcome[Run(t)] = "running"
    /\ worker[t] = "failing" => result[t] = "error"
    /\ worker[t] = "reporting" => result[t] # "error"
    /\ task[t] = "running" <=> outcome[Run(t)] = "running"
    /\ worker[t] \in {"claimed", "prepared"} => row[Run(t)] = "none"
    /\ worker[t] \in {"creating", "executing", "failing", "preserving", "reporting", "removing",
                      "removed"} => row[Run(t)] # "none"
    /\ worker[t] \in Early => Run(t) \notin unstopped

\* Only the latest run of a task is open, and a run has a row before its box.
Kept(r) ==
    /\ outcome[r] = "running" => r = Run(r[1])
    /\ outcome[r] = "none" => row[r] = "none" /\ r \notin unstopped
    /\ row[r] = "none" => box[r] = "none" /\ r \notin found

HandInv == (\A t \in Tasks : Keeps(t)) /\ (\A r \in Runs : Kept(r))

LEMMA HandInit == Init => HandInv
<1> SUFFICES ASSUME Init PROVE HandInv
  OBVIOUS
<1>1. TypeOK
  BY TypesInit
<1>2. ASSUME NEW t \in Tasks PROVE Keeps(t)
  BY <1>1, <1>2, RunFacts DEF Init, Keeps, InHand, Early
<1>3. ASSUME NEW r \in Runs PROVE Kept(r)
  BY <1>3 DEF Init, Kept
<1> QED
  BY <1>2, <1>3 DEF HandInv

\* A worker leaves what other workers know alone.
LEMMA ResultFrame ==
    ASSUME TypeOK, NEW t \in Tasks, WorkerActs(t), NEW u \in Tasks, u # t
    PROVE  result'[u] = result[u]
<1>1. WorkerTypes
  BY TypeParts
<1> QED
  BY <1>1
  DEF WorkerTypes, workers, WorkerActs, WorkerStep, WorkerTrouble, Claim, Prepare,
      Create, Execute, CreateFails, ExecutionEnds, Interrupt, Fail, Preserve, Remove, CloseRow,
      VersionFails, PrepareFails, Report, RecordCreatedFails, ExecutionFails, PreserveFails,
      RemoveFails, Abandon, CloseFailed, Finalize

\* The steps of a worker keep what it relies on.
LEMMA KeepsMoves ==
    ASSUME TypeOK, Future, NEW t \in Tasks, Keeps(t), Kept(Run(t)), WorkerActs(t)
    PROVE  Keeps(t)'
<1>1. LedgerTypes /\ BoxTypes /\ ContentTypes /\ WorkerTypes /\ Run(t) \in Runs
  BY TypeParts, RunFacts
<1>2. ASSUME NEW s, Goto(t, s) PROVE worker'[t] = s
  BY <1>1, <1>2 DEF Goto, WorkerTypes
<1>3. ASSUME NEW s, SetRow(Run(t), s) PROVE row'[Run(t)] = s
  BY <1>1, <1>3 DEF SetRow, BoxTypes
<1>4. ASSUME NEW e, result' = [result EXCEPT ![t] = e] PROVE result'[t] = e
  BY <1>1, <1>4 DEF WorkerTypes
<1>5. attempt' = attempt => Run(t)' = Run(t)
  BY DEF Run
<1>6. result[t] # "none"
  BY <1>1 DEF WorkerTypes, Endings
<1>7. CASE Claim(t)
  <2>1. /\ worker'[t] = "claimed" /\ outcome'[Run(t)] = "running" /\ task'[t] = "running"
        /\ UNCHANGED <<attempt, row, unstopped>>
    BY <1>1, <1>2, <1>7 DEF Claim, LedgerTypes, rows, boxes
  <2>2. outcome[Run(t)] = "none"
    BY <1>7 DEF Claim, Future
  <2> QED
    BY <1>5, <2>1, <2>2 DEF Keeps, Kept, InHand, Early
<1>8. CASE PrepareFails(t)
  <2>1. /\ worker'[t] = "none" /\ outcome'[Run(t)] = "failed" /\ task'[t] # "running"
        /\ \A r \in Runs : r # Run(t) => outcome'[r] = outcome[r]
    BY <1>1, <1>2, <1>8 DEF PrepareFails, LedgerTypes, Requeued
  <2>2. attempt'[t] = NextAttempt(t)
    BY <1>1, <1>8 DEF PrepareFails, LedgerTypes
  <2>3. outcome'[Run(t)'] # "running"
    <3>1. CASE attempt[t] < MaxAttempts
      <4>1. attempt'[t] = attempt[t] + 1 /\ attempt[t] \in Nat /\ MaxAttempts \in Nat
        BY <1>1, <2>2, <3>1, SandboxAssumption DEF NextAttempt, LedgerTypes, Attempts
      <4>2. Run(t)' = <<t, attempt[t] + 1>> /\ <<t, attempt[t] + 1>> \in Runs
        BY <3>1, <4>1 DEF Run, Runs, Attempts
      <4>3. outcome[<<t, attempt[t] + 1>>] = "none" /\ <<t, attempt[t] + 1>> # Run(t)
        BY <4>1, <4>2 DEF Future, Run
      <4> QED
        BY <2>1, <4>2, <4>3
    <3>2. CASE ~(attempt[t] < MaxAttempts)
      BY <2>1, <2>2, <3>2 DEF NextAttempt, Run
    <3> QED
      BY <3>1, <3>2
  <2> QED
    BY <2>1, <2>3 DEF Keeps, InHand, Early
<1>9. CASE Report(t) \/ CloseFailed(t)
  <2>1. /\ \E o \in {"succeeded", "failed", "cancelled"} : Finish(t, o)
        /\ UNCHANGED <<row, result, unstopped>>
        /\ worker'[t] = IF worker[t] = "reporting" THEN "removing" ELSE "finalizing"
    BY <1>2, <1>9 DEF Report, CloseFailed, Verdicts, rows, boxes
  <2>2. /\ outcome'[Run(t)] # "running" /\ task'[t] # "running" /\ attempt' = attempt
        /\ UNCHANGED <<row, result, unstopped>>
    BY <1>1, <2>1 DEF Finish, LedgerTypes
  <2>3. ~InHand(t)'
    BY <2>1, <2>2 DEF Keeps, InHand
  <2> QED
    BY <1>5, <2>1, <2>2, <2>3 DEF Keeps, Early
<1>10. CASE Prepare(t) \/ Create(t) \/ Execute(t) \/ CreateFails(t) \/ RecordCreatedFails(t)
  <2>1. CASE Prepare(t)
    BY <1>2, <1>5, <2>1 DEF Prepare, Keeps, InHand, Early, ledger, rows, boxes
  <2>2. CASE Create(t)
    BY <1>2, <1>3, <1>5, <2>2 DEF Create, Recorded, CreationStarted, Keeps, InHand, Early, ledger
  <2>3. CASE Execute(t)
    BY <1>2, <1>3, <1>5, <2>3 DEF Execute, Keeps, InHand, Early, ledger
  <2>4. CASE CreateFails(t)
    BY <1>2, <1>4, <1>5, <2>4 DEF CreateFails, Keeps, InHand, Early, ledger, rows, boxes
  <2>5. CASE RecordCreatedFails(t)
    BY <1>2, <1>4, <1>5, <2>5 DEF RecordCreatedFails, Keeps, InHand, Early, ledger, rows
  <2> QED
    BY <1>10, <2>1, <2>2, <2>3, <2>4, <2>5
<1>11. CASE VersionFails(t) \/ ExecutionEnds(t) \/ Interrupt(t) \/ ExecutionFails(t) \/ PreserveFails(t)
  <2>1. CASE VersionFails(t)
    BY <1>2, <1>5, <2>1 DEF VersionFails, Keeps, InHand, Early, ledger
  <2>2. CASE ExecutionEnds(t)
    BY <1>2, <1>5, <2>2 DEF ExecutionEnds, Keeps, InHand, Early, ledger, rows
  <2>3. CASE Interrupt(t)
    BY <1>2, <1>5, <2>3 DEF Interrupt, Keeps, InHand, Early, ledger, rows
  <2>4. CASE ExecutionFails(t)
    BY <1>2, <1>4, <1>5, <2>4 DEF ExecutionFails, Keeps, InHand, Early, ledger, rows
  <2>5. CASE PreserveFails(t)
    BY <1>2, <1>5, <2>5 DEF PreserveFails, Keeps, InHand, Early, ledger
  <2> QED
    BY <1>11, <2>1, <2>2, <2>3, <2>4, <2>5
<1>12. CASE Fail(t) \/ Preserve(t) \/ Remove(t) \/ RemoveFails(t) \/ CloseRow(t)
  <2>1. CASE Fail(t)
    BY <1>2, <1>3, <1>5, <2>1 DEF Fail, Keeps, InHand, Early, ledger
  <2>2. CASE Preserve(t)
    BY <1>2, <1>3, <1>5, <1>6, <2>2 DEF Preserve, Keeps, InHand, Early, ledger
  <2>3. CASE Remove(t)
    BY <1>2, <1>3, <1>5, <2>3 DEF Remove, Keeps, InHand, Early, ledger
  <2>4. CASE RemoveFails(t) \/ CloseRow(t)
    BY <1>2, <1>5, <2>4 DEF RemoveFails, CloseRow, AfterRemoval, Keeps, InHand, Early, ledger
  <2> QED
    BY <1>12, <2>1, <2>2, <2>3, <2>4
<1>13. CASE Abandon(t) \/ Finalize(t)
  BY <1>2, <1>5, <1>13 DEF Abandon, Finalize, Keeps, InHand, Early, ledger
<1> QED
  BY <1>7, <1>8, <1>9, <1>10, <1>11, <1>12, <1>13 DEF WorkerActs, WorkerStep, WorkerTrouble

LEMMA KeptMoves ==
    ASSUME TypeOK, Future, NEW t \in Tasks, Keeps(t), WorkerActs(t), NEW r \in Runs, r = Run(t), Kept(r)
    PROVE  Kept(r)'
<1>1. LedgerTypes /\ BoxTypes /\ WorkerTypes /\ r[1] = t /\ result[t] # "none"
  BY TypeParts, RunFacts DEF WorkerTypes, Endings
<1>2. outcome'[r] = "running" => r = Run(t)'
  <2>1. CASE PrepareFails(t)
    BY <1>1, <2>1 DEF PrepareFails, LedgerTypes
  <2>2. CASE ~PrepareFails(t)
    <3>1. attempt' = attempt
      BY <2>2
      DEF WorkerActs, WorkerStep, WorkerTrouble, ledger, Claim, Prepare, Finish,
          Create, Execute, CreateFails, ExecutionEnds, Interrupt, Fail, Preserve, Remove, CloseRow,
          VersionFails, Report, RecordCreatedFails, ExecutionFails, PreserveFails,
          RemoveFails, Abandon, CloseFailed, Finalize
    <3> QED
      BY <3>1 DEF Run
  <2> QED
    BY <2>1, <2>2
<1>3. row'[r] = "none" => row[r] = "none"
  BY <1>1
  DEF BoxTypes, SetRow, Recorded, rows, WorkerActs, WorkerStep, WorkerTrouble, Claim, Prepare,
      Create, Execute, CreateFails, ExecutionEnds, Interrupt, Fail, Preserve, Remove, CloseRow,
      VersionFails, PrepareFails, Report, RecordCreatedFails, ExecutionFails, PreserveFails,
      RemoveFails, Abandon, CloseFailed, Finalize
<1>4. outcome'[r] = "none" => row'[r] = "none" /\ r \notin unstopped'
  <2> SUFFICES ASSUME outcome'[r] = "none" PROVE row'[r] = "none" /\ r \notin unstopped'
    OBVIOUS
  <2>1. outcome[r] = "none"
    BY LedgerMoves
  <2>2. row[r] = "none" /\ r \notin unstopped /\ ~InHand(t)
    BY <2>1 DEF Kept, Keeps
  <2>3. worker[t] \notin {"removing", "removed"}
    BY <2>2 DEF Keeps
  <2>4. row' = row /\ unstopped' = unstopped
    BY <2>2, <2>3
    DEF InHand, WorkerActs, WorkerStep, WorkerTrouble, rows, boxes, Claim, Prepare,
        Create, Execute, CreateFails, ExecutionEnds, Interrupt, Fail, Preserve, Remove, CloseRow,
        VersionFails, PrepareFails, Report, RecordCreatedFails, ExecutionFails, PreserveFails,
        RemoveFails, Abandon, CloseFailed, Finalize
  <2> QED
    BY <2>2, <2>4
<1>5. row'[r] = "none" => box'[r] = "none" /\ r \notin found'
  <2>1. CASE Create(t)
    BY <1>1, <2>1 DEF Create, Recorded, SetRow, BoxTypes
  <2>2. CASE ~Create(t)
    <3>1. box[r] = "none" => box'[r] = "none"
      BY <1>1, <2>2
      DEF BoxTypes, boxes, Stopped, NotStopped, Erased, WorkerActs, WorkerStep, WorkerTrouble,
          Claim, Prepare,
          Execute, CreateFails, ExecutionEnds, Interrupt, Fail, Preserve, Remove, CloseRow,
          VersionFails, PrepareFails, Report, RecordCreatedFails, ExecutionFails, PreserveFails,
          RemoveFails, Abandon, CloseFailed, Finalize
    <3> QED
      BY <1>3, <3>1, WorkerFrame DEF Kept
  <2> QED
    BY <2>1, <2>2
<1> QED
  BY <1>1, <1>2, <1>4, <1>5 DEF Kept

\* The box that a start has in hand is one it found, and has a row.
LEMMA SettledRowsExist ==
    ASSUME TypeOK, BoxesFound, NEW q \in Runs, Kept(q), SettleActs(q)
    PROVE  q \in found /\ row[q] # "none" /\ row'[q] # "none"
<1>1. BoxTypes /\ Booting
  BY TypeParts, SettleFrame
<1>2. daemon.run = {q} \/ q \in found
  BY DEF SettleActs, Settle, SettlePreserves, SettleRetains, SettleRemoves, SettleCloses,
         SettleRemoveFails, Holds
<1>3. q \in found
  BY <1>1, <1>2 DEF BoxesFound
<1>4. row[q] # "none"
  BY <1>3 DEF Kept
<1>5. row'[q] # "none"
  BY <1>1, <1>4
  DEF SettleActs, Settle, SettlePreserves, SettleRetains, SettleRemoves, SettleCloses,
      SettleRemoveFails, SetRow, rows, BoxTypes
<1> QED
  BY <1>3, <1>4, <1>5

LEMMA HandNext == SandboxInv /\ HandInv /\ [Next]_vars => HandInv'
<1> SUFFICES ASSUME SandboxInv, HandInv, [Next]_vars
             PROVE  (\A t \in Tasks : Keeps(t)') /\ (\A r \in Runs : Kept(r)')
  BY DEF HandInv
<1>1. /\ TypeOK /\ WorkersServe /\ Future /\ BoxesFound /\ LedgerTypes /\ BoxTypes
      /\ \A t \in Tasks : Keeps(t)
      /\ \A r \in Runs : Kept(r)
      /\ \A t \in Tasks : Run(t) \in Runs /\ Run(t)[1] = t
      /\ \A r \in Runs : r[1] \in Tasks
  BY TypeParts, RunFacts DEF SandboxInv, WorkInv, HandInv
<1>2. ASSUME NEW t \in Tasks, WorkerActs(t)
      PROVE  (\A u \in Tasks : Keeps(u)') /\ (\A r \in Runs : Kept(r)')
  <2>1. Keeps(t)'
    BY <1>1, <1>2, KeepsMoves
  <2>2. ASSUME NEW u \in Tasks, u # t PROVE Keeps(u)'
    <3>1. Run(u) # Run(t) /\ Run(u)' = Run(u) /\ Run(u) \in Runs
      BY <1>1, <1>2, <2>2, WorkerFrame DEF Run
    <3>2. /\ worker'[u] = worker[u] /\ task'[u] = task[u] /\ result'[u] = result[u]
          /\ outcome'[Run(u)] = outcome[Run(u)] /\ row'[Run(u)] = row[Run(u)]
          /\ Run(u) \in unstopped' <=> Run(u) \in unstopped
      BY <1>1, <1>2, <2>2, <3>1, WorkerFrame, ResultFrame
    <3> QED
      BY <1>1, <3>1, <3>2 DEF Keeps, InHand, Early
  <2>3. ASSUME NEW r \in Runs, r # Run(t) PROVE Kept(r)'
    <3>1. /\ outcome'[r] = outcome[r] /\ row'[r] = row[r] /\ box'[r] = box[r]
          /\ r \in unstopped' <=> r \in unstopped
          /\ found' = found
      BY <1>1, <1>2, <2>3, WorkerFrame
    <3>2. outcome[r] = "running" => r = Run(r[1])'
      <4>1. outcome[r] = "running" => r = Run(r[1]) /\ r[1] # t
        BY <1>1, <2>3 DEF Kept
      <4> QED
        BY <1>1, <1>2, <4>1, WorkerFrame DEF Run
    <3> QED
      BY <1>1, <3>1, <3>2 DEF Kept
  <2>4. ASSUME NEW r \in Runs PROVE Kept(r)'
    <3>1. CASE r = Run(t)
      BY <1>1, <1>2, <3>1, KeptMoves
    <3> QED
      BY <2>3, <3>1
  <2> QED
    BY <2>1, <2>2, <2>4
<1>3. ASSUME NEW q \in Runs, BoxActs(q)
      PROVE  (\A t \in Tasks : Keeps(t)') /\ (\A r \in Runs : Kept(r)')
  <2>1. UNCHANGED <<task, attempt, outcome, row, unstopped, worker, result, found>>
    BY <1>3 DEF BoxActs, CreationEnds, AgentWorks, AgentExits, ledger, rows, boxes, workers, host
  <2>2. \A r \in Runs : box[r] = "none" => box'[r] = "none"
    BY <1>1, <1>3 DEF BoxActs, CreationEnds, AgentWorks, AgentExits, boxes, BoxTypes
  <2> QED
    BY <1>1, <2>1, <2>2 DEF Keeps, InHand, Kept, Run
<1>4. ASSUME NEW q \in Runs, SettleActs(q)
      PROVE  (\A t \in Tasks : Keeps(t)') /\ (\A r \in Runs : Kept(r)')
  <2>1. /\ UNCHANGED <<task, attempt, outcome>> /\ \A t \in Tasks : worker'[t] = "none"
        /\ \A r \in Runs : r # q => box'[r] = box[r] /\ row'[r] = row[r]
    BY <1>1, <1>4, SettleFrame, StartFrame DEF ledger
  <2>2. row[q] # "none" /\ row'[q] # "none"
    BY <1>1, <1>4, SettledRowsExist
  <2>3. found' \subseteq found
    BY <1>4
    DEF SettleActs, Settle, SettlePreserves, SettleRetains, SettleRemoves, SettleCloses,
        SettleRemoveFails, Settled
  <2>4. unstopped' \subseteq unstopped \cup {q}
    BY <1>4
    DEF SettleActs, Settle, Silenced, SettlePreserves, SettleRetains, SettleRemoves, SettleCloses,
        SettleRemoveFails, boxes, Stopped, NotStopped, Erased
  <2>5. \A t \in Tasks : Keeps(t)'
    BY <1>1, <2>1 DEF Keeps, InHand, Early, Run
  <2>6. \A r \in Runs : Kept(r)'
    BY <1>1, <2>1, <2>2, <2>3, <2>4 DEF Kept, Run
  <2> QED
    BY <2>5, <2>6
<1>5. CASE Boot
  <2>1. UNCHANGED <<task, attempt, outcome, box, unstopped>> /\ \A t \in Tasks : worker'[t] = "none"
    BY <1>1, <1>5, StartFrame DEF Boot, ledger, boxes
  <2>2. \A r \in Runs : row'[r] = "none" <=> row[r] = "none"
    BY <1>5 DEF Boot, Unremoved
  <2>3. \A r \in found' : box[r] = "present"
    BY <1>5 DEF Boot, Owned
  <2>4. \A t \in Tasks : Keeps(t)'
    BY <1>1, <2>1 DEF Keeps, InHand, Early, Run
  <2>5. \A r \in Runs : Kept(r)'
    BY <1>1, <2>1, <2>2, <2>3 DEF Kept, Run
  <2> QED
    BY <2>4, <2>5
<1>6. CASE Recover
  <2>1. UNCHANGED <<row, box, unstopped, found>> /\ \A t \in Tasks : worker'[t] = "none"
    BY <1>1, <1>6, StartFrame DEF Recover, rows, boxes
  <2>2. \A t \in Tasks : task'[t] # "running"
    BY <1>6 DEF Recover, Requeued
  <2>3. ASSUME NEW r \in Runs
        PROVE  outcome'[r] # "running" /\ (outcome'[r] = "none" => outcome[r] = "none")
    <3>1. CASE task[r[1]] = "running" /\ r = Run(r[1])
      BY <1>1, <1>6, <3>1 DEF Recover
    <3>2. CASE ~(task[r[1]] = "running" /\ r = Run(r[1]))
      <4>1. outcome'[r] = outcome[r]
        BY <1>6, <3>2 DEF Recover
      <4>2. outcome[r] # "running"
        BY <1>1, <3>2 DEF Kept, Keeps
      <4> QED
        BY <4>1, <4>2
    <3> QED
      BY <3>1, <3>2
  <2>4. \A t \in Tasks : Run(t)' \in Runs
    BY <1>1, LedgerTypesNext DEF LedgerTypes, Run, Runs
  <2>5. \A t \in Tasks : Keeps(t)'
    BY <2>1, <2>2, <2>3, <2>4 DEF Keeps, InHand, Early
  <2>6. \A r \in Runs : Kept(r)'
    BY <1>1, <2>1, <2>3 DEF Kept
  <2> QED
    BY <2>5, <2>6
<1>7. CASE HostActs
  <2>1. /\ UNCHANGED <<task, attempt, outcome, row, box, unstopped, result>> /\ found' \subseteq found
        /\ UNCHANGED worker \/ \A t \in Tasks : worker'[t] = "none"
    BY <1>7 DEF HostActs, Shutdown, Drained, Crash, ledger, rows, boxes, workers
  <2>2. \A t \in Tasks : Keeps(t)'
    BY <1>1, <2>1 DEF Keeps, InHand, Early, Run
  <2>3. \A r \in Runs : Kept(r)'
    BY <1>1, <2>1 DEF Kept, Run
  <2> QED
    BY <2>2, <2>3
<1>8. CASE UNCHANGED <<task, attempt, outcome, rows, boxes, contents, workers, daemon, found>>
  BY <1>1, <1>8 DEF Keeps, InHand, Kept, Run, rows, boxes, workers
<1> QED
  BY <1>2, <1>3, <1>4, <1>5, <1>6, <1>7, <1>8, Actors

LEMMA HandInvariant == Spec => [](SandboxInv /\ HandInv)
<1>1. SandboxInv /\ HandInv /\ [Next]_vars => (SandboxInv /\ HandInv)'
  BY InvNext, HandNext
<1> QED
  BY InvInit, HandInit, <1>1, PTL DEF Spec

--------------------------------------------------------------------------------
\* The task queue.

\* What a step may do to a task and its count of attempts.
TaskMoves(t) ==
    \/ task'[t] = task[t] /\ attempt'[t] = attempt[t]
    \/ task[t] = "queued" /\ task'[t] = "running" /\ attempt'[t] = attempt[t]
    \/ /\ task[t] = "running" /\ task'[t] = "queued"
       /\ attempt[t] < MaxAttempts /\ attempt'[t] = attempt[t] + 1
    \/ task[t] = "running" /\ task'[t] \in {"succeeded", "failed", "cancelled"}

\* A worker moves its task only while its run is open.
LEMMA WorkerTaskMoves ==
    ASSUME TypeOK, NEW t \in Tasks, Keeps(t), WorkerActs(t)
    PROVE  TaskMoves(t)
<1>1. LedgerTypes
  BY TypeParts
<1>2. CASE Claim(t)
  BY <1>1, <1>2 DEF Claim, TaskMoves, LedgerTypes
<1>3. CASE PrepareFails(t)
  <2>1. task[t] = "running" /\ task'[t] = Requeued(t) /\ attempt'[t] = NextAttempt(t)
    BY <1>1, <1>3 DEF PrepareFails, Keeps, InHand, LedgerTypes
  <2> QED
    BY <2>1 DEF TaskMoves, Requeued, NextAttempt
<1>4. CASE Report(t) \/ CloseFailed(t)
  <2>1. task[t] = "running" /\ \E o \in {"succeeded", "failed", "cancelled"} : Finish(t, o)
    BY <1>4 DEF Report, CloseFailed, Verdicts, Keeps, InHand
  <2> QED
    BY <1>1, <2>1 DEF Finish, TaskMoves, LedgerTypes
<1>5. CASE UNCHANGED ledger
  BY <1>5 DEF ledger, TaskMoves
<1> QED
  BY <1>2, <1>3, <1>4, <1>5
  DEF WorkerActs, WorkerStep, WorkerTrouble, Prepare,
      Create, Execute, CreateFails, ExecutionEnds, Interrupt, Fail, Preserve, Remove, CloseRow,
      VersionFails, RecordCreatedFails, ExecutionFails, PreserveFails,
      RemoveFails, Abandon, Finalize

LEMMA TasksMove ==
    ASSUME SandboxInv, HandInv, [Next]_vars, NEW t \in Tasks
    PROVE  TaskMoves(t)
<1>1. TypeOK /\ Keeps(t)
  BY DEF SandboxInv, HandInv
<1>2. ASSUME NEW u \in Tasks, WorkerActs(u) PROVE TaskMoves(t)
  <2>1. CASE u = t
    BY <1>1, <1>2, <2>1, WorkerTaskMoves
  <2>2. CASE u # t
    BY <1>1, <1>2, <2>2, WorkerFrame DEF TaskMoves
  <2> QED
    BY <2>1, <2>2
<1>3. ASSUME NEW q \in Runs, BoxActs(q) \/ SettleActs(q) PROVE TaskMoves(t)
  BY <1>3
  DEF BoxActs, CreationEnds, AgentWorks, AgentExits, SettleActs, Settle, SettlePreserves,
      SettleRetains, SettleRemoves, SettleCloses, SettleRemoveFails, ledger, TaskMoves
<1>4. CASE Recover
  <2>1. CASE task[t] = "running"
    BY <1>4, <2>1 DEF Recover, Requeued, NextAttempt, TaskMoves
  <2>2. CASE task[t] # "running"
    BY <1>4, <2>2 DEF Recover, TaskMoves
  <2> QED
    BY <2>1, <2>2
<1>5. CASE Boot \/ HostActs
  BY <1>5 DEF Boot, HostActs, Shutdown, Drained, Crash, ledger, TaskMoves
<1>6. CASE UNCHANGED <<task, attempt, outcome, rows, boxes, contents, workers, daemon, found>>
  BY <1>6 DEF TaskMoves
<1> QED
  BY <1>2, <1>3, <1>4, <1>5, <1>6, Actors

LEMMA QueueStep ==
    ASSUME SandboxInv, HandInv, [Next]_vars, TypeOK'
    PROVE  [Queue!Next]_(Queue!vars)
<1> DEFINE spent(t) == IF Terminal(t) THEN 0 ELSE attempt[t]
<1>1. /\ LedgerTypes /\ LedgerTypes' /\ MaxAttempts \in Nat
      /\ \A t \in Tasks : attempt[t] \in 0 .. MaxAttempts /\ attempt'[t] \in 0 .. MaxAttempts
  BY TypeParts, LedgerTypesNext, SandboxAssumption DEF SandboxInv, LedgerTypes, Attempts
<1>2. task' \in [Tasks -> Queue!Status]
  BY <1>1 DEF LedgerTypes, TaskStates, Queue!Status
<1>3. \A t \in Tasks : spent(t)' \in 0 .. MaxAttempts
  BY <1>1 DEF Terminal
<1>4. ASSUME NEW t \in Tasks
      PROVE  \/ task'[t] = task[t] /\ spent(t)' = spent(t)
             \/ task[t] = "queued" /\ task'[t] = "running" /\ spent(t)' = spent(t)
             \/ /\ task[t] = "running" /\ task'[t] = "queued"
                /\ spent(t) < MaxAttempts /\ spent(t)' = spent(t) + 1
             \/ /\ task[t] = "running" /\ task'[t] \in {"succeeded", "failed", "cancelled"}
                /\ spent(t)' = 0
  BY TasksMove DEF TaskMoves, Terminal
<1>5. ASSUME NEW t \in Tasks
      PROVE  \/ Queue!Stays(t) \/ Queue!Start(t) \/ Queue!Retry(t) \/ Queue!Conclude(t)
  BY <1>4 DEF Queue!Stays, Queue!Start, Queue!Retry, Queue!Conclude, Queue!Moves
<1> QED
  BY <1>2, <1>3, <1>5 DEF Queue!Next

\* Whatever fails in a sandbox, in the ledger or in the daemon, a task only goes
\* from queued to running, back while its attempts last, and to its end: no worker
\* that outlived its run and no start concludes or requeues a task a second time.
THEOREM SandboxTasksAreAQueue == Spec => ImplementsTaskQueue
<1>1. Init => Queue!Init
  BY DEF Init, Queue!Init, Queue!Status, Terminal
<1>2. SandboxInv /\ HandInv /\ [Next]_vars => [Queue!Next]_(Queue!vars)
  BY QueueStep, TypesNext DEF SandboxInv
<1> QED
  BY <1>1, <1>2, HandInvariant, PTL DEF Spec, ImplementsTaskQueue, Queue!Spec

--------------------------------------------------------------------------------
\* The promise about boxes.

\* A step shows one part of a run's state only.
OnlyLife(r) == BoxOf(r)' = BoxOf(r) /\ AgentOf(r)' = AgentOf(r) /\ work'[r] = work[r]
OnlyBox(r) == Life(r)' = Life(r) /\ AgentOf(r)' = AgentOf(r) /\ work'[r] = work[r]
OnlyAgent(r) == Life(r)' = Life(r) /\ BoxOf(r)' = BoxOf(r) /\ work'[r] = work[r]
OnlyWork(r) == Life(r)' = Life(r) /\ BoxOf(r)' = BoxOf(r) /\ AgentOf(r)' = AgentOf(r)
Same(r) == OnlyLife(r) /\ OnlyAgent(r)

\* What a step may do to a run, its box, its agent and its changes.
LifeMoves(r) ==
    /\ OnlyLife(r)
    /\ \/ Life(r) = "ahead" /\ Life(r)' = "open"
       \/ Life(r) = "open" /\ Life(r)' = "closed" /\ AgentOf(r) # "in"
BoxMoves(r) ==
    /\ OnlyBox(r)
    /\ \/ Life(r) = "open" /\ BoxOf(r) = "none" /\ BoxOf(r)' = "creating"
       \/ BoxOf(r) = "creating" /\ BoxOf(r)' \in {"present", "gone"}
       \/ /\ BoxOf(r) = "present" /\ BoxOf(r)' = "gone" /\ AgentOf(r) # "in"
          /\ work[r] # "unsaved" \/ AgentOf(r) = "lost"
InOrOut(r) ==
    /\ OnlyAgent(r)
    /\ \/ /\ Life(r) = "open" /\ BoxOf(r) = "present" /\ work[r] = "none"
          /\ AgentOf(r) = "out" /\ AgentOf(r)' = "in"
       \/ AgentOf(r) = "in" /\ AgentOf(r)' \in {"out", "lost"}
WorkMoves(r) ==
    /\ OnlyWork(r)
    /\ \/ AgentOf(r) # "out" /\ work'[r] = "unsaved"
       \/ /\ BoxOf(r) = "present" /\ AgentOf(r) # "in"
          /\ work[r] = "unsaved" /\ work'[r] = "saved"
RunMoves(r) == Same(r) \/ LifeMoves(r) \/ BoxMoves(r) \/ InOrOut(r) \/ WorkMoves(r)

\* A row that stays or is written over shows the same box.
LEMMA RowWritten ==
    ASSUME NEW r \in Runs, box'[r] = box[r], row'[r] = "none" <=> row[r] = "none"
    PROVE  BoxOf(r)' = BoxOf(r)
  BY DEF BoxOf

\* To stop an agent that is not at work any more changes nothing.
LEMMA StoppedAgain ==
    ASSUME NEW r \in Runs, r \notin Loose, Stopped(r) \/ NotStopped(r)
    PROVE  AgentOf(r)' = AgentOf(r) /\ box'[r] = box[r]
  BY DEF Loose, AgentOf, Stopped, NotStopped

\* Otherwise it leaves or is lost.
LEMMA StoppedAtWork ==
    ASSUME NEW r \in Runs, r \in Loose, Stopped(r) \/ NotStopped(r)
    PROVE  AgentOf(r) = "in" /\ AgentOf(r)' \in {"out", "lost"} /\ box'[r] = box[r]
  BY DEF Loose, AgentOf, Stopped, NotStopped

\* A removal takes the box only, when its agent is not at work.
LEMMA ErasedBox ==
    ASSUME TypeOK, NEW r \in Runs, r \notin Loose, Erased(r), row[r] # "none", row'[r] # "none"
    PROVE  /\ AgentOf(r)' = AgentOf(r)
           /\ BoxOf(r)' = BoxOf(r) \/ (BoxOf(r) = "present" /\ BoxOf(r)' = "gone")
<1>1. BoxTypes
  BY TypeParts
<1> QED
  BY <1>1 DEF Loose, AgentOf, Erased, BoxOf, BoxTypes

\* The snapshot saves what there is.
LEMMA HandedOverWork ==
    ASSUME TypeOK, NEW r \in Runs, HandedOver(r)
    PROVE  work'[r] = work[r] \/ (work[r] = "unsaved" /\ work'[r] = "saved")
<1>1. ContentTypes
  BY TypeParts
<1> QED
  BY <1>1 DEF HandedOver, ContentTypes

LEMMA WorkerRunMoves ==
    ASSUME SandboxInv, NEW t \in Tasks, Keeps(t), NEW r \in Runs, r = Run(t), Kept(r), WorkerActs(t)
    PROVE  RunMoves(r)
<1>1. /\ TypeOK /\ LedgerTypes /\ BoxTypes /\ ContentTypes /\ WorkerTypes /\ r[1] = t
      /\ Future /\ OnTrack(t) /\ Serving
  BY TypeParts, RunFacts, WorkerFrame DEF SandboxInv, WorkInv, WorkersOnTrack
<1>2. worker[t] # "executing" => r \notin Loose /\ AgentOf(r) # "in"
  BY <1>1 DEF SandboxInv, WorkInv, AgentsAtWork, Loose, AgentOf
<1>3. ASSUME NEW s, SetRow(r, s) PROVE row'[r] = s
  BY <1>1, <1>3 DEF SetRow, BoxTypes
<1>4. ASSUME UNCHANGED boxes PROVE box'[r] = box[r] /\ AgentOf(r)' = AgentOf(r)
  BY <1>4 DEF boxes, AgentOf
<1>5. ASSUME UNCHANGED ledger PROVE Life(r)' = Life(r)
  BY <1>5 DEF ledger, Life
<1>6. ASSUME UNCHANGED contents PROVE work'[r] = work[r]
  BY <1>6 DEF contents
<1>7. ASSUME UNCHANGED <<outcome, row, boxes, work>> PROVE Same(r)
  <2>1. Life(r)' = Life(r) /\ BoxOf(r)' = BoxOf(r)
    BY <1>4, <1>7 DEF Life, BoxOf
  <2> QED
    BY <1>4, <1>7, <2>1 DEF Same, OnlyLife, OnlyAgent
<1>8. CASE Claim(t)
  <2>1. outcome[r] = "none" /\ outcome'[r] = "running"
    BY <1>1, <1>8 DEF Claim, Future, LedgerTypes
  <2>2. Life(r) = "ahead" /\ Life(r)' = "open"
    BY <2>1 DEF Life
  <2>3. OnlyLife(r)
    BY <1>4, <1>6, <1>8, RowWritten DEF Claim, rows, OnlyLife
  <2> QED
    BY <2>2, <2>3 DEF LifeMoves, RunMoves
<1>9. CASE PrepareFails(t) \/ Report(t) \/ CloseFailed(t)
  <2>1. outcome[r] = "running" /\ worker[t] # "executing" /\ UNCHANGED <<rows, boxes, contents>>
    BY <1>9 DEF PrepareFails, Report, CloseFailed, Keeps, InHand
  <2>2. outcome'[r] \in {"succeeded", "failed", "cancelled"}
    BY <1>1, <1>9 DEF PrepareFails, Report, CloseFailed, Verdicts, Finish, LedgerTypes
  <2>3. Life(r) = "open" /\ Life(r)' = "closed"
    BY <2>1, <2>2 DEF Life
  <2>4. OnlyLife(r)
    BY <1>4, <1>6, <2>1, RowWritten DEF rows, OnlyLife
  <2> QED
    BY <1>2, <2>1, <2>3, <2>4 DEF LifeMoves, RunMoves
<1>10. CASE Create(t)
  <2>1. outcome[r] = "running" /\ row[r] = "none" /\ row'[r] = "creating" /\ box[r] = "none"
    BY <1>3, <1>10 DEF Create, Recorded, Keeps, Kept
  <2>2. box'[r] = "creating"
    BY <1>1, <1>10 DEF Create, CreationStarted, BoxTypes
  <2>3. Life(r) = "open" /\ BoxOf(r) = "none" /\ BoxOf(r)' = "creating"
    BY <2>1, <2>2 DEF Life, BoxOf
  <2>4. OnlyBox(r)
    BY <1>5, <1>6, <1>10 DEF Create, CreationStarted, AgentOf, OnlyBox
  <2> QED
    BY <2>3, <2>4 DEF BoxMoves, RunMoves
<1>11. CASE Execute(t)
  <2>1. /\ outcome[r] = "running" /\ row[r] # "none" /\ row'[r] = "created" /\ box[r] = "present"
        /\ r \notin agents /\ r \notin unstopped /\ work[r] = "none"
        /\ r \in agents' /\ UNCHANGED <<box, unstopped>>
    BY <1>1, <1>3, <1>11 DEF Execute, OnTrack, Early, Keeps
  <2>2. Life(r) = "open" /\ BoxOf(r) = "present" /\ AgentOf(r) = "out" /\ AgentOf(r)' = "in"
    BY <2>1 DEF Life, BoxOf, AgentOf
  <2>3. OnlyAgent(r)
    BY <1>5, <1>6, <1>11, <2>1, RowWritten DEF Execute, OnlyAgent
  <2> QED
    BY <2>1, <2>2, <2>3 DEF InOrOut, RunMoves
<1>12. CASE RecordCreatedFails(t)
  <2>1. /\ worker[t] = "creating" /\ row[r] # "none" /\ box[r] = "present" /\ work[r] = "none"
        /\ UNCHANGED <<ledger, rows, agents, unstopped, contents>>
    BY <1>1, <1>12 DEF RecordCreatedFails, OnTrack, Early, Keeps
  <2>2. OnlyBox(r)
    BY <1>5, <1>6, <2>1 DEF OnlyBox, AgentOf
  <2>3. CASE box' = box
    <3>1. BoxOf(r)' = BoxOf(r)
      BY <2>1, <2>3 DEF BoxOf, rows
    <3> QED
      BY <2>2, <3>1 DEF Same, OnlyLife, OnlyAgent, OnlyBox, RunMoves
  <2>4. CASE box' = [box EXCEPT ![r] = "none"]
    <3>1. BoxOf(r) = "present" /\ BoxOf(r)' = "gone"
      BY <1>1, <2>1, <2>4 DEF BoxOf, BoxTypes, rows
    <3> QED
      BY <1>2, <2>1, <2>2, <3>1 DEF BoxMoves, RunMoves
  <2> QED
    BY <1>12, <2>3, <2>4 DEF RecordCreatedFails
<1>13. CASE Interrupt(t) \/ ExecutionFails(t)
  <2>1. (Stopped(r) \/ NotStopped(r)) /\ UNCHANGED <<ledger, rows, contents>>
    BY <1>13 DEF Interrupt, ExecutionFails
  <2>2. CASE r \in Loose
    <3>1. AgentOf(r) = "in" /\ AgentOf(r)' \in {"out", "lost"} /\ box'[r] = box[r]
      BY <2>1, <2>2, StoppedAtWork
    <3>2. OnlyAgent(r)
      BY <1>5, <1>6, <2>1, <3>1, RowWritten DEF OnlyAgent, rows
    <3> QED
      BY <3>1, <3>2 DEF InOrOut, RunMoves
  <2>3. CASE r \notin Loose
    <3>1. AgentOf(r)' = AgentOf(r) /\ box'[r] = box[r]
      BY <2>1, <2>3, StoppedAgain
    <3> QED
      BY <1>5, <1>6, <2>1, <3>1, RowWritten DEF OnlyLife, OnlyAgent, Same, RunMoves, rows
  <2> QED
    BY <2>2, <2>3
<1>14. CASE PreserveFails(t)
  <2>1. /\ r \notin Loose /\ row[r] # "none" /\ row'[r] # "none"
        /\ Stopped(r) \/ NotStopped(r)
        /\ UNCHANGED <<ledger, contents>>
    BY <1>2, <1>3, <1>14 DEF PreserveFails, Keeps
  <2>2. AgentOf(r)' = AgentOf(r) /\ box'[r] = box[r]
    BY <2>1, StoppedAgain
  <2> QED
    BY <1>5, <1>6, <2>1, <2>2, RowWritten DEF OnlyLife, OnlyAgent, Same, RunMoves
<1>15. CASE Preserve(t)
  <2>1. /\ box[r] = "present" /\ row[r] # "none" /\ HandedOver(r) /\ AgentOf(r) # "in"
        /\ UNCHANGED <<ledger, boxes>>
    BY <1>2, <1>15 DEF Preserve, Possible, Keeps
  <2>2. row'[r] # "none"
    BY <1>1, <1>3, <1>15 DEF Preserve, WorkerTypes, Endings
  <2>3. OnlyWork(r) /\ BoxOf(r) = "present"
    BY <1>4, <1>5, <2>1, <2>2, RowWritten DEF OnlyWork, BoxOf
  <2>4. work'[r] = work[r] \/ (work[r] = "unsaved" /\ work'[r] = "saved")
    BY <1>1, <2>1, HandedOverWork
  <2> QED
    BY <2>1, <2>3, <2>4 DEF OnlyWork, OnlyLife, OnlyAgent, Same, WorkMoves, RunMoves
<1>16. CASE Remove(t)
  <2>1. /\ r \notin Loose /\ AgentOf(r) # "in" /\ row[r] # "none" /\ row'[r] # "none" /\ Erased(r)
        /\ UNCHANGED <<ledger, contents>>
        /\ r \in unstopped \/ work[r] # "unsaved"
    BY <1>1, <1>2, <1>3, <1>16 DEF Remove, Keeps, OnTrack
  <2>2. /\ AgentOf(r)' = AgentOf(r)
        /\ BoxOf(r)' = BoxOf(r) \/ (BoxOf(r) = "present" /\ BoxOf(r)' = "gone")
    BY <1>1, <2>1, ErasedBox
  <2>3. r \in unstopped => AgentOf(r) = "lost"
    BY DEF AgentOf
  <2> QED
    BY <1>5, <1>6, <2>1, <2>2, <2>3 DEF OnlyBox, OnlyLife, OnlyAgent, Same, BoxMoves, RunMoves
<1>17. CASE Fail(t) \/ RemoveFails(t) \/ CloseRow(t)
  <2>1. row[r] # "none" /\ row'[r] # "none" /\ UNCHANGED <<ledger, boxes, contents>>
    BY <1>1, <1>3, <1>17 DEF Fail, RemoveFails, CloseRow, Keeps, WorkerTypes, Endings
  <2> QED
    BY <1>4, <1>5, <1>6, <2>1, RowWritten DEF OnlyLife, OnlyAgent, Same, RunMoves
<1>18. CASE UNCHANGED <<ledger, rows, boxes, work>>
  BY <1>7, <1>18 DEF RunMoves, ledger, rows
<1> QED
  BY <1>8, <1>9, <1>10, <1>11, <1>12, <1>13, <1>14, <1>15, <1>16, <1>17, <1>18
  DEF WorkerActs, WorkerStep, WorkerTrouble, Prepare, CreateFails, ExecutionEnds, VersionFails,
      Abandon, Finalize, contents

LEMMA SettleRunMoves ==
    ASSUME SandboxInv, NEW r \in Runs, Kept(r), SettleActs(r)
    PROVE  RunMoves(r)
<1>1. /\ TypeOK /\ BoxTypes /\ Booting /\ row[r] # "none" /\ row'[r] # "none"
      /\ UNCHANGED ledger /\ Life(r)' = Life(r)
  BY TypeParts, SettleFrame, SettledRowsExist DEF SandboxInv, ledger, Life
<1>2. r \in daemon.run => r \notin Loose /\ AgentOf(r) # "in"
  BY <1>1 DEF SandboxInv, WorkInv, AgentsAtWork, Loose, AgentOf
<1>3. ASSUME AgentOf(r)' = AgentOf(r), box'[r] = box[r], work'[r] = work[r] PROVE RunMoves(r)
  BY <1>1, <1>3, RowWritten DEF OnlyLife, OnlyAgent, Same, RunMoves
<1>4. CASE Settle(r)
  <2>1. (Stopped(r) \/ NotStopped(r)) /\ work' = work
    BY <1>4 DEF Settle, Silenced, contents
  <2>2. CASE r \in Loose
    <3>1. AgentOf(r) = "in" /\ AgentOf(r)' \in {"out", "lost"} /\ box'[r] = box[r]
      BY <2>1, <2>2, StoppedAtWork
    <3> QED
      BY <1>1, <2>1, <3>1, RowWritten DEF OnlyAgent, InOrOut, RunMoves
  <2>3. CASE r \notin Loose
    BY <1>3, <2>1, <2>3, StoppedAgain
  <2> QED
    BY <2>2, <2>3
<1>5. CASE SettlePreserves(r)
  <2>1. r \in daemon.run /\ box[r] = "present" /\ HandedOver(r) /\ UNCHANGED boxes
    BY <1>5 DEF SettlePreserves, Holds, Possible
  <2>2. AgentOf(r)' = AgentOf(r) /\ BoxOf(r)' = BoxOf(r) /\ BoxOf(r) = "present"
    BY <1>1, <2>1, RowWritten DEF AgentOf, BoxOf, boxes
  <2>3. work'[r] = work[r] \/ (work[r] = "unsaved" /\ work'[r] = "saved")
    BY <1>1, <2>1, HandedOverWork
  <2> QED
    BY <1>1, <1>2, <2>1, <2>2, <2>3 DEF OnlyWork, OnlyLife, OnlyAgent, Same, WorkMoves, RunMoves
<1>6. CASE SettleRetains(r)
  <2>1. r \in daemon.run /\ (Stopped(r) \/ NotStopped(r)) /\ work' = work
    BY <1>6 DEF SettleRetains, Holds, contents
  <2> QED
    BY <1>2, <1>3, <2>1, StoppedAgain
<1>7. CASE SettleRemoves(r)
  <2>1. r \in daemon.run /\ Stage("removing") /\ Erased(r) /\ work' = work
    BY <1>7 DEF SettleRemoves, Holds, contents
  <2>2. work[r] # "unsaved" \/ AgentOf(r) = "lost"
    BY <2>1 DEF SandboxInv, WorkInv, RescuesSaved, AgentOf
  <2>3. /\ AgentOf(r)' = AgentOf(r)
        /\ BoxOf(r)' = BoxOf(r) \/ (BoxOf(r) = "present" /\ BoxOf(r)' = "gone")
    BY <1>1, <1>2, <2>1, ErasedBox
  <2> QED
    BY <1>1, <1>2, <2>1, <2>2, <2>3 DEF OnlyBox, OnlyLife, OnlyAgent, Same, BoxMoves, RunMoves
<1>8. CASE SettleRemoveFails(r) \/ SettleCloses(r)
  BY <1>3, <1>8 DEF SettleRemoveFails, SettleCloses, boxes, contents, AgentOf
<1> QED
  BY <1>4, <1>5, <1>6, <1>7, <1>8 DEF SettleActs

LEMMA RunsMove ==
    ASSUME SandboxInv, HandInv, [Next]_vars, NEW r \in Runs
    PROVE  RunMoves(r)
<1>1. /\ TypeOK /\ BoxTypes /\ ContentTypes /\ LedgerTypes /\ r[1] \in Tasks /\ Kept(r)
      /\ \A t \in Tasks : Keeps(t)
  BY TypeParts, RunFacts DEF SandboxInv, HandInv
<1>2. ASSUME outcome'[r] = outcome[r], box'[r] = box[r], row'[r] = "none" <=> row[r] = "none",
             work'[r] = work[r], r \in agents' <=> r \in agents, r \in unstopped' <=> r \in unstopped
      PROVE  RunMoves(r)
  BY <1>2 DEF Life, BoxOf, AgentOf, OnlyLife, OnlyAgent, Same, RunMoves
<1>3. ASSUME NEW t \in Tasks, WorkerActs(t) PROVE RunMoves(r)
  <2>1. CASE r = Run(t)
    BY <1>1, <1>3, <2>1, WorkerRunMoves
  <2>2. CASE r # Run(t)
    BY <1>1, <1>2, <1>3, <2>2, WorkerFrame
  <2> QED
    BY <2>1, <2>2
<1>4. ASSUME NEW q \in Runs, CreationEnds(q) PROVE RunMoves(r)
  <2>1. UNCHANGED <<outcome, row, agents, unstopped, work>> /\ box[q] = "creating"
    BY <1>4 DEF CreationEnds, ledger, rows, contents
  <2>2. CASE r # q
    BY <1>1, <1>2, <1>4, <2>1, <2>2 DEF CreationEnds, BoxTypes
  <2>3. CASE r = q
    <3>1. row[r] # "none" /\ box'[r] \in {"present", "none"}
      BY <1>1, <1>4, <2>1, <2>3 DEF CreationEnds, Kept, BoxTypes
    <3>2. BoxOf(r) = "creating" /\ BoxOf(r)' \in {"present", "gone"}
      BY <2>1, <2>3, <3>1 DEF BoxOf
    <3> QED
      BY <2>1, <3>2 DEF Life, AgentOf, OnlyBox, BoxMoves, RunMoves
  <2> QED
    BY <2>2, <2>3
<1>5. ASSUME NEW q \in Runs, AgentWorks(q) PROVE RunMoves(r)
  <2>1. UNCHANGED <<outcome, row, box, agents, unstopped>> /\ q \in agents
    BY <1>5 DEF AgentWorks, ledger, rows, boxes
  <2>2. CASE r # q
    BY <1>1, <1>2, <1>5, <2>1, <2>2 DEF AgentWorks, ContentTypes
  <2>3. CASE r = q
    <3>1. work'[r] = "unsaved" /\ AgentOf(r) # "out"
      BY <1>1, <1>5, <2>1, <2>3 DEF AgentWorks, ContentTypes, AgentOf
    <3> QED
      BY <2>1, <3>1 DEF Life, BoxOf, AgentOf, OnlyWork, WorkMoves, RunMoves
  <2> QED
    BY <2>2, <2>3
<1>6. ASSUME NEW q \in Runs, AgentExits(q) PROVE RunMoves(r)
  <2>1. UNCHANGED <<outcome, row, box, work, unstopped>> /\ q \in agents /\ agents' = agents \ {q}
    BY <1>6 DEF AgentExits, ledger, rows, contents
  <2>2. CASE r # q \/ r \in unstopped
    BY <2>1, <2>2 DEF Life, BoxOf, AgentOf, OnlyLife, OnlyAgent, Same, RunMoves
  <2>3. CASE r = q /\ r \notin unstopped
    <3>1. AgentOf(r) = "in" /\ AgentOf(r)' = "out"
      BY <2>1, <2>3 DEF AgentOf
    <3> QED
      BY <2>1, <3>1 DEF Life, BoxOf, OnlyAgent, InOrOut, RunMoves
  <2> QED
    BY <2>2, <2>3
<1>7. ASSUME NEW q \in Runs, SettleActs(q) PROVE RunMoves(r)
  <2>1. CASE r = q
    BY <1>1, <1>7, <2>1, SettleRunMoves
  <2>2. CASE r # q
    <3>1. outcome' = outcome /\ box'[r] = box[r] /\ row'[r] = row[r]
      BY <1>1, <1>7, <2>2, SettleFrame DEF ledger
    <3>2. (r \in agents' <=> r \in agents) /\ (r \in unstopped' <=> r \in unstopped)
      BY <1>7, <2>2
      DEF SettleActs, Settle, Silenced, SettlePreserves, SettleRetains, SettleRemoves, SettleCloses,
          SettleRemoveFails, boxes, Stopped, NotStopped, Erased
    <3>3. work'[r] = work[r]
      BY <1>1, <1>7, <2>2
      DEF SettleActs, Settle, SettlePreserves, SettleRetains, SettleRemoves, SettleCloses,
          SettleRemoveFails, contents, HandedOver, ContentTypes
    <3> QED
      BY <1>2, <3>1, <3>2, <3>3
  <2> QED
    BY <2>1, <2>2
<1>8. CASE Boot
  <2>1. row'[r] = "none" <=> row[r] = "none"
    BY <1>8 DEF Boot, Unremoved
  <2> QED
    BY <1>2, <1>8, <2>1 DEF Boot, ledger, boxes, contents
<1>9. CASE Recover
  <2>1. UNCHANGED <<row, box, agents, unstopped, work>>
    BY <1>9 DEF Recover, rows, boxes, contents
  <2>2. CASE task[r[1]] = "running" /\ r = Run(r[1])
    <3>1. outcome[r] = "running" /\ outcome'[r] \in {"cancelled", "failed"}
      BY <1>1, <1>9, <2>2 DEF Recover, Keeps
    <3>2. r \notin Loose
      BY <1>9 DEF SandboxInv, WorkInv, AgentsAtWork, Recover, Stage, Booting
    <3>3. Life(r) = "open" /\ Life(r)' = "closed" /\ AgentOf(r) # "in"
      BY <3>1, <3>2 DEF Life, AgentOf, Loose
    <3> QED
      BY <2>1, <3>3 DEF BoxOf, AgentOf, OnlyLife, LifeMoves, RunMoves
  <2>3. CASE ~(task[r[1]] = "running" /\ r = Run(r[1]))
    <3>1. outcome'[r] = outcome[r]
      BY <1>9, <2>3 DEF Recover
    <3> QED
      BY <1>2, <2>1, <3>1
  <2> QED
    BY <2>2, <2>3
<1>10. CASE HostActs
  BY <1>2, <1>10 DEF HostActs, Shutdown, Drained, Crash, ledger, rows, boxes, contents
<1>11. CASE UNCHANGED <<task, attempt, outcome, rows, boxes, contents, workers, daemon, found>>
  BY <1>2, <1>11 DEF rows, boxes, contents
<1> QED
  BY <1>3, <1>4, <1>5, <1>6, <1>7, <1>8, <1>9, <1>10, <1>11, Actors DEF BoxActs

\* Each of them is a move of the promise.
LEMMA BoxesMove ==
    ASSUME NEW r \in Runs, RunMoves(r)
    PROVE  RunState(r)' = RunState(r) \/ Boxes!Moves(r)
<1> DEFINE runs == [q \in Runs |-> RunState(q)]
<1>1. runs[r] = RunState(r) /\ runs'[r] = RunState(r)'
  OBVIOUS
<1>2. CASE Same(r)
  BY <1>2 DEF Same, OnlyLife, OnlyAgent, RunState
<1>3. CASE LifeMoves(r)
  <2>1. RunState(r)' = [RunState(r) EXCEPT !.life = Life(r)']
    BY <1>3 DEF LifeMoves, OnlyLife, RunState
  <2> QED
    BY <1>3, <2>1 DEF LifeMoves, RunState, Boxes!Moves, Boxes!Open, Boxes!Close
<1>4. CASE BoxMoves(r)
  <2>1. RunState(r)' = [RunState(r) EXCEPT !.box = BoxOf(r)']
    BY <1>4 DEF BoxMoves, OnlyBox, RunState
  <2> QED
    BY <1>4, <2>1
    DEF BoxMoves, RunState, Boxes!Moves, Boxes!Create, Boxes!Appear, Boxes!Discard
<1>5. CASE InOrOut(r)
  <2>1. RunState(r)' = [RunState(r) EXCEPT !.agent = AgentOf(r)']
    BY <1>5 DEF InOrOut, OnlyAgent, RunState
  <2> QED
    BY <1>5, <2>1 DEF InOrOut, RunState, Boxes!Moves, Boxes!Enter, Boxes!Leave
<1>6. CASE WorkMoves(r)
  <2>1. RunState(r)' = [RunState(r) EXCEPT !.work = work'[r]]
    BY <1>6 DEF WorkMoves, OnlyWork, RunState
  <2> QED
    BY <1>6, <2>1 DEF WorkMoves, RunState, Boxes!Moves, Boxes!Change, Boxes!Save
<1> QED
  BY <1>2, <1>3, <1>4, <1>5, <1>6 DEF RunMoves

LEMMA RunStates == TypeOK => \A r \in Runs : RunState(r) \in Boxes!States
<1> SUFFICES ASSUME TypeOK, NEW r \in Runs PROVE RunState(r) \in Boxes!States
  OBVIOUS
<1>1. BoxTypes /\ ContentTypes
  BY TypeParts
<1>2. /\ Life(r) \in {"ahead", "open", "closed"}
      /\ BoxOf(r) \in {"none", "creating", "present", "gone"}
      /\ AgentOf(r) \in {"out", "in", "lost"}
      /\ work[r] \in {"none", "unsaved", "saved"}
  BY <1>1 DEF BoxTypes, ContentTypes, Life, BoxOf, AgentOf
<1> QED
  BY <1>2 DEF RunState, Boxes!States

\* Workers, agents, starts and recoveries together, whichever of their commands,
\* ledger writes and daemons fail, keep the promise about the box of each run: there
\* is one at most, its agent is at work only while the run is open, its changes are
\* saved after it has left, and the box is removed only after that.
THEOREM BoxesAreKept == Spec => KeepsBoxes
<1>1. Init => Boxes!Init
  BY DEF Init, Boxes!Init, RunState, Life, BoxOf, AgentOf
<1>2. SandboxInv /\ HandInv /\ [Next]_vars /\ TypeOK' => Boxes!Next
  <2> SUFFICES ASSUME SandboxInv, HandInv, [Next]_vars, TypeOK' PROVE Boxes!Next
    OBVIOUS
  <2>1. (\A r \in Runs : RunState(r) \in Boxes!States)'
    BY RunStates, PTL
  <2>2. \A r \in Runs : RunState(r)' = RunState(r) \/ Boxes!Moves(r)
    BY RunsMove, BoxesMove
  <2> QED
    BY <2>1, <2>2 DEF Boxes!Next
<1>3. SandboxInv /\ HandInv /\ [Next]_vars => [Boxes!Next]_[r \in Runs |-> RunState(r)]
  BY <1>2, TypesNext DEF SandboxInv
<1> QED
  BY <1>1, <1>3, HandInvariant, PTL DEF Spec, KeepsBoxes, Boxes!Spec
================================================================================

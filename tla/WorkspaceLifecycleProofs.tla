----------------------- MODULE WorkspaceLifecycleProofs -----------------------
(***************************************************************************)
(* Proofs about WorkspaceLifecycle for any tasks, limits and crashes.      *)
(***************************************************************************)
EXTENDS WorkspaceLifecycle, TLAPS

LEMMA TreesExist ==
    ASSUME NEW w \in Trees
    PROVE  w # Absent
<1>1. DOMAIN w = {"dirty", "branch", "unpublished"}
  BY DEF Trees
<1>2. "absent" \in DOMAIN Absent
  BY DEF Absent
<1> QED
  BY <1>1, <1>2

LEMMA TypesInit == Init => TypeOK
BY WorkspaceAssumption
   DEF Init, TypeOK, TaskStates, RowStates, Reasons, WorkerSteps, JanitorStates, JanitorSteps, Idle

\* What becomes of a janitor is the state of a janitor.
LEMMA JanitorTypes ==
    ASSUME NEW x \in JanitorStates, NEW step \in JanitorSteps
    PROVE  /\ Idle \in JanitorStates
           /\ [x EXCEPT !.at = step] \in JanitorStates
           /\ \A t \in Tasks, d \in BOOLEAN :
                 [at |-> step, task |-> t, dirty |-> d] \in JanitorStates
BY DEF JanitorStates, Idle, JanitorSteps

LEMMA JanitorMoves ==
    ASSUME TypeOK, NEW j \in Janitors, NEW step \in JanitorSteps, Goto(j, step) \/ Leave(j)
    PROVE  janitor' \in [Janitors -> JanitorStates]
<1>1. janitor[j] \in JanitorStates
  BY DEF TypeOK
<1>2. [janitor[j] EXCEPT !.at = step] \in JanitorStates /\ Idle \in JanitorStates
  BY <1>1, JanitorTypes
<1> QED
  BY <1>2 DEF TypeOK, Goto, Leave

LEMMA JanitorStarts ==
    ASSUME TypeOK, NEW j \in Janitors, NEW step \in JanitorSteps, NEW t \in Tasks, Start(j, step, t)
    PROVE  janitor' \in [Janitors -> JanitorStates]
<1>1. [at |-> step, task |-> t, dirty |-> FALSE] \in JanitorStates
  BY DEF JanitorStates
<1> QED
  BY <1>1 DEF TypeOK, Start

LEMMA TypesJanitor ==
    ASSUME TypeOK, NEW j \in Janitors, NEW t \in Tasks, JanitorStep(j, t)
    PROVE  TypeOK'
<1> USE JanitorMoves DEF RowStates, Reasons, JanitorSteps
<1>1. CASE Confirm(j, t)
  BY <1>1 DEF TypeOK, Confirm, SetRow, TreeKept, claims, daemon
<1>2. CASE Begin(j, t)
  BY <1>2 DEF TypeOK, Begin, SetRow, TreeKept, claims, daemon
<1>3. CASE Preview(j, t)
  <2>1. tree[t].dirty \in BOOLEAN
    <3>1. CASE tree[t] \in Trees
      BY <3>1 DEF Trees
    <3>2. CASE tree[t] = Absent
      BY <3>2 DEF Absent
    <3> QED
      BY <3>1, <3>2 DEF TypeOK
  <2>2. [at |-> "inspect", task |-> t, dirty |-> tree[t].dirty] \in JanitorStates
    BY <2>1 DEF JanitorStates
  <2>3. janitor' \in [Janitors -> JanitorStates]
    BY <1>3, <2>2 DEF TypeOK, Preview
  <2> QED
    BY <1>3, <2>3 DEF TypeOK, Preview, LedgerKept, claims, daemon
<1>4. CASE Inspect(j, t)
  BY <1>4 DEF TypeOK, Inspect, LedgerKept, claims, daemon
<1>5. CASE Retain(j, t)
  BY <1>5 DEF TypeOK, Retain, SetRow, TreeKept, claims, daemon
<1>6. CASE Pend(j, t)
  BY <1>6 DEF TypeOK, Pend, SetRow, TreeKept, claims, daemon
<1>7. CASE Revalidate(j, t)
  BY <1>7 DEF TypeOK, Revalidate, LedgerKept, claims, daemon
<1>8. CASE RemoveTree(j, t)
  BY <1>8 DEF TypeOK, RemoveTree, LedgerKept, claims, daemon
<1>9. CASE RemoveFails(j, t)
  BY <1>9 DEF TypeOK, RemoveFails, LedgerKept, claims, daemon
<1>10. CASE Close(j, t)
  BY <1>10 DEF TypeOK, Close, SetRow, TreeKept, claims, daemon
<1> QED
  BY <1>1, <1>2, <1>3, <1>4, <1>5, <1>6, <1>7, <1>8, <1>9, <1>10 DEF JanitorStep

LEMMA TypesTask ==
    ASSUME TypeOK, NEW t \in Tasks,
           \/ WorkerStep(t) \/ AgentWorks(t) \/ PersonEdits(t) \/ PersonWorks(t)
           \/ TickFinalizes(t) \/ TickResumes(t) \/ OperatorBegins(t)
    PROVE  TypeOK'
<1> USE WorkspaceAssumption DEF TaskStates, RowStates, Reasons, WorkerSteps
<1>1. CASE Claim(t)
  BY <1>1 DEF TypeOK, Claim, daemon
<1>2. CASE Reserve(t)
  BY <1>2 DEF TypeOK, Reserve, daemon
<1>3. CASE CreateTree(t)
  <2>1. Fresh \in Trees
    BY DEF Fresh, Trees
  <2> QED
    BY <1>3, <2>1 DEF TypeOK, CreateTree, daemon
<1>4. ASSUME Requeue(t)
      PROVE  task' \in [Tasks -> TaskStates] /\ attempt' \in [Tasks -> 0..MaxAttempts]
  BY <1>4 DEF TypeOK, Requeue
<1>5. CASE PrepareFails(t)
  BY <1>4, <1>5 DEF TypeOK, PrepareFails, FailPrelaunch, daemon
<1>6. CASE MarkReady(t) \/ Launch(t)
  BY <1>6 DEF TypeOK, MarkReady, Launch, daemon
<1>7. CASE RunEnds(t)
  <2>1. janitor' \in [Janitors -> JanitorStates]
    BY <1>7, JanitorStarts DEF TypeOK, RunEnds, Janitors, JanitorSteps
  <2> QED
    BY <1>4, <1>7, <2>1 DEF TypeOK, RunEnds, daemon
<1>8. CASE AgentWorks(t) \/ PersonWorks(t)
  BY <1>8 DEF TypeOK, AgentWorks, PersonWorks, LedgerKept, claims, daemon
<1>9. CASE PersonEdits(t)
  <2>1. tree[t] \in Trees
    BY <1>9 DEF TypeOK, PersonEdits, Exists
  <2>2. [tree[t] EXCEPT !.dirty = TRUE] \in Trees
    BY <2>1 DEF Trees
  <2> QED
    BY <1>9, <2>2 DEF TypeOK, PersonEdits, LedgerKept, claims, daemon
<1>10. CASE TickFinalizes(t) \/ TickResumes(t)
  <2>1. "begin" \in JanitorSteps /\ Resumption(t) \in JanitorSteps /\ Tick \in Janitors
    BY DEF JanitorSteps, Resumption, Janitors
  <2>2. janitor' \in [Janitors -> JanitorStates]
    BY <1>10, <2>1, JanitorStarts DEF TickFinalizes, TickResumes
  <2> QED
    BY <1>10, <2>2 DEF TypeOK, TickFinalizes, TickResumes, LedgerKept, claims, daemon
<1>11. CASE OperatorBegins(t)
  <2>1. janitor' \in [Janitors -> JanitorStates]
    BY <1>11, JanitorStarts DEF OperatorBegins, Janitors, JanitorSteps
  <2> QED
    BY <1>11, <2>1 DEF TypeOK, OperatorBegins, claims, daemon
<1> QED
  BY <1>1, <1>2, <1>3, <1>5, <1>6, <1>7, <1>8, <1>9, <1>10, <1>11 DEF WorkerStep

LEMMA TypesNext == TypeOK /\ [Next]_vars => TypeOK'
<1> SUFFICES ASSUME TypeOK, [Next]_vars PROVE TypeOK'
  OBVIOUS
<1>1. CASE ReadSlots \/ ClaimNothing
  BY <1>1 DEF TypeOK, ReadSlots, ClaimNothing, daemon
<1>2. CASE Crash
  <2>1. Idle \in JanitorStates
    BY DEF Idle, JanitorStates, JanitorSteps
  <2>2. janitor' \in [Janitors -> JanitorStates]
    BY <1>2, <2>1 DEF TypeOK, Crash
  <2>3. crashes' \in 0..MaxCrashes
    BY <1>2, WorkspaceAssumption DEF TypeOK, Crash
  <2>4. worker' \in [Tasks -> WorkerSteps] /\ slots' = "unread" /\ up' \in BOOLEAN
    BY <1>2 DEF Crash, WorkerSteps
  <2> QED
    BY <1>2, <2>2, <2>3, <2>4 DEF TypeOK, Crash
<1>3. CASE Restart
  BY <1>3, WorkspaceAssumption DEF TypeOK, Restart, TaskStates
<1>4. CASE UNCHANGED vars
  BY <1>4 DEF TypeOK, vars, claims, daemon
<1> QED
  BY <1>1, <1>2, <1>3, <1>4, TypesTask, TypesJanitor DEF Next

\* Tasks, rows, directories and janitors keep their types, and no task exceeds its
\* recovery budget, for any tasks and limits.
THEOREM TypeCorrect == Spec => []TypeOK
<1> QED
  BY TypesInit, TypesNext, PTL DEF Spec

-------------------------------------------------------------------------------
\* The inductive invariant, one task at a time.  A worker exists only while its
\* daemon runs, for a running task whose row it has reserved; a janitor has only
\* ended tasks in hand, and what it is about to do is justified.
Justified(j, t) ==
    /\ janitor[j].at \in {"pend", "clean"} => task[t] = "succeeded" /\ ~tree[t].unpublished
    /\ janitor[j].at = "dispose" => t \notin Tickets
    /\ janitor[j].at \in {"confirm", "force"} => t \in confirmed
    /\ janitor[j].at = "close" => ~Exists(t)

TaskInv(t) ==
    /\ ~Terminal(t) => /\ row[t] \in {"none", "preparing", "ready"}
                       /\ \A j \in Janitors : janitor[j].task # t
    /\ Exists(t) => row[t] \notin {"none", "cleaned"}
    /\ worker[t] # "none" => /\ up /\ task[t] = "running"
                             /\ worker[t] # "claimed" => row[t] # "none"
    /\ reason[t] = "operator" => t \in confirmed
    /\ \A j \in Janitors : janitor[j].task = t => Justified(j, t)

IInv ==
    /\ TypeOK
    /\ slots # "unread" => up
    /\ \A t \in Tasks : TaskInv(t)

\* What a step leaves alone that concerns only the task t.
LocalTo(t) ==
    /\ \A u \in Tasks \ {t} :
         /\ task'[u] = task[u] /\ row'[u] = row[u] /\ reason'[u] = reason[u]
         /\ tree'[u] = tree[u] /\ worker'[u] = worker[u]
    /\ confirmed \subseteq confirmed'
    /\ up' = up
    /\ \A j \in Janitors : janitor'[j] = janitor[j] \/ janitor'[j].task \in {t, None}

LEMMA OtherTasks ==
    ASSUME IInv, NEW t \in Tasks, NEW u \in Tasks \ {t}, LocalTo(t)
    PROVE  TaskInv(u)'
<1>1. u # None
  BY WorkspaceAssumption
<1>2. \A j \in Janitors : janitor'[j].task = u => janitor'[j] = janitor[j]
  BY <1>1 DEF LocalTo
<1> QED
  BY <1>2 DEF IInv, TaskInv, LocalTo, Justified, Exists, Terminal

\* Where the janitors stand after one of them has started, moved or left.
LEMMA Started ==
    ASSUME TypeOK, NEW j \in Janitors, NEW step, NEW t, Start(j, step, t)
    PROVE  /\ janitor'[j].at = step /\ janitor'[j].task = t
           /\ \A i \in Janitors \ {j} : janitor'[i] = janitor[i]
BY DEF TypeOK, Start

LEMMA Moved ==
    ASSUME TypeOK, NEW j \in Janitors, NEW step, Goto(j, step)
    PROVE  /\ janitor'[j].at = step /\ janitor'[j].task = janitor[j].task
           /\ \A i \in Janitors \ {j} : janitor'[i] = janitor[i]
<1>1. janitor[j] \in JanitorStates /\ janitor'[j] = [janitor[j] EXCEPT !.at = step]
  BY DEF TypeOK, Goto
<1> QED
  BY <1>1 DEF TypeOK, Goto, JanitorStates

LEMMA Left ==
    ASSUME TypeOK, NEW j \in Janitors, Leave(j)
    PROVE  /\ janitor'[j].at = "idle" /\ janitor'[j].task = None
           /\ \A i \in Janitors \ {j} : janitor'[i] = janitor[i]
BY DEF TypeOK, Leave, Idle

LEMMA InvInit == Init => IInv
<1> SUFFICES ASSUME Init PROVE IInv
  OBVIOUS
<1>1. \A t \in Tasks, j \in Janitors : janitor[j].task # t
  BY WorkspaceAssumption DEF Init, Idle
<1> QED
  BY <1>1, TypesInit DEF Init, IInv, TaskInv, Exists, Terminal

\* Steps of workers and agents: no janitor has their task in hand.
LEMMA WorkerKeeps ==
    ASSUME IInv, NEW t \in Tasks, WorkerStep(t) \/ AgentWorks(t)
    PROVE  TaskInv(t)' /\ LocalTo(t)
<1> USE DEF IInv, TaskInv, LocalTo, TypeOK
<1>1. CASE Claim(t)
  BY <1>1 DEF Claim, Claimable, daemon, Terminal, Exists, Justified
<1>2. CASE Reserve(t)
  BY <1>2 DEF Reserve, daemon, Terminal, Exists, Justified
<1>3. CASE CreateTree(t)
  BY <1>3 DEF CreateTree, daemon, Terminal, Exists, Justified
<1>4. CASE PrepareFails(t)
  BY <1>4 DEF PrepareFails, FailPrelaunch, Requeue, daemon, Terminal, Exists, Justified
<1>5. CASE MarkReady(t)
  BY <1>5 DEF MarkReady, daemon, Terminal, Exists, Justified
<1>6. CASE Launch(t)
  BY <1>6 DEF Launch, daemon, Terminal, Exists, Justified
<1>7. CASE RunEnds(t)
  <2>1. CASE Start(t, "begin", t)
    <3>1. t \in Janitors
      BY DEF Janitors
    <3>2. /\ janitor'[t].at = "begin" /\ janitor'[t].task = t
          /\ \A i \in Janitors \ {t} : janitor'[i] = janitor[i]
      BY <2>1, <3>1, Started
    <3> QED
      BY <1>7, <3>1, <3>2 DEF RunEnds, Requeue, daemon, Terminal, Exists, Justified
  <2>2. CASE Requeue(t) /\ UNCHANGED janitor
    BY <1>7, <2>2 DEF RunEnds, Requeue, daemon, Terminal, Exists, Justified
  <2> QED
    BY <1>7, <2>1, <2>2 DEF RunEnds
<1>8. CASE AgentWorks(t)
  BY <1>8 DEF AgentWorks, LedgerKept, claims, daemon, Terminal, Exists, Justified
<1> QED
  BY <1>1, <1>2, <1>3, <1>4, <1>5, <1>6, <1>7, <1>8 DEF WorkerStep

\* A janitor or a person takes up a task.
LEMMA BeginningsKeep ==
    ASSUME IInv, NEW t \in Tasks,
           \/ TickFinalizes(t) \/ TickResumes(t) \/ OperatorBegins(t)
           \/ PersonEdits(t) \/ PersonWorks(t)
    PROVE  TaskInv(t)' /\ LocalTo(t)
<1>a. Tick \in Janitors /\ Operator \in Janitors
  BY DEF Janitors
<1> USE DEF IInv, TaskInv, LocalTo, TypeOK, LedgerKept, claims, daemon, Terminal, Exists, Justified
<1>1. CASE TickFinalizes(t)
  <2>1. /\ janitor'[Tick].at = "begin" /\ janitor'[Tick].task = t
        /\ \A i \in Janitors \ {Tick} : janitor'[i] = janitor[i]
    BY <1>1, <1>a, Started DEF TickFinalizes
  <2> QED
    BY <1>1, <1>a, <2>1 DEF TickFinalizes
<1>2. CASE TickResumes(t)
  <2>1. /\ janitor'[Tick].at = Resumption(t) /\ janitor'[Tick].task = t
        /\ \A i \in Janitors \ {Tick} : janitor'[i] = janitor[i]
    BY <1>2, <1>a, Started DEF TickResumes
  <2> QED
    BY <1>2, <1>a, <2>1 DEF TickResumes, Resumption
<1>3. CASE OperatorBegins(t)
  <2>1. /\ janitor'[Operator].at = "confirm" /\ janitor'[Operator].task = t
        /\ \A i \in Janitors \ {Operator} : janitor'[i] = janitor[i]
    BY <1>3, <1>a, Started DEF OperatorBegins
  <2> QED
    BY <1>3, <1>a, <2>1 DEF OperatorBegins
<1>4. CASE PersonEdits(t)
  <2>1. tree[t] \in Trees
    BY <1>4 DEF PersonEdits
  <2>2. [tree[t] EXCEPT !.dirty = TRUE].unpublished = tree[t].unpublished
    BY <2>1 DEF Trees
  <2>3. tree'[t].unpublished = tree[t].unpublished
    BY <1>4, <2>2 DEF PersonEdits
  <2> QED
    BY <1>4, <2>3 DEF PersonEdits
<1>5. CASE PersonWorks(t)
  BY <1>5 DEF PersonWorks
<1> QED
  BY <1>1, <1>2, <1>3, <1>4, <1>5

\* A janitor takes a step: its task has ended, so no worker is about.
LEMMA JanitorKeeps ==
    ASSUME IInv, NEW j \in Janitors, NEW t \in Tasks, JanitorStep(j, t)
    PROVE  TaskInv(t)' /\ LocalTo(t)
<1>a. t # None
  BY WorkspaceAssumption
<1>b. ASSUME NEW step, Goto(j, step)
      PROVE  /\ janitor'[j].at = step /\ janitor'[j].task = janitor[j].task
             /\ \A i \in Janitors \ {j} : janitor'[i] = janitor[i]
  BY <1>b, Moved DEF IInv
<1>c. ASSUME Leave(j)
      PROVE  /\ janitor'[j].at = "idle" /\ janitor'[j].task = None
             /\ \A i \in Janitors \ {j} : janitor'[i] = janitor[i]
  BY <1>c, Left DEF IInv
<1>d. ~Absent.unpublished
  BY DEF Absent
<1> USE <1>a, <1>b, <1>c, <1>d
        DEF IInv, TaskInv, LocalTo, TypeOK, LedgerKept, TreeKept, claims, daemon, SetRow, At,
            Terminal, Exists, Justified
<1>1. CASE Confirm(j, t)
  BY <1>1 DEF Confirm
<1>2. CASE Begin(j, t)
  BY <1>2 DEF Begin
<1>3. CASE Preview(j, t)
  BY <1>3 DEF Preview
<1>4. CASE Inspect(j, t)
  BY <1>4 DEF Inspect, Safe
<1>5. CASE Retain(j, t)
  BY <1>5 DEF Retain
<1>6. CASE Pend(j, t)
  BY <1>6 DEF Pend
<1>7. CASE Revalidate(j, t)
  BY <1>7 DEF Revalidate, Safe
<1>8. CASE RemoveTree(j, t)
  BY <1>8 DEF RemoveTree, Removes
<1>9. CASE RemoveFails(j, t)
  BY <1>9 DEF RemoveFails
<1>10. CASE Close(j, t)
  BY <1>10 DEF Close
<1> QED
  BY <1>1, <1>2, <1>3, <1>4, <1>5, <1>6, <1>7, <1>8, <1>9, <1>10 DEF JanitorStep

LEMMA InvNext == IInv /\ [Next]_vars => IInv'
<1> SUFFICES ASSUME IInv, [Next]_vars PROVE IInv'
  OBVIOUS
<1>0. TypeOK'
  BY TypesNext DEF IInv
<1>1. ASSUME NEW t \in Tasks, TaskInv(t)' /\ LocalTo(t), slots' = slots \/ slots' = "unread"
      PROVE  IInv'
  BY <1>0, <1>1, OtherTasks DEF IInv, LocalTo
<1>2. ASSUME NEW t \in Tasks, WorkerStep(t) \/ AgentWorks(t) PROVE IInv'
  <2>1. slots' = slots \/ slots' = "unread"
    BY <1>2 DEF WorkerStep, AgentWorks, Claim, Reserve, CreateTree, PrepareFails, FailPrelaunch,
                MarkReady, Launch, RunEnds, LedgerKept, claims
  <2> QED
    BY <1>1, <1>2, <2>1, WorkerKeeps
<1>3. ASSUME NEW t \in Tasks,
             \/ TickFinalizes(t) \/ TickResumes(t) \/ OperatorBegins(t)
             \/ PersonEdits(t) \/ PersonWorks(t)
      PROVE  IInv'
  <2>1. slots' = slots
    BY <1>3 DEF TickFinalizes, TickResumes, OperatorBegins, PersonEdits, PersonWorks,
                LedgerKept, claims
  <2> QED
    BY <1>1, <1>3, <2>1, BeginningsKeep
<1>4. ASSUME NEW t \in Tasks, NEW j \in Janitors, JanitorStep(j, t) PROVE IInv'
  <2>1. slots' = slots
    BY <1>4 DEF JanitorStep, Confirm, Begin, Preview, Inspect, Retain, Pend, Revalidate,
                RemoveTree, RemoveFails, Close, LedgerKept, TreeKept, claims
  <2> QED
    BY <1>1, <1>4, <2>1, JanitorKeeps
<1>5. CASE ReadSlots \/ ClaimNothing \/ UNCHANGED vars
  BY <1>0, <1>5 DEF ReadSlots, ClaimNothing, vars, claims, daemon, IInv, TaskInv, Terminal, Exists,
                    Justified
<1>6. CASE Crash
  <2>1. \A j \in Janitors : janitor'[j] = janitor[j] \/ janitor'[j].task = None
    BY <1>6 DEF Crash, Idle
  <2> QED
    BY <1>0, <1>6, <2>1, WorkspaceAssumption DEF Crash, IInv, TaskInv, Terminal, Exists, Justified
<1>7. CASE Restart
  <2>1. ASSUME NEW t \in Tasks PROVE TaskInv(t)'
    BY <1>7 DEF Restart, IInv, TypeOK, TaskInv, Terminal, Exists, Justified
  <2> QED
    BY <1>0, <1>7, <2>1 DEF Restart, IInv
<1> QED
  BY <1>2, <1>3, <1>4, <1>5, <1>6, <1>7 DEF Next

THEOREM Invariance == Spec => []IInv
<1> QED
  BY InvInit, InvNext, PTL DEF Spec

\* For any tasks and limits and through any crashes, a task that may still run is
\* neither retained nor in cleanup, and no janitor has it in hand.
THEOREM LiveTasksAreSafe == Spec => []LiveTasksKeepTheirWorkspace
<1>1. IInv => LiveTasksKeepTheirWorkspace
  BY DEF IInv, TaskInv, LiveTasksKeepTheirWorkspace
<1> QED
  BY <1>1, Invariance, PTL

\* No failure or crash leaves a directory behind that no row leads to.
THEOREM DirectoriesAreKnown == Spec => []NoOrphanDirectories
<1>1. IInv => NoOrphanDirectories
  BY DEF IInv, TaskInv, NoOrphanDirectories
<1> QED
  BY <1>1, Invariance, PTL

\* The directory of a ticket goes only by a janitor, and a janitor that is not
\* disposing of a proposal has the word of an operator or has found nothing unique.
THEOREM WorkSurvives == Spec => WorkIsNeverLost
<1>1. ASSUME IInv, [Next]_vars, NEW t \in Tickets, Exists(t), ~Exists(t)'
      PROVE  \/ t \in confirmed
             \/ task[t] = "succeeded" /\ ~tree[t].dirty /\ ~tree[t].unpublished
  <2>t. t \in Tasks
    BY WorkspaceAssumption
  <2>c. tree'[t] # tree[t] /\ tree'[t] = Absent
    BY <1>1 DEF Exists
  <2>1. CASE \E j \in Janitors, u \in Tasks : RemoveTree(j, u)
    <3>1. PICK j \in Janitors, u \in Tasks : RemoveTree(j, u)
      BY <2>1
    <3>2. u = t
      BY <1>1, <2>c, <2>t, <3>1 DEF RemoveTree, IInv, TypeOK
    <3> QED
      BY <1>1, <2>t, <3>1, <3>2 DEF RemoveTree, Removes, At, IInv, TaskInv, Justified
  <2>2. ASSUME NEW u \in Tasks, CreateTree(u) \/ AgentWorks(u) \/ PersonWorks(u)
        PROVE  FALSE
    <3>1. PICK w \in Trees : tree' = tree \/ tree' = [tree EXCEPT ![u] = w]
      <4>1. Fresh \in Trees
        BY DEF Fresh, Trees
      <4> QED
        BY <2>2, <4>1 DEF CreateTree, AgentWorks, PersonWorks
    <3> QED
      BY <1>1, <2>c, <2>t, <3>1, TreesExist DEF IInv, TypeOK
  <2>3. ASSUME NEW u \in Tasks, PersonEdits(u) PROVE FALSE
    <3>1. tree[u] \in Trees
      BY <1>1, <2>3 DEF PersonEdits, Exists, IInv, TypeOK
    <3>2. [tree[u] EXCEPT !.dirty = TRUE] \in Trees
      BY <3>1 DEF Trees
    <3> QED
      BY <1>1, <2>3, <2>c, <2>t, <3>2, TreesExist DEF PersonEdits, IInv, TypeOK
  <2>4. CASE UNCHANGED tree
    BY <2>4, <2>c
  <2>5. ASSUME NEW u \in Tasks, WorkerStep(u) PROVE CreateTree(u) \/ UNCHANGED tree
    BY <2>5 DEF WorkerStep, Claim, Reserve, PrepareFails, FailPrelaunch, MarkReady, Launch, RunEnds
  <2>6. ASSUME NEW u \in Tasks, NEW j \in Janitors, JanitorStep(j, u)
        PROVE  RemoveTree(j, u) \/ UNCHANGED tree
    BY <2>6 DEF JanitorStep, Confirm, Begin, Preview, Inspect, Retain, Pend, Revalidate,
                RemoveFails, Close, TreeKept
  <2>7. ASSUME NEW u \in Tasks, TickFinalizes(u) \/ TickResumes(u) \/ OperatorBegins(u)
        PROVE  UNCHANGED tree
    BY <2>7 DEF TickFinalizes, TickResumes, OperatorBegins
  <2>8. CASE ReadSlots \/ ClaimNothing \/ Crash \/ Restart \/ UNCHANGED vars
    BY <2>4, <2>8 DEF ReadSlots, ClaimNothing, Crash, Restart, vars
  <2> QED
    BY <1>1, <2>1, <2>2, <2>3, <2>4, <2>5, <2>6, <2>7, <2>8 DEF Next
<1>2. IInv /\ [Next]_vars => [RemovalsAreJustified]_vars
  BY <1>1 DEF RemovalsAreJustified
<1> QED
  BY <1>2, Invariance, PTL DEF Spec, WorkIsNeverLost

-------------------------------------------------------------------------------
\* The task queue.

\* What a step may do to a task and its count of attempts.
TaskMoves(t) ==
    \/ task'[t] = task[t] /\ attempt'[t] = attempt[t]
    \/ task[t] = "queued" /\ task'[t] = "running" /\ attempt'[t] = attempt[t]
    \/ /\ task[t] = "running" /\ task'[t] = "queued"
       /\ attempt[t] < MaxAttempts /\ attempt'[t] = attempt[t] + 1
    \/ task[t] = "running" /\ task'[t] \in {"succeeded", "failed"}

LEMMA RequeueMoves ==
    ASSUME TypeOK, NEW t \in Tasks, NEW u \in Tasks, Requeue(u), task[u] = "running"
    PROVE  TaskMoves(t)
  BY DEF TypeOK, Requeue, TaskMoves

LEMMA WorkerTaskMoves ==
    ASSUME IInv, NEW t \in Tasks, NEW u \in Tasks, WorkerStep(u)
    PROVE  TaskMoves(t)
<1>1. TypeOK /\ (worker[u] # "none" => task[u] = "running")
  BY DEF IInv, TaskInv
<1>2. CASE Claim(u)
  BY <1>1, <1>2 DEF Claim, Claimable, TaskMoves, TypeOK
<1>3. CASE PrepareFails(u)
  BY <1>1, <1>3, RequeueMoves DEF PrepareFails, FailPrelaunch
<1>4. CASE RunEnds(u)
  <2>1. CASE Requeue(u)
    BY <1>1, <1>4, <2>1, RequeueMoves DEF RunEnds
  <2>2. CASE attempt' = attempt /\ \E o \in {"succeeded", "failed"} : task' = [task EXCEPT ![u] = o]
    BY <1>1, <1>4, <2>2 DEF RunEnds, TaskMoves, TypeOK
  <2> QED
    BY <1>4, <2>1, <2>2 DEF RunEnds
<1>5. CASE Reserve(u) \/ CreateTree(u) \/ MarkReady(u) \/ Launch(u)
  BY <1>5 DEF Reserve, CreateTree, MarkReady, Launch, TaskMoves
<1> QED
  BY <1>2, <1>3, <1>4, <1>5 DEF WorkerStep

LEMMA TasksMove ==
    ASSUME IInv, [Next]_vars, NEW t \in Tasks
    PROVE  TaskMoves(t)
<1>1. CASE UNCHANGED <<task, attempt>>
  BY <1>1 DEF TaskMoves
<1>2. ASSUME NEW u \in Tasks,
             \/ AgentWorks(u) \/ TickFinalizes(u) \/ TickResumes(u) \/ OperatorBegins(u)
             \/ PersonEdits(u) \/ PersonWorks(u)
      PROVE  UNCHANGED <<task, attempt>>
  BY <1>2 DEF AgentWorks, TickFinalizes, TickResumes, OperatorBegins, PersonEdits, PersonWorks,
              LedgerKept, claims
<1>3. ASSUME NEW u \in Tasks, NEW j \in Janitors, JanitorStep(j, u)
      PROVE  UNCHANGED <<task, attempt>>
  BY <1>3 DEF JanitorStep, Confirm, Begin, Preview, Inspect, Retain, Pend, Revalidate,
              RemoveTree, RemoveFails, Close, LedgerKept, TreeKept, claims
<1>4. CASE ReadSlots \/ ClaimNothing \/ Crash \/ UNCHANGED vars
  BY <1>1, <1>4 DEF ReadSlots, ClaimNothing, Crash, vars, claims
<1>5. CASE Restart
  BY <1>5 DEF Restart, TaskMoves
<1> QED
  BY <1>1, <1>2, <1>3, <1>4, <1>5, WorkerTaskMoves DEF Next

LEMMA QueueStep ==
    ASSUME IInv, [Next]_vars, TypeOK'
    PROVE  [Queue!Next]_(Queue!vars)
<1> DEFINE spent(t) == IF Terminal(t) THEN 0 ELSE attempt[t]
<1>1. task' \in [Tasks -> Queue!Status]
  BY DEF TypeOK, TaskStates, Queue!Status
<1>2. \A t \in Tasks : attempt[t] \in 0 .. MaxAttempts /\ spent(t)' \in 0 .. MaxAttempts
  BY WorkspaceAssumption DEF IInv, TypeOK, Terminal
<1>3. ASSUME NEW t \in Tasks
      PROVE  \/ task'[t] = task[t] /\ spent(t)' = spent(t)
             \/ task[t] = "queued" /\ task'[t] = "running" /\ spent(t)' = spent(t)
             \/ /\ task[t] = "running" /\ task'[t] = "queued"
                /\ spent(t) < MaxAttempts /\ spent(t)' = spent(t) + 1
             \/ task[t] = "running" /\ task'[t] \in {"succeeded", "failed"} /\ spent(t)' = 0
  BY TasksMove DEF TaskMoves, Terminal
<1>4. ASSUME NEW t \in Tasks
      PROVE  \/ Queue!Stays(t) \/ Queue!Start(t) \/ Queue!Retry(t) \/ Queue!Conclude(t)
  BY <1>3 DEF Queue!Stays, Queue!Start, Queue!Retry, Queue!Conclude, Queue!Moves
<1> QED
  BY <1>1, <1>2, <1>4 DEF Queue!Next

\* Claims, failed preparations, ends of runs and recoveries move a task as the queue
\* promises; janitors, operators and people do not move it at all.
THEOREM WorkspaceTasksAreAQueue == Spec => ImplementsTaskQueue
<1>1. Init => Queue!Init
  BY DEF Init, Queue!Init, Queue!Status, Terminal
<1>2. IInv /\ [Next]_vars => [Queue!Next]_(Queue!vars)
  BY QueueStep, TypesNext DEF IInv
<1> QED
  BY <1>1, <1>2, Invariance, PTL DEF Spec, ImplementsTaskQueue, Queue!Spec
===============================================================================

--------------------------- MODULE TaskLedgerProofs ---------------------------
(***************************************************************************)
(* Proofs about TaskLedger for any number of tasks, daemons, runs and      *)
(* recovery attempts.                                                      *)
(***************************************************************************)
EXTENDS TaskLedger, SequenceTheorems, TLAPS

\* A function on an initial segment of the naturals is a sequence.
LEMMA FunctionIsSeq ==
    ASSUME NEW S, NEW n \in Nat, NEW f \in [1 .. n -> S]
    PROVE  f \in Seq(S) /\ Len(f) = n
<1>1. f \in Seq(S)
  BY SeqDef
<1>2. DOMAIN f = 1 .. n /\ DOMAIN f = 1 .. Len(f) /\ Len(f) \in Nat
  BY <1>1, LenProperties
<1> QED
  BY <1>1, <1>2

\* What closing row r does to well-typed tables.
LEMMA CloseTypes ==
    ASSUME TypeOK, NEW r \in RunIds, NEW o \in Outcomes \ {"running"},
           NEW requeue \in BOOLEAN, Close(r, o, requeue)
    PROVE  /\ runs' \in Seq(RunRow) /\ Len(runs') = Len(runs)
           /\ \A q \in RunIds : runs'[q] = IF q = r THEN [runs[r] EXCEPT !.outcome = o]
                                           ELSE runs[q]
           /\ taskState' \in [Tasks -> TaskStates]
           /\ recoverySource' \in [Tasks -> 0 .. Len(runs)]
<1> DEFINE row == [runs[r] EXCEPT !.outcome = o]
<1>0. runs \in Seq(RunRow) /\ runs[r] \in RunRow
  BY ElementOfSeq DEF TypeOK, RunIds
<1>1. runs \in Seq(RunRow) /\ runs[r] \in RunRow /\ runs[r].task \in Tasks
  BY <1>0 DEF RunRow
<1>2. row \in RunRow
  BY <1>1 DEF RunRow, Outcomes
<1>3. runs' = [runs EXCEPT ![r] = row]
  BY <1>1 DEF Close, RunIds
<1> HIDE DEF row
<1>4. /\ runs' \in Seq(RunRow) /\ Len(runs') = Len(runs)
      /\ \A q \in RunIds : runs'[q] = IF q = r THEN row ELSE runs[q]
  BY <1>1, <1>2, <1>3, ExceptSeq DEF RunIds
<1>5. taskState' \in [Tasks -> TaskStates]
  BY <1>1 DEF Close, TypeOK, TaskStates, Outcomes
<1>6. recoverySource' \in [Tasks -> 0 .. Len(runs)]
  BY <1>1 DEF Close, TypeOK, RunIds
<1> QED
  BY <1>4, <1>5, <1>6 DEF row

\* What a recovery does to well-typed tables.
LEMMA RecoverTypes ==
    ASSUME TypeOK, NEW d \in Daemons, RecoverOrphans(d)
    PROVE  /\ runs' \in Seq(RunRow) /\ Len(runs') = Len(runs)
           /\ \A q \in RunIds :
                runs'[q] = IF q \in Orphans(d)
                           THEN [runs[q] EXCEPT !.outcome = OrphanOutcome(runs[q])]
                           ELSE runs[q]
           /\ taskState' \in [Tasks -> TaskStates]
           /\ recoverySource' \in [Tasks -> 0 .. Len(runs)]
           /\ agents' \subseteq RunIds
<1> DEFINE row(q) == IF q \in Orphans(d)
                     THEN [runs[q] EXCEPT !.outcome = OrphanOutcome(runs[q])]
                     ELSE runs[q]
<1>1. Len(runs) \in Nat /\ \A q \in RunIds : runs[q] \in RunRow
  BY DEF TypeOK, RunIds
<1>2. \A q \in RunIds : row(q) \in RunRow
  BY <1>1 DEF RunRow, Outcomes, OrphanOutcome
<1>3. runs' = [q \in RunIds |-> row(q)]
  BY DEF RecoverOrphans
<1> HIDE DEF row
<1>4. runs' \in [1 .. Len(runs) -> RunRow]
  BY <1>2, <1>3 DEF RunIds
<1>5. /\ runs' \in Seq(RunRow) /\ Len(runs') = Len(runs)
      /\ \A q \in RunIds : runs'[q] = row(q)
  BY <1>1, <1>3, <1>4, FunctionIsSeq
<1>6. \A t \in Tasks : Interrupted(d, t) => OrphanOf(d, t) \in RunIds
  BY DEF Interrupted, OrphanOf, Orphans
<1>7. taskState' \in [Tasks -> TaskStates]
  BY DEF RecoverOrphans, TypeOK, TaskStates, OrphanTaskState
<1>8. recoverySource' \in [Tasks -> 0 .. Len(runs)]
  BY <1>1, <1>6 DEF RecoverOrphans, TypeOK, RunIds
<1>9. agents' \subseteq RunIds
  BY DEF RecoverOrphans, TypeOK
<1> QED
  BY <1>5, <1>7, <1>8, <1>9 DEF row

\* The type invariant holds initially.
LEMMA InitTypeOK == Init => TypeOK
BY DEF Init, TypeOK, TaskStates, LeaseStates, ProcStates, RunIds

\* Every step keeps the type invariant.
LEMMA NextTypeOK == TypeOK /\ [Next]_vars => TypeOK'
<1> SUFFICES ASSUME TypeOK, [Next]_vars PROVE TypeOK'
  OBVIOUS
<1> USE LedgerAssumption
<1>0. Len(runs) \in Nat /\ \A r \in RunIds : runs[r] \in RunRow
  BY ElementOfSeq, LenProperties DEF TypeOK, RunIds
<1>1. ASSUME NEW t \in Tasks, Enqueue(t) PROVE TypeOK'
  BY <1>1 DEF Enqueue, TypeOK, TaskStates, RunIds
<1>2. ASSUME NEW d \in Daemons, StartupRecovery(d) PROVE TypeOK'
  BY <1>2, RecoverTypes DEF StartupRecovery, TypeOK, RunIds, ProcStates
<1>3. ASSUME NEW d \in Daemons, Register(d) PROVE TypeOK'
  BY <1>3 DEF Register, TypeOK, RunIds, ProcStates, LeaseStates, tables
<1>4. ASSUME NEW d \in Daemons, RecoveryTick(d) PROVE TypeOK'
  BY <1>4, RecoverTypes DEF RecoveryTick, TypeOK, RunIds
<1>5. ASSUME NEW d \in Daemons, LeaseLapses(d) PROVE TypeOK'
  BY <1>5 DEF LeaseLapses, TypeOK, RunIds, LeaseStates, tables
<1>6. ASSUME NEW d \in Daemons, HeartbeatRejected(d) PROVE TypeOK'
  BY <1>6 DEF HeartbeatRejected, TypeOK, RunIds, ProcStates, tables
<1>7. ASSUME NEW d \in Daemons, StopRequested(d) PROVE TypeOK'
  BY <1>7 DEF StopRequested, TypeOK, RunIds, ProcStates, tables
<1>8. ASSUME NEW d \in Daemons, Exit(d) PROVE TypeOK'
  BY <1>8 DEF Exit, TypeOK, RunIds, ProcStates, LeaseStates, tables
<1>9. ASSUME NEW d \in Daemons, Crash(d) PROVE TypeOK'
  <2>1. worker' \in [1 .. Len(runs) -> WorkerStates]
    BY <1>9, <1>0, LenProperties DEF Crash, TypeOK, RunIds, WorkerStates
  <2>2. worker' \in Seq(WorkerStates) /\ Len(worker') = Len(runs)
    BY <2>1, <1>0, FunctionIsSeq
  <2> QED
    BY <1>9, <2>2 DEF Crash, TypeOK, RunIds, ProcStates, tables
<1>10. ASSUME NEW d \in Daemons, NEW t \in Tasks, Claim(d, t) PROVE TypeOK'
  <2>1. NewRun(d, t) \in RunRow
    BY <1>0 DEF NewRun, RunRow, Outcomes, TypeOK, RunIds
  <2>2. runs' \in Seq(RunRow) /\ Len(runs') = Len(runs) + 1
    BY <1>10, <2>1 DEF Claim, TypeOK
  <2>3. worker' \in Seq(WorkerStates) /\ Len(worker') = Len(runs) + 1
    BY <1>10 DEF Claim, TypeOK, WorkerStates
  <2>4. recoverySource' \in [Tasks -> 0 .. Len(runs')]
    BY <1>10, <2>2, <1>0 DEF Claim, TypeOK
  <2>5. taskState' \in [Tasks -> TaskStates]
    BY <1>10 DEF Claim, TypeOK, TaskStates
  <2>6. RunIds \subseteq RunIds'
    BY <2>2, <1>0 DEF RunIds
  <2> QED
    BY <1>10, <2>2, <2>3, <2>4, <2>5, <2>6 DEF Claim, TypeOK
<1>11. ASSUME NEW d \in Daemons, NEW t \in Tasks, RequestContinuation(d, t) PROVE TypeOK'
  <2>1. continued' \in [Sources -> Nat]
    BY <1>11 DEF RequestContinuation, TypeOK
  <2> QED
    BY <1>11, <2>1 DEF RequestContinuation, TypeOK, TaskStates, RunIds
<1>12. ASSUME NEW r \in RunIds, WorkerStep(r) PROVE TypeOK'
  <2>0. r \in 1 .. Len(worker) /\ worker \in Seq(WorkerStates)
    BY DEF TypeOK, RunIds
  <2>1. ASSUME NEW w \in WorkerStates
        PROVE  /\ [worker EXCEPT ![r] = w] \in Seq(WorkerStates)
               /\ Len([worker EXCEPT ![r] = w]) = Len(runs)
    BY <2>0, ExceptSeq DEF TypeOK
  <2>2. CASE Dispatch(r)
    BY <2>2, <2>1 DEF Dispatch, TypeOK, RunIds, WorkerStates, tables
  <2>3. CASE DispatchFails(r)
    BY <2>3, <2>1 DEF DispatchFails, TypeOK, RunIds, WorkerStates, ProcStates, tables
  <2>4. CASE PrelaunchFails(r)
    <3>1. Close(r, "failed", runs[r].attempt < MaxRecoveryAttempts)
      BY <2>4 DEF PrelaunchFails
    <3>2. /\ worker' \in Seq(WorkerStates) /\ Len(worker') = Len(runs)
          /\ resuming' \subseteq RunIds
          /\ UNCHANGED <<continued, lease, proc, agents>>
      BY <2>4, <2>1 DEF PrelaunchFails, Retire, WorkerStates, TypeOK
    <3>3. "failed" \in Outcomes \ {"running"} /\ (runs[r].attempt < MaxRecoveryAttempts) \in BOOLEAN
      BY DEF Outcomes
    <3>4. /\ runs' \in Seq(RunRow) /\ Len(runs') = Len(runs)
          /\ taskState' \in [Tasks -> TaskStates]
          /\ recoverySource' \in [Tasks -> 0 .. Len(runs)]
      BY <3>1, <3>3, CloseTypes
    <3> QED
      BY <3>2, <3>4 DEF TypeOK, RunIds
  <2>5. CASE Prepared(r)
    BY <2>5, <2>1 DEF Prepared, TypeOK, RunIds, WorkerStates, tables
  <2>6. CASE PersistAnchor(r) \/ SessionFallback(r)
    <3>1. PICK b \in BOOLEAN : runs' = [runs EXCEPT ![r] = [runs[r] EXCEPT !.anchored = b]]
      BY <2>6 DEF PersistAnchor, SessionFallback
    <3>2. [runs[r] EXCEPT !.anchored = b] \in RunRow
      BY <1>0 DEF RunRow
    <3>3. runs' \in Seq(RunRow) /\ Len(runs') = Len(runs)
      BY <3>1, <3>2, ExceptSeq DEF TypeOK, RunIds
    <3>4. /\ worker' \in Seq(WorkerStates) /\ Len(worker') = Len(runs)
          /\ resuming' \subseteq RunIds
          /\ UNCHANGED <<taskState, recoverySource, continued, lease, proc, agents>>
      BY <2>6, <2>1 DEF PersistAnchor, SessionFallback, WorkerStates, TypeOK
    <3> QED
      BY <3>3, <3>4 DEF TypeOK, RunIds
  <2>7. CASE SpawnAgent(r) \/ AgentExits(r)
    BY <2>7, <2>1 DEF SpawnAgent, AgentExits, TypeOK, RunIds, WorkerStates, tables
  <2>8. CASE Finish(r) \/ LaunchFails(r)
    <3>1. PICK outcome \in {"succeeded", "failed", "cancelled"}, allowed \in BOOLEAN :
               FinishWith(r, outcome, allowed)
      BY <2>8 DEF Finish, LaunchFails
    <3>2. PICK final \in Outcomes \ {"running"}, retry \in BOOLEAN : Close(r, final, retry)
      BY <3>1 DEF FinishWith, Outcomes
    <3>3. /\ worker' \in Seq(WorkerStates) /\ Len(worker') = Len(runs)
          /\ resuming' \subseteq RunIds
          /\ UNCHANGED <<continued, lease, proc, agents>>
      BY <3>1, <2>1 DEF FinishWith, Retire, WorkerStates, TypeOK
    <3>4. /\ runs' \in Seq(RunRow) /\ Len(runs') = Len(runs)
          /\ taskState' \in [Tasks -> TaskStates]
          /\ recoverySource' \in [Tasks -> 0 .. Len(runs)]
      BY <3>2, CloseTypes
    <3> QED
      BY <3>3, <3>4 DEF TypeOK, RunIds
  <2>9. CASE LateWriteRefused(r) \/ WriteLost(r)
    BY <2>9, <2>1 DEF LateWriteRefused, WriteLost, Retire, TypeOK, RunIds, WorkerStates, tables
  <2> QED
    BY <1>12, <2>2, <2>3, <2>4, <2>5, <2>6, <2>7, <2>8, <2>9 DEF WorkerStep
<1>13. ASSUME NEW r \in RunIds, RequestCancellation(r) PROVE TypeOK'
  <2>1. runs' = [runs EXCEPT ![r] = [runs[r] EXCEPT !.cancel = TRUE]]
    BY <1>13 DEF RequestCancellation
  <2>2. [runs[r] EXCEPT !.cancel = TRUE] \in RunRow
    BY <1>0 DEF RunRow
  <2>3. runs' \in Seq(RunRow) /\ Len(runs') = Len(runs)
    BY <2>1, <2>2, ExceptSeq DEF TypeOK, RunIds
  <2>4. UNCHANGED <<taskState, recoverySource, continued, lease, proc, worker, resuming, agents>>
    BY <1>13 DEF RequestCancellation
  <2> QED
    BY <2>3, <2>4 DEF TypeOK, RunIds
<1>14. ASSUME NEW r \in RunIds, UnsupervisedAgentExits(r) PROVE TypeOK'
  BY <1>14 DEF UnsupervisedAgentExits, TypeOK, RunIds, tables
<1>15. CASE UNCHANGED vars
  BY <1>15 DEF vars, tables, TypeOK, RunIds
<1> QED
  BY <1>1, <1>2, <1>3, <1>4, <1>5, <1>6, <1>7, <1>8, <1>9, <1>10, <1>11, <1>12, <1>13,
     <1>14, <1>15 DEF Next, DaemonStep

\* The tables, the processes and the workers always have their types, and every
\* reference to a run is to a row that exists.
THEOREM TypeCorrect == Spec => []TypeOK
BY InitTypeOK, NextTypeOK, PTL DEF Spec

-------------------------------------------------------------------------------
\* Rows are matched by what the two tables say of each other; a step that leaves
\* that alone keeps them in step.
LEMMA OpenRunsUntouched ==
    ASSUME OneOpenRunPerRunningTask, Len(runs') = Len(runs),
           \A t \in Tasks : (taskState'[t] = "running") <=> (taskState[t] = "running"),
           \A q \in RunIds : /\ runs'[q].task = runs[q].task
                             /\ runs'[q].outcome = runs[q].outcome
    PROVE  OneOpenRunPerRunningTask'
BY DEF OneOpenRunPerRunningTask, Running, RunIds

\* Closing the open run of a task takes the task out of the running state.
LEMMA CloseKeepsOpenRuns ==
    ASSUME TypeOK, OneOpenRunPerRunningTask, NEW r \in RunIds, Running(r),
           NEW o \in Outcomes \ {"running"}, NEW requeue \in BOOLEAN, Close(r, o, requeue)
    PROVE  OneOpenRunPerRunningTask'
<1>1. runs[r] \in RunRow /\ \A q \in RunIds : runs[q] \in RunRow
  BY ElementOfSeq DEF TypeOK, RunIds
<1>2. /\ Len(runs') = Len(runs)
      /\ \A q \in RunIds : runs'[q] = IF q = r THEN [runs[r] EXCEPT !.outcome = o] ELSE runs[q]
  BY CloseTypes
<1>3. \A q \in RunIds : /\ runs'[q].task = runs[q].task
                        /\ runs'[q].outcome = IF q = r THEN o ELSE runs[q].outcome
  BY <1>1, <1>2 DEF RunRow
<1>4. \A t \in Tasks : taskState'[t] = IF t = runs[r].task
                                       THEN (IF requeue THEN "queued" ELSE o) ELSE taskState[t]
  BY DEF Close, TypeOK
<1>5. taskState'[runs[r].task] # "running" /\ runs[r].task \in Tasks
  BY <1>1, <1>4 DEF RunRow, Outcomes
<1> QED
  BY <1>2, <1>3, <1>4, <1>5 DEF OneOpenRunPerRunningTask, Running, RunIds

\* A recovery closes the only open run of every task it takes out of running.
LEMMA RecoverKeepsOpenRuns ==
    ASSUME TypeOK, OneOpenRunPerRunningTask, NEW d \in Daemons, RecoverOrphans(d)
    PROVE  OneOpenRunPerRunningTask'
<1>1. \A q \in RunIds : runs[q] \in RunRow
  BY ElementOfSeq DEF TypeOK, RunIds
<1>2. /\ Len(runs') = Len(runs)
      /\ \A q \in RunIds :
           runs'[q] = IF q \in Orphans(d)
                      THEN [runs[q] EXCEPT !.outcome = OrphanOutcome(runs[q])] ELSE runs[q]
  BY RecoverTypes
<1>3. \A q \in RunIds :
        /\ runs'[q].task = runs[q].task
        /\ runs'[q].outcome = IF q \in Orphans(d) THEN OrphanOutcome(runs[q]) ELSE runs[q].outcome
  BY <1>1, <1>2 DEF RunRow
<1>4. \A q \in RunIds : OrphanOutcome(runs[q]) # "running"
  BY DEF OrphanOutcome
<1>5. \A t \in Tasks : IF Interrupted(d, t) THEN taskState'[t] # "running"
                                           ELSE taskState'[t] = taskState[t]
  BY DEF RecoverOrphans, OrphanTaskState
<1>6. \A q \in Orphans(d) : q \in RunIds /\ Running(q) /\ Interrupted(d, runs[q].task)
                            /\ runs[q].task \in Tasks
  BY <1>1 DEF Orphans, Interrupted, OneOpenRunPerRunningTask, RunRow
<1>7. \A q \in RunIds : (runs'[q].outcome = "running") <=> (Running(q) /\ q \notin Orphans(d))
  BY <1>3, <1>4 DEF Running
<1>8. \A q \in RunIds : Running(q) /\ q \notin Orphans(d) => ~Interrupted(d, runs[q].task)
  BY <1>6 DEF Interrupted, OneOpenRunPerRunningTask
<1>9. ASSUME NEW t \in Tasks
      PROVE  (taskState'[t] = "running")
               <=> (\E q \in RunIds : runs'[q].task = t /\ runs'[q].outcome = "running")
  <2>1. CASE Interrupted(d, t)
    BY <2>1, <1>3, <1>5, <1>7, <1>8
  <2>2. CASE ~Interrupted(d, t)
    <3>1. taskState'[t] = taskState[t]
      BY <2>2, <1>5
    <3>2. \A q \in RunIds : runs[q].task = t /\ Running(q) => q \notin Orphans(d)
      BY <2>2, <1>6
    <3> QED
      BY <3>1, <3>2, <1>3, <1>7 DEF OneOpenRunPerRunningTask
  <2> QED
    BY <2>1, <2>2
<1>10. \A r, q \in RunIds : (/\ runs'[r].outcome = "running" /\ runs'[q].outcome = "running"
                             /\ runs'[r].task = runs'[q].task) => r = q
  BY <1>3, <1>7 DEF OneOpenRunPerRunningTask
<1> QED
  BY <1>2, <1>9, <1>10 DEF OneOpenRunPerRunningTask, Running, RunIds

\* Every step keeps tasks and runs in step.
LEMMA NextOpenRuns ==
    TypeOK /\ OneOpenRunPerRunningTask /\ [Next]_vars => OneOpenRunPerRunningTask'
<1> SUFFICES ASSUME TypeOK, OneOpenRunPerRunningTask, [Next]_vars
             PROVE  OneOpenRunPerRunningTask'
  OBVIOUS
<1>0. Len(runs) \in Nat /\ runs \in Seq(RunRow) /\ \A r \in RunIds : runs[r] \in RunRow
  BY ElementOfSeq, LenProperties DEF TypeOK, RunIds
<1>1. ASSUME NEW t \in Tasks, Enqueue(t) PROVE OneOpenRunPerRunningTask'
  <2>1. runs' = runs /\ \A u \in Tasks : (taskState'[u] = "running") <=> (taskState[u] = "running")
    BY <1>1 DEF Enqueue, TypeOK
  <2> QED
    BY <2>1, OpenRunsUntouched
<1>2. ASSUME NEW d \in Daemons, NEW t \in Tasks, RequestContinuation(d, t)
      PROVE  OneOpenRunPerRunningTask'
  <2>1. runs' = runs /\ \A u \in Tasks : (taskState'[u] = "running") <=> (taskState[u] = "running")
    BY <1>2 DEF RequestContinuation, TypeOK
  <2> QED
    BY <2>1, OpenRunsUntouched
<1>3. ASSUME NEW d \in Daemons, StartupRecovery(d) \/ RecoveryTick(d)
      PROVE  OneOpenRunPerRunningTask'
  BY <1>3, RecoverKeepsOpenRuns DEF StartupRecovery, RecoveryTick
<1>4. ASSUME NEW d \in Daemons, NEW t \in Tasks, Claim(d, t) PROVE OneOpenRunPerRunningTask'
  <2>1. NewRun(d, t).task = t /\ NewRun(d, t).outcome = "running"
    BY DEF NewRun
  <2>2. /\ Len(runs') = Len(runs) + 1
        /\ runs'[Len(runs) + 1] = NewRun(d, t)
        /\ \A q \in RunIds : runs'[q] = runs[q]
    BY <1>4, <1>0 DEF Claim, RunIds
  <2>3. RunIds' = RunIds \cup {Len(runs) + 1}
    BY <2>2, <1>0 DEF RunIds
  <2>4. \A q \in RunIds : runs[q].task = t => ~Running(q)
    BY <1>4 DEF Claim, Claimable, OneOpenRunPerRunningTask
  <2>5. \A u \in Tasks : taskState'[u] = IF u = t THEN "running" ELSE taskState[u]
    BY <1>4 DEF Claim, TypeOK
  <2>6. \A q \in RunIds : /\ runs'[q].task = runs[q].task
                          /\ (runs'[q].outcome = "running") <=> Running(q)
    BY <2>2 DEF Running
  <2>7. runs'[Len(runs) + 1].outcome = "running" /\ runs'[Len(runs) + 1].task = t
    BY <2>1, <2>2
  <2>8. \A u \in Tasks : (taskState'[u] = "running")
          <=> (\E q \in RunIds' : runs'[q].task = u /\ runs'[q].outcome = "running")
    BY <2>3, <2>4, <2>5, <2>6, <2>7 DEF OneOpenRunPerRunningTask
  <2>9. \A p, q \in RunIds' : (/\ runs'[p].outcome = "running" /\ runs'[q].outcome = "running"
                               /\ runs'[p].task = runs'[q].task) => p = q
    BY <2>3, <2>4, <2>6, <2>7 DEF OneOpenRunPerRunningTask
  <2> QED
    BY <2>8, <2>9 DEF OneOpenRunPerRunningTask, Running
<1>5. ASSUME NEW r \in RunIds, PrelaunchFails(r) PROVE OneOpenRunPerRunningTask'
  <2>1. /\ Running(r) /\ Close(r, "failed", runs[r].attempt < MaxRecoveryAttempts)
        /\ "failed" \in Outcomes \ {"running"} /\ (runs[r].attempt < MaxRecoveryAttempts) \in BOOLEAN
    BY <1>5 DEF PrelaunchFails, Outcomes
  <2> QED
    BY <2>1, CloseKeepsOpenRuns
<1>6. ASSUME NEW r \in RunIds, Finish(r) \/ LaunchFails(r) PROVE OneOpenRunPerRunningTask'
  <2>1. PICK outcome \in {"succeeded", "failed", "cancelled"}, allowed \in BOOLEAN :
             FinishWith(r, outcome, allowed)
    BY <1>6 DEF Finish, LaunchFails
  <2>2. PICK final \in Outcomes \ {"running"}, retry \in BOOLEAN :
             Running(r) /\ Close(r, final, retry)
    BY <2>1 DEF FinishWith, Outcomes
  <2> QED
    BY <2>2, CloseKeepsOpenRuns
<1>7. ASSUME NEW r \in RunIds, PersistAnchor(r) \/ SessionFallback(r)
      PROVE  OneOpenRunPerRunningTask'
  <2>1. PICK b \in BOOLEAN : runs' = [runs EXCEPT ![r] = [runs[r] EXCEPT !.anchored = b]]
    BY <1>7 DEF PersistAnchor, SessionFallback
  <2>2. [runs[r] EXCEPT !.anchored = b] \in RunRow
    BY <1>0 DEF RunRow
  <2>3. /\ Len(runs') = Len(runs)
        /\ \A q \in RunIds : runs'[q] = IF q = r THEN [runs[r] EXCEPT !.anchored = b] ELSE runs[q]
    BY <2>1, <2>2, <1>0, ExceptSeq DEF RunIds
  <2>4. \A q \in RunIds : runs'[q].task = runs[q].task /\ runs'[q].outcome = runs[q].outcome
    BY <2>3, <1>0 DEF RunRow
  <2>5. taskState' = taskState
    BY <1>7 DEF PersistAnchor, SessionFallback
  <2> QED
    BY <2>3, <2>4, <2>5, OpenRunsUntouched
<1>8. ASSUME NEW r \in RunIds, RequestCancellation(r) PROVE OneOpenRunPerRunningTask'
  <2>1. runs' = [runs EXCEPT ![r] = [runs[r] EXCEPT !.cancel = TRUE]] /\ taskState' = taskState
    BY <1>8 DEF RequestCancellation
  <2>2. [runs[r] EXCEPT !.cancel = TRUE] \in RunRow
    BY <1>0 DEF RunRow
  <2>3. /\ Len(runs') = Len(runs)
        /\ \A q \in RunIds : runs'[q] = IF q = r THEN [runs[r] EXCEPT !.cancel = TRUE] ELSE runs[q]
    BY <2>1, <2>2, <1>0, ExceptSeq DEF RunIds
  <2>4. \A q \in RunIds : runs'[q].task = runs[q].task /\ runs'[q].outcome = runs[q].outcome
    BY <2>3, <1>0 DEF RunRow
  <2> QED
    BY <2>1, <2>3, <2>4, OpenRunsUntouched
<1>9. CASE UNCHANGED <<taskState, runs>>
  BY <1>9, OpenRunsUntouched
<1>10. ASSUME NEW d \in Daemons, \/ Register(d) \/ LeaseLapses(d) \/ HeartbeatRejected(d)
                                 \/ StopRequested(d) \/ Exit(d) \/ Crash(d)
       PROVE  UNCHANGED <<taskState, runs>>
  BY <1>10 DEF Register, LeaseLapses, HeartbeatRejected, StopRequested, Exit, Crash, tables
<1>11. ASSUME NEW r \in RunIds, \/ Dispatch(r) \/ DispatchFails(r) \/ Prepared(r) \/ SpawnAgent(r)
                                \/ AgentExits(r) \/ LateWriteRefused(r) \/ WriteLost(r)
                                \/ UnsupervisedAgentExits(r)
       PROVE  UNCHANGED <<taskState, runs>>
  BY <1>11 DEF Dispatch, DispatchFails, Prepared, SpawnAgent, AgentExits, LateWriteRefused,
               WriteLost, UnsupervisedAgentExits, tables
<1>12. CASE UNCHANGED vars
  BY <1>12, <1>9 DEF vars, tables
<1> QED
  BY <1>1, <1>2, <1>3, <1>4, <1>5, <1>6, <1>7, <1>8, <1>9, <1>10, <1>11, <1>12
     DEF Next, DaemonStep, WorkerStep

\* A task is running exactly while one run of it is open, and one only.
THEOREM OneOpenRun == Spec => []OneOpenRunPerRunningTask
<1>1. Init => OneOpenRunPerRunningTask
  BY DEF Init, OneOpenRunPerRunningTask, RunIds
<1> QED
  BY <1>1, NextOpenRuns, TypeCorrect, PTL DEF Spec
--------------------------------------------------------------------------------
\* What happens to the runs: who may change and close them, what their agents may
\* outlive, how recoveries chain, and that all of it together is the task queue of
\* TaskQueue.

\* A step edits one field of an open row that is not its outcome.
Edits(r) ==
    /\ Running(r)
    /\ \/ \E b \in BOOLEAN : runs' = [runs EXCEPT ![r].anchored = b]
       \/ runs' = [runs EXCEPT ![r].cancel = TRUE]

\* The worker of a run closes it.
WorkerCloses(r) == PrelaunchFails(r) \/ Finish(r) \/ LaunchFails(r)

LEMMA RowTypes ==
    ASSUME TypeOK
    PROVE  /\ Len(runs) \in Nat /\ runs \in Seq(RunRow)
           /\ \A r \in RunIds : /\ runs[r] \in RunRow /\ runs[r].task \in Tasks
                                /\ runs[r].owner \in Daemons /\ runs[r].attempt \in Nat
                                /\ runs[r].recoveryOf \in Nat
                                /\ worker[r] \in WorkerStates
<1>1. Len(runs) \in Nat /\ runs \in Seq(RunRow) /\ \A r \in RunIds : runs[r] \in RunRow
  BY ElementOfSeq, LenProperties DEF TypeOK, RunIds
<1>2. \A r \in RunIds : worker[r] \in WorkerStates
  BY ElementOfSeq DEF TypeOK, RunIds
<1> QED
  BY <1>1, <1>2 DEF RunRow

\* The ways in which a step touches the table of runs.
LEMMA RunsStep ==
    ASSUME TypeOK, [Next]_vars
    PROVE  \/ UNCHANGED runs
           \/ \E d \in Daemons, t \in Tasks : Claim(d, t)
           \/ \E d \in Daemons : RecoverOrphans(d)
           \/ \E r \in RunIds : WorkerCloses(r)
           \/ \E r \in RunIds : Edits(r)
<1>1. ASSUME NEW d \in Daemons, DaemonStep(d)
      PROVE  \/ UNCHANGED runs
             \/ \E t \in Tasks : Claim(d, t)
             \/ RecoverOrphans(d)
  BY <1>1 DEF DaemonStep, StartupRecovery, Register, RecoveryTick, LeaseLapses,
              HeartbeatRejected, StopRequested, Exit, Crash, RequestContinuation, tables
<1>2. ASSUME NEW r \in RunIds, WorkerStep(r)
      PROVE  UNCHANGED runs \/ WorkerCloses(r) \/ Edits(r)
  <2>1. CASE PersistAnchor(r) \/ SessionFallback(r)
    BY <2>1 DEF PersistAnchor, SessionFallback, Edits
  <2> QED
    BY <1>2, <2>1 DEF WorkerStep, Dispatch, DispatchFails, Prepared, SpawnAgent, AgentExits,
                      LateWriteRefused, WriteLost, WorkerCloses, tables
<1>3. ASSUME NEW r \in RunIds, RequestCancellation(r) PROVE Edits(r)
  BY <1>3 DEF RequestCancellation, Edits
<1>4. ASSUME NEW r \in RunIds, UnsupervisedAgentExits(r) PROVE UNCHANGED runs
  BY <1>4 DEF UnsupervisedAgentExits, tables
<1>5. ASSUME NEW t \in Tasks, Enqueue(t) PROVE UNCHANGED runs
  BY <1>5 DEF Enqueue
<1> QED
  BY <1>1, <1>2, <1>3, <1>4, <1>5 DEF Next, vars, tables

\* An edit leaves everything else of the row, and every other row, alone.
LEMMA EditFacts ==
    ASSUME TypeOK, NEW r \in RunIds, Edits(r)
    PROVE  /\ Len(runs') = Len(runs)
           /\ \A q \in RunIds :
                /\ q # r => runs'[q] = runs[q]
                /\ runs'[q].task = runs[q].task /\ runs'[q].owner = runs[q].owner
                /\ runs'[q].outcome = runs[q].outcome /\ runs'[q].attempt = runs[q].attempt
                /\ runs'[q].recoveryOf = runs[q].recoveryOf
<1>1. runs[r] \in RunRow /\ runs \in Seq(RunRow)
  BY RowTypes
<1>2. PICK row \in RunRow :
        /\ runs' = [runs EXCEPT ![r] = row]
        /\ row.task = runs[r].task /\ row.owner = runs[r].owner
        /\ row.outcome = runs[r].outcome /\ row.attempt = runs[r].attempt
        /\ row.recoveryOf = runs[r].recoveryOf
  <2>1. CASE \E b \in BOOLEAN : runs' = [runs EXCEPT ![r].anchored = b]
    <3>1. PICK b \in BOOLEAN : runs' = [runs EXCEPT ![r] = [runs[r] EXCEPT !.anchored = b]]
      BY <2>1
    <3>2. [runs[r] EXCEPT !.anchored = b] \in RunRow
      BY <1>1 DEF RunRow
    <3> QED
      BY <1>1, <3>1, <3>2 DEF RunRow
  <2>2. CASE runs' = [runs EXCEPT ![r].cancel = TRUE]
    <3>1. runs' = [runs EXCEPT ![r] = [runs[r] EXCEPT !.cancel = TRUE]]
      BY <2>2
    <3>2. [runs[r] EXCEPT !.cancel = TRUE] \in RunRow
      BY <1>1 DEF RunRow
    <3> QED
      BY <1>1, <3>1, <3>2 DEF RunRow
  <2> QED
    BY <2>1, <2>2 DEF Edits
<1>3. Len(runs') = Len(runs) /\ \A q \in RunIds : runs'[q] = IF q = r THEN row ELSE runs[q]
  BY <1>1, <1>2, ExceptSeq DEF RunIds
<1> QED
  BY <1>2, <1>3

\* A claim appends its row.
LEMMA ClaimFacts ==
    ASSUME TypeOK, NEW d \in Daemons, NEW t \in Tasks, Claim(d, t)
    PROVE  /\ Len(runs') = Len(runs) + 1
           /\ runs'[Len(runs) + 1] = NewRun(d, t)
           /\ worker'[Len(runs) + 1] = "claimed"
           /\ \A q \in RunIds : runs'[q] = runs[q] /\ worker'[q] = worker[q]
           /\ RunIds' = RunIds \cup {Len(runs) + 1}
<1>1. Len(runs) \in Nat /\ runs \in Seq(RunRow) /\ worker \in Seq(WorkerStates)
      /\ Len(worker) = Len(runs)
  BY RowTypes DEF TypeOK
<1>2. runs' = Append(runs, NewRun(d, t)) /\ worker' = Append(worker, "claimed")
  BY DEF Claim
<1>3. Len(runs') = Len(runs) + 1
  BY <1>1, <1>2
<1> QED
  BY <1>1, <1>2, <1>3 DEF RunIds

\* A worker that closes its row writes one final outcome and is gone.
LEMMA CloseFacts ==
    ASSUME TypeOK, NEW r \in RunIds, WorkerCloses(r)
    PROVE  /\ Running(r) /\ worker[r] \notin {"claimed", "supervising", "gone"}
           /\ Retire(r) /\ UNCHANGED <<continued, lease, proc, agents>>
           /\ \E o \in Outcomes \ {"running"}, requeue \in BOOLEAN :
                /\ Close(r, o, requeue)
                /\ requeue => o = "failed" /\ runs[r].attempt < MaxRecoveryAttempts
                /\ runs[r].cancel /\ worker[r] # "prelaunch" => o = "cancelled"
<1>1. CASE PrelaunchFails(r)
  <2> DEFINE requeue == runs[r].attempt < MaxRecoveryAttempts
  <2>1. /\ Running(r) /\ worker[r] = "prelaunch" /\ Close(r, "failed", requeue) /\ Retire(r)
        /\ UNCHANGED <<continued, lease, proc, agents>>
    BY <1>1 DEF PrelaunchFails
  <2>2. requeue \in BOOLEAN /\ "failed" \in Outcomes \ {"running"}
        /\ (requeue => runs[r].attempt < MaxRecoveryAttempts)
    BY DEF Outcomes
  <2> HIDE DEF requeue
  <2> QED
    BY <2>1, <2>2
<1>2. CASE Finish(r) \/ LaunchFails(r)
  <2>1. PICK outcome \in {"succeeded", "failed", "cancelled"}, allowed \in BOOLEAN :
             FinishWith(r, outcome, allowed)
    BY <1>2 DEF Finish, LaunchFails
  <2>2. worker[r] \notin {"claimed", "supervising", "gone"}
    BY <1>2 DEF Finish, LaunchFails
  <2> DEFINE final == IF runs[r].cancel THEN "cancelled" ELSE outcome
             retry == /\ allowed /\ final = "failed"
                      /\ runs[r].anchored /\ runs[r].attempt < MaxRecoveryAttempts
  <2>3. Running(r) /\ Close(r, final, retry) /\ Retire(r)
        /\ UNCHANGED <<continued, lease, proc, agents>>
    BY <2>1 DEF FinishWith
  <2>4. final \in Outcomes \ {"running"} /\ retry \in BOOLEAN
    BY DEF Outcomes
  <2>5. /\ retry => final = "failed" /\ runs[r].attempt < MaxRecoveryAttempts
        /\ runs[r].cancel => final = "cancelled"
    OBVIOUS
  <2> HIDE DEF final, retry
  <2> QED
    BY <2>2, <2>3, <2>4, <2>5
<1> QED
  BY <1>1, <1>2 DEF WorkerCloses

\* What a step that closes row r does to it; o is the outcome.
ClosesAs(r, o) ==
    /\ Len(runs') = Len(runs)
    /\ runs'[r].outcome = o
    /\ \A q \in RunIds : q # r => runs'[q] = runs[q]

LEMMA ClosedRow ==
    ASSUME TypeOK, NEW r \in RunIds, NEW o \in Outcomes \ {"running"},
           NEW requeue \in BOOLEAN, Close(r, o, requeue)
    PROVE  /\ ClosesAs(r, o)
           /\ runs'[r].task = runs[r].task /\ runs'[r].owner = runs[r].owner
           /\ runs'[r].attempt = runs[r].attempt /\ runs'[r].recoveryOf = runs[r].recoveryOf
<1>1. Len(runs') = Len(runs)
      /\ \A q \in RunIds : runs'[q] = IF q = r THEN [runs[r] EXCEPT !.outcome = o] ELSE runs[q]
  BY CloseTypes
<1>2. runs[r] \in RunRow
  BY RowTypes
<1> QED
  BY <1>1, <1>2 DEF RunRow, ClosesAs

LEMMA RecoveredRows ==
    ASSUME TypeOK, NEW d \in Daemons, RecoverOrphans(d)
    PROVE  /\ Len(runs') = Len(runs)
           /\ \A q \in RunIds :
                /\ q \notin Orphans(d) => runs'[q] = runs[q]
                /\ q \in Orphans(d) => runs'[q].outcome = OrphanOutcome(runs[q])
                /\ runs'[q].task = runs[q].task /\ runs'[q].owner = runs[q].owner
                /\ runs'[q].attempt = runs[q].attempt /\ runs'[q].recoveryOf = runs[q].recoveryOf
<1>1. Len(runs') = Len(runs)
      /\ \A q \in RunIds :
            runs'[q] = IF q \in Orphans(d)
                       THEN [runs[q] EXCEPT !.outcome = OrphanOutcome(runs[q])] ELSE runs[q]
  BY RecoverTypes
<1>2. \A q \in RunIds : runs[q] \in RunRow
  BY RowTypes
<1> QED
  BY <1>1, <1>2 DEF RunRow

\* Rows are only added; what identifies a row never changes, and a closed row
\* does not change at all.
LEMMA RowsKept ==
    ASSUME TypeOK, [Next]_vars, NEW r \in RunIds
    PROVE  /\ r \in RunIds'
           /\ runs'[r].task = runs[r].task /\ runs'[r].owner = runs[r].owner
           /\ runs'[r].attempt = runs[r].attempt /\ runs'[r].recoveryOf = runs[r].recoveryOf
           /\ ~Running(r) => runs'[r] = runs[r]
<1>1. CASE UNCHANGED runs
  BY <1>1 DEF RunIds
<1>2. ASSUME NEW d \in Daemons, NEW t \in Tasks, Claim(d, t)
      PROVE  r \in RunIds' /\ runs'[r] = runs[r]
  BY <1>2, ClaimFacts
<1>3. ASSUME NEW d \in Daemons, RecoverOrphans(d)
      PROVE  /\ Len(runs') = Len(runs)
             /\ runs'[r].task = runs[r].task /\ runs'[r].owner = runs[r].owner
             /\ runs'[r].attempt = runs[r].attempt /\ runs'[r].recoveryOf = runs[r].recoveryOf
             /\ ~Running(r) => runs'[r] = runs[r]
  BY <1>3, RecoveredRows DEF Orphans
<1>4. ASSUME NEW q \in RunIds, WorkerCloses(q)
      PROVE  /\ Len(runs') = Len(runs)
             /\ runs'[r].task = runs[r].task /\ runs'[r].owner = runs[r].owner
             /\ runs'[r].attempt = runs[r].attempt /\ runs'[r].recoveryOf = runs[r].recoveryOf
             /\ ~Running(r) => runs'[r] = runs[r]
  <2>1. PICK o \in Outcomes \ {"running"}, requeue \in BOOLEAN : Running(q) /\ Close(q, o, requeue)
    BY <1>4, CloseFacts
  <2> QED
    BY <2>1, ClosedRow DEF ClosesAs
<1>5. ASSUME NEW q \in RunIds, Edits(q)
      PROVE  /\ Len(runs') = Len(runs)
             /\ runs'[r].task = runs[r].task /\ runs'[r].owner = runs[r].owner
             /\ runs'[r].attempt = runs[r].attempt /\ runs'[r].recoveryOf = runs[r].recoveryOf
             /\ ~Running(r) => runs'[r] = runs[r]
  BY <1>5, EditFacts DEF Edits
<1> QED
  BY <1>1, <1>2, <1>3, <1>4, <1>5, RunsStep DEF RunIds

\* Only a recovery and the run's own worker close a run.
LEMMA WhoCloses ==
    ASSUME TypeOK, [Next]_vars, NEW r \in RunIds, Running(r), runs'[r].outcome # "running"
    PROVE  \/ \E d \in Daemons : RecoverOrphans(d) /\ r \in Orphans(d)
           \/ WorkerCloses(r)
<1>1. ~ UNCHANGED runs
  BY DEF Running
<1>2. ASSUME NEW d \in Daemons, NEW t \in Tasks, Claim(d, t) PROVE FALSE
  BY <1>2, ClaimFacts DEF Running
<1>3. ASSUME NEW d \in Daemons, RecoverOrphans(d) PROVE r \in Orphans(d)
  BY <1>3, RecoveredRows DEF Running
<1>4. ASSUME NEW q \in RunIds, WorkerCloses(q) PROVE q = r
  <2>1. PICK o \in Outcomes \ {"running"}, requeue \in BOOLEAN : Close(q, o, requeue)
    BY <1>4, CloseFacts
  <2> QED
    BY <2>1, ClosedRow DEF ClosesAs, Running
<1>5. ASSUME NEW q \in RunIds, Edits(q) PROVE FALSE
  BY <1>5, EditFacts DEF Running
<1> QED
  BY <1>1, <1>2, <1>3, <1>4, <1>5, RunsStep

--------------------------------------------------------------------------------
\* Tasks of one ticket.

\* Only a claim makes a task running.
LEMMA OnlyClaimsRun ==
    ASSUME TypeOK, [Next]_vars
    PROVE  \/ \A t \in Tasks : taskState'[t] = "running" => taskState[t] = "running"
           \/ \E d \in Daemons, t \in Tasks :
                Claimable(d, t) /\ taskState' = [taskState EXCEPT ![t] = "running"]
<1> DEFINE Fewer == \A t \in Tasks : taskState'[t] = "running" => taskState[t] = "running"
<1>1. ASSUME NEW d \in Daemons, RecoverOrphans(d) PROVE Fewer
  BY <1>1 DEF RecoverOrphans, OrphanTaskState
<1>2. ASSUME NEW r \in RunIds, WorkerCloses(r) PROVE Fewer
  <2>1. PICK o \in Outcomes \ {"running"}, requeue \in BOOLEAN : Close(r, o, requeue)
    BY <1>2, CloseFacts
  <2> QED
    BY <2>1 DEF Close, TypeOK
<1>3. ASSUME NEW t \in Tasks, Enqueue(t) PROVE Fewer
  BY <1>3 DEF Enqueue, TypeOK
<1>4. ASSUME NEW d \in Daemons, NEW t \in Tasks, RequestContinuation(d, t) PROVE Fewer
  BY <1>4 DEF RequestContinuation, TypeOK
<1>5. ASSUME NEW d \in Daemons, NEW t \in Tasks, Claim(d, t)
      PROVE  Claimable(d, t) /\ taskState' = [taskState EXCEPT ![t] = "running"]
  BY <1>5 DEF Claim
<1>6. ASSUME NEW d \in Daemons, \/ Register(d) \/ LeaseLapses(d) \/ HeartbeatRejected(d)
                                \/ StopRequested(d) \/ Exit(d) \/ Crash(d)
      PROVE  UNCHANGED taskState
  BY <1>6 DEF Register, LeaseLapses, HeartbeatRejected, StopRequested, Exit, Crash, tables
<1>7. ASSUME NEW r \in RunIds, \/ Dispatch(r) \/ DispatchFails(r) \/ Prepared(r) \/ SpawnAgent(r)
                               \/ PersistAnchor(r) \/ SessionFallback(r) \/ AgentExits(r)
                               \/ LateWriteRefused(r) \/ WriteLost(r)
                               \/ RequestCancellation(r) \/ UnsupervisedAgentExits(r)
      PROVE  UNCHANGED taskState
  BY <1>7 DEF Dispatch, DispatchFails, Prepared, SpawnAgent, PersistAnchor, SessionFallback,
              AgentExits, LateWriteRefused, WriteLost, RequestCancellation,
              UnsupervisedAgentExits, tables
<1>8. UNCHANGED taskState => Fewer
  OBVIOUS
<1>9. UNCHANGED vars => Fewer
  BY DEF vars, tables
<1> HIDE DEF Fewer
<1>10. Fewer \/ \E d \in Daemons, t \in Tasks :
                   Claimable(d, t) /\ taskState' = [taskState EXCEPT ![t] = "running"]
  BY <1>1, <1>2, <1>3, <1>4, <1>5, <1>6, <1>7, <1>8, <1>9
     DEF Next, DaemonStep, WorkerStep, StartupRecovery, RecoveryTick, WorkerCloses
<1> QED
  BY <1>10 DEF Fewer

\* Two tasks of one ticket never run at the same time, for any number of daemons
\* of one ledger (the condition on the source in claim_next).
THEOREM OneTaskOfATicket == Spec => []OneRunningTaskPerTicket
<1>1. Init => OneRunningTaskPerTicket
  BY DEF Init, OneRunningTaskPerTicket
<1>2. TypeOK /\ OneRunningTaskPerTicket /\ [Next]_vars => OneRunningTaskPerTicket'
  <2> SUFFICES ASSUME TypeOK, OneRunningTaskPerTicket, [Next]_vars
               PROVE  OneRunningTaskPerTicket'
    OBVIOUS
  <2>1. CASE \A t \in Tasks : taskState'[t] = "running" => taskState[t] = "running"
    BY <2>1 DEF OneRunningTaskPerTicket
  <2>2. ASSUME NEW d \in Daemons, NEW t \in Tasks, Claimable(d, t),
               taskState' = [taskState EXCEPT ![t] = "running"]
        PROVE  OneRunningTaskPerTicket'
    BY <2>2 DEF Claimable, TypeOK, OneRunningTaskPerTicket
  <2> QED
    BY <2>1, <2>2, OnlyClaimsRun
<1> QED
  BY <1>1, <1>2, TypeCorrect, PTL DEF Spec

--------------------------------------------------------------------------------
\* Who closes a run, and how.

\* A closed run never changes again, however late its worker writes (the guards
\* on outcome = 'running' in src/storage.rs).
THEOREM ClosedRunsAreFinal == Spec => ClosedRunsStayClosed
<1>1. TypeOK /\ [Next]_vars => [ClosedRunsKept]_vars
  BY RowsKept DEF ClosedRunsKept
<1> QED
  BY <1>1, TypeCorrect, PTL DEF Spec, ClosedRunsStayClosed

\* No daemon closes a run whose owner is live: recovery looks at the lease and at
\* the process of the owner.
THEOREM LiveRunsAreTheirOwners == Spec => LiveOwnersKeepTheirRuns
<1>1. TypeOK /\ [Next]_vars => [LiveOwnerCloses]_vars
  <2> SUFFICES ASSUME TypeOK, [Next]_vars, NEW r \in RunIds, Running(r),
                      OwnerIsLive(runs[r].owner), runs'[r].outcome # "running"
               PROVE  worker[r] # "gone" /\ worker'[r] = "gone"
    BY DEF LiveOwnerCloses
  <2>1. \A d \in Daemons : r \notin Orphans(d)
    BY DEF Orphans
  <2>2. WorkerCloses(r)
    BY <2>1, WhoCloses
  <2>3. worker \in Seq(WorkerStates) /\ r \in 1 .. Len(worker)
    BY DEF TypeOK, RunIds
  <2> QED
    BY <2>2, <2>3, CloseFacts DEF Retire
<1> QED
  BY <1>1, TypeCorrect, PTL DEF Spec, LiveOwnersKeepTheirRuns

\* Once a process was launched, a requested cancellation decides the run and the
\* task, whoever closes them (finish_run_and_task, recover_orphans).
THEOREM CancellationsDecide == Spec => LaunchedCancellationsHold
<1>1. TypeOK /\ OneOpenRunPerRunningTask /\ [Next]_vars => [CancellationDecides]_vars
  <2> SUFFICES ASSUME TypeOK, OneOpenRunPerRunningTask, [Next]_vars, NEW r \in RunIds,
                      Running(r), runs[r].cancel, worker[r] # "prelaunch",
                      runs'[r].outcome # "running"
               PROVE  /\ runs'[r].outcome = "cancelled"
                      /\ taskState'[runs[r].task] = "cancelled"
    BY DEF CancellationDecides
  <2>0. runs[r].task \in Tasks /\ taskState[runs[r].task] = "running"
    BY RowTypes DEF OneOpenRunPerRunningTask
  <2>1. ASSUME NEW d \in Daemons, RecoverOrphans(d), r \in Orphans(d)
        PROVE  /\ runs'[r].outcome = "cancelled"
               /\ taskState'[runs[r].task] = "cancelled"
    <3>1. runs'[r].outcome = "cancelled"
      BY <2>1, RecoveredRows DEF OrphanOutcome
    <3>2. Interrupted(d, runs[r].task)
      BY <2>0, <2>1 DEF Interrupted
    <3>3. OrphanOf(d, runs[r].task) = r
      BY <2>1 DEF OrphanOf, Orphans, OneOpenRunPerRunningTask
    <3> QED
      BY <2>0, <2>1, <3>1, <3>2, <3>3 DEF RecoverOrphans, OrphanTaskState
  <2>2. CASE WorkerCloses(r)
    <3>1. PICK o \in Outcomes \ {"running"}, requeue \in BOOLEAN :
            /\ Close(r, o, requeue)
            /\ requeue => o = "failed"
            /\ o = "cancelled"
      BY <2>2, CloseFacts
    <3>2. runs'[r].outcome = "cancelled" /\ ~requeue
      BY <3>1, ClosedRow DEF ClosesAs
    <3> QED
      BY <2>0, <3>1, <3>2 DEF Close, TypeOK
  <2> QED
    BY <2>1, <2>2, WhoCloses
<1> QED
  BY <1>1, TypeCorrect, OneOpenRun, PTL DEF Spec, LaunchedCancellationsHold

--------------------------------------------------------------------------------
\* Agents that nobody supervises.

Held(r) == Running(r) /\ runs[r].anchored
Serving(d) == proc[d] \in {"serving", "stopping"}

\* A run's owner has served, and it still does while the run has a worker.
OwnersServe ==
    \A r \in RunIds : /\ proc[runs[r].owner] \notin {"unborn", "starting"}
                      /\ worker[r] # "gone" => Serving(runs[r].owner)

\* Whoever has an agent, or is about to spawn one, has an open and anchored row
\* as long as the lease of its daemon is fresh.
Fenced ==
    /\ \A r \in agents : worker[r] \in {"supervising", "gone"}
    /\ \A r \in RunIds : r \in agents \/ worker[r] = "anchored" =>
         Held(r) \/ lease[runs[r].owner] # "fresh"

FenceInv == OwnersServe /\ Fenced

\* A step of one worker: it is at work, and it touches nothing of another run.
LEMMA WorkerLocal ==
    ASSUME TypeOK, NEW r \in RunIds, WorkerStep(r)
    PROVE  /\ worker[r] # "gone" /\ lease' = lease /\ Len(runs') = Len(runs)
           /\ runs'[r].owner = runs[r].owner
           /\ \A q \in RunIds : q # r => /\ runs'[q] = runs[q] /\ worker'[q] = worker[q]
                                         /\ q \in agents' => q \in agents
<1>0. worker \in Seq(WorkerStates) /\ r \in 1 .. Len(worker) /\ Len(worker) = Len(runs)
  BY DEF TypeOK, RunIds
<1>1. worker[r] # "gone" /\ lease' = lease
  <2>1. CASE PrelaunchFails(r) \/ Finish(r) \/ LaunchFails(r)
    BY <2>1, CloseFacts DEF WorkerCloses
  <2>2. CASE ~(PrelaunchFails(r) \/ Finish(r) \/ LaunchFails(r))
    BY <2>2 DEF WorkerStep, Dispatch, DispatchFails, Prepared, PersistAnchor, SpawnAgent,
                AgentExits, SessionFallback, LateWriteRefused, WriteLost
  <2> QED
    BY <2>1, <2>2
<1>2. \E w \in WorkerStates : worker' = [worker EXCEPT ![r] = w]
  <2>1. CASE PrelaunchFails(r) \/ Finish(r) \/ LaunchFails(r)
    BY <2>1, CloseFacts DEF WorkerCloses, Retire, WorkerStates
  <2>2. CASE ~(PrelaunchFails(r) \/ Finish(r) \/ LaunchFails(r))
    BY <2>2 DEF WorkerStep, Dispatch, DispatchFails, Prepared, PersistAnchor, SpawnAgent,
                AgentExits, SessionFallback, LateWriteRefused, WriteLost, Retire, WorkerStates
  <2> QED
    BY <2>1, <2>2
<1>3. \A q \in RunIds : q # r => worker'[q] = worker[q]
  BY <1>0, <1>2, ExceptSeq DEF RunIds
<1>4. /\ Len(runs') = Len(runs) /\ runs'[r].owner = runs[r].owner
      /\ \A q \in RunIds : q # r => runs'[q] = runs[q]
  <2>1. CASE WorkerCloses(r)
    <3>1. PICK o \in Outcomes \ {"running"}, requeue \in BOOLEAN : Close(r, o, requeue)
      BY <2>1, CloseFacts
    <3> QED
      BY <3>1, ClosedRow DEF ClosesAs
  <2>2. CASE PersistAnchor(r) \/ SessionFallback(r)
    <3>1. Edits(r)
      BY <2>2 DEF PersistAnchor, SessionFallback, Edits
    <3> QED
      BY <3>1, EditFacts
  <2>3. CASE ~WorkerCloses(r) /\ ~(PersistAnchor(r) \/ SessionFallback(r))
    BY <2>3 DEF WorkerCloses, WorkerStep, Dispatch, DispatchFails, Prepared, SpawnAgent,
                AgentExits, LateWriteRefused, WriteLost, tables
  <2> QED
    BY <2>1, <2>2, <2>3
<1>5. \A q : q # r => (q \in agents' => q \in agents)
  <2>1. CASE PrelaunchFails(r) \/ Finish(r) \/ LaunchFails(r)
    BY <2>1, CloseFacts DEF WorkerCloses
  <2>2. CASE ~(PrelaunchFails(r) \/ Finish(r) \/ LaunchFails(r))
    BY <2>2 DEF WorkerStep, Dispatch, DispatchFails, Prepared, PersistAnchor, SpawnAgent,
                AgentExits, SessionFallback, LateWriteRefused, WriteLost
  <2> QED
    BY <2>1, <2>2
<1> QED
  BY <1>1, <1>3, <1>4, <1>5

\* The worker that takes the step keeps its own run fenced.
LEMMA WorkerFenced ==
    ASSUME TypeOK, FenceInv, NEW r \in RunIds, WorkerStep(r)
    PROVE  /\ r \in agents' => worker'[r] \in {"supervising", "gone"}
           /\ r \in agents' \/ worker'[r] = "anchored" =>
                (runs'[r].outcome = "running" /\ runs'[r].anchored)
                \/ lease'[runs'[r].owner] # "fresh"
<1>0. /\ worker \in Seq(WorkerStates) /\ r \in 1 .. Len(worker)
      /\ runs \in Seq(RunRow) /\ r \in 1 .. Len(runs) /\ runs[r] \in RunRow
  BY RowTypes DEF TypeOK, RunIds
<1>w. \A w \in WorkerStates : worker' = [worker EXCEPT ![r] = w] => worker'[r] = w
  BY <1>0, ExceptSeq
<1>a. worker[r] \notin {"supervising", "gone"} => r \notin agents
  BY DEF FenceInv, Fenced
<1>1. CASE WorkerCloses(r)
  <2>1. /\ worker[r] \notin {"supervising", "gone"} /\ agents' = agents
        /\ worker' = [worker EXCEPT ![r] = "gone"]
    BY <1>1, CloseFacts DEF Retire
  <2>2. worker'[r] = "gone" /\ r \notin agents'
    BY <2>1, <1>a, <1>w DEF WorkerStates
  <2> QED
    BY <2>2
<1>2. CASE PersistAnchor(r)
  <2>1. /\ runs' = [runs EXCEPT ![r] = [runs[r] EXCEPT !.anchored = TRUE]]
        /\ Running(r) /\ r \notin agents /\ agents' = agents
    BY <1>2, <1>a DEF PersistAnchor
  <2>2. [runs[r] EXCEPT !.anchored = TRUE] \in RunRow
    BY <1>0 DEF RunRow
  <2>3. PICK row \in RunRow : /\ runs' = [runs EXCEPT ![r] = row]
                              /\ row.outcome = "running" /\ row.anchored
    BY <1>0, <2>1, <2>2 DEF Running, RunRow
  <2>4. runs'[r].outcome = "running" /\ runs'[r].anchored
    BY <1>0, <2>3, ExceptSeq
  <2> QED
    BY <2>1, <2>4
<1>3. CASE SpawnAgent(r)
  <2>1. worker'[r] = "supervising" /\ worker[r] = "anchored" /\ UNCHANGED <<runs, lease>>
    BY <1>3, <1>w DEF SpawnAgent, WorkerStates, tables
  <2> QED
    BY <2>1 DEF FenceInv, Fenced, Held, Running
<1>4. CASE AgentExits(r)
  <2>1. worker'[r] = "recording" /\ r \notin agents'
    BY <1>4, <1>w DEF AgentExits, WorkerStates
  <2> QED
    BY <2>1
<1>5. CASE Dispatch(r) \/ DispatchFails(r) \/ Prepared(r) \/ SessionFallback(r)
           \/ LateWriteRefused(r) \/ WriteLost(r)
  <2>1. /\ worker[r] \notin {"supervising", "gone"} /\ agents' = agents
        /\ \E w \in WorkerStates \ {"anchored"} : worker' = [worker EXCEPT ![r] = w]
    BY <1>5 DEF Dispatch, DispatchFails, Prepared, SessionFallback, LateWriteRefused, WriteLost,
                Retire, WorkerStates
  <2> QED
    BY <2>1, <1>a, <1>w
<1> QED
  BY <1>1, <1>2, <1>3, <1>4, <1>5 DEF WorkerStep, WorkerCloses

LEMMA OwnersServeNext == TypeOK /\ OwnersServe /\ [Next]_vars => OwnersServe'
<1> SUFFICES ASSUME TypeOK, OwnersServe, [Next]_vars PROVE OwnersServe'
  OBVIOUS
<1> USE DEF Serving
<1>0. /\ \A r \in RunIds : runs[r].owner \in Daemons
      /\ proc \in [Daemons -> ProcStates] /\ worker \in Seq(WorkerStates)
      /\ Len(worker) = Len(runs) /\ Len(runs) \in Nat
  BY RowTypes DEF TypeOK
<1>1. \A r \in RunIds : runs'[r].owner = runs[r].owner
  BY RowsKept
\* The rows are the same, and daemons and workers only move on.
<1>2. ASSUME Len(runs') = Len(runs),
             \A r \in RunIds :
                /\ proc'[runs[r].owner] \notin {"unborn", "starting"}
                /\ worker'[r] # "gone" => proc'[runs[r].owner] \in {"serving", "stopping"}
      PROVE  OwnersServe'
  <2>1. RunIds' = RunIds
    BY <1>2 DEF RunIds
  <2> QED
    BY <1>1, <1>2, <2>1 DEF OwnersServe
<1>3. ASSUME UNCHANGED <<proc, worker>>, Len(runs') = Len(runs) PROVE OwnersServe'
  BY <1>2, <1>3 DEF OwnersServe
<1>4. ASSUME NEW d \in Daemons, NEW s \in {"serving", "stopping"}, UNCHANGED <<runs, worker>>,
             proc[d] \in {"starting", "serving"}, proc' = [proc EXCEPT ![d] = s]
      PROVE  OwnersServe'
  BY <1>0, <1>2, <1>4 DEF OwnersServe
<1>5. ASSUME NEW d \in Daemons, StartupRecovery(d) PROVE OwnersServe'
  <2>1. /\ Len(runs') = Len(runs) /\ worker' = worker /\ proc[d] = "unborn"
        /\ proc' = [proc EXCEPT ![d] = "starting"]
    BY <1>5, RecoveredRows DEF StartupRecovery
  <2> QED
    BY <1>0, <1>2, <2>1 DEF OwnersServe
<1>6. ASSUME NEW d \in Daemons, Register(d) \/ HeartbeatRejected(d) \/ StopRequested(d)
      PROVE  OwnersServe'
  BY <1>4, <1>6 DEF Register, HeartbeatRejected, StopRequested, tables
<1>7. ASSUME NEW d \in Daemons, RecoveryTick(d) \/ LeaseLapses(d)
      PROVE  OwnersServe'
  BY <1>3, <1>7, RecoveredRows DEF RecoveryTick, LeaseLapses, tables
<1>8. ASSUME NEW d \in Daemons, Exit(d) PROVE OwnersServe'
  <2>1. /\ UNCHANGED <<runs, worker>> /\ proc' = [proc EXCEPT ![d] = "exited"]
        /\ \A r \in RunIds : runs[r].owner = d => worker[r] = "gone"
    BY <1>8 DEF Exit, WorkersOf, tables
  <2> QED
    BY <1>0, <1>2, <2>1 DEF OwnersServe
<1>9. ASSUME NEW d \in Daemons, Crash(d) PROVE OwnersServe'
  <2>1. /\ UNCHANGED runs /\ proc' = [proc EXCEPT ![d] = "crashed"]
        /\ \A r \in RunIds : worker'[r] = IF runs[r].owner = d THEN "gone" ELSE worker[r]
    BY <1>9 DEF Crash, tables
  <2> QED
    BY <1>0, <1>2, <2>1 DEF OwnersServe
<1>10. ASSUME NEW d \in Daemons, NEW t \in Tasks, Claim(d, t) PROVE OwnersServe'
  <2>1. /\ RunIds' = RunIds \cup {Len(runs) + 1} /\ runs'[Len(runs) + 1].owner = d
        /\ \A q \in RunIds : worker'[q] = worker[q]
    <3>1. NewRun(d, t).owner = d
      BY DEF NewRun
    <3> QED
      BY <1>10, <3>1, ClaimFacts
  <2>2. proc[d] = "serving" /\ proc' = proc
    BY <1>10 DEF Claim
  <2> QED
    BY <1>1, <2>1, <2>2 DEF OwnersServe
<1>11. ASSUME NEW r \in RunIds, WorkerStep(r) PROVE OwnersServe'
  <2>1. /\ worker[r] # "gone" /\ Len(runs') = Len(runs)
        /\ \A q \in RunIds : q # r => /\ runs'[q] = runs[q] /\ worker'[q] = worker[q]
                                      /\ q \in agents' => q \in agents
    BY <1>11, WorkerLocal
  <2>2. CASE DispatchFails(r)
    BY <1>0, <1>2, <2>1, <2>2 DEF DispatchFails, OwnersServe
  <2>3. CASE ~DispatchFails(r)
    <3>1. proc' = proc
      <4>1. CASE WorkerCloses(r)
        BY <4>1, CloseFacts
      <4>2. CASE ~WorkerCloses(r)
        BY <1>11, <2>3, <4>2 DEF WorkerCloses, WorkerStep, Dispatch, Prepared, PersistAnchor,
           SpawnAgent, AgentExits, SessionFallback, LateWriteRefused, WriteLost
      <4> QED
        BY <4>1, <4>2
    <3> QED
      BY <1>2, <2>1, <3>1 DEF OwnersServe
  <2> QED
    BY <2>2, <2>3
<1>12. ASSUME NEW r \in RunIds, RequestCancellation(r) PROVE OwnersServe'
  <2>1. Edits(r) /\ UNCHANGED <<proc, worker>>
    BY <1>12 DEF RequestCancellation, Edits
  <2> QED
    BY <1>3, <2>1, EditFacts
<1>13. ASSUME \/ \E t \in Tasks : Enqueue(t)
              \/ \E d \in Daemons, t \in Tasks : RequestContinuation(d, t)
              \/ \E r \in RunIds : UnsupervisedAgentExits(r)
              \/ UNCHANGED vars
       PROVE  OwnersServe'
  <2>1. UNCHANGED <<proc, worker, runs>>
    BY <1>13 DEF Enqueue, RequestContinuation, UnsupervisedAgentExits, vars, tables
  <2> QED
    BY <1>3, <2>1
<1> QED
  BY <1>5, <1>6, <1>7, <1>8, <1>9, <1>10, <1>11, <1>12, <1>13 DEF Next, DaemonStep

LEMMA FencedNext == TypeOK /\ FenceInv /\ [Next]_vars => Fenced'
<1> SUFFICES ASSUME TypeOK, FenceInv, [Next]_vars PROVE Fenced'
  OBVIOUS
<1> USE DEF FenceInv
<1>0. /\ \A r \in RunIds : runs[r].owner \in Daemons
      /\ lease \in [Daemons -> LeaseStates] /\ agents \subseteq RunIds
      /\ Len(runs) \in Nat
  BY RowTypes DEF TypeOK
<1>1. \A r \in RunIds : runs'[r].owner = runs[r].owner
  BY RowsKept
\* Only leases and workers move on.
<1>2. ASSUME UNCHANGED runs, agents' \subseteq agents,
             \A r \in RunIds : /\ worker'[r] \in {worker[r], "gone"}
                               /\ lease'[runs[r].owner] = "fresh" => lease[runs[r].owner] = "fresh"
      PROVE  Fenced'
  BY <1>0, <1>2 DEF Fenced, Held, Running, RunIds
<1>3. ASSUME NEW d \in Daemons, RecoverOrphans(d), UNCHANGED <<lease, worker>> PROVE Fenced'
  <2>1. /\ RunIds' = RunIds /\ agents' = agents \ Killed(d)
        /\ \A q \in RunIds : q \notin Orphans(d) => runs'[q] = runs[q]
    BY <1>3, RecoveredRows DEF RecoverOrphans, RunIds
  <2>2. ASSUME NEW r \in Orphans(d), r \in agents' \/ worker'[r] = "anchored"
        PROVE  lease'[runs'[r].owner] # "fresh"
    <3>1. r \in RunIds /\ ~OwnerIsLive(runs[r].owner)
      BY DEF Orphans
    <3>2. SUFFICES ASSUME lease[runs[r].owner] = "fresh" PROVE FALSE
      BY <1>1, <1>3, <3>1
    <3>3. ~Alive(runs[r].owner)
      BY <3>1, <3>2 DEF OwnerIsLive
    <3>4. worker[r] = "gone"
      BY <3>1, <3>3 DEF OwnersServe, Serving, Alive
    <3>5. r \in agents /\ r \notin Killed(d)
      BY <1>3, <2>1, <2>2, <3>4
    <3>6. runs[r].anchored
      BY <3>1, <3>2, <3>5 DEF Fenced, Held
    <3> QED
      BY <3>5, <3>6 DEF Killed
  <2> QED
    BY <1>0, <1>1, <1>3, <2>1, <2>2 DEF Fenced, Held, Running
<1>4. ASSUME NEW d \in Daemons, Register(d) PROVE Fenced'
  <2>1. /\ UNCHANGED <<runs, worker, agents>> /\ proc[d] = "starting"
        /\ lease' = [lease EXCEPT ![d] = "fresh"]
    BY <1>4 DEF Register, tables
  <2>2. \A r \in RunIds : lease'[runs[r].owner] = lease[runs[r].owner]
    BY <1>0, <2>1 DEF OwnersServe
  <2> QED
    BY <1>2, <2>1, <2>2
<1>5. ASSUME NEW d \in Daemons, LeaseLapses(d) \/ Exit(d) PROVE Fenced'
  <2>1. /\ UNCHANGED <<runs, worker, agents>>
        /\ \E s \in {"none", "lapsed"} : lease' = [lease EXCEPT ![d] = s]
    BY <1>5 DEF LeaseLapses, Exit, tables
  <2> QED
    BY <1>0, <1>2, <2>1
<1>6. ASSUME NEW d \in Daemons, Crash(d) PROVE Fenced'
  BY <1>2, <1>6 DEF Crash, tables
<1>7. ASSUME NEW d \in Daemons, NEW t \in Tasks, Claim(d, t) PROVE Fenced'
  <2>1. /\ RunIds' = RunIds \cup {Len(runs) + 1} /\ worker'[Len(runs) + 1] = "claimed"
        /\ \A q \in RunIds : runs'[q] = runs[q] /\ worker'[q] = worker[q]
    BY <1>7, ClaimFacts
  <2>2. UNCHANGED <<lease, agents>> /\ Len(runs) + 1 \notin agents
    BY <1>0, <1>7 DEF Claim, RunIds
  <2> QED
    BY <1>0, <2>1, <2>2 DEF Fenced, Held, Running
<1>8. ASSUME NEW r \in RunIds, WorkerStep(r) PROVE Fenced'
  <2>1. /\ lease' = lease /\ Len(runs') = Len(runs)
        /\ \A q \in RunIds : q # r => /\ runs'[q] = runs[q] /\ worker'[q] = worker[q]
                                      /\ q \in agents' => q \in agents
    BY <1>8, WorkerLocal
  <2>2. /\ r \in agents' => worker'[r] \in {"supervising", "gone"}
        /\ r \in agents' \/ worker'[r] = "anchored" =>
             (runs'[r].outcome = "running" /\ runs'[r].anchored)
             \/ lease'[runs'[r].owner] # "fresh"
    BY <1>8, WorkerFenced
  <2>3. TypeOK'
    BY NextTypeOK
  <2>4. agents' \subseteq RunIds /\ RunIds' = RunIds
    BY <2>1, <2>3 DEF TypeOK, RunIds
  <2>5. \A q \in agents' : worker'[q] \in {"supervising", "gone"}
    BY <2>1, <2>2, <2>4 DEF Fenced
  <2>6. ASSUME NEW q \in RunIds, q # r, q \in agents' \/ worker'[q] = "anchored"
        PROVE  (runs'[q].outcome = "running" /\ runs'[q].anchored) \/ lease'[runs'[q].owner] # "fresh"
    BY <2>1, <2>6 DEF Fenced, Held, Running
  <2> QED
    BY <2>2, <2>4, <2>5, <2>6 DEF Fenced, Held, Running
<1>9. ASSUME NEW r \in RunIds, RequestCancellation(r) PROVE Fenced'
  <2>1. /\ runs' = [runs EXCEPT ![r].cancel = TRUE] /\ Edits(r)
        /\ UNCHANGED <<lease, worker, agents>>
    BY <1>9 DEF RequestCancellation, Edits
  <2>2. runs[r] \in RunRow /\ runs \in Seq(RunRow) /\ [runs[r] EXCEPT !.cancel = TRUE] \in RunRow
    BY RowTypes DEF RunRow
  <2>3. PICK row \in RunRow : runs' = [runs EXCEPT ![r] = row] /\ row.anchored = runs[r].anchored
    BY <2>1, <2>2 DEF RunRow
  <2>4. runs'[r].anchored = runs[r].anchored
    BY <2>2, <2>3, ExceptSeq DEF RunIds
  <2>5. \A q \in RunIds : runs'[q].anchored = runs[q].anchored /\ runs'[q].outcome = runs[q].outcome
    BY <2>1, <2>4, EditFacts
  <2>6. RunIds' = RunIds
    BY <2>1, EditFacts DEF RunIds
  <2> QED
    BY <1>0, <1>1, <2>1, <2>5, <2>6 DEF Fenced, Held, Running
<1>10. ASSUME NEW r \in RunIds, UnsupervisedAgentExits(r) PROVE Fenced'
  BY <1>2, <1>10 DEF UnsupervisedAgentExits, tables
<1>11. ASSUME \/ \E t \in Tasks : Enqueue(t)
              \/ \E d \in Daemons : HeartbeatRejected(d) \/ StopRequested(d)
              \/ \E d \in Daemons, t \in Tasks : RequestContinuation(d, t)
              \/ UNCHANGED vars
       PROVE  Fenced'
  <2>1. UNCHANGED <<lease, worker, runs, agents>>
    BY <1>11 DEF Enqueue, RequestContinuation, HeartbeatRejected, StopRequested, vars, tables
  <2> QED
    BY <1>2, <2>1
<1> QED
  BY <1>3, <1>4, <1>5, <1>6, <1>7, <1>8, <1>9, <1>10, <1>11
     DEF Next, DaemonStep, StartupRecovery, RecoveryTick

\* An agent that outlives its run does so only after its daemon has lost the lease:
\* a recovery kills the group of every run that it closes, because the process id
\* is on record before the agent is spawned (persist_process_anchor).
THEOREM AgentsAreFenced == Spec => []StaleAgentsAreFenced
<1>1. Init => FenceInv
  BY DEF Init, FenceInv, OwnersServe, Fenced, RunIds
<1>2. TypeOK /\ FenceInv /\ [Next]_vars => FenceInv'
  BY OwnersServeNext, FencedNext DEF FenceInv
<1>3. TypeOK /\ FenceInv => StaleAgentsAreFenced
  BY DEF TypeOK, FenceInv, Fenced, StaleAgentsAreFenced, Held
<1> QED
  BY <1>1, <1>2, <1>3, TypeCorrect, PTL DEF Spec

--------------------------------------------------------------------------------
\* Tasks, one at a time.

Concluded == {"succeeded", "failed", "cancelled"}

\* What a step may do with task t.
Rests(t) == taskState'[t] = taskState[t] /\ recoverySource'[t] = recoverySource[t]
Arrives(t) ==
    /\ \/ taskState[t] = "absent"
       \/ t \in BranchOwned /\ taskState[t] = "succeeded"
    /\ taskState'[t] = "queued" /\ recoverySource'[t] = recoverySource[t]
Returns(t) ==
    \E r \in RunIds : /\ Running(r) /\ runs[r].task = t /\ runs[r].attempt < MaxRecoveryAttempts
                      /\ runs'[r].outcome = "failed"
                      /\ taskState'[t] = "queued" /\ recoverySource'[t] = r
Concludes(t) ==
    /\ taskState[t] = "running"
    /\ taskState'[t] \in Concluded /\ recoverySource'[t] = recoverySource[t]

\* A recovery returns or concludes the tasks it takes the runs of.
LEMMA RecoveredTask ==
    ASSUME TypeOK, NEW d \in Daemons, RecoverOrphans(d), NEW t \in Tasks
    PROVE  Rests(t) \/ Returns(t) \/ Concludes(t)
<1>1. CASE ~Interrupted(d, t)
  BY <1>1 DEF RecoverOrphans, Rests
<1>2. CASE Interrupted(d, t)
  <2> DEFINE r == OrphanOf(d, t)
  <2>1. r \in Orphans(d) /\ runs[r].task = t /\ taskState[t] = "running"
    BY <1>2 DEF Interrupted, OrphanOf
  <2>2. r \in RunIds /\ Running(r)
    BY <2>1 DEF Orphans
  <2>3. runs'[r].outcome = OrphanOutcome(runs[r])
    BY <2>1, <2>2, RecoveredRows
  <2>4. /\ taskState'[t] = OrphanTaskState(runs[r])
        /\ recoverySource'[t] = IF OrphanTaskState(runs[r]) = "queued" THEN r ELSE recoverySource[t]
    BY <1>2 DEF RecoverOrphans
  <2> HIDE DEF r
  <2>5. CASE OrphanTaskState(runs[r]) = "queued"
    <3>1. ~runs[r].cancel /\ runs[r].attempt < MaxRecoveryAttempts
      BY <2>5 DEF OrphanTaskState
    <3> QED
      BY <2>1, <2>2, <2>3, <2>4, <2>5, <3>1 DEF Returns, OrphanOutcome
  <2>6. CASE OrphanTaskState(runs[r]) # "queued"
    BY <2>1, <2>4, <2>6 DEF Concludes, Concluded, OrphanTaskState
  <2> QED
    BY <2>5, <2>6
<1> QED
  BY <1>1, <1>2

\* So does a worker that closes its run.
LEMMA ClosedTask ==
    ASSUME TypeOK, NEW r \in RunIds, WorkerCloses(r), NEW t \in Tasks
    PROVE  Rests(t) \/ Returns(t) \/ Concludes(t)
<1>1. PICK o \in Outcomes \ {"running"}, requeue \in BOOLEAN :
        /\ Running(r) /\ Close(r, o, requeue)
        /\ requeue => o = "failed" /\ runs[r].attempt < MaxRecoveryAttempts
  BY CloseFacts
<1>2. runs'[r].outcome = o
  BY <1>1, ClosedRow DEF ClosesAs
<1>3. /\ taskState[runs[r].task] = "running"
      /\ taskState' = [taskState EXCEPT ![runs[r].task] = IF requeue THEN "queued" ELSE o]
      /\ recoverySource' = [recoverySource EXCEPT ![runs[r].task] = IF requeue THEN r ELSE @]
      /\ taskState \in [Tasks -> TaskStates] /\ recoverySource \in [Tasks -> 0 .. Len(runs)]
  BY <1>1 DEF Close, TypeOK
<1>4. CASE runs[r].task # t
  BY <1>3, <1>4 DEF Rests
<1>5. CASE runs[r].task = t /\ requeue
  BY <1>1, <1>2, <1>3, <1>5 DEF Returns
<1>6. CASE runs[r].task = t /\ ~requeue
  BY <1>1, <1>3, <1>6 DEF Concludes, Concluded, Outcomes
<1> QED
  BY <1>4, <1>5, <1>6

LEMMA TaskStep ==
    ASSUME TypeOK, [Next]_vars, NEW t \in Tasks
    PROVE  \/ Rests(t) \/ Arrives(t) \/ Returns(t) \/ Concludes(t)
           \/ \E d \in Daemons : Claim(d, t)
<1>0. taskState \in [Tasks -> TaskStates] /\ recoverySource \in [Tasks -> 0 .. Len(runs)]
  BY DEF TypeOK
<1>1. ASSUME NEW u \in Tasks, Enqueue(u) PROVE Rests(t) \/ Arrives(t)
  BY <1>0, <1>1 DEF Enqueue, Rests, Arrives
<1>2. ASSUME NEW d \in Daemons, NEW u \in Tasks, RequestContinuation(d, u)
      PROVE  Rests(t) \/ Arrives(t)
  BY <1>0, <1>2 DEF RequestContinuation, Rests, Arrives
<1>3. ASSUME NEW d \in Daemons, NEW u \in Tasks, Claim(d, u), u # t PROVE Rests(t)
  BY <1>0, <1>3 DEF Claim, Rests
<1>4. ASSUME NEW d \in Daemons, \/ Register(d) \/ LeaseLapses(d) \/ HeartbeatRejected(d)
                                \/ StopRequested(d) \/ Exit(d) \/ Crash(d)
      PROVE  UNCHANGED tables
  BY <1>4 DEF Register, LeaseLapses, HeartbeatRejected, StopRequested, Exit, Crash
<1>5. ASSUME NEW r \in RunIds, \/ Dispatch(r) \/ DispatchFails(r) \/ Prepared(r) \/ SpawnAgent(r)
                               \/ PersistAnchor(r) \/ SessionFallback(r) \/ AgentExits(r)
                               \/ LateWriteRefused(r) \/ WriteLost(r)
                               \/ RequestCancellation(r) \/ UnsupervisedAgentExits(r)
      PROVE  UNCHANGED <<taskState, recoverySource>>
  BY <1>5 DEF Dispatch, DispatchFails, Prepared, SpawnAgent, PersistAnchor, SessionFallback,
              AgentExits, LateWriteRefused, WriteLost, RequestCancellation,
              UnsupervisedAgentExits, tables
<1>6. UNCHANGED <<taskState, recoverySource>> => Rests(t)
  BY DEF Rests
<1>7. UNCHANGED tables => UNCHANGED <<taskState, recoverySource>>
  BY DEF tables
<1>8. UNCHANGED vars => UNCHANGED <<taskState, recoverySource>>
  BY DEF vars, tables
<1> QED
  BY <1>1, <1>2, <1>3, <1>4, <1>5, <1>6, <1>7, <1>8, RecoveredTask, ClosedTask
     DEF Next, DaemonStep, WorkerStep, StartupRecovery, RecoveryTick, WorkerCloses

\* The one new row of a step is that of a claim.
LEMMA NewRows ==
    ASSUME TypeOK, [Next]_vars
    PROVE  \/ RunIds' = RunIds
           \/ \E d \in Daemons, t \in Tasks :
                /\ Claim(d, t)
                /\ RunIds' = RunIds \cup {Len(runs) + 1}
                /\ runs'[Len(runs) + 1] = NewRun(d, t)
<1>1. ASSUME NEW r \in RunIds, WorkerCloses(r) PROVE Len(runs') = Len(runs)
  <2>1. PICK o \in Outcomes \ {"running"}, requeue \in BOOLEAN : Close(r, o, requeue)
    BY <1>1, CloseFacts
  <2> QED
    BY <2>1, ClosedRow DEF ClosesAs
<1>2. \/ Len(runs') = Len(runs)
      \/ \E d \in Daemons, t \in Tasks : Claim(d, t)
  BY <1>1, RunsStep, RecoveredRows, EditFacts
<1> QED
  BY <1>2, ClaimFacts DEF RunIds

--------------------------------------------------------------------------------
\* Recovery chains.

\* A task that waits for a recovery names its own failed run, which is within the
\* budget and which no run has recovered.
PendingRecoveries ==
    \A t \in Tasks : recoverySource[t] # 0 =>
        /\ taskState[t] = "queued"
        /\ recoverySource[t] \in RunIds
        /\ runs[recoverySource[t]].task = t
        /\ runs[recoverySource[t]].outcome = "failed"
        /\ runs[recoverySource[t]].attempt < MaxRecoveryAttempts
        /\ \A q \in RunIds : runs[q].recoveryOf # recoverySource[t]

ChainInv == OneOpenRunPerRunningTask /\ RecoveryChains /\ PendingRecoveries

\* What RecoveryChains says of one run; q is the run it recovers.
Chained(r) ==
    /\ runs[r].attempt <= MaxRecoveryAttempts
    /\ runs[r].recoveryOf = 0 => runs[r].attempt = 0
    /\ runs[r].recoveryOf # 0 =>
         /\ runs[r].recoveryOf \in RunIds /\ runs[r].recoveryOf < r
         /\ runs[runs[r].recoveryOf].task = runs[r].task
         /\ runs[runs[r].recoveryOf].outcome = "failed"
         /\ runs[r].attempt = runs[runs[r].recoveryOf].attempt + 1
Unique(r) ==
    \A q \in RunIds : runs[q].recoveryOf = runs[r].recoveryOf /\ runs[r].recoveryOf # 0 => q = r

LEMMA ChainsByRun ==
    ASSUME TypeOK
    PROVE  RecoveryChains <=> \A r \in RunIds : Chained(r) /\ Unique(r)
<1>1. \A r \in RunIds : runs[r].recoveryOf \in Nat /\ Len(runs) \in Nat
  BY RowTypes
<1>2. \A r \in RunIds : runs[r].recoveryOf # 0 /\ runs[r].recoveryOf < r
                        => runs[r].recoveryOf \in RunIds
  BY <1>1 DEF RunIds
<1> QED
  BY <1>2 DEF RecoveryChains, Chained, Unique

LEMMA ChainsNext == TypeOK /\ ChainInv /\ [Next]_vars => RecoveryChains'
<1> SUFFICES ASSUME TypeOK, ChainInv, [Next]_vars PROVE RecoveryChains'
  OBVIOUS
<1>0. TypeOK'
  BY NextTypeOK
<1>1. \A r \in RunIds : Chained(r) /\ Unique(r)
  BY ChainsByRun DEF ChainInv
<1>2. \A r \in RunIds :
        /\ r \in RunIds' /\ runs'[r].task = runs[r].task
        /\ runs'[r].attempt = runs[r].attempt /\ runs'[r].recoveryOf = runs[r].recoveryOf
        /\ runs[r].outcome = "failed" => runs'[r].outcome = "failed"
  BY RowsKept DEF Running
<1>3. \A r \in RunIds : Chained(r)'
  BY <1>1, <1>2 DEF Chained
<1>4. CASE RunIds' = RunIds
  <2>1. \A r \in RunIds : Unique(r)'
    BY <1>1, <1>2, <1>4 DEF Unique
  <2>2. (\A r \in RunIds : Chained(r) /\ Unique(r))'
    BY <1>3, <1>4, <2>1
  <2> QED
    BY <1>0, <2>2, ChainsByRun, PTL
<1>5. ASSUME NEW d \in Daemons, NEW t \in Tasks, Claim(d, t),
             RunIds' = RunIds \cup {Len(runs) + 1}, runs'[Len(runs) + 1] = NewRun(d, t)
      PROVE  RecoveryChains'
  <2>0. PICK n, p : n = Len(runs) + 1 /\ p = recoverySource[t]
    OBVIOUS
  <2>1. /\ runs'[n].task = t /\ runs'[n].recoveryOf = p
        /\ runs'[n].attempt = IF p = 0 THEN 0 ELSE runs[p].attempt + 1
    BY <1>5, <2>0 DEF NewRun
  <2>2. p # 0 => /\ p \in RunIds /\ runs[p].task = t /\ runs[p].outcome = "failed"
                 /\ runs[p].attempt < MaxRecoveryAttempts
                 /\ \A q \in RunIds : runs[q].recoveryOf # p
    BY <2>0 DEF ChainInv, PendingRecoveries
  <2>3. /\ Len(runs) \in Nat /\ \A r \in RunIds : runs[r].attempt \in Nat
        /\ n \notin RunIds /\ MaxRecoveryAttempts \in Nat
        /\ \A r \in RunIds : r < n
    BY <2>0, RowTypes, LedgerAssumption DEF RunIds
  <2>4. runs'[n].attempt <= MaxRecoveryAttempts /\ (p = 0 => runs'[n].attempt = 0)
    BY <2>1, <2>2, <2>3
  <2>5. p # 0 => /\ p \in RunIds' /\ p < n
                 /\ runs'[p].task = t /\ runs'[p].outcome = "failed"
                 /\ runs'[n].attempt = runs'[p].attempt + 1
    BY <1>2, <2>1, <2>2, <2>3
  <2>6. Chained(n)'
    BY <2>1, <2>4, <2>5 DEF Chained
  <2>7. RunIds' = RunIds \cup {n}
    BY <1>5, <2>0
  <2>8. \A r \in RunIds' : Unique(r)'
    BY <1>1, <1>2, <2>1, <2>2, <2>7 DEF Unique
  <2>9. (\A r \in RunIds : Chained(r) /\ Unique(r))'
    BY <1>3, <2>6, <2>7, <2>8
  <2> QED
    BY <1>0, <2>9, ChainsByRun, PTL
<1> QED
  BY <1>4, <1>5, NewRows

LEMMA PendingNext == TypeOK /\ ChainInv /\ [Next]_vars => PendingRecoveries'
<1> SUFFICES ASSUME TypeOK, ChainInv, [Next]_vars, NEW t \in Tasks, recoverySource'[t] # 0
             PROVE  LET p == recoverySource'[t]
                    IN  /\ taskState'[t] = "queued" /\ p \in RunIds' /\ runs'[p].task = t
                        /\ runs'[p].outcome = "failed" /\ runs'[p].attempt < MaxRecoveryAttempts
                        /\ \A q \in RunIds' : runs'[q].recoveryOf # p
  BY DEF PendingRecoveries
<1> DEFINE p == recoverySource'[t]
<1>0. /\ \A r \in RunIds :
             /\ r \in RunIds' /\ runs'[r].task = runs[r].task
             /\ runs'[r].attempt = runs[r].attempt /\ runs'[r].recoveryOf = runs[r].recoveryOf
             /\ runs[r].outcome = "failed" => runs'[r].outcome = "failed"
      /\ taskState \in [Tasks -> TaskStates] /\ recoverySource \in [Tasks -> 0 .. Len(runs)]
  BY RowsKept DEF Running, TypeOK
\* The run to recover, and that nobody has recovered it so far.
<1>1. /\ taskState'[t] = "queued" /\ p \in RunIds /\ runs[p].task = t
      /\ runs'[p].outcome = "failed" /\ runs[p].attempt < MaxRecoveryAttempts
      /\ \A q \in RunIds : runs[q].recoveryOf # p
      /\ \A d \in Daemons : ~Claim(d, t)
  <2>1. CASE Rests(t) /\ \A d \in Daemons : ~Claim(d, t)
    BY <1>0, <2>1 DEF Rests, ChainInv, PendingRecoveries
  <2>2. CASE Arrives(t) \/ Concludes(t)
    <3>1. recoverySource[t] = 0 /\ recoverySource'[t] = recoverySource[t]
      BY <2>2 DEF Arrives, Concludes, ChainInv, PendingRecoveries
    <3> QED
      BY <3>1
  <2>3. CASE Returns(t)
    <3>1. PICK r \in RunIds : /\ Running(r) /\ runs[r].task = t
                             /\ runs[r].attempt < MaxRecoveryAttempts
                             /\ runs'[r].outcome = "failed"
                             /\ taskState'[t] = "queued" /\ recoverySource'[t] = r
      BY <2>3 DEF Returns
    <3>2. \A q \in RunIds : runs[q].recoveryOf # r
      <4>1. \A q \in RunIds : Chained(q) /\ r # 0
        BY <3>1, ChainsByRun DEF ChainInv, RunIds
      <4> QED
        BY <3>1, <4>1 DEF Chained, Running
    <3>3. \A d \in Daemons : ~Claim(d, t)
      BY <1>0, <3>1 DEF Claim
    <3> QED
      BY <3>1, <3>2, <3>3
  <2>4. ASSUME NEW d \in Daemons, Claim(d, t) PROVE FALSE
    BY <1>0, <2>4 DEF Claim
  <2> QED
    BY <2>1, <2>2, <2>3, <2>4, TaskStep
<1> HIDE DEF p
<1>2. \A q \in RunIds' : runs'[q].recoveryOf # p
  <2>1. CASE RunIds' = RunIds
    BY <1>0, <1>1, <2>1
  <2>2. ASSUME NEW d \in Daemons, NEW u \in Tasks, Claim(d, u),
               RunIds' = RunIds \cup {Len(runs) + 1}, runs'[Len(runs) + 1] = NewRun(d, u)
        PROVE  \A q \in RunIds' : runs'[q].recoveryOf # p
    <3>1. u # t /\ runs'[Len(runs) + 1].recoveryOf = recoverySource[u]
      BY <1>1, <2>2 DEF NewRun
    <3>2. recoverySource[u] # 0 => runs[recoverySource[u]].task = u
      BY DEF ChainInv, PendingRecoveries
    <3>3. recoverySource[u] # p
      BY <1>1, <3>1, <3>2 DEF RunIds
    <3> QED
      BY <1>0, <1>1, <2>2, <3>1, <3>3
  <2> QED
    BY <2>1, <2>2, NewRows
<1> QED
  BY <1>0, <1>1, <1>2 DEF p

LEMMA ChainInvInit == Init => ChainInv
  BY DEF Init, ChainInv, OneOpenRunPerRunningTask, RecoveryChains, PendingRecoveries, RunIds

LEMMA ChainInvNext == TypeOK /\ ChainInv /\ [Next]_vars => ChainInv'
  BY NextOpenRuns, ChainsNext, PendingNext DEF ChainInv

\* Recovery is a bounded chain for any budget: each recovery run continues one
\* failed run of its own task, one attempt later, and no run is recovered twice
\* (claim_next, finish_run_and_task and recover_orphans).
THEOREM RecoveriesChain == Spec => []RecoveryChains
<1>1. ChainInv => RecoveryChains
  BY DEF ChainInv
<1> QED
  BY <1>1, ChainInvInit, ChainInvNext, TypeCorrect, PTL DEF Spec

--------------------------------------------------------------------------------
\* The ledger is a task queue.

\* The attempts that a task has used up are those of its open run, or those that
\* its next run will start from.
SpentKnown ==
    \A t \in Tasks :
       /\ SpentAttempts(t) \in 0 .. MaxRecoveryAttempts
       /\ \A r \in RunIds : Running(r) /\ runs[r].task = t => SpentAttempts(t) = runs[r].attempt
       /\ taskState[t] = "queued" =>
            SpentAttempts(t) = IF recoverySource[t] = 0 THEN 0
                               ELSE runs[recoverySource[t]].attempt + 1
       /\ taskState[t] \notin {"queued", "running"} => SpentAttempts(t) = 0

LEMMA SpentFacts == TypeOK /\ ChainInv => SpentKnown
<1> SUFFICES ASSUME TypeOK, ChainInv, NEW t \in Tasks
             PROVE  /\ SpentAttempts(t) \in 0 .. MaxRecoveryAttempts
                    /\ \A r \in RunIds : Running(r) /\ runs[r].task = t
                                          => SpentAttempts(t) = runs[r].attempt
                    /\ taskState[t] = "queued" =>
                         SpentAttempts(t) = IF recoverySource[t] = 0 THEN 0
                                            ELSE runs[recoverySource[t]].attempt + 1
                    /\ taskState[t] \notin {"queued", "running"} => SpentAttempts(t) = 0
  BY DEF SpentKnown
<1>0. /\ MaxRecoveryAttempts \in Nat
      /\ \A r \in RunIds : runs[r].attempt \in Nat /\ runs[r].attempt <= MaxRecoveryAttempts
  BY RowTypes, LedgerAssumption DEF ChainInv, RecoveryChains
<1>1. \A r \in RunIds : Running(r) /\ runs[r].task = t => SpentAttempts(t) = runs[r].attempt
  BY DEF ChainInv, OneOpenRunPerRunningTask, SpentAttempts, OpenRun
<1>2. taskState[t] = "queued" =>
        SpentAttempts(t) = IF recoverySource[t] = 0 THEN 0
                           ELSE runs[recoverySource[t]].attempt + 1
  BY DEF SpentAttempts
<1>3. taskState[t] \notin {"queued", "running"} => SpentAttempts(t) = 0
  BY DEF SpentAttempts
<1>4. recoverySource[t] # 0 => /\ recoverySource[t] \in RunIds
                               /\ runs[recoverySource[t]].attempt < MaxRecoveryAttempts
  BY DEF ChainInv, PendingRecoveries
<1>5. CASE taskState[t] = "running"
  <2>1. PICK r \in RunIds : Running(r) /\ runs[r].task = t
    BY <1>5 DEF ChainInv, OneOpenRunPerRunningTask
  <2> QED
    BY <1>0, <1>1, <1>2, <1>3, <2>1
<1>6. CASE taskState[t] # "running"
  BY <1>0, <1>1, <1>2, <1>3, <1>4, <1>6
<1> QED
  BY <1>1, <1>2, <1>3, <1>5, <1>6

\* A task that rests keeps its attempts.
LEMMA RestingSpent ==
    ASSUME TypeOK, ChainInv, [Next]_vars, TypeOK', ChainInv', NEW t \in Tasks, Rests(t)
    PROVE  SpentAttempts(t)' = SpentAttempts(t)
<1>0. \A r \in RunIds :
        /\ r \in RunIds' /\ runs'[r].task = runs[r].task /\ runs'[r].attempt = runs[r].attempt
        /\ ~Running(r) => runs'[r] = runs[r]
  BY RowsKept
<1>s. SpentKnown /\ SpentKnown'
  BY SpentFacts, PTL
<1>1. CASE taskState[t] = "running"
  <2>1. PICK q \in RunIds' : runs'[q].outcome = "running" /\ runs'[q].task = t
    BY <1>1 DEF Rests, ChainInv, OneOpenRunPerRunningTask, Running
  <2>2. q \in RunIds
    <3>1. ASSUME NEW d \in Daemons, NEW u \in Tasks, Claim(d, u),
                 runs'[Len(runs) + 1] = NewRun(d, u)
          PROVE  q # Len(runs) + 1
      BY <1>1, <2>1, <3>1 DEF NewRun, Claim, Claimable
    <3> QED
      BY <3>1, NewRows
  <2>3. Running(q) /\ runs[q].task = t
    BY <1>0, <2>1, <2>2 DEF Running
  <2>4. SpentAttempts(t) = runs[q].attempt
    BY <2>2, <2>3, <1>s DEF SpentKnown
  <2>5. SpentAttempts(t)' = runs'[q].attempt
    BY <2>1, <1>s DEF SpentKnown, Running
  <2> QED
    BY <1>0, <2>2, <2>4, <2>5
<1>2. CASE taskState[t] = "queued"
  <2>1. recoverySource[t] # 0 => recoverySource[t] \in RunIds
    BY DEF ChainInv, PendingRecoveries
  <2> QED
    BY <1>0, <1>2, <2>1 DEF Rests, SpentAttempts
<1>3. CASE taskState[t] \notin {"queued", "running"}
  BY <1>3 DEF Rests, SpentAttempts
<1> QED
  BY <1>1, <1>2, <1>3

\* Every step moves every task as the queue allows.
LEMMA TaskMoves ==
    ASSUME TypeOK, ChainInv, [Next]_vars, TypeOK', ChainInv', NEW t \in Tasks
    PROVE  \/ taskState'[t] = taskState[t] /\ SpentAttempts(t)' = SpentAttempts(t)
           \/ /\ \/ taskState[t] = "absent"
                 \/ t \in BranchOwned /\ taskState[t] = "succeeded"
              /\ taskState'[t] = "queued" /\ SpentAttempts(t)' = 0
           \/ /\ taskState[t] = "queued" /\ taskState'[t] = "running"
              /\ SpentAttempts(t)' = SpentAttempts(t)
           \/ /\ taskState[t] = "running" /\ SpentAttempts(t) < MaxRecoveryAttempts
              /\ taskState'[t] = "queued" /\ SpentAttempts(t)' = SpentAttempts(t) + 1
           \/ /\ taskState[t] = "running"
              /\ taskState'[t] \in Concluded /\ SpentAttempts(t)' = 0
<1>s. SpentKnown /\ SpentKnown'
  BY SpentFacts, PTL
<1>1. CASE Rests(t)
  BY <1>1, RestingSpent DEF Rests
<1>2. CASE Arrives(t)
  <2>1. recoverySource'[t] = 0
    BY <1>2 DEF Arrives, ChainInv, PendingRecoveries
  <2> QED
    BY <1>2, <2>1 DEF Arrives, SpentAttempts
<1>3. ASSUME NEW d \in Daemons, Claim(d, t)
      PROVE  /\ taskState[t] = "queued" /\ taskState'[t] = "running"
             /\ SpentAttempts(t)' = SpentAttempts(t)
  <2>1. taskState[t] = "queued" /\ taskState'[t] = "running"
    BY <1>3 DEF Claim, Claimable, TypeOK
  <2>2. /\ Len(runs) + 1 \in RunIds' /\ runs'[Len(runs) + 1] = NewRun(d, t)
    BY <1>3, ClaimFacts
  <2>3. PICK n \in RunIds' :
          /\ runs'[n].outcome = "running" /\ runs'[n].task = t
          /\ runs'[n].attempt = IF recoverySource[t] = 0 THEN 0
                                ELSE runs[recoverySource[t]].attempt + 1
    BY <2>2 DEF NewRun
  <2>4. SpentAttempts(t)' = runs'[n].attempt
    BY <2>3, <1>s DEF SpentKnown, Running
  <2> QED
    BY <2>1, <2>3, <2>4, <1>s DEF SpentKnown
<1>4. CASE Returns(t)
  <2>1. PICK r \in RunIds : /\ Running(r) /\ runs[r].task = t
                           /\ runs[r].attempt < MaxRecoveryAttempts
                           /\ taskState'[t] = "queued" /\ recoverySource'[t] = r
    BY <1>4 DEF Returns
  <2>2. taskState[t] = "running" /\ SpentAttempts(t) = runs[r].attempt
    BY <2>1, <1>s DEF SpentKnown, ChainInv, OneOpenRunPerRunningTask
  <2>3. SpentAttempts(t)' = runs'[r].attempt + 1
    BY <2>1 DEF SpentAttempts, RunIds
  <2>4. runs'[r].attempt = runs[r].attempt
    BY RowsKept
  <2> QED
    BY <2>1, <2>2, <2>3, <2>4
<1>5. CASE Concludes(t)
  BY <1>5 DEF Concludes, Concluded, SpentAttempts
<1> QED
  BY <1>1, <1>2, <1>3, <1>4, <1>5, TaskStep

LEMMA QueueStep ==
    TypeOK /\ ChainInv /\ [Next]_vars /\ TypeOK' /\ ChainInv' => [Queue!Next]_(Queue!vars)
<1> SUFFICES ASSUME TypeOK, ChainInv, [Next]_vars, TypeOK', ChainInv' PROVE Queue!Next
  OBVIOUS
<1>1. taskState' \in [Tasks -> TaskStates] /\ TaskStates = Queue!Status
  BY DEF TypeOK, TaskStates, Queue!Status
<1>s. SpentKnown'
  BY SpentFacts, PTL
<1>2. \A t \in Tasks : SpentAttempts(t)' \in 0 .. MaxRecoveryAttempts
  BY <1>s DEF SpentKnown
<1>3. [t \in Tasks |-> SpentAttempts(t)]' \in [Tasks -> 0 .. MaxRecoveryAttempts]
  BY <1>2
<1>4. ASSUME NEW t \in Tasks
      PROVE  Queue!Stays(t) \/ Queue!Submit(t) \/ Queue!Start(t)
             \/ Queue!Retry(t) \/ Queue!Conclude(t) \/ Queue!Continue(t)
  BY TaskMoves DEF Queue!Stays, Queue!Submit, Queue!Start, Queue!Retry, Queue!Conclude,
                   Queue!Continue, Queue!Moves, Concluded
<1> QED
  BY <1>1, <1>3, <1>4 DEF Queue!Next

\* The ledger implements the task queue for any number of tasks, daemons and runs
\* and any budget: daemons, leases, crashes and late writes never show in what a
\* task goes through.
THEOREM LedgerIsAQueue == Spec => ImplementsTaskQueue
<1>1. Init => Queue!Init
  BY DEF Init, Queue!Init, Queue!Status, SpentAttempts
<1>2. TypeOK /\ ChainInv /\ [Next]_vars /\ TypeOK' /\ ChainInv' => [Queue!Next]_(Queue!vars)
  BY QueueStep
<1> QED
  BY <1>1, <1>2, ChainInvInit, ChainInvNext, TypeCorrect, PTL
     DEF Spec, ImplementsTaskQueue, Queue!Spec
===============================================================================

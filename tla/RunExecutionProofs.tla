-------------------------- MODULE RunExecutionProofs --------------------------
(***************************************************************************)
(* Proofs about RunExecution for any number of recovery attempts and       *)
(* anything going wrong any number of times.                               *)
(***************************************************************************)
EXTENDS RunExecution, TLAPS

\* Steps of the worker.
Steps == {"idle", "starting", "anchored", "persisted", "running", "terminating", "reaping",
          "joining", "returned", "recording"}

\* A worker has a run of its own that is open, none outlives its daemon, and the
\* budget of recoveries covers every run that may still be opened.
Served ==
    /\ daemon = "down" => worker = "idle"
    /\ worker # "idle" => Open /\ run >= 1
    /\ task = "queued" => run <= MaxAttempts

\* The types, store by store.
LedgerTypes ==
    /\ task \in {"queued", "running", "succeeded", "failed", "cancelled"}
    /\ run \in 0 .. MaxAttempts + 1 /\ row \in Rows

ProcessTypes ==
    /\ anchor \in [Groups -> {"gone", "alive", "zombie"}]
    /\ agent \in [Groups -> {"gone", "working", "ok", "bad"}]
    /\ helpers \subseteq Groups /\ escaped \in BOOLEAN
    /\ reused \subseteq Groups /\ strayed \subseteq Groups

ExecutionTypes ==
    /\ worker \in Steps
    /\ exec \in Executions /\ resumed \in Groups \cup {None}
    /\ held \in BOOLEAN /\ token \in BOOLEAN /\ expired \in BOOLEAN
    /\ result \in {"none", "ok", "bad", "error", "cancelled", "timed out"}

ChannelTypes ==
    /\ observed \in [Executions -> Observations]
    /\ unseen \subseteq Executions /\ monitors \subseteq Executions

HostTypes == daemon \in {"down", "up", "stopping"} /\ troubles \in 0 .. MaxTroubles

LEMMA TypeParts ==
    TypeOK <=> LedgerTypes /\ ProcessTypes /\ ExecutionTypes /\ ChannelTypes /\ HostTypes
  BY DEF TypeOK, LedgerTypes, ProcessTypes, ExecutionTypes, ChannelTypes, HostTypes, Steps

TypeInv == TypeOK /\ Served

LEMMA GroupType ==
    ASSUME TypeInv, worker # "idle"
    PROVE  Group \in Groups
<1>1. run \in 0 .. MaxAttempts + 1 /\ exec \in Executions
  BY TypeParts DEF TypeInv, LedgerTypes, ExecutionTypes
<1>2. run >= 1
  BY DEF TypeInv, Served
<1>3. run \in 1 .. MaxAttempts + 1
  BY <1>1, <1>2, ExecutionAssumption
<1> QED
  BY <1>1, <1>3 DEF Group, Groups

LEMMA NothingObserved == Blank \in Observations /\ None \in Groups \cup {None}
  BY DEF Blank, Observations

LEMMA ObservationTypes ==
    ASSUME NEW a \in Groups \cup {None}, NEW s \in Groups \cup {None}
    PROVE  [anchor |-> a, session |-> s] \in Observations
  BY DEF Observations

\* A row that takes an observation stays a row and keeps what the observation
\* leaves out.
LEMMA ObservedRow ==
    ASSUME row \in Rows, NEW o \in Observations, Observe(o)
    PROVE  /\ row' \in Rows /\ row'.outcome = row.outcome /\ row'.requested = row.requested
           /\ row'.anchor = IF o.anchor = None THEN row.anchor ELSE o.anchor
  BY DEF Observe, Rows, Observations

LEMMA ResetRow ==
    ASSUME row \in Rows, Reset
    PROVE  /\ row' \in Rows /\ row'.outcome = row.outcome /\ row'.requested = row.requested
           /\ row'.anchor = None
  BY NothingObserved DEF Reset, Rows

LEMMA FinishedRow ==
    ASSUME LedgerTypes, NEW o \in {"succeeded", "failed", "cancelled"}, NEW b \in BOOLEAN,
           Finish(o, b)
    PROVE  LedgerTypes' /\ (task' = "queued" => run' <= MaxAttempts)
           /\ row'.requested = row.requested
           /\ row'.outcome = IF row.requested THEN "cancelled" ELSE o
  BY DEF LedgerTypes, Finish, Rows

--------------------------------------------------------------------------------
LEMMA TypesInit == Init => TypeInv
<1> SUFFICES ASSUME Init PROVE TypeInv
  OBVIOUS
<1>1. LedgerTypes
  BY NothingObserved, ExecutionAssumption DEF Init, LedgerTypes, Row, Rows
<1>2. ProcessTypes
  BY DEF Init, ProcessTypes
<1>3. ExecutionTypes
  BY NothingObserved DEF Init, ExecutionTypes, Executions, Steps
<1>4. ChannelTypes
  BY NothingObserved DEF Init, ChannelTypes
<1>5. HostTypes
  BY ExecutionAssumption DEF Init, HostTypes
<1>6. Served
  BY ExecutionAssumption DEF Init, Served
<1> QED
  BY <1>1, <1>2, <1>3, <1>4, <1>5, <1>6, TypeParts DEF TypeInv

\* Steps that leave the ledger alone.
Ledgerless ==
    \/ StopEarly \/ Refuse \/ StartAnchor \/ StopAnchored \/ Spawn \/ AwaitExit \/ Interrupt
    \/ Terminated \/ GraceOver \/ Reap \/ Join
    \/ (\E e \in Executions : MonitorEnds(e) \/ MonitorFails(e))
    \/ StartFails \/ AnchoredFails \/ DeliveryFails \/ SupervisionFails \/ Abandon \/ AgentReports
    \/ (\E g \in Groups : AgentExits(g) \/ HelperStarts(g) \/ HelperEscapes(g) \/ Reuse(g))
    \/ Expire \/ Stop \/ Drained \/ (\E rebooted \in BOOLEAN : Die(rebooted))

LEMMA LedgerKept == Ledgerless \/ UNCHANGED vars => UNCHANGED ledger
<1>1. ASSUME \/ StopEarly \/ Refuse \/ StartAnchor \/ StopAnchored \/ Spawn \/ AwaitExit
             \/ Interrupt \/ Terminated \/ GraceOver \/ Reap \/ Join
      PROVE  UNCHANGED ledger
  BY <1>1 DEF StopEarly, Refuse, StartAnchor, StopAnchored, StopGroup, Spawn, AwaitExit, Exited,
      Interrupt, Terminate, Terminated, GraceOver, Reap, Join
<1>2. ASSUME \/ StartFails \/ AnchoredFails \/ DeliveryFails \/ SupervisionFails \/ Abandon
             \/ AgentReports \/ Expire \/ Stop \/ Drained
      PROVE  UNCHANGED ledger
  BY <1>2 DEF StartFails, AnchoredFails, StopGroup, DeliveryFails, Terminate, SupervisionFails,
      Abandon, AgentReports, Expire, Stop, Drained
<1>3. ASSUME NEW e \in Executions, MonitorEnds(e) \/ MonitorFails(e)
      PROVE  UNCHANGED ledger
  BY <1>3 DEF MonitorEnds, MonitorFails
<1>4. ASSUME NEW g \in Groups, AgentExits(g) \/ HelperStarts(g) \/ HelperEscapes(g) \/ Reuse(g)
      PROVE  UNCHANGED ledger
  BY <1>4 DEF AgentExits, HelperStarts, HelperEscapes, Reuse
<1>5. ASSUME NEW rebooted \in BOOLEAN, Die(rebooted)
      PROVE  UNCHANGED ledger
  BY <1>5 DEF Die
<1> QED
  BY <1>1, <1>2, <1>3, <1>4, <1>5 DEF Ledgerless, vars

\* What the others make of the ledger.
LEMMA LedgerStep ==
    ASSUME TypeInv, [Next]_vars
    PROVE  LedgerTypes' /\ (task' = "queued" => run' <= MaxAttempts)
<1> DEFINE Budget == task' = "queued" => run' <= MaxAttempts
<1>1. LedgerTypes /\ ChannelTypes /\ ExecutionTypes
  BY TypeParts DEF TypeInv
<1>2. ASSUME row' \in Rows, UNCHANGED <<task, run>> PROVE LedgerTypes' /\ Budget
  BY <1>1, <1>2 DEF LedgerTypes, TypeInv, Served
<1>3. CASE UNCHANGED ledger
  BY <1>1, <1>2, <1>3 DEF ledger, LedgerTypes
<1>4. CASE Dispatch
  BY <1>1, <1>4, NothingObserved, ExecutionAssumption
  DEF Dispatch, LedgerTypes, Row, Rows, TypeInv, Served
<1>5. CASE Persist
  <2>1. [Blank EXCEPT !.anchor = Group] \in Observations /\ Group \in Groups
    BY <1>5, GroupType DEF Persist, Blank, Observations
  <2> QED
    BY <1>1, <1>2, <1>5, <2>1, ObservedRow DEF Persist, LedgerTypes
<1>6. CASE FallBack
  BY <1>1, <1>2, <1>6, ResetRow DEF FallBack, LedgerTypes
<1>7. CASE ResetFails
  BY <1>1, <1>7, FinishedRow DEF ResetFails
<1>8. CASE Record
  <2>1. observed[exec] \in Observations
    BY <1>1 DEF ChannelTypes, ExecutionTypes
  <2> QED
    BY <1>1, <1>2, <1>8, <2>1, ObservedRow DEF Record, LedgerTypes
<1>9. CASE Close
  <2>1. Outcome \in {"succeeded", "failed", "cancelled"} /\ (result # "timed out") \in BOOLEAN
    BY DEF Outcome
  <2> QED
    BY <1>1, <1>9, <2>1, FinishedRow DEF Close
<1>10. ASSUME NEW e \in Executions, MonitorWrites(e) PROVE LedgerTypes' /\ Budget
  <2>1. observed[e] \in Observations
    BY <1>1 DEF ChannelTypes
  <2> QED
    BY <1>1, <1>2, <1>10, <2>1, ObservedRow DEF MonitorWrites, LedgerTypes
<1>11. CASE Request
  BY <1>1, <1>2, <1>11 DEF Request, LedgerTypes, Rows
<1>12. CASE Boot
  BY <1>1, <1>2, <1>12 DEF Boot, LedgerTypes, Rows, ledger
<1> QED
  BY <1>3, <1>4, <1>5, <1>6, <1>7, <1>8, <1>9, <1>10, <1>11, <1>12, LedgerKept
  DEF Next, WorkerStep, MonitorStep, Ledgerless

--------------------------------------------------------------------------------
\* What a signal, a kill and a drop do to the processes of a group.
LEMMA Signalled ==
    ASSUME ProcessTypes, NEW g, Signal(g)
    PROVE  strayed' \subseteq Groups /\ (g \notin reused => strayed' = strayed)
  BY DEF ProcessTypes, Signal

LEMMA Killed ==
    ASSUME ProcessTypes, NEW g \in Groups, NEW left \in {"gone", "zombie"}, Kill(g, left)
    PROVE  /\ anchor' \in [Groups -> {"gone", "alive", "zombie"}]
           /\ \A h \in Groups : h # g => anchor'[h] = anchor[h]
           /\ anchor[g] = "gone" => anchor'[g] = "gone"
           /\ anchor[g] = "alive" => anchor'[g] = left
           /\ anchor[g] = "zombie" => anchor'[g] = "zombie"
           /\ helpers' = helpers \ {g} /\ escaped' = escaped /\ reused' = reused
           /\ strayed' \subseteq Groups /\ (g \notin reused => strayed' = strayed)
<1>1. strayed' \subseteq Groups /\ (g \notin reused => strayed' = strayed)
  BY Signalled DEF Kill
<1> QED
  BY <1>1 DEF ProcessTypes, Kill

LEMMA AgentsKilled ==
    ASSUME ProcessTypes, NEW g \in Groups, NEW left \in {"gone", "bad"}, AgentKilled(g, left)
    PROVE  /\ agent' \in [Groups -> {"gone", "working", "ok", "bad"}]
           /\ agent'[g] # "working"
           /\ \A h \in Groups : h # g => agent'[h] = agent[h]
  BY DEF ProcessTypes, AgentKilled

\* Steps that leave all processes alone.
Processless ==
    \/ Dispatch \/ StopEarly \/ Refuse \/ Persist \/ FallBack \/ Record \/ Close
    \/ StartFails \/ ResetFails \/ Abandon \/ AgentReports
    \/ (\E e \in Executions : MonitorWrites(e) \/ MonitorEnds(e) \/ MonitorFails(e))
    \/ Expire \/ Request \/ Stop \/ Drained

LEMMA ProcessesKept == Processless \/ UNCHANGED vars => UNCHANGED processes
<1>1. ASSUME \/ Dispatch \/ StopEarly \/ Refuse \/ Persist \/ FallBack \/ Record \/ Close
             \/ StartFails \/ ResetFails \/ Abandon \/ AgentReports
             \/ Expire \/ Request \/ Stop \/ Drained
      PROVE  UNCHANGED processes
  BY <1>1 DEF Dispatch, StopEarly, Refuse, Persist, FallBack, Record, Close, StartFails,
      ResetFails, Abandon, AgentReports, Expire, Request, Stop, Drained
<1>2. ASSUME NEW e \in Executions, MonitorWrites(e) \/ MonitorEnds(e) \/ MonitorFails(e)
      PROVE  UNCHANGED processes
  BY <1>2 DEF MonitorWrites, MonitorEnds, MonitorFails
<1> QED
  BY <1>1, <1>2 DEF Processless, vars

LEMMA ProcessStep == TypeInv /\ [Next]_vars => ProcessTypes'
<1> SUFFICES ASSUME TypeInv, [Next]_vars PROVE ProcessTypes'
  OBVIOUS
<1>1. ProcessTypes
  BY TypeParts DEF TypeInv
<1>2. worker # "idle" => Group \in Groups
  BY GroupType
<1>3. CASE UNCHANGED processes
  BY <1>1, <1>3 DEF processes, ProcessTypes
<1>4. CASE StartAnchor
  BY <1>1, <1>2, <1>4 DEF StartAnchor, ProcessTypes
<1>5. ASSUME Group \in Groups, Kill(Group, "gone"), UNCHANGED agent PROVE ProcessTypes'
  BY <1>1, <1>5, Killed DEF ProcessTypes
<1>6. CASE StopAnchored \/ AnchoredFails
  BY <1>2, <1>5, <1>6 DEF StopAnchored, AnchoredFails, StopGroup
<1>7. CASE Spawn
  BY <1>1, <1>2, <1>7 DEF Spawn, ProcessTypes
<1>8. ASSUME Group \in Groups, Kill(Group, "zombie"), agent' = [agent EXCEPT ![Group] = "gone"]
      PROVE  ProcessTypes'
  BY <1>1, <1>8, Killed DEF ProcessTypes
<1>9. CASE AwaitExit \/ Terminated
  BY <1>2, <1>8, <1>9 DEF AwaitExit, Terminated, Exited
<1>10. CASE Interrupt \/ DeliveryFails
  BY <1>1, <1>10, Signalled DEF Interrupt, DeliveryFails, Terminate, ProcessTypes
<1>11. CASE GraceOver
  BY <1>1, <1>2, <1>11, Killed, AgentsKilled DEF GraceOver, ProcessTypes
<1>12. ASSUME Group \in Groups, DropGroup PROVE ProcessTypes'
  BY <1>1, <1>3, <1>12, Killed, AgentsKilled DEF DropGroup, ProcessTypes
<1>13. CASE SupervisionFails \/ Join
  BY <1>2, <1>12, <1>13 DEF SupervisionFails, Join
<1>14. CASE Reap
  BY <1>1, <1>2, <1>14 DEF Reap, ProcessTypes
<1>15. ASSUME NEW g \in Groups, AgentExits(g) \/ HelperStarts(g) \/ HelperEscapes(g) \/ Reuse(g)
       PROVE  ProcessTypes'
  <2>1. CASE AgentExits(g)
    BY <1>1, <2>1 DEF AgentExits, ProcessTypes
  <2>2. CASE HelperStarts(g) \/ HelperEscapes(g) \/ Reuse(g)
    BY <1>1, <2>2 DEF HelperStarts, HelperEscapes, Reuse, ProcessTypes
  <2> QED
    BY <1>15, <2>1, <2>2
<1>16. ASSUME NEW rebooted \in BOOLEAN, Die(rebooted) PROVE ProcessTypes'
  BY <1>1, <1>16 DEF Die, ProcessTypes
<1>17. CASE Boot
  <2>1. row.anchor # None => row.anchor \in Groups
    BY TypeParts DEF TypeInv, LedgerTypes, Rows
  <2>2. CASE StopRecorded
    BY <1>1, <1>3, <2>1, <2>2, Killed, AgentsKilled DEF StopRecorded, ProcessTypes
  <2> QED
    BY <1>3, <1>17, <2>2 DEF Boot
<1> QED
  BY <1>3, <1>4, <1>6, <1>7, <1>9, <1>10, <1>11, <1>13, <1>14, <1>15, <1>16, <1>17,
     ProcessesKept
  DEF Next, WorkerStep, MonitorStep, Processless

--------------------------------------------------------------------------------
\* What ends a worker leaves nothing of it.
LEMMA WorkerEnded ==
    ASSUME EndWorker
    PROVE  ExecutionTypes' /\ ChannelTypes' /\ worker' = "idle"
  BY NothingObserved
  DEF EndWorker, ExecutionTypes, ChannelTypes, Executions, Steps, Observations

LEMMA ReturnTypes ==
    ASSUME ExecutionTypes, UNCHANGED signals,
           NEW v \in {"ok", "bad", "error", "cancelled", "timed out"}, Returns(v)
    PROVE  ExecutionTypes'
  BY DEF Returns, ExecutionTypes, Steps, signals

LEMMA Interruptions == Interruption \in {"cancelled", "timed out"}
  BY DEF Interruption

\* Steps that leave the execution and its signals alone.
Executionless ==
    \/ AgentReports
    \/ (\E g \in Groups : AgentExits(g) \/ HelperStarts(g) \/ HelperEscapes(g) \/ Reuse(g))
    \/ GraceOver \/ Request \/ Drained \/ Boot \/ (\E e \in Executions : MonitorWrites(e))

LEMMA ExecutionKept == Executionless \/ UNCHANGED vars => UNCHANGED <<execution, signals>>
  BY DEF Executionless, AgentReports, AgentExits, HelperStarts, HelperEscapes, Reuse, GraceOver,
     Request, Drained, Boot, MonitorWrites, vars

LEMMA ExecutionStep == TypeInv /\ [Next]_vars => ExecutionTypes'
<1> SUFFICES ASSUME TypeInv, [Next]_vars PROVE ExecutionTypes'
  OBVIOUS
<1>1. ExecutionTypes /\ ProcessTypes /\ LedgerTypes
  BY TypeParts DEF TypeInv
<1>2. CASE UNCHANGED <<execution, signals>>
  BY <1>1, <1>2 DEF execution, signals, ExecutionTypes
<1>3. CASE Dispatch
  BY <1>1, <1>3 DEF Dispatch, ExecutionTypes, LedgerTypes, Rows, signals, Steps
<1>4. CASE StopEarly \/ Refuse \/ StartFails \/ StopAnchored \/ AnchoredFails \/ SupervisionFails
  BY <1>1, <1>4, ReturnTypes, Interruptions
  DEF StopEarly, Refuse, StartFails, StopAnchored, AnchoredFails, StopGroup, SupervisionFails
<1>5. CASE StartAnchor \/ Persist \/ Spawn \/ Reap
  BY <1>1, <1>5 DEF StartAnchor, Persist, Spawn, Reap, ExecutionTypes, Steps, signals
<1>6. CASE AwaitExit \/ Terminated
  BY <1>1, <1>6 DEF AwaitExit, Terminated, Exited, ExecutionTypes, Steps, signals
<1>7. CASE Interrupt \/ DeliveryFails
  BY <1>1, <1>7, Interruptions
  DEF Interrupt, DeliveryFails, Terminate, ExecutionTypes, Steps, signals
<1>8. CASE Join
  BY <1>1, <1>8 DEF Join, Returns, ExecutionTypes, Steps, signals
<1>9. CASE FallBack
  BY <1>1, <1>9, NothingObserved DEF FallBack, ExecutionTypes, Executions, Steps, signals
<1>10. CASE Record
  BY <1>1, <1>10 DEF Record, ExecutionTypes, Steps, signals
<1>11. CASE Close \/ ResetFails \/ Abandon \/ \E rebooted \in BOOLEAN : Die(rebooted)
  BY <1>11, WorkerEnded DEF Close, ResetFails, Abandon, Die
<1>12. ASSUME NEW e \in Executions, MonitorEnds(e) \/ MonitorFails(e) PROVE ExecutionTypes'
  BY <1>1, <1>12 DEF MonitorEnds, MonitorFails, ExecutionTypes, execution
<1>13. CASE Expire \/ Stop
  BY <1>1, <1>13 DEF Expire, Stop, ExecutionTypes, execution
<1> QED
  BY <1>2, <1>3, <1>4, <1>5, <1>6, <1>7, <1>8, <1>9, <1>10, <1>11, <1>12, <1>13, ExecutionKept
  DEF Next, WorkerStep, MonitorStep, Executionless

\* Steps that leave the channels and the monitors alone.
Channelless ==
    \/ StopEarly \/ Refuse \/ StartFails \/ StartAnchor \/ StopAnchored \/ AnchoredFails \/ Spawn
    \/ AwaitExit \/ Interrupt \/ DeliveryFails \/ Terminated \/ GraceOver \/ SupervisionFails
    \/ Reap \/ Join \/ Expire \/ Request \/ Stop \/ Drained \/ Boot
    \/ \E g \in Groups : AgentExits(g) \/ HelperStarts(g) \/ HelperEscapes(g) \/ Reuse(g)

LEMMA ChannelsKept == Channelless \/ UNCHANGED vars => UNCHANGED channels
<1>1. ASSUME \/ StopEarly \/ Refuse \/ StartFails \/ StartAnchor \/ StopAnchored
             \/ AnchoredFails \/ Spawn \/ AwaitExit \/ Interrupt \/ DeliveryFails
      PROVE  UNCHANGED channels
  BY <1>1 DEF StopEarly, Refuse, StartFails, StartAnchor, StopAnchored, AnchoredFails,
     StopGroup, Spawn, AwaitExit, Exited, Interrupt, DeliveryFails, Terminate
<1>2. ASSUME \/ Terminated \/ GraceOver \/ SupervisionFails \/ Reap \/ Join \/ Expire
             \/ Request \/ Stop \/ Drained \/ Boot
      PROVE  UNCHANGED channels
  BY <1>2 DEF Terminated, Exited, GraceOver, SupervisionFails, Reap, Join, Expire, Request,
     Stop, Drained, Boot
<1>3. ASSUME NEW g \in Groups, AgentExits(g) \/ HelperStarts(g) \/ HelperEscapes(g) \/ Reuse(g)
      PROVE  UNCHANGED channels
  BY <1>3 DEF AgentExits, HelperStarts, HelperEscapes, Reuse
<1> QED
  BY <1>1, <1>2, <1>3 DEF Channelless, vars

LEMMA ChannelStep == TypeInv /\ [Next]_vars => ChannelTypes'
<1> SUFFICES ASSUME TypeInv, [Next]_vars PROVE ChannelTypes'
  OBVIOUS
<1>1. ChannelTypes /\ exec \in Executions /\ resumed \in Groups \cup {None}
  BY TypeParts DEF TypeInv, ExecutionTypes
<1>2. CASE UNCHANGED channels
  BY <1>1, <1>2 DEF channels, ChannelTypes
<1>3. CASE Dispatch \/ Record \/ FallBack
  BY <1>1, <1>3, NothingObserved
  DEF Dispatch, Record, FallBack, MonitorsReplaced, ChannelTypes, Executions
<1>4. ASSUME NEW o \in Observations, UpdateObservation(o), UNCHANGED monitors PROVE ChannelTypes'
  BY <1>1, <1>4 DEF UpdateObservation, ChannelTypes
<1>5. CASE Persist
  <2>1. [Blank EXCEPT !.anchor = Group] \in Observations
    BY <1>5, GroupType DEF Persist, Blank, Observations
  <2> QED
    BY <1>4, <1>5, <2>1 DEF Persist
<1>6. CASE AgentReports
  <2> DEFINE s == IF resumed = None THEN Group ELSE resumed
  <2>1. s \in Groups \cup {None}
    BY <1>1, <1>6, GroupType DEF AgentReports
  <2>2. observed[exec] \in Observations
    BY <1>1 DEF ChannelTypes
  <2> HIDE DEF s
  <2>3. [observed[exec] EXCEPT !.session = s] \in Observations
    BY <2>1, <2>2 DEF Observations
  <2> QED
    BY <1>4, <1>6, <2>3 DEF AgentReports, s
<1>7. CASE Close \/ ResetFails \/ Abandon \/ \E rebooted \in BOOLEAN : Die(rebooted)
  BY <1>7, WorkerEnded DEF Close, ResetFails, Abandon, Die
<1>8. ASSUME NEW e \in Executions, MonitorWrites(e) \/ MonitorEnds(e) \/ MonitorFails(e)
      PROVE  ChannelTypes'
  BY <1>1, <1>8 DEF MonitorWrites, MonitorEnds, MonitorFails, ChannelTypes
<1> QED
  BY <1>2, <1>3, <1>5, <1>6, <1>7, <1>8, ChannelsKept
  DEF Next, WorkerStep, MonitorStep, Channelless

LEMMA HostStep == TypeInv /\ [Next]_vars => HostTypes'
<1> SUFFICES ASSUME TypeInv, [Next]_vars PROVE HostTypes'
  OBVIOUS
<1>1. HostTypes /\ MaxTroubles \in Nat
  BY TypeParts, ExecutionAssumption DEF TypeInv
<1>2. CASE UNCHANGED host
  BY <1>1, <1>2 DEF host, HostTypes
<1>3. CASE Trouble
  BY <1>1, <1>3 DEF Trouble, HostTypes
<1>4. ASSUME NEW rebooted \in BOOLEAN, Die(rebooted) PROVE HostTypes'
  BY <1>1, <1>4 DEF Die, HostTypes
<1>5. CASE Stop \/ Drained \/ Boot
  BY <1>1, <1>5 DEF Stop, Drained, Boot, HostTypes
<1>6. CASE StartFails \/ AnchoredFails \/ DeliveryFails \/ SupervisionFails \/ ResetFails \/ Abandon
  BY <1>3, <1>6 DEF StartFails, AnchoredFails, DeliveryFails, SupervisionFails, ResetFails, Abandon
<1>7. ASSUME NEW e \in Executions, MonitorWrites(e) \/ MonitorEnds(e) \/ MonitorFails(e)
      PROVE  HostTypes'
  BY <1>2, <1>3, <1>7 DEF MonitorWrites, MonitorEnds, MonitorFails
<1>8. CASE WorkerStep
  BY <1>2, <1>8 DEF WorkerStep, StopEarly, Refuse, StartAnchor, Persist, StopAnchored, Spawn,
     AwaitExit, Exited, Interrupt, Terminated, GraceOver, Reap, Join, FallBack, Record, Close
<1>9. CASE Dispatch \/ AgentReports \/ Expire \/ Request
  BY <1>2, <1>9 DEF Dispatch, AgentReports, Expire, Request
<1>10. ASSUME NEW g \in Groups, AgentExits(g) \/ HelperStarts(g) \/ HelperEscapes(g) \/ Reuse(g)
       PROVE  HostTypes'
  BY <1>2, <1>10 DEF AgentExits, HelperStarts, HelperEscapes, Reuse
<1>11. CASE UNCHANGED vars
  BY <1>2, <1>11 DEF vars
<1> QED
  BY <1>4, <1>5, <1>6, <1>7, <1>8, <1>9, <1>10, <1>11 DEF Next, MonitorStep

\* Who may dispatch, open a run or close one.
LEMMA ServedStep == TypeInv /\ [Next]_vars => Served'
<1> SUFFICES ASSUME TypeInv, [Next]_vars PROVE Served'
  OBVIOUS
<1>1. /\ LedgerTypes /\ ExecutionTypes /\ ChannelTypes /\ Served
      /\ (task' = "queued" => run' <= MaxAttempts)
  BY TypeParts, LedgerStep DEF TypeInv
<1>2. ASSUME UNCHANGED <<run, daemon>>, row'.outcome = row.outcome,
             worker # "idle" \/ worker' = "idle"
      PROVE  Served'
  BY <1>1, <1>2 DEF Served, Open
<1>3. CASE UNCHANGED ledger /\ UNCHANGED daemon /\ (worker # "idle" \/ worker' = "idle")
  BY <1>2, <1>3 DEF ledger
<1>4. CASE \/ StopEarly \/ Refuse \/ StartAnchor \/ StopAnchored \/ Spawn \/ AwaitExit
           \/ Interrupt \/ Terminated \/ GraceOver \/ Reap \/ Join
  BY <1>3, <1>4 DEF StopEarly, Refuse, StartAnchor, StopAnchored, StopGroup, Spawn, AwaitExit,
     Exited, Interrupt, Terminate, Terminated, GraceOver, Reap, Join, host
<1>5. CASE \/ StartFails \/ AnchoredFails \/ DeliveryFails \/ SupervisionFails \/ AgentReports
           \/ Expire
  BY <1>3, <1>5 DEF StartFails, AnchoredFails, StopGroup, DeliveryFails, Terminate,
     SupervisionFails, AgentReports, Expire, Trouble, host
<1>6. ASSUME NEW e \in Executions, MonitorWrites(e) \/ MonitorEnds(e) \/ MonitorFails(e)
      PROVE  Served'
  <2>1. UNCHANGED <<task, run, worker, daemon>>
    BY <1>6 DEF MonitorWrites, MonitorEnds, MonitorFails, Trouble, ledger, execution, host
  <2>2. row'.outcome = row.outcome
    <3>1. observed[e] \in Observations /\ row \in Rows
      BY <1>1 DEF ChannelTypes, LedgerTypes
    <3> QED
      BY <1>6, <3>1, ObservedRow DEF MonitorWrites, MonitorEnds, MonitorFails, ledger
  <2> QED
    BY <1>1, <2>1, <2>2 DEF Served, Open
<1>7. ASSUME NEW g \in Groups, AgentExits(g) \/ HelperStarts(g) \/ HelperEscapes(g) \/ Reuse(g)
      PROVE  Served'
  BY <1>1, <1>7 DEF AgentExits, HelperStarts, HelperEscapes, Reuse, Served, Open, ledger,
     execution, host
<1>8. CASE Dispatch
  BY <1>1, <1>8 DEF Dispatch, Served, Open, Row, LedgerTypes, host
<1>9. CASE Persist
  <2>1. [Blank EXCEPT !.anchor = Group] \in Observations
    BY <1>9, GroupType DEF Persist, Blank, Observations
  <2> QED
    BY <1>1, <1>2, <1>9, <2>1, ObservedRow DEF Persist, LedgerTypes, host
<1>10. CASE FallBack
  BY <1>1, <1>2, <1>10, ResetRow DEF FallBack, LedgerTypes, host
<1>11. CASE Record
  <2>1. observed[exec] \in Observations
    BY <1>1 DEF ChannelTypes, ExecutionTypes
  <2> QED
    BY <1>1, <1>2, <1>11, <2>1, ObservedRow DEF Record, LedgerTypes, host
<1>12. CASE Close \/ ResetFails \/ Abandon \/ \E rebooted \in BOOLEAN : Die(rebooted)
  BY <1>1, <1>12, WorkerEnded DEF Close, ResetFails, Abandon, Die, Served
<1>13. CASE Request
  BY <1>1, <1>13 DEF Request, Served, Open, LedgerTypes, Rows, execution, host
<1>14. CASE Stop \/ Drained
  BY <1>1, <1>14 DEF Stop, Drained, Served, Open, ledger, execution
<1>15. CASE Boot
  BY <1>1, <1>15 DEF Boot, Served, execution
<1>16. CASE UNCHANGED vars
  BY <1>1, <1>16 DEF vars, Served, Open, ledger, execution, host
<1> QED
  BY <1>4, <1>5, <1>6, <1>7, <1>8, <1>9, <1>10, <1>11, <1>12, <1>13, <1>14, <1>15, <1>16
  DEF Next, WorkerStep, MonitorStep

LEMMA TypesNext == TypeInv /\ [Next]_vars => TypeInv'
<1> SUFFICES ASSUME TypeInv, [Next]_vars PROVE TypeInv'
  OBVIOUS
<1>1. LedgerTypes' /\ ProcessTypes' /\ ExecutionTypes' /\ ChannelTypes' /\ HostTypes' /\ Served'
  BY LedgerStep, ProcessStep, ExecutionStep, ChannelStep, HostStep, ServedStep
<1> QED
  BY <1>1, TypeParts, PTL DEF TypeInv

\* The ledger, the processes, the execution and its channels keep their types: no
\* recovery has more runs than its budget, and every group a worker names is one of its
\* own run.
THEOREM TypeCorrect == Spec => []TypeOK
<1>1. TypeInv => TypeOK
  BY DEF TypeInv
<1> QED
  BY <1>1, TypesInit, TypesNext, PTL DEF Spec

--------------------------------------------------------------------------------
\* A cancellation decides.

LEMMA BindStep == TypeInv /\ RequestsBind /\ [Next]_vars => RequestsBind'
<1> SUFFICES ASSUME TypeInv, RequestsBind, [Next]_vars PROVE RequestsBind'
  OBVIOUS
<1>1. LedgerTypes /\ ExecutionTypes /\ ChannelTypes
  BY TypeParts DEF TypeInv
<1>2. ASSUME row'.outcome = row.outcome, row'.requested = row.requested
      PROVE  RequestsBind'
  BY <1>2 DEF RequestsBind
<1>3. CASE UNCHANGED ledger
  BY <1>2, <1>3 DEF ledger
<1>4. CASE Dispatch
  BY <1>4 DEF Dispatch, Row, RequestsBind
<1>5. CASE Persist
  <2>1. [Blank EXCEPT !.anchor = Group] \in Observations
    BY <1>5, GroupType DEF Persist, Blank, Observations
  <2> QED
    BY <1>1, <1>2, <1>5, <2>1, ObservedRow DEF Persist, LedgerTypes
<1>6. CASE FallBack
  BY <1>1, <1>2, <1>6, ResetRow DEF FallBack, LedgerTypes
<1>7. CASE Record
  <2>1. observed[exec] \in Observations
    BY <1>1 DEF ChannelTypes, ExecutionTypes
  <2> QED
    BY <1>1, <1>2, <1>7, <2>1, ObservedRow DEF Record, LedgerTypes
<1>8. ASSUME NEW e \in Executions, MonitorWrites(e) PROVE RequestsBind'
  <2>1. observed[e] \in Observations
    BY <1>1 DEF ChannelTypes
  <2> QED
    BY <1>1, <1>2, <1>8, <2>1, ObservedRow DEF MonitorWrites, LedgerTypes
<1>9. CASE ResetFails
  BY <1>1, <1>9, FinishedRow DEF ResetFails, RequestsBind
<1>10. CASE Close
  <2>1. Outcome \in {"succeeded", "failed", "cancelled"} /\ (result # "timed out") \in BOOLEAN
    BY DEF Outcome
  <2> QED
    BY <1>1, <1>10, <2>1, FinishedRow DEF Close, RequestsBind
<1>11. CASE Request
  BY <1>1, <1>11 DEF Request, Open, LedgerTypes, Rows, RequestsBind
<1>12. CASE Boot
  <2>1. CASE ~Open /\ UNCHANGED ledger
    BY <1>3, <2>1
  <2>2. CASE row' = [row EXCEPT !.outcome = IF row.requested THEN "cancelled" ELSE "failed"]
    BY <1>1, <2>2 DEF LedgerTypes, Rows, RequestsBind
  <2> QED
    BY <1>12, <2>1, <2>2 DEF Boot, ledger
<1> QED
  BY <1>3, <1>4, <1>5, <1>6, <1>7, <1>8, <1>9, <1>10, <1>11, <1>12, LedgerKept
  DEF Next, WorkerStep, MonitorStep, Ledgerless

\* Whatever comes first of exit, deadline, fallback, crash and recovery, a run with an
\* accepted cancellation ends cancelled.
THEOREM RequestsDecide == Spec => []RequestsBind
<1>1. Init => RequestsBind
  BY DEF Init, Row, RequestsBind
<1> QED
  BY <1>1, TypesInit, TypesNext, BindStep, PTL DEF Spec

--------------------------------------------------------------------------------
\* Where agents live.

Lives(g) == agent[g] = "working" \/ g \in helpers

LEMMA Membership == \A g : Members(g) # {} <=> Lives(g)
  BY DEF Members, Lives

\* What the execution under way has observed, and who listens to it.
Reports ==
    /\ worker = "idle" => exec = 1 /\ observed[exec].anchor = None
    /\ observed[exec].anchor \in {None, Group}
    /\ monitors \subseteq {exec}

\* A group is held, and its anchor there, as long as the worker may signal the group, and
\* the ledger names the group before the agent is spawned.
Supervised ==
    /\ worker \in {"anchored", "persisted", "running", "terminating"} => held
    /\ worker \in {"anchored", "persisted", "running"} => anchor[Group] = "alive"
    /\ worker = "terminating" => anchor[Group] # "gone"
    /\ worker = "joining" => ~held
    /\ worker \in {"persisted", "running", "terminating"} => row.anchor = Group

\* Nobody lives while the worker is at another step, nor without a worker while the
\* daemon is up.
Attended == worker \notin {"running", "terminating"} /\ (worker # "idle" \/ daemon # "down")
Nobody == \A g \in Groups : ~Lives(g)
Quiet == Attended => Nobody

\* Whoever lives has an anchor, and the row of an open run names it.
Anchored ==
    \A g \in Groups : Lives(g) => /\ anchor[g] = "alive" /\ row.anchor = g
                                  /\ g[1] = run /\ Open

\* Others get only process ids of anchors that are gone, and no signal.
OwnSignals == (\A g \in reused : anchor[g] = "gone") /\ strayed = {}

AgentInv == TypeInv /\ Reports /\ Supervised /\ Quiet /\ Anchored /\ OwnSignals

LEMMA ReportsStep == TypeInv /\ Reports /\ [Next]_vars => Reports'
<1> SUFFICES ASSUME TypeInv, Reports, [Next]_vars PROVE Reports'
  OBVIOUS
<1>1. LedgerTypes /\ ExecutionTypes /\ ChannelTypes
  BY TypeParts DEF TypeInv
<1>2. ASSUME UNCHANGED <<run, exec, observed>>, monitors' \subseteq monitors,
             worker' = "idle" => worker = "idle"
      PROVE  Reports'
  BY <1>2 DEF Reports, Group
<1>3. CASE \/ StopEarly \/ Refuse \/ StartFails \/ StartAnchor \/ StopAnchored
           \/ AnchoredFails \/ Spawn \/ AwaitExit \/ Interrupt \/ DeliveryFails
  BY <1>2, <1>3 DEF StopEarly, Refuse, StartFails, StartAnchor, StopAnchored, AnchoredFails,
     StopGroup, Spawn, AwaitExit, Exited, Interrupt, DeliveryFails, Terminate, Returns, ledger,
     channels
<1>4. CASE \/ Terminated \/ GraceOver \/ SupervisionFails \/ Reap \/ Join \/ Expire
           \/ Request \/ Stop \/ Drained \/ Boot \/ Record
  BY <1>2, <1>4 DEF Terminated, Exited, GraceOver, SupervisionFails, Reap, Join, Expire, Request,
     Stop, Drained, Boot, Record, Returns, ledger, channels, execution
<1>5. ASSUME NEW e \in Executions, MonitorWrites(e) \/ MonitorEnds(e) \/ MonitorFails(e)
      PROVE  Reports'
  BY <1>2, <1>5 DEF MonitorWrites, MonitorEnds, MonitorFails, ledger, execution
<1>6. ASSUME NEW g \in Groups, AgentExits(g) \/ HelperStarts(g) \/ HelperEscapes(g) \/ Reuse(g)
      PROVE  Reports'
  BY <1>2, <1>6 DEF AgentExits, HelperStarts, HelperEscapes, Reuse, ledger, execution, channels
<1>7. CASE Dispatch
  BY <1>7 DEF Dispatch, Reports
<1>8. CASE Persist
  <2>1. observed' = [observed EXCEPT ![exec] = [Blank EXCEPT !.anchor = Group]]
        /\ UNCHANGED <<run, exec, monitors>> /\ worker' = "persisted"
    BY <1>8 DEF Persist, UpdateObservation
  <2>2. observed'[exec'].anchor = Group'
    BY <1>1, <2>1 DEF ExecutionTypes, ChannelTypes, Blank, Group
  <2> QED
    BY <2>1, <2>2 DEF Reports
<1>9. CASE AgentReports
  <2>1. /\ \E s : observed' = [observed EXCEPT ![exec] = [observed[exec] EXCEPT !.session = s]]
        /\ UNCHANGED <<run, exec, monitors, worker>>
    BY <1>9 DEF AgentReports, UpdateObservation, ledger, execution
  <2>2. observed'[exec'].anchor = observed[exec].anchor
    <3>1. observed[exec] \in Observations
      BY <1>1 DEF ExecutionTypes, ChannelTypes
    <3> QED
      BY <1>1, <2>1, <3>1 DEF ExecutionTypes, ChannelTypes, Observations
  <2> QED
    BY <2>1, <2>2 DEF Reports, Group
<1>10. CASE FallBack
  <2>1. observed' = [observed EXCEPT ![2] = Blank] /\ exec' = 2 /\ monitors' = {2}
        /\ worker' = "starting"
    BY <1>10 DEF FallBack, MonitorsReplaced
  <2>2. observed'[2].anchor = None
    BY <1>1, <2>1 DEF ChannelTypes, Executions, Blank
  <2> QED
    BY <2>1, <2>2 DEF Reports
<1>11. CASE Close \/ ResetFails \/ Abandon \/ \E rebooted \in BOOLEAN : Die(rebooted)
  <2>1. EndWorker
    BY <1>11 DEF Close, ResetFails, Abandon, Die
  <2>2. observed'[1] = Blank /\ exec' = 1 /\ monitors' = {}
    BY <2>1 DEF EndWorker, Executions
  <2> QED
    BY <2>2 DEF Reports, Blank
<1>12. CASE UNCHANGED vars
  BY <1>2, <1>12 DEF vars, ledger, execution, channels
<1> QED
  BY <1>3, <1>4, <1>5, <1>6, <1>7, <1>8, <1>9, <1>10, <1>11, <1>12
  DEF Next, WorkerStep, MonitorStep

LEMMA AgentTypes ==
    ASSUME AgentInv
    PROVE  /\ LedgerTypes /\ ProcessTypes /\ ExecutionTypes /\ ChannelTypes /\ Served
           /\ worker # "idle" => Group \in Groups /\ Group # None
           /\ row.anchor # None => row.anchor \in Groups
<1>1. None \notin Groups
  BY DEF None, Groups
<1> QED
  BY <1>1, TypeParts, GroupType DEF AgentInv, TypeInv, LedgerTypes, Rows

\* The monitor that is left writes the anchor of the execution under way or none.
LEMMA MonitorStays ==
    ASSUME AgentInv, NEW e \in Executions, MonitorWrites(e)
    PROVE  /\ row'.anchor \in {row.anchor, Group} /\ row'.outcome = row.outcome
           /\ worker = "idle" => row'.anchor = row.anchor
<1>1. e = exec
  BY DEF AgentInv, Reports, MonitorWrites
<1>2. row \in Rows /\ observed[e] \in Observations
  BY AgentTypes DEF LedgerTypes, ChannelTypes
<1> QED
  BY <1>1, <1>2, ObservedRow DEF MonitorWrites, AgentInv, Reports

LEMMA RequestedRow ==
    LedgerTypes /\ Request => row'.anchor = row.anchor /\ row'.outcome = row.outcome
  BY DEF LedgerTypes, Request, Rows

LEMMA SupervisedStep == AgentInv /\ [Next]_vars => Supervised'
<1> SUFFICES ASSUME AgentInv, [Next]_vars PROVE Supervised'
  OBVIOUS
<1>1. /\ LedgerTypes /\ ProcessTypes /\ ExecutionTypes /\ Served /\ Supervised
      /\ worker # "idle" => Group \in Groups /\ Group # None
  BY AgentTypes DEF AgentInv
<1>2. ASSUME UNCHANGED <<worker, anchor, held, run, exec>>, row'.anchor = row.anchor
      PROVE  Supervised'
  BY <1>1, <1>2 DEF Supervised, Group
<1>3. ASSUME worker' \in {"idle", "starting", "returned", "reaping", "recording"}
      PROVE  Supervised'
  BY <1>3 DEF Supervised
<1>4. CASE \/ Dispatch \/ StopEarly \/ Refuse \/ StartFails \/ StopAnchored \/ AnchoredFails
           \/ AwaitExit \/ Terminated \/ SupervisionFails \/ Join
  BY <1>3, <1>4 DEF Dispatch, StopEarly, Refuse, StartFails, StopAnchored, AnchoredFails,
     StopGroup, AwaitExit, Terminated, Exited, SupervisionFails, Join, Returns
<1>5. CASE \/ FallBack \/ ResetFails \/ Record \/ Close \/ Abandon
           \/ \E rebooted \in BOOLEAN : Die(rebooted)
  BY <1>3, <1>5 DEF FallBack, ResetFails, Record, Close, Abandon, Die, EndWorker
<1>6. CASE AgentReports \/ Expire \/ Stop \/ Drained \/ UNCHANGED vars
  BY <1>2, <1>6 DEF AgentReports, Expire, Stop, Drained, vars, ledger, processes, execution
<1>7. CASE Request
  BY <1>1, <1>2, <1>7, RequestedRow DEF Request, processes, execution
<1>8. ASSUME NEW e \in Executions, MonitorEnds(e) \/ MonitorFails(e) PROVE Supervised'
  BY <1>2, <1>8 DEF MonitorEnds, MonitorFails, ledger, processes, execution
<1>9. ASSUME NEW g \in Groups, AgentExits(g) \/ HelperStarts(g) \/ HelperEscapes(g) \/ Reuse(g)
      PROVE  Supervised'
  BY <1>2, <1>9 DEF AgentExits, HelperStarts, HelperEscapes, Reuse, ledger, execution
<1>10. ASSUME NEW e \in Executions, MonitorWrites(e) PROVE Supervised'
  <2>1. UNCHANGED <<worker, anchor, held, run, exec>>
    BY <1>10 DEF MonitorWrites, processes, execution
  <2> QED
    BY <1>1, <1>10, <2>1, MonitorStays DEF Supervised, Group
<1>11. CASE StartAnchor
  BY <1>1, <1>11 DEF StartAnchor, Supervised, ProcessTypes, ledger, Group
<1>12. CASE Persist
  <2>1. [Blank EXCEPT !.anchor = Group] \in Observations
        /\ [Blank EXCEPT !.anchor = Group].anchor = Group
    BY <1>1, <1>12 DEF Persist, Blank, Observations
  <2>2. row'.anchor = Group
    BY <1>1, <1>12, <2>1, ObservedRow DEF Persist, LedgerTypes
  <2> QED
    BY <1>1, <1>12, <2>2 DEF Persist, Supervised, processes, Group
<1>13. CASE Spawn \/ Interrupt \/ DeliveryFails
  BY <1>1, <1>13 DEF Spawn, Interrupt, DeliveryFails, Terminate, Supervised, ledger, Group
<1>14. CASE GraceOver
  <2>1. anchor'[Group] # "gone"
    BY <1>1, <1>14, Killed DEF GraceOver, Supervised, ProcessTypes
  <2> QED
    BY <1>1, <1>14, <2>1 DEF GraceOver, Supervised, ledger, execution, Group
<1>15. CASE Reap
  BY <1>15 DEF Reap, Supervised
<1>16. CASE Boot
  BY <1>1, <1>3, <1>16 DEF Boot, Served, execution
<1> QED
  BY <1>4, <1>5, <1>6, <1>7, <1>8, <1>9, <1>10, <1>11, <1>12, <1>13, <1>14, <1>15, <1>16
  DEF Next, WorkerStep, MonitorStep

\* Whoever lives beside a worker lives in its group; a kill of the recorded group leaves
\* nobody.
LEMMA KilledAll ==
    ASSUME AgentInv, NEW g \in Groups, NEW left \in {"gone", "zombie"}, Kill(g, left),
           agent' \in [Groups -> {"gone", "working", "ok", "bad"}], agent'[g] # "working",
           \A h \in Groups : h # g => agent'[h] = agent[h],
           \A h \in Groups : Lives(h) => h = g
    PROVE  Nobody'
<1>1. helpers' = helpers \ {g}
  BY DEF Kill
<1> QED
  BY <1>1 DEF Nobody, Lives

LEMMA DroppedAll ==
    ASSUME AgentInv, held, DropGroup, Group \in Groups,
           \A h \in Groups : Lives(h) => h = Group
    PROVE  Nobody'
<1>1. Kill(Group, "gone") /\ AgentKilled(Group, "gone")
  BY DEF DropGroup
<1>2. /\ agent' \in [Groups -> {"gone", "working", "ok", "bad"}] /\ agent'[Group] # "working"
      /\ \A h \in Groups : h # Group => agent'[h] = agent[h]
  BY <1>1, AgentsKilled, AgentTypes
<1> QED
  BY <1>1, <1>2, KilledAll

LEMMA QuietStep == AgentInv /\ [Next]_vars => Quiet'
<1> SUFFICES ASSUME AgentInv, [Next]_vars, Attended' PROVE Nobody'
  BY DEF Quiet
<1>1. /\ ProcessTypes /\ ExecutionTypes /\ Served /\ Supervised /\ Quiet /\ Anchored
      /\ worker # "idle" => Group \in Groups
      /\ row.anchor # None => row.anchor \in Groups
  BY AgentTypes DEF AgentInv
<1>2. Attended => Nobody
  BY <1>1 DEF Quiet
<1>3. worker \in {"running", "terminating"} => \A h \in Groups : Lives(h) => h = Group
  BY <1>1 DEF Supervised, Anchored
<1>4. ASSUME Attended, UNCHANGED <<agent, helpers>> PROVE Nobody'
  BY <1>2, <1>4 DEF Nobody, Lives
<1>5. CASE \/ Dispatch \/ StopEarly \/ Refuse \/ StartFails \/ StartAnchor \/ Persist
           \/ FallBack \/ ResetFails \/ Record \/ Close \/ Abandon \/ Reap
  <2>1. Attended
    BY <1>5 DEF Dispatch, StopEarly, Refuse, StartFails, StartAnchor, Persist, FallBack,
       ResetFails, Record, Close, Abandon, Reap, Attended
  <2>2. UNCHANGED <<agent, helpers>>
    BY <1>5 DEF Dispatch, StopEarly, Refuse, StartFails, StartAnchor, Persist, FallBack,
       ResetFails, Record, Close, Abandon, Reap, processes
  <2> QED
    BY <1>4, <2>1, <2>2
<1>6. CASE StopAnchored \/ AnchoredFails
  <2>1. Attended /\ helpers' \subseteq helpers /\ UNCHANGED agent
    BY <1>6 DEF StopAnchored, AnchoredFails, StopGroup, Kill, Attended
  <2> QED
    BY <1>2, <2>1 DEF Nobody, Lives
<1>7. CASE Join
  <2>1. Attended /\ ~held /\ DropGroup
    BY <1>1, <1>7 DEF Join, Attended, Supervised
  <2> QED
    BY <1>4, <2>1 DEF DropGroup, processes
<1>8. CASE Spawn \/ Interrupt \/ DeliveryFails \/ GraceOver \/ AgentReports
  BY <1>8 DEF Spawn, Interrupt, DeliveryFails, Terminate, GraceOver, AgentReports, execution,
     Attended
<1>9. CASE AwaitExit \/ Terminated
  <2>1. Kill(Group, "zombie") /\ agent' = [agent EXCEPT ![Group] = "gone"] /\ Group \in Groups
        /\ worker \in {"running", "terminating"}
    BY <1>1, <1>9 DEF AwaitExit, Terminated, Exited
  <2> QED
    BY <1>1, <1>3, <2>1, KilledAll DEF ProcessTypes
<1>10. CASE SupervisionFails
  BY <1>1, <1>3, <1>10, DroppedAll DEF SupervisionFails, Supervised
<1>11. ASSUME NEW g \in Groups, AgentExits(g) \/ HelperStarts(g) \/ HelperEscapes(g) \/ Reuse(g)
       PROVE  Nobody'
  <2>1. Attended
    BY <1>11 DEF AgentExits, HelperStarts, HelperEscapes, Reuse, Attended, execution, host
  <2>2. \A h \in Groups : agent[h] # "working" /\ h \notin helpers
    BY <1>2, <2>1 DEF Nobody, Lives
  <2> QED
    BY <1>1, <1>11, <2>2 DEF AgentExits, HelperStarts, HelperEscapes, Reuse, Nobody,
       Lives, ProcessTypes
<1>12. CASE Expire \/ Request \/ UNCHANGED vars
  BY <1>4, <1>12 DEF Expire, Request, vars, Attended, processes, execution, host
<1>13. ASSUME NEW e \in Executions, MonitorWrites(e) \/ MonitorEnds(e) \/ MonitorFails(e)
       PROVE  Nobody'
  BY <1>4, <1>13 DEF MonitorWrites, MonitorEnds, MonitorFails, Trouble, Attended, processes, execution,
     host
<1>14. CASE Stop \/ Drained
  BY <1>4, <1>14 DEF Stop, Drained, Attended, processes, execution
<1>15. CASE \E rebooted \in BOOLEAN : Die(rebooted)
  BY <1>15 DEF Die, EndWorker, Attended
<1>16. CASE Boot
  <2>1. CASE Open /\ StopRecorded
    <3> DEFINE g == row.anchor
    <3>1. CASE g # None /\ anchor[g] = "alive"
      <4>1. Kill(g, "gone") /\ AgentKilled(g, "gone") /\ g \in Groups
        BY <1>1, <2>1, <3>1 DEF StopRecorded
      <4>2. /\ agent' \in [Groups -> {"gone", "working", "ok", "bad"}] /\ agent'[g] # "working"
            /\ \A h \in Groups : h # g => agent'[h] = agent[h]
        BY <1>1, <4>1, AgentsKilled
      <4> QED
        BY <1>1, <4>1, <4>2, KilledAll DEF Anchored
    <3>2. CASE ~(g # None /\ anchor[g] = "alive")
      <4>1. UNCHANGED processes
        BY <2>1, <3>2 DEF StopRecorded
      <4>2. Nobody
        <5>1. None \notin Groups
          BY DEF None, Groups
        <5> QED
          BY <1>1, <3>2, <5>1 DEF Anchored, Nobody
      <4> QED
        BY <4>1, <4>2 DEF processes, Nobody, Lives
    <3> QED
      BY <3>1, <3>2
  <2>2. CASE ~Open /\ UNCHANGED processes
    BY <1>1, <2>2 DEF Anchored, Nobody, Lives, processes
  <2> QED
    BY <1>16, <2>1, <2>2 DEF Boot
<1> QED
  BY <1>5, <1>6, <1>7, <1>8, <1>9, <1>10, <1>11, <1>12, <1>13, <1>14, <1>15, <1>16
  DEF Next, WorkerStep, MonitorStep

\* Somebody may live after a step only beside a worker that waits for its agent, or
\* without a daemon.
LEMMA AnchoredStep == AgentInv /\ [Next]_vars => Anchored'
<1> SUFFICES ASSUME AgentInv, [Next]_vars, ~Attended' PROVE Anchored'
  <2>1. CASE Attended'
    BY <2>1, QuietStep DEF Quiet, Nobody, Anchored
  <2> QED
    BY <2>1
<1>1. /\ LedgerTypes /\ ProcessTypes /\ Served /\ Supervised /\ Quiet /\ Anchored
      /\ worker # "idle" => Group \in Groups
  BY AgentTypes DEF AgentInv
<1>2. ASSUME \A h \in Groups : Lives(h)' => Lives(h) /\ anchor'[h] = anchor[h],
             row'.anchor = row.anchor, row'.outcome = row.outcome, run' = run
      PROVE  Anchored'
  BY <1>1, <1>2 DEF Anchored, Open
<1>3. ASSUME UNCHANGED <<agent, helpers, anchor, row, run>> PROVE Anchored'
  BY <1>2, <1>3 DEF Lives
<1>4. CASE Spawn
  <2>1. /\ row.anchor = Group /\ anchor[Group] = "alive" /\ Open /\ Group[1] = run
        /\ Nobody /\ Group \in Groups
    BY <1>1, <1>4 DEF Spawn, Supervised, Served, Quiet, Attended, Group
  <2>2. \A h \in Groups : Lives(h)' => h = Group
    BY <1>1, <1>4, <2>1 DEF Spawn, Lives, Nobody, ProcessTypes
  <2> QED
    BY <1>4, <2>1, <2>2 DEF Spawn, Anchored, ledger, Open
<1>5. CASE Interrupt \/ DeliveryFails \/ AgentReports \/ Expire \/ Stop \/ Drained \/ UNCHANGED vars
  BY <1>3, <1>5 DEF Interrupt, DeliveryFails, Terminate, AgentReports, Expire, Stop, Drained, vars,
     ledger, processes
<1>6. CASE GraceOver
  <2>1. Kill(Group, "zombie") /\ AgentKilled(Group, "bad") /\ Group \in Groups /\ UNCHANGED ledger
    BY <1>1, <1>6 DEF GraceOver
  <2>2. /\ helpers' = helpers \ {Group} /\ \A h \in Groups : h # Group => anchor'[h] = anchor[h]
        /\ agent'[Group] # "working"
        /\ \A h \in Groups : h # Group => agent'[h] = agent[h]
    BY <1>1, <2>1, Killed, AgentsKilled
  <2> QED
    BY <1>2, <2>1, <2>2 DEF Lives, ledger
<1>7. ASSUME NEW g \in Groups, AgentExits(g) \/ HelperStarts(g) \/ HelperEscapes(g) \/ Reuse(g)
      PROVE  Anchored'
  <2>1. UNCHANGED <<anchor, row, run>>
    BY <1>7 DEF AgentExits, HelperStarts, HelperEscapes, Reuse, ledger
  <2>2. \A h \in Groups : Lives(h)' => Lives(h)
    BY <1>1, <1>7 DEF AgentExits, HelperStarts, HelperEscapes, Reuse, Lives, ProcessTypes
  <2> QED
    BY <1>2, <2>1, <2>2
<1>8. CASE Request
  BY <1>1, <1>2, <1>8, RequestedRow DEF Request, processes, Lives
<1>9. ASSUME NEW e \in Executions, MonitorEnds(e) \/ MonitorFails(e) PROVE Anchored'
  BY <1>3, <1>9 DEF MonitorEnds, MonitorFails, ledger, processes
<1>10. ASSUME NEW e \in Executions, MonitorWrites(e) PROVE Anchored'
  <2>1. row'.anchor \in {row.anchor, Group} /\ row'.outcome = row.outcome
        /\ (worker = "idle" => row'.anchor = row.anchor)
    BY <1>10, MonitorStays
  <2>2. UNCHANGED <<agent, helpers, anchor, run, worker, daemon>>
    BY <1>10 DEF MonitorWrites, processes, execution, host
  <2>3. row'.anchor = row.anchor
    BY <1>1, <2>1, <2>2 DEF Attended, Supervised
  <2> QED
    BY <1>2, <2>1, <2>2, <2>3 DEF Lives
<1>11. ASSUME NEW rebooted \in BOOLEAN, Die(rebooted) PROVE Anchored'
  <2>1. /\ UNCHANGED <<row, run>> /\ helpers' \subseteq helpers
        /\ \A h \in Groups : agent'[h] = "working" => agent[h] = "working"
    BY <1>1, <1>11 DEF Die, ledger, ProcessTypes
  <2>2. \A h \in Groups : Lives(h)' => Lives(h) /\ anchor[h] = "alive" /\ ~rebooted
    BY <1>1, <1>11, <2>1 DEF Lives, Anchored, Die
  <2>3. \A h \in Groups : Lives(h)' => anchor'[h] = anchor[h]
    BY <1>1, <1>11, <2>2 DEF Die, ProcessTypes
  <2> QED
    BY <1>2, <2>1, <2>2, <2>3
<1>12. CASE \/ Dispatch \/ StopEarly \/ Refuse \/ StartFails \/ StartAnchor \/ Persist
            \/ StopAnchored \/ AnchoredFails \/ AwaitExit \/ Terminated \/ SupervisionFails \/ Join
  <2>1. worker' \notin {"running", "terminating", "idle"}
    BY <1>12 DEF Dispatch, StopEarly, Refuse, StartFails, StartAnchor, Persist, StopAnchored,
       AnchoredFails, StopGroup, AwaitExit, Terminated, Exited, SupervisionFails, Join, Returns
  <2> QED
    BY <2>1 DEF Attended
<1>13. CASE Reap \/ FallBack \/ Record
  BY <1>13 DEF Reap, FallBack, Record, Attended
<1>14. CASE Close \/ ResetFails \/ Abandon
  <2>1. worker' = "idle" /\ daemon' = daemon /\ worker # "idle"
    BY <1>14 DEF Close, ResetFails, Abandon, EndWorker, Trouble, host
  <2> QED
    BY <1>1, <2>1 DEF Attended, Served
<1>15. CASE Boot
  BY <1>1, <1>15 DEF Boot, Served, Attended, execution
<1> QED
  BY <1>4, <1>5, <1>6, <1>7, <1>8, <1>9, <1>10, <1>11, <1>12, <1>13, <1>14, <1>15
  DEF Next, WorkerStep, MonitorStep

LEMMA OwnSignalsStep == AgentInv /\ [Next]_vars => OwnSignals'
<1> SUFFICES ASSUME AgentInv, [Next]_vars PROVE OwnSignals'
  OBVIOUS
<1>1. /\ ProcessTypes /\ Supervised /\ OwnSignals
      /\ worker # "idle" => Group \in Groups
      /\ row.anchor # None => row.anchor \in Groups
  BY AgentTypes DEF AgentInv
<1>2. ASSUME NEW g \in Groups, NEW left \in {"gone", "zombie"}, Kill(g, left), anchor[g] # "gone"
      PROVE  OwnSignals'
  <2>1. g \notin reused
    BY <1>1, <1>2 DEF OwnSignals
  <2>2. /\ strayed' = strayed /\ reused' = reused
        /\ \A h \in Groups : anchor[h] = "gone" => anchor'[h] = "gone"
    BY <1>1, <1>2, <2>1, Killed
  <2> QED
    BY <1>1, <2>2 DEF OwnSignals, ProcessTypes
<1>3. CASE UNCHANGED processes
  BY <1>1, <1>3 DEF OwnSignals, processes
<1>4. CASE StartAnchor
  BY <1>1, <1>4 DEF StartAnchor, OwnSignals
<1>5. CASE StopAnchored \/ AnchoredFails \/ AwaitExit \/ Terminated \/ GraceOver
  <2>1. (Kill(Group, "gone") \/ Kill(Group, "zombie")) /\ Group \in Groups /\ anchor[Group] # "gone"
    BY <1>1, <1>5 DEF StopAnchored, AnchoredFails, StopGroup, AwaitExit, Terminated, Exited,
       GraceOver, Supervised
  <2> QED
    BY <1>2, <2>1
<1>6. CASE Spawn
  BY <1>1, <1>6 DEF Spawn, OwnSignals
<1>7. CASE Interrupt \/ DeliveryFails
  <2>1. Group \notin reused
    BY <1>1, <1>7 DEF Interrupt, DeliveryFails, Supervised, OwnSignals
  <2> QED
    BY <1>1, <1>7, <2>1 DEF Interrupt, DeliveryFails, Terminate, Signal, OwnSignals
<1>8. CASE SupervisionFails \/ Join
  <2>1. CASE held
    <3>1. Kill(Group, "gone") /\ Group \in Groups /\ anchor[Group] # "gone"
      BY <1>1, <1>8, <2>1 DEF SupervisionFails, Join, DropGroup, Supervised
    <3> QED
      BY <1>2, <3>1
  <2>2. CASE ~held
    BY <1>3, <1>8, <2>2 DEF SupervisionFails, Join, DropGroup
  <2> QED
    BY <2>1, <2>2
<1>9. CASE Reap
  BY <1>1, <1>9 DEF Reap, OwnSignals, ProcessTypes
<1>10. ASSUME NEW g \in Groups, AgentExits(g) \/ HelperStarts(g) \/ HelperEscapes(g) \/ Reuse(g)
       PROVE  OwnSignals'
  BY <1>1, <1>10 DEF AgentExits, HelperStarts, HelperEscapes, Reuse, OwnSignals
<1>11. CASE \E rebooted \in BOOLEAN : Die(rebooted)
  BY <1>1, <1>11 DEF Die, OwnSignals, ProcessTypes
<1>12. CASE Boot
  <2>1. CASE row.anchor # None /\ anchor[row.anchor] = "alive" /\ StopRecorded
    BY <1>1, <1>2, <2>1 DEF StopRecorded
  <2>2. CASE ~(row.anchor # None /\ anchor[row.anchor] = "alive") /\ StopRecorded
    BY <1>3, <2>2 DEF StopRecorded
  <2> QED
    BY <1>3, <1>12, <2>1, <2>2 DEF Boot
<1> QED
  BY <1>3, <1>4, <1>5, <1>6, <1>7, <1>8, <1>9, <1>10, <1>11, <1>12, ProcessesKept
  DEF Next, WorkerStep, MonitorStep, Processless

LEMMA AgentsInit == Init => AgentInv
<1> SUFFICES ASSUME Init PROVE AgentInv
  OBVIOUS
<1>1. Reports
  BY DEF Init, Reports, Executions, Blank
<1>2. Supervised /\ OwnSignals
  BY DEF Init, Supervised, OwnSignals
<1>3. Quiet /\ Anchored
  BY DEF Init, Quiet, Attended, Anchored, Lives
<1> QED
  BY <1>1, <1>2, <1>3, TypesInit DEF AgentInv

LEMMA AgentsKept == Spec => []AgentInv
<1>1. AgentInv /\ [Next]_vars => AgentInv'
  BY TypesNext, ReportsStep, SupervisedStep, QuietStep, AnchoredStep, OwnSignalsStep DEF AgentInv
<1> QED
  BY <1>1, AgentsInit, PTL DEF Spec

\* Whatever lives in a group of a run, the run is open and its row names that group, over
\* any number of crashes, restarts, fallbacks and failing steps: recover_run of the daemon
\* that starts next finds every agent there is.
THEOREM AgentsStayAnchored == Spec => []AgentsAreAnchored
<1>1. AgentInv => AgentsAreAnchored
  BY Membership DEF AgentInv, Anchored, AgentsAreAnchored
<1> QED
  BY <1>1, AgentsKept, PTL

\* stop, the drop of RunProcessGroup and stop_recorded_process signal a process id only
\* while the anchor the run started under it has not been reaped.
THEOREM SignalsReachTheirOwn == Spec => []SignalsStayHome
<1>1. AgentInv => SignalsStayHome
  BY DEF AgentInv, OwnSignals, SignalsStayHome
<1> QED
  BY <1>1, AgentsKept, PTL

--------------------------------------------------------------------------------
\* The task queue.

\* A step opens a run of a queued task, closes the open one, or does neither.
LedgerMoves ==
    \/ UNCHANGED <<task, run>> /\ row'.outcome = row.outcome
    \/ task = "queued" /\ task' = "running" /\ run' = run + 1 /\ row'.outcome = "running"
    \/ /\ Open /\ row'.outcome \in {"succeeded", "failed", "cancelled"} /\ run' = run
       /\ \/ task' \in {"succeeded", "failed", "cancelled"}
          \/ task' = "queued" /\ run <= MaxAttempts

LEMMA FinishMoves ==
    ASSUME LedgerTypes, Open, NEW o \in {"succeeded", "failed", "cancelled"}, NEW b \in BOOLEAN,
           Finish(o, b)
    PROVE  LedgerMoves
  BY DEF LedgerTypes, Finish, Rows, LedgerMoves

LEMMA LedgerMove == TypeInv /\ [Next]_vars => LedgerMoves
<1> SUFFICES ASSUME TypeInv, [Next]_vars PROVE LedgerMoves
  OBVIOUS
<1>1. LedgerTypes /\ ExecutionTypes /\ ChannelTypes /\ (worker # "idle" => Open)
  BY TypeParts DEF TypeInv, Served
<1>2. ASSUME UNCHANGED <<task, run>>, row'.outcome = row.outcome PROVE LedgerMoves
  BY <1>2 DEF LedgerMoves
<1>3. CASE UNCHANGED ledger
  BY <1>2, <1>3 DEF ledger
<1>4. CASE Dispatch
  BY <1>4 DEF Dispatch, Row, LedgerMoves
<1>5. CASE Persist
  <2>1. [Blank EXCEPT !.anchor = Group] \in Observations
    BY <1>5, GroupType DEF Persist, Blank, Observations
  <2> QED
    BY <1>1, <1>2, <1>5, <2>1, ObservedRow DEF Persist, LedgerTypes
<1>6. CASE FallBack
  BY <1>1, <1>2, <1>6, ResetRow DEF FallBack, LedgerTypes
<1>7. CASE Record
  <2>1. observed[exec] \in Observations
    BY <1>1 DEF ChannelTypes, ExecutionTypes
  <2> QED
    BY <1>1, <1>2, <1>7, <2>1, ObservedRow DEF Record, LedgerTypes
<1>8. ASSUME NEW e \in Executions, MonitorWrites(e) PROVE LedgerMoves
  <2>1. observed[e] \in Observations
    BY <1>1 DEF ChannelTypes
  <2> QED
    BY <1>1, <1>2, <1>8, <2>1, ObservedRow DEF MonitorWrites, LedgerTypes
<1>9. CASE ResetFails
  BY <1>1, <1>9, FinishMoves DEF ResetFails
<1>10. CASE Close
  <2>1. Outcome \in {"succeeded", "failed", "cancelled"} /\ (result # "timed out") \in BOOLEAN
    BY DEF Outcome
  <2> QED
    BY <1>1, <1>10, <2>1, FinishMoves DEF Close
<1>11. CASE Request
  BY <1>1, <1>2, <1>11 DEF Request, LedgerTypes, Rows
<1>12. CASE Boot
  <2>1. CASE ~Open /\ UNCHANGED ledger
    BY <1>3, <2>1
  <2>2. CASE Open /\ row' = [row EXCEPT !.outcome = IF row.requested THEN "cancelled" ELSE "failed"]
    <3>1. row'.outcome \in {"failed", "cancelled"}
      BY <1>1, <2>2 DEF LedgerTypes, Rows
    <3> QED
      BY <1>12, <2>2, <3>1 DEF Boot, LedgerMoves
  <2> QED
    BY <1>12, <2>1, <2>2 DEF Boot
<1> QED
  BY <1>3, <1>4, <1>5, <1>6, <1>7, <1>8, <1>9, <1>10, <1>11, <1>12, LedgerKept
  DEF Next, WorkerStep, MonitorStep, Ledgerless

\* The run is open as long as its task runs, and it is not the zeroth.
OpenTask == (Open <=> task = "running") /\ (task = "running" => run >= 1)

LEMMA OpenTaskStep == TypeInv /\ OpenTask /\ [Next]_vars => OpenTask'
<1>1. TypeInv => run \in Nat
  BY TypeParts, ExecutionAssumption DEF TypeInv, LedgerTypes
<1> QED
  BY <1>1, LedgerMove DEF LedgerMoves, OpenTask, Open

LEMMA QueueStep ==
    ASSUME TypeInv, OpenTask, [Next]_vars, TypeInv', OpenTask'
    PROVE  Queue!Next
<1>1. /\ LedgerTypes /\ LedgerTypes' /\ MaxAttempts \in Nat
      /\ run \in Nat /\ run' \in Nat /\ run' <= MaxAttempts + 1
      /\ task' = "queued" => run' <= MaxAttempts
  BY LedgerStep, TypeParts, ExecutionAssumption DEF TypeInv, LedgerTypes
<1>2. task' \in Queue!Status
  BY <1>1 DEF LedgerTypes, Queue!Status
<1>3. Spent' \in 0 .. MaxAttempts
  BY <1>1 DEF Spent, OpenTask
<1>4. \/ task' = task /\ Spent' = Spent
      \/ task = "queued" /\ task' = "running" /\ Spent' = Spent
      \/ task = "running" /\ task' = "queued" /\ Spent < MaxAttempts /\ Spent' = Spent + 1
      \/ task = "running" /\ task' \in {"succeeded", "failed", "cancelled"} /\ Spent' = 0
  BY <1>1, LedgerMove DEF LedgerMoves, Spent, OpenTask
<1>5. Queue!Stays(Only) \/ Queue!Start(Only) \/ Queue!Retry(Only) \/ Queue!Conclude(Only)
  BY <1>4 DEF Queue!Stays, Queue!Start, Queue!Retry, Queue!Conclude, Queue!Moves
<1> QED
  BY <1>2, <1>3, <1>5 DEF Queue!Next

\* Each execution closes the run it was started for, or leaves it to the next daemon,
\* which closes it: no path through exits, fallbacks, monitors and failing writes
\* concludes the task twice, revives it or spends more attempts than it has.
THEOREM ExecutionIsAQueue == Spec => ImplementsTaskQueue
<1>1. Init => Queue!Init /\ OpenTask
  BY DEF Init, Row, Open, Spent, OpenTask, Queue!Init, Queue!Status
<1>2. TypeInv /\ OpenTask /\ [Next]_vars => [Queue!Next]_(Queue!vars)
  BY QueueStep, TypesNext, OpenTaskStep
<1> QED
  BY <1>1, <1>2, TypesInit, TypesNext, OpenTaskStep, PTL
  DEF Spec, ImplementsTaskQueue, Queue!Spec
===============================================================================

---------------------------- MODULE WorkEntryProofs ----------------------------
(***************************************************************************)
(* Proofs about the ways work enters the ledger and reaches an agent:      *)
(* ScheduleCursors for any owners, definitions and periods, TriggerPoll    *)
(* for any tickets and any number of pollers, and TicketAuthorization for  *)
(* any number of moves and failures, of which instances are taken because  *)
(* the modules name their initial states and steps alike.                  *)
(***************************************************************************)
EXTENDS ScheduleCursors, SequenceTheorems, FiniteSetTheorems, TLAPS

CONSTANTS Tickets, Pollers, EventTickets, MaxEntries
VARIABLES inside, entry, observed, ticketTasks, seen, latest, overtaken

CONSTANTS MaxAttempts, MaxMoves, MaxTroubles
VARIABLES kind, open, matched, blank, event, option, trusted, poll, row, keys, task, payload,
          attempt, worker, valid, moves, troubles

Poll == INSTANCE TriggerPoll WITH tasks <- ticketTasks
Ticket == INSTANCE TicketAuthorization

LEMMA NextOccurrenceType ==
    ASSUME NEW f \in Definitions, NEW t \in Nat
    PROVE  NextOccurrence(f, t) \in Nat
<1>1. Period[f] \in Nat \ {0}
  BY ScheduleAssumption
<1>2. t \div Period[f] \in Nat
  BY <1>1, SMT
<1> QED
  BY <1>1, <1>2, SMT DEF NextOccurrence

LEMMA ResolvedType ==
    ASSUME TypeOK, NEW d \in Owners
    PROVE  Resolved(d) \in Nat
BY NextOccurrenceType, ScheduleAssumption DEF TypeOK, Resolved

LEMMA InsertedType ==
    ASSUME TypeOK, NEW t \in Nat, NEW f \in Definitions
    PROVE  Inserted(t, f) \in Seq(Task)
<1>1. [instant |-> t, definition |-> f] \in Task
  BY DEF Task
<1> QED
  BY <1>1 DEF TypeOK, Inserted

LEMMA TypesInit == Init => TypeOK
BY DEF Init, TypeOK, Leases, Steps

LEMMA TypesNext == TypeOK /\ [Next]_vars => TypeOK'
<1> SUFFICES ASSUME TypeOK, [Next]_vars PROVE TypeOK'
  OBVIOUS
<1> USE DEF TypeOK, Leases, Steps
<1>1. CASE Advance
  BY <1>1 DEF Advance, owner
<1>2. ASSUME NEW d \in Owners,
             Register(d) \/ Stop(d) \/ Crash(d) \/ LeaseLapses(d) \/ TickBegins(d)
      PROVE  TypeOK'
  <2>1. CASE Register(d)
    BY <2>1 DEF Register
  <2>2. CASE Stop(d)
    BY <2>2 DEF Stop
  <2>3. CASE Crash(d)
    BY <2>3 DEF Crash
  <2>4. CASE LeaseLapses(d)
    BY <2>4 DEF LeaseLapses
  <2>5. CASE TickBegins(d)
    BY <2>5 DEF TickBegins
  <2> QED
    BY <1>2, <2>1, <2>2, <2>3, <2>4, <2>5
<1>3. ASSUME NEW d \in Owners,
             InitializeRefused(d) \/ EnqueueFails(d) \/ EvaluationEnds(d)
      PROVE  TypeOK'
  BY <1>3 DEF InitializeRefused, EnqueueFails, EvaluationEnds
<1>4. ASSUME NEW d \in Owners, Initialize(d) PROVE TypeOK'
  <2>1. Resolved(d) \in Nat /\ Definition[d] \in Definitions
    BY ResolvedType, ScheduleAssumption
  <2> QED
    BY <1>4, <2>1 DEF Initialize
<1>5. ASSUME NEW d \in Owners, EnqueueOccurrence(d) PROVE TypeOK'
  <2>1. /\ Definition[d] \in Definitions /\ due[d] \in Nat
        /\ NextOccurrence(Definition[d], due[d]) \in Nat
        /\ NextOccurrence(Definition[d], cursor.due) \in Nat
    BY NextOccurrenceType, ScheduleAssumption
  <2>2. tasks' \in Seq(Task)
    BY <1>5, <2>1, InsertedType DEF EnqueueOccurrence
  <2>3. cursor' \in [definition : Definitions \cup {None}, due : Nat]
    BY <1>5, <2>1 DEF EnqueueOccurrence
  <2>4. due' \in [Owners -> Nat] /\ pc' \in [Owners -> Steps]
    BY <1>5, <2>1 DEF EnqueueOccurrence
  <2> QED
    BY <1>5, <2>2, <2>3, <2>4 DEF EnqueueOccurrence
<1>6. CASE UNCHANGED vars
  BY <1>6 DEF vars, owner
<1> QED
  BY <1>1, <1>2, <1>3, <1>4, <1>5, <1>6 DEF Next, Tick

\* The cursor, the owners and the tasks keep their types; due instants are never
\* negative, whatever the definitions.
THEOREM TypeCorrect == Spec => []TypeOK
<1> QED
  BY TypesInit, TypesNext, PTL DEF Spec

-------------------------------------------------------------------------------
\* A step that neither moves the definition of the cursor nor registers a row, and
\* makes nobody live who was not, keeps the agreement.
LEMMA AgreementKept ==
    ASSUME LiveOwnersAgree, cursor'.definition = cursor.definition,
           \A e \in Owners : Live(e)' /\ rows'[e] # None => Live(e) /\ rows'[e] = rows[e]
    PROVE  LiveOwnersAgree'
BY DEF LiveOwnersAgree

\* An owner that is not yet registered has no row of the schedule.
RowsFollowRegistration == \A d \in Owners : pc[d] = "off" => rows[d] = None

AgreeInv == TypeOK /\ RowsFollowRegistration /\ LiveOwnersAgree

LEMMA AgreeInit == Init => RowsFollowRegistration /\ LiveOwnersAgree
BY DEF Init, RowsFollowRegistration, LiveOwnersAgree

LEMMA RowsNext == AgreeInv /\ [Next]_vars => RowsFollowRegistration'
<1> SUFFICES ASSUME TypeOK, RowsFollowRegistration, [Next]_vars
             PROVE  RowsFollowRegistration'
  BY DEF AgreeInv
<1> USE DEF TypeOK, RowsFollowRegistration
<1>1. ASSUME NEW d \in Owners,
             Register(d) \/ Stop(d) \/ Crash(d) \/ LeaseLapses(d) \/ TickBegins(d)
      PROVE  RowsFollowRegistration'
  BY <1>1 DEF Register, Stop, Crash, LeaseLapses, TickBegins
<1>2. ASSUME NEW d \in Owners,
             \/ Initialize(d) \/ InitializeRefused(d) \/ EnqueueFails(d)
             \/ EnqueueOccurrence(d) \/ EvaluationEnds(d)
      PROVE  RowsFollowRegistration'
  BY <1>2 DEF Initialize, InitializeRefused, EnqueueFails, EnqueueOccurrence, EvaluationEnds
<1>3. CASE Advance \/ UNCHANGED vars
  BY <1>3 DEF Advance, vars, owner
<1> QED
  BY <1>1, <1>2, <1>3 DEF Next, Tick

LEMMA AgreeNext == AgreeInv /\ [Next]_vars => LiveOwnersAgree'
<1> SUFFICES ASSUME TypeOK, RowsFollowRegistration, LiveOwnersAgree, [Next]_vars
             PROVE  LiveOwnersAgree'
  BY DEF AgreeInv
<1> USE DEF TypeOK
<1>1. ASSUME NEW d \in Owners, Register(d) PROVE LiveOwnersAgree'
  <2>1. \A e \in Owners : Live(e)' /\ rows'[e] # None => Live(e) /\ rows'[e] = rows[e]
    BY <1>1 DEF Register, Live, Alive, RowsFollowRegistration
  <2> QED
    BY <1>1, <2>1, AgreementKept DEF Register
<1>2. ASSUME NEW d \in Owners, Stop(d) \/ Crash(d) \/ LeaseLapses(d) \/ TickBegins(d)
      PROVE  LiveOwnersAgree'
  <2>1. \A e \in Owners : Live(e)' /\ rows'[e] # None => Live(e) /\ rows'[e] = rows[e]
    BY <1>2 DEF Stop, Crash, LeaseLapses, TickBegins, Live, Alive
  <2> QED
    BY <1>2, <2>1, AgreementKept DEF Stop, Crash, LeaseLapses, TickBegins
<1>3. ASSUME NEW d \in Owners, InitializeRefused(d) \/ EnqueueFails(d) \/ EvaluationEnds(d)
      PROVE  LiveOwnersAgree'
  <2>1. \A e \in Owners : Live(e)' /\ rows'[e] # None => Live(e) /\ rows'[e] = rows[e]
    BY <1>3 DEF InitializeRefused, EnqueueFails, EvaluationEnds, Live, Alive
  <2> QED
    BY <1>3, <2>1, AgreementKept DEF InitializeRefused, EnqueueFails, EvaluationEnds
<1>4. ASSUME NEW d \in Owners, EnqueueOccurrence(d) PROVE LiveOwnersAgree'
  <2>1. \A e \in Owners : Live(e)' /\ rows'[e] # None => Live(e) /\ rows'[e] = rows[e]
    BY <1>4 DEF EnqueueOccurrence, Live, Alive
  <2>2. cursor'.definition = cursor.definition
    BY <1>4 DEF EnqueueOccurrence
  <2> QED
    BY <2>1, <2>2, AgreementKept
<1>5. ASSUME NEW d \in Owners, Initialize(d) PROVE LiveOwnersAgree'
  <2>1. /\ cursor'.definition = Definition[d]
        /\ rows' = [rows EXCEPT ![d] = Definition[d]]
        /\ \A e \in Owners : Live(e)' => Live(e)
    BY <1>5 DEF Initialize, Live, Alive
  <2>2. ASSUME NEW e \in Owners, Live(e)', rows'[e] # None
        PROVE  rows'[e] = Definition[d]
    <3>1. CASE e = d
      BY <2>1, <3>1
    <3>2. CASE e # d
      <4>1. Live(e) /\ rows'[e] = rows[e] /\ rows[e] = cursor.definition
        BY <2>1, <2>2, <3>2 DEF LiveOwnersAgree
      <4>2. rows[e] \in OthersDefinitions(d)
        BY <2>2, <3>2, <4>1 DEF OthersDefinitions
      <4> QED
        BY <1>5, <2>2, <4>1, <4>2 DEF Initialize, Conflict
    <3> QED
      BY <3>1, <3>2
  <2> QED
    BY <2>1, <2>2 DEF LiveOwnersAgree
<1>6. CASE Advance \/ UNCHANGED vars
  BY <1>6 DEF Advance, vars, owner, LiveOwnersAgree, Live, Alive
<1> QED
  BY <1>1, <1>2, <1>3, <1>4, <1>5, <1>6 DEF Next, Tick

\* However many daemons with however many definitions share a ledger, start, stall
\* and die, the live owners of a schedule have one definition: the cursor's.
THEOREM OneDefinitionServed == Spec => []LiveOwnersAgree
<1>1. Init => AgreeInv
  BY TypesInit, AgreeInit DEF AgreeInv
<1>2. AgreeInv /\ [Next]_vars => AgreeInv'
  BY TypesNext, RowsNext, AgreeNext DEF AgreeInv
<1>3. AgreeInv => LiveOwnersAgree
  BY DEF AgreeInv
<1> QED
  BY <1>1, <1>2, <1>3, PTL DEF Spec

-------------------------------------------------------------------------------
LEMMA InstantsNext == TypeOK /\ OneTaskPerInstant /\ [Next]_vars => OneTaskPerInstant'
<1> SUFFICES ASSUME TypeOK, OneTaskPerInstant, [Next]_vars PROVE OneTaskPerInstant'
  OBVIOUS
<1>1. CASE tasks' = tasks
  BY <1>1 DEF OneTaskPerInstant
<1>2. ASSUME NEW d \in Owners, EnqueueOccurrence(d), tasks' # tasks
      PROVE  OneTaskPerInstant'
  <2> DEFINE new == [instant |-> due[d], definition |-> Definition[d]]
  <2>1. /\ tasks' = Append(tasks, new)
        /\ \A k \in DOMAIN tasks : tasks[k].instant # due[d]
    BY <1>2 DEF EnqueueOccurrence, Inserted
  <2>2. /\ tasks \in Seq(Task) /\ Len(tasks) \in Nat /\ DOMAIN tasks = 1 .. Len(tasks)
        /\ new \in Task
    BY LenProperties, ScheduleAssumption DEF TypeOK, Task
  <2>3. /\ DOMAIN tasks' = 1 .. Len(tasks) + 1
        /\ \A k \in 1 .. Len(tasks) : tasks'[k] = tasks[k]
        /\ tasks'[Len(tasks) + 1].instant = due[d]
    BY <2>1, <2>2, AppendProperties
  <2> QED
    BY <2>1, <2>2, <2>3 DEF OneTaskPerInstant
<1> QED
  BY <1>1, <1>2 DEF Next, Tick, Advance, Register, Stop, Crash, LeaseLapses, TickBegins,
     Initialize, InitializeRefused, EvaluationEnds, EnqueueFails, vars

\* An instant creates at most one task across restarts, takeovers by another
\* definition, and clocks that were read long before the transaction.
THEOREM InstantsAreUnique == Spec => []OneTaskPerInstant
<1>1. Init => OneTaskPerInstant
  BY DEF Init, OneTaskPerInstant
<1> QED
  BY <1>1, InstantsNext, TypeCorrect, PTL DEF Spec

-------------------------------------------------------------------------------
\* What is registered is the definition of the registrant.
RowsAreOwn == \A d \in Owners : rows[d] \in {None, Definition[d]}

LEMMA OwnNext == TypeOK /\ RowsAreOwn /\ [Next]_vars => RowsAreOwn'
<1> SUFFICES ASSUME TypeOK, RowsAreOwn, [Next]_vars PROVE RowsAreOwn'
  OBVIOUS
<1>1. CASE rows' = rows
  BY <1>1 DEF RowsAreOwn
<1>2. ASSUME NEW d \in Owners, Stop(d) \/ Initialize(d) PROVE RowsAreOwn'
  <2>1. PICK x \in {None, Definition[d]} : rows' = [rows EXCEPT ![d] = x]
    BY <1>2 DEF Stop, Initialize
  <2>2. rows \in [Owners -> Definitions \cup {None}]
    BY DEF TypeOK
  <2> QED
    BY <2>1, <2>2 DEF RowsAreOwn
<1> QED
  BY <1>1, <1>2 DEF Next, Tick, Advance, Register, Crash, LeaseLapses, TickBegins,
     InitializeRefused, EnqueueOccurrence, EvaluationEnds, EnqueueFails, vars, owner

\* An occurrence between an instant and the one after it is that instant.
LEMMA NothingBetween ==
    ASSUME NEW f \in Definitions, NEW s \in Nat, NEW t \in Nat,
           s <= t, t < NextOccurrence(f, s), t % Period[f] = 0
    PROVE  t = s
<1> DEFINE p == Period[f]
           m == t \div p
           n == s \div p
<1>1. p \in Nat \ {0}
  BY ScheduleAssumption
<1> HIDE DEF p
<1>2. /\ m \in Nat /\ t = p * m
      /\ n \in Nat /\ p * n <= s
  <2>1. t % p = 0
    BY DEF p
  <2> QED
    BY <1>1, <2>1, SMT
<1> HIDE DEF m, n
<1>3. p * m < p * (n + 1)
  <2>1. t < (n + 1) * p
    BY DEF NextOccurrence, p, n
  <2> QED
    BY <1>1, <1>2, <2>1, SMT
<1>4. m <= n
  <2>1. ASSUME m >= n + 1 PROVE p * m >= p * (n + 1)
    BY <1>1, <1>2, <2>1, SMT
  <2> QED
    BY <1>1, <1>2, <1>3, <2>1, SMT
<1>5. p * m <= p * n
  BY <1>1, <1>2, <1>4, SMT
<1>6. t <= s
  BY <1>1, <1>2, <1>5, SMT
<1> QED
  BY <1>6

\* Who resolves beside a live owner of the schedule keeps the stored instant.
LEMMA ServedCursorKept ==
    ASSUME RowsAreOwn, NEW d \in Owners, Initialize(d), NEW e \in Owners, Serving(e)
    PROVE  cursor'.due = cursor.due
<1>1. cursor.definition = Definition[d]
  <2>1. CASE e = d
    BY <2>1, ScheduleAssumption DEF RowsAreOwn, Serving
  <2>2. CASE e # d
    <3>1. cursor.definition \in OthersDefinitions(d)
      BY <2>2 DEF Serving, OthersDefinitions
    <3> QED
      BY <3>1 DEF Initialize, Conflict, Serving
  <2> QED
    BY <2>1, <2>2
<1>2. KeepsDue(d)
  <2>1. CASE e = d
    BY <1>1, <2>1 DEF KeepsDue, Serving, Live
  <2>2. CASE e # d
    BY <1>1, <2>2 DEF KeepsDue, Serving, OthersDefinitions
  <2> QED
    BY <2>1, <2>2
<1> QED
  BY <1>2 DEF Initialize, Resolved

\* The instant that an owner makes the cursor pass gets its task in the same step.
LEMMA PassedIsEnqueued ==
    ASSUME TypeOK, NEW d \in Owners, EnqueueOccurrence(d), NEW t \in Passed
    PROVE  Enqueued(t)'
<1>1. cursor.due \in Nat /\ tasks \in Seq(Task) /\ Definition[d] \in Definitions
  BY ScheduleAssumption DEF TypeOK
<1>2. /\ t \in Nat /\ cursor.due <= t /\ t < cursor'.due
      /\ t % Period[cursor.definition] = 0
  <2>1. cursor'.due \in Nat
    BY TypesNext DEF TypeOK, Next, Tick
  <2> QED
    BY <1>1, <2>1 DEF Passed
<1>3. /\ cursor = [definition |-> Definition[d], due |-> due[d]]
      /\ tasks' = Inserted(due[d], Definition[d])
      /\ cursor' = [cursor EXCEPT !.due = NextOccurrence(Definition[d], @)]
  BY <1>1, <1>2 DEF EnqueueOccurrence
<1>4. t = due[d]
  <2>1. due[d] \in Nat /\ due[d] <= t /\ t % Period[Definition[d]] = 0
        /\ t < NextOccurrence(Definition[d], due[d])
    BY <1>1, <1>2, <1>3
  <2> QED
    BY <1>1, <1>2, <2>1, NothingBetween
<1> DEFINE new == [instant |-> due[d], definition |-> Definition[d]]
<1>5. CASE \E k \in DOMAIN tasks : tasks[k].instant = due[d]
  BY <1>3, <1>4, <1>5 DEF Inserted, Enqueued
<1>6. CASE ~\E k \in DOMAIN tasks : tasks[k].instant = due[d]
  <2>1. tasks' = Append(tasks, new) /\ new \in Task /\ Len(tasks) \in Nat
    BY <1>1, <1>3, <1>6, LenProperties DEF Inserted, Task, TypeOK
  <2>2. DOMAIN tasks' = 1 .. Len(tasks) + 1 /\ tasks'[Len(tasks) + 1] = new
    BY <1>1, <2>1, AppendProperties
  <2>3. Len(tasks) + 1 \in DOMAIN tasks' /\ tasks'[Len(tasks) + 1].instant = t
    BY <1>4, <2>1, <2>2
  <2> QED
    BY <2>3 DEF Enqueued
<1> QED
  BY <1>5, <1>6

LEMMA ServedNext == TypeOK /\ RowsAreOwn /\ [Next]_vars => [ServedInstantsKept]_vars
<1> SUFFICES ASSUME TypeOK, RowsAreOwn, [Next]_vars,
                    NEW e \in Owners, Serving(e), NEW t \in Passed
             PROVE  Enqueued(t)'
  BY DEF ServedInstantsKept
<1>1. cursor.due \in Nat /\ cursor'.due \in Nat
  BY TypesNext DEF TypeOK
<1>2. cursor'.due # cursor.due
  BY <1>1 DEF Passed
<1>3. ASSUME NEW d \in Owners, Initialize(d) PROVE FALSE
  BY <1>2, <1>3, ServedCursorKept
<1>4. ASSUME NEW d \in Owners, EnqueueOccurrence(d) PROVE Enqueued(t)'
  BY <1>4, PassedIsEnqueued
<1> QED
  BY <1>2, <1>3, <1>4 DEF Next, Tick, Advance, Register, Stop, Crash, LeaseLapses, TickBegins,
     InitializeRefused, EvaluationEnds, EnqueueFails, vars, owner

\* While a live owner serves a schedule, its cursor passes no instant that has no
\* task: restarts, stalled and one-shot owners and other definitions skip nothing
\* that somebody was there to enqueue.
THEOREM OnlyDowntimeSkips == Spec => NoServedInstantSkipped
<1>1. Init => RowsAreOwn
  BY DEF Init, RowsAreOwn
<1> QED
  BY <1>1, OwnNext, ServedNext, TypeCorrect, PTL DEF Spec, NoServedInstantSkipped

--------------------------------------------------------------------------------
\* The polls of external sources.

\* A reading as reconcile_ticket_poll gets it.
LEMMA RevisionType ==
    ASSUME NEW t \in Tickets, NEW reading \in Poll!Reading
    PROVE  Poll!Revision(t, reading) \in Nat
BY DEF Poll!Revision, Poll!Reading, Poll!NoRevision

LEMMA RecordedType ==
    ASSUME observed \in [Tickets -> Poll!Observation],
           NEW t \in Tickets, NEW reading \in Poll!Reading
    PROVE  Poll!Recorded(t, reading) \in Poll!Observation
<1>1. Poll!Revision(t, reading) \in Nat /\ reading.matches \in BOOLEAN
  BY RevisionType DEF Poll!Reading
<1> QED
  BY <1>1 DEF Poll!Recorded, Poll!Observation

LEMMA VisitType ==
    ASSUME ticketTasks \in [Tickets -> Seq(Poll!Task)], NEW t \in Tickets, NEW reading
    PROVE  Poll!Visit(t, reading) \in Nat
<1>1. Len(ticketTasks[t]) \in Nat
  BY LenProperties
<1> QED
  BY <1>1 DEF Poll!Visit

\* The row that Reconcile inserts.
NewTask(t, reading) ==
    [revision |-> Poll!Revision(t, reading), visit |-> Poll!Visit(t, reading),
     entry |-> reading.entry, active |-> TRUE]

LEMMA NewTaskType ==
    ASSUME ticketTasks \in [Tickets -> Seq(Poll!Task)],
           NEW t \in Tickets, NEW reading \in Poll!Reading
    PROVE  NewTask(t, reading) \in Poll!Task
<1>1. Poll!Revision(t, reading) \in Nat /\ Poll!Visit(t, reading) \in Nat /\ reading.entry \in Nat
  BY RevisionType, VisitType DEF Poll!Reading
<1> QED
  BY <1>1 DEF NewTask, Poll!Task

\* What a poll under way has read is a reading of every ticket.
LEMMA SeenType ==
    ASSUME seen \in [Pollers -> {Poll!Idle} \cup [Tickets -> Poll!Reading]],
           NEW p \in Pollers, seen[p] # Poll!Idle
    PROVE  \A t \in Tickets : seen[p][t] \in Poll!Reading
OBVIOUS

-------------------------------------------------------------------------------
LEMMA PollTypesInit == Poll!Init => Poll!TypeOK
<1> SUFFICES ASSUME Poll!Init PROVE Poll!TypeOK
  OBVIOUS
<1>1. << >> \in Seq(Poll!Task)
  OBVIOUS
<1>2. [eligible |-> FALSE, revision |-> Poll!NoRevision] \in Poll!Observation
  BY DEF Poll!Observation, Poll!NoRevision
<1>3. [matches |-> FALSE, entry |-> 0] \in Poll!Reading
  BY DEF Poll!Reading
<1> QED
  BY <1>1, <1>2, <1>3 DEF Poll!Init, Poll!TypeOK

LEMMA PollTypesNext == Poll!TypeOK /\ [Poll!Next]_(Poll!vars) => Poll!TypeOK'
<1> SUFFICES ASSUME Poll!TypeOK, [Poll!Next]_(Poll!vars) PROVE Poll!TypeOK'
  OBVIOUS
<1> USE DEF Poll!TypeOK, Poll!history
<1>1. ASSUME NEW t \in Tickets, Poll!Enter(t) PROVE Poll!TypeOK'
  BY <1>1 DEF Poll!Enter
<1>2. ASSUME NEW t \in Tickets, Poll!Leave(t) PROVE Poll!TypeOK'
  BY <1>2 DEF Poll!Leave
<1>3. ASSUME NEW t \in Tickets, Poll!TaskEnds(t) PROVE Poll!TypeOK'
  <2>1. PICK k \in DOMAIN ticketTasks[t] :
             ticketTasks' = [ticketTasks EXCEPT ![t][k].active = FALSE]
    BY <1>3 DEF Poll!TaskEnds
  <2> DEFINE new == [ticketTasks[t][k] EXCEPT !.active = FALSE]
  <2>2. ticketTasks[t] \in Seq(Poll!Task) /\ k \in 1 .. Len(ticketTasks[t])
        /\ ticketTasks[t][k] \in Poll!Task
    BY <2>1, LenProperties, ElementOfSeq
  <2>3. new \in Poll!Task
    BY <2>2 DEF Poll!Task
  <2>4. ticketTasks' = [ticketTasks EXCEPT ![t] = [ticketTasks[t] EXCEPT ![k] = new]]
    BY <2>1
  <2> HIDE DEF new
  <2>5. [ticketTasks[t] EXCEPT ![k] = new] \in Seq(Poll!Task)
    BY <2>2, <2>3, ExceptSeq
  <2> QED
    BY <1>3, <2>4, <2>5 DEF Poll!TaskEnds, Poll!world
<1>4. ASSUME NEW p \in Pollers, Poll!Query(p) PROVE Poll!TypeOK'
  <2>1. [t \in Tickets |-> [matches |-> inside[t], entry |-> entry[t]]] \in [Tickets -> Poll!Reading]
    BY DEF Poll!Reading
  <2> QED
    BY <1>4, <2>1 DEF Poll!Query, Poll!world
<1>5. ASSUME NEW p \in Pollers, Poll!PollFails(p) PROVE Poll!TypeOK'
  BY <1>5 DEF Poll!PollFails, Poll!world
<1>6. ASSUME NEW p \in Pollers, Poll!Reconcile(p) PROVE Poll!TypeOK'
  <2>1. \A t \in Tickets : seen[p][t] \in Poll!Reading
    BY <1>6, SeenType DEF Poll!Reconcile
  <2>2. \A t \in Tickets : Poll!Recorded(t, seen[p][t]) \in Poll!Observation
    BY <2>1, RecordedType
  <2>3. \A t \in Tickets : NewTask(t, seen[p][t]) \in Poll!Task
    BY <2>1, NewTaskType
  <2>4. \A t \in Tickets : Append(ticketTasks[t], NewTask(t, seen[p][t])) \in Seq(Poll!Task)
    BY <2>3
  <2>5. ticketTasks' = [t \in Tickets |-> IF Poll!Enqueues(t, seen[p][t])
                                    THEN Append(ticketTasks[t], NewTask(t, seen[p][t]))
                                    ELSE ticketTasks[t]]
    BY <1>6 DEF Poll!Reconcile, NewTask
  <2>6. ticketTasks' \in [Tickets -> Seq(Poll!Task)]
    BY <2>4, <2>5
  <2>7. /\ observed' = [t \in Tickets |-> Poll!Recorded(t, seen[p][t])]
        /\ seen' = [seen EXCEPT ![p] = Poll!Idle] /\ UNCHANGED Poll!world
    BY <1>6 DEF Poll!Reconcile
  <2>8. latest' \in [Tickets -> Poll!Reading] /\ overtaken' \in [Tickets -> SUBSET Nat]
    <3>1. /\ latest' = [t \in Tickets |-> IF Poll!Older(latest[t], seen[p][t]) THEN seen[p][t]
                                         ELSE latest[t]]
          /\ overtaken' = [t \in Tickets |-> IF Poll!Older(seen[p][t], latest[t])
                 THEN overtaken[t] \cup {seen[p][t].entry, latest[t].entry} ELSE overtaken[t]]
      BY <1>6 DEF Poll!Reconcile, Poll!Remember
    <3>2. \A t \in Tickets : latest[t].entry \in Nat /\ seen[p][t].entry \in Nat
      BY <2>1 DEF Poll!Reading
    <3> QED
      BY <2>1, <3>1, <3>2
  <2> QED
    BY <2>2, <2>6, <2>7, <2>8 DEF Poll!world
<1>7. CASE UNCHANGED Poll!vars
  BY <1>7 DEF Poll!vars, Poll!world
<1> QED
  BY <1>1, <1>2, <1>3, <1>4, <1>5, <1>6, <1>7 DEF Poll!Next

\* Observations, tasks and readings keep their types.
THEOREM PollTypesCorrect == Poll!Spec => []Poll!TypeOK
<1> QED
  BY PollTypesInit, PollTypesNext, PTL DEF Poll!Spec

-------------------------------------------------------------------------------
\* One more task after a list without an active one leaves at most one active.
LEMMA AppendActive ==
    ASSUME NEW s \in Seq(Poll!Task), NEW new \in Poll!Task,
           \A k \in DOMAIN s : ~s[k].active
    PROVE  \A j, k \in DOMAIN Append(s, new) :
             Append(s, new)[j].active /\ Append(s, new)[k].active => j = k
<1>1. Len(s) \in Nat /\ DOMAIN s = 1 .. Len(s)
  BY LenProperties
<1>2. DOMAIN Append(s, new) = 1 .. Len(s) + 1
  BY <1>1, AppendProperties
<1>3. \A k \in 1 .. Len(s) : Append(s, new)[k] = s[k]
  BY AppendProperties
<1> QED
  BY <1>1, <1>2, <1>3

LEMMA ActiveInit == Poll!Init => Poll!OneActiveTaskPerTicket
BY DEF Poll!Init, Poll!OneActiveTaskPerTicket

LEMMA ActiveNext ==
    Poll!TypeOK /\ Poll!OneActiveTaskPerTicket /\ [Poll!Next]_(Poll!vars)
        => Poll!OneActiveTaskPerTicket'
<1> SUFFICES ASSUME Poll!TypeOK, Poll!OneActiveTaskPerTicket, [Poll!Next]_(Poll!vars)
             PROVE  Poll!OneActiveTaskPerTicket'
  OBVIOUS
<1>1. ASSUME NEW t \in Tickets, Poll!TaskEnds(t) PROVE Poll!OneActiveTaskPerTicket'
  <2>1. PICK k \in DOMAIN ticketTasks[t] :
             ticketTasks' = [ticketTasks EXCEPT ![t][k].active = FALSE]
    BY <1>1 DEF Poll!TaskEnds
  <2>2. ticketTasks[t] \in Seq(Poll!Task) /\ ticketTasks[t][k] \in Poll!Task
        /\ ticketTasks \in [Tickets -> Seq(Poll!Task)]
    BY <2>1, LenProperties, ElementOfSeq DEF Poll!TypeOK
  <2>3. \A u \in Tickets : DOMAIN ticketTasks'[u] = DOMAIN ticketTasks[u]
    BY <2>1, <2>2
  <2>4. \A u \in Tickets : \A j \in DOMAIN ticketTasks[u] :
          ticketTasks'[u][j].active => ticketTasks[u][j].active
    BY <2>1, <2>2 DEF Poll!Task
  <2> QED
    BY <2>3, <2>4 DEF Poll!OneActiveTaskPerTicket
<1>2. ASSUME NEW p \in Pollers, Poll!Reconcile(p) PROVE Poll!OneActiveTaskPerTicket'
  <2> SUFFICES ASSUME NEW t \in Tickets
               PROVE  \A j, k \in DOMAIN ticketTasks'[t] :
                        ticketTasks'[t][j].active /\ ticketTasks'[t][k].active => j = k
    BY DEF Poll!OneActiveTaskPerTicket
  <2>1. seen[p][t] \in Poll!Reading /\ ticketTasks \in [Tickets -> Seq(Poll!Task)]
    BY <1>2, SeenType DEF Poll!Reconcile, Poll!TypeOK
  <2>2. NewTask(t, seen[p][t]) \in Poll!Task
    BY <2>1, NewTaskType
  <2>3. ticketTasks'[t] = IF Poll!Enqueues(t, seen[p][t])
                    THEN Append(ticketTasks[t], NewTask(t, seen[p][t]))
                    ELSE ticketTasks[t]
    BY <1>2 DEF Poll!Reconcile, NewTask
  <2>4. CASE Poll!Enqueues(t, seen[p][t])
    <3>1. \A k \in DOMAIN ticketTasks[t] : ~ticketTasks[t][k].active
      BY <2>4 DEF Poll!Enqueues, Poll!HasActiveTask
    <3> QED
      BY <2>1, <2>2, <2>3, <2>4, <3>1, AppendActive
  <2>5. CASE ~Poll!Enqueues(t, seen[p][t])
    BY <2>3, <2>5 DEF Poll!OneActiveTaskPerTicket
  <2> QED
    BY <2>4, <2>5
<1>3. CASE \/ \E t \in Tickets : Poll!Enter(t) \/ Poll!Leave(t)
           \/ \E p \in Pollers : Poll!Query(p) \/ Poll!PollFails(p)
           \/ UNCHANGED Poll!vars
  <2>1. ticketTasks' = ticketTasks
    BY <1>3 DEF Poll!Enter, Poll!Leave, Poll!Query, Poll!PollFails, Poll!vars
  <2> QED
    BY <2>1 DEF Poll!OneActiveTaskPerTicket
<1> QED
  BY <1>1, <1>2, <1>3 DEF Poll!Next

\* However many pollers report a ticket, and in whatever order their readings reach
\* the ledger, it never has two active tasks of the workflow.
THEOREM OneActiveTask == Poll!Spec => []Poll!OneActiveTaskPerTicket
<1> QED
  BY ActiveInit, ActiveNext, PollTypesCorrect, PTL DEF Poll!Spec

-------------------------------------------------------------------------------
\* A row whose key differs from the keys of the list leaves all keys distinct.
SameKey(a, b) == a.revision = b.revision /\ a.visit = b.visit

LEMMA AppendKey ==
    ASSUME NEW s \in Seq(Poll!Task), NEW new \in Poll!Task,
           \A j, k \in DOMAIN s : SameKey(s[j], s[k]) => j = k,
           \A k \in DOMAIN s : ~SameKey(s[k], new)
    PROVE  \A j, k \in DOMAIN Append(s, new) :
             SameKey(Append(s, new)[j], Append(s, new)[k]) => j = k
<1>1. Len(s) \in Nat /\ DOMAIN s = 1 .. Len(s)
  BY LenProperties
<1>2. DOMAIN Append(s, new) = 1 .. Len(s) + 1
  BY <1>1, AppendProperties
<1>3. /\ \A k \in 1 .. Len(s) : Append(s, new)[k] = s[k]
      /\ Append(s, new)[Len(s) + 1] = new
  BY AppendProperties
<1>4. \A k \in 1 .. Len(s) : ~SameKey(new, s[k])
  BY <1>1 DEF SameKey
<1> QED
  BY <1>1, <1>2, <1>3, <1>4

LEMMA KeysInit == Poll!Init => Poll!KeysAreUnique
BY DEF Poll!Init, Poll!KeysAreUnique

LEMMA KeysNext == Poll!TypeOK /\ Poll!KeysAreUnique /\ [Poll!Next]_(Poll!vars)
        => Poll!KeysAreUnique'
<1> SUFFICES ASSUME Poll!TypeOK, Poll!KeysAreUnique, [Poll!Next]_(Poll!vars)
             PROVE  Poll!KeysAreUnique'
  OBVIOUS
<1>1. ASSUME NEW t \in Tickets, Poll!TaskEnds(t) PROVE Poll!KeysAreUnique'
  <2>1. PICK k \in DOMAIN ticketTasks[t] :
             ticketTasks' = [ticketTasks EXCEPT ![t][k].active = FALSE]
    BY <1>1 DEF Poll!TaskEnds
  <2>2. ticketTasks[t] \in Seq(Poll!Task) /\ ticketTasks[t][k] \in Poll!Task
        /\ ticketTasks \in [Tickets -> Seq(Poll!Task)]
    BY <2>1, LenProperties, ElementOfSeq DEF Poll!TypeOK
  <2>3. \A u \in Tickets : DOMAIN ticketTasks'[u] = DOMAIN ticketTasks[u]
    BY <2>1, <2>2
  <2>4. \A u \in Tickets : \A j \in DOMAIN ticketTasks[u] :
          /\ ticketTasks'[u][j].revision = ticketTasks[u][j].revision
          /\ ticketTasks'[u][j].visit = ticketTasks[u][j].visit
    BY <2>1, <2>2 DEF Poll!Task
  <2> QED
    BY <2>3, <2>4 DEF Poll!KeysAreUnique
<1>2. ASSUME NEW p \in Pollers, Poll!Reconcile(p) PROVE Poll!KeysAreUnique'
  <2> SUFFICES ASSUME NEW t \in Tickets
               PROVE  \A j, k \in DOMAIN ticketTasks'[t] :
                        SameKey(ticketTasks'[t][j], ticketTasks'[t][k]) => j = k
    BY DEF Poll!KeysAreUnique, SameKey
  <2>1. seen[p][t] \in Poll!Reading /\ ticketTasks \in [Tickets -> Seq(Poll!Task)]
    BY <1>2, SeenType DEF Poll!Reconcile, Poll!TypeOK
  <2>2. NewTask(t, seen[p][t]) \in Poll!Task
    BY <2>1, NewTaskType
  <2>3. ticketTasks'[t] = IF Poll!Enqueues(t, seen[p][t])
                    THEN Append(ticketTasks[t], NewTask(t, seen[p][t]))
                    ELSE ticketTasks[t]
    BY <1>2 DEF Poll!Reconcile, NewTask
  <2>4. \A j, k \in DOMAIN ticketTasks[t] : SameKey(ticketTasks[t][j], ticketTasks[t][k]) => j = k
    BY DEF Poll!KeysAreUnique, SameKey
  <2>5. CASE Poll!Enqueues(t, seen[p][t])
    <3>1. \A k \in DOMAIN ticketTasks[t] : ~SameKey(ticketTasks[t][k], NewTask(t, seen[p][t]))
      BY <2>5 DEF Poll!Enqueues, Poll!KeyIsTaken, SameKey, NewTask
    <3>2. ticketTasks[t] \in Seq(Poll!Task)
      BY <2>1
    <3> QED
      BY <2>2, <2>3, <2>4, <2>5, <3>1, <3>2, AppendKey
  <2>6. CASE ~Poll!Enqueues(t, seen[p][t])
    BY <2>3, <2>4, <2>6
  <2> QED
    BY <2>5, <2>6
<1>3. CASE \/ \E t \in Tickets : Poll!Enter(t) \/ Poll!Leave(t)
           \/ \E p \in Pollers : Poll!Query(p) \/ Poll!PollFails(p)
           \/ UNCHANGED Poll!vars
  <2>1. ticketTasks' = ticketTasks
    BY <1>3 DEF Poll!Enter, Poll!Leave, Poll!Query, Poll!PollFails, Poll!vars
  <2> QED
    BY <2>1 DEF Poll!KeysAreUnique
<1> QED
  BY <1>1, <1>2, <1>3 DEF Poll!Next

\* No two tasks of a ticket share revision and visit, whatever stale or repeated
\* readings the pollers write.
THEOREM UniqueKeys == Poll!Spec => []Poll!KeysAreUnique
<1> QED
  BY KeysInit, KeysNext, PollTypesCorrect, PTL DEF Poll!Spec

--------------------------------------------------------------------------------
\* One task of an entry.

\* What the row of a ticket holds once an entry has been recorded in which it matched.
Recorded(t, n) == [eligible |-> TRUE, revision |-> IF t \in EventTickets THEN n ELSE 1]

\* No task is ahead of what the ledger has been told.  When the newest reading is a
\* match of an entry of which nothing came out of order, and the entry has its task,
\* the row still holds that match, so that the same reading again is no edge.
TasksFollow ==
    \A t \in Tickets : \A k \in DOMAIN ticketTasks[t] :
        /\ ticketTasks[t][k].entry <= latest[t].entry
        /\ latest[t].matches /\ latest[t].entry \notin overtaken[t]
           /\ ticketTasks[t][k].entry = latest[t].entry
               => observed[t] = Recorded(t, latest[t].entry)

EntryInv == Poll!TypeOK /\ TasksFollow /\ Poll!OneTaskPerEntry

LEMMA EntryInit == Poll!Init => EntryInv
BY PollTypesInit DEF Poll!Init, EntryInv, TasksFollow, Poll!OneTaskPerEntry

\* What a step keeps that keeps the rows, the entries of the tasks and the history.
LEMMA TasksStay ==
    ASSUME EntryInv, UNCHANGED <<observed, latest, overtaken>>,
           \A t \in Tickets : /\ DOMAIN ticketTasks'[t] = DOMAIN ticketTasks[t]
                              /\ \A k \in DOMAIN ticketTasks[t] :
                                     ticketTasks'[t][k].entry = ticketTasks[t][k].entry
    PROVE  TasksFollow' /\ Poll!OneTaskPerEntry'
<1>1. Poll!OneTaskPerEntry'
  BY DEF EntryInv, Poll!OneTaskPerEntry
<1>2. TasksFollow'
  BY DEF EntryInv, TasksFollow, Recorded
<1> QED
  BY <1>1, <1>2

LEMMA EntryTypes ==
    ASSUME Poll!TypeOK, NEW t \in Tickets, NEW k \in DOMAIN ticketTasks[t]
    PROVE  ticketTasks[t][k].entry \in Nat
<1>1. ticketTasks[t] \in Seq(Poll!Task) /\ k \in 1 .. Len(ticketTasks[t])
  BY LenProperties DEF Poll!TypeOK
<1>2. ticketTasks[t][k] \in Poll!Task
  BY <1>1, ElementOfSeq
<1> QED
  BY <1>2 DEF Poll!Task

\* A reading is newer than the newest one so far, the same, or comes too late; then
\* both entries are overtaken.
LEMMA ReadingsOrdered ==
    ASSUME NEW a \in Poll!Reading, NEW b \in Poll!Reading
    PROVE  /\ Poll!Older(a, b) \/ Poll!Older(b, a) \/ (a.entry = b.entry /\ a.matches = b.matches)
           /\ ~(Poll!Older(a, b) /\ Poll!Older(b, a))
           /\ Poll!Older(a, b) => a.entry <= b.entry
           /\ Poll!Older(a, b) /\ b.matches => a.entry < b.entry
BY DEF Poll!Older, Poll!Reading

\* The row and the tasks of one ticket after a reconciliation.
LEMMA ReconciledTicket ==
    ASSUME EntryInv, NEW p \in Pollers, Poll!Reconcile(p), NEW t \in Tickets
    PROVE  /\ \A k \in DOMAIN ticketTasks'[t] :
                /\ ticketTasks'[t][k].entry <= latest'[t].entry
                /\ latest'[t].matches /\ latest'[t].entry \notin overtaken'[t]
                   /\ ticketTasks'[t][k].entry = latest'[t].entry
                       => observed'[t] = Recorded(t, latest'[t].entry)
           /\ \A j, k \in DOMAIN ticketTasks'[t] :
                ticketTasks'[t][j].entry = ticketTasks'[t][k].entry
                    => j = k \/ ticketTasks'[t][j].entry \in overtaken'[t]
<1> DEFINE s == ticketTasks[t]
           r == seen[p][t]
           L == latest[t]
           new == NewTask(t, r)
<1>1. Poll!TypeOK /\ TasksFollow /\ Poll!OneTaskPerEntry /\ r \in Poll!Reading
  BY SeenType DEF EntryInv, Poll!Reconcile, Poll!TypeOK
<1>2. /\ s \in Seq(Poll!Task) /\ L \in Poll!Reading /\ overtaken[t] \subseteq Nat
      /\ new \in Poll!Task /\ new.entry = r.entry
  BY <1>1, NewTaskType DEF NewTask, Poll!TypeOK
<1>3. /\ observed'[t] = Poll!Recorded(t, r)
      /\ latest'[t] = (IF Poll!Older(L, r) THEN r ELSE L)
      /\ overtaken'[t] = (IF Poll!Older(r, L) THEN overtaken[t] \cup {r.entry, L.entry}
                          ELSE overtaken[t])
      /\ ticketTasks'[t] = (IF Poll!Enqueues(t, r) THEN Append(s, new) ELSE s)
  BY DEF Poll!Reconcile, Poll!Remember, NewTask
<1>4. r.matches => observed'[t] = Recorded(t, r.entry)
  BY <1>1, <1>3 DEF Poll!Recorded, Poll!Listed, Poll!Revision, Recorded
<1>5. \A k \in DOMAIN s :
        /\ s[k].entry \in Nat /\ s[k].entry <= L.entry
        /\ s[k].entry = L.entry /\ L.matches /\ L.entry \notin overtaken[t]
               => observed[t] = Recorded(t, L.entry)
  BY <1>1, EntryTypes DEF TasksFollow
<1>6. \A j, k \in DOMAIN s : s[j].entry = s[k].entry => j = k \/ s[j].entry \in overtaken[t]
  BY <1>1 DEF Poll!OneTaskPerEntry
<1>7. Poll!Enqueues(t, r) => r.matches /\ observed[t] # Recorded(t, r.entry)
  BY DEF Poll!Enqueues, Poll!Edge, Poll!Revision, Recorded
<1>8. /\ Poll!Older(L, r) \/ Poll!Older(r, L) \/ (L.entry = r.entry /\ L.matches = r.matches)
      /\ ~(Poll!Older(L, r) /\ Poll!Older(r, L))
      /\ Poll!Older(L, r) => L.entry <= r.entry
      /\ Poll!Older(L, r) /\ r.matches => L.entry < r.entry
      /\ Poll!Older(r, L) => r.entry <= L.entry
  BY <1>1, <1>2, ReadingsOrdered
<1>9. r.entry \in Nat /\ L.entry \in Nat
  BY <1>1, <1>2 DEF Poll!Reading
\* A new task is the first of its entry, or one of an overtaken entry.
<1>10. Poll!Enqueues(t, r)
           => r.entry \in overtaken'[t] \/ \A k \in DOMAIN s : s[k].entry # r.entry
  <2> HIDE DEF s, r, L
  <2>1. CASE Poll!Older(r, L)
    BY <1>3, <2>1
  <2>2. CASE Poll!Older(L, r)
    BY <1>5, <1>7, <1>8, <1>9, <2>2
  <2>3. CASE L.entry = r.entry /\ L.matches = r.matches
    <3>1. overtaken'[t] = overtaken[t] \/ r.entry \in overtaken'[t]
      BY <1>3
    <3> QED
      BY <1>5, <1>7, <2>3, <3>1
  <2> QED
    BY <1>8, <2>1, <2>2, <2>3
<1>11. overtaken[t] \subseteq overtaken'[t] /\ L.entry <= latest'[t].entry /\ r.entry <= latest'[t].entry
  <2> HIDE DEF s, r, L
  <2> QED
    BY <1>3, <1>8, <1>9
\* The row of the newest reading, unless that was overtaken.
<1>12. latest'[t].matches /\ latest'[t].entry \notin overtaken'[t]
           => observed'[t] = Recorded(t, latest'[t].entry)
  <2> HIDE DEF s, r, L
  <2>1. latest'[t].matches /\ latest'[t].entry \notin overtaken'[t] => ~Poll!Older(r, L)
    BY <1>3, <1>8
  <2> QED
    BY <1>3, <1>4, <1>8, <2>1
<1>13. CASE Poll!Enqueues(t, r)
  <2>1. ticketTasks'[t] = Append(s, new)
    BY <1>3, <1>13
  <2>2. /\ Len(s) \in Nat /\ DOMAIN s = 1 .. Len(s)
        /\ DOMAIN Append(s, new) = 1 .. Len(s) + 1
        /\ \A k \in 1 .. Len(s) : Append(s, new)[k] = s[k]
        /\ Append(s, new)[Len(s) + 1] = new
    BY <1>2, LenProperties, AppendProperties
  <2> HIDE DEF s, r, L, new
  <2>3. \A k \in 1 .. Len(s) + 1 :
           \/ k \in 1 .. Len(s) /\ ticketTasks'[t][k] = s[k]
           \/ k = Len(s) + 1 /\ ticketTasks'[t][k].entry = r.entry
    BY <1>2, <2>1, <2>2
  <2>4. \A j, k \in 1 .. Len(s) + 1 :
           ticketTasks'[t][j].entry = ticketTasks'[t][k].entry
               => j = k \/ ticketTasks'[t][j].entry \in overtaken'[t]
    BY <1>6, <1>10, <1>11, <1>13, <2>2, <2>3
  <2>5. latest'[t].entry \in Nat
    BY <1>3, <1>9
  <2>6. \A k \in 1 .. Len(s) + 1 : ticketTasks'[t][k].entry <= latest'[t].entry
    BY <1>5, <1>9, <1>11, <2>2, <2>3, <2>5
  <2>7. DOMAIN ticketTasks'[t] = 1 .. Len(s) + 1
    BY <2>1, <2>2
  <2> QED
    BY <1>12, <2>4, <2>6, <2>7
<1>14. CASE ~Poll!Enqueues(t, r)
  <2>1. ticketTasks'[t] = s
    BY <1>3, <1>14
  <2> HIDE DEF s, r, L, new
  <2>2. latest'[t].entry \in Nat
    BY <1>3, <1>9
  <2>3. \A k \in DOMAIN s : s[k].entry <= latest'[t].entry
    BY <1>5, <1>9, <1>11, <2>2
  <2>4. \A j, k \in DOMAIN s : s[j].entry = s[k].entry => j = k \/ s[j].entry \in overtaken'[t]
    BY <1>6, <1>11
  <2> QED
    BY <1>12, <2>1, <2>3, <2>4
<1> QED
  BY <1>13, <1>14

LEMMA EntryNext == EntryInv /\ [Poll!Next]_(Poll!vars) => EntryInv'
<1> SUFFICES ASSUME EntryInv, [Poll!Next]_(Poll!vars) PROVE EntryInv'
  OBVIOUS
<1>1. Poll!TypeOK /\ Poll!TypeOK'
  BY PollTypesNext DEF EntryInv
<1>2. CASE \/ \E t \in Tickets : Poll!Enter(t) \/ Poll!Leave(t)
           \/ \E p \in Pollers : Poll!Query(p) \/ Poll!PollFails(p)
           \/ UNCHANGED Poll!vars
  <2>1. UNCHANGED <<observed, ticketTasks, latest, overtaken>>
    BY <1>2 DEF Poll!Enter, Poll!Leave, Poll!Query, Poll!PollFails, Poll!vars, Poll!history
  <2> QED
    BY <1>1, <2>1, TasksStay DEF EntryInv
<1>3. ASSUME NEW t \in Tickets, Poll!TaskEnds(t) PROVE EntryInv'
  <2>1. PICK k \in DOMAIN ticketTasks[t] :
             ticketTasks' = [ticketTasks EXCEPT ![t][k].active = FALSE]
    BY <1>3 DEF Poll!TaskEnds
  <2>2. ticketTasks[t] \in Seq(Poll!Task) /\ ticketTasks[t][k] \in Poll!Task
        /\ ticketTasks \in [Tickets -> Seq(Poll!Task)]
    BY <1>1, <2>1, LenProperties, ElementOfSeq DEF Poll!TypeOK
  <2>3. \A u \in Tickets : DOMAIN ticketTasks'[u] = DOMAIN ticketTasks[u]
    BY <2>1, <2>2
  <2>4. \A u \in Tickets : \A j \in DOMAIN ticketTasks[u] :
          ticketTasks'[u][j].entry = ticketTasks[u][j].entry
    BY <2>1, <2>2 DEF Poll!Task
  <2>5. UNCHANGED <<observed, latest, overtaken>>
    BY <1>3 DEF Poll!TaskEnds, Poll!history
  <2> QED
    BY <1>1, <2>3, <2>4, <2>5, TasksStay DEF EntryInv
<1>4. ASSUME NEW p \in Pollers, Poll!Reconcile(p) PROVE EntryInv'
  <2>1. TasksFollow' /\ Poll!OneTaskPerEntry'
    BY <1>4, ReconciledTicket DEF TasksFollow, Poll!OneTaskPerEntry, Recorded
  <2> QED
    BY <1>1, <2>1 DEF EntryInv
<1> QED
  BY <1>2, <1>3, <1>4 DEF Poll!Next

\* "One continuous match creates one task": however many polls of a workflow overlap
\* and fail, two tasks of a ticket stem from one entry only if a reading of that very
\* entry reached the ledger out of order.
THEOREM OneTaskOfAnEntry == Poll!Spec => []Poll!OneTaskPerEntry
<1>1. EntryInv /\ [Poll!Next]_(Poll!vars) => EntryInv'
  BY EntryNext
<1>2. EntryInv => Poll!OneTaskPerEntry
  BY DEF EntryInv
<1> QED
  BY <1>1, <1>2, EntryInit, PTL DEF Poll!Spec

--------------------------------------------------------------------------------
\* Authorization.

\* What a poll may have read.
Readings == [step : {"idle", "listed", "resolved", "read"}, listed : BOOLEAN,
             matches : BOOLEAN, option : 0 .. MaxMoves, event : Ticket!Events]

\* What people did is counted, and the commands of a source read a ticket in one go.
MovesCounted ==
    /\ event <= moves + 1 /\ option <= moves
    /\ kind # "source" => event <= moves
    /\ kind = "source" => open /\ poll.step \notin {"listed", "resolved"}
    /\ IsFiniteSet(keys)

\* The events of a forge are numbered as they happen, so that nothing read names a
\* later one; the revisions of a source may come back.
ReadingsLag == kind # "source" => poll.event <= event /\ payload.event <= event

\* What the two reads of an authorization have established between them.  The first
\* read of a label claim either saw the label event of the task, and then the whole
\* ticket was current, or it was already too late for the second.
Established ==
    /\ worker \in {"claimed", "second"} => task = "running" /\ (Ticket!Current => valid)
    /\ worker = "second" =>
          \/ kind = "label" /\ (valid \/ payload.event < event)
          \/ kind = "status" /\ trusted
    /\ worker = "launched" => task = "running" /\ valid

TicketInv == Ticket!TypeOK /\ MovesCounted /\ ReadingsLag /\ Established

LEMMA SameCount ==
    ASSUME NEW S
    PROVE  Ticket!Cardinality(S) = Cardinality(S)
  BY DEF Ticket!Cardinality, Cardinality

LEMMA TicketInit ==
    ASSUME Ticket!AuthorizationAssumption
    PROVE  Ticket!Init => TicketInv
<1> SUFFICES ASSUME Ticket!Init PROVE TicketInv
  OBVIOUS
<1>1. MaxMoves \in Nat /\ 0 \in 0 .. MaxMoves /\ {0, 1} \subseteq 0 .. MaxMoves + 1
      /\ 0 \in 0 .. MaxAttempts /\ 0 \in 0 .. MaxTroubles
  BY DEF Ticket!AuthorizationAssumption
<1>2. Ticket!TypeOK
  BY <1>1 DEF Ticket!Init, Ticket!TypeOK, Ticket!NoPoll, Ticket!Named, Ticket!Unnamed, Ticket!Events
<1>3. MovesCounted /\ ReadingsLag /\ Established
  BY FS_EmptySet DEF Ticket!Init, MovesCounted, ReadingsLag, Established, Ticket!NoPoll, Ticket!Unnamed
<1> QED
  BY <1>2, <1>3 DEF TicketInv

\* What a move of people does to an authorization under way.
LEMMA MoveKeeps ==
    ASSUME TicketInv, Ticket!Move, event' \in Nat, kind # "source" => event <= event'
    PROVE  ReadingsLag' /\ Established'
<1>1. /\ event \in Nat /\ poll.event \in Nat /\ payload.event \in Nat
      /\ valid \in BOOLEAN /\ UNCHANGED <<kind, trusted, poll, payload, task, worker>>
      /\ valid' = (valid \/ (worker # "none" /\ Ticket!Current'))
  BY DEF TicketInv, Ticket!TypeOK, Ticket!Move, Ticket!ledger, Ticket!Named, Ticket!Events
<1>2. ReadingsLag'
  BY <1>1 DEF TicketInv, ReadingsLag
<1>3. worker' \in {"claimed", "second"} => task' = "running" /\ (Ticket!Current' => valid')
  BY <1>1 DEF TicketInv, Established
<1>4. /\ kind' = kind /\ trusted' = trusted /\ (valid => valid')
      /\ kind # "source" /\ payload.event < event => payload'.event < event'
  BY <1>1
<1>5. worker' = "second" => \/ kind' = "label" /\ (valid' \/ payload'.event < event')
                            \/ kind' = "status" /\ trusted'
  <2> SUFFICES ASSUME worker = "second", ~(kind = "status" /\ trusted)
               PROVE  kind = "label" /\ (valid' \/ payload'.event < event')
    BY <1>1, <1>4
  <2>1. kind = "label" /\ (valid \/ payload.event < event)
    BY DEF TicketInv, Established
  <2> QED
    BY <2>1, <1>4
<1>6. worker' = "launched" => task' = "running" /\ valid'
  BY <1>1, <1>4 DEF TicketInv, Established
<1> QED
  BY <1>2, <1>3, <1>5, <1>6 DEF Established

LEMMA TicketPeople ==
    ASSUME Ticket!AuthorizationAssumption, TicketInv,
           \/ Ticket!Enter \/ Ticket!Leave \/ Ticket!CloseOrReopen \/ Ticket!Recreate
           \/ Ticket!Revise
    PROVE  TicketInv'
<1>1. /\ Ticket!TypeOK /\ MovesCounted /\ MaxMoves \in Nat
      /\ moves \in Nat /\ event \in Nat /\ option \in Nat /\ moves < MaxMoves
      /\ event <= moves + 1 /\ option <= moves /\ (kind # "source" => event <= moves)
  BY DEF TicketInv, MovesCounted, Ticket!TypeOK, Ticket!AuthorizationAssumption, Ticket!Events,
         Ticket!Enter, Ticket!Leave, Ticket!CloseOrReopen, Ticket!Recreate, Ticket!Revise,
         Ticket!Move
<1>2. Ticket!Move /\ moves' = moves + 1 /\ kind' = kind
  BY DEF Ticket!Enter, Ticket!Leave, Ticket!CloseOrReopen, Ticket!Recreate, Ticket!Revise, Ticket!Move
<1>3. /\ \/ event' \in {event, event + 1} /\ kind # "source"
         \/ event' \in {event, 1, 2} /\ kind = "source"
      /\ option' \in {option, option + 1}
  BY <1>1 DEF Ticket!Enter, Ticket!Leave, Ticket!CloseOrReopen, Ticket!Recreate, Ticket!Revise
<1>4. event' \in Ticket!Events /\ option' \in 0 .. MaxMoves /\ moves' \in 0 .. MaxMoves
  BY <1>1, <1>2, <1>3 DEF Ticket!Events
<1>5. {open', matched', blank'} \subseteq BOOLEAN /\ (kind = "source" => open' = open)
  BY <1>1 DEF Ticket!TypeOK, Ticket!Enter, Ticket!Leave, Ticket!CloseOrReopen, Ticket!Recreate,
              Ticket!Revise
<1>6. valid' \in BOOLEAN
  BY <1>1, <1>2 DEF Ticket!TypeOK, Ticket!Move
<1>7. Ticket!TypeOK'
  BY <1>1, <1>2, <1>4, <1>5, <1>6 DEF Ticket!TypeOK, Ticket!Move, Ticket!ledger
<1>8. MovesCounted'
  <2>1. /\ event' <= moves' + 1 /\ option' <= moves'
        /\ kind # "source" => event' <= moves'
    BY <1>1, <1>2, <1>3
  <2> QED
    BY <1>1, <1>2, <1>5, <2>1 DEF MovesCounted, Ticket!Move, Ticket!ledger
<1>9. event' \in Nat /\ (kind # "source" => event <= event')
  BY <1>1, <1>3
<1> QED
  BY <1>2, <1>7, <1>8, <1>9, MoveKeeps DEF TicketInv

LEMMA TicketPolls ==
    ASSUME Ticket!AuthorizationAssumption, TicketInv, Ticket!Read \/ Ticket!PollFails
    PROVE  TicketInv'
<1>1. /\ Ticket!TypeOK /\ MovesCounted /\ event \in Ticket!Events /\ option \in 0 .. MaxMoves
      /\ open \in BOOLEAN /\ matched \in BOOLEAN /\ blank \in BOOLEAN /\ trusted \in BOOLEAN
  BY DEF TicketInv, Ticket!TypeOK
<1>2. /\ UNCHANGED <<Ticket!world, Ticket!ledger, worker, valid>>
      /\ UNCHANGED troubles \/ Ticket!Trouble
  BY DEF Ticket!Read, Ticket!ListIssues, Ticket!ReadTimeline, Ticket!ResolveProject,
        Ticket!ListItems, Ticket!ListTickets, Ticket!PollFails
<1>a. troubles' \in 0 .. MaxTroubles
  BY <1>2 DEF TicketInv, Ticket!TypeOK, Ticket!Trouble, Ticket!AuthorizationAssumption
<1>b. \A l, m \in BOOLEAN, o \in 0 .. MaxMoves, e \in Ticket!Events, s \in {"idle", "listed", "resolved", "read"} :
        [step |-> s, listed |-> l, matches |-> m, option |-> o, event |-> e] \in Readings
  BY DEF Readings
<1>c. (open /\ ~blank) \in BOOLEAN /\ (matched /\ Ticket!Trusted) \in BOOLEAN
  BY Zenon
<1>d. /\ 0 \in 0 .. MaxMoves /\ 0 \in Ticket!Events
      /\ 0 <= event /\ event <= event
  BY <1>1 DEF Ticket!Events, Ticket!AuthorizationAssumption
<1>3. /\ poll' \in Readings /\ poll'.event <= event
      /\ kind = "source" => poll'.step \notin {"listed", "resolved"}
  <2> DEFINE Reads(s, l, m, o, e) ==
        poll' = [step |-> s, listed |-> l, matches |-> m, option |-> o, event |-> e]
  <2>0. ASSUME NEW s \in {"idle", "listed", "resolved", "read"}, NEW l \in BOOLEAN, NEW m \in BOOLEAN,
               NEW o \in 0 .. MaxMoves, NEW e \in Ticket!Events, Reads(s, l, m, o, e),
               e <= event, kind = "source" => s \notin {"listed", "resolved"}
        PROVE  /\ poll' \in Readings /\ poll'.event <= event
               /\ kind = "source" => poll'.step \notin {"listed", "resolved"}
    BY <2>0 DEF Readings
  <2>1. CASE Ticket!ListIssues
    <3>1. Reads("listed", open, matched /\ Ticket!Trusted, 0, 0) /\ kind # "source"
      BY <2>1 DEF Ticket!ListIssues, Ticket!NoPoll
    <3> HIDE DEF Reads
    <3> QED
      BY <1>1, <1>c, <1>d, <2>0, <3>1, Zenon
  <2>2. CASE Ticket!ReadTimeline
    <3>1. /\ poll.listed \in BOOLEAN /\ poll.matches \in BOOLEAN /\ poll.option \in 0 .. MaxMoves
          /\ (IF poll.matches THEN event ELSE 0) \in Ticket!Events
          /\ (IF poll.matches THEN event ELSE 0) <= event
      BY <1>1, <1>d DEF Ticket!TypeOK
    <3>2. Reads("read", poll.listed, poll.matches, poll.option, IF poll.matches THEN event ELSE 0)
      BY <1>1, <2>2 DEF Ticket!ReadTimeline, Ticket!TypeOK
    <3>3. kind = "source" => FALSE
      BY <1>1, <2>2 DEF Ticket!ReadTimeline, MovesCounted
    <3> HIDE DEF Reads
    <3> QED
      BY <2>0, <3>1, <3>2, <3>3
  <2>3. CASE Ticket!ResolveProject
    <3>1. Reads("resolved", FALSE, FALSE, option, 0) /\ kind # "source"
      BY <2>3 DEF Ticket!ResolveProject, Ticket!NoPoll
    <3> HIDE DEF Reads
    <3> QED
      BY <1>1, <1>d, <2>0, <3>1, Zenon
  <2>4. CASE Ticket!ListItems
    <3> DEFINE m == poll.option \in Ticket!Item.options /\ Ticket!Trusted
    <3>1. Reads("read", open /\ ~blank, m, poll.option, event)
      BY <1>1, <2>4 DEF Ticket!ListItems, Ticket!Item, Ticket!TypeOK
    <3>2. m \in BOOLEAN
      BY Zenon
    <3>3. kind = "source" => FALSE
      BY <1>1, <2>4 DEF Ticket!ListItems, MovesCounted
    <3>4. poll.option \in 0 .. MaxMoves
      BY <1>1 DEF Ticket!TypeOK
    <3> HIDE DEF Reads, m
    <3> QED
      BY <1>1, <1>c, <1>d, <2>0, <3>1, <3>2, <3>3, <3>4, Zenon
  <2>5. CASE Ticket!ListTickets
    <3>1. Reads("read", matched, matched, 0, event)
      BY <2>5 DEF Ticket!ListTickets, Ticket!NoPoll
    <3> HIDE DEF Reads
    <3> QED
      BY <1>1, <1>d, <2>0, <3>1, Zenon
  <2>6. CASE Ticket!PollFails
    <3>1. Reads("idle", FALSE, FALSE, 0, 0)
      BY <2>6 DEF Ticket!PollFails, Ticket!NoPoll
    <3> HIDE DEF Reads
    <3> QED
      BY <1>1, <1>d, <2>0, <3>1, Zenon
  <2> QED
    BY <2>1, <2>2, <2>3, <2>4, <2>5, <2>6 DEF Ticket!Read
<1>4. Ticket!TypeOK'
  BY <1>1, <1>2, <1>a, <1>3 DEF Ticket!TypeOK, Readings, Ticket!world, Ticket!ledger
<1>5. MovesCounted' /\ ReadingsLag'
  BY <1>1, <1>2, <1>3 DEF TicketInv, MovesCounted, ReadingsLag, Ticket!world, Ticket!ledger
<1>6. Established'
  BY <1>2 DEF TicketInv, Established, Ticket!Current, Ticket!Eligible, Ticket!Trusted,
              Ticket!world, Ticket!ledger
<1> QED
  BY <1>4, <1>5, <1>6 DEF TicketInv

LEMMA TicketReconciles ==
    ASSUME Ticket!AuthorizationAssumption, TicketInv, Ticket!Reconcile
    PROVE  TicketInv'
<1>1. /\ Ticket!TypeOK /\ MovesCounted /\ poll \in Readings /\ row.revision \in Ticket!Named
      /\ MaxAttempts \in Nat /\ MaxMoves \in Nat
  BY DEF TicketInv, Ticket!TypeOK, Readings, Ticket!AuthorizationAssumption
<1>2. UNCHANGED <<Ticket!world, worker, valid, troubles>> /\ poll' = Ticket!NoPoll
  BY DEF Ticket!Reconcile
<1>3. Ticket!Revision \in Ticket!Named
  BY <1>1 DEF Ticket!Revision, Ticket!Named, Readings
<1>4. row' \in [eligible : BOOLEAN, revision : Ticket!Named]
  BY <1>1, <1>3 DEF Ticket!Reconcile, Ticket!Recorded, Ticket!TypeOK, Readings
<1>5. poll' \in Readings /\ ~poll'.listed /\ poll'.step = "idle" /\ poll'.event = 0
      /\ event >= 0
  BY <1>1 DEF Ticket!Reconcile, Ticket!NoPoll, Readings, Ticket!Events, Ticket!TypeOK
<1>6. CASE Ticket!Enqueues
  <2>1. /\ keys' = keys \cup {Ticket!Key} /\ task' = "queued" /\ attempt' = 0
        /\ payload' = [option |-> poll.option, event |-> poll.event]
    BY <1>6 DEF Ticket!Reconcile
  <2>2. worker = "none"
    BY <1>1, <1>6 DEF TicketInv, Established, Ticket!Enqueues, Ticket!TypeOK
  <2>3. Ticket!Visit \in Nat
    BY <1>1, SameCount, FS_CardinalityType DEF Ticket!Visit, MovesCounted
  <2>4. Ticket!Key \in [revision : Ticket!Named, visit : Nat]
    BY <1>3, <1>6, <2>3 DEF Ticket!Key, Ticket!Enqueues, Ticket!Edge
  <2>5. /\ keys' \subseteq [revision : Ticket!Named, visit : Nat] /\ IsFiniteSet(keys')
        /\ payload' \in Ticket!Named /\ payload'.event = poll.event
    BY <1>1, <2>1, <2>4, FS_AddElement DEF Ticket!TypeOK, MovesCounted, Readings, Ticket!Named
  <2>6. Ticket!TypeOK'
    BY <1>1, <1>2, <1>4, <1>5, <2>1, <2>5 DEF Ticket!TypeOK, Readings, Ticket!world
  <2>7. MovesCounted' /\ ReadingsLag'
    BY <1>1, <1>2, <1>5, <2>5 DEF TicketInv, MovesCounted, ReadingsLag, Ticket!world, Ticket!TypeOK
  <2>8. Established'
    BY <1>2, <2>2 DEF Established
  <2> QED
    BY <2>6, <2>7, <2>8 DEF TicketInv
<1>7. CASE ~Ticket!Enqueues
  <2>1. UNCHANGED <<keys, task, payload, attempt>>
    BY <1>7 DEF Ticket!Reconcile
  <2>2. Ticket!TypeOK'
    BY <1>1, <1>2, <1>4, <1>5, <2>1 DEF Ticket!TypeOK, Readings, Ticket!world
  <2>3. MovesCounted' /\ ReadingsLag'
    BY <1>1, <1>2, <1>5, <2>1 DEF TicketInv, MovesCounted, ReadingsLag, Ticket!world, Ticket!TypeOK
  <2>4. Established'
    BY <1>2, <2>1 DEF TicketInv, Established, Ticket!Current, Ticket!Eligible, Ticket!Trusted,
                      Ticket!world
  <2> QED
    BY <2>2, <2>3, <2>4 DEF TicketInv
<1> QED
  BY <1>6, <1>7

\* A step after which no worker has the task.
LEMMA NobodyWorks ==
    ASSUME TicketInv, worker' = "none", valid' \in BOOLEAN,
           task' \in {"none", "queued", "running", "ended", "failed"},
           attempt' \in 0 .. MaxAttempts, troubles' \in 0 .. MaxTroubles, trusted' \in BOOLEAN,
           poll' = poll \/ poll' = Ticket!NoPoll, MaxMoves \in Nat,
           UNCHANGED <<kind, open, matched, blank, event, option, moves, row, keys, payload>>
    PROVE  TicketInv'
<1>1. Ticket!TypeOK /\ MovesCounted /\ ReadingsLag /\ event \in Nat
  BY DEF TicketInv, Ticket!TypeOK, Ticket!Events
<1>2. /\ poll' \in Readings /\ (poll'.listed => poll.listed)
      /\ poll'.step \in {"idle", poll.step} /\ poll'.event \in {0, poll.event}
  <2>1. Ticket!NoPoll \in Readings
    BY DEF Ticket!NoPoll, Readings, Ticket!Events
  <2>2. poll \in Readings
    BY <1>1 DEF Ticket!TypeOK, Readings
  <2>3. CASE poll' = poll
    BY <2>2, <2>3 DEF Readings
  <2>4. CASE poll' = Ticket!NoPoll
    BY <2>1, <2>4 DEF Ticket!NoPoll
  <2> QED
    BY <2>3, <2>4
<1>3. Ticket!TypeOK'
  BY <1>1, <1>2 DEF Ticket!TypeOK, Readings
<1>4. MovesCounted' /\ ReadingsLag'
  BY <1>1, <1>2 DEF MovesCounted, ReadingsLag
<1>5. Established'
  BY DEF Established
<1> QED
  BY <1>3, <1>4, <1>5 DEF TicketInv

LEMMA TicketReturns ==
    ASSUME Ticket!AuthorizationAssumption, TicketInv,
           \/ Ticket!Requeue /\ (UNCHANGED troubles \/ Ticket!Trouble)
           \/ Ticket!Restart \/ Ticket!TaskEnds
    PROVE  TicketInv'
<1>1. /\ Ticket!TypeOK /\ MaxAttempts \in Nat /\ MaxMoves \in Nat
      /\ MaxTroubles \in Nat /\ attempt \in 0 .. MaxAttempts /\ troubles \in 0 .. MaxTroubles
  BY DEF TicketInv, Ticket!TypeOK, Ticket!AuthorizationAssumption
<1>2. Ticket!Retry => /\ worker' = "none" /\ valid' = FALSE /\ task' \in {"queued", "failed"}
                      /\ attempt' \in 0 .. MaxAttempts
  BY <1>1 DEF Ticket!Retry
<1>3. Ticket!Trouble \/ UNCHANGED troubles => troubles' \in 0 .. MaxTroubles
  BY <1>1 DEF Ticket!Trouble
<1>4. CASE Ticket!Requeue /\ (UNCHANGED troubles \/ Ticket!Trouble)
  <2>1. UNCHANGED <<kind, open, matched, blank, event, option, moves, trusted, poll, row, keys, payload>>
    BY <1>4 DEF Ticket!Requeue, Ticket!world
  <2> QED
    BY <1>1, <1>2, <1>3, <1>4, <2>1, NobodyWorks DEF Ticket!Requeue, Ticket!TypeOK
<1>5. CASE Ticket!Restart
  <2>1. /\ worker' = "none" /\ valid' \in BOOLEAN /\ attempt' \in 0 .. MaxAttempts
        /\ task' \in {"none", "queued", "running", "ended", "failed"}
    BY <1>1, <1>2, <1>5 DEF Ticket!Restart, Ticket!TypeOK
  <2> QED
    BY <1>1, <1>3, <1>5, <2>1, NobodyWorks DEF Ticket!Restart
<1>6. CASE Ticket!TaskEnds
  <2>1. UNCHANGED <<kind, open, matched, blank, event, option, moves, trusted, poll, row, keys, payload>>
    BY <1>6 DEF Ticket!TaskEnds, Ticket!world
  <2> QED
    BY <1>1, <1>3, <1>6, <2>1, NobodyWorks DEF Ticket!TaskEnds, Ticket!TypeOK
<1> QED
  BY <1>4, <1>5, <1>6

\* The worker goes on: what it has just read completes what it knows.
LEMMA TicketAuthorizes ==
    ASSUME Ticket!AuthorizationAssumption, TicketInv, Ticket!Claim \/ Ticket!Authorize
    PROVE  TicketInv'
<1>1. /\ Ticket!TypeOK /\ MovesCounted /\ ReadingsLag /\ event \in Nat /\ payload.event \in Nat
      /\ valid \in BOOLEAN
  BY DEF TicketInv, Ticket!TypeOK, Ticket!Named, Ticket!Events
<1>2. Ticket!Current \in BOOLEAN
  BY Zenon DEF Ticket!Current
<1>3. CASE Ticket!Claim
  <2>1. /\ UNCHANGED <<Ticket!world, poll, row, keys, payload, attempt, troubles>>
        /\ task' = "running" /\ worker' = "claimed" /\ valid' = Ticket!Current
    BY <1>3 DEF Ticket!Claim
  <2>2. Ticket!TypeOK'
    BY <1>1, <1>2, <2>1 DEF Ticket!TypeOK, Ticket!world
  <2>3. MovesCounted' /\ ReadingsLag'
    BY <1>1, <2>1 DEF MovesCounted, ReadingsLag, Ticket!world
  <2>4. Ticket!Current' <=> valid'
    BY <2>1 DEF Ticket!Current, Ticket!Eligible, Ticket!Trusted, Ticket!world
  <2>5. Established'
    BY <2>1, <2>4 DEF Established
  <2> QED
    BY <2>2, <2>3, <2>5 DEF TicketInv
<1>4. ASSUME UNCHANGED <<Ticket!world, poll, Ticket!ledger, valid, troubles>>,
             worker \in {"claimed", "second"},
             \/ /\ worker' = "second"
                /\ \/ kind = "label" /\ (valid \/ payload.event < event)
                   \/ kind = "status" /\ trusted
             \/ worker' = "launched" /\ valid
      PROVE  TicketInv'
  <2>1. Ticket!TypeOK'
    BY <1>1, <1>4 DEF Ticket!TypeOK, Ticket!world, Ticket!ledger
  <2>2. MovesCounted' /\ ReadingsLag'
    BY <1>1, <1>4 DEF MovesCounted, ReadingsLag, Ticket!world, Ticket!ledger
  <2>3. Established'
    BY <1>4 DEF TicketInv, Established, Ticket!Current, Ticket!Eligible, Ticket!Trusted,
                Ticket!world, Ticket!ledger
  <2> QED
    BY <2>1, <2>2, <2>3 DEF TicketInv
<1>5. worker \in {"claimed", "second"} /\ Ticket!Current => valid
  BY DEF TicketInv, Established
<1>6. CASE Ticket!AuthorizeLabel
  <2>1. CASE worker = "claimed" /\ Ticket!Eligible /\ Ticket!Goto("second")
    <3>1. kind = "label" /\ (valid \/ payload.event < event)
      BY <1>1, <1>5, <1>6, <2>1 DEF Ticket!AuthorizeLabel, Ticket!Current, ReadingsLag
    <3> QED
      BY <1>4, <2>1, <3>1 DEF Ticket!Goto
  <2>2. CASE worker = "second" /\ event = payload.event /\ Ticket!Launch
    <3>1. valid
      BY <1>1, <1>6, <2>2 DEF TicketInv, Established, Ticket!AuthorizeLabel
    <3> QED
      BY <1>4, <2>2, <3>1 DEF Ticket!Launch
  <2>3. CASE Ticket!Requeue /\ UNCHANGED troubles
    BY <2>3, TicketReturns
  <2> QED
    BY <1>6, <2>1, <2>2, <2>3 DEF Ticket!AuthorizeLabel, Ticket!InTwoReads
<1>7. CASE Ticket!AuthorizeStatus
  <2>1. CASE worker = "claimed" /\ trusted /\ option = payload.option /\ Ticket!Goto("second")
    BY <1>4, <1>7, <2>1 DEF Ticket!Goto, Ticket!AuthorizeStatus
  <2>2. CASE worker = "second" /\ Ticket!ItemHolds /\ Ticket!Launch
    <3>1. kind = "status" /\ trusted
      BY <1>7, <2>2 DEF TicketInv, Established, Ticket!AuthorizeStatus
    <3>2. valid
      BY <1>5, <2>2, <3>1 DEF Ticket!ItemHolds, Ticket!Item, Ticket!Current, Ticket!Eligible,
                              Ticket!Trusted
    <3> QED
      BY <1>4, <2>2, <3>2 DEF Ticket!Launch
  <2>3. CASE Ticket!Requeue /\ UNCHANGED troubles
    BY <2>3, TicketReturns
  <2> QED
    BY <1>7, <2>1, <2>2, <2>3 DEF Ticket!AuthorizeStatus, Ticket!InTwoReads
<1>8. CASE Ticket!AuthorizeSource
  <2>1. CASE worker = "claimed" /\ matched /\ Ticket!Launch
    <3>1. valid
      BY <1>1, <1>5, <1>8, <2>1 DEF Ticket!AuthorizeSource, MovesCounted, Ticket!Current,
                                    Ticket!Eligible, Ticket!Trusted
    <3> QED
      BY <1>4, <2>1, <3>1 DEF Ticket!Launch
  <2>2. CASE Ticket!Requeue /\ UNCHANGED troubles
    BY <2>2, TicketReturns
  <2> QED
    BY <1>8, <2>1, <2>2 DEF Ticket!AuthorizeSource
<1> QED
  BY <1>3, <1>6, <1>7, <1>8 DEF Ticket!Authorize

LEMMA TicketNext ==
    ASSUME Ticket!AuthorizationAssumption
    PROVE  TicketInv /\ [Ticket!Next]_(Ticket!vars) => TicketInv'
<1> SUFFICES ASSUME TicketInv, [Ticket!Next]_(Ticket!vars) PROVE TicketInv'
  OBVIOUS
<1>1. CASE UNCHANGED Ticket!vars
  BY <1>1 DEF TicketInv, Ticket!TypeOK, MovesCounted, ReadingsLag, Established, Ticket!Current,
              Ticket!Eligible, Ticket!Trusted, Ticket!vars, Ticket!world, Ticket!ledger
<1>2. CASE Ticket!AuthorizationFails
  BY <1>2, TicketReturns DEF Ticket!AuthorizationFails
<1> QED
  BY <1>1, <1>2, TicketPeople, TicketPolls, TicketReconciles, TicketAuthorizes, TicketReturns
     DEF Ticket!Next

\* Tickets, polls, rows, tasks and workers of one ticket keep their types.
THEOREM TicketTypesCorrect ==
    ASSUME Ticket!AuthorizationAssumption
    PROVE  Ticket!Spec => []Ticket!TypeOK
<1>1. TicketInv => Ticket!TypeOK
  BY DEF TicketInv
<1> QED
  BY <1>1, TicketInit, TicketNext, PTL DEF Ticket!Spec

\* However people move a ticket between the two reads of an authorization, and
\* between poll, claim and authorization, an agent is launched only if at one
\* instant since the claim the ticket matched for a trusted author by the very
\* label event, or the very option, of its task.
THEOREM LaunchesWereCurrent ==
    ASSUME Ticket!AuthorizationAssumption
    PROVE  Ticket!Spec => []Ticket!LaunchesAreCurrent
<1>1. TicketInv => Ticket!LaunchesAreCurrent
  BY DEF TicketInv, Established, Ticket!LaunchesAreCurrent
<1> QED
  BY <1>1, TicketInit, TicketNext, PTL DEF Ticket!Spec
================================================================================

---------------------------- MODULE ScheduleCursors ----------------------------
(***************************************************************************)
(* The schedule of one workflow: the cursor row that holds its next due    *)
(* instant, the daemons that own it, and the ticks that turn due instants  *)
(* into tasks (src/storage.rs and src/daemon.rs).                          *)
(*                                                                         *)
(* A daemon resolves the cursor at its start and again at every tick; it   *)
(* reads the clock first, resolves in one transaction, reads the clock     *)
(* again and enqueues the due instants one transaction each.  Daemons with *)
(* another definition of the workflow (cron expression, timezone, runtime, *)
(* timeout, prompt) share the ledger.  `factory run --once` is an owner    *)
(* that resolves without discarding an overdue instant, evaluates once and *)
(* leaves.                                                                 *)
(***************************************************************************)
EXTENDS Naturals, Sequences

CONSTANTS
    Owners,       \* daemon processes, each registered once under its own id
    OneShots,     \* those started by `factory run --once`
    Definitions,  \* fingerprints of the workflow definition
    None,         \* no fingerprint
    Definition,   \* the definition an owner read from its configuration
    Period,       \* the cron expression of a definition: multiples of a period
    MaxTime       \* bound of the model on the clock

ASSUME ScheduleAssumption ==
    /\ OneShots \subseteq Owners
    /\ None \notin Definitions
    /\ Definition \in [Owners -> Definitions]
    /\ Period \in [Definitions -> Nat \ {0}]
    /\ MaxTime \in Nat

VARIABLES
    now,      \* the clock
    cursor,   \* schedule_cursors row
    rows,     \* schedule_owners: the fingerprint an owner registered
    lease,    \* daemon_owners: the lease of an owner
    pc,       \* where the process of an owner is
    clock,    \* the clock as an owner read it last
    due,      \* the next due instant an owner has in memory
    tasks     \* tasks of the schedule, in the order of their ids

owner == <<rows, lease, pc, clock, due>>
vars == <<now, cursor, owner, tasks>>

Steps == {"off", "starting", "idle", "ticking", "evaluating", "gone"}
Leases == {"none", "fresh", "expired"}
Task == [instant : Nat, definition : Definitions]

Init ==
    /\ now = 0
    /\ cursor = [definition |-> None, due |-> 0]
    /\ rows = [d \in Owners |-> None]
    /\ lease = [d \in Owners |-> "none"]
    /\ pc = [d \in Owners |-> "off"]
    /\ clock = [d \in Owners |-> 0]
    /\ due = [d \in Owners |-> 0]
    /\ tasks = << >>

-------------------------------------------------------------------------------
\* The first occurrence of a definition after an instant.
NextOccurrence(f, t) == (t \div Period[f] + 1) * Period[f]

Alive(d) == pc[d] \notin {"off", "gone"}

\* A fresh heartbeat of a process that exists.
Live(d) == lease[d] = "fresh" /\ Alive(d)

Advance ==
    /\ now < MaxTime
    /\ now' = now + 1
    /\ UNCHANGED <<cursor, owner, tasks>>

-------------------------------------------------------------------------------
\* Start, stop, crash, stall.
Register(d) ==
    /\ pc[d] = "off"
    /\ pc' = [pc EXCEPT ![d] = "starting"]
    /\ lease' = [lease EXCEPT ![d] = "fresh"]
    /\ clock' = [clock EXCEPT ![d] = now]
    /\ UNCHANGED <<now, cursor, rows, due, tasks>>

\* The owner row goes, and the schedule rows go with it (ON DELETE CASCADE).
Stop(d) ==
    /\ pc[d] = "idle"
    /\ pc' = [pc EXCEPT ![d] = "gone"]
    /\ lease' = [lease EXCEPT ![d] = "none"]
    /\ rows' = [rows EXCEPT ![d] = None]
    /\ UNCHANGED <<now, cursor, clock, due, tasks>>

Crash(d) ==
    /\ Alive(d)
    /\ pc' = [pc EXCEPT ![d] = "gone"]
    /\ UNCHANGED <<now, cursor, rows, lease, clock, due, tasks>>

\* The heartbeats of a stalled or dead process are overdue.  An expired lease is
\* never renewed.
LeaseLapses(d) ==
    /\ lease[d] = "fresh"
    /\ lease' = [lease EXCEPT ![d] = "expired"]
    /\ UNCHANGED <<now, cursor, rows, pc, clock, due, tasks>>

-------------------------------------------------------------------------------
\* initialize_schedule_cursor.

\* The definitions that other live owners have registered.
OthersDefinitions(d) == {rows[e] : e \in {q \in Owners \ {d} : Live(q)}} \ {None}

\* Defect: a newer definition replaces the cursor of a live owner.
NoConflict(d) == FALSE

\* The cursor belongs to another definition that a live owner uses.
Conflict(d) ==
    /\ cursor.definition \notin {None, Definition[d]}
    /\ cursor.definition \in OthersDefinitions(d)

\* Defect: the owner does not recognise its own registration.
KeepsForeignDue(d) ==
    /\ cursor.definition = Definition[d]
    /\ d \in OneShots \/ cursor.due > clock[d] \/ Definition[d] \in OthersDefinitions(d)

\* Defect: the other owners of the definition do not count.
KeepsOwnDue(d) ==
    /\ cursor.definition = Definition[d]
    /\ \/ d \in OneShots
       \/ cursor.due > clock[d]
       \/ rows[d] = Definition[d] /\ lease[d] = "fresh"

\* The stored instant stands if it is still to come, or if somebody was there to
\* enqueue it; otherwise it fell into a downtime and is skipped.
KeepsDue(d) ==
    /\ cursor.definition = Definition[d]
    /\ \/ d \in OneShots
       \/ cursor.due > clock[d]
       \/ Definition[d] \in OthersDefinitions(d)
       \/ rows[d] = Definition[d] /\ lease[d] = "fresh"

Resolved(d) == IF KeepsDue(d) THEN cursor.due ELSE NextOccurrence(Definition[d], clock[d])

\* The clock is read again for the evaluation, except by a one-shot run.
Initialize(d) ==
    /\ pc[d] \in {"starting", "ticking"}
    /\ ~Conflict(d)
    /\ cursor' = [definition |-> Definition[d], due |-> Resolved(d)]
    /\ rows' = [rows EXCEPT ![d] = Definition[d]]
    /\ due' = [due EXCEPT ![d] = Resolved(d)]
    /\ clock' = [clock EXCEPT ![d] = IF d \in OneShots THEN @ ELSE now]
    /\ pc' = [pc EXCEPT ![d] = IF d \notin OneShots /\ @ = "starting" THEN "idle" ELSE "evaluating"]
    /\ UNCHANGED <<now, lease, tasks>>

\* The schedule is left out until the next tick.
InitializeRefused(d) ==
    /\ pc[d] \in {"starting", "ticking"}
    /\ Conflict(d)
    /\ pc' = [pc EXCEPT ![d] = "idle"]
    /\ UNCHANGED <<now, cursor, rows, lease, clock, due, tasks>>

-------------------------------------------------------------------------------
\* The tick.
TickBegins(d) ==
    /\ pc[d] = "idle"
    /\ d \notin OneShots
    /\ pc' = [pc EXCEPT ![d] = "ticking"]
    /\ clock' = [clock EXCEPT ![d] = now]
    /\ UNCHANGED <<now, cursor, rows, lease, due, tasks>>

\* INSERT OR IGNORE on the identity key, which holds the instant.
Inserted(t, f) ==
    IF \E k \in DOMAIN tasks : tasks[k].instant = t
    THEN tasks
    ELSE Append(tasks, [instant |-> t, definition |-> f])

\* The insert and the step of the cursor are one transaction; it does nothing if
\* somebody else has moved the cursor.
EnqueueOccurrence(d) ==
    /\ pc[d] = "evaluating"
    /\ due[d] <= clock[d]
    /\ IF cursor = [definition |-> Definition[d], due |-> due[d]]
       THEN /\ tasks' = Inserted(due[d], Definition[d])
            /\ cursor' = [cursor EXCEPT !.due = NextOccurrence(Definition[d], @)]
       ELSE UNCHANGED <<tasks, cursor>>
    /\ due' = [due EXCEPT ![d] = NextOccurrence(Definition[d], @)]
    /\ pc' = [pc EXCEPT ![d] = IF d \in OneShots THEN "idle" ELSE @]
    /\ UNCHANGED <<now, rows, lease, clock>>

\* The ledger refused; the tick gives up and the next one resolves again.
EnqueueFails(d) ==
    /\ pc[d] = "evaluating"
    /\ due[d] <= clock[d]
    /\ pc' = [pc EXCEPT ![d] = "idle"]
    /\ UNCHANGED <<now, cursor, rows, lease, clock, due, tasks>>

\* Nothing more is due.
EvaluationEnds(d) ==
    /\ pc[d] = "evaluating"
    /\ due[d] > clock[d]
    /\ pc' = [pc EXCEPT ![d] = "idle"]
    /\ UNCHANGED <<now, cursor, rows, lease, clock, due, tasks>>

Tick(d) ==
    \/ TickBegins(d) \/ Initialize(d) \/ InitializeRefused(d)
    \/ EnqueueOccurrence(d) \/ EvaluationEnds(d)

Next ==
    \/ Advance
    \/ \E d \in Owners :
         Register(d) \/ Stop(d) \/ Crash(d) \/ LeaseLapses(d) \/ Tick(d) \/ EnqueueFails(d)

Spec == Init /\ [][Next]_vars

\* The timer of every daemon ticks, a ledger does not fail for ever, and a
\* one-shot run ends.
Fairness ==
    \A d \in Owners :
        /\ WF_vars(Tick(d))
        /\ SF_vars(EnqueueOccurrence(d))
        /\ d \in OneShots => WF_vars(Stop(d))

FairSpec == Spec /\ Fairness

-------------------------------------------------------------------------------
TypeOK ==
    /\ now \in Nat
    /\ cursor \in [definition : Definitions \cup {None}, due : Nat]
    /\ rows \in [Owners -> Definitions \cup {None}]
    /\ lease \in [Owners -> Leases]
    /\ pc \in [Owners -> Steps]
    /\ clock \in [Owners -> Nat]
    /\ due \in [Owners -> Nat]
    /\ tasks \in Seq(Task)

\* Live owners of the schedule agree on its definition, and the cursor is theirs:
\* a daemon with another definition never takes a schedule over from a live one.
LiveOwnersAgree == \A d \in Owners : Live(d) /\ rows[d] # None => rows[d] = cursor.definition

\* "An instant creates at most one task across restarts" (docs/design.md), also
\* when daemons with different definitions hand the schedule over.
OneTaskPerInstant ==
    \A j, k \in DOMAIN tasks : tasks[j].instant = tasks[k].instant => j = k

Serving(d) == Live(d) /\ rows[d] = cursor.definition /\ rows[d] # None
Enqueued(t) == \E k \in DOMAIN tasks : tasks[k].instant = t

\* While a live owner serves the schedule, the cursor passes an instant only
\* after the instant has got its task: only a downtime skips.
Passed == {t \in cursor.due .. cursor'.due - 1 : t % Period[cursor.definition] = 0}
ServedInstantsKept == (\E d \in Owners : Serving(d)) => \A t \in Passed : Enqueued(t)'
NoServedInstantSkipped == [][ServedInstantsKept]_vars

\* A due instant of a schedule that stays served gets its task.
IsDue(t) == cursor.due = t /\ t <= now /\ \E d \in Owners : Serving(d)
DueInstantsFire ==
    \A t \in 1 .. MaxTime : IsDue(t) ~> (Enqueued(t) \/ ~\E d \in Owners : Serving(d))
===============================================================================

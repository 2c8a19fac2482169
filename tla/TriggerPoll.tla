------------------------------ MODULE TriggerPoll ------------------------------
(***************************************************************************)
(* How the tickets of an external source become tasks of one workflow:     *)
(* pollers query the source, and reconcile_ticket_poll of src/storage.rs   *)
(* compares what they saw with the trigger_observations table and enqueues *)
(* a task for every edge.                                                  *)
(*                                                                         *)
(* A query and its reconciliation are two steps.  Several pollers can      *)
(* overlap: two daemons may share a ledger, `factory run --once` may run   *)
(* beside one, and the fleet poller starts a target again when its last    *)
(* poll took longer than the interval.  The ticket is moved by people in   *)
(* between.                                                                *)
(***************************************************************************)
EXTENDS Naturals, Sequences

CONSTANTS
    Tickets,      \* source items
    Pollers,      \* polls of the workflow that can be under way together
    EventTickets, \* tickets of a label source: a new revision for each entry, and
                  \* the source lists the ticket also while it does not match; the
                  \* revision of the others is a hash of the matched state and labels
    MaxEntries    \* bound of the model on how often a ticket enters the condition

ASSUME PollAssumption ==
    /\ EventTickets \subseteq Tickets
    /\ MaxEntries \in Nat

VARIABLES
    inside,       \* the ticket matches the trigger now
    entry,        \* how often it has entered
    observed,     \* trigger_observations rows
    tasks,        \* the tasks of each ticket, in the order of their ids
    seen,         \* what each poller has read from the source
    latest,       \* history: the newest reading the ledger has got of each ticket
    overtaken     \* history: the entries of each ticket of which a reading came after a
                  \* newer one, or was followed by an older one

world == <<inside, entry>>
history == <<latest, overtaken>>
vars == <<world, observed, tasks, seen, history>>

NoRevision == 0

\* A row, or a reading: does the ticket match, and in which revision.  NoRevision
\* stands for "no row" and for the revision of a label that is absent.
Observation == [eligible : BOOLEAN, revision : Nat]
Reading == [matches : BOOLEAN, entry : Nat]
Task == [revision : Nat, visit : Nat, entry : Nat, active : BOOLEAN]

\* No poll is under way.
Idle == [t \in {} |-> [matches |-> FALSE, entry |-> 0]]

Init ==
    /\ inside = [t \in Tickets |-> FALSE]
    /\ entry = [t \in Tickets |-> 0]
    /\ observed = [t \in Tickets |-> [eligible |-> FALSE, revision |-> NoRevision]]
    /\ tasks = [t \in Tickets |-> << >>]
    /\ seen = [p \in Pollers |-> Idle]
    /\ latest = [t \in Tickets |-> [matches |-> FALSE, entry |-> 0]]
    /\ overtaken = [t \in Tickets |-> {}]

-------------------------------------------------------------------------------
\* The ticket, moved by people.
Enter(t) ==
    /\ ~inside[t] /\ entry[t] < MaxEntries
    /\ inside' = [inside EXCEPT ![t] = TRUE]
    /\ entry' = [entry EXCEPT ![t] = @ + 1]
    /\ UNCHANGED <<observed, tasks, seen, history>>

Leave(t) ==
    /\ inside[t]
    /\ inside' = [inside EXCEPT ![t] = FALSE]
    /\ UNCHANGED <<entry, observed, tasks, seen, history>>

-------------------------------------------------------------------------------
\* A poll reads the source.
Query(p) ==
    /\ seen[p] = Idle
    /\ seen' = [seen EXCEPT ![p] = [t \in Tickets |-> [matches |-> inside[t], entry |-> entry[t]]]]
    /\ UNCHANGED <<world, observed, tasks, history>>

\* The command failed, or the process died before it wrote anything.
PollFails(p) ==
    /\ seen[p] # Idle
    /\ seen' = [seen EXCEPT ![p] = Idle]
    /\ UNCHANGED <<world, observed, tasks, history>>

\* Whether the source lists the ticket in this reading, and its revision there.
Listed(t, reading) == reading.matches \/ (t \in EventTickets /\ reading.entry > 0)
Revision(t, reading) ==
    IF ~reading.matches THEN NoRevision
    ELSE IF t \in EventTickets THEN reading.entry ELSE 1

\* An edge: the ticket was not eligible before, or its revision changed.
Edge(t, reading) ==
    /\ reading.matches
    /\ ~observed[t].eligible \/ observed[t].revision # Revision(t, reading)

\* A ticket that returns with the revision of its last observation gets a key of
\* its own, made unique by the id of the task that is about to be inserted.
Visit(t, reading) ==
    IF ~observed[t].eligible /\ observed[t].revision = Revision(t, reading)
    THEN Len(tasks[t]) + 1
    ELSE 0

HasActiveTask(t) == \E k \in DOMAIN tasks[t] : tasks[t][k].active

\* INSERT OR IGNORE on the identity key.
KeyIsTaken(t, reading) ==
    \E k \in DOMAIN tasks[t] :
        /\ tasks[t][k].revision = Revision(t, reading)
        /\ tasks[t][k].visit = Visit(t, reading)

Enqueues(t, reading) ==
    /\ Edge(t, reading)
    /\ ~HasActiveTask(t)
    /\ ~KeyIsTaken(t, reading)

\* Defect: the row is written with the eligibility it was reset to.
RecordedUnarmed(t, reading) ==
    IF Listed(t, reading)
    THEN [eligible |-> FALSE, revision |-> Revision(t, reading)]
    ELSE [observed[t] EXCEPT !.eligible = FALSE]

\* Every row of the workflow is reset, then the listed tickets are recorded,
\* whether or not a task was enqueued.
Recorded(t, reading) ==
    IF Listed(t, reading)
    THEN [eligible |-> reading.matches, revision |-> Revision(t, reading)]
    ELSE [observed[t] EXCEPT !.eligible = FALSE]

\* A reading was taken before another one: an entry begins with a match.
Older(a, b) == a.entry < b.entry \/ (a.entry = b.entry /\ a.matches /\ ~b.matches)

Remember(reading) ==
    /\ latest' = [t \in Tickets |->
          IF Older(latest[t], reading[t]) THEN reading[t] ELSE latest[t]]
    /\ overtaken' = [t \in Tickets |->
          IF Older(reading[t], latest[t])
          THEN overtaken[t] \cup {reading[t].entry, latest[t].entry}
          ELSE overtaken[t]]

\* One transaction: the observations and their tasks are written together.
Reconcile(p) ==
    /\ seen[p] # Idle
    /\ tasks' = [t \in Tickets |->
          IF Enqueues(t, seen[p][t])
          THEN Append(tasks[t],
                      [revision |-> Revision(t, seen[p][t]), visit |-> Visit(t, seen[p][t]),
                       entry |-> seen[p][t].entry, active |-> TRUE])
          ELSE tasks[t]]
    /\ observed' = [t \in Tickets |-> Recorded(t, seen[p][t])]
    /\ seen' = [seen EXCEPT ![p] = Idle]
    /\ Remember(seen[p])
    /\ UNCHANGED world

\* The worker ends and the task reaches a terminal state.
TaskEnds(t) ==
    /\ \E k \in DOMAIN tasks[t] :
          /\ tasks[t][k].active
          /\ tasks' = [tasks EXCEPT ![t][k].active = FALSE]
    /\ UNCHANGED <<world, observed, seen, history>>

Next ==
    \/ \E t \in Tickets : Enter(t) \/ Leave(t) \/ TaskEnds(t)
    \/ \E p \in Pollers : Query(p) \/ PollFails(p) \/ Reconcile(p)

Spec == Init /\ [][Next]_vars

-------------------------------------------------------------------------------
TypeOK ==
    /\ inside \in [Tickets -> BOOLEAN]
    /\ entry \in [Tickets -> Nat]
    /\ observed \in [Tickets -> Observation]
    /\ tasks \in [Tickets -> Seq(Task)]
    /\ seen \in [Pollers -> {Idle} \cup [Tickets -> Reading]]
    /\ latest \in [Tickets -> Reading] /\ overtaken \in [Tickets -> SUBSET Nat]

\* A ticket never has two active tasks of the workflow, however many pollers
\* report it, in whatever order their readings arrive.
OneActiveTaskPerTicket ==
    \A t \in Tickets : \A j, k \in DOMAIN tasks[t] :
        tasks[t][j].active /\ tasks[t][k].active => j = k

\* Identity keys are unique: two tasks of a ticket differ in revision or visit.
KeysAreUnique ==
    \A t \in Tickets : \A j, k \in DOMAIN tasks[t] :
        tasks[t][j].revision = tasks[t][k].revision /\ tasks[t][j].visit = tasks[t][k].visit
            => j = k

\* "One continuous match creates one task" (docs/local-v1.md): however many pollers
\* overlap, two tasks stem from one entry of a ticket only if the ledger got a reading
\* of that very entry out of order.
OneTaskPerEntry ==
    \A t \in Tickets : \A j, k \in DOMAIN tasks[t] :
        tasks[t][j].entry = tasks[t][k].entry => j = k \/ tasks[t][j].entry \in overtaken[t]
===============================================================================

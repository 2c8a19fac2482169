-------------------------- MODULE TicketAuthorization --------------------------
(***************************************************************************)
(* One ticket on its way from a forge or source to an agent: the polls of  *)
(* src/github.rs and src/source.rs, the rows of src/storage.rs, and the    *)
(* authorization by which a worker of src/daemon.rs looks at the ticket    *)
(* once more after it has claimed the task and before it launches.         *)
(*                                                                         *)
(* The ticket matches a label trigger while it is open and labelled, a     *)
(* status trigger while it is open and its project item has the status,    *)
(* and a source trigger while the source's command lists it; the first two *)
(* only for authors the configuration trusts.  Every poll and              *)
(* authorization of a label or status reads two things at two different    *)
(* times: the issue and its timeline, or the options of the project's      *)
(* field and the item.  In between people move the ticket, and may delete  *)
(* the option of the status and create it again under the same name.  The  *)
(* command of a source may name a revision of the ticket; it may change    *)
(* while the ticket matches, and an earlier one may come back.             *)
(*                                                                         *)
(* Left out: the names of repository, project and field, which do not      *)
(* change while a daemon runs; a second poller, which is in TriggerPoll.   *)
(***************************************************************************)
EXTENDS Naturals, FiniteSets

CONSTANTS
    MaxAttempts,  \* MAX_RECOVERY_ATTEMPTS
    MaxMoves,     \* bound of the model on what people do to the ticket
    MaxTroubles   \* bound of the model on failing reads and dying daemons

ASSUME AuthorizationAssumption == {MaxAttempts, MaxMoves, MaxTroubles} \subseteq Nat

VARIABLES
    kind,     \* of the trigger
    open,     \* the issue is open
    matched,  \* it carries the label or status, or the source lists it
    blank,    \* its project item has no status
    event,    \* the latest label event, when the status last changed, or the
              \* revision that the source has for the ticket
    option,   \* the option that has the name of the status
    trusted,  \* the configuration the daemon has read trusts the author
    poll,     \* the poll under way and what it has read
    row,      \* the ticket's row in trigger_observations
    keys,     \* identity keys of its tasks
    task,     \* state of the latest of them
    payload,  \* the event and option its payload names
    attempt,  \* its recovery attempts
    worker,   \* the step of the worker that has claimed it
    valid,    \* the ticket was what the task says at some time since the claim
    moves, troubles

world == <<kind, open, matched, blank, event, option, moves, trusted>>
ledger == <<row, keys, task, payload, attempt>>
vars == <<world, poll, ledger, worker, valid, troubles>>

\* The tickets of a source come without an author.
Trusted == kind = "source" \/ trusted

Eligible == open /\ matched /\ Trusted

\* A label task names one event, a status task one option.
Current ==
    /\ Eligible
    /\ kind = "label" => event = payload.event
    /\ kind = "status" => option = payload.option

NoPoll == [step |-> "idle", listed |-> FALSE, matches |-> FALSE,
           option |-> 0, event |-> 0]
Events == 0 .. MaxMoves + 1
Named == [option : 0 .. MaxMoves, event : Events]
Unnamed == [option |-> 0, event |-> 0]

TypeOK ==
    /\ kind \in {"label", "status", "source"}
    /\ {open, matched, blank, trusted, valid} \subseteq BOOLEAN
    /\ event \in Events /\ option \in 0 .. MaxMoves
    /\ poll \in [step : {"idle", "listed", "resolved", "read"}, listed : BOOLEAN,
                 matches : BOOLEAN, option : 0 .. MaxMoves, event : Events]
    /\ row \in [eligible : BOOLEAN, revision : Named]
    /\ keys \subseteq [revision : Named, visit : Nat]
    /\ task \in {"none", "queued", "running", "ended", "failed"}
    /\ payload \in Named /\ attempt \in 0 .. MaxAttempts
    /\ worker \in {"none", "claimed", "second", "launched"}
    /\ moves \in 0 .. MaxMoves /\ troubles \in 0 .. MaxTroubles

Init ==
    /\ kind \in {"label", "status", "source"}
    /\ open = TRUE /\ matched = FALSE
    /\ event = IF kind = "source" THEN 1 ELSE 0
    /\ blank = FALSE /\ option = 0 /\ trusted \in BOOLEAN
    /\ poll = NoPoll
    /\ row = [eligible |-> FALSE, revision |-> Unnamed]
    /\ keys = {} /\ task = "none" /\ payload = Unnamed /\ attempt = 0
    /\ worker = "none" /\ valid = FALSE
    /\ moves = 0 /\ troubles = 0

-----------------------------------------------------------------------------
(* People.                                                                 *)

\* What the ticket has become may be what a claimed task says.
Move ==
    /\ moves < MaxMoves /\ moves' = moves + 1
    /\ UNCHANGED <<kind, trusted, poll, ledger, worker, troubles>>
    /\ valid' = (valid \/ (worker # "none" /\ Current'))

\* Adding the label is an event of the timeline; so is a change of status.
Enter ==
    /\ ~matched /\ matched' = TRUE /\ blank' = FALSE
    /\ event' = IF kind = "source" THEN event ELSE event + 1
    /\ UNCHANGED <<open, option>> /\ Move

\* Only a change of status is dated; removing a label leaves the last event.
Leave ==
    /\ matched /\ matched' = FALSE
    /\ event' = IF kind = "status" THEN event + 1 ELSE event
    /\ UNCHANGED <<open, blank, option>> /\ Move

CloseOrReopen ==
    /\ kind # "source"
    /\ open' = ~open
    /\ UNCHANGED <<matched, blank, event, option>> /\ Move

\* The option of the status is deleted and created again.  Items that had it
\* have no status then.
Recreate ==
    /\ kind = "status" /\ option' = option + 1
    /\ matched' = FALSE /\ blank' = (blank \/ matched)
    /\ UNCHANGED <<open, event>> /\ Move

\* The source names another revision: a new one, or one it has had before.  A
\* source that names none, so that a hash of key, state and labels stands for it,
\* never takes this step.
Revise ==
    /\ kind = "source"
    /\ event' \in {1, 2} \ {event}
    /\ UNCHANGED <<open, matched, blank, option>> /\ Move

-----------------------------------------------------------------------------
(* The poll.                                                               *)

\* The open issues with their labels; who the author is, is read with them.
ListIssues ==
    /\ kind = "label" /\ poll.step = "idle"
    /\ poll' = [NoPoll EXCEPT !.step = "listed", !.listed = open,
                              !.matches = matched /\ Trusted]
    /\ UNCHANGED <<world, ledger, worker, valid, troubles>>

\* The timeline of an issue that had the label when it was listed.
ReadTimeline ==
    /\ poll.step = "listed"
    /\ poll' = [poll EXCEPT !.step = "read",
                            !.event = IF poll.matches THEN event ELSE 0]
    /\ UNCHANGED <<world, ledger, worker, valid, troubles>>

\* The option that the field of the project has for the status.
ResolveProject ==
    /\ kind = "status" /\ poll.step = "idle"
    /\ poll' = [NoPoll EXCEPT !.step = "resolved", !.option = option]
    /\ UNCHANGED <<world, ledger, worker, valid, troubles>>

\* What an item of the project says: its issue, its option, when that changed.
Item == [open |-> open, options |-> IF matched THEN {option} ELSE {},
         blank |-> blank, updated |-> event]

\* The items of the project.  One without a status is passed over.
ListItems ==
    /\ poll.step = "resolved"
    /\ poll' = [poll EXCEPT !.step = "read", !.event = Item.updated,
                            !.listed = Item.open /\ ~Item.blank,
                            !.matches = poll.option \in Item.options /\ Trusted]
    /\ UNCHANGED <<world, ledger, worker, valid, troubles>>

\* The tickets the source's command lists.
ListTickets ==
    /\ kind = "source" /\ poll.step = "idle"
    /\ poll' = [NoPoll EXCEPT !.step = "read", !.listed = matched, !.matches = matched,
                              !.event = event]
    /\ UNCHANGED <<world, ledger, worker, valid, troubles>>

Read == ListIssues \/ ReadTimeline \/ ResolveProject \/ ListItems \/ ListTickets

\* A command of a forge fails, takes too long or hits a rate limit.
Trouble ==
    /\ troubles < MaxTroubles
    /\ troubles' = troubles + 1

\* A repository whose poll fails half-way is reconciled with nothing.
PollFails ==
    /\ poll # NoPoll /\ Trouble
    /\ poll' = NoPoll
    /\ UNCHANGED <<world, ledger, worker, valid>>

Revision == [option |-> poll.option, event |-> poll.event]

\* The defect: every task of a revision has the same key.
NoVisit == 0

\* A ticket that returns with the revision of its last observation gets a
\* key of its own.
Visit == IF ~row.eligible /\ row.revision = Revision
         THEN Cardinality(keys) + 1 ELSE 0

Key == [revision |-> Revision, visit |-> Visit]
Edge == poll.listed /\ poll.matches /\ (~row.eligible \/ row.revision # Revision)

\* A key that is taken is passed over.
Enqueues == Edge /\ task \notin {"queued", "running"} /\ Key \notin keys

\* The row of a ticket that is not listed keeps its revision.
Recorded ==
    IF poll.listed THEN [eligible |-> poll.matches, revision |-> Revision]
    ELSE [row EXCEPT !.eligible = FALSE]

\* reconcile_ticket_poll is one transaction.
Reconcile ==
    /\ poll.step = "read"
    /\ row' = Recorded
    /\ IF Enqueues
       THEN /\ keys' = keys \cup {Key} /\ task' = "queued"
            /\ payload' = [option |-> poll.option, event |-> poll.event]
            /\ attempt' = 0
       ELSE UNCHANGED <<keys, task, payload, attempt>>
    /\ poll' = NoPoll
    /\ UNCHANGED <<world, worker, valid, troubles>>

-----------------------------------------------------------------------------
(* The worker.                                                             *)

Claim ==
    /\ task = "queued"
    /\ task' = "running" /\ worker' = "claimed" /\ valid' = Current
    /\ UNCHANGED <<world, poll, row, keys, payload, attempt, troubles>>

\* The defect: the attempts are not counted.
RetryForever ==
    /\ worker' = "none" /\ valid' = FALSE /\ task' = "queued"
    /\ UNCHANGED attempt

\* The run fails, and the task is queued again until its attempts are used up.
Retry ==
    /\ worker' = "none" /\ valid' = FALSE
    /\ IF attempt < MaxAttempts
       THEN task' = "queued" /\ attempt' = attempt + 1
       ELSE task' = "failed" /\ UNCHANGED attempt

Requeue == Retry /\ UNCHANGED <<world, poll, row, keys, payload>>

Launch ==
    /\ worker' = "launched"
    /\ UNCHANGED <<world, poll, ledger, valid, troubles>>

Goto(step) ==
    /\ worker' = step
    /\ UNCHANGED <<world, poll, ledger, valid, troubles>>

\* Two reads one after the other; the task returns to the queue if what one
\* of them shows is not what the task says.
InTwoReads(first, second) ==
    \/ worker = "claimed" /\ first /\ Goto("second")
    \/ worker = "claimed" /\ ~first /\ Requeue /\ UNCHANGED troubles
    \/ worker = "second" /\ second /\ Launch
    \/ worker = "second" /\ ~second /\ Requeue /\ UNCHANGED troubles

\* The defect: the timeline is read before the issue.
AuthorizeTimelineFirst ==
    kind = "label" /\ InTwoReads(event = payload.event, Eligible)

\* authorize_label_claim reads the issue, then its timeline.
AuthorizeLabel ==
    kind = "label" /\ InTwoReads(Eligible, event = payload.event)

\* validate_project_item: an open issue with the option the task names.  That
\* it has had another one meanwhile does not matter.
ItemHolds == Item.open /\ payload.option \in Item.options

\* authorize_project_claim reads the options of the project, then the item.
AuthorizeStatus ==
    kind = "status" /\ InTwoReads(trusted /\ option = payload.option, ItemHolds)

\* authorize runs the source's command again, and does not look at the revision.
AuthorizeSource ==
    /\ kind = "source" /\ worker = "claimed"
    /\ IF matched THEN Launch ELSE Requeue /\ UNCHANGED troubles

Authorize == AuthorizeLabel \/ AuthorizeStatus \/ AuthorizeSource

AuthorizationFails ==
    /\ worker \in {"claimed", "second"} /\ Trouble
    /\ Requeue

\* The daemon dies before it launches, or is stopped for a new configuration;
\* the next one recovers the run and trusts whom its configuration names.
Restart ==
    /\ worker # "launched" /\ Trouble
    /\ trusted' \in BOOLEAN
    /\ poll' = NoPoll
    /\ UNCHANGED <<kind, open, matched, blank, event, option, moves>>
    /\ UNCHANGED <<row, keys, payload>>
    /\ IF worker = "none" THEN UNCHANGED <<task, attempt, worker, valid>>
       ELSE Retry

TaskEnds ==
    /\ worker = "launched"
    /\ task' = "ended" /\ worker' = "none" /\ valid' = FALSE
    /\ UNCHANGED <<world, poll, row, keys, payload, attempt, troubles>>

-----------------------------------------------------------------------------

Next ==
    \/ Enter \/ Leave \/ CloseOrReopen \/ Recreate \/ Revise
    \/ Read \/ PollFails \/ Reconcile
    \/ Claim \/ Authorize \/ AuthorizationFails \/ Restart \/ TaskEnds

\* Polls are repeated, queued tasks are claimed, commands answer or time out.
Fairness ==
    /\ WF_vars(Read) /\ WF_vars(Reconcile)
    /\ WF_vars(Claim) /\ WF_vars(Authorize) /\ WF_vars(TaskEnds)

Spec == Init /\ [][Next]_vars /\ Fairness

-----------------------------------------------------------------------------
(* An agent is only launched for a ticket that, at one and the same        *)
(* instant since the task was claimed, matched its trigger for a trusted   *)
(* author and did so by the very label event, or the very option of the    *)
(* status, that the task was created for; although the authorization never *)
(* sees all of that at the same time.                                      *)
LaunchesAreCurrent == worker = "launched" => valid

(* A task whose ticket has moved on does not stay in the way of later      *)
(* ones: every queued task is launched, or has failed with all attempts    *)
(* that it is given used up.                                               *)
TasksSettle == task = "queued" ~> (worker = "launched" \/ (task = "failed" /\ attempt = MaxAttempts))

\* The ticket matches, and neither an observation nor a task knows of it.
Entered == Eligible /\ ~row.eligible /\ task \notin {"queued", "running"}

\* The ticket is back at the revision of an earlier task, past another one: a
\* revision that its source names again, or the label event of an author who has
\* been without trust meanwhile.  Nothing sets the key of such a visit apart.
Repeats ==
    LET now == [option |-> option, event |-> event] IN
    row.revision # now /\ [revision |-> now, visit |-> 0] \in keys

(* A ticket that begins to match while it has no active task, and goes on  *)
(* matching, gets a task, also when it has been closed and reopened under  *)
(* the label event of an earlier one.  Unless more goes wrong than a task  *)
(* has attempts for, an agent is launched for it; here no poll may be      *)
(* under way, whose reading could be older than the ticket's return.  A    *)
(* ticket that is back at the revision of an earlier task, past another,   *)
(* may get neither.                                                        *)
EntriesAreServed ==
    /\ Entered ~> (task = "queued" \/ ~Eligible \/ Repeats)
    /\ (Entered /\ poll = NoPoll)
         ~> (worker = "launched" \/ ~Eligible \/ Repeats \/ troubles > MaxAttempts)
=============================================================================

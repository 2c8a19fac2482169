-------------------------- MODULE PullRequestEvents --------------------------
(***************************************************************************)
(* The reconciliation of pull requests (reconcile_pull_request_            *)
(* observations in src/daemon.rs): every minute a daemon reads the pull    *)
(* requests of successful deliveries and projects what changed into Asana, *)
(* with the command `asana reconcile-pr` of the repository.                *)
(*                                                                         *)
(* Three stores change at different times: the provider, where people      *)
(* push, review, close and merge; the ledger, with a row per fingerprint   *)
(* of an observation that goes observed, claimed, asana_applied, consumed; *)
(* and Asana, which the command reads once and then changes with one       *)
(* request after the other.  A file lock admits one daemon of a ledger,    *)
(* but a command outlives the daemon that started it.                      *)
(***************************************************************************)
EXTENDS Naturals, FiniteSets

CONSTANTS
    Daemons,        \* daemons on one ledger
    Orphans,        \* names for commands that outlived their daemon
    Tickets,        \* tasks with a delivery
    Followers,      \* tasks that only wait for others
    Blockers,       \* the dependencies of each task
    Reachable,      \* those with their own dependencies, and so on
    NoTicket,
    InitialLane,    \* the delivery policy of each task when it was queued
    Delivered,      \* tickets that are associated at the start
    Opened,         \* what their pull requests may be at the start
    Branched,       \* deliveries whose workspace row names a branch
    MaxContinuations,
    MaxChanges,     \* bound of the model on changes of pull requests
    MaxTroubles     \* bound of the model on crashes, failed readings and
                    \* requests, and what people do in Asana, taken together

Tasks == Tickets \cup Followers
Lanes == {"autonomous", "manual", "unsafe"}

ASSUME EventAssumption ==
    /\ Daemons \cap Orphans = {}
    /\ Tickets \cap Followers = {}
    /\ NoTicket \notin Tasks
    /\ Blockers \in [Tasks -> SUBSET Tasks]
    /\ Reachable \in [Tasks -> SUBSET Tasks]
    /\ InitialLane \in [Tasks -> Lanes]
    /\ Delivered \subseteq Tickets /\ Branched \subseteq Tickets
    /\ Opened \subseteq [state : {"open", "closed", "merged"}, attention : BOOLEAN, rev : {0}]
    /\ MaxContinuations \in Nat /\ MaxChanges \in Nat /\ MaxTroubles \in Nat

\* A graph with a cycle is refused by the command, and releases nobody.
ASSUME GraphAssumption ==
    \A t \in Tasks :
        /\ t \notin Reachable[t]
        /\ Reachable[t] = Blockers[t] \cup UNION {Reachable[b] : b \in Blockers[t]}

VARIABLES
    pr,          \* the pull request of each ticket
    changes,     \* how often pull requests changed
    overtaken,   \* history: followers of which a direct dependency was merged while an
                 \* indirect one was not completed
    delivery,    \* the state of the task in the ledger
    handoff,     \* runs that succeeded and are not associated yet
    associated,  \* autonomous_pull_requests
    event,       \* autonomous_pull_request_events
    reserved,    \* autonomous_continuations
    daemon,      \* where the arm of each daemon is
    cmd,         \* the command of each daemon and the orphans
    section,     \* Asana: the section of each task
    completed,   \* Asana: the completed tasks
    lane,        \* Asana: the policy tags of each task
    retagged,    \* tasks whose tags people changed
    troubles     \* how much went wrong

provider == <<pr, changes, overtaken>>
ledger == <<delivery, handoff, associated, event, reserved>>
asana == <<section, completed, lane>>
vars == <<provider, ledger, daemon, cmd, asana, retagged, troubles>>

\* What a task depends on through others only.
Indirect(t) == Reachable[t] \ Blockers[t]

\* What a fingerprint tells apart: the state, and the head with the reviews and
\* the pipeline, which also say whether work is needed.
Observations == [state : {"open", "closed", "merged"}, attention : BOOLEAN, rev : 0 .. MaxChanges]
\* The fingerprint of a reading that failed is always the same.
Outage == [state |-> "unsafe", attention |-> FALSE, rev |-> 0]
Fingerprints == Observations \cup {Outage}

EventStates == {"none", "observed", "claimed", "expired", "asana_applied", "consumed"}
Sections == {"Reviewing", "Waiting", "Ready", "NeedsDecision", "Done"}
Outcomes == {"merged", "closed", "unsafe"}
Stages == {"idle", "next", "seen", "claimed", "trusted", "continued",
           "asana", "marked"}

Idle == [stage |-> "idle", todo |-> {}, ticket |-> NoTicket, seen |-> Outage]
NoCommand == [stage |-> "none", ticket |-> NoTicket,
              outcome |-> "unsafe", inDone |-> FALSE, routes |-> {}]
Routes == Tasks \X {"Ready", "NeedsDecision"}
Commands == [stage : {"none", "reading", "routing", "finishing", "completing", "releasing",
                      "deciding", "ok", "failed"},
             ticket : Tickets \cup {NoTicket}, outcome : Outcomes, inDone : BOOLEAN,
             routes : SUBSET Routes]

AnyMerged(ts) == \E t \in ts \cap Tickets : pr[t].state = "merged"

Init ==
    /\ pr \in [Tickets -> Opened]
    /\ changes = 0
    /\ overtaken = {t \in Followers : Indirect(t) # {} /\ AnyMerged(Blockers[t])}
    /\ delivery = [t \in Tickets |-> IF t \in Delivered THEN "succeeded" ELSE "queued"]
    /\ handoff = {} /\ associated = Delivered
    /\ event = [t \in Tickets |-> [f \in Fingerprints |-> "none"]]
    /\ reserved = [t \in Tickets |-> {}]
    /\ daemon = [d \in Daemons |-> Idle]
    /\ cmd = [c \in Daemons \cup Orphans |-> NoCommand]
    /\ section = [t \in Tasks |-> IF t \in Tickets THEN "Reviewing" ELSE "Waiting"]
    /\ completed = {}
    /\ lane = InitialLane
    /\ retagged = {} /\ troubles = 0
\* One more thing goes wrong.
Trouble == troubles < MaxTroubles /\ troubles' = troubles + 1

--------------------------------------------------------------------------------
\* The provider and people.

\* People and agents push, review, merge, close and reopen.  A new head or
\* review is a new rev; closing and opening again is not.  Before a ticket is
\* associated, nobody sees what its pull request goes through.
PullRequestChanges(t) ==
    /\ t \in associated /\ changes < MaxChanges
    /\ changes' = changes + 1
    /\ \/ \E a \in BOOLEAN : pr' = [pr EXCEPT ![t].rev = @ + 1, ![t].attention = a]
       \/ /\ pr[t].state # "merged"
          /\ \E s \in {"open", "closed", "merged"} \ {pr[t].state} :
               pr' = [pr EXCEPT ![t].state = s]
    /\ overtaken' = overtaken \cup
          {f \in Followers : AnyMerged(Blockers[f])' /\ ~(Indirect(f) \subseteq completed)}
    /\ UNCHANGED <<ledger, daemon, cmd, asana, retagged, troubles>>

\* A person changes the policy of a task.
PersonRetags(t) ==
    /\ Trouble
    /\ retagged' = retagged \cup {t}
    /\ \E l \in Lanes \ {lane[t]} : lane' = [lane EXCEPT ![t] = l]
    /\ UNCHANGED <<provider, ledger, daemon, cmd, section, completed>>

\* A person puts a task that needed a decision back to review.
PersonReturns(t) ==
    /\ Trouble
    /\ t \notin completed /\ section[t] = "NeedsDecision"
    /\ section' = [section EXCEPT ![t] = "Reviewing"]
    /\ UNCHANGED <<provider, ledger, daemon, cmd, completed, lane, retagged>>

--------------------------------------------------------------------------------
\* The delivery: a worker that ends its run.

\* The run and its task are closed in one transaction ...
RunSucceeds(t) ==
    /\ delivery[t] = "queued"
    /\ delivery' = [delivery EXCEPT ![t] = "succeeded"]
    /\ handoff' = handoff \cup {t}
    /\ UNCHANGED <<provider, associated, event, reserved, daemon, cmd, asana, retagged, troubles>>

RunFails(t) ==
    /\ delivery[t] = "queued"
    /\ delivery' = [delivery EXCEPT ![t] = "failed"]
    /\ UNCHANGED <<provider, handoff, associated, event, reserved, daemon, cmd, asana, retagged, troubles>>

\* ... and the pull request is associated in another.
Associate(t) ==
    /\ t \in handoff
    /\ handoff' = handoff \ {t}
    /\ associated' = associated \cup {t}
    /\ UNCHANGED <<provider, delivery, event, reserved, daemon, cmd, asana, retagged, troubles>>

\* The daemon of the worker dies in between.
WorkerDies(t) ==
    /\ t \in handoff /\ Trouble
    /\ handoff' = handoff \ {t}
    /\ UNCHANGED <<provider, delivery, associated, event, reserved, daemon, cmd, asana, retagged>>

--------------------------------------------------------------------------------
\* The arm of a daemon.

GoTo(d, stage) == daemon' = [daemon EXCEPT ![d].stage = stage]

\* On to the next association.
GoOn(d) == daemon' = [daemon EXCEPT ![d] = [Idle EXCEPT !.stage = "next", !.todo = daemon[d].todo]]

SetEvent(t, f, state) == event' = [event EXCEPT ![t][f] = state]

\* The lock is free.
LockFree == \A d \in Daemons : daemon[d].stage = "idle"

Acquire(d) ==
    /\ daemon[d].stage = "idle" /\ LockFree
    /\ daemon' = [daemon EXCEPT ![d].stage = "next", ![d].todo = associated]
    /\ UNCHANGED <<provider, ledger, cmd, asana, retagged, troubles>>

Release(d) ==
    /\ daemon[d].stage = "next" /\ daemon[d].todo = {}
    /\ daemon' = [daemon EXCEPT ![d] = Idle]
    /\ UNCHANGED <<provider, ledger, cmd, asana, retagged, troubles>>

See(d, t, f) ==
    /\ daemon[d].stage = "next" /\ t \in daemon[d].todo
    /\ daemon' = [daemon EXCEPT ![d] =
                    [stage |-> "seen", todo |-> @.todo \ {t}, ticket |-> t, seen |-> f]]
    /\ UNCHANGED <<provider, ledger, cmd, asana, retagged>>

Observe(d, t) == See(d, t, pr[t]) /\ UNCHANGED troubles
\* No access, no answer, or one that contradicts itself.
ObserveFails(d, t) == See(d, t, Outage) /\ Trouble

\* The defect: a claim that a dead daemon left is never taken over.
ClaimableOnce(state) == state \in {"none", "observed"}

\* Who may claim: an event that is new or whose claim has lapsed.
Claimable(state) == state \in {"none", "observed", "expired"}

\* observe_pull_request_event and claim_pull_request_event.
Claim(d) ==
    LET t == daemon[d].ticket
        f == daemon[d].seen
    IN  /\ daemon[d].stage = "seen"
        /\ \/ /\ Claimable(event[t][f])
              /\ SetEvent(t, f, "claimed") /\ GoTo(d, "claimed")
           \/ /\ event[t][f] = "asana_applied"
              /\ SetEvent(t, f, "consumed") /\ GoOn(d)
           \/ /\ ~Claimable(event[t][f]) /\ event[t][f] # "asana_applied"
              /\ GoOn(d) /\ UNCHANGED event
        /\ UNCHANGED <<provider, delivery, handoff, associated, reserved, cmd, asana, retagged, troubles>>

\* The lease of a claim is over after a minute.  While its daemon is at work on
\* the event, nobody else looks at it.
ClaimExpires(t, f) ==
    /\ event[t][f] = "claimed"
    /\ \A d \in Daemons :
         daemon[d].stage = "seen" \/ <<daemon[d].ticket, daemon[d].seen>> # <<t, f>>
    /\ SetEvent(t, f, "expired")
    /\ UNCHANGED <<provider, delivery, handoff, associated, reserved, daemon, cmd, asana, retagged, troubles>>

\* mark_pull_request_event_asana_applied, which a consumed event ignores.
Mark(d) ==
    LET t == daemon[d].ticket
        f == daemon[d].seen
    IN  /\ IF event[t][f] \in {"observed", "claimed", "expired"}
           THEN SetEvent(t, f, "asana_applied") ELSE UNCHANGED event
        /\ GoTo(d, "marked")

\* An open pull request that needs nothing, or manual work.
MarkUntouched(d) ==
    /\ daemon[d].stage = "claimed" /\ daemon[d].seen.state = "open"
    /\ ~daemon[d].seen.attention \/ lane[daemon[d].ticket] = "manual"
    /\ Mark(d)
    /\ UNCHANGED <<provider, delivery, handoff, associated, reserved, cmd, asana, retagged, troubles>>

\* continuation_authorization: the live task is autonomous and under review.
Trusted(t) == lane[t] = "autonomous" /\ t \notin completed /\ section[t] = "Reviewing"

Trust(d) ==
    /\ daemon[d].stage = "claimed"
    /\ daemon[d].seen.state = "open" /\ daemon[d].seen.attention
    /\ Trusted(daemon[d].ticket)
    /\ GoTo(d, "trusted")
    /\ UNCHANGED <<provider, ledger, cmd, asana, retagged, troubles>>

Start(d, outcome) ==
    /\ GoTo(d, "asana")
    /\ cmd' = [cmd EXCEPT ![d] = [NoCommand EXCEPT !.stage = "reading",
                                    !.ticket = daemon[d].ticket, !.outcome = outcome]]

\* Work that is wanted without the authority for it; a task that cannot be
\* read counts as such.
Refuse(d) ==
    /\ daemon[d].stage = "claimed"
    /\ daemon[d].seen.state = "open" /\ daemon[d].seen.attention
    /\ \/ /\ ~Trusted(daemon[d].ticket) /\ lane[daemon[d].ticket] # "manual"
          /\ UNCHANGED troubles
       \/ Trouble
    /\ Start(d, "unsafe")
    /\ UNCHANGED <<provider, ledger, asana, retagged>>

Project(d) ==
    /\ daemon[d].stage = "claimed" /\ daemon[d].seen.state # "open"
    /\ Start(d, daemon[d].seen.state)
    /\ UNCHANGED <<provider, ledger, asana, retagged, troubles>>

\* What request_continuation asks of the task and its workspace.
Continuable(t) ==
    InitialLane[t] = "autonomous" /\ delivery[t] = "succeeded" /\ t \in Branched

\* A fingerprint asks for one continuation, and a task gets a few.
Fresh(t, f) == f \notin reserved[t]

WithinLimit(t) == Cardinality(reserved[t]) < MaxContinuations

Continue(d) ==
    LET t == daemon[d].ticket
        f == daemon[d].seen
    IN  /\ daemon[d].stage = "trusted"
        /\ Fresh(t, f) /\ Continuable(t)
        /\ WithinLimit(t)
        /\ reserved' = [reserved EXCEPT ![t] = @ \cup {f}]
        /\ delivery' = [delivery EXCEPT ![t] = "queued"]
        /\ daemon' = [daemon EXCEPT ![d].stage = "continued"]
        /\ UNCHANGED <<provider, handoff, associated, event, cmd, asana, retagged, troubles>>

\* Reserved before, or not to be continued.
ContinueRefused(d) ==
    LET t == daemon[d].ticket
        f == daemon[d].seen
    IN  /\ daemon[d].stage = "trusted"
        /\ \/ /\ ~Fresh(t, f)
              /\ GoTo(d, "continued") /\ UNCHANGED cmd
           \/ /\ Fresh(t, f)
              /\ ~Continuable(t) \/ ~WithinLimit(t)
              /\ Start(d, "unsafe")
        /\ UNCHANGED <<provider, ledger, asana, retagged, troubles>>

MarkContinued(d) ==
    /\ daemon[d].stage = "continued"
    /\ Mark(d)
    /\ UNCHANGED <<provider, delivery, handoff, associated, reserved, cmd, asana, retagged, troubles>>

\* The defect: the exit status is not looked at.
Exited == {"ok", "failed"}

\* What the command has to end with for its event to count as applied.
Succeeded == {"ok"}

CommandReturns(d) ==
    LET t == daemon[d].ticket
        f == daemon[d].seen
    IN  /\ daemon[d].stage = "asana" /\ cmd[d].stage \in {"ok", "failed"}
        /\ \/ /\ cmd[d].stage \in Succeeded
              /\ Mark(d)
           \/ /\ cmd[d].stage \notin Succeeded
              /\ IF event[t][f] \in {"claimed", "expired"}
                 THEN SetEvent(t, f, "observed") ELSE UNCHANGED event
              /\ GoOn(d)
        /\ cmd' = [cmd EXCEPT ![d] = NoCommand]
        /\ UNCHANGED <<provider, delivery, handoff, associated, reserved, asana, retagged, troubles>>

Consume(d) ==
    LET t == daemon[d].ticket
        f == daemon[d].seen
    IN  /\ daemon[d].stage = "marked"
        /\ SetEvent(t, f, "consumed")
        /\ GoOn(d)
        /\ UNCHANGED <<provider, delivery, handoff, associated, reserved, cmd, asana, retagged, troubles>>

\* A daemon dies, at any point of its arm; its lock is free and its command goes on.
Crash(d) ==
    /\ daemon[d].stage # "idle" /\ Trouble
    /\ daemon' = [daemon EXCEPT ![d] = Idle]
    /\ \/ /\ cmd[d].stage \in {"none", "ok", "failed"}
          /\ cmd' = [cmd EXCEPT ![d] = NoCommand]
       \/ /\ cmd[d].stage \notin {"none", "ok", "failed"}
          /\ \E o \in Orphans :
               /\ cmd[o].stage = "none"
               /\ cmd' = [cmd EXCEPT ![d] = NoCommand, ![o] = cmd[d]]
    /\ UNCHANGED <<provider, ledger, asana, retagged>>

--------------------------------------------------------------------------------
\* The command.  Each step is one request to Asana, or one read of a set.

Running(c) == cmd[c].stage \notin {"none", "ok", "failed"}

Becomes(c, stage) == cmd' = [cmd EXCEPT ![c].stage = stage]

\* A request fails.
CommandFails(c) ==
    /\ Running(c) /\ Trouble
    /\ Becomes(c, "failed")
    /\ UNCHANGED <<provider, ledger, daemon, asana, retagged>>

\* What the command may do about a task it has read, which no outcome but a
\* merge does to completed or to manual work.
Untouchable(t, outcome) ==
    outcome # "merged" /\ (lane[t] = "manual" \/ t \in completed)

Decides(t, outcome) ==
    ~Untouchable(t, outcome) /\ lane[t] # "manual"
        /\ (lane[t] = "unsafe" \/ outcome # "merged")

CommandReads(c) ==
    LET t == cmd[c].ticket
        outcome == cmd[c].outcome
    IN  /\ cmd[c].stage = "reading"
        /\ \/ /\ Untouchable(t, outcome)
              /\ Becomes(c, "ok")
           \/ /\ Decides(t, outcome)
              /\ Becomes(c, IF section[t] = "NeedsDecision" THEN "ok" ELSE "deciding")
           \/ /\ outcome = "merged" /\ ~Decides(t, outcome)
              /\ cmd' = [cmd EXCEPT ![c].inDone = (section[t] = "Done"),
                                    ![c].stage = IF lane[t] = "manual" THEN "finishing"
                                                 ELSE "routing"]
        /\ UNCHANGED <<provider, ledger, daemon, asana, retagged, troubles>>

\* The defect: the merge at hand does not count until Asana shows it.
AssumedNothing(t) == {}

\* The defect: no dependency is looked at.
AssumedReachable(t) == Tasks

\* What dependency_state takes for completed beside what Asana says.
AssumedCompleted(t) == {t}

Blocked(d, t) == ~(Reachable[d] \subseteq completed \cup AssumedCompleted(t))

\* The autonomous dependents that wait for t; one with contradicting tags is
\* for people to decide.
RoutesOf(t) ==
    LET held == {d \in Tasks : t \in Blockers[d] /\ d \notin completed /\ section[d] = "Waiting"}
    IN  {<<d, "NeedsDecision">> : d \in {w \in held : lane[w] = "unsafe"}}
        \cup {<<d, "Ready">> : d \in {w \in held : lane[w] = "autonomous" /\ ~Blocked(w, t)}}

CommandRoutes(c) ==
    /\ cmd[c].stage = "routing"
    /\ cmd' = [cmd EXCEPT ![c].routes = RoutesOf(cmd[c].ticket), ![c].stage = "finishing"]
    /\ UNCHANGED <<provider, ledger, daemon, asana, retagged, troubles>>

CommandFinishes(c) ==
    /\ cmd[c].stage = "finishing"
    /\ section' = IF cmd[c].inDone THEN section ELSE [section EXCEPT ![cmd[c].ticket] = "Done"]
    /\ Becomes(c, "completing")
    /\ UNCHANGED <<provider, ledger, daemon, completed, lane, retagged, troubles>>

CommandCompletes(c) ==
    /\ cmd[c].stage = "completing"
    /\ completed' = completed \cup {cmd[c].ticket}
    /\ Becomes(c, "releasing")
    /\ UNCHANGED <<provider, ledger, daemon, section, lane, retagged, troubles>>

CommandReleases(c) ==
    /\ cmd[c].stage = "releasing"
    /\ \/ /\ cmd[c].routes = {}
          /\ Becomes(c, "ok") /\ UNCHANGED section
       \/ \E r \in cmd[c].routes :
            /\ section' = [section EXCEPT ![r[1]] = r[2]]
            /\ cmd' = [cmd EXCEPT ![c].routes = @ \ {r}]
    /\ UNCHANGED <<provider, ledger, daemon, completed, lane, retagged, troubles>>

CommandDecides(c) ==
    /\ cmd[c].stage = "deciding"
    /\ section' = [section EXCEPT ![cmd[c].ticket] = "NeedsDecision"]
    /\ Becomes(c, "ok")
    /\ UNCHANGED <<provider, ledger, daemon, completed, lane, retagged, troubles>>

\* Nobody waits for the result of an orphan.
OrphanEnds(o) ==
    /\ cmd[o].stage \in {"ok", "failed"}
    /\ cmd' = [cmd EXCEPT ![o] = NoCommand]
    /\ UNCHANGED <<provider, ledger, daemon, asana, retagged, troubles>>

CommandStep(c) ==
    \/ CommandReads(c) \/ CommandRoutes(c) \/ CommandFinishes(c) \/ CommandCompletes(c)
    \/ CommandReleases(c) \/ CommandDecides(c)

DaemonStep(d) ==
    \/ Release(d) \/ Claim(d) \/ MarkUntouched(d) \/ Trust(d) \/ Refuse(d) \/ Project(d)
    \/ Continue(d) \/ ContinueRefused(d) \/ MarkContinued(d) \/ CommandReturns(d) \/ Consume(d)

Next ==
    \/ \E t \in Tickets :
         \/ PullRequestChanges(t)
         \/ RunSucceeds(t) \/ RunFails(t) \/ Associate(t) \/ WorkerDies(t)
         \/ \E f \in Fingerprints : ClaimExpires(t, f)
    \/ \E t \in Tasks : PersonRetags(t) \/ PersonReturns(t)
    \/ \E d \in Daemons :
         \/ Acquire(d) \/ DaemonStep(d) \/ Crash(d)
         \/ \E t \in Tickets : Observe(d, t) \/ ObserveFails(d, t)
    \/ \E c \in Daemons \cup Orphans : CommandStep(c) \/ CommandFails(c)
    \/ \E o \in Orphans : OrphanEnds(o)

\* The arm runs every minute and comes to its end, a worker hands over what it
\* has committed, and a lease runs out.
Fairness ==
    /\ \A d \in Daemons :
         /\ SF_vars(Acquire(d))
         /\ WF_vars(DaemonStep(d) \/ \E t \in Tickets : Observe(d, t))
    /\ \A c \in Daemons \cup Orphans : WF_vars(CommandStep(c))
    /\ \A t \in Tickets :
         /\ WF_vars(Associate(t))
         /\ WF_vars(\E f \in Fingerprints : ClaimExpires(t, f))

Spec == Init /\ [][Next]_vars /\ Fairness

--------------------------------------------------------------------------------
\* Properties.

\* Types of all variables.
TypeOK ==
    /\ pr \in [Tickets -> Observations] /\ changes \in 0 .. MaxChanges
    /\ delivery \in [Tickets -> {"queued", "succeeded", "failed"}]
    /\ handoff \subseteq Tickets /\ associated \subseteq Tickets
    /\ event \in [Tickets -> [Fingerprints -> EventStates]]
    /\ reserved \in [Tickets -> SUBSET Observations]
    /\ daemon \in [Daemons -> [stage : Stages, todo : SUBSET Tickets,
                               ticket : Tickets \cup {NoTicket}, seen : Fingerprints]]
    /\ \A d \in Daemons : daemon[d].ticket = NoTicket <=> daemon[d].stage \in {"idle", "next"}
    /\ cmd \in [Daemons \cup Orphans -> Commands]
    /\ section \in [Tasks -> Sections] /\ completed \subseteq Tickets
    /\ lane \in [Tasks -> Lanes]
    /\ retagged \subseteq Tasks /\ overtaken \subseteq Followers
    /\ troubles \in 0 .. MaxTroubles

\* The ledger forgets an event only when Asana shows it: the merge of a ticket
\* whose tags nobody changed is consumed only after the ticket was completed,
\* whatever failed or died in between.
ConsumedMergesAreProjected ==
    \A t \in Tickets, f \in Observations :
        /\ f.state = "merged" /\ event[t][f] \in {"asana_applied", "consumed"}
        /\ t \notin retagged /\ lane[t] # "unsafe"
        => t \in completed

\* Nobody starts on a task before all it depends on, directly or not, is
\* completed, whatever part of a projection failed.
ReleasedTasksAreUnblocked ==
    \A t \in Followers : section[t] = "Ready" => Reachable[t] \subseteq completed

\* The last merge releases its dependents in the same pass: when the merges of all
\* direct dependencies of an autonomous task are consumed, the task does not wait.  That
\* holds if no direct dependency was merged before the indirect ones were completed:
\* dependency_state refuses to release a task with an open indirect dependency, and the
\* completion of that one later looks at its direct dependents only.
MergesReleaseDependents ==
    \A t \in Followers \ overtaken :
        /\ Blockers[t] # {}
        /\ \A b \in Blockers[t] :
             /\ b \in Tickets /\ pr[b].state = "merged" /\ event[b][pr[b]] = "consumed"
             /\ b \notin retagged /\ lane[b] = "autonomous"
        /\ t \notin retagged /\ lane[t] = "autonomous"
        => section[t] # "Waiting"

\* The merge of an associated pull request reaches Asana through failures,
\* crashes and outages, unless its tags contradict each other.
MergesAreProjected ==
    \A t \in Tickets :
        (t \in associated /\ pr[t].state = "merged")
        ~> (t \in completed \/ t \in retagged \/ lane[t] = "unsafe")

--------------------------------------------------------------------------------
\* What is promised about events, tickets and followers: whoever has claimed an event,
\* and however often, it is pending until it is applied.
Progress(t, f) ==
    CASE event[t][f] = "asana_applied" -> "applied"
      [] event[t][f] = "consumed" -> "forgotten"
      [] OTHER -> "pending"

Projection == INSTANCE MergeProjection WITH
    Needs <- Reachable,
    Events <- Fingerprints,
    Merges <- {f \in Fingerprints : f.state = "merged"},
    Limit <- MaxContinuations,
    event <- [t \in Tickets |-> [f \in Fingerprints |-> Progress(t, f)]],
    merged <- {t \in Tickets : pr[t].state = "merged"},
    completed <- completed,
    exempt <- {t \in Tickets : t \in retagged \/ lane[t] = "unsafe"},
    ready <- {t \in Followers : section[t] = "Ready"},
    continued <- reserved

\* Daemons that die, commands that outlive them, lapsed claims and failing requests
\* never show: an event is applied and forgotten once, a ticket is completed only when
\* it is merged and its merge is forgotten only then, a follower is released only when
\* nothing it depends on is open, and a fingerprint continues its ticket at most once.
ImplementsMergeProjection == Projection!Spec
=============================================================================

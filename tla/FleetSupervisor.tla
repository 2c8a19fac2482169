---------------------------- MODULE FleetSupervisor ----------------------------
(***************************************************************************)
(* The supervisor of a fleet (FleetSupervisor in src/daemon.rs): it starts *)
(* one member per repository, retries what fails with a growing delay,     *)
(* polls all sources, keeps a health record per repository and ends        *)
(* everything when its cancellation token is cancelled.                    *)
(*                                                                         *)
(* Members, the two polls that may be under way and the start-up loop are  *)
(* tasks of their own.  They meet in three places: the host coordinator,   *)
(* which runs at most two operations and holds all of them back during a   *)
(* rate-limit pause; the health records, behind a mutex; and the           *)
(* cancellation token, which all of them share.                            *)
(*                                                                         *)
(* Deadlines are countdowns that Tick lowers: a deadline that has passed   *)
(* and none at all are both 0, which the code does not tell apart either.  *)
(* A tick is the initial backoff.                                          *)
(***************************************************************************)
EXTENDS Naturals, FiniteSets

CONSTANTS
    N,             \* number of repositories, in the order of their start
    PollSlots,     \* the polls that may be under way at once
    HostSlots,     \* the operations the host coordinator runs at once
    MaxBackoff,    \* the longest delay after failures
    Fallback,      \* the pause after a rate limit without a usable time
    ServerTimes,   \* waits a provider may ask for; 0 stands for none
    FailureCap,    \* bound of the model on the failure counter: where the
                   \* delay has reached MaxBackoff
    MaxLimits      \* bound of the model on rate-limit answers

ASSUME SupervisorAssumption ==
    /\ N \in Nat \ {0}
    /\ IsFiniteSet(PollSlots) /\ PollSlots \cap (1 .. N) = {}
    /\ HostSlots \in Nat \ {0}
    /\ MaxBackoff \in Nat \ {0}
    /\ Fallback \in Nat \ {0}
    /\ ServerTimes \subseteq Nat
    /\ FailureCap \in Nat
    /\ MaxLimits \in Nat

VARIABLES
    phase,       \* of FleetSupervisor::run
    turn,        \* the repository that start-up has reached
    prepared,    \* start-up found a healthy repository
    member,      \* the task of each repository
    sleepIn,     \* what is left of the sleep of each member
    health,      \* the state in each health record
    failures,    \* its consecutive_failures
    retryIn,     \* its retry_at
    host,        \* the operation of each member and poll slot
    pauseIn,     \* pause_until of the host coordinator
    poller,      \* the task that polls
    target,      \* the repository each poll under way is for
    cancelled,   \* the cancellation token
    limits,      \* rate-limit answers so far
    owed         \* history: what is left of the wait that the last answer to each
                 \* operation asked for

supervision == <<phase, turn, prepared>>
members == <<member, sleepIn>>
records == <<health, failures, retryIn>>
coordination == <<host, pauseIn, limits, owed>>
polling == <<poller, target>>
vars == <<supervision, members, records, coordination, polling, cancelled>>

Repositories == 1 .. N
Operations == Repositories \cup PollSlots

Results == {"ok", "failed", "ratelimited", "cancelled"}
Stages == {"idle", "queued", "held", "inflight", "limited", "marking"} \cup Results
MemberStates == {"none", "retrying", "sleeping", "preparing", "entering", "looping",
                 "draining", "ended", "aborted"}
HealthStates == {"loading", "healthy", "backing_off", "rate_limited", "unavailable"}
Phases == {"starting", "serving", "draining", "failing", "stopped", "failed"}

Idle == [stage |-> "idle", wait |-> 0]
\* An operation reads the pause once, and sleeps for as long as that says, before
\* it waits for a permit.
Queued == [stage |-> "queued", wait |-> pauseIn]
\* How an operation at this stage may turn out for the task that awaits it.
Outcomes(o) ==
    CASE host[o].stage = "inflight" -> {"ok", "failed"}
      [] host[o].stage \in Results -> {host[o].stage}
      [] OTHER -> {}

Larger(a, b) == IF a >= b THEN a ELSE b
Lower(n) == IF n = 0 THEN 0 ELSE n - 1

Init ==
    /\ phase = "starting" /\ turn = 1 /\ prepared = FALSE
    /\ member = [r \in Repositories |-> "none"]
    /\ sleepIn = [r \in Repositories |-> 0]
    /\ health = [r \in Repositories |-> "loading"]
    /\ failures = [r \in Repositories |-> 0]
    /\ retryIn = [r \in Repositories |-> 0]
    /\ host = [o \in Operations |-> Idle]
    /\ pauseIn = 0 /\ limits = 0
    /\ owed = [o \in Operations |-> 0]
    /\ poller = "none"
    /\ target = [k \in PollSlots |-> 0]
    /\ cancelled = FALSE

--------------------------------------------------------------------------------
\* Delays.

\* The first failure waits a tick, and each further one twice as long.
Backoff(n) ==
    LET delay == IF n = 0 THEN 1 ELSE 2 ^ (n - 1)
    IN  IF delay <= MaxBackoff THEN delay ELSE MaxBackoff

\* A provider's time counts only when it is in the future.
RateLimitDelay(server) == IF server > 0 THEN server ELSE Fallback

--------------------------------------------------------------------------------
\* Health records; each of these is one critical section.

\* A success that comes in while the repository waits for a retry is ignored.
HealthyIgnored(r) ==
    /\ retryIn[r] > 0
    /\ health[r] \in {"backing_off", "rate_limited", "unavailable"}

SetHealthy(r) ==
    IF HealthyIgnored(r)
    THEN UNCHANGED records
    ELSE /\ health' = [health EXCEPT ![r] = "healthy"]
         /\ failures' = [failures EXCEPT ![r] = 0]
         /\ retryIn' = [retryIn EXCEPT ![r] = 0]

CountFailure(r) == IF failures[r] < FailureCap THEN failures[r] + 1 ELSE failures[r]

SetFailure(r, state) ==
    /\ failures' = [failures EXCEPT ![r] = CountFailure(r)]
    /\ health' = [health EXCEPT ![r] = state]
    /\ retryIn' = [retryIn EXCEPT ![r] = Backoff(CountFailure(r))]

\* A failed operation of a member; the rate limit has marked everybody already.
SetHostFailure(r, result) ==
    IF result = "ratelimited" THEN UNCHANGED records ELSE SetFailure(r, "unavailable")

--------------------------------------------------------------------------------
\* The host coordinator.

\* Who has a permit of the semaphore.
Holders == {o \in Operations : host[o].stage \in {"held", "inflight"}}

\* The sleep is over and a permit is free; a pause may have been set meanwhile.
HostAcquires(o) ==
    /\ host[o].stage = "queued" /\ host[o].wait = 0
    /\ Cardinality(Holders) < HostSlots
    /\ host' = [host EXCEPT ![o] = [stage |-> "held", wait |-> 0]]
    /\ UNCHANGED <<supervision, members, records, pauseIn, limits, owed, polling, cancelled>>

\* The pause is read again under the permit: the operation starts, without an
\* await in between, or gives the permit back and begins anew with another reading.
HostRechecks(o) ==
    /\ host[o].stage = "held"
    /\ host' = [host EXCEPT ![o] = IF pauseIn = 0 THEN [stage |-> "inflight", wait |-> 0]
                                                 ELSE Queued]
    /\ UNCHANGED <<supervision, members, records, pauseIn, limits, owed, polling, cancelled>>

\* Cancelled while it waits for the pause or for a permit.
HostCancelled(o) ==
    /\ host[o].stage = "queued"
    /\ cancelled
    /\ host' = [host EXCEPT ![o] = [stage |-> "cancelled", wait |-> 0]]
    /\ UNCHANGED <<supervision, members, records, pauseIn, limits, owed, polling, cancelled>>

\* A poll is over; its task keeps the result until the poller joins it.
PollDone(o) ==
    /\ o \in PollSlots
    /\ host[o].stage = "inflight"
    /\ \E result \in {"ok", "failed"} :
         host' = [host EXCEPT ![o] = [stage |-> result, wait |-> 0]]
    /\ UNCHANGED <<supervision, members, records, pauseIn, limits, owed, polling, cancelled>>

\* The provider refuses: the slot is given back before the pause is set, so an
\* operation that waits for a slot may still start in between.
HostLimited(o) ==
    /\ host[o].stage = "inflight"
    /\ limits < MaxLimits
    /\ \E server \in ServerTimes :
         host' = [host EXCEPT ![o] = [stage |-> "limited", wait |-> RateLimitDelay(server)]]
    /\ limits' = limits + 1
    /\ UNCHANGED <<supervision, members, records, pauseIn, owed, polling, cancelled>>

\* The defect: the last answer counts.
PauseForLast(o) == host[o].wait

\* The pause that a refusal asks for, beside one that is in force.
PauseFor(o) == Larger(pauseIn, host[o].wait)

HostPauses(o) ==
    /\ host[o].stage = "limited"
    /\ pauseIn' = PauseFor(o)
    /\ host' = [host EXCEPT ![o] = [stage |-> "marking", wait |-> PauseFor(o)]]
    /\ owed' = [owed EXCEPT ![o] = host[o].wait]
    /\ UNCHANGED <<supervision, members, records, limits, polling, cancelled>>

\* set_fleet_rate_limited: every record is marked, and a longer wait is kept.
HostMarks(o) ==
    /\ host[o].stage = "marking"
    /\ health' = [r \in Repositories |-> "rate_limited"]
    /\ retryIn' = [r \in Repositories |-> Larger(retryIn[r], host[o].wait)]
    /\ host' = [host EXCEPT ![o] = [stage |-> "ratelimited", wait |-> 0]]
    /\ UNCHANGED <<supervision, members, failures, pauseIn, limits, owed, polling, cancelled>>

--------------------------------------------------------------------------------
\* Members.

\* The loop head of a member that is down: it reads the retry time once.
MemberSleeps(r) ==
    /\ member[r] = "retrying"
    /\ ~cancelled
    /\ member' = [member EXCEPT ![r] = "sleeping"]
    /\ sleepIn' = [sleepIn EXCEPT ![r] = retryIn[r]]
    /\ UNCHANGED <<supervision, records, coordination, polling, cancelled>>

MemberWakes(r) ==
    /\ member[r] = "sleeping" /\ sleepIn[r] = 0
    /\ member' = [member EXCEPT ![r] = "preparing"]
    /\ host' = [host EXCEPT ![r] = Queued]
    /\ UNCHANGED <<supervision, sleepIn, records, pauseIn, limits, owed, polling, cancelled>>

\* A member that is down ends when the token is cancelled.
MemberCancelled(r) ==
    /\ member[r] \in {"retrying", "sleeping"}
    /\ cancelled
    /\ member' = [member EXCEPT ![r] = "ended"]
    /\ sleepIn' = [sleepIn EXCEPT ![r] = 0]
    /\ UNCHANGED <<supervision, records, coordination, polling, cancelled>>

\* The defect: the first failed retry is the last.
AfterFailureGivesUp(r) == "ended"

\* Where a member goes from an operation that did not succeed.
AfterFailure(r) == "retrying"

MemberReturns(r) ==
    /\ member[r] = "preparing"
    /\ host' = [host EXCEPT ![r] = Idle]
    /\ \E result \in Outcomes(r) :
         \/ /\ result = "ok"
            /\ SetHealthy(r)
            /\ member' = [member EXCEPT ![r] = "entering"]
         \/ /\ result # "ok" /\ cancelled
            /\ member' = [member EXCEPT ![r] = "ended"]
            /\ UNCHANGED records
         \/ /\ result # "ok" /\ ~cancelled
            /\ SetHostFailure(r, result)
            /\ member' = [member EXCEPT ![r] = AfterFailure(r)]
    /\ UNCHANGED <<supervision, sleepIn, pauseIn, limits, owed, polling, cancelled>>

\* run_loop, up to its select: the ledger, the workspaces, the owner row.
LoopEnters(r) ==
    /\ member[r] = "entering"
    /\ member' = [member EXCEPT ![r] = "looping"]
    /\ UNCHANGED <<supervision, sleepIn, records, coordination, polling, cancelled>>

LoopRefused(r) ==
    /\ member[r] = "entering"
    /\ \/ /\ cancelled
          /\ member' = [member EXCEPT ![r] = "ended"]
          /\ UNCHANGED records
       \/ /\ ~cancelled
          /\ SetFailure(r, "unavailable")
          /\ member' = [member EXCEPT ![r] = "retrying"]
    /\ UNCHANGED <<supervision, sleepIn, coordination, polling, cancelled>>

\* An arm of the loop or its heartbeat fails: the loop cancels the token, which
\* is the fleet's, and then drains its workers.
LoopFails(r) ==
    /\ member[r] = "looping"
    /\ cancelled' = TRUE
    /\ member' = [member EXCEPT ![r] = "draining"]
    /\ UNCHANGED <<supervision, sleepIn, records, coordination, polling>>

LoopCancelled(r) ==
    /\ member[r] = "looping" /\ cancelled
    /\ member' = [member EXCEPT ![r] = "draining"]
    /\ UNCHANGED <<supervision, sleepIn, records, coordination, polling, cancelled>>

\* The last worker has ended and the owner row is gone.
LoopDrained(r) ==
    /\ member[r] = "draining"
    /\ member' = [member EXCEPT ![r] = "ended"]
    /\ UNCHANGED <<supervision, sleepIn, records, coordination, polling, cancelled>>

--------------------------------------------------------------------------------
\* The poller.

PollSpawns(k, r) ==
    /\ poller = "polling" /\ host[k] = Idle
    /\ retryIn[r] = 0 /\ pauseIn = 0
    /\ target' = [target EXCEPT ![k] = r]
    /\ host' = [host EXCEPT ![k] = Queued]
    /\ UNCHANGED <<supervision, members, records, pauseIn, limits, owed, poller, cancelled>>

\* A poll is joined.  One that was cancelled counts as a failure when the join
\* wins against the cancellation.
PollReturns(k) ==
    LET r == target[k] IN
    /\ poller = "polling" /\ host[k].stage \in Results
    /\ host' = [host EXCEPT ![k] = Idle]
    /\ \/ host[k].stage = "ok" /\ SetHealthy(r)
       \/ host[k].stage = "ratelimited" /\ UNCHANGED records
       \/ host[k].stage \in {"failed", "cancelled"} /\ SetFailure(r, "backing_off")
    /\ target' = [target EXCEPT ![k] = 0]
    /\ UNCHANGED <<supervision, members, pauseIn, limits, owed, poller, cancelled>>

\* The defect: the poller does not look at the token.
PollerGoesOn == FALSE

PollerCancelled ==
    /\ poller = "polling" /\ cancelled
    /\ poller' = "closing"
    /\ UNCHANGED <<supervision, members, records, coordination, target, cancelled>>

\* The poller ends when every poll has; their results are dropped.
PollerEnds ==
    /\ poller = "closing"
    /\ \A k \in PollSlots : host[k].stage \in Results \cup {"idle"}
    /\ poller' = "ended"
    /\ host' = [o \in Operations |-> IF o \in PollSlots THEN Idle ELSE host[o]]
    /\ target' = [k \in PollSlots |-> 0]
    /\ UNCHANGED <<supervision, members, records, pauseIn, limits, owed, cancelled>>

--------------------------------------------------------------------------------
\* The supervisor.

\* During a pause the repository is left to a member that retries.
StartupDefers ==
    /\ phase = "starting" /\ turn <= N
    /\ host[turn] = Idle /\ pauseIn > 0
    /\ member' = [member EXCEPT ![turn] = "retrying"]
    /\ turn' = turn + 1
    /\ UNCHANGED <<phase, prepared, sleepIn, records, coordination, polling, cancelled>>

StartupPrepares ==
    /\ phase = "starting" /\ turn <= N
    /\ host[turn] = Idle /\ pauseIn = 0
    /\ host' = [host EXCEPT ![turn] = Queued]
    /\ UNCHANGED <<supervision, members, records, pauseIn, limits, owed, polling, cancelled>>

StartupReturns ==
    /\ phase = "starting" /\ turn <= N
    /\ host' = [host EXCEPT ![turn] = Idle]
    /\ turn' = turn + 1
    /\ \E result \in Outcomes(turn) :
         \/ /\ result = "ok"
            /\ prepared' = TRUE
            /\ SetHealthy(turn)
            /\ member' = [member EXCEPT ![turn] = "entering"]
         \/ /\ result # "ok" /\ ~cancelled
            /\ SetHostFailure(turn, result)
            /\ member' = [member EXCEPT ![turn] = "retrying"]
            /\ UNCHANGED prepared
    /\ UNCHANGED <<phase, sleepIn, pauseIn, limits, owed, polling, cancelled>>

\* Cancelled during start-up: run returns and drops the set of members, which
\* aborts their tasks wherever they are.
StartupCancelled ==
    /\ phase = "starting" /\ turn <= N
    /\ Outcomes(turn) \ {"ok"} # {}
    /\ cancelled
    /\ phase' = "stopped"
    /\ member' = [r \in Repositories |->
                    IF member[r] \in {"none", "ended"} THEN member[r] ELSE "aborted"]
    /\ sleepIn' = [r \in Repositories |-> 0]
    /\ host' = [o \in Operations |-> Idle]
    /\ UNCHANGED <<turn, prepared, records, pauseIn, limits, owed, polling, cancelled>>

\* The fleet serves if start-up found a healthy repository, and fails otherwise.
StartupEnds ==
    /\ phase = "starting" /\ turn = N + 1
    /\ \/ /\ prepared
          /\ phase' = "serving" /\ poller' = "polling"
          /\ UNCHANGED cancelled
       \/ /\ ~prepared
          /\ phase' = "failing" /\ cancelled' = TRUE
          /\ UNCHANGED poller
    /\ UNCHANGED <<turn, prepared, members, records, coordination, target>>

AllMembersEnded == \A r \in Repositories : member[r] = "ended"

\* Members that end are only reported; nothing but the token ends the service.
SupervisorLeaves ==
    /\ phase = "serving"
    /\ cancelled
    /\ phase' = "draining"
    /\ UNCHANGED <<turn, prepared, members, records, coordination, polling, cancelled>>

\* The defect: the members are not awaited.
JoinedPoller == poller \in {"none", "ended"}

\* Everything is joined: the members, then the poller.
Joined == AllMembersEnded /\ poller \in {"none", "ended"}

SupervisorStops ==
    /\ \/ phase = "draining" /\ phase' = "stopped"
       \/ phase = "failing" /\ phase' = "failed"
    /\ Joined
    /\ UNCHANGED <<turn, prepared, members, records, coordination, polling, cancelled>>

\* Ctrl-C.
OperatorStops ==
    /\ ~cancelled /\ phase \notin {"stopped", "failed"}
    /\ cancelled' = TRUE
    /\ UNCHANGED <<supervision, members, records, coordination, polling>>

\* Time.  Every wait also ends with the token, so time has no part in what
\* follows a cancellation.
Tick ==
    /\ ~cancelled
    /\ pauseIn' = Lower(pauseIn)
    /\ sleepIn' = [r \in Repositories |-> Lower(sleepIn[r])]
    /\ retryIn' = [r \in Repositories |-> Lower(retryIn[r])]
    /\ host' = [o \in Operations |-> [host[o] EXCEPT !.wait = Lower(@)]]
    /\ owed' = [o \in Operations |-> Lower(owed[o])]
    /\ UNCHANGED <<supervision, member, health, failures, limits, poller, target, cancelled>>

Ended ==
    /\ phase \in {"stopped", "failed"}
    /\ UNCHANGED vars

HostStep(o) ==
    \/ HostAcquires(o) \/ HostRechecks(o) \/ HostCancelled(o)
    \/ PollDone(o) \/ HostLimited(o) \/ HostPauses(o) \/ HostMarks(o)

MemberStep(r) ==
    \/ MemberSleeps(r) \/ MemberWakes(r) \/ MemberCancelled(r) \/ MemberReturns(r)
    \/ LoopEnters(r) \/ LoopRefused(r) \/ LoopFails(r) \/ LoopCancelled(r) \/ LoopDrained(r)

PollerStep ==
    \/ \E k \in PollSlots : (\E r \in Repositories : PollSpawns(k, r)) \/ PollReturns(k)
    \/ PollerCancelled \/ PollerEnds

SupervisorStep ==
    \/ StartupDefers \/ StartupPrepares \/ StartupReturns \/ StartupCancelled
    \/ StartupEnds \/ SupervisorLeaves \/ SupervisorStops

Next ==
    \/ \E o \in Operations : HostStep(o)
    \/ \E r \in Repositories : MemberStep(r)
    \/ PollerStep
    \/ SupervisorStep
    \/ OperatorStops
    \/ Tick
    \/ Ended

\* Steps that a task does not put off.
HostProgress(o) ==
    \/ HostRechecks(o) \/ HostCancelled(o)
    \/ PollDone(o) \/ HostPauses(o) \/ HostMarks(o)
MemberProgress(r) ==
    \/ MemberSleeps(r) \/ MemberWakes(r) \/ MemberCancelled(r) \/ MemberReturns(r)
    \/ LoopEnters(r) \/ LoopCancelled(r) \/ LoopDrained(r)

\* Time passes; operations end, because each has a timeout; the semaphore is
\* first come, first served, so who waits for it again and again gets a slot;
\* tasks that can go on do.  The operator need not do anything, and a loop
\* need not fail.
Fairness ==
    /\ WF_vars(Tick)
    /\ \A o \in Operations : SF_vars(HostAcquires(o)) /\ WF_vars(HostProgress(o))
    /\ \A r \in Repositories : WF_vars(MemberProgress(r))
    /\ \A k \in PollSlots : WF_vars(PollReturns(k))
    /\ WF_vars(PollerCancelled \/ PollerEnds)
    /\ WF_vars(SupervisorStep)

Spec == Init /\ [][Next]_vars /\ Fairness

--------------------------------------------------------------------------------
\* Properties.

\* Types of all variables.
TypeOK ==
    /\ phase \in Phases /\ turn \in 1 .. N + 1 /\ prepared \in BOOLEAN
    /\ member \in [Repositories -> MemberStates]
    /\ sleepIn \in [Repositories -> Nat]
    /\ health \in [Repositories -> HealthStates]
    /\ failures \in [Repositories -> 0 .. FailureCap]
    /\ retryIn \in [Repositories -> Nat]
    /\ host \in [Operations -> [stage : Stages, wait : Nat]]
    /\ pauseIn \in Nat /\ limits \in 0 .. MaxLimits /\ owed \in [Operations -> Nat]
    /\ poller \in {"none", "polling", "closing", "ended"}
    /\ target \in [PollSlots -> Repositories \cup {0}]
    /\ cancelled \in BOOLEAN

\* A rate limit binds the whole fleet: nobody starts an operation before the wait
\* of every answer that was taken in is over, however many came in one after the
\* other, in which order and from whom, and whoever was on its way to a permit then.
PauseBinds ==
    [][\A o \in Operations :
          host[o].stage # "inflight" /\ host'[o].stage = "inflight"
          => \A p \in Operations : owed[p] = 0]_vars

\* A fleet that has come to serve stops only after every member has drained its
\* workers and the poller has joined its polls; a start-up without a healthy
\* repository leaves no member behind.
ServingFleetsDrain ==
    phase \in {"stopped", "failed"} /\ turn = N + 1 =>
        /\ AllMembersEnded
        /\ poller \in {"none", "ended"}
        /\ \A o \in Operations : host[o].stage = "idle"

\* Failures never take a repository out of the fleet: a member that is down
\* tries again, unless the fleet is told to stop.
DownRepositoriesRetry ==
    \A r \in Repositories :
        (member[r] = "retrying" \/ health[r] = "unavailable")
        ~> (host[r].stage = "inflight" \/ cancelled)

\* When the token is cancelled, the supervisor comes to its end.
CancellationEndsTheFleet == cancelled ~> phase \in {"stopped", "failed"}
=============================================================================

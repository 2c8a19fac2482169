------------------------------- MODULE FleetProofs -------------------------------
(***************************************************************************)
(* Proofs about a fleet of any number of repositories: FleetSupervisor for *)
(* any number of polls and slots, any delays and any number of rate        *)
(* limits, and FleetAdmission, of which an instance is taken because both  *)
(* modules name their initial states and steps alike, for any limit of the *)
(* fleet and any number of places per member.                              *)
(***************************************************************************)
EXTENDS FleetSupervisor, FiniteSetTheorems, TLAPS

CONSTANTS Limit, Jobs, MaxQueued
VARIABLES available, cursor, waiting, pc, queued, running, finished

A == INSTANCE FleetAdmission

HostTypes == host \in [Operations -> [stage : Stages, wait : Nat]]

\* What the pause and the end of the fleet rest on; the retry clocks do not
\* matter to either.
Types ==
    /\ turn \in 1 .. N + 1
    /\ member \in [Repositories -> MemberStates]
    /\ HostTypes
    /\ pauseIn \in Nat /\ limits \in Nat /\ owed \in [Operations -> Nat]
    /\ target \in [PollSlots -> Repositories \cup {0}]

LEMMA SlotFacts ==
    /\ N \in Nat \ {0} /\ PollSlots \cap Repositories = {}
    /\ 1 \in 1 .. N + 1
    /\ \A r \in Repositories : r \in Operations /\ r # N + 1
    /\ \A k \in PollSlots : k \in Operations /\ k \notin Repositories
  BY SupervisorAssumption DEF Repositories, Operations

\* An operation moves to another stage.
LEMMA HostMoves ==
    ASSUME HostTypes, NEW o \in Operations, NEW s \in Stages, NEW w \in Nat,
           host' = [host EXCEPT ![o] = [stage |-> s, wait |-> w]]
    PROVE  HostTypes' /\ host'[o].stage = s
           /\ \A p \in Operations : p # o => host'[p] = host[p]
  BY DEF HostTypes

LEMMA StageFacts ==
    /\ "idle" \in Stages /\ "queued" \in Stages /\ "held" \in Stages /\ "inflight" \in Stages
    /\ "limited" \in Stages /\ "marking" \in Stages
    /\ Results \subseteq Stages /\ {"ok", "failed", "cancelled", "ratelimited"} \subseteq Stages
    /\ 0 \in Nat
    /\ "idle" \notin Results /\ "queued" \notin Results
    /\ "inflight" \notin Results
  BY DEF Stages, Results

\* What a refusal asks for, and what it makes of the pause.
LEMMA PauseFacts ==
    ASSUME Types, NEW o \in Operations
    PROVE  /\ PauseFor(o) \in Nat /\ PauseFor(o) >= pauseIn
           /\ \A server \in ServerTimes : RateLimitDelay(server) \in Nat
<1>1. host[o].wait \in Nat /\ pauseIn \in Nat
  BY DEF Types, HostTypes
<1>2. PauseFor(o) \in Nat /\ PauseFor(o) >= pauseIn
  BY <1>1 DEF PauseFor, Larger
<1> QED
  BY <1>2, SupervisorAssumption DEF RateLimitDelay

--------------------------------------------------------------------------------
\* The end of the fleet.

\* Polls run only while the poller does, and the supervisor starts it when it
\* begins to serve.
PollsBelong ==
    /\ phase = "starting" => poller = "none"
    /\ poller \in {"none", "ended"} => \A k \in PollSlots : host[k].stage = "idle"

\* A repository has an operation under way while its member prepares, or while
\* the start-up is at it and has not made it a member yet.
OperationsBelong ==
    /\ \A r \in Repositories : host[r].stage # "idle" =>
         member[r] = "preparing" \/ (phase = "starting" /\ turn = r)
    /\ phase = "starting" => \A r \in Repositories : r >= turn => member[r] = "none"

StoppedJoined ==
    phase \in {"stopped", "failed"} /\ turn = N + 1 => Joined

FleetInv == Types /\ PollsBelong /\ OperationsBelong /\ StoppedJoined

LEMMA FleetInit == Init => FleetInv
<1> SUFFICES ASSUME Init PROVE FleetInv
  OBVIOUS
<1>1. Types
  BY SlotFacts, StageFacts DEF Init, Types, HostTypes, Idle, MemberStates
<1>2. PollsBelong /\ OperationsBelong /\ StoppedJoined
  BY SlotFacts DEF Init, PollsBelong, OperationsBelong, StoppedJoined, Idle
<1> QED
  BY <1>1, <1>2 DEF FleetInv

--------------------------------------------------------------------------------
LEMMA HostNext ==
    ASSUME FleetInv, NEW o \in Operations, HostStep(o)
    PROVE  /\ HostTypes' /\ pauseIn' \in Nat /\ limits' \in Nat /\ owed' \in [Operations -> Nat]
           /\ UNCHANGED <<supervision, members, poller, target, cancelled>>
           /\ \A p \in Operations : host'[p].stage = "idle" <=> host[p].stage = "idle"
<1> USE StageFacts DEF FleetInv, Types
<1>1. CASE HostAcquires(o)
  BY <1>1, HostMoves DEF HostAcquires, polling
<1>7. CASE HostRechecks(o)
  <2>1. CASE pauseIn = 0
    BY <1>7, <2>1, HostMoves DEF HostRechecks, polling
  <2>2. CASE pauseIn # 0
    BY <1>7, <2>2, HostMoves DEF HostRechecks, Queued, polling
  <2> QED
    BY <2>1, <2>2
<1>2. CASE HostCancelled(o)
  BY <1>2, HostMoves DEF HostCancelled, polling
<1>3. CASE PollDone(o)
  <2>1. PICK result \in {"ok", "failed"} :
          host' = [host EXCEPT ![o] = [stage |-> result, wait |-> 0]]
    BY <1>3 DEF PollDone
  <2>2. result \in Stages /\ result # "idle"
    BY DEF Results
  <2>3. HostTypes' /\ host'[o].stage = result
        /\ \A p \in Operations : p # o => host'[p] = host[p]
    BY <2>1, <2>2, HostMoves
  <2>4. /\ host[o].stage = "inflight"
        /\ UNCHANGED <<supervision, members, pauseIn, limits, owed, poller, target, cancelled>>
    BY <1>3 DEF PollDone, polling
  <2> QED
    BY <2>2, <2>3, <2>4
<1>4. CASE HostLimited(o)
  <2>1. PICK server \in ServerTimes :
          host' = [host EXCEPT ![o] = [stage |-> "limited", wait |-> RateLimitDelay(server)]]
    BY <1>4 DEF HostLimited
  <2>2. RateLimitDelay(server) \in Nat
    BY PauseFacts
  <2>3. HostTypes' /\ host'[o].stage = "limited" /\ \A p \in Operations : p # o => host'[p] = host[p]
    BY <2>1, <2>2, HostMoves
  <2>4. /\ host[o].stage = "inflight" /\ limits' = limits + 1
        /\ UNCHANGED <<supervision, members, pauseIn, owed, poller, target, cancelled>>
    BY <1>4 DEF HostLimited, polling
  <2> QED
    BY <2>3, <2>4
<1>5. CASE HostPauses(o)
  <2>1. host[o].wait \in Nat
    BY DEF HostTypes
  <2> QED
    BY <1>5, <2>1, PauseFacts, HostMoves DEF HostPauses, polling
<1>6. CASE HostMarks(o)
  BY <1>6, HostMoves DEF HostMarks, polling
<1> QED
  BY <1>1, <1>2, <1>3, <1>4, <1>5, <1>6, <1>7 DEF HostStep

\* A step that only moves one member between states in which it has no
\* operation under way.
LEMMA MemberMoves ==
    ASSUME FleetInv, NEW r \in Repositories, NEW m \in MemberStates,
           member' = [member EXCEPT ![r] = m],
           member[r] \notin {"none", "preparing", "ended"},
           UNCHANGED <<supervision, coordination, polling>>
    PROVE  FleetInv'
<1>1. Types' /\ PollsBelong'
  BY DEF FleetInv, Types, HostTypes, PollsBelong, supervision, coordination, polling
<1>2. OperationsBelong'
  BY DEF FleetInv, Types, OperationsBelong, supervision, coordination, polling
<1>3. StoppedJoined'
  BY DEF FleetInv, Types, StoppedJoined, Joined, AllMembersEnded, supervision, polling
<1> QED
  BY <1>1, <1>2, <1>3 DEF FleetInv

LEMMA MemberNext ==
    ASSUME FleetInv, NEW r \in Repositories, MemberStep(r)
    PROVE  FleetInv'
<1>1. CASE MemberSleeps(r) \/ MemberCancelled(r) \/ LoopEnters(r) \/ LoopRefused(r)
           \/ LoopFails(r) \/ LoopCancelled(r) \/ LoopDrained(r)
  <2>1. member[r] \notin {"none", "preparing", "ended"}
    BY <1>1 DEF MemberSleeps, MemberCancelled, LoopEnters, LoopRefused, LoopFails,
                LoopCancelled, LoopDrained
  <2>2. \E m \in MemberStates : member' = [member EXCEPT ![r] = m]
    BY <1>1 DEF MemberSleeps, MemberCancelled, LoopEnters, LoopRefused, LoopFails,
                LoopCancelled, LoopDrained, MemberStates
  <2>3. UNCHANGED <<supervision, coordination, polling>>
    BY <1>1 DEF MemberSleeps, MemberCancelled, LoopEnters, LoopRefused, LoopFails,
                LoopCancelled, LoopDrained
  <2> QED
    BY <2>1, <2>2, <2>3, MemberMoves
<1>2. CASE MemberWakes(r)
  <2>1. r \in Operations /\ HostTypes /\ pauseIn \in Nat
    BY SlotFacts DEF FleetInv, Types
  <2>2. /\ HostTypes' /\ host'[r].stage = "queued"
        /\ \A p \in Operations : p # r => host'[p] = host[p]
    BY <1>2, <2>1, StageFacts, HostMoves DEF MemberWakes, Queued
  <2>3. /\ member \in [Repositories -> MemberStates]
        /\ member[r] = "sleeping" /\ member' = [member EXCEPT ![r] = "preparing"]
        /\ UNCHANGED <<supervision, pauseIn, limits, owed, polling>>
    BY <1>2 DEF MemberWakes, FleetInv, Types
  <2>4. Types'
    BY <2>2, <2>3 DEF FleetInv, Types, MemberStates, supervision, polling
  <2>5. PollsBelong'
    BY <2>2, <2>3, SlotFacts DEF FleetInv, PollsBelong, supervision, polling
  <2>6. OperationsBelong'
    BY <2>2, <2>3, SlotFacts DEF FleetInv, OperationsBelong, supervision
  <2>7. StoppedJoined'
    BY <2>3 DEF FleetInv, StoppedJoined, Joined, AllMembersEnded, supervision, polling
  <2> QED
    BY <2>4, <2>5, <2>6, <2>7 DEF FleetInv
<1>3. CASE MemberReturns(r)
  <2>1. r \in Operations /\ HostTypes
    BY SlotFacts DEF FleetInv, Types
  <2>2. /\ HostTypes' /\ host'[r].stage = "idle"
        /\ \A p \in Operations : p # r => host'[p] = host[p]
    BY <1>3, <2>1, StageFacts, HostMoves DEF MemberReturns, Idle
  <2>3. /\ member \in [Repositories -> MemberStates] /\ member[r] = "preparing"
        /\ \E m \in MemberStates : member' = [member EXCEPT ![r] = m]
        /\ UNCHANGED <<supervision, pauseIn, limits, owed, polling>>
    BY <1>3 DEF MemberReturns, FleetInv, Types, MemberStates, AfterFailure
  <2>4. Types'
    BY <2>2, <2>3 DEF FleetInv, Types, supervision, polling
  <2>5. PollsBelong'
    BY <2>2, <2>3, SlotFacts DEF FleetInv, PollsBelong, supervision, polling
  <2>6. OperationsBelong'
    BY <2>2, <2>3, SlotFacts DEF FleetInv, OperationsBelong, supervision
  <2>7. StoppedJoined'
    BY <2>3 DEF FleetInv, StoppedJoined, Joined, AllMembersEnded, supervision, polling
  <2> QED
    BY <2>4, <2>5, <2>6, <2>7 DEF FleetInv
<1> QED
  BY <1>1, <1>2, <1>3 DEF MemberStep

--------------------------------------------------------------------------------
\* A step of the poller, or of an operation: nothing that the members and the
\* supervisor keep changes, and no member's operation begins or ends.
LEMMA PollsMove ==
    ASSUME FleetInv, HostTypes', target' \in [PollSlots -> Repositories \cup {0}],
           pauseIn' \in Nat, limits' \in Nat, owed' \in [Operations -> Nat],
           UNCHANGED <<supervision, members>>,
           \A r \in Repositories : host'[r].stage = "idle" <=> host[r].stage = "idle",
           PollsBelong',
           poller \in {"none", "ended"} => poller' \in {"none", "ended"}
    PROVE  FleetInv'
<1>1. Types' /\ OperationsBelong'
  BY DEF FleetInv, Types, OperationsBelong, supervision, members
<1>2. StoppedJoined'
  BY DEF FleetInv, StoppedJoined, Joined, AllMembersEnded, supervision, members
<1> QED
  BY <1>1, <1>2 DEF FleetInv

LEMMA PollerNext == FleetInv /\ PollerStep => FleetInv'
<1> SUFFICES ASSUME FleetInv, PollerStep PROVE FleetInv'
  OBVIOUS
<1>0. Types /\ HostTypes /\ PollsBelong
  BY DEF FleetInv, Types
<1>1. ASSUME NEW k \in PollSlots, NEW r \in Repositories, PollSpawns(k, r) PROVE FleetInv'
  <2>1. k \in Operations /\ k \notin Repositories
    BY SlotFacts
  <2>2. HostTypes' /\ \A p \in Operations : p # k => host'[p] = host[p]
    BY <1>0, <1>1, <2>1, StageFacts, HostMoves DEF PollSpawns, Queued
  <2>3. target' \in [PollSlots -> Repositories \cup {0}] /\ poller = "polling"
        /\ UNCHANGED <<supervision, members, pauseIn, limits, owed, poller>>
    BY <1>0, <1>1 DEF PollSpawns, Types
  <2>4. PollsBelong'
    BY <1>0, <2>3 DEF PollsBelong, supervision
  <2> QED
    BY <1>0, <2>1, <2>2, <2>3, <2>4, SlotFacts, PollsMove DEF Types
<1>2. ASSUME NEW k \in PollSlots, PollReturns(k) PROVE FleetInv'
  <2>1. k \in Operations /\ k \notin Repositories
    BY SlotFacts
  <2>2. HostTypes' /\ \A p \in Operations : p # k => host'[p] = host[p]
    BY <1>0, <1>2, <2>1, StageFacts, HostMoves DEF PollReturns, Idle
  <2>3. target' \in [PollSlots -> Repositories \cup {0}] /\ poller = "polling"
        /\ UNCHANGED <<supervision, members, pauseIn, limits, owed, poller>>
    BY <1>0, <1>2 DEF PollReturns, Types
  <2>4. PollsBelong'
    BY <1>0, <2>3 DEF PollsBelong, supervision
  <2> QED
    BY <1>0, <2>1, <2>2, <2>3, <2>4, SlotFacts, PollsMove DEF Types
<1>3. CASE PollerCancelled
  <2>1. /\ poller = "polling" /\ poller' = "closing"
        /\ UNCHANGED <<supervision, members, host, pauseIn, limits, owed, target>>
    BY <1>3 DEF PollerCancelled, coordination
  <2>2. PollsBelong' /\ HostTypes'
    BY <1>0, <2>1 DEF PollsBelong, HostTypes, supervision
  <2> QED
    BY <1>0, <2>1, <2>2, PollsMove DEF Types
<1>4. CASE PollerEnds
  <2>1. /\ poller = "closing" /\ poller' = "ended"
        /\ UNCHANGED <<supervision, members, pauseIn, limits, owed>>
        /\ host' = [o \in Operations |-> IF o \in PollSlots THEN Idle ELSE host[o]]
        /\ target' \in [PollSlots -> Repositories \cup {0}]
    BY <1>4 DEF PollerEnds
  <2>2. HostTypes'
    BY <1>0, <2>1, StageFacts DEF HostTypes, Idle
  <2>3. PollsBelong'
    BY <1>0, <2>1, SlotFacts DEF PollsBelong, supervision, Idle
  <2>4. \A r \in Repositories : host'[r] = host[r]
    BY <2>1, SlotFacts
  <2> QED
    BY <1>0, <2>1, <2>2, <2>3, <2>4, PollsMove DEF Types
<1> QED
  BY <1>1, <1>2, <1>3, <1>4 DEF PollerStep

--------------------------------------------------------------------------------
\* The start-up is done with a repository.
LEMMA TurnPasses ==
    ASSUME FleetInv, phase = "starting", turn <= N, UNCHANGED <<phase, polling, pauseIn, limits, owed>>,
           turn' = turn + 1, HostTypes', host'[turn].stage = "idle",
           \A p \in Operations : p # turn => host'[p] = host[p],
           NEW m \in MemberStates, member' = [member EXCEPT ![turn] = m]
    PROVE  FleetInv'
<1>1. /\ turn \in Repositories /\ turn + 1 \in 1 .. N + 1
      /\ Repositories \subseteq Nat /\ turn \in Nat
  BY SlotFacts DEF FleetInv, Types, Repositories
<1>2. Types'
  BY <1>1 DEF FleetInv, Types, polling
<1>3. PollsBelong'
  BY <1>1, SlotFacts DEF FleetInv, PollsBelong, polling
<1>4. OperationsBelong'
  <2>1. \A r \in Repositories : r >= turn + 1 => r >= turn /\ r # turn
    BY <1>1
  <2>2. \A r \in Repositories : r >= turn + 1 => member'[r] = "none"
    BY <2>1 DEF FleetInv, Types, OperationsBelong
  <2>3. ASSUME NEW r \in Repositories, host'[r].stage # "idle" PROVE member'[r] = "preparing"
    <3>1. r # turn /\ host[r].stage # "idle"
      BY <2>3, SlotFacts
    <3> QED
      BY <3>1 DEF FleetInv, Types, OperationsBelong
  <2> QED
    BY <2>2, <2>3 DEF OperationsBelong
<1>5. StoppedJoined'
  BY DEF StoppedJoined
<1> QED
  BY <1>2, <1>3, <1>4, <1>5 DEF FleetInv

LEMMA SupervisorNext == FleetInv /\ SupervisorStep => FleetInv'
<1> SUFFICES ASSUME FleetInv, SupervisorStep PROVE FleetInv'
  OBVIOUS
<1>0. Types /\ HostTypes /\ PollsBelong /\ OperationsBelong
  BY DEF FleetInv, Types
<1>t. ASSUME turn <= N PROVE turn \in Repositories /\ turn \in Operations
  BY <1>0, <1>t, SlotFacts DEF Types, Repositories, Operations
<1>1. CASE StartupDefers
  <2>1. turn <= N /\ host[turn].stage = "idle"
    BY <1>1 DEF StartupDefers, Idle
  <2> QED
    BY <1>0, <1>1, <2>1, TurnPasses
    DEF StartupDefers, MemberStates, coordination, polling, HostTypes
<1>2. CASE StartupPrepares
  <2>1. turn <= N /\ turn \in Operations /\ turn \in Repositories
    BY <1>2, <1>t DEF StartupPrepares
  <2>2. HostTypes' /\ \A p \in Operations : p # turn => host'[p] = host[p]
    BY <1>0, <1>2, <2>1, StageFacts, HostMoves DEF StartupPrepares, Queued
  <2>3. phase = "starting" /\ UNCHANGED <<supervision, members, pauseIn, limits, owed, polling>>
    BY <1>2 DEF StartupPrepares
  <2>4. Types'
    BY <1>0, <2>2, <2>3 DEF Types, supervision, members, polling
  <2>5. PollsBelong'
    BY <1>0, <2>1, <2>2, <2>3, SlotFacts DEF PollsBelong, supervision, polling
  <2>6. OperationsBelong'
    BY <1>0, <2>2, <2>3, SlotFacts DEF OperationsBelong, supervision, members
  <2>7. StoppedJoined'
    BY <2>3 DEF StoppedJoined, supervision
  <2> QED
    BY <2>4, <2>5, <2>6, <2>7 DEF FleetInv
<1>3. CASE StartupReturns
  <2>1. turn <= N /\ turn \in Operations
    BY <1>3, <1>t DEF StartupReturns
  <2>2. /\ HostTypes' /\ host'[turn].stage = "idle"
        /\ \A p \in Operations : p # turn => host'[p] = host[p]
    BY <1>0, <1>3, <2>1, StageFacts, HostMoves DEF StartupReturns, Idle
  <2>3. /\ phase = "starting" /\ turn' = turn + 1
        /\ UNCHANGED <<phase, polling, pauseIn, limits, owed>>
        /\ \E m \in MemberStates : member' = [member EXCEPT ![turn] = m]
    BY <1>3 DEF StartupReturns, MemberStates
  <2> QED
    BY <2>1, <2>2, <2>3, TurnPasses
<1>4. CASE StartupCancelled
  <2>1. /\ phase = "starting" /\ phase' = "stopped" /\ turn <= N /\ turn' = turn
        /\ member' \in [Repositories -> MemberStates]
        /\ host' = [o \in Operations |-> Idle]
        /\ UNCHANGED <<pauseIn, limits, owed, polling>>
    BY <1>0, <1>4 DEF StartupCancelled, MemberStates, Types
  <2>2. HostTypes'
    BY <2>1, StageFacts DEF HostTypes, Idle
  <2>3. Types'
    BY <1>0, <2>1, <2>2 DEF Types, polling
  <2>4. PollsBelong' /\ OperationsBelong'
    BY <1>0, <2>1, SlotFacts DEF PollsBelong, OperationsBelong, Idle
  <2>5. turn' # N + 1
    BY <1>0, <2>1, SlotFacts DEF Types
  <2> QED
    BY <2>3, <2>4, <2>5 DEF FleetInv, StoppedJoined
<1>5. CASE StartupEnds
  <2>1. /\ phase = "starting" /\ turn = N + 1
        /\ \/ phase' = "serving" /\ poller' = "polling"
           \/ phase' = "failing" /\ poller' = poller
        /\ UNCHANGED <<turn, members, coordination, target>>
    BY <1>5 DEF StartupEnds
  <2>2. Types' /\ PollsBelong'
    BY <1>0, <2>1 DEF Types, HostTypes, PollsBelong, members, coordination
  <2>3. OperationsBelong' /\ StoppedJoined'
    BY <1>0, <2>1, SlotFacts DEF OperationsBelong, StoppedJoined, members, coordination
  <2> QED
    BY <2>2, <2>3 DEF FleetInv
<1>6. CASE SupervisorLeaves \/ SupervisorStops
  <2>1. /\ phase \notin {"starting", "stopped", "failed"} /\ phase' # "starting"
        /\ phase' \in {"stopped", "failed"} => Joined
        /\ UNCHANGED <<turn, members, coordination, polling>>
    BY <1>6 DEF SupervisorLeaves, SupervisorStops
  <2>2. Types' /\ PollsBelong'
    BY <1>0, <2>1 DEF Types, HostTypes, PollsBelong, members, coordination, polling
  <2>3. OperationsBelong'
    BY <1>0, <2>1, SlotFacts DEF OperationsBelong, members, coordination
  <2>4. StoppedJoined'
    BY <2>1 DEF StoppedJoined, Joined, AllMembersEnded, members, polling
  <2> QED
    BY <2>2, <2>3, <2>4 DEF FleetInv
<1> QED
  BY <1>1, <1>2, <1>3, <1>4, <1>5, <1>6 DEF SupervisorStep

--------------------------------------------------------------------------------
LEMMA TickKeepsTypes == FleetInv /\ Tick => FleetInv'
<1> SUFFICES ASSUME FleetInv, Tick PROVE FleetInv'
  OBVIOUS
<1>1. \A n \in Nat : Lower(n) \in Nat
  BY DEF Lower
<1>2. /\ pauseIn' = Lower(pauseIn)
      /\ host' = [o \in Operations |-> [host[o] EXCEPT !.wait = Lower(@)]]
      /\ owed' = [o \in Operations |-> Lower(owed[o])]
      /\ UNCHANGED <<supervision, member, limits, polling>>
  BY DEF Tick, polling
<1>3. HostTypes /\ pauseIn \in Nat /\ owed \in [Operations -> Nat]
  BY DEF FleetInv, Types
<1>4. ASSUME NEW o \in Operations
      PROVE  /\ host'[o] \in [stage : Stages, wait : Nat]
             /\ host'[o].stage = host[o].stage
  BY <1>1, <1>2, <1>3 DEF HostTypes
<1>5. HostTypes'
  BY <1>2, <1>4 DEF HostTypes
<1>6. Types'
  BY <1>1, <1>2, <1>3, <1>5 DEF FleetInv, Types, supervision, polling
<1>7. PollsBelong' /\ OperationsBelong'
  BY <1>2, <1>4, SlotFacts DEF FleetInv, PollsBelong, OperationsBelong, supervision, polling
<1>8. StoppedJoined'
  BY <1>2 DEF FleetInv, StoppedJoined, Joined, AllMembersEnded, supervision, polling
<1> QED
  BY <1>6, <1>7, <1>8 DEF FleetInv

LEMMA StutterKeeps ==
    ASSUME FleetInv, UNCHANGED <<supervision, members, coordination, polling>>
    PROVE  FleetInv'
<1>1. Types' /\ PollsBelong' /\ OperationsBelong'
  BY DEF FleetInv, Types, HostTypes, PollsBelong, OperationsBelong, supervision, members,
         coordination, polling
<1>2. StoppedJoined'
  BY DEF FleetInv, StoppedJoined, Joined, AllMembersEnded, supervision, members, polling
<1> QED
  BY <1>1, <1>2 DEF FleetInv

LEMMA FleetNext == FleetInv /\ [Next]_vars => FleetInv'
<1> SUFFICES ASSUME FleetInv, [Next]_vars PROVE FleetInv'
  OBVIOUS
<1>1. ASSUME NEW o \in Operations, HostStep(o) PROVE FleetInv'
  <2>1. /\ HostTypes' /\ pauseIn' \in Nat /\ limits' \in Nat /\ owed' \in [Operations -> Nat]
        /\ UNCHANGED <<supervision, members, poller, target, cancelled>>
        /\ \A p \in Operations : host'[p].stage = "idle" <=> host[p].stage = "idle"
    BY <1>1, HostNext
  <2>2. PollsBelong'
    BY <2>1, SlotFacts DEF FleetInv, PollsBelong, supervision
  <2> QED
    BY <2>1, <2>2, SlotFacts, PollsMove DEF FleetInv, Types
<1>2. CASE OperatorStops \/ Ended \/ UNCHANGED vars
  BY <1>2, StutterKeeps DEF OperatorStops, Ended, vars
<1> QED
  BY <1>1, <1>2, MemberNext, PollerNext, SupervisorNext, TickKeepsTypes DEF Next

\* The invariant gives the property that the runs check.
LEMMA FleetInvDrains == FleetInv => ServingFleetsDrain
<1> SUFFICES ASSUME FleetInv, phase \in {"stopped", "failed"}, turn = N + 1
             PROVE  /\ AllMembersEnded /\ poller \in {"none", "ended"}
                    /\ \A o \in Operations : host[o].stage = "idle"
  BY DEF ServingFleetsDrain
<1>1. AllMembersEnded /\ poller \in {"none", "ended"}
  BY DEF FleetInv, StoppedJoined, Joined
<1>2. \A k \in PollSlots : host[k].stage = "idle"
  BY <1>1 DEF FleetInv, PollsBelong
<1>3. \A r \in Repositories : host[r].stage = "idle"
  BY <1>1 DEF FleetInv, OperationsBelong, AllMembersEnded
<1> QED
  BY <1>1, <1>2, <1>3 DEF Operations

\* A fleet that has come to serve, or has found no healthy repository, stops only
\* after every member has drained, the poller has joined its polls and no
\* operation is left with the host coordinator (FleetSupervisor::run).
THEOREM FleetsDrain == Spec => []ServingFleetsDrain
<1>1. Init => FleetInv
  BY FleetInit
<1>2. FleetInv /\ [Next]_vars => FleetInv'
  BY FleetNext
<1>3. FleetInv => ServingFleetsDrain
  BY FleetInvDrains
<1> QED
  BY <1>1, <1>2, <1>3, PTL DEF Spec

--------------------------------------------------------------------------------
\* The pause.

\* Whatever an answer asked for is still ahead of the fleet only while the pause
\* is; it is what makes one look at the pause enough.
WaitsAreInThePause == \A p \in Operations : owed[p] <= pauseIn

Starts(o) == host[o].stage # "inflight" /\ host'[o].stage = "inflight"

\* Where a step leaves the pause: it stays above what is owed, and nothing starts
\* while it lasts.
PauseKept ==
    /\ WaitsAreInThePause'
    /\ \A o \in Operations : Starts(o) => pauseIn = 0

LEMMA HostPauseKept ==
    ASSUME Types, WaitsAreInThePause, NEW o \in Operations, HostStep(o)
    PROVE  PauseKept
<1> USE StageFacts DEF Types
<1>1. pauseIn \in Nat /\ HostTypes /\ owed \in [Operations -> Nat] /\ host[o].wait \in Nat
  BY DEF HostTypes
<1>2. ASSUME \A p \in Operations : p # o => host'[p] = host[p],
             host'[o].stage = "inflight" => pauseIn = 0,
             UNCHANGED <<pauseIn, owed>>
      PROVE  PauseKept
  BY <1>2 DEF PauseKept, WaitsAreInThePause, Starts
<1>3. CASE HostAcquires(o) \/ HostCancelled(o) \/ HostMarks(o)
  <2>1. \E s \in {"held", "cancelled", "ratelimited"} :
          host' = [host EXCEPT ![o] = [stage |-> s, wait |-> 0]]
    BY <1>3 DEF HostAcquires, HostCancelled, HostMarks
  <2>2. host'[o].stage # "inflight" /\ \A p \in Operations : p # o => host'[p] = host[p]
    BY <1>1, <2>1 DEF HostTypes
  <2>3. UNCHANGED <<pauseIn, owed>>
    BY <1>3 DEF HostAcquires, HostCancelled, HostMarks
  <2> QED
    BY <1>2, <2>2, <2>3
<1>4. CASE HostRechecks(o)
  <2>1. /\ \A p \in Operations : p # o => host'[p] = host[p]
        /\ host'[o].stage = "inflight" => pauseIn = 0
    BY <1>1, <1>4 DEF HostRechecks, Queued, HostTypes
  <2> QED
    BY <1>2, <1>4, <2>1 DEF HostRechecks
<1>5. CASE PollDone(o)
  <2>1. \E s \in {"ok", "failed"} : host' = [host EXCEPT ![o] = [stage |-> s, wait |-> 0]]
    BY <1>5 DEF PollDone
  <2>2. host'[o].stage # "inflight" /\ \A p \in Operations : p # o => host'[p] = host[p]
    BY <1>1, <2>1 DEF HostTypes
  <2> QED
    BY <1>2, <1>5, <2>2 DEF PollDone
<1>6. CASE HostLimited(o)
  <2>1. PICK server \in ServerTimes :
          host' = [host EXCEPT ![o] = [stage |-> "limited", wait |-> RateLimitDelay(server)]]
    BY <1>6 DEF HostLimited
  <2>2. host'[o].stage = "limited" /\ \A p \in Operations : p # o => host'[p] = host[p]
    BY <1>1, <2>1, PauseFacts, HostMoves
  <2> QED
    BY <1>2, <1>6, <2>2 DEF HostLimited
<1>7. CASE HostPauses(o)
  <2>1. host'[o].stage = "marking" /\ \A p \in Operations : p # o => host'[p] = host[p]
    BY <1>1, <1>7, PauseFacts, HostMoves DEF HostPauses
  <2>2. /\ pauseIn' \in Nat /\ pauseIn' >= pauseIn /\ pauseIn' >= host[o].wait
        /\ owed' = [owed EXCEPT ![o] = host[o].wait]
    BY <1>1, <1>7 DEF HostPauses, PauseFor, Larger
  <2>3. WaitsAreInThePause'
    BY <1>1, <2>2 DEF WaitsAreInThePause
  <2> QED
    BY <2>1, <2>3 DEF PauseKept, Starts
<1> QED
  BY <1>3, <1>4, <1>5, <1>6, <1>7 DEF HostStep

\* A step that leaves the pause alone and puts no operation in flight.
LEMMA NothingStarts ==
    ASSUME Types, WaitsAreInThePause, UNCHANGED <<pauseIn, owed>>,
           \A o \in Operations : host'[o].stage # "inflight" \/ host'[o] = host[o]
    PROVE  PauseKept
  BY DEF PauseKept, WaitsAreInThePause, Starts

\* An operation that is asked for or given back is not in flight.
LEMMA NotInFlight ==
    ASSUME Types, WaitsAreInThePause, NEW o \in Operations, NEW s \in {"idle", "queued"}, NEW w,
           UNCHANGED <<pauseIn, owed>>, host' = [host EXCEPT ![o] = [stage |-> s, wait |-> w]]
    PROVE  PauseKept
<1>1. host'[o].stage = s /\ \A p \in Operations : p # o => host'[p] = host[p]
  BY DEF Types, HostTypes
<1> QED
  BY <1>1, NothingStarts

LEMMA NextPauseKept == Types /\ WaitsAreInThePause /\ Next => PauseKept
<1> SUFFICES ASSUME Types, WaitsAreInThePause, Next PROVE PauseKept
  OBVIOUS
<1>1. ASSUME NEW o \in Operations, HostStep(o) PROVE PauseKept
  BY <1>1, HostPauseKept
<1>2. ASSUME NEW r \in Repositories, MemberStep(r) PROVE PauseKept
  <2>1. CASE MemberWakes(r) \/ MemberReturns(r)
    <3>1. /\ r \in Operations /\ UNCHANGED <<pauseIn, owed>>
          /\ \E s \in {"idle", "queued"}, w \in {0, pauseIn} :
               host' = [host EXCEPT ![r] = [stage |-> s, wait |-> w]]
      BY <2>1, SlotFacts DEF MemberWakes, MemberReturns, Idle, Queued
    <3> QED
      BY <3>1, NotInFlight
  <2>2. CASE ~(MemberWakes(r) \/ MemberReturns(r))
    <3>1. UNCHANGED coordination
      BY <1>2, <2>2 DEF MemberStep, MemberSleeps, MemberCancelled, LoopEnters, LoopRefused,
                        LoopFails, LoopCancelled, LoopDrained
    <3> QED
      BY <3>1, NothingStarts DEF coordination
  <2> QED
    BY <2>1, <2>2
<1>3. CASE PollerStep
  <2>1. ASSUME NEW k \in PollSlots,
               (\E r \in Repositories : PollSpawns(k, r)) \/ PollReturns(k)
        PROVE  PauseKept
    <3>1. /\ k \in Operations /\ UNCHANGED <<pauseIn, owed>>
          /\ \E s \in {"idle", "queued"}, w \in {0, pauseIn} :
               host' = [host EXCEPT ![k] = [stage |-> s, wait |-> w]]
      BY <2>1, SlotFacts DEF PollSpawns, PollReturns, Idle, Queued
    <3> QED
      BY <3>1, NotInFlight
  <2>2. CASE PollerCancelled
    BY <2>2, NothingStarts DEF PollerCancelled, coordination
  <2>3. CASE PollerEnds
    BY <2>3, NothingStarts DEF PollerEnds, Idle
  <2> QED
    BY <1>3, <2>1, <2>2, <2>3 DEF PollerStep
<1>4. CASE SupervisorStep
  <2>1. CASE StartupPrepares \/ StartupReturns
    <3>1. turn \in Operations
      BY <2>1, SlotFacts DEF StartupPrepares, StartupReturns, Types, Operations, Repositories
    <3>2. /\ UNCHANGED <<pauseIn, owed>>
          /\ \E s \in {"idle", "queued"}, w \in {0, pauseIn} :
               host' = [host EXCEPT ![turn] = [stage |-> s, wait |-> w]]
      BY <2>1 DEF StartupPrepares, StartupReturns, Idle, Queued
    <3> QED
      BY <3>1, <3>2, NotInFlight
  <2>2. CASE StartupCancelled
    BY <2>2, NothingStarts DEF StartupCancelled, Idle
  <2>3. CASE StartupDefers \/ StartupEnds \/ SupervisorLeaves \/ SupervisorStops
    <3>1. UNCHANGED coordination
      BY <2>3 DEF StartupDefers, StartupEnds, SupervisorLeaves, SupervisorStops
    <3> QED
      BY <3>1, NothingStarts DEF coordination
  <2> QED
    BY <1>4, <2>1, <2>2, <2>3 DEF SupervisorStep
<1>5. CASE OperatorStops \/ Ended
  <2>1. UNCHANGED coordination
    BY <1>5 DEF OperatorStops, Ended, vars
  <2> QED
    BY <2>1, NothingStarts DEF coordination
<1>6. CASE Tick
  <2>1. \A o \in Operations : host'[o].stage = host[o].stage
    BY <1>6 DEF Tick, Types, HostTypes
  <2>2. WaitsAreInThePause'
    <3>1. /\ pauseIn \in Nat /\ pauseIn' = Lower(pauseIn)
          /\ \A p \in Operations : owed[p] \in Nat /\ owed'[p] = Lower(owed[p])
      BY <1>6 DEF Tick, Types
    <3>2. \A m, n \in Nat : m <= n => Lower(m) <= Lower(n)
      BY DEF Lower
    <3> QED
      BY <3>1, <3>2 DEF WaitsAreInThePause
  <2> QED
    BY <2>1, <2>2 DEF PauseKept, Starts
<1> QED
  BY <1>1, <1>2, <1>3, <1>4, <1>5, <1>6 DEF Next

\* A rate limit binds the whole fleet, however many answers come in, whatever they
\* ask for and whoever waits for a permit then: nothing starts before the waits of
\* all of them are over (FleetHostCoordinator).
THEOREM PausesHold == Spec => PauseBinds
<1> DEFINE PauseInv == FleetInv /\ WaitsAreInThePause
           Bound == \A o \in Operations : Starts(o) => \A p \in Operations : owed[p] = 0
<1>1. Init => PauseInv
  BY FleetInit DEF Init, WaitsAreInThePause
<1>2. PauseInv /\ [Next]_vars => PauseInv'
  <2>1. CASE UNCHANGED vars
    BY <2>1, FleetNext DEF vars, coordination, WaitsAreInThePause
  <2> QED
    BY <2>1, FleetNext, NextPauseKept DEF FleetInv, PauseKept
<1>3. PauseInv /\ [Next]_vars => [Bound]_vars
  <2> SUFFICES ASSUME Types, WaitsAreInThePause, Next, NEW o \in Operations, Starts(o),
                      NEW p \in Operations
               PROVE  owed[p] = 0
    BY DEF FleetInv
  <2>1. pauseIn = 0
    BY NextPauseKept DEF PauseKept
  <2> QED
    BY <2>1 DEF Types, WaitsAreInThePause
<1>4. [][Bound]_vars <=> PauseBinds
  BY DEF PauseBinds, Starts
<1> QED
  BY <1>1, <1>2, <1>3, <1>4, PTL DEF Spec

--------------------------------------------------------------------------------
\* Admission.

\* The bound on available is a consequence of conservation, not a reason for it:
\* the inductive invariant only says that it counts.
SlotTypes ==
    /\ available \in Nat
    /\ cursor \in A!Repositories
    /\ waiting \subseteq A!Repositories
    /\ pc \in [A!Repositories -> A!LoopStates]
    /\ queued \in [A!Repositories -> Nat]
    /\ running \subseteq A!Workers
    /\ finished \subseteq A!Workers
    /\ IsFiniteSet(running)

\* What the module says of its permits, with the cardinality that the library's
\* theorems are about.
Balanced == available + Cardinality(A!Admittees) + Cardinality(running) = Limit

SlotInv == SlotTypes /\ Balanced

LEMMA SameSize ==
    ASSUME NEW S
    PROVE  A!Cardinality(S) = Cardinality(S)
  BY DEF A!Cardinality, Cardinality

LEMMA AdmitteesFinite ==
    ASSUME A!AdmissionAssumption
    PROVE  IsFiniteSet(A!Admittees) /\ Cardinality(A!Admittees) \in Nat
<1>1. IsFiniteSet(A!Repositories)
  BY FS_Interval DEF A!AdmissionAssumption, A!Repositories
<1> QED
  BY <1>1, FS_Subset, FS_CardinalityType DEF A!Admittees

\* The turn after r, without the modulus.
LEMMA NextTurn ==
    ASSUME A!AdmissionAssumption, NEW r \in A!Repositories
    PROVE  /\ (r + 1) % N = IF r + 1 = N THEN 0 ELSE r + 1
           /\ (r + 1) % N \in A!Repositories
<1>1. N \in Nat /\ N > 0 /\ r \in Nat /\ r < N
  BY DEF A!AdmissionAssumption, A!Repositories
<1>2. (r + 1) % N = IF r + 1 = N THEN 0 ELSE r + 1
  BY <1>1, SMT
<1> QED
  BY <1>1, <1>2 DEF A!Repositories

--------------------------------------------------------------------------------
LEMMA SlotTypesInit == A!AdmissionAssumption /\ A!Init => SlotTypes
<1> SUFFICES ASSUME A!AdmissionAssumption, A!Init PROVE SlotTypes
  OBVIOUS
<1>1. 0 \in A!Repositories /\ 0 .. MaxQueued \subseteq Nat
  BY DEF A!AdmissionAssumption, A!Repositories
<1>2. queued \in [A!Repositories -> Nat]
  BY <1>1 DEF A!Init
<1> QED
  BY <1>1, <1>2, FS_EmptySet DEF A!Init, SlotTypes, A!LoopStates

LEMMA SlotTypesNext == A!AdmissionAssumption /\ SlotTypes /\ [A!Next]_(A!vars) => SlotTypes'
<1> SUFFICES ASSUME A!AdmissionAssumption, SlotTypes, [A!Next]_(A!vars) PROVE SlotTypes'
  OBVIOUS
<1> USE DEF SlotTypes, A!LoopStates
<1>1. ASSUME NEW r \in A!Repositories, A!Admitted(r) PROVE SlotTypes'
  <2>1. (r + 1) % N \in A!Repositories
    BY NextTurn
  <2> QED
    BY <1>1, <2>1 DEF A!Admitted, A!Grant
<1>2. ASSUME NEW r \in A!Repositories, A!Refused(r) PROVE SlotTypes'
  BY <1>2 DEF A!Refused, A!Refuse
<1>3. ASSUME NEW r \in A!Repositories, A!AtLocalLimit(r) PROVE SlotTypes'
  BY <1>3 DEF A!AtLocalLimit, A!admission
<1>4. ASSUME NEW r \in A!Repositories, A!ClaimTask(r) PROVE SlotTypes'
  <2>1. PICK j \in A!FreeJobs(r) : running' = running \cup {<<r, j>>}
    BY <1>4 DEF A!ClaimTask
  <2>2. running' \subseteq A!Workers
    BY <2>1 DEF A!FreeJobs, A!Workers
  <2>3. IsFiniteSet(running')
    BY <2>1, FS_AddElement
  <2> QED
    BY <1>4, <2>2, <2>3 DEF A!ClaimTask, A!admission
<1>5. ASSUME NEW r \in A!Repositories, A!ClaimNothing(r) PROVE SlotTypes'
  BY <1>5 DEF A!ClaimNothing, A!DropPermit
<1>6. ASSUME NEW r \in A!Repositories, A!Park(r) \/ A!Tick(r) \/ A!ArmBegins(r) \/ A!ArmEnds(r)
      PROVE  SlotTypes'
  BY <1>6 DEF A!Park, A!Tick, A!ArmBegins, A!ArmEnds, A!admission
<1>7. ASSUME NEW r \in A!Repositories, A!Reap(r) PROVE SlotTypes'
  BY <1>7 DEF A!Reap, A!admission
<1>8. ASSUME NEW r \in A!Repositories, A!Arrive(r) PROVE SlotTypes'
  BY <1>8 DEF A!Arrive, A!admission
<1>9. ASSUME NEW w \in A!Workers, A!WorkerEnds(w) PROVE SlotTypes'
  BY <1>9, FS_RemoveElement DEF A!WorkerEnds, A!DropPermit
<1>10. CASE UNCHANGED A!vars
  BY <1>10 DEF A!vars, A!admission
<1> QED
  BY <1>1, <1>2, <1>3, <1>4, <1>5, <1>6, <1>7, <1>8, <1>9, <1>10 DEF A!Next, A!Dispatch

--------------------------------------------------------------------------------
LEMMA BalanceInit == A!AdmissionAssumption /\ A!Init => Balanced
<1> SUFFICES ASSUME A!AdmissionAssumption, A!Init PROVE Balanced
  OBVIOUS
<1>1. A!Admittees = {} /\ running = {}
  BY DEF A!Init, A!Admittees
<1> QED
  BY <1>1, FS_EmptySet DEF A!AdmissionAssumption, A!Init, Balanced

LEMMA BalanceNext ==
    A!AdmissionAssumption /\ SlotInv /\ [A!Next]_(A!vars) => Balanced'
<1> SUFFICES ASSUME A!AdmissionAssumption, SlotTypes, Balanced, [A!Next]_(A!vars)
             PROVE  Balanced'
  BY DEF SlotInv
<1>a. /\ available \in Nat /\ Limit \in Nat
      /\ IsFiniteSet(A!Admittees) /\ Cardinality(A!Admittees) \in Nat
      /\ IsFiniteSet(running) /\ Cardinality(running) \in Nat
  BY AdmitteesFinite, FS_CardinalityType DEF A!AdmissionAssumption, SlotTypes
<1>1. ASSUME NEW r \in A!Repositories, A!Admitted(r) PROVE Balanced'
  <2>1. r \notin A!Admittees /\ A!Admittees' = A!Admittees \cup {r}
    BY <1>1 DEF A!Admitted, A!Admittees, SlotTypes
  <2>2. Cardinality(A!Admittees') = Cardinality(A!Admittees) + 1
    BY <1>a, <2>1, FS_AddElement
  <2>3. available' = available - 1 /\ running' = running
    BY <1>1 DEF A!Admitted, A!Grant
  <2> QED
    BY <1>a, <2>2, <2>3 DEF Balanced
<1>2. ASSUME NEW r \in A!Repositories,
             \/ A!Refused(r) \/ A!AtLocalLimit(r) \/ A!Park(r)
             \/ A!Tick(r) \/ A!ArmBegins(r) \/ A!ArmEnds(r) \/ A!Reap(r)
      PROVE  Balanced'
  <2>1. r \notin A!Admittees
    BY <1>2 DEF A!Admittees, A!Refused, A!AtLocalLimit, A!Park, A!Tick, A!ArmBegins, A!ArmEnds,
                A!Reap
  <2>2. \/ pc' = [pc EXCEPT ![r] = "leaving"] \/ pc' = [pc EXCEPT ![r] = "dispatching"]
        \/ pc' = [pc EXCEPT ![r] = "parked"] \/ pc' = [pc EXCEPT ![r] = "busy"]
    BY <1>2 DEF A!Refused, A!AtLocalLimit, A!Park, A!Tick, A!ArmBegins, A!ArmEnds, A!Reap
  <2>4. A!Admittees' = A!Admittees
    BY <2>1, <2>2 DEF A!Admittees, SlotTypes
  <2>3. available' = available /\ running' = running
    BY <1>2 DEF A!Refused, A!Refuse, A!AtLocalLimit, A!Park, A!Tick, A!ArmBegins, A!ArmEnds,
                A!Reap, A!admission
  <2> QED
    BY <2>3, <2>4 DEF Balanced
<1>3. ASSUME NEW r \in A!Repositories, A!ClaimTask(r) PROVE Balanced'
  <2>1. PICK j \in A!FreeJobs(r) : running' = running \cup {<<r, j>>}
    BY <1>3 DEF A!ClaimTask
  <2>2. <<r, j>> \notin running
    BY DEF A!FreeJobs
  <2>3. Cardinality(running') = Cardinality(running) + 1
    BY <1>a, <2>1, <2>2, FS_AddElement
  <2>4. r \in A!Admittees
    BY <1>3 DEF A!ClaimTask, A!Admittees
  <2>8. A!Admittees' = A!Admittees \ {r}
    BY <1>3 DEF A!ClaimTask, A!Admittees, SlotTypes
  <2>5. Cardinality(A!Admittees') = Cardinality(A!Admittees) - 1
    BY <1>a, <2>4, <2>8, FS_RemoveElement
  <2>6. available' = available
    BY <1>3 DEF A!ClaimTask, A!admission
  <2> QED
    BY <1>a, <2>3, <2>5, <2>6 DEF Balanced
<1>4. ASSUME NEW r \in A!Repositories, A!ClaimNothing(r) PROVE Balanced'
  <2>1. r \in A!Admittees /\ A!Admittees' = A!Admittees \ {r}
    BY <1>4 DEF A!ClaimNothing, A!DropPermit, A!Admittees, SlotTypes
  <2>2. Cardinality(A!Admittees') = Cardinality(A!Admittees) - 1
    BY <1>a, <2>1, FS_RemoveElement
  <2>3. available' = available + 1 /\ running' = running
    BY <1>4 DEF A!ClaimNothing, A!DropPermit
  <2> QED
    BY <1>a, <2>2, <2>3 DEF Balanced
<1>5. ASSUME NEW w \in A!Workers, A!WorkerEnds(w) PROVE Balanced'
  <2>1. A!Admittees' = A!Admittees
    BY <1>5 DEF A!WorkerEnds, A!DropPermit, A!Admittees, SlotTypes
  <2>2. w \in running /\ running' = running \ {w} /\ available' = available + 1
    BY <1>5 DEF A!WorkerEnds, A!DropPermit
  <2>3. Cardinality(running') = Cardinality(running) - 1
    BY <1>a, <2>2, FS_RemoveElement
  <2> QED
    BY <1>a, <2>1, <2>2, <2>3 DEF Balanced
<1>6. CASE (\E r \in A!Repositories : A!Arrive(r)) \/ UNCHANGED A!vars
  <2>1. pc' = pc /\ available' = available /\ running' = running
    BY <1>6 DEF A!Arrive, A!vars, A!admission
  <2> QED
    BY <2>1 DEF Balanced, A!Admittees
<1> QED
  BY <1>1, <1>2, <1>3, <1>4, <1>5, <1>6 DEF A!Next, A!Dispatch

LEMMA SlotInvariant ==
    ASSUME A!AdmissionAssumption
    PROVE  A!Spec => []SlotInv
<1>1. A!Init => SlotInv
  BY SlotTypesInit, BalanceInit DEF SlotInv
<1>2. SlotInv /\ [A!Next]_(A!vars) => SlotInv'
  BY SlotTypesNext, BalanceNext DEF SlotInv
<1> QED
  BY <1>1, <1>2, PTL DEF A!Spec

--------------------------------------------------------------------------------
LEMMA SlotsAreBounded == A!AdmissionAssumption /\ SlotInv => A!TypeOK
<1> SUFFICES ASSUME A!AdmissionAssumption, SlotInv PROVE A!TypeOK
  OBVIOUS
<1>1. /\ Cardinality(A!Admittees) \in Nat /\ Cardinality(running) \in Nat
      /\ available \in Nat /\ Limit \in Nat
  BY AdmitteesFinite, FS_CardinalityType DEF A!AdmissionAssumption, SlotInv, SlotTypes
<1>2. available \in 0 .. Limit
  BY <1>1 DEF SlotInv, Balanced
<1> QED
  BY <1>2 DEF SlotInv, SlotTypes, A!TypeOK

\* Free slots never exceed the limit of the fleet, the turn is always a
\* repository of the fleet, and only its repositories wait.
THEOREM SlotsTypeCorrect ==
    ASSUME A!AdmissionAssumption
    PROVE  A!Spec => []A!TypeOK
<1> QED
  BY SlotInvariant, SlotsAreBounded, PTL

\* Every slot of the fleet is free or held once, however many repositories,
\* slots and places there are: permits are neither leaked nor given twice.
THEOREM SlotsAreConserved ==
    ASSUME A!AdmissionAssumption
    PROVE  A!Spec => []A!PermitsConserved
<1>1. SlotInv => A!PermitsConserved
  BY SameSize DEF SlotInv, Balanced, A!PermitsConserved
<1> QED
  BY SlotInvariant, <1>1, PTL

--------------------------------------------------------------------------------
\* A grant to g, the first of the waiting in turn order, moves the turn past g and
\* thereby closer to everyone else who waits.
LEMMA GrantApproaches ==
    ASSUME A!AdmissionAssumption, SlotTypes, NEW g \in A!Repositories, A!Grant(g),
           NEW r \in waiting, r # g
    PROVE  A!Distance(r)' < A!Distance(r)
<1>1. /\ N \in Nat /\ cursor \in 0 .. N - 1 /\ g \in 0 .. N - 1 /\ r \in 0 .. N - 1
      /\ cursor' = IF g + 1 = N THEN 0 ELSE g + 1
  BY NextTurn DEF A!AdmissionAssumption, SlotTypes, A!Repositories, A!Grant
<1>2. A!Distance(g) <= A!Distance(r)
  BY DEF A!Grant, A!NextWaiting
<1> QED
  BY <1>1, <1>2 DEF A!Distance

\* Round-robin for any number of repositories: a grant to a peer brings every
\* repository that goes on waiting strictly closer to its turn.
THEOREM GrantsRotate ==
    ASSUME A!AdmissionAssumption
    PROVE  A!Spec => A!WaitersApproach
<1> DEFINE Approach ==
      \A r \in waiting \cap waiting' : available' < available => A!Distance(r)' < A!Distance(r)
<1>1. SlotInv /\ [A!Next]_(A!vars) => [Approach]_(A!vars)
  <2> SUFFICES ASSUME SlotTypes, A!Next, NEW r \in waiting \cap waiting', available' < available
               PROVE  A!Distance(r)' < A!Distance(r)
    BY DEF SlotInv
  <2>0. available \in Nat
    BY DEF SlotTypes
  <2>a. ASSUME NEW q \in A!Repositories,
               \/ A!Refused(q) \/ A!AtLocalLimit(q) \/ A!ClaimTask(q) \/ A!Park(q)
               \/ A!Tick(q) \/ A!ArmBegins(q) \/ A!ArmEnds(q) \/ A!Reap(q) \/ A!Arrive(q)
        PROVE  available' = available
    BY <2>a DEF A!Refused, A!Refuse, A!AtLocalLimit, A!ClaimTask, A!Park, A!Tick, A!ArmBegins,
                A!ArmEnds, A!Reap, A!Arrive, A!admission
  <2>b. ASSUME \/ \E q \in A!Repositories : A!ClaimNothing(q)
               \/ \E w \in A!Workers : A!WorkerEnds(w)
        PROVE  available' = available + 1
    BY <2>b DEF A!ClaimNothing, A!WorkerEnds, A!DropPermit
  <2>1. PICK g \in A!Repositories : A!Admitted(g)
    BY <2>0, <2>a, <2>b DEF A!Next, A!Dispatch
  <2>2. A!Grant(g) /\ r # g
    BY <2>1 DEF A!Admitted, A!Grant
  <2> QED
    BY <2>2, GrantApproaches
<1> QED
  BY <1>1, SlotInvariant, PTL DEF A!Spec, A!WaitersApproach
================================================================================

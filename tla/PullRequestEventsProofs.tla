------------------------ MODULE PullRequestEventsProofs ------------------------
(***************************************************************************)
(* Proofs about PullRequestEvents for any number of daemons, commands that *)
(* outlive them, tickets and followers, and any bounds.                    *)
(***************************************************************************)
EXTENDS PullRequestEvents, TLAPS

Callers == Daemons \cup Orphans

Arms == [stage : Stages, todo : SUBSET Tickets,
         ticket : Tickets \cup {NoTicket}, seen : Fingerprints]

\* A reading is no newer than the changes so far, a command works on a ticket,
\* and a continuation is asked for by an open pull request.
Readings == \A t \in Tickets : pr[t].rev <= changes
Targets == \A c \in Callers : cmd[c].stage # "none" => cmd[c].ticket \in Tickets
Authority == \A d \in Daemons : daemon[d].stage \in {"trusted", "continued"} => daemon[d].seen.state = "open"

TypeInv == TypeOK /\ Readings /\ Targets /\ Authority

\* Tickets whose tags contradict each other, or that people have retagged.
Exempt(t) == t \in retagged \/ lane[t] = "unsafe"

Settled(t) == t \in completed \/ Exempt(t)

\* The command of a daemon works on the event of the daemon.
CommandsBelong ==
    \A d \in Daemons :
        daemon[d].stage = "asana" /\ daemon[d].seen.state = "merged" =>
            cmd[d].ticket = daemon[d].ticket /\ cmd[d].outcome = "merged"

\* A command reports a merge as done only when Asana shows it.
CommandsSettle ==
    \A c \in Callers :
        /\ cmd[c].stage = "releasing" => cmd[c].ticket \in completed
        /\ cmd[c].stage \in {"ok", "deciding"} /\ cmd[c].outcome = "merged" => Settled(cmd[c].ticket)

\* Neither does a daemon.
DaemonsSettle ==
    \A d \in Daemons :
        daemon[d].stage = "marked" /\ daemon[d].seen.state = "merged" => Settled(daemon[d].ticket)

EventInv == CommandsBelong /\ CommandsSettle /\ DaemonsSettle /\ ConsumedMergesAreProjected

\* What a command is about to release waits for its own ticket at most.
RoutesAreFree ==
    \A c \in Callers : \A t \in Tasks :
        <<t, "Ready">> \in cmd[c].routes => Reachable[t] \subseteq completed \cup {cmd[c].ticket}

ReleaseInv == CommandsSettle /\ RoutesAreFree /\ ReleasedTasksAreUnblocked

--------------------------------------------------------------------------------
\* Types, store by store.

ProviderTypes ==
    /\ pr \in [Tickets -> Observations] /\ changes \in 0 .. MaxChanges
    /\ overtaken \subseteq Followers
    /\ Readings

LedgerTypes ==
    /\ delivery \in [Tickets -> {"queued", "succeeded", "failed"}]
    /\ handoff \subseteq Tickets /\ associated \subseteq Tickets
    /\ event \in [Tickets -> [Fingerprints -> EventStates]]
    /\ reserved \in [Tickets -> SUBSET Observations]

ArmTypes ==
    /\ daemon \in [Daemons -> Arms]
    /\ \A d \in Daemons : daemon[d].ticket = NoTicket <=> daemon[d].stage \in {"idle", "next"}
    /\ Authority

CommandTypes ==
    /\ cmd \in [Callers -> Commands]
    /\ Targets

AsanaTypes ==
    /\ section \in [Tasks -> Sections] /\ completed \subseteq Tickets
    /\ lane \in [Tasks -> Lanes]
    /\ retagged \subseteq Tasks
    /\ troubles \in 0 .. MaxTroubles

LEMMA TypeParts ==
    TypeInv <=> ProviderTypes /\ LedgerTypes /\ ArmTypes /\ CommandTypes /\ AsanaTypes
  BY DEF TypeInv, TypeOK, ProviderTypes, LedgerTypes, ArmTypes, CommandTypes, AsanaTypes,
         Callers, Arms

LEMMA Names ==
    /\ NoTicket \notin Tickets /\ Tickets \subseteq Tasks
    /\ \A d \in Daemons : d \in Callers /\ d \notin Orphans
    /\ \A o \in Orphans : o \in Callers /\ o \notin Daemons
    /\ Idle \in Arms /\ NoCommand \in Commands
    /\ Outage \in Fingerprints /\ Outage.state = "unsafe"
    /\ Observations \subseteq Fingerprints
  BY EventAssumption
  DEF Tasks, Callers, Idle, Arms, NoCommand, Commands, Outage, Fingerprints, Stages, Outcomes

LEMMA ProviderStep == TypeInv /\ [Next]_vars => ProviderTypes'
<1> SUFFICES ASSUME TypeInv, [Next]_vars PROVE ProviderTypes'
  OBVIOUS
<1>1. ProviderTypes
  BY TypeParts
<1>2. ASSUME NEW t \in Tickets, PullRequestChanges(t)
      PROVE  ProviderTypes'
  <2> DEFINE Row(x) == x \in Observations /\ x.rev <= changes + 1
  <2>1. pr[t] \in Observations /\ pr[t].rev <= changes /\ changes' = changes + 1
        /\ changes \in Nat /\ changes + 1 \in 0 .. MaxChanges
    <3>1. MaxChanges \in Nat /\ changes \in 0 .. MaxChanges /\ changes < MaxChanges
          /\ changes' = changes + 1
      BY <1>1, <1>2, EventAssumption DEF ProviderTypes, PullRequestChanges
    <3>2. pr[t] \in Observations /\ pr[t].rev <= changes
      BY <1>1 DEF ProviderTypes, Readings
    <3> QED
      BY <3>1, <3>2
  <2>2. ASSUME NEW a \in BOOLEAN
        PROVE  Row([pr[t] EXCEPT !.rev = @ + 1, !.attention = a])
    <3>1. pr[t].rev + 1 \in 0 .. MaxChanges /\ pr[t].rev + 1 <= changes + 1
      BY <2>1, EventAssumption DEF Observations
    <3>2. ASSUME NEW r \in 0 .. MaxChanges, r <= changes + 1, NEW x \in Observations
          PROVE  Row([x EXCEPT !.rev = r, !.attention = a])
      BY <3>2 DEF Observations
    <3> QED
      BY <2>1, <3>1, <3>2
  <2>3. ASSUME NEW s \in {"open", "closed", "merged"}
        PROVE  Row([pr[t] EXCEPT !.state = s])
    BY <2>1, EventAssumption DEF Observations
  <2>4. PICK x : Row(x) /\ pr' = [pr EXCEPT ![t] = x]
    <3> HIDE DEF Row
    <3>1. CASE \E a \in BOOLEAN : pr' = [pr EXCEPT ![t].rev = @ + 1, ![t].attention = a]
      <4>1. PICK a \in BOOLEAN : pr' = [pr EXCEPT ![t].rev = @ + 1, ![t].attention = a]
        BY <3>1
      <4>2. pr' = [pr EXCEPT ![t] = [pr[t] EXCEPT !.rev = @ + 1, !.attention = a]]
        BY <4>1, <1>1 DEF ProviderTypes
      <4> QED
        BY <2>2, <4>2
    <3>2. CASE \E s \in {"open", "closed", "merged"} : pr' = [pr EXCEPT ![t].state = s]
      BY <2>3, <3>2
    <3> QED
      BY <1>2, <3>1, <3>2 DEF PullRequestChanges
  <2>5. \A u \in Tickets : pr[u].rev \in Nat /\ pr[u].rev <= changes
    BY <1>1 DEF ProviderTypes, Readings, Observations
  <2> HIDE DEF Row
  <2>6. pr' \in [Tickets -> Observations]
    BY <1>1, <2>4 DEF ProviderTypes, Row
  <2>7. \A u \in Tickets : pr'[u].rev <= changes + 1
    BY <1>1, <2>1, <2>4, <2>5 DEF ProviderTypes, Row
  <2>8. overtaken' \subseteq Followers
    BY <1>1, <1>2 DEF ProviderTypes, PullRequestChanges
  <2> QED
    BY <2>1, <2>6, <2>7, <2>8 DEF ProviderTypes, Readings
<1>3. CASE UNCHANGED provider
  BY <1>1, <1>3 DEF provider, ProviderTypes, Readings
<1> QED
  BY <1>2, <1>3
  DEF Next, vars, DaemonStep, CommandStep, PersonRetags, PersonReturns, RunSucceeds, RunFails,
      Associate, WorkerDies, ClaimExpires, Acquire, Crash, Observe, ObserveFails, See, Release,
      Claim, MarkUntouched, Trust, Refuse, Project, Continue, ContinueRefused, MarkContinued,
      CommandReturns, Consume, CommandFails, CommandReads, CommandRoutes, CommandFinishes,
      CommandCompletes, CommandReleases, CommandDecides, OrphanEnds

LEMMA ArmStep == TypeInv /\ [Next]_vars => ArmTypes'
<1> SUFFICES ASSUME TypeInv, [Next]_vars PROVE ArmTypes'
  OBVIOUS
<1>1. ArmTypes /\ associated \subseteq Tickets /\ pr \in [Tickets -> Observations]
  BY TypeParts DEF LedgerTypes, ProviderTypes
\* An arm that moves.
<1>2. ASSUME NEW d \in Daemons, NEW a \in Arms, daemon' = [daemon EXCEPT ![d] = a],
             a.ticket = NoTicket <=> a.stage \in {"idle", "next"},
             a.stage \in {"trusted", "continued"} => a.seen.state = "open"
      PROVE  ArmTypes'
  BY <1>1, <1>2 DEF ArmTypes, Authority
<1>3. ASSUME NEW d \in Daemons, NEW stage \in Stages \ {"idle", "next"}, GoTo(d, stage),
             daemon[d].stage \notin {"idle", "next"},
             stage \in {"trusted", "continued"} => daemon[d].seen.state = "open"
      PROVE  ArmTypes'
  <2> DEFINE a == [daemon[d] EXCEPT !.stage = stage]
  <2>1. daemon[d] \in Arms /\ daemon[d].ticket # NoTicket
    BY <1>1, <1>3 DEF ArmTypes
  <2>2. a \in Arms /\ a.stage = stage /\ a.ticket # NoTicket /\ a.seen = daemon[d].seen
    BY <2>1 DEF Arms
  <2>3. daemon' = [daemon EXCEPT ![d] = a]
    BY <1>3 DEF GoTo
  <2> HIDE DEF a
  <2> QED
    BY <1>2, <1>3, <2>2, <2>3
<1>4. ASSUME NEW d \in Daemons, GoOn(d)
      PROVE  ArmTypes'
  <2> DEFINE a == [Idle EXCEPT !.stage = "next", !.todo = daemon[d].todo]
  <2>1. a \in Arms /\ a.stage = "next" /\ a.ticket = NoTicket
    BY <1>1, Names DEF ArmTypes, Arms, Idle, Stages
  <2>2. daemon' = [daemon EXCEPT ![d] = a]
    BY <1>4 DEF GoOn
  <2> HIDE DEF a
  <2> QED
    BY <1>2, <2>1, <2>2
<1>5. ASSUME NEW d \in Daemons, daemon' = [daemon EXCEPT ![d] = Idle]
      PROVE  ArmTypes'
  BY <1>2, <1>5, Names DEF Idle
<1>6. ASSUME NEW d \in Daemons, Acquire(d)
      PROVE  ArmTypes'
  <2> DEFINE a == [daemon[d] EXCEPT !.stage = "next", !.todo = associated]
  <2>1. a \in Arms /\ a.stage = "next" /\ a.ticket = NoTicket
    BY <1>1, <1>6 DEF ArmTypes, Arms, Acquire, Stages
  <2>2. daemon' = [daemon EXCEPT ![d] = a]
    BY <1>6 DEF Acquire
  <2> HIDE DEF a
  <2> QED
    BY <1>2, <2>1, <2>2
<1>7. ASSUME NEW d \in Daemons, NEW t \in Tickets, NEW f \in Fingerprints, See(d, t, f)
      PROVE  ArmTypes'
  <2> DEFINE a == [stage |-> "seen", todo |-> daemon[d].todo \ {t}, ticket |-> t, seen |-> f]
  <2>1. a \in Arms /\ a.stage = "seen" /\ a.ticket # NoTicket
    BY <1>1, Names DEF ArmTypes, Arms, Stages
  <2>2. daemon' = [daemon EXCEPT ![d] = a]
    BY <1>7, <1>1 DEF See, ArmTypes
  <2> HIDE DEF a
  <2> QED
    BY <1>2, <2>1, <2>2
<1>8. ASSUME NEW d \in Daemons, DaemonStep(d)
      PROVE  ArmTypes'
  <2>1. {"claimed", "trusted", "continued", "asana", "marked"} \subseteq Stages \ {"idle", "next"}
    BY DEF Stages
  <2>2. CASE Release(d)
    BY <1>5, <2>2 DEF Release
  <2>3. CASE Claim(d)
    BY <1>3, <1>4, <2>1, <2>3 DEF Claim
  <2>4. CASE MarkUntouched(d) \/ MarkContinued(d)
    BY <1>3, <2>1, <2>4 DEF MarkUntouched, MarkContinued, Mark
  <2>5. CASE Trust(d)
    BY <1>3, <2>1, <2>5 DEF Trust
  <2>6. CASE Refuse(d) \/ Project(d)
    BY <1>3, <2>1, <2>6 DEF Refuse, Project, Start
  <2>7. CASE Continue(d) \/ ContinueRefused(d)
    <3>1. daemon[d].stage = "trusted" /\ daemon[d].seen.state = "open"
          /\ (GoTo(d, "continued") \/ GoTo(d, "asana"))
      BY <1>1, <2>7 DEF Continue, ContinueRefused, Start, GoTo, ArmTypes, Authority
    <3> QED
      BY <1>3, <2>1, <3>1
  <2>8. CASE CommandReturns(d)
    BY <1>3, <1>4, <2>1, <2>8 DEF CommandReturns, Mark
  <2>9. CASE Consume(d)
    BY <1>4, <2>9 DEF Consume
  <2> QED
    BY <1>8, <2>2, <2>3, <2>4, <2>5, <2>6, <2>7, <2>8, <2>9 DEF DaemonStep
<1>9. ASSUME NEW d \in Daemons, NEW t \in Tickets, Observe(d, t) \/ ObserveFails(d, t)
      PROVE  ArmTypes'
  BY <1>1, <1>7, <1>9, Names DEF Observe, ObserveFails
<1>10. CASE UNCHANGED daemon
  BY <1>1, <1>10 DEF ArmTypes, Authority
<1> QED
  BY <1>5, <1>6, <1>8, <1>9, <1>10
  DEF Next, vars, CommandStep, PersonRetags, PersonReturns, RunSucceeds, RunFails,
      Associate, WorkerDies, ClaimExpires, Crash, PullRequestChanges,
      CommandFails, CommandReads, CommandRoutes, CommandFinishes,
      CommandCompletes, CommandReleases, CommandDecides, OrphanEnds

LEMMA LedgerStep == TypeInv /\ [Next]_vars => LedgerTypes'
<1> SUFFICES ASSUME TypeInv, [Next]_vars PROVE LedgerTypes'
  OBVIOUS
<1>1. LedgerTypes /\ ArmTypes
  BY TypeParts
<1>2. ASSUME NEW t, NEW f, NEW s \in EventStates, SetEvent(t, f, s),
             UNCHANGED <<delivery, handoff, associated, reserved>>
      PROVE  LedgerTypes'
  BY <1>1, <1>2 DEF LedgerTypes, SetEvent
<1>3. {"observed", "claimed", "expired", "asana_applied", "consumed"} \subseteq EventStates
  BY DEF EventStates
<1>4. CASE UNCHANGED ledger
  BY <1>1, <1>4 DEF LedgerTypes, ledger
<1>5. ASSUME NEW t \in Tickets,
             \/ RunSucceeds(t) \/ RunFails(t) \/ Associate(t) \/ WorkerDies(t)
      PROVE  LedgerTypes'
  BY <1>1, <1>5 DEF LedgerTypes, RunSucceeds, RunFails, Associate, WorkerDies
<1>6. ASSUME NEW t \in Tickets, NEW f \in Fingerprints, ClaimExpires(t, f)
      PROVE  LedgerTypes'
  BY <1>2, <1>3, <1>6 DEF ClaimExpires
<1>7. ASSUME NEW d \in Daemons, DaemonStep(d)
      PROVE  LedgerTypes'
  <2>1. CASE Continue(d)
    <3>1. daemon[d].seen \in Observations
      BY <1>1, <1>7, <2>1
      DEF ArmTypes, Arms, Authority, Continue, Fingerprints, Outage
    <3> QED
      BY <1>1, <2>1, <3>1 DEF LedgerTypes, Continue
  <2>2. CASE Claim(d)
    BY <1>2, <1>3, <1>4, <2>2 DEF Claim, ledger
  <2>3. CASE MarkUntouched(d) \/ MarkContinued(d)
    BY <1>2, <1>3, <1>4, <2>3 DEF MarkUntouched, MarkContinued, Mark, ledger
  <2>4. CASE CommandReturns(d)
    BY <1>2, <1>3, <1>4, <2>4 DEF CommandReturns, Mark, ledger
  <2>5. CASE Consume(d)
    BY <1>2, <1>3, <2>5 DEF Consume
  <2>6. CASE Release(d) \/ Trust(d) \/ Refuse(d) \/ Project(d) \/ ContinueRefused(d)
    BY <1>4, <2>6 DEF Release, Trust, Refuse, Project, ContinueRefused
  <2> QED
    BY <1>7, <2>1, <2>2, <2>3, <2>4, <2>5, <2>6 DEF DaemonStep
<1> QED
  BY <1>4, <1>5, <1>6, <1>7
  DEF Next, vars, CommandStep, PersonRetags, PersonReturns, Crash, PullRequestChanges, Acquire,
      Observe, ObserveFails, See, CommandFails, CommandReads, CommandRoutes, CommandFinishes,
      CommandCompletes, CommandReleases, CommandDecides, OrphanEnds

\* The commands that are started, or move.
LEMMA CommandMoves ==
    ASSUME CommandTypes, NEW c \in Callers, NEW x \in Commands, cmd' = [cmd EXCEPT ![c] = x],
           x.stage # "none" => x.ticket \in Tickets
    PROVE  CommandTypes'
  BY DEF CommandTypes, Targets

LEMMA CommandBecomes ==
    ASSUME CommandTypes, NEW c \in Callers, Becomes(c, "ok") \/ Becomes(c, "failed")
               \/ Becomes(c, "deciding") \/ Becomes(c, "completing") \/ Becomes(c, "releasing"),
           cmd[c].stage # "none"
    PROVE  CommandTypes'
<1>1. PICK s \in {"ok", "failed", "deciding", "completing", "releasing"} : Becomes(c, s)
  OBVIOUS
<1> DEFINE x == [cmd[c] EXCEPT !.stage = s]
<1>2. cmd[c] \in Commands /\ cmd[c].ticket \in Tickets
  BY DEF CommandTypes, Targets
<1>3. x \in Commands /\ x.ticket \in Tickets
  BY <1>2 DEF Commands
<1>4. cmd' = [cmd EXCEPT ![c] = x]
  BY <1>1 DEF Becomes
<1> HIDE DEF x
<1> QED
  BY <1>3, <1>4, CommandMoves

LEMMA RoutesTyped ==
    ASSUME NEW t
    PROVE  RoutesOf(t) \subseteq Routes
  BY DEF RoutesOf, Routes

LEMMA CommandTypesStep == TypeInv /\ [Next]_vars => CommandTypes'
<1> SUFFICES ASSUME TypeInv, [Next]_vars PROVE CommandTypes'
  OBVIOUS
<1>1. CommandTypes /\ ArmTypes
  BY TypeParts
<1>2. CASE UNCHANGED cmd
  BY <1>1, <1>2 DEF CommandTypes, Targets
<1>3. ASSUME NEW c \in Callers, cmd' = [cmd EXCEPT ![c] = NoCommand]
      PROVE  CommandTypes'
  BY <1>1, <1>3, Names, CommandMoves DEF NoCommand
<1>4. ASSUME NEW d \in Daemons, NEW outcome \in Outcomes, Start(d, outcome),
             daemon[d].stage \notin {"idle", "next"}
      PROVE  CommandTypes'
  <2> DEFINE x == [NoCommand EXCEPT !.stage = "reading", !.ticket = daemon[d].ticket,
                                    !.outcome = outcome]
  <2>1. daemon[d].ticket \in Tickets
    BY <1>1, <1>4 DEF ArmTypes, Arms
  <2>2. x \in Commands /\ x.ticket \in Tickets
    BY <2>1 DEF NoCommand, Commands
  <2>3. cmd' = [cmd EXCEPT ![d] = x]
    BY <1>4 DEF Start
  <2> HIDE DEF x
  <2> QED
    BY <1>1, <2>2, <2>3, Names, CommandMoves
<1>5. ASSUME NEW d \in Daemons, DaemonStep(d)
      PROVE  CommandTypes'
  <2>1. CASE Refuse(d) \/ ContinueRefused(d)
    BY <1>2, <1>4, <2>1 DEF Refuse, ContinueRefused, Outcomes
  <2>2. CASE Project(d)
    <3>1. daemon[d].seen.state \in Outcomes
      BY <1>1, <2>2
      DEF ArmTypes, Arms, Project, Fingerprints, Observations, Outage, Outcomes
    <3> QED
      BY <1>4, <2>2, <3>1 DEF Project
  <2>3. CASE CommandReturns(d)
    BY <1>3, <2>3, Names DEF CommandReturns
  <2>4. CASE UNCHANGED cmd
    BY <1>2, <2>4
  <2> QED
    BY <1>5, <2>1, <2>2, <2>3, <2>4
    DEF DaemonStep, Release, Claim, MarkUntouched, Trust, Continue, MarkContinued, Consume
<1>6. ASSUME NEW d \in Daemons, Crash(d)
      PROVE  CommandTypes'
  <2>1. CASE cmd' = [cmd EXCEPT ![d] = NoCommand]
    BY <1>3, <2>1, Names
  <2>2. CASE \E o \in Orphans : cmd' = [cmd EXCEPT ![d] = NoCommand, ![o] = cmd[d]]
    <3>1. PICK o \in Orphans : cmd' = [cmd EXCEPT ![d] = NoCommand, ![o] = cmd[d]]
      BY <2>2
    <3>2. cmd[d] \in Commands /\ (cmd[d].stage # "none" => cmd[d].ticket \in Tickets)
      BY <1>1, Names DEF CommandTypes, Targets
    <3>3. cmd' \in [Callers -> Commands]
      BY <1>1, <3>1, <3>2, Names DEF CommandTypes
    <3>4. ASSUME NEW c \in Callers
          PROVE  cmd'[c] \in {NoCommand, cmd[d], cmd[c]}
      BY <1>1, <3>1, Names DEF CommandTypes
    <3> QED
      BY <1>1, <3>2, <3>3, <3>4 DEF CommandTypes, Targets, NoCommand
  <2> QED
    BY <1>6, <2>1, <2>2 DEF Crash
<1>7. ASSUME NEW c \in Callers, CommandStep(c)
      PROVE  CommandTypes'
  <2>1. cmd[c] \in Commands /\ cmd[c].stage # "none" /\ cmd[c].ticket \in Tickets
    BY <1>1, <1>7
    DEF CommandTypes, Targets, CommandStep, CommandReads, CommandRoutes, CommandFinishes,
        CommandCompletes, CommandReleases, CommandDecides
  <2>2. CASE CommandReads(c)
    <3>1. ASSUME NEW b \in BOOLEAN, NEW s \in {"finishing", "routing"},
                 cmd' = [cmd EXCEPT ![c].inDone = b, ![c].stage = s]
          PROVE  CommandTypes'
      <4> DEFINE x == [cmd[c] EXCEPT !.inDone = b, !.stage = s]
      <4>1. x \in Commands /\ x.ticket \in Tickets
        BY <2>1 DEF Commands
      <4>2. cmd' = [cmd EXCEPT ![c] = x]
        BY <1>1, <3>1 DEF CommandTypes
      <4> HIDE DEF x
      <4> QED
        BY <1>1, <4>1, <4>2, CommandMoves
    <3> QED
      BY <1>1, <2>1, <2>2, <3>1, CommandBecomes DEF CommandReads
  <2>3. CASE CommandRoutes(c)
    <3> DEFINE x == [cmd[c] EXCEPT !.routes = RoutesOf(cmd[c].ticket), !.stage = "finishing"]
    <3>1. x \in Commands /\ x.ticket \in Tickets
      BY <2>1, RoutesTyped DEF Commands
    <3>2. cmd' = [cmd EXCEPT ![c] = x]
      BY <1>1, <2>3 DEF CommandTypes, CommandRoutes
    <3> HIDE DEF x
    <3> QED
      BY <1>1, <3>1, <3>2, CommandMoves
  <2>4. CASE CommandReleases(c)
    <3>1. ASSUME NEW r \in cmd[c].routes, cmd' = [cmd EXCEPT ![c].routes = @ \ {r}]
          PROVE  CommandTypes'
      <4> DEFINE x == [cmd[c] EXCEPT !.routes = @ \ {r}]
      <4>1. x \in Commands /\ x.ticket \in Tickets
        BY <2>1 DEF Commands
      <4>2. cmd' = [cmd EXCEPT ![c] = x]
        BY <3>1
      <4> HIDE DEF x
      <4> QED
        BY <1>1, <4>1, <4>2, CommandMoves
    <3> QED
      BY <1>1, <2>1, <2>4, <3>1, CommandBecomes DEF CommandReleases
  <2>5. CASE CommandFinishes(c) \/ CommandCompletes(c) \/ CommandDecides(c)
    BY <1>1, <2>1, <2>5, CommandBecomes DEF CommandFinishes, CommandCompletes, CommandDecides
  <2> QED
    BY <1>7, <2>2, <2>3, <2>4, <2>5 DEF CommandStep
<1>8. ASSUME NEW c \in Callers, CommandFails(c)
      PROVE  CommandTypes'
  BY <1>1, <1>8, CommandBecomes DEF CommandFails, Running
<1>9. ASSUME NEW o \in Orphans, OrphanEnds(o)
      PROVE  CommandTypes'
  BY <1>3, <1>9, Names DEF OrphanEnds
<1> QED
  BY <1>2, <1>5, <1>6, <1>7, <1>8, <1>9
  DEF Next, vars, Callers, PersonRetags, PersonReturns, PullRequestChanges, Acquire, RunSucceeds,
      RunFails, Associate, WorkerDies, ClaimExpires, Observe, ObserveFails, See

LEMMA AsanaStep == TypeInv /\ [Next]_vars => AsanaTypes'
<1> SUFFICES ASSUME TypeInv, [Next]_vars PROVE AsanaTypes'
  OBVIOUS
<1>1. AsanaTypes /\ CommandTypes
  BY TypeParts
<1>2. Trouble => troubles' \in 0 .. MaxTroubles
  BY <1>1, EventAssumption DEF AsanaTypes, Trouble
<1>3. CASE UNCHANGED <<asana, retagged>> /\ (Trouble \/ UNCHANGED troubles)
  BY <1>1, <1>2, <1>3 DEF AsanaTypes, asana
<1>4. ASSUME NEW t \in Tasks, PersonRetags(t) \/ PersonReturns(t)
      PROVE  AsanaTypes'
  BY <1>1, <1>2, <1>4 DEF AsanaTypes, PersonRetags, PersonReturns, Sections
<1>5. ASSUME NEW c \in Callers, CommandStep(c)
      PROVE  AsanaTypes'
  <2>1. cmd[c].ticket \in Tickets /\ cmd[c].ticket \in Tasks /\ cmd[c].routes \subseteq Routes
    BY <1>1, <1>5, Names
    DEF CommandTypes, Targets, Commands, CommandStep, CommandReads, CommandRoutes,
        CommandFinishes, CommandCompletes, CommandReleases, CommandDecides
  <2>2. CASE CommandReleases(c)
    BY <1>1, <2>1, <2>2 DEF AsanaTypes, CommandReleases, Routes, Sections
  <2>3. CASE CommandFinishes(c) \/ CommandCompletes(c) \/ CommandDecides(c)
    BY <1>1, <2>1, <2>3
    DEF AsanaTypes, CommandFinishes, CommandCompletes, CommandDecides, Sections
  <2> QED
    BY <1>3, <1>5, <2>2, <2>3 DEF CommandStep, CommandReads, CommandRoutes
<1> QED
  BY <1>3, <1>4, <1>5
  DEF Next, vars, asana, Callers, PullRequestChanges, Acquire, RunSucceeds, RunFails, Associate,
      WorkerDies, ClaimExpires, Observe, ObserveFails, See, Crash, CommandFails, OrphanEnds,
      DaemonStep, Release, Claim, MarkUntouched, Trust, Refuse, Project, Continue,
      ContinueRefused, MarkContinued, CommandReturns, Consume

LEMMA TypesInit == Init => TypeInv
<1> SUFFICES ASSUME Init PROVE TypeInv
  OBVIOUS
<1>1. ProviderTypes
  BY EventAssumption DEF Init, ProviderTypes, Readings, Observations
<1>2. LedgerTypes
  BY EventAssumption DEF Init, LedgerTypes, EventStates
<1>3. ArmTypes
  BY Names DEF Init, ArmTypes, Authority, Idle
<1>4. CommandTypes
  BY Names DEF Init, CommandTypes, Targets, NoCommand, Callers
<1>5. AsanaTypes
  BY EventAssumption DEF Init, AsanaTypes, Sections
<1> QED
  BY <1>1, <1>2, <1>3, <1>4, <1>5, TypeParts

LEMMA TypesNext == TypeInv /\ [Next]_vars => TypeInv'
<1> SUFFICES ASSUME TypeInv, [Next]_vars PROVE TypeInv'
  OBVIOUS
<1>1. ProviderTypes' /\ LedgerTypes' /\ ArmTypes' /\ CommandTypes' /\ AsanaTypes'
  BY ProviderStep, LedgerStep, ArmStep, CommandTypesStep, AsanaStep
<1> QED
  BY <1>1, TypeParts, PTL

\* Associations, events, commands and Asana keep their types, whatever outlives
\* whom.
THEOREM TypeCorrect == Spec => []TypeOK
<1>1. TypeInv => TypeOK
  BY DEF TypeInv
<1> QED
  BY <1>1, TypesInit, TypesNext, PTL DEF Spec

--------------------------------------------------------------------------------
\* What the ledger forgets is shown by Asana.

\* People change tags, nobody else.
LEMMA TagsStay ==
    ASSUME [Next]_vars
    PROVE  UNCHANGED <<lane, retagged>> \/ \E t \in Tasks : PersonRetags(t)
<1>1. ASSUME NEW c \in Callers, CommandStep(c) \/ CommandFails(c) \/ OrphanEnds(c)
      PROVE  UNCHANGED <<lane, retagged>>
  BY <1>1 DEF CommandStep, CommandReads, CommandRoutes, CommandFinishes, CommandCompletes,
      CommandReleases, CommandDecides, CommandFails, OrphanEnds, asana
<1>2. ASSUME NEW d \in Daemons, DaemonStep(d)
      PROVE  UNCHANGED <<lane, retagged>>
  BY <1>2 DEF DaemonStep, Release, Claim, MarkUntouched, Trust, Refuse, Project, Continue,
      ContinueRefused, MarkContinued, CommandReturns, Consume, asana
<1>3. ASSUME NEW d \in Daemons,
             Acquire(d) \/ Crash(d) \/ \E t \in Tickets : Observe(d, t) \/ ObserveFails(d, t)
      PROVE  UNCHANGED <<lane, retagged>>
  BY <1>3 DEF Acquire, Crash, Observe, ObserveFails, See, asana
<1>4. ASSUME NEW t \in Tickets,
             \/ PullRequestChanges(t) \/ RunSucceeds(t) \/ RunFails(t) \/ Associate(t)
             \/ WorkerDies(t) \/ \E f \in Fingerprints : ClaimExpires(t, f)
      PROVE  UNCHANGED <<lane, retagged>>
  BY <1>4 DEF PullRequestChanges, RunSucceeds, RunFails, Associate, WorkerDies, ClaimExpires,
      asana
<1>5. ASSUME NEW t \in Tasks, PersonReturns(t)
      PROVE  UNCHANGED <<lane, retagged>>
  BY <1>5 DEF PersonReturns
<1>6. UNCHANGED vars => UNCHANGED <<lane, retagged>>
  BY DEF vars, asana
<1> QED
  BY <1>1, <1>2, <1>3, <1>4, <1>5, <1>6 DEF Next, Callers

\* Nothing takes a completion back, and an exemption is for ever.
LEMMA SettledStays ==
    ASSUME TypeInv, [Next]_vars
    PROVE  /\ completed \subseteq completed'
           /\ \A t \in Tickets : Settled(t) => Settled(t)'
<1>1. AsanaTypes
  BY TypeParts
<1>2. completed \subseteq completed'
  BY DEF Next, vars, asana, PersonRetags, PersonReturns, PullRequestChanges, Acquire, RunSucceeds,
      RunFails, Associate, WorkerDies, ClaimExpires, Observe, ObserveFails, See, Crash,
      CommandFails, OrphanEnds, DaemonStep, Release, Claim, MarkUntouched, Trust, Refuse,
      Project, Continue, ContinueRefused, MarkContinued, CommandReturns, Consume, CommandStep,
      CommandReads, CommandRoutes, CommandFinishes, CommandCompletes, CommandReleases,
      CommandDecides
<1>3. UNCHANGED <<lane, retagged>> \/ \E t \in Tasks : PersonRetags(t)
  BY TagsStay
<1>4. \A t \in Tickets : Exempt(t) => Exempt(t)'
  BY <1>1, <1>3, Names DEF AsanaTypes, PersonRetags, Exempt
<1> QED
  BY <1>2, <1>4 DEF Settled

\* A daemon's command is its own until it returns.
LEMMA BelongStep == TypeInv /\ CommandsBelong /\ [Next]_vars => CommandsBelong'
<1> SUFFICES ASSUME TypeInv, CommandsBelong, [Next]_vars,
                    NEW e \in Daemons,
                    daemon'[e].stage = "asana", daemon'[e].seen.state = "merged"
             PROVE  cmd'[e].ticket = daemon'[e].ticket /\ cmd'[e].outcome = "merged"
  BY DEF CommandsBelong
<1>1. ArmTypes /\ CommandTypes /\ ArmTypes'
  BY TypeParts, ArmStep
<1>2. daemon[e] \in Arms /\ e \in DOMAIN daemon
  BY <1>1 DEF ArmTypes
\* What other daemons, and commands, leave of it.
<1>3. CASE daemon'[e] = daemon[e] /\ cmd'[e].ticket = cmd[e].ticket
                                  /\ cmd'[e].outcome = cmd[e].outcome
  BY <1>3 DEF CommandsBelong
<1>4. ASSUME NEW d \in Daemons, DaemonStep(d)
      PROVE  cmd'[e].ticket = daemon'[e].ticket /\ cmd'[e].outcome = "merged"
  <2>1. CASE d # e
    <3>1. daemon'[e] = daemon[e] /\ cmd'[e] = cmd[e]
      <4>1. daemon'[e] = daemon[e]
        <5>1. \E a : daemon' = [daemon EXCEPT ![d] = a]
          BY <1>4
          DEF DaemonStep, Release, Claim, MarkUntouched, Trust, Refuse, Project, Continue,
              ContinueRefused, MarkContinued, CommandReturns, Consume, Start, Mark, GoTo, GoOn
        <5> QED
          BY <1>2, <2>1, <5>1
      <4>2. cmd'[e] = cmd[e]
        <5>1. UNCHANGED cmd \/ \E x : cmd' = [cmd EXCEPT ![d] = x]
          BY <1>4
          DEF DaemonStep, Release, Claim, MarkUntouched, Trust, Refuse, Project, Continue,
              ContinueRefused, MarkContinued, CommandReturns, Consume, Start, Mark
        <5> QED
          BY <1>1, <2>1, <5>1, Names DEF CommandTypes
      <4> QED
        BY <4>1, <4>2
    <3> QED
      BY <1>3, <3>1
  <2>2. CASE d = e
    <3>1. CASE Start(d, daemon[d].seen.state)
      BY <1>1, <2>2, <3>1, Names
      DEF ArmTypes, CommandTypes, Start, GoTo, NoCommand, Arms
    <3>2. CASE ~Start(d, daemon[d].seen.state)
      <4>1. ASSUME NEW s \in Stages \ {"asana"}, GoTo(d, s)
            PROVE  FALSE
        <5>1. daemon'[d].stage = s
          BY <1>2, <2>2, <4>1 DEF GoTo, Arms
        <5> QED
          BY <2>2, <4>1, <5>1
      <4>2. ~GoOn(d) /\ daemon' # [daemon EXCEPT ![d] = Idle]
        <5>1. Idle.stage = "idle"
              /\ \A todo : [Idle EXCEPT !.stage = "next", !.todo = todo].stage = "next"
          BY DEF Idle
        <5>2. ASSUME NEW a, daemon' = [daemon EXCEPT ![d] = a]
              PROVE  a.stage = "asana"
          BY <1>2, <2>2, <5>2
        <5> QED
          BY <5>1, <5>2 DEF GoOn
      <4>3. {"claimed", "trusted", "continued", "marked"} \subseteq Stages \ {"asana"}
        BY DEF Stages
      <4>4. Refuse(d) \/ ContinueRefused(d)
        BY <1>4, <3>2, <4>1, <4>2, <4>3
        DEF DaemonStep, Release, Claim, MarkUntouched, Trust, Project, Continue, MarkContinued,
            CommandReturns, Consume, Mark, GoTo
      <4>5. daemon[d].seen.state = "open" /\ daemon'[d].seen = daemon[d].seen
        BY <1>1, <1>2, <2>2, <4>4
        DEF Refuse, ContinueRefused, Start, GoTo, ArmTypes, Authority, Arms
      <4> QED
        BY <2>2, <4>5
    <3> QED
      BY <3>1, <3>2
  <2> QED
    BY <2>1, <2>2
<1>5. ASSUME NEW c \in Callers, CommandStep(c) \/ CommandFails(c)
      PROVE  cmd'[e].ticket = daemon'[e].ticket /\ cmd'[e].outcome = "merged"
  <2>1. daemon' = daemon
    BY <1>5
    DEF CommandStep, CommandFails, CommandReads, CommandRoutes, CommandFinishes,
        CommandCompletes, CommandReleases, CommandDecides
  <2>2. cmd'[e].ticket = cmd[e].ticket /\ cmd'[e].outcome = cmd[e].outcome
    BY <1>1, <1>5, Names
    DEF CommandTypes, Commands, CommandStep, CommandFails, CommandReads, CommandRoutes,
        CommandFinishes, CommandCompletes, CommandReleases, CommandDecides, Becomes
  <2> QED
    BY <1>3, <2>1, <2>2
<1>6. ASSUME NEW d \in Daemons, Crash(d)
      PROVE  cmd'[e].ticket = daemon'[e].ticket /\ cmd'[e].outcome = "merged"
  <2>1. d # e
    BY <1>2, <1>6 DEF Crash, Idle
  <2>2. daemon'[e] = daemon[e] /\ cmd'[e] = cmd[e]
    BY <1>1, <1>6, <2>1, Names DEF Crash, ArmTypes, CommandTypes
  <2> QED
    BY <1>3, <2>2
<1>7. ASSUME NEW d \in Daemons, Acquire(d) \/ \E t \in Tickets : Observe(d, t) \/ ObserveFails(d, t)
      PROVE  cmd'[e].ticket = daemon'[e].ticket /\ cmd'[e].outcome = "merged"
  <2>1. d # e
    BY <1>2, <1>7 DEF Acquire, Observe, ObserveFails, See, Arms
  <2>2. daemon'[e] = daemon[e] /\ cmd'[e] = cmd[e]
    BY <1>1, <1>7, <2>1 DEF Acquire, Observe, ObserveFails, See, ArmTypes
  <2> QED
    BY <1>3, <2>2
<1>8. ASSUME NEW o \in Orphans, OrphanEnds(o)
      PROVE  cmd'[e].ticket = daemon'[e].ticket /\ cmd'[e].outcome = "merged"
  BY <1>1, <1>3, <1>8, Names DEF OrphanEnds, CommandTypes
<1>9. CASE UNCHANGED <<daemon, cmd>>
  BY <1>3, <1>9
<1> QED
  BY <1>4, <1>5, <1>6, <1>7, <1>8, <1>9
  DEF Next, vars, Callers, PersonRetags, PersonReturns, PullRequestChanges, RunSucceeds,
      RunFails, Associate, WorkerDies, ClaimExpires

\* The commands show what they report.
LEMMA CommandsSettleStep == TypeInv /\ CommandsSettle /\ [Next]_vars => CommandsSettle'
<1> SUFFICES ASSUME TypeInv, CommandsSettle, [Next]_vars
             PROVE  CommandsSettle'
  OBVIOUS
<1> DEFINE Later(t) == t \in completed' \/ t \in retagged' \/ lane'[t] = "unsafe"
           Shown(x) ==
             /\ x.stage = "releasing" => x.ticket \in completed'
             /\ x.stage \in {"ok", "deciding"} /\ x.outcome = "merged" => Later(x.ticket)
<1>0. \A t \in Tickets :
        /\ t \in completed => t \in completed'
        /\ Settled(t) => Later(t)
  BY SettledStays DEF Settled, Exempt
<1> HIDE DEF Later, Shown
<1>1. CommandTypes /\ CommandTypes' /\ AsanaTypes
  BY TypeParts, CommandTypesStep
<1>2. ASSUME NEW c \in Callers
      PROVE  Shown(cmd[c])
  <2>1. cmd[c].stage # "none" => cmd[c].ticket \in Tickets
    BY <1>1 DEF CommandTypes, Targets
  <2> QED
    BY <1>0, <2>1 DEF CommandsSettle, Shown
<1>3. (\A c \in Callers : Shown(cmd'[c])) => CommandsSettle'
  BY DEF CommandsSettle, Shown, Later, Settled, Exempt
<1>4. ASSUME NEW x, x.stage \notin {"releasing", "ok", "deciding"}
      PROVE  Shown(x)
  BY <1>4 DEF Shown
<1>5. Shown(NoCommand)
  BY <1>4 DEF NoCommand
<1>6. ASSUME NEW c \in Callers, Shown(cmd'[c]), \A o \in Callers \ {c} : cmd'[o] = cmd[o]
      PROVE  CommandsSettle'
  BY <1>2, <1>3, <1>6
<1>7. CASE UNCHANGED cmd
  BY <1>2, <1>3, <1>7
<1>8. ASSUME NEW c \in Callers, cmd' = [cmd EXCEPT ![c] = NoCommand]
      PROVE  CommandsSettle'
  BY <1>1, <1>5, <1>6, <1>8 DEF CommandTypes
<1>9. ASSUME NEW d \in Daemons, NEW outcome, Start(d, outcome)
      PROVE  CommandsSettle'
  <2>1. cmd'[d].stage = "reading" /\ \A o \in Callers \ {d} : cmd'[o] = cmd[o]
    BY <1>1, <1>9, Names DEF Start, CommandTypes, NoCommand
  <2> QED
    BY <1>4, <1>6, <2>1, Names
<1>10. ASSUME NEW d \in Daemons, DaemonStep(d)
       PROVE  CommandsSettle'
  BY <1>7, <1>8, <1>9, <1>10, Names
  DEF DaemonStep, Release, Claim, MarkUntouched, Trust, Refuse, Project, Continue,
      ContinueRefused, MarkContinued, CommandReturns, Consume
<1>11. ASSUME NEW d \in Daemons, Crash(d)
       PROVE  CommandsSettle'
  <2>1. ASSUME NEW o \in Orphans, cmd' = [cmd EXCEPT ![d] = NoCommand, ![o] = cmd[d]],
               NEW c \in Callers
        PROVE  cmd'[c] \in {NoCommand, cmd[d], cmd[c]}
    BY <1>1, <2>1, Names DEF CommandTypes
  <2>2. CASE \E o \in Orphans : cmd' = [cmd EXCEPT ![d] = NoCommand, ![o] = cmd[d]]
    BY <1>2, <1>3, <1>5, <2>1, <2>2, Names
  <2> QED
    BY <1>8, <1>11, <2>2, Names DEF Crash
<1>12. ASSUME NEW c \in Callers, CommandStep(c)
       PROVE  CommandsSettle'
  <2>1. cmd[c] \in Commands /\ cmd[c].ticket \in Tickets
    BY <1>1, <1>12
    DEF CommandTypes, Targets, CommandStep, CommandReads, CommandRoutes, CommandFinishes,
        CommandCompletes, CommandReleases, CommandDecides
  <2>2. \A o \in Callers \ {c} : cmd'[o] = cmd[o]
    BY <1>1, <1>12
    DEF CommandTypes, CommandStep, CommandReads, CommandRoutes, CommandFinishes,
        CommandCompletes, CommandReleases, CommandDecides, Becomes
  <2>3. Shown(cmd'[c])
    <3>1. CASE CommandReads(c)
      <4>1. CASE Untouchable(cmd[c].ticket, cmd[c].outcome)
        BY <1>1, <2>1, <3>1, <4>1
        DEF CommandReads, Decides, Untouchable, Becomes, CommandTypes, Commands, Shown
      <4>2. CASE Decides(cmd[c].ticket, cmd[c].outcome)
        <5>1. cmd'[c].ticket = cmd[c].ticket /\ cmd'[c].outcome = cmd[c].outcome
              /\ cmd'[c].stage \in {"ok", "deciding"} /\ UNCHANGED asana
          BY <1>1, <2>1, <3>1, <4>2
          DEF CommandReads, Decides, Becomes, CommandTypes, Commands, Untouchable
        <5>2. cmd[c].outcome = "merged" => Later(cmd[c].ticket)
          BY <4>2, <5>1 DEF Decides, Later, asana
        <5> QED
          BY <5>1, <5>2 DEF Shown
      <4>3. CASE cmd'[c].stage \in {"finishing", "routing"}
        BY <1>4, <4>3
      <4> QED
        BY <1>1, <2>1, <3>1, <4>1, <4>2, <4>3 DEF CommandReads, CommandTypes, Commands
    <3>2. CASE CommandRoutes(c) \/ CommandFinishes(c)
      <4>1. cmd'[c].stage \in {"finishing", "completing"}
        BY <1>1, <2>1, <3>2
        DEF CommandRoutes, CommandFinishes, Becomes, CommandTypes, Commands
      <4> QED
        BY <1>4, <4>1
    <3>3. CASE CommandCompletes(c)
      <4>1. cmd'[c].stage = "releasing" /\ cmd'[c].ticket = cmd[c].ticket
            /\ cmd[c].ticket \in completed'
        BY <1>1, <2>1, <3>3 DEF CommandCompletes, Becomes, CommandTypes, Commands
      <4> QED
        BY <4>1 DEF Shown
    <3>4. CASE CommandReleases(c)
      <4>1. cmd'[c].stage \in {"releasing", "ok"} /\ cmd'[c].ticket = cmd[c].ticket
            /\ cmd[c].stage = "releasing" /\ UNCHANGED completed
        BY <1>1, <2>1, <3>4 DEF CommandReleases, Becomes, CommandTypes, Commands
      <4>2. cmd[c].ticket \in completed'
        BY <1>0, <2>1, <4>1 DEF CommandsSettle
      <4>3. Later(cmd[c].ticket)
        BY <4>2 DEF Later
      <4> QED
        BY <4>1, <4>2, <4>3 DEF Shown
    <3>5. CASE CommandDecides(c)
      <4>1. cmd'[c].stage = "ok" /\ cmd'[c].ticket = cmd[c].ticket
            /\ cmd'[c].outcome = cmd[c].outcome /\ cmd[c].stage = "deciding"
        BY <1>1, <2>1, <3>5 DEF CommandDecides, Becomes, CommandTypes, Commands
      <4> QED
        BY <1>2, <4>1 DEF Shown
    <3> QED
      BY <1>12, <3>1, <3>2, <3>3, <3>4, <3>5 DEF CommandStep
  <2> QED
    BY <1>6, <2>2, <2>3
<1>13. ASSUME NEW c \in Callers, CommandFails(c)
       PROVE  CommandsSettle'
  <2>1. cmd'[c].stage = "failed" /\ \A o \in Callers \ {c} : cmd'[o] = cmd[o]
    BY <1>1, <1>13 DEF CommandFails, Becomes, CommandTypes, Commands
  <2> QED
    BY <1>4, <1>6, <2>1
<1>14. ASSUME NEW o \in Orphans, OrphanEnds(o)
       PROVE  CommandsSettle'
  BY <1>8, <1>14, Names DEF OrphanEnds
<1> QED
  BY <1>7, <1>10, <1>11, <1>12, <1>13, <1>14
  DEF Next, vars, Callers, PersonRetags, PersonReturns, PullRequestChanges, RunSucceeds,
      RunFails, Associate, WorkerDies, ClaimExpires, Acquire, Observe, ObserveFails, See

\* A daemon marks a merge only for what Asana shows.
LEMMA MarksAreSettled ==
    ASSUME TypeInv, CommandsBelong, CommandsSettle, NEW d \in Daemons,
           MarkUntouched(d) \/ MarkContinued(d) \/ (CommandReturns(d) /\ cmd[d].stage = "ok"),
           daemon[d].seen.state = "merged"
    PROVE  Settled(daemon[d].ticket)
<1>1. ~MarkUntouched(d)
  BY DEF MarkUntouched
<1>2. ~MarkContinued(d)
  BY TypeParts DEF MarkContinued, ArmTypes, Authority
<1>3. daemon[d].stage = "asana" /\ cmd[d].stage = "ok"
  BY <1>1, <1>2 DEF CommandReturns
<1>4. cmd[d].ticket = daemon[d].ticket /\ cmd[d].outcome = "merged"
  BY <1>3 DEF CommandsBelong
<1> QED
  BY <1>3, <1>4, Names DEF CommandsSettle

LEMMA DaemonsSettleStep ==
    TypeInv /\ CommandsBelong /\ CommandsSettle /\ DaemonsSettle /\ [Next]_vars => DaemonsSettle'
<1> SUFFICES ASSUME TypeInv, CommandsBelong, CommandsSettle, DaemonsSettle, [Next]_vars,
                    NEW e \in Daemons, daemon'[e].stage = "marked",
                    daemon'[e].seen.state = "merged"
             PROVE  Settled(daemon[e].ticket)'
  BY DEF DaemonsSettle
<1>1. ArmTypes /\ daemon[e] \in Arms
  BY TypeParts DEF ArmTypes
<1>2. ASSUME daemon'[e].ticket = daemon[e].ticket, Settled(daemon[e].ticket),
             daemon[e].stage \notin {"idle", "next"}
      PROVE  Settled(daemon[e].ticket)'
  <2>1. PICK t \in Tickets : t = daemon[e].ticket
    BY <1>1, <1>2 DEF ArmTypes, Arms
  <2>2. Settled(t)'
    BY <1>2, <2>1, SettledStays
  <2> QED
    BY <1>2, <2>1, <2>2 DEF Settled, Exempt
<1>3. CASE daemon'[e] = daemon[e]
  BY <1>2, <1>3 DEF DaemonsSettle
<1>4. ASSUME NEW d \in Daemons, NEW a, daemon' = [daemon EXCEPT ![d] = a], a.stage # "marked"
      PROVE  daemon'[e] = daemon[e]
  BY <1>1, <1>4 DEF ArmTypes
<1>5. ASSUME NEW d \in Daemons, NEW stage \in Stages \ {"marked"}, GoTo(d, stage)
      PROVE  daemon'[e] = daemon[e]
  <2>1. \A a \in Arms : [a EXCEPT !.stage = stage].stage = stage
    BY DEF Arms
  <2>2. daemon' = [daemon EXCEPT ![d] = [daemon[d] EXCEPT !.stage = stage]]
    BY <1>5 DEF GoTo
  <2>3. daemon[d] \in Arms
    BY <1>1 DEF ArmTypes
  <2> QED
    BY <1>4, <2>1, <2>2, <2>3
<1>6. ASSUME NEW d \in Daemons, GoOn(d)
      PROVE  daemon'[e] = daemon[e]
  <2>1. \A todo : [Idle EXCEPT !.stage = "next", !.todo = todo].stage = "next"
    BY DEF Idle
  <2> QED
    BY <1>4, <1>6, <2>1 DEF GoOn
<1>7. Idle.stage # "marked"
  BY DEF Idle
<1>8. {"claimed", "trusted", "continued", "asana"} \subseteq Stages \ {"marked"}
  BY DEF Stages
<1>9. ASSUME NEW d \in Daemons,
             MarkUntouched(d) \/ MarkContinued(d) \/ (CommandReturns(d) /\ cmd[d].stage = "ok")
      PROVE  Settled(daemon[e].ticket)'
  <2>1. GoTo(d, "marked")
    BY <1>9 DEF MarkUntouched, MarkContinued, CommandReturns, Mark, Succeeded
  <2>2. CASE d # e
    BY <1>3, <1>1, <2>1, <2>2 DEF GoTo
  <2>3. CASE d = e
    <3>1. daemon'[e].ticket = daemon[e].ticket /\ daemon'[e].seen = daemon[e].seen
      BY <1>1, <2>1, <2>3 DEF GoTo, ArmTypes, Arms
    <3>2. daemon[e].stage \notin {"idle", "next"}
      BY <1>9, <2>3 DEF MarkUntouched, MarkContinued, CommandReturns
    <3> QED
      BY <1>2, <1>9, <2>3, <3>1, <3>2, MarksAreSettled
  <2> QED
    BY <2>2, <2>3
<1>10. ASSUME NEW d \in Daemons, DaemonStep(d)
       PROVE  Settled(daemon[e].ticket)'
  <2>1. CASE CommandReturns(d) /\ cmd[d].stage # "ok"
    BY <1>3, <1>6, <2>1 DEF CommandReturns, Succeeded
  <2>2. CASE Release(d) \/ Claim(d) \/ Trust(d) \/ Refuse(d) \/ Project(d) \/ Continue(d)
             \/ ContinueRefused(d) \/ Consume(d)
    <3>1. \/ daemon' = [daemon EXCEPT ![d] = Idle]
          \/ GoOn(d)
          \/ \E stage \in {"claimed", "trusted", "continued", "asana"} : GoTo(d, stage)
      BY <2>2
      DEF Release, Claim, Trust, Refuse, Project, Continue, ContinueRefused, Consume, Start, GoTo
    <3> QED
      BY <1>3, <1>4, <1>5, <1>6, <1>7, <1>8, <3>1
  <2>3. CASE MarkUntouched(d) \/ MarkContinued(d) \/ (CommandReturns(d) /\ cmd[d].stage = "ok")
    BY <1>9, <2>3
  <2> QED
    BY <1>10, <2>1, <2>2, <2>3 DEF DaemonStep
<1>11. ASSUME NEW d \in Daemons,
              Acquire(d) \/ Crash(d) \/ \E t \in Tickets : Observe(d, t) \/ ObserveFails(d, t)
       PROVE  daemon'[e] = daemon[e]
  <2>1. CASE d # e
    BY <1>1, <1>11, <2>1 DEF Acquire, Crash, Observe, ObserveFails, See, ArmTypes
  <2>2. CASE d = e
    <3>1. daemon'[d].stage \in {"next", "idle", "seen"}
      BY <1>1, <1>11 DEF Acquire, Crash, Observe, ObserveFails, See, ArmTypes, Arms, Idle
    <3> QED
      BY <2>2, <3>1
  <2> QED
    BY <2>1, <2>2
<1> QED
  BY <1>3, <1>10, <1>11
  DEF Next, vars, PersonRetags, PersonReturns, PullRequestChanges, RunSucceeds, RunFails,
      Associate, WorkerDies, ClaimExpires, CommandStep, CommandFails, CommandReads,
      CommandRoutes, CommandFinishes, CommandCompletes, CommandReleases, CommandDecides,
      OrphanEnds

\* The marks of an event are those of its merge.
LEMMA ConsumedStep ==
    TypeInv /\ EventInv /\ [Next]_vars => ConsumedMergesAreProjected'
<1> SUFFICES ASSUME TypeInv, EventInv, [Next]_vars, NEW t \in Tickets, NEW f \in Observations,
                    f.state = "merged", event'[t][f] \in {"asana_applied", "consumed"}
             PROVE  Settled(t)
  <2>1. (\A t \in Tickets, f \in Observations :
           f.state = "merged" /\ event'[t][f] \in {"asana_applied", "consumed"} => Settled(t)')
        => ConsumedMergesAreProjected'
    BY DEF ConsumedMergesAreProjected, Settled, Exempt
  <2> QED
    BY <2>1, SettledStays
<1>1. LedgerTypes /\ f \in Fingerprints
  BY TypeParts, Names
<1>2. CASE event'[t][f] = event[t][f]
  BY <1>2 DEF EventInv, ConsumedMergesAreProjected, Settled, Exempt
<1>3. ASSUME NEW u, NEW g, NEW s, SetEvent(u, g, s), s \notin {"asana_applied", "consumed"}
      PROVE  Settled(t)
  <2>1. event'[t][f] = event[t][f]
    BY <1>1, <1>3 DEF SetEvent, LedgerTypes
  <2> QED
    BY <1>2, <2>1
<1>4. ASSUME NEW d \in Daemons, NEW s, SetEvent(daemon[d].ticket, daemon[d].seen, s),
             daemon[d].seen.state = "merged" => Settled(daemon[d].ticket)
      PROVE  Settled(t)
  <2>1. event'[t][f] = event[t][f] \/ (t = daemon[d].ticket /\ f = daemon[d].seen)
    BY <1>1, <1>4 DEF SetEvent, LedgerTypes
  <2> QED
    BY <1>2, <1>4, <2>1
<1>5. ASSUME NEW d \in Daemons, Claim(d)
      PROVE  Settled(t)
  <2>1. CASE event[daemon[d].ticket][daemon[d].seen] = "asana_applied"
    <3>1. daemon[d].ticket \in Tickets /\ daemon[d].seen \in Fingerprints
      BY <1>5, TypeParts DEF Claim, ArmTypes, Arms
    <3>2. daemon[d].seen.state = "merged" => daemon[d].seen \in Observations
      BY <3>1, Names DEF Fingerprints
    <3>3. daemon[d].seen.state = "merged" => Settled(daemon[d].ticket)
      BY <2>1, <3>1, <3>2 DEF EventInv, ConsumedMergesAreProjected, Settled, Exempt
    <3>4. SetEvent(daemon[d].ticket, daemon[d].seen, "consumed")
      BY <1>5, <2>1 DEF Claim, Claimable
    <3> QED
      BY <1>4, <3>3, <3>4
  <2>2. CASE event[daemon[d].ticket][daemon[d].seen] # "asana_applied"
    BY <1>2, <1>3, <1>5, <2>2 DEF Claim
  <2> QED
    BY <2>1, <2>2
<1>6. ASSUME NEW d \in Daemons,
             MarkUntouched(d) \/ MarkContinued(d) \/ (CommandReturns(d) /\ cmd[d].stage = "ok")
      PROVE  Settled(t)
  <2>1. daemon[d].seen.state = "merged" => Settled(daemon[d].ticket)
    BY <1>6, MarksAreSettled DEF EventInv
  <2>2. UNCHANGED event \/ SetEvent(daemon[d].ticket, daemon[d].seen, "asana_applied")
    BY <1>6 DEF MarkUntouched, MarkContinued, CommandReturns, Mark, Succeeded
  <2> QED
    BY <1>2, <1>4, <2>1, <2>2
<1>7. ASSUME NEW d \in Daemons, CommandReturns(d), cmd[d].stage # "ok"
      PROVE  Settled(t)
  BY <1>2, <1>3, <1>7 DEF CommandReturns, Succeeded
<1>8. ASSUME NEW d \in Daemons, Consume(d)
      PROVE  Settled(t)
  BY <1>4, <1>8 DEF Consume, EventInv, DaemonsSettle
<1>9. ASSUME NEW u \in Tickets, NEW g \in Fingerprints, ClaimExpires(u, g)
      PROVE  Settled(t)
  BY <1>3, <1>9 DEF ClaimExpires
<1>10. CASE UNCHANGED event
  BY <1>2, <1>10
<1>11. ASSUME NEW d \in Daemons, DaemonStep(d)
       PROVE  Settled(t)
  <2>1. CASE Release(d) \/ Trust(d) \/ Refuse(d) \/ Project(d) \/ Continue(d) \/ ContinueRefused(d)
    BY <1>10, <2>1 DEF Release, Trust, Refuse, Project, Continue, ContinueRefused, ledger
  <2> QED
    BY <1>5, <1>6, <1>7, <1>8, <1>11, <2>1 DEF DaemonStep
<1> QED
  BY <1>9, <1>10, <1>11
  DEF Next, vars, ledger, PersonRetags, PersonReturns, PullRequestChanges,
      RunSucceeds, RunFails, Associate, WorkerDies, CommandStep, CommandFails, CommandReads,
      CommandRoutes, CommandFinishes, CommandCompletes, CommandReleases, CommandDecides,
      OrphanEnds, Acquire, Crash, Observe, ObserveFails, See

LEMMA EventsNext == TypeInv /\ EventInv /\ [Next]_vars => EventInv'
  BY BelongStep, CommandsSettleStep, DaemonsSettleStep, ConsumedStep DEF EventInv

LEMMA EventsInit == Init => EventInv
<1> SUFFICES ASSUME Init PROVE EventInv
  OBVIOUS
<1>1. \A d \in Daemons : daemon[d].stage = "idle"
  BY DEF Init, Idle
<1>2. \A c \in Callers : cmd[c].stage = "none"
  BY DEF Init, NoCommand, Callers
<1>3. \A t \in Tickets, f \in Observations : event[t][f] = "none"
  BY Names DEF Init
<1> QED
  BY <1>1, <1>2, <1>3
  DEF EventInv, CommandsBelong, CommandsSettle, DaemonsSettle, ConsumedMergesAreProjected

\* A merge is forgotten only after Asana shows it, for any number of tickets,
\* daemons and commands without one, whatever fails or dies in between
\* (claim_pull_request_event to consume_pull_request_event).
THEOREM MergesAreNotForgotten == Spec => []ConsumedMergesAreProjected
<1>1. EventInv => ConsumedMergesAreProjected
  BY DEF EventInv
<1> QED
  BY <1>1, TypesInit, TypesNext, EventsInit, EventsNext, PTL DEF Spec

--------------------------------------------------------------------------------
\* Who is released.

LEMMA FreeStep == TypeInv /\ RoutesAreFree /\ [Next]_vars => RoutesAreFree'
<1> SUFFICES ASSUME TypeInv, RoutesAreFree, [Next]_vars, NEW c \in Callers, NEW t \in Tasks,
                    <<t, "Ready">> \in cmd'[c].routes
             PROVE  Reachable[t] \subseteq completed' \cup {cmd'[c].ticket}
  BY DEF RoutesAreFree
<1>1. CommandTypes /\ completed \subseteq completed'
  BY TypeParts, SettledStays
<1>2. ASSUME NEW b \in Callers, <<t, "Ready">> \in cmd[b].routes, cmd'[c].ticket = cmd[b].ticket
      PROVE  Reachable[t] \subseteq completed' \cup {cmd'[c].ticket}
  BY <1>1, <1>2 DEF RoutesAreFree
<1>3. CASE cmd'[c].routes = {}
  BY <1>3
<1>4. NoCommand.routes = {}
  BY DEF NoCommand
<1>5. CASE UNCHANGED cmd
  BY <1>2, <1>5
<1>6. ASSUME NEW b \in Callers, NEW x, cmd' = [cmd EXCEPT ![b] = x], x.routes = {}
      PROVE  Reachable[t] \subseteq completed' \cup {cmd'[c].ticket}
  <2>1. CASE b = c
    BY <1>1, <1>3, <1>6, <2>1 DEF CommandTypes
  <2>2. CASE b # c
    BY <1>1, <1>2, <1>6, <2>2 DEF CommandTypes
  <2> QED
    BY <2>1, <2>2
<1>7. ASSUME NEW d \in Daemons, DaemonStep(d)
      PROVE  Reachable[t] \subseteq completed' \cup {cmd'[c].ticket}
  <2>1. ASSUME NEW outcome, Start(d, outcome)
        PROVE  Reachable[t] \subseteq completed' \cup {cmd'[c].ticket}
    <3>1. [NoCommand EXCEPT !.stage = "reading", !.ticket = daemon[d].ticket,
                            !.outcome = outcome].routes = {}
      BY DEF NoCommand
    <3> QED
      BY <1>6, <2>1, <3>1, Names DEF Start
  <2>2. CASE cmd' = [cmd EXCEPT ![d] = NoCommand]
    BY <1>4, <1>6, <2>2, Names
  <2> QED
    BY <1>5, <1>7, <2>1, <2>2
    DEF DaemonStep, Release, Claim, MarkUntouched, Trust, Refuse, Project, Continue,
        ContinueRefused, MarkContinued, CommandReturns, Consume
<1>8. ASSUME NEW d \in Daemons, Crash(d)
      PROVE  Reachable[t] \subseteq completed' \cup {cmd'[c].ticket}
  <2>1. ASSUME NEW o \in Orphans, cmd' = [cmd EXCEPT ![d] = NoCommand, ![o] = cmd[d]]
        PROVE  cmd'[c] \in {NoCommand, cmd[d], cmd[c]}
    BY <1>1, <2>1, Names DEF CommandTypes
  <2>2. CASE \E o \in Orphans : cmd' = [cmd EXCEPT ![d] = NoCommand, ![o] = cmd[d]]
    BY <1>2, <1>3, <1>4, <2>1, <2>2, Names
  <2> QED
    BY <1>4, <1>6, <1>8, <2>2, Names DEF Crash
<1>9. ASSUME NEW b \in Callers, CommandStep(b) \/ CommandFails(b)
      PROVE  Reachable[t] \subseteq completed' \cup {cmd'[c].ticket}
  <2>1. CASE CommandRoutes(b) /\ b = c
    <3>1. cmd'[c].routes = RoutesOf(cmd[c].ticket) /\ cmd'[c].ticket = cmd[c].ticket
      BY <1>1, <2>1 DEF CommandRoutes, CommandTypes, Commands
    <3>2. ~Blocked(t, cmd[c].ticket)
      BY <3>1 DEF RoutesOf
    <3> QED
      BY <1>1, <3>1, <3>2 DEF Blocked, AssumedCompleted
  <2>2. CASE ~CommandRoutes(b) \/ b # c
    <3>1. cmd'[c].routes \subseteq cmd[c].routes /\ cmd'[c].ticket = cmd[c].ticket
      BY <1>1, <1>9, <2>2
      DEF CommandStep, CommandFails, CommandReads, CommandRoutes, CommandFinishes,
          CommandCompletes, CommandReleases, CommandDecides, Becomes, CommandTypes, Commands
    <3> QED
      BY <1>2, <3>1
  <2> QED
    BY <2>1, <2>2
<1>10. ASSUME NEW o \in Orphans, OrphanEnds(o)
       PROVE  Reachable[t] \subseteq completed' \cup {cmd'[c].ticket}
  BY <1>4, <1>6, <1>10, Names DEF OrphanEnds
<1> QED
  BY <1>5, <1>7, <1>8, <1>9, <1>10
  DEF Next, vars, Callers, PersonRetags, PersonReturns, PullRequestChanges, RunSucceeds,
      RunFails, Associate, WorkerDies, ClaimExpires, Acquire, Observe, ObserveFails, See

LEMMA ReleasesNext == TypeInv /\ ReleaseInv /\ [Next]_vars => ReleaseInv'
<1> SUFFICES ASSUME TypeInv, ReleaseInv, [Next]_vars
             PROVE  ReleaseInv'
  OBVIOUS
<1>1. CommandsSettle' /\ RoutesAreFree'
  BY CommandsSettleStep, FreeStep DEF ReleaseInv
<1>2. SUFFICES ASSUME NEW t \in Followers, section'[t] = "Ready"
               PROVE  Reachable[t] \subseteq completed
  BY <1>1, SettledStays DEF ReleaseInv, ReleasedTasksAreUnblocked
<1>3. AsanaTypes /\ t \in Tasks
  BY TypeParts DEF Tasks
<1>4. CASE section'[t] = section[t]
  BY <1>2, <1>4 DEF ReleaseInv, ReleasedTasksAreUnblocked
<1>5. ASSUME NEW c \in Callers, CommandReleases(c)
      PROVE  Reachable[t] \subseteq completed
  <2>1. CASE \E r \in cmd[c].routes : r[1] = t /\ r[2] = "Ready"
    <3>1. <<t, "Ready">> \in cmd[c].routes
      <4>1. cmd[c].routes \subseteq Routes
        BY TypeParts DEF CommandTypes, Commands
      <4> QED
        BY <2>1, <4>1 DEF Routes
    <3>2. cmd[c].ticket \in completed
      BY <1>5 DEF ReleaseInv, CommandsSettle, CommandReleases
    <3> QED
      BY <1>3, <3>1, <3>2 DEF ReleaseInv, RoutesAreFree
  <2>2. CASE ~\E r \in cmd[c].routes : r[1] = t /\ r[2] = "Ready"
    <3>1. section'[t] = section[t]
      BY <1>2, <1>3, <1>5, <2>2 DEF CommandReleases, AsanaTypes
    <3> QED
      BY <1>4, <3>1
  <2> QED
    BY <2>1, <2>2
<1>6. ASSUME NEW c \in Callers, CommandFinishes(c) \/ CommandDecides(c)
      PROVE  Reachable[t] \subseteq completed
  BY <1>2, <1>3, <1>4, <1>6 DEF CommandFinishes, CommandDecides, AsanaTypes
<1>7. ASSUME NEW u \in Tasks, PersonReturns(u)
      PROVE  Reachable[t] \subseteq completed
  BY <1>2, <1>3, <1>4, <1>7 DEF PersonReturns, AsanaTypes
<1>8. CASE UNCHANGED section
  BY <1>4, <1>8
<1> QED
  BY <1>5, <1>6, <1>7, <1>8
  DEF Next, vars, asana, Callers, CommandStep, DaemonStep, PersonRetags, PullRequestChanges,
      RunSucceeds, RunFails, Associate, WorkerDies, ClaimExpires, Acquire, Observe,
      ObserveFails, See, Crash, Release, Claim, MarkUntouched, Trust, Refuse, Project, Continue,
      ContinueRefused, MarkContinued, CommandReturns, Consume, CommandFails, CommandReads,
      CommandRoutes, CommandCompletes, OrphanEnds

LEMMA ReleasesInit == Init => ReleaseInv
<1> SUFFICES ASSUME Init PROVE ReleaseInv
  OBVIOUS
<1>1. \A c \in Callers : cmd[c].stage = "none" /\ cmd[c].routes = {}
  BY DEF Init, NoCommand, Callers
<1>2. \A t \in Followers : section[t] = "Waiting"
  BY EventAssumption DEF Init, Tasks
<1> QED
  BY <1>1, <1>2 DEF ReleaseInv, CommandsSettle, RoutesAreFree, ReleasedTasksAreUnblocked

\* A follower becomes ready only after all its dependencies are completed, for
\* any graph of dependencies and any number of commands at once, one of which
\* may die at any request (reconcile_pull_request in .flashy-factory/clients/asana).
THEOREM FollowersWaitForAll == Spec => []ReleasedTasksAreUnblocked
<1>1. ReleaseInv => ReleasedTasksAreUnblocked
  BY DEF ReleaseInv
<1> QED
  BY <1>1, TypesInit, TypesNext, ReleasesInit, ReleasesNext, PTL DEF Spec
--------------------------------------------------------------------------------
\* One arm at a time.

\* The lock admits one arm, which waits for its command.
OneArm ==
    \A d, e \in Daemons : daemon[d].stage # "idle" /\ daemon[e].stage # "idle" => d = e

ArmsWait == \A d \in Daemons : cmd[d].stage # "none" => daemon[d].stage = "asana"

\* An arm moves alone.
ArmActs(d) ==
    \/ DaemonStep(d) \/ Acquire(d) \/ Crash(d)
    \/ \E t \in Tickets : Observe(d, t) \/ ObserveFails(d, t)

LEMMA OthersWait ==
    ASSUME TypeInv, NEW d \in Daemons, ArmActs(d), NEW e \in Daemons, e # d
    PROVE  daemon'[e] = daemon[e] /\ cmd'[e] = cmd[e]
<1>1. daemon \in [Daemons -> Arms] /\ cmd \in [Callers -> Commands] /\ e \in Callers /\ e \notin Orphans
  BY TypeParts, Names DEF ArmTypes, CommandTypes
<1>2. CASE Acquire(d) \/ \E t \in Tickets : Observe(d, t) \/ ObserveFails(d, t)
  BY <1>1, <1>2 DEF Acquire, Observe, ObserveFails, See
<1>3. CASE Crash(d)
  BY <1>1, <1>3 DEF Crash
<1>4. CASE DaemonStep(d)
  <2>1. daemon'[e] = daemon[e]
    BY <1>1, <1>4
    DEF DaemonStep, Release, Claim, MarkUntouched, Trust, Refuse, Project, Continue,
        ContinueRefused, MarkContinued, CommandReturns, Consume, Mark, Start, GoTo, GoOn
  <2>2. cmd'[e] = cmd[e]
    BY <1>1, <1>4
    DEF DaemonStep, Release, Claim, MarkUntouched, Trust, Refuse, Project, Continue,
        ContinueRefused, MarkContinued, CommandReturns, Consume, Start
  <2> QED
    BY <2>1, <2>2
<1> QED
  BY <1>2, <1>3, <1>4 DEF ArmActs

\* Whatever is not a step of an arm or a command leaves both alone.
LEMMA Kinds ==
    ASSUME [Next]_vars
    PROVE  \/ \E d \in Daemons : ArmActs(d)
           \/ \E c \in Callers : CommandStep(c) \/ CommandFails(c)
           \/ \E o \in Orphans : OrphanEnds(o)
           \/ UNCHANGED <<daemon, cmd>>
  BY DEF Next, vars, Callers, ArmActs, PersonRetags, PersonReturns, PullRequestChanges,
         RunSucceeds, RunFails, Associate, WorkerDies, ClaimExpires

LEMMA CommandsKeepArms ==
    ASSUME TypeInv, NEW c \in Callers, CommandStep(c) \/ CommandFails(c) \/ (c \in Orphans /\ OrphanEnds(c))
    PROVE  /\ UNCHANGED <<daemon, event>> /\ \A o \in Callers : o # c => cmd'[o] = cmd[o]
           /\ c \in Daemons => cmd[c].stage # "none"
<1>1. cmd \in [Callers -> Commands] /\ (c \in Daemons => c \notin Orphans)
  BY TypeParts, Names DEF CommandTypes
<1>2. CASE CommandFails(c) \/ (c \in Orphans /\ OrphanEnds(c))
  BY <1>1, <1>2 DEF CommandFails, OrphanEnds, Running, Becomes, ledger
<1>3. CASE CommandStep(c)
  BY <1>1, <1>3
  DEF CommandStep, CommandReads, CommandRoutes, CommandFinishes, CommandCompletes,
      CommandReleases, CommandDecides, Becomes, ledger
<1> QED
  BY <1>2, <1>3

\* What an arm does to itself and its command.
LEMMA ArmItself ==
    ASSUME TypeInv, ArmsWait, NEW d \in Daemons, ArmActs(d)
    PROVE  /\ daemon'[d].stage # "idle" => daemon[d].stage # "idle" \/ LockFree
           /\ \/ cmd'[d].stage = "none"
              \/ cmd'[d].stage = "reading" /\ daemon'[d].stage = "asana"
<1>1. /\ daemon \in [Daemons -> Arms] /\ cmd \in [Callers -> Commands]
      /\ d \in Callers /\ d \notin Orphans /\ daemon[d] \in Arms
      /\ daemon[d].stage # "asana" => cmd[d].stage = "none"
  BY TypeParts, Names DEF ArmTypes, CommandTypes, ArmsWait
<1>2. NoCommand.stage = "none" /\ Idle.stage = "idle"
  BY DEF NoCommand, Idle
<1>3. CASE Acquire(d) \/ \E t \in Tickets : Observe(d, t) \/ ObserveFails(d, t)
  BY <1>1, <1>3 DEF Acquire, Observe, ObserveFails, See
<1>4. CASE Crash(d)
  <2>1. cmd'[d] = NoCommand /\ daemon'[d] = Idle
    BY <1>1, <1>4 DEF Crash
  <2> QED
    BY <1>2, <2>1
<1>5. CASE DaemonStep(d)
  <2>1. daemon[d].stage # "idle"
    BY <1>5
    DEF DaemonStep, Release, Claim, MarkUntouched, Trust, Refuse, Project, Continue,
        ContinueRefused, MarkContinued, CommandReturns, Consume
  <2>2. ASSUME NEW outcome, Start(d, outcome)
        PROVE  cmd'[d].stage = "reading" /\ daemon'[d].stage = "asana"
    <3>1. daemon'[d] = [daemon[d] EXCEPT !.stage = "asana"]
      BY <1>1, <2>2 DEF Start, GoTo
    <3>2. cmd'[d] = [NoCommand EXCEPT !.stage = "reading", !.ticket = daemon[d].ticket,
                                      !.outcome = outcome]
      BY <1>1, <2>2 DEF Start
    <3>3. daemon'[d].stage = "asana"
      BY <1>1, <3>1 DEF Arms
    <3>4. cmd'[d].stage = "reading"
      BY <3>2 DEF NoCommand
    <3> QED
      BY <3>3, <3>4
  <2>3. CASE CommandReturns(d)
    BY <1>1, <1>2, <2>1, <2>3 DEF CommandReturns
  <2>4. CASE UNCHANGED cmd /\ daemon[d].stage # "asana"
    BY <1>1, <2>1, <2>4
  <2> QED
    BY <1>5, <2>1, <2>2, <2>3, <2>4
    DEF DaemonStep, Release, Claim, MarkUntouched, Trust, Refuse, Project, Continue,
        ContinueRefused, MarkContinued, Consume
<1> QED
  BY <1>3, <1>4, <1>5 DEF ArmActs

LEMMA OneArmStep == TypeInv /\ OneArm /\ ArmsWait /\ [Next]_vars => OneArm' /\ ArmsWait'
<1> SUFFICES ASSUME TypeInv, OneArm, ArmsWait, [Next]_vars PROVE OneArm' /\ ArmsWait'
  OBVIOUS
<1>1. ASSUME NEW d \in Daemons, ArmActs(d) PROVE OneArm' /\ ArmsWait'
  <2>1. \A e \in Daemons : e # d => daemon'[e] = daemon[e] /\ cmd'[e] = cmd[e]
    BY <1>1, OthersWait
  <2>2. daemon'[d].stage # "idle" => \A e \in Daemons : e # d => daemon'[e].stage = "idle"
    BY <1>1, <2>1, ArmItself DEF OneArm, LockFree
  <2>3. cmd'[d].stage # "none" => daemon'[d].stage = "asana"
    BY <1>1, ArmItself
  <2>4. OneArm'
    BY <2>1, <2>2 DEF OneArm
  <2>5. ArmsWait'
    BY <2>1, <2>3 DEF ArmsWait
  <2> QED
    BY <2>4, <2>5
<1>2. ASSUME NEW c \in Callers, CommandStep(c) \/ CommandFails(c) \/ (c \in Orphans /\ OrphanEnds(c))
      PROVE  OneArm' /\ ArmsWait'
  <2>1. /\ daemon' = daemon
        /\ \A d \in Daemons : cmd'[d].stage # "none" => cmd[d].stage # "none"
    BY <1>2, CommandsKeepArms, Names
  <2> QED
    BY <2>1 DEF OneArm, ArmsWait
<1>3. CASE UNCHANGED <<daemon, cmd>>
  BY <1>3 DEF OneArm, ArmsWait
<1> QED
  BY <1>1, <1>2, <1>3, Kinds, Names

\* A step of a command keeps what the command is for.
LEMMA CommandsKeepTargets ==
    ASSUME TypeInv, NEW c \in Callers, CommandStep(c)
    PROVE  cmd'[c].ticket = cmd[c].ticket /\ cmd'[c].outcome = cmd[c].outcome
<1>1. cmd \in [Callers -> Commands] /\ cmd[c] \in Commands
  BY TypeParts DEF CommandTypes
<1>2. ASSUME NEW x, cmd' = [cmd EXCEPT ![c] = x], x.ticket = cmd[c].ticket, x.outcome = cmd[c].outcome
      PROVE  cmd'[c].ticket = cmd[c].ticket /\ cmd'[c].outcome = cmd[c].outcome
  BY <1>1, <1>2
<1>3. ASSUME NEW s, Becomes(c, s)
      PROVE  cmd'[c].ticket = cmd[c].ticket /\ cmd'[c].outcome = cmd[c].outcome
  BY <1>1, <1>3 DEF Becomes, Commands
<1>4. ASSUME NEW i, NEW s, cmd' = [cmd EXCEPT ![c].inDone = i, ![c].stage = s]
      PROVE  cmd'[c].ticket = cmd[c].ticket /\ cmd'[c].outcome = cmd[c].outcome
  BY <1>1, <1>4 DEF Commands
<1>5. ASSUME NEW r, NEW s, cmd' = [cmd EXCEPT ![c].routes = r, ![c].stage = s]
      PROVE  cmd'[c].ticket = cmd[c].ticket /\ cmd'[c].outcome = cmd[c].outcome
  BY <1>1, <1>5 DEF Commands
<1>6. ASSUME NEW r, cmd' = [cmd EXCEPT ![c].routes = r]
      PROVE  cmd'[c].ticket = cmd[c].ticket /\ cmd'[c].outcome = cmd[c].outcome
  BY <1>1, <1>6 DEF Commands
<1>7. CASE CommandReads(c)
  BY <1>3, <1>4, <1>7 DEF CommandReads
<1>8. CASE CommandRoutes(c)
  BY <1>5, <1>8 DEF CommandRoutes
<1>9. CASE CommandFinishes(c) \/ CommandCompletes(c) \/ CommandDecides(c)
  BY <1>3, <1>9 DEF CommandFinishes, CommandCompletes, CommandDecides
<1>10. CASE CommandReleases(c)
  <2>1. CASE Becomes(c, "ok")
    BY <1>3, <2>1
  <2>2. CASE \E r \in cmd[c].routes : cmd' = [cmd EXCEPT ![c].routes = @ \ {r}]
    <3>1. PICK r \in cmd[c].routes : cmd' = [cmd EXCEPT ![c].routes = cmd[c].routes \ {r}]
      BY <1>1, <2>2
    <3> QED
      BY <1>6, <3>1
  <2> QED
    BY <1>10, <2>1, <2>2 DEF CommandReleases
<1> QED
  BY <1>7, <1>8, <1>9, <1>10 DEF CommandStep

--------------------------------------------------------------------------------
\* What daemons and commands have in hand.

\* A merge that a daemon has seen, or a command projects, is still there: nobody
\* takes a merge back.
SeenMerges ==
    \A d \in Daemons : daemon[d].ticket \in Tickets /\ daemon[d].seen.state = "merged" =>
        pr[daemon[d].ticket].state = "merged"

ProjectedMerges ==
    \A c \in Callers :
        /\ cmd[c].stage # "none" /\ cmd[c].outcome = "merged" => pr[cmd[c].ticket].state = "merged"
        /\ cmd[c].stage \in {"routing", "finishing", "completing"} => cmd[c].outcome = "merged"

\* The event a daemon works on stays as the daemon left it.
HeldEvents ==
    \A d \in Daemons :
        /\ daemon[d].stage \in {"claimed", "trusted", "continued", "asana"} =>
              event[daemon[d].ticket][daemon[d].seen] = "claimed"
        /\ daemon[d].stage = "marked" => event[daemon[d].ticket][daemon[d].seen] = "asana_applied"

WorkInv == SeenMerges /\ ProjectedMerges /\ HeldEvents

LEMMA WorkInit == Init => WorkInv
<1> SUFFICES ASSUME Init PROVE WorkInv
  OBVIOUS
<1>1. /\ \A d \in Daemons : daemon[d] = Idle
      /\ \A c \in Callers : cmd[c] = NoCommand
  BY DEF Init, Callers
<1>2. Idle.stage = "idle" /\ Idle.ticket \notin Tickets /\ NoCommand.stage = "none"
  BY Names DEF Idle, NoCommand
<1> QED
  BY <1>1, <1>2 DEF WorkInv, SeenMerges, ProjectedMerges, HeldEvents

\* A merge is for ever; only people change what a pull request is.
LEMMA MergesStay ==
    ASSUME TypeInv, [Next]_vars
    PROVE  /\ \A t \in Tickets : pr[t].state = "merged" => pr'[t].state = "merged"
           /\ UNCHANGED pr \/ \E t \in Tickets : PullRequestChanges(t)
<1>1. pr \in [Tickets -> Observations]
  BY TypeParts DEF ProviderTypes
<1>2. UNCHANGED pr \/ \E t \in Tickets : PullRequestChanges(t)
  BY DEF Next, vars, provider, PersonRetags, PersonReturns, Acquire, RunSucceeds,
      RunFails, Associate, WorkerDies, ClaimExpires, Observe, ObserveFails, See, Crash,
      CommandFails, OrphanEnds, DaemonStep, Release, Claim, MarkUntouched, Trust, Refuse,
      Project, Continue, ContinueRefused, MarkContinued, CommandReturns, Consume, CommandStep,
      CommandReads, CommandRoutes, CommandFinishes, CommandCompletes, CommandReleases,
      CommandDecides
<1>3. ASSUME NEW t \in Tickets, PullRequestChanges(t), NEW u \in Tickets, pr[u].state = "merged"
      PROVE  pr'[u].state = "merged"
  <2>1. CASE pr[t].state # "merged"
    BY <1>1, <1>3, <2>1 DEF PullRequestChanges
  <2>2. CASE \E a \in BOOLEAN : pr' = [pr EXCEPT ![t].rev = @ + 1, ![t].attention = a]
    <3>1. PICK a \in BOOLEAN : pr' = [pr EXCEPT ![t].rev = @ + 1, ![t].attention = a]
      BY <2>2
    <3>2. pr'[u].state = pr[u].state
      BY <1>1, <3>1 DEF Observations
    <3> QED
      BY <1>3, <3>2
  <2> QED
    BY <1>3, <2>1, <2>2 DEF PullRequestChanges
<1> QED
  BY <1>2, <1>3

\* Whatever a daemon comes to look at, it has read.
LEMMA SeenMergesStep == TypeInv /\ SeenMerges /\ [Next]_vars => SeenMerges'
<1> SUFFICES ASSUME TypeInv, SeenMerges, [Next]_vars, NEW e \in Daemons,
                    daemon'[e].ticket \in Tickets, daemon'[e].seen.state = "merged"
             PROVE  pr'[daemon'[e].ticket].state = "merged"
  BY DEF SeenMerges
<1>1. daemon \in [Daemons -> Arms]
  BY TypeParts DEF ArmTypes
<1>2. ASSUME daemon'[e].ticket = daemon[e].ticket, daemon'[e].seen = daemon[e].seen
      PROVE  pr'[daemon'[e].ticket].state = "merged"
  BY <1>2, MergesStay DEF SeenMerges
<1>3. ASSUME NEW d \in Daemons, NEW a, daemon' = [daemon EXCEPT ![d] = a],
             \/ a.ticket = daemon[d].ticket /\ a.seen = daemon[d].seen
             \/ a.ticket \notin Tickets
      PROVE  pr'[daemon'[e].ticket].state = "merged"
  BY <1>1, <1>2, <1>3
<1>4. ASSUME NEW d \in Daemons, NEW s, GoTo(d, s)
      PROVE  pr'[daemon'[e].ticket].state = "merged"
  BY <1>1, <1>2, <1>4 DEF GoTo, Arms
<1>5. /\ Idle.ticket \notin Tickets
      /\ \A todo : [Idle EXCEPT !.stage = "next", !.todo = todo].ticket \notin Tickets
  BY Names DEF Idle
<1>6. ASSUME NEW d \in Daemons, GoOn(d)
      PROVE  pr'[daemon'[e].ticket].state = "merged"
  BY <1>3, <1>5, <1>6 DEF GoOn
<1>7. ASSUME NEW d \in Daemons, DaemonStep(d)
      PROVE  pr'[daemon'[e].ticket].state = "merged"
  <2>1. \/ GoOn(d) \/ daemon' = [daemon EXCEPT ![d] = Idle]
        \/ \E s \in {"claimed", "trusted", "continued", "asana", "marked"} : GoTo(d, s)
    BY <1>7
    DEF DaemonStep, Release, Claim, MarkUntouched, Trust, Refuse, Project, Continue,
        ContinueRefused, MarkContinued, CommandReturns, Consume, Mark, Start, GoTo
  <2> QED
    BY <1>3, <1>4, <1>5, <1>6, <2>1
<1>8. ASSUME NEW d \in Daemons, Acquire(d) \/ Crash(d)
      PROVE  pr'[daemon'[e].ticket].state = "merged"
  <2>1. CASE Acquire(d)
    <3>1. daemon'[e].ticket = daemon[e].ticket /\ daemon'[e].seen = daemon[e].seen
      BY <1>1, <2>1 DEF Acquire, Arms
    <3> QED
      BY <1>2, <3>1
  <2>2. CASE Crash(d)
    BY <1>3, <1>5, <2>2 DEF Crash
  <2> QED
    BY <1>8, <2>1, <2>2
<1>9. ASSUME NEW d \in Daemons, NEW t \in Tickets, NEW f, See(d, t, f),
             f.state = "merged" => f = pr[t]
      PROVE  pr'[daemon'[e].ticket].state = "merged"
  <2>1. CASE d = e
    <3>1. daemon'[e].ticket = t /\ daemon'[e].seen = f
      BY <1>1, <1>9, <2>1 DEF See
    <3> QED
      BY <1>9, <3>1, MergesStay
  <2>2. CASE d # e
    BY <1>1, <1>2, <1>9, <2>2 DEF See
  <2> QED
    BY <2>1, <2>2
<1>10. ASSUME NEW d \in Daemons, NEW t \in Tickets, Observe(d, t) \/ ObserveFails(d, t)
       PROVE  pr'[daemon'[e].ticket].state = "merged"
  BY <1>9, <1>10, Names DEF Observe, ObserveFails
<1>11. ASSUME NEW c \in Callers, CommandStep(c) \/ CommandFails(c) \/ (c \in Orphans /\ OrphanEnds(c))
       PROVE  daemon' = daemon
  BY <1>11, CommandsKeepArms
<1> QED
  BY <1>2, <1>7, <1>8, <1>10, <1>11, Kinds, Names DEF ArmActs

\* A command is started for what its daemon has seen.
LEMMA ProjectedMergesStep ==
    TypeInv /\ SeenMerges /\ ProjectedMerges /\ [Next]_vars => ProjectedMerges'
<1> SUFFICES ASSUME TypeInv, SeenMerges, ProjectedMerges, [Next]_vars PROVE ProjectedMerges'
  OBVIOUS
<1> DEFINE Good(x) ==
             /\ x.stage # "none" /\ x.outcome = "merged" => pr'[x.ticket].state = "merged"
             /\ x.stage \in {"routing", "finishing", "completing"} => x.outcome = "merged"
<1>1. CommandTypes /\ ArmTypes
  BY TypeParts
<1>2. ASSUME NEW c \in Callers PROVE Good(cmd[c])
  BY <1>1, MergesStay DEF ProjectedMerges, CommandTypes, Targets
<1>3. Good(NoCommand)
  BY DEF NoCommand
<1>4. (\A c \in Callers : Good(cmd'[c])) => ProjectedMerges'
  BY DEF ProjectedMerges
<1>5. ASSUME NEW c \in Callers, \A o \in Callers \ {c} : cmd'[o] = cmd[o], Good(cmd'[c])
      PROVE  ProjectedMerges'
  BY <1>2, <1>4, <1>5
<1>6. CASE UNCHANGED cmd
  BY <1>2, <1>4, <1>6
<1> HIDE DEF Good
<1>7. ASSUME NEW c \in Callers, NEW x, cmd' = [cmd EXCEPT ![c] = x], Good(x)
      PROVE  ProjectedMerges'
  BY <1>1, <1>5, <1>7 DEF CommandTypes
<1>8. ASSUME NEW d \in Daemons, NEW outcome, Start(d, outcome), daemon[d].stage \notin {"idle", "next"},
             outcome = "merged" => daemon[d].seen.state = "merged"
      PROVE  ProjectedMerges'
  <2> DEFINE x == [NoCommand EXCEPT !.stage = "reading", !.ticket = daemon[d].ticket,
                                    !.outcome = outcome]
  <2>1. x.stage = "reading" /\ x.ticket = daemon[d].ticket /\ x.outcome = outcome
    BY DEF NoCommand
  <2>2. daemon[d].ticket \in Tickets
    BY <1>1, <1>8 DEF ArmTypes, Arms
  <2>3. outcome = "merged" => pr'[daemon[d].ticket].state = "merged"
    BY <1>8, <2>2, MergesStay DEF SeenMerges
  <2>4. cmd' = [cmd EXCEPT ![d] = x]
    BY <1>8 DEF Start
  <2> HIDE DEF x
  <2>5. Good(x)
    BY <2>1, <2>3 DEF Good
  <2> QED
    BY <1>7, <2>4, <2>5, Names
<1>9. ASSUME NEW d \in Daemons, DaemonStep(d)
      PROVE  ProjectedMerges'
  <2>1. CASE Refuse(d) \/ Project(d) \/ ContinueRefused(d)
    BY <1>6, <1>8, <2>1 DEF Refuse, Project, ContinueRefused
  <2>2. CASE CommandReturns(d)
    BY <1>3, <1>7, <2>2, Names DEF CommandReturns
  <2> QED
    BY <1>6, <1>9, <2>1, <2>2
    DEF DaemonStep, Release, Claim, MarkUntouched, Trust, Continue, MarkContinued, Consume
<1>10. ASSUME NEW d \in Daemons, Crash(d)
       PROVE  ProjectedMerges'
  <2>1. ASSUME NEW o \in Orphans, cmd' = [cmd EXCEPT ![d] = NoCommand, ![o] = cmd[d]],
               NEW c \in Callers
        PROVE  cmd'[c] \in {NoCommand, cmd[d], cmd[c]}
    BY <1>1, <2>1, Names DEF CommandTypes
  <2>2. CASE \E o \in Orphans : cmd' = [cmd EXCEPT ![d] = NoCommand, ![o] = cmd[d]]
    BY <1>2, <1>3, <1>4, <2>1, <2>2, Names
  <2> QED
    BY <1>3, <1>7, <1>10, <2>2, Names DEF Crash
<1>11. ASSUME NEW o \in Orphans, OrphanEnds(o)
       PROVE  ProjectedMerges'
  BY <1>3, <1>7, <1>11, Names DEF OrphanEnds
<1>12. ASSUME NEW c \in Callers, NEW x, cmd'[c] = x, \A o \in Callers \ {c} : cmd'[o] = cmd[o],
              cmd[c].stage # "none", x.ticket = cmd[c].ticket, x.outcome = cmd[c].outcome,
              x.stage \in {"routing", "finishing", "completing"} => cmd[c].outcome = "merged"
       PROVE  ProjectedMerges'
  BY <1>2, <1>5, <1>12 DEF Good
<1>13. ASSUME NEW c \in Callers, CommandFails(c)
       PROVE  ProjectedMerges'
  <2>1. /\ cmd[c].stage # "none" /\ cmd'[c].stage = "failed"
        /\ cmd'[c].ticket = cmd[c].ticket /\ cmd'[c].outcome = cmd[c].outcome
        /\ \A o \in Callers \ {c} : cmd'[o] = cmd[o]
    BY <1>1, <1>13 DEF CommandTypes, Commands, CommandFails, Running, Becomes
  <2> QED
    BY <1>12, <2>1
<1>14. ASSUME NEW c \in Callers, CommandStep(c)
       PROVE  ProjectedMerges'
  <2>1. /\ cmd'[c].ticket = cmd[c].ticket /\ cmd'[c].outcome = cmd[c].outcome
        /\ \A o \in Callers \ {c} : cmd'[o] = cmd[o]
        /\ cmd[c].stage # "none"
    BY <1>14, CommandsKeepTargets, CommandsKeepArms
    DEF CommandStep, CommandReads, CommandRoutes, CommandFinishes, CommandCompletes,
        CommandReleases, CommandDecides
  <2>2. cmd \in [Callers -> Commands] /\ cmd[c] \in Commands
    BY <1>1 DEF CommandTypes
  <2>3. cmd'[c].stage \in {"routing", "finishing", "completing"} => cmd[c].outcome = "merged"
    <3>1. CASE CommandReads(c) /\ ~(cmd[c].outcome = "merged")
      BY <2>2, <3>1 DEF CommandReads, Becomes, Commands
    <3>2. CASE CommandRoutes(c) \/ CommandFinishes(c)
      BY <3>2 DEF CommandRoutes, CommandFinishes, ProjectedMerges
    <3>3. CASE CommandCompletes(c) \/ CommandDecides(c)
      BY <2>2, <3>3 DEF CommandCompletes, CommandDecides, Becomes, Commands
    <3>4. CASE CommandReleases(c)
      <4>1. cmd'[c].stage \in {"releasing", "ok"}
        BY <2>2, <3>4 DEF CommandReleases, Becomes, Commands
      <4> QED
        BY <4>1
    <3> QED
      BY <1>14, <3>1, <3>2, <3>3, <3>4 DEF CommandStep
  <2> QED
    BY <1>12, <2>1, <2>3
<1>15. ASSUME NEW d \in Daemons, Acquire(d) \/ \E t \in Tickets : Observe(d, t) \/ ObserveFails(d, t)
       PROVE  UNCHANGED cmd
  BY <1>15 DEF Acquire, Observe, ObserveFails, See
<1> QED
  BY <1>6, <1>9, <1>10, <1>11, <1>13, <1>14, <1>15, Kinds DEF ArmActs

\* A lapsed lease takes no event from a daemon at work, and the lock admits no other.
LEMMA HeldEventsStep ==
    TypeInv /\ OneArm /\ ArmsWait /\ HeldEvents /\ [Next]_vars => HeldEvents'
<1> SUFFICES ASSUME TypeInv, OneArm, ArmsWait, HeldEvents, [Next]_vars PROVE HeldEvents'
  OBVIOUS
<1> DEFINE Working == {"claimed", "trusted", "continued", "asana"}
           Held(e) ==
             /\ daemon'[e].stage \in Working => event'[daemon'[e].ticket][daemon'[e].seen] = "claimed"
             /\ daemon'[e].stage = "marked" => event'[daemon'[e].ticket][daemon'[e].seen] = "asana_applied"
<1>1. /\ daemon \in [Daemons -> Arms] /\ event \in [Tickets -> [Fingerprints -> EventStates]]
      /\ \A d \in Daemons : daemon[d].stage \notin {"idle", "next"} =>
           daemon[d].ticket \in Tickets /\ daemon[d].seen \in Fingerprints
  BY TypeParts DEF ArmTypes, LedgerTypes, Arms
<1>2. (\A e \in Daemons : Held(e)) => HeldEvents'
  BY DEF HeldEvents
<1>3. ASSUME NEW e \in Daemons, daemon'[e] = daemon[e], event' = event PROVE Held(e)
  BY <1>3 DEF HeldEvents
<1>4. ASSUME NEW e \in Daemons, daemon'[e].stage \notin Working \cup {"marked"} PROVE Held(e)
  BY <1>4
<1>5. ASSUME NEW e \in Daemons, daemon[e].stage \notin {"idle", "next"}, NEW s, NEW x,
             SetEvent(daemon[e].ticket, daemon[e].seen, x), GoTo(e, s),
             \/ s = "claimed" /\ x = "claimed"
             \/ s = "marked" /\ x = "asana_applied"
      PROVE  Held(e)
  <2>1. daemon'[e].stage = s /\ daemon'[e].ticket = daemon[e].ticket /\ daemon'[e].seen = daemon[e].seen
    BY <1>1, <1>5 DEF GoTo, Arms
  <2>2. event'[daemon[e].ticket][daemon[e].seen] = x
    BY <1>1, <1>5 DEF SetEvent
  <2> QED
    BY <1>5, <2>1, <2>2
<1>6. ASSUME NEW e \in Daemons, NEW s, GoTo(e, s), event' = event, daemon[e].stage \in Working,
             s \in Working
      PROVE  Held(e)
  <2>1. daemon'[e].stage = s /\ daemon'[e].ticket = daemon[e].ticket /\ daemon'[e].seen = daemon[e].seen
    BY <1>1, <1>6 DEF GoTo, Arms
  <2> QED
    BY <1>6, <2>1 DEF HeldEvents
<1>7. ASSUME NEW e \in Daemons, GoOn(e) \/ daemon' = [daemon EXCEPT ![e] = Idle]
      PROVE  Held(e)
  <2>1. /\ Idle.stage = "idle"
        /\ \A w : [Idle EXCEPT !.stage = "next", !.todo = w].stage = "next"
    BY DEF Idle
  <2>2. daemon'[e].stage \in {"idle", "next"}
    BY <1>1, <1>7, <2>1 DEF GoOn
  <2> QED
    BY <1>4, <2>2
<1> HIDE DEF Held
<1>8. ASSUME NEW e \in Daemons, Mark(e), daemon[e].stage \in Working PROVE Held(e)
  <2>1. SetEvent(daemon[e].ticket, daemon[e].seen, "asana_applied") /\ GoTo(e, "marked")
    BY <1>8 DEF Mark, HeldEvents
  <2> QED
    BY <1>5, <1>8, <2>1
<1>9. ASSUME NEW e \in Daemons, DaemonStep(e) PROVE Held(e)
  <2>1. CASE Release(e) \/ Consume(e)
    BY <1>7, <2>1 DEF Release, Consume
  <2>2. CASE Claim(e)
    BY <1>5, <1>7, <2>2 DEF Claim
  <2>3. CASE MarkUntouched(e) \/ MarkContinued(e)
    BY <1>8, <2>3 DEF MarkUntouched, MarkContinued
  <2>4. CASE Trust(e) \/ Refuse(e) \/ Project(e) \/ ContinueRefused(e)
    BY <1>6, <2>4 DEF Trust, Refuse, Project, ContinueRefused, Start, ledger
  <2>5. CASE Continue(e)
    BY <1>6, <2>5 DEF Continue, GoTo
  <2>6. CASE CommandReturns(e)
    BY <1>7, <1>8, <2>6 DEF CommandReturns
  <2> QED
    BY <1>9, <2>1, <2>2, <2>3, <2>4, <2>5, <2>6 DEF DaemonStep
<1>10. ASSUME NEW e \in Daemons, Acquire(e) \/ Crash(e) \/ \E t \in Tickets : Observe(e, t) \/ ObserveFails(e, t)
       PROVE  Held(e)
  <2>1. CASE Acquire(e)
    <3>1. daemon'[e].stage = "next"
      BY <1>1, <2>1 DEF Acquire, Arms
    <3> QED
      BY <1>4, <3>1
  <2>2. CASE \E t \in Tickets : Observe(e, t) \/ ObserveFails(e, t)
    <3>1. daemon'[e].stage = "seen"
      BY <1>1, <2>2 DEF Observe, ObserveFails, See
    <3> QED
      BY <1>4, <3>1
  <2> QED
    BY <1>7, <1>10, <2>1, <2>2 DEF Crash
<1>11. ASSUME NEW d \in Daemons, ArmActs(d), NEW e \in Daemons PROVE Held(e)
  <2>1. CASE d = e
    BY <1>9, <1>10, <1>11, <2>1 DEF ArmActs
  <2>2. CASE d # e
    <3>1. daemon'[e] = daemon[e]
      BY <1>11, <2>2, OthersWait
    <3>2. Acquire(d) => event' = event
      BY DEF Acquire, ledger
    <3>3. ~Acquire(d) => daemon[d].stage # "idle"
      BY <1>11
      DEF ArmActs, Crash, Observe, ObserveFails, See, DaemonStep, Release, Claim, MarkUntouched,
          Trust, Refuse, Project, Continue, ContinueRefused, MarkContinued, CommandReturns, Consume
    <3>4. ~Acquire(d) => daemon'[e].stage = "idle"
      BY <2>2, <3>1, <3>3 DEF OneArm
    <3> QED
      BY <1>3, <1>4, <3>1, <3>2, <3>4
  <2> QED
    BY <2>1, <2>2
<1>12. ASSUME NEW t \in Tickets, NEW f \in Fingerprints, ClaimExpires(t, f), NEW e \in Daemons
       PROVE  Held(e)
  <2>1. daemon' = daemon
    BY <1>12 DEF ClaimExpires
  <2>2. CASE daemon[e].stage \in Working \cup {"marked"}
    <3>1. <<daemon[e].ticket, daemon[e].seen>> # <<t, f>>
      BY <1>12, <2>2 DEF ClaimExpires
    <3>2. daemon[e].ticket \in Tickets /\ daemon[e].seen \in Fingerprints
      BY <1>1, <2>2
    <3>3. event' = [event EXCEPT ![t][f] = "expired"]
      BY <1>12 DEF ClaimExpires, SetEvent
    <3>4. event'[daemon[e].ticket][daemon[e].seen] = event[daemon[e].ticket][daemon[e].seen]
      BY <1>1, <3>1, <3>2, <3>3
    <3> QED
      BY <2>1, <3>4 DEF HeldEvents, Held
  <2>3. CASE daemon[e].stage \notin Working \cup {"marked"}
    BY <1>4, <2>1, <2>3
  <2> QED
    BY <2>2, <2>3
<1>13. ASSUME NEW c \in Callers, CommandStep(c) \/ CommandFails(c) \/ (c \in Orphans /\ OrphanEnds(c))
       PROVE  UNCHANGED <<daemon, event>>
  BY <1>13, CommandsKeepArms
<1>14. ASSUME NEW e \in Daemons, UNCHANGED <<daemon, event>> PROVE Held(e)
  BY <1>3, <1>14
<1>15. \/ \E d \in Daemons : ArmActs(d)
       \/ \E t \in Tickets, f \in Fingerprints : ClaimExpires(t, f)
       \/ UNCHANGED <<daemon, event>>
  <2>1. \A o \in Orphans : OrphanEnds(o) => UNCHANGED <<daemon, event>>
    BY <1>13, Names
  <2> QED
    BY <1>13, <2>1
    DEF Next, vars, ledger, Callers, ArmActs, PersonRetags, PersonReturns, PullRequestChanges,
        RunSucceeds, RunFails, Associate, WorkerDies
<1> QED
  BY <1>2, <1>11, <1>12, <1>14, <1>15

ArmInv == OneArm /\ ArmsWait /\ WorkInv

LEMMA ArmInit == Init => ArmInv
<1> SUFFICES ASSUME Init PROVE ArmInv
  OBVIOUS
<1>1. \A d \in Daemons : daemon[d] = Idle /\ cmd[d] = NoCommand
  BY DEF Init
<1> QED
  BY <1>1, WorkInit DEF ArmInv, OneArm, ArmsWait, Idle, NoCommand

LEMMA ArmNext == TypeInv /\ ArmInv /\ [Next]_vars => ArmInv'
  BY OneArmStep, SeenMergesStep, ProjectedMergesStep, HeldEventsStep DEF ArmInv, WorkInv

--------------------------------------------------------------------------------
\* The last merge releases.

\* Tasks whose policy nobody has touched, and merges that the ledger takes for
\* projected.
Plain(t) == t \notin retagged /\ lane[t] = "autonomous"

Projected(t) ==
    \E f \in Observations : f.state = "merged" /\ event[t][f] \in {"asana_applied", "consumed"}

\* A follower that the merges of its dependencies are to release.
Expects(t) ==
    /\ Plain(t) /\ Blockers[t] # {} /\ t \notin overtaken
    /\ \A u \in Blockers[t] : u \in Tickets /\ Plain(u)

\* All its dependencies but one are projected.
Rest(t, u) == \A o \in Blockers[t] \ {u} : Projected(o)

Free(t) == section[t] # "Waiting"

\* The command of the last merge decides about the follower when it reads its
\* routes; from then on the follower is free or on its way.
CommandReleasesLast(t) ==
    \A d \in Daemons :
        cmd[d].outcome = "merged" /\ cmd[d].ticket \in Blockers[t] /\ Rest(t, cmd[d].ticket) =>
            /\ cmd[d].stage \in {"finishing", "completing", "releasing"} =>
                  Free(t) \/ <<t, "Ready">> \in cmd[d].routes
            /\ cmd[d].stage \in {"deciding", "ok"} => Free(t)

DaemonReleasesLast(t) ==
    \A d \in Daemons :
        /\ daemon[d].stage = "marked" /\ daemon[d].seen.state = "merged"
        /\ daemon[d].ticket \in Blockers[t] /\ Rest(t, daemon[d].ticket)
        => Free(t)

LastReleases ==
    \A t \in Followers : Expects(t) =>
        /\ (\A u \in Blockers[t] : Projected(u)) => Free(t)
        /\ CommandReleasesLast(t) /\ DaemonReleasesLast(t)

\* Nobody merges a direct dependency of such a follower while an indirect one is open.
IndirectFirst ==
    \A t \in Followers \ overtaken : AnyMerged(Blockers[t]) => Indirect(t) \subseteq completed

LastInv == IndirectFirst /\ LastReleases

LEMMA IndirectFirstStep ==
    ASSUME TypeInv, IndirectFirst, [Next]_vars
    PROVE  IndirectFirst' /\ overtaken \subseteq overtaken'
<1>1. completed \subseteq completed'
  BY SettledStays
<1>2. ASSUME NEW t \in Tickets, PullRequestChanges(t)
      PROVE  IndirectFirst' /\ overtaken \subseteq overtaken'
  <2>1. /\ UNCHANGED completed
        /\ overtaken' = overtaken \cup
             {f \in Followers : AnyMerged(Blockers[f])' /\ ~(Indirect(f) \subseteq completed)}
    BY <1>2 DEF PullRequestChanges, asana
  <2> QED
    BY <2>1 DEF IndirectFirst, Indirect
<1>3. UNCHANGED provider => IndirectFirst' /\ overtaken \subseteq overtaken'
  BY <1>1 DEF provider, IndirectFirst, Indirect, AnyMerged
<1>4. UNCHANGED provider \/ \E t \in Tickets : PullRequestChanges(t)
  BY DEF Next, vars, PersonRetags, PersonReturns, Acquire, RunSucceeds,
      RunFails, Associate, WorkerDies, ClaimExpires, Observe, ObserveFails, See, Crash,
      CommandFails, OrphanEnds, DaemonStep, Release, Claim, MarkUntouched, Trust, Refuse,
      Project, Continue, ContinueRefused, MarkContinued, CommandReturns, Consume, CommandStep,
      CommandReads, CommandRoutes, CommandFinishes, CommandCompletes, CommandReleases,
      CommandDecides
<1> QED
  BY <1>2, <1>3, <1>4

\* Nobody makes a free follower wait, and no tag is put back.
LEMMA FreeStays ==
    ASSUME TypeInv, [Next]_vars, NEW t \in Tasks
    PROVE  (Free(t) => Free(t)') /\ (Plain(t)' => Plain(t))
<1>1. AsanaTypes /\ CommandTypes
  BY TypeParts
<1>2. UNCHANGED section => (Free(t) => Free(t)')
  BY DEF Free
<1>3. ASSUME NEW c \in Callers, CommandStep(c)
      PROVE  Free(t) => Free(t)'
  <2>1. cmd[c].routes \subseteq Routes
    BY <1>1 DEF CommandTypes, Commands
  <2>2. CASE CommandReleases(c)
    BY <1>1, <2>1, <2>2 DEF AsanaTypes, CommandReleases, Routes, Free
  <2>3. CASE CommandFinishes(c) \/ CommandDecides(c)
    BY <1>1, <2>3 DEF AsanaTypes, CommandFinishes, CommandDecides, Free
  <2> QED
    BY <1>2, <1>3, <2>2, <2>3 DEF CommandStep, CommandReads, CommandRoutes, CommandCompletes, asana
<1>4. ASSUME NEW u \in Tasks, PersonReturns(u)
      PROVE  Free(t) => Free(t)'
  BY <1>1, <1>4 DEF AsanaTypes, PersonReturns, Free
<1>5. Free(t) => Free(t)'
  BY <1>2, <1>3, <1>4
  DEF Next, vars, asana, Callers, PersonRetags, PullRequestChanges, Acquire, RunSucceeds, RunFails,
      Associate, WorkerDies, ClaimExpires, Observe, ObserveFails, See, Crash, CommandFails,
      OrphanEnds, DaemonStep, Release, Claim, MarkUntouched, Trust, Refuse, Project, Continue,
      ContinueRefused, MarkContinued, CommandReturns, Consume
<1>6. Plain(t)' => Plain(t)
  <2>1. CASE UNCHANGED <<lane, retagged>>
    BY <2>1 DEF Plain
  <2>2. ASSUME NEW u \in Tasks, PersonRetags(u) PROVE Plain(t)' => Plain(t)
    BY <1>1, <2>2 DEF PersonRetags, Plain, AsanaTypes
  <2> QED
    BY <2>1, <2>2, TagsStay
<1> QED
  BY <1>5, <1>6

\* A merge is taken for projected by the daemon whose command says so.
LEMMA NewlyProjected ==
    ASSUME TypeInv, [Next]_vars, NEW u \in Tickets, Projected(u)', ~Projected(u)
    PROVE  \E d \in Daemons :
               /\ daemon[d].ticket = u /\ daemon[d].seen.state = "merged"
               /\ (CommandReturns(d) /\ cmd[d].stage = "ok") \/ Consume(d)
<1>1. LedgerTypes /\ ArmTypes
  BY TypeParts
<1>2. PICK f \in Observations : f.state = "merged" /\ event'[u][f] \in {"asana_applied", "consumed"}
  BY DEF Projected
<1>3. event[u][f] \notin {"asana_applied", "consumed"} /\ f \in Fingerprints
  BY <1>2, Names DEF Projected
<1>4. ASSUME NEW v, NEW g, NEW s, SetEvent(v, g, s)
      PROVE  v = u /\ g = f /\ s \in {"asana_applied", "consumed"}
  <2>1. event'[u][f] = IF v = u /\ g = f THEN s ELSE event[u][f]
    BY <1>1, <1>3, <1>4 DEF SetEvent, LedgerTypes
  <2> QED
    BY <1>2, <1>3, <2>1
<1>5. ~UNCHANGED event
  BY <1>2, <1>3
<1>6. ASSUME NEW d \in Daemons, Claim(d) PROVE FALSE
  <2>1. CASE event[daemon[d].ticket][daemon[d].seen] = "asana_applied"
    <3>1. SetEvent(daemon[d].ticket, daemon[d].seen, "consumed")
      BY <1>6, <2>1 DEF Claim, Claimable
    <3> QED
      BY <1>3, <1>4, <2>1, <3>1
  <2>2. CASE event[daemon[d].ticket][daemon[d].seen] # "asana_applied"
    BY <1>4, <1>5, <1>6, <2>2 DEF Claim
  <2> QED
    BY <2>1, <2>2
<1>7. ASSUME NEW d \in Daemons, MarkUntouched(d) \/ MarkContinued(d) PROVE FALSE
  <2>1. daemon[d].seen.state = "open"
    BY <1>1, <1>7 DEF MarkUntouched, MarkContinued, ArmTypes, Authority
  <2>2. SetEvent(daemon[d].ticket, daemon[d].seen, "asana_applied")
    BY <1>5, <1>7 DEF MarkUntouched, MarkContinued, Mark
  <2> QED
    BY <1>2, <1>4, <2>1, <2>2
<1>8. ASSUME NEW d \in Daemons, CommandReturns(d)
      PROVE  cmd[d].stage = "ok" /\ daemon[d].ticket = u /\ daemon[d].seen.state = "merged"
  <2>1. CASE cmd[d].stage = "ok"
    <3>1. SetEvent(daemon[d].ticket, daemon[d].seen, "asana_applied")
      BY <1>5, <1>8, <2>1 DEF CommandReturns, Mark, Succeeded
    <3> QED
      BY <1>2, <1>4, <2>1, <3>1
  <2>2. CASE cmd[d].stage # "ok"
    BY <1>4, <1>5, <1>8, <2>2 DEF CommandReturns, Succeeded
  <2> QED
    BY <2>1, <2>2
<1>9. ASSUME NEW d \in Daemons, Consume(d)
      PROVE  daemon[d].ticket = u /\ daemon[d].seen.state = "merged"
  BY <1>2, <1>4, <1>9 DEF Consume
<1>10. ASSUME NEW v \in Tickets, NEW g \in Fingerprints, ClaimExpires(v, g) PROVE FALSE
  BY <1>4, <1>10 DEF ClaimExpires
<1>11. \E d \in Daemons : DaemonStep(d)
  BY <1>5, <1>10
  DEF Next, vars, ledger, PersonRetags, PersonReturns, PullRequestChanges, RunSucceeds, RunFails,
      Associate, WorkerDies, CommandStep, CommandFails, CommandReads, CommandRoutes,
      CommandFinishes, CommandCompletes, CommandReleases, CommandDecides, OrphanEnds, Acquire,
      Crash, Observe, ObserveFails, See
<1>12. PICK d \in Daemons : DaemonStep(d)
  BY <1>11
<1>13. CommandReturns(d) \/ Consume(d)
  BY <1>5, <1>6, <1>7, <1>12
  DEF DaemonStep, Release, Trust, Refuse, Project, Continue, ContinueRefused, ledger
<1> QED
  BY <1>8, <1>9, <1>13

\* What is projected by a step is of the one arm at work.
LEMMA RestStays ==
    ASSUME TypeInv, OneArm, [Next]_vars, NEW t \in Tasks, \A u \in Blockers[t] : u \in Tickets,
           NEW d \in Daemons, NEW v, Rest(t, v)', daemon'[d].stage \in {"asana", "marked"},
           daemon'[d].stage = "marked" => daemon'[d].ticket = v
    PROVE  Rest(t, v)
<1> SUFFICES ASSUME NEW u \in Blockers[t] \ {v}, ~Projected(u) PROVE FALSE
  BY DEF Rest
<1>1. u \in Tickets /\ Projected(u)'
  BY DEF Rest
<1>2. PICK e \in Daemons :
        /\ daemon[e].ticket = u
        /\ (CommandReturns(e) /\ cmd[e].stage = "ok") \/ Consume(e)
  BY <1>1, NewlyProjected
<1>3. daemon[e].stage # "idle" /\ ArmActs(e)
  BY <1>2 DEF CommandReturns, Consume, ArmActs, DaemonStep
<1>4. daemon \in [Daemons -> Arms]
  BY TypeParts DEF ArmTypes
<1>5. CASE e # d
  <2>1. daemon'[d] = daemon[d]
    BY <1>3, <1>5, OthersWait
  <2> QED
    BY <1>3, <1>5, <2>1 DEF OneArm
<1>6. CASE e = d
  <2>1. CASE Consume(e)
    <3>1. daemon'[d].stage = "next"
      BY <1>4, <1>6, <2>1 DEF Consume, GoOn, Idle
    <3> QED
      BY <3>1
  <2>2. CASE CommandReturns(e) /\ cmd[e].stage = "ok" /\ daemon[e].ticket = u
    <3>1. daemon' = [daemon EXCEPT ![d].stage = "marked"]
      BY <1>6, <2>2 DEF CommandReturns, Mark, Succeeded, GoTo
    <3>2. daemon'[d].stage = "marked" /\ daemon'[d].ticket = daemon[d].ticket
      BY <1>4, <3>1 DEF Arms
    <3> QED
      BY <1>6, <2>2, <3>2
  <2> QED
    BY <1>2, <2>1, <2>2
<1> QED
  BY <1>5, <1>6

\* The steps of the command of the last merge.
LEMMA CommandReleasesLastMoves ==
    ASSUME TypeInv, EventInv, WorkInv, IndirectFirst,
           NEW t \in Followers, Expects(t), NEW d \in Daemons, CommandStep(d),
           cmd[d].outcome = "merged", cmd[d].ticket \in Blockers[t], Rest(t, cmd[d].ticket),
           CommandReleasesLast(t), Free(t) => Free(t)'
    PROVE  /\ cmd'[d].stage \in {"finishing", "completing", "releasing"} =>
                 Free(t)' \/ <<t, "Ready">> \in cmd'[d].routes
           /\ cmd'[d].stage \in {"deciding", "ok"} => Free(t)'
<1>1. /\ AsanaTypes /\ cmd \in [Callers -> Commands] /\ cmd[d] \in Commands /\ d \in Callers
      /\ t \in Tasks /\ t \notin Tickets
  BY TypeParts, Names, EventAssumption DEF CommandTypes, Tasks
<1>2. /\ cmd[d].stage \in {"finishing", "completing", "releasing"} =>
            Free(t) \/ <<t, "Ready">> \in cmd[d].routes
      /\ cmd[d].stage \in {"deciding", "ok"} => Free(t)
  BY DEF CommandReleasesLast
<1>3. lane[cmd[d].ticket] = "autonomous" /\ lane[t] = "autonomous"
  BY DEF Expects, Plain
<1>4. ASSUME NEW s, Becomes(d, s)
      PROVE  cmd'[d].stage = s /\ cmd'[d].routes = cmd[d].routes
  BY <1>1, <1>4 DEF Becomes, Commands
<1>5. CASE CommandReads(d)
  <2>1. ~Untouchable(cmd[d].ticket, cmd[d].outcome) /\ ~Decides(cmd[d].ticket, cmd[d].outcome)
    BY <1>3 DEF Untouchable, Decides
  <2>2. cmd' = [cmd EXCEPT ![d].inDone = (section[cmd[d].ticket] = "Done"), ![d].stage = "routing"]
    BY <1>3, <1>5, <2>1 DEF CommandReads
  <2>3. cmd'[d].stage = "routing"
    BY <1>1, <2>2 DEF Commands
  <2> QED
    BY <2>3
<1>6. CASE CommandRoutes(d)
  <2> DEFINE v == cmd[d].ticket
  <2>1. \A o \in Blockers[t] \ {v} : o \in completed
    BY DEF Rest, Expects, Plain, Projected, EventInv, ConsumedMergesAreProjected
  <2>2. ~Blocked(t, v)
    <3>1. v \in Tickets /\ pr[v].state = "merged"
      BY <1>1, <1>6 DEF Expects, WorkInv, ProjectedMerges, CommandRoutes
    <3>2. Indirect(t) \subseteq completed
      BY <3>1 DEF Expects, IndirectFirst, AnyMerged
    <3> QED
      BY <2>1, <3>2 DEF Blocked, AssumedCompleted, Indirect
  <2>3. t \notin completed
    BY <1>1 DEF AsanaTypes
  <2>4. Free(t) \/ <<t, "Ready">> \in RoutesOf(v)
    BY <1>1, <1>3, <2>2, <2>3 DEF RoutesOf, Free
  <2>5. cmd'[d].stage = "finishing" /\ cmd'[d].routes = RoutesOf(v)
    BY <1>1, <1>6 DEF CommandRoutes, Commands
  <2> QED
    BY <2>4, <2>5
<1>7. CASE CommandFinishes(d) \/ CommandCompletes(d)
  BY <1>2, <1>4, <1>7 DEF CommandFinishes, CommandCompletes
<1>8. CASE CommandReleases(d)
  <2>1. CASE cmd[d].routes = {} /\ Becomes(d, "ok")
    BY <1>2, <1>4, <1>8, <2>1 DEF CommandReleases
  <2>2. ASSUME NEW r \in cmd[d].routes, section' = [section EXCEPT ![r[1]] = r[2]],
               cmd' = [cmd EXCEPT ![d].routes = @ \ {r}]
        PROVE  Free(t)' \/ <<t, "Ready">> \in cmd'[d].routes
    <3>1. cmd'[d].routes = cmd[d].routes \ {r}
      BY <1>1, <2>2 DEF Commands
    <3>2. CASE r = <<t, "Ready">>
      BY <1>1, <2>2, <3>2 DEF AsanaTypes, Free
    <3> QED
      BY <1>2, <1>8, <3>1, <3>2 DEF CommandReleases
  <2>3. ASSUME NEW r, cmd' = [cmd EXCEPT ![d].routes = @ \ {r}]
        PROVE  cmd'[d].stage = cmd[d].stage
    BY <1>1, <2>3 DEF Commands
  <2> QED
    BY <1>8, <2>1, <2>2, <2>3 DEF CommandReleases
<1>9. CASE CommandDecides(d)
  BY <1>2, <1>4, <1>9 DEF CommandDecides
<1> QED
  BY <1>5, <1>6, <1>7, <1>8, <1>9 DEF CommandStep

\* The command that says ok was that of the last merge.
LEMMA LastCommandFrees ==
    ASSUME TypeInv, EventInv, NEW t \in Followers, CommandReleasesLast(t), NEW d \in Daemons,
           CommandReturns(d), cmd[d].stage = "ok", daemon[d].seen.state = "merged",
           daemon[d].ticket \in Blockers[t], Rest(t, daemon[d].ticket)
    PROVE  Free(t)
<1>1. cmd[d].ticket = daemon[d].ticket /\ cmd[d].outcome = "merged"
  BY DEF EventInv, CommandsBelong, CommandReturns
<1> QED
  BY <1>1 DEF CommandReleasesLast

LEMMA LastReleasesStep ==
    TypeInv /\ EventInv /\ ArmInv /\ LastInv /\ [Next]_vars => LastReleases'
<1> SUFFICES ASSUME TypeInv, EventInv, ArmInv, LastInv, [Next]_vars, NEW t \in Followers, Expects(t)'
             PROVE  /\ ((\A u \in Blockers[t] : Projected(u)) => Free(t))'
                    /\ CommandReleasesLast(t)' /\ DaemonReleasesLast(t)'
  BY DEF LastReleases
<1>1. /\ t \in Tasks /\ (Free(t) => Free(t)') /\ OneArm /\ ArmsWait /\ OneArm' /\ ArmsWait'
      /\ WorkInv /\ IndirectFirst
  BY FreeStays, OneArmStep DEF ArmInv, LastInv, Tasks
<1>2. Expects(t) /\ \A u \in Blockers[t] : u \in Tickets
  BY <1>1, FreeStays, IndirectFirstStep, Names DEF Expects
<1>3. /\ (\A u \in Blockers[t] : Projected(u)) => Free(t)
      /\ CommandReleasesLast(t) /\ DaemonReleasesLast(t)
  BY <1>2 DEF LastInv, LastReleases
<1>4. daemon \in [Daemons -> Arms] /\ cmd \in [Callers -> Commands]
  BY TypeParts DEF ArmTypes, CommandTypes
<1>5. ASSUME \A u \in Blockers[t] : Projected(u)'
      PROVE  Free(t)
  <2>1. CASE \A u \in Blockers[t] : Projected(u)
    BY <1>3, <2>1
  <2>2. CASE \E u \in Blockers[t] : ~Projected(u)
    <3>1. PICK u \in Blockers[t] : ~Projected(u)
      BY <2>2
    <3>2. PICK d \in Daemons :
            /\ daemon[d].ticket = u /\ daemon[d].seen.state = "merged"
            /\ (CommandReturns(d) /\ cmd[d].stage = "ok") \/ Consume(d)
      BY <1>2, <1>5, <3>1, NewlyProjected
    <3>3. Rest(t, u)
      <4>1. SUFFICES ASSUME NEW o \in Blockers[t] \ {u}, ~Projected(o) PROVE FALSE
        BY DEF Rest
      <4>2. PICK e \in Daemons :
              daemon[e].ticket = o /\ (CommandReturns(e) \/ Consume(e))
        BY <1>2, <1>5, <4>1, NewlyProjected
      <4>3. daemon[d].stage # "idle" /\ daemon[e].stage # "idle"
        BY <3>2, <4>2 DEF CommandReturns, Consume
      <4> QED
        BY <1>1, <3>2, <4>1, <4>2, <4>3 DEF OneArm
    <3>4. CASE CommandReturns(d) /\ cmd[d].stage = "ok"
      BY <1>3, <3>2, <3>3, <3>4, LastCommandFrees
    <3>5. CASE Consume(d)
      BY <1>3, <3>2, <3>3, <3>5 DEF Consume, DaemonReleasesLast
    <3> QED
      BY <3>2, <3>4, <3>5
  <2> QED
    BY <2>1, <2>2
<1>6. ASSUME NEW d \in Daemons, NEW v, cmd'[d].ticket = v, cmd'[d].outcome = "merged",
             v \in Blockers[t], Rest(t, v)', cmd'[d].stage # "none"
      PROVE  /\ cmd'[d].stage \in {"finishing", "completing", "releasing"} =>
                    Free(t)' \/ <<t, "Ready">> \in cmd'[d].routes
             /\ cmd'[d].stage \in {"deciding", "ok"} => Free(t)'
  <2>1. d \in Callers /\ Rest(t, v)
    BY <1>1, <1>2, <1>6, RestStays, Names DEF ArmsWait
  <2>2. CASE cmd'[d] = cmd[d]
    BY <1>1, <1>3, <1>6, <2>1, <2>2 DEF CommandReleasesLast
  <2>3. ASSUME ArmActs(d) PROVE cmd'[d].stage \in {"none", "reading"}
    BY <1>1, <2>3, ArmItself
  <2>4. CASE CommandFails(d)
    BY <1>4, <2>1, <2>4 DEF CommandFails, Becomes, Commands
  <2>5. CASE CommandStep(d)
    BY <1>1, <1>2, <1>3, <1>6, <2>1, <2>5, CommandsKeepTargets, CommandReleasesLastMoves
  <2>6. ASSUME NEW e \in Daemons, ArmActs(e), e # d PROVE cmd'[d] = cmd[d]
    BY <2>6, OthersWait
  <2>7. ASSUME NEW c \in Callers, CommandStep(c) \/ CommandFails(c) \/ (c \in Orphans /\ OrphanEnds(c)),
               c # d
        PROVE  cmd'[d] = cmd[d]
    BY <2>1, <2>7, CommandsKeepArms
  <2> QED
    BY <2>1, <2>2, <2>3, <2>4, <2>5, <2>6, <2>7, Kinds, Names
<1>7. CommandReleasesLast(t)'
  BY <1>6 DEF CommandReleasesLast, Rest
<1>8. ASSUME NEW d \in Daemons, NEW v, daemon'[d].ticket = v, daemon'[d].stage = "marked",
             daemon'[d].seen.state = "merged", v \in Blockers[t], Rest(t, v)'
      PROVE  Free(t)
  <2>1. Rest(t, v)
    BY <1>1, <1>2, <1>8, RestStays
  <2>2. CASE daemon'[d] = daemon[d]
    BY <1>3, <1>8, <2>1, <2>2 DEF DaemonReleasesLast
  <2>3. CASE DaemonStep(d)
    <3>1. ASSUME NEW stage, GoTo(d, stage)
          PROVE  stage = "marked" /\ daemon[d].seen.state = "merged" /\ daemon[d].ticket = v
      BY <1>4, <1>8, <3>1 DEF GoTo, Arms
    <3>2. ASSUME GoOn(d) \/ daemon' = [daemon EXCEPT ![d] = Idle] PROVE FALSE
      <4>1. /\ Idle.stage = "idle"
            /\ \A w : [Idle EXCEPT !.stage = "next", !.todo = w].stage = "next"
        BY DEF Idle
      <4>2. daemon'[d] = Idle \/ daemon'[d] = [Idle EXCEPT !.stage = "next", !.todo = daemon[d].todo]
        BY <1>4, <3>2 DEF GoOn
      <4> QED
        BY <1>8, <4>1, <4>2
    <3>3. daemon[d].stage \in {"trusted", "continued"} => daemon[d].seen.state = "open"
      BY TypeParts DEF ArmTypes, Authority
    <3>4. CASE CommandReturns(d)
      <4>1. CASE cmd[d].stage = "ok"
        <5>1. daemon[d].seen.state = "merged" /\ daemon[d].ticket = v
          BY <3>1, <3>4, <4>1 DEF CommandReturns, Mark, Succeeded
        <5> QED
          BY <1>3, <1>8, <2>1, <3>4, <4>1, <5>1, LastCommandFrees
      <4> QED
        BY <3>2, <3>4, <4>1 DEF CommandReturns, Succeeded
    <3>5. CASE MarkUntouched(d) \/ MarkContinued(d)
      BY <3>1, <3>3, <3>5 DEF MarkUntouched, MarkContinued, Mark
    <3>6. CASE Claim(d)
      BY <3>1, <3>2, <3>6 DEF Claim
    <3>7. CASE Release(d) \/ Consume(d)
      BY <3>2, <3>7 DEF Release, Consume
    <3>8. CASE Trust(d) \/ Refuse(d) \/ Project(d) \/ ContinueRefused(d)
      BY <3>1, <3>8 DEF Trust, Refuse, Project, ContinueRefused, Start
    <3>9. CASE Continue(d)
      <4>1. GoTo(d, "continued")
        BY <3>9 DEF Continue, GoTo
      <4> QED
        BY <3>1, <4>1
    <3> QED
      BY <2>3, <3>4, <3>5, <3>6, <3>7, <3>8, <3>9 DEF DaemonStep
  <2>4. ASSUME Acquire(d) \/ Crash(d) \/ \E u \in Tickets : Observe(d, u) \/ ObserveFails(d, u)
        PROVE  FALSE
    <3>1. CASE Acquire(d)
      BY <1>4, <1>8, <3>1 DEF Acquire, Arms
    <3>2. CASE Crash(d)
      BY <1>4, <1>8, <3>2 DEF Crash, Idle
    <3>3. CASE \E u \in Tickets : Observe(d, u) \/ ObserveFails(d, u)
      BY <1>4, <1>8, <3>3 DEF Observe, ObserveFails, See
    <3> QED
      BY <2>4, <3>1, <3>2, <3>3
  <2>5. ASSUME NEW e \in Daemons, ArmActs(e), e # d PROVE daemon'[d] = daemon[d]
    BY <2>5, OthersWait
  <2>6. ASSUME NEW c \in Callers, CommandStep(c) \/ CommandFails(c) \/ (c \in Orphans /\ OrphanEnds(c))
        PROVE  daemon'[d] = daemon[d]
    BY <2>6, CommandsKeepArms
  <2>7. ArmActs(d) => DaemonStep(d)
    BY <2>4 DEF ArmActs
  <2> QED
    BY <2>2, <2>3, <2>5, <2>6, <2>7, Kinds, Names
<1>9. DaemonReleasesLast(t)'
  BY <1>1, <1>8 DEF DaemonReleasesLast, Rest
<1> QED
  BY <1>1, <1>5, <1>7, <1>9

LEMMA LastInit == Init => LastInv
<1> SUFFICES ASSUME Init PROVE LastInv
  OBVIOUS
<1>1. \A d \in Daemons : daemon[d] = Idle /\ cmd[d] = NoCommand
  BY DEF Init
<1>2. IndirectFirst
  BY DEF Init, IndirectFirst
<1>3. \A u \in Tickets : ~Projected(u)
  BY Names DEF Init, Projected
<1>4. ASSUME NEW t \in Followers, Expects(t)
      PROVE  /\ ~\A u \in Blockers[t] : Projected(u)
             /\ CommandReleasesLast(t) /\ DaemonReleasesLast(t)
  <2>1. \E u \in Blockers[t] : u \in Tickets
    BY <1>4 DEF Expects
  <2> QED
    BY <1>1, <1>3, <2>1 DEF CommandReleasesLast, DaemonReleasesLast, Idle, NoCommand
<1> QED
  BY <1>2, <1>4 DEF LastInv, LastReleases

LEMMA LastNext == TypeInv /\ EventInv /\ ArmInv /\ LastInv /\ [Next]_vars => LastInv'
  BY IndirectFirstStep, LastReleasesStep DEF LastInv

\* When the merges of all direct dependencies of an autonomous follower are consumed,
\* the follower has left Waiting, for any graph of dependencies in which no direct
\* dependency was merged while an indirect one was open, however many daemons and
\* commands died on the way and whatever command outlived its daemon: the lock keeps
\* two arms from each taking the other's merge for the last
\* (reconcile_pull_request_observations in src/daemon.rs, dependency_state in
\* .flashy-factory/clients/asana).
THEOREM LastMergeReleases == Spec => []MergesReleaseDependents
<1>1. TypeInv /\ LastInv => MergesReleaseDependents
  <2> SUFFICES ASSUME TypeInv, LastInv, NEW t \in Followers \ overtaken, Blockers[t] # {},
                      \A b \in Blockers[t] :
                        /\ b \in Tickets /\ pr[b].state = "merged" /\ event[b][pr[b]] = "consumed"
                        /\ b \notin retagged /\ lane[b] = "autonomous",
                      t \notin retagged, lane[t] = "autonomous"
               PROVE  section[t] # "Waiting"
    BY DEF MergesReleaseDependents
  <2>1. Expects(t)
    BY DEF Expects, Plain
  <2>2. \A u \in Blockers[t] : Projected(u)
    BY TypeParts DEF ProviderTypes, Projected
  <2> QED
    BY <2>1, <2>2 DEF LastInv, LastReleases, Free
<1> QED
  BY <1>1, TypesInit, TypesNext, EventsInit, EventsNext, ArmInit, ArmNext, LastInit, LastNext,
     PTL DEF Spec
--------------------------------------------------------------------------------
\* The reconciliation keeps its promise.

\* What the promise is about, in the terms of the code.
Marks == [t \in Tickets |-> [f \in Fingerprints |-> Progress(t, f)]]
Merges == {f \in Fingerprints : f.state = "merged"}
Merged == {t \in Tickets : pr[t].state = "merged"}
Exempted == {t \in Tickets : t \in retagged \/ lane[t] = "unsafe"}
Released == {t \in Followers : section[t] = "Ready"}

Promised == <<Marks, Merged, completed, Exempted, Released, reserved>>

\* A move of the promise, or none.
Kept == Projection!Next \/ UNCHANGED Promised

\* Where a mark may come from.
LEMMA MarksMove ==
    ASSUME TypeInv, NEW t \in Tickets, NEW f \in Fingerprints, NEW s, SetEvent(t, f, s)
    PROVE  /\ s = "asana_applied" => Marks' = [Marks EXCEPT ![t][f] = "applied"]
           /\ s = "consumed" => Marks' = [Marks EXCEPT ![t][f] = "forgotten"]
           /\ s \in {"claimed", "expired", "observed"} /\ Progress(t, f) = "pending" => Marks' = Marks
<1>1. event \in [Tickets -> [Fingerprints -> EventStates]]
  BY TypeParts DEF LedgerTypes
<1>2. event'[t][f] = s
  BY <1>1 DEF SetEvent
<1>3. \A u \in Tickets, g \in Fingerprints : <<u, g>> # <<t, f>> => event'[u][g] = event[u][g]
  BY <1>1 DEF SetEvent
<1>4. \A u \in Tickets, g \in Fingerprints : <<u, g>> # <<t, f>> => Progress(u, g)' = Progress(u, g)
  BY <1>3 DEF Progress
<1>5. ASSUME NEW x, Progress(t, f)' = x PROVE Marks' = [Marks EXCEPT ![t][f] = x]
  BY <1>4, <1>5 DEF Marks
<1>6. s = "asana_applied" => Progress(t, f)' = "applied"
  BY <1>2 DEF Progress
<1>7. s = "consumed" => Progress(t, f)' = "forgotten"
  BY <1>2 DEF Progress
<1>8. s \in {"claimed", "expired", "observed"} => Progress(t, f)' = "pending"
  BY <1>2 DEF Progress
<1>9. Progress(t, f)' = Progress(t, f) => Marks' = Marks
  BY <1>4 DEF Marks
<1> QED
  BY <1>5, <1>6, <1>7, <1>8, <1>9

LEMMA MarksAre == \A t \in Tickets, f \in Fingerprints : Marks[t][f] = Progress(t, f)
  BY DEF Marks

\* Moves of the promise, one by one.
LEMMA Merging ==
    ASSUME NEW t \in Tickets, Merged' = Merged \cup {t},
           UNCHANGED <<Marks, completed, Exempted, Released, reserved>>
    PROVE  Kept
  BY DEF Kept, Projection!Next, Projection!Merge, Marks, Merged, Exempted, Released

LEMMA Completing ==
    ASSUME NEW t \in Tickets, t \in Merged, completed' = completed \cup {t},
           UNCHANGED <<Marks, Merged, Exempted, Released, reserved>>
    PROVE  Kept
  BY DEF Kept, Projection!Next, Projection!Complete, Marks, Merged, Exempted, Released

LEMMA Exempting ==
    ASSUME NEW t \in Tickets, Exempted' = Exempted \cup {t},
           UNCHANGED <<Marks, Merged, completed, Released, reserved>>
    PROVE  Kept
  BY DEF Kept, Projection!Next, Projection!Exempt, Marks, Merged, Exempted, Released

LEMMA Releasing ==
    ASSUME NEW t \in Followers,
           Released' = Released \ {t} \/ (Reachable[t] \subseteq completed /\ Released' = Released \cup {t}),
           UNCHANGED <<Marks, Merged, completed, Exempted, reserved>>
    PROVE  Kept
  BY DEF Kept, Projection!Next, Projection!Release, Projection!Withdraw, Marks, Merged, Exempted, Released

LEMMA Continuing ==
    ASSUME NEW t \in Tickets, NEW f \in Fingerprints, Marks[t][f] = "pending", f \notin Merges,
           f \notin reserved[t], Cardinality(reserved[t]) < MaxContinuations,
           reserved' = [reserved EXCEPT ![t] = @ \cup {f}],
           UNCHANGED <<Marks, Merged, completed, Exempted, Released>>
    PROVE  Kept
<1>1. Projection!Cardinality(reserved[t]) = Cardinality(reserved[t])
  BY DEF Projection!Cardinality, Cardinality
<1> QED
  BY <1>1 DEF Kept, Projection!Next, Projection!Continue, Marks, Merges, Merged, Exempted, Released

LEMMA Applying ==
    ASSUME NEW t \in Tickets, NEW f \in Fingerprints, Marks[t][f] = "pending",
           f \in Merges => t \in completed \cup Exempted,
           Marks' = [Marks EXCEPT ![t][f] = "applied"],
           UNCHANGED <<Merged, completed, Exempted, Released, reserved>>
    PROVE  Kept
<1>1. Marks'[t][f] = "applied"
  <2>1. t \in DOMAIN Marks /\ f \in DOMAIN Marks[t]
    BY DEF Marks
  <2> QED
    BY <2>1
<1>2. Projection!Apply(t, f)
  BY <1>1 DEF Projection!Apply, Projection!Goes, Marks, Merges, Merged, Exempted, Released
<1> QED
  BY <1>2 DEF Kept, Projection!Next

LEMMA Forgetting ==
    ASSUME NEW t \in Tickets, NEW f \in Fingerprints, Marks[t][f] = "applied",
           Marks' = [Marks EXCEPT ![t][f] = "forgotten"],
           UNCHANGED <<Merged, completed, Exempted, Released, reserved>>
    PROVE  Kept
<1>1. Marks'[t][f] = "forgotten"
  <2>1. t \in DOMAIN Marks /\ f \in DOMAIN Marks[t]
    BY DEF Marks
  <2> QED
    BY <2>1
<1>2. Projection!Forget(t, f)
  BY <1>1 DEF Projection!Forget, Projection!Goes, Marks, Merged, Exempted, Released
<1> QED
  BY <1>2 DEF Kept, Projection!Next

LEMMA Resting ==
    ASSUME UNCHANGED Marks, UNCHANGED <<provider, asana, retagged, reserved>>
    PROVE  Kept
  BY DEF Kept, Promised, Merged, Exempted, Released, provider, asana

\* What people do to tags and pull requests.
LEMMA PeopleKeep ==
    ASSUME TypeInv, NEW t \in Tasks,
           PersonRetags(t) \/ PersonReturns(t) \/ (t \in Tickets /\ PullRequestChanges(t))
    PROVE  Kept
<1>1. ProviderTypes /\ AsanaTypes
  BY TypeParts
<1>2. CASE PersonRetags(t)
  <2>1. /\ UNCHANGED <<provider, event, reserved, section, completed>>
        /\ retagged' = retagged \cup {t}
        /\ \A u \in Tasks \ {t} : lane'[u] = lane[u]
    BY <1>1, <1>2 DEF PersonRetags, ledger, AsanaTypes
  <2>2. UNCHANGED <<Marks, Merged, completed, Released, reserved>>
    BY <2>1 DEF Marks, Progress, Merged, Released, provider
  <2>3. CASE t \in Tickets
    <3>1. Exempted' = Exempted \cup {t}
      BY <2>1, <2>3, Names DEF Exempted
    <3> QED
      BY <2>2, <2>3, <3>1, Exempting
  <2>4. CASE t \notin Tickets
    <3>1. Exempted' = Exempted
      BY <2>1, <2>4, Names DEF Exempted
    <3> QED
      BY <2>2, <3>1 DEF Kept, Promised
  <2> QED
    BY <2>3, <2>4
<1>3. CASE PersonReturns(t)
  <2>1. UNCHANGED <<provider, event, reserved, completed, lane, retagged>>
    BY <1>3 DEF PersonReturns, ledger
  <2>2. Released' = Released
    BY <1>1, <1>3 DEF PersonReturns, AsanaTypes, Released
  <2>3. UNCHANGED <<Marks, Merged, Exempted>>
    BY <2>1 DEF Marks, Progress, Merged, Exempted, provider
  <2> QED
    BY <2>1, <2>2, <2>3 DEF Kept, Promised
<1>4. CASE t \in Tickets /\ PullRequestChanges(t)
  <2>1. UNCHANGED <<event, reserved, asana, retagged>>
    BY <1>4 DEF PullRequestChanges, ledger
  <2>2. UNCHANGED <<Marks, completed, Exempted, Released, reserved>>
    BY <2>1 DEF Marks, Progress, Exempted, Released, asana
  <2>3. /\ \A u \in Tickets \ {t} : pr'[u].state = pr[u].state
        /\ pr[t].state = "merged" => pr'[t].state = "merged"
    BY <1>1, <1>4 DEF PullRequestChanges, ProviderTypes, Observations
  <2>4. Merged' = Merged \/ Merged' = Merged \cup {t}
    BY <1>4, <2>3 DEF Merged
  <2> QED
    BY <1>4, <2>2, <2>4, Merging DEF Kept, Promised
<1> QED
  BY <1>2, <1>3, <1>4

\* What a command does to Asana.
LEMMA CommandsKeep ==
    ASSUME TypeInv, ReleaseInv, ProjectedMerges, NEW c \in Callers, CommandStep(c) \/ CommandFails(c)
    PROVE  Kept
<1>1. /\ CommandTypes /\ AsanaTypes
      /\ cmd[c].stage # "none" => cmd[c].ticket \in Tickets
      /\ cmd[c].routes \subseteq Routes
  BY TypeParts DEF CommandTypes, Targets, Commands
<1>2. Marks' = Marks /\ UNCHANGED <<provider, lane, retagged, reserved>>
  <2>1. UNCHANGED <<provider, ledger, lane, retagged>>
    BY DEF CommandStep, CommandFails, CommandReads, CommandRoutes, CommandFinishes,
           CommandCompletes, CommandReleases, CommandDecides, asana
  <2> QED
    BY <2>1 DEF Marks, Progress, ledger
<1>3. UNCHANGED <<Merged, Exempted, reserved>>
  BY <1>2 DEF Merged, Exempted, provider
<1>4. CASE UNCHANGED asana
  BY <1>2, <1>4, Resting
<1>5. CASE CommandCompletes(c)
  <2>1. cmd[c].ticket \in Merged
    BY <1>1, <1>5 DEF CommandCompletes, ProjectedMerges, Merged
  <2>2. completed' = completed \cup {cmd[c].ticket} /\ Released' = Released
    BY <1>5 DEF CommandCompletes, Released
  <2> QED
    BY <1>1, <1>2, <1>3, <1>5, <2>1, <2>2, Completing DEF CommandCompletes
<1>6. CASE CommandFinishes(c) \/ CommandDecides(c)
  <2>1. cmd[c].ticket \in Tickets /\ completed' = completed
        /\ \A t \in Followers : section'[t] = section[t]
    BY <1>1, <1>6, EventAssumption DEF CommandFinishes, CommandDecides, AsanaTypes, Tasks
  <2>2. Released' = Released
    BY <2>1 DEF Released
  <2> QED
    BY <1>2, <1>3, <2>1, <2>2 DEF Kept, Promised
<1>7. CASE CommandReleases(c)
  <2>1. completed' = completed
    BY <1>7 DEF CommandReleases
  <2>2. CASE section' = section
    BY <1>4, <1>2, <2>1, <2>2 DEF asana
  <2>3. ASSUME NEW r \in cmd[c].routes, section' = [section EXCEPT ![r[1]] = r[2]]
        PROVE  Kept
    <3>1. r[1] \in Tasks /\ r[2] \in {"Ready", "NeedsDecision"} /\ r = <<r[1], r[2]>>
      BY <1>1, <2>3 DEF Routes
    <3>2. section'[r[1]] = r[2] /\ \A t \in Tasks \ {r[1]} : section'[t] = section[t]
      BY <1>1, <2>3, <3>1 DEF AsanaTypes
    <3>3. CASE r[1] \notin Followers
      <4>1. Released' = Released
        BY <3>2, <3>3 DEF Released, Tasks
      <4> QED
        BY <1>2, <1>3, <2>1, <4>1 DEF Kept, Promised
    <3>4. CASE r[1] \in Followers /\ r[2] = "NeedsDecision"
      <4>1. Released' = Released \ {r[1]}
        BY <3>2, <3>4 DEF Released, Tasks
      <4> QED
        BY <1>2, <1>3, <2>1, <3>4, <4>1, Releasing
    <3>5. CASE r[1] \in Followers /\ r[2] = "Ready"
      <4>1. Released' = Released \cup {r[1]}
        BY <3>2, <3>5 DEF Released, Tasks
      <4>2. Reachable[r[1]] \subseteq completed \cup {cmd[c].ticket}
        BY <3>1, <3>5 DEF ReleaseInv, RoutesAreFree
      <4>3. cmd[c].ticket \in completed
        BY <1>7 DEF ReleaseInv, CommandsSettle, CommandReleases
      <4> QED
        BY <1>2, <1>3, <2>1, <3>5, <4>1, <4>2, <4>3, Releasing
    <3> QED
      BY <3>1, <3>3, <3>4, <3>5
  <2> QED
    BY <1>7, <2>2, <2>3 DEF CommandReleases
<1>8. CommandReads(c) \/ CommandRoutes(c) \/ CommandFails(c) => UNCHANGED asana
  BY DEF CommandReads, CommandRoutes, CommandFails
<1> QED
  BY <1>4, <1>5, <1>6, <1>7, <1>8 DEF CommandStep

\* What a daemon does to its event.
LEMMA ArmsKeep ==
    ASSUME TypeInv, EventInv, HeldEvents, NEW d \in Daemons, DaemonStep(d)
    PROVE  Kept
<1> DEFINE t == daemon[d].ticket
           f == daemon[d].seen
<1>1. /\ LedgerTypes /\ ArmTypes
      /\ daemon[d].stage \notin {"idle", "next"} => t \in Tickets /\ f \in Fingerprints
  BY TypeParts DEF ArmTypes, Arms
<1>2. UNCHANGED <<provider, asana, retagged>>
  BY DEF DaemonStep, Release, Claim, MarkUntouched, Trust, Refuse, Project, Continue,
         ContinueRefused, MarkContinued, CommandReturns, Consume
<1>3. UNCHANGED <<Merged, completed, Exempted, Released>>
  BY <1>2 DEF provider, asana, Merged, Exempted, Released
<1>4. CASE Marks' = Marks /\ reserved' = reserved
  BY <1>2, <1>4, Resting
<1>5. CASE UNCHANGED event /\ reserved' = reserved
  BY <1>4, <1>5 DEF Marks, Progress
<1>6. ASSUME t \in Tickets, f \in Fingerprints, event[t][f] = "claimed"
      PROVE  Progress(t, f) = "pending" /\ Marks[t][f] = "pending"
  BY <1>6, MarksAre DEF Progress
<1>7. ASSUME t \in Tickets, f \in Fingerprints, event[t][f] = "asana_applied"
      PROVE  Marks[t][f] = "applied"
  BY <1>7, MarksAre DEF Progress
<1> HIDE DEF t, f
<1>8. CASE Claim(d)
  <2>1. reserved' = reserved /\ t \in Tickets /\ f \in Fingerprints
    BY <1>1, <1>8 DEF Claim
  <2>2. CASE Claimable(event[t][f]) /\ SetEvent(t, f, "claimed")
    <3>1. Progress(t, f) = "pending"
      BY <2>2 DEF Claimable, Progress
    <3> QED
      BY <1>4, <2>1, <2>2, <3>1, MarksMove
  <2>3. CASE event[t][f] = "asana_applied" /\ SetEvent(t, f, "consumed")
    BY <1>3, <1>7, <2>1, <2>3, MarksMove, Forgetting
  <2> QED
    BY <1>5, <1>8, <2>1, <2>2, <2>3 DEF Claim, t, f
<1>9. CASE MarkUntouched(d) \/ MarkContinued(d) \/ (CommandReturns(d) /\ cmd[d].stage = "ok")
  <2>1. /\ reserved' = reserved /\ Mark(d)
        /\ daemon[d].stage \in {"claimed", "continued", "asana"}
    BY <1>9 DEF MarkUntouched, MarkContinued, CommandReturns, Succeeded
  <2>2. t \in Tickets /\ f \in Fingerprints
    BY <1>1, <2>1
  <2>3. event[t][f] = "claimed"
    BY <2>1 DEF HeldEvents, t, f
  <2>4. SetEvent(t, f, "asana_applied")
    BY <2>1, <2>3 DEF Mark, t, f
  <2>5. f \in Merges => t \in completed \cup Exempted
    BY <1>9, <2>2, MarksAreSettled DEF EventInv, Merges, Settled, Exempt, Exempted, t, f
  <2> QED
    BY <1>3, <1>6, <2>1, <2>2, <2>3, <2>4, <2>5, MarksMove, Applying
<1>10. CASE CommandReturns(d) /\ cmd[d].stage # "ok"
  <2>1. reserved' = reserved /\ t \in Tickets /\ f \in Fingerprints /\ event[t][f] = "claimed"
    BY <1>1, <1>10 DEF CommandReturns, HeldEvents, t, f
  <2>2. SetEvent(t, f, "observed")
    BY <1>10, <2>1 DEF CommandReturns, Succeeded, t, f
  <2> QED
    BY <1>4, <1>6, <2>1, <2>2, MarksMove
<1>11. CASE Consume(d)
  <2>1. /\ reserved' = reserved /\ SetEvent(t, f, "consumed") /\ t \in Tickets /\ f \in Fingerprints
        /\ event[t][f] = "asana_applied"
    BY <1>1, <1>11 DEF Consume, HeldEvents, t, f
  <2> QED
    BY <1>3, <1>7, <2>1, MarksMove, Forgetting
<1>12. CASE Continue(d)
  <2>1. /\ UNCHANGED event /\ reserved' = [reserved EXCEPT ![t] = @ \cup {f}]
        /\ f \notin reserved[t] /\ Cardinality(reserved[t]) < MaxContinuations
        /\ daemon[d].stage = "trusted"
    BY <1>12 DEF Continue, Fresh, WithinLimit, t, f
  <2>2. t \in Tickets /\ f \in Fingerprints
    BY <1>1, <2>1
  <2>3. event[t][f] = "claimed" /\ f \notin Merges
    BY <1>1, <2>1 DEF HeldEvents, ArmTypes, Authority, Merges, t, f
  <2>4. Marks' = Marks
    BY <2>1 DEF Marks, Progress
  <2> QED
    BY <1>3, <1>6, <2>1, <2>2, <2>3, <2>4, Continuing
<1>13. CASE Release(d) \/ Trust(d) \/ Refuse(d) \/ Project(d) \/ ContinueRefused(d)
  BY <1>5, <1>13 DEF Release, Trust, Refuse, Project, ContinueRefused, ledger
<1> QED
  BY <1>8, <1>9, <1>10, <1>11, <1>12, <1>13 DEF DaemonStep

LEMMA ProjectionStep ==
    TypeInv /\ EventInv /\ ReleaseInv /\ WorkInv /\ [Next]_vars => Kept
<1> SUFFICES ASSUME TypeInv, EventInv, ReleaseInv, WorkInv, [Next]_vars PROVE Kept
  OBVIOUS
<1>1. ASSUME NEW t \in Tickets, NEW f \in Fingerprints, ClaimExpires(t, f)
      PROVE  Kept
  <2>1. Progress(t, f) = "pending" /\ SetEvent(t, f, "expired")
    BY <1>1 DEF ClaimExpires, Progress
  <2>2. UNCHANGED <<provider, asana, retagged, reserved>>
    BY <1>1 DEF ClaimExpires
  <2> QED
    BY <2>1, <2>2, MarksMove, Resting
<1>2. CASE UNCHANGED <<provider, asana, retagged, event, reserved>>
  BY <1>2, Resting DEF Marks, Progress
<1>3. ASSUME NEW t \in Tickets, RunSucceeds(t) \/ RunFails(t) \/ Associate(t) \/ WorkerDies(t)
      PROVE  Kept
  BY <1>2, <1>3 DEF RunSucceeds, RunFails, Associate, WorkerDies
<1>4. ASSUME NEW d \in Daemons,
             Acquire(d) \/ Crash(d) \/ \E t \in Tickets : Observe(d, t) \/ ObserveFails(d, t)
      PROVE  Kept
  BY <1>2, <1>4 DEF Acquire, Crash, Observe, ObserveFails, See, ledger
<1>5. ASSUME NEW o \in Orphans, OrphanEnds(o) PROVE Kept
  BY <1>2, <1>5 DEF OrphanEnds, ledger
<1>6. CASE UNCHANGED vars
  BY <1>2, <1>6 DEF vars, ledger
<1> QED
  BY <1>1, <1>3, <1>4, <1>5, <1>6, PeopleKeep, CommandsKeep, ArmsKeep, Names
  DEF Next, Callers, WorkInv

\* Daemons that die in the middle of an event, commands that outlive them, leases that
\* lapse, requests that fail and people who change tags, in any order and any number,
\* keep the promise of the reconciliation (reconcile_pull_request_observations in
\* src/daemon.rs with the events in src/storage.rs and the command of
\* .flashy-factory/clients/asana): a merge is applied only when Asana shows it, is
\* applied and forgotten once, only merged tickets are completed, only what they free
\* is released, and an event continues its ticket once, while it is still pending.
THEOREM EventsAreProjected == Spec => ImplementsMergeProjection
<1>1. Init => Projection!Init
  <2> SUFFICES ASSUME Init PROVE Projection!Init
    OBVIOUS
  <2>1. Released = {}
    BY EventAssumption DEF Init, Released, Tasks
  <2>2. Marks = [t \in Tickets |-> [f \in Fingerprints |-> "pending"]]
    BY DEF Init, Marks, Progress
  <2> QED
    BY <2>1, <2>2 DEF Init, Projection!Init, Released, Marks
<1>2. TypeInv /\ EventInv /\ ReleaseInv /\ WorkInv /\ [Next]_vars => [Projection!Next]_(Projection!vars)
  BY ProjectionStep DEF Kept, Promised, Projection!vars, Marks, Merged, Exempted, Released
<1>3. ArmInv => WorkInv
  BY DEF ArmInv
<1> QED
  BY <1>1, <1>2, <1>3, TypesInit, TypesNext, EventsInit, EventsNext, ReleasesInit, ReleasesNext,
     ArmInit, ArmNext, PTL DEF Spec, ImplementsMergeProjection, Projection!Spec

================================================================================

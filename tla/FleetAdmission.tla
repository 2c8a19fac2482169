---------------------------- MODULE FleetAdmission ----------------------------
(***************************************************************************)
(* Admission to the worker slots that the repositories of one fleet share  *)
(* (FleetAdmission in src/daemon.rs), composed with the event loops of the *)
(* fleet's members, which try to acquire a slot for every dispatch, and    *)
(* with the workers, which hold a slot until they end.                     *)
(*                                                                         *)
(* The members run concurrently; the admission state is behind a mutex, so *)
(* each of its operations is one step.  A member that is refused does not  *)
(* block in acquire: it leaves its name among the waiting and returns to   *)
(* its select loop, from which a timer, a worker that ended or the         *)
(* `changed` notification sends it back into dispatch_available.  Tokio's  *)
(* notify_waiters reaches only the members parked in select at that        *)
(* moment.                                                                 *)
(***************************************************************************)
EXTENDS Naturals, FiniteSets

CONSTANTS
    N,          \* number of repositories, in the order of the fleet file
    Limit,      \* max_concurrent of the fleet
    Jobs,       \* places in one member's worker set: its own max_concurrent
    MaxQueued   \* bound of the model on claimable tasks per repository

ASSUME AdmissionAssumption ==
    /\ N \in Nat \ {0}
    /\ Limit \in Nat \ {0}
    /\ IsFiniteSet(Jobs)
    /\ MaxQueued \in Nat

VARIABLES
    available,  \* free slots
    cursor,     \* the repository whose turn is next
    waiting,    \* repositories that were refused since their last grant
    pc,         \* where the loop of each member is
    queued,     \* claimable tasks of each repository
    running,    \* workers that hold a permit
    finished    \* workers that ended and were not yet joined by their loop

admission == <<available, cursor, waiting>>
vars == <<admission, pc, queued, running, finished>>

Repositories == 0 .. N - 1
Workers == Repositories \X Jobs
LoopStates == {"dispatching", "admitted", "leaving", "parked", "busy"}

Init ==
    /\ available = Limit
    /\ cursor = 0
    /\ waiting = {}
    /\ pc = [r \in Repositories |-> "dispatching"]
    /\ queued \in [Repositories -> 0 .. MaxQueued]
    /\ running = {}
    /\ finished = {}

-------------------------------------------------------------------------------
\* The admission object.

\* How many repositories the scan from the cursor passes before r.
Distance(r) == IF r >= cursor THEN r - cursor ELSE r + N - cursor

\* Defect: the scan always starts with the first repository.
NextWaitingLowest(r, w) == r \in w /\ \A q \in w : r <= q

NextWaiting(r, w) == r \in w /\ \A q \in w : Distance(r) <= Distance(q)

Grant(r) ==
    /\ available > 0
    /\ NextWaiting(r, waiting \cup {r})
    /\ waiting' = waiting \ {r}
    /\ available' = available - 1
    /\ cursor' = (r + 1) % N

Refuse(r) ==
    /\ ~(available > 0 /\ NextWaiting(r, waiting \cup {r}))
    /\ waiting' = waiting \cup {r}
    /\ UNCHANGED <<available, cursor>>

\* Defect: a permit is dropped without giving its slot back.
DropPermitLeaks(loops) ==
    /\ pc' = [r \in Repositories |-> IF loops[r] = "parked" THEN "dispatching" ELSE loops[r]]
    /\ UNCHANGED <<available, cursor, waiting>>

\* A dropped permit frees its slot and wakes every loop parked in select.
DropPermit(loops) ==
    /\ available' = available + 1
    /\ pc' = [r \in Repositories |-> IF loops[r] = "parked" THEN "dispatching" ELSE loops[r]]
    /\ UNCHANGED <<cursor, waiting>>

-------------------------------------------------------------------------------
\* The loop of one member.
FreeJobs(r) == {j \in Jobs : <<r, j>> \notin running \cup finished}

\* A pass of dispatch_available begins by asking for a slot.
Admitted(r) ==
    /\ pc[r] = "dispatching"
    /\ FreeJobs(r) # {}
    /\ Grant(r)
    /\ pc' = [pc EXCEPT ![r] = "admitted"]
    /\ UNCHANGED <<queued, running, finished>>

Refused(r) ==
    /\ pc[r] = "dispatching"
    /\ FreeJobs(r) # {}
    /\ Refuse(r)
    /\ pc' = [pc EXCEPT ![r] = "leaving"]
    /\ UNCHANGED <<queued, running, finished>>

\* The member's own limit is reached: admission is not asked.
AtLocalLimit(r) ==
    /\ pc[r] = "dispatching"
    /\ FreeJobs(r) = {}
    /\ pc' = [pc EXCEPT ![r] = "leaving"]
    /\ UNCHANGED <<admission, queued, running, finished>>

\* A task is claimed; its worker takes the permit along and the loop tries again.
ClaimTask(r) ==
    /\ pc[r] = "admitted"
    /\ queued[r] > 0
    /\ \E j \in FreeJobs(r) : running' = running \cup {<<r, j>>}
    /\ queued' = [queued EXCEPT ![r] = @ - 1]
    /\ pc' = [pc EXCEPT ![r] = "dispatching"]
    /\ UNCHANGED <<admission, finished>>

\* There is nothing to claim: the permit is dropped on the way out.
ClaimNothing(r) ==
    /\ pc[r] = "admitted"
    /\ queued[r] = 0
    /\ DropPermit([pc EXCEPT ![r] = "leaving"])
    /\ UNCHANGED <<queued, running, finished>>

\* The loop polls its select, and is registered for notifications from here on.
Park(r) ==
    /\ pc[r] = "leaving"
    /\ pc' = [pc EXCEPT ![r] = "parked"]
    /\ UNCHANGED <<admission, queued, running, finished>>

\* The recovery or the schedule timer, each once a second.
Tick(r) ==
    /\ pc[r] = "parked"
    /\ pc' = [pc EXCEPT ![r] = "dispatching"]
    /\ UNCHANGED <<admission, queued, running, finished>>

\* The pull-request timer: its arm awaits the forge, and the loop does nothing
\* else meanwhile.
ArmBegins(r) ==
    /\ pc[r] = "parked"
    /\ pc' = [pc EXCEPT ![r] = "busy"]
    /\ UNCHANGED <<admission, queued, running, finished>>

ArmEnds(r) ==
    /\ pc[r] = "busy"
    /\ pc' = [pc EXCEPT ![r] = "dispatching"]
    /\ UNCHANGED <<admission, queued, running, finished>>

\* join_next of an ended worker frees its place in the member's set.
Reap(r) ==
    /\ pc[r] = "parked"
    /\ \E w \in finished : w[1] = r /\ finished' = finished \ {w}
    /\ pc' = [pc EXCEPT ![r] = "dispatching"]
    /\ UNCHANGED <<admission, queued, running>>

-------------------------------------------------------------------------------
\* Workers and pollers.
WorkerEnds(w) ==
    /\ w \in running
    /\ running' = running \ {w}
    /\ finished' = finished \cup {w}
    /\ DropPermit(pc)
    /\ UNCHANGED queued

Arrive(r) ==
    /\ queued[r] < MaxQueued
    /\ queued' = [queued EXCEPT ![r] = @ + 1]
    /\ UNCHANGED <<admission, pc, running, finished>>

Dispatch(r) ==
    Admitted(r) \/ Refused(r) \/ AtLocalLimit(r) \/ ClaimTask(r) \/ ClaimNothing(r) \/ Park(r)

Next ==
    \/ \E r \in Repositories :
         Dispatch(r) \/ Tick(r) \/ ArmBegins(r) \/ ArmEnds(r) \/ Reap(r) \/ Arrive(r)
    \/ \E w \in Workers : WorkerEnds(w)

Spec == Init /\ [][Next]_vars

\* The loops are tokio tasks, their timers tick, an arm has timeouts, and so has
\* every worker.  select! polls its ready branches in random order, so a worker
\* that waits to be joined is joined although a timer is ready as often.
Fairness ==
    /\ \A r \in Repositories :
         /\ WF_vars(Dispatch(r))
         /\ WF_vars(Tick(r) \/ Reap(r))
         /\ SF_vars(Reap(r))
         /\ WF_vars(ArmEnds(r))
    /\ \A w \in Workers : WF_vars(WorkerEnds(w))

FairSpec == Spec /\ Fairness

-------------------------------------------------------------------------------
TypeOK ==
    /\ available \in 0 .. Limit
    /\ cursor \in Repositories
    /\ waiting \subseteq Repositories
    /\ pc \in [Repositories -> LoopStates]
    /\ queued \in [Repositories -> Nat]
    /\ running \subseteq Workers
    /\ finished \subseteq Workers

\* Loops that hold a permit and have not yet handed it to a worker.
Admittees == {r \in Repositories : pc[r] = "admitted"}

\* Every slot is free or held by exactly one loop or worker, whichever way a
\* dispatch pass or a worker ends: no slot is leaked and none is given twice.
PermitsConserved == available + Cardinality(Admittees) + Cardinality(running) = Limit

\* Round-robin: every grant to a peer brings a waiting repository strictly closer
\* to its turn, so fewer than N grants pass it by.
WaitersApproach ==
    [][\A r \in waiting \cap waiting' : available' < available => Distance(r)' < Distance(r)]_vars

\* A repository with claimable work and no worker gets one, whatever its peers do.
Starving(r) == queued[r] > 0 /\ ~\E w \in running : w[1] = r
NobodyStarves == \A r \in Repositories : Starving(r) ~> ~Starving(r)
===============================================================================

---------------------------- MODULE MergeProjection ----------------------------
(***************************************************************************)
(* What the reconciliation of pull requests promises, without daemons,     *)
(* claims and their leases, commands and their requests: what is seen of a *)
(* pull request is applied and then forgotten, in this order and once; a   *)
(* merge is applied only when the ticket shows it; only merged tickets are *)
(* completed, and what depends on them is released only when all of it is; *)
(* an event asks for one more attempt at its ticket once, and a ticket     *)
(* gets a few.                                                             *)
(*                                                                         *)
(* A ticket whose policy tags people changed, or whose tags contradict     *)
(* each other, is theirs to decide about: its merge is applied unseen.     *)
(***************************************************************************)
EXTENDS Naturals, FiniteSets

CONSTANTS
    Tickets,    \* tickets with a pull request
    Followers,  \* tasks that wait for others
    Needs,      \* all that a follower depends on, directly or not
    Events,     \* what a pull request can be seen as
    Merges,     \* the events that are merges
    Limit       \* continuations per ticket

VARIABLES
    event,      \* how far each event of a ticket has come
    merged,     \* tickets whose pull request is merged
    completed,  \* tickets that are shown as completed
    exempt,     \* tickets that people decide about
    ready,      \* followers that are released
    continued   \* the events for which a ticket was continued

vars == <<event, merged, completed, exempt, ready, continued>>

Init ==
    /\ event = [t \in Tickets |-> [e \in Events |-> "pending"]]
    /\ merged \subseteq Tickets /\ exempt \subseteq Tickets
    /\ completed = {} /\ ready = {}
    /\ continued = [t \in Tickets |-> {}]

Merge(t) ==
    /\ merged' = merged \cup {t}
    /\ UNCHANGED <<event, completed, exempt, ready, continued>>

Complete(t) ==
    /\ t \in merged
    /\ completed' = completed \cup {t}
    /\ UNCHANGED <<event, merged, exempt, ready, continued>>

Exempt(t) ==
    /\ exempt' = exempt \cup {t}
    /\ UNCHANGED <<event, merged, completed, ready, continued>>

Release(f) ==
    /\ Needs[f] \subseteq completed
    /\ ready' = ready \cup {f}
    /\ UNCHANGED <<event, merged, completed, exempt, continued>>

\* People are asked about a follower.
Withdraw(f) ==
    /\ ready' = ready \ {f}
    /\ UNCHANGED <<event, merged, completed, exempt, continued>>

Continue(t, e) ==
    /\ event[t][e] = "pending" /\ e \notin Merges
    /\ e \notin continued[t] /\ Cardinality(continued[t]) < Limit
    /\ continued' = [continued EXCEPT ![t] = @ \cup {e}]
    /\ UNCHANGED <<event, merged, completed, exempt, ready>>

\* The event goes on to its next stage, and no other does.
Goes(t, e, from, to) ==
    /\ event[t][e] = from /\ event'[t][e] = to
    /\ event' = [event EXCEPT ![t][e] = to]

Apply(t, e) ==
    /\ e \in Merges => t \in completed \cup exempt
    /\ Goes(t, e, "pending", "applied")
    /\ UNCHANGED <<merged, completed, exempt, ready, continued>>

Forget(t, e) ==
    /\ Goes(t, e, "applied", "forgotten")
    /\ UNCHANGED <<merged, completed, exempt, ready, continued>>

Next ==
    \/ \E t \in Tickets :
         \/ Merge(t) \/ Complete(t) \/ Exempt(t)
         \/ \E e \in Events : Continue(t, e) \/ Apply(t, e) \/ Forget(t, e)
    \/ \E f \in Followers : Release(f) \/ Withdraw(f)

Spec == Init /\ [][Next]_vars
================================================================================

---------------------------- MODULE MCTaskLedger ----------------------------
(* A small instance of TaskLedger: two tasks of one ticket and two daemons   *)
(* of one repository.  Liveness forbids the symmetry of the daemons.         *)
EXTENDS TaskLedger

CONSTANTS t1, t2, d1, d2, repo, ticket

OneTicket == [t \in Tasks |-> ticket]
OneRepository == [t \in Tasks |-> repo]
AllServe == [d \in Daemons |-> repo]
OnlyTicket == {ticket}
OwnsBranch == {t1}
=============================================================================

------------------------ MODULE MCTicketAuthorization ------------------------
(* A ticket of each kind that people move six times; one recovery attempt   *)
(* and two troubles, so that these alone can use up the attempts, as a      *)
(* ticket that has moved on does without any.                               *)
EXTENDS TicketAuthorization
=============================================================================

----------------------------- MODULE MCTriggerPoll -----------------------------
(* Instances of TriggerPoll for TLC: one label ticket, one ticket of a source *)
(* whose revision is a hash of the matched condition, and polls that overlap. *)
EXTENDS TriggerPoll

CONSTANTS event, state, p1, p2
BothKinds == {event, state}
OnlyEvent == {event}
TwoPollers == {p1, p2}
===============================================================================

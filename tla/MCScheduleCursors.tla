-------------------------- MODULE MCScheduleCursors --------------------------
(* Instances of ScheduleCursors for TLC: two daemons and a one-shot run with *)
(* the definition `old`, one daemon with the definition `new`.               *)
EXTENDS ScheduleCursors, TLC

CONSTANTS a, b, c, once, old, new
Handover == {a, c, once}
OnceOnly == {once}
OldAndNew == {old, new}
OneDefinitionEach == [d \in Owners |-> IF d = c THEN new ELSE old]
Periods == [f \in Definitions |-> IF f = old THEN 1 ELSE 2]
===============================================================================

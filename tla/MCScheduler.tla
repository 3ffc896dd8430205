----------------------------- MODULE MCScheduler -----------------------------
(***************************************************************************)
(* An instance of Scheduler for TLC: Bots x and y; r3 is a caller of y,    *)
(* the others are callers of x.                                            *)
(***************************************************************************)
EXTENDS Scheduler

CONSTANTS x, y, r1, r2, r3

TwoBots == [r \in Requests |-> IF r = r3 THEN y ELSE x]
OneEach == [b \in Bots |-> 1]
==============================================================================

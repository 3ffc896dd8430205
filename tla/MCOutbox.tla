------------------------------ MODULE MCOutbox ------------------------------
(***************************************************************************)
(* Instances of Outbox for TLC.  Callers c1 and c3 use one key for         *)
(* different content.  The callers and run r write to peer x, run q to y.  *)
(***************************************************************************)
EXTENDS Outbox

CONSTANTS c1, c3, r, q, x, y, k, same, other

Keys == [c \in Callers |-> k]
Bodies == [c \in Callers |-> IF c = c3 THEN other ELSE same]
Targets == [s \in Callers \cup Runs |-> IF s = q THEN y ELSE x]
EventBound == [e \in Runs |-> 2]
OneEach == [e \in Runs |-> 1]
=============================================================================

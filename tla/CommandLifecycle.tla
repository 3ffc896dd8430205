-------------------------- MODULE CommandLifecycle --------------------------
(***************************************************************************)
(* What a Bot promises the sender of a command (docs/messaging.md, section *)
(* on recovery; docs/protocol.md 525-533), with no journal, broker, worker *)
(* or crash in sight: a command is accepted once, its side effect begins   *)
(* at most once and only while the command is still open, and once settled *)
(* it stays settled.  Executor.tla implements it (property LifecycleSpec). *)
(***************************************************************************)
EXTENDS Naturals

CONSTANT Commands

VARIABLES phase,    \* [Commands -> Phases]
          begun     \* [Commands -> how often the side effect has begun]

Phases == {"unknown", "accepted", "running", "settled"}

Init == /\ phase = [c \in Commands |-> "unknown"]
        /\ begun = [c \in Commands |-> 0]

Moves(c, from, to) == /\ phase[c] \in from
                      /\ phase' = [phase EXCEPT ![c] = to]

Accept(c) == Moves(c, {"unknown"}, "accepted") /\ UNCHANGED begun
Begin(c)  == Moves(c, {"accepted"}, "running") /\ begun' = [begun EXCEPT ![c] = @ + 1]
Settle(c) == Moves(c, {"accepted", "running"}, "settled") /\ UNCHANGED begun

Next == \E c \in Commands : Accept(c) \/ Begin(c) \/ Settle(c)

Spec == Init /\ [][Next]_<<phase, begun>>
=============================================================================

----------------------------- MODULE MCExecutor -----------------------------
(***************************************************************************)
(* Instances of Executor for TLC: messages of one peer, which are in one   *)
(* session (SessionShard) or hash to two shards (SplitShard).              *)
(***************************************************************************)
EXTENDS Executor

CONSTANTS a, b, c, d,   \* messages
          p, q,         \* senders
          s1, s2        \* shards

PairStream == <<a, b>>
FourStream == <<c, d, a, b>>

SessionSender == [m \in Msgs |-> p]
SessionShard == [m \in Msgs |-> s1]
SplitShard == [m \in Msgs |-> IF m = b THEN s2 ELSE s1]

Mixed == [m \in Msgs |-> IF m = c THEN "transfer" ELSE IF m = d THEN "feedback" ELSE "task"]
=============================================================================

----------------------------- MODULE MCAdapter -----------------------------
(***************************************************************************)
(* Instances of Adapter for TLC: a notice of the daemon, without a session  *)
(* key; messages of two senders under a key that is the ID of the first     *)
(* message, one of them to an agent of the allow list; and an event about a *)
(* run.                                                                     *)
(***************************************************************************)
EXTENDS Adapter

CONSTANTS p, q, g

Message(from, to, key, kind) == [from |-> from, agent |-> to, key |-> key, kind |-> kind]

FollowUps == {Message(p, NoAgent, NoKey, "local"), Message(p, NoAgent, 1, "request"),
              Message(q, NoAgent, 1, "request"), Message(p, g, 1, "request"),
              Message(p, NoAgent, 1, "feedback")}
=============================================================================

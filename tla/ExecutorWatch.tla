---------------------------- MODULE ExecutorWatch ----------------------------
(***************************************************************************)
(* Executor with a history variable: the commands that must not begin any   *)
(* more, because they came to wait for a slot, or gave theirs back, while   *)
(* their sender was not trusted or their deadline had passed, and that has  *)
(* been so ever since.                                                      *)
(***************************************************************************)
EXTENDS Executor

VARIABLE barred

watched == <<vars, barred>>

Admissible(m) == Trusted(m) /\ m \notin expired
HoldsSlot(m) == \E s \in Shards : worker[s].msg = m /\ worker[s].pc \in Slotted

\* One that has neither begun nor a slot, and is not admissible.
Waits(m) == effects[m] = 0 /\ ~HoldsSlot(m) /\ ~Admissible(m)

WatchInit == Init /\ barred = {m \in Runs : Waits(m)}

WatchNext ==
  /\ Next
  /\ barred' = {m \in Runs : Waits(m)' \/ (m \in barred /\ ~Admissible(m)')}

WatchSpec == WatchInit /\ [][WatchNext]_watched
FairWatchSpec == WatchSpec /\ Fairness

\* What was true before a command waited for its slot is read again after the wait
\* (service.go 738-753): a barred command never begins, over any number of grants,
\* requeues, retries and restarts, unless it becomes admissible again.
BarredNeverBegins == \A m \in barred : effects[m] = 0

\* A command begins when it is its turn in its shard, and only if it is admissible
\* after it has got its slot (work and deliver, service.go 611-655 and 738-753).
BeginsInTurn == ShardSerial /\ BarredNeverBegins
=============================================================================

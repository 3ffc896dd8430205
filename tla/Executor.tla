------------------------------ MODULE Executor ------------------------------
(***************************************************************************)
(* One Bot as the receiver of messages: the durable pull consumer of its   *)
(* inbox, the part of the journal that holds inbox, work and run events,   *)
(* the sharded workers that deliver work to the adapter, and restart       *)
(* recovery (src/internal/messaging/service.go, journal.go).               *)
(*                                                                         *)
(* The journal appends one record with write+fsync and then applies it to  *)
(* memory, so the journal variables are both what is on disk and what is   *)
(* in memory; a crash between two appends is the action Crash, and a       *)
(* failing append (AppendFails) leaves both unchanged.                     *)
(***************************************************************************)
EXTENDS Integers, Sequences, FiniteSets

CONSTANTS Msgs,         \* identities of the messages sent to this Bot
          NoMsg,        \* none of them
          Stream,       \* the order in which the broker stores them
          Peers,        \* the senders
          Kind,         \* [Msgs -> Kinds]
          Sender,       \* [Msgs -> Peers]
          Shards,       \* the worker shards
          Shard,        \* [Msgs -> Shards], workShard
          Role,         \* config role of this Bot
          Unsupported,  \* commands that name an agent outside the allow list
          MaxRunning,   \* maxConcurrent of the Bot's limiter
          MaxQueued,    \* maxQueued of the Bot's limiter
          MaxAckPending,\* the consumer's limit of unacknowledged deliveries
          MaxDeltas,    \* bound: output events of one run
          MaxStops,     \* bound: crashes and clean stops
          MaxFailures   \* bound: appends that fail

TrustStates == {"trusted", "unready", "absent", "revoked"}
Kinds == {"chat", "task", "feedback", "transfer", "note"}

ASSUME ExecutorAssumption ==
  /\ NoMsg \notin Msgs
  /\ Stream \in Seq(Msgs)
  /\ Kind \in [Msgs -> Kinds]
  /\ Sender \in [Msgs -> Peers]
  /\ Shard \in [Msgs -> Shards]
  /\ Role \in {"agent", "console"}
  /\ Unsupported \subseteq Msgs
  /\ MaxRunning \in Nat \ {0} /\ MaxQueued \in Nat /\ MaxAckPending \in Nat \ {0}
  /\ MaxDeltas \in Nat /\ MaxStops \in Nat /\ MaxFailures \in Nat
  /\ IsFiniteSet(Msgs) /\ IsFiniteSet(Shards)

VARIABLES pos,      \* how many messages of Stream the consumer has delivered once
          unacked,  \* delivered and not acknowledged: the broker redelivers them
          receiver, \* the message handleInbox has found trusted, or NoMsg
          inbox,    \* journal: received messages, cursor = position
          work,     \* journal: [Msgs -> admittedWork]
          outbox,   \* journal: [Msgs -> run events published for the message]
          pendingCommands,
          worker,   \* [Shards -> the activation of deliver, or Idle]
          mode,     \* life of the process
          trust,    \* [Peers -> what registry and trust store say of the peer]
          expired,  \* messages whose expiresAt has passed
          effects,  \* [Msgs -> executions the adapter has begun]
          stops, failures

journal == <<inbox, work, outbox, pendingCommands>>
environment == <<trust, expired>>
consumer == <<pos, unacked, receiver>>
vars == <<consumer, journal, worker, mode, environment, effects, stops, failures>>

Command(m) == Kind[m] \in {"chat", "task"}
HasWork(m) == Kind[m] # "note"
Capacity == MaxRunning + MaxQueued

Idle == [pc |-> "idle", msg |-> NoMsg, seq |-> 0]

\* Program points of deliver at which the limiter's slot is held.
Slotted == {"granted", "admit", "start", "call", "running", "streaming", "failing", "reply", "finish"}
Points == Slotted \cup {"idle", "check", "queue", "file", "feed"}

Holders == {s \in Shards : worker[s].pc \in Slotted /\ Command(worker[s].msg)}
Waiting == {s \in Shards : worker[s].pc = "queue"}

Init ==
  /\ pos = 0 /\ unacked = {} /\ receiver = NoMsg
  /\ inbox = <<>>
  /\ work = [m \in Msgs |-> [state |-> "none", seq |-> 0]]
  /\ outbox = [m \in Msgs |-> <<>>]
  /\ pendingCommands = 0
  /\ worker = [s \in Shards |-> Idle]
  /\ mode = "down"
  /\ trust = [p \in Peers |-> "absent"]
  /\ expired = {}
  /\ effects = [m \in Msgs |-> 0]
  /\ stops = 0 /\ failures = 0

(***************************************************************************)
(* The journal                                                             *)
(***************************************************************************)
Trusted(m) == trust[Sender[m]] = "trusted"
Revoked(m) == trust[Sender[m]] = "revoked"
Absent(m) == trust[Sender[m]] = "absent"    \* no discovery record, no key
Alive == mode \in {"recovering", "up"}      \* the service context is not cancelled

Open(state) == state \notin {"none", "done"}

WriteRecounts(m, w) ==
  /\ work' = [work EXCEPT ![m] = w]
  /\ pendingCommands' = 
       IF ~Command(m) THEN pendingCommands
       ELSE IF w.state = "queued" THEN pendingCommands + 1
       ELSE IF w.state = "done" THEN pendingCommands - 1
       ELSE pendingCommands

\* apply, for a record that carries work: the counter moves with the state.
Write(m, w) ==
  /\ work' = [work EXCEPT ![m] = w]
  /\ pendingCommands' = 
       IF ~Command(m) \/ Open(w.state) = Open(work[m].state) THEN pendingCommands
       ELSE IF Open(w.state) THEN pendingCommands + 1
       ELSE pendingCommands - 1

AppendFails ==
  /\ failures < MaxFailures
  /\ failures' = failures + 1
  /\ UNCHANGED journal

SetWork(m, seq, state) ==
  /\ Write(m, [state |-> state, seq |-> seq])
  /\ UNCHANGED <<inbox, outbox, failures>>

KeyUsed(m, seq) == \E i \in DOMAIN outbox[m] : outbox[m][i].seq = seq

EmitApart(m, seq, kind, state) ==
  /\ Alive
  /\ outbox' = [outbox EXCEPT ![m] = Append(@, [kind |-> kind, seq |-> seq + 1])]
  /\ Write(m, [state |-> state, seq |-> work[m].seq])
  /\ UNCHANGED <<inbox, failures>>

\* emit and enqueue: event and work are one record, unless the idempotency key
\* of the event is already taken, in which case nothing is appended.
Emit(m, seq, kind, state) ==
  /\ Alive
  /\ IF KeyUsed(m, seq + 1)
     THEN UNCHANGED journal
     ELSE /\ outbox' = [outbox EXCEPT ![m] = Append(@, [kind |-> kind, seq |-> seq + 1])]
          /\ Write(m, [state |-> state, seq |-> seq + 1])
          /\ UNCHANGED inbox
  /\ UNCHANGED failures

EmitFails == AppendFails \/ (~Alive /\ UNCHANGED <<journal, failures>>)

(***************************************************************************)
(* receive and handleInbox                                                 *)
(***************************************************************************)
Delivered(m) == \/ m \in unacked /\ UNCHANGED pos
                \/ /\ pos < Len(Stream) /\ Stream[pos + 1] = m
                   /\ Cardinality(unacked) < MaxAckPending
                   /\ pos' = pos + 1

\* AckSync may fail before or after the server has seen the acknowledgement.
Acknowledge(m) == unacked' \in {unacked \ {m}, unacked \cup {m}}
NakForgets(m) == unacked' = unacked \ {m}
Nak(m) == unacked' = unacked \cup {m}

InInbox(m) == \E i \in DOMAIN inbox : inbox[i] = m
Full(m) == Role # "console" /\ Command(m) /\ pendingCommands >= Capacity

\* The next delivery of a batch, up to the trust check.  A revoked sender's
\* message is acknowledged and forgotten, an unknown sender's one waits.
Fetch(m) ==
  /\ mode \in {"up", "closing"} /\ receiver = NoMsg
  /\ Delivered(m)
  /\ \/ Trusted(m) /\ receiver' = m /\ Nak(m)
     \/ Revoked(m) /\ Acknowledge(m) /\ UNCHANGED receiver
     \/ ~Trusted(m) /\ ~Revoked(m) /\ Nak(m) /\ UNCHANGED receiver
  /\ UNCHANGED <<journal, worker, mode, environment, effects, stops, failures>>

\* The registry is read a second time for the sender's key; then duplicate and
\* capacity checks, and inbox entry and work in one record.
Verify(m) ==
  /\ receiver = m /\ m \in Msgs
  /\ receiver' = NoMsg
  /\ IF Absent(m) \/ InInbox(m)
     THEN Acknowledge(m) /\ UNCHANGED <<journal, failures>>
     ELSE IF Full(m)
     THEN Nak(m) /\ UNCHANGED <<journal, failures>>
     ELSE \/ /\ inbox' = Append(inbox, m)
             /\ IF HasWork(m) THEN Write(m, [state |-> "queued", seq |-> 0])
                              ELSE UNCHANGED <<work, pendingCommands>>
             /\ Acknowledge(m)
             /\ UNCHANGED <<outbox, failures>>
          \/ AppendFails /\ Nak(m)
  /\ UNCHANGED <<pos, worker, mode, environment, effects, stops>>

(***************************************************************************)
(* work and deliver.  Each action is the code between two points at which  *)
(* another goroutine, the environment or a crash can be seen.              *)
(***************************************************************************)

AnyOpen(s, m) == InInbox(m) /\ Shard[m] = s /\ Open(work[m].state)
FirstQueued(s, m) ==
  \E i \in DOMAIN inbox :
    /\ inbox[i] = m /\ Shard[m] = s /\ work[m].state = "queued"
    /\ \A j \in 1..(i - 1) : Shard[inbox[j]] = s => ~Open(work[inbox[j]].state)

\* workQueues and workHeads: the first work of the shard that is not done.
FirstOpen(s, m) ==
  \E i \in DOMAIN inbox :
    /\ inbox[i] = m /\ Shard[m] = s /\ Open(work[m].state)
    /\ \A j \in 1..(i - 1) : Shard[inbox[j]] = s => ~Open(work[inbox[j]].state)

Goto(s, pc) == worker' = [worker EXCEPT ![s].pc = pc]
Leave(s) == worker' = [worker EXCEPT ![s] = Idle]
\* After emit the local copy of the work carries the new sequence number.
Advance(s, pc) == worker' = [worker EXCEPT ![s].pc = pc, ![s].seq = @ + 1]

At(s, pc) == mode \in {"up", "closing"} /\ worker[s].pc = pc
Quiet == UNCHANGED <<consumer, mode, environment, stops>>

ConcludeOpen(s, kind) ==
  /\ \/ Emit(worker[s].msg, worker[s].seq, kind, "admitted")
     \/ EmitFails
  /\ Leave(s) /\ UNCHANGED effects /\ Quiet

\* The return statements "emit(..., done) == nil" and "setWork(..., state)".
Conclude(s, kind) ==
  /\ \/ Emit(worker[s].msg, worker[s].seq, kind, "done")
     \/ EmitFails
  /\ Leave(s) /\ UNCHANGED effects /\ Quiet

Release(s, state) ==
  /\ \/ SetWork(worker[s].msg, worker[s].seq, state)
     \/ AppendFails
  /\ Leave(s) /\ UNCHANGED effects /\ Quiet

GiveUp(s) == Leave(s) /\ UNCHANGED <<journal, failures, effects>> /\ Quiet

MoveTo(s, pc) == Goto(s, pc) /\ UNCHANGED <<journal, failures, effects>> /\ Quiet

\* The loop of work: copy the head and deliver it, or settle work that an
\* earlier activation left admitted because its last append failed.
Pick(s) ==
  /\ mode = "up" /\ worker[s].pc = "idle"
  /\ \E m \in Msgs :
       /\ FirstOpen(s, m)
       /\ \/ /\ work[m].state = "queued"
             /\ worker' = [worker EXCEPT ![s] =
                   [pc |-> "check", msg |-> m, seq |-> work[m].seq]]
             /\ UNCHANGED <<journal, failures>>
          \/ /\ work[m].state = "admitted"
             /\ IF Command(m) THEN Emit(m, work[m].seq, "indeterminate", "done") \/ EmitFails
                              ELSE SetWork(m, work[m].seq, "queued") \/ AppendFails
             /\ UNCHANGED worker
  /\ UNCHANGED effects /\ Quiet

DropUntrusted(s) == ~Trusted(worker[s].msg) /\ Release(s, "done")

\* An untrusted sender: revoked work is dropped, unknown work waits.  The code
\* reads the registry once for each question; with trust changing freely, the
\* two reads have no outcome that one read at another moment does not have.
DropOrWait(s) ==
  /\ ~Trusted(worker[s].msg)
  /\ IF Revoked(worker[s].msg) THEN Release(s, "done") ELSE GiveUp(s)

\* A console keeps chats and feedback in its inbox and runs nothing.
Passive(m) == Role = "console" /\ Kind[m] \in {"chat", "feedback"}

\* The verdict a command gets without being executed, if any.
Refusal(m) == IF m \in expired THEN {"expired"}
              ELSE IF Role = "console" THEN {"refused"}
              ELSE IF m \in Unsupported THEN {"unsupported"} ELSE {}

\* deliver up to the point where a command asks the limiter for a slot.
CheckCommand(s) ==
  LET m == worker[s].msg
  IN IF Refusal(m) = {} THEN MoveTo(s, "queue")
                        ELSE \E kind \in Refusal(m) : Conclude(s, kind)

CheckTransfer(s) ==
  LET m == worker[s].msg
  IN IF m \in expired THEN Release(s, "done")
     ELSE /\ \/ SetWork(m, worker[s].seq, "admitted") /\ Goto(s, "file")
             \/ AppendFails /\ Leave(s)
          /\ UNCHANGED effects /\ Quiet

Check(s) ==
  LET m == worker[s].msg
  IN /\ At(s, "check")
     /\ \/ DropOrWait(s)
        \/ /\ Trusted(m)
           /\ IF Passive(m) THEN Release(s, "done")
              ELSE CASE Command(m) -> CheckCommand(s)
                     [] Kind[m] = "transfer" -> CheckTransfer(s)
                     [] OTHER -> MoveTo(s, "admit")

\* limiter.Acquire: a free slot, a full queue, the deadline, or Close.  Other
\* Bots share the daemon's budget, so a free slot of this Bot may still wait.
Acquire(s) ==
  /\ At(s, "queue")
  /\ \/ Cardinality(Holders) < MaxRunning /\ MoveTo(s, "granted")
     \/ Cardinality(Waiting) > MaxQueued /\ GiveUp(s)
     \/ worker[s].msg \in expired /\ Conclude(s, "expired")
     \/ mode = "closing" /\ GiveUp(s)

\* Mutant: only the deadline is read again.
RecheckDeadline(s) ==
  /\ At(s, "granted")
  /\ IF mode = "closing" THEN GiveUp(s)
     ELSE IF worker[s].msg \in expired THEN Conclude(s, "expired")
     ELSE MoveTo(s, "admit")

\* Time and trust are read again once the slot is held.
Recheck(s) ==
  /\ At(s, "granted")
  /\ IF mode = "closing" THEN GiveUp(s)
     ELSE IF worker[s].msg \in expired THEN Conclude(s, "expired")
     ELSE DropOrWait(s) \/ (Trusted(worker[s].msg) /\ MoveTo(s, "admit"))

Admit(s) ==
  LET m == worker[s].msg
      next == IF ~Command(m) THEN "feed" ELSE IF worker[s].seq = 0 THEN "start" ELSE "call"
  IN /\ At(s, "admit")
     /\ \/ SetWork(m, worker[s].seq, "admitted") /\ Goto(s, next)
        \/ AppendFails /\ Leave(s)
     /\ UNCHANGED effects /\ Quiet

Start(s) ==
  /\ At(s, "start")
  /\ \/ Emit(worker[s].msg, worker[s].seq, "started", "admitted") /\ Advance(s, "call")
     \/ EmitFails /\ Leave(s)
  /\ UNCHANGED effects /\ Quiet

\* The adapter begins the execution, proves it never began (a failed dial), or
\* fails before it begins, which it may not be able to tell (ExecutionError).
Call(s) ==
  /\ At(s, "call")
  /\ \/ /\ effects' = [effects EXCEPT ![worker[s].msg] = @ + 1]
        /\ Goto(s, "running") /\ UNCHANGED <<journal, failures>> /\ Quiet
     \/ Release(s, "queued")
     \/ Conclude(s, "failed") \/ Conclude(s, "indeterminate")

Executing(s) == At(s, "running") \/ At(s, "streaming")

\* The Emit callback; an error of it must stop the execution.
Output(s) ==
  /\ Executing(s) /\ worker[s].seq <= MaxDeltas
  /\ \/ Emit(worker[s].msg, worker[s].seq, "delta", "admitted") /\ Advance(s, "streaming")
     \/ EmitFails /\ Goto(s, "failing")
  /\ UNCHANGED effects /\ Quiet

FailAsExpired(s) ==
  /\ Executing(s) \/ At(s, "failing")
  /\ \/ worker[s].msg \in expired /\ Conclude(s, "expired")
     \/ worker[s].msg \notin expired /\ Conclude(s, "failed")

\* An adapter error after the execution began is never retryable.
Fail(s) ==
  /\ Executing(s) \/ At(s, "failing")
  /\ Conclude(s, "failed") \/ Conclude(s, "indeterminate")

Return(s) ==
  /\ Executing(s)
  /\ \/ MoveTo(s, "finish")
     \/ At(s, "running") /\ worker[s].seq <= MaxDeltas /\ MoveTo(s, "reply")

\* The reply of an adapter that did not stream, in one or more chunks.
Reply(s) ==
  /\ At(s, "reply")
  /\ \/ /\ Emit(worker[s].msg, worker[s].seq, "delta", "admitted")
        /\ \/ worker[s].seq < MaxDeltas /\ Advance(s, "reply")
           \/ Advance(s, "finish")
     \/ EmitFails /\ Leave(s)
  /\ UNCHANGED effects /\ Quiet

Finish(s) ==
  /\ At(s, "finish")
  /\ Conclude(s, "completed") \/ Conclude(s, "accepted")

\* Feedback and file notifications do not execute: a retryable error queues
\* them again.
Notify(s) ==
  /\ At(s, "feed") \/ At(s, "file")
  /\ Release(s, "done") \/ Release(s, "queued")

Work(s) == \/ Pick(s) \/ Check(s) \/ Acquire(s) \/ Recheck(s) \/ Admit(s)
           \/ Start(s) \/ Call(s) \/ Output(s) \/ Fail(s) \/ Return(s)
           \/ Reply(s) \/ Finish(s) \/ Notify(s)

(***************************************************************************)
(* Start, Close and crashes                                                *)
(***************************************************************************)
Down == /\ mode' = "down" /\ receiver' = NoMsg
        /\ worker' = [s \in Shards |-> Idle]

Boot ==
  /\ mode = "down"
  /\ mode' = "recovering"
  /\ UNCHANGED <<consumer, journal, worker, environment, effects, stops, failures>>

RecoverRequeues(m) ==
  /\ mode = "recovering" /\ work[m].state = "admitted"
  /\ \/ SetWork(m, work[m].seq, "queued") /\ UNCHANGED <<receiver, mode, worker>>
     \/ AppendFails /\ Down
  /\ UNCHANGED <<pos, unacked, environment, effects, stops>>

\* Work that was admitted when the process ended: a command is never executed
\* again, the rest is.  A failing append makes Start give up.
Recover(m) ==
  /\ mode = "recovering" /\ work[m].state = "admitted"
  /\ \/ /\ IF Command(m) THEN Emit(m, work[m].seq, "indeterminate", "done")
                         ELSE SetWork(m, work[m].seq, "queued")
        /\ UNCHANGED <<receiver, mode, worker>>
     \/ AppendFails /\ Down
  /\ UNCHANGED <<pos, unacked, environment, effects, stops>>

Ready ==
  /\ mode = "recovering" /\ \A m \in Msgs : work[m].state # "admitted"
  /\ mode' = "up"
  /\ UNCHANGED <<consumer, journal, worker, environment, effects, stops, failures>>

Crash ==
  /\ mode # "down" /\ stops < MaxStops
  /\ stops' = stops + 1
  /\ Down
  /\ UNCHANGED <<pos, unacked, journal, environment, effects, failures>>

Close ==
  /\ mode = "up" /\ stops < MaxStops
  /\ stops' = stops + 1
  /\ mode' = "closing"
  /\ UNCHANGED <<consumer, journal, worker, environment, effects, failures>>

\* workers.Wait: every activation of deliver has returned.
Closed ==
  /\ mode = "closing" /\ receiver = NoMsg
  /\ \A s \in Shards : worker[s].pc = "idle"
  /\ Down
  /\ UNCHANGED <<pos, unacked, journal, environment, effects, stops, failures>>

(***************************************************************************)
(* What the service reads and does not write: trust and time               *)
(***************************************************************************)
TrustChanges(p) ==
  /\ \E t \in TrustStates \ {trust[p]} :
       trust' = [trust EXCEPT ![p] = t]
  /\ UNCHANGED <<consumer, journal, worker, mode, expired, effects, stops, failures>>

Expires(m) ==
  /\ m \notin expired /\ Kind[m] \in {"chat", "task", "transfer"}
  /\ expired' = expired \cup {m}
  /\ UNCHANGED <<consumer, journal, worker, mode, trust, effects, stops, failures>>

Process == Boot \/ Ready \/ Crash \/ Close \/ Closed
Environment == (\E p \in Peers : TrustChanges(p)) \/ (\E m \in Msgs : Expires(m))

Next == \/ \E m \in Msgs : Fetch(m) \/ Verify(m) \/ Recover(m)
        \/ \E s \in Shards : Work(s)
        \/ Process
        \/ Environment

Spec == Init /\ [][Next]_vars

(***************************************************************************)
(* Properties                                                              *)
(***************************************************************************)
WorkState == {"none", "queued", "admitted", "done"}
Verdicts == {"expired", "refused", "unsupported", "failed", "indeterminate",
             "completed", "accepted"}
EventKinds == {"started", "delta"} \cup Verdicts

\* Every variable has its type (journalRecord, admittedWork, publication).
TypeOK ==
  /\ pos \in 0..Len(Stream) /\ unacked \subseteq Msgs /\ receiver \in Msgs \cup {NoMsg}
  /\ inbox \in Seq(Msgs)
  /\ work \in [Msgs -> [state : WorkState, seq : Nat]]
  /\ outbox \in [Msgs -> Seq([kind : EventKinds, seq : Nat])]
  /\ pendingCommands \in Nat
  /\ worker \in [Shards -> [pc : Points, msg : Msgs \cup {NoMsg}, seq : Nat]]
  /\ mode \in {"down", "recovering", "up", "closing"}
  /\ trust \in [Peers -> TrustStates] /\ expired \subseteq Msgs
  /\ effects \in [Msgs -> Nat]
  /\ stops \in 0..MaxStops /\ failures \in 0..MaxFailures

Runs == {m \in Msgs : Command(m)}
Received == {inbox[i] : i \in DOMAIN inbox}
OpenCommands == {m \in Msgs : Command(m) /\ Open(work[m].state)}
Settled(m) == \E i \in DOMAIN outbox[m] : outbox[m][i].kind \in Verdicts

\* Service.Request at the sender: what an event makes of the request if it is the
\* last of its run in the sender's inbox.
Status(kind) == CASE kind \in {"started", "delta"} -> "running"
                  [] kind \in {"accepted", "completed", "indeterminate"} -> kind
                  [] OTHER -> "failed"

\* What a caller of Request may be shown.  Events enter the sender's inbox in any
\* order, since one that is put back is overtaken, and some are not there yet: each
\* of them may be the last one.
Shown(m) == {"sent"} \cup {Status(outbox[m][i].kind) : i \in DOMAIN outbox[m]}
Final == {"accepted", "completed", "indeterminate", "failed"}

\* pendingCommands, adjusted one record at a time by apply (journal.go 200-207)
\* and never recomputed, is the number of commands that are not done, and the
\* receiver's check against it keeps an agent's durable backlog within
\* maxConcurrent + maxQueued over restarts, retries and failed appends.
BacklogBounded ==
  /\ pendingCommands = Cardinality(OpenCommands)
  /\ Role = "agent" => pendingCommands <= Capacity

\* A redelivery after a lost acknowledgement, a nak or a crash never enters a
\* message twice into the inbox (received map, service.go 574-578), so a cursor
\* names one message for ever.
CursorsUnique == \A i, j \in DOMAIN inbox : inbox[i] = inbox[j] => i = j

\* The events of a run are numbered 1, 2, 3, ... without a gap and without a
\* repetition, and the work record agrees with the last of them: event and
\* sequence number are one record (emit, service.go 825-838), so neither a
\* crash nor a failed append can separate them.
EventsContiguous ==
  \A m \in Msgs :
    /\ work[m].seq = Len(outbox[m])
    /\ \A i \in DOMAIN outbox[m] : outbox[m][i].seq = i

\* A run has at most one verdict, nothing follows it, and work with a verdict
\* is done: recovery, a retry or a late worker never adds a second one.
OneVerdict ==
  \A m \in Msgs :
    /\ \A i \in DOMAIN outbox[m] : outbox[m][i].kind \in Verdicts => i = Len(outbox[m])
    /\ Settled(m) => work[m].state = "done"

\* What the journal says of a run is one numbered sequence that ends with the
\* only verdict, over crashes, retries and failed appends (emit, 825-838).
RunsAreOrdered == EventsContiguous /\ OneVerdict

\* What an event says of the side effect is true: an expired, refused or
\* unsupported command was never executed, one that sent output was.  So is what a
\* requester is shown, in whatever order the events reach it: completed or accepted
\* only what was executed, a final status only of work that is done, and never two
\* different ones.
VerdictHonest ==
  \A m \in Runs :
    LET final == Shown(m) \cap Final
    IN  /\ \A i \in DOMAIN outbox[m] :
             /\ outbox[m][i].kind \in {"expired", "refused", "unsupported"} => effects[m] = 0
             /\ outbox[m][i].kind = "delta" => effects[m] = 1
        /\ final # {} => work[m].state = "done"
        /\ final \cap {"completed", "accepted"} # {} => effects[m] = 1
        /\ \A status, other \in final : status = other

\* While a command of a shard has begun, everything the inbox holds before it in
\* the same shard is done (the serial worker of service.go 611-655).
ShardSerial ==
  \A i, j \in DOMAIN inbox :
    /\ i < j /\ Shard[inbox[i]] = Shard[inbox[j]]
    /\ effects[inbox[j]] > 0 \/ work[inbox[j]].state = "admitted"
    => ~Open(work[inbox[i]].state)

\* Work becomes done with a verdict for the sender in the same record, except
\* what is not a run and what a revoked sender sent: a requester never waits
\* for a command that was dropped without a word.
NoSilentDrop ==
  [][\A m \in Msgs :
       /\ Command(m) /\ Open(work[m].state) /\ ~Open(work[m].state)'
       /\ ~(Role = "console" /\ Kind[m] = "chat")
       => Settled(m)' \/ Revoked(m)]_vars

\* Once the broker may forget a message, the Bot holds it durably; the only
\* others it lets go are those of a revoked sender and, with the key lookup of
\* handleInbox 561-564, of a sender that has left the registry.
Outstanding(m) == m \in unacked \/ \E i \in (pos + 1)..Len(Stream) : Stream[i] = m
AckedIsDurable ==
  [][\A m \in Msgs : Outstanding(m) /\ ~Outstanding(m)' 
       => m \in Received' \/ Revoked(m) \/ Absent(m)]_vars

\* From the acknowledgement of a delivery to the verdict on its command nothing
\* is forgotten without a word (receive 531-537, deliver 679-823).
NothingForgotten == NoSilentDrop /\ AckedIsDurable

\* What the code does not keep, though it says so.

\* The comment of handleInbox (service.go 541-542): "returns false for transient
\* persistence or discovery/authentication delays. Invalid or explicitly revoked
\* deliveries are discarded."  A sender that leaves the registry between the
\* trust check (558) and the key lookup (561) loses its message.
OnlyRevokedDiscarded ==
  [][\A m \in Msgs : Outstanding(m) /\ ~Outstanding(m)'
       => m \in Received' \/ Revoked(m)]_vars

\* docs/messaging.md 68: messages of one sender, agent and session go to one
\* shard and do not overtake each other.  Without duplicates in Stream, the
\* inbox order of a shard is the order in which the broker stored them.  A
\* message put back for its sender or the backlog is overtaken.
Before(x, y) == \E i, j \in DOMAIN Stream : i < j /\ Stream[i] = x /\ Stream[j] = y
NoOvertaking ==
  \A i, j \in DOMAIN inbox :
    i < j /\ Shard[inbox[i]] = Shard[inbox[j]] => ~Before(inbox[j], inbox[i])

(***************************************************************************)
(* The abstract lifecycle of a command, and liveness                       *)
(***************************************************************************)
Phase(m) == CASE work[m].state = "none" -> "unknown"
              [] work[m].state = "done" -> "settled"
              [] OTHER -> IF effects[m] = 0 THEN "accepted" ELSE "running"

Lifecycle == INSTANCE CommandLifecycle WITH
               Commands <- Runs, phase <- [m \in Runs |-> Phase(m)],
               begun <- [m \in Runs |-> effects[m]]
\* Executor implements CommandLifecycle: whatever is redelivered, retried,
\* recovered or fails, the adapter begins a command at most once, after it is in
\* the journal and before its verdict (service.go 169-191, 754-823).
LifecycleSpec == Lifecycle!Spec

(***************************************************************************)
(* Fairness: the goroutines run, a delivery is retried until it is         *)
(* acknowledged, the adapter is bounded by its timeout, deadlines pass, a  *)
(* stopped daemon is started again, and an endpoint that refuses a         *)
(* notification does not refuse it for ever.  Close returns although a     *)
(* message is put back again and again: the receiver ends after its batch. *)
(***************************************************************************)
Fairness ==
  /\ WF_vars(Boot) /\ WF_vars(Ready) /\ SF_vars(Closed)
  /\ \A m \in Msgs : /\ WF_vars(Recover(m)) /\ WF_vars(Verify(m)) /\ WF_vars(Expires(m))
                     /\ SF_vars(Verify(m) /\ m \notin unacked')
                     /\ SF_vars(Fetch(m) /\ m \notin unacked')
                     /\ SF_vars(Fetch(m) /\ receiver' = m)
  /\ \A s \in Shards : WF_vars(Work(s)) /\ SF_vars(Notify(s) /\ Release(s, "done"))

FairSpec == Spec /\ Fairness

\* If no sender stays untrusted without being revoked, every message the broker
\* stores is eventually in the inbox or discarded, and all its work is done.
EventuallyDone ==
  (\A p \in Peers : <>[](trust[p] \in {"trusted", "revoked"}))
    => \A m \in Msgs : <>[](~Outstanding(m) /\ ~Open(work[m].state))
=============================================================================

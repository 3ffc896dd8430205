------------------------------- MODULE Outbox -------------------------------
(***************************************************************************)
(* The durable outbox of a Bot (src/internal/messaging/service.go 230-407  *)
(* and journal.go).  A publication is first a record of the journal; it is *)
(* then sent to the broker by the caller of Publish or, later and again    *)
(* until it is known to be accepted, by the loop publishPending.           *)
(*                                                                         *)
(* A publication is named by its place in the journal.  The mutex          *)
(* publishMu is held by the flusher whose program point is "checked",      *)
(* "sent" or "acked".  The broker drops a message whose identity it has    *)
(* seen within its window.                                                 *)
(***************************************************************************)
EXTENDS Integers, Sequences, FiniteSets

CONSTANTS Callers,      \* clients of Publish
          KeyOf,        \* [Callers -> idempotency keys], or NoKey
          BodyOf,       \* [Callers -> what the fingerprint covers]
          NoKey,
          Runs,         \* executions whose events the Bot publishes
          Peers,        \* the Bots messages are sent to
          TargetOf,     \* [Callers \cup Runs -> Peers]
          Loop,         \* the goroutine publishPending
          MaxEvents,    \* [Runs -> bound on the events of a run]
          MaxStops,     \* bound on the ends of the process
          MaxForgets    \* bound on what the broker's window forgets

ASSUME OutboxAssumption ==
  /\ Loop \notin Callers /\ NoKey \notin Runs
  /\ Callers \cap Runs = {}
  /\ TargetOf \in [Callers \cup Runs -> Peers]
  /\ MaxEvents \in [Runs -> Nat] /\ MaxStops \in Nat /\ MaxForgets \in Nat
  /\ \A c \in Callers : KeyOf[c] \notin Runs \X Nat

VARIABLES log,          \* publications in the order of the journal
          published,    \* those with a Published record
          tails,        \* [Runs -> its newest event], 0 if there is none
          pending,      \* messageJournal.pending
          batch,        \* what the loop took from pending and has not handled
          pc,           \* program point of each flusher
          cur,          \* [Callers -> the publication it flushes], 0 if none
          trusted,      \* the peers for which trusted() holds
          inflight,     \* messages on their way to the broker
          window,       \* messages the broker's duplicate window remembers
          stream,       \* the stream of the broker
          stops, forgets

journal == <<log, published, tails>>
broker == <<inflight, window, stream, forgets>>
vars == <<journal, pending, batch, pc, cur, trusted, broker, stops>>

Flushers == Callers \cup {Loop}
Points == {"idle", "publish", "checked", "sent", "acked", "ok", "failed", "refused"}
Ids == DOMAIN log
Elements(seq) == {seq[i] : i \in DOMAIN seq}
Events(r) == {i \in Ids : log[i].run = r}

Item(p) == IF p = Loop THEN Head(batch) ELSE cur[p]
MutexFree == \A p \in Flushers : pc[p] \notin {"checked", "sent", "acked"}

Init ==
  /\ log = <<>> /\ published = {} /\ pending = <<>> /\ batch = <<>>
  /\ tails = [r \in Runs |-> 0]
  /\ pc = [p \in Flushers |-> "idle"]
  /\ cur = [c \in Callers |-> 0]
  /\ trusted \in SUBSET Peers
  /\ inflight = {} /\ window = {} /\ stream = <<>>
  /\ stops = 0 /\ forgets = 0

(***************************************************************************)
(* enqueue                                                                 *)
(***************************************************************************)
Goto(p, point) == pc' = [pc EXCEPT ![p] = point]

\* The record of a publication is appended to the journal and applied.
AppendPublication(entry) ==
  /\ log' = Append(log, entry)
  /\ pending' = Append(pending, Len(log) + 1)
  /\ UNCHANGED published

WithKey(c) == {i \in Ids : KeyOf[c] # NoKey /\ log[i].key = KeyOf[c]}

EnqueueAlways(c) ==
  /\ pc[c] = "idle" /\ TargetOf[c] \in trusted
  /\ AppendPublication([key |-> KeyOf[c], body |-> BodyOf[c], target |-> TargetOf[c],
              run |-> NoKey, previous |-> 0])
  /\ UNCHANGED tails
  /\ cur' = [cur EXCEPT ![c] = Len(log) + 1] /\ Goto(c, "publish")
  /\ UNCHANGED <<batch, trusted, broker, stops>>

\* A new publication needs a target that is authenticated and trusted.
Enqueue(c) ==
  /\ pc[c] = "idle" /\ WithKey(c) = {} /\ TargetOf[c] \in trusted
  /\ AppendPublication([key |-> KeyOf[c], body |-> BodyOf[c], target |-> TargetOf[c],
              run |-> NoKey, previous |-> 0])
  /\ UNCHANGED tails
  /\ cur' = [cur EXCEPT ![c] = Len(log) + 1] /\ Goto(c, "publish")
  /\ UNCHANGED <<batch, trusted, broker, stops>>

\* A known key returns its publication, if the content is the same.
Repeat(c) ==
  /\ pc[c] = "idle"
  /\ \E i \in WithKey(c) :
        /\ log[i].body = BodyOf[c]
        /\ cur' = [cur EXCEPT ![c] = i]
  /\ Goto(c, "publish")
  /\ UNCHANGED <<journal, pending, batch, trusted, broker, stops>>

\* ErrIdempotencyConflict, or a target that may not be written to.
Refuse(c) ==
  /\ pc[c] = "idle"
  /\ \/ \E i \in WithKey(c) : log[i].body # BodyOf[c]
     \/ WithKey(c) = {} /\ TargetOf[c] \notin trusted
  /\ Goto(c, "refused")
  /\ UNCHANGED <<journal, pending, batch, cur, trusted, broker, stops>>

\* The journal cannot be written: nothing is enqueued.
EnqueueFails(c) ==
  /\ pc[c] = "idle" /\ WithKey(c) = {} /\ TargetOf[c] \in trusted
  /\ Goto(c, "failed")
  /\ UNCHANGED <<journal, pending, batch, cur, trusted, broker, stops>>

\* emit of a worker: the next event of a run, without a look at trust.  Its key
\* names the run and the number of the event.
Emit(r) ==
  LET n == Cardinality(Events(r)) + 1
  IN /\ n <= MaxEvents[r]
     /\ AppendPublication([key |-> <<r, n>>, body |-> NoKey, target |-> TargetOf[r],
                 run |-> r, previous |-> tails[r]])
     /\ tails' = [tails EXCEPT ![r] = Len(log) + 1]
     /\ UNCHANGED <<batch, pc, cur, trusted, broker, stops>>

(***************************************************************************)
(* publishPending and flushPublication                                     *)
(***************************************************************************)
Tick ==
  /\ pc[Loop] = "idle" /\ pending # <<>>
  /\ batch' = pending /\ pending' = <<>> /\ Goto(Loop, "publish")
  /\ UNCHANGED <<journal, cur, trusted, broker, stops>>

DoneForgetful(p, ok) ==
  IF p # Loop THEN Goto(p, IF ok THEN "ok" ELSE "failed") /\ UNCHANGED <<pending, batch>>
  ELSE /\ pending' = IF ok THEN pending ELSE <<Head(batch)>>
       /\ batch' = Tail(batch)
       /\ Goto(Loop, IF Tail(batch) = <<>> THEN "idle" ELSE "publish")

DoneStops(p, ok) ==
  IF p # Loop THEN Goto(p, IF ok THEN "ok" ELSE "failed") /\ UNCHANGED <<pending, batch>>
  ELSE /\ pending' = IF ok THEN pending ELSE batch \o pending
       /\ batch' = IF ok THEN Tail(batch) ELSE <<>>
       /\ Goto(Loop, IF batch' = <<>> THEN "idle" ELSE "publish")

\* flushPublication returns.  The loop puts what failed back and goes on with
\* its batch.
Done(p, ok) ==
  IF p # Loop THEN Goto(p, IF ok THEN "ok" ELSE "failed") /\ UNCHANGED <<pending, batch>>
  ELSE /\ pending' = IF ok THEN pending ELSE Append(pending, Head(batch))
       /\ batch' = Tail(batch)
       /\ Goto(Loop, IF Tail(batch) = <<>> THEN "idle" ELSE "publish")

BlockedNever(i) == FALSE

\* The event before it in its run is not known to be accepted.
Blocked(i) == log[i].previous # 0 /\ log[i].previous \notin published

Lock(p) ==
  LET i == Item(p)
  IN /\ pc[p] = "publish" /\ MutexFree
     /\ IF i \in published THEN Done(p, TRUE)
        ELSE IF Blocked(i) THEN Done(p, FALSE)
        ELSE Goto(p, "checked") /\ UNCHANGED <<pending, batch>>
     /\ UNCHANGED <<journal, cur, trusted, broker, stops>>

Send(p) ==
  LET i == Item(p)
  IN /\ pc[p] = "checked"
     /\ IF log[i].target \in trusted
        THEN Goto(p, "sent") /\ inflight' = inflight \cup {i} /\ UNCHANGED <<pending, batch>>
        ELSE Done(p, FALSE) /\ UNCHANGED inflight
     /\ UNCHANGED <<journal, cur, trusted, window, stream, forgets, stops>>

AckedUnasked(p) ==
  /\ pc[p] = "sent" /\ Goto(p, "acked")
  /\ UNCHANGED <<journal, pending, batch, cur, trusted, broker, stops>>

\* The broker's answer arrives, or the five seconds of the call are over.
Acked(p) ==
  /\ pc[p] = "sent" /\ Item(p) \in window
  /\ Goto(p, "acked")
  /\ UNCHANGED <<journal, pending, batch, cur, trusted, broker, stops>>
TimesOut(p) ==
  /\ pc[p] = "sent" /\ Done(p, FALSE)
  /\ UNCHANGED <<journal, cur, trusted, broker, stops>>

\* The acceptance is recorded.  If that fails the message is sent again.
Record(p) ==
  /\ pc[p] = "acked"
  /\ published' = published \cup {Item(p)} /\ Done(p, TRUE)
  /\ UNCHANGED <<log, tails, cur, trusted, broker, stops>>
RecordFails(p) ==
  /\ pc[p] = "acked" /\ Done(p, FALSE)
  /\ UNCHANGED <<journal, cur, trusted, broker, stops>>

(***************************************************************************)
(* The environment                                                         *)
(***************************************************************************)

\* The broker accepts a message unless it remembers it; a message that its
\* sender has given up may still arrive.
Accept(i) ==
  /\ i \in inflight
  /\ inflight' = inflight \ {i} /\ window' = window \cup {i}
  /\ stream' = IF i \in window THEN stream ELSE Append(stream, i)
  /\ UNCHANGED <<journal, pending, batch, pc, cur, trusted, forgets, stops>>
Lose(i) ==
  /\ i \in inflight /\ inflight' = inflight \ {i}
  /\ UNCHANGED <<journal, pending, batch, pc, cur, trusted, window, stream, forgets, stops>>

\* The duplicate window is 24 hours long, a call five seconds.
Forget(i) ==
  /\ forgets < MaxForgets /\ i \in window \ inflight
  /\ \A p \in Flushers : pc[p] \in {"sent", "acked"} => Item(p) # i
  /\ window' = window \ {i} /\ forgets' = forgets + 1
  /\ UNCHANGED <<journal, pending, batch, pc, cur, trusted, inflight, stream, stops>>

TrustChanges(t) ==
  /\ trusted' = IF t \in trusted THEN trusted \ {t} ELSE trusted \cup {t}
  /\ UNCHANGED <<journal, pending, batch, pc, cur, broker, stops>>

\* A caller that has a key repeats its call with the same key and content.
Retry(c) ==
  /\ pc[c] \in {"failed", "refused"} /\ KeyOf[c] # NoKey /\ Goto(c, "idle")
  /\ cur' = [cur EXCEPT ![c] = 0]
  /\ UNCHANGED <<journal, pending, batch, trusted, broker, stops>>

\* openMessageJournal: every publication of the journal is pending again.
Replay == pending' = [i \in 1..Len(log) |-> i]

\* The process ends, by a crash or by Close, and starts again.
Restart ==
  /\ stops < MaxStops /\ stops' = stops + 1
  /\ Replay /\ batch' = <<>>
  /\ pc' = [p \in Flushers |-> IF pc[p] \in {"ok", "failed", "refused"} THEN pc[p]
                               ELSE IF p = Loop THEN "idle" ELSE "failed"]
  /\ UNCHANGED <<journal, cur, trusted, broker>>

Flush(p) == Lock(p) \/ Send(p) \/ Acked(p) \/ TimesOut(p) \/ Record(p) \/ RecordFails(p)
Call(c) == Enqueue(c) \/ Repeat(c) \/ Refuse(c) \/ EnqueueFails(c) \/ Retry(c)

Next == \/ \E c \in Callers : Call(c)
        \/ \E r \in Runs : Emit(r)
        \/ Tick
        \/ \E p \in Flushers : Flush(p)
        \/ \E i \in Ids : Accept(i) \/ Lose(i) \/ Forget(i)
        \/ \E t \in Peers : TrustChanges(t)
        \/ Restart

Spec == Init /\ [][Next]_vars

(***************************************************************************)
(* Properties                                                              *)
(***************************************************************************)
Entries == [key : {KeyOf[c] : c \in Callers} \cup (Runs \X Nat),
            body : {BodyOf[c] : c \in Callers} \cup {NoKey},
            target : Peers, run : Runs \cup {NoKey}, previous : Nat]

\* Every variable has its type.
TypeOK ==
  /\ log \in Seq(Entries) /\ published \subseteq Ids
  /\ tails \in [Runs -> {0} \cup Ids]
  /\ pending \in Seq(Ids) /\ batch \in Seq(Ids)
  /\ pc \in [Flushers -> Points] /\ cur \in [Callers -> {0} \cup Ids]
  /\ \A c \in Callers : pc[c] \in {"publish", "checked", "sent", "acked", "ok"} => cur[c] # 0
  /\ pc[Loop] \in {"idle", "publish", "checked", "sent", "acked"}
  /\ pc[Loop] = "idle" <=> batch = <<>>
  /\ trusted \subseteq Peers
  /\ inflight \subseteq Ids /\ window \subseteq Ids /\ stream \in Seq(Ids)
  /\ stops \in 0..MaxStops /\ forgets \in 0..MaxForgets

\* On the wire no event of a run comes before the one that precedes it,
\* although two goroutines flush, sends are given up and arrive late, records
\* of acceptance fail and the process restarts (flushPublication 353-356).
RunOrder ==
  \A n \in DOMAIN stream :
    log[stream[n]].previous # 0 =>
      \E m \in 1..(n - 1) : stream[m] = log[stream[n]].previous

\* What the journal calls published, and what Publish returned without an
\* error, the broker has accepted (docs/messaging.md 21).
ConfirmedAccepted ==
  published \cup {cur[c] : c \in {d \in Callers : pc[d] = "ok"}} \subseteq Elements(stream)

\* A key names one publication, and a caller that used it was answered for its
\* own content: repeated calls are one message, over restarts too (enqueue
\* 294-300).
OneMessagePerKey ==
  /\ \A i, j \in Ids : log[i].key = log[j].key /\ log[i].key # NoKey => i = j
  /\ \A c \in Callers : cur[c] # 0 => log[cur[c]].body = BodyOf[c]

\* The pending list and the loop's batch together never lose a publication,
\* although the list grows while the loop works on what it took from it
\* (publishPending 386-399).
NothingLost == Ids \ published \subseteq Elements(pending) \cup Elements(batch)

\* The journal's account of what was sent is true both ways: nothing is called
\* published that the broker does not have, and nothing else is forgotten.
AccountIsTrue == ConfirmedAccepted /\ NothingLost

(***************************************************************************)
(* Fairness: the loop runs and is not kept from publishMu for ever, a      *)
(* message that is sent again and again arrives, an answer arrives in      *)
(* time and the journal can be written now and then.                       *)
(***************************************************************************)
Possible == 1..(Cardinality(Callers)
                + Cardinality(UNION {{r} \X (1..MaxEvents[r]) : r \in Runs}))
FairSpec ==
  /\ Spec
  /\ WF_vars(Tick)
  /\ \A p \in Flushers : /\ SF_vars(Lock(p)) /\ WF_vars(Send(p))
                         /\ SF_vars(Acked(p)) /\ SF_vars(Record(p))
                         /\ WF_vars(Flush(p))
  /\ \A i \in Possible :
        SF_vars(i \in Ids /\ Accept(i))

\* A peer that stays trusted gets every message that was enqueued for it, even
\* while others are not trusted and hold back their messages.
EventuallyPublished ==
  \A t \in Peers :
    <>[](t \in trusted) =>
      \A i \in Possible :
        [](i \in Ids /\ log[i].target = t => <>(i \in published))
=============================================================================

------------------------------ MODULE Scheduler ------------------------------
(***************************************************************************)
(* The execution budget of the daemon and of its Bots                      *)
(* (src/internal/adapter/scheduler.go).  Callers of Acquire wait in the    *)
(* bounded queue of their Bot; a Bot that may run more stands once in the  *)
(* list ready, which dispatch serves from the head.                        *)
(*                                                                         *)
(* Everything happens under one mutex.  A critical section ends with       *)
(* dispatch, a loop: lock is then "dispatch", one action is one turn of    *)
(* the loop, and only the contexts of the callers change in between.  The  *)
(* field ready of a BotLimiter is membership in the list.                  *)
(***************************************************************************)
EXTENDS Integers, Sequences, FiniteSets

CONSTANTS Bots,         \* Bot identities
          Requests,     \* callers of Acquire
          BotOf,        \* [Requests -> Bots]
          MaxTotal,     \* maxConcurrent of the daemon
          MaxOf,        \* [Bots -> maxConcurrent of the Bot]
          QueueOf       \* [Bots -> maxQueued of the Bot]

ASSUME SchedulerAssumption ==
  /\ BotOf \in [Requests -> Bots]
  /\ MaxTotal \in Nat \ {0}
  /\ MaxOf \in [Bots -> Nat \ {0}]
  /\ QueueOf \in [Bots -> Nat]
  /\ IsFiniteSet(Requests)

VARIABLES lock,         \* "free", or "dispatch" while the loop runs
          closed,       \* Scheduler.closed
          running,      \* Scheduler.running
          ready,        \* Scheduler.ready
          limiter,      \* [Bots -> life of the Bot's limiter]
          botRunning,   \* [Bots -> BotLimiter.running]
          queue,        \* [Bots -> BotLimiter.queue]
          active,       \* [Bots -> BotLimiter.active]
          pc,           \* [Requests -> program point of the caller]
          granted,      \* requests whose slot is granted
          err,          \* [Requests -> slot.err, or what Acquire returned]
          cancelled,    \* requests whose caller's context is done
          stopped,      \* requests whose slot's own context was cancelled
          passed        \* [Bots -> the Bots served since it has been listed]

bots == <<limiter, botRunning, queue, active>>
slots == <<pc, granted, err, stopped>>
vars == <<lock, closed, running, ready, bots, slots, cancelled, passed>>

Points == {"idle", "entering", "waiting", "leaving", "releasing", "holding", "done"}
Lives == {"absent", "open", "closing", "closed"}
Errors == {"none", "full", "closed", "cancelled"}

Listed(b) == \E i \in DOMAIN ready : ready[i] = b
Over(r) == r \in cancelled \cup stopped         \* slot.ctx.Err() # nil
Queued(b) == {queue[b][i] : i \in DOMAIN queue[b]}

\* remove: everything behind x moves forward by one.
Without(seq, x) ==
  IF \A i \in DOMAIN seq : seq[i] # x THEN seq
  ELSE LET i == CHOOSE i \in DOMAIN seq : seq[i] = x
       IN [j \in 1..(Len(seq) - 1) |-> seq[IF j < i THEN j ELSE j + 1]]


Init ==
  /\ lock = "free" /\ closed = FALSE /\ running = 0 /\ ready = <<>>
  /\ limiter = [b \in Bots |-> "absent"]
  /\ botRunning = [b \in Bots |-> 0]
  /\ queue = [b \in Bots |-> <<>>]
  /\ active = [b \in Bots |-> {}]
  /\ pc = [r \in Requests |-> "idle"]
  /\ granted = {} /\ cancelled = {} /\ stopped = {}
  /\ err = [r \in Requests |-> "none"]
  /\ passed = [b \in Bots |-> {}]

MarkFirst(b, list) ==
  ready' = IF /\ ~\E i \in DOMAIN list : list[i] = b
              /\ limiter'[b] = "open" /\ queue'[b] # <<>> /\ botRunning'[b] < MaxOf[b]
           THEN <<b>> \o list ELSE list

\* markReady, after the queue and the running count of b have changed.
MarkReady(b, list) ==
  ready' = IF /\ ~\E i \in DOMAIN list : list[i] = b
              /\ limiter'[b] = "open" /\ queue'[b] # <<>> /\ botRunning'[b] < MaxOf[b]
           THEN Append(list, b) ELSE list

(***************************************************************************)
(* dispatch                                                                *)
(***************************************************************************)
More == ~closed /\ running < MaxTotal /\ ready # <<>>
Servable(b) == limiter[b] = "open" /\ botRunning[b] < MaxOf[b] /\ queue[b] # <<>>

\* The head of a Bot's queue gets a slot; the Bots still listed are passed.
Grant(b, r) ==
  /\ granted' = granted \cup {r}
  /\ active' = [active EXCEPT ![b] = @ \cup {r}]
  /\ botRunning' = [botRunning EXCEPT ![b] = @ + 1]
  /\ running' = running + 1
  /\ passed' = [c \in Bots |->
        IF c = b THEN {} ELSE IF Listed(c) THEN passed[c] \cup {b} ELSE passed[c]]
  /\ UNCHANGED <<err, stopped>>

\* A request whose context is done is dropped instead.
Drop(b, r) ==
  /\ err' = [err EXCEPT ![r] = "cancelled"]
  /\ stopped' = stopped \cup {r}
  /\ passed' = [passed EXCEPT ![b] = {}]
  /\ UNCHANGED <<granted, active, botRunning, running>>

Serve ==
  LET b == Head(ready)
      r == Head(queue[b])
  IN /\ lock = "dispatch" /\ More /\ Servable(b)
     /\ queue' = [queue EXCEPT ![b] = Tail(@)]
     /\ IF Over(r) THEN Drop(b, r) ELSE Grant(b, r)
     /\ UNCHANGED limiter
     /\ MarkReady(b, Tail(ready))
     /\ UNCHANGED <<lock, closed, pc, cancelled>>

\* The Bot has been closed, drained or filled since it was listed.
Skip ==
  /\ lock = "dispatch" /\ More /\ ~Servable(Head(ready))
  /\ ready' = Tail(ready)
  /\ passed' = [passed EXCEPT ![Head(ready)] = {}]
  /\ UNCHANGED <<lock, closed, running, bots, slots, cancelled>>

Unlock ==
  /\ lock = "dispatch" /\ ~More
  /\ lock' = "free"
  /\ UNCHANGED <<closed, running, ready, bots, slots, cancelled, passed>>

(***************************************************************************)
(* Acquire and release                                                     *)
(***************************************************************************)
Free == lock = "free"
Goto(r, point) == pc' = [pc EXCEPT ![r] = point]
Fails(r, e) == Goto(r, "done") /\ err' = [err EXCEPT ![r] = e]

\* A call of Acquire looks at its context before it takes the lock.
Arrive(r) ==
  /\ pc[r] = "idle" /\ limiter[BotOf[r]] # "absent"
  /\ IF r \in cancelled THEN Fails(r, "cancelled")
                        ELSE Goto(r, "entering") /\ UNCHANGED err
  /\ UNCHANGED <<lock, closed, running, ready, bots, granted, stopped, cancelled, passed>>

Shut(b) == limiter[b] # "open" \/ closed

\* An immediately available execution does not consume a queue slot.
Immediate(b) == /\ running < MaxTotal /\ botRunning[b] < MaxOf[b]
                /\ queue[b] = <<>> /\ ready = <<>>

Refuse(r) ==
  LET b == BotOf[r]
  IN /\ Free /\ pc[r] = "entering"
     /\ \/ Shut(b) /\ Fails(r, "closed")
        \/ ~Shut(b) /\ ~Immediate(b) /\ Len(queue[b]) >= QueueOf[b] /\ Fails(r, "full")
     /\ UNCHANGED <<lock, closed, running, ready, bots, granted, stopped, cancelled, passed>>

EnqueueOneMore(r) ==
  LET b == BotOf[r]
  IN /\ Free /\ pc[r] = "entering"
     /\ ~Shut(b) /\ (Immediate(b) \/ Len(queue[b]) <= QueueOf[b])
     /\ queue' = [queue EXCEPT ![b] = Append(@, r)]
     /\ UNCHANGED <<limiter, botRunning, active>>
     /\ MarkReady(b, ready)
     /\ lock' = "dispatch" /\ Goto(r, "waiting")
     /\ UNCHANGED <<closed, running, granted, err, stopped, cancelled, passed>>

Enqueue(r) ==
  LET b == BotOf[r]
  IN /\ Free /\ pc[r] = "entering"
     /\ ~Shut(b) /\ (Immediate(b) \/ Len(queue[b]) < QueueOf[b])
     /\ queue' = [queue EXCEPT ![b] = Append(@, r)]
     /\ UNCHANGED <<limiter, botRunning, active>>
     /\ MarkReady(b, ready)
     /\ lock' = "dispatch" /\ Goto(r, "waiting")
     /\ UNCHANGED <<closed, running, granted, err, stopped, cancelled, passed>>

\* The caller's context is done before the slot's channel: unless the slot was
\* decided meanwhile, it leaves the queue.
Abandon(r) ==
  /\ Free /\ pc[r] = "waiting" /\ r \in cancelled
  /\ IF r \notin granted /\ err[r] = "none"
     THEN /\ queue' = [queue EXCEPT ![BotOf[r]] = Without(@, r)]
          /\ err' = [err EXCEPT ![r] = "cancelled"]
          /\ stopped' = stopped \cup {r}
     ELSE UNCHANGED <<queue, err, stopped>>
  /\ lock' = "dispatch" /\ Goto(r, "leaving")
  /\ UNCHANGED <<closed, running, ready, limiter, botRunning, active, granted,
                 cancelled, passed>>

\* A caller that looks at its context only and forgets a slot it was granted.
AnswerByContext(r) ==
  /\ Free
  /\ pc[r] = "leaving" \/ (pc[r] = "waiting" /\ (r \in granted \/ err[r] # "none"))
  /\ IF Over(r) THEN Goto(r, "done") /\ stopped' = stopped \cup {r}
     ELSE Goto(r, "holding") /\ UNCHANGED stopped
  /\ UNCHANGED <<lock, closed, running, ready, bots, granted, err, cancelled, passed>>

\* The caller reads the decision.  A slot granted to a context that is done by
\* now is given back at once.
Answer(r) ==
  /\ Free
  /\ pc[r] = "leaving" \/ (pc[r] = "waiting" /\ (r \in granted \/ err[r] # "none"))
  /\ IF r \notin granted THEN Goto(r, "done") /\ stopped' = stopped \cup {r}
     ELSE /\ Goto(r, IF Over(r) THEN "releasing" ELSE "holding")
          /\ UNCHANGED stopped
  /\ UNCHANGED <<lock, closed, running, ready, bots, granted, err, cancelled, passed>>

\* Mutant: the count before the release is looked at.
FinishCloseLate(b) ==
  limiter' = IF limiter[b] = "closing" /\ botRunning[b] = 0
             THEN [limiter EXCEPT ![b] = "closed"] ELSE limiter

\* finishClose: the limiter is gone once it is closed and nothing runs.
FinishClose(b) ==
  limiter' = IF limiter[b] = "closing" /\ botRunning'[b] = 0
             THEN [limiter EXCEPT ![b] = "closed"] ELSE limiter

ReleaseUnlisted(r) ==
  LET b == BotOf[r]
  IN /\ Free /\ pc[r] \in {"holding", "releasing"}
     /\ stopped' = stopped \cup {r}
     /\ active' = [active EXCEPT ![b] = @ \ {r}]
     /\ botRunning' = [botRunning EXCEPT ![b] = @ - 1]
     /\ running' = running - 1
     /\ FinishClose(b)
     /\ lock' = "dispatch" /\ Goto(r, "done")
     /\ UNCHANGED <<closed, ready, queue, granted, err, cancelled, passed>>

Release(r) ==
  LET b == BotOf[r]
  IN /\ Free /\ pc[r] \in {"holding", "releasing"}
     /\ stopped' = stopped \cup {r}
     /\ active' = [active EXCEPT ![b] = @ \ {r}]
     /\ botRunning' = [botRunning EXCEPT ![b] = @ - 1]
     /\ running' = running - 1
     /\ FinishClose(b)
     /\ UNCHANGED queue
     /\ MarkReady(b, ready)
     /\ lock' = "dispatch" /\ Goto(r, "done")
     /\ UNCHANGED <<closed, granted, err, cancelled, passed>>

\* The worker of the request calls Acquire again, with a new context.
Again(r) ==
  /\ pc[r] = "done" /\ Goto(r, "idle")
  /\ granted' = granted \ {r} /\ cancelled' = cancelled \ {r} /\ stopped' = stopped \ {r}
  /\ err' = [err EXCEPT ![r] = "none"]
  /\ UNCHANGED <<lock, closed, running, ready, bots, passed>>

\* The deadline of a request passes, or its Bot's service closes.
Cancel(r) ==
  /\ r \notin cancelled /\ pc[r] # "done"
  /\ cancelled' = cancelled \cup {r}
  /\ UNCHANGED <<lock, closed, running, ready, bots, slots, passed>>

(***************************************************************************)
(* ForBot and the two Close                                                *)
(***************************************************************************)

\* A fresh limiter.  The services of a Bot end before its limiter is closed and
\* start after it is made (app.go 249-278), so no caller holds the old one.
ForBot(b) ==
  /\ Free /\ limiter[b] \in {"absent", "closed"}
  /\ \A r \in Requests : BotOf[r] = b => pc[r] \in {"idle", "done"}
  /\ limiter' = [limiter EXCEPT ![b] = IF closed THEN "closed" ELSE "open"]
  /\ UNCHANGED <<lock, closed, running, ready, botRunning, queue, active, slots,
                 cancelled, passed>>

\* closeLocked for the Bots of a set.
CloseAll(closing) ==
  LET queued == UNION {Queued(b) : b \in closing}
  IN /\ limiter' = [b \in Bots |-> IF b \notin closing THEN limiter[b]
                                   ELSE IF botRunning[b] = 0 THEN "closed" ELSE "closing"]
     /\ err' = [r \in Requests |-> IF r \in queued THEN "closed" ELSE err[r]]
     /\ stopped' = stopped \cup queued \cup UNION {active[b] : b \in closing}
     /\ queue' = [b \in Bots |-> IF b \in closing THEN <<>> ELSE queue[b]]
     /\ passed' = [b \in Bots |-> IF b \in closing THEN {} ELSE passed[b]]
     /\ UNCHANGED <<running, botRunning, active, pc, granted, cancelled>>

\* Mutant: a closed Bot stays in the round robin list.
CloseKeepsListed(b) ==
  /\ Free /\ limiter[b] = "open"
  /\ CloseAll({b}) /\ UNCHANGED <<ready, closed>>
  /\ lock' = "dispatch"

Close(b) ==
  /\ Free /\ limiter[b] = "open"
  /\ CloseAll({b}) /\ ready' = Without(ready, b)
  /\ lock' = "dispatch" /\ UNCHANGED closed

CloseScheduler ==
  /\ Free /\ ~closed
  /\ CloseAll({b \in Bots : limiter[b] = "open"}) /\ ready' = <<>>
  /\ closed' = TRUE /\ UNCHANGED lock

Caller(r) == Refuse(r) \/ Enqueue(r) \/ Abandon(r) \/ Answer(r) \/ Release(r)
Loop == Serve \/ Skip \/ Unlock

Next == \/ Loop
        \/ \E r \in Requests : Arrive(r) \/ Caller(r) \/ Again(r) \/ Cancel(r)
        \/ \E b \in Bots : ForBot(b) \/ Close(b)
        \/ CloseScheduler

Spec == Init /\ [][Next]_vars

(***************************************************************************)
(* Properties                                                              *)
(***************************************************************************)

\* Every variable has its type.
TypeOK ==
  /\ lock \in {"free", "dispatch"} /\ closed \in BOOLEAN
  /\ running \in Nat /\ ready \in Seq(Bots)
  /\ limiter \in [Bots -> Lives] /\ botRunning \in [Bots -> Nat]
  /\ queue \in [Bots -> Seq(Requests)] /\ active \in [Bots -> SUBSET Requests]
  /\ pc \in [Requests -> Points] /\ err \in [Requests -> Errors]
  /\ granted \subseteq Requests /\ cancelled \subseteq Requests /\ stopped \subseteq Requests
  /\ passed \in [Bots -> SUBSET Bots]

\* Every slot that counts against a budget belongs to a caller that will give
\* it back: a grant that races the end of the caller's context (101-138) or a
\* Close (198-224) neither leaks a slot nor frees one twice.
Owns(r) == r \in granted /\ pc[r] \in {"waiting", "leaving", "releasing", "holding"}
SlotsOwned == \A b \in Bots : active[b] = {r \in Requests : BotOf[r] = b /\ Owns(r)}

\* The counters are the numbers of those slots and keep within the budgets of
\* the Bot and of the daemon (docs/multi-bot-daemon.md 260).
WithinBudgets ==
  /\ running = Cardinality({r \in Requests : Owns(r)}) /\ running <= MaxTotal
  /\ \A b \in Bots : /\ botRunning[b] = Cardinality(active[b])
                     /\ botRunning[b] <= MaxOf[b]

\* Whenever the mutex is free, no request waits that could run: either the
\* daemon's budget is used up or its Bot's is.  This rests on every critical
\* section listing the Bots it makes eligible and ending with dispatch.
WorkConserving ==
  lock = "free" /\ ~closed /\ running < MaxTotal =>
    \A b \in Bots : limiter[b] = "open" /\ queue[b] # <<>> => botRunning[b] = MaxOf[b]

\* Whenever the mutex is free, no Bot has more waiting requests than maxQueued,
\* though each running one went through the queue (89-99).
QueueBounded ==
  lock = "free" => \A b \in Bots : Len(queue[b]) <= QueueOf[b]

\* Slots and queues keep within the limits of each Bot and of the daemon.
LimitsHold == WithinBudgets /\ QueueBounded

\* A listed Bot is passed by each other Bot at most once before it is served
\* ("admits one waiting execution per eligible Bot per round", 14-15).
RoundRobin ==
  [][\A b, c \in Bots : b # c /\ active'[b] \ active[b] # {} /\ Listed(c)
       => b \notin passed[c]]_vars

\* Close returns only when nothing of the Bot runs, and nothing of it starts
\* again: a closed limiter has no waiting request and a drained one no slot.
ClosedIsDrained ==
  \A b \in Bots : /\ limiter[b] \in {"closing", "closed"} => queue[b] = <<>> /\ ~Listed(b)
                  /\ limiter[b] = "closing" => botRunning[b] > 0
                  /\ limiter[b] = "closed" => active[b] = {}

\* No request waits where it could run, and none where nothing will run again.
NoVainWait == WorkConserving /\ ClosedIsDrained

(***************************************************************************)
(* Fairness: the mutex is handed to every goroutine that asks for it, the  *)
(* loop of dispatch runs, and an execution ends and releases its slot (the *)
(* adapter's timeout bounds it).                                           *)
(***************************************************************************)
FairSpec == /\ Spec
            /\ WF_vars(Loop)
            /\ \A r \in Requests : SF_vars(Caller(r))

\* Every call of Acquire that waits gets an answer, whatever other Bots and
\* other callers of the same Bot do.
Answered == \A r \in Requests : pc[r] = "waiting" ~> pc[r] # "waiting"

\* Close of a Bot returns.
CloseReturns == \A b \in Bots : limiter[b] = "closing" ~> limiter[b] = "closed"

\* Acquire and Close return (79-139, 198-249).
CallsReturn == Answered /\ CloseReturns
=============================================================================

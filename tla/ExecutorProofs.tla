--------------------------- MODULE ExecutorProofs ---------------------------
(***************************************************************************)
(* Proofs about Executor, for any number of messages, senders and shards.  *)
(***************************************************************************)
EXTENDS ExecutorWatch, FiniteSetTheorems, TLAPS

Early == {"check", "queue", "granted", "admit"}             \* not yet admitted
Begun == {"running", "streaming", "failing", "reply", "finish"}          \* the effect began
Harnessed == Begun \cup {"queue", "granted", "start", "call"}
Notices == {"feed", "file"}                          \* work that does not execute

\* An activation of deliver works on its own shard, its copy of the work is
\* fresh, and its program point tells the work's state and its effects.
Activation(s) ==
  LET w == worker[s]
  IN /\ mode \in {"up", "closing"}
     /\ w.msg \in Msgs /\ Shard[w.msg] = s
     /\ w.seq = work[w.msg].seq
     /\ work[w.msg].state = (IF w.pc \in Early THEN "queued" ELSE "admitted")
     /\ w.pc \in Harnessed => Command(w.msg)
     /\ w.pc \in Notices => ~Command(w.msg)
     /\ effects[w.msg] = (IF w.pc \in Begun THEN 1 ELSE 0)

WorkersOK == \A s \in Shards : worker[s].pc = "idle" \/ Activation(s)

EffectsOK == \A m \in Msgs : /\ effects[m] \in {0, 1}
                             /\ work[m].state \in {"none", "queued"} => effects[m] = 0
                             /\ ~Command(m) => effects[m] = 0
                             /\ work[m].state = "none" => work[m].seq = 0

InboxOK == /\ \A m \in Msgs : work[m].state # "none" => InInbox(m)
           /\ receiver # NoMsg => mode \in {"up", "closing"}

IInv == TypeOK /\ EventsContiguous /\ BacklogBounded /\ OneVerdict
        /\ WorkersOK /\ EffectsOK /\ InboxOK

WorkRecord == [state : WorkState, seq : Nat]
Event == [kind : EventKinds, seq : Nat]

-----------------------------------------------------------------------------
(***************************************************************************)
(* Journal records                                                         *)
(***************************************************************************)

\* Applying one work record keeps the counter exact; it keeps the backlog within
\* capacity unless the record adds a command beyond it.
LEMMA WriteKeepsBacklog ==
  ASSUME TypeOK, BacklogBounded, NEW m \in Msgs, NEW w \in WorkRecord, Write(m, w),
         \/ Open(work[m].state) 
         \/ Role = "console" \/ ~Command(m) \/ pendingCommands < Capacity
  PROVE  BacklogBounded' /\ pendingCommands' \in Nat
<1> DEFINE C == OpenCommands
<1>a. /\ work \in [Msgs -> WorkRecord] /\ pendingCommands \in Nat 
      /\ IsFiniteSet(Msgs) /\ Capacity \in Nat /\ Role \in {"agent", "console"}
  BY ExecutorAssumption DEF TypeOK, WorkRecord, Capacity
<1>b. IsFiniteSet(C)
  BY <1>a, FS_Subset DEF OpenCommands
<1>c. pendingCommands = Cardinality(C) /\ (Role = "agent" => pendingCommands <= Capacity)
  BY DEF BacklogBounded
<1>d. work' = [work EXCEPT ![m] = w]
  BY DEF Write
<1>e. \A k \in Msgs : work'[k] = IF k = m THEN w ELSE work[k]
  BY <1>a, <1>d
<1>1. CASE ~Command(m) \/ Open(w.state) = Open(work[m].state)
  <2>1. OpenCommands' = C
    BY <1>1, <1>e DEF OpenCommands, Command
  <2>2. pendingCommands' = pendingCommands
    BY <1>1 DEF Write
  <2> QED BY <2>1, <2>2, <1>a, <1>c DEF BacklogBounded, Capacity
<1>2. CASE Command(m) /\ Open(w.state) /\ ~Open(work[m].state)
  <2>1. OpenCommands' = C \cup {m} /\ m \notin C
    BY <1>2, <1>e DEF OpenCommands, Command
  <2>2. pendingCommands' = pendingCommands + 1
    BY <1>2 DEF Write
  <2>3. Cardinality(OpenCommands') = Cardinality(C) + 1
    BY <2>1, <1>b, FS_AddElement
  <2>4. Role = "agent" => pendingCommands < Capacity
    BY <1>2, <1>c
  <2> QED BY <2>2, <2>3, <2>4, <1>a, <1>c DEF BacklogBounded, Capacity
<1>3. CASE Command(m) /\ ~Open(w.state) /\ Open(work[m].state)
  <2>1. OpenCommands' = C \ {m} /\ m \in C
    BY <1>3, <1>e DEF OpenCommands, Command
  <2>2. pendingCommands' = pendingCommands - 1
    BY <1>3 DEF Write
  <2>3. Cardinality(OpenCommands') = Cardinality(C) - 1
    BY <2>1, <1>b, FS_RemoveElement
  <2>4. Cardinality(OpenCommands') \in Nat
    BY <2>1, <1>b, FS_RemoveElement, FS_CardinalityType
  <2> QED BY <2>2, <2>3, <2>4, <1>a, <1>c DEF BacklogBounded, Capacity
<1> QED BY <1>1, <1>2, <1>3 DEF Open

\* What is said of the journal alone.
JournalTyped == /\ inbox \in Seq(Msgs)
                /\ work \in [Msgs -> WorkRecord]
                /\ outbox \in [Msgs -> Seq(Event)]
                /\ pendingCommands \in Nat
JournalOK == JournalTyped /\ EventsContiguous /\ BacklogBounded /\ OneVerdict

\* The key of an open run's next event is fresh, so the record is really appended.
LEMMA EmitAppends ==
  ASSUME IInv, NEW m \in Msgs, NEW seq, seq = work[m].seq, NEW kind, NEW state,
         Emit(m, seq, kind, state)
  PROVE  /\ outbox' = [outbox EXCEPT ![m] = Append(@, [kind |-> kind, seq |-> seq + 1])]
         /\ Write(m, [state |-> state, seq |-> seq + 1])
         /\ UNCHANGED <<inbox, failures>>
<1>1. /\ outbox[m] \in Seq(Event) /\ seq \in Nat /\ seq = Len(outbox[m])
      /\ \A i \in DOMAIN outbox[m] : outbox[m][i].seq = i
  BY DEF IInv, TypeOK, EventsContiguous, Event
<1>2. DOMAIN outbox[m] = 1..seq
  BY <1>1
<1>3. ~KeyUsed(m, seq + 1)
  BY <1>1, <1>2 DEF KeyUsed
<1> QED BY <1>3 DEF Emit

\* An event of an open run and the new work record keep the journal consistent.
LEMMA EmitKeepsJournal ==
  ASSUME IInv, NEW m \in Msgs, Open(work[m].state), NEW seq, seq = work[m].seq,
         NEW kind \in EventKinds, NEW state \in {"admitted", "done"},
         kind \in Verdicts => state = "done", Emit(m, seq, kind, state)
  PROVE  /\ JournalOK'
         /\ work' = [work EXCEPT ![m] = [state |-> state, seq |-> seq + 1]]
         /\ UNCHANGED <<inbox, failures>>
<1> DEFINE w == [state |-> state, seq |-> seq + 1]
           e == [kind |-> kind, seq |-> seq + 1]
<1>a. /\ work \in [Msgs -> WorkRecord] /\ outbox \in [Msgs -> Seq(Event)] 
      /\ inbox \in Seq(Msgs) /\ seq \in Nat
  BY DEF IInv, TypeOK, WorkRecord, Event
<1>b. /\ seq = Len(outbox[m])
      /\ \A i \in DOMAIN outbox[m] : outbox[m][i].seq = i
  BY DEF IInv, EventsContiguous
<1>c. \A i \in DOMAIN outbox[m] : outbox[m][i].kind \notin Verdicts
  BY DEF IInv, OneVerdict, Settled, Open
<1>1. /\ outbox' = [outbox EXCEPT ![m] = Append(@, e)]
      /\ Write(m, w) /\ UNCHANGED <<inbox, failures>>
  BY EmitAppends
<1>2. w \in WorkRecord /\ e \in Event
  BY <1>a DEF WorkRecord, WorkState, Event
<1>3. BacklogBounded' /\ pendingCommands' \in Nat
  BY <1>1, <1>2, WriteKeepsBacklog DEF IInv
<1>4. work' = [work EXCEPT ![m] = w]
  BY <1>1 DEF Write
<1>5. /\ outbox'[m] = Append(outbox[m], e) /\ work'[m] = w
      /\ \A k \in Msgs \ {m} : outbox'[k] = outbox[k] /\ work'[k] = work[k]
  BY <1>1, <1>4, <1>a
<1>6. /\ Len(outbox'[m]) = seq + 1 /\ DOMAIN outbox'[m] = 1..(seq + 1)
      /\ outbox'[m][seq + 1] = e
      /\ \A i \in 1..seq : outbox'[m][i] = outbox[m][i]
  <2>1. outbox[m] \in Seq(Event) /\ DOMAIN outbox[m] = 1..seq
    BY <1>a, <1>b
  <2> QED BY <2>1, <1>5, <1>a, <1>b, <1>2
<1>7. EventsContiguous'
  <2>1. ASSUME NEW k \in Msgs
        PROVE  /\ work'[k].seq = Len(outbox'[k])
               /\ \A i \in DOMAIN outbox'[k] : outbox'[k][i].seq = i
    <3>1. CASE k = m
      <4>1. \A i \in 1..seq : outbox[m][i].seq = i
        BY <1>b, <1>a
      <4> QED BY <3>1, <4>1, <1>5, <1>6, <1>a
    <3>2. CASE k # m
      BY <3>2, <1>5 DEF IInv, EventsContiguous
    <3> QED BY <3>1, <3>2
  <2> QED BY <2>1 DEF EventsContiguous
<1>8. OneVerdict'
  <2>1. ASSUME NEW k \in Msgs
        PROVE  /\ \A i \in DOMAIN outbox'[k] : outbox'[k][i].kind \in Verdicts => i = Len(outbox'[k])
               /\ (\E i \in DOMAIN outbox'[k] : outbox'[k][i].kind \in Verdicts) => work'[k].state = "done"
    <3>1. CASE k = m
      <4>1. \A i \in 1..seq : outbox[m][i].kind \notin Verdicts
        BY <1>b, <1>c, <1>a
      <4> QED BY <3>1, <4>1, <1>5, <1>6, <1>a
    <3>2. CASE k # m
      BY <3>2, <1>5 DEF IInv, OneVerdict, Settled
    <3> QED BY <3>1, <3>2
  <2> QED BY <2>1 DEF OneVerdict, Settled
<1>9. work' \in [Msgs -> WorkRecord] /\ outbox' \in [Msgs -> Seq(Event)]
  BY <1>1, <1>2, <1>4, <1>a
<1> QED BY <1>1, <1>3, <1>4, <1>7, <1>8, <1>9, <1>a DEF JournalOK, JournalTyped

\* So does a change of state that keeps the sequence number.
LEMMA SetWorkKeepsJournal ==
  ASSUME IInv, NEW m \in Msgs, Open(work[m].state), NEW seq, seq = work[m].seq,
         NEW state \in {"queued", "admitted", "done"}, SetWork(m, seq, state)
  PROVE  /\ JournalOK'
         /\ work' = [work EXCEPT ![m] = [state |-> state, seq |-> seq]]
         /\ UNCHANGED <<inbox, outbox, failures>>
<1> DEFINE w == [state |-> state, seq |-> seq]
<1>a. /\ work \in [Msgs -> WorkRecord] /\ outbox \in [Msgs -> Seq(Event)] 
      /\ inbox \in Seq(Msgs) /\ seq \in Nat
  BY DEF IInv, TypeOK, WorkRecord, Event
<1>1. Write(m, w) /\ UNCHANGED <<inbox, outbox, failures>>
  BY DEF SetWork
<1>2. w \in WorkRecord
  BY <1>a DEF WorkRecord, WorkState
<1>3. BacklogBounded' /\ pendingCommands' \in Nat
  BY <1>1, <1>2, WriteKeepsBacklog DEF IInv
<1>4. work' = [work EXCEPT ![m] = w] /\ work'[m] = w 
      /\ \A k \in Msgs \ {m} : work'[k] = work[k]
  BY <1>1, <1>a DEF Write
<1>5. EventsContiguous' /\ OneVerdict'
  BY <1>1, <1>4 DEF IInv, EventsContiguous, OneVerdict, Settled, Open
<1> QED BY <1>1, <1>2, <1>3, <1>4, <1>5, <1>a DEF JournalOK, JournalTyped

\* A step that appends nothing keeps what is said of the journal.
LEMMA JournalUnchanged ==
  ASSUME IInv, UNCHANGED journal PROVE JournalOK'
BY DEF IInv, TypeOK, journal, JournalOK, JournalTyped, WorkRecord, Event,
       EventsContiguous, BacklogBounded, OneVerdict, Settled, OpenCommands

-----------------------------------------------------------------------------
(***************************************************************************)
(* Steps of the workers                                                    *)
(***************************************************************************)
Activations == [pc : Points, msg : Msgs \cup {NoMsg}, seq : Nat]

\* A step of shard s that touches only the work m of that shard cannot disturb
\* another worker, since that one's work belongs to another shard.
LEMMA WorkerStep ==
  ASSUME IInv, NEW s \in Shards, NEW m \in Msgs, Shard[m] = s, Open(work[m].state),
         JournalOK', UNCHANGED <<inbox, consumer, mode, environment, stops>>,
         failures' \in 0..MaxFailures,
         \A k \in Msgs \ {m} : work'[k] = work[k] /\ effects'[k] = effects[k],
         effects' \in [Msgs -> Nat], effects'[m] \in {0, 1},
         work'[m].state = "queued" => effects'[m] = 0, 
         ~Command(m) => effects'[m] = 0,
         work'[m].state # "none",
         worker' \in [Shards -> Activations],
         \A t \in Shards \ {s} : worker'[t] = worker[t],
         worker'[s].pc = "idle" \/ Activation(s)'
  PROVE  IInv'
<1>1. TypeOK'
  BY DEF IInv, TypeOK, JournalOK, JournalTyped, WorkRecord, Event, Activations, consumer, environment
<1>2. WorkersOK'
  <2>1. ASSUME NEW t \in Shards, t # s, worker'[t].pc # "idle"
        PROVE  Activation(t)'
    <3>1. worker'[t] = worker[t] /\ Activation(t)
      BY <2>1 DEF IInv, WorkersOK
    <3>2. worker[t].msg \in Msgs \ {m}
      BY <3>1, <2>1 DEF Activation
    <3> QED BY <3>1, <3>2 DEF Activation
  <2> QED BY <2>1 DEF WorkersOK
<1>3. EffectsOK'
  BY DEF IInv, EffectsOK, Command
<1>4. InboxOK'
  BY DEF IInv, InboxOK, InInbox, consumer, Open
<1> QED BY <1>1, <1>2, <1>3, <1>4 DEF IInv, JournalOK

\* What an activation of deliver knows of its work.
LEMMA ActivationFacts ==
  ASSUME IInv, NEW s \in Shards, worker[s].pc # "idle"
  PROVE  /\ Activation(s) 
         /\ worker[s].msg \in Msgs /\ Shard[worker[s].msg] = s 
         /\ worker[s].seq = work[worker[s].msg].seq /\ worker[s].seq \in Nat
         /\ Open(work[worker[s].msg].state)
         /\ effects[worker[s].msg] \in {0, 1}
         /\ ~Command(worker[s].msg) => effects[worker[s].msg] = 0
         /\ worker \in [Shards -> Activations] /\ effects \in [Msgs -> Nat]
         /\ work \in [Msgs -> WorkRecord] /\ failures \in 0..MaxFailures
BY DEF IInv, TypeOK, WorkersOK, Activation, Open, Activations, EffectsOK, WorkRecord

\* Between activations a worker holds nothing.
LEMMA IdleTyped == Idle \in Activations /\ Idle.pc = "idle"
BY DEF Idle, Activations, Points

\* A failed append leaves the journal as it was (journal.go 160-165).
LEMMA FailedAppend ==
  ASSUME IInv, AppendFails \/ EmitFails
  PROVE  UNCHANGED journal /\ failures' \in 0..MaxFailures
BY ExecutorAssumption DEF IInv, TypeOK, AppendFails, EmitFails

\* deliver returns without having appended anything.
LEMMA LeaveStep ==
  ASSUME IInv, NEW s \in Shards, worker[s].pc # "idle", Leave(s),
         UNCHANGED <<journal, effects>>, Quiet, failures' \in 0..MaxFailures
  PROVE  IInv'
<1>1. worker' \in [Shards -> Activations] /\ worker'[s] = Idle
      /\ \A t \in Shards \ {s} : worker'[t] = worker[t]
  BY ActivationFacts, IdleTyped DEF Leave
<1>2. JournalOK'
  BY JournalUnchanged
<1> QED BY <1>1, <1>2, WorkerStep, ActivationFacts, IdleTyped DEF Quiet, journal, EffectsOK, IInv, Open

\* deliver returns false and the shard waits for the next tick.
LEMMA GiveUpStep ==
  ASSUME IInv, NEW s \in Shards, worker[s].pc # "idle", GiveUp(s)
  PROVE  IInv'
BY LeaveStep, ActivationFacts DEF GiveUp

\* deliver returns after the verdict of its command, or after the append of it
\* has failed.
LEMMA ConcludeStep ==
  ASSUME IInv, NEW s \in Shards, worker[s].pc # "idle", NEW kind \in Verdicts,
         Conclude(s, kind)
  PROVE  IInv'
<1> DEFINE m == worker[s].msg
<1>1. CASE Emit(m, worker[s].seq, kind, "done")
  <2>1. /\ JournalOK' /\ UNCHANGED <<inbox, failures>>
        /\ work' = [work EXCEPT ![m] = [state |-> "done", seq |-> worker[s].seq + 1]]
    BY <1>1, ActivationFacts, EmitKeepsJournal DEF EventKinds
  <2>2. worker' \in [Shards -> Activations] /\ worker'[s] = Idle
        /\ \A t \in Shards \ {s} : worker'[t] = worker[t]
    BY ActivationFacts, IdleTyped DEF Conclude, Leave
  <2>3. work'[m].state = "done" /\ \A k \in Msgs \ {m} : work'[k] = work[k]
    BY <2>1, ActivationFacts
  <2>4. UNCHANGED <<effects, consumer, mode, environment, stops>>
    BY DEF Conclude, Quiet
  <2> QED BY <2>1, <2>2, <2>3, <2>4, WorkerStep, ActivationFacts, IdleTyped
<1>2. CASE EmitFails
  BY <1>2, FailedAppend, LeaveStep DEF Conclude
<1> QED BY <1>1, <1>2 DEF Conclude

\* deliver returns after setting the state; only work without effect is queued.
LEMMA ReleaseStep ==
  ASSUME IInv, NEW s \in Shards, worker[s].pc # "idle", NEW state \in {"queued", "done"},
         state = "queued" => effects[worker[s].msg] = 0,
         Release(s, state)
  PROVE  IInv'
<1> DEFINE m == worker[s].msg
<1>1. CASE SetWork(m, worker[s].seq, state)
  <2>1. /\ JournalOK' /\ UNCHANGED <<inbox, failures>>
        /\ work' = [work EXCEPT ![m] = [state |-> state, seq |-> worker[s].seq]]
    BY <1>1, ActivationFacts, SetWorkKeepsJournal
  <2>2. worker' \in [Shards -> Activations] /\ worker'[s] = Idle
        /\ \A t \in Shards \ {s} : worker'[t] = worker[t]
    BY ActivationFacts, IdleTyped DEF Release, Leave
  <2>3. work'[m].state = state /\ \A k \in Msgs \ {m} : work'[k] = work[k]
    BY <2>1, ActivationFacts
  <2>4. UNCHANGED <<effects, consumer, mode, environment, stops>>
    BY DEF Release, Quiet
  <2> QED BY <2>1, <2>2, <2>3, <2>4, WorkerStep, ActivationFacts, IdleTyped
<1>2. CASE AppendFails
  BY <1>2, FailedAppend, LeaveStep DEF Release
<1> QED BY <1>1, <1>2 DEF Release

\* deliver goes on without having appended anything: the program points before
\* and after say the same of the work.
LEMMA MoveStep ==
  ASSUME IInv, NEW s \in Shards, worker[s].pc # "idle", NEW pc \in Points \ {"idle"},
         MoveTo(s, pc), pc \in Early <=> worker[s].pc \in Early,
         pc \in Begun <=> worker[s].pc \in Begun,
         pc \in Harnessed => Command(worker[s].msg), pc \notin Notices
  PROVE  IInv'
<1> DEFINE w == [worker[s] EXCEPT !.pc = pc]
<1>1. /\ w \in Activations /\ w.pc = pc /\ w.msg = worker[s].msg /\ w.seq = worker[s].seq
      /\ worker' \in [Shards -> Activations] /\ worker'[s] = w
      /\ \A t \in Shards \ {s} : worker'[t] = worker[t]
  BY ActivationFacts DEF MoveTo, Goto, Activations
<1>2. JournalOK' /\ UNCHANGED <<work, inbox, failures, effects, consumer, mode, environment, stops>>
  BY JournalUnchanged DEF MoveTo, Quiet, journal
<1>3. Activation(s)'
  BY <1>1, <1>2, ActivationFacts DEF Activation, Command
<1> QED BY <1>1, <1>2, <1>3, WorkerStep, ActivationFacts DEF IInv, EffectsOK, Open

\* deliver goes on after an append that admits the work or emits an event.
LEMMA AdvanceStep ==
  ASSUME IInv, NEW s \in Shards, worker[s].pc # "idle", NEW w \in Activations,
         worker' = [worker EXCEPT ![s] = w], Quiet, UNCHANGED effects,
         w.msg = worker[s].msg, w.pc \notin Early \cup {"idle"},
         \/ /\ w.seq = worker[s].seq
            /\ SetWork(w.msg, worker[s].seq, "admitted")
         \/ /\ w.seq = worker[s].seq + 1
            /\ \E kind \in {"started", "delta"} : Emit(w.msg, worker[s].seq, kind, "admitted"),
         effects[w.msg] = (IF w.pc \in Begun THEN 1 ELSE 0),
         w.pc \in Harnessed => Command(w.msg), w.pc \in Notices => ~Command(w.msg)
  PROVE  IInv'
<1> DEFINE m == w.msg
<1>1. /\ worker' \in [Shards -> Activations] /\ worker'[s] = w
      /\ \A t \in Shards \ {s} : worker'[t] = worker[t]
  BY ActivationFacts
<1>2. /\ JournalOK' /\ UNCHANGED <<inbox, failures>>
      /\ work' = [work EXCEPT ![m] = [state |-> "admitted", seq |-> w.seq]]
  <2>1. CASE SetWork(m, worker[s].seq, "admitted") /\ w.seq = worker[s].seq
    BY <2>1, ActivationFacts, SetWorkKeepsJournal
  <2>2. CASE /\ w.seq = worker[s].seq + 1 
             /\ \E kind \in {"started", "delta"} : Emit(w.msg, worker[s].seq, kind, "admitted")
    BY <2>2, ActivationFacts, EmitKeepsJournal DEF EventKinds, Verdicts
  <2> QED BY <2>1, <2>2
<1>3. work'[m] = [state |-> "admitted", seq |-> w.seq] 
      /\ \A k \in Msgs \ {m} : work'[k] = work[k]
  BY <1>2, ActivationFacts
<1>4. Activation(s)'
  BY <1>1, <1>3, ActivationFacts DEF Activation, Quiet, Command
<1> QED BY <1>1, <1>2, <1>3, <1>4, WorkerStep, ActivationFacts DEF Quiet

\* The trust check at the top of deliver and after the limiter.
LEMMA DropOrWaitStep ==
  ASSUME IInv, NEW s \in Shards, worker[s].pc # "idle", DropOrWait(s)
  PROVE  IInv'
BY ReleaseStep, GiveUpStep DEF DropOrWait

\* deliver up to the limiter (service.go 682-723).
LEMMA CheckStep ==
  ASSUME IInv, NEW s \in Shards, Check(s)
  PROVE  IInv'
<1> DEFINE m == worker[s].msg
<1>1. worker[s].pc = "check"
  BY DEF Check, At
<1>2. CASE DropOrWait(s)
  BY <1>1, <1>2, DropOrWaitStep
<1>3. CASE Release(s, "done")
  BY <1>1, <1>3, ReleaseStep
<1>4. CASE Command(m) /\ CheckCommand(s)
  <2>1. CASE MoveTo(s, "queue")
    BY <1>1, <1>4, <2>1, MoveStep DEF Early, Begun, Harnessed, Notices, Points, Slotted
  <2>2. CASE \E kind \in Refusal(m) : Conclude(s, kind)
    <3>1. Refusal(m) \subseteq Verdicts
      BY DEF Refusal, Verdicts
    <3> QED BY <1>1, <2>2, <3>1, ConcludeStep
  <2> QED BY <1>4, <2>1, <2>2 DEF CheckCommand
<1>5. CASE Kind[m] = "transfer" /\ CheckTransfer(s)
  <2>1. CASE SetWork(m, worker[s].seq, "admitted") /\ Goto(s, "file") /\ UNCHANGED effects /\ Quiet
    <3> DEFINE w == [worker[s] EXCEPT !.pc = "file"]
    <3>1. /\ w \in Activations /\ worker' = [worker EXCEPT ![s] = w] 
          /\ w.seq = worker[s].seq /\ w.msg = m /\ w.pc = "file"
      BY <1>1, <2>1, ActivationFacts DEF Goto, Activations, Points
    <3>2. effects[m] = 0 /\ ~Command(m)
      BY <1>1, <1>5, ActivationFacts DEF Activation, Begun, Command
    <3> HIDE DEF w
    <3> QED BY <1>1, <2>1, <3>1, <3>2, AdvanceStep DEF Early, Begun, Harnessed, Notices
  <2>2. CASE AppendFails /\ Leave(s) /\ UNCHANGED effects /\ Quiet
    BY <1>1, <2>2, FailedAppend, LeaveStep
  <2> QED BY <1>3, <1>5, <2>1, <2>2 DEF CheckTransfer
<1>6. CASE MoveTo(s, "admit")
  BY <1>1, <1>6, MoveStep DEF Early, Begun, Harnessed, Notices, Points, Slotted
<1> QED BY <1>2, <1>3, <1>4, <1>5, <1>6 DEF Check

\* The wait for a slot and its ends (service.go 730-737).
LEMMA AcquireStep ==
  ASSUME IInv, NEW s \in Shards, Acquire(s)
  PROVE  IInv'
<1>1. worker[s].pc = "queue" /\ Command(worker[s].msg)
  BY ActivationFacts DEF Acquire, At, Activation, Harnessed
<1>2. CASE MoveTo(s, "granted")
  BY <1>1, <1>2, MoveStep DEF Early, Begun, Harnessed, Notices, Points, Slotted
<1>3. CASE GiveUp(s)
  BY <1>1, <1>3, GiveUpStep
<1>4. CASE Conclude(s, "expired")
  BY <1>1, <1>4, ConcludeStep DEF Verdicts
<1> QED BY <1>2, <1>3, <1>4 DEF Acquire

\* Time and trust are checked again with the slot held (service.go 741-752).
LEMMA RecheckStep ==
  ASSUME IInv, NEW s \in Shards, Recheck(s)
  PROVE  IInv'
<1>1. worker[s].pc = "granted"
  BY DEF Recheck, At
<1>2. CASE GiveUp(s)
  BY <1>1, <1>2, GiveUpStep
<1>3. CASE Conclude(s, "expired")
  BY <1>1, <1>3, ConcludeStep DEF Verdicts
<1>4. CASE DropOrWait(s)
  BY <1>1, <1>4, DropOrWaitStep
<1>5. CASE MoveTo(s, "admit")
  BY <1>1, <1>5, MoveStep DEF Early, Begun, Harnessed, Notices, Points, Slotted
<1> QED BY <1>2, <1>3, <1>4, <1>5 DEF Recheck

\* Admission is durable before anything executes (service.go 754-756).
LEMMA AdmitStep ==
  ASSUME IInv, NEW s \in Shards, Admit(s)
  PROVE  IInv'
<1> DEFINE m == worker[s].msg
           next == IF ~Command(m) THEN "feed" ELSE IF worker[s].seq = 0 THEN "start" ELSE "call"
<1>1. worker[s].pc = "admit" /\ UNCHANGED effects /\ Quiet
  BY DEF Admit, At
<1>2. CASE SetWork(m, worker[s].seq, "admitted") /\ Goto(s, next)
  <2> DEFINE w == [worker[s] EXCEPT !.pc = next]
  <2>1. /\ w \in Activations /\ worker' = [worker EXCEPT ![s] = w] 
        /\ w.seq = worker[s].seq /\ w.msg = m /\ w.pc = next
    BY <1>1, <1>2, ActivationFacts DEF Goto, Activations, Points, Slotted
  <2>2. effects[m] = 0
    BY <1>1, ActivationFacts DEF Activation, Begun
  <2> HIDE DEF w
  <2> QED BY <1>1, <1>2, <2>1, <2>2, AdvanceStep DEF Early, Begun, Harnessed, Notices
<1>3. CASE AppendFails /\ Leave(s)
  BY <1>1, <1>3, FailedAppend, LeaveStep
<1> QED BY <1>2, <1>3 DEF Admit

\* The first event of a run (service.go 757-761).
LEMMA StartStep ==
  ASSUME IInv, NEW s \in Shards, Start(s)
  PROVE  IInv'
<1> DEFINE m == worker[s].msg
<1>1. worker[s].pc = "start" /\ UNCHANGED effects /\ Quiet
  BY DEF Start, At
<1>2. CASE Emit(m, worker[s].seq, "started", "admitted") /\ Advance(s, "call")
  <2> DEFINE w == [worker[s] EXCEPT !.pc = "call", !.seq = @ + 1]
  <2>1. /\ w \in Activations /\ worker' = [worker EXCEPT ![s] = w] 
        /\ w.seq = worker[s].seq + 1 /\ w.msg = m /\ w.pc = "call"
    BY <1>1, <1>2, ActivationFacts DEF Advance, Activations, Points, Slotted
  <2>2. effects[m] = 0 /\ Command(m)
    BY <1>1, ActivationFacts DEF Activation, Begun, Harnessed
  <2> HIDE DEF w
  <2> QED BY <1>1, <1>2, <2>1, <2>2, AdvanceStep DEF Early, Begun, Harnessed, Notices
<1>3. CASE EmitFails /\ Leave(s)
  BY <1>1, <1>3, FailedAppend, LeaveStep
<1> QED BY <1>2, <1>3 DEF Start

\* The side effect begins only for admitted work that has none yet.
LEMMA CallStep ==
  ASSUME IInv, NEW s \in Shards, Call(s)
  PROVE  IInv'
<1> DEFINE m == worker[s].msg
           w == [worker[s] EXCEPT !.pc = "running"]
<1>1. worker[s].pc = "call" /\ effects[m] = 0 /\ Command(m)
  BY ActivationFacts DEF Call, At, Activation, Begun, Harnessed
<1>2. CASE /\ effects' = [effects EXCEPT ![m] = @ + 1]
           /\ Goto(s, "running") /\ UNCHANGED <<journal, failures>> /\ Quiet
  <2>1. /\ w \in Activations /\ worker' = [worker EXCEPT ![s] = w] 
        /\ w.seq = worker[s].seq /\ w.msg = m /\ w.pc = "running"
    BY <1>1, <1>2, ActivationFacts DEF Goto, Activations, Points, Slotted
  <2>2. /\ effects'[m] = 1 /\ \A k \in Msgs \ {m} : effects'[k] = effects[k]
        /\ effects' \in [Msgs -> Nat]
    BY <1>1, <1>2, ActivationFacts
  <2>3. JournalOK' /\ UNCHANGED <<work, inbox, failures, consumer, mode, environment, stops>>
    BY <1>2, JournalUnchanged DEF Quiet, journal
  <2> HIDE DEF w
  <2>4. /\ worker' \in [Shards -> Activations] /\ worker'[s] = w
        /\ \A t \in Shards \ {s} : worker'[t] = worker[t]
    BY <1>1, <2>1, ActivationFacts
  <2>5. work[m].state = "admitted"
    BY <1>1, ActivationFacts DEF Activation, Early
  <2>6. Activation(s)'
    BY <1>1, <2>1, <2>2, <2>3, <2>4, <2>5, ActivationFacts DEF Activation, Early, Begun, Notices, Command
  <2> QED BY <1>1, <2>2, <2>3, <2>4, <2>5, <2>6, WorkerStep, ActivationFacts DEF Open
<1>3. CASE Release(s, "queued")
  BY <1>1, <1>3, ReleaseStep
<1>4. CASE Conclude(s, "failed") \/ Conclude(s, "indeterminate")
  BY <1>1, <1>4, ConcludeStep DEF Verdicts
<1> QED BY <1>2, <1>3, <1>4 DEF Call

\* A streamed chunk is durable before the adapter goes on (service.go 767-773).
LEMMA OutputStep ==
  ASSUME IInv, NEW s \in Shards, Output(s)
  PROVE  IInv'
<1> DEFINE m == worker[s].msg
<1>1. worker[s].pc \in {"running", "streaming"} /\ UNCHANGED effects /\ Quiet
  BY DEF Output, Executing, At
<1>2. Command(m) /\ effects[m] = 1
  BY <1>1, ActivationFacts DEF Activation, Begun, Harnessed
<1>3. CASE Emit(m, worker[s].seq, "delta", "admitted") /\ Advance(s, "streaming")
  <2> DEFINE w == [worker[s] EXCEPT !.pc = "streaming", !.seq = @ + 1]
  <2>1. /\ w \in Activations /\ worker' = [worker EXCEPT ![s] = w] 
        /\ w.seq = worker[s].seq + 1 /\ w.msg = m /\ w.pc = "streaming"
    BY <1>1, <1>3, ActivationFacts DEF Advance, Activations, Points, Slotted
  <2> HIDE DEF w
  <2> QED BY <1>1, <1>2, <1>3, <2>1, AdvanceStep DEF Early, Begun, Notices
<1>4. CASE EmitFails /\ Goto(s, "failing")
  <2> DEFINE w == [worker[s] EXCEPT !.pc = "failing"]
  <2>1. /\ w \in Activations /\ w.seq = worker[s].seq /\ w.msg = m /\ w.pc = "failing"
        /\ worker' \in [Shards -> Activations] /\ worker'[s] = w
        /\ \A t \in Shards \ {s} : worker'[t] = worker[t]
    BY <1>1, <1>4, ActivationFacts DEF Goto, Activations, Points, Slotted
  <2>2. /\ JournalOK' /\ failures' \in 0..MaxFailures
        /\ UNCHANGED <<work, inbox, effects, consumer, mode, environment, stops>>
    BY <1>1, <1>4, FailedAppend, JournalUnchanged DEF Quiet, journal
  <2> HIDE DEF w
  <2>3. Activation(s)'
    BY <1>1, <1>2, <2>1, <2>2, ActivationFacts DEF Activation, Early, Begun, Notices, Command
  <2> QED BY <1>1, <2>1, <2>2, <2>3, WorkerStep, ActivationFacts DEF IInv, EffectsOK, Open
<1> QED BY <1>3, <1>4 DEF Output

\* The chunks of a reply that was not streamed (service.go 806-817).
LEMMA ReplyStep ==
  ASSUME IInv, NEW s \in Shards, Reply(s)
  PROVE  IInv'
<1> DEFINE m == worker[s].msg
<1>1. worker[s].pc = "reply" /\ UNCHANGED effects /\ Quiet
  BY DEF Reply, At
<1>2. Command(m) /\ effects[m] = 1
  BY <1>1, ActivationFacts DEF Activation, Begun, Harnessed
<1>3. ASSUME NEW pc \in {"reply", "finish"}, Emit(m, worker[s].seq, "delta", "admitted"),
             Advance(s, pc)
      PROVE  IInv'
  <2> DEFINE w == [worker[s] EXCEPT !.pc = pc, !.seq = @ + 1]
  <2>1. /\ w \in Activations /\ worker' = [worker EXCEPT ![s] = w] 
        /\ w.seq = worker[s].seq + 1 /\ w.msg = m /\ w.pc = pc
    BY <1>1, <1>3, ActivationFacts DEF Advance, Activations, Points, Slotted
  <2> HIDE DEF w
  <2> QED BY <1>1, <1>2, <1>3, <2>1, AdvanceStep DEF Early, Begun, Notices
<1>4. CASE EmitFails /\ Leave(s)
  BY <1>1, <1>4, FailedAppend, LeaveStep
<1> QED BY <1>3, <1>4 DEF Reply

\* The ends of deliver after the handler was called (service.go 774-823).
LEMMA EndStep ==
  ASSUME IInv, NEW s \in Shards, Fail(s) \/ Return(s) \/ Finish(s) \/ Notify(s)
  PROVE  IInv'
<1>1. CASE Fail(s)
  BY <1>1, ConcludeStep DEF Fail, Executing, At, Verdicts
<1>2. CASE Return(s)
  <2>1. worker[s].pc \in {"running", "streaming"} /\ Command(worker[s].msg)
    BY <1>2, ActivationFacts DEF Return, Executing, At, Activation, Harnessed, Begun
  <2> QED BY <1>2, <2>1, MoveStep DEF Return, Early, Begun, Notices, Points, Slotted
<1>3. CASE Finish(s)
  BY <1>3, ConcludeStep DEF Finish, At, Verdicts
<1>4. CASE Notify(s)
  <2>1. worker[s].pc \in {"feed", "file"}
    BY <1>4 DEF Notify, At
  <2>2. effects[worker[s].msg] = 0
    BY <2>1, ActivationFacts DEF Activation, Begun
  <2> QED BY <1>4, <2>1, <2>2, ReleaseStep DEF Notify
<1> QED BY <1>1, <1>2, <1>3, <1>4

\* The loop of work settles what an earlier activation left admitted.
LEMMA PickStep ==
  ASSUME IInv, NEW s \in Shards, Pick(s)
  PROVE  IInv'
<1> PICK m \in Msgs :
      /\ FirstOpen(s, m)
      /\ \/ /\ work[m].state = "queued"
            /\ worker' = [worker EXCEPT ![s] =
                   [pc |-> "check", msg |-> m, seq |-> work[m].seq]]
            /\ UNCHANGED <<journal, failures>>
         \/ /\ work[m].state = "admitted"
            /\ IF Command(m) THEN Emit(m, work[m].seq, "indeterminate", "done") \/ EmitFails
                             ELSE SetWork(m, work[m].seq, "queued") \/ AppendFails
            /\ UNCHANGED worker
  BY DEF Pick
<1>1. /\ Shard[m] = s /\ Open(work[m].state) /\ mode = "up" /\ worker[s].pc = "idle"
      /\ UNCHANGED <<effects, consumer, mode, environment, stops>>
  BY DEF FirstOpen, Pick, Quiet
<1>2. /\ worker \in [Shards -> Activations] /\ effects \in [Msgs -> Nat]
      /\ work \in [Msgs -> WorkRecord] /\ effects[m] \in {0, 1} /\ failures \in 0..MaxFailures
      /\ work[m].state = "queued" => effects[m] = 0
  BY DEF IInv, TypeOK, Activations, WorkRecord, EffectsOK
<1>3. CASE /\ work[m].state = "queued"
           /\ worker' = [worker EXCEPT ![s] =
                   [pc |-> "check", msg |-> m, seq |-> work[m].seq]]
           /\ UNCHANGED <<journal, failures>>
  <2> DEFINE w == [pc |-> "check", msg |-> m, seq |-> work[m].seq]
  <2>1. /\ w \in Activations /\ w.pc = "check" /\ w.msg = m /\ w.seq = work[m].seq
        /\ worker' \in [Shards -> Activations] /\ worker'[s] = w
        /\ \A t \in Shards \ {s} : worker'[t] = worker[t]
    BY <1>2, <1>3 DEF Activations, Points, Slotted, WorkRecord
  <2>2. JournalOK' /\ UNCHANGED <<work, inbox, failures>>
    BY <1>3, JournalUnchanged DEF journal
  <2> HIDE DEF w
  <2>3. Activation(s)'
    BY <1>1, <1>2, <1>3, <2>1, <2>2 DEF Activation, Early, Begun, Harnessed, Notices
  <2> QED BY <1>1, <1>2, <1>3, <2>1, <2>2, <2>3, WorkerStep
<1>4. CASE work[m].state = "admitted" /\ UNCHANGED worker
  <2>1. /\ JournalOK' /\ UNCHANGED inbox /\ failures' \in 0..MaxFailures
        /\ \A k \in Msgs \ {m} : work'[k] = work[k]
        /\ work'[m].state # "none" /\ (work'[m].state = "queued" => ~Command(m))
    <3>1. CASE Emit(m, work[m].seq, "indeterminate", "done")
      BY <1>1, <1>2, <3>1, EmitKeepsJournal DEF EventKinds, Verdicts
    <3>2. CASE SetWork(m, work[m].seq, "queued") /\ ~Command(m)
      BY <1>1, <1>2, <3>2, SetWorkKeepsJournal
    <3>3. CASE EmitFails \/ AppendFails
      BY <1>1, <1>2, <1>4, <3>3, FailedAppend, JournalUnchanged DEF journal
    <3> QED BY <1>4, <3>1, <3>2, <3>3
  <2>2. ~Command(m) => effects[m] = 0
    BY DEF IInv, EffectsOK
  <2> QED BY <1>1, <1>2, <1>4, <2>1, <2>2, WorkerStep
<1> QED BY <1>3, <1>4

\* Every step of a worker keeps the invariant.
LEMMA WorkKeepsInvariant ==
  ASSUME IInv, NEW s \in Shards, Work(s)
  PROVE  IInv'
BY PickStep, CheckStep, AcquireStep, RecheckStep, AdmitStep, StartStep, CallStep,
   OutputStep, ReplyStep, EndStep DEF Work

-----------------------------------------------------------------------------
(***************************************************************************)
(* The receiver, the process and the environment                           *)
(***************************************************************************)

\* Nothing of the journal and of the workers changes.
LEMMA StillStep ==
  ASSUME IInv, UNCHANGED <<journal, worker, effects>>, TypeOK',
         UNCHANGED mode \/ (\A s \in Shards : worker[s].pc = "idle") \/ mode' = "closing",
         receiver' # NoMsg => mode' \in {"up", "closing"}
  PROVE  IInv'
<1>1. JournalOK' /\ UNCHANGED <<inbox, work>>
  BY JournalUnchanged DEF journal
<1>2. WorkersOK'
  BY <1>1 DEF IInv, WorkersOK, Activation, Command
<1>3. EffectsOK' /\ InboxOK'
  BY <1>1 DEF IInv, EffectsOK, InboxOK, InInbox, Command
<1> QED BY <1>1, <1>2, <1>3 DEF IInv, JournalOK

\* Before the signature check nothing is written (service.go 543-560).
LEMMA FetchStep ==
  ASSUME IInv, NEW m \in Msgs, Fetch(m)
  PROVE  IInv'
<1>1. /\ UNCHANGED <<journal, worker, effects, mode, environment, stops, failures>>
      /\ mode \in {"up", "closing"} /\ receiver' \in Msgs \cup {NoMsg}
      /\ unacked' \in SUBSET Msgs
  BY DEF Fetch, Acknowledge, Nak, IInv, TypeOK
<1>2. pos' \in 0..Len(Stream)
  <2>1. Len(Stream) \in Nat
    BY ExecutorAssumption
  <2>2. pos \in 0..Len(Stream)
    BY DEF IInv, TypeOK
  <2>3. pos' = pos \/ (pos < Len(Stream) /\ pos' = pos + 1)
    BY DEF Fetch, Delivered
  <2> QED BY <2>1, <2>2, <2>3
<1>3. TypeOK'
  BY <1>1, <1>2 DEF IInv, TypeOK, journal, environment
<1> QED BY <1>1, <1>3, StillStep

\* A received message is new to the inbox, so it had no work and no effect.
LEMMA VerifyStep ==
  ASSUME IInv, NEW m \in Msgs, Verify(m)
  PROVE  IInv'
<1>1. /\ UNCHANGED <<pos, worker, effects, mode, environment, stops>>
      /\ receiver' = NoMsg /\ unacked' \in SUBSET Msgs /\ mode \in {"up", "closing"}
  BY ExecutorAssumption DEF Verify, Acknowledge, Nak, IInv, TypeOK, InboxOK
<1>2. CASE UNCHANGED journal /\ failures' \in 0..MaxFailures
  <2>1. TypeOK'
    BY <1>1, <1>2 DEF IInv, TypeOK, journal, environment
  <2> QED BY <1>1, <1>2, <2>1, StillStep
<1>3. CASE /\ ~InInbox(m) /\ ~Full(m)
           /\ inbox' = Append(inbox, m)
           /\ IF HasWork(m) THEN Write(m, [state |-> "queued", seq |-> 0])
                            ELSE UNCHANGED <<work, pendingCommands>>
           /\ UNCHANGED <<outbox, failures>>
  <2> DEFINE w == [state |-> "queued", seq |-> 0]
  <2>a. /\ work \in [Msgs -> WorkRecord] /\ inbox \in Seq(Msgs) /\ outbox \in [Msgs -> Seq(Event)]
        /\ pendingCommands \in Nat /\ Role \in {"agent", "console"}
    BY ExecutorAssumption DEF IInv, TypeOK, WorkRecord, Event
  <2>1. work[m].state = "none" /\ effects[m] = 0
    BY <1>3 DEF IInv, InboxOK, EffectsOK
  <2>2. \A k \in Msgs : InInbox(k)' <=> (InInbox(k) \/ k = m)
    <3>1. /\ Len(inbox') = Len(inbox) + 1 /\ Len(inbox) \in Nat
          /\ DOMAIN inbox' = 1..(Len(inbox) + 1) /\ DOMAIN inbox = 1..Len(inbox)
          /\ inbox'[Len(inbox) + 1] = m
          /\ \A i \in 1..Len(inbox) : inbox'[i] = inbox[i]
      BY <1>3, <2>a
    <3> QED BY <3>1 DEF InInbox
  <2>3. inbox' \in Seq(Msgs)
    BY <1>3, <2>a
  <2>4. \A s \in Shards : worker[s].pc = "idle" \/ worker[s].msg # m
    BY <2>1 DEF IInv, WorkersOK, Activation
  <2>5. CASE HasWork(m)
    <3>1. w \in WorkRecord /\ Write(m, w)
      BY <1>3, <2>5 DEF WorkRecord, WorkState
    <3>2. BacklogBounded' /\ pendingCommands' \in Nat
      <4>1. Capacity \in Nat
        BY ExecutorAssumption DEF Capacity
      <4>2. Role = "console" \/ ~Command(m) \/ pendingCommands < Capacity
        BY <1>3, <2>a, <4>1 DEF Full
      <4> QED BY <3>1, <4>2, WriteKeepsBacklog DEF IInv
    <3>3. /\ work' \in [Msgs -> WorkRecord] /\ work'[m] = w
          /\ \A k \in Msgs \ {m} : work'[k] = work[k]
      BY <3>1, <2>a DEF Write
    <3>4. EventsContiguous' /\ OneVerdict'
      <4>1. outbox[m] = <<>>
        <5>1. outbox[m] \in Seq(Event) /\ Len(outbox[m]) = work[m].seq
          BY <2>a DEF IInv, EventsContiguous
        <5>2. work[m].seq = 0
          BY <2>1 DEF IInv, EffectsOK
        <5> QED BY <5>1, <5>2
      <4> QED BY <1>3, <3>3, <4>1, <2>1 DEF IInv, EventsContiguous, OneVerdict, Settled
    <3>5. TypeOK'
      BY <1>1, <1>3, <2>3, <2>a, <3>2, <3>3 DEF IInv, TypeOK, WorkRecord, environment
    <3>6. WorkersOK'
      BY <1>1, <2>4, <3>3 DEF IInv, WorkersOK, Activation, Command
    <3>7. EffectsOK' /\ InboxOK'
      BY <1>1, <2>1, <2>2, <3>3 DEF IInv, EffectsOK, InboxOK, Command
    <3> QED BY <3>2, <3>4, <3>5, <3>6, <3>7 DEF IInv
  <2>6. CASE ~HasWork(m)
    <3>1. UNCHANGED <<work, outbox, pendingCommands, failures>>
      BY <1>3, <2>6
    <3>2. TypeOK'
      BY <1>1, <2>3, <3>1 DEF IInv, TypeOK, environment
    <3>3. EventsContiguous' /\ OneVerdict' /\ BacklogBounded'
      BY <3>1 DEF IInv, EventsContiguous, OneVerdict, Settled, BacklogBounded, OpenCommands
    <3>4. WorkersOK' /\ EffectsOK' /\ InboxOK'
      BY <1>1, <2>2, <3>1 DEF IInv, WorkersOK, Activation, EffectsOK, InboxOK, Command
    <3> QED BY <3>2, <3>3, <3>4 DEF IInv
  <2> QED BY <2>5, <2>6
<1> QED BY <1>2, <1>3, FailedAppend DEF Verify, IInv, TypeOK

\* Recovery meets admitted work while no worker runs.
LEMMA RecoverStep ==
  ASSUME IInv, NEW m \in Msgs, Recover(m)
  PROVE  IInv'
<1>1. /\ mode = "recovering" /\ Open(work[m].state) /\ work[m].state = "admitted"
      /\ UNCHANGED <<pos, unacked, environment, effects, stops>>
      /\ \A s \in Shards : worker[s].pc = "idle"
      /\ receiver = NoMsg /\ work \in [Msgs -> WorkRecord]
  BY DEF Recover, Open, IInv, WorkersOK, Activation, InboxOK, TypeOK, WorkRecord
<1>2. CASE /\ IF Command(m) THEN Emit(m, work[m].seq, "indeterminate", "done")
                            ELSE SetWork(m, work[m].seq, "queued")
           /\ UNCHANGED <<receiver, mode, worker>>
  <2>1. /\ JournalOK' /\ UNCHANGED <<inbox, failures>>
        /\ \A k \in Msgs \ {m} : work'[k] = work[k]
        /\ work'[m].state \in {"queued", "done"}
        /\ work'[m].state = "queued" => ~Command(m)
    <3>1. CASE Command(m)
      BY <1>1, <1>2, <3>1, EmitKeepsJournal DEF EventKinds, Verdicts
    <3>2. CASE ~Command(m)
      BY <1>1, <1>2, <3>2, SetWorkKeepsJournal
    <3> QED BY <3>1, <3>2
  <2>2. TypeOK'
    BY <1>1, <1>2, <2>1 DEF IInv, TypeOK, JournalOK, JournalTyped, WorkRecord, Event, environment
  <2>3. WorkersOK'
    BY <1>1, <1>2 DEF WorkersOK
  <2>4. EffectsOK' /\ InboxOK'
    BY <1>1, <1>2, <2>1 DEF IInv, EffectsOK, InboxOK, InInbox, Command
  <2> QED BY <2>1, <2>2, <2>3, <2>4 DEF IInv, JournalOK
<1>3. CASE AppendFails /\ Down
  <2>1. TypeOK'
    BY <1>1, <1>3, FailedAppend DEF IInv, TypeOK, Down, environment, journal, Idle, Points
  <2>2. WorkersOK'
    BY <1>3 DEF Down, WorkersOK, Idle
  <2>3. JournalOK' /\ UNCHANGED <<inbox, work>>
    BY <1>3, FailedAppend, JournalUnchanged DEF journal
  <2>4. EffectsOK' /\ InboxOK'
    BY <1>1, <1>3, <2>3 DEF IInv, EffectsOK, InboxOK, InInbox, Command, Down
  <2> QED BY <2>1, <2>2, <2>3, <2>4 DEF IInv, JournalOK
<1> QED BY <1>2, <1>3 DEF Recover

\* A crash or a close loses what is not in the journal, and nothing else.
LEMMA ProcessStep ==
  ASSUME IInv, Process
  PROVE  IInv'
<1>1. CASE Boot \/ Ready \/ Close
  <2>1. TypeOK'
    <3>1. stops' \in 0..MaxStops
      BY <1>1, ExecutorAssumption DEF Boot, Ready, Close, IInv, TypeOK
    <3>2. /\ UNCHANGED <<consumer, journal, worker, environment, effects, failures>>
          /\ mode' \in {"recovering", "up", "closing"}
      BY <1>1 DEF Boot, Ready, Close
    <3> QED BY <3>1, <3>2 DEF IInv, TypeOK, journal, environment, consumer
  <2>2. receiver = NoMsg \/ mode \in {"up", "closing"}
    BY DEF IInv, InboxOK
  <2>3. mode \in {"down", "recovering"} => \A s \in Shards : worker[s].pc = "idle"
    BY DEF IInv, WorkersOK, Activation
  <2> QED BY <1>1, <2>1, <2>2, <2>3, StillStep DEF Boot, Ready, Close, consumer
<1>2. CASE Crash \/ Closed
  <2>1. /\ Down /\ UNCHANGED <<pos, unacked, journal, environment, effects, failures>>
        /\ stops' \in 0..MaxStops
    BY <1>2, ExecutorAssumption DEF Crash, Closed, IInv, TypeOK
  <2>2. TypeOK'
    BY <2>1 DEF IInv, TypeOK, Down, environment, journal, Idle, Points
  <2>3. WorkersOK'
    BY <2>1 DEF Down, WorkersOK, Idle
  <2>4. JournalOK' /\ UNCHANGED <<inbox, work>>
    BY <2>1, JournalUnchanged DEF journal
  <2>5. EffectsOK' /\ InboxOK'
    BY <2>1, <2>4 DEF IInv, EffectsOK, InboxOK, InInbox, Command, Down
  <2> QED BY <2>2, <2>3, <2>4, <2>5 DEF IInv, JournalOK
<1> QED BY <1>1, <1>2 DEF Process

\* Trust and time move without the service.
LEMMA EnvironmentStep ==
  ASSUME IInv, Environment
  PROVE  IInv'
<1>1. /\ UNCHANGED <<consumer, journal, worker, mode, effects, stops, failures>>
      /\ trust' \in [Peers -> TrustStates] /\ expired' \in SUBSET Msgs
  BY DEF Environment, TrustChanges, Expires, IInv, TypeOK
<1>2. TypeOK'
  BY <1>1 DEF IInv, TypeOK, journal, consumer
<1> QED BY <1>1, <1>2, StillStep DEF IInv, InboxOK, consumer

-----------------------------------------------------------------------------
(***************************************************************************)
(* What a step does to the journal and the effects, and what follows: the  *)
(* order of a shard, the truth of the events, and what is never dropped    *)
(***************************************************************************)

\* Work that a worker handles or that has begun.
Busy(m) == \/ effects[m] > 0 \/ work[m].state = "admitted"
           \/ \E s \in Shards : worker[s].pc # "idle" /\ worker[s].msg = m

\* Everything the inbox holds before m in its shard is done.
Ahead(m) ==
  \A j \in DOMAIN inbox : inbox[j] = m =>
    \A i \in 1..(j - 1) : Shard[inbox[i]] = Shard[m] => ~Open(work[inbox[i]].state)

SerialInv == CursorsUnique /\ \A m \in Msgs : Busy(m) => Ahead(m)

\* What an event of this kind says of the side effect is so.
Truthful(m, kind) ==
  /\ kind \in {"expired", "refused", "unsupported"} => effects[m] = 0
  /\ kind \in {"delta", "completed", "accepted"} => effects[m] = 1

HonestInv == \A m \in Msgs : \A i \in DOMAIN outbox[m] : Truthful(m, outbox[m][i].kind)

\* The work of m changes: its state, with a truthful event, or its effect begins.
Deed(m) ==
  /\ UNCHANGED inbox /\ Open(work[m].state) /\ work'[m].state # "none"
  /\ Busy(m) \/ (work'[m].state # "admitted" /\ UNCHANGED effects)
  /\ \A k \in Msgs \ {m} : work'[k] = work[k] /\ effects'[k] = effects[k]
  /\ \/ /\ UNCHANGED <<outbox, effects>>
        /\ work'[m].state = "done" => ~Command(m) \/ Revoked(m) \/ Passive(m)
     \/ \E e \in Event :
          /\ outbox' = [outbox EXCEPT ![m] = Append(@, e)]
          /\ work'[m].state = "done" => e.kind \in Verdicts
          /\ Truthful(m, e.kind) /\ UNCHANGED effects
     \/ /\ effects[m] = 0 /\ effects'[m] = 1
        /\ UNCHANGED <<work, outbox>>

Arrival(m) ==
  /\ ~InInbox(m) /\ inbox' = Append(inbox, m)
  /\ work[m].state = "none" /\ work'[m].state \in {"none", "queued"}
  /\ \A k \in Msgs \ {m} : work'[k] = work[k]
  /\ UNCHANGED <<outbox, effects, worker>>

Rest == UNCHANGED <<inbox, work, outbox, effects>>
Told == (\E m \in Msgs : Deed(m) \/ Arrival(m)) \/ Rest

\* A worker keeps its work or leaves it, or takes the first open one.
Attended == 
  \A s \in Shards : worker'[s].pc # "idle" =>
     \/ worker[s].pc # "idle" /\ worker'[s].msg = worker[s].msg
     \/ FirstOpen(s, worker'[s].msg) /\ UNCHANGED inbox

\* emit for open work is a deed.
LEMMA EmitDeed ==
  ASSUME IInv, NEW m \in Msgs, Open(work[m].state), NEW seq, seq = work[m].seq,
         NEW kind \in EventKinds, NEW state \in {"admitted", "done"},
         state = "done" => kind \in Verdicts, Truthful(m, kind),
         Busy(m) \/ state # "admitted",
         Emit(m, seq, kind, state), UNCHANGED effects
  PROVE  Deed(m)
<1> DEFINE e == [kind |-> kind, seq |-> seq + 1]
<1>1. work \in [Msgs -> WorkRecord] /\ seq \in Nat
  BY DEF IInv, TypeOK, WorkRecord
<1>2. e \in Event /\ e.kind = kind
  BY <1>1 DEF Event
<1>3. /\ outbox' = [outbox EXCEPT ![m] = Append(@, e)]
      /\ Write(m, [state |-> state, seq |-> seq + 1]) /\ UNCHANGED inbox
  BY EmitAppends
<1>4. work'[m].state = state /\ \A k \in Msgs \ {m} : work'[k] = work[k]
  BY <1>1, <1>3 DEF Write
<1> HIDE DEF e
<1> QED BY <1>2, <1>3, <1>4 DEF Deed

\* setWork for open work is a deed; only what is no run, or what a revoked sender
\* sent, becomes done by it.
LEMMA SetWorkDeed ==
  ASSUME IInv, NEW m \in Msgs, Open(work[m].state), NEW seq,
         NEW state \in {"queued", "admitted", "done"},
         state = "done" => ~Command(m) \/ Revoked(m) \/ Passive(m),
         Busy(m) \/ state # "admitted",
         SetWork(m, seq, state), UNCHANGED effects
  PROVE  Deed(m)
<1>1. work' = [work EXCEPT ![m] = [state |-> state, seq |-> seq]] /\ UNCHANGED <<inbox, outbox>>
  BY DEF SetWork, Write
<1>2. work'[m].state = state /\ \A k \in Msgs \ {m} : work'[k] = work[k]
  BY <1>1 DEF IInv, TypeOK
<1> QED BY <1>1, <1>2 DEF Deed

\* A failed append is none.
LEMMA FailedAppendRests ==
  ASSUME AppendFails \/ EmitFails, UNCHANGED effects
  PROVE  Rest
BY DEF AppendFails, EmitFails, journal, Rest

\* The ways in which deliver returns.
LEMMA ReturnTold ==
  ASSUME IInv, NEW s \in Shards, worker[s].pc # "idle",
         \/ GiveUp(s) \/ DropOrWait(s)
         \/ Release(s, "queued")
         \/ Release(s, "done") /\ (~Command(worker[s].msg) \/ Passive(worker[s].msg))
         \/ \E kind \in Verdicts : Conclude(s, kind) /\ Truthful(worker[s].msg, kind)
  PROVE  Told
<1> DEFINE m == worker[s].msg
<1>a. m \in Msgs /\ Open(work[m].state) /\ worker[s].seq = work[m].seq
  BY ActivationFacts
<1>1. ASSUME NEW state \in {"queued", "done"}, Release(s, state),
             state = "done" => ~Command(m) \/ Revoked(m) \/ Passive(m)
      PROVE  Told
  BY <1>1, <1>a, SetWorkDeed, FailedAppendRests DEF Release, Told
<1>2. ASSUME NEW kind \in Verdicts, Conclude(s, kind), Truthful(m, kind)
      PROVE  Told
  BY <1>2, <1>a, EmitDeed, FailedAppendRests DEF Conclude, Told, EventKinds
<1>3. ASSUME GiveUp(s) PROVE Told
  BY <1>3 DEF GiveUp, Told, Rest, journal
<1> QED BY <1>1, <1>2, <1>3 DEF DropOrWait

\* deliver up to the admission: nothing has begun.
LEMMA EarlyTold ==
  ASSUME IInv, NEW s \in Shards, Check(s) \/ Acquire(s) \/ Recheck(s)
  PROVE  Told
<1> DEFINE m == worker[s].msg
<1>a. worker[s].pc \in {"check", "queue", "granted"} /\ worker[s].pc # "idle"
  BY DEF Check, Acquire, Recheck, At
<1>b. /\ m \in Msgs /\ Open(work[m].state) /\ worker[s].seq = work[m].seq
      /\ effects[m] = 0 /\ Busy(m)
  BY <1>a, ActivationFacts DEF Activation, Begun, Busy
<1>c. \A kind \in {"expired", "refused", "unsupported"} : Truthful(m, kind) /\ kind \in Verdicts
  BY <1>b DEF Truthful, Verdicts
<1>1. ASSUME NEW pc, MoveTo(s, pc) PROVE Told
  BY <1>1 DEF MoveTo, Told, Rest, journal
<1>2. CASE Check(s)
  <2>1. CASE CheckCommand(s)
    <3>1. Refusal(m) \subseteq {"expired", "refused", "unsupported"}
      BY DEF Refusal
    <3> QED BY <1>a, <1>c, <1>1, <2>1, <3>1, ReturnTold DEF CheckCommand
  <2>2. CASE CheckTransfer(s) /\ Kind[m] = "transfer"
    <3>1. CASE SetWork(m, worker[s].seq, "admitted") /\ UNCHANGED effects
      BY <1>b, <3>1, SetWorkDeed DEF Told
    <3>2. CASE AppendFails /\ UNCHANGED effects
      BY <3>2, FailedAppendRests DEF Told
    <3>3. ~Command(m)
      BY <2>2 DEF Command
    <3> QED BY <1>a, <2>2, <3>1, <3>2, <3>3, ReturnTold DEF CheckTransfer
  <2> QED BY <1>a, <1>1, <1>2, <2>1, <2>2, ReturnTold DEF Check
<1>3. CASE Acquire(s)
  BY <1>a, <1>c, <1>1, <1>3, ReturnTold DEF Acquire
<1>4. CASE Recheck(s)
  BY <1>a, <1>c, <1>1, <1>4, ReturnTold DEF Recheck
<1> QED BY <1>2, <1>3, <1>4

\* deliver from the admission on: its events speak of the one effect that began.
LEMMA LateTold ==
  ASSUME IInv, NEW s \in Shards,
         \/ Admit(s) \/ Start(s) \/ Call(s) \/ Output(s) \/ Reply(s)
         \/ Fail(s) \/ Return(s) \/ Finish(s) \/ Notify(s)
  PROVE  Told
<1> DEFINE m == worker[s].msg
<1>a. worker[s].pc # "idle"
  BY DEF Admit, Start, Call, Output, Reply, Fail, Return, Finish, Notify, At, Executing
<1>b. /\ m \in Msgs /\ Open(work[m].state) /\ worker[s].seq = work[m].seq
      /\ Activation(s) /\ Busy(m)
  BY <1>a, ActivationFacts DEF Busy
<1>c. \A kind \in {"started", "failed", "indeterminate"} : Truthful(m, kind)
  BY DEF Truthful
<1>d. \A kind \in {"failed", "indeterminate", "completed", "accepted"} : kind \in Verdicts
  BY DEF Verdicts
<1>1. CASE Admit(s)
  BY <1>b, <1>1, SetWorkDeed, FailedAppendRests DEF Admit, Told
<1>2. CASE Start(s) \/ Output(s) \/ Reply(s)
  <2>1. UNCHANGED effects
    BY <1>2 DEF Start, Output, Reply
  <2>2. \/ \E kind \in {"started", "delta"} : Emit(m, worker[s].seq, kind, "admitted") /\ Truthful(m, kind)
        \/ EmitFails
    <3>1. CASE Start(s)
      BY <1>c, <3>1 DEF Start
    <3>2. CASE Output(s) \/ Reply(s)
      <4>1. worker[s].pc \in Begun
        BY <3>2 DEF Output, Reply, Executing, At, Begun
      <4>2. effects[m] = 1
        BY <1>b, <4>1 DEF Activation
      <4>3. Truthful(m, "delta")
        BY <4>2 DEF Truthful
      <4> QED BY <3>2, <4>3 DEF Output, Reply
    <3> QED BY <1>2, <3>1, <3>2
  <2>3. ASSUME NEW kind \in {"started", "delta"}, Emit(m, worker[s].seq, kind, "admitted"),
               Truthful(m, kind)
        PROVE  Deed(m)
    BY <1>b, <2>1, <2>3, EmitDeed DEF EventKinds
  <2> QED BY <1>b, <2>1, <2>2, <2>3, FailedAppendRests DEF Told
<1>3. CASE Call(s)
  <2>1. CASE effects' = [effects EXCEPT ![m] = @ + 1] /\ UNCHANGED journal
    <3>1. effects[m] = 0 /\ effects \in [Msgs -> Nat]
      BY <1>a, <1>3, ActivationFacts DEF Call, At, Activation, Begun
    <3>2. effects'[m] = 1 /\ \A k \in Msgs \ {m} : effects'[k] = effects[k]
      BY <1>b, <2>1, <3>1
    <3>3. Deed(m)
      BY <1>b, <2>1, <3>1, <3>2 DEF Deed, journal, Open
    <3> QED BY <1>b, <3>3 DEF Told
  <2> QED BY <1>a, <1>c, <1>d, <1>3, <2>1, ReturnTold DEF Call
<1>4. CASE Fail(s)
  BY <1>a, <1>c, <1>d, <1>4, ReturnTold DEF Fail
<1>5. CASE Finish(s)
  <2>1. effects[m] = 1
    BY <1>b, <1>5 DEF Finish, At, Activation, Begun
  <2>2. Truthful(m, "completed") /\ Truthful(m, "accepted")
    BY <2>1 DEF Truthful
  <2> QED BY <1>a, <1>d, <1>5, <2>2, ReturnTold DEF Finish
<1>6. CASE Notify(s)
  <2>1. ~Command(m)
    BY <1>b, <1>6 DEF Notify, At, Activation, Notices
  <2> QED BY <1>a, <1>6, <2>1, ReturnTold DEF Notify
<1>7. CASE Return(s)
  BY <1>7 DEF Return, MoveTo, Told, Rest, journal
<1> QED BY <1>1, <1>2, <1>3, <1>4, <1>5, <1>6, <1>7

\* What an earlier activation left admitted is settled or queued.
LEMMA PickTold ==
  ASSUME IInv, NEW s \in Shards, Pick(s)
  PROVE  Told
<1> PICK m \in Msgs :
      /\ FirstOpen(s, m)
      /\ \/ UNCHANGED journal
         \/ Emit(m, work[m].seq, "indeterminate", "done") \/ EmitFails
         \/ SetWork(m, work[m].seq, "queued") \/ AppendFails
  BY DEF Pick
<1>1. Open(work[m].state) /\ UNCHANGED effects
  BY DEF FirstOpen, Pick
<1>2. CASE UNCHANGED journal
  BY <1>1, <1>2 DEF Told, Rest, journal
<1>3. CASE Emit(m, work[m].seq, "indeterminate", "done")
  BY <1>1, <1>3, EmitDeed DEF Told, EventKinds, Verdicts, Truthful
<1>4. CASE SetWork(m, work[m].seq, "queued")
  BY <1>1, <1>4, SetWorkDeed DEF Told
<1>5. CASE EmitFails \/ AppendFails
  BY <1>1, <1>5, FailedAppendRests DEF Told
<1> QED BY <1>2, <1>3, <1>4, <1>5

\* So is what a crash left admitted.
LEMMA RecoverTold ==
  ASSUME IInv, NEW m \in Msgs, Recover(m)
  PROVE  Told
<1>1. Open(work[m].state) /\ UNCHANGED effects
  BY DEF Recover, Open
<1>2. CASE Emit(m, work[m].seq, "indeterminate", "done")
  BY <1>1, <1>2, EmitDeed DEF Told, EventKinds, Verdicts, Truthful
<1>3. CASE SetWork(m, work[m].seq, "queued")
  BY <1>1, <1>3, SetWorkDeed DEF Told
<1>4. CASE AppendFails
  BY <1>1, <1>4, FailedAppendRests DEF Told
<1> QED BY <1>2, <1>3, <1>4 DEF Recover

\* The receiver appends only what the inbox does not hold.
LEMMA VerifyTold ==
  ASSUME IInv, NEW m \in Msgs, Verify(m)
  PROVE  Told
<1>1. UNCHANGED <<effects, worker>>
  BY DEF Verify
<1>2. CASE UNCHANGED journal
  BY <1>1, <1>2 DEF Told, Rest, journal
<1>3. CASE /\ ~InInbox(m) /\ inbox' = Append(inbox, m) /\ UNCHANGED outbox
           /\ IF HasWork(m) THEN Write(m, [state |-> "queued", seq |-> 0])
                            ELSE UNCHANGED <<work, pendingCommands>>
  <2>1. work[m].state = "none" /\ work \in [Msgs -> WorkRecord]
    BY <1>3 DEF IInv, InboxOK, TypeOK, WorkRecord
  <2>2. /\ work'[m].state \in {"none", "queued"}
        /\ \A k \in Msgs \ {m} : work'[k] = work[k]
    BY <1>3, <2>1 DEF Write
  <2> QED BY <1>1, <1>3, <2>1, <2>2 DEF Told, Arrival
<1> QED BY <1>2, <1>3 DEF Verify, AppendFails

\* Every step is told by one of the three forms.
LEMMA NextTold ==
  ASSUME IInv, [Next]_vars
  PROVE  Told
<1>1. ASSUME NEW m \in Msgs, Fetch(m) PROVE Told
  BY <1>1 DEF Fetch, Told, Rest, journal
<1>2. ASSUME Process \/ Environment PROVE Told
  BY <1>2 DEF Process, Boot, Ready, Crash, Close, Closed, Environment, TrustChanges,
       Expires, Told, Rest, journal
<1>3. CASE UNCHANGED vars
  BY <1>3 DEF vars, journal, Told, Rest
<1>4. ASSUME NEW s \in Shards, Work(s) PROVE Told
  BY <1>4, PickTold, EarlyTold, LateTold DEF Work
<1> QED BY <1>1, <1>2, <1>3, <1>4, VerifyTold, RecoverTold DEF Next

\* Only Pick gives a worker new work (workHeads, service.go 642-655).
LEMMA NextAttended ==
  ASSUME IInv, [Next]_vars
  PROVE  Attended
<1>a. worker \in [Shards -> Activations]
  BY DEF IInv, TypeOK, Activations
<1>1. ASSUME UNCHANGED worker \/ Down PROVE Attended
  BY <1>1 DEF Attended, Down, Idle
<1>2. ASSUME NEW s \in Shards, Work(s) PROVE Attended
  <2>1. CASE Pick(s)
    <3>1. CASE UNCHANGED worker
      BY <1>1, <3>1
    <3>2. CASE \E m \in Msgs : /\ FirstOpen(s, m) /\ UNCHANGED journal
                               /\ worker' = [worker EXCEPT ![s] =
                                     [pc |-> "check", msg |-> m, seq |-> work[m].seq]]
      BY <1>a, <3>2 DEF Attended, journal
    <3> QED BY <2>1, <3>1, <3>2 DEF Pick
  <2>2. CASE ~Pick(s)
    <3>1. worker[s].pc # "idle"
      BY <1>2, <2>2 DEF Work, Check, Acquire, Recheck, Admit, Start, Call, Output, Fail, Return,
                        Reply, Finish, Notify, At, Executing
    <3>2. Leave(s) \/ (\E pc : Goto(s, pc)) \/ (\E pc : Advance(s, pc))
      BY <1>2, <2>2 DEF Work, Check, Acquire, Recheck, Admit, Start, Call, Output, Fail, Return,
                        Reply, Finish, Notify, CheckCommand, CheckTransfer, DropOrWait,
                        Conclude, Release, GiveUp, MoveTo
    <3>3. \A r \in Shards \ {s} : worker'[r] = worker[r]
      BY <1>a, <3>2 DEF Leave, Goto, Advance
    <3>4. worker'[s].pc = "idle" \/ worker'[s].msg = worker[s].msg
      <4>1. CASE Leave(s)
        BY <1>a, <4>1 DEF Leave, Idle
      <4>2. ASSUME NEW pc, Goto(s, pc) \/ Advance(s, pc) PROVE worker'[s].msg = worker[s].msg
        BY <1>a, <4>2 DEF Goto, Advance, Activations
      <4> QED BY <3>2, <4>1, <4>2
    <3> QED BY <3>1, <3>3, <3>4 DEF Attended
  <2> QED BY <2>1, <2>2
<1>3. CASE UNCHANGED vars
  BY <1>1, <1>3 DEF vars
<1>4. CASE Next
  BY <1>1, <1>2, <1>4 DEF Next, Fetch, Verify, Recover, Process, Boot, Ready, Crash, Close,
                          Closed, Environment, TrustChanges, Expires
<1> QED BY <1>3, <1>4

\* The order of a shard is kept: work becomes busy only as the first open one, and
\* what is done or unreceived never reopens before it (service.go 611-655).
LEMMA SerialStep ==
  ASSUME IInv, SerialInv, [Next]_vars
  PROVE  SerialInv'
<1>a. Told /\ Attended
  BY NextTold, NextAttended
<1>b. /\ inbox \in Seq(Msgs) /\ DOMAIN inbox = 1..Len(inbox) /\ Len(inbox) \in Nat
      /\ \A i \in DOMAIN inbox : inbox[i] \in Msgs
  BY DEF IInv, TypeOK
<1>1. ASSUME NEW s \in Shards, NEW m \in Msgs, FirstOpen(s, m) PROVE Ahead(m)
  BY <1>1 DEF FirstOpen, Ahead, SerialInv, CursorsUnique
<1>2. ASSUME NEW m \in Msgs, Busy(m)'
      PROVE  Busy(m) \/ (UNCHANGED inbox /\ \E s \in Shards : FirstOpen(s, m))
  <2>1. CASE \E s \in Shards : worker'[s].pc # "idle" /\ worker'[s].msg = m
    BY <1>a, <2>1 DEF Attended, Busy
  <2>2. CASE effects'[m] > 0 \/ work'[m].state = "admitted"
    <3>1. CASE Rest \/ \E k \in Msgs \ {m} : Deed(k) \/ Arrival(k)
      BY <2>2, <3>1 DEF Rest, Deed, Arrival, Busy
    <3>2. CASE Deed(m) \/ Arrival(m)
      BY <2>2, <3>2 DEF Deed, Arrival, Busy
    <3> QED BY <1>a, <3>1, <3>2 DEF Told
  <2> QED BY <1>2, <2>1, <2>2 DEF Busy
<1>3. CASE Rest \/ \E k \in Msgs : Deed(k)
  <2>1. UNCHANGED inbox /\ \A k \in Msgs : ~Open(work[k].state) => ~Open(work'[k].state)
    BY <1>3 DEF Deed, Rest
  <2>2. ASSUME NEW m \in Msgs, Ahead(m) PROVE Ahead(m)'
    BY <1>b, <2>1, <2>2 DEF Ahead
  <2> QED BY <1>1, <1>2, <2>1, <2>2 DEF SerialInv, CursorsUnique
<1>4. ASSUME NEW n \in Msgs, Arrival(n) PROVE SerialInv'
  <2>1. /\ DOMAIN inbox' = 1..(Len(inbox) + 1) /\ inbox'[Len(inbox) + 1] = n
        /\ \A i \in 1..Len(inbox) : inbox'[i] = inbox[i] /\ inbox[i] # n
    BY <1>b, <1>4 DEF Arrival, InInbox
  <2>2. CursorsUnique'
    BY <1>b, <2>1 DEF CursorsUnique, SerialInv
  <2>3. ASSUME NEW m \in Msgs, Busy(m)' PROVE Ahead(m)'
    <3>1. Busy(m)
      <4>1. Len(inbox) + 1 \in DOMAIN inbox' /\ Len(inbox) + 1 \notin DOMAIN inbox
        BY <1>b, <2>1
      <4> QED BY <1>2, <2>3, <4>1
    <3>2. m # n
      BY <1>4, <3>1 DEF Arrival, Busy, IInv, EffectsOK, WorkersOK, Activation
    <3>3. Ahead(m)
      BY <3>1 DEF SerialInv
    <3> QED BY <1>b, <1>4, <2>1, <3>2, <3>3 DEF Ahead, Arrival
  <2> QED BY <2>2, <2>3 DEF SerialInv
<1> QED BY <1>a, <1>3, <1>4 DEF Told

\* What the events say of the effect stays true: an effect begins only for open
\* work, whose run has no verdict yet, and once (service.go 754-823).
LEMMA HonestStep ==
  ASSUME IInv, HonestInv, [Next]_vars
  PROVE  HonestInv'
<1>a. outbox \in [Msgs -> Seq(Event)] /\ EventKinds = {"started", "delta"} \cup Verdicts
  BY DEF IInv, TypeOK, Event, EventKinds
<1>1. CASE Rest \/ \E m \in Msgs : Arrival(m)
  BY <1>1 DEF Rest, Arrival, HonestInv, Truthful
<1>2. ASSUME NEW m \in Msgs, Deed(m) PROVE HonestInv'
  <2>1. CASE UNCHANGED <<outbox, effects>>
    BY <2>1 DEF HonestInv, Truthful
  <2>2. ASSUME NEW e \in Event, outbox' = [outbox EXCEPT ![m] = Append(@, e)],
               Truthful(m, e.kind), UNCHANGED effects
        PROVE  HonestInv'
    <3>1. /\ \A k \in Msgs \ {m} : outbox'[k] = outbox[k]
          /\ outbox'[m] = Append(outbox[m], e) /\ outbox[m] \in Seq(Event)
      BY <1>a, <2>2
    <3>2. \A i \in DOMAIN outbox'[m] : outbox'[m][i] = e \/ (i \in DOMAIN outbox[m] /\ outbox'[m][i] = outbox[m][i])
      BY <3>1
    <3> QED BY <2>2, <3>1, <3>2 DEF HonestInv, Truthful
  <2>3. CASE effects[m] = 0 /\ effects'[m] = 1 /\ UNCHANGED outbox
    <3>1. \A i \in DOMAIN outbox[m] : outbox[m][i].kind \notin Verdicts /\ outbox[m][i].kind # "delta"
      BY <1>2, <2>3 DEF Deed, Open, IInv, OneVerdict, Settled, HonestInv, Truthful
    <3>2. \A i \in DOMAIN outbox[m] : Truthful(m, outbox[m][i].kind)'
      BY <2>3, <3>1 DEF Truthful, Verdicts
    <3> QED BY <1>2, <2>3, <3>2 DEF Deed, HonestInv, Truthful
  <2> QED BY <1>2, <2>1, <2>2, <2>3 DEF Deed
<1> QED BY <1>1, <1>2, NextTold DEF Told

\* Work is done with a verdict in the same record, or is no run of a sender that
\* still counts (service.go 682-705, 747-752).
LEMMA NotSilent ==
  ASSUME IInv, [Next]_vars, NEW m \in Msgs, Command(m),
         Open(work[m].state), ~Open(work'[m].state),
         ~(Role = "console" /\ Kind[m] = "chat")
  PROVE  Settled(m)' \/ Revoked(m)
<1>1. Deed(m)
  <2>1. ~Rest /\ ~Arrival(m) /\ \A k \in Msgs \ {m} : ~Deed(k) /\ ~Arrival(k)
    BY DEF Deed, Arrival, Rest, Open
  <2> QED BY <2>1, NextTold DEF Told
<1>2. work'[m].state = "done"
  BY <1>1 DEF Deed, Open
<1>3. ~Passive(m)
  BY DEF Passive, Command
<1>4. ASSUME NEW e \in Event, outbox' = [outbox EXCEPT ![m] = Append(@, e)], e.kind \in Verdicts
      PROVE  Settled(m)'
  <2>1. outbox'[m] = Append(outbox[m], e) /\ outbox[m] \in Seq(Event)
    BY <1>4 DEF IInv, TypeOK, Event
  <2>2. Len(outbox'[m]) \in DOMAIN outbox'[m] /\ outbox'[m][Len(outbox'[m])] = e
    BY <2>1
  <2> QED BY <1>4, <2>2 DEF Settled
<1> QED BY <1>1, <1>2, <1>3, <1>4 DEF Deed

\* The broker forgets a message only when the receiver acknowledges it: after the
\* append, as a duplicate, or for a sender that is revoked or has left.
LEMMA AckedLater ==
  ASSUME IInv, [Next]_vars, NEW m \in Msgs, Outstanding(m), ~Outstanding(m)'
  PROVE  m \in Received' \/ Revoked(m) \/ Absent(m)
<1>a. /\ pos \in 0..Len(Stream) /\ unacked \subseteq Msgs /\ inbox \in Seq(Msgs)
      /\ Stream \in Seq(Msgs) /\ Len(Stream) \in Nat
  BY ExecutorAssumption DEF IInv, TypeOK
<1>1. CASE UNCHANGED <<pos, unacked>>
  BY <1>1 DEF Outstanding
<1>2. ASSUME NEW n \in Msgs, Fetch(n) PROVE Revoked(m)
  <2>1. m = n
    <3>1. \/ UNCHANGED pos
          \/ pos < Len(Stream) /\ Stream[pos + 1] = n /\ pos' = pos + 1
      BY <1>2 DEF Fetch, Delivered
    <3>2. unacked \ {n} \subseteq unacked'
      BY <1>2 DEF Fetch, Acknowledge, Nak
    <3> QED BY <1>a, <3>1, <3>2 DEF Outstanding
  <2>2. n \notin unacked'
    BY <2>1 DEF Outstanding
  <2> QED BY <1>2, <2>1, <2>2 DEF Fetch, Nak
<1>3. ASSUME NEW n \in Msgs, Verify(n) PROVE m \in Received' \/ Absent(m)
  <2>1. UNCHANGED pos /\ unacked \ {n} \subseteq unacked'
    BY <1>3 DEF Verify, Acknowledge, Nak
  <2>2. m = n /\ n \notin unacked'
    BY <2>1 DEF Outstanding
  <2>3. CASE Absent(n) \/ InInbox(n)
    BY <1>3, <2>2, <2>3 DEF Verify, Received, InInbox, journal
  <2>4. CASE inbox' = Append(inbox, n)
    <3>1. Len(inbox') \in DOMAIN inbox' /\ inbox'[Len(inbox')] = n
      BY <1>a, <2>4
    <3> QED BY <2>2, <3>1 DEF Received
  <2> QED BY <1>3, <2>2, <2>3, <2>4 DEF Verify, Nak
<1>4. ASSUME NEW n \in Msgs, Recover(n) PROVE UNCHANGED <<pos, unacked>>
  BY <1>4 DEF Recover
<1>5. ASSUME NEW s \in Shards, Work(s) PROVE UNCHANGED <<pos, unacked>>
  BY <1>5 DEF Work, Pick, Check, Acquire, Recheck, Admit, Start, Call, Output, Fail, Return,
              Reply, Finish, Notify, CheckCommand, CheckTransfer, DropOrWait, Conclude, Release,
              GiveUp, MoveTo, Quiet, consumer
<1>6. ASSUME Process \/ Environment PROVE UNCHANGED <<pos, unacked>>
  BY <1>6 DEF Process, Boot, Ready, Crash, Close, Closed, Environment, TrustChanges, Expires, consumer
<1>7. CASE UNCHANGED vars
  BY <1>1, <1>7 DEF vars, consumer
<1> QED BY <1>1, <1>2, <1>3, <1>4, <1>5, <1>6, <1>7 DEF Next

-----------------------------------------------------------------------------
(***************************************************************************)
(* Theorems                                                                *)
(***************************************************************************)

\* A Bot that never ran satisfies the invariant.
LEMMA InitOK == Init => IInv
<1> SUFFICES ASSUME Init PROVE IInv
  OBVIOUS
<1>1. TypeOK
  BY ExecutorAssumption DEF Init, TypeOK, Idle, Points, WorkState, TrustStates
<1>2. OpenCommands = {}
  BY DEF Init, OpenCommands, Open
<1>3. BacklogBounded
  BY <1>2, FS_EmptySet, ExecutorAssumption DEF Init, BacklogBounded, Capacity
<1>4. EventsContiguous /\ OneVerdict
  BY DEF Init, EventsContiguous, OneVerdict, Settled
<1>5. WorkersOK /\ EffectsOK /\ InboxOK
  BY DEF Init, WorkersOK, EffectsOK, InboxOK, Idle
<1> QED BY <1>1, <1>3, <1>4, <1>5 DEF IInv

\* The invariant is inductive.
LEMMA StepOK == IInv /\ [Next]_vars => IInv'
<1> SUFFICES ASSUME IInv, [Next]_vars PROVE IInv'
  OBVIOUS
<1>1. CASE Next
  BY <1>1, FetchStep, VerifyStep, RecoverStep, WorkKeepsInvariant, ProcessStep,
     EnvironmentStep DEF Next
<1>2. CASE UNCHANGED vars
  <2>1. TypeOK' /\ UNCHANGED <<journal, worker, effects, mode, receiver>>
    BY <1>2 DEF IInv, TypeOK, vars, consumer, journal, environment
  <2> QED BY <2>1, StillStep DEF IInv, InboxOK
<1> QED BY <1>1, <1>2

\* In every reachable state the journal, the workers of service.go 611-823 and
\* the effects of the adapter agree (IInv).
THEOREM Invariance == Spec => []IInv
BY InitOK, StepOK, PTL DEF Spec

\* Every variable keeps its type, so no append or restart yields a record that
\* apply (journal.go 170-214) does not know (TypeOK).
THEOREM TypeCorrect == Spec => []TypeOK
BY Invariance, PTL DEF IInv

\* The counter of apply (journal.go 200-207) is exact, and an agent's backlog
\* stays within maxConcurrent + maxQueued (BacklogBounded).
THEOREM BacklogTheorem == Spec => []BacklogBounded
<1>1. IInv => BacklogBounded
  BY DEF IInv
<1> QED BY <1>1, Invariance, PTL

\* emit (service.go 825-838) numbers the events of every run without gap or
\* repetition, whatever fails or restarts (EventsContiguous).
THEOREM ContiguousTheorem == Spec => []EventsContiguous
<1>1. IInv => EventsContiguous
  BY DEF IInv
<1> QED BY <1>1, Invariance, PTL

\* Every run has at most one verdict, which is its last event, and its work is
\* done (OneVerdict; service.go 633-640 and 777-823).
THEOREM OneVerdictTheorem == Spec => []OneVerdict
<1>1. IInv => OneVerdict
  BY DEF IInv
<1> QED BY <1>1, Invariance, PTL

\* The journal keeps one numbered sequence of events per run, with one verdict
\* at its end, over crashes, retries and failed appends.
THEOREM RunsTheorem == Spec => []RunsAreOrdered
<1>1. EventsContiguous /\ OneVerdict => RunsAreOrdered
  BY DEF RunsAreOrdered
<1> QED BY <1>1, ContiguousTheorem, OneVerdictTheorem, PTL

\* Besides, the inbox holds no message twice, nothing busy is behind open work of
\* its shard, and no event lies about the effect.
THEOREM FullInvariance == Spec => [](IInv /\ SerialInv /\ HonestInv)
<1>1. Init => SerialInv /\ HonestInv
  BY DEF Init, SerialInv, CursorsUnique, Busy, Idle, HonestInv
<1>2. IInv /\ SerialInv /\ HonestInv /\ [Next]_vars => SerialInv' /\ HonestInv'
  BY SerialStep, HonestStep
<1> QED BY <1>1, <1>2, InitOK, StepOK, PTL DEF Spec

\* A cursor names one message for ever: no redelivery is received twice
\* (CursorsUnique; the received map of service.go 574-578).
THEOREM Cursors == Spec => []CursorsUnique
<1>1. SerialInv => CursorsUnique
  BY DEF SerialInv
<1> QED BY <1>1, FullInvariance, PTL

\* While a command of a shard has begun, everything before it in the shard is done
\* (ShardSerial; the serial worker of service.go 611-655).
THEOREM Serial == Spec => []ShardSerial
<1>1. IInv /\ SerialInv => ShardSerial
  <2>1. ASSUME IInv, SerialInv PROVE ShardSerial
    <3>1. inbox \in Seq(Msgs) /\ \A i \in DOMAIN inbox : inbox[i] \in Msgs /\ i \in Nat
      <4>1. inbox \in Seq(Msgs)
        BY <2>1 DEF IInv, TypeOK
      <4> QED BY <4>1
    <3>2. \A j \in DOMAIN inbox : \A i \in DOMAIN inbox : i < j => i \in 1..(j - 1)
      BY <3>1
    <3>3. \A j \in DOMAIN inbox :
            effects[inbox[j]] > 0 \/ work[inbox[j]].state = "admitted" => Ahead(inbox[j])
      BY <2>1, <3>1 DEF SerialInv, Busy
    <3> SUFFICES ASSUME NEW j \in DOMAIN inbox, NEW i \in DOMAIN inbox, i < j,
                        Shard[inbox[i]] = Shard[inbox[j]],
                        effects[inbox[j]] > 0 \/ work[inbox[j]].state = "admitted"
                 PROVE  ~Open(work[inbox[i]].state)
      BY DEF ShardSerial
    <3>4. Ahead(inbox[j]) /\ i \in 1..(j - 1)
      BY <3>2, <3>3
    <3> QED BY <3>4 DEF Ahead
  <2> QED BY <2>1
<1> QED BY <1>1, FullInvariance, PTL

\* What an event of a run says of the side effect, and what a caller of Request may
\* be shown in whatever order the events arrive, is true (VerdictHonest; service.go
\* 501-519, 682-823).
THEOREM Honest == Spec => []VerdictHonest
<1>1. ASSUME IInv, HonestInv PROVE VerdictHonest
  <2> SUFFICES ASSUME NEW m \in Runs
               PROVE  LET final == Shown(m) \cap Final
                      IN  /\ \A i \in DOMAIN outbox[m] :
                               /\ outbox[m][i].kind \in {"expired", "refused", "unsupported"} => effects[m] = 0
                               /\ outbox[m][i].kind = "delta" => effects[m] = 1
                          /\ final # {} => work[m].state = "done"
                          /\ final \cap {"completed", "accepted"} # {} => effects[m] = 1
                          /\ \A status, other \in final : status = other
    BY DEF VerdictHonest
  <2> DEFINE final == Shown(m) \cap Final
  <2>a. m \in Msgs
    BY DEF Runs
  <2>1. \A i \in DOMAIN outbox[m] : Truthful(m, outbox[m][i].kind)
    BY <1>1, <2>a DEF HonestInv
  <2>2. \A i \in DOMAIN outbox[m] : outbox[m][i].kind \in EventKinds
    <3>1. outbox[m] \in Seq(Event)
      BY <1>1, <2>a DEF IInv, TypeOK, Event
    <3>2. \A i \in DOMAIN outbox[m] : outbox[m][i] \in Event
      BY <3>1
    <3> QED BY <3>2 DEF Event
  <2>3. ASSUME NEW status \in final
        PROVE  \E i \in DOMAIN outbox[m] : /\ status = Status(outbox[m][i].kind)
                                           /\ outbox[m][i].kind \in Verdicts
    <3>1. PICK i \in DOMAIN outbox[m] : status = Status(outbox[m][i].kind)
      BY <2>3 DEF Shown, Final
    <3>2. outbox[m][i].kind \notin {"started", "delta"}
      BY <2>3, <3>1 DEF Status, Final
    <3> QED BY <2>2, <3>1, <3>2 DEF EventKinds
  <2>4. ASSUME NEW status \in final PROVE work[m].state = "done"
    BY <1>1, <2>a, <2>3, <2>4 DEF IInv, OneVerdict, Settled
  <2>5. ASSUME NEW status \in final, status \in {"completed", "accepted"}
        PROVE  effects[m] = 1
    <3>1. PICK i \in DOMAIN outbox[m] : status = Status(outbox[m][i].kind)
      BY <2>3, <2>5
    <3>2. outbox[m][i].kind \in {"completed", "accepted"}
      BY <2>5, <3>1 DEF Status
    <3> QED BY <2>1, <3>2 DEF Truthful
  <2>6. ASSUME NEW status \in final, NEW other \in final PROVE status = other
    <3>1. \A i \in DOMAIN outbox[m] : outbox[m][i].kind \in Verdicts => i = Len(outbox[m])
      BY <1>1, <2>a DEF IInv, OneVerdict
    <3> QED BY <2>3, <2>6, <3>1
  <2>7. \A i \in DOMAIN outbox[m] :
          /\ outbox[m][i].kind \in {"expired", "refused", "unsupported"} => effects[m] = 0
          /\ outbox[m][i].kind = "delta" => effects[m] = 1
    BY <2>1 DEF Truthful
  <2> QED BY <2>4, <2>5, <2>6, <2>7
<1> QED BY <1>1, FullInvariance, PTL

\* From the acknowledgement of a delivery to the verdict on its command nothing is
\* forgotten without a word (NothingForgotten; service.go 531-537, 679-823).
THEOREM Remembered == Spec => NothingForgotten
<1>1. ASSUME IInv, [Next]_vars
      PROVE  [\A m \in Msgs :
                /\ Command(m) /\ Open(work[m].state) /\ ~Open(work[m].state)'
                /\ ~(Role = "console" /\ Kind[m] = "chat")
                => Settled(m)' \/ Revoked(m)]_vars
  BY <1>1, NotSilent DEF Open
<1>2. ASSUME IInv, [Next]_vars
      PROVE  [\A m \in Msgs : Outstanding(m) /\ ~Outstanding(m)'
                => m \in Received' \/ Revoked(m) \/ Absent(m)]_vars
  BY <1>2, AckedLater
<1> QED BY <1>1, <1>2, Invariance, PTL DEF Spec, NothingForgotten, NoSilentDrop, AckedIsDurable

-----------------------------------------------------------------------------
(***************************************************************************)
(* A command that may not begin                                            *)
(***************************************************************************)

\* No worker has it past the check that follows the wait for a slot.
Barred(m) ==
  /\ effects[m] = 0
  /\ \A s \in Shards : worker[s].msg = m => worker[s].pc \notin Slotted \ {"granted"}

\* deliver goes on with what it handles, or returns (service.go 679-823).
LEMMA WorkMoves ==
  ASSUME IInv, NEW s \in Shards, Work(s), ~Pick(s)
  PROVE  /\ worker[s].pc # "idle"
         /\ Leave(s) \/ (\E pc : Goto(s, pc)) \/ (\E pc : Advance(s, pc))
         /\ \A r \in Shards \ {s} : worker'[r] = worker[r]
         /\ worker'[s].pc = "idle" \/ worker'[s].msg = worker[s].msg
<1>a. worker \in [Shards -> Activations]
  BY DEF IInv, TypeOK, Activations
<1>1. worker[s].pc # "idle"
  BY DEF Work, Check, Acquire, Recheck, Admit, Start, Call, Output, Fail, Return,
         Reply, Finish, Notify, At, Executing
<1>2. Leave(s) \/ (\E pc : Goto(s, pc)) \/ (\E pc : Advance(s, pc))
  BY DEF Work, Check, Acquire, Recheck, Admit, Start, Call, Output, Fail, Return,
         Reply, Finish, Notify, CheckCommand, CheckTransfer, DropOrWait,
         Conclude, Release, GiveUp, MoveTo
<1>3. \A r \in Shards \ {s} : worker'[r] = worker[r]
  BY <1>a, <1>2 DEF Leave, Goto, Advance
<1>4. worker'[s].pc = "idle" \/ worker'[s].msg = worker[s].msg
  <2>1. CASE Leave(s)
    BY <1>a, <2>1 DEF Leave, Idle
  <2>2. ASSUME NEW pc, Goto(s, pc) \/ Advance(s, pc) PROVE worker'[s].msg = worker[s].msg
    BY <1>a, <2>2 DEF Goto, Advance, Activations
  <2> QED BY <1>2, <2>1, <2>2
<1> QED BY <1>1, <1>2, <1>3, <1>4

\* While it is not admissible, it stays barred: only the check after the wait lets
\* it pass (service.go 738-753), and only what passed it is called (767).
LEMMA BarredStep ==
  ASSUME IInv, NEW m \in Runs, Barred(m), ~Admissible(m), [Next]_vars
  PROVE  Barred(m)'
<1>a. /\ worker \in [Shards -> Activations] /\ effects \in [Msgs -> Nat]
      /\ m \in Msgs /\ Command(m)
  BY DEF IInv, TypeOK, Activations, Runs
<1>1. ASSUME UNCHANGED effects, UNCHANGED worker \/ Down PROVE Barred(m)'
  BY <1>1 DEF Barred, Down, Idle, Slotted
<1>2. ASSUME NEW s \in Shards, Pick(s) PROVE Barred(m)'
  <2>1. UNCHANGED effects
    BY <1>2 DEF Pick
  <2>2. UNCHANGED worker \/ \E w : w.pc = "check" /\ worker' = [worker EXCEPT ![s] = w]
    BY <1>2 DEF Pick
  <2>3. CASE UNCHANGED worker
    BY <1>1, <2>1, <2>3
  <2>4. ASSUME NEW w, w.pc = "check", worker' = [worker EXCEPT ![s] = w] PROVE Barred(m)'
    BY <1>a, <2>1, <2>4 DEF Barred, Slotted
  <2> QED BY <2>2, <2>3, <2>4
<1>3. ASSUME NEW s \in Shards, Work(s), ~Pick(s) PROVE Barred(m)'
  <2>1. CASE worker[s].msg # m
    <3>1. effects'[m] = effects[m]
      <4>1. effects' = effects \/ effects' = [effects EXCEPT ![worker[s].msg] = @ + 1]
        BY <1>3 DEF Work, Check, Acquire, Recheck, Admit, Start, Call, Output, Fail, Return,
             Reply, Finish, Notify, CheckCommand, CheckTransfer, DropOrWait,
             Conclude, Release, GiveUp, MoveTo
      <4> QED BY <1>a, <2>1, <4>1
    <3> QED BY <1>3, <2>1, <3>1, WorkMoves DEF Barred, Slotted
  <2>2. CASE worker[s].msg = m
    <3>1. worker[s].pc \in {"check", "queue", "granted"}
      <4>1. worker[s].pc # "idle" /\ worker[s].pc \in Points /\ worker[s].pc \notin Notices
        BY <1>3, <1>a, <2>2, WorkMoves, ActivationFacts DEF Activation, Activations
      <4> QED BY <2>2, <4>1 DEF Barred, Points, Notices
    <3>2. Check(s) \/ Acquire(s) \/ Recheck(s)
      BY <1>3, <3>1 DEF Work, Admit, Start, Call, Output, Fail, Return, Reply, Finish, Notify,
           At, Executing
    <3>3. UNCHANGED effects /\ (Leave(s) \/ Goto(s, "queue") \/ Goto(s, "granted"))
      <4>1. CASE Check(s)
        <5>1. CASE DropOrWait(s) \/ Release(s, "done")
          BY <5>1 DEF DropOrWait, Release, GiveUp
        <5>2. CASE CheckCommand(s)
          BY <5>2 DEF CheckCommand, Conclude, MoveTo
        <5>3. DropOrWait(s) \/ Release(s, "done") \/ CheckCommand(s)
          BY <1>a, <2>2, <4>1 DEF Check, Command
        <5> QED BY <5>1, <5>2, <5>3
      <4>2. CASE Acquire(s)
        BY <4>2 DEF Acquire, MoveTo, GiveUp, Conclude
      <4>3. CASE Recheck(s)
        BY <2>2, <4>3 DEF Recheck, Admissible, DropOrWait, Release, GiveUp, Conclude
      <4> QED BY <3>2, <4>1, <4>2, <4>3
    <3>4. worker'[s].pc \in {"idle", "queue", "granted"}
      BY <1>a, <3>3 DEF Leave, Goto, Idle, Activations
    <3> QED BY <1>3, <3>3, <3>4, WorkMoves DEF Barred, Slotted
  <2> QED BY <2>1, <2>2
<1>4. CASE UNCHANGED vars
  BY <1>1, <1>4 DEF vars
<1>5. CASE Next
  BY <1>1, <1>2, <1>3, <1>5 DEF Next, Fetch, Verify, Recover, Process, Boot, Ready, Crash, Close,
                               Closed, Environment, TrustChanges, Expires
<1> QED BY <1>4, <1>5

\* What is watched is not admissible, and barred.
BarredInv == \A m \in barred : m \in Runs /\ ~Admissible(m) /\ Barred(m)

\* Watching changes nothing of what is watched.
LEMMA Watched == WatchSpec => Spec
<1>1. WatchInit => Init
  BY DEF WatchInit
<1>2. [WatchNext]_watched => [Next]_vars
  BY DEF WatchNext, watched
<1> QED BY <1>1, <1>2, PTL DEF WatchSpec, Spec

\* One that waits without a slot is past no check.
LEMMA WaitsIsBarred == ASSUME NEW m, Waits(m) PROVE ~Admissible(m) /\ Barred(m)
BY DEF Waits, HoldsSlot, Barred

\* A command stays in barred only while it is not admissible, so BarredStep carries it.
LEMMA BarredInvariance == WatchSpec => []BarredInv
<1>1. WatchInit => BarredInv
  BY WaitsIsBarred DEF WatchInit, BarredInv
<1>2. IInv /\ BarredInv /\ [WatchNext]_watched => BarredInv'
  <2> SUFFICES ASSUME IInv, BarredInv, [WatchNext]_watched, NEW m \in barred'
               PROVE  m \in Runs' /\ ~Admissible(m)' /\ Barred(m)'
    BY DEF BarredInv
  <2>a. Runs' = Runs
    BY DEF Runs, Command
  <2>b. [Next]_vars
    BY DEF WatchNext, watched
  <2>1. CASE UNCHANGED watched
    <3>1. m \in barred
      BY <2>1 DEF watched
    <3>2. m \in Runs /\ ~Admissible(m) /\ Barred(m)
      BY <3>1 DEF BarredInv
    <3>3. ~Admissible(m)'
      BY <2>1, <3>2 DEF watched, vars, environment, Admissible, Trusted
    <3> QED BY <2>a, <2>b, <3>2, <3>3, BarredStep
  <2>2. CASE WatchNext
    <3>1. m \in Runs /\ (Waits(m)' \/ (m \in barred /\ ~Admissible(m)'))
      BY <2>2 DEF WatchNext
    <3>2. CASE Waits(m)'
      BY <2>a, <3>1, <3>2 DEF Waits, HoldsSlot, Barred
    <3>3. CASE m \in barred /\ ~Admissible(m)'
      <4>1. ~Admissible(m) /\ Barred(m)
        BY <3>3 DEF BarredInv
      <4> QED BY <2>a, <2>b, <3>1, <3>3, <4>1, BarredStep
    <3> QED BY <3>1, <3>2, <3>3
  <2> QED BY <2>1, <2>2
<1> QED BY <1>1, <1>2, Watched, Invariance, PTL DEF WatchSpec

\* A command begins only in its turn in its shard, and none begins that came to wait
\* without a slot while it was not admissible and has not become so since
\* (BeginsInTurn; work and the second look at trust and deadline, service.go 611-655
\* and 738-753).
THEOREM BeginsTheorem == WatchSpec => []BeginsInTurn
<1>1. BarredInv => BarredNeverBegins
  BY DEF BarredInv, Barred, BarredNeverBegins
<1>2. ShardSerial /\ BarredNeverBegins => BeginsInTurn
  BY DEF BeginsInTurn
<1> QED BY <1>1, <1>2, Watched, Serial, BarredInvariance, PTL

-----------------------------------------------------------------------------
(***************************************************************************)
(* The refinement: Executor implements CommandLifecycle                    *)
(***************************************************************************)
phases == [m \in Runs |-> Phase(m)]
starts == [m \in Runs |-> effects[m]]

\* The only work a step changes, and how.
Progress(m) ==
  /\ \A k \in Msgs \ {m} : work'[k] = work[k] /\ effects'[k] = effects[k]
  /\ \/ /\ Open(work[m].state) /\ work'[m].state = "done"
        /\ effects'[m] = effects[m]
     \/ /\ Open(work[m].state) /\ work'[m].state \in {"queued", "admitted"}
        /\ \/ effects'[m] = effects[m]
           \/ effects[m] = 0 /\ effects'[m] = 1
     \/ /\ work[m].state = "none" /\ work'[m].state \in {"none", "queued"}
        /\ effects'[m] = 0 /\ effects[m] = 0

\* A step that progresses one work is a step of the lifecycle, or none.
LEMMA ProgressMaps ==
  ASSUME IInv, NEW m \in Msgs, Progress(m)
  PROVE  [Lifecycle!Next]_<<phases, starts>>
<1>a. Runs' = Runs /\ Runs \subseteq Msgs
  BY DEF Runs, Command
<1>1. ASSUME NEW k \in Runs \ {m} PROVE Phase(k)' = Phase(k) /\ effects'[k] = effects[k]
  BY DEF Progress, Phase, Runs
<1>2. CASE m \notin Runs
  <2>1. \A k \in Runs : Phase(k)' = Phase(k) /\ effects'[k] = effects[k]
    BY <1>1, <1>2
  <2> QED BY <2>1, <1>a DEF phases, starts
<1>3. CASE m \in Runs
  <2>1. phases' = [phases EXCEPT ![m] = Phase(m)']
    <3>1. \A k \in Runs : Phase(k)' = [phases EXCEPT ![m] = Phase(m)'][k]
      BY <1>1 DEF phases
    <3> QED BY <3>1, <1>a DEF phases
  <2>2. starts' = [starts EXCEPT ![m] = effects'[m]]
    <3>1. \A k \in Runs : effects'[k] = [starts EXCEPT ![m] = effects'[m]][k]
      BY <1>1 DEF starts
    <3> QED BY <3>1, <1>a DEF starts
  <2>3. phases[m] = Phase(m) /\ starts[m] = effects[m]
    BY <1>3 DEF phases, starts
  <2>4. CASE Phase(m)' = Phase(m) /\ effects'[m] = effects[m]
    <3>1. phases' = phases
      BY <2>1, <2>3, <2>4 DEF phases
    <3>2. starts' = starts
      BY <2>2, <2>3, <2>4 DEF starts
    <3> QED BY <3>1, <3>2
  <2>5. CASE Phase(m) = "unknown" /\ Phase(m)' = "accepted" /\ effects'[m] = effects[m]
    <3>1. starts' = starts
      BY <2>2, <2>3, <2>5 DEF starts
    <3>2. Lifecycle!Accept(m)
      BY <2>1, <2>3, <2>5, <3>1 DEF Lifecycle!Accept, Lifecycle!Moves, phases, starts
    <3> QED BY <1>3, <3>2 DEF Lifecycle!Next
  <2>6. CASE Phase(m) = "accepted" /\ Phase(m)' = "running" /\ effects'[m] = effects[m] + 1
    <3>1. starts' = [starts EXCEPT ![m] = @ + 1]
      BY <2>2, <2>3, <2>6
    <3>2. Lifecycle!Begin(m)
      BY <2>1, <2>3, <2>6, <3>1 DEF Lifecycle!Begin, Lifecycle!Moves, phases, starts
    <3> QED BY <1>3, <3>2 DEF Lifecycle!Next
  <2>7. CASE /\ Phase(m) \in {"accepted", "running"} /\ Phase(m)' = "settled"
             /\ effects'[m] = effects[m]
    <3>1. starts' = starts
      BY <2>2, <2>3, <2>7 DEF starts
    <3>2. Lifecycle!Settle(m)
      BY <2>1, <2>3, <2>7, <3>1 DEF Lifecycle!Settle, Lifecycle!Moves, phases, starts
    <3> QED BY <1>3, <3>2 DEF Lifecycle!Next
  <2>8. \/ Phase(m)' = Phase(m) /\ effects'[m] = effects[m]
        \/ Phase(m) = "unknown" /\ Phase(m)' = "accepted" /\ effects'[m] = effects[m]
        \/ Phase(m) = "accepted" /\ Phase(m)' = "running" /\ effects'[m] = effects[m] + 1
        \/ /\ Phase(m) \in {"accepted", "running"} /\ Phase(m)' = "settled"
           /\ effects'[m] = effects[m]
    BY DEF Progress, Phase, Open
  <2> QED BY <2>4, <2>5, <2>6, <2>7, <2>8
<1> QED BY <1>2, <1>3

\* A step that writes neither work nor effects does not move the lifecycle.
LEMMA StutterMaps ==
  ASSUME UNCHANGED <<work, effects>>
  PROVE  UNCHANGED <<phases, starts>>
BY DEF phases, starts, Phase, Runs, Command

\* What a step tells is progress of one work, or nothing to the lifecycle: an
\* effect begins only for open work that has none.
LEMMA NextMaps ==
  ASSUME IInv, [Next]_vars
  PROVE  [Lifecycle!Next]_<<phases, starts>>
<1>a. IInv'
  BY StepOK
<1>1. ASSUME NEW m \in Msgs, Deed(m) PROVE Progress(m)
  <2>1. work'[m].state \in {"queued", "admitted", "done"}
    BY <1>a, <1>1 DEF Deed, IInv, TypeOK, WorkState
  <2> QED BY <1>1, <2>1 DEF Deed, Progress, Open
<1>2. ASSUME NEW m \in Msgs, Arrival(m) PROVE Progress(m)
  BY <1>2 DEF Arrival, Progress, IInv, EffectsOK
<1> QED BY <1>1, <1>2, NextTold, ProgressMaps, StutterMaps DEF Told, Rest

\* Executor implements CommandLifecycle (LifecycleSpec): for every number of
\* messages, senders and shards, and over crashes, redeliveries and failed
\* appends, the effect of a command begins at most once, only after the command
\* is durable and never after its verdict (service.go 633-640, 737-823).
THEOREM Implements == Spec => LifecycleSpec
<1>1. Init => Lifecycle!Init
  BY DEF Init, Lifecycle!Init, Phase, Runs, phases, starts
<1>2. IInv /\ [Next]_vars => [Lifecycle!Next]_<<phases, starts>>
  BY NextMaps
<1> QED BY <1>1, <1>2, Invariance, PTL DEF Spec, LifecycleSpec, Lifecycle!Spec, phases, starts
=============================================================================

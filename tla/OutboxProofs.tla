---------------------------- MODULE OutboxProofs ----------------------------
(***************************************************************************)
(* Proofs about Outbox, for any number of callers, runs, peers, restarts   *)
(* and forgotten messages.                                                 *)
(***************************************************************************)
EXTENDS Outbox, SequenceTheorems, FiniteSetTheorems, TLAPS

Active == {"publish", "checked", "sent", "acked"}

\* What anyone believes accepted has been accepted.
AcceptedOK ==
  /\ published \subseteq Elements(stream) /\ window \subseteq Elements(stream)
  /\ \A p \in Flushers : pc[p] = "acked" => Item(p) \in Elements(stream)
  /\ \A c \in Callers : pc[c] = "ok" => cur[c] \in Elements(stream)

\* A message that left the outbox, or is about to, follows a published one.
Chained(i) == log[i].previous # 0 => log[i].previous \in published
ChainOK ==
  /\ \A i \in inflight \cup Elements(stream) : Chained(i)
  /\ \A p \in Flushers : pc[p] \in {"checked", "sent", "acked"} => Chained(Item(p))

IInv == TypeOK /\ AcceptedOK /\ ChainOK /\ RunOrder /\ NothingLost

-----------------------------------------------------------------------------
(***************************************************************************)
(* Sequences                                                               *)
(***************************************************************************)

\* The elements after an append, and of the rest of a sequence.
LEMMA ElementsAppend ==
  ASSUME NEW S, NEW s \in Seq(S), NEW e
  PROVE  /\ Elements(Append(s, e)) = Elements(s) \cup {e}
         /\ DOMAIN Append(s, e) = 1..(Len(s) + 1)
         /\ DOMAIN s = 1..Len(s) /\ Len(s) \in Nat
         /\ Append(s, e)[Len(s) + 1] = e
         /\ \A i \in DOMAIN s : Append(s, e)[i] = s[i]
<1>1. /\ DOMAIN s = 1..Len(s) /\ Len(s) \in Nat
      /\ DOMAIN Append(s, e) = 1..(Len(s) + 1)
      /\ Append(s, e)[Len(s) + 1] = e
      /\ \A i \in DOMAIN s : Append(s, e)[i] = s[i]
  OBVIOUS
<1>2. Elements(Append(s, e)) \subseteq Elements(s) \cup {e}
  <2> SUFFICES ASSUME NEW i \in 1..(Len(s) + 1)
               PROVE  Append(s, e)[i] \in Elements(s) \cup {e}
    BY <1>1 DEF Elements
  <2>1. CASE i = Len(s) + 1
    BY <2>1, <1>1
  <2>2. CASE i \in DOMAIN s
    BY <2>2, <1>1 DEF Elements
  <2> QED BY <2>1, <2>2, <1>1
<1>3. Elements(s) \cup {e} \subseteq Elements(Append(s, e))
  <2>1. e \in Elements(Append(s, e))
    BY <1>1 DEF Elements
  <2>2. ASSUME NEW i \in DOMAIN s
        PROVE  s[i] \in Elements(Append(s, e))
    <3>1. i \in 1..(Len(s) + 1) /\ Append(s, e)[i] = s[i]
      BY <1>1
    <3> QED BY <3>1, <1>1 DEF Elements
  <2> QED BY <2>1, <2>2 DEF Elements
<1> QED BY <1>1, <1>2, <1>3

\* The rest of the batch of publishPending, without its head.
LEMMA ElementsTail ==
  ASSUME NEW S, NEW s \in Seq(S), s # <<>>
  PROVE  /\ Elements(s) = {Head(s)} \cup Elements(Tail(s))
         /\ Head(s) \in S /\ Tail(s) \in Seq(S)
<1>1. /\ Head(s) \in S /\ Tail(s) \in Seq(S) /\ Len(s) \in Nat \ {0}
      /\ DOMAIN s = 1..Len(s) /\ DOMAIN Tail(s) = 1..(Len(s) - 1)
      /\ Head(s) = s[1] /\ \A i \in 1..(Len(s) - 1) : Tail(s)[i] = s[i + 1]
  OBVIOUS
<1>2. ASSUME NEW i \in DOMAIN s
      PROVE  s[i] \in {Head(s)} \cup Elements(Tail(s))
  <2>1. CASE i = 1
    BY <2>1, <1>1
  <2>2. CASE i # 1
    <3>1. i - 1 \in DOMAIN Tail(s) /\ Tail(s)[i - 1] = s[i]
      BY <2>2, <1>1
    <3> QED BY <3>1 DEF Elements
  <2> QED BY <2>1, <2>2
<1>3. ASSUME NEW i \in DOMAIN Tail(s)
      PROVE  Tail(s)[i] \in Elements(s)
  <2>1. i + 1 \in DOMAIN s /\ Tail(s)[i] = s[i + 1]
    BY <1>1
  <2> QED BY <2>1 DEF Elements
<1>4. Head(s) \in Elements(s)
  BY <1>1 DEF Elements
<1> QED BY <1>1, <1>2, <1>3, <1>4 DEF Elements

\* What a flusher works on is a publication.
LEMMA ItemTyped ==
  ASSUME TypeOK, NEW p \in Flushers, pc[p] \in Active
  PROVE  Item(p) \in Ids /\ (p = Loop => batch # <<>>)
<1>1. CASE p = Loop
  <2>1. batch # <<>> /\ batch \in Seq(Ids)
    BY <1>1 DEF TypeOK, Active
  <2> QED BY <2>1, <1>1, ElementsTail DEF Item
<1>2. CASE p # Loop
  BY <1>2 DEF Flushers, TypeOK, Active, Item
<1> QED BY <1>1, <1>2

-----------------------------------------------------------------------------
(***************************************************************************)
(* The steps                                                               *)
(***************************************************************************)

\* An empty journal satisfies the invariant.
LEMMA InitInv == ASSUME Init PROVE IInv
<1>1. TypeOK
  BY OutboxAssumption DEF Init, TypeOK, Flushers, Points, Ids
<1>2. AcceptedOK /\ ChainOK /\ NothingLost
  BY <1>1, OutboxAssumption DEF Init, AcceptedOK, ChainOK, NothingLost, Elements, Flushers, Ids
<1>3. RunOrder
  BY DEF Init, RunOrder
<1> QED BY <1>1, <1>2, <1>3 DEF IInv

\* A new record: what is known of the older ones remains.
LEMMA AppendStep ==
  ASSUME IInv, NEW entry \in Entries, AppendPublication(entry),
         UNCHANGED <<batch, trusted, broker, stops>>,
         \/ UNCHANGED <<pc, cur>> /\ tails' \in [Runs -> {0} \cup Ids']
         \/ \E c \in Callers : /\ pc[c] = "idle" /\ UNCHANGED tails
                               /\ pc' = [pc EXCEPT ![c] = "publish"]
                               /\ cur' = [cur EXCEPT ![c] = Len(log) + 1]
  PROVE  IInv'
<1> DEFINE n == Len(log) + 1
<1>a. /\ log \in Seq(Entries) /\ published \subseteq Ids /\ pending \in Seq(Ids)
      /\ batch \in Seq(Ids) /\ stream \in Seq(Ids)
  BY DEF IInv, TypeOK
<1>b. /\ Ids' = Ids \cup {n} /\ Ids = 1..Len(log) /\ Len(log) \in Nat
      /\ log'[n] = entry /\ \A i \in Ids : log'[i] = log[i]
  BY SMTT(30), <1>a, ElementsAppend DEF AppendPublication, Ids
<1>c. pending' \in Seq(Ids') /\ Elements(pending') = Elements(pending) \cup {n}
  <2>1. pending \in Seq(Ids')
    BY <1>a, <1>b, SeqMonotonic
  <2> QED BY <2>1, <1>b, ElementsAppend DEF AppendPublication
<1>d. UNCHANGED <<published, batch, inflight, window, stream, forgets, stops, trusted>>
  BY DEF AppendPublication, broker
<1>f. /\ Elements(stream)' = Elements(stream) /\ Elements(batch)' = Elements(batch)
      /\ Elements(pending)' = Elements(pending) \cup {n} /\ Ids \subseteq Ids'
  <2>1. Elements(stream)' = Elements(stream) /\ Elements(batch)' = Elements(batch)
    BY <1>d DEF Elements
  <2>2. Elements(pending)' = Elements(pending')
    BY DEF Elements
  <2> QED BY <2>1, <2>2, <1>b, <1>c
<1>e. /\ \A p \in Flushers : pc'[p] # "publish" => pc'[p] = pc[p]
      /\ \A p \in Flushers : pc'[p] \in Active \ {"publish"} => Item(p)' = Item(p)
      /\ \A c \in Callers : pc'[c] = "ok" => cur'[c] = cur[c]
  BY <1>d, OutboxAssumption DEF IInv, TypeOK, Flushers, Active, Item
<1>1. TypeOK'
  <2>1. log' \in Seq(Entries)
    BY <1>a DEF AppendPublication
  <2>2. batch' \in Seq(Ids') /\ stream' \in Seq(Ids')
    <3>1. batch \in Seq(Ids') /\ stream \in Seq(Ids')
      BY <1>a, <1>f, SeqMonotonic
    <3> QED BY <3>1, <1>d
  <2>3. /\ pc' \in [Flushers -> Points] /\ cur' \in [Callers -> {0} \cup Ids']
        /\ \A c \in Callers : pc'[c] \in {"publish", "checked", "sent", "acked", "ok"} => cur'[c] # 0
        /\ pc'[Loop] = pc[Loop]
    <3>1. /\ pc \in [Flushers -> Points] /\ cur \in [Callers -> {0} \cup Ids]
          /\ \A c \in Callers : pc[c] \in {"publish", "checked", "sent", "acked", "ok"} => cur[c] # 0
          /\ n \in Ids' /\ n # 0 /\ Ids \subseteq Ids'
      BY <1>b, <1>f DEF IInv, TypeOK
    <3>2. CASE UNCHANGED <<pc, cur>>
      BY <3>1, <3>2
    <3>3. CASE \E c \in Callers : /\ pc' = [pc EXCEPT ![c] = "publish"]
                                   /\ cur' = [cur EXCEPT ![c] = n]
      <4>1. PICK c \in Callers : /\ pc' = [pc EXCEPT ![c] = "publish"]
                                 /\ cur' = [cur EXCEPT ![c] = n]
        BY <3>3
      <4> QED BY <3>1, <4>1, OutboxAssumption DEF Flushers, Points
    <3> QED BY <3>2, <3>3
  <2>4. tails' \in [Runs -> {0} \cup Ids']
    BY <1>b DEF IInv, TypeOK
  <2> QED BY <2>1, <2>2, <2>3, <2>4, <1>b, <1>c, <1>d DEF IInv, TypeOK
<1>2. AcceptedOK'
  <2>1. AcceptedOK
    BY DEF IInv
  <2>2. \A p \in Flushers : pc'[p] = "acked" => pc[p] = "acked" /\ Item(p)' = Item(p)
    BY <1>e DEF Active
  <2>3. \A c \in Callers : pc'[c] = "ok" => pc[c] = "ok" /\ cur'[c] = cur[c]
    BY <1>e DEF Flushers
  <2> QED BY <2>1, <2>2, <2>3, <1>d, <1>f DEF AcceptedOK
<1>3. ChainOK'
  <2>1. \A i \in Ids : Chained(i)' <=> Chained(i)
    BY <1>b, <1>d DEF Chained
  <2>2. inflight \cup Elements(stream) \subseteq Ids
    BY <1>a DEF IInv, TypeOK, Elements
  <2>3. ASSUME NEW p \in Flushers, pc'[p] \in {"checked", "sent", "acked"}
        PROVE  Chained(Item(p))'
    <3>1. pc[p] \in {"checked", "sent", "acked"} /\ Item(p)' = Item(p)
      BY <2>3, <1>e DEF Active
    <3>2. Item(p) \in Ids
      BY <3>1, ItemTyped DEF IInv, Active
    <3>3. Chained(Item(p))
      BY <3>1 DEF IInv, ChainOK
    <3> QED BY <3>1, <3>2, <3>3, <1>b, <1>d DEF Chained
  <2>4. \A i \in (inflight \cup Elements(stream))' : Chained(i)'
    BY <2>1, <2>2, <1>d DEF IInv, ChainOK, Elements
  <2> QED BY <2>3, <2>4 DEF ChainOK
<1>4. RunOrder'
  <2>1. \A m \in DOMAIN stream : stream[m] \in Ids /\ log'[stream[m]] = log[stream[m]]
    BY <1>a, <1>b
  <2> QED BY <2>1, <1>d DEF IInv, RunOrder
<1>5. NothingLost'
  BY <1>b, <1>d, <1>f DEF IInv, NothingLost
<1> QED BY <1>1, <1>2, <1>3, <1>4, <1>5 DEF IInv

\* enqueue appends a publication of a caller, which is in no chain.
LEMMA EnqueueInv == ASSUME IInv, NEW c \in Callers, Enqueue(c) PROVE IInv'
<1> DEFINE e == [key |-> KeyOf[c], body |-> BodyOf[c], target |-> TargetOf[c],
                 run |-> NoKey, previous |-> 0]
<1>1. e \in Entries
  BY OutboxAssumption DEF Entries
<1> QED BY <1>1, AppendStep DEF Enqueue, Goto

\* emit appends the next event of a run, behind the last one.
LEMMA EmitInv == ASSUME IInv, NEW r \in Runs, Emit(r) PROVE IInv'
<1> DEFINE n == Cardinality(Events(r)) + 1
           e == [key |-> <<r, n>>, body |-> NoKey, target |-> TargetOf[r],
                 run |-> r, previous |-> tails[r]]
<1>1. n \in Nat
  <2>1. Events(r) \subseteq 1..Len(log) /\ Len(log) \in Nat
    BY DEF Events, Ids, IInv, TypeOK
  <2>2. IsFiniteSet(1..Len(log))
    BY <2>1, FS_Interval
  <2>3. IsFiniteSet(Events(r))
    BY <2>1, <2>2, FS_Subset
  <2> QED BY <2>3, FS_CardinalityType
<1>2. \A i : i \in {0} \cup Ids => i \in Nat
  BY DEF Ids, IInv, TypeOK
<1>3. tails[r] \in Nat
  <2>1. tails[r] \in {0} \cup Ids
    BY DEF IInv, TypeOK
  <2> QED BY <2>1, <1>2
<1>4. e \in Entries
  BY <1>1, <1>3, OutboxAssumption DEF Entries
<1>5. tails' \in [Runs -> {0} \cup Ids']
  <2>1. Ids' = Ids \cup {Len(log) + 1}
    BY ElementsAppend DEF Emit, AppendPublication, Ids, IInv, TypeOK
  <2> QED BY <2>1 DEF Emit, IInv, TypeOK
<1> QED BY <1>4, <1>5, AppendStep DEF Emit

\* flushPublication returns to p: a step that ends with Done.
LEMMA DoneStep ==
  ASSUME IInv, NEW p \in Flushers, pc[p] \in Active, NEW ok \in BOOLEAN, Done(p, ok),
         UNCHANGED <<log, tails, cur, trusted, broker, stops>>,
         \/ UNCHANGED published
         \/ published' = published \cup {Item(p)} /\ Item(p) \in Elements(stream),
         ok => Item(p) \in published'
  PROVE  IInv'
<1>a. /\ Item(p) \in Ids /\ Ids' = Ids /\ published' \subseteq Ids
      /\ p = Loop => batch # <<>> /\ Item(p) = Head(batch)
      /\ UNCHANGED <<inflight, window, stream, forgets, trusted, stops>>
      /\ published \subseteq published'
  BY ItemTyped DEF IInv, TypeOK, Ids, Item, broker
<1>b. published' \subseteq Elements(stream)'
  BY <1>a DEF IInv, AcceptedOK, Elements
<1>c. /\ batch \in Seq(Ids) /\ pending \in Seq(Ids)
      /\ pc \in [Flushers -> Points]
  BY DEF IInv, TypeOK
<1>d. /\ pc'[p] \in {"ok", "failed", "idle", "publish"}
      /\ pc'[p] = "ok" => p # Loop /\ ok
      /\ \A q \in Flushers \ {p} : pc'[q] = pc[q] /\ Item(q)' = Item(q)
  BY <1>c, OutboxAssumption DEF Done, Goto, Flushers, Item
<1>1. TypeOK'
  <2>1. CASE p # Loop
    BY <2>1, <1>a, <1>c, <1>d DEF Done, Goto, IInv, TypeOK, Flushers, Points, Active, Item
  <2>2. CASE p = Loop
    <3>1. Tail(batch) \in Seq(Ids) /\ Head(batch) \in Ids
      BY <2>2, <1>a, <1>c
    <3>2. pending' \in Seq(Ids) /\ batch' = Tail(batch)
      <4>1. Append(pending, Head(batch)) \in Seq(Ids)
        BY <3>1, <1>c, AppendProperties
      <4> QED BY <2>2, <4>1, <1>c DEF Done
    <3>3. pc' = [pc EXCEPT ![Loop] = IF Tail(batch) = <<>> THEN "idle" ELSE "publish"]
      BY <2>2 DEF Done, Goto
    <3> QED BY <3>1, <3>2, <3>3, <1>a, <1>c, OutboxAssumption
            DEF IInv, TypeOK, Flushers, Points
  <2> QED BY <2>1, <2>2
<1>2. AcceptedOK'
  <2>1. ASSUME NEW q \in Flushers, pc'[q] = "acked"
        PROVE  Item(q)' \in Elements(stream)'
    BY <2>1, <1>a, <1>d DEF IInv, AcceptedOK, Elements
  <2>2. ASSUME NEW c \in Callers, pc'[c] = "ok"
        PROVE  cur'[c] \in Elements(stream)'
    <3>1. CASE c = p
      BY <3>1, <2>2, <1>b, <1>d DEF Item
    <3>2. CASE c # p
      BY <3>2, <2>2, <1>a, <1>d DEF IInv, AcceptedOK, Elements, Flushers
    <3> QED BY <3>1, <3>2
  <2> QED BY <2>1, <2>2, <1>a, <1>b DEF IInv, AcceptedOK, Elements
<1>3. ChainOK'
  <2>1. ASSUME NEW i, Chained(i) PROVE Chained(i)'
    BY <2>1, <1>a DEF Chained
  <2>2. ASSUME NEW q \in Flushers, pc'[q] \in {"checked", "sent", "acked"}
        PROVE  Chained(Item(q))'
    <3>1. q # p /\ pc[q] \in {"checked", "sent", "acked"} /\ Item(q)' = Item(q)
      BY <2>2, <1>d
    <3>2. Chained(Item(q))
      BY <3>1 DEF IInv, ChainOK
    <3> QED BY <3>1, <3>2, <1>a DEF Chained
  <2> QED BY <2>1, <2>2, <1>a DEF IInv, ChainOK, Elements
<1>4. RunOrder'
  BY <1>a DEF IInv, RunOrder
<1>5. NothingLost'
  <2>1. CASE p # Loop
    BY <2>1, <1>a DEF Done, IInv, NothingLost, Elements
  <2>2. CASE p = Loop
    <3>1. Elements(batch) = {Head(batch)} \cup Elements(Tail(batch))
      BY <2>2, <1>a, <1>c, ElementsTail
    <3>2. batch' = Tail(batch) /\ pending' = IF ok THEN pending ELSE Append(pending, Head(batch))
      BY <2>2 DEF Done
    <3>3. Elements(pending') = IF ok THEN Elements(pending)
                               ELSE Elements(pending) \cup {Head(batch)}
      BY <3>2, <1>c, ElementsAppend
    <3> QED BY <2>2, <3>1, <3>2, <3>3, <1>a DEF IInv, NothingLost, Elements
  <2> QED BY <2>1, <2>2
<1> QED BY <1>1, <1>2, <1>3, <1>4, <1>5 DEF IInv

\* p advances to one of the points at which it holds publishMu.
LEMMA AdvanceStep ==
  ASSUME IInv, NEW p \in Flushers, pc[p] \in Active,
         NEW point \in {"checked", "sent", "acked"}, Goto(p, point),
         UNCHANGED <<journal, pending, batch, cur, trusted, window, stream, forgets, stops>>,
         \/ UNCHANGED inflight
         \/ inflight' = inflight \cup {Item(p)},
         Chained(Item(p)), point = "acked" => Item(p) \in Elements(stream)
  PROVE  IInv'
<1>a. /\ Item(p) \in Ids /\ Ids' = Ids
      /\ UNCHANGED <<log, published, tails>>
      /\ p = Loop => batch # <<>>
      /\ \A q \in Flushers : Item(q)' = Item(q)
  BY ItemTyped DEF IInv, TypeOK, Ids, Item, journal
<1>b. /\ pc' = [pc EXCEPT ![p] = point] /\ pc \in [Flushers -> Points]
      /\ \A i : Chained(i)' <=> Chained(i)
  BY <1>a DEF Goto, IInv, TypeOK, Chained
<1>1. TypeOK'
  BY <1>a, <1>b, OutboxAssumption DEF IInv, TypeOK, Flushers, Points, Active
<1>2. AcceptedOK'
  BY <1>a, <1>b DEF IInv, AcceptedOK, Elements, Flushers
<1>3. ChainOK'
  <2>1. \A q \in Flushers : pc'[q] \in {"checked", "sent", "acked"} => Chained(Item(q))
    BY <1>b DEF IInv, ChainOK
  <2>2. \A i \in inflight' \cup Elements(stream) : Chained(i)
    BY DEF IInv, ChainOK
  <2> QED BY <2>1, <2>2, <1>a DEF ChainOK, Chained, Elements
<1>4. RunOrder' /\ NothingLost'
  BY <1>a DEF IInv, RunOrder, NothingLost, Elements
<1> QED BY <1>1, <1>2, <1>3, <1>4 DEF IInv

\* Every step of flushPublication keeps the invariant.
LEMMA FlushInv == ASSUME IInv, NEW p \in Flushers, Flush(p) PROVE IInv'
<1> USE DEF Active
<1>1. CASE Lock(p)
  <2> DEFINE i == Item(p)
  <2>1. CASE i \in published
    BY <2>1, <1>1, DoneStep DEF Lock, journal
  <2>2. CASE i \notin published /\ Blocked(i)
    BY <2>2, <1>1, DoneStep DEF Lock, journal
  <2>3. CASE i \notin published /\ ~Blocked(i)
    <3>1. Chained(i)
      BY <2>3 DEF Blocked, Chained
    <3> QED BY <2>3, <3>1, <1>1, AdvanceStep DEF Lock, broker
  <2> QED BY <2>1, <2>2, <2>3
<1>2. CASE Send(p)
  <2>1. Chained(Item(p))
    BY <1>2 DEF Send, IInv, ChainOK
  <2>2. CASE log[Item(p)].target \in trusted
    BY <2>1, <2>2, <1>2, AdvanceStep DEF Send
  <2>3. CASE log[Item(p)].target \notin trusted
    BY <2>3, <1>2, DoneStep DEF Send, journal, broker
  <2> QED BY <2>2, <2>3
<1>3. CASE Acked(p)
  <2>1. Chained(Item(p)) /\ Item(p) \in Elements(stream)
    BY <1>3 DEF Acked, IInv, ChainOK, AcceptedOK
  <2> QED BY <2>1, <1>3, AdvanceStep DEF Acked, broker
<1>4. CASE TimesOut(p)
  BY <1>4, DoneStep DEF TimesOut, journal
<1>5. CASE Record(p)
  <2>1. Item(p) \in Elements(stream)
    BY <1>5 DEF Record, IInv, AcceptedOK
  <2> QED BY <2>1, <1>5, DoneStep DEF Record
<1>6. CASE RecordFails(p)
  BY <1>6, DoneStep DEF RecordFails, journal
<1> QED BY <1>1, <1>2, <1>3, <1>4, <1>5, <1>6 DEF Flush

\* The broker appends a message behind the one that precedes it.
LEMMA AcceptInv == ASSUME IInv, NEW i \in Ids, Accept(i) PROVE IInv'
<1>a. /\ UNCHANGED <<log, published, tails, pending, batch, pc, cur, trusted, forgets, stops>>
      /\ Ids' = Ids /\ stream \in Seq(Ids) /\ i \in inflight
      /\ inflight' = inflight \ {i} /\ window' = window \cup {i}
      /\ \A q \in Flushers : Item(q)' = Item(q)
  BY DEF Accept, journal, Ids, IInv, TypeOK, Item
<1>b. stream' \in Seq(Ids) /\ Elements(stream') = Elements(stream) \cup {i}
  <2>1. CASE i \in window
    BY <2>1, <1>a DEF Accept, IInv, AcceptedOK
  <2>2. CASE i \notin window
    BY <2>2, <1>a, ElementsAppend DEF Accept
  <2> QED BY <2>1, <2>2
<1>1. TypeOK'
  BY <1>a, <1>b DEF IInv, TypeOK
<1>2. AcceptedOK'
  <2>1. Elements(stream)' = Elements(stream) \cup {i}
    BY <1>b DEF Elements
  <2> QED BY <2>1, <1>a DEF IInv, AcceptedOK
<1>3. ChainOK'
  <2>1. Elements(stream)' = Elements(stream) \cup {i}
    BY <1>b DEF Elements
  <2> QED BY <2>1, <1>a DEF IInv, ChainOK, Chained
<1>4. RunOrder'
  <2>1. CASE i \in window
    BY <2>1, <1>a DEF Accept, IInv, RunOrder
  <2>2. CASE i \notin window
    <3>1. /\ DOMAIN stream' = 1..(Len(stream) + 1) /\ DOMAIN stream = 1..Len(stream)
          /\ Len(stream) \in Nat /\ stream'[Len(stream) + 1] = i
          /\ \A m \in DOMAIN stream : stream'[m] = stream[m]
      BY <2>2, <1>a, ElementsAppend DEF Accept
    <3> SUFFICES ASSUME NEW n \in DOMAIN stream', log[stream'[n]].previous # 0
                 PROVE  \E m \in 1..(n - 1) : stream'[m] = log[stream'[n]].previous
      BY <1>a DEF RunOrder
    <3>2. CASE n = Len(stream) + 1
      <4>1. log[i].previous \in Elements(stream)
        BY <3>1, <3>2, <1>a DEF IInv, ChainOK, Chained, AcceptedOK
      <4>2. PICK m \in DOMAIN stream : stream[m] = log[i].previous
        BY <4>1 DEF Elements
      <4> QED BY <4>2, <3>1, <3>2
    <3>3. CASE n \in DOMAIN stream
      <4>1. \E m \in 1..(n - 1) : stream[m] = log[stream[n]].previous
        BY <3>1, <3>3 DEF IInv, RunOrder
      <4> QED BY <4>1, <3>1, <3>3
    <3> QED BY <3>1, <3>2, <3>3
  <2> QED BY <2>1, <2>2
<1>5. NothingLost'
  BY <1>a DEF IInv, NothingLost, Elements
<1> QED BY <1>1, <1>2, <1>3, <1>4, <1>5 DEF IInv

\* A restart rebuilds the pending list from the journal.
LEMMA RestartInv == ASSUME IInv, Restart PROVE IInv'
<1>a. /\ UNCHANGED <<log, published, tails, cur, trusted, inflight, window, stream, forgets>>
      /\ Ids' = Ids /\ Ids = 1..Len(log) /\ Len(log) \in Nat
      /\ batch' = <<>> /\ stops < MaxStops /\ stops' = stops + 1
  BY DEF Restart, journal, broker, Ids, IInv, TypeOK
<1>b. pending' \in Seq(Ids) /\ Elements(pending') = Ids
  BY <1>a DEF Restart, Replay, Elements
<1>c. /\ pc' \in [Flushers -> Points] /\ pc'[Loop] = "idle"
      /\ \A p \in Flushers : pc'[p] \in {"ok", "failed", "refused", "idle"}
      /\ \A c \in Callers : pc'[c] = "ok" => pc[c] = "ok"
  BY OutboxAssumption DEF Restart, Flushers, Points, IInv, TypeOK
<1>1. TypeOK'
  <2>1. stops' \in 0..MaxStops
    BY <1>a, OutboxAssumption DEF IInv, TypeOK
  <2>2. \A c \in Callers : pc'[c] \in {"publish", "checked", "sent", "acked", "ok"} => cur'[c] # 0
    BY <1>a, <1>c DEF IInv, TypeOK, Flushers
  <2> QED BY <2>1, <2>2, <1>a, <1>b, <1>c DEF IInv, TypeOK
<1>2. AcceptedOK' /\ ChainOK' /\ RunOrder'
  BY <1>a, <1>c DEF IInv, AcceptedOK, ChainOK, Chained, RunOrder, Elements
<1>3. NothingLost'
  BY <1>a, <1>b DEF NothingLost, Elements
<1> QED BY <1>1, <1>2, <1>3 DEF IInv

\* The other steps of callers, the loop and the environment.
LEMMA OtherInv ==
  ASSUME IInv,
         \/ \E c \in Callers : Repeat(c) \/ Refuse(c) \/ EnqueueFails(c) \/ Retry(c)
         \/ Tick
         \/ \E i \in Ids : Lose(i) \/ Forget(i)
         \/ \E t \in Peers : TrustChanges(t)
  PROVE  IInv'
<1>a. /\ UNCHANGED <<log, published, tails, stream, stops>> /\ Ids' = Ids
      /\ inflight' \subseteq inflight /\ window' \subseteq window
  BY DEF Repeat, Refuse, EnqueueFails, Retry, Tick, Lose, Forget, TrustChanges,
         journal, broker, Ids
<1>1. CASE \E c \in Callers : Repeat(c) \/ Refuse(c) \/ EnqueueFails(c) \/ Retry(c)
  <2>1. PICK c \in Callers : Repeat(c) \/ Refuse(c) \/ EnqueueFails(c) \/ Retry(c)
    BY <1>1
  <2>2. /\ pc[c] \notin {"publish", "checked", "sent", "acked", "ok"}
        /\ \/ cur' = cur /\ pc' = [pc EXCEPT ![c] = "refused"]
           \/ cur' = cur /\ pc' = [pc EXCEPT ![c] = "failed"]
           \/ pc' = [pc EXCEPT ![c] = "idle"] /\ cur' = [cur EXCEPT ![c] = 0]
           \/ /\ pc' = [pc EXCEPT ![c] = "publish"]
              /\ \E i \in Ids : cur' = [cur EXCEPT ![c] = i]
        /\ UNCHANGED <<pending, batch, trusted, inflight, window, forgets>>
    BY <2>1 DEF Repeat, Refuse, EnqueueFails, Retry, Goto, WithKey, broker
  <2>3. \A i \in Ids : i # 0
    BY DEF Ids, IInv, TypeOK
  <2>4. /\ pc' \in [Flushers -> Points] /\ cur' \in [Callers -> {0} \cup Ids]
        /\ pc'[c] \in {"refused", "failed", "idle", "publish"}
        /\ pc'[c] = "publish" => cur'[c] # 0
        /\ \A p \in Flushers \ {c} : pc'[p] = pc[p] /\ Item(p)' = Item(p)
        /\ \A d \in Callers \ {c} : cur'[d] = cur[d]
    <3>1. /\ pc \in [Flushers -> Points] /\ cur \in [Callers -> {0} \cup Ids]
          /\ c \in Flushers /\ c # Loop
      BY OutboxAssumption DEF IInv, TypeOK, Flushers
    <3>2. /\ pc' \in [Flushers -> Points] /\ cur' \in [Callers -> {0} \cup Ids]
      BY <2>2, <3>1 DEF Points
    <3>3. /\ pc'[c] \in {"refused", "failed", "idle", "publish"}
          /\ pc'[c] = "publish" => cur'[c] # 0
          /\ \A p \in Flushers \ {c} : pc'[p] = pc[p]
          /\ \A d \in Callers \ {c} : cur'[d] = cur[d]
      BY <2>2, <2>3, <3>1
    <3>4. \A p \in Flushers \ {c} : Item(p)' = Item(p)
      BY <2>2, <3>3 DEF Item, Flushers
    <3> QED BY <3>2, <3>3, <3>4
  <2>5. TypeOK'
    BY <2>2, <2>4, <1>a, OutboxAssumption DEF IInv, TypeOK, Flushers
  <2>6. AcceptedOK'
    BY <2>2, <2>4, <1>a DEF IInv, AcceptedOK, Elements, Flushers
  <2>7. ChainOK'
    BY <2>2, <2>4, <1>a DEF IInv, ChainOK, Chained, Elements
  <2>8. RunOrder' /\ NothingLost'
    BY <2>2, <1>a DEF IInv, RunOrder, NothingLost, Elements
  <2> QED BY <2>5, <2>6, <2>7, <2>8 DEF IInv
<1>2. CASE Tick
  <2>1. /\ batch = <<>> /\ pending # <<>> /\ batch' = pending /\ pending' = <<>>
        /\ pc' = [pc EXCEPT ![Loop] = "publish"] /\ UNCHANGED <<cur, trusted, broker>>
    BY <1>2 DEF Tick, Goto, IInv, TypeOK
  <2>2. /\ pc' \in [Flushers -> Points] /\ pc'[Loop] = "publish"
        /\ \A c \in Callers : pc'[c] = pc[c] /\ Item(c)' = Item(c) /\ c # Loop
    BY <2>1, OutboxAssumption DEF IInv, TypeOK, Flushers, Points, Item
  <2>3. TypeOK'
    BY <2>1, <2>2, <1>a DEF IInv, TypeOK, broker
  <2>4. AcceptedOK' /\ ChainOK'
    BY <2>1, <2>2, <1>a DEF IInv, AcceptedOK, ChainOK, Chained, Elements, Flushers, broker
  <2>5. RunOrder' /\ NothingLost'
    BY <2>1, <1>a DEF IInv, RunOrder, NothingLost, Elements
  <2> QED BY <2>3, <2>4, <2>5 DEF IInv
<1>3. CASE \/ \E i \in Ids : Lose(i) \/ Forget(i)
           \/ \E t \in Peers : TrustChanges(t)
  <2>1. /\ UNCHANGED <<pending, batch, pc, cur>>
        /\ trusted' \subseteq Peers /\ forgets' \in 0..MaxForgets
        /\ \A p \in Flushers : Item(p)' = Item(p)
    BY <1>3, OutboxAssumption DEF Lose, Forget, TrustChanges, IInv, TypeOK, broker, Item
  <2>2. TypeOK'
    BY <2>1, <1>a DEF IInv, TypeOK
  <2>3. AcceptedOK'
    BY <2>1, <1>a DEF IInv, AcceptedOK, Elements
  <2>4. ChainOK'
    BY <2>1, <1>a DEF IInv, ChainOK, Chained, Elements
  <2>5. RunOrder' /\ NothingLost'
    BY <2>1, <1>a DEF IInv, RunOrder, NothingLost, Elements
  <2> QED BY <2>2, <2>3, <2>4, <2>5 DEF IInv
<1> QED BY <1>1, <1>2, <1>3

\* Every step of the outbox and of its environment keeps the invariant.
LEMMA StepInv == ASSUME IInv, [Next]_vars PROVE IInv'
<1>1. CASE UNCHANGED vars
  <2>1. /\ UNCHANGED <<log, published, tails, pending, batch, pc, cur, trusted, inflight,
                       window, stream, stops, forgets>>
    BY <1>1 DEF vars, journal, broker
  <2>2. TypeOK'
    BY <2>1 DEF IInv, TypeOK, Ids
  <2>3. AcceptedOK'
    BY <2>1 DEF IInv, AcceptedOK, Elements, Item
  <2>4. ChainOK'
    BY <2>1 DEF IInv, ChainOK, Chained, Elements, Item
  <2>5. RunOrder' /\ NothingLost'
    BY <2>1 DEF IInv, RunOrder, NothingLost, Elements, Ids
  <2> QED BY <2>2, <2>3, <2>4, <2>5 DEF IInv
<1>2. CASE \E c \in Callers : Call(c)
  BY <1>2, EnqueueInv, OtherInv DEF Call
<1>3. CASE \E r \in Runs : Emit(r)
  BY <1>3, EmitInv
<1>4. CASE Tick
  BY <1>4, OtherInv
<1>5. CASE \E p \in Flushers : Flush(p)
  BY <1>5, FlushInv
<1>6. CASE \E i \in Ids : Accept(i) \/ Lose(i) \/ Forget(i)
  BY <1>6, AcceptInv, OtherInv
<1>7. CASE \E t \in Peers : TrustChanges(t)
  BY <1>7, OtherInv
<1>8. CASE Restart
  BY <1>8, RestartInv
<1> QED BY <1>1, <1>2, <1>3, <1>4, <1>5, <1>6, <1>7, <1>8 DEF Next

-----------------------------------------------------------------------------
(***************************************************************************)
(* Keys                                                                    *)
(***************************************************************************)

Counts == [r \in Runs |-> Cardinality(Events(r))]

\* Keys of events name their run and a number that was counted.
KeysOK ==
  /\ OneMessagePerKey
  /\ \A i \in Ids : IF log[i].run \in Runs
                    THEN \E n \in 1..Counts[log[i].run] : log[i].key = <<log[i].run, n>>
                    ELSE log[i].key \notin Runs \X Nat

\* The events of a run are counted by a natural number.
LEMMA EventsFinite ==
  ASSUME TypeOK, NEW r
  PROVE  IsFiniteSet(Events(r)) /\ Cardinality(Events(r)) \in Nat
<1>1. Events(r) \subseteq 1..Len(log) /\ Len(log) \in Nat
  BY DEF Events, Ids, TypeOK
<1>2. IsFiniteSet(1..Len(log))
  BY <1>1, FS_Interval
<1>3. IsFiniteSet(Events(r))
  BY <1>1, <1>2, FS_Subset
<1> QED BY <1>3, FS_CardinalityType

\* A record with a key that no other record has.
LEMMA AppendKeeps ==
  ASSUME IInv, KeysOK, NEW entry \in Entries, AppendPublication(entry),
         entry.key # NoKey => \A i \in Ids : log[i].key # entry.key,
         IF entry.run \in Runs
         THEN entry.key = <<entry.run, Counts[entry.run] + 1>>
         ELSE entry.key \notin Runs \X Nat,
         \/ UNCHANGED cur
         \/ \E c \in Callers : /\ cur' = [cur EXCEPT ![c] = Len(log) + 1]
                               /\ entry.body = BodyOf[c]
  PROVE  KeysOK'
<1> DEFINE n == Len(log) + 1
<1>a. /\ Ids' = Ids \cup {n} /\ Ids = 1..Len(log) /\ Len(log) \in Nat
      /\ log'[n] = entry /\ n \notin Ids /\ \A i \in Ids : log'[i] = log[i]
  BY ElementsAppend DEF AppendPublication, Ids, IInv, TypeOK
<1>b. \A i \in Ids' : i \in Ids \/ i = n
  BY <1>a
<1>1. \A i, j \in Ids' : log'[i].key = log'[j].key /\ log'[i].key # NoKey => i = j
  BY <1>a, <1>b DEF KeysOK, OneMessagePerKey
<1>2. \A c \in Callers : cur'[c] # 0 => log'[cur'[c]].body = BodyOf[c]
  <2>1. /\ \A c \in Callers : cur[c] # 0 => cur[c] \in Ids /\ log[cur[c]].body = BodyOf[c]
        /\ cur \in [Callers -> {0} \cup Ids]
    BY DEF KeysOK, OneMessagePerKey, IInv, TypeOK
  <2>2. CASE UNCHANGED cur
    BY <2>1, <2>2, <1>a
  <2>3. CASE ~ UNCHANGED cur
    <3>1. PICK c \in Callers : cur' = [cur EXCEPT ![c] = n] /\ entry.body = BodyOf[c]
      BY <2>3
    <3>2. \A d \in Callers : cur'[d] = IF d = c THEN n ELSE cur[d]
      BY <2>1, <3>1
    <3> QED BY <2>1, <3>1, <3>2, <1>a
  <2> QED BY <2>2, <2>3
<1>3. \A r : Events(r)' = IF r = entry.run THEN Events(r) \cup {n} ELSE Events(r)
  BY <1>a, <1>b DEF Events
<1>4. ASSUME NEW r \in Runs
      PROVE  /\ Counts[r] \in Nat
             /\ Counts'[r] = IF r = entry.run THEN Counts[r] + 1 ELSE Counts[r]
  <2>1. IsFiniteSet(Events(r)) /\ Cardinality(Events(r)) \in Nat /\ n \notin Events(r)
    BY EventsFinite, <1>a DEF IInv, Events
  <2>2. Cardinality(Events(r) \cup {n}) = Cardinality(Events(r)) + 1
    BY <2>1, FS_AddElement
  <2>3. Counts[r] = Cardinality(Events(r)) /\ Counts'[r] = Cardinality(Events(r)')
    BY DEF Counts
  <2> QED BY <2>1, <2>2, <2>3, <1>3
<1>5. ASSUME NEW i \in Ids'
      PROVE  IF log'[i].run \in Runs
             THEN \E k \in 1..Counts'[log'[i].run] : log'[i].key = <<log'[i].run, k>>
             ELSE log'[i].key \notin Runs \X Nat
  <2>1. CASE i = n
    <3>1. log'[i] = entry
      BY <2>1, <1>a
    <3>2. CASE entry.run \in Runs
      <4>1. Counts'[entry.run] = Counts[entry.run] + 1 /\ Counts[entry.run] \in Nat
        BY <3>2, <1>4
      <4>2. Counts'[entry.run] \in 1..Counts'[entry.run]
        BY <4>1
      <4>3. entry.key = <<entry.run, Counts'[entry.run]>>
        BY <3>2, <4>1
      <4> QED BY <3>1, <3>2, <4>2, <4>3
    <3>3. CASE entry.run \notin Runs
      BY <3>1, <3>3
    <3> QED BY <3>2, <3>3
  <2>2. CASE i \in Ids
    <3>1. log'[i] = log[i]
      BY <2>2, <1>a
    <3>2. CASE log[i].run \in Runs
      <4>1. PICK k \in 1..Counts[log[i].run] : log[i].key = <<log[i].run, k>>
        BY <2>2, <3>2 DEF KeysOK
      <4>2. k \in 1..Counts'[log[i].run]
        BY <4>1, <3>2, <1>4
      <4> QED BY <3>1, <3>2, <4>1, <4>2
    <3>3. CASE log[i].run \notin Runs
      BY <2>2, <3>1, <3>3 DEF KeysOK
    <3> QED BY <3>2, <3>3
  <2> QED BY <2>1, <2>2, <1>b
<1> QED BY <1>1, <1>2, <1>5 DEF KeysOK, OneMessagePerKey

\* Only enqueue and emit add keys: one a caller's free key, one the next number of a run.
LEMMA KeysStep == ASSUME IInv, KeysOK, [Next]_vars PROVE KeysOK'
<1>1. CASE \E c \in Callers : Enqueue(c)
  <2>1. PICK c \in Callers : Enqueue(c)
    BY <1>1
  <2> DEFINE e == [key |-> KeyOf[c], body |-> BodyOf[c], target |-> TargetOf[c],
                   run |-> NoKey, previous |-> 0]
  <2>2. /\ e \in Entries /\ e.run \notin Runs /\ e.key \notin Runs \X Nat
        /\ e.body = BodyOf[c] /\ e.key = KeyOf[c]
    BY OutboxAssumption DEF Entries
  <2>3. e.key # NoKey => \A i \in Ids : log[i].key # e.key
    BY <2>1, <2>2 DEF Enqueue, WithKey
  <2>4. AppendPublication(e) /\ cur' = [cur EXCEPT ![c] = Len(log) + 1]
    BY <2>1 DEF Enqueue
  <2> HIDE DEF e
  <2> QED BY <2>2, <2>3, <2>4, AppendKeeps
<1>2. CASE \E r \in Runs : Emit(r)
  <2>1. PICK r \in Runs : Emit(r)
    BY <1>2
  <2> DEFINE m == Counts[r] + 1
             e == [key |-> <<r, m>>, body |-> NoKey, target |-> TargetOf[r],
                   run |-> r, previous |-> tails[r]]
  <2>2. Counts[r] = Cardinality(Events(r)) /\ m \in Nat
    BY EventsFinite DEF IInv, Counts
  <2>3. tails[r] \in Nat
    <3>1. \A i : i \in {0} \cup Ids => i \in Nat
      BY DEF Ids, IInv, TypeOK
    <3>2. tails[r] \in {0} \cup Ids
      BY DEF IInv, TypeOK
    <3> QED BY <3>1, <3>2
  <2>4. e \in Entries /\ e.run = r /\ e.key = <<r, m>>
    BY <2>2, <2>3, OutboxAssumption DEF Entries
  <2>5. \A i \in Ids : log[i].key # <<r, m>>
    <3> SUFFICES ASSUME NEW i \in Ids, log[i].key = <<r, m>> PROVE FALSE
      OBVIOUS
    <3>1. CASE log[i].run \in Runs
      <4>1. PICK k \in 1..Counts[log[i].run] : log[i].key = <<log[i].run, k>>
        BY <3>1 DEF KeysOK
      <4>2. log[i].run = r /\ k = m
        BY <4>1
      <4>3. Counts[r] \in Nat
        BY EventsFinite DEF IInv, Counts
      <4> QED BY <4>1, <4>2, <4>3
    <3>2. CASE log[i].run \notin Runs
      <4>1. log[i].key \notin Runs \X Nat
        BY <3>2 DEF KeysOK
      <4> HIDE DEF m
      <4>2. <<r, m>> \in Runs \X Nat
        BY <2>2
      <4> QED BY <4>1, <4>2
    <3> QED BY <3>1, <3>2
  <2>6. AppendPublication(e) /\ cur' = cur
    BY <2>1, <2>2 DEF Emit
  <2> HIDE DEF e
  <2> QED BY <2>2, <2>4, <2>5, <2>6, AppendKeeps
<1>3. CASE \E c \in Callers : Repeat(c) \/ Retry(c)
  <2>1. PICK c \in Callers : Repeat(c) \/ Retry(c)
    BY <1>3
  <2>2. /\ log' = log
        /\ \/ cur' = [cur EXCEPT ![c] = 0]
           \/ \E i \in Ids : log[i].body = BodyOf[c] /\ cur' = [cur EXCEPT ![c] = i]
    BY <2>1 DEF Repeat, Retry, WithKey, journal
  <2>3. \A d \in Callers : cur'[d] # 0 => log[cur'[d]].body = BodyOf[d]
    BY <2>2 DEF KeysOK, OneMessagePerKey, IInv, TypeOK
  <2> QED BY <2>2, <2>3 DEF KeysOK, OneMessagePerKey, Counts, Events, Ids
<1>4. CASE UNCHANGED <<log, cur>>
  BY <1>4 DEF KeysOK, OneMessagePerKey, Counts, Events, Ids
<1> QED BY <1>1, <1>2, <1>3, <1>4
        DEF Next, Call, Flush, Refuse, EnqueueFails, Tick, Lock, Send, Acked, TimesOut, Record,
            RecordFails, Accept, Lose, Forget, TrustChanges, Restart, vars, journal

-----------------------------------------------------------------------------
(***************************************************************************)
(* The theorems                                                            *)
(***************************************************************************)

\* IInv is an invariant of the outbox, whatever the broker, the disk and the
\* trust in its peers do.
THEOREM Invariance == Spec => []IInv
BY InitInv, StepInv, PTL DEF Spec

\* Events of a run are on the wire in the order in which they were recorded.
THEOREM WireOrder == Spec => []RunOrder
BY Invariance, PTL DEF IInv

\* Only what the broker has accepted counts as published.
THEOREM NoFalseConfirmation == Spec => []ConfirmedAccepted
<1>1. IInv => ConfirmedAccepted
  BY DEF IInv, AcceptedOK, ConfirmedAccepted
<1> QED BY <1>1, Invariance, PTL

\* No unpublished message is forgotten by the loop.
THEOREM PendingComplete == Spec => []NothingLost
BY Invariance, PTL DEF IInv

\* A key stands for one message, and for the content its callers gave.
THEOREM Idempotency == Spec => []OneMessagePerKey
<1>1. Init => KeysOK
  BY DEF Init, KeysOK, OneMessagePerKey, Ids
<1>2. IInv /\ KeysOK /\ [Next]_vars => KeysOK'
  BY KeysStep
<1>3. KeysOK => OneMessagePerKey
  BY DEF KeysOK
<1> QED BY <1>1, <1>2, <1>3, Invariance, PTL DEF Spec

\* Every variable keeps its type.
THEOREM Typing == Spec => []TypeOK
BY Invariance, PTL DEF IInv

\* The journal's account of what was sent is true both ways.
THEOREM Account == Spec => []AccountIsTrue
<1>1. ConfirmedAccepted /\ NothingLost => AccountIsTrue
  BY DEF AccountIsTrue
<1> QED BY <1>1, NoFalseConfirmation, PendingComplete, PTL
=============================================================================

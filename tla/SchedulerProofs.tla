--------------------------- MODULE SchedulerProofs ---------------------------
(***************************************************************************)
(* Proofs about Scheduler: for any number of Bots, callers and budgets,    *)
(* slots are owned, counters are right and within the budgets, no free     *)
(* slot is left while a request could use it, queues are bounded, closed   *)
(* limiters are drained and rounds are fair.  And about what a slot is for: *)
(* for any number of deliveries, turns, items and chunks, what an adapter   *)
(* tells of an execution is true, whole, and of one conversation only.      *)
(***************************************************************************)
EXTENDS Scheduler, Adapter, FiniteSetTheorems, SequenceTheorems, TLAPS

El(s) == {s[i] : i \in DOMAIN s}
Distinct(s) == \A i, j \in DOMAIN s : s[i] = s[j] => i = j
Before(s, x, y) == \E i, j \in DOMAIN s : i < j /\ s[i] = x /\ s[j] = y

\* What a caller of Acquire knows at each of its points.
CallersOK ==
  \A r \in Requests :
    /\ r \in granted => err[r] = "none" /\ pc[r] \notin {"idle", "entering"}
    /\ pc[r] \in {"holding", "releasing"} => r \in granted
    /\ pc[r] \in {"idle", "entering"} => err[r] = "none"

\* The queue of a Bot holds undecided requests of that Bot, each once.
QueueOK ==
  \A b \in Bots :
    /\ Distinct(queue[b])
    /\ \A r \in El(queue[b]) :
          BotOf[r] = b /\ pc[r] = "waiting" /\ r \notin granted /\ err[r] = "none"
    /\ limiter[b] # "open" => queue[b] = <<>>

\* A Bot is listed once, and every Bot that may run more is listed.
ReadyOK ==
  /\ Distinct(ready)
  /\ \A b \in Bots : /\ b \in El(ready) => limiter[b] = "open"
                     /\ Servable(b) => b \in El(ready)
                     /\ closed => limiter[b] # "open"

\* The counters are the numbers of owned slots.
Holders == {r \in Requests : Owns(r)}
CountersOK ==
  /\ SlotsOwned
  /\ running = Cardinality(Holders) /\ running <= MaxTotal
  /\ \A b \in Bots : /\ botRunning[b] = Cardinality(active[b])
                     /\ botRunning[b] <= MaxOf[b]

\* A limiter is closing as long as something of its Bot runs.
LivesOK ==
  \A b \in Bots : /\ limiter[b] = "closing" => botRunning[b] > 0
                  /\ limiter[b] \in {"absent", "closed"} => botRunning[b] = 0

\* dispatch ends with a full daemon or with an empty list.
DispatchOK == lock = "free" /\ ~closed => running = MaxTotal \/ ready = <<>>

\* A request beyond maxQueued is the only one, and the next to be served.
RoomOK ==
  \A b \in Bots :
    \/ Len(queue[b]) <= QueueOf[b]
    \/ /\ lock = "dispatch" /\ ~closed /\ running < MaxTotal /\ Servable(b)
       /\ ready # <<>> /\ Head(ready) = b /\ Len(queue[b]) = 1

\* A Bot served since c was listed is not in front of c, and the ghost of a Bot
\* that is not listed is empty.
PassedOK ==
  \A c \in Bots :
    /\ \A b \in passed[c] : ~Before(ready, b, c)
    /\ c \notin El(ready) => passed[c] = {}

IInv == /\ TypeOK /\ CallersOK /\ QueueOK /\ ReadyOK /\ CountersOK
        /\ LivesOK /\ DispatchOK /\ RoomOK /\ PassedOK

-----------------------------------------------------------------------------
(***************************************************************************)
(* Sequences                                                               *)
(***************************************************************************)

\* append, of a request to a queue or of a Bot to the list.
LEMMA Appended ==
  ASSUME NEW S, NEW s \in Seq(S), NEW x \in S, Distinct(s), x \notin El(s)
  PROVE  LET t == Append(s, x)
         IN /\ t \in Seq(S) /\ Distinct(t) /\ El(t) = El(s) \cup {x}
            /\ t # <<>> /\ Len(t) = Len(s) + 1
            /\ Head(t) = IF s = <<>> THEN x ELSE Head(s)
            /\ \A y, z : Before(t, y, z) => Before(s, y, z) \/ (z = x /\ y \in El(s))
<1> DEFINE t == Append(s, x)
<1>1. /\ t \in Seq(S) /\ Len(s) \in Nat /\ Len(t) = Len(s) + 1
      /\ DOMAIN s = 1..Len(s) /\ DOMAIN t = 1..(Len(s) + 1)
      /\ t[Len(s) + 1] = x /\ \A i \in 1..Len(s) : t[i] = s[i]
  OBVIOUS
<1>2. t # <<>> /\ Head(t) = (IF s = <<>> THEN x ELSE Head(s))
  <2>1. t # <<>> /\ Head(t) = t[1]
    BY <1>1
  <2>2. CASE s = <<>>
    BY <2>1, <2>2, <1>1
  <2>3. CASE s # <<>>
    <3>1. Len(s) # 0 /\ Head(s) = s[1]
      BY <2>3
    <3> QED BY <2>1, <2>3, <3>1, <1>1
  <2> QED BY <2>2, <2>3
<1> HIDE DEF t
<1>3. Distinct(t)
  BY <1>1 DEF Distinct, El
<1>4. El(t) = El(s) \cup {x}
  <2>1. \A i \in DOMAIN t : t[i] \in El(s) \cup {x}
    BY <1>1 DEF El
  <2>2. x \in El(t)
    <3>1. Len(s) + 1 \in DOMAIN t
      BY <1>1
    <3> QED BY <3>1, <1>1 DEF El
  <2>3. \A i \in DOMAIN s : s[i] \in El(t)
    <3>1. \A i \in DOMAIN s : i \in DOMAIN t /\ t[i] = s[i]
      BY <1>1
    <3> QED BY <3>1 DEF El
  <2> QED BY <2>1, <2>2, <2>3 DEF El
<1>5. ASSUME NEW y, NEW z, Before(t, y, z)
      PROVE  Before(s, y, z) \/ (z = x /\ y \in El(s))
  <2>1. PICK i, j \in DOMAIN t : i < j /\ t[i] = y /\ t[j] = z
    BY <1>5 DEF Before
  <2>2. i \in DOMAIN s /\ s[i] = y
    BY <2>1, <1>1
  <2>3. CASE j = Len(s) + 1
    BY <2>1, <2>2, <2>3, <1>1 DEF El
  <2>4. CASE j # Len(s) + 1
    <3>1. j \in DOMAIN s /\ s[j] = z
      BY <2>1, <2>4, <1>1
    <3> QED BY <3>1, <2>1, <2>2 DEF Before
  <2> QED BY <2>3, <2>4
<1> QED BY <1>1, <1>2, <1>3, <1>4, <1>5 DEF t

\* Taking the head, of a queue or of the list.
LEMMA Tailed ==
  ASSUME NEW S, NEW s \in Seq(S), s # <<>>, Distinct(s)
  PROVE  /\ Tail(s) \in Seq(S) /\ Distinct(Tail(s)) /\ El(Tail(s)) = El(s) \ {Head(s)}
         /\ Head(s) \in S /\ Head(s) \in El(s) /\ Len(s) \in Nat /\ Len(Tail(s)) = Len(s) - 1
         /\ \A y, z : Before(Tail(s), y, z) => Before(s, y, z)
         /\ \A z \in El(s) : z # Head(s) => Before(s, Head(s), z)
<1> DEFINE t == Tail(s)
<1>1. /\ Head(s) \in S /\ t \in Seq(S) /\ Len(s) \in Nat \ {0} /\ Len(t) = Len(s) - 1
      /\ DOMAIN s = 1..Len(s) /\ DOMAIN t = 1..(Len(s) - 1)
      /\ Head(s) = s[1] /\ \A i \in 1..(Len(s) - 1) : t[i] = s[i + 1]
  OBVIOUS
<1> HIDE DEF t
<1>2. \A i \in DOMAIN t : i + 1 \in DOMAIN s /\ t[i] = s[i + 1]
  BY <1>1
<1>3. \A i \in DOMAIN s : i # 1 => i - 1 \in DOMAIN t /\ t[i - 1] = s[i]
  BY <1>1
<1>4. Distinct(t)
  BY <1>1, <1>2 DEF Distinct
<1>5. 1 \in DOMAIN s /\ Head(s) \in El(s)
  BY <1>1 DEF El
<1>6. El(t) = El(s) \ {Head(s)}
  <2>1. \A i \in DOMAIN t : t[i] \in El(s) /\ t[i] # Head(s)
    <3> TAKE i \in DOMAIN t
    <3>1. i + 1 \in DOMAIN s /\ i + 1 # 1
      BY <1>1, <1>2
    <3> QED BY <3>1, <1>1, <1>2, <1>5 DEF El, Distinct
  <2>2. \A i \in DOMAIN s : s[i] # Head(s) => s[i] \in El(t)
    BY <1>1, <1>3 DEF El
  <2> QED BY <2>1, <2>2 DEF El
<1>7. ASSUME NEW y, NEW z, Before(t, y, z)
      PROVE  Before(s, y, z)
  <2>1. PICK i, j \in DOMAIN t : i < j /\ t[i] = y /\ t[j] = z
    BY <1>7 DEF Before
  <2>2. i + 1 < j + 1
    BY <2>1, <1>1
  <2> QED BY <2>1, <2>2, <1>2 DEF Before
<1>8. ASSUME NEW z \in El(s), z # Head(s)
      PROVE  Before(s, Head(s), z)
  <2>1. PICK j \in DOMAIN s : s[j] = z
    BY DEF El
  <2>2. 1 < j
    BY <2>1, <1>8, <1>1
  <2> QED BY <2>1, <2>2, <1>1, <1>5 DEF Before
<1> QED BY <1>1, <1>4, <1>5, <1>6, <1>7, <1>8 DEF t

\* remove, of a request from a queue or of a Bot from the list.
LEMMA Removed ==
  ASSUME NEW S, NEW s \in Seq(S), NEW x, Distinct(s)
  PROVE  LET t == Without(s, x)
         IN /\ t \in Seq(S) /\ Distinct(t) /\ El(t) = El(s) \ {x}
            /\ Len(s) \in Nat /\ Len(t) \in Nat /\ Len(t) <= Len(s)
            /\ \A y, z : Before(t, y, z) => Before(s, y, z)
<1> DEFINE t == Without(s, x)
<1>0. Len(s) \in Nat /\ DOMAIN s = 1..Len(s) /\ \A i \in DOMAIN s : s[i] \in S
  OBVIOUS
<1>1. CASE \A i \in DOMAIN s : s[i] # x
  <2>1. Without(s, x) = s
    BY <1>1 DEF Without
  <2>2. El(s) = El(s) \ {x}
    BY <1>1 DEF El
  <2> QED BY <2>1, <2>2, <1>0
<1>2. CASE ~\A i \in DOMAIN s : s[i] # x
  <2> DEFINE k == CHOOSE i \in DOMAIN s : s[i] = x
             from(j) == IF j < k THEN j ELSE j + 1
  <2>1. k \in DOMAIN s /\ s[k] = x
    BY <1>2
  <2>2. t = [j \in 1..(Len(s) - 1) |-> s[IF j < k THEN j ELSE j + 1]]
    BY <1>2 DEF Without
  <2> HIDE DEF k, t
  <2>3. \A j \in 1..(Len(s) - 1) : from(j) \in DOMAIN s /\ from(j) # k
    BY <2>1, <1>0
  <2>4. /\ DOMAIN t = 1..(Len(s) - 1) /\ Len(s) - 1 \in Nat
        /\ \A j \in 1..(Len(s) - 1) : t[j] = s[from(j)]
    BY <2>1, <2>2, <1>0
  <2>5. t \in Seq(S) /\ Len(t) = Len(s) - 1
    <3>1. \A j \in 1..(Len(s) - 1) : s[from(j)] \in S
      BY <2>3, <1>0
    <3>2. t \in [1..(Len(s) - 1) -> S]
      BY <3>1, <2>2
    <3> QED BY <3>2, <2>4
  <2>6. \A i, j \in 1..(Len(s) - 1) : i < j => from(i) < from(j)
    BY <2>1, <1>0
  <2>7. Distinct(t)
    <3> SUFFICES ASSUME NEW i \in DOMAIN t, NEW j \in DOMAIN t, t[i] = t[j]
                 PROVE  i = j
      BY DEF Distinct
    <3>1. from(i) = from(j)
      BY <2>3, <2>4 DEF Distinct
    <3> QED BY <3>1, <2>1, <2>4, <1>0
  <2>8. El(t) = El(s) \ {x}
    <3>1. \A j \in DOMAIN t : t[j] \in El(s) /\ t[j] # x
      <4> TAKE j \in DOMAIN t
      <4>1. from(j) \in DOMAIN s /\ from(j) # k /\ t[j] = s[from(j)]
        BY <2>3, <2>4
      <4> QED BY <4>1, <2>1 DEF El, Distinct
    <3>2. \A i \in DOMAIN s : s[i] # x => s[i] \in El(t)
      <4> TAKE i \in DOMAIN s
      <4> HAVE s[i] # x
      <4> DEFINE j == IF i < k THEN i ELSE i - 1
      <4>1. j \in DOMAIN t /\ from(j) = i
        BY <2>1, <2>4, <1>0
      <4>2. t[j] = s[i]
        BY <4>1, <2>4
      <4> QED BY <4>1, <4>2 DEF El
    <3> QED BY <3>1, <3>2 DEF El
  <2>9. ASSUME NEW y, NEW z, Before(t, y, z)
        PROVE  Before(s, y, z)
    <3>1. PICK i, j \in DOMAIN t : i < j /\ t[i] = y /\ t[j] = z
      BY <2>9 DEF Before
    <3>2. from(i) < from(j) /\ s[from(i)] = y /\ s[from(j)] = z
      BY <3>1, <2>4, <2>6
    <3>3. from(i) \in DOMAIN s /\ from(j) \in DOMAIN s
      BY <2>3, <2>4
    <3> HIDE DEF from
    <3> QED BY <3>2, <3>3 DEF Before
  <2> QED BY <2>4, <2>5, <2>7, <2>8, <2>9, <1>0 DEF t
<1> QED BY <1>1, <1>2

-----------------------------------------------------------------------------
(***************************************************************************)
(* Callers that move by themselves                                         *)
(***************************************************************************)

\* A fresh scheduler.
LEMMA InitInv == ASSUME Init PROVE IInv
<1>1. TypeOK
  <2>1. <<>> \in Seq(Bots) /\ <<>> \in Seq(Requests) /\ 0 \in Nat
    OBVIOUS
  <2>2. /\ running \in Nat /\ ready \in Seq(Bots)
        /\ botRunning \in [Bots -> Nat] /\ queue \in [Bots -> Seq(Requests)]
        /\ passed \in [Bots -> SUBSET Bots] /\ active \in [Bots -> SUBSET Requests]
    BY <2>1 DEF Init
  <2> QED BY <2>2 DEF Init, TypeOK, Points, Lives, Errors
<1>2. CallersOK /\ LivesOK /\ DispatchOK
  BY DEF Init, CallersOK, LivesOK, DispatchOK
<1>3. QueueOK /\ ReadyOK /\ PassedOK
  BY DEF Init, QueueOK, ReadyOK, PassedOK, Distinct, El, Servable, Before
<1>4. CountersOK
  <2>1. Holders = {} /\ \A b \in Bots : active[b] = {}
    BY DEF Init, Holders, Owns
  <2>2. SlotsOwned
    BY <2>1 DEF Init, SlotsOwned, Owns
  <2>3. Cardinality({}) = 0
    BY FS_EmptySet
  <2> QED BY <2>1, <2>2, <2>3, SchedulerAssumption DEF Init, CountersOK
<1>5. RoomOK
  BY SchedulerAssumption DEF Init, RoomOK
<1> QED BY <1>1, <1>2, <1>3, <1>4, <1>5 DEF IInv

\* A caller that is not queued moves, and owns a slot before and after or
\* neither.
LEMMA CallerMoves ==
  ASSUME IInv, NEW r \in Requests, NEW p \in Points,
         UNCHANGED <<lock, closed, running, ready, bots, passed>>,
         pc' = [pc EXCEPT ![r] = p],
         err' \in [Requests -> Errors], granted' \subseteq Requests,
         cancelled' \subseteq Requests, stopped' \subseteq Requests,
         \A q \in Requests : q # r => err'[q] = err[q] /\ (q \in granted' <=> q \in granted),
         pc[r] # "waiting" \/ r \in granted \/ err[r] # "none",
         Owns(r)' <=> Owns(r),
         r \in granted' => err'[r] = "none" /\ p \notin {"idle", "entering"},
         p \in {"holding", "releasing"} => r \in granted',
         p \in {"idle", "entering"} => err'[r] = "none"
  PROVE  IInv'
<1>1. TypeOK'
  BY DEF IInv, TypeOK, bots
<1>2. CallersOK'
  BY DEF IInv, CallersOK, TypeOK
<1>3. QueueOK'
  <2>1. \A b \in Bots : r \notin El(queue[b])
    BY DEF IInv, QueueOK
  <2>2. \A b \in Bots : El(queue[b]) \subseteq Requests
    BY DEF IInv, TypeOK, El
  <2> QED BY <2>1, <2>2 DEF IInv, QueueOK, TypeOK, bots
<1>4. \A q \in Requests : Owns(q)' <=> Owns(q)
  <2>1. \A q \in Requests : q # r => pc'[q] = pc[q]
    BY DEF IInv, TypeOK
  <2> QED BY <2>1 DEF Owns
<1>5. CountersOK'
  <2>1. Holders' = Holders
    BY <1>4 DEF Holders
  <2>2. SlotsOwned'
    BY <1>4 DEF IInv, CountersOK, SlotsOwned, bots
  <2> QED BY <2>1, <2>2 DEF IInv, CountersOK, bots
<1>6. ReadyOK' /\ LivesOK' /\ DispatchOK' /\ RoomOK' /\ PassedOK'
  BY DEF IInv, ReadyOK, LivesOK, DispatchOK, RoomOK, PassedOK, Servable, bots
<1> QED BY <1>1, <1>2, <1>3, <1>5, <1>6 DEF IInv

\* Acquire looks at the context, refuses, answers; the worker calls again.
LEMMA CallerInv ==
  ASSUME IInv, NEW r \in Requests, Arrive(r) \/ Refuse(r) \/ Answer(r) \/ Again(r)
  PROVE  IInv'
<1> USE DEF IInv, TypeOK, CallersOK, Points, Errors, Goto, Fails
<1>1. CASE Arrive(r)
  <2>1. CASE r \in cancelled
    BY ZenonT(30), <1>1, <2>1, CallerMoves DEF Arrive, Owns
  <2>2. CASE r \notin cancelled
    BY <1>1, <2>2, CallerMoves DEF Arrive, Owns
  <2> QED BY <2>1, <2>2
<1>2. CASE Refuse(r)
  <2>1. /\ pc[r] = "entering" /\ r \notin granted /\ pc' = [pc EXCEPT ![r] = "done"]
        /\ err' \in [Requests -> Errors] /\ \A q \in Requests : q # r => err'[q] = err[q]
    BY <1>2 DEF Refuse
  <2> QED BY <2>1, <1>2, CallerMoves DEF Refuse, Owns
<1>3. CASE Answer(r)
  <2>0. pc[r] = "leaving" \/ (pc[r] = "waiting" /\ (r \in granted \/ err[r] # "none"))
    BY <1>3 DEF Answer
  <2>1. CASE r \notin granted
    BY <2>0, <2>1, <1>3, CallerMoves DEF Answer, Owns
  <2>2. CASE r \in granted /\ Over(r)
    BY <2>0, <2>2, <1>3, CallerMoves DEF Answer, Owns
  <2>3. CASE r \in granted /\ ~Over(r)
    BY <2>0, <2>3, <1>3, CallerMoves DEF Answer, Owns
  <2> QED BY <2>1, <2>2, <2>3
<1>4. CASE Again(r)
  BY <1>4, CallerMoves DEF Again, Owns
<1> QED BY <1>1, <1>2, <1>3, <1>4

\* A context ends, and dispatch has nothing more to do.
LEMMA QuietInv ==
  ASSUME IInv, (\E r \in Requests : Cancel(r)) \/ Unlock \/ UNCHANGED vars
  PROVE  IInv'
<1>1. CASE (\E r \in Requests : Cancel(r)) \/ UNCHANGED vars
  <2>1. UNCHANGED <<lock, closed, running, ready, bots, slots, passed>> /\ cancelled' \subseteq Requests
    BY <1>1 DEF Cancel, vars, IInv, TypeOK
  <2>2. TypeOK' /\ CallersOK' /\ QueueOK' /\ ReadyOK'
    BY <2>1 DEF IInv, TypeOK, CallersOK, QueueOK, ReadyOK, Servable, bots, slots
  <2>3. CountersOK' /\ LivesOK' /\ DispatchOK' /\ RoomOK' /\ PassedOK'
    BY <2>1 DEF IInv, CountersOK, SlotsOwned, Holders, Owns, LivesOK, DispatchOK, RoomOK,
                PassedOK, Servable, bots, slots
  <2> QED BY <2>2, <2>3 DEF IInv
<1>2. CASE Unlock
  <2>1. /\ UNCHANGED <<closed, running, ready, bots, slots, cancelled, passed>>
        /\ lock = "dispatch" /\ lock' = "free" /\ ~More
    BY <1>2 DEF Unlock
  <2>2. TypeOK' /\ CallersOK' /\ QueueOK' /\ ReadyOK'
    BY <2>1 DEF IInv, TypeOK, CallersOK, QueueOK, ReadyOK, Servable, bots, slots
  <2>3. CountersOK' /\ LivesOK' /\ PassedOK'
    BY <2>1 DEF IInv, CountersOK, SlotsOwned, Holders, Owns, LivesOK, PassedOK, bots, slots
  <2>4. DispatchOK'
    <3>1. running \in Nat /\ MaxTotal \in Nat /\ running <= MaxTotal
      BY SchedulerAssumption DEF IInv, CountersOK, TypeOK
    <3> QED BY <2>1, <3>1 DEF DispatchOK, More
  <2>5. RoomOK'
    BY <2>1 DEF IInv, RoomOK, More, Servable, bots
  <2> QED BY <2>2, <2>3, <2>4, <2>5 DEF IInv
<1> QED BY <1>1, <1>2

\* The list after markReady: at most b is new, and it is the last.
LEMMA Marked ==
  ASSUME NEW b \in Bots, NEW list \in Seq(Bots), Distinct(list), MarkReady(b, list)
  PROVE  /\ ready' \in Seq(Bots) /\ Distinct(ready')
         /\ El(list) \subseteq El(ready') /\ El(ready') \subseteq El(list) \cup {b}
         /\ b \notin El(list) /\ b \in El(ready') => limiter'[b] = "open"
         /\ limiter'[b] = "open" /\ queue'[b] # <<>> /\ botRunning'[b] < MaxOf[b] =>
              b \in El(ready') /\ (list = <<>> => ready' # <<>> /\ Head(ready') = b)
         /\ \A y, z : Before(ready', y, z) => Before(list, y, z) \/ (z = b /\ b \notin El(list))
<1>1. (\E i \in DOMAIN list : list[i] = b) <=> b \in El(list)
  BY DEF El
<1>2. CASE ready' = list
  <2>1. limiter'[b] = "open" /\ queue'[b] # <<>> /\ botRunning'[b] < MaxOf[b] => b \in El(list)
    <3>1. CASE b \in El(list)
      BY <3>1
    <3>2. CASE b \notin El(list)
      <4> SUFFICES ASSUME limiter'[b] = "open", queue'[b] # <<>>, botRunning'[b] < MaxOf[b]
                   PROVE  FALSE
        OBVIOUS
      <4>1. ready' = Append(list, b)
        BY <1>1, <3>2 DEF MarkReady
      <4>2. b \in El(Append(list, b))
        BY <3>2, Appended
      <4> QED BY <4>1, <4>2, <1>2, <3>2
    <3> QED BY <3>1, <3>2
  <2>2. list = <<>> => El(list) = {}
    BY DEF El
  <2> QED BY <1>2, <2>1, <2>2
<1>3. CASE ready' # list
  <2>1. b \notin El(list) /\ ready' = Append(list, b) /\ limiter'[b] = "open"
    BY <1>1, <1>3 DEF MarkReady
  <2>2. /\ ready' \in Seq(Bots) /\ Distinct(ready') /\ El(ready') = El(list) \cup {b}
        /\ ready' # <<>> /\ Head(ready') = IF list = <<>> THEN b ELSE Head(list)
        /\ \A y, z : Before(ready', y, z) => Before(list, y, z) \/ (z = b /\ y \in El(list))
    BY <2>1, Appended
  <2> QED BY <2>1, <2>2
<1> QED BY <1>2, <1>3

-----------------------------------------------------------------------------
(***************************************************************************)
(* Acquire, abandon and release                                            *)
(***************************************************************************)

\* Facts every critical section begins with: the loop of dispatch is over.
LEMMA FreeFacts ==
  ASSUME IInv, Free
  PROVE  /\ \A b \in Bots : Len(queue[b]) \in Nat /\ Len(queue[b]) <= QueueOf[b] /\ queue[b] \in Seq(Requests)
         /\ \A b \in Bots : botRunning[b] \in Nat /\ MaxOf[b] \in Nat /\ QueueOf[b] \in Nat
         /\ ready \in Seq(Bots) /\ Distinct(ready) /\ running \in Nat /\ MaxTotal \in Nat
BY SchedulerAssumption DEF IInv, TypeOK, RoomOK, ReadyOK, Free

\* A request enters the queue of its Bot.
LEMMA EnqueueInv == ASSUME IInv, NEW r \in Requests, Enqueue(r) PROVE IInv'
<1> DEFINE b == BotOf[r]
<1>a. /\ b \in Bots /\ Free /\ pc[r] = "entering" /\ limiter[b] = "open" /\ ~closed
      /\ Immediate(b) \/ Len(queue[b]) < QueueOf[b]
      /\ queue' = [queue EXCEPT ![b] = Append(@, r)]
      /\ MarkReady(b, ready) /\ lock' = "dispatch" /\ pc' = [pc EXCEPT ![r] = "waiting"]
      /\ UNCHANGED <<limiter, botRunning, active, closed, running, granted, err, stopped, cancelled, passed>>
  BY SchedulerAssumption DEF Enqueue, Shut, Goto
<1> HIDE DEF b
<1>b. r \notin granted /\ err[r] = "none" /\ \A c \in Bots : r \notin El(queue[c])
  BY <1>a DEF IInv, CallersOK, QueueOK
<1>c. /\ queue'[b] = Append(queue[b], r) /\ queue'[b] \in Seq(Requests) /\ Distinct(queue'[b])
      /\ El(queue'[b]) = El(queue[b]) \cup {r} /\ queue'[b] # <<>> /\ Len(queue'[b]) = Len(queue[b]) + 1
      /\ \A c \in Bots \ {b} : queue'[c] = queue[c]
  <2>1. queue[b] \in Seq(Requests) /\ Distinct(queue[b]) /\ queue \in [Bots -> Seq(Requests)]
    BY <1>a DEF IInv, TypeOK, QueueOK
  <2>2. queue'[b] = Append(queue[b], r) /\ \A c \in Bots \ {b} : queue'[c] = queue[c]
    BY <1>a, <2>1
  <2> QED BY <2>1, <2>2, <1>a, <1>b, Appended
<1>d. /\ ready' \in Seq(Bots) /\ Distinct(ready')
      /\ El(ready) \subseteq El(ready') /\ El(ready') \subseteq El(ready) \cup {b}
      /\ botRunning[b] < MaxOf[b] =>
           b \in El(ready') /\ (ready = <<>> => ready' # <<>> /\ Head(ready') = b)
      /\ \A y, z : Before(ready', y, z) => Before(ready, y, z) \/ (z = b /\ b \notin El(ready))
  BY <1>a, <1>c, FreeFacts, Marked
<1>1. TypeOK'
  <2>1. queue' \in [Bots -> Seq(Requests)] /\ pc' \in [Requests -> Points]
    BY <1>a, <1>c DEF IInv, TypeOK, Points
  <2> QED BY <2>1, <1>a, <1>d DEF IInv, TypeOK
<1>2. CallersOK'
  BY <1>a, <1>b DEF IInv, CallersOK, TypeOK
<1>3. QueueOK'
  <2>1. \A c \in Bots : El(queue[c]) \subseteq Requests
    BY DEF IInv, TypeOK, El
  <2>2. \A q \in Requests : q # r => pc'[q] = pc[q]
    BY <1>a DEF IInv, TypeOK
  <2>3. pc'[r] = "waiting"
    BY <1>a DEF IInv, TypeOK
  <2> QED BY <2>1, <2>2, <2>3, <1>a, <1>b, <1>c DEF IInv, QueueOK, b
<1>4. ReadyOK'
  BY <1>a, <1>c, <1>d DEF IInv, ReadyOK, Servable
<1>5. CountersOK'
  <2>1. \A q \in Requests : Owns(q)' <=> Owns(q)
    BY <1>a, <1>b DEF Owns, IInv, TypeOK
  <2>2. Holders' = Holders
    BY <2>1 DEF Holders
  <2>3. SlotsOwned'
    BY <2>1, <1>a DEF IInv, CountersOK, SlotsOwned
  <2> QED BY <2>2, <2>3, <1>a DEF IInv, CountersOK
<1>6. LivesOK' /\ DispatchOK'
  BY <1>a DEF IInv, LivesOK, DispatchOK
<1>7. RoomOK'
  <2>1. \A c \in Bots \ {b} : Len(queue'[c]) <= QueueOf[c]
    BY <1>a, <1>c, FreeFacts
  <2>2. CASE Len(queue[b]) < QueueOf[b]
    BY <2>1, <2>2, <1>a, <1>c, FreeFacts DEF RoomOK
  <2>3. CASE Immediate(b)
    <3>1. queue[b] = <<>> /\ ready = <<>> /\ running < MaxTotal /\ botRunning[b] < MaxOf[b]
      BY <2>3 DEF Immediate
    <3>2. Len(queue'[b]) = 1
      BY <3>1, <1>c
    <3> QED BY <2>1, <3>1, <3>2, <1>a, <1>c, <1>d DEF RoomOK, Servable
  <2> QED BY <2>2, <2>3, <1>a
<1>8. PassedOK'
  <2>1. b \notin El(ready) => passed[b] = {}
    BY <1>a DEF IInv, PassedOK
  <2> QED BY <2>1, <1>a, <1>d DEF IInv, PassedOK
<1> QED BY <1>1, <1>2, <1>3, <1>4, <1>5, <1>6, <1>7, <1>8 DEF IInv

\* A caller whose context ends leaves the queue.
LEMMA AbandonInv == ASSUME IInv, NEW r \in Requests, Abandon(r) PROVE IInv'
<1> DEFINE b == BotOf[r]
<1>a. /\ b \in Bots /\ Free /\ pc[r] = "waiting" /\ lock' = "dispatch" /\ pc' = [pc EXCEPT ![r] = "leaving"]
      /\ UNCHANGED <<closed, running, ready, limiter, botRunning, active, granted, cancelled, passed>>
  BY SchedulerAssumption DEF Abandon, Goto
<1>b. /\ queue' \in [Bots -> Seq(Requests)]
      /\ \A c \in Bots : /\ El(queue'[c]) = El(queue[c]) \ {r} /\ Distinct(queue'[c])
                         /\ Len(queue'[c]) <= Len(queue[c]) /\ Len(queue'[c]) \in Nat
                         /\ queue[c] = <<>> => queue'[c] = <<>>
  <2>1. \A c \in Bots : queue[c] \in Seq(Requests) /\ Distinct(queue[c]) /\ Len(queue[c]) \in Nat
    BY DEF IInv, TypeOK, QueueOK
  <2>2. \A c \in Bots : c # b => r \notin El(queue[c])
    BY DEF IInv, QueueOK
  <2>3. CASE r \notin granted /\ err[r] = "none"
    <3>1. queue' = [queue EXCEPT ![b] = Without(@, r)]
      BY <2>3 DEF Abandon
    <3>2. /\ queue'[b] = Without(queue[b], r) /\ \A c \in Bots \ {b} : queue'[c] = queue[c]
      BY <3>1, <1>a DEF IInv, TypeOK
    <3>3. /\ queue'[b] \in Seq(Requests) /\ Distinct(queue'[b]) /\ El(queue'[b]) = El(queue[b]) \ {r}
          /\ Len(queue'[b]) \in Nat /\ Len(queue'[b]) <= Len(queue[b])
      BY <3>2, <2>1, <1>a, Removed
    <3>4. queue[b] = <<>> => queue'[b] = <<>>
      BY <3>3
    <3>5. queue' \in [Bots -> Seq(Requests)]
      BY <3>1, <3>2, <3>3, <1>a DEF IInv, TypeOK
    <3> QED BY <3>2, <3>3, <3>4, <3>5, <2>1, <2>2
  <2>4. CASE ~(r \notin granted /\ err[r] = "none")
    <3>1. queue' = queue
      BY <2>4 DEF Abandon
    <3>2. \A c \in Bots : r \notin El(queue[c])
      BY <2>4 DEF IInv, QueueOK
    <3> QED BY <3>1, <3>2, <2>1 DEF IInv, TypeOK
  <2> QED BY <2>3, <2>4
<1>c. /\ err' \in [Requests -> Errors] /\ stopped' \subseteq Requests
      /\ \A q \in Requests : q # r \/ q \in granted => err'[q] = err[q]
  BY DEF Abandon, IInv, TypeOK, Errors
<1> HIDE DEF b
<1>1. TypeOK'
  BY <1>a, <1>b, <1>c DEF IInv, TypeOK, Points
<1>2. CallersOK'
  BY <1>a, <1>c DEF IInv, CallersOK, TypeOK
<1>3. QueueOK'
  <2>1. \A c \in Bots : El(queue[c]) \subseteq Requests
    BY DEF IInv, TypeOK, El
  <2> QED BY <2>1, <1>a, <1>b, <1>c DEF IInv, QueueOK, TypeOK
<1>4. ReadyOK' /\ LivesOK' /\ DispatchOK' /\ PassedOK'
  BY <1>a, <1>b DEF IInv, ReadyOK, Servable, LivesOK, DispatchOK, PassedOK
<1>5. CountersOK'
  <2>1. \A q \in Requests : Owns(q)' <=> Owns(q)
    BY <1>a DEF Owns, IInv, TypeOK
  <2>2. Holders' = Holders
    BY <2>1 DEF Holders
  <2>3. SlotsOwned'
    BY <2>1, <1>a DEF IInv, CountersOK, SlotsOwned
  <2> QED BY <2>2, <2>3, <1>a DEF IInv, CountersOK
<1>6. RoomOK'
  BY <1>a, <1>b, FreeFacts DEF RoomOK
<1> QED BY <1>1, <1>2, <1>3, <1>4, <1>5, <1>6 DEF IInv

\* The holders of slots are finitely many.
LEMMA HoldersFinite ==
  ASSUME TypeOK
  PROVE  IsFiniteSet(Holders) /\ \A b \in Bots : IsFiniteSet(active[b])
<1>1. Holders \subseteq Requests /\ \A b \in Bots : active[b] \subseteq Requests
  BY DEF Holders, TypeOK
<1>2. \A T : T \subseteq Requests => IsFiniteSet(T)
  BY SchedulerAssumption, FS_Subset
<1> QED BY <1>1, <1>2

\* A slot is given back.
LEMMA ReleaseInv == ASSUME IInv, NEW r \in Requests, Release(r) PROVE IInv'
<1> DEFINE b == BotOf[r]
<1>a. /\ b \in Bots /\ Free /\ pc[r] \in {"holding", "releasing"}
      /\ stopped' = stopped \cup {r} /\ active' = [active EXCEPT ![b] = @ \ {r}]
      /\ botRunning' = [botRunning EXCEPT ![b] = @ - 1] /\ running' = running - 1
      /\ FinishClose(b) /\ MarkReady(b, ready)
      /\ lock' = "dispatch" /\ pc' = [pc EXCEPT ![r] = "done"]
      /\ UNCHANGED <<queue, closed, granted, err, cancelled, passed>>
  BY SchedulerAssumption DEF Release, Goto
<1> HIDE DEF b
<1>b. r \in granted /\ r \in active[b] /\ r \in Holders
  <2>1. r \in granted
    BY <1>a DEF IInv, CallersOK
  <2>2. Owns(r)
    BY <2>1, <1>a DEF Owns
  <2> QED BY <2>1, <2>2, <1>a DEF IInv, CountersOK, SlotsOwned, Holders, b
<1>c. /\ botRunning[b] - 1 \in Nat /\ running - 1 \in Nat
      /\ Cardinality(active[b] \ {r}) = botRunning[b] - 1 /\ Cardinality(Holders \ {r}) = running - 1
  <2>1. IsFiniteSet(Holders) /\ IsFiniteSet(active[b])
    BY <1>a, HoldersFinite DEF IInv
  <2>2. Cardinality(Holders \ {r}) = Cardinality(Holders) - 1 /\ IsFiniteSet(Holders \ {r})
    BY <2>1, <1>b, FS_RemoveElement
  <2>3. Cardinality(active[b] \ {r}) = Cardinality(active[b]) - 1 /\ IsFiniteSet(active[b] \ {r})
    BY <2>1, <1>b, FS_RemoveElement
  <2>4. Cardinality(Holders \ {r}) \in Nat /\ Cardinality(active[b] \ {r}) \in Nat
    BY <2>2, <2>3, FS_CardinalityType
  <2> QED BY <2>2, <2>3, <2>4, <1>a DEF IInv, CountersOK
<1>d. /\ botRunning' \in [Bots -> Nat] /\ botRunning'[b] = botRunning[b] - 1
      /\ \A c \in Bots \ {b} : botRunning'[c] = botRunning[c]
      /\ active'[b] = active[b] \ {r} /\ \A c \in Bots \ {b} : active'[c] = active[c]
  BY <1>a, <1>c DEF IInv, TypeOK
<1>e. /\ limiter' \in [Bots -> Lives] /\ \A c \in Bots \ {b} : limiter'[c] = limiter[c]
      /\ limiter[b] # "closing" => limiter'[b] = limiter[b]
      /\ limiter[b] = "closing" => limiter'[b] = IF botRunning'[b] = 0 THEN "closed" ELSE "closing"
  <2>1. CASE limiter[b] = "closing" /\ botRunning'[b] = 0
    <3>1. limiter' = [limiter EXCEPT ![b] = "closed"]
      BY <1>a, <2>1 DEF FinishClose
    <3> QED BY <3>1, <2>1, <1>a DEF IInv, TypeOK, Lives
  <2>2. CASE ~(limiter[b] = "closing" /\ botRunning'[b] = 0)
    <3>1. limiter' = limiter
      BY <1>a, <2>2 DEF FinishClose
    <3> QED BY <3>1, <2>2, <1>a DEF IInv, TypeOK, Lives
  <2> QED BY <2>1, <2>2
<1>f. /\ ready' \in Seq(Bots) /\ Distinct(ready')
      /\ El(ready) \subseteq El(ready') /\ El(ready') \subseteq El(ready) \cup {b}
      /\ b \notin El(ready) /\ b \in El(ready') => limiter'[b] = "open"
      /\ limiter'[b] = "open" /\ queue'[b] # <<>> /\ botRunning'[b] < MaxOf[b] => b \in El(ready')
      /\ \A y, z : Before(ready', y, z) => Before(ready, y, z) \/ (z = b /\ b \notin El(ready))
  BY <1>a, FreeFacts, Marked
<1>1. TypeOK'
  <2>1. active' \in [Bots -> SUBSET Requests] /\ stopped' \subseteq Requests
    BY <1>a DEF IInv, TypeOK
  <2> QED BY <2>1, <1>a, <1>c, <1>d, <1>e, <1>f DEF IInv, TypeOK, Points
<1>2. CallersOK'
  BY <1>a DEF IInv, CallersOK, TypeOK
<1>3. QueueOK'
  <2>1. \A c \in Bots : El(queue[c]) \subseteq Requests
    BY DEF IInv, TypeOK, El
  <2>2. \A c \in Bots : r \notin El(queue[c])
    BY <1>a DEF IInv, QueueOK
  <2> QED BY <2>1, <2>2, <1>a, <1>e DEF IInv, QueueOK, TypeOK
<1>4. ReadyOK'
  <2>1. \A c \in Bots : c \in El(ready') => limiter'[c] = "open"
    BY <1>e, <1>f DEF IInv, ReadyOK
  <2>2. \A c \in Bots : Servable(c)' => c \in El(ready')
    BY <1>a, <1>d, <1>e, <1>f DEF IInv, ReadyOK, Servable
  <2>3. \A c \in Bots : closed' => limiter'[c] # "open"
    BY <1>a, <1>e DEF IInv, ReadyOK
  <2> QED BY <2>1, <2>2, <2>3, <1>f DEF ReadyOK
<1>5. CountersOK'
  <2>1. ~Owns(r)' /\ \A q \in Requests \ {r} : Owns(q)' <=> Owns(q)
    BY <1>a DEF Owns, IInv, TypeOK
  <2>2. Holders' = Holders \ {r}
    BY <2>1 DEF Holders
  <2>3. SlotsOwned'
    BY <2>1, <1>a, <1>d DEF IInv, CountersOK, SlotsOwned, b
  <2>4. running' <= MaxTotal /\ \A c \in Bots : botRunning'[c] <= MaxOf[c]
    BY <1>a, <1>c, <1>d, FreeFacts DEF IInv, CountersOK
  <2> QED BY <2>2, <2>3, <2>4, <1>a, <1>c, <1>d DEF IInv, CountersOK
<1>6. LivesOK'
  BY <1>c, <1>d, <1>e, <1>a DEF IInv, LivesOK, TypeOK
<1>7. DispatchOK' /\ RoomOK'
  BY <1>a, FreeFacts DEF DispatchOK, RoomOK
<1>8. PassedOK'
  <2>1. b \notin El(ready) => passed[b] = {}
    BY <1>a DEF IInv, PassedOK
  <2> QED BY <2>1, <1>a, <1>f DEF IInv, PassedOK
<1> QED BY <1>1, <1>2, <1>3, <1>4, <1>5, <1>6, <1>7, <1>8 DEF IInv

-----------------------------------------------------------------------------
(***************************************************************************)
(* dispatch                                                                *)
(***************************************************************************)

\* What a turn of the loop begins with.
LEMMA TurnFacts ==
  ASSUME IInv, lock = "dispatch", More
  PROVE  LET b == Head(ready)
         IN /\ b \in Bots /\ b \in El(ready) /\ limiter[b] = "open" /\ running + 1 <= MaxTotal
            /\ Tail(ready) \in Seq(Bots) /\ Distinct(Tail(ready)) /\ El(Tail(ready)) = El(ready) \ {b}
            /\ \A y, z : Before(Tail(ready), y, z) => Before(ready, y, z)
            /\ \A c \in El(ready) : c # b => Before(ready, b, c)
            /\ running \in Nat /\ ~closed
<1>1. ready \in Seq(Bots) /\ ready # <<>> /\ Distinct(ready) /\ running \in Nat /\ running < MaxTotal /\ ~closed
  BY DEF IInv, TypeOK, ReadyOK, More
<1>2. /\ Tail(ready) \in Seq(Bots) /\ Distinct(Tail(ready)) /\ El(Tail(ready)) = El(ready) \ {Head(ready)}
      /\ Head(ready) \in Bots /\ Head(ready) \in El(ready)
      /\ \A y, z : Before(Tail(ready), y, z) => Before(ready, y, z)
      /\ \A c \in El(ready) : c # Head(ready) => Before(ready, Head(ready), c)
  BY <1>1, Tailed
<1>3. limiter[Head(ready)] = "open"
  BY <1>2 DEF IInv, ReadyOK
<1> QED BY <1>1, <1>2, <1>3, SchedulerAssumption

\* A listed Bot that cannot run more is taken off the list.
LEMMA SkipInv == ASSUME IInv, Skip PROVE IInv'
<1> DEFINE b == Head(ready)
<1>a. /\ lock = "dispatch" /\ More /\ ~Servable(b) /\ ready' = Tail(ready)
      /\ passed' = [passed EXCEPT ![b] = {}]
      /\ UNCHANGED <<lock, closed, running, bots, slots, cancelled>>
  BY DEF Skip
<1>b. /\ b \in Bots /\ b \in El(ready) /\ ready' \in Seq(Bots) /\ Distinct(ready')
      /\ El(ready') = El(ready) \ {b} /\ \A y, z : Before(ready', y, z) => Before(ready, y, z)
  BY <1>a, TurnFacts
<1> HIDE DEF b
<1>1. TypeOK' /\ CallersOK' /\ QueueOK'
  BY <1>a, <1>b DEF IInv, TypeOK, CallersOK, QueueOK, bots, slots
<1>2. ReadyOK'
  BY <1>a, <1>b DEF IInv, ReadyOK, Servable, bots
<1>3. CountersOK' /\ LivesOK' /\ DispatchOK'
  BY <1>a DEF IInv, CountersOK, SlotsOwned, Holders, Owns, LivesOK, DispatchOK, bots, slots
<1>4. RoomOK'
  <2>1. \A c \in Bots : Len(queue[c]) <= QueueOf[c]
    BY <1>a DEF IInv, RoomOK, b
  <2> QED BY <2>1, <1>a DEF RoomOK, bots
<1>5. PassedOK'
  <2>1. passed'[b] = {} /\ \A c \in Bots \ {b} : passed'[c] = passed[c]
    BY <1>a, <1>b DEF IInv, TypeOK
  <2> QED BY <2>1, <1>b DEF IInv, PassedOK
<1> QED BY <1>1, <1>2, <1>3, <1>4, <1>5 DEF IInv

\* The head of the queue of the listed Bot is served.
LEMMA ServeInv == ASSUME IInv, Serve PROVE IInv'
<1>y. /\ lock = "dispatch" /\ More /\ Servable(Head(ready)) /\ Head(ready) \in Bots
  BY TurnFacts DEF Serve
<1>z. PICK b \in Bots : b = Head(ready)
  BY <1>y
<1>b. /\ b \in El(ready) /\ limiter[b] = "open" /\ running + 1 <= MaxTotal
      /\ Tail(ready) \in Seq(Bots) /\ Distinct(Tail(ready)) /\ El(Tail(ready)) = El(ready) \ {b}
      /\ \A y, z : Before(Tail(ready), y, z) => Before(ready, y, z)
      /\ \A c \in El(ready) : c # b => Before(ready, b, c)
      /\ running \in Nat /\ ~closed
  BY <1>y, <1>z, TurnFacts
<1>c. /\ queue[b] \in Seq(Requests) /\ queue[b] # <<>> /\ Distinct(queue[b]) /\ botRunning[b] < MaxOf[b]
      /\ botRunning[b] \in Nat /\ MaxOf[b] \in Nat
  BY <1>y, <1>z, SchedulerAssumption DEF Servable, IInv, TypeOK, QueueOK
<1>x. PICK r \in Requests : r = Head(queue[b])
  BY <1>c, Tailed
<1>d. /\ Tail(queue[b]) \in Seq(Requests) /\ Distinct(Tail(queue[b]))
      /\ El(Tail(queue[b])) = El(queue[b]) \ {r}
      /\ r \in El(queue[b]) /\ Len(queue[b]) \in Nat /\ Len(Tail(queue[b])) = Len(queue[b]) - 1
  BY <1>c, <1>x, Tailed
<1>a. /\ queue' = [queue EXCEPT ![b] = Tail(@)]
      /\ Drop(b, r) \/ Grant(b, r)
      /\ MarkReady(b, Tail(ready))
      /\ UNCHANGED <<limiter, lock, closed, pc, cancelled>> /\ lock = "dispatch"
  BY <1>x, <1>z DEF Serve
<1>e. /\ queue'[b] = Tail(queue[b]) /\ \A c \in Bots \ {b} : queue'[c] = queue[c]
      /\ queue' \in [Bots -> Seq(Requests)]
  BY <1>a, <1>b, <1>d DEF IInv, TypeOK
<1>f. /\ BotOf[r] = b /\ pc[r] = "waiting" /\ r \notin granted /\ err[r] = "none"
      /\ ~Owns(r) /\ r \notin Holders /\ r \notin active[b]
  BY <1>b, <1>d DEF IInv, QueueOK, CountersOK, SlotsOwned, Holders, Owns
<1>g. /\ ready' \in Seq(Bots) /\ Distinct(ready')
      /\ El(Tail(ready)) \subseteq El(ready') /\ El(ready') \subseteq El(Tail(ready)) \cup {b}
      /\ limiter'[b] = "open" /\ queue'[b] # <<>> /\ botRunning'[b] < MaxOf[b] => b \in El(ready')
      /\ \A y, z : Before(ready', y, z) => Before(Tail(ready), y, z) \/ z = b
  <2>1. PICK list \in Seq(Bots) : list = Tail(ready)
    BY <1>b
  <2>2. Distinct(list) /\ MarkReady(b, list)
    BY <2>1, <1>a, <1>b
  <2> QED BY <2>1, <2>2, Marked
<1>h. /\ botRunning' \in [Bots -> Nat] /\ running' \in Nat /\ running' <= MaxTotal
      /\ \A c \in Bots : c # b => botRunning'[c] = botRunning[c]
      /\ botRunning'[b] >= botRunning[b] /\ botRunning'[b] <= MaxOf[b]
      /\ active' \in [Bots -> SUBSET Requests] /\ stopped' \subseteq Requests /\ granted' \subseteq Requests
      /\ err' \in [Requests -> Errors] /\ \A q \in Requests \ {r} : err'[q] = err[q] /\ (q \in granted' <=> q \in granted)
      /\ r \in granted' => err'[r] = "none"
  <2>1. CASE Drop(b, r)
    BY <2>1, <1>b, <1>c, <1>d, <1>f DEF Drop, IInv, TypeOK, Errors, CountersOK
  <2>2. CASE Grant(b, r)
    <3>1. /\ botRunning' = [botRunning EXCEPT ![b] = @ + 1] /\ running' = running + 1
          /\ active' = [active EXCEPT ![b] = @ \cup {r}] /\ granted' = granted \cup {r}
          /\ UNCHANGED <<err, stopped>>
      BY <2>2 DEF Grant
    <3>2. /\ botRunning' \in [Bots -> Nat] /\ botRunning'[b] = botRunning[b] + 1
          /\ \A c \in Bots : c # b => botRunning'[c] = botRunning[c]
      BY <3>1, <1>b DEF IInv, TypeOK
    <3> QED BY <3>1, <3>2, <1>b, <1>c, <1>d, <1>f DEF IInv, TypeOK
  <2> QED BY <2>1, <2>2, <1>a
<1>i. /\ passed' \in [Bots -> SUBSET Bots] /\ passed'[b] = {}
      /\ \A c \in Bots \ {b} : /\ passed'[c] \subseteq passed[c] \cup {b}
                               /\ c \notin El(ready) => passed'[c] = passed[c]
  <2>1. CASE Drop(b, r)
    BY <2>1, <1>b DEF Drop, IInv, TypeOK
  <2>2. CASE Grant(b, r)
    BY <2>2, <1>b DEF Grant, IInv, TypeOK, Listed, El
  <2> QED BY <2>1, <2>2, <1>a
<1>1. TypeOK'
  BY <1>a, <1>e, <1>g, <1>h, <1>i DEF IInv, TypeOK
<1>2. CallersOK'
  BY <1>a, <1>f, <1>h DEF IInv, CallersOK
<1>3. QueueOK'
  <2>1. \A c \in Bots : El(queue[c]) \subseteq Requests
    BY DEF IInv, TypeOK, El
  <2>2. \A c \in Bots \ {b} : r \notin El(queue[c])
    BY <1>b, <1>f DEF IInv, QueueOK
  <2>3. El(queue'[b]) = El(queue[b]) \ {r} /\ Distinct(queue'[b])
    BY <1>d, <1>e
  <2>4. ASSUME NEW c \in Bots
        PROVE  /\ Distinct(queue'[c])
               /\ \A q \in El(queue'[c]) :
                    BotOf[q] = c /\ pc'[q] = "waiting" /\ q \notin granted' /\ err'[q] = "none"
               /\ limiter'[c] # "open" => queue'[c] = <<>>
    <3>0. UNCHANGED <<pc, limiter>>
      BY <1>a
    <3>1. CASE c = b
      BY <3>0, <3>1, <2>1, <2>3, <1>b, <1>h DEF IInv, QueueOK
    <3>2. CASE c # b
      <4>1. queue'[c] = queue[c]
        BY <3>2, <1>e
      <4>2. \A q \in El(queue[c]) : q \in Requests \ {r}
        BY <3>2, <2>1, <2>2
      <4>3. \A q \in El(queue[c]) : err'[q] = err[q] /\ (q \in granted' <=> q \in granted)
        BY <4>2, <1>h
      <4> QED BY <3>0, <4>1, <4>3 DEF IInv, QueueOK
    <3> QED BY <3>1, <3>2
  <2> QED BY <2>4 DEF QueueOK
<1>4. ReadyOK'
  <2>1. \A c \in Bots : c \in El(ready') => limiter'[c] = "open"
    BY <1>a, <1>b, <1>g DEF IInv, ReadyOK
  <2>2. \A c \in Bots \ {b} : Servable(c)' => c \in El(ready')
    BY <1>a, <1>b, <1>e, <1>g, <1>h DEF IInv, ReadyOK, Servable
  <2>3. Servable(b)' => b \in El(ready')
    BY <1>g DEF Servable
  <2> QED BY <2>1, <2>2, <2>3, <1>a, <1>b, <1>g DEF ReadyOK
<1>5. CountersOK'
  <2>1. CASE Drop(b, r)
    <3>1. UNCHANGED <<granted, active, botRunning, running, pc>>
      BY <2>1, <1>a DEF Drop
    <3> QED BY <3>1 DEF IInv, CountersOK, SlotsOwned, Holders, Owns
  <2>2. CASE Grant(b, r)
    <3>1. /\ botRunning' = [botRunning EXCEPT ![b] = @ + 1] /\ running' = running + 1
          /\ active' = [active EXCEPT ![b] = @ \cup {r}] /\ granted' = granted \cup {r}
      BY <2>2 DEF Grant
    <3>2. Owns(r)' /\ \A q \in Requests \ {r} : Owns(q)' <=> Owns(q)
      BY <3>1, <1>a, <1>f DEF Owns
    <3>3. Holders' = Holders \cup {r}
      BY <3>2, <1>d DEF Holders
    <3>4. active'[b] = active[b] \cup {r} /\ \A c \in Bots \ {b} : active'[c] = active[c]
      BY <3>1, <1>b DEF IInv, TypeOK
    <3>5. SlotsOwned'
      BY <3>2, <3>4, <1>d, <1>f DEF IInv, CountersOK, SlotsOwned
    <3>6. IsFiniteSet(Holders) /\ IsFiniteSet(active[b])
      BY <1>b, HoldersFinite DEF IInv
    <3>7. Cardinality(Holders \cup {r}) = Cardinality(Holders) + 1
      BY <3>6, <1>f, FS_AddElement
    <3>8. Cardinality(active[b] \cup {r}) = Cardinality(active[b]) + 1
      BY <3>6, <1>f, FS_AddElement
    <3>9. botRunning'[b] = botRunning[b] + 1 /\ \A c \in Bots \ {b} : botRunning'[c] = botRunning[c]
      BY <3>1, <1>b DEF IInv, TypeOK
    <3>10. running' = Cardinality(Holders') /\ running' <= MaxTotal
      BY <3>1, <3>3, <3>7, <1>b DEF IInv, CountersOK
    <3>11. \A c \in Bots : botRunning'[c] = Cardinality(active'[c]) /\ botRunning'[c] <= MaxOf[c]
      BY <3>4, <3>8, <3>9, <1>b, <1>h DEF IInv, CountersOK
    <3> QED BY <3>5, <3>10, <3>11 DEF CountersOK
  <2> QED BY <2>1, <2>2, <1>a
<1>6. LivesOK'
  BY <1>a, <1>b, <1>h DEF IInv, LivesOK
<1>7. DispatchOK'
  BY <1>a DEF DispatchOK
<1>8. RoomOK'
  <2>1. \A c \in Bots \ {b} : Len(queue'[c]) <= QueueOf[c]
    BY <1>e, <1>z DEF IInv, RoomOK
  <2>2. Len(queue[b]) <= QueueOf[b] \/ Len(queue[b]) = 1
    BY <1>b DEF IInv, RoomOK
  <2>3. PICK n \in Nat : n = Len(queue[b])
    BY <1>d
  <2>4. QueueOf[b] \in Nat /\ (n <= QueueOf[b] \/ n = 1)
    BY <2>2, <2>3, SchedulerAssumption
  <2>5. Len(queue'[b]) <= QueueOf[b]
    <3>1. Len(queue'[b]) = n - 1
      BY <2>3, <1>d, <1>e
    <3>2. n - 1 <= QueueOf[b]
      BY <2>4
    <3> QED BY <3>1, <3>2
  <2> QED BY <2>1, <2>5 DEF RoomOK
<1>9. PassedOK'
  <2>1. ASSUME NEW c \in Bots, NEW x \in passed'[c], Before(ready', x, c)
        PROVE  FALSE
    <3>1. c # b /\ Before(Tail(ready), x, c)
      BY <2>1, <1>g, <1>i
    <3>2. x \notin passed[c]
      BY <3>1, <1>b DEF IInv, PassedOK
    <3>3. x = b
      BY <3>1, <3>2, <2>1, <1>i
    <3>4. b \in El(Tail(ready))
      BY <3>1, <3>3 DEF Before, El
    <3> QED BY <3>4, <1>b
  <2>2. \A c \in Bots : c \notin El(ready') => passed'[c] = {}
    BY <1>b, <1>g, <1>i DEF IInv, PassedOK
  <2> QED BY <2>1, <2>2 DEF PassedOK
<1> QED BY <1>1, <1>2, <1>3, <1>4, <1>5, <1>6, <1>7, <1>8, <1>9 DEF IInv

-----------------------------------------------------------------------------
(***************************************************************************)
(* ForBot and Close                                                        *)
(***************************************************************************)

\* A fresh limiter for a Bot of which nothing waits or runs.
LEMMA ForBotInv == ASSUME IInv, NEW b \in Bots, ForBot(b) PROVE IInv'
<1>a. /\ Free /\ limiter[b] \in {"absent", "closed"}
      /\ limiter' = [limiter EXCEPT ![b] = IF closed THEN "closed" ELSE "open"]
      /\ UNCHANGED <<lock, closed, running, ready, botRunning, queue, active, slots, cancelled, passed>>
  BY DEF ForBot
<1>b. queue[b] = <<>> /\ b \notin El(ready) /\ botRunning[b] = 0
  BY <1>a DEF IInv, QueueOK, ReadyOK, LivesOK
<1>c. /\ limiter'[b] = (IF closed THEN "closed" ELSE "open")
      /\ \A c \in Bots \ {b} : limiter'[c] = limiter[c]
      /\ limiter' \in [Bots -> Lives]
  BY <1>a DEF IInv, TypeOK, Lives
<1>1. TypeOK' /\ CallersOK'
  BY <1>a, <1>c DEF IInv, TypeOK, CallersOK, slots
<1>2. QueueOK'
  BY <1>a, <1>b, <1>c DEF IInv, QueueOK, slots
<1>3. ReadyOK'
  BY <1>a, <1>b, <1>c DEF IInv, ReadyOK, Servable
<1>4. CountersOK' /\ DispatchOK' /\ PassedOK'
  BY <1>a DEF IInv, CountersOK, SlotsOwned, Holders, Owns, DispatchOK, PassedOK, slots
<1>5. LivesOK'
  BY <1>a, <1>b, <1>c DEF IInv, LivesOK
<1>6. RoomOK'
  BY <1>a, FreeFacts DEF RoomOK
<1> QED BY <1>1, <1>2, <1>3, <1>4, <1>5, <1>6 DEF IInv

\* Close of a set of limiters, of which no Bot remains listed.
LEMMA CloseStep ==
  ASSUME IInv, Free, ~closed, NEW C \in SUBSET Bots, \A c \in C : limiter[c] = "open", CloseAll(C),
         ready' \in Seq(Bots), Distinct(ready'), El(ready') = El(ready) \ C,
         \A y, z : Before(ready', y, z) => Before(ready, y, z),
         \/ lock' = "dispatch" /\ closed' = closed
         \/ lock' = lock /\ closed' = TRUE /\ C = {c \in Bots : limiter[c] = "open"}
  PROVE  IInv'
<1> DEFINE queued == UNION {Queued(b) : b \in C}
<1>a. /\ limiter' = [c \in Bots |-> IF c \notin C THEN limiter[c]
                                    ELSE IF botRunning[c] = 0 THEN "closed" ELSE "closing"]
      /\ err' = [r \in Requests |-> IF r \in queued THEN "closed" ELSE err[r]]
      /\ stopped' = stopped \cup queued \cup UNION {active[c] : c \in C}
      /\ queue' = [c \in Bots |-> IF c \in C THEN <<>> ELSE queue[c]]
      /\ passed' = [c \in Bots |-> IF c \in C THEN {} ELSE passed[c]]
      /\ UNCHANGED <<running, botRunning, active, pc, granted, cancelled>>
  BY DEF CloseAll
<1>b. \A r : r \in queued <=> \E c \in C : r \in El(queue[c])
  BY DEF Queued, El
<1> HIDE DEF queued
<1>c. \A c \in Bots : El(queue[c]) \subseteq Requests
  BY DEF IInv, TypeOK, El
<1>d. \A r \in queued : r \in Requests /\ BotOf[r] \in C /\ r \notin granted /\ pc[r] = "waiting"
  BY <1>b, <1>c DEF IInv, QueueOK
<1>1. TypeOK'
  <2>1. err' \in [Requests -> Errors]
    BY <1>a DEF IInv, TypeOK, Errors
  <2>2. limiter' \in [Bots -> Lives]
    BY <1>a DEF IInv, TypeOK, Lives
  <2>3. queue' \in [Bots -> Seq(Requests)]
    <3>1. <<>> \in Seq(Requests)
      OBVIOUS
    <3> QED BY <3>1, <1>a DEF IInv, TypeOK
  <2>4. stopped' \subseteq Requests
    <3>1. \A c \in C : active[c] \subseteq Requests
      BY DEF IInv, TypeOK
    <3> QED BY <3>1, <1>a, <1>d DEF IInv, TypeOK
  <2>5. lock' \in {"free", "dispatch"} /\ closed' \in BOOLEAN
    BY DEF IInv, TypeOK
  <2> QED BY <2>1, <2>2, <2>3, <2>4, <2>5, <1>a DEF IInv, TypeOK
<1>2. CallersOK'
  BY <1>a, <1>d DEF IInv, CallersOK
<1>3. QueueOK'
  <2>1. ASSUME NEW c \in Bots
        PROVE  /\ Distinct(queue'[c])
               /\ \A r \in El(queue'[c]) :
                    BotOf[r] = c /\ pc'[r] = "waiting" /\ r \notin granted' /\ err'[r] = "none"
               /\ limiter'[c] # "open" => queue'[c] = <<>>
    <3>1. CASE c \in C
      BY <3>1, <1>a DEF Distinct, El
    <3>2. CASE c \notin C
      <4>1. \A r \in El(queue[c]) : r \notin queued
        BY <3>2, <1>d DEF IInv, QueueOK
      <4> QED BY <3>2, <4>1, <1>a, <1>c DEF IInv, QueueOK
    <3> QED BY <3>1, <3>2
  <2> QED BY <2>1 DEF QueueOK
<1>4. ReadyOK'
  BY <1>a DEF IInv, ReadyOK, Servable
<1>5. CountersOK'
  BY <1>a DEF IInv, CountersOK, SlotsOwned, Holders, Owns
<1>6. LivesOK'
  <2>1. \A c \in Bots : botRunning[c] \in Nat
    BY DEF IInv, TypeOK
  <2> QED BY <2>1, <1>a DEF IInv, LivesOK
<1>7. DispatchOK'
  BY DEF DispatchOK
<1>8. RoomOK'
  <2>1. \A c \in Bots : Len(queue'[c]) <= QueueOf[c]
    <3>1. Len(<<>>) = 0
      OBVIOUS
    <3> QED BY <3>1, <1>a, FreeFacts
  <2> QED BY <2>1 DEF RoomOK
<1>9. PassedOK'
  BY <1>a DEF IInv, PassedOK
<1> QED BY <1>1, <1>2, <1>3, <1>4, <1>5, <1>6, <1>7, <1>8, <1>9 DEF IInv

\* Close of a Bot's limiter, and of the scheduler.
LEMMA CloseInv == ASSUME IInv, (\E b \in Bots : Close(b)) \/ CloseScheduler PROVE IInv'
<1>1. ASSUME NEW b \in Bots, Close(b) PROVE IInv'
  <2>1. /\ Free /\ limiter[b] = "open" /\ CloseAll({b}) /\ ready' = Without(ready, b)
        /\ lock' = "dispatch" /\ closed' = closed /\ ~closed
    BY <1>1 DEF Close, IInv, ReadyOK
  <2>2. /\ ready' \in Seq(Bots) /\ Distinct(ready') /\ El(ready') = El(ready) \ {b}
        /\ \A y, z : Before(ready', y, z) => Before(ready, y, z)
    BY <2>1, FreeFacts, Removed
  <2> QED BY <2>1, <2>2, CloseStep
<1>2. CASE CloseScheduler
  <2> DEFINE C == {b \in Bots : limiter[b] = "open"}
  <2>1. /\ Free /\ ~closed /\ CloseAll(C) /\ ready' = <<>> /\ closed' = TRUE /\ lock' = lock
    BY <1>2 DEF CloseScheduler
  <2>2. El(ready) \subseteq C
    <3>1. El(ready) \subseteq Bots
      BY DEF IInv, TypeOK, El
    <3> QED BY <3>1 DEF IInv, ReadyOK
  <2>3. ready' \in Seq(Bots) /\ Distinct(ready') /\ El(ready') = {}
    BY <2>1 DEF Distinct, El
  <2>4. \A y, z : ~Before(ready', y, z)
    BY <2>1 DEF Before
  <2> QED BY <2>1, <2>2, <2>3, <2>4, CloseStep
<1> QED BY <1>1, <1>2

-----------------------------------------------------------------------------
(***************************************************************************)
(* Theorems                                                                *)
(***************************************************************************)

\* Every step of the scheduler and of its callers keeps the invariant.
LEMMA StepInv == ASSUME IInv, [Next]_vars PROVE IInv'
<1>1. CASE Loop
  BY <1>1, ServeInv, SkipInv, QuietInv DEF Loop
<1>2. ASSUME NEW r \in Requests, Arrive(r) \/ Caller(r) \/ Again(r) \/ Cancel(r) PROVE IInv'
  BY <1>2, CallerInv, EnqueueInv, AbandonInv, ReleaseInv, QuietInv DEF Caller
<1>3. CASE \E b \in Bots : ForBot(b) \/ Close(b)
  BY <1>3, ForBotInv, CloseInv
<1>4. CASE CloseScheduler \/ UNCHANGED vars
  BY <1>4, CloseInv, QuietInv
<1> QED BY <1>1, <1>2, <1>3, <1>4 DEF Next

\* IInv is an invariant of the scheduler.
THEOREM Invariance == Spec => []IInv
BY InitInv, StepInv, PTL DEF Spec

\* Every variable keeps its type.
THEOREM Typing == Spec => []TypeOK
BY Invariance, PTL DEF IInv

\* Every slot that counts belongs to a caller that will give it back.
THEOREM NoLeak == Spec => []SlotsOwned
<1>1. IInv => SlotsOwned
  BY DEF IInv, CountersOK
<1> QED BY <1>1, Invariance, PTL

\* The counters of running executions are right and within both budgets.
THEOREM Budgets == Spec => []WithinBudgets
<1>1. IInv => WithinBudgets
  BY DEF IInv, CountersOK, WithinBudgets, Holders
<1> QED BY <1>1, Invariance, PTL

\* No request waits beside a slot it could have.
THEOREM NoIdleSlot == Spec => []WorkConserving
<1>1. IInv => WorkConserving
  <2> SUFFICES ASSUME IInv, lock = "free", ~closed, running < MaxTotal,
                      NEW b \in Bots, limiter[b] = "open", queue[b] # <<>>
               PROVE  botRunning[b] = MaxOf[b]
    BY DEF WorkConserving
  <2>1. running \in Nat /\ MaxTotal \in Nat /\ botRunning[b] \in Nat /\ MaxOf[b] \in Nat
    BY SchedulerAssumption DEF IInv, TypeOK
  <2>2. ready = <<>>
    BY <2>1 DEF IInv, DispatchOK
  <2>3. b \notin El(ready)
    BY <2>2 DEF El
  <2>4. ~Servable(b)
    BY <2>3 DEF IInv, ReadyOK
  <2> QED BY <2>1, <2>4 DEF Servable, IInv, CountersOK
<1> QED BY <1>1, Invariance, PTL

\* At most maxQueued requests of a Bot wait.
THEOREM BoundedQueues == Spec => []QueueBounded
<1>1. IInv => QueueBounded
  BY DEF IInv, RoomOK, QueueBounded
<1> QED BY <1>1, Invariance, PTL

\* A closed limiter has no waiting request, a drained one no slot.
THEOREM CloseDrains == Spec => []ClosedIsDrained
<1>1. IInv => ClosedIsDrained
  <2> SUFFICES ASSUME IInv, NEW b \in Bots
               PROVE  /\ limiter[b] \in {"closing", "closed"} => queue[b] = <<>> /\ ~Listed(b)
                      /\ limiter[b] = "closing" => botRunning[b] > 0
                      /\ limiter[b] = "closed" => active[b] = {}
    BY DEF ClosedIsDrained
  <2>1. limiter[b] \in {"closing", "closed"} => queue[b] = <<>> /\ ~Listed(b)
    BY DEF IInv, QueueOK, ReadyOK, Listed, El
  <2>2. limiter[b] = "closed" => active[b] = {}
    <3>1. IsFiniteSet(active[b])
      BY HoldersFinite DEF IInv
    <3>2. Cardinality(active[b]) = 0 <=> active[b] = {}
      BY <3>1, FS_EmptySet
    <3> QED BY <3>2 DEF IInv, CountersOK, LivesOK
  <2> QED BY <2>1, <2>2 DEF IInv, LivesOK
<1> QED BY <1>1, Invariance, PTL

\* A listed Bot is passed by every other at most once before it is served.
THEOREM FairRounds == Spec => RoundRobin
<1>1. ASSUME IInv, [Next]_vars,
             NEW b \in Bots, NEW c \in Bots, b # c, active'[b] \ active[b] # {}, Listed(c)
      PROVE  b \notin passed[c]
  <2>1. CASE Serve
    <3> DEFINE h == Head(ready)
    <3>1. h \in Bots /\ \A d \in El(ready) : d # h => Before(ready, h, d)
      BY <2>1, <1>1, TurnFacts DEF Serve
    <3>2. b = h
      <4>1. active' = active \/ active' = [active EXCEPT ![h] = @ \cup {Head(queue[h])}]
        BY <2>1 DEF Serve, Drop, Grant
      <4> HIDE DEF h
      <4> QED BY <4>1, <3>1, <1>1 DEF IInv, TypeOK
    <3>3. Before(ready, b, c)
      BY <3>1, <3>2, <1>1 DEF Listed, El
    <3> QED BY <3>3, <1>1 DEF IInv, PassedOK
  <2>2. CASE ~Serve
    <3>1. \A d \in Bots : active'[d] \subseteq active[d]
      <4>1. CASE \E r \in Requests : Release(r)
        BY <4>1, SchedulerAssumption, <1>1 DEF Release, IInv, TypeOK
      <4>2. CASE ~\E r \in Requests : Release(r)
        BY <2>2, <4>2, <1>1 DEF Next, Loop, Skip, Unlock, Arrive, Caller, Refuse, Enqueue, Abandon,
           Answer, Again, Cancel, ForBot, Close, CloseScheduler, CloseAll, bots, vars
      <4> QED BY <4>1, <4>2
    <3> QED BY <3>1, <1>1
  <2> QED BY <2>1, <2>2
<1>2. IInv /\ [Next]_vars =>
        [\A b, c \in Bots : b # c /\ active'[b] \ active[b] # {} /\ Listed(c) => b \notin passed[c]]_vars
  BY <1>1
<1> QED BY <1>2, Invariance, PTL DEF Spec, RoundRobin

\* Slots and queues keep within the limits of each Bot and of the daemon.
THEOREM Limits == Spec => []LimitsHold
<1>1. WithinBudgets /\ QueueBounded => LimitsHold
  BY DEF LimitsHold
<1> QED BY <1>1, Budgets, BoundedQueues, PTL

\* No request waits for nothing: dispatch serves what may run (scheduler.go 159-183),
\* and Close answers what waits (198-224).
THEOREM Waits == Spec => []NoVainWait
<1>1. WorkConserving /\ ClosedIsDrained => NoVainWait
  BY DEF NoVainWait
<1> QED BY <1>1, NoIdleSlot, CloseDrains, PTL

(***************************************************************************)
(* The delivery that a slot is held for (Adapter).                         *)
(*                                                                          *)
(* The stream lags behind the Harness by the events that nobody has read.   *)
(* Coupled says that both agree; Follow, that the Harness had such a state  *)
(* from which it came to its present one by writing just these events; Row, *)
(* what that leaves of a delivery at each of its places.  Sessions are      *)
(* apart because each is named after the delivery that began it (Continued, *)
(* Stored) and stored by one that finished in it (Finished).                *)
(***************************************************************************)

\* What is said is numbered chunks.
Text == Seq(Nat)
Sessions == Deliveries \cup {NoSession}
Stops == {"none", "stop", "toolUse", "error"}
Natives == {"codex", "opencode", "pi", "omp", "openclaw"}

Events ==
  [type : {"session", "begin", "message_start", "delta", "message_end", "text", "end", "error",
           "garbage", "flood"},
   session : Sessions, message : Nat, item : 0 .. MaxItems, text : Text, final : BOOLEAN,
   role : {"assistant", "tool"}, stop : Stops, again : BOOLEAN]

Streams ==
  [live : BOOLEAN, out : Text, pending : Text, published : BOOLEAN, reply : Text,
   session : Sessions, message : Nat, completed : BOOLEAN, items : [1 .. MaxItems -> Text],
   document : Seq(Events), expected : Sessions, role : {"none", "assistant", "tool"},
   deltas : BOOLEAN, terminal : BOOLEAN, stop : Stops,
   fault : {"none", "native_schema", "emit_failed", "native_failed", "event_limit"}]

(***************************************************************************)
(* The text of a stream: what was published or kept for the result (Told),  *)
(* and with it what still waits (Held).                                     *)
(***************************************************************************)

Formed(s) ==
  /\ s \in Streams
  /\ s.live => s.reply = <<>>
  /\ ~s.live => s.out = <<>> /\ s.pending = <<>>

Held(s) == IF s.live THEN s.out \o s.pending ELSE s.reply
Told(s) == s.out \o s.reply

\* t is s but for its text and a fault.
Alike(s, t) ==
  /\ t.live = s.live /\ t.session = s.session /\ t.message = s.message
  /\ t.completed = s.completed /\ t.items = s.items /\ t.document = s.document
  /\ t.expected = s.expected /\ t.role = s.role /\ t.deltas = s.deltas
  /\ t.terminal = s.terminal /\ t.stop = s.stop

\* A step of the stream that concerns its text only.
Moves(s, t) == Formed(t) /\ Alike(s, t) /\ (Sound(t) => Sound(s))

\* A sequence is a prefix of itself.
LEMMA PrefixOfSame == ASSUME NEW S, NEW s \in Seq(S) PROVE IsPrefix(s, s)
  BY DEF IsPrefix

\* A sequence is a prefix of any that continues it.
LEMMA PrefixOfMore == ASSUME NEW S, NEW s \in Seq(S), NEW t \in Seq(S) PROVE IsPrefix(s, s \o t)
<1>1. Len(s \o t) = Len(s) + Len(t) /\ s \o t \in Seq(S) /\ Len(s) \in Nat /\ Len(t) \in Nat
  BY ConcatProperties, LenProperties
<1>2. SubSeq(s \o t, 1, Len(s)) = SubSeq(s, 1, Len(s))
  <2>1. CASE s = <<>>
    BY <2>1, <1>1, SubSeqEmpty
  <2>2. CASE s # <<>>
    <3>1. 1 \in 1 .. Len(s) /\ Len(s) \in 1 .. Len(s)
      BY <2>2, EmptySeq
    <3> QED BY <3>1, SubSeqOfConcat1
  <2> QED BY <2>1, <2>2
<1> QED BY <1>1, <1>2 DEF IsPrefix

\* A prefix and what it leaves make the whole.
LEMMA PrefixSplits ==
  ASSUME NEW S, NEW s \in Seq(S), NEW t \in Seq(S), IsPrefix(s, t)
  PROVE  /\ SubSeq(t, Len(s) + 1, Len(t)) \in Seq(S)
         /\ t = s \o SubSeq(t, Len(s) + 1, Len(t))
<1>1. Len(s) \in Nat /\ Len(t) \in Nat /\ Len(s) <= Len(t)
  BY LenProperties DEF IsPrefix
<1>2. SubSeq(t, Len(s) + 1, Len(t)) \in Seq(S)
  <2>1. \A i \in (Len(s) + 1) .. Len(t) : t[i] \in S
    BY <1>1, ElementOfSeq
  <2> QED BY <1>1, <2>1, SubSeqProperties
<1>3. SubSeq(t, 1, Len(s)) \o SubSeq(t, Len(s) + 1, Len(t)) = SubSeq(t, 1, Len(t))
  <2>1. 1 \in 1 .. Len(t) + 1 /\ Len(s) \in (1 - 1) .. Len(t) /\ Len(t) \in Len(s) .. Len(t)
    BY <1>1
  <2> QED BY <2>1, ConcatAdjacentSubSeq
<1>4. SubSeq(t, 1, Len(s)) = s /\ SubSeq(t, 1, Len(t)) = t
  BY SubSeqFull DEF IsPrefix
<1> QED BY <1>2, <1>3, <1>4

\* A prefix of a prefix is a prefix.
LEMMA PrefixOfPrefix ==
  ASSUME NEW S, NEW s \in Seq(S), NEW t \in Seq(S), NEW u \in Seq(S),
         IsPrefix(s, t), IsPrefix(t, u)
  PROVE  IsPrefix(s, u)
<1>1. PICK v : v \in Seq(S) /\ t = s \o v
  <2>1. SubSeq(t, Len(s) + 1, Len(t)) \in Seq(S) /\ t = s \o SubSeq(t, Len(s) + 1, Len(t))
    BY PrefixSplits
  <2> QED BY <2>1
<1>2. PICK w : w \in Seq(S) /\ u = t \o w
  <2>1. SubSeq(u, Len(t) + 1, Len(u)) \in Seq(S) /\ u = t \o SubSeq(u, Len(t) + 1, Len(u))
    BY PrefixSplits
  <2> QED BY <2>1
<1>3. u = s \o (v \o w) /\ v \o w \in Seq(S)
  BY <1>1, <1>2, ConcatAssociative, ConcatProperties
<1> QED BY <1>3, PrefixOfMore

\* A sequence is what stands before a place and what stands after it.
LEMMA SplitAt ==
  ASSUME NEW S, NEW s \in Seq(S), NEW n \in 0 .. Len(s)
  PROVE  /\ SubSeq(s, 1, n) \in Seq(S) /\ SubSeq(s, n + 1, Len(s)) \in Seq(S)
         /\ SubSeq(s, 1, n) \o SubSeq(s, n + 1, Len(s)) = s
<1>1. Len(s) \in Nat
  BY LenProperties
<1>2. \A i \in 1 .. Len(s) : s[i] \in S
  BY ElementOfSeq
<1>3. SubSeq(s, 1, n) \in Seq(S) /\ SubSeq(s, n + 1, Len(s)) \in Seq(S)
  <2>1. \A i \in 1 .. n : s[i] \in S
    BY <1>1, <1>2
  <2>2. \A i \in (n + 1) .. Len(s) : s[i] \in S
    BY <1>1, <1>2
  <2> QED BY <1>1, <2>1, <2>2, SubSeqProperties
<1>4. SubSeq(s, 1, n) \o SubSeq(s, n + 1, Len(s)) = SubSeq(s, 1, Len(s))
  <2>1. 1 \in 1 .. Len(s) + 1 /\ n \in (1 - 1) .. Len(s) /\ Len(s) \in n .. Len(s)
    BY <1>1
  <2> QED BY <2>1, ConcatAdjacentSubSeq
<1> QED BY <1>3, <1>4, SubSeqFull

\* What is said more does not depend on how it is cut into pieces.
LEMMA TextJoins ==
  /\ \A s, t \in Text : s \o t \in Text /\ IsPrefix(s, s \o t)
  /\ \A s, t, u \in Text : (s \o t) \o u = s \o (t \o u)
  /\ \A s \in Text : s \o <<>> = s /\ <<>> \o s = s
  /\ <<>> \in Text
<1>1. \A s, t \in Text : s \o t \in Text /\ IsPrefix(s, s \o t)
  BY ConcatProperties, PrefixOfMore DEF Text
<1>2. \A s, t, u \in Text : (s \o t) \o u = s \o (t \o u)
  BY ConcatAssociative DEF Text
<1>3. \A s \in Text : s \o <<>> = s /\ <<>> \o s = s
  BY ConcatEmptySeq DEF Text
<1>4. <<>> \in Text
  BY EmptySeq DEF Text
<1> QED BY <1>1, <1>2, <1>3, <1>4

\* What the requester has got is what was read, up to what still waits.
LEMMA ToldIsHeld ==
  ASSUME NEW s, Formed(s)
  PROVE  /\ Held(s) \in Text /\ Told(s) \in Text /\ IsPrefix(Told(s), Held(s))
         /\ s.pending = <<>> => Told(s) = Held(s)
<1>1. s.out \in Text /\ s.pending \in Text /\ s.reply \in Text
  BY DEF Formed, Streams
<1>2. CASE s.live
  <2>1. Told(s) = s.out /\ Held(s) = s.out \o s.pending
    BY <1>1, <1>2, TextJoins DEF Told, Held, Formed
  <2>2. s.out \in Text /\ s.out \o s.pending \in Text /\ IsPrefix(s.out, s.out \o s.pending)
    BY <1>1, TextJoins
  <2>3. s.pending = <<>> => s.out \o s.pending = s.out
    BY <1>1, TextJoins
  <2> QED BY <2>1, <2>2, <2>3
<1>3. CASE ~s.live
  <2>1. Told(s) = s.reply /\ Held(s) = s.reply
    BY <1>1, <1>3, TextJoins DEF Told, Held, Formed
  <2> QED BY <1>1, <2>1, PrefixOfSame DEF Text
<1> QED BY <1>2, <1>3

\* A fault takes nothing back.
LEMMA FaultMoves ==
  ASSUME NEW s, Formed(s),
         NEW code \in {"native_schema", "emit_failed", "native_failed", "event_limit"}
  PROVE  /\ Moves(s, Fault(s, code)) /\ Held(Fault(s, code)) = Held(s)
         /\ ~Sound(Fault(s, code))
<1>1. PICK t : t = [s EXCEPT !.fault = code]
  OBVIOUS
<1>2. t \in Streams /\ t.fault = code /\ Alike(s, t)
      /\ t.out = s.out /\ t.pending = s.pending /\ t.reply = s.reply
  BY <1>1 DEF Formed, Streams, Alike
<1> QED BY <1>1, <1>2 DEF Fault, Moves, Formed, Held, Sound, Alike

\* What goes out no longer waits.
LEMMA PublishMoves ==
  ASSUME NEW s, Formed(s), NEW n \in 0 .. Len(s.pending), NEW ok
  PROVE  LET t == Publish(s, n, ok)
         IN  /\ Moves(s, t) /\ Held(t) = Held(s)
             /\ Sound(t) => t.pending = SubSeq(s.pending, n + 1, Len(s.pending))
<1>1. s \in Streams /\ s.out \in Text /\ s.pending \in Text
  BY DEF Formed, Streams
<1>2. CASE n = 0
  <2>1. SubSeq(s.pending, 0 + 1, Len(s.pending)) = s.pending
    BY <1>1, SubSeqFull DEF Text
  <2> QED BY <1>2, <2>1 DEF Publish, Moves, Alike
<1>3. CASE n # 0 /\ ~ok
  BY <1>3, FaultMoves DEF Publish
<1>4. CASE n # 0 /\ ok
  <2> DEFINE front == SubSeq(s.pending, 1, n)
             rest == SubSeq(s.pending, n + 1, Len(s.pending))
  <2>1. front \in Text /\ rest \in Text /\ front \o rest = s.pending
    BY <1>1, SplitAt DEF Text
  <2> HIDE DEF front, rest
  <2>2. PICK t : t = [s EXCEPT !.out = s.out \o front, !.published = TRUE, !.pending = rest]
    OBVIOUS
  <2>3. t = Publish(s, n, ok)
    BY <1>4, <2>2 DEF Publish, front, rest
  <2>4. s.out \o front \in Text
    BY <1>1, <2>1, ConcatProperties DEF Text
  <2>5. t \in Streams /\ t.out = s.out \o front /\ t.pending = rest /\ t.fault = s.fault
        /\ Alike(s, t) /\ t.reply = s.reply
    BY <1>1, <2>1, <2>2, <2>4 DEF Streams, Alike
  <2>6. s.live
    <3>1. Len(s.pending) # 0
      BY <1>1, <1>4, LenProperties DEF Text
    <3> QED BY <3>1 DEF Formed
  <2>7. (s.out \o front) \o rest = s.out \o s.pending
    <3>1. (s.out \o front) \o rest = s.out \o (front \o rest)
      BY <1>1, <2>1, TextJoins
    <3> QED BY <2>1, <3>1
  <2>8. Held(t) = Held(s)
    BY <2>5, <2>6, <2>7 DEF Held, Alike
  <2>9. Moves(s, t)
    BY <2>5, <2>6 DEF Moves, Formed, Alike, Sound
  <2> QED BY <2>3, <2>5, <2>8, <2>9 DEF rest
<1> QED BY <1>2, <1>3, <1>4

\* Flush leaves nothing waiting.
LEMMA FlushMoves ==
  ASSUME NEW s, Formed(s), NEW ok
  PROVE  LET t == Flush(s, ok)
         IN  Moves(s, t) /\ Held(t) = Held(s) /\ (Sound(t) => Told(t) = Held(t))
<1>1. s.pending \in Seq(Nat) /\ Len(s.pending) \in Nat
  BY LenProperties DEF Formed, Streams, Text
<1>2. Len(s.pending) \in 0 .. Len(s.pending)
  BY <1>1
<1>3. SubSeq(s.pending, Len(s.pending) + 1, Len(s.pending)) = <<>>
  BY <1>1, SubSeqEmpty
<1>4. PICK t : t = Publish(s, Len(s.pending), ok)
  OBVIOUS
<1>5. Moves(s, t) /\ Held(t) = Held(s) /\ (Sound(t) => t.pending = <<>>)
  BY <1>2, <1>3, <1>4, PublishMoves
<1>6. Sound(t) => Told(t) = Held(t)
  BY <1>5, ToldIsHeld DEF Moves
<1> QED BY <1>4, <1>5, <1>6 DEF Flush

\* Whole batches are no more than what waits.
LEMMA BatchesFit ==
  ASSUME NEW n \in Nat, NEW c \in Nat \ {0}
  PROVE  (n \div c) * c \in 0 .. n
<1>1. n \div c \in Nat /\ n % c \in Nat /\ n = c * (n \div c) + (n % c)
  OBVIOUS
<1> QED BY <1>1

\* Text that is added is held, whatever part of it goes out (answerEmitter.add).
LEMMA AddMoves ==
  ASSUME NEW s, Formed(s), s.live, NEW text \in Text, NEW ok
  PROVE  LET t == Add(s, text, ok)
         IN  Moves(s, t) /\ Held(t) = Held(s) \o text
<1>1. s \in Streams /\ s.out \in Text /\ s.pending \in Text
  BY DEF Formed, Streams
<1>2. s.pending \o text \in Text
  BY <1>1, TextJoins
<1>3. PICK r : r = [s EXCEPT !.pending = s.pending \o text]
  OBVIOUS
<1>4. /\ Formed(r) /\ r.pending = s.pending \o text /\ r.out = s.out
      /\ Alike(s, r) /\ r.fault = s.fault
  BY <1>1, <1>2, <1>3 DEF Formed, Streams, Alike
<1>5. Held(r) = Held(s) \o text
  <2>1. s.out \o (s.pending \o text) = (s.out \o s.pending) \o text
    BY <1>1, TextJoins
  <2> QED BY <1>4, <2>1 DEF Held, Alike
<1>6. PICK n \in 0 .. Len(r.pending) : Add(s, text, ok) = Publish(r, n, ok)
  <2>1. Len(r.pending) \in Nat
    BY <1>2, <1>4, LenProperties DEF Text
  <2>2. DeltaCap \in Nat \ {0}
    BY DeltaCapPositive
  <2>3. PICK b : b = (Len(r.pending) \div DeltaCap) * DeltaCap
    OBVIOUS
  <2>4. b \in 0 .. Len(r.pending)
    BY <2>1, <2>2, <2>3, BatchesFit
  <2>5. PICK f : f = IF r.published THEN 0 ELSE Least(DeltaCap, Len(r.pending))
    OBVIOUS
  <2>6. f \in 0 .. Len(r.pending)
    BY <2>1, <2>2, <2>5 DEF Least
  <2>7. Add(s, text, ok) = Publish(r, IF f > b THEN f ELSE b, ok)
    BY <1>3, <2>3, <2>5 DEF Add
  <2> QED BY <2>4, <2>6, <2>7
<1>7. PICK t : t = Publish(r, n, ok)
  OBVIOUS
<1>8. Moves(r, t) /\ Held(t) = Held(r)
  BY <1>4, <1>7, PublishMoves
<1>9. Moves(s, t)
  BY <1>4, <1>8 DEF Moves, Alike, Sound
<1> QED BY <1>5, <1>6, <1>7, <1>8, <1>9

\* Text that answers is held after what was held, unless the stream fails.
LEMMA AnswerMoves ==
  ASSUME NEW s, Formed(s), NEW text \in Text, NEW ok
  PROVE  LET t == AnswerText(s, text, ok)
         IN  /\ Moves(s, t) /\ IsPrefix(Held(t), Held(s) \o text)
             /\ Sound(t) => Held(t) = Held(s) \o text /\ ~s.completed
<1>1. Held(s) \in Text /\ Held(s) \o text \in Text /\ IsPrefix(Held(s), Held(s) \o text)
      /\ IsPrefix(Held(s) \o text, Held(s) \o text)
  BY ToldIsHeld, TextJoins, PrefixOfSame DEF Text
<1>2. CASE s.completed
  BY <1>1, <1>2, FaultMoves DEF AnswerText, Malformed
<1>3. CASE ~s.completed /\ s.live
  BY <1>1, <1>3, AddMoves DEF AnswerText
<1>4. CASE ~s.completed /\ ~s.live
  <2>1. s \in Streams /\ s.reply \in Text /\ Held(s) = s.reply
    BY <1>4 DEF Formed, Streams, Held
  <2>2. s.reply \o text \in Text
    BY <2>1, TextJoins
  <2>3. PICK t : t = [s EXCEPT !.reply = s.reply \o text]
    OBVIOUS
  <2>4. Formed(t) /\ Alike(s, t) /\ t.fault = s.fault /\ t.reply = s.reply \o text
    BY <1>4, <2>1, <2>2, <2>3 DEF Formed, Streams, Alike
  <2>5. Held(t) = Held(s) \o text
    BY <1>4, <2>1, <2>4 DEF Held, Alike
  <2>6. Moves(s, t)
    BY <2>4 DEF Moves, Sound
  <2>7. t = AnswerText(s, text, ok)
    BY <1>4, <2>3 DEF AnswerText
  <2> QED BY <1>1, <1>4, <2>5, <2>6, <2>7
<1> QED BY <1>2, <1>3, <1>4

\* A stream fails with all it held.
LEMMA FailMoves ==
  ASSUME NEW s, Formed(s), NEW ok
  PROVE  LET t == FailNative(s, ok)
         IN  Formed(t) /\ Held(t) = Held(s) /\ ~Sound(t)
<1>1. PICK r : r = Flush(s, ok)
  OBVIOUS
<1>2. Moves(s, r) /\ Held(r) = Held(s)
  BY <1>1, FlushMoves
<1>3. CASE Sound(r)
  BY <1>1, <1>2, <1>3, FaultMoves DEF FailNative, Moves
<1>4. CASE ~Sound(r)
  BY <1>1, <1>2, <1>4 DEF FailNative, Moves
<1> QED BY <1>3, <1>4

\* An event that is refused takes nothing back.
LEMMA MalformedMoves ==
  ASSUME NEW s, Formed(s)
  PROVE  LET t == Malformed(s)
         IN  Formed(t) /\ Held(t) = Held(s) /\ ~Sound(t)
  BY FaultMoves DEF Malformed, Moves

\* t is s in all but the session.
LEMMA SessionMoves ==
  ASSUME NEW s, Formed(s), NEW id \in Sessions
  PROVE  LET t == SetSession(s, id)
         IN  /\ Formed(t) /\ Held(t) = Held(s)
             /\ Sound(t) => /\ Sound(s) /\ (s.session \in {NoSession, id} \/ id = NoSession)
                            /\ t = [s EXCEPT !.session = IF id = NoSession THEN s.session ELSE id]
<1>1. s \in Streams
  BY DEF Formed
<1>2. CASE id = NoSession
  <2>1. s = [s EXCEPT !.session = s.session]
    BY <1>1 DEF Streams
  <2> QED BY <1>2, <2>1 DEF SetSession
<1>3. CASE id # NoSession /\ s.session \notin {NoSession, id}
  BY <1>3, MalformedMoves DEF SetSession
<1>4. CASE id # NoSession /\ s.session \in {NoSession, id}
  <2>1. PICK t : t = [s EXCEPT !.session = id]
    OBVIOUS
  <2>2. Formed(t) /\ Held(t) = Held(s) /\ t.fault = s.fault
    BY <1>1, <2>1 DEF Formed, Streams, Held
  <2>3. t = SetSession(s, id)
    BY <1>4, <2>1 DEF SetSession
  <2> QED BY <1>4, <2>1, <2>2, <2>3 DEF Sound
<1> QED BY <1>2, <1>3, <1>4

\* A stream that completes keeps its text.
LEMMA CompleteMoves ==
  ASSUME NEW s, Formed(s), NEW ok
  PROVE  LET t == Complete(s, ok)
         IN  /\ Formed(t) /\ Held(t) = Held(s) /\ (Sound(t) => Sound(s)) /\ t.completed
             /\ t.session = s.session /\ t.items = s.items /\ t.role = s.role
             /\ t.deltas = s.deltas /\ t.terminal = s.terminal /\ t.stop = s.stop
<1>1. PICK r : r = [s EXCEPT !.completed = TRUE]
  OBVIOUS
<1>2. /\ Formed(r) /\ Held(r) = Held(s) /\ r.fault = s.fault /\ r.completed
      /\ r.session = s.session /\ r.items = s.items /\ r.role = s.role
      /\ r.deltas = s.deltas /\ r.terminal = s.terminal /\ r.stop = s.stop
  BY <1>1 DEF Formed, Streams, Held
<1>3. PICK t : t = Flush(r, ok)
  OBVIOUS
<1>4. Moves(r, t) /\ Held(t) = Held(r)
  BY <1>2, <1>3, FlushMoves
<1> QED BY <1>1, <1>2, <1>3, <1>4 DEF Complete, Moves, Alike, Sound
\* f is what a snapshot adds to its item, and t what is made of it.
Fits(s, id, text, f) == (id = 0 => f = text) /\ (id # 0 => text = s.items[id] \o f)
Snapped(s, id, text, f, t) ==
  /\ Formed(t) /\ IsPrefix(Held(t), Held(s) \o f)
  /\ Sound(t) => /\ Sound(s) /\ Held(t) = Held(s) \o f /\ ~t.completed
                 /\ t.session = s.session
                 /\ t.items = IF id = 0 THEN s.items ELSE [s.items EXCEPT ![id] = text]

\* Of a snapshot that continues the last one, what is new is added.
LEMMA SnapshotMoves ==
  ASSUME MaxItems \in Nat, NEW s, Formed(s), NEW id \in 0 .. MaxItems,
         NEW text \in Text, NEW f \in Text, Fits(s, id, text, f), NEW ok
  PROVE  Snapped(s, id, text, f, Snapshot(s, id, text, ok))
<1>1. (id = 0 => f = text) /\ (id # 0 => text = s.items[id] \o f)
  BY DEF Fits
<1>2. CASE id = 0
  <2>1. PICK t : t = AnswerText(s, text, ok)
    OBVIOUS
  <2>2. Moves(s, t) /\ IsPrefix(Held(t), Held(s) \o f)
        /\ (Sound(t) => Held(t) = Held(s) \o f /\ ~s.completed)
    BY <1>1, <1>2, <2>1, AnswerMoves
  <2> QED BY <1>2, <2>1, <2>2 DEF Snapped, Snapshot, Moves, Alike
<1>3. CASE id # 0
  <2>1. /\ id \in 1 .. MaxItems /\ s \in Streams /\ s.items[id] \in Text
        /\ s.items \in [1 .. MaxItems -> Text]
    <3>1. id \in 1 .. MaxItems
      BY <1>3
    <3> QED BY <3>1 DEF Formed, Streams
  <2>2. IsPrefix(s.items[id], text)
    <3>1. \A a, b \in Text : IsPrefix(a, a \o b)
      BY TextJoins
    <3>2. IsPrefix(s.items[id], s.items[id] \o f)
      BY <2>1, <3>1
    <3> QED BY <1>1, <1>3, <3>2
  <2>3. SubSeq(text, Len(s.items[id]) + 1, Len(text)) = f
    <3>1. PICK g : g = SubSeq(text, Len(s.items[id]) + 1, Len(text))
      OBVIOUS
    <3>2. g \in Seq(Nat) /\ text = s.items[id] \o g
      BY <2>1, <2>2, <3>1, PrefixSplits DEF Text
    <3>3. s.items[id] \o g = s.items[id] \o f
      BY <1>1, <1>3, <3>2
    <3>4. s.items[id] \in Seq(Nat) /\ f \in Seq(Nat)
      BY <2>1 DEF Text
    <3>5. \A a, b, c \in Seq(Nat) : a \o b = a \o c => b = c
      BY ConcatSimplifications
    <3>6. g = f
      BY <3>2, <3>3, <3>4, <3>5
    <3> QED BY <3>1, <3>6
  <2>4. PICK r : r = [s EXCEPT !.items[id] = text]
    OBVIOUS
  <2>5. r = [s EXCEPT !.items = [s.items EXCEPT ![id] = text]]
    BY <2>4
  <2>6. [s.items EXCEPT ![id] = text] \in [1 .. MaxItems -> Text]
    BY <2>1
  <2>7. /\ Formed(r) /\ Held(r) = Held(s) /\ r.fault = s.fault /\ r.completed = s.completed
        /\ r.session = s.session /\ r.items = [s.items EXCEPT ![id] = text]
    BY <2>1, <2>5, <2>6 DEF Formed, Streams, Held
  <2>8. PICK t : t = AnswerText(r, f, ok)
    OBVIOUS
  <2>9. Moves(r, t) /\ IsPrefix(Held(t), Held(s) \o f)
        /\ (Sound(t) => Held(t) = Held(s) \o f /\ ~r.completed)
    BY <2>7, <2>8, AnswerMoves
  <2>10. t = Snapshot(s, id, text, ok)
    BY <1>3, <2>2, <2>3, <2>4, <2>8 DEF Snapshot
  <2> QED BY <1>3, <2>7, <2>9, <2>10 DEF Snapped, Moves, Alike, Sound
<1> QED BY <1>2, <1>3

(***************************************************************************)
(* What the Harness does, event by event.  A step is from x to y, and e is  *)
(* what it writes; between two events it may do something that it does not  *)
(* tell (Quiet).                                                            *)
(***************************************************************************)

Agents ==
  [phase : {"none", "boot", "ready", "turn", "speaking", "closing", "stopped", "over"},
   turn : Nat, item : 0 .. MaxItems, part : Text, said : Text, session : Sessions,
   stop : Stops, settled : {"no", "yes", "failed"}, quiet : BOOLEAN]

\* A run of a CLI that is settled has stopped, and one that begins has no session.
Living(p) ==
  {a \in Agents :
     p # "webhook" => /\ a.settled = "yes" => a.phase = "stopped"
                      /\ a.phase = "boot" <=> a.session = NoSession}

\* What it says next.
Says(x, y, f) == f \in Text /\ y.said = x.said \o f
SaysNothing(x, y) == y.said = x.said

\* It does not go on as it should: what has been said is all there is.
Breaks(x, e, y) == e.type \in {"error", "garbage", "flood"} /\ SaysNothing(x, y)

\* The item that goes on, a new one, or text of none.
Continues(x, e, y, f) ==
  /\ y.said = x.said \o f
  /\ \/ x.item > 0 /\ y.item = x.item /\ y.part = x.part \o f /\ e.item = y.item /\ e.text = y.part
     \/ y.item = x.item + 1 /\ y.part = f /\ e.item = y.item /\ e.text = f
     \/ y.item = x.item /\ y.part = x.part /\ e.item = 0 /\ e.text = f

StepItems(p, x, e, y) ==
  \/ /\ e.type = "session" /\ p = "codex" /\ x.phase = "boot"
     /\ e.session = y.session /\ SaysNothing(x, y) /\ y.phase = "ready"
     /\ y.item = x.item /\ y.part = x.part
  \/ /\ e.session = x.session /\ y.session = x.session /\ x.phase # "boot" /\ y.phase # "boot"
     /\ \/ /\ e.type = "begin" /\ SaysNothing(x, y) /\ y.item = x.item /\ y.part = x.part
           /\ p = "codex" => x.phase = "ready"
           /\ y.phase = "turn"
        \/ /\ e.type = "text" /\ x.phase = "turn" /\ y.phase = "turn" /\ e.final
           /\ \E f \in Text : Continues(x, e, y, f)
        \/ /\ e.type = "end" /\ x.phase = "turn" /\ SaysNothing(x, y)
           /\ y.item = x.item /\ y.part = x.part
           /\ p = "codex" => e.stop = "stop"
           /\ e.stop \in {"stop", "toolUse", "error"}
           /\ e.stop = "stop" => y.settled = "yes"
        \/ Breaks(x, e, y)

StepPi(x, e, y) ==
  \/ /\ e.type = "session" /\ x.phase = "boot" /\ y.phase = "ready"
     /\ e.session = y.session /\ SaysNothing(x, y)
  \/ /\ y.session = x.session /\ x.phase # "boot" /\ y.phase # "boot"
     /\ \/ e.type = "begin" /\ y.phase = "turn" /\ SaysNothing(x, y)
        \/ /\ e.type = "message_start" /\ e.role = "assistant" /\ SaysNothing(x, y)
           /\ x.phase = "turn" /\ y.phase = "speaking" /\ y.part = <<>>
        \/ e.type = "message_start" /\ e.role = "tool" /\ x.phase = "ready" /\ y = x
        \/ /\ e.type = "delta" /\ x.phase = "speaking" /\ y.phase = "speaking"
           /\ ~x.quiet /\ ~y.quiet
           /\ Says(x, y, e.text) /\ y.part = x.part \o e.text
        \/ /\ e.type = "message_end" /\ e.role = "assistant"
           /\ x.phase = "speaking" /\ y.phase = "closing" /\ y.stop = e.stop /\ e.text = y.part
           /\ \E f \in Text : /\ Says(x, y, f) /\ y.part = x.part \o f
                              /\ ~x.quiet => f = <<>>
        \/ /\ e.type = "message_end" /\ e.role = "assistant" /\ e.stop = x.stop
           /\ x.phase = "closing" /\ y.phase = PhaseAfter(x.stop) /\ y.stop = x.stop
           /\ SaysNothing(x, y)
        \/ /\ e.type = "end" /\ e.stop \in {"none", "stop"} /\ SaysNothing(x, y)
           /\ x.phase \in {"closing", "stopped"} /\ x.stop = "stop" /\ y.stop = "stop"
           /\ IF e.again THEN y.phase = "ready" ELSE y.phase = "stopped" /\ y.settled = "yes"
        \/ Breaks(x, e, y)

StepDoc(x, e, y) ==
  /\ x.phase # "boot" /\ y.session = x.session /\ SaysNothing(x, y)
  /\ \/ /\ e.type = "end" /\ e.text = y.said
        /\ e.stop = "stop" => y.settled = "yes"
     \/ Breaks(x, e, y)

StepFrames(x, e, y) ==
  /\ x.phase = "turn"
  /\ \/ e.type = "text" /\ Says(x, y, e.text)
     \/ /\ e.type = "end" /\ SaysNothing(x, y) /\ y.phase = "over"
        /\ e.stop = "stop" => y.settled = "yes"
     \/ Breaks(x, e, y) /\ y.phase = "over"

Step(p, x, e, y) ==
  \/ p \in {"codex", "opencode"} /\ StepItems(p, x, e, y)
  \/ p \in {"pi", "omp"} /\ StepPi(x, e, y)
  \/ p = "openclaw" /\ StepDoc(x, e, y)
  \/ p = "webhook" /\ StepFrames(x, e, y)

Quiet(p, x, y) ==
  \/ y = x
  \/ /\ p = "opencode" /\ x.phase = "boot" /\ y.phase = "ready" /\ SaysNothing(x, y)
     /\ y.item = x.item /\ y.part = x.part
  \/ /\ p = "opencode" /\ x.phase = "turn" /\ y.phase \in {"ready", "stopped", "over"}
     /\ SaysNothing(x, y) /\ y.item = x.item /\ y.part = x.part /\ y.session = x.session
  \/ /\ p = "openclaw" /\ {x.phase, y.phase} \subseteq {"boot", "ready", "turn"}
     /\ IsPrefix(x.said, y.said)

\* What the reader has made of all that the Harness has told when it is at a.
ItemsKept(s, a) ==
  /\ \A i \in 1 .. MaxItems : i > a.item => s.items[i] = <<>>
  /\ a.item > 0 => s.items[a.item] = a.part

CoupledItems(p, s, a) ==
  /\ Held(s) = a.said
  /\ s.session \in {NoSession, a.session}
  /\ p = "codex" /\ a.phase # "boot" => s.session = a.session
  /\ s.completed => a.settled = "yes" /\ s.session # NoSession
  /\ ItemsKept(s, a)

CoupledPi(s, a) ==
  /\ Held(s) = a.said
  /\ s.session = a.session
  /\ s.completed => a.settled = "yes"
  /\ a.phase = "speaking" => /\ s.role = "assistant" /\ ~s.terminal
                             /\ s.deltas => ~a.quiet
                             /\ ~s.deltas => a.part = <<>>
  /\ a.phase \in {"closing", "stopped"} => s.terminal /\ s.stop = a.stop

CoupledDoc(s, a) ==
  /\ Held(s) = <<>> /\ ~s.completed
  /\ Len(s.document) = 1 /\ s.document[1].type = "end" /\ s.document[1].stop = "stop"
       => a.settled = "yes" /\ s.document[1].text = a.said

CoupledFrames(s, a) == Held(s) = a.said /\ s.pending = <<>>

Coupled(p, s, a) ==
  /\ Formed(s) /\ Sound(s)
  /\ p \in {"codex", "opencode"} => CoupledItems(p, s, a)
  /\ p \in {"pi", "omp"} => CoupledPi(s, a)
  /\ p = "openclaw" => CoupledDoc(s, a)
  /\ p = "webhook" => CoupledFrames(s, a)

\* A move that writes nothing does not part stream and Harness.
LEMMA QuietCoupled ==
  ASSUME NEW p \in Natives \cup {"webhook"}, NEW s, NEW x \in Living(p), NEW y \in Living(p),
         Coupled(p, s, x), Quiet(p, x, y)
  PROVE  Coupled(p, s, y)
<1>1. CASE y = x
  BY <1>1
<1>2. CASE p = "opencode" /\ y # x
  <2>1. CoupledItems(p, s, x)
    BY <1>2 DEF Coupled
  <2>2. CoupledItems(p, s, y)
    BY <1>2, <2>1 DEF CoupledItems, ItemsKept, Quiet, Living, SaysNothing
  <2> QED BY <1>2, <2>2 DEF Coupled
<1>3. CASE p = "openclaw" /\ y # x
  <2>1. CoupledDoc(s, x)
    BY <1>3 DEF Coupled
  <2>2. CoupledDoc(s, y)
    BY <1>3, <2>1 DEF CoupledDoc, Quiet, Living
  <2> QED BY <1>3, <2>2 DEF Coupled
<1> QED BY <1>1, <1>2, <1>3 DEF Quiet

\* A quiet step goes on from a quiet step.
LEMMA QuietQuiet ==
  ASSUME NEW p \in Natives \cup {"webhook"},
         NEW x \in Living(p), NEW y \in Living(p), NEW z \in Living(p),
         Quiet(p, x, y), Quiet(p, y, z)
  PROVE  Quiet(p, x, z)
<1>1. CASE p = "openclaw"
  <2>1. x.said \in Seq(Nat) /\ y.said \in Seq(Nat) /\ z.said \in Seq(Nat)
    BY DEF Living, Agents, Text
  <2>2. IsPrefix(x.said, y.said) /\ IsPrefix(y.said, z.said) => IsPrefix(x.said, z.said)
    BY <2>1, PrefixOfPrefix
  <2> QED BY <1>1, <2>2 DEF Quiet
<1>2. CASE p # "openclaw"
  BY <1>2 DEF Quiet
<1> QED BY <1>1, <1>2

\* What has been said is never taken back.
LEMMA StepGrows ==
  ASSUME NEW p, NEW x \in Agents, NEW y \in Agents,
         Quiet(p, x, y) \/ \E e \in Events : Step(p, x, e, y)
  PROVE  IsPrefix(x.said, y.said)
<1>1. x.said \in Text /\ y.said \in Text
  BY DEF Agents
<1>2. IsPrefix(x.said, x.said)
  BY <1>1, PrefixOfSame DEF Text
<1>3. \A f : Says(x, y, f) => IsPrefix(x.said, y.said)
  BY <1>1, TextJoins DEF Says
<1>4. SaysNothing(x, y) => IsPrefix(x.said, y.said)
  BY <1>2 DEF SaysNothing
<1>5. CASE Quiet(p, x, y)
  BY <1>2, <1>4, <1>5 DEF Quiet
<1>6. ASSUME NEW e \in Events, Step(p, x, e, y) PROVE IsPrefix(x.said, y.said)
  <2>1. y = x \/ SaysNothing(x, y) \/ \E f : Says(x, y, f)
    <3>1. CASE StepItems(p, x, e, y)
      BY <3>1 DEF StepItems, Continues, Says, Breaks
    <3>2. CASE StepPi(x, e, y)
      BY <3>2 DEF StepPi, Breaks
    <3>3. CASE StepDoc(x, e, y) \/ StepFrames(x, e, y)
      BY <3>3 DEF StepDoc, StepFrames, Breaks
    <3> QED BY <1>6, <3>1, <3>2, <3>3 DEF Step
  <2> QED BY <1>2, <1>3, <1>4, <2>1
<1> QED BY <1>5, <1>6
(***************************************************************************)
(* The reader follows the Harness: what it makes of an event couples it     *)
(* with where the Harness was when it wrote it.                             *)
(***************************************************************************)

\* What holds of t, the stream after an event that led to y.
Reads(p, t, y) ==
  Formed(t) /\ IsPrefix(Held(t), y.said) /\ (Sound(t) => Coupled(p, t, y))

\* An event without text is read if it keeps stream and Harness together.
LEMMA SameIsRead ==
  ASSUME NEW p, NEW t, NEW x \in Agents, NEW y \in Agents, Formed(t),
         Held(t) = x.said, IsPrefix(x.said, y.said), Sound(t) => Coupled(p, t, y)
  PROVE  Reads(p, t, y)
  BY DEF Reads

\* An event that breaks the stream off is read in any case.
LEMMA BrokenIsRead ==
  ASSUME NEW p, NEW s, Formed(s), NEW y \in Agents, IsPrefix(Held(s), y.said), NEW ok
  PROVE  Reads(p, FailNative(s, ok), y) /\ Reads(p, Malformed(s), y)
         /\ Reads(p, Fault(s, "event_limit"), y)
  BY FailMoves, MalformedMoves, FaultMoves DEF Reads, Moves

\* A snapshot of an item is read as the text that is new in it.
LEMMA ReadText ==
  ASSUME MaxItems \in Nat,
         NEW s, Formed(s), NEW x \in Agents, NEW y \in Agents, NEW e \in Events, NEW ok,
         Held(s) = x.said, ItemsKept(s, x), NEW f \in Text, Continues(x, e, y, f)
  PROVE  LET t == Snapshot(s, e.item, e.text, ok)
         IN  /\ Formed(t) /\ IsPrefix(Held(t), y.said)
             /\ Sound(t) => /\ Sound(s) /\ Held(t) = y.said /\ ~t.completed
                            /\ t.session = s.session /\ ItemsKept(t, y)
<1>1. e.item \in 0 .. MaxItems /\ e.text \in Text /\ x.item \in 0 .. MaxItems /\ x.part \in Text
  BY DEF Events, Agents
<1>2. Fits(s, e.item, e.text, f)
  <2>1. CASE /\ x.item > 0 /\ y.item = x.item /\ y.part = x.part \o f
             /\ e.item = y.item /\ e.text = y.part
    <3>1. s.items[x.item] = x.part
      BY <2>1 DEF ItemsKept
    <3> QED BY <1>1, <2>1, <3>1 DEF Fits
  <2>2. CASE y.item = x.item + 1 /\ y.part = f /\ e.item = y.item /\ e.text = f
    <3>1. e.item \in 1 .. MaxItems /\ e.item > x.item
      BY <1>1, <2>2
    <3>2. s.items[e.item] = <<>>
      BY <3>1 DEF ItemsKept
    <3>3. <<>> \o f = f
      BY TextJoins
    <3> QED BY <2>2, <3>1, <3>2, <3>3 DEF Fits
  <2>3. CASE y.item = x.item /\ y.part = x.part /\ e.item = 0 /\ e.text = f
    BY <2>3 DEF Fits
  <2> QED BY <2>1, <2>2, <2>3 DEF Continues
<1>3. PICK t : t = Snapshot(s, e.item, e.text, ok)
  OBVIOUS
<1>4. Held(s) \o f = y.said
  BY DEF Continues
<1>5. Snapped(s, e.item, e.text, f, t)
  BY <1>1, <1>2, <1>3, SnapshotMoves
<1>6. ASSUME Sound(t) PROVE ItemsKept(t, y)
  <2>1. s.items \in [1 .. MaxItems -> Text]
    BY DEF Formed, Streams
  <2>2. CASE x.item > 0 /\ y.item = x.item /\ e.item = y.item /\ e.text = y.part
    <3>1. t.items = [s.items EXCEPT ![e.item] = e.text] /\ e.item \in 1 .. MaxItems
      BY <1>1, <1>5, <1>6, <2>2 DEF Snapped
    <3> QED BY <1>1, <2>1, <2>2, <3>1 DEF ItemsKept
  <2>3. CASE y.item = x.item + 1 /\ y.part = f /\ e.item = y.item /\ e.text = f
    <3>1. t.items = [s.items EXCEPT ![e.item] = e.text] /\ e.item \in 1 .. MaxItems
      BY <1>1, <1>5, <1>6, <2>3 DEF Snapped
    <3> QED BY <1>1, <2>1, <2>3, <3>1 DEF ItemsKept
  <2>4. CASE y.item = x.item /\ y.part = x.part /\ e.item = 0 /\ e.text = f
    <3>1. t.items = s.items
      BY <1>5, <1>6, <2>4 DEF Snapped
    <3> QED BY <2>4, <3>1 DEF ItemsKept
  <2> QED BY <2>2, <2>3, <2>4 DEF Continues
<1> QED BY <1>3, <1>4, <1>5, <1>6 DEF Snapped

\* What codex writes is read (consumeCodex).
LEMMA ReadCodex ==
  ASSUME MaxItems \in Nat,
         NEW s, NEW x \in Living("codex"), NEW y \in Living("codex"), NEW e \in Events, NEW ok,
         Coupled("codex", s, x), StepItems("codex", x, e, y), e.type # "flood"
  PROVE  Reads("codex", ConsumeCodex(s, e, ok), y)
<1>1. /\ Formed(s) /\ Sound(s) /\ CoupledItems("codex", s, x) /\ x \in Agents /\ y \in Agents
      /\ IsPrefix(x.said, y.said) /\ Held(s) = x.said
  <2>1. Step("codex", x, e, y)
    BY DEF Step
  <2> QED BY <2>1, StepGrows DEF Coupled, CoupledItems, Living
<1>2. CASE e.type = "session"
  <2>1. /\ x.phase = "boot" /\ y.phase = "ready" /\ e.session = y.session /\ y.said = x.said
        /\ y.item = x.item /\ y.part = x.part /\ y.session # NoSession /\ x.session = NoSession
        /\ s.session = NoSession
    BY <1>2, <1>1 DEF StepItems, Living, SaysNothing, CoupledItems, Breaks
  <2>2. PICK t : t = SetSession(s, e.session)
    OBVIOUS
  <2>3. t = ConsumeCodex(s, e, ok)
    BY <1>2, <2>1, <2>2 DEF ConsumeCodex
  <2>4. /\ Formed(t) /\ Held(t) = x.said
        /\ Sound(t) => t = [s EXCEPT !.session = y.session]
    BY <1>1, <2>1, <2>2, SessionMoves DEF Events
  <2>5. ASSUME Sound(t) PROVE Coupled("codex", t, y)
    <3>1. t.session = y.session /\ t.items = s.items /\ t.completed = s.completed
      BY <1>1, <2>4, <2>5 DEF Formed, Streams
    <3>2. ~s.completed
      BY <1>1, <2>1 DEF CoupledItems, Living
    <3>3. CoupledItems("codex", t, y)
      BY <1>1, <2>1, <2>4, <3>1, <3>2 DEF CoupledItems, ItemsKept
    <3> QED BY <2>4, <2>5, <3>3 DEF Coupled
  <2> QED BY <1>1, <2>3, <2>4, <2>5, SameIsRead
<1>3. CASE e.type = "begin"
  <2>1. /\ y.session = x.session /\ y.said = x.said /\ y.item = x.item /\ y.part = x.part
        /\ x.phase = "ready"
    BY <1>3 DEF StepItems, SaysNothing, Breaks
  <2>2. ConsumeCodex(s, e, ok) = s
    <3>1. ~s.completed
      BY <1>1, <2>1 DEF CoupledItems, Living
    <3> QED BY <1>3, <3>1 DEF ConsumeCodex
  <2>3. CoupledItems("codex", s, y)
    BY <1>1, <2>1 DEF CoupledItems, ItemsKept, Living
  <2> QED BY <1>1, <2>2, <2>3, SameIsRead DEF Coupled
<1>4. CASE e.type = "text"
  <2>1. y.session = x.session /\ e.final /\ x.phase # "boot" /\ y.phase # "boot"
    BY <1>4 DEF StepItems, Breaks
  <2>2. PICK f \in Text : Continues(x, e, y, f)
    BY <1>4 DEF StepItems, Breaks, Continues
  <2>3. PICK t : t = Snapshot(s, e.item, e.text, ok)
    OBVIOUS
  <2>4. t = ConsumeCodex(s, e, ok)
    BY <1>4, <2>1, <2>3 DEF ConsumeCodex
  <2>5. ItemsKept(s, x) /\ s.session = x.session
    BY <1>1, <2>1 DEF CoupledItems
  <2>6. /\ Formed(t) /\ IsPrefix(Held(t), y.said)
        /\ Sound(t) => /\ Held(t) = y.said /\ ~t.completed
                       /\ t.session = s.session /\ ItemsKept(t, y)
    BY <1>1, <2>2, <2>3, <2>5, ReadText
  <2>7. Sound(t) => CoupledItems("codex", t, y)
    BY <2>1, <2>5, <2>6 DEF CoupledItems
  <2> QED BY <2>4, <2>6, <2>7 DEF Reads, Coupled
<1>5. CASE e.type = "end"
  <2>1. /\ y.session = x.session /\ y.said = x.said /\ y.item = x.item /\ y.part = x.part
        /\ x.phase = "turn" /\ y.settled = "yes"
    BY <1>5 DEF StepItems, SaysNothing, Breaks
  <2>2. PICK t : t = Complete(s, ok)
    OBVIOUS
  <2>3. t = ConsumeCodex(s, e, ok)
    <3>1. ~s.completed
      BY <1>1, <2>1 DEF CoupledItems, Living
    <3> QED BY <1>5, <2>2, <3>1 DEF ConsumeCodex
  <2>4. Formed(t) /\ Held(t) = x.said /\ t.session = s.session /\ t.items = s.items
    BY <1>1, <2>2, CompleteMoves
  <2>5. CoupledItems("codex", t, y)
    BY <1>1, <2>1, <2>4 DEF CoupledItems, ItemsKept, Living
  <2> QED BY <1>1, <2>3, <2>4, <2>5, SameIsRead DEF Coupled
<1>6. CASE e.type \in {"error", "garbage"}
  <2>1. ConsumeCodex(s, e, ok) \in {FailNative(s, ok), Malformed(s)}
    BY <1>6 DEF ConsumeCodex
  <2> QED BY <1>1, <2>1, BrokenIsRead
<1> QED BY <1>2, <1>3, <1>4, <1>5, <1>6 DEF StepItems, Breaks

\* What opencode writes is read, one step after the other (consumeOpenCode).
LEMMA ReadOpenCode ==
  ASSUME MaxItems \in Nat, NoSession \notin Deliveries,
         NEW s, NEW x \in Living("opencode"), NEW y \in Living("opencode"),
         NEW e \in Events, NEW ok,
         Coupled("opencode", s, x), StepItems("opencode", x, e, y), e.type # "flood"
  PROVE  Reads("opencode", ConsumeOpenCode(s, e, ok), y)
<1>1. /\ Formed(s) /\ Sound(s) /\ CoupledItems("opencode", s, x) /\ x \in Agents /\ y \in Agents
      /\ IsPrefix(x.said, y.said) /\ Held(s) = x.said
  <2>1. Step("opencode", x, e, y)
    BY DEF Step
  <2> QED BY <2>1, StepGrows DEF Coupled, CoupledItems, Living
<1>2. /\ e.session = x.session /\ y.session = x.session /\ x.phase # "boot" /\ y.phase # "boot"
      /\ x.session # NoSession
  BY DEF StepItems, Living
<1>3. s \in Streams /\ e.message \in Nat
  BY <1>1 DEF Formed, Events
<1>4. PICK r : r = [s EXCEPT !.session = x.session]
  OBVIOUS
<1>5. r = SetSession(s, e.session) /\ Sound(r)
  <2>1. s.session \in {NoSession, x.session}
    BY <1>1 DEF CoupledItems
  <2> QED BY <1>1, <1>2, <1>3, <1>4, <2>1 DEF SetSession, Sound, Streams
<1>6. /\ Formed(r) /\ Held(r) = x.said /\ r.session = x.session /\ ItemsKept(r, x)
      /\ r.completed => x.settled = "yes"
  <2>1. x.session \in Sessions
    BY <1>1 DEF Agents
  <2>2. Formed(r) /\ r.session = x.session /\ Held(r) = Held(s) /\ r.items = s.items
        /\ r.completed = s.completed
    BY <1>1, <1>3, <1>4, <2>1 DEF Formed, Streams, Held
  <2> QED BY <1>1, <2>2 DEF CoupledItems, ItemsKept
<1>7. ConsumeOpenCode(s, e, ok) = OpenCodeStep(r, e, ok)
  BY <1>5 DEF ConsumeOpenCode
<1>8. CASE e.type = "begin"
  <2>1. y.said = x.said /\ y.item = x.item /\ y.part = x.part
    BY <1>8 DEF StepItems, SaysNothing, Breaks
  <2>2. PICK t : t = [r EXCEPT !.message = e.message, !.completed = FALSE]
    OBVIOUS
  <2>3. /\ Formed(t) /\ Held(t) = Held(r) /\ t.session = r.session /\ t.items = r.items
        /\ ~t.completed
    BY <1>3, <1>6, <2>2 DEF Formed, Streams, Held
  <2>4. CoupledItems("opencode", t, y)
    BY <1>2, <1>6, <2>1, <2>3 DEF CoupledItems, ItemsKept
  <2>5. t = OpenCodeStep(r, e, ok)
    BY <1>8, <2>2 DEF OpenCodeStep
  <2>6. Sound(t) => Coupled("opencode", t, y)
    BY <2>3, <2>4 DEF Coupled
  <2> QED BY <1>1, <1>6, <1>7, <2>3, <2>5, <2>6, SameIsRead
<1>9. CASE e.type = "text"
  <2>1. PICK f \in Text : Continues(x, e, y, f)
    BY <1>9 DEF StepItems, Breaks
  <2>2. PICK u : u = [r EXCEPT !.message = e.message]
    OBVIOUS
  <2>3. Formed(u) /\ Held(u) = x.said /\ u.session = r.session /\ ItemsKept(u, x)
    BY <1>3, <1>6, <2>2 DEF Formed, Streams, Held, ItemsKept
  <2>4. PICK t : t = Snapshot(u, e.item, e.text, ok)
    OBVIOUS
  <2>5. t = OpenCodeStep(r, e, ok)
    BY <1>9, <2>2, <2>4 DEF OpenCodeStep
  <2>6. /\ Formed(t) /\ IsPrefix(Held(t), y.said)
        /\ Sound(t) => /\ Held(t) = y.said /\ ~t.completed
                       /\ t.session = u.session /\ ItemsKept(t, y)
    BY <1>1, <2>1, <2>3, <2>4, ReadText
  <2>7. Sound(t) => CoupledItems("opencode", t, y)
    BY <1>2, <1>6, <2>3, <2>6 DEF CoupledItems
  <2> QED BY <1>7, <2>5, <2>6, <2>7 DEF Reads, Coupled
<1>10. CASE e.type = "end"
  <2>1. /\ y.said = x.said /\ y.item = x.item /\ y.part = x.part
        /\ e.stop \in {"stop", "toolUse", "error"} /\ (e.stop = "stop" => y.settled = "yes")
    BY <1>10 DEF StepItems, SaysNothing, Breaks
  <2>2. CASE e.stop = "stop"
    <3>1. PICK t : t = Complete(r, ok)
      OBVIOUS
    <3>2. t = OpenCodeStep(r, e, ok)
      BY <1>10, <2>2, <3>1 DEF OpenCodeStep
    <3>3. Formed(t) /\ Held(t) = x.said /\ t.session = r.session /\ t.items = r.items
      BY <1>6, <3>1, CompleteMoves
    <3>4. CoupledItems("opencode", t, y)
      BY <1>2, <1>6, <2>1, <2>2, <3>3 DEF CoupledItems, ItemsKept
    <3>5. Sound(t) => Coupled("opencode", t, y)
      BY <3>3, <3>4 DEF Coupled
    <3> QED BY <1>1, <1>7, <3>2, <3>3, <3>5, SameIsRead
  <2>3. CASE e.stop = "toolUse"
    <3>1. PICK u : u = [r EXCEPT !.completed = FALSE]
      OBVIOUS
    <3>2. /\ Formed(u) /\ Held(u) = Held(r) /\ u.session = r.session /\ u.items = r.items
          /\ ~u.completed
      BY <1>6, <3>1 DEF Formed, Streams, Held
    <3>3. PICK t : t = Flush(u, ok)
      OBVIOUS
    <3>4. Moves(u, t) /\ Held(t) = Held(u)
      BY <3>2, <3>3, FlushMoves
    <3>5. /\ Formed(t) /\ Held(t) = x.said /\ t.session = r.session /\ t.items = r.items
          /\ ~t.completed
      BY <1>6, <3>2, <3>4 DEF Moves, Alike
    <3>6. t = OpenCodeStep(r, e, ok)
      BY <1>10, <2>3, <3>1, <3>3 DEF OpenCodeStep
    <3>7. CoupledItems("opencode", t, y)
      BY <1>2, <1>6, <2>1, <3>5 DEF CoupledItems, ItemsKept
    <3>8. Sound(t) => Coupled("opencode", t, y)
      BY <3>5, <3>7 DEF Coupled
    <3> QED BY <1>1, <1>7, <3>5, <3>6, <3>8, SameIsRead
  <2>4. CASE e.stop = "error"
    <3>1. OpenCodeStep(r, e, ok) = FailNative(r, ok)
      BY <1>10, <2>4 DEF OpenCodeStep
    <3> QED BY <1>1, <1>6, <1>7, <3>1, BrokenIsRead
  <2> QED BY <2>1, <2>2, <2>3, <2>4
<1>11. CASE e.type \in {"error", "garbage"}
  <2>1. OpenCodeStep(r, e, ok) \in {FailNative(r, ok), Malformed(r)}
    BY <1>11 DEF OpenCodeStep
  <2> QED BY <1>1, <1>6, <1>7, <2>1, BrokenIsRead
<1> QED BY <1>8, <1>9, <1>10, <1>11 DEF StepItems, Breaks

\* What openclaw writes is kept until its process is over.
LEMMA ReadDoc ==
  ASSUME NEW s, NEW x \in Living("openclaw"), NEW y \in Living("openclaw"), NEW e \in Events,
         Coupled("openclaw", s, x), StepDoc(x, e, y), e.type # "flood"
  PROVE  Reads("openclaw", KeepDocument(s, e), y)
<1>1. /\ Formed(s) /\ Sound(s) /\ CoupledDoc(s, x) /\ x \in Agents /\ y \in Agents
  BY DEF Coupled, Living
<1>2. PICK t : t = [s EXCEPT !.document = Append(s.document, e)]
  OBVIOUS
<1>3. s \in Streams /\ s.document \in Seq(Events)
  BY <1>1 DEF Formed, Streams
<1>4. /\ Append(s.document, e) \in Seq(Events) /\ Len(s.document) \in Nat
      /\ Len(Append(s.document, e)) = Len(s.document) + 1
      /\ Append(s.document, e)[Len(s.document) + 1] = e
  BY <1>3, AppendProperties, LenProperties
<1>5. /\ Formed(t) /\ Held(t) = Held(s) /\ t.completed = s.completed
      /\ t.document = Append(s.document, e)
  BY <1>1, <1>2, <1>3, <1>4 DEF Formed, Streams, Held
<1>6. CoupledDoc(t, y)
  <2>1. Len(t.document) = 1 => t.document[1] = e
    BY <1>4, <1>5
  <2> QED BY <1>1, <1>5, <2>1 DEF CoupledDoc, StepDoc, Breaks, SaysNothing
<1>7. IsPrefix(Held(t), y.said)
  <2>1. Held(t) = <<>> /\ y.said \in Text
    BY <1>1, <1>5 DEF CoupledDoc, Agents
  <2>2. <<>> \o y.said = y.said
    BY <2>1, TextJoins
  <2> QED BY <2>1, <2>2, TextJoins
<1>8. t = KeepDocument(s, e)
  BY <1>2 DEF KeepDocument
<1> QED BY <1>5, <1>6, <1>7, <1>8 DEF Reads, Coupled

\* What pi and omp write is read, repetitions included (consumePiFamily).
LEMMA ReadPi ==
  ASSUME NoSession \notin Deliveries, NEW p, p = "pi" \/ p = "omp",
         NEW s, NEW x \in Living(p), NEW y \in Living(p), NEW e \in Events, NEW ok,
         Coupled(p, s, x), StepPi(x, e, y), e.type # "flood"
  PROVE  Reads(p, ConsumePi(s, e, ok), y)
<1>1. /\ Formed(s) /\ Sound(s) /\ CoupledPi(s, x) /\ x \in Agents /\ y \in Agents
      /\ IsPrefix(x.said, y.said) /\ Held(s) = x.said /\ s \in Streams
  <2>1. Step(p, x, e, y)
    BY DEF Step
  <2> QED BY <2>1, StepGrows DEF Coupled, CoupledPi, Living, Formed
<1>2. \A t : Formed(t) /\ Held(t) = x.said /\ (Sound(t) => CoupledPi(t, y)) => Reads(p, t, y)
  BY <1>1 DEF Reads, Coupled
<1>3. s.completed => x.phase = "stopped"
  BY <1>1 DEF CoupledPi, Living
<1>4. e.type # "session" => /\ y.session = x.session /\ x.phase # "boot" /\ y.phase # "boot"
                            /\ s.session = y.session /\ s.session # NoSession
  BY <1>1 DEF StepPi, Living, CoupledPi
<1>5. s.role \in {"none", "assistant", "tool"} /\ s.deltas \in BOOLEAN /\ s.terminal \in BOOLEAN
      /\ s.stop \in Stops /\ s.completed \in BOOLEAN /\ e.stop \in Stops /\ e.text \in Text
  BY <1>1 DEF Streams, Events
<1>6. CASE e.type = "session"
  <2>1. /\ x.phase = "boot" /\ y.phase = "ready" /\ e.session = y.session /\ y.said = x.said
        /\ y.session # NoSession /\ s.session = NoSession
    BY <1>6, <1>1 DEF StepPi, Living, SaysNothing, CoupledPi, Breaks
  <2>2. PICK t : t = SetSession(s, e.session)
    OBVIOUS
  <2>3. ConsumePi(s, e, ok) \in {t, Malformed(s)}
    BY <1>6, <2>2 DEF ConsumePi, PiSession
  <2>4. /\ Formed(t) /\ Held(t) = x.said
        /\ Sound(t) => t = [s EXCEPT !.session = y.session]
    BY <1>1, <2>1, <2>2, SessionMoves DEF Events
  <2>5. ASSUME Sound(t) PROVE CoupledPi(t, y)
    <3>1. t.session = y.session /\ t.completed = s.completed
      BY <1>1, <2>4, <2>5 DEF Streams
    <3> QED BY <1>3, <2>1, <2>4, <3>1 DEF CoupledPi
  <2> QED BY <1>1, <1>2, <2>3, <2>4, <2>5, BrokenIsRead
<1>7. CASE e.type = "begin"
  <2>1. y.said = x.said /\ y.phase = "turn"
    BY <1>7 DEF StepPi, SaysNothing, Breaks
  <2>2. PICK t : t = [s EXCEPT !.role = "none", !.deltas = FALSE, !.terminal = FALSE,
                               !.stop = "none", !.completed = FALSE]
    OBVIOUS
  <2>3. t = ConsumePi(s, e, ok)
    BY <1>7, <1>4, <2>2 DEF ConsumePi, PiEvent, NewTurn
  <2>4. Formed(t) /\ Held(t) = Held(s) /\ t.session = s.session /\ ~t.completed
    BY <1>1, <2>2 DEF Formed, Streams, Held, Stops
  <2>5. CoupledPi(t, y)
    BY <1>7, <1>1, <1>4, <2>1, <2>4 DEF CoupledPi
  <2> QED BY <1>1, <1>2, <2>3, <2>4, <2>5
<1>8. CASE e.type = "message_start" /\ e.role = "assistant"
  <2>1. y.said = x.said /\ x.phase = "turn" /\ y.phase = "speaking" /\ y.part = <<>>
    BY <1>8 DEF StepPi, SaysNothing, Breaks
  <2>2. PICK t : t = [s EXCEPT !.role = "assistant", !.deltas = FALSE, !.terminal = FALSE,
                               !.stop = "none"]
    OBVIOUS
  <2>3. t = ConsumePi(s, e, ok)
    BY <1>8, <1>3, <1>4, <2>1, <2>2 DEF ConsumePi, PiEvent, StartPiMessage
  <2>4. /\ Formed(t) /\ Held(t) = Held(s) /\ t.session = s.session /\ t.completed = s.completed
        /\ t.role = "assistant" /\ ~t.deltas /\ ~t.terminal
    BY <1>1, <2>2 DEF Formed, Streams, Held, Stops
  <2>5. CoupledPi(t, y)
    BY <1>8, <1>1, <1>3, <1>4, <2>1, <2>4 DEF CoupledPi
  <2> QED BY <1>1, <1>2, <2>3, <2>4, <2>5
<1>9. CASE e.type = "message_start" /\ e.role # "assistant"
  <2>1. x.phase = "ready" /\ y = x /\ e.role = "tool"
    BY <1>9 DEF StepPi, Breaks
  <2>2. PICK t : t = [s EXCEPT !.role = "tool"]
    OBVIOUS
  <2>3. t = ConsumePi(s, e, ok)
    BY <1>9, <1>3, <1>4, <2>1, <2>2 DEF ConsumePi, PiEvent, StartPiMessage
  <2>4. Formed(t) /\ Held(t) = Held(s) /\ t.session = s.session /\ t.completed = s.completed
    BY <1>1, <2>2 DEF Formed, Streams, Held
  <2>5. CoupledPi(t, y)
    BY <1>1, <2>1, <2>4 DEF CoupledPi
  <2> QED BY <1>1, <1>2, <2>3, <2>4, <2>5
<1>10. CASE e.type = "delta"
  <2>1. /\ x.phase = "speaking" /\ y.phase = "speaking" /\ ~x.quiet /\ ~y.quiet
        /\ y.said = x.said \o e.text
    BY <1>10 DEF StepPi, Says, Breaks
  <2>2. s.role = "assistant" /\ ~s.terminal
    BY <1>1, <2>1 DEF CoupledPi
  <2>3. PICK u : u = [s EXCEPT !.deltas = TRUE]
    OBVIOUS
  <2>4. /\ Formed(u) /\ Held(u) = Held(s) /\ u.session = s.session /\ u.completed = s.completed
        /\ u.role = "assistant" /\ u.deltas /\ ~u.terminal
    BY <1>1, <2>2, <2>3 DEF Formed, Streams, Held
  <2>5. PICK t : t = AnswerText(u, e.text, ok)
    OBVIOUS
  <2>6. /\ Moves(u, t) /\ IsPrefix(Held(t), Held(u) \o e.text)
        /\ Sound(t) => Held(t) = Held(u) \o e.text /\ ~u.completed
    BY <1>5, <2>4, <2>5, AnswerMoves
  <2>7. t = ConsumePi(s, e, ok)
    BY <1>10, <1>4, <2>2, <2>3, <2>5 DEF ConsumePi, PiEvent, PiDelta
  <2>8. Sound(t) => CoupledPi(t, y)
    BY <1>10, <1>1, <1>4, <2>1, <2>4, <2>6 DEF CoupledPi, Moves, Alike
  <2>9. Formed(t) /\ IsPrefix(Held(t), y.said)
    BY <1>1, <2>1, <2>4, <2>6 DEF Moves
  <2> QED BY <2>7, <2>8, <2>9 DEF Reads, Coupled
<1>11. CASE e.type = "message_end" /\ x.phase = "speaking"
  <2>1. /\ e.role = "assistant" /\ y.phase = "closing" /\ y.stop = e.stop /\ e.text = y.part
    BY <1>11 DEF StepPi, Breaks
  <2>2. PICK f \in Text : y.said = x.said \o f /\ y.part = x.part \o f /\ (~x.quiet => f = <<>>)
    BY <1>11 DEF StepPi, Says, Breaks
  <2>3. s.role = "assistant" /\ ~s.terminal /\ ~s.completed
    BY <1>11, <1>1, <1>3 DEF CoupledPi
  <2>4. ConsumePi(s, e, ok) = FinishPiMessage(s, e, ok)
    BY <1>11, <1>4, <2>1 DEF ConsumePi, PiEvent
  <2>5. CASE e.stop = "error"
    <3>1. FinishPiMessage(s, e, ok) = FailNative(s, ok)
      BY <2>3, <2>5 DEF FinishPiMessage
    <3> QED BY <1>1, <2>4, <3>1, BrokenIsRead
  <2>6. CASE e.stop # "error"
    <3>1. PICK u : u = IF s.deltas THEN s ELSE AnswerText(s, e.text, ok)
      OBVIOUS
    <3>2. /\ Formed(u) /\ IsPrefix(Held(u), y.said)
          /\ Sound(u) => Held(u) = y.said /\ u.session = s.session /\ ~u.completed
      <4>1. CASE s.deltas
        <5>1. f = <<>>
          BY <1>11, <1>1, <2>2, <4>1 DEF CoupledPi
        <5>2. x.said \in Text /\ x.said \o <<>> = x.said
          BY <1>1, TextJoins DEF Agents
        <5> QED BY <1>1, <2>2, <2>3, <3>1, <4>1, <5>1, <5>2
      <4>2. CASE ~s.deltas
        <5>1. x.part = <<>> /\ <<>> \o f = f
          BY <1>11, <1>1, <4>2, TextJoins DEF CoupledPi
        <5>2. e.text = f
          BY <2>1, <2>2, <5>1
        <5>3. u = AnswerText(s, f, ok)
          BY <3>1, <4>2, <5>2
        <5>4. /\ Moves(s, u) /\ IsPrefix(Held(u), Held(s) \o f)
              /\ Sound(u) => Held(u) = Held(s) \o f /\ ~s.completed
          BY <1>1, <5>3, AnswerMoves
        <5> QED BY <1>1, <2>2, <2>3, <5>4 DEF Moves, Alike
      <4> QED BY <4>1, <4>2
    <3>3. CASE ~Sound(u)
      <4>1. FinishPiMessage(s, e, ok) = u
        BY <2>3, <2>6, <3>1, <3>3 DEF FinishPiMessage
      <4> QED BY <2>4, <3>2, <3>3, <4>1 DEF Reads
    <3>4. CASE Sound(u)
      <4>1. PICK v : v = [u EXCEPT !.role = "assistant", !.terminal = TRUE, !.stop = e.stop]
        OBVIOUS
      <4>2. u \in Streams /\ u.deltas \in BOOLEAN /\ u.completed \in BOOLEAN
        BY <3>2 DEF Formed, Streams
      <4>3. /\ Formed(v) /\ Held(v) = y.said /\ v.session = s.session /\ ~v.completed
            /\ v.terminal /\ v.stop = e.stop
        BY <1>5, <3>2, <3>4, <4>1, <4>2 DEF Formed, Streams, Held
      <4>4. PICK t : t = Flush(v, ok)
        OBVIOUS
      <4>5. Moves(v, t) /\ Held(t) = Held(v)
        BY <4>3, <4>4, FlushMoves
      <4>6. CoupledPi(t, y)
        BY <1>11, <1>4, <2>1, <4>3, <4>5 DEF CoupledPi, Moves, Alike
      <4>7. FinishPiMessage(s, e, ok) = t
        BY <2>3, <2>6, <3>1, <3>4, <4>1, <4>4 DEF FinishPiMessage
      <4>8. IsPrefix(y.said, y.said)
        BY <1>1, PrefixOfSame DEF Agents, Text
      <4> QED BY <2>4, <4>3, <4>5, <4>6, <4>7, <4>8 DEF Reads, Coupled, Moves
    <3> QED BY <3>3, <3>4
  <2> QED BY <2>5, <2>6
<1>12. CASE e.type = "message_end" /\ x.phase # "speaking"
  <2>1. /\ e.role = "assistant" /\ e.stop = x.stop /\ x.phase = "closing"
        /\ y.phase = PhaseAfter(x.stop) /\ y.stop = x.stop /\ y.said = x.said
    BY <1>12 DEF StepPi, Breaks, SaysNothing
  <2>2. s.terminal /\ s.stop = x.stop /\ ~s.completed
    BY <1>1, <1>3, <2>1 DEF CoupledPi
  <2>3. ConsumePi(s, e, ok) = FinishPiMessage(s, e, ok)
    BY <1>12, <1>4, <2>1 DEF ConsumePi, PiEvent
  <2>4. CASE e.stop = "error"
    <3>1. FinishPiMessage(s, e, ok) = FailNative(s, ok)
      BY <2>2, <2>4 DEF FinishPiMessage
    <3> QED BY <1>1, <2>3, <3>1, BrokenIsRead
  <2>5. CASE e.stop # "error"
    <3>1. FinishPiMessage(s, e, ok) = s
      BY <2>1, <2>2, <2>5 DEF FinishPiMessage
    <3>2. y.phase \in {"stopped", "ready", "over"}
      BY <2>1, <2>5 DEF PhaseAfter
    <3>3. CoupledPi(s, y)
      BY <1>12, <1>1, <1>4, <2>1, <2>2, <3>2 DEF CoupledPi
    <3> QED BY <1>1, <1>2, <2>3, <3>1, <3>3
  <2> QED BY <2>4, <2>5
<1>13. CASE e.type = "end"
  <2>1. /\ e.stop \in {"none", "stop"} /\ y.said = x.said /\ x.phase \in {"closing", "stopped"}
        /\ x.stop = "stop" /\ y.stop = "stop"
        /\ IF e.again THEN y.phase = "ready" ELSE y.phase = "stopped" /\ y.settled = "yes"
    BY <1>13 DEF StepPi, Breaks, SaysNothing
  <2>2. s.terminal /\ s.stop = "stop"
    BY <1>1, <2>1 DEF CoupledPi
  <2>3. ConsumePi(s, e, ok) = EndPiAgent(s, e, ok)
    BY <1>13, <1>4 DEF ConsumePi, PiEvent
  <2>4. CASE e.again
    <3>1. PICK t : t = [s EXCEPT !.completed = FALSE]
      OBVIOUS
    <3>2. t = EndPiAgent(s, e, ok)
      BY <2>1, <2>2, <2>4, <3>1 DEF EndPiAgent
    <3>3. Formed(t) /\ Held(t) = Held(s) /\ t.session = s.session /\ ~t.completed
      BY <1>1, <3>1 DEF Formed, Streams, Held
    <3>4. CoupledPi(t, y)
      BY <1>13, <1>1, <1>4, <2>1, <2>4, <3>3 DEF CoupledPi
    <3> QED BY <1>1, <1>2, <2>3, <3>2, <3>3, <3>4
  <2>5. CASE ~e.again
    <3>1. PICK t : t = Complete(s, ok)
      OBVIOUS
    <3>2. t = EndPiAgent(s, e, ok)
      BY <2>1, <2>2, <2>5, <3>1 DEF EndPiAgent
    <3>3. /\ Formed(t) /\ Held(t) = Held(s) /\ t.session = s.session /\ t.terminal = s.terminal
          /\ t.stop = s.stop
      BY <1>1, <3>1, CompleteMoves
    <3>4. CoupledPi(t, y)
      BY <1>13, <1>1, <1>4, <2>1, <2>2, <2>5, <3>3 DEF CoupledPi
    <3> QED BY <1>1, <1>2, <2>3, <3>2, <3>3, <3>4
  <2> QED BY <2>4, <2>5
<1>14. CASE e.type \in {"error", "garbage"}
  <2>1. ConsumePi(s, e, ok) \in {FailNative(s, ok), Malformed(s)}
    BY <1>14 DEF ConsumePi
  <2> QED BY <1>1, <2>1, BrokenIsRead
<1> QED BY <1>6, <1>7, <1>8, <1>9, <1>10, <1>11, <1>12, <1>13, <1>14 DEF StepPi, Breaks

\* What any CLI writes is read.
LEMMA ReadStep ==
  ASSUME MaxItems \in Nat, NoSession \notin Deliveries, NEW p \in Natives,
         NEW s, NEW x \in Living(p), NEW y \in Living(p), NEW e \in Events, NEW ok,
         Coupled(p, s, x), Step(p, x, e, y), e.type # "flood"
  PROVE  Reads(p, Consume(p, s, e, ok), y)
<1>1. CASE p = "codex"
  BY <1>1, ReadCodex DEF Step, Consume
<1>2. CASE p = "opencode"
  BY <1>2, ReadOpenCode DEF Step, Consume
<1>3. CASE p = "openclaw"
  BY <1>3, ReadDoc DEF Step, Consume
<1>4. CASE p = "pi" \/ p = "omp"
  BY <1>4, ReadPi DEF Step, Consume
<1> QED BY <1>1, <1>2, <1>3, <1>4 DEF Natives

\* What openclaw says at its end is read when it has exited.
LEMMA ReadDocument ==
  ASSUME NEW s, NEW a \in Agents, Coupled("openclaw", s, a), NEW ok
  PROVE  LET t == ConsumeOpenClaw(s, ok)
         IN  /\ Formed(t) /\ IsPrefix(Held(t), a.said)
             /\ Sound(t) => Held(t) = a.said /\ a.settled = "yes"
<1>1. /\ Formed(s) /\ Sound(s) /\ s \in Streams /\ s.document \in Seq(Events) /\ Held(s) = <<>>
      /\ a.said \in Text
  BY DEF Coupled, CoupledDoc, Formed, Streams, Agents
<1>2. <<>> \o a.said = a.said /\ IsPrefix(a.said, a.said) /\ IsPrefix(<<>>, a.said)
  <2>1. <<>> \o a.said = a.said
    BY <1>1, TextJoins
  <2>2. IsPrefix(<<>>, <<>> \o a.said)
    BY <1>1, TextJoins
  <2>3. IsPrefix(a.said, a.said)
    BY <1>1, PrefixOfSame DEF Text
  <2> QED BY <2>1, <2>2, <2>3
<1>3. CASE Len(s.document) # 1 \/ s.document[1].type # "end"
  BY <1>1, <1>2, <1>3, MalformedMoves DEF ConsumeOpenClaw
<1>4. CASE Len(s.document) = 1 /\ s.document[1].type = "end" /\ s.document[1].stop # "stop"
  <2>1. ConsumeOpenClaw(s, ok) = Fault(s, "native_failed")
    BY <1>4 DEF ConsumeOpenClaw
  <2> QED BY <1>1, <1>2, <2>1, FaultMoves DEF Moves
<1>5. CASE Len(s.document) = 1 /\ s.document[1].type = "end" /\ s.document[1].stop = "stop"
  <2>1. a.settled = "yes" /\ s.document[1].text = a.said
    BY <1>5 DEF Coupled, CoupledDoc
  <2>2. s.document[1] \in Events
    BY <1>1, <1>5, ElementOfSeq
  <2>3. PICK r : r = [s EXCEPT !.completed = TRUE, !.session = s.document[1].session]
    OBVIOUS
  <2>4. Formed(r) /\ Held(r) = <<>> /\ r.live = s.live /\ r.reply = s.reply
    <3>1. s.document[1].session \in Sessions
      BY <2>2 DEF Events
    <3> QED BY <1>1, <2>3, <3>1 DEF Formed, Streams, Held
  <2>5. CASE s.live
    <3>1. ConsumeOpenClaw(s, ok) = Add(r, a.said, ok)
      BY <1>5, <2>1, <2>3, <2>5 DEF ConsumeOpenClaw
    <3>2. Moves(r, Add(r, a.said, ok)) /\ Held(Add(r, a.said, ok)) = <<>> \o a.said
      BY <1>1, <2>4, <2>5, AddMoves
    <3> QED BY <1>2, <2>1, <3>1, <3>2 DEF Moves
  <2>6. CASE ~s.live
    <3>1. PICK t : t = [r EXCEPT !.reply = a.said]
      OBVIOUS
    <3>2. t = ConsumeOpenClaw(s, ok)
      BY <1>5, <2>1, <2>3, <2>6, <3>1 DEF ConsumeOpenClaw
    <3>3. Formed(t) /\ Held(t) = a.said
      BY <1>1, <2>4, <2>6, <3>1 DEF Formed, Streams, Held
    <3> QED BY <1>2, <2>1, <3>2, <3>3
  <2> QED BY <2>5, <2>6
<1> QED BY <1>3, <1>4, <1>5

\* A frame of a webhook.
LEMMA ReadFrame ==
  ASSUME NEW s, NEW x \in Agents, NEW y \in Agents, NEW e \in Events,
         Coupled("webhook", s, x), StepFrames(x, e, y), NEW t,
         \/ e.type = "text" /\ s.live /\ t = [s EXCEPT !.out = s.out \o e.text]
         \/ e.type = "text" /\ ~s.live /\ t = [s EXCEPT !.reply = s.reply \o e.text]
         \/ e.type # "text" /\ t = s
  PROVE  Coupled("webhook", t, y)
<1>1. /\ Formed(s) /\ Sound(s) /\ Held(s) = x.said /\ s.pending = <<>> /\ s \in Streams
      /\ s.out \in Text /\ s.reply \in Text /\ e.text \in Text
  BY DEF Coupled, CoupledFrames, Formed, Streams, Events
<1>2. CASE e.type = "text" /\ s.live
  <2>1. y.said = x.said \o e.text /\ s.out \o e.text \in Text
    BY <1>1, <1>2, TextJoins DEF StepFrames, Says, Breaks
  <2>2. t = [s EXCEPT !.out = s.out \o e.text]
    BY <1>2
  <2>3. /\ Formed(t) /\ t.out = s.out \o e.text /\ t.pending = <<>> /\ t.live /\ t.fault = s.fault
    BY <1>1, <1>2, <2>1, <2>2 DEF Formed, Streams
  <2>4. Held(s) = s.out /\ Held(t) = t.out
    BY <1>1, <1>2, <2>1, <2>3, TextJoins DEF Held
  <2> QED BY <1>1, <2>1, <2>3, <2>4 DEF Coupled, CoupledFrames, Sound
<1>3. CASE e.type = "text" /\ ~s.live
  <2>1. y.said = x.said \o e.text /\ s.reply \o e.text \in Text
    BY <1>1, <1>3, TextJoins DEF StepFrames, Says, Breaks
  <2>2. t = [s EXCEPT !.reply = s.reply \o e.text]
    BY <1>3
  <2>3. /\ Formed(t) /\ t.reply = s.reply \o e.text /\ t.pending = <<>> /\ ~t.live
        /\ t.fault = s.fault
    BY <1>1, <1>3, <2>1, <2>2 DEF Formed, Streams
  <2>4. Held(s) = s.reply /\ Held(t) = t.reply
    BY <1>3, <2>3 DEF Held
  <2> QED BY <1>1, <2>1, <2>3, <2>4 DEF Coupled, CoupledFrames, Sound
<1>4. CASE e.type # "text"
  <2>1. y.said = x.said /\ t = s
    BY <1>4 DEF StepFrames, SaysNothing, Breaks
  <2> QED BY <1>1, <2>1 DEF Coupled, CoupledFrames
<1> QED BY <1>2, <1>3, <1>4

(***************************************************************************)
(* What is still to be read.  Between the stream s and the Harness at a are *)
(* the events u; h holds where the Harness was before each of them.         *)
(***************************************************************************)

Emits(p, x, e, y) == \E z \in Living(p) : Quiet(p, x, z) /\ Step(p, z, e, y)

FollowBy(p, s, u, a, h) ==
  /\ h \in Seq(Living(p)) /\ Len(h) = Len(u) + 1
  /\ Coupled(p, s, h[1])
  /\ \A i \in 1 .. Len(u) : Emits(p, h[i], u[i], h[i + 1])
  /\ Quiet(p, h[Len(u) + 1], a)
  /\ \A i \in 1 .. Len(u) + 1 : IsPrefix(h[i].said, a.said)

Follow(p, s, u, a) == \E h : FollowBy(p, s, u, a, h)

Everyone == Natives \cup {"webhook"}

\* Nothing is taken back later either.
LEMMA GrowsOn ==
  ASSUME NEW p, NEW x \in Living(p), NEW y \in Living(p), NEW z \in Living(p),
         IsPrefix(x.said, y.said), Quiet(p, y, z) \/ \E e \in Events : Step(p, y, e, z)
  PROVE  IsPrefix(x.said, z.said)
<1>1. x \in Agents /\ y \in Agents /\ z \in Agents
  BY DEF Living
<1>2. IsPrefix(y.said, z.said)
  BY <1>1, StepGrows
<1>3. x.said \in Seq(Nat) /\ y.said \in Seq(Nat) /\ z.said \in Seq(Nat)
  BY <1>1 DEF Agents, Text
<1> QED BY <1>2, <1>3, PrefixOfPrefix

\* When everything is read, stream and Harness are together.
LEMMA FollowNone ==
  ASSUME NEW p \in Everyone, NEW s, NEW a \in Living(p)
  PROVE  Follow(p, s, <<>>, a) <=> Coupled(p, s, a)
<1>1. ASSUME Follow(p, s, <<>>, a) PROVE Coupled(p, s, a)
  <2>1. PICK h : FollowBy(p, s, <<>>, a, h)
    BY <1>1 DEF Follow
  <2>2. h \in Seq(Living(p)) /\ Len(h) = 1 /\ Coupled(p, s, h[1]) /\ Quiet(p, h[1], a)
    BY <2>1 DEF FollowBy
  <2>3. h[1] \in Living(p)
    BY <2>2, ElementOfSeq
  <2> QED BY <2>2, <2>3, QuietCoupled DEF Everyone
<1>2. ASSUME Coupled(p, s, a) PROVE Follow(p, s, <<>>, a)
  <2>1. PICK h : h = <<a>>
    OBVIOUS
  <2>2. h \in Seq(Living(p)) /\ Len(h) = 1 /\ h[1] = a
    BY <2>1
  <2>3. IsPrefix(a.said, a.said)
    BY PrefixOfSame DEF Living, Agents, Text
  <2>4. FollowBy(p, s, <<>>, a, h)
    BY <1>2, <2>2, <2>3 DEF FollowBy, Quiet
  <2> QED BY <2>4 DEF Follow
<1> QED BY <1>1, <1>2

\* A Harness that moves quietly is still followed.
LEMMA FollowQuiet ==
  ASSUME NEW p \in Everyone, NEW s, NEW u \in Seq(Events), NEW a \in Living(p),
         NEW b \in Living(p), Follow(p, s, u, a), Quiet(p, a, b)
  PROVE  Follow(p, s, u, b)
<1>1. PICK h : FollowBy(p, s, u, a, h)
  BY DEF Follow
<1>2. Len(u) \in Nat
  BY LenProperties
<1>3. \A i \in 1 .. Len(u) + 1 : h[i] \in Living(p)
  BY <1>1, ElementOfSeq DEF FollowBy
<1>4. Quiet(p, h[Len(u) + 1], b)
  <2>1. h[Len(u) + 1] \in Living(p) /\ Quiet(p, h[Len(u) + 1], a)
    BY <1>1, <1>2, <1>3 DEF FollowBy
  <2> QED BY <2>1, QuietQuiet DEF Everyone
<1>5. \A i \in 1 .. Len(u) + 1 : IsPrefix(h[i].said, b.said)
  BY <1>1, <1>3, GrowsOn DEF FollowBy
<1>6. FollowBy(p, s, u, b, h)
  BY <1>1, <1>4, <1>5 DEF FollowBy
<1> QED BY <1>6 DEF Follow

\* A Harness that writes is followed one event further.
LEMMA FollowWrite ==
  ASSUME NEW p \in Everyone, NEW s, NEW u \in Seq(Events), NEW a \in Living(p),
         NEW b \in Living(p), NEW e \in Events, Follow(p, s, u, a), Emits(p, a, e, b)
  PROVE  Follow(p, s, Append(u, e), b)
<1>1. PICK z \in Living(p) : Quiet(p, a, z) /\ Step(p, z, e, b)
  BY DEF Emits
<1>2. PICK h : FollowBy(p, s, u, z, h)
  BY <1>1, FollowQuiet DEF Follow
<1>3. PICK n \in Nat : n = Len(u)
  BY LenProperties
<1>4. /\ h \in Seq(Living(p)) /\ Len(h) = n + 1 /\ Coupled(p, s, h[1])
      /\ \A i \in 1 .. n : Emits(p, h[i], u[i], h[i + 1])
      /\ Quiet(p, h[n + 1], z)
      /\ \A i \in 1 .. n + 1 : IsPrefix(h[i].said, z.said)
  BY <1>2, <1>3 DEF FollowBy
<1>5. PICK g : g = Append(h, b)
  OBVIOUS
<1>6. /\ g \in Seq(Living(p)) /\ Len(g) = n + 2 /\ g[n + 2] = b
      /\ \A i \in 1 .. n + 1 : g[i] = h[i]
  BY <1>4, <1>5, AppendProperties
<1>7. PICK v : v = Append(u, e)
  OBVIOUS
<1>8. v \in Seq(Events) /\ Len(v) = n + 1 /\ v[n + 1] = e /\ \A i \in 1 .. n : v[i] = u[i]
  BY <1>3, <1>7, AppendProperties
<1>9. \A i \in 1 .. n + 1 : h[i] \in Living(p)
  BY <1>4, ElementOfSeq
<1>10. \A i \in 1 .. n + 1 : Emits(p, g[i], v[i], g[i + 1])
  <2>1. ASSUME NEW i \in 1 .. n PROVE Emits(p, g[i], v[i], g[i + 1])
    <3>1. g[i] = h[i] /\ g[i + 1] = h[i + 1] /\ v[i] = u[i]
      BY <1>6, <1>8
    <3> QED BY <1>4, <3>1
  <2>2. Emits(p, g[n + 1], v[n + 1], g[n + 2])
    <3>1. g[n + 1] = h[n + 1]
      BY <1>6
    <3> QED BY <1>1, <1>4, <1>6, <1>8, <3>1 DEF Emits
  <2> QED BY <2>1, <2>2
<1>11. \A i \in 1 .. n + 2 : IsPrefix(g[i].said, b.said)
  <2>1. ASSUME NEW i \in 1 .. n + 1 PROVE IsPrefix(g[i].said, b.said)
    <3>1. g[i] = h[i] /\ h[i] \in Living(p) /\ IsPrefix(h[i].said, z.said)
      BY <1>4, <1>6, <1>9
    <3> QED BY <1>1, <3>1, GrowsOn
  <2>2. IsPrefix(g[n + 2].said, b.said)
    BY <1>6, PrefixOfSame DEF Living, Agents, Text
  <2> QED BY <2>1, <2>2
<1>12. Coupled(p, s, g[1]) /\ Quiet(p, g[n + 2], b)
  BY <1>4, <1>6 DEF Quiet
<1>13. FollowBy(p, s, v, b, g)
  <2>1. Len(v) + 1 = n + 2 /\ Len(g) = Len(v) + 1
    BY <1>6, <1>8
  <2> QED BY <1>6, <1>8, <1>10, <1>11, <1>12, <2>1 DEF FollowBy
<1> QED BY <1>7, <1>13 DEF Follow

\* The first event was written when the Harness was at z, and led to y.
LEMMA FollowRead ==
  ASSUME NEW p \in Everyone, NEW s, NEW u \in Seq(Events), u # <<>>, NEW a \in Living(p),
         Follow(p, s, u, a)
  PROVE  \E z, y \in Living(p) :
           /\ Coupled(p, s, z) /\ Step(p, z, Head(u), y) /\ IsPrefix(y.said, a.said)
           /\ \A t : Coupled(p, t, y) => Follow(p, t, Tail(u), a)
           /\ p = "webhook" /\ y.phase = "over" => a = y
<1>1. PICK h : FollowBy(p, s, u, a, h)
  BY DEF Follow
<1>2. PICK n \in Nat : Len(u) = n + 1
  <2>1. Len(u) \in Nat /\ Len(u) # 0
    BY LenProperties, EmptySeq
  <2> QED BY <2>1
<1>3. /\ h \in Seq(Living(p)) /\ Len(h) = n + 2 /\ Coupled(p, s, h[1])
      /\ \A i \in 1 .. n + 1 : Emits(p, h[i], u[i], h[i + 1])
      /\ Quiet(p, h[n + 2], a)
      /\ \A i \in 1 .. n + 2 : IsPrefix(h[i].said, a.said)
  BY <1>1, <1>2 DEF FollowBy
<1>4. \A i \in 1 .. n + 2 : h[i] \in Living(p)
  BY <1>3, ElementOfSeq
<1>5. PICK y : y = h[2]
  OBVIOUS
<1>6. PICK z \in Living(p) : Quiet(p, h[1], z) /\ Step(p, z, u[1], y)
  BY <1>3, <1>5 DEF Emits
<1>7. y \in Living(p) /\ IsPrefix(y.said, a.said) /\ h[1] \in Living(p)
  BY <1>3, <1>4, <1>5
<1>8. Coupled(p, s, z)
  BY <1>3, <1>6, <1>7, QuietCoupled DEF Everyone
<1>9. Head(u) = u[1]
  BY HeadTailProperties
<1>10. PICK v : v = Tail(u)
  OBVIOUS
<1>11. v \in Seq(Events) /\ Len(v) = n /\ \A i \in 1 .. n : v[i] = u[i + 1]
  BY <1>2, <1>10, HeadTailProperties
<1>12. PICK g : g = Tail(h)
  OBVIOUS
<1>13. g \in Seq(Living(p)) /\ Len(g) = n + 1 /\ \A i \in 1 .. n + 1 : g[i] = h[i + 1]
  <2>1. h # <<>>
    BY <1>3
  <2> QED BY <1>3, <1>12, <2>1, HeadTailProperties
<1>14. ASSUME NEW t, Coupled(p, t, y) PROVE Follow(p, t, v, a)
  <2>1. Coupled(p, t, g[1]) /\ Quiet(p, g[n + 1], a)
    BY <1>3, <1>5, <1>13, <1>14
  <2>2. \A i \in 1 .. n : Emits(p, g[i], v[i], g[i + 1])
    <3> SUFFICES ASSUME NEW i \in 1 .. n PROVE Emits(p, g[i], v[i], g[i + 1])
      OBVIOUS
    <3>1. i \in 1 .. n + 1 /\ i + 1 \in 1 .. n + 1
      OBVIOUS
    <3>2. g[i] = h[i + 1] /\ g[i + 1] = h[(i + 1) + 1] /\ v[i] = u[i + 1]
      BY <1>11, <1>13, <3>1
    <3>3. Emits(p, h[i + 1], u[i + 1], h[(i + 1) + 1])
      BY <1>3, <3>1
    <3> QED BY <3>2, <3>3
  <2>3. \A i \in 1 .. n + 1 : IsPrefix(g[i].said, a.said)
    <3> SUFFICES ASSUME NEW i \in 1 .. n + 1 PROVE IsPrefix(g[i].said, a.said)
      OBVIOUS
    <3>1. g[i] = h[i + 1] /\ i + 1 \in 1 .. n + 2
      BY <1>13
    <3> QED BY <1>3, <3>1
  <2>4. FollowBy(p, t, v, a, g)
    BY <1>11, <1>13, <2>1, <2>2, <2>3 DEF FollowBy
  <2> QED BY <2>4 DEF Follow
<1>15. ASSUME p = "webhook", y.phase = "over" PROVE a = y
  <2>1. n = 0
    <3> SUFFICES ASSUME n # 0 PROVE FALSE
      OBVIOUS
    <3>1. Emits(p, h[2], u[2], h[3])
      <4>1. 2 \in 1 .. n + 1 /\ 2 + 1 = 3
        OBVIOUS
      <4> QED BY <1>3, <4>1
    <3>2. PICK w : Quiet(p, y, w) /\ Step(p, w, u[2], h[3])
      BY <1>5, <3>1 DEF Emits
    <3> QED BY <1>15, <3>2 DEF Quiet, Step, StepFrames
  <2> QED BY <1>3, <1>5, <1>15, <2>1 DEF Quiet
<1> QED BY <1>6, <1>7, <1>8, <1>9, <1>10, <1>14, <1>15

\* An event of a CLI is read.
LEMMA FollowConsume ==
  ASSUME MaxItems \in Nat, NoSession \notin Deliveries, NEW p \in Natives,
         NEW s, NEW u \in Seq(Events), u # <<>>, NEW a \in Living(p), Follow(p, s, u, a), NEW ok,
         NEW t, t = IF Head(u).type = "flood" THEN Fault(s, "event_limit")
                    ELSE Consume(p, s, Head(u), ok)
  PROVE  Formed(t) /\ IsPrefix(Held(t), a.said) /\ (Sound(t) => Follow(p, t, Tail(u), a))
<1>1. PICK z, y \in Living(p) :
        /\ Coupled(p, s, z) /\ Step(p, z, Head(u), y) /\ IsPrefix(y.said, a.said)
        /\ \A r : Coupled(p, r, y) => Follow(p, r, Tail(u), a)
  BY FollowRead DEF Everyone
<1>2. Head(u) \in Events /\ z \in Agents /\ y \in Agents /\ a \in Agents
  BY HeadTailProperties DEF Living
<1>3. Reads(p, t, y)
  <2>1. CASE Head(u).type = "flood"
    <3>1. IsPrefix(Held(s), y.said) /\ Formed(s)
      <4>1. IsPrefix(z.said, y.said) /\ Formed(s) /\ (p # "openclaw" => Held(s) = z.said)
            /\ (p = "openclaw" => Held(s) = <<>>)
        BY <1>1, <1>2, StepGrows
           DEF Coupled, CoupledItems, CoupledPi, CoupledDoc, Natives
      <4>2. y.said \in Text /\ <<>> \o y.said = y.said
        BY <1>2, TextJoins DEF Agents
      <4>3. IsPrefix(<<>>, y.said)
        BY <4>2, TextJoins
      <4> QED BY <4>1, <4>3
    <3>2. t = Fault(s, "event_limit")
      BY <2>1
    <3> QED BY <1>2, <3>1, <3>2, BrokenIsRead
  <2>2. CASE Head(u).type # "flood"
    BY <1>1, <1>2, <2>2, ReadStep
  <2> QED BY <2>1, <2>2
<1>4. IsPrefix(Held(t), a.said)
  <2>1. Held(t) \in Seq(Nat) /\ y.said \in Seq(Nat) /\ a.said \in Seq(Nat)
    BY <1>2, <1>3, ToldIsHeld DEF Reads, Agents, Text
  <2> QED BY <1>1, <1>3, <2>1, PrefixOfPrefix DEF Reads
<1> QED BY <1>1, <1>3, <1>4 DEF Reads

(***************************************************************************)
(* The invariant.  A row is all that concerns one delivery.                 *)
(***************************************************************************)

Places == {"idle", "running", "finish", "save", "posted", "frames", "done", "gone"}
Procs == {"none", "alive", "zero", "nonzero"}
Verdicts == [kind : {"none", "completed", "accepted", "ignored", "failed", "retry"},
             maybe : BOOLEAN]

Unread(pi, ta) == IF ta = <<>> THEN pi ELSE ta

IsNew(pi, ta, s, re, a) ==
  /\ pi = <<>> /\ ta = <<>> /\ s = NewStream(TRUE, NoSession) /\ re = NoSession /\ a = Dormant

\* A CLI runs, in a session of its own or the one it was given.
IsNative(p, d, c, re, a) ==
  p \in Natives /\ c \in Messages /\ a \in Living(p) /\ a.session \in {NoSession, d, re}

IsRunning(p, pr, pi, ta, s, a) ==
  /\ ta # <<>> => /\ pi = <<>> /\ Sound(s) /\ pr # "alive"
                  /\ Len(ta) = 1 /\ ta[1].type # "flood"
  /\ Sound(s) => Follow(p, s, Unread(pi, ta), a)

IsSaved(p, s, a) ==
  /\ a.settled = "yes" /\ Told(s) = a.said
  /\ p # "openclaw" => s.session = a.session /\ a.session # NoSession

IsPosted(p, c, pi, ta, s, a) ==
  /\ p = "webhook" /\ c \in Messages /\ pi = <<>> /\ ta = <<>>
  /\ s \in {NewStream(TRUE, NoSession), NewStream(FALSE, NoSession)}
  /\ a = [Dormant EXCEPT !.phase = "turn"]

IsFrames(p, c, pi, ta, s, a) ==
  p = "webhook" /\ c \in Messages /\ ta = <<>> /\ Follow(p, s, pi, a)

\* The claims of VerdictIsEarned and AnswerIsWhole about a result.
IsEarned(p, c, pr, s, v, a) ==
  /\ v.kind = "completed" => /\ a.settled = "yes" /\ Told(s) = a.said
                             /\ p # "webhook" => pr = "zero"
  /\ v = Verdict("failed", FALSE) => a.phase = "none" \/ (p = "webhook" /\ a.phase = "over")
  /\ v.kind = "retry" => a.phase = "none" \/ c.kind = "feedback"

Row(p, d, c, l, pr, pi, ta, s, re, v, a) ==
  /\ c \in Messages \cup {NoConv} /\ l \in Places /\ pr \in Procs
  /\ pi \in Seq(Events) /\ ta \in Seq(Events) /\ re \in Sessions /\ v \in Verdicts
  /\ Formed(s) /\ a \in Agents /\ IsPrefix(Held(s), a.said)
  /\ (l # "done" => v = Pending)
  /\ (l = "idle" => IsNew(pi, ta, s, re, a))
  /\ (l = "gone" => re = NoSession)
  /\ (l \in {"running", "finish", "save"} => IsNative(p, d, c, re, a))
  /\ (l = "running" => IsRunning(p, pr, pi, ta, s, a))
  /\ (l = "finish" => pr = "zero" /\ Coupled(p, s, a))
  /\ (l = "save" => pr = "zero" /\ IsSaved(p, s, a))
  /\ (l = "posted" => IsPosted(p, c, pi, ta, s, a))
  /\ (l = "frames" => IsFrames(p, c, pi, ta, s, a))
  /\ (l = "done" => IsEarned(p, c, pr, s, v, a))

Shape ==
  /\ product \in Everyone
  /\ conv \in [Deliveries -> Messages \cup {NoConv}]
  /\ at \in [Deliveries -> Places]
  /\ proc \in [Deliveries -> Procs]
  /\ pipe \in [Deliveries -> Seq(Events)]
  /\ tail \in [Deliveries -> Seq(Events)]
  /\ stream \in [Deliveries -> Streams]
  /\ resumed \in [Deliveries -> Sessions]
  /\ verdict \in [Deliveries -> Verdicts]
  /\ agent \in [Deliveries -> Agents]
  /\ sessions \in [Keys -> Sessions]
  /\ says \in Int

Rows ==
  \A d \in Deliveries : Row(product, d, conv[d], at[d], proc[d], pipe[d], tail[d], stream[d],
                          resumed[d], verdict[d], agent[d])

\* A session is named after the delivery that began it, which has begun: whoever
\* continues it, and the store, name it for the same scope only.
Continued ==
  \A d \in Deliveries : resumed[d] # NoSession =>
    ScopedKey(resumed[d], conv[resumed[d]]) = ScopedKey(d, conv[d]) /\ at[resumed[d]] # "idle"

Stored ==
  \A k \in Keys : sessions[k] # NoSession =>
    ScopedKey(sessions[k], conv[sessions[k]]) = k /\ at[sessions[k]] # "idle"

Finished ==
  \A k \in Keys : sessions[k] # NoSession =>
    \E d \in Deliveries : /\ at[d] \in {"done", "gone"} /\ ScopedKey(d, conv[d]) = k
                          /\ agent[d].session = sessions[k] /\ agent[d].settled = "yes"

Invariant == Shape /\ Rows /\ Continued /\ Stored /\ Finished

Changed(d, c, l, pr, pi, ta, s, re, v, a) ==
  /\ product' = product
  /\ conv' = [conv EXCEPT ![d] = c]
  /\ at' = [at EXCEPT ![d] = l]
  /\ proc' = [proc EXCEPT ![d] = pr]
  /\ pipe' = [pipe EXCEPT ![d] = pi]
  /\ tail' = [tail EXCEPT ![d] = ta]
  /\ stream' = [stream EXCEPT ![d] = s]
  /\ resumed' = [resumed EXCEPT ![d] = re]
  /\ verdict' = [verdict EXCEPT ![d] = v]
  /\ agent' = [agent EXCEPT ![d] = a]

\* A step that concerns one delivery keeps the rows if it keeps that one.
LEMMA RowChanges ==
  ASSUME Shape, Rows, NEW d \in Deliveries, NEW c, NEW l, NEW pr, NEW pi, NEW ta, NEW s, NEW re,
         NEW v, NEW a, Changed(d, c, l, pr, pi, ta, s, re, v, a),
         Row(product, d, c, l, pr, pi, ta, s, re, v, a),
         sessions' \in [Keys -> Sessions], says' \in Int
  PROVE  Shape' /\ Rows'
<1>1. /\ c \in Messages \cup {NoConv} /\ l \in Places /\ pr \in Procs
      /\ pi \in Seq(Events) /\ ta \in Seq(Events) /\ s \in Streams /\ re \in Sessions
      /\ v \in Verdicts /\ a \in Agents
  BY DEF Row, Formed
<1>2. Shape'
  BY <1>1 DEF Shape, Changed
<1>3. ASSUME NEW x \in Deliveries
      PROVE  Row(product', x, conv'[x], at'[x], proc'[x], pipe'[x], tail'[x], stream'[x],
                 resumed'[x], verdict'[x], agent'[x])
  <2>1. CASE x = d
    <3>1. /\ product' = product /\ conv'[x] = c /\ at'[x] = l /\ proc'[x] = pr
          /\ pipe'[x] = pi /\ tail'[x] = ta /\ stream'[x] = s /\ resumed'[x] = re
          /\ verdict'[x] = v /\ agent'[x] = a
      BY <2>1 DEF Shape, Changed
    <3> QED BY <2>1, <3>1
  <2>2. CASE x # d
    <3>1. /\ product' = product /\ conv'[x] = conv[x] /\ at'[x] = at[x] /\ proc'[x] = proc[x]
          /\ pipe'[x] = pipe[x] /\ tail'[x] = tail[x] /\ stream'[x] = stream[x]
          /\ resumed'[x] = resumed[x] /\ verdict'[x] = verdict[x] /\ agent'[x] = agent[x]
      BY <2>2 DEF Shape, Changed
    <3>2. Row(product, x, conv[x], at[x], proc[x], pipe[x], tail[x], stream[x],
              resumed[x], verdict[x], agent[x])
      BY DEF Rows
    <3> QED BY <3>1, <3>2
  <2> QED BY <2>1, <2>2
<1>4. Rows'
  BY <1>3 DEF Rows
<1> QED BY <1>2, <1>4

\* A step that neither begins, ends nor releases a conversation.
LEMMA KeepsConversations ==
  ASSUME Shape, Continued, Stored, Finished, NEW d \in Deliveries, NEW l, NEW pr, NEW pi, NEW ta,
         NEW s, NEW v, NEW a,
         Changed(d, conv[d], l, pr, pi, ta, s, resumed[d], v, a), sessions' = sessions,
         at[d] \notin {"done", "gone"}, l # "idle", NoSession \notin Deliveries
  PROVE  Continued' /\ Stored' /\ Finished'
<1>1. conv' = conv /\ resumed' = resumed
  BY DEF Changed, Shape
<1>2. \A x \in Deliveries : /\ at[x] # "idle" => at'[x] # "idle"
                            /\ at[x] \in {"done", "gone"} =>
                                 at'[x] = at[x] /\ agent'[x] = agent[x]
  BY DEF Changed, Shape
<1>3. Continued'
  <2>1. ASSUME NEW x \in Deliveries, resumed[x] # NoSession
        PROVE  /\ ScopedKey(resumed[x], conv[resumed[x]]) = ScopedKey(x, conv[x])
               /\ at'[resumed[x]] # "idle"
    <3>1. resumed[x] \in Deliveries
      BY <2>1 DEF Shape, Sessions
    <3>2. at'[resumed[x]] # "idle"
      BY <1>2, <2>1, <3>1 DEF Continued
    <3> QED BY <2>1, <3>2 DEF Continued
  <2> QED BY <1>1, <2>1 DEF Continued
<1>4. Stored'
  <2>1. ASSUME NEW k \in Keys, sessions[k] # NoSession
        PROVE  /\ ScopedKey(sessions[k], conv[sessions[k]]) = k
               /\ at'[sessions[k]] # "idle"
    <3>1. sessions[k] \in Deliveries
      BY <2>1 DEF Shape, Sessions
    <3>2. at'[sessions[k]] # "idle"
      BY <1>2, <2>1, <3>1 DEF Stored
    <3> QED BY <2>1, <3>2 DEF Stored
  <2> QED BY <1>1, <2>1 DEF Stored
<1>5. Finished'
  <2>1. ASSUME NEW k \in Keys, sessions[k] # NoSession
        PROVE  \E x \in Deliveries : /\ at'[x] \in {"done", "gone"}
                   /\ ScopedKey(x, conv[x]) = k
                   /\ agent'[x].session = sessions[k] /\ agent'[x].settled = "yes"
    BY <1>2, <2>1 DEF Finished
  <2> QED BY <1>1, <2>1 DEF Finished
<1> QED BY <1>3, <1>4, <1>5

\* Such a step keeps the invariant if it keeps its row.
LEMMA Steady ==
  ASSUME Invariant, NEW d \in Deliveries, NEW l, NEW pr, NEW pi, NEW ta, NEW s, NEW v, NEW a,
         Changed(d, conv[d], l, pr, pi, ta, s, resumed[d], v, a),
         Row(product, d, conv[d], l, pr, pi, ta, s, resumed[d], v, a),
         sessions' = sessions, says' \in Int, NoSession \notin Deliveries,
         at[d] \notin {"done", "gone"}, l # "idle"
  PROVE  Invariant'
<1>1. sessions' \in [Keys -> Sessions]
  BY DEF Invariant, Shape
<1>2. Shape' /\ Rows'
  BY <1>1, RowChanges DEF Invariant
<1>3. Continued' /\ Stored' /\ Finished'
  BY KeepsConversations DEF Invariant
<1> QED BY <1>2, <1>3 DEF Invariant

\* A stream of which nothing was read.
LEMMA NewStreams ==
  ASSUME MaxItems \in Nat, NEW live \in BOOLEAN, NEW expected \in Sessions
  PROVE  LET s == NewStream(live, expected)
         IN  /\ Formed(s) /\ Held(s) = <<>> /\ Sound(s) /\ ~s.completed /\ s.live = live
             /\ s.pending = <<>> /\ s.session = NoSession /\ s.document = <<>>
             /\ \A i \in 1 .. MaxItems : s.items[i] = <<>>
<1>1. PICK s : s = NewStream(live, expected)
  OBVIOUS
<1>2. <<>> \in Text /\ <<>> \in Seq(Events) /\ <<>> \o <<>> = <<>>
  BY TextJoins
<1>3. s \in Streams
  BY <1>1, <1>2 DEF NewStream, Streams, Sessions, Stops
<1> QED BY <1>1, <1>2, <1>3 DEF NewStream, Formed, Held, Sound

\* A Harness that has done nothing.
LEMMA Dormants ==
  ASSUME NEW p \in Everyone, MaxItems \in Nat
  PROVE  /\ Dormant \in Agents /\ Dormant.phase = "none" /\ Dormant.said = <<>>
         /\ [Dormant EXCEPT !.phase = "turn"] \in Agents
         /\ [Dormant EXCEPT !.phase = "boot"] \in Living(p)
<1>1. <<>> \in Text /\ 0 \in 0 .. MaxItems
  BY TextJoins
<1>2. /\ Dormant \in Agents /\ Dormant.phase = "none" /\ Dormant.said = <<>>
      /\ Dormant.settled = "no" /\ Dormant.session = NoSession
  BY <1>1 DEF Dormant, Agents, Sessions, Stops
<1>3. PICK b : b = [Dormant EXCEPT !.phase = "boot"]
  OBVIOUS
<1>4. b \in Agents /\ b.phase = "boot" /\ b.settled = "no" /\ b.session = NoSession
  BY <1>2, <1>3 DEF Agents
<1>5. [Dormant EXCEPT !.phase = "turn"] \in Agents
  BY <1>2 DEF Agents
<1> QED BY <1>2, <1>3, <1>4, <1>5 DEF Living

\* The adapter begins in the invariant.
LEMMA InitInvariant ==
  ASSUME AdapterInit
  PROVE  Invariant
<1>1. MaxItems \in Nat /\ Products \subseteq Everyone
  BY AdapterAssumption DEF Everyone, Natives
<1>2. /\ Formed(NewStream(TRUE, NoSession)) /\ Held(NewStream(TRUE, NoSession)) = <<>>
      /\ NewStream(TRUE, NoSession) \in Streams
  BY <1>1, NewStreams DEF Sessions, Formed
<1>3. Dormant \in Agents /\ Dormant.said = <<>> /\ "webhook" \in Everyone
  BY <1>1, Dormants DEF Everyone
<1>4. Pending \in Verdicts /\ <<>> \in Seq(Events) /\ IsPrefix(<<>>, <<>>)
  <2>1. IsPrefix(<<>>, <<>>)
    BY TextJoins, PrefixOfSame DEF Text
  <2> QED BY <2>1 DEF Pending, Verdicts
<1>5. Shape
  <2>1. product \in Everyone /\ says \in Int
    BY <1>1 DEF AdapterInit
  <2>2. /\ conv \in [Deliveries -> Messages \cup {NoConv}]
        /\ verdict \in [Deliveries -> Verdicts]
    BY <1>4 DEF AdapterInit
  <2>3. at \in [Deliveries -> Places] /\ proc \in [Deliveries -> Procs]
    BY DEF AdapterInit, Places, Procs
  <2>4. pipe \in [Deliveries -> Seq(Events)] /\ tail \in [Deliveries -> Seq(Events)]
    BY <1>4 DEF AdapterInit
  <2>5. stream \in [Deliveries -> Streams] /\ agent \in [Deliveries -> Agents]
    BY <1>2, <1>3 DEF AdapterInit
  <2>6. resumed \in [Deliveries -> Sessions] /\ sessions \in [Keys -> Sessions]
    BY DEF AdapterInit, Sessions
  <2> QED BY <2>1, <2>2, <2>3, <2>4, <2>5, <2>6 DEF Shape
<1>6. ASSUME NEW d \in Deliveries
      PROVE  Row(product, d, NoConv, "idle", "none", <<>>, <<>>, NewStream(TRUE, NoSession),
                 NoSession, Pending, Dormant)
  BY <1>2, <1>3, <1>4 DEF Row, IsNew, Places, Procs, Sessions
<1>7. Rows
  BY <1>6 DEF AdapterInit, Rows
<1>8. Continued /\ Stored /\ Finished
  BY DEF AdapterInit, Continued, Stored, Finished
<1> QED BY <1>5, <1>7, <1>8 DEF Invariant

(***************************************************************************)
(* What a native CLI does is a quiet step or a step that it tells.          *)
(***************************************************************************)

Writes(d, e) == pipe' = [pipe EXCEPT ![d] = Append(pipe[d], e)]

Acts(d) ==
  \E b \in Living(product) :
    /\ at[d] = "running" /\ proc[d] = "alive" /\ proc' = proc /\ sessions' = sessions
    /\ says' \in Int
    /\ agent' = [agent EXCEPT ![d] = b] /\ b.session \in {NoSession, d, resumed[d]}
    /\ \/ pipe' = pipe /\ Quiet(product, agent[d], b)
       \/ \E e \in Events : Writes(d, e) /\ Emits(product, agent[d], e, b)

\* The CLI of a delivery that runs.
Cli(d) ==
  /\ Shape /\ MaxItems \in Nat /\ product \in Natives /\ agent[d] \in Living(product)
  /\ agent[d].session \in {NoSession, d, resumed[d]}

\* Where a process runs, the Harness is a CLI.
LEMMA ARunIsOfACli ==
  ASSUME Invariant, MaxItems \in Nat, NEW d \in Deliveries, at[d] = "running"
  PROVE  Cli(d)
<1>1. Row(product, d, conv[d], at[d], proc[d], pipe[d], tail[d], stream[d], resumed[d],
          verdict[d], agent[d])
  BY DEF Invariant, Rows
<1> QED BY <1>1 DEF Row, IsNative, Cli, Invariant

\* What is said next is text.
LEMMA FreshText ==
  ASSUME Shape, NEW d \in Deliveries, NEW n \in Nat
  PROVE  Fresh(d, n) \in Text /\ (n = 0 => Fresh(d, n) = <<>>)
<1>1. Len(agent[d].said) \in Nat
  BY LenProperties DEF Shape, Agents, Text
<1>2. Fresh(d, n) \in [1 .. n -> Nat]
  BY <1>1 DEF Fresh
<1>3. Fresh(d, n) \in Seq(Nat) /\ Len(Fresh(d, n)) = n
  <2>1. Fresh(d, n) \in Seq(Nat)
    BY <1>2, IsASeq DEF Fresh
  <2>2. DOMAIN Fresh(d, n) = 1 .. n
    BY <1>2
  <2> QED BY <2>1, <2>2, LenProperties
<1> QED BY <1>3, EmptySeq DEF Text

\* The Harness that has said it.
LEMMA SaidMore ==
  ASSUME Shape, NEW d \in Deliveries, NEW n \in Nat
  PROVE  LET b == Said(d, n)  a == agent[d]  f == Fresh(d, n)
         IN  /\ b \in Agents /\ b.said = a.said \o f /\ b.part = a.part \o f
             /\ b.phase = a.phase /\ b.turn = a.turn /\ b.item = a.item /\ b.session = a.session
             /\ b.stop = a.stop /\ b.settled = a.settled /\ b.quiet = a.quiet
<1>1. PICK f \in Text : f = Fresh(d, n)
  BY FreshText
<1>2. PICK a \in Agents : a = agent[d]
  BY DEF Shape
<1>3. a.said \o f \in Text /\ a.part \o f \in Text
  BY TextJoins DEF Agents
<1>4. PICK b : b = [a EXCEPT !.said = a.said \o f, !.part = a.part \o f]
  OBVIOUS
<1>5. b = Said(d, n)
  BY <1>1, <1>2, <1>4 DEF Said
<1>6. /\ b \in Agents /\ b.said = a.said \o f /\ b.part = a.part \o f
      /\ b.phase = a.phase /\ b.turn = a.turn /\ b.item = a.item /\ b.session = a.session
      /\ b.stop = a.stop /\ b.settled = a.settled /\ b.quiet = a.quiet
  BY <1>2, <1>3, <1>4 DEF Agents
<1> QED BY <1>1, <1>2, <1>5, <1>6

\* An action of the Harness concerns one delivery.
LEMMA ActKeeps ==
  ASSUME Shape, NEW d \in Deliveries, NEW b \in Agents, Act(d, b)
  PROVE  /\ agent' = [agent EXCEPT ![d] = b] /\ says' \in Int /\ proc' = proc
         /\ sessions' = sessions
<1>1. Len(b.said) \in Nat /\ Len(agent[d].said) \in Nat /\ says \in Int
  BY LenProperties DEF Shape, Agents, Text
<1>2. says' = says + Len(b.said) - Len(agent[d].said)
  BY DEF Act
<1>3. says' \in Int
  BY <1>1, <1>2
<1> QED BY <1>3 DEF Act, kept

\* An event as the Harness writes it.
LEMMA EventIs ==
  ASSUME NEW d \in Deliveries, Cli(d), NEW type,
         type \in {"session", "begin", "message_start", "delta", "message_end", "text", "end",
                   "error", "garbage", "flood"}
  PROVE  LET e == Event(type, d)
         IN  /\ e \in Events /\ e.type = type /\ e.session = agent[d].session
             /\ e.item = 0 /\ e.text = <<>> /\ e.final /\ e.role = "assistant"
<1>1. agent[d].session \in Sessions /\ agent[d].turn \in Nat /\ agent[d].item \in 0 .. MaxItems
  BY DEF Cli, Shape, Agents
<1>2. <<>> \in Text /\ 0 \in 0 .. MaxItems
  BY TextJoins DEF Cli
<1> QED BY <1>1, <1>2 DEF Event, Events, Stops

\* A CLI announces its session.
LEMMA AnnounceActs ==
  ASSUME NEW d \in Deliveries, Cli(d), Announce(d), NoSession \notin Deliveries
  PROVE  Acts(d)
<1>1. PICK id \in {d, resumed[d]} \ {NoSession} :
        /\ agent' = [agent EXCEPT ![d].phase = "ready", ![d].session = id]
        /\ IF product = "codex" \/ Pi
           THEN Write(d, [Event("session", d) EXCEPT !.session = id])
           ELSE pipe' = pipe
  BY DEF Announce
<1>2. /\ at[d] = "running" /\ proc[d] = "alive" /\ agent[d].phase = "boot" /\ proc' = proc
      /\ sessions' = sessions /\ says' = says /\ says' \in Int
  BY DEF Announce, Alive, Cli, Shape
<1>3. agent[d] \in Agents /\ id \in Sessions /\ agent[d].settled # "yes"
  BY <1>1, <1>2 DEF Cli, Shape, Living, Natives, Sessions
<1>4. PICK b : b = [agent[d] EXCEPT !.phase = "ready", !.session = id]
  OBVIOUS
<1>5. agent' = [agent EXCEPT ![d] = b]
  BY <1>1, <1>4 DEF Cli, Shape
<1>6. /\ b \in Agents /\ b.phase = "ready" /\ b.session = id /\ b.said = agent[d].said
      /\ b.item = agent[d].item /\ b.part = agent[d].part /\ b.settled = agent[d].settled
  BY <1>3, <1>4 DEF Agents
<1>7. b \in Living(product) /\ b.session \in {NoSession, d, resumed[d]}
  BY <1>1, <1>3, <1>6 DEF Living
<1>8. CASE product = "codex" \/ Pi
  <2>1. PICK e : e = [Event("session", d) EXCEPT !.session = id]
    OBVIOUS
  <2>2. e \in Events /\ e.type = "session" /\ e.session = id
    <3>1. Event("session", d) \in Events /\ Event("session", d).type = "session"
      BY EventIs
    <3> QED BY <1>3, <2>1, <3>1 DEF Events
  <2>3. Writes(d, e)
    BY <1>1, <1>8, <2>1 DEF Write, Writes, Cli, Shape
  <2>4. Step(product, agent[d], e, b)
    BY <1>2, <1>6, <1>8, <2>2 DEF Step, StepItems, StepPi, SaysNothing, Pi
  <2>5. Emits(product, agent[d], e, b)
    BY <2>4 DEF Emits, Quiet, Cli
  <2> QED BY <1>2, <1>5, <1>7, <2>2, <2>3, <2>5 DEF Acts
<1>9. CASE ~(product = "codex" \/ Pi)
  <2>1. product \in {"opencode", "openclaw"} /\ pipe' = pipe
    BY <1>1, <1>9 DEF Cli, Natives, Pi
  <2>2. IsPrefix(agent[d].said, b.said)
    BY <1>3, <1>6, PrefixOfSame DEF Agents, Text
  <2>3. Quiet(product, agent[d], b)
    BY <1>2, <1>6, <2>1, <2>2 DEF Quiet, SaysNothing
  <2> QED BY <1>2, <1>5, <1>7, <2>1, <2>3 DEF Acts
<1> QED BY <1>8, <1>9

\* A step that is told, and what it leaves of the Harness.
LEMMA Tells ==
  ASSUME NEW d \in Deliveries, Cli(d), at[d] = "running", proc[d] = "alive",
         NEW b \in Living(product), b.session = agent[d].session, Act(d, b),
         NEW e \in Events, Write(d, e), Step(product, agent[d], e, b)
  PROVE  Acts(d)
<1>1. /\ agent' = [agent EXCEPT ![d] = b] /\ says' \in Int /\ proc' = proc
      /\ sessions' = sessions
  BY ActKeeps DEF Cli, Living
<1>2. Writes(d, e)
  BY DEF Write, Writes, Cli, Shape
<1>3. Emits(product, agent[d], e, b)
  BY DEF Emits, Quiet, Cli
<1> QED BY <1>1, <1>2, <1>3 DEF Acts, Cli

\* A move that says nothing and writes an event.
LEMMA TellsOnly ==
  ASSUME NEW d \in Deliveries, Cli(d), at[d] = "running", proc[d] = "alive",
         UNCHANGED <<proc, agent, turns, says, kept>>,
         NEW e \in Events, Write(d, e), Step(product, agent[d], e, agent[d])
  PROVE  Acts(d)
<1>1. agent' = [agent EXCEPT ![d] = agent[d]] /\ says' \in Int /\ proc' = proc
      /\ sessions' = sessions
  BY DEF Cli, Shape, kept
<1>2. Writes(d, e)
  BY DEF Write, Writes, Cli, Shape
<1>3. Emits(product, agent[d], e, agent[d])
  BY DEF Emits, Quiet, Cli
<1> QED BY <1>1, <1>2, <1>3 DEF Acts, Cli

\* A move that writes nothing.
LEMMA KeepsQuiet ==
  ASSUME NEW d \in Deliveries, Cli(d), at[d] = "running", proc[d] = "alive",
         NEW b \in Living(product), b.session = agent[d].session, Act(d, b),
         pipe' = pipe, Quiet(product, agent[d], b)
  PROVE  Acts(d)
<1>1. /\ agent' = [agent EXCEPT ![d] = b] /\ says' \in Int /\ proc' = proc
      /\ sessions' = sessions
  BY ActKeeps DEF Cli, Living
<1> QED BY <1>1 DEF Acts, Cli

\* A CLI begins a turn.
LEMMA BeginTurnActs ==
  ASSUME NEW d \in Deliveries, Cli(d), BeginTurn(d)
  PROVE  Acts(d)
<1>1. PICK b : b = [agent[d] EXCEPT !.phase = "turn", !.turn = agent[d].turn + 1,
                                    !.settled = "no", !.stop = "none"]
  OBVIOUS
<1>2. /\ at[d] = "running" /\ proc[d] = "alive" /\ Act(d, b)
      /\ agent[d].phase \in {"ready", "stopped"}
      /\ product \in {"codex", "openclaw"} => agent[d].phase = "ready"
  BY <1>1 DEF BeginTurn, Alive
<1>3. agent[d] \in Agents /\ product # "webhook"
  BY DEF Cli, Living, Natives
<1>4. /\ b \in Agents /\ b.phase = "turn" /\ b.session = agent[d].session
      /\ b.said = agent[d].said /\ b.item = agent[d].item /\ b.part = agent[d].part
      /\ b.settled = "no" /\ b.turn \in Nat
  <2>1. agent[d].turn + 1 \in Nat
    BY <1>3 DEF Agents
  <2> QED BY <1>1, <1>3, <2>1 DEF Agents, Stops
<1>5. b \in Living(product) /\ agent[d].session # NoSession
  BY <1>2, <1>3, <1>4 DEF Living, Cli
<1>6. CASE product = "openclaw"
  <2>1. IsPrefix(agent[d].said, b.said)
    BY <1>3, <1>4, PrefixOfSame DEF Agents, Text
  <2>2. pipe' = pipe /\ Quiet(product, agent[d], b)
    BY <1>2, <1>4, <1>6, <2>1 DEF BeginTurn, Quiet
  <2> QED BY <1>2, <1>4, <1>5, <2>2, KeepsQuiet
<1>7. CASE product # "openclaw"
  <2>1. PICK e : e = [Event("begin", d) EXCEPT !.message = b.turn]
    OBVIOUS
  <2>2. e \in Events /\ e.type = "begin" /\ e.session = agent[d].session
    <3>1. PICK v : v = Event("begin", d)
      OBVIOUS
    <3>2. v \in Events /\ v.type = "begin" /\ v.session = agent[d].session
      BY <3>1, EventIs
    <3>3. e = [v EXCEPT !.message = b.turn]
      BY <2>1, <3>1
    <3> QED BY <1>4, <3>2, <3>3 DEF Events
  <2>3. Write(d, e)
    BY <1>1, <1>7, <2>1 DEF BeginTurn
  <2>4. Step(product, agent[d], e, b)
    BY <1>2, <1>4, <1>7, <2>2 DEF Step, StepItems, StepPi, SaysNothing, Cli, Natives
  <2> QED BY <1>2, <1>4, <1>5, <2>2, <2>3, <2>4, Tells
<1> QED BY <1>6, <1>7

\* pi and omp begin a message.
LEMMA StartMessageActs ==
  ASSUME NEW d \in Deliveries, Cli(d), StartMessage(d)
  PROVE  Acts(d)
<1>1. PICK q \in BOOLEAN :
        Act(d, [agent[d] EXCEPT !.phase = "speaking", !.part = <<>>, !.quiet = q])
  BY DEF StartMessage
<1>2. PICK b : b = [agent[d] EXCEPT !.phase = "speaking", !.part = <<>>, !.quiet = q]
  OBVIOUS
<1>3. /\ at[d] = "running" /\ proc[d] = "alive" /\ Act(d, b) /\ agent[d].phase = "turn"
      /\ product \in {"pi", "omp"} /\ Write(d, Event("message_start", d))
  BY <1>1, <1>2 DEF StartMessage, Alive, Pi
<1>4. agent[d] \in Agents /\ agent[d].settled # "yes" /\ agent[d].session # NoSession
  BY <1>3 DEF Cli, Living, Natives
<1>5. /\ b \in Agents /\ b.phase = "speaking" /\ b.session = agent[d].session
      /\ b.said = agent[d].said /\ b.part = <<>> /\ b.settled = agent[d].settled
  <2>1. <<>> \in Text
    BY TextJoins
  <2> QED BY <1>2, <1>4, <2>1 DEF Agents
<1>6. b \in Living(product)
  BY <1>4, <1>5 DEF Living
<1>7. PICK e \in Events : e = Event("message_start", d)
  BY EventIs
<1>8. e.type = "message_start" /\ e.role = "assistant" /\ Write(d, e)
  BY <1>3, <1>7, EventIs
<1>9. Step(product, agent[d], e, b)
  BY <1>3, <1>5, <1>8 DEF Step, StepPi, SaysNothing
<1> QED BY <1>3, <1>5, <1>6, <1>8, <1>9, Tells

\* pi and omp tell what a tool returned.
LEMMA ToolMessageActs ==
  ASSUME NEW d \in Deliveries, Cli(d), ToolMessage(d)
  PROVE  Acts(d)
<1>1. PICK v : v = Event("message_start", d)
  OBVIOUS
<1>2. PICK e : e = [v EXCEPT !.role = "tool"]
  OBVIOUS
<1>3. /\ at[d] = "running" /\ proc[d] = "alive" /\ agent[d].phase = "ready"
      /\ product \in {"pi", "omp"} /\ Write(d, e)
      /\ UNCHANGED <<proc, agent, turns, says, kept>>
  BY <1>1, <1>2 DEF ToolMessage, Alive, Pi
<1>4. e \in Events /\ e.type = "message_start" /\ e.role = "tool"
  <2>1. v \in Events /\ v.type = "message_start"
    BY <1>1, EventIs
  <2> QED BY <1>2, <2>1 DEF Events
<1>5. Step(product, agent[d], e, agent[d])
  BY <1>3, <1>4 DEF Step, StepPi
<1> QED BY <1>3, <1>4, <1>5, TellsOnly

\* The event that tells of text in an item.
TextEvent(d, item, text) == [Event("text", d) EXCEPT !.item = item, !.text = text]

\* The event of a text.
LEMMA TextEventIs ==
  ASSUME NEW d \in Deliveries, Cli(d), NEW item \in 0 .. MaxItems, NEW text \in Text, NEW e,
         e = TextEvent(d, item, text)
  PROVE  /\ e \in Events /\ e.type = "text" /\ e.session = agent[d].session
         /\ e.item = item /\ e.text = text /\ e.final
<1>1. PICK v : v = Event("text", d)
  OBVIOUS
<1>2. v \in Events /\ v.type = "text" /\ v.session = agent[d].session /\ v.final
  BY <1>1, EventIs
<1>3. e = [v EXCEPT !.item = item, !.text = text]
  BY <1>1 DEF TextEvent
<1> QED BY <1>2, <1>3 DEF Events

\* codex and opencode say f, by an event that continues or begins an item or has none.
LEMMA ItemIsTold ==
  ASSUME NEW d \in Deliveries, Cli(d), at[d] = "running", proc[d] = "alive",
         product \in {"codex", "opencode"}, agent[d].phase = "turn",
         NEW b \in Agents, b.phase = "turn", b.session = agent[d].session,
         b.settled = agent[d].settled, Act(d, b), NEW f \in Text, NEW e,
         NEW item \in 0 .. MaxItems, NEW text \in Text,
         e = TextEvent(d, item, text), Write(d, e),
         b.said = agent[d].said \o f,
         \/ /\ agent[d].item > 0 /\ b.item = agent[d].item /\ b.part = agent[d].part \o f
            /\ item = b.item /\ text = b.part
         \/ b.item = agent[d].item + 1 /\ b.part = f /\ item = b.item /\ text = f
         \/ b.item = agent[d].item /\ b.part = agent[d].part /\ item = 0 /\ text = f
  PROVE  Acts(d)
<1>1. /\ e \in Events /\ e.type = "text" /\ e.session = agent[d].session
      /\ e.item = item /\ e.text = text /\ e.final
  BY TextEventIs
<1>2. Continues(agent[d], e, b, f)
  BY <1>1 DEF Continues
<1>3. StepItems(product, agent[d], e, b)
  BY <1>1, <1>2 DEF StepItems
<1>4. Step(product, agent[d], e, b)
  BY <1>3 DEF Step
<1>5. b \in Living(product)
  BY DEF Living, Cli
<1> QED BY <1>1, <1>4, <1>5, Tells

\* codex and opencode say more of an item, another item or a text by itself.
LEMMA SayItemActs ==
  ASSUME NEW d \in Deliveries, Cli(d), MaxSays \in Nat, SayItem(d)
  PROVE  Acts(d)
<1>1. /\ at[d] = "running" /\ proc[d] = "alive" /\ agent[d].phase = "turn"
      /\ product \in {"codex", "opencode"} /\ says \in Int
  BY DEF SayItem, Alive, Cli, Shape
<1>2. PICK n \in 1 .. MaxSays - says :
        \/ LET a == Said(d, n) IN
              /\ a.item > 0 /\ Act(d, a)
              /\ Write(d, [Event("text", d) EXCEPT !.item = a.item, !.text = a.part])
        \/ /\ agent[d].item < MaxItems
           /\ Act(d, [Said(d, n) EXCEPT !.part = Fresh(d, n), !.item = @ + 1])
           /\ Write(d, [Event("text", d) EXCEPT !.item = agent[d].item + 1,
                                            !.text = Fresh(d, n)])
        \/ /\ Act(d, [Said(d, n) EXCEPT !.part = agent[d].part])
           /\ Write(d, [Event("text", d) EXCEPT !.text = Fresh(d, n)])
  BY DEF SayItem
<1>3. n \in Nat
  BY <1>1
<1>4. PICK f \in Text : f = Fresh(d, n)
  BY <1>3, FreshText DEF Cli
<1>5. PICK w : w = Said(d, n)
  OBVIOUS
<1>6. /\ w \in Agents /\ w.said = agent[d].said \o f /\ w.part = agent[d].part \o f
      /\ w.phase = "turn" /\ w.item = agent[d].item
      /\ w.session = agent[d].session /\ w.settled = agent[d].settled
  BY <1>1, <1>3, <1>4, <1>5, SaidMore DEF Cli
<1>7. agent[d] \in Agents /\ agent[d].item \in 0 .. MaxItems /\ MaxItems \in Nat
      /\ agent[d].part \in Text /\ w.part \in Text
  BY <1>6 DEF Cli, Living, Agents
<1>8. CASE /\ w.item > 0 /\ Act(d, w)
           /\ Write(d, [Event("text", d) EXCEPT !.item = w.item, !.text = w.part])
  <2>1. PICK e : e = TextEvent(d, w.item, w.part)
    OBVIOUS
  <2>2. Write(d, e)
    BY <1>8, <2>1 DEF TextEvent
  <2>3. w.item \in 0 .. MaxItems
    BY <1>6, <1>7
  <2> QED BY <1>1, <1>6, <1>7, <1>8, <2>1, <2>3, <2>2, ItemIsTold
<1>9. CASE /\ agent[d].item < MaxItems
           /\ Act(d, [w EXCEPT !.part = f, !.item = @ + 1])
           /\ Write(d, [Event("text", d) EXCEPT !.item = agent[d].item + 1, !.text = f])
  <2>1. PICK e : e = TextEvent(d, agent[d].item + 1, f)
    OBVIOUS
  <2>2. PICK b : b = [w EXCEPT !.part = f, !.item = agent[d].item + 1]
    OBVIOUS
  <2>3. agent[d].item + 1 \in 0 .. MaxItems
    BY <1>7, <1>9
  <2>4. /\ b \in Agents /\ b.said = agent[d].said \o f /\ b.part = f
        /\ b.phase = "turn" /\ b.item = agent[d].item + 1
        /\ b.session = agent[d].session /\ b.settled = agent[d].settled
    BY <1>6, <2>2, <2>3 DEF Agents
  <2>5. Act(d, b) /\ Write(d, e)
    BY <1>6, <1>9, <2>1, <2>2 DEF TextEvent
  <2> QED BY <1>1, <2>1, <2>3, <2>4, <2>5, ItemIsTold
<1>10. CASE /\ Act(d, [w EXCEPT !.part = agent[d].part])
            /\ Write(d, [Event("text", d) EXCEPT !.text = f])
  <2>1. PICK e : e = TextEvent(d, 0, f)
    OBVIOUS
  <2>2. e = [Event("text", d) EXCEPT !.text = f]
    <3>1. PICK v : v = Event("text", d)
      OBVIOUS
    <3>2. v \in Events /\ v.item = 0
      BY <3>1, EventIs
    <3>3. [v EXCEPT !.item = 0, !.text = f] = [v EXCEPT !.text = f]
      BY <3>2 DEF Events
    <3> QED BY <2>1, <3>1, <3>3 DEF TextEvent
  <2>3. PICK b : b = [w EXCEPT !.part = agent[d].part]
    OBVIOUS
  <2>4. /\ b \in Agents /\ b.said = agent[d].said \o f /\ b.part = agent[d].part
        /\ b.phase = "turn" /\ b.item = agent[d].item
        /\ b.session = agent[d].session /\ b.settled = agent[d].settled
    BY <1>6, <1>7, <2>3 DEF Agents
  <2>5. Act(d, b) /\ Write(d, e) /\ 0 \in 0 .. MaxItems
    BY <1>7, <1>10, <2>2, <2>3
  <2> QED BY <1>1, <2>1, <2>4, <2>5, ItemIsTold
<1> QED BY <1>2, <1>4, <1>5, <1>8, <1>9, <1>10

\* codex and opencode repeat an item.
LEMMA RepeatItemActs ==
  ASSUME NEW d \in Deliveries, Cli(d), RepeatItem(d)
  PROVE  Acts(d)
<1>1. PICK e : e = TextEvent(d, agent[d].item, agent[d].part)
  OBVIOUS
<1>2. /\ at[d] = "running" /\ proc[d] = "alive" /\ agent[d].phase = "turn"
      /\ product \in {"codex", "opencode"} /\ agent[d].item > 0 /\ Write(d, e)
      /\ UNCHANGED <<proc, agent, turns, says, kept>>
  BY <1>1 DEF RepeatItem, Alive, TextEvent
<1>3. /\ agent[d].item \in 0 .. MaxItems /\ agent[d].part \in Text /\ agent[d].said \in Text
  BY DEF Cli, Living, Agents
<1>4. /\ e \in Events /\ e.type = "text" /\ e.session = agent[d].session
      /\ e.item = agent[d].item /\ e.text = agent[d].part /\ e.final
  BY <1>1, <1>3, TextEventIs
<1>5. Continues(agent[d], e, agent[d], <<>>) /\ <<>> \in Text
  <2>1. /\ agent[d].said \o <<>> = agent[d].said /\ agent[d].part \o <<>> = agent[d].part
        /\ <<>> \in Text
    BY <1>3, TextJoins
  <2> QED BY <1>2, <1>4, <2>1 DEF Continues
<1>6. Step(product, agent[d], e, agent[d])
  BY <1>2, <1>4, <1>5 DEF Step, StepItems
<1> QED BY <1>2, <1>4, <1>6, TellsOnly

\* pi and omp say more of a message.
LEMMA SayDeltaActs ==
  ASSUME NEW d \in Deliveries, Cli(d), SayDelta(d)
  PROVE  Acts(d)
<1>1. PICK f \in Text : f = Fresh(d, 1)
  BY FreshText DEF Cli
<1>2. PICK b : b = Said(d, 1)
  OBVIOUS
<1>3. /\ b \in Agents /\ b.said = agent[d].said \o f /\ b.part = agent[d].part \o f
      /\ b.phase = agent[d].phase /\ b.session = agent[d].session
      /\ b.settled = agent[d].settled /\ b.quiet = agent[d].quiet
  BY <1>1, <1>2, SaidMore DEF Cli
<1>4. PICK v : v = Event("delta", d)
  OBVIOUS
<1>5. PICK e : e = [v EXCEPT !.text = f]
  OBVIOUS
<1>6. e \in Events /\ e.type = "delta" /\ e.text = f
  <2>1. v \in Events /\ v.type = "delta"
    BY <1>4, EventIs
  <2> QED BY <1>5, <2>1 DEF Events
<1>7. /\ at[d] = "running" /\ proc[d] = "alive" /\ agent[d].phase = "speaking"
      /\ product \in {"pi", "omp"} /\ ~agent[d].quiet /\ Act(d, b) /\ Write(d, e)
  BY <1>1, <1>2, <1>4, <1>5 DEF SayDelta, Alive, Pi
<1>8. b \in Living(product) /\ agent[d].phase # "boot"
  BY <1>3, <1>7 DEF Living, Cli
<1>9. Step(product, agent[d], e, b)
  BY <1>3, <1>6, <1>7 DEF Step, StepPi, Says
<1> QED BY <1>3, <1>6, <1>7, <1>8, <1>9, Tells

\* pi and omp end a message.
LEMMA EndMessageActs ==
  ASSUME NEW d \in Deliveries, Cli(d), EndMessage(d)
  PROVE  Acts(d)
<1>1. /\ at[d] = "running" /\ proc[d] = "alive" /\ agent[d].phase = "speaking"
      /\ product \in {"pi", "omp"}
  BY DEF EndMessage, Alive, Pi
<1>2. PICK stop \in {"stop", "toolUse", "error"} :
        LET n == IF agent[d].quiet /\ says < MaxSays /\ stop # "error" THEN 1 ELSE 0
            a == [Said(d, n) EXCEPT !.phase = "closing", !.stop = stop, !.quiet = FALSE]
        IN  /\ Act(d, a)
            /\ Write(d, [Event("message_end", d) EXCEPT !.stop = stop, !.text = a.part])
  BY DEF EndMessage
<1>3. PICK n : n = IF agent[d].quiet /\ says < MaxSays /\ stop # "error" THEN 1 ELSE 0
  OBVIOUS
<1>4. n \in {0, 1} /\ (n = 1 => agent[d].quiet)
  BY <1>3
<1>5. PICK f \in Text : f = Fresh(d, n) /\ (n = 0 => f = <<>>)
  BY <1>4, FreshText DEF Cli
<1>6. PICK w : w = Said(d, n)
  OBVIOUS
<1>7. /\ w \in Agents /\ w.said = agent[d].said \o f /\ w.part = agent[d].part \o f
      /\ w.session = agent[d].session /\ w.settled = agent[d].settled
  <2>1. n \in Nat
    BY <1>4
  <2> QED BY <1>5, <1>6, <2>1, SaidMore DEF Cli
<1>8. PICK b : b = [w EXCEPT !.phase = "closing", !.stop = stop, !.quiet = FALSE]
  OBVIOUS
<1>9. /\ b \in Agents /\ b.said = agent[d].said \o f /\ b.part = agent[d].part \o f
      /\ b.session = agent[d].session /\ b.settled = agent[d].settled
      /\ b.phase = "closing" /\ b.stop = stop /\ b.part \in Text
  BY <1>7, <1>8 DEF Agents, Stops
<1>10. b \in Living(product)
  BY <1>1, <1>9 DEF Living, Cli, Natives
<1>11. PICK v : v = Event("message_end", d)
  OBVIOUS
<1>12. PICK e : e = [v EXCEPT !.stop = stop, !.text = b.part]
  OBVIOUS
<1>13. e \in Events /\ e.type = "message_end" /\ e.role = "assistant" /\ e.stop = stop
       /\ e.text = b.part
  <2>1. v \in Events /\ v.type = "message_end" /\ v.role = "assistant"
    BY <1>11, EventIs
  <2> QED BY <1>9, <1>12, <2>1 DEF Events, Stops
<1>14. Act(d, b) /\ Write(d, e)
  BY <1>2, <1>3, <1>6, <1>8, <1>11, <1>12
<1>15. Step(product, agent[d], e, b)
  <2>1. ~agent[d].quiet => f = <<>>
    BY <1>4, <1>5
  <2>2. StepPi(agent[d], e, b)
    BY <1>1, <1>5, <1>9, <1>13, <2>1 DEF StepPi, Says
  <2> QED BY <1>1, <2>2 DEF Step
<1> QED BY <1>1, <1>9, <1>10, <1>13, <1>14, <1>15, Tells

\* pi and omp end a turn and repeat its message.
LEMMA EndPiTurnActs ==
  ASSUME NEW d \in Deliveries, Cli(d), EndPiTurn(d)
  PROVE  Acts(d)
<1>1. PICK b : b = [agent[d] EXCEPT !.phase = PhaseAfter(agent[d].stop), !.part = <<>>]
  OBVIOUS
<1>2. PICK v : v = Event("message_end", d)
  OBVIOUS
<1>3. PICK e : e = [v EXCEPT !.stop = agent[d].stop, !.text = agent[d].part]
  OBVIOUS
<1>4. /\ at[d] = "running" /\ proc[d] = "alive" /\ agent[d].phase = "closing"
      /\ product \in {"pi", "omp"} /\ Act(d, b) /\ Write(d, e)
  BY <1>1, <1>2, <1>3 DEF EndPiTurn, Alive, Pi
<1>5. /\ agent[d] \in Agents /\ agent[d].settled # "yes" /\ agent[d].session # NoSession
      /\ PhaseAfter(agent[d].stop) \in {"stopped", "ready", "over"}
  BY <1>4 DEF Cli, Living, Natives, PhaseAfter
<1>6. /\ b \in Agents /\ b.phase = PhaseAfter(agent[d].stop) /\ b.session = agent[d].session
      /\ b.said = agent[d].said /\ b.stop = agent[d].stop /\ b.settled = agent[d].settled
  <2>1. <<>> \in Text
    BY TextJoins
  <2> QED BY <1>1, <1>5, <2>1 DEF Agents
<1>7. b \in Living(product)
  BY <1>5, <1>6 DEF Living
<1>8. /\ e \in Events /\ e.type = "message_end" /\ e.role = "assistant"
      /\ e.stop = agent[d].stop
  <2>1. v \in Events /\ v.type = "message_end" /\ v.role = "assistant"
    BY <1>2, EventIs
  <2> QED BY <1>3, <1>5, <2>1 DEF Events, Agents
<1>9. Step(product, agent[d], e, b)
  BY <1>4, <1>5, <1>6, <1>8 DEF Step, StepPi, SaysNothing
<1> QED BY <1>4, <1>6, <1>7, <1>8, <1>9, Tells

\* pi and omp end the run, perhaps to try again.
LEMMA EndPiRunActs ==
  ASSUME NEW d \in Deliveries, Cli(d), EndPiRun(d)
  PROVE  Acts(d)
<1>1. PICK again \in BOOLEAN, stop \in {"none", "stop"} :
        /\ Act(d, [agent[d] EXCEPT !.phase = IF again THEN "ready" ELSE "stopped", !.part = <<>>,
                                 !.settled = IF again THEN "no" ELSE "yes"])
        /\ Write(d, [Event("end", d) EXCEPT !.stop = stop, !.again = again])
  BY DEF EndPiRun
<1>2. PICK b : b = [agent[d] EXCEPT !.phase = IF again THEN "ready" ELSE "stopped",
                                    !.part = <<>>, !.settled = IF again THEN "no" ELSE "yes"]
  OBVIOUS
<1>3. PICK v : v = Event("end", d)
  OBVIOUS
<1>4. PICK e : e = [v EXCEPT !.stop = stop, !.again = again]
  OBVIOUS
<1>5. /\ at[d] = "running" /\ proc[d] = "alive" /\ agent[d].phase \in {"closing", "stopped"}
      /\ agent[d].stop = "stop" /\ product \in {"pi", "omp"} /\ Act(d, b) /\ Write(d, e)
  BY <1>1, <1>2, <1>3, <1>4 DEF EndPiRun, Alive, Pi
<1>6. agent[d] \in Agents /\ agent[d].session # NoSession
  BY <1>5 DEF Cli, Living, Natives
<1>7. /\ b \in Agents /\ b.session = agent[d].session /\ b.said = agent[d].said
      /\ b.stop = agent[d].stop /\ b.phase = (IF again THEN "ready" ELSE "stopped")
      /\ b.settled = (IF again THEN "no" ELSE "yes")
  <2>1. <<>> \in Text
    BY TextJoins
  <2> QED BY <1>2, <1>6, <2>1 DEF Agents
<1>8. b \in Living(product)
  BY <1>6, <1>7 DEF Living
<1>9. e \in Events /\ e.type = "end" /\ e.stop = stop /\ e.again = again
  <2>1. v \in Events /\ v.type = "end"
    BY <1>3, EventIs
  <2> QED BY <1>4, <2>1 DEF Events, Stops
<1>10. Step(product, agent[d], e, b)
  BY <1>5, <1>6, <1>7, <1>9 DEF Step, StepPi, SaysNothing
<1> QED BY <1>5, <1>7, <1>8, <1>9, <1>10, Tells

\* A CLI ends a step or the run, told or not.
LEMMA EndTurnActs ==
  ASSUME NEW d \in Deliveries, Cli(d), EndTurn(d)
  PROVE  Acts(d)
<1>1. PICK stop \in {"stop", "toolUse", "error"}, told \in BOOLEAN :
        /\ (stop = "toolUse" \/ ~told => product = "opencode")
        /\ Act(d, [agent[d] EXCEPT !.phase = PhaseAfter(stop), !.stop = stop,
                                 !.settled = IF stop = "stop" THEN "yes"
                                             ELSE IF stop = "error" THEN "failed" ELSE "no"])
        /\ IF told
           THEN Write(d,
                  [Event(IF product = "codex" /\ stop = "error" THEN "error" ELSE "end", d)
                     EXCEPT !.stop = stop, !.text = agent[d].said])
           ELSE UNCHANGED pipe
  BY DEF EndTurn
<1>2. PICK settled : settled = IF stop = "stop" THEN "yes"
                               ELSE IF stop = "error" THEN "failed" ELSE "no"
  OBVIOUS
<1>3. PICK b : b = [agent[d] EXCEPT !.phase = PhaseAfter(stop), !.stop = stop,
                                    !.settled = settled]
  OBVIOUS
<1>4. PICK type : type = IF product = "codex" /\ stop = "error" THEN "error" ELSE "end"
  OBVIOUS
<1>5. PICK v : v = Event(type, d)
  OBVIOUS
<1>6. PICK e : e = [v EXCEPT !.stop = stop, !.text = agent[d].said]
  OBVIOUS
<1>7. /\ at[d] = "running" /\ proc[d] = "alive" /\ agent[d].phase = "turn" /\ Act(d, b)
      /\ product \in {"codex", "opencode", "openclaw"}
  BY <1>1, <1>2, <1>3 DEF EndTurn, Alive, Pi, Cli, Natives
<1>8. IF told THEN Write(d, e) ELSE pipe' = pipe
  BY <1>1, <1>4, <1>5, <1>6
<1>9. agent[d] \in Agents /\ agent[d].session # NoSession /\ agent[d].said \in Text
  BY <1>7 DEF Cli, Living, Natives, Agents
<1>10. /\ PhaseAfter(stop) \in {"stopped", "ready", "over"}
       /\ stop = "stop" => PhaseAfter(stop) = "stopped"
       /\ settled \in {"no", "yes", "failed"} /\ (settled = "yes" <=> stop = "stop")
  BY <1>2 DEF PhaseAfter
<1>11. /\ b \in Agents /\ b.session = agent[d].session /\ b.said = agent[d].said
       /\ b.item = agent[d].item /\ b.part = agent[d].part
       /\ b.phase = PhaseAfter(stop) /\ b.settled = settled
  BY <1>3, <1>9, <1>10 DEF Agents, Stops
<1>12. b \in Living(product)
  BY <1>9, <1>10, <1>11 DEF Living
<1>13. CASE told
  <2>1. /\ e \in Events /\ e.type = type /\ e.stop = stop /\ e.text = agent[d].said
        /\ e.session = agent[d].session
    <3>1. v \in Events /\ v.type = type /\ v.session = agent[d].session
      BY <1>4, <1>5, EventIs
    <3> QED BY <1>6, <1>9, <3>1 DEF Events, Stops
  <2>2. CASE product = "openclaw"
    <3>1. StepDoc(agent[d], e, b)
      BY <1>4, <1>7, <1>10, <1>11, <2>1, <2>2 DEF StepDoc, SaysNothing
    <3>2. Step(product, agent[d], e, b)
      BY <2>2, <3>1 DEF Step
    <3> QED BY <1>7, <1>8, <1>11, <1>12, <1>13, <2>1, <3>2, Tells
  <2>3. CASE product # "openclaw"
    <3>1. product \in {"codex", "opencode"} /\ (product = "codex" => stop # "toolUse")
      BY <1>1, <1>7, <2>3
    <3>2. b.phase # "boot"
      BY <1>10, <1>11
    <3>3. CASE type = "error"
      <4>1. StepItems(product, agent[d], e, b)
        BY <1>7, <1>11, <2>1, <3>2, <3>3 DEF StepItems, Breaks, SaysNothing
      <4>2. Step(product, agent[d], e, b)
        BY <3>1, <4>1 DEF Step
      <4> QED BY <1>7, <1>8, <1>11, <1>12, <1>13, <2>1, <4>2, Tells
    <3>4. CASE type = "end"
      <4>1. product = "codex" => stop = "stop"
        BY <1>4, <3>1, <3>4
      <4>2. StepItems(product, agent[d], e, b)
        BY <1>7, <1>10, <1>11, <2>1, <3>2, <3>4, <4>1 DEF StepItems, SaysNothing
      <4>3. Step(product, agent[d], e, b)
        BY <3>1, <4>2 DEF Step
      <4> QED BY <1>7, <1>8, <1>11, <1>12, <1>13, <2>1, <4>3, Tells
    <3> QED BY <1>4, <3>3, <3>4
  <2> QED BY <2>2, <2>3
<1>14. CASE ~told
  <2>1. product = "opencode" /\ pipe' = pipe
    BY <1>1, <1>8, <1>14
  <2>2. Quiet(product, agent[d], b)
    BY <1>7, <1>10, <1>11, <2>1 DEF Quiet, SaysNothing
  <2> QED BY <1>7, <1>11, <1>12, <2>1, <2>2, KeepsQuiet
<1> QED BY <1>13, <1>14

\* openclaw says what it writes at its end only.
LEMMA SayAtEndActs ==
  ASSUME NEW d \in Deliveries, Cli(d), SayAtEnd(d)
  PROVE  Acts(d)
<1>1. PICK f \in Text : f = Fresh(d, 1)
  BY FreshText DEF Cli
<1>2. PICK b : b = Said(d, 1)
  OBVIOUS
<1>3. /\ b \in Agents /\ b.said = agent[d].said \o f /\ b.phase = agent[d].phase
      /\ b.session = agent[d].session /\ b.settled = agent[d].settled
  BY <1>1, <1>2, SaidMore DEF Cli
<1>4. /\ at[d] = "running" /\ proc[d] = "alive" /\ agent[d].phase = "turn"
      /\ product = "openclaw" /\ Act(d, b) /\ pipe' = pipe
  BY <1>2 DEF SayAtEnd, Alive
<1>5. b \in Living(product) /\ agent[d].said \in Text
  BY <1>3, <1>4 DEF Living, Cli, Agents
<1>6. IsPrefix(agent[d].said, b.said)
  BY <1>1, <1>3, <1>5, TextJoins
<1>7. Quiet(product, agent[d], b)
  BY <1>3, <1>4, <1>6 DEF Quiet
<1> QED BY <1>3, <1>4, <1>5, <1>7, KeepsQuiet

\* An error, or output that is no event.
LEMMA BrokenIsTold ==
  ASSUME NEW d \in Deliveries, Cli(d), at[d] = "running", proc[d] = "alive",
         agent[d].phase # "boot", agent[d].phase # "none",
         Act(d, [agent[d] EXCEPT !.phase = "over", !.settled = "failed"]),
         NEW type, type \in {"error", "garbage", "flood"}, Write(d, Event(type, d))
  PROVE  Acts(d)
<1>1. PICK b : b = [agent[d] EXCEPT !.phase = "over", !.settled = "failed"]
  OBVIOUS
<1>2. agent[d] \in Agents /\ agent[d].session # NoSession
  BY DEF Cli, Living, Natives
<1>3. /\ b \in Agents /\ b.session = agent[d].session /\ b.said = agent[d].said
      /\ b.phase = "over" /\ b.settled = "failed"
  BY <1>1, <1>2 DEF Agents
<1>4. b \in Living(product)
  BY <1>2, <1>3 DEF Living
<1>5. PICK e : e = Event(type, d)
  OBVIOUS
<1>6. e \in Events /\ e.type = type /\ e.session = agent[d].session
  BY <1>5, EventIs
<1>7. Breaks(agent[d], e, b)
  BY <1>3, <1>6 DEF Breaks, SaysNothing
<1>8. Step(product, agent[d], e, b)
  BY <1>3, <1>6, <1>7 DEF Step, StepItems, StepPi, StepDoc, Breaks, Cli, Natives
<1>9. Act(d, b) /\ Write(d, e)
  BY <1>1, <1>5
<1> QED BY <1>3, <1>4, <1>6, <1>8, <1>9, Tells

\* A CLI fails, late even, or writes what is no event.
LEMMA LateErrorActs ==
  ASSUME NEW d \in Deliveries, Cli(d), LateError(d) \/ Disturb(d)
  PROVE  Acts(d)
<1>1. CASE LateError(d)
  <2>1. /\ at[d] = "running" /\ proc[d] = "alive" /\ agent[d].phase # "boot"
        /\ agent[d].phase # "none"
        /\ Act(d, [agent[d] EXCEPT !.phase = "over", !.settled = "failed"])
        /\ Write(d, Event("error", d))
    BY <1>1 DEF LateError, Alive
  <2> QED BY <2>1, BrokenIsTold
<1>2. CASE Disturb(d)
  <2>1. PICK type \in {"garbage", "flood"} :
          /\ Act(d, [agent[d] EXCEPT !.phase = "over", !.settled = "failed"])
          /\ Write(d, Event(type, d))
    BY <1>2 DEF Disturb
  <2>2. /\ at[d] = "running" /\ proc[d] = "alive" /\ agent[d].phase # "boot"
        /\ agent[d].phase # "none"
    BY <1>2 DEF Disturb, Alive
  <2> QED BY <2>1, <2>2, BrokenIsTold
<1> QED BY <1>1, <1>2

\* The row of a delivery.
LEMMA RowOf ==
  ASSUME Invariant, NEW d \in Deliveries
  PROVE  Row(product, d, conv[d], at[d], proc[d], pipe[d], tail[d], stream[d], resumed[d],
             verdict[d], agent[d])
  BY DEF Invariant, Rows

\* A move of a CLI keeps the invariant.
LEMMA ActsKeep ==
  ASSUME Invariant, NoSession \notin Deliveries, NEW d \in Deliveries, Acts(d),
         UNCHANGED <<product, conv, at, tail, stream, resumed, verdict>>
  PROVE  Invariant'
<1>1. PICK b \in Living(product) :
    /\ at[d] = "running" /\ proc[d] = "alive" /\ proc' = proc /\ sessions' = sessions
    /\ says' \in Int
    /\ agent' = [agent EXCEPT ![d] = b] /\ b.session \in {NoSession, d, resumed[d]}
    /\ \/ pipe' = pipe /\ Quiet(product, agent[d], b)
       \/ \E e \in Events : Writes(d, e) /\ Emits(product, agent[d], e, b)
  BY DEF Acts
<1>2. Row(product, d, conv[d], at[d], proc[d], pipe[d], tail[d], stream[d], resumed[d],
          verdict[d], agent[d])
  BY RowOf
<1>3. /\ IsNative(product, d, conv[d], resumed[d], agent[d])
      /\ IsRunning(product, proc[d], pipe[d], tail[d], stream[d], agent[d])
      /\ tail[d] = <<>> /\ pipe[d] \in Seq(Events) /\ agent[d] \in Living(product)
      /\ product \in Everyone /\ IsPrefix(Held(stream[d]), agent[d].said) /\ Formed(stream[d])
  BY <1>1, <1>2 DEF Row, IsRunning, IsNative, Everyone
<1>4. Held(stream[d]) \in Seq(Nat) /\ agent[d].said \in Seq(Nat) /\ b.said \in Seq(Nat)
  BY <1>3, ToldIsHeld DEF Living, Agents, Text
<1>5. \E u \in Seq(Events) :
        /\ pipe' = [pipe EXCEPT ![d] = u] /\ IsPrefix(agent[d].said, b.said)
        /\ Sound(stream[d]) => Follow(product, stream[d], u, b)
  <2>1. CASE pipe' = pipe /\ Quiet(product, agent[d], b)
    <3>1. IsPrefix(agent[d].said, b.said)
      BY <1>3, <2>1, StepGrows DEF Living
    <3>2. Sound(stream[d]) => Follow(product, stream[d], pipe[d], b)
      BY <1>3, <2>1, FollowQuiet DEF IsRunning, Unread
    <3>3. pipe' = [pipe EXCEPT ![d] = pipe[d]]
      BY <2>1 DEF Invariant, Shape
    <3> QED BY <1>3, <3>1, <3>2, <3>3
  <2>2. ASSUME NEW e \in Events, Writes(d, e), Emits(product, agent[d], e, b)
        PROVE  \E u \in Seq(Events) :
                 /\ pipe' = [pipe EXCEPT ![d] = u] /\ IsPrefix(agent[d].said, b.said)
                 /\ Sound(stream[d]) => Follow(product, stream[d], u, b)
    <3>1. IsPrefix(agent[d].said, b.said)
      <4>1. PICK z \in Living(product) :
              Quiet(product, agent[d], z) /\ Step(product, z, e, b)
        BY <2>2 DEF Emits
      <4>2. IsPrefix(agent[d].said, z.said)
        BY <1>3, <4>1, StepGrows DEF Living
      <4> QED BY <1>3, <2>2, <4>1, <4>2, GrowsOn
    <3>2. Sound(stream[d]) => Follow(product, stream[d], Append(pipe[d], e), b)
      BY <1>3, <2>2, FollowWrite DEF IsRunning, Unread
    <3>3. Append(pipe[d], e) \in Seq(Events)
      BY <1>3, AppendProperties
    <3> QED BY <2>2, <3>1, <3>2, <3>3 DEF Writes
  <2> QED BY <1>1, <2>1, <2>2
<1>6. PICK u \in Seq(Events) :
        /\ pipe' = [pipe EXCEPT ![d] = u] /\ IsPrefix(agent[d].said, b.said)
        /\ Sound(stream[d]) => Follow(product, stream[d], u, b)
  BY <1>5
<1>7. IsPrefix(Held(stream[d]), b.said)
  BY <1>3, <1>4, <1>6, PrefixOfPrefix
<1>8. /\ IsNative(product, d, conv[d], resumed[d], b)
      /\ IsRunning(product, proc[d], u, tail[d], stream[d], b)
  BY <1>1, <1>3, <1>6 DEF IsNative, IsRunning, Unread
<1>9. Row(product, d, conv[d], at[d], proc[d], u, tail[d], stream[d], resumed[d], verdict[d], b)
  BY <1>1, <1>2, <1>7, <1>8 DEF Row, Living
<1>10. Changed(d, conv[d], at[d], proc[d], u, tail[d], stream[d], resumed[d], verdict[d], b)
  BY <1>1, <1>6 DEF Changed, Invariant, Shape
<1> QED BY <1>1, <1>9, <1>10, Steady

\* A process may end, or be killed, with anything unread.
LEMMA ExitKeeps ==
  ASSUME Invariant, NoSession \notin Deliveries, NEW d \in Deliveries, Exit(d) \/ Kill(d),
         UNCHANGED <<product, conv, at, tail, stream, resumed, verdict>>
  PROVE  Invariant'
<1>1. PICK pr \in {"zero", "nonzero"} : proc' = [proc EXCEPT ![d] = pr]
  BY DEF Exit, Kill
<1>2. /\ at[d] \in {"running", "frames"} /\ pipe' = pipe /\ agent' = agent /\ says' = says
      /\ sessions' = sessions
  BY DEF Exit, Kill, kept
<1>3. Row(product, d, conv[d], at[d], proc[d], pipe[d], tail[d], stream[d], resumed[d],
          verdict[d], agent[d])
  BY RowOf
<1>4. Row(product, d, conv[d], at[d], pr, pipe[d], tail[d], stream[d], resumed[d],
          verdict[d], agent[d])
  <2>1. CASE at[d] = "running"
    <3>1. IsRunning(product, pr, pipe[d], tail[d], stream[d], agent[d])
      BY <1>3, <2>1 DEF Row, IsRunning
    <3> QED BY <1>3, <2>1, <3>1 DEF Row, Procs
  <2>2. CASE at[d] = "frames"
    BY <1>3, <2>2 DEF Row, Procs
  <2> QED BY <1>2, <2>1, <2>2
<1>5. Changed(d, conv[d], at[d], pr, pipe[d], tail[d], stream[d], resumed[d], verdict[d], agent[d])
  BY <1>1, <1>2 DEF Changed, Invariant, Shape
<1>6. says' \in Int
  BY <1>2 DEF Invariant, Shape
<1> QED BY <1>2, <1>4, <1>5, <1>6, Steady

\* The receiver writes a frame.
LEMMA FrameKeeps ==
  ASSUME Invariant, NoSession \notin Deliveries, NEW d \in Deliveries,
         UNCHANGED <<product, conv, at, proc, sessions, tail, stream, resumed, verdict>>,
         at[d] = "frames", NEW b \in Agents, agent' = [agent EXCEPT ![d] = b],
         says' \in Int, NEW e \in Events, Writes(d, e), StepFrames(agent[d], e, b)
  PROVE  Invariant'
<1>1. Row(product, d, conv[d], at[d], proc[d], pipe[d], tail[d], stream[d], resumed[d],
          verdict[d], agent[d])
  BY RowOf
<1>2. /\ IsFrames(product, conv[d], pipe[d], tail[d], stream[d], agent[d])
      /\ pipe[d] \in Seq(Events) /\ agent[d] \in Agents
      /\ IsPrefix(Held(stream[d]), agent[d].said) /\ Formed(stream[d])
  BY <1>1 DEF Row
<1>3. product = "webhook" /\ product \in Everyone
  BY <1>2 DEF IsFrames, Everyone
<1>4. agent[d] \in Living(product) /\ b \in Living(product)
  BY <1>2, <1>3 DEF Living
<1>5. Step(product, agent[d], e, b)
  BY <1>3 DEF Step
<1>6. Emits(product, agent[d], e, b)
  BY <1>4, <1>5 DEF Emits, Quiet
<1>7. Follow(product, stream[d], Append(pipe[d], e), b)
  BY <1>2, <1>3, <1>4, <1>6, FollowWrite DEF IsFrames
<1>8. Append(pipe[d], e) \in Seq(Events)
  BY <1>2, AppendProperties
<1>9. IsPrefix(Held(stream[d]), b.said)
  <2>1. IsPrefix(agent[d].said, b.said)
    BY <1>2, <1>5, StepGrows
  <2>2. Held(stream[d]) \in Seq(Nat) /\ agent[d].said \in Seq(Nat) /\ b.said \in Seq(Nat)
    BY <1>2, ToldIsHeld DEF Agents, Text
  <2> QED BY <1>2, <2>1, <2>2, PrefixOfPrefix
<1>10. IsFrames(product, conv[d], Append(pipe[d], e), tail[d], stream[d], b)
  BY <1>2, <1>7 DEF IsFrames
<1>11. Row(product, d, conv[d], at[d], proc[d], Append(pipe[d], e), tail[d], stream[d],
           resumed[d], verdict[d], b)
  BY <1>1, <1>8, <1>9, <1>10 DEF Row
<1>12. Changed(d, conv[d], at[d], proc[d], Append(pipe[d], e), tail[d], stream[d], resumed[d],
               verdict[d], b)
  BY DEF Changed, Writes, Invariant, Shape
<1> QED BY <1>11, <1>12, Steady

\* The receiver says more, or how it went.
LEMMA SayFrameKeeps ==
  ASSUME Invariant, NoSession \notin Deliveries, MaxItems \in Nat, NEW d \in Deliveries,
         SayFrame(d), UNCHANGED <<product, conv, at, tail, stream, resumed, verdict>>
  PROVE  Invariant'
<1>1. Shape /\ agent[d] \in Agents /\ at[d] = "frames" /\ agent[d].phase = "turn"
  BY DEF SayFrame, Invariant, Shape
<1>2. \A type \in {"text", "end", "garbage", "flood"} :
        LET v == Event(type, d) IN v \in Events /\ v.type = type
  <2>1. agent[d].session \in Sessions /\ agent[d].turn \in Nat /\ <<>> \in Text
        /\ 0 \in 0 .. MaxItems
    BY <1>1, TextJoins DEF Agents
  <2> QED BY <2>1 DEF Event, Events, Stops
<1>3. \E b \in Agents, e \in Events :
        Act(d, b) /\ Write(d, e) /\ StepFrames(agent[d], e, b)
  <2>1. CASE /\ Act(d, Said(d, 1))
             /\ Write(d, [Event("text", d) EXCEPT !.text = Fresh(d, 1)])
    <3>1. PICK f \in Text : f = Fresh(d, 1)
      BY <1>1, FreshText
    <3>2. PICK v : v = Event("text", d)
      OBVIOUS
    <3>3. PICK e : e = [v EXCEPT !.text = f]
      OBVIOUS
    <3>4. e \in Events /\ e.type = "text" /\ e.text = f
      <4>1. v \in Events /\ v.type = "text"
        BY <1>2, <3>2
      <4> QED BY <3>3, <4>1 DEF Events
    <3>5. Said(d, 1) \in Agents /\ Said(d, 1).said = agent[d].said \o f
      BY <1>1, <3>1, SaidMore
    <3>6. StepFrames(agent[d], e, Said(d, 1))
      BY <1>1, <3>4, <3>5 DEF StepFrames, Says
    <3>7. Write(d, e)
      BY <2>1, <3>1, <3>2, <3>3
    <3> QED BY <2>1, <3>4, <3>5, <3>6, <3>7
  <2>2. ASSUME NEW stop \in {"stop", "error"}, NEW again \in BOOLEAN,
               Act(d, [agent[d] EXCEPT !.phase = "over",
                                     !.settled = IF stop = "stop" THEN "yes" ELSE "failed"]),
               Write(d, [Event("end", d) EXCEPT !.stop = stop, !.again = again])
        PROVE  \E b \in Agents, e \in Events :
                 Act(d, b) /\ Write(d, e) /\ StepFrames(agent[d], e, b)
    <3>1. PICK b : b = [agent[d] EXCEPT !.phase = "over",
                                        !.settled = IF stop = "stop" THEN "yes" ELSE "failed"]
      OBVIOUS
    <3>2. PICK v : v = Event("end", d)
      OBVIOUS
    <3>3. PICK e : e = [v EXCEPT !.stop = stop, !.again = again]
      OBVIOUS
    <3>4. e \in Events /\ e.type = "end" /\ e.stop = stop
      <4>1. v \in Events /\ v.type = "end"
        BY <1>2, <3>2
      <4> QED BY <3>3, <4>1 DEF Events, Stops
    <3>5. /\ b \in Agents /\ b.said = agent[d].said /\ b.phase = "over"
          /\ b.settled = IF stop = "stop" THEN "yes" ELSE "failed"
      BY <1>1, <3>1 DEF Agents
    <3>6. StepFrames(agent[d], e, b)
      BY <1>1, <3>4, <3>5 DEF StepFrames, SaysNothing
    <3>7. Act(d, b) /\ Write(d, e)
      BY <2>2, <3>1, <3>2, <3>3
    <3> QED BY <3>4, <3>5, <3>6, <3>7
  <2>3. ASSUME Act(d, [agent[d] EXCEPT !.phase = "over"]), NEW type \in {"garbage", "flood"},
               Write(d, Event(type, d))
        PROVE  \E b \in Agents, e \in Events :
                 Act(d, b) /\ Write(d, e) /\ StepFrames(agent[d], e, b)
    <3>1. PICK b : b = [agent[d] EXCEPT !.phase = "over"]
      OBVIOUS
    <3>2. b \in Agents /\ b.said = agent[d].said /\ b.phase = "over"
      BY <1>1, <3>1 DEF Agents
    <3>3. PICK e : e = Event(type, d)
      OBVIOUS
    <3>4. e \in Events /\ e.type = type
      BY <1>2, <3>3
    <3>5. StepFrames(agent[d], e, b)
      BY <1>1, <3>2, <3>4 DEF StepFrames, Breaks, SaysNothing
    <3> QED BY <2>3, <3>1, <3>2, <3>3, <3>4, <3>5
  <2> QED BY <2>1, <2>2, <2>3 DEF SayFrame
<1>4. PICK b \in Agents, e \in Events :
        Act(d, b) /\ Write(d, e) /\ StepFrames(agent[d], e, b)
  BY <1>3
<1>5. agent' = [agent EXCEPT ![d] = b] /\ says' \in Int /\ proc' = proc /\ sessions' = sessions
  BY <1>1, <1>4, ActKeeps
<1>6. Writes(d, e)
  BY <1>4 DEF Write, Writes, Invariant, Shape
<1> QED BY <1>1, <1>4, <1>5, <1>6, FrameKeeps

\* Whatever the Harness does keeps the invariant.
LEMMA HarnessKeeps ==
  ASSUME Invariant, NEW d \in Deliveries, Harness(d)
  PROVE  Invariant'
<1>1. NoSession \notin Deliveries /\ MaxItems \in Nat /\ MaxSays \in Nat
  BY AdapterAssumption
<1>2. UNCHANGED <<product, conv, at, tail, stream, resumed, verdict>>
  BY DEF Harness, reader
<1>3. CASE Exit(d)
  BY <1>1, <1>2, <1>3, ExitKeeps
<1>4. CASE SayFrame(d)
  BY <1>1, <1>2, <1>4, SayFrameKeeps
<1>5. CASE ~Exit(d) /\ ~SayFrame(d)
  <2>1. at[d] = "running"
    BY <1>5 DEF Harness, Announce, BeginTurn, StartMessage, ToolMessage, SayItem,
                RepeatItem, SayDelta, EndMessage, EndPiTurn, EndPiRun, EndTurn,
                SayAtEnd, LateError, Disturb,
                Alive
  <2>2. Cli(d)
    BY <1>1, <2>1, ARunIsOfACli
  <2>3. Acts(d)
    BY <1>1, <1>5, <2>2, AnnounceActs, BeginTurnActs, StartMessageActs, ToolMessageActs,
       SayItemActs, RepeatItemActs, SayDeltaActs, EndMessageActs, EndPiTurnActs, EndPiRunActs,
       EndTurnActs, SayAtEndActs, LateErrorActs
       DEF Harness
  <2> QED BY <1>1, <1>2, <2>3, ActsKeep
<1> QED BY <1>3, <1>4, <1>5

(***************************************************************************)
(* The delivery.                                                            *)
(***************************************************************************)

\* A result that is a failure, and how far it is certain.
Failure(maybe) == Verdict("failed", maybe)

\* The two failures are told apart.
LEMMA Failures ==
  ASSUME NEW maybe \in BOOLEAN
  PROVE  /\ Failure(maybe) \in Verdicts /\ Failure(maybe).kind = "failed"
         /\ Failure(maybe) = Failure(FALSE) <=> ~maybe
<1>1. PICK v : v = Verdict("failed", maybe)
  OBVIOUS
<1>2. v \in Verdicts /\ v.kind = "failed" /\ v.maybe = maybe
  BY <1>1 DEF Verdict, Verdicts
<1>3. v = Verdict("failed", FALSE) <=> ~maybe
  <2>1. Verdict("failed", FALSE).maybe = FALSE
    BY DEF Verdict
  <2>2. v = Verdict("failed", FALSE) => ~maybe
    BY <1>2, <2>1
  <2>3. ~maybe => v = Verdict("failed", FALSE)
    BY <1>1
  <2> QED BY <2>2, <2>3
<1> QED BY <1>1, <1>2, <1>3 DEF Failure

\* A delivery that is given up claims nothing.
LEMMA UncertainRow ==
  ASSUME NEW p, NEW d, NEW c \in Messages \cup {NoConv}, NEW pr \in Procs,
         NEW pi \in Seq(Events),
         NEW ta \in Seq(Events), NEW s, Formed(s), NEW re \in Sessions, NEW a \in Agents,
         IsPrefix(Held(s), a.said)
  PROVE  Row(p, d, c, "done", pr, pi, ta, s, re, Verdict("failed", TRUE), a)
<1>1. /\ Failure(TRUE) \in Verdicts /\ Failure(TRUE).kind = "failed"
      /\ Failure(TRUE) # Failure(FALSE)
  BY Failures
<1>2. IsEarned(p, c, pr, s, Verdict("failed", TRUE), a)
  BY <1>1 DEF IsEarned, Failure
<1> QED BY <1>1, <1>2 DEF Row, Failure, Places

\* A delivery is given up with what was read so far.
LEMMA UncertainKeeps ==
  ASSUME Invariant, NoSession \notin Deliveries, NEW d \in Deliveries, Uncertain(d),
         at[d] \notin {"done", "gone"}, NEW s, Formed(s), IsPrefix(Held(s), agent[d].said),
         stream' = [stream EXCEPT ![d] = s], NEW pi \in Seq(Events),
         pipe' = [pipe EXCEPT ![d] = pi],
         UNCHANGED <<product, conv, proc, agent, says, tail, resumed, sessions>>
  PROVE  Invariant'
<1>1. Row(product, d, conv[d], at[d], proc[d], pipe[d], tail[d], stream[d], resumed[d],
          verdict[d], agent[d])
  BY RowOf
<1>2. Row(product, d, conv[d], "done", proc[d], pi, tail[d], s, resumed[d],
          Verdict("failed", TRUE), agent[d])
  <2>1. /\ conv[d] \in Messages \cup {NoConv} /\ proc[d] \in Procs
        /\ tail[d] \in Seq(Events) /\ resumed[d] \in Sessions /\ agent[d] \in Agents
    BY <1>1 DEF Row
  <2> QED BY <2>1, UncertainRow
<1>3. Changed(d, conv[d], "done", proc[d], pi, tail[d], s, resumed[d],
              Verdict("failed", TRUE), agent[d])
  BY DEF Changed, Uncertain, Return, Invariant, Shape
<1>4. says' \in Int
  BY DEF Invariant, Shape
<1> QED BY <1>2, <1>3, <1>4, Steady

\* Nothing that the invariant is about changes.
LEMMA NothingKeeps ==
  ASSUME Invariant,
         UNCHANGED <<product, conv, at, proc, pipe, tail, stream, resumed, verdict, agent,
                     sessions, says>>
  PROVE  Invariant'
<1>1. Shape'
  BY DEF Invariant, Shape
<1>2. Rows'
  BY DEF Invariant, Rows
<1>3. Continued' /\ Stored' /\ Finished'
  BY DEF Invariant, Continued, Stored, Finished
<1> QED BY <1>1, <1>2, <1>3 DEF Invariant

\* A delivery is given up as it stands.
LEMMA GiveUpKeeps ==
  ASSUME Invariant, NoSession \notin Deliveries, NEW d \in Deliveries, Uncertain(d),
         at[d] \notin {"done", "gone"},
         UNCHANGED <<product, conv, proc, pipe, agent, says, tail, stream, resumed, sessions>>
  PROVE  Invariant'
<1>1. Row(product, d, conv[d], at[d], proc[d], pipe[d], tail[d], stream[d], resumed[d],
          verdict[d], agent[d])
  BY RowOf
<1>2. /\ pipe[d] \in Seq(Events) /\ Formed(stream[d])
      /\ IsPrefix(Held(stream[d]), agent[d].said)
  BY <1>1 DEF Row
<1>3. /\ pipe' = [pipe EXCEPT ![d] = pipe[d]]
      /\ stream' = [stream EXCEPT ![d] = stream[d]]
  BY DEF Invariant, Shape
<1> QED BY <1>2, <1>3, UncertainKeeps

\* What is refused before anything runs is a certain failure.
LEMMA TurnAwayKeeps ==
  ASSUME Invariant, NoSession \notin Deliveries, MaxItems \in Nat, NEW d \in Deliveries,
         TurnAway(d)
  PROVE  Invariant'
<1>1. at[d] = "idle"
  BY DEF TurnAway, Admits, Arrives
<1>2. /\ Row(product, d, conv[d], at[d], proc[d], pipe[d], tail[d], stream[d], resumed[d],
             verdict[d], agent[d])
      /\ agent[d] = Dormant
  BY <1>1, RowOf DEF Row, IsNew
<1>3. Dormant.phase = "none" /\ Failure(FALSE) \in Verdicts /\ Failure(FALSE).kind = "failed"
  BY Dormants, Failures DEF Everyone
<1>4. IsEarned(product, conv[d], proc[d], stream[d], Verdict("failed", FALSE), agent[d])
  BY <1>2, <1>3 DEF IsEarned, Failure
<1>5. Row(product, d, conv[d], "done", proc[d], pipe[d], tail[d], stream[d], resumed[d],
          Verdict("failed", FALSE), agent[d])
  BY <1>2, <1>3, <1>4 DEF Row, Failure, Places
<1>6. Changed(d, conv[d], "done", proc[d], pipe[d], tail[d], stream[d], resumed[d],
              Verdict("failed", FALSE), agent[d])
  BY DEF Changed, TurnAway, Return, Invariant, Shape, harness, reader, kept
<1>7. sessions' = sessions /\ says' \in Int
  BY DEF TurnAway, harness, kept, Invariant, Shape
<1> QED BY <1>1, <1>5, <1>6, <1>7, Steady

\* The copying goroutine reads one event.
LEMMA CopyKeeps ==
  ASSUME Invariant, NEW d \in Deliveries, Copy(d)
  PROVE  Invariant'
<1>1. NoSession \notin Deliveries /\ MaxItems \in Nat
  BY AdapterAssumption
<1>2. Row(product, d, conv[d], at[d], proc[d], pipe[d], tail[d], stream[d], resumed[d],
          verdict[d], agent[d])
  BY RowOf
<1>3. /\ at[d] = "running" /\ pipe[d] # <<>> /\ Sound(stream[d])
      /\ pipe' = [pipe EXCEPT ![d] = Tail(pipe[d])]
      /\ UNCHANGED <<product, conv, at, proc, agent, says, tail, resumed, verdict, sessions>>
  BY DEF Copy, Invariant, Shape, kept
<1>4. PICK ok \in BOOLEAN :
       stream' = [stream EXCEPT ![d] =
         IF Head(pipe[d]).type = "flood" THEN Fault(stream[d], "event_limit")
         ELSE Consume(product, stream[d], Head(pipe[d]), ok)]
  BY DEF Copy
<1>5. PICK s :
        /\ s = IF Head(pipe[d]).type = "flood" THEN Fault(stream[d], "event_limit")
               ELSE Consume(product, stream[d], Head(pipe[d]), ok)
        /\ stream' = [stream EXCEPT ![d] = s]
  BY <1>4
<1>6. /\ IsNative(product, d, conv[d], resumed[d], agent[d])
      /\ IsRunning(product, proc[d], pipe[d], tail[d], stream[d], agent[d])
      /\ pipe[d] \in Seq(Events)
  BY <1>2, <1>3 DEF Row
<1>7. /\ tail[d] = <<>> /\ Follow(product, stream[d], pipe[d], agent[d])
      /\ product \in Natives /\ agent[d] \in Living(product)
  BY <1>3, <1>6 DEF IsRunning, IsNative, Unread
<1>8. /\ Formed(s) /\ IsPrefix(Held(s), agent[d].said)
      /\ Sound(s) => Follow(product, s, Tail(pipe[d]), agent[d])
  BY <1>1, <1>3, <1>5, <1>6, <1>7, FollowConsume
<1>9. Tail(pipe[d]) \in Seq(Events)
  BY <1>3, <1>6, HeadTailProperties
<1>10. IsRunning(product, proc[d], Tail(pipe[d]), tail[d], s, agent[d])
  BY <1>7, <1>8 DEF IsRunning, Unread
<1>11. Row(product, d, conv[d], at[d], proc[d], Tail(pipe[d]), tail[d], s, resumed[d],
           verdict[d], agent[d])
  BY <1>2, <1>3, <1>6, <1>8, <1>9, <1>10 DEF Row
<1>12. Changed(d, conv[d], at[d], proc[d], Tail(pipe[d]), tail[d], s, resumed[d], verdict[d],
               agent[d])
  BY <1>3, <1>5 DEF Changed, Invariant, Shape
<1>13. says' \in Int
  BY <1>3 DEF Invariant, Shape
<1> QED BY <1>1, <1>3, <1>11, <1>12, <1>13, Steady

\* A last line without its newline stays to be read.
LEMMA CopyTailKeeps ==
  ASSUME Invariant, NoSession \notin Deliveries, NEW d \in Deliveries, CopyTail(d)
  PROVE  Invariant'
<1>1. Row(product, d, conv[d], at[d], proc[d], pipe[d], tail[d], stream[d], resumed[d],
          verdict[d], agent[d])
  BY RowOf
<1>2. /\ at[d] = "running" /\ Len(pipe[d]) = 1 /\ Sound(stream[d]) /\ proc[d] # "alive"
      /\ pipe[d][1].type # "flood"
      /\ tail' = [tail EXCEPT ![d] = pipe[d]] /\ pipe' = [pipe EXCEPT ![d] = <<>>]
      /\ UNCHANGED <<product, conv, at, proc, agent, says, stream, resumed, verdict, sessions>>
  BY DEF CopyTail, kept
<1>3. /\ IsRunning(product, proc[d], pipe[d], tail[d], stream[d], agent[d])
      /\ pipe[d] \in Seq(Events) /\ <<>> \in Seq(Events) /\ pipe[d] # <<>>
  BY <1>1, <1>2 DEF Row
<1>4. tail[d] = <<>> /\ Follow(product, stream[d], pipe[d], agent[d])
  BY <1>2, <1>3 DEF IsRunning, Unread
<1>5. IsRunning(product, proc[d], <<>>, pipe[d], stream[d], agent[d])
  BY <1>2, <1>3, <1>4 DEF IsRunning, Unread
<1>6. Row(product, d, conv[d], at[d], proc[d], <<>>, pipe[d], stream[d], resumed[d],
          verdict[d], agent[d])
  BY <1>1, <1>2, <1>3, <1>5 DEF Row
<1>7. Changed(d, conv[d], at[d], proc[d], <<>>, pipe[d], stream[d], resumed[d], verdict[d],
              agent[d])
  BY <1>2 DEF Changed, Invariant, Shape
<1>8. says' \in Int
  BY <1>2 DEF Invariant, Shape
<1> QED BY <1>2, <1>6, <1>7, <1>8, Steady

\* Wait reads the last line, unless there is a reason to fail.
LEMMA WaitKeeps ==
  ASSUME Invariant, NEW d \in Deliveries, Wait(d)
  PROVE  Invariant'
<1>1. NoSession \notin Deliveries /\ MaxItems \in Nat
  BY AdapterAssumption
<1>2. Row(product, d, conv[d], at[d], proc[d], pipe[d], tail[d], stream[d], resumed[d],
          verdict[d], agent[d])
  BY RowOf
<1>3. /\ at[d] = "running" /\ proc[d] \in {"zero", "nonzero"}
      /\ UNCHANGED <<product, conv, proc, pipe, agent, says, tail, resumed, sessions>>
  BY DEF Wait, harness, kept
<1>4. /\ IsNative(product, d, conv[d], resumed[d], agent[d])
      /\ IsRunning(product, proc[d], pipe[d], tail[d], stream[d], agent[d])
      /\ pipe[d] \in Seq(Events) /\ tail[d] \in Seq(Events)
      /\ Formed(stream[d]) /\ IsPrefix(Held(stream[d]), agent[d].said)
      /\ product \in Natives /\ agent[d] \in Living(product)
  BY <1>2, <1>3 DEF Row, IsNative
<1>5. pipe' = [pipe EXCEPT ![d] = pipe[d]]
  BY <1>3 DEF Invariant, Shape
<1>6. CASE Uncertain(d) /\ UNCHANGED stream
  <2>1. stream' = [stream EXCEPT ![d] = stream[d]]
    BY <1>6 DEF Invariant, Shape
  <2> QED BY <1>1, <1>3, <1>4, <1>5, <1>6, <2>1, UncertainKeeps
<1>7. CASE ~(Uncertain(d) /\ UNCHANGED stream)
  <2>1. PICK ok \in BOOLEAN :
          LET s == IF tail[d] = <<>> THEN stream[d]
                   ELSE Consume(product, stream[d], tail[d][1], ok)
          IN  /\ pipe[d] = <<>> \/ ~Sound(stream[d])
              /\ proc[d] = "zero"
              /\ stream' = [stream EXCEPT ![d] = s]
              /\ IF Sound(s) THEN GoOn(d, "finish") ELSE Uncertain(d)
    BY <1>3, <1>7 DEF Wait
  <2>2. PICK s :
          /\ pipe[d] = <<>> \/ ~Sound(stream[d])
          /\ proc[d] = "zero"
          /\ s = IF tail[d] = <<>> THEN stream[d]
                 ELSE Consume(product, stream[d], tail[d][1], ok)
          /\ stream' = [stream EXCEPT ![d] = s]
          /\ IF Sound(s) THEN GoOn(d, "finish") ELSE Uncertain(d)
    BY <2>1
  <2>3. /\ Formed(s) /\ IsPrefix(Held(s), agent[d].said)
        /\ Sound(s) => Coupled(product, s, agent[d])
    <3>1. CASE tail[d] = <<>>
      <4>1. s = stream[d]
        BY <2>2, <3>1
      <4>2. Sound(s) => Follow(product, s, <<>>, agent[d])
        BY <1>4, <2>2, <3>1, <4>1 DEF IsRunning, Unread
      <4> QED BY <1>4, <4>1, <4>2, FollowNone DEF Everyone
    <3>2. CASE tail[d] # <<>>
      <4>1. /\ Sound(stream[d]) /\ Len(tail[d]) = 1 /\ tail[d][1].type # "flood"
            /\ Follow(product, stream[d], tail[d], agent[d])
        BY <1>4, <3>2 DEF IsRunning, Unread
      <4>2. Head(tail[d]) = tail[d][1] /\ Tail(tail[d]) = <<>>
        <5>1. /\ Head(tail[d]) = tail[d][1] /\ Tail(tail[d]) \in Seq(Events)
              /\ Len(Tail(tail[d])) = 0
          BY <1>4, <3>2, <4>1, HeadTailProperties
        <5> QED BY <5>1, EmptySeq
      <4>3. s = IF Head(tail[d]).type = "flood" THEN Fault(stream[d], "event_limit")
                ELSE Consume(product, stream[d], Head(tail[d]), ok)
        BY <2>2, <3>2, <4>1, <4>2
      <4>4. /\ Formed(s) /\ IsPrefix(Held(s), agent[d].said)
            /\ Sound(s) => Follow(product, s, Tail(tail[d]), agent[d])
        BY <1>1, <1>4, <3>2, <4>1, <4>3, FollowConsume
      <4> QED BY <1>4, <4>2, <4>4, FollowNone DEF Everyone
    <3> QED BY <3>1, <3>2
  <2>4. CASE Sound(s)
    <3>1. Row(product, d, conv[d], "finish", proc[d], pipe[d], tail[d], s, resumed[d],
              verdict[d], agent[d])
      BY <1>2, <1>3, <1>4, <2>2, <2>3, <2>4 DEF Row, Places
    <3>2. Changed(d, conv[d], "finish", proc[d], pipe[d], tail[d], s, resumed[d],
                  verdict[d], agent[d])
      BY <1>3, <2>2, <2>4 DEF GoOn, Changed, Invariant, Shape
    <3>3. says' \in Int
      BY <1>3 DEF Invariant, Shape
    <3> QED BY <1>1, <1>3, <3>1, <3>2, <3>3, Steady
  <2>5. CASE ~Sound(s)
    BY <1>1, <1>3, <1>4, <1>5, <2>2, <2>3, <2>5, UncertainKeeps
  <2> QED BY <2>4, <2>5
<1> QED BY <1>6, <1>7

\* The saved session of OpenCode confirms the stream.
LEMMA ConfirmKeeps ==
  ASSUME Invariant, NoSession \notin Deliveries, NEW d \in Deliveries, Confirm(d)
  PROVE  Invariant'
<1>1. Row(product, d, conv[d], at[d], proc[d], pipe[d], tail[d], stream[d], resumed[d],
          verdict[d], agent[d])
  BY RowOf
<1>2. /\ at[d] = "finish" /\ product = "opencode" /\ stream[d].session # NoSession
      /\ UNCHANGED <<product, conv, proc, pipe, agent, says, tail, resumed, sessions>>
  BY DEF Confirm, Unconfirmed, harness, kept
<1>3. /\ pipe[d] \in Seq(Events) /\ Formed(stream[d]) /\ agent[d] \in Agents
      /\ IsPrefix(Held(stream[d]), agent[d].said) /\ Coupled(product, stream[d], agent[d])
  BY <1>1, <1>2 DEF Row
<1>4. CASE Uncertain(d) /\ UNCHANGED stream
  <2>1. /\ pipe' = [pipe EXCEPT ![d] = pipe[d]]
        /\ stream' = [stream EXCEPT ![d] = stream[d]]
    BY <1>2, <1>4 DEF Invariant, Shape
  <2> QED BY <1>2, <1>3, <1>4, <2>1, UncertainKeeps
<1>5. CASE ~(Uncertain(d) /\ UNCHANGED stream)
  <2>1. /\ agent[d].settled = "yes" /\ UNCHANGED <<at, verdict>>
        /\ stream' = [stream EXCEPT ![d].completed = TRUE]
    BY <1>5 DEF Confirm
  <2>2. PICK s : s = [stream[d] EXCEPT !.completed = TRUE]
    OBVIOUS
  <2>3. stream' = [stream EXCEPT ![d] = s]
    BY <2>1, <2>2 DEF Invariant, Shape
  <2>4. /\ Formed(s) /\ Held(s) = Held(stream[d]) /\ s.fault = stream[d].fault
        /\ s.session = stream[d].session /\ s.items = stream[d].items
    BY <1>3, <2>2 DEF Formed, Streams, Held
  <2>5. CoupledItems(product, s, agent[d])
    BY <1>2, <1>3, <2>1, <2>4 DEF Coupled, CoupledItems, ItemsKept
  <2>6. Coupled(product, s, agent[d])
    BY <1>2, <1>3, <2>4, <2>5 DEF Coupled, Sound
  <2>7. Row(product, d, conv[d], at[d], proc[d], pipe[d], tail[d], s, resumed[d],
            verdict[d], agent[d])
    BY <1>1, <1>2, <1>3, <2>4, <2>6 DEF Row
  <2>8. Changed(d, conv[d], at[d], proc[d], pipe[d], tail[d], s, resumed[d],
                verdict[d], agent[d])
    BY <1>2, <2>1, <2>3 DEF Changed, Invariant, Shape
  <2>9. says' \in Int
    BY <1>2 DEF Invariant, Shape
  <2> QED BY <1>2, <2>7, <2>8, <2>9, Steady
<1> QED BY <1>4, <1>5

\* A completed stream is of a Harness that settled, and told in full.
LEMMA FinishKeeps ==
  ASSUME Invariant, NEW d \in Deliveries, Finish(d)
  PROVE  Invariant'
<1>1. NoSession \notin Deliveries
  BY AdapterAssumption
<1>2. Row(product, d, conv[d], at[d], proc[d], pipe[d], tail[d], stream[d], resumed[d],
          verdict[d], agent[d])
  BY RowOf
<1>3. /\ at[d] = "finish"
      /\ UNCHANGED <<product, conv, proc, pipe, agent, says, tail, resumed, sessions>>
  BY DEF Finish, harness, kept
<1>4. /\ IsNative(product, d, conv[d], resumed[d], agent[d]) /\ proc[d] = "zero"
      /\ Coupled(product, stream[d], agent[d]) /\ pipe[d] \in Seq(Events)
      /\ IsPrefix(Held(stream[d]), agent[d].said)
  BY <1>2, <1>3 DEF Row
<1>5. PICK ok \in BOOLEAN :
        LET r == IF product = "openclaw" THEN ConsumeOpenClaw(stream[d], ok) ELSE stream[d]
            safe == Pi /\ r.session # NoSession => r.session \in filed
            good == Sound(r) /\ r.completed /\ safe
            s == IF good THEN Flush(r, ok) ELSE r
        IN  /\ stream' = [stream EXCEPT ![d] = s]
            /\ IF good /\ Sound(s) THEN GoOn(d, "save") ELSE Uncertain(d)
  BY DEF Finish
<1>6. PICK r : r = IF product = "openclaw" THEN ConsumeOpenClaw(stream[d], ok) ELSE stream[d]
  OBVIOUS
<1>7. PICK s :
        /\ stream' = [stream EXCEPT ![d] = s]
        /\ \/ s = r /\ Uncertain(d)
           \/ /\ s = Flush(r, ok) /\ Sound(r) /\ r.completed
              /\ Uncertain(d) \/ (Sound(s) /\ GoOn(d, "save"))
  BY <1>5, <1>6
<1>8. /\ stream' = [stream EXCEPT ![d] = s]
      /\ Uncertain(d) \/ (Sound(s) /\ r.completed /\ s = Flush(r, ok) /\ GoOn(d, "save"))
  BY <1>7
<1>9. /\ Formed(r) /\ IsPrefix(Held(r), agent[d].said)
      /\ Sound(r) => Held(r) = agent[d].said
      /\ Sound(r) /\ r.completed => agent[d].settled = "yes"
      /\ product # "openclaw" => r = stream[d]
  <2>1. CASE product = "openclaw"
    <3>1. r = ConsumeOpenClaw(stream[d], ok) /\ Coupled("openclaw", stream[d], agent[d])
          /\ agent[d] \in Agents
      BY <1>2, <1>4, <1>6, <2>1 DEF Row
    <3> QED BY <2>1, <3>1, ReadDocument
  <2>2. CASE product # "openclaw"
    <3>1. r = stream[d] /\ product \in {"codex", "opencode", "pi", "omp"}
      BY <1>4, <1>6, <2>2 DEF IsNative, Natives
    <3>2. Held(r) = agent[d].said /\ (r.completed => agent[d].settled = "yes")
      BY <1>4, <3>1 DEF Coupled, CoupledItems, CoupledPi
    <3> QED BY <1>4, <3>1, <3>2 DEF Coupled
  <2> QED BY <2>1, <2>2
<1>10. /\ Formed(s) /\ Held(s) = Held(r) /\ s.session = r.session /\ s.completed = r.completed
       /\ s = Flush(r, ok) /\ Sound(s) => Sound(r) /\ Told(s) = Held(s)
  <2>1. CASE s = Flush(r, ok) /\ Sound(r)
    BY <1>7, <1>9, <2>1, FlushMoves DEF Moves, Alike
  <2>2. CASE s = r /\ s # Flush(r, ok)
    BY <1>9, <2>2
  <2>3. CASE s = r /\ ~Sound(r)
    BY <1>9, <2>3
  <2> QED BY <1>7, <2>1, <2>2, <2>3
<1>11. CASE Uncertain(d)
  <2>1. IsPrefix(Held(s), agent[d].said) /\ pipe' = [pipe EXCEPT ![d] = pipe[d]]
    BY <1>3, <1>9, <1>10 DEF Invariant, Shape
  <2> QED BY <1>1, <1>3, <1>4, <1>8, <1>10, <1>11, <2>1, UncertainKeeps
<1>12. CASE Sound(s) /\ r.completed /\ s = Flush(r, ok) /\ GoOn(d, "save")
  <2>1. agent[d].settled = "yes" /\ Told(s) = agent[d].said
    BY <1>9, <1>10, <1>12
  <2>2. ASSUME product # "openclaw"
        PROVE  s.session = agent[d].session /\ agent[d].session # NoSession
    <3>1. s.session = stream[d].session /\ stream[d].completed
      BY <1>9, <1>10, <1>12, <2>2
    <3>2. product \in {"codex", "opencode", "pi", "omp"}
      BY <1>4, <2>2 DEF IsNative, Natives
    <3>3. CASE product \in {"codex", "opencode"}
      BY <1>4, <3>1, <3>3 DEF Coupled, CoupledItems
    <3>4. CASE product \in {"pi", "omp"}
      <4>1. stream[d].session = agent[d].session
        BY <1>4, <3>4 DEF Coupled, CoupledPi
      <4>2. agent[d].session # NoSession
        BY <1>4, <2>1, <3>4 DEF IsNative, Living
      <4> QED BY <3>1, <4>1, <4>2
    <3> QED BY <3>2, <3>3, <3>4
  <2>3. IsSaved(product, s, agent[d])
    BY <2>1, <2>2 DEF IsSaved
  <2>4. IsPrefix(Held(s), agent[d].said)
    BY <1>9, <1>10
  <2>5. Row(product, d, conv[d], "save", proc[d], pipe[d], tail[d], s, resumed[d], verdict[d],
            agent[d])
    BY <1>2, <1>3, <1>4, <1>10, <2>3, <2>4 DEF Row, Places
  <2>6. Changed(d, conv[d], "save", proc[d], pipe[d], tail[d], s, resumed[d], verdict[d],
                agent[d])
    BY <1>3, <1>8, <1>12 DEF GoOn, Changed, Invariant, Shape
  <2>7. says' \in Int
    BY <1>3 DEF Invariant, Shape
  <2> QED BY <1>1, <1>3, <2>5, <2>6, <2>7, Steady
<1> QED BY <1>8, <1>11, <1>12

\* The result of a completed execution.
LEMMA SavedRow ==
  ASSUME Invariant, NEW d \in Deliveries, at[d] = "save",
         NEW v, v \in {Verdict("completed", FALSE), Verdict("failed", TRUE)}
  PROVE  Row(product, d, conv[d], "done", proc[d], pipe[d], tail[d], stream[d], resumed[d], v,
             agent[d])
<1>1. Row(product, d, conv[d], at[d], proc[d], pipe[d], tail[d], stream[d], resumed[d],
          verdict[d], agent[d])
  BY RowOf
<1>2. proc[d] = "zero" /\ IsSaved(product, stream[d], agent[d])
  BY <1>1 DEF Row
<1>3. v \in Verdicts /\ v # Verdict("failed", FALSE) /\ v.kind \in {"completed", "failed"}
  <2>1. /\ Verdict("completed", FALSE) \in Verdicts
        /\ Verdict("completed", FALSE).kind = "completed"
    BY DEF Verdict, Verdicts
  <2>2. Verdict("failed", FALSE).kind = "failed"
    BY DEF Verdict
  <2>3. /\ Failure(TRUE) \in Verdicts /\ Failure(TRUE).kind = "failed"
        /\ Failure(TRUE) # Failure(FALSE)
    BY Failures
  <2> QED BY <2>1, <2>2, <2>3 DEF Failure
<1>4. IsEarned(product, conv[d], proc[d], stream[d], v, agent[d])
  BY <1>2, <1>3 DEF IsEarned, IsSaved
<1> QED BY <1>1, <1>3, <1>4 DEF Row, Places

\* The scope of a message: its sender, the agent it asks and its key, which may be
\* the ID of another message (handler.go 108-116).
LEMMA ScopedKeys ==
  ASSUME NEW d \in Deliveries, NEW c \in Messages
  PROVE  ScopedKey(d, c) \in Keys
BY DEF ScopedKey, Key, Keys, Messages

\* What is stored is the session of this execution, under the scope of its message.
LEMMA SaveKeeps ==
  ASSUME Invariant, NEW d \in Deliveries, Save(d)
  PROVE  Invariant'
<1>1. NoSession \notin Deliveries
  BY AdapterAssumption
<1>2. Row(product, d, conv[d], at[d], proc[d], pipe[d], tail[d], stream[d], resumed[d],
          verdict[d], agent[d])
  BY RowOf
<1>3. /\ at[d] = "save"
      /\ UNCHANGED <<product, conv, proc, pipe, agent, says, tail, stream, resumed>>
      /\ says' \in Int
  BY DEF Save, harness, reader, Invariant, Shape
<1>4. PICK v : v = IF ended[d] THEN Verdict("failed", TRUE) ELSE Verdict("completed", FALSE)
  OBVIOUS
<1>5. PICK id : id = IF stream[d].session = NoSession THEN resumed[d] ELSE stream[d].session
  OBVIOUS
<1>6. PICK key : key = ScopedKey(d, conv[d])
  OBVIOUS
<1>7. \/ /\ Stateful /\ id # NoSession /\ Return(d, v)
         /\ sessions' = [sessions EXCEPT ![key] = id]
      \/ Uncertain(d) /\ sessions' = sessions
      \/ Return(d, v) /\ sessions' = sessions
  BY <1>4, <1>5, <1>6 DEF Save
<1>8. CASE Uncertain(d) /\ sessions' = sessions
  BY <1>1, <1>3, <1>8, GiveUpKeeps
<1>9. Row(product, d, conv[d], "done", proc[d], pipe[d], tail[d], stream[d], resumed[d], v,
          agent[d])
  BY <1>3, <1>4, SavedRow
<1>10. ASSUME Return(d, v)
       PROVE  Changed(d, conv[d], "done", proc[d], pipe[d], tail[d], stream[d], resumed[d], v,
                      agent[d])
  BY <1>3, <1>10 DEF Return, Changed, Invariant, Shape
<1>11. CASE Return(d, v) /\ sessions' = sessions
  BY <1>1, <1>3, <1>9, <1>10, <1>11, Steady
<1>12. CASE /\ Stateful /\ id # NoSession /\ Return(d, v)
            /\ sessions' = [sessions EXCEPT ![key] = id]
  <2>1. /\ IsNative(product, d, conv[d], resumed[d], agent[d])
        /\ IsSaved(product, stream[d], agent[d])
    BY <1>2, <1>3 DEF Row
  <2>2. /\ id = agent[d].session /\ agent[d].settled = "yes" /\ conv[d] \in Messages
        /\ id \in {d, resumed[d]} /\ id \in Deliveries
    <3>1. product # "openclaw"
      BY <1>12 DEF Stateful
    <3>2. stream[d].session = agent[d].session /\ agent[d].session # NoSession
          /\ agent[d].settled = "yes"
      BY <2>1, <3>1 DEF IsSaved
    <3>3. agent[d].session \in {d, resumed[d]} /\ conv[d] \in Messages
      BY <2>1, <3>2 DEF IsNative
    <3>4. resumed[d] \in Sessions
      BY <1>2 DEF Row
    <3> QED BY <1>5, <1>12, <3>2, <3>3, <3>4 DEF Sessions
  <2>3. key \in Keys
    BY <1>6, <2>2, ScopedKeys
  <2>4. sessions' \in [Keys -> Sessions]
    BY <1>12, <2>2 DEF Invariant, Shape, Sessions
  <2>5. Shape' /\ Rows'
    BY <1>3, <1>9, <1>10, <1>12, <2>4, RowChanges DEF Invariant
  <2>6. \A x \in Deliveries : /\ at[x] # "idle" => at'[x] # "idle"
                              /\ at[x] \in {"done", "gone"} => at'[x] = at[x]
    BY <1>3, <1>12 DEF Return, Invariant, Shape
  <2>7. Continued'
    <3>1. ASSUME NEW x \in Deliveries, resumed[x] # NoSession
          PROVE  /\ ScopedKey(resumed[x], conv[resumed[x]]) = ScopedKey(x, conv[x])
                 /\ at'[resumed[x]] # "idle"
      <4>1. resumed[x] \in Deliveries
        BY <3>1 DEF Invariant, Shape, Sessions
      <4> QED BY <2>6, <3>1, <4>1 DEF Invariant, Continued
    <3> QED BY <1>3, <3>1 DEF Continued
  <2>8. Stored'
    <3>1. ASSUME NEW k \in Keys, sessions'[k] # NoSession
          PROVE  /\ ScopedKey(sessions'[k], conv[sessions'[k]]) = k
                 /\ at'[sessions'[k]] # "idle"
      <4>1. CASE k = key
        <5>1. sessions'[k] = id
          BY <1>12, <2>3, <4>1 DEF Invariant, Shape
        <5>2. CASE id = d
          <6>1. at'[d] # "idle"
            BY <1>3, <2>6
          <6> QED BY <1>6, <4>1, <5>1, <5>2, <6>1
        <5>3. CASE id = resumed[d]
          <6>1. ScopedKey(id, conv[id]) = ScopedKey(d, conv[d]) /\ at[id] # "idle"
            BY <1>12, <5>3 DEF Invariant, Continued
          <6> QED BY <1>6, <2>2, <2>6, <4>1, <5>1, <6>1
        <5> QED BY <2>2, <5>2, <5>3
      <4>2. CASE k # key
        <5>1. sessions'[k] = sessions[k] /\ sessions[k] \in Deliveries
          BY <1>12, <3>1, <4>2 DEF Invariant, Shape, Sessions
        <5>2. /\ ScopedKey(sessions[k], conv[sessions[k]]) = k
              /\ at[sessions[k]] # "idle"
          BY <3>1, <5>1 DEF Invariant, Stored
        <5> QED BY <2>6, <5>1, <5>2
      <4> QED BY <4>1, <4>2
    <3> QED BY <1>3, <3>1 DEF Stored
  <2>9. Finished'
    <3>1. ASSUME NEW k \in Keys, sessions'[k] # NoSession
          PROVE  \E x \in Deliveries : /\ at'[x] \in {"done", "gone"}
                     /\ ScopedKey(x, conv[x]) = k
                     /\ agent[x].session = sessions'[k] /\ agent[x].settled = "yes"
      <4>1. CASE k = key
        <5>1. sessions'[k] = id
          BY <1>12, <2>3, <4>1 DEF Invariant, Shape
        <5>2. at'[d] \in {"done", "gone"}
          BY <1>12 DEF Return, Invariant, Shape
        <5> QED BY <1>6, <2>2, <4>1, <5>1, <5>2
      <4>2. CASE k # key
        <5>1. sessions'[k] = sessions[k]
          BY <1>12, <4>2 DEF Invariant, Shape
        <5> QED BY <2>6, <3>1, <5>1 DEF Invariant, Finished
      <4> QED BY <4>1, <4>2
    <3> QED BY <1>3, <3>1 DEF Finished
  <2> QED BY <2>5, <2>7, <2>8, <2>9 DEF Invariant
<1> QED BY <1>7, <1>8, <1>11, <1>12

\* A delivery begins, in a session that was begun under its own scope.
LEMMA BeginKeeps ==
  ASSUME Invariant, NoSession \notin Deliveries, NEW d \in Deliveries, at[d] = "idle",
         NEW c, NEW l, l # "idle", NEW pr, NEW s, NEW re, NEW v, NEW a,
         Changed(d, c, l, pr, pipe[d], tail[d], s, re, v, a),
         Row(product, d, c, l, pr, pipe[d], tail[d], s, re, v, a),
         sessions' = sessions, says' \in Int,
         re # NoSession => ScopedKey(re, conv[re]) = ScopedKey(d, c) /\ at[re] # "idle"
  PROVE  Invariant'
<1>1. Shape' /\ Rows'
  <2>1. sessions' \in [Keys -> Sessions]
    BY DEF Invariant, Shape
  <2> QED BY <2>1, RowChanges DEF Invariant
<1>2. \A x \in Deliveries : /\ at[x] # "idle" => x # d /\ conv'[x] = conv[x] /\ at'[x] = at[x]
                            /\ x # d => conv'[x] = conv[x] /\ resumed'[x] = resumed[x]
                            /\ at[x] \in {"done", "gone"} => agent'[x] = agent[x]
  BY DEF Changed, Invariant, Shape
<1>3. conv'[d] = c /\ resumed'[d] = re /\ re \in Sessions
  BY DEF Changed, Row, Invariant, Shape
<1>4. Continued'
  <2>1. ASSUME NEW x \in Deliveries, resumed'[x] # NoSession
        PROVE  /\ ScopedKey(resumed'[x], conv'[resumed'[x]]) = ScopedKey(x, conv'[x])
               /\ at'[resumed'[x]] # "idle"
    <3>1. CASE x = d
      <4>1. resumed'[x] = re /\ re \in Deliveries /\ conv'[x] = c
        BY <1>3, <2>1, <3>1 DEF Sessions
      <4>2. ScopedKey(re, conv[re]) = ScopedKey(x, c) /\ at[re] # "idle"
        BY <2>1, <3>1, <4>1
      <4>3. conv'[re] = conv[re] /\ at'[re] = at[re]
        BY <1>2, <4>1, <4>2
      <4> QED BY <4>1, <4>2, <4>3
    <3>2. CASE x # d
      <4>1. resumed'[x] = resumed[x] /\ resumed[x] \in Deliveries /\ conv'[x] = conv[x]
        BY <1>2, <2>1, <3>2 DEF Invariant, Shape, Sessions
      <4>2. /\ ScopedKey(resumed[x], conv[resumed[x]]) = ScopedKey(x, conv[x])
            /\ at[resumed[x]] # "idle"
        BY <2>1, <4>1 DEF Invariant, Continued
      <4> QED BY <1>2, <4>1, <4>2
    <3> QED BY <3>1, <3>2
  <2> QED BY <2>1 DEF Continued
<1>5. Stored'
  <2>1. ASSUME NEW k \in Keys, sessions[k] # NoSession
        PROVE  /\ ScopedKey(sessions[k], conv'[sessions[k]]) = k
               /\ at'[sessions[k]] # "idle"
    <3>1. sessions[k] \in Deliveries
      BY <2>1 DEF Invariant, Shape, Sessions
    <3>2. /\ ScopedKey(sessions[k], conv[sessions[k]]) = k
          /\ at[sessions[k]] # "idle"
      BY <2>1 DEF Invariant, Stored
    <3> QED BY <1>2, <3>1, <3>2
  <2> QED BY <2>1 DEF Stored
<1>6. Finished'
  <2>1. ASSUME NEW k \in Keys, sessions[k] # NoSession
        PROVE  \E x \in Deliveries : /\ at'[x] \in {"done", "gone"}
                   /\ ScopedKey(x, conv'[x]) = k
                   /\ agent'[x].session = sessions[k] /\ agent'[x].settled = "yes"
    <3>1. PICK x \in Deliveries :
            /\ at[x] \in {"done", "gone"} /\ ScopedKey(x, conv[x]) = k
            /\ agent[x].session = sessions[k] /\ agent[x].settled = "yes"
      BY <2>1 DEF Invariant, Finished
    <3> QED BY <1>2, <3>1
  <2> QED BY <2>1 DEF Finished
<1> QED BY <1>1, <1>4, <1>5, <1>6 DEF Invariant

\* The row of a delivery that has not begun.
LEMMA IdleRow ==
  ASSUME Invariant, NEW d \in Deliveries, at[d] = "idle"
  PROVE  /\ conv[d] \in Messages \cup {NoConv} /\ proc[d] \in Procs
         /\ pipe[d] = <<>> /\ tail[d] = <<>> /\ <<>> \in Seq(Events)
         /\ stream[d] = NewStream(TRUE, NoSession) /\ resumed[d] = NoSession
         /\ verdict[d] = Pending /\ agent[d] = Dormant
         /\ Formed(stream[d]) /\ Dormant \in Agents /\ Pending \in Verdicts
         /\ IsPrefix(Held(stream[d]), Dormant.said)
<1>1. Row(product, d, conv[d], at[d], proc[d], pipe[d], tail[d], stream[d], resumed[d],
          verdict[d], agent[d])
  BY RowOf
<1>2. IsNew(pipe[d], tail[d], stream[d], resumed[d], agent[d]) /\ verdict[d] = Pending
  BY <1>1 DEF Row
<1> QED BY <1>1, <1>2 DEF Row, IsNew

\* The session that a delivery would continue.
LEMMA SavedIsOfTheSender ==
  ASSUME Invariant, NEW d \in Deliveries, NEW c \in Messages
  PROVE  /\ Saved(d, c) \in Sessions
         /\ Saved(d, c) # NoSession =>
              /\ ScopedKey(Saved(d, c), conv[Saved(d, c)]) = ScopedKey(d, c)
              /\ at[Saved(d, c)] # "idle"
<1>1. PICK k : k = ScopedKey(d, c)
  OBVIOUS
<1>2. k \in Keys
  BY <1>1, ScopedKeys
<1>3. Saved(d, c) = sessions[k] \/ Saved(d, c) = NoSession
  BY <1>1 DEF Saved
<1>4. sessions[k] \in Sessions
  BY <1>2 DEF Invariant, Shape
<1>5. ASSUME sessions[k] # NoSession
      PROVE  ScopedKey(sessions[k], conv[sessions[k]]) = k /\ at[sessions[k]] # "idle"
  BY <1>2, <1>5 DEF Invariant, Stored
<1> QED BY <1>1, <1>3, <1>4, <1>5 DEF Sessions

\* A CLI that was just started has said nothing.
LEMMA BootCoupled ==
  ASSUME MaxItems \in Nat, NEW p \in Natives, NEW live \in BOOLEAN, NEW expected \in Sessions,
         NEW a, a = [Dormant EXCEPT !.phase = "boot"]
  PROVE  /\ a \in Living(p) /\ a.said = <<>> /\ a.session = NoSession
         /\ Coupled(p, NewStream(live, expected), a)
<1>1. PICK s : s = NewStream(live, expected)
  OBVIOUS
<1>2. /\ Formed(s) /\ Held(s) = <<>> /\ Sound(s) /\ ~s.completed
      /\ s.session = NoSession /\ s.document = <<>>
      /\ \A i \in 1 .. MaxItems : s.items[i] = <<>>
  BY <1>1, NewStreams
<1>3. /\ a.said = <<>> /\ a.session = NoSession /\ a.phase = "boot" /\ a.item = 0
  BY DEF Dormant
<1>4. a \in Living(p)
  BY Dormants DEF Everyone
<1>5. CoupledItems(p, s, a)
  BY <1>2, <1>3 DEF CoupledItems, ItemsKept
<1>6. CoupledPi(s, a)
  BY <1>2, <1>3 DEF CoupledPi
<1>7. CoupledDoc(s, a)
  BY <1>2, <1>3 DEF CoupledDoc
<1> QED BY <1>1, <1>2, <1>3, <1>4, <1>5, <1>6, <1>7 DEF Coupled, Natives

\* A CLI is started, in the session of its scope if any.
LEMMA StartKeeps ==
  ASSUME Invariant, NEW d \in Deliveries, Start(d)
  PROVE  Invariant'
<1>1. NoSession \notin Deliveries /\ MaxItems \in Nat /\ Inbox \subseteq Messages
  BY AdapterAssumption
<1>2. at[d] = "idle" /\ product \in Natives
  BY DEF Start, Admits, Arrives, Invariant, Shape, Everyone
<1>3. PICK c \in Messages :
        /\ conv' = [conv EXCEPT ![d] = c]
        /\ resumed' = [resumed EXCEPT ![d] = Saved(d, c)]
        /\ \/ Return(d, Verdict("failed", FALSE)) /\ UNCHANGED <<proc, agent, stream>>
           \/ /\ GoOn(d, "running")
              /\ proc' = [proc EXCEPT ![d] = "alive"]
              /\ agent' = [agent EXCEPT ![d].phase = "boot"]
              /\ stream' = [stream EXCEPT ![d] =
                    NewStream(c.kind = "request", IF Pi THEN Saved(d, c) ELSE NoSession)]
  BY <1>1 DEF Start
<1>4. UNCHANGED <<product, pipe, tail, sessions, says>>
  BY DEF Start, kept
<1>5. PICK re : re = Saved(d, c)
  OBVIOUS
<1>6. /\ re \in Sessions
      /\ re # NoSession => ScopedKey(re, conv[re]) = ScopedKey(d, c) /\ at[re] # "idle"
  BY <1>2, <1>5, SavedIsOfTheSender
<1>7. /\ proc[d] \in Procs /\ pipe[d] = <<>> /\ tail[d] = <<>> /\ <<>> \in Seq(Events)
      /\ verdict[d] = Pending /\ agent[d] = Dormant /\ Pending \in Verdicts
      /\ Formed(stream[d]) /\ Dormant \in Agents /\ IsPrefix(Held(stream[d]), Dormant.said)
  BY <1>2, IdleRow
<1>8. says' \in Int
  BY <1>4 DEF Invariant, Shape
<1>9. CASE Return(d, Verdict("failed", FALSE)) /\ UNCHANGED <<proc, agent, stream>>
  <2>1. /\ Dormant.phase = "none" /\ Failure(FALSE) \in Verdicts
        /\ Failure(FALSE).kind = "failed"
    BY <1>1, <1>2, Dormants, Failures DEF Everyone
  <2>2. IsEarned(product, c, proc[d], stream[d], Failure(FALSE), agent[d])
    BY <1>7, <2>1 DEF IsEarned
  <2>3. Row(product, d, c, "done", proc[d], pipe[d], tail[d], stream[d], re, Failure(FALSE),
            agent[d])
    BY <1>6, <1>7, <2>1, <2>2 DEF Row, Places
  <2>4. Changed(d, c, "done", proc[d], pipe[d], tail[d], stream[d], re, Failure(FALSE), agent[d])
    BY <1>3, <1>4, <1>5, <1>9 DEF Changed, Return, Failure, Invariant, Shape
  <2> QED BY <1>1, <1>2, <1>4, <1>6, <1>8, <2>3, <2>4, BeginKeeps
<1>10. CASE /\ GoOn(d, "running")
            /\ proc' = [proc EXCEPT ![d] = "alive"]
            /\ agent' = [agent EXCEPT ![d].phase = "boot"]
            /\ stream' = [stream EXCEPT ![d] =
                  NewStream(c.kind = "request", IF Pi THEN Saved(d, c) ELSE NoSession)]
  <2>1. PICK expected \in Sessions : expected = IF Pi THEN Saved(d, c) ELSE NoSession
    BY <1>5, <1>6 DEF Sessions
  <2>2. PICK live \in BOOLEAN : live = (c.kind = "request")
    OBVIOUS
  <2>3. PICK s : s = NewStream(live, expected)
    OBVIOUS
  <2>4. PICK a : a = [Dormant EXCEPT !.phase = "boot"]
    OBVIOUS
  <2>5. /\ a \in Living(product) /\ a.said = <<>> /\ a.session = NoSession
        /\ Coupled(product, s, a)
    BY <1>1, <1>2, <2>3, <2>4, BootCoupled
  <2>6. Formed(s) /\ Held(s) = <<>> /\ a \in Agents /\ IsPrefix(<<>>, <<>>)
    <3>1. IsPrefix(<<>>, <<>>)
      BY TextJoins, PrefixOfSame DEF Text
    <3> QED BY <1>1, <2>3, <2>5, <3>1, NewStreams DEF Living
  <2>7. Follow(product, s, <<>>, a)
    BY <1>2, <2>5, FollowNone DEF Everyone
  <2>8. IsNative(product, d, c, re, a) /\ IsRunning(product, "alive", pipe[d], tail[d], s, a)
    BY <1>2, <1>7, <2>5, <2>7 DEF IsNative, IsRunning, Unread
  <2>9. Row(product, d, c, "running", "alive", pipe[d], tail[d], s, re, verdict[d], a)
    BY <1>6, <1>7, <2>5, <2>6, <2>8 DEF Row, Places, Procs
  <2>10. stream' = [stream EXCEPT ![d] = s] /\ agent' = [agent EXCEPT ![d] = a]
    BY <1>7, <1>10, <2>1, <2>2, <2>3, <2>4 DEF Invariant, Shape
  <2>11. Changed(d, c, "running", "alive", pipe[d], tail[d], s, re, verdict[d], a)
    BY <1>3, <1>4, <1>5, <1>10, <2>10 DEF Changed, GoOn, Invariant, Shape
  <2> QED BY <1>1, <1>2, <1>4, <1>6, <1>8, <2>9, <2>11, BeginKeeps
<1> QED BY <1>3, <1>9, <1>10

\* An event about a run never reaches a model.
LEMMA IgnoreKeeps ==
  ASSUME Invariant, NEW d \in Deliveries, Ignore(d)
  PROVE  Invariant'
<1>1. NoSession \notin Deliveries /\ Inbox \subseteq Messages
  BY AdapterAssumption
<1>2. /\ at[d] = "idle" /\ Return(d, Verdict("ignored", FALSE))
      /\ UNCHANGED <<product, proc, pipe, agent, says, tail, stream, resumed, sessions>>
  BY DEF Ignore, Arrives, harness, reader, kept
<1>3. PICK c \in Messages : conv' = [conv EXCEPT ![d] = c]
  BY <1>1 DEF Ignore
<1>4. PICK v : v = Verdict("ignored", FALSE)
  OBVIOUS
<1>5. v \in Verdicts /\ v.kind = "ignored" /\ Verdict("failed", FALSE).kind = "failed"
  BY <1>4 DEF Verdict, Verdicts
<1>6. IsEarned(product, c, proc[d], stream[d], v, agent[d])
  BY <1>5 DEF IsEarned
<1>7. Row(product, d, c, "done", proc[d], pipe[d], tail[d], stream[d], resumed[d], v, agent[d])
  BY <1>2, <1>5, <1>6, IdleRow DEF Row, Places, Sessions
<1>8. Changed(d, c, "done", proc[d], pipe[d], tail[d], stream[d], resumed[d], v, agent[d])
  BY <1>2, <1>3, <1>4 DEF Changed, Return, Invariant, Shape
<1>9. says' \in Int /\ resumed[d] = NoSession
  BY <1>2, IdleRow DEF Invariant, Shape
<1> QED BY <1>1, <1>2, <1>7, <1>8, <1>9, BeginKeeps

\* A webhook is dialled.
LEMMA DialKeeps ==
  ASSUME Invariant, NEW d \in Deliveries, Dial(d)
  PROVE  Invariant'
<1>1. NoSession \notin Deliveries /\ MaxItems \in Nat /\ Inbox \subseteq Messages
  BY AdapterAssumption
<1>2. /\ at[d] = "idle" /\ product = "webhook"
      /\ UNCHANGED <<product, pipe, says, tail, resumed, sessions>>
  BY DEF Dial, Admits, Arrives, kept
<1>3. PICK c \in Messages :
        /\ conv' = [conv EXCEPT ![d] = c]
        /\ stream' = [stream EXCEPT ![d] = NewStream(c.kind = "request", NoSession)]
        /\ \/ Return(d, Verdict("retry", FALSE)) /\ UNCHANGED <<proc, agent>>
           \/ /\ GoOn(d, "posted")
              /\ proc' = [proc EXCEPT ![d] = "alive"]
              /\ agent' = [agent EXCEPT ![d].phase = "turn"]
  BY <1>1 DEF Dial
<1>4. /\ proc[d] \in Procs /\ pipe[d] = <<>> /\ tail[d] = <<>> /\ <<>> \in Seq(Events)
      /\ verdict[d] = Pending /\ agent[d] = Dormant /\ Pending \in Verdicts
      /\ Dormant \in Agents /\ resumed[d] = NoSession
  BY <1>2, IdleRow
<1>5. PICK live \in BOOLEAN : live = (c.kind = "request")
  OBVIOUS
<1>6. PICK s : s = NewStream(live, NoSession)
  OBVIOUS
<1>7. Formed(s) /\ Held(s) = <<>> /\ IsPrefix(<<>>, <<>>)
      /\ s \in {NewStream(TRUE, NoSession), NewStream(FALSE, NoSession)}
  <2>1. IsPrefix(<<>>, <<>>)
    BY TextJoins, PrefixOfSame DEF Text
  <2>2. Formed(s) /\ Held(s) = <<>>
    BY <1>1, <1>6, NewStreams DEF Sessions
  <2> QED BY <1>6, <2>1, <2>2
<1>8. stream' = [stream EXCEPT ![d] = s]
  BY <1>3, <1>5, <1>6
<1>9. says' \in Int
  BY <1>2 DEF Invariant, Shape
<1>10. /\ Dormant.phase = "none" /\ Dormant.said = <<>>
       /\ [Dormant EXCEPT !.phase = "turn"] \in Agents
  BY <1>1, Dormants DEF Everyone
<1>11. CASE Return(d, Verdict("retry", FALSE)) /\ UNCHANGED <<proc, agent>>
  <2>1. PICK v : v = Verdict("retry", FALSE)
    OBVIOUS
  <2>2. v \in Verdicts /\ v.kind = "retry" /\ Verdict("failed", FALSE).kind = "failed"
    BY <2>1 DEF Verdict, Verdicts
  <2>3. IsEarned(product, c, proc[d], s, v, agent[d])
    BY <1>4, <1>10, <2>2 DEF IsEarned
  <2>4. Row(product, d, c, "done", proc[d], pipe[d], tail[d], s, resumed[d], v, agent[d])
    BY <1>4, <1>7, <1>10, <2>2, <2>3 DEF Row, Places, Sessions
  <2>5. Changed(d, c, "done", proc[d], pipe[d], tail[d], s, resumed[d], v, agent[d])
    BY <1>2, <1>3, <1>8, <1>11, <2>1 DEF Changed, Return, Invariant, Shape
  <2> QED BY <1>1, <1>2, <1>4, <1>9, <2>4, <2>5, BeginKeeps
<1>12. CASE /\ GoOn(d, "posted")
            /\ proc' = [proc EXCEPT ![d] = "alive"]
            /\ agent' = [agent EXCEPT ![d].phase = "turn"]
  <2>1. PICK a : a = [Dormant EXCEPT !.phase = "turn"]
    OBVIOUS
  <2>2. a \in Agents /\ a.said = <<>>
    BY <1>10, <2>1 DEF Agents
  <2>3. IsPosted(product, c, pipe[d], tail[d], s, a)
    BY <1>2, <1>4, <1>7, <2>1 DEF IsPosted
  <2>4. Row(product, d, c, "posted", "alive", pipe[d], tail[d], s, resumed[d], verdict[d], a)
    BY <1>4, <1>7, <2>2, <2>3 DEF Row, Places, Procs, Sessions
  <2>5. agent' = [agent EXCEPT ![d] = a]
    BY <1>4, <1>12, <2>1 DEF Invariant, Shape
  <2>6. Changed(d, c, "posted", "alive", pipe[d], tail[d], s, resumed[d], verdict[d], a)
    BY <1>2, <1>3, <1>8, <1>12, <2>5 DEF Changed, GoOn, Invariant, Shape
  <2> QED BY <1>1, <1>2, <1>4, <1>9, <2>4, <2>6, BeginKeeps
<1> QED BY <1>3, <1>11, <1>12

(***************************************************************************)
(* The delivery to a webhook.                                               *)
(***************************************************************************)

\* What is known where a response is awaited.
LEMMA PostedRow ==
  ASSUME MaxItems \in Nat, Invariant, NEW d \in Deliveries, at[d] = "posted"
  PROVE  /\ product = "webhook" /\ conv[d] \in Messages
         /\ pipe[d] = <<>> /\ tail[d] = <<>> /\ agent[d] \in Agents
         /\ agent[d].said = <<>> /\ agent[d].phase = "turn" /\ <<>> \in Seq(Events)
         /\ Formed(stream[d]) /\ Held(stream[d]) = <<>> /\ Sound(stream[d])
         /\ stream[d].pending = <<>> /\ proc[d] \in Procs /\ resumed[d] \in Sessions
<1>1. Row(product, d, conv[d], at[d], proc[d], pipe[d], tail[d], stream[d], resumed[d],
          verdict[d], agent[d])
  BY RowOf
<1>2. IsPosted(product, conv[d], pipe[d], tail[d], stream[d], agent[d])
  BY <1>1 DEF Row
<1>3. PICK live \in BOOLEAN : stream[d] = NewStream(live, NoSession)
  BY <1>2 DEF IsPosted
<1>4. /\ Formed(stream[d]) /\ Held(stream[d]) = <<>> /\ Sound(stream[d])
      /\ stream[d].pending = <<>>
  <2>1. NoSession \in Sessions
    BY DEF Sessions
  <2> QED BY <1>3, <2>1, NewStreams
<1>5. agent[d].said = <<>> /\ agent[d].phase = "turn"
  BY <1>2 DEF IsPosted, Dormant
<1> QED BY <1>1, <1>2, <1>4, <1>5 DEF Row, IsPosted

\* A verdict is what it was made of.
LEMMA VerdictIs ==
  ASSUME NEW kind \in {"completed", "accepted", "failed", "retry"}, NEW maybe \in BOOLEAN
  PROVE  Verdict(kind, maybe) \in Verdicts /\ Verdict(kind, maybe).kind = kind
  BY DEF Verdict, Verdicts

\* An error status is a certain failure, or lets an event be sent again.
LEMMA TakeStatusKeeps ==
  ASSUME Invariant, NEW d \in Deliveries, TakeStatus(d)
  PROVE  Invariant'
<1>1. NoSession \notin Deliveries /\ MaxItems \in Nat
  BY AdapterAssumption
<1>2. /\ at[d] = "posted"
      /\ agent' = [agent EXCEPT ![d].phase = "over", ![d].settled = "failed"]
      /\ UNCHANGED <<product, conv, proc, pipe, says, tail, stream, resumed, sessions>>
  BY DEF TakeStatus, reader, kept
<1>3. PICK v :
        /\ Return(d, v)
        /\ \/ v \in {Verdict("failed", TRUE), Verdict("failed", FALSE)}
           \/ conv[d].kind = "feedback" /\ v = Verdict("retry", FALSE)
  BY DEF TakeStatus
<1>4. v \in Verdicts /\ v.kind # "completed" /\ (v.kind = "retry" => conv[d].kind = "feedback")
  BY <1>3, VerdictIs
<1>5. /\ product = "webhook" /\ agent[d] \in Agents /\ agent[d].said = <<>>
      /\ Held(stream[d]) = <<>>
  BY <1>1, <1>2, PostedRow
<1>6. PICK a : a = [agent[d] EXCEPT !.phase = "over", !.settled = "failed"]
  OBVIOUS
<1>7. a \in Agents /\ a.said = <<>> /\ a.phase = "over"
  BY <1>5, <1>6 DEF Agents
<1>8. agent' = [agent EXCEPT ![d] = a]
  BY <1>2, <1>6 DEF Invariant, Shape
<1>9. IsEarned(product, conv[d], proc[d], stream[d], v, a)
  BY <1>4, <1>5, <1>7 DEF IsEarned
<1>10. Row(product, d, conv[d], at[d], proc[d], pipe[d], tail[d], stream[d], resumed[d],
           verdict[d], agent[d])
  BY RowOf
<1>11. Row(product, d, conv[d], "done", proc[d], pipe[d], tail[d], stream[d], resumed[d], v, a)
  BY <1>4, <1>5, <1>7, <1>9, <1>10 DEF Row, Places
<1>12. Changed(d, conv[d], "done", proc[d], pipe[d], tail[d], stream[d], resumed[d], v, a)
  BY <1>2, <1>3, <1>8 DEF Changed, Return, Invariant, Shape
<1>13. says' \in Int
  BY <1>2 DEF Invariant, Shape
<1> QED BY <1>1, <1>2, <1>11, <1>12, <1>13, Steady

\* A document that counts as completed is no error, and does not say otherwise.
LEMMA ParsedIsTrue ==
  ASSUME NEW r \in Documents
  PROVE  /\ r.reply \in Text
         /\ Parsed(r).success /\ Parsed(r).completed => ~Denied(r) /\ r.completed # "no"
<1>1. r.reply \in {<<>>, <<1>>} /\ <<1>> \in Text /\ <<>> \in Text
  <2>1. <<1>> \in Seq(Nat)
    OBVIOUS
  <2>2. r.reply \in {<<>>, <<1>>}
    BY DEF Documents
  <2> QED BY <2>1, <2>2, TextJoins DEF Text
<1>2. CASE r.form = "empty"
  BY <1>1, <1>2 DEF Parsed
<1>3. CASE r.form \in {"text", "long"}
  <2>1. r.error = FALSE /\ r.success = "absent" /\ r.completed = "absent"
    BY <1>3 DEF Documents
  <2> QED BY <1>1, <2>1 DEF Denied
<1>4. CASE r.form = "struct"
  <2>1. Parsed(r).success <=> r.success # "no" /\ ~r.error
    BY <1>4 DEF Parsed
  <2>2. Parsed(r).completed => r.completed # "no"
    <3>1. Parsed(r).completed =>
            IF r.completed = "absent" THEN r.reply # <<>> ELSE r.completed = "yes"
      BY <1>4 DEF Parsed
    <3> QED BY <3>1
  <2> QED BY <1>1, <2>1, <2>2 DEF Denied
<1> QED BY <1>2, <1>3, <1>4 DEF Documents

\* What a stream makes of the reply of a document.
LEMMA ReplyIsTold ==
  ASSUME NEW s, Formed(s), Held(s) = <<>>, NEW reply \in Text, NEW ok,
         NEW t, t = IF s.live
                    THEN LET u == Add(s, reply, ok) IN IF Sound(u) THEN Flush(u, ok) ELSE u
                    ELSE [s EXCEPT !.reply = reply]
  PROVE  Formed(t) /\ Held(t) = reply /\ (Sound(t) => Told(t) = reply)
<1>1. CASE s.live
  <2>1. PICK u : u = Add(s, reply, ok)
    OBVIOUS
  <2>2. Formed(u) /\ Held(u) = reply
    <3>1. Moves(s, u) /\ Held(u) = Held(s) \o reply
      BY <1>1, <2>1, AddMoves
    <3> QED BY <3>1, TextJoins DEF Moves
  <2>3. t = IF Sound(u) THEN Flush(u, ok) ELSE u
    BY <1>1, <2>1
  <2>4. CASE Sound(u)
    <3>1. t = Flush(u, ok)
      BY <2>3, <2>4
    <3> QED BY <2>2, <3>1, FlushMoves DEF Moves
  <2>5. CASE ~Sound(u)
    BY <2>2, <2>3, <2>5
  <2> QED BY <2>4, <2>5
<1>2. CASE ~s.live
  <2>1. t = [s EXCEPT !.reply = reply]
    BY <1>2
  <2>2. /\ t \in Streams /\ ~t.live /\ t.reply = reply /\ t.out = <<>> /\ t.pending = <<>>
    BY <1>2, <2>1 DEF Formed, Streams
  <2>3. Formed(t) /\ Held(t) = reply
    BY <2>2 DEF Formed, Held
  <2> QED BY <2>2, <2>3, ToldIsHeld
<1> QED BY <1>1, <1>2

\* A document is told in full before it counts as completed.
LEMMA TakeDocumentKeeps ==
  ASSUME Invariant, NEW d \in Deliveries,
         TakeDocument(d)
  PROVE  Invariant'
<1>1. NoSession \notin Deliveries /\ MaxItems \in Nat
  BY AdapterAssumption
<1>2. /\ at[d] = "posted"
      /\ UNCHANGED <<product, conv, proc, pipe, says, tail, resumed, sessions>>
  BY DEF TakeDocument, kept
<1>3. PICK r \in Documents, ok \in BOOLEAN :
        LET s == IF ~Parsed(r).completed \/ ~Parsed(r).success THEN stream[d]
                 ELSE IF stream[d].live
                 THEN LET t == Add(stream[d], r.reply, ok)
                      IN  IF Sound(t) THEN Flush(t, ok) ELSE t
                 ELSE [stream[d] EXCEPT !.reply = r.reply]
        IN  /\ agent' = [agent EXCEPT ![d].phase = "over", ![d].said = r.reply,
                            ![d].settled = IF Denied(r) THEN "failed" ELSE
                                           IF r.completed = "no" THEN "no" ELSE "yes"]
            /\ stream' = [stream EXCEPT ![d] = s]
            /\ IF r.form = "long" \/ ~Sound(s) THEN Uncertain(d)
               ELSE Return(d, Concluded(d, Parsed(r)))
  BY DEF TakeDocument
<1>4. PICK s : s = IF ~Parsed(r).completed \/ ~Parsed(r).success THEN stream[d]
                   ELSE IF stream[d].live
                   THEN LET t == Add(stream[d], r.reply, ok)
                        IN  IF Sound(t) THEN Flush(t, ok) ELSE t
                   ELSE [stream[d] EXCEPT !.reply = r.reply]
  OBVIOUS
<1>5. PICK a : a = [agent[d] EXCEPT !.phase = "over", !.said = r.reply,
                       !.settled = IF Denied(r) THEN "failed" ELSE
                                   IF r.completed = "no" THEN "no" ELSE "yes"]
  OBVIOUS
<1>6. agent' = [agent EXCEPT ![d] = a] /\ stream' = [stream EXCEPT ![d] = s]
  BY <1>3, <1>4, <1>5 DEF Invariant, Shape
<1>7. /\ product = "webhook" /\ pipe[d] = <<>> /\ agent[d] \in Agents
      /\ Formed(stream[d]) /\ Held(stream[d]) = <<>> /\ Sound(stream[d])
  BY <1>1, <1>2, PostedRow
<1>8. /\ a \in Agents /\ a.phase = "over" /\ a.said = r.reply
      /\ ~Denied(r) /\ r.completed # "no" => a.settled = "yes"
  BY <1>5, <1>7, ParsedIsTrue DEF Agents
<1>9. /\ Formed(s) /\ IsPrefix(Held(s), a.said)
      /\ Parsed(r).completed /\ Parsed(r).success /\ Sound(s) => Told(s) = a.said
  <2>1. r.reply \in Text /\ IsPrefix(<<>>, r.reply) /\ IsPrefix(r.reply, r.reply)
    <3>1. r.reply \in Text /\ <<>> \in Text
      BY ParsedIsTrue, TextJoins
    <3>2. IsPrefix(<<>>, <<>> \o r.reply) /\ <<>> \o r.reply = r.reply
      BY <3>1, TextJoins
    <3> QED BY <3>1, <3>2, PrefixOfSame DEF Text
  <2>2. CASE ~Parsed(r).completed \/ ~Parsed(r).success
    <3>1. s = stream[d]
      BY <1>4, <2>2
    <3> QED BY <1>7, <1>8, <2>1, <2>2, <3>1
  <2>3. CASE Parsed(r).completed /\ Parsed(r).success
    <3>1. s = IF stream[d].live
              THEN LET t == Add(stream[d], r.reply, ok)
                   IN  IF Sound(t) THEN Flush(t, ok) ELSE t
              ELSE [stream[d] EXCEPT !.reply = r.reply]
      BY <1>4, <2>3
    <3>2. Formed(s) /\ Held(s) = r.reply /\ (Sound(s) => Told(s) = r.reply)
      BY <1>7, <2>1, <3>1, ReplyIsTold
    <3> QED BY <1>8, <2>1, <3>2
  <2> QED BY <2>2, <2>3
<1>10. PICK v : /\ Return(d, v)
                /\ \/ v = Verdict("failed", TRUE)
                   \/ v = Concluded(d, Parsed(r)) /\ Sound(s)
  BY <1>3, <1>4 DEF Uncertain
<1>11. \/ v \in {Verdict("failed", TRUE), Verdict("failed", FALSE),
                 Verdict("accepted", FALSE)}
       \/ /\ v = Verdict("completed", FALSE) /\ Sound(s)
          /\ Parsed(r).success /\ Parsed(r).completed
  BY <1>10 DEF Concluded
<1>12. /\ v \in Verdicts /\ v.kind # "retry"
       /\ v.kind = "completed" => Sound(s) /\ Parsed(r).success /\ Parsed(r).completed
  BY <1>11, VerdictIs
<1>13. v.kind = "completed" => a.settled = "yes" /\ Told(s) = a.said
  BY <1>8, <1>9, <1>12, ParsedIsTrue
<1>14. IsEarned(product, conv[d], proc[d], s, v, a)
  BY <1>7, <1>8, <1>12, <1>13 DEF IsEarned
<1>15. Row(product, d, conv[d], at[d], proc[d], pipe[d], tail[d], stream[d], resumed[d],
           verdict[d], agent[d])
  BY RowOf
<1>16. Row(product, d, conv[d], "done", proc[d], pipe[d], tail[d], s, resumed[d], v, a)
  BY <1>8, <1>9, <1>12, <1>14, <1>15 DEF Row, Places
<1>17. Changed(d, conv[d], "done", proc[d], pipe[d], tail[d], s, resumed[d], v, a)
  BY <1>2, <1>6, <1>10 DEF Changed, Return, Invariant, Shape
<1>18. says' \in Int
  BY <1>2 DEF Invariant, Shape
<1> QED BY <1>1, <1>2, <1>16, <1>17, <1>18, Steady

\* The first frame is awaited.
LEMMA TakeStreamKeeps ==
  ASSUME Invariant, NEW d \in Deliveries, TakeStream(d)
  PROVE  Invariant'
<1>1. NoSession \notin Deliveries /\ MaxItems \in Nat
  BY AdapterAssumption
<1>2. /\ at[d] = "posted" /\ GoOn(d, "frames")
      /\ UNCHANGED <<product, conv, proc, pipe, agent, says, tail, stream, resumed, sessions>>
  BY DEF TakeStream, harness, reader, kept
<1>3. /\ product = "webhook" /\ conv[d] \in Messages
      /\ pipe[d] = <<>> /\ tail[d] = <<>> /\ agent[d] \in Agents
      /\ agent[d].said = <<>>
      /\ Formed(stream[d]) /\ Held(stream[d]) = <<>> /\ Sound(stream[d])
      /\ stream[d].pending = <<>>
  BY <1>1, <1>2, PostedRow
<1>4. Coupled(product, stream[d], agent[d]) /\ agent[d] \in Living(product)
  BY <1>3 DEF Coupled, CoupledFrames, Living
<1>5. IsFrames(product, conv[d], pipe[d], tail[d], stream[d], agent[d])
  BY <1>3, <1>4, FollowNone DEF IsFrames, Everyone
<1>6. Row(product, d, conv[d], at[d], proc[d], pipe[d], tail[d], stream[d], resumed[d],
          verdict[d], agent[d])
  BY RowOf
<1>7. Row(product, d, conv[d], "frames", proc[d], pipe[d], tail[d], stream[d], resumed[d],
          verdict[d], agent[d])
  BY <1>2, <1>5, <1>6 DEF Row, Places
<1>8. Changed(d, conv[d], "frames", proc[d], pipe[d], tail[d], stream[d], resumed[d],
              verdict[d], agent[d])
  BY <1>2 DEF Changed, GoOn, Invariant, Shape
<1>9. says' \in Int
  BY <1>2 DEF Invariant, Shape
<1> QED BY <1>1, <1>2, <1>7, <1>8, <1>9, Steady

\* A frame is read; the one that completes is the last that was written.
LEMMA TakeFrameKeeps ==
  ASSUME Invariant, NEW d \in Deliveries, TakeFrame(d)
  PROVE  Invariant'
<1>1. NoSession \notin Deliveries
  BY AdapterAssumption
<1>2. /\ at[d] = "frames" /\ pipe[d] # <<>>
      /\ pipe' = [pipe EXCEPT ![d] = Tail(pipe[d])]
      /\ UNCHANGED <<product, conv, proc, agent, says, tail, resumed, sessions>>
      /\ says' \in Int
  BY DEF TakeFrame, kept, Invariant, Shape
<1>3. Row(product, d, conv[d], at[d], proc[d], pipe[d], tail[d], stream[d], resumed[d],
          verdict[d], agent[d])
  BY RowOf
<1>4. /\ IsFrames(product, conv[d], pipe[d], tail[d], stream[d], agent[d])
      /\ pipe[d] \in Seq(Events) /\ agent[d] \in Agents /\ Formed(stream[d])
      /\ IsPrefix(Held(stream[d]), agent[d].said)
  BY <1>2, <1>3 DEF Row
<1>5. product = "webhook" /\ agent[d] \in Living("webhook") /\ "webhook" \in Everyone
  BY <1>4 DEF IsFrames, Living, Everyone
<1>6. Follow("webhook", stream[d], pipe[d], agent[d])
  BY <1>4, <1>5 DEF IsFrames
<1>7. PICK z \in Living("webhook"), y \in Living("webhook") :
        /\ Coupled("webhook", stream[d], z) /\ Step("webhook", z, Head(pipe[d]), y)
        /\ IsPrefix(y.said, agent[d].said)
        /\ \A t : Coupled("webhook", t, y) => Follow("webhook", t, Tail(pipe[d]), agent[d])
        /\ y.phase = "over" => agent[d] = y
  BY <1>2, <1>4, <1>5, <1>6, FollowRead
<1>8. PICK e \in Events : e = Head(pipe[d])
  BY <1>2, <1>4, HeadTailProperties
<1>9. StepFrames(z, e, y) /\ z \in Agents /\ y \in Agents
  BY <1>7, <1>8 DEF Step, Living
<1>10. Tail(pipe[d]) \in Seq(Events)
  BY <1>2, <1>4, HeadTailProperties
<1>11. CASE Uncertain(d) /\ stream' = stream
  <2>1. stream' = [stream EXCEPT ![d] = stream[d]]
    BY <1>11 DEF Invariant, Shape
  <2> QED BY <1>1, <1>2, <1>4, <1>10, <1>11, <2>1, UncertainKeeps
<1>12. ASSUME UNCHANGED <<at, verdict>>, NEW t, Coupled("webhook", t, y),
              stream' = [stream EXCEPT ![d] = t]
       PROVE  Invariant'
  <2>1. Formed(t) /\ IsPrefix(Held(t), agent[d].said)
    BY <1>7, <1>12 DEF Coupled, CoupledFrames
  <2>2. IsFrames(product, conv[d], Tail(pipe[d]), tail[d], t, agent[d])
    BY <1>4, <1>5, <1>7, <1>12 DEF IsFrames
  <2>3. Row(product, d, conv[d], at[d], proc[d], Tail(pipe[d]), tail[d], t, resumed[d],
            verdict[d], agent[d])
    BY <1>2, <1>3, <1>10, <2>1, <2>2 DEF Row
  <2>4. Changed(d, conv[d], at[d], proc[d], Tail(pipe[d]), tail[d], t, resumed[d], verdict[d],
                agent[d])
    BY <1>2, <1>12 DEF Changed, Invariant, Shape
  <2> QED BY <1>1, <1>2, <2>3, <2>4, Steady
<1>13. CASE e.type = "text" /\ stream[d].live /\ ~(Uncertain(d) /\ stream' = stream)
  <2>1. UNCHANGED <<at, verdict>> /\ stream' = [stream EXCEPT ![d].out = @ \o e.text]
    BY <1>8, <1>13 DEF TakeFrame
  <2>2. PICK t : t = [stream[d] EXCEPT !.out = stream[d].out \o e.text]
    OBVIOUS
  <2>3. stream' = [stream EXCEPT ![d] = t]
    BY <2>1, <2>2 DEF Invariant, Shape
  <2>4. Coupled("webhook", t, y)
    BY <1>7, <1>9, <1>13, <2>2, ReadFrame
  <2> QED BY <1>12, <2>1, <2>3, <2>4
<1>14. CASE e.type = "text" /\ ~stream[d].live
  <2>1. UNCHANGED <<at, verdict>> /\ stream' = [stream EXCEPT ![d].reply = @ \o e.text]
    BY <1>8, <1>14 DEF TakeFrame
  <2>2. PICK t : t = [stream[d] EXCEPT !.reply = stream[d].reply \o e.text]
    OBVIOUS
  <2>3. stream' = [stream EXCEPT ![d] = t]
    BY <2>1, <2>2 DEF Invariant, Shape
  <2>4. Coupled("webhook", t, y)
    BY <1>7, <1>9, <1>14, <2>2, ReadFrame
  <2> QED BY <1>12, <2>1, <2>3, <2>4
<1>15. CASE e.type = "end"
  <2>1. PICK v : /\ Return(d, v) /\ stream' = stream
                 /\ v = IF e.stop = "stop"
                        THEN Concluded(d, [success |-> TRUE, accepted |-> FALSE,
                                           completed |-> TRUE])
                        ELSE Verdict("failed", e.again)
    BY <1>8, <1>15 DEF TakeFrame
  <2>2. \/ v = Verdict("failed", TRUE) \/ v = Verdict("failed", FALSE)
        \/ v = Verdict("completed", FALSE) /\ e.stop = "stop"
    <3>1. e.again \in BOOLEAN
      BY <1>8 DEF Events
    <3> QED BY <2>1, <3>1 DEF Concluded
  <2>3. v \in Verdicts /\ v.kind # "retry" /\ (v.kind = "completed" => e.stop = "stop")
    BY <2>2, VerdictIs
  <2>4. y.phase = "over" /\ y.said = z.said /\ (e.stop = "stop" => y.settled = "yes")
    BY <1>9, <1>15 DEF StepFrames, SaysNothing, Breaks
  <2>5. agent[d] = y
    BY <1>7, <2>4
  <2>6. Told(stream[d]) = agent[d].said
    <3>1. Held(stream[d]) = z.said /\ stream[d].pending = <<>>
      BY <1>7 DEF Coupled, CoupledFrames
    <3> QED BY <1>4, <2>4, <2>5, <3>1, ToldIsHeld
  <2>7. IsEarned(product, conv[d], proc[d], stream[d], v, agent[d])
    BY <1>5, <2>3, <2>4, <2>5, <2>6 DEF IsEarned
  <2>8. Row(product, d, conv[d], "done", proc[d], Tail(pipe[d]), tail[d], stream[d], resumed[d],
            v, agent[d])
    BY <1>3, <1>10, <2>3, <2>7 DEF Row, Places
  <2>9. Changed(d, conv[d], "done", proc[d], Tail(pipe[d]), tail[d], stream[d], resumed[d], v,
                agent[d])
    BY <1>2, <2>1 DEF Changed, Return, Invariant, Shape
  <2> QED BY <1>1, <1>2, <2>8, <2>9, Steady
<1>16. CASE e.type \notin {"text", "end"}
  <2>1. Uncertain(d) /\ stream' = stream
    BY <1>8, <1>16 DEF TakeFrame
  <2> QED BY <1>11, <2>1
<1> QED BY <1>11, <1>13, <1>14, <1>15, <1>16

\* The handler has returned.  Whatever the store or a session still names is kept.
LEMMA LeaveKeeps ==
  ASSUME Invariant, NEW d \in Deliveries, Leave(d)
  PROVE  Invariant'
<1>1. NoSession \notin Deliveries /\ MaxItems \in Nat
  BY AdapterAssumption
<1>2. at[d] = "done" /\ UNCHANGED <<product, says, sessions>>
  BY DEF Leave
<1>3. PICK a : a = IF agent[d].session \in Mapped /\ agent[d].settled = "yes"
                   THEN [Dormant EXCEPT !.session = agent[d].session, !.settled = "yes"]
                   ELSE Dormant
  OBVIOUS
<1>4. PICK c : c = IF agent[d].session \notin Mapped /\ d \notin Remembered(d)
                   THEN NoConv ELSE conv[d]
  OBVIOUS
<1>5. PICK s : s = NewStream(TRUE, NoSession)
  OBVIOUS
<1>6. Changed(d, c, "gone", "none", <<>>, <<>>, s, NoSession, Pending, a)
  <2>1. conv' = [conv EXCEPT ![d] = c]
    BY <1>4 DEF Leave, Invariant, Shape
  <2>2. agent' = [agent EXCEPT ![d] = a]
    BY <1>3 DEF Leave
  <2> QED BY <1>5, <2>1, <2>2 DEF Leave, Changed
<1>7. Row(product, d, conv[d], at[d], proc[d], pipe[d], tail[d], stream[d], resumed[d],
          verdict[d], agent[d])
  BY RowOf
<1>8. Formed(s) /\ Held(s) = <<>> /\ IsPrefix(<<>>, <<>>) /\ <<>> \in Seq(Events)
  <2>1. IsPrefix(<<>>, <<>>)
    BY TextJoins, PrefixOfSame DEF Text
  <2>2. Formed(s) /\ Held(s) = <<>>
    BY <1>1, <1>5, NewStreams DEF Sessions
  <2>3. <<>> \in Seq(Events)
    OBVIOUS
  <2> QED BY <2>1, <2>2, <2>3
<1>9. a \in Agents /\ a.said = <<>>
  <2>1. Dormant \in Agents /\ Dormant.said = <<>> /\ agent[d].session \in Sessions
    BY <1>1, <1>7, Dormants DEF Everyone, Row, Agents
  <2> QED BY <1>3, <2>1 DEF Agents
<1>10. c \in Messages \cup {NoConv} /\ Pending \in Verdicts /\ NoSession \in Sessions
  BY <1>4, <1>7 DEF Row, Pending, Verdicts, Sessions
<1>11. Row(product, d, c, "gone", "none", <<>>, <<>>, s, NoSession, Pending, a)
  BY <1>8, <1>9, <1>10 DEF Row, Places, Procs
<1>12. Shape' /\ Rows'
  <2>1. sessions' \in [Keys -> Sessions] /\ says' \in Int
    BY <1>2 DEF Invariant, Shape
  <2> QED BY <1>6, <1>11, <2>1, RowChanges DEF Invariant
<1>13. /\ \A x \in Deliveries \ {d} : /\ conv'[x] = conv[x] /\ resumed'[x] = resumed[x]
                                      /\ at'[x] = at[x] /\ agent'[x] = agent[x]
       /\ conv'[d] = c /\ resumed'[d] = NoSession /\ at'[d] = "gone" /\ agent'[d] = a
  BY <1>6 DEF Changed, Invariant, Shape
<1>14. d \in Remembered(d) => c = conv[d]
  BY <1>4
<1>15. \A k \in Keys : sessions[k] # NoSession => sessions[k] \in Mapped
  BY DEF Mapped, Range, Invariant, Shape
<1>16. \A x \in Deliveries : conv'[x] = conv[x] \/ (x = d /\ d \notin Remembered(d))
  BY <1>13, <1>14
<1>17. Continued'
  <2>1. ASSUME NEW x \in Deliveries, resumed'[x] # NoSession
        PROVE  /\ ScopedKey(resumed'[x], conv'[resumed'[x]]) = ScopedKey(x, conv'[x])
               /\ at'[resumed'[x]] # "idle"
    <3>1. x # d /\ resumed'[x] = resumed[x] /\ conv'[x] = conv[x] /\ resumed[x] \in Deliveries
      BY <1>13, <2>1 DEF Invariant, Shape, Sessions
    <3>2. /\ ScopedKey(resumed[x], conv[resumed[x]]) = ScopedKey(x, conv[x])
          /\ at[resumed[x]] # "idle"
      BY <2>1, <3>1 DEF Invariant, Continued
    <3>3. at[x] # "gone"
      <4>1. Row(product, x, conv[x], at[x], proc[x], pipe[x], tail[x], stream[x], resumed[x],
                verdict[x], agent[x])
        BY RowOf
      <4> QED BY <2>1, <3>1, <4>1 DEF Row
    <3>4. resumed[x] \in Remembered(d)
      BY <3>1, <3>3 DEF Remembered
    <3>5. conv'[resumed[x]] = conv[resumed[x]] /\ at'[resumed[x]] # "idle"
      BY <1>13, <1>16, <3>1, <3>2, <3>4
    <3> QED BY <3>1, <3>2, <3>5
  <2> QED BY <2>1 DEF Continued
<1>18. Stored'
  <2>1. ASSUME NEW k \in Keys, sessions[k] # NoSession
        PROVE  /\ ScopedKey(sessions[k], conv'[sessions[k]]) = k
               /\ at'[sessions[k]] # "idle"
    <3>1. sessions[k] \in Deliveries
      BY <2>1 DEF Invariant, Shape, Sessions
    <3>2. /\ ScopedKey(sessions[k], conv[sessions[k]]) = k
          /\ at[sessions[k]] # "idle"
      BY <2>1 DEF Invariant, Stored
    <3>3. sessions[k] \in Remembered(d)
      BY <1>15, <2>1 DEF Remembered
    <3> QED BY <1>13, <1>16, <3>1, <3>2, <3>3
  <2> QED BY <1>2, <2>1 DEF Stored
<1>19. Finished'
  <2>1. ASSUME NEW k \in Keys, sessions[k] # NoSession
        PROVE  \E x \in Deliveries : /\ at'[x] \in {"done", "gone"}
                   /\ ScopedKey(x, conv'[x]) = k
                   /\ agent'[x].session = sessions[k] /\ agent'[x].settled = "yes"
    <3>1. PICK x \in Deliveries :
            /\ at[x] \in {"done", "gone"} /\ ScopedKey(x, conv[x]) = k
            /\ agent[x].session = sessions[k] /\ agent[x].settled = "yes"
      BY <2>1 DEF Invariant, Finished
    <3>2. CASE x # d
      BY <1>13, <3>1, <3>2
    <3>3. CASE x = d
      <4>1. agent[d].session \in Mapped /\ agent[d].settled = "yes"
        BY <1>15, <2>1, <3>1, <3>3
      <4>2. c = conv[d] /\ a = [Dormant EXCEPT !.session = agent[d].session, !.settled = "yes"]
        BY <1>3, <1>4, <4>1
      <4>3. a.session = agent[d].session /\ a.settled = "yes"
        BY <4>2 DEF Dormant
      <4>4. /\ conv'[d] = conv[d] /\ at'[d] = "gone" /\ agent'[d].session = agent[d].session
            /\ agent'[d].settled = "yes"
        BY <1>13, <4>2, <4>3
      <4> QED BY <3>1, <3>3, <4>4
    <3> QED BY <3>2, <3>3
  <2> QED BY <1>2, <2>1 DEF Finished
<1> QED BY <1>12, <1>17, <1>18, <1>19 DEF Invariant

\* Every step of a delivery keeps the invariant.
LEMMA DeliverKeeps ==
  ASSUME Invariant, NEW d \in Deliveries, Deliver(d)
  PROVE  Invariant'
<1>1. NoSession \notin Deliveries /\ MaxItems \in Nat
  BY AdapterAssumption
<1>2. CASE StderrLimit(d) \/ Expire(d)
  <2>1. UNCHANGED <<product, conv, at, proc, pipe, tail, stream, resumed, verdict, agent,
                    sessions, says>>
    BY <1>2 DEF StderrLimit, Expire, harness, kept
  <2> QED BY <2>1, NothingKeeps
<1>3. CASE Kill(d)
  <2>1. UNCHANGED <<product, conv, at, tail, stream, resumed, verdict>>
    BY <1>3 DEF Kill, reader
  <2> QED BY <1>1, <1>3, <2>1, ExitKeeps
<1>4. CASE LoseConnection(d) \/ EndOfFrames(d)
  <2>1. /\ Uncertain(d) /\ at[d] \in {"posted", "frames"}
        /\ UNCHANGED <<product, conv, proc, pipe, agent, says, tail, stream, resumed, sessions>>
    BY <1>4 DEF LoseConnection, EndOfFrames, harness, reader, kept
  <2> QED BY <1>1, <2>1, GiveUpKeeps
<1>5. CASE TurnAway(d) \/ Ignore(d) \/ Start(d) \/ Dial(d)
  BY <1>1, <1>5, TurnAwayKeeps, IgnoreKeeps, StartKeeps, DialKeeps
<1>6. CASE Copy(d) \/ CopyTail(d) \/ Wait(d)
  BY <1>1, <1>6, CopyKeeps, CopyTailKeeps, WaitKeeps
<1>7. CASE Confirm(d) \/ Finish(d) \/ Save(d) \/ Leave(d)
  BY <1>1, <1>7, ConfirmKeeps, FinishKeeps, SaveKeeps, LeaveKeeps
<1>8. CASE TakeStatus(d) \/ TakeDocument(d) \/ TakeStream(d) \/ TakeFrame(d)
  BY <1>8, TakeStatusKeeps, TakeDocumentKeeps, TakeStreamKeeps, TakeFrameKeeps
<1> QED BY <1>2, <1>3, <1>4, <1>5, <1>6, <1>7, <1>8 DEF Deliver

\* Every step of the adapter keeps the invariant.
LEMMA NextKeeps ==
  ASSUME Invariant, [AdapterNext]_adapterVars
  PROVE  Invariant'
<1>1. ASSUME NEW d \in Deliveries, Harness(d) PROVE Invariant'
  BY <1>1, HarnessKeeps
<1>2. ASSUME NEW d \in Deliveries, Deliver(d) PROVE Invariant'
  BY <1>2, DeliverKeeps
<1>3. CASE LoseFile /\ UNCHANGED <<product, conv, at, reader, resumed, verdict>>
  BY <1>3, NothingKeeps DEF LoseFile, harness, reader
<1>4. CASE UNCHANGED adapterVars
  BY <1>4, NothingKeeps DEF adapterVars, harness, reader, kept
<1> QED BY <1>1, <1>2, <1>3, <1>4 DEF AdapterNext

\* Streams and Harnesses fit together, and sessions belong to their
\* conversations, in every state the adapter reaches.
THEOREM AdapterInvariance == AdapterSpec => []Invariant
<1>1. AdapterInit => Invariant
  BY InitInvariant
<1>2. Invariant /\ [AdapterNext]_adapterVars => Invariant'
  BY NextKeeps
<1> QED BY <1>1, <1>2, PTL DEF AdapterSpec

\* What the requester is told of an execution is true: completed, failed for
\* certain and to be tried again are each what really happened (cliAdapter and
\* WebhookAdapter.DeliverMessage, HandleMessage).
THEOREM EveryVerdictIsEarned == AdapterSpec => []VerdictIsEarned
<1>1. Invariant => VerdictIsEarned
  <2> SUFFICES ASSUME Invariant, NEW d \in Deliveries
               PROVE  /\ verdict[d].kind = "completed" =>
                            /\ agent[d].settled = "yes"
                            /\ product # "webhook" => proc[d] = "zero"
                      /\ verdict[d] = Verdict("failed", FALSE) =>
                            \/ agent[d].phase = "none"
                            \/ product = "webhook" /\ agent[d].phase = "over"
                      /\ verdict[d].kind = "retry" =>
                            agent[d].phase = "none" \/ conv[d].kind = "feedback"
    BY DEF VerdictIsEarned
  <2>1. Row(product, d, conv[d], at[d], proc[d], pipe[d], tail[d], stream[d], resumed[d],
            verdict[d], agent[d])
    BY RowOf
  <2>2. CASE at[d] = "done"
    BY <2>1, <2>2 DEF Row, IsEarned
  <2>3. CASE at[d] # "done"
    BY <2>1, <2>3 DEF Row, Pending, Verdict
  <2> QED BY <2>2, <2>3
<1> QED BY <1>1, AdapterInvariance, PTL

\* What the requester has got of an answer is what the Harness said, from its
\* beginning and in order, and all of it when the execution is completed
\* (answerEmitter, nativeStream.consume, consumeWebhookStream).
THEOREM EveryAnswerIsWhole == AdapterSpec => []AnswerIsWhole
<1>1. Invariant => AnswerIsWhole
  <2> SUFFICES ASSUME Invariant, NEW d \in Deliveries
               PROVE  /\ IsPrefix(Told(stream[d]), agent[d].said)
                      /\ verdict[d].kind = "completed" => Told(stream[d]) = agent[d].said
    BY DEF AnswerIsWhole, Told
  <2>1. Row(product, d, conv[d], at[d], proc[d], pipe[d], tail[d], stream[d], resumed[d],
            verdict[d], agent[d])
    BY RowOf
  <2>2. /\ Told(stream[d]) \in Seq(Nat) /\ Held(stream[d]) \in Seq(Nat)
        /\ agent[d].said \in Seq(Nat) /\ IsPrefix(Told(stream[d]), Held(stream[d]))
        /\ IsPrefix(Held(stream[d]), agent[d].said)
    BY <2>1, ToldIsHeld DEF Row, Agents, Text
  <2>3. IsPrefix(Told(stream[d]), agent[d].said)
    BY <2>2, PrefixOfPrefix
  <2>4. verdict[d].kind = "completed" => Told(stream[d]) = agent[d].said
    <3>1. CASE at[d] = "done"
      BY <2>1, <3>1 DEF Row, IsEarned
    <3>2. CASE at[d] # "done"
      BY <2>1, <3>2 DEF Row, Pending
    <3> QED BY <3>1, <3>2
  <2> QED BY <2>3, <2>4
<1> QED BY <1>1, AdapterInvariance, PTL

\* A delivery continues only a session of its own sender, agent and key, and only an
\* execution that was finished for them is stored (scopedSessionKey, saveSession).
\* The key is the message's or else its ID: a follow-up under that ID, which is what
\* the Harness is told to answer under, continues the session of a message without one.
THEOREM EveryConversationApart == AdapterSpec => []ConversationsApart
<1>1. Invariant => ConversationsApart
  <2>1. SUFFICES ASSUME Invariant PROVE ConversationsApart
    OBVIOUS
  <2>2. ASSUME NEW x, NEW y, NEW c, NEW e, ScopedKey(x, c) = ScopedKey(y, e)
        PROVE  c.from = e.from /\ c.agent = e.agent /\ Key(x, c) = Key(y, e)
    BY <2>2 DEF ScopedKey
  <2>3. ASSUME NEW d \in Deliveries, resumed[d] # NoSession
        PROVE  LET first == resumed[d]
               IN  /\ conv[first].from = conv[d].from /\ conv[first].agent = conv[d].agent
                   /\ Key(first, conv[first]) = Key(d, conv[d])
    BY <2>1, <2>2, <2>3 DEF Invariant, Continued
  <2>4. ASSUME NEW k \in Keys, sessions[k] # NoSession
        PROVE  \E d \in Deliveries :
                  /\ conv[d].from = k[1] /\ conv[d].agent = k[2] /\ Key(d, conv[d]) = k[3]
                  /\ agent[d].session = sessions[k] /\ agent[d].settled = "yes"
    <3>1. PICK d \in Deliveries :
            /\ ScopedKey(d, conv[d]) = k
            /\ agent[d].session = sessions[k] /\ agent[d].settled = "yes"
      BY <2>1, <2>4 DEF Invariant, Finished
    <3>2. conv[d].from = k[1] /\ conv[d].agent = k[2] /\ Key(d, conv[d]) = k[3]
      BY <3>1 DEF ScopedKey
    <3> QED BY <3>1, <3>2
  <2> QED BY <2>3, <2>4 DEF ConversationsApart
<1> QED BY <1>1, AdapterInvariance, PTL
=============================================================================

--------------------------- MODULE TransferProofs ---------------------------
(***************************************************************************)
(* Proofs of the safety properties of Transfer, for any number of Bots,    *)
(* readers, ids and digests, any sizes and any budgets.                    *)
(***************************************************************************)
EXTENDS Transfer, FiniteSetTheorems, TLAPS

(***************************************************************************)
(* The size of a family of files.                                          *)
(***************************************************************************)

Lengths(f) == \A x \in DOMAIN f : f[x] \in Nat

LEMMA BytesFinite ==
  ASSUME NEW f, IsFiniteSet(DOMAIN f), Lengths(f)
  PROVE  IsFiniteSet(Bytes(f)) /\ Total(f) \in Nat
<1> DEFINE F == [x \in DOMAIN f |-> {x} \X (1 .. f[x])]
           S == {F[x] : x \in DOMAIN f}
<1>1. F \in Surjection(DOMAIN f, S)
  BY DEF Surjection
<1>2. IsFiniteSet(S)
  BY <1>1, FS_Surjection
<1>3. \A T \in S : IsFiniteSet(T)
  <2>1. ASSUME NEW x \in DOMAIN f PROVE IsFiniteSet({x} \X (1 .. f[x]))
    <3>1. IsFiniteSet({x})
      BY FS_Singleton
    <3>2. IsFiniteSet(1 .. f[x])
      BY FS_Interval DEF Lengths
    <3> QED
      BY <3>1, <3>2, FS_Product
  <2> QED
    BY <2>1
<1>4. Bytes(f) = UNION S
  BY DEF Bytes
<1>5. IsFiniteSet(UNION S)
  <2> HIDE DEF S
  <2> QED
    BY <1>2, <1>3, FS_UNION
<1> QED
  BY <1>4, <1>5, FS_CardinalityType DEF Total

\* A family of some of the files takes no more than all of them.
LEMMA TotalMono ==
  ASSUME NEW f, NEW g, IsFiniteSet(DOMAIN g), Lengths(g),
         DOMAIN f \subseteq DOMAIN g, \A x \in DOMAIN f : f[x] = g[x]
  PROVE  Total(f) <= Total(g)
<1>1. Bytes(f) \subseteq Bytes(g)
  BY DEF Bytes
<1> QED
  BY <1>1, BytesFinite, FS_Subset DEF Total

\* One more file adds its length, or nothing when it was there.
LEMMA TotalAdd ==
  ASSUME NEW f, NEW g, NEW x, IsFiniteSet(DOMAIN f), Lengths(g),
         DOMAIN g = DOMAIN f \cup {x}, \A y \in DOMAIN f : f[y] = g[y]
  PROVE  Total(g) <= Total(f) + g[x]
<1> DEFINE X == {x} \X (1 .. g[x])
<1>1. Bytes(g) = Bytes(f) \cup X
  <2>1. \A p : p \in Bytes(g) <=> \E y \in DOMAIN g : p \in {y} \X (1 .. g[y])
    BY DEF Bytes
  <2>2. \A p : p \in Bytes(f) <=> \E y \in DOMAIN f : p \in {y} \X (1 .. f[y])
    BY DEF Bytes
  <2> QED
    BY <2>1, <2>2
<1>2. Lengths(f) /\ g[x] \in Nat
  BY DEF Lengths
<1>3. IsFiniteSet(Bytes(f)) /\ Cardinality(Bytes(f)) \in Nat
  BY <1>2, BytesFinite DEF Total
<1>4. IsFiniteSet(X) /\ Cardinality(X) = g[x]
  <2>1. IsFiniteSet({x}) /\ Cardinality({x}) = 1
    BY FS_Singleton
  <2>2. IsFiniteSet(1 .. g[x]) /\ Cardinality(1 .. g[x]) = g[x]
    BY <1>2, FS_Interval
  <2>3. /\ IsFiniteSet({x} \X (1 .. g[x]))
        /\ Cardinality({x} \X (1 .. g[x])) = Cardinality({x}) * Cardinality(1 .. g[x])
    BY <2>1, <2>2, FS_Product
  <2> QED
    BY <2>1, <2>2, <2>3, <1>2
<1>5. Cardinality(Bytes(f) \cup X)
        = Cardinality(Bytes(f)) + Cardinality(X) - Cardinality(Bytes(f) \cap X)
  <2> HIDE DEF X
  <2> QED
    BY <1>3, <1>4, FS_Union
<1>6. Cardinality(Bytes(f) \cap X) \in Nat
  <2>1. Bytes(f) \cap X \in SUBSET Bytes(f)
    OBVIOUS
  <2> HIDE DEF X
  <2> QED
    BY <1>3, <2>1, FS_Subset, FS_CardinalityType
<1> HIDE DEF X
<1> QED
  BY <1>1, <1>2, <1>3, <1>4, <1>5, <1>6 DEF Total

(***************************************************************************)
(* Types, with what the program point of an operation says of its record.  *)
(***************************************************************************)

Sending == {"upload", "completed", "failed"}
SendSteps == {"send", "open", "returning"} \cup Sending
OpSteps == {"idle", "pull", "notify", "admit", "call"} \cup SendSteps
Grants == [digest : Digests, data : Recs]
Ops == [step : OpSteps, id : Ids \cup {NoId}, digest : Digests \cup {NoDigest},
        to : Bots \cup {NoId}, fwd : BOOLEAN]

StoreTypes ==
  /\ grants \in [Bots -> [Ids -> Grants \cup {NoGrant}]]
  /\ objects \subseteq Digests /\ damaged \subseteq objects
  /\ hidden \subseteq Bots
  /\ copies \in [Bots -> [Ids -> {"none", "clean", "edited"}]]
  /\ pins \in [Digests -> Int]

ServiceTypes ==
  /\ phase \in [Bots -> {"down", "ready", "closing"}]
  /\ mem \in [Bots -> [Ids -> Recs \cup {NoRec}]]
  /\ op \in [Bots -> Ops]

OtherTypes ==
  /\ bucket \in [Bots -> [Ids -> Digests \cup {NoDigest}]]
  /\ readers \in [Readers -> Digests \cup {NoDigest}]
  /\ used \subseteq Ids /\ taken \subseteq Ids
  /\ calls \in [Bots -> [Ids -> Nat]]

OpOK(b) ==
  /\ op[b].step = "idle" => op[b] = Idle
  /\ op[b].step # "idle" => op[b].id \in Ids /\ phase[b] # "down"
  /\ op[b].step \in SendSteps => op[b].digest \in Digests /\ op[b].to \in Bots
  /\ op[b].step = "pull" => op[b].digest \in Digests
  /\ op[b].fwd => op[b].step \in SendSteps

Typed == StoreTypes /\ ServiceTypes /\ OtherTypes /\ \A b \in Bots : OpOK(b)

LEMMA RecTypes ==
  /\ Rec("outbound", "pending") \in Recs /\ Rec("outbound", "completed") \in Recs
  /\ Rec("outbound", "failed") \in Recs /\ Rec("outbound", "uncertain") \in Recs
  /\ Rec("inbound", "pending") \in Recs /\ Rec("inbound", "admitted") \in Recs
  /\ Rec("imported", "completed") \in Recs
  /\ \A r \in Recs : Recovered(r) \in Recs
BY DEF Rec, Recs, Recovered

LEMMA PutTypes ==
  ASSUME StoreTypes, NEW b \in Bots, NEW id \in Ids, NEW d \in Digests, NEW r \in Recs,
         Put(b, id, d, r) \/ PutTorn(b, id, d, r)
  PROVE  StoreTypes'
BY DEF StoreTypes, Put, PutTorn, Grants

LEMMA UpdateTypes ==
  ASSUME StoreTypes, NEW b \in Bots, NEW id \in Ids, NEW r \in Recs, UpdateData(b, id, r)
  PROVE  grants' \in [Bots -> [Ids -> Grants \cup {NoGrant}]]
BY DEF StoreTypes, UpdateData, Granted, Held, Grants

LEMMA InitTyped == Init => Typed
BY DEF Init, StoreInit, Typed, StoreTypes, ServiceTypes, OtherTypes, OpOK, Ops, OpSteps, Idle, SendSteps, Sending

LEMMA ConfigureTyped ==
  ASSUME Typed, NEW b \in Bots, Configure(b)
  PROVE  Typed'
<1>1. StoreTypes'
  BY RecTypes DEF Typed, StoreTypes, Configure, Settled, Grants
<1>2. ServiceTypes'
  BY RecTypes DEF Typed, StoreTypes, ServiceTypes, Configure, Grants
<1>3. OtherTypes' /\ \A c \in Bots : OpOK(c)'
  BY DEF Typed, OtherTypes, ServiceTypes, OpOK, Configure, history
<1> QED
  BY <1>1, <1>2, <1>3 DEF Typed

LEMMA CloseTyped ==
  ASSUME Typed, NEW b \in Bots, CloseBegin(b) \/ CloseEnd(b)
  PROVE  Typed'
<1>1. StoreTypes' /\ OtherTypes'
  <2>1. UNCHANGED <<storeVars, bucket, readers, used, taken, calls>>
    BY DEF CloseBegin, CloseEnd, history
  <2> QED
    BY <2>1 DEF Typed, StoreTypes, OtherTypes, storeVars
<1>2. ServiceTypes'
  <2>1. CASE CloseBegin(b)
    BY <2>1 DEF Typed, ServiceTypes, CloseBegin
  <2>2. CASE CloseEnd(b)
    BY <2>2 DEF Typed, ServiceTypes, CloseEnd, Forget
  <2> QED
    BY <2>1, <2>2
<1>3. ASSUME NEW c \in Bots PROVE OpOK(c)'
  <2>1. op' = op /\ (phase'[c] = "down" => phase[c] = "down" \/ op[c] = Idle)
    BY DEF Typed, ServiceTypes, CloseBegin, CloseEnd
  <2>2. op[c] = Idle => op[c].step = "idle"
    BY DEF Idle
  <2> QED
    BY <2>1, <2>2 DEF Typed, OpOK
<1> QED
  BY <1>1, <1>2, <1>3 DEF Typed

LEMMA CrashTyped ==
  ASSUME Typed, Crash
  PROVE  Typed'
BY DEF Typed, StoreTypes, ServiceTypes, OtherTypes, OpOK, Crash, Fault, Ops, OpSteps, SendSteps, Sending, Idle

\* An operation of b that leaves the phases alone changes at most its own record.
LEMMA StepTyped ==
  ASSUME Typed, NEW b \in Bots, NEW o, OtherTypes', StoreTypes',
         op' = [op EXCEPT ![b] = o], phase' = phase, o \in Ops, OpOK(b)',
         mem' \in [Bots -> [Ids -> Recs \cup {NoRec}]]
  PROVE  Typed'
<1>1. ServiceTypes'
  BY DEF Typed, ServiceTypes
<1>2. ASSUME NEW c \in Bots PROVE OpOK(c)'
  BY DEF Typed, ServiceTypes, OpOK
<1> QED
  BY <1>1, <1>2 DEF Typed

\* What the record of an operation in progress holds.
LEMMA OpFacts ==
  ASSUME Typed, NEW b \in Bots
  PROVE  /\ op[b] \in Ops
         /\ op[b].step # "idle" => op[b].id \in Ids /\ phase[b] # "down"
         /\ op[b].step \in SendSteps \cup {"pull"} => op[b].digest \in Digests
         /\ op[b].step \in SendSteps => op[b].to \in Bots
         /\ op[b].fwd => op[b].step \in SendSteps
BY DEF Typed, ServiceTypes, OpOK

LEMMA IdleTyped ==
  /\ Idle \in Ops
  /\ \A b \in Bots : Typed /\ op' = [op EXCEPT ![b] = Idle] => OpOK(b)'
<1>1. /\ Idle \in Ops /\ Idle.step = "idle" /\ Idle.fwd = FALSE
      /\ "idle" \notin SendSteps /\ "idle" # "pull"
  BY DEF Idle, Ops, OpSteps, SendSteps, Sending
<1>2. ASSUME NEW b \in Bots, Typed, op' = [op EXCEPT ![b] = Idle]
      PROVE  OpOK(b)'
  <2>1. op'[b] = Idle
    BY <1>2 DEF Typed, ServiceTypes
  <2> QED
    BY <1>1, <2>1 DEF OpOK
<1> QED
  BY <1>1, <1>2

\* The program point of an operation moves and its record stays.
LEMMA GotoTyped ==
  ASSUME Typed, NEW b \in Bots, NEW step \in OpSteps \ {"idle"}, Goto(b, step), phase' = phase,
         op[b].step # "idle",
         step \in SendSteps => op[b].step \in SendSteps,
         op[b].fwd => step \in SendSteps,
         step # "pull"
  PROVE  /\ op' = [op EXCEPT ![b] = [op[b] EXCEPT !.step = step]]
         /\ [op[b] EXCEPT !.step = step] \in Ops
         /\ OpOK(b)'
<1> DEFINE o == [op[b] EXCEPT !.step = step]
<1>1. op' = [op EXCEPT ![b] = o]
  BY DEF Goto
<1>2. o \in Ops
  BY OpFacts DEF Ops
<1>3. /\ o.step = step /\ o.id = op[b].id /\ o.digest = op[b].digest
      /\ o.to = op[b].to /\ o.fwd = op[b].fwd
  BY OpFacts DEF Ops
<1>4. op'[b] = o
  BY <1>1 DEF Typed, ServiceTypes
<1> HIDE DEF o
<1>5. OpOK(b)'
  BY <1>3, <1>4, OpFacts DEF OpOK
<1>6. o = [op[b] EXCEPT !.step = step]
  BY DEF o
<1> QED
  BY <1>1, <1>2, <1>5, <1>6

\* The steps of an operation that end it.
LEMMA DoneTyped ==
  ASSUME Typed, NEW b \in Bots, Done(b), phase' = phase, StoreTypes', OtherTypes',
         mem' \in [Bots -> [Ids -> Recs \cup {NoRec}]]
  PROVE  Typed'
BY IdleTyped, StepTyped DEF Done

\* ... and those that go on with it.
LEMMA NextPointTyped ==
  ASSUME Typed, NEW b \in Bots, NEW step \in OpSteps \ {"idle", "pull"}, Goto(b, step),
         phase' = phase, op[b].step # "idle",
         step \in SendSteps => op[b].step \in SendSteps,
         op[b].fwd => step \in SendSteps,
         StoreTypes', OtherTypes', mem' \in [Bots -> [Ids -> Recs \cup {NoRec}]]
  PROVE  Typed'
BY GotoTyped, StepTyped

\* ... and those that begin one.
LEMMA BeginTyped ==
  ASSUME Typed, NEW b \in Bots, Free(b), NEW o \in Ops, op' = [op EXCEPT ![b] = o],
         o.step # "idle", o.id \in Ids, o.fwd => o.step \in SendSteps,
         o.step \in SendSteps => o.digest \in Digests /\ o.to \in Bots,
         o.step = "pull" => o.digest \in Digests,
         UNCHANGED <<phase, mem>>, StoreTypes', OtherTypes'
  PROVE  Typed'
<1>1. OpOK(b)'
  <2>1. op'[b] = o
    BY DEF Typed, ServiceTypes
  <2>2. phase'[b] = "ready"
    BY DEF Free
  <2> QED
    BY <2>1, <2>2 DEF OpOK
<1> QED
  BY <1>1, StepTyped DEF Typed, ServiceTypes

LEMMA SameStoreTyped ==
  Typed /\ UNCHANGED storeVars => StoreTypes'
BY DEF Typed, StoreTypes, storeVars

LEMMA SameOtherTyped ==
  Typed /\ UNCHANGED <<bucket, readers, used, taken, calls>> => OtherTypes'
BY DEF Typed, OtherTypes

LEMMA RememberTyped ==
  ASSUME Typed, NEW b \in Bots, NEW id, NEW r \in Recs \cup {NoRec}, Remember(b, id, r)
  PROVE  mem' \in [Bots -> [Ids -> Recs \cup {NoRec}]]
BY DEF Typed, ServiceTypes, Remember

LEMMA OpenDigest ==
  ASSUME Typed, NEW b \in Bots, NEW id \in Ids, Granted(b, id)
  PROVE  /\ grants[b][id] \in Grants /\ grants[b][id].digest \in Digests
         /\ grants[b][id].data \in Recs /\ grants[b][id] # NoGrant
BY DEF Typed, StoreTypes, Granted, Held, Grants

LEMMA UnpinTyped ==
  ASSUME Typed, NEW b \in Bots, op[b].step \in SendSteps, UnpinSend(b)
  PROVE  pins' \in [Digests -> Int]
<1>1. op[b].digest \in Digests /\ pins \in [Digests -> Int]
  BY OpFacts DEF Typed, StoreTypes
<1> DEFINE n == (IF op[b].step \in {"completed", "failed"} THEN 1 ELSE 0)
                  + (IF op[b].fwd THEN 1 ELSE 0)
<1>2. n \in Int
  OBVIOUS
<1>3. pins' = [pins EXCEPT ![op[b].digest] = @ - n]
  BY DEF UnpinSend
<1> HIDE DEF n
<1> QED
  BY <1>1, <1>2, <1>3

LEMMA SendBeginTyped ==
  ASSUME Typed, NEW b \in Bots, NEW to \in Bots, NEW id \in Ids, NEW d \in Digests,
         SendBegin(b, to, id, d)
  PROVE  Typed'
<1>1. Op("send", id, d, to, FALSE) \in Ops
  BY DEF Op, Ops, OpSteps, SendSteps
<1>2. OtherTypes'
  BY DEF Typed, OtherTypes, SendBegin
<1> QED
  BY <1>1, <1>2, SameStoreTyped, BeginTyped DEF SendBegin, Op

LEMMA ForwardBeginTyped ==
  ASSUME Typed, NEW b \in Bots, NEW to \in Bots, NEW src \in Ids, NEW id \in Ids,
         ForwardBegin(b, to, src, id)
  PROVE  Typed'
<1> DEFINE d == grants[b][src].digest
<1>1. d \in Digests
  BY OpenDigest DEF ForwardBegin, Open
<1>2. StoreTypes'
  <2>1. pins' = [pins EXCEPT ![d] = @ + 1] /\ UNCHANGED <<grants, objects, damaged, hidden, copies>>
    BY DEF ForwardBegin, Open
  <2> HIDE DEF d
  <2> QED
    BY <1>1, <2>1 DEF Typed, StoreTypes
<1>3. OtherTypes'
  BY DEF Typed, OtherTypes, ForwardBegin
<1>4. op' = [op EXCEPT ![b] = Op("send", id, d, to, TRUE)] /\ Free(b) /\ UNCHANGED <<phase, mem>>
  BY DEF ForwardBegin
<1> HIDE DEF d
<1>5. Op("send", id, d, to, TRUE) \in Ops
  BY <1>1 DEF Op, Ops, OpSteps, SendSteps
<1> QED
  BY <1>1, <1>2, <1>3, <1>4, <1>5, BeginTyped DEF Op, SendSteps

LEMMA SendTyped ==
  ASSUME Typed, NEW b \in Bots, SendCommit(b) \/ SendTorn(b) \/ SendOpen(b)
  PROVE  Typed'
<1>1. OtherTypes'
  BY SameOtherTyped DEF SendCommit, SendTorn, SendOpen, history
<1>2. CASE SendCommit(b)
  <2>1. StoreTypes'
    BY <1>2, RecTypes, OpFacts, PutTypes DEF SendCommit, Typed, SendSteps
  <2>2. mem' \in [Bots -> [Ids -> Recs \cup {NoRec}]]
    BY <1>2, RecTypes, RememberTyped DEF SendCommit
  <2> QED
    BY <1>1, <1>2, <2>1, <2>2, NextPointTyped DEF SendCommit, OpSteps, SendSteps
<1>3. CASE SendTorn(b)
  <2>1. StoreTypes'
    BY <1>3, RecTypes, OpFacts, PutTypes DEF SendTorn, Typed, SendSteps
  <2>2. mem' \in [Bots -> [Ids -> Recs \cup {NoRec}]]
    BY <1>3 DEF SendTorn, Typed, ServiceTypes
  <2> QED
    BY <1>1, <1>3, <2>1, <2>2, NextPointTyped DEF SendTorn, OpSteps, SendSteps
<1>4. CASE SendOpen(b)
  <2>1. StoreTypes'
    <3> DEFINE d == grants[b][op[b].id].digest
    <3>1. d \in Digests
      BY <1>4, OpenDigest, OpFacts DEF SendOpen, Open
    <3>2. pins' = [pins EXCEPT ![d] = @ + 1] /\ UNCHANGED <<grants, objects, damaged, hidden, copies>>
      BY <1>4 DEF SendOpen, Open
    <3> QED
      BY <3>1, <3>2 DEF Typed, StoreTypes
  <2>2. mem' \in [Bots -> [Ids -> Recs \cup {NoRec}]]
    BY <1>4 DEF SendOpen, Typed, ServiceTypes
  <2> QED
    BY <1>1, <1>4, <2>1, <2>2, NextPointTyped DEF SendOpen, OpSteps, SendSteps, Sending
<1> QED
  BY <1>2, <1>3, <1>4

LEMMA UploadTyped ==
  ASSUME Typed, NEW b \in Bots, NEW answer \in {"completed", "failed"}, Upload(b, answer)
  PROVE  Typed'
<1>1. op[b].step = "upload" /\ op[b].id \in Ids /\ op[b].digest \in Digests /\ op[b].to \in Bots
  BY OpFacts DEF Upload, SendSteps, Sending
<1>2. OtherTypes'
  <2>1. CASE UNCHANGED <<taken, bucket>>
    BY <2>1, SameOtherTyped DEF Upload
  <2>2. CASE /\ taken' = taken \cup {op[b].id}
             /\ bucket' = [bucket EXCEPT ![op[b].to][op[b].id] = op[b].digest]
    <3>1. UNCHANGED <<readers, used, calls>>
      BY DEF Upload
    <3> QED
      BY <1>1, <2>2, <3>1 DEF Typed, OtherTypes
  <2> QED
    BY <2>1, <2>2 DEF Upload
<1>3. StoreTypes' /\ phase' = phase /\ mem' \in [Bots -> [Ids -> Recs \cup {NoRec}]] /\ Goto(b, answer)
  BY SameStoreTyped DEF Upload, Typed, ServiceTypes
<1>4. answer \in OpSteps \ {"idle", "pull"} /\ answer \in SendSteps /\ "upload" \in SendSteps
  BY DEF OpSteps, SendSteps, Sending
<1> QED
  BY <1>1, <1>2, <1>3, <1>4, NextPointTyped

LEMMA SendEndTyped ==
  ASSUME Typed, NEW b \in Bots, SendEnd(b)
  PROVE  Typed'
<1>1. op[b].step \in {"completed", "failed"} /\ op[b].step \in SendSteps /\ op[b].id \in Ids
  BY OpFacts DEF SendEnd, SendSteps, Sending
<1>2. Rec("outbound", op[b].step) \in Recs
  BY <1>1, RecTypes
<1>3. grants' \in [Bots -> [Ids -> Grants \cup {NoGrant}]]
  BY <1>1, <1>2, UpdateTypes DEF SendEnd, Typed
<1>4. pins' \in [Digests -> Int]
  BY <1>1, UnpinTyped DEF SendEnd
<1>5. mem' \in [Bots -> [Ids -> Recs \cup {NoRec}]]
  BY <1>2, RememberTyped DEF SendEnd
<1>6. UNCHANGED <<objects, damaged, hidden, copies, phase, bucket, readers, history>> /\ Done(b)
  BY DEF SendEnd
<1>7. StoreTypes'
  BY <1>3, <1>4, <1>6 DEF Typed, StoreTypes
<1> QED
  BY <1>5, <1>6, <1>7, SameOtherTyped, DoneTyped DEF history

LEMMA SendFailTyped ==
  ASSUME Typed, NEW b \in Bots, SendFail(b)
  PROVE  Typed'
<1>1. op[b].step \in SendSteps
  BY DEF SendFail, SendSteps, Sending
<1>2. pins' \in [Digests -> Int]
  BY <1>1, UnpinTyped DEF SendFail
<1>3. UNCHANGED <<grants, objects, damaged, hidden, copies, phase, mem, bucket, readers, history>> /\ Done(b)
  BY DEF SendFail
<1>4. StoreTypes'
  BY <1>2, <1>3 DEF Typed, StoreTypes
<1> QED
  BY <1>3, <1>4, SameOtherTyped, DoneTyped DEF history, Typed, ServiceTypes

LEMMA PullTyped ==
  ASSUME Typed, NEW b \in Bots, PullCommit(b) \/ PullFail(b)
  PROVE  Typed'
<1>1. op[b].step = "pull" /\ op[b].id \in Ids /\ op[b].digest \in Digests /\ ~op[b].fwd
  BY OpFacts DEF PullCommit, PullFail, SendSteps, Sending
<1>2. OtherTypes' /\ phase' = phase
  BY SameOtherTyped DEF PullCommit, PullFail, history
<1>3. CASE PullCommit(b)
  <2>1. StoreTypes' /\ mem' \in [Bots -> [Ids -> Recs \cup {NoRec}]]
    <3>1. CASE /\ Put(b, op[b].id, op[b].digest, Rec("inbound", "pending"))
               /\ Remember(b, op[b].id, Rec("inbound", "pending"))
      BY <1>1, <3>1, RecTypes, PutTypes, RememberTyped DEF Typed
    <3>2. CASE /\ PutAgain(b, op[b].id)
               /\ Remember(b, op[b].id, grants[b][op[b].id].data)
               /\ UNCHANGED storeVars
      <4>1. grants[b][op[b].id].data \in Recs
        BY <1>1, <3>2, OpenDigest DEF PutAgain
      <4> QED
        BY <3>2, <4>1, SameStoreTyped, RememberTyped
    <3> QED
      BY <1>3, <3>1, <3>2 DEF PullCommit
  <2>2. Goto(b, "notify")
    BY <1>3 DEF PullCommit
  <2>3. "notify" \in OpSteps \ {"idle", "pull"} /\ "notify" \notin SendSteps
    BY DEF OpSteps, SendSteps, Sending
  <2> QED
    BY <1>1, <1>2, <2>1, <2>2, <2>3, NextPointTyped
<1>4. CASE PullFail(b)
  <2>1. StoreTypes'
    BY <1>1, <1>4, RecTypes, PutTypes, SameStoreTyped DEF PullFail, Typed
  <2> QED
    BY <1>2, <1>4, <2>1, DoneTyped DEF PullFail, Typed, ServiceTypes
<1> QED
  BY <1>3, <1>4

LEMMA BeginsTyped ==
  ASSUME Typed, NEW b \in Bots, NEW id \in Ids, PullBegin(b, id) \/ NotifyBegin(b, id)
  PROVE  Typed'
<1>1. StoreTypes' /\ OtherTypes' /\ UNCHANGED <<phase, mem>> /\ Free(b)
  BY SameStoreTyped, SameOtherTyped DEF PullBegin, NotifyBegin, history
<1>2. CASE PullBegin(b, id)
  <2> DEFINE o == Op("pull", id, bucket[b][id], NoId, FALSE)
  <2>1. bucket[b][id] \in Digests
    BY <1>2 DEF PullBegin, Typed, OtherTypes
  <2>2. /\ o \in Ops /\ o.step = "pull" /\ o.id = id /\ o.fwd = FALSE /\ o.digest \in Digests
        /\ "pull" \notin SendSteps
    BY <2>1 DEF Op, Ops, OpSteps, SendSteps, Sending
  <2>3. op' = [op EXCEPT ![b] = o]
    BY <1>2 DEF PullBegin
  <2> HIDE DEF o
  <2> QED
    BY <1>1, <2>2, <2>3, BeginTyped
<1>3. CASE NotifyBegin(b, id)
  <2> DEFINE o == Op("notify", id, NoDigest, NoId, FALSE)
  <2>1. /\ o \in Ops /\ o.step = "notify" /\ o.id = id /\ o.fwd = FALSE
        /\ "notify" \notin SendSteps
    BY DEF Op, Ops, OpSteps, SendSteps, Sending
  <2>2. op' = [op EXCEPT ![b] = o]
    BY <1>3 DEF NotifyBegin
  <2> HIDE DEF o
  <2> QED
    BY <1>1, <2>1, <2>2, BeginTyped
<1> QED
  BY <1>2, <1>3

LEMMA NotifyTyped ==
  ASSUME Typed, NEW b \in Bots, NotifyCopy(b) \/ NotifyAdmit(b) \/ NotifyCall(b) \/ NotifyFail(b)
  PROVE  Typed'
<1>1. /\ op[b].step \in {"notify", "admit", "call"} /\ op[b].step # "idle" /\ op[b].id \in Ids
      /\ ~op[b].fwd
  BY OpFacts DEF NotifyCopy, NotifyAdmit, NotifyCall, NotifyFail, SendSteps, Sending
<1>2. phase' = phase
  BY DEF NotifyCopy, NotifyAdmit, NotifyCall, NotifyFail
<1>3. mem \in [Bots -> [Ids -> Recs \cup {NoRec}]]
  BY DEF Typed, ServiceTypes
<1>4. /\ "admit" \in OpSteps \ {"idle", "pull"} /\ "admit" \notin SendSteps
      /\ "call" \in OpSteps \ {"idle", "pull"} /\ "call" \notin SendSteps
  BY DEF OpSteps, SendSteps, Sending
<1>5. CASE NotifyCopy(b)
  <2>1. copies' \in [Bots -> [Ids -> {"none", "clean", "edited"}]]
    BY <1>1, <1>5 DEF NotifyCopy, Workspace, Typed, StoreTypes
  <2>2. StoreTypes'
    <3>1. UNCHANGED <<grants, objects, damaged, hidden, pins>>
      BY <1>5 DEF NotifyCopy
    <3> QED
      BY <2>1, <3>1 DEF Typed, StoreTypes
  <2>3. OtherTypes' /\ mem' = mem
    BY <1>5, SameOtherTyped DEF NotifyCopy, history
  <2>4. Goto(b, "admit") \/ Done(b)
    BY <1>5 DEF NotifyCopy
  <2> QED
    BY <1>1, <1>2, <1>3, <1>4, <2>2, <2>3, <2>4, NextPointTyped, DoneTyped
<1>6. CASE NotifyAdmit(b)
  <2>1. grants' \in [Bots -> [Ids -> Grants \cup {NoGrant}]]
    BY <1>1, <1>6, RecTypes, UpdateTypes DEF NotifyAdmit, Typed
  <2>2. StoreTypes'
    BY <1>6, <2>1 DEF NotifyAdmit, Typed, StoreTypes
  <2>3. OtherTypes'
    BY <1>6, SameOtherTyped DEF NotifyAdmit
  <2>4. mem' \in [Bots -> [Ids -> Recs \cup {NoRec}]]
    BY <1>3, <1>6, RecTypes, RememberTyped DEF NotifyAdmit
  <2>5. Goto(b, "call") \/ Done(b)
    BY <1>6 DEF NotifyAdmit
  <2> QED
    BY <1>1, <1>2, <1>4, <2>2, <2>3, <2>4, <2>5, NextPointTyped, DoneTyped
<1>7. CASE NotifyCall(b)
  <2>1. calls' \in [Bots -> [Ids -> Nat]]
    BY <1>1, <1>7 DEF NotifyCall, Typed, OtherTypes
  <2>2. OtherTypes'
    BY <1>7, <2>1 DEF NotifyCall, Typed, OtherTypes
  <2> QED
    BY <1>2, <1>3, <1>7, <2>2, SameStoreTyped, DoneTyped DEF NotifyCall
<1>8. CASE NotifyFail(b)
  BY <1>2, <1>3, <1>8, SameStoreTyped, SameOtherTyped, DoneTyped DEF NotifyFail, history
<1> QED
  BY <1>5, <1>6, <1>7, <1>8

LEMMA ServiceKept ==
  Typed /\ UNCHANGED <<phase, op>> /\ mem' \in [Bots -> [Ids -> Recs \cup {NoRec}]]
    => ServiceTypes' /\ \A b \in Bots : OpOK(b)'
BY DEF Typed, ServiceTypes, OpOK

LEMMA ImportTyped ==
  ASSUME Typed, NEW b \in Bots, NEW id \in Ids, NEW d \in Digests, Import(b, id, d)
  PROVE  Typed'
<1>1. StoreTypes'
  BY RecTypes, PutTypes DEF Import, Typed
<1>2. mem' \in [Bots -> [Ids -> Recs \cup {NoRec}]]
  BY RecTypes, RememberTyped DEF Import, Typed, ServiceTypes
<1>3. OtherTypes'
  BY DEF Import, Typed, OtherTypes
<1>4. UNCHANGED <<phase, op>>
  BY DEF Import
<1> QED
  BY <1>1, <1>2, <1>3, <1>4, ServiceKept DEF Typed

LEMMA FilesTyped ==
  ASSUME Typed, NEW r \in Readers,
         CloseFile(r) \/ \E b \in Bots, id \in Ids : OpenFile(b, id, r)
  PROVE  Typed'
<1>1. UNCHANGED <<grants, objects, damaged, hidden, copies, serviceVars, bucket, history>>
  BY DEF CloseFile, OpenFile
<1>2. ASSUME NEW d \in Digests, NEW n \in Int, NEW e \in Digests \cup {NoDigest},
             pins' = [pins EXCEPT ![d] = n], readers' = [readers EXCEPT ![r] = e]
      PROVE  Typed'
  <2>1. StoreTypes'
    BY <1>1, <1>2 DEF Typed, StoreTypes
  <2>2. readers' \in [Readers -> Digests \cup {NoDigest}]
    BY <1>2 DEF Typed, OtherTypes
  <2>3. OtherTypes'
    BY <1>1, <2>2 DEF Typed, OtherTypes, history
  <2> QED
    BY <1>1, <2>1, <2>3, ServiceKept DEF Typed, serviceVars, ServiceTypes
<1>3. CASE CloseFile(r)
  <2>1. readers[r] \in Digests
    BY <1>3 DEF CloseFile, Typed, OtherTypes
  <2>2. pins[readers[r]] - 1 \in Int
    BY <2>1 DEF Typed, StoreTypes
  <2> QED
    BY <1>2, <1>3, <2>1, <2>2 DEF CloseFile, Unpin
<1>4. ASSUME NEW b \in Bots, NEW id \in Ids, OpenFile(b, id, r) PROVE Typed'
  <2> DEFINE d == grants[b][id].digest
  <2>1. d \in Digests
    BY <1>4, OpenDigest DEF OpenFile, Open
  <2>2. pins[d] + 1 \in Int
    BY <2>1 DEF Typed, StoreTypes
  <2>3. pins' = [pins EXCEPT ![d] = @ + 1] /\ readers' = [readers EXCEPT ![r] = d]
    BY <1>4 DEF OpenFile, Open
  <2> HIDE DEF d
  <2> QED
    BY <1>2, <2>1, <2>2, <2>3
<1> QED
  BY <1>3, <1>4

LEMMA DeleteTyped ==
  ASSUME Typed, NEW b \in Bots, NEW id \in Ids, DeleteTransfer(b, id)
  PROVE  Typed'
<1>1. PICK all \in BOOLEAN : Delete(b, id, all)
  BY DEF DeleteTransfer
<1>2. copies' \in [Bots -> [Ids -> {"none", "clean", "edited"}]]
  BY <1>1 DEF Delete, Typed, StoreTypes
<1>3. grants' \in [Bots -> [Ids -> Grants \cup {NoGrant}]]
  BY <1>1 DEF Delete, Typed, StoreTypes
<1>4. StoreTypes'
  BY <1>1, <1>2, <1>3 DEF Delete, Typed, StoreTypes
<1>5. mem' \in [Bots -> [Ids -> Recs \cup {NoRec}]]
  BY RememberTyped DEF DeleteTransfer, Typed, ServiceTypes
<1>6. calls' \in [Bots -> [Ids -> Nat]]
  BY DEF DeleteTransfer, Typed, OtherTypes
<1>7. UNCHANGED <<phase, op, bucket, readers, used, taken>>
  BY DEF DeleteTransfer
<1>8. OtherTypes'
  BY <1>6, <1>7 DEF Typed, OtherTypes
<1> QED
  BY <1>4, <1>5, <1>7, <1>8, ServiceKept DEF Typed

LEMMA EnvironmentTyped ==
  ASSUME Typed,
         \/ \E b \in Bots, id \in Ids : Expire(b, id) \/ \E d \in Digests : Arrive(b, id, d)
         \/ Disk
  PROVE  Typed'
<1>1. ServiceTypes' /\ \A b \in Bots : OpOK(b)'
  <2>1. UNCHANGED serviceVars
    BY DEF Expire, Arrive, Disk
  <2> QED
    BY <2>1, ServiceKept DEF serviceVars, Typed, ServiceTypes
<1>2. CASE \E b \in Bots, id \in Ids : Expire(b, id) \/ \E d \in Digests : Arrive(b, id, d)
  <2>1. PICK b \in Bots, id \in Ids, d \in Digests \cup {NoDigest} :
          /\ bucket' = [bucket EXCEPT ![b][id] = d]
          /\ used' \subseteq used \cup {id} /\ UNCHANGED <<storeVars, readers, taken, calls>>
    BY <1>2 DEF Expire, Arrive
  <2>2. OtherTypes'
    BY <2>1 DEF Typed, OtherTypes
  <2>3. StoreTypes'
    BY <2>1, SameStoreTyped
  <2> QED
    BY <1>1, <2>2, <2>3 DEF Typed
<1>3. CASE Disk
  <2>1. OtherTypes'
    BY <1>3, SameOtherTyped DEF Disk
  <2>2. StoreTypes'
    <3>1. CASE GC
      BY <3>1 DEF GC, Garbage, Typed, StoreTypes
    <3>2. CASE \E d \in Digests : Damage(d)
      BY <3>2 DEF Damage, Typed, StoreTypes
    <3>3. CASE \E b \in Bots : Hide(b) \/ Show(b)
      BY <3>3 DEF Hide, Show, Typed, StoreTypes
    <3>4. CASE \E b \in Bots, id \in Ids : Edit(b, id)
      BY <3>4 DEF Edit, Typed, StoreTypes
    <3> QED
      BY <1>3, <3>1, <3>2, <3>3, <3>4 DEF Disk
  <2> QED
    BY <1>1, <2>1, <2>2 DEF Typed
<1> QED
  BY <1>2, <1>3

LEMMA NextTyped == Typed /\ [Next]_vars => Typed'
<1> SUFFICES ASSUME Typed, [Next]_vars PROVE Typed'
  OBVIOUS
<1>1. CASE UNCHANGED vars
  <2>1. UNCHANGED <<storeVars, serviceVars, bucket, readers, used, taken, calls>>
    BY <1>1 DEF vars, history
  <2>2. mem \in [Bots -> [Ids -> Recs \cup {NoRec}]]
    BY DEF Typed, ServiceTypes
  <2> QED
    BY <2>1, <2>2, SameStoreTyped, SameOtherTyped, ServiceKept DEF Typed, serviceVars
<1>2. CASE \E b \in Bots : Configure(b) \/ CloseBegin(b) \/ CloseEnd(b)
  BY <1>2, ConfigureTyped, CloseTyped
<1>3. ASSUME NEW b \in Bots, Steps(b) PROVE Typed'
  BY <1>3, SendTyped, SendEndTyped, SendFailTyped, UploadTyped, PullTyped, NotifyTyped
     DEF Steps
<1>4. ASSUME NEW b \in Bots, NEW id \in Ids,
             \/ PullBegin(b, id) \/ NotifyBegin(b, id) \/ DeleteTransfer(b, id) \/ Expire(b, id)
             \/ \E d \in Digests :
                   \/ Import(b, id, d) \/ (\E to \in Bots : SendBegin(b, to, id, d))
                   \/ Arrive(b, id, d)
             \/ \E to \in Bots, src \in Ids : ForwardBegin(b, to, src, id)
             \/ \E r \in Readers : OpenFile(b, id, r)
      PROVE  Typed'
  BY <1>4, BeginsTyped, DeleteTyped, EnvironmentTyped, ImportTyped, SendBeginTyped,
     ForwardBeginTyped, FilesTyped
<1>5. CASE (\E r \in Readers : CloseFile(r)) \/ Crash \/ Disk
  BY <1>5, FilesTyped, CrashTyped, EnvironmentTyped
<1> QED
  BY <1>1, <1>2, <1>3, <1>4, <1>5 DEF Next

LEMMA TypedInvariant == Spec => []Typed
BY InitTyped, NextTyped, PTL DEF Spec

(***************************************************************************)
(* What is told of a transfer.                                             *)
(***************************************************************************)

\* A callback counts only while its grant is there, admitted, and neither the
\* memory nor the disk claims a send the bus has not taken.
RowOK(b, id) ==
  /\ calls[b][id] <= 1
  /\ mem[b][id] = Rec("inbound", "pending") \/ grants[b][id] = NoGrant => calls[b][id] = 0
  /\ calls[b][id] = 1 /\ grants[b][id] # NoGrant
       => grants[b][id].data = Rec("inbound", "admitted")
  /\ mem[b][id] = Rec("outbound", "completed") => id \in taken
  /\ grants[b][id] # NoGrant /\ grants[b][id].data = Rec("outbound", "completed")
       => id \in taken

\* What the operation in progress has established for its transfer.
PointOK(b) ==
  LET o == op[b] IN
  /\ o.step \in {"open"} \cup Sending =>
       grants[b][o.id] = [digest |-> o.digest, data |-> Rec("outbound", "pending")]
  /\ o.step = "completed" => o.id \in taken
  /\ o.step = "admit" => mem[b][o.id] = Rec("inbound", "pending")
  /\ o.step = "call" =>
       /\ mem[b][o.id] = Rec("inbound", "admitted")
       /\ grants[b][o.id] # NoGrant
       /\ grants[b][o.id].data = Rec("inbound", "admitted")
       /\ calls[b][o.id] = 0

ToldInv == \A b \in Bots : PointOK(b) /\ \A id \in Ids : RowOK(b, id)

SameRow(b, id) ==
  /\ grants'[b][id] = grants[b][id] /\ mem'[b][id] = mem[b][id]
  /\ calls'[b][id] = calls[b][id]

LEMMA RecsApart ==
  /\ Rec("inbound", "pending") # Rec("inbound", "admitted")
  /\ Rec("inbound", "pending") # Rec("outbound", "completed")
  /\ Rec("inbound", "pending") # Rec("outbound", "pending")
  /\ Rec("inbound", "pending") # Rec("outbound", "failed")
  /\ Rec("inbound", "pending") # Rec("imported", "completed")
  /\ Rec("inbound", "admitted") # Rec("outbound", "completed")
  /\ Rec("inbound", "admitted") # Rec("outbound", "pending")
  /\ Rec("inbound", "admitted") # Rec("outbound", "failed")
  /\ Rec("outbound", "pending") # Rec("outbound", "completed")
  /\ Rec("outbound", "failed") # Rec("outbound", "completed")
  /\ Rec("imported", "completed") # Rec("outbound", "completed")
  /\ Rec("outbound", "uncertain") # Rec("outbound", "completed")
  /\ Rec("outbound", "uncertain") # Rec("inbound", "pending")
BY DEF Rec

LEMMA NoRecApart ==
  /\ NoRec # Rec("inbound", "pending") /\ NoRec # Rec("outbound", "completed")
  /\ NoRec # Rec("inbound", "admitted")
BY TransferAssumption, RecTypes

LEMMA RowFrame ==
  ASSUME NEW b \in Bots, NEW id \in Ids, RowOK(b, id), SameRow(b, id), taken \subseteq taken'
  PROVE  RowOK(b, id)'
BY DEF RowOK, SameRow

LEMMA PointFrame ==
  ASSUME NEW b \in Bots, Typed, PointOK(b), op'[b] = op[b], taken \subseteq taken',
         op[b].step # "idle" => SameRow(b, op[b].id)
  PROVE  PointOK(b)'
<1>1. CASE op[b].step = "idle"
  BY <1>1 DEF PointOK, Sending
<1>2. CASE op[b].step # "idle"
  BY <1>2 DEF PointOK, SameRow
<1> QED
  BY <1>1, <1>2

\* A step of b about one transfer leaves everything else as it was.
LEMMA ToldStep ==
  ASSUME Typed, ToldInv, NEW b \in Bots, NEW id \in Ids, taken \subseteq taken',
         \A c \in Bots, i \in Ids : <<c, i>> # <<b, id>> => SameRow(c, i),
         \A c \in Bots \ {b} : op'[c] = op[c],
         PointOK(b)', RowOK(b, id)'
  PROVE  ToldInv'
<1>1. ASSUME NEW c \in Bots, NEW i \in Ids PROVE RowOK(c, i)'
  <2>1. CASE c = b /\ i = id
    BY <2>1
  <2>2. CASE ~(c = b /\ i = id)
    BY <2>2, RowFrame DEF ToldInv
  <2> QED
    BY <2>1, <2>2
<1>2. ASSUME NEW c \in Bots PROVE PointOK(c)'
  <2>1. CASE c = b
    BY <2>1
  <2>2. CASE c # b
    <3>1. op[c].step # "idle" => SameRow(c, op[c].id)
      BY <2>2, OpFacts
    <3> QED
      BY <2>2, <3>1, PointFrame DEF ToldInv
  <2> QED
    BY <2>1, <2>2
<1> QED
  BY <1>1, <1>2 DEF ToldInv

LEMMA ToldKept ==
  ASSUME Typed, ToldInv, UNCHANGED <<grants, mem, op, calls>>, taken \subseteq taken'
  PROVE  ToldInv'
<1>1. ASSUME NEW c \in Bots PROVE PointOK(c)'
  BY PointFrame DEF ToldInv, SameRow
<1>2. ASSUME NEW c \in Bots, NEW i \in Ids PROVE RowOK(c, i)'
  BY RowFrame DEF ToldInv, SameRow
<1> QED
  BY <1>1, <1>2 DEF ToldInv

LEMMA InitTold == Init => ToldInv
<1> SUFFICES ASSUME Init PROVE ToldInv
  OBVIOUS
<1>1. ASSUME NEW b \in Bots PROVE PointOK(b)
  <2>1. op[b].step = "idle"
    BY DEF Init, Idle
  <2> QED
    BY <2>1 DEF PointOK, Sending
<1>2. ASSUME NEW b \in Bots, NEW id \in Ids PROVE RowOK(b, id)
  BY NoRecApart DEF RowOK, Init, StoreInit
<1> QED
  BY <1>1, <1>2 DEF ToldInv

\* Program points that promise nothing of the transfer.
Quiet == {"idle", "send", "returning", "pull", "notify"}

LEMMA QuietPoint ==
  \A b \in Bots : op'[b].step \in Quiet => PointOK(b)'
BY DEF PointOK, Quiet, Sending

\* Steps that move a program point and touch no row.
LEMMA PointStep ==
  ASSUME Typed, ToldInv, NEW b \in Bots, UNCHANGED <<grants, mem, calls>>, taken \subseteq taken',
         \A c \in Bots \ {b} : op'[c] = op[c], PointOK(b)'
  PROVE  ToldInv'
<1>1. ASSUME NEW c \in Bots PROVE PointOK(c)'
  BY PointFrame DEF ToldInv, SameRow
<1>2. ASSUME NEW c \in Bots, NEW i \in Ids PROVE RowOK(c, i)'
  BY RowFrame DEF ToldInv, SameRow
<1> QED
  BY <1>1, <1>2 DEF ToldInv

\* What Goto and Done make of the program points.
LEMMA GotoPoints ==
  ASSUME Typed, NEW b \in Bots, NEW step, Goto(b, step)
  PROVE  /\ op'[b] = [op[b] EXCEPT !.step = step]
         /\ op'[b].step = step /\ op'[b].id = op[b].id /\ op'[b].digest = op[b].digest
         /\ op'[b].fwd = op[b].fwd
         /\ \A c \in Bots \ {b} : op'[c] = op[c]
BY DEF Goto, Typed, ServiceTypes, Ops

LEMMA DonePoints ==
  ASSUME Typed, NEW b \in Bots, Done(b)
  PROVE  /\ op'[b] = Idle /\ op'[b].step = "idle"
         /\ \A c \in Bots \ {b} : op'[c] = op[c]
BY DEF Done, Idle, Typed, ServiceTypes

\* What the operations of the store and the memory make of the rows.
LEMMA PutRows ==
  ASSUME Typed, NEW b \in Bots, NEW id \in Ids, NEW d, NEW r, Put(b, id, d, r)
  PROVE  /\ grants[b][id] = NoGrant
         /\ grants'[b][id] = [digest |-> d, data |-> r]
         /\ \A c \in Bots, i \in Ids : <<c, i>> # <<b, id>> => grants'[c][i] = grants[c][i]
BY DEF Put, Typed, StoreTypes

LEMMA RememberRows ==
  ASSUME Typed, NEW b \in Bots, NEW id \in Ids, NEW r, Remember(b, id, r)
  PROVE  /\ mem'[b][id] = r
         /\ \A c \in Bots, i \in Ids : <<c, i>> # <<b, id>> => mem'[c][i] = mem[c][i]
BY DEF Remember, Typed, ServiceTypes

LEMMA UpdateRows ==
  ASSUME Typed, NEW b \in Bots, NEW id \in Ids, NEW r \in Recs, UpdateData(b, id, r)
  PROVE  /\ grants[b][id] # NoGrant /\ grants'[b][id] # NoGrant
         /\ grants'[b][id].data = r /\ grants'[b][id].digest = grants[b][id].digest
         /\ \A c \in Bots, i \in Ids : <<c, i>> # <<b, id>> => grants'[c][i] = grants[c][i]
<1>1. grants[b][id] \in Grants /\ grants[b][id] # NoGrant
  BY OpenDigest DEF UpdateData
<1>2. grants' = [grants EXCEPT ![b][id].data = r]
  BY DEF UpdateData
<1>3. grants'[b][id] = [grants[b][id] EXCEPT !.data = r]
  BY <1>2 DEF Typed, StoreTypes
<1>4. \A c \in Bots, i \in Ids : <<c, i>> # <<b, id>> => grants'[c][i] = grants[c][i]
  BY <1>2 DEF Typed, StoreTypes
<1>5. grants'[b][id].data = r /\ grants'[b][id].digest = grants[b][id].digest
  BY <1>1, <1>3 DEF Grants
<1>6. grants'[b][id] # NoGrant
  BY <1>1, <1>3, TransferAssumption DEF Grants
<1> QED
  BY <1>1, <1>4, <1>5, <1>6

LEMMA ConfigureTold ==
  ASSUME Typed, ToldInv, NEW b \in Bots, Configure(b)
  PROVE  ToldInv'
<1>1. op' = op /\ calls' = calls /\ taken' = taken
  BY DEF Configure, history
<1>2. op[b].step = "idle"
  BY OpFacts DEF Configure
<1>3. \A c \in Bots \ {b}, i \in Ids : SameRow(c, i)
  BY <1>1 DEF Configure, SameRow, Typed, StoreTypes, ServiceTypes
<1>4. ASSUME NEW c \in Bots PROVE PointOK(c)'
  <2>1. op[c].step # "idle" => SameRow(c, op[c].id)
    BY <1>2, <1>3, OpFacts
  <2> QED
    BY <1>1, <2>1, PointFrame DEF ToldInv
<1>5. ASSUME NEW i \in Ids PROVE RowOK(b, i)'
  <2>1. RowOK(b, i) /\ calls[b][i] \in Nat
    BY DEF ToldInv, Typed, OtherTypes
  <2>2. CASE grants[b][i] = NoGrant
    <3>1. grants'[b][i] = NoGrant /\ mem'[b][i] = NoRec
      BY <2>2 DEF Configure, Settled, Typed, StoreTypes, ServiceTypes
    <3> QED
      BY <1>1, <2>1, <2>2, <3>1, NoRecApart DEF RowOK
  <2>3. CASE grants[b][i] # NoGrant
    <3> DEFINE r == grants[b][i].data
    <3>1. /\ grants'[b][i] = [grants[b][i] EXCEPT !.data = Recovered(r)]
          /\ mem'[b][i] = Recovered(r)
      BY <2>3 DEF Configure, Settled, Typed, StoreTypes, ServiceTypes
    <3>2. grants[b][i] \in Grants
      BY <2>3 DEF Typed, StoreTypes
    <3>3. grants'[b][i].data = Recovered(r) /\ r \in Recs
      BY <3>1, <3>2 DEF Grants
    <3>4. /\ Recovered(r) = Rec("inbound", "pending") => r = Rec("inbound", "pending")
          /\ Recovered(r) = Rec("outbound", "completed") => r = Rec("outbound", "completed")
          /\ r = Rec("inbound", "admitted") => Recovered(r) = r
      BY RecsApart DEF Recovered
    <3>5. r = Rec("inbound", "pending") => calls[b][i] = 0
      BY <2>1, <2>3, RecsApart DEF RowOK
    <3>6. grants'[b][i] # NoGrant
      BY <3>1, <3>2, <3>3, RecTypes, TransferAssumption DEF Grants
    <3>7. mem'[b][i] = Recovered(r)
      BY <3>1
    <3>8. /\ calls[b][i] <= 1
          /\ calls[b][i] = 1 => r = Rec("inbound", "admitted")
          /\ r = Rec("outbound", "completed") => i \in taken
      BY <2>1, <2>3 DEF RowOK
    <3> HIDE DEF r
    <3> QED
      BY <1>1, <3>3, <3>4, <3>5, <3>6, <3>7, <3>8 DEF RowOK
  <2> QED
    BY <2>2, <2>3
<1>6. ASSUME NEW c \in Bots, NEW i \in Ids PROVE RowOK(c, i)'
  BY <1>1, <1>3, <1>5, RowFrame DEF ToldInv
<1> QED
  BY <1>4, <1>6 DEF ToldInv

LEMMA StopTold ==
  ASSUME Typed, ToldInv, Crash \/ \E b \in Bots : CloseEnd(b)
  PROVE  ToldInv'
<1>1. UNCHANGED <<grants, calls, taken>>
  BY DEF Crash, CloseEnd, storeVars, history
<1>2. ASSUME NEW c \in Bots PROVE PointOK(c)'
  <2>1. CASE Crash
    <3>1. op'[c].step = "idle"
      BY <2>1 DEF Crash, Idle
    <3> QED
      BY <3>1, QuietPoint DEF Quiet
  <2>2. ASSUME NEW b \in Bots, CloseEnd(b) PROVE PointOK(c)'
    <3>1. op' = op /\ (c = b => op[c].step = "idle")
      BY <2>2 DEF CloseEnd, Idle
    <3>2. op[c].step # "idle" => SameRow(c, op[c].id)
      BY <1>1, <2>2, <3>1 DEF SameRow, CloseEnd, Forget, Typed, ServiceTypes
    <3> QED
      BY <1>1, <3>1, <3>2, PointFrame DEF ToldInv
  <2> QED
    BY <2>1, <2>2
<1>3. ASSUME NEW c \in Bots, NEW i \in Ids PROVE RowOK(c, i)'
  <2>1. mem'[c][i] = mem[c][i] \/ mem'[c][i] = NoRec
    BY DEF Crash, CloseEnd, Forget, Typed, ServiceTypes
  <2> QED
    BY <1>1, <2>1, NoRecApart DEF ToldInv, RowOK
<1> QED
  BY <1>2, <1>3 DEF ToldInv

LEMMA BeginTold ==
  ASSUME Typed, ToldInv, NEW b \in Bots, NEW id \in Ids,
         \/ \E to \in Bots, d \in Digests : SendBegin(b, to, id, d)
         \/ \E to \in Bots, src \in Ids : ForwardBegin(b, to, src, id)
         \/ PullBegin(b, id) \/ NotifyBegin(b, id)
  PROVE  ToldInv'
<1>1. UNCHANGED <<grants, mem, calls, taken>>
  BY DEF SendBegin, ForwardBegin, PullBegin, NotifyBegin, storeVars, history
<1>2. \E step \in Quiet : \E d, to, fwd : op' = [op EXCEPT ![b] = Op(step, id, d, to, fwd)]
  BY DEF SendBegin, ForwardBegin, PullBegin, NotifyBegin, Quiet
<1>3. op'[b].step \in Quiet /\ \A c \in Bots \ {b} : op'[c] = op[c]
  BY <1>2 DEF Typed, ServiceTypes, Op
<1> QED
  BY <1>1, <1>3, PointStep, QuietPoint

LEMMA SendTold ==
  ASSUME Typed, ToldInv, NEW b \in Bots, SendCommit(b) \/ SendTorn(b) \/ SendOpen(b)
  PROVE  ToldInv'
<1>0. PICK id \in Ids : id = op[b].id
  BY OpFacts DEF SendCommit, SendTorn, SendOpen
<1>1. RowOK(b, id) /\ PointOK(b)
  BY DEF ToldInv
<1>2. UNCHANGED <<calls, taken>>
  BY DEF SendCommit, SendTorn, SendOpen, history
<1>3. CASE SendCommit(b)
  <2> DEFINE r == Rec("outbound", "pending")
  <2>1. Put(b, id, op[b].digest, r) /\ Remember(b, id, r) /\ Goto(b, "open")
    BY <1>0, <1>3 DEF SendCommit
  <2>2. /\ grants[b][id] = NoGrant /\ grants'[b][id] = [digest |-> op[b].digest, data |-> r]
        /\ mem'[b][id] = r
        /\ \A c \in Bots, i \in Ids : <<c, i>> # <<b, id>> => SameRow(c, i)
    BY <1>1, <1>2, <2>1, PutRows, RememberRows DEF SameRow
  <2>3. /\ op'[b].step = "open" /\ op'[b].id = id /\ op'[b].digest = op[b].digest
        /\ \A c \in Bots \ {b} : op'[c] = op[c]
    BY <1>0, <2>1, GotoPoints
  <2>4. grants'[b][id].data = r
    BY <2>2
  <2>5. RowOK(b, id)'
    BY <1>1, <1>2, <2>2, <2>4, RecsApart DEF RowOK
  <2>6. PointOK(b)'
    BY <2>2, <2>3 DEF PointOK
  <2> QED
    BY <1>1, <1>2, <2>2, <2>3, <2>5, <2>6, ToldStep
<1>4. CASE SendTorn(b)
  <2> DEFINE r == Rec("outbound", "pending")
  <2>1. PutTorn(b, id, op[b].digest, r) /\ Goto(b, "returning") /\ mem' = mem
    BY <1>0, <1>4 DEF SendTorn
  <2>2. op'[b].step \in Quiet /\ \A c \in Bots \ {b} : op'[c] = op[c]
    BY <2>1, GotoPoints DEF Quiet
  <2>3. CASE Put(b, id, op[b].digest, r)
    <3>1. /\ grants[b][id] = NoGrant /\ grants'[b][id] = [digest |-> op[b].digest, data |-> r]
          /\ \A c \in Bots, i \in Ids : <<c, i>> # <<b, id>> => SameRow(c, i)
      BY <1>1, <1>2, <2>1, <2>3, PutRows DEF SameRow
    <3>2. grants'[b][id].data = r
      BY <3>1
    <3>3. RowOK(b, id)'
      BY <1>1, <1>2, <2>1, <3>1, <3>2, RecsApart DEF RowOK
    <3> QED
      BY <1>1, <1>2, <2>2, <3>1, <3>3, QuietPoint, ToldStep
  <2>4. CASE grants' = grants
    BY <1>2, <2>1, <2>2, <2>4, QuietPoint, PointStep
  <2> QED
    BY <2>1, <2>3, <2>4 DEF PutTorn
<1>5. CASE SendOpen(b)
  <2>1. op[b].step = "open" /\ Goto(b, "upload") /\ UNCHANGED <<grants, mem>>
    BY <1>5 DEF SendOpen
  <2>2. /\ op'[b].step = "upload" /\ op'[b].id = id /\ op'[b].digest = op[b].digest
        /\ \A c \in Bots \ {b} : op'[c] = op[c]
    BY <1>0, <2>1, GotoPoints
  <2>3. PointOK(b)'
    BY <1>0, <1>1, <2>1, <2>2 DEF PointOK, Sending
  <2> QED
    BY <1>2, <2>1, <2>2, <2>3, PointStep
<1> QED
  BY <1>3, <1>4, <1>5

LEMMA UploadTold ==
  ASSUME Typed, ToldInv, NEW b \in Bots, NEW answer \in {"completed", "failed"}, Upload(b, answer)
  PROVE  ToldInv'
<1>1. /\ UNCHANGED <<grants, mem, calls>> /\ taken \subseteq taken'
      /\ answer = "completed" => op[b].id \in taken'
      /\ op[b].step = "upload" /\ Goto(b, answer)
  BY DEF Upload, storeVars
<1>2. PointOK(b)'
  BY <1>1, GotoPoints DEF PointOK, Sending, ToldInv
<1> QED
  BY <1>1, <1>2, GotoPoints, PointStep

LEMMA SendEndTold ==
  ASSUME Typed, ToldInv, NEW b \in Bots, SendEnd(b)
  PROVE  ToldInv'
<1>0. PICK id \in Ids, r \in Recs : id = op[b].id /\ r = Rec("outbound", op[b].step)
  BY OpFacts, RecTypes DEF SendEnd
<1>1. RowOK(b, id) /\ PointOK(b) /\ calls[b][id] \in Nat
  BY DEF ToldInv, Typed, OtherTypes
<1>2. /\ UNCHANGED <<calls, taken>> /\ UpdateData(b, id, r) /\ Remember(b, id, r) /\ Done(b)
      /\ op[b].step \in {"completed", "failed"}
  BY <1>0 DEF SendEnd, history
<1>3. /\ mem'[b][id] = r /\ grants'[b][id] # NoGrant /\ grants'[b][id].data = r
      /\ \A c \in Bots, i \in Ids : <<c, i>> # <<b, id>> => SameRow(c, i)
  BY <1>1, <1>2, UpdateRows, RememberRows DEF SameRow
<1>4. grants[b][id].data = Rec("outbound", "pending") /\ grants[b][id] # NoGrant
  BY <1>0, <1>1, <1>2, RecTypes, UpdateRows DEF PointOK, Sending
<1>5. calls[b][id] = 0
  BY <1>1, <1>4, RecsApart DEF RowOK
<1>6. r = Rec("outbound", "completed") => id \in taken
  BY <1>0, <1>1, <1>2 DEF PointOK, Rec
<1>7. r # Rec("inbound", "pending")
  BY <1>0, <1>2, RecsApart
<1>8. RowOK(b, id)'
  BY <1>2, <1>3, <1>5, <1>6, <1>7 DEF RowOK
<1> QED
  BY <1>1, <1>2, <1>3, <1>8, DonePoints, QuietPoint, ToldStep DEF Quiet

\* Put of a record that is neither admitted nor a finished send.
LEMMA PutTold ==
  ASSUME Typed, ToldInv, NEW b \in Bots, NEW id \in Ids, NEW d,
         NEW r \in {Rec("outbound", "pending"), Rec("inbound", "pending"), Rec("imported", "completed")},
         Put(b, id, d, r), UNCHANGED <<calls, taken>>,
         Remember(b, id, r) \/ mem' = mem
  PROVE  RowOK(b, id)' /\ \A c \in Bots, i \in Ids : <<c, i>> # <<b, id>> => SameRow(c, i)
<1>1. /\ grants[b][id] = NoGrant /\ grants'[b][id] = [digest |-> d, data |-> r]
      /\ mem'[b][id] = r \/ mem'[b][id] = mem[b][id]
      /\ \A c \in Bots, i \in Ids : <<c, i>> # <<b, id>> => SameRow(c, i)
  BY PutRows, RememberRows DEF SameRow
<1>2. grants'[b][id].data = r /\ RowOK(b, id)
  BY <1>1 DEF ToldInv
<1>3. calls[b][id] = 0 /\ calls'[b][id] = 0
  BY <1>1, <1>2 DEF RowOK
<1>4. r # Rec("outbound", "completed")
  BY RecsApart
<1>5. RowOK(b, id)'
  BY <1>1, <1>2, <1>3, <1>4 DEF RowOK
<1> QED
  BY <1>1, <1>5

LEMMA SendFailTold ==
  ASSUME Typed, ToldInv, NEW b \in Bots, SendFail(b) \/ NotifyFail(b)
  PROVE  ToldInv'
<1>1. UNCHANGED <<grants, mem, calls, taken>> /\ Done(b)
  BY DEF SendFail, NotifyFail, storeVars, history
<1> QED
  BY <1>1, DonePoints, QuietPoint, PointStep DEF Quiet

LEMMA PullTold ==
  ASSUME Typed, ToldInv, NEW b \in Bots, PullCommit(b) \/ PullFail(b)
  PROVE  ToldInv'
<1>0. PICK id \in Ids, d \in {op[b].digest}, r \in {Rec("inbound", "pending")} : id = op[b].id
  BY OpFacts DEF PullCommit, PullFail
<1>1. UNCHANGED <<calls, taken>>
  BY DEF PullCommit, PullFail, history
<1>2. PointOK(b)' /\ \A c \in Bots \ {b} : op'[c] = op[c]
  BY GotoPoints, DonePoints, QuietPoint DEF PullCommit, PullFail, Quiet
<1>3. CASE Put(b, id, d, r) /\ (Remember(b, id, r) \/ mem' = mem)
  <2>1. RowOK(b, id)' /\ \A c \in Bots, i \in Ids : <<c, i>> # <<b, id>> => SameRow(c, i)
    BY <1>0, <1>1, <1>3, PutTold
  <2> QED
    BY <1>1, <1>2, <2>1, ToldStep
<1>4. CASE grants' = grants /\ mem' = mem
  BY <1>1, <1>2, <1>4, PointStep
<1>5. CASE PutAgain(b, id) /\ Remember(b, id, grants[b][id].data) /\ UNCHANGED storeVars
  <2>1. /\ mem'[b][id] = grants[b][id].data /\ grants' = grants
        /\ \A c \in Bots, i \in Ids : <<c, i>> # <<b, id>> => SameRow(c, i)
    BY <1>1, <1>5, RememberRows DEF SameRow, storeVars
  <2>2. grants[b][id] # NoGrant /\ RowOK(b, id) /\ calls[b][id] \in Nat
    BY <1>5, OpenDigest DEF PutAgain, ToldInv, Typed, OtherTypes
  <2>3. RowOK(b, id)'
    BY <1>1, <2>1, <2>2, RecsApart DEF RowOK
  <2> QED
    BY <1>1, <1>2, <2>1, <2>3, ToldStep
<1>6. CASE PullCommit(b)
  BY <1>0, <1>3, <1>5, <1>6 DEF PullCommit
<1>7. CASE PullFail(b)
  BY <1>0, <1>3, <1>4, <1>7 DEF PullFail, PutTorn, storeVars
<1> QED
  BY <1>6, <1>7

LEMMA NotifyTold ==
  ASSUME Typed, ToldInv, NEW b \in Bots, NotifyCopy(b) \/ NotifyAdmit(b) \/ NotifyCall(b)
  PROVE  ToldInv'
<1>0. PICK id \in Ids : id = op[b].id
  BY OpFacts DEF NotifyCopy, NotifyAdmit, NotifyCall
<1>1. RowOK(b, id) /\ PointOK(b) /\ taken' = taken
  BY DEF ToldInv, NotifyCopy, NotifyAdmit, NotifyCall, history
<1>2. CASE NotifyCopy(b)
  <2>1. UNCHANGED <<grants, mem, calls>>
    BY <1>2 DEF NotifyCopy, history
  <2>2. CASE Done(b)
    BY <1>1, <2>1, <2>2, DonePoints, QuietPoint, PointStep DEF Quiet
  <2>3. CASE mem[b][id] = Rec("inbound", "pending") /\ Goto(b, "admit")
    <3>1. /\ op'[b].step = "admit" /\ op'[b].id = id
          /\ \A c \in Bots \ {b} : op'[c] = op[c]
      BY <1>0, <2>3, GotoPoints
    <3>2. PointOK(b)'
      BY <2>1, <2>3, <3>1 DEF PointOK, Sending
    <3> QED
      BY <1>1, <2>1, <3>1, <3>2, PointStep
  <2> QED
    BY <1>0, <1>2, <2>2, <2>3 DEF NotifyCopy
<1>3. CASE NotifyAdmit(b)
  <2>0. PICK r \in Recs : r = Rec("inbound", "admitted")
    BY RecTypes
  <2>1. UpdateData(b, id, r) /\ calls' = calls
    BY <1>0, <1>3, <2>0 DEF NotifyAdmit
  <2>2. mem[b][id] = Rec("inbound", "pending") /\ calls[b][id] = 0
    BY <1>0, <1>1, <1>3 DEF NotifyAdmit, PointOK, RowOK
  <2>3. /\ grants'[b][id] # NoGrant /\ grants'[b][id].data = r
        /\ \A c \in Bots, i \in Ids : <<c, i>> # <<b, id>> => grants'[c][i] = grants[c][i]
    BY <2>1, UpdateRows
  <2>4. CASE Done(b) /\ mem' = mem
    <3>1. \A c \in Bots, i \in Ids : <<c, i>> # <<b, id>> => SameRow(c, i)
      BY <2>1, <2>3, <2>4 DEF SameRow
    <3>2. RowOK(b, id)'
      BY <1>1, <2>0, <2>1, <2>2, <2>3, <2>4, RecsApart DEF RowOK
    <3> QED
      BY <1>1, <2>4, <3>1, <3>2, DonePoints, QuietPoint, ToldStep DEF Quiet
  <2>5. CASE Remember(b, id, r) /\ (Done(b) \/ Goto(b, "call"))
    <3>1. mem'[b][id] = r /\ \A c \in Bots, i \in Ids : <<c, i>> # <<b, id>> => SameRow(c, i)
      BY <2>1, <2>3, <2>5, RememberRows DEF SameRow
    <3>2. RowOK(b, id)'
      BY <1>1, <2>0, <2>1, <2>2, <2>3, <3>1, RecsApart DEF RowOK
    <3>3. PointOK(b)' /\ \A c \in Bots \ {b} : op'[c] = op[c]
      <4>1. CASE Done(b)
        BY <4>1, DonePoints, QuietPoint DEF Quiet
      <4>2. CASE Goto(b, "call")
        <5>1. /\ op'[b].step = "call" /\ op'[b].id = id
              /\ \A c \in Bots \ {b} : op'[c] = op[c]
          BY <1>0, <4>2, GotoPoints
        <5> QED
          BY <2>0, <2>1, <2>2, <2>3, <3>1, <5>1 DEF PointOK, Sending
      <4> QED
        BY <2>5, <4>1, <4>2
    <3> QED
      BY <1>1, <3>1, <3>2, <3>3, ToldStep
  <2> QED
    BY <1>0, <1>3, <2>0, <2>4, <2>5 DEF NotifyAdmit
<1>4. CASE NotifyCall(b)
  <2>1. UNCHANGED <<grants, mem>> /\ Done(b) /\ op[b].step = "call"
    BY <1>4 DEF NotifyCall, storeVars
  <2>2. /\ mem[b][id] = Rec("inbound", "admitted") /\ calls[b][id] = 0
        /\ grants[b][id] # NoGrant /\ grants[b][id].data = Rec("inbound", "admitted")
    BY <1>0, <1>1, <2>1 DEF PointOK
  <2>3. /\ calls'[b][id] \in {0, 1}
        /\ \A c \in Bots, i \in Ids : <<c, i>> # <<b, id>> => SameRow(c, i)
    BY <1>0, <1>4, <2>1, <2>2 DEF NotifyCall, SameRow, Typed, OtherTypes
  <2>4. RowOK(b, id)'
    BY <1>1, <2>1, <2>2, <2>3, RecsApart DEF RowOK
  <2> QED
    BY <1>1, <2>1, <2>3, <2>4, DonePoints, QuietPoint, ToldStep DEF Quiet
<1> QED
  BY <1>2, <1>3, <1>4

LEMMA ImportTold ==
  ASSUME Typed, ToldInv, NEW b \in Bots, NEW id \in Ids, NEW d \in Digests, Import(b, id, d)
  PROVE  ToldInv'
<1>0. PICK r : r = Rec("imported", "completed")
  OBVIOUS
<1>1. UNCHANGED <<op, calls, taken>>
  BY DEF Import
<1>2. PointOK(b)'
  BY <1>1, QuietPoint DEF Import, Free, Idle, Quiet
<1>3. CASE Put(b, id, d, r) /\ (Remember(b, id, r) \/ mem' = mem)
  <2>1. RowOK(b, id)' /\ \A c \in Bots, i \in Ids : <<c, i>> # <<b, id>> => SameRow(c, i)
    BY <1>0, <1>1, <1>3, PutTold
  <2> QED
    BY <1>1, <1>2, <2>1, ToldStep
<1>4. CASE grants' = grants /\ mem' = mem
  BY <1>1, <1>4, ToldKept
<1> QED
  BY <1>0, <1>3, <1>4 DEF Import, PutTorn

LEMMA DeleteTold ==
  ASSUME Typed, ToldInv, NEW b \in Bots, NEW id \in Ids, DeleteTransfer(b, id)
  PROVE  ToldInv'
<1>1. UNCHANGED <<op, taken>> /\ PointOK(b)'
  BY QuietPoint DEF DeleteTransfer, Free, Idle, Quiet
<1>2. PICK all \in BOOLEAN : Delete(b, id, all)
  BY DEF DeleteTransfer
<1>3. /\ grants'[b][id] = NoGrant \/ grants'[b][id] = grants[b][id]
      /\ \A c \in Bots, i \in Ids : <<c, i>> # <<b, id>> => grants'[c][i] = grants[c][i]
  BY <1>2 DEF Delete, Typed, StoreTypes
<1>4. /\ mem'[b][id] = NoRec \/ mem'[b][id] = mem[b][id]
      /\ \A c \in Bots, i \in Ids : <<c, i>> # <<b, id>> => mem'[c][i] = mem[c][i]
  BY RememberRows DEF DeleteTransfer
<1>5. /\ calls'[b][id] = IF grants'[b][id] = NoGrant THEN 0 ELSE calls[b][id]
      /\ \A c \in Bots, i \in Ids : <<c, i>> # <<b, id>> => calls'[c][i] = calls[c][i]
  BY DEF DeleteTransfer, Typed, OtherTypes
<1>6. RowOK(b, id)'
  <2>1. RowOK(b, id)
    BY DEF ToldInv
  <2> QED
    BY <1>1, <1>3, <1>4, <1>5, <2>1, NoRecApart DEF RowOK
<1>7. \A c \in Bots, i \in Ids : <<c, i>> # <<b, id>> => SameRow(c, i)
  BY <1>3, <1>4, <1>5 DEF SameRow
<1> QED
  BY <1>1, <1>6, <1>7, ToldStep

LEMMA OthersTold ==
  ASSUME Typed, ToldInv,
         \/ \E b \in Bots : CloseBegin(b)
         \/ \E r \in Readers : CloseFile(r) \/ \E b \in Bots, id \in Ids : OpenFile(b, id, r)
         \/ \E b \in Bots, id \in Ids : Expire(b, id) \/ \E d \in Digests : Arrive(b, id, d)
         \/ Disk \/ UNCHANGED vars
  PROVE  ToldInv'
<1>1. UNCHANGED <<grants, mem, op, calls, taken>>
  <2>1. CASE Disk
    BY <2>1 DEF Disk, GC, Damage, Hide, Show, Edit, serviceVars
  <2>2. CASE ~Disk
    BY <2>2 DEF CloseBegin, CloseFile, OpenFile, Expire, Arrive, storeVars, serviceVars, history, vars
  <2> QED
    BY <2>1, <2>2
<1> QED
  BY <1>1, ToldKept

LEMMA NextTold == Typed /\ ToldInv /\ [Next]_vars => ToldInv'
<1> SUFFICES ASSUME Typed, ToldInv, [Next]_vars PROVE ToldInv'
  OBVIOUS
<1>1. ASSUME NEW b \in Bots, Configure(b) \/ CloseBegin(b) \/ CloseEnd(b) PROVE ToldInv'
  BY <1>1, ConfigureTold, OthersTold, StopTold
<1>2. ASSUME NEW b \in Bots, Steps(b) PROVE ToldInv'
  BY <1>2, SendTold, SendEndTold, SendFailTold, UploadTold, PullTold, NotifyTold DEF Steps
<1>3. ASSUME NEW b \in Bots, NEW id \in Ids,
             \/ PullBegin(b, id) \/ NotifyBegin(b, id) \/ DeleteTransfer(b, id) \/ Expire(b, id)
             \/ \E d \in Digests :
                   \/ Import(b, id, d) \/ (\E to \in Bots : SendBegin(b, to, id, d))
                   \/ Arrive(b, id, d)
             \/ \E to \in Bots, src \in Ids : ForwardBegin(b, to, src, id)
             \/ \E r \in Readers : OpenFile(b, id, r)
      PROVE  ToldInv'
  BY <1>3, BeginTold, DeleteTold, ImportTold, OthersTold
<1>4. CASE (\E r \in Readers : CloseFile(r)) \/ Crash \/ Disk \/ UNCHANGED vars
  BY <1>4, OthersTold, StopTold
<1> QED
  BY <1>1, <1>2, <1>3, <1>4 DEF Next

LEMMA ToldImplies == Typed /\ ToldInv => ToldTruly
BY DEF Typed, OtherTypes, ToldInv, RowOK, ToldTruly, NotifiedOnce, OutcomeIsHonest

\* Every received file is handed to its receiver at most once for the life of
\* its grant, after the admission became durable, and a send is called
\* completed only when the bus took the file (Service.notify, Service.send).
THEOREM Told == Spec => []ToldTruly
<1>1. Init => Typed /\ ToldInv
  BY InitTyped, InitTold
<1>2. Typed /\ ToldInv /\ [Next]_vars => (Typed /\ ToldInv)'
  BY NextTyped, NextTold
<1> QED
  BY <1>1, <1>2, ToldImplies, PTL DEF Spec

(***************************************************************************)
(* The working copies.                                                     *)
(***************************************************************************)

LEMMA WorkspaceCopies ==
  ASSUME Typed, NEW b \in Bots, NEW id \in Ids, Workspace(b, id)
  PROVE  /\ copies'[b][id] = IF copies[b][id] = "none" THEN "clean" ELSE copies[b][id]
         /\ \A c \in Bots, i \in Ids : <<c, i>> # <<b, id>> => copies'[c][i] = copies[c][i]
BY DEF Workspace, Typed, StoreTypes

LEMMA DeleteCopies ==
  ASSUME Typed, NEW b \in Bots, NEW id \in Ids, NEW all, Delete(b, id, all)
  PROVE  /\ copies'[b][id] = "none"
         /\ \A c \in Bots, i \in Ids : <<c, i>> # <<b, id>> => copies'[c][i] = copies[c][i]
BY DEF Delete, Typed, StoreTypes

LEMMA EditCopies ==
  ASSUME Typed, NEW b \in Bots, NEW id \in Ids, Edit(b, id)
  PROVE  /\ copies[b][id] = "clean" /\ copies'[b][id] = "edited"
         /\ \A c \in Bots, i \in Ids : <<c, i>> # <<b, id>> => copies'[c][i] = copies[c][i]
BY DEF Edit, Typed, StoreTypes

\* The steps that touch a working copy.
LEMMA CopiesChange ==
  ASSUME Typed, [Next]_vars
  PROVE  \/ copies' = copies
         \/ \E b \in Bots, id \in Ids : op[b].id = id /\ NotifyCopy(b) /\ Workspace(b, id)
         \/ \E b \in Bots, id \in Ids : DeleteTransfer(b, id)
         \/ \E b \in Bots, id \in Ids : Edit(b, id)
<1> DEFINE Goal ==
             \/ copies' = copies
             \/ \E b \in Bots, id \in Ids : op[b].id = id /\ NotifyCopy(b) /\ Workspace(b, id)
             \/ \E b \in Bots, id \in Ids : DeleteTransfer(b, id)
             \/ \E b \in Bots, id \in Ids : Edit(b, id)
<1>1. CASE UNCHANGED vars \/ Crash \/ \E r \in Readers : CloseFile(r)
  BY <1>1 DEF vars, storeVars, Crash, CloseFile
<1>2. ASSUME NEW b \in Bots, Configure(b) \/ CloseBegin(b) \/ CloseEnd(b) PROVE copies' = copies
  BY <1>2 DEF Configure, CloseBegin, CloseEnd, storeVars
<1>3. ASSUME NEW b \in Bots, Steps(b) PROVE Goal
  <2>1. CASE NotifyCopy(b)
    <3>1. op[b].id \in Ids
      BY <2>1, OpFacts DEF NotifyCopy
    <3> QED
      BY <2>1, <3>1 DEF NotifyCopy
  <2>2. CASE SendCommit(b) \/ SendTorn(b) \/ PullCommit(b) \/ PullFail(b)
    BY <2>2 DEF SendCommit, SendTorn, PullCommit, PullFail, Put, PutTorn, storeVars
  <2>3. CASE SendOpen(b) \/ SendEnd(b) \/ SendFail(b) \/ \E answer \in {"completed", "failed"} : Upload(b, answer)
    BY <2>3 DEF SendOpen, SendEnd, SendFail, Upload, storeVars
  <2>4. CASE NotifyAdmit(b) \/ NotifyCall(b) \/ NotifyFail(b)
    BY <2>4 DEF NotifyAdmit, NotifyCall, NotifyFail, storeVars
  <2> QED
    BY <1>3, <2>1, <2>2, <2>3, <2>4 DEF Steps
<1>4. ASSUME NEW b \in Bots, NEW id \in Ids,
             \/ PullBegin(b, id) \/ NotifyBegin(b, id) \/ DeleteTransfer(b, id) \/ Expire(b, id)
             \/ \E d \in Digests :
                   \/ Import(b, id, d) \/ (\E to \in Bots : SendBegin(b, to, id, d))
                   \/ Arrive(b, id, d)
             \/ \E to \in Bots, src \in Ids : ForwardBegin(b, to, src, id)
             \/ \E r \in Readers : OpenFile(b, id, r)
      PROVE  Goal
  <2>1. CASE DeleteTransfer(b, id)
    BY <2>1
  <2>2. ASSUME NEW d \in Digests, Import(b, id, d) PROVE copies' = copies
    BY <2>2 DEF Import, Put, PutTorn
  <2>3. CASE PullBegin(b, id) \/ NotifyBegin(b, id) \/ Expire(b, id)
    BY <2>3 DEF PullBegin, NotifyBegin, Expire, storeVars
  <2>4. ASSUME NEW d \in Digests, (\E to \in Bots : SendBegin(b, to, id, d)) \/ Arrive(b, id, d)
        PROVE  copies' = copies
    BY <2>4 DEF SendBegin, Arrive, storeVars
  <2>5. CASE \E to \in Bots, src \in Ids : ForwardBegin(b, to, src, id)
    BY <2>5 DEF ForwardBegin
  <2>6. CASE \E r \in Readers : OpenFile(b, id, r)
    BY <2>6 DEF OpenFile
  <2> QED
    BY <1>4, <2>1, <2>2, <2>3, <2>4, <2>5, <2>6
<1>5. CASE Disk
  BY <1>5 DEF Disk, GC, Damage, Hide, Show
<1> QED
  BY <1>1, <1>2, <1>3, <1>4, <1>5 DEF Next

\* A working copy its Harness changed goes only with its transfer
\* (Store.Workspace keeps what exists, Store.Delete).
THEOREM Edits == Spec => EditsSurvive
<1> DEFINE A == \A b \in Bots, id \in Ids :
                  copies[b][id] = "edited" /\ copies'[b][id] # "edited"
                    => copies'[b][id] = "none" /\ Free(b)
<1>1. Typed /\ [Next]_vars => A
  <2> SUFFICES ASSUME Typed, [Next]_vars, NEW b \in Bots, NEW id \in Ids,
                      copies[b][id] = "edited", copies'[b][id] # "edited"
               PROVE  copies'[b][id] = "none" /\ Free(b)
    OBVIOUS
  <2>1. ASSUME NEW c \in Bots, NEW i \in Ids, Workspace(c, i) PROVE FALSE
    BY <2>1, WorkspaceCopies
  <2>2. ASSUME NEW c \in Bots, NEW i \in Ids, Edit(c, i) PROVE FALSE
    BY <2>2, EditCopies
  <2>3. ASSUME NEW c \in Bots, NEW i \in Ids, DeleteTransfer(c, i)
        PROVE  copies'[b][id] = "none" /\ Free(b)
    <3>1. PICK all : Delete(c, i, all)
      BY <2>3 DEF DeleteTransfer
    <3>2. c = b /\ i = id /\ copies'[b][id] = "none"
      BY <3>1, DeleteCopies
    <3> QED
      BY <2>3, <3>2 DEF DeleteTransfer
  <2> QED
    BY <2>1, <2>2, <2>3, CopiesChange
<1> QED
  BY <1>1, InitTyped, NextTyped, PTL DEF Spec, EditsSurvive

(***************************************************************************)
(* The budgets.                                                            *)
(***************************************************************************)

\* The grants, the objects and the copies of the store: a copy has its grant, a
\* grant has its object, and the three budgets hold.
Shape ==
  /\ IsFiniteSet(objects) /\ IsFiniteSet(Copied)
  /\ \A c \in Copied : grants[c[1]][c[2]] # NoGrant
  /\ Live \subseteq objects
  /\ WithinBudgets

\* What each copy takes.
CopySize == [c \in Copied |-> Size[grants[c[1]][c[2]].digest]]

LEMMA CopiesAreSized ==
  ASSUME Typed, Shape
  PROVE  Lengths(CopySize) /\ DOMAIN CopySize = Copied /\ CopyBytes = Total(CopySize)
<1>1. ASSUME NEW c \in Copied PROVE CopySize[c] \in Nat
  <2>1. c[1] \in Bots /\ c[2] \in Ids
    BY DEF Copied
  <2>2. grants[c[1]][c[2]] # NoGrant
    BY DEF Shape
  <2>3. grants[c[1]][c[2]] \in Grants
    BY <2>1, <2>2 DEF Typed, StoreTypes
  <2>4. grants[c[1]][c[2]].digest \in Digests
    BY <2>3 DEF Grants
  <2> QED
    BY <2>4, StoreAssumption DEF CopySize
<1> QED
  BY <1>1 DEF CopySize, Lengths, CopyBytes

LEMMA SizeMono ==
  ASSUME NEW S, NEW T, S \subseteq T, T \subseteq Digests, IsFiniteSet(T)
  PROVE  SizeOf(S) <= SizeOf(T) /\ SizeOf(T) \in Nat /\ SizeOf(S) \in Nat
<1> DEFINE f == [d \in S |-> Size[d]]
           g == [d \in T |-> Size[d]]
<1>1. Lengths(g) /\ Lengths(f) /\ DOMAIN f = S /\ DOMAIN g = T /\ \A d \in S : f[d] = g[d]
  BY StoreAssumption DEF Lengths
<1>2. IsFiniteSet(S)
  BY FS_Subset
<1> HIDE DEF f, g
<1>3. Total(f) <= Total(g) /\ Total(g) \in Nat /\ Total(f) \in Nat
  BY <1>1, <1>2, TotalMono, BytesFinite
<1> QED
  BY <1>3 DEF SizeOf, f, g

LEMMA SizeAdd ==
  ASSUME NEW S, S \subseteq Digests, IsFiniteSet(S), NEW d \in Digests
  PROVE  SizeOf(S \cup {d}) <= SizeOf(S) + Size[d]
<1> DEFINE f == [e \in S |-> Size[e]]
           g == [e \in S \cup {d} |-> Size[e]]
<1>1. /\ Lengths(g) /\ DOMAIN f = S /\ DOMAIN g = DOMAIN f \cup {d} /\ g[d] = Size[d]
      /\ \A e \in DOMAIN f : f[e] = g[e]
  BY StoreAssumption DEF Lengths
<1> HIDE DEF f, g
<1>2. Total(g) <= Total(f) + g[d]
  BY <1>1, TotalAdd
<1> QED
  BY <1>1, <1>2 DEF SizeOf, f, g

\* The digests a Bot holds are objects, so they are finitely many.
LEMMA HeldObjects ==
  ASSUME Typed, Shape, NEW b \in Bots
  PROVE  /\ DigestsOf(b) \subseteq objects /\ objects \subseteq Digests
         /\ IsFiniteSet(DigestsOf(b)) /\ SizeOf(DigestsOf(b)) \in Nat /\ SizeOf(objects) \in Nat
<1>1. DigestsOf(b) \subseteq objects /\ objects \subseteq Digests /\ IsFiniteSet(objects)
  BY DEF Shape, Live, Typed, StoreTypes
<1>2. IsFiniteSet(DigestsOf(b))
  BY <1>1, FS_Subset
<1> QED
  BY <1>1, <1>2, SizeMono

SameDigest(b, id) ==
  /\ grants'[b][id] = NoGrant <=> grants[b][id] = NoGrant
  /\ grants[b][id] # NoGrant => grants'[b][id].digest = grants[b][id].digest

\* What each Bot holds depends on which grants there are and what they name.
LEMMA SameDigests ==
  ASSUME NEW b \in Bots, \A id \in Ids : SameDigest(b, id)
  PROVE  DigestsOf(b)' = DigestsOf(b)
BY DEF SameDigest, DigestsOf, Held

\* A grant more, or a grant less.
LEMMA MoreDigests ==
  ASSUME NEW b \in Bots, NEW id \in Ids, grants[b][id] = NoGrant, grants'[b][id] # NoGrant,
         \A i \in Ids \ {id} : grants'[b][i] = grants[b][i]
  PROVE  DigestsOf(b)' = DigestsOf(b) \cup {grants'[b][id].digest}
<1>1. Held(b)' = Held(b) \cup {id} /\ id \notin Held(b)
  BY DEF Held
<1> QED
  BY <1>1 DEF DigestsOf, Held

LEMMA FewerDigests ==
  ASSUME NEW b \in Bots, \A i \in Ids : grants'[b][i] \in {NoGrant, grants[b][i]}
  PROVE  DigestsOf(b)' \subseteq DigestsOf(b)
BY DEF DigestsOf, Held

\* No step makes more of the copies than Workspace, and no other changes what
\* a copy takes.
LEMMA CopyBytesKept ==
  ASSUME Typed, Shape, Copied' \subseteq Copied, \A c \in Copied' : SameDigest(c[1], c[2])
  PROVE  /\ IsFiniteSet(Copied') /\ CopyBytes' <= CopyBytes
         /\ CopyBytes' \in Nat /\ CopyBytes \in Nat
         /\ \A c \in Copied' : grants'[c[1]][c[2]] # NoGrant
<1>1. IsFiniteSet(Copied') /\ IsFiniteSet(Copied)
  BY FS_Subset DEF Shape
<1>2. DOMAIN CopySize' = Copied' /\ CopyBytes' = Total(CopySize')
  BY DEF CopySize, CopyBytes
<1>3. \A c \in Copied' : grants[c[1]][c[2]] # NoGrant
  BY DEF Shape
<1>4. \A c \in Copied' : grants'[c[1]][c[2]].digest = grants[c[1]][c[2]].digest
                         /\ grants'[c[1]][c[2]] # NoGrant
  BY <1>3 DEF SameDigest
<1>5. \A c \in Copied' : CopySize'[c] = CopySize[c]
  BY <1>4 DEF CopySize
<1>6. Lengths(CopySize) /\ DOMAIN CopySize = Copied /\ CopyBytes = Total(CopySize)
  BY CopiesAreSized
<1>7. Total(CopySize') <= Total(CopySize)
  BY <1>1, <1>2, <1>5, <1>6, TotalMono
<1>8. Lengths(CopySize')
  BY <1>2, <1>5, <1>6 DEF Lengths
<1>9. Total(CopySize') \in Nat /\ Total(CopySize) \in Nat
  BY <1>1, <1>2, <1>6, <1>8, BytesFinite
<1> QED
  BY <1>1, <1>2, <1>4, <1>6, <1>7, <1>9

LEMMA ShapeKept ==
  ASSUME Typed, Shape, objects' = objects, Copied' \subseteq Copied,
         \A b \in Bots, id \in Ids : SameDigest(b, id)
  PROVE  Shape'
<1>1. \A b \in Bots : DigestsOf(b)' = DigestsOf(b)
  BY SameDigests
<1>2. Live' = Live
  BY <1>1 DEF Live
<1>3. \A c \in Copied' : SameDigest(c[1], c[2])
  BY DEF Copied
<1>4. /\ IsFiniteSet(Copied') /\ CopyBytes' <= CopyBytes
      /\ CopyBytes' \in Nat /\ CopyBytes \in Nat
      /\ \A c \in Copied' : grants'[c[1]][c[2]] # NoGrant
  BY <1>3, CopyBytesKept
<1>5. CopyBytes' <= WorkspaceBytes
  BY <1>4, StoreAssumption DEF Shape, WithinBudgets
<1>6. \A b \in Bots : SizeOf(DigestsOf(b))' = SizeOf(DigestsOf(b))
  BY <1>1 DEF SizeOf
<1>7. SizeOf(objects)' = SizeOf(objects)
  BY DEF SizeOf
<1> QED
  BY <1>2, <1>4, <1>5, <1>6, <1>7 DEF Shape, WithinBudgets

LEMMA ShapePut ==
  ASSUME Typed, Shape, NEW b \in Bots, NEW id \in Ids, NEW d \in Digests, NEW r \in Recs,
         Put(b, id, d, r) \/ PutTorn(b, id, d, r)
  PROVE  Shape'
<1>1. /\ grants[b][id] = NoGrant /\ Fits(b, d) /\ objects' = objects \cup {d}
      /\ copies' = copies
  BY DEF Put, PutTorn
<1>2. /\ \/ grants' = grants
         \/ grants'[b][id] = [digest |-> d, data |-> r]
      /\ \A c \in Bots, i \in Ids : <<c, i>> # <<b, id>> => grants'[c][i] = grants[c][i]
  BY PutRows DEF PutTorn
<1>3. Copied' = Copied
  BY <1>1 DEF Copied
<1>4. \A c \in Copied : SameDigest(c[1], c[2])
  <2> SUFFICES ASSUME NEW c \in Copied PROVE SameDigest(c[1], c[2])
    OBVIOUS
  <2>1. c[1] \in Bots /\ c[2] \in Ids /\ grants[c[1]][c[2]] # NoGrant
    BY DEF Copied, Shape
  <2>2. <<c[1], c[2]>> # <<b, id>>
    BY <1>1, <2>1
  <2>3. grants'[c[1]][c[2]] = grants[c[1]][c[2]]
    BY <1>2, <2>1, <2>2
  <2> QED
    BY <2>3 DEF SameDigest
<1>5. /\ IsFiniteSet(Copied') /\ CopyBytes' <= CopyBytes
      /\ CopyBytes' \in Nat /\ CopyBytes \in Nat
      /\ \A c \in Copied' : grants'[c[1]][c[2]] # NoGrant
  BY <1>3, <1>4, CopyBytesKept
<1>6. \A c \in Bots \ {b} : DigestsOf(c)' = DigestsOf(c)
  BY <1>2 DEF DigestsOf, Held
<1>7. DigestsOf(b)' = DigestsOf(b) \/ DigestsOf(b)' = DigestsOf(b) \cup {d}
  <2>1. CASE grants' = grants
    BY <2>1 DEF DigestsOf, Held
  <2>2. CASE grants'[b][id] = [digest |-> d, data |-> r]
    <3>1. grants'[b][id] # NoGrant /\ grants'[b][id].digest = d
      BY <2>2, TransferAssumption
    <3>2. \A i \in Ids \ {id} : grants'[b][i] = grants[b][i]
      BY <1>2
    <3> QED
      BY <1>1, <3>1, <3>2, MoreDigests
  <2> QED
    BY <1>2, <2>1, <2>2
<1>8. Live' \subseteq objects' /\ IsFiniteSet(objects')
  <2>1. Live \subseteq objects /\ IsFiniteSet(objects)
    BY DEF Shape
  <2>2. IsFiniteSet(objects \cup {d})
    BY <2>1, FS_AddElement
  <2>3. \A c \in Bots : DigestsOf(c)' \subseteq objects \cup {d}
    BY <1>6, <1>7, <2>1 DEF Live
  <2> QED
    BY <1>1, <2>2, <2>3 DEF Live
<1>9. SizeOf(objects)' <= MaxBytes
  <2>1. SizeOf(objects)' = SizeOf(objects \cup {d})
    BY <1>1 DEF SizeOf
  <2>2. objects \subseteq Digests /\ SizeOf(objects) \in Nat /\ IsFiniteSet(objects)
    BY HeldObjects DEF Shape
  <2>3. CASE d \in objects
    <3>1. objects \cup {d} = objects
      BY <2>3
    <3> QED
      BY <2>1, <3>1 DEF Shape, WithinBudgets
  <2>4. CASE SizeOf(objects) + Size[d] <= MaxBytes
    <3>1. SizeOf(objects \cup {d}) <= SizeOf(objects) + Size[d]
      BY <2>2, SizeAdd
    <3>2. SizeOf(objects \cup {d}) \in Nat
      <4>1. IsFiniteSet(objects \cup {d}) /\ objects \cup {d} \subseteq Digests
        BY <2>2, FS_AddElement
      <4> QED
        BY <4>1, SizeMono
    <3> QED
      BY <2>1, <2>2, <2>4, <3>1, <3>2, StoreAssumption
  <2> QED
    BY <1>1, <2>3, <2>4 DEF Fits, Intact
<1>10. ASSUME NEW c \in Bots PROVE SizeOf(DigestsOf(c))' <= QuotaBytes
  <2>1. SizeOf(DigestsOf(c))' = SizeOf(DigestsOf(c)')
    BY DEF SizeOf
  <2>2. SizeOf(DigestsOf(c)) <= QuotaBytes
    BY DEF Shape, WithinBudgets
  <2>3. CASE DigestsOf(c)' = DigestsOf(c)
    BY <2>1, <2>2, <2>3
  <2>4. CASE DigestsOf(c)' = DigestsOf(c) \cup {d} /\ c = b
    <3>1. CASE d \in DigestsOf(b)
      <4>1. DigestsOf(b) \cup {d} = DigestsOf(b)
        BY <3>1
      <4> QED
        BY <2>1, <2>2, <2>4, <4>1
    <3>2. CASE SizeOf(DigestsOf(b)) + Size[d] <= QuotaBytes
      <4>1. DigestsOf(b) \subseteq Digests /\ IsFiniteSet(DigestsOf(b)) /\ SizeOf(DigestsOf(b)) \in Nat
        BY HeldObjects
      <4>2. SizeOf(DigestsOf(b) \cup {d}) <= SizeOf(DigestsOf(b)) + Size[d]
        BY <4>1, SizeAdd
      <4>3. SizeOf(DigestsOf(b) \cup {d}) \in Nat
        <5>1. IsFiniteSet(DigestsOf(b) \cup {d}) /\ DigestsOf(b) \cup {d} \subseteq Digests
          BY <4>1, FS_AddElement
        <5> QED
          BY <5>1, SizeMono
      <4> QED
        BY <2>1, <2>4, <3>2, <4>1, <4>2, <4>3, StoreAssumption
    <3> QED
      BY <1>1, <3>1, <3>2 DEF Fits
  <2> QED
    BY <1>6, <1>7, <2>3, <2>4
<1>11. CopyBytes' <= WorkspaceBytes
  BY <1>5, StoreAssumption DEF Shape, WithinBudgets
<1> QED
  BY <1>5, <1>8, <1>9, <1>10, <1>11 DEF Shape, WithinBudgets

LEMMA ShapeDelete ==
  ASSUME Typed, Shape, NEW b \in Bots, NEW id \in Ids, NEW all, Delete(b, id, all)
  PROVE  Shape'
<1>1. /\ \A c \in Bots, i \in Ids : grants'[c][i] \in {NoGrant, grants[c][i]}
      /\ \A c \in Bots, i \in Ids : <<c, i>> # <<b, id>> => grants'[c][i] = grants[c][i]
      /\ objects' = objects
  BY DEF Delete, Typed, StoreTypes
<1>2. copies'[b][id] = "none" /\ \A c \in Bots, i \in Ids : copies'[c][i] \in {"none", copies[c][i]}
  BY DeleteCopies
<1>3. Copied' \subseteq Copied
  BY <1>2 DEF Copied
<1>4. \A c \in Copied' : SameDigest(c[1], c[2])
  <2> SUFFICES ASSUME NEW c \in Copied' PROVE SameDigest(c[1], c[2])
    OBVIOUS
  <2>1. c[1] \in Bots /\ c[2] \in Ids /\ <<c[1], c[2]>> # <<b, id>>
    BY <1>2 DEF Copied
  <2> QED
    BY <1>1, <2>1 DEF SameDigest
<1>5. /\ IsFiniteSet(Copied') /\ CopyBytes' <= CopyBytes
      /\ CopyBytes' \in Nat /\ CopyBytes \in Nat
      /\ \A c \in Copied' : grants'[c[1]][c[2]] # NoGrant
  BY <1>3, <1>4, CopyBytesKept
<1>6. \A c \in Bots : DigestsOf(c)' \subseteq DigestsOf(c)
  BY <1>1, FewerDigests
<1>7. ASSUME NEW c \in Bots PROVE SizeOf(DigestsOf(c))' <= QuotaBytes
  <2>1. DigestsOf(c) \subseteq Digests /\ IsFiniteSet(DigestsOf(c))
    BY HeldObjects
  <2>2. /\ SizeOf(DigestsOf(c)') <= SizeOf(DigestsOf(c))
        /\ SizeOf(DigestsOf(c)) \in Nat /\ SizeOf(DigestsOf(c)') \in Nat
    BY <1>6, <2>1, SizeMono
  <2>3. SizeOf(DigestsOf(c)) <= QuotaBytes
    BY DEF Shape, WithinBudgets
  <2>4. SizeOf(DigestsOf(c))' = SizeOf(DigestsOf(c)')
    BY DEF SizeOf
  <2> QED
    BY <2>2, <2>3, <2>4, StoreAssumption
<1>8. CopyBytes' <= WorkspaceBytes
  BY <1>5, StoreAssumption DEF Shape, WithinBudgets
<1>9. SizeOf(objects)' = SizeOf(objects) /\ Live' \subseteq objects'
  BY <1>1, <1>6 DEF SizeOf, Live, Shape
<1> QED
  BY <1>1, <1>5, <1>7, <1>8, <1>9 DEF Shape, WithinBudgets

LEMMA ShapeWorkspace ==
  ASSUME Typed, Shape, NEW b \in Bots, NEW id \in Ids, Workspace(b, id),
         UNCHANGED <<grants, objects>>
  PROVE  Shape'
<1>1. \A c \in Bots, i \in Ids : SameDigest(c, i)
  BY DEF SameDigest
<1>2. CASE copies' = copies
  <2>1. Copied' = Copied
    BY <1>2 DEF Copied
  <2> QED
    BY <1>1, <2>1, ShapeKept
<1>3. CASE /\ copies[b][id] = "none"
           /\ CopyBytes + Size[grants[b][id].digest] <= WorkspaceBytes
  <2> DEFINE x == <<b, id>>
  <2>1. Copied' = Copied \cup {x}
    <3>1. copies'[b][id] = "clean"
      BY <1>3, WorkspaceCopies
    <3>2. \A c \in Bots, i \in Ids : <<c, i>> # <<b, id>> => copies'[c][i] = copies[c][i]
      BY WorkspaceCopies
    <3>3. \A c \in Bots \X Ids : c # x => copies'[c[1]][c[2]] = copies[c[1]][c[2]]
      BY <3>2
    <3>4. x \in Bots \X Ids /\ copies'[x[1]][x[2]] # "none"
      BY <3>1
    <3> HIDE DEF x
    <3> QED
      BY <3>3, <3>4 DEF Copied
  <2>2. grants[b][id] # NoGrant /\ grants[b][id].digest \in Digests
    BY OpenDigest DEF Workspace
  <2>3. Lengths(CopySize) /\ DOMAIN CopySize = Copied /\ CopyBytes = Total(CopySize)
    BY CopiesAreSized
  <2>4. DOMAIN CopySize' = Copied' /\ CopyBytes' = Total(CopySize')
    BY DEF CopySize, CopyBytes
  <2>5. CopySize'[x] = Size[grants[b][id].digest]
    BY <2>1 DEF CopySize
  <2>6. \A c \in Copied : CopySize[c] = CopySize'[c]
    BY <2>1 DEF CopySize
  <2> HIDE DEF x
  <2>7. Size[grants[b][id].digest] \in Nat
    BY <2>2, StoreAssumption
  <2>8. Lengths(CopySize')
    BY <2>1, <2>3, <2>4, <2>5, <2>6, <2>7 DEF Lengths
  <2>9. IsFiniteSet(Copied) /\ IsFiniteSet(Copied')
    BY <2>1, FS_AddElement DEF Shape
  <2>10. Total(CopySize') <= Total(CopySize) + CopySize'[x]
    BY <2>1, <2>3, <2>4, <2>6, <2>8, <2>9, TotalAdd
  <2>11. Total(CopySize') \in Nat /\ Total(CopySize) \in Nat
    BY <2>3, <2>4, <2>8, <2>9, BytesFinite
  <2>12. CopyBytes' <= WorkspaceBytes
    BY <1>3, <2>3, <2>4, <2>5, <2>7, <2>10, <2>11, StoreAssumption
  <2>13. \A c \in Copied' : grants'[c[1]][c[2]] # NoGrant
    BY <2>1, <2>2 DEF Shape, x
  <2>14. \A c \in Bots : DigestsOf(c)' = DigestsOf(c)
    BY <1>1, SameDigests
  <2>15. /\ Live' = Live /\ SizeOf(objects)' = SizeOf(objects)
         /\ \A c \in Bots : SizeOf(DigestsOf(c))' = SizeOf(DigestsOf(c))
    BY <2>14 DEF Live, SizeOf
  <2> QED
    BY <2>9, <2>12, <2>13, <2>15 DEF Shape, WithinBudgets
<1> QED
  BY <1>2, <1>3 DEF Workspace

LEMMA ShapeGC ==
  ASSUME Typed, Shape, GC
  PROVE  Shape'
<1>1. PICK gone \in SUBSET Garbage : objects' = objects \ gone /\ UNCHANGED <<grants, copies>>
  BY DEF GC
<1>2. \A b \in Bots, id \in Ids : SameDigest(b, id)
  BY <1>1 DEF SameDigest
<1>3. Live' = Live /\ \A b \in Bots : DigestsOf(b)' = DigestsOf(b)
  BY <1>2, SameDigests DEF Live
<1>4. Live \subseteq objects' /\ objects' \subseteq objects
  BY <1>1 DEF Garbage, Shape
<1>5. objects \subseteq Digests /\ IsFiniteSet(objects)
  BY DEF Shape, Typed, StoreTypes
<1>6. IsFiniteSet(objects')
  BY <1>4, <1>5, FS_Subset
<1>7. SizeOf(objects') <= SizeOf(objects) /\ SizeOf(objects) \in Nat /\ SizeOf(objects') \in Nat
  BY <1>4, <1>5, SizeMono
<1>8. SizeOf(objects)' <= MaxBytes
  <2>1. SizeOf(objects)' = SizeOf(objects')
    BY DEF SizeOf
  <2> QED
    BY <1>7, <2>1, StoreAssumption DEF Shape, WithinBudgets
<1>9. Copied' = Copied /\ CopyBytes' = CopyBytes
  BY <1>1 DEF Copied, CopyBytes
<1>10. \A b \in Bots : SizeOf(DigestsOf(b))' = SizeOf(DigestsOf(b))
  BY <1>3 DEF SizeOf
<1> QED
  BY <1>1, <1>3, <1>4, <1>6, <1>8, <1>9, <1>10 DEF Shape, WithinBudgets

LEMMA InitShape == Init => Shape
<1> SUFFICES ASSUME Init PROVE Shape
  OBVIOUS
<1>1. objects = {} /\ Copied = {} /\ \A b \in Bots : DigestsOf(b) = {}
  BY DEF Init, StoreInit, Copied, DigestsOf, Held
<1>2. IsFiniteSet({}) /\ Cardinality({}) = 0
  BY FS_EmptySet
<1>3. SizeOf({}) = 0
  BY <1>2 DEF SizeOf, Total, Bytes
<1>4. CopyBytes = 0
  BY <1>1, <1>2 DEF CopyBytes, Total, Bytes
<1> QED
  BY <1>1, <1>2, <1>3, <1>4, StoreAssumption DEF Shape, WithinBudgets, Live

\* The steps that leave what is stored as it is, whatever they say of it.
LEMMA ShapeSame ==
  ASSUME Typed, Shape, UNCHANGED <<objects, copies>>,
         grants' = grants \/ (\E b \in Bots, id \in Ids, r \in Recs : UpdateData(b, id, r))
  PROVE  Shape'
<1>1. Copied' = Copied
  BY DEF Copied
<1>2. ASSUME NEW c \in Bots, NEW i \in Ids PROVE SameDigest(c, i)
  <2>1. CASE grants' = grants
    BY <2>1 DEF SameDigest
  <2>2. ASSUME NEW b \in Bots, NEW id \in Ids, NEW r \in Recs, UpdateData(b, id, r)
        PROVE  SameDigest(c, i)
    <3>1. CASE c = b /\ i = id
      BY <2>2, <3>1, UpdateRows DEF SameDigest
    <3>2. CASE ~(c = b /\ i = id)
      BY <2>2, <3>2, UpdateRows DEF SameDigest
    <3> QED
      BY <3>1, <3>2
  <2> QED
    BY <2>1, <2>2
<1> QED
  BY <1>1, <1>2, ShapeKept

LEMMA ConfigureShape ==
  ASSUME Typed, Shape, NEW b \in Bots, Configure(b)
  PROVE  Shape'
<1>1. UNCHANGED <<objects, copies>>
  BY DEF Configure
<1>2. Copied' = Copied
  BY <1>1 DEF Copied
<1>3. ASSUME NEW c \in Bots, NEW i \in Ids PROVE SameDigest(c, i)
  <2>1. CASE c # b
    BY <2>1 DEF Configure, SameDigest, Typed, StoreTypes
  <2>2. CASE c = b
    <3>1. grants'[b][i] = Settled(grants[b][i])
      BY DEF Configure, Typed, StoreTypes
    <3>2. CASE grants[b][i] = NoGrant
      BY <2>2, <3>1, <3>2 DEF SameDigest, Settled
    <3>3. CASE grants[b][i] # NoGrant
      <4>1. grants[b][i] \in Grants
        BY <3>3 DEF Typed, StoreTypes
      <4>2. PICK r \in Recs : grants'[b][i] = [grants[b][i] EXCEPT !.data = r]
        <5>1. Recovered(grants[b][i].data) \in Recs
          BY <4>1, RecTypes DEF Grants
        <5> QED
          BY <3>1, <3>3, <5>1 DEF Settled
      <4>3. grants'[b][i] \in Grants /\ grants'[b][i].digest = grants[b][i].digest
        BY <4>1, <4>2 DEF Grants
      <4> QED
        BY <2>2, <3>3, <4>3, TransferAssumption DEF SameDigest, Grants
    <3> QED
      BY <3>2, <3>3
  <2> QED
    BY <2>1, <2>2
<1> QED
  BY <1>1, <1>2, <1>3, ShapeKept

LEMMA StepsShape ==
  ASSUME Typed, Shape, NEW b \in Bots, Steps(b)
  PROVE  Shape'
<1> DEFINE id == op[b].id
           d == op[b].digest
<1>1. op[b].step \in SendSteps \cup {"pull"} => d \in Digests
  BY OpFacts
<1>2. op[b].step # "idle" => id \in Ids
  BY OpFacts
<1>3. CASE SendCommit(b) \/ SendTorn(b)
  <2>1. /\ id \in Ids /\ d \in Digests
        /\ Put(b, id, d, Rec("outbound", "pending")) \/ PutTorn(b, id, d, Rec("outbound", "pending"))
    BY <1>1, <1>2, <1>3 DEF SendCommit, SendTorn, SendSteps
  <2> HIDE DEF id, d
  <2> QED
    BY <2>1, RecTypes, ShapePut
<1>4. CASE PullCommit(b) \/ PullFail(b)
  <2>1. /\ id \in Ids /\ d \in Digests
        /\ \/ Put(b, id, d, Rec("inbound", "pending")) \/ PutTorn(b, id, d, Rec("inbound", "pending"))
           \/ UNCHANGED storeVars
    BY <1>1, <1>2, <1>4 DEF PullCommit, PullFail
  <2> HIDE DEF id, d
  <2> QED
    BY <2>1, RecTypes, ShapePut, ShapeSame DEF storeVars
<1>5. CASE SendEnd(b) \/ NotifyAdmit(b)
  <2>1. /\ id \in Ids /\ UNCHANGED <<objects, copies>>
        /\ \E r \in Recs : UpdateData(b, id, r)
    BY <1>2, <1>5, RecTypes DEF SendEnd, NotifyAdmit
  <2> HIDE DEF id
  <2> QED
    BY <2>1, ShapeSame
<1>6. CASE NotifyCopy(b)
  <2>1. id \in Ids /\ UNCHANGED <<grants, objects>> /\ (Workspace(b, id) \/ copies' = copies)
    BY <1>2, <1>6 DEF NotifyCopy
  <2> HIDE DEF id
  <2> QED
    BY <2>1, ShapeWorkspace, ShapeSame
<1>7. CASE SendOpen(b) \/ SendFail(b) \/ \E answer \in {"completed", "failed"} : Upload(b, answer)
  BY <1>7, ShapeSame DEF SendOpen, SendFail, Upload, storeVars
<1>8. CASE NotifyCall(b) \/ NotifyFail(b)
  BY <1>8, ShapeSame DEF NotifyCall, NotifyFail, storeVars
<1> QED
  BY <1>3, <1>4, <1>5, <1>6, <1>7, <1>8 DEF Steps

LEMMA NextShape == Typed /\ Shape /\ [Next]_vars => Shape'
<1> SUFFICES ASSUME Typed, Shape, [Next]_vars PROVE Shape'
  OBVIOUS
<1>1. CASE UNCHANGED vars \/ Crash \/ \E r \in Readers : CloseFile(r)
  BY <1>1, ShapeSame DEF vars, storeVars, Crash, CloseFile
<1>2. ASSUME NEW b \in Bots, Configure(b) \/ CloseBegin(b) \/ CloseEnd(b) PROVE Shape'
  BY <1>2, ConfigureShape, ShapeSame DEF CloseBegin, CloseEnd, storeVars
<1>3. ASSUME NEW b \in Bots, NEW id \in Ids,
             \/ PullBegin(b, id) \/ NotifyBegin(b, id) \/ Expire(b, id)
             \/ \E d \in Digests : (\E to \in Bots : SendBegin(b, to, id, d)) \/ Arrive(b, id, d)
             \/ \E to \in Bots, src \in Ids : ForwardBegin(b, to, src, id)
             \/ \E r \in Readers : OpenFile(b, id, r)
      PROVE  Shape'
  <2>1. UNCHANGED <<grants, objects, copies>>
    BY <1>3 DEF PullBegin, NotifyBegin, Expire, SendBegin, Arrive, ForwardBegin, OpenFile, storeVars
  <2> QED
    BY <2>1, ShapeSame
<1>4. ASSUME NEW b \in Bots, NEW id \in Ids, DeleteTransfer(b, id) PROVE Shape'
  BY <1>4, ShapeDelete DEF DeleteTransfer
<1>5. ASSUME NEW b \in Bots, NEW id \in Ids, NEW d \in Digests, Import(b, id, d) PROVE Shape'
  BY <1>5, RecTypes, ShapePut DEF Import
<1>6. CASE Disk
  <2>1. CASE GC
    BY <2>1, ShapeGC
  <2>2. CASE \E b \in Bots, id \in Ids : Edit(b, id)
    <3>1. PICK b \in Bots, id \in Ids : Edit(b, id)
      BY <2>2
    <3>2. UNCHANGED <<grants, objects>> /\ \A c \in Bots, i \in Ids : SameDigest(c, i)
      BY <3>1 DEF Edit, SameDigest
    <3>3. \A c \in Bots, i \in Ids : copies'[c][i] # "none" => copies[c][i] # "none"
      BY <3>1, EditCopies
    <3>4. Copied' \subseteq Copied
      BY <3>3 DEF Copied
    <3> QED
      BY <3>2, <3>4, ShapeKept
  <2>3. CASE (\E d \in Digests : Damage(d)) \/ \E b \in Bots : Hide(b) \/ Show(b)
    BY <2>3, ShapeSame DEF Damage, Hide, Show
  <2> QED
    BY <1>6, <2>1, <2>2, <2>3 DEF Disk
<1> QED
  BY <1>1, <1>2, <1>3, <1>4, <1>5, <1>6, StepsShape DEF Next

(***************************************************************************)
(* The pins: a digest is pinned once by every open reader, every upload    *)
(* and every forward of it, so the collector sees each of them.            *)
(***************************************************************************)

OpenReaders(d) == {r \in Readers : readers[r] = d}
Uploads(d) == {b \in Bots : op[b].step \in Sending /\ op[b].digest = d}
Forwards(d) == {b \in Bots : op[b].fwd /\ op[b].digest = d}

HoldInv ==
  /\ \A d \in Digests : pins[d] = Cardinality(OpenReaders(d)) + Cardinality(Uploads(d))
                                    + Cardinality(Forwards(d))
  /\ \A r \in Readers : readers[r] # NoDigest => readers[r] \in objects
  /\ \A b \in Bots : InUse(b) => op[b].digest \in objects

\* What the operation record o adds to the pins of d.
UploadPin(o, d) == IF o.step \in Sending /\ o.digest = d THEN 1 ELSE 0
ForwardPin(o, d) == IF o.fwd /\ o.digest = d THEN 1 ELSE 0
Load(o, d) == UploadPin(o, d) + ForwardPin(o, d)

\* Two finite sets that differ at most in x.
LEMMA OneApart ==
  ASSUME NEW S, NEW T, NEW x, IsFiniteSet(S), S \ {x} = T \ {x}
  PROVE  /\ Cardinality(S) \in Nat /\ Cardinality(T) \in Nat
         /\ Cardinality(T) = Cardinality(S) - (IF x \in S THEN 1 ELSE 0)
                                            + (IF x \in T THEN 1 ELSE 0)
<1> DEFINE R == S \ {x}
<1>1. IsFiniteSet(R) /\ x \notin R
  BY FS_RemoveElement
<1>2. Cardinality(R) \in Nat
  BY <1>1, FS_CardinalityType
<1>3. IsFiniteSet(R \cup {x}) /\ Cardinality(R \cup {x}) = Cardinality(R) + 1
  <2> HIDE DEF R
  <2> QED
    BY <1>1, FS_AddElement
<1>4. /\ x \in S => S = R \cup {x}
      /\ x \notin S => S = R
      /\ x \in T => T = R \cup {x}
      /\ x \notin T => T = R
  OBVIOUS
<1> HIDE DEF R
<1> QED
  BY <1>2, <1>3, <1>4

LEMMA HoldersFinite ==
  \A d : IsFiniteSet(OpenReaders(d)) /\ IsFiniteSet(Uploads(d)) /\ IsFiniteSet(Forwards(d))
<1> TAKE d
<1>1. OpenReaders(d) \in SUBSET Readers /\ Uploads(d) \in SUBSET Bots /\ Forwards(d) \in SUBSET Bots
  BY DEF OpenReaders, Uploads, Forwards
<1> QED
  BY <1>1, FS_Subset, TransferAssumption

LEMMA HoldersCount ==
  \A d : /\ Cardinality(OpenReaders(d)) \in Nat /\ Cardinality(Uploads(d)) \in Nat
         /\ Cardinality(Forwards(d)) \in Nat
BY HoldersFinite, FS_CardinalityType

\* A step of b's operation accounts for the pins it takes and gives back.
LEMMA HoldStep ==
  ASSUME Typed, HoldInv, NEW b \in Bots, readers' = readers, objects \subseteq objects',
         \A c \in Bots \ {b} : op'[c] = op[c],
         op'[b].step \in Sending \/ op'[b].fwd => op'[b].digest \in objects',
         \A d \in Digests : pins'[d] = pins[d] - Load(op[b], d) + Load(op'[b], d)
  PROVE  HoldInv'
<1>1. ASSUME NEW d \in Digests
      PROVE  pins'[d] = Cardinality(OpenReaders(d)') + Cardinality(Uploads(d)')
                          + Cardinality(Forwards(d)')
  <2>1. OpenReaders(d)' = OpenReaders(d)
    BY DEF OpenReaders
  <2>2. Uploads(d) \ {b} = Uploads(d)' \ {b}
    BY DEF Uploads
  <2>3. Forwards(d) \ {b} = Forwards(d)' \ {b}
    BY DEF Forwards
  <2>4. /\ Cardinality(Uploads(d)) \in Nat /\ Cardinality(Uploads(d)') \in Nat
        /\ Cardinality(Uploads(d)') = Cardinality(Uploads(d)) - (IF b \in Uploads(d) THEN 1 ELSE 0)
                                        + (IF b \in Uploads(d)' THEN 1 ELSE 0)
    BY <2>2, HoldersFinite, OneApart
  <2>5. /\ Cardinality(Forwards(d)) \in Nat /\ Cardinality(Forwards(d)') \in Nat
        /\ Cardinality(Forwards(d)') = Cardinality(Forwards(d)) - (IF b \in Forwards(d) THEN 1 ELSE 0)
                                        + (IF b \in Forwards(d)' THEN 1 ELSE 0)
    BY <2>3, HoldersFinite, OneApart
  <2>6. /\ UploadPin(op[b], d) = IF b \in Uploads(d) THEN 1 ELSE 0
        /\ UploadPin(op'[b], d) = IF b \in Uploads(d)' THEN 1 ELSE 0
        /\ ForwardPin(op[b], d) = IF b \in Forwards(d) THEN 1 ELSE 0
        /\ ForwardPin(op'[b], d) = IF b \in Forwards(d)' THEN 1 ELSE 0
    BY DEF UploadPin, ForwardPin, Uploads, Forwards
  <2>7. Cardinality(OpenReaders(d)) \in Nat
    BY HoldersCount
  <2>8. pins[d] = Cardinality(OpenReaders(d)) + Cardinality(Uploads(d)) + Cardinality(Forwards(d))
    BY DEF HoldInv
  <2>9. pins'[d] = pins[d] - Load(op[b], d) + Load(op'[b], d)
    OBVIOUS
  <2> QED
    BY <2>1, <2>4, <2>5, <2>6, <2>7, <2>8, <2>9 DEF Load
<1>2. \A r \in Readers : readers'[r] # NoDigest => readers'[r] \in objects'
  BY DEF HoldInv
<1>3. ASSUME NEW c \in Bots, InUse(c)' PROVE op'[c].digest \in objects'
  <2>1. CASE c = b
    BY <1>3, <2>1 DEF InUse, Sending
  <2>2. CASE c # b
    BY <1>3, <2>2 DEF HoldInv, InUse
  <2> QED
    BY <2>1, <2>2
<1> QED
  BY <1>1, <1>2, <1>3 DEF HoldInv

\* A step that moves no pin and no operation that holds one.
LEMMA HoldKept ==
  ASSUME Typed, HoldInv, UNCHANGED <<pins, readers, op>>, objects \subseteq objects'
  PROVE  HoldInv'
BY DEF HoldInv, OpenReaders, Uploads, Forwards, InUse

LEMMA InitHold == Init => HoldInv
<1> SUFFICES ASSUME Init PROVE HoldInv
  OBVIOUS
<1>1. \A b \in Bots : op[b].step = "idle" /\ op[b].fwd = FALSE
  BY DEF Init, Idle
<1>2. \A r \in Readers : readers[r] = NoDigest
  BY DEF Init
<1>3. ASSUME NEW d \in Digests PROVE OpenReaders(d) = {} /\ Uploads(d) = {} /\ Forwards(d) = {} /\ pins[d] = 0
  BY <1>1, <1>2, TransferAssumption DEF OpenReaders, Uploads, Forwards, Sending, Init, StoreInit
<1>4. Cardinality({}) = 0
  BY FS_EmptySet
<1>5. \A b \in Bots : ~InUse(b)
  BY <1>1 DEF InUse
<1> QED
  BY <1>2, <1>3, <1>4, <1>5 DEF HoldInv

LEMMA CrashHold ==
  ASSUME Typed, HoldInv, Crash
  PROVE  HoldInv'
<1>1. \A b \in Bots : op'[b].step = "idle" /\ op'[b].fwd = FALSE
  BY DEF Crash, Idle
<1>2. \A r \in Readers : readers'[r] = NoDigest
  BY DEF Crash
<1>3. ASSUME NEW d \in Digests PROVE OpenReaders(d)' = {} /\ Uploads(d)' = {} /\ Forwards(d)' = {} /\ pins'[d] = 0
  BY <1>1, <1>2, TransferAssumption DEF OpenReaders, Uploads, Forwards, Sending, Crash
<1>4. Cardinality({}) = 0
  BY FS_EmptySet
<1>5. \A b \in Bots : ~InUse(b)'
  BY <1>1 DEF InUse
<1>6. \A d \in Digests :
        pins'[d] = Cardinality(OpenReaders(d)') + Cardinality(Uploads(d)') + Cardinality(Forwards(d)')
  BY <1>3, <1>4
<1> QED
  BY <1>2, <1>5, <1>6 DEF HoldInv

LEMMA NoLoad ==
  \A o, d : o.step \notin Sending /\ ~o.fwd => Load(o, d) = 0
BY DEF Load, UploadPin, ForwardPin

LEMMA PinsTyped ==
  Typed => \A d \in Digests : pins[d] \in Int
BY DEF Typed, StoreTypes

\* An operation that neither uploads nor forwards, before or after the step.
LEMMA QuietHold ==
  ASSUME Typed, HoldInv, NEW b \in Bots, UNCHANGED <<pins, readers>>, objects \subseteq objects',
         \A c \in Bots \ {b} : op'[c] = op[c],
         op[b].step \notin Sending, ~op[b].fwd, op'[b].step \notin Sending, ~op'[b].fwd
  PROVE  HoldInv'
<1>1. \A d \in Digests : pins'[d] = pins[d] - Load(op[b], d) + Load(op'[b], d)
  BY NoLoad, PinsTyped
<1> QED
  BY <1>1, HoldStep

\* An operation that keeps its digest and what it holds.
LEMMA SameHold ==
  ASSUME Typed, HoldInv, NEW b \in Bots, UNCHANGED <<pins, readers>>, objects \subseteq objects',
         \A c \in Bots \ {b} : op'[c] = op[c],
         op'[b].step \in Sending <=> op[b].step \in Sending,
         op'[b].digest = op[b].digest, op'[b].fwd = op[b].fwd
  PROVE  HoldInv'
<1>1. ASSUME NEW d \in Digests PROVE Load(op'[b], d) = Load(op[b], d) /\ Load(op[b], d) \in Int
  BY DEF Load, UploadPin, ForwardPin
<1>2. \A d \in Digests : pins'[d] = pins[d] - Load(op[b], d) + Load(op'[b], d)
  BY <1>1, PinsTyped
<1>3. op'[b].step \in Sending \/ op'[b].fwd => op'[b].digest \in objects'
  BY DEF HoldInv, InUse, Sending
<1> QED
  BY <1>2, <1>3, HoldStep

LEMMA BeginHold ==
  ASSUME Typed, HoldInv, NEW b \in Bots, NEW id \in Ids,
         \/ \E to \in Bots, d \in Digests : SendBegin(b, to, id, d)
         \/ PullBegin(b, id) \/ NotifyBegin(b, id)
  PROVE  HoldInv'
<1>1. UNCHANGED <<pins, readers, objects>> /\ op[b] = Idle
  BY DEF SendBegin, PullBegin, NotifyBegin, storeVars, Free
<1>2. \E step \in {"send", "pull", "notify"} : \E d, to : op' = [op EXCEPT ![b] = Op(step, id, d, to, FALSE)]
  BY DEF SendBegin, PullBegin, NotifyBegin
<1>3. /\ op'[b].step \notin Sending /\ ~op'[b].fwd
      /\ \A c \in Bots \ {b} : op'[c] = op[c]
  BY <1>2 DEF Typed, ServiceTypes, Op, Sending
<1>4. op[b].step \notin Sending /\ ~op[b].fwd
  BY <1>1 DEF Idle, Sending
<1> QED
  BY <1>1, <1>3, <1>4, QuietHold

LEMMA ForwardHold ==
  ASSUME Typed, HoldInv, NEW b \in Bots, NEW to \in Bots, NEW src \in Ids, NEW id \in Ids,
         ForwardBegin(b, to, src, id)
  PROVE  HoldInv'
<1>1. PICK d \in Digests : d = grants[b][src].digest
  BY OpenDigest DEF ForwardBegin, Open
<1>2. /\ op' = [op EXCEPT ![b] = Op("send", id, d, to, TRUE)] /\ op[b] = Idle
      /\ pins' = [pins EXCEPT ![d] = @ + 1] /\ d \in objects
      /\ UNCHANGED <<readers, objects>>
  BY <1>1 DEF ForwardBegin, Open, Free, Intact
<1>3. /\ op'[b].step \notin Sending /\ op'[b].fwd /\ op'[b].digest = d
      /\ \A c \in Bots \ {b} : op'[c] = op[c]
  BY <1>2 DEF Typed, ServiceTypes, Op, Sending
<1>4. \A e \in Digests : Load(op[b], e) = 0
  BY <1>2, NoLoad DEF Idle, Sending
<1>5. \A e \in Digests : Load(op'[b], e) = IF e = d THEN 1 ELSE 0
  BY <1>3 DEF Load, UploadPin, ForwardPin
<1>6. \A e \in Digests : pins'[e] = pins[e] + (IF e = d THEN 1 ELSE 0) /\ pins[e] \in Int
  BY <1>2, PinsTyped DEF Typed, StoreTypes
<1>7. \A e \in Digests : pins'[e] = pins[e] - Load(op[b], e) + Load(op'[b], e)
  BY <1>4, <1>5, <1>6
<1>8. readers' = readers /\ objects' = objects /\ d \in objects
  BY <1>1 DEF ForwardBegin, Open, Intact
<1>9. objects \subseteq objects' /\ op'[b].digest \in objects'
  BY <1>3, <1>8
<1> QED
  BY <1>3, <1>7, <1>8, <1>9, HoldStep

LEMMA SendOpenHold ==
  ASSUME Typed, ToldInv, HoldInv, NEW b \in Bots, SendOpen(b)
  PROVE  HoldInv'
<1>1. PICK d \in Digests : d = op[b].digest
  BY OpFacts DEF SendOpen, SendSteps
<1>2. grants[b][op[b].id].digest = d
  <2>1. op[b].step = "open" /\ PointOK(b)
    BY DEF SendOpen, ToldInv
  <2>2. grants[b][op[b].id] = [digest |-> op[b].digest, data |-> Rec("outbound", "pending")]
    BY <2>1 DEF PointOK
  <2> QED
    BY <1>1, <2>2
<1>3. /\ pins' = [pins EXCEPT ![d] = @ + 1] /\ d \in objects /\ UNCHANGED <<readers, objects>>
      /\ op[b].step = "open" /\ Goto(b, "upload")
  BY <1>2 DEF SendOpen, Open, Intact
<1>4. /\ op'[b].step = "upload" /\ op'[b].digest = d /\ op'[b].fwd = op[b].fwd
      /\ \A c \in Bots \ {b} : op'[c] = op[c]
  BY <1>1, <1>3, GotoPoints
<1>5. \A e \in Digests : /\ UploadPin(op[b], e) = 0
                         /\ UploadPin(op'[b], e) = IF e = d THEN 1 ELSE 0
                         /\ ForwardPin(op'[b], e) = ForwardPin(op[b], e) /\ ForwardPin(op[b], e) \in Int
  BY <1>1, <1>3, <1>4 DEF UploadPin, ForwardPin, Sending
<1>6. \A e \in Digests : pins'[e] = pins[e] + (IF e = d THEN 1 ELSE 0) /\ pins[e] \in Int
  BY <1>3, PinsTyped DEF Typed, StoreTypes
<1>7. \A e \in Digests : pins'[e] = pins[e] - Load(op[b], e) + Load(op'[b], e)
  BY <1>5, <1>6 DEF Load
<1> QED
  BY <1>3, <1>4, <1>7, HoldStep

LEMMA UnpinHold ==
  ASSUME Typed, HoldInv, NEW b \in Bots, UnpinSend(b), Done(b), UNCHANGED <<readers, objects>>,
         op[b].step \in SendSteps \ {"upload"}
  PROVE  HoldInv'
<1>1. PICK d \in Digests : d = op[b].digest
  BY OpFacts
<1>2. /\ UploadPin(op[b], d) = IF op[b].step \in {"completed", "failed"} THEN 1 ELSE 0
      /\ ForwardPin(op[b], d) = IF op[b].fwd THEN 1 ELSE 0
      /\ \A e \in Digests \ {d} : UploadPin(op[b], e) = 0 /\ ForwardPin(op[b], e) = 0
  BY <1>1 DEF UploadPin, ForwardPin, Sending
<1>3. PICK n \in Int : n = Load(op[b], d) /\ pins' = [pins EXCEPT ![d] = @ - n]
  <2>1. Load(op[b], d) \in Int
    BY DEF Load, UploadPin, ForwardPin
  <2>2. pins' = [pins EXCEPT ![d] = @ - ((IF op[b].step \in {"completed", "failed"} THEN 1 ELSE 0)
                                           + (IF op[b].fwd THEN 1 ELSE 0))]
    BY <1>1 DEF UnpinSend
  <2>3. pins' = [pins EXCEPT ![d] = @ - Load(op[b], d)]
    BY <1>2, <2>2 DEF Load
  <2> QED
    BY <2>1, <2>3
<1>4. /\ op'[b] = Idle /\ \A c \in Bots \ {b} : op'[c] = op[c]
      /\ op'[b].step \notin Sending /\ ~op'[b].fwd
  <2>1. Idle.step \notin Sending /\ ~Idle.fwd
    BY DEF Idle, Sending
  <2> QED
    BY <2>1, DonePoints
<1>5. \A e \in Digests : Load(op'[b], e) = 0
  BY <1>4, NoLoad
<1>6. \A e \in Digests : Load(op[b], e) = IF e = d THEN n ELSE 0
  BY <1>2, <1>3 DEF Load
<1>7. \A e \in Digests : pins'[e] = pins[e] - (IF e = d THEN n ELSE 0) /\ pins[e] \in Int
  BY <1>3, PinsTyped DEF Typed, StoreTypes
<1>8. \A e \in Digests : pins'[e] = pins[e] - Load(op[b], e) + Load(op'[b], e)
  BY <1>5, <1>6, <1>7
<1> QED
  BY <1>4, <1>8, HoldStep

\* A reader that opens or closes accounts for its pin.
LEMMA ReaderHold ==
  ASSUME Typed, HoldInv, NEW r \in Readers, UNCHANGED <<op, objects>>,
         \A q \in Readers \ {r} : readers'[q] = readers[q],
         readers'[r] # NoDigest => readers'[r] \in objects,
         \A d \in Digests : pins'[d] = pins[d] - (IF readers[r] = d THEN 1 ELSE 0)
                                               + (IF readers'[r] = d THEN 1 ELSE 0)
  PROVE  HoldInv'
<1>1. ASSUME NEW d \in Digests
      PROVE  pins'[d] = Cardinality(OpenReaders(d)') + Cardinality(Uploads(d)')
                          + Cardinality(Forwards(d)')
  <2>1. Uploads(d)' = Uploads(d) /\ Forwards(d)' = Forwards(d)
    BY DEF Uploads, Forwards
  <2>2. OpenReaders(d) \ {r} = OpenReaders(d)' \ {r}
    BY DEF OpenReaders
  <2>3. /\ Cardinality(OpenReaders(d)) \in Nat /\ Cardinality(OpenReaders(d)') \in Nat
        /\ Cardinality(OpenReaders(d)') = Cardinality(OpenReaders(d))
                                            - (IF r \in OpenReaders(d) THEN 1 ELSE 0)
                                            + (IF r \in OpenReaders(d)' THEN 1 ELSE 0)
    BY <2>2, HoldersFinite, OneApart
  <2>4. (r \in OpenReaders(d) <=> readers[r] = d) /\ (r \in OpenReaders(d)' <=> readers'[r] = d)
    BY DEF OpenReaders
  <2>5. pins[d] = Cardinality(OpenReaders(d)) + Cardinality(Uploads(d)) + Cardinality(Forwards(d))
    BY DEF HoldInv
  <2>6. pins'[d] = pins[d] - (IF readers[r] = d THEN 1 ELSE 0) + (IF readers'[r] = d THEN 1 ELSE 0)
    OBVIOUS
  <2>7. Cardinality(Uploads(d)) \in Nat /\ Cardinality(Forwards(d)) \in Nat
    BY HoldersCount
  <2> QED
    BY <2>1, <2>3, <2>4, <2>5, <2>6, <2>7
<1>2. \A q \in Readers : readers'[q] # NoDigest => readers'[q] \in objects'
  BY DEF HoldInv
<1>3. \A b \in Bots : InUse(b)' => op'[b].digest \in objects'
  BY DEF HoldInv, InUse
<1> QED
  BY <1>1, <1>2, <1>3 DEF HoldInv

LEMMA FilesHold ==
  ASSUME Typed, HoldInv, NEW r \in Readers,
         CloseFile(r) \/ \E b \in Bots, id \in Ids : OpenFile(b, id, r)
  PROVE  HoldInv'
<1>1. UNCHANGED <<op, objects>>
  BY DEF CloseFile, OpenFile, serviceVars
<1>2. CASE CloseFile(r)
  <2>1. PICK d \in Digests : d = readers[r]
    BY <1>2 DEF CloseFile, Typed, OtherTypes
  <2>2. pins' = [pins EXCEPT ![d] = @ - 1] /\ readers' = [readers EXCEPT ![r] = NoDigest]
    BY <1>2, <2>1 DEF CloseFile, Unpin
  <2>3. readers'[r] = NoDigest /\ \A q \in Readers \ {r} : readers'[q] = readers[q]
    BY <2>2 DEF Typed, OtherTypes
  <2>4. \A e \in Digests : pins'[e] = pins[e] - (IF e = d THEN 1 ELSE 0) /\ pins[e] \in Int
    BY <2>2, PinsTyped DEF Typed, StoreTypes
  <2>5. \A e \in Digests : e # NoDigest
    BY TransferAssumption
  <2>6. \A e \in Digests : pins'[e] = pins[e] - (IF readers[r] = e THEN 1 ELSE 0)
                                        + (IF readers'[r] = e THEN 1 ELSE 0)
    BY <2>1, <2>3, <2>4, <2>5
  <2> QED
    BY <1>1, <2>3, <2>6, ReaderHold
<1>3. ASSUME NEW b \in Bots, NEW id \in Ids, OpenFile(b, id, r) PROVE HoldInv'
  <2>1. PICK d \in Digests : d = grants[b][id].digest
    BY <1>3, OpenDigest DEF OpenFile, Open
  <2>2. /\ pins' = [pins EXCEPT ![d] = @ + 1] /\ readers' = [readers EXCEPT ![r] = d]
        /\ readers[r] = NoDigest
    BY <1>3, <2>1 DEF OpenFile, Open
  <2>3. d \in objects
    BY <1>3, <2>1 DEF OpenFile, Open, Intact
  <2>4. readers'[r] = d /\ \A q \in Readers \ {r} : readers'[q] = readers[q]
    BY <2>2 DEF Typed, OtherTypes
  <2>5. \A e \in Digests : pins'[e] = pins[e] + (IF e = d THEN 1 ELSE 0) /\ pins[e] \in Int
    BY <2>2, PinsTyped DEF Typed, StoreTypes
  <2>6. \A e \in Digests : e # readers[r]
    BY <2>2, TransferAssumption
  <2>7. \A e \in Digests : pins'[e] = pins[e] - (IF readers[r] = e THEN 1 ELSE 0)
                                        + (IF readers'[r] = e THEN 1 ELSE 0)
    BY <2>4, <2>5, <2>6
  <2>8. readers'[r] \in objects
    BY <2>3, <2>4
  <2> QED
    BY <1>1, <2>4, <2>7, <2>8, ReaderHold
<1> QED
  BY <1>2, <1>3

\* The collector takes nothing that is pinned, and what is held is pinned.
LEMMA GCHold ==
  ASSUME Typed, HoldInv, GC, UNCHANGED <<readers, op>>
  PROVE  HoldInv'
<1>1. PICK gone \in SUBSET Garbage : objects' = objects \ gone /\ UNCHANGED pins
  BY DEF GC
<1>2. \A d \in Digests : UNCHANGED <<OpenReaders(d), Uploads(d), Forwards(d)>>
  BY DEF OpenReaders, Uploads, Forwards
<1>3. \A d \in gone : d \in Digests /\ pins[d] = 0
  BY DEF Garbage, Typed, StoreTypes
<1>4. ASSUME NEW d \in gone PROVE OpenReaders(d) = {} /\ Uploads(d) = {} /\ Forwards(d) = {}
  <2>1. Cardinality(OpenReaders(d)) + Cardinality(Uploads(d)) + Cardinality(Forwards(d)) = 0
    BY <1>3 DEF HoldInv
  <2>2. /\ Cardinality(OpenReaders(d)) = 0 /\ Cardinality(Uploads(d)) = 0
        /\ Cardinality(Forwards(d)) = 0
    BY <2>1, HoldersCount
  <2> QED
    BY <2>2, HoldersFinite, FS_EmptySet
<1>5. ASSUME NEW r \in Readers, readers[r] # NoDigest PROVE readers[r] \in objects'
  BY <1>1, <1>4, <1>5 DEF HoldInv, OpenReaders
<1>6. ASSUME NEW b \in Bots, InUse(b) PROVE op[b].digest \in objects'
  BY <1>1, <1>4, <1>6 DEF HoldInv, InUse, Uploads, Forwards, Sending
<1>7. \A b \in Bots : InUse(b)' = InUse(b)
  BY DEF InUse
<1>8. \A d \in Digests : pins'[d] = Cardinality(OpenReaders(d)') + Cardinality(Uploads(d)')
                                      + Cardinality(Forwards(d)')
  BY <1>1, <1>2 DEF HoldInv
<1> QED
  BY <1>5, <1>6, <1>7, <1>8 DEF HoldInv

LEMMA StepsHold ==
  ASSUME Typed, ToldInv, HoldInv, NEW b \in Bots, Steps(b)
  PROVE  HoldInv'
<1>1. CASE SendCommit(b) \/ SendTorn(b)
  <2>1. /\ UNCHANGED <<pins, readers>> /\ objects \subseteq objects' /\ op[b].step = "send"
        /\ Goto(b, "open") \/ Goto(b, "returning")
    BY <1>1 DEF SendCommit, SendTorn, Put, PutTorn, history
  <2>2. /\ op'[b].step \in {"open", "returning"} /\ op'[b].digest = op[b].digest
        /\ op'[b].fwd = op[b].fwd /\ \A c \in Bots \ {b} : op'[c] = op[c]
    BY <2>1, GotoPoints
  <2>3. op'[b].step \notin Sending /\ op[b].step \notin Sending
    BY <2>1, <2>2 DEF Sending
  <2> QED
    BY <2>1, <2>2, <2>3, SameHold
<1>2. ASSUME NEW answer \in {"completed", "failed"}, Upload(b, answer) PROVE HoldInv'
  <2>1. UNCHANGED <<pins, readers, objects>> /\ op[b].step = "upload" /\ Goto(b, answer)
    BY <1>2 DEF Upload, storeVars
  <2>2. /\ op'[b].step = answer /\ op'[b].digest = op[b].digest
        /\ op'[b].fwd = op[b].fwd /\ \A c \in Bots \ {b} : op'[c] = op[c]
    BY <2>1, GotoPoints
  <2>3. op'[b].step \in Sending /\ op[b].step \in Sending
    BY <2>1, <2>2 DEF Sending
  <2> QED
    BY <2>1, <2>2, <2>3, SameHold
<1>3. CASE SendEnd(b) \/ SendFail(b)
  <2>1. /\ UnpinSend(b) /\ Done(b) /\ UNCHANGED <<readers, objects>>
        /\ op[b].step \in SendSteps \ {"upload"}
    BY <1>3 DEF SendEnd, SendFail, SendSteps, Sending
  <2> QED
    BY <2>1, UnpinHold
<1>4. CASE PullCommit(b) \/ PullFail(b) \/ NotifyCopy(b) \/ NotifyAdmit(b) \/ NotifyCall(b) \/ NotifyFail(b)
  <2>1. op[b].step \in {"pull", "notify", "admit", "call"}
    BY <1>4 DEF PullCommit, PullFail, NotifyCopy, NotifyAdmit, NotifyCall, NotifyFail
  <2>2. op[b].step \notin SendSteps /\ op[b].step \notin Sending
    BY <2>1 DEF SendSteps, Sending
  <2>3. ~op[b].fwd
    BY <2>2, OpFacts
  <2>4. UNCHANGED <<pins, readers>> /\ objects \subseteq objects'
    BY <1>4 DEF PullCommit, PullFail, NotifyCopy, NotifyAdmit, NotifyCall, NotifyFail, Put, PutTorn, storeVars
  <2>5. Done(b) \/ \E step \in {"notify", "admit", "call"} : Goto(b, step)
    BY <1>4 DEF PullCommit, PullFail, NotifyCopy, NotifyAdmit, NotifyCall, NotifyFail
  <2>6. /\ op'[b].step \notin Sending /\ ~op'[b].fwd
        /\ \A c \in Bots \ {b} : op'[c] = op[c]
    <3>1. CASE Done(b)
      <4>1. Idle.step \notin Sending /\ ~Idle.fwd
        BY DEF Idle, Sending
      <4> QED
        BY <3>1, <4>1, DonePoints
    <3>2. ASSUME NEW step \in {"notify", "admit", "call"}, Goto(b, step) 
          PROVE  /\ op'[b].step \notin Sending /\ ~op'[b].fwd
                 /\ \A c \in Bots \ {b} : op'[c] = op[c]
      <4>1. step \notin Sending
        BY DEF Sending
      <4> QED
        BY <2>3, <3>2, <4>1, GotoPoints
    <3> QED
      BY <2>5, <3>1, <3>2
  <2> QED
    BY <2>2, <2>3, <2>4, <2>6, QuietHold
<1> QED
  BY <1>1, <1>2, <1>3, <1>4, SendOpenHold DEF Steps

LEMMA NextHold == Typed /\ ToldInv /\ HoldInv /\ [Next]_vars => HoldInv'
<1> SUFFICES ASSUME Typed, ToldInv, HoldInv, [Next]_vars PROVE HoldInv'
  OBVIOUS
<1>1. CASE UNCHANGED vars
  BY <1>1, HoldKept DEF vars, storeVars, serviceVars
<1>2. ASSUME NEW b \in Bots, Configure(b) \/ CloseBegin(b) \/ CloseEnd(b) PROVE HoldInv'
  BY <1>2, HoldKept DEF Configure, CloseBegin, CloseEnd, storeVars
<1>3. ASSUME NEW b \in Bots, NEW id \in Ids, DeleteTransfer(b, id) \/ Expire(b, id) PROVE HoldInv'
  BY <1>3, HoldKept DEF DeleteTransfer, Delete, Expire, storeVars, serviceVars
<1>4. ASSUME NEW b \in Bots, NEW id \in Ids, NEW d \in Digests, Import(b, id, d) \/ Arrive(b, id, d)
      PROVE  HoldInv'
  BY <1>4, HoldKept DEF Import, Put, PutTorn, Arrive, storeVars, serviceVars
<1>5. ASSUME NEW b \in Bots, NEW id \in Ids,
             \/ PullBegin(b, id) \/ NotifyBegin(b, id)
             \/ \E to \in Bots, d \in Digests : SendBegin(b, to, id, d)
             \/ \E to \in Bots, src \in Ids : ForwardBegin(b, to, src, id)
      PROVE  HoldInv'
  BY <1>5, BeginHold, ForwardHold
<1>6. CASE \E r \in Readers : CloseFile(r) \/ \E b \in Bots, id \in Ids : OpenFile(b, id, r)
  BY <1>6, FilesHold
<1>7. CASE Disk
  <2>1. CASE GC
    BY <1>7, <2>1, GCHold DEF Disk, serviceVars
  <2>2. CASE ~GC
    BY <1>7, <2>2, HoldKept DEF Disk, Damage, Hide, Show, Edit, serviceVars
  <2> QED
    BY <2>1, <2>2
<1> QED
  BY <1>1, <1>2, <1>3, <1>4, <1>5, <1>6, <1>7, StepsHold, CrashHold DEF Next

(***************************************************************************)
(* The theorems.                                                           *)
(***************************************************************************)

StoreInv == Typed /\ ToldInv /\ Shape /\ HoldInv

LEMMA StoreInvariant == Spec => []StoreInv
<1>1. Init => StoreInv
  BY InitTyped, InitTold, InitShape, InitHold DEF StoreInv
<1>2. StoreInv /\ [Next]_vars => StoreInv'
  BY NextTyped, NextTold, NextShape, NextHold DEF StoreInv
<1> QED
  BY <1>1, <1>2, PTL DEF Spec

\* Every variable keeps its type; a pin count is never negative
\* (Store.Open, pinnedReader.Close).
THEOREM Types == Spec => []TypeOK
<1>1. StoreInv => TypeOK
  <2> SUFFICES ASSUME StoreInv PROVE TypeOK
    OBVIOUS
  <2>1. \A d \in Digests : pins[d] \in Nat
    BY HoldersCount DEF StoreInv, HoldInv
  <2>2. pins \in [Digests -> Nat]
    BY <2>1 DEF StoreInv, Typed, StoreTypes
  <2> QED
    BY <2>2 DEF StoreInv, Typed, StoreTypes, ServiceTypes, OtherTypes, TypeOK, Grants
<1> QED
  BY <1>1, StoreInvariant, PTL

\* No collection, deletion, failed write or crash takes away content a grant, a
\* reader, an upload or a forward relies on, and the budgets of a Bot, of the
\* store and of the working copies hold (Store.GC, Store.put, Store.Workspace).
THEOREM Stored == Spec => []StoreIsSound
<1>1. StoreInv => StoreIsSound
  BY DEF StoreInv, HoldInv, Shape, StoreIsSound, ContentIsKept
<1> QED
  BY <1>1, StoreInvariant, PTL
=============================================================================

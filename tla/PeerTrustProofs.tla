-------------------------- MODULE PeerTrustProofs --------------------------
(***************************************************************************)
(* That trust in PeerTrust excludes refusal and stands on consent, and     *)
(* that what is decided is decided one way, saved and marked, for any set  *)
(* of Bots and any bounds.                                                 *)
(***************************************************************************)
EXTENDS PeerTrust, FiniteSetTheorems, TLAPS

Held(n) == store[n].pending \cup disk[n].pending

\* Requests are named apart, and nobody asks itself.
NamesOK == \A r \in asked : r.id <= Cardinality(asked) /\ r.from # r.to
SelfOK == \A n \in Node : /\ peers[n][n] = "absent" /\ n \notin asking[n]
                          /\ \A x \in reading[n] : x.peer # n

\* A request on its way is there once, and neither pending with its receiver
\* nor answered.
OnTheWay(n) ==
  \A i \in 1..Len(requests[n]) :
    /\ requests[n][i] \in asked /\ requests[n][i].to = n
    /\ requests[n][i] \notin Held(n)
    /\ \A a \in answers : a.req # requests[n][i]
    /\ \A j \in 1..Len(requests[n]) : requests[n][i] = requests[n][j] => i = j

MessagesOK ==
  \A n \in Node :
    /\ OnTheWay(n)
    /\ \A i \in 1..Len(responses[n]) : responses[n][i] \in answers

\* What a revocation came after is no longer pending.
SpentOK ==
  /\ \A a \in answers : a.req \in asked
  /\ \A n \in Node :
       /\ \A r \in Held(n) : r \in asked /\ r \notin spent[n]
       /\ \A r \in spent[n] : r \in asked /\ (r.from = n \/ \E a \in answers : a.req = r)

\* Until a revocation is saved and marked, the memory keeps to it.
WithdrawOK ==
  \A n \in Node : \A i \in 1..Len(todo[n]) :
    todo[n][i].trust = "revoked" =>
      /\ todo[n][i].peer \notin store[n].trusted
      /\ \A r \in store[n].pending : todo[n][i].peer \notin {r.from, r.to}

IInv == /\ TypeOK /\ IsFiniteSet(asked) /\ NamesOK /\ SelfOK
        /\ MessagesOK /\ SpentOK /\ WithdrawOK /\ TrustIsConsent

-----------------------------------------------------------------------------
(***************************************************************************)
(* The lists and the work of an operation                                  *)
(***************************************************************************)

\* The lists keep their types, and what the operators do to each.
LEMMA Lists ==
  ASSUME NEW s \in TrustState, NEW m \in Node, NEW r \in Request,
         NEW ok \in {"approve", "reject"}
  PROVE  /\ Decided(s, m, ok) \in TrustState
         /\ Decided(s, m, ok).pending = s.pending
         /\ ok = "approve" => /\ Decided(s, m, ok).trusted = s.trusted \cup {m}
                             /\ Decided(s, m, ok).rejected = s.rejected \ {m}
                             /\ Decided(s, m, ok).revoked = s.revoked \ {m}
         /\ ok = "reject" => /\ Decided(s, m, ok).trusted = s.trusted \ {m}
                            /\ Decided(s, m, ok).rejected = s.rejected \cup {m}
                            /\ Decided(s, m, ok).revoked = s.revoked
         /\ Withdrawn(s, m) \in TrustState
         /\ Withdrawn(s, m).trusted = s.trusted \ {m}
         /\ Withdrawn(s, m).rejected = s.rejected
         /\ Withdrawn(s, m).revoked = s.revoked \cup {m}
         /\ Withdrawn(s, m).pending = {q \in s.pending : m \notin {q.from, q.to}}
         /\ Waiting(s, r) \in TrustState
         /\ Waiting(s, r).trusted = s.trusted /\ Waiting(s, r).rejected = s.rejected
         /\ Waiting(s, r).revoked = s.revoked
         /\ Waiting(s, r).pending = s.pending \cup {r}
<1>1. CASE ok = "approve"
  BY <1>1 DEF Decided, Granted, Withdrawn, Waiting, TrustState
<1>2. CASE ok = "reject"
  BY <1>2 DEF Decided, Denied, Withdrawn, Waiting, TrustState
<1> QED BY <1>1, <1>2

LEMMA SettledList ==
  ASSUME NEW s \in TrustState, NEW r \in Request
  PROVE  /\ Settled(s, r) \in TrustState
         /\ Settled(s, r).trusted = s.trusted /\ Settled(s, r).rejected = s.rejected
         /\ Settled(s, r).revoked = s.revoked
         /\ Settled(s, r).pending = s.pending \ {r}
BY DEF Settled, TrustState

\* The work of an operation, of which only that of a revocation is marked so.
LEMMA Work ==
  ASSUME NEW m \in Node, NEW status \in Status, NEW work,
         \/ work = SaveThenMark(m, status)
         \/ work = MarkThenSave(m, status)
         \/ work = TrySaveThenMark(m, status)
  PROVE  /\ work \in Seq(Effect) /\ Len(work) = 2
         /\ \A i \in 1..Len(work) : work[i].peer = m /\ work[i].trust = status
<1> DEFINE e(do) == Do(do, m, status)
<1>1. \A do \in {"save", "trySave", "mark"} :
        e(do) \in Effect /\ e(do).peer = m /\ e(do).trust = status
  BY DEF Do, Effect
<1>2. PICK d1, d2 \in {"save", "trySave", "mark"} : work = <<e(d1), e(d2)>>
  BY DEF SaveThenMark, TrySaveThenMark, MarkThenSave
<1> HIDE DEF e
<1> QED BY <1>1, <1>2

\* What is left of the work after its first step.
LEMMA Rest ==
  ASSUME NEW S, NEW s \in Seq(S), s # <<>>
  PROVE  /\ Head(s) \in S /\ Head(s) = s[1] /\ 1 \in 1..Len(s)
         /\ Tail(s) \in Seq(S) /\ Len(s) \in Nat /\ Len(Tail(s)) = Len(s) - 1
         /\ \A i \in 1..Len(Tail(s)) : i + 1 \in 1..Len(s) /\ Tail(s)[i] = s[i + 1]
OBVIOUS

\* The end of a queue after an append.
LEMMA Grown ==
  ASSUME NEW S, NEW s \in Seq(S), NEW e \in S
  PROVE  /\ Append(s, e) \in Seq(S) /\ Len(s) \in Nat /\ Len(Append(s, e)) = Len(s) + 1
         /\ Append(s, e)[Len(s) + 1] = e
         /\ \A i \in 1..Len(s) : Append(s, e)[i] = s[i]
         /\ \A i \in 1..(Len(s) + 1) : i = Len(s) + 1 \/ i \in 1..Len(s)
OBVIOUS

-----------------------------------------------------------------------------
(***************************************************************************)
(* Types                                                                   *)
(***************************************************************************)
TInv == TypeOK /\ IsFiniteSet(asked)

\* An operation begins with a well-typed state and work.
LEMMA BeginTyped ==
  ASSUME TypeOK, NEW n \in Node, NEW state \in TrustState, NEW work \in Seq(Effect),
         Begin(n, state, work)
  PROVE  /\ store' \in [Node -> TrustState] /\ disk' \in [Node -> TrustState]
         /\ todo' \in [Node -> Seq(Effect)]
BY DEF Begin, TypeOK

\* Actions that leave the trust state, the queues and the history alone.
LEMMA QuietTyped ==
  ASSUME TInv, NEW n \in Node, NEW m \in Node,
         \/ Ask(n, m) \/ RequestRefused(n, m) \/ AnnounceKnown(n, m) \/ AnnounceRead(n, m)
         \/ Depart(n, m) \/ \E x \in reading[n] : AnnounceInsert(n, x)
  PROVE  TInv'
<1> USE TrustAssumption DEF TInv, TypeOK, trustState, registry, history, bounds, wire
<1>1. CASE Ask(n, m)
  BY <1>1 DEF Ask
<1>2. CASE RequestRefused(n, m)
  BY <1>2 DEF RequestRefused
<1>3. CASE AnnounceKnown(n, m)
  BY <1>3 DEF AnnounceKnown, vars
<1>4. CASE AnnounceRead(n, m)
  <2>1. \A trust \in {Persisted(disk[n], m), "none"} :
          [peer |-> m, trust |-> trust] \in [peer : Node, trust : Status]
    BY DEF Persisted, Status
  <2> QED BY <1>4, <2>1 DEF AnnounceRead
<1>5. CASE Depart(n, m)
  <2>1. upsets' \in 0..MaxUpsets
    BY <1>5 DEF Depart
  <2>2. peers' \in [Node -> [Node -> Status \cup {"absent"}]]
    BY <1>5 DEF Depart
  <2> QED BY <1>5, <2>1, <2>2 DEF Depart
<1>6. ASSUME NEW x \in reading[n], AnnounceInsert(n, x)
      PROVE  TInv'
  <2>1. x.peer \in Node /\ x.trust \in Status
    BY SMTT(30)
  <2>2. peers' \in [Node -> [Node -> Status \cup {"absent"}]]
    BY <1>6, <2>1 DEF AnnounceInsert
  <2>3. reading' \in [Node -> SUBSET [peer : Node, trust : Status]]
    BY <1>6 DEF AnnounceInsert
  <2>4. stale' \subseteq Node \X Node
    <3>1. stale' = stale \/ stale' = stale \cup {<<n, x.peer>>}
      BY <1>6 DEF AnnounceInsert
    <3>2. stale \subseteq Node \X Node /\ <<n, x.peer>> \in Node \X Node
      BY <2>1
    <3> QED BY ONLY <3>1, <3>2
  <2> QED BY <1>6, <2>2, <2>3, <2>4 DEF AnnounceInsert
<1> QED BY <1>1, <1>2, <1>3, <1>4, <1>5, <1>6

\* The steps that do what is left of an operation.
LEMMA RestTyped ==
  ASSUME TInv, NEW n \in Node, Mark(n) \/ Save(n) \/ SaveFails(n)
  PROVE  TInv'
<1> USE TrustAssumption DEF TInv, TypeOK, trustState, registry, history, bounds, wire
<1>1. todo[n] # <<>> /\ todo[n] \in Seq(Effect)
  BY DEF Mark, Save, SaveFails
<1>2. /\ Head(todo[n]) \in Effect /\ Tail(todo[n]) \in Seq(Effect)
      /\ Head(todo[n]).peer \in Node /\ Head(todo[n]).trust \in Status
  <2>1. Head(todo[n]) \in Effect /\ Tail(todo[n]) \in Seq(Effect)
    BY <1>1, Rest
  <2> QED BY <2>1 DEF Effect
<1>3. CASE Mark(n)
  <2>1. peers' \in [Node -> [Node -> Status \cup {"absent"}]]
    BY <1>2, <1>3 DEF Mark
  <2>2. todo' \in [Node -> Seq(Effect)] /\ stale' \subseteq Node \X Node
    BY <1>2, <1>3 DEF Mark
  <2> QED BY <1>3, <2>1, <2>2 DEF Mark
<1>4. CASE Save(n)
  <2>1. disk' \in [Node -> TrustState]
    BY <1>4 DEF Save, Saved
  <2>2. todo' \in [Node -> Seq(Effect)]
    BY <1>2, <1>4 DEF Save
  <2>3. Between(n, Head(todo[n]).peer) \subseteq Request
    BY DEF Between, Answer
  <2>4. spent' \in [Node -> SUBSET Request]
    BY <1>4, <2>3 DEF Save
  <2> QED BY <1>4, <2>1, <2>2, <2>4 DEF Save
<1>5. CASE SaveFails(n)
  <2>1. disk' \in [Node -> TrustState]
    BY <1>5 DEF SaveFails, Saved
  <2>2. todo' \in [Node -> Seq(Effect)]
    BY <1>2, <1>5 DEF SaveFails
  <2>3. stale' \subseteq Node \X Node
    BY SMTT(30), <1>2, <1>5 DEF SaveFails
  <2>4. upsets' \in 0..MaxUpsets
    BY <1>5 DEF SaveFails
  <2> QED BY <1>5, <2>1, <2>2, <2>3, <2>4 DEF SaveFails
<1> QED BY <1>3, <1>4, <1>5

\* A message leaves its queue.
LEMMA TakeTyped ==
  ASSUME TypeOK, NEW n \in Node
  PROVE  /\ TakeRequest(n) => /\ requests' \in [Node -> Seq(Request)]
                             /\ Head(requests[n]) \in Request
         /\ TakeResponse(n) => /\ responses' \in [Node -> Seq(Answer)]
                              /\ Head(responses[n]) \in Answer
         /\ TakeRevoke(n) => /\ revocations' \in [Node -> Seq(Node)]
                            /\ Head(revocations[n]) \in Node
<1>1. /\ requests[n] = <<>> => ~TakeRequest(n)
      /\ responses[n] = <<>> => ~TakeResponse(n)
      /\ revocations[n] = <<>> => ~TakeRevoke(n)
  BY DEF TakeRequest, TakeResponse, TakeRevoke
<1>2. /\ TakeRequest(n) => /\ requests' \in [Node -> Seq(Request)]
                           /\ Head(requests[n]) \in Request
  <2>1. CASE requests[n] = <<>>
    BY <2>1, <1>1
  <2>2. CASE requests[n] # <<>>
    <3>1. requests[n] \in Seq(Request)
      BY DEF TypeOK
    <3>2. Head(requests[n]) \in Request /\ Tail(requests[n]) \in Seq(Request)
      BY <2>2, <3>1, Rest
    <3> QED BY <3>2 DEF TypeOK, TakeRequest
  <2> QED BY <2>1, <2>2
<1>3. /\ TakeResponse(n) => /\ responses' \in [Node -> Seq(Answer)]
                            /\ Head(responses[n]) \in Answer
  <2>1. CASE responses[n] = <<>>
    BY <2>1, <1>1
  <2>2. CASE responses[n] # <<>>
    <3>1. responses[n] \in Seq(Answer)
      BY DEF TypeOK
    <3>2. Head(responses[n]) \in Answer /\ Tail(responses[n]) \in Seq(Answer)
      BY <2>2, <3>1, Rest
    <3> QED BY <3>2 DEF TypeOK, TakeResponse
  <2> QED BY <2>1, <2>2
<1>4. /\ TakeRevoke(n) => /\ revocations' \in [Node -> Seq(Node)]
                          /\ Head(revocations[n]) \in Node
  <2>1. CASE revocations[n] = <<>>
    BY <2>1, <1>1
  <2>2. CASE revocations[n] # <<>>
    <3>1. revocations[n] \in Seq(Node)
      BY DEF TypeOK
    <3>2. Head(revocations[n]) \in Node /\ Tail(revocations[n]) \in Seq(Node)
      BY <2>2, <3>1, Rest
    <3> QED BY <3>2 DEF TypeOK, TakeRevoke
  <2> QED BY <2>1, <2>2
<1> QED BY <1>2, <1>3, <1>4

\* An answer, whether the operator's or the automatic one.
LEMMA RespondTyped ==
  ASSUME TInv, NEW n \in Node, NEW r \in Request, NEW ok \in {"approve", "reject"},
         Respond(n, r, ok), requests' \in [Node -> Seq(Request)]
  PROVE  TInv'
<1>1. r.from \in Node /\ [req |-> r, ok |-> ok] \in Answer /\ Verdict(ok) \in Status
  BY DEF Request, Answer, Verdict, Status
<1>2. Settled(Decided(store[n], r.from, ok), r) \in TrustState
  <2>1. store[n] \in TrustState
    BY DEF TInv, TypeOK
  <2>2. Decided(store[n], r.from, ok) \in TrustState
    BY <1>1, <2>1, Lists
  <2> QED BY <2>2, SettledList
<1>3. MarkThenSave(r.from, Verdict(ok)) \in Seq(Effect)
  BY <1>1, Work
<1>4. Begin(n, Settled(Decided(store[n], r.from, ok), r), MarkThenSave(r.from, Verdict(ok)))
  BY DEF Respond
<1>5. /\ store' \in [Node -> TrustState] /\ disk' \in [Node -> TrustState]
      /\ todo' \in [Node -> Seq(Effect)]
  BY <1>2, <1>3, <1>4, BeginTyped DEF TInv
<1>6. responses' \in [Node -> Seq(Answer)] /\ answers' \subseteq Answer
  <2>1. responses[r.from] \in Seq(Answer)
    BY <1>1 DEF TInv, TypeOK
  <2>2. Append(responses[r.from], [req |-> r, ok |-> ok]) \in Seq(Answer)
    BY <1>1, <2>1, Grown
  <2> QED BY <1>1, <2>2 DEF TInv, TypeOK, Respond
<1> QED BY <1>5, <1>6 DEF TInv, TypeOK, Respond, registry, bounds

\* The calls that publish.
LEMMA CallsTyped ==
  ASSUME TInv, NEW n \in Node, NEW m \in Node, RequestTrust(n, m) \/ Revoke(n, m)
  PROVE  TInv'
<1>1. store[n] \in TrustState
  BY DEF TInv, TypeOK
<1>2. CASE RequestTrust(n, m)
  <2> DEFINE r == [id |-> Cardinality(asked) + 1, from |-> n, to |-> m]
  <2>1. r \in Request /\ "pending" \in Status
    <3>1. Cardinality(asked) \in Nat
      BY FS_CardinalityType DEF TInv
    <3>2. Cardinality(asked) + 1 <= MaxRequests
      BY <1>2 DEF RequestTrust
    <3> QED BY <3>1, <3>2, TrustAssumption DEF Request, Status
  <2>2. /\ Begin(n, Waiting(store[n], r), SaveThenMark(m, "pending"))
        /\ requests' = [requests EXCEPT ![m] = Append(@, r)]
        /\ asked' = asked \cup {r}
    BY <1>2 DEF RequestTrust
  <2> HIDE DEF r
  <2>3. Waiting(store[n], r) \in TrustState /\ SaveThenMark(m, "pending") \in Seq(Effect)
    <3>1. Waiting(store[n], r) \in TrustState
      BY <1>1, <2>1, Lists
    <3>2. SaveThenMark(m, "pending") \in Seq(Effect)
      BY <2>1, Work
    <3> QED BY <3>1, <3>2
  <2>4. /\ store' \in [Node -> TrustState] /\ disk' \in [Node -> TrustState]
        /\ todo' \in [Node -> Seq(Effect)]
    BY <2>2, <2>3, BeginTyped DEF TInv
  <2>5. requests' \in [Node -> Seq(Request)]
    <3>1. requests[m] \in Seq(Request)
      BY DEF TInv, TypeOK
    <3>2. Append(requests[m], r) \in Seq(Request)
      BY <2>1, <3>1, Grown
    <3> QED BY <2>2, <3>2 DEF TInv, TypeOK
  <2>6. asked' \subseteq Request /\ IsFiniteSet(asked')
    <3>1. IsFiniteSet(asked')
      BY <2>2, FS_AddElement DEF TInv
    <3> QED BY <2>1, <2>2, <3>1 DEF TInv, TypeOK
  <2>7. asking' \in [Node -> SUBSET Node]
    BY <1>2 DEF RequestTrust, TInv, TypeOK
  <2> QED BY <1>2, <2>4, <2>5, <2>6, <2>7 DEF RequestTrust, TInv, TypeOK, registry, bounds
<1>3. CASE Revoke(n, m)
  <2>1. "revoked" \in Status
    BY DEF Status
  <2>2. Withdrawn(store[n], m) \in TrustState /\ SaveThenMark(m, "revoked") \in Seq(Effect)
    <3>1. Withdrawn(store[n], m) \in TrustState
      BY <1>1 DEF Withdrawn, TrustState
    <3>2. SaveThenMark(m, "revoked") \in Seq(Effect)
      BY <2>1, Work
    <3> QED BY <3>1, <3>2
  <2>3. Begin(n, Withdrawn(store[n], m), SaveThenMark(m, "revoked"))
    BY <1>3 DEF Revoke
  <2>4. /\ store' \in [Node -> TrustState] /\ disk' \in [Node -> TrustState]
        /\ todo' \in [Node -> Seq(Effect)]
    BY <2>2, <2>3, BeginTyped DEF TInv
  <2>5. revocations' \in [Node -> Seq(Node)]
    <3>1. revocations[m] \in Seq(Node)
      BY DEF TInv, TypeOK
    <3>2. Append(revocations[m], n) \in Seq(Node)
      BY <3>1, Grown
    <3> QED BY <1>3, <3>2 DEF Revoke, TInv, TypeOK
  <2>6. revokes' \in 0..MaxRevokes
    BY <1>3, TrustAssumption DEF Revoke, TInv, TypeOK
  <2> QED BY <1>3, <2>4, <2>5, <2>6 DEF Revoke, TInv, TypeOK, registry, history
<1> QED BY <1>2, <1>3

\* What happens to messages.
LEMMA MessagesTyped ==
  ASSUME TInv, NEW n \in Node,
         \/ Lose(n) \/ Discard(n)
         \/ HandleTrustRequest(n) \/ HandleTrustResponse(n) \/ HandleTrustRevoke(n)
  PROVE  TInv'
<1>1. /\ TakeRequest(n) => requests' \in [Node -> Seq(Request)] /\ Head(requests[n]) \in Request
      /\ TakeResponse(n) => responses' \in [Node -> Seq(Answer)] /\ Head(responses[n]) \in Answer
      /\ TakeRevoke(n) => revocations' \in [Node -> Seq(Node)] /\ Head(revocations[n]) \in Node
  BY TakeTyped DEF TInv
<1>2. store[n] \in TrustState /\ {"none", "pending", "trusted", "rejected", "revoked"} = Status
  BY DEF TInv, TypeOK, Status
<1>3. CASE Lose(n)
  <2>1. upsets' \in 0..MaxUpsets
    BY <1>3, TrustAssumption DEF Lose, TInv, TypeOK
  <2>2. /\ requests' \in [Node -> Seq(Request)] /\ responses' \in [Node -> Seq(Answer)]
        /\ revocations' \in [Node -> Seq(Node)]
    BY <1>1, <1>3 DEF Lose, TInv, TypeOK, TakeResponse, TakeRevoke
  <2> QED BY <1>3, <2>1, <2>2 DEF Lose, TInv, TypeOK, trustState, registry, history
<1>4. CASE Discard(n)
  <2>1. /\ requests' \in [Node -> Seq(Request)] /\ responses' \in [Node -> Seq(Answer)]
        /\ revocations' \in [Node -> Seq(Node)]
    BY <1>1, <1>4 DEF Discard, TInv, TypeOK, TakeResponse, TakeRevoke
  <2> QED BY <1>4, <2>1 DEF Discard, TInv, TypeOK, trustState, registry, history, bounds
<1>5. CASE HandleTrustRequest(n)
  <2> DEFINE r == Head(requests[n])
  <2>1. r \in Request /\ requests' \in [Node -> Seq(Request)]
    BY <1>1, <1>5 DEF HandleTrustRequest
  <2>2. \/ Respond(n, r, "approve")
        \/ /\ Begin(n, Waiting(store[n], r), SaveThenMark(r.from, "pending"))
           /\ UNCHANGED <<responses, revocations, registry, asking, history, bounds>>
    BY <1>5 DEF HandleTrustRequest
  <2> HIDE DEF r
  <2>3. CASE Respond(n, r, "approve")
    BY <2>1, <2>3, RespondTyped
  <2>4. CASE /\ Begin(n, Waiting(store[n], r), SaveThenMark(r.from, "pending"))
             /\ UNCHANGED <<responses, revocations, registry, asking, history, bounds>>
    <3>1. r.from \in Node
      BY <2>1 DEF Request
    <3>2. Waiting(store[n], r) \in TrustState
      BY <1>2, <2>1, <3>1, Lists
    <3>3. SaveThenMark(r.from, "pending") \in Seq(Effect)
      BY <1>2, <3>1, Work
    <3>4. /\ store' \in [Node -> TrustState] /\ disk' \in [Node -> TrustState]
          /\ todo' \in [Node -> Seq(Effect)]
      BY <2>4, <3>2, <3>3, BeginTyped DEF TInv
    <3> QED BY <2>1, <2>4, <3>4 DEF TInv, TypeOK, registry, history, bounds
  <2> QED BY <2>2, <2>3, <2>4
<1>6. CASE HandleTrustResponse(n)
  <2> DEFINE q == Head(responses[n]).req
             ok == Head(responses[n]).ok
             state == Settled(Decided(store[n], q.to, ok), q)
             work == MarkThenSave(q.to, Verdict(ok))
  <2>1. /\ q \in Request /\ q.to \in Node /\ ok \in {"approve", "reject"}
        /\ responses' \in [Node -> Seq(Answer)]
    BY <1>1, <1>6 DEF HandleTrustResponse, Answer, Request
  <2>2. Begin(n, state, work)
    BY <1>6 DEF HandleTrustResponse
  <2>3. state \in TrustState
    <3> HIDE DEF q, ok
    <3>1. Decided(store[n], q.to, ok) \in TrustState
      BY <1>2, <2>1, Lists
    <3> QED BY <2>1, <3>1, SettledList
  <2>4. work \in Seq(Effect)
    <3>1. Verdict(ok) \in Status
      BY <1>2 DEF Verdict
    <3> HIDE DEF q, ok
    <3> QED BY <2>1, <3>1, Work
  <2>5. /\ store' \in [Node -> TrustState] /\ disk' \in [Node -> TrustState]
        /\ todo' \in [Node -> Seq(Effect)]
    <3> HIDE DEF state, work
    <3> QED BY <2>2, <2>3, <2>4, BeginTyped DEF TInv
  <2> QED BY <1>6, <2>1, <2>5 DEF HandleTrustResponse, TakeResponse, TInv, TypeOK, registry,
                                  history, bounds
<1>7. CASE HandleTrustRevoke(n)
  <2> DEFINE m == Head(revocations[n])
             work == TrySaveThenMark(m, "revoked")
  <2>1. m \in Node /\ revocations' \in [Node -> Seq(Node)]
    BY <1>1, <1>7 DEF HandleTrustRevoke
  <2>2. Begin(n, Withdrawn(store[n], m), work)
    BY <1>7 DEF HandleTrustRevoke
  <2> HIDE DEF m
  <2>3. Withdrawn(store[n], m) \in TrustState
    BY <1>2, <2>1 DEF Withdrawn, TrustState
  <2>4. work \in Seq(Effect)
    <3>1. "revoked" \in Status
      BY <1>2
    <3> QED BY <2>1, <3>1, Work
  <2>5. /\ store' \in [Node -> TrustState] /\ disk' \in [Node -> TrustState]
        /\ todo' \in [Node -> Seq(Effect)]
    <3> HIDE DEF work
    <3> QED BY <2>2, <2>3, <2>4, BeginTyped DEF TInv
  <2> USE DEF m
  <2> QED BY <1>7, <2>1, <2>5 DEF HandleTrustRevoke, TakeRevoke, TInv, TypeOK, registry,
                                  history, bounds
<1> QED BY <1>3, <1>4, <1>5, <1>6, <1>7

LEMMA RestartTyped ==
  ASSUME TInv, NEW n \in Node, Restart(n)
  PROVE  TInv'
<1>1. /\ requests' \in [Node -> Seq(Request)] /\ responses' \in [Node -> Seq(Answer)]
      /\ revocations' \in [Node -> Seq(Node)] /\ todo' \in [Node -> Seq(Effect)]
  BY DEF Restart, TInv, TypeOK
<1>2. store' \in [Node -> TrustState] /\ upsets' \in 0..MaxUpsets
  BY TrustAssumption DEF Restart, TInv, TypeOK
<1>3. peers' \in [Node -> [Node -> Status \cup {"absent"}]]
  BY DEF Restart, TInv, TypeOK
<1> QED BY <1>1, <1>2, <1>3 DEF Restart, TInv, TypeOK

\* Every step keeps the types.
LEMMA TypeStep ==
  ASSUME TInv, [Next]_vars
  PROVE  TInv'
<1>1. CASE UNCHANGED vars
  BY <1>1 DEF vars, trustState, registry, wire, history, bounds, TInv, TypeOK
<1>2. ASSUME NEW n \in Node, NEW r \in store[n].pending, NEW ok \in {"approve", "reject"},
             Decide(n, r, ok)
      PROVE  TInv'
  <2>1. r \in Request
    BY DEF TInv, TypeOK, TrustState
  <2>2. Respond(n, r, ok) /\ requests' \in [Node -> Seq(Request)]
    BY <1>2 DEF Decide, TInv, TypeOK
  <2> QED BY <2>1, <2>2, RespondTyped
<1>3. CASE Next
  BY <1>2, <1>3, RestTyped, RestartTyped, MessagesTyped, QuietTyped, CallsTyped DEF Next
<1> QED BY <1>1, <1>3

LEMMA TypeInit == Init => TInv
<1> SUFFICES ASSUME Init PROVE TInv
  OBVIOUS
<1>1. Empty \in TrustState
  BY DEF Empty, TrustState
<1>2. IsFiniteSet({})
  BY FS_EmptySet
<1> QED BY <1>1, <1>2, TrustAssumption DEF Init, TInv, TypeOK, Status

\* TypeOK holds of every behaviour: the services, the file, the registry and the
\* subscriptions of service.go keep their types.
THEOREM Typing == Spec => []TypeOK
<1>1. Init => TInv
  BY TypeInit
<1>2. TInv /\ [Next]_vars => TInv'
  BY TypeStep
<1>3. TInv => TypeOK
  BY DEF TInv
<1> QED BY <1>1, <1>2, <1>3, PTL DEF Spec

-----------------------------------------------------------------------------
(***************************************************************************)
(* What a step does to the trust state                                     *)
(***************************************************************************)

\* Begin changes one Bot.
LEMMA BeginEffect ==
  ASSUME TypeOK, NEW n \in Node, NEW state, NEW work, Begin(n, state, work)
  PROVE  /\ store'[n] = state /\ todo'[n] = work /\ disk' = disk
         /\ \A k \in Node \ {n} : store'[k] = store[k] /\ todo'[k] = todo[k]
BY DEF Begin, TypeOK

\* The operations, by what they make of the trust state of one Bot.
LEMMA Operations ==
  ASSUME TInv, NEW n \in Node, NEW m \in Node,
         \/ RequestTrust(n, m) \/ Revoke(n, m)
         \/ \E r \in store[n].pending, ok \in {"approve", "reject"} : Decide(n, r, ok)
         \/ HandleTrustRequest(n) \/ HandleTrustResponse(n) \/ HandleTrustRevoke(n)
  PROVE  \/ \E r \in Request, k \in Node :
              Begin(n, Waiting(store[n], r), SaveThenMark(k, "pending"))
         \/ \E k \in Node : \E work :
              /\ work \in {SaveThenMark(k, "revoked"), TrySaveThenMark(k, "revoked")}
              /\ Begin(n, Withdrawn(store[n], k), work)
         \/ \E r \in Request, k \in Node, ok \in {"approve", "reject"} :
              Begin(n, Settled(Decided(store[n], k, ok), r), MarkThenSave(k, Verdict(ok)))
<1>1. /\ TakeRequest(n) => Head(requests[n]) \in Request
      /\ TakeResponse(n) => Head(responses[n]) \in Answer
      /\ TakeRevoke(n) => Head(revocations[n]) \in Node
  BY TakeTyped DEF TInv
<1>2. ASSUME NEW r \in Request, NEW ok \in {"approve", "reject"}, Respond(n, r, ok)
      PROVE  \E k \in Node :
               Begin(n, Settled(Decided(store[n], k, ok), r), MarkThenSave(k, Verdict(ok)))
  BY <1>2 DEF Respond, Request
<1>3. CASE RequestTrust(n, m)
  <2> DEFINE r == [id |-> Cardinality(asked) + 1, from |-> n, to |-> m]
  <2>1. r \in Request
    <3>1. Cardinality(asked) \in Nat
      BY FS_CardinalityType DEF TInv
    <3>2. Cardinality(asked) + 1 <= MaxRequests
      BY <1>3 DEF RequestTrust
    <3> QED BY <3>1, <3>2, TrustAssumption DEF Request
  <2>2. Begin(n, Waiting(store[n], r), SaveThenMark(m, "pending"))
    BY <1>3 DEF RequestTrust
  <2> HIDE DEF r
  <2> QED BY <2>1, <2>2
<1>4. CASE Revoke(n, m)
  BY <1>4 DEF Revoke
<1>5. ASSUME NEW r \in store[n].pending, NEW ok \in {"approve", "reject"}, Decide(n, r, ok)
      PROVE  \E q \in Request, k \in Node :
               Begin(n, Settled(Decided(store[n], k, ok), q), MarkThenSave(k, Verdict(ok)))
  <2>1. r \in Request /\ Respond(n, r, ok)
    BY <1>5 DEF Decide, TInv, TypeOK, TrustState
  <2> QED BY <2>1, <1>2
<1>6. CASE HandleTrustRequest(n)
  <2> DEFINE r == Head(requests[n])
  <2>1. r \in Request
    BY <1>1, <1>6 DEF HandleTrustRequest
  <2>2. \/ Respond(n, r, "approve")
        \/ Begin(n, Waiting(store[n], r), SaveThenMark(r.from, "pending"))
    BY <1>6 DEF HandleTrustRequest
  <2> HIDE DEF r
  <2>3. r.from \in Node
    BY <2>1 DEF Request
  <2> QED BY <2>1, <2>2, <2>3, <1>2
<1>7. CASE HandleTrustResponse(n)
  <2> DEFINE a == Head(responses[n])
  <2>1. a.req \in Request /\ a.req.to \in Node /\ a.ok \in {"approve", "reject"}
    BY <1>1, <1>7 DEF HandleTrustResponse, Answer, Request
  <2>2. Begin(n, Settled(Decided(store[n], a.req.to, a.ok), a.req),
              MarkThenSave(a.req.to, Verdict(a.ok)))
    BY <1>7 DEF HandleTrustResponse
  <2> HIDE DEF a
  <2> QED BY <2>1, <2>2
<1>8. CASE HandleTrustRevoke(n)
  <2> DEFINE k == Head(revocations[n])
  <2>1. k \in Node
    BY <1>1, <1>8 DEF HandleTrustRevoke
  <2>2. Begin(n, Withdrawn(store[n], k), TrySaveThenMark(k, "revoked"))
    BY <1>8 DEF HandleTrustRevoke
  <2> HIDE DEF k
  <2> QED BY <2>1, <2>2
<1> QED BY <1>3, <1>4, <1>5, <1>6, <1>7, <1>8

\* Every step is an operation, a step of what is left of one, a restart, or
\* leaves the trust state alone.
LEMMA Steps ==
  ASSUME [Next]_vars
  PROVE  \/ \E n, m \in Node :
              \/ RequestTrust(n, m) \/ Revoke(n, m)
              \/ \E r \in store[n].pending, ok \in {"approve", "reject"} : Decide(n, r, ok)
              \/ HandleTrustRequest(n) \/ HandleTrustResponse(n) \/ HandleTrustRevoke(n)
         \/ \E n \in Node : Mark(n) \/ Save(n) \/ SaveFails(n) \/ Restart(n)
         \/ /\ UNCHANGED <<trustState, asked, answers, spent>>
            /\ \/ UNCHANGED <<requests, responses>>
               \/ \E n \in Node : Lose(n) \/ Discard(n)
<1>1. CASE UNCHANGED vars
  BY <1>1 DEF vars, history, wire
<1>2. ASSUME NEW n \in Node, NEW m \in Node,
             \/ Ask(n, m) \/ RequestRefused(n, m) \/ AnnounceKnown(n, m)
             \/ AnnounceRead(n, m) \/ Depart(n, m) \/ \E x \in reading[n] : AnnounceInsert(n, x)
      PROVE  UNCHANGED <<trustState, asked, answers, spent, requests, responses>>
  BY <1>2 DEF Ask, RequestRefused, AnnounceKnown, AnnounceRead, Depart, AnnounceInsert, vars,
              history, wire
<1>3. ASSUME NEW n \in Node, Lose(n) \/ Discard(n)
      PROVE  UNCHANGED <<trustState, asked, answers, spent>>
  BY <1>3 DEF Lose, Discard, history
<1>4. CASE Next
  BY <1>2, <1>3, <1>4 DEF Next
<1> QED BY <1>1, <1>4

\* Until a revocation is saved and marked, the memory keeps to it.
LEMMA WithdrawStep ==
  ASSUME TInv, WithdrawOK, [Next]_vars
  PROVE  WithdrawOK'
<1>1. ASSUME NEW n \in Node, NEW k \in Node, NEW state, NEW work, NEW status \in Status,
             Begin(n, state, work),
             \A i \in 1..Len(work) : work[i].peer = k /\ work[i].trust = status,
             status = "revoked" => /\ k \notin state.trusted
                                   /\ \A r \in state.pending : k \notin {r.from, r.to}
      PROVE  WithdrawOK'
  <2>1. /\ store'[n] = state /\ todo'[n] = work
        /\ \A j \in Node \ {n} : store'[j] = store[j] /\ todo'[j] = todo[j]
    BY <1>1, BeginEffect DEF TInv
  <2> QED BY <1>1, <2>1 DEF WithdrawOK
<1>2. ASSUME NEW n \in Node, NEW m \in Node,
             \/ RequestTrust(n, m) \/ Revoke(n, m)
             \/ \E r \in store[n].pending, ok \in {"approve", "reject"} : Decide(n, r, ok)
             \/ HandleTrustRequest(n) \/ HandleTrustResponse(n) \/ HandleTrustRevoke(n)
      PROVE  WithdrawOK'
  <2>0. store[n] \in TrustState /\ {"pending", "trusted", "rejected", "revoked"} \subseteq Status
    BY DEF TInv, TypeOK, Status
  <2>1. ASSUME NEW r \in Request, NEW k \in Node,
               Begin(n, Waiting(store[n], r), SaveThenMark(k, "pending"))
        PROVE  WithdrawOK'
    <3>1. \A i \in 1..Len(SaveThenMark(k, "pending")) :
            /\ SaveThenMark(k, "pending")[i].peer = k
            /\ SaveThenMark(k, "pending")[i].trust = "pending"
      BY <2>0, Work
    <3> QED BY <1>1, <2>0, <2>1, <3>1
  <2>2. ASSUME NEW k \in Node, NEW work,
               work \in {SaveThenMark(k, "revoked"), TrySaveThenMark(k, "revoked")},
               Begin(n, Withdrawn(store[n], k), work)
        PROVE  WithdrawOK'
    <3>1. \A i \in 1..Len(work) : work[i].peer = k /\ work[i].trust = "revoked"
      BY <2>0, <2>2, Work
    <3>2. /\ k \notin Withdrawn(store[n], k).trusted
          /\ \A r \in Withdrawn(store[n], k).pending : k \notin {r.from, r.to}
      BY <2>0 DEF Withdrawn, TrustState
    <3> QED BY <1>1, <2>0, <2>2, <3>1, <3>2
  <2>3. ASSUME NEW r \in Request, NEW k \in Node, NEW ok \in {"approve", "reject"},
               Begin(n, Settled(Decided(store[n], k, ok), r), MarkThenSave(k, Verdict(ok)))
        PROVE  WithdrawOK'
    <3>1. Verdict(ok) \in Status /\ Verdict(ok) # "revoked"
      BY <2>0 DEF Verdict
    <3>2. \A i \in 1..Len(MarkThenSave(k, Verdict(ok))) :
            /\ MarkThenSave(k, Verdict(ok))[i].peer = k
            /\ MarkThenSave(k, Verdict(ok))[i].trust = Verdict(ok)
      BY <3>1, Work
    <3> HIDE DEF Verdict
    <3> QED BY <1>1, <2>3, <3>1, <3>2
  <2> QED BY <1>2, <2>1, <2>2, <2>3, Operations
<1>3. ASSUME NEW n \in Node, Mark(n) \/ Save(n) \/ SaveFails(n)
      PROVE  WithdrawOK'
  <2>1. /\ todo[n] # <<>> /\ todo[n] \in Seq(Effect) /\ store' = store
        /\ \/ todo' = [todo EXCEPT ![n] = Tail(@)]
           \/ todo' = [todo EXCEPT ![n] = <<>>]
    BY <1>3 DEF Mark, Save, SaveFails, TInv, TypeOK
  <2>2. \A j \in Node \ {n} : todo'[j] = todo[j]
    BY <2>1 DEF TInv, TypeOK
  <2>3. \/ todo'[n] = Tail(todo[n])
        \/ todo'[n] = <<>>
    BY <2>1 DEF TInv, TypeOK
  <2>4. \A i \in 1..Len(todo'[n]) : \E j \in 1..Len(todo[n]) : todo'[n][i] = todo[n][j]
    <3>1. \A i \in 1..Len(Tail(todo[n])) :
            i + 1 \in 1..Len(todo[n]) /\ Tail(todo[n])[i] = todo[n][i + 1]
      BY <2>1, Rest
    <3>2. CASE todo'[n] = Tail(todo[n])
      BY <3>1, <3>2
    <3>3. CASE todo'[n] = <<>>
      BY <3>3
    <3> QED BY <2>3, <3>2, <3>3
  <2> QED BY <2>1, <2>2, <2>4 DEF WithdrawOK
<1>4. ASSUME NEW n \in Node, Restart(n)
      PROVE  WithdrawOK'
  <2>1. /\ todo'[n] = <<>>
        /\ \A j \in Node \ {n} : todo'[j] = todo[j] /\ store'[j] = store[j]
    BY <1>4 DEF Restart, TInv, TypeOK
  <2> QED BY <2>1 DEF WithdrawOK
<1>5. CASE UNCHANGED trustState
  BY <1>5 DEF trustState, WithdrawOK
<1> QED BY <1>2, <1>3, <1>4, <1>5, Steps

\* Between operations and within them, no peer is trusted and refused at once.
LEMMA ExclusionStep ==
  ASSUME TInv, TrustExcludesRefusal, [Next]_vars
  PROVE  TrustExcludesRefusal'
<1> DEFINE Apart(s) == s.trusted \cap (s.rejected \cup s.revoked) = {}
<1>0. \A n \in Node : Apart(store[n]) /\ Apart(disk[n])
  BY DEF TrustExcludesRefusal
<1>1. SUFFICES \A n \in Node : Apart(store'[n]) /\ Apart(disk'[n])
  BY DEF TrustExcludesRefusal
<1>2. ASSUME NEW n \in Node, NEW state, NEW work, Begin(n, state, work), Apart(state)
      PROVE  \A k \in Node : Apart(store'[k]) /\ Apart(disk'[k])
  <2>1. /\ store'[n] = state /\ disk' = disk
        /\ \A j \in Node \ {n} : store'[j] = store[j]
    BY <1>2, BeginEffect DEF TInv
  <2> HIDE DEF Apart
  <2> QED BY <1>0, <1>2, <2>1
<1>3. ASSUME NEW n \in Node, NEW m \in Node,
             \/ RequestTrust(n, m) \/ Revoke(n, m)
             \/ \E r \in store[n].pending, ok \in {"approve", "reject"} : Decide(n, r, ok)
             \/ HandleTrustRequest(n) \/ HandleTrustResponse(n) \/ HandleTrustRevoke(n)
      PROVE  \A k \in Node : Apart(store'[k]) /\ Apart(disk'[k])
  <2>0. store[n] \in TrustState
    BY DEF TInv, TypeOK
  <2>1. ASSUME NEW r \in Request
        PROVE  Apart(Waiting(store[n], r))
    BY <1>0, <2>0, <2>1 DEF Waiting, TrustState
  <2>2. ASSUME NEW k \in Node
        PROVE  Apart(Withdrawn(store[n], k))
    BY <1>0, <2>0 DEF Withdrawn, TrustState
  <2>3. ASSUME NEW r \in Request, NEW k \in Node, NEW ok \in {"approve", "reject"}
        PROVE  Apart(Settled(Decided(store[n], k, ok), r))
    <3> DEFINE d == Decided(store[n], k, ok)
    <3>1. d \in TrustState /\ Apart(d)
      <4>1. CASE ok = "approve"
        BY <1>0, <2>0, <4>1 DEF Decided, Granted, TrustState
      <4>2. CASE ok = "reject"
        BY <1>0, <2>0, <4>2 DEF Decided, Denied, TrustState
      <4> QED BY <4>1, <4>2
    <3> HIDE DEF d
    <3>2. Apart(Settled(d, r))
      BY <3>1 DEF Settled, TrustState
    <3> QED BY <3>2 DEF d
  <2> HIDE DEF Apart
  <2> QED BY <1>2, <1>3, <2>1, <2>2, <2>3, Operations
<1>4. ASSUME NEW n \in Node, Mark(n) \/ Save(n) \/ SaveFails(n) \/ Restart(n)
      PROVE  \A k \in Node : Apart(store'[k]) /\ Apart(disk'[k])
  <2>1. \/ store' = store /\ disk' = disk
        \/ store' = store /\ disk' = [disk EXCEPT ![n] = store[n]]
        \/ store' = [store EXCEPT ![n] = disk[n]] /\ disk' = disk
    BY <1>4 DEF Mark, Save, SaveFails, Restart, Saved
  <2> HIDE DEF Apart
  <2> QED BY <1>0, <2>1 DEF TInv, TypeOK
<1>5. CASE UNCHANGED trustState
  BY <1>0, <1>5 DEF trustState
<1> HIDE DEF Apart
<1> QED BY <1>3, <1>4, <1>5, Steps

\* In memory and in trust.json a peer is never trusted and refused at once, in
\* whichever order decisions and revocations of both sides arrive (trust/service.go).
THEOREM Exclusion == Spec => []TrustExcludesRefusal
<1>1. Init => TInv /\ TrustExcludesRefusal
  BY TypeInit DEF Init, TrustExcludesRefusal, Empty
<1>2. TInv /\ TrustExcludesRefusal /\ [Next]_vars => (TInv /\ TrustExcludesRefusal)'
  BY TypeStep, ExclusionStep
<1> QED BY <1>1, <1>2, PTL DEF Spec

-----------------------------------------------------------------------------
(***************************************************************************)
(* Names and messages                                                      *)
(***************************************************************************)

\* Nobody finds itself in the registry, so nobody asks itself.
LEMMA SelfStep ==
  ASSUME TInv, SelfOK, [Next]_vars
  PROVE  SelfOK'
<1>0. /\ peers \in [Node -> [Node -> Status \cup {"absent"}]]
      /\ asking \in [Node -> SUBSET Node]
      /\ reading \in [Node -> SUBSET [peer : Node, trust : Status]]
  BY DEF TInv, TypeOK
<1> USE <1>0 DEF SelfOK
<1>1. CASE UNCHANGED vars
  BY <1>1 DEF vars, registry
<1>2. ASSUME NEW n \in Node, NEW m \in Node,
             Ask(n, m) \/ RequestTrust(n, m) \/ RequestRefused(n, m)
      PROVE  SelfOK'
  <2>1. peers' = peers /\ reading' = reading
    BY <1>2 DEF Ask, RequestTrust, RequestRefused, registry
  <2>2. \/ m # n /\ asking' = [asking EXCEPT ![n] = @ \cup {m}]
        \/ asking' = [asking EXCEPT ![n] = @ \ {m}]
    BY <1>2 DEF Ask, RequestTrust, RequestRefused, Known
  <2>3. CASE m # n /\ asking' = [asking EXCEPT ![n] = @ \cup {m}]
    BY <2>1, <2>3
  <2>4. CASE asking' = [asking EXCEPT ![n] = @ \ {m}]
    BY <2>1, <2>4
  <2> QED BY <2>2, <2>3, <2>4
<1>3. ASSUME NEW n \in Node, NEW m \in Node,
             \/ Revoke(n, m) \/ AnnounceKnown(n, m)
             \/ \E r \in store[n].pending, ok \in {"approve", "reject"} : Decide(n, r, ok)
             \/ HandleTrustRequest(n) \/ HandleTrustResponse(n) \/ HandleTrustRevoke(n)
             \/ Lose(n) \/ Discard(n) \/ Save(n) \/ SaveFails(n)
      PROVE  SelfOK'
  <2>1. UNCHANGED <<peers, reading, asking>>
    BY <1>3 DEF Revoke, AnnounceKnown, Decide, Respond, HandleTrustRequest, HandleTrustResponse,
                HandleTrustRevoke, Lose, Discard, Save, SaveFails, registry, vars
  <2> QED BY <2>1
<1>4. ASSUME NEW n \in Node, Mark(n)
      PROVE  SelfOK'
  <2>1. Head(todo[n]).peer \in Node
    <3>1. todo[n] \in Seq(Effect) /\ todo[n] # <<>>
      BY <1>4 DEF Mark, TInv, TypeOK
    <3>2. Head(todo[n]) \in Effect
      BY <3>1, Rest
    <3> QED BY <3>2 DEF Effect
  <2>2. \A k \in Node : peers'[k][k] = peers[k][k]
    BY <1>4, <2>1 DEF Mark, Known
  <2>3. UNCHANGED <<reading, asking>>
    BY <1>4 DEF Mark
  <2> QED BY <2>2, <2>3
<1>5. ASSUME NEW n \in Node, NEW m \in Node, AnnounceRead(n, m)
      PROVE  SelfOK'
  <2>1. peers' = peers /\ asking' = asking
    BY <1>5 DEF AnnounceRead
  <2>2. PICK e : e.peer = m /\ reading' = [reading EXCEPT ![n] = {e}]
    <3>1. PICK trust \in {Persisted(disk[n], m), "none"} :
            reading' = [reading EXCEPT ![n] = {[peer |-> m, trust |-> trust]}]
      BY <1>5 DEF AnnounceRead
    <3> QED BY <3>1
  <2>3. m # n
    BY <1>5 DEF AnnounceRead
  <2> QED BY <2>1, <2>2, <2>3
<1>6. ASSUME NEW n \in Node, NEW m \in Node, Depart(n, m)
      PROVE  SelfOK'
  <2>1. /\ peers' = [peers EXCEPT ![n][m] = "absent"]
        /\ UNCHANGED <<reading, asking>>
    BY <1>6 DEF Depart
  <2> QED BY <2>1
<1>7. ASSUME NEW n \in Node, NEW x \in reading[n], AnnounceInsert(n, x)
      PROVE  SelfOK'
  <2>1. /\ reading' = [reading EXCEPT ![n] = {}] /\ asking' = asking
        /\ x.peer \in Node /\ x.peer # n
    BY <1>7 DEF AnnounceInsert
  <2>2. peers' = peers \/ peers' = [peers EXCEPT ![n][x.peer] = x.trust]
    BY <1>7 DEF AnnounceInsert
  <2>3. CASE peers' = peers
    BY <2>1, <2>3
  <2>4. CASE peers' = [peers EXCEPT ![n][x.peer] = x.trust]
    BY <2>1, <2>4
  <2> QED BY <2>2, <2>3, <2>4
<1>8. ASSUME NEW n \in Node, Restart(n)
      PROVE  SelfOK'
  BY <1>8 DEF Restart
<1>9. CASE Next
  BY <1>2, <1>3, <1>4, <1>5, <1>6, <1>7, <1>8, <1>9 DEF Next
<1> QED BY <1>1, <1>9

\* Requests are made by RequestTrust only.
LEMMA AskedStep ==
  ASSUME [Next]_vars
  PROVE  \/ asked' = asked
         \/ \E n, m \in Node : RequestTrust(n, m)
<1>1. CASE UNCHANGED vars
  BY <1>1 DEF vars, history
<1>2. ASSUME NEW n \in Node, NEW m \in Node,
             \/ Revoke(n, m)
             \/ \E r \in store[n].pending, ok \in {"approve", "reject"} : Decide(n, r, ok)
             \/ HandleTrustRequest(n) \/ HandleTrustResponse(n) \/ HandleTrustRevoke(n)
      PROVE  asked' = asked
  BY <1>2 DEF Revoke, Decide, Respond, HandleTrustRequest, HandleTrustResponse,
              HandleTrustRevoke, history
<1>3. ASSUME NEW n \in Node, Mark(n) \/ Save(n) \/ SaveFails(n) \/ Restart(n)
      PROVE  asked' = asked
  BY <1>3 DEF Mark, Save, SaveFails, Restart
<1> QED BY <1>2, <1>3, Steps

\* Requests are named apart.
LEMMA NamesStep ==
  ASSUME TInv, SelfOK, NamesOK, [Next]_vars
  PROVE  NamesOK'
<1>1. CASE asked' = asked
  BY <1>1 DEF NamesOK
<1>2. ASSUME NEW n \in Node, NEW m \in Node, RequestTrust(n, m)
      PROVE  NamesOK'
  <2> DEFINE r == [id |-> Cardinality(asked) + 1, from |-> n, to |-> m]
  <2>1. asked' = asked \cup {r} /\ n # m /\ r.id = Cardinality(asked) + 1
        /\ r.from # r.to
    BY <1>2 DEF RequestTrust, SelfOK
  <2>2. Cardinality(asked) \in Nat
    BY FS_CardinalityType DEF TInv
  <2>3. r \notin asked
    BY <2>1, <2>2 DEF NamesOK
  <2> HIDE DEF r
  <2>4. Cardinality(asked') = Cardinality(asked) + 1
    BY <2>1, <2>3, FS_AddElement DEF TInv
  <2>5. \A q \in asked : q.id \in Nat
    BY DEF TInv, TypeOK, Request
  <2> QED BY <2>1, <2>2, <2>4, <2>5 DEF NamesOK
<1> QED BY <1>1, <1>2, AskedStep

-----------------------------------------------------------------------------
(***************************************************************************)
(* What a step does to requests, answers, pending requests and trust       *)
(***************************************************************************)
\* A queue that only loses messages.
Kept(old, new) == \/ new = old
                  \/ old # <<>> /\ new = Tail(old)
                  \/ new = <<>>
Elsewhere(n) == \A k \in Node \ {n} : store'[k] = store[k]
NoMore == \A k \in Node : Kept(requests[k], requests'[k]) /\ Kept(responses[k], responses'[k])

\* A new request is sent and waits for its answer.
Asks(n, r) ==
  /\ r \in Request \ asked /\ r.from = n /\ r.to \in Node \ {n}
  /\ asked' = asked \cup {r}
  /\ requests' = [requests EXCEPT ![r.to] = Append(@, r)]
  /\ store'[n].pending = store[n].pending \cup {r}
  /\ store'[n].trusted = store[n].trusted
  /\ Elsewhere(n)
  /\ UNCHANGED <<disk, responses, answers, spent>>

\* A request that arrived waits for its decision.
Waits(n) ==
  /\ requests[n] # <<>>
  /\ requests' = [requests EXCEPT ![n] = Tail(@)]
  /\ store'[n].pending = store[n].pending \cup {Head(requests[n])}
  /\ store'[n].trusted = store[n].trusted
  /\ Elsewhere(n)
  /\ UNCHANGED <<disk, responses, asked, answers, spent>>

\* A request is answered, a pending one or one that just arrived.
AnswersWith(n, a) ==
  /\ a.req.to = n
  /\ \/ a.req \in store[n].pending /\ requests' = requests
     \/ /\ requests[n] # <<>> /\ a.req = Head(requests[n])
        /\ requests' = [requests EXCEPT ![n] = Tail(@)]
  /\ answers' = answers \cup {a}
  /\ responses' = [responses EXCEPT ![a.req.from] = Append(@, a)]
  /\ store'[n].pending = store[n].pending \ {a.req}
  /\ \A k \in store'[n].trusted : k \in store[n].trusted \/ (k = a.req.from /\ a.ok = "approve")
  /\ Elsewhere(n)
  /\ UNCHANGED <<disk, asked, spent>>

\* A response settles a pending request, or a revocation withdraws some.
Settles(n) ==
  /\ requests' = requests /\ NoMore
  /\ store'[n].pending \subseteq store[n].pending
  /\ \A k \in store'[n].trusted :
       \/ k \in store[n].trusted
       \/ /\ responses[n] # <<>> /\ Head(responses[n]).ok = "approve"
          /\ Head(responses[n]).req \in store[n].pending
          /\ Head(responses[n]).req.from = n /\ Head(responses[n]).req.to = k
  /\ Elsewhere(n)
  /\ UNCHANGED <<disk, asked, answers, spent>>

\* What an operation left is done, or the Bot restarts.  Only a saved
\* revocation spends requests, of a peer the Bot keeps nothing of.
Persists(n) ==
  /\ NoMore /\ Elsewhere(n)
  /\ \A k \in Node \ {n} : disk'[k] = disk[k] /\ spent'[k] = spent[k]
  /\ {store'[n], disk'[n]} \subseteq {store[n], disk[n]}
  /\ store'[n] = store[n] \/ n \in reverted'
  /\ \/ spent'[n] = spent[n]
     \/ \E m \in Node :
          /\ spent'[n] = spent[n] \cup Between(n, m)
          /\ {store'[n], disk'[n]} = {store[n]}
          /\ m \notin store[n].trusted
          /\ \A r \in store[n].pending : m \notin {r.from, r.to}
  /\ UNCHANGED <<asked, answers>>

LEMMA WaitingList ==
  ASSUME NEW s \in TrustState, NEW r \in Request
  PROVE  /\ Waiting(s, r).pending = s.pending \cup {r}
         /\ Waiting(s, r).trusted = s.trusted
BY DEF Waiting, TrustState

LEMMA AskEffect ==
  ASSUME TInv, SelfOK, NamesOK, NEW n \in Node, NEW m \in Node, RequestTrust(n, m)
  PROVE  \E r : Asks(n, r)
<1> DEFINE r == [id |-> Cardinality(asked) + 1, from |-> n, to |-> m]
<1>1. n # m
  BY DEF RequestTrust, SelfOK
<1>2. r \notin asked
  <2>1. Cardinality(asked) \in Nat
    BY FS_CardinalityType DEF TInv
  <2> QED BY <2>1 DEF NamesOK
<1>3. r \in Request
  BY FS_CardinalityType, TrustAssumption DEF TInv, RequestTrust, Request
<1>4. Begin(n, Waiting(store[n], r), SaveThenMark(m, "pending"))
  BY DEF RequestTrust
<1>5. /\ asked' = asked \cup {r} /\ requests' = [requests EXCEPT ![r.to] = Append(@, r)]
      /\ UNCHANGED <<responses, answers, spent>>
  BY DEF RequestTrust
<1>6. r.from = n /\ r.to = m
  OBVIOUS
<1> HIDE DEF r
<1>7. /\ store'[n] = Waiting(store[n], r) /\ disk' = disk /\ Elsewhere(n)
  BY <1>4, BeginEffect DEF TInv, Elsewhere
<1>8. store[n] \in TrustState
  BY DEF TInv, TypeOK
<1>9. /\ Waiting(store[n], r).pending = store[n].pending \cup {r}
      /\ Waiting(store[n], r).trusted = store[n].trusted
  BY <1>3, <1>8, WaitingList
<1> QED BY <1>1, <1>2, <1>3, <1>5, <1>6, <1>7, <1>9 DEF Asks

\* Only an approval adds a peer to those trusted.
LEMMA DecidedList ==
  ASSUME NEW s \in TrustState, NEW m \in Node, NEW ok
  PROVE  /\ Decided(s, m, ok) \in TrustState
         /\ Decided(s, m, ok).pending = s.pending
         /\ \A k \in Decided(s, m, ok).trusted : k \in s.trusted \/ (k = m /\ ok = "approve")
<1>1. CASE ok = "approve"
  BY <1>1 DEF Decided, Granted, TrustState
<1>2. CASE ok # "approve"
  BY <1>2 DEF Decided, Denied, TrustState
<1> QED BY <1>1, <1>2

LEMMA AnswerEffect ==
  ASSUME TInv, NEW n \in Node, NEW r \in Request, NEW ok \in {"approve", "reject"},
         Respond(n, r, ok), r.to = n,
         \/ r \in store[n].pending /\ requests' = requests
         \/ TakeRequest(n) /\ r = Head(requests[n])
  PROVE  \E a \in Answer : AnswersWith(n, a)
<1> DEFINE a == [req |-> r, ok |-> ok]
<1>1. a \in Answer /\ a.req = r /\ a.ok = ok
  BY DEF Answer
<1>2. /\ responses' = [responses EXCEPT ![r.from] = Append(@, a)]
      /\ answers' = answers \cup {a}
      /\ Begin(n, Settled(Decided(store[n], r.from, ok), r),
               MarkThenSave(r.from, Verdict(ok)))
      /\ UNCHANGED <<asked, spent>>
  BY DEF Respond
<1> HIDE DEF a
<1>3. r.from \in Node /\ store[n] \in TrustState
  BY DEF TInv, TypeOK, Request
<1>4. /\ store'[n] = Settled(Decided(store[n], r.from, ok), r)
      /\ disk' = disk /\ Elsewhere(n)
  BY <1>2, BeginEffect DEF TInv, Elsewhere
<1>5. /\ Decided(store[n], r.from, ok) \in TrustState
      /\ Decided(store[n], r.from, ok).pending = store[n].pending
      /\ \A k \in Decided(store[n], r.from, ok).trusted :
           k \in store[n].trusted \/ (k = r.from /\ ok = "approve")
  BY <1>3, DecidedList
<1>6. /\ store'[n].pending = store[n].pending \ {r}
      /\ store'[n].trusted = Decided(store[n], r.from, ok).trusted
  BY <1>4, <1>5, SettledList
<1>7. \/ r \in store[n].pending /\ requests' = requests
      \/ /\ requests[n] # <<>> /\ r = Head(requests[n])
         /\ requests' = [requests EXCEPT ![n] = Tail(@)]
  BY DEF TakeRequest
<1> QED BY <1>1, <1>2, <1>4, <1>5, <1>6, <1>7 DEF AnswersWith

\* A request that arrived is left pending or answered at once.
LEMMA ArrivalEffect ==
  ASSUME TInv, MessagesOK, NEW n \in Node, HandleTrustRequest(n)
  PROVE  Waits(n) \/ \E a \in Answer : AnswersWith(n, a)
<1> DEFINE r == Head(requests[n])
<1>1. /\ TakeRequest(n) /\ requests[n] # <<>>
      /\ requests' = [requests EXCEPT ![n] = Tail(@)]
  BY DEF HandleTrustRequest, TakeRequest
<1>2. r \in Request /\ r.from \in Node /\ r.to = n
  <2>1. requests[n] \in Seq(Request)
    BY DEF TInv, TypeOK
  <2>2. r \in Request /\ r = requests[n][1] /\ 1 \in 1..Len(requests[n])
    BY <1>1, <2>1, Rest
  <2> QED BY <2>2 DEF MessagesOK, OnTheWay, Request
<1>3. \/ Respond(n, r, "approve")
      \/ /\ Begin(n, Waiting(store[n], r), SaveThenMark(r.from, "pending"))
         /\ UNCHANGED <<responses, asked, answers, spent>>
  BY DEF HandleTrustRequest, history
<1>4. r = Head(requests[n])
  OBVIOUS
<1> HIDE DEF r
<1>5. CASE Respond(n, r, "approve")
  BY <1>1, <1>2, <1>4, <1>5, AnswerEffect
<1>6. CASE /\ Begin(n, Waiting(store[n], r), SaveThenMark(r.from, "pending"))
           /\ UNCHANGED <<responses, asked, answers, spent>>
  <2>1. store[n] \in TrustState
    BY DEF TInv, TypeOK
  <2>2. store'[n] = Waiting(store[n], r) /\ disk' = disk /\ Elsewhere(n)
    BY <1>6, BeginEffect DEF TInv, Elsewhere
  <2>3. /\ store'[n].pending = store[n].pending \cup {r}
        /\ store'[n].trusted = store[n].trusted
    BY <1>2, <2>1, <2>2, WaitingList
  <2> QED BY <1>1, <1>4, <1>6, <2>2, <2>3 DEF Waits
<1> QED BY <1>3, <1>5, <1>6

LEMMA DecisionEffect ==
  ASSUME TInv, NEW n \in Node, NEW r \in store[n].pending, NEW ok \in {"approve", "reject"},
         Decide(n, r, ok)
  PROVE  \E a \in Answer : AnswersWith(n, a)
<1>1. r \in Request
  BY DEF TInv, TypeOK, TrustState
<1>2. Respond(n, r, ok) /\ r.to = n /\ requests' = requests
  BY DEF Decide
<1> QED BY <1>1, <1>2, AnswerEffect

LEMMA ResponseEffect ==
  ASSUME TInv, NEW n \in Node, HandleTrustResponse(n)
  PROVE  Settles(n)
<1> DEFINE a == Head(responses[n])
<1>1. /\ responses[n] # <<>> /\ responses' = [responses EXCEPT ![n] = Tail(@)]
      /\ UNCHANGED <<requests, asked, answers, spent>>
  BY DEF HandleTrustResponse, TakeResponse, history
<1>2. a \in Answer /\ a.req \in Request /\ a.req.to \in Node /\ a.ok \in {"approve", "reject"}
  <2>1. responses[n] \in Seq(Answer)
    BY DEF TInv, TypeOK
  <2>2. a \in Answer
    BY <1>1, <2>1, Rest
  <2> QED BY <2>2 DEF Answer, Request
<1>3. /\ a.req \in Outbound(n, a.req.to)
      /\ Begin(n, Settled(Decided(store[n], a.req.to, a.ok), a.req),
               MarkThenSave(a.req.to, Verdict(a.ok)))
  BY DEF HandleTrustResponse
<1>4. a = Head(responses[n])
  OBVIOUS
<1> HIDE DEF a
<1>5. PICK q \in Request, m \in Node, ok \in {"approve", "reject"} :
        q = a.req /\ m = a.req.to /\ ok = a.ok
  BY <1>2
<1>6. store[n] \in TrustState
  BY DEF TInv, TypeOK
<1>7. /\ store'[n] = Settled(Decided(store[n], m, ok), q) /\ disk' = disk /\ Elsewhere(n)
  BY <1>3, <1>5, BeginEffect DEF TInv, Elsewhere
<1>8. /\ Decided(store[n], m, ok) \in TrustState
      /\ Decided(store[n], m, ok).pending = store[n].pending
      /\ \A k \in Decided(store[n], m, ok).trusted :
           k \in store[n].trusted \/ (k = m /\ ok = "approve")
  BY <1>5, <1>6, DecidedList
<1>9. /\ store'[n].pending = store[n].pending \ {q}
      /\ store'[n].trusted = Decided(store[n], m, ok).trusted
  BY <1>7, <1>8, SettledList
<1>10. q \in store[n].pending /\ q.from = n /\ q.to = m
  BY <1>3, <1>5 DEF Outbound
<1>11. NoMore
  <2>1. \A k \in Node : Kept(responses[k], responses'[k])
    BY <1>1 DEF Kept, TInv, TypeOK
  <2> QED BY <1>1, <2>1 DEF NoMore, Kept
<1> QED BY <1>1, <1>4, <1>5, <1>7, <1>8, <1>9, <1>10, <1>11 DEF Settles

LEMMA WithdrawalEffect ==
  ASSUME TInv, NEW n \in Node, NEW m \in Node, Revoke(n, m) \/ HandleTrustRevoke(n)
  PROVE  Settles(n)
<1>1. UNCHANGED <<requests, responses, asked, answers, spent>>
  BY DEF Revoke, HandleTrustRevoke, TakeRevoke, history
<1>2. PICK k \in Node : \E work : Begin(n, Withdrawn(store[n], k), work)
  <2>1. CASE Revoke(n, m)
    BY <2>1 DEF Revoke
  <2>2. CASE HandleTrustRevoke(n)
    <3>1. TakeRevoke(n) => Head(revocations[n]) \in Node
      BY TakeTyped DEF TInv
    <3>2. TakeRevoke(n) /\ \E work : Begin(n, Withdrawn(store[n], Head(revocations[n])), work)
      BY <2>2 DEF HandleTrustRevoke
    <3> QED BY <3>1, <3>2
  <2> QED BY <2>1, <2>2
<1>3. store[n] \in TrustState
  BY DEF TInv, TypeOK
<1>4. store'[n] = Withdrawn(store[n], k) /\ disk' = disk /\ Elsewhere(n)
  BY <1>2, BeginEffect DEF TInv, Elsewhere
<1>5. /\ Withdrawn(store[n], k).trusted \subseteq store[n].trusted
      /\ Withdrawn(store[n], k).pending \subseteq store[n].pending
  BY <1>3 DEF Withdrawn, TrustState
<1>6. NoMore
  BY <1>1 DEF NoMore, Kept
<1> QED BY <1>1, <1>4, <1>5, <1>6 DEF Settles

LEMMA WorkEffect ==
  ASSUME TInv, WithdrawOK, NEW n \in Node, Mark(n) \/ Save(n) \/ SaveFails(n) \/ Restart(n)
  PROVE  Persists(n)
<1>1. UNCHANGED <<asked, answers>>
  BY DEF Mark, Save, SaveFails, Restart
<1>2. NoMore
  <2>1. UNCHANGED <<requests, responses>> => NoMore
    BY DEF NoMore, Kept
  <2>2. Restart(n) => NoMore
    BY DEF Restart, NoMore, Kept, TInv, TypeOK
  <2>3. Mark(n) \/ Save(n) \/ SaveFails(n) => UNCHANGED <<requests, responses>>
    BY DEF Mark, Save, SaveFails, wire
  <2> QED BY <2>1, <2>2, <2>3
<1>3. CASE Mark(n)
  BY <1>1, <1>2, <1>3 DEF Mark, Persists, Elsewhere
<1>4. CASE SaveFails(n)
  <2>1. store' = store /\ spent' = spent /\ (disk' = disk \/ disk' = Saved(n))
    BY <1>4 DEF SaveFails
  <2> QED BY <1>1, <1>2, <2>1 DEF Persists, Elsewhere, Saved, TInv, TypeOK
<1>5. CASE Restart(n)
  <2>1. /\ store' = [store EXCEPT ![n] = disk[n]] /\ UNCHANGED <<disk, spent>>
        /\ disk[n] = store[n] \/ n \in reverted'
    BY <1>5 DEF Restart
  <2> QED BY <1>1, <1>2, <2>1 DEF Persists, Elsewhere, TInv, TypeOK
<1>6. CASE Save(n)
  <2> DEFINE m == Head(todo[n]).peer
  <2>1. /\ store' = store /\ disk' = [disk EXCEPT ![n] = store[n]]
        /\ \/ spent' = spent
           \/ /\ Head(todo[n]).trust = "revoked"
              /\ spent' = [spent EXCEPT ![n] = @ \cup Between(n, m)]
    BY <1>6 DEF Save, Saved
  <2>2. /\ disk'[n] = store[n] /\ Elsewhere(n)
        /\ \A k \in Node \ {n} : disk'[k] = disk[k]
    BY <2>1 DEF Elsewhere, TInv, TypeOK
  <2>3. CASE spent' = spent
    BY <1>1, <1>2, <2>1, <2>2, <2>3 DEF Persists
  <2>4. CASE /\ Head(todo[n]).trust = "revoked"
             /\ spent' = [spent EXCEPT ![n] = @ \cup Between(n, m)]
    <3>1. todo[n] \in Seq(Effect) /\ todo[n] # <<>>
      BY <1>6 DEF Save, TInv, TypeOK
    <3>2. Head(todo[n]) \in Effect /\ Head(todo[n]) = todo[n][1] /\ 1 \in 1..Len(todo[n])
      BY <3>1, Rest
    <3>3. m \in Node
      BY <3>2 DEF Effect
    <3>4. m \notin store[n].trusted /\ \A r \in store[n].pending : m \notin {r.from, r.to}
      BY <2>4, <3>2 DEF WithdrawOK
    <3> HIDE DEF m
    <3>5. /\ spent'[n] = spent[n] \cup Between(n, m)
          /\ \A k \in Node \ {n} : spent'[k] = spent[k]
      BY <2>4 DEF TInv, TypeOK
    <3> QED BY <1>1, <1>2, <2>1, <2>2, <3>3, <3>4, <3>5 DEF Persists
  <2> QED BY <2>1, <2>3, <2>4
<1> QED BY <1>3, <1>4, <1>5, <1>6

\* All that a step may do to what TrustIsConsent speaks of.
LEMMA Effects ==
  ASSUME TInv, SelfOK, NamesOK, MessagesOK, WithdrawOK, [Next]_vars
  PROVE  \/ \E n \in Node : \E r : Asks(n, r)
         \/ \E n \in Node : Waits(n) \/ Settles(n) \/ Persists(n)
         \/ \E n \in Node, a \in Answer : AnswersWith(n, a)
         \/ UNCHANGED <<store, disk, asked, answers, spent>> /\ NoMore
<1>1. ASSUME NEW n \in Node, Lose(n) \/ Discard(n)
      PROVE  NoMore
  BY <1>1 DEF Lose, Discard, TakeRequest, TakeResponse, TakeRevoke, NoMore, Kept, TInv, TypeOK
<1>2. UNCHANGED <<requests, responses>> => NoMore
  BY DEF NoMore, Kept
<1> QED BY <1>1, <1>2, Steps, AskEffect, DecisionEffect, ArrivalEffect, ResponseEffect,
           WithdrawalEffect, WorkEffect DEF trustState

\* What is left of a queue is what it was, up to a shift.
LEMMA Shift ==
  ASSUME NEW S, NEW old \in Seq(S), NEW new, Kept(old, new)
  PROVE  \E d \in {0, 1} : \A i \in 1..Len(new) :
           i \in Nat /\ i + d \in 1..Len(old) /\ new[i] = old[i + d]
<1>1. CASE new = old
  BY <1>1
<1>2. CASE old # <<>> /\ new = Tail(old)
  BY <1>2, Rest
<1>3. CASE new = <<>>
  BY <1>3
<1> QED BY <1>1, <1>2, <1>3 DEF Kept

\* Requests stay on their way apart when nothing that is added is among them.
LEMMA StillOnTheWay ==
  ASSUME TInv, NEW n \in Node, OnTheWay(n), Kept(requests[n], requests'[n]),
         asked \subseteq asked',
         \A i \in 1..Len(requests'[n]) :
           /\ requests'[n][i] \notin Held(n)' \ Held(n)
           /\ \A a \in answers' \ answers : a.req # requests'[n][i]
  PROVE  OnTheWay(n)'
<1>1. requests[n] \in Seq(Request)
  BY DEF TInv, TypeOK
<1>2. PICK d \in {0, 1} : \A i \in 1..Len(requests'[n]) :
        /\ i \in Nat /\ i + d \in 1..Len(requests[n])
        /\ requests'[n][i] = requests[n][i + d]
  BY <1>1, Shift
<1>3. ASSUME NEW i \in 1..Len(requests'[n])
      PROVE  /\ requests'[n][i] \in asked' /\ requests'[n][i].to = n
             /\ requests'[n][i] \notin Held(n)'
             /\ \A a \in answers' : a.req # requests'[n][i]
             /\ \A j \in 1..Len(requests'[n]) : requests'[n][i] = requests'[n][j] => i = j
  <2>1. i + d \in 1..Len(requests[n]) /\ requests'[n][i] = requests[n][i + d]
    BY <1>2
  <2>2. /\ requests[n][i + d] \in asked /\ requests[n][i + d].to = n
        /\ requests[n][i + d] \notin Held(n)
        /\ \A a \in answers : a.req # requests[n][i + d]
        /\ \A j \in 1..Len(requests[n]) : requests[n][i + d] = requests[n][j] => i + d = j
    BY <2>1 DEF OnTheWay
  <2>3. ASSUME NEW j \in 1..Len(requests'[n]), requests'[n][i] = requests'[n][j]
        PROVE  i = j
    <3>1. j + d \in 1..Len(requests[n]) /\ requests'[n][j] = requests[n][j + d] /\ j \in Nat
      BY <1>2
    <3>2. i + d = j + d
      BY <2>1, <2>2, <2>3, <3>1
    <3> QED BY <1>2, <3>1, <3>2
  <2> QED BY <2>1, <2>2, <2>3
<1> QED BY <1>3 DEF OnTheWay

\* The first request of a queue is apart from those behind it.
LEMMA FirstOnTheWay ==
  ASSUME TInv, MessagesOK, NEW n \in Node, requests[n] # <<>>,
         requests' = [requests EXCEPT ![n] = Tail(@)]
  PROVE  /\ Head(requests[n]) \in asked /\ Head(requests[n]).to = n
         /\ Head(requests[n]) \notin Held(n)
         /\ \A a \in answers : a.req # Head(requests[n])
         /\ \A i \in 1..Len(requests'[n]) : requests'[n][i] # Head(requests[n])
         /\ \A k \in Node \ {n} : requests'[k] = requests[k]
         /\ \A k \in Node : Kept(requests[k], requests'[k])
<1>1. requests[n] \in Seq(Request)
  BY DEF TInv, TypeOK
<1>2. /\ Head(requests[n]) = requests[n][1] /\ 1 \in 1..Len(requests[n])
      /\ \A i \in 1..Len(Tail(requests[n])) :
           i + 1 \in 1..Len(requests[n]) /\ Tail(requests[n])[i] = requests[n][i + 1]
  BY <1>1, Rest
<1>3. requests'[n] = Tail(requests[n]) /\ \A k \in Node \ {n} : requests'[k] = requests[k]
  BY DEF TInv, TypeOK
<1>4. OnTheWay(n)
  BY DEF MessagesOK
<1>5. ASSUME NEW i \in 1..Len(Tail(requests[n]))
      PROVE  Tail(requests[n])[i] # Head(requests[n])
  <2>1. i \in Nat /\ i # 0 /\ i + 1 \in 1..Len(requests[n])
    BY <1>1, <1>2, Rest
  <2>2. requests[n][1] = requests[n][i + 1] => 1 = i + 1
    BY <1>2, <1>4, <2>1 DEF OnTheWay
  <2> QED BY <1>2, <2>1, <2>2
<1>6. /\ Head(requests[n]) \in asked /\ Head(requests[n]).to = n
      /\ Head(requests[n]) \notin Held(n)
      /\ \A a \in answers : a.req # Head(requests[n])
  BY <1>2, <1>4 DEF OnTheWay
<1>7. \A k \in Node : Kept(requests[k], requests'[k])
  BY <1>3 DEF Kept
<1> QED BY <1>3, <1>5, <1>6, <1>7

\* A request that was just made is apart from those on their way.
LEMMA NewOnTheWay ==
  ASSUME TInv, MessagesOK, SpentOK, NEW n \in Node, NEW r, Asks(n, r)
  PROVE  \A k \in Node : OnTheWay(k)'
<1>1. /\ r \in Request \ asked /\ asked' = asked \cup {r} /\ answers' = answers /\ r.to \in Node \ {n}
      /\ requests' = [requests EXCEPT ![r.to] = Append(@, r)]
  BY DEF Asks
<1>2. \A k \in Node : /\ OnTheWay(k)
                      /\ \A i \in 1..Len(requests[k]) : requests[k][i] \in asked
  BY DEF MessagesOK, OnTheWay
<1>3. /\ Held(n)' = Held(n) \cup {r}
      /\ \A k \in Node \ {n} : Held(k)' = Held(k)
  BY DEF Asks, Elsewhere, Held
<1>4. ASSUME NEW k \in Node \ {r.to}
      PROVE  OnTheWay(k)'
  <2>1. requests'[k] = requests[k]
    BY <1>1 DEF TInv, TypeOK
  <2>2. \A i \in 1..Len(requests'[k]) : requests'[k][i] \notin Held(k)' \ Held(k)
    BY <1>1, <1>2, <1>3, <2>1
  <2> QED BY <1>1, <1>2, <2>1, <2>2, StillOnTheWay DEF Kept
<1>5. OnTheWay(r.to)'
  <2> DEFINE m == r.to
             s == requests[m]
  <2>1. m \in Node /\ requests'[m] = Append(s, r) /\ s \in Seq(Request)
    BY <1>1 DEF TInv, TypeOK
  <2>2. r \notin Held(m)' /\ Held(m)' = Held(m) /\ \A a \in answers : a.req # r
    BY <1>1, <1>3, <2>1 DEF SpentOK
  <2>3. OnTheWay(m) /\ \A i \in 1..Len(s) : s[i] \in asked
    BY <1>2, <2>1
  <2>4. r \in Request
    BY <1>1
  <2>5. r.to = m
    OBVIOUS
  <2> HIDE DEF m, s
  <2>6. /\ Len(s) \in Nat /\ Len(Append(s, r)) = Len(s) + 1
        /\ Append(s, r)[Len(s) + 1] = r
        /\ \A i \in 1..Len(s) : Append(s, r)[i] = s[i]
        /\ \A i \in 1..(Len(s) + 1) : i = Len(s) + 1 \/ i \in 1..Len(s)
    BY <2>1, <2>4, Grown
  <2>7. ASSUME NEW i \in 1..Len(s)
        PROVE  /\ s[i] \in asked' /\ s[i].to = m /\ s[i] \notin Held(m)' /\ s[i] # r
               /\ \A a \in answers' : a.req # s[i]
               /\ \A j \in 1..Len(s) : s[i] = s[j] => i = j
    BY <1>1, <2>2, <2>3 DEF OnTheWay, s
  <2>8. ASSUME NEW i \in 1..(Len(s) + 1)
        PROVE  /\ Append(s, r)[i] \in asked' /\ Append(s, r)[i].to = m
               /\ Append(s, r)[i] \notin Held(m)'
               /\ \A a \in answers' : a.req # Append(s, r)[i]
               /\ \A j \in 1..(Len(s) + 1) : Append(s, r)[i] = Append(s, r)[j] => i = j
    <3>1. CASE i = Len(s) + 1
      BY <1>1, <2>2, <2>5, <2>6, <2>7, <3>1
    <3>2. CASE i \in 1..Len(s)
      BY <2>6, <2>7, <3>2
    <3> QED BY <2>6, <3>1, <3>2
  <2>9. OnTheWay(m)'
    BY <2>1, <2>6, <2>8 DEF OnTheWay
  <2> QED BY <2>9 DEF m
<1> QED BY <1>4, <1>5

LEMMA MessagesStep ==
  ASSUME TInv, SelfOK, NamesOK, MessagesOK, SpentOK, WithdrawOK, [Next]_vars
  PROVE  MessagesOK'
<1>0. \A k \in Node : OnTheWay(k) /\ \A i \in 1..Len(responses[k]) : responses[k][i] \in answers
  BY DEF MessagesOK
<1>1. ASSUME NoMore, answers \subseteq answers'
      PROVE  \A k \in Node : \A i \in 1..Len(responses'[k]) : responses'[k][i] \in answers'
  <2> SUFFICES ASSUME NEW k \in Node, NEW i \in 1..Len(responses'[k])
               PROVE  responses'[k][i] \in answers'
    OBVIOUS
  <2>1. Kept(responses[k], responses'[k]) /\ responses[k] \in Seq(Answer)
    BY <1>1 DEF NoMore, TInv, TypeOK
  <2>2. PICK d \in {0, 1} : i + d \in 1..Len(responses[k]) /\ responses'[k][i] = responses[k][i + d]
    BY <2>1, Shift
  <2> QED BY <1>0, <1>1, <2>2
<1>2. ASSUME NEW n \in Node, NEW r, Asks(n, r)
      PROVE  MessagesOK'
  <2>1. UNCHANGED <<responses, answers>>
    BY <1>2 DEF Asks
  <2> QED BY <1>0, <1>2, <2>1, NewOnTheWay DEF MessagesOK
<1>3. ASSUME NEW n \in Node, Waits(n)
      PROVE  MessagesOK'
  <2> DEFINE r == Head(requests[n])
  <2>1. /\ requests[n] # <<>> /\ requests' = [requests EXCEPT ![n] = Tail(@)]
        /\ UNCHANGED <<responses, asked, answers>>
        /\ Held(n)' = Held(n) \cup {r} /\ \A k \in Node \ {n} : Held(k)' = Held(k)
    BY <1>3 DEF Waits, Elsewhere, Held
  <2>2. /\ \A i \in 1..Len(requests'[n]) : requests'[n][i] # r
        /\ \A k \in Node \ {n} : requests'[k] = requests[k]
        /\ \A k \in Node : Kept(requests[k], requests'[k])
    BY <2>1, FirstOnTheWay
  <2> HIDE DEF r
  <2>3. ASSUME NEW k \in Node
        PROVE  OnTheWay(k)'
    <3>1. \A i \in 1..Len(requests'[k]) : requests'[k][i] \notin Held(k)' \ Held(k)
      <4>1. CASE k = n
        BY <2>1, <2>2, <4>1 DEF Held
      <4>2. CASE k # n
        BY <2>1, <4>2 DEF Held
      <4> QED BY <4>1, <4>2
    <3> QED BY <1>0, <2>1, <2>2, <3>1, StillOnTheWay
  <2> QED BY <1>0, <2>1, <2>3 DEF MessagesOK
<1>4. ASSUME NEW n \in Node, NEW a \in Answer, AnswersWith(n, a)
      PROVE  MessagesOK'
  <2>1. /\ answers' = answers \cup {a} /\ asked' = asked /\ disk' = disk /\ a.req.to = n
        /\ responses' = [responses EXCEPT ![a.req.from] = Append(@, a)]
        /\ \A k \in Node : Held(k)' \subseteq Held(k)
    BY <1>4 DEF AnswersWith, Elsewhere, Held
  <2>2. /\ \A k \in Node : Kept(requests[k], requests'[k])
        /\ \A k \in Node \ {n} : requests'[k] = requests[k]
        /\ \A i \in 1..Len(requests'[n]) : requests'[n][i] # a.req
    <3>1. CASE a.req \in store[n].pending /\ requests' = requests
      <4>1. a.req \in Held(n)
        BY <3>1 DEF Held
      <4>2. \A i \in 1..Len(requests[n]) : requests[n][i] # a.req
        BY <1>0, <4>1 DEF OnTheWay
      <4> QED BY <3>1, <4>2 DEF Kept
    <3>2. CASE /\ requests[n] # <<>> /\ a.req = Head(requests[n])
               /\ requests' = [requests EXCEPT ![n] = Tail(@)]
      <4>1. /\ \A k \in Node : Kept(requests[k], requests'[k])
            /\ \A k \in Node \ {n} : requests'[k] = requests[k]
            /\ \A i \in 1..Len(requests'[n]) : requests'[n][i] # Head(requests[n])
        BY <3>2, FirstOnTheWay
      <4> QED BY <3>2, <4>1
    <3> QED BY <1>4, <3>1, <3>2 DEF AnswersWith
  <2>3. ASSUME NEW k \in Node
        PROVE  OnTheWay(k)'
    <3>1. ASSUME NEW i \in 1..Len(requests'[k])
          PROVE  requests'[k][i] # a.req
      <4>1. CASE k = n
        BY <2>2, <4>1
      <4>2. CASE k # n
        <5>1. requests'[k] = requests[k] /\ requests[k][i].to = k
          BY <1>0, <2>2, <4>2 DEF OnTheWay
        <5> QED BY <2>1, <4>2, <5>1
      <4> QED BY <4>1, <4>2
    <3>2. \A i \in 1..Len(requests'[k]) :
            /\ requests'[k][i] \notin Held(k)' \ Held(k)
            /\ \A b \in answers' \ answers : b.req # requests'[k][i]
      BY <2>1, <3>1
    <3> QED BY <1>0, <2>1, <2>2, <3>2, StillOnTheWay
  <2>4. ASSUME NEW k \in Node, NEW i \in 1..Len(responses'[k])
        PROVE  responses'[k][i] \in answers'
    <3>1. responses[k] \in Seq(Answer) /\ responses \in [Node -> Seq(Answer)]
      BY DEF TInv, TypeOK
    <3>2. CASE k = a.req.from
      <4>1. responses'[k] = Append(responses[k], a)
        BY <2>1, <3>1, <3>2
      <4>2. i = Len(responses[k]) + 1 \/ i \in 1..Len(responses[k])
        BY <3>1, <4>1, Grown
      <4>3. CASE i = Len(responses[k]) + 1
        <5>1. responses'[k][i] = a
          BY <3>1, <4>1, <4>3, Grown
        <5> QED BY <2>1, <5>1
      <4>4. CASE i \in 1..Len(responses[k])
        <5>1. responses'[k][i] = responses[k][i]
          BY <3>1, <4>1, <4>4, Grown
        <5> QED BY <1>0, <2>1, <4>4, <5>1
      <4> QED BY <4>2, <4>3, <4>4
    <3>3. CASE k # a.req.from
      <4>1. responses'[k] = responses[k]
        BY <2>1, <3>1, <3>3
      <4> QED BY <1>0, <2>1, <4>1
    <3> QED BY <3>2, <3>3
  <2> QED BY <2>3, <2>4 DEF MessagesOK
<1>5. ASSUME NoMore, asked' = asked, answers' = answers,
             \A k \in Node : Held(k)' \subseteq Held(k)
      PROVE  MessagesOK'
  <2>1. ASSUME NEW k \in Node
        PROVE  OnTheWay(k)'
    BY <1>0, <1>5, StillOnTheWay DEF NoMore
  <2> QED BY <1>1, <1>5, <2>1 DEF MessagesOK
<1>6. ASSUME NEW n \in Node, Settles(n) \/ Persists(n)
      PROVE  MessagesOK'
  <2>1. NoMore /\ asked' = asked /\ answers' = answers
    BY <1>6 DEF Settles, Persists
  <2>2. \A k \in Node \ {n} : Held(k)' = Held(k)
    BY <1>6 DEF Settles, Persists, Elsewhere, Held
  <2>3. Held(n)' \subseteq Held(n)
    BY <1>6 DEF Settles, Persists, Held
  <2> QED BY <1>5, <2>1, <2>2, <2>3
<1>7. CASE UNCHANGED <<store, disk, asked, answers, spent>> /\ NoMore
  BY <1>5, <1>7 DEF Held
<1> QED BY <1>2, <1>3, <1>4, <1>6, <1>7, Effects

-----------------------------------------------------------------------------
(***************************************************************************)
(* Revocations and consent                                                 *)
(***************************************************************************)

\* A request that arrives, or is pending, came after what a revocation spent.
LEMMA ArrivalUnspent ==
  ASSUME TInv, NamesOK, MessagesOK, SpentOK, NEW n \in Node, requests[n] # <<>>
  PROVE  Head(requests[n]) \in asked /\ Head(requests[n]) \notin spent[n]
<1>1. requests[n] \in Seq(Request)
  BY DEF TInv, TypeOK
<1>2. Head(requests[n]) = requests[n][1] /\ 1 \in 1..Len(requests[n])
  BY <1>1, Rest
<1>3. /\ Head(requests[n]) \in asked /\ Head(requests[n]).to = n
      /\ \A a \in answers : a.req # Head(requests[n])
  BY <1>2 DEF MessagesOK, OnTheWay
<1>4. Head(requests[n]).from # n
  BY <1>3 DEF NamesOK
<1> QED BY <1>3, <1>4 DEF SpentOK

LEMMA SpentStep ==
  ASSUME TInv, SelfOK, NamesOK, MessagesOK, SpentOK, WithdrawOK, [Next]_vars
  PROVE  SpentOK'
<1>0. /\ \A a \in answers : a.req \in asked
      /\ \A n \in Node : /\ \A r \in Held(n) : r \in asked /\ r \notin spent[n]
                         /\ \A r \in spent[n] :
                              r \in asked /\ (r.from = n \/ \E a \in answers : a.req = r)
  BY DEF SpentOK
<1>1. ASSUME NEW n \in Node, NEW r, Asks(n, r)
      PROVE  SpentOK'
  <2>1. /\ r \notin asked /\ asked' = asked \cup {r} /\ answers' = answers /\ spent' = spent
        /\ Held(n)' = Held(n) \cup {r} /\ \A k \in Node \ {n} : Held(k)' = Held(k)
    BY <1>1 DEF Asks, Elsewhere, Held
  <2> QED BY <1>0, <2>1 DEF SpentOK
<1>2. ASSUME NEW n \in Node, Waits(n)
      PROVE  SpentOK'
  <2>1. /\ UNCHANGED <<asked, answers, spent>> /\ requests[n] # <<>>
        /\ Held(n)' = Held(n) \cup {Head(requests[n])}
        /\ \A k \in Node \ {n} : Held(k)' = Held(k)
    BY <1>2 DEF Waits, Elsewhere, Held
  <2>2. Head(requests[n]) \in asked /\ Head(requests[n]) \notin spent[n]
    BY <2>1, ArrivalUnspent
  <2> QED BY <1>0, <2>1, <2>2 DEF SpentOK
<1>3. ASSUME NEW n \in Node, NEW a \in Answer, AnswersWith(n, a)
      PROVE  SpentOK'
  <2>1. /\ answers' = answers \cup {a} /\ asked' = asked /\ spent' = spent
        /\ \A k \in Node : Held(k)' \subseteq Held(k)
    BY <1>3 DEF AnswersWith, Elsewhere, Held
  <2>2. a.req \in asked
    <3>1. a.req \in Held(n) \/ (requests[n] # <<>> /\ a.req = Head(requests[n]))
      BY <1>3 DEF AnswersWith, Held
    <3> QED BY <1>0, <3>1, ArrivalUnspent
  <2> QED BY <1>0, <2>1, <2>2 DEF SpentOK
<1>4. ASSUME NEW n \in Node, Settles(n)
      PROVE  SpentOK'
  <2>1. /\ UNCHANGED <<asked, answers, spent>>
        /\ \A k \in Node : Held(k)' \subseteq Held(k)
    BY <1>4 DEF Settles, Elsewhere, Held
  <2> QED BY <1>0, <2>1 DEF SpentOK
<1>5. ASSUME NEW n \in Node, Persists(n)
      PROVE  SpentOK'
  <2>1. /\ UNCHANGED <<asked, answers>>
        /\ \A k \in Node \ {n} : spent'[k] = spent[k] /\ Held(k)' = Held(k)
    BY <1>5 DEF Persists, Elsewhere, Held
  <2>2. CASE spent'[n] = spent[n]
    <3>1. Held(n)' \subseteq Held(n)
      BY <1>5 DEF Persists, Held
    <3> QED BY <1>0, <2>1, <2>2, <3>1 DEF SpentOK
  <2>3. ASSUME NEW m \in Node,
               spent'[n] = spent[n] \cup Between(n, m), {store'[n], disk'[n]} = {store[n]},
               \A r \in store[n].pending : m \notin {r.from, r.to}
        PROVE  SpentOK'
    <3>1. \A r \in Between(n, m) : /\ r \in asked /\ m \in {r.from, r.to}
                                   /\ r.from = n \/ \E a \in answers : a.req = r
      BY <1>0 DEF Between
    <3>2. Held(n)' \subseteq Held(n) /\ Held(n)' \cap Between(n, m) = {}
      BY <2>3, <3>1 DEF Held
    <3> QED BY <1>0, <2>1, <2>3, <3>1, <3>2 DEF SpentOK
  <2> QED BY <1>5, <2>2, <2>3 DEF Persists
<1>6. CASE UNCHANGED <<store, disk, asked, answers, spent>> /\ NoMore
  BY <1>0, <1>6 DEF SpentOK, Held
<1> QED BY <1>1, <1>2, <1>3, <1>4, <1>5, <1>6, Effects

\* The approval that TrustIsConsent asks for.
Consents(n, m) ==
  \E a \in answers : /\ a.ok = "approve" /\ {a.req.from, a.req.to} = {n, m}
                    /\ a.req \notin spent[n]

LEMMA ConsentStep ==
  ASSUME TInv, SelfOK, NamesOK, MessagesOK, SpentOK, WithdrawOK, TrustIsConsent, [Next]_vars
  PROVE  TrustIsConsent'
<1>0. \A n, m \in Node : m \in store[n].trusted \cup disk[n].trusted => Consents(n, m)
  BY DEF TrustIsConsent, Consents
<1>1. (\A n, m \in Node : m \in store'[n].trusted \cup disk'[n].trusted => Consents(n, m)')
        => TrustIsConsent'
  BY DEF TrustIsConsent, Consents
<1>2. ASSUME NEW k \in Node, NEW m \in Node, answers \subseteq answers', spent'[k] = spent[k],
             Consents(k, m)
      PROVE  Consents(k, m)'
  BY <1>2 DEF Consents
<1>3. ASSUME NEW n \in Node, Elsewhere(n), disk' = disk, answers \subseteq answers',
             spent' = spent,
             \A m \in Node : m \in store'[n].trusted \ store[n].trusted => Consents(n, m)'
      PROVE  TrustIsConsent'
  <2> SUFFICES ASSUME NEW k \in Node, NEW m \in Node,
                      m \in store'[k].trusted \cup disk'[k].trusted
               PROVE  Consents(k, m)'
    BY <1>1
  <2>1. CASE m \in store[k].trusted \cup disk[k].trusted
    BY <1>0, <1>2, <1>3, <2>1
  <2>2. CASE m \notin store[k].trusted \cup disk[k].trusted
    <3>1. m \in store'[k].trusted \ store[k].trusted
      BY <1>3, <2>2
    <3>2. k = n
      BY <1>3, <3>1 DEF Elsewhere
    <3> QED BY <1>3, <3>1, <3>2
  <2> QED BY <2>1, <2>2
<1>4. ASSUME NEW n \in Node, NEW r, Asks(n, r)
      PROVE  TrustIsConsent'
  <2>1. /\ store'[n].trusted = store[n].trusted /\ Elsewhere(n)
        /\ UNCHANGED <<disk, answers, spent>>
    BY <1>4 DEF Asks
  <2> QED BY <1>3, <2>1
<1>5. ASSUME NEW n \in Node, Waits(n)
      PROVE  TrustIsConsent'
  <2>1. /\ store'[n].trusted = store[n].trusted /\ Elsewhere(n)
        /\ UNCHANGED <<disk, answers, spent>>
    BY <1>5 DEF Waits
  <2> QED BY <1>3, <2>1
<1>6. ASSUME NEW n \in Node, NEW a \in Answer, AnswersWith(n, a)
      PROVE  TrustIsConsent'
  <2>1. /\ answers' = answers \cup {a} /\ disk' = disk /\ spent' = spent /\ Elsewhere(n)
        /\ a.req.to = n
        /\ \A m \in Node : m \in store'[n].trusted \ store[n].trusted =>
                             m = a.req.from /\ a.ok = "approve"
    BY <1>6 DEF AnswersWith
  <2>2. a.req \notin spent[n]
    <3>1. a.req \in Held(n) \/ (requests[n] # <<>> /\ a.req = Head(requests[n]))
      BY <1>6 DEF AnswersWith, Held
    <3> QED BY <3>1, ArrivalUnspent DEF SpentOK
  <2>3. \A m \in Node : m \in store'[n].trusted \ store[n].trusted => Consents(n, m)'
    BY <2>1, <2>2 DEF Consents
  <2> QED BY <1>3, <2>1, <2>3
<1>7. ASSUME NEW n \in Node, Settles(n)
      PROVE  TrustIsConsent'
  <2> DEFINE a == Head(responses[n])
  <2>1. /\ answers' = answers /\ disk' = disk /\ spent' = spent /\ Elsewhere(n)
        /\ \A m \in Node : m \in store'[n].trusted \ store[n].trusted =>
             /\ responses[n] # <<>> /\ a.ok = "approve" /\ a.req \in store[n].pending
             /\ a.req.from = n /\ a.req.to = m
    BY <1>7 DEF Settles
  <2>2. responses[n] # <<>> => a \in answers
    <3>1. responses[n] \in Seq(Answer)
      BY DEF TInv, TypeOK
    <3>2. responses[n] # <<>> => a = responses[n][1] /\ 1 \in 1..Len(responses[n])
      BY <3>1, Rest
    <3> QED BY <3>2 DEF MessagesOK
  <2> HIDE DEF a
  <2>3. \A m \in Node : m \in store'[n].trusted \ store[n].trusted => Consents(n, m)'
    BY <2>1, <2>2 DEF Consents, SpentOK, Held
  <2> QED BY <1>3, <2>1, <2>3
<1>8. ASSUME NEW n \in Node, Persists(n)
      PROVE  TrustIsConsent'
  <2> SUFFICES ASSUME NEW k \in Node, NEW m \in Node,
                      m \in store'[k].trusted \cup disk'[k].trusted
               PROVE  Consents(k, m)'
    BY <1>1
  <2>1. m \in store[k].trusted \cup disk[k].trusted
    BY <1>8 DEF Persists, Elsewhere
  <2>2. Consents(k, m) /\ answers' = answers
    BY <1>0, <1>8, <2>1 DEF Persists
  <2>3. CASE spent'[k] = spent[k]
    BY <1>2, <2>2, <2>3
  <2>4. CASE spent'[k] # spent[k]
    <3>1. PICK j \in Node : /\ spent'[k] = spent[k] \cup Between(k, j)
                            /\ {store'[k], disk'[k]} = {store[k]}
                            /\ j \notin store[k].trusted
      BY <1>8, <2>4 DEF Persists
    <3>2. m # j
      BY <3>1
    <3>3. \A r \in Between(k, j) : {r.from, r.to} = {k, j}
      BY DEF Between
    <3> QED BY <2>2, <3>1, <3>2, <3>3 DEF Consents
  <2> QED BY <2>3, <2>4
<1>9. CASE UNCHANGED <<store, disk, asked, answers, spent>> /\ NoMore
  BY <1>0, <1>1, <1>9 DEF Consents
<1> QED BY <1>4, <1>5, <1>6, <1>7, <1>8, <1>9, Effects

LEMMA InvInit == Init => IInv
<1> SUFFICES ASSUME Init PROVE IInv
  OBVIOUS
<1>1. TInv
  BY TypeInit
<1>2. /\ \A n \in Node : /\ store[n] = Empty /\ disk[n] = Empty /\ todo[n] = <<>>
                         /\ peers[n][n] = "absent" /\ asking[n] = {} /\ reading[n] = {}
                         /\ requests[n] = <<>> /\ responses[n] = <<>> /\ spent[n] = {}
      /\ asked = {} /\ answers = {}
  BY DEF Init
<1> QED BY <1>1, <1>2 DEF TInv, IInv, NamesOK, SelfOK, MessagesOK, OnTheWay, SpentOK, Held,
                          WithdrawOK, TrustIsConsent, Empty

\* A Bot trusts a peer only on an approval that one of the two gave to a request
\* of the other, and that no revocation it has recorded since came after, whatever
\* is lost, delayed, forgotten in a restart or not saved (trust/service.go).
THEOREM Consent == Spec => []TrustIsConsent
<1>1. IInv /\ [Next]_vars => IInv'
  <2> SUFFICES ASSUME IInv, [Next]_vars PROVE IInv'
    OBVIOUS
  <2>1. /\ TInv /\ SelfOK /\ NamesOK /\ MessagesOK /\ SpentOK /\ WithdrawOK
        /\ TrustIsConsent
    BY DEF IInv, TInv
  <2>2. TInv' /\ SelfOK' /\ NamesOK'
    BY <2>1, TypeStep, SelfStep, NamesStep
  <2>3. MessagesOK' /\ SpentOK' /\ WithdrawOK' /\ TrustIsConsent'
    BY <2>1, MessagesStep, SpentStep, WithdrawStep, ConsentStep
  <2> QED BY <2>2, <2>3 DEF IInv, TInv
<1>2. IInv => TrustIsConsent
  BY DEF IInv
<1> QED BY <1>1, <1>2, InvInit, PTL DEF Spec

-----------------------------------------------------------------------------
(***************************************************************************)
(* One answer, and what is held of it                                      *)
(***************************************************************************)

\* What its receiver has answered is not pending there, unless it restarted from
\* an older trust.json.
AnsweredOK == \A a \in answers : a.req.to \in reverted \/ a.req \notin store[a.req.to].pending

\* A Bot keeps requests of its own only: those it made and those made to it.
HeldOwn == \A n \in Node : \A r \in Held(n) : n \in {r.from, r.to}

\* That a Bot restarted from an older file is never forgotten.
LEMMA RevertedGrows ==
  ASSUME [Next]_vars
  PROVE  reverted \subseteq reverted'
<1>1. ASSUME NEW n \in Node, NEW m \in Node,
             \/ Ask(n, m) \/ RequestTrust(n, m) \/ RequestRefused(n, m) \/ Revoke(n, m)
             \/ AnnounceKnown(n, m) \/ AnnounceRead(n, m) \/ Depart(n, m)
      PROVE  reverted' = reverted
  BY <1>1 DEF Ask, RequestTrust, RequestRefused, Revoke, AnnounceKnown, AnnounceRead, Depart,
              history, vars
<1>2. ASSUME NEW n \in Node,
             \/ HandleTrustRequest(n) \/ HandleTrustResponse(n) \/ HandleTrustRevoke(n)
             \/ Lose(n) \/ Discard(n) \/ Mark(n) \/ Save(n) \/ SaveFails(n)
             \/ \E x \in reading[n] : AnnounceInsert(n, x)
             \/ \E r \in store[n].pending, ok \in {"approve", "reject"} : Decide(n, r, ok)
      PROVE  reverted' = reverted
  BY <1>2 DEF HandleTrustRequest, HandleTrustResponse, HandleTrustRevoke, Lose, Discard, Mark,
              Save, SaveFails, AnnounceInsert, Decide, Respond, history
<1>3. ASSUME NEW n \in Node, Restart(n)
      PROVE  reverted \subseteq reverted'
  BY <1>3 DEF Restart
<1>4. CASE UNCHANGED vars
  BY <1>4 DEF vars, history
<1> QED BY <1>1, <1>2, <1>3, <1>4 DEF Next

\* Respond takes the request it answers out of the pending ones, and a request
\* arrives at its receiver once.
LEMMA AnsweredStep ==
  ASSUME TInv, SelfOK, NamesOK, MessagesOK, SpentOK, WithdrawOK, AnsweredOK, OneAnswer, [Next]_vars
  PROVE  AnsweredOK' /\ OneAnswer'
<1>a. reverted \subseteq reverted'
  BY RevertedGrows
<1>b. \A a \in answers : a.req.to \in Node
  BY DEF TInv, TypeOK, Answer, Request
<1>1. ASSUME answers' = answers,
             \A a \in answers : a.req \in store'[a.req.to].pending =>
               a.req \in store[a.req.to].pending \/ a.req.to \in reverted'
      PROVE  AnsweredOK' /\ OneAnswer'
  BY <1>a, <1>1 DEF AnsweredOK, OneAnswer
<1>2. ASSUME NEW n \in Node, NEW r, Asks(n, r) PROVE AnsweredOK' /\ OneAnswer'
  <2>1. /\ r \notin asked /\ store'[n].pending = store[n].pending \cup {r}
        /\ answers' = answers /\ Elsewhere(n)
    BY <1>2 DEF Asks
  <2> QED BY <1>1, <1>b, <2>1 DEF SpentOK, Elsewhere
<1>3. ASSUME NEW n \in Node, Waits(n) PROVE AnsweredOK' /\ OneAnswer'
  <2>1. /\ store'[n].pending = store[n].pending \cup {Head(requests[n])}
        /\ answers' = answers /\ Elsewhere(n)
    BY <1>3 DEF Waits
  <2>2. \A a \in answers : a.req # Head(requests[n])
    BY <1>3, FirstOnTheWay DEF Waits
  <2> QED BY <1>1, <1>b, <2>1, <2>2 DEF Elsewhere
<1>4. ASSUME NEW n \in Node, NEW a \in Answer, AnswersWith(n, a)
      PROVE  AnsweredOK' /\ OneAnswer'
  <2>1. /\ answers' = answers \cup {a} /\ a.req.to = n /\ Elsewhere(n)
        /\ store'[n].pending = store[n].pending \ {a.req}
    BY <1>4 DEF AnswersWith
  <2>2. \A b \in answers : b.req = a.req => n \in reverted
    <3>1. CASE a.req \in store[n].pending
      BY <2>1, <3>1 DEF AnsweredOK
    <3>2. CASE /\ requests[n] # <<>> /\ a.req = Head(requests[n])
               /\ requests' = [requests EXCEPT ![n] = Tail(@)]
      <4>1. \A b \in answers : b.req # Head(requests[n])
        BY <3>2, FirstOnTheWay
      <4> QED BY <3>2, <4>1
    <3> QED BY <1>4, <3>1, <3>2 DEF AnswersWith
  <2>3. AnsweredOK'
    BY <1>a, <1>b, <2>1 DEF AnsweredOK, Elsewhere
  <2> QED BY <1>a, <2>1, <2>2, <2>3 DEF OneAnswer
<1>5. ASSUME NEW n \in Node, Settles(n) \/ Persists(n) PROVE AnsweredOK' /\ OneAnswer'
  <2>1. /\ answers' = answers /\ Elsewhere(n)
        /\ store'[n].pending \subseteq store[n].pending \/ n \in reverted'
    BY <1>5 DEF Settles, Persists
  <2> QED BY <1>1, <1>b, <2>1 DEF Elsewhere
<1>6. CASE UNCHANGED <<store, disk, asked, answers, spent>> /\ NoMore
  BY <1>1, <1>6
<1> QED BY <1>2, <1>3, <1>4, <1>5, <1>6, Effects

\* Nothing is held that is between others.
LEMMA HeldStep ==
  ASSUME TInv, SelfOK, NamesOK, MessagesOK, WithdrawOK, HeldOwn, [Next]_vars
  PROVE  HeldOwn'
<1>1. ASSUME NEW n \in Node, Elsewhere(n), \A k \in Node \ {n} : disk'[k] = disk[k],
             \A r \in Held(n)' : r \in Held(n) \/ n \in {r.from, r.to}
      PROVE  HeldOwn'
  BY <1>1 DEF HeldOwn, Held, Elsewhere
<1>2. ASSUME NEW n \in Node, NEW r, Asks(n, r) PROVE HeldOwn'
  BY <1>1, <1>2 DEF Asks, Held
<1>3. ASSUME NEW n \in Node, Waits(n) PROVE HeldOwn'
  <2>1. Head(requests[n]).to = n
    BY <1>3, FirstOnTheWay DEF Waits
  <2> QED BY <1>1, <1>3, <2>1 DEF Waits, Held
<1>4. ASSUME NEW n \in Node, \/ Settles(n) \/ Persists(n)
                             \/ \E a \in Answer : AnswersWith(n, a)
      PROVE  HeldOwn'
  BY <1>1, <1>4 DEF Settles, Persists, AnswersWith, Held
<1>5. CASE UNCHANGED <<store, disk, asked, answers, spent>> /\ NoMore
  BY <1>5 DEF HeldOwn, Held
<1> QED BY <1>2, <1>3, <1>4, <1>5, Effects

-----------------------------------------------------------------------------
(***************************************************************************)
(* Memory, trust.json and the registry                                     *)
(***************************************************************************)

\* The status t of the peer m is what the trust state s says of it.
Fits(s, m, t) ==
  CASE t = "trusted"  -> m \in s.trusted
    [] t = "pending"  -> \E r \in s.pending : m \in {r.from, r.to}
    [] t = "rejected" -> m \in s.rejected
    [] t = "revoked"  -> m \in s.revoked
    [] t = "none"     -> Persisted(s, m) = "none"
    [] OTHER -> TRUE

\* The two say the same of m.
Same(s, u, m) ==
  /\ m \in s.trusted <=> m \in u.trusted
  /\ m \in s.rejected <=> m \in u.rejected
  /\ m \in s.revoked <=> m \in u.revoked
  /\ (\E r \in s.pending : m \in {r.from, r.to}) <=> (\E r \in u.pending : m \in {r.from, r.to})

Whole(m, t) == {SaveThenMark(m, t), MarkThenSave(m, t), TrySaveThenMark(m, t)}
Left(m, t) == Whole(m, t) \cup {MarkOnly(m, t), SaveOnly(m, t)}

\* A save is due, and the mark of the peer m.
SaveDue(work) == \E i \in 1..Len(work) : work[i].do \in {"save", "trySave"}
MarkDue(work, m) == \E i \in 1..Len(work) : work[i].do = "mark" /\ work[i].peer = m

LEMMA SameFits ==
  ASSUME NEW s, NEW u, NEW m, Same(s, u, m), NEW t
  PROVE  Fits(s, m, t) => Fits(u, m, t)
<1>1. Persisted(s, m) = Persisted(u, m)
  BY DEF Persisted, Same
<1> QED BY <1>1 DEF Fits, Same

\* What the lists say fits the status that persistedTrustStatus reads of them.
LEMMA PersistedFits ==
  ASSUME NEW s, NEW m
  PROVE  Fits(s, m, Persisted(s, m))
BY DEF Fits, Persisted

\* An operation begins: the memory fits what it will mark, and says the same of
\* every other peer.
Begins(n) ==
  \E k \in Node, t \in Status, state \in TrustState : \E work :
    /\ Begin(n, state, work) /\ work \in Whole(k, t)
    /\ Fits(state, k, t)
    /\ \A m \in Node \ {n, k} : Same(store[n], state, m)
    /\ UNCHANGED <<peers, dirty, stale>>

\* A revocation withdraws what is between n and k.
LEMMA WithdrawnFits ==
  ASSUME NEW s \in TrustState, NEW n \in Node, NEW k \in Node \ {n},
         \A q \in s.pending : n \in {q.from, q.to}
  PROVE  /\ Withdrawn(s, k) \in TrustState
         /\ Fits(Withdrawn(s, k), k, "revoked")
         /\ \A m \in Node \ {n, k} : Same(s, Withdrawn(s, k), m)
<1> DEFINE u == Withdrawn(s, k)
<1>1. /\ u \in TrustState
      /\ u.trusted = s.trusted \ {k} /\ u.rejected = s.rejected
      /\ u.revoked = s.revoked \cup {k}
      /\ u.pending = {q \in s.pending : k \notin {q.from, q.to}}
  <2>1. /\ u.trusted = s.trusted \ {k} /\ u.rejected = s.rejected
        /\ u.revoked = s.revoked \cup {k}
    BY DEF Withdrawn, TrustState
  <2>2. u.pending = {q \in s.pending : k \notin {q.from, q.to}}
    BY DEF Withdrawn, TrustState
  <2>3. u \in TrustState
    <3> DEFINE P == {q \in s.pending : k \notin {q.from, q.to}}
    <3>1. /\ u = [[[s EXCEPT !.trusted = s.trusted \ {k}] EXCEPT !.revoked = s.revoked \cup {k}]
                     EXCEPT !.pending = P]
          /\ P \subseteq s.pending
      BY DEF Withdrawn, TrustState
    <3> HIDE DEF P
    <3> QED BY <3>1 DEF TrustState
  <2> HIDE DEF u
  <2> QED BY <2>1, <2>2, <2>3
<1> HIDE DEF u
<1>2. ASSUME NEW m \in Node \ {n, k}
      PROVE  Same(s, u, m)
  <2>1. \A q \in s.pending : m \in {q.from, q.to} => k \notin {q.from, q.to}
    OBVIOUS
  <2> QED BY <1>1, <2>1 DEF Same
<1> QED BY <1>1, <1>2 DEF Fits, u

\* A request between n and k waits.
LEMMA WaitingFits ==
  ASSUME NEW s \in TrustState, NEW n \in Node, NEW k \in Node, NEW r \in Request,
         {r.from, r.to} = {n, k}
  PROVE  /\ Waiting(s, r) \in TrustState
         /\ Fits(Waiting(s, r), k, "pending")
         /\ \A m \in Node \ {n, k} : Same(s, Waiting(s, r), m)
<1> DEFINE u == Waiting(s, r)
<1>1. /\ u \in TrustState
      /\ u.trusted = s.trusted /\ u.rejected = s.rejected /\ u.revoked = s.revoked
      /\ u.pending = s.pending \cup {r}
  BY DEF Waiting, TrustState
<1> HIDE DEF u
<1>2. \A m \in Node \ {n, k} : m \notin {r.from, r.to}
  OBVIOUS
<1>3. \A m \in Node \ {n, k} : Same(s, u, m)
  BY <1>1, <1>2 DEF Same
<1>4. Fits(u, k, "pending")
  BY <1>1 DEF Fits
<1> QED BY <1>1, <1>3, <1>4 DEF u

\* A request between n and k is decided.
LEMMA DecidedFits ==
  ASSUME NEW s \in TrustState, NEW n \in Node, NEW k \in Node, NEW r \in Request,
         NEW ok \in {"approve", "reject"}, {r.from, r.to} = {n, k}
  PROVE  /\ Settled(Decided(s, k, ok), r) \in TrustState
         /\ Fits(Settled(Decided(s, k, ok), r), k, Verdict(ok))
         /\ \A m \in Node \ {n, k} : Same(s, Settled(Decided(s, k, ok), r), m)
<1> DEFINE d == Decided(s, k, ok)
           u == Settled(d, r)
<1>1. /\ d \in TrustState /\ d.pending = s.pending
      /\ ok = "approve" => /\ d.trusted = s.trusted \cup {k} /\ d.rejected = s.rejected \ {k}
                           /\ d.revoked = s.revoked \ {k}
      /\ ok = "reject" => /\ d.trusted = s.trusted \ {k} /\ d.rejected = s.rejected \cup {k}
                          /\ d.revoked = s.revoked
  <2>1. CASE ok = "approve"
    BY <2>1 DEF Decided, Granted, TrustState
  <2>2. CASE ok = "reject"
    BY <2>2 DEF Decided, Denied, TrustState
  <2> QED BY <2>1, <2>2
<1> HIDE DEF d
<1>2. /\ u \in TrustState
      /\ u.trusted = d.trusted /\ u.rejected = d.rejected /\ u.revoked = d.revoked
      /\ u.pending = d.pending \ {r}
  BY <1>1, SettledList
<1> HIDE DEF u
<1>3. \A m \in Node \ {n, k} : m \notin {r.from, r.to}
  OBVIOUS
<1>4. ASSUME NEW m \in Node \ {n, k}
      PROVE  Same(s, u, m)
  <2>1. CASE ok = "approve"
    BY <1>1, <1>2, <1>3, <2>1 DEF Same
  <2>2. CASE ok = "reject"
    BY <1>1, <1>2, <1>3, <2>2 DEF Same
  <2> QED BY <2>1, <2>2
<1>5. Fits(u, k, Verdict(ok))
  <2>1. CASE ok = "approve"
    BY <1>1, <1>2, <2>1 DEF Fits, Verdict
  <2>2. CASE ok = "reject"
    BY <1>1, <1>2, <2>2 DEF Fits, Verdict
  <2> QED BY <2>1, <2>2
<1> QED BY <1>2, <1>4, <1>5 DEF u, d

\* Every operation begins so.
LEMMA OperationBegins ==
  ASSUME TInv, SelfOK, NamesOK, MessagesOK, SpentOK, HeldOwn, NEW n \in Node, NEW m \in Node,
         \/ RequestTrust(n, m) \/ Revoke(n, m)
         \/ \E r \in store[n].pending, ok \in {"approve", "reject"} : Decide(n, r, ok)
         \/ HandleTrustRequest(n) \/ HandleTrustResponse(n) \/ HandleTrustRevoke(n)
  PROVE  Free(n) /\ Begins(n)
<1>0. /\ store[n] \in TrustState /\ \A q \in store[n].pending : q \in Request
      /\ \A q \in store[n].pending : n \in {q.from, q.to} /\ q \in asked
      /\ \A q \in asked : q.from # q.to
      /\ ~Known(n, n) /\ n \notin asking[n]
  BY DEF TInv, TypeOK, TrustState, HeldOwn, Held, SpentOK, NamesOK, SelfOK, Known
<1>1. ASSUME NEW k \in Node, NEW t \in Status, NEW state \in TrustState, NEW work,
             Begin(n, state, work), work \in Whole(k, t), Fits(state, k, t),
             \A j \in Node \ {n, k} : Same(store[n], state, j),
             UNCHANGED <<peers, dirty, stale>>
      PROVE  Begins(n)
  BY <1>1 DEF Begins
<1>2. ASSUME NEW r \in Request, NEW k \in Node, {r.from, r.to} = {n, k},
             Begin(n, Waiting(store[n], r), SaveThenMark(k, "pending")),
             UNCHANGED <<peers, dirty, stale>>
      PROVE  Begins(n)
  BY <1>0, <1>1, <1>2, WaitingFits DEF Whole, Status
<1>3. ASSUME NEW k \in Node \ {n},
             \/ Begin(n, Withdrawn(store[n], k), SaveThenMark(k, "revoked"))
             \/ Begin(n, Withdrawn(store[n], k), TrySaveThenMark(k, "revoked")),
             UNCHANGED <<peers, dirty, stale>>
      PROVE  Begins(n)
  BY <1>0, <1>1, <1>3, WithdrawnFits DEF Whole, Status
<1>4. ASSUME NEW r \in Request, NEW k \in Node, NEW ok \in {"approve", "reject"},
             {r.from, r.to} = {n, k},
             Begin(n, Settled(Decided(store[n], k, ok), r), MarkThenSave(k, Verdict(ok))),
             UNCHANGED <<peers, dirty, stale>>
      PROVE  Begins(n)
  <2>1. Verdict(ok) \in Status
    BY DEF Verdict, Status
  <2>2. MarkThenSave(k, Verdict(ok)) \in Whole(k, Verdict(ok))
    BY DEF Whole
  <2> DEFINE u == Settled(Decided(store[n], k, ok), r)
  <2>3. u \in TrustState /\ Fits(u, k, Verdict(ok)) /\ \A j \in Node \ {n, k} : Same(store[n], u, j)
    BY <1>0, <1>4, DecidedFits
  <2>4. Begin(n, u, MarkThenSave(k, Verdict(ok))) /\ UNCHANGED <<peers, dirty, stale>>
    BY <1>4
  <2> HIDE DEF u
  <2> QED BY <1>1, <2>1, <2>2, <2>3, <2>4
<1>5. ASSUME NEW r \in Request, NEW ok \in {"approve", "reject"}, r.to = n, Respond(n, r, ok)
      PROVE  Begins(n)
  <2>1. /\ Begin(n, Settled(Decided(store[n], r.from, ok), r),
                 MarkThenSave(r.from, Verdict(ok)))
        /\ UNCHANGED <<peers, dirty, stale>>
    BY <1>5 DEF Respond, registry
  <2>2. r.from \in Node /\ {r.from, r.to} = {n, r.from}
    BY <1>5 DEF Request
  <2> QED BY <1>4, <2>1, <2>2
<1>6. CASE RequestTrust(n, m)
  <2> DEFINE r == [id |-> Cardinality(asked) + 1, from |-> n, to |-> m]
  <2>1. r \in Request
    <3>1. Cardinality(asked) \in Nat
      BY FS_CardinalityType DEF TInv
    <3>2. Cardinality(asked) + 1 <= MaxRequests
      BY <1>6 DEF RequestTrust
    <3> QED BY <3>1, <3>2, TrustAssumption DEF Request
  <2>2. /\ Begin(n, Waiting(store[n], r), SaveThenMark(m, "pending"))
        /\ UNCHANGED <<peers, dirty, stale>> /\ Free(n)
    BY <1>6 DEF RequestTrust, registry
  <2>3. {r.from, r.to} = {n, m}
    OBVIOUS
  <2> HIDE DEF r
  <2> QED BY <1>2, <2>1, <2>2, <2>3
<1>7. CASE Revoke(n, m)
  BY <1>3, <1>7 DEF Revoke, registry, history
<1>8. ASSUME NEW r \in store[n].pending, NEW ok \in {"approve", "reject"}, Decide(n, r, ok)
      PROVE  Free(n) /\ Begins(n)
  BY <1>0, <1>5, <1>8 DEF Decide
<1>9. CASE HandleTrustRequest(n)
  <2> DEFINE r == Head(requests[n])
  <2>1. r \in Request /\ r.to = n
    BY <1>9, TakeTyped, FirstOnTheWay DEF HandleTrustRequest, TakeRequest, TInv
  <2>2. \/ Respond(n, r, "approve")
        \/ /\ Begin(n, Waiting(store[n], r), SaveThenMark(r.from, "pending"))
           /\ UNCHANGED <<peers, dirty, stale>>
    BY <1>9 DEF HandleTrustRequest, registry, history
  <2>3. Free(n)
    BY <1>9 DEF HandleTrustRequest
  <2> HIDE DEF r
  <2>4. r.from \in Node /\ {r.from, r.to} = {n, r.from}
    BY <2>1 DEF Request
  <2> QED BY <2>1, <2>2, <2>3, <2>4, <1>2, <1>5
<1>10. CASE HandleTrustResponse(n)
  <2> DEFINE a == Head(responses[n])
  <2>1. a.req \in Request /\ a.req.to \in Node /\ a.ok \in {"approve", "reject"}
    BY <1>10, TakeTyped DEF HandleTrustResponse, Answer, Request, TInv
  <2>2. /\ Begin(n, Settled(Decided(store[n], a.req.to, a.ok), a.req),
                 MarkThenSave(a.req.to, Verdict(a.ok)))
        /\ a.req \in Outbound(n, a.req.to) /\ Free(n)
        /\ UNCHANGED <<peers, dirty, stale>>
    BY <1>10 DEF HandleTrustResponse, registry, history
  <2> HIDE DEF a
  <2>3. {a.req.from, a.req.to} = {n, a.req.to}
    BY <2>2 DEF Outbound
  <2> QED BY <1>4, <2>1, <2>2, <2>3
<1>11. CASE HandleTrustRevoke(n)
  <2> DEFINE k == Head(revocations[n])
  <2>1. k \in Node
    BY <1>11, TakeTyped DEF HandleTrustRevoke, TInv
  <2>2. /\ Begin(n, Withdrawn(store[n], k), TrySaveThenMark(k, "revoked"))
        /\ Free(n) /\ Known(n, k) /\ UNCHANGED <<peers, dirty, stale>>
    BY <1>11 DEF HandleTrustRevoke, registry, history
  <2> HIDE DEF k
  <2> QED BY <1>0, <1>3, <2>1, <2>2
<1> QED BY <1>6, <1>7, <1>8, <1>9, <1>10, <1>11

\* What is due of the work of an operation, and after its next step.
LEMMA DueWork ==
  ASSUME NEW m \in Node, NEW t \in Status, NEW work \in Left(m, t)
  PROVE  /\ work # <<>> /\ Head(work).peer = m /\ Head(work).trust = t
         /\ Head(work).do \in {"save", "trySave", "mark"}
         /\ work \in Whole(m, t) => SaveDue(work) /\ MarkDue(work, m)
         /\ \A k : MarkDue(work, k) => k = m
         /\ Head(work).do = "mark" => /\ Tail(work) \in {<<>>, SaveOnly(m, t)}
                                      /\ SaveDue(work) => SaveDue(Tail(work))
         /\ Head(work).do # "mark" => /\ Tail(work) \in {<<>>, MarkOnly(m, t)}
                                      /\ MarkDue(work, m) => MarkDue(Tail(work), m)
         /\ Head(work).do = "save" => work = SaveThenMark(m, t) \/ ~MarkDue(work, m)
<1> DEFINE e(do) == Do(do, m, t)
<1>1. \A do : e(do).do = do /\ e(do).peer = m /\ e(do).trust = t
  BY DEF Do
<1>2. \/ work \in {<<e("save"), e("mark")>>, <<e("mark"), e("save")>>, <<e("trySave"), e("mark")>>}
      \/ work \notin Whole(m, t) /\ work \in {<<e("mark")>>, <<e("save")>>}
  BY DEF Left, Whole, SaveThenMark, MarkThenSave, TrySaveThenMark, MarkOnly, SaveOnly
<1>3. /\ SaveThenMark(m, t) = <<e("save"), e("mark")>>
      /\ MarkOnly(m, t) = <<e("mark")>> /\ SaveOnly(m, t) = <<e("save")>>
  BY DEF SaveThenMark, MarkOnly, SaveOnly
<1> HIDE DEF e
<1>4. CASE work = <<e("save"), e("mark")>>
  BY <1>1, <1>3, <1>4 DEF SaveDue, MarkDue
<1>5. CASE work = <<e("mark"), e("save")>>
  BY <1>1, <1>3, <1>5 DEF SaveDue, MarkDue
<1>6. CASE work = <<e("trySave"), e("mark")>>
  BY <1>1, <1>3, <1>6 DEF SaveDue, MarkDue
<1>7. CASE work = <<e("mark")>> /\ work \notin Whole(m, t)
  BY <1>1, <1>3, <1>7 DEF SaveDue, MarkDue
<1>8. CASE work = <<e("save")>> /\ work \notin Whole(m, t)
  BY <1>1, <1>3, <1>8 DEF SaveDue, MarkDue
<1> QED BY <1>2, <1>4, <1>5, <1>6, <1>7, <1>8

\* The three copies at one Bot.  What an operation has still to do is to save and
\* to mark what the memory says already, or one of the two; the file lacks the
\* memory only while a save is due, or after one failed; the registry lacks it only
\* of a peer whose mark is due, or of a stale entry.
Agree(n) ==
  /\ Free(n) \/ \E m \in Node, t \in Status : todo[n] \in Left(m, t) /\ Fits(store[n], m, t)
  /\ n \in dirty \/ disk[n] = store[n] \/ SaveDue(todo[n])
  /\ \A m \in Node : <<n, m>> \in stale \/ MarkDue(todo[n], m) \/ Fits(store[n], m, peers[n][m])

\* A step that does not touch what Agree(k) speaks of.
LEMMA AgreeKept ==
  ASSUME NEW k \in Node, Agree(k), store'[k] = store[k], disk'[k] = disk[k],
         todo'[k] = todo[k], k \in dirty => k \in dirty',
         \A m \in Node : /\ <<k, m>> \in stale => <<k, m>> \in stale'
                         /\ \/ peers'[k][m] = peers[k][m] \/ peers'[k][m] = "absent"
  PROVE  Agree(k)'
<1>1. \A m \in Node : Fits(store[k], m, peers[k][m]) => Fits(store[k], m, peers'[k][m])
  BY DEF Fits
<1> QED BY <1>1 DEF Agree, Free

\* After an operation began, all it changed is due.
LEMMA AgreeBegun ==
  ASSUME TInv, SelfOK, NEW n \in Node, Agree(n), Free(n), Begins(n)
  PROVE  Agree(n)'
<1>1. PICK k \in Node, t \in Status, state \in TrustState :
        \E work : /\ Begin(n, state, work) /\ work \in Whole(k, t)
                  /\ Fits(state, k, t)
                  /\ \A m \in Node \ {n, k} : Same(store[n], state, m)
                  /\ UNCHANGED <<peers, dirty, stale>>
  BY DEF Begins
<1>2. PICK work : /\ Begin(n, state, work) /\ work \in Whole(k, t)
                  /\ \A m \in Node \ {n, k} : Same(store[n], state, m)
  BY <1>1
<1>3. /\ store'[n] = state /\ todo'[n] = work /\ peers' = peers /\ stale' = stale
      /\ Fits(state, k, t)
  BY <1>1, <1>2, BeginEffect DEF TInv
<1>4. SaveDue(work) /\ MarkDue(work, k) /\ work \in Left(k, t)
  <2>1. work \in Left(k, t)
    BY <1>2 DEF Left
  <2> QED BY <1>2, <2>1, DueWork
<1>5. ASSUME NEW m \in Node
      PROVE  <<n, m>> \in stale \/ MarkDue(work, m) \/ Fits(state, m, peers[n][m])
  <2>1. CASE m = k
    BY <1>4, <2>1
  <2>2. CASE m = n
    <3>1. peers[n][m] = "absent"
      BY <2>2 DEF SelfOK
    <3> QED BY <3>1 DEF Fits
  <2>3. CASE m \in Node \ {n, k}
    <3>1. ~MarkDue(todo[n], m)
      BY DEF Free, MarkDue
    <3>2. Same(store[n], state, m)
      BY <1>2, <2>3
    <3> QED BY <3>1, <3>2, SameFits DEF Agree
  <2> QED BY <2>1, <2>2, <2>3
<1> QED BY <1>3, <1>4, <1>5 DEF Agree

\* The steps of what is left of an operation.
LEMMA AgreeRest ==
  ASSUME TInv, NEW n \in Node, Agree(n), Mark(n) \/ Save(n) \/ SaveFails(n)
  PROVE  Agree(n)'
<1> DEFINE work == todo[n]
<1>0. ~Free(n) /\ store' = store
  BY DEF Free, Mark, Save, SaveFails
<1>1. PICK k \in Node, t \in Status : work \in Left(k, t) /\ Fits(store[n], k, t)
  BY <1>0 DEF Agree
<1>2. /\ work # <<>> /\ Head(work).peer = k /\ Head(work).trust = t
      /\ Head(work).do \in {"save", "trySave", "mark"}
      /\ \A m : MarkDue(work, m) => m = k
      /\ Head(work).do = "mark" => /\ Tail(work) \in {<<>>, SaveOnly(k, t)}
                                   /\ SaveDue(work) => SaveDue(Tail(work))
      /\ Head(work).do # "mark" => /\ Tail(work) \in {<<>>, MarkOnly(k, t)}
                                   /\ MarkDue(work, k) => MarkDue(Tail(work), k)
      /\ Head(work).do = "save" => work = SaveThenMark(k, t) \/ ~MarkDue(work, k)
  BY <1>1, DueWork
<1>3. /\ n \in dirty \/ disk[n] = store[n] \/ SaveDue(work)
      /\ \A m \in Node : <<n, m>> \in stale \/ MarkDue(work, m) \/ Fits(store[n], m, peers[n][m])
  BY DEF Agree
<1>4. Tail(work) = <<>> \/ Tail(work) \in Left(k, t)
  BY <1>2 DEF Left
<1>5. todo'[n] \in {<<>>, Tail(work)}
  BY DEF Mark, Save, SaveFails, TInv, TypeOK
<1> HIDE DEF work
<1>6. (Free(n) \/ \E m \in Node, s \in Status : todo[n] \in Left(m, s) /\ Fits(store[n], m, s))'
  BY <1>0, <1>1, <1>4, <1>5 DEF Free
<1>7. CASE Mark(n)
  <2>1. /\ Head(work).do = "mark" /\ todo'[n] = Tail(work) /\ disk' = disk /\ dirty' = dirty
        /\ stale' = IF Known(n, k) THEN stale \ {<<n, k>>} ELSE stale
        /\ peers' = IF Known(n, k) THEN [peers EXCEPT ![n][k] = t] ELSE peers
    BY <1>2, <1>7 DEF Mark, work, TInv, TypeOK
  <2>2. n \in dirty' \/ disk'[n] = store'[n] \/ SaveDue(todo'[n])
    BY <1>0, <1>2, <1>3, <2>1
  <2>3. ASSUME NEW m \in Node
        PROVE  <<n, m>> \in stale' \/ Fits(store'[n], m, peers'[n][m])
    <3>1. CASE m = k /\ Known(n, k)
      <4>1. peers'[n][k] = t
        BY <2>1, <3>1 DEF TInv, TypeOK
      <4> QED BY <1>0, <1>1, <3>1, <4>1
    <3>2. CASE m = k /\ ~Known(n, k)
      BY <2>1, <3>2 DEF Known, Fits
    <3>3. CASE m # k
      <4>1. peers'[n][m] = peers[n][m] /\ (<<n, m>> \in stale => <<n, m>> \in stale')
        BY <2>1, <3>3 DEF TInv, TypeOK
      <4> QED BY <1>0, <1>2, <1>3, <3>3, <4>1
    <3> QED BY <3>1, <3>2, <3>3
  <2> QED BY <1>6, <2>2, <2>3 DEF Agree
<1>8. CASE Save(n)
  <2>1. /\ Head(work).do # "mark" /\ todo'[n] = Tail(work) /\ disk'[n] = store[n]
        /\ stale' = stale /\ peers' = peers
    BY <1>8 DEF Save, Saved, work, registry, TInv, TypeOK
  <2>2. \A m \in Node : <<n, m>> \in stale' \/ MarkDue(todo'[n], m) \/ Fits(store'[n], m, peers'[n][m])
    BY <1>0, <1>2, <1>3, <2>1
  <2> QED BY <1>0, <1>6, <2>1, <2>2 DEF Agree
<1>9. CASE SaveFails(n)
  <2>1. /\ Head(work).do # "mark" /\ n \in dirty' /\ peers' = peers
        /\ todo'[n] = IF Head(work).do = "save" THEN <<>> ELSE Tail(work)
        /\ stale' = IF work = SaveThenMark(k, t) THEN stale \cup {<<n, k>>} ELSE stale
    BY <1>2, <1>9 DEF SaveFails, work, registry, TInv, TypeOK
  <2>2. \A m \in Node : <<n, m>> \in stale' \/ MarkDue(todo'[n], m) \/ Fits(store'[n], m, peers'[n][m])
    <3>1. CASE Head(work).do = "save"
      BY <1>0, <1>2, <1>3, <2>1, <3>1
    <3>2. CASE Head(work).do # "save"
      BY <1>0, <1>2, <1>3, <2>1, <3>2
    <3> QED BY <3>1, <3>2
  <2> QED BY <1>6, <2>1, <2>2 DEF Agree
<1> QED BY <1>7, <1>8, <1>9

\* A restart reads trust.json and starts with an empty registry.
LEMMA AgreeRestarted ==
  ASSUME TInv, NEW n \in Node, Restart(n)
  PROVE  Agree(n)'
<1>1. /\ store'[n] = disk[n] /\ disk' = disk /\ todo'[n] = <<>>
      /\ \A m \in Node : peers'[n][m] = "absent"
  BY DEF Restart, TInv, TypeOK
<1> QED BY <1>1 DEF Agree, Free, Fits

\* An announcement marks the entry it inserts stale, unless it fits the memory.
LEMMA AgreeInserted ==
  ASSUME TInv, NEW n \in Node, Agree(n), NEW x \in reading[n], AnnounceInsert(n, x)
  PROVE  Agree(n)'
<1>0. x.peer \in Node
  BY DEF TInv, TypeOK
<1>1. /\ store' = store /\ disk' = disk /\ todo' = todo /\ dirty' = dirty
      /\ stale' = IF ~Free(n) \/ x.trust # Persisted(store[n], x.peer)
                  THEN stale \cup {<<n, x.peer>>} ELSE stale
      /\ \A m \in Node : peers'[n][m] = IF ~Known(n, m) /\ m = x.peer THEN x.trust
                                        ELSE peers[n][m]
  BY <1>0 DEF AnnounceInsert, trustState, TInv, TypeOK
<1>2. ASSUME NEW m \in Node
      PROVE  <<n, m>> \in stale' \/ MarkDue(todo[n], m) \/ Fits(store[n], m, peers'[n][m])
  <2>1. CASE m # x.peer \/ Known(n, m)
    BY <1>1, <2>1 DEF Agree
  <2>2. CASE m = x.peer /\ ~Known(n, m)
    BY <1>1, <2>2, PersistedFits
  <2> QED BY <2>1, <2>2
<1> QED BY <1>1, <1>2 DEF Agree, Free

\* Memory, trust.json and the registry of every Bot agree, but for what is due.
AgreeOK == \A n \in Node : Agree(n)

LEMMA AgreeStep ==
  ASSUME TInv, SelfOK, NamesOK, MessagesOK, SpentOK, HeldOwn, AgreeOK, [Next]_vars
  PROVE  AgreeOK'
<1>1. ASSUME NEW n \in Node, Agree(n)',
             \A k \in Node \ {n} : /\ store'[k] = store[k] /\ disk'[k] = disk[k]
                                   /\ todo'[k] = todo[k] /\ peers'[k] = peers[k]
                                   /\ k \in dirty => k \in dirty'
                                   /\ \A m \in Node : <<k, m>> \in stale => <<k, m>> \in stale'
      PROVE  AgreeOK'
  <2>1. \A k \in Node \ {n} : Agree(k)'
    BY <1>1, AgreeKept DEF AgreeOK
  <2> QED BY <1>1, <2>1 DEF AgreeOK
<1>2. ASSUME NEW n \in Node, NEW m \in Node,
             \/ RequestTrust(n, m) \/ Revoke(n, m)
             \/ \E r \in store[n].pending, ok \in {"approve", "reject"} : Decide(n, r, ok)
             \/ HandleTrustRequest(n) \/ HandleTrustResponse(n) \/ HandleTrustRevoke(n)
      PROVE  AgreeOK'
  <2>1. Free(n) /\ Begins(n)
    BY <1>2, OperationBegins
  <2>2. Agree(n)'
    BY <2>1, AgreeBegun DEF AgreeOK
  <2>3. PICK state, work : Begin(n, state, work) /\ UNCHANGED <<peers, dirty, stale>>
    BY <2>1 DEF Begins
  <2>4. disk' = disk /\ \A k \in Node \ {n} : store'[k] = store[k] /\ todo'[k] = todo[k]
    BY <2>3, BeginEffect DEF TInv
  <2> QED BY <1>1, <2>2, <2>3, <2>4
<1>3. ASSUME NEW n \in Node, Mark(n) \/ Save(n) \/ SaveFails(n) PROVE AgreeOK'
  <2>1. Agree(n)'
    BY <1>3, AgreeRest DEF AgreeOK
  <2> DEFINE k == Head(todo[n]).peer
             t == Head(todo[n]).trust
  <2>2. CASE Mark(n)
    <3>1. /\ store' = store /\ disk' = disk /\ dirty' = dirty
          /\ todo' = [todo EXCEPT ![n] = Tail(@)]
          /\ peers' = IF Known(n, k) THEN [peers EXCEPT ![n][k] = t] ELSE peers
          /\ stale' = IF Known(n, k) THEN stale \ {<<n, k>>} ELSE stale
      BY <2>2 DEF Mark
    <3> HIDE DEF k, t
    <3> QED BY <1>1, <2>1, <3>1 DEF TInv, TypeOK
  <2>3. CASE Save(n)
    BY <1>1, <2>1, <2>3 DEF Save, Saved, registry, TInv, TypeOK
  <2>4. CASE SaveFails(n)
    <3>1. /\ store' = store /\ peers' = peers /\ disk' \in {disk, Saved(n)}
          /\ \A j \in Node \ {n} : todo'[j] = todo[j]
          /\ dirty \subseteq dirty'
          /\ stale' = stale \/ stale' = stale \cup {<<n, k>>}
      BY <2>4 DEF SaveFails, registry, TInv, TypeOK
    <3> HIDE DEF k
    <3>2. \A j \in Node \ {n} : disk'[j] = disk[j]
      BY <3>1 DEF Saved, TInv, TypeOK
    <3> QED BY <1>1, <2>1, <3>1, <3>2
  <2> QED BY <1>3, <2>2, <2>3, <2>4
<1>4. ASSUME NEW n \in Node, Restart(n) PROVE AgreeOK'
  BY <1>1, <1>4, AgreeRestarted DEF Restart, TInv, TypeOK
<1>5. ASSUME NEW n \in Node, NEW x \in reading[n], AnnounceInsert(n, x) PROVE AgreeOK'
  <2>1. Agree(n)'
    BY <1>5, AgreeInserted DEF AgreeOK
  <2>2. /\ UNCHANGED <<store, disk, todo, dirty>> /\ stale \subseteq stale'
        /\ \A k \in Node \ {n} : peers'[k] = peers[k]
    BY <1>5 DEF AnnounceInsert, trustState, TInv, TypeOK
  <2> QED BY <1>1, <2>1, <2>2
<1>6. ASSUME NEW n \in Node, NEW m \in Node, Depart(n, m) PROVE AgreeOK'
  <2>1. /\ UNCHANGED <<store, disk, todo, dirty>> /\ stale' = stale \ {<<n, m>>}
        /\ peers' = [peers EXCEPT ![n][m] = "absent"]
    BY <1>6 DEF Depart, trustState
  <2>2. \A j \in Node : <<n, j>> \in stale' \/ MarkDue(todo[n], j) \/ Fits(store[n], j, peers'[n][j])
    <3> SUFFICES ASSUME NEW j \in Node
                 PROVE  <<n, j>> \in stale' \/ MarkDue(todo[n], j) \/ Fits(store[n], j, peers'[n][j])
      OBVIOUS
    <3>1. CASE j = m
      <4>1. peers'[n][j] = "absent"
        BY <2>1, <3>1 DEF TInv, TypeOK
      <4> QED BY <4>1 DEF Fits
    <3>2. CASE j # m
      <4>1. peers'[n][j] = peers[n][j] /\ (<<n, j>> \in stale => <<n, j>> \in stale')
        BY <2>1, <3>2 DEF TInv, TypeOK
      <4> QED BY <4>1 DEF AgreeOK, Agree
    <3> QED BY <3>1, <3>2
  <2>3. Agree(n)'
    BY <2>1, <2>2 DEF AgreeOK, Agree, Free
  <2> QED BY <1>1, <2>1, <2>3 DEF TInv, TypeOK
<1>7. CASE UNCHANGED <<store, disk, todo, peers, dirty, stale>>
  BY <1>7, AgreeKept DEF AgreeOK
<1>8. ASSUME NEW n \in Node, NEW m \in Node,
             \/ Ask(n, m) \/ RequestRefused(n, m) \/ AnnounceKnown(n, m) \/ AnnounceRead(n, m)
             \/ Lose(n) \/ Discard(n)
      PROVE  AgreeOK'
  BY <1>7, <1>8 DEF Ask, RequestRefused, AnnounceKnown, AnnounceRead, Lose, Discard, trustState,
                    registry, history, vars
<1>9. CASE UNCHANGED vars
  BY <1>7, <1>9 DEF vars, trustState, registry, history
<1> QED BY <1>2, <1>3, <1>4, <1>5, <1>6, <1>8, <1>9 DEF Next

\* The inductive invariant of DecisionsHold.
DInv == IInv /\ AnsweredOK /\ OneAnswer /\ HeldOwn /\ AgreeOK

LEMMA DecisionsInit == Init => DInv
<1> SUFFICES ASSUME Init PROVE DInv
  OBVIOUS
<1>1. IInv
  BY InvInit
<1>2. /\ \A n \in Node : /\ store[n] = Empty /\ disk[n] = Empty /\ todo[n] = <<>>
                         /\ \A m \in Node : peers[n][m] = "absent"
      /\ answers = {}
  BY DEF Init
<1>3. AgreeOK
  BY <1>2 DEF AgreeOK, Agree, Free, Fits
<1> QED BY <1>1, <1>2, <1>3 DEF DInv, AnsweredOK, OneAnswer, HeldOwn, Held, Empty

LEMMA DecisionsFollow == DInv => DecisionsHold
<1> SUFFICES ASSUME DInv PROVE DecisionsHold
  OBVIOUS
<1>1. ASSUME NEW n \in Node, Free(n)
      PROVE  /\ n \notin dirty => disk[n] = store[n]
             /\ \A m \in Node : <<n, m>> \in stale \/ Fits(store[n], m, peers[n][m])
  <2>1. ~SaveDue(todo[n]) /\ \A m : ~MarkDue(todo[n], m)
    BY <1>1 DEF Free, SaveDue, MarkDue
  <2> QED BY <2>1 DEF DInv, AgreeOK, Agree
<1>2. DecisionsAreSaved
  BY <1>1 DEF DecisionsAreSaved
<1>3. RegistryFollows
  BY <1>1 DEF RegistryFollows, Fits
<1> QED BY <1>2, <1>3 DEF DecisionsHold, DInv

\* A request is decided one way, and between operations trust.json holds the memory
\* and the registry agrees with it, but for what a failed save or an announcement
\* left behind (trust/service.go, discovery/service.go).
THEOREM Decisions == Spec => []DecisionsHold
<1>1. DInv /\ [Next]_vars => DInv'
  <2> SUFFICES ASSUME DInv, [Next]_vars PROVE DInv'
    OBVIOUS
  <2>1. /\ TInv /\ SelfOK /\ NamesOK /\ MessagesOK /\ SpentOK /\ WithdrawOK
        /\ TrustIsConsent /\ AnsweredOK /\ OneAnswer /\ HeldOwn /\ AgreeOK
    BY DEF DInv, IInv, TInv
  <2>2. TInv' /\ SelfOK' /\ NamesOK'
    BY <2>1, TypeStep, SelfStep, NamesStep
  <2>3. MessagesOK' /\ SpentOK' /\ WithdrawOK' /\ TrustIsConsent'
    BY <2>1, MessagesStep, SpentStep, WithdrawStep, ConsentStep
  <2>4. AnsweredOK' /\ OneAnswer' /\ HeldOwn' /\ AgreeOK'
    BY <2>1, AnsweredStep, HeldStep, AgreeStep
  <2> QED BY <2>2, <2>3, <2>4 DEF DInv, IInv, TInv
<1> QED BY <1>1, DecisionsInit, DecisionsFollow, PTL DEF Spec

=============================================================================

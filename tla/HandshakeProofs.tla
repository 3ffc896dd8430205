-------------------------- MODULE HandshakeProofs --------------------------
(***************************************************************************)
(* That a departure in Handshake holds, that no peer is left pending, and  *)
(* that a challenge is answered once, for any set of Bots and any bounds.  *)
(***************************************************************************)
EXTENDS Handshake, WellFoundedInduction, TLAPS

Discoveries == [type : {"announce", "depart"}, from : Bots, to : Bots, ts : Int, copy : {1, 2}]
Sealed == [type : {"request", "response", "ack"}, from : Bots, to : Bots, ts : -MsgAge..0,
           copy : {1, 2}, id : Id]
Departure == [bot : Bots, ts : -MaxAge..Skew]

DirectoryTyped ==
  /\ up \subseteq Bots
  /\ lastPub \in [Bots -> {-1, 0}]
  /\ peers \in [Bots -> SUBSET Entry]
  /\ latest \in [Bots -> SUBSET Claim]
  /\ departed \in [Bots -> SUBSET Departure]
  /\ faults \in 0..MaxFaults

AuthTyped ==
  /\ authing \in [Bots -> SUBSET Bots]
  /\ running \in [Bots -> SUBSET Call]
  /\ acks \in [Bots -> SUBSET Answer] /\ answering \in [Bots -> SUBSET Answer]
  /\ replay \in [Bots -> SUBSET Seen] /\ replayFile \in [Bots -> SUBSET Seen]
  /\ answered \subseteq Id

TInv == DirectoryTyped /\ AuthTyped /\ net \subseteq Discoveries \cup Sealed

\* A departure is remembered as long as a claim that is as new shuts out what is older.
GoneOK ==
  \A a \in Bots : \A d \in departed[a] :
    \E c \in latest[a] : c.bot = d.bot /\ c.ts >= d.ts /\ c.expires >= d.ts + MaxAge

\* The copies of a request are to the same Bot, and as old.
Requests == {m \in net : m.type = "request"}
CopiesOK == \A m, n \in Requests : m.id = n.id => m.to = n.to /\ m.ts = n.ts

\* The replay guard knows a request that was answered as long as a copy is on its
\* way, and its file does.
Guards(seen, m) == \E e \in seen : e.kind = "request" /\ e.id = m.id /\ e.ts >= m.ts
SeenOK ==
  \A m \in Requests : m.id \in answered =>
    Guards(replayFile[m.to], m) /\ (m.to \in up => Guards(replay[m.to], m))

-----------------------------------------------------------------------------
(***************************************************************************)
(* The operators                                                           *)
(***************************************************************************)

LEMMA MaxOfTwo ==
  ASSUME NEW i \in Int, NEW j \in Int
  PROVE  Max({i, j}) = IF i >= j THEN i ELSE j
<1> DEFINE k == IF i >= j THEN i ELSE j
<1>1. k \in {i, j} /\ \A y \in {i, j} : k >= y
  OBVIOUS
<1>2. Max({i, j}) \in {i, j} /\ \A y \in {i, j} : Max({i, j}) >= y
  <2> HIDE DEF k
  <2> QED BY <1>1 DEF Max
<1> QED BY <1>1, <1>2

\* The identifier of a new challenge is one nothing refers to.
LEMMA MinOfSome ==
  ASSUME NEW S \in SUBSET Nat, S # {}
  PROVE  Min(S) \in S
<1>1. PICK x \in S : \A y \in S : ~(<<y, x>> \in OpToRel(<, Nat))
  BY NatLessThanWellFounded, WFMin
<1>2. \A y \in S : x <= y
  <2> SUFFICES ASSUME NEW y \in S PROVE x <= y
    OBVIOUS
  <2>1. ~(y < x)
    BY <1>1 DEF OpToRel
  <2> QED BY <2>1
<1> QED BY <1>1, <1>2 DEF Min

LEMMA NewId ==
  ASSUME Unused # {}
  PROVE  Min(Unused) \in Unused /\ Min(Unused) \in Id
<1>1. Unused \in SUBSET Nat /\ Unused \subseteq Id
  BY HandshakeAssumption DEF Unused, Id
<1> QED BY <1>1, MinOfSome

\* What the changes of a registry do to it.
LEMMA WithAuthEffect ==
  ASSUME NEW a \in Bots, NEW b, NEW status \in AuthStatus, peers[a] \subseteq Entry
  PROVE  /\ WithAuth(a, b, status) \subseteq Entry
         /\ \A p \in WithAuth(a, b, status) :
              /\ Listed(a, p.bot)
              /\ \/ p.bot = b /\ p.auth = status
                 \/ p \in peers[a] /\ p.bot # b
<1> SUFFICES ASSUME NEW p \in WithAuth(a, b, status)
             PROVE  /\ p \in Entry /\ Listed(a, p.bot)
                    /\ \/ p.bot = b /\ p.auth = status
                       \/ p \in peers[a] /\ p.bot # b
  OBVIOUS
<1>1. PICK q \in peers[a] : p = IF q.bot = b THEN [q EXCEPT !.auth = status, !.seen = 0] ELSE q
  BY DEF WithAuth
<1>2. q \in Entry /\ 0 \in -(Ttl + 1)..0
  BY DirectoryAssumption
<1>3. CASE q.bot = b
  BY <1>1, <1>2, <1>3 DEF Entry, Listed
<1>4. CASE q.bot # b
  BY <1>1, <1>2, <1>4 DEF Listed
<1> QED BY <1>3, <1>4

LEMMA RefreshedEffect ==
  ASSUME NEW a \in Bots, NEW b \in Bots, peers[a] \subseteq Entry
  PROVE  /\ Refreshed(a, b) \subseteq Entry
         /\ \A p \in Refreshed(a, b) :
              p.auth = "pending" => \E q \in peers[a] : q.bot = p.bot /\ q.auth = "pending"
<1> SUFFICES ASSUME NEW p \in Refreshed(a, b)
             PROVE  /\ p \in Entry
                    /\ p.auth = "pending" => \E q \in peers[a] : q.bot = p.bot /\ q.auth = "pending"
  OBVIOUS
<1>1. CASE p \in peers[a]
  BY <1>1
<1>2. CASE p \notin peers[a]
  <2>1. PICK s \in IF Listed(a, b) THEN AuthOf(a, b) ELSE {"seen"} :
          p = [bot |-> b, auth |-> s, seen |-> 0]
    BY <1>2 DEF Refreshed
  <2>2. \/ s = "seen"
        \/ \E q \in peers[a] : q.bot = b /\ q.auth = s
    BY <2>1 DEF AuthOf
  <2>3. s \in AuthStatus
    BY <2>2 DEF Entry, AuthStatus
  <2>4. p \in Entry
    BY <2>1, <2>3, DirectoryAssumption DEF Entry
  <2> QED BY <2>1, <2>2, <2>4
<1> QED BY <1>1, <1>2

LEMMA NextTimestampTyped ==
  ASSUME DirectoryTyped, NEW b \in Bots
  PROVE  NextTimestamp(b) \in Int /\ (lastPub[b] < 0 => NextTimestamp(b) = 0)
<1>1. lastPub[b] \in {-1, 0}
  BY DEF DirectoryTyped
<1>2. lastPub[b] + 1 \in Int /\ 0 \in Int
  BY <1>1
<1>3. NextTimestamp(b) = IF 0 >= lastPub[b] + 1 THEN 0 ELSE lastPub[b] + 1
  BY <1>2, MaxOfTwo DEF NextTimestamp
<1> QED BY <1>1, <1>3

LEMMA DiscoveryTyped ==
  ASSUME NEW b \in Bots, NEW kind \in {"announce", "depart"}, NEW ts \in Int
  PROVE  Discovery(kind, b, ts) \subseteq Discoveries
BY DEF Discovery, Discoveries

LEMMA AuthMessageTyped ==
  ASSUME NEW kind \in {"request", "response", "ack"}, NEW a \in Bots, NEW b \in Bots, NEW i \in Id
  PROVE  Auth(kind, a, b, i) \in Sealed
BY DirectoryAssumption DEF Auth, Sealed

\* Aging keeps a timestamp where it is compared.
LEMMA OlderEffect ==
  ASSUME NEW ts \in Past..Skew
  PROVE  Older(ts) \in Past..Skew /\ Older(ts) >= ts - 1
<1>1. Past \in Int /\ ts \in Int /\ ts >= Past /\ ts <= Skew
  BY DirectoryAssumption DEF Past
<1>2. Older(ts) = IF ts - 1 >= Past THEN ts - 1 ELSE Past
  <2> HIDE DEF Past
  <2> QED BY <1>1, MaxOfTwo DEF Older
<1> QED BY <1>1, <1>2, DirectoryAssumption DEF Past

-----------------------------------------------------------------------------
(***************************************************************************)
(* Types                                                                   *)
(***************************************************************************)

\* A claim that is accepted is remembered.
LEMMA RememberTyped ==
  ASSUME TInv, NEW a \in Bots, NEW m \in Discoveries, Fresh(a, m), Remember(a, m)
  PROVE  latest' \in [Bots -> SUBSET Claim]
<1>1. m.ts \in Past..Skew /\ m.from \in Bots /\ MaxAge + Skew \in 0..MaxAge + Skew
  BY DirectoryAssumption DEF Fresh, InTime, Past, Discoveries
<1>2. [bot |-> m.from, ts |-> m.ts, expires |-> MaxAge + Skew] \in Claim
  BY <1>1 DEF Claim
<1> QED BY <1>2 DEF Remember, TInv, DirectoryTyped

LEMMA DiscoveryMessage ==
  ASSUME TInv, NEW m \in net
  PROVE  /\ m.from \in Bots /\ m.to \in Bots /\ m.ts \in Int
         /\ m.type \in {"announce", "depart"} => m \in Discoveries
         /\ m.type \in {"request", "response", "ack"} => m \in Sealed
<1>1. m \in Discoveries \/ m \in Sealed
  BY DEF TInv
<1>2. -MsgAge..0 \subseteq Int
  BY DirectoryAssumption
<1> QED BY <1>1, <1>2 DEF Discoveries, Sealed

LEMMA AnnounceTyped ==
  ASSUME TInv, NEW b \in Bots, Announce(b)
  PROVE  DirectoryTyped' /\ net' \subseteq Discoveries \cup Sealed
<1>1. NextTimestamp(b) = 0
  BY NextTimestampTyped DEF TInv, Announce
<1> QED BY <1>1, DiscoveryTyped DEF TInv, Announce, DirectoryTyped

LEMMA HandleDepartTyped ==
  ASSUME TInv, NEW a \in Bots, NEW m \in net, HandleDepart(a, m)
  PROVE  DirectoryTyped' /\ net' \subseteq Discoveries \cup Sealed
<1>1. m \in Discoveries /\ m.from \in Bots
  BY DiscoveryMessage DEF HandleDepart
<1>2. net' \subseteq Discoveries \cup Sealed
  BY DEF HandleDepart, TInv
<1>3. CASE Listed(a, m.from) /\ Fresh(a, m)
  <2>1. latest' \in [Bots -> SUBSET Claim]
    BY <1>1, <1>3, RememberTyped DEF HandleDepart
  <2>2. peers' \in [Bots -> SUBSET Entry]
    BY <1>3 DEF HandleDepart, Without, TInv, DirectoryTyped
  <2>3. [bot |-> m.from, ts |-> m.ts] \in Departure
    BY <1>1, <1>3, DirectoryAssumption DEF Fresh, InTime, Departure, Discoveries
  <2>4. departed' \in [Bots -> SUBSET Departure]
    BY <1>3, <2>3 DEF HandleDepart, TInv, DirectoryTyped
  <2> QED BY <1>2, <2>1, <2>2, <2>4 DEF HandleDepart, TInv, DirectoryTyped
<1>4. CASE ~(Listed(a, m.from) /\ Fresh(a, m))
  BY <1>2, <1>4 DEF HandleDepart, TInv, DirectoryTyped
<1> QED BY <1>3, <1>4

LEMMA HandleAnnounceTyped ==
  ASSUME TInv, NEW a \in Bots, NEW m \in net, HandleAnnounce(a, m)
  PROVE  DirectoryTyped' /\ net' \subseteq Discoveries \cup Sealed /\ m.from \in Bots
<1>1. m \in Discoveries /\ m.from \in Bots
  BY DiscoveryMessage DEF HandleAnnounce
<1>2. net' \subseteq Discoveries \cup Sealed
  BY DEF HandleAnnounce, TInv
<1>3. CASE Fresh(a, m)
  <2>1. latest' \in [Bots -> SUBSET Claim]
    BY <1>1, <1>3, RememberTyped DEF HandleAnnounce
  <2>2. peers' \in [Bots -> SUBSET Entry]
    BY <1>1, <1>3, RefreshedEffect DEF HandleAnnounce, TInv, DirectoryTyped
  <2> QED BY <1>1, <1>2, <2>1, <2>2 DEF HandleAnnounce, TInv, DirectoryTyped
<1>4. CASE ~Fresh(a, m)
  BY <1>1, <1>2, <1>4 DEF HandleAnnounce, TInv, DirectoryTyped
<1> QED BY <1>3, <1>4

LEMMA GCTyped ==
  ASSUME TInv, NEW a \in Bots, GC(a)
  PROVE  DirectoryTyped' /\ net' \subseteq Discoveries \cup Sealed
BY DEF GC, TInv, DirectoryTyped

LEMMA LifeTyped ==
  ASSUME TInv, NEW b \in Bots, Shutdown(b) \/ Crash(b) \/ Start(b)
  PROVE  DirectoryTyped' /\ net' \subseteq Discoveries \cup Sealed
<1>1. faults' \in 0..MaxFaults
  BY DirectoryAssumption DEF Shutdown, Crash, Start, Disturb, TInv, DirectoryTyped
<1>2. net' \subseteq Discoveries \cup Sealed
  BY DiscoveryTyped, NextTimestampTyped DEF Shutdown, Crash, Start, TInv
<1>3. CASE Shutdown(b) \/ Crash(b)
  BY <1>1, <1>2, <1>3 DEF Shutdown, Crash, Forgotten, TInv, DirectoryTyped
<1>4. CASE Start(b)
  BY <1>1, <1>2, <1>4 DEF Start, TInv, DirectoryTyped
<1> QED BY <1>3, <1>4

\* Everything in the directory grows older by one.
LEMMA AgeTyped ==
  ASSUME TInv, AgeDirectory
  PROVE  DirectoryTyped' /\ net' \subseteq Discoveries \cup Sealed
<1>1. up' = up /\ faults' \in 0..MaxFaults
  BY DirectoryAssumption DEF AgeDirectory, Disturb, TInv, DirectoryTyped
<1>2. lastPub' \in [Bots -> {-1, 0}]
  <2>1. ASSUME NEW b \in Bots PROVE Max({lastPub[b] - 1, -1}) = -1
    <3>1. lastPub[b] \in {-1, 0}
      BY DEF TInv, DirectoryTyped
    <3>2. lastPub[b] - 1 \in Int /\ -1 \in Int
      BY <3>1
    <3>3. Max({lastPub[b] - 1, -1}) = IF lastPub[b] - 1 >= -1 THEN lastPub[b] - 1 ELSE -1
      BY <3>2, MaxOfTwo
    <3> QED BY <3>1, <3>3
  <2> QED BY <2>1 DEF AgeDirectory
<1>3. peers' \in [Bots -> SUBSET Entry]
  <2>1. ASSUME NEW a \in Bots, NEW p \in peers[a]
        PROVE  [p EXCEPT !.seen = Max({@ - 1, -(Ttl + 1)})] \in Entry
    <3>1. p \in Entry /\ p.seen \in -(Ttl + 1)..0
      BY DEF TInv, DirectoryTyped, Entry
    <3>2. p.seen - 1 \in Int /\ -(Ttl + 1) \in Int
      BY <3>1, DirectoryAssumption
    <3>3. Max({p.seen - 1, -(Ttl + 1)}) = IF p.seen - 1 >= -(Ttl + 1) THEN p.seen - 1
                                          ELSE -(Ttl + 1)
      BY <3>2, MaxOfTwo
    <3>4. Max({p.seen - 1, -(Ttl + 1)}) \in -(Ttl + 1)..0
      BY <3>1, <3>3, DirectoryAssumption
    <3> QED BY <3>1, <3>4 DEF Entry
  <2> QED BY <2>1 DEF AgeDirectory
<1>4. latest' \in [Bots -> SUBSET Claim]
  <2>1. ASSUME NEW a \in Bots, NEW c \in latest[a], c.expires > 0
        PROVE  [c EXCEPT !.ts = Older(@), !.expires = @ - 1] \in Claim
    <3>1. c \in Claim /\ c.ts \in Past..Skew /\ c.expires \in 0..MaxAge + Skew
      BY DEF TInv, DirectoryTyped, Claim
    <3>2. Older(c.ts) \in Past..Skew /\ c.expires - 1 \in 0..MaxAge + Skew
      BY <2>1, <3>1, OlderEffect, DirectoryAssumption
    <3> QED BY <3>1, <3>2 DEF Claim
  <2> QED BY <2>1 DEF AgeDirectory, AgedClaims
<1>5. departed' \in [Bots -> SUBSET Departure]
  <2>1. ASSUME NEW a \in Bots, NEW d \in departed[a], d.ts > -MaxAge
        PROVE  [d EXCEPT !.ts = @ - 1] \in Departure
    <3>1. d \in Departure
      BY DEF TInv, DirectoryTyped
    <3> QED BY <2>1, <3>1, DirectoryAssumption DEF Departure
  <2> QED BY <2>1 DEF AgeDirectory
<1>6. net' \subseteq Discoveries \cup Sealed
  <2>1. ASSUME NEW m \in net, m.ts > -Window(m)
        PROVE  [m EXCEPT !.ts = @ - 1] \in Discoveries \cup Sealed
    <3>1. CASE m \in Discoveries
      BY <3>1 DEF Discoveries
    <3>2. CASE m \in Sealed
      <4>1. m.ts > -MsgAge
        BY <2>1, <3>2 DEF Window, Sealed
      <4> QED BY <3>2, <4>1, DirectoryAssumption DEF Sealed
    <3> QED BY <3>1, <3>2 DEF TInv
  <2> QED BY <2>1 DEF AgeDirectory
<1> QED BY <1>1, <1>2, <1>3, <1>4, <1>5, <1>6 DEF DirectoryTyped, TInv

\* Disturb and SetAuthStatus keep the directory typed.
LEMMA StatusTyped ==
  ASSUME TInv, NEW a \in Bots, NEW b, NEW status \in AuthStatus, SetAuthStatus(a, b, status)
  PROVE  /\ peers' \in [Bots -> SUBSET Entry]
         /\ \A k \in Bots \ {a} : peers'[k] = peers[k]
         /\ \A p \in peers'[a] : \/ p.bot = b /\ p.auth = status
                                 \/ p \in peers[a] /\ p.bot # b
<1>1. peers[a] \subseteq Entry
  BY DEF TInv, DirectoryTyped
<1> QED BY <1>1, WithAuthEffect DEF SetAuthStatus, TInv, DirectoryTyped

LEMMA DisturbTyped ==
  ASSUME TInv, Disturb \/ UNCHANGED faults
  PROVE  faults' \in 0..MaxFaults
BY DirectoryAssumption DEF Disturb, TInv, DirectoryTyped

\* What the guard remembers.
LEMMA RememberEffect ==
  ASSUME TInv, NEW b \in Bots, NEW m \in Sealed, NEW fails, RememberMessage(b, m, fails)
  PROVE  /\ replay' \in [Bots -> SUBSET Seen] /\ replayFile' \in [Bots -> SUBSET Seen]
         /\ \A k \in Bots \ {b} : replay'[k] = replay[k] /\ replayFile'[k] = replayFile[k]
         /\ replay[b] \subseteq replay'[b]
         /\ replayFile'[b] = IF fails = "save" THEN replayFile[b] ELSE replay'[b]
         /\ Copied(m.type, m.id) \ {m} # {} =>
              \E e \in replay'[b] : e.kind = m.type /\ e.id = m.id /\ e.ts = m.ts
<1> DEFINE e == [kind |-> m.type, id |-> m.id, ts |-> m.ts]
<1>1. e \in Seen
  BY DirectoryAssumption, HandshakeAssumption, ReplayAssumption DEF Sealed, Seen
<1>2. /\ Remembered(replay[b], m) \in SUBSET Seen /\ replay[b] \subseteq Remembered(replay[b], m)
      /\ Copied(m.type, m.id) \ {m} # {} => e \in Remembered(replay[b], m)
  <2>1. replay[b] \subseteq Seen
    BY DEF TInv, AuthTyped
  <2>2. Remembered(replay[b], m) = replay[b] \cup {e : n \in Copied(m.type, m.id) \ {m}}
    BY DEF Remembered
  <2> HIDE DEF e
  <2> QED BY <1>1, <2>1, <2>2
<1>3. /\ replay' = [replay EXCEPT ![b] = Remembered(replay[b], m)]
      /\ replayFile' = IF fails = "save" THEN replayFile
                       ELSE [replayFile EXCEPT ![b] = Remembered(replay[b], m)]
  BY DEF RememberMessage
<1>4. e.kind = m.type /\ e.id = m.id /\ e.ts = m.ts
  OBVIOUS
<1> HIDE DEF e
<1> QED BY <1>2, <1>3, <1>4 DEF TInv, AuthTyped

\* The guard of a handler.
Guarded(b, m, fails) ==
  IF Replayed(b, m)
    THEN fails = "none" /\ UNCHANGED <<replay, replayFile, faults>>
    ELSE RememberMessage(b, m, fails) /\ Failing(fails)

LEMMA GuardTyped ==
  ASSUME TInv, NEW b \in Bots, NEW m \in Sealed, NEW fails, Guarded(b, m, fails)
  PROVE  /\ replay' \in [Bots -> SUBSET Seen] /\ replayFile' \in [Bots -> SUBSET Seen]
         /\ faults' \in 0..MaxFaults
<1>1. CASE Replayed(b, m)
  BY <1>1 DEF Guarded, TInv, AuthTyped, DirectoryTyped
<1>2. CASE ~Replayed(b, m)
  BY <1>2, RememberEffect, DisturbTyped DEF Guarded, Failing
<1> QED BY <1>1, <1>2

\* A challenge starts.
LEMMA ChallengeTyped ==
  ASSUME TInv, NEW a \in Bots, NEW b \in Bots, NEW auto \in BOOLEAN, Challenge(a, b, auto),
         authing' \in [Bots -> SUBSET Bots], faults' \in 0..MaxFaults
  PROVE  TInv'
<1> DEFINE i == Min(Unused)
           c == [id |-> i, peer |-> b, auto |-> auto, result |-> "waiting"]
<1>1. i \in Id
  BY NewId DEF Challenge
<1>2. Auth("request", a, b, i) \in Sealed
  BY <1>1, AuthMessageTyped
<1>3. c \in Call
  BY <1>1 DEF Call
<1>4. /\ running' = [running EXCEPT ![a] = @ \cup {c}]
      /\ net' = net \cup {Auth("request", a, b, i)}
      /\ answered' = answered \ {i}
      /\ SetAuthStatus(a, b, "pending")
      /\ UNCHANGED <<up, lastPub, latest, departed, acks, answering, replay, replayFile>>
  BY DEF Challenge
<1> HIDE DEF i, c
<1>5. peers' \in [Bots -> SUBSET Entry]
  BY <1>4, StatusTyped DEF AuthStatus
<1> QED BY <1>2, <1>3, <1>4, <1>5 DEF TInv, DirectoryTyped, AuthTyped

LEMMA ChallengesTyped ==
  ASSUME TInv, NEW a \in Bots, NEW b \in Bots,
         AutoChallenge(a, b) \/ ApiChallenge(a, b) \/ ChallengeUnsent(a, b)
  PROVE  TInv'
<1>1. faults' \in 0..MaxFaults
  BY DisturbTyped DEF AutoChallenge, ApiChallenge, ChallengeUnsent
<1>2. authing' \in [Bots -> SUBSET Bots]
  BY DEF AutoChallenge, ApiChallenge, ChallengeUnsent, TInv, AuthTyped
<1>3. CASE \E auto \in BOOLEAN : Challenge(a, b, auto)
  BY <1>1, <1>2, <1>3, ChallengeTyped
<1>4. CASE UNCHANGED <<directory, net, running, acks, answering, replay, replayFile, answered>>
  BY <1>1, <1>2, <1>4 DEF TInv, DirectoryTyped, AuthTyped, directory
<1>5. CASE ChallengeUnsent(a, b)
  <2>1. peers' \in [Bots -> SUBSET Entry]
    BY <1>5, StatusTyped DEF ChallengeUnsent, AuthStatus
  <2> QED BY <1>1, <1>2, <1>5, <2>1 DEF ChallengeUnsent, TInv, DirectoryTyped, AuthTyped
<1> QED BY <1>3, <1>4, <1>5 DEF AutoChallenge, ApiChallenge

LEMMA ReturnTyped ==
  ASSUME TInv, NEW a \in Bots, NEW c \in running[a], Timeout(a, c) \/ Finish(a, c)
  PROVE  TInv'
<1>1. faults' \in 0..MaxFaults
  BY DisturbTyped DEF Timeout, Finish
<1>2. PICK status \in AuthStatus : Return(a, c, status)
  BY DEF Timeout, Finish, AuthStatus
<1>3. peers' \in [Bots -> SUBSET Entry]
  BY <1>2, StatusTyped DEF Return
<1> QED BY <1>1, <1>2, <1>3 DEF Return, TInv, DirectoryTyped, AuthTyped

LEMMA HandleRequestTyped ==
  ASSUME TInv, NEW b \in Bots, NEW m \in net, NEW fails, HandleRequest(b, m, fails)
  PROVE  TInv' /\ m \in Sealed /\ Guarded(b, m, fails)
<1>1. m \in Sealed /\ m.from \in Bots /\ m.id \in Id
  BY DiscoveryMessage DEF HandleRequest, Arrives, Sealed
<1>2. Guarded(b, m, fails)
  BY DEF HandleRequest, Guarded
<1>3. /\ replay' \in [Bots -> SUBSET Seen] /\ replayFile' \in [Bots -> SUBSET Seen]
      /\ faults' \in 0..MaxFaults
  BY <1>1, <1>2, GuardTyped
<1>4. peers' \in [Bots -> SUBSET Entry]
  BY StatusTyped DEF HandleRequest, AuthStatus, TInv, DirectoryTyped
<1>5. net' \subseteq Discoveries \cup Sealed
  BY <1>1, AuthMessageTyped DEF HandleRequest, TInv
<1>6. answering' \in [Bots -> SUBSET Answer]
  <2>1. [id |-> m.id, peer |-> m.from] \in Answer
    BY <1>1 DEF Answer
  <2> QED BY <2>1 DEF HandleRequest, TInv, AuthTyped
<1>7. answered' \subseteq Id
  <2>1. \A n \in Copied("request", m.id) : n.id \in Id
    BY <1>1 DEF Copied
  <2> QED BY <2>1 DEF HandleRequest, TInv, AuthTyped
<1>8. UNCHANGED <<up, lastPub, latest, departed, authing, running, acks>>
  BY DEF HandleRequest
<1> QED BY <1>1, <1>2, <1>3, <1>4, <1>5, <1>6, <1>7, <1>8 DEF TInv, DirectoryTyped, AuthTyped

LEMMA HandleResponseTyped ==
  ASSUME TInv, NEW a \in Bots, NEW m \in net, NEW fails, HandleResponse(a, m, fails)
  PROVE  TInv' /\ m \in Sealed /\ Guarded(a, m, fails)
<1>1. m \in Sealed /\ m.from \in Bots /\ m.id \in Id
  BY DiscoveryMessage DEF HandleResponse, Arrives, Sealed
<1>2. Guarded(a, m, fails)
  BY DEF HandleResponse, Guarded
<1>3. /\ replay' \in [Bots -> SUBSET Seen] /\ replayFile' \in [Bots -> SUBSET Seen]
      /\ faults' \in 0..MaxFaults
  BY <1>1, <1>2, GuardTyped
<1>4. net' \subseteq Discoveries \cup Sealed
  <2>1. \A p \in peers[a] : p.bot \in Bots
    BY DEF TInv, DirectoryTyped, Entry
  <2>2. \A p \in peers[a] : Auth("ack", a, p.bot, m.id) \in Sealed
    BY <1>1, <2>1, AuthMessageTyped
  <2> QED BY <2>2 DEF HandleResponse, TInv
<1>5. running' \in [Bots -> SUBSET Call]
  <2>1. ASSUME NEW c \in running[a]
        PROVE  /\ [c EXCEPT !.result = IF Listed(a, m.from) /\ fails = "none"
                                         THEN "ok" ELSE "bad"] \in Call
               /\ c \in Call
    <3>1. c \in Call
      BY DEF TInv, AuthTyped
    <3> QED BY <3>1 DEF Call
  <2> QED BY <2>1 DEF HandleResponse, TInv, AuthTyped
<1>6. UNCHANGED <<directory, authing, acks, answering, answered>>
  BY DEF HandleResponse
<1> QED BY <1>1, <1>2, <1>3, <1>4, <1>5, <1>6 DEF TInv, DirectoryTyped, AuthTyped, directory

LEMMA HandleAckTyped ==
  ASSUME TInv, NEW b \in Bots, NEW m \in net, NEW fails, HandleAck(b, m, fails)
  PROVE  TInv' /\ m \in Sealed /\ Guarded(b, m, fails)
<1>1. m \in Sealed
  BY DiscoveryMessage DEF HandleAck, Arrives
<1>2. Guarded(b, m, fails)
  BY DEF HandleAck, Guarded
<1>3. /\ replay' \in [Bots -> SUBSET Seen] /\ replayFile' \in [Bots -> SUBSET Seen]
      /\ faults' \in 0..MaxFaults
  BY <1>1, <1>2, GuardTyped
<1>4. peers' \in [Bots -> SUBSET Entry]
  BY StatusTyped DEF HandleAck, AuthStatus, TInv, DirectoryTyped
<1>5. acks' \in [Bots -> SUBSET Answer] /\ net' \subseteq Discoveries \cup Sealed
  BY DEF HandleAck, TInv, AuthTyped
<1>6. UNCHANGED <<up, lastPub, latest, departed, authing, running, answering, answered>>
  BY DEF HandleAck
<1> QED BY <1>1, <1>2, <1>3, <1>4, <1>5, <1>6 DEF TInv, DirectoryTyped, AuthTyped

LEMMA DiscoverTyped ==
  ASSUME TInv, NEW b \in Bots, Discover(b)
  PROVE  TInv'
<1>1. CASE UNCHANGED auth /\ DirectoryTyped' /\ net' \subseteq Discoveries \cup Sealed
  BY <1>1 DEF auth, TInv, AuthTyped
<1>2. ASSUME NEW m \in net, ReceiveAnnounce(b, m)
      PROVE  TInv'
  <2>1. DirectoryTyped' /\ net' \subseteq Discoveries \cup Sealed /\ m.from \in Bots
    BY <1>2, HandleAnnounceTyped DEF ReceiveAnnounce
  <2>2. authing' \in [Bots -> SUBSET Bots]
    BY <1>2, <2>1 DEF ReceiveAnnounce, AutoAuthenticate, TInv, AuthTyped
  <2> QED BY <1>2, <2>1, <2>2 DEF ReceiveAnnounce, TInv, AuthTyped
<1>3. CASE Announce(b) /\ UNCHANGED auth
  BY <1>1, <1>3, AnnounceTyped
<1>4. CASE GC(b) /\ UNCHANGED auth
  BY <1>1, <1>4, GCTyped
<1>5. ASSUME NEW m \in net, HandleDepart(b, m), UNCHANGED auth
      PROVE  TInv'
  BY <1>1, <1>5, HandleDepartTyped
<1> QED BY <1>2, <1>3, <1>4, <1>5 DEF Discover

LEMMA StopTyped ==
  ASSUME TInv, NEW b \in Bots, Stop(b) \/ Restart(b) \/ SaveAck(b)
  PROVE  TInv'
<1>1. CASE Stop(b)
  <2>1. DirectoryTyped' /\ net' \subseteq Discoveries \cup Sealed
    BY <1>1, LifeTyped DEF Stop
  <2> QED BY <1>1, <2>1 DEF Stop, TInv, AuthTyped
<1>2. CASE Restart(b)
  <2>1. DirectoryTyped' /\ net' \subseteq Discoveries \cup Sealed
    BY <1>2, LifeTyped DEF Restart
  <2> QED BY <1>2, <2>1 DEF Restart, TInv, AuthTyped
<1>3. CASE SaveAck(b)
  BY <1>3 DEF SaveAck, TInv, AuthTyped, DirectoryTyped, directory
<1> QED BY <1>1, <1>2, <1>3

LEMMA AgedReplayEffect ==
  ASSUME NEW seen \in SUBSET Seen
  PROVE  /\ AgedReplay(seen) \subseteq Seen
         /\ \A e \in seen : e.ts > -ReplayTtl /\ Copied(e.kind, e.id) # {} =>
              \E f \in AgedReplay(seen) : f.kind = e.kind /\ f.id = e.id /\ f.ts = e.ts - 1
<1>1. \A e \in seen : e.ts > -ReplayTtl =>
        /\ [e EXCEPT !.ts = @ - 1] \in Seen
        /\ [e EXCEPT !.ts = @ - 1].kind = e.kind /\ [e EXCEPT !.ts = @ - 1].id = e.id
        /\ [e EXCEPT !.ts = @ - 1].ts = e.ts - 1
  BY HandshakeAssumption DEF Seen
<1> QED BY <1>1 DEF AgedReplay

LEMMA TickTyped ==
  ASSUME TInv, Tick
  PROVE  TInv'
<1>1. DirectoryTyped' /\ net' \subseteq Discoveries \cup Sealed
  BY AgeTyped DEF Tick
<1>2. replay' \in [Bots -> SUBSET Seen] /\ replayFile' \in [Bots -> SUBSET Seen]
  BY AgedReplayEffect DEF Tick, TInv, AuthTyped
<1> QED BY <1>1, <1>2 DEF Tick, TInv, AuthTyped

LEMMA NetworkTyped ==
  ASSUME TInv, NEW m \in net, Lose(m) \/ Duplicate(m), UNCHANGED auth
  PROVE  TInv'
<1>1. faults' \in 0..MaxFaults
  BY DisturbTyped DEF Lose, Duplicate
<1>2. net' \subseteq Discoveries \cup Sealed
  <2>1. [m EXCEPT !.copy = 2] \in Discoveries \cup Sealed
    BY DEF TInv, Discoveries, Sealed
  <2> QED BY <2>1 DEF Lose, Duplicate, TInv
<1>3. UNCHANGED <<directory, auth>>
  BY DEF Lose, Duplicate
<1> QED BY <1>1, <1>2, <1>3 DEF TInv, DirectoryTyped, AuthTyped, directory, auth

LEMMA TypeStep ==
  ASSUME TInv, [Next]_vars
  PROVE  TInv'
<1>1. CASE UNCHANGED vars
  BY <1>1 DEF vars, directory, auth, TInv, DirectoryTyped, AuthTyped
<1> QED BY <1>1, DiscoverTyped, ChallengesTyped, ReturnTyped, HandleRequestTyped,
           HandleResponseTyped, HandleAckTyped, StopTyped, TickTyped, NetworkTyped DEF Next

LEMMA TypeInit == Init => TInv
BY DirectoryAssumption DEF Init, DirectoryInit, TInv, DirectoryTyped, AuthTyped

\* The directory, the pending challenges and the replay guard keep their types
\* (discovery/service.go, auth/service.go, replay_cache.go).
THEOREM Typing == Spec => []TypeOK
<1>1. TInv => TypeOK
  BY DirectoryAssumption DEF TInv, DirectoryTyped, AuthTyped, TypeOK
<1>2. TInv /\ [Next]_vars => TInv'
  BY TypeStep
<1> QED BY <1>1, <1>2, TypeInit, PTL DEF Spec

-----------------------------------------------------------------------------
(***************************************************************************)
(* No peer is left pending                                                 *)
(***************************************************************************)
\* What is pending after a step was pending before, and its call still runs.
LEMMA PendingKept ==
  ASSUME PendingIsLive,
         \A k \in Bots : \A p \in peers'[k] : p.auth = "pending" =>
           /\ \E q \in peers[k] : q.bot = p.bot /\ q.auth = "pending"
           /\ \A c \in running[k] : c.peer = p.bot => \E d \in running'[k] : d.peer = p.bot
  PROVE  PendingIsLive'
BY DEF PendingIsLive

LEMMA PendingStep ==
  ASSUME TInv, PendingIsLive, [Next]_vars
  PROVE  PendingIsLive'
<1> USE DEF AuthStatus
<1>a. peers \in [Bots -> SUBSET Entry] /\ running \in [Bots -> SUBSET Call]
  BY DEF TInv, DirectoryTyped, AuthTyped
<1>1. ASSUME NEW b \in Bots, Discover(b)
      PROVE  PendingIsLive'
  <2>1. running' = running
    BY <1>1 DEF Discover, ReceiveAnnounce, auth
  <2>2. CASE \A k \in Bots : peers'[k] \subseteq peers[k]
    BY <2>1, <2>2, PendingKept
  <2>3. ASSUME NEW m \in net, HandleAnnounce(b, m)
        PROVE  PendingIsLive'
    <3>1. m.from \in Bots /\ peers[b] \subseteq Entry
      BY <1>a, DiscoveryMessage
    <3>2. \A p \in Refreshed(b, m.from) :
            p.auth = "pending" => \E q \in peers[b] : q.bot = p.bot /\ q.auth = "pending"
      BY <3>1, RefreshedEffect
    <3>3. \A k \in Bots : peers'[k] = peers[k] \/ (k = b /\ peers'[k] = Refreshed(b, m.from))
      BY <1>a, <2>3 DEF HandleAnnounce
    <3> QED BY <2>1, <3>2, <3>3, PendingKept
  <2> QED BY <1>a, <1>1, <2>2, <2>3 DEF Discover, ReceiveAnnounce, Announce, HandleDepart, Without, GC
<1>2. ASSUME NEW a \in Bots, NEW b \in Bots, NEW auto \in BOOLEAN, Challenge(a, b, auto)
      PROVE  PendingIsLive'
  <2> DEFINE c == [id |-> Min(Unused), peer |-> b, auto |-> auto, result |-> "waiting"]
  <2>1. running' = [running EXCEPT ![a] = @ \cup {c}] /\ c.peer = b
    BY <1>2 DEF Challenge
  <2> HIDE DEF c
  <2>2. /\ \A k \in Bots \ {a} : peers'[k] = peers[k]
        /\ \A p \in peers'[a] : p.bot = b \/ p \in peers[a]
    BY <1>2, StatusTyped DEF Challenge
  <2>3. \A k \in Bots : running[k] \subseteq running'[k]
    BY <1>a, <2>1
  <2>4. c \in running'[a]
    BY <1>a, <2>1
  <2> QED BY <2>1, <2>2, <2>3, <2>4 DEF PendingIsLive
<1>3. ASSUME NEW a \in Bots, NEW b \in Bots, NEW status \in {"seen", "rejected", "authenticated"},
             SetAuthStatus(a, b, status),
             \A k \in Bots : \A c \in running[k] : \/ \E d \in running'[k] : d.peer = c.peer
                                                   \/ k = a /\ c.peer = b
      PROVE  PendingIsLive'
  <2>1. /\ \A k \in Bots \ {a} : peers'[k] = peers[k]
        /\ \A p \in peers'[a] : p.auth = status \/ (p \in peers[a] /\ p.bot # b)
    BY <1>3, StatusTyped
  <2>2. status # "pending"
    OBVIOUS
  <2> QED BY <1>3, <2>1, <2>2 DEF PendingIsLive
<1>4. CASE peers' = peers /\ running' = running
  BY <1>4 DEF PendingIsLive
<1>5. ASSUME NEW a \in Bots, NEW b \in Bots,
             AutoChallenge(a, b) \/ ApiChallenge(a, b) \/ ChallengeUnsent(a, b)
      PROVE  PendingIsLive'
  <2>1. CASE ChallengeUnsent(a, b)
    BY <1>3, <2>1 DEF ChallengeUnsent
  <2> QED BY <1>2, <1>4, <1>5, <2>1 DEF AutoChallenge, ApiChallenge, directory
<1>6. ASSUME NEW a \in Bots, NEW c \in running[a], Timeout(a, c) \/ Finish(a, c)
      PROVE  PendingIsLive'
  <2>1. PICK status \in {"seen", "rejected", "authenticated"} : Return(a, c, status)
    BY <1>6 DEF Timeout, Finish
  <2>2. c.peer \in Bots
    BY <1>a DEF Call
  <2>3. \A k \in Bots : \A d \in running[k] : d \in running'[k] \/ (k = a /\ d.peer = c.peer)
    BY <1>a, <2>1 DEF Return
  <2> QED BY <1>3, <2>1, <2>2, <2>3 DEF Return
<1>7. ASSUME NEW b \in Bots, NEW m \in net, NEW fails, HandleRequest(b, m, fails)
      PROVE  PendingIsLive'
  <2>1. m.from \in Bots
    BY DiscoveryMessage
  <2>2. running' = running /\ (peers' = peers \/ SetAuthStatus(b, m.from, "rejected"))
    BY <1>7 DEF HandleRequest
  <2> QED BY <1>3, <1>4, <2>1, <2>2
<1>8. ASSUME NEW b \in Bots, NEW m \in net, NEW fails, HandleAck(b, m, fails)
      PROVE  PendingIsLive'
  <2>1. m.from \in Bots
    BY DiscoveryMessage
  <2>2. running' = running /\ (peers' = peers \/ SetAuthStatus(b, m.from, "authenticated"))
    BY <1>8 DEF HandleAck
  <2> QED BY <1>3, <1>4, <2>1, <2>2
<1>9. ASSUME NEW a \in Bots, NEW m \in net, NEW fails, HandleResponse(a, m, fails)
      PROVE  PendingIsLive'
  <2> DEFINE now(c) == IF c \in Waiting(a, m)
                         THEN [c EXCEPT !.result = IF Listed(a, m.from) /\ fails = "none"
                                                     THEN "ok" ELSE "bad"]
                         ELSE c
  <2>1. peers' = peers /\ (running' = running \/
                           running' = [running EXCEPT ![a] = {now(c) : c \in running[a]}])
    BY <1>9 DEF HandleResponse, directory
  <2>2. \A c \in running[a] : now(c).peer = c.peer
    BY <1>a DEF Call
  <2> HIDE DEF now
  <2> QED BY <1>a, <2>1, <2>2 DEF PendingIsLive
<1>10. ASSUME NEW b \in Bots, Stop(b)
       PROVE  PendingIsLive'
  BY <1>a, <1>10 DEF Stop, Shutdown, Crash, Forgotten, PendingIsLive
<1>11. ASSUME NEW b \in Bots, SaveAck(b) \/ Restart(b)
       PROVE  PendingIsLive'
  BY <1>4, <1>11 DEF SaveAck, Restart, Start, directory
<1>12. CASE Tick
  <2>1. ASSUME NEW k \in Bots, NEW p \in peers'[k]
        PROVE  \E q \in peers[k] : q.bot = p.bot /\ q.auth = p.auth
    <3>1. PICK q \in peers[k] : p = [q EXCEPT !.seen = Max({q.seen - 1, -(Ttl + 1)})]
      BY <1>12, <2>1 DEF Tick, AgeDirectory
    <3>2. q \in Entry
      BY <1>a
    <3> QED BY <3>1, <3>2 DEF Entry
  <2>2. running' = running
    BY <1>12 DEF Tick
  <2> QED BY <2>1, <2>2, PendingKept
<1>13. ASSUME NEW m \in net, Lose(m) \/ Duplicate(m), UNCHANGED auth
       PROVE  PendingIsLive'
  BY <1>4, <1>13 DEF Lose, Duplicate, auth, directory
<1>14. CASE UNCHANGED vars
  BY <1>4, <1>14 DEF vars, auth, directory
<1> QED BY <1>1, <1>5, <1>6, <1>7, <1>8, <1>9, <1>10, <1>11, <1>12, <1>13, <1>14 DEF Next

\* A peer is shown as pending only while a call of StartChallenge for it runs: every
\* way out of the call, the timer and the failures included, settles the status.
THEOREM Pending == Spec => []PendingIsLive
<1>1. Init => PendingIsLive
  BY DEF Init, DirectoryInit, PendingIsLive
<1>2. TInv /\ PendingIsLive /\ [Next]_vars => TInv' /\ PendingIsLive'
  BY TypeStep, PendingStep
<1> QED BY <1>1, <1>2, TypeInit, PTL DEF Spec

-----------------------------------------------------------------------------
(***************************************************************************)
(* A departure holds                                                       *)
(***************************************************************************)
Shuts(cs, d) == \E c \in cs : c.bot = d.bot /\ c.ts >= d.ts /\ c.expires >= d.ts + MaxAge

\* What an accepted claim replaces, it shuts out as well.
LEMMA RememberShuts ==
  ASSUME TInv, NEW a \in Bots, NEW m \in Discoveries, Fresh(a, m), Remember(a, m)
  PROVE  /\ \A k \in Bots \ {a} : latest'[k] = latest[k]
         /\ \A d \in Departure : Shuts(latest[a], d) => Shuts(latest'[a], d)
         /\ Shuts(latest'[a], [bot |-> m.from, ts |-> m.ts])
<1> DEFINE e == [bot |-> m.from, ts |-> m.ts, expires |-> MaxAge + Skew]
<1>1. /\ e.bot = m.from /\ e.ts = m.ts /\ e.expires = MaxAge + Skew
      /\ m.ts \in Int /\ m.ts <= Skew
  BY DEF Fresh, InTime, Discoveries
<1>2. latest' = [latest EXCEPT ![a] = {c \in latest[a] : c.bot # m.from} \cup {e}]
  BY DEF Remember
<1> HIDE DEF e
<1>3. latest \in [Bots -> SUBSET Claim]
  BY DEF TInv, DirectoryTyped
<1>4. latest'[a] = {c \in latest[a] : c.bot # m.from} \cup {e}
      /\ \A k \in Bots \ {a} : latest'[k] = latest[k]
  BY <1>2, <1>3
<1>5. ASSUME NEW d \in Departure, Shuts(latest[a], d)
      PROVE  Shuts(latest'[a], d)
  <2>1. PICK c \in latest[a] : c.bot = d.bot /\ c.ts >= d.ts /\ c.expires >= d.ts + MaxAge
    BY <1>5 DEF Shuts
  <2>2. CASE c.bot = m.from
    <3>1. m.ts > c.ts
      BY <2>2 DEF Fresh
    <3>2. c.ts \in Int /\ d.ts \in Int /\ d.ts <= Skew
      BY <1>3, DirectoryAssumption DEF Claim, Departure, Past
    <3>3. e.ts >= d.ts /\ e.expires >= d.ts + MaxAge
      BY <1>1, <2>1, <3>1, <3>2, DirectoryAssumption
    <3> QED BY <1>1, <1>4, <2>1, <2>2, <3>3 DEF Shuts
  <2>3. CASE c.bot # m.from
    BY <1>4, <2>1, <2>3 DEF Shuts
  <2> QED BY <2>2, <2>3
<1>6. Shuts(latest'[a], [bot |-> m.from, ts |-> m.ts])
  <2>1. e.ts >= m.ts /\ e.expires >= m.ts + MaxAge
    BY <1>1, DirectoryAssumption
  <2> QED BY <1>1, <1>4, <2>1 DEF Shuts
<1> QED BY <1>4, <1>5, <1>6

LEMMA GoneStep ==
  ASSUME TInv, GoneOK, [Next]_vars
  PROVE  GoneOK'
<1>a. latest \in [Bots -> SUBSET Claim] /\ departed \in [Bots -> SUBSET Departure]
  BY DEF TInv, DirectoryTyped
<1>b. \A a \in Bots : \A d \in departed[a] : Shuts(latest[a], d)
  BY DEF GoneOK, Shuts
<1>c. (\A a \in Bots : \A d \in departed'[a] : Shuts(latest'[a], d)) => GoneOK'
  BY DEF GoneOK, Shuts
<1>1. CASE UNCHANGED <<latest, departed>>
  BY <1>b, <1>c, <1>1
<1>2. ASSUME NEW a \in Bots, NEW m \in net, HandleAnnounce(a, m)
      PROVE  GoneOK'
  <2>1. m \in Discoveries /\ departed' = departed
    BY <1>2, DiscoveryMessage DEF HandleAnnounce
  <2>2. CASE Fresh(a, m)
    <3>1. Remember(a, m)
      BY <1>2, <2>2 DEF HandleAnnounce
    <3> QED BY <1>a, <1>b, <1>c, <2>1, <2>2, <3>1, RememberShuts
  <2>3. CASE ~Fresh(a, m)
    BY <1>1, <1>2, <2>3 DEF HandleAnnounce
  <2> QED BY <2>2, <2>3
<1>3. ASSUME NEW a \in Bots, NEW m \in net, HandleDepart(a, m)
      PROVE  GoneOK'
  <2>1. m \in Discoveries
    BY <1>3, DiscoveryMessage DEF HandleDepart
  <2>2. CASE Listed(a, m.from) /\ Fresh(a, m)
    <3> DEFINE e == [bot |-> m.from, ts |-> m.ts]
    <3>1. Remember(a, m) /\ departed' = [departed EXCEPT ![a] = {d \in @ : d.bot # m.from} \cup {e}]
      BY <1>3, <2>2 DEF HandleDepart
    <3>2. /\ \A k \in Bots \ {a} : latest'[k] = latest[k]
          /\ \A d \in Departure : Shuts(latest[a], d) => Shuts(latest'[a], d)
          /\ Shuts(latest'[a], e)
      BY <2>1, <2>2, <3>1, RememberShuts
    <3> HIDE DEF e
    <3>3. /\ \A k \in Bots \ {a} : departed'[k] = departed[k]
          /\ departed'[a] \subseteq departed[a] \cup {e}
      BY <1>a, <3>1
    <3> QED BY <1>a, <1>b, <1>c, <3>2, <3>3
  <2>3. CASE ~(Listed(a, m.from) /\ Fresh(a, m))
    BY <1>1, <1>3, <2>3 DEF HandleDepart
  <2> QED BY <2>2, <2>3
<1>4. CASE AgeDirectory
  <2> SUFFICES ASSUME NEW a \in Bots, NEW d \in departed'[a]
               PROVE  Shuts(latest'[a], d)
    BY <1>c
  <2>1. PICK e \in departed[a] : e.ts > -MaxAge /\ d = [e EXCEPT !.ts = @ - 1]
    BY <1>4 DEF AgeDirectory
  <2>2. e.ts \in Int /\ d.bot = e.bot /\ d.ts = e.ts - 1
    BY <1>a, <2>1, DirectoryAssumption DEF Departure
  <2>3. PICK c \in latest[a] : c.bot = e.bot /\ c.ts >= e.ts /\ c.expires >= e.ts + MaxAge
    BY <1>b DEF Shuts
  <2>4. c \in Claim /\ c.ts \in Past..Skew /\ c.ts \in Int /\ c.expires \in Int
    BY <1>a, DirectoryAssumption DEF Claim, Past
  <2>5. c.expires > 0
    BY <2>1, <2>2, <2>3, <2>4, DirectoryAssumption
  <2> DEFINE f == [c EXCEPT !.ts = Older(@), !.expires = @ - 1]
  <2>6. f \in latest'[a]
    <3>1. latest'[a] = AgedClaims(latest[a])
      BY <1>4 DEF AgeDirectory
    <3>2. c \in {e1 \in latest[a] : e1.expires > 0}
      BY <2>5
    <3> QED BY <3>1, <3>2, Zenon DEF AgedClaims
  <2>7. f.bot = c.bot /\ f.ts = Older(c.ts) /\ f.expires = c.expires - 1
    BY <2>4 DEF Claim
  <2>8. Older(c.ts) \in Int /\ Older(c.ts) >= c.ts - 1
    BY <2>4, OlderEffect, DirectoryAssumption DEF Past
  <2> HIDE DEF f
  <2>9. f.ts >= d.ts /\ f.expires >= d.ts + MaxAge
    BY <2>2, <2>3, <2>4, <2>7, <2>8, DirectoryAssumption
  <2> QED BY <2>2, <2>3, <2>6, <2>7, <2>9 DEF Shuts
<1>5. ASSUME NEW b \in Bots, Forgotten(b)
      PROVE  GoneOK'
  BY <1>a, <1>b, <1>c, <1>5 DEF Forgotten
<1>6. ASSUME NEW b \in Bots, Discover(b)
      PROVE  GoneOK'
  BY <1>1, <1>2, <1>3, <1>6 DEF Discover, ReceiveAnnounce, Announce, GC
<1>7. ASSUME NEW a \in Bots, NEW b \in Bots,
             AutoChallenge(a, b) \/ ApiChallenge(a, b) \/ ChallengeUnsent(a, b)
      PROVE  GoneOK'
  BY <1>1, <1>7 DEF AutoChallenge, ApiChallenge, ChallengeUnsent, Challenge, directory
<1>8. ASSUME NEW a \in Bots, NEW c \in running[a], Timeout(a, c) \/ Finish(a, c)
      PROVE  GoneOK'
  BY <1>1, <1>8 DEF Timeout, Finish, Return
<1>9. ASSUME NEW b \in Bots, NEW m \in net, NEW fails,
             HandleRequest(b, m, fails) \/ HandleResponse(b, m, fails) \/ HandleAck(b, m, fails)
      PROVE  GoneOK'
  BY <1>1, <1>9 DEF HandleRequest, HandleResponse, HandleAck, directory
<1>10. ASSUME NEW b \in Bots, SaveAck(b) \/ Stop(b) \/ Restart(b)
       PROVE  GoneOK'
  BY <1>1, <1>5, <1>10 DEF SaveAck, Stop, Shutdown, Crash, Restart, Start, directory
<1>11. CASE Tick
  BY <1>4, <1>11 DEF Tick
<1>12. ASSUME NEW m \in net, Lose(m) \/ Duplicate(m)
       PROVE  GoneOK'
  BY <1>1, <1>12 DEF Lose, Duplicate, directory
<1>13. CASE UNCHANGED vars
  BY <1>1, <1>13 DEF vars, directory
<1> QED BY <1>6, <1>7, <1>8, <1>9, <1>10, <1>11, <1>12, <1>13 DEF Next

\* Only an announcement that is accepted lists a Bot that was not listed.
LEMMA ListedByAnnounce ==
  ASSUME TInv, [Next]_vars, NEW a \in Bots, NEW b \in Bots, ~Listed(a, b), Listed(a, b)'
  PROVE  \E m \in net : HandleAnnounce(a, m) /\ Fresh(a, m) /\ m.from = b
<1>a. peers \in [Bots -> SUBSET Entry]
  BY DEF TInv, DirectoryTyped
<1>1. PICK p \in peers'[a] : p.bot = b /\ \A q \in peers[a] : q.bot # b
  BY DEF Listed
<1>2. ~(peers'[a] \subseteq peers[a])
  BY <1>1
<1>3. ASSUME NEW k \in Bots, NEW j, NEW status \in AuthStatus, SetAuthStatus(k, j, status)
      PROVE  FALSE
  <2>1. peers' = [peers EXCEPT ![k] = WithAuth(k, j, status)]
    BY <1>3 DEF SetAuthStatus
  <2>2. p \in WithAuth(a, j, status) /\ peers[a] \subseteq Entry
    BY <1>a, <1>1, <1>2, <2>1
  <2> QED BY <1>1, <2>2, WithAuthEffect DEF Listed
<1>4. ASSUME NEW k \in Bots, NEW m \in net, HandleAnnounce(k, m)
      PROVE  k = a /\ Fresh(a, m) /\ m.from = b
  <2>1. peers' # peers /\ Fresh(k, m) /\ peers' = [peers EXCEPT ![k] = Refreshed(k, m.from)]
    BY <1>2, <1>4 DEF HandleAnnounce
  <2>2. k = a /\ p \in Refreshed(a, m.from)
    BY <1>a, <1>1, <1>2, <2>1
  <2>3. p.bot = m.from
    BY <1>1, <2>2 DEF Refreshed
  <2> QED BY <1>1, <2>1, <2>2, <2>3
<1>5. ASSUME NEW k \in Bots, Discover(k)
      PROVE  \E m \in net : HandleAnnounce(k, m)
  BY <1>a, <1>2, <1>5 DEF Discover, ReceiveAnnounce, Announce, HandleDepart, Without, GC
<1>6. ASSUME NEW k \in Bots, NEW j \in Bots,
             AutoChallenge(k, j) \/ ApiChallenge(k, j) \/ ChallengeUnsent(k, j)
      PROVE  FALSE
  BY <1>2, <1>3, <1>6 DEF AutoChallenge, ApiChallenge, ChallengeUnsent, Challenge, AuthStatus,
                          directory
<1>7. ASSUME NEW k \in Bots, NEW c \in running[k], Timeout(k, c) \/ Finish(k, c)
      PROVE  FALSE
  BY <1>3, <1>7 DEF Timeout, Finish, Return, AuthStatus
<1>8. ASSUME NEW k \in Bots, NEW m \in net, NEW fails,
             HandleRequest(k, m, fails) \/ HandleResponse(k, m, fails) \/ HandleAck(k, m, fails)
      PROVE  FALSE
  BY <1>2, <1>3, <1>8 DEF HandleRequest, HandleResponse, HandleAck, AuthStatus, directory
<1>9. ASSUME NEW k \in Bots, SaveAck(k) \/ Stop(k) \/ Restart(k)
      PROVE  FALSE
  BY <1>a, <1>2, <1>9 DEF SaveAck, Stop, Shutdown, Crash, Forgotten, Restart, Start, directory
<1>10. CASE Tick
  <2>1. PICK q \in peers[a] : p = [q EXCEPT !.seen = Max({q.seen - 1, -(Ttl + 1)})]
    BY <1>1, <1>10 DEF Tick, AgeDirectory
  <2>2. q \in Entry
    BY <1>a
  <2>3. p.bot = q.bot
    BY <2>1, <2>2 DEF Entry
  <2> QED BY <1>1, <2>3
<1>11. ASSUME NEW m \in net, Lose(m) \/ Duplicate(m)
       PROVE  FALSE
  BY <1>2, <1>11 DEF Lose, Duplicate, directory
<1>12. ~UNCHANGED vars
  BY <1>2 DEF vars, directory
<1> QED BY <1>4, <1>5, <1>6, <1>7, <1>8, <1>9, <1>10, <1>11, <1>12 DEF Next

\* A Bot that departed is listed again only by an announcement it made after its
\* departure, however old announcements are delayed or repeated: acceptClaim keeps the
\* tombstone as long as an older announcement is in time (discovery/service.go).
THEOREM Departures == Spec => DepartureHolds
<1> DEFINE Newer(a, b, d) == \E m \in net \ net' : m.type = "announce" /\ m.from = b /\ m.ts > d.ts
           Holds == \A a, b \in Bots : \A d \in departed[a] :
                      d.bot = b /\ ~Listed(a, b) /\ Listed(a, b)' => Newer(a, b, d)
<1>1. Init => GoneOK
  BY DEF Init, DirectoryInit, GoneOK
<1>2. TInv /\ GoneOK /\ [Next]_vars => TInv' /\ GoneOK'
  BY TypeStep, GoneStep
<1>3. TInv /\ GoneOK /\ [Next]_vars => Holds
  <2> SUFFICES ASSUME TInv, GoneOK, [Next]_vars, NEW a \in Bots, NEW b \in Bots,
                      NEW d \in departed[a], d.bot = b, ~Listed(a, b), Listed(a, b)'
               PROVE  Newer(a, b, d)
    OBVIOUS
  <2>1. PICK m \in net : HandleAnnounce(a, m) /\ Fresh(a, m) /\ m.from = b
    BY ListedByAnnounce
  <2>2. m \in net \ net' /\ m.type = "announce"
    BY <2>1 DEF HandleAnnounce
  <2>3. PICK c \in latest[a] : c.bot = b /\ c.ts >= d.ts
    BY DEF GoneOK
  <2>4. m.ts > c.ts
    BY <2>1, <2>3 DEF Fresh
  <2>5. m.ts \in Int /\ c.ts \in Int /\ d.ts \in Int
    <3>1. c \in Claim /\ d \in Departure
      BY DEF TInv, DirectoryTyped
    <3> QED BY <3>1, DiscoveryMessage, DirectoryAssumption DEF Claim, Departure, Past
  <2>6. m.ts > d.ts
    BY <2>3, <2>4, <2>5
  <2> QED BY <2>1, <2>2, <2>6
<1> QED BY <1>1, <1>2, <1>3, TypeInit, PTL DEF Spec, DepartureHolds

-----------------------------------------------------------------------------
(***************************************************************************)
(* A challenge is answered once                                            *)
(***************************************************************************)

\* What the guard makes of a message: it knows all it knew, its file knows what it
\* knows unless the save failed, and it knows the message if a copy is on its way.
LEMMA GuardEffect ==
  ASSUME TInv, NEW b \in Bots, NEW m \in Sealed, NEW fails, Guarded(b, m, fails)
  PROVE  /\ \A k \in Bots \ {b} : replay'[k] = replay[k] /\ replayFile'[k] = replayFile[k]
         /\ replay[b] \subseteq replay'[b]
         /\ replayFile'[b] \in {replayFile[b], replay'[b]}
         /\ ~Replayed(b, m) /\ fails # "save" =>
              /\ replayFile'[b] = replay'[b]
              /\ Copied(m.type, m.id) \ {m} # {} =>
                   \E e \in replay'[b] : e.kind = m.type /\ e.id = m.id /\ e.ts = m.ts
<1>1. CASE Replayed(b, m)
  BY <1>1 DEF Guarded
<1>2. CASE ~Replayed(b, m)
  BY <1>2, RememberEffect DEF Guarded
<1> QED BY <1>1, <1>2

\* No request is answered anew: what is on its way was there, to the same Bot.
LEMMA NothingNew ==
  ASSUME TInv, CopiesOK, SeenOK, Requests' \subseteq Requests,
         answered' = answered, up' \subseteq up,
         \A k \in Bots : replayFile[k] \subseteq replayFile'[k]
                         /\ (k \in up' => replay[k] \subseteq replay'[k])
  PROVE  CopiesOK' /\ SeenOK'
<1>1. \A m \in Requests : m.to \in Bots
  BY DiscoveryMessage DEF Requests
<1>2. CopiesOK'
  BY DEF CopiesOK
<1>3. ASSUME NEW m \in Requests', m.id \in answered'
      PROVE  Guards(replayFile'[m.to], m) /\ (m.to \in up' => Guards(replay'[m.to], m))
  BY <1>1, <1>3 DEF SeenOK, Guards
<1> QED BY <1>2, <1>3 DEF SeenOK

\* A handler of b takes a message.
LEMMA TakenSeen ==
  ASSUME TInv, CopiesOK, SeenOK, NEW b \in up, NEW m \in Sealed, m \in net, m.to = b,
         NEW fails, Guarded(b, m, fails), Requests' \subseteq Requests \ {m}, up' = up,
         \/ answered' = answered
         \/ /\ m.type = "request" /\ ~Replayed(b, m) /\ fails = "none"
            /\ answered' = answered \cup {n.id : n \in Copied("request", m.id) \ {m}}
  PROVE  CopiesOK' /\ SeenOK'
<1>0. b \in Bots /\ \A n \in Requests : n.to \in Bots
  BY DiscoveryMessage DEF Requests, TInv, DirectoryTyped
<1>1. CopiesOK'
  BY DEF CopiesOK
<1>2. /\ \A k \in Bots \ {b} : replay'[k] = replay[k] /\ replayFile'[k] = replayFile[k]
      /\ replay[b] \subseteq replay'[b]
      /\ replayFile'[b] \in {replayFile[b], replay'[b]}
      /\ ~Replayed(b, m) /\ fails # "save" =>
           /\ replayFile'[b] = replay'[b]
           /\ Copied(m.type, m.id) \ {m} # {} =>
                \E e \in replay'[b] : e.kind = m.type /\ e.id = m.id /\ e.ts = m.ts
  BY <1>0, GuardEffect
<1>3. ASSUME NEW n \in Requests', n.id \in answered
      PROVE  Guards(replayFile'[n.to], n) /\ (n.to \in up' => Guards(replay'[n.to], n))
  <2>1. n \in Requests /\ Guards(replayFile[n.to], n) /\ (n.to \in up => Guards(replay[n.to], n))
    BY <1>3 DEF SeenOK
  <2>2. CASE n.to = b
    BY <1>2, <2>1, <2>2 DEF Guards
  <2>3. CASE n.to # b
    BY <1>0, <1>2, <2>1, <2>3
  <2> QED BY <2>2, <2>3
<1>4. ASSUME NEW n \in Requests', n.id \in answered', n.id \notin answered
      PROVE  Guards(replayFile'[n.to], n) /\ (n.to \in up' => Guards(replay'[n.to], n))
  <2>1. /\ m.type = "request" /\ ~Replayed(b, m) /\ fails # "save"
        /\ n.id \in {o.id : o \in Copied("request", m.id) \ {m}}
    BY <1>4
  <2>2. n.id = m.id /\ Copied(m.type, m.id) \ {m} # {}
    BY <2>1 DEF Copied
  <2>3. n \in Requests /\ m \in Requests
    BY <2>1 DEF Requests
  <2>4. n.to = b /\ n.ts = m.ts
    BY <2>2, <2>3 DEF CopiesOK
  <2>5. PICK e \in replay'[b] : e.kind = "request" /\ e.id = n.id /\ e.ts = n.ts
    BY <1>2, <2>1, <2>2, <2>4
  <2>6. n.ts \in Int
    BY <2>3, DiscoveryMessage DEF Requests
  <2> QED BY <1>2, <2>1, <2>4, <2>5, <2>6 DEF Guards
<1> QED BY <1>1, <1>3, <1>4 DEF SeenOK

\* A new challenge has an identifier of its own.
LEMMA ChallengeSeen ==
  ASSUME TInv, CopiesOK, SeenOK, NEW a \in Bots, NEW b \in Bots, NEW auto, Challenge(a, b, auto)
  PROVE  CopiesOK' /\ SeenOK'
<1> DEFINE i == Min(Unused)
           r == Auth("request", a, b, i)
<1>1. i \in Unused /\ r.id = i
  BY NewId DEF Challenge, Auth
<1>2. \A m \in Requests : m.id # i
  BY <1>1 DEF Unused, Requests
<1>3. /\ net' = net \cup {r} /\ answered' = answered \ {i}
      /\ UNCHANGED <<up, replay, replayFile>>
  BY DEF Challenge
<1> HIDE DEF i, r
<1>4. Requests' \subseteq Requests \cup {r}
  BY <1>3 DEF Requests
<1>5. CopiesOK'
  BY <1>1, <1>2, <1>4 DEF CopiesOK
<1>6. \A m \in Requests' : m.id \in answered' => m \in Requests /\ m.id \in answered
  BY <1>1, <1>3, <1>4
<1> QED BY <1>3, <1>5, <1>6 DEF SeenOK

\* A message is delivered twice, with the identifier it has.
LEMMA DuplicateSeen ==
  ASSUME TInv, CopiesOK, SeenOK, NEW m \in net, Duplicate(m), UNCHANGED auth
  PROVE  CopiesOK' /\ SeenOK'
<1> DEFINE c == [m EXCEPT !.copy = 2]
<1>1. /\ net' = net \cup {c}
      /\ UNCHANGED <<up, replay, replayFile, answered>>
  BY DEF Duplicate, auth, directory
<1>2. CASE m.type = "request"
  <2>1. m \in Sealed /\ m \in Requests
    BY <1>2, DiscoveryMessage DEF Requests
  <2>2. c.id = m.id /\ c.to = m.to /\ c.ts = m.ts
    BY <2>1 DEF Sealed
  <2> HIDE DEF c
  <2>3. Requests' \subseteq Requests \cup {c}
    BY <1>1 DEF Requests
  <2>4. CopiesOK'
    BY <2>1, <2>2, <2>3 DEF CopiesOK
  <2>5. Guards(replayFile[m.to], m) = Guards(replayFile[m.to], c)
        /\ Guards(replay[m.to], m) = Guards(replay[m.to], c)
    BY <2>2 DEF Guards
  <2> QED BY <1>1, <2>1, <2>2, <2>3, <2>4, <2>5 DEF SeenOK
<1>3. CASE m.type # "request"
  <2>1. c.type # "request"
    <3>1. m \in Discoveries \/ m \in Sealed
      BY DEF TInv
    <3>2. c.type = m.type
      BY <3>1 DEF Discoveries, Sealed
    <3> QED BY <1>3, <3>2
  <2> HIDE DEF c
  <2>2. Requests' \subseteq Requests
    BY <1>1, <2>1 DEF Requests
  <2> QED BY <1>1, <2>2, NothingNew
<1> QED BY <1>2, <1>3

\* The guard forgets a message after it has become too old to arrive.
LEMMA TickSeen ==
  ASSUME TInv, CopiesOK, SeenOK, Tick
  PROVE  CopiesOK' /\ SeenOK'
<1>1. ASSUME NEW m \in Requests'
      PROVE  \E n \in Requests : /\ m.id = n.id /\ m.to = n.to /\ m.ts = n.ts - 1
                                 /\ n.ts > -MsgAge /\ n.ts \in Int
  <2>1. m \in net' /\ m.type = "request" /\ net' = {[n EXCEPT !.ts = @ - 1] : n \in {k \in net : k.ts > -Window(k)}}
    BY <1>1 DEF Requests, Tick, AgeDirectory
  <2>2. PICK n \in net : n.ts > -Window(n) /\ m = [n EXCEPT !.ts = @ - 1]
    BY <2>1
  <2>3. m.type = n.type
    <3>1. n \in Discoveries \/ n \in Sealed
      BY DEF TInv
    <3> QED BY <2>2, <3>1 DEF Discoveries, Sealed
  <2>4. n \in Sealed /\ n \in Requests /\ n.ts \in Int
    BY <2>1, <2>3, DiscoveryMessage DEF Requests
  <2>5. Window(n) = MsgAge
    BY <2>1, <2>3 DEF Window
  <2>6. m.id = n.id /\ m.to = n.to /\ m.ts = n.ts - 1
    BY <2>2, <2>4 DEF Sealed
  <2> QED BY <2>2, <2>4, <2>5, <2>6
<1>2. CopiesOK'
  <2> SUFFICES ASSUME NEW m \in Requests', NEW n \in Requests', m.id = n.id
               PROVE  m.to = n.to /\ m.ts = n.ts
    BY DEF CopiesOK
  <2>1. PICK k \in Requests : m.id = k.id /\ m.to = k.to /\ m.ts = k.ts - 1
    BY <1>1
  <2>2. PICK l \in Requests : n.id = l.id /\ n.to = l.to /\ n.ts = l.ts - 1
    BY <1>1
  <2> QED BY <2>1, <2>2 DEF CopiesOK
<1>3. ASSUME NEW seen \in SUBSET Seen, NEW n \in Requests, n.ts > -MsgAge, n.ts \in Int,
             NEW m, m.id = n.id, m.ts = n.ts - 1, Guards(seen, n)
      PROVE  Guards(AgedReplay(seen), m)
  <2>1. PICK e \in seen : e.kind = "request" /\ e.id = n.id /\ e.ts >= n.ts
    BY <1>3 DEF Guards
  <2>2. e.ts \in Int
    BY HandshakeAssumption DEF Seen
  <2>3. e.ts > -ReplayTtl
    BY <1>3, <2>1, <2>2, DirectoryAssumption, HandshakeAssumption, ReplayAssumption
  <2>4. Copied(e.kind, e.id) # {}
    BY <2>1 DEF Copied, Requests
  <2>5. PICK f \in AgedReplay(seen) : f.kind = e.kind /\ f.id = e.id /\ f.ts = e.ts - 1
    BY <2>3, <2>4, AgedReplayEffect
  <2>6. f.ts >= m.ts
    BY <1>3, <2>1, <2>2, <2>5
  <2> QED BY <1>3, <2>1, <2>5, <2>6 DEF Guards
<1>4. ASSUME NEW m \in Requests', m.id \in answered'
      PROVE  Guards(replayFile'[m.to], m) /\ (m.to \in up' => Guards(replay'[m.to], m))
  <2>1. PICK n \in Requests : /\ m.id = n.id /\ m.to = n.to /\ m.ts = n.ts - 1
                              /\ n.ts > -MsgAge /\ n.ts \in Int
    BY <1>1
  <2>2. n.id \in answered /\ up' = up /\ n.to \in Bots
    BY <1>4, <2>1, DiscoveryMessage DEF Tick, AgeDirectory, Requests
  <2>3. /\ replayFile'[n.to] = AgedReplay(replayFile[n.to]) /\ replayFile[n.to] \in SUBSET Seen
        /\ replay'[n.to] = AgedReplay(replay[n.to]) /\ replay[n.to] \in SUBSET Seen
    BY <2>2 DEF Tick, TInv, AuthTyped
  <2>4. Guards(replayFile[n.to], n) /\ (n.to \in up => Guards(replay[n.to], n))
    BY <2>2 DEF SeenOK
  <2> QED BY <1>3, <2>1, <2>2, <2>3, <2>4
<1> QED BY <1>2, <1>4 DEF SeenOK

LEMMA SeenStep ==
  ASSUME TInv, CopiesOK, SeenOK, [Next]_vars
  PROVE  CopiesOK' /\ SeenOK'
<1>a. \A kind \in {"announce", "depart"} : \A b, ts : \A m \in Discovery(kind, b, ts) : m.type = kind
  BY DEF Discovery
<1>b. replay \in [Bots -> SUBSET Seen] /\ replayFile \in [Bots -> SUBSET Seen]
  BY DEF TInv, AuthTyped
<1>1. CASE Requests' \subseteq Requests /\ UNCHANGED <<up, replay, replayFile, answered>>
  BY <1>1, NothingNew
<1>2. CASE net' \subseteq net /\ UNCHANGED <<up, replay, replayFile, answered>>
  BY <1>1, <1>2 DEF Requests
<1>3. ASSUME NEW b \in Bots, Discover(b)
      PROVE  CopiesOK' /\ SeenOK'
  <2>1. UNCHANGED <<up, replay, replayFile, answered>>
    BY <1>3 DEF Discover, Announce, HandleDepart, ReceiveAnnounce, HandleAnnounce, GC, auth
  <2>2. net' \subseteq net \/ net' = net \cup Discovery("announce", b, NextTimestamp(b))
    BY <1>3 DEF Discover, Announce, HandleDepart, ReceiveAnnounce, HandleAnnounce, GC
  <2>3. Requests' \subseteq Requests
    BY <1>a, <2>2 DEF Requests
  <2> QED BY <1>1, <2>1, <2>3
<1>4. ASSUME NEW a \in Bots, NEW b \in Bots,
             AutoChallenge(a, b) \/ ApiChallenge(a, b) \/ ChallengeUnsent(a, b)
      PROVE  CopiesOK' /\ SeenOK'
  BY <1>2, <1>4, ChallengeSeen DEF AutoChallenge, ApiChallenge, ChallengeUnsent, directory
<1>5. ASSUME NEW a \in Bots, NEW c \in running[a], Timeout(a, c) \/ Finish(a, c)
      PROVE  CopiesOK' /\ SeenOK'
  BY <1>2, <1>5 DEF Timeout, Finish, Return
<1>6. ASSUME NEW b \in Bots, NEW m \in net, NEW fails, HandleRequest(b, m, fails)
      PROVE  CopiesOK' /\ SeenOK'
  <2>1. m \in Sealed /\ Guarded(b, m, fails)
    BY <1>6, HandleRequestTyped
  <2>2. b \in up /\ m.to = b /\ m.type = "request" /\ up' = up
    BY <1>6 DEF HandleRequest, Arrives
  <2>3. Requests' \subseteq Requests \ {m}
    <3>1. Auth("response", b, m.from, m.id).type = "response"
      BY DEF Auth
    <3>2. \/ net' = net \ {m}
          \/ net' = (net \ {m}) \cup {Auth("response", b, m.from, m.id)}
      BY <1>6 DEF HandleRequest
    <3> QED BY <3>1, <3>2 DEF Requests
  <2>4. \/ answered' = answered
        \/ /\ ~Replayed(b, m) /\ fails = "none"
           /\ answered' = answered \cup {n.id : n \in Copied("request", m.id) \ {m}}
    BY <1>6 DEF HandleRequest
  <2> QED BY <2>1, <2>2, <2>3, <2>4, TakenSeen
<1>7. ASSUME NEW b \in Bots, NEW m \in net, NEW fails, HandleResponse(b, m, fails)
      PROVE  CopiesOK' /\ SeenOK'
  <2>1. m \in Sealed /\ Guarded(b, m, fails)
    BY <1>7, HandleResponseTyped
  <2>2. b \in up /\ m.to = b /\ m.type = "response" /\ up' = up /\ answered' = answered
    BY <1>7 DEF HandleResponse, Arrives, directory
  <2>3. Requests' \subseteq Requests \ {m}
    <3>1. \A p : Auth("ack", b, p, m.id).type = "ack"
      BY DEF Auth
    <3>2. \A n \in net' : n \in net \/ \E p : n = Auth("ack", b, p, m.id)
      BY <1>7 DEF HandleResponse
    <3> QED BY <2>2, <3>1, <3>2 DEF Requests
  <2> QED BY <2>1, <2>2, <2>3, TakenSeen
<1>8. ASSUME NEW b \in Bots, NEW m \in net, NEW fails, HandleAck(b, m, fails)
      PROVE  CopiesOK' /\ SeenOK'
  <2>1. m \in Sealed /\ Guarded(b, m, fails)
    BY <1>8, HandleAckTyped
  <2>2. b \in up /\ m.to = b /\ up' = up /\ answered' = answered /\ net' = net \ {m}
    BY <1>8 DEF HandleAck, Arrives
  <2>3. Requests' \subseteq Requests \ {m}
    BY <2>2 DEF Requests
  <2> QED BY <2>1, <2>2, <2>3, TakenSeen
<1>9. ASSUME NEW b \in Bots, Stop(b)
      PROVE  CopiesOK' /\ SeenOK'
  <2>1. Requests' \subseteq Requests
    BY <1>a, <1>9 DEF Stop, Shutdown, Crash, Requests
  <2>2. /\ up' = up \ {b} /\ replay' = [replay EXCEPT ![b] = {}]
        /\ UNCHANGED <<replayFile, answered>>
    BY <1>9 DEF Stop, Shutdown, Crash, Forgotten
  <2> QED BY <1>b, <2>1, <2>2, NothingNew
<1>10. ASSUME NEW b \in Bots, Restart(b)
       PROVE  CopiesOK' /\ SeenOK'
  <2>1. Requests' \subseteq Requests
    BY <1>a, <1>10 DEF Restart, Start, Requests
  <2>2. /\ up' = up \cup {b} /\ replay' = [replay EXCEPT ![b] = replayFile[b]]
        /\ UNCHANGED <<replayFile, answered>>
    BY <1>10 DEF Restart, Start
  <2>3. CopiesOK'
    BY <2>1 DEF CopiesOK
  <2>4. ASSUME NEW m \in Requests', m.id \in answered'
        PROVE  Guards(replayFile'[m.to], m) /\ (m.to \in up' => Guards(replay'[m.to], m))
    <3>1. m \in Requests /\ m.to \in Bots
      BY <2>1, DiscoveryMessage DEF Requests
    <3>2. Guards(replayFile[m.to], m) /\ (m.to \in up => Guards(replay[m.to], m))
      BY <2>2, <2>4, <3>1 DEF SeenOK
    <3> QED BY <1>b, <2>2, <3>1, <3>2
  <2> QED BY <2>3, <2>4 DEF SeenOK
<1>11. ASSUME NEW b \in Bots, SaveAck(b)
       PROVE  CopiesOK' /\ SeenOK'
  BY <1>2, <1>11 DEF SaveAck, directory
<1>12. ASSUME NEW m \in net, Lose(m), UNCHANGED auth
       PROVE  CopiesOK' /\ SeenOK'
  BY <1>2, <1>12 DEF Lose, auth, directory
<1>13. CASE UNCHANGED vars
  BY <1>2, <1>13 DEF vars, auth, directory
<1> QED BY <1>3, <1>4, <1>5, <1>6, <1>7, <1>8, <1>9, <1>10, <1>11, <1>12, <1>13, TickSeen,
           DuplicateSeen DEF Next

\* A challenge request is answered at most once, though it is delivered twice, its
\* receiver restarts in between, or the guard fails to save: what the guard remembers,
\* and saves before the answer, outlasts the copies of it (auth/replay_cache.go).
THEOREM Answers == Spec => AnsweredOnce
<1> DEFINE Once == \A b \in Bots : \A k \in answering'[b] \ answering[b] : k.id \notin answered
<1>1. Init => CopiesOK /\ SeenOK
  BY DEF Init, DirectoryInit, CopiesOK, SeenOK, Requests
<1>2. TInv /\ CopiesOK /\ SeenOK /\ [Next]_vars => TInv' /\ CopiesOK' /\ SeenOK'
  BY TypeStep, SeenStep
<1>3. TInv /\ CopiesOK /\ SeenOK /\ [Next]_vars => Once
  <2> SUFFICES ASSUME TInv, SeenOK, [Next]_vars, NEW b \in Bots,
                      NEW k \in answering'[b] \ answering[b]
               PROVE  k.id \notin answered
    OBVIOUS
  <2>0. answering \in [Bots -> SUBSET Answer]
    BY DEF TInv, AuthTyped
  <2>1. CASE answering' = answering
    BY <2>1
  <2>2. ASSUME NEW j \in Bots, NEW m \in net, NEW fails, HandleRequest(j, m, fails)
        PROVE  k.id \notin answered
    <3>1. /\ ~Replayed(j, m) /\ m \in Requests /\ m.to = j /\ j \in up
          /\ answering' = [answering EXCEPT ![j] = {[id |-> m.id, peer |-> m.from]}]
      BY <2>1, <2>2 DEF HandleRequest, Arrives, Requests
    <3>2. k.id = m.id
      BY <2>0, <3>1
    <3>3. m.id \notin answered
      BY <3>1 DEF SeenOK, Guards, Replayed, Requests
    <3> QED BY <3>2, <3>3
  <2>3. ASSUME NEW j \in Bots, SaveAck(j) \/ Stop(j)
        PROVE  FALSE
    BY <2>0, <2>3 DEF SaveAck, Stop
  <2>4. ASSUME NEW i \in Bots, NEW j \in Bots,
               \/ Discover(j) \/ Restart(j) \/ AutoChallenge(i, j) \/ ApiChallenge(i, j)
               \/ ChallengeUnsent(i, j)
        PROVE  answering' = answering
    BY <2>4 DEF Discover, ReceiveAnnounce, Restart, AutoChallenge, ApiChallenge,
                ChallengeUnsent, Challenge, auth
  <2>5. ASSUME NEW j \in Bots,
               \/ \E c \in running[j] : Timeout(j, c) \/ Finish(j, c)
               \/ \E m \in net, fails \in {"none", "save", "send"} :
                    HandleResponse(j, m, fails) \/ HandleAck(j, m, fails)
               \/ Tick \/ UNCHANGED auth \/ UNCHANGED vars
        PROVE  answering' = answering
    BY <2>5 DEF Timeout, Finish, Return, HandleResponse, HandleAck, Tick, auth, vars
  <2> QED BY <2>1, <2>2, <2>3, <2>4, <2>5 DEF Next
<1> QED BY <1>1, <1>2, <1>3, TypeInit, PTL DEF Spec, AnsweredOnce

=============================================================================

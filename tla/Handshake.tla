----------------------------- MODULE Handshake -----------------------------
(***************************************************************************)
(* Authentication of the peers of the directory by challenge, response and *)
(* acknowledgement (src/internal/auth/service.go, replay_cache.go), started *)
(* by an announcement of a trusted peer (discovery/service.go, the         *)
(* automatic authenticator) or by a call of the API.                       *)
(*                                                                         *)
(* A challenge and its nonce are one number.  A signature is what only its *)
(* signer could have sent, so a message is as good as its fields.  The     *)
(* trust modes explicit and tofu behave alike here: every entry comes from *)
(* an announcement, which carries the key.  Mode open checks nothing and   *)
(* is left out.                                                            *)
(***************************************************************************)
EXTENDS Directory

CONSTANTS Trusts,        \* <<a, b>>: a trusts b
          ReplayTtl,     \* how long the replay guard remembers a message
          MaxChallenges  \* bound on challenges of which anything is left

ASSUME HandshakeAssumption ==
  /\ Trusts \subseteq Bots \X Bots
  /\ {ReplayTtl, MaxChallenges} \subseteq Nat

\* The guard remembers a message for 10 minutes, by its timestamp; one that is 5
\* minutes old is rejected before the guard sees it.
ASSUME ReplayAssumption == MsgAge <= ReplayTtl

VARIABLES authing,     \* [Bots -> peers an automatic challenge is under way for]
          running,     \* [Bots -> calls of StartChallenge]
          acks,        \* [Bots -> Service.acks, responses that wait for their ack]
          answering,   \* [Bots -> the response published before it was put in acks]
          replay,      \* [Bots -> entries of the replay guard]
          replayFile,  \* [Bots -> the replay state saved]
          answered     \* challenges answered while a copy of the request is on its way

auth == <<authing, running, acks, answering, replay, replayFile, answered>>
vars == <<directory, net, faults, auth>>

Id == 1..MaxChallenges
Call == [id : Id, peer : Bots, auto : BOOLEAN, result : {"waiting", "ok", "bad"}]
Answer == [id : Id, peer : Bots]
Seen == [kind : {"request", "response", "ack"}, id : Id, ts : -ReplayTtl..0]

Init ==
  /\ DirectoryInit
  /\ authing = [b \in Bots |-> {}]
  /\ running = [b \in Bots |-> {}]
  /\ acks = [b \in Bots |-> {}]
  /\ answering = [b \in Bots |-> {}]
  /\ replay = [b \in Bots |-> {}]
  /\ replayFile = [b \in Bots |-> {}]
  /\ answered = {}

Auth(kind, a, b, id) ==
  [type |-> kind, from |-> a, to |-> b, ts |-> 0, copy |-> 1, id |-> id]

(***************************************************************************)
(* The replay guard                                                        *)
(***************************************************************************)
Replayed(b, m) == \E e \in replay[b] : e.kind = m.type /\ e.id = m.id

\* No other message has this one's id, so the entry matters while a copy is on its way.
Copied(kind, id) == {m \in net : m.type = kind /\ m.id = id}

Remembered(seen, m) ==
  seen \cup {[kind |-> m.type, id |-> m.id, ts |-> m.ts] : n \in Copied(m.type, m.id) \ {m}}

\* Mutant: the guard saves only when it is loaded.
RememberInMemory(b, m, fails) ==
  /\ replay' = [replay EXCEPT ![b] = Remembered(@, m)]
  /\ UNCHANGED replayFile

\* CheckAndRemember keeps the entry in memory even when it cannot save it.
RememberMessage(b, m, fails) ==
  /\ replay' = [replay EXCEPT ![b] = Remembered(@, m)]
  /\ replayFile' = IF fails = "save" THEN replayFile
                    ELSE [replayFile EXCEPT ![b] = Remembered(replay[b], m)]

\* gc, by the timestamp the sender gave.
AgedReplay(seen) ==
  {[e EXCEPT !.ts = @ - 1] :
     e \in {f \in seen : f.ts > -ReplayTtl /\ Copied(f.kind, f.id) # {}}}

(***************************************************************************)
(* The challenger                                                          *)
(***************************************************************************)
\* Mutant: a rejected peer is not challenged again.
AuthenticateSeen(a, b, listed) ==
  authing' = IF /\ <<a, b>> \in Trusts
                /\ \E p \in listed : p.bot = b /\ p.auth = "seen"
               THEN [authing EXCEPT ![a] = @ \cup {b}]
               ELSE authing

\* maybeAutoAuthenticate, after the announcement was handled.
AutoAuthenticate(a, b, listed) ==
  authing' = IF /\ <<a, b>> \in Trusts
                /\ \E p \in listed : p.bot = b /\ p.auth \in {"seen", "rejected"}
               THEN [authing EXCEPT ![a] = @ \cup {b}]
               ELSE authing

ReceiveAnnounce(a, m) ==
  /\ HandleAnnounce(a, m)
  /\ IF Fresh(a, m) THEN AutoAuthenticate(a, m.from, peers'[a]) ELSE UNCHANGED authing
  /\ UNCHANGED <<running, acks, answering, replay, replayFile, answered>>

InCall(a, b) == \E c \in running[a] : c.peer = b /\ c.auto

\* randID: an identifier nothing refers to any more stands for a new one.
Unused ==
  Id \ ({m.id : m \in {n \in net : n.type \in {"request", "response", "ack"}}}
        \cup UNION {{x.id : x \in running[b] \cup acks[b] \cup answering[b] \cup
                               replay[b] \cup replayFile[b]} : b \in Bots})

\* StartChallenge up to its wait.  The status was read when the announcement was
\* handled and is not read again.
Challenge(a, b, auto) ==
  /\ Listed(a, b) /\ Unused # {}
  /\ SetAuthStatus(a, b, "pending")
  /\ running' = [running EXCEPT ![a] = @ \cup
       {[id |-> Min(Unused), peer |-> b, auto |-> auto, result |-> "waiting"]}]
  /\ net' = net \cup {Auth("request", a, b, Min(Unused))}
  /\ answered' = answered \ {Min(Unused)}
  /\ UNCHANGED <<up, lastPub, latest, departed, acks, answering, replay, replayFile>>

AutoChallenge(a, b) ==
  /\ a \in up /\ b \in authing[a] /\ ~InCall(a, b)
  /\ IF Listed(a, b)
       THEN Challenge(a, b, TRUE) /\ UNCHANGED authing
       ELSE /\ authing' = [authing EXCEPT ![a] = @ \ {b}]
            /\ UNCHANGED <<directory, net, running, acks, answering, replay, replayFile,
                           answered>>
  /\ UNCHANGED faults

\* Bounded to one such call at a time.
ApiChallenge(a, b) ==
  /\ a \in up /\ Disturb
  /\ \A x \in Bots : \A c \in running[x] : c.auto
  /\ Challenge(a, b, FALSE)
  /\ UNCHANGED authing

\* The connection refuses the request: the status goes back to seen.
ChallengeUnsent(a, b) ==
  /\ a \in up /\ b \in authing[a] /\ ~InCall(a, b) /\ Listed(a, b)
  /\ Disturb
  /\ SetAuthStatus(a, b, "seen")
  /\ authing' = [authing EXCEPT ![a] = @ \ {b}]
  /\ UNCHANGED <<up, lastPub, latest, departed, net, running, acks, answering,
                 replay, replayFile, answered>>

Return(a, c, status) ==
  /\ running' = [running EXCEPT ![a] = @ \ {c}]
  /\ authing' = IF c.auto THEN [authing EXCEPT ![a] = @ \ {c.peer}] ELSE authing
  /\ SetAuthStatus(a, c.peer, status)
  /\ UNCHANGED <<up, lastPub, latest, departed, net, acks, answering, replay, replayFile, answered>>

\* Nobody will answer: the request or the response of this challenge was lost or dropped.
Hopeless(c) ==
  /\ c.result = "waiting"
  /\ \A m \in net : m.type \in {"request", "response"} => m.id # c.id

\* Mutant: a call that times out leaves the status alone.
TimeoutKeepsStatus(a, c) ==
  /\ a \in up /\ c \in running[a]
  /\ IF Hopeless(c) THEN UNCHANGED faults ELSE Disturb
  /\ Return(a, c, CHOOSE s \in AuthOf(a, c.peer) \cup {"seen"} : AuthOf(a, c.peer) \subseteq {s})

\* The 10 seconds are over.  A result that is there already may lose against them.
Timeout(a, c) ==
  /\ a \in up /\ c \in running[a]
  /\ IF Hopeless(c) THEN UNCHANGED faults ELSE Disturb
  /\ Return(a, c, "seen")

Finish(a, c) ==
  /\ a \in up /\ c \in running[a] /\ c.result # "waiting"
  /\ Return(a, c, IF c.result = "ok" THEN "authenticated" ELSE "rejected")
  /\ UNCHANGED faults

(***************************************************************************)
(* The handlers                                                            *)
(***************************************************************************)
Arrives(b, m, kind) == b \in up /\ m \in net /\ m.to = b /\ m.type = kind

\* What a handler may fail at: saving the replay state, publishing its answer.
Failing(fails) == IF fails = "none" THEN UNCHANGED faults ELSE Disturb

\* handleChallengeRequest up to the published response.  The sender of a request
\* that was seen before, or that could not be remembered, counts as rejected; a
\* request of a peer that is not listed is remembered and dropped.
HandleRequest(b, m, fails) ==
  /\ Arrives(b, m, "request") /\ answering[b] = {}
  /\ IF Replayed(b, m)
       THEN fails = "none" /\ UNCHANGED <<replay, replayFile, faults>>
       ELSE RememberMessage(b, m, fails) /\ Failing(fails)
  /\ IF Replayed(b, m) \/ fails = "save"
       THEN SetAuthStatus(b, m.from, "rejected")
       ELSE UNCHANGED peers
  /\ IF ~Replayed(b, m) /\ fails = "none" /\ Listed(b, m.from)
       THEN /\ net' = (net \ {m}) \cup {Auth("response", b, m.from, m.id)}
            /\ answering' = [answering EXCEPT ![b] = {[id |-> m.id, peer |-> m.from]}]
            /\ answered' = answered \cup {n.id : n \in Copied("request", m.id) \ {m}}
       ELSE /\ net' = net \ {m}
            /\ UNCHANGED <<answering, answered>>
  /\ UNCHANGED <<up, lastPub, latest, departed, authing, running, acks>>

\* savePendingAck comes after the response was published.
SaveAck(b) ==
  /\ b \in up /\ answering[b] # {}
  /\ acks' = [acks EXCEPT ![b] = @ \cup answering[b]]
  /\ answering' = [answering EXCEPT ![b] = {}]
  /\ UNCHANGED <<directory, net, faults, authing, running, replay, replayFile, answered>>

Waiting(a, m) == {c \in running[a] : c.id = m.id /\ c.result = "waiting"}

\* handleChallengeResponse: a response to no pending challenge is dropped, one of a
\* peer no longer listed, or whose ack cannot be sent, fails the challenge.
HandleResponse(a, m, fails) ==
  /\ Arrives(a, m, "response")
  /\ IF Replayed(a, m)
       THEN fails = "none" /\ UNCHANGED <<replay, replayFile, faults>>
       ELSE RememberMessage(a, m, fails) /\ Failing(fails)
  /\ IF ~Replayed(a, m) /\ fails # "save" /\ Waiting(a, m) # {}
       THEN /\ running' = [running EXCEPT ![a] =
                 {IF c \in Waiting(a, m)
                    THEN [c EXCEPT !.result =
                            IF Listed(a, m.from) /\ fails = "none" THEN "ok" ELSE "bad"]
                    ELSE c : c \in @}]
            /\ net' = (net \ {m}) \cup
                 {Auth("ack", a, p.bot, m.id) :
                    p \in {q \in peers[a] : q.bot = m.from /\ fails = "none"}}
       ELSE /\ net' = net \ {m}
            /\ UNCHANGED running
  /\ UNCHANGED <<directory, authing, acks, answering, answered>>

Expected(b, m) == [id |-> m.id, peer |-> m.from] \in acks[b]

\* handleChallengeAck.
HandleAck(b, m, fails) ==
  /\ Arrives(b, m, "ack") /\ fails # "send"
  /\ IF Replayed(b, m)
       THEN fails = "none" /\ UNCHANGED <<replay, replayFile, faults>>
       ELSE RememberMessage(b, m, fails) /\ Failing(fails)
  /\ IF ~Replayed(b, m) /\ fails = "none" /\ Expected(b, m)
       THEN /\ acks' = [acks EXCEPT ![b] = {k \in @ : k.id # m.id}]
            /\ SetAuthStatus(b, m.from, "authenticated")
       ELSE UNCHANGED <<acks, peers>>
  /\ net' = net \ {m}
  /\ UNCHANGED <<up, lastPub, latest, departed, authing, running, answering, answered>>

(***************************************************************************)
(* Time, the network and the life of a Bot                                 *)
(***************************************************************************)
Tick ==
  /\ AgeDirectory
  /\ replay' = [b \in Bots |-> AgedReplay(replay[b])]
  /\ replayFile' = [b \in Bots |-> AgedReplay(replayFile[b])]
  /\ answered' = {i \in answered : Copied("request", i) # {}}
  /\ UNCHANGED <<authing, running, acks, answering>>

\* The memory of authentication is gone with the process.
Stop(b) ==
  /\ Shutdown(b) \/ Crash(b)
  /\ authing' = [authing EXCEPT ![b] = {}]
  /\ running' = [running EXCEPT ![b] = {}]
  /\ acks' = [acks EXCEPT ![b] = {}]
  /\ answering' = [answering EXCEPT ![b] = {}]
  /\ replay' = [replay EXCEPT ![b] = {}]
  /\ UNCHANGED <<replayFile, answered>>

\* NewReplayGuard loads what was saved.
Restart(b) ==
  /\ Start(b)
  /\ replay' = [replay EXCEPT ![b] = replayFile[b]]
  /\ UNCHANGED <<authing, running, acks, answering, replayFile, answered>>

Discover(b) ==
  \/ Announce(b) /\ UNCHANGED auth
  \/ \E m \in net : HandleDepart(b, m) /\ UNCHANGED auth
  \/ \E m \in net : ReceiveAnnounce(b, m)
  \/ GC(b) /\ UNCHANGED auth

Next ==
  \/ \E b \in Bots : Discover(b)
  \/ \E a, b \in Bots : AutoChallenge(a, b) \/ ApiChallenge(a, b) \/ ChallengeUnsent(a, b)
  \/ \E a \in Bots : \E c \in running[a] : Timeout(a, c) \/ Finish(a, c)
  \/ \E b \in Bots, fails \in {"none", "save", "send"} : \E m \in net :
       HandleRequest(b, m, fails) \/ HandleResponse(b, m, fails) \/ HandleAck(b, m, fails)
  \/ \E b \in Bots : SaveAck(b) \/ Stop(b) \/ Restart(b)
  \/ Tick
  \/ \E m \in net : (Lose(m) \/ Duplicate(m)) /\ UNCHANGED auth

(***************************************************************************)
(* Every process, callback and timer is scheduled, and the network         *)
(* delivers what it has not lost.  Nothing restarts a Bot that stopped.    *)
(***************************************************************************)
Fairness ==
  /\ WF_vars(Tick)
  /\ \A b \in Bots :
       /\ WF_vars(Announce(b) /\ UNCHANGED auth)
       /\ WF_vars(GC(b) /\ UNCHANGED auth)
       /\ WF_vars(\E m \in net : ReceiveAnnounce(b, m))
       /\ WF_vars(\E m \in net : HandleDepart(b, m) /\ UNCHANGED auth)
       /\ WF_vars(\E m \in net : HandleRequest(b, m, "none"))
       /\ WF_vars(\E m \in net : HandleResponse(b, m, "none"))
       /\ WF_vars(\E m \in net : HandleAck(b, m, "none"))
       /\ WF_vars(SaveAck(b))
       /\ WF_vars(\E a \in Bots : AutoChallenge(b, a))
       /\ WF_vars(\E c \in running[b] : Finish(b, c))
       /\ WF_vars(\E c \in running[b] : Hopeless(c) /\ Timeout(b, c))

Spec == Init /\ [][Next]_vars
LiveSpec == Spec /\ Fairness

(***************************************************************************)
(* Properties                                                              *)
(***************************************************************************)
TypeOK ==
  /\ up \subseteq Bots
  /\ lastPub \in [Bots -> -1..Skew + 1]
  /\ \A b \in Bots :
       /\ peers[b] \subseteq Entry /\ latest[b] \subseteq Claim
       /\ authing[b] \subseteq Bots /\ running[b] \subseteq Call
       /\ acks[b] \subseteq Answer /\ answering[b] \subseteq Answer
       /\ replay[b] \subseteq Seen /\ replayFile[b] \subseteq Seen
  /\ faults \in 0..MaxFaults
  /\ answered \subseteq Id

\* A Bot that departed is listed again only by an announcement it made after its
\* departure: no announcement still on its way brings it back (acceptClaim and its
\* tombstones, discovery/service.go:642-662).
DepartureHolds ==
  [][\A a, b \in Bots : \A d \in departed[a] :
       d.bot = b /\ ~Listed(a, b) /\ Listed(a, b)' =>
         \E m \in net \ net' : m.type = "announce" /\ m.from = b /\ m.ts > d.ts]_vars

\* A peer is shown as pending only while a call of StartChallenge for it runs.  No
\* automatic challenge starts for a pending peer (discovery/service.go:425), so one
\* left pending would stay unauthenticated as long as it is listed.
PendingIsLive ==
  \A a \in Bots : \A p \in peers[a] :
    p.auth = "pending" => \E c \in running[a] : c.peer = p.bot

\* A challenge request is answered at most once, though it is delivered twice, its
\* receiver restarts in between, or the replay guard fails to save.
AnsweredOnce ==
  [][\A b \in Bots : \A k \in answering'[b] \ answering[b] : k.id \notin answered]_vars

\* Two Bots that stay up, the first of which trusts the other, end with the first
\* holding the second for authenticated, and it stays so: whatever was lost or
\* timed out, the next announcement tries again.
EventuallyAuthenticated ==
  \A a, b \in Bots :
    <<a, b>> \in Trusts =>
      (<>[]({a, b} \subseteq up) => <>[](AuthOf(a, b) = {"authenticated"}))
=============================================================================

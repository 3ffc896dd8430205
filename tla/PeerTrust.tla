----------------------------- MODULE PeerTrust -----------------------------
(***************************************************************************)
(* Trust between Bots (src/internal/trust/service.go) and the part of      *)
(* discovery that fills the registry of peers the trust gates read         *)
(* (src/internal/discovery/service.go and peer_registry.go).               *)
(*                                                                         *)
(* Every Bot holds its trust state in memory under the mutex of its trust  *)
(* service, a copy of it in trust.json, and the trust status of each peer  *)
(* it has discovered.  An operation publishes, changes the memory, and     *)
(* then saves the file and marks the registry in an order of its own; what *)
(* is left to do is in todo[n], and the mutex is free when that is empty.  *)
(* An announcement reads trust.json and inserts the peer without that      *)
(* mutex.  Requests, responses and revocations travel on three             *)
(* subscriptions: each keeps its order, and any message may be lost.       *)
(***************************************************************************)
EXTENDS Integers, Sequences, FiniteSets

CONSTANTS Node,           \* the Bots
          AutoApprove,    \* those with trustAutoApprove set
          MaxRequests, MaxRevokes,
          MaxUpsets       \* bound on departures, restarts, failed saves and lost messages

ASSUME TrustAssumption ==
  /\ AutoApprove \subseteq Node
  /\ {MaxRequests, MaxRevokes, MaxUpsets} \subseteq Nat

VARIABLES store,      \* [Node -> Service.state]
          disk,       \* [Node -> trust.json]
          todo,       \* [Node -> what the holder of the mutex has still to do]
          peers,      \* [Node -> [Node -> TrustStatus, or "absent"]]
          asking,     \* [Node -> peers a call of Request waits for the mutex with]
          reading,    \* [Node -> the entry handleAnnounce is about to insert]
          requests, responses, revocations,  \* [Node -> messages on their way to it]
          asked,      \* every request made
          answers,    \* every answer published
          spent,      \* [Node -> requests a recorded revocation overtook]
          dirty,      \* nodes whose last save failed
          reverted,   \* nodes that restarted from a file older than their memory
          stale,      \* registry entries an announcement or a failed read or save left behind
          revokes, upsets

trustState == <<store, disk, todo>>
registry == <<peers, reading>>
history == <<asked, answers, spent, dirty, reverted, stale>>
wire == <<requests, responses, revocations>>
bounds == <<revokes, upsets>>
vars == <<trustState, registry, asking, wire, history, bounds>>

Status == {"none", "pending", "trusted", "rejected", "revoked"}
Request == [id : 1..MaxRequests, from : Node, to : Node]
Answer == [req : Request, ok : {"approve", "reject"}]
TrustState == [trusted : SUBSET Node, rejected : SUBSET Node,
               revoked : SUBSET Node, pending : SUBSET Request]
Effect == [do : {"save", "trySave", "mark"}, peer : Node, trust : Status]

Empty == [trusted |-> {}, rejected |-> {}, revoked |-> {}, pending |-> {}]

Init ==
  /\ store = [n \in Node |-> Empty]
  /\ disk = [n \in Node |-> Empty]
  /\ todo = [n \in Node |-> <<>>]
  /\ peers = [n \in Node |-> [m \in Node |-> "absent"]]
  /\ asking = [n \in Node |-> {}]
  /\ reading = [n \in Node |-> {}]
  /\ requests = [n \in Node |-> <<>>]
  /\ responses = [n \in Node |-> <<>>]
  /\ revocations = [n \in Node |-> <<>>]
  /\ asked = {} /\ answers = {} /\ spent = [n \in Node |-> {}]
  /\ dirty = {} /\ reverted = {} /\ stale = {}
  /\ revokes = 0 /\ upsets = 0

(***************************************************************************)
(* The lists of the trust state                                            *)
(***************************************************************************)
Granted(s, m) == [s EXCEPT !.trusted = @ \cup {m},
                           !.rejected = @ \ {m},
                           !.revoked = @ \ {m}]
Denied(s, m) == [s EXCEPT !.trusted = @ \ {m}, !.rejected = @ \cup {m}]

\* A revocation that forgets removePendingByBotLocked.
WithdrawnKeepsPending(s, m) ==
  [s EXCEPT !.trusted = @ \ {m}, !.revoked = @ \cup {m}]

Withdrawn(s, m) ==
  [s EXCEPT !.trusted = @ \ {m},
            !.revoked = @ \cup {m},
            !.pending = {r \in @ : m \notin {r.from, r.to}}]

Settled(s, r) == [s EXCEPT !.pending = @ \ {r}]
Waiting(s, r) == [s EXCEPT !.pending = @ \cup {r}]

Decided(s, m, ok) == IF ok = "approve" THEN Granted(s, m) ELSE Denied(s, m)
Verdict(ok) == IF ok = "approve" THEN "trusted" ELSE "rejected"

Outbound(n, m) == {r \in store[n].pending : r.from = n /\ r.to = m}
Known(n, m) == peers[n][m] # "absent"

(***************************************************************************)
(* An operation that holds the mutex: the memory changes, the rest is left *)
(* in todo.                                                                *)
(***************************************************************************)
Free(n) == todo[n] = <<>>
Do(do, m, status) == [do |-> do, peer |-> m, trust |-> status]

Begin(n, state, work) ==
  /\ store' = [store EXCEPT ![n] = state]
  /\ todo' = [todo EXCEPT ![n] = work]
  /\ UNCHANGED disk

\* Operations that forget one of the two.
MarkOnly(m, status) == <<Do("mark", m, status)>>
SaveOnly(m, status) == <<Do("save", m, status)>>

SaveThenMark(m, status) == <<Do("save", m, status), Do("mark", m, status)>>
TrySaveThenMark(m, status) == <<Do("trySave", m, status), Do("mark", m, status)>>
MarkThenSave(m, status) == <<Do("mark", m, status), Do("save", m, status)>>

\* The mark: SetTrustStatus does nothing for a peer the registry lacks.
Mark(n) ==
  /\ todo[n] # <<>> /\ Head(todo[n]).do = "mark"
  /\ LET m == Head(todo[n]).peer IN
     peers' = IF Known(n, m) THEN [peers EXCEPT ![n][m] = Head(todo[n]).trust] ELSE peers
  /\ stale' = IF Known(n, Head(todo[n]).peer) THEN stale \ {<<n, Head(todo[n]).peer>>} ELSE stale
  /\ todo' = [todo EXCEPT ![n] = Tail(@)]
  /\ UNCHANGED <<store, disk, reading, asking, wire, asked, answers, spent,
                 dirty, reverted, bounds>>

Between(n, m) == {r \in asked : r.from = n /\ r.to = m}
               \cup {a.req : a \in {b \in answers : b.req.from = m /\ b.req.to = n}}

Saved(n) == [disk EXCEPT ![n] = store[n]]

Save(n) ==
  /\ todo[n] # <<>> /\ Head(todo[n]).do \in {"save", "trySave"}
  /\ disk' = Saved(n)
  /\ todo' = [todo EXCEPT ![n] = Tail(@)]
  /\ spent' = IF Head(todo[n]).trust = "revoked"
              THEN [spent EXCEPT ![n] = @ \cup Between(n, Head(todo[n]).peer)]
              ELSE spent
  /\ dirty' = dirty \ {n}
  /\ UNCHANGED <<store, registry, asking, wire, asked, answers, reverted, stale, bounds>>

\* A failed save ends the operation, except that handleTrustRevoke goes on.
\* The file may have been replaced when the directory could not be synced.
SaveFails(n) ==
  /\ upsets < MaxUpsets
  /\ todo[n] # <<>> /\ Head(todo[n]).do \in {"save", "trySave"}
  /\ disk' \in {disk, Saved(n)}
  /\ todo' = [todo EXCEPT ![n] = IF Head(@).do = "save" THEN <<>> ELSE Tail(@)]
  /\ dirty' = dirty \cup {n}
  /\ stale' = IF todo[n] = SaveThenMark(Head(todo[n]).peer, Head(todo[n]).trust)
              THEN stale \cup {<<n, Head(todo[n]).peer>>}
              ELSE stale
  /\ upsets' = upsets + 1
  /\ UNCHANGED <<store, registry, asking, wire, asked, answers, spent, reverted,
                 revokes>>

(***************************************************************************)
(* Calls of the local API                                                  *)
(***************************************************************************)
\* Request looks at the registry before it takes the mutex.  That the peer is
\* authenticated there is no guard here: it may be, whenever it is known.
Ask(n, m) ==
  /\ Known(n, m) /\ Cardinality(asked) < MaxRequests
  /\ peers[n][m] # "trusted"
  /\ asking' = [asking EXCEPT ![n] = @ \cup {m}]
  /\ UNCHANGED <<trustState, registry, wire, history, bounds>>

RequestTrust(n, m) ==
  LET r == [id |-> Cardinality(asked) + 1, from |-> n, to |-> m] IN
  /\ Free(n) /\ m \in asking[n]
  /\ Outbound(n, m) = {}
  /\ r.id <= MaxRequests
  /\ asking' = [asking EXCEPT ![n] = @ \ {m}]
  /\ requests' = [requests EXCEPT ![m] = Append(@, r)]
  /\ asked' = asked \cup {r}
  /\ Begin(n, Waiting(store[n], r), SaveThenMark(m, "pending"))
  /\ UNCHANGED <<responses, revocations, registry, answers, spent, dirty, reverted, stale,
                 bounds>>

\* A request is pending already, or the connection to NATS is down.
RequestRefused(n, m) ==
  /\ Free(n) /\ m \in asking[n]
  /\ asking' = [asking EXCEPT ![n] = @ \ {m}]
  /\ UNCHANGED <<trustState, registry, wire, history, bounds>>

Revoke(n, m) ==
  /\ Free(n) /\ m # n
  /\ revokes < MaxRevokes
  /\ revocations' = [revocations EXCEPT ![m] = Append(@, n)]
  /\ Begin(n, Withdrawn(store[n], m), SaveThenMark(m, "revoked"))
  /\ revokes' = revokes + 1
  /\ UNCHANGED <<requests, responses, registry, asking, history, upsets>>

\* A decision that leaves the request pending.
RespondKeeps(n, r, ok) ==
  /\ responses' = [responses EXCEPT ![r.from] = Append(@, [req |-> r, ok |-> ok])]
  /\ answers' = answers \cup {[req |-> r, ok |-> ok]}
  /\ Begin(n, Decided(store[n], r.from, ok), MarkThenSave(r.from, Verdict(ok)))
  /\ UNCHANGED <<revocations, registry, asking, asked, spent, dirty, reverted, stale,
                 bounds>>

\* What Approve, Reject and the automatic approval do once they hold the mutex.
Respond(n, r, ok) ==
  /\ responses' = [responses EXCEPT ![r.from] = Append(@, [req |-> r, ok |-> ok])]
  /\ answers' = answers \cup {[req |-> r, ok |-> ok]}
  /\ Begin(n, Settled(Decided(store[n], r.from, ok), r), MarkThenSave(r.from, Verdict(ok)))
  /\ UNCHANGED <<revocations, registry, asking, asked, spent, dirty, reverted, stale,
                 bounds>>

Decide(n, r, ok) ==
  /\ Free(n)
  /\ r \in store[n].pending /\ r.to = n
  /\ Respond(n, r, ok)
  /\ UNCHANGED requests

(***************************************************************************)
(* Messages                                                                *)
(***************************************************************************)
TakeRequest(n) ==
  /\ requests[n] # <<>>
  /\ requests' = [requests EXCEPT ![n] = Tail(@)]
TakeResponse(n) ==
  /\ responses[n] # <<>>
  /\ responses' = [responses EXCEPT ![n] = Tail(@)]
  /\ UNCHANGED <<requests, revocations>>
TakeRevoke(n) ==
  /\ revocations[n] # <<>>
  /\ revocations' = [revocations EXCEPT ![n] = Tail(@)]
  /\ UNCHANGED <<requests, responses>>

\* NATS drops a message, or it arrives with a timestamp out of range.
Lose(n) ==
  /\ upsets < MaxUpsets
  /\ \/ TakeRequest(n) /\ UNCHANGED <<responses, revocations>>
     \/ TakeResponse(n)
     \/ TakeRevoke(n)
  /\ upsets' = upsets + 1
  /\ UNCHANGED <<trustState, registry, asking, history, revokes>>

\* The early returns of the handlers: the sender is unknown, the request is
\* pending already, nobody waits for the response.
Discard(n) ==
  /\ Free(n)
  /\ \/ /\ TakeRequest(n) /\ UNCHANGED <<responses, revocations>>
        /\ LET r == Head(requests[n]) IN ~Known(n, r.from) \/ r \in store[n].pending
     \/ /\ TakeResponse(n)
        /\ LET q == Head(responses[n]).req IN ~Known(n, q.to) \/ q \notin Outbound(n, q.to)
     \/ /\ TakeRevoke(n)
        /\ ~Known(n, Head(revocations[n]))
  /\ UNCHANGED <<trustState, registry, asking, history, bounds>>

HandleTrustRequest(n) ==
  /\ Free(n) /\ TakeRequest(n)
  /\ LET r == Head(requests[n]) IN
     /\ Known(n, r.from) /\ r \notin store[n].pending
     /\ \/ n \in AutoApprove /\ Respond(n, r, "approve")
        \* Left to the operator, or the automatic answer could not be sent.
        \/ /\ Begin(n, Waiting(store[n], r), SaveThenMark(r.from, "pending"))
           /\ UNCHANGED <<responses, revocations, registry, asking, history, bounds>>

HandleTrustResponse(n) ==
  /\ Free(n) /\ TakeResponse(n)
  /\ LET q == Head(responses[n]).req
         ok == Head(responses[n]).ok
     IN /\ Known(n, q.to) /\ q \in Outbound(n, q.to)
        /\ Begin(n, Settled(Decided(store[n], q.to, ok), q), MarkThenSave(q.to, Verdict(ok)))
  /\ UNCHANGED <<registry, asking, history, bounds>>

HandleTrustRevoke(n) ==
  /\ Free(n) /\ TakeRevoke(n)
  /\ LET m == Head(revocations[n]) IN
     /\ Known(n, m)
     /\ Begin(n, Withdrawn(store[n], m), TrySaveThenMark(m, "revoked"))
  /\ UNCHANGED <<registry, asking, history, bounds>>

(***************************************************************************)
(* Discovery                                                               *)
(***************************************************************************)
Persisted(s, m) ==
  IF m \in s.trusted THEN "trusted"
  ELSE IF \E r \in s.pending : m \in {r.from, r.to} THEN "pending"
  ELSE IF m \in s.rejected THEN "rejected"
  ELSE IF m \in s.revoked THEN "revoked"
  ELSE "none"

\* An announcement of a peer the registry has keeps its status.
AnnounceKnown(n, m) ==
  /\ Known(n, m) /\ reading[n] = {}
  /\ UNCHANGED vars

\* One of an unknown peer, up to the end of persistedTrustStatus, which says "none"
\* when it cannot read the file.
AnnounceRead(n, m) ==
  /\ m # n /\ reading[n] = {} /\ ~Known(n, m)
  /\ \E trust \in {Persisted(disk[n], m), "none"} :
        reading' = [reading EXCEPT ![n] = {[peer |-> m, trust |-> trust]}]
  /\ UNCHANGED <<trustState, peers, asking, wire, history, bounds>>

\* refreshDiscovery
AnnounceInsert(n, x) ==
  /\ x \in reading[n]
  /\ reading' = [reading EXCEPT ![n] = {}]
  /\ peers' = IF Known(n, x.peer) THEN peers ELSE [peers EXCEPT ![n][x.peer] = x.trust]
  /\ stale' = IF ~Free(n) \/ x.trust # Persisted(store[n], x.peer)
              THEN stale \cup {<<n, x.peer>>}
              ELSE stale
  /\ UNCHANGED <<trustState, asking, wire, asked, answers, spent, dirty, reverted,
                 bounds>>

\* A departure, or an entry that gc finds expired.  Both wait for discoveryMu.
Depart(n, m) ==
  /\ upsets < MaxUpsets
  /\ Known(n, m) /\ reading[n] = {}
  /\ peers' = [peers EXCEPT ![n][m] = "absent"]
  /\ stale' = stale \ {<<n, m>>}
  /\ upsets' = upsets + 1
  /\ UNCHANGED <<trustState, reading, asking, wire, asked, answers, spent, dirty, reverted,
                 revokes>>

\* The process ends and starts again: syncPeerTrustStates finds an empty registry.
Restart(n) ==
  /\ upsets < MaxUpsets
  /\ store' = [store EXCEPT ![n] = disk[n]]
  /\ todo' = [todo EXCEPT ![n] = <<>>]
  /\ peers' = [peers EXCEPT ![n] = [m \in Node |-> "absent"]]
  /\ asking' = [asking EXCEPT ![n] = {}]
  /\ reading' = [reading EXCEPT ![n] = {}]
  /\ requests' = [requests EXCEPT ![n] = <<>>]
  /\ responses' = [responses EXCEPT ![n] = <<>>]
  /\ revocations' = [revocations EXCEPT ![n] = <<>>]
  /\ dirty' = dirty \ {n}
  /\ reverted' = IF store[n] # disk[n] THEN reverted \cup {n} ELSE reverted
  /\ stale' = {x \in stale : x[1] # n}
  /\ upsets' = upsets + 1
  /\ UNCHANGED <<disk, asked, answers, spent, revokes>>

Next ==
  \E n \in Node :
    \/ Mark(n) \/ Save(n) \/ SaveFails(n) \/ Restart(n)
    \/ HandleTrustRequest(n) \/ HandleTrustResponse(n) \/ HandleTrustRevoke(n)
    \/ Lose(n) \/ Discard(n)
    \/ \E x \in reading[n] : AnnounceInsert(n, x)
    \/ \E r \in store[n].pending, ok \in {"approve", "reject"} : Decide(n, r, ok)
    \/ \E m \in Node : \/ Ask(n, m) \/ RequestTrust(n, m) \/ RequestRefused(n, m)
                        \/ Revoke(n, m)
                        \/ AnnounceKnown(n, m) \/ AnnounceRead(n, m) \/ Depart(n, m)

Spec == Init /\ [][Next]_vars

(***************************************************************************)
(* Properties                                                              *)
(***************************************************************************)
\* Every variable keeps its type: what the services, the file, the registry
\* and the subscriptions of service.go hold.
TypeOK ==
  /\ store \in [Node -> TrustState] /\ disk \in [Node -> TrustState]
  /\ todo \in [Node -> Seq(Effect)]
  /\ peers \in [Node -> [Node -> Status \cup {"absent"}]]
  /\ asking \in [Node -> SUBSET Node]
  /\ reading \in [Node -> SUBSET [peer : Node, trust : Status]]
  /\ requests \in [Node -> Seq(Request)] /\ responses \in [Node -> Seq(Answer)]
  /\ revocations \in [Node -> Seq(Node)]
  /\ asked \subseteq Request /\ answers \subseteq Answer
  /\ spent \in [Node -> SUBSET Request]
  /\ dirty \subseteq Node /\ reverted \subseteq Node /\ stale \subseteq Node \X Node
  /\ revokes \in 0..MaxRevokes /\ upsets \in 0..MaxUpsets

\* A peer is never trusted and refused at once, in memory or in trust.json, whose
\* reader persistedTrustStatus would then answer "trusted".
TrustExcludesRefusal ==
  \A n \in Node : \A s \in {store[n], disk[n]} :
    s.trusted \cap (s.rejected \cup s.revoked) = {}

\* A Bot trusts a peer only on an approval that one of the two gave to a request
\* of the other, and that no revocation the Bot has recorded since came after:
\* a response on its way cannot undo a revocation (removePendingByBotLocked).
TrustIsConsent ==
  \A n, m \in Node :
    m \in store[n].trusted \cup disk[n].trusted =>
      \E a \in answers : /\ a.ok = "approve"
                        /\ {a.req.from, a.req.to} = {n, m}
                        /\ a.req \notin spent[n]

\* A request is not answered both ways, unless its receiver restarted from a
\* trust.json that lacked the first answer.
OneAnswer ==
  \A a, b \in answers : a.req = b.req => a.ok = b.ok \/ a.req.to \in reverted

\* What a Bot has decided survives its process: between operations the file
\* holds the memory, unless the last save failed.
DecisionsAreSaved ==
  \A n \in Node : Free(n) /\ n \notin dirty => disk[n] = store[n]

\* Between operations the registry the trust gates read agrees with the trust
\* state, except for an entry that an announcement inserted during or across a
\* change, or that a failed read or save left behind.
RegistryFollows ==
  \A n, m \in Node :
    Free(n) /\ <<n, m>> \notin stale =>
      CASE peers[n][m] = "trusted"  -> m \in store[n].trusted
        [] peers[n][m] = "pending"  -> \E r \in store[n].pending : m \in {r.from, r.to}
        [] peers[n][m] = "rejected" -> m \in store[n].rejected
        [] peers[n][m] = "revoked"  -> m \in store[n].revoked
        [] peers[n][m] = "none"     -> Persisted(store[n], m) = "none"
        [] OTHER -> TRUE

\* A request is decided one way, and the three copies of the decision - memory,
\* trust.json and the registry that the trust gates read - agree between operations.
DecisionsHold == OneAnswer /\ DecisionsAreSaved /\ RegistryFollows

\* docs/trust.md 482: a revocation takes effect at once on the side that makes it.
\* Once Revoke has returned, no gate sees the peer as trusted.  The code does not
\* keep it: an announcement that read trust.json before inserts the peer after.
RevocationStopsTrust ==
  \A n, m \in Node :
    Free(n) /\ m \in store[n].revoked \ store[n].trusted => peers[n][m] # "trusted"
=============================================================================

----------------------------- MODULE Directory -----------------------------
(***************************************************************************)
(* The directory of peers a Bot keeps from signed announcements            *)
(* (src/internal/discovery/service.go, peer_registry.go).                  *)
(*                                                                         *)
(* A running Bot announces itself with strictly increasing timestamps,     *)
(* renews the announcement by a heartbeat, and departs when it shuts down. *)
(* A receiver lists the sender until the entry's TTL passes, and remembers *)
(* the latest claim it accepted of each Bot, departures included, so that  *)
(* an older announcement still on its way cannot undo a newer departure.   *)
(*                                                                         *)
(* Time is relative: every timestamp is its distance from the present, and *)
(* Tick moves all of them one step into the past.  What is too old for any *)
(* comparison of the code to tell apart is kept at the oldest such value   *)
(* or forgotten, so the directory may run for ever in finitely many        *)
(* states.  Handshake composes this module with the authentication of the  *)
(* peers it lists.                                                         *)
(***************************************************************************)
EXTENDS Integers, FiniteSets, FiniteSetsExt

CONSTANTS Bots,
          Ttl,         \* announceTtl, the life of an entry
          MaxAge,      \* maxDiscoveryAge
          Skew,        \* maxFutureSkew
          MsgAge,      \* MaxMessageAge of ValidateMessage, for the other messages
          MaxInFlight, \* bound on discovery messages on their way to one Bot
          MaxFaults    \* bound on lost, late and repeated messages, stops, failures, calls

ASSUME DirectoryAssumption ==
  /\ {Ttl, MaxAge, MaxInFlight} \subseteq Nat \ {0}
  /\ {Skew, MsgAge, MaxFaults} \subseteq Nat

VARIABLES up,        \* the Bots that run
          lastPub,   \* [Bots -> lastPublishedTs]
          peers,     \* [Bots -> entries of the registry]
          latest,    \* [Bots -> Service.latest: the newest claim of each Bot]
          departed,  \* [Bots -> departures it accepted, while an older claim is valid]
          net,       \* messages on their way
          faults

directory == <<up, lastPub, peers, latest, departed>>

AuthStatus == {"seen", "pending", "authenticated", "rejected"}

\* A timestamp too old to be accepted, or to hold back the next one.
Past == -(MaxAge + Skew + 1)

Entry == [bot : Bots, auth : AuthStatus, seen : -(Ttl + 1)..0]
Claim == [bot : Bots, ts : Past..Skew, expires : 0..MaxAge + Skew]

DirectoryInit ==
  /\ up = Bots
  /\ lastPub = [b \in Bots |-> -1]
  /\ peers = [b \in Bots |-> {}]
  /\ latest = [b \in Bots |-> {}]
  /\ departed = [b \in Bots |-> {}]
  /\ net = {}
  /\ faults = 0

Disturb == faults < MaxFaults /\ faults' = faults + 1

(***************************************************************************)
(* The registry                                                            *)
(***************************************************************************)
Listed(a, b) == \E p \in peers[a] : p.bot = b
AuthOf(a, b) == {p.auth : p \in {q \in peers[a] : q.bot = b}}

\* refreshDiscovery keeps what this Bot decided about a peer it already lists.
Refreshed(a, b) ==
  {p \in peers[a] : p.bot # b} \cup
    {[bot |-> b, auth |-> s, seen |-> 0] :
       s \in IF Listed(a, b) THEN AuthOf(a, b) ELSE {"seen"}}

\* Of a peer that is no longer listed, SetAuthStatus changes nothing.
WithAuth(a, b, status) ==
  {IF p.bot = b THEN [p EXCEPT !.auth = status, !.seen = 0] ELSE p : p \in peers[a]}

SetAuthStatus(a, b, status) ==
  peers' = [peers EXCEPT ![a] = WithAuth(a, b, status)]

Without(a, b) == {p \in peers[a] : p.bot # b}

(***************************************************************************)
(* Publishing                                                              *)
(***************************************************************************)
NextTimestamp(b) == Max({0, lastPub[b] + 1})

Discovery(kind, b, ts) ==
  {[type |-> kind, from |-> b, to |-> a, ts |-> ts, copy |-> 1] : a \in Bots \ {b}}

InFlight(a) == {m \in net : m.to = a /\ m.type \in {"announce", "depart"}}
Room(b) == \A a \in Bots \ {b} : Cardinality(InFlight(a)) < MaxInFlight

\* publishAnnounce, by the heartbeat; a tick is its interval.
Announce(b) ==
  /\ b \in up /\ Room(b) /\ lastPub[b] < 0
  /\ net' = net \cup Discovery("announce", b, NextTimestamp(b))
  /\ lastPub' = [lastPub EXCEPT ![b] = NextTimestamp(b)]
  /\ UNCHANGED <<up, peers, latest, departed, faults>>

(***************************************************************************)
(* Receiving                                                               *)
(***************************************************************************)
InTime(m) == m.ts <= Skew /\ m.ts >= -MaxAge

\* Mutant: an accepted claim only shuts out messages it has seen.
FreshByIdentity(a, m) ==
  InTime(m) /\ \A c \in latest[a] : c.bot = m.from => m.ts # c.ts

\* acceptClaim: nothing at or before the newest claim accepted of this Bot.
Fresh(a, m) ==
  InTime(m) /\ \A c \in latest[a] : c.bot = m.from => m.ts > c.ts

Remember(a, m) ==
  latest' = [latest EXCEPT ![a] =
               {c \in @ : c.bot # m.from} \cup
                 {[bot |-> m.from, ts |-> m.ts, expires |-> MaxAge + Skew]}]

HandleAnnounce(a, m) ==
  /\ a \in up /\ m \in net /\ m.type = "announce" /\ m.to = a
  /\ net' = net \ {m}
  /\ IF Fresh(a, m)
       THEN /\ Remember(a, m)
            /\ peers' = [peers EXCEPT ![a] = Refreshed(a, m.from)]
       ELSE UNCHANGED <<latest, peers>>
  /\ UNCHANGED <<up, lastPub, departed, faults>>

\* The departure of a Bot that is not listed is dropped before its claim is kept.
HandleDepart(a, m) ==
  /\ a \in up /\ m \in net /\ m.type = "depart" /\ m.to = a
  /\ net' = net \ {m}
  /\ IF Listed(a, m.from) /\ Fresh(a, m)
       THEN /\ Remember(a, m)
            /\ peers' = [peers EXCEPT ![a] = Without(a, m.from)]
            /\ departed' = [departed EXCEPT ![a] =
                 {d \in @ : d.bot # m.from} \cup {[bot |-> m.from, ts |-> m.ts]}]
       ELSE UNCHANGED <<latest, peers, departed>>
  /\ UNCHANGED <<up, lastPub, faults>>

Expired(p) == p.seen < -Ttl

\* gc removes the entries whose TTL passed since they were last touched.
GC(a) ==
  /\ a \in up
  /\ \E p \in peers[a] : Expired(p)
  /\ peers' = [peers EXCEPT ![a] = {p \in @ : ~Expired(p)}]
  /\ UNCHANGED <<up, lastPub, latest, departed, net, faults>>

(***************************************************************************)
(* Time and the network                                                    *)
(***************************************************************************)
\* A message older than this is rejected wherever it arrives.
Window(m) == IF m.type \in {"announce", "depart"} THEN MaxAge ELSE MsgAge

Older(ts) == Max({ts - 1, Past})

\* pruneClaims forgets a claim when its time has passed.
AgedClaims(cs) ==
  {[c EXCEPT !.ts = Older(@), !.expires = @ - 1] : c \in {d \in cs : d.expires > 0}}

\* A tick is the interval of the heartbeat.  Tick assumes of the hosts that each
\* running Bot has announced itself in it, and counts it as a disturbance when the
\* network has not delivered the announcements and departures by its end.
Punctual ==
  /\ \A b \in up : lastPub[b] >= 0
  /\ \A m \in net : m.to \in up => m.ts > -Window(m)

Late == \E m \in net : m.type \in {"announce", "depart"} /\ m.to \in up

AgeDirectory ==
  /\ Punctual
  /\ IF Late THEN Disturb ELSE UNCHANGED faults
  /\ lastPub' = [b \in Bots |-> Max({lastPub[b] - 1, -1})]
  /\ peers' = [a \in Bots |->
       {[p EXCEPT !.seen = Max({@ - 1, -(Ttl + 1)})] : p \in peers[a]}]
  /\ latest' = [a \in Bots |-> AgedClaims(latest[a])]
  /\ departed' = [a \in Bots |->
       {[d EXCEPT !.ts = @ - 1] : d \in {e \in departed[a] : e.ts > -MaxAge}}]
  /\ net' = {[m EXCEPT !.ts = @ - 1] : m \in {n \in net : n.ts > -Window(n)}}
  /\ UNCHANGED up

\* What is on its way to a Bot that does not run reaches it if it starts in time.
Lose(m) ==
  /\ m \in net /\ Disturb
  /\ net' = net \ {m}
  /\ UNCHANGED directory

Duplicate(m) ==
  /\ m \in net /\ m.copy = 1 /\ Disturb
  /\ net' = net \cup {[m EXCEPT !.copy = 2]}
  /\ UNCHANGED directory

(***************************************************************************)
(* The life of a Bot                                                       *)
(***************************************************************************)
\* The memory of discovery is gone with the process.
Forgotten(b) ==
  /\ up' = up \ {b}
  /\ lastPub' = [lastPub EXCEPT ![b] = -1]
  /\ peers' = [peers EXCEPT ![b] = {}]
  /\ latest' = [latest EXCEPT ![b] = {}]
  /\ departed' = [departed EXCEPT ![b] = {}]

Shutdown(b) ==
  /\ b \in up /\ Disturb
  /\ net' = net \cup Discovery("depart", b, NextTimestamp(b))
  /\ Forgotten(b)

Crash(b) ==
  /\ b \in up /\ Disturb
  /\ Forgotten(b)
  /\ UNCHANGED net

Start(b) ==
  /\ b \notin up
  /\ up' = up \cup {b}
  /\ net' = net \cup Discovery("announce", b, 0)
  /\ lastPub' = [lastPub EXCEPT ![b] = 0]
  /\ UNCHANGED <<peers, latest, departed, faults>>
=============================================================================

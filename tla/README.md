# ClawSynapse in TLA+

ClawSynapse runs *Bots* in one daemon. Bots exchange signed messages over NATS
JetStream; an agent Bot executes the commands it receives with a local harness
(a webhook or a CLI), a console Bot only keeps them. This directory holds TLA+
modules of that system, TLC configurations that check them on small instances,
and TLAPS proofs.

## 1. Inventory

| Component (source) | State it keeps | Operations | Interacts with |
|---|---|---|---|
| Message receiver and executor (`messaging/service.go`, `journal.go`, `handler.go`) | journal (inbox, work, events, backlog counter), one activation of `deliver` per shard | `receive`/`handleInbox`, `work`/`deliver`, `Start` (recovery), `Close` | consumer of the broker, registry (trust), limiter, adapter, outbox |
| Execution scheduler (`adapter/scheduler.go`) | running slots of daemon and Bot, Bot queues, round-robin list | `ForBot`, `Acquire`, release, Bot `Close`, `Close` | `deliver`, Bot manager |
| Outbox (`service.go` 281-407) | publications, keys, pending list, chain of events of a run | `Publish`, `enqueue`, `flushPublication`, `publishPending` | broker, journal, registry |
| Request and reply exchange (`service.go` 468-522) | status of a request computed from the inbox | `Request`, `MessagesAfter` | two Bots over the broker |
| Journal file (`journal.go`) | append-only file | `openMessageJournal`, `append`, `apply` | disk |
| Trust (`trust/service.go`) | incoming and outgoing requests, trusted peers on disk | `Request`, `Approve`/`Reject`, `Revoke`, three handlers | registry, NATS subjects |
| Authentication (`auth/service.go`, `replay_cache.go`) | running challenges, responses that wait for their acknowledgement, replay guard and its file | `StartChallenge`, challenge/response/ack handlers, timer | registry, discovery |
| Discovery (`discovery/*.go`) | registry of peers, claims and tombstones | announce, heartbeat, depart, expiry, automatic challenge | registry, authentication, trust |
| Bot manager (`app/manager.go`, `app.go`, `daemon.go`) | catalog, desired and actual state, references | `Transition`, `Update`, `start`, `stop`, `Acquire`, `Shutdown` | every service of a Bot |
| File transfer (`transfer/service.go`) | records in memory, one operation at a time per Bot | send, forward, pull, notify, import, open, delete, start, close | blob store, executor, object buckets |
| Blob store (`blob/*.go`) | objects, grants, working copies, pins, budgets | put, open, update, delete, workspace, collect | transfer, API, migration |
| Migration (`migration/*.go`) | root, stages, backups, markers, sidecars, locks | upgrade, migrate, recover, export, import | state files, daemon, blob store |
| Dashboard (`tui/dashboard/*.go`) | selected Bot, snapshot, form, commands in flight | keys, ticks, refresh, save, listing | HTTP API, `Manager.Update` |
| Adapters (`adapter/*.go` but the scheduler, `store/session_state.go`) | session mappings and files; per delivery a process or connection, the stream made of its events, an output budget | `DeliverMessage`, event consumers, `runProcess`, `confirmOpenCodeTurn` | the Harness (a CLI or webhook), `HandleMessage`, limiter, Bot state files |
| State files, NATS client, protocol and identity, configuration, HTTP API, command line, logging | see PROJECT.json | | |

What is hard here: the broker delivers at least once and in a different order
after a `NakWithDelay`; `AckSync` may fail on either side; the process may
crash between any two appends and an append may fail; trust, presence and time
change while a message waits; each shard is a goroutine of its own and all of
them compete for the slots of the Bot and of the daemon; and a side effect
outside the system must not begin twice. The list `hazards` of PROJECT.json
names each of these at its line, with the property that would notice.

What makes each component right, in a sentence: a command's effect begins at
most once and its sender gets one true verdict (executor); slots stay within
the budgets and no waiter is passed over (scheduler); every event of a run is
published in order and exactly one message carries a key (outbox); trust rests
on an approval that no recorded revocation followed, and what the gates read is
what was decided (trust); a departure is not undone by an older announcement, a
challenge is answered once and no peer is left pending (discovery,
authentication); desired state survives crashes and one runtime owns a Bot
(manager); content in use is never collected, and what is told of a transfer is
told once and true (transfer, blob); accepted work survives an interrupted
conversion, which can always be finished or taken back (migration); a result is told
as the Harness earned it, its answer comes whole and to its own conversation, and a
delivery always returns (adapters); Bots are kept
apart on the screen and a save undoes nobody else's change (dashboard).

## 2. Plan

| Order | Module | What | Properties and theorems |
|---|---|---|---|
| 1, done | `CommandLifecycle`, `Executor`, `ExecutorWatch`, `ExecutorProofs` | receiver, workers, recovery, the status a requester computes | all proved but liveness, and the refinement |
| 2, done | `Scheduler`, `SchedulerProofs` | `adapter/scheduler.go` under its mutex | limits, work conservation, rounds, Close drains; all proved but liveness |
| 3, done | `Outbox`, `OutboxProofs` | publications, flush, retry, duplicates | per-run order on the wire, bookkeeping, idempotency; proved but liveness |
| 4, done | `PeerTrust`, `PeerTrustProofs` | trust exchange, trust.json, the registry | consent, decisions; all proved |
| 5, done | `BotManager`, `BotManagerProofs` | catalog, transitions, references, readers, creation, shutdown | all proved but liveness |
| 6, done | `BlobStore`, `Transfer`, `TransferProofs` | content store, files, their collection | `StoreIsSound`, `ToldTruly`, `EditsSurvive`; all proved |
| 7, done | `Directory`, `Handshake`, `HandshakeProofs` | announcements, departures, challenges, replay guard | `PendingIsLive`, `DepartureHolds`, `AnsweredOnce`; all proved but liveness |
| 8, done | `Migration`, `BotArchive`, `MigrationProofs` | staged conversion, recovery, export and import | `WorkIsCarried`, `LayoutIsWhole`, `CompleteIsFinal`; all proved but liveness |
| 9, done | `Dashboard`, in `BotManagerProofs` | the event loop of the terminal dashboard | `BotsKeptApart`, `OthersWorkStays`; all proved but liveness |
| 10, done | `NativeStream`, `Adapter`, in `SchedulerProofs` | deliveries to CLIs and webhooks | `VerdictIsEarned`, `AnswerIsWhole`, `ConversationsApart`; all proved but liveness |
| 11 | `JournalFile` | partial writes and truncation of the journal | replay yields the acknowledged prefix |
| 12 | `Exchange` | two Bots: outbox, broker, executor, `Request` | a requester gets a verdict |

The modules take their parameters as CONSTANTS with a named ASSUME, have one
action per operation or step and no RECURSIVE operator, so that they can be proved
about. `BlobStore` is extended by `Transfer`, `Directory` by `Handshake` and
`Migration` by `BotArchive`, `NativeStream` by `Adapter`: the second of each pair is the composition that is run.

## 3. The modules

### Executor

One Bot as a receiver. State and code:

| Variable | Code |
|---|---|
| `pos`, `unacked` | position and outstanding deliveries of the durable consumer (`natsbus/messaging.go` 54-63) |
| `receiver` | the message between the trust check (558) and the rest of `handleInbox` |
| `inbox`, `work`, `outbox`, `pendingCommands` | `messageJournal` (`journal.go` 58-70); `outbox` keeps the run events only |
| `worker` | the copy of the work in `deliver` and the program point, per shard |
| `mode` | process down, `Start` recovering, up, `Close` waiting for the workers |
| `trust`, `expired` | what registry reads and clock reads answer |
| `effects` | executions the adapter has begun (a ghost: the outside world) |
| `stops`, `failures` | bounds on crashes and stops, and on failing appends |

Actions are the stretches of code between points at which another goroutine,
the environment or a crash can interfere: `Fetch` (524-560) and `Verify`
(561-603) for the receiver; `Pick`, `Check`, `Acquire`, `Recheck`, `Admit`,
`Start`, `Call`, `Output`, `Fail`, `Return`, `Reply`, `Finish`, `Notify` for
`work` and `deliver` (611-823); `Boot`, `Recover`, `Ready`, `Crash`, `Close`,
`Closed` for the process; `TrustChanges` and `Expires` for what the service only
reads. A record of the journal is one action: the code writes, syncs and applies
it under one lock, so memory and disk agree whenever the lock is free. A failing
append changes nothing (`AppendFails`). `Shown` is what `Request` (476-522) may tell
its caller: it folds over the caller's inbox, where the last event of a run decides
(501-519). As an event that is put back (531-536) is overtaken, any event may be the last
there, so what is claimed of a request is claimed of every event and of every two.

The limiter is seen through its results: a slot if one is free, an error if the
queue is full, the deadline, or Close. A free slot may still wait, since other
Bots share the daemon's budget.

Left out of Executor: messages that fail validation or whose signature is
wrong (acknowledged at once, no state), `handler == nil` and `transfer == nil`
(set before `Start`), the payload of events, the publication of events (see
Outbox) and the batch of 32 in `receive`, whose messages are handled one by one.

`ExecutorWatch` adds the history variable `barred`: the commands that came to wait without
a slot while their sender was not trusted or their deadline had passed, for as long as that
lasts. `deliver` looks at both before and again after the wait (682-700, 738-753), and a
command may pass the first look and fail the second. A command becomes admissible again
only through trust: `expired` never shrinks.

### CommandLifecycle

The abstract promise to the sender of a command: unknown, accepted, running,
settled, each step at most once. `Executor!LifecycleSpec` instantiates it with
`phase` computed from the work record and `effects`.

### Scheduler

The budget of the daemon and of its Bots. `closed`, `running`, `ready` are the
fields of `Scheduler`; `limiter` (its life), `botRunning`, `queue`, `active`
those of a `BotLimiter`; `pc`, `granted`, `err`, `stopped` are the caller of
`Acquire` and its slot; `cancelled` is the caller's context. `passed` is a ghost:
the Bots served since a Bot was listed.

Everything happens under one mutex, so a critical section is one action, with
one exception: `dispatch` is a loop, and its turns (`Serve`, `Skip`, `Unlock`) are
actions of their own under `lock = "dispatch"`, with only the ends of contexts in
between. `Refuse`, `Enqueue` are the critical section of `Acquire` (83-99),
`Abandon` and `Answer` what follows its `select` (101-138), `Release` the returned
function (121-133), `Close` and `CloseScheduler` lines 185-249. `Answer` is
separate from the decision: a slot may be granted while its caller sees its own
context end. `Again` lets a worker call once more.

Left out: the channels that carry a decision (their being closed is `granted` or
`err`), and limiters of Bots that are made while callers of the old one still
wait, which `app.go` 249-278 excludes.

### Outbox

The sending half of a Bot. `log` is the journal's publications in order of their
records, `published` and `tails` its derived indexes (`journal.go` 170-214),
`pending` the ids `publishPending` works on, `batch` the copy it took, `pc` and
`cur` the program points of the callers of `Publish` and of the loop, `trusted`
the registry. `inflight`, `window` and `stream` are the broker: messages sent and
not yet there, ids in the duplicate window, and what the stream has stored.

`Enqueue`, `Repeat`, `Refuse`, `EnqueueFails` are the outcomes of `enqueue`;
`Emit` appends an event behind the last of its run; `Tick` takes the batch;
`Lock`/`Blocked`, `Send`, `Acked`/`TimesOut`, `Record`/`RecordFails` are the
stretches of `flushPublication` between points where the broker, a crash or an
append may interfere; `Restart` replays the journal. `Accept`, `Lose` and
`Forget` are the broker's: a message that was given up may still arrive, and a
repeated one is dropped only while its id is in the window.

### PeerTrust

Bots that ask each other for trust. `store[n]` is `Service.state`, `disk[n]` the
file trust.json, `peers[n]` the trust status in the registry. Every operation runs
under the mutex of the trust service, but the file and the registry are read
without it, by discovery and by the gates. An operation is therefore one action
that publishes and changes the memory (`RequestTrust`, `Decide`, `Revoke`, the
three handlers), followed by a `Save` and a `Mark` in the order in which the code
does them; what is left is in `todo[n]`. Revocations, requests and handled
revocations save first; answers and handled answers mark first. A failed save
(`SaveFails`) ends the operation, except in `handleTrustRevoke`, and may have
replaced the file all the same, since `WriteAtomic` syncs the directory after the
rename. `Ask` is the look that `Request` takes at the registry before the mutex.

`AnnounceRead` and `AnnounceInsert` are `handleAnnounce` of an unknown peer up to
and after `persistedTrustStatus`, which may fail to read the file, with `discoveryMu`
held in between (`reading`);
`Depart` is a departure or an expiry, which wait for that mutex. `Restart` empties
the registry and what was on its way: core NATS keeps nothing. The three
subscriptions (`requests`, `responses`, `revocations`) keep their order, not the
order between them. A message is lost (`Lose`) or dropped by an early return
(`Discard`).

`asked`, `answers`, `spent`, `dirty`, `reverted` and `stale` are history. `spent[n]`
holds the requests that a recorded revocation of n came after; `stale` the
registry entries that an announcement inserted during or across a change.

Left out: authentication (a peer that is known may be authenticated, so `Ask` has
no such guard), signatures, the claims with which discovery recognises old
announcements (see Directory), and a Bot that revokes itself: the entry a registry has
of its own Bot (`app.go` 177) is therefore absent.

### BotManager

The Bots of one daemon. `saved` is bots.json, `catalog` its copy in memory; `dir`,
`file`, `claim` are the directory of a Bot, its config.json and its marker
workspace-binding.json; `cfg`, `state`, `runtime` are fields of `managedBot`,
`bindings` that of `Manager`. Only the Harness instance of a configuration is kept.

Two locks order everything. `entry[b]` is `managedBot.mu` where it is held across
steps: `Transition` saves the intent and registers its goroutine later
(`StartCall`, `StartRegister`, `StopCall`, `StopRegister`), and a reader of a
stopped Bot keeps it until its files are closed (`Read`, `ReadEnds`). `Manager.mu`
is held across steps by a creation only (`creating`): `Stage`, `Publish` and
`Commit` are its stretches between a crash or a failure (`GiveUp`). All else under
a lock is one action. `worker[b]` is the program point of `start` (`LoadEntry`,
`CheckBinding`, `Build`, `Abandon`, `Started`) or `stop`, `down[b]` that of the
goroutine of `Shutdown`. `owner[b]` is the holder of runtime.lock, `refs[b]` the
WaitGroup of handlers given out by `Acquire` and `Info`. `Halt` is a crash or the
end after `Shutdown`; `Boot` is `newManager` and `Resume`. A failed save restores
the memory and may have replaced the file (`SaveFails`, `UpdateFails`).

Left out: credentials and `Authenticate`, health probes, configuration revisions
(the update is the only writer under the lock of the entry), configurations that
do not parse, calls that find nothing to do, the closing of the scheduler (see
Scheduler) and the 15 s after which `Shutdown` gives up waiting. A Harness without
an instance (`NoInstance`) is one that `checkBindingLocked` does not compare.

### BlobStore and Transfer

`BlobStore` is `blob/store.go`. `grants[b][id]` is a reference file with the record
it carries, `objects` what is under blobs/sha256 and `damaged` the part of it whose
bytes no longer match, `hidden` the Bots whose references cannot be read, `copies`
the working copies, `pins` the readers of `pinnedReader`. `Store.mu` makes each
operation one action; `PutTorn` and the partial forms of `Delete` and `GC` are what a
crash or a failed write leaves. A digest is a model value with a size.

`Transfer` is `transfer/service.go` over it, for the Bots of one daemon. `phase`,
`mem`, `op` are the service: its life, `Service.transfers`, and the operation that
holds `opMu`. Sending is `SendBegin` or `ForwardBegin`, `SendCommit`, `SendOpen`,
`Upload`, `SendEnd`; receiving `PullBegin`, `PullCommit`, `NotifyBegin`,
`NotifyCopy`, `NotifyAdmit`, `NotifyCall`, each with its errors; `Configure` loads
and settles what was interrupted, `CloseBegin` and `CloseEnd` are `Close`. `bucket` is
the object store of the bus: `Upload` may lose its answer, `Arrive` and `Expire` come
from outside. `taken` and `calls` are history.

Left out: the conversion of the legacy transfers.json, checks of paths and names,
the hash itself. An id is random in the code and never used twice (`used`). A working
copy counts with the size of its content (`CopyBytes`), where `workspaceBytes` adds up
the files as they are: what the Harness writes into its copies is outside the budget the
store can keep.

### Directory and Handshake

`Directory` is `discovery/service.go`: `peers[b]` the registry, `latest[b]` the newest
claim accepted of each Bot, `lastPub[b]` the last timestamp published. Time is
relative: a timestamp is its distance from the present, `Tick` moves all of them one
step into the past, and what no comparison can tell apart any more is kept at the
oldest such value or forgotten, so runs are endless in finitely many states. A tick is
the interval of the heartbeat: every running Bot has announced itself in it
(`Punctual`), and a discovery message the network has not delivered by its end counts
as a disturbance (`Late`). The ids that `seen` remembers add nothing to strictly
increasing timestamps and are left out, as are the limits of the claim tables. `InTime`
accepts what is at most `MaxAge` old, where the code takes the TTL that the announcement
carries, which is at most that. The two keys under which the guard remembers a message
are one entry.

`Handshake` adds `auth/service.go` and `replay_cache.go`. `running[b]` are calls of
`StartChallenge`, `authing[b]` the peers `maybeAutoAuthenticate` works on, `acks[b]`
the responses that wait for their acknowledgement, `answering[b]` a response that has
been published before `savePendingAck` has run, `replay[b]` and `replayFile[b]` the
guard. A handler may fail to save the guard or to publish (`fails`). A challenge and
its nonce are one number, which is used again when nothing of it is left; an entry of
the guard is kept only while a copy of its message is on its way. A signature is what
only its signer could have sent. Mode open, which checks nothing, and a full guard are
left out.

### Migration and BotArchive

`Migration` is `Upgrade`, `Migrate` and `Recover` of `migration/*.go`, step by step, with
the start of the daemon. A directory is one thing and its path another: `where[d]` is
the path (root, stage, backup, aside), so a rename changes `where` and a lock
(`held[d]`) moves with the directory, as an flock does. `layout[d]` is what the
directory holds and `work[d]` the work its daemons recorded there; `mark[d]` is the
marker inside, `side` the two sidecars. `tool[p]` is a run of the command: `ConvertRoles`
or `ConvertLegacy`, `WriteMark`, `WriteSide`, `MoveOut`, `MoveIn` forwards, `MoveBack`
and `Abort` for errors and crashes, `RecoverRole`, `RecoverRead`, `RecoverLegacy`,
`Restore` afterwards. `daemon` walks through `NewDaemon`: check, create the root, lock,
check again, up.

`BotArchive` adds `Export`, `Import` and `ConvertArchive`: an imported Bot consists of a
directory, its content and its entry in the catalog (`bot[d]`), published in this order.

Taken as one step or left out: a lock is looked up by its path and then taken
(`atomic.go` 112, `platform_unix.go` 17), which is one step in `LockRoot`, so a rename
between the two is not in the model, and the code does not look again; `RecoverLegacy`
compares the Bot of the marker (`recovery.go` 58), which here is always the one of the
migration; and the marker "preparing" that `Migrate` puts into its stage first
(`migration.go` 174) is left out.

Two assumptions are stated as actions. `OldUp`, an earlier release of the daemon, which
knows nothing of markers, is not started while a migration is unfinished: `Recover`
finishes an upgrade from the stage and would not see what such a daemon did meanwhile.
`Tidy`: the operator removes an empty root that a start left between the two renames
when it was refused; `Upgrade` and `Recover` refuse to go on while it is there. Work at
a root that a daemon created where the target of `Migrate` was absent is set aside by
`Recover`, on disk but out of service; `WorkIsCarried` names it (`Displaced`).

### Dashboard

The event loop of `tui/dashboard`. Keys, ticks and results are handled one at a time;
`commands` is a bag of the commands in flight, each a goroutine that ends when it
likes: a refresh is sent, read by the daemon and taken, a save is sent, stored or
refused, and answered. `scope` is the number of selections, with which `Update` drops
results of another one. `form` holds shown fields, their values, the changed ones and
the one being edited. The daemon is `config`, with the revision that `Manager.Update`
compares (`Accepts`) and the check of a console's fields in `decodeRequest`
(`Decodes`). A value names the Bot it was written for, so that one Bot's value in
another's form would show. Tabs, cursors, the filter, status texts, layout and the
panels that only show something are left out.

### NativeStream and Adapter

`NativeStream` is what the adapters make of one line of a CLI's output
(`native_events.go`, `pi_events.go`): pure operators on a record with the fields of
`nativeStream`, `answerEmitter` and `piStreamState`. Text is a sequence of chunks,
which are numbered in the order in which they are said.

`Adapter` is a delivery from `HandleMessage` to its result. `at`, `ended` are the
goroutine and its context, `proc`, `pipe` the process and its stdout, `stream`,
`tail`, `failed` the reading goroutine's `nativeStream`, unfinished line and
`outputBudget.err`; `sessions` is the session store, `filed` the session files of pi
and omp, `verdict` what the caller of `DeliverMessage` learns (`maybe` is
`Indeterminate`). `Start`, `Copy`, `CopyTail`, `StderrLimit`, `Cancel`, `Kill`, `Wait`,
`Confirm`, `Finish`, `Save` are the stretches of a native delivery between two
goroutines' or the process's turns; `Dial`, `TakeStatus`, `TakeDocument`, `TakeStream`,
`TakeFrame`, `EndOfFrames`, `LoseConnection` those of a webhook. `TurnAway` and
`Ignore` are the early returns; an event of a run is ignored without a slot. `Leave`
forgets what a returned handler held, but for the conversation of a session that the
store or another delivery still names (`Remembered`).

A conversation is a scope (`ScopedKey`): the sender, the agent that is asked and the
session key, which for a message without one is its ID (`handler.go` 108). The Harness is
told that key as the one to answer under (`cli.go` 229), and the sender's follow-up brings
it back, so the IDs of messages and the keys senders choose are one name space: the
number of a delivery stands for the ID of its message and may be a session key too.

The Harness is the environment. `agent[d]` is what it has really said and done, and its
actions (`Announce` to `SayFrame`) are all a CLI was seen to do in the tests and more:
it goes on after its end, repeats itself, fails late, starts another session than it
was asked to, writes what is no event, exits either way or hangs. What it says obeys
its format only as far as the consumers can know: `message_end` carries the text of the
deltas, an item repeats its beginning.

Left out: the wording of prompts and arguments, reasoning and tool parts (not
answers), redirects of a webhook, status probes, `DefaultAdapter`, process setup on Windows, and the crash of
the daemon, after which Executor settles the work as interrupted.

### MC modules

In MCExecutor four messages arrive, in two shards, or two in one (MCExecutorLive gives
`ExecutorWatch` the same definitions). Two tasks suffice for
a property of a pair in one shard, or of two shards that share counter and slots, and
overflow a backlog of one command; the others are a kind of message each. MCScheduler has
two Bots, two callers of one and one of the other, which compete for one slot.
MCOutbox has two callers that use one key for different content, and two runs for two
peers. MCPeerTrust has two Bots, as no operation concerns more than two. MCBotManager
has two Bots, one instance they may share and one workspace they may claim. MCTransfer
has an agent and a console, a small and a large file, and budgets that the large one
fills alone. MCHandshake has two Bots, one of which trusts the other. MCMigration has
a root in each of its conditions, two stages so that a migration can begin again after
a rollback, and one directory a start may create. MCDashboard has an agent and a
console, whose forms differ, and one field that the daemon omits when it is empty.
MCAdapter has a notice without a session key, follow-ups under its ID by its sender, by
the same sender to an agent and by another sender, an event of a run, and each product in
turn; omp differs from pi in its arguments only.

## 4. Runs

| Run | Question |
|---|---|
| Executor | a file announcement, a feedback message and two tasks, in two shards, at an agent that holds one command and puts the second back; output, redeliveries, a crash or stop and a failing append: is the backlog exact, are events and verdicts consistent and honest, does every command follow its lifecycle, is nothing acknowledged before it is durable and no command ended silently? |
| ExecutorLive | two tasks of one session, both open, with one slot, over a crash or stop and a failing append: while deadlines pass and trust comes and goes: is the work of a shard serial, does a task begin that stopped being admissible before its slot or while it waited for it, and is everything eventually received and done if trust settles? |
| Scheduler | three callers of two Bots and one slot, for ever, with Close and re-creation of Bots: limits, work conservation, rounds; is every call answered, does every Close return? |
| OutboxOrder | are the events of a run in order on the wire over timeouts, late arrivals, a failing record and a restart? is the bookkeeping exact? does a key name one message, when calls fail and are repeated? |
| OutboxLive | are the messages of a trusted peer published while another peer is not trusted? |
| TrustPeers | two Bots, one with automatic approval, make two requests and a revocation, with one of: a lost message, a failed save, a departure, a restart. Is trust based on consent, is each request answered one way, do memory, file and registry agree? |
| ManagerBots | two Bots are created, configured, started, stopped, archived and read, with a crash or shutdown and one failing write or load: do lock, runtime, intent and files agree, is a shutdown complete, and does it end? |
| FilesStore | two Bots send, receive, import, read and delete files over one store, with two of: a crash, a close, an expired object, a failed write, a damaged or unreadable file. Is content in use kept, are budgets held, is each outcome told once and truly, do edited copies survive? |
| Handshake | two Bots announce, challenge and answer each other for ever, with two of: a lost, late or repeated message, a stop, a failed save, a call of the API. Does a departure hold, is a pending peer being challenged, is a request answered once, and is the peer authenticated in the end? |
| Migration | each kind of root is upgraded or migrated, recovered, exported from and imported into, with two failures or crashes anywhere and daemons that start and stop: is accepted work carried over, is a committed layout final, can the rest always be recovered, is a listed Bot whole? |
| Adapter | two deliveries, one after the other, to each product: is a result told as the Harness earned it, is the answer whole and in order, is a session continued only within its scope, also by a follow-up under the ID of a message, does each delivery return? |
| Dashboard | refreshes, saves and listings in flight end in any order while the operator selects, edits and saves and another client changes the configuration: are Bots kept apart, is nobody's change undone, does the screen catch up? |

Several properties are conjunctions of named parts, each with a theorem of its own where
it is proved:
`RunsAreOrdered` (`EventsContiguous`, `OneVerdict`), `NothingForgotten` (`NoSilentDrop`,
`AckedIsDurable`), `BeginsInTurn` (`ShardSerial`, `BarredNeverBegins`), `LimitsHold`
(`WithinBudgets`, `QueueBounded`), `CallsReturn` (`Answered`, `CloseReturns`), `AccountIsTrue` (`ConfirmedAccepted`, `NothingLost`),
`DecisionsHold` (`OneAnswer`, `DecisionsAreSaved`, `RegistryFollows`), `OwnersApart` (`RefsAlive`,
`LockIsFree`), `CatalogSound` (`BindingExclusive`, `OneIdentity`, `CataloguedHasData`),
`ToldTruly` (`NotifiedOnce`, `OutcomeIsHonest`), `StoreIsSound` (`ContentIsKept`,
`WithinBudgets`), `NoVainWait` (`WorkConserving`, `ClosedIsDrained`), `LayoutIsWhole`
(`UpIsCommitted`, `ListedIsWhole`). Every module has a type invariant as well.

Bounds. `MaxStops` 1 crash or clean stop and `MaxFailures` 0 or 1 failing
append: one of each reaches every recovery path. `MaxDeltas` 1 lets output
come between start and verdict; the liveness run has none. `MaxRunning` 1 with
`MaxQueued` 0 fills the backlog with one command and puts the second back; with
`MaxQueued` 1 two are open, one behind the other (ExecutorLive); how long a worker waits
in front of the slot is left open, so one session shows what may change meanwhile;
`MaxAckPending` 1 is a consumer whose next message
comes after the acknowledgement (2 takes longer than five minutes). Sequence numbers are
bounded by `MaxDeltas`; nothing else grows.
In the outbox `MaxEvents` 2 gives a chain with a predecessor, `MaxStops` one
restart and, in the liveness run, `MaxForgets` one message that leaves the
duplicate window. The scheduler needs no bound; its safety was also checked for four
callers with two slots and different limits of the Bots (3.4 million states).
In PeerTrust two requests let requests cross or follow each other, and one
revocation can come before, between and after them; `MaxUpsets` 1 allows any one
departure, restart, failed save or lost message, at any point.
In BotManager three lifecycle calls start one Bot, stop it and start the other, which
is what it takes to meet in one instance; one handler per Bot, one halt and one
fault reach each wait and each recovery path.
In Transfer `MaxFaults` 2 lets a failed or torn write be followed by a crash, or a
crash by a second one; two ids let a file be received and forwarded. In Handshake
`MaxFaults` 2 lets a message be lost or repeated around a restart, `MaxInFlight` 1
leaves one announcement on its way while the next Bot's state changes, and the times
are the smallest that keep the order of the code's: an entry lives for a tick, a claim
longer than its entry, a challenge shorter. Calls of the API count as disturbances, as
each of them may fail. In Migration `MaxFaults` 2 interrupts a migration and its
recovery; two tools at once were checked as well (0.2 and 0.9 million states). In
Dashboard `MaxCommands` 2 lets a refresh overtake a save or another refresh, and
`MaxEvents` 2 counts listings, saves, failing requests and other clients' changes together.
Larger instances of Handshake and Dashboard take longer than five minutes.
In Adapter the second delivery can resume what the first began or collide with it;
two turns let a run be retried or continued after its end; two chunks with `DeltaCap` 2
let one be published and the other wait; a pipe of one event puts the end of the process
before, at and behind each line. Deliveries come one after the other, as a Bot with
`MaxRunning` 1 does; at more, two of one session would share its native session,
which the executor excludes by serial shards. They are counted, so the run may stop.
Capacity and `MaxAckPending` stand for configured values (128 in the code).

Fairness (`Fairness`, of `FairSpec` and `FairWatchSpec`). Weak fairness of every goroutine (`Recover`, `Verify`,
each worker) and of the process being restarted. Strong fairness of an
acknowledgement eventually getting through and of a delivery being retried:
JetStream redelivers after 30 s or the delay of the nak, and `AckSync` does not
fail for ever. Weak fairness of `Expires`: deadlines are at most ten minutes
away. Strong fairness of a notification being accepted: an endpoint that
answers 503 for ever keeps feedback queued for ever, by design. Strong fairness of
Close's return: `receive` ends after its batch once the context is done
(`service.go` 524-526), though a delivery put back again and again may keep it busy. Nothing is
assumed of trust; EventuallyDone is conditional on it settling.

Scheduler: weak fairness of the loop of `dispatch`; strong fairness of each
caller's next critical section, as Go's mutex hands itself to a goroutine that
has waited for a millisecond, and an execution ends because the adapter's timeout
bounds it. Outbox: the loop ticks, the broker is strongly fair to what is sent,
and a lock, an answer and a record that keep being possible eventually happen;
nothing is assumed of callers, and a peer must stay trusted. Manager: the goroutines
of each Bot are strongly fair for the same reason as the callers of the scheduler, as
readers may take the entry again and again; handlers and readers return, since an
HTTP request ends with its connection. Handshake: the ticker, every subscription and
every goroutine of a running Bot is weakly fair, and so is the timer of a challenge
whose answer can no longer come; nobody starts a stopped Bot, and losses are bounded.
Migration: the tool is run until it ends, a daemon is stopped for it, and the operator
clears away what a refused start left. Dashboard: the event loop delivers every message
and ticks, and commands end because their requests have a timeout; keys and other
clients owe nothing. Adapter: the timeout of the handler passes (`handler.go` 101), a
killed process is gone, since the whole process group is killed (`process_unix.go` 17)
and `Wait` gives its pipes two more seconds (`runner.go` 140), and the goroutine of the
delivery goes on; the Harness and the broken pipe owe nothing.

## 5. Proofs

`ExecutorProofs` proves `TypeOK`, `BacklogBounded` and `RunsAreOrdered` with both its
parts for all values of the constants allowed by `ExecutorAssumption`.
None is inductive alone. The invariant `IInv` adds `WorkersOK` (the local copy
of the work in `deliver` is fresh, its program point determines the state in
the journal and whether the effect began), `EffectsOK` (queued work has no
effect) and `InboxOK` (only received messages have work). The freshness of the
copy is what makes `emit` append a new event instead of finding its key taken;
that each message belongs to one shard is what keeps the copy fresh. Lemmas on
journal records (`WriteKeepsBacklog`, `EmitKeepsJournal`, `SetWorkKeepsJournal`)
come first, then one lemma for each shape of a worker's step, one for each
action, and the theorems.

From the same invariant it proves the refinement `Spec => LifecycleSpec`: each step
progresses one work or stutters. The remaining properties of `Executor` rest on one
more lemma, which says what any step does to the journal and the effects: the work of
one message progresses (`Deed`), one message arrives (`Arrival`), or both rest
(`Told`). `ShardSerial` then follows from `SerialInv`: whatever a worker handles or
has begun stands ahead of everything open in its shard, which an arrival at the end
of the inbox keeps and the end of a work only makes easier. `VerdictHonest` follows
from `HonestInv`, which says of every event recorded, and not only of the verdict, that
it is true of the effect, and from there being one verdict, so that the order in which the
events reach the requester makes no difference to what is claimed. `BarredNeverBegins`
is proved of `WatchSpec`, which is `Spec` with a history variable (`Watched`): `Barred` (no
effect, and no slot whose holder has got past `Recheck`) holds of whatever comes to wait
without a slot, and every step keeps it as long as the message is not admissible
(`BarredStep`); `BeginsTheorem` joins it with `Serial`. `NothingForgotten` is a property of steps and follows from
the same lemma.

`OutboxProofs` proves every safety property of `Outbox`, for any number of callers,
runs and events. `IInv` joins `RunOrder` and `NothingLost` with
`AcceptedOK` (what is recorded, or remembered by a flusher as answered, is in the
stream) and `ChainOK` (what is in flight, sent or in the stream has its
predecessor recorded as published): the check of the predecessor under
`publishMu` is thus worth something at any later time, for a message that was
given up arrives only behind a predecessor that is already there. That the stream
may hold a message twice does not matter, as order speaks of first occurrences.
`Idempotency` rests on a second invariant, `KeysOK`: the keys of a run are its
event numbers up to the count, which callers cannot use.

`SchedulerProofs` proves every safety property of `Scheduler`, for any number of
Bots and callers and any budgets. The parts of `IInv`: what a caller knows at each
point (`CallersOK`), queues hold undecided requests of their Bot once (`QueueOK`),
the list holds each Bot that may run more once and only open ones (`ReadyOK`),
counters are cardinalities (`CountersOK`), the loop ends with a full daemon or an
empty list (`DispatchOK`), and the one request that may exceed `maxQueued` is the
next the loop serves (`RoomOK`). `WorkConserving` follows from `DispatchOK` and
`ReadyOK`; the bound of queues is not inductive without `RoomOK`, since an
immediate execution passes through a queue of length 0. `FairRounds` rests on
`PassedOK`: a Bot served since c was listed stands behind c.

`PeerTrustProofs` proves `TypeOK`, `TrustExcludesRefusal` and `TrustIsConsent` and `DecisionsHold`
for any set of Bots and any bounds. The first two hold step by step. Consent rests on
why a late answer cannot revive a revoked trust: what a revocation spent is no
longer pending (`SpentOK`), which takes that an unsaved revocation has already
emptied the memory of the peer (`WithdrawOK`), that a request on its way is there
once and not yet pending or answered (`MessagesOK`), that requests are named apart
(`NamesOK`) and that no Bot finds itself in its registry (`SelfOK`). `Effects`
says what each step does to these parts of the state, and each invariant is then
shown over its five cases. `DecisionsHold` relates memory, file and registry of a
Bot, which an operation changes one after the other: `AgreeOK` says of each program
point what the operation in progress has still to do (save, mark, or both, in either
order), and that the file lacks the memory only while a save is due or after one has
failed, the registry only of the peer whose mark is due or of a stale entry. That a
request is answered one way needs that an answered one is no longer pending, unless a
failed save brought it back (`AnsweredOK`).

`BotManagerProofs` proves all safety properties of `BotManager`. `BotInv(b)` relates
the program points of one Bot to its state (`PointsOK`), to the holder of its entry
(`EntryOK`), to its lock and handlers (`LockOK`), and these to the intent, the files
and the shutdown (`IntentOK`, `DaemonOK`); a step concerns one Bot and leaves the
others alone (`StepIsLocal`), so it suffices to show it for that one. Two facts
relate Bots to each other. `Apart`: Bots that may run have bindings apart, which
rests on an active Bot having its checked configuration in `bindings` and not being
archived, so that `Shared` sees it. `OneIdentity`: the markers of all directories,
staged ones included, are looked at before one is added.

`TransferProofs` proves `TypeOK`, `StoreIsSound`, `ToldTruly` and `EditsSurvive` for
any number of Bots, readers, ids and digests, and any sizes and budgets. `StoreInv` has
three parts besides the types. `ToldInv`: what the operation in progress has
established for its transfer (`PointOK`: an open or running upload stands on its own
pending record, a call on a record admitted on disk and not yet called), and, for each
id, that calls are counted only against admitted grants and that a send is `completed`
only if the bus took it (`RowOK`). `Shape`: a copy has its grant, a grant its object,
and the budgets hold, which takes lemmas on sums over finite sets (`TotalMono`,
`TotalAdd`): `Total` counts bytes as a cardinality, since the prover cannot unfold a
recursive sum. `HoldInv`: the pins of a digest are its open readers, uploads and
forwards, none left out, so that the collector, which looks at pins and grants only,
sees every use. `EditsSurvive` goes through the
three steps that touch a copy at all: the callback makes one only where there is none,
and only a deletion removes one, while no operation holds `opMu`.

`HandshakeProofs` proves `TypeOK`, `PendingIsLive`, `DepartureHolds` and
`AnsweredOnce` for any Bots, ages and bounds. `TypeOK` here includes that clocks do
not run out of range as time passes. `PendingIsLive` holds step by step, as every
way out of `StartChallenge` settles the status it has set. `DepartureHolds` rests on
`GoneOK`: a departure that is remembered comes with a claim at least as new, which
lives `MaxAge` longer and shuts out every older announcement. `AnsweredOnce` rests on
`SeenOK`: the guard, and the file it is restored from, know a request that was answered
as long as a copy of it is on its way. It needs `ReplayAssumption`, that the guard
remembers a message for at least as long as its timestamp is accepted: 10 minutes
(`app.go` 78) against 5 (`validator.go` 61).

`MigrationProofs` proves `TypeOK`, `WorkIsCarried`, `LayoutIsWhole` and
`CompleteIsFinal` for either kind of root and any tools, stages, fresh directories, work
and faults, under `MigrationAssumption`. A migration is a row of renames and small
files with no point at which all is consistent, so `IInv` says what each of them means at
every moment a crash may come. `StateInv`: where a directory can be and what its marker
and the sidecars can say. `RunInv`: of the tools that have gone past `Recover` there is
one (`OneActive`), and its program point, what it read and the markers on disk determine
where original, stage and backup are (`RoleSideOK` for an upgrade, `ToolOK` with
`LegacyOK` and `RoleOK` for a run of a tool). `LayoutInv`: which directory is the
`Keeper` of accepted work, namely the committed one, before the commit the original, or
the one a daemon made where there was none (`AcceptedOK`); who holds the locks
(`HoldersOK`); that a daemon is up on the keeper only (`UpOK`); and that while the root is
taken out a sidecar says so (`SettledOK`), which keeps a daemon from coming up on an empty root
in its place. `JobOK` is the same for the archive command. `WorkIsCarried` needs all of
these, as the copy is made before the commit: nothing may be accepted between the two,
which rests on the locks (`CopyOK`). `CompleteIsFinal` follows from `PlacesOK` after the
step and from `MarkStays`. The steps of the daemon and the archive command leave the
tools' files alone (`BesideInv`); those of a tool are renames (`MoveInv`) or leave
every directory in its place (`ToolInv`, `RunOnly`).

Each of these modules ends with the theorem of its grouped properties (`RunsTheorem`,
`Limits`, `Waits`, `Account`, `Owners`, `SoundCatalogs`), which follow from their parts.

Two of them end with the proofs of a second component, which shares no name with the
first so that both can be extended: the client of the daemon after the manager, and
the delivery after the slot it runs in.

For `Dashboard` (end of `BotManagerProofs`): `BotsKeptApart` and `OthersWorkStays`, for
any Bots and fields and any number of commands in flight. `DashInv` says that every
answer in flight is a configuration the daemon has had (`Snapshot`) of the Bot it was
asked for, that a result of the present scope is the selected Bot's, and that a save
keeps the Bot, the snapshot and the edits of one moment together. A save is harmless,
however late it is stored, because the revisions of a Bot grow and tell its values
apart: one that is accepted was made from the values it overwrites.

For `Adapter` (end of `SchedulerProofs`): `VerdictIsEarned`, `AnswerIsWhole` and
`ConversationsApart`, for every product and any number of deliveries, senders, turns,
items and chunks and any size of the pipe, under `AdapterAssumption` and
`DeltaCapPositive`. What the adapter knows lags behind what the Harness has done by the
events that nobody has read yet, so no invariant of both at one moment suffices.
`Coupled` says of a stream and a state of the Harness that they agree; `Follow`, that
there was such a state from which the Harness came to its present one by writing exactly
the events still unread, or something it does not tell (`Quiet`). That past state is
quantified, not remembered in a variable, and the two ends of the pipe are then shown
apart: a step of the Harness adds an event at its end (`HarnessKeeps`), and reading the
first one moves the past state on (`ReadStep`, from one lemma for each consumer:
`ReadCodex`, `ReadOpenCode`, `ReadPi`, `ReadDoc`; `ReadFrame` for the frames of a webhook). The
lemmas below these say what the operators of `NativeStream` do to the text a stream has
taken (`Held`) and to what of it the requester has been told (`Told`): nothing is lost,
said twice or taken back, in whatever batches it goes out. `Row` says what all this leaves of a
delivery at each of its places, and of a verdict that it is earned. Sessions are apart
because each is named after the delivery that began it, a delivery continues only one of
its own scope (`Continued`), and the store names under a scope only sessions of that scope
(`Stored`) in which an execution has finished (`Finished`). Nothing is assumed of session
keys, which may be the IDs of messages.

Checked by TLC only: the eight liveness properties (`EventuallyDone`, `CallsReturn`,
`EventuallyPublished`, `ShutdownEnds`, `Recovers`, `EventuallyAuthenticated`,
`EventuallyCurrent`, `EveryDeliveryReturns`), which are out of reach of the prover, and the
deadlock check of the runs that make it. Every other property of a run is a theorem.

## 6. Where the code keeps less than it says

Each of the first four is a formula of its module, with a comment that says so; TLC
finds a counterexample in the instance named with it.

* `NoOvertaking` (Executor with `MaxAckPending` 2): `docs/messaging.md` 68 promises order within a session,
  but a message that must wait is put back alone (`service.go` 534) and later ones
  pass it.
* `OnlyRevokedDiscarded` (Executor): a peer that leaves the registry between the two
  lookups of `handleInbox` (558 and 561) has its message acknowledged and lost, against
  the comment at 541.
* `RevocationStopsTrust` (TrustPeers): `Revoke` of a peer that is not in the registry and
  an announcement of that peer (`discovery/service.go` 321) can leave it trusted there,
  against `docs/trust.md` 482.
* `UnsavedIsMarked` (Dashboard): the success of a save clears the marks of fields edited
  after S was pressed (`view.go` 134), so such an edit is shown as saved and then
  overwritten.

Met on the way and outside the models, or taken by them as it is: a `run.started` or
`run.output.delta` that is put back and arrives after the verdict shows a finished run as
running for good (`messaging/service.go` 501-519, 531-536), which `VerdictHonest` allows,
as it speaks of final results only; a JSON answer of a webhook whose `error` is not a string
is no answer of the schema, and is told as a completed one in plain text (`webhook.go`
240-272), which is the form "text" of `Documents`; a redirect whose target cannot be
dialled is told as never begun, though the first endpoint has answered (`webhook.go`
116-120); an error status of a
webhook is told as a certain failure (`webhook.go` 162, `messaging/service.go` 785) though
the comment at `webhook.go` 168 knows that the receiver may have admitted the work; a listing that arrives after Escape selects the
Bot again and drops unsaved edits (`view.go` 169); the cursors of the dashboard are not
clamped when a refresh fails after the peers were read (`view.go` 151) or when the form
of a console is shorter (`data.go` 269); a value the daemon omits stays on the screen
(`data.go` 278); an entry of `acks` whose acknowledgement is lost stays for ever
(`auth/service.go` 413); a request that is delivered twice marks an honest peer rejected
until its next announcement (`auth/service.go` 192), and its durable messages are
discarded meanwhile (`messaging/service.go` 674); an acknowledgement that arrives before
`savePendingAck` has run is dropped (`auth/service.go` 242); an import that failed leaves
a stage under bots/ that stops the collector (`blob/store.go` 740); some 1640 Bots fill
the claim table with the default heartbeat (`discovery/service.go` 654).

## 7. Not modelled

The journal file below its records and the exchange of two Bots as a whole are planned.
Parsing of configuration, encoding and signatures, the connection to NATS, the
HTTP layer, the command line and logging keep no state of their own over time or belong
to other processes; the models take them as their callers use them. The `note` of each
component in PROJECT.json says what a model of it leaves out.

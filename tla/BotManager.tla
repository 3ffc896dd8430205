----------------------------- MODULE BotManager -----------------------------
(***************************************************************************)
(* The manager of the Bots of a daemon (src/internal/app): the catalog of  *)
(* intents bots.json, the directory and the configuration of each Bot, and *)
(* the runtimes that calls and a shutdown start and stop.                  *)
(*                                                                         *)
(* Two kinds of lock order the steps.  A call holds the entry of its Bot   *)
(* (managedBot.mu), across several steps when entry[b] says so; work on    *)
(* the catalog holds Manager.mu, which a creation keeps while creating is  *)
(* not empty.  What runs in goroutines of its own - starting, stopping,    *)
(* shutting down - is in worker[b] and down[b].  A crash loses the memory  *)
(* and keeps the files.                                                    *)
(***************************************************************************)
EXTENDS Integers, FiniteSets

CONSTANTS Bots,         \* every identity that may be created
          Instances, NoInstance,    \* of Harnesses that several Bots can reach
          Workspaces, NoWorkspace,
          MaxCalls, MaxRefs, MaxHalts, MaxFaults

ASSUME ManagerAssumption ==
  /\ NoInstance \notin Instances /\ NoWorkspace \notin Workspaces
  /\ {MaxCalls, MaxRefs, MaxHalts, MaxFaults} \subseteq Nat

VARIABLES
  dir, claim, file, saved,    \* on disk: directory, workspace-binding.json, config.json, bots.json
  up, closing,                \* the daemon runs, Shutdown was called
  catalog, bindings, creating,   \* Manager.catalog, Manager.bindings, createLocked
  cfg, state, runtime,        \* managedBot.cfg, info.State, whether runtime is set
  entry,                      \* who keeps managedBot.mu
  worker, down,               \* program points of start or stop, and of Shutdown
  refs, owner,                \* handlers in use, holder of runtime.lock
  doubt,                      \* the last save of the catalog failed
  calls, halts, faults

disk == <<dir, claim, file, saved>>
manager == <<up, closing, catalog, bindings, creating>>
runtimes == <<runtime, refs, owner>>
bounds == <<calls, halts, faults>>
vars == <<disk, manager, cfg, state, entry, worker, down, runtimes, doubt, bounds>>

Intent == {"none", "running", "stopped", "archived"}
State == {"absent", "stopped", "starting", "running", "stopping", "failed", "archived"}
Idle == {"stopped", "failed", "archived"}

Each(value) == [b \in Bots |-> value]

Init ==
  /\ dir = Each("absent") /\ claim = Each(NoWorkspace)
  /\ file = Each(NoInstance) /\ saved = Each("none")
  /\ up = FALSE /\ closing = FALSE /\ creating = {} /\ doubt = FALSE
  /\ catalog = Each("none") /\ bindings = Each(NoInstance) /\ cfg = Each(NoInstance)
  /\ state = Each("absent") /\ runtime = Each(FALSE) /\ entry = Each("free")
  /\ worker = Each("none") /\ down = Each("none") /\ refs = Each(0) /\ owner = Each("none")
  /\ calls = 0 /\ halts = 0 /\ faults = 0

(***************************************************************************)
(* The daemon                                                              *)
(***************************************************************************)
\* newManager and Resume, before the API accepts calls.  The identity or the
\* credential of a broken Bot does not load.
Boot ==
  /\ ~up
  /\ up' = TRUE
  /\ catalog' = saved
  /\ cfg' = [b \in Bots |-> IF saved[b] = "none" THEN NoInstance ELSE file[b]]
  /\ bindings' = cfg'
  /\ worker' = [b \in Bots |-> IF saved[b] = "running" THEN "load" ELSE "none"]
  /\ \E broken \in SUBSET {b \in Bots : saved[b] \in {"stopped", "archived"}} :
       /\ broken # {} => faults < MaxFaults
       /\ faults' = IF broken = {} THEN faults ELSE faults + 1
       /\ state' = [b \in Bots |-> IF b \in broken THEN "failed"
                                   ELSE CASE saved[b] = "none"    -> "absent"
                                          [] saved[b] = "running" -> "starting"
                                          [] OTHER                -> saved[b]]
  /\ UNCHANGED <<disk, closing, creating, entry, down, runtimes, doubt, calls, halts>>

\* The end of the process, by a crash or after Shutdown.  The system frees locks.
Halt ==
  /\ up /\ halts < MaxHalts
  /\ up' = FALSE /\ closing' = FALSE /\ creating' = {} /\ doubt' = FALSE
  /\ catalog' = Each("none") /\ bindings' = Each(NoInstance) /\ cfg' = Each(NoInstance)
  /\ state' = Each("absent") /\ runtime' = Each(FALSE) /\ entry' = Each("free")
  /\ worker' = Each("none") /\ down' = Each("none") /\ refs' = Each(0)
  /\ owner' = Each("none")
  /\ halts' = halts + 1
  /\ UNCHANGED <<disk, calls, faults>>

(***************************************************************************)
(* The catalog, under Manager.mu                                           *)
(***************************************************************************)
Free == up /\ ~closing /\ creating = {}

\* checkBindingLocked that takes every Bot for active, and one that looks at
\* the intent to run.
SharedWithRunning(b, i) ==
  i # NoInstance /\ \E c \in Bots \ {b} : bindings[c] = i /\ catalog[c] = "running"

Shared(b, i) ==
  i # NoInstance /\ \E c \in Bots \ {b} : bindings[c] = i /\ catalog[c] # "archived"

With(b, intent) == [catalog EXCEPT ![b] = intent]

\* saveCatalogLocked failed: the memory is put back, the file may be replaced.
SaveFails(b, intent) ==
  /\ faults < MaxFaults
  /\ saved' \in {saved, With(b, intent)}
  /\ doubt' = TRUE
  /\ faults' = faults + 1
  /\ UNCHANGED catalog

\* Changes the memory and leaves the file for later.
SaveLater(b, intent) ==
  /\ catalog' = With(b, intent)
  /\ UNCHANGED <<saved, doubt, faults>>

Save(b, intent) ==
  /\ catalog' = With(b, intent) /\ saved' = catalog'
  /\ doubt' = FALSE
  /\ UNCHANGED faults

\* desiredLocked
Admitted(b, intent) ==
  /\ Free
  /\ intent = "running" \/ (catalog[b] = "archived" /\ intent = "stopped")
       => ~Shared(b, cfg[b])

(***************************************************************************)
(* Lifecycle calls: Transition and Update hold the entry of their Bot      *)
(***************************************************************************)
Called == calls < MaxCalls /\ calls' = calls + 1

MayStart(b) == catalog[b] \in {"running", "stopped"} /\ state[b] \in {"stopped", "failed"}
MayStop(b) == catalog[b] # "none" /\ state[b] # "starting"
MayArchive(b) == catalog[b] # "none" /\ ~runtime[b] /\ state[b] \notin {"starting", "stopping"}

Stopped(b) == IF catalog[b] = "archived" THEN "archived" ELSE "stopped"

\* start and stop, up to the end of desiredLocked.
StartCall(b) ==
  /\ entry[b] = "free" /\ MayStart(b) /\ Called
  /\ Admitted(b, "running") /\ Save(b, "running")
  /\ entry' = [entry EXCEPT ![b] = "start"]
  /\ UNCHANGED <<dir, claim, file, up, closing, bindings, creating, cfg, state, worker, down,
                 runtimes, halts>>

StopCall(b) ==
  /\ entry[b] = "free" /\ MayStop(b) /\ Called
  /\ Admitted(b, Stopped(b)) /\ Save(b, Stopped(b))
  /\ entry' = [entry EXCEPT ![b] = "stop"]
  /\ UNCHANGED <<dir, claim, file, up, closing, bindings, creating, cfg, state, worker, down,
                 runtimes, halts>>

\* ... and from there to the end of the call: the goroutine is registered.
StartRegister(b) ==
  /\ entry[b] = "start"
  /\ state' = [state EXCEPT ![b] = "starting"]
  /\ worker' = [worker EXCEPT ![b] = "load"]
  /\ entry' = [entry EXCEPT ![b] = "free"]
  /\ UNCHANGED <<disk, manager, cfg, down, runtimes, doubt, bounds>>

StopRegister(b) ==
  /\ entry[b] = "stop"
  /\ entry' = [entry EXCEPT ![b] = "free"]
  /\ \/ state[b] = "stopping" /\ UNCHANGED <<state, worker>>
     \/ /\ state[b] # "stopping" /\ ~runtime[b]
        /\ state' = [state EXCEPT ![b] = Stopped(b)]
        /\ UNCHANGED worker
     \/ /\ state[b] # "stopping" /\ runtime[b]
        /\ state' = [state EXCEPT ![b] = "stopping"]
        /\ worker' = [worker EXCEPT ![b] = "drain"]
  /\ UNCHANGED <<disk, manager, cfg, down, runtimes, doubt, bounds>>

\* archive and restore
Settle(b, intent) ==
  /\ entry[b] = "free" /\ MayArchive(b) /\ Called
  /\ Admitted(b, intent) /\ Save(b, intent)
  /\ state' = [state EXCEPT ![b] = intent]
  /\ UNCHANGED <<dir, claim, file, up, closing, bindings, creating, cfg, entry, worker, down,
                 runtimes, halts>>

\* A call that cannot save returns the error.
CallFails(b, intent) ==
  /\ entry[b] = "free" /\ Called
  /\ \/ intent = "running" /\ MayStart(b)
     \/ intent = Stopped(b) /\ MayStop(b)
     \/ intent \in {"stopped", "archived"} /\ MayArchive(b)
  /\ Admitted(b, intent) /\ SaveFails(b, intent)
  /\ UNCHANGED <<dir, claim, file, up, closing, bindings, creating, cfg, state, entry, worker,
                 down, runtimes, halts>>

Update(b, i) ==
  /\ entry[b] = "free" /\ state[b] \in Idle /\ claim[b] = NoWorkspace /\ Called
  /\ Free /\ ~Shared(b, i)
  /\ file' = [file EXCEPT ![b] = i]
  /\ cfg' = [cfg EXCEPT ![b] = i]
  /\ bindings' = [bindings EXCEPT ![b] = i]
  /\ UNCHANGED <<dir, claim, saved, up, closing, catalog, creating, state, entry, worker, down,
                 runtimes, doubt, halts, faults>>

UpdateFails(b, i) ==
  /\ entry[b] = "free" /\ state[b] \in Idle /\ claim[b] = NoWorkspace /\ Called
  /\ Free /\ ~Shared(b, i) /\ faults < MaxFaults
  /\ file' \in {file, [file EXCEPT ![b] = i]}
  /\ faults' = faults + 1
  /\ UNCHANGED <<dir, claim, saved, manager, cfg, state, entry, worker, down, runtimes, doubt,
                 halts>>

(***************************************************************************)
(* start: the configuration is read again, checked under Manager.mu, and   *)
(* a runtime built from it that holds runtime.lock                         *)
(***************************************************************************)
Go(b, point) == worker' = [worker EXCEPT ![b] = point]

LoadEntry(b) ==
  /\ worker[b] = "load" /\ entry[b] = "free"
  /\ cfg' = [cfg EXCEPT ![b] = file[b]]
  /\ \/ Go(b, "check") /\ UNCHANGED faults
     \/ Go(b, "fail") /\ faults < MaxFaults /\ faults' = faults + 1
  /\ UNCHANGED <<disk, manager, state, entry, down, runtimes, doubt, calls, halts>>

CheckBinding(b) ==
  /\ worker[b] = "check" /\ creating = {}
  /\ \/ Shared(b, cfg[b]) /\ Go(b, "fail") /\ UNCHANGED bindings
     \/ /\ ~Shared(b, cfg[b]) /\ Go(b, "build")
        /\ bindings' = [bindings EXCEPT ![b] = cfg[b]]
  /\ UNCHANGED <<disk, up, closing, catalog, creating, cfg, state, entry, down, runtimes, doubt,
                 bounds>>

\* NewRuntime takes the lock, or fails before.
Build(b) ==
  /\ worker[b] = "build"
  /\ \/ /\ owner[b] = "none" /\ Go(b, "run")
        /\ owner' = [owner EXCEPT ![b] = "runtime"]
     \/ Go(b, "fail") /\ UNCHANGED owner
  /\ UNCHANGED <<disk, manager, cfg, state, entry, down, runtime, refs, doubt, bounds>>

\* What NewRuntime or Start could not do ends in Close.
Abandon(b) ==
  /\ worker[b] = "run" /\ Go(b, "fail")
  /\ owner' = [owner EXCEPT ![b] = "none"]
  /\ UNCHANGED <<disk, manager, cfg, state, entry, down, runtime, refs, doubt, bounds>>

Started(b) ==
  /\ entry[b] = "free" /\ Go(b, "none")
  /\ \/ /\ worker[b] = "run"
        /\ runtime' = [runtime EXCEPT ![b] = TRUE]
        /\ state' = [state EXCEPT ![b] = "running"]
     \/ /\ worker[b] = "fail"
        /\ state' = [state EXCEPT ![b] = "failed"]
        /\ UNCHANGED runtime
  /\ UNCHANGED <<disk, manager, cfg, entry, down, refs, owner, doubt, bounds>>

(***************************************************************************)
(* stop, and the part of Shutdown that it shares the shape of              *)
(***************************************************************************)
Close(b) == owner' = [owner EXCEPT ![b] = "none"]
Dispose(b) ==
  /\ runtime' = [runtime EXCEPT ![b] = FALSE]
  /\ state' = [state EXCEPT ![b] = "stopped"]

StopDrained(b) ==
  /\ worker[b] = "drain" /\ refs[b] = 0 /\ Go(b, "close")
  /\ UNCHANGED <<disk, manager, cfg, state, entry, down, runtimes, doubt, bounds>>

StopClosed(b) ==
  /\ worker[b] = "close" /\ Close(b) /\ Go(b, "clear")
  /\ UNCHANGED <<disk, manager, cfg, state, entry, down, runtime, refs, doubt, bounds>>

StopEnded(b) ==
  /\ worker[b] = "clear" /\ entry[b] = "free" /\ Dispose(b) /\ Go(b, "none")
  /\ UNCHANGED <<disk, manager, cfg, entry, down, refs, owner, doubt, bounds>>

(***************************************************************************)
(* Shutdown: one goroutine for each Bot                                    *)
(***************************************************************************)
Shutdown ==
  /\ Free
  /\ closing' = TRUE
  /\ down' = [b \in Bots |-> IF catalog[b] = "none" THEN "done" ELSE "join"]
  /\ UNCHANGED <<disk, up, catalog, bindings, creating, cfg, state, entry, worker, runtimes,
                 doubt, bounds>>

Proceed(b, point) == down' = [down EXCEPT ![b] = point]

\* A shutdown that does not wait for the call that holds the entry.
JoinsAtOnce(b) ==
  /\ down[b] = "join" /\ Proceed(b, "wait")
  /\ UNCHANGED <<disk, manager, cfg, state, entry, worker, runtimes, doubt, bounds>>

\* A shutdown that keeps the entry while it waits for start or stop.
JoinsAndKeeps(b) ==
  /\ down[b] = "join" /\ entry[b] = "free" /\ Proceed(b, "wait")
  /\ entry' = [entry EXCEPT ![b] = "reader"]
  /\ UNCHANGED <<disk, manager, cfg, state, worker, runtimes, doubt, bounds>>

\* Takes the entry once: a call that was admitted has then registered its worker.
Join(b) ==
  /\ down[b] = "join" /\ entry[b] = "free" /\ Proceed(b, "wait")
  /\ UNCHANGED <<disk, manager, cfg, state, entry, worker, runtimes, doubt, bounds>>

\* transition.Wait
Wait(b) ==
  /\ down[b] = "wait" /\ worker[b] = "none" /\ Proceed(b, "look")
  /\ UNCHANGED <<disk, manager, cfg, state, entry, worker, runtimes, doubt, bounds>>

Look(b) ==
  /\ down[b] = "look" /\ entry[b] = "free"
  /\ \/ ~runtime[b] /\ Proceed(b, "done") /\ UNCHANGED state
     \/ runtime[b] /\ Proceed(b, "drain") /\ state' = [state EXCEPT ![b] = "stopping"]
  /\ UNCHANGED <<disk, manager, cfg, entry, worker, runtimes, doubt, bounds>>

DownDrained(b) ==
  /\ down[b] = "drain" /\ refs[b] = 0 /\ entry[b] = "free" /\ Proceed(b, "close")
  /\ UNCHANGED <<disk, manager, cfg, state, entry, worker, runtimes, doubt, bounds>>

DownClosed(b) ==
  /\ down[b] = "close" /\ Close(b) /\ Proceed(b, "clear")
  /\ UNCHANGED <<disk, manager, cfg, state, entry, worker, runtime, refs, doubt, bounds>>

DownEnded(b) ==
  /\ down[b] = "clear" /\ entry[b] = "free" /\ Dispose(b) /\ Proceed(b, "done")
  /\ UNCHANGED <<disk, manager, cfg, entry, worker, refs, owner, doubt, bounds>>

(***************************************************************************)
(* Requests to a Bot                                                       *)
(***************************************************************************)
\* A handler of a runtime that may be there no longer.
AcquireAny(b) ==
  /\ entry[b] = "free" /\ runtime[b] /\ refs[b] < MaxRefs
  /\ refs' = [refs EXCEPT ![b] = @ + 1]
  /\ UNCHANGED <<disk, manager, cfg, state, entry, worker, down, runtime, owner, doubt, bounds>>

Acquire(b) ==
  /\ entry[b] = "free" /\ state[b] = "running" /\ runtime[b] /\ refs[b] < MaxRefs
  /\ refs' = [refs EXCEPT ![b] = @ + 1]
  /\ UNCHANGED <<disk, manager, cfg, state, entry, worker, down, runtime, owner, doubt, bounds>>

Release(b) ==
  /\ refs[b] > 0
  /\ refs' = [refs EXCEPT ![b] = @ - 1]
  /\ UNCHANGED <<disk, manager, cfg, state, entry, worker, down, runtime, owner, doubt, bounds>>

\* A reader of a Bot at rest that lets go of the entry at once.
ReadUnlocked(b) ==
  /\ entry[b] = "free" /\ state[b] \in Idle /\ owner[b] = "none"
  /\ owner' = [owner EXCEPT ![b] = "reader"]
  /\ UNCHANGED <<disk, manager, cfg, state, entry, worker, down, runtime, refs, doubt, bounds>>

\* A reader of a Bot at rest opens its files itself and keeps the entry.
Read(b) ==
  /\ entry[b] = "free" /\ state[b] \in Idle /\ owner[b] = "none"
  /\ owner' = [owner EXCEPT ![b] = "reader"]
  /\ entry' = [entry EXCEPT ![b] = "reader"]
  /\ UNCHANGED <<disk, manager, cfg, state, worker, down, runtime, refs, doubt, bounds>>

ReadEnds(b) ==
  /\ owner[b] = "reader"
  /\ owner' = [owner EXCEPT ![b] = "none"]
  /\ entry' = [entry EXCEPT ![b] = "free"]
  /\ UNCHANGED <<disk, manager, cfg, state, worker, down, runtime, refs, doubt, bounds>>

(***************************************************************************)
(* Creation: a directory is staged, renamed, and committed in the catalog  *)
(***************************************************************************)
\* BindWorkspace that looks for the workspace in the catalog only.
UnclaimedInCatalog(w) == \A c \in Bots : catalog[c] # "none" => claim[c] # w

\* Neither the catalog nor the marker of a directory names the workspace.
Unclaimed(w) == \A c \in Bots : claim[c] # w

Stage(b, i, w) ==
  /\ Free /\ dir[b] = "absent" /\ catalog[b] = "none"
  /\ \/ w = NoWorkspace /\ ~Shared(b, i)
     \/ w # NoWorkspace /\ i = NoInstance /\ Unclaimed(w)
  /\ creating' = {b}
  /\ dir' = [dir EXCEPT ![b] = "staged"]
  /\ file' = [file EXCEPT ![b] = i]
  /\ claim' = [claim EXCEPT ![b] = w]
  /\ UNCHANGED <<saved, up, closing, catalog, bindings, cfg, state, entry, worker, down,
                 runtimes, doubt, bounds>>

Publish(b) ==
  /\ b \in creating /\ dir[b] = "staged"
  /\ dir' = [dir EXCEPT ![b] = "published"]
  /\ UNCHANGED <<claim, file, saved, manager, cfg, state, entry, worker, down, runtimes, doubt,
                 bounds>>

Commit(b) ==
  /\ b \in creating /\ dir[b] = "published"
  /\ Save(b, "stopped")
  /\ creating' = {}
  /\ state' = [state EXCEPT ![b] = "stopped"]
  /\ cfg' = [cfg EXCEPT ![b] = file[b]]
  /\ bindings' = [bindings EXCEPT ![b] = file[b]]
  /\ UNCHANGED <<dir, claim, file, up, closing, entry, worker, down, runtimes, calls, halts>>

\* A failed creation that removes the directory it has published.
GiveUpAll(b) ==
  /\ b \in creating /\ creating' = {} /\ SaveFails(b, "stopped")
  /\ dir' = [dir EXCEPT ![b] = "absent"]
  /\ claim' = [claim EXCEPT ![b] = NoWorkspace]
  /\ file' = [file EXCEPT ![b] = NoInstance]
  /\ UNCHANGED <<up, closing, bindings, cfg, state, entry, worker, down, runtimes, calls, halts>>

\* A failed creation removes what is staged, and leaves what is published.
GiveUp(b) ==
  /\ b \in creating /\ creating' = {}
  /\ \/ /\ dir[b] = "published" /\ SaveFails(b, "stopped")
        /\ UNCHANGED <<dir, claim, file>>
     \/ /\ dir[b] = "staged" /\ faults < MaxFaults /\ faults' = faults + 1
        /\ dir' = [dir EXCEPT ![b] = "absent"]
        /\ claim' = [claim EXCEPT ![b] = NoWorkspace]
        /\ file' = [file EXCEPT ![b] = NoInstance]
        /\ UNCHANGED <<saved, catalog, doubt>>
  /\ UNCHANGED <<up, closing, bindings, cfg, state, entry, worker, down, runtimes, calls, halts>>

-----------------------------------------------------------------------------
Goroutines(b) ==
  \/ StartRegister(b) \/ StopRegister(b)
  \/ LoadEntry(b) \/ CheckBinding(b) \/ Build(b) \/ Abandon(b) \/ Started(b)
  \/ StopDrained(b) \/ StopClosed(b) \/ StopEnded(b)
  \/ Join(b) \/ Wait(b) \/ Look(b) \/ DownDrained(b) \/ DownClosed(b) \/ DownEnded(b)

Creation(b) == Publish(b) \/ Commit(b) \/ GiveUp(b)

Calls(b) ==
  \/ StartCall(b) \/ StopCall(b) \/ Acquire(b) \/ Read(b)
  \/ \E intent \in {"stopped", "archived"} : Settle(b, intent)
  \/ \E intent \in {"running", "stopped", "archived"} : CallFails(b, intent)
  \/ \E i \in Instances \cup {NoInstance} :
       \/ Update(b, i) \/ UpdateFails(b, i)
       \/ \E w \in Workspaces \cup {NoWorkspace} : Stage(b, i, w)

Next ==
  \/ Boot \/ Halt \/ Shutdown
  \/ \E b \in Bots : Goroutines(b) \/ Creation(b) \/ Calls(b) \/ Release(b) \/ ReadEnds(b)

Spec == Init /\ [][Next]_vars

\* Goroutines run and handlers return.  A lock that is freed again and again is
\* got in the end: a sync.Mutex is handed to who has waited long.
FairSpec ==
  /\ Spec
  /\ \A b \in Bots : /\ SF_vars(Goroutines(b)) /\ WF_vars(Creation(b))
                     /\ WF_vars(Release(b)) /\ WF_vars(ReadEnds(b))

(***************************************************************************)
(* Properties                                                              *)
(***************************************************************************)
\* The manager, its files and its goroutines keep their types (manager.go).
TypeOK ==
  /\ dir \in [Bots -> {"absent", "staged", "published"}]
  /\ claim \in [Bots -> Workspaces \cup {NoWorkspace}]
  /\ file \in [Bots -> Instances \cup {NoInstance}] /\ saved \in [Bots -> Intent]
  /\ up \in BOOLEAN /\ closing \in BOOLEAN /\ doubt \in BOOLEAN
  /\ catalog \in [Bots -> Intent] /\ creating \in SUBSET Bots
  /\ bindings \in [Bots -> Instances \cup {NoInstance}]
  /\ cfg \in [Bots -> Instances \cup {NoInstance}]
  /\ state \in [Bots -> State] /\ runtime \in [Bots -> BOOLEAN]
  /\ entry \in [Bots -> {"free", "start", "stop", "reader"}]
  /\ worker \in [Bots -> {"none", "load", "check", "build", "run", "fail",
                          "drain", "close", "clear"}]
  /\ down \in [Bots -> {"none", "join", "wait", "look", "drain", "close", "clear", "done"}]
  /\ refs \in [Bots -> 0..MaxRefs] /\ owner \in [Bots -> {"none", "runtime", "reader"}]
  /\ calls \in 0..MaxCalls /\ halts \in 0..MaxHalts /\ faults \in 0..MaxFaults

\* A handler that Acquire gave out belongs to a runtime that is open until the
\* handler is released, whether the Bot is stopped or the daemon shut down.
RefsAlive == \A b \in Bots : refs[b] > 0 => runtime[b] /\ owner[b] = "runtime"

\* Nobody who may take runtime.lock finds it held: the journal of a Bot has one
\* owner, and a start never fails because a reader or an older runtime still has it.
LockIsFree ==
  \A b \in Bots :
    worker[b] = "build" \/ (entry[b] = "free" /\ state[b] \in Idle) => owner[b] = "none"

\* Whoever works on the data of a Bot, a handler, a reader or a runtime that
\* starts, has it to itself for as long as it does (Acquire, offline, start).
OwnersApart == RefsAlive /\ LockIsFree

\* Two Bots never run with one Harness instance (bot.binding_shared), though each
\* start reads its configuration again, outside the lock of the catalog.
BindingExclusive ==
  \A b, c \in Bots :
    b # c /\ owner[b] = "runtime" /\ owner[c] = "runtime" =>
      cfg[b] # cfg[c] \/ cfg[b] = NoInstance

\* A Bot runs only on an intent to run that is on disk, and comes back after a
\* crash as the last call that succeeded wanted it (docs/multi-bot-daemon.md 230).
RunsAsIntended ==
  /\ up /\ ~doubt => saved = catalog
  /\ \A b \in Bots : entry[b] = "free" =>
       /\ state[b] \in {"starting", "running"} => catalog[b] = "running"
       /\ state[b] = "stopping" => closing \/ catalog[b] = "stopped"
       /\ catalog[b] = "archived" => state[b] \in {"archived", "failed"}

\* When Shutdown has returned nothing of a Bot is left that could still run, so
\* App.Run may release the lock of the daemon.
ShutdownIsQuiet ==
  closing /\ (\A b \in Bots : down[b] = "done") =>
    \A b \in Bots : /\ ~runtime[b] /\ worker[b] = "none" /\ owner[b] # "runtime"
                    /\ state[b] \notin {"starting", "running", "stopping"}

\* A workspace never gets a second identity, though its creation may be cut off
\* between the directory and the catalog.
OneIdentity ==
  \A b, c \in Bots : claim[b] = claim[c] /\ claim[b] # NoWorkspace => b = c

\* What the catalog names has its directory, so it never comes back empty.
CataloguedHasData == \A b \in Bots : saved[b] # "none" => dir[b] = "published"

\* Catalog, directories and configurations agree on which Bots there are and
\* what belongs to each of them, whatever write was cut off.
CatalogSound == BindingExclusive /\ OneIdentity /\ CataloguedHasData

\* A shutdown ends if handlers return: it waits for no one who waits for it.
ShutdownEnds == closing ~> (~up \/ \A b \in Bots : down[b] = "done")
=============================================================================

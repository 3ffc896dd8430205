-------------------------- MODULE BotManagerProofs --------------------------
(***************************************************************************)
(* Proofs of the safety properties of BotManager, for any number of Bots,  *)
(* instances and workspaces and any bounds.                                *)
(*                                                                         *)
(* BotInv(b) says what the program points of the goroutines of one Bot     *)
(* mean for its state, its lock and its intent; almost every step concerns *)
(* one Bot and leaves the others as they are (Local).  Apart says that the *)
(* Bots that may run have bindings apart from each other.                  *)
(*                                                                         *)
(* The last sections prove the properties of the Dashboard, the client of  *)
(* the same daemon.                                                        *)
(***************************************************************************)
EXTENDS BotManager, Dashboard, TLAPS

Starting == {"load", "check", "build", "run", "fail"}
Stopping == {"drain", "close", "clear"}

\* What a program point of start, stop or Shutdown says of the state.
PointsOK(b) ==
  /\ worker[b] \in Starting => state[b] = "starting" /\ entry[b] = "free"
  /\ worker[b] \in Stopping => state[b] = "stopping"
  /\ worker[b] # "none" => down[b] \in {"none", "join", "wait"}
  /\ down[b] \in Stopping => state[b] = "stopping"
  /\ down[b] = "done" => ~runtime[b]
  /\ state[b] = "starting" => worker[b] \in Starting
  /\ state[b] = "stopping" => worker[b] \in Stopping \/ down[b] \in Stopping
  /\ runtime[b] <=> state[b] \in {"running", "stopping"}

\* What the holder of the entry has found and done.
EntryOK(b) ==
  /\ entry[b] = "start" => /\ state[b] \in {"stopped", "failed"}
                           /\ catalog[b] = "running" /\ down[b] \in {"none", "join"}
  /\ entry[b] = "stop" => /\ catalog[b] \in {"stopped", "archived"}
                          /\ state[b] # "starting" /\ down[b] \in {"none", "join"}
  /\ entry[b] = "reader" <=> owner[b] = "reader"
  /\ entry[b] = "reader" => state[b] \in Idle

\* Who holds the lock of the Bot, and what its handlers rely on.
LockOK(b) ==
  /\ owner[b] = "runtime" <=>
       worker[b] = "run" \/ (runtime[b] /\ worker[b] # "clear" /\ down[b] # "clear")
  /\ refs[b] > 0 => /\ runtime[b] /\ worker[b] \notin {"close", "clear"}
                    /\ down[b] \notin {"close", "clear"}

IntentOK(b) ==
  /\ catalog[b] = "none" <=> state[b] = "absent"
  /\ state[b] \in {"starting", "running"} => catalog[b] = "running" \/ entry[b] = "stop"
  /\ state[b] = "stopping" => closing \/ catalog[b] = "stopped"
  /\ catalog[b] = "archived" => state[b] \in {"archived", "failed"}
  /\ catalog[b] # "none" \/ saved[b] # "none" => dir[b] = "published"
  /\ b \in creating => catalog[b] = "none"

DaemonOK(b) ==
  /\ down[b] # "none" <=> closing
  /\ closing => b \notin creating
  /\ ~up => /\ state[b] = "absent" /\ entry[b] = "free" /\ refs[b] = 0
            /\ ~closing /\ b \notin creating

Active(b) == worker[b] = "build" \/ owner[b] = "runtime"
BindingOK(b) == Active(b) => bindings[b] = cfg[b]

BotInv(b) == PointsOK(b) /\ EntryOK(b) /\ LockOK(b) /\ IntentOK(b) /\ DaemonOK(b) /\ BindingOK(b)

Apart ==
  \A b, c \in Bots : b # c /\ Active(b) /\ Active(c)
    => bindings[b] # bindings[c] \/ bindings[b] = NoInstance

SavedOK == up /\ ~doubt => saved = catalog

IInv == TypeOK /\ (\A b \in Bots : BotInv(b)) /\ Apart /\ OneIdentity /\ SavedOK

LEMMA BoundsAreNat == MaxCalls \in Nat /\ MaxRefs \in Nat /\ MaxHalts \in Nat /\ MaxFaults \in Nat
  BY ManagerAssumption DEF ManagerAssumption

LEMMA TypeLocal ==
  ASSUME TypeOK, NEW b \in Bots,
         Goroutines(b) \/ Acquire(b) \/ Read(b) \/ Release(b) \/ ReadEnds(b)
  PROVE  TypeOK'
<1>1. CASE StartRegister(b)
  BY <1>1 DEF TypeOK, StartRegister, disk, manager, runtimes, bounds, State, Intent
<1>2. CASE StopRegister(b)
  BY <1>2 DEF TypeOK, StopRegister, Stopped, disk, manager, runtimes, bounds, State, Intent
<1>3. CASE LoadEntry(b)
  BY <1>3, BoundsAreNat DEF TypeOK, LoadEntry, Go, disk, manager, runtimes, bounds, State,
    Intent
<1>4. CASE CheckBinding(b)
  BY <1>4 DEF TypeOK, CheckBinding, Go, disk, manager, runtimes, bounds, State, Intent
<1>5. CASE Build(b)  BY <1>5 DEF TypeOK, Build, Go, disk, manager, runtimes, bounds, State, Intent
<1>6. CASE Abandon(b)
  BY <1>6 DEF TypeOK, Abandon, Go, disk, manager, runtimes, bounds, State, Intent
<1>7. CASE Started(b)
  BY ZenonT(30), <1>7 DEF TypeOK, Started, Go, disk, manager, runtimes, bounds, State, Intent
<1>8. CASE StopDrained(b)
  BY <1>8 DEF TypeOK, StopDrained, Go, disk, manager, runtimes, bounds, State, Intent
<1>9. CASE StopClosed(b)
  BY <1>9 DEF TypeOK, StopClosed, Go, Close, disk, manager, runtimes, bounds, State, Intent
<1>10. CASE StopEnded(b)
  BY <1>10 DEF TypeOK, StopEnded, Go, Dispose, disk, manager, runtimes, bounds, State, Intent
<1>11. CASE Join(b)
  BY <1>11 DEF TypeOK, Join, Proceed, disk, manager, runtimes, bounds, State, Intent
<1>12. CASE Wait(b)
  BY <1>12 DEF TypeOK, Wait, Proceed, disk, manager, runtimes, bounds, State, Intent
<1>13. CASE Look(b)
  BY <1>13 DEF TypeOK, Look, Proceed, disk, manager, runtimes, bounds, State, Intent
<1>14. CASE DownDrained(b)
  BY <1>14 DEF TypeOK, DownDrained, Proceed, disk, manager, runtimes, bounds, State, Intent
<1>15. CASE DownClosed(b)
  BY <1>15 DEF TypeOK, DownClosed, Proceed, Close, disk, manager, runtimes, bounds, State,
    Intent
<1>16. CASE DownEnded(b)
  BY <1>16 DEF TypeOK, DownEnded, Proceed, Dispose, disk, manager, runtimes, bounds, State,
    Intent
<1>17. CASE Acquire(b)
  BY <1>17, BoundsAreNat DEF TypeOK, Acquire, disk, manager, runtimes, bounds, State, Intent
<1>18. CASE Read(b)  BY <1>18 DEF TypeOK, Read, disk, manager, runtimes, bounds, State, Intent
<1>19. CASE Release(b)
  BY <1>19, BoundsAreNat DEF TypeOK, Release, disk, manager, runtimes, bounds, State, Intent
<1>20. CASE ReadEnds(b)
  BY <1>20 DEF TypeOK, ReadEnds, disk, manager, runtimes, bounds, State, Intent
<1> QED
  BY <1>1, <1>2, <1>3, <1>4, <1>5, <1>6, <1>7, <1>8, <1>9, <1>10, <1>11, <1>12, <1>13, <1>14,
    <1>15, <1>16, <1>17, <1>18, <1>19, <1>20 DEF Goroutines

LEMMA CatalogTypes ==
  ASSUME TypeOK, NEW b \in Bots, NEW intent \in Intent, Save(b, intent) \/ SaveFails(b, intent)
  PROVE  /\ saved' \in [Bots -> Intent] /\ catalog' \in [Bots -> Intent]
         /\ doubt' \in BOOLEAN /\ faults' \in 0..MaxFaults
<1>1. With(b, intent) \in [Bots -> Intent]  BY DEF TypeOK, With
<1>2. CASE Save(b, intent)  BY <1>1, <1>2 DEF TypeOK, Save
<1>3. CASE SaveFails(b, intent)  BY <1>1, <1>3, BoundsAreNat DEF TypeOK, SaveFails
<1> QED  BY <1>2, <1>3

LEMMA CalledTypes ==
  ASSUME TypeOK, Called
  PROVE  calls' \in 0..MaxCalls
  BY BoundsAreNat DEF TypeOK, Called

LEMMA TypeCalls ==
  ASSUME TypeOK, NEW b \in Bots, NEW intent \in {"running", "stopped", "archived"},
         NEW i \in Instances \cup {NoInstance}, NEW w \in Workspaces \cup {NoWorkspace},
         \/ StartCall(b) \/ StopCall(b) \/ Settle(b, intent) \/ CallFails(b, intent)
         \/ Update(b, i) \/ UpdateFails(b, i) \/ Stage(b, i, w) \/ Creation(b)
  PROVE  TypeOK'
<1>0. intent \in Intent /\ "running" \in Intent /\ "stopped" \in Intent /\ Stopped(b) \in Intent
  BY DEF Intent, Stopped
<1>1. CASE StartCall(b)
  BY <1>1, <1>0, CatalogTypes, CalledTypes DEF TypeOK, StartCall, disk, manager, runtimes,
    bounds, State
<1>2. CASE StopCall(b)
  BY <1>2, <1>0, CatalogTypes, CalledTypes DEF TypeOK, StopCall, disk, manager, runtimes,
    bounds, State
<1>3. CASE Settle(b, intent)
  BY <1>3, <1>0, CatalogTypes, CalledTypes DEF TypeOK, Settle, disk, manager, runtimes, bounds,
    State
<1>4. CASE CallFails(b, intent)
  BY <1>4, <1>0, CatalogTypes, CalledTypes DEF TypeOK, CallFails, disk, manager, runtimes,
    bounds, State
<1>5. CASE Update(b, i)
  BY <1>5, CalledTypes DEF TypeOK, Update, disk, manager, runtimes, bounds, State
<1>6. CASE UpdateFails(b, i)
  BY <1>6, CalledTypes, BoundsAreNat DEF TypeOK, UpdateFails, disk, manager, runtimes, bounds, State
<1>7. CASE Stage(b, i, w)
  BY <1>7, BoundsAreNat DEF TypeOK, Stage, disk, manager, runtimes, bounds, State
<1>8. CASE Publish(b)
  BY <1>8, BoundsAreNat DEF TypeOK, Publish, disk, manager, runtimes, bounds, State
<1>9. CASE Commit(b)
  BY <1>9, <1>0, CatalogTypes DEF TypeOK, Commit, disk, manager, runtimes, bounds, State
<1>10. CASE GiveUp(b)
  <2>1. CASE dir[b] = "published" /\ SaveFails(b, "stopped") /\ UNCHANGED <<dir, claim, file>>
    BY <1>0, <1>10, <2>1, CatalogTypes DEF TypeOK, GiveUp, runtimes
  <2>2. CASE faults < MaxFaults /\ faults' = faults + 1 /\ UNCHANGED <<saved, catalog, doubt>>
    BY <1>10, <2>2, BoundsAreNat DEF TypeOK, GiveUp, runtimes
  <2> QED  BY <1>10, <2>1, <2>2 DEF GiveUp
<1> QED  BY <1>1, <1>2, <1>3, <1>4, <1>5, <1>6, <1>7, <1>8, <1>9, <1>10 DEF Creation

LEMMA TypeDaemon ==
  ASSUME TypeOK, Boot \/ Halt \/ Shutdown
  PROVE  TypeOK'
<1>1. CASE Boot  BY <1>1, BoundsAreNat DEF TypeOK, Boot, disk, runtimes, State, Intent
<1>2. CASE Halt
  <2>1. halts' \in 0..MaxHalts  BY <1>2, BoundsAreNat DEF TypeOK, Halt
  <2>2. 0 \in 0..MaxRefs  BY BoundsAreNat
  <2> QED  BY <1>2, <2>1, <2>2 DEF TypeOK, Halt, Each, disk, State, Intent
<1>3. CASE Shutdown  BY <1>3 DEF TypeOK, Shutdown, disk, runtimes, bounds, State, Intent
<1> QED  BY <1>1, <1>2, <1>3

\* Every step of the manager that concerns one Bot.
Step(b, intent, i, w) ==
  \/ Goroutines(b) \/ Acquire(b) \/ Read(b) \/ Release(b) \/ ReadEnds(b)
  \/ StartCall(b) \/ StopCall(b) \/ (intent # "running" /\ Settle(b, intent))
  \/ CallFails(b, intent) \/ Update(b, i) \/ UpdateFails(b, i) \/ Stage(b, i, w) \/ Creation(b)

LEMMA NextSplit ==
  ASSUME Next
  PROVE  \/ Boot \/ Halt \/ Shutdown
         \/ \E b \in Bots, intent \in {"running", "stopped", "archived"},
              i \in Instances \cup {NoInstance}, w \in Workspaces \cup {NoWorkspace} :
                Step(b, intent, i, w)
<1>1. ASSUME NEW b \in Bots,
             Goroutines(b) \/ Creation(b) \/ Calls(b) \/ Release(b) \/ ReadEnds(b)
      PROVE  \E intent \in {"running", "stopped", "archived"},
                i \in Instances \cup {NoInstance}, w \in Workspaces \cup {NoWorkspace} :
                  Step(b, intent, i, w)
  BY <1>1 DEF Calls, Step
<1> QED  BY <1>1 DEF Next

\* What a step that concerns b leaves alone: everything of the other Bots,
\* and that the daemon runs and is closing.
Local(b) ==
  /\ up' = up /\ closing' = closing
  /\ \A c \in Bots \ {b} :
       /\ state'[c] = state[c] /\ runtime'[c] = runtime[c] /\ entry'[c] = entry[c]
       /\ worker'[c] = worker[c] /\ down'[c] = down[c] /\ refs'[c] = refs[c]
       /\ owner'[c] = owner[c] /\ catalog'[c] = catalog[c] /\ saved'[c] \in {saved[c], catalog[c]}
       /\ dir'[c] = dir[c] /\ bindings'[c] = bindings[c] /\ cfg'[c] = cfg[c]
       /\ claim'[c] = claim[c] /\ (c \in creating' => c \in creating)

LEMMA LocalInv ==
  ASSUME NEW b \in Bots, Local(b), NEW c \in Bots \ {b}, BotInv(c)
  PROVE  BotInv(c)'
<1>1. PointsOK(c)' /\ EntryOK(c)' /\ LockOK(c)'
  BY DEF Local, BotInv, PointsOK, EntryOK, LockOK
<1>2. IntentOK(c)'  BY DEF Local, BotInv, IntentOK
<1>3. DaemonOK(c)'  BY DEF Local, BotInv, DaemonOK
<1>4. BindingOK(c)'  BY DEF Local, BotInv, BindingOK, Active
<1> QED  BY <1>1, <1>2, <1>3, <1>4 DEF BotInv

LEMMA StepIsLocal ==
  ASSUME TypeOK, NEW b \in Bots, NEW intent, NEW i, NEW w, Step(b, intent, i, w)
  PROVE  Local(b)
<1>1. CASE StartRegister(b)  BY <1>1 DEF TypeOK, Local, StartRegister, disk, manager, runtimes
<1>2. CASE StopRegister(b)  BY <1>2 DEF TypeOK, Local, StopRegister, disk, manager, runtimes
<1>3. CASE LoadEntry(b)  BY <1>3 DEF TypeOK, Local, LoadEntry, Go, disk, manager, runtimes
<1>4. CASE CheckBinding(b)  BY <1>4 DEF TypeOK, Local, CheckBinding, Go, disk, manager, runtimes
<1>5. CASE Build(b)  BY <1>5 DEF TypeOK, Local, Build, Go, disk, manager, runtimes
<1>6. CASE Abandon(b)  BY <1>6 DEF TypeOK, Local, Abandon, Go, disk, manager, runtimes
<1>7. CASE Started(b)  BY <1>7 DEF TypeOK, Local, Started, Go, disk, manager, runtimes
<1>8. CASE StopDrained(b)  BY <1>8 DEF TypeOK, Local, StopDrained, Go, disk, manager, runtimes
<1>9. CASE StopClosed(b)  BY <1>9 DEF TypeOK, Local, StopClosed, Go, Close, disk, manager, runtimes
<1>10. CASE StopEnded(b)
  BY <1>10 DEF TypeOK, Local, StopEnded, Go, Dispose, disk, manager, runtimes
<1>11. CASE Join(b)  BY <1>11 DEF TypeOK, Local, Join, Proceed, disk, manager, runtimes
<1>12. CASE Wait(b)  BY <1>12 DEF TypeOK, Local, Wait, Proceed, disk, manager, runtimes
<1>13. CASE Look(b)  BY <1>13 DEF TypeOK, Local, Look, Proceed, disk, manager, runtimes
<1>14. CASE DownDrained(b)
  BY <1>14 DEF TypeOK, Local, DownDrained, Proceed, disk, manager, runtimes
<1>15. CASE DownClosed(b)
  BY <1>15 DEF TypeOK, Local, DownClosed, Proceed, Close, disk, manager, runtimes
<1>16. CASE DownEnded(b)
  BY <1>16 DEF TypeOK, Local, DownEnded, Proceed, Dispose, disk, manager, runtimes
<1>17. CASE Acquire(b)  BY <1>17 DEF TypeOK, Local, Acquire, disk, manager, runtimes
<1>18. CASE Read(b)  BY <1>18 DEF TypeOK, Local, Read, disk, manager, runtimes
<1>19. CASE Release(b)  BY <1>19 DEF TypeOK, Local, Release, disk, manager, runtimes
<1>20. CASE ReadEnds(b)  BY <1>20 DEF TypeOK, Local, ReadEnds, disk, manager, runtimes
<1>21. CASE Publish(b)  BY <1>21 DEF TypeOK, Local, Publish, disk, manager, runtimes
<1>22. CASE StartCall(b)  BY <1>22 DEF TypeOK, Local, StartCall, Save, With, disk, manager, runtimes
<1>23. CASE StopCall(b)  BY <1>23 DEF TypeOK, Local, StopCall, Save, With, disk, manager, runtimes
<1>24. CASE Settle(b, intent)
  BY <1>24 DEF TypeOK, Local, Settle, Save, With, disk, manager, runtimes
<1>25. CASE CallFails(b, intent)
  BY <1>25 DEF TypeOK, Local, CallFails, SaveFails, With, disk, manager, runtimes
<1>26. CASE Update(b, i)  BY <1>26 DEF TypeOK, Local, Update, disk, manager, runtimes
<1>27. CASE UpdateFails(b, i)  BY <1>27 DEF TypeOK, Local, UpdateFails, disk, manager, runtimes
<1>28. CASE Stage(b, i, w)  BY <1>28 DEF TypeOK, Local, Stage, Free, disk, manager, runtimes
<1>29. CASE Commit(b)  BY <1>29 DEF TypeOK, Local, Commit, Save, With, disk, manager, runtimes
<1>30. CASE GiveUp(b)  BY <1>30 DEF TypeOK, Local, GiveUp, SaveFails, With, disk, manager, runtimes
<1> QED
  BY <1>1, <1>2, <1>3, <1>4, <1>5, <1>6, <1>7, <1>8, <1>9, <1>10, <1>11, <1>12, <1>13, <1>14,
    <1>15, <1>16, <1>17, <1>18, <1>19, <1>20, <1>21, <1>22, <1>23, <1>24, <1>25, <1>26, <1>27,
    <1>28, <1>29, <1>30
  DEF Step, Goroutines, Creation

LEMMA StepKeepsBot ==
  ASSUME TypeOK, NEW b \in Bots, BotInv(b), NEW intent \in {"running", "stopped", "archived"},
         NEW i, NEW w, Step(b, intent, i, w)
  PROVE  BotInv(b)'
<1> USE DEF TypeOK, BotInv, PointsOK, EntryOK, LockOK, IntentOK, DaemonOK, BindingOK, Active,
            Starting, Stopping, Idle
<1>1. CASE StartRegister(b)  BY <1>1 DEF StartRegister, disk, manager, runtimes
<1>2. CASE StopRegister(b)  BY <1>2 DEF StopRegister, Stopped, disk, manager, runtimes
<1>3. CASE LoadEntry(b)  BY <1>3 DEF LoadEntry, Go, disk, manager, runtimes
<1>4. CASE CheckBinding(b)  BY <1>4 DEF CheckBinding, Go, disk, manager, runtimes
<1>5. CASE Build(b)  BY <1>5 DEF Build, Go, disk, manager, runtimes
<1>6. CASE Abandon(b)  BY <1>6 DEF Abandon, Go, disk, manager, runtimes
<1>7. CASE Started(b)  BY <1>7 DEF Started, Go, disk, manager, runtimes
<1>8. CASE StopDrained(b)  BY <1>8 DEF StopDrained, Go, disk, manager, runtimes
<1>9. CASE StopClosed(b)  BY <1>9 DEF StopClosed, Go, Close, disk, manager, runtimes
<1>10. CASE StopEnded(b)  BY <1>10 DEF StopEnded, Go, Dispose, disk, manager, runtimes
<1>11. CASE Join(b)  BY <1>11 DEF Join, Proceed, disk, manager, runtimes
<1>12. CASE Wait(b)  BY <1>12 DEF Wait, Proceed, disk, manager, runtimes
<1>13. CASE Look(b)  BY <1>13 DEF Look, Proceed, disk, manager, runtimes
<1>14. CASE DownDrained(b)  BY <1>14 DEF DownDrained, Proceed, disk, manager, runtimes
<1>15. CASE DownClosed(b)  BY <1>15 DEF DownClosed, Proceed, Close, disk, manager, runtimes
<1>16. CASE DownEnded(b)  BY <1>16 DEF DownEnded, Proceed, Dispose, disk, manager, runtimes
<1>17. CASE Acquire(b)  BY <1>17 DEF Acquire, disk, manager, runtimes
<1>18. CASE Read(b)  BY <1>18 DEF Read, disk, manager, runtimes
<1>19. CASE Release(b)  BY <1>19 DEF Release, disk, manager, runtimes
<1>20. CASE ReadEnds(b)  BY <1>20 DEF ReadEnds, disk, manager, runtimes
<1>21. CASE Publish(b)  BY <1>21 DEF Publish, disk, manager, runtimes
<1>22. CASE StartCall(b)
  BY <1>22 DEF StartCall, Save, With, MayStart, Admitted, Free, disk, manager, runtimes
<1>23. CASE StopCall(b)
  BY <1>23 DEF StopCall, Save, With, MayStop, Admitted, Free, Stopped, disk, manager, runtimes
<1>24. CASE intent # "running" /\ Settle(b, intent)
  BY <1>24 DEF Settle, Save, With, MayArchive, Admitted, Free, disk, manager, runtimes
<1>25. CASE CallFails(b, intent)
  BY <1>25 DEF CallFails, SaveFails, With, MayStart, MayStop, MayArchive, Stopped, disk,
    manager, runtimes
<1>26. CASE Update(b, i)
  BY <1>26 DEF Update, disk, manager, runtimes
<1>27. CASE UpdateFails(b, i)
  BY <1>27 DEF UpdateFails, disk, manager, runtimes
<1>28. CASE Stage(b, i, w)
  BY <1>28 DEF Stage, Free, disk, manager, runtimes
<1>29. CASE Commit(b)  BY <1>29 DEF Commit, Save, With, disk, manager, runtimes
<1>30. CASE GiveUp(b)  BY <1>30 DEF GiveUp, SaveFails, With, disk, manager, runtimes
<1> QED
  BY <1>1, <1>2, <1>3, <1>4, <1>5, <1>6, <1>7, <1>8, <1>9, <1>10, <1>11, <1>12, <1>13, <1>14,
    <1>15, <1>16, <1>17, <1>18, <1>19, <1>20, <1>21, <1>22, <1>23, <1>24, <1>25, <1>26, <1>27,
    <1>28, <1>29, <1>30
  DEF Step, Goroutines, Creation

\* What a step of b does to what concerns two Bots or the whole catalog.
BindsApart(b) ==
  Active(b)' => \/ Active(b) /\ bindings'[b] = bindings[b]
                \/ bindings'[b] = cfg[b] /\ ~Shared(b, cfg[b])
ClaimsApart(b) == claim'[b] = claim[b] \/ claim'[b] = NoWorkspace \/ Unclaimed(claim'[b])
SavesAll == (saved' = saved /\ catalog' = catalog /\ doubt' = doubt) \/ saved' = catalog' \/ doubt'

LEMMA StepBindsApart ==
  ASSUME TypeOK, NEW b \in Bots, BotInv(b), NEW intent \in {"running", "stopped", "archived"},
         NEW i, NEW w, Step(b, intent, i, w)
  PROVE  BindsApart(b)
<1> USE DEF TypeOK, BotInv, PointsOK, LockOK, IntentOK, BindsApart, Active,
            Starting, Stopping, Idle
<1>1. CASE StartRegister(b)  BY <1>1 DEF StartRegister, disk, manager, runtimes
<1>2. CASE StopRegister(b)  BY <1>2 DEF StopRegister, Stopped, disk, manager, runtimes
<1>3. CASE LoadEntry(b)  BY <1>3 DEF LoadEntry, Go, disk, manager, runtimes
<1>4. CASE CheckBinding(b)  BY <1>4 DEF CheckBinding, Go, Shared, disk, manager, runtimes
<1>5. CASE Build(b)  BY <1>5 DEF Build, Go, disk, manager, runtimes
<1>6. CASE Abandon(b)  BY <1>6 DEF Abandon, Go, disk, manager, runtimes
<1>7. CASE Started(b)  BY <1>7 DEF Started, Go, disk, manager, runtimes
<1>8. CASE StopDrained(b)  BY <1>8 DEF StopDrained, Go, disk, manager, runtimes
<1>9. CASE StopClosed(b)  BY <1>9 DEF StopClosed, Go, Close, disk, manager, runtimes
<1>10. CASE StopEnded(b)  BY <1>10 DEF StopEnded, Go, Dispose, disk, manager, runtimes
<1>11. CASE Join(b)  BY <1>11 DEF Join, Proceed, disk, manager, runtimes
<1>12. CASE Wait(b)  BY <1>12 DEF Wait, Proceed, disk, manager, runtimes
<1>13. CASE Look(b)  BY <1>13 DEF Look, Proceed, disk, manager, runtimes
<1>14. CASE DownDrained(b)  BY <1>14 DEF DownDrained, Proceed, disk, manager, runtimes
<1>15. CASE DownClosed(b)  BY <1>15 DEF DownClosed, Proceed, Close, disk, manager, runtimes
<1>16. CASE DownEnded(b)  BY <1>16 DEF DownEnded, Proceed, Dispose, disk, manager, runtimes
<1>17. CASE Acquire(b)  BY <1>17 DEF Acquire, disk, manager, runtimes
<1>18. CASE Read(b)  BY <1>18 DEF Read, disk, manager, runtimes
<1>19. CASE Release(b)  BY <1>19 DEF Release, disk, manager, runtimes
<1>20. CASE ReadEnds(b)  BY <1>20 DEF ReadEnds, disk, manager, runtimes
<1>21. CASE Publish(b)  BY <1>21 DEF Publish, disk, manager, runtimes
<1>22. CASE StartCall(b)
  BY <1>22 DEF StartCall, Save, With, MayStart, Admitted, Free, disk, manager, runtimes
<1>23. CASE StopCall(b)
  BY <1>23 DEF StopCall, Save, With, MayStop, Admitted, Free, Stopped, disk, manager, runtimes
<1>24. CASE intent # "running" /\ Settle(b, intent)
  BY <1>24 DEF Settle, Save, With, MayArchive, Admitted, Free, disk, manager, runtimes
<1>25. CASE CallFails(b, intent)
  BY <1>25 DEF CallFails, SaveFails, With, MayStart, MayStop, MayArchive, Stopped, disk,
    manager, runtimes
<1>26. CASE Update(b, i)
  BY <1>26 DEF Update, disk, manager, runtimes
<1>27. CASE UpdateFails(b, i)
  BY <1>27 DEF UpdateFails, disk, manager, runtimes
<1>28. CASE Stage(b, i, w)
  BY <1>28 DEF Stage, Free, disk, manager, runtimes
<1>29. CASE Commit(b)  BY <1>29 DEF Commit, Save, With, disk, manager, runtimes
<1>30. CASE GiveUp(b)  BY <1>30 DEF GiveUp, SaveFails, With, disk, manager, runtimes
<1> QED
  BY <1>1, <1>2, <1>3, <1>4, <1>5, <1>6, <1>7, <1>8, <1>9, <1>10, <1>11, <1>12, <1>13, <1>14,
    <1>15, <1>16, <1>17, <1>18, <1>19, <1>20, <1>21, <1>22, <1>23, <1>24, <1>25, <1>26, <1>27,
    <1>28, <1>29, <1>30
  DEF Step, Goroutines, Creation

LEMMA StepSavesAll ==
  ASSUME TypeOK, NEW b \in Bots, NEW intent, NEW i, NEW w, Step(b, intent, i, w)
  PROVE  ClaimsApart(b) /\ SavesAll
<1> USE DEF ClaimsApart, SavesAll, disk, manager
<1>1. CASE Goroutines(b)
  BY <1>1 DEF Goroutines, StartRegister, StopRegister, LoadEntry, CheckBinding, Build, Abandon,
    Started, StopDrained, StopClosed, StopEnded, Join, Wait, Look, DownDrained, DownClosed, DownEnded
<1>2. CASE Acquire(b) \/ Read(b) \/ Release(b) \/ ReadEnds(b) \/ Publish(b)
  BY <1>2 DEF Acquire, Read, Release, ReadEnds, Publish
<1>3. CASE StartCall(b) \/ StopCall(b) \/ Settle(b, intent)
  BY <1>3 DEF StartCall, StopCall, Settle, Save
<1>4. CASE CallFails(b, intent)  BY <1>4 DEF CallFails, SaveFails
<1>5. CASE Update(b, i) \/ UpdateFails(b, i)  BY <1>5 DEF Update, UpdateFails
<1>6. CASE Stage(b, i, w)  BY <1>6 DEF TypeOK, Stage
<1>7. CASE Commit(b)  BY <1>7 DEF Commit, Save
<1>8. CASE GiveUp(b)  BY <1>8 DEF TypeOK, GiveUp, SaveFails
<1> QED  BY <1>1, <1>2, <1>3, <1>4, <1>5, <1>6, <1>7, <1>8 DEF Step, Creation

LEMMA ApartStep ==
  ASSUME Apart, NEW b \in Bots, Local(b), BindsApart(b), \A c \in Bots : BotInv(c)
  PROVE  Apart'
<1>1. ASSUME NEW c \in Bots \ {b}, Active(b)', Active(c)'
      PROVE  bindings'[b] # bindings'[c] \/ bindings'[b] = NoInstance
  <2>1. Active(c) /\ bindings'[c] = bindings[c]  BY <1>1 DEF Local, Active
  <2>2. catalog[c] # "archived"
    BY <2>1 DEF Active, BotInv, PointsOK, LockOK, IntentOK, Starting
  <2>3. CASE Active(b) /\ bindings'[b] = bindings[b]  BY <2>1, <2>3 DEF Apart
  <2>4. CASE bindings'[b] = cfg[b] /\ ~Shared(b, cfg[b])  BY <2>1, <2>2, <2>4 DEF Shared
  <2> QED  BY <1>1, <2>3, <2>4 DEF BindsApart
<1>2. ASSUME NEW c \in Bots \ {b}, NEW d \in Bots \ {b}, c # d, Active(c)', Active(d)'
      PROVE  bindings'[c] # bindings'[d] \/ bindings'[c] = NoInstance
  BY <1>2 DEF Local, Active, Apart
<1> QED  BY <1>1, <1>2 DEF Apart

LEMMA IdentityStep ==
  ASSUME OneIdentity, NEW b \in Bots, Local(b), ClaimsApart(b)
  PROVE  OneIdentity'
  BY DEF OneIdentity, Local, ClaimsApart, Unclaimed

LEMMA SavedStep ==
  ASSUME SavedOK, NEW b \in Bots, Local(b), SavesAll
  PROVE  SavedOK'
  BY DEF SavedOK, Local, SavesAll

LEMMA InitInv ==
  ASSUME Init
  PROVE  IInv
<1>0. 0 \in 0..MaxRefs /\ 0 \in 0..MaxCalls /\ 0 \in 0..MaxHalts /\ 0 \in 0..MaxFaults
  BY BoundsAreNat
<1>1. TypeOK  BY <1>0 DEF Init, Each, TypeOK, Intent, State
<1>2. ASSUME NEW b \in Bots  PROVE BotInv(b)
  BY DEF Init, Each, BotInv, PointsOK, EntryOK, LockOK, IntentOK, DaemonOK, BindingOK, Active,
         Starting, Stopping, Idle
<1>3. Apart  BY DEF Init, Each, Apart, Active
<1>4. OneIdentity /\ SavedOK  BY DEF Init, Each, OneIdentity, SavedOK
<1> QED  BY <1>1, <1>2, <1>3, <1>4 DEF IInv

\* The steps of the whole daemon: no Bot is active after them that was not before.
LEMMA DaemonStep ==
  ASSUME IInv, Boot \/ Halt \/ Shutdown
  PROVE  IInv'
<1>1. TypeOK'  BY TypeDaemon DEF IInv
<1>2. ASSUME NEW b \in Bots, BotInv(b)  PROVE BotInv(b)'
  <2> USE DEF BotInv, PointsOK, EntryOK, LockOK, IntentOK, DaemonOK, BindingOK, Active,
              Starting, Stopping, Idle
  <2>1. CASE Boot  BY <1>2, <2>1 DEF IInv, TypeOK, Intent, Boot, disk, runtimes
  <2>2. CASE Halt  BY <1>2, <2>2 DEF IInv, TypeOK, Halt, Each, disk
  <2>3. CASE Shutdown  BY <1>2, <2>3 DEF IInv, TypeOK, Shutdown, Free, disk, runtimes
  <2> QED  BY <2>1, <2>2, <2>3
<1>3. ASSUME NEW b \in Bots, BotInv(b), Active(b)'
      PROVE  Active(b) /\ bindings' = bindings
  <2> USE DEF Active, BotInv, PointsOK, LockOK, DaemonOK, Starting
  <2>1. CASE Boot  BY <1>3, <2>1 DEF IInv, TypeOK, Boot, runtimes
  <2>2. CASE Halt  BY <1>3, <2>2 DEF Halt, Each
  <2>3. CASE Shutdown  BY <1>3, <2>3 DEF Shutdown, runtimes
  <2> QED  BY <2>1, <2>2, <2>3
<1>4. Apart'  BY <1>3 DEF IInv, Apart
<1>5. OneIdentity'  BY DEF IInv, OneIdentity, Boot, Halt, Shutdown, disk
<1>6. SavedOK'
  <2>1. CASE Boot
    <3>1. saved' = saved /\ catalog' = saved  BY <2>1 DEF Boot, disk
    <3> QED  BY <3>1 DEF SavedOK
  <2>2. CASE Halt  BY <2>2 DEF SavedOK, Halt
  <2>3. CASE Shutdown  BY <2>3 DEF IInv, SavedOK, Shutdown, disk
  <2> QED  BY <2>1, <2>2, <2>3
<1> QED  BY <1>1, <1>2, <1>4, <1>5, <1>6 DEF IInv

LEMMA StutterInv ==
  ASSUME IInv, UNCHANGED vars
  PROVE  IInv'
<1> USE DEF vars, disk, manager, runtimes, bounds
<1>1. TypeOK' /\ OneIdentity' /\ SavedOK'  BY DEF IInv, TypeOK, OneIdentity, SavedOK
<1>2. ASSUME NEW b \in Bots  PROVE BotInv(b)'
  BY DEF IInv, BotInv, PointsOK, EntryOK, LockOK, IntentOK, DaemonOK, BindingOK, Active
<1>3. Apart'  BY DEF IInv, Apart, Active
<1> QED  BY <1>1, <1>2, <1>3 DEF IInv

LEMMA BotStep ==
  ASSUME IInv, NEW b \in Bots, NEW intent \in {"running", "stopped", "archived"},
         NEW i \in Instances \cup {NoInstance}, NEW w \in Workspaces \cup {NoWorkspace},
         Step(b, intent, i, w)
  PROVE  IInv'
<1>1. TypeOK /\ (\A c \in Bots : BotInv(c)) /\ Apart /\ OneIdentity /\ SavedOK  BY DEF IInv
<1>2. intent \in Intent /\ "stopped" \in Intent  BY DEF Intent
<1>3. TypeOK'  BY <1>1, TypeLocal, TypeCalls DEF Step
<1>4. Local(b)  BY <1>1, StepIsLocal
<1>5. BotInv(b)'  BY <1>1, StepKeepsBot
<1>6. \A c \in Bots : BotInv(c)'  BY <1>1, <1>4, <1>5, LocalInv
<1>7. BindsApart(b)  BY <1>1, StepBindsApart
<1>8. ClaimsApart(b) /\ SavesAll  BY <1>1, StepSavesAll
<1>9. Apart'  BY <1>1, <1>4, <1>7, ApartStep
<1>10. OneIdentity' /\ SavedOK'  BY <1>1, <1>4, <1>8, IdentityStep, SavedStep
<1> QED  BY <1>3, <1>6, <1>9, <1>10 DEF IInv

\* The invariant on which all the theorems rest.
THEOREM Invariance == Spec => []IInv
<1>1. IInv /\ [Next]_vars => IInv'
  <2> SUFFICES ASSUME IInv, [Next]_vars  PROVE IInv'
    OBVIOUS
  <2>1. CASE UNCHANGED vars  BY <2>1, StutterInv
  <2>2. CASE Boot \/ Halt \/ Shutdown  BY <2>2, DaemonStep
  <2>3. CASE \E b \in Bots, intent \in {"running", "stopped", "archived"},
               i \in Instances \cup {NoInstance}, w \in Workspaces \cup {NoWorkspace} :
                 Step(b, intent, i, w)
    BY <2>3, BotStep
  <2> QED  BY <2>1, <2>2, <2>3, NextSplit
<1> QED  BY InitInv, <1>1, PTL DEF Spec

-----------------------------------------------------------------------------
\* The manager, its files and its goroutines keep their types.
THEOREM Typing == Spec => []TypeOK
<1>1. IInv => TypeOK  BY DEF IInv
<1> QED  BY <1>1, Invariance, PTL

\* A handler that Acquire gave out belongs to an open runtime until it is
\* released: stop and Shutdown close a runtime only when refs.Wait has returned,
\* and no handler is given out once the state says stopping.
THEOREM Handlers == Spec => []RefsAlive
<1>1. IInv => RefsAlive
  BY DEF IInv, BotInv, LockOK, RefsAlive
<1> QED  BY <1>1, Invariance, PTL

\* runtime.lock is free whenever NewRuntime or a reader of a stopped Bot takes it.
THEOREM FreeLock == Spec => []LockIsFree
<1>1. IInv => LockIsFree
  BY DEF IInv, TypeOK, BotInv, PointsOK, EntryOK, LockOK, LockIsFree, Starting, Stopping, Idle
<1> QED  BY <1>1, Invariance, PTL

\* Two Bots never run with one Harness instance: what checkBindingLocked found
\* holds until the runtime is closed, as only Bots at rest change their binding
\* and no running Bot is archived.
THEOREM Bindings == Spec => []BindingExclusive
<1>1. IInv => BindingExclusive
  BY DEF IInv, BotInv, BindingOK, Apart, Active, BindingExclusive
<1> QED  BY <1>1, Invariance, PTL

\* A Bot runs only on an intent to run that was saved.
THEOREM Intended == Spec => []RunsAsIntended
<1>1. IInv => RunsAsIntended
  BY DEF IInv, SavedOK, BotInv, PointsOK, IntentOK, RunsAsIntended
<1> QED  BY <1>1, Invariance, PTL

\* When Shutdown is done nothing of a Bot runs: it waits for the call that has
\* the entry before it waits for the goroutines.
THEOREM Quiet == Spec => []ShutdownIsQuiet
<1>1. IInv => ShutdownIsQuiet
  BY DEF IInv, BotInv, PointsOK, LockOK, ShutdownIsQuiet, Starting, Stopping
<1> QED  BY <1>1, Invariance, PTL

\* A workspace has one identity, over failures and crashes of creations.
THEOREM Identities == Spec => []OneIdentity
<1>1. IInv => OneIdentity  BY DEF IInv
<1> QED  BY <1>1, Invariance, PTL

\* Every Bot that bots.json names has its published directory.
THEOREM Catalogued == Spec => []CataloguedHasData
<1>1. IInv => CataloguedHasData  BY DEF IInv, BotInv, IntentOK, CataloguedHasData
<1> QED  BY <1>1, Invariance, PTL

\* Handlers, readers and starting runtimes have a Bot's data to themselves.
THEOREM Owners == Spec => []OwnersApart
<1>1. RefsAlive /\ LockIsFree => OwnersApart
  BY DEF OwnersApart
<1> QED BY <1>1, Handlers, FreeLock, PTL

\* Catalog, directories and configurations agree on the Bots and what is theirs.
THEOREM SoundCatalogs == Spec => []CatalogSound
<1>1. BindingExclusive /\ OneIdentity /\ CataloguedHasData => CatalogSound
  BY DEF CatalogSound
<1> QED BY <1>1, Bindings, Identities, Catalogued, PTL

(***************************************************************************)
(* The dashboard, the client of this daemon in which the operator sees and  *)
(* edits the configurations of the same Bots (the Names of Dashboard).      *)
(*                                                                          *)
(* DashInv says that every answer in flight is a configuration the daemon   *)
(* has had (Snapshot), of the Bot it was asked for, and that a result of    *)
(* this scope is the selected Bot's.  That the revisions of a Bot grow and  *)
(* tell its values apart is what makes an accepted save harmless.           *)
(***************************************************************************)

\* A configuration of b as it was at some time: that with the daemon's revision
\* has the daemon's values.
Snapshots == [bot : Names, rev : Nat, vals : [Fields -> Value]]
Snapshot(s, b) ==
  s # Nothing =>
    /\ s \in Snapshots /\ s.bot = b
    /\ \A f \in Fields : s.vals[f][1] = b
    /\ s.rev <= config[b].rev
    /\ s.rev = config[b].rev => s.vals = config[b].vals

Typed(b) == <<b, "typed">>
Edits == UNION {[F -> Value] : F \in SUBSET Fields}

\* The commands in flight; a save that timed out is late.
Stages == {"sent", "read", "stored", "refused", "late"}
RefreshCommands == [kind : {"refresh"}, bot : Selections, scope : Nat, at : Stages,
                    got : Snapshots \cup {Nothing}]
SaveCommands == [kind : {"save"}, bot : Selections, scope : Nat, at : Stages,
                 base : Snapshots \cup {Nothing}, edits : Edits]
ListCommands == [kind : {"list"}, at : Stages, got : SUBSET Names]
Commands == RefreshCommands \cup SaveCommands \cup ListCommands

ConfigOK ==
  /\ config \in [Names -> Snapshots] /\ listed \subseteq Names
  /\ \A b \in Names : config[b].bot = b /\ \A f \in Fields : config[b].vals[f][1] = b

SelectionOK ==
  /\ botID \in Selections /\ selecting \in BOOLEAN /\ bots \subseteq Names /\ scope \in Nat
  /\ botID = Nobody => selecting

\* What is shown, and what the operator has changed of it.
FormOK ==
  /\ form \in [shown : SUBSET Fields, val : [Fields -> Value], changed : SUBSET Fields,
               editing : Fields \cup {Nothing}, dirty : BOOLEAN]
  /\ \A f \in Fields : form.val[f][1] \in {botID, Nobody}
  /\ \A f \in form.changed : form.val[f] = Typed(botID)

\* A refresh that was sent in this scope asks for the selected Bot; a save keeps
\* the Bot, the snapshot and the edits of its moment together.
CommandOK(c) ==
  /\ c \in Commands
  /\ c.kind = "refresh" =>
       /\ c.scope <= scope /\ (c.scope = scope => c.bot = botID)
       /\ Snapshot(c.got, c.bot)
  /\ c.kind = "save" =>
       /\ Snapshot(c.base, c.bot)
       /\ \A f \in DOMAIN c.edits : c.edits[f] = Typed(c.bot)

DashInv ==
  /\ ConfigOK /\ SelectionOK /\ FormOK /\ Snapshot(snap, botID)
  /\ \A c \in BagToSet(commands) : CommandOK(c)

(***************************************************************************)
(* The bag of commands.                                                     *)
(***************************************************************************)

\* What is in a bag after one element more, or one less.
LEMMA BagGrows == ASSUME NEW B, NEW x
                  PROVE  BagToSet(BagAdd(B, x)) = BagToSet(B) \cup {x}
  BY DEF BagAdd, BagToSet

LEMMA BagShrinks == ASSUME NEW B, NEW x
                    PROVE  BagToSet(BagRemove(B, x)) \subseteq BagToSet(B)
  BY DEF BagRemove, BagToSet

\* The command of a result is one in flight.
LEMMA CommandOfKind ==
  ASSUME NEW k, NEW stage, NEW c \in OfKind(k, stage)
  PROVE  c \in BagToSet(commands) /\ c.kind = k /\ c.at = stage
  BY DEF OfKind, BagToSet

\* The commands in flight after one is started, ends or becomes another.
LEMMA CommandsChange ==
  ASSUME NEW c, NEW d
  PROVE  /\ Add(d) => BagToSet(commands') = BagToSet(commands) \cup {d}
         /\ Ends(c) => BagToSet(commands') \subseteq BagToSet(commands)
         /\ Becomes(c, d) => BagToSet(commands') \subseteq BagToSet(commands) \cup {d}
  BY BagGrows, BagShrinks DEF Add, Ends, Becomes

(***************************************************************************)
(* What a step that leaves the daemon or the selection alone keeps.        *)
(***************************************************************************)

\* The daemon's configuration of b gets the next revision.
Revised(b) ==
  /\ config' \in [Names -> Snapshots]
  /\ config'[b].rev = config[b].rev + 1
  /\ \A x \in Names \ {b} : config'[x] = config[x]

\* A revision grows with each change, so what was read stays a snapshot.
LEMMA SnapshotStays ==
  ASSUME ConfigOK, NEW s, NEW b, Snapshot(s, b),
         config' = config \/ \E x \in Names : Revised(x)
  PROVE  Snapshot(s, b)'
<1>1. CASE s = Nothing
  BY <1>1 DEF Snapshot
<1>2. CASE s # Nothing /\ config' = config
  BY <1>2 DEF Snapshot
<1>3. ASSUME s # Nothing, NEW x \in Names, Revised(x)
      PROVE  Snapshot(s, b)'
  <2>1. s.rev \in Nat /\ b \in Names /\ config[x].rev \in Nat
    BY <1>3 DEF Snapshot, Snapshots, ConfigOK
  <2>2. CASE x = b
    BY <1>3, <2>1, <2>2 DEF Snapshot, Revised
  <2>3. CASE x # b
    BY <1>3, <2>1, <2>3 DEF Snapshot, Revised
  <2> QED BY <2>2, <2>3
<1> QED BY <1>1, <1>2, <1>3

\* A command stays as it is while the daemon changes and a scope begins.
LEMMA CommandStays ==
  ASSUME DashInv, NEW c \in BagToSet(commands),
         config' = config \/ \E x \in Names : Revised(x),
         (scope' = scope /\ botID' = botID) \/ scope' = scope + 1
  PROVE  CommandOK(c)'
<1>1. CommandOK(c) /\ ConfigOK /\ scope \in Nat
  BY DEF DashInv, SelectionOK
<1>2. c.kind = "refresh" =>
        /\ c.scope <= scope' /\ (c.scope = scope' => c.bot = botID')
        /\ Snapshot(c.got, c.bot)'
  <2> SUFFICES ASSUME c.kind = "refresh"
               PROVE  /\ c.scope <= scope' /\ (c.scope = scope' => c.bot = botID')
                      /\ Snapshot(c.got, c.bot)'
    OBVIOUS
  <2>1. c.scope \in Nat
    BY <1>1 DEF CommandOK, Commands, RefreshCommands, SaveCommands, ListCommands
  <2>2. Snapshot(c.got, c.bot)'
    BY <1>1, SnapshotStays DEF CommandOK
  <2> QED BY <1>1, <2>1, <2>2 DEF CommandOK
<1>3. c.kind = "save" => Snapshot(c.base, c.bot)'
  BY <1>1, SnapshotStays DEF CommandOK
<1> QED BY <1>1, <1>2, <1>3 DEF CommandOK

\* A step of the dashboard in one scope: at most one command is new.
LEMMA ScreenStep ==
  ASSUME DashInv, UNCHANGED daemon, UNCHANGED <<botID, scope>>,
         SelectionOK', FormOK', Snapshot(snap, botID)',
         \A c \in BagToSet(commands') : c \in BagToSet(commands) \/ CommandOK(c)'
  PROVE  DashInv'
<1>1. ConfigOK'
  BY DEF DashInv, ConfigOK, daemon
<1>2. \A c \in BagToSet(commands') : CommandOK(c)'
  BY CommandStays DEF daemon
<1> QED BY <1>1, <1>2 DEF DashInv

\* One that leaves the snapshot alone, too.
LEMMA KeepsSnapshot ==
  ASSUME DashInv, UNCHANGED daemon, UNCHANGED <<botID, snap>>
  PROVE  Snapshot(snap, botID)'
  BY DEF DashInv, Snapshot, daemon

\* One that leaves the form alone.
LEMMA KeepsForm ==
  ASSUME DashInv, UNCHANGED <<botID, form>>
  PROVE  FormOK'
  BY DEF DashInv, FormOK

\* A refresh asks for the selected Bot in this scope.
LEMMA RefreshIsOK ==
  ASSUME DashInv, UNCHANGED daemon
  PROVE  \A c : c = Refresh(botID, scope) /\ UNCHANGED <<botID, scope>> => CommandOK(c)'
  BY DEF DashInv, SelectionOK, CommandOK, Commands, RefreshCommands, Stages, Refresh, Snapshot

\* A listing asks for all of them.
LEMMA ListingIsOK == \A c : c = Listing => CommandOK(c)'
  BY DEF CommandOK, Commands, ListCommands, Stages, Listing

(***************************************************************************)
(* Selecting a Bot begins a new scope.                                      *)
(***************************************************************************)

\* An empty form is of any Bot.
LEMMA InitFormIsOK ==
  ASSUME form' = InitForm PROVE FormOK'
  BY DashboardAssumption DEF FormOK, InitForm, Value, Blank, Selections

\* The results of the Bot that was selected before are of an older scope.
LEMMA Selected ==
  ASSUME DashInv, NEW b \in Names, NEW rest, SelectBot(b, rest),
         UNCHANGED daemon, bots' \subseteq Names, BagToSet(rest) \subseteq BagToSet(commands)
  PROVE  DashInv'
<1>1. ConfigOK'
  BY DEF DashInv, ConfigOK, daemon
<1>2. SelectionOK'
  <2>1. b # Nobody
    BY DashboardAssumption
  <2>2. scope' \in Nat
    BY DEF DashInv, SelectionOK, SelectBot
  <2>3. botID' = b /\ selecting' = FALSE
    BY DEF SelectBot
  <2>4. selecting' \in BOOLEAN /\ botID' \in Selections
    BY <2>3 DEF Selections
  <2> QED BY <2>1, <2>2, <2>3, <2>4 DEF SelectionOK
<1>3. FormOK' /\ Snapshot(snap, botID)'
  BY InitFormIsOK DEF SelectBot, Snapshot
<1>4. ASSUME NEW c \in BagToSet(commands') PROVE CommandOK(c)'
  <2>1. c \in BagToSet(commands) \/ c = Refresh(b, scope + 1)
    BY BagGrows DEF SelectBot
  <2>2. CASE c \in BagToSet(commands)
    BY <2>2, CommandStays DEF SelectBot, daemon
  <2>3. CASE c = Refresh(b, scope + 1)
    BY <2>3, <1>2 DEF SelectBot, CommandOK, Commands, RefreshCommands, Stages, Refresh,
       Snapshot, SelectionOK, Selections
  <2> QED BY <2>1, <2>2, <2>3
<1> QED BY <1>1, <1>2, <1>3, <1>4 DEF DashInv

(***************************************************************************)
(* Keys and ticks                                                           *)
(***************************************************************************)

\* Each key keeps the invariant.
LEMMA KeyStep ==
  ASSUME DashInv, Keys
  PROVE  DashInv'
<1>a. SelectionOK /\ FormOK
  BY DEF DashInv
<1>1. CASE PressRefresh
  <2>1. UNCHANGED <<daemon, selection, snap, form>>
    BY <1>1 DEF PressRefresh
  <2>2. ASSUME NEW c \in BagToSet(commands') PROVE c \in BagToSet(commands) \/ CommandOK(c)'
    <3>1. PICK d : Add(d) /\ d = Refresh(botID, scope) /\ botID' = botID /\ scope' = scope
      BY <1>1, <2>1 DEF PressRefresh, selection
    <3>2. c \in BagToSet(commands) \/ c = d
      BY <3>1, CommandsChange
    <3> QED BY <2>1, <3>1, <3>2, RefreshIsOK
  <2> QED BY <1>a, <2>1, <2>2, ScreenStep, KeepsSnapshot, KeepsForm DEF selection, SelectionOK
<1>2. CASE PressList
  <2>1. UNCHANGED <<daemon, botID, bots, scope, snap, form>> /\ selecting' = TRUE
    BY <1>2 DEF PressList
  <2>2. ASSUME NEW c \in BagToSet(commands') PROVE c \in BagToSet(commands) \/ CommandOK(c)'
    <3>1. Add(Listing)
      BY <1>2 DEF PressList
    <3>2. BagToSet(commands') = BagToSet(commands) \cup {Listing}
      BY <3>1, CommandsChange
    <3> QED BY <3>2, ListingIsOK
  <2> QED BY <1>a, <2>1, <2>2, ScreenStep, KeepsSnapshot, KeepsForm DEF SelectionOK
<1>3. CASE LeaveList
  <2>1. UNCHANGED <<daemon, botID, bots, scope, snap, form, commands>> /\ selecting' = FALSE
        /\ botID # Nobody
    BY <1>3 DEF LeaveList
  <2> QED BY <1>a, <2>1, ScreenStep, KeepsSnapshot, KeepsForm DEF SelectionOK
<1>4. CASE PressSave
  <2>1. UNCHANGED <<daemon, screen>>
    BY <1>4 DEF PressSave
  <2>2. ASSUME NEW c, c = SaveCommand PROVE CommandOK(c)'
    <3>1. c \in SaveCommands
      BY <1>a, <2>2 DEF DashInv, SaveCommand, SaveCommands, Stages, SelectionOK, FormOK, Edits, Snapshot
    <3>2. c.kind = "save" /\ c.base = snap /\ c.bot = botID
          /\ \A f \in DOMAIN c.edits : c.edits[f] = Typed(c.bot)
      BY <1>a, <2>2 DEF SaveCommand, FormOK
    <3> QED BY <2>1, <3>1, <3>2 DEF DashInv, CommandOK, Commands, Snapshot, screen, selection,
                daemon
  <2>3. ASSUME NEW c \in BagToSet(commands') PROVE c \in BagToSet(commands) \/ CommandOK(c)'
    <3>1. PICK d : Add(d) /\ d = SaveCommand
      BY <1>4 DEF PressSave
    <3>2. CommandOK(d)'
      BY <2>2, <3>1
    <3>3. BagToSet(commands') = BagToSet(commands) \cup {d}
      BY <3>1, CommandsChange
    <3> QED BY <3>2, <3>3
  <2> QED BY <1>a, <2>1, <2>3, ScreenStep, KeepsSnapshot, KeepsForm
          DEF screen, selection, SelectionOK
<1>5. ASSUME NEW b \in Names, Choose(b) PROVE DashInv'
  BY <1>5, <1>a, Selected DEF Choose, SelectionOK
<1>6. ASSUME NEW f \in Fields, StartEdit(f) PROVE DashInv'
  <2>1. UNCHANGED <<daemon, selection, snap, commands>> /\ FormOK'
    BY <1>6, <1>a DEF StartEdit, FormOK, selection
  <2> QED BY <1>a, <2>1, ScreenStep, KeepsSnapshot DEF selection, SelectionOK
<1>7. ASSUME NEW confirmed \in BOOLEAN, EndEdit(confirmed) PROVE DashInv'
  <2>1. UNCHANGED <<daemon, selection, snap, commands>>
    BY <1>7 DEF EndEdit
  <2>2. form.editing \in Fields /\ botID # Nobody /\ Typed(botID) \in Value
    BY <1>7, <1>a DEF EndEdit, FormOK, SelectionOK, Typed, Value
  <2>3. CASE confirmed
    <3>1. form' = [form EXCEPT !.val[form.editing] = Typed(botID), !.dirty = TRUE,
                               !.changed = @ \cup {form.editing}, !.editing = Nothing]
      BY <1>7, <2>3 DEF EndEdit, Typed
    <3>2. /\ form'.val = [form.val EXCEPT ![form.editing] = Typed(botID)]
          /\ form'.changed = form.changed \cup {form.editing}
          /\ form' \in [shown : SUBSET Fields, val : [Fields -> Value],
                        changed : SUBSET Fields, editing : Fields \cup {Nothing},
                        dirty : BOOLEAN]
      BY <1>a, <2>2, <3>1 DEF FormOK
    <3>3. FormOK'
      BY <1>a, <2>1, <2>2, <3>2 DEF FormOK, Typed, selection
    <3> QED BY <1>a, <2>1, <3>3, ScreenStep, KeepsSnapshot DEF selection, SelectionOK
  <2>4. CASE ~confirmed
    <3>1. FormOK'
      BY <1>7, <1>a, <2>4 DEF FormOK, EndEdit, selection
    <3> QED BY <1>a, <2>1, <3>1, ScreenStep, KeepsSnapshot DEF selection, SelectionOK
  <2> QED BY <2>3, <2>4
<1> QED BY <1>1, <1>2, <1>3, <1>4, <1>5, <1>6, <1>7 DEF Keys

\* A tick is a refresh.
LEMMA TickStep ==
  ASSUME DashInv, Tick
  PROVE  DashInv'
<1>1. UNCHANGED <<daemon, selection, snap, form>>
  BY DEF Tick
<1>2. ASSUME NEW c \in BagToSet(commands') PROVE c \in BagToSet(commands) \/ CommandOK(c)'
  BY <1>1, CommandsChange, RefreshIsOK DEF Tick, selection
<1> QED BY <1>1, <1>2, ScreenStep, KeepsSnapshot, KeepsForm DEF selection, SelectionOK, DashInv

(***************************************************************************)
(* Refreshes                                                                *)
(***************************************************************************)

\* What the daemon answers is its configuration of the Bot of the request.
LEMMA ReadStep ==
  ASSUME DashInv, NEW c \in OfKind("refresh", "sent"), ReadConfig(c)
  PROVE  DashInv'
<1>a. SelectionOK /\ FormOK /\ ConfigOK /\ CommandOK(c) /\ c.kind = "refresh"
  BY CommandOfKind DEF DashInv
<1>b. c \in RefreshCommands
  BY <1>a DEF CommandOK, Commands, SaveCommands, ListCommands
<1>1. UNCHANGED <<daemon, screen>>
  BY DEF ReadConfig
<1>2. PICK d : Becomes(c, d) /\ (d = [c EXCEPT !.at = "read"] \/
                (Found(c.bot) /\ d = [c EXCEPT !.at = "read", !.got = config[c.bot]]))
  BY DEF ReadConfig
<1>3. CommandOK(d)'
  <2>1. /\ d.kind = "refresh" /\ d.bot = c.bot /\ d.scope = c.scope /\ d \in Commands
        /\ Snapshot(d.got, d.bot)
    <3>1. CASE d = [c EXCEPT !.at = "read"]
      BY <1>a, <1>b, <3>1 DEF CommandOK, Commands, RefreshCommands, Stages
    <3>2. CASE Found(c.bot) /\ d = [c EXCEPT !.at = "read", !.got = config[c.bot]]
      <4>1. c.bot \in Names /\ config[c.bot] \in Snapshots
        BY <1>a, <3>2 DEF Found, ConfigOK
      <4>2. Snapshot(config[c.bot], c.bot)
        BY <1>a, <4>1 DEF Snapshot, ConfigOK, Snapshots
      <4> QED BY <1>b, <3>2, <4>1, <4>2 DEF Commands, RefreshCommands, Stages
    <3> QED BY <1>2, <3>1, <3>2
  <2> QED BY <1>a, <1>1, <2>1 DEF CommandOK, Snapshot, screen, selection, daemon
<1>4. ASSUME NEW x \in BagToSet(commands') PROVE x \in BagToSet(commands) \/ CommandOK(x)'
  BY <1>2, <1>3, CommandsChange
<1> QED BY <1>a, <1>1, <1>4, ScreenStep, KeepsSnapshot, KeepsForm
        DEF screen, selection, SelectionOK

\* What is taken into the form is of the selected Bot, and fields that the
\* operator changed keep what was typed.
LEMMA SyncIsOK ==
  ASSUME FormOK, NEW s, Snapshot(s, botID), botID' = botID, form' = Sync(form, s)
  PROVE  FormOK'
<1>1. CASE s = Nothing \/ form.editing # Nothing
  BY <1>1 DEF Sync, FormOK
<1>2. CASE s # Nothing /\ form.editing = Nothing
  <2> DEFINE shown == IF s.bot \in Console THEN form.shown \ AgentOnly ELSE form.shown
             told == {f \in shown \ form.changed : s.vals[f][2] # "unset"}
             val == [f \in Fields |-> IF f \in told THEN s.vals[f] ELSE form.val[f]]
  <2>1. form' = [form EXCEPT !.shown = shown, !.changed = @ \cap shown, !.val = val]
    BY <1>2 DEF Sync
  <2>2. s.vals \in [Fields -> Value] /\ \A f \in Fields : s.vals[f][1] = botID
    BY <1>2 DEF Snapshot, Snapshots
  <2>3. val \in [Fields -> Value] /\ shown \subseteq Fields
    BY <2>2 DEF FormOK
  <2> HIDE DEF shown, told, val
  <2>4. form'.val = val /\ form'.changed = form.changed \cap shown /\ form'.shown = shown
        /\ form'.editing = form.editing /\ form'.dirty = form.dirty
    BY <2>1 DEF FormOK
  <2>5. form' \in [shown : SUBSET Fields, val : [Fields -> Value], changed : SUBSET Fields,
                   editing : Fields \cup {Nothing}, dirty : BOOLEAN]
    BY <2>1, <2>3 DEF FormOK
  <2>6. \A f \in Fields : val[f][1] \in {botID, Nobody}
    BY <2>2 DEF FormOK, val
  <2>7. \A f \in form.changed \cap shown : val[f] = Typed(botID)
    BY DEF FormOK, val, told
  <2> QED BY <2>4, <2>5, <2>6, <2>7 DEF FormOK
<1> QED BY <1>1, <1>2

\* A result of this scope is the selected Bot's.
LEMMA TakeStep ==
  ASSUME DashInv, NEW c \in OfKind("refresh", "read"), TakeRefresh(c)
  PROVE  DashInv'
<1>a. SelectionOK /\ FormOK /\ CommandOK(c) /\ c.kind = "refresh" /\ Snapshot(snap, botID)
  BY CommandOfKind DEF DashInv
<1>1. UNCHANGED <<daemon, selection>> /\ BagToSet(commands') \subseteq BagToSet(commands)
  BY CommandsChange DEF TakeRefresh
<1>2. SelectionOK' /\ botID' = botID /\ scope' = scope
  BY <1>a, <1>1 DEF SelectionOK, selection
<1>3. CASE c.scope # scope
  <2>1. UNCHANGED <<snap, form>>
    BY <1>3 DEF TakeRefresh
  <2> QED BY <1>1, <1>2, <2>1, ScreenStep, KeepsSnapshot, KeepsForm
<1>4. CASE c.scope = scope
  <2>1. Snapshot(c.got, botID) /\ form' = Sync(form, c.got)
        /\ snap' = IF c.got = Nothing THEN snap ELSE c.got
    BY <1>4, <1>a DEF TakeRefresh, CommandOK
  <2>2. FormOK'
    BY <1>a, <1>2, <2>1, SyncIsOK
  <2>3. Snapshot(snap', botID)
    BY <1>a, <2>1
  <2>4. Snapshot(snap, botID)'
    BY <1>1, <1>2, <2>3 DEF Snapshot, daemon
  <2> QED BY <1>1, <1>2, <2>2, <2>4, ScreenStep
<1> QED BY <1>3, <1>4

(***************************************************************************)
(* Saves                                                                    *)
(***************************************************************************)

\* The save as it is answered, or lost.
LEMMA SaveMoves ==
  ASSUME DashInv, NEW c \in BagToSet(commands), c.kind = "save", NEW r \in Stages,
         config' = config \/ \E x \in Names : Revised(x), UNCHANGED <<botID, scope>>
  PROVE  CommandOK([c EXCEPT !.at = r])'
<1>1. CommandOK(c)'
  BY CommandStays
<1>2. c \in SaveCommands
  BY <1>1 DEF CommandOK, Commands, RefreshCommands, ListCommands
<1>3. /\ [c EXCEPT !.at = r] \in SaveCommands
      /\ [c EXCEPT !.at = r].kind = "save" /\ [c EXCEPT !.at = r].bot = c.bot
      /\ [c EXCEPT !.at = r].base = c.base /\ [c EXCEPT !.at = r].edits = c.edits
  BY <1>2 DEF SaveCommands
<1> QED BY <1>1, <1>3 DEF CommandOK, Commands

\* What is stored is the configuration of that revision with what was typed.
LEMMA Stored ==
  ASSUME DashInv, NEW c \in BagToSet(commands), c.kind = "save", Accepts(c), UpdateStored(c)
  PROVE  /\ c.bot \in Names /\ Revised(c.bot)
         /\ config'[c.bot].bot = c.bot
         /\ \A f \in Fields : config'[c.bot].vals[f] =
              IF f \in DOMAIN c.edits THEN Typed(c.bot) ELSE config[c.bot].vals[f]
<1>a. CommandOK(c) /\ ConfigOK
  BY DEF DashInv
<1>b. c \in SaveCommands
  BY <1>a DEF CommandOK, Commands, RefreshCommands, ListCommands
<1>1. c.bot \in Names /\ c.base # Nothing /\ c.base.rev = config[c.bot].rev
  BY <1>a DEF Accepts, Found, Decodes, ConfigOK
<1>2. c.base.vals = config[c.bot].vals
  BY <1>a, <1>1 DEF CommandOK, Snapshot
<1>3. \A f \in Fields : Edited(c)[f] =
        IF f \in DOMAIN c.edits THEN Typed(c.bot) ELSE config[c.bot].vals[f]
  BY <1>a, <1>2 DEF Edited, CommandOK
<1>4. Edited(c) \in [Fields -> Value]
  <2>1. ASSUME NEW f \in Fields PROVE Edited(c)[f] \in Value
    BY <1>1, <1>3, <1>a DEF ConfigOK, Snapshots, Value, Typed, Selections
  <2> QED BY <2>1 DEF Edited
<1> DEFINE b == c.bot
           new == [config[b] EXCEPT !.vals = Edited(c), !.rev = @ + 1]
<1>5. config' = [config EXCEPT ![b] = new]
  BY <1>1, <1>a DEF UpdateStored, ConfigOK, Snapshots
<1>6. new \in Snapshots /\ new.bot = b /\ new.rev = config[b].rev + 1 /\ new.vals = Edited(c)
  <2>1. config[b] \in Snapshots /\ config[b].bot = b
    BY <1>1, <1>a DEF ConfigOK
  <2> HIDE DEF b
  <2>2. PICK s : s = config[b]
    OBVIOUS
  <2>3. PICK v : v = Edited(c)
    OBVIOUS
  <2>4. PICK n : n = new
    OBVIOUS
  <2>5. n = [s EXCEPT !.vals = v, !.rev = @ + 1]
    BY <2>2, <2>3, <2>4
  <2> HIDE DEF new
  <2>6. s = [bot |-> s.bot, rev |-> s.rev, vals |-> s.vals] /\ s.rev \in Nat /\ s.bot \in Names
    BY <2>1, <2>2 DEF Snapshots
  <2>7. n = [bot |-> s.bot, rev |-> s.rev + 1, vals |-> v]
    BY <2>5, <2>6
  <2>8. n \in Snapshots /\ n.bot = s.bot /\ n.rev = s.rev + 1 /\ n.vals = v
    BY <1>4, <2>3, <2>6, <2>7 DEF Snapshots
  <2> QED BY <2>1, <2>2, <2>3, <2>4, <2>8
<1>7. config' \in [Names -> Snapshots] /\ config'[b] = new
      /\ \A x \in Names \ {b} : config'[x] = config[x]
  BY <1>1, <1>5, <1>6, <1>a DEF ConfigOK
<1> HIDE DEF new
<1> QED BY <1>1, <1>3, <1>6, <1>7 DEF Revised

\* The daemon changes, and the commands that are answered.
LEMMA ConfigStep ==
  ASSUME DashInv, NEW b \in Names, Revised(b), UNCHANGED <<listed, screen>>,
         config'[b].bot = b, \A f \in Fields : config'[b].vals[f][1] = b,
         \A c \in BagToSet(commands') : c \in BagToSet(commands) \/ CommandOK(c)'
  PROVE  DashInv'
<1>1. ConfigOK'
  BY DEF DashInv, ConfigOK, Revised
<1>2. SelectionOK' /\ FormOK' /\ botID' = botID /\ scope' = scope /\ snap' = snap
  BY DEF DashInv, SelectionOK, FormOK, screen, selection
<1>3. Snapshot(snap, botID)'
  <2>1. Snapshot(snap, botID)'
    BY <1>2, SnapshotStays DEF DashInv, Snapshot
  <2> QED BY <2>1
<1>4. \A c \in BagToSet(commands') : CommandOK(c)'
  BY <1>2, CommandStays
<1> QED BY <1>1, <1>2, <1>3, <1>4 DEF DashInv

\* Every step of a save keeps the invariant, a late one too.
LEMMA SaveStep ==
  ASSUME DashInv, NEW c \in BagToSet(commands), c.kind = "save",
         RunSave(c) \/ SaveTimesOut(c) \/ SaveDone(c) \/ SaveFailed(c)
  PROVE  DashInv'
<1>a. SelectionOK /\ FormOK /\ CommandOK(c)
  BY DEF DashInv
<1> DEFINE Answer(r) == Ends(c) \/ Becomes(c, [c EXCEPT !.at = r])
<1>b. ASSUME NEW r \in Stages, Answer(r), config' = config \/ \E x \in Names : Revised(x),
             UNCHANGED <<botID, scope>>,
             NEW x \in BagToSet(commands')
      PROVE  x \in BagToSet(commands) \/ CommandOK(x)'
  <2>1. PICK d : d = [c EXCEPT !.at = r]
    OBVIOUS
  <2>2. x \in BagToSet(commands) \/ x = d
    BY <1>b, <2>1, CommandsChange
  <2>3. x = d => CommandOK(x)'
    BY <1>b, <2>1, SaveMoves
  <2> QED BY <2>2, <2>3
<1>c. ASSUME UNCHANGED <<daemon, screen>>, NEW r \in Stages, Answer(r)
      PROVE  DashInv'
  <2>1. UNCHANGED <<botID, scope, snap, form>> /\ SelectionOK' /\ config' = config
    BY <1>a, <1>c DEF screen, selection, SelectionOK, daemon
  <2>2. \A x \in BagToSet(commands') : x \in BagToSet(commands) \/ CommandOK(x)'
    BY <1>b, <1>c, <2>1
  <2> QED BY <1>c, <2>1, <2>2, ScreenStep, KeepsSnapshot, KeepsForm
<1>1. CASE SaveTimesOut(c)
  BY <1>1, <1>c DEF SaveTimesOut, Stages
<1>2. CASE SaveFailed(c)
  BY <1>2, <1>c DEF SaveFailed, Stages
<1>3. CASE SaveDone(c)
  <2>1. UNCHANGED <<daemon, selection, snap>> /\ botID' = botID /\ scope' = scope
    BY <1>3 DEF SaveDone, selection
  <2>2. SelectionOK' /\ FormOK'
    <3>1. SelectionOK'
      BY <1>a, <2>1 DEF SelectionOK, selection
    <3>2. CASE form' = form
      BY <3>1, <3>2, <2>1, KeepsForm
    <3>3. CASE form' = [form EXCEPT !.changed = {}, !.dirty = FALSE]
      <4>1. /\ form'.val = form.val /\ form'.changed = {} /\ form'.shown = form.shown
            /\ form'.editing = form.editing /\ form'.dirty = FALSE
            /\ form' = [shown |-> form.shown, val |-> form.val, changed |-> {},
                        editing |-> form.editing, dirty |-> FALSE]
        BY <1>a, <3>3 DEF FormOK
      <4>2. form' \in [shown : SUBSET Fields, val : [Fields -> Value],
                       changed : SUBSET Fields, editing : Fields \cup {Nothing},
                       dirty : BOOLEAN]
        BY <1>a, <4>1 DEF FormOK
      <4> QED BY <1>a, <2>1, <3>1, <4>1, <4>2 DEF FormOK
    <3> QED BY <1>3, <3>1, <3>2, <3>3 DEF SaveDone
  <2>3. PICK d : d = Refresh(botID, scope)
    OBVIOUS
  <2>4. Ends(c) \/ Becomes(c, d)
    BY <1>3, <2>3 DEF SaveDone
  <2>5. ASSUME NEW x \in BagToSet(commands') PROVE x \in BagToSet(commands) \/ CommandOK(x)'
    <3>1. x \in BagToSet(commands) \/ x = d
      BY <2>4, CommandsChange
    <3> QED BY <2>1, <2>3, <3>1, RefreshIsOK
  <2> QED BY <2>1, <2>2, <2>5, ScreenStep, KeepsSnapshot
<1>4. CASE RunSave(c)
  <2>1. UNCHANGED <<listed, screen>> /\ \E r \in Stages : Answer(r)
    BY <1>4 DEF RunSave, Stages
  <2>2. CASE config' = config
    BY <1>c, <2>1, <2>2 DEF daemon
  <2>3. CASE config' # config
    <3>1. Accepts(c) /\ UpdateStored(c)
      BY <1>4, <2>3 DEF RunSave
    <3>2. UNCHANGED <<botID, scope>>
      BY <2>1 DEF screen, selection
    <3>3. /\ c.bot \in Names /\ Revised(c.bot) /\ config'[c.bot].bot = c.bot
          /\ \A f \in Fields : config'[c.bot].vals[f][1] = c.bot
      <4>1. c.bot \in Names /\ Revised(c.bot) /\ config'[c.bot].bot = c.bot
        BY <3>1, Stored
      <4>2. ASSUME NEW f \in Fields PROVE config'[c.bot].vals[f][1] = c.bot
        <5>1. \/ config'[c.bot].vals[f] = Typed(c.bot)
              \/ config'[c.bot].vals[f] = config[c.bot].vals[f]
          BY <3>1, Stored
        <5>2. config[c.bot].vals[f][1] = c.bot /\ Typed(c.bot)[1] = c.bot
          BY <4>1 DEF DashInv, ConfigOK, Typed
        <5> QED BY <5>1, <5>2
      <4> QED BY <4>1, <4>2
    <3>4. \A x \in BagToSet(commands') : x \in BagToSet(commands) \/ CommandOK(x)'
      BY <1>b, <2>1, <3>2, <3>3
    <3> HIDE DEF Answer
    <3> QED BY <2>1, <3>3, <3>4, ConfigStep
  <2> QED BY <2>2, <2>3
<1> QED BY <1>1, <1>2, <1>3, <1>4

(***************************************************************************)
(* Listings and other clients                                               *)
(***************************************************************************)

\* A listing selects one of the Bots it names, or none.
LEMMA ListStep ==
  ASSUME DashInv, NEW c \in BagToSet(commands), c.kind = "list",
         RunListing(c) \/ ListingFails(c) \/ TakeListing(c)
  PROVE  DashInv'
<1>a. SelectionOK /\ FormOK /\ CommandOK(c)
  BY DEF DashInv
<1>b. c \in ListCommands
  BY <1>a DEF CommandOK, Commands, RefreshCommands, SaveCommands
<1>1. CASE RunListing(c)
  <2>1. UNCHANGED <<daemon, screen>> /\ listed \subseteq Names
    BY <1>1 DEF RunListing, DashInv, ConfigOK
  <2>2. PICK d : d = [c EXCEPT !.at = "read", !.got = listed] /\ Becomes(c, d)
    BY <1>1 DEF RunListing
  <2>3. CommandOK(d)'
    BY <1>b, <2>1, <2>2 DEF CommandOK, Commands, ListCommands, Stages
  <2>4. \A x \in BagToSet(commands') : x \in BagToSet(commands) \/ CommandOK(x)'
    BY <2>2, <2>3, CommandsChange
  <2> QED BY <1>a, <2>1, <2>4, ScreenStep, KeepsSnapshot, KeepsForm
          DEF screen, selection, SelectionOK
<1>2. CASE ListingFails(c)
  <2>1. UNCHANGED <<daemon, selection, snap, form>>
        /\ BagToSet(commands') \subseteq BagToSet(commands)
    BY <1>2, CommandsChange DEF ListingFails
  <2> QED BY <1>a, <2>1, ScreenStep, KeepsSnapshot, KeepsForm DEF selection, SelectionOK
<1>3. CASE TakeListing(c)
  <2> DEFINE rest == BagRemove(commands, c)
  <2>1. BagToSet(rest) \subseteq BagToSet(commands)
    BY BagShrinks
  <2>2. bots' = c.got /\ c.got \subseteq Names /\ UNCHANGED daemon
    BY <1>3, <1>b DEF TakeListing, ListCommands
  <2>3. ASSUME commands' = rest, UNCHANGED <<botID, scope, snap, form>>,
               UNCHANGED selecting \/ selecting' = TRUE
        PROVE  DashInv'
    <3>1. UNCHANGED <<botID, scope, snap, form>> /\ (UNCHANGED selecting \/ selecting' = TRUE)
      BY <2>3
    <3>2. SelectionOK'
      BY <1>a, <2>2, <3>1 DEF SelectionOK
    <3> QED BY <2>1, <2>2, <2>3, <3>1, <3>2, ScreenStep, KeepsSnapshot, KeepsForm
  <2>4. ASSUME NEW b \in Resolved(botID, c.got), SelectBot(b, rest) PROVE DashInv'
    <3>1. b \in Names
      BY <1>b, <2>4 DEF Resolved, ListCommands
    <3> QED BY <2>1, <2>2, <2>4, <3>1, Selected
  <2>5. \/ commands' = rest /\ UNCHANGED <<botID, selecting, scope, snap, form>>
        \/ commands' = rest /\ selecting' = TRUE /\ UNCHANGED <<botID, scope, snap, form>>
        \/ \E b \in Resolved(botID, c.got) : SelectBot(b, rest)
    BY <1>3 DEF TakeListing
  <2> HIDE DEF rest
  <2> QED BY <2>3, <2>4, <2>5
<1> QED BY <1>1, <1>2, <1>3

\* Another client changes one value and the revision.
LEMMA OtherStep ==
  ASSUME DashInv, NEW b \in Names, NEW f \in Fields, NEW v, v = "other" \/ v = "unset",
         OtherUpdate(b, f, v)
  PROVE  /\ Revised(b)
         /\ \A x \in Fields : config'[b].vals[x] = IF x = f THEN <<b, v>> ELSE config[b].vals[x]
         /\ DashInv'
<1>a. ConfigOK /\ config[b] \in Snapshots /\ config[b].bot = b
  BY DEF DashInv, ConfigOK
<1>1. UNCHANGED <<listed, screen, commands>>
      /\ config' = [config EXCEPT ![b].vals[f] = <<b, v>>, ![b].rev = @ + 1]
  BY DEF OtherUpdate
<1>2. PICK s : s = config[b]
  OBVIOUS
<1>3. PICK vals : vals = [s.vals EXCEPT ![f] = <<b, v>>]
  OBVIOUS
<1>4. vals \in [Fields -> Value] /\ \A x \in Fields : vals[x][1] = b
  <2>1. <<b, v>> \in Value /\ s.vals \in [Fields -> Value] /\ \A x \in Fields : s.vals[x][1] = b
    BY <1>a, <1>2 DEF Value, Selections, Snapshots, ConfigOK
  <2> QED BY <1>3, <2>1
<1>5. PICK n : n = [bot |-> b, rev |-> s.rev + 1, vals |-> vals]
  OBVIOUS
<1>6. n \in Snapshots
  BY <1>a, <1>2, <1>4, <1>5 DEF Snapshots
<1>7. config' = [config EXCEPT ![b] = n]
  <2>1. s = [bot |-> b, rev |-> s.rev, vals |-> s.vals]
    BY <1>a, <1>2 DEF Snapshots
  <2>2. PICK m : m = [config[b] EXCEPT !.vals = [config[b].vals EXCEPT ![f] = <<b, v>>],
                                       !.rev = config[b].rev + 1]
    OBVIOUS
  <2>3. config' = [config EXCEPT ![b] = m]
    <3>1. DOMAIN config = Names
      BY <1>a DEF ConfigOK
    <3>2. b \in DOMAIN config /\ DOMAIN config[b] = {"bot", "rev", "vals"}
      BY <1>a, <3>1 DEF Snapshots
    <3> QED BY <1>1, <2>2, <3>1, <3>2
  <2>4. m = [s EXCEPT !.vals = vals, !.rev = s.rev + 1]
    BY <1>2, <1>3, <2>2
  <2>5. m = n
    <3>1. PICK r : r = s.rev
      OBVIOUS
    <3>2. PICK w : w = s.vals
      OBVIOUS
    <3>3. s = [bot |-> b, rev |-> r, vals |-> w]
      BY <2>1, <3>1, <3>2
    <3>4. m = [s EXCEPT !.vals = vals, !.rev = r + 1]
          /\ n = [bot |-> b, rev |-> r + 1, vals |-> vals]
      BY <1>5, <2>4, <3>1
    <3>5. m = [[bot |-> b, rev |-> r, vals |-> w] EXCEPT !.vals = vals, !.rev = r + 1]
      BY <3>3, <3>4
    <3> QED BY <3>4, <3>5
  <2> QED BY <2>3, <2>5
<1>8. config' \in [Names -> Snapshots] /\ config'[b] = n
      /\ \A x \in Names \ {b} : config'[x] = config[x]
  BY <1>a, <1>6, <1>7 DEF ConfigOK
<1>9. Revised(b) /\ config'[b].bot = b /\ config'[b].vals = vals
  BY <1>2, <1>5, <1>8 DEF Revised
<1>10. \A x \in Fields : config'[b].vals[x] = IF x = f THEN <<b, v>> ELSE config[b].vals[x]
  BY <1>a, <1>2, <1>3, <1>9 DEF Snapshots
<1>11. DashInv'
  BY <1>1, <1>4, <1>9, ConfigStep
<1> QED BY <1>9, <1>10, <1>11

(***************************************************************************)
(* The whole specification                                                  *)
(***************************************************************************)

\* The program begins in the invariant.
LEMMA DashInit ==
  ASSUME DashboardInit
  PROVE  DashInv
<1>1. ConfigOK
  <2>1. listed \subseteq Names
    BY DashboardAssumption DEF DashboardInit
  <2>2. ASSUME NEW b \in Names
        PROVE  config[b] \in Snapshots /\ config[b].bot = b
               /\ \A f \in Fields : config[b].vals[f][1] = b
    <3>1. PICK vals : vals = [f \in Fields |-> IF b \in Console /\ f \in AgentOnly
                                              THEN <<b, "unset">> ELSE <<b, "first">>]
      OBVIOUS
    <3>2. config[b] = [bot |-> b, rev |-> 1, vals |-> vals]
      BY <3>1 DEF DashboardInit
    <3>3. vals \in [Fields -> Value] /\ \A f \in Fields : vals[f][1] = b
      BY <3>1 DEF Value, Selections
    <3> QED BY <3>2, <3>3 DEF Snapshots
  <2>3. config \in [Names -> Snapshots]
    <3>1. config = [b \in Names |-> config[b]]
      BY DEF DashboardInit
    <3> QED BY <2>2, <3>1
  <2> QED BY <2>1, <2>2, <2>3 DEF ConfigOK
<1>2. SelectionOK
  BY DEF DashboardInit, SelectionOK
<1>3. FormOK
  BY DashboardAssumption DEF DashboardInit, FormOK, InitForm, Value, Blank, Selections
<1>4. Snapshot(snap, botID)
  BY DEF DashboardInit, Snapshot
<1>5. ASSUME NEW c \in BagToSet(commands) PROVE CommandOK(c)
  <2>1. c = FirstCommand(botID)
    BY DEF DashboardInit, BagToSet, SetToBag
  <2>2. CASE botID \in Names
    <3>1. c = Refresh(botID, scope) /\ scope = 0
      BY <2>1, <2>2 DEF FirstCommand, DashboardInit
    <3> QED BY <1>2, <3>1 DEF CommandOK, Commands, RefreshCommands, Stages, Refresh, Snapshot,
                SelectionOK
  <2>3. CASE botID \notin Names
    BY <2>1, <2>3 DEF FirstCommand, CommandOK, Commands, ListCommands, Stages, Listing
  <2> QED BY <2>2, <2>3
<1> QED BY <1>1, <1>2, <1>3, <1>4, <1>5 DEF DashInv

\* Every step keeps it.
LEMMA DashNext ==
  ASSUME DashInv, [DashboardNext]_dashboardVars
  PROVE  DashInv'
<1>1. CASE Keys
  BY <1>1, KeyStep
<1>2. CASE Tick
  BY <1>2, TickStep
<1>3. CASE Refreshes
  BY <1>3, ReadStep, TakeStep DEF Refreshes
<1>4. CASE Saves
  <2>1. PICK c \in BagToSet(commands) :
          c.kind = "save" /\ (RunSave(c) \/ SaveTimesOut(c) \/ SaveDone(c) \/ SaveFailed(c))
    BY <1>4, CommandOfKind DEF Saves
  <2> QED BY <2>1, SaveStep
<1>5. CASE Listings
  <2>1. PICK c \in BagToSet(commands) :
          c.kind = "list" /\ (RunListing(c) \/ ListingFails(c) \/ TakeListing(c))
    BY <1>5, CommandOfKind DEF Listings
  <2> QED BY <2>1, ListStep
<1>6. CASE Others
  <2>1. PICK b \in Names, f \in Fields, v \in {"other", "unset"} : OtherUpdate(b, f, v)
    BY <1>6, DashboardAssumption DEF Others
  <2> QED BY <2>1, OtherStep
<1>7. CASE UNCHANGED dashboardVars
  <2>1. UNCHANGED daemon /\ UNCHANGED <<botID, selecting, bots, scope, snap, form, commands>>
    BY <1>7 DEF dashboardVars, screen, selection
  <2>2. SelectionOK'
    BY <2>1 DEF SelectionOK, DashInv
  <2> QED BY <2>1, <2>2, ScreenStep, KeepsSnapshot, KeepsForm
<1> QED BY <1>1, <1>2, <1>3, <1>4, <1>5, <1>6, <1>7 DEF DashboardNext

\* The screen, the form, the daemon's configurations and every command in
\* flight fit together in every state the dashboard reaches.
THEOREM DashInvariance == DashboardSpec => []DashInv
<1>1. DashboardInit => DashInv
  BY DashInit
<1>2. DashInv /\ [DashboardNext]_dashboardVars => DashInv'
  BY DashNext
<1> QED BY <1>1, <1>2, PTL DEF DashboardSpec

\* The property is a part of the invariant.
LEMMA InvKeepsApart ==
  ASSUME DashInv PROVE BotsKeptApart
<1>1. snap # Nothing => snap.bot = botID
  BY DEF DashInv, Snapshot
<1>2. \A f \in Fields : form.val[f][1] \in {botID, Nobody}
  BY DEF DashInv, FormOK
<1>3. ASSUME NEW c \in BagToSet(commands), c.kind = "save"
      PROVE  /\ c.base # Nothing => c.base.bot = c.bot
             /\ \A f \in DOMAIN c.edits : c.edits[f][1] = c.bot
  BY <1>3 DEF DashInv, CommandOK, Snapshot, Typed
<1>4. \A b \in Names, f \in Fields : config[b].vals[f][1] = b
  BY DEF DashInv, ConfigOK
<1> QED BY <1>1, <1>2, <1>3, <1>4 DEF BotsKeptApart

\* What is shown and edited is the selected Bot's, and no configuration ever
\* gets the value of another Bot: a result carries the scope it was asked in
\* and a save the Bot, the snapshot and the edits of its moment (Update,
\* selectBot, saveConfig).
THEOREM BotsAreKeptApart == DashboardSpec => []BotsKeptApart
BY DashInvariance, InvKeepsApart, PTL

\* A value of another client goes only where a save typed over it, or where
\* another client cleared it.
LEMMA StepKeepsOthersWork ==
  ASSUME DashInv, [DashboardNext]_dashboardVars, NEW b \in Names, NEW f \in Fields,
         config[b].vals[f][2] = "other", config'[b].vals[f] # config[b].vals[f]
  PROVE  config'[b].vals[f][2] \in {"typed", "unset"}
<1>1. CASE Saves
  <2>1. PICK c \in BagToSet(commands) : c.kind = "save" /\ Accepts(c) /\ UpdateStored(c)
    <3>1. PICK c \in BagToSet(commands) :
            /\ c.kind = "save"
            /\ (RunSave(c) \/ SaveTimesOut(c) \/ SaveDone(c) \/ SaveFailed(c))
      BY <1>1, CommandOfKind DEF Saves
    <3>2. config' # config
      OBVIOUS
    <3> QED BY <3>1, <3>2 DEF RunSave, SaveTimesOut, SaveDone, SaveFailed, daemon
  <2>2. /\ Revised(c.bot)
        /\ config'[c.bot].vals[f] =
             IF f \in DOMAIN c.edits THEN Typed(c.bot) ELSE config[c.bot].vals[f]
    BY <2>1, Stored
  <2>3. b = c.bot
    BY <2>2 DEF Revised
  <2> QED BY <2>2, <2>3 DEF Typed
<1>2. CASE Others
  <2>1. PICK x \in Names, g \in Fields, v \in {"other", "unset"} : OtherUpdate(x, g, v)
    BY <1>2, DashboardAssumption DEF Others
  <2>2. /\ Revised(x)
        /\ \A y \in Fields : config'[x].vals[y] = IF y = g THEN <<x, v>> ELSE config[x].vals[y]
    BY <2>1, OtherStep
  <2>3. x = b
    BY <2>2 DEF Revised
  <2>4. config[b].vals[f] \in Value /\ config[b].vals \in [Fields -> Value]
        /\ config[b].vals[f][1] = b
    BY DEF DashInv, ConfigOK, Snapshots
  <2>5. g = f /\ config'[b].vals[f] = <<b, v>>
    BY <2>2, <2>3, <2>4
  <2>6. config[b].vals[f] = <<b, "other">>
    BY <2>4 DEF Value
  <2> QED BY <2>5, <2>6
<1>3. ASSUME ~Saves, ~Others PROVE FALSE
  <2>1. CASE Keys \/ Tick
    BY <2>1 DEF Keys, PressRefresh, PressList, LeaveList, PressSave, Choose,
       StartEdit, EndEdit, Tick, daemon
  <2>2. CASE Refreshes
    BY <2>2 DEF Refreshes, ReadConfig, TakeRefresh, daemon
  <2>3. CASE Listings
    BY <2>3 DEF Listings, RunListing, ListingFails, TakeListing, daemon
  <2>4. CASE UNCHANGED dashboardVars
    BY <2>4 DEF dashboardVars, daemon
  <2> QED BY <1>3, <2>1, <2>2, <2>3, <2>4 DEF DashboardNext
<1> QED BY <1>1, <1>2, <1>3

\* A save that the daemon takes changes only what the operator typed: the
\* revision sent is that of the snapshot, and equal revisions are of equal
\* values (Manager.Update, buildBotConfigFromFields).
THEOREM OthersWorkIsNeverUndone == DashboardSpec => OthersWorkStays
<1>1. DashInv /\ [DashboardNext]_dashboardVars =>
        [\A b \in Names, f \in Fields :
          config[b].vals[f][2] = "other" /\ config'[b].vals[f] # config[b].vals[f]
            => config'[b].vals[f][2] \in {"typed", "unset"}]_(dashboardVars)
  BY StepKeepsOthersWork
<1> QED BY <1>1, DashInvariance, PTL DEF DashboardSpec, OthersWorkStays
=============================================================================

----------------------------- MODULE Migration -----------------------------
(***************************************************************************)
(* The offline migrations of a daemon root (internal/migration): Upgrade of *)
(* a version 2 layout, Migrate of a single-Bot layout, and Recover of       *)
(* either after an interruption.  A migration builds the new layout in a    *)
(* sibling stage, exchanges it for the root with two renames, and keeps     *)
(* markers beside the root (sidecars) and in the directories, so that a     *)
(* crash between any two of its steps can be told apart.  Advisory locks    *)
(* belong to a directory, not to its path: they move with a rename.         *)
(* What a layout contains is abstracted to its version and to the work its  *)
(* daemons accepted.                                                        *)
(***************************************************************************)
EXTENDS Naturals, FiniteSets

CONSTANTS
    Original,   \* the directory that is converted
    Stages,     \* the directories MkdirTemp may make: migrations that may begin
    Fresh,      \* the directories a starting daemon may create at the root
    Tools,      \* concurrent runs of the command-line tool
    Starts,     \* of "v2", "v1", "elsewhere", "empty": what there is to convert
    Work,
    Daemon, Archiver, Nobody, None,
    MaxFaults   \* bound on the steps that fail or crash

Dirs == {Original} \cup Stages \cup Fresh
Kinds == {"role", "legacy"}

ASSUME MigrationAssumption ==
    /\ Original \notin Stages \cup Fresh /\ Stages \cap Fresh = {} /\ Fresh # {}
    /\ None \notin Dirs
    /\ {Daemon, Archiver, Nobody} \cap Tools = {}
    /\ Daemon # Archiver /\ Daemon # Nobody /\ Archiver # Nobody
    /\ Starts \subseteq {"v2", "v1", "elsewhere", "empty"} /\ MaxFaults \in Nat

VARIABLES
    where,     \* [Dirs -> the path a directory is at]
    layout,    \* [Dirs -> what the directory holds]
    work,      \* [Dirs -> the work recorded in it]
    mark,      \* [Dirs -> the marker file in it]
    side,      \* [Kinds -> the sidecar beside the root]
    held,      \* [Dirs -> the process that holds its locks]
    tool,      \* [Tools -> the run]
    daemon,    \* the daemon process
    accepted,  \* the work daemons accepted at the root (history)
    faults     \* counts against MaxFaults

vars == <<where, layout, work, mark, side, held, tool, daemon, accepted, faults>>

Fault == faults < MaxFaults /\ faults' = faults + 1

\* the marker: a migration is named by its stage; orig is the directory that
\* becomes its backup, if any
Marker(kind, s, o, status) == [kind |-> kind, id |-> s, orig |-> o, status |-> status]
Statuses == {"preparing", "prepared", "backed-up", "published", "complete", "rolled-back"}
Markers == {Marker(k, s, o, st) : k \in Kinds, s \in Stages, o \in Dirs \cup {None},
                                  st \in Statuses}
NoMark == Marker("none", None, None, "none")

At(place) == {d \in Dirs : where[d] = place}
Root == IF At("root") = {} THEN None ELSE CHOOSE d \in At("root") : TRUE
RootLayout == IF Root = None THEN "absent" ELSE layout[Root]
Final(m) == m.status \in {"none", "complete", "rolled-back"}
MarkOf(d) == IF d = None THEN NoMark ELSE mark[d]

\* the two role markers of a committed layout name the same migration
Agree(m, n) == m.id = n.id /\ m.status = "complete" /\ n.status = "complete"

CheckStartup ==
    LET m == MarkOf(Root)
        r == IF m.kind = "role" THEN m ELSE NoMark
    IN
    /\ Final(side["role"]) /\ Final(r) /\ Final(side["legacy"])
    /\ "complete" \in {side["role"].status, r.status} => Agree(side["role"], r)

Move(d, place) == where' = [where EXCEPT ![d] = place]

Idle == [pc |-> "idle", m |-> NoMark]
\* the transaction lock, taken by every run that changes something
TransactionFree == \A p \in Tools : tool[p].pc \in {"idle", "recover"}
Take(p, ds) == held' = [d \in Dirs |-> IF d \in ds THEN p ELSE held[d]]
Drop(p) == held' = [d \in Dirs |-> IF held[d] = p THEN Nobody ELSE held[d]]
Unheld(ds) == \A d \in ds : held[d] = Nobody
Run(p, pc, m) == tool' = [tool EXCEPT ![p] = [pc |-> pc, m |-> m]]
Finish(p) == Run(p, "idle", NoMark) /\ Drop(p)
With(m, status) == [m EXCEPT !.status = status]

Start(start) ==
    /\ where = [d \in Dirs |->
          CASE d = Original -> IF start \in {"v1", "v2"} THEN "root" ELSE "source"
            [] start = "empty" /\ d = CHOOSE f \in Fresh : TRUE -> "root"
            [] OTHER -> "none"]
    /\ layout = [d \in Dirs |-> IF d = Original THEN IF start = "v2" THEN "v2" ELSE "v1"
                                               ELSE "empty"]

Init ==
    /\ \E start \in Starts : Start(start)
    /\ work = [d \in Dirs |-> {}]
    /\ mark = [d \in Dirs |-> NoMark]
    /\ side = [k \in Kinds |-> NoMark]
    /\ held = [d \in Dirs |-> Nobody]
    /\ tool = [p \in Tools |-> Idle]
    /\ daemon = [pc |-> "off", dir |-> None]
    /\ accepted = {} /\ faults = 0

(***************************************************************************)
(* The beginning of a migration.                                            *)
(***************************************************************************)

\* lockLayout refuses a directory without the tree of a layout
Lockable(d) == layout[d] \notin {"empty", "bare"} /\ held[d] = Nobody

\* Upgrade, up to its "preparing" sidecar
UpgradeBegin(p, s) ==
    /\ tool[p] = Idle /\ TransactionFree /\ CheckStartup
    /\ RootLayout = "v2" /\ Lockable(Root)
    /\ where[s] = "none" /\ Move(s, "stage")
    /\ Take(p, {Root})
    /\ LET m == Marker("role", s, Root, "preparing") IN
       side' = [side EXCEPT !["role"] = m] /\ Run(p, "copy", m)
    /\ UNCHANGED <<layout, work, mark, daemon, accepted, faults>>

\* Mutant: Migrate does not lock the layout it copies.
MigrateBeginUnlocked(p, s) ==
    /\ tool[p] = Idle /\ TransactionFree /\ CheckStartup
    /\ layout[Original] = "v1" /\ where[Original] \in {"root", "source"}
    /\ Root = Original \/ RootLayout \in {"absent", "empty"}
    /\ where[s] = "none" /\ Move(s, "stage")
    /\ Take(p, {s})
    /\ Run(p, "copy", Marker("legacy", s, Root, "preparing"))
    /\ UNCHANGED <<layout, work, mark, side, daemon, accepted, faults>>

\* Migrate: the target is the legacy root itself, an empty directory, or absent
MigrateBegin(p, s) ==
    /\ tool[p] = Idle /\ TransactionFree /\ CheckStartup
    /\ layout[Original] = "v1" /\ where[Original] \in {"root", "source"}
    /\ Root = Original \/ RootLayout \in {"absent", "empty"}
    /\ Unheld({Original, Root} \ {None})
    /\ where[s] = "none" /\ Move(s, "stage")
    /\ Take(p, {Original, Root, s} \ {None})
    \* the lock of an empty target makes a file in it
    /\ layout' = [d \in Dirs |-> IF d = Root /\ layout[d] = "empty" THEN "bare" ELSE layout[d]]
    /\ Run(p, "copy", Marker("legacy", s, Root, "preparing"))
    /\ UNCHANGED <<work, mark, side, daemon, accepted, faults>>

\* copyTree: whatever the source holds is in the copy, and on the disk
Copied(m) == work' = [work EXCEPT ![m.id] = work[Original]]

\* validateRoleLayout: the catalog, every Bot's state and its references agree
Whole(d) == layout[d] = "v3"

\* Upgrade: the copy, the conversion of every Bot, the validation of the result
ConvertRoles(p) ==
    LET m == tool[p].m IN
    /\ tool[p].pc = "copy" /\ m.kind = "role"
    /\ layout' = [layout EXCEPT ![m.id] = "v3"]
    /\ Copied(m)
    /\ Take(p, {m.id})
    /\ Run(p, "mark", With(m, "prepared"))
    /\ UNCHANGED <<where, mark, side, daemon, accepted, faults>>

\* Migrate: the backup, and the tree of the Bot with its credentials, sessions,
\* journal and transfers at their new places
ConvertLegacy(p) ==
    LET m == tool[p].m IN
    /\ tool[p].pc = "copy" /\ m.kind = "legacy"
    /\ layout' = [layout EXCEPT ![m.id] = "v3"]
    /\ Copied(m)
    /\ Run(p, "side", With(m, "prepared"))
    /\ UNCHANGED <<where, mark, side, held, daemon, accepted, faults>>

(***************************************************************************)
(* Markers.  writeRolePhase writes the one in the directory and then the    *)
(* sidecar; Migrate does so for "complete" and the other way round for      *)
(* "prepared".                                                              *)
(***************************************************************************)

WriteMark(p) ==
    LET m == tool[p].m
        d == IF m.status \in {"published", "complete"} THEN Root ELSE m.id
    IN
    /\ tool[p].pc = "mark" /\ d # None
    /\ mark' = [mark EXCEPT ![d] = m]
    /\ Run(p, IF m.kind = "legacy" /\ m.status = "prepared" THEN "out" ELSE "side", m)
    /\ UNCHANGED <<where, layout, work, side, held, daemon, accepted, faults>>

AfterSide(p, m) ==
    \/ Final(m) /\ Finish(p)
    \/ /\ m.status = "published" /\ Run(p, "mark", With(m, "complete"))
       /\ UNCHANGED held
    \/ /\ m.status \in {"prepared", "backed-up"}
       /\ Run(p, CASE m.kind = "legacy" -> "mark"
                   [] m.kind = "role" /\ m.status = "prepared" -> "out"
                   [] OTHER -> "in", m)
       /\ UNCHANGED held

WriteSide(p) ==
    LET m == tool[p].m IN
    /\ tool[p].pc = "side"
    /\ side' = [side EXCEPT ![m.kind] = m]
    /\ AfterSide(p, m)
    /\ UNCHANGED <<where, layout, work, mark, daemon, accepted, faults>>

(***************************************************************************)
(* The two renames.                                                         *)
(***************************************************************************)

\* Mutant: the root is moved again after an interruption.
MoveOutAgain(p) ==
    LET m == tool[p].m IN
    /\ tool[p].pc = "out"
    /\ IF m.orig = None THEN UNCHANGED where ELSE Root # None /\ Move(Root, "backup")
    /\ IF m.kind = "role" THEN Run(p, "mark", With(m, "backed-up")) ELSE Run(p, "in", m)
    /\ UNCHANGED <<layout, work, mark, side, held, daemon, accepted, faults>>

\* the root becomes the backup, unless an interrupted run did that already
MoveOut(p) ==
    LET m == tool[p].m IN
    /\ tool[p].pc = "out"
    /\ IF m.orig \in At("backup") \cup {None} THEN UNCHANGED where
       ELSE Root # None /\ Move(Root, "backup")
    /\ IF m.kind = "role" THEN Run(p, "mark", With(m, "backed-up")) ELSE Run(p, "in", m)
    /\ UNCHANGED <<layout, work, mark, side, held, daemon, accepted, faults>>

\* the stage becomes the root: rename also replaces an empty directory, but the
\* upgrade looks first
MoveIn(p) ==
    LET m == tool[p].m IN
    /\ tool[p].pc = "in" /\ where[m.id] = "stage"
    /\ RootLayout \in IF m.kind = "legacy" THEN {"absent", "empty"} ELSE {"absent"}
    /\ where' = [d \in Dirs |-> CASE d = m.id -> "root" [] d = Root -> "none"
                                  [] OTHER -> where[d]]
    /\ Run(p, "mark", With(m, IF m.kind = "role" THEN "published" ELSE "complete"))
    /\ UNCHANGED <<layout, work, mark, side, held, daemon, accepted, faults>>

\* Migrate puts the original back when its second rename fails
MoveBack(p) ==
    LET m == tool[p].m IN
    /\ tool[p].pc = "in" /\ m.kind = "legacy" /\ m.orig # None /\ Root = None
    /\ Move(m.orig, "root")
    /\ Finish(p) /\ Fault
    /\ UNCHANGED <<layout, work, mark, side, daemon, accepted>>

\* an error return or a crash, anywhere: what was written stays
Abort(p) ==
    /\ tool[p] # Idle
    /\ Finish(p) /\ Fault
    /\ UNCHANGED <<where, layout, work, mark, side, daemon, accepted>>

\* an error return the state of the disk forces
Refuse(p) ==
    LET m == tool[p].m IN
    /\ \/ tool[p].pc = "in" /\ RootLayout # "absent" /\ (m.kind = "role" \/ RootLayout # "empty")
       \/ tool[p].pc = "restore" /\ RootLayout \notin {"absent", "empty"}
    /\ Finish(p)
    /\ UNCHANGED <<where, layout, work, mark, side, daemon, accepted, faults>>

(***************************************************************************)
(* Recover.                                                                 *)
(***************************************************************************)

\* the root is the stage of this migration, whatever its sidecar says
Migrated(m) == MarkOf(Root).kind = m.kind /\ MarkOf(Root).id = m.id

\* recoverRoles: an upgrade that is prepared is finished, an earlier one is
\* given up.
RecoverRole(p) ==
    LET m == side["role"]
        present == ({Root} \cup {d \in {m.id, m.orig} : where[d] \in {"stage", "backup"}})
                     \ {None}
    IN
    /\ tool[p] = Idle /\ TransactionFree /\ ~Final(m)
    /\ Unheld(present) /\ Take(p, present)
    /\ \A d \in present \ {m.id} : Lockable(d)
    /\ \/ /\ m.status = "preparing" /\ Root # None
          /\ Run(p, "side", With(m, "rolled-back"))
       \/ /\ m.status # "preparing" /\ Migrated(m)
          /\ Whole(Root) /\ Run(p, "mark", With(m, "complete"))
       \/ /\ m.status # "preparing" /\ ~Migrated(m)
          /\ where[m.id] = "stage" /\ Whole(m.id)
          /\ Run(p, IF m.status = "prepared" THEN "out" ELSE "in", m)
    /\ UNCHANGED <<where, layout, work, mark, side, daemon, accepted, faults>>

\* Recover of a legacy migration reads the sidecar before it has the lock
RecoverRead(p) ==
    /\ tool[p] = Idle /\ side["role"] = NoMark
    /\ ~Final(side["legacy"])
    /\ Run(p, "recover", side["legacy"])
    /\ UNCHANGED <<where, layout, work, mark, side, held, daemon, accepted, faults>>

Committed == MarkOf(Root).kind = "legacy" /\ MarkOf(Root).status = "complete"

SetAside == IF Root = None THEN UNCHANGED where ELSE Move(Root, "aside")

\* Mutant: the sidecar is believed although the root says "complete".
RecoverLegacyBySide(p) ==
    LET m == tool[p].m  present == {m.orig, Root} \ {None} IN
    /\ tool[p].pc = "recover" /\ TransactionFree
    /\ Unheld(present) /\ Take(p, present)
    /\ IF m.orig \in At("backup") THEN Run(p, "restore", m)
                                   ELSE Run(p, "side", With(m, "rolled-back"))
    /\ IF m.orig = None \/ m.orig \in At("backup") THEN SetAside ELSE UNCHANGED where
    /\ UNCHANGED <<layout, work, mark, side, daemon, accepted, faults>>

RecoverLegacy(p) ==
    LET m == tool[p].m  present == {m.orig, Root} \ {None} IN
    /\ tool[p].pc = "recover" /\ TransactionFree
    /\ \/ /\ Committed /\ Run(p, "side", mark[Root])
          /\ UNCHANGED <<where, held>>
       \/ /\ ~Committed /\ m.orig = None
          /\ Unheld(present) /\ Take(p, present)
          /\ SetAside /\ Run(p, "side", With(m, "rolled-back"))
       \/ /\ ~Committed /\ m.orig \notin At("backup") \cup {None}
          /\ Root # None /\ MarkOf(Root) = NoMark
          /\ Run(p, "side", With(m, "rolled-back"))
          /\ UNCHANGED <<where, held>>
       \/ /\ ~Committed /\ m.orig \in At("backup")
          /\ Unheld(present) /\ Take(p, present)
          /\ SetAside /\ Run(p, "restore", m)
    /\ UNCHANGED <<layout, work, mark, side, daemon, accepted, faults>>

Restore(p) ==
    LET m == tool[p].m IN
    /\ tool[p].pc = "restore"
    /\ RootLayout \in {"absent", "empty"}
    /\ where' = [d \in Dirs |-> CASE d = m.orig -> "root" [] d = Root -> "none"
                                  [] OTHER -> where[d]]
    /\ Run(p, "side", With(m, "rolled-back"))
    /\ UNCHANGED <<layout, work, mark, side, held, daemon, accepted, faults>>

(***************************************************************************)
(* The daemon: NewDaemon checks the markers before it creates the root and  *)
(* again under its lock.  The daemon of an old layout is an earlier release *)
(* that knows of the lock only: that the operator does not start it while a *)
(* migration is unfinished is an assumption, which Recover does not check.  *)
(***************************************************************************)

DaemonIs(pc, d) == daemon' = [pc |-> pc, dir |-> d]
toolVars == <<mark, side, tool, faults>>

DaemonCheck ==
    /\ daemon.pc = "off" /\ CheckStartup
    /\ RootLayout \notin {"v1", "v2"}
    /\ MarkOf(Root).kind = "legacy" => Committed
    /\ DaemonIs("checked", None)
    /\ UNCHANGED <<where, layout, work, held, accepted, toolVars>>

EnsureRoot(f) ==
    /\ daemon.pc = "checked"
    /\ \/ Root # None /\ UNCHANGED where
       \/ Root = None /\ where[f] = "none" /\ Move(f, "root")
    /\ DaemonIs("ensured", None)
    /\ UNCHANGED <<layout, work, held, accepted, toolVars>>

LockRoot ==
    /\ daemon.pc = "ensured"
    /\ Root # None /\ Unheld({Root})
    /\ Take(Daemon, {Root})
    /\ layout' = [layout EXCEPT ![Root] = IF @ = "empty" THEN "bare" ELSE @]
    /\ DaemonIs("locked", Root)
    /\ UNCHANGED <<where, work, accepted, toolVars>>

\* Mutant: the markers are not read again under the lock.
UpUnchecked ==
    /\ daemon.pc = "locked"
    /\ layout[daemon.dir] \in {"bare", "v3"}
    /\ layout' = [layout EXCEPT ![daemon.dir] = "v3"]
    /\ DaemonIs("up", daemon.dir)
    /\ UNCHANGED <<where, work, held, accepted, toolVars>>

Up ==
    /\ daemon.pc = "locked"
    /\ CheckStartup
    /\ layout[daemon.dir] \in {"bare", "v3"}
    /\ layout' = [layout EXCEPT ![daemon.dir] = "v3"]
    /\ DaemonIs("up", daemon.dir)
    /\ UNCHANGED <<where, work, held, accepted, toolVars>>

OldUp ==
    /\ daemon.pc = "off" /\ \A k \in Kinds : Final(side[k])
    /\ layout[Original] \in {"v1", "v2"} /\ where[Original] \in {"root", "source"}
    /\ Unheld({Original}) /\ Take(Daemon, {Original})
    /\ DaemonIs("old", Original)
    /\ UNCHANGED <<where, layout, work, accepted, toolVars>>

Accept(w) ==
    LET d == IF daemon.pc = "up" THEN Root ELSE daemon.dir IN
    /\ daemon.pc \in {"up", "old"}
    /\ d # None /\ w \notin accepted
    /\ work' = [work EXCEPT ![d] = @ \cup {w}]
    /\ accepted' = IF d = Root THEN accepted \cup {w} ELSE accepted
    /\ UNCHANGED <<where, layout, held, daemon, toolVars>>

\* an orderly stop, a refused start or a crash
Stop ==
    /\ daemon.pc # "off"
    /\ DaemonIs("off", None) /\ Drop(Daemon)
    /\ UNCHANGED <<where, layout, work, accepted, toolVars>>

\* External: the operator removes the root without a layout that a refused start
\* has left in the way of an upgrade (Recover of a legacy migration sets it aside)
Tidy ==
    /\ RootLayout \in {"empty", "bare"} /\ Unheld({Root})
    /\ ~Final(side["role"])
    /\ Move(Root, "none")
    /\ UNCHANGED <<layout, work, held, daemon, accepted, toolVars>>

ToolStep(p) ==
    \/ ConvertRoles(p) \/ ConvertLegacy(p) \/ WriteMark(p) \/ WriteSide(p) \/ MoveOut(p) \/ MoveIn(p) \/ Refuse(p)
    \/ RecoverRole(p) \/ RecoverRead(p) \/ RecoverLegacy(p) \/ Restore(p)

Next ==
    \/ \E p \in Tools, s \in Stages : UpgradeBegin(p, s) \/ MigrateBegin(p, s)
    \/ \E p \in Tools : ToolStep(p) \/ MoveBack(p) \/ Abort(p)
    \/ DaemonCheck \/ LockRoot \/ Up \/ OldUp \/ Stop \/ Tidy
    \/ \E f \in Fresh : EnsureRoot(f)
    \/ \E w \in Work : Accept(w)

\* The operator runs the tool until it ends, with the daemon stopped, and
\* clears away what a refused start left.
Fairness ==
    /\ \A p \in Tools : WF_vars(ToolStep(p))
    /\ WF_vars(Stop) /\ WF_vars(Tidy)

Spec == Init /\ [][Next]_vars
LiveSpec == Spec /\ Fairness

(***************************************************************************)
(* Properties.                                                              *)
(***************************************************************************)

TypeOK ==
    /\ where \in [Dirs -> {"none", "source", "root", "stage", "backup", "aside"}]
    /\ layout \in [Dirs -> {"empty", "bare", "v1", "v2", "v3"}]
    /\ work \in [Dirs -> SUBSET Work]
    /\ mark \in [Dirs -> Markers \cup {NoMark}]
    /\ side \in [Kinds -> Markers \cup {NoMark}]
    /\ held \in [Dirs -> Tools \cup {Daemon, Archiver, Nobody}]
    /\ tool \in [Tools -> [pc : {"idle", "copy", "mark", "side", "out", "in", "recover",
                                 "restore"}, m : Markers \cup {NoMark}]]
    /\ daemon \in [pc : {"off", "checked", "ensured", "locked", "up", "old"},
                   dir : Dirs \cup {None}]
    /\ accepted \subseteq Work
    /\ Cardinality(At("root")) <= 1

\* Whatever is interrupted, given up and begun again: a daemon that is up finds
\* all the work that any daemon before it has accepted at this root.  The
\* exception is a root created where the target of a migration was absent.
Displaced == UNION {work[f] : f \in {f \in Fresh : where[f] = "aside"}}
WorkIsCarried ==
    daemon.pc = "up" => accepted \subseteq work[daemon.dir] \cup Displaced

\* A daemon is up on the directory that is at the root, and that directory is a
\* whole layout whose markers say so; nobody renames it under the daemon.
UpIsCommitted ==
    daemon.pc = "up" =>
        /\ where[daemon.dir] = "root" /\ layout[daemon.dir] = "v3"
        /\ held[daemon.dir] = Daemon
        /\ Final(mark[daemon.dir])

\* A directory whose migration is complete never leaves the root again, and its
\* marker is never taken back: no recovery rolls a committed migration back.
CompleteIsFinal ==
    [][\A d \in Dirs :
          where[d] = "root" /\ mark[d].status = "complete"
             => where'[d] = "root" /\ mark'[d] = mark[d]]_vars

\* An interrupted migration does not block the daemon for ever: Recover brings
\* either the old layout or the new one into service.
Recovers == (\E k \in Kinds : ~Final(side[k])) ~> CheckStartup
=============================================================================

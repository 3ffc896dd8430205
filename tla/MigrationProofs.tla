-------------------------- MODULE MigrationProofs --------------------------
(***************************************************************************)
(* Proofs about Migration and BotArchive: what is accepted is carried over, *)
(* a committed layout stays, and a daemon is up only on one that is whole,  *)
(* for any number of directories, tools and interruptions.                  *)
(***************************************************************************)
EXTENDS BotArchive, FiniteSetTheorems, TLAPS

\* The layout of the original decides which migration there is, where it lies
\* whether it is to be replaced: it never moves from another place.
Kind == IF layout[Original] = "v2" THEN "role" ELSE "legacy"
Rooted == where[Original] # "source"
Sidecar == side[Kind]

Complete(d) == mark[d].status = "complete"
Done == \E s \in Stages : where[s] = "root" /\ Complete(s)
Uncommitted == \E s \in Stages : where[s] = "root" /\ ~Complete(s)

Points == {"idle", "copy", "mark", "side", "out", "in", "recover", "restore"}
Runs == [pc : Points, m : Markers \cup {NoMark}]
Parting == {"idle", "import", "export", "published", "granted"}

\* The type of the state, and that at most one directory is at the root.
Typed ==
    /\ where \in [Dirs -> {"none", "source", "root", "stage", "backup", "aside"}]
    /\ layout \in [Dirs -> {"empty", "bare", "v1", "v2", "v3"}]
    /\ work \in [Dirs -> SUBSET Work]
    /\ mark \in [Dirs -> Markers \cup {NoMark}]
    /\ side \in [Kinds -> Markers \cup {NoMark}]
    /\ held \in [Dirs -> Tools \cup {Daemon, Archiver, Nobody}]
    /\ tool \in [Tools -> Runs]
    /\ daemon \in [pc : {"off", "checked", "ensured", "locked", "up", "old"},
                   dir : Dirs \cup {None}]
    /\ accepted \subseteq Work
    /\ bot \in [Dirs -> SUBSET Parts]
    /\ job \in [pc : Parting, dir : Dirs \cup {None}]
OneRoot == \A d, e \in Dirs : where[d] = "root" /\ where[e] = "root" => d = e

\* Where a directory can be, and what it can hold there.
PlacesOK ==
    /\ where[Original] \in {"root", "backup", "source"} /\ layout[Original] \in {"v1", "v2"}
    /\ layout[Original] = "v2" => Rooted
    /\ \A s \in Stages : where[s] \in {"none", "stage", "root", "aside"}
    /\ \A f \in Fresh : where[f] \in {"none", "root", "backup", "aside"}
    /\ \A d \in Dirs \ {Original} : layout[d] \in {"empty", "bare", "v3"}
    /\ \A d \in Dirs : layout[d] \in {"empty", "bare"} => work[d] = {}
    /\ \A s \in Stages : where[s] = "root" => layout[s] = "v3" /\ mark[s] # NoMark
    /\ \A d \in Dirs : Complete(d) => where[d] = "root"

\* Markers speak of the one migration of this root, those in a directory of it.
Proper(m) ==
    /\ m \in Markers /\ m.kind = Kind
    /\ IF Rooted THEN m.orig = Original ELSE m.orig \in Fresh \cup {None}
MarkersOK ==
    /\ \A k \in Kinds : side[k] # NoMark => k = Kind /\ Proper(side[k])
    /\ \A d \in Dirs : mark[d] # NoMark => d \in Stages /\ mark[d].id = d /\ Proper(mark[d])
    /\ \A p \in Tools : IF tool[p].pc = "idle" THEN tool[p] = Idle ELSE Proper(tool[p].m)

\* The locks of the daemon and of the archive command are on what is at the root.
HoldersOK ==
    /\ daemon.pc \in {"locked", "up"} =>
          /\ daemon.dir # None /\ held[daemon.dir] = Daemon
          /\ where[daemon.dir] = "root" /\ layout[daemon.dir] # "empty"
    /\ daemon.pc = "old" =>
          daemon.dir = Original /\ held[Original] = Daemon /\ Final(Sidecar)
    /\ job.dir # None =>
          /\ held[job.dir] = Archiver
          /\ where[job.dir] = "root" /\ layout[job.dir] # "empty"

\* Which directory holds what was accepted: the committed one, before that the
\* original, or the one a daemon made where there was none.
Keeper(d) ==
    \/ d \in Stages /\ where[d] = "root" /\ Complete(d)
    \/ d = Original /\ Rooted /\ ~Done
    \/ d \in Fresh /\ ~Rooted /\ where[d] = "root"
Kept(w) == \E d \in Dirs : w \in work[d] /\ (Keeper(d) \/ (d \in Fresh /\ where[d] = "aside"))
AcceptedOK == \A w \in accepted : Kept(w)

\* A daemon is up on the keeper, and after an upgrade only when it is over.
UpOK ==
    daemon.pc = "up" =>
        /\ layout[daemon.dir] = "v3" /\ Keeper(daemon.dir)
        /\ Kind = "role" => Final(Sidecar)

\* While the root is taken out or not committed, a sidecar says so.
SettledOK ==
    Uncommitted \/ (where[Original] = "backup" /\ ~Done) => ~Final(Sidecar)

\* What was accepted is in the copy too.
InCopy(s) == \A w \in accepted : w \in work[s] \/ w \in Displaced

\* What an upgrade's sidecar says of the two directories.
RoleSideOK ==
    Kind = "role" =>
        LET m == Sidecar IN
        /\ m.status = "preparing" => where[Original] = "root"
        /\ m.status \in {"prepared", "backed-up", "published"} =>
              layout[m.id] = "v3" /\ mark[m.id] # NoMark /\ InCopy(m.id)
        /\ m.status = "prepared" => where[m.id] = "stage"
        /\ m.status = "backed-up" =>
              where[Original] = "backup" /\ where[m.id] \in {"stage", "root"}
        /\ m.status = "published" => where[m.id] = "root"

(***************************************************************************)
(* What the run that holds the transaction lock has established.            *)
(***************************************************************************)

Active(p) == tool[p].pc \notin {"idle", "recover"}
OneActive == \A p, q \in Tools : Active(p) /\ Active(q) => p = q

Is(p, pc, status) == tool[p].pc = pc /\ tool[p].m.status = status
OrigHeld(p) ==
    LET o == tool[p].m.orig IN
    o # None => /\ where[o] = "root" /\ held[o] = p
                /\ o \in Fresh => layout[o] \in {"empty", "bare"}

LegacyOK(p) ==
    LET m == tool[p].m IN
    \/ tool[p].pc = "recover"
    \/ /\ Is(p, "copy", "preparing") \/ Is(p, "side", "prepared")
       /\ where[m.id] = "stage" /\ Final(Sidecar) /\ held[Original] = p /\ OrigHeld(p)
    \/ /\ Is(p, "mark", "prepared") \/ (Is(p, "out", "prepared") /\ mark[m.id] # NoMark)
       /\ where[m.id] = "stage" /\ ~Final(Sidecar) /\ OrigHeld(p)
    \/ /\ Is(p, "in", "prepared") /\ mark[m.id] # NoMark
       /\ where[m.id] = "stage" /\ ~Final(Sidecar) /\ (Rooted => ~Done)
       /\ m.orig # None => where[m.orig] = "backup"
    \/ Is(p, "mark", "complete") /\ where[m.id] = "root" /\ ~Complete(m.id)
    \/ Is(p, "side", "complete") /\ mark[m.id] = m
    \/ tool[p].pc = "restore" /\ m.orig # None /\ where[m.orig] = "backup" /\ ~Done /\ ~Uncommitted
    \/ Is(p, "side", "rolled-back") /\ ~Uncommitted /\ (Rooted => where[Original] = "root")

RoleOK(p) ==
    LET m == tool[p].m  sd == Sidecar IN
    /\ m.id = sd.id
    /\ \/ /\ \/ Is(p, "copy", "preparing") \/ Is(p, "mark", "prepared")
             \/ Is(p, "side", "prepared") /\ mark[m.id] # NoMark
          /\ sd.status = "preparing" /\ where[m.id] = "stage" /\ held[Original] = p
       \/ /\ Is(p, "out", "prepared") /\ sd.status = "prepared"
          /\ where[Original] = "backup" \/ (where[Original] = "root" /\ held[Original] = p)
       \/ /\ Is(p, "mark", "backed-up") \/ Is(p, "side", "backed-up")
          /\ sd.status = "prepared" /\ where[Original] = "backup"
       \/ Is(p, "in", "backed-up") /\ sd.status = "backed-up"
       \/ /\ (Is(p, "mark", "published") /\ ~Complete(m.id)) \/ Is(p, "side", "published")
          /\ sd.status = "backed-up" /\ where[m.id] = "root"
       \/ /\ Is(p, "mark", "complete") /\ where[m.id] = "root"
          /\ sd.status \in {"backed-up", "published"}
       \/ Is(p, "side", "complete") /\ mark[m.id] = m
       \/ Is(p, "side", "rolled-back") /\ sd.status = "preparing"

Forward(p) == tool[p].pc \in {"mark", "side", "out", "in"} /\ tool[p].m.status # "rolled-back"
CopyOK(p) ==
    Forward(p) =>
        /\ layout[tool[p].m.id] = "v3"
        /\ Rooted \/ where[tool[p].m.id] = "root" => InCopy(tool[p].m.id)

ToolOK(p) ==
    tool[p].pc # "idle" =>
        /\ Kind = "legacy" => LegacyOK(p)
        /\ Kind = "role" => RoleOK(p)
        /\ CopyOK(p)

\* What the archive command has published so far.
JobOK ==
    /\ job.pc = "idle" => job.dir = None
    /\ job.pc \in {"published", "granted"} =>
          job.dir # None /\ job.dir # Original /\ "dir" \in bot[job.dir]
    /\ job.pc = "granted" => "content" \in bot[job.dir]
    /\ \A d \in Dirs : "listed" \in bot[d] => {"dir", "content"} \subseteq bot[d]
    /\ "exported" \in bundles => \E d \in Dirs : "listed" \in bot[d]

StateInv == Typed /\ OneRoot /\ PlacesOK /\ MarkersOK
RunInv == OneActive /\ RoleSideOK /\ \A p \in Tools : ToolOK(p)
LayoutInv == HoldersOK /\ UpOK /\ SettledOK /\ AcceptedOK
IInv == StateInv /\ RunInv /\ LayoutInv /\ JobOK

-----------------------------------------------------------------------------
(***************************************************************************)
(* Directories, the root and markers.                                       *)
(***************************************************************************)

LEMMA Names ==
  /\ Original \in Dirs /\ Stages \subseteq Dirs /\ Fresh \subseteq Dirs /\ None \notin Dirs
  /\ Dirs = {Original} \cup Stages \cup Fresh
  /\ Original \notin Stages /\ Original \notin Fresh /\ \A s \in Stages : s \notin Fresh
  /\ \A p \in Tools : p # Daemon /\ p # Archiver /\ p # Nobody
  /\ Daemon # Archiver /\ Daemon # Nobody /\ Archiver # Nobody
BY MigrationAssumption DEF Dirs

LEMMA RootIs ==
  ASSUME OneRoot
  PROVE  /\ Root = None => \A d \in Dirs : where[d] # "root"
         /\ Root # None => Root \in Dirs /\ where[Root] = "root"
         /\ \A d \in Dirs : where[d] = "root" => Root = d
BY Names DEF Root, At, OneRoot

LEMMA MarkersAre == Markers = [kind : Kinds, id : Stages, orig : Dirs \cup {None}, status : Statuses]
<1>1. ASSUME NEW m \in Markers
      PROVE  m \in [kind : Kinds, id : Stages, orig : Dirs \cup {None}, status : Statuses]
  <2>1. PICK k \in Kinds, s \in Stages, o \in Dirs \cup {None}, st \in Statuses :
               m = Marker(k, s, o, st)
    BY DEF Markers
  <2> QED
    BY <2>1 DEF Marker
<1>2. ASSUME NEW m \in [kind : Kinds, id : Stages, orig : Dirs \cup {None}, status : Statuses]
      PROVE  m \in Markers
  <2>1. m = Marker(m.kind, m.id, m.orig, m.status)
    BY DEF Marker
  <2> QED
    BY <2>1 DEF Markers
<1> QED
  BY <1>1, <1>2

LEMMA MarkerFields ==
  ASSUME NEW m \in Markers
  PROVE  /\ m.kind \in Kinds /\ m.id \in Stages /\ m.orig \in Dirs \cup {None} /\ m.status \in Statuses
         /\ m # NoMark
BY MarkersAre DEF NoMark, Marker, Kinds

LEMMA MarkerEqual ==
  ASSUME NEW m \in Markers, NEW n \in Markers, m.kind = n.kind, m.id = n.id,
         m.orig = n.orig, m.status = n.status
  PROVE  m = n
BY MarkersAre

LEMMA MarkerWith ==
  ASSUME NEW m \in Markers, NEW status \in Statuses
  PROVE  /\ With(m, status) \in Markers
         /\ With(m, status).kind = m.kind /\ With(m, status).id = m.id
         /\ With(m, status).orig = m.orig /\ With(m, status).status = status
<1>1. m \in [kind : Kinds, id : Stages, orig : Dirs \cup {None}, status : Statuses]
  BY MarkersAre
<1> QED
  BY <1>1, MarkersAre DEF With

LEMMA MarkerNew ==
  ASSUME NEW kind \in Kinds, NEW s \in Stages, NEW o \in Dirs \cup {None}, NEW status \in Statuses
  PROVE  /\ Marker(kind, s, o, status) \in Markers
         /\ Marker(kind, s, o, status).kind = kind /\ Marker(kind, s, o, status).id = s
         /\ Marker(kind, s, o, status).orig = o /\ Marker(kind, s, o, status).status = status
BY MarkersAre DEF Marker

LEMMA NoMarkIs == /\ NoMark \notin Markers /\ NoMark.status = "none" /\ NoMark.kind = "none" /\ Final(NoMark)
BY MarkersAre DEF NoMark, Marker, Final, Kinds

\* The markers that the state holds are markers of the one migration.
LEMMA MarkersHeld ==
  ASSUME Typed, MarkersOK
  PROVE  /\ \A p \in Tools : tool[p].pc # "idle" => tool[p].m \in Markers /\ Proper(tool[p].m)
         /\ \A d \in Dirs : mark[d] # NoMark => mark[d] \in Markers /\ Proper(mark[d])
         /\ \A k \in Kinds : side[k] # NoMark => side[k] \in Markers /\ Proper(side[k])
         /\ \A k \in Kinds : ~Final(side[k]) => side[k] # NoMark
         /\ \A d \in Dirs : Complete(d) => mark[d] # NoMark
         /\ Kind \in Kinds
BY NoMarkIs DEF MarkersOK, Proper, Complete, Kind, Kinds

-----------------------------------------------------------------------------
(***************************************************************************)
(* The steps of the daemon and of the archive command.                      *)
(***************************************************************************)

\* At most one of Fresh moves, to the root only when nothing is there.
OneMoves ==
    \E f \in Fresh :
       /\ \A d \in Dirs \ {f} : where'[d] = where[d]
       /\ where'[f] = "root" => where[f] = "root" \/ \A d \in Dirs : where[d] # "root"

\* They leave the original, the stages, the markers and the tools alone, as well as
\* what a tool has locked; what they do at the root is to one of Fresh.
Beside ==
    /\ UNCHANGED <<mark, side, tool>>
    /\ layout'[Original] = layout[Original] /\ where'[Original] = where[Original]
    /\ \A s \in Stages : where'[s] = where[s] /\ (layout[s] = "v3" => layout'[s] = "v3")
    /\ \A d \in Dirs : where[d] \in {"backup", "aside"} => where'[d] = where[d]
    /\ \A p \in Tools, d \in Dirs :
          held[d] = p => /\ held'[d] = p /\ layout'[d] = layout[d]
                         /\ where[d] = "root" => where'[d] = "root"
    /\ OneMoves

LEMMA BesideSame ==
  ASSUME Beside
  PROVE  /\ Kind' = Kind /\ Rooted' = Rooted /\ Sidecar' = Sidecar
         /\ \A d \in Dirs : Complete(d)' = Complete(d)
         /\ Done' = Done /\ Uncommitted' = Uncommitted
         /\ \A m : Proper(m)' = Proper(m)
<1>1. Kind' = Kind /\ Rooted' = Rooted
  BY DEF Beside, Kind, Rooted
<1>2. Sidecar' = Sidecar /\ \A d \in Dirs : Complete(d)' = Complete(d)
  BY <1>1 DEF Beside, Sidecar, Complete
<1>3. Done' = Done /\ Uncommitted' = Uncommitted
  BY <1>2, Names DEF Beside, Done, Uncommitted
<1>4. \A m : Proper(m)' = Proper(m)
  BY <1>1 DEF Proper
<1> QED
  BY <1>1, <1>2, <1>3, <1>4

LEMMA BesideState ==
  ASSUME StateInv, SettledOK, OneActive, Beside
  PROVE  OneRoot' /\ MarkersOK' /\ SettledOK' /\ OneActive'
<1>1. OneRoot'
  <2>1. PICK f \in Fresh :
               /\ \A d \in Dirs \ {f} : where'[d] = where[d]
               /\ where'[f] = "root" => where[f] = "root" \/ \A d \in Dirs : where[d] # "root"
    BY DEF Beside, OneMoves
  <2> QED
    BY <2>1 DEF StateInv, OneRoot
<1>2. MarkersOK'
  <2>1. /\ \A k \in Kinds : side'[k] = side[k]
        /\ \A d \in Dirs : mark'[d] = mark[d]
        /\ \A p \in Tools : tool'[p] = tool[p]
    BY DEF Beside
  <2> QED
    BY <2>1, BesideSame DEF StateInv, MarkersOK
<1>3. SettledOK' /\ OneActive'
  BY BesideSame DEF SettledOK, OneActive, Active, Beside
<1> QED
  BY <1>1, <1>2, <1>3

\* What a run has established stays, if the copy still holds what was accepted.
LEMMA BesideTool ==
  ASSUME StateInv, Beside, NEW p \in Tools, ToolOK(p),
         \A s \in Stages :
            s = tool[p].m.id /\ Forward(p) /\ (Rooted \/ where[s] = "root") /\ InCopy(s)
              => InCopy(s)'
  PROVE  ToolOK(p)'
<1> SUFFICES ASSUME tool[p].pc # "idle" PROVE ToolOK(p)'
  BY DEF Beside, ToolOK
<1> DEFINE m == tool[p].m
<1>1. m \in Markers /\ m.id \in Stages /\ m.orig \in Dirs \cup {None} /\ m.id \in Dirs
  BY MarkersHeld, MarkerFields, Names DEF StateInv
<1>2. /\ tool' = tool /\ mark' = mark /\ where'[m.id] = where[m.id] /\ where'[Original] = where[Original]
      /\ held[Original] = p => held'[Original] = p
      /\ m.orig # None /\ where[m.orig] = "backup" => where'[m.orig] = "backup"
  BY <1>1, Names DEF Beside
<1>3. OrigHeld(p) => OrigHeld(p)'
  BY <1>1, <1>2, Names DEF Beside, OrigHeld
<1>4. CopyOK(p)'
  <2>1. PICK s \in Stages : s = m.id
    BY <1>1
  <2>2. Forward(p) => layout[s] = "v3" /\ (Rooted \/ where[s] = "root" => InCopy(s))
    BY <2>1 DEF ToolOK, CopyOK
  <2>3. layout[s] = "v3" => layout'[s] = "v3"
    BY DEF Beside
  <2>4. Forward(p)' = Forward(p)
    BY <1>2 DEF Forward
  <2> QED
    BY <1>2, <2>1, <2>2, <2>3, <2>4, BesideSame DEF CopyOK
<1>5. Kind = "legacy" => LegacyOK(p)'
  BY <1>1, <1>2, <1>3, BesideSame, Names DEF ToolOK, LegacyOK, Is
<1>6. Kind = "role" => RoleOK(p)'
  BY <1>1, <1>2, BesideSame DEF ToolOK, RoleOK, Is
<1> QED
  BY <1>4, <1>5, <1>6, BesideSame DEF ToolOK

LEMMA InCopyKept ==
  ASSUME Beside, UNCHANGED <<work, accepted>>, NEW s, InCopy(s)
  PROVE  InCopy(s)'
<1>1. ASSUME NEW w \in Displaced PROVE w \in Displaced'
  BY Names DEF Beside, Displaced
<1> QED
  BY <1>1 DEF InCopy

\* A step beside the tools that adds no work: what was accepted is still kept, if
\* nothing but an empty directory leaves the root.
LEMMA BesideKeeps ==
  ASSUME StateInv, AcceptedOK, RoleSideOK, \A p \in Tools : ToolOK(p), Beside,
         UNCHANGED <<work, accepted>>,
         \A f \in Fresh : where[f] = "root" /\ where'[f] # "root" => work[f] = {}
  PROVE  AcceptedOK' /\ RoleSideOK' /\ \A p \in Tools : ToolOK(p)'
<1>1. AcceptedOK'
  <2> SUFFICES ASSUME NEW w \in accepted PROVE Kept(w)'
    BY DEF AcceptedOK
  <2>1. PICK d \in Dirs : w \in work[d] /\ (Keeper(d) \/ (d \in Fresh /\ where[d] = "aside"))
    BY DEF AcceptedOK, Kept
  <2>2. Keeper(d) => Keeper(d)'
    BY <2>1, BesideSame DEF Beside, Keeper
  <2>3. where[d] = "aside" => where'[d] = "aside"
    BY DEF Beside
  <2> QED
    BY <2>1, <2>2, <2>3 DEF Kept
<1>2. RoleSideOK'
  <2> SUFFICES ASSUME Kind = "role", Sidecar # NoMark PROVE RoleSideOK'
    BY BesideSame, NoMarkIs DEF RoleSideOK
  <2>1. PICK s \in Stages : s = Sidecar.id
    BY MarkersHeld, MarkerFields DEF StateInv, Sidecar
  <2>2. /\ layout[s] = "v3" => layout'[s] = "v3"
        /\ where'[s] = where[s] /\ where'[Original] = where[Original] /\ mark'[s] = mark[s]
    BY DEF Beside
  <2>3. InCopy(s) => InCopy(s)'
    BY InCopyKept
  <2>4. Sidecar' = Sidecar /\ Kind' = Kind
    BY BesideSame
  <2> QED
    BY <2>1, <2>2, <2>3, <2>4 DEF RoleSideOK
<1>3. \A p \in Tools : ToolOK(p)'
  BY BesideTool, InCopyKept
<1> QED
  BY <1>1, <1>2, <1>3

\* The places and layouts after such a step.
LEMMA BesidePlaces ==
  ASSUME StateInv, Beside, UNCHANGED work,
         \A f \in Fresh : where'[f] \in {"none", "root", "backup", "aside"},
         \A d \in Dirs \ {Original} : \/ layout'[d] = layout[d] \/ layout'[d] = "v3"
                                      \/ (layout[d] = "empty" /\ layout'[d] = "bare")
  PROVE  PlacesOK'
<1>a. PlacesOK /\ MarkersOK /\ mark' = mark
  BY DEF StateInv, Beside
<1>1. \A d \in Dirs : \/ layout'[d] = layout[d] \/ layout'[d] = "v3"
                      \/ (layout[d] = "empty" /\ layout'[d] = "bare")
  BY DEF Beside
<1>2. \A d \in Dirs : Complete(d)' => where'[d] = "root"
  BY <1>a, MarkersHeld, BesideSame DEF StateInv, MarkersOK, PlacesOK, Beside
<1>3. \A d \in Dirs : layout'[d] \in {"empty", "bare"} => work'[d] = {}
  BY <1>a, <1>1 DEF PlacesOK
<1>4. /\ where'[Original] = where[Original] /\ layout'[Original] = layout[Original]
      /\ \A s \in Stages : where'[s] = where[s] /\ (layout[s] = "v3" => layout'[s] = "v3")
  BY DEF Beside
<1>5. Rooted' = Rooted
  BY BesideSame
<1>6. \A d \in Dirs \ {Original} : layout'[d] \in {"empty", "bare", "v3"}
  BY <1>a DEF PlacesOK
<1> QED
  BY <1>a, <1>2, <1>3, <1>4, <1>5, <1>6 DEF PlacesOK

\* The daemon stays on the keeper.
LEMMA UpStays ==
  ASSUME UpOK, Beside, UNCHANGED daemon, HoldersOK',
         layout[daemon.dir] = "v3" => layout'[daemon.dir] = "v3"
  PROVE  UpOK'
<1> SUFFICES ASSUME daemon.pc = "up" PROVE UpOK'
  BY DEF UpOK
<1>1. PICK d : d = daemon.dir
  OBVIOUS
<1>2. where'[d] = "root" /\ Keeper(d)
  BY <1>1 DEF HoldersOK, UpOK
<1>3. Keeper(d)'
  BY <1>2, BesideSame, Names DEF Keeper
<1> QED
  BY <1>1, <1>3, BesideSame DEF UpOK

-----------------------------------------------------------------------------

\* A step that only concerns the daemon or the archive command.
LEMMA DiskSame ==
  ASSUME StateInv, UNCHANGED <<where, layout, mark, side, tool>>,
         \A p \in Tools, d \in Dirs : held[d] = p => held'[d] = p
  PROVE  Beside
<1>1. Fresh # {}
  BY MigrationAssumption
<1> QED
  BY <1>1 DEF Beside, OneMoves

\* What is left to show of a step beside the tools that adds no work.
LEMMA BesideInv ==
  ASSUME IInv, Beside, UNCHANGED <<work, accepted>>, Typed', HoldersOK', UpOK', JobOK',
         \A f \in Fresh : /\ where'[f] \in {where[f], "none", "root"}
                          /\ where[f] = "root" /\ where'[f] # "root" => work[f] = {},
         \A d \in Dirs \ {Original} : \/ layout'[d] = layout[d] \/ layout'[d] = "v3"
                                      \/ (layout[d] = "empty" /\ layout'[d] = "bare")
  PROVE  IInv'
<1>a. StateInv /\ RunInv /\ LayoutInv /\ PlacesOK
  BY DEF IInv, StateInv
<1>1. PlacesOK'
  BY <1>a, BesidePlaces DEF PlacesOK
<1>2. OneRoot' /\ MarkersOK' /\ SettledOK' /\ OneActive'
  BY <1>a, BesideState DEF LayoutInv, RunInv
<1>3. AcceptedOK' /\ RoleSideOK' /\ \A p \in Tools : ToolOK(p)'
  BY <1>a, BesideKeeps DEF LayoutInv, RunInv
<1> QED BY <1>1, <1>2, <1>3 DEF IInv, StateInv, RunInv, LayoutInv

\* The locks of the daemon and of the archive command, if neither moves.
LEMMA HoldersStay ==
  ASSUME Typed, HoldersOK, UNCHANGED <<daemon, job>>,
         daemon.pc = "old" /\ Final(Sidecar) => Final(Sidecar)',
         \A d \in Dirs : held[d] \in {Daemon, Archiver} /\ (d = Original \/ where[d] = "root")
            => held'[d] = held[d],
         \A d \in Dirs : held[d] \in {Daemon, Archiver} /\ where[d] = "root" /\ layout[d] # "empty"
            => where'[d] = "root" /\ layout'[d] # "empty"
  PROVE  HoldersOK'
<1>1. daemon.dir \in Dirs \cup {None} /\ job.dir \in Dirs \cup {None}
  BY DEF Typed
<1> QED BY <1>1, Names DEF HoldersOK

LEMMA DaemonQuiet ==
  ASSUME IInv, DaemonCheck \/ OldUp \/ Stop, UNCHANGED archiveVars
  PROVE  IInv'
<1>0. UNCHANGED <<where, layout, work, mark, side, tool, accepted, bot, bundles, job>>
  BY DEF DaemonCheck, OldUp, Stop, toolVars, archiveVars
<1>a. StateInv /\ Typed /\ MarkersOK /\ HoldersOK /\ JobOK
  BY DEF IInv, StateInv, LayoutInv
<1>1. Beside
  <2>1. \A p \in Tools, d \in Dirs : held[d] = p => held'[d] = p
    <3>1. CASE DaemonCheck
      BY <3>1 DEF DaemonCheck
    <3>2. CASE OldUp
      BY <3>2, Names DEF OldUp, Unheld, Take
    <3>3. CASE Stop
      BY <3>3, Names DEF Stop, Drop
    <3> QED BY <3>1, <3>2, <3>3
  <2> QED BY <1>0, <1>a, <2>1, DiskSame
<1>2. Typed'
  <2>1. daemon' \in [pc : {"off", "checked", "ensured", "locked", "up", "old"}, dir : Dirs \cup {None}]
    BY <1>a, Names DEF DaemonCheck, OldUp, Stop, DaemonIs
  <2>2. held' \in [Dirs -> Tools \cup {Daemon, Archiver, Nobody}]
    BY <1>a DEF DaemonCheck, OldUp, Stop, Take, Drop, Typed
  <2> QED BY <1>0, <1>a, <2>1, <2>2 DEF Typed
<1>3. HoldersOK'
  <2>1. CASE DaemonCheck
    BY <2>1, <1>0, <1>a DEF DaemonCheck, DaemonIs, HoldersOK
  <2>2. CASE OldUp
    <3>1. daemon' = [pc |-> "old", dir |-> Original] /\ held'[Original] = Daemon
      BY <2>2, Names DEF OldUp, DaemonIs, Take
    <3>2. Final(Sidecar)
      BY <2>2, <1>a, MarkersHeld DEF OldUp, Sidecar
    <3>3. \A d \in Dirs : held[d] = Archiver => held'[d] = Archiver
      BY <2>2, Names DEF OldUp, Unheld, Take
    <3>4. Final(Sidecar)'
      BY <1>1, <3>2, BesideSame DEF Final
    <3> QED BY <3>1, <3>3, <3>4, <1>0, <1>a DEF HoldersOK, Typed
  <2>3. CASE Stop
    <3>1. daemon'.pc = "off"
      BY <2>3 DEF Stop, DaemonIs
    <3>2. \A d \in Dirs : held[d] = Archiver => held'[d] = Archiver
      BY <2>3, Names DEF Stop, Drop
    <3> QED BY <3>1, <3>2, <1>0, <1>a DEF HoldersOK, Typed
  <2> QED BY <2>1, <2>2, <2>3
<1>4. UpOK'
  <2>1. daemon'.pc # "up"
    BY DEF DaemonCheck, OldUp, Stop, DaemonIs
  <2> QED BY <2>1 DEF UpOK
<1>5. JobOK'
  BY <1>0, <1>a DEF JobOK
<1> QED BY <1>0, <1>1, <1>2, <1>3, <1>4, <1>5, BesideInv

\* The steps at the root itself: it is made, and cleared away.
LEMMA RootMade ==
  ASSUME IInv, NEW f \in Fresh, EnsureRoot(f), UNCHANGED archiveVars
  PROVE  IInv'
<1>0. UNCHANGED <<layout, work, held, mark, side, tool, accepted, bot, bundles, job>>
  BY DEF EnsureRoot, toolVars, archiveVars
<1>a. StateInv /\ Typed /\ OneRoot /\ HoldersOK /\ JobOK
  BY DEF IInv, StateInv, LayoutInv
<1>b. daemon' = [pc |-> "ensured", dir |-> None]
  BY DEF EnsureRoot, DaemonIs
<1>1. \/ where' = where
      \/ /\ where[f] = "none" /\ where' = [where EXCEPT ![f] = "root"]
         /\ \A d \in Dirs : where[d] # "root"
  BY <1>a, RootIs DEF EnsureRoot, Move
<1>2. Typed' /\ Beside
  <2>1. Typed'
    BY <1>0, <1>1, <1>a, <1>b, Names DEF Typed
  <2>2. f \in Dirs /\ where \in [Dirs -> {"none", "source", "root", "stage", "backup", "aside"}]
    BY <1>a, Names DEF Typed
  <2>3. /\ \A d \in Dirs \ {f} : where'[d] = where[d]
        /\ where[f] = "none" \/ where'[f] = where[f]
        /\ where'[f] = "root" => where[f] = "root" \/ \A d \in Dirs : where[d] # "root"
    BY <1>1, <2>2
  <2>4. \A d \in Dirs : where'[d] = where[d] \/ (d = f /\ where[d] = "none")
    BY <2>3
  <2>5. where'[Original] = where[Original] /\ \A s \in Stages : where'[s] = where[s]
    BY <2>3, Names
  <2>6. OneMoves
    BY <2>3 DEF OneMoves
  <2>7. \A p \in Tools, d \in Dirs : held[d] = p => /\ held'[d] = p /\ layout'[d] = layout[d]
                                                    /\ where[d] = "root" => where'[d] = "root"
    BY <1>0, <2>4
  <2>8. \A d \in Dirs : where[d] \in {"backup", "aside"} => where'[d] = where[d]
    BY <2>4
  <2>9. UNCHANGED <<mark, side, tool, layout>>
    BY <1>0
  <2>10. Beside
    BY <2>5, <2>6, <2>7, <2>8, <2>9 DEF Beside
  <2> QED BY <2>1, <2>10
<1>3. HoldersOK'
  BY <1>0, <1>1, <1>2, <1>a, <1>b, BesideSame DEF HoldersOK, Typed
<1>4. UpOK'
  BY <1>b DEF UpOK
<1>5. JobOK'
  BY <1>0, <1>a DEF JobOK
<1>6. \A g \in Fresh : /\ where'[g] \in {where[g], "none", "root"}
                       /\ where[g] = "root" /\ where'[g] # "root" => work[g] = {}
  BY <1>1, <1>a, Names DEF Typed
<1> QED BY <1>0, <1>2, <1>3, <1>4, <1>5, <1>6, BesideInv

\* What is bare at the root is one of Fresh.
LEMMA BareRoot ==
  ASSUME StateInv, Root # None, layout[Root] \in {"empty", "bare"}
  PROVE  Root \in Fresh /\ work[Root] = {}
BY RootIs, Names DEF StateInv, PlacesOK

LEMMA RootTidied ==
  ASSUME IInv, Tidy, UNCHANGED archiveVars
  PROVE  IInv'
<1>0. UNCHANGED <<layout, work, held, mark, side, tool, daemon, accepted, bot, bundles, job>>
  BY DEF Tidy, toolVars, archiveVars
<1>a. StateInv /\ Typed /\ OneRoot /\ HoldersOK /\ UpOK /\ JobOK
  BY DEF IInv, StateInv, LayoutInv
<1>1. PICK f \in Fresh : f = Root /\ where[f] = "root" /\ layout[f] \in {"empty", "bare"} /\ work[f] = {}
                         /\ held[f] = Nobody
  BY <1>a, RootIs, BareRoot DEF Tidy, RootLayout, Unheld
<1>2. f \in Dirs /\ where' = [where EXCEPT ![f] = "none"]
  BY <1>1, Names DEF Tidy, Move
<1>3. Typed' /\ Beside
  <2>1. Typed'
    BY <1>0, <1>2, <1>a DEF Typed
  <2>2. \A d \in Dirs \ {f} : where'[d] = where[d]
    BY <1>2, <1>a DEF Typed
  <2>3. OneMoves
    BY <1>1, <2>2 DEF OneMoves
  <2>4. \A p \in Tools, d \in Dirs : held[d] = p => /\ held'[d] = p /\ layout'[d] = layout[d]
                                                    /\ where[d] = "root" => where'[d] = "root"
    BY <1>0, <1>1, <2>2, Names
  <2>5. where'[Original] = where[Original] /\ \A s \in Stages : where'[s] = where[s]
    BY <2>2, Names
  <2> QED BY <1>0, <1>1, <2>1, <2>2, <2>3, <2>4, <2>5 DEF Beside
<1>4. HoldersOK'
  <2>1. Final(Sidecar) => Final(Sidecar)'
    BY <1>3, BesideSame DEF Final
  <2>2. \A d \in Dirs : held[d] \in {Daemon, Archiver} => where'[d] = where[d]
    BY <1>1, <1>2, <1>a, Names DEF Typed
  <2> QED BY <1>0, <1>a, <2>1, <2>2, HoldersStay
<1>5. UpOK'
  BY <1>0, <1>3, <1>4, <1>a, UpStays
<1>6. JobOK'
  BY <1>0, <1>a DEF JobOK
<1>7. \A g \in Fresh : /\ where'[g] \in {where[g], "none", "root"}
                       /\ where[g] = "root" /\ where'[g] # "root" => work[g] = {}
  BY <1>1, <1>2, <1>a, Names DEF Typed
<1> QED BY <1>0, <1>3, <1>4, <1>5, <1>6, <1>7, BesideInv

LEMMA RootLocked ==
  ASSUME IInv, LockRoot, UNCHANGED archiveVars
  PROVE  IInv'
<1>0. UNCHANGED <<where, work, mark, side, tool, accepted, bot, bundles, job>>
  BY DEF LockRoot, toolVars, archiveVars
<1>a. StateInv /\ Typed /\ OneRoot /\ PlacesOK /\ HoldersOK /\ JobOK
  BY DEF IInv, StateInv, LayoutInv
<1>1. PICK r \in Dirs : r = Root /\ where[r] = "root" /\ held[r] = Nobody
  BY <1>a, RootIs DEF LockRoot, Unheld
<1>2. /\ daemon' = [pc |-> "locked", dir |-> r]
      /\ held' = [d \in Dirs |-> IF d = r THEN Daemon ELSE held[d]]
      /\ layout' = [layout EXCEPT ![r] = IF layout[r] = "empty" THEN "bare" ELSE layout[r]]
  BY <1>1 DEF LockRoot, DaemonIs, Take
<1>3. Typed' /\ Beside
  <2>1. Typed'
    BY <1>0, <1>2, <1>a DEF Typed
  <2>2. /\ \A d \in Dirs : layout[d] # "empty" => layout'[d] = layout[d]
        /\ \A d \in Dirs \ {r} : held'[d] = held[d] /\ layout'[d] = layout[d]
    BY <1>2, <1>a DEF Typed
  <2>3. Fresh # {} /\ layout[Original] # "empty"
    BY <1>a, MigrationAssumption DEF PlacesOK
  <2>4. \A p \in Tools, d \in Dirs : held[d] = p => held'[d] = p /\ layout'[d] = layout[d]
    BY <1>1, <2>2, Names
  <2>5. /\ layout'[Original] = layout[Original]
        /\ \A s \in Stages : layout[s] = "v3" => layout'[s] = "v3"
    BY <2>2, <2>3, Names
  <2>6. OneMoves
    BY <1>0, <2>3 DEF OneMoves
  <2>7. where' = where /\ mark' = mark /\ side' = side /\ tool' = tool
    BY <1>0
  <2>8. Beside
    BY <2>4, <2>5, <2>6, <2>7 DEF Beside
  <2> QED BY <2>1, <2>8
<1>4. HoldersOK'
  <2>1. layout'[r] # "empty" /\ held'[r] = Daemon
    BY <1>2, <1>a DEF Typed
  <2>2. \A d \in Dirs : held[d] = Archiver => held'[d] = Archiver /\ layout'[d] = layout[d]
    BY <1>1, <1>2, <1>a, Names DEF Typed
  <2>3. /\ daemon'.pc = "locked" /\ daemon'.dir = r /\ r # None
        /\ where' = where /\ job' = job /\ job.dir \in Dirs \cup {None}
    BY <1>0, <1>2, <1>a, Names DEF Typed
  <2> QED BY <1>1, <1>a, <2>1, <2>2, <2>3 DEF HoldersOK
<1>5. UpOK'
  BY <1>2 DEF UpOK
<1>6. JobOK'
  BY <1>0, <1>a DEF JobOK
<1>7. \A d \in Dirs \ {Original} : \/ layout'[d] = layout[d] \/ layout'[d] = "v3"
                                   \/ (layout[d] = "empty" /\ layout'[d] = "bare")
  BY <1>2, <1>a DEF Typed
<1> QED BY <1>0, <1>3, <1>4, <1>5, <1>6, <1>7, BesideInv

LEMMA StartupFinal ==
  ASSUME CheckStartup
  PROVE  Final(Sidecar)
BY DEF CheckStartup, Sidecar, Kind

\* A directory without an old layout that lies at the root while no migration is
\* unfinished holds what was accepted.
LEMMA SettledRoot ==
  ASSUME StateInv, SettledOK, Final(Sidecar), NEW d \in Dirs, where[d] = "root", d # Original
  PROVE  Keeper(d)
<1>1. CASE d \in Stages
  BY <1>1 DEF SettledOK, Uncommitted, Keeper
<1>2. CASE d \in Fresh
  <2>1. ~Done /\ where[Original] # "root"
    BY <1>2, Names DEF StateInv, OneRoot, Done
  <2>2. where[Original] # "backup"
    BY <2>1 DEF SettledOK
  <2> QED BY <1>2, <2>1, <2>2 DEF Keeper, Rooted, StateInv, PlacesOK
<1> QED BY <1>1, <1>2, Names

LEMMA DaemonUp ==
  ASSUME IInv, Up, UNCHANGED archiveVars
  PROVE  IInv'
<1>0. UNCHANGED <<where, work, held, mark, side, tool, accepted, bot, bundles, job>>
  BY DEF Up, toolVars, archiveVars
<1>a. StateInv /\ Typed /\ OneRoot /\ PlacesOK /\ HoldersOK /\ SettledOK /\ JobOK
  BY DEF IInv, StateInv, LayoutInv
<1>1. PICK r \in Dirs : /\ r = daemon.dir /\ where[r] = "root" /\ held[r] = Daemon
                        /\ layout[r] \in {"bare", "v3"}
  BY <1>a DEF Up, HoldersOK, Typed
<1>2. daemon' = [pc |-> "up", dir |-> r] /\ layout' = [layout EXCEPT ![r] = "v3"]
  BY <1>1 DEF Up, DaemonIs
<1>3. r # Original /\ Final(Sidecar) /\ Keeper(r)
  <2>1. r # Original
    BY <1>1, <1>a DEF PlacesOK
  <2>2. Final(Sidecar)
    BY StartupFinal DEF Up
  <2> QED BY <1>1, <1>a, <2>1, <2>2, SettledRoot
<1>4. Typed'
  BY <1>0, <1>2, <1>a DEF Typed
<1>5. Beside
  <2>1. /\ layout'[r] = "v3" /\ \A d \in Dirs \ {r} : layout'[d] = layout[d]
        /\ layout'[Original] = layout[Original]
    BY <1>2, <1>3, <1>a, Names DEF Typed
  <2>2. \A p \in Tools, d \in Dirs : held[d] = p => held'[d] = p /\ layout'[d] = layout[d]
    BY <1>0, <1>1, <2>1, Names
  <2>3. where' = where /\ mark' = mark /\ side' = side /\ tool' = tool /\ OneMoves
    BY <1>0, MigrationAssumption DEF OneMoves
  <2>4. \A s \in Stages : layout[s] = "v3" => layout'[s] = "v3"
    BY <2>1, Names
  <2> QED BY <2>1, <2>2, <2>3, <2>4 DEF Beside
<1>6. HoldersOK'
  <2>1. /\ daemon'.pc = "up" /\ daemon'.dir = r /\ r # None /\ held' = held
        /\ where' = where /\ job' = job /\ job.dir \in Dirs \cup {None}
    BY <1>0, <1>2, <1>a, Names DEF Typed
  <2>2. \A d \in Dirs : layout'[d] = layout[d] \/ layout'[d] = "v3"
    BY <1>2, <1>a DEF Typed
  <2>3. layout'[r] = "v3"
    BY <1>2, <1>a DEF Typed
  <2> QED BY <1>1, <1>a, <2>1, <2>2, <2>3 DEF HoldersOK
<1>7. UpOK'
  <2>1. Keeper(r)'
    BY <1>0, <1>3, <1>5, BesideSame DEF Keeper
  <2>2. Final(Sidecar)'
    BY <1>3, <1>5, BesideSame DEF Final
  <2>3. daemon'.dir = r /\ layout'[r] = "v3"
    BY <1>2, <1>a DEF Typed
  <2> QED BY <2>1, <2>2, <2>3 DEF UpOK
<1>8. JobOK'
  BY <1>0, <1>a DEF JobOK
<1>9. \A d \in Dirs \ {Original} : \/ layout'[d] = layout[d] \/ layout'[d] = "v3"
                                   \/ (layout[d] = "empty" /\ layout'[d] = "bare")
  BY <1>2, <1>a DEF Typed
<1> QED BY <1>0, <1>4, <1>5, <1>6, <1>7, <1>8, <1>9, BesideInv

(***************************************************************************)
(* Work that is accepted.                                                   *)
(***************************************************************************)

\* Where a daemon accepts: at the keeper if it is up, otherwise into the original,
\* which counts only at the root.
LEMMA AcceptsWhere ==
  ASSUME IInv, NEW w \in Work, Accept(w)
  PROVE  \E d \in Dirs :
           /\ work' = [work EXCEPT ![d] = work[d] \cup {w}]
           /\ layout[d] \notin {"empty", "bare"}
           /\ \/ /\ daemon.pc = "up" /\ where[d] = "root" /\ Keeper(d) /\ d # Original
                 /\ accepted' = accepted \cup {w} /\ (Kind = "role" => Final(Sidecar))
              \/ /\ d = Original /\ held[d] = Daemon /\ Final(Sidecar)
                 /\ \/ where[d] = "root" /\ accepted' = accepted \cup {w}
                    \/ where[d] # "root" /\ accepted' = accepted
<1>a. StateInv /\ OneRoot /\ Typed /\ PlacesOK /\ HoldersOK /\ UpOK
  BY DEF IInv, StateInv, LayoutInv
<1>1. CASE daemon.pc = "up"
  <2>1. PICK d \in Dirs : d = daemon.dir /\ where[d] = "root"
    BY <1>1, <1>a DEF HoldersOK, Typed
  <2>2. Root = d
    BY <2>1, <1>a, RootIs
  <2>3. layout[d] = "v3" /\ Keeper(d) /\ d # Original /\ (Kind = "role" => Final(Sidecar))
    BY <1>1, <2>1, <1>a DEF UpOK, PlacesOK
  <2>4. work' = [work EXCEPT ![d] = work[d] \cup {w}] /\ accepted' = accepted \cup {w}
    BY <1>1, <2>2 DEF Accept
  <2> QED BY <1>1, <2>1, <2>3, <2>4
<1>2. CASE daemon.pc = "old"
  <2>1. daemon.dir = Original /\ held[Original] = Daemon /\ Final(Sidecar)
    BY <1>2, <1>a DEF HoldersOK
  <2>2. /\ work' = [work EXCEPT ![Original] = work[Original] \cup {w}]
        /\ accepted' = IF Original = Root THEN accepted \cup {w} ELSE accepted
    BY <1>2, <2>1 DEF Accept
  <2>3. Root = Original <=> where[Original] = "root"
    BY <1>a, RootIs, Names
  <2> QED BY <2>1, <2>2, <2>3, <1>a, Names DEF PlacesOK
<1> QED BY <1>1, <1>2 DEF Accept

\* A run that goes forward with a stage that is not at the root yet.
LEMMA ForwardHolds ==
  ASSUME StateInv, NEW p \in Tools, ToolOK(p), Forward(p), where[tool[p].m.id] # "root"
  PROVE  /\ Final(Sidecar) => Kind = "legacy" /\ held[Original] = p
         /\ Rooted /\ Kind = "legacy" => ~Done
<1> DEFINE m == tool[p].m
<1>1. m \in Markers /\ Proper(m) /\ m.id \in Stages /\ m.id \in Dirs /\ tool[p].pc # "idle"
  BY MarkersHeld, MarkerFields, Names DEF StateInv, Forward
<1>2. ~(mark[m.id] = m /\ m.status = "complete")
  BY <1>1 DEF StateInv, PlacesOK, Complete
<1>3. Kind \in {"legacy", "role"}
  BY DEF Kind
<1>4. CASE Kind = "role"
  BY <1>1, <1>2, <1>4 DEF ToolOK, RoleOK, Is, Final, Forward
<1>5. CASE Kind = "legacy"
  <2>1. LegacyOK(p)
    BY <1>1, <1>5 DEF ToolOK
  <2>2. OrigHeld(p) /\ Rooted => ~Done
    <3>1. OrigHeld(p) /\ Rooted => where[Original] = "root"
      BY <1>1, Names DEF OrigHeld, Proper
    <3> QED BY <3>1, Names DEF StateInv, OneRoot, Done
  <2>3. \/ Final(Sidecar) /\ held[Original] = p /\ OrigHeld(p)
        \/ ~Final(Sidecar) /\ OrigHeld(p)
        \/ ~Final(Sidecar) /\ (Rooted => ~Done)
    BY <2>1, <1>2 DEF LegacyOK, Is, Forward
  <2> QED BY <1>5, <2>2, <2>3
<1> QED BY <1>3, <1>4, <1>5

LEMMA WorkAccepted ==
  ASSUME IInv, NEW w \in Work, Accept(w), UNCHANGED archiveVars
  PROVE  IInv'
<1>0. UNCHANGED <<where, layout, held, mark, side, tool, daemon, bot, bundles, job>>
  BY DEF Accept, toolVars, archiveVars
<1>a. /\ StateInv /\ Typed /\ OneRoot /\ PlacesOK /\ HoldersOK /\ UpOK /\ SettledOK /\ AcceptedOK /\ JobOK
      /\ OneActive /\ RoleSideOK /\ \A p \in Tools : ToolOK(p)
  BY DEF IInv, StateInv, LayoutInv, RunInv
<1>b. /\ where' = where /\ layout' = layout /\ held' = held /\ mark' = mark /\ side' = side
      /\ tool' = tool /\ daemon' = daemon /\ job' = job
  BY <1>0
<1>1. PICK d \in Dirs :
        /\ work' = [work EXCEPT ![d] = work[d] \cup {w}]
        /\ layout[d] \notin {"empty", "bare"}
        /\ \/ /\ daemon.pc = "up" /\ where[d] = "root" /\ Keeper(d) /\ d # Original
              /\ accepted' = accepted \cup {w} /\ (Kind = "role" => Final(Sidecar))
           \/ /\ d = Original /\ held[d] = Daemon /\ Final(Sidecar)
              /\ \/ where[d] = "root" /\ accepted' = accepted \cup {w}
                 \/ where[d] # "root" /\ accepted' = accepted
  BY AcceptsWhere
<1>2. Beside
  BY <1>0, <1>a, DiskSame
<1>3. /\ \A e \in Dirs : work[e] \subseteq work'[e]
      /\ w \in work'[d] /\ \A e \in Dirs \ {d} : work'[e] = work[e]
  BY <1>1, <1>a DEF Typed
<1>4. Typed' /\ PlacesOK'
  <2>1. Typed'
    BY <1>0, <1>1, <1>a DEF Typed
  <2>2. Rooted' = Rooted /\ \A e \in Dirs : Complete(e)' = Complete(e)
    BY <1>2, BesideSame
  <2>3. \A e \in Dirs : layout'[e] \in {"empty", "bare"} => work'[e] = {}
    BY <1>b, <1>1, <1>3, <1>a DEF PlacesOK
  <2>4. \A e \in Dirs : Complete(e)' => where'[e] = "root"
    BY <1>b, <1>a, <2>2 DEF PlacesOK
  <2> QED BY <1>b, <1>a, <2>1, <2>2, <2>3, <2>4 DEF PlacesOK
<1>5. HoldersOK'
  BY <1>b, <1>a, <1>2, BesideSame DEF HoldersOK, Final
<1>6. UpOK'
  BY <1>b, <1>2, <1>5, <1>a, UpStays
<1>7. AcceptedOK'
  <2>1. \A e \in Dirs : Keeper(e) => Keeper(e)'
    BY <1>b, <1>2, BesideSame DEF Keeper
  <2>2. ASSUME NEW v \in accepted PROVE Kept(v)'
    BY <1>b, <1>3, <1>a, <2>1 DEF AcceptedOK, Kept
  <2>3. CASE accepted' = accepted \cup {w} /\ where[d] = "root"
    <3>1. Keeper(d)
      BY <1>1, <2>3, <1>a, Names DEF Keeper, Rooted, Done, OneRoot
    <3>2. Kept(w)'
      BY <1>3, <2>1, <3>1 DEF Kept
    <3> QED BY <2>2, <2>3, <3>2 DEF AcceptedOK
  <2> QED BY <1>1, <2>2, <2>3 DEF AcceptedOK
<1>8. RoleSideOK'
  <2>1. Kind = "role" => Final(Sidecar)'
    BY <1>1, <1>2, BesideSame DEF Final
  <2> QED BY <1>2, <2>1, BesideSame DEF RoleSideOK, Final
<1>9. \A p \in Tools : ToolOK(p)'
  <2> SUFFICES ASSUME NEW p \in Tools, NEW s \in Stages, s = tool[p].m.id, Forward(p),
                      Rooted \/ where[s] = "root", InCopy(s)
               PROVE  InCopy(s)'
    BY <1>2, <1>a, BesideTool
  <2>1. \A v \in accepted : v \in work'[s] \/ v \in Displaced'
    <3>1. \A v \in Displaced : v \in Displaced'
      BY <1>b, <1>3, Names DEF Displaced
    <3> QED BY <1>3, <3>1, Names DEF InCopy
  <2>2. CASE accepted' = accepted
    BY <2>1, <2>2 DEF InCopy
  <2>3. CASE accepted' = accepted \cup {w} /\ where[d] = "root"
    <3>1. CASE where[s] = "root"
      <4>1. s = d
        BY <2>3, <3>1, <1>a, Names DEF OneRoot
      <4> QED BY <1>3, <2>1, <2>3, <4>1 DEF InCopy
    <3>2. CASE where[s] # "root"
      <4>1. /\ Final(Sidecar) => Kind = "legacy" /\ held[Original] = p
            /\ Rooted /\ Kind = "legacy" => ~Done
        BY <1>a, <3>2, ForwardHolds
      <4>2. Keeper(d) /\ Rooted /\ d # Original => Done
        BY Names DEF Keeper, Done
      <4>3. Kind \in {"legacy", "role"}
        BY DEF Kind
      <4> QED BY <1>1, <2>3, <3>2, <4>1, <4>2, <4>3, Names
    <3> QED BY <3>1, <3>2
  <2> QED BY <1>1, <2>2, <2>3
<1>10. OneRoot' /\ MarkersOK' /\ SettledOK' /\ OneActive'
  BY <1>2, <1>a, BesideState
<1>11. JobOK'
  BY <1>0, <1>a DEF JobOK
<1> QED BY <1>4, <1>5, <1>6, <1>7, <1>8, <1>9, <1>10, <1>11 DEF IInv, StateInv, RunInv, LayoutInv

(***************************************************************************)
(* The steps of the archive command.                                        *)
(***************************************************************************)

JobQuiet ==
    \/ ImportBegin \/ ExportBegin \/ ConvertArchive \/ JobAbort
    \/ ImportPublish \/ ImportContent \/ Export \/ JobRefuse

LEMMA JobQuietFrame ==
  ASSUME IInv, JobQuiet
  PROVE  /\ UNCHANGED <<where, layout, work, mark, side, tool, daemon, accepted>>
         /\ \A d \in Dirs : held[d] # Archiver => held'[d] = held[d]
         /\ held' \in [Dirs -> Tools \cup {Daemon, Archiver, Nobody}]
         /\ job'.dir = None \/ (job'.dir = job.dir /\ held' = held)
         /\ job' \in [pc : Parting, dir : Dirs \cup {None}]
         /\ bot' \in [Dirs -> SUBSET Parts]
<1>a. Typed
  BY DEF IInv, StateInv
<1>1. CASE ImportBegin \/ ExportBegin
  <2>1. UNCHANGED <<where, layout, work, mark, side, tool, daemon, accepted, held, bot>>
    BY <1>1 DEF ImportBegin, ExportBegin, Begin, vars
  <2>2. job' = [pc |-> "import", dir |-> None] \/ job' = [pc |-> "export", dir |-> None]
    BY <1>1 DEF ImportBegin, ExportBegin, Begin, Job
  <2> QED BY <1>a, <2>1, <2>2 DEF Typed, Parting
<1>2. CASE ConvertArchive
  <2>1. UNCHANGED <<where, layout, work, mark, side, tool, daemon, accepted, held, bot, job>>
    BY <1>2 DEF ConvertArchive, vars
  <2> QED BY <1>a, <2>1 DEF Typed
<1>3. CASE JobAbort \/ Export \/ JobRefuse
  <2>1. UNCHANGED <<where, layout, work, mark, side, tool, daemon, accepted, bot>>
    BY <1>3 DEF JobAbort, Export, JobRefuse, migrationVars
  <2>2. job' = [pc |-> "idle", dir |-> None]
    BY <1>3 DEF JobAbort, Export, JobRefuse, EndJob, NoJob
  <2>3. held' = [d \in Dirs |-> IF held[d] = Archiver THEN Nobody ELSE held[d]]
    BY <1>3 DEF JobAbort, Export, JobRefuse, EndJob, Drop
  <2> QED BY <1>a, <2>1, <2>2, <2>3 DEF Typed, Parting
<1>4. CASE ImportPublish \/ ImportContent
  <2>1. UNCHANGED <<where, layout, work, mark, side, tool, daemon, accepted, held>>
    BY <1>4 DEF ImportPublish, ImportContent, vars
  <2>2. job' = [pc |-> "published", dir |-> job.dir] \/ job' = [pc |-> "granted", dir |-> job.dir]
    BY <1>4 DEF ImportPublish, ImportContent, Job
  <2>3. job.dir \in Dirs \cup {None} /\ bot \in [Dirs -> SUBSET Parts]
    BY <1>a DEF Typed
  <2>4. job' \in [pc : Parting, dir : Dirs \cup {None}] /\ job'.dir = job.dir
    BY <2>2, <2>3 DEF Parting
  <2>5. bot' \in [Dirs -> SUBSET Parts]
    <3>1. PICK part \in Parts : bot' = [bot EXCEPT ![job.dir] = bot[job.dir] \cup {part}]
      BY <1>4 DEF ImportPublish, ImportContent, Add, Parts
    <3> QED BY <2>3, <3>1
  <2> QED BY <1>a, <2>1, <2>4, <2>5 DEF Typed
<1> QED BY <1>1, <1>2, <1>3, <1>4 DEF JobQuiet

LEMMA JobQuietParts ==
  ASSUME IInv, JobQuiet
  PROVE  JobOK'
<1>a. JobOK /\ HoldersOK /\ PlacesOK /\ job \in [pc : Parting, dir : Dirs \cup {None}]
      /\ bot \in [Dirs -> SUBSET Parts]
  BY DEF IInv, StateInv, LayoutInv, Typed
<1>1. CASE ImportBegin \/ ExportBegin
  <2>1. UNCHANGED <<bot, bundles>>
    BY <1>1 DEF ImportBegin, ExportBegin, Begin
  <2>2. job' = [pc |-> "import", dir |-> None] \/ job' = [pc |-> "export", dir |-> None]
    BY <1>1 DEF ImportBegin, ExportBegin, Begin, Job
  <2> QED BY <1>a, <2>1, <2>2 DEF JobOK
<1>2. CASE ConvertArchive
  BY <1>2, <1>a DEF ConvertArchive, JobOK
<1>3. CASE JobAbort \/ JobRefuse
  <2>1. UNCHANGED <<bot, bundles>> /\ job' = [pc |-> "idle", dir |-> None]
    BY <1>3 DEF JobAbort, JobRefuse, EndJob, NoJob
  <2> QED BY <1>a, <2>1 DEF JobOK
<1>4. CASE Export
  <2>1. bot' = bot /\ job' = [pc |-> "idle", dir |-> None]
    BY <1>4 DEF Export, EndJob, NoJob
  <2>2. \E d \in Dirs : "listed" \in bot[d]
    BY <1>4, <1>a DEF Export, Exportable
  <2> QED BY <1>a, <2>1, <2>2 DEF JobOK
<1>5. CASE ImportPublish
  <2>1. PICK d \in Dirs : d = job.dir
    BY <1>5, <1>a DEF ImportPublish
  <2>2. d # Original /\ d # None
    BY <1>5, <2>1, <1>a, Names DEF ImportPublish, Importable, PlacesOK
  <2>3. /\ bot' = [bot EXCEPT ![d] = bot[d] \cup {"dir"}] /\ bundles' = bundles
        /\ job' = [pc |-> "published", dir |-> d]
    BY <1>5, <2>1 DEF ImportPublish, Add, Job
  <2> QED BY <1>a, <2>2, <2>3 DEF JobOK
<1>6. CASE ImportContent
  <2>1. PICK d \in Dirs : d = job.dir /\ d # Original /\ d # None /\ "dir" \in bot[d]
    BY <1>6, <1>a DEF ImportContent, JobOK
  <2>2. /\ bot' = [bot EXCEPT ![d] = bot[d] \cup {"content"}] /\ bundles' = bundles
        /\ job' = [pc |-> "granted", dir |-> d]
    BY <1>6, <2>1 DEF ImportContent, Add, Job
  <2> QED BY <1>a, <2>1, <2>2 DEF JobOK
<1> QED BY <1>1, <1>2, <1>3, <1>4, <1>5, <1>6 DEF JobQuiet

LEMMA JobStays ==
  ASSUME IInv, JobQuiet
  PROVE  IInv'
<1>a. StateInv /\ Typed /\ HoldersOK /\ UpOK
  BY DEF IInv, StateInv, LayoutInv
<1>0. /\ where' = where /\ layout' = layout /\ work' = work /\ mark' = mark /\ side' = side
      /\ tool' = tool /\ daemon' = daemon /\ accepted' = accepted
      /\ \A d \in Dirs : held[d] # Archiver => held'[d] = held[d]
      /\ held' \in [Dirs -> Tools \cup {Daemon, Archiver, Nobody}]
      /\ job'.dir = None \/ (job'.dir = job.dir /\ held' = held)
      /\ job' \in [pc : Parting, dir : Dirs \cup {None}]
      /\ bot' \in [Dirs -> SUBSET Parts]
  BY JobQuietFrame
<1>1. Beside
  BY <1>0, <1>a, Names, DiskSame
<1>2. Typed'
  BY <1>0, <1>a DEF Typed
<1>3. HoldersOK'
  <2>1. Final(Sidecar) = Final(Sidecar)'
    BY <1>1, BesideSame DEF Final
  <2> QED BY <1>0, <1>a, <2>1, Names DEF HoldersOK, Typed
<1>4. UpOK'
  BY <1>0, <1>1, <1>3, <1>a, UpStays
<1> QED BY <1>0, <1>1, <1>2, <1>3, <1>4, JobQuietParts, BesideInv

LEMMA BotRegistered ==
  ASSUME IInv, ImportRegister
  PROVE  IInv'
<1>0. UNCHANGED <<where, work, mark, side, tool, daemon, accepted, bundles>>
  BY DEF ImportRegister, migrationVars
<1>a. StateInv /\ Typed /\ PlacesOK /\ HoldersOK /\ UpOK /\ JobOK
  BY DEF IInv, StateInv, LayoutInv
<1>1. PICK r \in Dirs : /\ r = job.dir /\ r # Original /\ held[r] = Archiver
                        /\ {"dir", "content"} \subseteq bot[r]
  BY <1>a, Names DEF ImportRegister, HoldersOK, JobOK, Typed
<1>2. /\ bot' = [bot EXCEPT ![r] = bot[r] \cup {"listed"}] /\ layout' = [layout EXCEPT ![r] = "v3"]
      /\ job' = [pc |-> "idle", dir |-> None]
      /\ held' = [d \in Dirs |-> IF held[d] = Archiver THEN Nobody ELSE held[d]]
  BY <1>1 DEF ImportRegister, Add, EndJob, NoJob, Drop
<1>3. Typed'
  BY <1>0, <1>1, <1>2, <1>a DEF Typed, Parts, Parting
<1>4. Beside
  <2>1. /\ layout'[r] = "v3" /\ \A d \in Dirs \ {r} : layout'[d] = layout[d]
        /\ layout'[Original] = layout[Original]
    BY <1>1, <1>2, <1>a, Names DEF Typed
  <2>2. \A p \in Tools, d \in Dirs : held[d] = p => held'[d] = p /\ layout'[d] = layout[d]
    BY <1>1, <1>2, <2>1, Names
  <2>3. where' = where /\ mark' = mark /\ side' = side /\ tool' = tool /\ OneMoves
    BY <1>0, MigrationAssumption DEF OneMoves
  <2>4. \A s \in Stages : layout[s] = "v3" => layout'[s] = "v3"
    BY <2>1, Names
  <2> QED BY <2>1, <2>2, <2>3, <2>4 DEF Beside
<1>5. \A d \in Dirs : layout'[d] = layout[d] \/ layout'[d] = "v3"
  BY <1>2, <1>a DEF Typed
<1>6. HoldersOK'
  <2>1. Final(Sidecar) = Final(Sidecar)'
    BY <1>4, BesideSame DEF Final
  <2>2. \A d \in Dirs : held[d] = Daemon => held'[d] = Daemon
    BY <1>2, Names
  <2>3. job'.dir = None /\ where' = where /\ daemon' = daemon
    BY <1>0, <1>2
  <2> QED BY <1>a, <1>5, <2>1, <2>2, <2>3, Names DEF HoldersOK, Typed
<1>7. UpOK'
  <2>1. layout[daemon.dir] = "v3" /\ daemon.dir \in Dirs => layout'[daemon.dir] = "v3"
    BY <1>5
  <2>2. daemon.pc = "up" => daemon.dir \in Dirs
    BY <1>a DEF HoldersOK, Typed
  <2>3. CASE daemon.pc = "up"
    BY <1>0, <1>4, <1>6, <1>a, <2>1, <2>2, <2>3, UpStays
  <2>4. CASE daemon.pc # "up"
    BY <1>0, <2>4 DEF UpOK
  <2> QED BY <2>3, <2>4
<1>8. JobOK'
  BY <1>0, <1>1, <1>2, <1>a DEF JobOK, Typed
<1> QED BY <1>0, <1>3, <1>4, <1>5, <1>6, <1>7, <1>8, BesideInv

LEMMA JobLocks ==
  ASSUME IInv, NEW f \in Fresh, JobLock(f)
  PROVE  IInv'
<1>0. UNCHANGED <<work, mark, side, tool, daemon, accepted, bot, bundles>>
  BY DEF JobLock, migrationVars
<1>a. StateInv /\ Typed /\ OneRoot /\ PlacesOK /\ HoldersOK /\ UpOK /\ JobOK
  BY DEF IInv, StateInv, LayoutInv
<1>1. PICK r \in Dirs : r = IF Root = None THEN f ELSE Root
  BY <1>a, RootIs, Names
<1>2. /\ held[r] = Nobody /\ held' = [d \in Dirs |-> IF d = r THEN Archiver ELSE held[d]]
      /\ where' = [where EXCEPT ![r] = "root"]
      /\ layout' = [layout EXCEPT ![r] = IF layout[r] = "empty" THEN "bare" ELSE layout[r]]
      /\ job' = [pc |-> job.pc, dir |-> r] /\ job.pc \in {"import", "export"}
  BY <1>1 DEF JobLock, Unheld, Take, Job
<1>3. \/ where[r] = "root"
      \/ r = f /\ where[f] = "none" /\ \A d \in Dirs : where[d] # "root"
  BY <1>1, <1>a, RootIs DEF JobLock
<1>4. Typed'
  BY <1>0, <1>2, <1>a DEF Typed
<1>5. /\ \A d \in Dirs \ {r} : where'[d] = where[d] /\ layout'[d] = layout[d] /\ held'[d] = held[d]
      /\ where'[r] = "root" /\ held'[r] = Archiver /\ layout'[r] # "empty"
      /\ layout[r] # "empty" => layout'[r] = layout[r]
      /\ layout[r] = "empty" => layout'[r] = "bare"
  BY <1>2, <1>a DEF Typed
<1>6. Beside
  <2>1. layout'[Original] = layout[Original] /\ \A s \in Stages : layout[s] = "v3" => layout'[s] = "v3"
    BY <1>5, <1>a, Names DEF PlacesOK
  <2>2. where'[Original] = where[Original] /\ \A s \in Stages : where'[s] = where[s]
    BY <1>3, <1>5, Names
  <2>3. \A d \in Dirs : where[d] \in {"root", "backup", "aside"} => where'[d] = where[d]
    BY <1>3, <1>5
  <2>4. \A p \in Tools, d \in Dirs : held[d] = p => d # r
    BY <1>2, Names
  <2>5. OneMoves
    <3>1. CASE where[r] = "root"
      <4>1. \A d \in Dirs : where'[d] = where[d]
        BY <1>5, <3>1
      <4> QED BY <4>1, MigrationAssumption, Names DEF OneMoves
    <3>2. CASE r = f /\ \A d \in Dirs : where[d] # "root"
      BY <1>5, <3>2 DEF OneMoves
    <3> QED BY <1>3, <3>1, <3>2
  <2>6. UNCHANGED <<mark, side, tool>>
    BY <1>0
  <2>7. \A p \in Tools, d \in Dirs :
          held[d] = p => /\ held'[d] = p /\ layout'[d] = layout[d]
                         /\ where[d] = "root" => where'[d] = "root"
    BY <1>5, <2>3, <2>4
  <2> QED BY <2>1, <2>2, <2>3, <2>5, <2>6, <2>7 DEF Beside
<1>7. HoldersOK'
  <2>1. Final(Sidecar) = Final(Sidecar)'
    BY <1>6, BesideSame DEF Final
  <2>2. \A d \in Dirs : held[d] = Daemon => /\ held'[d] = Daemon /\ where'[d] = where[d]
                                            /\ layout'[d] = layout[d]
    BY <1>2, <1>5, Names
  <2>3. daemon' = daemon /\ job'.dir = r /\ r # None /\ daemon.dir \in Dirs \cup {None}
    BY <1>0, <1>2, <1>a, Names DEF Typed
  <2> QED BY <1>5, <1>a, <2>1, <2>2, <2>3, Names DEF HoldersOK
<1>8. UpOK'
  <2>1. CASE daemon.pc = "up"
    <3>1. daemon.dir \in Dirs /\ daemon.dir # r
      BY <1>2, <2>1, <1>a, Names DEF HoldersOK, Typed
    <3>2. layout'[daemon.dir] = layout[daemon.dir]
      BY <1>5, <3>1
    <3> QED BY <1>0, <1>6, <1>7, <1>a, <3>2, UpStays
  <2>2. CASE daemon.pc # "up"
    BY <1>0, <2>2 DEF UpOK
  <2> QED BY <2>1, <2>2
<1>9. JobOK'
  BY <1>0, <1>2, <1>a DEF JobOK
<1>10. \A g \in Fresh : /\ where'[g] \in {where[g], "none", "root"}
                        /\ where[g] = "root" /\ where'[g] # "root" => work[g] = {}
  BY <1>5, Names
<1>11. \A d \in Dirs \ {Original} : \/ layout'[d] = layout[d] \/ layout'[d] = "v3"
                                    \/ (layout[d] = "empty" /\ layout'[d] = "bare")
  BY <1>5
<1> QED BY <1>0, <1>4, <1>6, <1>7, <1>8, <1>9, <1>10, <1>11, BesideInv

-----------------------------------------------------------------------------
(***************************************************************************)
(* The steps of a run of the tool.                                          *)
(***************************************************************************)

Same == Kind' = Kind /\ Rooted' = Rooted

LEMMA SameIs ==
  ASSUME layout'[Original] = layout[Original],
         where'[Original] = "source" <=> where[Original] = "source"
  PROVE  Same
BY DEF Same, Kind, Rooted

\* What the markers say when one run has moved on.
LEMMA RunMarkers ==
  ASSUME Typed, MarkersOK, Same, NEW p \in Tools, NEW t, tool' = [tool EXCEPT ![p] = t],
         t = Idle \/ (t \in Runs /\ t.pc # "idle" /\ Proper(t.m)),
         \A k \in Kinds : side'[k] = side[k] \/ (k = Kind /\ Proper(side'[k])),
         \A d \in Dirs : mark'[d] = mark[d] \/ (d \in Stages /\ mark'[d].id = d /\ Proper(mark'[d]))
  PROVE  MarkersOK' /\ tool' \in [Tools -> Runs]
<1>1. tool' \in [Tools -> Runs] /\ tool'[p] = t /\ \A q \in Tools \ {p} : tool'[q] = tool[q]
  BY NoMarkIs DEF Typed, Runs, Idle, Points
<1>2. \A q \in Tools : IF tool'[q].pc = "idle" THEN tool'[q] = Idle ELSE Proper(tool'[q].m)
  BY <1>1 DEF MarkersOK, Idle
<1>3. \A k \in Kinds : side'[k] # NoMark => k = Kind /\ Proper(side'[k])
  BY DEF MarkersOK
<1>4. \A d \in Dirs : mark'[d] # NoMark => d \in Stages /\ mark'[d].id = d /\ Proper(mark'[d])
  BY DEF MarkersOK
<1> QED BY <1>1, <1>2, <1>3, <1>4 DEF MarkersOK, Same, Proper

\* A run that is not in the transaction has established nothing.
LEMMA RunApart ==
  ASSUME Same, NEW q \in Tools, ToolOK(q), ~Active(q), tool'[q] = tool[q]
  PROVE  ToolOK(q)'
BY DEF Same, ToolOK, Active, LegacyOK, RoleOK, CopyOK, Is, Forward

\* What is left to show of a step in the transaction.
LEMMA ToolInv ==
  ASSUME IInv, Same, NEW p \in Tools, Active(p) \/ TransactionFree,
         UNCHANGED <<daemon, accepted, bot, bundles, job>>,
         \A q \in Tools \ {p} : tool'[q] = tool[q],
         Typed', OneRoot', PlacesOK', MarkersOK', RoleSideOK', ToolOK(p)',
         HoldersOK', UpOK', SettledOK', AcceptedOK'
  PROVE  IInv'
<1>a. OneActive /\ JobOK /\ \A q \in Tools : ToolOK(q)
  BY DEF IInv, RunInv
<1>1. \A q \in Tools \ {p} : ~Active(q)
  BY <1>a DEF OneActive, Active, TransactionFree
<1>2. \A q \in Tools \ {p} : ToolOK(q)'
  BY <1>1, <1>a, RunApart
<1>3. OneActive'
  BY <1>1 DEF OneActive, Active
<1>4. JobOK'
  BY <1>a DEF JobOK
<1> QED BY <1>2, <1>3, <1>4 DEF IInv, StateInv, RunInv, LayoutInv

\* A run keeps what it has established while the disk and its locks stay.
LEMMA RunStill ==
  ASSUME NEW q \in Tools, ToolOK(q), UNCHANGED <<where, layout, work, mark, side, accepted>>,
         tool'[q] = tool[q], \A d \in Dirs : held[d] = q => held'[d] = q,
         tool[q].pc # "idle" => tool[q].m.orig \in Dirs \cup {None}
  PROVE  ToolOK(q)'
<1>1. /\ where' = where /\ layout' = layout /\ work' = work /\ mark' = mark /\ side' = side
      /\ accepted' = accepted
  OBVIOUS
<1>2. Kind' = Kind /\ Rooted' = Rooted /\ Sidecar' = Sidecar
  BY <1>1 DEF Kind, Rooted, Sidecar
<1>3. Done' = Done /\ Uncommitted' = Uncommitted /\ \A d : Complete(d)' = Complete(d)
  BY <1>1 DEF Done, Uncommitted, Complete
<1>4. \A s : InCopy(s)' = InCopy(s)
  BY <1>1 DEF InCopy, Displaced
<1>5. CopyOK(q) => CopyOK(q)'
  BY <1>1, <1>2, <1>4 DEF CopyOK, Forward
<1>6. tool[q].pc # "idle" /\ OrigHeld(q) => OrigHeld(q)'
  BY <1>1, Names DEF OrigHeld
<1>7. held[Original] = q => held'[Original] = q
  BY Names
<1>8. tool[q].pc # "idle" /\ LegacyOK(q) => LegacyOK(q)'
  BY <1>1, <1>2, <1>3, <1>6, <1>7 DEF LegacyOK, Is
<1>9. RoleOK(q) => RoleOK(q)'
  BY <1>1, <1>2, <1>3, <1>7 DEF RoleOK, Is
<1> QED BY <1>2, <1>5, <1>8, <1>9 DEF ToolOK

\* Steps that leave the disk as it is: only the run and its locks change.
LEMMA RunOnly ==
  ASSUME IInv, NEW p \in Tools, NEW t, tool' = [tool EXCEPT ![p] = t],
         t = Idle \/ (t \in Runs /\ t.pc # "idle" /\ Proper(t.m)),
         t.pc \in {"idle", "recover"} \/ \A q \in Tools \ {p} : ~Active(q),
         UNCHANGED <<where, layout, work, mark, side, daemon, accepted, bot, bundles, job>>,
         held' \in [Dirs -> Tools \cup {Daemon, Archiver, Nobody}],
         \A d \in Dirs : held[d] \notin {Nobody, p} => held'[d] = held[d],
         ToolOK(p)'
  PROVE  IInv'
<1>a. /\ StateInv /\ Typed /\ OneRoot /\ PlacesOK /\ MarkersOK /\ OneActive /\ RoleSideOK
      /\ HoldersOK /\ UpOK /\ SettledOK /\ AcceptedOK /\ JobOK /\ \A q \in Tools : ToolOK(q)
  BY DEF IInv, StateInv, LayoutInv, RunInv
<1>b. /\ where' = where /\ layout' = layout /\ work' = work /\ mark' = mark /\ side' = side
      /\ accepted' = accepted /\ daemon' = daemon /\ job' = job /\ bot' = bot /\ bundles' = bundles
  OBVIOUS
<1>0. Same
  BY <1>b, SameIs
<1>1. MarkersOK' /\ tool' \in [Tools -> Runs]
  BY <1>0, <1>a, <1>b, RunMarkers
<1>2. Typed'
  BY <1>1, <1>a, <1>b DEF Typed
<1>3. \A q \in Tools \ {p} : tool'[q] = tool[q]
  BY <1>a DEF Typed
<1>4. OneActive'
  <2>1. tool'[p] = t
    BY <1>a DEF Typed
  <2> QED BY <1>3, <1>a, <2>1 DEF OneActive, Active, Idle
<1>5. \A q \in Tools : ToolOK(q)'
  <2> SUFFICES ASSUME NEW q \in Tools \ {p} PROVE ToolOK(q)'
    OBVIOUS
  <2>1. \A d \in Dirs : held[d] = q => held'[d] = q
    BY Names
  <2>2. tool[q].pc # "idle" => tool[q].m.orig \in Dirs \cup {None}
    BY <1>a, MarkersHeld, MarkerFields
  <2> QED BY <1>3, <1>a, <2>1, <2>2, RunStill
<1>6. OneRoot' /\ PlacesOK' /\ UpOK' /\ SettledOK' /\ AcceptedOK' /\ JobOK' /\ RoleSideOK'
  <2>1. Kind' = Kind /\ Rooted' = Rooted /\ Sidecar' = Sidecar
    BY <1>b DEF Kind, Rooted, Sidecar
  <2>2. Done' = Done /\ Uncommitted' = Uncommitted /\ \A d : Complete(d)' = Complete(d)
    BY <1>b DEF Done, Uncommitted, Complete
  <2>3. \A s : InCopy(s)' = InCopy(s)
    BY <1>b DEF InCopy, Displaced
  <2>4. OneRoot' /\ JobOK'
    BY <1>a, <1>b DEF OneRoot, JobOK
  <2>5. PlacesOK'
    BY <1>a, <1>b, <2>1, <2>2 DEF PlacesOK
  <2>6. \A d : Keeper(d)' = Keeper(d)
    BY <1>b, <2>1, <2>2 DEF Keeper
  <2>7. UpOK' /\ SettledOK'
    BY <1>a, <1>b, <2>1, <2>2, <2>6 DEF UpOK, SettledOK, Final
  <2>8. AcceptedOK'
    BY <1>a, <1>b, <2>6 DEF AcceptedOK, Kept
  <2>9. RoleSideOK'
    BY <1>a, <1>b, <2>1, <2>3 DEF RoleSideOK
  <2> QED BY <2>4, <2>5, <2>7, <2>8, <2>9
<1>7. HoldersOK'
  <2>1. Final(Sidecar) = Final(Sidecar)'
    BY <1>b DEF Final, Sidecar, Kind
  <2>2. \A d \in Dirs : held[d] \in {Daemon, Archiver} => held'[d] = held[d]
    BY Names
  <2> QED BY <1>a, <1>b, <2>1, <2>2, HoldersStay
<1> QED BY <1>1, <1>2, <1>4, <1>5, <1>6, <1>7 DEF IInv, StateInv, RunInv, LayoutInv

LEMMA WithProper ==
  ASSUME NEW m \in Markers, Proper(m),
         NEW st \in {"preparing", "prepared", "backed-up", "published", "complete", "rolled-back"}
  PROVE  /\ With(m, st) \in Markers /\ Proper(With(m, st)) /\ With(m, st).kind = m.kind
         /\ With(m, st).id = m.id /\ With(m, st).orig = m.orig /\ With(m, st).status = st
<1>1. st \in Statuses
  BY DEF Statuses
<1> QED BY <1>1, MarkerWith DEF Proper

\* The marker of a run, and where the original is for it.
LEMMA RunHas ==
  ASSUME StateInv, NEW p \in Tools, tool[p].pc # "idle"
  PROVE  \E m \in Markers :
           /\ tool[p].m = m /\ Proper(m) /\ m.kind = Kind /\ m.id \in Stages /\ m.id \in Dirs
           /\ m.id # Original /\ m.id \notin Fresh /\ m.id # m.orig /\ m.id # None
           /\ m.status \in Statuses
           /\ m.orig # None => m.orig \in Dirs
           /\ IF Rooted THEN m.orig = Original ELSE m.orig \in Fresh \cup {None}
<1>1. PICK m : m = tool[p].m
  OBVIOUS
<1>2. m \in Markers /\ Proper(m)
  BY <1>1, MarkersHeld DEF StateInv
<1> QED BY <1>1, <1>2, MarkerFields, Names DEF Proper

LEMMA RunEnds ==
  ASSUME IInv, NEW p \in Tools, Abort(p) \/ Refuse(p), UNCHANGED archiveVars
  PROVE  IInv'
<1>1. /\ UNCHANGED <<where, layout, work, mark, side, daemon, accepted, bot, bundles, job>>
      /\ tool' = [tool EXCEPT ![p] = Idle]
      /\ held' = [d \in Dirs |-> IF held[d] = p THEN Nobody ELSE held[d]]
  BY DEF Abort, Refuse, Finish, Run, Drop, Idle, archiveVars
<1>2. held' \in [Dirs -> Tools \cup {Daemon, Archiver, Nobody}]
  BY <1>1 DEF IInv, StateInv, Typed
<1>3. \A d \in Dirs : held[d] \notin {Nobody, p} => held'[d] = held[d]
  BY <1>1
<1>4. ToolOK(p)'
  <2>1. tool'[p].pc = "idle"
    BY <1>1 DEF Idle, IInv, StateInv, Typed
  <2> QED BY <2>1 DEF ToolOK
<1>5. Idle.pc = "idle"
  BY DEF Idle
<1> QED BY <1>1, <1>2, <1>3, <1>4, <1>5, RunOnly

\* Recover of a legacy migration has no upgrade's sidecar.
LEMMA LegacyReads ==
  ASSUME IInv, NEW p \in Tools, RecoverRead(p), UNCHANGED archiveVars
  PROVE  IInv'
<1>a. StateInv /\ Typed /\ MarkersOK
  BY DEF IInv, StateInv
<1>1. PICK m : m = side["legacy"]
  OBVIOUS
<1>2. m \in Markers /\ Proper(m) /\ Kind = "legacy"
  BY <1>1, <1>a, MarkersHeld DEF RecoverRead, Kinds, MarkersOK
<1>3. PICK t \in Runs : t = [pc |-> "recover", m |-> m]
  BY <1>2 DEF Runs, Points
<1>4. tool' = [tool EXCEPT ![p] = t]
  BY <1>1, <1>3 DEF RecoverRead, Run
<1>5. UNCHANGED <<where, layout, work, mark, side, held, daemon, accepted, bot, bundles, job>>
  BY DEF RecoverRead, archiveVars
<1>6. ToolOK(p)'
  <2>1. tool'[p] = t
    BY <1>4, <1>a DEF Typed
  <2>2. Kind' = "legacy"
    BY <1>2, <1>5 DEF Kind
  <2>3. t.pc = "recover"
    BY <1>3
  <2> QED BY <2>1, <2>2, <2>3 DEF ToolOK, LegacyOK, CopyOK, Forward
<1>7. held' \in [Dirs -> Tools \cup {Daemon, Archiver, Nobody}]
  BY <1>5, <1>a DEF Typed
<1> QED BY <1>2, <1>3, <1>4, <1>5, <1>6, <1>7, RunOnly

\* A recovery that only decides what to do with an upgrade.
LEMMA RoleRecovers ==
  ASSUME IInv, NEW p \in Tools, RecoverRole(p), UNCHANGED archiveVars
  PROVE  IInv'
<1>a. StateInv /\ Typed /\ OneRoot /\ MarkersOK /\ PlacesOK /\ RoleSideOK
  BY DEF IInv, StateInv, RunInv
<1>1. PICK m : m = side["role"]
  OBVIOUS
<1>2. /\ m \in Markers /\ Proper(m) /\ Kind = "role" /\ ~Final(m) /\ Sidecar = m
      /\ m.id \in Stages /\ m.id \in Dirs /\ m.status \in Statuses
  <2>1. m \in Markers /\ Proper(m) /\ Kind = "role" /\ ~Final(m)
    BY <1>1, <1>a, MarkersHeld DEF RecoverRole, Kinds, MarkersOK
  <2> QED BY <1>1, <2>1, MarkerFields, Names DEF Sidecar
<1>3. m.orig = Original /\ where[Original] \in {"root", "backup"}
  BY <1>2, <1>a DEF Proper, PlacesOK, Rooted, Kind
<1>4. PICK ds : /\ held' = [d \in Dirs |-> IF d \in ds THEN p ELSE held[d]]
                /\ Unheld(ds) /\ (where[Original] = "root" => Original \in ds)
  <2>1. where[Original] = "root" => Root = Original
    BY <1>a, RootIs, Names
  <2> QED BY <1>1, <2>1, Names DEF RecoverRole, Take
<1>5. /\ UNCHANGED <<where, layout, work, mark, side, daemon, accepted, bot, bundles, job>>
      /\ \A q \in Tools : ~Active(q)
  BY DEF RecoverRole, archiveVars, TransactionFree, Active
<1>6. \E t \in Runs :
        /\ tool' = [tool EXCEPT ![p] = t] /\ t.pc # "idle" /\ Proper(t.m) /\ t.m.id = m.id
        /\ \/ t.pc = "side" /\ t.m.status = "rolled-back" /\ m.status = "preparing"
           \/ /\ t.pc = "mark" /\ t.m.status = "complete" /\ where[m.id] = "root"
              /\ m.status # "preparing"
           \/ t = [pc |-> "out", m |-> m] /\ m.status = "prepared" /\ where[m.id] = "stage"
           \/ /\ t = [pc |-> "in", m |-> m] /\ m.status \notin {"preparing", "prepared"}
              /\ where[m.id] = "stage"
  <2>1. \A st \in Statuses : With(m, st) \in Markers /\ Proper(With(m, st)) /\ With(m, st).id = m.id
                             /\ With(m, st).status = st
    BY <1>2, MarkerWith DEF Proper
  <2>2. {"rolled-back", "complete"} \subseteq Statuses
    BY DEF Statuses
  <2>3. \A n \in Markers, pc \in Points : [pc |-> pc, m |-> n] \in Runs
    BY DEF Runs
  <2>4. CASE m.status = "preparing" /\ Run(p, "side", With(m, "rolled-back"))
    <3>1. PICK n \in Markers : n = With(m, "rolled-back") /\ Proper(n) /\ n.id = m.id /\ n.status = "rolled-back"
      BY <2>1, <2>2
    <3>2. PICK t \in Runs : t = [pc |-> "side", m |-> n]
      BY <2>3 DEF Points
    <3> QED BY <2>4, <3>1, <3>2 DEF Run
  <2>5. CASE m.status # "preparing" /\ Migrated(m) /\ Run(p, "mark", With(m, "complete"))
    <3>1. PICK n \in Markers : n = With(m, "complete") /\ Proper(n) /\ n.id = m.id /\ n.status = "complete"
      BY <2>1, <2>2
    <3>2. PICK t \in Runs : t = [pc |-> "mark", m |-> n]
      BY <2>3 DEF Points
    <3>3. Root # None /\ mark[Root] # NoMark /\ mark[Root].id = m.id
      BY <2>5, <1>2, NoMarkIs DEF Migrated, MarkOf, Proper
    <3>4. where[m.id] = "root"
      BY <3>3, <1>a, RootIs DEF MarkersOK
    <3> QED BY <2>5, <3>1, <3>2, <3>4 DEF Run
  <2>6. CASE m.status = "prepared" /\ where[m.id] = "stage" /\ Run(p, "out", m)
    <3>1. PICK t \in Runs : t = [pc |-> "out", m |-> m]
      BY <1>2, <2>3 DEF Points
    <3> QED BY <1>2, <2>6, <3>1 DEF Run
  <2>7. CASE m.status \notin {"preparing", "prepared"} /\ where[m.id] = "stage" /\ Run(p, "in", m)
    <3>1. PICK t \in Runs : t = [pc |-> "in", m |-> m]
      BY <1>2, <2>3 DEF Points
    <3> QED BY <1>2, <2>7, <3>1 DEF Run
  <2> QED BY <1>1, <2>4, <2>5, <2>6, <2>7 DEF RecoverRole
<1>7. PICK t \in Runs :
        /\ tool' = [tool EXCEPT ![p] = t] /\ t.pc # "idle" /\ Proper(t.m) /\ t.m.id = m.id
        /\ \/ t.pc = "side" /\ t.m.status = "rolled-back" /\ m.status = "preparing"
           \/ /\ t.pc = "mark" /\ t.m.status = "complete" /\ where[m.id] = "root"
              /\ m.status # "preparing"
           \/ t = [pc |-> "out", m |-> m] /\ m.status = "prepared" /\ where[m.id] = "stage"
           \/ /\ t = [pc |-> "in", m |-> m] /\ m.status \notin {"preparing", "prepared"}
              /\ where[m.id] = "stage"
  BY <1>6
<1>8. /\ m.status \in {"preparing", "prepared", "backed-up", "published"}
      /\ where[m.id] = "root" => m.status # "prepared"
      /\ where[m.id] = "stage" => m.status # "published"
      /\ m.status # "preparing" => layout[m.id] = "v3" /\ InCopy(m.id)
  BY <1>2, <1>a DEF RoleSideOK, Final, Statuses
<1>9. ToolOK(p)'
  <2>1. tool'[p] = t
    BY <1>7, <1>a DEF Typed
  <2>2. /\ Kind' = "role" /\ Rooted' = Rooted /\ Sidecar' = m /\ Complete(m.id)' = Complete(m.id)
        /\ where' = where /\ mark' = mark /\ layout' = layout
    BY <1>2, <1>5 DEF Kind, Rooted, Sidecar, Complete
  <2>3. InCopy(m.id) => InCopy(m.id)'
    BY <1>5 DEF InCopy, Displaced
  <2>4. where[Original] = "root" => held'[Original] = p
    BY <1>4, Names
  <2>5. RoleOK(p)'
    BY <1>3, <1>7, <1>8, <2>1, <2>2, <2>4 DEF RoleOK, Is
  <2>6. CopyOK(p)'
    BY <1>7, <1>8, <2>1, <2>2, <2>3 DEF CopyOK, Forward
  <2> QED BY <2>2, <2>5, <2>6 DEF ToolOK
<1>10. held' \in [Dirs -> Tools \cup {Daemon, Archiver, Nobody}]
  BY <1>4, <1>a DEF Typed
<1>11. \A d \in Dirs : held[d] \notin {Nobody, p} => held'[d] = held[d]
  BY <1>4 DEF Unheld
<1> QED BY <1>5, <1>7, <1>9, <1>10, <1>11, RunOnly

\* A stage that is committed at the root holds what was accepted.
LEMMA CommittedHolds ==
  ASSUME StateInv, AcceptedOK, NEW s \in Stages, where[s] = "root", Complete(s)
  PROVE  InCopy(s)
<1> SUFFICES ASSUME NEW w \in accepted, w \notin Displaced PROVE w \in work[s]
  BY DEF InCopy
<1>1. PICK d \in Dirs : w \in work[d] /\ (Keeper(d) \/ (d \in Fresh /\ where[d] = "aside"))
  BY DEF AcceptedOK, Kept
<1>2. Keeper(d)
  BY <1>1 DEF Displaced
<1>3. d \in Stages \cup Fresh /\ where[d] = "root"
  BY <1>2, Names DEF Keeper, Done
<1> QED BY <1>1, <1>3, Names DEF StateInv, OneRoot

\* Committed is that a stage at the root is complete.
LEMMA CommittedIs ==
  ASSUME StateInv, Kind = "legacy"
  PROVE  Committed <=> Done
<1>a. OneRoot /\ MarkersOK /\ PlacesOK
  BY DEF StateInv
<1>1. ASSUME Committed PROVE Done
  <2>1. Root # None /\ mark[Root] # NoMark /\ Complete(Root)
    BY <1>1, NoMarkIs DEF Committed, MarkOf, Complete
  <2> QED BY <2>1, <1>a, RootIs DEF MarkersOK, Done
<1>2. ASSUME Done PROVE Committed
  <2>1. PICK s \in Stages : where[s] = "root" /\ Complete(s)
    BY <1>2 DEF Done
  <2>2. Root = s /\ s # None
    BY <2>1, <1>a, RootIs, Names
  <2>3. mark[s].kind = "legacy"
    BY <2>1, <1>a, Names, NoMarkIs DEF Complete, MarkersOK, Proper
  <2> QED BY <2>1, <2>2, <2>3 DEF Committed, MarkOf, Complete
<1> QED BY <1>1, <1>2

\* A legacy recovery that only decides: the root is committed, or untouched.
LEMMA LegacyDecides ==
  ASSUME IInv, NEW p \in Tools, tool[p].pc = "recover", TransactionFree,
         UNCHANGED <<where, layout, work, mark, side, held, daemon, accepted, faults>>,
         UNCHANGED archiveVars,
         \/ Committed /\ Run(p, "side", mark[Root])
         \/ /\ tool[p].m.orig \notin At("backup") \cup {None}
            /\ Root # None /\ MarkOf(Root) = NoMark
            /\ Run(p, "side", With(tool[p].m, "rolled-back"))
  PROVE  IInv'
<1>a. /\ StateInv /\ Typed /\ OneRoot /\ MarkersOK /\ PlacesOK /\ AcceptedOK
      /\ ToolOK(p) /\ \A q \in Tools : ~Active(q)
  BY DEF IInv, StateInv, RunInv, LayoutInv, TransactionFree, Active
<1>1. PICK m \in Markers :
           /\ tool[p].m = m /\ Proper(m) /\ m.kind = Kind /\ (m.orig # None => m.orig \in Dirs)
           /\ IF Rooted THEN m.orig = Original ELSE m.orig \in Fresh \cup {None}
  BY <1>a, RunHas
<1>2. Kind = "legacy"
  BY <1>a DEF ToolOK, RoleOK, Is, Kind
<1>3. UNCHANGED <<where, layout, work, mark, side, held, daemon, accepted, bot, bundles, job>>
  BY DEF archiveVars
<1>4. \E t \in Runs :
        /\ tool' = [tool EXCEPT ![p] = t] /\ t.pc = "side" /\ Proper(t.m)
        /\ \/ /\ t.m.status = "complete" /\ mark[t.m.id] = t.m /\ layout[t.m.id] = "v3"
              /\ InCopy(t.m.id)
           \/ /\ t.m.status = "rolled-back" /\ ~Uncommitted
              /\ Rooted => where[Original] = "root"
  <2>1. \A n \in Markers : [pc |-> "side", m |-> n] \in Runs
    BY DEF Runs, Points
  <2>2. CASE Committed /\ Run(p, "side", mark[Root])
    <3>1. /\ Root # None /\ mark[Root] # NoMark /\ Complete(Root)
          /\ mark[Root].status = "complete"
      BY <2>2, NoMarkIs DEF Committed, MarkOf, Complete
    <3>2. PICK s \in Stages : s = Root /\ where[s] = "root" /\ mark[s] # NoMark
      BY <3>1, <1>a, RootIs DEF MarkersOK
    <3>3. PICK n \in Markers : n = mark[s] /\ Proper(n) /\ n.id = s /\ n.status = "complete"
      BY <3>1, <3>2, <1>a, MarkersHeld, Names DEF MarkersOK
    <3>4. InCopy(s) /\ layout[s] = "v3"
      BY <3>1, <3>2, <1>a, CommittedHolds DEF PlacesOK
    <3>5. PICK t \in Runs : t = [pc |-> "side", m |-> n]
      BY <2>1
    <3>6. tool' = [tool EXCEPT ![p] = t]
      BY <2>2, <3>2, <3>3, <3>5 DEF Run
    <3> QED BY <3>3, <3>4, <3>5, <3>6
  <2>3. CASE /\ m.orig \notin At("backup") \cup {None}
             /\ Root # None /\ MarkOf(Root) = NoMark
             /\ Run(p, "side", With(m, "rolled-back"))
    <3>1. PICK n \in Markers : n = With(m, "rolled-back") /\ Proper(n) /\ n.status = "rolled-back"
      BY <1>1, WithProper
    <3>2. PICK t \in Runs : t = [pc |-> "side", m |-> n]
      BY <2>1
    <3>3. ~Uncommitted
      BY <2>3, <1>a, RootIs, Names DEF Uncommitted, MarkOf, PlacesOK
    <3>4. Rooted => where[Original] = "root"
      BY <2>3, <1>1, <1>a, Names DEF At, Rooted, PlacesOK
    <3> QED BY <2>3, <3>1, <3>2, <3>3, <3>4 DEF Run
  <2> QED BY <1>1, <2>2, <2>3 DEF Run
<1>5. PICK t \in Runs :
        /\ tool' = [tool EXCEPT ![p] = t] /\ t.pc = "side" /\ Proper(t.m)
        /\ \/ /\ t.m.status = "complete" /\ mark[t.m.id] = t.m /\ layout[t.m.id] = "v3"
              /\ InCopy(t.m.id)
           \/ /\ t.m.status = "rolled-back" /\ ~Uncommitted
              /\ Rooted => where[Original] = "root"
  BY <1>4
<1>6. ToolOK(p)'
  <2>1. tool'[p] = t
    BY <1>5, <1>a DEF Typed
  <2>2. /\ Kind' = "legacy" /\ Rooted' = Rooted /\ Uncommitted' = Uncommitted
        /\ where' = where /\ mark' = mark /\ layout' = layout
    BY <1>2, <1>3 DEF Kind, Rooted, Uncommitted, Complete
  <2>3. InCopy(t.m.id) => InCopy(t.m.id)'
    BY <1>3 DEF InCopy, Displaced
  <2>4. LegacyOK(p)'
    BY <1>5, <2>1, <2>2 DEF LegacyOK, Is
  <2>5. CopyOK(p)'
    BY <1>5, <2>1, <2>2, <2>3 DEF CopyOK, Forward
  <2> QED BY <2>2, <2>4, <2>5 DEF ToolOK
<1>7. held' \in [Dirs -> Tools \cup {Daemon, Archiver, Nobody}]
  BY <1>3, <1>a DEF Typed
<1> QED BY <1>3, <1>5, <1>6, <1>7, <1>a, RunOnly

-----------------------------------------------------------------------------
(***************************************************************************)
(* The renames.                                                             *)
(***************************************************************************)

Places == {"none", "source", "root", "stage", "backup", "aside"}

\* A rename leaves what directories hold alone, moves nothing that is locked by
\* another process, and takes from the root only what keeps nothing, or aside.
Renamed(p) ==
    /\ UNCHANGED <<layout, work, mark, side, daemon, accepted, bot, bundles, job>>
    /\ where' \in [Dirs -> Places]
    /\ held' \in [Dirs -> Tools \cup {Daemon, Archiver, Nobody}]
    /\ \A d \in Dirs : held[d] \in {Daemon, Archiver} =>
          /\ held'[d] = held[d]
          /\ where[d] = "root" /\ layout[d] # "empty" => where'[d] = "root"
    /\ where'[Original] \in {"root", "backup", "source"}
    /\ where'[Original] = "source" <=> where[Original] = "source"
    /\ \A s \in Stages : \/ where'[s] = where[s]
                         \/ where'[s] = "root" /\ layout[s] = "v3" /\ mark[s] # NoMark
                         \/ where'[s] = "aside" /\ ~Complete(s)
    /\ \A f \in Fresh : where'[f] \in {"none", "root", "backup", "aside"}
    /\ \A f \in Fresh : where[f] = "aside" => where'[f] = "aside"

Keeps == \A d \in Dirs : Keeper(d) =>
            Keeper(d)' \/ (d \in Fresh /\ (where'[d] = "aside" \/ work[d] = {}))

LEMMA RenamedSame ==
  ASSUME NEW p, Renamed(p)
  PROVE  /\ Kind' = Kind /\ Rooted' = Rooted /\ Sidecar' = Sidecar /\ Same
         /\ layout' = layout /\ work' = work /\ mark' = mark /\ side' = side
         /\ accepted' = accepted /\ daemon' = daemon /\ job' = job
         /\ \A d : Complete(d)' = Complete(d)
         /\ \A s : InCopy(s) => InCopy(s)'
<1>1. /\ layout' = layout /\ work' = work /\ mark' = mark /\ side' = side
      /\ accepted' = accepted /\ daemon' = daemon /\ job' = job
  BY DEF Renamed
<1>2. Same /\ Kind' = Kind /\ Rooted' = Rooted
  BY <1>1, SameIs DEF Renamed, Same
<1>3. Sidecar' = Sidecar /\ \A d : Complete(d)' = Complete(d)
  BY <1>1, <1>2 DEF Sidecar, Complete
<1>4. \A w \in Displaced : w \in Displaced'
  BY <1>1, Names DEF Displaced, Renamed
<1>5. \A s : InCopy(s) => InCopy(s)'
  BY <1>1, <1>4 DEF InCopy
<1> QED BY <1>1, <1>2, <1>3, <1>5

LEMMA MoveInv ==
  ASSUME IInv, NEW p \in Tools, Active(p) \/ TransactionFree, Renamed(p), Keeps,
         NEW t, tool' = [tool EXCEPT ![p] = t],
         t = Idle \/ (t \in Runs /\ t.pc # "idle" /\ Proper(t.m)),
         OneRoot', RoleSideOK', ToolOK(p)', SettledOK'
  PROVE  IInv'
<1>a. /\ StateInv /\ Typed /\ OneRoot /\ PlacesOK /\ MarkersOK /\ HoldersOK /\ UpOK /\ AcceptedOK
  BY DEF IInv, StateInv, LayoutInv
<1>b. /\ layout' = layout /\ work' = work /\ mark' = mark /\ side' = side
      /\ accepted' = accepted /\ daemon' = daemon /\ job' = job /\ bot' = bot
      /\ Kind' = Kind /\ Rooted' = Rooted /\ Sidecar' = Sidecar /\ Same
      /\ \A d : Complete(d)' = Complete(d)
  BY RenamedSame DEF Renamed
<1>1. MarkersOK' /\ tool' \in [Tools -> Runs]
  BY <1>a, <1>b, RunMarkers
<1>2. Typed'
  BY <1>1, <1>a, <1>b DEF Typed, Renamed, Places
<1>3. PlacesOK'
  <2>1. \A d \in Dirs : Complete(d) => where'[d] = "root"
    BY <1>a, MarkersHeld DEF PlacesOK, MarkersOK, Renamed
  <2>2. \A s \in Stages : where'[s] \in {"none", "stage", "root", "aside"}
    BY <1>a DEF PlacesOK, Renamed
  <2>3. \A s \in Stages : where'[s] = "root" => layout[s] = "v3" /\ mark[s] # NoMark
    BY <1>a DEF PlacesOK, Renamed
  <2>4. /\ where'[Original] \in {"root", "backup", "source"}
        /\ \A f \in Fresh : where'[f] \in {"none", "root", "backup", "aside"}
    BY DEF Renamed
  <2> QED BY <1>a, <1>b, <2>1, <2>2, <2>3, <2>4 DEF PlacesOK
<1>4. HoldersOK'
  <2>1. Final(Sidecar) = Final(Sidecar)'
    BY <1>b DEF Final
  <2> QED BY <1>a, <1>b, <2>1, HoldersStay DEF Renamed
<1>5. UpOK'
  <2> SUFFICES ASSUME daemon.pc = "up" PROVE UpOK'
    BY <1>b DEF UpOK
  <2>1. PICK d \in Dirs : d = daemon.dir
    BY <1>a DEF HoldersOK, Typed
  <2>2. where[d] = "root" /\ held[d] = Daemon /\ layout[d] = "v3" /\ Keeper(d)
    BY <1>a, <2>1 DEF HoldersOK, UpOK
  <2>3. where'[d] = "root"
    BY <2>2 DEF Renamed
  <2>4. Keeper(d)'
    BY <1>b, <2>2, <2>3, Names DEF Keeps, Keeper
  <2>5. Final(Sidecar)' = Final(Sidecar)
    BY <1>b DEF Final
  <2> QED BY <1>a, <1>b, <2>1, <2>2, <2>4, <2>5 DEF UpOK
<1>6. AcceptedOK'
  <2> SUFFICES ASSUME NEW w \in accepted PROVE Kept(w)'
    BY <1>b DEF AcceptedOK
  <2>1. PICK d \in Dirs : w \in work[d] /\ (Keeper(d) \/ (d \in Fresh /\ where[d] = "aside"))
    BY <1>a DEF AcceptedOK, Kept
  <2>2. Keeper(d)' \/ (d \in Fresh /\ where'[d] = "aside")
    BY <2>1 DEF Keeps, Renamed
  <2> QED BY <1>b, <2>1, <2>2 DEF Kept
<1>7. \A q \in Tools \ {p} : tool'[q] = tool[q]
  BY <1>a DEF Typed
<1>8. UNCHANGED <<daemon, accepted, bot, bundles, job>>
  BY DEF Renamed
<1> QED BY <1>b, <1>1, <1>2, <1>3, <1>4, <1>5, <1>6, <1>7, <1>8, ToolInv

\* A legacy recovery sets the root aside, if there is one without a commit.
LEMMA RootSetAside ==
  ASSUME IInv, NEW p \in Tools, tool[p].pc = "recover", TransactionFree, ~Committed,
         UNCHANGED <<layout, work, mark, side, daemon, accepted, faults>>, UNCHANGED archiveVars,
         Unheld({tool[p].m.orig, Root} \ {None}), Take(p, {tool[p].m.orig, Root} \ {None}), SetAside,
         \/ tool[p].m.orig = None /\ Run(p, "side", With(tool[p].m, "rolled-back"))
         \/ tool[p].m.orig \in At("backup") /\ Run(p, "restore", tool[p].m)
  PROVE  IInv'
<1>a. /\ StateInv /\ Typed /\ OneRoot /\ MarkersOK /\ PlacesOK /\ SettledOK /\ ToolOK(p)
  BY DEF IInv, StateInv, RunInv, LayoutInv
<1>1. PICK m \in Markers :
           /\ tool[p].m = m /\ Proper(m) /\ (m.orig # None => m.orig \in Dirs)
           /\ IF Rooted THEN m.orig = Original ELSE m.orig \in Fresh \cup {None}
  BY <1>a, RunHas
<1>2. Kind = "legacy"
  BY <1>a DEF ToolOK, RoleOK, Is, Kind
<1>3. ~Done
  BY <1>2, <1>a, CommittedIs
<1>4. m.orig = None \/ where[m.orig] = "backup"
  BY <1>1, Names DEF At
<1>5. /\ \A d \in Dirs : where[d] # "root" => where'[d] = where[d]
      /\ \A d \in Dirs : where[d] = "root" => where'[d] = "aside" /\ held[d] = Nobody
      /\ where' \in [Dirs -> Places]
  <2>1. CASE Root = None
    BY <2>1, <1>a, RootIs DEF SetAside, Typed, Places
  <2>2. CASE Root # None
    <3>1. PICK r \in Dirs : r = Root /\ where[r] = "root" /\ \A d \in Dirs : where[d] = "root" => d = r
      BY <2>2, <1>a, RootIs
    <3>2. where' = [where EXCEPT ![r] = "aside"] /\ held[r] = Nobody
      BY <2>2, <3>1 DEF SetAside, Move, Unheld
    <3> QED BY <3>1, <3>2, <1>a DEF Typed, Places
  <2> QED BY <2>1, <2>2
<1>6. where[Original] # "root" /\ (Rooted => where[Original] = "backup")
  BY <1>1, <1>4, <1>a, Names DEF Rooted, PlacesOK
<1>7. Renamed(p)
  <2>1. UNCHANGED <<layout, work, mark, side, daemon, accepted, bot, bundles, job>>
    BY DEF archiveVars
  <2>2. /\ held' \in [Dirs -> Tools \cup {Daemon, Archiver, Nobody}]
        /\ \A d \in Dirs : held[d] \in {Daemon, Archiver} => held'[d] = held[d]
    BY <1>a, Names DEF Take, Unheld, Typed
  <2>3. where'[Original] = where[Original]
    BY <1>5, <1>6, Names
  <2>4. \A s \in Stages : where'[s] = where[s] \/ (where'[s] = "aside" /\ ~Complete(s))
    BY <1>3, <1>5, Names DEF Done
  <2>5. \A f \in Fresh : /\ where'[f] \in {"none", "root", "backup", "aside"}
                         /\ where[f] = "aside" => where'[f] = "aside"
    BY <1>5, <1>a, Names DEF PlacesOK
  <2>6. \A d \in Dirs : held[d] \in {Daemon, Archiver} => where[d] # "root"
    BY <1>5, Names
  <2> QED BY <1>5, <1>a, <2>1, <2>2, <2>3, <2>4, <2>5, <2>6 DEF Renamed, PlacesOK
<1>8. /\ Kind' = Kind /\ Rooted' = Rooted /\ Sidecar' = Sidecar /\ \A d : Complete(d)' = Complete(d)
  BY <1>7, RenamedSame
<1>9. /\ ~Done' /\ ~Uncommitted' /\ OneRoot'
  BY <1>5, Names DEF Done, Uncommitted, OneRoot
<1>10. Keeps
  <2>1. \A d \in Dirs : Keeper(d) /\ d \in Fresh => where'[d] = "aside"
    BY <1>5, Names DEF Keeper
  <2>2. \A d \in Dirs : Keeper(d) /\ d \notin Fresh => Keeper(d)'
    BY <1>3, <1>8, <1>9, Names DEF Keeper, Done
  <2> QED BY <2>1, <2>2 DEF Keeps
<1>11. SettledOK'
  <2>1. where'[Original] = "backup" => where[Original] = "backup"
    BY <1>5, <1>6, Names
  <2> QED BY <1>3, <1>8, <1>9, <1>a, <2>1 DEF SettledOK, Final
<1>12. RoleSideOK'
  BY <1>2, <1>8 DEF RoleSideOK
<1>13. \E t \in Runs :
         /\ tool' = [tool EXCEPT ![p] = t] /\ t.pc # "idle" /\ Proper(t.m)
         /\ \/ t.pc = "side" /\ t.m.status = "rolled-back" /\ m.orig = None
            \/ t.pc = "restore" /\ t.m.orig = m.orig /\ m.orig # None
  <2>1. CASE m.orig = None /\ Run(p, "side", With(m, "rolled-back"))
    <3>1. PICK n \in Markers : n = With(m, "rolled-back") /\ Proper(n) /\ n.status = "rolled-back"
      BY <1>1, WithProper
    <3>2. PICK t \in Runs : t = [pc |-> "side", m |-> n]
      BY DEF Runs, Points
    <3> QED BY <2>1, <3>1, <3>2 DEF Run
  <2>2. CASE m.orig \in At("backup") /\ Run(p, "restore", m)
    <3>1. PICK t \in Runs : t = [pc |-> "restore", m |-> m]
      BY DEF Runs, Points
    <3> QED BY <1>1, <2>2, <3>1, Names DEF Run, At
  <2> QED BY <1>1, <2>1, <2>2 DEF Run
<1>14. PICK t \in Runs :
         /\ tool' = [tool EXCEPT ![p] = t] /\ t.pc # "idle" /\ Proper(t.m)
         /\ \/ t.pc = "side" /\ t.m.status = "rolled-back" /\ m.orig = None
            \/ t.pc = "restore" /\ t.m.orig = m.orig /\ m.orig # None
  BY <1>13
<1>15. ToolOK(p)'
  <2>1. tool'[p] = t
    BY <1>14, <1>a DEF Typed
  <2>2. m.orig # None => where'[m.orig] = "backup"
    BY <1>1, <1>4, <1>5
  <2>3. m.orig = None => ~Rooted
    BY <1>1, Names
  <2>4. LegacyOK(p)'
    BY <1>8, <1>9, <1>14, <2>1, <2>2, <2>3 DEF LegacyOK, Is
  <2>5. CopyOK(p)'
    BY <1>14, <2>1 DEF CopyOK, Forward
  <2> QED BY <1>2, <1>8, <2>4, <2>5 DEF ToolOK
<1> QED BY <1>7, <1>9, <1>10, <1>11, <1>12, <1>14, <1>15, MoveInv

LEMMA LegacyRecovers ==
  ASSUME IInv, NEW p \in Tools, RecoverLegacy(p), UNCHANGED archiveVars
  PROVE  IInv'
<1>1. /\ tool[p].pc = "recover" /\ TransactionFree
      /\ UNCHANGED <<layout, work, mark, side, daemon, accepted, faults>>
  BY DEF RecoverLegacy
<1>2. CASE Committed /\ Run(p, "side", mark[Root]) /\ UNCHANGED <<where, held>>
  BY <1>1, <1>2, LegacyDecides
<1>3. CASE /\ tool[p].m.orig \notin At("backup") \cup {None}
           /\ Root # None /\ MarkOf(Root) = NoMark
           /\ Run(p, "side", With(tool[p].m, "rolled-back")) /\ UNCHANGED <<where, held>>
  BY <1>1, <1>3, LegacyDecides
<1>4. CASE /\ ~Committed
           /\ Unheld({tool[p].m.orig, Root} \ {None}) /\ Take(p, {tool[p].m.orig, Root} \ {None})
           /\ SetAside
           /\ \/ tool[p].m.orig = None /\ Run(p, "side", With(tool[p].m, "rolled-back"))
              \/ tool[p].m.orig \in At("backup") /\ Run(p, "restore", tool[p].m)
  BY <1>1, <1>4, RootSetAside
<1> QED BY <1>2, <1>3, <1>4 DEF RecoverLegacy

\* The original, or the empty target, comes back to the root.
LEMMA OrigBack ==
  ASSUME IInv, NEW m \in Markers, Proper(m), m.orig # None, where[m.orig] = "backup",
         Kind = "legacy", ~Done, ~Uncommitted, RootLayout \in {"absent", "empty"},
         where' = [d \in Dirs |-> CASE d = m.orig -> "root" [] d = Root -> "none" [] OTHER -> where[d]],
         NEW p \in Tools, held' \in [Dirs -> Tools \cup {Daemon, Archiver, Nobody}],
         \A d \in Dirs : held[d] \in {Daemon, Archiver} => held'[d] = held[d],
         UNCHANGED <<layout, work, mark, side, daemon, accepted, bot, bundles, job>>
  PROVE  /\ Renamed(p) /\ Keeps /\ OneRoot' /\ SettledOK' /\ RoleSideOK' /\ ~Uncommitted'
         /\ Rooted => where'[Original] = "root"
<1>a. StateInv /\ Typed /\ OneRoot /\ MarkersOK /\ PlacesOK /\ SettledOK
  BY DEF IInv, StateInv, LayoutInv
<1>1. /\ m.orig \in Dirs /\ m.orig \notin Stages
      /\ IF Rooted THEN m.orig = Original ELSE m.orig \in Fresh
  BY <1>a, MarkerFields, Names DEF Proper
<1>2. \A d \in Dirs : where[d] = "root" => Root = d /\ d \in Fresh /\ layout[d] = "empty" /\ work[d] = {}
  <2> SUFFICES ASSUME NEW d \in Dirs, where[d] = "root"
               PROVE  Root = d /\ d \in Fresh /\ layout[d] = "empty" /\ work[d] = {}
    OBVIOUS
  <2>1. Root = d /\ d # None
    BY <1>a, RootIs, Names
  <2>2. layout[Root] = "empty"
    BY <1>a, <2>1 DEF RootLayout, Typed
  <2> QED BY <1>a, <2>1, <2>2, BareRoot
<1>3. /\ where'[m.orig] = "root"
      /\ \A d \in Dirs : d # m.orig /\ where[d] = "root" => where'[d] = "none"
      /\ \A d \in Dirs : d # m.orig /\ where[d] # "root" => where'[d] = where[d]
  <2>1. \A d \in Dirs : d = Root => where[d] = "root"
    BY <1>a, RootIs, Names
  <2>2. \A d \in Dirs : where'[d] = CASE d = m.orig -> "root" [] d = Root -> "none" [] OTHER -> where[d]
    OBVIOUS
  <2> QED BY <1>1, <1>2, <2>1, <2>2
<1>4. where' \in [Dirs -> Places]
  <2>1. \A d \in Dirs : where[d] \in Places
    BY <1>a DEF Typed, Places
  <2>2. \A d \in Dirs : (CASE d = m.orig -> "root" [] d = Root -> "none" [] OTHER -> where[d]) \in Places
    BY <2>1 DEF Places
  <2> QED BY <2>2
<1>5. \A s \in Stages : where'[s] = where[s] /\ where[s] # "root"
  BY <1>1, <1>2, <1>3, Names
<1>6. IF Rooted THEN where'[Original] = "root" ELSE where'[Original] = "source" /\ where[Original] = "source"
  BY <1>1, <1>3, Names DEF Rooted
<1>7. Renamed(p)
  <2>1. \A d \in Dirs : where[d] = "root" /\ layout[d] # "empty" => where'[d] = "root"
    BY <1>2
  <2>2. \A f \in Fresh : /\ where'[f] \in {"none", "root", "backup", "aside"}
                         /\ where[f] = "aside" => where'[f] = "aside"
    BY <1>1, <1>3, <1>a, Names DEF PlacesOK
  <2>3. /\ where'[Original] \in {"root", "backup", "source"}
        /\ where'[Original] = "source" <=> where[Original] = "source"
    BY <1>6 DEF Rooted
  <2> QED BY <1>4, <1>5, <2>1, <2>2, <2>3 DEF Renamed
<1>8. /\ Kind' = Kind /\ Rooted' = Rooted /\ Sidecar' = Sidecar /\ \A d : Complete(d)' = Complete(d)
  BY <1>7, RenamedSame
<1>9. ~Done' /\ ~Uncommitted'
  BY <1>5 DEF Done, Uncommitted
<1>10. OneRoot'
  BY <1>3 DEF OneRoot
<1>11. Keeps
  BY <1>2, <1>8, <1>9, Names DEF Keeps, Keeper, Done
<1>12. SettledOK'
  BY <1>6, <1>9 DEF SettledOK, Rooted
<1>13. RoleSideOK'
  BY <1>8 DEF RoleSideOK
<1> QED BY <1>6, <1>7, <1>9, <1>10, <1>11, <1>12, <1>13

LEMMA RootRestored ==
  ASSUME IInv, NEW p \in Tools, Restore(p), UNCHANGED archiveVars
  PROVE  IInv'
<1>a. StateInv /\ Typed /\ ToolOK(p) /\ Active(p)
  BY DEF IInv, StateInv, RunInv, Restore, Active
<1>1. PICK m \in Markers : tool[p].m = m /\ Proper(m)
  BY <1>a, RunHas DEF Active
<1>2. Kind = "legacy" /\ m.orig # None /\ where[m.orig] = "backup" /\ ~Done /\ ~Uncommitted
  <2>1. tool[p].pc = "restore"
    BY DEF Restore
  <2>2. Kind = "legacy"
    BY <1>a, <2>1 DEF ToolOK, RoleOK, Is, Kind
  <2> QED BY <1>a, <1>1, <2>1, <2>2 DEF ToolOK, LegacyOK, Is
<1>3. PICK n \in Markers : n = With(m, "rolled-back") /\ Proper(n) /\ n.status = "rolled-back"
  BY <1>1, WithProper
<1>4. PICK t \in Runs : t = [pc |-> "side", m |-> n]
  BY DEF Runs, Points
<1>5. /\ tool' = [tool EXCEPT ![p] = t]
      /\ UNCHANGED <<layout, work, mark, side, held, daemon, accepted, bot, bundles, job>>
      /\ RootLayout \in {"absent", "empty"}
  BY <1>1, <1>3, <1>4 DEF Restore, Run, archiveVars
<1>6. where' = [d \in Dirs |-> CASE d = m.orig -> "root" [] d = Root -> "none" [] OTHER -> where[d]]
  BY <1>1 DEF Restore
<1>7. held' \in [Dirs -> Tools \cup {Daemon, Archiver, Nobody}]
  BY <1>5, <1>a DEF Typed
<1>8. /\ Renamed(p) /\ Keeps /\ OneRoot' /\ SettledOK' /\ RoleSideOK' /\ ~Uncommitted'
      /\ Rooted => where'[Original] = "root"
  BY <1>1, <1>2, <1>5, <1>6, <1>7, OrigBack
<1>9. Kind' = Kind /\ Rooted' = Rooted
  BY <1>8, RenamedSame
<1>10. ToolOK(p)'
  <2>1. tool'[p] = t
    BY <1>5, <1>a DEF Typed
  <2> QED BY <1>2, <1>3, <1>4, <1>8, <1>9, <2>1 DEF ToolOK, LegacyOK, CopyOK, Forward, Is
<1> QED BY <1>3, <1>4, <1>5, <1>8, <1>10, <1>a, MoveInv

LEMMA RootPutBack ==
  ASSUME IInv, NEW p \in Tools, MoveBack(p), UNCHANGED archiveVars
  PROVE  IInv'
<1>a. StateInv /\ Typed /\ OneRoot /\ ToolOK(p) /\ Active(p)
  BY DEF IInv, StateInv, RunInv, MoveBack, Active
<1>1. PICK m \in Markers : tool[p].m = m /\ Proper(m) /\ m.kind = Kind /\ m.status \in Statuses
  BY <1>a, RunHas DEF Active
<1>2. Kind = "legacy" /\ m.orig # None /\ where[m.orig] = "backup" /\ Root = None
  <2>1. tool[p].pc = "in" /\ Kind = "legacy" /\ m.orig # None /\ Root = None
    BY <1>1 DEF MoveBack
  <2> QED BY <1>a, <1>1, <2>1 DEF ToolOK, LegacyOK, Is
<1>3. ~Done /\ ~Uncommitted /\ \A d \in Dirs : d # Root
  BY <1>2, <1>a, RootIs, Names DEF Done, Uncommitted
<1>4. /\ tool' = [tool EXCEPT ![p] = Idle]
      /\ held' = [d \in Dirs |-> IF held[d] = p THEN Nobody ELSE held[d]]
      /\ UNCHANGED <<layout, work, mark, side, daemon, accepted, bot, bundles, job>>
      /\ where' = [where EXCEPT ![m.orig] = "root"]
  BY <1>1 DEF MoveBack, Finish, Run, Drop, Idle, Move, archiveVars
<1>5. where' = [d \in Dirs |-> CASE d = m.orig -> "root" [] d = Root -> "none" [] OTHER -> where[d]]
  BY <1>3, <1>4, <1>a DEF Typed
<1>6. /\ held' \in [Dirs -> Tools \cup {Daemon, Archiver, Nobody}]
      /\ \A d \in Dirs : held[d] \in {Daemon, Archiver} => held'[d] = held[d]
  BY <1>4, <1>a, Names DEF Typed
<1>7. /\ Renamed(p) /\ Keeps /\ OneRoot' /\ SettledOK' /\ RoleSideOK'
  <2>1. RootLayout \in {"absent", "empty"}
    BY <1>2 DEF RootLayout
  <2> QED BY <1>1, <1>2, <1>3, <1>4, <1>5, <1>6, <2>1, OrigBack
<1>8. ToolOK(p)'
  <2>1. tool'[p].pc = "idle"
    BY <1>4, <1>a DEF Typed, Idle
  <2> QED BY <2>1 DEF ToolOK
<1> QED BY <1>4, <1>7, <1>8, <1>a, MoveInv

\* The upgrade's directories when its run is about to rename.
LEMMA RoleOut ==
  ASSUME IInv, NEW p \in Tools, MoveOut(p), Kind = "role", UNCHANGED archiveVars
  PROVE  IInv'
<1>a. /\ StateInv /\ Typed /\ OneRoot /\ MarkersOK /\ PlacesOK /\ SettledOK /\ RoleSideOK
      /\ ToolOK(p) /\ Active(p)
  BY DEF IInv, StateInv, LayoutInv, RunInv, MoveOut, Active
<1>1. PICK m \in Markers :
           /\ tool[p].m = m /\ Proper(m) /\ m.kind = Kind /\ m.id \in Stages /\ m.id \in Dirs
           /\ m.id # Original /\ m.orig = Original /\ Rooted
  <2>1. Rooted
    BY <1>a DEF PlacesOK, Kind
  <2> QED BY <1>a, <2>1, RunHas DEF Active
<1>2. /\ tool[p].pc = "out" /\ m.status = "prepared" /\ Sidecar.status = "prepared" /\ m.id = Sidecar.id
      /\ where[Original] = "backup" \/ (where[Original] = "root" /\ held[Original] = p)
  <2>1. tool[p].pc = "out" /\ RoleOK(p)
    BY <1>a DEF MoveOut, ToolOK
  <2> QED BY <1>1, <2>1 DEF RoleOK, Is
<1>3. PICK n \in Markers : /\ n = With(m, "backed-up") /\ Proper(n) /\ n.status = "backed-up"
                           /\ n.id = m.id
  BY <1>1, WithProper
<1>4. PICK t \in Runs : t = [pc |-> "mark", m |-> n]
  BY DEF Runs, Points
<1>5. /\ tool' = [tool EXCEPT ![p] = t]
      /\ UNCHANGED <<layout, work, mark, side, held, daemon, accepted, bot, bundles, job>>
  BY <1>1, <1>3, <1>4 DEF MoveOut, Run, archiveVars
<1>6. /\ where'[Original] = "backup" /\ where' \in [Dirs -> Places]
      /\ \A d \in Dirs \ {Original} : where'[d] = where[d]
  <2>1. CASE where[Original] = "backup"
    <3>1. where' = where
      BY <1>1, <2>1, Names DEF MoveOut, At
    <3> QED BY <2>1, <3>1, <1>a DEF Typed, Places
  <2>2. CASE where[Original] = "root"
    <3>1. Root = Original
      BY <2>2, <1>a, RootIs, Names
    <3>2. where' = [where EXCEPT ![Original] = "backup"]
      BY <1>1, <2>2, <3>1, Names DEF MoveOut, At, Move
    <3> QED BY <3>2, <1>a, Names DEF Typed, Places
  <2> QED BY <1>2, <2>1, <2>2
<1>7. Renamed(p)
  <2>1. held' \in [Dirs -> Tools \cup {Daemon, Archiver, Nobody}] /\ held' = held
    BY <1>5, <1>a DEF Typed
  <2>2. \A d \in Dirs : held[d] \in {Daemon, Archiver} /\ where[d] = "root" => where'[d] = "root"
    BY <1>2, <1>6, Names
  <2>3. \A s \in Stages : where'[s] = where[s]
    BY <1>6, Names
  <2>4. \A f \in Fresh : /\ where'[f] \in {"none", "root", "backup", "aside"}
                         /\ where[f] = "aside" => where'[f] = "aside"
    BY <1>6, <1>a, Names DEF PlacesOK
  <2>5. where[Original] # "source"
    BY <1>2
  <2> QED BY <1>5, <1>6, <2>1, <2>2, <2>3, <2>4, <2>5 DEF Renamed
<1>8. /\ Kind' = Kind /\ Rooted' = Rooted /\ Sidecar' = Sidecar /\ \A d : Complete(d)' = Complete(d)
      /\ \A s : InCopy(s) => InCopy(s)'
      /\ layout' = layout /\ mark' = mark
  BY <1>7, RenamedSame
<1>9. /\ \A s \in Stages : where'[s] = where[s]
      /\ Done' = Done /\ OneRoot'
  <2>1. \A s \in Stages : where'[s] = where[s]
    BY <1>6, Names
  <2>2. OneRoot'
    BY <1>6, <1>a DEF OneRoot
  <2> QED BY <1>8, <2>1, <2>2 DEF Done
<1>10. Keeps
  BY <1>6, <1>8, <1>9, Names DEF Keeps, Keeper
<1>11. SettledOK'
  <2>1. Sidecar'.status = "prepared"
    BY <1>2, <1>8
  <2> QED BY <2>1 DEF SettledOK, Final
<1>12. where'[m.id] = "stage" /\ layout[m.id] = "v3" /\ mark[m.id] # NoMark /\ InCopy(m.id)'
  BY <1>1, <1>2, <1>8, <1>9, <1>a DEF RoleSideOK
<1>13. RoleSideOK'
  <2>1. Sidecar'.status = "prepared" /\ Sidecar'.id = m.id
    BY <1>2, <1>8
  <2> QED BY <1>8, <1>12, <2>1 DEF RoleSideOK
<1>14. ToolOK(p)'
  <2>1. tool'[p] = t
    BY <1>5, <1>a DEF Typed
  <2>2. RoleOK(p)'
    BY <1>2, <1>3, <1>4, <1>6, <1>8, <2>1 DEF RoleOK, Is
  <2>3. CopyOK(p)'
    BY <1>3, <1>4, <1>8, <1>12, <2>1 DEF CopyOK
  <2> QED BY <1>8, <2>2, <2>3 DEF ToolOK
<1> QED BY <1>3, <1>4, <1>5, <1>7, <1>9, <1>10, <1>11, <1>13, <1>14, <1>a, MoveInv

LEMMA LegacyOut ==
  ASSUME IInv, NEW p \in Tools, MoveOut(p), Kind = "legacy", UNCHANGED archiveVars
  PROVE  IInv'
<1>a. /\ StateInv /\ Typed /\ OneRoot /\ MarkersOK /\ PlacesOK /\ SettledOK /\ RoleSideOK
      /\ ToolOK(p) /\ Active(p)
  BY DEF IInv, StateInv, LayoutInv, RunInv, MoveOut, Active
<1>1. PICK m \in Markers :
           /\ tool[p].m = m /\ Proper(m) /\ m.kind = Kind /\ m.id \in Stages /\ m.id \in Dirs
           /\ m.id # m.orig /\ m.id # Original /\ m.status \in Statuses
           /\ m.orig # None => m.orig \in Dirs
           /\ IF Rooted THEN m.orig = Original ELSE m.orig \in Fresh \cup {None}
  BY <1>a, RunHas DEF Active
<1>2. /\ tool[p].pc = "out" /\ m.status = "prepared" /\ mark[m.id] # NoMark
      /\ where[m.id] = "stage" /\ ~Final(Sidecar)
      /\ m.orig # None => /\ where[m.orig] = "root" /\ held[m.orig] = p
                          /\ m.orig \in Fresh => layout[m.orig] \in {"empty", "bare"}
      /\ layout[m.id] = "v3" /\ (Rooted => InCopy(m.id))
  <2>1. tool[p].pc = "out" /\ LegacyOK(p) /\ CopyOK(p)
    BY <1>a DEF MoveOut, ToolOK
  <2>2. m.status = "prepared" /\ mark[m.id] # NoMark /\ where[m.id] = "stage" /\ ~Final(Sidecar) /\ OrigHeld(p)
    BY <1>1, <2>1 DEF LegacyOK, Is
  <2>3. layout[m.id] = "v3" /\ (Rooted => InCopy(m.id))
    BY <1>1, <2>1, <2>2 DEF CopyOK, Forward
  <2> QED BY <1>1, <2>1, <2>2, <2>3 DEF OrigHeld
<1>3. PICK t \in Runs : t = [pc |-> "in", m |-> m]
  BY DEF Runs, Points
<1>4. /\ tool' = [tool EXCEPT ![p] = t]
      /\ UNCHANGED <<layout, work, mark, side, held, daemon, accepted, bot, bundles, job>>
  BY <1>1, <1>3 DEF MoveOut, Run, archiveVars
<1>5. /\ m.orig # None => where'[m.orig] = "backup"
      /\ where' \in [Dirs -> Places]
      /\ \A d \in Dirs \ {m.orig} : where'[d] = where[d]
  <2>1. CASE m.orig = None
    <3>1. where' = where
      BY <1>1, <2>1, Names DEF MoveOut
    <3> QED BY <2>1, <3>1, <1>a DEF Typed, Places
  <2>2. CASE m.orig # None
    <3>1. Root = m.orig
      BY <1>1, <1>2, <2>2, <1>a, RootIs
    <3>2. where' = [where EXCEPT ![m.orig] = "backup"]
      BY <1>1, <1>2, <2>2, <3>1 DEF MoveOut, At, Move
    <3> QED BY <1>1, <2>2, <3>2, <1>a DEF Typed, Places
  <2> QED BY <2>1, <2>2
<1>6. /\ Rooted => where[Original] = "root" /\ where'[Original] = "backup"
      /\ ~Rooted => where[Original] = "source" /\ where'[Original] = "source"
  BY <1>1, <1>2, <1>5, Names DEF Rooted
<1>7. \A s \in Stages : where'[s] = where[s]
  BY <1>1, <1>5, Names
<1>8. Renamed(p)
  <2>1. held' \in [Dirs -> Tools \cup {Daemon, Archiver, Nobody}] /\ held' = held
    BY <1>4, <1>a DEF Typed
  <2>2. \A d \in Dirs : held[d] \in {Daemon, Archiver} /\ where[d] = "root" => where'[d] = "root"
    BY <1>2, <1>5, Names
  <2>3. \A f \in Fresh : /\ where'[f] \in {"none", "root", "backup", "aside"}
                         /\ where[f] = "aside" => where'[f] = "aside"
    BY <1>1, <1>2, <1>5, <1>a, Names DEF PlacesOK
  <2>4. /\ where'[Original] \in {"root", "backup", "source"}
        /\ where'[Original] = "source" <=> where[Original] = "source"
    BY <1>6
  <2> QED BY <1>4, <1>5, <1>7, <2>1, <2>2, <2>3, <2>4 DEF Renamed
<1>9. /\ Kind' = Kind /\ Rooted' = Rooted /\ Sidecar' = Sidecar /\ \A d : Complete(d)' = Complete(d)
      /\ \A s : InCopy(s) => InCopy(s)'
      /\ layout' = layout /\ mark' = mark
  BY <1>8, RenamedSame
<1>10. /\ Done' = Done /\ OneRoot' /\ (Rooted => ~Done)
  <2>1. OneRoot'
    BY <1>1, <1>5, <1>a, Names DEF OneRoot
  <2>2. Rooted => ~Done
    BY <1>6, <1>a, Names DEF Done, OneRoot
  <2> QED BY <1>7, <1>9, <2>1, <2>2 DEF Done
<1>11. Keeps
  <2>1. \A d \in Dirs : Keeper(d) /\ d \in Fresh /\ d = m.orig => work[d] = {}
    BY <1>2, <1>a, Names DEF PlacesOK
  <2>2. \A d \in Dirs : Keeper(d) /\ d \in Fresh /\ d # m.orig => Keeper(d)'
    BY <1>5, <1>9, Names DEF Keeper
  <2>3. \A d \in Dirs : Keeper(d) /\ d \notin Fresh => Keeper(d)'
    BY <1>7, <1>9, <1>10, Names DEF Keeper
  <2> QED BY <2>1, <2>2, <2>3 DEF Keeps
<1>12. SettledOK'
  BY <1>2, <1>9 DEF SettledOK, Final
<1>13. RoleSideOK'
  BY <1>9 DEF RoleSideOK
<1>14. ToolOK(p)'
  <2>1. tool'[p] = t /\ where'[m.id] = where[m.id]
    BY <1>1, <1>4, <1>7, <1>a DEF Typed
  <2>2. ~Final(Sidecar)'
    BY <1>2, <1>9 DEF Final
  <2>3. LegacyOK(p)'
    BY <1>2, <1>3, <1>5, <1>9, <1>10, <2>1, <2>2 DEF LegacyOK, Is
  <2>4. CopyOK(p)'
    BY <1>2, <1>3, <1>9, <2>1 DEF CopyOK
  <2> QED BY <1>9, <2>3, <2>4 DEF ToolOK
<1> QED BY <1>1, <1>3, <1>4, <1>8, <1>10, <1>11, <1>12, <1>13, <1>14, <1>a, MoveInv

\* The stage becomes the root, which is free or an empty directory.
LEMMA StageMovesIn ==
  ASSUME IInv, NEW p \in Tools, MoveIn(p), UNCHANGED archiveVars
  PROVE  IInv'
<1>a. /\ StateInv /\ Typed /\ OneRoot /\ MarkersOK /\ PlacesOK /\ SettledOK /\ RoleSideOK /\ AcceptedOK
      /\ ToolOK(p) /\ Active(p)
  BY DEF IInv, StateInv, LayoutInv, RunInv, MoveIn, Active
<1>1. PICK m \in Markers :
           /\ tool[p].m = m /\ Proper(m) /\ m.kind = Kind /\ m.id \in Stages /\ m.id \in Dirs
           /\ m.id # Original /\ m.id \notin Fresh /\ m.id # None
  BY <1>a, RunHas DEF Active
<1>2. PICK n \in Markers :
        /\ n = With(m, IF m.kind = "role" THEN "published" ELSE "complete") /\ Proper(n)
        /\ n.status = IF m.kind = "role" THEN "published" ELSE "complete"
        /\ n.id = m.id
  BY <1>1, WithProper
<1>3. PICK t \in Runs : t = [pc |-> "mark", m |-> n]
  BY DEF Runs, Points
<1>4. /\ tool' = [tool EXCEPT ![p] = t]
      /\ UNCHANGED <<layout, work, mark, side, held, daemon, accepted, bot, bundles, job>>
      /\ tool[p].pc = "in" /\ where[m.id] = "stage" /\ RootLayout \in {"absent", "empty"}
  BY <1>1, <1>2, <1>3 DEF MoveIn, Run, archiveVars
<1>5. \A d \in Dirs : where[d] = "root" => Root = d /\ d \in Fresh /\ layout[d] = "empty" /\ work[d] = {}
  <2> SUFFICES ASSUME NEW d \in Dirs, where[d] = "root"
               PROVE  Root = d /\ d \in Fresh /\ layout[d] = "empty" /\ work[d] = {}
    OBVIOUS
  <2>1. Root = d /\ d # None
    BY <1>a, RootIs, Names
  <2>2. layout[Root] = "empty"
    BY <1>4, <1>a, <2>1 DEF RootLayout, Typed
  <2> QED BY <1>a, <2>1, <2>2, BareRoot
<1>6. /\ where'[m.id] = "root" /\ where' \in [Dirs -> Places]
      /\ \A d \in Dirs : d # m.id /\ where[d] = "root" => where'[d] = "none"
      /\ \A d \in Dirs : d # m.id /\ where[d] # "root" => where'[d] = where[d]
  <2>1. where' = [d \in Dirs |-> CASE d = m.id -> "root" [] d = Root -> "none" [] OTHER -> where[d]]
    BY <1>1 DEF MoveIn
  <2>2. \A d \in Dirs : /\ d = Root => where[d] = "root"
                        /\ where[d] = "root" => d = Root
    BY <1>a, RootIs, Names
  <2>3. where'[m.id] = "root"
    BY <1>1, <1>4, <2>1, <2>2
  <2>4. \A d \in Dirs : d # m.id => where'[d] = IF d = Root THEN "none" ELSE where[d]
    BY <2>1
  <2>5. where' \in [Dirs -> Places]
    <3>1. \A d \in Dirs : where[d] \in Places
      BY <1>a DEF Typed, Places
    <3>2. \A d \in Dirs : (CASE d = m.id -> "root" [] d = Root -> "none" [] OTHER -> where[d]) \in Places
      BY <3>1 DEF Places
    <3> QED BY <2>1, <3>2
  <2> QED BY <2>2, <2>3, <2>4, <2>5
<1>7. /\ \A s \in Stages : s # m.id => where'[s] = where[s]
      /\ \A s \in Stages : where[s] # "root"
      /\ where'[Original] = where[Original]
  BY <1>1, <1>5, <1>6, Names
<1>8. /\ layout[m.id] = "v3" /\ mark[m.id] # NoMark /\ ~Final(Sidecar) /\ (Rooted => InCopy(m.id))
      /\ ~Complete(m.id)
      /\ Kind = "role" => Sidecar.status = "backed-up" /\ Sidecar.id = m.id
  <2>1. ~Complete(m.id) /\ Kind \in {"role", "legacy"}
    BY <1>1, <1>4, <1>a DEF PlacesOK, Kind
  <2>2. CASE Kind = "role"
    <3>1. Sidecar.status = "backed-up" /\ Sidecar.id = m.id
      BY <1>1, <1>4, <1>a, <2>2 DEF ToolOK, RoleOK, Is
    <3> QED BY <2>1, <2>2, <3>1, <1>a DEF RoleSideOK, Final
  <2>3. CASE Kind = "legacy"
    <3>1. m.status = "prepared" /\ mark[m.id] # NoMark /\ ~Final(Sidecar)
      BY <1>1, <1>4, <1>a, <2>3 DEF ToolOK, LegacyOK, Is
    <3>2. layout[m.id] = "v3" /\ (Rooted => InCopy(m.id))
      BY <1>1, <1>4, <1>a, <3>1 DEF ToolOK, CopyOK, Forward
    <3> QED BY <2>1, <2>3, <3>1, <3>2
  <2> QED BY <2>1, <2>2, <2>3
<1>9. Renamed(p)
  <2>1. held' \in [Dirs -> Tools \cup {Daemon, Archiver, Nobody}] /\ held' = held
    BY <1>4, <1>a DEF Typed
  <2>2. \A d \in Dirs : where[d] = "root" /\ layout[d] # "empty" => where'[d] = "root"
    BY <1>5
  <2>3. \A f \in Fresh : /\ where'[f] \in {"none", "root", "backup", "aside"}
                         /\ where[f] = "aside" => where'[f] = "aside"
    BY <1>1, <1>6, <1>a, Names DEF PlacesOK
  <2>4. \A s \in Stages : \/ where'[s] = where[s]
                          \/ where'[s] = "root" /\ layout[s] = "v3" /\ mark[s] # NoMark
    BY <1>6, <1>7, <1>8
  <2>5. where'[Original] \in {"root", "backup", "source"}
    BY <1>7, <1>a DEF PlacesOK
  <2> QED BY <1>4, <1>6, <1>7, <2>1, <2>2, <2>3, <2>4, <2>5 DEF Renamed
<1>10. /\ Kind' = Kind /\ Rooted' = Rooted /\ Sidecar' = Sidecar /\ \A d : Complete(d)' = Complete(d)
       /\ \A s : InCopy(s) => InCopy(s)'
       /\ layout' = layout /\ mark' = mark
  BY <1>9, RenamedSame
<1>11. ~Done /\ ~Done' /\ OneRoot'
  <2>1. ~Done
    BY <1>7 DEF Done
  <2>2. \A d \in Dirs : where'[d] = "root" => d = m.id
    BY <1>6
  <2> QED BY <1>8, <1>10, <2>1, <2>2, Names DEF Done, OneRoot
<1>12. Keeps
  BY <1>5, <1>7, <1>10, <1>11 DEF Keeps, Keeper
<1>13. SettledOK'
  BY <1>8, <1>10 DEF SettledOK, Final
<1>14. RoleSideOK'
  <2> SUFFICES ASSUME Kind = "role" PROVE RoleSideOK'
    BY <1>10 DEF RoleSideOK
  <2>1. Sidecar'.status = "backed-up" /\ Sidecar'.id = m.id /\ Sidecar.status = "backed-up"
    BY <1>8, <1>10
  <2>2. where'[Original] = "backup" /\ InCopy(m.id)
    BY <1>7, <1>8, <1>a, <2>1 DEF RoleSideOK
  <2> QED BY <1>6, <1>8, <1>10, <2>1, <2>2 DEF RoleSideOK
\* Without an original at the root, what was accepted has been set aside.
<1>15. InCopy(m.id)'
  <2>1. CASE Rooted
    BY <1>8, <1>10, <2>1
  <2>2. CASE ~Rooted
    <3> SUFFICES InCopy(m.id)
      BY <1>10
    <3> SUFFICES ASSUME NEW w \in accepted PROVE w \in Displaced
      BY DEF InCopy
    <3>1. PICK d \in Dirs : w \in work[d] /\ (Keeper(d) \/ (d \in Fresh /\ where[d] = "aside"))
      BY <1>a DEF AcceptedOK, Kept
    <3>2. ~Keeper(d)
      BY <1>5, <1>7, <2>2, <3>1 DEF Keeper
    <3> QED BY <3>1, <3>2 DEF Displaced
  <2> QED BY <2>1, <2>2
<1>16. ToolOK(p)'
  <2>1. tool'[p] = t
    BY <1>4, <1>a DEF Typed
  <2>2. Kind = "legacy" => LegacyOK(p)'
    BY <1>1, <1>2, <1>3, <1>6, <1>8, <1>10, <2>1 DEF LegacyOK, Is
  <2>3. Kind = "role" => RoleOK(p)'
    BY <1>1, <1>2, <1>3, <1>6, <1>8, <1>10, <2>1 DEF RoleOK, Is
  <2>4. CopyOK(p)'
    BY <1>2, <1>3, <1>8, <1>10, <1>15, <2>1 DEF CopyOK
  <2> QED BY <1>10, <2>2, <2>3, <2>4 DEF ToolOK
<1> QED BY <1>2, <1>3, <1>4, <1>9, <1>11, <1>12, <1>13, <1>14, <1>16, <1>a, MoveInv

-----------------------------------------------------------------------------
(***************************************************************************)
(* The markers.                                                             *)
(***************************************************************************)

\* The marker is written into the stage, and one that is complete is not replaced
\* by another.
LEMMA MarkedIs ==
  ASSUME IInv, NEW p \in Tools, WriteMark(p)
  PROVE  \E m \in Markers :
           /\ tool[p].m = m /\ Proper(m) /\ m.kind = Kind /\ m.id \in Stages /\ m.id \in Dirs
           /\ mark' = [mark EXCEPT ![m.id] = m]
           /\ m.status = "complete" => where[m.id] = "root" /\ InCopy(m.id)
           /\ Complete(m.id) => m = mark[m.id] /\ Kind = "role"
           /\ ~Final(Sidecar) \/ Kind = "legacy"
           /\ layout[m.id] = "v3"
           /\ m.status \in {"prepared", "backed-up", "published", "complete"}
<1>a. /\ StateInv /\ Typed /\ OneRoot /\ MarkersOK /\ PlacesOK /\ RoleSideOK
      /\ ToolOK(p) /\ tool[p].pc = "mark"
  BY DEF IInv, StateInv, RunInv, WriteMark
<1>1. PICK m \in Markers :
           /\ tool[p].m = m /\ Proper(m) /\ m.kind = Kind /\ m.id \in Stages /\ m.id \in Dirs
           /\ m.id # None
  BY <1>a, RunHas
<1>2. Kind \in {"role", "legacy"}
  BY DEF Kind
<1>3. CASE Kind = "role"
  <2>1. RoleOK(p)
    BY <1>a, <1>3 DEF ToolOK
  <2>2. /\ \/ m.status = "prepared" /\ Sidecar.status = "preparing" /\ where[m.id] = "stage"
           \/ m.status = "backed-up" /\ Sidecar.status = "prepared"
           \/ m.status = "published" /\ Sidecar.status = "backed-up" /\ ~Complete(m.id) /\ where[m.id] = "root"
           \/ /\ m.status = "complete" /\ Sidecar.status \in {"backed-up", "published"}
              /\ where[m.id] = "root"
        /\ m.id = Sidecar.id
    BY <1>a, <1>1, <2>1 DEF RoleOK, Is
  <2>3. m.status = "backed-up" => where[m.id] = "stage"
    BY <1>3, <1>a, <2>2 DEF RoleSideOK
  <2>4. Complete(m.id) => m.status = "complete"
    BY <1>1, <1>a, <2>2, <2>3 DEF PlacesOK
  <2>5. Rooted
    BY <1>3, <1>a DEF PlacesOK, Kind
  <2>6. Complete(m.id) => m = mark[m.id]
    <3> SUFFICES ASSUME Complete(m.id) PROVE m = mark[m.id]
      OBVIOUS
    <3>1. PICK n \in Markers : n = mark[m.id] /\ n.id = m.id /\ Proper(n) /\ n.status = "complete"
      BY <1>1, <1>a, MarkersHeld DEF MarkersOK, Complete
    <3> QED BY <1>1, <2>4, <2>5, <3>1, MarkerEqual DEF Proper
  <2>7. layout[m.id] = "v3" /\ InCopy(m.id)
    BY <1>a, <1>1, <2>2, <2>5 DEF ToolOK, CopyOK, Forward
  <2>8. (IF m.status \in {"published", "complete"} THEN Root ELSE m.id) = m.id
    BY <2>2, <1>1, <1>a, RootIs
  <2>9. mark' = [mark EXCEPT ![m.id] = m]
    BY <1>1, <2>8 DEF WriteMark
  <2> QED BY <1>1, <1>3, <2>2, <2>6, <2>7, <2>9 DEF Final
<1>4. CASE Kind = "legacy"
  <2>1. LegacyOK(p)
    BY <1>a, <1>4 DEF ToolOK
  <2>2. \/ m.status = "prepared" /\ where[m.id] = "stage"
        \/ m.status = "complete" /\ where[m.id] = "root" /\ ~Complete(m.id)
    BY <1>a, <1>1, <2>1 DEF LegacyOK, Is
  <2>3. ~Complete(m.id)
    BY <1>1, <1>a, <2>2 DEF PlacesOK
  <2>4. layout[m.id] = "v3" /\ (where[m.id] = "root" => InCopy(m.id))
    BY <1>a, <1>1, <2>2 DEF ToolOK, CopyOK, Forward
  <2>5. (IF m.status \in {"published", "complete"} THEN Root ELSE m.id) = m.id
    BY <2>2, <1>1, <1>a, RootIs
  <2>6. mark' = [mark EXCEPT ![m.id] = m]
    BY <1>1, <2>5 DEF WriteMark
  <2> QED BY <1>1, <1>4, <2>2, <2>3, <2>4, <2>6
<1> QED BY <1>2, <1>3, <1>4

LEMMA MarkWritten ==
  ASSUME IInv, NEW p \in Tools, WriteMark(p), UNCHANGED archiveVars
  PROVE  IInv'
<1>a. /\ StateInv /\ Typed /\ OneRoot /\ MarkersOK /\ PlacesOK /\ RoleSideOK
      /\ HoldersOK /\ UpOK /\ SettledOK /\ AcceptedOK
      /\ ToolOK(p) /\ Active(p) /\ tool[p].pc = "mark"
  BY DEF IInv, StateInv, LayoutInv, RunInv, WriteMark, Active
<1>1. PICK m \in Markers :
           /\ tool[p].m = m /\ Proper(m) /\ m.kind = Kind /\ m.id \in Stages /\ m.id \in Dirs
           /\ mark' = [mark EXCEPT ![m.id] = m]
           /\ m.status = "complete" => where[m.id] = "root" /\ InCopy(m.id)
           /\ Complete(m.id) => m = mark[m.id] /\ Kind = "role"
           /\ ~Final(Sidecar) \/ Kind = "legacy"
           /\ layout[m.id] = "v3"
           /\ m.status \in {"prepared", "backed-up", "published", "complete"}
  BY MarkedIs
<1>2. PICK t \in Runs : t = [pc |-> IF m.kind = "legacy" /\ m.status = "prepared" THEN "out" ELSE "side",
                            m |-> m]
  <2>1. PICK pc \in Points : pc = IF m.kind = "legacy" /\ m.status = "prepared" THEN "out" ELSE "side"
    BY DEF Points
  <2>2. [pc |-> pc, m |-> m] \in Runs
    BY DEF Runs
  <2> QED BY <2>1, <2>2
<1>3. /\ tool' = [tool EXCEPT ![p] = t]
      /\ UNCHANGED <<where, layout, work, side, held, daemon, accepted, bot, bundles, job>>
  BY <1>1, <1>2 DEF WriteMark, Run, archiveVars
<1>b. /\ where' = where /\ layout' = layout /\ work' = work /\ side' = side /\ held' = held
      /\ daemon' = daemon /\ accepted' = accepted /\ job' = job /\ bot' = bot
  BY <1>3
<1>4. Same /\ Kind' = Kind /\ Rooted' = Rooted /\ Sidecar' = Sidecar /\ \A s : InCopy(s)' = InCopy(s)
  BY <1>b, SameIs DEF Kind, Rooted, Sidecar, Same, InCopy, Displaced
<1>5. /\ mark'[m.id] = m /\ \A d \in Dirs : d # m.id => mark'[d] = mark[d]
      /\ mark' \in [Dirs -> Markers \cup {NoMark}]
  BY <1>1, <1>a DEF Typed
<1>6. MarkersOK' /\ tool' \in [Tools -> Runs]
  <2>1. /\ \A k \in Kinds : side'[k] = side[k]
        /\ \A d \in Dirs : mark'[d] = mark[d] \/ (d \in Stages /\ mark'[d].id = d /\ Proper(mark'[d]))
    BY <1>1, <1>5, <1>b
  <2>2. t.pc # "idle" /\ Proper(t.m)
    BY <1>1, <1>2
  <2> QED BY <1>3, <1>4, <1>a, <2>1, <2>2, RunMarkers
<1>7. Typed'
  BY <1>5, <1>6, <1>a, <1>b DEF Typed
<1>8. /\ m # NoMark /\ \A d \in Dirs : mark[d] # NoMark => mark'[d] # NoMark
      /\ \A d \in Dirs : Complete(d) => Complete(d)'
      /\ \A d \in Dirs : Complete(d)' => Complete(d) \/ (d = m.id /\ m.status = "complete")
  BY <1>1, <1>5, MarkerFields DEF Complete
<1>9. OneRoot' /\ PlacesOK'
  <2>1. OneRoot'
    BY <1>a, <1>b DEF OneRoot
  <2>2. \A d \in Dirs : Complete(d)' => where'[d] = "root"
    BY <1>1, <1>8, <1>a, <1>b DEF PlacesOK
  <2>3. \A s \in Stages : where'[s] = "root" => layout'[s] = "v3" /\ mark'[s] # NoMark
    BY <1>8, <1>a, <1>b, Names DEF PlacesOK
  <2> QED BY <1>4, <1>a, <1>b, <2>1, <2>2, <2>3 DEF PlacesOK
<1>10. /\ Done => Done'
       /\ Uncommitted' => Uncommitted
       /\ Done' => Done \/ (m.status = "complete" /\ where[m.id] = "root")
  BY <1>b, <1>8, Names DEF Done, Uncommitted
<1>11. \A d \in Dirs : Keeper(d) /\ (m.status # "complete" \/ where[m.id] # "root" \/ d # Original) => Keeper(d)'
  BY <1>4, <1>8, <1>10, <1>b DEF Keeper
<1>12. HoldersOK'
  <2>1. Final(Sidecar)' = Final(Sidecar)
    BY <1>4 DEF Final
  <2> QED BY <2>1, <1>a, <1>b, HoldersStay
<1>13. UpOK'
  <2> SUFFICES ASSUME daemon.pc = "up" PROVE UpOK'
    BY <1>b DEF UpOK
  <2>1. PICK d \in Dirs : d = daemon.dir /\ where[d] = "root" /\ layout[d] = "v3" /\ Keeper(d)
    BY <1>a DEF HoldersOK, UpOK, Typed
  <2>2. Keeper(d)'
    BY <1>11, <1>a, <2>1 DEF PlacesOK
  <2>3. Kind = "role" => Final(Sidecar)'
    BY <1>4, <1>a DEF UpOK, Final
  <2> QED BY <1>4, <1>b, <2>1, <2>2, <2>3 DEF UpOK
<1>14. AcceptedOK'
  <2> SUFFICES ASSUME NEW w \in accepted PROVE Kept(w)'
    BY <1>b DEF AcceptedOK
  <2>1. CASE m.status = "complete"
    <3>1. Keeper(m.id)'
      BY <1>1, <1>5, <1>b, <2>1 DEF Keeper, Complete
    <3>2. w \in work[m.id] \/ w \in Displaced
      BY <1>1, <2>1 DEF InCopy
    <3> QED BY <1>1, <1>b, <3>1, <3>2, Names DEF Kept, Displaced
  <2>2. CASE m.status # "complete"
    <3>1. \A d \in Dirs : Keeper(d) => Keeper(d)'
      BY <1>11, <2>2
    <3> QED BY <1>a, <1>b, <3>1 DEF AcceptedOK, Kept
  <2> QED BY <2>1, <2>2
<1>15. SettledOK'
  BY <1>4, <1>10, <1>a, <1>b DEF SettledOK, Final
<1>16. RoleSideOK'
  <2> SUFFICES ASSUME Kind = "role" PROVE RoleSideOK'
    BY <1>4 DEF RoleSideOK
  <2>1. Sidecar # NoMark => Sidecar.id \in Dirs
    BY <1>a, MarkersHeld, MarkerFields, Names DEF Sidecar
  <2>2. Sidecar # NoMark /\ mark[Sidecar.id] # NoMark => mark'[Sidecar.id] # NoMark
    BY <1>8, <2>1
  <2> QED BY <1>4, <1>a, <1>b, <2>2, NoMarkIs DEF RoleSideOK
<1>17. ToolOK(p)'
  <2>1. tool'[p] = t /\ mark'[m.id] = m /\ m # NoMark
    BY <1>3, <1>5, <1>8, <1>a DEF Typed
  <2>2. Kind = "legacy" => LegacyOK(p)'
    <3> SUFFICES ASSUME Kind = "legacy" PROVE LegacyOK(p)'
      OBVIOUS
    <3>1. CASE m.status = "complete"
      BY <1>1, <1>2, <2>1, <3>1 DEF LegacyOK, Is
    <3>2. CASE m.status # "complete"
      <4>1. /\ m.status = "prepared" /\ where[m.id] = "stage" /\ ~Final(Sidecar) /\ OrigHeld(p)
        BY <1>1, <1>a, <3>2 DEF ToolOK, LegacyOK, Is
      <4>2. OrigHeld(p)'
        BY <1>1, <1>2, <1>b, <2>1, <4>1 DEF OrigHeld
      <4>3. ~Final(Sidecar)'
        BY <1>4, <4>1 DEF Final
      <4> QED BY <1>1, <1>2, <1>b, <2>1, <4>1, <4>2, <4>3 DEF LegacyOK, Is
    <3> QED BY <3>1, <3>2
  <2>3. Kind = "role" => RoleOK(p)'
    <3> SUFFICES ASSUME Kind = "role" PROVE RoleOK(p)'
      OBVIOUS
    <3>1. RoleOK(p)
      BY <1>a DEF ToolOK
    <3> QED BY <1>1, <1>2, <1>4, <1>b, <1>a, <2>1, <3>1 DEF RoleOK, Is
  <2>4. CopyOK(p)'
    <3>1. Rooted \/ where[m.id] = "root" => InCopy(m.id)
      BY <1>1, <1>a DEF ToolOK, CopyOK, Forward
    <3> QED BY <1>1, <1>2, <1>4, <1>b, <2>1, <3>1 DEF CopyOK
  <2> QED BY <1>4, <2>2, <2>3, <2>4 DEF ToolOK
<1>18. \A q \in Tools \ {p} : tool'[q] = tool[q]
  BY <1>3, <1>a DEF Typed
<1> QED BY <1>3, <1>4, <1>6, <1>7, <1>9, <1>12, <1>13, <1>14, <1>15, <1>16, <1>17, <1>18, <1>a, ToolInv

\* The sidecar says what its run has come to, and the run ends when it is final.
LEMMA SideWritten ==
  ASSUME IInv, NEW p \in Tools, WriteSide(p), UNCHANGED archiveVars
  PROVE  IInv'
<1>a. /\ StateInv /\ Typed /\ OneRoot /\ MarkersOK /\ PlacesOK /\ RoleSideOK
      /\ HoldersOK /\ UpOK /\ SettledOK /\ AcceptedOK
      /\ ToolOK(p) /\ Active(p) /\ tool[p].pc = "side"
  BY DEF IInv, StateInv, LayoutInv, RunInv, WriteSide, Active
<1>1. PICK m \in Markers :
           /\ tool[p].m = m /\ Proper(m) /\ m.kind = Kind /\ m.id \in Stages /\ m.id \in Dirs
           /\ m.status \in Statuses /\ m.id # Original /\ m.orig \in Dirs \cup {None}
           /\ IF Rooted THEN m.orig = Original ELSE m.orig \in Fresh \cup {None}
  BY <1>a, RunHas
<1>b. /\ where' = where /\ layout' = layout /\ work' = work /\ mark' = mark
      /\ daemon' = daemon /\ accepted' = accepted /\ job' = job /\ bot' = bot /\ bundles' = bundles
  BY DEF WriteSide, archiveVars
<1>2. Same /\ Kind' = Kind /\ Rooted' = Rooted /\ \A s : InCopy(s)' = InCopy(s)
  BY <1>b, SameIs DEF Kind, Rooted, Same, InCopy, Displaced
<1>3. /\ Done' = Done /\ Uncommitted' = Uncommitted
      /\ \A d : Complete(d)' = Complete(d) /\ Keeper(d)' = Keeper(d)
  BY <1>b, <1>2 DEF Done, Uncommitted, Complete, Keeper
<1>4. /\ side' = [side EXCEPT ![Kind] = m] /\ side' \in [Kinds -> Markers \cup {NoMark}]
      /\ Sidecar' = m /\ \A k \in Kinds : side'[k] = side[k] \/ (k = Kind /\ Proper(side'[k]))
  <2>1. side' = [side EXCEPT ![Kind] = m] /\ Kind \in Kinds
    BY <1>1 DEF WriteSide, Kind, Kinds
  <2> QED BY <1>1, <1>2, <1>a, <2>1 DEF Sidecar, Typed
<1>5. \E t \in Runs \cup {Idle} :
        /\ tool' = [tool EXCEPT ![p] = t]
        /\ \/ /\ Final(m) /\ t = Idle
              /\ held' = [d \in Dirs |-> IF held[d] = p THEN Nobody ELSE held[d]]
           \/ /\ m.status = "published" /\ t.pc = "mark" /\ t.m \in Markers /\ Proper(t.m)
              /\ t.m.id = m.id /\ t.m.status = "complete" /\ held' = held
           \/ /\ m.status \in {"prepared", "backed-up"} /\ t.m = m /\ held' = held
              /\ t.pc = IF m.kind = "legacy" THEN "mark"
                        ELSE IF m.status = "prepared" THEN "out" ELSE "in"
  <2>1. CASE Final(m) /\ Finish(p)
    BY <2>1 DEF Finish, Run, Drop, Idle
  <2>2. CASE m.status = "published" /\ Run(p, "mark", With(m, "complete")) /\ UNCHANGED held
    <3>1. PICK n \in Markers : n = With(m, "complete") /\ Proper(n) /\ n.id = m.id /\ n.status = "complete"
      BY <1>1, WithProper
    <3>2. PICK t \in Runs : t = [pc |-> "mark", m |-> n]
      BY DEF Runs, Points
    <3>3. tool' = [tool EXCEPT ![p] = t] /\ held' = held /\ t.pc = "mark" /\ t.m = n
      BY <2>2, <3>1, <3>2 DEF Run
    <3> QED BY <2>2, <3>1, <3>3
  <2>3. CASE /\ m.status \in {"prepared", "backed-up"} /\ UNCHANGED held
             /\ Run(p, CASE m.kind = "legacy" -> "mark"
                         [] m.kind = "role" /\ m.status = "prepared" -> "out"
                         [] OTHER -> "in", m)
    <3>1. PICK pc \in Points : pc = IF m.kind = "legacy" THEN "mark"
                                    ELSE IF m.status = "prepared" THEN "out" ELSE "in"
      BY DEF Points
    <3>2. PICK t \in Runs : t = [pc |-> pc, m |-> m]
      BY DEF Runs
    <3>3. m.kind \in {"legacy", "role"}
      BY <1>1 DEF Kind
    <3>4. (CASE m.kind = "legacy" -> "mark"
             [] m.kind = "role" /\ m.status = "prepared" -> "out"
             [] OTHER -> "in") = pc
      BY <3>1, <3>3
    <3>5. tool' = [tool EXCEPT ![p] = t] /\ held' = held /\ t.pc = pc /\ t.m = m
      BY <2>3, <3>2, <3>4 DEF Run
    <3> QED BY <2>3, <3>1, <3>5
  <2> QED BY <1>1, <2>1, <2>2, <2>3 DEF WriteSide, AfterSide, Run
<1>6. PICK t \in Runs \cup {Idle} :
        /\ tool' = [tool EXCEPT ![p] = t]
        /\ \/ /\ Final(m) /\ t = Idle
              /\ held' = [d \in Dirs |-> IF held[d] = p THEN Nobody ELSE held[d]]
           \/ /\ m.status = "published" /\ t.pc = "mark" /\ t.m \in Markers /\ Proper(t.m)
              /\ t.m.id = m.id /\ t.m.status = "complete" /\ held' = held
           \/ /\ m.status \in {"prepared", "backed-up"} /\ t.m = m /\ held' = held
              /\ t.pc = IF m.kind = "legacy" THEN "mark"
                        ELSE IF m.status = "prepared" THEN "out" ELSE "in"
  BY <1>5
<1>7. t = Idle \/ (t \in Runs /\ t.pc # "idle" /\ Proper(t.m))
  BY <1>1, <1>6
<1>8. MarkersOK' /\ tool' \in [Tools -> Runs] /\ tool'[p] = t
  <2>1. \A d \in Dirs : mark'[d] = mark[d] \/ (d \in Stages /\ mark'[d].id = d /\ Proper(mark'[d]))
    BY <1>b
  <2>2. MarkersOK' /\ tool' \in [Tools -> Runs]
    BY <1>2, <1>4, <1>6, <1>7, <1>a, <2>1, RunMarkers
  <2> QED BY <2>2, <1>6, <1>a DEF Typed
<1>9. /\ held' \in [Dirs -> Tools \cup {Daemon, Archiver, Nobody}]
      /\ \A d \in Dirs : held[d] \in {Daemon, Archiver} => held'[d] = held[d]
  BY <1>6, <1>a, Names DEF Typed
<1>10. Typed' /\ OneRoot' /\ PlacesOK' /\ AcceptedOK'
  <2>1. Typed'
    BY <1>4, <1>8, <1>9, <1>a, <1>b DEF Typed
  <2>2. PlacesOK'
    BY <1>2, <1>3, <1>a, <1>b DEF PlacesOK
  <2>3. OneRoot' /\ AcceptedOK'
    BY <1>3, <1>a, <1>b DEF OneRoot, AcceptedOK, Kept
  <2> QED BY <2>1, <2>2, <2>3
\* What the old sidecar was, and what the new one may say.
<1>11. Kind = "role" =>
         /\ Sidecar.id = m.id
         /\ \/ /\ m.status = "prepared" /\ where[m.id] = "stage" /\ mark[m.id] # NoMark
               /\ where[Original] = "root" /\ held[Original] = p /\ ~Final(Sidecar)
               /\ layout[m.id] = "v3" /\ InCopy(m.id)
            \/ /\ m.status = "backed-up" /\ where[m.id] = "stage" /\ mark[m.id] # NoMark
               /\ where[Original] = "backup" /\ ~Final(Sidecar)
               /\ layout[m.id] = "v3" /\ InCopy(m.id)
            \/ /\ m.status = "published" /\ where[m.id] = "root" /\ mark[m.id] # NoMark
               /\ ~Final(Sidecar)
               /\ layout[m.id] = "v3" /\ InCopy(m.id)
            \/ m.status = "complete" /\ mark[m.id] = m
            \/ m.status = "rolled-back" /\ where[Original] = "root"
  <2> SUFFICES ASSUME Kind = "role"
               PROVE /\ Sidecar.id = m.id
                     /\ \/ /\ m.status = "prepared" /\ where[m.id] = "stage" /\ mark[m.id] # NoMark
                           /\ where[Original] = "root" /\ held[Original] = p /\ ~Final(Sidecar)
                           /\ layout[m.id] = "v3" /\ InCopy(m.id)
                        \/ /\ m.status = "backed-up" /\ where[m.id] = "stage" /\ mark[m.id] # NoMark
                           /\ where[Original] = "backup" /\ ~Final(Sidecar)
                           /\ layout[m.id] = "v3" /\ InCopy(m.id)
                        \/ /\ m.status = "published" /\ where[m.id] = "root" /\ mark[m.id] # NoMark
                           /\ ~Final(Sidecar)
                           /\ layout[m.id] = "v3" /\ InCopy(m.id)
                        \/ m.status = "complete" /\ mark[m.id] = m
                        \/ m.status = "rolled-back" /\ where[Original] = "root"
    OBVIOUS
  <2>1. RoleOK(p) /\ CopyOK(p) /\ Rooted
    BY <1>a DEF ToolOK, PlacesOK, Kind
  <2>2. /\ m.id = Sidecar.id
        /\ \/ /\ m.status = "prepared" /\ mark[m.id] # NoMark
              /\ Sidecar.status = "preparing" /\ where[m.id] = "stage" /\ held[Original] = p
           \/ m.status = "backed-up" /\ Sidecar.status = "prepared" /\ where[Original] = "backup"
           \/ m.status = "published" /\ Sidecar.status = "backed-up" /\ where[m.id] = "root"
           \/ m.status = "complete" /\ mark[m.id] = m
           \/ m.status = "rolled-back" /\ Sidecar.status = "preparing"
    BY <1>1, <1>a, <2>1 DEF RoleOK, Is
  <2>3. m.status # "rolled-back" => layout[m.id] = "v3" /\ InCopy(m.id)
    BY <1>1, <1>a, <2>1 DEF CopyOK, Forward
  <2> QED BY <1>a, <2>2, <2>3 DEF RoleSideOK, Final
<1>12. Kind = "legacy" =>
         \/ m.status = "prepared" /\ where[m.id] = "stage" /\ held[Original] = p /\ OrigHeld(p)
         \/ m.status = "complete" /\ mark[m.id] = m
         \/ m.status = "rolled-back" /\ ~Uncommitted /\ (Rooted => where[Original] = "root")
  BY <1>1, <1>a DEF ToolOK, LegacyOK, Is
<1>13. Kind \in {"role", "legacy"}
  BY DEF Kind
<1>14. SettledOK'
  <2> SUFFICES ASSUME Final(m) PROVE ~Uncommitted /\ (where[Original] = "backup" => Done)
    BY <1>3, <1>4, <1>b DEF SettledOK
  <2>1. CASE m.status = "complete" /\ mark[m.id] = m
    <3>1. Complete(m.id) /\ where[m.id] = "root"
      BY <1>1, <1>a, <2>1 DEF Complete, PlacesOK
    <3>2. Done
      BY <1>1, <3>1 DEF Done
    <3>3. ~Uncommitted
      BY <1>1, <3>1, <1>a, Names DEF Uncommitted, OneRoot
    <3> QED BY <3>2, <3>3
  <2>2. CASE where[Original] = "root"
    BY <2>2, <1>a, Names DEF Uncommitted, OneRoot
  <2>3. CASE m.status = "rolled-back" /\ ~Uncommitted /\ (Rooted => where[Original] = "root")
    BY <2>3 DEF Rooted
  <2> QED BY <1>11, <1>12, <1>13, <2>1, <2>2, <2>3 DEF Final
<1>15. Final(Sidecar) /\ (Kind = "role" \/ daemon.pc = "old") => Final(m)
  <2>1. daemon.pc = "old" => held[Original] # p
    BY <1>a, Names DEF HoldersOK
  <2> QED BY <1>11, <1>12, <1>13, <2>1 DEF Final
<1>16. HoldersOK'
  <2>1. daemon.pc = "old" /\ Final(Sidecar) => Final(Sidecar)'
    BY <1>4, <1>15 DEF Final
  <2> QED BY <1>9, <1>a, <1>b, <2>1, HoldersStay
<1>17. UpOK'
  <2>1. daemon.pc = "up" /\ Kind = "role" => Final(Sidecar)'
    BY <1>4, <1>15, <1>a DEF UpOK, Final
  <2>2. daemon.pc = "up" => \E d \in Dirs : d = daemon.dir /\ Keeper(d)
    BY <1>a DEF UpOK, HoldersOK, Typed
  <2> QED BY <1>2, <1>3, <1>a, <1>b, <2>1, <2>2 DEF UpOK
<1>18. RoleSideOK'
  <2> SUFFICES ASSUME Kind = "role" PROVE RoleSideOK'
    BY <1>2 DEF RoleSideOK
  <2> QED BY <1>2, <1>4, <1>11, <1>b DEF RoleSideOK
<1>19. ToolOK(p)'
  <2>1. CASE Final(m)
    BY <1>6, <1>8, <2>1 DEF Final, ToolOK, Idle
  <2>2. CASE ~Final(m)
    <3>1. /\ t.pc # "idle" /\ held' = held /\ t.m.id = m.id /\ layout[m.id] = "v3"
      BY <1>1, <1>6, <1>a, <2>2 DEF Final, ToolOK, CopyOK, Forward
    <3>2. Kind = "role" => RoleOK(p)'
      BY <1>1, <1>2, <1>4, <1>6, <1>8, <1>11, <1>b, <2>2, <3>1 DEF RoleOK, Is, Final
    <3>3. Kind = "legacy" => LegacyOK(p)'
      <4> SUFFICES ASSUME Kind = "legacy" PROVE LegacyOK(p)'
        OBVIOUS
      <4>1. m.status = "prepared" /\ where[m.id] = "stage" /\ OrigHeld(p)
        BY <1>12, <2>2 DEF Final
      <4>2. t.pc = "mark" /\ t.m = m
        BY <1>1, <1>6, <2>2, <4>1
      <4>3. OrigHeld(p)'
        BY <1>1, <1>8, <1>b, <3>1, <4>1, <4>2 DEF OrigHeld
      <4>4. ~Final(Sidecar)'
        BY <1>4, <2>2 DEF Final
      <4> QED BY <1>8, <1>b, <4>1, <4>2, <4>3, <4>4 DEF LegacyOK, Is
    <3>4. CopyOK(p)'
      <4>1. Rooted \/ where[m.id] = "root" => InCopy(m.id)
        BY <1>1, <1>a, <2>2 DEF ToolOK, CopyOK, Forward, Final
      <4> QED BY <1>2, <1>8, <1>b, <3>1, <4>1 DEF CopyOK
    <3> QED BY <1>2, <3>2, <3>3, <3>4 DEF ToolOK
  <2> QED BY <2>1, <2>2
<1>20. \A q \in Tools \ {p} : tool'[q] = tool[q]
  BY <1>6, <1>a DEF Typed
<1>21. UNCHANGED <<daemon, accepted, bot, bundles, job>>
  BY <1>b
<1> QED BY <1>2, <1>8, <1>10, <1>14, <1>16, <1>17, <1>18, <1>19, <1>20, <1>21, <1>a, ToolInv

-----------------------------------------------------------------------------
(***************************************************************************)
(* The beginning, and the conversion.                                       *)
(***************************************************************************)

\* A new stage beside the root; the lock of an empty target makes a file in it.
Staged(s) ==
    /\ where[s] = "none" /\ where' = [where EXCEPT ![s] = "stage"]
    /\ UNCHANGED <<work, mark, daemon, accepted, bot, bundles, job>>
    /\ layout' \in [Dirs -> {"empty", "bare", "v1", "v2", "v3"}]
    /\ \A d \in Dirs : layout'[d] = layout[d] \/ (layout[d] = "empty" /\ layout'[d] = "bare")

LEMMA StagedSame ==
  ASSUME IInv, NEW s \in Stages, Staged(s)
  PROVE  /\ Same /\ Kind' = Kind /\ Rooted' = Rooted
         /\ OneRoot' /\ PlacesOK' /\ AcceptedOK'
         /\ where'[s] = "stage" /\ \A d \in Dirs : d # s => where'[d] = where[d]
         /\ where' \in [Dirs -> Places]
         /\ Done' = Done /\ Uncommitted' = Uncommitted /\ \A d \in Dirs : Keeper(d)' = Keeper(d)
         /\ s \in Dirs /\ s # Original /\ s \notin Fresh
<1>a. StateInv /\ Typed /\ OneRoot /\ PlacesOK /\ AcceptedOK
  BY DEF IInv, StateInv, LayoutInv
<1>b. work' = work /\ mark' = mark /\ accepted' = accepted
  BY DEF Staged
<1>0. s \in Dirs /\ s # Original /\ s \notin Fresh
  BY Names
<1>1. /\ where'[s] = "stage" /\ \A d \in Dirs : d # s => where'[d] = where[d]
      /\ where' \in [Dirs -> Places]
  BY <1>0, <1>a DEF Staged, Typed, Places
<1>2. layout'[Original] = layout[Original] /\ where'[Original] = where[Original]
  BY <1>0, <1>1, <1>a, Names DEF Staged, PlacesOK
<1>3. Same /\ Kind' = Kind /\ Rooted' = Rooted
  BY <1>2, SameIs DEF Same
<1>4. OneRoot' /\ \A d \in Dirs : where'[d] = "root" <=> where[d] = "root"
  BY <1>1, <1>a DEF OneRoot, Staged
<1>5. \A d \in Dirs : Complete(d)' = Complete(d)
  BY <1>b DEF Complete
<1>6. Done' = Done /\ Uncommitted' = Uncommitted
  BY <1>4, <1>5, Names DEF Done, Uncommitted
<1>7. \A d \in Dirs : Keeper(d)' = Keeper(d)
  BY <1>3, <1>4, <1>5, <1>6 DEF Keeper
<1>8. PlacesOK'
  <2>1. \A d \in Dirs : Complete(d)' => where'[d] = "root"
    BY <1>4, <1>5, <1>a DEF PlacesOK
  <2>2. \A d \in Dirs : layout'[d] \in {"empty", "bare"} => work'[d] = {}
    BY <1>b, <1>a DEF PlacesOK, Staged
  <2>3. \A z \in Stages : where'[z] = "root" => layout'[z] = "v3" /\ mark'[z] # NoMark
    BY <1>4, <1>b, <1>a, Names DEF PlacesOK, Staged
  <2>4. \A d \in Dirs \ {Original} : layout'[d] \in {"empty", "bare", "v3"}
    BY <1>a DEF PlacesOK, Staged
  <2>5. /\ \A z \in Stages : where'[z] \in {"none", "stage", "root", "aside"}
        /\ \A f \in Fresh : where'[f] \in {"none", "root", "backup", "aside"}
    BY <1>0, <1>1, <1>a, Names DEF PlacesOK
  <2> QED BY <1>2, <1>3, <1>a, <2>1, <2>2, <2>3, <2>4, <2>5 DEF PlacesOK
<1>9. AcceptedOK'
  <2> SUFFICES ASSUME NEW w \in accepted PROVE Kept(w)'
    BY <1>b DEF AcceptedOK
  <2>1. PICK d \in Dirs : w \in work[d] /\ (Keeper(d) \/ (d \in Fresh /\ where[d] = "aside"))
    BY <1>a DEF AcceptedOK, Kept
  <2> QED BY <1>0, <1>1, <1>7, <1>b, <2>1 DEF Kept
<1> QED BY <1>0, <1>1, <1>3, <1>4, <1>6, <1>7, <1>8, <1>9

LEMMA UpgradeBegins ==
  ASSUME IInv, NEW p \in Tools, NEW s \in Stages, UpgradeBegin(p, s), UNCHANGED archiveVars
  PROVE  IInv'
<1>a. /\ StateInv /\ Typed /\ OneRoot /\ MarkersOK /\ PlacesOK /\ HoldersOK /\ UpOK /\ SettledOK
  BY DEF IInv, StateInv, LayoutInv
<1>1. Root = Original /\ where[Original] = "root" /\ layout[Original] = "v2" /\ held[Original] = Nobody
  <2>1. Root # None /\ layout[Root] = "v2" /\ held[Root] = Nobody
    BY DEF UpgradeBegin, RootLayout, Lockable
  <2> QED BY <2>1, <1>a, RootIs DEF PlacesOK
<1>2. Kind = "role" /\ Rooted
  BY <1>1 DEF Kind, Rooted
<1>3. PICK m \in Markers : /\ m = Marker("role", s, Original, "preparing")
                           /\ m.kind = "role" /\ m.id = s /\ m.orig = Original /\ m.status = "preparing"
  <2>1. "role" \in Kinds /\ "preparing" \in Statuses
    BY DEF Kinds, Statuses
  <2> QED BY <2>1, MarkerNew, Names
<1>4. Proper(m)
  BY <1>2, <1>3 DEF Proper
<1>5. PICK t \in Runs : t = [pc |-> "copy", m |-> m]
  BY DEF Runs, Points
<1>6. /\ tool' = [tool EXCEPT ![p] = t] /\ side' = [side EXCEPT !["role"] = m]
      /\ held' = [d \in Dirs |-> IF d \in {Original} THEN p ELSE held[d]]
      /\ UNCHANGED <<layout, work, mark, daemon, accepted, faults>>
      /\ where[s] = "none" /\ where' = [where EXCEPT ![s] = "stage"] /\ TransactionFree
  BY <1>1, <1>3, <1>5 DEF UpgradeBegin, Run, Take, Move
<1>7. Staged(s)
  BY <1>6, <1>a DEF Staged, Typed, archiveVars
<1>8. /\ Same /\ Kind' = Kind /\ Rooted' = Rooted
      /\ OneRoot' /\ PlacesOK' /\ AcceptedOK'
      /\ where'[s] = "stage" /\ \A d \in Dirs : d # s => where'[d] = where[d]
      /\ where' \in [Dirs -> Places]
      /\ Done' = Done /\ Uncommitted' = Uncommitted /\ \A d \in Dirs : Keeper(d)' = Keeper(d)
      /\ s \in Dirs /\ s # Original /\ s \notin Fresh
  BY <1>7, StagedSame
<1>b. layout' = layout /\ mark' = mark /\ daemon' = daemon /\ job' = job /\ bot' = bot
  BY <1>6, <1>7 DEF Staged
<1>9. /\ Sidecar' = m /\ side' \in [Kinds -> Markers \cup {NoMark}]
      /\ \A k \in Kinds : side'[k] = side[k] \/ (k = Kind /\ Proper(side'[k]))
  BY <1>2, <1>4, <1>6, <1>8, <1>a DEF Sidecar, Kinds, Typed
<1>10. MarkersOK' /\ tool' \in [Tools -> Runs]
  <2>1. \A d \in Dirs : mark'[d] = mark[d] \/ (d \in Stages /\ mark'[d].id = d /\ Proper(mark'[d]))
    BY <1>b
  <2> QED BY <1>4, <1>5, <1>6, <1>8, <1>9, <1>a, <2>1, RunMarkers
<1>11. /\ held' \in [Dirs -> Tools \cup {Daemon, Archiver, Nobody}] /\ held'[Original] = p
       /\ \A d \in Dirs : held[d] # Nobody => held'[d] = held[d]
  BY <1>1, <1>6, <1>a, Names DEF Typed
<1>12. Typed'
  BY <1>6, <1>8, <1>9, <1>10, <1>11, <1>b, <1>a DEF Typed, Places
\* No daemon and no archive command holds the root.
<1>13. daemon.pc \notin {"locked", "up", "old"} /\ job.dir = None
  BY <1>1, <1>a, Names DEF HoldersOK, OneRoot, Typed
<1>14. HoldersOK' /\ UpOK'
  BY <1>13, <1>b DEF HoldersOK, UpOK
<1>15. SettledOK'
  BY <1>3, <1>9 DEF SettledOK, Final
<1>16. where'[Original] = "root"
  BY <1>1, <1>8, Names
<1>17. RoleSideOK'
  BY <1>3, <1>9, <1>16 DEF RoleSideOK
<1>18. ToolOK(p)'
  <2>1. tool'[p] = t
    BY <1>6, <1>a DEF Typed
  <2> QED BY <1>2, <1>3, <1>5, <1>8, <1>9, <1>11, <2>1 DEF ToolOK, RoleOK, CopyOK, Forward, Is
<1>19. \A q \in Tools \ {p} : tool'[q] = tool[q]
  BY <1>6, <1>a DEF Typed
<1>20. UNCHANGED <<daemon, accepted, bot, bundles, job>>
  BY <1>7 DEF Staged
<1> QED BY <1>6, <1>8, <1>10, <1>12, <1>14, <1>15, <1>17, <1>18, <1>19, <1>20, ToolInv

LEMMA MigrateBegins ==
  ASSUME IInv, NEW p \in Tools, NEW s \in Stages, MigrateBegin(p, s), UNCHANGED archiveVars
  PROVE  IInv'
<1>a. /\ StateInv /\ Typed /\ OneRoot /\ MarkersOK /\ PlacesOK /\ HoldersOK /\ UpOK /\ SettledOK
  BY DEF IInv, StateInv, LayoutInv
<1>1. PICK o \in Dirs \cup {None} : o = Root
  BY <1>a, RootIs
<1>2. /\ Kind = "legacy" /\ held[Original] = Nobody /\ where[s] = "none"
      /\ IF Rooted THEN o = Original
         ELSE o \in Fresh \cup {None} /\ (o # None => layout[o] = "empty")
      /\ o # None => where[o] = "root" /\ held[o] = Nobody
  <2>1. /\ layout[Original] = "v1" /\ where[Original] \in {"root", "source"}
        /\ Root = Original \/ RootLayout \in {"absent", "empty"}
        /\ Unheld({Original, Root} \ {None})
    BY DEF MigrateBegin
  <2>2. where[Original] = "root" => o = Original
    BY <1>1, <1>a, RootIs, Names
  <2>3. o # None => o \in Dirs /\ where[o] = "root" /\ held[o] = Nobody
    BY <1>1, <2>1, <1>a, RootIs DEF Unheld
  <2>4. o # None /\ o # Original => o \in Fresh /\ layout[o] = "empty"
    <3> SUFFICES ASSUME o # None, o # Original PROVE o \in Fresh /\ layout[o] = "empty"
      OBVIOUS
    <3>1. layout[Root] = "empty"
      BY <1>1, <2>1, <2>3, <1>a DEF RootLayout, Typed
    <3> QED BY <1>1, <3>1, <1>a, BareRoot
  <2>5. held[Original] = Nobody /\ Kind = "legacy" /\ where[s] = "none"
    BY <2>1, Names DEF Unheld, Kind, MigrateBegin
  <2>6. ~Rooted => o # Original
    BY <2>3, Names DEF Rooted
  <2>7. Rooted => where[Original] = "root"
    BY <2>1 DEF Rooted
  <2> QED BY <2>2, <2>3, <2>4, <2>5, <2>6, <2>7
<1>3. PICK m \in Markers : /\ m = Marker("legacy", s, o, "preparing")
                           /\ m.kind = "legacy" /\ m.id = s /\ m.orig = o /\ m.status = "preparing"
  <2>1. "legacy" \in Kinds /\ "preparing" \in Statuses
    BY DEF Kinds, Statuses
  <2> QED BY <2>1, MarkerNew
<1>4. Proper(m)
  BY <1>2, <1>3 DEF Proper
<1>5. PICK t \in Runs : t = [pc |-> "copy", m |-> m]
  BY DEF Runs, Points
<1>6. /\ tool' = [tool EXCEPT ![p] = t]
      /\ held' = [d \in Dirs |-> IF d \in {Original, o, s} \ {None} THEN p ELSE held[d]]
      /\ layout' = [d \in Dirs |-> IF d = o /\ layout[d] = "empty" THEN "bare" ELSE layout[d]]
      /\ UNCHANGED <<work, mark, side, daemon, accepted, faults>>
      /\ where' = [where EXCEPT ![s] = "stage"] /\ TransactionFree /\ CheckStartup
  BY <1>1, <1>3, <1>5 DEF MigrateBegin, Run, Take, Move
<1>7. Staged(s)
  BY <1>2, <1>6, <1>a DEF Staged, Typed, archiveVars
<1>8. /\ Same /\ Kind' = Kind /\ Rooted' = Rooted
      /\ OneRoot' /\ PlacesOK' /\ AcceptedOK'
      /\ where'[s] = "stage" /\ \A d \in Dirs : d # s => where'[d] = where[d]
      /\ where' \in [Dirs -> Places]
      /\ Done' = Done /\ Uncommitted' = Uncommitted /\ \A d \in Dirs : Keeper(d)' = Keeper(d)
      /\ s \in Dirs /\ s # Original /\ s \notin Fresh
  BY <1>7, StagedSame
<1>b. /\ mark' = mark /\ side' = side /\ daemon' = daemon /\ job' = job /\ bot' = bot
      /\ Sidecar' = Sidecar
  BY <1>6, <1>7, <1>8 DEF Staged, Sidecar
<1>9. MarkersOK' /\ tool' \in [Tools -> Runs]
  <2>1. /\ \A d \in Dirs : mark'[d] = mark[d] \/ (d \in Stages /\ mark'[d].id = d /\ Proper(mark'[d]))
        /\ \A k \in Kinds : side'[k] = side[k]
    BY <1>b
  <2>2. t.pc # "idle" /\ Proper(t.m)
    BY <1>4, <1>5
  <2> QED BY <1>6, <1>8, <1>a, <2>1, <2>2, RunMarkers
<1>10. /\ held' \in [Dirs -> Tools \cup {Daemon, Archiver, Nobody}] /\ held'[Original] = p
       /\ \A d \in Dirs : d # s /\ held[d] # Nobody => held'[d] = held[d]
       /\ o # None => held'[o] = p
  BY <1>2, <1>6, <1>a, Names DEF Typed
<1>11. Typed'
  BY <1>7, <1>8, <1>9, <1>10, <1>b, <1>a DEF Typed, Places, Staged
<1>12. HoldersOK'
  <2>1. Final(Sidecar)' = Final(Sidecar)
    BY <1>b DEF Final
  <2>2. \A d \in Dirs : d = Original \/ where[d] = "root" => d # s
    BY <1>2, <1>8, Names
  <2>3. \A d \in Dirs : held[d] \in {Daemon, Archiver} /\ (d = Original \/ where[d] = "root")
            => held'[d] = held[d]
    BY <1>10, <2>2, Names
  <2>4. \A d \in Dirs : where[d] = "root" => where'[d] = "root"
    BY <1>8, <2>2
  <2>5. \A d \in Dirs : layout[d] # "empty" => layout'[d] # "empty"
    BY <1>7 DEF Staged
  <2> QED BY <1>a, <1>b, <2>1, <2>3, <2>4, <2>5, HoldersStay
<1>13. UpOK'
  <2> SUFFICES ASSUME daemon.pc = "up" PROVE UpOK'
    BY <1>b DEF UpOK
  <2>1. PICK d \in Dirs : d = daemon.dir /\ layout[d] = "v3" /\ Keeper(d)
    BY <1>a DEF UpOK, HoldersOK, Typed
  <2>2. layout'[d] = "v3"
    BY <1>7, <2>1 DEF Staged
  <2> QED BY <1>2, <1>8, <1>b, <2>1, <2>2 DEF UpOK
<1>14. SettledOK'
  <2>1. where'[Original] = where[Original]
    BY <1>8, Names
  <2> QED BY <1>8, <1>b, <1>a, <2>1 DEF SettledOK, Final
<1>15. RoleSideOK'
  BY <1>2, <1>8 DEF RoleSideOK
<1>16. ToolOK(p)'
  <2>1. tool'[p] = t
    BY <1>6, <1>a DEF Typed
  <2>2. Final(Sidecar)'
    BY <1>6, <1>b, StartupFinal DEF Final
  <2>3. o # None => /\ where'[o] = "root" /\ held'[o] = p
                    /\ o \in Fresh => layout'[o] \in {"empty", "bare"}
    <3> SUFFICES ASSUME o # None PROVE /\ where'[o] = "root" /\ held'[o] = p
                                       /\ o \in Fresh => layout'[o] \in {"empty", "bare"}
      OBVIOUS
    <3>1. o \in Dirs /\ where[o] = "root" /\ o # s
      BY <1>2
    <3>2. o \in Fresh => layout[o] = "empty"
      BY <1>2, Names
    <3> QED BY <1>6, <1>8, <1>10, <3>1, <3>2
  <2>4. OrigHeld(p)'
    BY <1>3, <1>5, <2>1, <2>3 DEF OrigHeld
  <2>5. LegacyOK(p)'
    BY <1>3, <1>5, <1>8, <1>10, <2>1, <2>2, <2>4 DEF LegacyOK, Is
  <2>6. CopyOK(p)'
    BY <1>5, <2>1 DEF CopyOK, Forward
  <2> QED BY <1>2, <1>8, <2>5, <2>6 DEF ToolOK
<1>17. \A q \in Tools \ {p} : tool'[q] = tool[q]
  BY <1>6, <1>a DEF Typed
<1>18. UNCHANGED <<daemon, accepted, bot, bundles, job>>
  BY <1>7 DEF Staged
<1> QED BY <1>6, <1>8, <1>9, <1>11, <1>12, <1>13, <1>14, <1>15, <1>16, <1>17, <1>18, ToolInv

\* The stage gets the new layout and all the work of the original.
LEMMA Converted ==
  ASSUME IInv, NEW p \in Tools, ConvertRoles(p) \/ ConvertLegacy(p), UNCHANGED archiveVars
  PROVE  IInv'
<1>a. /\ StateInv /\ Typed /\ OneRoot /\ MarkersOK /\ PlacesOK /\ RoleSideOK
      /\ HoldersOK /\ UpOK /\ SettledOK /\ AcceptedOK
      /\ ToolOK(p) /\ Active(p) /\ tool[p].pc = "copy"
  BY DEF IInv, StateInv, LayoutInv, RunInv, ConvertRoles, ConvertLegacy, Active
<1>1. PICK m \in Markers :
           /\ tool[p].m = m /\ Proper(m) /\ m.kind = Kind /\ m.id \in Stages /\ m.id \in Dirs
           /\ m.id # Original /\ m.id \notin Fresh /\ m.id # m.orig
           /\ m.orig # None => m.orig \in Dirs
           /\ IF Rooted THEN m.orig = Original ELSE m.orig \in Fresh \cup {None}
  BY <1>a, RunHas
<1>2. PICK n \in Markers : /\ n = With(m, "prepared") /\ Proper(n) /\ n.kind = m.kind
                           /\ n.id = m.id /\ n.orig = m.orig /\ n.status = "prepared"
  BY <1>1, WithProper
<1>3. PICK pc \in Points : pc = IF m.kind = "role" THEN "mark" ELSE "side"
  BY DEF Points
<1>4. PICK t \in Runs : t = [pc |-> pc, m |-> n]
  BY DEF Runs
<1>5. /\ tool' = [tool EXCEPT ![p] = t]
      /\ layout' = [layout EXCEPT ![m.id] = "v3"] /\ work' = [work EXCEPT ![m.id] = work[Original]]
      /\ \/ held' = held
         \/ m.kind = "role" /\ held' = [d \in Dirs |-> IF d \in {m.id} THEN p ELSE held[d]]
      /\ UNCHANGED <<where, mark, side, daemon, accepted, bot, bundles, job>>
  BY <1>1, <1>2, <1>3, <1>4 DEF ConvertRoles, ConvertLegacy, Copied, Run, Take, archiveVars
<1>b. /\ where' = where /\ mark' = mark /\ side' = side /\ daemon' = daemon /\ accepted' = accepted
      /\ job' = job /\ bot' = bot
  BY <1>5
<1>6. /\ layout'[m.id] = "v3" /\ work'[m.id] = work[Original]
      /\ \A d \in Dirs : d # m.id => /\ layout'[d] = layout[d] /\ work'[d] = work[d]
                                     /\ held'[d] = held[d]
  BY <1>1, <1>5, <1>a DEF Typed
<1>7. Same /\ Kind' = Kind /\ Rooted' = Rooted /\ Sidecar' = Sidecar
  BY <1>1, <1>6, <1>b, SameIs, Names DEF Same, Sidecar
<1>8. MarkersOK' /\ tool' \in [Tools -> Runs] /\ tool'[p] = t
  <2>1. /\ \A k \in Kinds : side'[k] = side[k]
        /\ \A d \in Dirs : mark'[d] = mark[d] \/ (d \in Stages /\ mark'[d].id = d /\ Proper(mark'[d]))
    BY <1>b
  <2>2. t.pc # "idle" /\ Proper(t.m)
    BY <1>2, <1>3, <1>4
  <2>3. MarkersOK' /\ tool' \in [Tools -> Runs]
    BY <1>5, <1>7, <1>a, <2>1, <2>2, RunMarkers
  <2> QED BY <2>3, <1>5, <1>a DEF Typed
<1>9. Typed'
  <2>1. held' \in [Dirs -> Tools \cup {Daemon, Archiver, Nobody}]
    BY <1>5, <1>a DEF Typed
  <2>2. work' \in [Dirs -> SUBSET Work]
    BY <1>5, <1>a, Names DEF Typed
  <2>3. layout' \in [Dirs -> {"empty", "bare", "v1", "v2", "v3"}]
    BY <1>5, <1>a DEF Typed
  <2> QED BY <1>8, <1>a, <1>b, <2>1, <2>2, <2>3 DEF Typed
<1>10. /\ Done' = Done /\ Uncommitted' = Uncommitted
       /\ \A d : Complete(d)' = Complete(d) /\ Keeper(d)' = Keeper(d)
  BY <1>7, <1>b DEF Done, Uncommitted, Complete, Keeper
<1>11. Kind \in {"role", "legacy"}
  BY DEF Kind
\* What the run has established, and that the original is what keeps the work.
<1>12. /\ where[m.id] = "stage" /\ held[Original] = p
       /\ Rooted => where[Original] = "root"
       /\ Kind = "role" => m.id = Sidecar.id /\ Sidecar.status = "preparing"
       /\ Kind = "legacy" => Final(Sidecar) /\ OrigHeld(p)
  <2>1. CASE Kind = "role"
    <3>1. m.id = Sidecar.id /\ Sidecar.status = "preparing" /\ where[m.id] = "stage" /\ held[Original] = p
      BY <1>1, <1>a, <2>1 DEF ToolOK, RoleOK, Is
    <3> QED BY <1>a, <2>1, <3>1 DEF RoleSideOK
  <2>2. CASE Kind = "legacy"
    <3>1. where[m.id] = "stage" /\ Final(Sidecar) /\ held[Original] = p /\ OrigHeld(p)
      BY <1>1, <1>a, <2>2 DEF ToolOK, LegacyOK, Is
    <3> QED BY <1>1, <2>2, <3>1, Names DEF OrigHeld
  <2> QED BY <1>11, <2>1, <2>2
<1>13. Rooted => InCopy(m.id)'
  <2> SUFFICES ASSUME Rooted, NEW w \in accepted PROVE w \in work'[m.id] \/ w \in Displaced'
    BY <1>b DEF InCopy
  <2>1. PICK d \in Dirs : w \in work[d] /\ (Keeper(d) \/ (d \in Fresh /\ where[d] = "aside"))
    BY <1>a DEF AcceptedOK, Kept
  <2>2. CASE Keeper(d)
    <3>1. d = Original
      BY <1>12, <1>a, <2>2, Names DEF Keeper, OneRoot
    <3> QED BY <1>6, <2>1, <3>1
  <2>3. CASE d \in Fresh /\ where[d] = "aside"
    BY <1>1, <1>6, <1>b, <2>1, <2>3 DEF Displaced
  <2> QED BY <2>1, <2>2, <2>3
<1>14. OneRoot' /\ PlacesOK'
  <2>1. \A d \in Dirs : layout'[d] \in {"empty", "bare"} => work'[d] = {}
    BY <1>6, <1>a DEF PlacesOK
  <2>2. \A d \in Dirs \ {Original} : layout'[d] \in {"empty", "bare", "v3"}
    BY <1>6, <1>a DEF PlacesOK
  <2>3. \A s \in Stages : where'[s] = "root" => layout'[s] = "v3" /\ mark'[s] # NoMark
    BY <1>6, <1>a, <1>b, Names DEF PlacesOK
  <2>4. layout'[Original] = layout[Original]
    BY <1>1, <1>6, Names
  <2>5. \A d \in Dirs : Complete(d)' => where'[d] = "root"
    BY <1>10, <1>a, <1>b DEF PlacesOK
  <2> QED BY <1>7, <1>a, <1>b, <2>1, <2>2, <2>3, <2>4, <2>5 DEF PlacesOK, OneRoot
<1>15. AcceptedOK'
  <2> SUFFICES ASSUME NEW w \in accepted PROVE Kept(w)'
    BY <1>b DEF AcceptedOK
  <2>1. PICK d \in Dirs : w \in work[d] /\ (Keeper(d) \/ (d \in Fresh /\ where[d] = "aside"))
    BY <1>a DEF AcceptedOK, Kept
  <2>2. d # m.id
    BY <1>1, <1>12, <2>1 DEF Keeper
  <2> QED BY <1>6, <1>10, <1>b, <2>1, <2>2 DEF Kept
<1>16. HoldersOK'
  <2>1. Final(Sidecar)' = Final(Sidecar)
    BY <1>7 DEF Final
  <2>2. \A d \in Dirs : held[d] \in {Daemon, Archiver} /\ (d = Original \/ where[d] = "root")
            => held'[d] = held[d] /\ layout'[d] = layout[d]
    BY <1>1, <1>6, <1>12
  <2> QED BY <1>a, <1>b, <2>1, <2>2, HoldersStay
<1>17. UpOK'
  <2> SUFFICES ASSUME daemon.pc = "up" PROVE UpOK'
    BY <1>b DEF UpOK
  <2>1. PICK d \in Dirs : d = daemon.dir /\ layout[d] = "v3" /\ Keeper(d)
    BY <1>a DEF UpOK, HoldersOK, Typed
  <2>2. layout'[d] = "v3"
    BY <1>6, <2>1
  <2>3. Final(Sidecar)' = Final(Sidecar)
    BY <1>7 DEF Final
  <2> QED BY <1>7, <1>10, <1>a, <1>b, <2>1, <2>2, <2>3 DEF UpOK
<1>18. SettledOK'
  BY <1>7, <1>10, <1>a, <1>b DEF SettledOK, Final
<1>19. RoleSideOK'
  <2> SUFFICES ASSUME Kind = "role" PROVE RoleSideOK'
    BY <1>7 DEF RoleSideOK
  <2>1. Sidecar'.status = "preparing" /\ where'[Original] = "root"
    BY <1>7, <1>12, <1>a, <1>b DEF RoleSideOK
  <2> QED BY <2>1 DEF RoleSideOK
<1>20. ToolOK(p)'
  <2>1. layout'[m.id] = "v3" /\ (Rooted' \/ where'[m.id] = "root" => InCopy(m.id)')
    BY <1>6, <1>7, <1>12, <1>13, <1>b
  <2>2. CopyOK(p)'
    BY <1>2, <1>4, <1>8, <2>1 DEF CopyOK
  <2>3. held'[Original] = p
    BY <1>1, <1>6, <1>12, Names
  <2>4. Kind = "role" => RoleOK(p)'
    BY <1>1, <1>2, <1>3, <1>4, <1>7, <1>8, <1>12, <1>b, <2>3 DEF RoleOK, Is
  <2>5. Kind = "legacy" => LegacyOK(p)'
    <3> SUFFICES ASSUME Kind = "legacy" PROVE LegacyOK(p)'
      OBVIOUS
    <3>1. OrigHeld(p)'
      <4>1. m.orig # None => /\ where[m.orig] = "root" /\ held[m.orig] = p
                             /\ m.orig \in Fresh => layout[m.orig] \in {"empty", "bare"}
        BY <1>1, <1>12 DEF OrigHeld
      <4>2. m.orig # None => /\ where'[m.orig] = "root" /\ held'[m.orig] = p
                             /\ m.orig \in Fresh => layout'[m.orig] \in {"empty", "bare"}
        BY <1>1, <1>6, <1>b, <4>1
      <4> QED BY <1>2, <1>4, <1>8, <4>2 DEF OrigHeld
    <3>2. Final(Sidecar)'
      BY <1>7, <1>12 DEF Final
    <3> QED BY <1>1, <1>2, <1>3, <1>4, <1>8, <1>12, <1>b, <2>3, <3>1, <3>2 DEF LegacyOK, Is
  <2> QED BY <1>7, <2>2, <2>4, <2>5 DEF ToolOK
<1>21. \A q \in Tools \ {p} : tool'[q] = tool[q]
  BY <1>5, <1>a DEF Typed
<1>22. UNCHANGED <<daemon, accepted, bot, bundles, job>>
  BY <1>5
<1> QED BY <1>7, <1>8, <1>9, <1>14, <1>15, <1>16, <1>17, <1>18, <1>19, <1>20, <1>21, <1>22, <1>a, ToolInv

-----------------------------------------------------------------------------
(***************************************************************************)
(* The invariant, and what it means.                                        *)
(***************************************************************************)

LEMMA InvInit ==
  ASSUME ArchiveInit
  PROVE  IInv
<1>1. PICK start \in Starts : Start(start)
  BY DEF ArchiveInit, Init
<1>2. /\ work = [d \in Dirs |-> {}] /\ mark = [d \in Dirs |-> NoMark]
      /\ side = [k \in Kinds |-> NoMark] /\ held = [d \in Dirs |-> Nobody]
      /\ tool = [p \in Tools |-> Idle] /\ daemon = [pc |-> "off", dir |-> None]
      /\ accepted = {} /\ bot = [d \in Dirs |-> {}] /\ bundles = {"old"}
      /\ job = [pc |-> "idle", dir |-> None]
  BY DEF ArchiveInit, Init, NoJob
<1>3. PICK f \in Fresh : f = CHOOSE g \in Fresh : TRUE
  BY MigrationAssumption
<1>4. /\ where \in [Dirs -> Places] /\ layout \in [Dirs -> {"empty", "bare", "v1", "v2", "v3"}]
      /\ where[Original] \in {"root", "source"} /\ layout[Original] \in {"v1", "v2"}
      /\ layout[Original] = "v2" => where[Original] = "root"
      /\ \A d \in Dirs \ {Original} : layout[d] = "empty"
      /\ \A d \in Dirs \ {Original, f} : where[d] = "none"
      /\ where[f] \in {"none", "root"} /\ (where[f] = "root" => where[Original] = "source")
  <2>1. /\ where = [d \in Dirs |->
              CASE d = Original -> IF start \in {"v1", "v2"} THEN "root" ELSE "source"
                [] start = "empty" /\ d = f -> "root"
                [] OTHER -> "none"]
        /\ layout = [d \in Dirs |-> IF d = Original THEN IF start = "v2" THEN "v2" ELSE "v1"
                                    ELSE "empty"]
    BY <1>1, <1>3 DEF Start
  <2>2. f \in Dirs /\ Original \in Dirs /\ f # Original
    BY Names
  <2>3. layout \in [Dirs -> {"empty", "bare", "v1", "v2", "v3"}]
    BY <2>1
  <2>4. where[Original] = IF start \in {"v1", "v2"} THEN "root" ELSE "source"
    BY <2>1, <2>2
  <2>5. layout[Original] = IF start = "v2" THEN "v2" ELSE "v1"
    BY <2>1, <2>2
  <2>6. where[f] = IF start = "empty" THEN "root" ELSE "none"
    BY <2>1, <2>2
  <2>7. \A d \in Dirs \ {Original, f} : where[d] = "none"
    BY <2>1
  <2>8. where \in [Dirs -> Places]
    BY <2>1, <2>4, <2>6, <2>7 DEF Places
  <2>9. \A d \in Dirs \ {Original} : layout[d] = "empty"
    BY <2>1
  <2> QED BY <2>3, <2>4, <2>5, <2>6, <2>7, <2>8, <2>9
<1>5. Typed
  <2>1. Idle \in Runs
    BY DEF Idle, Runs, Points
  <2> QED BY <1>2, <1>4, <2>1, Names DEF Typed, Places, Parting
<1>6. OneRoot
  BY <1>4 DEF OneRoot
<1>7. \A d \in Dirs : mark[d] = NoMark /\ ~Complete(d) /\ work[d] = {}
  BY <1>2, NoMarkIs DEF Complete
<1>8. PlacesOK
  BY <1>4, <1>7, Names DEF PlacesOK, Rooted
<1>9. MarkersOK
  BY <1>2, <1>7 DEF MarkersOK, Idle
<1>10. Sidecar = NoMark
  BY <1>2 DEF Sidecar, Kind, Kinds
<1>11. RunInv
  BY <1>2, <1>10, NoMarkIs DEF RunInv, OneActive, Active, RoleSideOK, ToolOK, Idle
<1>12. LayoutInv
  <2>1. ~Uncommitted
    BY <1>4, Names DEF Uncommitted
  <2> QED BY <1>2, <1>4, <2>1 DEF LayoutInv, HoldersOK, UpOK, SettledOK, AcceptedOK
<1>13. JobOK
  BY <1>2 DEF JobOK
<1> QED BY <1>5, <1>6, <1>8, <1>9, <1>11, <1>12, <1>13 DEF IInv, StateInv

LEMMA InvStill ==
  ASSUME IInv, UNCHANGED allVars
  PROVE  IInv'
<1>1. UNCHANGED <<where, layout, work, mark, side, held, tool, daemon, accepted, faults, bot, bundles, job>>
  BY DEF allVars, vars, archiveVars
<1>a. StateInv /\ Typed /\ HoldersOK /\ UpOK /\ JobOK
  BY DEF IInv, StateInv, LayoutInv
<1>2. Beside
  BY <1>1, <1>a, DiskSame
<1>3. Typed' /\ JobOK'
  BY <1>1, <1>a DEF Typed, JobOK
<1>4. HoldersOK'
  BY <1>1, <1>2, <1>a, BesideSame, HoldersStay DEF Final
<1>5. UpOK'
  BY <1>1, <1>2, <1>4, <1>a, UpStays
<1> QED BY <1>1, <1>2, <1>3, <1>4, <1>5, BesideInv

LEMMA InvNext ==
  ASSUME IInv, [ArchiveNext]_allVars
  PROVE  IInv'
<1>1. CASE UNCHANGED allVars
  BY <1>1, InvStill
<1>2. CASE Next /\ UNCHANGED archiveVars
  <2>1. ASSUME NEW p \in Tools, NEW s \in Stages, UpgradeBegin(p, s) \/ MigrateBegin(p, s)
        PROVE  IInv'
    BY <1>2, <2>1, UpgradeBegins, MigrateBegins
  <2>2. ASSUME NEW p \in Tools, ToolStep(p)
        PROVE  IInv'
    BY <1>2, <2>2, Converted, MarkWritten, SideWritten, RoleOut, LegacyOut, StageMovesIn, RunEnds,
       RoleRecovers, LegacyReads, LegacyRecovers, RootRestored DEF ToolStep, Kind
  <2>3. ASSUME NEW p \in Tools, MoveBack(p) \/ Abort(p)
        PROVE  IInv'
    BY <1>2, <2>3, RootPutBack, RunEnds
  <2>4. CASE DaemonCheck \/ LockRoot \/ Up \/ OldUp \/ Stop \/ Tidy
    BY <1>2, <2>4, DaemonQuiet, RootLocked, DaemonUp, RootTidied
  <2>5. ASSUME NEW f \in Fresh, EnsureRoot(f)
        PROVE  IInv'
    BY <1>2, <2>5, RootMade
  <2>6. ASSUME NEW w \in Work, Accept(w)
        PROVE  IInv'
    BY <1>2, <2>6, WorkAccepted
  <2> QED BY <1>2, <2>1, <2>2, <2>3, <2>4, <2>5, <2>6 DEF Next
<1>3. CASE JobQuiet
  BY <1>3, JobStays
<1>4. CASE ImportRegister
  BY <1>4, BotRegistered
<1>5. ASSUME NEW f \in Fresh, JobLock(f)
      PROVE  IInv'
  BY <1>5, JobLocks
<1> QED BY <1>1, <1>2, <1>3, <1>4, <1>5 DEF ArchiveNext, ArchiveStep, JobQuiet

THEOREM Invariance == ArchiveSpec => []IInv
<1>1. ArchiveInit => IInv
  BY InvInit
<1>2. IInv /\ [ArchiveNext]_allVars => IInv'
  BY InvNext
<1> QED BY <1>1, <1>2, PTL DEF ArchiveSpec

\* Every variable of Migration keeps its type, and there is one root at most:
\* whichever renames an interruption falls between, nothing is put beside it.
THEOREM Types == ArchiveSpec => []TypeOK
<1>1. IInv => TypeOK
  <2> SUFFICES ASSUME IInv PROVE TypeOK
    OBVIOUS
  <2>a. Typed /\ OneRoot
    BY DEF IInv, StateInv
  <2>1. PICK d : At("root") \subseteq {d}
    BY <2>a DEF At, OneRoot
  <2>2. IsFiniteSet({d}) /\ Cardinality({d}) = 1
    BY FS_Singleton
  <2>3. Cardinality(At("root")) <= Cardinality({d}) /\ Cardinality(At("root")) \in Nat
    BY <2>1, <2>2, FS_Subset, FS_CardinalityType
  <2> QED BY <2>a, <2>2, <2>3 DEF Typed, TypeOK, Runs, Points
<1> QED BY <1>1, Invariance, PTL

\* Work accepted by a daemon of either layout is what the next daemon finds,
\* through every interrupted, rolled back and repeated migration (Recover,
\* recoverRoles, Migrate, Upgrade).
THEOREM Carried == ArchiveSpec => []WorkIsCarried
<1>1. IInv => WorkIsCarried
  <2> SUFFICES ASSUME IInv, daemon.pc = "up", NEW w \in accepted, w \notin Displaced
               PROVE  w \in work[daemon.dir]
    BY DEF WorkIsCarried
  <2>a. Typed /\ OneRoot /\ PlacesOK /\ HoldersOK /\ UpOK /\ AcceptedOK
    BY DEF IInv, StateInv, LayoutInv
  <2>1. PICK d \in Dirs : d = daemon.dir /\ where[d] = "root" /\ Keeper(d) /\ d # Original
    BY <2>a DEF HoldersOK, UpOK, PlacesOK, Typed
  <2>2. PICK e \in Dirs : w \in work[e] /\ (Keeper(e) \/ (e \in Fresh /\ where[e] = "aside"))
    BY <2>a DEF AcceptedOK, Kept
  <2>3. Keeper(e)
    BY <2>2 DEF Displaced
  <2>4. where[e] = "root"
    BY <2>1, <2>3, Names DEF Keeper, Done
  <2> QED BY <2>1, <2>2, <2>4, <2>a DEF OneRoot
<1> QED BY <1>1, Invariance, PTL

\* A daemon is up only on a committed layout, that it has locked and nobody renames
\* or writes a bundle into or from (UpIsCommitted), and a Bot in a catalog has its
\* directory and its content (ListedIsWhole).
THEOREM WholeLayout == ArchiveSpec => []LayoutIsWhole
<1>1. IInv => LayoutIsWhole
  <2> SUFFICES ASSUME IInv PROVE LayoutIsWhole
    OBVIOUS
  <2>a. Typed /\ MarkersOK /\ HoldersOK /\ UpOK /\ JobOK
    BY DEF IInv, StateInv, LayoutInv
  <2>1. UpIsCommitted
    <3> SUFFICES ASSUME daemon.pc = "up"
                 PROVE  /\ where[daemon.dir] = "root" /\ layout[daemon.dir] = "v3"
                        /\ held[daemon.dir] = Daemon
                        /\ Final(mark[daemon.dir])
      BY DEF UpIsCommitted
    <3>1. PICK d \in Dirs : /\ d = daemon.dir /\ where[d] = "root" /\ layout[d] = "v3"
                            /\ held[d] = Daemon /\ Keeper(d)
      BY <2>a DEF HoldersOK, UpOK, Typed
    <3>2. d # Original
      BY <3>1 DEF IInv, StateInv, PlacesOK
    <3>3. Complete(d) \/ mark[d] = NoMark
      BY <3>1, <3>2, <2>a, Names DEF Keeper, MarkersOK
    <3> QED BY <3>1, <3>3, NoMarkIs DEF Complete, Final
  <2>2. daemon.pc = "up" => job.dir # daemon.dir
    BY <2>a, Names DEF HoldersOK
  <2> QED BY <2>1, <2>2, <2>a DEF LayoutIsWhole, ListedIsWhole, JobOK
<1> QED BY <1>1, Invariance, PTL

\* The marker of a committed migration is never written over with another.
LEMMA MarkStays ==
  ASSUME IInv, [ArchiveNext]_allVars, NEW d \in Dirs, Complete(d)
  PROVE  mark'[d] = mark[d]
<1>1. ASSUME NEW p \in Tools, WriteMark(p) PROVE mark'[d] = mark[d]
  BY <1>1, MarkedIs DEF IInv, StateInv, Typed
<1>2. mark' = mark \/ \E p \in Tools : WriteMark(p)
  <2>1. CASE UNCHANGED allVars
    BY <2>1 DEF allVars, vars
  <2>2. CASE Next
    <3>1. ASSUME NEW p \in Tools, NEW s \in Stages, UpgradeBegin(p, s) \/ MigrateBegin(p, s)
          PROVE  mark' = mark
      BY <3>1 DEF UpgradeBegin, MigrateBegin
    <3>2. ASSUME NEW p \in Tools, ToolStep(p) \/ MoveBack(p) \/ Abort(p), ~WriteMark(p)
          PROVE  mark' = mark
      <4>1. CASE ConvertRoles(p) \/ ConvertLegacy(p) \/ WriteSide(p) \/ Refuse(p)
        BY <4>1 DEF ConvertRoles, ConvertLegacy, WriteSide, Refuse
      <4>2. CASE MoveOut(p) \/ MoveIn(p) \/ MoveBack(p) \/ Abort(p)
        BY <4>2 DEF MoveOut, MoveIn, MoveBack, Abort
      <4>3. CASE RecoverRole(p) \/ RecoverRead(p) \/ RecoverLegacy(p) \/ Restore(p)
        BY <4>3 DEF RecoverRole, RecoverRead, RecoverLegacy, Restore
      <4> QED BY <3>2, <4>1, <4>2, <4>3 DEF ToolStep
    <3>3. CASE DaemonCheck \/ LockRoot \/ Up \/ OldUp \/ Stop \/ Tidy
      BY <3>3 DEF DaemonCheck, LockRoot, Up, OldUp, Stop, Tidy, toolVars
    <3>4. ASSUME NEW f \in Fresh, EnsureRoot(f) PROVE mark' = mark
      BY <3>4 DEF EnsureRoot, toolVars
    <3>5. ASSUME NEW w \in Work, Accept(w) PROVE mark' = mark
      BY <3>5 DEF Accept, toolVars
    <3> QED BY <2>2, <3>1, <3>2, <3>3, <3>4, <3>5 DEF Next
  <2>3. CASE ImportRegister \/ \E f \in Fresh : JobLock(f)
    BY <2>3 DEF ImportRegister, JobLock, migrationVars
  <2>4. CASE JobQuiet
    BY <2>4, JobQuietFrame
  <2> QED BY <2>1, <2>2, <2>3, <2>4 DEF ArchiveNext, ArchiveStep, JobQuiet
<1> QED BY <1>1, <1>2

\* No recovery, and no second migration, moves a committed layout away from the
\* root or takes its marker back.
THEOREM CommitStays == ArchiveSpec => CompleteIsFinal
<1>1. IInv /\ [ArchiveNext]_allVars =>
        [\A d \in Dirs : where[d] = "root" /\ mark[d].status = "complete"
             => where'[d] = "root" /\ mark'[d] = mark[d]]_vars
  <2> SUFFICES ASSUME IInv, [ArchiveNext]_allVars, NEW d \in Dirs, mark[d].status = "complete"
               PROVE  where'[d] = "root" /\ mark'[d] = mark[d]
    OBVIOUS
  <2>1. mark'[d] = mark[d]
    BY MarkStays DEF Complete
  <2>2. PlacesOK'
    BY InvNext DEF IInv, StateInv
  <2> QED BY <2>1, <2>2 DEF PlacesOK, Complete
<1> QED BY <1>1, Invariance, PTL DEF ArchiveSpec, CompleteIsFinal
=============================================================================

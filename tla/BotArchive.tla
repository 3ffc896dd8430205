----------------------------- MODULE BotArchive -----------------------------
(***************************************************************************)
(* Export and Import of one Bot (internal/migration/archive.go), and the    *)
(* conversion of an old export bundle.  They work on the root of a stopped  *)
(* daemon, under the locks and behind the markers of Migration.  A bundle   *)
(* is published by one rename, so an interrupted export or conversion       *)
(* leaves none; an import publishes the Bot's directory, then its content,  *)
(* and lists it in the catalog last.                                        *)
(***************************************************************************)
EXTENDS Migration

VARIABLES
    bot,       \* [Dirs -> the parts of the imported Bot a layout has]
    bundles,   \* the bundles that exist
    job        \* the archive command that runs

archiveVars == <<bot, bundles, job>>
allVars == <<vars, archiveVars>>
migrationVars == <<mark, side, tool, daemon, work, accepted>>

\* dir: bots/<id>; content: its grants and objects; listed: its entry in bots.json
Parts == {"dir", "content", "listed"}
NoJob == [pc |-> "idle", dir |-> None]
Job(pc, d) == job' = [pc |-> pc, dir |-> d]
Add(part) == bot' = [bot EXCEPT ![job.dir] = @ \cup {part}]
EndJob == job' = NoJob /\ Drop(Archiver)

ArchiveInit ==
    /\ Init
    /\ bot = [d \in Dirs |-> {}]
    /\ bundles = {"old"}
    /\ job = NoJob

\* Import and Export look at the markers before they touch the root ...
Begin(pc) ==
    /\ job = NoJob /\ CheckStartup
    /\ Job(pc, None)
    /\ UNCHANGED <<vars, bot, bundles>>
\* validateArchive: a bundle of the current version, whole
Valid == bundles \cap {"converted", "exported"}
ImportBegin == Valid # {} /\ Begin("import")
ExportBegin == "exported" \notin bundles /\ Begin("export")

\* ... lock it, and look again.  The lock makes the root where there is none.
JobLock(f) ==
    /\ job.pc \in {"import", "export"} /\ job.dir = None
    /\ LET d == IF Root = None THEN f ELSE Root IN
       /\ Unheld({d}) /\ Take(Archiver, {d})
       /\ Root = None => where[f] = "none"
       /\ where' = [where EXCEPT ![d] = "root"]
       /\ layout' = [layout EXCEPT ![d] = IF @ = "empty" THEN "bare" ELSE @]
       /\ Job(job.pc, d)
    /\ UNCHANGED <<migrationVars, faults, bot, bundles>>

Importable(d) ==
    CheckStartup /\ layout[d] \in {"bare", "v3"} /\ bot[d] = {}
\* ExportBot verifies every object the Bot has a grant for
ContentOf(d) == {"dir", "content"} \subseteq bot[d]
Exportable(d) ==
    CheckStartup /\ layout[d] = "v3" /\ "listed" \in bot[d] /\ ContentOf(d)

\* Mutant: the Bot is listed before its content is there.
ImportPublishListed ==
    /\ job.pc = "import" /\ job.dir # None /\ Importable(job.dir)
    /\ bot' = [bot EXCEPT ![job.dir] = @ \cup {"dir", "listed"}]
    /\ Job("published", job.dir)
    /\ UNCHANGED <<vars, bundles>>

\* the Bot is neither listed nor has a directory; its stage under bots/ is
\* validated and renamed (an interrupted one stays there under another name)
ImportPublish ==
    /\ job.pc = "import" /\ job.dir # None /\ Importable(job.dir)
    /\ Add("dir") /\ Job("published", job.dir)
    /\ UNCHANGED <<vars, bundles>>

\* ImportBot verifies every object before it grants the first one
ImportContent ==
    /\ job.pc = "published"
    /\ Add("content") /\ Job("granted", job.dir)
    /\ UNCHANGED <<vars, bundles>>

\* registration is last, and makes a bare root a layout
ImportRegister ==
    /\ job.pc = "granted"
    /\ Add("listed")
    /\ layout' = [layout EXCEPT ![job.dir] = "v3"]
    /\ EndJob
    /\ UNCHANGED <<where, migrationVars, faults, bundles>>

Export ==
    /\ job.pc = "export" /\ job.dir # None /\ Exportable(job.dir)
    /\ bundles' = bundles \cup {"exported"}
    /\ EndJob
    /\ UNCHANGED <<where, layout, migrationVars, faults, bot>>

\* ConvertArchive: no daemon root is involved, and the source stays
ConvertArchive ==
    /\ job = NoJob /\ "old" \in bundles /\ "converted" \notin bundles
    /\ bundles' = bundles \cup {"converted"}
    /\ UNCHANGED <<vars, bot, job>>

\* an error return or a crash leaves what was published so far
JobAbort ==
    /\ job # NoJob /\ Fault /\ EndJob
    /\ UNCHANGED <<where, layout, migrationVars, bot, bundles>>

\* an error return the state of the root forces
JobRefuse ==
    /\ job.dir # None
    /\ \/ job.pc = "import" /\ ~Importable(job.dir)
       \/ job.pc = "export" /\ ~Exportable(job.dir)
    /\ EndJob
    /\ UNCHANGED <<where, layout, migrationVars, faults, bot, bundles>>

ArchiveStep ==
    \/ ImportPublish \/ ImportContent \/ ImportRegister \/ Export
    \/ JobRefuse
    \/ \E f \in Fresh : JobLock(f)

ArchiveNext ==
    \/ Next /\ UNCHANGED archiveVars
    \/ ImportBegin \/ ExportBegin \/ ConvertArchive \/ JobAbort
    \/ ArchiveStep

ArchiveSpec ==
    /\ ArchiveInit /\ [][ArchiveNext]_allVars
    /\ \A p \in Tools : WF_allVars(ToolStep(p) /\ UNCHANGED archiveVars)
    /\ WF_allVars(Stop /\ UNCHANGED archiveVars)
    /\ WF_allVars(Tidy /\ UNCHANGED archiveVars)
    /\ WF_allVars(ArchiveStep \/ JobAbort)

(***************************************************************************)
(* Properties.                                                              *)
(***************************************************************************)

\* Whatever a crash leaves of an import, and whatever migration, recovery or
\* daemon runs next: a Bot that a daemon finds in its catalog is there with its
\* directory and its content, and no daemon is up while one is being written
\* or read for a bundle.
ListedIsWhole ==
    /\ \A d \in Dirs : "listed" \in bot[d] => {"dir", "content"} \subseteq bot[d]
    /\ "exported" \in bundles => \E d \in Dirs : "listed" \in bot[d]
    /\ daemon.pc = "up" => job.dir # daemon.dir

\* What a daemon is up on is whole: a committed layout, and in it only whole Bots.
LayoutIsWhole == UpIsCommitted /\ ListedIsWhole
=============================================================================

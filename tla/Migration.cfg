SPECIFICATION ArchiveSpec
CONSTANTS
    s1 = s1
    s2 = s2
    Original = original
    Stages <- TwoStages
    Fresh = {f1}
    Tools = {p1}
    Starts = {"v2", "v1", "elsewhere", "empty"}
    Work = {w1}
    Daemon = Daemon
    Archiver = Archiver
    Nobody = Nobody
    None = None
    MaxFaults = 2
INVARIANTS WorkIsCarried LayoutIsWhole
PROPERTIES CompleteIsFinal Recovers
CHECK_DEADLOCK FALSE

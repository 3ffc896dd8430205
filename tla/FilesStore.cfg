SPECIFICATION Spec
CONSTANTS
    b1 = b1
    b2 = b2
    small = small
    large = large
    Bots <- TwoBots
    InboxOnly <- Console
    t1 = t1
    t2 = t2
    Ids <- TwoIds
    Digests <- TwoDigests
    Size <- Sizes
    FileLimit = 2
    MaxBytes = 2
    QuotaBytes = 2
    WorkspaceBytes = 2
    Readers = {r1}
    Sends <- OneWay
    Importers <- Agents
    Arrivals <- SmallFiles
    NoGrant = NoGrant
    NoRec = NoRec
    NoDigest = NoDigest
    NoId = NoId
    MaxFaults = 2
SYMMETRY Interchangeable
INVARIANTS StoreIsSound ToldTruly
PROPERTIES EditsSurvive
CHECK_DEADLOCK FALSE

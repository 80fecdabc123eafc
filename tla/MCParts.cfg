SPECIFICATION PartsSpec
CONSTANTS
    U = U
    F = F
    Z = Z
    O = O
    c1 = c1
    c2 = c2
    c3 = c3
    Bytes <- MCBytes
    UnitId = U
    Code = F
    Zero = Z
    Framings = {"socket", "rtu"}
    Responses <- MCResponses
    Broadcasts <- MCBroadcasts
    MaxFrames = 3
    MaxReconnects = 1
    Setters = {c1, c2, c3}
    Raws = {1, 2}
    Byte = 2
    MaxSets = 3
    MaxTurns = 1
    Base = 2
    Day = 3
    FirstBlocks <- MCFirstBlocks
    Editors = {c1, c2}
    Edits <- MCEdits
    MaxEdits = 3
    MaxPanelEdits = 1
    Users = {c1, c2}
    Unread = Unread
    Modes = {"manual", "auto"}
    UnknownMode = "unknown"
    ValveModes = {"auto", "always_on"}
    Seconds = {0, 1, 2}
    MaxUses = 3
    MaxEvents = 1
    Outputs = {1, 2}
    MaxChanges = 1
SYMMETRY MCSymmetry
INVARIANTS
    FcTypeOK
    InOrder
    Exact
    TempTypeOK
    PairInSync
    SavedInSync
    SchedTypeOK
    RunsAsWanted
    GuardedTypeOK
    SwitchReachesPump
    BackwashAsConfigured
PROPERTIES
    OthersAsRead
    LeavesManualStopped
    StartNeverStops
    PumpIsTrue
CHECK_DEADLOCK FALSE

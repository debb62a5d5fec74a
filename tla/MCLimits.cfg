SPECIFICATION Spec
CONSTANTS
    Keys <- LimitsKeys
    OutKeys = {"x", "y"}
    NrLayers = 3
    LayerType <- Normal3
    LayerMods <- Shift2
    Constituents <- NoConstituents3
    Keymap <- LimitsKeymap
    Chords <- LimitsChords
    DescTable <- LimitsActs
    Macros <- NoMacros
    DefaultLayout = 0
    OneshotTimeout = 0
    OverloadTapTimeout = 0
    MacroTimeout = 0
    MacroRepeatTimeout = 0
    ChordInterkeyTimeout = 1
    ChordHoldTimeout = 0
    DisableModifierGuard = FALSE
    NrChordSlots = 1
    Devices <- OneDevice
    CacheSize = 2
    QueueSize = 2
    MaxTimeouts = 2
    CounterSize = 256
    Lag = 1
    StartTime = 1
    MaxTime = 3
    MaxOneshots = 2
    MaxScheduled = 9
    MaxQueued = 9
INVARIANTS
    PairedDeactivation
    HeldBackInOrder
    CachedKeysAreDown
    QuiescentClean
CHECK_DEADLOCK FALSE

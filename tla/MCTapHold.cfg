SPECIFICATION FairSpec
CONSTANTS
    Keys <- TwoKeys
    OutKeys = {"x", "y"}
    NrLayers = 3
    LayerType <- Normal3
    LayerMods <- Shift2
    Constituents <- NoConstituents3
    Keymap <- TapHoldKeymap
    Chords <- NoChords3
    DescTable <- TapHoldActs
    Macros <- NoMacros
    DefaultLayout = 0
    OneshotTimeout = 0
    OverloadTapTimeout = 0
    MacroTimeout = 0
    MacroRepeatTimeout = 0
    ChordInterkeyTimeout = 1
    ChordHoldTimeout = 0
    DisableModifierGuard = FALSE
    NrChordSlots = 3
    Devices <- TwoDevices
    CacheSize = 4
    QueueSize = 4
    MaxTimeouts = 4
    CounterSize = 256
    Lag = 0
    StartTime = 1
    MaxTime = 4
    MaxOneshots = 2
    MaxScheduled = 2
    MaxQueued = 2
INVARIANTS
    HeldBackInOrder
    PendingTimerArmed
    CachedKeysAreDown
    QuiescentClean
PROPERTIES
    PendingKeyResolves

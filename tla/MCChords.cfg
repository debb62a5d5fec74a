SPECIFICATION Spec
CONSTANTS
    Keys <- ChordKeys
    OutKeys = {"x", "y", "z"}
    NrLayers = 3
    LayerType <- Normal3
    LayerMods <- Shift2
    Constituents <- NoConstituents3
    Keymap <- ChordsKeymap
    Chords <- ChordsMain
    DescTable <- NoActs
    Macros <- NoMacros
    DefaultLayout = 0
    OneshotTimeout = 0
    OverloadTapTimeout = 0
    MacroTimeout = 0
    MacroRepeatTimeout = 0
    ChordInterkeyTimeout = 1
    ChordHoldTimeout = 2
    DisableModifierGuard = FALSE
    NrChordSlots = 3
    Devices <- OneDevice
    CacheSize = 4
    QueueSize = 8
    MaxTimeouts = 4
    CounterSize = 256
    Lag = 0
    StartTime = 1
    MaxTime = 6
    MaxOneshots = 2
    MaxScheduled = 3
    MaxQueued = 3
INVARIANTS
    HeldBackInOrder
    CachedKeysAreDown
    ChordTimerArmed
    QuiescentClean

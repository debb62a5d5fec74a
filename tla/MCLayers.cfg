SPECIFICATION Spec
CONSTANTS
    Keys <- LayersKeys
    OutKeys = {"x", "y"}
    NrLayers = 6
    LayerType <- LayersType
    LayerMods <- LayersMods
    Constituents <- LayersConstituents
    Keymap <- LayersKeymap
    Chords <- NoChords6
    DescTable <- LayersActs
    Macros <- LayersMacros
    DefaultLayout = 0
    OneshotTimeout = 0
    OverloadTapTimeout = 0
    MacroTimeout = 0
    MacroRepeatTimeout = 0
    ChordInterkeyTimeout = 1
    ChordHoldTimeout = 0
    DisableModifierGuard = FALSE
    NrChordSlots = 3
    Devices <- OneDevice
    CacheSize = 4
    QueueSize = 4
    MaxTimeouts = 4
    CounterSize = 256
    Lag = 0
    StartTime = 1
    MaxTime = 1
    MaxOneshots = 2
    MaxScheduled = 2
    MaxQueued = 2
INVARIANTS
    TypeOK
    PairedDeactivation
    ActivationsAccounted
    QuiescentClean
    CachedKeysAreDown

SPECIFICATION Spec
CONSTANTS
    Keys <- ModesKeys
    OutKeys = {"x", "y"}
    NrLayers = 3
    LayerType <- ModesType
    LayerMods <- Shift2
    Constituents <- NoConstituents3
    Keymap <- ModesKeymap
    Chords <- NoChords3
    DescTable <- ModesActs
    Macros <- ModesMacros
    DefaultLayout = 0
    OneshotTimeout = 2
    OverloadTapTimeout = 0
    MacroTimeout = 0
    MacroRepeatTimeout = 0
    ChordInterkeyTimeout = 1
    ChordHoldTimeout = 0
    DisableModifierGuard = FALSE
    NrChordSlots = 3
    Devices <- OneDevice
    CacheSize = 4
    QueueSize = 4
    MaxTimeouts = 4
    CounterSize = 256
    Lag = 0
    StartTime = 1
    MaxTime = 3
    MaxOneshots = 1
    MaxScheduled = 2
    MaxQueued = 2
INVARIANTS
    IInv
    AccountInv
    OneshotTimerArmed
    ActivationsAccounted
    QuiescentClean

\* A keyboard whose key waits for a timeout, and a pointer that moves.
SPECIFICATION Spec
CONSTANTS
    Devices <- SmallDevices
    VirtualDevice = "keyd"
    DeviceId <- SmallIds
    DeviceFlags <- SmallFlags
    DeviceKeys <- TimedKeys
    Pointers = {"p"}
    AxisDevices = {}
    Leds = {}
    LayerKeys = {31}
    TimerKeys = {32}
    Delay = 2
    AtStart = {"k", "p"}
    FilesAtStart = {"one"}
    Files = {"one"}
    IdLines <- AnyDevice
    LayerIndicator = {}
    Requests = {}
    MacroTokens <- SmallMacro
    InputCodes <- SmallText
    MaxIds = 2
    MaxDevices = 4
    MaxListeners = 1
    GarbageTime = {0}
    MaxBudget = 2
    MaxTime = 3
    MaxQueue = 8
    MaxMacroSize = 8
    UnicodeSequence <- NoCompose
INVARIANT TimerIsArmed
CHECK_DEADLOCK FALSE

SPECIFICATION Spec
CONSTANTS
    Devices <- SmallDevices
    VirtualDevice = "keyd"
    DeviceId <- SmallIds
    DeviceFlags <- SmallFlags
    DeviceKeys <- TimedKeys
    Pointers = {}
    AxisDevices = {"p"}
    Leds = {}
    LayerKeys = {}
    TimerKeys = {}
    Delay = 1
    AtStart = {"k", "p"}
    FilesAtStart = {"one", "two"}
    Files = {"one", "two"}
    IdLines <- SmallLines
    LayerIndicator = {}
    Requests = {}
    MacroTokens <- SmallMacro
    InputCodes <- SmallText
    MaxIds = 2
    MaxDevices = 4
    MaxListeners = 1
    GarbageTime = {0}
    MaxBudget = 2
    MaxTime = 0
    MaxQueue = 8
    MaxMacroSize = 8
    UnicodeSequence <- NoCompose
INVARIANT KeysComeFromOwnDevices
CHECK_DEADLOCK FALSE

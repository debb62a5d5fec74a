\* Clients, timers and pointers of two devices with one configuration, and one
\* device more than the table has room for.
SPECIFICATION Spec
CONSTANTS
    Devices <- ManyDevices
    VirtualDevice = "keyd"
    DeviceId <- ManyIds
    DeviceFlags <- ManyFlags
    DeviceKeys <- ManyKeys
    Pointers = {"p"}
    AxisDevices = {"p"}
    Leds = {}
    LayerKeys = {31}
    TimerKeys = {32}
    Delay = 2
    AtStart = {"k", "p"}
    FilesAtStart = {"one"}
    Files = {"one"}
    IdLines <- AnyDevice
    LayerIndicator = {}
    Requests = {"reload", "listen", "do", "input"}
    MacroTokens <- SmallMacro
    InputCodes <- SmallText
    MaxIds = 2
    MaxDevices = 3
    MaxListeners = 1
    GarbageTime <- Garbage
    MaxBudget = 3
    MaxTime = 2
    MaxQueue = 8
    MaxMacroSize = 8
    UnicodeSequence <- NoCompose
INVARIANTS
    TypeOK
    NoKeyLeftDown
    NoDeviceForgotten
    TimeoutNotEarly
    ListenersSeeTheLayer
CHECK_DEADLOCK FALSE

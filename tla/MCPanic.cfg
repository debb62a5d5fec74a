\* A keyboard without an escape key, and CapsLock.
SPECIFICATION Spec
CONSTANTS
    Devices <- SmallDevices
    VirtualDevice = "keyd"
    DeviceId <- SmallIds
    DeviceFlags <- SmallFlags
    DeviceKeys <- NoEscape
    Pointers = {}
    AxisDevices = {}
    Leds = {TRUE}
    LayerKeys = {}
    TimerKeys = {}
    Delay = 1
    AtStart = {"k"}
    FilesAtStart = {"one"}
    Files = {"one"}
    IdLines <- AnyDevice
    LayerIndicator = {}
    Requests = {}
    MacroTokens <- SmallMacro
    InputCodes <- SmallText
    MaxIds = 2
    MaxDevices = 4
    MaxListeners = 1
    GarbageTime = {0}
    MaxBudget = 3
    MaxTime = 0
    MaxQueue = 8
    MaxMacroSize = 8
    UnicodeSequence <- NoCompose
INVARIANT PanicNeedsItsKeys
CHECK_DEADLOCK FALSE

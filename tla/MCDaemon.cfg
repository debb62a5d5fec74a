\* Plugging, unplugging, editing and reloading while keys are pressed.
SPECIFICATION FairSpec
CONSTANTS
    Devices <- SmallDevices
    VirtualDevice = "keyd"
    DeviceId <- SmallIds
    DeviceFlags <- SmallFlags
    DeviceKeys <- SmallKeys
    Pointers = {}
    AxisDevices = {}
    Leds = {TRUE}
    LayerKeys = {28}
    TimerKeys = {}
    Delay = 1
    AtStart = {"k"}
    FilesAtStart = {"one"}
    Files = {"one", "two", "long"}
    IdLines <- SmallLines
    LayerIndicator = {"two"}
    Requests = {"reload"}
    MacroTokens <- SmallMacro
    InputCodes <- SmallText
    MaxIds = 2
    MaxDevices = 4
    MaxListeners = 1
    GarbageTime = {0}
    MaxBudget = 4
    MaxTime = 0
    MaxQueue = 8
    MaxMacroSize = 8
    UnicodeSequence <- NoCompose
INVARIANTS
    NoKeyLeftDown
    NoDeviceForgotten
    NoDanglingKeyboard
PROPERTIES
    DevicesInCustody
    WorkGetsDone
CHECK_DEADLOCK FALSE

\* Loading and binding with every table close to its limit.
SPECIFICATION Spec
CONSTANTS
    KeyCodes <- SmallKeyCodes
    Names <- SmallNames
    Text <- AllText
    MaxLayers = 8
    MaxDescriptors = 4
    MaxMacros = 3
    MaxCommands = 1
    MaxChords = 1
    MaxChordKeys = 3
    MaxConstituents = 2
    MaxIds = 1
    MaxNesting = 2
    Files <- SmallFiles
    Bindings <- SmallBindings
    MaxBinds = 2
    MaxHeld = 1
INVARIANTS
    TypeOK
    ReferencesInRange
    LayerTargetsAreValid
    LastBindingWins
PROPERTIES
    LayersKeepTheirType
    RowsStayPut
    RefusedBindingsChangeNothing
CHECK_DEADLOCK FALSE

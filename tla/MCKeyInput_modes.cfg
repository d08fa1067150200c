\* Every mode but the operators, from the intro on; a macro is recorded, played
\* and recorded again. No mapping.
SPECIFICATION MCSpec
CONSTANTS
    Key <- AllKeys
    TypedKeys = {"i", "a", "v", "V", "x", ":", "/", "Enter", "Esc", "C-n", "q", "@"}
    InitialMappings <- NoMappings
    MapCommands <- NoCommands
    KeyOrder <- NoOrder
    Script <- NoKeys
    InitialRegisters <- OneRegister
    Count = 1
    FirstMode = "intro"
    MaxColumn = 1
    MaxStack = 3
    MaxFrames = 4
    MaxRegister = 2
    MaxInput = 3
INVARIANTS
    ModesAreStacked
    EscReturns
    RecordsWhatIsTyped

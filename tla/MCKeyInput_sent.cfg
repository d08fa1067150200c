\* Keys that send keys: mappings, a macro played twice, a script, a completion.
SPECIFICATION MCFairSpec
CONSTANTS
    Key <- AllKeys
    TypedKeys = {"i", "c", "d", "w", "x", ":", "@", "Enter", "Esc", "C-n"}
    InitialMappings <- SomeMappings
    MapCommands <- SomeCommands
    KeyOrder <- SomeOrder
    Script <- OneScript
    InitialRegisters <- SomeRegisters
    Count = 2
    FirstMode = "command"
    MaxColumn = 1
    MaxStack = 4
    MaxFrames = 8
    MaxRegister = 0
    MaxInput = 3
INVARIANTS
    InputIsFresh
PROPERTIES
    KeysAreProcessed

\* Two operations, up to three items of up to two operations.
SPECIFICATION MCSpec
CONSTANTS
    Operation = {op1, op2}
    Position = {p1}
    MaxItems = 3
    MaxPending = 2
INVARIANTS
    TypeOK
    ItemsAreReplayable
PROPERTIES
    ReplayKeepsRecord
    HistorySpec

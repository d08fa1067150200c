\* Marking a selection that begins inside a cell: one line of four characters,
\* or two of two, on three columns.
SPECIFICATION Spec
CONSTANTS
    Letter = "a"
    Tab = "T"
    Blank = " "
    Columns = 3
    Tabstop = 2
    MaxChars = 4
    MaxPair = 2
INVARIANTS
    MarksAnySelection
CHECK_DEADLOCK FALSE

\* A line of text, changed or not; the line deleted with dd; u.
SPECIFICATION MCSpec
CONSTANTS
    Char = {a}
    Commands = {"insertChar", "deleteLastLine", "undo"}
    InitialFiles <- OneLine
    NoFile = NoFile
    updatecount = 1
    PathForms = {"absolute"}
    SwapWritable = FALSE
    MaxLines = 2
    MaxLength = 2
    MaxItems = 2
    MaxPending = 1
    MaxJournal = 3
INVARIANT UndoRestoresText

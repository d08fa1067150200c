\* Edits in command and in insert mode, of a character, of a line break and of
\* whole lines but the last one, with undo and redo; no swap file.
SPECIFICATION MCSpec
CONSTANTS
    Char = {a}
    Commands = {"insertChar", "insertNewLine", "deleteLine",
                "mergeNextLine", "insertMode", "undo"}
    InitialFiles <- TwoLines
    NoFile = NoFile
    updatecount = 1
    PathForms = {"absolute"}
    SwapWritable = FALSE
    MaxLines = 3
    MaxLength = 1
    MaxItems = 2
    MaxPending = 2
    MaxJournal = 3
INVARIANTS
    UndoRestoresText
    ReplayInText

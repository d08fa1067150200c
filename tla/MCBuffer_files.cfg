\* Edits, undo and redo beside the journal, which is written two operations at
\* a time; the text is saved, reloaded, the journal preserved; the program is
\* left or dies, and starts again on the same file, named by its absolute path
\* or its bare name, and offers to recover.
SPECIFICATION MCSpec
CONSTANTS
    Char = {a}
    Commands = {"insertChar", "deleteChar", "insertLine", "deleteLastLine",
                "replaceChar", "replaceLine", "adjustNumber", "moveCursor", "undo",
                "save", "preserve", "reload", "quit", "crash"}
    InitialFiles <- OneLine
    NoFile = NoFile
    updatecount = 2
    PathForms = {"absolute", "bare"}
    SwapWritable = TRUE
    MaxLines = 2
    MaxLength = 1
    MaxItems = 1
    MaxPending = 2
    MaxJournal = 4
INVARIANTS
    JournalIsKept
    UnmodifiedIsSaved

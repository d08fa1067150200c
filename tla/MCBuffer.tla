------------------------------ MODULE MCBuffer ------------------------------
(***************************************************************************)
(* Buffer on small instances, with two history variables.  They tell what  *)
(* the user remembers of the text, and where the journal began.            *)
(***************************************************************************)
EXTENDS Buffer

VARIABLES
    snap,    \* snap[i + 1]: the text when the first i items of the list were done
    journaled  \* has the journal been empty since the text was read from the file?

mcVars == << vars, snap, journaled >>

(* Initial contents for the runs.                                          *)
NoFiles == { <<>> }
OneLine == { << <<c>> >> : c \in Char }
TwoLines == { << <<c>>, <<c>> >> : c \in Char }

(* The characters are interchangeable: no action and no property names one.*)
CharSymmetry == Permutations(Char)

ItemCommitted == mFutureUndoItem.ops # <<>> /\ mFutureUndoItem'.ops = <<>>

(* The journal, in the file and in memory.                                 *)
Journal(s) == (IF Swap!Exists(s) THEN s.files[s.mFilename] ELSE <<>>) \o s.mHistory
FileRead == ~running \/ (calls # <<>> /\ Head(calls).call = "load" /\ running')

MCInit == Init /\ snap = << text >> /\ journaled = TRUE

RememberText ==
    snap' = IF ~running THEN << text' >>
            ELSE IF ItemCommitted THEN SubSeq(snap, 1, mCurrentIndex + 1) \o << text' >>
            ELSE snap

Remember ==
    /\ RememberText
    /\ journaled' = (Journal(swap') = <<>> \/ (journaled /\ ~FileRead))

(* Bound: read anew before the first edit only, since undoing the deletion *)
(* of the old text makes the new one grow.                                 *)
ReadEarly == calls' # <<>> /\ Head(calls').call = "load" => mUndoItemList = <<>>

MCNext == Next /\ Remember /\ ReadEarly

MCSpec == MCInit /\ [][MCNext]_mcVars

(* Nothing runs and nothing waits to be committed.                         *)
Settled == Idle /\ mode = "command" /\ mFutureUndoItem.ops = <<>>

(* What undo and redo restore: the text that the items done had made, line *)
(* by line, however many edits, undos and redos lie between (undo.cpp:     *)
(* 181-235 and the buffer's side of it).                                   *)
UndoRestoresText == Settled => text = snap[mCurrentIndex + 1]

(* Every operation undo() or redo() performs finds the line and the column *)
(* it was recorded at: none lands on the detached line of yzline(), none is*)
(* dropped by the early return of insertRegion (buffer.cpp:233-238).       *)
ReplayInText ==
    running /\ replay.ops # <<>> =>
        LET from == Head(replay.ops).interval.from
        IN  LineExists(text, from.y) /\ ColumnExists(text, from)

(* A buffer that is not marked modified has the text of its file.          *)
UnmodifiedIsSaved == Idle /\ ~isModified => text = TextOf(file)

(* The journal holds what was done to the text since the file was read or  *)
(* written: replayed, it gives the text.  That is what makes a recovery    *)
(* possible at all.  Not so when the file was read into a buffer that had a*)
(* journal, by the ex command edit or by a start with a bare name: then    *)
(* the journal goes on with operations on another text.                    *)
Replayed(t, op) ==
    IF op.type = "add" THEN InsertRegion(t, op.interval.from, op.data)
    ELSE DeleteRegion(t, op.interval)
JournalText(entries) ==
    LET after[i \in 0..Len(entries)] ==
            IF i = 0 THEN TextOf(file) ELSE Replayed(after[i - 1], entries[i])
    IN  after[Len(entries)]

JournalGivesText ==
    running /\ calls = <<>> /\ journaled => JournalText(Journal(swap)) = text

(* Fewer than updatecount operations are in memory only, and would be lost *)
(* with the program (addToSwap, swapfile.cpp:132-136).                     *)
CrashLosesFew == running => Len(swap.mHistory) < updatecount

(* The journal is whole, in the file but for the latest operations.        *)
JournalIsKept == TypeOK /\ JournalGivesText /\ CrashLosesFew

=============================================================================

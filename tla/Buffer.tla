------------------------------- MODULE Buffer -------------------------------
(***************************************************************************)
(* A YBuffer (src/libyzis/buffer.cpp) at work: its text, its undo list     *)
(* (UndoBuffer), its journal (SwapFile), the file it edits, and the calls  *)
(* that reach it from YZAction, the view and the ex commands; then the     *)
(* crash of the program, the next start and the recovery.                  *)
(*                                                                         *)
(* Every change of the text goes through insertRegion or deleteRegion.     *)
(* One step of this module makes one such call; what the running method    *)
(* has still to call waits in `calls'.  The program has one thread: while  *)
(* a method (calls # <<>>) or an undo (replay # Idle) runs, nothing else   *)
(* does, except that the program may die.                                  *)
(***************************************************************************)
EXTENDS TextRegion, TLC

CONSTANTS
    Char,             \* the characters that can be typed
    Commands,         \* the names of the commands the user gives
    InitialFiles,     \* what the edited file may hold, as a sequence of lines
    updatecount, NoFile,   \* see SwapFile
    SwapWritable,     \* may swap files be created beside the edited file?
    PathForms,        \* how the edited file is named at a start
    MaxLines, MaxLength,   \* bounds: lines of the text, characters of a line
    MaxItems, MaxPending,  \* bounds: committed items, uncommitted operations
    MaxJournal             \* bound: operations in the journal

ASSUME UpdatecountAssumption == updatecount \in Nat \ {0}
ASSUME FilesAssumption == InitialFiles \subseteq Seq(Seq(Char))
ASSUME BoundAssumption ==
    /\ SwapWritable \in BOOLEAN /\ PathForms \subseteq {"absolute", "bare"}
    /\ MaxLines \in Nat \ {0} /\ MaxLength \in Nat \ {0}
    /\ MaxItems \in Nat /\ MaxPending \in Nat /\ MaxJournal \in Nat

VARIABLES
    text,          \* the lines
    isModified,    \* changed since it was loaded or saved?
    cursorLine,    \* the line of the view's cursor
    mode,          \* the view's mode: "command" or "insert"
    mFutureUndoItem, mUndoItemList, mCurrentIndex, mInsideUndo, replay,
    swap,          \* the YSwapFile and the swap files on disk
    calls,         \* what the running method has still to call
    file,          \* the edited file, as load() would read it
    mPendingReplay,\* a swap file was found and the user not asked yet
    running        \* is the program running?

undoVars == << mFutureUndoItem, mUndoItemList, mCurrentIndex, mInsideUndo, replay >>
vars == << text, isModified, cursorLine, mode, undoVars, swap, calls, file,
           mPendingReplay, running >>

Line == Seq(Char)
Operation == [ type : {"add", "del"}, data : Seq(Line),
               interval : [from : [x : Nat, y : Nat], to : [x : Int, y : Nat],
                           toOpen : BOOLEAN] ]
ASSUME NoFileAssumption == NoFile \notin Seq(Operation)

(* The line kept with an undo item; NoLine is the -1 of the constructor.   *)
NoLine == -1
Undo == INSTANCE UndoBuffer WITH Position <- Nat \union {NoLine}

(* The swap file of a path with a directory is beside the edited file; of  *)
(* a bare name, in the root directory, where a user may not write.         *)
SwapName == {"unnamed", "beside", "root"}
Swap == INSTANCE SwapFile WITH FileName <- SwapName,
            Writable <- (IF SwapWritable THEN {"beside"} ELSE {})
SwapNameOf(form) == IF form = "bare" THEN "root" ELSE "beside"

EmptyText == << <<>> >>
Idle == running /\ calls = <<>> /\ replay = Undo!Idle

TypeOK ==
    /\ text \in Seq(Line) /\ LineCount(text) >= 1
    /\ isModified \in BOOLEAN
    /\ cursorLine \in Nat
    /\ mode \in {"command", "insert"}
    /\ Undo!TypeOK
    /\ swap \in Swap!SwapState
    /\ file \in Seq(Line)
    /\ mPendingReplay \in BOOLEAN
    /\ running \in BOOLEAN
-----------------------------------------------------------------------------
(* insertRegion and deleteRegion: change the text, tell the undo buffer    *)
(* and the swap file, mark the buffer modified.                            *)
AddOperation(begin, data) ==
    [type |-> "add", data |-> data, interval |-> OpenInterval(begin, AfterInsert(begin, data))]
DelOperation(bi) ==
    [type |-> "del", data |-> DataRegion(text, bi), interval |-> bi]

RegionCall(op) == [call |-> "region", op |-> op]

InsertUnnoticed(begin, data) ==  \* Slip: not marked modified
    IF InsertAborts(text, begin, data)
    THEN UNCHANGED << text, isModified, mFutureUndoItem, mUndoItemList, swap >>
    ELSE LET op == AddOperation(begin, data) IN
         /\ text' = InsertRegion(text, begin, data)
         /\ Undo!AddBufferOperation(op)
         /\ swap' = Swap!AddToSwap(swap, op)
         /\ UNCHANGED isModified

InsertRegionCall(begin, data) ==
    IF InsertAborts(text, begin, data)
    THEN UNCHANGED << text, isModified, mFutureUndoItem, mUndoItemList, swap >>
    ELSE LET op == AddOperation(begin, data) IN
         /\ text' = InsertRegion(text, begin, data)
         /\ Undo!AddBufferOperation(op)
         /\ swap' = Swap!AddToSwap(swap, op)
         /\ isModified' = TRUE

DeleteRegionCall(bi) ==
    LET op == DelOperation(bi) IN
    /\ text' = DeleteRegion(text, bi)
    /\ Undo!AddBufferOperation(op)
    /\ swap' = Swap!AddToSwap(swap, op)
    /\ isModified' = TRUE

(* The bounds of the model, not of the code.                               *)
JournalLength(s) ==
    Len(s.mHistory) + (IF s.files["beside"] = NoFile THEN 0 ELSE Len(s.files["beside"]))
Within(t, lines, length) == Len(t) <= lines /\ \A i \in DOMAIN t : Len(t[i]) <= length
Bounded ==
    /\ Within(text', MaxLines, MaxLength)
    /\ Len(mFutureUndoItem'.ops) <= MaxPending
    /\ Len(mUndoItemList') < MaxItems
    /\ JournalLength(swap') + 2 <= MaxJournal
(* Undo after the text was read anew may make it grow.                     *)
ReplayBounded ==
    /\ Within(text, 2 * MaxLines, 2 * MaxLength)
    /\ JournalLength(swap) + Len(replay'.ops) <= MaxJournal

-----------------------------------------------------------------------------
(* The edits of YZAction.  An edit begins when nothing runs, works on a    *)
(* line the text has, and leaves the cursor on a line of its own choice.   *)
(* Edit(name, line, rest): the first call is the conjunct beside it, the   *)
(* other calls of the method follow.  In command mode the command ends with*)
(* commitNextUndo; in insert mode the operations of all keys make one item.*)
Lines == 0..LineCount(text) - 1
Columns(line) == 0..GetLineLength(text, line)
CharColumns(line) == 0..(IF GetLineLength(text, line) = 0 THEN 0
                         ELSE GetLineLength(text, line) - 1)

Edit(name, line, rest) ==
    /\ Idle
    /\ name \in Commands
    /\ cursorLine' = line
    /\ calls' = rest \o (IF mode = "insert" \/ name = "adjustNumber" THEN <<>>
                         ELSE << [call |-> "commit"] >>)
    /\ Bounded
    /\ UNCHANGED << mode, mCurrentIndex, mInsideUndo, replay, file, mPendingReplay, running >>

InsertChar(pos, c) ==
    /\ InsertRegionCall(pos, << <<c>> >>)
    /\ Edit("insertChar", pos.y, <<>>)

DeleteChar(pos, count) ==
    /\ DeleteRegionCall(CharsInterval(pos, count))
    /\ Edit("deleteChar", pos.y, <<>>)

(* replaceChar: delChar, then insertChar.                                  *)
ReplaceChar(pos, c) ==
    /\ DeleteRegionCall(CharsInterval(pos, 1))
    /\ Edit("replaceChar", pos.y, << RegionCall(AddOperation(pos, << <<c>> >>)) >>)

InsertNewLine(pos) ==
    /\ InsertRegionCall(pos, LineBreak)
    /\ Edit("insertNewLine", pos.y + 1, <<>>)

InsertLine(line, l) ==
    /\ InsertRegionCall(NewLinePosition(text, line), NewLineData(line, l))
    /\ Edit("insertLine", line, <<>>)

(* deleteLine with a count of one: the cursor stays, or goes up when the   *)
(* last line went.  The interval of the last line ends behind the text, so *)
(* deleting that one is a command with a name of its own.                  *)
NameAt(line, name, lastName) == IF line = LineCount(text) - 1 THEN lastName ELSE name

DeleteLine(line) ==
    /\ DeleteRegionCall(LineInterval(text, line))
    /\ Edit(NameAt(line, "deleteLine", "deleteLastLine"),
            IF line = LineCount(text') THEN line - 1 ELSE line, <<>>)

(* replaceLine: deleteRegion, then insertRegion (YBuffer::replaceRegion).  *)
ReplaceLineCalls(line, l) == << RegionCall(AddOperation(Cursor(0, line), << l >>)) >>

ReplaceLine(line, l) ==
    /\ DeleteRegionCall(LineContent(text, line))
    /\ Edit("replaceLine", line, ReplaceLineCalls(line, l))

(* mergeNextLine, without stripping: replaceLine(line + line2, y), then    *)
(* deleteLine(y + 1).                                                      *)
MergeNextLine(line) ==
    /\ line < LineCount(text) - 1
    /\ DeleteRegionCall(LineContent(text, line))
    /\ Edit(NameAt(line + 1, "mergeNextLine", "mergeLastLine"), line,
            ReplaceLineCalls(line, Textline(text, line) \o Textline(text, line + 1))
            \o << [call |-> "deleteLine", line |-> line + 1] >>)

(* adjustNumber, the <C-a> and <C-x> of command mode: replaceText, that is *)
(* delChar and insertChar, and no commitNextUndo.                          *)
AdjustNumber(pos, c) ==
    /\ mode = "command"
    /\ pos.x < GetLineLength(text, pos.y)
    /\ DeleteRegionCall(CharsInterval(pos, 1))
    /\ Edit("adjustNumber", pos.y, << RegionCall(AddOperation(pos, << <<c>> >>)) >>)

EditText ==
    \E line \in Lines :
        \/ DeleteLine(line) \/ MergeNextLine(line)
        \/ \E x \in Columns(line) : InsertNewLine(Cursor(x, line))
        \/ \E x \in CharColumns(line) : DeleteChar(Cursor(x, line), 1)
        \/ \E c \in Char :
              \/ \E x \in Columns(line) : InsertChar(Cursor(x, line), c)
              \/ \E x \in CharColumns(line) :
                    ReplaceChar(Cursor(x, line), c) \/ AdjustNumber(Cursor(x, line), c)
              \/ \E l \in {0, line + 1} : InsertLine(l, <<c>>)
              \/ ReplaceLine(line, <<c>>)

-----------------------------------------------------------------------------
(* The other things the user does.                                         *)
MoveCursor ==
    /\ Idle
    /\ "moveCursor" \in Commands
    /\ cursorLine' \in Lines
    /\ UNCHANGED << text, isModified, mode, undoVars, swap, calls, file, mPendingReplay, running >>

(* YView::append changes the mode, and so pops the command mode and        *)
(* commits; gotoInsertMode pushes the insert mode on it and does not.      *)
EnterInsertMode(commits) ==
    /\ Idle
    /\ "insertMode" \in Commands
    /\ mode = "command"
    /\ mode' = "insert"
    /\ IF commits THEN Undo!CommitUndoItem(cursorLine) ELSE UNCHANGED undoVars
    /\ UNCHANGED << text, isModified, cursorLine, swap, calls, file, mPendingReplay, running >>

(* gotoCommandMode pops the insert mode: YModePool::pop commits.           *)
LeaveInsertMode ==
    /\ Idle
    /\ mode = "insert"
    /\ mode' = "command"
    /\ Undo!CommitUndoItem(cursorLine)
    /\ UNCHANGED << text, isModified, cursorLine, swap, calls, file, mPendingReplay, running >>

-----------------------------------------------------------------------------
(* undo() and redo(), on behalf of the commands u and <C-r>.               *)
StartUndo ==
    /\ Idle /\ mode = "command" /\ "undo" \in Commands
    /\ Undo!StartUndo
    /\ ReplayBounded
    /\ UNCHANGED << text, isModified, cursorLine, mode, swap, calls, file, mPendingReplay, running >>

StartRedo ==
    /\ Idle /\ mode = "command" /\ "undo" \in Commands
    /\ Undo!StartRedo
    /\ ReplayBounded
    /\ UNCHANGED << text, isModified, cursorLine, mode, swap, calls, file, mPendingReplay, running >>

(* performOperation: undo inserts what was deleted and deletes what was    *)
(* inserted; the bounds are those recorded with the operation.             *)
PerformOperation ==
    /\ running
    /\ Undo!PerformOperation
    /\ LET op == Head(replay.ops)
           insert == (op.type = "add") = (replay.dir = "redo")
       IN  IF insert THEN InsertRegionCall(op.interval.from, op.data)
           ELSE DeleteRegionCall(op.interval)
    /\ UNCHANGED << cursorLine, mode, calls, file, mPendingReplay, running >>

(* The cursor goes to the line kept with the item, if there is one.        *)
GotoStartOf(item) ==
    cursorLine' = IF item.start >= 0 THEN item.start ELSE cursorLine

FinishUndo ==
    /\ running
    /\ Undo!FinishUndo
    /\ GotoStartOf(mUndoItemList[mCurrentIndex])
    /\ UNCHANGED << text, isModified, mode, swap, calls, file, mPendingReplay, running >>

FinishRedo ==
    /\ running
    /\ Undo!FinishRedo
    /\ GotoStartOf(mUndoItemList[mCurrentIndex])
    /\ UNCHANGED << text, isModified, mode, swap, calls, file, mPendingReplay, running >>

-----------------------------------------------------------------------------
(* The running method goes on with its next call.                          *)
NextCall(name) ==
    /\ running
    /\ calls # <<>>
    /\ Head(calls).call = name
    /\ calls' = Tail(calls)

CallRegion ==
    /\ NextCall("region")
    /\ LET op == Head(calls).op IN
       IF op.type = "add" THEN InsertRegionCall(op.interval.from, op.data)
       ELSE DeleteRegionCall(op.interval)
    /\ UNCHANGED << cursorLine, mode, mCurrentIndex, mInsideUndo, replay, file, mPendingReplay, running >>

CallDeleteLine ==
    /\ NextCall("deleteLine")
    /\ DeleteRegionCall(LineInterval(text, Head(calls).line))
    /\ UNCHANGED << cursorLine, mode, mCurrentIndex, mInsideUndo, replay, file, mPendingReplay, running >>

CallCommit ==
    /\ NextCall("commit")
    /\ Undo!CommitUndoItem(cursorLine)
    /\ UNCHANGED << text, isModified, cursorLine, mode, swap, file, mPendingReplay, running >>

-----------------------------------------------------------------------------
(* Files.  save() writes nothing for an empty buffer, otherwise the lines, *)
(* each ended by a line break; load() reads the lines back into an empty   *)
(* buffer.  A file is represented by the lines load() reads from it.       *)
FileOf(t) == IF t = EmptyText THEN <<>> ELSE t
TextOf(f) == IF f = <<>> THEN EmptyText ELSE InsertRegion(EmptyText, Cursor(0, 0), f)

(* An ex command ends when the ex mode is popped, which commits.           *)
LeaveExMode == << [call |-> "commit"] >>

Save ==
    /\ Idle /\ mode = "command" /\ "save" \in Commands
    /\ file' = FileOf(text)
    /\ isModified' = FALSE
    /\ swap' = Swap!Unlink(Swap!Reset(swap))
    /\ calls' = LeaveExMode
    /\ UNCHANGED << text, cursorLine, mode, undoVars, mPendingReplay, running >>

(* The ex command preserve.                                                *)
Preserve ==
    /\ Idle /\ mode = "command" /\ "preserve" \in Commands
    /\ swap' = Swap!Flush(swap)
    /\ calls' = LeaveExMode
    /\ UNCHANGED << text, isModified, cursorLine, mode, undoVars, file, mPendingReplay, running >>

(* load(path): the text is replaced without being recorded or journaled.   *)
(* setPath names the swap file after the path it was given, load() renames *)
(* it after the absolute path, and each of the two calls of setFileName    *)
(* removes the file of the name before it.                                 *)
LoadNames(s, form) == Swap!SetFileName(Swap!SetFileName(s, SwapNameOf(form)), "beside")

(* The ex command edit, without a file name: clearText, then load.         *)
Reload ==
    /\ mode = "command"
    /\ DeleteRegionCall(WholeText(text))
    /\ Edit("reload", 0, << [call |-> "load"] >>)

CallLoad ==
    /\ NextCall("load")
    /\ text' = TextOf(file)
    /\ isModified' = FALSE
    /\ swap' = LoadNames(swap, "absolute")
    /\ UNCHANGED << cursorLine, mode, undoVars, file, mPendingReplay, running >>

-----------------------------------------------------------------------------
(* The end of the program, and its next start.                             *)

(* Quitting makes the buffer inactive: setState unlinks the swap file.     *)
Quit ==
    /\ Idle /\ mode = "command" /\ "quit" \in Commands
    /\ running' = FALSE
    /\ swap' = Swap!Unlink(swap)
    /\ UNCHANGED << text, isModified, cursorLine, mode, undoVars, calls, file, mPendingReplay >>

(* The program dies between two calls: the files stay.                     *)
Crash ==
    /\ running /\ "crash" \in Commands
    /\ running' = FALSE
    /\ UNCHANGED << text, isModified, cursorLine, mode, undoVars, swap, calls, file, mPendingReplay >>

(* A new buffer loads the file, given as an absolute path or a bare name.  *)
(* No view shows it yet, so a swap file that load() finds is left to the   *)
(* checkRecover() that createBufferAndView calls next.                     *)
Start(form) ==
    /\ ~running
    /\ running' = TRUE
    /\ text' = TextOf(file)
    /\ isModified' = FALSE
    /\ cursorLine' = 0
    /\ mode' = "command"
    /\ mFutureUndoItem' = [ops |-> <<>>, start |-> NoLine]
    /\ mUndoItemList' = <<>>
    /\ mCurrentIndex' = 0
    /\ mInsideUndo' = FALSE
    /\ replay' = Undo!Idle
    /\ swap' = LoadNames(Swap!NewSwapFile(swap.files, "unnamed"), form)
    /\ mPendingReplay' = Swap!Exists(swap')
    /\ calls' = IF mPendingReplay' THEN << [call |-> "checkRecover"] >> ELSE <<>>
    /\ UNCHANGED file

(* checkRecover(): if the user agrees, recover() replays the journal on the*)
(* text, which keeps it out of the journal but not out of the undo list.   *)
CheckRecover(answer) ==
    LET recovered == Swap!Recovered(swap.files[swap.mFilename]) IN
    /\ running /\ calls # <<>> /\ Head(calls).call = "checkRecover"
    /\ IF answer
       THEN /\ calls' = [i \in DOMAIN recovered |-> RegionCall(recovered[i])]
                        \o << [call |-> "recovered"] >>
            /\ swap' = [swap EXCEPT !.mRecovering = TRUE]
       ELSE calls' = <<>> /\ UNCHANGED swap
    /\ UNCHANGED << text, isModified, cursorLine, mode, undoVars, file, mPendingReplay, running >>

CallRecovered ==
    /\ NextCall("recovered")
    /\ swap' = [swap EXCEPT !.mRecovering = FALSE]
    /\ isModified' = TRUE
    /\ mPendingReplay' = FALSE
    /\ UNCHANGED << text, cursorLine, mode, undoVars, file, running >>

-----------------------------------------------------------------------------
Init ==
    /\ file \in InitialFiles
    /\ text = TextOf(file)
    /\ isModified = FALSE
    /\ cursorLine = 0
    /\ mode = "command"
    /\ mFutureUndoItem = [ops |-> <<>>, start |-> NoLine]
    /\ mUndoItemList = <<>>
    /\ mCurrentIndex = 0
    /\ mInsideUndo = FALSE
    /\ replay = Undo!Idle
    /\ swap = Swap!NewSwapFile([n \in SwapName |-> NoFile], "beside")
    /\ calls = <<>>
    /\ mPendingReplay = FALSE
    /\ running = TRUE

(* The running method goes on; the user answers the question it asks.     *)
Continue ==
    \/ PerformOperation \/ FinishUndo \/ FinishRedo
    \/ CallRegion \/ CallDeleteLine \/ CallCommit \/ CallLoad \/ CallRecovered
    \/ \E answer \in BOOLEAN : CheckRecover(answer)

Next ==
    \/ EditText \/ MoveCursor
    \/ \E commits \in BOOLEAN : EnterInsertMode(commits)
    \/ LeaveInsertMode
    \/ StartUndo \/ StartRedo
    \/ Continue
    \/ Save \/ Preserve \/ Reload \/ Quit \/ Crash
    \/ \E form \in PathForms : Start(form)

Spec == Init /\ [][Next]_vars

=============================================================================

------------------------------ MODULE TagStack ------------------------------
(***************************************************************************)
(* Following tags: tags_interface.cpp and YTagStack (tags_stack.cpp), with *)
(* the commands that call them (:tag, :pop, :tnext, :tprevious, CTRL-],    *)
(* CTRL-T).  A jump pushes where it came from, changes to the file of the  *)
(* tag and looks for the line of the tag by its pattern; all the tags of   *)
(* that name are kept, for :tnext.                                         *)
(*                                                                         *)
(* Each file has one view.  Patterns and text are abstracted to where the  *)
(* first line is that a pattern matches in a file.                         *)
(***************************************************************************)
EXTENDS Integers, Sequences, SequencesExt

CONSTANTS
    File,      \* absolute names of files
    Tag,       \* the tags of the tag file
    TagsOf,    \* [words -> Seq(Tag)]: the entries of a word, in order
    FileOf,    \* [Tag -> File]
    MatchIn,   \* [Tag -> [File -> lines or NoMatch]]
    NoMatch,   \* the pattern matches no line of that file
    LastLine,  \* the number of the last line of each file
    MaxDepth   \* bound: how deep the stack of jumps grows

Word == DOMAIN TagsOf
Line == 0..LastLine

TagStackAssumption ==
    /\ LastLine \in Nat
    /\ MaxDepth \in Nat
    /\ NoMatch \notin Line
    /\ FileOf \in [Tag -> File]
    /\ MatchIn \in [Tag -> [File -> Line \union {NoMatch}]]
    /\ \A word \in Word : TagsOf[word] \in Seq(Tag)

VARIABLES
    current,       \* the file of the current view
    opened,        \* the files that have a buffer
    cursor,        \* the line of the cursor in each of them
    modified,      \* the files with unsaved changes
    mStack,        \* where the jumps came from, [file, line]
    mCurrentTags   \* the matching tags of each jump and which one is shown

vars == << current, opened, cursor, modified, mStack, mCurrentTags >>

TypeOK ==
    /\ opened \subseteq File
    /\ current \in opened
    /\ cursor \in [File -> Line]
    /\ modified \subseteq opened
    /\ \A i \in 1..Len(mStack) : mStack[i] \in [file : File, line : Line]
    /\ \A i \in 1..Len(mCurrentTags) : mCurrentTags[i].cur \in Nat

-----------------------------------------------------------------------------
(* YTagStack.                                                              *)

Top == Last(mCurrentTags)

(* readAllMatchingTags(): the tag found first, then those tagsFindNext     *)
(* gives.                                                                  *)
AllMatchingTags(word) == [tags |-> TagsOf[word], cur |-> 1]

Push(word) ==
    /\ mStack' = Append(mStack, [file |-> current, line |-> cursor[current]])
    /\ mCurrentTags' = Append(mCurrentTags, AllMatchingTags(word))

PopRecordOnly ==  \* Slip: leaves the matching tags of the jump
    /\ mStack' = Front(mStack)
    /\ UNCHANGED mCurrentTags

Pop ==
    /\ mStack' = Front(mStack)
    /\ mCurrentTags' = Front(mCurrentTags)

HasNext(pair) == pair.cur < Len(pair.tags)
HasPrevious(pair) == pair.cur > 1

-----------------------------------------------------------------------------
(* switchToViewOfFilename(): a file that was not open starts at its top.   *)
SwitchTo(file) ==
    /\ current' = file
    /\ opened' = opened \union {file}

CursorIn(file) == IF file \in opened THEN cursor[file] ELSE 0

JumpSkippingFirstLine(tag) ==  \* Slip: takes line 0 for no line
    LET line == MatchIn[tag][current]
        file == FileOf[tag]
    IN  /\ SwitchTo(file)
        /\ cursor' = [cursor EXCEPT ![file] =
                        IF line \in {0, NoMatch} THEN CursorIn(file) ELSE line]

(* doJumpToTag(): the line is looked for in the buffer that was current    *)
(* before the file was changed, and gone to in the one that is now.  When  *)
(* there is no such line nothing is said.                                  *)
DoJumpToTag(tag) ==
    LET line == MatchIn[tag][current]
        file == FileOf[tag]
    IN  /\ SwitchTo(file)
        /\ cursor' = [cursor EXCEPT ![file] = IF line = NoMatch THEN CursorIn(file) ELSE line]

(* jumpToJumpRecord()                                                      *)
JumpToRecord(record) ==
    /\ SwitchTo(record.file)
    /\ cursor' = [cursor EXCEPT ![record.file] = record.line]

-----------------------------------------------------------------------------
Init ==
    /\ current \in File
    /\ opened = {current}
    /\ cursor = [f \in File |-> 0]
    /\ modified = {}
    /\ mStack = <<>>
    /\ mCurrentTags = <<>>

(* tagJumpTo(), when the tag file could be opened and has the word: the    *)
(* cursor is pushed before it is moved.                                    *)
JumpTo(word) ==
    /\ Len(mStack) < MaxDepth
    /\ TagsOf[word] # <<>>
    /\ Push(word)
    /\ DoJumpToTag(Head(TagsOf[word]))
    /\ UNCHANGED modified

(* tagNext() and tagPrev() after a jump.                                   *)
ShowTag(step) ==
    LET shown == [Top EXCEPT !.cur = @ + step]
    IN  /\ mCurrentTags' = Append(Front(mCurrentTags), shown)
        /\ DoJumpToTag(shown.tags[shown.cur])
        /\ UNCHANGED << modified, mStack >>

TagNext ==
    /\ mCurrentTags # <<>>
    /\ HasNext(Top)
    /\ ShowTag(1)

TagPrev ==
    /\ mCurrentTags # <<>>
    /\ HasPrevious(Top)
    /\ ShowTag(-1)

(* Before any jump they take the last of no elements, which is undefined:  *)
(* either nothing seems to happen or the program ends.                     *)
TagNextOfNothing ==
    /\ mCurrentTags = <<>>
    /\ \/ UNCHANGED vars
       \/ /\ current' \in File
          /\ opened' = {current'}
          /\ cursor' = [f \in File |-> 0]
          /\ modified' = {}
          /\ mStack' = <<>>
          /\ UNCHANGED mCurrentTags

(* tagPop(): a modified file is not left, though JumpTo leaves it.         *)
TagPop ==
    /\ mStack # <<>>
    /\ LET head == Last(mStack)
       IN  /\ head.file = current \/ current \notin modified
           /\ JumpToRecord(head)
    /\ Pop
    /\ UNCHANGED modified

(* What one does between the jumps.                                        *)
Move(line) ==
    /\ line # cursor[current]
    /\ cursor' = [cursor EXCEPT ![current] = line]
    /\ UNCHANGED << current, opened, modified, mStack, mCurrentTags >>

Change ==
    /\ modified' = modified \union {current}
    /\ UNCHANGED << current, opened, cursor, mStack, mCurrentTags >>

Save ==
    /\ modified' = modified \ {current}
    /\ UNCHANGED << current, opened, cursor, mStack, mCurrentTags >>

Edit(file) ==
    /\ SwitchTo(file)
    /\ cursor' = [cursor EXCEPT ![file] = CursorIn(file)]
    /\ UNCHANGED << modified, mStack, mCurrentTags >>

Close(file) ==
    /\ current \notin modified
    /\ file \in opened \ {current}
    /\ opened' = opened \ {current}
    /\ current' = file
    /\ UNCHANGED << cursor, modified, mStack, mCurrentTags >>

Next ==
    \/ \E word \in Word : JumpTo(word)
    \/ TagNext
    \/ TagPrev
    \/ TagNextOfNothing
    \/ TagPop
    \/ \E line \in Line : Move(line)
    \/ Change
    \/ Save
    \/ \E file \in File : Edit(file) \/ Close(file)

Spec == Init /\ [][Next]_vars
=============================================================================

------------------------------ MODULE MCJumps ------------------------------
(***************************************************************************)
(* Where one was and where one goes: what is kept from one session to the  *)
(* next (YzisInfo), the stack of followed tags (TagStack) and looking tags *)
(* up in their file (TagFile).  The three do not touch each other's state, *)
(* so a behaviour moves only one of them, the one `moving' names.          *)
(* MCSessions checks them, together with the session.                      *)
(***************************************************************************)
EXTENDS Integers, Sequences, SequencesExt

CONSTANTS
    fileA, fileB, fileBC,         \* names of files; fileBC stands for the name "b c"
    Entry, Null, Blank, t1,
    NoMatch, p1, p2, p3,
    MaxKept, MaxDepth, MaxTagLines

VARIABLES
    moving,
    mStartPosition, mJumpList, mCurrentJumpListItem,
    exHistory, searchHistory, mRegisters, file,
    current, opened, cursor, modified, mStack, mCurrentTags,
    tagLines,
    closings    \* where each file was closed last, the latest closing at the end

FileName == {fileA, fileB, fileBC}

Info == INSTANCE YzisInfo WITH
    FirstWord <- [name \in FileName |-> IF name = fileBC THEN fileB ELSE name],
    Place <- 1..2, RegisterName <- << "x", "y" >>, TextLine <- {t1, Blank},
    Contents <- { << t1 >>, << Null, t1 >>, << Null, Blank, Null >>,
                  << t1, Blank, t1 >>, << Null, t1, Blank, Null >> },
    MaxRecords <- 1, MaxEntries <- 1

(* Two tags of one word in the same file and in another one; p3 is found   *)
(* on the first line of its file, and no pattern in a file that is not its.*)
Place(tag) == CASE tag = p1 -> << fileA, 1 >> [] tag = p2 -> << fileB, 2 >> [] tag = p3 -> << fileA, 0 >>

Tags == INSTANCE TagStack WITH
    File <- {fileA, fileB}, Tag <- {p1, p2, p3},
    TagsOf <- [both |-> << p1, p2, p3 >>, one |-> << p3 >>, none |-> <<>>],
    FileOf <- [tag \in {p1, p2, p3} |-> Place(tag)[1]],
    MatchIn <- [tag \in {p1, p2, p3} |->
                  [f \in {fileA, fileB} |-> IF f = Place(tag)[1] THEN Place(tag)[2] ELSE NoMatch]],
    LastLine <- 2

T == INSTANCE TagFile WITH JumpBack <- 15, PseudoTag <- 0, Freed <- { << >>, << 1 >>, << 2 >> }

infoVars == << mStartPosition, mJumpList, mCurrentJumpListItem,
               exHistory, searchHistory, mRegisters, file >>
stackVars == << current, opened, cursor, modified, mStack, mCurrentTags >>
vars == << moving, infoVars, stackVars, tagLines, closings >>

-----------------------------------------------------------------------------
(* A tag file grows in the order of its names, behind a line that says     *)
(* that it is sorted.                                                      *)
TagName == { << 1 >>, << 1, 1 >>, << 2 >> }

AddTagLine ==
    /\ Len(tagLines) < MaxTagLines
    /\ \E name \in TagName, rest \in 1..2 :
         /\ T!Compare(Last(tagLines).name, name) <= 0
         /\ tagLines' = Append(tagLines, T!Line(name, rest))

(* What the user could know of the positions: where each file was closed   *)
(* last.  Of earlier sessions only as many closings count as are written,  *)
(* and none if the program died while it wrote.                            *)
Remember ==
    LET Closed(name, pos) ==
          Append(SelectSeq(closings, LAMBDA r : r.name # name), [name |-> name, pos |-> pos])
    IN  \/ \E name \in FileName, pos \in 1..2 :
             Info!Close(name, pos) /\ closings' = Closed(name, pos)
        \/ /\ ~ \E name \in FileName, pos \in 1..2 : Info!Close(name, pos)
           /\ closings' = CASE mStartPosition' = mStartPosition -> closings
                            [] Info!Restart -> Info!LastOf(closings, 1)
                            [] OTHER -> <<>>

InitOf(part) ==
    /\ moving = part
    /\ closings = <<>>
    /\ Info!Init
    /\ Tags!Init
    /\ tagLines = << T!Line(<< 0, 0 >>, 1) >>

Next ==
    \/ moving = "info" /\ Info!Next /\ Remember /\ UNCHANGED << moving, stackVars, tagLines >>
    \/ moving = "tags" /\ Tags!Next /\ UNCHANGED << moving, infoVars, tagLines, closings >>
    \/ moving = "file" /\ AddTagLine /\ UNCHANGED << moving, infoVars, stackVars, closings >>

Assumptions ==
    Info!YzisInfoAssumption /\ Tags!TagStackAssumption /\ T!TagFileAssumption

-----------------------------------------------------------------------------
(* A name is read back as it was written if it has no blank, and no other  *)
(* name is cut down to it.                                                 *)
Faithful(name) == name = fileA

(* The position kept of a file is the one it was closed at last, whatever  *)
(* other files were closed since and however many sessions ended since, as *)
(* long as it is among the latest and yzis did not die while it wrote      *)
(* (updateStartPosition, write and read).  This is about the records: that *)
(* a file is opened there would not hold, since getStartPosition           *)
(* (buffer.cpp:756-770) always answers with the first line.                *)
PositionsAreKept ==
    moving = "info" =>
      \A r \in ToSet(closings) : Faithful(r.name) =>
        Info!StartPosition(mStartPosition, r.name, 0) = r.pos

(* As many positions as are written, the newest are (saveStartPosition).   *)
LatestAreWritten ==
    moving = "info" =>
      LET starts == mStartPosition
          latest == Info!LastOf(starts, 1)
          after == Info!Read(Info!Written(starts)).starts
      IN  \A i \in 1..Len(latest) : Faithful(latest[i].name) =>
            Info!StartPosition(after, latest[i].name, 0) = latest[i].pos

(* CTRL-O, pressed as often as there are jumps, reaches each jump in this  *)
(* file, from wherever one is in the list (previousJumpPosition).          *)
Pressed(name, n) ==
    LET at[k \in 0..n] ==
          IF k = 0 THEN mCurrentJumpListItem
          ELSE LET found == Info!PreviousJump(mJumpList, at[k - 1], name)
               IN  IF found = 0 THEN 0 ELSE found - 1
    IN  at[n]

JumpsAreReached ==
    moving = "info" =>
      \A name \in FileName, i \in 1..Len(mJumpList) : mJumpList[i].name = name =>
        \E n \in 1..Len(mJumpList) : Pressed(name, n) = i - 1

(* The next session has the newest commands, in their order; the newest    *)
(* searches come after them, since they are written with the ":" of a      *)
(* command.                                                                *)
HistoryComesBack ==
    moving = "info" =>
      Info!Read(Info!Written(mStartPosition)).ex.entries =
          Info!LastOf(exHistory.entries, 1) \o Info!LastOf(searchHistory.entries, 1)

(* Registers come back if each holds whole lines or at most two strings    *)
(* that are not null: those are what the form "LINE n" or "CHAR n" fits. *)
Fits(contents) ==
    \/ Len(contents) <= 2 /\ Null \notin ToSet(contents)
    \/ /\ Len(contents) >= 3
       /\ \A i \in 1..Len(contents) : contents[i] = Null <=> i \in {1, Len(contents)}

RegistersComeBack ==
    moving = "info" /\ (\A r \in {"x", "y"} : Fits(mRegisters[r])) =>
      Info!Read(Info!Written(mStartPosition)).registers = mRegisters

-----------------------------------------------------------------------------
(* There are matching tags for each jump that can be taken back, and the   *)
(* one shown is one of them (YTagStack keeps them in two lists).           *)
StacksMatch ==
    /\ Len(mStack) = Len(mCurrentTags)
    /\ \A i \in 1..Len(mCurrentTags) :
         mCurrentTags[i].cur \in 1..Len(mCurrentTags[i].tags)

(* A tag of the file one is in is always gone to.                          *)
TagInFileIsShown ==
    Len(mCurrentTags') >= Len(mCurrentTags) /\ mCurrentTags' # mCurrentTags =>
      LET tag == Last(mCurrentTags').tags[Last(mCurrentTags').cur]
      IN  Place(tag)[1] = current => << current', cursor'[current] >> = Place(tag)

-----------------------------------------------------------------------------
(* Every tag of a name, or that begins with it, in the order of the file.  *)
Expected(search) ==
    SelectSeq([i \in 1..Len(tagLines) |-> i],
              LAMBDA i : T!Matches(search, tagLines[i].name))

LinesAreShort == \A i \in 1..Len(tagLines) : 3 * T!Size(tagLines[i]) <= 15

(* P(search, sorted) for each search of a tag file, by halves if the file  *)
(* is sorted: that misses tags if a line is longer than a third of         *)
(* JUMP_BACK.                                                              *)
EachSearch(P(_, _)) ==
    moving = "file" =>
      \A name \in TagName, partial, sorted \in BOOLEAN :
         (sorted => LinesAreShort) => P(T!Search(name, partial), sorted)

(* The first tag of a name, or that begins with it, is found wherever it is*)
(* in the file, and none if there is none; and as long as the memory that  *)
(* held the name is not used again, so are all that follow, in the order of*)
(* the file (find and findNext of readtags.c).                             *)
FirstTagIsFound ==
    LET Rightly(search, sorted) ==
          LET expected == Expected(search)
              first == T!Find(tagLines, sorted, search)
          IN  /\ IF expected = <<>> THEN ~first.ok
                 ELSE first.ok /\ first.line = Head(expected)
              /\ T!Found(tagLines, sorted, search, {search.name}) = { expected }
    IN  EachSearch(Rightly)

(* Every matching tag is found, which is what the name is kept for in      *)
(* lastsearch: "Otherwise, the temporary gets destroyed and tagNext fails" *)
(* (tags_interface.cpp:50-52).                                             *)
EveryTagIsFound ==
    LET Completely(search, sorted) ==
          T!AnyFound(tagLines, sorted, search) = { Expected(search) }
    IN  EachSearch(Completely)

-----------------------------------------------------------------------------
(* What the next session reads is what this one knew, as far as it is kept.*)
NextSessionKnows ==
    Info!TypeOK /\ LatestAreWritten /\ HistoryComesBack /\ RegistersComeBack

(* Following tags keeps the two stacks together and finds the tags of this *)
(* file.                                                                   *)
TagsAreFollowed == Tags!TypeOK' /\ StacksMatch' /\ TagInFileIsShown

=============================================================================

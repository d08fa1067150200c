------------------------------ MODULE YzisInfo ------------------------------
(***************************************************************************)
(* What yzis remembers from one session to the next: YInfo (yzisinfo.cpp,  *)
(* with its two kinds of records), YZHistory (history.cpp) and YRegisters  *)
(* (registers.cpp).                                                        *)
(*                                                                         *)
(* write() puts everything into one text file, a line or more per record,  *)
(* and read() parses it at the next start.  A line is modelled by its kind *)
(* and what it says, and reading by what the parser makes of such lines:   *)
(* it splits them at white space, so a file name with a blank comes back   *)
(* as its first word, and it counts the lines of a register.               *)
(***************************************************************************)
EXTENDS Integers, Sequences, SequencesExt

CONSTANTS
    FileName,      \* names of files
    FirstWord,     \* [FileName -> FileName]: the name up to a blank
    Place,         \* cursor positions
    Entry,         \* what is typed as a command or a search
    RegisterName,  \* a sequence: the names of the registers, in their order
    TextLine,      \* lines of text in registers
    Blank,         \* the empty one
    Contents,      \* the sequences of lines and nulls that get into registers
    Null,          \* the null string that marks whole lines in a register
    MaxRecords,    \* how many positions and jumps are written (100)
    MaxEntries,    \* how many entries of a history are written (50)
    MaxKept        \* bound: how much is remembered at a time

YzisInfoAssumption ==
    /\ FirstWord \in [FileName -> FileName]
    /\ MaxRecords \in Nat \ {0}
    /\ MaxEntries \in Nat \ {0}
    /\ Null \notin TextLine
    /\ Blank \in TextLine
    /\ Contents \subseteq Seq(TextLine \union {Null}) \ {<<>>}

VARIABLES
    mStartPosition,        \* [name, pos] records, oldest first
    mJumpList,             \* the same, for jumps
    mCurrentJumpListItem,  \* where CTRL-O is in it
    exHistory,             \* [entries, current] of the command line
    searchHistory,         \* ... and of the searches
    mRegisters,            \* what each register holds
    file                   \* the lines of the file yzisinfo

vars == << mStartPosition, mJumpList, mCurrentJumpListItem,
           exHistory, searchHistory, mRegisters, file >>

lists == << mStartPosition, mJumpList, mCurrentJumpListItem >>

Record == [name : FileName, pos : Place]
Registers == ToSet(RegisterName)

TypeOK ==
    /\ mStartPosition \in Seq(Record)
    /\ mJumpList \in Seq(Record)
    /\ mCurrentJumpListItem \in 0..Len(mJumpList)
    /\ exHistory.current \in 0..Len(exHistory.entries)
    /\ searchHistory.current \in 0..Len(searchHistory.entries)
    /\ DOMAIN mRegisters = Registers

LastOf(list, n) == SubSeq(list, IF Len(list) > n THEN Len(list) - n + 1 ELSE 1, Len(list))

-----------------------------------------------------------------------------
(* YZHistory.  `current' is the iterator, as its distance from the front.  *)

NewHistory == [entries |-> <<>>, current |-> 0]

AddEntryBehind(h, e) ==  \* Slip: the iterator stays where it was
    [entries |-> Append(SubSeq(h.entries, 1, h.current), e), current |-> h.current]

(* addEntry(): what comes after the current entry is forgotten.            *)
AddEntry(h, e) ==
    [entries |-> Append(SubSeq(h.entries, 1, h.current), e),
     current |-> h.current + 1]

GoBackInTime(h) == [h EXCEPT !.current = IF @ = 0 THEN @ ELSE @ - 1]

GoPastTheEnd(h) == [h EXCEPT !.current = @ + 1]  \* Slip

GoForwardInTime(h) == [h EXCEPT !.current = IF @ = Len(h.entries) THEN @ ELSE @ + 1]

-----------------------------------------------------------------------------
(* Positions.                                                              *)

(* startPosition(): the first record of that name.                         *)
StartPosition(list, name, none) ==
    LET found == SelectSeq(list, LAMBDA r : r.name = name)
    IN  IF found = <<>> THEN none ELSE Head(found).pos

AppendStartPosition(list, name, pos) ==  \* Slip: keeps the old record too
    Append(list, [name |-> name, pos |-> pos])

(* updateStartPosition(): the first record of that name is dropped and the *)
(* new one is the newest.                                                  *)
UpdateStartPosition(list, name, pos) ==
    LET old == {i \in 1..Len(list) : list[i].name = name}
        kept == IF old = {} THEN list
                ELSE RemoveAt(list, CHOOSE i \in old : \A j \in old : i <= j)
    IN  Append(kept, [name |-> name, pos |-> pos])

(* updateJumpList(): a position is listed once.                            *)
UpdateJumpList(list, name, pos) ==
    IF [name |-> name, pos |-> pos] \in ToSet(list)
    THEN list
    ELSE Append(list, [name |-> name, pos |-> pos])

StopAtTheFront(list, from, name) ==  \* Slip: does not go round
    LET ahead == {i \in 1..from : list[i].name = name}
    IN  IF ahead = {} THEN 0 ELSE CHOOSE i \in ahead : \A j \in ahead : j <= i

(* previousJumpPosition(): goes down from the current item, and once round *)
(* from the end, to an item of this file; 0 when there is none.            *)
PreviousJump(list, from, name) ==
    LET mine == {i \in 1..Len(list) : list[i].name = name}
        below == {i \in mine : i <= from}
        Newest(S) == CHOOSE i \in S : \A j \in S : j <= i
    IN  CASE below # {} -> Newest(below)
          [] below = {} /\ mine # {} -> Newest(mine)
          [] OTHER -> 0

-----------------------------------------------------------------------------
(* The file.                                                               *)

Lines(list, kind) == [i \in 1..Len(list) |-> [kind |-> kind, what |-> list[i]]]

HistoryLines(h) == Lines(LastOf(h.entries, MaxEntries), "entry")

LinesWithNulls(r) ==  \* Slip: counts the nulls as lines
    LET n == Len(mRegisters[r])
    IN  << [kind |-> "register",
            what |-> [key |-> r, type |-> IF n >= 3 THEN "LINE" ELSE "CHAR", lines |-> n]] >>
        \o Lines(SelectSeq(mRegisters[r], LAMBDA t : t # Null), "text")

(* saveRegistersList(): a register of three strings or more counts as      *)
(* whole lines between two nulls; nulls are not written.                   *)
RegisterLines(r) ==
    LET n == Len(mRegisters[r])
        head == IF n >= 3 THEN [key |-> r, type |-> "LINE", lines |-> n - 2]
                          ELSE [key |-> r, type |-> "CHAR", lines |-> n]
    IN  << [kind |-> "register", what |-> head] >>
        \o Lines(SelectSeq(mRegisters[r], LAMBDA t : t # Null), "text")

UsedRegisters == SelectSeq(RegisterName, LAMBDA r : mRegisters[r] # <<>>)

FirstRecords(list) ==  \* Slip: the oldest instead of the newest
    SubSeq(list, 1, IF Len(list) > MaxRecords THEN MaxRecords ELSE Len(list))

SavedRecords(list) == LastOf(list, MaxRecords)

(* write(): both histories in the same form, and an empty line at the end. *)
Written(starts) ==
    HistoryLines(exHistory) \o HistoryLines(searchHistory)
    \o Lines(SavedRecords(starts), "start")
    \o Lines(SavedRecords(mJumpList), "jump")
    \o FoldLeft(LAMBDA lines, r : lines \o RegisterLines(r), <<>>, UsedRegisters)
    \o Lines(<<Blank>>, "blank")

(* read(), line by line.  While a register is being filled its lines are   *)
(* taken whatever they are.                                                *)
NothingRead ==
    [ starts |-> <<>>, jumps |-> <<>>, ex |-> NewHistory, filling |-> <<>>,
      registers |-> [r \in Registers |-> <<>>] ]

ReadRecord(r) == [r EXCEPT !.name = FirstWord[@]]

Filled(read) ==
    LET head == Head(read.filling).what
        got == [i \in 1..head.lines |-> IF i < Len(read.filling)
                                        THEN read.filling[i + 1].what ELSE Null]
    IN  [read EXCEPT
           !.filling = <<>>,
           !.registers[head.key] = IF head.type = "LINE"
                                   THEN <<Null>> \o got \o <<Null>> ELSE got]

ReadLine(read, line) ==
    CASE read.filling # <<>> ->
           LET more == [read EXCEPT !.filling = Append(@, line)]
           IN  IF Len(more.filling) > Head(more.filling).what.lines
               THEN Filled(more) ELSE more
      [] read.filling = <<>> /\ line.kind = "register" ->
           [read EXCEPT !.filling = <<line>>]
      [] read.filling = <<>> /\ line.kind = "entry" ->
           [read EXCEPT !.ex = AddEntry(@, line.what)]
      [] read.filling = <<>> /\ line.kind = "start" ->
           [read EXCEPT !.starts = Append(@, ReadRecord(line.what))]
      [] read.filling = <<>> /\ line.kind = "jump" ->
           [read EXCEPT !.jumps = Append(@, ReadRecord(line.what))]
      [] OTHER -> read

Read(lines) ==
    LET read == FoldLeft(ReadLine, NothingRead, lines)
    IN  IF read.filling = <<>> THEN read ELSE Filled(read)

-----------------------------------------------------------------------------
Init ==
    /\ mStartPosition = <<>>
    /\ mJumpList = <<>>
    /\ mCurrentJumpListItem = 0
    /\ exHistory = NewHistory
    /\ searchHistory = NewHistory
    /\ mRegisters = [r \in Registers |-> <<>>]
    /\ file = <<>>

Kept ==
    Len(mStartPosition) + Len(mJumpList) + Len(exHistory.entries)
    + Len(searchHistory.entries) + Len(UsedRegisters)

(* saveYzisInfo(): a buffer is saved or closed.                            *)
Close(name, pos) ==
    /\ Kept < MaxKept
    /\ mStartPosition' = UpdateStartPosition(mStartPosition, name, pos)
    /\ file' = Written(mStartPosition')
    /\ UNCHANGED << mJumpList, mCurrentJumpListItem, exHistory, searchHistory, mRegisters >>

SaveJumpPosition(name, pos) ==
    /\ Kept < MaxKept
    /\ mJumpList' = UpdateJumpList(mJumpList, name, pos)
    /\ UNCHANGED << mStartPosition, mCurrentJumpListItem,
                    exHistory, searchHistory, mRegisters, file >>

(* CTRL-O in a file.  Without any jump the code reads before the list.     *)
UndoJump(name) ==
    /\ mJumpList # <<>>
    /\ LET found == PreviousJump(mJumpList, mCurrentJumpListItem, name)
       IN  mCurrentJumpListItem' = IF found = 0 THEN 0 ELSE found - 1
    /\ UNCHANGED << mStartPosition, mJumpList, exHistory, searchHistory, mRegisters, file >>

(* Enter, Up and Down on a command line, or on a search.                   *)
TypeCommand(e) ==
    /\ Kept < MaxKept
    /\ exHistory' = AddEntry(exHistory, e)
    /\ UNCHANGED << lists, searchHistory, mRegisters, file >>

TypeSearch(e) ==
    /\ Kept < MaxKept
    /\ searchHistory' = AddEntry(searchHistory, e)
    /\ UNCHANGED << lists, exHistory, mRegisters, file >>

BrowseCommands ==
    /\ exHistory' \in {GoBackInTime(exHistory), GoForwardInTime(exHistory)}
    /\ UNCHANGED << lists, searchHistory, mRegisters, file >>

BrowseSearches ==
    /\ searchHistory' \in {GoBackInTime(searchHistory), GoForwardInTime(searchHistory)}
    /\ UNCHANGED << lists, exHistory, mRegisters, file >>

(* What a yank, a deletion or a recorded macro leaves in a register.       *)
SetRegister(r, contents) ==
    /\ Kept < MaxKept
    /\ mRegisters' = [mRegisters EXCEPT ![r] = contents]
    /\ UNCHANGED << lists, exHistory, searchHistory, file >>

(* A new session begins with what it reads.  A search history starts empty *)
StartFrom(lines) ==
    /\ mStartPosition' = Read(lines).starts
    /\ mJumpList' = Read(lines).jumps
    /\ mCurrentJumpListItem' = Len(Read(lines).jumps)
    /\ exHistory' = Read(lines).ex
    /\ searchHistory' = NewHistory
    /\ mRegisters' = Read(lines).registers
    /\ file' = lines

(* The session ends, however it does, and another one starts.              *)
Restart == StartFrom(file)

(* It ends while it writes: the file was truncated when it was opened, and *)
(* holds nothing, half of it or all.                                       *)
Crash(name, pos, halves) ==
    LET all == Written(UpdateStartPosition(mStartPosition, name, pos))
    IN  StartFrom(SubSeq(all, 1, (halves * Len(all)) \div 2))

Next ==
    \/ \E name \in FileName, pos \in Place :
         \/ Close(name, pos)
         \/ SaveJumpPosition(name, pos)
         \/ \E halves \in 0..2 : Crash(name, pos, halves)
    \/ \E name \in FileName : UndoJump(name)
    \/ \E e \in Entry : TypeCommand(e) \/ TypeSearch(e)
    \/ BrowseCommands
    \/ BrowseSearches
    \/ \E r \in Registers, contents \in Contents : SetRegister(r, contents)
    \/ Restart

Spec == Init /\ [][Next]_vars
=============================================================================

------------------------------ MODULE Editing ------------------------------
(***************************************************************************)
(* The commands of a view on its text (src/libyzis/mode_command.cpp,       *)
(* mode_insert.cpp and action.cpp): motions, operators over motions,       *)
(* deleting, yanking and pasting through the unnamed register, joining     *)
(* lines, and the keys of insert and replace mode.                         *)
(*                                                                         *)
(* One action per command.  The undo list and the swap file that each edit *)
(* feeds are in Buffer, the way from keys to commands in KeyInput.         *)
(***************************************************************************)
EXTENDS Motions

CONSTANTS
  Texts,        \* the texts that may be edited: a bound
  Counts,       \* the counts that may be typed
  Chars,        \* the characters that may be typed
  FindChars,    \* those that may be looked for with f, t, F and T
  Brackets,     \* the pairs i may be given
  MotionNames   \* the motions that may be used

VARIABLES
  text,      \* YBuffer: the lines
  cursor,    \* YView::mMainCursor
  mode,      \* the current mode: Typing, Selecting or "command"
  register,  \* the unnamed register: whole lines or not, and the strings
  lineFind,  \* YLineSearch: mType and mPrevSearched
  pattern    \* YSearch::mCurrentSearch

vars == << text, cursor, mode, register, lineFind, pattern >>

Typing == {"insert", "replace"}
Selecting == {"visual", "visualLine"}

ASSUME CountsAreTyped == Counts \subseteq Nat \ {0}

NoFind == [type |-> "None"]
FindTypes == {"SearchForward", "SearchForwardBefore", "SearchBackward", "SearchBackwardAfter"}
FindCommand == ("SearchForward" :> "f") @@ ("SearchForwardBefore" :> "t")
            @@ ("SearchBackward" :> "F") @@ ("SearchBackwardAfter" :> "T")

(* list[0] is null in the code when the register holds whole lines.        *)
Register(whole, list) == [whole |-> whole, list |-> list]

(* YView::gotoLinePosition: in the modes that edit the cursor may be behind*)
(* the last character.                                                     *)
GoTo(t, pos, edit) ==
    IF edit THEN Cursor(Max({0, Min({pos.x, GetLineLength(t, pos.y)})}), pos.y)
    ELSE InView(t, pos)

(* Some commands can put the cursor on a line that does not exist (+, -, cc*)
(* and gUU at an end of the text): the view then draws a line that is not  *)
(* in the text.  Those steps are left out, as are texts beyond the bound.  *)
InText(t, pos) == LineExists(t, pos.y)

Does(t, pos, m) ==
    /\ InText(t, pos) /\ t \in Texts
    /\ text' = t
    /\ mode' = m
    /\ cursor' = GoTo(t, pos, m # "command")

-----------------------------------------------------------------------------
(* The motions.  The result is where to, and what else it changes: to find *)
(* a character again, a pattern to search for, where an operator begins.   *)
To(pos) == [ok |-> TRUE, to |-> pos, from |-> cursor, find |-> lineFind, pattern |-> pattern]
Stopped(r) == [r EXCEPT !.ok = FALSE, !.to = cursor]

FindMotion(find, count) ==
    LET l == Textline(text, cursor.y)
        r == LineSearch(l, cursor.x, find, count)
        result == [To(cursor) EXCEPT !.find = find]
    IN  IF r.found THEN [result EXCEPT !.to.x = r.x] ELSE Stopped(result)

SearchMotion(p, reverse, count) ==
    LET Result(r) == [To(r.pos) EXCEPT !.ok = r.found, !.pattern = p]
    IN  Result(SearchTimes(text, p, cursor, reverse, count))

(* As a motion the command is called by its own name, under an operator by *)
(* the operator's, which is neither "*" nor has a "g": it searches back    *)
(* for the whole word.                                                     *)
WordMotion(cmd, count, standalone) ==
    LET Search(word) ==
          SearchMotion(Pattern(word, ~standalone \/ cmd \in {"*", "#"}),
                       ~standalone \/ cmd \in {"#", "g#"}, count)
        Result(word) == IF word = <<>> THEN To(cursor) ELSE [Search(word) EXCEPT !.ok = TRUE]
    IN  Result(GetWordAt(text, cursor))

(* i(: the bracket it looked for becomes the current search.               *)
InnerMotion(open, close, count) ==
    LET Result(r) == [To(r.to) EXCEPT !.ok = r.found, !.from = r.from,
                                      !.pattern = Pattern(<<r.what>>, FALSE)]
    IN  Result(FindInner(text, cursor, open, close, count))

Move(name, count, usercount, standalone) ==
    CASE name = "h" -> To(MoveLeft(text, cursor, count))
      [] name = "l" -> To(MoveRight(text, cursor, count))
      [] name = "BS" -> To(MoveLeftWrap(text, cursor, count))
      [] name = "SPACE" -> To(MoveRightWrap(text, cursor, count))
      [] name = "j" -> To(MoveDown(text, cursor, count))
      [] name = "k" -> To(MoveUp(text, cursor, count))
      [] name = "0" -> To(GotoSOL(cursor))
      [] name = "$" -> To(EndOfLine(text, cursor.y))
      [] name = "^" -> To(FirstNonBlank(text, cursor))
      [] name = "g_" -> To(LastNonBlank(text, cursor))
      [] name = "C-HOME" -> To(GotoStartOfDocument)
      [] name = "C-END" -> To(GotoEndOfDocument(text))
      [] name \in {"gg", "G"} ->
           To(GotoLine(text, IF standalone THEN name ELSE "operator", count, usercount))
      [] name = "|" -> To(GotoColumn(text, cursor, count))
      [] name = "+" -> To(FirstNonBlankNextLine(text, cursor))
      [] name = "-" -> To(FirstNonBlankPreviousLine(text, cursor))
      [] name = "{" -> To(PreviousEmptyLine(text, cursor, count))
      [] name = "}" -> To(NextEmptyLine(text, cursor, count))
      [] name = "w" -> To(MoveWordForward(text, cursor, count, standalone))
      [] name = "W" -> To(MoveSWordForward(text, cursor, count, standalone))
      [] name = "e" -> To(MoveWordEndForward(text, cursor, count))
      [] name = "E" -> To(MoveSWordEndForward(text, cursor, count))
      [] name = "b" -> To(MoveWordBackward(text, cursor, count))
      [] name = "B" -> To(MoveSWordBackward(text, cursor, count))
      [] name = "ge" -> To(MoveWordEndBackward(text, cursor, count))
      [] name = "gE" -> To(MoveSWordEndBackward(text, cursor, count))
      [] name = "%" -> To(PercentCommand(cursor))
      [] name = ";" -> IF lineFind = NoFind THEN Stopped(To(cursor))
                       ELSE FindMotion(lineFind, count)
      [] name \in {"n", "N"} -> SearchMotion(pattern, name = "N", count)
      [] name \in {"*", "g*", "#", "g#"} -> WordMotion(name, count, standalone)

Linewise == {"j", "k"}
Inclusive == {"e", "E", "f", "t", "F", "T"}

(* YModeCommand::interval: from the cursor to where the motion leads.      *)
Area(name, result) ==
    LET backward == Before(result.to, result.from)
        from == IF backward THEN result.to ELSE result.from
        to == IF backward THEN result.from ELSE result.to
    IN  IF name \in Linewise
        THEN OpenInterval(Cursor(0, from.y), Cursor(0, to.y + 1))
        ELSE Interval(from, to, name \notin Inclusive)
-----------------------------------------------------------------------------
(* YZAction: lines and areas of the text.                                  *)
ReplaceLine(t, l, y) ==
    InsertRegion(DeleteRegion(t, LineContent(t, y)), Cursor(0, y), <<l>>)
DeleteOneLine(t, y) == DeleteRegion(t, LineInterval(t, y))
InsertOneLine(t, l, y) == InsertRegion(t, NewLinePosition(t, y), NewLineData(y, l))
BreakLine(t, pos) == InsertRegion(t, pos, LineBreak)

Repeated(Op(_), t, n) ==
    LET f[i \in 0..n] == IF i = 0 THEN t ELSE Op(f[i - 1]) IN f[n]

DeleteLines(t, y, len) ==
    Repeated(LAMBDA u : DeleteOneLine(u, y), t, Min({len, LineCount(t) - y}))
AfterDeleteLines(t, y) == Cursor(0, IF y = LineCount(t) THEN y - 1 ELSE y)

CopyLineOpen(t, y, len) ==  \* Slip: the string that ends the last line is missing
    Register(TRUE, SubSeq(t, y + 1, Min({y + len, LineCount(t)})))
CopyLine(t, y, len) ==
    Register(TRUE, SubSeq(t, y + 1, Min({y + len, LineCount(t)})) \o << <<>> >>)

CopyAreaOpen(t, i) ==  \* Slip: a closed interval is copied like an open one
    LET l == Textline(t, i.from.y)
        between == SubSeq(t, i.from.y + 2, Min({i.to.y, LineCount(t)}))
        last == IF LineExists(t, i.to.y) THEN << Left(Textline(t, i.to.y), i.to.x) >> ELSE <<>>
    IN  Register(i.from.x = 0 /\ i.to.x = 0 /\ i.toOpen,
                 IF i.from.y = i.to.y THEN << Mid(Left(l, i.to.x), i.from.x) >>
                 ELSE << Mid(l, i.from.x) >> \o between \o last)

(* An interval of whole lines is recognised by its bounds; there is nothing*)
(* to follow the last line if it ends beyond the text.                     *)
CopyArea(t, i) ==
    LET bi == i.from
        eX == IF i.toOpen THEN i.to.x ELSE i.to.x + 1
        eY == i.to.y
        l == Textline(t, bi.y)
        between == SubSeq(t, bi.y + 2, Min({eY, LineCount(t)}))
        last == IF eY < LineCount(t) THEN << Left(Textline(t, eY), eX) >> ELSE <<>>
    IN  Register(bi.x = 0 /\ i.to.x = 0 /\ i.toOpen,
                 IF bi.y = eY THEN << Mid(Left(l, eX), bi.x) >>
                 ELSE << Mid(l, bi.x) >> \o between \o last)
(* The lines after the first are deleted, the first is replaced by what is *)
(* left of it and of the last.  Beyond the end of the text the line before *)
(* the area stands in for the last.                                        *)
DeleteArea(t, i) ==
    LET bX == i.from.x
        bY == i.from.y
        wholeLast == i.toOpen /\ i.to.x = 0
        beyond == wholeLast /\ i.to.y >= LineCount(t)
        eX == IF i.toOpen /\ i.to.x > 0 THEN i.to.x - 1 ELSE i.to.x
        eY == IF beyond THEN LastLine(t) ELSE i.to.y
        rest == IF beyond THEN (IF bY > 0 THEN Textline(t, bY - 1) ELSE <<>>)
                ELSE IF wholeLast THEN Textline(t, eY)
                ELSE Mid(Textline(t, eY), eX + 1)
        kept == Left(Textline(t, bY), bX)
    IN  ReplaceLine(Repeated(LAMBDA u : DeleteOneLine(u, bY + 1), t, Max({0, eY - bY})),
                    kept \o rest, bY)
DeletedOpen(t, i) ==  \* Slip: not the last character of a closed interval
    Register(FALSE, DataRegion(t, OpenInterval(i.from, i.to)))
Deleted(t, i) == Register(FALSE, DataRegion(t, i))

MergeNextLineStripped(t, y, stripSpaces) ==  \* Slip: strips blanks for any caller
    LET line2 == Textline(t, y + 1)
    IN  DeleteOneLine(ReplaceLine(t, Textline(t, y) \o Mid(line2, Run(line2, 0, IsSpace)), y), y + 1)
MergeNextLine(t, y, stripSpaces) ==
    LET line == Textline(t, y)
        line2 == Textline(t, y + 1)
        space == IF line # <<>> /\ Last(line) = Blank THEN <<>> ELSE <<Blank>>
        tail == IF stripSpaces THEN space \o Mid(line2, Run(line2, 0, IsSpace)) ELSE line2
    IN  DeleteOneLine(ReplaceLine(t, line \o tail, y), y + 1)

(* YZAction::pasteContent: the text, and where the cursor goes.            *)
Paste(t, at, r, after) ==
    LET copy == Textline(t, at.y)
        start == IF ~after THEN at.x ELSE IF copy = <<>> THEN 0 ELSE at.x + 1
        first == r.list[1]
        n == Len(r.list)
        Lines(u, list, y) ==
          LET f[k \in 0..Len(list)] ==
                IF k = 0 THEN u ELSE InsertOneLine(f[k - 1], list[k], y + k - 1)
          IN  f[Len(list)]
    IN  CASE r.whole /\ ~after -> [text |-> Lines(t, Front(r.list), at.y), pos |-> at]
          [] r.whole /\ after ->
               LET u == Lines(t, Front(r.list), at.y + 1)
               IN  [text |-> u, pos |-> Cursor(FirstNonBlankChar(u, at.y + 1), at.y + 1)]
          [] ~r.whole /\ n = 1 ->
               [text |-> ReplaceLine(t, Left(copy, start) \o first \o Mid(copy, start), at.y),
                pos |-> Cursor(start + Len(first) - (IF first = <<>> THEN 0 ELSE 1), at.y)]
          [] ~r.whole /\ n > 1 ->
               [text |-> Lines(ReplaceLine(t, Left(copy, start) \o first, at.y),
                               Append(SubSeq(r.list, 2, n - 1), Last(r.list) \o Mid(copy, start)),
                               at.y + 1),
                pos |-> Cursor(Len(Last(r.list)), at.y + n - 1)]

-----------------------------------------------------------------------------
(* Motions as commands, and operators over motions.  The argument of f, t, *)
(* F and T is a character, that of i a pair of brackets.                   *)
Finds == [type : FindTypes, ch : FindChars]

Standalone(result) ==
    /\ Does(text, result.to, mode)
    /\ lineFind' = result.find /\ pattern' = result.pattern
    /\ UNCHANGED register

ExecMotion(name, count, usercount) ==
    /\ mode \notin Typing /\ name \notin Linewise
    /\ Standalone(Move(name, count, usercount, TRUE))
ExecFind(find, count) == mode = "command" /\ Standalone(FindMotion(find, count))

(* YModeSearch, / and ?: what is typed there is looked for, nothing means  *)
(* the current search.  If it is not found the cursor stays.               *)
SearchedFor(what) == IF what = <<>> THEN pattern ELSE Pattern(what, FALSE)
Search(what, reverse) ==
    LET Found(r) == IF r.found THEN r.pos ELSE cursor
    IN  /\ mode = "command"
        /\ Does(text, Found(DoSearch(text, SearchedFor(what), cursor, reverse)), mode)
        /\ pattern' = SearchedFor(what)
        /\ UNCHANGED << register, lineFind >>
Searches ==
    \E what \in { <<>> } \cup { << ch >> : ch \in FindChars }, reverse \in BOOLEAN :
       Search(what, reverse)

(* The results an operator may have to work on, with the motion's name.    *)
Results ==
    { << name, Move(name, count, usercount, FALSE) >> :
        name \in MotionNames, count \in Counts, usercount \in BOOLEAN }
    \cup { << FindCommand[find.type], FindMotion(find, count) >> : find \in Finds, count \in Counts }
    \cup { << "i", InnerMotion(pair[1], pair[2], count) >> : pair \in Brackets, count \in Counts }

(* d, c and y.  A motion that stops leaves the operator undone; what it has*)
(* made the current search stays.                                          *)
Operate(named, Op(_)) ==
    LET result == named[2] IN
    /\ mode = "command"
    /\ lineFind' = result.find /\ pattern' = result.pattern
    /\ IF result.ok THEN Op(Area(named[1], result))
       ELSE UNCHANGED << text, cursor, mode, register >>

Delete(named) ==
    Operate(named, LAMBDA area :
      /\ Does(DeleteArea(text, area), area.from, "command")
      /\ register' = Deleted(text, area))

Change(named) ==
    Operate(named, LAMBDA area :
      /\ Does(DeleteArea(text, area), area.from, "insert")
      /\ register' = Deleted(text, area))

Yank(named) ==
    Operate(named, LAMBDA area :
      /\ Does(text, area.from, "command")
      /\ register' = CopyArea(text, area))

-----------------------------------------------------------------------------
(* The other commands of command mode.                                     *)
Edit(t, pos, m) == Does(t, pos, m) /\ UNCHANGED << register, lineFind, pattern >>
EditAndCopy(t, pos, m, r) ==
    Does(t, pos, m) /\ register' = r /\ UNCHANGED << lineFind, pattern >>

DeleteLine(count) ==
    LET t == DeleteLines(text, cursor.y, count)
    IN  EditAndCopy(t, AfterDeleteLines(t, cursor.y), "command", CopyLine(text, cursor.y, count))

(* cc: the empty line is opened above the line the cursor then is on.      *)
ChangeLine(count) ==
    LET t == DeleteLines(text, cursor.y, count)
        y == AfterDeleteLines(t, cursor.y).y
    IN  EditAndCopy(IF t = << <<>> >> THEN t ELSE BreakLine(t, Cursor(0, y)),
                    Cursor(0, cursor.y), "insert", CopyLine(text, cursor.y, count))

ToEndOfLine == ClosedInterval(cursor, EndOfLine(text, cursor.y))
DeleteToEOL ==
    EditAndCopy(DeleteArea(text, ToEndOfLine), cursor, "command", Deleted(text, ToEndOfLine))
ChangeToEOL ==
    EditAndCopy(DeleteArea(text, ToEndOfLine), cursor, "insert", Deleted(text, ToEndOfLine))

(* dG: from the end of the line above, or the start of the first line.     *)
DeleteToEndOfLastLine ==
    LET from == IF cursor.y = 0 THEN Cursor(0, 0) ELSE EndOfLine(text, cursor.y - 1)
        area == ClosedInterval(from, EndOfLine(text, LastLine(text)))
    IN  EditAndCopy(DeleteArea(text, area), Cursor(0, from.y), "command", Deleted(text, area))

YankLine(count) == EditAndCopy(text, cursor, "command", CopyLine(text, cursor.y, count))
YankToEOL ==
    LET last == Cursor(GetLineLength(text, cursor.y) - 1, cursor.y)
        area == IF Before(last, cursor) THEN ClosedInterval(last, cursor)
                ELSE ClosedInterval(cursor, last)
    IN  EditAndCopy(text, cursor, "command", CopyArea(text, area))

DelChar(t, pos, count) == DeleteRegion(t, CharsInterval(pos, count))

(* x: one character is copied, count of them are deleted.                  *)
DeleteChar(count) ==
    EditAndCopy(DelChar(text, cursor, count), cursor, "command",
                CopyArea(text, ClosedInterval(cursor, cursor)))
DeleteCharBackwards(count) ==
    LET x == Max({0, cursor.x - count})
    IN  Edit(DelChar(text, Cursor(x, cursor.y), cursor.x - x), Cursor(x, cursor.y), "command")
Substitute(count) == Edit(DelChar(text, cursor, count), cursor, "insert")
ReplaceChar(t, pos, ch) == InsertRegion(DelChar(t, pos, 1), pos, << <<ch>> >>)
Replace(ch) == Edit(ReplaceChar(text, cursor, ch), cursor, "command")

(* ~, gUU and guu; "b" stands for the capital of "a".                      *)
Upper(ch) == IF ch = "a" THEN "b" ELSE ch
Lower(ch) == IF ch = "b" THEN "a" ELSE ch
Swapped(ch) == IF ch = "a" THEN "b" ELSE IF ch = "b" THEN "a" ELSE ch
ChangeCase(count) ==
    LET y == cursor.y
        l == [ i \in 1..GetLineLength(text, y) |->
                 IF i \in cursor.x + 1..cursor.x + count THEN Swapped(text[y + 1][i])
                 ELSE text[y + 1][i] ]
    IN  Edit([text EXCEPT ![y + 1] = l], Cursor(cursor.x + count, y), "command")
LineToCase(count, Case(_)) ==
    LET Changed(y) == [ i \in 1..Len(text[y]) |-> Case(text[y][i]) ]
        t == [ y \in 1..Len(text) |->
                 IF y \in cursor.y + 1..cursor.y + count THEN Changed(y) ELSE text[y] ]
    IN  Edit(t, Cursor(0, cursor.y + count), "command")

JoinLines(count, strip) ==
    LET n == Min({count, LastLine(text) - cursor.y})
        f[i \in 0..n] ==
          IF i = 0 THEN [t |-> text, x |-> cursor.x]
          ELSE [t |-> MergeNextLine(f[i - 1].t, cursor.y, strip),
                x |-> GetLineLength(f[i - 1].t, cursor.y)]
    IN  Edit(f[n].t, Cursor(f[n].x, cursor.y), "command")

PasteContent(count, after) ==
    LET f[i \in 0..count] ==
          IF i = 0 THEN [text |-> text, pos |-> cursor]
          ELSE Paste(f[i - 1].text, IF i = 1 THEN cursor ELSE InView(f[i - 1].text, f[i - 1].pos),
                     register, after)
    IN  register.list # <<>> /\ Edit(f[count].text, f[count].pos, "command")

OpenBelow(count) ==
    LET t == BreakLine(text, EndOfLine(text, cursor.y))
        Above(u) == BreakLine(u, Cursor(0, cursor.y + 1))
    IN  Edit(Repeated(Above, t, count - 1), Cursor(0, cursor.y + count), "insert")
OpenAbove(count) ==
    LET Above(u) == BreakLine(u, Cursor(0, cursor.y))
    IN  Edit(Repeated(Above, text, count), Cursor(0, cursor.y), "insert")

InsertAtColumn(x) == Edit(text, Cursor(x, cursor.y), "insert")
InsertAtSOL == InsertAtColumn(FirstNonBlankChar(text, cursor.y))
InsertAtCol1 == InsertAtColumn(0)
Replacing == Edit(text, cursor, "replace")

CommandKeys ==
    \/ \E count \in Counts :
         \/ DeleteLine(count) \/ ChangeLine(count) \/ YankLine(count)
         \/ DeleteChar(count) \/ DeleteCharBackwards(count) \/ Substitute(count)
         \/ OpenBelow(count) \/ OpenAbove(count) \/ ChangeCase(count)
         \/ LineToCase(count, Upper) \/ LineToCase(count, Lower)
         \/ \E strip \in BOOLEAN : JoinLines(count, strip)
         \/ \E after \in BOOLEAN : PasteContent(count, after)
    \/ DeleteToEOL \/ ChangeToEOL \/ DeleteToEndOfLastLine \/ YankToEOL
    \/ \E ch \in Chars : Replace(ch)
    \/ InsertAtColumn(cursor.x)                                   \* i
    \/ InsertAtColumn(cursor.x + 1)                               \* a
    \/ InsertAtColumn(GetLineLength(text, cursor.y))              \* A
    \/ InsertAtSOL                                                \* I
    \/ InsertAtCol1                                               \* gI
    \/ Replacing

-----------------------------------------------------------------------------
(* The keys of insert and replace mode.                                    *)
Typed(t, pos) == Edit(t, pos, mode)

AddText(ch) ==
    Typed(IF mode = "insert" THEN InsertRegion(text, cursor, << <<ch>> >>)
          ELSE ReplaceChar(text, cursor, ch),
          Cursor(cursor.x + 1, cursor.y))

(* C-y and C-e: the character above or below, if there is one; there is no *)
(* line above the first but itself.                                        *)
LineBelow(delta) == Max({0, cursor.y + delta})
HasCharBelow(delta) ==
    LineExists(text, LineBelow(delta)) /\ cursor.x < GetLineLength(text, LineBelow(delta))
GetCharBelow(delta) == Textline(text, LineBelow(delta))[cursor.x + 1]
InsertFrom(delta) == HasCharBelow(delta) /\ AddText(GetCharBelow(delta))

Enter == Typed(BreakLine(text, cursor), Cursor(0, cursor.y + 1))

(* At the start of a line these three join it to the line above, with a    *)
(* blank between them.                                                     *)
JoinAbove ==
    Typed(MergeNextLine(text, cursor.y - 1, TRUE), EndOfLine(text, cursor.y - 1))
DeleteBack(x) ==
    IF cursor.x = 0 /\ cursor.y > 0 THEN JoinAbove
    ELSE Typed(DelChar(text, Cursor(x, cursor.y), cursor.x - x), Cursor(x, cursor.y))

Backspace ==
    IF mode = "replace" THEN Typed(text, Cursor(cursor.x - 1, cursor.y))
    ELSE DeleteBack(Max({0, cursor.x - 1}))

(* C-w: the blanks before the cursor, and the word before them.            *)
DeleteWordBefore ==
    LET l == Turned(text, cursor.y)
        offset == Len(l) - cursor.x
        blank == Run(l, offset, IsSpace)
        len == blank + Run(l, offset + blank, IsWord) + Run(l, offset + blank, IsPunct)
    IN  DeleteBack(cursor.x - len)
DeleteLineBefore == DeleteBack(0)

DeleteUnderCursor ==
    IF cursor.x < GetLineLength(text, cursor.y) THEN Typed(DelChar(text, cursor, 1), cursor)
    ELSE Typed(IF cursor.y < LastLine(text) THEN MergeNextLine(text, cursor.y, FALSE) ELSE text,
               cursor)

(* YModeInsert::leave: back over the character typed last.                 *)
Escape == Edit(text, Cursor(Max({0, cursor.x - 1}), cursor.y), "command")

InsertToReplace == Edit(text, cursor, IF mode = "insert" THEN "replace" ELSE "insert")

TypingKeys ==
    \/ \E ch \in Chars : AddText(ch)
    \/ InsertFrom(-1) \/ InsertFrom(1)
    \/ Enter \/ Backspace \/ DeleteWordBefore \/ DeleteLineBefore \/ DeleteUnderCursor
    \/ InsertToReplace \/ Escape

-----------------------------------------------------------------------------
InitWith(t) ==
    /\ text = t
    /\ cursor = Cursor(0, 0)
    /\ mode = "command"
    /\ register = Register(FALSE, <<>>)
    /\ lineFind = NoFind
    /\ pattern = Pattern(<<>>, FALSE)

Init == \E t \in Texts : InitWith(t)

Moves ==
    \/ \E name \in MotionNames, count \in Counts, usercount \in BOOLEAN :
         ExecMotion(name, count, usercount)
    \/ \E find \in Finds, count \in Counts : ExecFind(find, count)
    \/ Searches

Operators == \E named \in Results : Delete(named) \/ Change(named) \/ Yank(named)

Next ==
    \/ Moves
    \/ Operators
    \/ mode = "command" /\ CommandKeys
    \/ mode \in Typing /\ TypingKeys

Spec == Init /\ [][Next]_vars

(* The cursor is on a character or behind the last one.                    *)
TypeOK ==
    /\ text # <<>>
    /\ mode \in {"command"} \cup Typing \cup Selecting
    /\ cursor.y \in 0..LastLine(text)
    /\ cursor.x \in 0..GetLineLength(text, cursor.y)
    /\ register.whole \in BOOLEAN
    /\ lineFind = NoFind \/ lineFind \in Finds
=============================================================================

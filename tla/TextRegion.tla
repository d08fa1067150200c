----------------------------- MODULE TextRegion -----------------------------
(***************************************************************************)
(* The text of a YBuffer and the three primitives every edit goes through: *)
(* insertRegion, deleteRegion and dataRegion (src/libyzis/buffer.cpp).     *)
(*                                                                         *)
(* A text is a sequence of lines, a line a sequence of characters.  Lines  *)
(* and columns are counted from 0, as in the code: line n is text[n + 1].  *)
(* A cursor is [x, y] (column, line); an interval has two bounds, each     *)
(* open (excluded) or closed (included).  There is no state here: the      *)
(* modules Buffer and MCTextRegion apply these operators.                  *)
(***************************************************************************)
EXTENDS Integers, Sequences, SequencesExt

Cursor(x, y) == [x |-> x, y |-> y]

(* Every bound that starts an edit is closed; the one that ends it may be  *)
(* open.  (No caller in src/libyzis builds an interval with an open start.)*)
Interval(from, to, toOpen) == [from |-> from, to |-> to, toOpen |-> toOpen]
ClosedInterval(from, to) == Interval(from, to, FALSE)
OpenInterval(from, to) == Interval(from, to, TRUE)

(* QString::left and QString::mid: left() of a length the string does not  *)
(* have is the whole string, mid() from beyond the end is empty.           *)
Left(s, n) == IF n \in 0..Len(s) THEN SubSeq(s, 1, n) ELSE s
Mid(s, n) == SubSeq(s, (IF n < 0 THEN 0 ELSE n) + 1, Len(s))

LineCount(text) == Len(text)
Textline(text, n) == IF n < LineCount(text) THEN text[n + 1] ELSE <<>>
GetLineLength(text, n) == Len(Textline(text, n))

(* The cursor one past the last position the interval holds.               *)
EndCursor(bi) ==
    IF bi.toOpen THEN bi.to ELSE [bi.to EXCEPT !.x = @ + 1]

(* Does the code find a line and a column to work at?  yzline() hands out  *)
(* a detached line for a line number that does not exist.                  *)
LineExists(text, n) == n \in 0..LineCount(text) - 1
ColumnExists(text, pos) == pos.x \in 0..GetLineLength(text, pos.y)

-----------------------------------------------------------------------------
(* YBuffer::insertRegion returns early, changing nothing and recording     *)
(* nothing, for no data and for a column beyond the end of the line.       *)
InsertAborts(text, begin, data) ==
    data = <<>> \/ begin.x > GetLineLength(text, begin.y)

(* Definitions marked "Slip" are mistakes the runs are shown to notice (see *)
(* README.md); nothing uses them.                                          *)
InsertRegionLosingRest(text, begin, data) ==  \* Slip: rdata goes missing
    LET l == Textline(text, begin.y)
        ldata == Left(l, begin.x)
        lines == IF Len(data) = 1
                 THEN << ldata \o data[1] \o Mid(l, begin.x) >>
                 ELSE << ldata \o data[1] >> \o SubSeq(data, 2, Len(data))
    IN  IF InsertAborts(text, begin, data) \/ ~LineExists(text, begin.y)
        THEN text
        ELSE SubSeq(text, 1, begin.y) \o lines
             \o SubSeq(text, begin.y + 2, LineCount(text))

(* The text after insertRegion(begin, data).  The first piece goes after   *)
(* the part of the line left of begin, the last one before the part right  *)
(* of it, the pieces between become lines.  On a line that does not exist  *)
(* the piece lands on a detached line and is lost.                         *)
InsertRegion(text, begin, data) ==
    LET l == Textline(text, begin.y)
        ldata == Left(l, begin.x)
        rdata == Mid(l, begin.x)
        middle == SubSeq(data, 2, Len(data) - 1)
        lines == IF Len(data) = 1
                 THEN << ldata \o data[1] \o rdata >>
                 ELSE << ldata \o data[1] >> \o middle \o << Last(data) \o rdata >>
    IN  IF InsertAborts(text, begin, data) \/ ~LineExists(text, begin.y)
        THEN text
        ELSE SubSeq(text, 1, begin.y) \o lines
             \o SubSeq(text, begin.y + 2, LineCount(text))

AfterFirstPiece(begin, data) ==  \* Slip: as if there were one piece
    Cursor(begin.x + Len(data[1]), begin.y)

(* The cursor insertRegion returns: the position after the inserted data.  *)
AfterInsert(begin, data) ==
    IF Len(data) = 1 THEN Cursor(begin.x + Len(data[1]), begin.y)
    ELSE Cursor(Len(Last(data)), begin.y + Len(data) - 1)

DeleteRegionButOneLine(text, bi) ==  \* Slip: a line too few is erased
    LET end == EndCursor(bi)
        merged == Left(Textline(text, bi.from.y), bi.from.x)
                  \o Mid(Textline(text, end.y), end.x)
    IN  IF ~LineExists(text, bi.from.y) THEN text
        ELSE SubSeq(text, 1, bi.from.y) \o << merged >>
             \o SubSeq(text, end.y + 1, LineCount(text))

(* The text after deleteRegion(bi).  The two ends are merged into the first*)
(* line, and as many following lines as the interval spans are erased, as  *)
(* far as there are any.                                                   *)
DeleteRegion(text, bi) ==
    LET end == EndCursor(bi)
        merged == Left(Textline(text, bi.from.y), bi.from.x)
                  \o Mid(Textline(text, end.y), end.x)
    IN  IF ~LineExists(text, bi.from.y) THEN text
        ELSE SubSeq(text, 1, bi.from.y) \o << merged >>
             \o SubSeq(text, end.y + 2, LineCount(text))

DataRegionInText(text, bi) ==  \* Slip: no piece for beyond the last line
    LET from == bi.from
        end == EndCursor(bi)
        first == Mid(Textline(text, from.y), from.x)
        lastLine == IF end.y < LineCount(text) THEN end.y ELSE LineCount(text) - 1
        piece(n) == IF n = end.y THEN Left(Textline(text, n), end.x)
                    ELSE Textline(text, n)
    IN  IF end.y = from.y THEN << Left(first, end.x - from.x) >>
        ELSE << first >> \o [i \in 1..lastLine - from.y |-> piece(from.y + i)]

(* The text dataRegion(bi) copies out: one piece per line of the interval, *)
(* and an empty last piece when the interval ends beyond the last line.    *)
DataRegion(text, bi) ==
    LET from == bi.from
        end == EndCursor(bi)
        first == Mid(Textline(text, from.y), from.x)
        lastLine == IF end.y < LineCount(text) THEN end.y ELSE LineCount(text) - 1
        piece(n) == IF n = end.y THEN Left(Textline(text, n), end.x)
                    ELSE Textline(text, n)
    IN  IF end.y = from.y THEN << Left(first, end.x - from.x) >>
        ELSE << first >>
             \o [i \in 1..lastLine - from.y |-> piece(from.y + i)]
             \o (IF end.y > lastLine THEN << <<>> >> ELSE <<>>)

-----------------------------------------------------------------------------
(* The arguments YBuffer's line operations give to the primitives.         *)

(* delChar(pos, count)                                                     *)
CharsInterval(pos, count) == ClosedInterval(pos, Cursor(pos.x + count - 1, pos.y))

LineAndBreakAfter(text, line) ==  \* Slip: the last line is like any other
    OpenInterval(Cursor(0, line), Cursor(0, line + 1))

(* deleteLine(line): the last line is deleted together with the line break *)
(* before it, any other line (and an only line) with the one after it.     *)
LineInterval(text, line) ==
    IF line > 0 /\ line = LineCount(text) - 1
    THEN OpenInterval(Cursor(GetLineLength(text, line - 1), line - 1), Cursor(0, line + 1))
    ELSE OpenInterval(Cursor(0, line), Cursor(0, line + 1))

(* replaceLine(l, line): all the characters of the line.                   *)
LineContent(text, line) ==
    ClosedInterval(Cursor(0, line), Cursor(GetLineLength(text, line) - 1, line))

(* clearText(): every line.                                                *)
WholeText(text) == OpenInterval(Cursor(0, 0), Cursor(0, LineCount(text)))

(* insertLine(l, line): where, and what.  Before line 0 no line break is   *)
(* inserted.                                                               *)
NewLinePosition(text, line) ==
    IF line = 0 THEN Cursor(0, 0) ELSE Cursor(GetLineLength(text, line - 1), line - 1)
NewLineAlone(line, l) == << l >>  \* Slip: no line break
NewLineData(line, l) == IF line = 0 THEN << l >> ELSE << <<>>, l >>

(* insertNewLine(pos)                                                      *)
LineBreak == << <<>>, <<>> >>

=============================================================================

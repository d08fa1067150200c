---------------------------- MODULE MCTextRegion ----------------------------
(***************************************************************************)
(* TextRegion against a reference: a text is also one string, its lines    *)
(* joined by line breaks, and every edit of it is a splice of that string. *)
(* The states are all the texts of a bounded size that edits reach; each   *)
(* invariant tries every position, interval and piece of data at each.     *)
(***************************************************************************)
EXTENDS TextRegion

CONSTANTS Char, LineBreakChar, MaxLines, MaxLength

VARIABLE text

Strings(n) == UNION { [1..m -> Char] : m \in 0..n }
Texts == UNION { [1..n -> Strings(MaxLength)] : n \in 1..MaxLines }
Data == UNION { [1..n -> Strings(1)] : n \in 1..3 }

Positions == { Cursor(x, y) : x \in 0..MaxLength, y \in 0..MaxLines - 1 }
InText(pos) == LineExists(text, pos.y) /\ ColumnExists(text, pos)

(* The intervals the code builds: they do not end before they begin.       *)
Ordered(p, q) == p.y < q.y \/ (p.y = q.y /\ p.x <= q.x)
Intervals ==
    { bi \in { Interval(from, to, open) : from \in Positions, to \in Positions, open \in BOOLEAN } :
        /\ InText(bi.from) /\ InText(EndCursor(bi))
        /\ Ordered(bi.from, EndCursor(bi)) }

Init == text = << <<>> >>

Insert == \E pos \in Positions, data \in Data :
            /\ InText(pos)
            /\ text' = InsertRegion(text, pos, data)
Delete == \E bi \in Intervals : text' = DeleteRegion(text, bi)

Next == (Insert \/ Delete) /\ text' \in Texts

Spec == Init /\ [][Next]_text

-----------------------------------------------------------------------------
(* The reference.                                                          *)
Flat(t) == FoldLeft(LAMBDA s, l : s \o << LineBreakChar >> \o l, t[1], Tail(t))
Offset(t, pos) == Len(Flat(Append(SubSeq(t, 1, pos.y), <<>>))) + pos.x

(* insertRegion inserts the data at the position, as one splice of the     *)
(* text, and returns the position after it.                                *)
InsertIsSplice ==
    \A pos \in Positions, data \in Data : InText(pos) =>
        LET t == InsertRegion(text, pos, data)
            k == Offset(text, pos)
        IN  /\ Flat(t) = SubSeq(Flat(text), 1, k) \o Flat(data)
                         \o SubSeq(Flat(text), k + 1, Len(Flat(text)))
            /\ Offset(t, AfterInsert(pos, data)) = k + Len(Flat(data))

(* deleteRegion cuts the interval out of the text, and dataRegion copies   *)
(* out what it cuts.                                                       *)
DeleteIsCut ==
    \A bi \in Intervals :
        LET from == Offset(text, bi.from)
            to == Offset(text, EndCursor(bi))
            flat == Flat(text)
        IN  /\ Flat(DeleteRegion(text, bi)) = SubSeq(flat, 1, from) \o SubSeq(flat, to + 1, Len(flat))
            /\ Flat(DataRegion(text, bi)) = SubSeq(flat, from + 1, to)

(* What undo relies on: the interval insertRegion records, deleted, takes  *)
(* the insertion back, and holds the data, for redo.                       *)
InsertIsUndone ==
    \A pos \in Positions, data \in Data : InText(pos) =>
        LET t == InsertRegion(text, pos, data)
            bi == OpenInterval(pos, AfterInsert(pos, data))
        IN  DeleteRegion(t, bi) = text /\ DataRegion(t, bi) = data

(* And the data dataRegion took, inserted where the interval began, takes  *)
(* the deletion back: exactly so inside the text, and with an empty line at*)
(* the end when the interval went beyond the last line, as those of        *)
(* deleteLine and clearText do.                                            *)
BeyondText ==
    { OpenInterval(from, Cursor(0, LineCount(text))) :
        from \in { p \in Positions : InText(p) } }
Undeleted(bi) == InsertRegion(DeleteRegion(text, bi), bi.from, DataRegion(text, bi))

DeleteIsUndone ==
    /\ \A bi \in Intervals : Undeleted(bi) = text
    /\ \A bi \in BeyondText : Undeleted(bi) = Append(text, <<>>)

(* deleteLine removes one line and leaves the others, whichever it is; an  *)
(* only line becomes empty.                                                *)
DeleteLineRemoves ==
    \A line \in 0..LineCount(text) - 1 :
        DeleteRegion(text, LineInterval(text, line)) =
            IF LineCount(text) = 1 THEN << <<>> >> ELSE RemoveAt(text, line + 1)

(* insertLine before any line but the first adds the line and changes no   *)
(* other.                                                                  *)
InsertLineAdds ==
    \A line \in 1..LineCount(text), l \in Strings(1) :
        InsertRegion(text, NewLinePosition(text, line), NewLineData(line, l))
            = InsertAt(text, line + 1, l)

(* A call of insertRegion, deleteRegion, dataRegion, deleteLine or         *)
(* insertLine is one splice of the text, wherever it is.                   *)
EditsAreSplices == InsertIsSplice /\ DeleteIsCut /\ DeleteLineRemoves /\ InsertLineAdds

(* The opposite recorded for undo takes an edit back.                      *)
EditsAreUndone == InsertIsUndone /\ DeleteIsUndone

=============================================================================

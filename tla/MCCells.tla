------------------------------ MODULE MCCells ------------------------------
(***************************************************************************)
(* One or two short lines, with tabs, in two colours, drawn on a screen of *)
(* a few columns: all of it follows from the lines and the option list.    *)
(***************************************************************************)
EXTENDS Cells

CONSTANTS Letter, Columns, Tabstop, MaxChars, MaxPair

VARIABLES lines, list

Characters == [char : {Letter, Tab}, colour : {"red", "green"}]
Chars == SumOf(Len, lines)

Type ==
    /\ Chars < IF Len(lines) = 1 THEN MaxChars ELSE MaxPair
    /\ \E n \in 1..Len(lines), c \in Characters : lines' = [lines EXCEPT ![n] = Append(@, c)]
Open == Len(lines) = 1 /\ Chars < MaxPair /\ lines' = Append(lines, <<>>)

Init == lines = << <<>> >> /\ list \in BOOLEAN
Next == (Type \/ Open) /\ UNCHANGED list
Spec == Init /\ [][Next]_<< lines, list >>

-----------------------------------------------------------------------------
Drawing(n) == DrawLine(lines[n], Tabstop, list)
Section(n) == Arrange(Drawing(n), Columns)
Sections == [n \in 1..Len(lines) |-> Section(n)]

Content(row) == FlattenSeq([i \in DOMAIN row |-> row[i].content])
Looks(row) == FlattenSeq([i \in DOMAIN row |-> [k \in 1..Width(row[i]) |-> row[i].look]])
MarksOf(row) == FlattenSeq([i \in DOMAIN row |-> [k \in 1..Width(row[i]) |-> row[i].marked]])
AllRows(Of(_), section) == FlattenSeq([r \in DOMAIN section |-> Of(section[r])])

(* arrange() cuts a cell once.  The lines without a wider one, and those   *)
(* of which no tab is cut.                                                 *)
Narrow(n) == \A i \in DOMAIN Drawing(n) : Width(Drawing(n)[i]) <= Columns
WholeTabs(n) == \A r \in DOMAIN Section(n), i \in 1..2 :
                  i <= Len(Section(n)[r]) => Section(n)[r][i].shift = 0

(* A line arranged is the line drawn, in rows that fit the screen.         *)
RowsAreTheLine ==
    \A n \in DOMAIN lines : Narrow(n) =>
        /\ \A r \in DOMAIN Section(n) : RowWidth(Section(n)[r]) <= Columns
        /\ AllRows(Content, Section(n)) = Content(Drawing(n))
        /\ AllRows(Looks, Section(n)) = Looks(Drawing(n))

(* Going to a position and to the column where it is drawn is the same, in *)
(* every row; behind the last character there is one more position, for the*)
(* modes that edit only.                                                   *)
CursorsAgree ==
    \A n \in DOMAIN lines : Narrow(n) /\ WholeTabs(n) =>
        LET section == Section(n)
            steps == FlattenSeq([i \in DOMAIN Drawing(n) |-> Drawing(n)[i].steps])
            column(p) == Sum(SubSeq(steps, 1, p))
            length == Len(lines[n])
        IN  /\ \A p \in 0..length - 1, edits \in BOOLEAN :
                 /\ ViewCursorFromLinePosition(section, p, edits, Columns) = ViewCursor(p, column(p))
                 /\ ViewCursorFromLineColumn(section, column(p), edits, Columns) = ViewCursor(p, column(p))
            /\ \A p \in length..length + 1 :
                 /\ ViewCursorFromLinePosition(section, p, TRUE, Columns).position = length
                 /\ ViewCursorFromLinePosition(section, p, FALSE, Columns).position
                      = NotNegative(length - 1)

-----------------------------------------------------------------------------
AllNarrow == \A n \in DOMAIN lines : Narrow(n)
Before(p, q) == p.y < q.y \/ (p.y = q.y /\ p.x <= q.x)

(* What the cells drawn make of a screen: one of content overwrites, one of*)
(* the end of a line clears the rest of its row.                           *)
Screen == FlattenSeq(Sections)
Place == { Cursor(x, y) : x \in 0..Columns - 1, y \in 0..Len(Screen) - 1 }
Old == << "old", "old" >>
Cleared == << "EOL", "EOL" >>

DrawCell(screen, drawn) ==
    [p \in Place |->
        IF p.y # drawn.pos.y \/ p.x < drawn.pos.x THEN screen[p]
        ELSE IF drawn.cell = EOL THEN Cleared
        ELSE IF p.x < drawn.pos.x + Width(drawn.cell)
        THEN << drawn.cell.content[p.x - drawn.pos.x + 1], drawn.cell.look >>
        ELSE screen[p]]

Shown(p) ==
    LET row == Screen[p.y + 1]
    IN  IF p.x < RowWidth(row) THEN << Content(row)[p.x + 1], Looks(row)[p.x + 1] >> ELSE Cleared

(* Painting an interval draws what is in it as it is, and nothing else; of *)
(* a row it ends in, the rest may be cleared when it is behind the line.   *)
MayBe(shown, p, from, to) ==
    IF Before(from, p) /\ Before(p, to) THEN {shown}
    ELSE IF p.y = to.y /\ Before(to, p) /\ shown = Cleared THEN {Old, Cleared}
    ELSE {Old}

PaintsAll(sections, shown, places) ==
    \A from, to \in places : Before(from, to) =>
      \E painted \in { FoldLeft(DrawCell, [p \in places |-> Old],
                                CellsPainted(sections, ClosedInterval(from, to), Columns)) } :
        \A p \in places : painted[p] \in MayBe(shown[p], p, from, to)

PaintsTheInterval == AllNarrow => PaintsAll(Sections, [p \in Place |-> Shown(p)], Place)

-----------------------------------------------------------------------------
Positions == UNION { { Cursor(x, n - 1) : x \in 0..Len(lines[n]) - 1 } : n \in DOMAIN lines }

(* The position each column of a line belongs to.                          *)
PositionOf(n) ==
    LET steps == FlattenSeq([k \in DOMAIN Drawing(n) |-> Drawing(n)[k].steps])
    IN  FlattenSeq([i \in DOMAIN steps |-> [c \in 1..steps[i] |-> Cursor(i - 1, n - 1)]])

(* Marking a selection that begins at one of some positions marks its      *)
(* columns and no other, and taking the mark away leaves the lines as they were drawn. *)
Selected(positions, i) ==
    [n \in DOMAIN lines |->
        [c \in DOMAIN positions[n] |-> Before(i.from, positions[n][c]) /\ Before(positions[n][c], i.to)]]
MarksOn(sections) == [n \in DOMAIN lines |-> AllRows(MarksOf, sections[n])]
ContentOn(sections) == [n \in DOMAIN lines |-> AllRows(Content, sections[n])]

Same(sections, unmarked) ==
    MarksOn(unmarked) = MarksOn(sections) /\ ContentOn(unmarked) = ContentOn(sections)
MarksRight(sections, positions, i, marked) ==
    MarksOn(marked) = Selected(positions, i) /\ Same(sections, Marked(marked, i, FALSE, Columns))
MarksAll(sections, positions, intervals) ==
    \A i \in intervals : MarksRight(sections, positions, i, Marked(sections, i, TRUE, Columns))

MarksFrom(begins) ==
    AllNarrow /\ (\A n \in DOMAIN lines : WholeTabs(n)) =>
      MarksAll(Sections, [n \in DOMAIN lines |-> PositionOf(n)],
               { i \in { ClosedInterval(from, to) : from \in begins, to \in Positions } : Before(i.from, i.to) })

(* addSelection and delSelection, of a selection that begins at the        *)
(* beginning of a line.                                                    *)
MarksTheSelection == MarksFrom({ from \in Positions : from.x = 0 })

(* The same, wherever it begins.                                           *)
MarksAnySelection == MarksFrom(Positions)
=============================================================================

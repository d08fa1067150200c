------------------------------- MODULE Cells -------------------------------
(***************************************************************************)
(* Lines as they are drawn (src/libyzis/drawcell.cpp, drawline.cpp,        *)
(* drawbuffer.cpp, drawbufferiterators.cpp and view.cpp).                  *)
(*                                                                         *)
(* A character of a line takes one or, a tab, several columns: a step.  A  *)
(* cell is a run of characters of one colour, with its content as drawn    *)
(* and its steps; a row of the screen is a sequence of cells, a section the*)
(* rows of one line.  Where a row ends inside a tab, the next one begins   *)
(* with the rest of it: `shift' columns that belong to no step.            *)
(* Positions (characters), columns, rows and cells count from 0.           *)
(***************************************************************************)
EXTENDS TextRegion

CONSTANTS Tab, Blank

Sum(sizes) == FoldLeft(+, 0, sizes)
SumOf(Size(_), seq) == Sum([i \in DOMAIN seq |-> Size(seq[i])])

-----------------------------------------------------------------------------
(* YDrawCell.                                                              *)
NewCell(look) == [content |-> <<>>, steps |-> <<>>, shift |-> 0, look |-> look, marked |-> FALSE]

Width(cell) == Len(cell.content)
Length(cell) == Len(cell.steps)

Step(cell, data) == [cell EXCEPT !.content = @ \o data, !.steps = Append(@, Len(data))]

(* The columns of its first characters (without the shift), and the number *)
(* of characters that reach to a column.                                   *)
WidthForLength(cell, length) == Sum(SubSeq(cell.steps, 1, length))
LengthForWidth(cell, width) ==
    CHOOSE l \in 0..Length(cell) :
      /\ cell.shift + WidthForLength(cell, l) >= width
      /\ \A k \in 0..l - 1 : cell.shift + WidthForLength(cell, k) < width

LeftSteps(cell, steps) ==
    IF steps >= Length(cell) THEN cell
    ELSE [cell EXCEPT !.steps = SubSeq(@, 1, steps),
                      !.content = Left(@, cell.shift + WidthForLength(cell, steps))]

MidSteps(cell, steps) ==
    IF steps = 0 THEN cell
    ELSE [cell EXCEPT !.shift = 0, !.steps = Mid(@, steps),
                      !.content = Mid(@, cell.shift + WidthForLength(cell, steps))]

(* left and mid cut at a column: the step the cut goes through is cut to   *)
(* what is left of it, and to a shift.                                     *)
LeftCell(cell, column) ==
    LET Take(done, s) ==
          IF done.rest = 0 THEN done
          ELSE IF s > done.rest THEN [steps |-> Append(done.steps, done.rest), rest |-> 0]
          ELSE [steps |-> Append(done.steps, s), rest |-> done.rest - s]
    IN  IF column >= Width(cell) THEN cell
        ELSE [cell EXCEPT !.content = Left(@, column),
                          !.steps = FoldLeft(Take, [steps |-> <<>>, rest |-> column], @).steps]

MidCell(cell, column) ==
    LET Drop(done, s) ==
          IF done.rest = 0 THEN [done EXCEPT !.steps = Append(@, s)]
          ELSE IF s > done.rest THEN [done EXCEPT !.shift = s - done.rest, !.rest = 0]
          ELSE [done EXCEPT !.rest = @ - s]
        kept == FoldLeft(Drop, [steps |-> <<>>, shift |-> cell.shift, rest |-> column], cell.steps)
    IN  IF column <= 0 THEN cell
        ELSE [cell EXCEPT !.content = Mid(@, column), !.steps = kept.steps, !.shift = kept.shift]

-----------------------------------------------------------------------------
(* YView::drawLineFromYLine, and the cells YDrawLine::step makes: a new one*)
(* where the colour changes.  A character of the line is [char, colour];   *)
(* with the option list, blanks and tabs are shown, in a colour of theirs. *)
Trailing(data, i) == \A k \in i..Len(data) : data[k].char \in {Tab, Blank}
Look(data, i, list) == IF list /\ data[i].char \in {Tab, Blank} THEN "blue" ELSE data[i].colour

Drawn(data, i, column, tabstop, list) ==
    LET c == data[i].char
        fill == IF list THEN "-" ELSE Blank
    IN  IF c = Tab THEN [k \in 1..tabstop - (column % tabstop) |-> IF list /\ k = 1 THEN ">" ELSE fill]
        ELSE IF c = Blank /\ list THEN << IF Trailing(data, i) THEN "." ELSE "_" >>
        ELSE << c >>

DrawLine(data, tabstop, list) ==
    LET Draw(cells, i) ==
          LET look == Look(data, i, list)
              starts == i = 1 \/ look # Look(data, i - 1, list)
              row == IF starts THEN Append(cells, NewCell(look)) ELSE cells
          IN  [row EXCEPT ![Len(row)] = Step(@, Drawn(data, i, SumOf(Width, cells), tabstop, list))]
    IN  FoldLeft(Draw, <<>>, [i \in 1..Len(data) |-> i])

(* YDrawLine::arrange: rows of as many columns.  A cell is cut once: what  *)
(* is too wide for a row of its own stays so.                              *)
ArrangeWhole(line, columns) ==  \* Slip: a cell is not cut
    LET Place(done, cell) ==
          IF done.width + Width(cell) <= columns
          THEN [done EXCEPT !.row = Append(@, cell), !.width = @ + Width(cell)]
          ELSE [rows |-> Append(done.rows, done.row), row |-> << cell >>, width |-> Width(cell)]
        end == FoldLeft(Place, [rows |-> <<>>, row |-> <<>>, width |-> 0], line)
    IN  Append(end.rows, end.row)

Arrange(line, columns) ==
    LET Place(done, cell) ==
          LET rest == columns - done.width
              right == MidCell(cell, rest)
              full == IF rest = 0 THEN done.row ELSE Append(done.row, LeftCell(cell, rest))
          IN  IF Width(cell) <= rest
              THEN [done EXCEPT !.row = Append(@, cell), !.width = @ + Width(cell)]
              ELSE [rows |-> Append(done.rows, full), row |-> << right >>, width |-> Width(right)]
        end == FoldLeft(Place, [rows |-> <<>>, row |-> <<>>, width |-> 0], line)
    IN  Append(end.rows, end.row)

-----------------------------------------------------------------------------
RowWidth(row) == SumOf(Width, row)
RowLength(row) == SumOf(Length, row)

(* Which of several adjacent things of these sizes holds the n-th unit, and*)
(* where in it: the last one, and its last unit, if there are not as many. *)
Located(sizes, n, index) ==
    LET before == Sum(SubSeq(sizes, 1, index))
        size == sizes[index + 1]
    IN  [index |-> index, before |-> before, shift |-> IF before + size > n THEN n - before ELSE size - 1]

Locate(sizes, n) ==
    IF sizes = <<>> THEN [index |-> 0, before |-> 0, shift |-> -1]
    ELSE Located(sizes, n, CHOOSE i \in 0..Len(sizes) - 1 :
                             /\ Sum(SubSeq(sizes, 1, i + 1)) > n \/ i = Len(sizes) - 1
                             /\ \A k \in 0..i - 1 : Sum(SubSeq(sizes, 1, k + 1)) <= n)

Widths(row) == [i \in DOMAIN row |-> Width(row[i])]
Lengths(row) == [i \in DOMAIN row |-> Length(row[i])]

(* targetBufferColumn: the cell of a position of the line, or of its last  *)
(* one; targetScreenColumn: the cell of a column of a row.                 *)
TargetCell(at, row, in, columns) ==
    [lid |-> at.index, cid |-> in.index, shift |-> in.shift,
     position |-> at.before + in.before + in.shift,
     column |-> at.index * columns + RowWidth(SubSeq(row, 1, in.index))
                + IF row = <<>> THEN 0 ELSE WidthForLength(row[in.index + 1], in.shift)]

TargetRow(position, at, row, columns) ==
    TargetCell(at, row, Locate(Lengths(row), position - at.before), columns)

TargetSection(position, section, at, columns) == TargetRow(position, at, section[at.index + 1], columns)

TargetBufferColumn(position, section, columns) ==
    TargetSection(position, section, Locate([i \in DOMAIN section |-> RowLength(section[i])], position), columns)

TargetColumn(above, row, in) ==
    [cid |-> in.index, shift |-> in.shift, column |-> in.before + in.shift,
     position |-> SumOf(RowLength, above) + RowLength(SubSeq(row, 1, in.index))
                  + IF row = <<>> THEN 0 ELSE LengthForWidth(row[in.index + 1], in.shift)]

TargetScreenColumn(column, section, lid) ==
    TargetColumn(SubSeq(section, 1, lid), section[lid + 1], Locate(Widths(section[lid + 1]), column))

(* viewCursorFromLinePosition and viewCursorFromLineColumn.  In the modes  *)
(* that edit, a cursor may be behind the last character.                   *)
NotNegative(n) == IF n < 0 THEN 0 ELSE n
ViewCursor(position, column) == [position |-> NotNegative(position), column |-> NotNegative(column)]

ViewCursorFromLinePosition(section, position, edits, columns) ==
    LET behind == IF edits /\ SumOf(RowLength, section) > 0 THEN 1 ELSE 0
        at == TargetBufferColumn(position, section, columns)
    IN  IF at.position < position THEN ViewCursor(at.position + behind, at.column + behind)
        ELSE ViewCursor(position, at.column)

ViewCursorFromLineColumn(section, column, edits, columns) ==
    LET isRow == column \div columns < Len(section)
        lid == IF isRow THEN column \div columns ELSE Len(section) - 1
        scol == IF isRow THEN column % columns ELSE columns - 1
        behind == IF edits /\ SumOf(RowLength, section) > 0 THEN 1 ELSE 0
        at == TargetScreenColumn(scol, section, lid)
    IN  IF at.column < scol
        THEN ViewCursor(at.position + behind, lid * columns + at.column + behind)
        ELSE ViewCursor(at.position, column)

-----------------------------------------------------------------------------
(* The iterators over the cells of an interval, of rows and columns of the *)
(* screen (painting, guiPaintEvent) or of lines and positions (marking the *)
(* selection, addSelection).  A cell that the interval begins or ends in is*)
(* cut; marking, it is replaced by its parts.  `sections' are the lines on *)
(* the screen, from its top.                                               *)
TargetLine(row, at) == [sid |-> at.index, lid |-> at.shift, found |-> row = at.before + at.shift]

TargetScreenLine(sections, row) ==
    TargetLine(row, Locate([i \in DOMAIN sections |-> Len(sections[i])], row))

Marks == "marks"  \* the interval is one of the buffer, its cells get marked
Paints == "paints"  \* the interval is one of the screen, its cells get drawn

RowAt(it) == it.sections[it.sid + 1][it.lid + 1]
CellAt(it) == RowAt(it)[it.cid + 1]
SizeOf(it, cell) == IF it.does = Marks THEN Length(cell) ELSE Width(cell)
LeftOf(it, cell, n) == IF it.does = Marks THEN LeftSteps(cell, n) ELSE LeftCell(cell, n)
MidOf(it, cell, n) == IF it.does = Marks THEN MidSteps(cell, n) ELSE MidCell(cell, n)

(* getCut: the part of the cell the interval ends in.                      *)
GetCutBeforeEnd(it) ==  \* Slip: a closed end is taken for an open one
    LET size == SizeOf(it, CellAt(it)) - it.shift
    IN  IF it.pos.y = it.i.to.y /\ it.pos.x + size >= it.i.to.x THEN it.i.to.x - it.pos.x ELSE 0

GetCut(it) ==
    LET end == EndCursor(it.i)
        size == SizeOf(it, CellAt(it)) - it.shift
    IN  IF it.pos.y = it.i.to.y /\ it.pos.x + size >= end.x THEN end.x - it.pos.x ELSE 0

(* setupCell, and what its caller does to the cell: the parts of the cell  *)
(* before the interval, in it and after it.  The parts a marked cell is cut*)
(* into take its place, the one marked becomes the current.                *)
PutParts(it, before, part, after) ==
    IF it.does = Paints
    THEN [it EXCEPT !.out = Append(@, [pos |-> it.pos, cell |-> part])]
    ELSE [it EXCEPT !.cid = @ + Len(before),
                    !.sections[it.sid + 1][it.lid + 1] =
                       SubSeq(@, 1, it.cid) \o before \o << [part EXCEPT !.marked = it.mark] >>
                       \o after \o SubSeq(@, it.cid + 2, Len(@))]

CutAtEnd(it, before, cell, cut) ==
    IF cut = 0 THEN PutParts(it, before, cell, <<>>)
    ELSE PutParts(it, before, LeftOf(it, cell, cut), << MidOf(it, cell, cut) >>)

SetupCell(it) ==
    IF it.shift = 0 THEN CutAtEnd(it, <<>>, CellAt(it), GetCut(it))
    ELSE CutAtEnd(it, << LeftOf(it, CellAt(it), it.shift) >>, MidOf(it, CellAt(it), it.shift), GetCut(it))

EOL == NewCell("EOL")
SetupEOLCell(it) ==
    IF it.does = Paints THEN [it EXCEPT !.out = Append(@, [pos |-> it.pos, cell |-> EOL])] ELSE it

(* setup, at the first cell of the interval.                               *)
SetupFound(it, found) == IF found THEN SetupCell(it) ELSE SetupEOLCell(it)

SetupAt(it, line, at) ==
    SetupFound(it @@ [sid |-> line.sid, lid |-> IF it.does = Paints THEN line.lid ELSE at.lid,
                      cid |-> at.cid, shift |-> at.shift, pos |-> it.i.from],
               it.i.from.x = IF it.does = Paints THEN at.column ELSE at.position)

SetupIn(it, line, section) ==
    SetupAt(it, line, IF it.does = Paints THEN TargetScreenColumn(it.i.from.x, section, line.lid)
                      ELSE TargetBufferColumn(it.i.from.x, section, it.columns))

SetupOn(it, line) ==
    IF line.found THEN SetupIn(it, line, it.sections[line.sid + 1]) ELSE [it EXCEPT !.stopped = TRUE]

Setup(sections, i, does, mark, columns) ==
    SetupOn([sections |-> sections, i |-> i, does |-> does, mark |-> mark, columns |-> columns,
             stopped |-> FALSE, out |-> <<>>],
            IF does = Paints THEN TargetScreenLine(sections, i.from.y)
            ELSE [sid |-> i.from.y, lid |-> 0, found |-> i.from.y < Len(sections)])

(* step: to the next cell, ... *)
Ended(it, pos) ==
    LET to == it.i.to
    IN  pos.y > to.y \/ (pos.y = to.y /\ (pos.x > to.x \/ (it.i.toOpen /\ pos.x = to.x)))

StepTo(it, next) ==
    IF Ended(it, next.pos) THEN [it EXCEPT !.stopped = TRUE]
    ELSE IF next.cid < Len(RowAt(it)) THEN SetupCell(next)
    ELSE IF next.pos.x < it.columns THEN SetupEOLCell(next)
    ELSE next

NextCell(it) ==
    StepTo(it, [it EXCEPT !.pos.x = @ + (IF it.cid < 0 THEN 0 ELSE SizeOf(it, CellAt(it)) - it.shift),
                          !.shift = 0, !.cid = @ + 1])

(* ... or, behind the last one, to the next row: of the line or, if it has *)
(* no more, of the next line.                                              *)
NextRow(it) ==
    IF it.lid + 1 < Len(it.sections[it.sid + 1])
    THEN [it EXCEPT !.lid = @ + 1, !.cid = -1,
                    !.pos = IF it.does = Marks THEN @ ELSE Cursor(0, @.y + 1)]
    ELSE IF it.sid + 1 >= Len(it.sections) THEN [it EXCEPT !.stopped = TRUE]
    ELSE [it EXCEPT !.sid = @ + 1, !.lid = 0, !.cid = -1, !.pos = Cursor(0, @.y + 1)]

StepOn(it, n) ==
    IF it.stopped THEN it
    ELSE IF it.cid >= Len(RowAt(it)) THEN NextRow(it) ELSE NextCell(it)

Iterated(sections, i, does, mark, columns) ==
    LET most == 4 * SumOf(LAMBDA s : SumOf(LAMBDA r : Len(r) + 2, s), sections) + 1
    IN  FoldLeftDomain(StepOn, Setup(sections, i, does, mark, columns), [n \in 1..most |-> n])

(* YDrawBuffer::addSelection, delSelection; the cells guiPaintEvent draws. *)
Marked(sections, i, mark, columns) == Iterated(sections, i, Marks, mark, columns).sections
CellsPainted(sections, i, columns) == Iterated(sections, i, Paints, FALSE, columns).out
=============================================================================

------------------------------- MODULE Screen -------------------------------
(***************************************************************************)
(* What a view shows of its buffer: the cache of drawn lines (YDrawBuffer, *)
(* src/libyzis/drawbuffer.cpp), the paint events the view collects while a *)
(* command runs (view.cpp), and the rows the text front end has on its     *)
(* terminal (src/nyzis/nyview.cpp).  A line of text is abstract: what      *)
(* matters of it is how many rows it takes (LineHeight) and whether it is  *)
(* marked as selected.  Edits are those of another module: here only the   *)
(* interval of lines they ask the views to update.  The text may also be   *)
(* edited in another view of the same buffer.                              *)
(***************************************************************************)
EXTENDS Integers, Sequences, SequencesExt

CONSTANTS
  Lines,        \* what a line of text can be
  LineHeight,   \* the rows it takes
  Heights,      \* the heights the window can have
  Texts,        \* bound: the texts, sequences of lines
  MaxLevel      \* bound: paint suspensions left behind

Nothing == "nothing"    \* what yzline returns for a line that does not exist
Fake == "~"
NoLine == -1
NoInterval == << 0, -1 >>

ASSUME ScreenAssumption ==
    /\ Nothing \notin Lines
    /\ DOMAIN LineHeight = Lines
    /\ Heights \subseteq Nat \ {0}
    /\ \A l \in Lines, h \in Heights : LineHeight[l] \in 1..h
    /\ Texts \subseteq Seq(Lines) \ {<<>>}
    /\ MaxLevel \in Nat

VARIABLES
  text,    \* YBuffer's lines
  view     \* the view: see ViewType

vars == << text, view >>

(* The lines and rows of a, b with a before b; the least and the greatest. *)
Least(a, b) == IF a < b THEN a ELSE b
Greatest(a, b) == IF a > b THEN a ELSE b

(***************************************************************************)
(* The cache: content[1] is line first of the buffer.                      *)
(***************************************************************************)
SectionOf(t, bl) ==
    [line |-> IF bl < Len(t) THEN t[bl + 1] ELSE Nothing, marked |-> FALSE]
SectionsOf(t, from, to) ==
    [i \in 1..Greatest(to - from + 1, 0) |-> SectionOf(t, from + i - 1)]
Count(section) == IF section.line = Nothing THEN 1 ELSE LineHeight[section.line]

LastBufferLine(v) == v.first + Len(v.content) - 1
Section(v, bl) == v.content[bl - v.first + 1]

(* The rows of the cached lines from a up to b, b not included.            *)
RowsBetween(v, a, b) ==
    LET last == Least(b, LastBufferLine(v) + 1)
        rows[bl \in Least(a, last)..last] ==
          IF bl >= last THEN 0 ELSE Count(Section(v, bl)) + rows[bl + 1]
    IN  IF a < last THEN rows[a] ELSE 0
BufferDrawSectionScreenLine(v, bl) == RowsBetween(v, v.top, bl)

(* The code stops counting when the window is full.                        *)
CurrentHeight(v) == RowsBetween(v, v.top, LastBufferLine(v) + 1)
Full(v) == CurrentHeight(v) >= v.height
ScreenBottomBufferLine(v) ==
    IF ~Full(v) THEN LastBufferLine(v)
    ELSE CHOOSE bl \in v.top..LastBufferLine(v) :
           /\ RowsBetween(v, v.top, bl + 1) >= v.height
           /\ RowsBetween(v, v.top, bl) < v.height

(* Lines asked for are added to the cache, at its front or at its end.  A  *)
(* line that does not exist is a null pointer: drawing it ends the program.*)
TargetBufferLine(t, v, bl) ==
    LET before == SectionsOf(t, bl, v.first - 1)
        after == SectionsOf(t, LastBufferLine(v) + 1, bl)
        w == [v EXCEPT !.content = before \o @ \o after, !.first = Least(@, bl)]
    IN  [w EXCEPT !.dead = @ \/ \E s \in Range(before \o after) : s.line = Nothing]

(* What is not on the screen is dropped, but for what lies between the     *)
(* screen and the line where a selection started.                          *)
Squeeze(v) ==
    LET from == IF v.start = NoLine THEN v.top ELSE Least(v.top, v.start)
        to == Greatest(ScreenBottomBufferLine(v), v.start)
    IN  [v EXCEPT !.content = SubSeq(@, Greatest(from - v.first + 1, 1),
                                        Least(to - v.first + 1, Len(@))),
                  !.first = from]

(***************************************************************************)
(* Painting.  pending holds the rows to paint once no one suspends it.     *)
(***************************************************************************)
Row(line, part, marked) == << line, part, marked >>
DrawnRows(v) ==
    LET rows[bl \in v.top..LastBufferLine(v) + 1] ==
          IF bl > LastBufferLine(v) THEN <<>>
          ELSE [i \in 1..Count(Section(v, bl)) |->
                  Row(Section(v, bl).line, i - 1, Section(v, bl).marked)] \o rows[bl + 1]
    IN  IF v.top > LastBufferLine(v) THEN <<>> ELSE rows[v.top]
RowDrawn(drawn, r) == IF r < Len(drawn) THEN drawn[r + 1] ELSE Row(Fake, 0, FALSE)
Shown(v) == LET drawn == DrawnRows(v) IN [r \in 0..v.height - 1 |-> RowDrawn(drawn, r)]

GuiPaintEvent(v, rows) ==
    LET drawn == DrawnRows(v)
    IN  IF rows = {} THEN v
        ELSE [v EXCEPT !.screen = [r \in DOMAIN @ |-> IF r \in rows THEN RowDrawn(drawn, r) ELSE @[r]]]

SetPaintAutoCommitOff(v) == [v EXCEPT !.level = @ + 1]
CommitPaintEvent(v) ==
    IF v.level <= 1
    THEN [GuiPaintEvent(v, v.pending) EXCEPT !.pending = {}, !.level = 0]
    ELSE [v EXCEPT !.level = @ - 1]
SendPaintEvent(v, rows) ==
    CommitPaintEvent([SetPaintAutoCommitOff(v)
        EXCEPT !.pending = @ \cup (rows \cap 0..v.height - 1)])
SendRefreshEvent(v) == SendPaintEvent([v EXCEPT !.pending = {}], 0..v.height - 1)

(* NYView::guiScroll: the terminal moves its rows, the new ones are drawn. *)
GuiScrollNothingNew(v, dy) ==  \* Slip: the rows scrolled in are not drawn
    [v EXCEPT !.screen = [r \in DOMAIN @ |->
        IF r + dy \in DOMAIN @ THEN @[r + dy] ELSE Row(Fake, 0, FALSE)]]
GuiScroll(v, dy) ==
    LET new == IF dy > 0 THEN v.height - dy..v.height - 1 ELSE 0..-dy - 1
        moved == [v EXCEPT !.screen = [r \in DOMAIN @ |->
                    IF r + dy \in DOMAIN @ THEN @[r + dy] ELSE Row(Fake, 0, FALSE)]]
    IN  IF dy >= v.height THEN GuiPaintEvent(v, 0..v.height - 1) ELSE GuiPaintEvent(moved, new)

(***************************************************************************)
(* Updating the lines an edit has changed.                                 *)
(***************************************************************************)
SetBufferDrawSection(t, v, bl) ==
    LET at == bl - v.first + 1
        new == SectionOf(t, bl)
        delta == IF at > Len(v.content) THEN 0 ELSE Count(new) - Count(v.content[at])
        w == [v EXCEPT !.content = IF at > Len(@) THEN Append(@, new) ELSE [@ EXCEPT ![at] = new]]
        row == BufferDrawSectionScreenLine(w, bl)
        affected == IF bl < v.top \/ row >= v.height THEN {}
                    ELSE IF delta # 0 THEN row..v.height - 1
                    ELSE row..row + Count(new) - 1
    IN  [view |-> w, affected |-> affected]

SetBufferLineContent(t, v, bl) ==
    LET set == SetBufferDrawSection(t, v, bl)
    IN  [view |-> IF set.affected = {} THEN set.view ELSE SendPaintEvent(set.view, set.affected),
         more |-> bl < v.top \/ set.affected # {}]

DeleteFromBufferLine(v, bl) ==
    LET kept == SubSeq(v.content, 1, bl - v.first)
        row == BufferDrawSectionScreenLine(v, bl)
        gone == RowsBetween(v, bl, LastBufferLine(v) + 1)
    IN  IF bl > LastBufferLine(v) THEN v
        ELSE IF bl < v.top \/ row >= v.height THEN [v EXCEPT !.content = kept]
        ELSE SendPaintEvent([v EXCEPT !.content = kept], row..row + gone - 1)

(* Every changed line from the first cached one, up to the first below the *)
(* screen.                                                                 *)
UpdateOneLine(t, v, from, last) ==  \* Slip: only the first of the lines
    IF from > Least(last, Len(t) - 1) THEN v ELSE SetBufferLineContent(t, v, from).view
UpdateLine(t, updated, bl) ==
    IF updated.more THEN SetBufferLineContent(t, updated.view, bl) ELSE updated
UpdateLines(t, v, from, last) ==
    LET count == Greatest(Least(last, Len(t) - 1) - from + 1, 0)
        updated[k \in 0..count] ==
          IF k = 0 THEN [view |-> v, more |-> TRUE]
          ELSE UpdateLine(t, updated[k - 1], from + k - 1)
    IN  updated[count].view

UpdateNotResumed(t, v, bl, last) ==  \* Slip: the early return is taken too late
    LET s == Squeeze(v)
        u == SetPaintAutoCommitOff(s)
        d == IF last >= Len(t) THEN DeleteFromBufferLine(u, Len(t)) ELSE u
    IN  IF s.first > last \/ LastBufferLine(s) + (IF Full(s) THEN 0 ELSE 1) < bl THEN u
        ELSE CommitPaintEvent(UpdateLines(t, d, Greatest(bl, s.first), last))
UpdateBufferInterval(t, v, bl, last) ==
    LET s == Squeeze(v)
        u == SetPaintAutoCommitOff(s)
        d == IF last >= Len(t) THEN DeleteFromBufferLine(u, Len(t)) ELSE u
    IN  IF s.first > last \/ LastBufferLine(s) + (IF Full(s) THEN 0 ELSE 1) < bl THEN s
        ELSE CommitPaintEvent(UpdateLines(t, d, Greatest(bl, s.first), last))

(***************************************************************************)
(* Scrolling.  Each operator gives the view with its new top line and the  *)
(* rows by which the screen moves, 0 when it does not scroll.              *)
(***************************************************************************)
Scrolled(v, dy) == [view |-> v, dy |-> dy]

(* The least line from which the lines up to bl fit in the window.         *)
TopShowing(v, bl) ==
    LET fits(top) == RowsBetween(v, top, bl + 1) <= v.height
    IN  CHOOSE top \in v.first..bl : fits(top) /\ (top = v.first \/ ~fits(top - 1))

ScrollForLineTop(t, v, bl) ==  \* Slip: a line below the screen becomes the top one
    LET w == TargetBufferLine(t, v, bl)
    IN  IF bl < w.top THEN Scrolled([w EXCEPT !.top = bl], -RowsBetween(w, bl, w.top))
        ELSE IF bl > ScreenBottomBufferLine(w) + 1
        THEN Scrolled([w EXCEPT !.top = bl], RowsBetween(w, w.top, bl))
        ELSE Scrolled(w, 0)
ScrollForViewCursor(t, v, bl) ==
    LET w == TargetBufferLine(t, v, bl)
        top == TopShowing(w, bl)
        beyond == w.top > LastBufferLine(w) + 1  \* rows are read behind the cache
    IN  IF bl < w.top
        THEN Scrolled([w EXCEPT !.top = bl, !.dead = @ \/ beyond], -RowsBetween(w, bl, w.top))
        ELSE IF bl > ScreenBottomBufferLine(w)
        THEN Scrolled([w EXCEPT !.top = top], RowsBetween(w, w.top + 1, top + 1))
        ELSE Scrolled(w, 0)

FillLine(t, v, bl) == IF Full(v) THEN v ELSE TargetBufferLine(t, v, bl)
Fill(t, v) ==
    LET next == LastBufferLine(v) + 1
        count == Greatest(Len(t) - next, 0)
        filled[k \in 0..count] ==
          IF k = 0 THEN v ELSE FillLine(t, filled[k - 1], next + k - 1)
    IN  filled[count]

ScrollLineToTop(t, v, bl) ==
    LET w == TargetBufferLine(t, v, bl)
        dy == IF bl < v.top THEN -RowsBetween(w, bl, w.top) ELSE RowsBetween(w, w.top, bl)
        moved == [w EXCEPT !.top = bl]
    IN  Scrolled(IF bl > v.top THEN Fill(t, moved) ELSE moved, dy)

(* The line is put on top that leaves bl with room rows above it, or fewer,*)
(* the last line taken may go beyond by slack.  Each line looked at gets   *)
(* into the cache.                                                         *)
ScrollLineBelow(t, v, bl, room, slack) ==
    LET all == TargetBufferLine(t, v, 0)
        above(top) == RowsBetween(all, top, bl)
        fits(top) == /\ above(top) <= room + slack
                     /\ \A l \in top + 1..bl : above(l) < room
        top == CHOOSE l \in 0..bl : fits(l) /\ (l = 0 \/ ~fits(l - 1))
        seen == IF top = 0 \/ above(top) >= room THEN top ELSE top - 1
    IN  ScrollLineToTop(t, TargetBufferLine(t, v, seen), top)

ScrollLineToBottom(t, v, bl) ==
    LET w == TargetBufferLine(t, v, bl)
    IN  ScrollLineBelow(t, w, bl, v.height - Count(Section(w, bl)), 0)

ScrollLineToCenter(t, v, bl) ==
    ScrollLineBelow(t, TargetBufferLine(t, v, bl), bl, (v.height \div 2) - 1 + (v.height % 2), 1)

(* YView::scrollLineTo...: the screen follows.                             *)
Follow(s) == IF s.dy = 0 THEN s.view ELSE GuiScroll(Squeeze(s.view), s.dy)

(***************************************************************************)
(* The selection of the visual modes, from the line they were entered in   *)
(* to the cursor's.  selected is what the view remembers of it, also after *)
(* the mode is left.                                                       *)
(***************************************************************************)
MarkLines(t, v, interval, marked) ==
    LET w == TargetBufferLine(t, v, interval[1])
        last == Least(interval[2], LastBufferLine(w))
        lines == interval[1]..interval[2]
        first == BufferDrawSectionScreenLine(w, interval[1])
        rows == first..BufferDrawSectionScreenLine(w, last) + 1
    IN  SendPaintEvent([w EXCEPT !.content =
            [i \in DOMAIN @ |-> IF w.first + i - 1 \in lines
                                THEN [@[i] EXCEPT !.marked = marked] ELSE @[i]]], rows)

SetSelectionOver(t, v, interval) ==  \* Slip: the old selection keeps its marks
    LET s == SetPaintAutoCommitOff(v)
    IN  IF interval = NoInterval THEN CommitPaintEvent(s)
        ELSE CommitPaintEvent(MarkLines(t, [s EXCEPT !.selected = interval], interval, TRUE))
SetSelection(t, v, interval) ==
    LET s == SetPaintAutoCommitOff(v)
        d == IF v.selected = NoInterval THEN s ELSE MarkLines(t, s, v.selected, FALSE)
    IN  IF interval = NoInterval THEN CommitPaintEvent(d)
        ELSE CommitPaintEvent(MarkLines(t, [d EXCEPT !.selected = interval], interval, TRUE))

CursorMoved(t, v) ==
    IF v.start = NoLine THEN v
    ELSE SetSelection(t, v, << Least(v.start, v.cursor), Greatest(v.start, v.cursor) >>)

EnterVisual(t, v) == CursorMoved(t, [v EXCEPT !.start = v.cursor])
LeaveVisual(t, v) == [SetSelection(t, v, NoInterval) EXCEPT !.start = NoLine]

GotoLine(t, v, bl) ==
    LET s == ScrollForViewCursor(t, [v EXCEPT !.cursor = bl], bl)
    IN  CursorMoved(t, Follow(s))

RecalcScreen(t, v) ==
    LET s == SetPaintAutoCommitOff(v)
        u == UpdateBufferInterval(t, s, 0, Len(t) - 1)
    IN  CommitPaintEvent(GotoLine(t, SendRefreshEvent(u), v.cursor))

(***************************************************************************)
(* Commands.  YSession::sendKey suspends painting while a key is handled.  *)
(***************************************************************************)
Begin == SetPaintAutoCommitOff(view)
Ended(v) == CommitPaintEvent(v)

Alive == ~view.dead
InText == view.cursor < Len(text)
Visual == view.start # NoLine
Command == Alive /\ InText
BufferLines == 0..Len(text) - 1

Shows(v) == UNCHANGED text /\ view' = Ended(v)

(* A motion of the text, and H, L and M of the window.                     *)
MoveTo == Alive /\ \E bl \in BufferLines : Shows(GotoLine(text, Begin, bl))
FromTop(v, count) == Least(v.top + count - 1, ScreenBottomBufferLine(v))
FromBottom(v, count) == Greatest(ScreenBottomBufferLine(v) - count + 1, v.top)
Center(v) == (v.top + ScreenBottomBufferLine(v)) \div 2
MoveInWindow ==
    /\ Command
    /\ \E count \in 1..2 :
       \E bl \in {FromTop(view, count), FromBottom(view, count), Center(view)} :
          /\ bl \in BufferLines
          /\ Shows(GotoLine(text, Begin, bl))

ScrollPageUp ==
    /\ Command
    /\ LET bl == Least(view.top + 1, Len(text) - 1)
       IN  Shows(GotoLine(text, Follow(ScrollLineToBottom(text, Begin, bl)), bl))
ScrollPageDown ==
    /\ Command
    /\ LET bl == Greatest(ScreenBottomBufferLine(view) - 1, 0)
       IN  Shows(GotoLine(text, Follow(ScrollLineToTop(text, Begin, bl)), bl))

(* YView::viewCursorFromScreen.                                            *)
NearestOnScreen(v) ==
    IF v.cursor < v.top THEN v.top
    ELSE IF v.cursor > ScreenBottomBufferLine(v) THEN ScreenBottomBufferLine(v) ELSE v.cursor
ScrollLine(bl) ==
    LET v == Follow(ScrollLineToTop(text, Begin, bl))
    IN  Shows(GotoLine(text, v, NearestOnScreen(v)))
ScrollLineUp == Command /\ ScrollLine(Greatest(view.cursor - 1, 0))
ScrollLineDown == Command /\ ScrollLine(Least(view.cursor + 1, Len(text) - 1))

GotoLineAtTop ==
    /\ Command
    /\ \E bl \in BufferLines :
          Shows(GotoLine(text, Follow(ScrollLineToTop(text, Begin, bl)), bl))
GotoLineAtCenter ==
    /\ Command
    /\ \E bl \in BufferLines :
          Shows(GotoLine(text, Follow(ScrollLineToCenter(text, Begin, bl)), bl))
GotoLineAtBottom ==
    /\ Command
    /\ \E bl \in BufferLines :
          Shows(GotoLine(text, Follow(ScrollLineToBottom(text, Begin, bl)), bl))

StartVisual == Command /\ ~Visual /\ Shows(EnterVisual(text, Begin))
Escape == Command /\ Visual /\ Shows(LeaveVisual(text, Begin))

(* C-l, and a window that gets another height.                             *)
Redisplay == Alive /\ Shows(RecalcScreen(text, Begin))
SetVisibleArea ==
    /\ Alive
    /\ \E h \in Heights \ {view.height} :
         LET resized == [view EXCEPT !.height = h,
                           !.screen = [r \in 0..h - 1 |-> IF r \in DOMAIN @ THEN @[r]
                                                          ELSE Row(Fake, 0, FALSE)]]
         IN  /\ UNCHANGED text
             /\ view' = RecalcScreen(text, resized)

(***************************************************************************)
(* Edits: what they make of a text, and the lines the views are asked to   *)
(* update.  A deletion over several lines names one line too many.         *)
(***************************************************************************)
Changed(t, bl, line) == [to |-> [t EXCEPT ![bl + 1] = line], from |-> bl, last |-> bl]
Opened(t, bl, line, new) ==
    [to |-> InsertAt([t EXCEPT ![bl + 1] = line], bl + 2, new), from |-> bl, last |-> Len(t)]
LineDeleted(t, bl) ==
    [to |-> RemoveAt(t, bl + 1), last |-> Len(t) - 1,
     from |-> IF bl = Len(t) - 1 THEN bl - 1 ELSE bl]

Updated(v, edit) == UpdateBufferInterval(edit.to, v, edit.from, edit.last)

(* YZAction::deleteArea: the lines after the first are deleted one by one, *)
(* and the first is replaced by what is left of it and of the last.        *)
Left(bl, end, line) == SubSeq(text, 1, bl) \o << line >> \o SubSeq(text, end + 2, Len(text))
DeleteLine(cut, bl) ==
    LET edit == LineDeleted(cut.to, bl)
    IN  [to |-> edit.to, view |-> Updated(cut.view, edit)]
AreaDeleted(v, bl, end, line) ==
    LET cut[k \in 0..end - bl] ==
          IF k = 0 THEN [to |-> text, view |-> v] ELSE DeleteLine(cut[k - 1], bl + 1)
        rest == Changed(cut[end - bl].to, bl, line)
    IN  GotoLine(rest.to, Updated(cut[end - bl].view, rest), bl)

Edited(edit, then) ==
    /\ edit.to \in Texts
    /\ text' = edit.to
    /\ view' = Ended(GotoLine(edit.to, Updated(Begin, edit), then))
ChangeLine ==
    /\ Command /\ ~Visual
    /\ \E line \in Lines : Edited(Changed(text, view.cursor, line), view.cursor)
OpenLine ==
    /\ Command /\ ~Visual
    /\ \E line, new \in Lines, then \in {view.cursor, view.cursor + 1} :
          Edited(Opened(text, view.cursor, line, new), then)
(* From the cursor's line to any other.                                    *)
DeleteLines ==
    /\ Command /\ ~Visual
    /\ \E other \in BufferLines \ {view.cursor}, line \in Lines :
         LET bl == Least(other, view.cursor)  end == Greatest(other, view.cursor)
         IN  /\ Left(bl, end, line) \in Texts
             /\ text' = Left(bl, end, line)
             /\ view' = Ended(AreaDeleted(Begin, bl, end, line))

(* d in a visual mode: the mode is left after the deletion.                *)
DeleteSelected ==
    /\ Command /\ Visual /\ view.start # view.cursor
    /\ \E line \in Lines :
         LET bl == Least(view.start, view.cursor)  end == Greatest(view.start, view.cursor)
         IN  /\ Left(bl, end, line) \in Texts
             /\ text' = Left(bl, end, line)
             /\ view' = Ended(LeaveVisual(text', AreaDeleted(Begin, bl, end, line)))

(* Another view of the buffer edits it: this one only updates its lines.   *)
Edits ==
    { Changed(text, bl, line) : bl \in BufferLines, line \in Lines }
    \cup { Opened(text, bl, text[bl + 1], new) : bl \in BufferLines, new \in Lines }
    \cup { LineDeleted(text, bl) : bl \in {l \in BufferLines : Len(text) > 1} }
EditElsewhere ==
    /\ Alive /\ ~Visual
    /\ \E edit \in Edits :
         /\ edit.to \in Texts
         /\ text' = edit.to
         /\ view' = Updated(view, edit)

(* YZAction::insertChar returns early when the cursor's line is gone.      *)
TypeBelowText ==
    /\ Alive /\ view.cursor > Len(text) /\ view.level < MaxLevel
    /\ Shows(SetPaintAutoCommitOff(Begin))

NewView(h) ==
    [first |-> 0, top |-> 0, content |-> << [line |-> Nothing, marked |-> FALSE] >>,
     height |-> h, cursor |-> 0, start |-> NoLine, selected |-> NoInterval, dead |-> FALSE,
     level |-> 0, pending |-> {}, screen |-> [r \in 0..h - 1 |-> Row(Fake, 0, FALSE)]]

Init ==
    /\ text \in Texts
    /\ \E h \in Heights : view = RecalcScreen(text, NewView(h))

Next ==
    \/ MoveTo \/ MoveInWindow
    \/ ScrollPageUp \/ ScrollPageDown \/ ScrollLineUp \/ ScrollLineDown
    \/ GotoLineAtTop \/ GotoLineAtCenter \/ GotoLineAtBottom
    \/ StartVisual \/ Escape \/ Redisplay \/ SetVisibleArea
    \/ ChangeLine \/ OpenLine \/ DeleteLines \/ DeleteSelected
    \/ EditElsewhere \/ TypeBelowText

Spec == Init /\ [][Next]_vars

(***************************************************************************)
(* Edits that leave lines in the cache as they were before: the update     *)
(* stops at the first line below the screen, though more are cached.       *)
(***************************************************************************)
(* Lines below the screen are cached up to the start of the selection.     *)
DeletesUpward == DeleteSelected /\ view.start > view.cursor
DeletesBelowScreen == DeletesUpward /\ view.start > ScreenBottomBufferLine(view) + 1
(* Lines that wrap push several cached ones off the screen.                *)
PushesOffScreen ==
    ~Visual /\ text' # text /\ (LastBufferLine(view) > ScreenBottomBufferLine(view) + 1)'

(***************************************************************************)
(* Invariants.                                                             *)
(***************************************************************************)
Sections == [line : Lines \cup {Nothing}, marked : BOOLEAN]
TypeOK ==
    /\ text \in Texts
    /\ view.height \in Heights
    /\ {view.first, view.top, view.cursor} \subseteq Nat
    /\ view.content \in Seq(Sections)
    /\ view.start \in Nat \cup {NoLine} /\ view.level \in 0..MaxLevel + 1
    /\ view.pending \subseteq 0..view.height - 1
    /\ DOMAIN view.screen = 0..view.height - 1

InSelection(bl) ==
    Visual /\ Least(view.start, view.cursor) <= bl /\ bl <= Greatest(view.start, view.cursor)

(* YDrawBuffer: the cached lines on the screen are those of the buffer,    *)
(* after any edits in this view and in others.                             *)
CacheShowsText ==
    Alive => \A bl \in view.top..ScreenBottomBufferLine(view) :
                bl < Len(text) => Section(view, bl).line = text[bl + 1]

(* YModeVisual::cursorMoved, YView::setSelection: exactly the cached lines *)
(* between the start of the selection and the cursor are marked, and none  *)
(* once the mode is left, wherever the view scrolled meanwhile.            *)
MarksAreSelection ==
    Alive => \A bl \in view.first..LastBufferLine(view) :
                Section(view, bl).marked <=> InSelection(bl)

(* The cache that rows are drawn from is the text with the selection.      *)
CacheIsSound == TypeOK /\ CacheShowsText /\ MarksAreSelection

(* YView::commitPaintEvent: a command leaves as many suspensions of the    *)
(* painting as it found, so that its changes get on the screen; typing     *)
(* below the text, where another view removed lines, does not.             *)
PaintingResumes ==
    [][ \/ view'.level = view.level /\ (view.level = 0 => view'.pending = {})
        \/ TypeBelowText ]_vars

(* YView::gotoViewCursor: a command that moves the cursor, or edits, ends  *)
(* with the cursor's line on the screen.                                   *)
CursorIsShown ==
    [][ \/ (view.top <= view.cursor /\ view.cursor <= ScreenBottomBufferLine(view))'
        \/ ~Alive' \/ StartVisual \/ Escape \/ TypeBelowText \/ EditElsewhere ]_vars

(* YDrawBuffer::targetBufferLine: a command draws a line that does not     *)
(* exist only if the text got shorter than the screen's top line, or than  *)
(* a selection remembered from before, or the cursor's line is gone.       *)
OnlyMissingLinesKill ==
    [][ ~Alive' => \/ Len(text') <= view.top
                   \/ Len(text') <= view.selected[1]
                   \/ ~InText ]_vars

(* The screen follows the cursor, over lines that exist.                   *)
ScreenFollowsCursor == CursorIsShown /\ OnlyMissingLinesKill
=============================================================================

----------------------------- MODULE VisualMode -----------------------------
(***************************************************************************)
(* Selecting text and the commands on what is selected                     *)
(* (src/libyzis/mode_visual.cpp), and indenting lines, which command mode  *)
(* does too.  The modes in which a selection is made are those of Editing: *)
(* here is what they add to it.                                            *)
(***************************************************************************)
EXTENDS Editing

CONSTANT Tabstops  \* the values the option may have: a bound

VARIABLES
  start,    \* YModeVisual::mStartViewCursor of the view
  tabstop   \* the option of the view

ASSUME TabstopsArePositive == Tabstops \subseteq Nat \ {0}

NoStart == Cursor(-1, -1)

(* The cursor is taken somewhere as a mode that edits has it, or not; what *)
(* mode there is afterwards does not move it.                              *)
Lands(t, pos, m, edit) ==
    /\ InText(t, pos) /\ t \in Texts
    /\ text' = t
    /\ mode' = m
    /\ cursor' = GoTo(t, pos, edit)

-----------------------------------------------------------------------------
(* YModeVisual and YModeVisualLine::buildBufferInterval.                   *)
Sorted(p, q) == IF Before(q, p) THEN << q, p >> ELSE << p, q >>
Selected(m, p, q) ==
    LET ends == Sorted(p, q)
    IN  IF m = "visual" THEN ClosedInterval(ends[1], ends[2])
        ELSE OpenInterval(Cursor(0, ends[1].y), Cursor(0, ends[2].y + 1))
Selection == Selected(mode, start, cursor)

(* D and X, S, Y, and U or u: what they make of the text.  A selection of  *)
(* whole lines ends in the line after them.                                *)
LinesOfBoth(m, area) ==  \* Slip: no line less for a selection of lines
    area.to.y - area.from.y + 1
LinesOf(m, area) ==
    area.to.y - area.from.y + (IF m = "visualLine" THEN 0 ELSE 1)
WithoutLines(t, m, area) == DeleteLines(t, area.from.y, LinesOf(m, area))
WholeLines(t, area) ==
    ClosedInterval(Cursor(0, area.from.y), Cursor(GetLineLength(t, area.to.y) - 1, area.to.y))
ReplaceArea(t, area, data) == InsertRegion(DeleteRegion(t, area), area.from, data)
InCase(t, area, Case(_)) ==
    LET data == DataRegion(t, area)
        Changed(l) == [ i \in 1..Len(l) |-> Case(l[i]) ]
    IN  ReplaceArea(t, area, [ k \in 1..Len(data) |-> Changed(data[k]) ])

(* YZAction::indentLine.  Of the expressions that may match at the start of*)
(* a line the longest does; for a tabstop of 1 there is none.              *)
Blanks(ch, n) == [ i \in 1..n |-> ch ]
Outdented(l, ts) ==
    LET k == Run(l, 0, LAMBDA ch : ch = Blank)
        TabAt(i) == i < Len(l) /\ l[i + 1] = Tab
    IN  CASE ts = 1 -> l
          [] ts > 1 /\ k >= ts -> Mid(l, ts)
          [] ts > 1 /\ k < ts -> Mid(l, IF TabAt(k) THEN k + 1 ELSE k)
Indented(l, count, ts) ==
    IF count >= 0 THEN Blanks(Tab, count) \o l
    ELSE LET f[n \in 0..-count] == IF n = 0 THEN l ELSE Outdented(f[n - 1], ts) IN f[-count]
IndentLines(t, from, to, count, ts) ==
    LET f[y \in from - 1..to] ==
          IF y = from - 1 THEN t
          ELSE ReplaceLine(f[y - 1], Indented(Textline(t, y), count, ts), y)
    IN  f[to]

(* YModeCommand::indent: the lines of an area, one that ends at the start  *)
(* of a line without it.                                                   *)
LastIndented(t, area) ==
    LET y == IF area.to.y > area.from.y /\ area.toOpen /\ area.to.x = 0
             THEN area.to.y - 1 ELSE area.to.y
    IN  Min({y, LastLine(t)})
IndentArea(area, count) ==
    LET last == LastIndented(text, area)
        t == IndentLines(text, area.from.y, last, count, tabstop)
    IN  Lands(t, Cursor(FirstNonBlankChar(t, last), last), "command", mode \in Selecting)

-----------------------------------------------------------------------------
Directions == {1, -1}

(* > and < with a motion, >> and <<: the count is how far.                 *)
Indent(named, count) ==
    Operate(named, LAMBDA area : IndentArea(area, count) /\ UNCHANGED register)
IndentLine(count) ==
    /\ mode = "command"
    /\ IndentArea(ClosedInterval(cursor, cursor), count)
    /\ UNCHANGED << register, lineFind, pattern >>

StartSelection(m) ==
    /\ mode = "command"
    /\ mode' = m /\ start' = cursor
    /\ UNCHANGED << text, cursor, register, lineFind, pattern >>

(* v, V and their like in another visual mode: the selection stays.        *)
TranslateSelection(m) ==
    /\ mode \in Selecting \ {m}
    /\ mode' = m
    /\ UNCHANGED << text, cursor, register, lineFind, pattern, start >>

(* What ends in command mode takes the cursor there before the mode is left*)
(* (d, D, S, c, > and <), afterwards (y and Y), or leaves it (Esc, C-c, and*)
(* v or V a second time).                                                  *)
Keeping == UNCHANGED << lineFind, pattern >>
Within(t, pos, m, r) == Lands(t, pos, m, TRUE) /\ register' = r /\ Keeping
After(t, pos, r) == Lands(t, pos, "command", FALSE) /\ register' = r /\ Keeping

EndSelection == Within(text, cursor, "command", register)

AppendAtSelection == Within(text, Sorted(start, cursor)[2], "insert", register)
InsertAtSelection == Within(text, Sorted(start, cursor)[1], "insert", register)

ChangeCaseOfSelection(Case(_)) ==
    Within(InCase(text, Selection, Case), cursor, mode, register)

ChangeWholeLines ==
    LET area == WholeLines(text, Selection)
    IN  Within(DeleteArea(text, area), area.from, "insert", Deleted(text, area))
DeleteWholeLines ==
    LET y == Selection.from.y
        t == WithoutLines(text, mode, Selection)
    IN  Within(t, AfterDeleteLines(t, y), "command", CopyLine(text, y, LinesOf(mode, Selection)))
YankWholeLines ==
    After(text, Selection.from,
          IF mode = "visualLine" THEN CopyArea(text, Selection)
          ELSE CopyLine(text, Selection.from.y, LinesOf(mode, Selection)))

DeleteSelection(m) ==
    Within(DeleteArea(text, Selection), Selection.from, m, Deleted(text, Selection))
YankSelection == After(text, Selection.from, CopyArea(text, Selection))
IndentSelection(count) == IndentArea(Selection, count) /\ UNCHANGED register /\ Keeping

SelectionKeys ==
    \/ ChangeWholeLines \/ DeleteWholeLines \/ YankWholeLines
    \/ \E m \in {"command", "insert"} : DeleteSelection(m)        \* d and c
    \/ YankSelection \/ EndSelection
    \/ AppendAtSelection \/ InsertAtSelection
    \/ ChangeCaseOfSelection(Upper) \/ ChangeCaseOfSelection(Lower)
    \/ \E count \in Counts, d \in Directions : IndentSelection(d * count)

VisualOperators ==
    /\ \E named \in Results :
         \/ Delete(named) \/ Change(named) \/ Yank(named)
         \/ \E count \in Counts, d \in Directions : Indent(named, d * count)
    /\ UNCHANGED << start, tabstop >>

(* With the motions of Editing, which move the end of a selection.         *)
VisualNext ==
    /\ \/ (\E m \in Selecting : StartSelection(m) \/ TranslateSelection(m))
       \/ /\ mode \in Selecting /\ SelectionKeys
          /\ start' = IF mode' \in Selecting THEN start ELSE NoStart
       \/ (\E count \in Counts, d \in Directions : IndentLine(d * count)) /\ UNCHANGED start
    /\ UNCHANGED tabstop
=============================================================================

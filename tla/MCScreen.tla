------------------------------ MODULE MCScreen ------------------------------
(***************************************************************************)
(* Screen on small texts of plain lines, which are told apart, and on      *)
(* texts of plain and wrapped ones.                                        *)
(***************************************************************************)
EXTENDS Screen, TLC

CONSTANTS MaxLines, lineA, lineB, lineC, wrapped

RowsOf == [l \in Lines |-> IF l = wrapped THEN 2 ELSE 1]
TextsOf(lines, m, n) == UNION { [1..k -> lines] : k \in m..n }
PlainTexts == TextsOf({lineA, lineB}, 1, MaxLines)
MixedTexts == TextsOf({lineC, wrapped}, 2, 3)
SmallTexts == PlainTexts \cup MixedTexts
Symmetry == Permutations({lineA, lineB})

(* Looked at no further: a view whose painting is suspended for good, and  *)
(* one whose cache an edit has left with lines of the text before.         *)
Wraps == \E l \in Range(text) : LineHeight[l] > 1
LeavesLines == PushesOffScreen \/ DeletesBelowScreen \/ (Wraps /\ DeletesUpward)
MCNext == view.level = 0 /\ Next /\ ~LeavesLines
MCSpec == Init /\ [][MCNext]_vars

Plain(t) == t \in PlainTexts
(* What the text and the selection say the rows of a window of lines that  *)
(* do not wrap should be.                                                  *)
ScreenIsRight ==
    view.screen = [r \in 0..view.height - 1 |->
        IF view.top + r < Len(text)
        THEN Row(text[view.top + r + 1], 0, InSelection(view.top + r))
        ELSE Row(Fake, 0, FALSE)]

(* YView::sendPaintEvent and NYView::guiScroll: a terminal that shows the  *)
(* text shows it after a command that scrolls or that edits, though only   *)
(* the rows in question are drawn again.  (After one that does both it may *)
(* not: the pending rows are those before the screen scrolled.)            *)
PaintsOrScrolls ==
    [][ (/\ Plain(text) /\ ScreenIsRight /\ view.level = 0
         /\ Plain(text') /\ Alive' /\ (view'.top = view.top \/ text' = text)
         /\ view'.level = 0)
        => ScreenIsRight' ]_vars

(* YView::recalcScreen: C-l repairs the terminal, whatever it shows.       *)
RedisplayRepairs ==
    [][ view'.screen = Shown(view)' \/ ~(view.level = 0 /\ Alive' /\ Redisplay) ]_vars

(* The terminal follows the text by partial repaints, and a full one       *)
(* repairs whatever they left.                                             *)
TerminalShowsText == PaintsOrScrolls /\ RedisplayRepairs

=============================================================================

----------------------------- MODULE ExCommands -----------------------------
(***************************************************************************)
(* The commands of ex mode on lines of the text (src/libyzis/mode_ex.cpp): *)
(* the range of a command, :s, :>, :<, :retab and a range alone.  Commands *)
(* on files, tags, options and mappings are in Session, TagStack, Options  *)
(* and KeyInput, the line they are typed on in CommandLine.                *)
(*                                                                         *)
(* The addresses a range may be made of are records: a kind, its argument  *)
(* (a line number, the line of a mark or a pattern) and what + and - add.  *)
(***************************************************************************)
EXTENDS VisualMode

CONSTANTS
  Ranges,         \* those that may be typed: at most two addresses each
  Replacements    \* what :s may be given: [what, with, all]

NoLine == -1

-----------------------------------------------------------------------------
(* rangeSearch.  Both / and ? search forward from the cursor; without a    *)
(* pattern they search again from an end of the text.                      *)
RangeSearch(address, p) ==
    LET again == address.kind = "again"
        backward == again /\ address.arg = "?"
        from == CASE ~again -> cursor
                  [] backward -> Cursor(0, LineCount(text))
                  [] again /\ ~backward -> Cursor(-1, Min({1, LastLine(text)}))
        Line(r) == IF r.found THEN r.pos.y ELSE NoLine
    IN  Line(DoSearch(text, IF again THEN p ELSE address.arg, from, backward))

(* parseRange: the line of an address, and what the addresses before make  *)
(* the current search.  A selection is never found.                        *)
LineOf(address, p) ==
    address.offset +
      CASE address.kind = "line" -> Max({0, address.arg - 1})
        [] address.kind = "." -> cursor.y
        [] address.kind = "$" -> LastLine(text)
        [] address.kind = "mark" -> address.arg
        [] address.kind = "visual" -> NoLine
        [] address.kind \in {"search", "again"} -> RangeSearch(address, p)
PatternAfter(range, n) ==
    LET searches == { i \in 1..n : range[i].kind = "search" }
    IN  IF searches = {} THEN pattern ELSE range[Max(searches)].arg

(* The lines a range names: one or two, in either order.                   *)
LinesOfRange(range) ==
    IF range = <<>> THEN {cursor.y}
    ELSE { LineOf(range[i], PatternAfter(range, i - 1)) : i \in 1..Len(range) }

-----------------------------------------------------------------------------
(* A range alone, and :> and :<, take line and column for each other.      *)
ToLine(t, y) == Does(t, Cursor(y, FirstNonBlankChar(t, y)), "command") /\ UNCHANGED tabstop

GotoRange(from, to, p) == ToLine(text, to) /\ pattern' = p
IndentRange(from, to, p, count) ==
    ToLine(IndentLines(text, from, to, count, tabstop), to) /\ pattern' = p

(* YBuffer::substitute: from the left, what was put in not looked at again.*)
SubstitutedOnce(l, r) ==  \* Slip: not even when all are to be replaced
    LET at == { i \in 0..Len(l) : MatchesAt(l, i, r.what) }
        n == Len(r.what.what)
    IN  IF at = {} THEN l ELSE Left(l, Min(at)) \o r.with \o Mid(l, Min(at) + n)
Substituted(l, r) ==
    LET n == Len(r.what.what)
        from[i \in 0..Len(l)] ==
          LET at == { k \in i..Len(l) : MatchesAt(l, k, r.what) }
          IN  IF at = {} THEN Mid(l, i)
              ELSE SubSeq(l, i + 1, Min(at)) \o r.with
                   \o (IF r.all THEN from[Min(at) + n] ELSE Mid(l, Min(at) + n))
    IN  from[0]

(* setTextline: the last line has no line after it to end at.              *)
SetTextline(t, y, l) ==
    InsertRegion(DeleteRegion(t, OpenInterval(Cursor(0, y), Cursor(0, y + 1))),
                 Cursor(0, y), << l, <<>> >>)
LinesWith(t, from, to, p) ==
    { y \in from..to : \E i \in 0..GetLineLength(t, y) : MatchesAt(Textline(t, y), i, p) }
SubstituteLines(t, from, to, r) ==
    LET f[y \in from - 1..to] ==
          IF y = from - 1 THEN t
          ELSE IF y \in LinesWith(t, from, to, r.what)
          THEN SetTextline(f[y - 1], y, Substituted(Textline(t, y), r))
          ELSE f[y - 1]
    IN  f[to]

(* :s, which first looks for the pattern behind the start of the range,    *)
(* and all round the text.  The last line it changes is where it ends.     *)
SubstituteRange(from, to, r) ==
    LET hit == LinesWith(text, from, to, r.what)
        Ends(t, y) == Does(t, Cursor(FirstNonBlankChar(t, y), y), "command")
    IN  /\ IF DoSearch(text, r.what, Cursor(0, from), FALSE).found /\ hit # {}
           THEN Ends(SubstituteLines(text, from, to, r), Max(hit))
           ELSE Does(text, cursor, "command")
        /\ pattern' = r.what /\ UNCHANGED tabstop

-----------------------------------------------------------------------------
(* :retab.  The columns a line takes, and the tabs and blanks that take as *)
(* many: a tab goes to the next multiple of the tabstop.                   *)
Columns(l, column, ts) ==
    LET at[i \in 0..Len(l)] ==
          IF i = 0 THEN column
          ELSE IF l[i] = Tab THEN at[i - 1] + (ts - (at[i - 1] % ts)) ELSE at[i - 1] + 1
    IN  at
BlanksAtTabstop(column, width, ts) ==  \* Slip: as if the blanks began at a tabstop
    Blanks(Tab, width \div ts) \o Blanks(Blank, width % ts)
BlanksFrom(column, width, ts) ==
    LET first == ts - (column % ts)
    IN  IF width < first THEN Blanks(Blank, width)
        ELSE Blanks(Tab, 1 + (width - first) \div ts) \o Blanks(Blank, (width - first) % ts)

(* A run of blanks without a tab changes only by force, and only if that   *)
(* makes it shorter or tabs are not wanted.                                *)
RetabBlanks(run, column, ts, force, expandtab) ==
    LET tabs == Tab \in {run[i] : i \in 1..Len(run)}
        width == Columns(run, column, ts)[Len(run)] - column
        new == IF expandtab THEN Blanks(Blank, width) ELSE BlanksFrom(column, width, ts)
    IN  IF tabs \/ (force /\ Len(run) > 1 /\ (expandtab \/ Len(new) < width)) THEN new ELSE run
RetabLine(l, ts, force, expandtab) ==
    LET from[i \in 0..Len(l)] ==
          LET n == Run(l, i, IsSpace)
          IN  IF i = Len(l) THEN <<>>
              ELSE IF n = 0 THEN << l[i + 1] >> \o from[i + 1]
              ELSE RetabBlanks(SubSeq(l, i + 1, i + n), Columns(l, 0, ts)[i], ts, force, expandtab)
                   \o from[i + n]
    IN  from[0]

(* The whole text, whatever the range; an argument is the tabstop from now *)
(* on, which the columns of the text before are counted with too.  The     *)
(* option expandtab may be set or not.                                     *)
Retab(p, ts, force, expandtab) ==
    /\ Does([ y \in 1..Len(text) |-> RetabLine(text[y], ts, force, expandtab) ], cursor, "command")
    /\ tabstop' = ts
    /\ pattern' = p

-----------------------------------------------------------------------------
Command(from, to, p) ==
    \/ GotoRange(from, to, p)
    \/ \E count \in Counts, d \in Directions : IndentRange(from, to, p, d * count)
    \/ \E r \in Replacements : SubstituteRange(from, to, r)
    \/ \E ts \in Tabstops, force, expandtab \in BOOLEAN : Retab(p, ts, force, expandtab)

(* execExCommand, from the modes that ":" leads from and back to command   *)
(* mode.  Ranges beyond the text, which no command refuses, are left out.  *)
ExecExCommand(range) ==
    LET p == PatternAfter(range, Len(range))
        Exec(lines) ==
          IF Min(lines) < 0
          THEN pattern' = p /\ mode' = "command" /\ UNCHANGED << text, cursor, tabstop >>
          ELSE Max(lines) <= LastLine(text) /\ Command(Min(lines), Max(lines), p)
    IN  /\ mode \notin Typing
        /\ Exec(LinesOfRange(range))
        /\ start' = NoStart
        /\ UNCHANGED << register, lineFind >>

ExNext == \E range \in Ranges : ExecExCommand(range)
=============================================================================

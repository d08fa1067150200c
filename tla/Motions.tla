------------------------------ MODULE Motions ------------------------------
(***************************************************************************)
(* Where the motions of command mode lead (src/libyzis/mode_command.cpp,   *)
(* linesearch.cpp, search.cpp and YZAction::search), as operators on a     *)
(* text and a cursor.  A result is a position as the code returns it: the  *)
(* view then moves the cursor to the nearest position it can show          *)
(* (InView).  Motions of the window (H, L, M, scrolling) are in Screen.    *)
(***************************************************************************)
EXTENDS TextRegion, FiniteSetsExt

Blank == " "
Tab == "\t"
WordChars == {"a", "b"}

IsSpace(ch) == ch \in {Blank, Tab}
IsWord(ch) == ch \in WordChars
IsPunct(ch) == ~IsSpace(ch) /\ ~IsWord(ch)
NonSpace(ch) == ~IsSpace(ch)

LastLine(text) == LineCount(text) - 1
EndOfLine(text, y) == Cursor(GetLineLength(text, y), y)

(* YView::viewCursorFromLinePosition in command mode: on the last character*)
(* of a line at most, at column 0 of an empty one.                         *)
InViewBehind(text, pos) ==  \* Slip: behind the last character, as while typing
    Cursor(Max({0, Min({pos.x, GetLineLength(text, pos.y)})}), pos.y)
InView(text, pos) ==
    LET last == GetLineLength(text, pos.y) - 1
    IN  Cursor(Max({0, Min({pos.x, last})}), pos.y)

(* The length of the match of P+ at offset i of a line, and of P+Q* and    *)
(* Q*P+; 0 where the expression does not match there.                      *)
Run(s, i, P(_)) ==
    CHOOSE n \in 0..Len(s) - i :
      /\ \A k \in 1..n : P(s[i + k])
      /\ i + n = Len(s) \/ ~P(s[i + n + 1])
RunAndThen(s, i, P(_), Q(_)) ==
    LET n == Run(s, i, P) IN IF n = 0 THEN 0 ELSE n + Run(s, i + n, Q)
RunAfter(s, i, Q(_), P(_)) ==
    LET n == Run(s, i, Q)  m == Run(s, i + n, P) IN IF m = 0 THEN 0 ELSE n + m

(* The first offset, from i on, where P holds, or the length of the line.  *)
FirstOffset(s, i, P(_)) ==
    LET found == { k \in i..Len(s) - 1 : P(s[k + 1]) }
    IN  IF found = {} THEN Len(s) ELSE Min(found)

(* A motion looks for its next word until it has found args.count of them  *)
(* or is at the end of the text: Step, applied until it says it is done.   *)
(* Each step counts a word or changes line.                                *)
AtCursor(at) == [x |-> at.x, y |-> at.y, c |-> 0, wrapped |-> FALSE, done |-> FALSE]
Repeat(Step(_), at, count, text) ==
    LET f[n \in 0..count + LineCount(text)] ==
          IF n = 0 THEN AtCursor(at)
          ELSE LET st == f[n - 1]
               IN  IF st.done \/ st.c >= count THEN st ELSE Step(st)
        end == f[count + LineCount(text)]
    IN  Cursor(end.x, end.y)

NextLineNotWrapped(text, st) ==  \* Slip: wrapped stays FALSE
    IF st.y >= LastLine(text)
    THEN [st EXCEPT !.x = GetLineLength(text, st.y), !.done = TRUE]
    ELSE [st EXCEPT !.x = 0, !.y = @ + 1]

(* No word found: at the start of the next line, or at the end of the text.*)
NextLine(text, st) ==
    IF st.y >= LastLine(text)
    THEN [st EXCEPT !.x = GetLineLength(text, st.y), !.done = TRUE]
    ELSE [st EXCEPT !.x = 0, !.y = @ + 1, !.wrapped = TRUE]
(* A word ended at the end of a line: w goes on to the first one of the    *)
(* next line, unless it ends an operator's interval here.                  *)
GoesOn(text, st, count, standalone) ==
    /\ st.c < count \/ standalone
    /\ st.x = GetLineLength(text, st.y)
    /\ st.y < LastLine(text)
MoveWordForward(text, at, count, standalone) ==
    LET Step(st) ==
          LET l == Textline(text, st.y)
              word == RunAndThen(l, st.x, IsWord, IsSpace)
              other == RunAndThen(l, st.x, IsPunct, IsSpace)
              blank == Run(l, st.x, IsSpace)
              len == IF word # 0 THEN (IF st.x = 0 /\ st.wrapped THEN 0 ELSE word)
                     ELSE IF other # 0 THEN other ELSE blank
              past == [st EXCEPT !.c = @ + 1, !.x = @ + len]
          IN  IF word + other + blank = 0 THEN NextLine(text, st)
              ELSE IF GoesOn(text, past, count, standalone)
                   THEN [past EXCEPT !.y = @ + 1,
                                     !.x = Run(Textline(text, st.y + 1), 0, IsSpace)]
                   ELSE past
    IN  Repeat(Step, at, count, text)

(* W looks for the next blanks anywhere in the line; at the end of a line  *)
(* it skips as much of the next one as the first blanks in that are long.  *)
MoveSWordForward(text, at, count, standalone) ==
    LET Step(st) ==
          LET l == Textline(text, st.y)
              idx == FirstOffset(l, st.x, IsSpace)
              past == [st EXCEPT !.c = @ + 1, !.x = idx + Run(l, idx, IsSpace)]
              next == Textline(text, st.y + 1)
          IN  IF idx = Len(l) THEN NextLine(text, st)
              ELSE IF GoesOn(text, past, count, standalone)
                   THEN [past EXCEPT !.y = @ + 1,
                                     !.x = Run(next, FirstOffset(next, 0, IsSpace), IsSpace)]
                   ELSE past
    IN  Repeat(Step, at, count, text)

(* e and E step off the character they are on, then match to an end.       *)
WordEnd(text, at, count, Match(_, _)) ==
    LET Step(st) ==
          LET l == Textline(text, st.y)
              x == IF ~st.wrapped /\ st.x < Len(l) THEN st.x + 1 ELSE st.x
              end == x + Match(l, x)
          IN  IF Match(l, x) = 0 THEN NextLine(text, st)
              ELSE [st EXCEPT !.c = @ + 1, !.wrapped = FALSE,
                              !.x = IF end \in 1..Len(l) - 1 THEN end - 1 ELSE end]
    IN  Repeat(Step, at, count, text)

EndOfWord(l, x) ==
    LET word == RunAfter(l, x, IsSpace, IsWord)
    IN  IF word # 0 THEN word ELSE RunAfter(l, x, IsSpace, IsPunct)
EndOfSWord(l, x) == RunAfter(l, x, IsSpace, NonSpace)

MoveWordEndForward(text, at, count) == WordEnd(text, at, count, EndOfWord)
MoveSWordEndForward(text, at, count) == WordEnd(text, at, count, EndOfSWord)

-----------------------------------------------------------------------------
(* Backward motions match against the line turned round; an offset counts  *)
(* from its end.                                                           *)
Turned(text, y) == Reverse(Textline(text, y))

EndOfPreviousLine(text, st) ==
    IF st.y = 0 THEN [st EXCEPT !.done = TRUE]
    ELSE [st EXCEPT !.x = GetLineLength(text, st.y - 1), !.y = @ - 1, !.wrapped = TRUE]
StartOrPreviousLine(text, st) ==
    IF st.y = 0 THEN [st EXCEPT !.x = 0, !.done = TRUE] ELSE EndOfPreviousLine(text, st)

MoveWordBackward(text, at, count) ==
    LET Step(st) ==
          LET l == Turned(text, st.y)
              offset == Len(l) - st.x
              word == Run(l, offset, IsWord)
              other == Run(l, offset, IsPunct)
              blank == Run(l, offset, IsSpace)
              before == Max({Run(l, offset + blank, IsWord), Run(l, offset + blank, IsPunct)})
              len == IF blank = 0 THEN word + other
                     ELSE IF before = 0 THEN 0 ELSE blank + before
          IN  IF st.wrapped /\ l = <<>> THEN [st EXCEPT !.c = @ + 1, !.x = 0]
              ELSE IF len = 0 THEN EndOfPreviousLine(text, st)
              ELSE [st EXCEPT !.c = @ + 1, !.x = @ - len]
    IN  Repeat(Step, at, count, text)

MoveSWordBackward(text, at, count) ==
    LET Step(st) ==
          LET l == Turned(text, st.y)
              idx == FirstOffset(l, Len(l) - st.x, NonSpace)
          IN  IF idx = Len(l) THEN EndOfPreviousLine(text, st)
              ELSE [st EXCEPT !.c = @ + 1, !.x = Len(l) - idx - Run(l, idx, NonSpace)]
    IN  Repeat(Step, at, count, text)

BeforeItNot(x, length) == x  \* Slip: the cursor stays behind the end

(* ge skips the rest of the word it is in, and the blanks before it.       *)
BeforeIt(x, length) == IF x \in 1..length - 1 THEN x - 1 ELSE x

MoveWordEndBackward(text, at, count) ==
    LET Step(st) ==
          LET l == Turned(text, st.y)
              offset == Max({Len(l) - st.x - 1, 0})
              blank == Run(l, offset, IsSpace)
              word == RunAndThen(l, offset, IsWord, IsSpace)
              other == RunAndThen(l, offset, IsPunct, IsSpace)
              atEnd == st.wrapped /\ offset = 0 /\ l # <<>> /\ NonSpace(l[1])
              idx == IF atEnd THEN 0 ELSE offset
              len == IF atEnd THEN 0 ELSE blank + word + other
              x == Len(l) - idx - len
          IN  IF (atEnd \/ len # 0) /\ idx + len < Len(l)
              THEN [st EXCEPT !.c = @ + 1, !.wrapped = FALSE, !.x = BeforeIt(x, Len(l))]
              ELSE StartOrPreviousLine(text, st)
    IN  Repeat(Step, at, count, text)

(* gE looks for blanks before the cursor and a character before them.      *)
MoveSWordEndBackward(text, at, count) ==
    LET Step(st) ==
          LET l == Turned(text, st.y)
              offset == Len(l) - st.x
              idx == FirstOffset(l, offset, IsSpace)
              len == Run(l, idx, IsSpace)
          IN  IF offset = 0 /\ l # <<>> /\ NonSpace(l[1])
              THEN [st EXCEPT !.c = @ + 1, !.x = Len(l)]
              ELSE IF idx + len < Len(l)
              THEN [st EXCEPT !.c = @ + 1, !.x = BeforeIt(Len(l) - idx - len, Len(l))]
              ELSE StartOrPreviousLine(text, st)
    IN  Repeat(Step, at, count, text)

-----------------------------------------------------------------------------
(* YLineSearch: f, t, F and T.  A search that fails leaves the cursor.     *)
Occurrences(l, ch) == { x \in 0..Len(l) - 1 : l[x + 1] = ch }
NotFound == [found |-> FALSE]
FoundAt(x) == [found |-> TRUE, x |-> x]

(* The times-th occurrence right of x.                                     *)
Forward(l, x, ch, times) ==
    LET right == { i \in Occurrences(l, ch) : i > x }
        nth == { i \in right : Cardinality({ j \in right : j <= i }) = times }
    IN  IF nth = {} THEN NotFound ELSE FoundAt(CHOOSE i \in nth : TRUE)

ReverseFromCursor(l, x, ch, times) ==  \* Slip: from the cursor on
    LET below == { i \in Occurrences(l, ch) : i <= x }
        nth == { i \in below : Cardinality({ j \in below : j >= i }) = times }
    IN  IF nth = {} THEN NotFound ELSE FoundAt(CHOOSE i \in nth : TRUE)

(* The times-th one left of x, by an unsigned column: nothing is looked for*)
(* once it is 0, and one found in column 0 is followed by the last one.    *)
ReverseFind(l, x, ch, times) ==
    LET start == IF x = 0 THEN 0 ELSE x - 1
        all == Occurrences(l, ch)
        f[n \in 0..times] ==
          IF n = 0 THEN start
          ELSE LET from == f[n - 1]
                   below == { i \in all : i <= from \/ from = -1 }
               IN  IF from \in {0, -2} \/ below = {} THEN -2 ELSE Max(below) - 1
    IN  IF f[times] = -2 THEN NotFound ELSE FoundAt(f[times] + 1)

LineSearch(l, x, find, times) ==
    LET right == Forward(l, x, find.ch, times)
        left == ReverseFind(l, x, find.ch, times)
        Beside(r, d) == IF r.found THEN FoundAt(r.x + d) ELSE r
    IN  CASE find.type = "SearchForward" -> right
          [] find.type = "SearchForwardBefore" -> Beside(right, -1)
          [] find.type = "SearchBackward" -> left
          [] find.type = "SearchBackwardAfter" -> Beside(left, 1)

-----------------------------------------------------------------------------
(* YSearch and YZAction::search.  A pattern is a string of characters to   *)
(* find, perhaps only as a whole word: what the commands of a word look for.*)
Pattern(what, whole) == [what |-> what, whole |-> whole]

MatchesAt(l, i, pattern) ==
    LET n == Len(pattern.what)
        Inside(k) == k \in 1..Len(l) /\ IsWord(l[k])
    IN  /\ i + n <= Len(l)
        /\ SubSeq(l, i + 1, i + n) = pattern.what
        /\ pattern.whole =>
             IF IsWord(pattern.what[1])
             THEN ~Inside(i) /\ ~Inside(i + n + 1)
             ELSE i + n = Len(l) \/ ~IsPunct(l[i + n + 1])

Matching(l, pattern) == { i \in 0..Len(l) : MatchesAt(l, i, pattern) }

Before(p, q) == p.y < q.y \/ (p.y = q.y /\ p.x < q.x)

FoundAtPos(pos) == [found |-> TRUE, pos |-> pos]
Nearest(hits, reverse) ==
    CHOOSE p \in hits : \A q \in hits \ {p} : Before(p, q) # reverse
OrElse(first, second) == IF first.found THEN first ELSE second

(* From begin to end; backwards if end comes first.  A line is cut off at  *)
(* end only if it is not the line of begin; a match backwards in the line  *)
(* of end is moved by its column, as if the line had been cut off.         *)
SearchArea(text, pattern, begin, end) ==
    LET reverse == Before(end, begin)
        Lines == 0..LastLine(text) \cap (IF reverse THEN end.y..begin.y ELSE begin.y..end.y)
        Searched(y) ==
          LET line == Textline(text, y)
          IN  IF y = begin.y \/ y # end.y THEN line
              ELSE IF reverse THEN Mid(line, end.x) ELSE Left(line, end.x)
        InArea(q) == q.y = begin.y => (reverse <=> q.x < begin.x)
        hits == UNION { { Cursor(i, y) : i \in Matching(Searched(y), pattern) } : y \in Lines }
        Shifted(p) == IF reverse /\ p.y = end.y THEN [p EXCEPT !.x = @ + end.x] ELSE p
        First(found) == IF found = {} THEN NotFound ELSE FoundAtPos(Shifted(Nearest(found, reverse)))
    IN  First({ q \in hits : InArea(q) })

(* The last position of the text, where the search wraps round.            *)
Bottom(text) == Cursor(Max({GetLineLength(text, LastLine(text)) - 1, 0}), LastLine(text))

DoSearchOnce(text, pattern, from, reverse) ==  \* Slip: it does not wrap
    LET begin == Cursor(Max({from.x + (IF reverse THEN 0 ELSE 1), 0}), from.y)
    IN  IF pattern.what = <<>> THEN NotFound
        ELSE SearchArea(text, pattern, begin, IF reverse THEN Cursor(0, 0) ELSE Bottom(text))

DoSearch(text, pattern, from, reverse) ==
    LET begin == Cursor(Max({from.x + (IF reverse THEN 0 ELSE 1), 0}), from.y)
        top == IF reverse THEN Bottom(text) ELSE Cursor(0, 0)
        bottom == IF reverse THEN Cursor(0, 0) ELSE Bottom(text)
    IN  IF pattern.what = <<>> THEN NotFound
        ELSE OrElse(SearchArea(text, pattern, begin, bottom), SearchArea(text, pattern, top, begin))

(* n, N and the like: as many times as the count says, or until one fails. *)
SearchTimes(text, pattern, from, reverse, times) ==
    LET After(r, s) == IF ~r.more \/ ~s.found THEN [r EXCEPT !.more = FALSE]
                       ELSE [found |-> TRUE, more |-> TRUE, pos |-> s.pos]
        f[n \in 0..times] ==
          IF n = 0 THEN [found |-> FALSE, more |-> TRUE, pos |-> from]
          ELSE After(f[n - 1], DoSearch(text, pattern, f[n - 1].pos, reverse))
    IN  f[times]

(* YBuffer::getWordAt: the word the cursor is in, else the next one of the *)
(* line, else the like for a run of other characters.                      *)
WordRuns(l, P(_)) ==
    { i \in 0..Len(l) - 1 : P(l[i + 1]) /\ (i = 0 \/ ~P(l[i])) }
GetWordAt(text, at) ==
    LET l == Textline(text, at.y)
        Found(P(_)) == { i \in WordRuns(l, P) : i + Run(l, i, P) > at.x }
        word(i, P(_)) == SubSeq(l, i + 1, i + Run(l, i, P))
    IN  IF Found(IsWord) # {} THEN word(Min(Found(IsWord)), IsWord)
        ELSE IF Found(IsPunct) # {} THEN word(Min(Found(IsPunct)), IsPunct)
        ELSE <<>>

-----------------------------------------------------------------------------
(* Lines and columns.                                                      *)
EmptyLines(text) == { y \in 0..LastLine(text) : Textline(text, y) = <<>> }

(* { and }: the count-th empty line above or below, or the end of the text.*)
PreviousEmptyLine(text, at, count) ==
    LET nth == { y \in EmptyLines(text) :
                   y < at.y /\ Cardinality({ z \in EmptyLines(text) : z \in y..at.y - 1 }) = count }
    IN  Cursor(0, IF nth = {} THEN 0 ELSE Max(nth))
NextEmptyLine(text, at, count) ==
    LET nth == { y \in EmptyLines(text) :
                   y > at.y /\ Cardinality({ z \in EmptyLines(text) : z \in at.y + 1..y }) = count }
    IN  Cursor(0, IF nth = {} THEN LastLine(text) ELSE Min(nth))

FirstNonBlankChar(text, y) == FirstOffset(Textline(text, y), 0, NonSpace)
LastNonBlankChar(text, y) ==
    LET l == Textline(text, y)
    IN  Max({0} \cup { x \in 0..Len(l) - 1 : NonSpace(l[x + 1]) })

(* + and - take the greater line where the smaller is meant, and back.     *)
FirstNonBlankNextLine(text, at) ==
    LET y == Max({LastLine(text), at.y + 1}) IN Cursor(FirstNonBlankChar(text, y), y)
FirstNonBlankPreviousLine(text, at) ==
    LET y == Min({0, at.y - 1})
    IN  Cursor(IF y < 0 THEN 0 ELSE FirstNonBlankChar(text, y), y)

(* The command's own name is compared: as the motion of an operator gg and *)
(* G both are the first line.                                              *)
GotoLine(text, cmd, count, usercount) ==
    LET y == CASE cmd = "gg" \/ (cmd = "G" /\ usercount) -> Min({count - 1, LastLine(text)})
               [] cmd = "G" /\ ~usercount -> LastLine(text)
               [] OTHER -> 0
    IN  Cursor(FirstNonBlankChar(text, y), y)

(* YView::viewCursorMoveHorizontal in command mode, without and with       *)
(* wrapping (h, l and BS, SPACE).                                          *)
MoveHorizontal(text, at, ticks) ==
    InView(text, Cursor(IF at.x + ticks < 0 THEN 0 ELSE at.x + ticks, at.y))

MoveWrap(text, at, ticks) ==
    LET f[n \in 0..LineCount(text)] ==
          IF n = 0 THEN Cursor(at.x + ticks, at.y)
          ELSE LET p == f[n - 1]
               IN  CASE p.x < 0 /\ p.y >= 1 ->
                          Cursor(GetLineLength(text, p.y - 1) + p.x + 1, p.y - 1)
                     [] ticks > 0 /\ p.x >= GetLineLength(text, p.y) /\ p.y < LastLine(text) ->
                          Cursor(p.x - GetLineLength(text, p.y), p.y + 1)
                     [] OTHER -> p
        end == f[LineCount(text)]
    IN  InView(text, end)

MoveLeft(text, at, count) == MoveHorizontal(text, at, -count)
MoveRight(text, at, count) == MoveHorizontal(text, at, count)
MoveLeftWrap(text, at, count) == MoveWrap(text, at, -count)
MoveRightWrap(text, at, count) == MoveWrap(text, at, count)

(* The column is the one the cursor sticks to: left to the view.           *)
MoveDown(text, at, count) == Cursor(at.x, Min({LastLine(text), at.y + count}))
MoveUp(text, at, count) == Cursor(at.x, Max({0, at.y - count}))

GotoSOL(at) == Cursor(0, at.y)
GotoColumn(text, at, count) == InView(text, Cursor(count - 1, at.y))
FirstNonBlank(text, at) == Cursor(FirstNonBlankChar(text, at.y), at.y)
LastNonBlank(text, at) == Cursor(LastNonBlankChar(text, at.y), at.y)
GotoStartOfDocument == Cursor(0, 0)
GotoEndOfDocument(text) == EndOfLine(text, LastLine(text))

(* % looks for its own regular expression, as characters: they are in no   *)
(* text, and the cursor stays.                                             *)
PercentCommand(at) == at

(* i(: the bracket before the cursor and the one after it, the count-th    *)
(* each.  The cursor goes behind the first one, the second is returned.    *)
FindInner(text, at, open, close, count) ==
    LET After(r, s, e) ==
          CASE ~r.found -> r
            [] r.found /\ ~s.found -> [r EXCEPT !.found = FALSE, !.what = open]
            [] r.found /\ s.found /\ ~e.found -> [r EXCEPT !.found = FALSE, !.what = close]
            [] r.found /\ s.found /\ e.found ->
                 [found |-> TRUE, from |-> s.pos, to |-> e.pos, what |-> close]
        f[n \in 0..count] ==
          IF n = 0 THEN [found |-> TRUE, from |-> at, to |-> at, what |-> open]
          ELSE After(f[n - 1],
                     DoSearch(text, Pattern(<<open>>, FALSE), f[n - 1].from, TRUE),
                     DoSearch(text, Pattern(<<close>>, FALSE), f[n - 1].to, FALSE))
        Behind(p) == IF p.x < GetLineLength(text, p.y) - 1 THEN Cursor(p.x + 1, p.y)
                     ELSE Cursor(0, p.y + 1)
    IN  [f[count] EXCEPT !.from = InView(text, Behind(@))]
=============================================================================

----------------------------- MODULE MCEditing -----------------------------
(***************************************************************************)
(* Editing, VisualMode and ExCommands on every text of a bounded size, the *)
(* motions on larger ones that are only read, Completion of every word of  *)
(* some, and CommandLine by itself: part tells which.                      *)
(***************************************************************************)
EXTENDS ExCommands, CommandLine, Completion

CONSTANTS EditChars, ReadLength, ReadLines

VARIABLES
  part,
  typed    \* the line when a completion began

mcVars == << vars, start, tabstop, lineVars, completionVars, part, typed >>

Lines(n, chars) == UNION { [1..m -> chars] : m \in 0..n }
TextsOf(lines, n, chars) == UNION { [1..m -> Lines(n, chars)] : m \in 1..lines }
EditTexts == { t \in TextsOf(2, 2, EditChars) : Len(t) = 1 \/ Len(t[1]) + Len(t[2]) <= 2 }
FindTexts == TextsOf(1, 3, {"a", "."})
ReadTexts == TextsOf(ReadLines, ReadLength, {"a", ".", " "})
SelectTexts == { t \in TextsOf(2, 2, {"a", Tab}) : Len(t) = 1 \/ Len(t[1]) + Len(t[2]) <= 2 }
ExTexts == TextsOf(2, 2, {"a", " "}) \cup TextsOf(3, 1, {"a", Tab})
TabTexts == TextsOf(1, 5, {"a", " ", Tab})
CompleteTexts == TextsOf(1, 5, {"a", "b", "."}) \cup TextsOf(2, 2, {"a", "b"})
CompletedTexts == TextsOf(1, 7, {"a", "b", "."}) \cup TextsOf(2, 4, {"a", "b"})
AllTexts ==
    EditTexts \cup FindTexts \cup ReadTexts \cup SelectTexts \cup ExTexts \cup TabTexts
    \cup CompletedTexts

Quotes == { << ".", "." >> }

(* Ranges: %, a line, lines in either order, and the ones that are searched*)
(* or do not exist.                                                        *)
Address(kind, arg, offset) == [kind |-> kind, arg |-> arg, offset |-> offset]
A == Pattern(<<"a">>, FALSE)
Line1 == Address("line", 1, 0)
LastAddress == Address("$", 0, 0)
Visual == << Address("visual", "<", 0), Address("visual", ">", 0) >>
SomeRanges ==
    { <<>>, << Line1 >>, << Line1, LastAddress >>, << LastAddress, Address(".", 0, 0) >>,
      << Address("search", A, 0) >>, << Address("again", "/", 0) >>, << Address("again", "?", 0) >>,
      << Address("mark", 1, -1) >>, << Address("mark", NoLine, 0) >>, Visual }
SomeReplacements ==
    { [what |-> A, with |-> w, all |-> all] : w \in { <<>>, <<" ", "a">> }, all \in BOOLEAN }

Commands == << <<"a">>, <<"a", "b">>, <<"b">> >>
Files == << <<"a">>, <<"b", "a">> >>
Here == <<".", "/">>
Sources == <<".", "w", "b", "u", "t", "i">>
Others == << << <<"b", "a">>, <<"a", ".", "b", "b">> >> >>
Tags == << <<"a">>, <<"a", "b">>, <<"b", "b">> >>

(* The user has come to type in some place.                                *)
TypingIn(t) ==
    /\ text = t
    /\ \E y \in 0..LastLine(t) : \E x \in 0..GetLineLength(t, y) : cursor = Cursor(x, y)
    /\ mode = "insert"
    /\ register = Register(FALSE, <<>>) /\ lineFind = NoFind /\ pattern = Pattern(<<>>, FALSE)

MCInit ==
    /\ \/ part = "edit" /\ InitWith(<< <<>> >>)
       \/ part = "find" /\ \E t \in FindTexts : InitWith(t)
       \/ part = "read" /\ \E t \in ReadTexts : InitWith(t)
       \/ part = "select" /\ \E t \in SelectTexts : InitWith(t)
       \/ part = "ex" /\ \E t \in ExTexts : InitWith(t)
       \/ part = "tab" /\ \E t \in TabTexts : InitWith(t)
       \/ part = "line" /\ InitWith(<< <<>> >>)
       \/ part = "complete" /\ \E t \in CompleteTexts : TypingIn(t)
    /\ start = NoStart /\ tabstop = 2
    /\ LineInit /\ CompletionInit /\ typed = <<>>

(* The cursor visits every position of a text that is read, by all motions *)
(* that do not search.                                                     *)
ReadMotions ==
    {"h", "l", "BS", "SPACE", "0", "$", "^", "g_", "C-HOME", "C-END", "gg", "G", "|", "+", "-",
     "{", "}", "w", "W", "e", "E", "b", "B", "ge", "gE", "%"}
MotionsIn(p) ==
    CASE p = "read" -> ReadMotions
      [] p \in {"edit", "find"} -> MotionNames
      [] p = "select" -> {"w", "b"}
      [] p \notin {"read", "edit", "find", "select"} -> {}

Reading ==
    \/ \E name \in MotionsIn(part), count \in Counts, usercount \in BOOLEAN :
         ExecMotion(name, count, usercount)
    \/ /\ part \in {"edit", "find"}
       /\ Searches \/ \E find \in Finds, count \in Counts : ExecFind(find, count)

(* Any selection is made, and one command done with it or with an area.    *)
Step ==
    \/ Reading /\ UNCHANGED << start, tabstop >>
    \/ part \in {"edit", "find", "select"} /\ VisualOperators
    \/ /\ part = "edit"
       /\ (mode = "command" /\ CommandKeys) \/ (mode \in Typing /\ TypingKeys)
       /\ UNCHANGED << start, tabstop >>
    \/ part = "select" /\ (VisualNext \/ (mode \in Selecting /\ ExecExCommand(Visual)))
    \/ part = "select" /\ mode \in Typing /\ Escape /\ UNCHANGED << start, tabstop >>
    \/ part = "ex" /\ ExNext
    \/ part = "complete" /\ CompletionNext /\ UNCHANGED << start, tabstop >>
    \/ part \in {"tab", "edited", "line"} /\ UNCHANGED << vars, start, tabstop >>

(* Characters are found again, and patterns, in texts of one line.         *)
WithinPart ==
    CASE part = "edit" -> UNCHANGED << lineFind, pattern >> /\ text' \in EditTexts
      [] part = "find" -> mode' = "command" /\ text' \in FindTexts
      [] part \notin {"edit", "find"} -> TRUE

MCNext ==
    /\ Step /\ WithinPart
    /\ part' = IF \/ part = "select" /\ (text' # text \/ register' # register)
                  \/ part = "complete" /\ mPrefix' = <<>>
               THEN "edited" ELSE part
    /\ IF part = "line"
       THEN LineNext /\ \A i \in 1..Len(entries') : Len(entries'[i]) <= 1
       ELSE UNCHANGED lineVars
    /\ IF part = "complete" THEN TRUE ELSE UNCHANGED completionVars
    /\ typed' = IF possibilities' = <<>> /\ mPrefix' = <<>> THEN <<>>
                ELSE IF part = "line" /\ possibilities = <<>> THEN line
                ELSE IF part = "complete" /\ ~Completing THEN Textline(text, cursor.y)
                ELSE typed

MCSpec == MCInit /\ [][MCNext]_mcVars

-----------------------------------------------------------------------------
(* What the motions are measured against: the positions of the text in     *)
(* order, and of the words among them.                                     *)
Positions == UNION { { Cursor(x, y) : x \in 0..GetLineLength(text, y) - 1 } : y \in 0..LastLine(text) }
CharAt(p) == text[p.y + 1][p.x + 1]
Kind(ch) == IF IsSpace(ch) THEN "space" ELSE IF IsWord(ch) THEN "word" ELSE "other"
BlankOrNot(ch) == IF IsSpace(ch) THEN "space" ELSE "other"

StartsOf(K(_)) ==
    { p \in Positions : /\ NonSpace(CharAt(p))
                        /\ p.x = 0 \/ K(CharAt([p EXCEPT !.x = @ - 1])) # K(CharAt(p)) }
EndsOf(K(_)) ==
    { p \in Positions : /\ NonSpace(CharAt(p))
                        /\ \/ p.x = GetLineLength(text, p.y) - 1
                           \/ K(CharAt([p EXCEPT !.x = @ + 1])) # K(CharAt(p)) }

(* The n-th of them after the cursor, or before it; one if there are fewer.*)
NthAfter(set, n, else) ==
    LET after == { p \in set : Before(cursor, p) }
        nth == { p \in after : Cardinality({ q \in after : ~Before(p, q) }) = n }
    IN  IF nth = {} THEN else ELSE CHOOSE p \in nth : TRUE
NthBefore(set, n, else) ==
    LET before == { p \in set : Before(p, cursor) }
        nth == { p \in before : Cardinality({ q \in before : ~Before(q, p) }) = n }
    IN  IF nth = {} THEN else ELSE CHOOSE p \in nth : TRUE

Reads == part = "read"
Nowhere == Cursor(-1, -1)
Arrives(motion, p) == p # Nowhere => InView(text, motion) = p

(* w, e and E lead to the next start or end of a word, and at last to the  *)
(* end of the text (moveWordForward, moveWordEndForward,                   *)
(* moveSWordEndForward).  A line without a word stops w.                   *)
ForwardMotionsFindWords ==
    Reads => \A n \in {1, 2} :
      /\ Arrives(MoveWordEndForward(text, cursor, n), NthAfter(EndsOf(Kind), n, Bottom(text)))
      /\ Arrives(MoveSWordEndForward(text, cursor, n), NthAfter(EndsOf(BlankOrNot), n, Bottom(text)))
      /\ (\A y \in 0..LastLine(text) : FirstNonBlankChar(text, y) < GetLineLength(text, y)) =>
           Arrives(MoveWordForward(text, cursor, n, TRUE), NthAfter(StartsOf(Kind), n, Bottom(text)))

(* b, B, ge and gE lead back to the start or end of a word, wherever there *)
(* is one (moveWordBackward, moveSWordBackward, moveWordEndBackward,       *)
(* moveSWordEndBackward).  An empty line stops b when it counts; gE counts *)
(* wrong, and from a blank.                                                *)
BackwardMotionsFindWords ==
    Reads => \A n \in {1, 2} :
      /\ n = 1 \/ EmptyLines(text) = {} =>
           Arrives(MoveWordBackward(text, cursor, n), NthBefore(StartsOf(Kind), n, Nowhere))
      /\ Arrives(MoveSWordBackward(text, cursor, n), NthBefore(StartsOf(BlankOrNot), n, Nowhere))
      /\ Arrives(MoveWordEndBackward(text, cursor, n), NthBefore(EndsOf(Kind), n, Nowhere))
      /\ n = 1 /\ cursor \in Positions /\ NonSpace(CharAt(cursor)) =>
           Arrives(MoveSWordEndBackward(text, cursor, n), NthBefore(EndsOf(BlankOrNot), n, Nowhere))

(* F finds the n-th occurrence to the left unless that is in column 0      *)
(* (YLineSearch::reverse counts down an unsigned column).                  *)
FindsToTheLeft ==
    Reads => \A n \in {1, 2}, ch \in {"a", "."} :
      LET r == ReverseFind(Textline(text, cursor.y), cursor.x, ch, n)
          p == NthBefore({ q \in Positions : q.y = cursor.y /\ CharAt(q) = ch }, n, Nowhere)
      IN  /\ p # Nowhere /\ p.x > 0 => r = FoundAt(p.x)
          /\ n = 1 /\ r.found => r.x = p.x

(* n goes to the next match and N to the one before, in the order of the   *)
(* text, and round its end (YSearch::doSearch, YZAction::search).  Not said*)
(* of the line the cursor is in once round, nor of a text whose last       *)
(* character may be part of a match: there the area is cut too short; nor  *)
(* of whole words, whose end may be where the area is cut.                 *)
Patterns == { Pattern(<<"a">>, FALSE), Pattern(<<"a", ".">>, FALSE), Pattern(<<".", "a">>, FALSE) }
Matches(p) == { q \in Positions : MatchesAt(Textline(text, q.y), q.x, p) }
Furthest(set, Beyond(_, _)) ==
    IF set = {} THEN Nowhere ELSE CHOOSE q \in set : \A r \in set : ~Beyond(r, q)
Reaches(r, p) == IF p = Nowhere THEN ~r.found ELSE r.found /\ r.pos = p
SearchIsCyclic ==
    LET end == Textline(text, LastLine(text))
        anywhere == /\ end = <<>> \/ IsSpace(Last(end))
                    /\ cursor \notin {Bottom(text), Cursor(0, 0)}
    IN  Reads /\ anywhere => \A p \in Patterns :
          LET next == NthAfter(Matches(p), 1, Furthest(Matches(p), Before))
              previous == NthBefore(Matches(p), 1, Furthest(Matches(p), LAMBDA q, r : Before(r, q)))
          IN  /\ next.y # cursor.y \/ Before(cursor, next) =>
                   Reaches(DoSearch(text, p, cursor, FALSE), next)
              /\ previous.y # cursor.y \/ Before(previous, cursor) =>
                   Reaches(DoSearch(text, p, cursor, TRUE), previous)

(* YZAction::copyArea and deleteArea, which work on lines, agree with the  *)
(* region of the text the area is: any area from the cursor on.            *)
Places == UNION { { Cursor(x, y) : x \in 0..GetLineLength(text, y) } : y \in 0..LastLine(text) }
Areas == { ClosedInterval(cursor, p) : p \in { q \in Positions : ~Before(q, cursor) } }
         \cup { OpenInterval(cursor, p) : p \in { q \in Places : ~Before(q, cursor) } }
AreasAreCut ==
    Reads => \A i \in Areas :
      /\ DeleteArea(text, i) = DeleteRegion(text, i)
      /\ CopyArea(text, i).list = DataRegion(text, i)

(* What d and dd take P puts back, where the cursor could stay at the start*)
(* of the area; p does it after the last lines (deleteArea, deleteLine,    *)
(* pasteContent).  Lines taken from the first one on are not put back.     *)
PasteRestoresDeleted ==
    Reads =>
      /\ \A i \in Areas :
           LET t == DeleteArea(text, i)
           IN  InView(t, cursor) = cursor => Paste(t, cursor, Deleted(text, i), FALSE).text = text
      /\ cursor.y > 0 => \A n \in {1, 2} :
           LET t == DeleteLines(text, cursor.y, n)
               atEnd == cursor.y + n >= LineCount(text)
           IN  Paste(t, AfterDeleteLines(t, cursor.y), CopyLine(text, cursor.y, n), atEnd).text = text

(* Breaking a line and deleting the break, in either order, changes nothing*)
(* (insertNewLine, and mergeNextLine as the delete key calls it).          *)
BreaksAreJoined ==
    Reads =>
      /\ MergeNextLine(BreakLine(text, cursor), cursor.y, FALSE) = text
      /\ cursor.y < LastLine(text) =>
           BreakLine(MergeNextLine(text, cursor.y, FALSE), EndOfLine(text, cursor.y)) = text

(* D deletes the lines a selection touches and no other, d the same of a   *)
(* selection of lines unless it ends with the text, and changing case puts *)
(* back as many characters (YModeVisual::deleteWholeLines, buildBuffer-    *)
(* Interval, replaceArea).  At the end of the text a line stays behind.    *)
Selects == part = "select" /\ mode \in Selecting
Without(t, first, last) ==
    LET rest == SubSeq(t, 1, first) \o SubSeq(t, last + 2, Len(t))
    IN  IF rest = <<>> THEN << <<>> >> ELSE rest
SelectionsAreEdited ==
    Selects =>
      LET first == Min({start.y, cursor.y})
          last == Max({start.y, cursor.y})
          inside == mode = "visual" \/ last < LastLine(text)
      IN  /\ WithoutLines(text, mode, Selection) = Without(text, first, last)
          /\ mode = "visualLine" /\ inside => DeleteArea(text, Selection) = Without(text, first, last)
          /\ inside => InCase(text, Selection, LAMBDA ch : ch) = text

(* The characters of lines that disappear, blanks aside, are in the text or*)
(* in the register afterwards (deleteArea, deleteLine, mergeNextLine);     *)
(* while typing they stay in the text.                                     *)
CharsIn(lines) ==
    LET InLine(y) == Cardinality({ x \in 1..Len(lines[y]) : NonSpace(lines[y][x]) })
    IN  MapThenSumSet(InLine, 1..Len(lines))
LinesRemovedAreKept ==
    [][LineCount(text') < LineCount(text) =>
         IF mode \in Typing THEN CharsIn(text') = CharsIn(text)
         ELSE CharsIn(text') + CharsIn(register'.list) >= CharsIn(text)]_mcVars

(* :s replaces every first match, or every match, of the lines of its range*)
(* and touches no other (YModeEx::substitute, YBuffer::substitute), for a  *)
(* pattern of one character.  The user guide (userguide.docbook:456-468)   *)
(* promises that of every range.  The code falls short of it in two cases, *)
(* of which nothing is said here.  A change of the last line of the text   *)
(* adds an empty line behind it (setTextline, buffer.cpp:434).  And the    *)
(* search that decides whether anything is done at all overlooks a match in*)
(* column 0, and in the last line of the text.                             *)
Replaced(l, r) ==
    LET at == IF r.all THEN Matching(l, r.what)
              ELSE { i \in Matching(l, r.what) : \A k \in Matching(l, r.what) : i <= k }
    IN  FlattenSeq([ i \in 1..Len(l) |-> IF i - 1 \in at THEN r.with ELSE << l[i] >> ])
SubstituteReplaces ==
    part = "ex" /\ pattern.what = <<>> =>
      \A from, to \in 0..LastLine(text), r \in Replacements :
        LET t == SubstituteLines(text, from, to, r)
            n == LineCount(text)
            matching == { y \in from..to : Matching(text[y + 1], r.what) # {} }
            behind == { y \in from..to : Matching(text[y + 1], r.what) \ {0} # {} }
        IN  from <= to =>
              /\ SubSeq(t, 1, n) = [ y \in 1..n |->
                   IF y - 1 \in from..to THEN Replaced(text[y], r) ELSE text[y] ]
              /\ LastLine(text) \notin matching => Len(t) = n
              /\ behind \ {LastLine(text)} # {} => DoSearch(text, r.what, Cursor(0, from), FALSE).found

-----------------------------------------------------------------------------
(* Columns of what is not blank: :retab keeps them under the tabstop that  *)
(* counts from then on, and changes nothing a second time; < takes at most *)
(* a tabstop from the first one, and what > put in (YModeEx::retab,        *)
(* YZAction::indentLine).                                                  *)
Visible(l, ts) == { << Columns(l, 0, ts)[i - 1], l[i] >> : i \in { k \in 1..Len(l) : NonSpace(l[k]) } }
Leading(l, ts) == Columns(l, 0, ts)[Run(l, 0, IsSpace)]
ColumnsAreKept ==
    part = "tab" =>
      LET l == Textline(text, 0) IN
      \A ts \in Tabstops :
        /\ \A force, expandtab \in BOOLEAN :
             LET new == RetabLine(l, ts, force, expandtab)
             IN  /\ Visible(new, ts) = Visible(l, ts)
                 /\ RetabLine(new, ts, force, expandtab) = new
        /\ Outdented(Indented(l, 1, ts), ts) = l
        /\ Leading(Outdented(l, ts), ts) = Max({0, Leading(l, ts) - ts})

(* Tab after Tab, the proposals take turns behind what was there, and the  *)
(* last of them is what was typed (YModeEx::completeCommandLine).  Not so  *)
(* behind two words and a blank: there the blank is taken for the word.    *)
CommandLineComesBack ==
    possibilities # <<>> =>
      /\ proposal \in 1..Len(possibilities)
      /\ Cardinality(WordStarts(typed)) < 2 \/ NonSpace(Last(typed)) =>
           /\ line = Chop(typed, Len(searched)) \o possibilities[proposal]
           /\ proposal = Len(possibilities) => line = typed

(* While a word of the text is completed, whichever way and however often, *)
(* the rest of its line stays, and the line is as it was exactly when the  *)
(* first proposal is back (YModeCompletion::doComplete).  The others are   *)
(* the words that begin like it, each once: of the text, other buffers and *)
(* tags (initCompletion, completeFromCurrentBuffer).  Nothing is said of   *)
(* the words of the text behind it if C-p came first.  They should be among*)
(* them, the list being walked "wrapping all the way around"               *)
(* (mode_complete.cpp:310-313); the code stops at the start of the text.   *)
IsWordAt(l, i, j) ==
    /\ i <= j /\ \A k \in i..j : IsWord(l[k])
    /\ i = 1 \/ ~IsWord(l[i - 1])
    /\ j = Len(l) \/ ~IsWord(l[j + 1])
WordsOfLine(l) ==
    { << i - 1, SubSeq(l, i, j) >> : << i, j >> \in
        { ij \in (1..Len(l)) \X (1..Len(l)) : IsWordAt(l, ij[1], ij[2]) } }
WordsIn(t) ==
    UNION { { << Cursor(w[1], y), w[2] >> : w \in WordsOfLine(t[y + 1]) } : y \in 0..Len(t) - 1 }
WordsAreCompleted ==
    Completing =>
      LET at == mCompletionStart
          original == [text EXCEPT ![at.y + 1] = typed]
          shown == mProposedCompletions[mCurrentProposal + 1]
          cameForward == mForward = (mLastKey = "C-n")
          Proposable(words) == { word \in words : IsPrefix(mPrefix, word) }
          others == { w \in WordsIn(original) : w[1] # at }
          behind == { w \in others : ~Before(w[1], at) }
          optional == IF cameForward THEN {} ELSE behind
          elsewhere == UNION { WordsIn(OtherTexts[k]) : k \in 1..Len(OtherTexts) }
          Words(found) == { w[2] : w \in found \cup elsewhere } \cup Range(TagNames)
      IN  /\ text[at.y + 1] = Left(typed, at.x) \o shown \o Mid(typed, at.x + Len(mPrefix))
          /\ cursor = Cursor(at.x + Len(shown), at.y)
          /\ mCurrentProposal = 0 <=> text = original
          /\ IsInjective(mProposedCompletions)
          /\ Proposable(Words(others \ optional)) \subseteq Range(mProposedCompletions)
          /\ Range(mProposedCompletions) \subseteq { mPrefix } \cup Proposable(Words(others))
          /\ mProposedCompletions[1] = mPrefix

(* Completions come back to what was typed, on the command line and in the *)
(* text.                                                                   *)
CompletionComesBack == CommandLineComesBack /\ WordsAreCompleted

-----------------------------------------------------------------------------
(* Motions to a word or a character, and searches, go where reading the    *)
(* text goes.                                                              *)
MotionsFindWords ==
    /\ TypeOK /\ ForwardMotionsFindWords /\ BackwardMotionsFindWords
    /\ FindsToTheLeft /\ SearchIsCyclic

(* Edits of areas change the area and nothing else, a break being one      *)
(* character of it; what is deleted can be pasted back.                    *)
AreasAreEdited ==
    AreasAreCut /\ PasteRestoresDeleted /\ BreaksAreJoined /\ SelectionsAreEdited

=============================================================================

------------------------------ MODULE MCTexts ------------------------------
(***************************************************************************)
(* What is computed from texts alone: splicing lines (MCTextRegion), their *)
(* highlighting (MCHighlight), the numbers its rules find, the cells lines *)
(* are drawn with (MCCells) and the selections that say what to draw; and  *)
(* options, which are set by texts (MCOptions).                            *)
(* They share nothing but `text', and a behaviour moves one, its `part'.   *)
(***************************************************************************)
EXTENDS MCHighlight, MCOptions

CONSTANTS x, y, LineBreakChar, NumberChar, MaxDigits, LetterA, Tab, Blank

VARIABLES part, number, lines, list, selected

Region == INSTANCE MCTextRegion WITH Char <- {x, y}

Screen == INSTANCE MCCells WITH Letter <- LetterA, Columns <- 3, Tabstop <- 2, MaxChars <- 4, MaxPair <- 2

Selection == INSTANCE Selection

allVars == << part, text, hl, number, lines, list, selected, optionVars >>

-----------------------------------------------------------------------------
(* The intervals painting collects begin with a closed bound.              *)
Pos == [x : 0..1, y : 0..2]
Has(i, p) ==
    /\ Selection!Less(i.from.pos, p) \/ (p = i.from.pos /\ ~i.from.open)
    /\ Selection!Less(p, i.to.pos) \/ (p = i.to.pos /\ ~i.to.open)
PosOf(map) == { p \in Pos : \E n \in DOMAIN map : Has(map[n], p) }

Areas ==
    { i \in [from : [pos : Pos, open : {FALSE}], to : [pos : Pos, open : BOOLEAN]] :
        Selection!Valid(i) /\ PosOf(<< i >>) # {} }

SendPaintEvent ==
    /\ Len(selected) < 3
    /\ \E i \in Areas : selected' = Selection!AddInterval(selected, i)

TextsInit ==
    /\ part \in {"regions", "highlight", "numbers", "cells", "selections", "options"}
    /\ Init
    /\ IF part = "cells" THEN Screen!Init ELSE lines = << <<>> >> /\ list = FALSE
    /\ number = <<>>
    /\ selected = <<>>
    /\ IF part = "options" THEN OptionsInit ELSE OptionsInitOf(<<>>)

Others == << part, optionVars >>

TextsNext ==
    \/ part = "regions" /\ Region!Next /\ UNCHANGED << Others, hl, number, lines, list, selected >>
    \/ part = "highlight" /\ MCNext /\ UNCHANGED << Others, number, lines, list, selected >>
    \/ /\ part = "numbers" /\ Len(number) < MaxDigits
       /\ \E c \in NumberChar : number' = Append(number, c)
       /\ UNCHANGED << Others, text, hl, lines, list, selected >>
    \/ part = "cells" /\ Screen!Next /\ UNCHANGED << Others, text, hl, number, selected >>
    \/ part = "selections" /\ SendPaintEvent /\ UNCHANGED << Others, text, hl, number, lines, list >>
    \/ part = "options" /\ OptionsNext /\ UNCHANGED << part, text, hl, number, lines, list, selected >>

TextsSpec == TextsInit /\ [][TextsNext]_allVars

-----------------------------------------------------------------------------
(* insertRegion, deleteRegion and dataRegion are splices of the text, and  *)
(* their opposites take them back: see MCTextRegion.                       *)
EditsAreSplices == part = "regions" => Region!EditsAreSplices /\ Region!EditsAreUndone

(* What updateHL highlights again after an edit: see MCHighlight.          *)
HighlightFollowsEdits ==
    [][part = "highlight" /\ AllFresh => EditsInLineKeepItRight /\ AtMostOneWrong]_allVars

-----------------------------------------------------------------------------
(* The rules for numbers find the longest number where they look, but give *)
(* a number up that is followed by an E without an exponent.               *)
Only(s, chars) == ToSet(s) \subseteq chars
IsInt(s) == s # <<>> /\ Only(s, Digit)
IsPointed(s) == Len(s) > 1 /\ \E k \in 1..Len(s) : s[k] = "." /\ Only(RemoveAt(s, k), Digit)
IsExponent(s) == IsInt(s) \/ (s # <<>> /\ s[1] \in {"+", "-"} /\ IsInt(Tail(s)))
IsFloat(s) ==
    \/ IsPointed(s)
    \/ \E k \in 2..Len(s) : LET m == SubSeq(s, 1, k - 1)
                            IN  /\ s[k] = "E" /\ IsExponent(SubSeq(s, k + 1, Len(s)))
                                /\ IsInt(m) \/ IsPointed(m)
Without(s, suffix) == IF s # <<>> /\ Last(s) \in suffix THEN Front(s) ELSE s
IsOct(s) ==
    LET o == Without(s, {"L"}) IN Len(o) > 1 /\ o[1] = "0" /\ Only(o, OctalDigit)
IsHex(s) ==
    LET h == Without(s, {"L", "U"})
    IN  Len(h) > 2 /\ SubSeq(h, 1, 2) = << "0", "X" >> /\ Only(SubSeq(h, 3, Len(h)), HexDigit)
IsCFloat(s) == IsFloat(Without(s, {"F"}))

Longest(Is(_), offset) ==
    LET ends == { e \in offset + 1..Len(number) : Is(SubSeq(number, offset + 1, e)) }
    IN  IF ends = {} THEN 0 ELSE CHOOSE e \in ends : \A d \in ends : d <= e

NumbersAreFound ==
    part = "numbers" =>
      \A offset \in 0..Len(number) - 1 :
        /\ CInt(number, offset) = Longest(IsInt, offset)
        /\ COct(number, offset) = Longest(IsOct, offset)
        /\ CHex(number, offset) = Longest(IsHex, offset)
        /\ LET float == Longest(IsFloat, offset)
           IN  IF At(number, float) = "E" /\ float = Longest(IsPointed, offset) /\ float > 0
               THEN Float(number, offset) = 0 /\ CFloat(number, offset) = 0
               ELSE Float(number, offset) = float /\ CFloat(number, offset) = Longest(IsCFloat, offset)

-----------------------------------------------------------------------------
(* Lines are drawn in rows that fit, positions and columns agree, and      *)
(* painting an interval and marking a selection reach exactly their cells. *)
LinesAreDrawn ==
    part = "cells" =>
      /\ Screen!RowsAreTheLine /\ Screen!CursorsAgree
      /\ Screen!PaintsTheInterval /\ Screen!MarksTheSelection

(* What has to be painted is what was and what is added to it, unless the  *)
(* new area covers one that is not the last: then the area behind that one *)
(* is forgotten.  Clipped to a screen of one column and two rows, areas    *)
(* begin and end on it, and none of its cells is forgotten but in an area  *)
(* that begins at the last; an open end may be painted too.                *)
Covered(i) == \E n \in 1..Len(selected) - 1 : PosOf(<< selected[n] >>) \subseteq PosOf(<< i >>)

LastCell == [x |-> 0, y |-> 1]
OnScreen == { p \in Pos : p.x = 0 /\ p.y <= 1 }
Begins == { selected[n].from.pos : n \in DOMAIN selected }
Ends == { selected[n].to.pos : n \in DOMAIN selected }

AreasAreClipped ==
    LET AreRight(clipped) ==
          /\ \A n \in DOMAIN clipped : {clipped[n].from.pos, clipped[n].to.pos} \subseteq OnScreen
          /\ PosOf(clipped) \subseteq PosOf(selected) \cup Ends
          /\ LastCell \notin Begins => OnScreen \cap PosOf(selected) \subseteq PosOf(clipped)
    IN  AreRight(Selection!Clip(selected, Selection!Between(Selection!Closed([x |-> 0, y |-> 0]),
                                                            Selection!Closed(LastCell))))

AreasAreCollected ==
    part = "selections" =>
      /\ \A n \in 1..Len(selected) - 1 : Selection!Below(selected[n].to, selected[n + 1].from)
      /\ \A i \in Areas :
           LET Joined(added) ==
                 /\ PosOf(<< i >>) \subseteq added
                 /\ added \subseteq PosOf(selected) \cup PosOf(<< i >>)
                 /\ ~Covered(i) => PosOf(selected) \subseteq added
           IN  Joined(PosOf(Selection!AddInterval(selected, i)))
      /\ AreasAreClipped

-----------------------------------------------------------------------------
(* An entry reaches its scope, and options last: see MCOptions.            *)
OptionsAreScoped == part = "options" => EntriesAreScoped
OptionsAreKept == part = "options" => ValuesAreKept
=============================================================================

------------------------------ MODULE HlItems ------------------------------
(***************************************************************************)
(* The rules of a syntax definition: what each kind of YzisHlItem makes of *)
(* a line at an offset (src/libyzis/kate/syntaxhighlight.cpp, checkHgl).   *)
(* The result is the offset behind what matched, 0 if nothing did.         *)
(*                                                                         *)
(* A line is a sequence of characters; offsets count from 0.  Left out are *)
(* regular expressions, case-insensitive rules, the ids for folding (no    *)
(* caller of doHighlight keeps its folding list) and dynamic contexts.     *)
(***************************************************************************)
EXTENDS Integers, Sequences, FiniteSets

Digit == {"0", "1", "2", "3", "4", "5", "6", "7", "8", "9"}
OctalDigit == Digit \ {"8", "9"}
HexDigit == Digit \cup {"A", "B", "C", "D", "E", "F"}
Letter == {"a", "b", "e", "f", "n", "r", "t", "v", "x", "L", "U", "X"} \cup (HexDigit \ Digit)
Space == {" ", "\t"}

(* stdDeliminator                                                          *)
Deliminator ==
    {" ", "\t", ".", "(", ")", ":", "!", "+", ",", "-", "<", "=", ">", "%", "&",
     "*", "/", ";", "?", "[", "]", "^", "{", "|", "}", "~", "\\"}

(* QString::operator[]: a string is followed by a NUL.                     *)
At(text, i) == IF i < Len(text) THEN text[i + 1] ELSE "NUL"
In(text, i, chars) == i < Len(text) /\ At(text, i) \in chars

(* The first offset, from the one given on, that has none of the chars;    *)
(* `most' of them are passed at most.                                      *)
Skip(text, offset, chars, most) ==
    LET passed(n) == \A i \in offset..offset + n - 1 : In(text, i, chars)
    IN  CHOOSE end \in offset..Len(text) :
          /\ passed(end - offset) /\ end - offset <= most
          /\ end - offset = most \/ ~In(text, end, chars)
SkipAll(text, offset, chars) == Skip(text, offset, chars, Len(text))

-----------------------------------------------------------------------------
(* DetectChar, Detect2Chars, StringDetect: the characters, one by one.     *)
Literal(s, text, offset) ==
    IF /\ offset + Len(s) <= Len(text)
       /\ \A i \in 1..Len(s) : text[offset + i] = s[i]
    THEN offset + Len(s) ELSE 0

(* RangeDetect: from one character to the next occurrence of the other.    *)
RangeDetect(s, text, offset) ==
    LET ends == { i \in offset + 1..Len(text) - 1 : At(text, i) = s[2] }
    IN  IF At(text, offset) # s[1] \/ ends = {} THEN 0
        ELSE 1 + CHOOSE i \in ends : \A j \in ends : i <= j

(* The word up to the next delimiter, if it is in the list.                *)
Keyword(words, text, offset) ==
    LET longest == CHOOSE n \in { Len(w) : w \in words } : \A w \in words : Len(w) <= n
        end == CHOOSE e \in offset..Len(text) :
                 /\ \A i \in offset..e - 1 : At(text, i) \notin Deliminator
                 /\ e = Len(text) \/ At(text, e) \in Deliminator
    IN  IF end - offset <= longest /\ SubSeq(text, offset + 1, end) \in words THEN end ELSE 0

AnyChar(chars, text, offset) == IF At(text, offset) \in chars THEN offset + 1 ELSE 0

CInt(text, offset) ==
    LET end == SkipAll(text, offset, Digit) IN IF end > offset THEN end ELSE 0

(* Digits with a point among them, or an exponent, or both: what follows  *)
(* the sign of an exponent, the digits behind a point, and the first ones. *)
Exponent(text, from) ==
    LET Digits(end) == IF end > from THEN end ELSE 0 IN Digits(SkipAll(text, from, Digit))
Fraction(text, offset, point, end) ==
    IF end - offset = (IF point THEN 1 ELSE 0) THEN 0  \* not one digit
    ELSE IF ~In(text, end, {"E"}) THEN IF point THEN end ELSE 0
    ELSE Exponent(text, IF In(text, end + 1, {"-", "+"}) THEN end + 2 ELSE end + 1)
Float(text, offset) ==
    LET end == SkipAll(text, offset, Digit)
        point == In(text, end, {"."})
    IN  Fraction(text, offset, point, IF point THEN SkipAll(text, end + 1, Digit) ELSE end)

(* A suffix is looked for where the number ends, but U where it begins.    *)
COct(text, offset) ==
    LET end == SkipAll(text, offset + 1, OctalDigit)
    IN  IF At(text, offset) # "0" \/ end = offset + 1 THEN 0
        ELSE IF In(text, end, {"L"}) THEN end + 1 ELSE end

CHexWithoutDigit(text, offset) ==  \* Slip: 0X alone is a number
    LET end == SkipAll(text, offset + 2, HexDigit)
    IN  IF Literal(<< "0", "X" >>, text, offset) = 0 THEN 0
        ELSE IF In(text, end, {"L", "U"}) THEN end + 1 ELSE end

CHex(text, offset) ==
    LET end == SkipAll(text, offset + 2, HexDigit)
    IN  IF Literal(<< "0", "X" >>, text, offset) = 0 \/ end = offset + 2 THEN 0
        ELSE IF In(text, end, {"L", "U"}) THEN end + 1 ELSE end

(* A float and an F.  checkIntHgl, for integers with an F, tests the same  *)
(* digit over and over, to the end of the line, where there is no F.       *)
CFloat(text, offset) ==
    LET Suffixed(end) == IF end > 0 /\ At(text, end) = "F" THEN end + 1 ELSE end
    IN  Suffixed(Float(text, offset))

LineContinue(text, offset) ==
    IF offset = Len(text) - 1 /\ At(text, offset) = "\\" THEN offset + 1 ELSE 0

(* checkEscapedChar: \n and its like, \x with two digits, \0 with three.   *)
EscapedChar(text, offset) ==
    LET kind == At(text, offset + 1)
        hex == Skip(text, offset + 2, HexDigit, 2)
    IN  IF At(text, offset) # "\\" \/ offset + 1 >= Len(text) THEN 0
        ELSE IF kind \in {"a", "b", "e", "f", "n", "r", "t", "v", "'", "\"", "?", "\\"} THEN offset + 2
        ELSE IF kind = "x" THEN IF hex > offset + 2 THEN hex ELSE 0
        ELSE IF kind \in OctalDigit THEN Skip(text, offset + 1, OctalDigit, 3)
        ELSE 0

(* A character between quotes, escaped or not, but no quote.               *)
CChar(text, offset) ==
    LET Closed(end) ==
          IF In(text, offset, {"'"}) /\ offset + 1 < Len(text) /\ At(text, offset + 1) # "'"
             /\ In(text, end, {"'"})
          THEN end + 1 ELSE 0
        Inside(escaped) == Closed(IF escaped > 0 THEN escaped ELSE offset + 2)
    IN  Inside(EscapedChar(text, offset + 1))

DetectIdentifier(text, offset) ==
    IF At(text, offset) \in Letter \cup {"_"}
    THEN SkipAll(text, offset + 1, Letter \cup Digit \cup {"_"}) ELSE 0

DetectSpaces(text, offset) == SkipAll(text, offset, Space)

-----------------------------------------------------------------------------
(* The kinds of YzisHlItem, by what their argument is.                     *)
Number(kind, text, offset) ==
    CASE kind = "Int" -> CInt(text, offset)
      [] kind = "Float" -> Float(text, offset)
      [] kind = "HlCOct" -> COct(text, offset)
      [] kind = "HlCHex" -> CHex(text, offset)
      [] kind = "HlCFloat" -> CFloat(text, offset)

WithoutArgument(kind, text, offset) ==
    CASE kind \in {"Int", "Float", "HlCOct", "HlCHex", "HlCFloat"} -> Number(kind, text, offset)
      [] kind = "LineContinue" -> LineContinue(text, offset)
      [] kind = "HlCStringChar" -> EscapedChar(text, offset)
      [] kind = "HlCChar" -> CChar(text, offset)
      [] kind = "DetectSpaces" -> DetectSpaces(text, offset)
      [] kind = "DetectIdentifier" -> DetectIdentifier(text, offset)

Plain(item, text, offset) ==
    CASE item.kind \in {"DetectChar", "Detect2Chars", "StringDetect"} -> Literal(item.arg, text, offset)
      [] item.kind = "RangeDetect" -> RangeDetect(item.arg, text, offset)
      [] item.kind = "keyword" -> Keyword(item.arg, text, offset)
      [] item.kind = "AnyChar" -> AnyChar(item.arg, text, offset)
      [] OTHER -> WithoutArgument(item.kind, text, offset)

(* Only numbers look at their sub-rules: those may go on where it ends.    *)
FirstEnd(end, ends) ==
    IF \E i \in DOMAIN ends : ends[i] > 0
    THEN ends[CHOOSE i \in DOMAIN ends : ends[i] > 0 /\ \A j \in 1..i - 1 : ends[j] = 0]
    ELSE end
GoesOn(item, text, end) ==
    IF item.kind \notin {"Int", "Float"} \/ end = 0 \/ end = Len(text) THEN end
    ELSE FirstEnd(end, [i \in 1..Len(item.subItems) |-> Plain(item.subItems[i], text, end)])
CheckHgl(item, text, offset) == GoesOn(item, text, Plain(item, text, offset))
=============================================================================

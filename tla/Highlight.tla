----------------------------- MODULE Highlight -----------------------------
(***************************************************************************)
(* Syntax highlighting of a text that is edited.  A line is highlighted    *)
(* from where the line before it left off: a stack of contexts (numbers    *)
(* into the list of a syntax definition) and whether the line continues.   *)
(* doHighlight (src/libyzis/kate/syntaxhighlight.cpp) does one line;       *)
(* YBuffer::updateHL does those after an edit, until a line ends as it did *)
(* before.  Edits are those of TextRegion.                                 *)
(*                                                                         *)
(* A definition is a sequence of contexts as its file has them:            *)
(*   [name, attr, lineEnd, fallthrough, items]  with items                 *)
(*   [kind, arg, attr, context, lookAhead, ...]                            *)
(* where contexts are referred to by #stay, #pop and by name.              *)
(***************************************************************************)
EXTENDS TextRegion, HlItems

CONSTANT Definition

Stay == -1

ContextNameList == [i \in 1..Len(Definition) |-> Definition[i].name]

(* getIdFromString: a context is -1 to stay, -1-n to pop n, or the number  *)
(* of the context with that name.                                          *)
GetId(reference) ==
    CASE reference.to = "#stay" -> Stay
      [] reference.to = "#pop" -> Stay - reference.times
      [] OTHER -> (CHOOSE i \in 1..Len(Definition) : ContextNameList[i] = reference.to) - 1

(* createYzisHlItem and the constructors: a rule without an attribute only *)
(* consumes; numbers and identifiers need a delimiter before them.         *)
NoAttribute == -1
CreateItem(d) ==
    [ kind |-> d.kind, arg |-> d.arg, attr |-> d.attr, ctx |-> GetId(d.context),
      onlyConsume |-> d.attr = NoAttribute, lookAhead |-> d.lookAhead,
      firstNonSpace |-> d.firstNonSpace, column |-> d.column, subItems |-> d.subItems,
      alwaysStartEnable |->
        d.kind \notin {"keyword", "Int", "Float", "HlCOct", "HlCHex", "HlCFloat", "DetectIdentifier"} ]

(* addToContextList.  A rule may have rules below it: see CheckHgl.        *)
Items(d) == [k \in 1..Len(d.items) |-> CreateItem(d.items[k])]

(* "fallthrough is not smart in context 0".             *)
Contexts ==
    [ i \in 1..Len(Definition) |->
        LET d == Definition[i]
            to == GetId(d.fallthrough)
        IN  [ attr |-> d.attr, ctx |-> GetId(d.lineEnd),
              items |-> Items(d),
              fallthrough |-> i > 1 /\ to # Stay, ftctx |-> to ] ]

ContextNum(n) == Contexts[n + 1]

-----------------------------------------------------------------------------
(* generateContextStack: where `ctx' leads from a stack.  `previous' is the*)
(* position of the topmost context the line before left there; one that is *)
(* popped to leaves by its own line end.                                   *)
Top(stack) == IF stack = <<>> THEN 0 ELSE Last(stack)

Place == [stack : Seq(Nat), num : Nat, previous : Int]
PlaceOn(stack, previous) == [stack |-> stack, num |-> Top(stack), previous |-> previous]

GenerateContextStack[ctx \in Int, at \in Place] ==
    LET size == Len(at.stack) + ctx + 1
        popped == SubSeq(at.stack, 1, size)
        leaving == at.previous >= size - 1
        left == ContextNum(Top(popped)).ctx
    IN  IF ctx >= 0 THEN PlaceOn(Append(at.stack, ctx), at.previous)
        ELSE IF ctx = Stay THEN PlaceOn(at.stack, at.previous)
        ELSE IF ~leaving \/ popped = <<>> \/ left = Stay
        THEN PlaceOn(popped, IF leaving THEN Len(popped) - 1 ELSE at.previous)
        ELSE GenerateContextStack[left, PlaceOn(popped, Len(popped) - 1)]

(* What is kept of a highlighted line (YLine); a new line has nothing.     *)
NewLine == [ctx |-> <<>>, hlLineContinue |-> FALSE, attributes |-> <<>>]

(* doHighlight up to its loop: the context at the start of the line.  (A   *)
(* line continued from the one before stays in its context.)               *)
AtLineStart(prevLine) ==
    LET stack == prevLine.ctx
        inside == PlaceOn(stack, Len(stack) - 1)
    IN  IF stack = <<>> \/ prevLine.hlLineContinue THEN inside
        ELSE GenerateContextStack[ContextNum(inside.num).ctx, inside]

(* The rules that match at an offset, in the order of the context.         *)
FirstChar(text) ==
    IF \E i \in 1..Len(text) : text[i] \notin Space
    THEN SkipAll(text, 0, Space) ELSE Len(text)

Tried(item, text, offset) ==
    /\ item.firstNonSpace => offset <= FirstChar(text)
    /\ item.column \in {-1, offset}
    /\ item.alwaysStartEnable \/ (IF offset = 0 THEN " " ELSE At(text, offset - 1)) \in Deliminator

Matching(items, text, offset) ==
    SelectSeq([ i \in 1..Len(items) |->
                  [rule |-> items[i],
                   end |-> IF Tried(items[i], text, offset) THEN CheckHgl(items[i], text, offset) ELSE 0] ],
              LAMBDA match : match.end > offset)

(* doHighlight's loop: the first rule that matches switches the context and*)
(* colours what it matched, unless it only looks ahead; where none matches,*)
(* the context falls through to another one or colours one character.      *)
Colours(attr, n) == [i \in 1..n |-> attr]

Switch(done, rule, end) ==
    LET to == IF rule.ctx = Stay THEN done.at ELSE GenerateContextStack[rule.ctx, done.at]
        attr == IF rule.onlyConsume THEN ContextNum(to.num).attr ELSE rule.attr
    IN  [offset |-> end, at |-> to, attributes |-> done.attributes \o Colours(attr, end - done.offset),
         continues |-> rule.kind = "LineContinue"]

Pass(done, context) ==
    IF context.fallthrough
    THEN [done EXCEPT !.at = GenerateContextStack[context.ftctx, @], !.continues = FALSE]
    ELSE [done EXCEPT !.offset = @ + 1, !.attributes = Append(@, context.attr), !.continues = FALSE]

Try(done, context, matching) ==
    IF matching = <<>> THEN Pass(done, context)
    ELSE LET rule == matching[1].rule
         IN  Switch(done, rule, IF rule.lookAhead THEN done.offset ELSE matching[1].end)

TryIn(done, context, text) == Try(done, context, Matching(context.items, text, done.offset))

DoHighlight(prevLine, text) ==
    LET Done == [offset : 0..Len(text), at : Place, attributes : Seq(Int), continues : BOOLEAN]
        loop[done \in Done] ==
          IF done.offset = Len(text)
          THEN [ctx |-> done.at.stack, attributes |-> done.attributes, hlLineContinue |-> done.continues]
          ELSE loop[TryIn(done, ContextNum(done.at.num), text)]
    IN  loop[[offset |-> 0, at |-> AtLineStart(prevLine), attributes |-> <<>>, continues |-> FALSE]]

-----------------------------------------------------------------------------
(* What is kept of the line before: nothing, of the line before line 0.    *)
Before(hl, n) == IF n = 0 THEN NewLine ELSE hl[n]

UpdateOneLine(text, hl, line) ==  \* Slip: the lines after it are not looked at
    [hl |-> [hl EXCEPT ![line + 1] = DoHighlight(Before(hl, line), text[line + 1])],
     next |-> line + 1]

(* YBuffer::updateHL: from a line on, until one that is not empty ends in  *)
(* the contexts it ended in before.  `next' is the line behind the last one*)
(* it counts as changed.                                                   *)
Updated(done, new, n, isEmpty) ==
    LET changed == new.ctx # done.hl[n].ctx
        empty == IF changed THEN 0 ELSE IF isEmpty THEN done.empty + 1 ELSE done.empty
    IN  [hl |-> [done.hl EXCEPT ![n] = new], empty |-> empty, going |-> changed \/ isEmpty, next |-> n - empty]

UpdateHL(text, hl, line) ==
    LET Update(done, n) ==
          IF ~done.going \/ n <= line THEN done
          ELSE Updated(done, DoHighlight(Before(done.hl, n - 1), text[n]), n, text[n] = <<>>)
    IN  FoldLeftDomain(Update, [hl |-> hl, going |-> TRUE, empty |-> 0, next |-> line], text)

(* The end of insertRegion, the rows of hl being those of `text': each of  *)
(* the lines that were written to, and those after it.                     *)
Inserted(done, n) == [hl |-> done.hl, next |-> IF done.next > n THEN done.next ELSE n]

UpdateInserted(text, hl, first, last) ==
    LET Update(done, n) ==  \* what is highlighted up to line n, at least
          IF n < first + 1 \/ n > last + 1 \/ done.next >= n THEN done
          ELSE Inserted(UpdateHL(text, done.hl, n - 1), n)
    IN  FoldLeftDomain(Update, [hl |-> hl, next |-> first], text).hl

-----------------------------------------------------------------------------
VARIABLES
    text,  \* the lines of the buffer
    hl     \* what each keeps of its highlighting

vars == << text, hl >>

InText(pos) == LineExists(text, pos.y) /\ ColumnExists(text, pos)

(* YBuffer::insertRegion, its lines and their highlighting: the first line *)
(* is the one that was there, those after it are new.                      *)
Insert(pos, data) ==
    /\ InText(pos)
    /\ text' = InsertRegion(text, pos, data)
    /\ LET new == [i \in 1..Len(data) - 1 |-> NewLine]
           lines == SubSeq(hl, 1, pos.y + 1) \o new \o SubSeq(hl, pos.y + 2, Len(hl))
       IN  hl' = UpdateInserted(text', lines, pos.y, pos.y + Len(data) - 1)

(* YBuffer::deleteRegion: the first line stays, and is where updateHL      *)
(* begins; the lines erased take their highlighting along.                 *)
Delete(bi) ==
    /\ InText(bi.from) /\ InText(EndCursor(bi))
    /\ text' = DeleteRegion(text, bi)
    /\ LET lines == SubSeq(hl, 1, bi.from.y + 1) \o SubSeq(hl, EndCursor(bi).y + 2, Len(hl))
       IN  hl' = UpdateHL(text', lines, bi.from.y).hl

(* YBuffer::makeAttribs, when a definition is chosen or its colours change.*)
MakeAttribs ==
    /\ hl' = LET all[n \in 0..Len(text)] ==
                   IF n = 0 THEN <<>>
                   ELSE Append(all[n - 1], DoHighlight(Before(all[n - 1], n - 1), text[n]))
             IN  all[Len(text)]
    /\ UNCHANGED text

Init == text = << <<>> >> /\ hl = << NewLine >>

(* A line shows what it should, given the line before it.                  *)
Fresh(n) == hl[n] = DoHighlight(Before(hl, n - 1), text[n])
AllFresh == \A n \in 1..Len(text) : Fresh(n)
=============================================================================

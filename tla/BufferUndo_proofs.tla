------------------------- MODULE BufferUndo_proofs -------------------------
(***************************************************************************)
(* What undo and redo restore (UndoRestoresText, ReplayInText of           *)
(* MCBuffer), for any text, commands and characters, undo lists of any     *)
(* length, and a user who edits, undoes, redoes, saves, leaves and starts  *)
(* the program in any order. Every recorded operation is shown to lead     *)
(* from a text to the next (Step) and back; the operations of an item lead *)
(* from the text before it to the text after it (Chain), those of an undo  *)
(* list through all the texts remembered (Past), and an undo or redo under *)
(* way is on the path between two of them (Now). Deleting the last line is *)
(* the one edit that is not undone exactly: it records an interval that    *)
(* ends on a line the text does not have, and undoing it leaves an empty   *)
(* line. The texts of the list are therefore known but for empty lines at  *)
(* their end, and every operation leads from a text to the next whatever   *)
(* empty lines follow.                                                     *)
(***************************************************************************)
EXTENDS Buffer_proofs

(* Are all commands undone exactly?  Not those that delete the last line.  *)
Exact == Commands \cap {"deleteLastLine", "mergeLastLine"} = {}

(* The empty lines undo may leave at the end of a text.                    *)
EmptyLines == Seq({<<>>})
Empties == IF Exact THEN {<<>>} ELSE EmptyLines

(* Sequences of empty lines: closed under concatenation, and texts can end *)
(* with them.                                                              *)
LEMMA EmptyLinesProperties ==
    /\ <<>> \in EmptyLines
    /\ EmptyLines \subseteq Seq(Line)
    /\ << <<>> >> \in EmptyLines
    /\ \A u \in EmptyLines, v \in EmptyLines : u \o v \in EmptyLines
    /\ \A u \in EmptyLines : \A i \in DOMAIN u : u[i] = <<>>
<1>1. <<>> \in EmptyLines /\ << <<>> >> \in EmptyLines
    BY EmptySeq DEF EmptyLines
<1>2. {<<>>} \subseteq Line
    BY EmptySeq DEF Line
<1>3. EmptyLines \subseteq Seq(Line)
    BY <1>2 DEF EmptyLines
<1>4. \A u \in EmptyLines, v \in EmptyLines : u \o v \in EmptyLines
    BY ConcatProperties DEF EmptyLines
<1>5. \A u \in EmptyLines : \A i \in DOMAIN u : u[i] = <<>>
    BY DEF EmptyLines
<1> QED BY <1>1, <1>3, <1>4, <1>5

(* The ends that undo may leave.                                           *)
LEMMA EmptiesProperties ==
    /\ Empties \subseteq EmptyLines
    /\ <<>> \in Empties
    /\ \A u \in Empties, v \in Empties : u \o v \in Empties
    /\ ~Exact => << <<>> >> \in Empties
<1>1. CASE Exact
    <2>1. <<>> \o <<>> = <<>>
        OBVIOUS
    <2> QED BY <1>1, <2>1, EmptyLinesProperties DEF Empties
<1>2. CASE ~Exact
    BY <1>2, EmptyLinesProperties DEF Empties
<1> QED BY <1>1, <1>2

(* A text with empty lines behind it is a text.                            *)
LEMMA LongerText ==
    ASSUME NEW t \in Text, NEW u \in EmptyLines
    PROVE  t \o u \in Text /\ t \o <<>> = t
<1>1. t \in Seq(Line) /\ Len(t) >= 1 /\ u \in Seq(Line)
    BY EmptyLinesProperties DEF Text
<1>2. t \o u \in Seq(Line) /\ Len(t \o u) = Len(t) + Len(u) /\ Len(u) \in Nat /\ Len(t) \in Nat
    BY <1>1, ConcatProperties, LenProperties
<1>3. t \o <<>> = t
    BY <1>1
<1> QED BY <1>1, <1>2, <1>3 DEF Text

(* Empty lines behind empty lines are empty lines.                         *)
LEMMA LinesAssociative ==
    ASSUME NEW t \in Text, NEW u \in EmptyLines, NEW v \in EmptyLines
    PROVE  (t \o u) \o v = t \o (u \o v)
<1>1. t \in Seq(Seq(Char)) /\ u \in Seq(Seq(Char)) /\ v \in Seq(Seq(Char))
    BY EmptyLinesProperties DEF Text, Line
<1> DEFINE L == Seq(Char)
<1>2. t \in Seq(L) /\ u \in Seq(L) /\ v \in Seq(L)
    BY <1>1
<1> HIDE DEF L
<1> QED BY ONLY <1>2, ConcatAssociative

(* What undo() does with an operation, and redo() with Replayed.           *)
Backward(t, op) ==
    IF op.type = "add" THEN DeleteRegion(t, op.interval)
    ELSE InsertRegion(t, op.interval.from, op.data)

(* An operation that leads from a to b, and back, and does so whatever     *)
(* empty lines are behind them.                                            *)
Step(a, op, b) ==
    /\ a \in Text /\ b \in Text
    /\ \A u \in EmptyLines : Replayed(a \o u, op) = b \o u /\ Backward(b \o u, op) = a \o u
    /\ InText(a, op.interval.from)
    /\ InText(b, op.interval.from)

(* More empty lines may lie behind both texts.                             *)
LEMMA StepShift ==
    ASSUME NEW a, NEW op \in Operation, NEW b, Step(a, op, b), NEW v \in EmptyLines
    PROVE  Step(a \o v, op, b \o v)
<1> DEFINE p == op.interval.from
<1>1. a \in Text /\ b \in Text /\ InText(a, p) /\ InText(b, p)
    BY DEF Step
<1>2. a \o v \in Text /\ b \o v \in Text
    BY <1>1, LongerText
<1>3. p.x \in Nat /\ p.y \in Nat /\ p = Cursor(p.x, p.y)
    BY OperationFields, PosIsCursor
<1>4. a \in Seq(Seq(Char)) /\ b \in Seq(Seq(Char)) /\ v \in Seq(Seq(Char))
    BY <1>1, EmptyLinesProperties DEF Text, Line
<1> HIDE DEF p
<1>5. InText(a \o v, p) /\ InText(b \o v, p)
    <2> DEFINE x == p.x
               y == p.y
    <2>1. x \in Nat /\ y \in Nat /\ p = Cursor(x, y)
        BY <1>3
    <2> HIDE DEF x, y
    <2> QED BY <1>1, <1>4, <2>1, ExtendedInText
<1>6. ASSUME NEW u \in EmptyLines
      PROVE  Replayed((a \o v) \o u, op) = (b \o v) \o u /\ Backward((b \o v) \o u, op) = (a \o v) \o u
    <2>1. v \o u \in EmptyLines
        BY EmptyLinesProperties
    <2>2. Replayed(a \o (v \o u), op) = b \o (v \o u) /\ Backward(b \o (v \o u), op) = a \o (v \o u)
        BY <2>1 DEF Step
    <2>4. (a \o v) \o u = a \o (v \o u) /\ (b \o v) \o u = b \o (v \o u)
        BY <1>1, LinesAssociative
    <2> QED BY <2>2, <2>4
<1> QED BY <1>2, <1>5, <1>6 DEF Step, p

(* insertRegion, at a position the text has, records an operation that     *)
(* leads to the new text and back (InsertIsUndone).                        *)
LEMMA StepInsert ==
    ASSUME NEW a \in Text, NEW p \in Pos, InText(a, p), NEW data \in Seq(Line), data # <<>>
    PROVE  Step(a, AddOperation(p, data), InsertRegion(a, p, data))
<1> DEFINE op == AddOperation(p, data)
           b == InsertRegion(a, p, data)
           x == p.x
           y == p.y
<1>1. x \in Nat /\ y \in Nat /\ p = Cursor(x, y)
    BY PosIsCursor
<1>2. a \in Seq(Seq(Char)) /\ data \in Seq(Seq(Char)) /\ Len(a) >= 1
    BY DEF Text, Line
<1>3. /\ op.type = "add" /\ op.data = data /\ op.interval.from = p
      /\ op.interval = OpenInterval(p, AfterInsert(p, data))
    BY AddOperationType
<1> HIDE DEF op, x, y
<1>4. IsInsertion(b, a, x, y, data, Char)
    BY <1>1, <1>2, InsertRegionType
<1>5. b \in Seq(Seq(Char)) /\ InText(b, p) /\ Len(b) >= Len(a)
    <2>1. b \in Seq(Seq(Char)) /\ InText(b, p)
        BY <1>1, <1>4 DEF IsInsertion
    <2>2. Len(b) >= Len(a)
        BY <1>1, <1>2, InsertRegionIsText
    <2> QED BY <2>1, <2>2
<1>6. b \in Text
    <2>1. Len(b) \in Nat /\ Len(a) \in Nat
        BY <1>2, <1>5, LenProperties
    <2> QED BY <1>2, <1>5, <2>1 DEF Text, Line
<1> HIDE DEF b
<1>7. ASSUME NEW u \in EmptyLines
      PROVE  Replayed(a \o u, op) = b \o u /\ Backward(b \o u, op) = a \o u
    <2> DEFINE w == a \o u
    <2>1. u \in Seq(Seq(Char)) /\ w \in Text
        BY EmptyLinesProperties, LongerText DEF Line
    <2>2. w \in Seq(Seq(Char)) /\ InText(w, Cursor(x, y))
        BY <1>1, <1>2, <2>1, ExtendedInText DEF Text, Line
    <2>3. InsertRegion(w, p, data) = b \o u
        <3>1. InText(a, Cursor(x, y)) /\ x \in Nat /\ y \in Nat /\ data # <<>>
            BY <1>1
        <3>2. InsertRegion(a \o u, Cursor(x, y), data) = InsertRegion(a, Cursor(x, y), data) \o u
            BY ONLY <1>2, <2>1, <3>1, InsertExtends
        <3> QED BY <1>1, <3>2 DEF b
    <2> HIDE DEF w
    <2>4. DeleteRegion(InsertRegion(w, p, data), OpenInterval(p, AfterInsert(p, data))) = w
        <3>1. DeleteRegion(InsertRegion(w, Cursor(x, y), data),
                           OpenInterval(Cursor(x, y), AfterInsert(Cursor(x, y), data))) = w
            BY <1>1, <1>2, <2>2, InsertIsUndone
        <3> QED BY <1>1, <3>1
    <2>5. Replayed(w, op) = b \o u
        BY <1>3, <2>3 DEF Replayed
    <2>6. Backward(b \o u, op) = w
        BY <1>3, <2>3, <2>4 DEF Backward
    <2> QED BY <2>5, <2>6 DEF w
<1> QED BY <1>3, <1>5, <1>6, <1>7 DEF Step, op, b

(* deleteRegion, of an interval that ends on a line the text has, too      *)
(* (DeleteIsUndone).                                                       *)
LEMMA StepDelete ==
    ASSUME NEW a \in Text, NEW bi \in Region, InText(a, bi.from),
           EndCursor(bi).x \in Nat, EndCursor(bi).y \in bi.from.y..Len(a) - 1,
           EndCursor(bi).y > bi.from.y \/ EndCursor(bi).x >= bi.from.x,
           NEW op, op.type = "del", op.interval = bi, op.data = DataRegion(a, bi)
    PROVE  Step(a, op, DeleteRegion(a, bi))
<1> DEFINE b == DeleteRegion(a, bi)
           data == DataRegion(a, bi)
           x == bi.from.x
           y == bi.from.y
           ex == EndCursor(bi).x
           ey == EndCursor(bi).y
<1>1. /\ x \in Nat /\ y \in Nat /\ bi.from = Cursor(x, y)
      /\ ex \in Nat /\ ey \in y..Len(a) - 1 /\ (ey > y \/ ex >= x)
    BY RegionEnd
<1>2. EndCursor(bi) = Cursor(ex, ey)
    <2>1. bi.to \in [x : Int, y : Nat]
        BY DEF Region
    <2> QED BY <2>1 DEF EndCursor, Cursor
<1>3. a \in Seq(Seq(Char)) /\ InText(a, Cursor(x, y))
    BY <1>1 DEF Text, Line
<1> HIDE DEF x, y, ex, ey
<1>4. IsDeletion(b, a, x, y, ex, ey, Char)
    BY <1>1, <1>2, <1>3, DeleteRegionType
<1>5. b \in Seq(Seq(Char)) /\ InText(b, Cursor(x, y))
    BY <1>4 DEF IsDeletion
<1>6. b \in Text
    <2>1. Len(b) >= 1
        <3>1. EndCursor(bi).x \in Int /\ EndCursor(bi).y \in Nat /\ bi.from.x \in Nat /\ bi.from.y \in Nat
            BY RegionEnd
        <3>2. Len(a) >= 1
            BY DEF Text
        <3> QED BY <1>3, <3>1, <3>2, DeleteRegionIsText
    <2> QED BY <1>5, <2>1 DEF Text, Line
<1>7. AreCopied(data, a, x, y, ex, ey, Char)
    BY <1>1, <1>2, <1>3, DataRegionParts
<1>8. data \in Seq(Seq(Char)) /\ data # <<>>
    BY <1>7 DEF AreCopied
<1>9. InsertRegion(b, Cursor(x, y), data) = a
    BY <1>1, <1>2, <1>3, DeleteIsUndone
<1>10. \A u \in EmptyLines : DeleteRegion(a \o u, bi) = b \o u
    <2> TAKE u \in EmptyLines
    <2>1. u \in Seq(Seq(Char))
        BY EmptyLinesProperties DEF Line
    <2>2. DeleteRegion(a \o u, bi) = DeleteRegion(a, bi) \o u
        BY ONLY <1>1, <1>2, <1>3, <2>1, DeleteExtends
    <2> QED BY <2>2
<1> HIDE DEF b, data
<1>11. \A u \in EmptyLines : InsertRegion(b \o u, Cursor(x, y), data) = a \o u
    <2> TAKE u \in EmptyLines
    <2>1. u \in Seq(Seq(Char))
        BY EmptyLinesProperties DEF Line
    <2>2. InsertRegion(b \o u, Cursor(x, y), data) = InsertRegion(b, Cursor(x, y), data) \o u
        BY <1>1, <1>5, <1>8, <2>1, InsertExtends
    <2> QED BY <1>9, <2>2
<1>12. op.data = data /\ op.interval.from = Cursor(x, y) /\ op.type # "add"
    BY <1>1 DEF data
<1>13. ASSUME NEW u \in EmptyLines
       PROVE  Replayed(a \o u, op) = b \o u /\ Backward(b \o u, op) = a \o u
    BY <1>10, <1>11, <1>12 DEF Replayed, Backward
<1> QED BY <1>3, <1>5, <1>6, <1>12, <1>13 DEF Step, b

(* deleteLine on the last line: the interval ends on a line the text does  *)
(* not have. What is recorded leads from the text with an empty line more  *)
(* to the new text, and back to that longer text.                          *)
LEMMA StepBeyond ==
    ASSUME NEW a \in Text, NEW bi \in Region, InText(a, bi.from),
           EndCursor(bi) = Cursor(0, Len(a)),
           NEW op, op.type = "del", op.interval = bi, op.data = DataRegion(a, bi)
    PROVE  Step(a \o << <<>> >>, op, DeleteRegion(a, bi))
<1> DEFINE u == << <<>> >>
           w == a \o u
           x == bi.from.x
           y == bi.from.y
<1>1. x \in Nat /\ y \in Nat /\ bi.from = Cursor(x, y)
    BY RegionEnd
<1>2. a \in Seq(Seq(Char)) /\ InText(a, Cursor(x, y)) /\ Len(a) \in Nat
    BY <1>1, LenProperties DEF Text, Line
<1>3. u \in EmptyLines /\ u \in Seq(Seq(Char)) /\ Len(u) = 1
    BY EmptyLinesProperties DEF Line
<1> HIDE DEF x, y
<1>4. DeleteRegion(a, bi) = DeleteRegion(w, bi) /\ DataRegion(a, bi) = DataRegion(w, bi)
    BY <1>1, <1>2, BeyondIsEmptyLine
<1> HIDE DEF u
<1>5. w \in Text /\ Len(w) = Len(a) + 1
    <2>1. w \in Text
        BY <1>3, LongerText
    <2>2. Len(w) = Len(a) + Len(u)
        BY <1>2, <1>3, ConcatProperties
    <2> QED BY <1>3, <2>1, <2>2
<1>6. InText(w, bi.from)
    BY <1>1, <1>2, <1>3, ExtendedInText
<1> HIDE DEF w
<1>7. y < Len(a)
    BY <1>2 DEF InText, LineExists, LineCount, Cursor
<1>8. EndCursor(bi).x = 0 /\ EndCursor(bi).y = Len(a)
    BY DEF Cursor
<1>9. EndCursor(bi).x \in Nat /\ EndCursor(bi).y \in bi.from.y..Len(w) - 1 /\ EndCursor(bi).y > bi.from.y
    BY <1>1, <1>2, <1>5, <1>7, <1>8 DEF Cursor
<1>10. Step(w, op, DeleteRegion(w, bi))
    BY <1>4, <1>5, <1>6, <1>9, StepDelete
<1> QED BY <1>4, <1>10 DEF w, u
(* Operations that lead from one text to another, and operations that lead *)
(* back, undone one by one.                                                *)
Chain(a, ops, b) ==
    \E g \in [0..Len(ops) -> Text] :
        /\ g[0] = a /\ g[Len(ops)] = b
        /\ \A i \in 1..Len(ops) : Step(g[i - 1], ops[i], g[i])
BackChain(a, ops, b) ==
    \E g \in [0..Len(ops) -> Text] :
        /\ g[0] = a /\ g[Len(ops)] = b
        /\ \A i \in 1..Len(ops) : Step(g[i], ops[i], g[i - 1])

(* No operation leads from a text to itself only.                          *)
LEMMA ChainEmpty ==
    /\ \A a \in Text : Chain(a, <<>>, a)
    /\ \A a, b : Chain(a, <<>>, b) => a = b /\ a \in Text
    /\ \A a, b : BackChain(a, <<>>, b) => a = b /\ a \in Text
<1>1. ASSUME NEW a \in Text PROVE Chain(a, <<>>, a)
    <2> DEFINE g == [i \in 0..Len(<<>>) |-> a]
    <2>1. g \in [0..Len(<<>>) -> Text] /\ g[0] = a /\ g[Len(<<>>)] = a
        OBVIOUS
    <2>2. 1..Len(<<>>) = {}
        OBVIOUS
    <2> HIDE DEF g
    <2> QED BY <2>1, <2>2 DEF Chain
<1>2. \A a, b : Chain(a, <<>>, b) => a = b /\ a \in Text
    BY DEF Chain
<1>3. \A a, b : BackChain(a, <<>>, b) => a = b /\ a \in Text
    BY DEF BackChain
<1> QED BY <1>1, <1>2, <1>3

(* What operations lead from and to are texts.                             *)
LEMMA ChainEnds ==
    ASSUME NEW ops \in Seq(Operation), NEW a, NEW b, Chain(a, ops, b) \/ BackChain(a, ops, b)
    PROVE  a \in Text /\ b \in Text
<1>1. Len(ops) \in Nat
    BY LenProperties
<1>2. 0 \in 0..Len(ops) /\ Len(ops) \in 0..Len(ops)
    BY <1>1
<1> QED BY <1>2 DEF Chain, BackChain

(* One operation more.                                                     *)
LEMMA ChainAppend ==
    ASSUME NEW ops \in Seq(Operation), NEW op \in Operation, NEW a, NEW b, NEW c,
           Chain(a, ops, b), Step(b, op, c)
    PROVE  Chain(a, Append(ops, op), c)
<1> DEFINE n == Len(ops)
           q == Append(ops, op)
<1>1. n \in Nat /\ q \in Seq(Operation) /\ Len(q) = n + 1 /\ q[n + 1] = op
      /\ \A i \in 1..n : q[i] = ops[i]
    BY AppendProperties
<1>2. PICK g \in [0..n -> Text] : g[0] = a /\ g[n] = b /\ \A i \in 1..n : Step(g[i - 1], ops[i], g[i])
    BY DEF Chain
<1> HIDE DEF n, q
<1> DEFINE h == [i \in 0..n + 1 |-> IF i = n + 1 THEN c ELSE g[i]]
<1>3. c \in Text
    BY DEF Step
<1>4. h \in [0..n + 1 -> Text]
    BY <1>1, <1>2, <1>3
<1>5. h[n + 1] = c /\ \A i \in 0..n : h[i] = g[i]
    BY <1>1
<1> HIDE DEF h
<1>6. h[0] = a
    BY <1>1, <1>2, <1>5
<1>7. ASSUME NEW i \in 1..n + 1 PROVE Step(h[i - 1], q[i], h[i])
    <2>1. CASE i = n + 1
        <3>1. i - 1 = n /\ n \in 0..n
            BY <1>1, <2>1
        <3>2. h[i - 1] = b /\ q[i] = op /\ h[i] = c
            BY <1>1, <1>2, <1>5, <2>1, <3>1
        <3> QED BY <3>2
    <2>2. CASE i # n + 1
        <3>1. i \in 1..n /\ i \in 0..n /\ i - 1 \in 0..n
            BY <1>1, <2>2
        <3>2. h[i - 1] = g[i - 1] /\ q[i] = ops[i] /\ h[i] = g[i]
            BY <1>1, <1>5, <3>1
        <3> QED BY <1>2, <3>1, <3>2
    <2> QED BY <2>1, <2>2
<1>8. Chain(a, q, c)
    BY <1>1, <1>4, <1>5, <1>6, <1>7 DEF Chain
<1> QED BY <1>8 DEF q

(* More empty lines may lie behind all the texts on the way.               *)
LEMMA ChainShift ==
    ASSUME NEW ops \in Seq(Operation), NEW a, NEW b, Chain(a, ops, b), NEW v \in EmptyLines
    PROVE  Chain(a \o v, ops, b \o v)
<1> DEFINE n == Len(ops)
<1>1. n \in Nat /\ \A i \in 1..n : ops[i] \in Operation
    BY LenProperties
<1>2. PICK g \in [0..n -> Text] : g[0] = a /\ g[n] = b /\ \A i \in 1..n : Step(g[i - 1], ops[i], g[i])
    BY DEF Chain
<1> HIDE DEF n
<1> DEFINE h == [i \in 0..n |-> g[i] \o v]
<1>3. \A i \in 0..n : h[i] = g[i] \o v /\ h[i] \in Text
    BY <1>1, <1>2, LongerText
<1>4. h \in [0..n -> Text]
    BY <1>3
<1> HIDE DEF h
<1>5. h[0] = a \o v /\ h[n] = b \o v
    <2>1. 0 \in 0..n /\ n \in 0..n
        BY <1>1
    <2>2. h[0] = g[0] \o v /\ h[n] = g[n] \o v
        BY <1>3, <2>1
    <2> QED BY <1>2, <2>2
<1>6. ASSUME NEW i \in 1..n PROVE Step(h[i - 1], ops[i], h[i])
    <2>1. i \in 0..n /\ i - 1 \in 0..n
        BY <1>1
    <2>2. Step(g[i - 1], ops[i], g[i]) /\ ops[i] \in Operation
        BY <1>1, <1>2
    <2>3. Step(g[i - 1] \o v, ops[i], g[i] \o v)
        BY <2>2, StepShift
    <2> QED BY <1>3, <2>1, <2>3
<1> QED BY <1>4, <1>5, <1>6 DEF Chain, n

(* The first operation, and the others.                                    *)
LEMMA ChainHead ==
    ASSUME NEW ops \in Seq(Operation), ops # <<>>, NEW a, NEW b, Chain(a, ops, b)
    PROVE  \E c : Step(a, Head(ops), c) /\ Chain(c, Tail(ops), b)
<1> DEFINE n == Len(ops)
           q == Tail(ops)
<1>1. n \in Nat \ {0} /\ q \in Seq(Operation) /\ Len(q) = n - 1 /\ ops[1] = Head(ops)
      /\ \A i \in 1..n - 1 : q[i] = ops[i + 1]
    BY HeadTailProperties, EmptySeq, LenProperties
<1>2. PICK g \in [0..n -> Text] : g[0] = a /\ g[n] = b /\ \A i \in 1..n : Step(g[i - 1], ops[i], g[i])
    BY DEF Chain
<1> HIDE DEF n, q
<1> DEFINE h == [i \in 0..n - 1 |-> g[i + 1]]
<1>3. \A i \in 0..n - 1 : h[i] = g[i + 1] /\ h[i] \in Text
    BY <1>1, <1>2
<1>4. h \in [0..n - 1 -> Text]
    BY <1>3
<1> HIDE DEF h
<1>5. h[0] = g[1] /\ h[n - 1] = b
    BY <1>1, <1>2, <1>3
<1>6. ASSUME NEW i \in 1..n - 1 PROVE Step(h[i - 1], q[i], h[i])
    <2> DEFINE j == i + 1
    <2>1. i \in 0..n - 1 /\ i - 1 \in 0..n - 1 /\ j \in 1..n /\ j - 1 = i /\ (i - 1) + 1 = i
        BY <1>1
    <2>2. h[i - 1] = g[j - 1] /\ q[i] = ops[j] /\ h[i] = g[j]
        BY <1>1, <1>3, <2>1
    <2> HIDE DEF j
    <2> QED BY <1>2, <2>1, <2>2
<1>7. Chain(h[0], q, b)
    BY <1>1, <1>4, <1>5, <1>6 DEF Chain
<1>8. Step(a, Head(ops), h[0])
    <2>1. 1 \in 1..n /\ 1 - 1 = 0
        BY <1>1
    <2> QED BY <1>1, <1>2, <1>5, <2>1
<1> QED BY <1>7, <1>8 DEF q

(* The first operation of the way back, and the others.                    *)
LEMMA BackHead ==
    ASSUME NEW ops \in Seq(Operation), ops # <<>>, NEW a, NEW b, BackChain(a, ops, b)
    PROVE  \E c : Step(c, Head(ops), a) /\ BackChain(c, Tail(ops), b)
<1> DEFINE n == Len(ops)
           q == Tail(ops)
<1>1. n \in Nat \ {0} /\ q \in Seq(Operation) /\ Len(q) = n - 1 /\ ops[1] = Head(ops)
      /\ \A i \in 1..n - 1 : q[i] = ops[i + 1]
    BY HeadTailProperties, EmptySeq, LenProperties
<1>2. PICK g \in [0..n -> Text] : g[0] = a /\ g[n] = b /\ \A i \in 1..n : Step(g[i], ops[i], g[i - 1])
    BY DEF BackChain
<1> HIDE DEF n, q
<1> DEFINE h == [i \in 0..n - 1 |-> g[i + 1]]
<1>3. \A i \in 0..n - 1 : h[i] = g[i + 1] /\ h[i] \in Text
    BY <1>1, <1>2
<1>4. h \in [0..n - 1 -> Text]
    BY <1>3
<1> HIDE DEF h
<1>5. h[0] = g[1] /\ h[n - 1] = b
    BY <1>1, <1>2, <1>3
<1>6. ASSUME NEW i \in 1..n - 1 PROVE Step(h[i], q[i], h[i - 1])
    <2> DEFINE j == i + 1
    <2>1. i \in 0..n - 1 /\ i - 1 \in 0..n - 1 /\ j \in 1..n /\ j - 1 = i /\ (i - 1) + 1 = i
        BY <1>1
    <2>2. h[i - 1] = g[j - 1] /\ q[i] = ops[j] /\ h[i] = g[j]
        BY <1>1, <1>3, <2>1
    <2> HIDE DEF j
    <2> QED BY <1>2, <2>1, <2>2
<1>7. BackChain(h[0], q, b)
    BY <1>1, <1>4, <1>5, <1>6 DEF BackChain
<1>8. Step(h[0], Head(ops), a)
    <2>1. 1 \in 1..n /\ 1 - 1 = 0
        BY <1>1
    <2> QED BY <1>1, <1>2, <1>5, <2>1
<1> QED BY <1>7, <1>8 DEF q

(* Operations undone in reverse order lead back.                           *)
LEMMA ChainReverse ==
    ASSUME NEW ops \in Seq(Operation), NEW a, NEW b, Chain(a, ops, b)
    PROVE  BackChain(b, Reverse(ops), a) /\ Reverse(ops) \in Seq(Operation)
<1> DEFINE n == Len(ops)
           q == Reverse(ops)
<1>1. n \in Nat /\ \A i \in 1..n : ops[i] \in Operation
    BY LenProperties
<1>2. q = [i \in 1..n |-> ops[(n - i) + 1]]
    BY DEF Reverse
<1>3. q \in [1..n -> Operation]
    <2>1. \A i \in 1..n : (n - i) + 1 \in 1..n
        BY <1>1
    <2> HIDE DEF n
    <2> QED BY <1>1, <1>2, <2>1
<1>4. q \in Seq(Operation) /\ Len(q) = n
    BY <1>1, <1>3, FunctionIsSeq
<1>5. PICK g \in [0..n -> Text] : g[0] = a /\ g[n] = b /\ \A i \in 1..n : Step(g[i - 1], ops[i], g[i])
    BY DEF Chain
<1> HIDE DEF n, q
<1> DEFINE h == [i \in 0..n |-> g[n - i]]
<1>6. \A i \in 0..n : h[i] = g[n - i] /\ h[i] \in Text
    <2>1. \A i \in 0..n : n - i \in 0..n
        BY <1>1
    <2> QED BY <1>5, <2>1
<1>7. h \in [0..n -> Text]
    BY <1>6
<1> HIDE DEF h
<1>8. h[0] = b /\ h[n] = a
    <2>1. 0 \in 0..n /\ n \in 0..n /\ n - 0 = n /\ n - n = 0
        BY <1>1
    <2> QED BY <1>5, <1>6, <2>1
<1>9. ASSUME NEW i \in 1..n PROVE Step(h[i], q[i], h[i - 1])
    <2> DEFINE j == (n - i) + 1
    <2>1. j \in 1..n /\ j - 1 = n - i /\ n - (i - 1) = j /\ i \in 0..n /\ i - 1 \in 0..n
        BY <1>1
    <2>2. h[i] = g[j - 1] /\ q[i] = ops[j] /\ h[i - 1] = g[j]
        BY <1>2, <1>6, <2>1
    <2> HIDE DEF j
    <2> QED BY <1>5, <2>1, <2>2
<1>10. BackChain(b, q, a)
    BY <1>4, <1>7, <1>8, <1>9 DEF BackChain
<1> QED BY <1>4, <1>10 DEF q
(* The texts between the items of an undo list: hist[i] is the text after  *)
(* the first i items.  It is the text sn remembers, but for empty lines.   *)
Past(hist, list, sn) ==
    /\ hist \in [0..Len(list) -> Text]
    /\ \A i \in 1..Len(list) : Chain(hist[i - 1], list[i].ops, hist[i])
    /\ sn \in Seq(Text) /\ Len(sn) >= Len(list) + 1
    /\ \A i \in 0..Len(list) : \E u \in Empties : hist[i] = sn[i + 1] \o u

(* Where the text t is: behind the items done and the operations recorded  *)
(* since, or on the way back through an item, or forth.                    *)
Now(hist, cur, fops, rep, t) ==
    \/ rep.dir = "none" /\ Chain(hist[cur], fops, t)
    \/ rep.dir = "undo" /\ fops = <<>> /\ cur >= 1 /\ BackChain(t, rep.ops, hist[cur - 1])
    \/ rep.dir = "redo" /\ fops = <<>> /\ Chain(t, rep.ops, hist[cur])

UndoState(t, list, cur, fops, rep, sn) ==
    \E hist : Past(hist, list, sn) /\ Now(hist, cur, fops, rep, t)

(* The items of an undo list have operations.                              *)
LEMMA ItemOps ==
    ASSUME NEW list \in Seq(Undo!UndoItem)
    PROVE  Len(list) \in Nat /\ \A i \in 1..Len(list) : list[i].ops \in Seq(Operation)
<1>1. Len(list) \in Nat /\ \A i \in 1..Len(list) : list[i] \in Undo!UndoItem
    BY LenProperties
<1> QED BY <1>1 DEF Undo!UndoItem

(* An undo list cut behind the items done (removeUndoItemAfterCurrent).    *)
LEMMA CutList ==
    ASSUME NEW S, NEW list \in Seq(S), NEW cur \in 0..Len(list)
    PROVE  /\ SubSeq(list, 1, cur) \in Seq(S) /\ Len(SubSeq(list, 1, cur)) = cur
           /\ \A i \in 1..cur : SubSeq(list, 1, cur)[i] = list[i]
<1> DEFINE n == Len(list)
           c == SubSeq(list, 1, cur)
<1>1. n \in Nat /\ cur \in 0..n
    BY LenProperties
<1>2. IsCut(list, cur, n, S)
    <2>1. n \in cur..Len(list)
        BY <1>1
    <2> QED BY <2>1, CutText
<1> QED BY <1>2 DEF IsCut

(* The past of a list that was cut, with more empty lines behind all its   *)
(* texts.                                                                  *)
LEMMA PastShift ==
    ASSUME NEW list \in Seq(Undo!UndoItem), NEW sn, NEW hist, Past(hist, list, sn),
           NEW cur \in 0..Len(list), NEW v \in Empties
    PROVE  Past([i \in 0..cur |-> hist[i] \o v], SubSeq(list, 1, cur), sn)
<1> DEFINE n == Len(list)
           h == [i \in 0..cur |-> hist[i] \o v]
           q == SubSeq(list, 1, cur)
<1>1. n \in Nat /\ cur \in 0..n /\ v \in EmptyLines
    BY ItemOps, EmptiesProperties
<1>2. /\ hist \in [0..n -> Text]
      /\ \A i \in 1..n : Chain(hist[i - 1], list[i].ops, hist[i])
      /\ sn \in Seq(Text) /\ Len(sn) >= n + 1
      /\ \A i \in 0..n : \E u \in Empties : hist[i] = sn[i + 1] \o u
    BY DEF Past
<1>3. Len(q) = cur /\ \A i \in 1..cur : q[i] = list[i]
    BY CutList
<1>4. \A i \in 1..n : list[i].ops \in Seq(Operation)
    BY ItemOps
<1>5. Len(sn) \in Nat
    BY <1>2, LenProperties
<1> HIDE DEF n, q
<1>6. \A i \in 0..cur : h[i] = hist[i] \o v /\ hist[i] \in Text /\ h[i] \in Text
    <2>1. \A i \in 0..cur : hist[i] \in Text
        BY <1>1, <1>2
    <2>2. \A i \in 0..cur : h[i] = hist[i] \o v
        OBVIOUS
    <2> HIDE DEF h
    <2> QED BY <1>1, <2>1, <2>2, LongerText
<1>7. h \in [0..cur -> Text]
    BY <1>6
<1> HIDE DEF h
<1>8. ASSUME NEW i \in 1..cur PROVE Chain(h[i - 1], q[i].ops, h[i])
    <2>1. i \in 0..cur /\ i - 1 \in 0..cur /\ i \in 1..n
        BY <1>1
    <2>2. Chain(hist[i - 1], list[i].ops, hist[i]) /\ list[i].ops \in Seq(Operation)
        BY <1>2, <1>4, <2>1
    <2>3. Chain(hist[i - 1] \o v, list[i].ops, hist[i] \o v)
        BY <1>1, <2>2, ChainShift
    <2> QED BY <1>3, <1>6, <2>1, <2>3
<1>9. ASSUME NEW i \in 0..cur PROVE \E u \in Empties : h[i] = sn[i + 1] \o u
    <2>0. i \in 0..n
        BY <1>1
    <2>1. PICK u \in Empties : hist[i] = sn[i + 1] \o u
        BY <1>2, <2>0
    <2>2. sn[i + 1] \in Text /\ u \in EmptyLines
        <3>1. i + 1 \in 1..Len(sn)
            BY <1>1, <1>2, <1>5
        <3> QED BY <1>2, <3>1, EmptiesProperties
    <2> DEFINE s == sn[i + 1]
    <2>3. (s \o u) \o v = s \o (u \o v)
        BY <1>1, <2>2, LinesAssociative
    <2>4. h[i] = s \o (u \o v)
        BY <1>6, <2>1, <2>3
    <2>5. u \o v \in Empties
        BY EmptiesProperties
    <2> HIDE DEF s
    <2> QED BY <2>4, <2>5 DEF s
<1>10. Len(sn) >= cur + 1
    BY <1>1, <1>2, <1>5
<1>11. Past(h, q, sn)
    BY <1>2, <1>3, <1>7, <1>8, <1>9, <1>10 DEF Past
<1> QED BY <1>11 DEF h, q

(* An edit, recorded: what could be redone is gone, and if it took away an *)
(* empty line that only undo will bring back, the texts before have it.    *)
LEMMA Recorded ==
    ASSUME NEW list \in Seq(Undo!UndoItem), NEW cur \in 0..Len(list), NEW fops \in Seq(Operation),
           NEW rep, rep.dir = "none", NEW t, NEW sn, UndoState(t, list, cur, fops, rep, sn),
           NEW v \in Empties, NEW op \in Operation, NEW t2, Step(t \o v, op, t2)
    PROVE  UndoState(t2, SubSeq(list, 1, cur), cur, Append(fops, op), rep, sn)
<1>1. PICK hist : Past(hist, list, sn) /\ Now(hist, cur, fops, rep, t)
    BY DEF UndoState
<1>2. Chain(hist[cur], fops, t)
    BY <1>1 DEF Now
<1> DEFINE h == [i \in 0..cur |-> hist[i] \o v]
           q == SubSeq(list, 1, cur)
<1>3. Past(h, q, sn)
    BY <1>1, PastShift
<1>4. Chain(hist[cur] \o v, fops, t \o v)
    BY <1>2, ChainShift, EmptiesProperties
<1>5. Chain(hist[cur] \o v, Append(fops, op), t2)
    BY <1>4, ChainAppend
<1>6. h[cur] = hist[cur] \o v
    BY ItemOps
<1> HIDE DEF h, q
<1>7. Now(h, cur, Append(fops, op), rep, t2)
    BY <1>5, <1>6 DEF Now
<1>8. UndoState(t2, q, cur, Append(fops, op), rep, sn)
    BY <1>3, <1>7 DEF UndoState
<1> QED BY <1>8 DEF q

(* commitUndoItem: the operations recorded become the next item, and the   *)
(* text is remembered.                                                     *)
LEMMA Committed ==
    ASSUME NEW list \in Seq(Undo!UndoItem), NEW cur \in 0..Len(list), NEW item \in Undo!UndoItem,
           NEW rep, rep.dir = "none", NEW t, NEW sn, UndoState(t, list, cur, item.ops, rep, sn)
    PROVE  UndoState(t, Append(SubSeq(list, 1, cur), item), cur + 1, <<>>, rep,
                     SubSeq(sn, 1, cur + 1) \o << t >>)
<1> DEFINE n == Len(list)
           p == SubSeq(list, 1, cur)
           q == Append(p, item)
           m == cur + 1
           s == SubSeq(sn, 1, m)
           one == << t >>
           r == s \o one
           fops == item.ops
<1>1. PICK hist : Past(hist, list, sn) /\ Now(hist, cur, fops, rep, t)
    BY DEF UndoState
<1>2. /\ hist \in [0..n -> Text]
      /\ \A i \in 1..n : Chain(hist[i - 1], list[i].ops, hist[i])
      /\ sn \in Seq(Text) /\ Len(sn) >= n + 1
      /\ \A i \in 0..n : \E u \in Empties : hist[i] = sn[i + 1] \o u
    BY <1>1 DEF Past
<1>3. n \in Nat /\ cur \in 0..n /\ m = cur + 1 /\ Len(sn) \in Nat
    BY <1>2, ItemOps, LenProperties
<1>4. p \in Seq(Undo!UndoItem) /\ Len(p) = cur /\ \A i \in 1..cur : p[i] = list[i]
    BY CutList
<1>5. fops \in Seq(Operation)
    BY DEF Undo!UndoItem
<1>6. Chain(hist[cur], fops, t)
    BY <1>1 DEF Now
<1>7. t \in Text
    BY <1>5, <1>6, ChainEnds
<1> HIDE DEF p
<1>8. Len(q) = m /\ q[m] = item /\ \A i \in 1..cur : q[i] = list[i]
    BY <1>3, <1>4, AppendProperties
<1> HIDE DEF m
<1>9. s \in Seq(Text) /\ Len(s) = m /\ \A i \in 1..m : s[i] = sn[i]
    <2>1. m \in 0..Len(sn)
        BY <1>2, <1>3
    <2> QED BY <1>2, <2>1, CutList
<1>10. one \in Seq(Text) /\ Len(one) = 1 /\ one[1] = t
    BY <1>7
<1> HIDE DEF s, one
<1>11. /\ r \in Seq(Text) /\ Len(r) = m + 1 /\ r[m + 1] = t
       /\ \A i \in 1..m : r[i] = sn[i]
    <2>1. r \in Seq(Text) /\ Len(r) = m + 1
        <3>1. s \o one \in Seq(Text) /\ Len(s \o one) = Len(s) + Len(one)
            BY ONLY <1>9, <1>10, ConcatProperties
        <3> QED BY <1>9, <1>10, <3>1
    <2>2. \A i \in 1..m : r[i] = s[i]
        BY <1>3, <1>9, <1>10, ConcatProperties
    <2>3. r[m + 1] = one[1]
        <3>1. m + 1 \in 1..Len(s) + Len(one) /\ m + 1 > Len(s) /\ m + 1 - Len(s) = 1
            BY <1>3, <1>9, <1>10
        <3> QED BY <1>9, <1>10, <3>1, ConcatProperties
    <2> QED BY <1>9, <1>10, <2>1, <2>2, <2>3
<1> HIDE DEF n, q, r, fops
<1> DEFINE h == [i \in 0..m |-> IF i = m THEN t ELSE hist[i]]
<1>12. h[m] = t /\ \A i \in 0..cur : h[i] = hist[i]
    BY <1>3
<1>13. h \in [0..m -> Text]
    BY <1>2, <1>3, <1>7
<1> HIDE DEF h
<1>14. ASSUME NEW i \in 1..m PROVE Chain(h[i - 1], q[i].ops, h[i])
    <2>1. CASE i = m
        <3>1. i - 1 = cur /\ cur \in 0..cur
            BY <1>3, <2>1
        <3>2. h[i - 1] = hist[cur] /\ q[i].ops = fops /\ h[i] = t
            BY <1>8, <1>12, <2>1, <3>1 DEF fops
        <3> QED BY <1>6, <3>2
    <2>2. CASE i # m
        <3>1. i \in 1..cur /\ i \in 0..cur /\ i - 1 \in 0..cur /\ i \in 1..n
            BY <1>3, <2>2
        <3>2. h[i - 1] = hist[i - 1] /\ q[i] = list[i] /\ h[i] = hist[i]
            BY <1>8, <1>12, <3>1
        <3> QED BY <1>2, <3>1, <3>2
    <2> QED BY <2>1, <2>2
<1>15. ASSUME NEW i \in 0..m PROVE \E u \in Empties : h[i] = r[i + 1] \o u
    <2>1. CASE i = m
        <3>1. h[i] = t /\ r[i + 1] = t /\ t = t \o <<>>
            BY <1>7, <1>11, <1>12, <2>1, EmptyLinesProperties, LongerText
        <3> QED BY <3>1, EmptiesProperties
    <2>2. CASE i # m
        <3>1. i \in 0..cur /\ i \in 0..n /\ i + 1 \in 1..m
            BY <1>3, <2>2
        <3>2. h[i] = hist[i] /\ r[i + 1] = sn[i + 1]
            BY <1>11, <1>12, <3>1
        <3> QED BY <1>2, <3>1, <3>2
    <2> QED BY <2>1, <2>2
<1>16. Past(h, q, r)
    <2>1. Len(r) >= Len(q) + 1
        BY <1>3, <1>8, <1>11
    <2> QED BY <1>8, <1>11, <1>13, <1>14, <1>15, <2>1 DEF Past
<1>17. Now(h, m, <<>>, rep, t)
    BY <1>7, <1>12, ChainEmpty DEF Now
<1>18. UndoState(t, q, m, <<>>, rep, r)
    BY <1>16, <1>17 DEF UndoState
<1> QED BY <1>18 DEF q, p, m, r, s, one
(* A new buffer has an empty undo list.                                    *)
LEMMA Begun ==
    ASSUME NEW t \in Text
    PROVE  UndoState(t, <<>>, 0, <<>>, Undo!Idle, << t >>)
<1> DEFINE h == [i \in 0..0 |-> t]
           sn == << t >>
           list == <<>>
           z == 0
<1>1. /\ h \in [0..0 -> Text] /\ h[z] = t /\ sn \in Seq(Text) /\ Len(sn) = 1 /\ sn[1] = t
      /\ Len(list) = z /\ z = 0
    BY DEF h
<1>2. t = t \o <<>>
    BY EmptyLinesProperties, LongerText
<1> HIDE DEF h, sn, list, z
<1>3. Past(h, list, sn)
    <2>1. 1..z = {} /\ 0..z = {0}
        BY <1>1
    <2>2. \A i \in 0..Len(list) : \E u \in Empties : h[i] = sn[i + 1] \o u
        <3> TAKE i \in 0..Len(list)
        <3>1. i = 0 /\ i + 1 = 1
            BY <1>1, <2>1
        <3>2. h[i] = t /\ sn[i + 1] = t
            BY <1>1, <3>1
        <3>3. h[i] = sn[i + 1] \o <<>>
            BY <1>2, <3>2
        <3> QED BY <3>3, EmptiesProperties
    <2> QED BY <1>1, <2>1, <2>2 DEF Past
<1>4. Now(h, z, <<>>, Undo!Idle, t)
    BY <1>1, ChainEmpty DEF Now, Undo!Idle
<1>5. UndoState(t, list, z, <<>>, Undo!Idle, sn)
    BY <1>3, <1>4 DEF UndoState
<1> QED BY <1>5 DEF list, z, sn

(* undo() sets out on the way back through the item.                       *)
LEMMA UndoBegun ==
    ASSUME NEW list \in Seq(Undo!UndoItem), NEW cur \in 1..Len(list),
           NEW rep, rep.dir = "none", NEW t, NEW sn, UndoState(t, list, cur, <<>>, rep, sn)
    PROVE  UndoState(t, list, cur, <<>>, [dir |-> "undo", ops |-> Reverse(list[cur].ops)], sn)
<1> DEFINE ops == list[cur].ops
           rep2 == [dir |-> "undo", ops |-> Reverse(ops)]
<1>1. PICK hist : Past(hist, list, sn) /\ Now(hist, cur, <<>>, rep, t)
    BY DEF UndoState
<1>2. t = hist[cur]
    BY <1>1, ChainEmpty DEF Now
<1>3. ops \in Seq(Operation) /\ Chain(hist[cur - 1], ops, t)
    BY <1>1, <1>2, ItemOps DEF Past
<1> HIDE DEF ops
<1>4. BackChain(t, Reverse(ops), hist[cur - 1])
    BY <1>3, ChainReverse
<1>5. cur >= 1
    BY ItemOps
<1>6. rep2.dir = "undo" /\ rep2.ops = Reverse(ops)
    OBVIOUS
<1> HIDE DEF rep2
<1>7. Now(hist, cur, <<>>, rep2, t)
    BY <1>4, <1>5, <1>6 DEF Now
<1>8. UndoState(t, list, cur, <<>>, rep2, sn)
    BY <1>1, <1>7 DEF UndoState
<1> QED BY <1>8 DEF rep2, ops

(* An operation undone finds its position in the text, and leaves the rest *)
(* of the way.                                                             *)
LEMMA UndoPerformed ==
    ASSUME NEW list, NEW cur, NEW fops, NEW t, NEW sn,
           NEW rep \in [dir : {"undo"}, ops : Seq(Operation)], rep.ops # <<>>,
           UndoState(t, list, cur, fops, rep, sn)
    PROVE  LET op == Head(rep.ops) IN
           /\ t \in Text /\ Backward(t, op) \in Text /\ InText(t, op.interval.from)
           /\ UndoState(Backward(t, op), list, cur, fops, [rep EXCEPT !.ops = Tail(@)], sn)
<1> DEFINE ops == rep.ops
           op == Head(ops)
           rep2 == [rep EXCEPT !.ops = Tail(@)]
<1>1. PICK hist : Past(hist, list, sn) /\ Now(hist, cur, fops, rep, t)
    BY DEF UndoState
<1>2. rep.dir = "undo" /\ ops \in Seq(Operation) /\ ops # <<>> /\ rep2.dir = "undo" /\ rep2.ops = Tail(ops)
    OBVIOUS
<1>3. fops = <<>> /\ cur >= 1 /\ BackChain(t, ops, hist[cur - 1])
    BY <1>1, <1>2 DEF Now
<1> HIDE DEF ops, rep2
<1>4. PICK c : Step(c, op, t) /\ BackChain(c, Tail(ops), hist[cur - 1])
    BY <1>2, <1>3, BackHead
<1> HIDE DEF op
<1>5. t \in Text /\ c \in Text /\ InText(t, op.interval.from) /\ Backward(t \o <<>>, op) = c \o <<>>
    BY <1>4, EmptyLinesProperties DEF Step
<1>6. Backward(t, op) = c
    BY <1>5, EmptyLinesProperties, LongerText
<1>7. Now(hist, cur, fops, rep2, c)
    BY <1>2, <1>3, <1>4 DEF Now
<1>8. UndoState(c, list, cur, fops, rep2, sn)
    BY <1>1, <1>7 DEF UndoState
<1> QED BY <1>5, <1>6, <1>8 DEF op, ops, rep2

(* An operation redone finds its position in the text, and leaves the rest *)
(* of the way.                                                             *)
LEMMA RedoPerformed ==
    ASSUME NEW list, NEW cur, NEW fops, NEW t, NEW sn,
           NEW rep \in [dir : {"redo"}, ops : Seq(Operation)], rep.ops # <<>>,
           UndoState(t, list, cur, fops, rep, sn)
    PROVE  LET op == Head(rep.ops) IN
           /\ t \in Text /\ Replayed(t, op) \in Text /\ InText(t, op.interval.from)
           /\ UndoState(Replayed(t, op), list, cur, fops, [rep EXCEPT !.ops = Tail(@)], sn)
<1> DEFINE ops == rep.ops
           op == Head(ops)
           rep2 == [rep EXCEPT !.ops = Tail(@)]
<1>1. PICK hist : Past(hist, list, sn) /\ Now(hist, cur, fops, rep, t)
    BY DEF UndoState
<1>2. rep.dir = "redo" /\ ops \in Seq(Operation) /\ ops # <<>> /\ rep2.dir = "redo" /\ rep2.ops = Tail(ops)
    OBVIOUS
<1>3. fops = <<>> /\ Chain(t, ops, hist[cur])
    BY <1>1, <1>2 DEF Now
<1> HIDE DEF ops, rep2
<1>4. PICK c : Step(t, op, c) /\ Chain(c, Tail(ops), hist[cur])
    BY <1>2, <1>3, ChainHead
<1> HIDE DEF op
<1>5. t \in Text /\ c \in Text /\ InText(t, op.interval.from) /\ Replayed(t \o <<>>, op) = c \o <<>>
    BY <1>4, EmptyLinesProperties DEF Step
<1>6. Replayed(t, op) = c
    BY <1>5, EmptyLinesProperties, LongerText
<1>7. Now(hist, cur, fops, rep2, c)
    BY <1>2, <1>3, <1>4 DEF Now
<1>8. UndoState(c, list, cur, fops, rep2, sn)
    BY <1>1, <1>7 DEF UndoState
<1> QED BY <1>5, <1>6, <1>8 DEF op, ops, rep2

(* undo() arrives at the text before the item.                             *)
LEMMA UndoEnded ==
    ASSUME NEW list, NEW cur, NEW fops, NEW t, NEW sn,
           UndoState(t, list, cur, fops, [dir |-> "undo", ops |-> <<>>], sn)
    PROVE  fops = <<>> /\ UndoState(t, list, cur - 1, fops, Undo!Idle, sn)
<1> DEFINE rep == [dir |-> "undo", ops |-> <<>>]
<1>0. rep.dir = "undo" /\ rep.ops = <<>>
    OBVIOUS
<1>1. PICK hist : Past(hist, list, sn) /\ Now(hist, cur, fops, rep, t)
    BY DEF UndoState
<1> HIDE DEF rep
<1>2. fops = <<>> /\ BackChain(t, <<>>, hist[cur - 1])
    BY <1>0, <1>1 DEF Now
<1>3. t = hist[cur - 1] /\ t \in Text
    BY <1>2, ChainEmpty
<1>4. Chain(hist[cur - 1], <<>>, t)
    BY <1>3, ChainEmpty
<1>5. Now(hist, cur - 1, fops, Undo!Idle, t)
    BY <1>2, <1>4 DEF Now, Undo!Idle
<1> QED BY <1>1, <1>2, <1>5 DEF UndoState

(* redo() sets out on the way through the next item.                       *)
LEMMA RedoBegun ==
    ASSUME NEW list \in Seq(Undo!UndoItem), NEW cur \in 0..Len(list) - 1,
           NEW rep, rep.dir = "none", NEW t, NEW sn, UndoState(t, list, cur, <<>>, rep, sn)
    PROVE  UndoState(t, list, cur + 1, <<>>, [dir |-> "redo", ops |-> list[cur + 1].ops], sn)
<1> DEFINE m == cur + 1
           ops == list[m].ops
           rep2 == [dir |-> "redo", ops |-> ops]
<1>1. PICK hist : Past(hist, list, sn) /\ Now(hist, cur, <<>>, rep, t)
    BY DEF UndoState
<1>2. t = hist[cur]
    BY <1>1, ChainEmpty DEF Now
<1>3. m \in 1..Len(list) /\ m - 1 = cur
    BY ItemOps
<1> HIDE DEF m
<1>4. Chain(hist[m - 1], ops, hist[m])
    BY <1>1, <1>3 DEF Past
<1>5. Chain(t, ops, hist[m])
    BY <1>2, <1>3, <1>4
<1>6. rep2.dir = "redo" /\ rep2.ops = ops
    OBVIOUS
<1> HIDE DEF ops, rep2
<1>7. Now(hist, m, <<>>, rep2, t)
    BY <1>5, <1>6 DEF Now
<1>8. UndoState(t, list, m, <<>>, rep2, sn)
    BY <1>1, <1>7 DEF UndoState
<1> QED BY <1>8 DEF rep2, ops, m

(* redo() arrives at the text after the item.                              *)
LEMMA RedoEnded ==
    ASSUME NEW list, NEW cur, NEW fops, NEW t, NEW sn,
           UndoState(t, list, cur, fops, [dir |-> "redo", ops |-> <<>>], sn)
    PROVE  fops = <<>> /\ UndoState(t, list, cur, fops, Undo!Idle, sn)
<1> DEFINE rep == [dir |-> "redo", ops |-> <<>>]
<1>0. rep.dir = "redo" /\ rep.ops = <<>>
    OBVIOUS
<1>1. PICK hist : Past(hist, list, sn) /\ Now(hist, cur, fops, rep, t)
    BY DEF UndoState
<1> HIDE DEF rep
<1>2. fops = <<>> /\ Chain(t, <<>>, hist[cur])
    BY <1>0, <1>1 DEF Now
<1>3. t = hist[cur] /\ t \in Text
    BY <1>2, ChainEmpty
<1>4. Chain(hist[cur], <<>>, t)
    BY <1>3, ChainEmpty
<1>5. Now(hist, cur, fops, Undo!Idle, t)
    BY <1>2, <1>4 DEF Now, Undo!Idle
<1> QED BY <1>1, <1>2, <1>5 DEF UndoState

(* Between commands the text is the one remembered, but for empty lines.   *)
LEMMA Restored ==
    ASSUME NEW list \in Seq(Undo!UndoItem), NEW cur \in 0..Len(list),
           NEW rep, rep.dir = "none", NEW t, NEW sn, UndoState(t, list, cur, <<>>, rep, sn)
    PROVE  sn[cur + 1] \in Text /\ \E u \in Empties : t = sn[cur + 1] \o u
<1> DEFINE n == Len(list)
           m == cur + 1
<1>1. PICK hist : Past(hist, list, sn) /\ Now(hist, cur, <<>>, rep, t)
    BY DEF UndoState
<1>2. t = hist[cur]
    BY <1>1, ChainEmpty DEF Now
<1>3. /\ sn \in Seq(Text) /\ Len(sn) >= n + 1
      /\ \E u \in Empties : hist[cur] = sn[m] \o u
    BY <1>1 DEF Past
<1>4. m \in 1..Len(sn)
    <2>1. Len(sn) \in Nat /\ n \in Nat
        BY <1>3, ItemOps, LenProperties
    <2> HIDE DEF n
    <2> QED BY <1>3, <2>1 DEF n
<1> HIDE DEF m
<1>5. sn[m] \in Text
    BY <1>3, <1>4
<1> QED BY <1>2, <1>3, <1>5 DEF m
-----------------------------------------------------------------------------
(* A change of the text as undo() will see it: an operation that leads from*)
(* the text, or from the text with an empty line more, to the new text.    *)
RecordedChange ==
    \E op \in Operation, v \in Empties :
        Step(text \o v, op, text') /\ Undo!AddBufferOperation(op)

(* insertRegion at a position the text has is such a change, and keeps the *)
(* lines the text has.                                                     *)
LEMMA InsertRecorded ==
    ASSUME text \in Text, NEW pos \in Pos, InText(text, pos),
           NEW data \in Seq(Line), data # <<>>, InsertRegionCall(pos, data)
    PROVE  RecordedChange /\ Len(text') >= Len(text)
<1>1. pos.x \in Nat /\ pos.y \in Nat /\ pos = Cursor(pos.x, pos.y)
    BY PosIsCursor
<1>2. text \in Seq(Seq(Char)) /\ data \in Seq(Seq(Char)) /\ text \o <<>> = text
    BY EmptyLinesProperties, LongerText DEF Text, Line
<1> DEFINE x == pos.x
           y == pos.y
           op == AddOperation(pos, data)
<1>3. x \in Nat /\ y \in Nat /\ InText(text, Cursor(x, y)) /\ pos = Cursor(x, y) /\ data # <<>>
    BY <1>1
<1> HIDE DEF x, y
<1>4. ~InsertAborts(text, Cursor(x, y), data)
    BY ONLY <1>2, <1>3, InsertRegionParts
<1>5. text' = InsertRegion(text, pos, data) /\ Undo!AddBufferOperation(op)
    BY <1>3, <1>4 DEF InsertRegionCall
<1>6. Step(text, op, text')
    BY <1>5, StepInsert
<1>7. op \in Operation
    BY AddOperationType
<1> HIDE DEF op
<1>8. RecordedChange
    BY <1>2, <1>5, <1>6, <1>7, EmptiesProperties DEF RecordedChange
<1>9. Len(InsertRegion(text, Cursor(x, y), data)) >= Len(text)
    BY ONLY <1>2, <1>3, InsertRegionIsText
<1> QED BY <1>3, <1>5, <1>8, <1>9

(* So is deleteRegion of an interval inside the text,                      *)
LEMMA DeleteRecorded ==
    ASSUME text \in Text, NEW bi \in Region, InText(text, bi.from),
           EndCursor(bi).x \in Nat, EndCursor(bi).y \in bi.from.y..Len(text) - 1,
           EndCursor(bi).y > bi.from.y \/ EndCursor(bi).x >= bi.from.x,
           DeleteRegionCall(bi)
    PROVE  RecordedChange
<1> DEFINE op == DelOperation(bi)
<1>1. text' = DeleteRegion(text, bi) /\ Undo!AddBufferOperation(op)
    BY DEF DeleteRegionCall
<1>2. op \in Operation /\ op.type = "del" /\ op.interval = bi /\ op.data = DataRegion(text, bi)
    BY DelOperationType
<1> HIDE DEF op
<1>3. Step(text, op, text')
    BY <1>1, <1>2, StepDelete
<1>4. text \o <<>> = text
    BY EmptyLinesProperties, LongerText
<1> QED BY <1>1, <1>2, <1>3, <1>4, EmptiesProperties DEF RecordedChange

(* and of an interval that ends behind it.                                 *)
LEMMA DeleteBeyondRecorded ==
    ASSUME ~Exact, text \in Text, NEW bi \in Region, InText(text, bi.from),
           EndCursor(bi) = Cursor(0, Len(text)), DeleteRegionCall(bi)
    PROVE  RecordedChange
<1> DEFINE op == DelOperation(bi)
           v == << <<>> >>
<1>1. text' = DeleteRegion(text, bi) /\ Undo!AddBufferOperation(op)
    BY DEF DeleteRegionCall
<1>2. op \in Operation /\ op.type = "del" /\ op.interval = bi /\ op.data = DataRegion(text, bi)
    BY DelOperationType
<1> HIDE DEF op
<1>3. Step(text \o v, op, text')
    BY <1>1, <1>2, StepBeyond
<1>4. v \in Empties
    BY EmptiesProperties
<1> HIDE DEF v
<1> QED BY <1>1, <1>2, <1>3, <1>4 DEF RecordedChange

(* A position on a line of the text, and not behind the line, is in the    *)
(* text.                                                                   *)
LEMMA TextPos ==
    ASSUME NEW t \in Text, NEW x \in Nat, NEW y \in Nat, y < Len(t), x <= GetLineLength(t, y)
    PROVE  InText(t, Cursor(x, y)) /\ Cursor(x, y) \in Pos
<1>1. t \in Seq(Seq(Char))
    BY DEF Text, Line
<1> QED BY <1>1, TextPositions, CursorIsPos

(* The line exists, and another one behind it where all is undone exactly. *)
Deletable(n, t) == n < Len(t) /\ (Exact => n + 1 < Len(t))

(* deleteLine of a line the text has: behind it another line follows, or   *)
(* the text ends.                                                          *)
LEMMA DeleteLineRecorded ==
    ASSUME text \in Text, NEW n \in Nat, Deletable(n, text),
           DeleteRegionCall(LineInterval(text, n))
    PROVE  RecordedChange
<1> DEFINE bi == LineInterval(text, n)
           m == Len(text)
<1>1. bi \in Region /\ m \in Nat
    BY Intervals, LenProperties DEF Text
<1>4. n < m /\ (n + 1 = m => ~Exact)
    BY <1>1 DEF Deletable
<1>2. CASE n > 0 /\ n = m - 1
    <2> DEFINE k == n - 1
               x == GetLineLength(text, k)
    <2>1. k \in Nat /\ k < m /\ n + 1 = m
        BY <1>1, <1>2, <1>4
    <2>2. bi = OpenInterval(Cursor(GetLineLength(text, n - 1), n - 1), Cursor(0, n + 1))
        BY <1>2 DEF LineInterval, LineCount
    <2>3. bi.from = Cursor(x, k) /\ EndCursor(bi) = Cursor(0, m)
        BY <2>1, <2>2 DEF OpenInterval, Interval, EndCursor
    <2> HIDE DEF bi, k
    <2>4. x \in Nat
        BY <2>1, LineFacts
    <2>5. InText(text, Cursor(x, k))
        BY <2>1, <2>4, TextPos
    <2>6. DeleteRegionCall(bi)
        BY DEF bi
    <2> QED BY <1>1, <1>4, <2>1, <2>3, <2>5, <2>6, DeleteBeyondRecorded
<1>3. CASE ~(n > 0 /\ n = m - 1)
    <2>1. bi = OpenInterval(Cursor(0, n), Cursor(0, n + 1))
        BY <1>3 DEF LineInterval, LineCount
    <2>2. bi.from = Cursor(0, n) /\ EndCursor(bi) = Cursor(0, n + 1)
        BY <2>1 DEF OpenInterval, Interval, EndCursor
    <2> HIDE DEF bi
    <2> DEFINE z == 0
    <2>3. z \in Nat /\ z <= GetLineLength(text, n)
        BY LineFacts
    <2>4. InText(text, Cursor(z, n))
        <3> HIDE DEF z
        <3> QED BY <1>4, <2>3, TextPos
    <2>5. DeleteRegionCall(bi)
        BY DEF bi
    <2>6. CASE n + 1 = m
        BY <1>1, <1>4, <2>2, <2>4, <2>5, <2>6, DeleteBeyondRecorded
    <2>7. CASE n + 1 # m
        <3>1. bi.from.y = n /\ bi.from.x = 0 /\ EndCursor(bi).x = 0 /\ EndCursor(bi).y = n + 1
            BY <2>2 DEF Cursor
        <3>2. n + 1 \in n..m - 1
            BY <1>1, <1>4, <2>7
        <3> QED BY <1>1, <2>2, <2>4, <2>5, <3>1, <3>2, DeleteRecorded
    <2> QED BY <2>6, <2>7
<1> QED BY <1>2, <1>3
(* A deletion inside a line leaves its position in the text.               *)
LEMMA DeleteInLineRecorded ==
    ASSUME text \in Text, NEW x \in Nat, NEW y \in Nat, InText(text, Cursor(x, y)),
           NEW ex \in Nat, ex >= x,
           NEW bi \in Region, bi.from = Cursor(x, y), EndCursor(bi) = Cursor(ex, y),
           DeleteRegionCall(bi)
    PROVE  RecordedChange /\ Len(text') = Len(text) /\ InText(text', Cursor(x, y))
<1>1. text \in Seq(Seq(Char)) /\ Len(text) \in Nat
    BY LenProperties DEF Text, Line
<1>2. y < Len(text)
    BY <1>1 DEF InText, LineExists, LineCount, Cursor
<1>3. y \in y..Len(text) - 1
    BY <1>1, <1>2
<1>4. EndCursor(bi).x = ex /\ EndCursor(bi).y = y /\ bi.from.x = x /\ bi.from.y = y
    BY DEF Cursor
<1>5. RecordedChange
    BY <1>3, <1>4, DeleteRecorded
<1>6. IsDeletion(DeleteRegion(text, bi), text, x, y, ex, y, Char)
    BY <1>1, <1>3, DeleteRegionType
<1>7. text' = DeleteRegion(text, bi)
    BY DEF DeleteRegionCall
<1>8. Len(text') = Len(text) - (y - y) /\ InText(text', Cursor(x, y))
    BY <1>6, <1>7 DEF IsDeletion
<1> QED BY <1>1, <1>5, <1>8

(* What a command has still to do, after its first call: insert at a place *)
(* the text has, delete a line the text has, or one after the other.       *)
AddCall(c, t) ==
    \E pos \in Pos, data \in Seq(Line) :
        data # <<>> /\ InText(t, pos) /\ c = RegionCall(AddOperation(pos, data))
LineCall(n) == [call |-> "deleteLine", line |-> n]
Rest(r, t) ==
    \/ r = <<>>
    \/ \E c : AddCall(c, t) /\ r = << c >>
    \/ \E c : \E n \in Nat : AddCall(c, t) /\ Deletable(n, t) /\ r = << c >> \o << LineCall(n) >>
    \/ \E n \in Nat : Deletable(n, t) /\ r = << LineCall(n) >>

(* The form of the edits: the first call is recorded, the others can be.   *)
RecordedForm ==
    \E name, line, rest :
        /\ Edit(name, line, rest) /\ name # "adjustNumber"
        /\ RecordedChange
        /\ rest \in Seq(PlainCall) /\ Rest(rest, text')

(* An insertion that waits, told by its fields.                            *)
LEMMA AddCallPlain ==
    ASSUME NEW t, NEW c, AddCall(c, t)
    PROVE  c \in PlainCall /\ c.call = "region" /\ c.op \in Operation /\ c.op.type = "add"
           /\ InText(t, c.op.interval.from)
<1>1. PICK pos \in Pos, data \in Seq(Line) :
        data # <<>> /\ InText(t, pos) /\ c = RegionCall(AddOperation(pos, data))
    BY DEF AddCall
<1> DEFINE op == AddOperation(pos, data)
<1>2. op \in Operation /\ op.type = "add" /\ op.interval.from = pos
    BY <1>1, AddOperationType
<1> HIDE DEF op
<1>3. c = RegionCall(op)
    BY <1>1 DEF op
<1>4. c.call = "region" /\ c.op = op
    BY <1>3 DEF RegionCall
<1> QED BY <1>1, <1>2, <1>3, <1>4, CallsMade

(* The edits that are one insertion.                                       *)
LEMMA InsertRecordedForm ==
    ASSUME TInv, NEW pos \in Pos, InText(text, pos), NEW data \in Seq(Line), data # <<>>,
           InsertRegionCall(pos, data),
           NEW name, name # "adjustNumber", NEW line, Edit(name, line, <<>>)
    PROVE  RecordedForm
<1>1. text \in Text
    BY DEF TInv, TypeOK, Text, LineCount
<1>2. RecordedChange
    BY <1>1, InsertRecorded
<1>3. <<>> \in Seq(PlainCall) /\ Rest(<<>>, text')
    BY EmptySeq DEF Rest
<1> QED BY <1>2, <1>3 DEF RecordedForm

(* The edits that begin by deleting within a line, and go on with r.       *)
LEMMA DeleteRecordedForm ==
    ASSUME TInv, NEW x \in Nat, NEW y \in Nat, InText(text, Cursor(x, y)),
           NEW ex \in Nat, ex >= x,
           NEW bi \in Region, bi.from = Cursor(x, y), EndCursor(bi) = Cursor(ex, y),
           DeleteRegionCall(bi),
           NEW name, name # "adjustNumber", NEW line, NEW r, Edit(name, line, r),
           r \in Seq(PlainCall),
           Len(text') = Len(text) /\ InText(text', Cursor(x, y)) => Rest(r, text')
    PROVE  RecordedForm
<1>1. text \in Text
    BY DEF TInv, TypeOK, Text, LineCount
<1>2. RecordedChange /\ Len(text') = Len(text) /\ InText(text', Cursor(x, y))
    BY <1>1, DeleteInLineRecorded
<1> QED BY <1>2 DEF RecordedForm

(* The intervals of the edits inside a line.                               *)
LEMMA InLine ==
    ASSUME text \in Text, NEW x \in Nat, NEW y \in Nat, y < Len(text)
    PROVE  /\ CharsInterval(Cursor(x, y), 1).from = Cursor(x, y)
           /\ EndCursor(CharsInterval(Cursor(x, y), 1)) = Cursor(x + 1, y)
           /\ LineContent(text, y).from = Cursor(0, y)
           /\ EndCursor(LineContent(text, y)) = Cursor(GetLineLength(text, y), y)
           /\ GetLineLength(text, y) \in Nat
           /\ x \in Columns(y) => InText(text, Cursor(x, y))
           /\ x \in CharColumns(y) => InText(text, Cursor(x, y))
<1> DEFINE n == GetLineLength(text, y)
<1>1. n \in Nat
    BY LineFacts
<1>2. Columns(y) = 0..n /\ CharColumns(y) = 0..(IF n = 0 THEN 0 ELSE n - 1)
    BY DEF Columns, CharColumns
<1>3. LineContent(text, y) = ClosedInterval(Cursor(0, y), Cursor(n - 1, y))
    BY DEF LineContent
<1> HIDE DEF n
<1>4. /\ CharsInterval(Cursor(x, y), 1).from = Cursor(x, y)
      /\ EndCursor(CharsInterval(Cursor(x, y), 1)) = Cursor(x + 1, y)
    BY DEF CharsInterval, ClosedInterval, Interval, EndCursor, Cursor
<1>5. LineContent(text, y).from = Cursor(0, y) /\ EndCursor(LineContent(text, y)) = Cursor(n, y)
    BY <1>1, <1>3 DEF ClosedInterval, Interval, EndCursor, Cursor
<1>6. ASSUME x <= n PROVE InText(text, Cursor(x, y))
    BY <1>6, TextPos DEF n
<1>7. x \in Columns(y) => x <= n
    BY <1>1, <1>2
<1>8. x \in CharColumns(y) => x <= n
    BY <1>1, <1>2
<1> QED BY <1>1, <1>4, <1>5, <1>6, <1>7, <1>8 DEF n

(* Every edit but that of <C-a> has this form: its first operation can be  *)
(* undone, and what follows will find its place.                           *)
LEMMA EditTextRecorded ==
    ASSUME TInv, Commands \cap {"adjustNumber", "reload"} = {}, EditText
    PROVE  RecordedForm
<1>1. text \in Text
    BY DEF TInv, TypeOK, Text, LineCount
<1>2. PICK line \in Lines :
        \/ DeleteLine(line) \/ MergeNextLine(line)
        \/ \E x \in Columns(line) : InsertNewLine(Cursor(x, line))
        \/ \E x \in CharColumns(line) : DeleteChar(Cursor(x, line), 1)
        \/ \E c \in Char :
              \/ \E x \in Columns(line) : InsertChar(Cursor(x, line), c)
              \/ \E x \in CharColumns(line) :
                    ReplaceChar(Cursor(x, line), c) \/ AdjustNumber(Cursor(x, line), c)
              \/ \E l \in {0, line + 1} : InsertLine(l, <<c>>)
              \/ ReplaceLine(line, <<c>>)
    BY DEF EditText
<1>3. /\ line \in Nat /\ line < Len(text) /\ Len(text) \in Nat
      /\ Columns(line) \subseteq Nat /\ CharColumns(line) \subseteq Nat
    <2>1. line \in 0..Len(text) - 1
        BY <1>2 DEF Lines, LineCount
    <2>2. Len(text) \in Nat
        BY <1>1, LineFacts DEF LineCount
    <2>3. line \in Nat /\ line < Len(text)
        BY <2>1, <2>2
    <2> QED BY <1>1, <2>2, <2>3, LineFacts
<1>4. \A c \in Char : << <<c>> >> \in Seq(Line) /\ << <<c>> >> # <<>> /\ <<c>> \in Line
    BY DEF Line
<1>5. LineContent(text, line) \in Region
      /\ \A x \in Nat : CharsInterval(Cursor(x, line), 1) \in Region
    BY <1>1, <1>3, Intervals
<1>6. \A x \in Nat : Cursor(x, line) \in Pos
    BY <1>3, CursorIsPos
(* The insertion that a replacement goes on with.                          *)
<1>7. ASSUME NEW x \in Nat, NEW l \in Line
      PROVE  << RegionCall(AddOperation(Cursor(x, line), << l >>)) >> \in Seq(PlainCall)
             /\ (InText(text', Cursor(x, line)) =>
                    AddCall(RegionCall(AddOperation(Cursor(x, line), << l >>)), text'))
    <2> DEFINE ls == << l >>
               p == Cursor(x, line)
    <2>1. p \in Pos /\ ls \in Seq(Line) /\ ls # <<>>
        BY <1>6
    <2> HIDE DEF ls, p
    <2>2. AddOperation(p, ls) \in Operation
        BY <2>1, AddOperationType
    <2>3. InText(text', p) => AddCall(RegionCall(AddOperation(p, ls)), text')
        BY <2>1 DEF AddCall
    <2> QED BY <2>2, <2>3, CallsMade DEF ls, p
<1>8. ASSUME DeleteLine(line) PROVE RecordedForm
    <2> DEFINE n == IF line = LineCount(text') THEN line - 1 ELSE line
               name == NameAt(line, "deleteLine", "deleteLastLine")
    <2>1. DeleteRegionCall(LineInterval(text, line)) /\ Edit(name, n, <<>>)
        BY <1>8 DEF DeleteLine
    <2> HIDE DEF n
    <2>2. name \in Commands
        BY <2>1 DEF Edit
    <2>3. Deletable(line, text) /\ name # "adjustNumber"
        BY <1>3, <2>2 DEF Deletable, Exact, NameAt, LineCount
    <2> HIDE DEF name
    <2>4. RecordedChange
        BY <1>1, <1>3, <2>1, <2>3, DeleteLineRecorded
    <2>5. <<>> \in Seq(PlainCall) /\ Rest(<<>>, text')
        BY EmptySeq DEF Rest
    <2> QED BY <2>1, <2>3, <2>4, <2>5 DEF RecordedForm
<1>9. ASSUME MergeNextLine(line) PROVE RecordedForm
    <2> DEFINE l == Textline(text, line) \o Textline(text, line + 1)
               z == 0
               n == line + 1
               c == RegionCall(AddOperation(Cursor(z, line), << l >>))
               r == << c >> \o << LineCall(n) >>
               k == GetLineLength(text, line)
               name == NameAt(n, "mergeNextLine", "mergeLastLine")
    <2>1. l \in Line /\ n \in Nat /\ n < Len(text)
        <3>1. line + 1 < Len(text)
            BY <1>3, <1>9 DEF MergeNextLine, LineCount
        <3>2. Textline(text, line) \in Line /\ Textline(text, line + 1) \in Line
            BY <1>1, <1>3, LineFacts
        <3> QED BY <1>3, <3>1, <3>2, ConcatProperties DEF Line
    <2>2. DeleteRegionCall(LineContent(text, line)) /\ Edit(name, line, r)
        BY <1>9 DEF MergeNextLine, ReplaceLineCalls, LineCall
    <2>3. Deletable(n, text) /\ name # "adjustNumber"
        <3>1. name \in Commands
            BY <2>2 DEF Edit
        <3> HIDE DEF n
        <3> QED BY <1>3, <2>1, <3>1 DEF Deletable, Exact, NameAt, LineCount
    <2> HIDE DEF name
    <2>4. LineContent(text, line).from = Cursor(z, line)
          /\ EndCursor(LineContent(text, line)) = Cursor(k, line) /\ k \in Nat
        BY <1>1, <1>3, InLine
    <2>5. z \in Nat /\ k >= z
        BY <2>4
    <2> HIDE DEF l, n, k
    <2>6. InText(text, Cursor(z, line))
        <3>1. z <= GetLineLength(text, line)
            BY <2>5 DEF k
        <3> QED BY <1>1, <1>3, <2>5, <3>1, TextPos
    <2> HIDE DEF z
    <2>7. << c >> \in Seq(PlainCall) /\ (InText(text', Cursor(z, line)) => AddCall(c, text'))
        BY <1>7, <2>1, <2>5
    <2>8. r \in Seq(PlainCall)
        <3>1. << LineCall(n) >> \in Seq(PlainCall)
            BY <2>1, CallsMade DEF LineCall
        <3> HIDE DEF c
        <3> QED BY <2>7, <3>1, ConcatProperties
    <2> HIDE DEF c
    <2>9. Len(text') = Len(text) /\ InText(text', Cursor(z, line)) => Rest(r, text')
        BY <2>1, <2>3, <2>7 DEF Rest, Deletable
    <2> HIDE DEF r
    <2> QED BY <1>3, <1>5, <2>2, <2>3, <2>4, <2>5, <2>6, <2>8, <2>9, DeleteRecordedForm
<1>10. ASSUME NEW x \in Columns(line), InsertNewLine(Cursor(x, line)) PROVE RecordedForm
    <2>1. LineBreak \in Seq(Line) /\ LineBreak # <<>>
        BY EmptySeq DEF LineBreak, Line
    <2>2. Cursor(x, line) \in Pos /\ InText(text, Cursor(x, line))
        BY <1>1, <1>3, <1>6, InLine
    <2> QED BY <1>10, <2>1, <2>2, InsertRecordedForm DEF InsertNewLine
<1>11. ASSUME NEW x \in CharColumns(line), DeleteChar(Cursor(x, line), 1) PROVE RecordedForm
    <2> DEFINE bi == CharsInterval(Cursor(x, line), 1)
               ex == x + 1
    <2>1. /\ x \in Nat /\ bi \in Region /\ bi.from = Cursor(x, line)
          /\ EndCursor(bi) = Cursor(ex, line) /\ InText(text, Cursor(x, line))
        BY <1>1, <1>3, <1>5, InLine
    <2>2. ex \in Nat /\ ex >= x
        BY <2>1
    <2>3. DeleteRegionCall(bi) /\ Edit("deleteChar", Cursor(x, line).y, <<>>)
        BY <1>11 DEF DeleteChar
    <2>4. <<>> \in Seq(PlainCall) /\ Rest(<<>>, text')
        BY EmptySeq DEF Rest
    <2> HIDE DEF bi, ex
    <2> QED BY <1>3, <2>1, <2>2, <2>3, <2>4, DeleteRecordedForm
<1>12. ASSUME NEW c \in Char, NEW x \in Columns(line), InsertChar(Cursor(x, line), c) PROVE RecordedForm
    <2>1. Cursor(x, line) \in Pos /\ InText(text, Cursor(x, line))
        BY <1>1, <1>3, <1>6, InLine
    <2> QED BY <1>4, <1>12, <2>1, InsertRecordedForm DEF InsertChar
<1>13. ASSUME NEW c \in Char, NEW x \in CharColumns(line), ReplaceChar(Cursor(x, line), c)
       PROVE  RecordedForm
    <2> DEFINE bi == CharsInterval(Cursor(x, line), 1)
               ex == x + 1
               l == <<c>>
               d == RegionCall(AddOperation(Cursor(x, line), << l >>))
               r == << d >>
    <2>1. /\ x \in Nat /\ bi \in Region /\ bi.from = Cursor(x, line)
          /\ EndCursor(bi) = Cursor(ex, line) /\ InText(text, Cursor(x, line))
        BY <1>1, <1>3, <1>5, InLine
    <2>2. ex \in Nat /\ ex >= x
        BY <2>1
    <2>3. DeleteRegionCall(bi) /\ Edit("replaceChar", Cursor(x, line).y, r)
        BY <1>13 DEF ReplaceChar
    <2>4. l \in Line
        BY <1>4
    <2> HIDE DEF bi, ex, l
    <2>5. r \in Seq(PlainCall) /\ (InText(text', Cursor(x, line)) => AddCall(d, text'))
        BY <1>7, <2>1, <2>4
    <2> HIDE DEF d
    <2>6. Len(text') = Len(text) /\ InText(text', Cursor(x, line)) => Rest(r, text')
        BY <2>5 DEF Rest
    <2> HIDE DEF r
    <2> QED BY <1>3, <2>1, <2>2, <2>3, <2>5, <2>6, DeleteRecordedForm
<1>14. ASSUME NEW c \in Char, NEW x \in CharColumns(line), AdjustNumber(Cursor(x, line), c)
       PROVE  FALSE
    <2>1. "adjustNumber" \in Commands
        BY <1>14 DEF AdjustNumber, Edit
    <2> QED BY <2>1
<1>15. ASSUME NEW c \in Char, NEW l \in {0, line + 1}, InsertLine(l, <<c>>) PROVE RecordedForm
    <2> DEFINE p == NewLinePosition(text, l)
               data == NewLineData(l, <<c>>)
    <2>1. l \in Nat
        BY <1>3
    <2>2. p \in Pos /\ InText(text, p)
        <3>1. CASE l = 0
            <4> DEFINE z == 0
            <4>1. p = Cursor(z, z)
                BY <3>1 DEF NewLinePosition
            <4>2. z \in Nat /\ z < Len(text) /\ z <= GetLineLength(text, z)
                BY <1>1, <1>3, LineFacts
            <4> HIDE DEF p, z
            <4> QED BY <1>1, <4>1, <4>2, TextPos
        <3>2. CASE l # 0
            <4> DEFINE x == GetLineLength(text, line)
            <4>1. p = Cursor(GetLineLength(text, l - 1), l - 1) /\ l - 1 = line
                BY <1>3, <3>2 DEF NewLinePosition
            <4>2. p = Cursor(x, line)
                BY <4>1
            <4>3. x \in Nat /\ x <= GetLineLength(text, line)
                BY <1>1, <1>3, LineFacts
            <4> HIDE DEF p, x
            <4> QED BY <1>1, <1>3, <4>2, <4>3, TextPos
        <3> QED BY <3>1, <3>2
    <2>3. data \in Seq(Line) /\ data # <<>>
        BY EmptySeq DEF NewLineData, Line
    <2>4. InsertRegionCall(p, data) /\ Edit("insertLine", l, <<>>)
        BY <1>15 DEF InsertLine
    <2> HIDE DEF p, data
    <2> QED BY <2>2, <2>3, <2>4, InsertRecordedForm
<1>16. ASSUME NEW c \in Char, ReplaceLine(line, <<c>>) PROVE RecordedForm
    <2> DEFINE bi == LineContent(text, line)
               z == 0
               k == GetLineLength(text, line)
               l == <<c>>
               d == RegionCall(AddOperation(Cursor(z, line), << l >>))
               r == << d >>
    <2>1. bi.from = Cursor(z, line) /\ EndCursor(bi) = Cursor(k, line) /\ k \in Nat /\ bi \in Region
        BY <1>1, <1>3, <1>5, InLine
    <2>2. z \in Nat /\ k >= z
        BY <2>1
    <2>3. DeleteRegionCall(bi) /\ Edit("replaceLine", line, r)
        BY <1>16 DEF ReplaceLine, ReplaceLineCalls
    <2>4. l \in Line
        BY <1>4
    <2> HIDE DEF bi, l, k
    <2>5. InText(text, Cursor(z, line))
        <3>1. z <= GetLineLength(text, line)
            BY <2>2 DEF k
        <3> QED BY <1>1, <1>3, <2>2, <3>1, TextPos
    <2> HIDE DEF z
    <2>6. r \in Seq(PlainCall) /\ (InText(text', Cursor(z, line)) => AddCall(d, text'))
        BY <1>7, <2>2, <2>4
    <2> HIDE DEF d
    <2>7. Len(text') = Len(text) /\ InText(text', Cursor(z, line)) => Rest(r, text')
        BY <2>6 DEF Rest
    <2> HIDE DEF r
    <2> QED BY <1>3, <2>1, <2>2, <2>3, <2>5, <2>6, <2>7, DeleteRecordedForm
<1> QED BY <1>2, <1>8, <1>9, <1>10, <1>11, <1>12, <1>13, <1>14, <1>15, <1>16
-----------------------------------------------------------------------------
(* What ends a command: in command mode the commit, in insert mode         *)
(* nothing.                                                                *)
Ends(m) == IF m = "command" THEN << [call |-> "commit"] >> ELSE <<>>

(* What waits: nothing, the question after a start or what follows it, or  *)
(* calls of a command.                                                     *)
Answered == << [call |-> "recovered"] >>
Quiet == calls \in {<<>>, Question, Answered}
Waiting ==
    Quiet \/ \E r \in Seq(PlainCall) : Rest(r, text) /\ calls = r \o Ends(mode)

(* The inductive invariant behind the theorems below.                       *)
UInv ==
    running =>
        /\ UndoState(text, mUndoItemList, mCurrentIndex, mFutureUndoItem.ops, replay, snap)
        /\ Waiting
        /\ Quiet /\ mode = "command" => mFutureUndoItem.ops = <<>>
        /\ replay # Undo!Idle => mode = "command"

(* What TInv says of the undo list.                                        *)
LEMMA UndoFacts ==
    ASSUME TInv
    PROVE  /\ text \in Text /\ mode \in {"command", "insert"}
           /\ mUndoItemList \in Seq(Undo!UndoItem) /\ mCurrentIndex \in 0..Len(mUndoItemList)
           /\ mFutureUndoItem \in Undo!UndoItem /\ mFutureUndoItem.ops \in Seq(Operation)
           /\ replay \in [dir : {"none", "undo", "redo"}, ops : Seq(Operation)]
           /\ Undo!Idle.dir = "none" /\ Undo!Idle.ops = <<>>
           /\ replay = Undo!Idle => ~mInsideUndo
           /\ replay # Undo!Idle => mInsideUndo /\ replay.dir \in {"undo", "redo"} /\ calls = <<>>
<1>1. text \in Text /\ mode \in {"command", "insert"} /\ (calls # <<>> => replay = Undo!Idle)
    BY DEF TInv, TypeOK, Text, LineCount, CallsOK
<1>2. /\ mUndoItemList \in Seq(Undo!UndoItem) /\ mCurrentIndex \in 0..Len(mUndoItemList)
      /\ mFutureUndoItem \in Undo!UndoItem
      /\ replay \in [dir : {"none", "undo", "redo"}, ops : Seq(Operation)]
    BY DEF TInv, UndoOK, Undo!TypeOK
<1>3. mFutureUndoItem.ops \in Seq(Operation)
    BY <1>2 DEF Undo!UndoItem
<1>4. Undo!Idle.dir = "none" /\ Undo!Idle.ops = <<>>
    BY DEF Undo!Idle
<1>5. (mInsideUndo <=> replay.dir # "none") /\ (replay.dir = "none" => replay.ops = <<>>)
    BY DEF TInv, UndoOK, Undo!ReplayIsInside
<1>6. replay.dir = "none" => replay = Undo!Idle
    BY <1>2, <1>5 DEF Undo!Idle
<1> QED BY <1>1, <1>2, <1>3, <1>4, <1>5, <1>6

(* The call that comes first, and the others.                              *)
LEMMA FirstCall ==
    ASSUME NEW c \in PlainCall, NEW q \in Seq(PlainCall)
    PROVE  /\ << c >> \o q # <<>> /\ Head(<< c >> \o q) = c /\ Tail(<< c >> \o q) = q
           /\ << c >> \o q \in Seq(PlainCall)
<1> DEFINE one == << c >>
           w == one \o q
<1>1. one \in Seq(PlainCall) /\ Len(one) = 1 /\ one[1] = c /\ Len(q) \in Nat
    OBVIOUS
<1> HIDE DEF one
<1>2. /\ w \in Seq(PlainCall) /\ Len(w) = 1 + Len(q)
      /\ \A i \in 1..1 + Len(q) : w[i] = IF i <= 1 THEN one[i] ELSE q[i - 1]
    <2>1. /\ w \in Seq(PlainCall) /\ Len(w) = Len(one) + Len(q)
          /\ \A i \in 1..Len(one) + Len(q) :
                w[i] = IF i <= Len(one) THEN one[i] ELSE q[i - Len(one)]
        BY ONLY <1>1, q \in Seq(PlainCall), ConcatProperties
    <2> HIDE DEF w
    <2> QED BY ONLY <1>1, <2>1
<1> HIDE DEF w
<1>3. w # <<>>
    BY <1>1, <1>2
<1>4. /\ Head(w) = w[1] /\ Tail(w) \in Seq(PlainCall) /\ Len(Tail(w)) = Len(w) - 1
      /\ \A i \in 1..Len(Tail(w)) : Tail(w)[i] = w[i + 1]
    BY <1>2, <1>3, HeadTailProperties
<1> DEFINE u == Tail(w)
<1>5. Len(u) = Len(q) /\ \A i \in 1..Len(q) : u[i] = q[i]
    <2>1. Len(u) = Len(q)
        BY <1>1, <1>2, <1>4
    <2>2. ASSUME NEW i \in 1..Len(q) PROVE u[i] = q[i]
        <3>1. i + 1 \in 1..1 + Len(q) /\ ~(i + 1 <= 1) /\ (i + 1) - 1 = i
            BY <1>1
        <3>2. w[i + 1] = q[i]
            BY <1>2, <3>1
        <3> QED BY <1>4, <2>1, <3>2
    <2> QED BY <2>1, <2>2
<1>6. u \in Seq(PlainCall)
    BY <1>4
<1> HIDE DEF u
<1>7. u = q
    BY <1>5, <1>6, SeqEqual
<1>8. w[1] = c
    BY <1>1, <1>2
<1> QED BY <1>2, <1>3, <1>4, <1>7, <1>8 DEF w, one, u

(* The call of deleteLine that mergeNextLine has to make.                  *)
LEMMA LineCallPlain ==
    ASSUME NEW n \in Nat
    PROVE  LineCall(n) \in PlainCall /\ << LineCall(n) >> \in Seq(PlainCall)
           /\ LineCall(n).call = "deleteLine" /\ LineCall(n).line = n
<1> DEFINE c == LineCall(n)
<1>1. c \in PlainCall
    BY DEF LineCall, PlainCall
<1>2. c.call = "deleteLine" /\ c.line = n
    BY DEF LineCall
<1> HIDE DEF c
<1>3. << c >> \in Seq(PlainCall)
    BY <1>1
<1> QED BY <1>1, <1>2, <1>3 DEF c

(* Calls of a command are none of the question after a start.              *)
LEMMA NotQuiet ==
    ASSUME NEW q \in Seq(PlainCall), Len(q) # 0
    PROVE  q \notin {<<>>, Question, Answered}
<1>1. Len(q) \in Nat /\ 1 \in 1..Len(q)
    BY LenProperties
<1>2. q[1] \in PlainCall
    BY <1>1, ElementOfSeq
<1> DEFINE c == q[1]
<1> HIDE DEF c
<1>3. c.call \notin {"checkRecover", "recovered"}
    BY <1>2, CallFields, CallsMade DEF c
<1>4. Question[1].call = "checkRecover" /\ Answered[1].call = "recovered"
    BY DEF Question, Answered
<1>5. q # Question /\ q # Answered
    BY <1>3, <1>4 DEF c
<1> QED BY <1>5

(* The question, or what follows it, is the only call that waits.          *)
LEMMA QuietCalls ==
    ASSUME Quiet, calls # <<>>
    PROVE  Head(calls).call \in {"checkRecover", "recovered"} /\ Tail(calls) = <<>>
<1> DEFINE z == [call |-> "checkRecover"]
           w == [call |-> "recovered"]
<1>1. z.call = "checkRecover" /\ w.call = "recovered"
    OBVIOUS
<1>2. calls = << z >> \/ calls = << w >>
    BY DEF Quiet, Question, Answered
<1> HIDE DEF z, w
<1>3. Head(<< z >>) = z /\ Tail(<< z >>) = <<>> /\ Head(<< w >>) = w /\ Tail(<< w >>) = <<>>
    OBVIOUS
<1> QED BY <1>1, <1>2, <1>3

(* A change of the text that is recorded keeps the invariant.              *)
LEMMA RecordedStep ==
    ASSUME TInv, UInv, running, running', replay = Undo!Idle, RecordedChange,
           UNCHANGED << mCurrentIndex, replay, mode >>, RememberText,
           NEW r \in Seq(PlainCall), Rest(r, text'), calls' = r \o Ends(mode)
    PROVE  UInv'
<1> DEFINE cur == mCurrentIndex
           list == mUndoItemList
           fops == mFutureUndoItem.ops
<1>1. PICK op \in Operation, v \in Empties :
        Step(text \o v, op, text') /\ Undo!AddBufferOperation(op)
    BY DEF RecordedChange
<1>2. UndoState(text, list, cur, fops, replay, snap)
    BY DEF UInv
<1>3. /\ mFutureUndoItem' = [mFutureUndoItem EXCEPT !.ops = Append(@, op)]
      /\ mUndoItemList' = SubSeq(list, 1, cur)
    BY <1>1, UndoFacts DEF Undo!AddBufferOperation, Undo!ItemsUpToCurrent
<1>4. mFutureUndoItem'.ops = Append(fops, op)
    BY <1>3, UndoFacts DEF Undo!UndoItem
<1>5. Append(fops, op) # <<>>
    <2>1. fops \in Seq(Operation)
        BY UndoFacts
    <2>2. Len(Append(fops, op)) = Len(fops) + 1 /\ Len(fops) \in Nat
        BY ONLY <2>1, op \in Operation, AppendProperties, LenProperties
    <2> HIDE DEF fops
    <2>3. Len(Append(fops, op)) # 0
        BY ONLY <2>2
    <2> QED BY ONLY <2>3, Len(<<>>) = 0
<1>6. snap' = snap
    BY <1>4, <1>5 DEF RememberText, ItemCommitted
<1>7. list \in Seq(Undo!UndoItem) /\ cur \in 0..Len(list) /\ fops \in Seq(Operation) /\ replay.dir = "none"
    BY UndoFacts
<1> HIDE DEF cur, list, fops
<1>8. UndoState(text', SubSeq(list, 1, cur), cur, Append(fops, op), replay, snap)
    BY <1>1, <1>2, <1>7, Recorded
<1>9. UndoState(text', mUndoItemList', mCurrentIndex', mFutureUndoItem'.ops, replay', snap')
    BY <1>3, <1>4, <1>6, <1>8 DEF cur
<1>10. Waiting'
    BY DEF Waiting
<1>11. ~(Quiet' /\ mode' = "command")
    <2>1. ASSUME mode = "command" PROVE ~Quiet'
        <3> DEFINE e == << [call |-> "commit"] >>
        <3>1. calls' = r \o e
            BY <2>1 DEF Ends
        <3>2. e \in Seq(PlainCall) /\ Len(e) = 1
            BY CallsMade
        <3> HIDE DEF e
        <3>3. Len(r \o e) = Len(r) + Len(e) /\ r \o e \in Seq(PlainCall)
            BY ONLY <3>2, r \in Seq(PlainCall), ConcatProperties
        <3>4. Len(r) \in Nat
            BY ONLY r \in Seq(PlainCall), LenProperties
        <3> DEFINE q == r \o e
        <3>5. q \in Seq(PlainCall) /\ Len(q) # 0
            BY ONLY <3>2, <3>3, <3>4
        <3> HIDE DEF q
        <3>6. q \notin {<<>>, Question, Answered}
            BY <3>5, NotQuiet
        <3> QED BY <3>1, <3>6 DEF Quiet, q
    <2> QED BY <2>1
<1> QED BY <1>9, <1>10, <1>11 DEF UInv

(* A commit keeps the invariant.                                           *)
LEMMA CommittedStep ==
    ASSUME TInv, UInv, running, running', replay = Undo!Idle,
           Undo!CommitUndoItem(cursorLine), text' = text, RememberText, calls' = <<>>
    PROVE  UInv'
<1> DEFINE cur == mCurrentIndex
           list == mUndoItemList
           item == mFutureUndoItem
<1>1. UndoState(text, list, cur, item.ops, replay, snap)
    BY DEF UInv
<1>2. /\ list \in Seq(Undo!UndoItem) /\ cur \in 0..Len(list) /\ item \in Undo!UndoItem
      /\ replay.dir = "none" /\ ~mInsideUndo
    BY UndoFacts
<1>3. Waiting'
    BY DEF Waiting, Quiet
<1>4. CASE item.ops = <<>>
    <2>1. UNCHANGED undoVars
        BY <1>4 DEF Undo!CommitUndoItem, Undo!vars, undoVars
    <2>2. snap' = snap
        BY <1>4 DEF RememberText, ItemCommitted
    <2> QED BY <1>1, <1>3, <1>4, <2>1, <2>2 DEF UInv, undoVars
<1>5. CASE item.ops # <<>>
    <2>1. /\ mUndoItemList' = Append(SubSeq(list, 1, cur), item)
          /\ mCurrentIndex' = cur + 1
          /\ mFutureUndoItem' = [ops |-> <<>>, start |-> cursorLine]
          /\ replay' = replay
        BY <1>2, <1>5 DEF Undo!CommitUndoItem, Undo!ItemsUpToCurrent
    <2>2. mFutureUndoItem'.ops = <<>>
        BY <2>1
    <2>3. snap' = SubSeq(snap, 1, cur + 1) \o << text >>
        BY <1>5, <2>2 DEF RememberText, ItemCommitted
    <2> HIDE DEF cur, list, item
    <2>4. UndoState(text, Append(SubSeq(list, 1, cur), item), cur + 1, <<>>, replay,
                    SubSeq(snap, 1, cur + 1) \o << text >>)
        BY <1>1, <1>2, Committed
    <2>5. UndoState(text', mUndoItemList', mCurrentIndex', mFutureUndoItem'.ops, replay', snap')
        BY <2>1, <2>2, <2>3, <2>4
    <2> QED BY <1>3, <2>1, <2>2, <2>5 DEF UInv
<1> QED BY <1>4, <1>5

(* So does a step that leaves the text and the undo list alone.            *)
LEMMA QuietStep ==
    ASSUME TInv, UInv, UNCHANGED << text, undoVars, running >>, RememberText, Waiting',
           Quiet' /\ mode' = "command" => mFutureUndoItem.ops = <<>>,
           replay # Undo!Idle => mode' = "command"
    PROVE  UInv'
<1>1. CASE ~running
    BY <1>1 DEF UInv
<1>2. CASE running
    <2>1. snap' = snap
        <3>1. ~ItemCommitted
            BY DEF ItemCommitted, undoVars
        <3> QED BY <1>2, <3>1 DEF RememberText
    <2> QED BY <1>2, <2>1 DEF UInv, undoVars
<1> QED BY <1>1, <1>2

(* The insertion of a replacement is recorded at a place the text has, in  *)
(* front of a line break or a deletion that may follow.                    *)
LEMMA CallRegionStep ==
    ASSUME TInv, UInv, CallRegion, RememberText PROVE UInv'
<1> DEFINE e == Ends(mode)
<1>1. /\ running /\ calls # <<>> /\ Head(calls).call = "region" /\ calls' = Tail(calls)
      /\ UNCHANGED << mCurrentIndex, replay, mode, running >>
    BY DEF CallRegion, NextCall
<1>2. PICK r \in Seq(PlainCall) : Rest(r, text) /\ calls = r \o e
    BY <1>1, QuietCalls DEF UInv, Waiting, Quiet
<1>3. replay = Undo!Idle /\ text \in Text
    BY <1>1, UndoFacts
<1>4. e \in Seq(PlainCall) /\ (e # <<>> => Head(e).call = "commit")
    BY CallsMade, EmptySeq DEF Ends
<1>5. ASSUME NEW n \in Nat
      PROVE  LineCall(n) \in PlainCall /\ << LineCall(n) >> \in Seq(PlainCall)
             /\ LineCall(n).call = "deleteLine" /\ LineCall(n).line = n
    BY LineCallPlain
(* An insertion comes first, whatever follows.                             *)
<1>6. ASSUME NEW c, AddCall(c, text), Head(calls) = c PROVE RecordedChange /\ Len(text') >= Len(text)
    <2>1. PICK pos \in Pos, data \in Seq(Line) :
            data # <<>> /\ InText(text, pos) /\ c = RegionCall(AddOperation(pos, data))
        BY <1>6 DEF AddCall
    <2> DEFINE op == AddOperation(pos, data)
    <2>2. op.type = "add" /\ op.interval.from = pos /\ op.data = data
        BY <2>1, AddOperationType
    <2> HIDE DEF op
    <2>3. Head(calls).op = op
        BY <1>6, <2>1 DEF RegionCall, op
    <2>4. InsertRegionCall(pos, data)
        BY <2>2, <2>3 DEF CallRegion
    <2> QED BY <1>3, <2>1, <2>4, InsertRecorded
<1> HIDE DEF e
<1>7. CASE r = <<>>
    <2>1. calls = e
        BY <1>2, <1>4, <1>7
    <2> QED BY <1>1, <1>4, <2>1
<1>8. CASE \E c : AddCall(c, text) /\ r = << c >>
    <2>1. PICK c : AddCall(c, text) /\ r = << c >>
        BY <1>8
    <2>2. c \in PlainCall
        BY <2>1, AddCallPlain
    <2>3. calls = << c >> \o e
        BY <1>2, <2>1
    <2>4. Head(calls) = c /\ Tail(calls) = e
        BY <1>4, <2>2, <2>3, FirstCall
    <2>5. RecordedChange
        BY <1>6, <2>1, <2>4
    <2>6. <<>> \in Seq(PlainCall) /\ Rest(<<>>, text') /\ calls' = <<>> \o e
        BY <1>1, <1>4, <2>4, EmptySeq DEF Rest
    <2> QED BY <1>1, <1>3, <2>5, <2>6, RecordedStep DEF e
<1>9. CASE \E c : \E n \in Nat :
            AddCall(c, text) /\ Deletable(n, text) /\ r = << c >> \o << LineCall(n) >>
    <2>1. PICK c : \E n \in Nat :
            AddCall(c, text) /\ Deletable(n, text) /\ r = << c >> \o << LineCall(n) >>
        BY <1>9
    <2>2. PICK n \in Nat : AddCall(c, text) /\ Deletable(n, text) /\ r = << c >> \o << LineCall(n) >>
        BY <2>1
    <2> DEFINE a == << c >>
               d == << LineCall(n) >>
    <2>3. c \in PlainCall /\ a \in Seq(PlainCall) /\ d \in Seq(PlainCall)
        BY <1>5, <2>2, AddCallPlain
    <2>4. calls = a \o (d \o e)
        <3>1. calls = (a \o d) \o e
            BY <1>2, <2>2
        <3> HIDE DEF a, d
        <3>2. (a \o d) \o e = a \o (d \o e)
            BY ONLY <1>4, <2>3, ConcatAssociative
        <3> QED BY <3>1, <3>2
    <2> HIDE DEF d
    <2>5. d \o e \in Seq(PlainCall)
        BY ONLY <1>4, <2>3, ConcatProperties
    <2>6. Head(calls) = c /\ Tail(calls) = d \o e
        BY <2>3, <2>4, <2>5, FirstCall
    <2>7. RecordedChange /\ Len(text') >= Len(text)
        BY <1>6, <2>2, <2>6
    <2>8. Deletable(n, text')
        <3>1. Len(text) \in Nat
            BY <1>3, LineFacts DEF LineCount
        <3>2. text' \in Text
            BY <2>7 DEF RecordedChange, Step
        <3>3. Len(text') \in Nat
            BY <3>2, LenProperties DEF Text
        <3> QED BY <2>2, <2>7, <3>1, <3>3 DEF Deletable
    <2>9. Rest(d, text')
        BY <2>8 DEF Rest, d
    <2> QED BY <1>1, <1>3, <2>3, <2>6, <2>7, <2>9, RecordedStep DEF e
<1>10. CASE \E n \in Nat : Deletable(n, text) /\ r = << LineCall(n) >>
    <2>1. PICK n \in Nat : Deletable(n, text) /\ r = << LineCall(n) >>
        BY <1>10
    <2>2. calls = << LineCall(n) >> \o e
        BY <1>2, <2>1
    <2>3. Head(calls) = LineCall(n)
        BY <1>4, <1>5, <2>2, FirstCall
    <2> QED BY <1>1, <1>5, <2>3
<1> QED BY <1>2, <1>7, <1>8, <1>9, <1>10 DEF Rest

(* Other calls that wait: the commit, as the last one, and deleteLine, of  *)
(* a line the text has, before it.                                         *)
LEMMA OtherCall ==
    ASSUME TInv, Waiting, calls # <<>>,
           Head(calls).call \notin {"region", "checkRecover", "recovered"}
    PROVE  \/ /\ mode = "command" /\ Head(calls).call = "commit"
              /\ Tail(calls) = <<>>
           \/ \E n \in Nat :
                 Deletable(n, text) /\ Head(calls) = LineCall(n) /\ Tail(calls) = Ends(mode)
<1> DEFINE e == Ends(mode)
           z == [call |-> "commit"]
<1>1. PICK r \in Seq(PlainCall) : Rest(r, text) /\ calls = r \o e
    BY QuietCalls DEF Waiting
<1>2. mode = "command" => e = << z >>
    BY DEF Ends
<1>3. mode # "command" => e = <<>>
    BY DEF Ends
<1>4. z \in PlainCall /\ z.call = "commit"
    BY CallsMade
<1> HIDE DEF z
<1>5. << z >> \in Seq(PlainCall) /\ Head(<< z >>) = z /\ Tail(<< z >>) = <<>>
    BY <1>4
<1>6. e \in Seq(PlainCall)
    BY <1>2, <1>3, <1>5, EmptySeq
<1> HIDE DEF e
<1>7. CASE r = <<>>
    <2>1. calls = e
        BY <1>1, <1>6, <1>7
    <2>2. mode = "command" /\ calls = << z >>
        BY <1>2, <1>3, <2>1
    <2> QED BY <1>4, <1>5, <2>2
<1>8. ASSUME NEW c, AddCall(c, text), NEW q \in Seq(PlainCall), r = << c >> \o q PROVE FALSE
    <2>1. c \in PlainCall /\ c.call = "region"
        BY <1>8, AddCallPlain
    <2> DEFINE a == << c >>
    <2>2. a \in Seq(PlainCall)
        BY <2>1
    <2>3. calls = (a \o q) \o e
        BY <1>1, <1>8
    <2> HIDE DEF a
    <2>4. (a \o q) \o e = a \o (q \o e)
        BY ONLY <1>6, <1>8, <2>2, ConcatAssociative
    <2>5. q \o e \in Seq(PlainCall)
        BY ONLY <1>6, <1>8, ConcatProperties
    <2>6. calls = << c >> \o (q \o e)
        BY <2>3, <2>4 DEF a
    <2>7. Head(calls) = c
        BY <2>1, <2>5, <2>6, FirstCall
    <2> QED BY <2>1, <2>7
<1>9. CASE \E c : AddCall(c, text) /\ r = << c >>
    <2>1. PICK c : AddCall(c, text) /\ r = << c >>
        BY <1>9
    <2>2. c \in PlainCall
        BY <2>1, AddCallPlain
    <2>3. << c >> = << c >> \o <<>> /\ <<>> \in Seq(PlainCall)
        BY <2>2, EmptySeq
    <2> QED BY <1>8, <2>1, <2>3
<1>10. CASE \E c : \E n \in Nat :
            AddCall(c, text) /\ Deletable(n, text) /\ r = << c >> \o << LineCall(n) >>
    <2>1. PICK c : \E n \in Nat :
            AddCall(c, text) /\ Deletable(n, text) /\ r = << c >> \o << LineCall(n) >>
        BY <1>10
    <2>2. PICK n \in Nat : AddCall(c, text) /\ Deletable(n, text) /\ r = << c >> \o << LineCall(n) >>
        BY <2>1
    <2>3. << LineCall(n) >> \in Seq(PlainCall)
        BY LineCallPlain
    <2> QED BY <1>8, <2>2, <2>3
<1>11. CASE \E n \in Nat : Deletable(n, text) /\ r = << LineCall(n) >>
    <2>1. PICK n \in Nat : Deletable(n, text) /\ r = << LineCall(n) >>
        BY <1>11
    <2>2. calls = << LineCall(n) >> \o e
        BY <1>1, <2>1
    <2>3. Head(calls) = LineCall(n) /\ Tail(calls) = e
        BY <1>6, <2>2, LineCallPlain, FirstCall
    <2> QED BY <2>1, <2>3 DEF e
<1> QED BY <1>1, <1>7, <1>9, <1>10, <1>11 DEF Rest

(* mergeNextLine deletes the line it joined, the last one perhaps.         *)
LEMMA CallDeleteLineStep ==
    ASSUME TInv, UInv, CallDeleteLine, RememberText PROVE UInv'
<1>1. /\ running /\ calls # <<>> /\ Head(calls).call = "deleteLine" /\ calls' = Tail(calls)
      /\ UNCHANGED << mCurrentIndex, replay, mode, running >>
    BY DEF CallDeleteLine, NextCall
<1>2. Waiting
    BY <1>1 DEF UInv
<1>3. replay = Undo!Idle /\ text \in Text
    BY <1>1, UndoFacts
<1>4. \E n \in Nat : Deletable(n, text) /\ Head(calls) = LineCall(n) /\ Tail(calls) = Ends(mode)
    BY <1>1, <1>2, OtherCall
<1>5. PICK n \in Nat : Deletable(n, text) /\ Head(calls) = LineCall(n) /\ Tail(calls) = Ends(mode)
    BY <1>4
<1>6. DeleteRegionCall(LineInterval(text, n))
    BY <1>5, LineCallPlain DEF CallDeleteLine
<1>7. RecordedChange
    BY <1>3, <1>4, <1>5, <1>6, DeleteLineRecorded
<1>8. <<>> \in Seq(PlainCall) /\ Rest(<<>>, text')
    BY EmptySeq DEF Rest
<1>9. Ends(mode) \in Seq(PlainCall)
    BY CallsMade, EmptySeq DEF Ends
<1>10. calls' = <<>> \o Ends(mode)
    BY <1>1, <1>5, <1>9
<1> QED BY <1>1, <1>3, <1>7, <1>8, <1>10, RecordedStep

(* The commit at the end of a command.                                     *)
LEMMA CallCommitUndoStep ==
    ASSUME TInv, UInv, CallCommit, RememberText PROVE UInv'
<1>1. /\ running /\ calls # <<>> /\ Head(calls).call = "commit" /\ calls' = Tail(calls)
      /\ Undo!CommitUndoItem(cursorLine) /\ text' = text /\ running'
    BY DEF CallCommit, NextCall
<1>2. Waiting
    BY <1>1 DEF UInv
<1>3. replay = Undo!Idle
    BY <1>1, UndoFacts
<1>4. Tail(calls) = <<>>
    BY <1>1, <1>2, OtherCall, LineCallPlain
<1> QED BY <1>1, <1>3, <1>4, CommittedStep

(* The first operation of an edit.                                         *)
LEMMA EditTextUndoStep ==
    ASSUME TInv, UInv, Commands \cap {"adjustNumber", "reload"} = {}, EditText, RememberText
    PROVE  UInv'
<1>1. RecordedForm
    BY EditTextRecorded
<1>2. PICK name, line, rest :
        /\ Edit(name, line, rest) /\ name # "adjustNumber" /\ RecordedChange
        /\ rest \in Seq(PlainCall) /\ Rest(rest, text')
    BY <1>1 DEF RecordedForm
<1>3. /\ running /\ replay = Undo!Idle
      /\ UNCHANGED << mCurrentIndex, replay, mode, running >>
    BY <1>2 DEF Edit, Idle
<1>4. mode \in {"command", "insert"}
    BY UndoFacts
<1>5. calls' = rest \o Ends(mode)
    <2>1. calls' = rest \o (IF mode = "insert" \/ name = "adjustNumber" THEN <<>>
                            ELSE << [call |-> "commit"] >>)
        BY <1>2 DEF Edit
    <2>2. CASE mode = "command"
        BY <1>2, <2>1, <2>2 DEF Ends
    <2>3. CASE mode = "insert"
        BY <1>2, <2>1, <2>3 DEF Ends
    <2> QED BY <1>4, <2>2, <2>3
<1> QED BY <1>2, <1>3, <1>5, RecordedStep

(* undo() and redo() begin between commands, with nothing left to commit.  *)
LEMMA StartUndoStep ==
    ASSUME TInv, UInv, StartUndo \/ StartRedo, RememberText PROVE UInv'
<1> DEFINE cur == mCurrentIndex
           list == mUndoItemList
<1>1. /\ running /\ running' /\ calls = <<>> /\ calls' = <<>> /\ replay = Undo!Idle
      /\ mode = "command" /\ mode' = "command" /\ text' = text
      /\ mUndoItemList' = list /\ mFutureUndoItem' = mFutureUndoItem
    BY DEF StartUndo, StartRedo, Idle, Undo!StartUndo, Undo!StartRedo
<1>2. mFutureUndoItem.ops = <<>>
    BY <1>1 DEF UInv, Quiet
<1>3. UndoState(text, list, cur, <<>>, replay, snap)
    BY <1>1, <1>2 DEF UInv
<1>4. snap' = snap
    BY <1>1, <1>2 DEF RememberText, ItemCommitted
<1>5. list \in Seq(Undo!UndoItem) /\ cur \in 0..Len(list) /\ replay.dir = "none" /\ Len(list) \in Nat
    BY <1>1, UndoFacts, LenProperties
<1>6. CASE StartUndo
    <2>1. cur > 0 /\ mCurrentIndex' = cur /\
          replay' = [dir |-> "undo", ops |-> Reverse(list[cur].ops)]
        BY <1>6 DEF StartUndo, Undo!StartUndo, Undo!MayUndo, Undo!Reverse, Reverse
    <2> HIDE DEF cur, list
    <2>2. cur \in 1..Len(list)
        BY <1>5, <2>1
    <2>3. UndoState(text, list, cur, <<>>, [dir |-> "undo", ops |-> Reverse(list[cur].ops)], snap)
        BY <1>3, <1>5, <2>2, UndoBegun
    <2>4. UndoState(text', mUndoItemList', mCurrentIndex', mFutureUndoItem'.ops, replay', snap')
        BY <1>1, <1>2, <1>4, <2>1, <2>3
    <2> QED BY <1>1, <1>2, <2>4 DEF UInv, Waiting, Quiet
<1>7. CASE StartRedo
    <2>1. cur < Len(list) /\ mCurrentIndex' = cur + 1 /\
          replay' = [dir |-> "redo", ops |-> list[cur + 1].ops]
        BY <1>7 DEF StartRedo, Undo!StartRedo, Undo!MayRedo
    <2> HIDE DEF cur, list
    <2>2. cur \in 0..Len(list) - 1
        BY <1>5, <2>1
    <2>3. UndoState(text, list, cur + 1, <<>>, [dir |-> "redo", ops |-> list[cur + 1].ops], snap)
        BY <1>3, <1>5, <2>2, RedoBegun
    <2>4. UndoState(text', mUndoItemList', mCurrentIndex', mFutureUndoItem'.ops, replay', snap')
        BY <1>1, <1>2, <1>4, <2>1, <2>3
    <2> QED BY <1>1, <1>2, <2>4 DEF UInv, Waiting, Quiet
<1> QED BY <1>6, <1>7

(* One operation of undo() or redo(): it is not recorded, and leads on     *)
(* along the way.                                                          *)
LEMMA PerformUndoneStep ==
    ASSUME TInv, UInv, PerformOperation, RememberText PROVE UInv'
<1> DEFINE op == Head(replay.ops)
           later == [replay EXCEPT !.ops = Tail(@)]
           fops == mFutureUndoItem.ops
<1>1. /\ running /\ running' /\ replay.ops # <<>> /\ replay' = later
      /\ UNCHANGED << mCurrentIndex, mode, calls >>
    BY DEF PerformOperation, Undo!PerformOperation
<1>2. replay # Undo!Idle
    BY <1>1, UndoFacts
<1>3. mInsideUndo /\ replay.dir \in {"undo", "redo"} /\ calls = <<>> /\ mode = "command"
    BY <1>1, <1>2, UndoFacts DEF UInv
<1>4. fops = <<>> /\ UndoState(text, mUndoItemList, mCurrentIndex, fops, replay, snap)
    BY <1>1, <1>3 DEF UInv, Quiet
<1>5. replay \in [dir : {"none", "undo", "redo"}, ops : Seq(Operation)]
    BY UndoFacts
<1>6. ASSUME NEW begin, NEW data, InsertRegionCall(begin, data)
      PROVE  /\ text' = InsertRegion(text, begin, data)
             /\ UNCHANGED << mFutureUndoItem, mUndoItemList >>
    BY <1>3, <1>6 DEF InsertRegionCall, InsertRegion, Undo!AddBufferOperation
<1>7. ASSUME NEW bi, DeleteRegionCall(bi)
      PROVE  /\ text' = DeleteRegion(text, bi)
             /\ UNCHANGED << mFutureUndoItem, mUndoItemList >>
    BY <1>3, <1>7 DEF DeleteRegionCall, Undo!AddBufferOperation
<1>8. IF (op.type = "add") = (replay.dir = "redo")
      THEN InsertRegionCall(op.interval.from, op.data) ELSE DeleteRegionCall(op.interval)
    BY DEF PerformOperation
<1> HIDE DEF op, later, fops
<1>9. UNCHANGED << mFutureUndoItem, mUndoItemList >>
    BY <1>6, <1>7, <1>8
<1>10. UndoState(text', mUndoItemList, mCurrentIndex, fops, later, snap)
    <2>1. CASE replay.dir = "undo"
        <3>1. replay \in [dir : {"undo"}, ops : Seq(Operation)]
            BY <1>5, <2>1
        <3>2. UndoState(Backward(text, op), mUndoItemList, mCurrentIndex, fops, later, snap)
            BY <1>1, <1>4, <3>1, UndoPerformed DEF op, later
        <3>3. text' = Backward(text, op)
            BY <1>6, <1>7, <1>8, <2>1 DEF Backward
        <3> QED BY <3>2, <3>3
    <2>2. CASE replay.dir = "redo"
        <3>1. replay \in [dir : {"redo"}, ops : Seq(Operation)]
            BY <1>5, <2>2
        <3>2. UndoState(Replayed(text, op), mUndoItemList, mCurrentIndex, fops, later, snap)
            BY <1>1, <1>4, <3>1, RedoPerformed DEF op, later
        <3>3. text' = Replayed(text, op)
            BY <1>6, <1>7, <1>8, <2>2 DEF Replayed
        <3> QED BY <3>2, <3>3
    <2> QED BY <1>3, <2>1, <2>2
<1>11. mFutureUndoItem'.ops = fops
    BY <1>9 DEF fops
<1>12. snap' = snap
    BY <1>1, <1>4, <1>9 DEF RememberText, ItemCommitted, fops
<1>13. UndoState(text', mUndoItemList', mCurrentIndex', mFutureUndoItem'.ops, replay', snap')
    BY <1>1, <1>9, <1>10, <1>11, <1>12
<1>14. calls' = <<>> /\ mode' = "command" /\ mFutureUndoItem'.ops = <<>>
    BY <1>1, <1>3, <1>4, <1>11
<1> QED BY <1>13, <1>14 DEF UInv, Waiting, Quiet

(* undo() and redo() end.                                                  *)
LEMMA FinishStep ==
    ASSUME TInv, UInv, FinishUndo \/ FinishRedo, RememberText PROVE UInv'
<1> DEFINE cur == mCurrentIndex
           list == mUndoItemList
           fops == mFutureUndoItem.ops
<1>1. /\ running /\ running' /\ replay' = Undo!Idle
      /\ mUndoItemList' = list /\ mFutureUndoItem' = mFutureUndoItem
      /\ UNCHANGED << text, mode, calls >>
    BY DEF FinishUndo, FinishRedo, Undo!FinishUndo, Undo!FinishRedo
<1>2. replay # Undo!Idle
    BY DEF FinishUndo, FinishRedo, Undo!FinishUndo, Undo!FinishRedo, Undo!Idle
<1>3. calls = <<>> /\ mode = "command"
    BY <1>1, <1>2, UndoFacts DEF UInv
<1>4. fops = <<>> /\ UndoState(text, list, cur, fops, replay, snap)
    BY <1>1, <1>3 DEF UInv, Quiet
<1>5. snap' = snap
    BY <1>1, <1>4 DEF RememberText, ItemCommitted
<1>6. UndoState(text, list, mCurrentIndex', fops, Undo!Idle, snap)
    <2>1. CASE FinishUndo
        <3>1. replay = [dir |-> "undo", ops |-> <<>>] /\ mCurrentIndex' = cur - 1
            BY <2>1 DEF FinishUndo, Undo!FinishUndo
        <3> HIDE DEF cur, list, fops
        <3> QED BY <1>4, <3>1, UndoEnded
    <2>2. CASE FinishRedo
        <3>1. replay = [dir |-> "redo", ops |-> <<>>] /\ mCurrentIndex' = cur
            BY <2>2 DEF FinishRedo, Undo!FinishRedo
        <3> HIDE DEF cur, list, fops
        <3> QED BY <1>4, <3>1, RedoEnded
    <2> QED BY <2>1, <2>2
<1>7. UndoState(text', mUndoItemList', mCurrentIndex', mFutureUndoItem'.ops, replay', snap')
    BY <1>1, <1>5, <1>6
<1> QED BY <1>1, <1>3, <1>4, <1>7 DEF UInv, Waiting, Quiet

(* The modes that are entered and left commit, or leave the item open.     *)
LEMMA ModeStep ==
    ASSUME TInv, UInv, (\E commits \in BOOLEAN : EnterInsertMode(commits)) \/ LeaveInsertMode,
           RememberText
    PROVE  UInv'
<1>1. /\ running /\ running' /\ calls = <<>> /\ calls' = <<>> /\ replay = Undo!Idle
      /\ text' = text
    BY DEF EnterInsertMode, LeaveInsertMode, Idle
<1>2. CASE Undo!CommitUndoItem(cursorLine)
    BY <1>1, <1>2, CommittedStep
<1>3. CASE UNCHANGED undoVars /\ mode' = "insert"
    BY <1>1, <1>3, QuietStep DEF Waiting, Quiet
<1> QED BY <1>2, <1>3 DEF EnterInsertMode, LeaveInsertMode

(* Moving the cursor, save and preserve leave the text; the commit that    *)
(* ends an ex command finds nothing to commit.                             *)
LEMMA FileStep ==
    ASSUME TInv, UInv, MoveCursor \/ Save \/ Preserve, RememberText PROVE UInv'
<1>1. /\ running /\ running' /\ calls = <<>> /\ replay = Undo!Idle /\ mode' = mode
      /\ UNCHANGED << text, undoVars, running >>
    BY DEF MoveCursor, Save, Preserve, Idle
<1>2. CASE MoveCursor
    <2>1. calls' = <<>>
        BY <1>1, <1>2 DEF MoveCursor
    <2>2. calls' = <<>> /\ mode' = "command" => mFutureUndoItem.ops = <<>>
        BY <1>1 DEF UInv, Quiet
    <2> QED BY <1>1, <2>1, <2>2, QuietStep DEF Waiting, Quiet
<1>3. CASE Save \/ Preserve
    <2> DEFINE e == << [call |-> "commit"] >>
    <2>1. mode = "command" /\ calls' = e
        BY <1>3 DEF Save, Preserve, LeaveExMode
    <2>2. e \in Seq(PlainCall) /\ Len(e) = 1
        BY CallsMade
    <2>3. Ends(mode') = e
        BY <1>1, <2>1 DEF Ends
    <2> HIDE DEF e
    <2>4. <<>> \in Seq(PlainCall) /\ Rest(<<>>, text') /\ calls' = <<>> \o Ends(mode')
        BY <2>1, <2>2, <2>3, EmptySeq DEF Rest
    <2>5. Waiting'
        BY <2>4 DEF Waiting
    <2>6. ~Quiet'
        BY <2>1, <2>2, NotQuiet DEF Quiet
    <2> QED BY <1>1, <2>1, <2>5, <2>6, QuietStep
<1> QED BY <1>2, <1>3

(* The question after a start leaves the text as it is, whatever the       *)
(* answer: nothing is recovered.                                           *)
LEMMA RecoverStep ==
    ASSUME TInv, UInv, CallRecovered \/ \E answer \in BOOLEAN : CheckRecover(answer), RememberText
    PROVE  UInv'
<1>1. /\ running /\ calls # <<>> /\ mode' = mode
      /\ UNCHANGED << text, undoVars, running >>
    BY DEF CallRecovered, CheckRecover, NextCall
<1>2. replay = Undo!Idle
    BY <1>1, UndoFacts
<1>3. Quiet /\ Quiet'
    <2>1. CASE CallRecovered
        <3>1. Head(calls).call = "recovered" /\ calls' = Tail(calls)
            BY <2>1 DEF CallRecovered, NextCall
        <3>2. calls \notin Seq(PlainCall)
            <4>1. ASSUME calls \in Seq(PlainCall) PROVE FALSE
                <5>1. Head(calls) \in PlainCall
                    BY <1>1, <4>1, HeadTailProperties
                <5> QED BY <3>1, <5>1, CallFields, CallsMade
            <4> QED BY <4>1
        <3>3. ASSUME NEW r \in Seq(PlainCall) PROVE r \o Ends(mode) \in Seq(PlainCall)
            <4> DEFINE e == Ends(mode)
            <4>1. e \in Seq(PlainCall)
                BY CallsMade, EmptySeq DEF Ends
            <4> HIDE DEF e
            <4>2. r \o e \in Seq(PlainCall)
                BY ONLY <4>1, <3>3, ConcatProperties
            <4> QED BY <4>2 DEF e
        <3>4. Quiet
            BY <1>1, <3>2, <3>3 DEF UInv, Waiting
        <3> QED BY <1>1, <3>1, <3>4, QuietCalls DEF Quiet
    <2>2. CASE \E answer \in BOOLEAN : CheckRecover(answer)
        BY <2>2, AnswerCalls DEF Quiet, Answered
    <2> QED BY <2>1, <2>2
<1>4. mode = "command" => mFutureUndoItem.ops = <<>>
    BY <1>1, <1>3 DEF UInv
<1> QED BY <1>1, <1>2, <1>3, <1>4, QuietStep DEF Waiting

(* The program starts with an empty undo list.                             *)
LEMMA StartUndoListStep ==
    ASSUME TInv, TInv', UInv, NEW form, Start(form), RememberText PROVE UInv'
<1>1. Quiet'
    BY DEF Start, Quiet, Question
<1>2. /\ mode' = "command" /\ replay' = Undo!Idle /\ mUndoItemList' = <<>>
      /\ mCurrentIndex' = 0 /\ mFutureUndoItem' = [ops |-> <<>>, start |-> NoLine] /\ ~running
    BY DEF Start
<1>3. mFutureUndoItem'.ops = <<>>
    BY <1>2
<1>4. snap' = << text' >>
    BY <1>2 DEF RememberText
<1> DEFINE t == text'
<1>5. t \in Text
    BY DEF TInv, TypeOK, Text, LineCount
<1> HIDE DEF t
<1>6. UndoState(t, <<>>, 0, <<>>, Undo!Idle, << t >>)
    BY <1>5, Begun
<1>7. UndoState(text', mUndoItemList', mCurrentIndex', mFutureUndoItem'.ops, replay', snap')
    BY <1>2, <1>3, <1>4, <1>6 DEF t
<1> QED BY <1>1, <1>2, <1>3, <1>7 DEF UInv, Waiting, Quiet

(* Every step keeps the invariant.                                         *)
LEMMA UndoStep ==
    ASSUME TInv, TInv', UInv, Commands \cap {"adjustNumber", "reload"} = {}, [MCNext]_mcVars
    PROVE  UInv'
<1>1. CASE UNCHANGED mcVars
    BY <1>1 DEF mcVars, vars, undoVars, UInv, Waiting, Quiet
<1> SUFFICES ASSUME Next, RememberText PROVE UInv'
    BY <1>1 DEF MCNext, Remember
<1>2. CASE EditText
    BY <1>2, EditTextUndoStep
<1>3. CASE MoveCursor \/ Save \/ Preserve
    BY <1>3, FileStep
<1>4. CASE (\E commits \in BOOLEAN : EnterInsertMode(commits)) \/ LeaveInsertMode
    BY <1>4, ModeStep
<1>5. CASE StartUndo \/ StartRedo
    BY <1>5, StartUndoStep
<1>6. CASE PerformOperation
    BY <1>6, PerformUndoneStep
<1>7. CASE FinishUndo \/ FinishRedo
    BY <1>7, FinishStep
<1>8. CASE CallRegion
    BY <1>8, CallRegionStep
<1>9. CASE CallDeleteLine
    BY <1>9, CallDeleteLineStep
<1>10. CASE CallCommit
    BY <1>10, CallCommitUndoStep
<1>11. ~CallLoad
    <2>1. ASSUME running, calls # <<>>, Head(calls).call = "load" PROVE FALSE
        BY <2>1, OtherCall, LineCallPlain DEF UInv
    <2> QED BY <2>1 DEF CallLoad, NextCall
<1>12. ~Reload
    BY DEF Reload, Edit
<1>13. CASE Quit \/ Crash
    BY <1>13 DEF Quit, Crash, UInv
<1>14. CASE CallRecovered \/ \E answer \in BOOLEAN : CheckRecover(answer)
    BY <1>14, RecoverStep
<1>15. CASE \E form \in PathForms : Start(form)
    BY <1>15, StartUndoListStep
<1> QED BY <1>2, <1>3, <1>4, <1>5, <1>6, <1>7, <1>8, <1>9, <1>10, <1>11, <1>12, <1>13, <1>14, <1>15
        DEF Next, Continue

(* The invariant at the beginning.                                         *)
LEMMA UndoListInit ==
    ASSUME MCInit PROVE UInv
<1>1. TInv
    BY TypeInit DEF MCInit
<1>2. /\ calls = <<>> /\ mode = "command" /\ replay = Undo!Idle /\ mUndoItemList = <<>>
      /\ mCurrentIndex = 0 /\ mFutureUndoItem = [ops |-> <<>>, start |-> NoLine]
      /\ snap = << text >>
    BY DEF MCInit, Init
<1>3. mFutureUndoItem.ops = <<>>
    BY <1>2
<1>4. text \in Text
    BY <1>1, UndoFacts
<1>5. UndoState(text, <<>>, 0, <<>>, Undo!Idle, << text >>)
    BY <1>4, Begun
<1>6. UndoState(text, mUndoItemList, mCurrentIndex, mFutureUndoItem.ops, replay, snap)
    BY <1>2, <1>3, <1>5
<1> QED BY <1>2, <1>3, <1>6 DEF UInv, Waiting, Quiet

(* The invariant holds.                                                    *)
LEMMA UndoInvHolds ==
    ASSUME Commands \cap {"adjustNumber", "reload"} = {}
    PROVE  MCSpec => [](TInv /\ UInv)
<1>1. ASSUME MCInit PROVE TInv /\ UInv
    BY <1>1, UndoListInit, TypeInit DEF MCInit
<1>2. TInv /\ UInv /\ [MCNext]_mcVars => (TInv /\ UInv)'
    <2>1. [MCNext]_mcVars => [Next]_vars
        BY DEF MCNext, mcVars
    <2> QED BY <2>1, TypeStep, UndoStep
<1> QED BY <1>1, <1>2, PTL DEF MCSpec

(* Between commands the text is the one remembered, but for the empty      *)
(* lines that undo may leave.                                              *)
LEMMA SettledText ==
    ASSUME TInv, UInv, Settled
    PROVE  snap[mCurrentIndex + 1] \in Text
           /\ \E u \in Empties : text = snap[mCurrentIndex + 1] \o u
<1> DEFINE cur == mCurrentIndex
           list == mUndoItemList
<1>1. running /\ replay = Undo!Idle /\ mFutureUndoItem.ops = <<>>
    BY DEF Settled, Idle
<1>2. UndoState(text, list, cur, <<>>, replay, snap)
    BY <1>1 DEF UInv
<1>3. list \in Seq(Undo!UndoItem) /\ cur \in 0..Len(list) /\ replay.dir = "none"
    BY <1>1, UndoFacts
<1> HIDE DEF cur, list
<1>4. snap[cur + 1] \in Text /\ \E u \in Empties : text = snap[cur + 1] \o u
    BY <1>2, <1>3, Restored
<1> QED BY <1>4 DEF cur

(* No operation of undo() or redo() misses the text.                       *)
LEMMA ReplayStaysInText ==
    ASSUME TInv, UInv PROVE ReplayInText
<1> SUFFICES ASSUME running, replay.ops # <<>> PROVE InText(text, Head(replay.ops).interval.from)
    BY DEF ReplayInText, InText
<1>1. replay.dir \in {"undo", "redo"} /\ replay \in [dir : {"none", "undo", "redo"}, ops : Seq(Operation)]
    BY UndoFacts
<1>2. UndoState(text, mUndoItemList, mCurrentIndex, mFutureUndoItem.ops, replay, snap)
    BY DEF UInv
<1> DEFINE fops == mFutureUndoItem.ops
<1> HIDE DEF fops
<1>3. CASE replay.dir = "undo"
    <2>1. replay \in [dir : {"undo"}, ops : Seq(Operation)]
        BY <1>1, <1>3
    <2> QED BY <1>2, <2>1, UndoPerformed
<1>4. CASE replay.dir = "redo"
    <2>1. replay \in [dir : {"redo"}, ops : Seq(Operation)]
        BY <1>1, <1>4
    <2> QED BY <1>2, <2>1, RedoPerformed
<1> QED BY <1>1, <1>3, <1>4

(* Every operation of undo() and redo() finds the line and the column it   *)
(* was recorded at (undo.cpp:181-235, buffer.cpp:233-238), whatever the    *)
(* user edits, undoes and redoes, the last line deleted or not. The        *)
(* hypothesis is needed: <C-a> leaves its operations uncommitted, so the   *)
(* next u undoes the item before them; and the ex command edit replaces    *)
(* the text and keeps the undo list.                                       *)
THEOREM ReplayInTextHolds ==
    ASSUME Commands \cap {"adjustNumber", "reload"} = {}
    PROVE  MCSpec => []ReplayInText
BY UndoInvHolds, ReplayStaysInText, PTL

(* If no command deletes the last line either, undo and redo restore the   *)
(* text that the items done had made, exactly (undo.cpp:181-235).          *)
THEOREM UndoRestoresTextHolds ==
    ASSUME Commands \cap {"adjustNumber", "reload", "deleteLastLine", "mergeLastLine"} = {}
    PROVE  MCSpec => []UndoRestoresText
<1>1. Commands \cap {"adjustNumber", "reload"} = {} /\ Exact
    BY DEF Exact
<1>2. TInv /\ UInv => UndoRestoresText
    <2>1. ASSUME TInv, UInv, Settled PROVE text = snap[mCurrentIndex + 1]
        <3> DEFINE s == snap[mCurrentIndex + 1]
        <3>1. s \in Text /\ \E u \in Empties : text = s \o u
            BY <2>1, SettledText
        <3> HIDE DEF s
        <3>2. text = s \o <<>>
            BY <1>1, <3>1 DEF Empties
        <3>3. text = s
            BY <3>1, <3>2, LongerText, EmptyLinesProperties
        <3> QED BY <3>3 DEF s
    <2> QED BY <2>1 DEF UndoRestoresText
<1> QED BY <1>1, <1>2, UndoInvHolds, PTL

(* All that may be left over is empty lines at the end of the text.        *)
ExtraEmptyLinesOnly ==
    Settled => \E u \in EmptyLines : text = snap[mCurrentIndex + 1] \o u

(* Where the last line may be deleted, all that undo and redo do wrong is  *)
(* to leave empty lines at the end of the text: no line is lost or changed.*)
(* Undoing dd on the last line should leave none (test_undo.lua:42-48);    *)
(* this theorem bounds the defect of the interval recorded there           *)
(* (buffer.cpp:204), it does not excuse it.                                *)
THEOREM UndoOfLastLineIsBounded ==
    ASSUME Commands \cap {"adjustNumber", "reload"} = {}
    PROVE  MCSpec => []ExtraEmptyLinesOnly
<1>1. TInv /\ UInv => ExtraEmptyLinesOnly
    BY SettledText, EmptiesProperties DEF ExtraEmptyLinesOnly
<1> QED BY <1>1, UndoInvHolds, PTL
=============================================================================

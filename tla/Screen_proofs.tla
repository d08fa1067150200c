---------------------------- MODULE Screen_proofs ----------------------------
(***************************************************************************)
(* Proofs about Screen, for any texts, heights and commands: the types,    *)
(* which lines the cache has marked, that the cache is the text where no   *)
(* edit leaves old lines in it, that painting resumes, that the cursor is  *)
(* shown and that lines are drawn which exist.                             *)
(***************************************************************************)
EXTENDS Screen, SequenceTheorems, InductionLemmas

(* A view is a record of these fields.  Its cache begins no later than its *)
(* screen.                                                                 *)
Fields == {"first", "top", "content", "height", "cursor", "start", "selected", "dead",
           "level", "pending", "screen"}
Fn(v) == v = [f \in Fields |-> v[f]]
IsView(v) ==
    /\ Fn(v)
    /\ v.first \in Nat /\ v.top \in Nat /\ v.first <= v.top
    /\ v.content \in Seq(Sections)
    /\ v.height \in Heights /\ v.cursor \in Nat /\ v.start \in Nat \cup {NoLine}
    /\ v.selected \in Nat \X Int /\ v.dead \in BOOLEAN /\ v.level \in Nat
    /\ DOMAIN v.screen = 0..v.height - 1

(* The cache holds the line where a selection starts, or lines before it.  *)
Locked(v) == v.start # NoLine => v.first <= v.start
(* The rows that wait are the window's, and wait only for a suspension.    *)
PendingIn(v) == v.pending \subseteq 0..v.height - 1 /\ (v.level = 0 => v.pending = {})

(* The lines that are cached, those of them that are marked, and those     *)
(* that are not the text's.                                                *)
Cached(v) == v.first..LastBufferLine(v)
Marks(v) == {bl \in Cached(v) : Section(v, bl).marked}
Wrong(t, v) == {bl \in Cached(v) : Section(v, bl).line # SectionOf(t, bl).line}

(* Painting leaves these fields alone.                                     *)
SameCache(v, w) ==
    /\ w.first = v.first /\ w.top = v.top /\ w.content = v.content
    /\ w.height = v.height /\ w.cursor = v.cursor /\ w.start = v.start
    /\ w.selected = v.selected /\ w.dead = v.dead

Balanced(v, w) == w.level = v.level /\ (PendingIn(v) => PendingIn(w))
Painted(v, w) == IsView(w) /\ SameCache(v, w) /\ Balanced(v, w)

-----------------------------------------------------------------------------
(* Painting.                                                               *)
LEMMA OffKeeps ==
    ASSUME NEW v, IsView(v)
    PROVE  LET w == SetPaintAutoCommitOff(v)
           IN  /\ IsView(w) /\ SameCache(v, w) /\ w.level = v.level + 1
               /\ w.pending = v.pending
<1> DEFINE w == [v EXCEPT !.level = v.level + 1]
<1>1. SetPaintAutoCommitOff(v) = w
    BY DEF SetPaintAutoCommitOff
<1>2. v.level + 1 \in Nat
    BY DEF IsView
<1>3. IsView(w) /\ SameCache(v, w) /\ w.level = v.level + 1 /\ w.pending = v.pending
    BY <1>2 DEF IsView, Fn, Fields, SameCache
<1> QED BY <1>1, <1>3

(* Drawing rows changes only what the terminal shows.                      *)
LEMMA PaintKeeps ==
    ASSUME NEW v, IsView(v), NEW rows
    PROVE  LET w == GuiPaintEvent(v, rows)
           IN  /\ IsView(w) /\ SameCache(v, w) /\ w.level = v.level
               /\ w.pending = v.pending
<1> DEFINE new == [r \in DOMAIN v.screen |->
                     IF r \in rows THEN RowDrawn(DrawnRows(v), r) ELSE v.screen[r]]
<1>1. GuiPaintEvent(v, rows) = IF rows = {} THEN v ELSE [v EXCEPT !.screen = new]
    BY DEF GuiPaintEvent
<1>2. DOMAIN new = DOMAIN v.screen
    OBVIOUS
<1> HIDE DEF new
<1> QED BY <1>1, <1>2 DEF IsView, Fn, Fields, SameCache

(* YView::commitPaintEvent(): one suspension less, the cache is the same.  *)
LEMMA CommitKeeps ==
    ASSUME NEW v, IsView(v)
    PROVE  LET w == CommitPaintEvent(v)
           IN  /\ IsView(w) /\ SameCache(v, w)
               /\ w.level = IF v.level <= 1 THEN 0 ELSE v.level - 1
               /\ PendingIn(v) => PendingIn(w)
<1>1. CASE v.level <= 1
    <2> DEFINE u == GuiPaintEvent(v, v.pending)
               w == [u EXCEPT !.pending = {}, !.level = 0]
    <2>1. IsView(u) /\ SameCache(v, u)
        BY PaintKeeps
    <2>2. CommitPaintEvent(v) = w
        BY <1>1 DEF CommitPaintEvent
    <2> HIDE DEF u
    <2>3. IsView(w) /\ SameCache(u, w) /\ w.level = 0 /\ w.pending = {}
        BY <2>1 DEF IsView, Fn, Fields, SameCache
    <2> HIDE DEF w
    <2> QED BY <1>1, <2>1, <2>2, <2>3 DEF SameCache, PendingIn
<1>2. CASE ~(v.level <= 1)
    <2>1. CommitPaintEvent(v) = [v EXCEPT !.level = @ - 1]
        BY <1>2 DEF CommitPaintEvent
    <2>2. v.level \in Nat
        BY DEF IsView
    <2> QED BY <1>2, <2>1, <2>2 DEF IsView, Fn, Fields, SameCache, PendingIn
<1> QED BY <1>1, <1>2

(* YView::sendPaintEvent(): rows are drawn or wait; nothing cached changes.*)
LEMMA SendKeeps ==
    ASSUME NEW v, IsView(v), NEW rows
    PROVE  Painted(v, SendPaintEvent(v, rows))
<1> DEFINE u == SetPaintAutoCommitOff(v)
           w == [u EXCEPT !.pending = @ \cup (rows \cap 0..v.height - 1)]
<1>1. IsView(u) /\ SameCache(v, u) /\ u.level = v.level + 1 /\ u.pending = v.pending
    BY OffKeeps
<1>2. SendPaintEvent(v, rows) = CommitPaintEvent(w)
    BY DEF SendPaintEvent
<1> HIDE DEF u
<1>3. IsView(w) /\ SameCache(u, w) /\ w.level = u.level
      /\ w.pending = u.pending \cup (rows \cap 0..v.height - 1)
    BY <1>1 DEF IsView, Fn, Fields, SameCache
<1> HIDE DEF w
<1>4. LET x == CommitPaintEvent(w)
      IN  /\ IsView(x) /\ SameCache(w, x)
          /\ x.level = IF w.level <= 1 THEN 0 ELSE w.level - 1
          /\ PendingIn(w) => PendingIn(x)
    BY <1>3, CommitKeeps
<1>5. v.level \in Nat
    BY DEF IsView
<1>6. PendingIn(v) => PendingIn(w)
    BY <1>1, <1>3, <1>5 DEF PendingIn, SameCache
<1> QED BY <1>1, <1>2, <1>3, <1>4, <1>5, <1>6 DEF Painted, Balanced, SameCache

(* YView::sendRefreshEvent(): only rows of the window are left to paint.   *)
LEMMA RefreshKeeps ==
    ASSUME NEW v, IsView(v)
    PROVE  /\ Painted(v, SendRefreshEvent(v))
           /\ PendingIn(SendRefreshEvent(v))
<1> DEFINE u == [v EXCEPT !.pending = {}]
<1>1. IsView(u) /\ SameCache(v, u) /\ u.level = v.level /\ u.pending = {}
    BY DEF IsView, Fn, Fields, SameCache
<1>2. SendRefreshEvent(v) = SendPaintEvent(u, 0..v.height - 1)
    BY DEF SendRefreshEvent
<1> HIDE DEF u
<1>3. Painted(u, SendRefreshEvent(v))
    BY <1>1, <1>2, SendKeeps
<1>4. PendingIn(u)
    BY <1>1 DEF PendingIn
<1> QED BY <1>1, <1>3, <1>4 DEF Painted, Balanced, SameCache

(* NYView::guiScroll(): the terminal's rows move, the cache does not.      *)
LEMMA GuiScrollKeeps ==
    ASSUME NEW v, IsView(v), NEW dy
    PROVE  Painted(v, GuiScroll(v, dy))
<1> DEFINE rows == [r \in DOMAIN v.screen |-> IF r + dy \in DOMAIN v.screen THEN v.screen[r + dy]
                                              ELSE Row(Fake, 0, FALSE)]
           u == [v EXCEPT !.screen = rows]
           new == IF dy > 0 THEN v.height - dy..v.height - 1 ELSE 0..-dy - 1
<1>1. GuiScroll(v, dy) = IF dy >= v.height THEN GuiPaintEvent(v, 0..v.height - 1)
                         ELSE GuiPaintEvent(u, new)
    BY DEF GuiScroll
<1>2. DOMAIN rows = DOMAIN v.screen
    OBVIOUS
<1> HIDE DEF rows, new
<1>3. IsView(u) /\ SameCache(v, u) /\ u.level = v.level /\ u.pending = v.pending
    BY <1>2 DEF IsView, Fn, Fields, SameCache
<1> HIDE DEF u
<1>4. \A x, r : IsView(x) => LET w == GuiPaintEvent(x, r)
                             IN IsView(w) /\ SameCache(x, w) /\ w.level = x.level
                                /\ w.pending = x.pending
    BY PaintKeeps
<1>5. CASE dy >= v.height
    BY <1>1, <1>4, <1>5 DEF Painted, Balanced, PendingIn, SameCache
<1>6. CASE ~(dy >= v.height)
    <2>1. GuiScroll(v, dy) = GuiPaintEvent(u, new)
        BY <1>1, <1>6
    <2> QED BY <2>1, <1>3, <1>4 DEF Painted, Balanced, PendingIn, SameCache
<1> QED BY <1>5, <1>6

-----------------------------------------------------------------------------
(* The cache.                                                              *)
LEMMA ViewFields ==
    ASSUME NEW v, IsView(v)
    PROVE  /\ Len(v.content) \in Nat /\ DOMAIN v.content = 1..Len(v.content)
           /\ LastBufferLine(v) \in Int /\ v.first - 1 <= LastBufferLine(v)
           /\ LastBufferLine(v) = v.first + Len(v.content) - 1
           /\ Cached(v) \subseteq Nat
           /\ \A bl \in Cached(v) : Section(v, bl) \in Sections
           /\ \A bl \in Cached(v) : bl - v.first + 1 \in 1..Len(v.content)
           /\ v.height \in Nat /\ 1 <= v.height
           /\ v.first \in Nat /\ v.top \in Nat /\ v.first <= v.top
<1>1. v.content \in Seq(Sections) /\ v.first \in Nat /\ v.top \in Nat /\ v.first <= v.top
      /\ v.height \in Heights
    BY DEF IsView
<1>2. Len(v.content) \in Nat /\ DOMAIN v.content = 1..Len(v.content)
    BY <1>1, LenProperties
<1>3. \A i \in 1..Len(v.content) : v.content[i] \in Sections
    BY <1>1, ElementOfSeq
<1>4. v.height \in Nat /\ 1 <= v.height
    <2>1. Heights \subseteq Nat \ {0}
        BY ScreenAssumption
    <2>2. v.height \in Nat \ {0}
        BY <1>1, <2>1
    <2> HIDE DEF IsView
    <2> QED BY ONLY <2>2
<1> QED BY <1>1, <1>2, <1>3, <1>4 DEF LastBufferLine, Cached, Section

(* A line taken from the text is the text's, and is not marked.            *)
LEMMA NewSections ==
    ASSUME NEW t \in Seq(Lines)
    PROVE  /\ Len(t) \in Nat
           /\ \A bl \in Nat : SectionOf(t, bl) \in Sections /\ ~SectionOf(t, bl).marked
           /\ \A bl \in Nat : SectionOf(t, bl).line = IF bl < Len(t) THEN t[bl + 1] ELSE Nothing
           /\ \A bl \in Nat : bl < Len(t) => SectionOf(t, bl).line \in Lines
<1>1. Len(t) \in Nat /\ \A i \in 1..Len(t) : t[i] \in Lines
    BY LenProperties, ElementOfSeq
<1>2. \A bl \in Nat : bl < Len(t) => bl + 1 \in 1..Len(t)
    BY <1>1
<1> QED BY <1>1, <1>2 DEF SectionOf, Sections

(* The least and the greatest of two numbers.                              *)
LEMMA ExtremeProperties ==
    /\ \A a, b \in Int : /\ Least(a, b) \in Int /\ Greatest(a, b) \in Int
                         /\ Least(a, b) <= a /\ Least(a, b) <= b
                         /\ a <= Greatest(a, b) /\ b <= Greatest(a, b)
                         /\ Least(a, b) = a \/ Least(a, b) = b
                         /\ Greatest(a, b) = a \/ Greatest(a, b) = b
    /\ \A a, b \in Nat : Least(a, b) \in Nat /\ Greatest(a, b) \in Nat
BY DEF Least, Greatest

(* The lines taken from one up to another.                                 *)
LEMMA SectionsFromTo ==
    ASSUME NEW t \in Seq(Lines), NEW from \in Nat, NEW to \in Int
    PROVE  LET s == SectionsOf(t, from, to)
           IN  /\ s \in Seq(Sections) /\ Len(s) = Greatest(to - from + 1, 0)
               /\ \A i \in 1..Len(s) : s[i] = SectionOf(t, from + i - 1)
<1> DEFINE n == Greatest(to - from + 1, 0)
           s == [i \in 1..n |-> SectionOf(t, from + i - 1)]
<1>1. n \in Nat
    BY DEF Greatest
<1>2. \A i \in 1..n : SectionOf(t, from + i - 1) \in Sections
    BY <1>1, NewSections
<1>3. SectionsOf(t, from, to) = s
    BY DEF SectionsOf
<1> HIDE DEF n
<1>4. s \in [1..n -> Sections]
    BY <1>2
<1>5. s \in Seq(Sections) /\ Len(s) = n
    <2> HIDE DEF s
    <2> QED BY <1>1, <1>4, SeqDef
<1>6. \A i \in 1..n : s[i] = SectionOf(t, from + i - 1)
    OBVIOUS
<1> QED BY <1>3, <1>5, <1>6 DEF n

(* Two sequences, one after the other.                                     *)
LEMMA ConcatTwo ==
    ASSUME NEW S, NEW a \in Seq(S), NEW b \in Seq(S)
    PROVE  /\ Len(a) \in Nat /\ Len(b) \in Nat
           /\ a \o b \in Seq(S) /\ Len(a \o b) = Len(a) + Len(b)
           /\ \A i \in 1..Len(a) : (a \o b)[i] = a[i]
           /\ \A i \in 1..Len(b) : (a \o b)[Len(a) + i] = b[i]
<1>1. Len(a) \in Nat /\ Len(b) \in Nat
    BY LenProperties
<1>2. /\ a \o b \in Seq(S) /\ Len(a \o b) = Len(a) + Len(b)
      /\ \A i \in 1..Len(a) + Len(b) :
            (a \o b)[i] = IF i <= Len(a) THEN a[i] ELSE b[i - Len(a)]
    OBVIOUS
<1> DEFINE m == Len(a)  n == Len(b)  s == a \o b
<1>3. /\ m \in Nat /\ n \in Nat
      /\ \A i \in 1..m + n : s[i] = IF i <= m THEN a[i] ELSE b[i - m]
    BY <1>1, <1>2
<1> HIDE DEF m, n, s
<1>4. \A i \in 1..m : s[i] = a[i]
    BY <1>3
<1>5. \A i \in 1..n : s[m + i] = b[i]
    <2> TAKE i \in 1..n
    <2>1. m + i \in 1..m + n /\ ~(m + i <= m) /\ (m + i) - m = i
        BY <1>3
    <2> QED BY <1>3, <2>1
<1> QED BY <1>1, <1>2, <1>4, <1>5 DEF m, n, s

Joins(s, a, b, c) ==
    /\ Len(a) \in Nat /\ Len(b) \in Nat /\ Len(c) \in Nat
    /\ Len(s) = Len(a) + Len(b) + Len(c)
    /\ \A i \in 1..Len(a) : s[i] = a[i]
    /\ \A i \in 1..Len(b) : s[Len(a) + i] = b[i]
    /\ \A i \in 1..Len(c) : s[Len(a) + Len(b) + i] = c[i]

(* Three sequences, one after the other.                                   *)
LEMMA ConcatThree ==
    ASSUME NEW S, NEW a \in Seq(S), NEW b \in Seq(S), NEW c \in Seq(S)
    PROVE  a \o b \o c \in Seq(S) /\ Joins(a \o b \o c, a, b, c)
<1> DEFINE ab == a \o b
           s == ab \o c
<1>1. /\ Len(a) \in Nat /\ Len(b) \in Nat /\ ab \in Seq(S) /\ Len(ab) = Len(a) + Len(b)
      /\ \A i \in 1..Len(a) : ab[i] = a[i]
      /\ \A i \in 1..Len(b) : ab[Len(a) + i] = b[i]
    BY ConcatTwo
<1> HIDE DEF ab
<1>2. /\ Len(c) \in Nat /\ s \in Seq(S) /\ Len(s) = Len(ab) + Len(c)
      /\ \A i \in 1..Len(ab) : s[i] = ab[i]
      /\ \A i \in 1..Len(c) : s[Len(ab) + i] = c[i]
    <2>1. ab \in Seq(S)
        BY <1>1
    <2> QED BY ONLY <2>1, ConcatTwo, c \in Seq(S)
<1>3. s = a \o b \o c
    BY DEF ab
<1> HIDE DEF s
<1>4. \A i \in 1..Len(a) : i \in 1..Len(ab)
    BY <1>1
<1>5. \A i \in 1..Len(b) : Len(a) + i \in 1..Len(ab)
    BY <1>1
<1> QED BY <1>1, <1>2, <1>3, <1>4, <1>5 DEF Joins

(* What is not named of a view stays as it is.                             *)
Alike(v, w) ==
    /\ w.height = v.height /\ w.cursor = v.cursor /\ w.start = v.start
    /\ w.selected = v.selected /\ Balanced(v, w)
SameScreen(v, w) == Alike(v, w) /\ w.top = v.top
SameLines(v, w) ==
    /\ w.first = v.first /\ w.top = v.top /\ w.dead = v.dead
    /\ LastBufferLine(w) = LastBufferLine(v)

(* YDrawBuffer::targetBufferLine(): what the cache holds after it.         *)
LEMMA TargetSections ==
    ASSUME NEW t \in Seq(Lines), NEW v, IsView(v), NEW bl \in Nat
    PROVE  LET w == TargetBufferLine(t, v, bl)
           IN  /\ IsView(w) /\ SameScreen(v, w)
               /\ w.first = Least(v.first, bl)
               /\ LastBufferLine(w) = Greatest(LastBufferLine(v), bl)
               /\ \A x \in Cached(w) : Section(w, x) = IF x \in Cached(v) THEN Section(v, x)
                                                       ELSE SectionOf(t, x)
<1> DEFINE last == LastBufferLine(v)
           before == SectionsOf(t, bl, v.first - 1)
           after == SectionsOf(t, last + 1, bl)
           content == before \o v.content \o after
           dead == v.dead \/ \E s \in Range(before \o after) : s.line = Nothing
           u == [v EXCEPT !.content = content, !.first = Least(v.first, bl)]
           w == [u EXCEPT !.dead = dead]
<1>1. TargetBufferLine(t, v, bl) = w
    <2>1. u.dead = v.dead
        BY DEF IsView, Fn, Fields
    <2> QED BY <2>1 DEF TargetBufferLine
<1>2. /\ Len(v.content) \in Nat /\ last = v.first + Len(v.content) - 1 /\ last \in Int
      /\ v.first \in Nat /\ last + 1 \in Nat
    BY ViewFields
<1>0. v.content \in Seq(Sections)
    BY DEF IsView
<1>3. /\ before \in Seq(Sections) /\ Len(before) = Greatest(v.first - bl, 0)
      /\ \A i \in 1..Len(before) : before[i] = SectionOf(t, bl + i - 1)
    <2>1. (v.first - 1) - bl + 1 = v.first - bl /\ v.first - 1 \in Int
        BY <1>2
    <2> QED BY <2>1, SectionsFromTo
<1>4. /\ after \in Seq(Sections) /\ Len(after) = Greatest(bl - last, 0)
      /\ \A i \in 1..Len(after) : after[i] = SectionOf(t, last + i)
    <2> HIDE DEF last
    <2>1. bl - (last + 1) + 1 = bl - last
        BY <1>2
    <2> DEFINE from == last + 1
    <2>4. from \in Nat /\ bl \in Int
        BY <1>2
    <2> HIDE DEF from
    <2>5. /\ SectionsOf(t, from, bl) \in Seq(Sections)
          /\ Len(SectionsOf(t, from, bl)) = Greatest(bl - from + 1, 0)
          /\ \A i \in 1..Len(SectionsOf(t, from, bl)) :
                SectionsOf(t, from, bl)[i] = SectionOf(t, from + i - 1)
        BY <2>4, SectionsFromTo
    <2>2. /\ after \in Seq(Sections) /\ Len(after) = Greatest(bl - last, 0)
          /\ \A i \in 1..Len(after) : after[i] = SectionOf(t, (last + 1) + i - 1)
        BY <2>1, <2>5 DEF from
    <2>3. \A i \in 1..Len(after) : (last + 1) + i - 1 = last + i
        BY <1>2
    <2> QED BY <2>2, <2>3
<1> HIDE DEF before, after, last
<1> DEFINE m == Len(before)
           n == Len(v.content)
           k == Len(after)
<1>5. /\ m \in Nat /\ n \in Nat /\ k \in Nat
      /\ content \in Seq(Sections) /\ Len(content) = m + n + k
      /\ \A i \in 1..m : content[i] = before[i]
      /\ \A i \in 1..n : content[m + i] = v.content[i]
      /\ \A i \in 1..k : content[m + n + i] = after[i]
    <2>1. before \in Seq(Sections) /\ after \in Seq(Sections)
        BY <1>3, <1>4
    <2> DEFINE old == v.content
    <2>2. old \in Seq(Sections)
        BY <1>0
    <2>3. content = before \o old \o after
        OBVIOUS
    <2> HIDE DEF old, content
    <2>4. before \o old \o after \in Seq(Sections) /\ Joins(before \o old \o after, before, old, after)
        BY ONLY <2>1, <2>2, ConcatThree
    <2>5. content \in Seq(Sections) /\ Joins(content, before, old, after)
        BY ONLY <2>3, <2>4
    <2> QED BY ONLY <2>5 DEF old, Joins
<1> HIDE DEF content, dead
<1>7. /\ IsView(w) /\ SameScreen(v, w) /\ w.first = Least(v.first, bl) /\ w.content = content
    <2>1. Least(v.first, bl) \in Nat /\ Least(v.first, bl) <= v.first
        BY <1>2 DEF Least
    <2>2. dead \in BOOLEAN
        BY DEF dead, IsView
    <2>3. v.first <= v.top /\ v.top \in Nat
        BY DEF IsView
    <2>4. Least(v.first, bl) <= v.top
        BY <1>2, <2>1, <2>3
    <2> QED BY <1>5, <2>1, <2>2, <2>4
            DEF IsView, Fn, Fields, SameScreen, Alike, Balanced, PendingIn
<1> DEFINE first == v.first
<1>8. w.first = first - m
    BY <1>2, <1>3, <1>7 DEF Least, Greatest
<1>9. LastBufferLine(w) = Greatest(last, bl) /\ LastBufferLine(w) = last + k /\ last = first + n - 1
    <2>1. LastBufferLine(w) = w.first + Len(content) - 1
        BY <1>7 DEF LastBufferLine
    <2>2. last = first + n - 1 /\ first \in Nat
        BY <1>2
    <2>3. k = Greatest(bl - last, 0)
        BY <1>4
    <2>4. last \in Int
        BY <1>2
    <2>5. Len(content) = m + n + k /\ m \in Nat /\ n \in Nat /\ k \in Nat
        BY <1>5
    <2> HIDE DEF m, n, k, first, w
    <2>6. LastBufferLine(w) = last + k
        BY <1>8, <2>1, <2>2, <2>5
    <2> QED BY <2>2, <2>3, <2>4, <2>6 DEF Greatest
<1>11. first \in Nat /\ last \in Int
    BY <1>2
<1>12. /\ \A i \in 1..m : before[i] = SectionOf(t, bl + i - 1)
       /\ \A i \in 1..k : after[i] = SectionOf(t, last + i)
       /\ m = Greatest(first - bl, 0)
    BY <1>3, <1>4
<1>13. Cached(v) = first..last /\ Cached(w) = w.first..LastBufferLine(w)
    BY DEF Cached, last
<1>14. \A x : Section(w, x) = content[x - w.first + 1] /\ Section(v, x) = v.content[x - first + 1]
    BY <1>7 DEF Section
<1> HIDE DEF w, m, n, k, first
<1>10. ASSUME NEW x \in Cached(w)
       PROVE  Section(w, x) = IF x \in Cached(v) THEN Section(v, x) ELSE SectionOf(t, x)
    <2>1. x \in first - m..last + k /\ x \in Int
        BY <1>8, <1>9, <1>13, <1>5, <1>11
    <2>2. x - w.first + 1 = x - first + m + 1
        BY <1>8, <2>1, <1>5, <1>11
    <2>5. CASE x < first
        <3>1. x - first + m + 1 \in 1..m
            BY <1>5, <1>11, <2>1, <2>5
        <3>2. bl + (x - first + m + 1) - 1 = x
            <4>1. m = first - bl
                BY <1>11, <1>5, <1>12, <3>1 DEF Greatest
            <4> QED BY <4>1, <1>11, <2>1
        <3>3. x \notin Cached(v)
            BY <1>11, <1>13, <2>1, <2>5
        <3>4. content[x - first + m + 1] = SectionOf(t, x)
            BY <1>5, <1>12, <3>1, <3>2
        <3> QED BY <1>14, <2>2, <3>3, <3>4
    <2>6. CASE x \in first..last
        <3>1. x - first + 1 \in 1..n /\ m + (x - first + 1) = x - first + m + 1
            BY <1>5, <1>9, <1>11, <2>6
        <3>2. content[x - first + m + 1] = v.content[x - first + 1]
            BY <1>5, <3>1
        <3> QED BY <1>13, <1>14, <2>2, <2>6, <3>2
    <2>7. CASE x > last
        <3>1. x - last \in 1..k /\ m + n + (x - last) = x - first + m + 1
            BY <1>5, <1>9, <1>11, <2>1, <2>7
        <3>2. x \notin Cached(v)
            BY <1>11, <1>13, <2>1, <2>7
        <3>3. last + (x - last) = x
            BY <1>11, <2>1
        <3>4. content[x - first + m + 1] = SectionOf(t, x)
            BY <1>5, <1>12, <3>1, <3>3
        <3> QED BY <1>14, <2>2, <3>2, <3>4
    <2> QED BY <1>11, <2>1, <2>5, <2>6, <2>7
<1> QED BY <1>1, <1>7, <1>9, <1>10 DEF last

(* targetBufferLine() marks no line and takes each from the text.          *)
LEMMA TargetKeeps ==
    ASSUME NEW t \in Seq(Lines), NEW v, IsView(v), NEW bl \in Nat
    PROVE  LET w == TargetBufferLine(t, v, bl)
           IN  /\ Marks(w) \subseteq Marks(v)
               /\ Wrong(t, w) \subseteq Wrong(t, v)
               /\ Locked(v) => Locked(w)
               /\ w.first <= bl /\ bl \in Cached(w)
<1> DEFINE w == TargetBufferLine(t, v, bl)
<1>1. /\ IsView(w) /\ SameScreen(v, w)
      /\ w.first = Least(v.first, bl)
      /\ LastBufferLine(w) = Greatest(LastBufferLine(v), bl)
      /\ \A x \in Cached(w) : Section(w, x) = IF x \in Cached(v) THEN Section(v, x)
                                              ELSE SectionOf(t, x)
    BY TargetSections
<1> HIDE DEF w
<1>2. Cached(w) \subseteq Nat /\ v.first \in Nat /\ LastBufferLine(v) \in Int
    BY <1>1, ViewFields
<1>3. ASSUME NEW x \in Cached(w), Section(w, x).marked PROVE x \in Marks(v)
    <2>1. x \in Cached(v)
        BY <1>1, <1>2, <1>3, NewSections
    <2> QED BY <1>1, <1>3, <2>1 DEF Marks
<1>4. ASSUME NEW x \in Cached(w), Section(w, x).line # SectionOf(t, x).line PROVE x \in Wrong(t, v)
    <2>1. x \in Cached(v)
        BY <1>1, <1>4
    <2> QED BY <1>1, <1>4, <2>1 DEF Wrong
<1>5. w.first <= v.first /\ w.first <= bl /\ bl <= LastBufferLine(w)
    BY <1>1, <1>2 DEF Least, Greatest
<1>6. Locked(v) => Locked(w)
    <2>1. w.start = v.start /\ v.start \in Nat \cup {NoLine} /\ w.first \in Nat
        BY <1>1 DEF SameScreen, Alike, IsView
    <2> QED BY <1>2, <1>5, <2>1 DEF Locked, NoLine
<1>7. bl \in Cached(w)
    <2>1. w.first \in Nat /\ LastBufferLine(w) \in Int
        BY <1>1, ViewFields
    <2> QED BY <1>5, <2>1 DEF Cached
<1> QED BY <1>3, <1>4, <1>5, <1>6, <1>7 DEF Marks, Wrong, w

(* Equal caches hold the same lines.                                       *)
LEMMA SameCacheSame ==
    ASSUME NEW v, NEW w, SameCache(v, w)
    PROVE  /\ LastBufferLine(w) = LastBufferLine(v) /\ Cached(w) = Cached(v)
           /\ \A bl : Section(w, bl) = Section(v, bl)
           /\ Marks(w) = Marks(v) /\ \A t : Wrong(t, w) = Wrong(t, v)
           /\ Locked(w) <=> Locked(v)
<1>1. LastBufferLine(w) = LastBufferLine(v) /\ \A bl : Section(w, bl) = Section(v, bl)
    BY DEF SameCache, LastBufferLine, Section
<1>2. Cached(w) = Cached(v)
    BY <1>1 DEF Cached, SameCache
<1> QED BY <1>1, <1>2 DEF Marks, Wrong, Locked, SameCache

-----------------------------------------------------------------------------
(* Rows.                                                                   *)
LEMMA CountProperties ==
    ASSUME NEW h \in Heights, NEW s \in Sections
    PROVE  Count(s) \in Nat /\ 1 <= Count(s) /\ Count(s) <= h
<1>1. h \in Nat \ {0} /\ \A l \in Lines : LineHeight[l] \in 1..h
    BY ScreenAssumption
<1>2. s.line \in Lines \cup {Nothing}
    BY DEF Sections
<1>3. CASE s.line = Nothing
    <2>1. Count(s) = 1
        BY <1>3 DEF Count
    <2> QED BY <1>1, <2>1
<1>4. CASE s.line # Nothing
    <2>1. Count(s) \in 1..h
        BY <1>1, <1>2, <1>4 DEF Count
    <2> QED BY <1>1, <2>1
<1> QED BY <1>3, <1>4

(* sum[k] are the rows of the first k sections.                            *)
SumsOf(sum, content) ==
    /\ sum \in [0..Len(content) -> Nat] /\ sum[0] = 0
    /\ \A k \in 1..Len(content) : sum[k] = sum[k - 1] + Count(content[k])

(* There are such sums: a definition by recursion over the sections.       *)
LEMMA SumsExist ==
    ASSUME NEW h \in Heights, NEW content \in Seq(Sections)
    PROVE  \E sum : SumsOf(sum, content)
<1> DEFINE n == Len(content)
           Holds(f, m) == /\ f \in [0..m -> Nat] /\ f[0] = 0
                          /\ \A k \in 1..m : f[k] = f[k - 1] + Count(content[k])
           P(m) == \E f : Holds(f, m)
           S == {m \in Nat : m <= n => P(m)}
<1>1. n \in Nat
    BY LenProperties
<1>2. P(0)
    <2> DEFINE f == [i \in 0..0 |-> 0]
    <2>1. f \in [0..0 -> Nat] /\ f[0] = 0 /\ 1..0 = {}
        OBVIOUS
    <2> HIDE DEF f
    <2> QED BY <2>1
<1>3. ASSUME NEW m \in Nat, m + 1 <= n, P(m) PROVE P(m + 1)
    <2>1. PICK f : Holds(f, m)
        BY <1>3
    <2> DEFINE more == f[m] + Count(content[m + 1])
               g == [i \in 0..m + 1 |-> IF i = m + 1 THEN more ELSE f[i]]
    <2>2. more \in Nat
        <3>1. m + 1 \in 1..n
            BY <1>1, <1>3
        <3>2. content[m + 1] \in Sections
            BY <3>1, ElementOfSeq
        <3>3. Count(content[m + 1]) \in Nat /\ f[m] \in Nat
            BY <2>1, <3>2, CountProperties
        <3> QED BY <3>3
    <2>3. g \in [0..m + 1 -> Nat]
        BY <2>1, <2>2
    <2>4. g[m + 1] = more /\ \A i \in 0..m : g[i] = f[i]
        OBVIOUS
    <2>5. f[0] = 0 /\ \A k \in 1..m : f[k] = f[k - 1] + Count(content[k])
        BY <2>1
    <2>6. more = f[m] + Count(content[m + 1])
        OBVIOUS
    <2> HIDE DEF g, more
    <2>7. ASSUME NEW k \in 1..m + 1 PROVE g[k] = g[k - 1] + Count(content[k])
        <3>1. CASE k = m + 1
            <4>1. k - 1 = m /\ m \in 0..m
                BY <3>1
            <4> QED BY <2>4, <2>6, <3>1, <4>1
        <3>2. CASE k # m + 1
            <4>1. k \in 1..m /\ k \in 0..m /\ k - 1 \in 0..m
                BY <3>2
            <4> QED BY <2>4, <2>5, <4>1
        <3> QED BY <3>1, <3>2
    <2>8. g[0] = 0
        BY <2>4, <2>5
    <2> QED BY <2>3, <2>7, <2>8
<1> HIDE DEF P
<1>4. 0 \in S /\ \A m \in Nat : m \in S => m + 1 \in S
    BY <1>2, <1>3, <1>1
<1> HIDE DEF S
<1>5. Nat \subseteq S
    BY <1>4, SetInduction
<1>6. P(n)
    BY <1>1, <1>5 DEF S
<1> QED BY <1>6 DEF P, SumsOf

(* Every line takes a row.                                                 *)
LEMMA SumsGrow ==
    ASSUME NEW h \in Heights, NEW content \in Seq(Sections), NEW sum, SumsOf(sum, content)
    PROVE  /\ Len(content) \in Nat
           /\ \A k \in 1..Len(content) : Count(content[k]) \in Nat /\ 1 <= Count(content[k])
                                         /\ Count(content[k]) <= h
           /\ \A k \in 0..Len(content) : sum[k] \in Nat
           /\ \A i, k \in 0..Len(content) : i <= k => sum[i] + (k - i) <= sum[k]
<1> DEFINE n == Len(content)
<1>1. n \in Nat
    BY LenProperties
<1>2. \A k \in 1..n : Count(content[k]) \in Nat /\ 1 <= Count(content[k]) /\ Count(content[k]) <= h
    <2> TAKE k \in 1..n
    <2>1. content[k] \in Sections
        BY ElementOfSeq
    <2> QED BY <2>1, CountProperties
<1>3. /\ \A k \in 0..n : sum[k] \in Nat
      /\ \A k \in 1..n : sum[k] = sum[k - 1] + Count(content[k])
    BY DEF SumsOf
<1> HIDE DEF n
<1>4. ASSUME NEW i \in 0..n
      PROVE  \A k \in 0..n : i <= k => sum[i] + (k - i) <= sum[k]
    <2> DEFINE S == {m \in Nat : i + m <= n => sum[i] + m <= sum[i + m]}
    <2>1. 0 \in S
        <3>1. sum[i] \in Nat /\ i + 0 = i
            BY <1>1, <1>3
        <3> QED BY <3>1
    <2>2. ASSUME NEW m \in Nat, m \in S PROVE m + 1 \in S
        <3> SUFFICES ASSUME i + (m + 1) <= n PROVE sum[i] + (m + 1) <= sum[i + (m + 1)]
            OBVIOUS
        <3> DEFINE k == i + (m + 1)
        <3>1. k \in 1..n /\ k - 1 = i + m /\ i + m \in 0..n /\ i + m <= n
            BY <1>1
        <3>2. sum[i] + m <= sum[i + m]
            BY <2>2, <3>1
        <3>3. sum[k] = sum[i + m] + Count(content[k])
            BY <1>3, <3>1
        <3>4. sum[i] \in Nat /\ sum[i + m] \in Nat /\ Count(content[k]) \in Nat /\ 1 <= Count(content[k])
            BY <1>1, <1>2, <1>3, <3>1
        <3> HIDE DEF k
        <3>5. sum[i] + (m + 1) <= sum[k]
            BY <3>2, <3>3, <3>4
        <3> QED BY <3>5 DEF k
    <2> HIDE DEF S
    <2>3. Nat \subseteq S
        BY <2>1, <2>2, SetInduction
    <2> TAKE k \in 0..n
    <2> HAVE i <= k
    <2>4. k - i \in Nat /\ i + (k - i) = k /\ k <= n
        BY <1>1
    <2>5. k - i \in S
        BY <2>3, <2>4
    <2> QED BY <2>4, <2>5 DEF S
<1> QED BY <1>1, <1>2, <1>3, <1>4 DEF n

(* The rows between two lines are a difference of sums.                    *)
LEMMA RowsAreSums ==
    ASSUME NEW v, IsView(v), NEW sum, SumsOf(sum, v.content),
           NEW a \in Int, v.first <= a, NEW b \in Int
    PROVE  LET last == Least(b, LastBufferLine(v) + 1)
           IN  RowsBetween(v, a, b) =
                 IF a < last THEN sum[last - v.first] - sum[a - v.first] ELSE 0
<1> DEFINE first == v.first
           content == v.content
           n == Len(content)
           end == LastBufferLine(v) + 1
           last == Least(b, end)
<1>1. /\ n \in Nat /\ first \in Nat /\ end = first + n /\ end \in Int
      /\ v.height \in Heights /\ content \in Seq(Sections)
    <2>1. v.height \in Heights /\ content \in Seq(Sections)
        BY DEF IsView
    <2>2. n \in Nat /\ first \in Nat /\ LastBufferLine(v) = first + n - 1
        BY ViewFields
    <2> HIDE DEF n, first, content
    <2>3. end = first + n /\ end \in Int
        BY <2>2
    <2> QED BY <2>1, <2>2, <2>3
<1>2. last \in Int /\ last <= end
    <2> HIDE DEF end
    <2> QED BY <1>1 DEF Least
<1>3. CASE ~(a < last)
    <2>1. RowsBetween(v, a, b) = 0
        BY <1>3 DEF RowsBetween
    <2> QED BY <1>3, <2>1
<1>4. CASE a < last
    <2> DEFINE F(f) == f = [bl \in Least(a, last)..last |->
                              IF bl >= last THEN 0 ELSE Count(Section(v, bl)) + f[bl + 1]]
               rows == CHOOSE f : F(f)
               g == [bl \in a..last |-> sum[last - first] - sum[bl - first]]
    <2>1. RowsBetween(v, a, b) = rows[a]
        BY <1>4 DEF RowsBetween
    <2>2. Least(a, last) = a
        <3> HIDE DEF last
        <3> QED BY <1>2, <1>4 DEF Least
    <2>3. ASSUME NEW bl \in a..last
          PROVE  /\ bl - first \in 0..n /\ sum[bl - first] \in Nat
                 /\ bl < last => /\ bl + 1 \in a..last
                                 /\ sum[bl + 1 - first] = sum[bl - first] + Count(Section(v, bl))
                                 /\ Count(Section(v, bl)) \in Nat
        <3> DEFINE k == bl - first + 1
        <3>1. first <= a
            OBVIOUS
        <3> HIDE DEF last, end, n, first
        <3>2. bl - first \in 0..n
            BY <1>1, <1>2, <3>1
        <3>3. bl < last => k \in 1..n /\ k - 1 = bl - first /\ bl + 1 - first = k /\ bl + 1 \in a..last
            BY <1>1, <1>2, <3>1
        <3>4. sum \in [0..n -> Nat] /\ \A i \in 1..n : sum[i] = sum[i - 1] + Count(content[i])
            BY DEF SumsOf, n
        <3>5. \A i \in 1..n : Count(content[i]) \in Nat
            BY <1>1, SumsGrow DEF n
        <3>6. Section(v, bl) = content[k]
            BY DEF Section, first
        <3> HIDE DEF k, content
        <3> QED BY <3>2, <3>3, <3>4, <3>5, <3>6
    <2> HIDE DEF last, first, end, n
    <2>4. F(g)
        <3>1. ASSUME NEW bl \in a..last
              PROVE  g[bl] = IF bl >= last THEN 0 ELSE Count(Section(v, bl)) + g[bl + 1]
            <4>1. CASE bl >= last
                <5>1. bl = last
                    BY <1>2, <4>1
                <5> QED BY <2>3, <4>1, <5>1
            <4>2. CASE ~(bl >= last)
                <5>1. bl < last
                    BY <1>2, <4>2
                <5>2. g[bl + 1] = sum[last - first] - sum[bl + 1 - first] /\ g[bl] = sum[last - first] - sum[bl - first]
                    <6>1. bl + 1 \in a..last
                        BY <2>3, <5>1
                    <6> QED BY <6>1, <1>1, <1>2
                <5>3. last \in a..last
                    BY <1>2, <1>4
                <5>4. sum[last - first] \in Nat
                    BY <2>3, <5>3
                <5>5. /\ sum[bl - first] \in Nat /\ Count(Section(v, bl)) \in Nat
                      /\ sum[bl + 1 - first] = sum[bl - first] + Count(Section(v, bl))
                    BY <2>3, <5>1
                <5> DEFINE x == sum[last - first]  y == sum[bl - first]  z == sum[bl + 1 - first]
                           c == Count(Section(v, bl))
                <5>6. x \in Nat /\ y \in Nat /\ c \in Nat /\ z = y + c
                    BY <5>4, <5>5
                <5>7. g[bl + 1] = x - z /\ g[bl] = x - y
                    BY <5>2
                <5> HIDE DEF x, y, z, c, g
                <5>8. g[bl] = c + g[bl + 1]
                    BY <5>6, <5>7
                <5> QED BY <4>2, <5>8 DEF c
            <4> QED BY <4>1, <4>2
        <3>2. g = [bl \in a..last |-> g[bl]]
            OBVIOUS
        <3> HIDE DEF g
        <3> QED BY <2>2, <3>1, <3>2
    <2>5. F(rows)
        BY <2>4
    <2> HIDE DEF rows, g
    <2>6. \A bl \in a..last : rows[bl] = IF bl >= last THEN 0 ELSE Count(Section(v, bl)) + rows[bl + 1]
        BY <2>2, <2>5
    <2> DEFINE T == {k \in Nat : k <= last - a => rows[last - k] = sum[last - first] - sum[last - k - first]}
    <2>7. last \in a..last /\ sum[last - first] \in Nat
        <3>1. last \in a..last
            BY <1>2, <1>4
        <3> QED BY <2>3, <3>1
    <2>8. 0 \in T
        <3>1. last - 0 = last /\ last >= last
            BY <1>2
        <3>2. rows[last] = 0
            BY <2>6, <2>7, <3>1
        <3> QED BY <2>7, <3>1, <3>2
    <2>9. ASSUME NEW k \in Nat, k \in T PROVE k + 1 \in T
        <3> SUFFICES ASSUME k + 1 <= last - a
                     PROVE  rows[last - (k + 1)] = sum[last - first] - sum[last - (k + 1) - first]
            OBVIOUS
        <3> DEFINE bl == last - (k + 1)
        <3>1. bl \in a..last /\ bl < last /\ ~(bl >= last) /\ bl + 1 = last - k /\ bl + 1 \in a..last
            BY <1>2, <1>4
        <3>2. rows[bl + 1] = sum[last - first] - sum[bl + 1 - first]
            <4>1. k <= last - a
                BY <1>2
            <4>2. rows[last - k] = sum[last - first] - sum[last - k - first]
                BY <2>9, <4>1
            <4> HIDE DEF bl
            <4>3. bl + 1 = last - k
                BY <3>1
            <4> QED BY <4>2, <4>3, <3>1, <1>1, <1>2
        <3> HIDE DEF bl
        <3>3. rows[bl] = Count(Section(v, bl)) + rows[bl + 1]
            BY <2>6, <3>1
        <3> DEFINE x == sum[last - first]  y == sum[bl - first]  z == sum[bl + 1 - first]
                   c == Count(Section(v, bl))
        <3>4. x \in Nat /\ y \in Nat /\ c \in Nat /\ z = y + c
            BY <2>3, <2>7, <3>1
        <3>5. rows[bl] = c + rows[bl + 1] /\ rows[bl + 1] = x - z
            BY <3>2, <3>3
        <3> HIDE DEF x, y, z, c
        <3>6. rows[bl] = x - y
            BY <3>4, <3>5
        <3> QED BY <3>6 DEF bl, x, y
    <2> HIDE DEF T
    <2>10. Nat \subseteq T
        BY <2>8, <2>9, SetInduction
    <2>11. last - a \in Nat /\ last - (last - a) = a /\ last - a <= last - a
        BY <1>2, <1>4
    <2>12. rows[a] = sum[last - first] - sum[a - first]
        BY <2>10, <2>11 DEF T
    <2> QED BY <1>4, <2>1, <2>12 DEF last, first, end
<1> QED BY <1>3, <1>4

(* Rows are counted from line to line, and every line takes at least one.  *)
LEMMA RowFacts ==
    ASSUME NEW v, IsView(v), NEW a \in Int, v.first <= a
    PROVE  /\ \A b \in Int : RowsBetween(v, a, b) \in Nat
           /\ \A b \in Int : b <= a \/ LastBufferLine(v) < a => RowsBetween(v, a, b) = 0
           /\ \A b, c \in Int : b <= c => RowsBetween(v, a, b) <= RowsBetween(v, a, c)
           /\ \A b \in Int : a <= b /\ b <= LastBufferLine(v) =>
                 /\ Count(Section(v, b)) \in 1..v.height
                 /\ RowsBetween(v, a, b + 1) = RowsBetween(v, a, b) + Count(Section(v, b))
           /\ \A b \in Int : LastBufferLine(v) < b =>
                 RowsBetween(v, a, b) = RowsBetween(v, a, LastBufferLine(v) + 1)
           /\ \A b \in Int : a <= b /\ b <= LastBufferLine(v) + 1 => b - a <= RowsBetween(v, a, b)
<1> DEFINE first == v.first
           content == v.content
           n == Len(content)
           last == LastBufferLine(v)
           R(b) == RowsBetween(v, a, b)
           at(b) == Least(b, last + 1)
<1>1. /\ n \in Nat /\ first \in Nat /\ last = first + n - 1 /\ last \in Int
      /\ v.height \in Nat /\ first <= a
    BY ViewFields
<1>2. v.height \in Heights /\ content \in Seq(Sections)
    BY DEF IsView
<1>3. PICK sum : SumsOf(sum, content)
    BY <1>2, SumsExist
<1>4. /\ \A k \in 1..n : Count(content[k]) \in Nat /\ 1 <= Count(content[k]) /\ Count(content[k]) <= v.height
      /\ \A k \in 0..n : sum[k] \in Nat
      /\ \A i, k \in 0..n : i <= k => sum[i] + (k - i) <= sum[k]
      /\ \A k \in 1..n : sum[k] = sum[k - 1] + Count(content[k])
    <2>1. \A k \in 1..n : sum[k] = sum[k - 1] + Count(content[k])
        BY <1>3 DEF SumsOf
    <2> QED BY <1>2, <1>3, <2>1, SumsGrow
<1>5. \A b \in Int : R(b) = IF a < at(b) THEN sum[at(b) - first] - sum[a - first] ELSE 0
    BY <1>3, RowsAreSums
<1>6. \A b : Section(v, b) = content[b - first + 1]
    BY DEF Section
<1> HIDE DEF first, content, n, last, R
<1>7. \A b \in Int : at(b) \in Int /\ at(b) <= b /\ at(b) <= last + 1 /\ (at(b) = b \/ at(b) = last + 1)
    BY <1>1 DEF Least
<1> HIDE DEF at
<1>8. ASSUME NEW b \in Int, a < at(b)
      PROVE  /\ at(b) - first \in 0..n /\ a - first \in 0..n
             /\ sum[at(b) - first] \in Nat /\ sum[a - first] \in Nat
             /\ sum[a - first] + (at(b) - a) <= sum[at(b) - first]
    <2>1. at(b) - first \in 0..n /\ a - first \in 0..n /\ a - first <= at(b) - first
          /\ (at(b) - first) - (a - first) = at(b) - a
        BY <1>1, <1>7, <1>8
    <2> DEFINE i == a - first  k == at(b) - first
    <2> HIDE DEF i, k
    <2>2. i \in 0..n /\ k \in 0..n /\ i <= k
        BY <2>1 DEF i, k
    <2>3. sum[i] \in Nat /\ sum[k] \in Nat /\ sum[i] + (k - i) <= sum[k]
        BY <1>4, <2>2
    <2> QED BY <2>1, <2>3 DEF i, k
<1>9. ASSUME NEW b \in Int
      PROVE  R(b) \in Nat /\ (a <= at(b) => at(b) - a <= R(b))
    <2>1. CASE a < at(b)
        BY <1>5, <1>7, <1>8, <2>1
    <2>2. CASE ~(a < at(b))
        BY <1>5, <1>7, <2>2
    <2> QED BY <2>1, <2>2
<1>10. ASSUME NEW b \in Int, b <= a \/ last < a PROVE R(b) = 0
    <2>1. ~(a < at(b))
        BY <1>1, <1>7, <1>10
    <2> QED BY <1>5, <2>1
<1>11. ASSUME NEW b \in Int, NEW c \in Int, b <= c PROVE R(b) <= R(c)
    <2>1. at(b) <= at(c)
        BY <1>1, <1>11 DEF at, Least
    <2>2. CASE ~(a < at(b))
        <3>1. R(b) = 0
            BY <1>5, <2>2
        <3> QED BY <1>9, <3>1
    <2>3. CASE a < at(b)
        <3>1. a < at(c)
            BY <1>7, <2>1, <2>3
        <3> DEFINE i == at(b) - first  k == at(c) - first  x == sum[a - first]
        <3>2. i \in 0..n /\ k \in 0..n /\ i <= k
            BY <1>1, <1>7, <1>8, <2>1, <2>3, <3>1
        <3>3. R(b) = sum[i] - x /\ R(c) = sum[k] - x
            BY <1>5, <2>3, <3>1
        <3>4. x \in Nat
            BY <1>8, <2>3
        <3> HIDE DEF i, k, x
        <3>5. sum[i] \in Nat /\ sum[k] \in Nat /\ sum[i] + (k - i) <= sum[k] /\ 0 <= k - i
            BY <1>1, <1>4, <3>2
        <3>6. k - i \in Int
            BY <1>1, <3>2
        <3> DEFINE y == sum[i]  z == sum[k]  d == k - i
        <3>7. y \in Nat /\ z \in Nat /\ d \in Int /\ 0 <= d /\ y + d <= z /\ R(b) = y - x /\ R(c) = z - x
            BY <3>3, <3>5, <3>6
        <3> HIDE DEF y, z, d
        <3> QED BY <3>4, <3>7
    <2> QED BY <2>2, <2>3
<1>12. ASSUME NEW b \in Int, a <= b, b <= last
       PROVE  /\ Count(Section(v, b)) \in 1..v.height
              /\ R(b + 1) = R(b) + Count(Section(v, b))
    <2> DEFINE k == b - first + 1
               c == Count(Section(v, b))
    <2>1. k \in 1..n /\ k - 1 = b - first /\ (b + 1) - first = k /\ b + 1 \in Int
        BY <1>1, <1>12
    <2>2. at(b + 1) = b + 1 /\ at(b) = b /\ a < b + 1
        BY <1>1, <1>12, <2>1 DEF at, Least
    <2>3. R(b + 1) = sum[k] - sum[a - first]
        BY <1>5, <2>1, <2>2
    <2>4. c \in Nat /\ 1 <= c /\ c <= v.height
        BY <1>4, <1>6, <2>1
    <2>5. sum[k] = sum[k - 1] + c
        BY <1>4, <1>6, <2>1
    <2> HIDE DEF k, c
    <2>6. k \in Int /\ k - 1 \in 0..n /\ k \in 0..n
        BY <1>1, <2>1
    <2>7. sum[k - 1] \in Nat
        BY <1>4, <2>6
    <2>8. CASE a < b
        <3>1. R(b) = sum[k - 1] - sum[a - first]
            BY <1>5, <2>1, <2>2, <2>8
        <3>2. sum[a - first] \in Nat
            BY <1>8, <2>1, <2>2
        <3> DEFINE x == sum[a - first]  y == sum[k - 1]  z == sum[k]
        <3>3. x \in Nat /\ y \in Nat /\ z = y + c /\ R(b) = y - x /\ R(b + 1) = z - x
            BY <2>3, <2>5, <2>7, <3>1, <3>2
        <3> HIDE DEF x, y, z
        <3>4. R(b + 1) = R(b) + c
            BY <2>4, <3>3
        <3> QED BY <1>1, <2>4, <3>4 DEF c
    <2>9. CASE a = b
        <3>1. R(b) = 0
            BY <1>10, <2>9
        <3>2. sum[k] = sum[a - first] + c /\ sum[a - first] \in Nat
            BY <2>1, <2>5, <2>7, <2>9
        <3> DEFINE x == sum[a - first]  z == sum[k]
        <3>3. x \in Nat /\ z = x + c /\ R(b + 1) = z - x
            BY <2>3, <3>2
        <3> HIDE DEF x, z
        <3>4. R(b + 1) = R(b) + c
            BY <2>4, <3>1, <3>3
        <3> QED BY <1>1, <2>4, <3>4 DEF c
    <2> QED BY <1>12, <2>8, <2>9
<1>13. ASSUME NEW b \in Int, last < b PROVE R(b) = R(last + 1)
    <2>1. at(b) = last + 1 /\ at(last + 1) = last + 1 /\ last + 1 \in Int
        BY <1>1, <1>13 DEF at, Least
    <2> QED BY <1>5, <2>1
<1>14. ASSUME NEW b \in Int, a <= b, b <= last + 1 PROVE b - a <= R(b)
    <2>1. at(b) = b
        BY <1>1, <1>14 DEF at, Least
    <2> QED BY <1>9, <1>14, <2>1
<1> QED BY <1>9, <1>10, <1>11, <1>12, <1>13, <1>14 DEF last, R

(* Equal caches have as many rows between two lines.                       *)
LEMMA RowsSame ==
    ASSUME NEW v, IsView(v), NEW w, IsView(w), w.first = v.first, w.content = v.content,
           NEW a \in Int, v.first <= a, NEW b \in Int
    PROVE  RowsBetween(w, a, b) = RowsBetween(v, a, b)
<1>1. LastBufferLine(w) = LastBufferLine(v)
    BY DEF LastBufferLine
<1>2. PICK sum : SumsOf(sum, v.content)
    BY SumsExist DEF IsView
<1>3. LET last == Least(b, LastBufferLine(v) + 1)
      IN  RowsBetween(v, a, b) = IF a < last THEN sum[last - v.first] - sum[a - v.first] ELSE 0
    BY <1>2, RowsAreSums
<1>4. LET last == Least(b, LastBufferLine(w) + 1)
      IN  RowsBetween(w, a, b) = IF a < last THEN sum[last - w.first] - sum[a - w.first] ELSE 0
    BY <1>2, RowsAreSums
<1> QED BY <1>1, <1>3, <1>4

(* The last line on the screen: the rows before it leave room for it.      *)
LEMMA BottomFacts ==
    ASSUME NEW v, IsView(v)
    PROVE  LET bottom == ScreenBottomBufferLine(v)
               last == LastBufferLine(v)
           IN  /\ bottom \in Int /\ bottom <= last /\ v.first - 1 <= bottom
               /\ v.top <= last => v.top <= bottom
               /\ Full(v) => v.top <= bottom
               /\ ~Full(v) => bottom = last
               /\ \A bl \in Int : RowsBetween(v, v.top, bl) >= v.height => bottom < bl
               /\ \A bl \in Int : bl <= last /\ bottom < bl => RowsBetween(v, v.top, bl) >= v.height
<1> DEFINE top == v.top
           last == LastBufferLine(v)
           R(b) == RowsBetween(v, top, b)
           h == v.height
           bottom == ScreenBottomBufferLine(v)
<1>1. /\ last \in Int /\ v.first \in Nat /\ top \in Nat /\ v.first <= top /\ h \in Nat /\ 1 <= h
      /\ v.first - 1 <= last
    BY ViewFields
<1>2. /\ \A b \in Int : R(b) \in Nat
      /\ \A b \in Int : b <= top \/ last < top => R(b) = 0
      /\ \A b, c \in Int : b <= c => R(b) <= R(c)
      /\ \A b \in Int : last < b => R(b) = R(last + 1)
    BY <1>1, RowFacts
<1>3. Full(v) <=> R(last + 1) >= h
    BY DEF Full, CurrentHeight
<1>4. bottom = IF ~Full(v) THEN last
               ELSE CHOOSE bl \in top..last : R(bl + 1) >= h /\ R(bl) < h
    BY DEF ScreenBottomBufferLine
<1> HIDE DEF top, last, h, R, bottom
<1>5. CASE ~Full(v)
    <2>1. bottom = last
        BY <1>4, <1>5
    <2>2. ASSUME NEW bl \in Int PROVE R(bl) < h
        <3>1. R(last + 1) < h /\ R(last + 1) \in Nat /\ last + 1 \in Int
            BY <1>1, <1>2, <1>3, <1>5
        <3>2. R(bl) <= R(last + 1)
            BY <1>1, <1>2, <3>1
        <3> QED BY <1>1, <1>2, <3>1, <3>2
    <2>3. ASSUME NEW bl \in Int PROVE ~(R(bl) >= h)
        BY <1>1, <1>2, <2>2
    <2> QED BY <1>1, <1>5, <2>1, <2>3 DEF top, last, h, R, bottom
<1>6. CASE Full(v)
    <2> DEFINE K == {k \in Nat : R(top + k) >= h}
    <2>1. top <= last
        BY <1>1, <1>2, <1>3, <1>6
    <2>2. last + 1 - top \in K
        <3>1. last + 1 - top \in Nat /\ top + (last + 1 - top) = last + 1
            BY <1>1, <2>1
        <3> QED BY <1>3, <1>6, <3>1
    <2>3. PICK k \in K : \A m \in K : k <= m
        <3>1. K \in SUBSET Nat /\ K # {}
            BY <2>2
        <3> HIDE DEF K
        <3> QED BY <3>1, LeastNumber
    <2>4. k \in Nat /\ R(top + k) >= h /\ k <= last + 1 - top
        BY <2>2, <2>3
    <2>5. k # 0
        <3>1. R(top + 0) = 0
            BY <1>1, <1>2
        <3> QED BY <1>1, <2>4, <3>1
    <2> DEFINE bl == top + (k - 1)
    <2>6. bl \in top..last /\ bl + 1 = top + k
        BY <1>1, <2>4, <2>5
    <2>7. R(bl) < h
        <3>1. k - 1 \in Nat /\ ~(k <= k - 1)
            BY <2>4, <2>5
        <3>2. k - 1 \notin K
            BY <2>3, <3>1
        <3>3. ~(R(bl) >= h) /\ R(bl) \in Nat
            BY <1>1, <1>2, <2>6, <3>1, <3>2
        <3> QED BY <1>1, <3>3
    <2> HIDE DEF bl
    <2>8. R(bl + 1) >= h
        BY <2>4, <2>6
    <2>9. bottom \in top..last /\ R(bottom + 1) >= h /\ R(bottom) < h
        BY <1>4, <1>6, <2>6, <2>7, <2>8
    <2>10. ASSUME NEW b \in Int, R(b) >= h PROVE bottom < b
        <3>1. SUFFICES ASSUME ~(bottom < b) PROVE FALSE
            OBVIOUS
        <3>2. b <= bottom /\ bottom \in Int
            BY <1>1, <2>9, <3>1
        <3>3. R(b) <= R(bottom) /\ R(b) \in Nat /\ R(bottom) \in Nat
            BY <1>2, <3>2
        <3> QED BY <1>1, <2>9, <2>10, <3>3
    <2>11. ASSUME NEW b \in Int, b <= last, bottom < b PROVE R(b) >= h
        <3>1. bottom + 1 <= b /\ bottom + 1 \in Int
            BY <1>1, <2>9, <2>11
        <3>2. R(bottom + 1) <= R(b) /\ R(b) \in Nat /\ R(bottom + 1) \in Nat
            BY <1>2, <3>1
        <3> QED BY <1>1, <2>9, <3>2
    <2>12. bottom \in Int /\ bottom <= last /\ v.first - 1 <= bottom /\ top <= bottom
        BY <1>1, <2>9
    <2> QED BY <1>6, <2>10, <2>11, <2>12 DEF top, last, h, R, bottom
<1> QED BY <1>5, <1>6

(* Equal caches end the screen at the same line.                           *)
LEMMA BottomSame ==
    ASSUME NEW v, IsView(v), NEW w, IsView(w), SameCache(v, w)
    PROVE  ScreenBottomBufferLine(w) = ScreenBottomBufferLine(v) /\ Full(w) = Full(v)
<1> DEFINE b == ScreenBottomBufferLine(v)
           c == ScreenBottomBufferLine(w)
           last == LastBufferLine(v)
<1>1. w.first = v.first /\ w.content = v.content /\ w.top = v.top /\ w.height = v.height
      /\ LastBufferLine(w) = last /\ v.top \in Int /\ v.first <= v.top /\ last + 1 \in Int
    BY SameCacheSame, ViewFields DEF SameCache
<1>2. \A bl \in Int : RowsBetween(w, v.top, bl) = RowsBetween(v, v.top, bl)
    BY <1>1, RowsSame
<1>3. Full(w) = Full(v)
    <2>1. CurrentHeight(w) = CurrentHeight(v)
        BY <1>1, <1>2 DEF CurrentHeight
    <2> QED BY <1>1, <2>1 DEF Full
<1>4. /\ b \in Int /\ b <= last
      /\ \A bl \in Int : RowsBetween(v, v.top, bl) >= v.height => b < bl
      /\ \A bl \in Int : bl <= last /\ b < bl => RowsBetween(v, v.top, bl) >= v.height
    BY BottomFacts
<1>5. /\ c \in Int /\ c <= last
      /\ \A bl \in Int : RowsBetween(v, v.top, bl) >= v.height => c < bl
      /\ \A bl \in Int : bl <= last /\ c < bl => RowsBetween(v, v.top, bl) >= v.height
    <2>1. /\ c \in Int /\ c <= LastBufferLine(w)
          /\ \A bl \in Int : RowsBetween(w, w.top, bl) >= w.height => c < bl
          /\ \A bl \in Int : bl <= LastBufferLine(w) /\ c < bl => RowsBetween(w, w.top, bl) >= w.height
        BY BottomFacts
    <2> QED BY <1>1, <1>2, <2>1
<1> HIDE DEF b, c, last
<1>6. ~(b < c)
    BY <1>4, <1>5
<1>7. ~(c < b)
    BY <1>4, <1>5
<1> QED BY <1>3, <1>4, <1>5, <1>6, <1>7 DEF b, c

-----------------------------------------------------------------------------
(* The cursor on the screen.                                               *)
CursorShown(v) == v.top <= v.cursor /\ v.cursor <= ScreenBottomBufferLine(v)
StillShown(v, w) == CursorShown(v) => CursorShown(w)

(* A line is on the screen if its first row is.                            *)
LEMMA RowOnScreen ==
    ASSUME NEW v, IsView(v), NEW bl \in Int
    PROVE  bl <= ScreenBottomBufferLine(v)
             <=> bl <= LastBufferLine(v) /\ RowsBetween(v, v.top, bl) < v.height
<1> DEFINE bottom == ScreenBottomBufferLine(v)
           last == LastBufferLine(v)
           rows == RowsBetween(v, v.top, bl)
<1>1. /\ bottom \in Int /\ bottom <= last /\ last \in Int
      /\ rows >= v.height => bottom < bl
      /\ bl <= last /\ bottom < bl => rows >= v.height
    BY BottomFacts, ViewFields
<1>2. rows \in Nat /\ v.height \in Nat
    <2>1. v.top \in Int /\ v.first <= v.top /\ v.height \in Nat
        BY ViewFields
    <2> QED BY <2>1, RowFacts
<1> HIDE DEF bottom, last, rows
<1>3. bl <= bottom <=> bl <= last /\ rows < v.height
    BY <1>1, <1>2
<1> QED BY <1>3 DEF bottom, last, rows

(* The same lines take the same rows in two caches.                        *)
LEMMA RowsAlike ==
    ASSUME NEW v, IsView(v), NEW w, IsView(w), NEW a \in Int, v.first <= a, w.first <= a,
           NEW k \in Nat, a + k <= LastBufferLine(v) + 1, a + k <= LastBufferLine(w) + 1,
           \A x \in a..a + k - 1 : Section(w, x).line = Section(v, x).line
    PROVE  RowsBetween(w, a, a + k) = RowsBetween(v, a, a + k)
<1> DEFINE R(b) == RowsBetween(v, a, b)
           Q(b) == RowsBetween(w, a, b)
           S == {j \in Nat : j <= k => Q(a + j) = R(a + j)}
<1>1. /\ LastBufferLine(v) \in Int /\ LastBufferLine(w) \in Int
      /\ \A b \in Int : b <= a => R(b) = 0 /\ Q(b) = 0
      /\ \A b \in Int : a <= b /\ b <= LastBufferLine(v) => R(b + 1) = R(b) + Count(Section(v, b))
      /\ \A b \in Int : a <= b /\ b <= LastBufferLine(w) => Q(b + 1) = Q(b) + Count(Section(w, b))
    <2>1. LastBufferLine(v) \in Int /\ LastBufferLine(w) \in Int
        BY ViewFields
    <2>2. \A b \in Int : b <= a => R(b) = 0
        BY RowFacts
    <2>3. \A b \in Int : b <= a => Q(b) = 0
        BY RowFacts
    <2>4. \A b \in Int : a <= b /\ b <= LastBufferLine(v) => R(b + 1) = R(b) + Count(Section(v, b))
        BY RowFacts
    <2>5. \A b \in Int : a <= b /\ b <= LastBufferLine(w) => Q(b + 1) = Q(b) + Count(Section(w, b))
        BY RowFacts
    <2> QED BY <2>1, <2>2, <2>3, <2>4, <2>5
<1> HIDE DEF R, Q
<1>2. 0 \in S
    <2>1. a + 0 \in Int /\ a + 0 <= a
        OBVIOUS
    <2> QED BY <1>1, <2>1
<1>3. ASSUME NEW j \in Nat, j \in S PROVE j + 1 \in S
    <2> SUFFICES ASSUME j + 1 <= k PROVE Q(a + (j + 1)) = R(a + (j + 1))
        OBVIOUS
    <2> DEFINE b == a + j
    <2>1. /\ b \in Int /\ a <= b /\ a + (j + 1) = b + 1 /\ b \in a..a + k - 1 /\ j <= k
          /\ b <= LastBufferLine(v) /\ b <= LastBufferLine(w)
        BY <1>1
    <2>2. Q(b) = R(b)
        BY <1>3, <2>1
    <2>3. Count(Section(w, b)) = Count(Section(v, b))
        BY <2>1 DEF Count
    <2> HIDE DEF b
    <2>4. Q(b + 1) = R(b + 1)
        BY <1>1, <2>1, <2>2, <2>3
    <2> QED BY <2>1, <2>4
<1> HIDE DEF S
<1>4. k \in S
    BY <1>2, <1>3, SetInduction
<1>5. Q(a + k) = R(a + k)
    BY <1>4 DEF S
<1> QED BY <1>5 DEF Q, R

(* A cursor on the screen stays there while the lines above it do.         *)
LEMMA ShownStays ==
    ASSUME NEW v, IsView(v), NEW w, IsView(w),
           w.top = v.top, w.height = v.height, w.cursor = v.cursor,
           CursorShown(v) => /\ v.cursor <= LastBufferLine(w)
                             /\ \A x \in v.top..v.cursor - 1 :
                                  Section(w, x).line = Section(v, x).line
    PROVE  StillShown(v, w)
<1> SUFFICES ASSUME CursorShown(v) PROVE CursorShown(w)
    BY DEF StillShown
<1> DEFINE k == v.cursor - v.top
<1>1. /\ v.top \in Nat /\ v.cursor \in Nat /\ v.first <= v.top /\ w.first <= v.top /\ v.top <= v.cursor
      /\ LastBufferLine(v) \in Int /\ LastBufferLine(w) \in Int
    BY ViewFields DEF CursorShown, IsView
<1>2. v.cursor <= LastBufferLine(v) /\ RowsBetween(v, v.top, v.cursor) < v.height
    BY <1>1, RowOnScreen DEF CursorShown
<1>3. /\ k \in Nat /\ v.top + k = v.cursor /\ v.top \in Int
      /\ v.top + k <= LastBufferLine(v) + 1 /\ v.top + k <= LastBufferLine(w) + 1
      /\ \A x \in v.top..v.top + k - 1 : Section(w, x).line = Section(v, x).line
    BY <1>1, <1>2
<1> HIDE DEF k
<1>4. RowsBetween(w, v.top, v.top + k) = RowsBetween(v, v.top, v.top + k)
    BY <1>1, <1>3, RowsAlike
<1>5. v.cursor <= ScreenBottomBufferLine(w)
    BY <1>1, <1>2, <1>3, <1>4, RowOnScreen
<1> QED BY <1>1, <1>5 DEF CursorShown

(* Painting leaves the cursor on the screen.                               *)
LEMMA PaintedShows ==
    ASSUME NEW v, IsView(v), NEW w, IsView(w), SameCache(v, w)
    PROVE  StillShown(v, w)
BY BottomSame DEF StillShown, CursorShown, SameCache

-----------------------------------------------------------------------------
(* Lines that exist.  Unless a line that does not was drawn, the cache     *)
(* holds none behind the text, and begins or goes on at the screen's top.  *)
Within(t, v) == v.dead \/ LastBufferLine(v) < Greatest(Len(t), v.first)
Reaches(v) == v.top <= LastBufferLine(v) + 1
Stays(t, v) == ~v.dead /\ Within(t, v) /\ Reaches(v)
Lives(t, v) == Stays(t, v) /\ v.top < Len(t) /\ v.selected[1] < Len(t)
(* w shows no line that does not exist if v shows none, and bl exists.     *)
Safely(t, v, w) == (Within(t, v) => Within(t, w)) /\ (Lives(t, v) => Lives(t, w))
Grown(t, bl, v, w) ==
    /\ Within(t, v) => Within(t, w)
    /\ Lives(t, v) /\ bl < Len(t) => Lives(t, w)

(* Lines are shown or not whatever they look like.                         *)
LEMMA SameGrown ==
    ASSUME NEW t, NEW v, NEW w, SameLines(v, w), w.selected = v.selected
    PROVE  Safely(t, v, w)
BY DEF Safely, Lives, Stays, Within, Reaches, SameLines

(* A cache that is not touched stays as it is.                             *)
LEMMA CacheGrown ==
    ASSUME NEW t, NEW v, NEW w, SameCache(v, w)
    PROVE  Safely(t, v, w)
<1>1. SameLines(v, w) /\ w.selected = v.selected
    BY DEF SameCache, SameLines, LastBufferLine
<1> QED BY <1>1, SameGrown

(* A line that does not exist is drawn if the lines taken go beyond the    *)
(* text.                                                                   *)
LEMMA TargetDies ==
    ASSUME NEW t \in Seq(Lines), NEW v, IsView(v), NEW bl \in Nat
    PROVE  TargetBufferLine(t, v, bl).dead
             <=> \/ v.dead
                 \/ bl < v.first /\ Len(t) < v.first
                 \/ LastBufferLine(v) < bl /\ Len(t) <= bl
<1> DEFINE last == LastBufferLine(v)
           before == SectionsOf(t, bl, v.first - 1)
           after == SectionsOf(t, last + 1, bl)
           taken == before \o after
           missing == \E s \in Range(taken) : s.line = Nothing
<1>1. TargetBufferLine(t, v, bl).dead <=> v.dead \/ missing
    BY DEF TargetBufferLine, IsView, Fn, Fields
<1>2. last \in Int /\ v.first \in Nat /\ last + 1 \in Nat /\ v.first - 1 <= last /\ Len(t) \in Nat
    BY ViewFields, NewSections
<1>3. /\ before \in Seq(Sections) /\ Len(before) = Greatest(v.first - bl, 0)
      /\ \A i \in 1..Len(before) : before[i] = SectionOf(t, bl + i - 1)
    <2>1. (v.first - 1) - bl + 1 = v.first - bl /\ v.first - 1 \in Int
        BY <1>2
    <2> QED BY <2>1, SectionsFromTo
<1> DEFINE from == last + 1
<1>4. /\ after \in Seq(Sections) /\ Len(after) = Greatest(bl - from + 1, 0)
      /\ \A i \in 1..Len(after) : after[i] = SectionOf(t, from + i - 1)
    <2>1. from \in Nat /\ bl \in Int
        BY <1>2
    <2> HIDE DEF from
    <2>2. LET s == SectionsOf(t, from, bl)
          IN  /\ s \in Seq(Sections) /\ Len(s) = Greatest(bl - from + 1, 0)
              /\ \A i \in 1..Len(s) : s[i] = SectionOf(t, from + i - 1)
        BY <2>1, SectionsFromTo
    <2> QED BY <2>2 DEF from
<1>5. \A x \in Nat : SectionOf(t, x).line = Nothing <=> Len(t) <= x
    <2> TAKE x \in Nat
    <2>1. x < Len(t) => SectionOf(t, x).line # Nothing
        BY NewSections, ScreenAssumption
    <2>2. ~(x < Len(t)) => SectionOf(t, x).line = Nothing
        BY NewSections
    <2> QED BY <1>2, <2>1, <2>2
<1> HIDE DEF before, after, from
<1> DEFINE m == Len(before)
           k == Len(after)
<1>6. /\ m \in Nat /\ k \in Nat /\ DOMAIN taken = 1..m + k
      /\ \A i \in 1..m : taken[i] = before[i]
      /\ \A i \in 1..k : taken[m + i] = after[i]
    <2>1. before \in Seq(Sections) /\ after \in Seq(Sections)
        BY <1>3, <1>4
    <2>2. /\ Len(before) \in Nat /\ Len(after) \in Nat
          /\ taken \in Seq(Sections) /\ Len(taken) = Len(before) + Len(after)
          /\ \A i \in 1..Len(before) : taken[i] = before[i]
          /\ \A i \in 1..Len(after) : taken[Len(before) + i] = after[i]
        BY <2>1, ConcatTwo
    <2> QED BY <2>2, LenProperties
<1> HIDE DEF taken, m, k
<1>7. missing <=> \E i \in 1..m + k : taken[i].line = Nothing
    BY <1>6 DEF Range
<1>8. (\E i \in 1..m : taken[i].line = Nothing) <=> bl < v.first /\ Len(t) < v.first
    <2>1. \A i \in 1..m : taken[i].line = Nothing <=> Len(t) <= bl + i - 1
        BY <1>3, <1>5, <1>6 DEF m
    <2>2. m = Greatest(v.first - bl, 0)
        BY <1>3 DEF m
    <2>3. ASSUME bl < v.first, Len(t) < v.first PROVE \E i \in 1..m : taken[i].line = Nothing
        <3>1. m = v.first - bl /\ m \in 1..m /\ Len(t) <= bl + m - 1
            BY <1>2, <2>2, <2>3 DEF Greatest
        <3> QED BY <2>1, <3>1
    <2>4. ASSUME NEW i \in 1..m, taken[i].line = Nothing PROVE bl < v.first /\ Len(t) < v.first
        <3>1. Len(t) <= bl + i - 1
            BY <2>1, <2>4
        <3> QED BY <1>2, <1>6, <2>2, <3>1 DEF Greatest
    <2> QED BY <2>3, <2>4
<1>9. (\E i \in 1..k : taken[m + i].line = Nothing) <=> last < bl /\ Len(t) <= bl
    <2>1. \A i \in 1..k : taken[m + i].line = Nothing <=> Len(t) <= from + i - 1
        <3>1. from \in Nat
            BY <1>2 DEF from
        <3> QED BY <1>4, <1>5, <1>6, <3>1 DEF k
    <2>2. k = Greatest(bl - from + 1, 0) /\ from = last + 1
        BY <1>4 DEF k, from
    <2>3. ASSUME last < bl, Len(t) <= bl PROVE \E i \in 1..k : taken[m + i].line = Nothing
        <3> HIDE DEF last
        <3>1. k = bl - last /\ k \in 1..k /\ from + k - 1 = bl
            BY <1>2, <2>2, <2>3 DEF Greatest
        <3> QED BY <2>1, <2>3, <3>1
    <2>4. ASSUME NEW i \in 1..k, taken[m + i].line = Nothing PROVE last < bl /\ Len(t) <= bl
        <3> HIDE DEF last
        <3>1. Len(t) <= from + i - 1
            BY <2>1, <2>4
        <3> QED BY <1>2, <1>6, <2>2, <3>1 DEF Greatest
    <2> QED BY <2>3, <2>4
<1>10. (\E i \in 1..m + k : taken[i].line = Nothing)
         <=> \/ \E i \in 1..m : taken[i].line = Nothing
             \/ \E i \in 1..k : taken[m + i].line = Nothing
    <2>1. ASSUME NEW i \in 1..m + k, taken[i].line = Nothing
          PROVE  \/ \E j \in 1..m : taken[j].line = Nothing
                 \/ \E j \in 1..k : taken[m + j].line = Nothing
        <3>1. CASE i \in 1..m
            BY <2>1, <3>1
        <3>2. CASE i \notin 1..m
            <4>1. i - m \in 1..k /\ m + (i - m) = i
                BY <1>6, <3>2
            <4> QED BY <2>1, <4>1
        <3> QED BY <3>1, <3>2
    <2>2. \A i \in 1..m : i \in 1..m + k
        BY <1>6
    <2>3. \A i \in 1..k : m + i \in 1..m + k
        BY <1>6
    <2> QED BY <2>1, <2>2, <2>3
<1> QED BY <1>1, <1>7, <1>8, <1>9, <1>10

(* targetBufferLine(): a line of the text is drawn without harm.           *)
LEMMA TargetGrows ==
    ASSUME NEW t \in Seq(Lines), NEW v, IsView(v), NEW bl \in Nat
    PROVE  Grown(t, bl, v, TargetBufferLine(t, v, bl))
<1> DEFINE w == TargetBufferLine(t, v, bl)
           last == LastBufferLine(v)
<1>1. /\ w.first = Least(v.first, bl) /\ w.top = v.top /\ w.selected = v.selected
      /\ LastBufferLine(w) = Greatest(last, bl)
    BY TargetSections DEF SameScreen, Alike
<1>2. w.dead <=> v.dead \/ (bl < v.first /\ Len(t) < v.first) \/ (last < bl /\ Len(t) <= bl)
    BY TargetDies
<1>3. /\ last \in Int /\ v.first \in Nat /\ v.first - 1 <= last /\ Len(t) \in Nat
      /\ v.top \in Nat /\ v.first <= v.top
    BY ViewFields, NewSections
<1> HIDE DEF w, last
<1>4. ASSUME Within(t, v), ~w.dead PROVE LastBufferLine(w) < Greatest(Len(t), w.first)
    <2>1. last < Greatest(Len(t), v.first)
        BY <1>2, <1>4 DEF Within, last
    <2> QED BY <1>1, <1>2, <1>3, <1>4, <2>1 DEF Greatest, Least
<1>5. ASSUME Lives(t, v), bl < Len(t)
      PROVE  ~w.dead /\ w.top < Len(t) /\ w.selected[1] < Len(t) /\ Reaches(w)
    <2>1. ~v.dead /\ v.top < Len(t) /\ v.top <= last + 1 /\ v.selected[1] < Len(t)
        BY <1>5 DEF Lives, Stays, Reaches, last
    <2>2. ~w.dead
        BY <1>2, <1>3, <1>5, <2>1
    <2>3. w.top <= LastBufferLine(w) + 1
        BY <1>1, <1>3, <2>1 DEF Greatest
    <2> QED BY <1>1, <2>1, <2>2, <2>3 DEF Reaches
<1> QED BY <1>4, <1>5 DEF Grown, Lives, Stays, Within, w

-----------------------------------------------------------------------------
(* Scrolling.                                                              *)
Moved(t, v, w) ==
    /\ IsView(w) /\ Locked(w) /\ Alike(v, w)
    /\ Marks(w) \subseteq Marks(v) /\ Wrong(t, w) \subseteq Wrong(t, v)

(* What moves and moves again has moved.                                   *)
LEMMA MovedOn ==
    ASSUME NEW t, NEW u, NEW v, NEW w, Moved(t, u, v), Moved(t, v, w)
    PROVE  Moved(t, u, w)
BY DEF Moved, Alike, Balanced

(* A view that stays has moved nowhere.                                    *)
LEMMA MovedNot ==
    ASSUME NEW t, NEW v, IsView(v), Locked(v)
    PROVE  Moved(t, v, v)
BY DEF Moved, Alike, Balanced

(* Painting moves nothing.                                                 *)
LEMMA PaintedMoves ==
    ASSUME NEW t, NEW v, Locked(v), NEW w, Painted(v, w)
    PROVE  Moved(t, v, w)
<1>1. Marks(w) = Marks(v) /\ Wrong(t, w) = Wrong(t, v) /\ Locked(w)
    BY SameCacheSame DEF Painted
<1> QED BY <1>1 DEF Painted, Moved, Alike, SameCache

(* targetBufferLine() adds lines of the text that are not marked.          *)
LEMMA TargetMoves ==
    ASSUME NEW t \in Seq(Lines), NEW v, IsView(v), Locked(v), NEW bl \in Nat
    PROVE  Moved(t, v, TargetBufferLine(t, v, bl))
<1> DEFINE w == TargetBufferLine(t, v, bl)
<1>1. IsView(w) /\ SameScreen(v, w)
    BY TargetSections
<1>2. Marks(w) \subseteq Marks(v) /\ Wrong(t, w) \subseteq Wrong(t, v) /\ Locked(w)
    BY TargetKeeps
<1> QED BY <1>1, <1>2 DEF Moved, SameScreen

(* What is cut from the cache is on neither side of the screen.            *)
LEMMA SqueezeSections ==
    ASSUME NEW v, IsView(v), Locked(v)
    PROVE  LET w == Squeeze(v)
               from == IF v.start = NoLine THEN v.top ELSE Least(v.top, v.start)
               to == Greatest(ScreenBottomBufferLine(v), v.start)
           IN  /\ IsView(w) /\ Locked(w) /\ SameScreen(v, w) /\ w.first = from
               /\ v.first <= from /\ from <= v.top
               /\ from \in Nat /\ to \in Int
               /\ LastBufferLine(w) = Greatest(Least(to, LastBufferLine(v)), from - 1)
               /\ w.dead = v.dead /\ Cached(w) \subseteq Cached(v)
               /\ \A x \in Cached(w) : Section(w, x) = Section(v, x)
<1> DEFINE first == v.first
           top == v.top
           last == LastBufferLine(v)
           content == v.content
           n == Len(content)
           start == v.start
           bottom == ScreenBottomBufferLine(v)
           from == IF start = NoLine THEN top ELSE Least(top, start)
           to == Greatest(bottom, start)
           p == Greatest(from - first + 1, 1)
           q == Least(to - first + 1, n)
           new == SubSeq(content, p, q)
           w == [v EXCEPT !.content = new, !.first = from]
<1>1. Squeeze(v) = w
    BY DEF Squeeze
<1>2. /\ n \in Nat /\ first \in Nat /\ top \in Nat /\ first <= top /\ last = first + n - 1
      /\ bottom \in Int /\ bottom <= last
    BY ViewFields, BottomFacts
<1>3. content \in Seq(Sections) /\ start \in Nat \cup {NoLine} /\ (start # NoLine => first <= start)
    BY DEF IsView, Locked
<1> HIDE DEF first, top, last, n, start, bottom
<1>4. from \in Nat /\ first <= from /\ from <= top /\ (start # NoLine => from <= start)
    BY <1>2, <1>3 DEF Least, NoLine
<1>5. to \in Int
    BY <1>2, <1>3 DEF Greatest, NoLine
<1> HIDE DEF from, to
<1>6. p = from - first + 1 /\ p \in Nat /\ 1 <= p /\ q \in Int /\ q <= n
    BY <1>2, <1>4, <1>5 DEF Greatest, Least
<1> HIDE DEF p, q
<1>7. /\ new \in Seq(Sections) /\ Len(new) = Greatest(q - p + 1, 0)
      /\ \A i \in 1..Len(new) : p + i - 1 \in 1..n /\ new[i] = content[p + i - 1]
    <2>1. CASE p <= q
        <3>1. p \in 1..n /\ q \in p..n /\ p \in 1..n + 1 /\ q \in p - 1..n
            BY <1>2, <1>6, <2>1
        <3>2. new \in Seq(Sections) /\ Len(new) = q - p + 1
              /\ \A i \in 1..q - p + 1 : new[i] = content[p + i - 1]
            BY <1>3, <3>1, SubSeqProperties DEF n
        <3>3. Greatest(q - p + 1, 0) = q - p + 1
            BY <1>6, <2>1 DEF Greatest
        <3>4. \A i \in 1..q - p + 1 : p + i - 1 \in 1..n
            BY <1>2, <1>6
        <3> QED BY <3>2, <3>3, <3>4
    <2>2. CASE ~(p <= q)
        <3>1. p > q
            BY <1>6, <2>2
        <3>2. new = <<>>
            BY <1>3, <1>6, <3>1, SubSeqEmpty
        <3>3. new \in Seq(Sections) /\ Len(new) = 0
            BY <3>2
        <3>4. Greatest(q - p + 1, 0) = 0
            BY <1>6, <3>1 DEF Greatest
        <3> QED BY <3>3, <3>4
    <2> QED BY <2>1, <2>2
<1> HIDE DEF new
<1>8. /\ IsView(w) /\ SameScreen(v, w) /\ w.first = from /\ w.content = new /\ w.dead = v.dead
      /\ Locked(w)
    <2>1. v.top = top /\ v.start = start
        BY DEF top, start
    <2>2. IsView(w) /\ SameScreen(v, w) /\ w.first = from /\ w.content = new /\ w.dead = v.dead
        BY <1>4, <1>7, <2>1 DEF IsView, Fn, Fields, SameScreen, Alike, Balanced, PendingIn
    <2>3. w.start = start
        BY <2>1, <2>2 DEF SameScreen, Alike
    <2> QED BY <1>4, <2>2, <2>3 DEF Locked
<1>9. LastBufferLine(w) = from + Greatest(q - p + 1, 0) - 1
    BY <1>7, <1>8 DEF LastBufferLine
<1>10. \A x : Section(w, x) = new[x - from + 1] /\ Section(v, x) = content[x - first + 1]
    BY <1>8 DEF Section, first
<1>11. Cached(w) = from..LastBufferLine(w) /\ Cached(v) = first..last
    BY <1>8 DEF Cached, first, last
<1> HIDE DEF w
<1>12. LastBufferLine(w) = Greatest(Least(to, last), from - 1)
    BY <1>2, <1>4, <1>5, <1>6, <1>9 DEF Greatest, Least, q
<1>13. ASSUME NEW x \in Cached(w) PROVE x \in Cached(v) /\ Section(w, x) = Section(v, x)
    <2> DEFINE i == x - from + 1
    <2>1. x \in from..LastBufferLine(w) /\ x \in Int
        BY <1>11
    <2>2. i \in 1..Len(new)
        <3>1. LastBufferLine(w) = from + Len(new) - 1 /\ Len(new) \in Nat
            BY <1>6, <1>7, <1>9 DEF Greatest
        <3> DEFINE m == Len(new)
                   end == LastBufferLine(w)
        <3>2. m \in Nat /\ end = from + m - 1 /\ x \in from..end /\ x \in Int /\ from \in Nat
            BY <1>4, <2>1, <3>1
        <3> HIDE DEF m, end
        <3>3. x - from + 1 \in 1..m
            BY <3>2
        <3> QED BY <3>3 DEF m
    <2>3. p + i - 1 = x - first + 1
        BY <1>2, <1>4, <1>6, <2>1
    <2> HIDE DEF i
    <2>4. x - first + 1 \in 1..n /\ new[i] = content[x - first + 1]
        BY <1>7, <2>2, <2>3
    <2>5. x \in first..last
        BY <1>2, <2>1, <2>4
    <2> QED BY <1>10, <1>11, <2>4, <2>5 DEF i
<1> QED BY <1>1, <1>4, <1>5, <1>8, <1>12, <1>13
        DEF first, top, last, start, bottom, from, to

(* The screen begins in the cache.                                         *)
(* What a view keeps of its cache when what is off the screen is dropped.  *)
LEMMA SqueezeKept ==
    ASSUME NEW v, IsView(v), Locked(v)
    PROVE  LET s == Squeeze(v)
           IN  /\ s.dead = v.dead /\ v.first <= s.first /\ s.top = v.top
               /\ LastBufferLine(s) <= Greatest(LastBufferLine(v), s.first - 1)
               /\ Reaches(v) => Reaches(s)
               /\ v.start = NoLine => s.first = v.top
               /\ \A t \in Seq(Lines) : Safely(t, v, s)
<1> DEFINE s == Squeeze(v)
           last == LastBufferLine(v)
           bottom == ScreenBottomBufferLine(v)
           to == Greatest(bottom, v.start)
           f == IF v.start = NoLine THEN v.top ELSE Least(v.top, v.start)
<1>1. /\ s.dead = v.dead /\ s.first = f /\ v.first <= f /\ f \in Nat /\ to \in Int
      /\ s.top = v.top /\ s.selected = v.selected /\ v.first \in Nat
      /\ LastBufferLine(s) = Greatest(Least(to, last), f - 1)
    BY SqueezeSections DEF SameScreen, Alike, IsView
<1>2. /\ bottom \in Int /\ bottom <= last /\ last \in Int /\ v.top \in Nat /\ v.start \in Int
      /\ v.top <= last => v.top <= bottom
      /\ Full(v) => v.top <= bottom
      /\ ~Full(v) => bottom = last
    BY ViewFields, BottomFacts DEF IsView, NoLine
<1>3. v.start = NoLine => f = v.top
    OBVIOUS
<1>4. bottom <= to
    BY <1>2 DEF Greatest
<1> HIDE DEF s, last, bottom, to, f
<1>5. LastBufferLine(s) <= Greatest(last, s.first - 1)
    BY <1>1, <1>2 DEF Greatest, Least
<1>6. ASSUME Reaches(v) PROVE Reaches(s)
    <2>1. v.top <= last + 1
        BY <1>6 DEF Reaches, last
    <2>2. v.top <= bottom + 1
        BY <1>2, <2>1
    <2>3. v.top <= LastBufferLine(s) + 1
        BY <1>1, <1>2, <1>4, <2>2 DEF Greatest, Least
    <2> QED BY <1>1, <2>3 DEF Reaches
<1>7. ASSUME NEW t \in Seq(Lines) PROVE Safely(t, v, s)
    <2>1. Len(t) \in Nat
        BY NewSections
    <2> DEFINE e == LastBufferLine(s)
    <2>2. last < Greatest(Len(t), v.first) => e < Greatest(Len(t), s.first)
        <3>1. e \in Int
            <4>1. f - 1 \in Int /\ to \in Int
                BY <1>1
            <4> QED BY <1>1, <1>2, <4>1 DEF Greatest, Least
        <3> HIDE DEF e
        <3>2. e <= Greatest(last, s.first - 1)
            BY <1>5 DEF e
        <3> QED BY <1>1, <1>2, <2>1, <3>1, <3>2 DEF Greatest
    <2>3. Within(t, v) => Within(t, s)
        BY <1>1, <2>2 DEF Within, last
    <2> QED BY <1>1, <1>6, <2>3 DEF Safely, Lives, Stays
<1> QED BY <1>1, <1>3, <1>5, <1>6, <1>7 DEF s, last

TopCached(v) == v.top <= LastBufferLine(v)

(* YDrawBuffer::squeeze() only takes lines away.                           *)
LEMMA SqueezeMoves ==
    ASSUME NEW v, IsView(v), Locked(v)
    PROVE  /\ \A t : Moved(t, v, Squeeze(v))
           /\ Squeeze(v).top = v.top
           /\ TopCached(v) => TopCached(Squeeze(v))
           /\ StillShown(v, Squeeze(v))
<1> DEFINE w == Squeeze(v)
           from == IF v.start = NoLine THEN v.top ELSE Least(v.top, v.start)
           to == Greatest(ScreenBottomBufferLine(v), v.start)
           last == LastBufferLine(v)
<1>1. /\ IsView(w) /\ Locked(w) /\ SameScreen(v, w) /\ w.first = from /\ from \in Nat /\ to \in Int
      /\ LastBufferLine(w) = Greatest(Least(to, last), from - 1)
      /\ Cached(w) \subseteq Cached(v)
      /\ \A x \in Cached(w) : Section(w, x) = Section(v, x)
    BY SqueezeSections
<1>2. last \in Int /\ v.start \in Nat \cup {NoLine} /\ v.top \in Nat
    BY ViewFields DEF IsView
<1>3. /\ ScreenBottomBufferLine(v) \in Int
      /\ v.top <= last => v.top <= ScreenBottomBufferLine(v)
    BY BottomFacts
<1>4. ScreenBottomBufferLine(v) <= to
    BY <1>2, <1>3 DEF Greatest, NoLine
<1> HIDE DEF w, from, to, last
<1>5. Marks(w) \subseteq Marks(v) /\ \A t : Wrong(t, w) \subseteq Wrong(t, v)
    BY <1>1 DEF Marks, Wrong
<1>6. v.top <= last => w.top <= LastBufferLine(w)
    <2>1. w.top = v.top
        BY <1>1 DEF SameScreen
    <2>2. to \in Int /\ from \in Nat
        BY <1>1
    <2>3. LastBufferLine(w) = Greatest(Least(to, last), from - 1)
        BY <1>1
    <2> DEFINE bottom == ScreenBottomBufferLine(v)
    <2>4. bottom \in Int /\ bottom <= to /\ (v.top <= last => v.top <= bottom)
        BY <1>3, <1>4
    <2> HIDE DEF bottom
    <2> QED BY <1>2, <2>1, <2>2, <2>3, <2>4 DEF Least, Greatest
<1>7. StillShown(v, w)
    <2>1. w.top = v.top /\ w.height = v.height /\ w.cursor = v.cursor
        BY <1>1 DEF SameScreen, Alike
    <2>2. ASSUME CursorShown(v)
          PROVE  /\ v.cursor <= LastBufferLine(w)
                 /\ \A x \in v.top..v.cursor - 1 : Section(w, x).line = Section(v, x).line
        <3> DEFINE bottom == ScreenBottomBufferLine(v)
        <3>1. /\ v.cursor \in Nat /\ v.cursor <= bottom /\ bottom \in Int /\ bottom <= last
              /\ bottom <= to
            BY <1>3, <1>4, <2>2, BottomFacts DEF CursorShown, IsView, last
        <3> HIDE DEF bottom
        <3>2. to \in Int /\ from \in Nat /\ from <= v.top
              /\ LastBufferLine(w) = Greatest(Least(to, last), from - 1)
            BY <1>1, SqueezeSections DEF from, last, to
        <3>3. v.cursor <= LastBufferLine(w) /\ LastBufferLine(w) \in Int
            BY <1>2, <3>1, <3>2 DEF Least, Greatest
        <3>4. v.top..v.cursor - 1 \subseteq Cached(w)
            BY <1>1, <1>2, <3>1, <3>2, <3>3 DEF Cached
        <3> QED BY <1>1, <3>3, <3>4
    <2> QED BY <1>1, <2>1, <2>2, ShownStays
<1> QED BY <1>1, <1>5, <1>6, <1>7 DEF Moved, SameScreen, TopCached, w, last

(* Another line of the cache becomes the screen's first; a line that does  *)
(* not exist may have been drawn before.                                   *)
TopChanged(v, bl, dead, w) == w = [v EXCEPT !.top = bl, !.dead = dead]

(* The cache stays as it is.                                               *)
LEMMA TopMoves ==
    ASSUME NEW t, NEW v, IsView(v), Locked(v), NEW bl \in Nat, v.first <= bl, NEW dead \in BOOLEAN,
           NEW w, TopChanged(v, bl, dead, w)
    PROVE  /\ Moved(t, v, w) /\ w.top = bl /\ LastBufferLine(w) = LastBufferLine(v)
           /\ w.first = v.first /\ w.dead = dead /\ w.selected = v.selected
<1>1. /\ IsView(w) /\ Alike(v, w) /\ w.top = bl /\ w.first = v.first /\ w.content = v.content
      /\ w.start = v.start /\ w.dead = dead /\ w.selected = v.selected
    BY DEF TopChanged, IsView, Fn, Fields, Alike, Balanced, PendingIn
<1>2. LastBufferLine(w) = LastBufferLine(v) /\ \A b : Section(w, b) = Section(v, b)
    BY <1>1 DEF LastBufferLine, Section
<1>3. Cached(w) = Cached(v)
    BY <1>1, <1>2 DEF Cached
<1>4. Marks(w) = Marks(v) /\ Wrong(t, w) = Wrong(t, v) /\ Locked(w)
    BY <1>1, <1>2, <1>3 DEF Marks, Wrong, Locked
<1> QED BY <1>1, <1>2, <1>4 DEF Moved

(* A line fits in the window by itself, so there is a top that shows it.   *)
LEMMA TopShowingFits ==
    ASSUME NEW v, IsView(v), NEW bl \in Cached(v)
    PROVE  LET top == TopShowing(v, bl)
           IN  /\ top \in v.first..bl
               /\ RowsBetween(v, top, bl + 1) <= v.height
               /\ top = v.first \/ ~(RowsBetween(v, top - 1, bl + 1) <= v.height)
<1> DEFINE first == v.first
           last == LastBufferLine(v)
           h == v.height
           R(a) == RowsBetween(v, a, bl + 1)
           K == {k \in Nat : first <= k /\ k <= bl /\ R(k) <= h}
<1>1. /\ first \in Nat /\ last \in Int /\ h \in Nat /\ bl \in Int /\ first <= bl /\ bl <= last
    BY ViewFields DEF Cached
<1>2. R(bl) <= h
    <2>1. /\ Count(Section(v, bl)) \in 1..h
          /\ RowsBetween(v, bl, bl + 1) = RowsBetween(v, bl, bl) + Count(Section(v, bl))
          /\ RowsBetween(v, bl, bl) = 0
        BY <1>1, RowFacts
    <2> DEFINE c == Count(Section(v, bl))
    <2>2. c \in 1..h /\ R(bl) = 0 + c
        BY <2>1
    <2> HIDE DEF c, R, h
    <2> QED BY <1>1, <2>2
<1> HIDE DEF first, h, R, last
<1>3. bl \in K
    BY <1>1, <1>2
<1>4. PICK k \in K : \A m \in K : k <= m
    <2>1. K \in SUBSET Nat /\ K # {}
        BY <1>3
    <2> HIDE DEF K
    <2> QED BY <2>1, LeastNumber
<1>5. k \in first..bl /\ R(k) <= h
    BY <1>1, <1>4
<1>6. k = first \/ ~(R(k - 1) <= h)
    <2> SUFFICES ASSUME k # first, R(k - 1) <= h PROVE FALSE
        OBVIOUS
    <2>1. k - 1 \in Nat /\ first <= k - 1 /\ k - 1 <= bl
        BY <1>1, <1>5
    <2>2. k - 1 \in K
        BY <2>1
    <2> QED BY <1>1, <1>4, <1>5, <2>2
<1>7. TopShowing(v, bl) = CHOOSE top \in first..bl : R(top) <= h /\ (top = first \/ ~(R(top - 1) <= h))
    BY DEF TopShowing, first, h, R
<1>8. LET top == TopShowing(v, bl)
      IN  top \in first..bl /\ R(top) <= h /\ (top = first \/ ~(R(top - 1) <= h))
    BY <1>5, <1>6, <1>7
<1> QED BY <1>8 DEF first, h, R

(* fill() adds lines below the screen.                                     *)
Fills(t, v, next, n, f) ==
    f = [k \in 0..n |-> IF k = 0 THEN v ELSE FillLine(t, f[k - 1], next + k - 1)]

(* There is such a function: a definition by recursion over the lines.     *)
LEMMA FillExists ==
    ASSUME NEW t, NEW v, NEW next, NEW n \in Nat
    PROVE  \E f : Fills(t, v, next, n, f)
<1> DEFINE Holds(f, m) ==
               f = [k \in 0..m |-> IF k = 0 THEN v ELSE FillLine(t, f[k - 1], next + k - 1)]
           S == {m \in Nat : \E f : Holds(f, m)}
<1>1. 0 \in S
    <2> DEFINE f == [k \in 0..0 |-> v]
    <2>1. \A k \in 0..0 : k = 0
        OBVIOUS
    <2>2. Holds(f, 0)
        BY <2>1
    <2> HIDE DEF f
    <2> QED BY <2>2
<1>2. ASSUME NEW m \in Nat, m \in S PROVE m + 1 \in S
    <2>1. PICK f : Holds(f, m)
        BY <1>2
    <2> DEFINE g == [k \in 0..m + 1 |-> IF k = m + 1 THEN FillLine(t, f[m], next + m) ELSE f[k]]
    <2>2. \A k \in 0..m : f[k] = IF k = 0 THEN v ELSE FillLine(t, f[k - 1], next + k - 1)
        BY <2>1
    <2>3. g[m + 1] = FillLine(t, f[m], next + m) /\ \A k \in 0..m : g[k] = f[k]
        OBVIOUS
    <2>4. g = [k \in 0..m + 1 |-> g[k]]
        OBVIOUS
    <2> HIDE DEF g, Holds
    <2>5. ASSUME NEW k \in 0..m + 1
          PROVE  g[k] = IF k = 0 THEN v ELSE FillLine(t, g[k - 1], next + k - 1)
        <3>1. CASE k = m + 1
            <4>1. k # 0 /\ k - 1 = m /\ m \in 0..m /\ next + k - 1 = next + (m + 1) - 1
                BY <3>1
            <4> QED BY <2>3, <3>1, <4>1
        <3>2. CASE k # m + 1
            <4>1. k \in 0..m /\ (k # 0 => k - 1 \in 0..m)
                BY <3>2
            <4> QED BY <2>2, <2>3, <4>1
        <3> QED BY <3>1, <3>2
    <2>6. Holds(g, m + 1)
        BY <2>4, <2>5 DEF Holds
    <2> QED BY <2>6
<1> HIDE DEF S
<1>3. Nat \subseteq S
    BY <1>1, <1>2, SetInduction
<1>4. \E f : Holds(f, n)
    BY <1>3 DEF S
<1> QED BY <1>4 DEF Fills

(* The lines after the cache are added until the window is full.           *)
LEMMA FillMoves ==
    ASSUME NEW t \in Seq(Lines), NEW v, IsView(v), Locked(v), TopCached(v)
    PROVE  Moved(t, v, Fill(t, v)) /\ TopCached(Fill(t, v)) /\ Safely(t, v, Fill(t, v))
<1> DEFINE next == LastBufferLine(v) + 1
           n == Greatest(Len(t) - next, 0)
           F(f) == f = [k \in 0..n |-> IF k = 0 THEN v ELSE FillLine(t, f[k - 1], next + k - 1)]
           filled == CHOOSE f : F(f)
<1>1. next \in Nat /\ n \in Nat /\ (n > 0 => next + n <= Len(t)) /\ Len(t) \in Nat
    <2>1. LastBufferLine(v) \in Int /\ v.first \in Nat /\ v.first - 1 <= LastBufferLine(v) /\ Len(t) \in Nat
        BY ViewFields, NewSections
    <2>2. next \in Nat
        BY <2>1
    <2> HIDE DEF next
    <2> QED BY <2>1, <2>2 DEF Greatest
<1>2. Fill(t, v) = filled[n]
    BY DEF Fill
<1> HIDE DEF next, n
<1>0. \E f : Fills(t, v, next, n, f)
    BY <1>1, FillExists
<1>3. F(filled)
    BY <1>0 DEF Fills
<1> HIDE DEF filled
<1> DEFINE Good(w) == Moved(t, v, w) /\ TopCached(w) /\ Safely(t, v, w)
           S == {k \in Nat : k <= n => Good(filled[k])}
<1>4. 0 \in S
    <2>1. filled[0] = v
        BY <1>1, <1>3
    <2> QED BY <2>1, MovedNot DEF Safely
<1>5. ASSUME NEW k \in Nat, k \in S PROVE k + 1 \in S
    <2> SUFFICES ASSUME k + 1 <= n PROVE Good(filled[k + 1])
        OBVIOUS
    <2> DEFINE u == filled[k]
               bl == next + (k + 1) - 1
    <2>1. Good(u)
        <3>1. k <= n
            BY <1>1
        <3> QED BY <1>5, <3>1
    <2>2. filled[k + 1] = FillLine(t, u, bl)
        <3>1. k + 1 \in 0..n /\ k + 1 # 0 /\ (k + 1) - 1 = k
            BY <1>1
        <3> QED BY <1>3, <3>1
    <2>3. bl \in Nat /\ bl < Len(t)
        BY <1>1
    <2> HIDE DEF u, bl
    <2>4. IsView(u) /\ Locked(u)
        BY <2>1 DEF Moved
    <2>5. CASE Full(u)
        BY <2>1, <2>2, <2>5 DEF FillLine
    <2>6. CASE ~Full(u)
        <3> DEFINE w == TargetBufferLine(t, u, bl)
        <3>1. filled[k + 1] = w
            BY <2>2, <2>6 DEF FillLine
        <3>2. Moved(t, u, w) /\ Grown(t, bl, u, w)
            BY <2>3, <2>4, TargetMoves, TargetGrows
        <3>3. LastBufferLine(w) = Greatest(LastBufferLine(u), bl) /\ w.top = u.top
            BY <2>3, <2>4, TargetSections DEF SameScreen
        <3> HIDE DEF w
        <3>4. TopCached(w)
            <4>1. u.top <= LastBufferLine(u) /\ LastBufferLine(u) \in Int /\ u.top \in Nat
                BY <2>1, <2>4, ViewFields DEF TopCached
            <4> QED BY <2>3, <3>3, <4>1 DEF TopCached, Greatest
        <3>5. Moved(t, v, w)
            BY <2>1, <3>2, MovedOn
        <3>6. Safely(t, v, w)
            BY <2>1, <2>3, <3>2 DEF Safely, Grown
        <3> QED BY <3>1, <3>4, <3>5, <3>6
    <2> QED BY <2>5, <2>6
<1> HIDE DEF S
<1>6. Nat \subseteq S
    BY <1>4, <1>5, SetInduction
<1>7. n \in S /\ n <= n
    BY <1>1, <1>6
<1> QED BY <1>2, <1>7 DEF S

(* YDrawBuffer::scrollLineToTop(): the line is cached and on top.          *)
LEMMA ScrollToTopMoves ==
    ASSUME NEW t \in Seq(Lines), NEW v, IsView(v), Locked(v), NEW bl \in Nat
    PROVE  LET w == ScrollLineToTop(t, v, bl).view
           IN  Moved(t, v, w) /\ TopCached(w) /\ Grown(t, bl, v, w)
<1> DEFINE u == TargetBufferLine(t, v, bl)
           moved == [u EXCEPT !.top = bl]
           w == ScrollLineToTop(t, v, bl).view
<1>1. w = IF bl > v.top THEN Fill(t, moved) ELSE moved
    BY DEF ScrollLineToTop, Scrolled
<1>2. Moved(t, v, u) /\ u.first <= bl /\ bl \in Cached(u)
    BY TargetMoves, TargetKeeps
<1>9. Grown(t, bl, v, u)
    BY TargetGrows
<1> HIDE DEF u
<1>3. Moved(t, u, moved) /\ moved.top = bl /\ LastBufferLine(moved) = LastBufferLine(u)
      /\ moved.first = u.first /\ moved.dead = u.dead /\ moved.selected = u.selected
    <2>1. IsView(u) /\ Locked(u)
        BY <1>2 DEF Moved
    <2>2. TopChanged(u, bl, u.dead, moved) /\ u.dead \in BOOLEAN
        BY <2>1 DEF TopChanged, IsView, Fn, Fields
    <2> HIDE DEF moved
    <2> QED BY <1>2, <2>1, <2>2, TopMoves
<1> HIDE DEF moved, w
<1>4. Moved(t, v, moved) /\ IsView(moved) /\ Locked(moved)
    <2>1. Moved(t, v, moved)
        BY <1>2, <1>3, MovedOn
    <2> QED BY <2>1 DEF Moved
<1>5. TopCached(moved)
    <2>1. bl <= LastBufferLine(u)
        BY <1>2 DEF Cached
    <2> QED BY <1>3, <2>1 DEF TopCached
<1>6. /\ Moved(t, moved, Fill(t, moved)) /\ TopCached(Fill(t, moved))
      /\ Safely(t, moved, Fill(t, moved))
    BY <1>4, <1>5, FillMoves
<1>7. Moved(t, v, Fill(t, moved))
    BY <1>4, <1>6, MovedOn
<1>10. Grown(t, bl, u, moved)
    <2>1. bl \in Nat /\ LastBufferLine(moved) \in Int /\ Len(t) \in Nat
        BY <1>4, ViewFields, NewSections
    <2>2. Reaches(moved)
        BY <1>3, <1>5, <2>1 DEF Reaches, TopCached
    <2> QED BY <1>3, <2>2 DEF Grown, Lives, Stays, Within
<1>11. Grown(t, bl, v, w)
    BY <1>1, <1>6, <1>9, <1>10 DEF Grown, Safely
<1>8. Moved(t, v, w) /\ TopCached(w)
    BY <1>1, <1>4, <1>5, <1>6, <1>7
<1> QED BY <1>8, <1>11 DEF w

(* A line above the given one becomes the top one, and is cached.          *)
LEMMA ScrollBelowMoves ==
    ASSUME NEW t \in Seq(Lines), NEW v, IsView(v), Locked(v), NEW bl \in Nat,
           NEW room \in Int, NEW slack \in Int, 0 <= room + slack
    PROVE  LET w == ScrollLineBelow(t, v, bl, room, slack).view
           IN  /\ Moved(t, v, w) /\ TopCached(w)
               /\ Grown(t, bl, v, w)
<1> DEFINE all == TargetBufferLine(t, v, 0)
           above(x) == RowsBetween(all, x, bl)
           fits(x) == above(x) <= room + slack /\ \A l \in x + 1..bl : above(l) < room
           top == CHOOSE l \in 0..bl : fits(l) /\ (l = 0 \/ ~fits(l - 1))
           seen == IF top = 0 \/ above(top) >= room THEN top ELSE top - 1
           u == TargetBufferLine(t, v, seen)
<1>1. ScrollLineBelow(t, v, bl, room, slack) = ScrollLineToTop(t, u, top)
    BY DEF ScrollLineBelow
<1>2. IsView(all) /\ all.first = 0
    <2>1. IsView(all) /\ all.first = Least(v.first, 0)
        BY TargetSections
    <2>2. v.first \in Nat
        BY DEF IsView
    <2> QED BY <2>1, <2>2 DEF Least
<1>3. fits(bl)
    <2>1. above(bl) = 0
        <3>1. bl \in Int /\ all.first <= bl /\ bl <= bl
            BY <1>2
        <3> HIDE DEF all
        <3>2. \A b \in Int : b <= bl \/ LastBufferLine(all) < bl => RowsBetween(all, bl, b) = 0
            BY <1>2, <3>1, RowFacts
        <3> QED BY <3>1, <3>2
    <2>2. \A l \in bl + 1..bl : FALSE
        OBVIOUS
    <2> QED BY <2>1, <2>2
<1> HIDE DEF fits
<1>4. \E l \in 0..bl : fits(l) /\ (l = 0 \/ ~fits(l - 1))
    <2> DEFINE K == {k \in Nat : k <= bl /\ fits(k)}
    <2>1. bl \in K
        BY <1>3
    <2>2. PICK k \in K : \A m \in K : k <= m
        <3>1. K \in SUBSET Nat /\ K # {}
            BY <2>1
        <3> HIDE DEF K
        <3> QED BY <3>1, LeastNumber
    <2>3. k \in 0..bl /\ fits(k)
        BY <2>2
    <2>4. k = 0 \/ ~fits(k - 1)
        <3> SUFFICES ASSUME k # 0, fits(k - 1) PROVE FALSE
            OBVIOUS
        <3>1. k - 1 \in Nat /\ k - 1 <= bl /\ ~(k <= k - 1)
            BY <2>3
        <3>2. k - 1 \in K
            BY <3>1
        <3> QED BY <2>2, <3>1, <3>2
    <2> QED BY <2>3, <2>4
<1>5. top \in 0..bl
    BY <1>4
<1> HIDE DEF top, above
<1>6. top \in Nat /\ seen \in 0..bl /\ seen \in Nat
    BY <1>5
<1> HIDE DEF seen
<1>7. Moved(t, v, u) /\ Grown(t, seen, v, u)
    BY <1>6, TargetMoves, TargetGrows
<1> HIDE DEF u
<1>8. LET w == ScrollLineToTop(t, u, top).view
      IN  Moved(t, u, w) /\ TopCached(w) /\ Grown(t, top, u, w)
    BY <1>6, <1>7, ScrollToTopMoves DEF Moved
<1>9. LET w == ScrollLineToTop(t, u, top).view IN Moved(t, v, w)
    BY <1>7, <1>8, MovedOn
<1>10. LET w == ScrollLineToTop(t, u, top).view IN Grown(t, bl, v, w)
    <2>1. Len(t) \in Nat
        BY NewSections
    <2>2. bl < Len(t) => seen < Len(t) /\ top < Len(t)
        BY <1>5, <1>6, <2>1
    <2> QED BY <1>7, <1>8, <2>2 DEF Grown
<1> QED BY <1>1, <1>8, <1>9, <1>10

(* YDrawBuffer::scrollLineToBottom().                                      *)
LEMMA ScrollToBottomMoves ==
    ASSUME NEW t \in Seq(Lines), NEW v, IsView(v), Locked(v), NEW bl \in Nat
    PROVE  LET w == ScrollLineToBottom(t, v, bl).view
           IN  Moved(t, v, w) /\ TopCached(w) /\ Grown(t, bl, v, w)
<1> DEFINE u == TargetBufferLine(t, v, bl)
           room == v.height - Count(Section(u, bl))
<1>1. ScrollLineToBottom(t, v, bl) = ScrollLineBelow(t, u, bl, room, 0)
    BY DEF ScrollLineToBottom
<1>2. Moved(t, v, u) /\ bl \in Cached(u)
    BY TargetMoves, TargetKeeps
<1>7. Grown(t, bl, v, u)
    BY TargetGrows
<1> HIDE DEF u
<1>3. IsView(u) /\ Locked(u) /\ u.height = v.height
    BY <1>2 DEF Moved, Alike
<1>4. room \in Int /\ 0 <= room + 0
    <2>1. Section(u, bl) \in Sections /\ v.height \in Nat /\ v.height \in Heights
        BY <1>2, <1>3, ViewFields DEF IsView
    <2>2. Count(Section(u, bl)) \in Nat /\ Count(Section(u, bl)) <= v.height
        BY <2>1, CountProperties
    <2> QED BY <2>1, <2>2
<1> HIDE DEF room
<1>5. LET w == ScrollLineBelow(t, u, bl, room, 0).view
      IN  Moved(t, u, w) /\ TopCached(w) /\ Grown(t, bl, u, w)
    BY <1>3, <1>4, ScrollBelowMoves
<1>6. LET w == ScrollLineBelow(t, u, bl, room, 0).view IN Moved(t, v, w)
    BY <1>2, <1>5, MovedOn
<1>8. LET w == ScrollLineBelow(t, u, bl, room, 0).view IN Grown(t, bl, v, w)
    BY <1>5, <1>7 DEF Grown
<1> QED BY <1>1, <1>5, <1>6, <1>8

(* YDrawBuffer::scrollLineToCenter().                                      *)
LEMMA ScrollToCenterMoves ==
    ASSUME NEW t \in Seq(Lines), NEW v, IsView(v), Locked(v), NEW bl \in Nat
    PROVE  LET w == ScrollLineToCenter(t, v, bl).view
           IN  Moved(t, v, w) /\ TopCached(w) /\ Grown(t, bl, v, w)
<1> DEFINE u == TargetBufferLine(t, v, bl)
           room == (v.height \div 2) - 1 + (v.height % 2)
<1>1. ScrollLineToCenter(t, v, bl) = ScrollLineBelow(t, u, bl, room, 1)
    BY DEF ScrollLineToCenter
<1>2. Moved(t, v, u)
    BY TargetMoves
<1>7. Grown(t, bl, v, u)
    BY TargetGrows
<1> HIDE DEF u
<1>3. IsView(u) /\ Locked(u)
    BY <1>2 DEF Moved
<1>4. room \in Int /\ 0 <= room + 1
    <2>1. v.height \in Nat
        BY ViewFields
    <2> DEFINE h == v.height
    <2>2. h \in Nat
        BY <2>1
    <2> HIDE DEF h
    <2>3. h \div 2 \in Nat /\ h % 2 \in Nat
        BY <2>2
    <2> QED BY <2>3 DEF h
<1> HIDE DEF room
<1>5. LET w == ScrollLineBelow(t, u, bl, room, 1).view
      IN  Moved(t, u, w) /\ TopCached(w) /\ Grown(t, bl, u, w)
    BY <1>3, <1>4, ScrollBelowMoves
<1>6. LET w == ScrollLineBelow(t, u, bl, room, 1).view IN Moved(t, v, w)
    BY <1>2, <1>5, MovedOn
<1>8. LET w == ScrollLineBelow(t, u, bl, room, 1).view IN Grown(t, bl, v, w)
    BY <1>5, <1>7 DEF Grown
<1> QED BY <1>1, <1>5, <1>6, <1>8

(* The scrolling for the cursor takes lines from the text only.            *)
LEMMA ScrollForCursorMoves ==
    ASSUME NEW t \in Seq(Lines), NEW v, IsView(v), Locked(v), NEW bl \in Nat
    PROVE  LET x == ScrollForViewCursor(t, v, bl).view
           IN  Moved(t, v, x) /\ Grown(t, bl, v, x)
<1> DEFINE w == TargetBufferLine(t, v, bl)
           top == TopShowing(w, bl)
           beyond == w.top > LastBufferLine(w) + 1
           dead == w.dead \/ beyond
           up == [w EXCEPT !.top = bl, !.dead = dead]
           down == [w EXCEPT !.top = top]
<1>1. ScrollForViewCursor(t, v, bl).view \in {up, down, w}
    BY DEF ScrollForViewCursor, Scrolled
<1>2. Moved(t, v, w) /\ w.first <= bl /\ bl \in Cached(w)
    BY TargetMoves, TargetKeeps
<1>7. Grown(t, bl, v, w)
    BY TargetGrows
<1> HIDE DEF w
<1>3. IsView(w) /\ Locked(w) /\ w.dead \in BOOLEAN /\ w.first \in Nat
    BY <1>2 DEF Moved, IsView
<1>10. bl <= LastBufferLine(w) /\ LastBufferLine(w) \in Int /\ Len(t) \in Nat
    BY <1>2, <1>3, ViewFields, NewSections DEF Cached
<1>4. Moved(t, w, up) /\ Grown(t, bl, w, up)
    <2>1. dead \in BOOLEAN
        BY <1>3
    <2>2. Reaches(w) => dead = w.dead
        <3>1. w.top \in Nat /\ LastBufferLine(w) \in Int
            BY <1>3, ViewFields
        <3> QED BY <1>3, <3>1 DEF Reaches
    <2>3. w.dead => dead
        OBVIOUS
    <2>6. TopChanged(w, bl, dead, up)
        BY DEF TopChanged
    <2> HIDE DEF dead, up
    <2>4. /\ Moved(t, w, up) /\ up.top = bl /\ LastBufferLine(up) = LastBufferLine(w)
          /\ up.first = w.first /\ up.dead = dead /\ up.selected = w.selected
        BY <1>2, <1>3, <2>1, <2>6, TopMoves
    <2>5. Reaches(up)
        BY <1>10, <2>4 DEF Reaches
    <2> QED BY <2>2, <2>3, <2>4, <2>5 DEF Grown, Lives, Stays, Within
<1>5. Moved(t, w, down) /\ Grown(t, bl, w, down)
    <2>1. top \in w.first..bl
        BY <1>2, <1>3, TopShowingFits
    <2> HIDE DEF top
    <2>2. top \in Nat /\ w.first <= top /\ top <= bl
        BY <1>3, <2>1
    <2> DEFINE same == w.dead
    <2>5. TopChanged(w, top, same, down) /\ same \in BOOLEAN
        BY <1>3 DEF TopChanged, IsView, Fn, Fields
    <2> HIDE DEF down, same
    <2>3. /\ Moved(t, w, down) /\ down.top = top /\ LastBufferLine(down) = LastBufferLine(w)
          /\ down.first = w.first /\ down.dead = same /\ down.selected = w.selected
        BY <1>3, <2>2, <2>5, TopMoves
    <2>4. Reaches(down) /\ (bl < Len(t) => top < Len(t))
        BY <1>10, <2>2, <2>3 DEF Reaches
    <2> QED BY <2>3, <2>4 DEF Grown, Lives, Stays, Within, same
<1> HIDE DEF up, down
<1>8. Grown(t, bl, v, up) /\ Grown(t, bl, v, down)
    BY <1>4, <1>5, <1>7 DEF Grown
<1>6. Moved(t, v, up) /\ Moved(t, v, down)
    BY <1>2, <1>4, <1>5, MovedOn
<1> QED BY <1>1, <1>2, <1>6, <1>7, <1>8

(* The screen follows: the cache is squeezed and the terminal scrolls.     *)
LEMMA FollowMoves ==
    ASSUME NEW s, IsView(s.view), Locked(s.view)
    PROVE  /\ \A t : Moved(t, s.view, Follow(s))
           /\ Follow(s).top = s.view.top
           /\ TopCached(s.view) => TopCached(Follow(s))
           /\ StillShown(s.view, Follow(s))
           /\ \A t \in Seq(Lines) : Safely(t, s.view, Follow(s))
<1>1. CASE s.dy = 0
    BY <1>1, MovedNot DEF Follow, StillShown, Safely
<1>2. CASE s.dy # 0
    <2> DEFINE u == Squeeze(s.view)
               w == GuiScroll(u, s.dy)
    <2>1. Follow(s) = w
        BY <1>2 DEF Follow
    <2>2. /\ \A t : Moved(t, s.view, u)
          /\ u.top = s.view.top /\ (TopCached(s.view) => TopCached(u))
          /\ StillShown(s.view, u)
        BY SqueezeMoves
    <2>8. \A t \in Seq(Lines) : Safely(t, s.view, u)
        BY SqueezeKept
    <2> HIDE DEF u
    <2>3. IsView(u) /\ Locked(u)
        BY <2>2 DEF Moved
    <2>4. Painted(u, w)
        BY <2>3, GuiScrollKeeps
    <2> HIDE DEF w
    <2>5. w.top = u.top /\ (TopCached(u) => TopCached(w))
        BY <2>4, SameCacheSame DEF Painted, TopCached, SameCache
    <2>6. ASSUME NEW t PROVE Moved(t, s.view, w)
        <3>1. Moved(t, u, w)
            BY <2>3, <2>4, PaintedMoves
        <3> QED BY <2>2, <3>1, MovedOn
    <2>7. StillShown(u, w)
        BY <2>3, <2>4, PaintedShows DEF Painted
    <2>9. ASSUME NEW t \in Seq(Lines) PROVE Safely(t, s.view, w)
        <3>1. Safely(t, u, w)
            BY <2>4, CacheGrown DEF Painted
        <3> QED BY <2>8, <3>1 DEF Safely
    <2> QED BY <2>1, <2>2, <2>5, <2>6, <2>7, <2>9 DEF StillShown
<1> QED BY <1>1, <1>2

-----------------------------------------------------------------------------
(* The selection.                                                          *)
(* Whatever is marked is in the interval the view remembers.               *)
MarkedIn(v) == Marks(v) \subseteq v.selected[1]..v.selected[2]

(* What changes when the cursor's selection does.                          *)
Chosen(t, v, w) ==
    /\ IsView(w) /\ Balanced(v, w) /\ Wrong(t, w) \subseteq Wrong(t, v)
    /\ w.top = v.top /\ w.height = v.height /\ w.cursor = v.cursor /\ w.start = v.start
    /\ w.first <= v.first /\ LastBufferLine(v) <= LastBufferLine(w) /\ StillShown(v, w)

Remarked(v, w, interval, marked) ==
    Marks(w) = (Marks(v) \ interval[1]..interval[2])
               \cup (IF marked THEN Cached(w) \cap interval[1]..interval[2] ELSE {})

(* The cache still goes on from the top of the screen.                     *)
LEMMA ChosenReaches ==
    ASSUME NEW t, NEW v, IsView(v), NEW w, Chosen(t, v, w), Reaches(v)
    PROVE  Reaches(w)
<1>1. /\ v.top \in Nat /\ LastBufferLine(v) \in Int /\ LastBufferLine(w) \in Int
      /\ w.top = v.top /\ LastBufferLine(v) <= LastBufferLine(w)
    BY ViewFields DEF Chosen
<1> QED BY <1>1 DEF Reaches

(* setSelection() of the lines of an interval, marked or not.              *)
LEMMA MarkLinesKeeps ==
    ASSUME NEW t \in Seq(Lines), NEW v, IsView(v), NEW interval \in Nat \X Int,
           NEW marked \in BOOLEAN
    PROVE  LET w == MarkLines(t, v, interval, marked)
           IN  /\ Chosen(t, v, w) /\ w.selected = v.selected /\ w.first <= interval[1]
               /\ Remarked(v, w, interval, marked)
               /\ Grown(t, interval[1], v, w)
<1> DEFINE from == interval[1]
           lines == from..interval[2]
           u == TargetBufferLine(t, v, from)
           content == [i \in DOMAIN u.content |->
                         IF u.first + i - 1 \in lines
                         THEN [u.content[i] EXCEPT !.marked = marked] ELSE u.content[i]]
           x == [u EXCEPT !.content = content]
           w == MarkLines(t, v, interval, marked)
<1>1. from \in Nat
    OBVIOUS
<1>2. /\ IsView(u) /\ SameScreen(v, u)
      /\ u.first = Least(v.first, from)
      /\ LastBufferLine(u) = Greatest(LastBufferLine(v), from)
      /\ \A b \in Cached(u) : Section(u, b) = IF b \in Cached(v) THEN Section(v, b)
                                              ELSE SectionOf(t, b)
    BY <1>1, TargetSections
<1>3. Wrong(t, u) \subseteq Wrong(t, v)
    BY <1>1, TargetKeeps
<1>4. PICK rows : w = SendPaintEvent(x, rows)
    BY DEF MarkLines
<1> HIDE DEF u, lines
<1>5. /\ u.first \in Nat /\ Len(u.content) \in Nat /\ DOMAIN u.content = 1..Len(u.content)
      /\ Cached(u) \subseteq Nat
      /\ \A b \in Cached(u) : Section(u, b) \in Sections /\ b - u.first + 1 \in 1..Len(u.content)
    BY <1>2, ViewFields
<1>6. \A i \in 1..Len(u.content) : u.content[i] \in Sections
    BY <1>2, ElementOfSeq DEF IsView
<1>7. content \in Seq(Sections) /\ Len(content) = Len(u.content)
    <2>1. \A i \in 1..Len(u.content) : content[i] \in Sections
        BY <1>5, <1>6 DEF Sections
    <2>2. DOMAIN content = 1..Len(u.content)
        BY <1>5
    <2>3. content = [i \in 1..Len(u.content) |-> content[i]]
        BY <1>5
    <2> DEFINE n == Len(u.content)
    <2> HIDE DEF content, n
    <2>4. content \in [1..n -> Sections] /\ n \in Nat
        BY <1>5, <2>1, <2>3 DEF n
    <2>5. content \in Seq(Sections) /\ Len(content) = n
        BY <2>4, SeqDef
    <2> QED BY <2>5 DEF n
<1>8. \A i \in 1..Len(u.content) :
          content[i] = IF u.first + i - 1 \in lines
                       THEN [u.content[i] EXCEPT !.marked = marked] ELSE u.content[i]
    BY <1>5
<1> HIDE DEF content
<1>9. /\ IsView(x) /\ SameScreen(u, x) /\ x.first = u.first /\ x.content = content
      /\ x.dead = u.dead
    BY <1>2, <1>7 DEF IsView, Fn, Fields, SameScreen, Alike, Balanced, PendingIn
<1> HIDE DEF x
<1>10. LastBufferLine(x) = LastBufferLine(u) /\ Cached(x) = Cached(u)
    BY <1>7, <1>9 DEF LastBufferLine, Cached
<1>11. \A b \in Cached(u) : Section(x, b) = IF b \in lines THEN [Section(u, b) EXCEPT !.marked = marked]
                                            ELSE Section(u, b)
    <2> TAKE b \in Cached(u)
    <2> DEFINE i == b - u.first + 1
    <2>1. i \in 1..Len(u.content) /\ u.first + i - 1 = b
        BY <1>5
    <2>2. Section(x, b) = content[i] /\ Section(u, b) = u.content[i]
        BY <1>9 DEF Section
    <2> HIDE DEF i
    <2> QED BY <1>8, <2>1, <2>2
<1>12. \A b \in Cached(u) : /\ Section(x, b).line = Section(u, b).line
                            /\ Section(x, b).marked = IF b \in lines THEN marked
                                                      ELSE Section(u, b).marked
    BY <1>5, <1>11 DEF Sections
<1>13. Wrong(t, x) = Wrong(t, u)
    BY <1>10, <1>12 DEF Wrong
<1>14. Cached(v) \subseteq Cached(u)
    <2>1. v.first \in Nat /\ LastBufferLine(v) \in Int
        BY ViewFields
    <2> QED BY <1>1, <1>2, <2>1 DEF Cached, Least, Greatest
<1>15. Marks(u) = Marks(v)
    <2>1. \A b \in Cached(u) : Section(u, b).marked <=> b \in Cached(v) /\ Section(v, b).marked
        <3> TAKE b \in Cached(u)
        <3>1. ~SectionOf(t, b).marked
            BY <1>5, NewSections
        <3> QED BY <1>2, <3>1
    <2> QED BY <1>14, <2>1 DEF Marks
<1>16. Marks(x) = (Marks(u) \ lines) \cup (IF marked THEN Cached(u) \cap lines ELSE {})
    BY <1>10, <1>12 DEF Marks
<1>17. Painted(x, w)
    BY <1>4, <1>9, SendKeeps
<1> HIDE DEF w
<1>18. /\ SameCache(x, w) /\ LastBufferLine(w) = LastBufferLine(x) /\ Cached(w) = Cached(x)
       /\ Marks(w) = Marks(x) /\ Wrong(t, w) = Wrong(t, x)
    BY <1>17, SameCacheSame DEF Painted
<1>19. u.first <= v.first /\ u.first <= from /\ LastBufferLine(v) <= LastBufferLine(u)
    <2>1. v.first \in Nat /\ LastBufferLine(v) \in Int
        BY ViewFields
    <2> QED BY <1>1, <1>2, <2>1 DEF Least, Greatest
<1>20. w.selected = v.selected /\ w.first = u.first /\ LastBufferLine(w) = LastBufferLine(u)
    BY <1>2, <1>9, <1>10, <1>18 DEF SameScreen, Alike, SameCache
<1>21. Balanced(v, w)
    BY <1>2, <1>9, <1>17 DEF SameScreen, Alike, Balanced, Painted
<1>22. w.top = v.top /\ w.height = v.height /\ w.cursor = v.cursor /\ w.start = v.start
    BY <1>2, <1>9, <1>18 DEF SameScreen, Alike, SameCache
<1>25. StillShown(v, w)
    <2>1. ASSUME CursorShown(v)
          PROVE  /\ v.cursor <= LastBufferLine(x)
                 /\ \A b \in v.top..v.cursor - 1 : Section(x, b).line = Section(v, b).line
        <3>1. /\ v.cursor \in Nat /\ v.cursor <= LastBufferLine(v) /\ LastBufferLine(v) \in Int
              /\ LastBufferLine(x) \in Int /\ LastBufferLine(v) <= LastBufferLine(x)
              /\ v.first \in Nat /\ v.top \in Nat /\ v.first <= v.top
            <4>1. v.cursor \in Nat /\ v.cursor \in Int /\ v.cursor <= ScreenBottomBufferLine(v)
                BY <2>1 DEF CursorShown, IsView
            <4>2. v.cursor <= LastBufferLine(v)
                BY <4>1, RowOnScreen
            <4>3. /\ LastBufferLine(v) \in Int /\ v.first \in Nat /\ v.top \in Nat /\ v.first <= v.top
                  /\ LastBufferLine(x) \in Int
                BY <1>9, ViewFields
            <4> QED BY <1>10, <1>19, <4>1, <4>2, <4>3
        <3>2. v.top..v.cursor - 1 \subseteq Cached(v)
            BY <3>1 DEF Cached
        <3> QED BY <1>2, <1>12, <1>14, <3>1, <3>2
    <2>2. x.top = v.top /\ x.height = v.height /\ x.cursor = v.cursor
        BY <1>2, <1>9 DEF SameScreen, Alike
    <2>3. StillShown(v, x)
        BY <1>9, <2>1, <2>2, ShownStays
    <2>4. StillShown(x, w)
        BY <1>9, <1>17, PaintedShows DEF Painted
    <2> QED BY <2>3, <2>4 DEF StillShown
<1>23. Chosen(t, v, w)
    BY <1>3, <1>13, <1>17, <1>18, <1>19, <1>20, <1>21, <1>22, <1>25 DEF Chosen, Painted
<1>24. Marks(w) = (Marks(v) \ lines) \cup (IF marked THEN Cached(w) \cap lines ELSE {})
    BY <1>10, <1>15, <1>16, <1>18
<1>26. SameLines(u, w) /\ w.selected = u.selected
    BY <1>9, <1>10, <1>18 DEF SameLines, SameScreen, SameCache, Alike
<1>27. Safely(t, u, w)
    BY <1>26, SameGrown
<1>28. Grown(t, from, v, u)
    BY <1>1, TargetGrows DEF u
<1>29. Grown(t, from, v, w)
    BY <1>27, <1>28 DEF Grown, Safely
<1> QED BY <1>19, <1>20, <1>23, <1>24, <1>29 DEF lines, w, Remarked

(* Relations of the views in between.                                      *)
LEMMA ChosenOn ==
    ASSUME NEW t, NEW u, NEW v, NEW w, IsView(u), Chosen(t, u, v), Chosen(t, v, w)
    PROVE  Chosen(t, u, w)
<1>1. /\ u.first \in Int /\ v.first \in Int /\ w.first \in Int
      /\ LastBufferLine(u) \in Int /\ LastBufferLine(v) \in Int /\ LastBufferLine(w) \in Int
    BY ViewFields DEF Chosen
<1>2. w.first <= u.first /\ LastBufferLine(u) <= LastBufferLine(w)
    BY <1>1 DEF Chosen
<1> QED BY <1>2 DEF Chosen, Balanced, StillShown

(* YView::setSelection(): the old interval is unmarked, the new one marked.*)
LEMMA SelectionKeeps ==
    ASSUME NEW t \in Seq(Lines), NEW v, IsView(v), MarkedIn(v), NEW interval \in Nat \X Int
    PROVE  LET w == SetSelection(t, v, interval)
           IN  /\ Chosen(t, v, w) /\ MarkedIn(w) /\ Grown(t, interval[1], v, w)
               /\ interval = NoInterval => Marks(w) = {}
               /\ interval # NoInterval => /\ Marks(w) = Cached(w) \cap interval[1]..interval[2]
                                           /\ w.first <= interval[1]
<1> DEFINE s == SetPaintAutoCommitOff(v)
           d == IF v.selected = NoInterval THEN s ELSE MarkLines(t, s, v.selected, FALSE)
           e == [d EXCEPT !.selected = interval]
           m == MarkLines(t, e, interval, TRUE)
           w == SetSelection(t, v, interval)
<1>1. w = IF interval = NoInterval THEN CommitPaintEvent(d) ELSE CommitPaintEvent(m)
    BY DEF SetSelection
<1>2. IsView(s) /\ SameCache(v, s) /\ s.level = v.level + 1 /\ s.pending = v.pending
    BY OffKeeps
<1> HIDE DEF s
<1>11. Safely(t, v, s)
    BY <1>2, CacheGrown
<1>3. LastBufferLine(s) = LastBufferLine(v) /\ Marks(s) = Marks(v) /\ Wrong(t, s) = Wrong(t, v)
    BY <1>2, SameCacheSame
<1> DEFINE After(x) == /\ IsView(x) /\ x.level = v.level + 1 /\ (PendingIn(v) => PendingIn(x))
                       /\ Wrong(t, x) \subseteq Wrong(t, v)
                       /\ x.top = v.top /\ x.height = v.height /\ x.cursor = v.cursor
                       /\ x.start = v.start
                       /\ x.first <= v.first /\ LastBufferLine(v) <= LastBufferLine(x)
                       /\ StillShown(v, x)
<1>4. After(s)
    <2>1. v.first \in Int /\ LastBufferLine(v) \in Int
        BY ViewFields
    <2>2. v.first <= v.first /\ LastBufferLine(v) <= LastBufferLine(v)
        BY <2>1
    <2>3. v.level \in Nat
        BY DEF IsView
    <2>4. PendingIn(v) => PendingIn(s)
        BY <1>2, <2>3 DEF SameCache, PendingIn
    <2>5. StillShown(v, s)
        BY <1>2, PaintedShows
    <2> QED BY <1>2, <1>3, <2>2, <2>4, <2>5 DEF SameCache
<1>5. ASSUME NEW x, NEW y, After(x), Chosen(t, x, y) PROVE After(y)
    <2>1. v.first \in Int /\ LastBufferLine(v) \in Int /\ x.first \in Int /\ y.first \in Int
          /\ LastBufferLine(x) \in Int /\ LastBufferLine(y) \in Int
        BY <1>5, ViewFields DEF Chosen
    <2>2. y.first <= v.first /\ LastBufferLine(v) <= LastBufferLine(y)
        BY <1>5, <2>1 DEF Chosen
    <2> QED BY <1>5, <2>2 DEF Chosen, Balanced, StillShown
<1>6. v.selected \in Nat \X Int
    BY DEF IsView
<1>7. After(d) /\ Marks(d) = {} /\ d.selected = v.selected /\ Safely(t, v, d)
    <2>1. CASE v.selected = NoInterval
        <3>1. v.selected[1]..v.selected[2] = {}
            BY <2>1 DEF NoInterval
        <3>2. Marks(v) = {}
            BY <3>1 DEF MarkedIn
        <3>3. d = s
            BY <2>1
        <3> HIDE DEF d, After
        <3> QED BY <1>2, <1>3, <1>4, <1>11, <3>2, <3>3 DEF SameCache
    <2>2. CASE v.selected # NoInterval
        <3>1. d = MarkLines(t, s, v.selected, FALSE)
            BY <2>2
        <3> HIDE DEF d
        <3>2. /\ Chosen(t, s, d) /\ d.selected = s.selected /\ Remarked(s, d, v.selected, FALSE)
              /\ Grown(t, v.selected[1], s, d)
            BY <1>2, <1>6, <3>1, MarkLinesKeeps
        <3>3. After(d)
            BY <1>4, <1>5, <3>2
        <3>4. Marks(d) = {}
            BY <1>3, <3>2 DEF MarkedIn, Remarked
        <3>5. Safely(t, v, d)
            BY <1>11, <3>2 DEF Grown, Safely, Lives
        <3> QED BY <1>2, <3>2, <3>3, <3>4, <3>5 DEF SameCache
    <2> QED BY <2>1, <2>2
<1> HIDE DEF d
<1>8. ASSUME NEW x, After(x)
      PROVE  Chosen(t, v, CommitPaintEvent(x)) /\ SameCache(x, CommitPaintEvent(x))
             /\ Marks(CommitPaintEvent(x)) = Marks(x) /\ Cached(CommitPaintEvent(x)) = Cached(x)
    <2> DEFINE y == CommitPaintEvent(x)
    <2>1. /\ IsView(y) /\ SameCache(x, y)
          /\ y.level = (IF x.level <= 1 THEN 0 ELSE x.level - 1)
          /\ PendingIn(x) => PendingIn(y)
        BY <1>8, CommitKeeps
    <2> HIDE DEF y
    <2>2. LastBufferLine(y) = LastBufferLine(x) /\ Marks(y) = Marks(x) /\ Wrong(t, y) = Wrong(t, x)
          /\ Cached(y) = Cached(x)
        BY <2>1, SameCacheSame
    <2>3. y.level = v.level
        <3>1. v.level \in Nat /\ x.level = v.level + 1
            BY <1>8 DEF IsView
        <3> QED BY <2>1, <3>1
    <2>5. StillShown(x, y)
        BY <1>8, <2>1, PaintedShows
    <2>4. Chosen(t, v, y)
        BY <1>8, <2>1, <2>2, <2>3, <2>5 DEF Chosen, Balanced, SameCache, StillShown
    <2> QED BY <2>1, <2>2, <2>4 DEF y
<1>9. CASE interval = NoInterval
    <2>1. w = CommitPaintEvent(d)
        BY <1>1, <1>9
    <2>2. Chosen(t, v, w) /\ Marks(w) = {} /\ SameCache(d, w)
        BY <1>7, <1>8, <2>1
    <2> HIDE DEF w
    <2>3. Safely(t, d, w)
        BY <2>2, CacheGrown
    <2>4. Grown(t, interval[1], v, w)
        BY <1>7, <2>3 DEF Grown, Safely
    <2> QED BY <1>9, <2>2, <2>4 DEF MarkedIn, w
<1>10. CASE interval # NoInterval
    <2>1. w = CommitPaintEvent(m)
        BY <1>1, <1>10
    <2> HIDE DEF w
    <2>2. /\ After(e) /\ IsView(e) /\ e.selected = interval /\ Marks(e) = {}
          /\ SameLines(d, e)
        <3>0. IsView(d)
            BY <1>7
        <3>1. /\ IsView(e) /\ e.selected = interval /\ e.first = d.first /\ e.content = d.content
              /\ e.level = d.level /\ e.pending = d.pending /\ e.top = d.top /\ e.height = d.height
              /\ e.cursor = d.cursor /\ e.start = d.start
              /\ e.dead = d.dead
            BY <3>0 DEF IsView, Fn, Fields
        <3> HIDE DEF e
        <3>2. LastBufferLine(e) = LastBufferLine(d) /\ \A b : Section(e, b) = Section(d, b)
            BY <3>1 DEF LastBufferLine, Section
        <3>3. Cached(e) = Cached(d)
            BY <3>1, <3>2 DEF Cached
        <3>4. Marks(e) = Marks(d) /\ Wrong(t, e) = Wrong(t, d)
            BY <3>2, <3>3 DEF Marks, Wrong
        <3>5. ASSUME CursorShown(d) PROVE d.cursor <= LastBufferLine(e)
            <4>1. d.cursor \in Int /\ d.cursor <= ScreenBottomBufferLine(d)
                BY <3>0, <3>5 DEF CursorShown, IsView
            <4> QED BY <3>0, <3>2, <4>1, RowOnScreen
        <3>6. StillShown(d, e)
            BY <3>0, <3>1, <3>2, <3>5, ShownStays
        <3>7. SameLines(d, e)
            BY <3>1, <3>2 DEF SameLines
        <3> QED BY <1>7, <3>1, <3>2, <3>4, <3>6, <3>7 DEF PendingIn, StillShown
    <2> HIDE DEF e, After
    <2>3. /\ Chosen(t, e, m) /\ m.selected = e.selected /\ m.first <= interval[1]
          /\ Remarked(e, m, interval, TRUE) /\ Grown(t, interval[1], e, m)
        BY <2>2, MarkLinesKeeps
    <2> HIDE DEF m
    <2>4. After(m)
        BY <1>5, <2>2, <2>3
    <2>5. Chosen(t, v, w) /\ SameCache(m, w) /\ Marks(w) = Marks(m) /\ Cached(w) = Cached(m)
        BY <1>8, <2>1, <2>4
    <2>6. Marks(w) = Cached(w) \cap interval[1]..interval[2]
        BY <2>2, <2>3, <2>5 DEF Remarked
    <2>7. w.selected = interval /\ w.first <= interval[1]
        BY <2>2, <2>3, <2>5 DEF SameCache
    <2>8. Grown(t, interval[1], d, e)
        BY <2>2 DEF Grown, Lives, Stays, Within, Reaches, SameLines
    <2>9. Safely(t, m, w)
        BY <2>5, CacheGrown
    <2>10. Grown(t, interval[1], v, w)
        BY <1>7, <2>3, <2>8, <2>9 DEF Grown, Safely
    <2> QED BY <1>10, <2>5, <2>6, <2>7, <2>10 DEF MarkedIn, w
<1> QED BY <1>9, <1>10

(* The selection between commands, and while one runs: marks are left of   *)
(* an older one.                                                           *)
Selected(v) == Least(v.start, v.cursor)..Greatest(v.start, v.cursor)
Settled(v) ==
    /\ IsView(v) /\ Locked(v) /\ MarkedIn(v)
    /\ Marks(v) = IF v.start = NoLine THEN {} ELSE Cached(v) \cap Selected(v)
Moving(v) ==
    /\ IsView(v) /\ Locked(v) /\ MarkedIn(v)
    /\ v.start = NoLine => Marks(v) = {}

(* A settled view is one that commands start from.                         *)
LEMMA SettledMoves ==
    ASSUME NEW v, Settled(v)
    PROVE  Moving(v)
BY DEF Settled, Moving

(* YModeVisual::cursorMoved().                                             *)
LEMMA CursorMovedSettles ==
    ASSUME NEW t \in Seq(Lines), NEW v, IsView(v), MarkedIn(v), v.start = NoLine => Marks(v) = {}
    PROVE  LET w == CursorMoved(t, v)
           IN  Settled(w) /\ Chosen(t, v, w) /\ Grown(t, v.cursor, v, w)
<1> DEFINE w == CursorMoved(t, v)
<1>1. CASE v.start = NoLine
    <2>1. w = v
        BY <1>1 DEF CursorMoved
    <2>2. v.first \in Int /\ LastBufferLine(v) \in Int
        BY ViewFields
    <2>3. Chosen(t, v, v)
        BY <2>2 DEF Chosen, Balanced, StillShown
    <2> QED BY <1>1, <2>1, <2>3 DEF Settled, Locked, Grown
<1>2. CASE v.start # NoLine
    <2> DEFINE a == Least(v.start, v.cursor)
               b == Greatest(v.start, v.cursor)
    <2>1. w = SetSelection(t, v, << a, b >>)
        BY <1>2 DEF CursorMoved
    <2>2. v.start \in Nat /\ v.cursor \in Nat
        BY <1>2 DEF IsView
    <2>3. a \in Nat /\ b \in Nat /\ a <= v.start /\ a <= v.cursor
        BY <2>2 DEF Least, Greatest
    <2>9. a..b = Selected(v)
        BY DEF Selected
    <2> HIDE DEF a, b, w
    <2>4. << a, b >> \in Nat \X Int /\ << a, b >> # NoInterval
        BY <2>3 DEF NoInterval
    <2>5. /\ Chosen(t, v, w) /\ MarkedIn(w) /\ Marks(w) = Cached(w) \cap a..b
          /\ w.first <= a /\ Grown(t, a, v, w)
        BY <2>1, <2>4, SelectionKeeps
    <2>6. w.start = v.start /\ Selected(w) = Selected(v) /\ IsView(w) /\ w.first \in Nat
        BY <2>5 DEF Chosen, Selected, IsView
    <2>7. Locked(w)
        <3>1. w.first <= v.start
            BY <2>2, <2>3, <2>5, <2>6
        <3> QED BY <2>6, <3>1 DEF Locked
    <2>8. Settled(w)
        BY <1>2, <2>5, <2>6, <2>7, <2>9 DEF Settled
    <2>10. Grown(t, v.cursor, v, w)
        <3>1. Len(t) \in Nat
            BY NewSections
        <3>2. v.cursor < Len(t) => a < Len(t)
            BY <2>2, <2>3, <3>1
        <3> QED BY <2>5, <3>2 DEF Grown
    <2> QED BY <2>5, <2>8, <2>10 DEF w
<1> QED BY <1>1, <1>2

(* Leaving the visual modes: nothing is marked any more.                   *)
LEMMA LeaveSettles ==
    ASSUME NEW t \in Seq(Lines), NEW v, IsView(v), MarkedIn(v)
    PROVE  LET w == LeaveVisual(t, v)
           IN  /\ Settled(w) /\ Balanced(v, w) /\ Wrong(t, w) \subseteq Wrong(t, v)
               /\ w.start = NoLine /\ StillShown(v, w)
               /\ Safely(t, v, w) /\ (Reaches(v) => Reaches(w))
<1> DEFINE u == SetSelection(t, v, NoInterval)
           w == [u EXCEPT !.start = NoLine]
<1>1. LeaveVisual(t, v) = w
    BY DEF LeaveVisual
<1>2. NoInterval \in Nat \X Int
    BY DEF NoInterval
<1>3. Chosen(t, v, u) /\ MarkedIn(u) /\ Marks(u) = {} /\ Grown(t, NoInterval[1], v, u)
    BY <1>2, SelectionKeeps
<1>11. Safely(t, v, u)
    <2>1. v.top \in Nat /\ Len(t) \in Nat
        BY ViewFields, NewSections
    <2>2. Lives(t, v) => NoInterval[1] < Len(t)
        BY <2>1 DEF Lives, NoInterval
    <2> QED BY <1>3, <2>2 DEF Grown, Safely
<1>14. Reaches(v) => Reaches(u)
    BY ChosenReaches, <1>3
<1> HIDE DEF u
<1>4. /\ IsView(w) /\ w.start = NoLine /\ w.first = u.first /\ w.content = u.content
      /\ w.selected = u.selected /\ w.level = u.level /\ w.pending = u.pending /\ w.height = u.height
      /\ w.top = u.top /\ w.cursor = u.cursor /\ w.dead = u.dead
    BY <1>3 DEF Chosen, IsView, Fn, Fields
<1> HIDE DEF w
<1>5. LastBufferLine(w) = LastBufferLine(u) /\ \A b : Section(w, b) = Section(u, b)
    BY <1>4 DEF LastBufferLine, Section
<1>6. Cached(w) = Cached(u)
    BY <1>4, <1>5 DEF Cached
<1>7. Marks(w) = {} /\ Wrong(t, w) = Wrong(t, u)
    BY <1>3, <1>5, <1>6 DEF Marks, Wrong
<1>8. Settled(w)
    BY <1>4, <1>7 DEF Settled, Locked, MarkedIn
<1>9. Balanced(v, w)
    BY <1>3, <1>4 DEF Chosen, Balanced, PendingIn
<1>10. StillShown(u, w)
    <2>1. ASSUME CursorShown(u) PROVE u.cursor <= LastBufferLine(w)
        <3>1. IsView(u) /\ u.cursor \in Int /\ u.cursor <= ScreenBottomBufferLine(u)
            BY <1>3, <2>1 DEF CursorShown, Chosen, IsView
        <3> QED BY <1>5, <3>1, RowOnScreen
    <2> QED BY <1>3, <1>4, <1>5, <2>1, ShownStays DEF Chosen
<1>12. Safely(t, u, w)
    BY <1>4, <1>5, SameGrown DEF SameLines
<1>13. Safely(t, v, w) /\ (Reaches(v) => Reaches(w))
    BY <1>4, <1>5, <1>11, <1>12, <1>14 DEF Safely, Reaches
<1> QED BY <1>1, <1>3, <1>4, <1>7, <1>8, <1>9, <1>10, <1>13 DEF Chosen, StillShown

-----------------------------------------------------------------------------
(* Updating lines.                                                         *)
(* w is v with line bl as it is in the text.                               *)
Renewed(t, v, w, bl) ==
    /\ IsView(w) /\ SameScreen(v, w) /\ w.first = v.first /\ w.dead = v.dead
    /\ LastBufferLine(w) = Greatest(LastBufferLine(v), bl)
    /\ \A x \in Cached(w) : /\ x = bl => Section(w, x) = SectionOf(t, bl)
                            /\ x # bl => x \in Cached(v) /\ Section(w, x) = Section(v, x)

(* The lines after it are updated too, unless it is below the screen.      *)
Continues(w, bl) == bl < w.top \/ RowsBetween(w, w.top, bl) < w.height

(* YDrawBuffer::setBufferDrawSection().                                    *)
LEMMA SectionIsRenewed ==
    ASSUME NEW t \in Seq(Lines), NEW v, IsView(v),
           NEW bl \in Nat, v.first <= bl, bl <= LastBufferLine(v) + 1
    PROVE  LET set == SetBufferDrawSection(t, v, bl)
           IN  /\ Renewed(t, v, set.view, bl)
               /\ set.affected # {} <=> (bl >= set.view.top /\ Continues(set.view, bl))
<1> DEFINE set == SetBufferDrawSection(t, v, bl)
           at == bl - v.first + 1
           new == SectionOf(t, bl)
           content == IF at > Len(v.content) THEN Append(v.content, new)
                      ELSE [v.content EXCEPT ![at] = new]
           w == [v EXCEPT !.content = content]
           n == Len(v.content)
           c == Count(new)
           delta == IF at > n THEN 0 ELSE c - Count(v.content[at])
           row == RowsBetween(w, w.top, bl)
           affected == IF bl < v.top \/ row >= v.height THEN {}
                       ELSE IF delta # 0 THEN row..v.height - 1 ELSE row..row + c - 1
<1>1. set.view = w /\ set.affected = affected
    BY DEF SetBufferDrawSection, BufferDrawSectionScreenLine
<1>2. /\ n \in Nat /\ v.first \in Nat /\ LastBufferLine(v) = v.first + n - 1 /\ DOMAIN v.content = 1..n
      /\ v.content \in Seq(Sections) /\ v.height \in Heights /\ v.height \in Nat /\ v.top \in Nat
    BY ViewFields DEF IsView
<1>3. at \in 1..n + 1
    BY <1>2
<1>4. new \in Sections
    BY NewSections
<1> HIDE DEF new, at, n
<1>5. /\ content \in Seq(Sections)
      /\ Len(content) = IF at = n + 1 THEN n + 1 ELSE n
      /\ content[at] = new /\ \A i \in 1..n : i # at => content[i] = v.content[i]
    <2>1. CASE at > n
        <3>1. content = Append(v.content, new) /\ at = n + 1
            BY <1>2, <1>3, <2>1 DEF n
        <3> HIDE DEF content
        <3>2. content \in Seq(Sections) /\ Len(content) = n + 1 /\ content[n + 1] = new
              /\ \A i \in 1..n : content[i] = v.content[i]
            BY <1>2, <1>4, <3>1, AppendProperties DEF n
        <3> QED BY <3>1, <3>2
    <2>2. CASE ~(at > n)
        <3>1. content = [v.content EXCEPT ![at] = new] /\ at \in 1..n /\ at # n + 1
            BY <1>2, <1>3, <2>2 DEF n
        <3> HIDE DEF content
        <3>2. content \in Seq(Sections) /\ Len(content) = Len(v.content)
            BY <1>2, <1>4, <3>1, ExceptSeq
        <3>3. content[at] = new /\ \A i \in 1..n : i # at => content[i] = v.content[i]
            BY <1>2, <3>1
        <3> QED BY <3>1, <3>2, <3>3 DEF n
    <2> QED BY <2>1, <2>2
<1> HIDE DEF content
<1>6. /\ IsView(w) /\ SameScreen(v, w) /\ w.first = v.first /\ w.content = content
      /\ w.top = v.top /\ w.height = v.height /\ w.dead = v.dead
    BY <1>5 DEF IsView, Fn, Fields, SameScreen, Alike, Balanced, PendingIn
<1> HIDE DEF w
<1>7. LastBufferLine(w) = v.first + Len(content) - 1
    BY <1>6 DEF LastBufferLine
<1>8. LastBufferLine(w) = Greatest(LastBufferLine(v), bl)
    <2> DEFINE first == v.first  last == LastBufferLine(v)  end == LastBufferLine(w)
               m == Len(content)
    <2>1. at = bl - first + 1
        BY DEF at
    <2>2. n \in Nat /\ first \in Nat /\ last = first + n - 1
        BY <1>2
    <2>3. at \in 1..n + 1 /\ m = (IF at = n + 1 THEN n + 1 ELSE n) /\ end = first + m - 1
        BY <1>3, <1>5, <1>7
    <2> HIDE DEF first, last, end, m
    <2>4. end = Greatest(last, bl)
        BY <2>1, <2>2, <2>3 DEF Greatest
    <2> QED BY <2>4 DEF end, last
<1>9. ASSUME NEW x \in Cached(w)
      PROVE  /\ x = bl => Section(w, x) = new
             /\ x # bl => x \in Cached(v) /\ Section(w, x) = Section(v, x)
    <2> DEFINE i == x - v.first + 1
    <2>1. x \in v.first..v.first + Len(content) - 1 /\ x \in Int
        BY <1>6, <1>7 DEF Cached
    <2>2. i \in 1..Len(content) /\ (x = bl <=> i = at)
        <3> DEFINE m == Len(content)  first == v.first
        <3>1. m \in Nat /\ first \in Nat /\ x \in first..first + m - 1 /\ at = bl - first + 1
            BY <1>2, <1>5, <2>1 DEF at
        <3> HIDE DEF m, first
        <3>2. x - first + 1 \in 1..m /\ (x = bl <=> x - first + 1 = at)
            BY <3>1
        <3> QED BY <3>2 DEF m, first
    <2>3. Section(w, x) = content[i] /\ Section(v, x) = v.content[i]
        BY <1>6 DEF Section
    <2>4. x # bl => i \in 1..n /\ x \in Cached(v)
        <3> SUFFICES ASSUME x # bl PROVE i \in 1..n /\ x \in Cached(v)
            OBVIOUS
        <3>1. i \in 1..n
            BY <1>2, <1>3, <1>5, <2>2
        <3>2. x \in v.first..LastBufferLine(v)
            BY <1>2, <2>1, <3>1
        <3> QED BY <3>1, <3>2 DEF Cached
    <2> HIDE DEF i
    <2> QED BY <1>5, <2>2, <2>3, <2>4
<1>10. Renewed(t, v, w, bl)
    BY <1>6, <1>8, <1>9 DEF Renewed, new
<1>11. row \in Nat
    <2>1. w.top \in Int /\ w.first <= w.top /\ bl \in Int
        BY <1>6, ViewFields
    <2>2. \A b \in Int : RowsBetween(w, w.top, b) \in Nat
        BY <1>6, <2>1, RowFacts
    <2> QED BY <2>1, <2>2
<1>12. c \in Nat /\ 1 <= c
    BY <1>2, <1>4, CountProperties
<1>13. affected # {} <=> (bl >= w.top /\ Continues(w, bl))
    <2>1. Continues(w, bl) <=> bl < v.top \/ row < v.height
        BY <1>6 DEF Continues
    <2> DEFINE h == v.height
    <2>2. h \in Nat /\ v.top \in Nat
        BY <1>2
    <2> HIDE DEF row, c, delta, h
    <2>3. row < h => row \in row..h - 1 /\ row \in row..row + c - 1
        BY <1>11, <1>12, <2>2
    <2>4. affected = IF bl < v.top \/ row >= h THEN {}
                     ELSE IF delta # 0 THEN row..h - 1 ELSE row..row + c - 1
        BY DEF h
    <2>5. Continues(w, bl) <=> bl < v.top \/ row < h
        BY <2>1 DEF h
    <2> HIDE DEF affected
    <2> QED BY <1>6, <1>11, <2>2, <2>3, <2>4, <2>5
<1> QED BY <1>1, <1>10, <1>13

(* YDrawBuffer::setBufferDrawSection() and what it paints.                 *)
LEMMA LineIsRenewed ==
    ASSUME NEW t \in Seq(Lines), NEW v, IsView(v),
           NEW bl \in Nat, v.first <= bl, bl <= LastBufferLine(v) + 1
    PROVE  LET set == SetBufferLineContent(t, v, bl)
           IN  /\ Renewed(t, v, set.view, bl) /\ set.more \in BOOLEAN
               /\ set.more <=> Continues(set.view, bl)
<1> DEFINE one == SetBufferDrawSection(t, v, bl)
           u == one.view
           affected == one.affected
           w == IF affected = {} THEN u ELSE SendPaintEvent(u, affected)
           set == SetBufferLineContent(t, v, bl)
<1>1. set.view = w /\ set.more = (bl < v.top \/ affected # {})
    BY DEF SetBufferLineContent
<1>2. Renewed(t, v, u, bl) /\ (affected # {} <=> (bl >= u.top /\ Continues(u, bl)))
    BY SectionIsRenewed
<1> HIDE DEF u, affected
<1>3. IsView(u) /\ u.top = v.top
    BY <1>2 DEF Renewed, SameScreen
<1>4. Painted(u, w)
    <2>1. Painted(u, u)
        BY <1>3 DEF Painted, SameCache, Balanced
    <2> QED BY <1>3, <2>1, SendKeeps
<1> HIDE DEF w
<1>5. /\ SameCache(u, w) /\ IsView(w) /\ Balanced(u, w)
      /\ LastBufferLine(w) = LastBufferLine(u) /\ Cached(w) = Cached(u)
      /\ \A b : Section(w, b) = Section(u, b)
    BY <1>4, SameCacheSame DEF Painted
<1>6. SameScreen(v, w) /\ w.first = v.first /\ w.dead = v.dead
    BY <1>2, <1>5 DEF Renewed, SameScreen, Alike, SameCache, Balanced
<1>7. Renewed(t, v, w, bl)
    BY <1>2, <1>5, <1>6 DEF Renewed
<1>8. Continues(w, bl) <=> Continues(u, bl)
    <2>1. u.top \in Int /\ u.first <= u.top /\ bl \in Int
        BY <1>3, ViewFields
    <2>2. w.top = u.top /\ w.height = u.height /\ w.first = u.first /\ w.content = u.content
        BY <1>5 DEF SameCache
    <2>3. RowsBetween(w, u.top, bl) = RowsBetween(u, u.top, bl)
        BY <1>3, <1>5, <2>1, <2>2, RowsSame
    <2> QED BY <2>2, <2>3 DEF Continues
<1>9. (bl < v.top \/ affected # {}) <=> Continues(u, bl)
    <2>1. v.top \in Nat
        BY DEF IsView
    <2>2. bl < v.top => Continues(u, bl)
        BY <1>3 DEF Continues
    <2> QED BY <1>2, <1>3, <2>1, <2>2
<1> QED BY <1>1, <1>7, <1>8, <1>9 DEF set

(* A line drawn again is not marked by it, and others stay as they were.   *)
LEMMA RenewedKeeps ==
    ASSUME NEW t \in Seq(Lines), NEW v, IsView(v), Locked(v), NEW w, NEW bl \in Nat,
           Renewed(t, v, w, bl)
    PROVE  Moved(t, v, w) /\ bl \notin Wrong(t, w)
<1>1. Cached(w) \subseteq Nat
    BY ViewFields DEF Renewed
<1>2. Marks(w) \subseteq Marks(v)
    <2> SUFFICES ASSUME NEW x \in Cached(w), Section(w, x).marked PROVE x \in Marks(v)
        BY DEF Marks
    <2>1. ~SectionOf(t, bl).marked
        BY NewSections
    <2>2. x # bl
        BY <2>1 DEF Renewed
    <2> QED BY <2>2 DEF Renewed, Marks
<1>3. Wrong(t, w) \subseteq Wrong(t, v) /\ bl \notin Wrong(t, w)
    BY DEF Wrong, Renewed
<1>4. Locked(w)
    BY DEF Renewed, SameScreen, Alike, Locked
<1> QED BY <1>2, <1>3, <1>4 DEF Moved, Renewed, SameScreen

(* Lines up to one of them may have come to the end of the cache.          *)
Lengthened(v, w, last) ==
    /\ w.dead = v.dead /\ LastBufferLine(v) <= LastBufferLine(w)
    /\ LastBufferLine(w) <= Greatest(LastBufferLine(v), last)

(* Where YView::updateBufferInterval() has got to: the lines before k are  *)
(* right, or it has stopped at one below the screen.                       *)
Reached(t, v, from, bound, u, k) ==
    LET w == u.view
    IN  /\ Moved(t, v, w) /\ w.first = v.first /\ w.top = v.top
        /\ LastBufferLine(w) <= bound /\ u.more \in BOOLEAN
        /\ Lengthened(v, w, from + k - 1)
        /\ u.more => /\ from + k - 1 <= LastBufferLine(w)
                     /\ k > 0 => from + k - 1 < bound
                     /\ \A x \in from..from + k - 1 : x \notin Wrong(t, w)
        /\ ~u.more => \E j \in Int : /\ RowsBetween(w, w.top, j) >= w.height
                                     /\ \A x \in from..j : x \notin Wrong(t, w)

(* One more line of the update.                                            *)
LEMMA UpdateReaches ==
    ASSUME NEW t \in Seq(Lines), NEW v, IsView(v), Locked(v), NEW from \in Nat, v.first <= from,
           NEW bound \in Int, from <= bound, v.top + v.height <= bound,
           NEW k \in Nat, NEW u, Reached(t, v, from, bound, u, k)
    PROVE  Reached(t, v, from, bound, UpdateLine(t, u, from + (k + 1) - 1), k + 1)
<1> DEFINE bl == from + k
           x == u.view
           set == SetBufferLineContent(t, x, bl)
           w == set.view
<1>1. from + (k + 1) - 1 = bl /\ bl \in Nat
    OBVIOUS
<1>2. Moved(t, v, x) /\ x.first = v.first /\ x.top = v.top /\ LastBufferLine(x) <= bound
      /\ IsView(x) /\ Locked(x) /\ x.height = v.height
    BY DEF Reached, Moved, Alike
<1>3. CASE ~u.more
    <2>1. UpdateLine(t, u, bl) = u
        BY <1>3 DEF UpdateLine
    <2>2. Lengthened(v, x, from + (k + 1) - 1)
        <3>1. Lengthened(v, x, from + k - 1)
            BY DEF Reached
        <3>2. LastBufferLine(v) \in Int /\ LastBufferLine(x) \in Int
            BY <1>2, ViewFields
        <3> HIDE DEF x
        <3> QED BY <3>1, <3>2 DEF Lengthened, Greatest
    <2> QED BY <1>1, <1>3, <2>1, <2>2 DEF Reached
<1>4. CASE u.more
    <2>1. UpdateLine(t, u, bl) = set
        BY <1>4 DEF UpdateLine
    <2>2. /\ from + k - 1 <= LastBufferLine(x) /\ (k > 0 => from + k - 1 < bound)
          /\ \A y \in from..from + k - 1 : y \notin Wrong(t, x)
        BY <1>4 DEF Reached
    <2> DEFINE end == LastBufferLine(x)
    <2>3. end \in Int /\ v.first \in Nat /\ x.top \in Nat /\ x.height \in Nat
        BY <1>2, ViewFields
    <2>4. x.first <= bl /\ bl <= end + 1 /\ bl <= bound
        BY <1>2, <2>2, <2>3
    <2> HIDE DEF bl, x
    <2>5. Renewed(t, x, w, bl) /\ set.more \in BOOLEAN /\ (set.more <=> Continues(w, bl))
        BY <1>1, <1>2, <2>4, LineIsRenewed
    <2> HIDE DEF set, w
    <2>6. Moved(t, x, w) /\ bl \notin Wrong(t, w)
        BY <1>1, <1>2, <2>5, RenewedKeeps
    <2>7. Moved(t, v, w)
        BY <1>2, <2>6, MovedOn
    <2>8. w.first = v.first /\ w.top = v.top /\ w.height = v.height
        BY <1>2, <2>5 DEF Renewed, SameScreen, Alike
    <2>9. LastBufferLine(w) = Greatest(end, bl)
        BY <2>5 DEF Renewed
    <2>10. LastBufferLine(w) <= bound /\ bl <= LastBufferLine(w) /\ LastBufferLine(w) \in Int
        BY <1>1, <1>2, <2>3, <2>4, <2>9 DEF Greatest
    <2>11. \A y \in from..bl : y \notin Wrong(t, w)
        <3> TAKE y \in from..bl
        <3>1. y = bl \/ y \in from..from + k - 1
            BY DEF bl
        <3>2. Wrong(t, w) \subseteq Wrong(t, x)
            BY <2>6 DEF Moved
        <3> QED BY <2>2, <2>6, <3>1, <3>2
    <2>12. IsView(w)
        BY <2>7 DEF Moved
    <2>15. Lengthened(v, w, bl)
        <3>1. Lengthened(v, x, from + k - 1)
            BY DEF Reached, x
        <3>2. LastBufferLine(v) \in Int
            BY ViewFields
        <3>3. w.dead = x.dead
            BY <2>5 DEF Renewed
        <3>4. from + k - 1 = bl - 1
            BY DEF bl
        <3> HIDE DEF end
        <3>5. LastBufferLine(v) <= end /\ end <= Greatest(LastBufferLine(v), bl - 1)
            BY <3>1, <3>4 DEF Lengthened, end
        <3>6. LastBufferLine(v) <= Greatest(end, bl)
              /\ Greatest(end, bl) <= Greatest(LastBufferLine(v), bl)
            BY <1>1, <2>3, <3>2, <3>5 DEF Greatest
        <3> QED BY <2>9, <3>1, <3>3, <3>6 DEF Lengthened
    <2>13. CASE Continues(w, bl)
        <3>1. bl < bound
            <4>1. CASE bl < w.top
                BY <1>1, <2>3, <2>8, <1>2, <4>1
            <4>2. CASE ~(bl < w.top)
                <5>1. RowsBetween(w, w.top, bl) < w.height
                    BY <2>13, <4>2 DEF Continues
                <5>2. w.top \in Int /\ w.first <= w.top /\ w.height \in Nat
                    BY <2>12, ViewFields
                <5>3. w.top <= bl
                    BY <1>1, <4>2, <5>2
                <5> DEFINE R == RowsBetween(w, w.top, bl)
                <5>4. R \in Nat /\ bl - w.top <= R
                    <6>1. bl \in Int /\ bl <= LastBufferLine(w) + 1
                        BY <1>1, <2>10
                    <6> QED BY <2>12, <5>2, <5>3, <6>1, RowFacts
                <5>5. R < w.height
                    BY <5>1
                <5> HIDE DEF R
                <5>6. v.top + v.height <= bound
                    OBVIOUS
                <5> QED BY <1>1, <2>8, <5>2, <5>4, <5>5, <5>6
            <4> QED BY <4>1, <4>2
        <3>2. set.more
            BY <2>5, <2>13
        <3>3. from + (k + 1) - 1 = bl
            BY <1>1
        <3> QED BY <2>1, <1>1, <2>5, <2>7, <2>8, <2>10, <2>11, <2>15, <3>1, <3>2, <3>3 DEF Reached, w
    <2>14. CASE ~Continues(w, bl)
        <3>1. RowsBetween(w, w.top, bl) >= w.height
            <4>1. ~(RowsBetween(w, w.top, bl) < w.height)
                BY <2>14 DEF Continues
            <4>2. w.top \in Int /\ w.first <= w.top /\ w.height \in Nat /\ bl \in Int
                BY <1>1, <2>12, ViewFields
            <4>3. RowsBetween(w, w.top, bl) \in Nat
                BY <2>12, <4>2, RowFacts
            <4> QED BY <4>1, <4>2, <4>3
        <3>2. ~set.more /\ bl \in Int
            BY <1>1, <2>5, <2>14
        <3>3. from + (k + 1) - 1 = bl
            BY <1>1
        <3> QED BY <2>1, <1>1, <2>5, <2>7, <2>8, <2>10, <2>11, <2>15, <3>1, <3>2, <3>3 DEF Reached, w
    <2> QED BY <2>13, <2>14
<1> QED BY <1>3, <1>4 DEF Reached

(* The lines of an update, one after the other.                            *)
Updates(t, v, from, n, f) ==
    f = [k \in 0..n |-> IF k = 0 THEN [view |-> v, more |-> TRUE]
                        ELSE UpdateLine(t, f[k - 1], from + k - 1)]

(* There is such a function: a definition by recursion over the lines.     *)
LEMMA UpdatesExist ==
    ASSUME NEW t, NEW v, NEW from, NEW n \in Nat
    PROVE  \E f : Updates(t, v, from, n, f)
<1> DEFINE first == [view |-> v, more |-> TRUE]
           Holds(f, m) == f = [k \in 0..m |-> IF k = 0 THEN first
                                              ELSE UpdateLine(t, f[k - 1], from + k - 1)]
           S == {m \in Nat : \E f : Holds(f, m)}
<1> HIDE DEF first
<1>1. 0 \in S
    <2> DEFINE f == [k \in 0..0 |-> first]
    <2>1. \A k \in 0..0 : k = 0
        OBVIOUS
    <2>2. Holds(f, 0)
        BY <2>1
    <2> HIDE DEF f
    <2> QED BY <2>2
<1>2. ASSUME NEW m \in Nat, m \in S PROVE m + 1 \in S
    <2>1. PICK f : Holds(f, m)
        BY <1>2
    <2> DEFINE g == [k \in 0..m + 1 |-> IF k = m + 1 THEN UpdateLine(t, f[m], from + m) ELSE f[k]]
    <2>2. \A k \in 0..m : f[k] = IF k = 0 THEN first ELSE UpdateLine(t, f[k - 1], from + k - 1)
        BY <2>1
    <2>3. g[m + 1] = UpdateLine(t, f[m], from + m) /\ \A k \in 0..m : g[k] = f[k]
        OBVIOUS
    <2>4. g = [k \in 0..m + 1 |-> g[k]]
        OBVIOUS
    <2> HIDE DEF g, Holds
    <2>5. ASSUME NEW k \in 0..m + 1
          PROVE  g[k] = IF k = 0 THEN first ELSE UpdateLine(t, g[k - 1], from + k - 1)
        <3>1. CASE k = m + 1
            <4>1. k # 0 /\ k - 1 = m /\ m \in 0..m /\ from + k - 1 = from + (m + 1) - 1
                BY <3>1
            <4> QED BY <2>3, <3>1, <4>1
        <3>2. CASE k # m + 1
            <4>1. k \in 0..m /\ (k # 0 => k - 1 \in 0..m)
                BY <3>2
            <4> QED BY <2>2, <2>3, <4>1
        <3> QED BY <3>1, <3>2
    <2>6. Holds(g, m + 1)
        BY <2>4, <2>5 DEF Holds
    <2> QED BY <2>6
<1> HIDE DEF S
<1>3. Nat \subseteq S
    BY <1>1, <1>2, SetInduction
<1>4. \E f : Holds(f, n)
    BY <1>3 DEF S
<1> QED BY <1>4 DEF Updates, first

(* After an update the lines it was for are those of the text, but for     *)
(* lines that are cached below the one after the screen.                   *)
Brought(t, v, from, last, bound, w) ==
    /\ Moved(t, v, w) /\ w.first = v.first /\ w.top = v.top
    /\ LastBufferLine(w) <= bound /\ Lengthened(v, w, last)
    /\ \A x \in Wrong(t, w) : x < from \/ last < x \/ ScreenBottomBufferLine(w) + 1 < x

(* The loop of updateBufferInterval() over the lines.                      *)
LEMMA UpdateLinesBring ==
    ASSUME NEW t \in Seq(Lines), NEW v, IsView(v), Locked(v), NEW from \in Nat, v.first <= from,
           NEW last \in Int,
           from <= Least(last, Len(t) - 1) => from <= LastBufferLine(v) + 1,
           NEW bound \in Int, v.top + v.height <= bound, LastBufferLine(v) <= bound,
           from <= Least(last, Len(t) - 1) => from <= bound
    PROVE  Brought(t, v, from, Least(last, Len(t) - 1), bound, UpdateLines(t, v, from, last))
<1> DEFINE end == Least(last, Len(t) - 1)
           n == Greatest(end - from + 1, 0)
           F(f) == f = [k \in 0..n |-> IF k = 0 THEN [view |-> v, more |-> TRUE]
                                       ELSE UpdateLine(t, f[k - 1], from + k - 1)]
           updated == CHOOSE f : F(f)
<1>1. UpdateLines(t, v, from, last) = updated[n].view
    BY DEF UpdateLines
<1>2. end \in Int
    <2>1. Len(t) \in Nat
        BY NewSections
    <2> QED BY <2>1 DEF Least
<1>3. from <= end => from <= LastBufferLine(v) + 1 /\ from <= bound
    OBVIOUS
<1> HIDE DEF end
<1>4. n \in Nat /\ (from <= end => n = end - from + 1) /\ (~(from <= end) => n = 0)
    BY <1>2 DEF Greatest
<1> HIDE DEF n
<1>5. \E f : Updates(t, v, from, n, f)
    BY <1>4, UpdatesExist
<1>6. F(updated)
    BY <1>5 DEF Updates
<1> HIDE DEF updated
<1>7. updated[0] = [view |-> v, more |-> TRUE]
    BY <1>4, <1>6
<1>8. CASE ~(from <= end)
    <2>1. UpdateLines(t, v, from, last) = v
        BY <1>1, <1>4, <1>7, <1>8
    <2>2. Moved(t, v, v)
        BY MovedNot
    <2>3. \A x \in Wrong(t, v) : x < from \/ end < x
        <3>1. Cached(v) \subseteq Nat
            BY ViewFields
        <3> QED BY <1>2, <1>8, <3>1 DEF Wrong
    <2>4. Lengthened(v, v, end)
        <3>1. LastBufferLine(v) \in Int
            BY ViewFields
        <3> QED BY <1>2, <3>1 DEF Lengthened, Greatest
    <2> QED BY <2>1, <2>2, <2>3, <2>4 DEF Brought, end
<1>9. CASE from <= end
    <2> DEFINE S == {k \in Nat : k <= n => Reached(t, v, from, bound, updated[k], k)}
    <2>1. 0 \in S
        <3>1. Moved(t, v, v)
            BY MovedNot
        <3>2. from + 0 - 1 = from - 1 /\ from - 1 <= LastBufferLine(v) /\ from..from + 0 - 1 = {}
            <4>1. LastBufferLine(v) \in Int
                BY ViewFields
            <4> QED BY <1>3, <1>9, <4>1
        <3>4. Lengthened(v, v, from + 0 - 1)
            <4>1. LastBufferLine(v) \in Int
                BY ViewFields
            <4> QED BY <4>1 DEF Lengthened, Greatest
        <3>3. Reached(t, v, from, bound, [view |-> v, more |-> TRUE], 0)
            BY <3>1, <3>2, <3>4 DEF Reached
        <3> QED BY <1>7, <3>3
    <2>2. ASSUME NEW k \in Nat, k \in S PROVE k + 1 \in S
        <3> SUFFICES ASSUME k + 1 <= n PROVE Reached(t, v, from, bound, updated[k + 1], k + 1)
            OBVIOUS
        <3>1. Reached(t, v, from, bound, updated[k], k)
            <4>1. k <= n
                BY <1>4
            <4> QED BY <2>2, <4>1
        <3>2. updated[k + 1] = UpdateLine(t, updated[k], from + (k + 1) - 1)
            <4>1. k + 1 \in 0..n /\ k + 1 # 0 /\ (k + 1) - 1 = k
                BY <1>4
            <4> QED BY <1>6, <4>1
        <3>3. from <= bound
            BY <1>3, <1>9
        <3> QED BY <3>1, <3>2, <3>3, UpdateReaches
    <2> HIDE DEF S
    <2>3. Nat \subseteq S
        BY <2>1, <2>2, SetInduction
    <2>4. n \in S /\ n <= n
        BY <1>4, <2>3
    <2>5. Reached(t, v, from, bound, updated[n], n)
        BY <2>4 DEF S
    <2> DEFINE w == updated[n].view
    <2>6. /\ Moved(t, v, w) /\ w.first = v.first /\ w.top = v.top /\ LastBufferLine(w) <= bound
          /\ updated[n].more \in BOOLEAN
          /\ updated[n].more => \A x \in from..from + n - 1 : x \notin Wrong(t, w)
          /\ ~updated[n].more => \E j \in Int : /\ RowsBetween(w, w.top, j) >= w.height
                                                /\ \A x \in from..j : x \notin Wrong(t, w)
        BY <2>5 DEF Reached
    <2> HIDE DEF w
    <2>7. ASSUME NEW x \in Wrong(t, w), ~(x < from), ~(end < x)
          PROVE  ScreenBottomBufferLine(w) + 1 < x
        <3>1. IsView(w) /\ x \in Nat
            <4>1. IsView(w)
                BY <2>6 DEF Moved
            <4> QED BY <4>1, ViewFields DEF Wrong
        <3>2. x \in from..from + n - 1
            BY <1>2, <1>4, <1>9, <2>7, <3>1
        <3>3. ~updated[n].more
            BY <2>6, <2>7, <3>2
        <3>4. PICK j \in Int : RowsBetween(w, w.top, j) >= w.height
                               /\ \A y \in from..j : y \notin Wrong(t, w)
            BY <2>6, <3>3
        <3>5. ScreenBottomBufferLine(w) \in Int /\ ScreenBottomBufferLine(w) < j
            BY <3>1, <3>4, BottomFacts
        <3>6. j < x
            <4>1. x \notin from..j
                BY <2>7, <3>4
            <4> QED BY <2>7, <3>1, <4>1
        <3> QED BY <3>1, <3>5, <3>6
    <2>8. Lengthened(v, w, end)
        <3>1. Lengthened(v, w, from + n - 1)
            BY <2>5 DEF Reached, w
        <3>2. from + n - 1 = end
            BY <1>2, <1>4, <1>9
        <3> QED BY <3>1, <3>2
    <2> QED BY <1>1, <2>6, <2>7, <2>8 DEF Brought, end, w
<1> QED BY <1>8, <1>9

(* YDrawBuffer::deleteFromBufferLine(): lines from n on leave the cache.   *)
LEMMA DeleteFromCuts ==
    ASSUME NEW v, IsView(v), NEW n \in Nat
    PROVE  LET w == DeleteFromBufferLine(v, n)
           IN  /\ IsView(w) /\ SameScreen(v, w) /\ w.first = v.first /\ w.dead = v.dead
               /\ LastBufferLine(w) = Least(LastBufferLine(v), Greatest(n, v.first) - 1)
               /\ \A x \in Cached(w) : x < n /\ x \in Cached(v) /\ Section(w, x) = Section(v, x)
<1> DEFINE first == v.first
           last == LastBufferLine(v)
           content == v.content
           size == Len(content)
           kept == SubSeq(content, 1, n - first)
           u == [v EXCEPT !.content = kept]
           w == DeleteFromBufferLine(v, n)
<1>2. /\ size \in Nat /\ first \in Nat /\ last = first + size - 1 /\ last \in Int
      /\ content \in Seq(Sections) /\ first - 1 <= last
    BY ViewFields DEF IsView
<1>3. CASE n > last
    <2>1. w = v
        BY <1>3 DEF DeleteFromBufferLine
    <2>2. SameScreen(v, v)
        BY DEF SameScreen, Alike, Balanced
    <2>3. last = Least(last, Greatest(n, first) - 1)
        <3> HIDE DEF last, first
        <3> QED BY <1>2, <1>3 DEF Least, Greatest
    <2>4. \A x \in Cached(v) : x < n
        <3>1. Cached(v) = first..last
            BY DEF Cached
        <3> HIDE DEF first, last
        <3> QED BY <1>2, <1>3, <3>1
    <2> HIDE DEF w, first, last
    <2> QED BY <2>1, <2>2, <2>3, <2>4 DEF w, first, last
<1>4. CASE ~(n > last)
    <2>1. n <= last
        <3> HIDE DEF last
        <3> QED BY <1>2, <1>4
    <2>2. \E r : w = u \/ w = SendPaintEvent(u, r)
        BY <1>4 DEF DeleteFromBufferLine
    <2> HIDE DEF first, last, content, size, w
    <2> DEFINE m == Greatest(n - first, 0)
    <2>3. m \in Nat /\ m <= size
        BY <1>2, <2>1 DEF Greatest
    <2>4. /\ kept \in Seq(Sections) /\ Len(kept) = m
          /\ \A i \in 1..m : kept[i] = content[i]
        <3>1. CASE n <= first
            <4>1. kept = <<>>
                <5>1. 1 > n - first /\ n - first \in Int
                    BY <1>2, <3>1
                <5> QED BY <1>2, <5>1, SubSeqEmpty
            <4>2. m = 0 /\ 1..0 = {}
                BY <1>2, <3>1 DEF Greatest
            <4> HIDE DEF kept, m
            <4>3. kept \in Seq(Sections) /\ Len(kept) = 0
                BY <4>1
            <4> QED BY <4>2, <4>3
        <3>2. CASE n > first
            <4>1. m = n - first /\ 1 \in 1..size + 1 /\ m \in 0..size
                BY <1>2, <2>3, <3>2 DEF Greatest
            <4>2. /\ kept \in Seq(Sections) /\ Len(kept) = m - 1 + 1
                  /\ \A i \in 1..m - 1 + 1 : kept[i] = content[1 + i - 1]
                BY <1>2, <4>1, SubSeqProperties DEF size
            <4>3. m - 1 + 1 = m /\ \A i \in 1..m : 1 + i - 1 = i
                BY <2>3
            <4> QED BY <4>2, <4>3
        <3> QED BY <1>2, <3>1, <3>2
    <2> HIDE DEF kept, m
    <2>5. IsView(u) /\ SameScreen(v, u) /\ u.first = v.first /\ u.content = kept
          /\ u.dead = v.dead
        BY <2>4 DEF IsView, Fn, Fields, SameScreen, Alike, Balanced, PendingIn
    <2> HIDE DEF u
    <2>6. Painted(u, w)
        <3>1. Painted(u, u)
            BY <2>5 DEF Painted, SameCache, Balanced
        <3> QED BY <2>2, <2>5, <3>1, SendKeeps
    <2>7. /\ IsView(w) /\ SameCache(u, w) /\ Balanced(u, w)
          /\ LastBufferLine(w) = LastBufferLine(u) /\ Cached(w) = Cached(u)
          /\ \A b : Section(w, b) = Section(u, b)
        BY <2>6, SameCacheSame DEF Painted
    <2>8. SameScreen(v, w) /\ w.first = v.first /\ w.dead = v.dead
        BY <2>5, <2>7 DEF SameScreen, Alike, SameCache, Balanced
    <2>9. LastBufferLine(u) = first + m - 1
        BY <2>4, <2>5 DEF LastBufferLine, first
    <2>10. first + m - 1 = Least(last, Greatest(n, first) - 1)
        BY <1>2, <2>1, <2>3 DEF Least, Greatest, m
    <2>11. ASSUME NEW x \in Cached(w)
           PROVE  x < n /\ x \in Cached(v) /\ Section(w, x) = Section(v, x)
        <3>1. x \in first..first + m - 1
            BY <2>5, <2>7, <2>9 DEF Cached, first
        <3>2. x - first + 1 \in 1..m /\ x <= last /\ x < n /\ x \in first..last
            BY <1>2, <2>1, <2>3, <3>1 DEF m, Greatest
        <3>3. Section(u, x) = kept[x - first + 1] /\ Section(v, x) = content[x - first + 1]
            BY <2>5 DEF Section, first, content
        <3> QED BY <2>4, <2>7, <3>2, <3>3 DEF Cached, first, last
    <2> QED BY <2>7, <2>8, <2>9, <2>10, <2>11 DEF first, last, w
<1> QED BY <1>3, <1>4

(* Painting is suspended, the view changes, and it is resumed.             *)
LEMMA SuspendedLevel ==
    ASSUME NEW s, IsView(s), NEW l, IsView(l), Balanced(SetPaintAutoCommitOff(s), l)
    PROVE  LET w == CommitPaintEvent(l)
           IN  IsView(w) /\ SameCache(l, w) /\ Balanced(s, w)
<1> DEFINE u == SetPaintAutoCommitOff(s)
           w == CommitPaintEvent(l)
<1>1. u.level = s.level + 1 /\ u.pending = s.pending /\ u.height = s.height
    BY OffKeeps DEF SameCache
<1>2. l.level = u.level /\ (PendingIn(u) => PendingIn(l))
    BY DEF Balanced
<1> HIDE DEF u
<1>3. /\ IsView(w) /\ SameCache(l, w) /\ w.level = (IF l.level <= 1 THEN 0 ELSE l.level - 1)
      /\ PendingIn(l) => PendingIn(w)
    BY CommitKeeps
<1> HIDE DEF w
<1>4. s.level \in Nat
    BY DEF IsView
<1>5. w.level = s.level
    BY <1>1, <1>2, <1>3, <1>4
<1>6. PendingIn(s) => PendingIn(u)
    BY <1>1, <1>4 DEF PendingIn
<1> QED BY <1>2, <1>3, <1>5, <1>6 DEF Balanced, w

(* Between suspension and commit the view moves as far as it does.         *)
LEMMA SuspendedMoves ==
    ASSUME NEW t, NEW s, IsView(s), NEW l, Moved(t, SetPaintAutoCommitOff(s), l)
    PROVE  Moved(t, s, CommitPaintEvent(l)) /\ SameCache(l, CommitPaintEvent(l))
<1> DEFINE u == SetPaintAutoCommitOff(s)
           w == CommitPaintEvent(l)
<1>1. IsView(l) /\ Balanced(u, l)
    BY DEF Moved, Alike
<1>2. IsView(w) /\ SameCache(l, w) /\ Balanced(s, w)
    BY <1>1, SuspendedLevel
<1>3. SameCache(s, u)
    BY OffKeeps
<1>4. Marks(u) = Marks(s) /\ Wrong(t, u) = Wrong(t, s)
    BY <1>3, SameCacheSame
<1> HIDE DEF u, w
<1>5. Marks(w) = Marks(l) /\ Wrong(t, w) = Wrong(t, l) /\ (Locked(w) <=> Locked(l))
    BY <1>2, SameCacheSame
<1>6. Moved(t, u, l)
    BY DEF u
<1>7. Alike(s, w)
    BY <1>2, <1>3, <1>6 DEF Moved, Alike, SameCache
<1> QED BY <1>2, <1>4, <1>5, <1>6, <1>7 DEF Moved, w

(* No more lines are on the screen than it has rows.                       *)
LEMMA BottomNear ==
    ASSUME NEW v, IsView(v)
    PROVE  ScreenBottomBufferLine(v) < v.top + v.height
<1> DEFINE b == ScreenBottomBufferLine(v)
           bl == v.top + v.height
           last == LastBufferLine(v)
<1>1. v.top \in Nat /\ v.first <= v.top /\ v.height \in Nat /\ last \in Int /\ v.first \in Nat
    BY ViewFields
<1>2. /\ b \in Int /\ b <= last
      /\ \A x \in Int : RowsBetween(v, v.top, x) >= v.height => b < x
    BY BottomFacts
<1>3. bl \in Int
    BY <1>1
<1>4. \A x \in Int : v.top <= x /\ x <= last + 1 => x - v.top <= RowsBetween(v, v.top, x)
    BY <1>1, RowFacts
<1> HIDE DEF b, last
<1>5. ASSUME ~(b < bl) PROVE FALSE
    <2>1. v.top <= bl /\ bl <= last + 1 /\ bl - v.top = v.height
        BY <1>1, <1>2, <1>5
    <2> HIDE DEF bl
    <2>2. v.height <= RowsBetween(v, v.top, bl)
        BY <1>3, <1>4, <2>1
    <2>3. RowsBetween(v, v.top, bl) \in Nat
        BY <1>1, <1>3, RowFacts
    <2> DEFINE R == RowsBetween(v, v.top, bl)
    <2>4. R \in Nat /\ v.height <= R
        BY <2>2, <2>3
    <2> HIDE DEF R
    <2>5. R >= v.height
        BY <1>1, <2>4
    <2>6. b < bl
        BY <1>2, <1>3, <2>5 DEF R
    <2> QED BY <1>5, <2>6
<1> QED BY <1>5 DEF b

(* The cache stays within the text, also when the text has just lost a     *)
(* line, and goes on from the top of the screen if that is still there.    *)
Kept(t, v, bl, last, w) ==
    /\ w.dead = v.dead
    /\ LastBufferLine(v) < Greatest(Len(t), v.first) => LastBufferLine(w) < Greatest(Len(t), w.first)
    /\ last >= Len(t) /\ bl <= Len(t) /\ LastBufferLine(v) < Greatest(Len(t) + 1, v.first)
         => LastBufferLine(w) < Greatest(Len(t), w.first)
    /\ Reaches(v) /\ v.top < Len(t) => Reaches(w)
    /\ v.start = NoLine => w.first = v.top

(* A cache that grew from a kept one by lines of the text is kept, too.    *)
LEMMA LengthenedKept ==
    ASSUME NEW t \in Seq(Lines), NEW v, IsView(v), Locked(v), NEW bl \in Int, NEW last \in Int,
           NEW d, IsView(d), NEW w, IsView(w), NEW end \in Int, end < Len(t),
           d.first = Squeeze(v).first, w.first = d.first, d.dead = v.dead,
           d.top = v.top, w.top = v.top,
           LastBufferLine(d) = IF last >= Len(t)
                               THEN Least(LastBufferLine(Squeeze(v)), Greatest(Len(t), d.first) - 1)
                               ELSE LastBufferLine(Squeeze(v)),
           Lengthened(d, w, end)
    PROVE  Kept(t, v, bl, last, w)
<1> DEFINE s == Squeeze(v)
           n == Len(t)
           f == s.first
           a == LastBufferLine(v)
           b == LastBufferLine(s)
           c == LastBufferLine(d)
           e == LastBufferLine(w)
<1>1. /\ v.first <= f /\ b <= Greatest(a, f - 1) /\ s.top = v.top
      /\ Reaches(v) => Reaches(s)
      /\ v.start = NoLine => f = v.top
    BY SqueezeKept
<1>2. IsView(s)
    BY SqueezeSections
<1>3. /\ n \in Nat /\ f \in Nat /\ v.first \in Nat /\ a \in Int /\ b \in Int /\ c \in Int
      /\ e \in Int /\ v.top \in Nat /\ d.first = f /\ w.first = f
    BY <1>2, ViewFields, NewSections
<1>4. /\ w.dead = v.dead /\ c <= e /\ e <= Greatest(c, end)
      /\ c = IF last >= n THEN Least(b, Greatest(n, f) - 1) ELSE b
    BY <1>3 DEF Lengthened
<1>5. end < n
    OBVIOUS
<1>6. Reaches(v) => v.top <= b + 1
    BY <1>1 DEF Reaches
<1>7. v.top <= e + 1 => Reaches(w)
    BY DEF Reaches
<1> HIDE DEF s, n, f, a, b, c, e
<1>8. c <= b
    BY <1>3, <1>4 DEF Least
<1>9. a < Greatest(n, v.first) => e < Greatest(n, f)
    BY <1>1, <1>3, <1>4, <1>5, <1>8 DEF Greatest
<1>10. last >= n => e < Greatest(n, f)
    BY <1>3, <1>4, <1>5 DEF Greatest, Least
<1>11. v.top <= b + 1 /\ v.top < n => v.top <= e + 1
    BY <1>3, <1>4 DEF Greatest, Least
<1> QED BY <1>1, <1>3, <1>4, <1>6, <1>7, <1>9, <1>10, <1>11 DEF Kept, a, e, n

(* An update without an edit.                                              *)
LEMMA KeptSafely ==
    ASSUME NEW t, NEW v, NEW bl, NEW last, NEW w, Moved(t, v, w), w.top = v.top,
           Kept(t, v, bl, last, w)
    PROVE  Safely(t, v, w)
BY DEF Safely, Lives, Stays, Within, Kept, Moved, Alike

(* YView::updateBufferInterval(): what an edit asks a view to do.          *)
Interval(t, v, bl, last, bound, w) ==
    /\ Moved(t, v, w) /\ w.top = v.top /\ LastBufferLine(w) <= bound /\ Kept(t, v, bl, last, w)
    /\ \A x \in Wrong(t, w) : x < bl \/ last < x \/ ScreenBottomBufferLine(w) + 1 < x

(* updateBufferInterval(), where no line beyond bound stays cached.        *)
LEMMA IntervalIsBrought ==
    ASSUME NEW t \in Seq(Lines), NEW v, IsView(v), Locked(v), NEW bl \in Int, NEW last \in Int,
           NEW bound \in Int, v.top + v.height <= bound, v.start <= bound
    PROVE  Interval(t, v, bl, last, bound, UpdateBufferInterval(t, v, bl, last))
<1> DEFINE s == Squeeze(v)
           u == SetPaintAutoCommitOff(s)
           d == IF last >= Len(t) THEN DeleteFromBufferLine(u, Len(t)) ELSE u
           from == Greatest(bl, s.first)
           l == UpdateLines(t, d, from, last)
           early == s.first > last \/ LastBufferLine(s) + (IF Full(s) THEN 0 ELSE 1) < bl
           w == UpdateBufferInterval(t, v, bl, last)
           n == Len(t)
           end == Least(last, n - 1)
<1>1. w = IF early THEN s ELSE CommitPaintEvent(l)
    BY DEF UpdateBufferInterval
<1>2. Moved(t, v, s) /\ s.top = v.top
    BY SqueezeMoves
<1>3. s.first <= v.top /\ LastBufferLine(s) <= bound
    <2> DEFINE to == Greatest(ScreenBottomBufferLine(v), v.start)
               f == IF v.start = NoLine THEN v.top ELSE Least(v.top, v.start)
    <2>1. /\ s.first = f /\ f <= v.top /\ f \in Nat /\ to \in Int
          /\ LastBufferLine(s) = Greatest(Least(to, LastBufferLine(v)), f - 1)
        BY SqueezeSections
    <2>2. /\ LastBufferLine(v) \in Int /\ v.top \in Nat /\ v.height \in Nat
          /\ ScreenBottomBufferLine(v) \in Int /\ ScreenBottomBufferLine(v) < v.top + v.height
          /\ v.start \in Int
        BY ViewFields, BottomFacts, BottomNear DEF IsView, NoLine
    <2>3. to <= bound
        BY <2>2 DEF Greatest
    <2> HIDE DEF to, f
    <2> QED BY <2>1, <2>2, <2>3 DEF Greatest, Least
<1> HIDE DEF s
<1>4. /\ IsView(s) /\ Locked(s) /\ s.height = v.height
      /\ s.first \in Nat /\ LastBufferLine(s) \in Int /\ s.first - 1 <= LastBufferLine(s)
      /\ v.top \in Nat /\ v.height \in Nat
    <2>1. IsView(s) /\ Locked(s) /\ s.height = v.height
        BY <1>2 DEF Moved, Alike
    <2> QED BY <2>1, ViewFields
<1>5. n \in Nat
    BY NewSections
<1>6. \A x \in Cached(s) : s.first <= x /\ x <= LastBufferLine(s) /\ x \in Int
    BY <1>4 DEF Cached
<1>7. CASE early
    <2>1. w = s
        BY <1>1, <1>7
    <2>2. \A x \in Wrong(t, s) : x < bl \/ last < x
        <3> TAKE x \in Wrong(t, s)
        <3>1. s.first <= x /\ x <= LastBufferLine(s) /\ x \in Int
            BY <1>6 DEF Wrong
        <3> QED BY <1>4, <1>7, <3>1
    <2>3. Kept(t, v, bl, last, s)
        <3>1. /\ s.dead = v.dead /\ v.first <= s.first
              /\ LastBufferLine(s) <= Greatest(LastBufferLine(v), s.first - 1)
              /\ Reaches(v) => Reaches(s)
              /\ v.start = NoLine => s.first = v.top
            BY SqueezeKept DEF s
        <3>2. v.first \in Nat /\ LastBufferLine(v) \in Int
            BY ViewFields
        <3>3. s.first > last \/ LastBufferLine(s) < bl
            BY <1>4, <1>7
        <3>4. LastBufferLine(v) < Greatest(Len(t), v.first)
                => LastBufferLine(s) < Greatest(Len(t), s.first)
            BY <1>4, <1>5, <3>1, <3>2 DEF Greatest
        <3>5. last >= Len(t) /\ bl <= Len(t) /\ LastBufferLine(v) < Greatest(Len(t) + 1, v.first)
                => LastBufferLine(s) < Greatest(Len(t), s.first)
            BY <1>4, <1>5, <3>1, <3>2, <3>3 DEF Greatest
        <3> QED BY <3>1, <3>4, <3>5 DEF Kept
    <2> HIDE DEF w
    <2> QED BY <1>2, <1>3, <2>1, <2>2, <2>3 DEF Interval, w
<1>8. CASE ~early
    <2>1. w = CommitPaintEvent(l)
        BY <1>1, <1>8
    <2> HIDE DEF w
    <2>2. /\ IsView(u) /\ SameCache(s, u) /\ Locked(u)
          /\ LastBufferLine(u) = LastBufferLine(s) /\ Wrong(t, u) = Wrong(t, s)
        BY <1>4, OffKeeps, SameCacheSame
    <2>3. u.first = s.first /\ u.top = v.top /\ u.height = v.height
        BY <1>2, <1>4, <2>2 DEF SameCache
    <2> HIDE DEF u
    <2>4. /\ Moved(t, u, d) /\ d.first = s.first /\ d.top = v.top /\ d.dead = u.dead
          /\ LastBufferLine(d) <= LastBufferLine(s)
          /\ LastBufferLine(d) = (IF last >= n THEN Least(LastBufferLine(s), Greatest(n, s.first) - 1)
                                  ELSE LastBufferLine(s))
          /\ last >= n => \A x \in Cached(d) : x < n
        <3>1. CASE last >= n
            <4>1. d = DeleteFromBufferLine(u, n)
                BY <3>1
            <4> HIDE DEF d, n
            <4>2. /\ IsView(d) /\ SameScreen(u, d) /\ d.first = u.first /\ d.dead = u.dead
                  /\ LastBufferLine(d) = Least(LastBufferLine(u), Greatest(n, u.first) - 1)
                  /\ \A x \in Cached(d) : x < n /\ x \in Cached(u) /\ Section(d, x) = Section(u, x)
                BY <1>5, <2>2, <4>1, DeleteFromCuts
            <4>3. Marks(d) \subseteq Marks(u) /\ Wrong(t, d) \subseteq Wrong(t, u) /\ Locked(d)
                BY <2>2, <4>2 DEF Marks, Wrong, Locked, SameScreen, Alike
            <4>4. Moved(t, u, d)
                BY <4>2, <4>3 DEF Moved, SameScreen
            <4>5. LastBufferLine(d) <= LastBufferLine(s)
                BY <1>4, <1>5, <2>2, <2>3, <4>2 DEF Least, Greatest
            <4> QED BY <2>2, <2>3, <3>1, <4>2, <4>4, <4>5 DEF SameScreen
        <3>2. CASE ~(last >= n)
            <4>1. d = u
                BY <3>2
            <4>2. Moved(t, u, u)
                BY <2>2, MovedNot
            <4> HIDE DEF d, n
            <4> QED BY <1>4, <2>2, <2>3, <3>2, <4>1, <4>2
        <3> QED BY <3>1, <3>2
    <2> HIDE DEF d
    <2>5. IsView(d) /\ Locked(d) /\ d.height = v.height /\ LastBufferLine(d) \in Int
          /\ d.first - 1 <= LastBufferLine(d)
        <3>1. IsView(d) /\ Locked(d) /\ d.height = v.height
            BY <2>3, <2>4 DEF Moved, Alike
        <3> QED BY <3>1, ViewFields
    <2>6. from \in Nat /\ d.first <= from /\ (from = bl \/ from = s.first) /\ bl <= from /\ s.first <= from
        BY <1>4, <2>4 DEF Greatest
    <2>7. bl <= LastBufferLine(s) + 1 /\ bl <= bound /\ s.first <= last
        <3>1. CASE Full(s)
            BY <1>3, <1>4, <1>8, <3>1
        <3>2. CASE ~Full(s)
            <4>1. ScreenBottomBufferLine(s) = LastBufferLine(s)
                BY <1>4, <3>2, BottomFacts
            <4>2. LastBufferLine(s) < s.top + s.height
                BY <1>4, <4>1, BottomNear
            <4>3. bl <= LastBufferLine(s) + 1 /\ s.first <= last
                BY <1>4, <1>8, <3>2
            <4> QED BY <1>2, <1>4, <4>2, <4>3
        <3> QED BY <3>1, <3>2
    <2>8. end \in Int /\ end <= last /\ end <= n - 1 /\ (end = last \/ end = n - 1)
        BY <1>5 DEF Least
    <2> HIDE DEF from, n
    <2>9. from <= end => from <= LastBufferLine(d) + 1 /\ from <= bound
        <3> SUFFICES ASSUME from <= end PROVE from <= LastBufferLine(d) + 1 /\ from <= bound
            OBVIOUS
        <3>1. from <= bound
            BY <1>3, <1>4, <2>6, <2>7
        <3>2. CASE last >= n
            <4>1. LastBufferLine(d) = Least(LastBufferLine(s), Greatest(n, s.first) - 1)
                BY <2>4, <3>2
            <4> HIDE DEF end
            <4>2. from <= n - 1
                BY <1>5, <2>6, <2>8
            <4> QED BY <1>4, <1>5, <2>6, <2>7, <3>1, <4>1, <4>2 DEF Least, Greatest
        <3>3. CASE ~(last >= n)
            <4>1. LastBufferLine(d) = LastBufferLine(s)
                BY <2>4, <3>3
            <4> QED BY <1>4, <2>6, <2>7, <3>1, <4>1
        <3> QED BY <3>2, <3>3
    <2>10. d.top + d.height <= bound /\ LastBufferLine(d) <= bound
        BY <1>3, <1>4, <2>4, <2>5
    <2>11. Brought(t, d, from, end, bound, l)
        BY <2>5, <2>6, <2>9, <2>10, UpdateLinesBring DEF n
    <2> HIDE DEF l
    <2>12. Moved(t, d, l) /\ l.first = d.first /\ l.top = d.top /\ LastBufferLine(l) <= bound
           /\ \A x \in Wrong(t, l) : x < from \/ end < x \/ ScreenBottomBufferLine(l) + 1 < x
        BY <2>11 DEF Brought
    <2>13. Moved(t, u, l)
        BY <2>4, <2>12, MovedOn
    <2>14. Moved(t, s, w) /\ SameCache(l, w)
        BY <1>4, <2>1, <2>13, SuspendedMoves DEF u
    <2>15. Moved(t, v, w)
        BY <1>2, <2>14, MovedOn
    <2>16. /\ LastBufferLine(w) = LastBufferLine(l) /\ Wrong(t, w) = Wrong(t, l)
           /\ ScreenBottomBufferLine(w) = ScreenBottomBufferLine(l) /\ w.top = v.top
        <3>1. IsView(l) /\ IsView(w)
            BY <2>12, <2>14 DEF Moved
        <3> QED BY <2>4, <2>12, <2>14, <3>1, SameCacheSame, BottomSame DEF SameCache
    <2>17. ASSUME NEW x \in Wrong(t, w), ~(ScreenBottomBufferLine(w) + 1 < x)
           PROVE  x < bl \/ last < x
        <3>1. x < from \/ end < x
            BY <2>12, <2>16, <2>17
        <3>2. x \in Wrong(t, d) /\ x \in Cached(d)
            BY <2>12, <2>16 DEF Moved, Wrong
        <3>3. x \in Nat /\ d.first <= x
            <4>1. d.first \in Nat
                BY <2>5, ViewFields
            <4> QED BY <2>5, <3>2, <4>1 DEF Cached
        <3> HIDE DEF end
        <3>4. CASE x < from
            BY <1>4, <2>4, <2>6, <3>3, <3>4
        <3>5. CASE end < x
            <4>1. CASE end = last
                BY <3>5, <4>1
            <4>2. CASE end # last
                <5>1. end = n - 1 /\ n - 1 <= last
                    BY <2>8, <4>2
                <5>2. last >= n
                    BY <1>5, <2>8, <4>2, <5>1
                <5>3. x < n
                    BY <2>4, <3>2, <5>2
                <5> QED BY <1>5, <3>3, <3>5, <5>1, <5>3
            <4> QED BY <4>1, <4>2
        <3> QED BY <3>1, <3>4, <3>5
    <2>18. Kept(t, v, bl, last, w)
        <3>1. d.dead = v.dead
            <4>1. s.dead = v.dead
                BY SqueezeKept DEF s
            <4> QED BY <2>2, <2>4, <4>1 DEF SameCache
        <3>2. Lengthened(d, w, end)
            BY <2>11, <2>14, <2>16 DEF Brought, Lengthened, SameCache
        <3>3. IsView(w) /\ w.first = d.first /\ w.top = v.top /\ end < Len(t)
            <4>1. IsView(w) /\ w.first = d.first /\ w.top = v.top
                BY <2>12, <2>14, <2>16 DEF Moved, SameCache
            <4>2. end < n
                BY <1>5, <2>8
            <4> QED BY <4>1, <4>2 DEF n
        <3>4. LastBufferLine(d) = IF last >= Len(t)
                                  THEN Least(LastBufferLine(s), Greatest(Len(t), d.first) - 1)
                                  ELSE LastBufferLine(s)
            BY <2>4 DEF n
        <3> HIDE DEF end
        <3> QED BY <2>4, <2>5, <2>8, <3>1, <3>2, <3>3, <3>4, LengthenedKept DEF s
    <2> QED BY <2>12, <2>15, <2>16, <2>17, <2>18 DEF Interval, w
<1> QED BY <1>7, <1>8

(* The same without a bound.                                               *)
LEMMA IntervalMoves ==
    ASSUME NEW t \in Seq(Lines), NEW v, IsView(v), Locked(v), NEW bl \in Int, NEW last \in Int
    PROVE  LET w == UpdateBufferInterval(t, v, bl, last)
           IN  /\ Moved(t, v, w) /\ w.top = v.top /\ Kept(t, v, bl, last, w)
               /\ \A x \in Wrong(t, w) : x < bl \/ last < x \/ ScreenBottomBufferLine(w) + 1 < x
<1> DEFINE bound == Greatest(v.top + v.height, v.start)
<1>1. v.top \in Nat /\ v.height \in Nat /\ v.start \in Int
    BY ViewFields DEF IsView, NoLine
<1>2. bound \in Int /\ v.top + v.height <= bound /\ v.start <= bound
    BY <1>1 DEF Greatest
<1> HIDE DEF bound
<1>3. Interval(t, v, bl, last, bound, UpdateBufferInterval(t, v, bl, last))
    BY <1>2, IntervalIsBrought
<1> QED BY <1>3 DEF Interval

-----------------------------------------------------------------------------
(* The cursor goes to a line.                                              *)
LEMMA MovingOn ==
    ASSUME NEW t, NEW v, Moving(v), NEW w, Moved(t, v, w)
    PROVE  Moving(w)
BY DEF Moving, Moved, MarkedIn, Alike

(* A view with the cache of a settled one is settled.                      *)
LEMMA SettledSame ==
    ASSUME NEW v, Settled(v), NEW w, IsView(w), SameCache(v, w)
    PROVE  Settled(w)
<1>1. Marks(w) = Marks(v) /\ Cached(w) = Cached(v) /\ (Locked(w) <=> Locked(v))
    BY SameCacheSame
<1> QED BY <1>1 DEF Settled, MarkedIn, Selected, SameCache

(* YDrawBuffer::scrollForViewCursor(): the line is on the screen.          *)
LEMMA ScrollForCursorShows ==
    ASSUME NEW t \in Seq(Lines), NEW v, IsView(v), NEW bl \in Nat
    PROVE  LET w == ScrollForViewCursor(t, v, bl).view
           IN  /\ w.top <= bl /\ bl <= ScreenBottomBufferLine(w)
               /\ bl < w.top + v.height
<1> DEFINE u == TargetBufferLine(t, v, bl)
           top == TopShowing(u, bl)
           beyond == u.top > LastBufferLine(u) + 1
           dead == u.dead \/ beyond
           up == [u EXCEPT !.top = bl, !.dead = dead]
           down == [u EXCEPT !.top = top]
           w == ScrollForViewCursor(t, v, bl).view
<1>1. w = IF bl < u.top THEN up ELSE IF bl > ScreenBottomBufferLine(u) THEN down ELSE u
    BY DEF ScrollForViewCursor, Scrolled
<1>2. IsView(u) /\ u.height = v.height /\ bl \in Cached(u)
    BY TargetSections, TargetKeeps DEF SameScreen, Alike
<1> HIDE DEF u
<1>3. u.top \in Nat /\ u.height \in Nat /\ 1 <= u.height /\ LastBufferLine(u) \in Int
      /\ bl <= LastBufferLine(u) /\ u.first \in Nat
    BY <1>2, ViewFields DEF Cached
<1>4. CASE bl < u.top
    <2>1. w = up /\ IsView(up) /\ up.top = bl /\ LastBufferLine(up) = LastBufferLine(u)
          /\ up.height = u.height
        <3>1. dead \in BOOLEAN /\ u.first <= bl /\ bl \in Nat
            BY <1>2, <1>3 DEF IsView, Cached
        <3> HIDE DEF dead
        <3> QED BY <1>1, <1>2, <1>3, <1>4, <3>1 DEF IsView, Fn, Fields, LastBufferLine
    <2> HIDE DEF up, w
    <2>2. bl <= ScreenBottomBufferLine(up)
        BY <1>3, <2>1, BottomFacts
    <2> QED BY <1>2, <1>3, <2>1, <2>2 DEF w
<1>5. CASE ~(bl < u.top) /\ bl > ScreenBottomBufferLine(u)
    <2>1. top \in u.first..bl /\ RowsBetween(u, top, bl + 1) <= u.height
        BY <1>2, TopShowingFits
    <2>2. top \in Nat /\ u.first <= top /\ top <= bl
        BY <1>3, <2>1
    <2> DEFINE to == top
    <2>3. w = down /\ IsView(down) /\ down.top = to /\ down.first = u.first
          /\ down.content = u.content /\ down.height = u.height
          /\ LastBufferLine(down) = LastBufferLine(u)
        <3>1. down = [u EXCEPT !.top = to]
            OBVIOUS
        <3>2. to \in Nat /\ u.first <= to
            BY <2>2
        <3> HIDE DEF to
        <3> QED BY <1>1, <1>2, <1>5, <3>1, <3>2 DEF IsView, Fn, Fields, LastBufferLine
    <2> DEFINE R == RowsBetween(u, to, bl)
               Q == RowsBetween(u, to, bl + 1)
    <2>4. Q <= u.height /\ to \in Int /\ u.first <= to /\ to <= bl
        BY <2>1, <2>2
    <2> HIDE DEF to, w, down
    <2>5. /\ Q = R + Count(Section(u, bl)) /\ R \in Nat /\ Count(Section(u, bl)) \in 1..u.height
          /\ bl - to <= R
        <3>1. Q = R + Count(Section(u, bl)) /\ Count(Section(u, bl)) \in 1..u.height
            <4>1. bl \in Int /\ to <= bl /\ bl <= LastBufferLine(u)
                BY <1>3, <2>4
            <4>2. \A b \in Int : to <= b /\ b <= LastBufferLine(u) =>
                      /\ Count(Section(u, b)) \in 1..u.height
                      /\ RowsBetween(u, to, b + 1) = RowsBetween(u, to, b) + Count(Section(u, b))
                BY <1>2, <2>4, RowFacts
            <4> QED BY <4>1, <4>2 DEF Q, R
        <3>2. R \in Nat
            BY <1>2, <2>4, RowFacts
        <3>3. bl \in Int /\ bl <= LastBufferLine(u) + 1
            BY <1>3
        <3>4. bl - to <= R
            BY <1>2, <2>4, <3>3, RowFacts
        <3> QED BY <3>1, <3>2, <3>4
    <2> HIDE DEF R, Q
    <2>6. R < u.height /\ bl < to + u.height
        BY <1>3, <2>4, <2>5
    <2>7. RowsBetween(down, to, bl) = R
        BY <1>2, <2>3, <2>4, RowsSame DEF R
    <2>8. bl <= ScreenBottomBufferLine(down)
        BY <1>3, <2>3, <2>6, <2>7, RowOnScreen
    <2> QED BY <1>2, <2>3, <2>4, <2>6, <2>8 DEF w
<1>6. CASE ~(bl < u.top) /\ ~(bl > ScreenBottomBufferLine(u))
    <2>1. w = u
        BY <1>1, <1>6
    <2>2. ScreenBottomBufferLine(u) \in Int /\ ScreenBottomBufferLine(u) < u.top + u.height
        BY <1>2, BottomFacts, BottomNear
    <2>3. bl < u.top + u.height /\ u.top <= bl /\ bl <= ScreenBottomBufferLine(u)
        BY <1>3, <1>6, <2>2
    <2> HIDE DEF w
    <2> QED BY <1>2, <2>1, <2>3 DEF w
<1> QED BY <1>4, <1>5, <1>6

(* What a command that ends at a line leaves.                              *)
Gone(t, v, bl, w) ==
    /\ Settled(w) /\ Balanced(v, w) /\ Wrong(t, w) \subseteq Wrong(t, v)
    /\ w.cursor = bl /\ w.height = v.height /\ w.start = v.start
    /\ w.cursor < w.top + w.height /\ CursorShown(w) /\ Grown(t, bl, v, w)

(* YView::gotoLine(): the view follows the cursor, then the selection.     *)
LEMMA GotoSettles ==
    ASSUME NEW t \in Seq(Lines), NEW v, Moving(v), NEW bl \in Nat
    PROVE  Gone(t, v, bl, GotoLine(t, v, bl))
<1> DEFINE u == [v EXCEPT !.cursor = bl]
           s == ScrollForViewCursor(t, u, bl)
           f == Follow(s)
           w == CursorMoved(t, f)
<1>1. GotoLine(t, v, bl) = w
    BY DEF GotoLine
<1>2. /\ IsView(u) /\ u.cursor = bl /\ u.first = v.first /\ u.content = v.content /\ u.start = v.start
      /\ u.selected = v.selected /\ u.level = v.level /\ u.pending = v.pending
      /\ u.height = v.height /\ u.top = v.top /\ u.dead = v.dead
    BY DEF Moving, IsView, Fn, Fields
<1> HIDE DEF u
<1>3. LastBufferLine(u) = LastBufferLine(v) /\ \A b : Section(u, b) = Section(v, b)
    BY <1>2 DEF LastBufferLine, Section
<1>4. Cached(u) = Cached(v)
    BY <1>2, <1>3 DEF Cached
<1>5. Marks(u) = Marks(v) /\ Wrong(t, u) = Wrong(t, v) /\ Locked(u) /\ MarkedIn(u)
      /\ (u.start = NoLine => Marks(u) = {})
    BY <1>2, <1>3, <1>4 DEF Marks, Wrong, Locked, MarkedIn, Moving
<1>16. Safely(t, v, u)
    BY <1>2, <1>3, SameGrown DEF SameLines
<1>6. Moved(t, u, s.view) /\ Grown(t, bl, u, s.view)
    BY <1>2, <1>5, ScrollForCursorMoves
<1>7. bl < s.view.top + u.height /\ CursorShown(s.view)
    <2>1. s.view.cursor = bl
        BY <1>2, <1>6 DEF Moved, Alike
    <2> QED BY <1>2, <2>1, ScrollForCursorShows DEF CursorShown
<1> HIDE DEF s
<1>8. Moved(t, s.view, f) /\ f.top = s.view.top /\ StillShown(s.view, f) /\ Safely(t, s.view, f)
    BY <1>6, FollowMoves DEF Moved
<1> HIDE DEF f
<1>9. Moved(t, u, f)
    BY <1>6, <1>8, MovedOn
<1>10. IsView(f) /\ Marks(f) \subseteq Marks(u) /\ f.selected = u.selected /\ f.start = u.start
       /\ f.cursor = bl /\ f.height = u.height /\ Balanced(u, f) /\ Wrong(t, f) \subseteq Wrong(t, u)
    BY <1>2, <1>9 DEF Moved, Alike
<1>11. MarkedIn(f) /\ (f.start = NoLine => Marks(f) = {})
    BY <1>5, <1>10 DEF MarkedIn
<1>12. Settled(w) /\ Chosen(t, f, w) /\ Grown(t, f.cursor, f, w)
    BY <1>10, <1>11, CursorMovedSettles
<1> HIDE DEF w
<1>13. /\ Balanced(v, w) /\ Wrong(t, w) \subseteq Wrong(t, v) /\ w.cursor = bl
       /\ w.height = v.height /\ w.start = v.start /\ w.top = s.view.top
    BY <1>2, <1>5, <1>8, <1>10, <1>12 DEF Chosen, Balanced, PendingIn
<1>14. w.cursor < w.top + w.height
    BY <1>2, <1>7, <1>13
<1>15. CursorShown(w)
    BY <1>7, <1>8, <1>12 DEF StillShown, Chosen
<1>17. Grown(t, bl, v, w)
    BY <1>6, <1>8, <1>10, <1>12, <1>16 DEF Grown, Safely
<1> QED BY <1>1, <1>12, <1>13, <1>14, <1>15, <1>17 DEF Gone

(* A command between the suspension of painting and its end.               *)
LEMMA BeginMoves ==
    ASSUME NEW v, Moving(v)
    PROVE  LET u == SetPaintAutoCommitOff(v)
           IN  /\ Moving(u) /\ SameCache(v, u) /\ \A t : Wrong(t, u) = Wrong(t, v)
               /\ ScreenBottomBufferLine(u) = ScreenBottomBufferLine(v)
<1> DEFINE u == SetPaintAutoCommitOff(v)
<1>1. IsView(u) /\ SameCache(v, u)
    BY OffKeeps DEF Moving
<1>2. Marks(u) = Marks(v) /\ (\A t : Wrong(t, u) = Wrong(t, v)) /\ (Locked(u) <=> Locked(v))
    BY <1>1, SameCacheSame
<1>3. ScreenBottomBufferLine(u) = ScreenBottomBufferLine(v)
    BY <1>1, BottomSame DEF Moving
<1> HIDE DEF u
<1> QED BY <1>1, <1>2, <1>3 DEF Moving, MarkedIn, SameCache, u

(* The end of a command commits what was suspended at its start.           *)
LEMMA EndedSettles ==
    ASSUME NEW s, IsView(s), NEW l, Settled(l), Balanced(SetPaintAutoCommitOff(s), l)
    PROVE  LET w == Ended(l)
           IN  /\ Settled(w) /\ SameCache(l, w) /\ Balanced(s, w) /\ StillShown(l, w)
               /\ \A t : Wrong(t, w) = Wrong(t, l)
<1> DEFINE w == CommitPaintEvent(l)
<1>1. Ended(l) = w
    BY DEF Ended
<1>2. IsView(l)
    BY DEF Settled
<1>3. IsView(w) /\ SameCache(l, w) /\ Balanced(s, w)
    BY <1>2, SuspendedLevel
<1> HIDE DEF w
<1>4. Settled(w) /\ \A t : Wrong(t, w) = Wrong(t, l)
    BY <1>3, SettledSame, SameCacheSame
<1>5. StillShown(l, w)
    BY <1>2, <1>3, PaintedShows
<1> QED BY <1>1, <1>3, <1>4, <1>5

(* YView::recalcScreen().                                                  *)
LEMMA RecalcSettles ==
    ASSUME NEW t \in Seq(Lines), t # <<>>, NEW v, Moving(v)
    PROVE  LET w == RecalcScreen(t, v)
           IN  /\ Settled(w) /\ w.level = v.level /\ PendingIn(w)
               /\ Wrong(t, w) \subseteq Wrong(t, v) \ {0}
               /\ w.height = v.height /\ w.start = v.start /\ w.cursor < w.top + w.height
               /\ CursorShown(w) /\ Grown(t, v.cursor, v, w)
<1> DEFINE s == SetPaintAutoCommitOff(v)
           u == UpdateBufferInterval(t, s, 0, Len(t) - 1)
           r == SendRefreshEvent(u)
           g == GotoLine(t, r, v.cursor)
           w == CommitPaintEvent(g)
<1>1. RecalcScreen(t, v) = w
    BY DEF RecalcScreen
<1>2. Moving(s) /\ SameCache(v, s) /\ Wrong(t, s) = Wrong(t, v) /\ s.level = v.level + 1
    BY BeginMoves, OffKeeps DEF Moving
<1> HIDE DEF s
<1>3. Len(t) \in Nat /\ 0 <= Len(t) - 1 /\ Len(t) - 1 \in Int
    BY EmptySeq, NewSections
<1>4. /\ Moved(t, s, u) /\ Safely(t, s, u)
      /\ \A x \in Wrong(t, u) : x < 0 \/ Len(t) - 1 < x \/ ScreenBottomBufferLine(u) + 1 < x
    <2>1. IsView(s) /\ Locked(s)
        BY <1>2 DEF Moving
    <2> DEFINE last == Len(t) - 1
               zero == 0
    <2>2. last \in Int /\ zero \in Int
        BY <1>3
    <2> HIDE DEF last, zero
    <2>3. LET x == UpdateBufferInterval(t, s, zero, last)
          IN  /\ Moved(t, s, x) /\ x.top = s.top /\ Kept(t, s, zero, last, x)
              /\ \A y \in Wrong(t, x) : y < zero \/ last < y \/ ScreenBottomBufferLine(x) + 1 < y
        BY <2>1, <2>2, IntervalMoves
    <2>4. LET x == UpdateBufferInterval(t, s, zero, last) IN Safely(t, s, x)
        BY <2>3, KeptSafely
    <2> QED BY <2>3, <2>4 DEF last, zero
<1> HIDE DEF u
<1>5. Moving(u) /\ IsView(u) /\ Locked(u)
    BY <1>2, <1>4, MovingOn DEF Moved
<1>6. 0 \notin Wrong(t, u)
    <2>1. u.first \in Nat /\ ScreenBottomBufferLine(u) \in Int /\ u.first - 1 <= ScreenBottomBufferLine(u)
        BY <1>5, ViewFields, BottomFacts
    <2>2. ~(0 < 0) /\ ~(Len(t) - 1 < 0) /\ ~(ScreenBottomBufferLine(u) + 1 < 0)
        BY <1>3, <2>1
    <2> QED BY <1>4, <2>2
<1>7. Painted(u, r) /\ PendingIn(r)
    BY <1>5, RefreshKeeps
<1> HIDE DEF r
<1>8. Moved(t, u, r)
    BY <1>5, <1>7, PaintedMoves
<1>9. Moving(r) /\ Wrong(t, r) \subseteq Wrong(t, u)
    BY <1>5, <1>8, MovingOn DEF Moved
<1>10. v.cursor \in Nat
    BY DEF Moving, IsView
<1>11. Gone(t, r, v.cursor, g)
    BY <1>9, <1>10, GotoSettles
<1> HIDE DEF g
<1>12. /\ Settled(g) /\ IsView(g) /\ PendingIn(g) /\ g.level = r.level /\ Wrong(t, g) \subseteq Wrong(t, r)
       /\ g.height = r.height /\ g.start = r.start /\ g.cursor < g.top + g.height
       /\ CursorShown(g)
    BY <1>7, <1>11 DEF Gone, Balanced, Settled
<1>13. r.level = v.level + 1 /\ r.height = v.height /\ r.start = v.start
    BY <1>2, <1>4, <1>8 DEF Moved, Alike, Balanced, SameCache
<1>14. /\ IsView(w) /\ SameCache(g, w) /\ w.level = (IF g.level <= 1 THEN 0 ELSE g.level - 1)
       /\ PendingIn(w)
    BY <1>12, CommitKeeps
<1> HIDE DEF w
<1>15. w.level = v.level
    <2>1. v.level \in Nat
        BY DEF Moving, IsView
    <2> QED BY <1>12, <1>13, <1>14, <2>1
<1>16. Settled(w) /\ Wrong(t, w) = Wrong(t, g)
    BY <1>12, <1>14, SettledSame, SameCacheSame
<1>17. Wrong(t, w) \subseteq Wrong(t, v) \ {0}
    BY <1>2, <1>4, <1>6, <1>9, <1>12, <1>16 DEF Moved
<1>18. w.height = v.height /\ w.start = v.start /\ w.cursor < w.top + w.height
    BY <1>12, <1>13, <1>14 DEF SameCache
<1>20. Grown(t, v.cursor, v, w)
    <2>1. Safely(t, v, s) /\ Safely(t, u, r) /\ Safely(t, g, w)
        BY <1>2, <1>7, <1>14, CacheGrown DEF Painted
    <2>2. Grown(t, v.cursor, r, g)
        BY <1>11 DEF Gone
    <2> QED BY <1>4, <2>1, <2>2 DEF Grown, Safely
<1>19. CursorShown(w)
    BY <1>12, <1>14, PaintedShows DEF StillShown
<1> QED BY <1>1, <1>14, <1>15, <1>16, <1>17, <1>18, <1>19, <1>20

-----------------------------------------------------------------------------
(* The invariant of the commands.                                          *)
(* The cursor that ends a selection is on the screen.                      *)
OnScreen(v) == v.start # NoLine /\ v.start # v.cursor => v.cursor < v.top + v.height
Inv ==
    /\ text \in Texts /\ Settled(view) /\ PendingIn(view)
    /\ view.level \in 0..MaxLevel /\ OnScreen(view) /\ view.start < Len(text)

(* The lines in the cache exist, and it goes on from the screen's top.     *)
Exist == Within(text, view) /\ Reaches(view)
(* So do those of x over the text t, if the lines the view counts on do.   *)
Spares(t, x) ==
    /\ Within(text, view) => Within(t, x)
    /\ Reaches(view) => Reaches(x)
    /\ Exist /\ Alive /\ InText /\ view.top < Len(t) /\ view.selected[1] < Len(t) => ~x.dead

(* What every step keeps, and steps that do not change the text.           *)
Resumed == view'.level = view.level
Followed == CursorShown(view') \/ StartVisual \/ Escape \/ TypeBelowText \/ EditElsewhere
Unedited ==
    /\ Inv' /\ Wrong(text', view') \subseteq Wrong(text, view)
    /\ Resumed \/ TypeBelowText
    /\ Followed /\ Spares(text', view')

(* A text has at least one line.                                           *)
LEMMA TextIsSeq ==
    ASSUME NEW t \in Texts
    PROVE  t \in Seq(Lines) /\ t # <<>> /\ Len(t) \in Nat /\ 1 <= Len(t)
<1>1. t \in Seq(Lines) /\ t # <<>>
    BY ScreenAssumption
<1> QED BY <1>1, EmptySeq, LenProperties

(* What a command starts from.                                             *)
LEMMA BeginView ==
    ASSUME Inv
    PROVE  /\ Moving(Begin) /\ IsView(Begin) /\ Locked(Begin) /\ SameCache(view, Begin)
           /\ \A t : Wrong(t, Begin) = Wrong(t, view)
           /\ Moving(view) /\ IsView(view) /\ Locked(view) /\ Settled(view)
           /\ text \in Seq(Lines) /\ Len(text) \in Nat /\ 1 <= Len(text)
<1>1. Moving(view) /\ Settled(view)
    BY SettledMoves DEF Inv
<1> QED BY <1>1, BeginMoves, TextIsSeq DEF Begin, Moving, Inv

(* A cursor on the screen is in the cache.                                 *)
LEMMA ShownReaches ==
    ASSUME NEW v, IsView(v), CursorShown(v)
    PROVE  Reaches(v)
<1>1. /\ v.top \in Nat /\ v.cursor \in Nat /\ LastBufferLine(v) \in Int
      /\ ScreenBottomBufferLine(v) \in Int /\ ScreenBottomBufferLine(v) <= LastBufferLine(v)
      /\ v.top <= v.cursor /\ v.cursor <= ScreenBottomBufferLine(v)
    BY ViewFields, BottomFacts DEF IsView, CursorShown
<1> QED BY <1>1 DEF Reaches

(* What is cached does not change when painting is suspended or resumed.   *)
LEMMA SpareSame ==
    ASSUME NEW t, NEW x, Spares(t, x), NEW y, SameCache(x, y)
    PROVE  Spares(t, y)
BY DEF Spares, Within, Reaches, SameCache, LastBufferLine

(* Commands start over lines that exist, if the view counts on no others.  *)
Ready == InText /\ Lives(text, Begin)
Fits(v) == (Within(text, Begin) => Within(text, v)) /\ (Ready => Lives(text, v))

(* A command that ends with the cursor on the screen.                      *)
LEMMA FitSpares ==
    ASSUME Inv, NEW x, IsView(x), Fits(x), CursorShown(x)
    PROVE  Spares(text, x)
<1>1. Safely(text, view, Begin)
    BY BeginView, CacheGrown
<1>2. Within(text, view) => Within(text, x)
    BY <1>1 DEF Fits, Safely
<1>3. ASSUME Exist, Alive, InText, view.top < Len(text), view.selected[1] < Len(text)
      PROVE  ~x.dead
    <2>1. Lives(text, view)
        BY <1>3 DEF Exist, Alive, Lives, Stays
    <2>2. Lives(text, x)
        BY <1>1, <1>3, <2>1 DEF Fits, Safely, Ready
    <2> QED BY <2>2 DEF Lives, Stays
<1> QED BY <1>2, <1>3, ShownReaches DEF Spares

(* A command that leaves a view settled, the text as it was.               *)
LEMMA ShowsKeeps ==
    ASSUME Inv, NEW x, Settled(x), Balanced(Begin, x), OnScreen(x), x.start < Len(text),
           Wrong(text, x) \subseteq Wrong(text, view), Shows(x),
           CursorShown(x) \/ StartVisual \/ Escape, Spares(text, x)
    PROVE  Unedited
<1>1. text' = text /\ view' = Ended(x)
    BY DEF Shows
<1>2. /\ Settled(view') /\ SameCache(x, view') /\ Balanced(view, view')
      /\ Wrong(text, view') = Wrong(text, x) /\ StillShown(x, view')
    BY <1>1, BeginView, EndedSettles DEF Begin
<1>3. PendingIn(view') /\ view'.level = view.level
    BY <1>2 DEF Inv, Balanced
<1>4. OnScreen(view') /\ view'.start = x.start
    BY <1>2 DEF OnScreen, SameCache
<1>5. Followed
    BY <1>2 DEF Followed, StillShown
<1>6. Spares(text', view')
    BY <1>1, <1>2, SpareSame
<1> QED BY <1>1, <1>2, <1>3, <1>4, <1>5, <1>6 DEF Inv, Unedited, Resumed

(* A motion: the view has moved, the cursor goes to a line.                *)
LEMMA MotionKeeps ==
    ASSUME Inv, NEW v, Moved(text, Begin, v), Fits(v), NEW bl \in Nat, Ready => bl < Len(text),
           Shows(GotoLine(text, v, bl))
    PROVE  Unedited
<1> DEFINE w == GotoLine(text, v, bl)
<1>1. Moving(v)
    BY BeginView, MovingOn
<1>2. Gone(text, v, bl, w)
    BY <1>1, BeginView, GotoSettles
<1> HIDE DEF w
<1>3. Settled(w) /\ Balanced(Begin, w) /\ OnScreen(w) /\ CursorShown(w)
    BY <1>2 DEF Gone, Moved, Alike, Balanced, OnScreen
<1>4. Wrong(text, w) \subseteq Wrong(text, view)
    BY <1>2, BeginView DEF Gone, Moved
<1>5. w.start = view.start /\ view.start < Len(text)
    BY <1>2, BeginView DEF Gone, Moved, Alike, SameCache, Inv
<1>6. Spares(text, w)
    <2>1. Grown(text, bl, v, w) /\ IsView(w)
        BY <1>2 DEF Gone, Settled
    <2>2. Fits(w)
        BY <2>1 DEF Fits, Grown
    <2> QED BY <1>3, <2>1, <2>2, FitSpares
<1> QED BY <1>3, <1>4, <1>5, <1>6, ShowsKeeps DEF w

(* Motions of the text and of the window.                                  *)
LEMMA MoveToKeeps ==
    ASSUME Inv, MoveTo \/ MoveInWindow
    PROVE  Unedited
<1>1. PICK bl \in BufferLines : Shows(GotoLine(text, Begin, bl))
    BY DEF MoveTo, MoveInWindow
<1>2. bl \in Nat /\ bl < Len(text)
    BY BeginView DEF BufferLines
<1>3. Moved(text, Begin, Begin)
    BY BeginView, MovedNot
<1>4. Fits(Begin)
    BY DEF Fits, Ready
<1> QED BY <1>1, <1>2, <1>3, <1>4, MotionKeeps

(* The screen scrolls first.                                               *)
LEMMA ScrolledMoves ==
    ASSUME Inv, NEW s, Moved(text, Begin, s.view), TopCached(s.view), NEW bl,
           Grown(text, bl, Begin, s.view), Ready => bl < Len(text)
    PROVE  Moved(text, Begin, Follow(s)) /\ TopCached(Follow(s)) /\ Fits(Follow(s))
<1>1. Moved(text, s.view, Follow(s)) /\ TopCached(Follow(s))
    BY FollowMoves DEF Moved
<1>2. Safely(text, s.view, Follow(s))
    BY BeginView, FollowMoves DEF Moved
<1>3. Fits(Follow(s))
    BY <1>2 DEF Fits, Ready, Safely, Grown
<1> QED BY <1>1, <1>3, MovedOn

(* The last line of such a screen exists.                                  *)
LEMMA BottomExists ==
    ASSUME NEW t \in Seq(Lines), NEW v, IsView(v), Lives(t, v)
    PROVE  ScreenBottomBufferLine(v) < Len(t)
<1>1. /\ v.top \in Nat /\ v.first \in Nat /\ v.first <= v.top /\ LastBufferLine(v) \in Int
      /\ ScreenBottomBufferLine(v) \in Int /\ ScreenBottomBufferLine(v) <= LastBufferLine(v)
      /\ Len(t) \in Nat
    BY ViewFields, BottomFacts, NewSections
<1>2. v.top < Len(t) /\ LastBufferLine(v) < Greatest(Len(t), v.first)
    BY DEF Lives, Stays, Within
<1> QED BY <1>1, <1>2 DEF Greatest

(* The same for the view when a command starts.                            *)
LEMMA ReadyBottom ==
    ASSUME Inv, Ready
    PROVE  ScreenBottomBufferLine(view) < Len(text)
<1>1. ScreenBottomBufferLine(Begin) < Len(text)
    BY BeginView, BottomExists DEF Ready
<1> QED BY <1>1, BeginView, BottomSame

(* YView::scrollPageUp() and scrollPageDown().                             *)
LEMMA ScrollPageKeeps ==
    ASSUME Inv, ScrollPageUp \/ ScrollPageDown
    PROVE  Unedited
<1>1. view.top \in Nat /\ ScreenBottomBufferLine(view) \in Int
    BY BeginView, ViewFields, BottomFacts
<1>2. CASE ScrollPageUp
    <2> DEFINE bl == Least(view.top + 1, Len(text) - 1)
               s == ScrollLineToBottom(text, Begin, bl)
    <2>1. bl \in Nat /\ bl < Len(text)
        BY <1>1, BeginView DEF Least
    <2>2. Shows(GotoLine(text, Follow(s), bl))
        BY <1>2 DEF ScrollPageUp
    <2> HIDE DEF bl
    <2>3. Moved(text, Begin, s.view) /\ TopCached(s.view) /\ Grown(text, bl, Begin, s.view)
        BY <2>1, BeginView, ScrollToBottomMoves
    <2> HIDE DEF s
    <2>4. Moved(text, Begin, Follow(s)) /\ Fits(Follow(s))
        BY <2>1, <2>3, ScrolledMoves
    <2> QED BY <2>1, <2>2, <2>4, MotionKeeps
<1>3. CASE ScrollPageDown
    <2> DEFINE bl == Greatest(ScreenBottomBufferLine(view) - 1, 0)
               s == ScrollLineToTop(text, Begin, bl)
    <2>1. bl \in Nat
        BY <1>1 DEF Greatest
    <2>5. Ready => bl < Len(text)
        BY <1>1, BeginView, ReadyBottom DEF Greatest
    <2>2. Shows(GotoLine(text, Follow(s), bl))
        BY <1>3 DEF ScrollPageDown
    <2> HIDE DEF bl
    <2>3. Moved(text, Begin, s.view) /\ TopCached(s.view) /\ Grown(text, bl, Begin, s.view)
        BY <2>1, BeginView, ScrollToTopMoves
    <2> HIDE DEF s
    <2>4. Moved(text, Begin, Follow(s)) /\ Fits(Follow(s))
        BY <2>3, <2>5, ScrolledMoves
    <2> QED BY <2>1, <2>2, <2>4, <2>5, MotionKeeps
<1> QED BY <1>2, <1>3

(* YView::scrollLineUp() and scrollLineDown().                             *)
LEMMA ScrollLineKeeps ==
    ASSUME Inv, ScrollLineUp \/ ScrollLineDown
    PROVE  Unedited
<1>1. view.cursor \in Nat
    BY BeginView DEF IsView
<1>2. PICK bl \in Nat : ScrollLine(bl) /\ bl < Len(text)
    <2>1. view.cursor < Len(text)
        BY DEF ScrollLineUp, ScrollLineDown, Command, InText
    <2>2. /\ Greatest(view.cursor - 1, 0) \in Nat /\ Greatest(view.cursor - 1, 0) < Len(text)
          /\ Least(view.cursor + 1, Len(text) - 1) \in Nat
          /\ Least(view.cursor + 1, Len(text) - 1) < Len(text)
        BY <1>1, <2>1, BeginView DEF Greatest, Least
    <2> QED BY <2>2 DEF ScrollLineUp, ScrollLineDown
<1> DEFINE s == ScrollLineToTop(text, Begin, bl)
           v == Follow(s)
           to == NearestOnScreen(v)
<1>3. Shows(GotoLine(text, v, to))
    BY <1>2 DEF ScrollLine
<1>4. Moved(text, Begin, s.view) /\ TopCached(s.view) /\ Grown(text, bl, Begin, s.view)
    BY BeginView, ScrollToTopMoves
<1> HIDE DEF s
<1>5. Moved(text, Begin, v) /\ TopCached(v) /\ Fits(v)
    BY <1>2, <1>4, ScrolledMoves
<1> HIDE DEF v
<1>6. to \in Nat
    <2>1. IsView(v)
        BY <1>5 DEF Moved
    <2>2. /\ ScreenBottomBufferLine(v) \in Int /\ v.top <= ScreenBottomBufferLine(v)
          /\ v.top \in Nat /\ v.cursor \in Nat
        BY <1>5, <2>1, BottomFacts, ViewFields DEF TopCached, IsView
    <2> QED BY <2>2 DEF NearestOnScreen
<1>7. ASSUME Ready PROVE to < Len(text)
    <2>1. IsView(v) /\ Lives(text, v) /\ v.cursor = view.cursor
        BY <1>5, <1>7, BeginView DEF Moved, Fits, Alike, SameCache
    <2>2. ScreenBottomBufferLine(v) < Len(text) /\ v.top < Len(text) /\ v.cursor < Len(text)
        BY <1>7, <2>1, BeginView, BottomExists DEF Lives, Ready, InText
    <2> QED BY <2>2 DEF NearestOnScreen
<1> QED BY <1>3, <1>5, <1>6, <1>7, MotionKeeps

(* z with return, a dot or a dash.                                         *)
LEMMA GotoLineKeeps ==
    ASSUME Inv, GotoLineAtTop \/ GotoLineAtCenter \/ GotoLineAtBottom
    PROVE  Unedited
<1>0. PICK bl \in BufferLines :
          \E s \in {ScrollLineToTop(text, Begin, bl), ScrollLineToCenter(text, Begin, bl),
                    ScrollLineToBottom(text, Begin, bl)} : Shows(GotoLine(text, Follow(s), bl))
    BY DEF GotoLineAtTop, GotoLineAtCenter, GotoLineAtBottom
<1>1. PICK s \in {ScrollLineToTop(text, Begin, bl), ScrollLineToCenter(text, Begin, bl),
                  ScrollLineToBottom(text, Begin, bl)} : Shows(GotoLine(text, Follow(s), bl))
    BY <1>0
<1>2. bl \in Nat /\ bl < Len(text)
    BY BeginView DEF BufferLines
<1>3. Moved(text, Begin, s.view) /\ TopCached(s.view) /\ Grown(text, bl, Begin, s.view)
    BY <1>2, BeginView, ScrollToTopMoves, ScrollToCenterMoves, ScrollToBottomMoves
<1>4. Moved(text, Begin, Follow(s)) /\ Fits(Follow(s))
    BY <1>2, <1>3, ScrolledMoves
<1> QED BY <1>1, <1>2, <1>4, MotionKeeps

(* v: the selection starts at the cursor.                                  *)
LEMMA StartVisualKeeps ==
    ASSUME Inv, StartVisual
    PROVE  Unedited
<1> DEFINE v == [Begin EXCEPT !.start = Begin.cursor]
           w == CursorMoved(text, v)
<1>1. Shows(w) /\ view.start = NoLine
    BY DEF StartVisual, EnterVisual, Visual
<1>2. Moving(Begin) /\ IsView(Begin) /\ Begin.start = NoLine
    BY <1>1, BeginView DEF SameCache
<1>3. Marks(Begin) = {}
    BY <1>2 DEF Moving
<1>4. /\ IsView(v) /\ v.first = Begin.first /\ v.content = Begin.content /\ v.level = Begin.level
      /\ v.pending = Begin.pending /\ v.height = Begin.height /\ v.start = v.cursor
      /\ v.cursor = Begin.cursor /\ v.top = Begin.top /\ v.dead = Begin.dead
      /\ v.selected = Begin.selected
    BY <1>2 DEF IsView, Fn, Fields
<1> HIDE DEF v
<1>5. LastBufferLine(v) = LastBufferLine(Begin) /\ \A b : Section(v, b) = Section(Begin, b)
    BY <1>4 DEF LastBufferLine, Section
<1>6. Cached(v) = Cached(Begin)
    BY <1>4, <1>5 DEF Cached
<1>7. Marks(v) = {} /\ Wrong(text, v) = Wrong(text, Begin)
    BY <1>3, <1>5, <1>6 DEF Marks, Wrong
<1>8. Settled(w) /\ Chosen(text, v, w) /\ Grown(text, v.cursor, v, w)
    BY <1>4, <1>7, BeginView, CursorMovedSettles DEF MarkedIn
<1> HIDE DEF w
<1>9. Balanced(Begin, w) /\ OnScreen(w) /\ Wrong(text, w) \subseteq Wrong(text, view)
    BY <1>4, <1>7, <1>8, BeginView DEF Chosen, Balanced, PendingIn, OnScreen
<1>10. w.start < Len(text)
    <2>1. w.start = Begin.cursor /\ Begin.cursor = view.cursor /\ view.cursor < Len(text)
        BY <1>4, <1>8, BeginView DEF Chosen, SameCache, StartVisual, Command, InText
    <2> QED BY <2>1
<1>11. Spares(text, w)
    <2>1. SameLines(view, v) /\ v.selected = view.selected /\ v.cursor = view.cursor
        BY <1>4, <1>5, BeginView DEF SameLines, SameCache, LastBufferLine
    <2>2. Safely(text, view, v) /\ (Reaches(view) => Reaches(v))
        BY <2>1, SameGrown DEF Reaches, SameLines
    <2>3. Reaches(view) => Reaches(w)
        BY <1>4, <1>8, <2>2, ChosenReaches
    <2>4. view.cursor < Len(text)
        BY DEF StartVisual, Command, InText
    <2> QED BY <1>8, <2>1, <2>2, <2>3, <2>4 DEF Spares, Exist, Alive, Lives, Stays, Safely, Grown
<1> QED BY <1>1, <1>8, <1>9, <1>10, <1>11, ShowsKeeps DEF w

(* Escape leaves the visual modes.                                         *)
LEMMA EscapeKeeps ==
    ASSUME Inv, Escape
    PROVE  Unedited
<1> DEFINE w == LeaveVisual(text, Begin)
<1>1. Shows(w)
    BY DEF Escape
<1>2. /\ Settled(w) /\ Balanced(Begin, w) /\ Wrong(text, w) \subseteq Wrong(text, Begin)
      /\ w.start = NoLine /\ Safely(text, Begin, w) /\ (Reaches(Begin) => Reaches(w))
    BY BeginView, LeaveSettles DEF Moving
<1> HIDE DEF w
<1>3. OnScreen(w) /\ w.start < Len(text)
    BY <1>2, BeginView DEF OnScreen, NoLine
<1>4. Spares(text, w)
    <2>1. Safely(text, view, Begin) /\ (Reaches(view) => Reaches(Begin))
        BY BeginView, CacheGrown DEF Reaches, SameCache, LastBufferLine
    <2> QED BY <1>2, <2>1 DEF Spares, Exist, Alive, Lives, Stays, Safely
<1> QED BY <1>1, <1>2, <1>3, <1>4, BeginView, ShowsKeeps

(* C-l draws the screen again.                                             *)
LEMMA RedisplayKeeps ==
    ASSUME Inv, Redisplay
    PROVE  Unedited
<1> DEFINE w == RecalcScreen(text, Begin)
<1>1. Shows(w)
    BY DEF Redisplay
<1>2. /\ Settled(w) /\ w.level = Begin.level /\ PendingIn(w)
      /\ Wrong(text, w) \subseteq Wrong(text, Begin) \ {0} /\ w.cursor < w.top + w.height
      /\ w.start = Begin.start /\ CursorShown(w) /\ Grown(text, Begin.cursor, Begin, w)
    BY BeginView, TextIsSeq, RecalcSettles DEF Inv
<1> HIDE DEF w
<1>3. Balanced(Begin, w) /\ OnScreen(w) /\ Wrong(text, w) \subseteq Wrong(text, view)
    BY <1>2, BeginView DEF Balanced, OnScreen
<1>4. w.start < Len(text)
    BY <1>2, BeginView DEF SameCache, Inv
<1>5. Spares(text, w)
    <2>1. Ready => Begin.cursor < Len(text)
        BY BeginView DEF Ready, InText, SameCache
    <2>2. Fits(w)
        BY <1>2, <2>1 DEF Fits, Ready, Grown
    <2> QED BY <1>2, <2>2, FitSpares DEF Settled
<1> QED BY <1>1, <1>2, <1>3, <1>4, <1>5, ShowsKeeps

(* A window of another height.                                             *)
LEMMA SetVisibleAreaKeeps ==
    ASSUME Inv, SetVisibleArea
    PROVE  Unedited
<1>1. PICK h \in Heights :
          /\ text' = text
          /\ view' = RecalcScreen(text,
                [view EXCEPT !.height = h,
                   !.screen = [r \in 0..h - 1 |-> IF r \in DOMAIN @ THEN @[r] ELSE Row(Fake, 0, FALSE)]])
    BY DEF SetVisibleArea
<1> DEFINE rows == [r \in 0..h - 1 |-> IF r \in DOMAIN view.screen THEN view.screen[r]
                                       ELSE Row(Fake, 0, FALSE)]
           v == [view EXCEPT !.height = h, !.screen = rows]
<1>2. view' = RecalcScreen(text, v)
    BY <1>1
<1>3. DOMAIN rows = 0..h - 1
    OBVIOUS
<1> HIDE DEF rows
<1>4. /\ IsView(v) /\ v.first = view.first /\ v.content = view.content /\ v.level = view.level
      /\ v.start = view.start /\ v.selected = view.selected /\ v.top = view.top
      /\ v.dead = view.dead /\ v.cursor = view.cursor
    BY <1>3, BeginView DEF IsView, Fn, Fields
<1> HIDE DEF v
<1>5. LastBufferLine(v) = LastBufferLine(view) /\ \A b : Section(v, b) = Section(view, b)
    BY <1>4 DEF LastBufferLine, Section
<1>6. Cached(v) = Cached(view)
    BY <1>4, <1>5 DEF Cached
<1>7. Marks(v) = Marks(view) /\ Wrong(text, v) = Wrong(text, view)
    BY <1>5, <1>6 DEF Marks, Wrong
<1>8. Moving(v)
    BY <1>4, <1>7, BeginView DEF Moving, Locked, MarkedIn
<1>9. /\ Settled(view') /\ view'.level = view.level /\ PendingIn(view')
      /\ Wrong(text, view') \subseteq Wrong(text, view) \ {0}
      /\ view'.cursor < view'.top + view'.height /\ view'.start = view.start
      /\ CursorShown(view') /\ Grown(text, v.cursor, v, view')
    BY <1>2, <1>4, <1>7, <1>8, BeginView, TextIsSeq, RecalcSettles DEF Inv
<1>10. Spares(text, view')
    <2>1. Safely(text, view, v)
        BY <1>4, <1>5, SameGrown DEF SameLines
    <2>2. Reaches(view')
        BY <1>9, ShownReaches DEF Settled
    <2> QED BY <1>4, <1>9, <2>1, <2>2
            DEF Spares, Exist, Alive, InText, Lives, Stays, Safely, Grown
<1> QED BY <1>1, <1>9, <1>10 DEF Unedited, Inv, OnScreen, Resumed, Followed

(* insertChar() without a line leaves painting suspended.                  *)
LEMMA TypeBelowTextKeeps ==
    ASSUME Inv, TypeBelowText
    PROVE  Unedited
<1> DEFINE u == SetPaintAutoCommitOff(Begin)
<1>1. text' = text /\ view' = CommitPaintEvent(u) /\ view.level < MaxLevel
    BY DEF TypeBelowText, Shows, Ended
<1>2. IsView(u) /\ SameCache(Begin, u) /\ u.level = Begin.level + 1 /\ u.pending = Begin.pending
    BY BeginView, OffKeeps
<1>3. Begin.level = view.level + 1 /\ Begin.pending = view.pending
    BY BeginView, OffKeeps DEF Begin
<1> HIDE DEF u
<1>4. /\ IsView(view') /\ SameCache(u, view')
      /\ view'.level = (IF u.level <= 1 THEN 0 ELSE u.level - 1)
      /\ PendingIn(u) => PendingIn(view')
    BY <1>1, <1>2, CommitKeeps
<1>5. SameCache(view, view')
    BY <1>2, <1>4, BeginView DEF SameCache
<1>6. Settled(view') /\ Wrong(text, view') = Wrong(text, view)
    BY <1>4, <1>5, BeginView, SettledSame, SameCacheSame
<1>7. PendingIn(view')
    BY <1>2, <1>3, <1>4, BeginView DEF PendingIn, SameCache, Inv
<1>8. view'.level \in 0..MaxLevel
    <2>1. MaxLevel \in Nat /\ view.level \in Nat
        BY ScreenAssumption, BeginView DEF IsView
    <2> QED BY <1>1, <1>2, <1>3, <1>4, <2>1
<1>9. OnScreen(view') /\ view'.start = view.start
    BY <1>5 DEF OnScreen, SameCache, Inv
<1>10. Spares(text', view')
    BY <1>1, <1>5 DEF Spares, Exist, Alive, Within, Reaches, SameCache, LastBufferLine
<1> QED BY <1>1, <1>6, <1>7, <1>8, <1>9, <1>10 DEF Unedited, Inv, Resumed, Followed

-----------------------------------------------------------------------------
(* Edits.                                                                  *)
(* The parts of a sequence before and after an element.                    *)
LEMMA Parts ==
    ASSUME NEW S, NEW s \in Seq(S), NEW n \in Nat, n <= Len(s), NEW from \in Int, 1 <= from,
           from <= Len(s) + 1
    PROVE  /\ SubSeq(s, 1, n) \in Seq(S) /\ Len(SubSeq(s, 1, n)) = n
           /\ \A i \in 1..n : SubSeq(s, 1, n)[i] = s[i]
           /\ SubSeq(s, from, Len(s)) \in Seq(S)
           /\ Len(SubSeq(s, from, Len(s))) = Len(s) - from + 1
           /\ \A i \in 1..Len(s) - from + 1 : SubSeq(s, from, Len(s))[i] = s[from + i - 1]
<1> DEFINE m == Len(s)
<1>1. m \in Nat /\ n <= m /\ from <= m + 1 /\ \A i \in 1..m : s[i] \in S
    BY LenProperties, ElementOfSeq
<1> HIDE DEF m
<1>2. \A i \in 1..n : s[i] \in S
    BY <1>1
<1>3. \A i \in from..m : s[i] \in S
    BY <1>1
<1>4. /\ SubSeq(s, 1, n) \in Seq(S) /\ Len(SubSeq(s, 1, n)) = (IF 1 <= n THEN n - 1 + 1 ELSE 0)
      /\ \A i \in 1..n - 1 + 1 : SubSeq(s, 1, n)[i] = s[1 + i - 1]
    <2>1. 1 \in Int /\ n \in Int
        OBVIOUS
    <2> QED BY <1>2, <2>1, SubSeqProperties
<1>5. /\ SubSeq(s, from, m) \in Seq(S)
      /\ Len(SubSeq(s, from, m)) = (IF from <= m THEN m - from + 1 ELSE 0)
      /\ \A i \in 1..m - from + 1 : SubSeq(s, from, m)[i] = s[from + i - 1]
    <2>1. m \in Int
        BY <1>1
    <2> QED BY <1>3, <2>1, SubSeqProperties
<1>6. (IF 1 <= n THEN n - 1 + 1 ELSE 0) = n /\ n - 1 + 1 = n /\ \A i \in 1..n : 1 + i - 1 = i
    OBVIOUS
<1>7. (IF from <= m THEN m - from + 1 ELSE 0) = m - from + 1
    BY <1>1
<1> QED BY <1>4, <1>5, <1>6, <1>7 DEF m

(* A sequence without one of its elements.                                 *)
LEMMA RemovedOne ==
    ASSUME NEW S, NEW s \in Seq(S), NEW k \in 1..Len(s)
    PROVE  LET r == RemoveAt(s, k)
           IN  /\ r \in Seq(S) /\ Len(r) = Len(s) - 1
               /\ \A i \in 1..k - 1 : r[i] = s[i]
               /\ \A i \in k..Len(s) - 1 : r[i] = s[i + 1]
<1> DEFINE n == Len(s)
           a == SubSeq(s, 1, k - 1)
           b == SubSeq(s, k + 1, n)
           r == a \o b
<1>1. RemoveAt(s, k) = r
    BY DEF RemoveAt
<1>2. n \in Nat /\ k \in Int /\ 1 <= k /\ k <= n
    BY LenProperties
<1>3. /\ a \in Seq(S) /\ Len(a) = k - 1 /\ \A i \in 1..k - 1 : a[i] = s[i]
      /\ b \in Seq(S) /\ Len(b) = n - (k + 1) + 1
      /\ \A i \in 1..n - (k + 1) + 1 : b[i] = s[(k + 1) + i - 1]
    <2> DEFINE p == k - 1  q == k + 1
    <2>1. p \in Nat /\ p <= n /\ q \in Int /\ 1 <= q /\ q <= n + 1
        BY <1>2
    <2> HIDE DEF p, q
    <2>2. /\ SubSeq(s, 1, p) \in Seq(S) /\ Len(SubSeq(s, 1, p)) = p
          /\ \A i \in 1..p : SubSeq(s, 1, p)[i] = s[i]
          /\ SubSeq(s, q, n) \in Seq(S) /\ Len(SubSeq(s, q, n)) = n - q + 1
          /\ \A i \in 1..n - q + 1 : SubSeq(s, q, n)[i] = s[q + i - 1]
        BY <2>1, Parts
    <2> QED BY <2>2 DEF p, q
<1> HIDE DEF a, b
<1>4. /\ r \in Seq(S) /\ Len(r) = Len(a) + Len(b)
      /\ \A i \in 1..Len(a) : r[i] = a[i]
      /\ \A i \in 1..Len(b) : r[Len(a) + i] = b[i]
    <2>1. a \in Seq(S) /\ b \in Seq(S)
        BY <1>3
    <2> QED BY <2>1, ConcatTwo
<1> HIDE DEF r, n
<1>5. Len(r) = n - 1
    BY <1>2, <1>3, <1>4
<1>6. \A i \in 1..k - 1 : r[i] = s[i]
    BY <1>3, <1>4
<1>7. \A i \in k..n - 1 : r[i] = s[i + 1]
    <2> TAKE i \in k..n - 1
    <2> DEFINE j == i - (k - 1)
    <2>1. j \in 1..n - (k + 1) + 1 /\ (k - 1) + j = i /\ (k + 1) + j - 1 = i + 1
        BY <1>2
    <2> HIDE DEF j
    <2>2. r[(k - 1) + j] = b[j]
        BY <1>3, <1>4, <2>1
    <2>3. b[j] = s[(k + 1) + j - 1]
        BY <1>3, <2>1
    <2> QED BY <2>1, <2>2, <2>3
<1> QED BY <1>1, <1>4, <1>5, <1>6, <1>7 DEF n

(* A sequence with one element more.                                       *)
LEMMA InsertedOne ==
    ASSUME NEW S, NEW s \in Seq(S), NEW e \in S, NEW k \in 1..Len(s) + 1
    PROVE  LET r == InsertAt(s, k, e)
           IN  /\ r \in Seq(S) /\ Len(r) = Len(s) + 1
               /\ \A i \in 1..k - 1 : r[i] = s[i]
<1> DEFINE n == Len(s)
           a == SubSeq(s, 1, k - 1)
           b == SubSeq(s, k, n)
           c == << e >>
           r == a \o c \o b
<1>1. InsertAt(s, k, e) = r
    BY DEF InsertAt
<1>2. n \in Nat /\ k \in Int /\ 1 <= k /\ k <= n + 1
    BY LenProperties
<1>3. /\ a \in Seq(S) /\ Len(a) = k - 1 /\ \A i \in 1..k - 1 : a[i] = s[i]
      /\ b \in Seq(S) /\ Len(b) = n - k + 1
    <2> DEFINE p == k - 1
    <2>1. p \in Nat /\ p <= n /\ k \in Int /\ 1 <= k /\ k <= n + 1
        BY <1>2
    <2> HIDE DEF p
    <2>2. /\ SubSeq(s, 1, p) \in Seq(S) /\ Len(SubSeq(s, 1, p)) = p
          /\ \A i \in 1..p : SubSeq(s, 1, p)[i] = s[i]
          /\ SubSeq(s, k, n) \in Seq(S) /\ Len(SubSeq(s, k, n)) = n - k + 1
        BY <2>1, Parts
    <2> QED BY <2>2 DEF p
<1>4. c \in Seq(S) /\ Len(c) = 1
    OBVIOUS
<1> HIDE DEF a, b, c
<1>5. r \in Seq(S) /\ Joins(r, a, c, b)
    <2>1. a \in Seq(S) /\ b \in Seq(S) /\ c \in Seq(S)
        BY <1>3, <1>4
    <2> QED BY ONLY <2>1, ConcatThree
<1> HIDE DEF r, n
<1>6. Len(r) = n + 1 /\ \A i \in 1..k - 1 : r[i] = s[i]
    BY <1>2, <1>3, <1>4, <1>5 DEF Joins
<1> QED BY <1>1, <1>5, <1>6 DEF n

(* The lines an edit does not name are those of the text before it.  One   *)
(* that takes a line away names all from it to the end.                    *)
Local(t, edit) ==
    /\ edit.to \in Seq(Lines) /\ edit.from \in Int /\ edit.last \in Int
    /\ \/ Len(t) <= Len(edit.to)
       \/ /\ Len(t) = Len(edit.to) + 1 /\ edit.from <= Len(edit.to)
          /\ Len(edit.to) <= edit.last
    /\ \A x \in Nat : x < edit.from \/ edit.last < x =>
          SectionOf(edit.to, x).line = SectionOf(t, x).line

(* A changed line.                                                         *)
LEMMA ChangedIsLocal ==
    ASSUME NEW t \in Seq(Lines), NEW bl \in Nat, bl < Len(t), NEW line \in Lines
    PROVE  /\ Local(t, Changed(t, bl, line))
           /\ Len(Changed(t, bl, line).to) = Len(t)
           /\ \A i \in 1..Len(t) : Changed(t, bl, line).to[i] = IF i = bl + 1 THEN line ELSE t[i]
<1> DEFINE to == [t EXCEPT ![bl + 1] = line]
           n == Len(t)
<1>1. Changed(t, bl, line).to = to /\ Changed(t, bl, line).from = bl /\ Changed(t, bl, line).last = bl
    BY DEF Changed
<1>2. n \in Nat /\ bl + 1 \in 1..n
    BY LenProperties
<1>3. to \in Seq(Lines) /\ Len(to) = n /\ \A i \in 1..n : to[i] = IF i = bl + 1 THEN line ELSE t[i]
    BY <1>2, ExceptSeq
<1> HIDE DEF to
<1>4. ASSUME NEW x \in Nat, x < bl \/ bl < x
      PROVE  SectionOf(to, x).line = SectionOf(t, x).line
    <2>1. /\ SectionOf(to, x).line = IF x < Len(to) THEN to[x + 1] ELSE Nothing
          /\ SectionOf(t, x).line = IF x < Len(t) THEN t[x + 1] ELSE Nothing
        BY DEF SectionOf
    <2>2. x < n => x + 1 \in 1..n /\ x + 1 # bl + 1
        BY <1>2, <1>4
    <2> QED BY <1>3, <2>1, <2>2
<1> QED BY <1>1, <1>3, <1>4 DEF Local

(* A line opened below another, which may change too.                      *)
LEMMA OpenedIsLocal ==
    ASSUME NEW t \in Seq(Lines), NEW bl \in Nat, bl < Len(t), NEW line \in Lines, NEW new \in Lines
    PROVE  /\ Local(t, Opened(t, bl, line, new))
           /\ Len(Opened(t, bl, line, new).to) = Len(t) + 1
<1> DEFINE u == [t EXCEPT ![bl + 1] = line]
           to == InsertAt(u, bl + 2, new)
           n == Len(t)
<1>1. /\ Opened(t, bl, line, new).to = to /\ Opened(t, bl, line, new).from = bl
      /\ Opened(t, bl, line, new).last = n
    BY DEF Opened
<1>2. n \in Nat /\ bl + 1 \in 1..n /\ bl + 2 \in 1..n + 1
    BY LenProperties
<1>3. u \in Seq(Lines) /\ Len(u) = n /\ \A i \in 1..n : u[i] = IF i = bl + 1 THEN line ELSE t[i]
    BY <1>2, ExceptSeq
<1> HIDE DEF u
<1>4. /\ to \in Seq(Lines) /\ Len(to) = n + 1
      /\ \A i \in 1..(bl + 2) - 1 : to[i] = u[i]
    <2> DEFINE k == bl + 2
    <2>1. k \in 1..Len(u) + 1
        BY <1>2, <1>3
    <2> HIDE DEF k
    <2>2. LET x == InsertAt(u, k, new)
          IN  /\ x \in Seq(Lines) /\ Len(x) = Len(u) + 1
              /\ \A i \in 1..k - 1 : x[i] = u[i]
        BY <1>3, <2>1, InsertedOne
    <2> QED BY <1>3, <2>2 DEF k
<1>6. Len(t) <= Len(to)
    BY <1>2, <1>4
<1> HIDE DEF to, n
<1>5. ASSUME NEW x \in Nat, x < bl \/ n < x
      PROVE  SectionOf(to, x).line = SectionOf(t, x).line
    <2>1. /\ SectionOf(to, x).line = IF x < Len(to) THEN to[x + 1] ELSE Nothing
          /\ SectionOf(t, x).line = IF x < n THEN t[x + 1] ELSE Nothing
        BY DEF SectionOf, n
    <2>2. CASE x < bl
        <3>1. x + 1 \in 1..(bl + 2) - 1 /\ x + 1 \in 1..n /\ x + 1 # bl + 1 /\ x < n /\ x < n + 1
            BY <1>2, <2>2
        <3> QED BY <1>3, <1>4, <2>1, <3>1
    <2>3. CASE n < x
        <3>1. ~(x < n + 1) /\ ~(x < n)
            BY <1>2, <2>3
        <3> QED BY <1>4, <2>1, <3>1
    <2> QED BY <1>5, <2>2, <2>3
<1> QED BY <1>1, <1>2, <1>4, <1>5, <1>6 DEF Local, n

(* A deleted line: those after it come one line up.                        *)
LEMMA LineDeletedIsLocal ==
    ASSUME NEW t \in Seq(Lines), NEW bl \in Nat, bl < Len(t)
    PROVE  LET to == LineDeleted(t, bl).to
           IN  /\ Local(t, LineDeleted(t, bl))
               /\ Len(to) = Len(t) - 1
               /\ \A i \in 1..bl : to[i] = t[i]
               /\ \A i \in bl + 1..Len(t) - 1 : to[i] = t[i + 1]
<1> DEFINE to == RemoveAt(t, bl + 1)
           n == Len(t)
           from == IF bl = n - 1 THEN bl - 1 ELSE bl
<1>1. /\ LineDeleted(t, bl).to = to /\ LineDeleted(t, bl).from = from
      /\ LineDeleted(t, bl).last = n - 1
    BY DEF LineDeleted
<1>2. n \in Nat /\ bl + 1 \in 1..n
    BY LenProperties
<1>3. /\ to \in Seq(Lines) /\ Len(to) = n - 1
      /\ \A i \in 1..(bl + 1) - 1 : to[i] = t[i]
      /\ \A i \in bl + 1..n - 1 : to[i] = t[i + 1]
    BY <1>2, RemovedOne
<1>4. from \in Int /\ from <= bl /\ (bl + 1) - 1 = bl
    BY <1>2
<1>8. n = Len(to) + 1 /\ from <= Len(to) /\ Len(to) <= n - 1
    BY <1>2, <1>3
<1> HIDE DEF to, from
<1>9. Len(t) = Len(to) + 1
    BY <1>8
<1> HIDE DEF n
<1>5. ASSUME NEW x \in Nat, x < from \/ n - 1 < x
      PROVE  SectionOf(to, x).line = SectionOf(t, x).line
    <2>1. /\ SectionOf(to, x).line = IF x < Len(to) THEN to[x + 1] ELSE Nothing
          /\ SectionOf(t, x).line = IF x < n THEN t[x + 1] ELSE Nothing
        BY DEF SectionOf, n
    <2>2. CASE x < from
        <3>1. x + 1 \in 1..bl /\ x < n /\ x < n - 1
            BY <1>2, <1>4, <2>2
        <3> QED BY <1>3, <1>4, <2>1, <3>1
    <2>3. CASE n - 1 < x
        <3>1. ~(x < n - 1) /\ ~(x < n)
            BY <1>2, <2>3
        <3> QED BY <1>3, <2>1, <3>1
    <2> QED BY <1>5, <2>2, <2>3
<1>6. n - 1 \in Int
    BY <1>2
<1>7. Local(t, LineDeleted(t, bl))
    BY <1>1, <1>3, <1>4, <1>5, <1>6, <1>8, <1>9 DEF Local
<1> QED BY <1>1, <1>3, <1>4, <1>7 DEF n

(* After an edit of t into the text to w shows no line that does not exist *)
(* if v showed none, and the top of the screen is still there.             *)
Outlives(t, v, to, w) ==
    /\ Within(t, v) => Within(to, w)
    /\ Stays(t, v) /\ v.top < Len(to) => Stays(to, w)

(* An update for an edit keeps the cache within the text.                  *)
LEMMA KeptOutlives ==
    ASSUME NEW t \in Seq(Lines), NEW edit, Local(t, edit), NEW v, NEW w,
           Kept(edit.to, v, edit.from, edit.last, w), IsView(v)
    PROVE  Outlives(t, v, edit.to, w)
<1> DEFINE n == Len(edit.to)
           m == Len(t)
           a == LastBufferLine(v)
           e == LastBufferLine(w)
<1>1. n \in Nat /\ m \in Nat /\ v.first \in Nat /\ a \in Int
    BY ViewFields, LenProperties DEF Local
<1>2. /\ w.dead = v.dead
      /\ a < Greatest(n, v.first) => e < Greatest(n, w.first)
      /\ edit.last >= n /\ edit.from <= n /\ a < Greatest(n + 1, v.first)
            => e < Greatest(n, w.first)
      /\ Reaches(v) /\ v.top < n => Reaches(w)
    BY DEF Kept
<1>3. m <= n \/ (m = n + 1 /\ edit.from <= n /\ n <= edit.last)
    BY DEF Local
<1>7. edit.last \in Int
    BY DEF Local
<1> HIDE DEF n, m, a, e
<1>4. a < Greatest(m, v.first) => e < Greatest(n, w.first)
    <2>1. CASE m <= n
        <3>1. a < Greatest(m, v.first) => a < Greatest(n, v.first)
            BY <1>1, <2>1 DEF Greatest
        <3> QED BY <1>2, <3>1
    <2>2. CASE m = n + 1 /\ edit.from <= n /\ n <= edit.last
        BY <1>1, <1>2, <1>7, <2>2
    <2> QED BY <1>3, <2>1, <2>2
<1>5. Within(t, v) => Within(edit.to, w)
    BY <1>2, <1>4 DEF Within, n, m, a, e
<1>6. Reaches(v) /\ v.top < Len(edit.to) => Reaches(w)
    BY <1>2 DEF n
<1> QED BY <1>2, <1>5, <1>6 DEF Outlives, Stays

(* After an update for an edit only lines cached below the screen can be   *)
(* those of the text before it.                                            *)
LEMMA UpdatedMoves ==
    ASSUME NEW t \in Seq(Lines), NEW edit, Local(t, edit), NEW v, Moving(v)
    PROVE  LET w == Updated(v, edit)
           IN  /\ Moving(w) /\ Alike(v, w) /\ w.top = v.top
               /\ Wrong(t, v) = {} => \A x \in Wrong(edit.to, w) : ScreenBottomBufferLine(w) + 1 < x
               /\ \A bound \in Int : v.top + v.height <= bound /\ v.start <= bound
                                        => LastBufferLine(w) <= bound
               /\ Outlives(t, v, edit.to, w) /\ w.dead = v.dead
               /\ v.start = NoLine => w.first = v.top
<1> DEFINE w == Updated(v, edit)
           to == edit.to
<1>1. w = UpdateBufferInterval(to, v, edit.from, edit.last)
    BY DEF Updated
<1>2. to \in Seq(Lines) /\ edit.from \in Int /\ edit.last \in Int /\ IsView(v) /\ Locked(v)
    BY DEF Local, Moving
<1>3. /\ Moved(to, v, w) /\ w.top = v.top
      /\ \A x \in Wrong(to, w) : x < edit.from \/ edit.last < x \/ ScreenBottomBufferLine(w) + 1 < x
      /\ Kept(to, v, edit.from, edit.last, w)
    BY <1>1, <1>2, IntervalMoves
<1>4. ASSUME NEW bound \in Int, v.top + v.height <= bound, v.start <= bound
      PROVE  LastBufferLine(w) <= bound
    <2>1. Interval(to, v, edit.from, edit.last, bound, w)
        BY <1>1, <1>2, <1>4, IntervalIsBrought
    <2> QED BY <2>1 DEF Interval
<1> HIDE DEF w
<1>5. Moving(w) /\ Alike(v, w)
    BY <1>3, MovingOn DEF Moved
<1>6. ASSUME Wrong(t, v) = {}, NEW x \in Wrong(to, w)
      PROVE  ScreenBottomBufferLine(w) + 1 < x
    <2>1. x \in Wrong(to, v)
        BY <1>3, <1>6 DEF Moved
    <2>2. x \in Cached(v) /\ Section(v, x).line # SectionOf(to, x).line /\ x \in Nat
        BY <1>2, <2>1, ViewFields DEF Wrong
    <2>3. Section(v, x).line = SectionOf(t, x).line
        BY <1>6, <2>2 DEF Wrong
    <2>4. ~(x < edit.from \/ edit.last < x)
        BY <2>2, <2>3 DEF Local
    <2> QED BY <1>3, <1>6, <2>4
<1>7. Outlives(t, v, to, w)
    BY <1>2, <1>3, KeptOutlives
<1>8. w.dead = v.dead /\ (v.start = NoLine => w.first = v.top)
    BY <1>3 DEF Kept
<1> QED BY <1>3, <1>4, <1>5, <1>6, <1>7, <1>8 DEF w

-----------------------------------------------------------------------------
(* Lines that do not wrap.                                                 *)
OneRow == \A l \in Lines : LineHeight[l] = 1

(* Lines of one row each take no more rows than they are.                  *)
LEMMA RowsOne ==
    ASSUME OneRow, NEW v, IsView(v), NEW a \in Int, v.first <= a, NEW k \in Nat
    PROVE  RowsBetween(v, a, a + k) <= k
<1> DEFINE R(b) == RowsBetween(v, a, b)
           last == LastBufferLine(v)
           S == {j \in Nat : R(a + j) <= j}
<1>1. /\ last \in Int
      /\ \A b \in Int : R(b) \in Nat
      /\ \A b \in Int : b <= a \/ last < a => R(b) = 0
      /\ \A b \in Int : a <= b /\ b <= last => R(b + 1) = R(b) + Count(Section(v, b))
      /\ \A b \in Int : last < b => R(b) = R(last + 1)
    BY ViewFields, RowFacts
<1>2. ASSUME NEW b \in Int, a <= b, b <= last PROVE Count(Section(v, b)) = 1
    <2>1. b \in Cached(v)
        BY <1>2, ViewFields DEF Cached
    <2>2. Section(v, b).line \in Lines \cup {Nothing}
        BY <2>1, ViewFields DEF Sections
    <2> QED BY <2>2 DEF Count, OneRow
<1> HIDE DEF R, last
<1>3. 0 \in S
    <2>1. a + 0 \in Int /\ a + 0 <= a
        OBVIOUS
    <2>2. R(a + 0) = 0
        BY <1>1, <2>1
    <2> QED BY <2>2
<1>4. ASSUME NEW j \in Nat, j \in S PROVE j + 1 \in S
    <2> DEFINE b == a + j
               c == a + (j + 1)
    <2>1. b \in Int /\ a <= b /\ c = b + 1 /\ c \in Int
        OBVIOUS
    <2>2. R(b) \in Nat /\ R(c) \in Nat /\ R(b) <= j
        BY <1>1, <1>4, <2>1
    <2>3. CASE b <= last
        <3>1. R(b + 1) = R(b) + 1
            BY <1>1, <1>2, <2>1, <2>3
        <3> HIDE DEF b, c
        <3>2. R(c) <= j + 1
            BY <2>1, <2>2, <3>1
        <3> QED BY <3>2 DEF c
    <2>4. CASE ~(b <= last)
        <3>1. last < b /\ last < c
            BY <1>1, <2>1, <2>4
        <3> HIDE DEF b, c
        <3>2. R(c) = R(b)
            BY <1>1, <2>1, <3>1
        <3>3. R(c) <= j + 1
            BY <2>2, <3>2
        <3> QED BY <3>3 DEF c
    <2> QED BY <2>3, <2>4
<1> HIDE DEF S
<1>5. k \in S
    BY <1>3, <1>4, SetInduction
<1> QED BY <1>5 DEF S, R

(* Only the line after the screen is cached below it.                      *)
LEMMA NoneBelow ==
    ASSUME OneRow, NEW v, IsView(v), LastBufferLine(v) <= v.top + v.height
    PROVE  LastBufferLine(v) <= ScreenBottomBufferLine(v) + 1
<1> DEFINE b == ScreenBottomBufferLine(v)
           last == LastBufferLine(v)
           h == v.height
<1>1. /\ last \in Int /\ h \in Nat /\ 1 <= h /\ v.top \in Nat /\ v.first \in Nat /\ v.first <= v.top
      /\ b \in Int
      /\ \A bl \in Int : bl <= last /\ b < bl => RowsBetween(v, v.top, bl) >= h
    BY ViewFields, BottomFacts
<1>2. SUFFICES ASSUME ~(last <= b + 1) PROVE FALSE
    OBVIOUS
<1> HIDE DEF b, last, h
<1>3. b + 1 \in Int /\ b + 1 <= last /\ b < b + 1 /\ b + 1 <= v.top + h - 1
    BY <1>1, <1>2 DEF last, h
<1>4. RowsBetween(v, v.top, b + 1) >= h
    BY <1>1, <1>3
<1> DEFINE k == Greatest(b + 1 - v.top, 0)
           R == RowsBetween(v, v.top, b + 1)
<1>5. k \in Nat /\ k <= h - 1 /\ b + 1 <= v.top + k /\ v.top + k \in Int
    BY <1>1, <1>3 DEF Greatest
<1> HIDE DEF k
<1>6. /\ RowsBetween(v, v.top, b + 1) <= RowsBetween(v, v.top, v.top + k)
      /\ RowsBetween(v, v.top, b + 1) \in Nat /\ RowsBetween(v, v.top, v.top + k) \in Nat
    BY <1>1, <1>3, <1>5, RowFacts
<1>7. RowsBetween(v, v.top, v.top + k) <= k
    BY <1>1, <1>5, RowsOne
<1> DEFINE Q == RowsBetween(v, v.top, v.top + k)
<1>8. R >= h /\ R <= Q /\ Q <= k /\ R \in Nat /\ Q \in Nat
    BY <1>4, <1>6, <1>7
<1> HIDE DEF R, Q
<1> QED BY <1>1, <1>5, <1>8

(* An update of lines that do not wrap leaves none as it was before.       *)
LEMMA UpdatedIsRight ==
    ASSUME OneRow, NEW t \in Seq(Lines), NEW edit, Local(t, edit), NEW v, Moving(v),
           Wrong(t, v) = {}, v.start <= v.top + v.height
    PROVE  Wrong(edit.to, Updated(v, edit)) = {}
<1> DEFINE w == Updated(v, edit)
           bound == v.top + v.height
<1>1. /\ Moving(w) /\ Alike(v, w) /\ w.top = v.top
      /\ \A x \in Wrong(edit.to, w) : ScreenBottomBufferLine(w) + 1 < x
      /\ \A b \in Int : v.top + v.height <= b /\ v.start <= b => LastBufferLine(w) <= b
    BY UpdatedMoves
<1> HIDE DEF w
<1>2. v.top \in Nat /\ v.height \in Nat
    BY ViewFields DEF Moving
<1>3. LastBufferLine(w) <= w.top + w.height
    <2>1. bound \in Int /\ v.top + v.height <= bound
        BY <1>2
    <2>2. LastBufferLine(w) <= bound
        BY <1>1, <2>1
    <2> QED BY <1>1, <2>2 DEF Alike
<1>4. LastBufferLine(w) <= ScreenBottomBufferLine(w) + 1 /\ ScreenBottomBufferLine(w) \in Int
      /\ LastBufferLine(w) \in Int
    BY <1>1, <1>3, NoneBelow, BottomFacts, ViewFields DEF Moving
<1>5. ASSUME NEW x \in Wrong(edit.to, w) PROVE FALSE
    <2>1. x \in Int /\ x <= LastBufferLine(w) /\ ScreenBottomBufferLine(w) + 1 < x
        BY <1>1, <1>5, ViewFields DEF Wrong, Cached, Moving
    <2> QED BY <1>4, <2>1
<1> QED BY <1>5 DEF w

-----------------------------------------------------------------------------
(* The deletion of lines, one after the other.                             *)
Cuts(v, b, n, f) ==
    f = [k \in 0..n |-> IF k = 0 THEN [to |-> text, view |-> v] ELSE DeleteLine(f[k - 1], b)]

(* There is such a function: a definition by recursion over the lines.     *)
LEMMA CutsExist ==
    ASSUME NEW v, NEW b, NEW n \in Nat
    PROVE  \E f : Cuts(v, b, n, f)
<1> DEFINE first == [to |-> text, view |-> v]
           Holds(f, m) == f = [k \in 0..m |-> IF k = 0 THEN first ELSE DeleteLine(f[k - 1], b)]
           S == {m \in Nat : \E f : Holds(f, m)}
<1> HIDE DEF first
<1>1. 0 \in S
    <2> DEFINE f == [k \in 0..0 |-> first]
    <2>1. \A k \in 0..0 : k = 0
        OBVIOUS
    <2>2. Holds(f, 0)
        BY <2>1
    <2> HIDE DEF f
    <2> QED BY <2>2
<1>2. ASSUME NEW m \in Nat, m \in S PROVE m + 1 \in S
    <2>1. PICK f : Holds(f, m)
        BY <1>2
    <2> DEFINE g == [k \in 0..m + 1 |-> IF k = m + 1 THEN DeleteLine(f[m], b) ELSE f[k]]
    <2>2. \A k \in 0..m : f[k] = IF k = 0 THEN first ELSE DeleteLine(f[k - 1], b)
        BY <2>1
    <2>3. g[m + 1] = DeleteLine(f[m], b) /\ \A k \in 0..m : g[k] = f[k]
        OBVIOUS
    <2>4. g = [k \in 0..m + 1 |-> g[k]]
        OBVIOUS
    <2> HIDE DEF g, Holds
    <2>5. ASSUME NEW k \in 0..m + 1
          PROVE  g[k] = IF k = 0 THEN first ELSE DeleteLine(g[k - 1], b)
        <3>1. CASE k = m + 1
            <4>1. k # 0 /\ k - 1 = m /\ m \in 0..m
                BY <3>1
            <4> QED BY <2>3, <3>1, <4>1
        <3>2. CASE k # m + 1
            <4>1. k \in 0..m /\ (k # 0 => k - 1 \in 0..m)
                BY <3>2
            <4> QED BY <2>2, <2>3, <4>1
        <3> QED BY <3>1, <3>2
    <2>6. Holds(g, m + 1)
        BY <2>4, <2>5 DEF Holds
    <2> QED BY <2>6
<1> HIDE DEF S
<1>3. Nat \subseteq S
    BY <1>1, <1>2, SetInduction
<1>4. \E f : Holds(f, n)
    BY <1>3 DEF S
<1> QED BY <1>4 DEF Cuts, first

(* c is the text t and the view v after k lines from b on were deleted.    *)
CutTo(t, v, b, k, c) ==
    /\ c.to \in Seq(Lines) /\ Len(c.to) = Len(t) - k
    /\ \A i \in 1..b : c.to[i] = t[i]
    /\ \A i \in b + 1..Len(t) - k : c.to[i] = t[i + k]
    /\ Moving(c.view) /\ Alike(v, c.view) /\ c.view.top = v.top
    /\ OneRow /\ Wrong(t, v) = {} /\ v.start <= v.top + v.height => Wrong(c.to, c.view) = {}
    /\ Outlives(t, v, c.to, c.view)

(* One more of the lines is deleted and the view updates what follows.     *)
LEMMA CutsOne ==
    ASSUME NEW t \in Seq(Lines), NEW v, NEW b \in Nat, NEW k \in Nat, b + k < Len(t),
           NEW c, CutTo(t, v, b, k, c)
    PROVE  CutTo(t, v, b, k + 1, DeleteLine(c, b))
<1> DEFINE edit == LineDeleted(c.to, b)
           to == edit.to
           w == Updated(c.view, edit)
           n == Len(t)
<1>1. DeleteLine(c, b) = [to |-> to, view |-> w]
    BY DEF DeleteLine
<1>2. n \in Nat /\ c.to \in Seq(Lines) /\ Len(c.to) = n - k /\ b < n - k
    BY LenProperties DEF CutTo
<1>3. /\ Local(c.to, edit) /\ Len(to) = (n - k) - 1
      /\ \A i \in 1..b : to[i] = c.to[i]
      /\ \A i \in b + 1..(n - k) - 1 : to[i] = c.to[i + 1]
    <2> DEFINE s == c.to
    <2>1. s \in Seq(Lines) /\ Len(s) = n - k /\ b < Len(s)
        BY <1>2
    <2> HIDE DEF s, n
    <2>2. LET r == LineDeleted(s, b).to
          IN  /\ Local(s, LineDeleted(s, b))
              /\ Len(r) = Len(s) - 1
              /\ \A i \in 1..b : r[i] = s[i]
              /\ \A i \in b + 1..Len(s) - 1 : r[i] = s[i + 1]
        BY <2>1, LineDeletedIsLocal
    <2> QED BY <2>1, <2>2 DEF s
<1>4. Moving(c.view) /\ Alike(v, c.view) /\ c.view.top = v.top
    BY DEF CutTo
<1>5. Moving(w) /\ Alike(c.view, w) /\ w.top = c.view.top /\ Outlives(c.to, c.view, to, w)
    BY <1>2, <1>3, <1>4, UpdatedMoves
<1>6. ASSUME OneRow, Wrong(t, v) = {}, v.start <= v.top + v.height
      PROVE  Wrong(to, w) = {}
    <2>1. Wrong(c.to, c.view) = {}
        BY <1>6 DEF CutTo
    <2>2. c.view.start <= c.view.top + c.view.height
        BY <1>4, <1>6 DEF Alike
    <2> QED BY <1>2, <1>3, <1>4, <1>6, <2>1, <2>2, UpdatedIsRight
<1> HIDE DEF w, edit
<1>7. \A i \in 1..b : to[i] = t[i]
    BY <1>3 DEF CutTo
<1>8. \A i \in b + 1..n - (k + 1) : to[i] = t[i + (k + 1)]
    <2> TAKE i \in b + 1..n - (k + 1)
    <2>1. i \in b + 1..(n - k) - 1 /\ i + 1 \in b + 1..n - k /\ (i + 1) + k = i + (k + 1)
        BY <1>2
    <2>2. to[i] = c.to[i + 1]
        BY <1>3, <2>1
    <2>3. c.to[i + 1] = t[(i + 1) + k]
        BY <2>1 DEF CutTo, n
    <2> QED BY <2>1, <2>2, <2>3
<1>9. to \in Seq(Lines) /\ Len(to) = n - (k + 1)
    BY <1>2, <1>3 DEF Local
<1>10. Alike(v, w) /\ w.top = v.top
    BY <1>4, <1>5 DEF Alike, Balanced
<1>13. Outlives(t, v, to, w)
    <2>1. Outlives(t, v, c.to, c.view)
        BY DEF CutTo
    <2>2. v.top \in Int
        BY <1>4, ViewFields DEF Moving
    <2>3. v.top < Len(to) => v.top < Len(c.to)
        BY <1>2, <1>3, <2>2
    <2> QED BY <1>4, <1>5, <2>1, <2>3 DEF Outlives
<1> HIDE DEF to
<1> DEFINE d == [to |-> to, view |-> w]
<1>11. d.to = to /\ d.view = w
    OBVIOUS
<1> HIDE DEF d
<1>12. CutTo(t, v, b, k + 1, d)
    BY <1>5, <1>6, <1>7, <1>8, <1>9, <1>10, <1>11, <1>13 DEF CutTo, n
<1> QED BY <1>1, <1>12 DEF d

(* What is left of a text without the lines after bl up to end.            *)
LEMMA LeftOver ==
    ASSUME text \in Seq(Lines), NEW bl \in Nat, NEW end \in Nat, bl <= end, end < Len(text),
           NEW line \in Lines
    PROVE  LET to == Left(bl, end, line)
           IN  /\ to \in Seq(Lines) /\ Len(to) = Len(text) - (end - bl)
               /\ \A i \in 1..Len(text) - (end - bl) :
                     to[i] = IF i <= bl THEN text[i]
                             ELSE IF i = bl + 1 THEN line ELSE text[i + (end - bl)]
<1> DEFINE n == Len(text)
           a == SubSeq(text, 1, bl)
           b == << line >>
           c == SubSeq(text, end + 2, n)
           to == a \o b \o c
<1>1. Left(bl, end, line) = to
    BY DEF Left
<1>2. n \in Nat /\ bl <= n /\ end + 2 <= n + 1
    BY LenProperties
<1>3. /\ a \in Seq(Lines) /\ Len(a) = bl /\ \A i \in 1..bl : a[i] = text[i]
      /\ c \in Seq(Lines) /\ Len(c) = n - (end + 2) + 1
      /\ \A i \in 1..n - (end + 2) + 1 : c[i] = text[(end + 2) + i - 1]
    <2> DEFINE q == end + 2
    <2>1. q \in Int /\ 1 <= q /\ q <= n + 1
        BY <1>2
    <2> HIDE DEF q
    <2>2. /\ SubSeq(text, 1, bl) \in Seq(Lines) /\ Len(SubSeq(text, 1, bl)) = bl
          /\ \A i \in 1..bl : SubSeq(text, 1, bl)[i] = text[i]
          /\ SubSeq(text, q, n) \in Seq(Lines) /\ Len(SubSeq(text, q, n)) = n - q + 1
          /\ \A i \in 1..n - q + 1 : SubSeq(text, q, n)[i] = text[q + i - 1]
        BY <1>2, <2>1, Parts
    <2> QED BY <2>2 DEF q
<1>4. b \in Seq(Lines) /\ Len(b) = 1 /\ b[1] = line
    OBVIOUS
<1> HIDE DEF a, b, c
<1>5. to \in Seq(Lines) /\ Joins(to, a, b, c)
    <2>1. a \in Seq(Lines) /\ b \in Seq(Lines) /\ c \in Seq(Lines)
        BY <1>3, <1>4
    <2> QED BY ONLY <2>1, ConcatThree
<1> HIDE DEF to, n
<1>6. Len(to) = n - (end - bl)
    BY <1>2, <1>3, <1>4, <1>5 DEF Joins
<1>7. ASSUME NEW i \in 1..n - (end - bl)
      PROVE  to[i] = IF i <= bl THEN text[i]
                     ELSE IF i = bl + 1 THEN line ELSE text[i + (end - bl)]
    <2>1. CASE i <= bl
        <3>1. i \in 1..Len(a)
            BY <1>3, <2>1
        <3> QED BY <1>3, <1>5, <2>1, <3>1 DEF Joins
    <2>2. CASE i = bl + 1
        <3>1. 1 \in 1..Len(b) /\ Len(a) + 1 = i
            BY <1>3, <1>4, <2>2
        <3>2. to[Len(a) + 1] = b[1]
            BY <1>5, <3>1 DEF Joins
        <3> QED BY <1>4, <2>2, <3>1, <3>2
    <2>3. CASE ~(i <= bl) /\ i # bl + 1
        <3> DEFINE j == i - (bl + 1)
        <3>1. j \in 1..n - (end + 2) + 1 /\ bl + 1 + j = i /\ (end + 2) + j - 1 = i + (end - bl)
            BY <1>2, <2>3
        <3> HIDE DEF j
        <3>2. j \in 1..Len(c)
            BY <1>3, <3>1
        <3>3. to[Len(a) + Len(b) + j] = c[j]
            BY <1>5, <3>2 DEF Joins
        <3>4. c[j] = text[(end + 2) + j - 1]
            BY <1>3, <3>1
        <3> QED BY <1>3, <1>4, <2>3, <3>1, <3>3, <3>4
    <2> QED BY <2>1, <2>2, <2>3
<1> QED BY <1>1, <1>5, <1>6, <1>7 DEF n

(* YZAction::deleteArea(): what it leaves of the text and in the view.     *)
Deleted(v, to, w) ==
    /\ Settled(w) /\ Balanced(v, w) /\ w.start = v.start /\ to \in Seq(Lines)
    /\ CursorShown(w)
    /\ OneRow /\ Wrong(text, v) = {} /\ v.start <= v.top + v.height => Wrong(to, w) = {}
    /\ Within(text, v) => Within(to, w)
    /\ Stays(text, v) /\ v.top < Len(to) /\ v.selected[1] < Len(to) => Lives(to, w)

(* The deletions one after the other, and then the cursor's line.          *)
LEMMA AreaDeletedSettles ==
    ASSUME text \in Seq(Lines), NEW v, Moving(v), NEW bl \in Nat, NEW end \in Nat, bl < end,
           end < Len(text), NEW line \in Lines
    PROVE  Deleted(v, Left(bl, end, line), AreaDeleted(v, bl, end, line))
<1> DEFINE b == bl + 1
           n == end - bl
           F(f) == f = [k \in 0..end - bl |-> IF k = 0 THEN [to |-> text, view |-> v]
                                              ELSE DeleteLine(f[k - 1], bl + 1)]
           cut == CHOOSE f : F(f)
           edit == Changed(cut[n].to, bl, line)
           u == Updated(cut[n].view, edit)
           w == AreaDeleted(v, bl, end, line)
           to == Left(bl, end, line)
<1>1. w = GotoLine(edit.to, u, bl)
    BY DEF AreaDeleted
<1>2. n \in Nat /\ b \in Nat /\ Len(text) \in Nat /\ b + n = end + 1
    BY LenProperties
<1>3. F(cut)
    <2>1. \E f : Cuts(v, b, n, f)
        BY <1>2, CutsExist
    <2> QED BY <2>1 DEF Cuts
<1> HIDE DEF cut
<1>4. cut = [k \in 0..n |-> IF k = 0 THEN [to |-> text, view |-> v] ELSE DeleteLine(cut[k - 1], b)]
    BY <1>3
<1> HIDE DEF n, b, F, u, w, to, edit
<1> DEFINE S == {k \in Nat : k <= n => CutTo(text, v, b, k, cut[k])}
<1>5. 0 \in S
    <2> DEFINE c == [to |-> text, view |-> v]
    <2>1. cut[0] = c
        BY <1>2, <1>4
    <2>2. c.to = text /\ c.view = v
        OBVIOUS
    <2> HIDE DEF c
    <2>3. Alike(v, v) /\ (\A i \in b + 1..Len(text) - 0 : text[i] = text[i + 0])
          /\ Len(text) = Len(text) - 0
        BY <1>2 DEF Alike, Balanced
    <2>4. CutTo(text, v, b, 0, c)
        BY <2>2, <2>3 DEF CutTo, Outlives
    <2> QED BY <2>1, <2>4
<1>6. ASSUME NEW k \in Nat, k \in S PROVE k + 1 \in S
    <2> SUFFICES ASSUME k + 1 <= n PROVE CutTo(text, v, b, k + 1, cut[k + 1])
        OBVIOUS
    <2>1. k <= n /\ k + 1 \in 0..n /\ k + 1 # 0 /\ (k + 1) - 1 = k /\ b + k < Len(text)
        BY <1>2
    <2>2. CutTo(text, v, b, k, cut[k])
        BY <1>6, <2>1
    <2>3. cut[k + 1] = DeleteLine(cut[k], b)
        BY <1>4, <2>1
    <2>4. CutTo(text, v, b, k + 1, DeleteLine(cut[k], b))
        BY <1>2, <2>1, <2>2, CutsOne
    <2> QED BY <2>3, <2>4
<1> HIDE DEF S
<1>7. CutTo(text, v, b, n, cut[n])
    <2>1. n \in S /\ n <= n
        BY <1>2, <1>5, <1>6, SetInduction
    <2> QED BY <2>1 DEF S
<1> DEFINE c == cut[n]
<1>8. CutTo(text, v, b, n, c) /\ edit = Changed(c.to, bl, line) /\ u = Updated(c.view, edit)
    BY <1>7 DEF edit, u
<1> HIDE DEF c
<1>9. /\ c.to \in Seq(Lines) /\ Len(c.to) = Len(text) - n /\ bl < Len(c.to)
      /\ \A i \in 1..b : c.to[i] = text[i]
      /\ \A i \in b + 1..Len(text) - n : c.to[i] = text[i + n]
      /\ Moving(c.view) /\ Alike(v, c.view) /\ c.view.top = v.top
      /\ Outlives(text, v, c.to, c.view)
    BY <1>2, <1>8 DEF CutTo, b
<1>10. /\ Local(c.to, edit) /\ Len(edit.to) = Len(text) - n
       /\ \A i \in 1..Len(text) - n : edit.to[i] = IF i = b THEN line ELSE c.to[i]
    <2> DEFINE s == c.to
    <2>1. s \in Seq(Lines) /\ Len(s) = Len(text) - n /\ bl < Len(s) /\ edit = Changed(s, bl, line)
        BY <1>8, <1>9
    <2> HIDE DEF s
    <2>2. /\ Local(s, Changed(s, bl, line)) /\ Len(Changed(s, bl, line).to) = Len(s)
          /\ \A i \in 1..Len(s) : Changed(s, bl, line).to[i] = IF i = bl + 1 THEN line ELSE s[i]
        BY <2>1, ChangedIsLocal
    <2> QED BY <2>1, <2>2 DEF s, b
<1>11. edit.to = to
    <2>1. /\ to \in Seq(Lines) /\ Len(to) = Len(text) - n
          /\ \A i \in 1..Len(text) - n :
                to[i] = IF i <= bl THEN text[i] ELSE IF i = bl + 1 THEN line ELSE text[i + n]
        <3>1. bl <= end
            OBVIOUS
        <3>2. LET x == Left(bl, end, line)
              IN  /\ x \in Seq(Lines) /\ Len(x) = Len(text) - (end - bl)
                  /\ \A i \in 1..Len(text) - (end - bl) :
                        x[i] = IF i <= bl THEN text[i]
                               ELSE IF i = bl + 1 THEN line ELSE text[i + (end - bl)]
            BY ONLY <3>1, LeftOver, text \in Seq(Lines), bl \in Nat, end \in Nat, end < Len(text),
               line \in Lines
        <3> QED BY <3>2 DEF n, to
    <2>2. edit.to \in Seq(Lines)
        BY <1>10 DEF Local
    <2>3. ASSUME NEW i \in 1..Len(text) - n PROVE edit.to[i] = to[i]
        <3>1. i <= bl => i \in 1..b /\ i # b
            BY DEF b
        <3>2. ~(i <= bl) /\ i # bl + 1 => i \in b + 1..Len(text) - n /\ i # b
            BY <1>2 DEF b
        <3> QED BY <1>9, <1>10, <2>1, <3>1, <3>2 DEF b
    <2> QED BY <1>10, <2>1, <2>2, <2>3, SeqEqual
<1>12. Moving(u) /\ Alike(c.view, u) /\ u.top = c.view.top /\ Outlives(c.to, c.view, edit.to, u)
    BY <1>8, <1>9, <1>10, UpdatedMoves
<1>13. to \in Seq(Lines) /\ Gone(to, u, bl, w)
    <2>1. to \in Seq(Lines)
        BY <1>10, <1>11 DEF Local
    <2>2. w = GotoLine(to, u, bl)
        BY <1>1, <1>11 DEF u, edit
    <2>3. Gone(to, u, bl, GotoLine(to, u, bl))
        BY <1>12, <2>1, GotoSettles
    <2> QED BY <2>1, <2>2, <2>3
<1>14. ASSUME OneRow, Wrong(text, v) = {}, v.start <= v.top + v.height
       PROVE  Wrong(to, w) = {}
    <2>1. Wrong(c.to, c.view) = {}
        BY <1>8, <1>14 DEF CutTo
    <2>2. c.view.start <= c.view.top + c.view.height
        BY <1>9, <1>14 DEF Alike
    <2>3. Wrong(edit.to, u) = {}
        BY <1>8, <1>9, <1>10, <1>14, <2>1, <2>2, UpdatedIsRight
    <2> QED BY <1>11, <1>13, <2>3 DEF Gone
<1>15. Balanced(v, w) /\ w.start = v.start
    BY <1>9, <1>12, <1>13 DEF Gone, Alike, Balanced
<1>16. Len(to) = Len(c.to) /\ bl < Len(to)
    BY <1>9, <1>10, <1>11
<1>17. (Within(text, v) => Within(to, u)) /\ (Stays(text, v) /\ v.top < Len(to) => Stays(to, u))
    BY <1>9, <1>11, <1>12, <1>16 DEF Outlives
<1>18. u.top = v.top /\ u.selected = v.selected /\ Grown(to, bl, u, w)
    BY <1>9, <1>12, <1>13 DEF Alike, Gone
<1>19. /\ Within(text, v) => Within(to, w)
       /\ Stays(text, v) /\ v.top < Len(to) /\ v.selected[1] < Len(to) => Lives(to, w)
    BY <1>16, <1>17, <1>18 DEF Grown, Lives
<1> QED BY <1>13, <1>14, <1>15, <1>19 DEF Gone, Deleted, w, to

-----------------------------------------------------------------------------
(* The commands that edit the text.                                        *)
Rightly ==
    /\ Inv' /\ Resumed /\ Followed
    /\ OneRow /\ Wrong(text, view) = {} => Wrong(text', view') = {}
    /\ Spares(text', view')

(* A command that ends with the cursor on the screen of another text.      *)
LEMMA EditSpares ==
    ASSUME Inv, NEW t, NEW x, IsView(x), CursorShown(x), Within(text, Begin) => Within(t, x),
           Stays(text, Begin) /\ Begin.top < Len(t) /\ Begin.selected[1] < Len(t) => Lives(t, x)
    PROVE  Spares(t, x)
<1>1. SameCache(view, Begin)
    BY BeginView
<1>2. /\ Within(text, view) => Within(text, Begin)
      /\ Stays(text, view) => Stays(text, Begin)
      /\ Begin.top = view.top /\ Begin.selected = view.selected
    BY <1>1 DEF SameCache, Stays, Within, Reaches, LastBufferLine
<1>3. Reaches(x)
    BY ShownReaches
<1>4. ASSUME Exist, Alive, view.top < Len(t), view.selected[1] < Len(t) PROVE ~x.dead
    <2>1. Stays(text, view)
        BY <1>4 DEF Exist, Alive, Stays
    <2>2. Lives(t, x)
        BY <1>2, <1>4, <2>1
    <2> QED BY <2>2 DEF Lives, Stays
<1> QED BY <1>2, <1>3, <1>4 DEF Spares

(* A command that leaves a view settled, over a new text.                  *)
LEMMA EditKeeps ==
    ASSUME Inv, NEW x, Settled(x), Balanced(Begin, x), OnScreen(x), x.start = NoLine,
           text' \in Texts, view' = Ended(x),
           OneRow /\ Wrong(text, view) = {} => Wrong(text', x) = {}, CursorShown(x),
           Spares(text', x)
    PROVE  Rightly
<1>1. /\ Settled(view') /\ SameCache(x, view') /\ Balanced(view, view')
      /\ Wrong(text', view') = Wrong(text', x) /\ CursorShown(view')
    BY BeginView, EndedSettles DEF Begin, StillShown
<1>2. PendingIn(view') /\ view'.level = view.level
    BY <1>1 DEF Inv, Balanced
<1>3. OnScreen(view') /\ view'.start = NoLine
    BY <1>1 DEF OnScreen, SameCache
<1>4. Len(text') \in Nat
    BY TextIsSeq
<1>5. view'.start < Len(text')
    BY <1>3, <1>4 DEF NoLine
<1>6. Spares(text', view')
    BY <1>1, SpareSame
<1> QED BY <1>1, <1>2, <1>3, <1>5, <1>6 DEF Inv, Rightly, Resumed, Followed

(* An edit of lines of this view, outside of the visual modes.             *)
LEMMA EditedKeeps ==
    ASSUME Inv, ~Visual, NEW edit, Local(text, edit), NEW then \in Nat, Edited(edit, then),
           then < Len(edit.to)
    PROVE  Rightly
<1> DEFINE u == Updated(Begin, edit)
           w == GotoLine(edit.to, u, then)
<1>1. text' = edit.to /\ edit.to \in Texts /\ view' = Ended(w)
    BY DEF Edited
<1>2. Moving(Begin) /\ Begin.start = NoLine /\ text \in Seq(Lines) /\ edit.to \in Seq(Lines)
    BY BeginView DEF SameCache, Visual, Local
<1>3. Moving(u) /\ Alike(Begin, u) /\ u.top = Begin.top /\ Outlives(text, Begin, edit.to, u)
    BY <1>2, UpdatedMoves
<1>4. ASSUME OneRow, Wrong(text, view) = {} PROVE Wrong(edit.to, u) = {}
    <2>1. Wrong(text, Begin) = {}
        BY <1>4, BeginView
    <2>2. Begin.top \in Nat /\ Begin.height \in Nat
        BY BeginView, ViewFields
    <2>3. Begin.start <= Begin.top + Begin.height
        BY <1>2, <2>2 DEF NoLine
    <2> QED BY <1>2, <1>4, <2>1, <2>3, UpdatedIsRight
<1> HIDE DEF u
<1>5. Gone(edit.to, u, then, w)
    BY <1>2, <1>3, GotoSettles
<1> HIDE DEF w
<1>6. /\ Settled(w) /\ Balanced(Begin, w) /\ w.start = NoLine /\ CursorShown(w)
      /\ Wrong(edit.to, w) \subseteq Wrong(edit.to, u)
    BY <1>2, <1>3, <1>5 DEF Gone, Alike, Balanced
<1>7. OnScreen(w)
    BY <1>6 DEF OnScreen
<1>8. Spares(edit.to, w)
    <2>1. Grown(edit.to, then, u, w) /\ IsView(w)
        BY <1>5, <1>6 DEF Gone, Settled
    <2>2. Within(text, Begin) => Within(edit.to, w)
        BY <1>3, <2>1 DEF Outlives, Grown
    <2>3. Stays(text, Begin) /\ Begin.top < Len(edit.to) /\ Begin.selected[1] < Len(edit.to)
            => Lives(edit.to, u)
        BY <1>3 DEF Outlives, Lives, Alike
    <2>4. Lives(edit.to, u) => Lives(edit.to, w)
        BY <2>1 DEF Grown
    <2> QED BY <1>6, <2>1, <2>2, <2>3, <2>4, EditSpares
<1> QED BY <1>1, <1>4, <1>6, <1>7, <1>8, EditKeeps

(* A changed line, and one that is opened below it.                        *)
LEMMA ChangeLineKeeps ==
    ASSUME Inv, ChangeLine \/ OpenLine
    PROVE  Rightly
<1>1. ~Visual /\ view.cursor \in Nat /\ view.cursor < Len(text) /\ text \in Seq(Lines)
    BY BeginView DEF ChangeLine, OpenLine, Command, InText, IsView
<1>2. CASE ChangeLine
    <2>1. PICK line \in Lines : Edited(Changed(text, view.cursor, line), view.cursor)
        BY <1>2 DEF ChangeLine
    <2>2. /\ Local(text, Changed(text, view.cursor, line))
          /\ Len(Changed(text, view.cursor, line).to) = Len(text)
        BY <1>1, ChangedIsLocal
    <2> QED BY <1>1, <2>1, <2>2, EditedKeeps
<1>3. CASE OpenLine
    <2>1. PICK line \in Lines, new \in Lines, then \in {view.cursor, view.cursor + 1} :
              Edited(Opened(text, view.cursor, line, new), then)
        BY <1>3 DEF OpenLine
    <2>2. /\ Local(text, Opened(text, view.cursor, line, new))
          /\ Len(Opened(text, view.cursor, line, new).to) = Len(text) + 1
        BY <1>1, OpenedIsLocal
    <2>3. then \in Nat /\ then < Len(text) + 1
        <3>1. Len(text) \in Nat
            BY <1>1, LenProperties
        <3> QED BY <1>1, <3>1
    <2> QED BY <1>1, <2>1, <2>2, <2>3, EditedKeeps
<1> QED BY <1>2, <1>3

(* Lines deleted from the cursor's to another.                             *)
LEMMA DeleteLinesKeeps ==
    ASSUME Inv, DeleteLines
    PROVE  Rightly
<1>1. ~Visual /\ view.cursor \in Nat /\ view.cursor < Len(text) /\ text \in Seq(Lines)
      /\ Len(text) \in Nat
    BY BeginView DEF DeleteLines, Command, InText, IsView
<1>2. PICK other \in BufferLines \ {view.cursor}, line \in Lines :
          LET bl == Least(other, view.cursor)  end == Greatest(other, view.cursor)
          IN  /\ Left(bl, end, line) \in Texts
              /\ text' = Left(bl, end, line)
              /\ view' = Ended(AreaDeleted(Begin, bl, end, line))
    BY DEF DeleteLines
<1> DEFINE bl == Least(other, view.cursor)
           end == Greatest(other, view.cursor)
           w == AreaDeleted(Begin, bl, end, line)
<1>3. bl \in Nat /\ end \in Nat /\ bl < end /\ end < Len(text)
    BY <1>1 DEF BufferLines, Least, Greatest
<1>4. text' = Left(bl, end, line) /\ text' \in Texts /\ view' = Ended(w)
    BY <1>2
<1> HIDE DEF bl, end
<1>5. Moving(Begin) /\ Begin.start = NoLine
    BY <1>1, BeginView DEF SameCache, Visual
<1>6. /\ Settled(w) /\ Balanced(Begin, w) /\ w.start = NoLine /\ CursorShown(w)
      /\ OneRow /\ Wrong(text, Begin) = {} /\ Begin.start <= Begin.top + Begin.height
            => Wrong(text', w) = {}
      /\ Within(text, Begin) => Within(text', w)
      /\ Stays(text, Begin) /\ Begin.top < Len(text') /\ Begin.selected[1] < Len(text')
            => Lives(text', w)
    <2>1. /\ Settled(w) /\ Balanced(Begin, w) /\ w.start = Begin.start /\ CursorShown(w)
          /\ OneRow /\ Wrong(text, Begin) = {} /\ Begin.start <= Begin.top + Begin.height
                => Wrong(Left(bl, end, line), w) = {}
          /\ Within(text, Begin) => Within(Left(bl, end, line), w)
          /\ Stays(text, Begin) /\ Begin.top < Len(Left(bl, end, line))
                /\ Begin.selected[1] < Len(Left(bl, end, line)) => Lives(Left(bl, end, line), w)
        <3>1. /\ text \in Seq(Lines) /\ Moving(Begin) /\ bl \in Nat /\ end \in Nat /\ bl < end
              /\ end < Len(text) /\ line \in Lines
            BY <1>1, <1>3, <1>5
        <3>2. Deleted(Begin, Left(bl, end, line), w)
            BY ONLY <3>1, AreaDeletedSettles
        <3> HIDE DEF w
        <3> QED BY <3>2 DEF Deleted
    <2> HIDE DEF w
    <2> QED BY <1>4, <1>5, <2>1
<1> HIDE DEF w
<1>7. Begin.start <= Begin.top + Begin.height
    <2>1. Begin.top \in Nat /\ Begin.height \in Nat
        BY BeginView, ViewFields
    <2> QED BY <1>5, <2>1 DEF NoLine
<1>8. OneRow /\ Wrong(text, view) = {} => Wrong(text', w) = {}
    BY <1>6, <1>7, BeginView
<1>9. OnScreen(w)
    BY <1>6 DEF OnScreen
<1>10. Spares(text', w)
    BY <1>6, EditSpares DEF Settled
<1> QED BY <1>4, <1>6, <1>8, <1>9, <1>10, EditKeeps

(* A selection deleted: the cache is right if it begins on the screen.     *)
LEMMA DeleteSelectedKeeps ==
    ASSUME Inv, DeleteSelected
    PROVE  /\ Inv' /\ Resumed /\ Followed /\ Spares(text', view')
           /\ ~DeletesBelowScreen => Rightly
<1>1. /\ view.cursor \in Nat /\ view.cursor < Len(text) /\ text \in Seq(Lines) /\ Len(text) \in Nat
      /\ view.start \in Nat /\ view.start < Len(text) /\ view.start # view.cursor
    BY BeginView DEF DeleteSelected, Command, InText, Visual, IsView, Inv
<1>2. PICK line \in Lines :
          LET bl == Least(view.start, view.cursor)  end == Greatest(view.start, view.cursor)
          IN  /\ Left(bl, end, line) \in Texts
              /\ text' = Left(bl, end, line)
              /\ view' = Ended(LeaveVisual(text', AreaDeleted(Begin, bl, end, line)))
    BY DEF DeleteSelected
<1> DEFINE bl == Least(view.start, view.cursor)
           end == Greatest(view.start, view.cursor)
           w == AreaDeleted(Begin, bl, end, line)
           x == LeaveVisual(text', w)
<1>3. bl \in Nat /\ end \in Nat /\ bl < end /\ end < Len(text)
    BY <1>1 DEF Least, Greatest
<1>4. text' = Left(bl, end, line) /\ text' \in Texts /\ view' = Ended(x)
    BY <1>2
<1> HIDE DEF bl, end
<1>5. /\ Settled(w) /\ Balanced(Begin, w) /\ text' \in Seq(Lines) /\ CursorShown(w)
      /\ OneRow /\ Wrong(text, Begin) = {} /\ Begin.start <= Begin.top + Begin.height
            => Wrong(text', w) = {}
      /\ Within(text, Begin) => Within(text', w)
      /\ Stays(text, Begin) /\ Begin.top < Len(text') /\ Begin.selected[1] < Len(text')
            => Lives(text', w)
    <2>1. Deleted(Begin, Left(bl, end, line), w)
        BY <1>1, <1>3, BeginView, AreaDeletedSettles
    <2> HIDE DEF w
    <2> QED BY <1>4, <2>1 DEF Deleted
<1> HIDE DEF w
<1>6. /\ Settled(x) /\ Balanced(w, x) /\ Wrong(text', x) \subseteq Wrong(text', w)
      /\ x.start = NoLine /\ CursorShown(x) /\ Safely(text', w, x)
    BY <1>5, LeaveSettles DEF Settled, StillShown
<1> HIDE DEF x
<1>7. Balanced(Begin, x) /\ OnScreen(x)
    BY <1>5, <1>6 DEF Balanced, OnScreen
<1>8. Settled(view') /\ Balanced(view, view') /\ SameCache(x, view')
      /\ Wrong(text', view') = Wrong(text', x) /\ CursorShown(view')
    BY <1>4, <1>6, <1>7, BeginView, EndedSettles DEF Begin, StillShown
<1>9. Inv' /\ Resumed /\ Followed
    <2>1. PendingIn(view') /\ view'.level = view.level /\ view'.start = NoLine
        BY <1>6, <1>8 DEF Inv, Balanced, SameCache
    <2>2. Len(text') \in Nat
        BY <1>4, TextIsSeq
    <2>3. view'.start < Len(text')
        BY <2>1, <2>2 DEF NoLine
    <2> QED BY <1>4, <1>8, <2>1, <2>3 DEF Inv, OnScreen, Resumed, Followed
<1>10. ASSUME ~DeletesBelowScreen PROVE Begin.start <= Begin.top + Begin.height
    <2>1. /\ Begin.start = view.start /\ Begin.top = view.top /\ Begin.height = view.height
          /\ view.top \in Nat /\ view.height \in Nat
        BY BeginView, ViewFields DEF SameCache
    <2>2. CASE view.start < view.cursor
        <3>1. view.cursor < view.top + view.height
            BY <1>1 DEF Inv, OnScreen, NoLine
        <3> QED BY <1>1, <2>1, <2>2, <3>1
    <2>3. CASE view.start > view.cursor
        <3>1. view.start <= ScreenBottomBufferLine(view) + 1
            <4>1. ScreenBottomBufferLine(view) \in Int
                BY BeginView, BottomFacts
            <4> QED BY <1>1, <1>10, <2>3, <4>1 DEF DeletesBelowScreen, DeletesUpward
        <3>2. ScreenBottomBufferLine(view) < view.top + view.height
              /\ ScreenBottomBufferLine(view) \in Int
            BY BeginView, BottomNear, BottomFacts
        <3> QED BY <1>1, <2>1, <3>1, <3>2
    <2> QED BY <1>1, <2>2, <2>3
<1>11. ASSUME ~DeletesBelowScreen, OneRow, Wrong(text, view) = {}
       PROVE  Wrong(text', view') = {}
    BY <1>5, <1>6, <1>8, <1>10, <1>11, BeginView
<1>12. Spares(text', view')
    <2>1. Within(text, Begin) => Within(text', x)
        BY <1>5, <1>6 DEF Safely
    <2>2. Stays(text, Begin) /\ Begin.top < Len(text') /\ Begin.selected[1] < Len(text')
            => Lives(text', x)
        BY <1>5, <1>6 DEF Safely
    <2>3. Spares(text', x)
        BY <1>6, <2>1, <2>2, EditSpares DEF Settled
    <2> QED BY <1>8, <2>3, SpareSame
<1> QED BY <1>9, <1>11, <1>12 DEF Rightly

(* An edit of another view: this one updates its lines.                    *)
LEMMA EditElsewhereKeeps ==
    ASSUME Inv, EditElsewhere
    PROVE  Rightly
<1>1. PICK edit \in Edits : edit.to \in Texts /\ text' = edit.to /\ view' = Updated(view, edit)
    BY DEF EditElsewhere
<1>2. view.start = NoLine /\ Moving(view) /\ text \in Seq(Lines) /\ Len(text) \in Nat
    BY BeginView DEF EditElsewhere, Visual
<1>3. \A bl \in BufferLines : bl \in Nat /\ bl < Len(text) /\ text[bl + 1] \in Lines
    <2> TAKE bl \in BufferLines
    <2>1. bl \in Nat /\ bl < Len(text) /\ bl + 1 \in 1..Len(text)
        BY <1>2 DEF BufferLines
    <2> QED BY <1>2, <2>1, ElementOfSeq
<1>4. Local(text, edit)
    <2>1. CASE edit \in {Changed(text, bl, line) : bl \in BufferLines, line \in Lines}
        BY <1>2, <1>3, <2>1, ChangedIsLocal
    <2>2. CASE edit \in {Opened(text, bl, text[bl + 1], new) : bl \in BufferLines, new \in Lines}
        BY <1>2, <1>3, <2>2, OpenedIsLocal
    <2>3. CASE edit \in {LineDeleted(text, bl) : bl \in {l \in BufferLines : Len(text) > 1}}
        BY <1>2, <1>3, <2>3, LineDeletedIsLocal
    <2> QED BY <2>1, <2>2, <2>3 DEF Edits
<1>5. /\ Moving(view') /\ Alike(view, view') /\ view'.dead = view.dead /\ view'.top = view.top
      /\ Outlives(text, view, edit.to, view') /\ view'.first = view.top
    BY <1>1, <1>2, <1>4, UpdatedMoves
<1>6. Settled(view') /\ view'.level = view.level /\ PendingIn(view') /\ view'.start = NoLine
    BY <1>2, <1>5 DEF Moving, Settled, Alike, Balanced, Inv
<1>7. view'.start < Len(text')
    <2>1. Len(text') \in Nat
        BY <1>1, TextIsSeq
    <2> QED BY <1>6, <2>1 DEF NoLine
<1>8. Inv'
    BY <1>1, <1>6, <1>7 DEF Inv, OnScreen
<1>9. ASSUME OneRow, Wrong(text, view) = {} PROVE Wrong(text', view') = {}
    <2>1. view.top \in Nat /\ view.height \in Nat
        BY BeginView, ViewFields
    <2>2. view.start <= view.top + view.height
        BY <1>2, <2>1 DEF NoLine
    <2> QED BY <1>1, <1>2, <1>4, <1>9, <2>2, UpdatedIsRight
<1>10. Followed
    BY DEF Followed
<1>11. Spares(text', view')
    <2>1. view'.first - 1 <= LastBufferLine(view') /\ view'.first \in Nat /\ LastBufferLine(view') \in Int
        BY <1>5, ViewFields DEF Moving
    <2>2. Reaches(view')
        BY <1>5, <2>1 DEF Reaches
    <2> QED BY <1>1, <1>5, <2>2 DEF Spares, Outlives, Alive
<1> QED BY <1>6, <1>8, <1>9, <1>10, <1>11 DEF Rightly, Resumed

-----------------------------------------------------------------------------
(* The theorems.                                                           *)
(* A new view draws the text for the first time.                           *)
LEMMA InitIsRight ==
    ASSUME Init
    PROVE  Inv /\ Wrong(text, view) = {} /\ Exist
<1>1. PICK h \in Heights : view = RecalcScreen(text, NewView(h))
    BY DEF Init
<1>2. text \in Texts /\ text \in Seq(Lines) /\ text # <<>> /\ Len(text) \in Nat
    BY TextIsSeq DEF Init
<1> DEFINE v == NewView(h)
           empty == [line |-> Nothing, marked |-> FALSE]
<1>3. /\ Fn(v) /\ v.first = 0 /\ v.top = 0 /\ v.content = << empty >> /\ v.height = h
      /\ v.cursor = 0 /\ v.start = NoLine /\ v.selected = NoInterval /\ v.dead = FALSE
      /\ v.level = 0 /\ DOMAIN v.screen = 0..h - 1
    BY DEF NewView, Fn, Fields
<1>4. empty \in Sections /\ empty.marked = FALSE
    BY DEF Sections
<1> HIDE DEF v, empty
<1>5. << empty >> \in Seq(Sections) /\ Len(<< empty >>) = 1
    BY <1>4
<1>6. IsView(v)
    <2>1. Fn(v) /\ v.height \in Heights /\ DOMAIN v.screen = 0..v.height - 1
        BY <1>3
    <2>2. v.first \in Nat /\ v.top \in Nat /\ v.first <= v.top /\ v.cursor \in Nat /\ v.level \in Nat
        BY <1>3
    <2>3. v.content \in Seq(Sections)
        BY <1>3, <1>5
    <2>4. v.start \in Nat \cup {NoLine} /\ v.selected \in Nat \X Int /\ v.dead \in BOOLEAN
        <3>1. v.start = NoLine /\ v.dead = FALSE /\ v.selected = << 0, -1 >>
            BY <1>3 DEF NoInterval
        <3>2. << 0, -1 >> \in Nat \X Int
            OBVIOUS
        <3> QED BY <3>1, <3>2
    <2> QED BY <2>1, <2>2, <2>3, <2>4 DEF IsView
<1>7. Cached(v) = {0} /\ Section(v, 0) = empty
    <2>1. LastBufferLine(v) = 0
        BY <1>3, <1>5 DEF LastBufferLine
    <2> QED BY <1>3, <2>1 DEF Cached, Section
<1>8. Marks(v) = {} /\ Wrong(text, v) \subseteq {0}
    BY <1>4, <1>7 DEF Marks, Wrong
<1>9. Moving(v)
    BY <1>3, <1>6, <1>8 DEF Moving, Locked, MarkedIn
<1>10. /\ Settled(view) /\ view.level = 0 /\ PendingIn(view) /\ view.start = NoLine
       /\ Wrong(text, view) \subseteq Wrong(text, v) \ {0}
       /\ CursorShown(view) /\ Grown(text, v.cursor, v, view)
    BY <1>1, <1>2, <1>3, <1>9, RecalcSettles DEF v
<1>11. Wrong(text, view) = {}
    BY <1>8, <1>10
<1>12. view.level \in 0..MaxLevel /\ view.start < Len(text) /\ OnScreen(view)
    BY <1>2, <1>10, ScreenAssumption DEF NoLine, OnScreen
<1>13. Exist
    <2>1. 1 <= Len(text) /\ LastBufferLine(v) = 0
        BY <1>2, <1>3, <1>5, TextIsSeq DEF LastBufferLine
    <2>2. Within(text, v)
        BY <1>2, <1>3, <2>1 DEF Within, Greatest
    <2>3. Reaches(view)
        BY <1>10, ShownReaches DEF Settled
    <2> QED BY <1>10, <2>2, <2>3 DEF Exist, Grown
<1> QED BY <1>2, <1>10, <1>11, <1>12, <1>13 DEF Inv

(* Every step keeps the invariant, and lines that do not wrap right.       *)
LEMMA NextKeeps ==
    ASSUME Inv, [Next]_vars
    PROVE  /\ Inv' /\ (Resumed \/ TypeBelowText) /\ (Followed \/ UNCHANGED vars)
           /\ OneRow /\ [~DeletesBelowScreen]_vars /\ Wrong(text, view) = {}
                 => Wrong(text', view') = {}
           /\ Spares(text', view')
<1>1. CASE UNCHANGED vars
    BY <1>1 DEF Resumed, vars, Inv, Settled, PendingIn, OnScreen, IsView, Fn, Locked, MarkedIn, Marks,
                Wrong, Cached, Section, SectionOf, LastBufferLine, Selected,
                Spares, Exist, Within, Reaches, Alive
<1>2. CASE MoveTo \/ MoveInWindow
    BY <1>2, MoveToKeeps DEF Unedited
<1>3. CASE ScrollPageUp \/ ScrollPageDown
    BY <1>3, ScrollPageKeeps DEF Unedited
<1>4. CASE ScrollLineUp \/ ScrollLineDown
    BY <1>4, ScrollLineKeeps DEF Unedited
<1>5. CASE GotoLineAtTop \/ GotoLineAtCenter \/ GotoLineAtBottom
    BY <1>5, GotoLineKeeps DEF Unedited
<1>6. CASE StartVisual
    BY <1>6, StartVisualKeeps DEF Unedited
<1>7. CASE Escape
    BY <1>7, EscapeKeeps DEF Unedited
<1>8. CASE Redisplay
    BY <1>8, RedisplayKeeps DEF Unedited
<1>9. CASE SetVisibleArea
    BY <1>9, SetVisibleAreaKeeps DEF Unedited
<1>10. CASE TypeBelowText
    BY <1>10, TypeBelowTextKeeps DEF Unedited
<1>11. CASE ChangeLine \/ OpenLine
    BY <1>11, ChangeLineKeeps DEF Rightly
<1>12. CASE DeleteLines
    BY <1>12, DeleteLinesKeeps DEF Rightly
<1>13. CASE EditElsewhere
    BY <1>13, EditElsewhereKeeps DEF Rightly
<1>14. CASE DeleteSelected
    <2>1. Inv' /\ Resumed /\ Followed /\ Spares(text', view') /\ (~DeletesBelowScreen => Rightly)
        BY <1>14, DeleteSelectedKeeps
    <2>2. CASE UNCHANGED vars
        BY <1>1, <2>2
    <2>3. CASE ~UNCHANGED vars
        BY <2>1, <2>3 DEF Rightly
    <2> QED BY <2>2, <2>3
<1> QED BY <1>1, <1>2, <1>3, <1>4, <1>5, <1>6, <1>7, <1>8, <1>9, <1>10, <1>11, <1>12, <1>13, <1>14
        DEF Next

(* What the invariant says of the types and of the marks.                  *)
LEMMA InvIsSound ==
    ASSUME Inv
    PROVE  TypeOK /\ MarksAreSelection
<1>1. IsView(view) /\ Settled(view) /\ MaxLevel \in Nat
    BY ScreenAssumption DEF Inv, Settled
<1>2. TypeOK
    BY <1>1 DEF Inv, TypeOK, IsView, PendingIn
<1>3. ASSUME NEW bl \in view.first..LastBufferLine(view)
      PROVE  Section(view, bl).marked <=> InSelection(bl)
    <2>1. bl \in Cached(view) /\ bl \in Int
        BY <1>1, <1>3, ViewFields DEF Cached
    <2>2. Section(view, bl).marked <=> bl \in Marks(view)
        BY <2>1 DEF Marks
    <2>3. CASE view.start = NoLine
        BY <1>1, <2>2, <2>3 DEF Settled, InSelection, Visual
    <2>4. CASE view.start # NoLine
        <3>1. view.start \in Nat /\ view.cursor \in Nat
            BY <1>1, <2>4 DEF IsView
        <3>2. Least(view.start, view.cursor) \in Int /\ Greatest(view.start, view.cursor) \in Int
            BY <3>1 DEF Least, Greatest
        <3>3. bl \in Marks(view) <=> bl \in Selected(view)
            BY <1>1, <2>1, <2>4 DEF Settled
        <3>4. bl \in Selected(view) <=> InSelection(bl)
            BY <2>1, <2>4, <3>2 DEF Selected, InSelection, Visual
        <3> QED BY <2>2, <3>3, <3>4
    <2> QED BY <2>3, <2>4
<1> QED BY <1>2, <1>3 DEF MarksAreSelection

(* YDrawBuffer and YView: the cache holds lines and sections, its numbers  *)
(* are lines of the buffer, and only rows of the window are to be painted. *)
THEOREM TypeCorrect == Spec => []TypeOK
<1>1. Init => Inv
    BY InitIsRight
<1>2. Inv /\ [Next]_vars => Inv'
    BY NextKeeps
<1>3. Inv => TypeOK
    BY InvIsSound
<1> QED BY <1>1, <1>2, <1>3, PTL DEF Spec

(* YView::setSelection(), YModeVisual::cursorMoved() and leaving the mode: *)
(* exactly the cached lines from where the selection started to the cursor *)
(* are marked, for every text, window and sequence of commands.            *)
THEOREM MarksAreSelectionHolds == Spec => []MarksAreSelection
<1>1. Init => Inv
    BY InitIsRight
<1>2. Inv /\ [Next]_vars => Inv'
    BY NextKeeps
<1>3. Inv => MarksAreSelection
    BY InvIsSound
<1> QED BY <1>1, <1>2, <1>3, PTL DEF Spec

(* YView::updateBufferInterval() and YDrawBuffer: where no line wraps, the *)
(* lines of the screen are drawn from the text, after any edits in this    *)
(* view and in others, unless a selection is deleted that started further  *)
(* below the screen.                                                       *)
THEOREM CacheIsSoundHolds ==
    ASSUME \A l \in Lines : LineHeight[l] = 1
    PROVE  Spec /\ [][~DeletesBelowScreen]_vars => []CacheIsSound
<1> DEFINE IInv == Inv /\ Wrong(text, view) = {}
<1>1. OneRow
    BY DEF OneRow
<1>2. Init => IInv
    BY InitIsRight
<1>3. IInv /\ [Next]_vars /\ [~DeletesBelowScreen]_vars => IInv'
    <2> SUFFICES ASSUME IInv, [Next]_vars, [~DeletesBelowScreen]_vars PROVE IInv'
        OBVIOUS
    <2>1. Inv' /\ Wrong(text', view') = {}
        BY <1>1, NextKeeps
    <2>2. Wrong(text, view)' = Wrong(text', view')
        BY DEF Wrong, Cached, Section, SectionOf, LastBufferLine
    <2> QED BY <2>1, <2>2
<1>4. IInv => CacheIsSound
    <2> SUFFICES ASSUME IInv PROVE CacheIsSound
        OBVIOUS
    <2>1. TypeOK /\ MarksAreSelection
        BY InvIsSound
    <2>2. IsView(view) /\ text \in Seq(Lines)
        BY BeginView
    <2>3. ASSUME NEW bl \in view.top..ScreenBottomBufferLine(view), bl < Len(text)
          PROVE  Section(view, bl).line = text[bl + 1]
        <3>1. /\ ScreenBottomBufferLine(view) \in Int /\ LastBufferLine(view) \in Int
              /\ ScreenBottomBufferLine(view) <= LastBufferLine(view)
              /\ view.top \in Nat /\ view.first \in Nat /\ view.first <= view.top
            BY <2>2, BottomFacts, ViewFields
        <3>2. bl \in Cached(view)
            BY <2>3, <3>1 DEF Cached
        <3>3. Section(view, bl).line = SectionOf(text, bl).line
            BY <3>2 DEF Wrong
        <3> QED BY <2>3, <3>3 DEF SectionOf
    <2> QED BY <2>1, <2>3 DEF CacheIsSound, CacheShowsText
<1> HIDE DEF IInv
<1> QED BY <1>2, <1>3, <1>4, PTL DEF Spec

(* YView::commitPaintEvent(): whatever a command draws, and however often  *)
(* it suspends the painting on the way, the painting is as suspended after *)
(* it as before, and nothing waits for the terminal once it is not.        *)
THEOREM PaintingResumesHolds == Spec => PaintingResumes
<1>1. Init => Inv
    BY InitIsRight
<1>2. Inv /\ [Next]_vars => Inv' /\ (Resumed \/ TypeBelowText)
    BY NextKeeps
<1>3. Inv /\ Inv' /\ (Resumed \/ TypeBelowText)
        => [ \/ view'.level = view.level /\ (view.level = 0 => view'.pending = {})
             \/ TypeBelowText ]_vars
    BY DEF Resumed, Inv, PendingIn
<1> QED BY <1>1, <1>2, <1>3, PTL DEF Spec, PaintingResumes

(* YView::gotoViewCursor(), ScrollForCursor() and the scrolling commands:  *)
(* a command that moves the cursor, or edits, leaves the cursor's line     *)
(* between the first and the last line of the screen, wrapped or not.      *)
THEOREM CursorIsShownHolds == Spec => CursorIsShown
<1> DEFINE Seen == view.top <= view.cursor /\ view.cursor <= ScreenBottomBufferLine(view)
<1>1. Init => Inv
    BY InitIsRight
<1>2. Inv /\ [Next]_vars => Inv' /\ (Followed \/ UNCHANGED vars)
    BY NextKeeps
<1>3. CursorShown(view') => Seen'
    BY DEF CursorShown, ScreenBottomBufferLine, RowsBetween, LastBufferLine, Section, Count
<1>4. Followed \/ UNCHANGED vars
        => [ \/ Seen'
             \/ ~Alive' \/ StartVisual \/ Escape \/ TypeBelowText \/ EditElsewhere ]_vars
    BY <1>3 DEF Followed
<1> HIDE DEF Seen
<1>5. Spec => [][ \/ Seen'
                  \/ ~Alive' \/ StartVisual \/ Escape \/ TypeBelowText \/ EditElsewhere ]_vars
    BY <1>1, <1>2, <1>4, PTL DEF Spec
<1> QED BY <1>5 DEF CursorIsShown, Seen

(* The cache holds lines of the text only, from the top of the screen on.  *)
LEMMA ExistKeeps ==
    ASSUME Inv, Exist, [Next]_vars
    PROVE  Exist'
<1>1. Spares(text', view')
    BY NextKeeps
<1> QED BY <1>1 DEF Spares, Exist, Within, Reaches, LastBufferLine

(* Only a view that is alive is worked on: a dead one ends the program.    *)
LEMMA OnlyAliveMove ==
    ASSUME Next
    PROVE  Alive
BY DEF Next, Command, MoveTo, MoveInWindow, ScrollPageUp, ScrollPageDown, ScrollLineUp,
       ScrollLineDown, GotoLineAtTop, GotoLineAtCenter, GotoLineAtBottom, StartVisual, Escape,
       Redisplay, SetVisibleArea, ChangeLine, OpenLine, DeleteLines, DeleteSelected,
       EditElsewhere, TypeBelowText

(* YDrawBuffer::targetBufferLine() and YView::gotoViewCursor(): the screen *)
(* follows the cursor, and no command draws a line that does not exist,    *)
(* unless the cursor's line is gone, or the text has become shorter than   *)
(* the screen's top line or than a selection remembered from before.       *)
THEOREM ScreenFollowsCursorHolds == Spec => ScreenFollowsCursor
<1> DEFINE IInv == Inv /\ Exist
           Missing == \/ Len(text') <= view.top
                      \/ Len(text') <= view.selected[1]
                      \/ ~InText
<1>1. Init => IInv
    BY InitIsRight
<1>2. IInv /\ [Next]_vars => IInv'
    BY NextKeeps, ExistKeeps
<1>3. IInv /\ IInv' /\ [Next]_vars => [~Alive' => Missing]_vars
    <2> SUFFICES ASSUME IInv, IInv', Next, ~Alive', ~Missing PROVE FALSE
        OBVIOUS
    <2>1. Spares(text', view') /\ Alive /\ view'.dead
        BY NextKeeps, OnlyAliveMove DEF Alive
    <2>2. Len(text') \in Nat
        BY TextIsSeq DEF Inv
    <2>3. view.top \in Nat /\ view.selected[1] \in Nat
        <3>1. IsView(view)
            BY BeginView
        <3> QED BY <3>1, ViewFields DEF IsView
    <2>4. view.top < Len(text') /\ view.selected[1] < Len(text') /\ InText
        BY <2>2, <2>3
    <2> QED BY <2>1, <2>4 DEF Spares
<1> HIDE DEF IInv, Missing
<1>4. Spec => [][~Alive' => Missing]_vars
    BY <1>1, <1>2, <1>3, PTL DEF Spec
<1>5. Spec => OnlyMissingLinesKill
    BY <1>4 DEF OnlyMissingLinesKill, Missing
<1> QED BY <1>5, CursorIsShownHolds DEF ScreenFollowsCursor
=============================================================================

--------------------------- MODULE Session_proofs ---------------------------
(***************************************************************************)
(* Proofs about Session, for any number of buffers, views, files and lines:*)
(* the lists of buffers and views agree after every command (Good, the     *)
(* inductive invariant), text is lost only when asked for, two buffers get *)
(* one name only by saving, and what is closed is remembered.              *)
(***************************************************************************)
EXTENDS MCSession, SequenceTheorems, InductionLemmas

(* Lists: what is in them, and that nothing is in them twice.              *)
LEMMA SmallestIndex ==
    ASSUME NEW I \in SUBSET Nat, I # {}
    PROVE  Min(I) \in I /\ \A i \in I : Min(I) <= i
<1>1. PICK n \in I : \A m \in I : n <= m
    BY LeastNumber
<1> QED BY <1>1 DEF Min

(* What is in a list is what its indices hold.                             *)
LEMMA InList ==
    ASSUME NEW S, NEW list \in Seq(S)
    PROVE  /\ ToSet(list) = {list[i] : i \in 1..Len(list)}
           /\ ToSet(list) \subseteq S
           /\ ToSet(list) = {} <=> list = <<>>
<1>1. Len(list) \in Nat /\ DOMAIN list = 1..Len(list)
    BY LenProperties
<1>2. ToSet(list) = {list[i] : i \in 1..Len(list)}
    BY <1>1 DEF ToSet
<1>3. \A i \in 1..Len(list) : list[i] \in S
    BY ElementOfSeq
<1>4. list # <<>> => Len(list) \in Nat \ {0}
    BY EmptySeq
<1>5. list = <<>> => Len(list) = 0
    BY EmptySeq
<1> QED BY <1>1, <1>2, <1>3, <1>4, <1>5

(* An element not yet in a list is put behind it: nothing gets twice in it.*)
LEMMA AppendToList ==
    ASSUME NEW S, NEW list \in Seq(S), IsInjective(list), NEW x \in S, x \notin ToSet(list)
    PROVE  /\ Append(list, x) \in Seq(S)
           /\ IsInjective(Append(list, x))
           /\ ToSet(Append(list, x)) = ToSet(list) \union {x}
           /\ Len(Append(list, x)) = Len(list) + 1
           /\ Last(Append(list, x)) = x
           /\ \A i \in 1..Len(list) : Append(list, x)[i] = list[i]
<1> DEFINE t == Append(list, x)
<1>1. /\ t \in Seq(S) /\ Len(t) = Len(list) + 1
      /\ \A i \in 1..Len(list) : t[i] = list[i]
      /\ t[Len(list) + 1] = x
    BY AppendProperties
<1>2. Len(list) \in Nat /\ DOMAIN list = 1..Len(list) /\ DOMAIN t = 1..Len(list) + 1
    BY <1>1, LenProperties
<1> HIDE DEF t
<1>3. ToSet(list) = {list[i] : i \in 1..Len(list)} /\ ToSet(t) = {t[i] : i \in 1..Len(list) + 1}
    BY <1>2 DEF ToSet
<1>4. ToSet(t) = ToSet(list) \union {x}
    BY <1>1, <1>2, <1>3
<1>5. IsInjective(t)
    <2> SUFFICES ASSUME NEW i \in 1..Len(list) + 1, NEW j \in 1..Len(list) + 1, t[i] = t[j]
                 PROVE  i = j
        BY <1>2 DEF IsInjective
    <2>1. CASE i \in 1..Len(list) /\ j \in 1..Len(list)
        BY <1>1, <1>2, <2>1 DEF IsInjective
    <2>2. CASE i = Len(list) + 1
        BY <1>1, <1>2, <1>3, <2>2
    <2>3. CASE j = Len(list) + 1
        BY <1>1, <1>2, <1>3, <2>3
    <2> QED BY <1>2, <2>1, <2>2, <2>3
<1>6. Last(t) = x
    BY <1>1 DEF Last
<1> QED BY <1>1, <1>4, <1>5, <1>6 DEF t

(* Without() takes the only occurrence of an element out, as removeAll() does.*)
LEMMA WithoutOne ==
    ASSUME NEW S, NEW list \in Seq(S), IsInjective(list), NEW x
    PROVE  /\ Without(list, x) \in Seq(S)
           /\ IsInjective(Without(list, x))
           /\ ToSet(Without(list, x)) = ToSet(list) \ {x}
<1> DEFINE n == Len(list)
<1>1. n \in Nat /\ DOMAIN list = 1..n /\ \A i \in 1..n : list[i] \in S
    BY LenProperties, ElementOfSeq
<1>2. ToSet(list) = {list[i] : i \in 1..n}
    BY <1>1 DEF ToSet
<1>3. CASE x \notin ToSet(list)
    <2>1. Without(list, x) = list
        BY <1>2, <1>3 DEF Without, RemoveFirst
    <2> QED BY <1>3, <2>1
<1>4. CASE x \in ToSet(list)
    <2> DEFINE I == {i \in 1..Len(list) : list[i] = x}
               k == Min(I)
    <2>1. I \in SUBSET Nat /\ I # {}
        BY <1>2, <1>4
    <2>2. k \in 1..n /\ list[k] = x
        BY <2>1, SmallestIndex
    <2>3. Without(list, x) = RemoveAt(list, k)
        BY <2>1 DEF Without, RemoveFirst, SelectInSeq
    <2> HIDE DEF k, I
    <2> DEFINE a == SubSeq(list, 1, k - 1)
               b == SubSeq(list, k + 1, n)
               t == a \o b
    <2>4. a \in Seq(S) /\ Len(a) = k - 1 /\ \A i \in 1..k - 1 : a[i] = list[i]
        <3>1. \A i \in 1..k - 1 : list[i] \in S
            BY <1>1, <2>2
        <3>2. k - 1 \in Int /\ 1 \in Int
            BY <2>2
        <3>3. /\ a \in Seq(S)
              /\ Len(a) = IF 1 <= k - 1 THEN k - 1 - 1 + 1 ELSE 0
              /\ \A i \in 1..k - 1 - 1 + 1 : a[i] = list[1 + i - 1]
            BY <3>1, <3>2, SubSeqProperties
        <3> HIDE DEF a
        <3>4. (IF 1 <= k - 1 THEN k - 1 - 1 + 1 ELSE 0) = k - 1
            BY <2>2
        <3>5. \A i \in 1..k - 1 : i \in 1..k - 1 - 1 + 1 /\ 1 + i - 1 = i
            BY <2>2
        <3> QED BY <3>3, <3>4, <3>5
    <2>5. b \in Seq(S) /\ Len(b) = n - k /\ \A i \in 1..n - k : b[i] = list[k + i]
        <3>1. \A i \in k + 1..n : list[i] \in S
            BY <1>1, <2>2
        <3>2. k + 1 \in Int /\ n \in Int
            BY <1>1, <2>2
        <3>3. /\ b \in Seq(S)
              /\ Len(b) = IF k + 1 <= n THEN n - (k + 1) + 1 ELSE 0
              /\ \A i \in 1..n - (k + 1) + 1 : b[i] = list[k + 1 + i - 1]
            BY <3>1, <3>2, SubSeqProperties
        <3> HIDE DEF b, n
        <3>4. (IF k + 1 <= n THEN n - (k + 1) + 1 ELSE 0) = n - k
            BY <1>1, <2>2
        <3>5. \A i \in 1..n - k : i \in 1..n - (k + 1) + 1 /\ k + 1 + i - 1 = k + i
            BY <1>1, <2>2
        <3> QED BY <3>3, <3>4, <3>5
    <2> HIDE DEF a, b, n
    <2>6. /\ t \in Seq(S) /\ Len(t) = n - 1
          /\ \A i \in 1..n - 1 : t[i] = IF i < k THEN list[i] ELSE list[i + 1]
        <3>1. /\ t \in Seq(S) /\ Len(t) = Len(a) + Len(b)
              /\ \A i \in 1..Len(a) + Len(b) : t[i] = IF i <= Len(a) THEN a[i] ELSE b[i - Len(a)]
            BY <2>4, <2>5, ConcatProperties
        <3> HIDE DEF t
        <3>2. Len(a) + Len(b) = n - 1
            BY <1>1, <2>2, <2>4, <2>5
        <3>3. ASSUME NEW i \in 1..n - 1 PROVE t[i] = IF i < k THEN list[i] ELSE list[i + 1]
            <4>1. CASE i < k
                <5>1. i <= k - 1 /\ i \in 1..k - 1
                    BY <1>1, <2>2, <4>1
                <5> QED BY <3>1, <3>2, <2>4, <4>1, <5>1
            <4>2. CASE ~(i < k)
                <5>1. ~(i <= k - 1) /\ i - (k - 1) \in 1..n - k /\ k + (i - (k - 1)) = i + 1
                    BY <1>1, <2>2, <4>2
                <5> QED BY <3>1, <3>2, <2>4, <2>5, <4>2, <5>1
            <4> QED BY <4>1, <4>2
        <3> QED BY <3>1, <3>2, <3>3
    <2>7. t = Without(list, x)
        BY <2>3 DEF RemoveAt, a, b, n
    <2> HIDE DEF t
    <2>8. DOMAIN t = 1..n - 1
        BY <1>1, <2>2, <2>6, LenProperties
    <2>9. ASSUME NEW i \in 1..n, NEW j \in 1..n, list[i] = list[j] PROVE i = j
        BY <1>1, <2>9 DEF IsInjective
    <2>10. IsInjective(t)
        <3> SUFFICES ASSUME NEW i \in 1..n - 1, NEW j \in 1..n - 1, t[i] = t[j] PROVE i = j
            BY <2>8 DEF IsInjective
        <3> DEFINE p == IF i < k THEN i ELSE i + 1
                   q == IF j < k THEN j ELSE j + 1
        <3>1. p \in 1..n /\ q \in 1..n /\ (p = q => i = j)
            BY <1>1, <2>2
        <3>2. list[p] = list[q]
            BY <2>6
        <3> HIDE DEF p, q
        <3> QED BY <2>9, <3>1, <3>2
    <2>11. ToSet(t) = {t[i] : i \in 1..n - 1}
        BY <2>8 DEF ToSet
    <2>12. ToSet(t) \subseteq ToSet(list) \ {x}
        <3> SUFFICES ASSUME NEW i \in 1..n - 1 PROVE t[i] \in ToSet(list) \ {x}
            BY <2>11
        <3> DEFINE p == IF i < k THEN i ELSE i + 1
        <3>1. p \in 1..n /\ p # k
            BY <1>1, <2>2
        <3>2. t[i] = list[p]
            BY <2>6
        <3> HIDE DEF p
        <3> QED BY <1>2, <2>2, <2>9, <3>1, <3>2
    <2>13. ToSet(list) \ {x} \subseteq ToSet(t)
        <3> SUFFICES ASSUME NEW i \in 1..n, list[i] # x PROVE list[i] \in ToSet(t)
            BY <1>2
        <3> DEFINE p == IF i < k THEN i ELSE i - 1
        <3>1. i # k
            BY <2>2
        <3>2. p \in 1..n - 1 /\ i = (IF p < k THEN p ELSE p + 1)
            BY <1>1, <2>2, <3>1
        <3> HIDE DEF p
        <3>3. t[p] = list[i]
            BY <2>6, <3>2
        <3> QED BY <2>11, <3>2, <3>3
    <2> QED BY <2>6, <2>7, <2>10, <2>12, <2>13
<1> QED BY <1>3, <1>4

(* indexOf() of an element of the list is an index that holds it.          *)
LEMMA IndexFound ==
    ASSUME NEW S, NEW list \in Seq(S), NEW x \in ToSet(list)
    PROVE  IndexOf(list, x) \in 1..Len(list) /\ list[IndexOf(list, x)] = x
<1>1. \E i \in 1..Len(list) : list[i] = x
    BY InList
<1> QED BY <1>1 DEF IndexOf
-----------------------------------------------------------------------------
(* The invariant. A listed buffer is shown by exactly one view, which is   *)
(* listed, and the other way round; what is not listed is free; and the    *)
(* current view and buffer belong together.                                *)
Matched(s) ==
    /\ \A b \in ToSet(s.mBufferList) :
         /\ s.buffer[b].state = "active"
         /\ \E v \in ToSet(s.mViewList) : s.buffer[b].views = <<v>> /\ s.view[v].buffer = b
    /\ \A v \in ToSet(s.mViewList) :
         /\ s.view[v].buffer \in ToSet(s.mBufferList)
         /\ s.buffer[s.view[v].buffer].views = <<v>>
    /\ \A b \in Buffer \ ToSet(s.mBufferList) : s.buffer[b] = FreedBuffer
    /\ \A v \in View \ ToSet(s.mViewList) : s.view[v] = FreedView

Listing(s) ==
    /\ s \in SessionState
    /\ IsInjective(s.mBufferList) /\ IsInjective(s.mViewList)
    /\ Matched(s)

CurrentIn(s) ==
    /\ s.mCurView \in ToSet(s.mViewList)
    /\ s.mCurBuffer = s.view[s.mCurView].buffer

Good(s) == Listing(s) /\ CurrentIn(s)

(* The fields of a state.                                                  *)
LEMMA StateFields ==
    ASSUME NEW s \in SessionState
    PROVE  /\ s.mBufferList \in Seq(Buffer) /\ ToSet(s.mBufferList) \subseteq Buffer
           /\ s.mViewList \in Seq(View) /\ ToSet(s.mViewList) \subseteq View
           /\ s.mCurView \in View \union {NoView} /\ s.mCurBuffer \in Buffer \union {NoBuffer}
           /\ s.buffer \in [Buffer -> YBuffer] /\ s.view \in [View -> YView]
           /\ s.mStartPosition \in [File -> Line]
           /\ s.running \in BOOLEAN /\ s.lost \in BOOLEAN
<1>1. s.mBufferList \in Seq(Buffer) /\ s.mViewList \in Seq(View)
    BY DEF SessionState
<1> QED BY <1>1, InList DEF SessionState

(* A state that differs only in what buffers are named, whether they are   *)
(* modified, where cursors are, what positions are kept, and whether the   *)
(* program runs.                                                           *)
SameLists(t, s) ==
    /\ t \in SessionState
    /\ t.mBufferList = s.mBufferList /\ t.mViewList = s.mViewList
    /\ t.mCurView = s.mCurView /\ t.mCurBuffer = s.mCurBuffer
    /\ \A b \in ToSet(s.mBufferList) :
         t.buffer[b].state = s.buffer[b].state /\ t.buffer[b].views = s.buffer[b].views
    /\ \A b \in Buffer \ ToSet(s.mBufferList) : t.buffer[b] = s.buffer[b]
    /\ \A v \in ToSet(s.mViewList) : t.view[v].buffer = s.view[v].buffer
    /\ \A v \in View \ ToSet(s.mViewList) : t.view[v] = s.view[v]

(* What moves no buffer or view in or out keeps the lists agreeing.        *)
LEMMA SameListsKeeps ==
    ASSUME NEW s, Listing(s), NEW t, SameLists(t, s)
    PROVE  Listing(t) /\ (CurrentIn(s) => CurrentIn(t))
<1>1. /\ t.mBufferList = s.mBufferList /\ t.mViewList = s.mViewList
      /\ ToSet(s.mBufferList) \subseteq Buffer /\ ToSet(s.mViewList) \subseteq View
    BY StateFields DEF Listing, SameLists
<1>2. ASSUME NEW b \in ToSet(s.mBufferList)
      PROVE  /\ t.buffer[b].state = "active"
             /\ \E v \in ToSet(t.mViewList) : t.buffer[b].views = <<v>> /\ t.view[v].buffer = b
    <2>1. PICK v \in ToSet(s.mViewList) : s.buffer[b].views = <<v>> /\ s.view[v].buffer = b
        BY DEF Listing, Matched
    <2> QED BY <1>1, <2>1 DEF Listing, Matched, SameLists
<1>3. ASSUME NEW v \in ToSet(s.mViewList)
      PROVE  /\ t.view[v].buffer \in ToSet(t.mBufferList)
             /\ t.buffer[t.view[v].buffer].views = <<v>>
    BY <1>1 DEF Listing, Matched, SameLists
<1>4. /\ \A b \in Buffer \ ToSet(s.mBufferList) : t.buffer[b] = FreedBuffer
      /\ \A v \in View \ ToSet(s.mViewList) : t.view[v] = FreedView
    BY DEF Listing, Matched, SameLists
<1>5. Matched(t)
    BY <1>1, <1>2, <1>3, <1>4 DEF Matched
<1> QED BY <1>5 DEF Listing, CurrentIn, SameLists

(* Two such changes after one another are one.                             *)
LEMMA SameListsSteps ==
    /\ \A s \in SessionState : SameLists(s, s)
    /\ \A s, t, u : SameLists(t, s) /\ SameLists(u, t) => SameLists(u, s)
BY DEF SameLists

(* A buffer gets a name, or is marked, saved or read.                      *)
LEMMA ChangeBuffer ==
    ASSUME NEW s, Listing(s), NEW b \in ToSet(s.mBufferList), NEW f \in [Buffer -> YBuffer],
           \A c \in Buffer : c # b => f[c] = s.buffer[c],
           f[b].state = s.buffer[b].state, f[b].views = s.buffer[b].views
    PROVE  LET t == [s EXCEPT !.buffer = f] IN
           /\ SameLists(t, s) /\ t.buffer = f /\ t.view = s.view
           /\ t.lost = s.lost /\ t.running = s.running /\ t.mStartPosition = s.mStartPosition
<1>1. s \in SessionState /\ b \in Buffer
    BY StateFields DEF Listing
<1> DEFINE t == [s EXCEPT !.buffer = f]
<1>2. /\ t \in SessionState /\ t.buffer = f
      /\ t.mBufferList = s.mBufferList /\ t.mViewList = s.mViewList
      /\ t.mCurView = s.mCurView /\ t.mCurBuffer = s.mCurBuffer /\ t.view = s.view
      /\ t.lost = s.lost /\ t.running = s.running /\ t.mStartPosition = s.mStartPosition
    BY <1>1 DEF SessionState
<1> HIDE DEF t
<1>3. ToSet(s.mBufferList) \subseteq Buffer
    BY <1>1, StateFields
<1>4. \A c \in ToSet(s.mBufferList) : f[c].state = s.buffer[c].state /\ f[c].views = s.buffer[c].views
    BY <1>3
<1>5. \A c \in Buffer \ ToSet(s.mBufferList) : f[c] = s.buffer[c]
    OBVIOUS
<1>6. SameLists(t, s)
    BY <1>2, <1>4, <1>5 DEF SameLists
<1> QED BY <1>2, <1>6 DEF t

(* setPath() gives one buffer a name and changes no other.                 *)
LEMMA SetPathKeeps ==
    ASSUME NEW s, Listing(s), NEW b \in ToSet(s.mBufferList), NEW name \in Name
    PROVE  LET t == SetPath(s, b, name) IN
           /\ SameLists(t, s) /\ t.view = s.view /\ t.lost = s.lost /\ t.running = s.running
           /\ t.mStartPosition = s.mStartPosition
           /\ t.buffer[b].path = name /\ ~t.buffer[b].isFileNew
           /\ t.buffer[b].isModified = s.buffer[b].isModified
           /\ \A c \in Buffer : c # b => t.buffer[c] = s.buffer[c]
<1>1. s \in SessionState /\ b \in Buffer /\ s.buffer \in [Buffer -> YBuffer]
    BY StateFields DEF Listing
<1> DEFINE x == [s.buffer[b] EXCEPT !.path = name, !.isFileNew = FALSE]
           f == [s.buffer EXCEPT ![b] = [@ EXCEPT !.path = name, !.isFileNew = FALSE]]
<1>2. /\ x \in YBuffer /\ x.state = s.buffer[b].state /\ x.views = s.buffer[b].views
      /\ x.path = name /\ ~x.isFileNew /\ x.isModified = s.buffer[b].isModified
    BY <1>1 DEF YBuffer
<1>3. f[b] = x /\ \A c \in Buffer : c # b => f[c] = s.buffer[c]
    BY <1>1
<1>4. SetPath(s, b, name) = [s EXCEPT !.buffer = f]
    <2>1. [s EXCEPT !.buffer[b].path = name, !.buffer[b].isFileNew = FALSE]
          = [s EXCEPT !.buffer = [s.buffer EXCEPT ![b].path = name, ![b].isFileNew = FALSE]]
        BY <1>1 DEF SessionState
    <2>2. [s.buffer EXCEPT ![b].path = name, ![b].isFileNew = FALSE] = f
        BY <1>1 DEF YBuffer
    <2> QED BY <2>1, <2>2 DEF SetPath
<1>5. f \in [Buffer -> YBuffer]
    BY <1>1, <1>2, <1>3
<1> HIDE DEF x, f
<1>6. /\ SameLists(SetPath(s, b, name), s) /\ SetPath(s, b, name).buffer = f
      /\ SetPath(s, b, name).view = s.view /\ SetPath(s, b, name).lost = s.lost
      /\ SetPath(s, b, name).running = s.running
      /\ SetPath(s, b, name).mStartPosition = s.mStartPosition
    BY <1>2, <1>3, <1>4, <1>5, ChangeBuffer
<1> QED BY <1>2, <1>3, <1>6

Marked(s, b, m) == [s EXCEPT !.buffer[b].isModified = m]

(* setChanged() marks one buffer and changes no other.                     *)
LEMMA MarkKeeps ==
    ASSUME NEW s, Listing(s), NEW b \in ToSet(s.mBufferList), NEW m \in BOOLEAN
    PROVE  LET t == Marked(s, b, m) IN
           /\ SameLists(t, s) /\ t.view = s.view /\ t.lost = s.lost /\ t.running = s.running
           /\ t.mStartPosition = s.mStartPosition
           /\ t.buffer[b].isModified = m
           /\ t.buffer[b].path = s.buffer[b].path
           /\ t.buffer[b].isFileNew = s.buffer[b].isFileNew
           /\ \A c \in Buffer : c # b => t.buffer[c] = s.buffer[c]
<1>1. s \in SessionState /\ b \in Buffer /\ s.buffer \in [Buffer -> YBuffer]
    BY StateFields DEF Listing
<1> DEFINE x == [s.buffer[b] EXCEPT !.isModified = m]
           f == [s.buffer EXCEPT ![b] = [@ EXCEPT !.isModified = m]]
           t == Marked(s, b, m)
<1>2. /\ x \in YBuffer /\ x.state = s.buffer[b].state /\ x.views = s.buffer[b].views
      /\ x.isModified = m /\ x.path = s.buffer[b].path /\ x.isFileNew = s.buffer[b].isFileNew
    BY <1>1 DEF YBuffer
<1>3. f[b] = x /\ \A c \in Buffer : c # b => f[c] = s.buffer[c]
    BY <1>1
<1>4. t = [s EXCEPT !.buffer = f]
    BY <1>1 DEF Marked
<1>5. f \in [Buffer -> YBuffer]
    BY <1>1, <1>2, <1>3
<1> HIDE DEF x, f, t
<1>6. /\ SameLists(t, s) /\ t.buffer = f /\ t.view = s.view /\ t.lost = s.lost
      /\ t.running = s.running /\ t.mStartPosition = s.mStartPosition
    BY <1>2, <1>3, <1>4, <1>5, ChangeBuffer
<1> QED BY <1>2, <1>3, <1>6 DEF t

(* What saves the position of a view, or moves its cursor.                 *)
LEMMA SaveYzisInfoKeeps ==
    ASSUME NEW s, Listing(s), NEW v \in ToSet(s.mViewList)
    PROVE  SameLists(SaveYzisInfo(s, v), s) /\ SaveYzisInfo(s, v).buffer = s.buffer
           /\ SaveYzisInfo(s, v).lost = s.lost /\ SaveYzisInfo(s, v).view = s.view
<1>1. /\ s \in SessionState /\ v \in View /\ s.view \in [View -> YView]
      /\ s.mStartPosition \in [File -> Line]
    BY StateFields DEF Listing
<1>2. s.view[v].line \in Line
    BY <1>1 DEF YView
<1>3. ASSUME NEW name \in File
      PROVE  LET t == [s EXCEPT !.mStartPosition[name] = s.view[v].line]
             IN  SameLists(t, s) /\ t.buffer = s.buffer /\ t.lost = s.lost /\ t.view = s.view
    <2> DEFINE f == [s.mStartPosition EXCEPT ![name] = s.view[v].line]
               t == [s EXCEPT !.mStartPosition = f]
    <2>1. f \in [File -> Line]
        BY <1>1, <1>2
    <2> HIDE DEF f
    <2>2. /\ t \in SessionState /\ t.mBufferList = s.mBufferList /\ t.mViewList = s.mViewList
          /\ t.mCurView = s.mCurView /\ t.mCurBuffer = s.mCurBuffer /\ t.view = s.view
          /\ t.buffer = s.buffer /\ t.lost = s.lost
        BY <1>1, <2>1 DEF SessionState
    <2> HIDE DEF t
    <2>3. SameLists(t, s)
        BY <2>2 DEF SameLists
    <2> QED BY <2>2, <2>3 DEF t, f
<1>4. SameLists(s, s)
    BY <1>1, SameListsSteps
<1> QED BY <1>3, <1>4 DEF SaveYzisInfo

(* Going to the start line moves a cursor, and nothing else.               *)
LEMMA ApplyStartPositionKeeps ==
    ASSUME NEW s, Listing(s), NEW v \in ToSet(s.mViewList), NEW line \in Line
    PROVE  SameLists(ApplyStartPosition(s, v, line), s)
           /\ ApplyStartPosition(s, v, line).buffer = s.buffer
           /\ ApplyStartPosition(s, v, line).lost = s.lost
<1>1. s \in SessionState /\ v \in View /\ s.view \in [View -> YView]
    BY StateFields DEF Listing
<1> DEFINE x == [s.view[v] EXCEPT !.line = line]
           t == [s EXCEPT !.view = [s.view EXCEPT ![v] = x]]
<1>2. x \in YView /\ x.buffer = s.view[v].buffer
    BY <1>1 DEF YView
<1>3. ApplyStartPosition(s, v, line) = t
    BY DEF ApplyStartPosition
<1> HIDE DEF x
<1>4. /\ t \in SessionState /\ t.mBufferList = s.mBufferList /\ t.mViewList = s.mViewList
      /\ t.mCurView = s.mCurView /\ t.mCurBuffer = s.mCurBuffer /\ t.buffer = s.buffer
      /\ t.view = [s.view EXCEPT ![v] = x] /\ t.lost = s.lost
    BY <1>1, <1>2 DEF SessionState
<1> HIDE DEF t
<1>5. SameLists(t, s)
    BY <1>1, <1>2, <1>4 DEF SameLists
<1> QED BY <1>3, <1>4, <1>5

(* guiQuit() closes neither buffer nor view.                               *)
LEMMA GuiQuitKeeps ==
    ASSUME NEW s, Listing(s)
    PROVE  SameLists(GuiQuit(s), s)
<1>1. s \in SessionState
    BY DEF Listing
<1> DEFINE l == s.lost \/ IsOneBufferModified(s)
           t == [s EXCEPT !.running = FALSE, !.lost = l]
<1>2. l \in BOOLEAN
    BY <1>1, StateFields DEF IsOneBufferModified
<1>3. GuiQuit(s) = t
    BY DEF GuiQuit
<1> HIDE DEF l
<1>4. /\ t \in SessionState /\ t.mBufferList = s.mBufferList /\ t.mViewList = s.mViewList
      /\ t.mCurView = s.mCurView /\ t.mCurBuffer = s.mCurBuffer /\ t.buffer = s.buffer
      /\ t.view = s.view
    BY <1>1, <1>2 DEF SessionState
<1> QED BY <1>3, <1>4 DEF SameLists
-----------------------------------------------------------------------------
(* Folds. A set of numbers up to n has a greatest one.                     *)
LEMMA LargestIndex ==
    ASSUME NEW n \in Nat, NEW I \in SUBSET (1..n), I # {}
    PROVE  Max(I) \in I /\ \A i \in I : i <= Max(I)
<1> DEFINE U == {m \in Nat : \A i \in I : i <= m}
<1>1. PICK m \in U : \A k \in U : m <= k
    <2>1. n \in U
        OBVIOUS
    <2> QED BY <2>1, LeastNumber
<1>2. m \in I
    <2> SUFFICES ASSUME m \notin I PROVE FALSE
        OBVIOUS
    <2>1. \A i \in I : i <= m - 1 /\ i >= 1
        BY <1>1
    <2>2. m - 1 \in Nat
        <3>1. PICK i \in I : TRUE
            OBVIOUS
        <3>2. i <= m - 1 /\ i >= 1 /\ i \in Nat /\ m \in Nat
            BY <2>1, <3>1
        <3> QED BY <3>2
    <2> QED BY <1>1, <2>1, <2>2
<1>3. m \in I /\ \A i \in I : m >= i
    BY <1>1, <1>2
<1> QED BY <1>1, <1>3 DEF Max

(* The function a fold is defined by, for steps that are functions.        *)
Folds(h, n, base, step) ==
    \A I \in SUBSET (1..n) : h[I] = IF I = {} THEN base ELSE step[Max(I)][h[I \ {Max(I)}]]

(* It exists, if every step is one on V.                                   *)
LEMMA FoldExists ==
    ASSUME NEW n \in Nat, NEW V, NEW base \in V, NEW step \in [1..n -> [V -> V]]
    PROVE  \E h \in [SUBSET (1..n) -> V] : Folds(h, n, base, step)
<1> DEFINE Holds(h, k) == \A I \in SUBSET (1..k) :
                             h[I] = IF I = {} THEN base ELSE step[Max(I)][h[I \ {Max(I)}]]
           P(k) == \E h \in [SUBSET (1..k) -> V] : Holds(h, k)
           S == {k \in Nat : k <= n => P(k)}
<1>1. P(0)
    <2> DEFINE h == [I \in SUBSET (1..0) |-> base]
    <2>1. h \in [SUBSET (1..0) -> V] /\ \A I \in SUBSET (1..0) : I = {} /\ h[I] = base
        OBVIOUS
    <2> HIDE DEF h
    <2>2. Holds(h, 0)
        BY <2>1
    <2> QED BY <2>1, <2>2
<1>2. ASSUME NEW k \in Nat, k + 1 <= n, P(k) PROVE P(k + 1)
    <2>1. PICK g \in [SUBSET (1..k) -> V] : Holds(g, k)
        BY <1>2
    <2> DEFINE h == [I \in SUBSET (1..k + 1) |->
                       IF k + 1 \in I THEN step[k + 1][g[I \ {k + 1}]] ELSE g[I]]
    <2>2. ASSUME NEW I \in SUBSET (1..k + 1)
          PROVE  /\ k + 1 \in I => I \ {k + 1} \in SUBSET (1..k)
                 /\ k + 1 \notin I => I \in SUBSET (1..k)
        OBVIOUS
    <2>3. k + 1 \in 1..n
        BY <1>2
    <2>4. h \in [SUBSET (1..k + 1) -> V]
        <3> SUFFICES ASSUME NEW I \in SUBSET (1..k + 1)
                     PROVE  (IF k + 1 \in I THEN step[k + 1][g[I \ {k + 1}]] ELSE g[I]) \in V
            OBVIOUS
        <3>1. CASE k + 1 \in I
            <4>1. g[I \ {k + 1}] \in V
                BY <2>2, <3>1
            <4> QED BY <2>3, <3>1, <4>1
        <3>2. CASE k + 1 \notin I
            BY <2>2, <3>2
        <3> QED BY <3>1, <3>2
    <2>5. \A I \in SUBSET (1..k) : h[I] = g[I]
        <3> TAKE I \in SUBSET (1..k)
        <3>1. I \in SUBSET (1..k + 1) /\ k + 1 \notin I
            OBVIOUS
        <3> QED BY <3>1
    <2>6. \A I \in SUBSET (1..k + 1) : k + 1 \in I => h[I] = step[k + 1][g[I \ {k + 1}]]
        OBVIOUS
    <2> HIDE DEF h
    <2>7. Holds(h, k + 1)
        <3> TAKE I \in SUBSET (1..k + 1)
        <3>1. CASE k + 1 \in I
            <4>1. Max(I) \in I /\ \A i \in I : i <= Max(I)
                <5>1. k + 1 \in Nat
                    OBVIOUS
                <5> QED BY <3>1, <5>1, LargestIndex
            <4>2. Max(I) = k + 1
                <5>1. Max(I) \in 1..k + 1 /\ k + 1 <= Max(I)
                    BY <3>1, <4>1
                <5> QED BY <5>1
            <4>3. h[I] = step[k + 1][g[I \ {k + 1}]] /\ h[I \ {k + 1}] = g[I \ {k + 1}]
                BY <2>2, <2>5, <2>6, <3>1
            <4> QED BY <3>1, <4>2, <4>3
        <3>2. CASE k + 1 \notin I
            <4>1. I \in SUBSET (1..k) /\ I \ {Max(I)} \in SUBSET (1..k)
                BY <2>2, <3>2
            <4>2. h[I] = g[I] /\ h[I \ {Max(I)}] = g[I \ {Max(I)}]
                BY <2>5, <4>1
            <4> QED BY <2>1, <4>1, <4>2
        <3> QED BY <3>1, <3>2
    <2> QED BY <2>4, <2>7
<1> HIDE DEF P
<1>3. 0 \in S /\ \A k \in Nat : k \in S => k + 1 \in S
    BY <1>1, <1>2
<1> HIDE DEF S
<1>4. Nat \subseteq S
    BY <1>3, SetInduction
<1>5. P(n)
    BY <1>4 DEF S
<1> QED BY <1>5 DEF P, Folds

(* The last of the first numbers.                                          *)
LEMMA FirstNumbers ==
    ASSUME NEW k \in Nat
    PROVE  /\ 1..0 = {}
           /\ 1..k + 1 # {} /\ Max(1..k + 1) = k + 1 /\ (1..k + 1) \ {k + 1} = 1..k
<1>1. k + 1 \in Nat /\ 1..k + 1 \in SUBSET (1..k + 1) /\ k + 1 \in 1..k + 1
    OBVIOUS
<1>2. Max(1..k + 1) \in 1..k + 1 /\ \A i \in 1..k + 1 : i <= Max(1..k + 1)
    BY <1>1, LargestIndex
<1>3. Max(1..k + 1) = k + 1
    BY <1>1, <1>2
<1>4. (1..k + 1) \ {k + 1} = 1..k /\ 1..0 = {} /\ 1..k + 1 # {}
    BY <1>1
<1> QED BY <1>3, <1>4

-----------------------------------------------------------------------------
(* Saving and leaving. The first view of a buffer is its only one.         *)
LEMMA FirstViewIsListed ==
    ASSUME NEW s, Listing(s), NEW b \in ToSet(s.mBufferList)
    PROVE  FirstView(s, b) \in ToSet(s.mViewList) /\ s.view[FirstView(s, b)].buffer = b
           /\ s.buffer[b].views = <<FirstView(s, b)>>
<1>1. PICK v \in ToSet(s.mViewList) : s.buffer[b].views = <<v>> /\ s.view[v].buffer = b
    BY DEF Listing, Matched
<1>2. FirstView(s, b) = v
    BY <1>1 DEF FirstView
<1> QED BY <1>1, <1>2

(* What exitRequest() makes of a state before it quits.                    *)
Kept(t, s) == SameLists(t, s) /\ t.buffer = s.buffer /\ t.lost = s.lost /\ t.view = s.view

(* A round of the loop of exitRequest() only notes a position.             *)
LEMMA SaveViewKeeps ==
    ASSUME NEW s, Listing(s), NEW b \in ToSet(s.mBufferList), NEW t, Kept(t, s)
    PROVE  Kept(SaveYzisInfo(t, FirstView(t, b)), s)
<1>1. Listing(t)
    BY SameListsKeeps DEF Kept
<1>2. b \in ToSet(t.mBufferList)
    BY DEF Kept, SameLists
<1> DEFINE u == SaveYzisInfo(t, FirstView(t, b))
<1>3. SameLists(u, t) /\ u.buffer = t.buffer /\ u.lost = t.lost /\ u.view = t.view
    BY <1>1, <1>2, FirstViewIsListed, SaveYzisInfoKeeps
<1> HIDE DEF u
<1>4. SameLists(u, s)
    BY <1>3, SameListsSteps DEF Kept
<1> QED BY <1>3, <1>4 DEF Kept, u

(* The rounds of exitRequest(): one for each buffer, in the order of the list.*)
LEMMA ExitSteps ==
    ASSUME NEW s, Listing(s)
    PROVE  LET n == Len(s.mBufferList) IN
           \E g \in [0..n -> SessionState] :
             /\ g[0] = s
             /\ \A i \in 0..n : Kept(g[i], s)
             /\ \A i \in 1..n : g[i] = SaveYzisInfo(g[i - 1], FirstView(g[i - 1], s.mBufferList[i]))
             /\ ExitRequest(s) = GuiQuit(g[n])
<1> DEFINE list == s.mBufferList
           n == Len(list)
           V == {t \in SessionState : Kept(t, s)}
           step == [i \in 1..n |-> [t \in V |-> SaveYzisInfo(t, FirstView(t, list[i]))]]
<1>1. s \in SessionState /\ list \in Seq(Buffer)
    BY StateFields DEF Listing
<1>2. n \in Nat /\ DOMAIN list = 1..n
    BY <1>1, LenProperties
<1>3. \A i \in 1..n : list[i] \in ToSet(list)
    BY <1>2 DEF ToSet
<1>4. s \in V
    BY <1>1, SameListsSteps DEF Kept
<1>5. ASSUME NEW i \in 1..n, NEW t \in V
      PROVE  SaveYzisInfo(t, FirstView(t, list[i])) \in V
    <2>1. Kept(SaveYzisInfo(t, FirstView(t, list[i])), s)
        BY <1>3, SaveViewKeeps
    <2> QED BY <2>1 DEF Kept, SameLists
<1>6. step \in [1..n -> [V -> V]]
    BY <1>5
<1>7. \A i \in 1..n : \A t \in V : step[i][t] = SaveYzisInfo(t, FirstView(t, list[i]))
    OBVIOUS
<1> HIDE DEF step
<1>8. PICK h \in [SUBSET (1..n) -> V] : Folds(h, n, s, step)
    <2> HIDE DEF V, n
    <2> QED BY <1>2, <1>4, <1>6, FoldExists
<1> DEFINE Fold(f) == f = [I \in SUBSET (1..n) |->
                             IF I = {} THEN s
                             ELSE SaveYzisInfo(f[I \ {Max(I)}],
                                               FirstView(f[I \ {Max(I)}], list[Max(I)]))]
           iter == CHOOSE f : Fold(f)
<1>9. Fold(h)
    <2>1. ASSUME NEW I \in SUBSET (1..n), I # {}
          PROVE  h[I] = SaveYzisInfo(h[I \ {Max(I)}], FirstView(h[I \ {Max(I)}], list[Max(I)]))
        <3>1. Max(I) \in 1..n
            BY <1>2, <2>1, LargestIndex
        <3>2. I \ {Max(I)} \in SUBSET (1..n)
            OBVIOUS
        <3> HIDE DEF V, n
        <3> QED BY <1>7, <1>8, <2>1, <3>1, <3>2 DEF Folds
    <2> HIDE DEF V, n
    <2> QED BY <1>8, <2>1 DEF Folds
<1>10. Fold(iter)
    BY <1>9
<1>11. FoldLeft(LAMBDA t, b : SaveYzisInfo(t, FirstView(t, b)), s, list) = iter[1..n]
    BY <1>2 DEF FoldLeft, MapThenFoldSet
<1> HIDE DEF iter
<1> DEFINE S == {k \in Nat : k <= n => iter[1..k] \in V}
           g == [k \in 0..n |-> iter[1..k]]
<1>12. iter[1..0] = s
    <2>1. 1..0 = {} /\ 1..0 \in SUBSET (1..n)
        OBVIOUS
    <2> HIDE DEF V, n
    <2> QED BY <1>10, <2>1
<1>13. ASSUME NEW k \in Nat, k + 1 <= n
       PROVE  iter[1..k + 1] = SaveYzisInfo(iter[1..k], FirstView(iter[1..k], list[k + 1]))
    <2>1. 1..k + 1 \in SUBSET (1..n)
        BY <1>2, <1>13
    <2> HIDE DEF V, n
    <2>2. 1..k + 1 # {} /\ Max(1..k + 1) = k + 1 /\ (1..k + 1) \ {k + 1} = 1..k
        BY FirstNumbers
    <2>3. iter[1..k + 1] = IF 1..k + 1 = {} THEN s
                           ELSE SaveYzisInfo(iter[(1..k + 1) \ {Max(1..k + 1)}],
                                             FirstView(iter[(1..k + 1) \ {Max(1..k + 1)}], list[Max(1..k + 1)]))
        BY <1>10, <2>1
    <2> QED BY ONLY <2>2, <2>3
<1>14. Nat \subseteq S
    <2>1. 0 \in S
        BY <1>4, <1>12
    <2>2. ASSUME NEW k \in Nat, k \in S PROVE k + 1 \in S
        <3> SUFFICES ASSUME k + 1 <= n PROVE iter[1..k + 1] \in V
            OBVIOUS
        <3>1. iter[1..k] \in V /\ k + 1 \in 1..n
            BY <1>2, <2>2
        <3> QED BY <1>5, <1>13, <3>1
    <2> HIDE DEF S
    <2> QED BY <2>1, <2>2, SetInduction
<1>15. g \in [0..n -> SessionState] /\ g[0] = s /\ \A i \in 0..n : Kept(g[i], s)
    BY <1>2, <1>12, <1>14
<1>16. ASSUME NEW i \in 1..n
       PROVE  g[i] = SaveYzisInfo(g[i - 1], FirstView(g[i - 1], list[i]))
    <2>1. i - 1 \in Nat /\ (i - 1) + 1 = i /\ i - 1 \in 0..n /\ i \in 0..n /\ i <= n
        BY <1>2
    <2>2. iter[1..(i - 1) + 1] = SaveYzisInfo(iter[1..(i - 1)], FirstView(iter[1..(i - 1)], list[(i - 1) + 1]))
        BY <1>13, <2>1
    <2> QED BY <2>1, <2>2
<1>17. ExitRequest(s) = GuiQuit(g[n])
    <2>1. ExitRequest(s) = GuiQuit(FoldLeft(LAMBDA t, b : SaveYzisInfo(t, FirstView(t, b)), s, list))
        BY DEF ExitRequest
    <2>2. g[n] = iter[1..n]
        BY <1>2
    <2> QED BY ONLY <1>11, <2>1, <2>2
<1> HIDE DEF g
<1> QED BY <1>15, <1>16, <1>17

-----------------------------------------------------------------------------
(* What saving a buffer changes besides it: a saved position.              *)
Touched(t, s, b) ==
    /\ SameLists(t, s) /\ t.view = s.view /\ t.lost = s.lost
    /\ \A c \in Buffer : c # b => t.buffer[c] = s.buffer[c]

(* Two changes of one buffer after one another are one.                    *)
LEMMA TouchedSteps ==
    ASSUME NEW s, NEW t, NEW u, NEW b, Touched(t, s, b), Touched(u, t, b)
    PROVE  Touched(u, s, b)
BY SameListsSteps DEF Touched

(* A buffer that save() says it saved is not modified; one that was never  *)
(* named gets a name only if one is chosen.                                *)
LEMMA SaveResultProperties ==
    ASSUME NEW s, Listing(s), NEW b \in ToSet(s.mBufferList),
           NEW chosen \in File \union {NoName}, NEW opens \in BOOLEAN
    PROVE  LET r == SaveResult(s, b, chosen, opens) IN
           /\ Touched(r.s, s, b)
           /\ r.ok => ~r.s.buffer[b].isModified
           /\ r.s.buffer[b].isModified => s.buffer[b].isModified
           /\ ~s.buffer[b].isFileNew \/ chosen = NoName =>
                 /\ r.s.buffer[b].path = s.buffer[b].path
                 /\ r.s.buffer[b].isFileNew = s.buffer[b].isFileNew
           /\ r.ok \in BOOLEAN
<1> DEFINE r == SaveResult(s, b, chosen, opens)
           named == IF s.buffer[b].isFileNew /\ chosen # NoName THEN SetPath(s, b, chosen) ELSE s
           marked == Marked(named, b, FALSE)
           saved == SaveYzisInfo(marked, FirstView(named, b))
<1>1. /\ s \in SessionState /\ b \in Buffer /\ s.buffer \in [Buffer -> YBuffer]
      /\ ToSet(s.mBufferList) \subseteq Buffer
    BY StateFields DEF Listing
<1>2. s.buffer[b] \in YBuffer
    BY <1>1
<1>3. /\ Touched(named, s, b) /\ named.buffer \in [Buffer -> YBuffer]
      /\ named.buffer[b].isModified = s.buffer[b].isModified
      /\ ~s.buffer[b].isFileNew \/ chosen = NoName => named = s
    <2>1. CASE s.buffer[b].isFileNew /\ chosen # NoName
        <3>1. chosen \in Name
            BY DEF Name
        <3> DEFINE set == SetPath(s, b, chosen)
        <3>2. /\ SameLists(set, s) /\ set.view = s.view /\ set.lost = s.lost
              /\ set.buffer[b].isModified = s.buffer[b].isModified
              /\ \A c \in Buffer : c # b => set.buffer[c] = s.buffer[c]
            BY <3>1, SetPathKeeps
        <3> HIDE DEF set
        <3>3. set = named
            BY <2>1 DEF set
        <3> HIDE DEF named
        <3>4. set.buffer \in [Buffer -> YBuffer]
            BY <3>2, StateFields DEF SameLists
        <3> QED BY <2>1, <3>2, <3>3, <3>4 DEF Touched
    <2>2. CASE ~(s.buffer[b].isFileNew /\ chosen # NoName)
        <3>1. named = s
            BY <2>2
        <3> HIDE DEF named
        <3> QED BY <1>1, <3>1, SameListsSteps DEF Touched
    <2> QED BY <2>1, <2>2
<1> HIDE DEF named
<1>4. Listing(named) /\ b \in ToSet(named.mBufferList)
    BY <1>3, SameListsKeeps DEF Touched, SameLists
<1>5. /\ Touched(marked, named, b) /\ marked.buffer[b].isModified = FALSE
      /\ marked.buffer[b].path = named.buffer[b].path
      /\ marked.buffer[b].isFileNew = named.buffer[b].isFileNew
    <2>2. ASSUME NEW m \in BOOLEAN
          PROVE  LET u == Marked(named, b, m) IN
                 /\ SameLists(u, named) /\ u.view = named.view /\ u.lost = named.lost
                 /\ u.buffer[b].isModified = m
                 /\ u.buffer[b].path = named.buffer[b].path
                 /\ u.buffer[b].isFileNew = named.buffer[b].isFileNew
                 /\ \A c \in Buffer : c # b => u.buffer[c] = named.buffer[c]
        BY <1>4, MarkKeeps
    <2>1. /\ SameLists(marked, named) /\ marked.view = named.view /\ marked.lost = named.lost
          /\ marked.buffer[b].isModified = FALSE
          /\ marked.buffer[b].path = named.buffer[b].path
          /\ marked.buffer[b].isFileNew = named.buffer[b].isFileNew
          /\ \A c \in Buffer : c # b => marked.buffer[c] = named.buffer[c]
        BY <2>2
    <2> HIDE DEF marked
    <2> QED BY <2>1 DEF Touched
<1> HIDE DEF marked
<1>6. Listing(marked) /\ marked.mViewList = named.mViewList
    BY <1>4, <1>5, SameListsKeeps DEF Touched, SameLists
<1>7. FirstView(named, b) \in ToSet(marked.mViewList)
    BY <1>4, <1>6, FirstViewIsListed
<1>8. Touched(saved, marked, b) /\ saved.buffer = marked.buffer
    BY <1>6, <1>7, SaveYzisInfoKeeps DEF Touched
<1> HIDE DEF saved
<1>9. Touched(saved, s, b)
    BY <1>3, <1>5, <1>8, TouchedSteps
<1>10. Touched(s, s, b)
    BY <1>1, SameListsSteps DEF Touched
<1>11. r = IF s.buffer[b].path = NoName \/ (s.buffer[b].isFileNew /\ chosen = NoName)
           THEN [ok |-> FALSE, s |-> s]
           ELSE [ok |-> opens, s |-> IF opens THEN saved ELSE named]
    BY DEF SaveResult, saved, marked, named, Marked
<1> HIDE DEF r
<1>12. CASE s.buffer[b].path = NoName \/ (s.buffer[b].isFileNew /\ chosen = NoName)
    <2>1. r.ok = FALSE /\ r.s = s
        BY <1>11, <1>12
    <2> QED BY <1>10, <2>1 DEF r
<1>13. CASE ~(s.buffer[b].path = NoName \/ (s.buffer[b].isFileNew /\ chosen = NoName))
    <2>1. r.ok = opens /\ r.s = IF opens THEN saved ELSE named
        BY <1>11, <1>13
    <2>2. CASE opens
        <3>1. r.s = saved /\ ~r.s.buffer[b].isModified
            BY <1>5, <1>8, <2>1, <2>2
        <3> QED BY <1>3, <1>5, <1>8, <1>9, <2>1, <3>1 DEF r
    <2>3. CASE ~opens
        <3>1. r.s = named /\ ~r.ok
            BY <2>1, <2>3
        <3> QED BY <1>3, <2>1, <3>1 DEF r
    <2> QED BY <2>2, <2>3
<1> QED BY <1>12, <1>13

(* saveAll() saves what has a name, and only that.                         *)
SavedSome(t, s) ==
    /\ SameLists(t, s) /\ t.view = s.view /\ t.lost = s.lost
    /\ \A b \in Buffer : /\ t.buffer[b].path = s.buffer[b].path
                         /\ t.buffer[b].isFileNew = s.buffer[b].isFileNew
                         /\ t.buffer[b].isModified => s.buffer[b].isModified

SaveStep(t, b, failing) == IF b \in ToSave(t) THEN SaveOf(t, b, failing).s ELSE t

(* A round of saveAll() leaves every other buffer as it was, and its own   *)
(* unmodified when the file could be written.                              *)
LEMMA SaveStepKeeps ==
    ASSUME NEW s, Listing(s), NEW b \in ToSet(s.mBufferList), NEW failing, NEW t, SavedSome(t, s)
    PROVE  LET u == SaveStep(t, b, failing) IN
           /\ SavedSome(u, s)
           /\ \A c \in Buffer : c # b => u.buffer[c] = t.buffer[c]
           /\ SaveOf(s, b, failing).ok => (u.buffer[b].isModified => u.buffer[b].isFileNew)
<1> DEFINE opens == t.buffer[b].path \notin failing
           r == SaveResult(t, b, NoName, opens)
<1>1. Listing(t) /\ b \in ToSet(t.mBufferList) /\ b \in Buffer
    <2>1. ToSet(s.mBufferList) \subseteq Buffer
        BY StateFields DEF Listing
    <2> QED BY <2>1, SameListsKeeps DEF SavedSome, SameLists
<1>2. opens \in BOOLEAN /\ NoName \in File \union {NoName}
    OBVIOUS
<1>3. SaveOf(t, b, failing) = r
    BY DEF SaveOf
<1> HIDE DEF opens, r
<1>4. /\ Touched(r.s, t, b) /\ (r.ok => ~r.s.buffer[b].isModified)
      /\ r.s.buffer[b].isModified => t.buffer[b].isModified
      /\ r.s.buffer[b].path = t.buffer[b].path
      /\ r.s.buffer[b].isFileNew = t.buffer[b].isFileNew
    BY <1>1, <1>2, SaveResultProperties DEF r
<1>5. SavedSome(r.s, s)
    BY <1>4, SameListsSteps DEF SavedSome, Touched
<1>6. SaveOf(s, b, failing).ok /\ b \in ToSave(t) => r.ok
    <2>1. t.buffer[b].path = s.buffer[b].path /\ t.buffer[b].isFileNew = s.buffer[b].isFileNew
        BY <1>1 DEF SavedSome
    <2>2. SaveOf(s, b, failing).ok =
            IF s.buffer[b].path = NoName \/ s.buffer[b].isFileNew THEN FALSE ELSE s.buffer[b].path \notin failing
        BY DEF SaveOf, SaveResult
    <2>3. r.ok =
            IF t.buffer[b].path = NoName \/ t.buffer[b].isFileNew THEN FALSE ELSE t.buffer[b].path \notin failing
        BY DEF r, SaveResult, opens
    <2> QED BY <2>1, <2>2, <2>3
<1>7. CASE b \in ToSave(t)
    <2>1. SaveStep(t, b, failing) = r.s
        BY <1>3, <1>7 DEF SaveStep
    <2> QED BY <1>4, <1>5, <1>6, <1>7, <2>1 DEF Touched
<1>8. CASE b \notin ToSave(t)
    <2>1. SaveStep(t, b, failing) = t
        BY <1>8 DEF SaveStep
    <2>2. t.buffer[b].isModified => t.buffer[b].isFileNew
        BY <1>1, <1>8 DEF ToSave
    <2> QED BY <2>1, <2>2
<1> QED BY <1>7, <1>8
(* What saveAll() makes of a state, whatever cannot be written.            *)
LEMMA SaveAllKeeps ==
    ASSUME NEW s, Listing(s), NEW failing
    PROVE  LET u == SaveAll(s, failing) IN
           /\ SavedSome(u, s)
           /\ \A b \in ToSet(s.mBufferList) :
                SaveOf(s, b, failing).ok => (u.buffer[b].isModified => u.buffer[b].isFileNew)
<1> DEFINE list == s.mBufferList
           n == Len(list)
           V == {t \in SessionState : SavedSome(t, s)}
           step == [i \in 1..n |-> [t \in V |-> SaveStep(t, list[i], failing)]]
<1>1. s \in SessionState /\ list \in Seq(Buffer)
    BY StateFields DEF Listing
<1>2. n \in Nat /\ DOMAIN list = 1..n
    BY <1>1, LenProperties
<1>3. \A i \in 1..n : list[i] \in ToSet(list) /\ list[i] \in Buffer
    BY <1>1, <1>2, ElementOfSeq DEF ToSet
<1>4. s \in V
    BY <1>1, SameListsSteps DEF SavedSome
<1>5. ASSUME NEW i \in 1..n, NEW t \in V
      PROVE  SaveStep(t, list[i], failing) \in V
    <2>1. SavedSome(SaveStep(t, list[i], failing), s)
        BY <1>3, SaveStepKeeps
    <2> QED BY <2>1 DEF SavedSome, SameLists
<1>6. step \in [1..n -> [V -> V]]
    BY <1>5
<1>7. \A i \in 1..n : \A t \in V : step[i][t] = SaveStep(t, list[i], failing)
    OBVIOUS
<1> HIDE DEF step
<1>8. PICK h \in [SUBSET (1..n) -> V] : Folds(h, n, s, step)
    <2> HIDE DEF V, n
    <2> QED BY <1>2, <1>4, <1>6, FoldExists
<1> DEFINE Fold(f) == f = [I \in SUBSET (1..n) |->
                             IF I = {} THEN s
                             ELSE SaveStep(f[I \ {Max(I)}], list[Max(I)], failing)]
           iter == CHOOSE f : Fold(f)
<1>9. Fold(h)
    <2>1. ASSUME NEW I \in SUBSET (1..n), I # {}
          PROVE  h[I] = SaveStep(h[I \ {Max(I)}], list[Max(I)], failing)
        <3>1. Max(I) \in 1..n
            BY <1>2, <2>1, LargestIndex
        <3>2. I \ {Max(I)} \in SUBSET (1..n)
            OBVIOUS
        <3> HIDE DEF V, n
        <3> QED BY <1>7, <1>8, <2>1, <3>1, <3>2 DEF Folds
    <2> HIDE DEF V, n
    <2> QED BY <1>8, <2>1 DEF Folds
<1>10. Fold(iter)
    BY <1>9
<1>11. SaveAll(s, failing) = iter[1..n]
    BY <1>2 DEF SaveAll, SaveStep, FoldLeft, MapThenFoldSet
<1> HIDE DEF iter
<1> DEFINE Done(t, k) ==
               \A i \in 1..k : SaveOf(s, list[i], failing).ok =>
                  (t.buffer[list[i]].isModified => t.buffer[list[i]].isFileNew)
           S == {k \in Nat : k <= n => iter[1..k] \in V /\ Done(iter[1..k], k)}
<1>12. iter[1..0] = s
    <2>1. 1..0 = {} /\ 1..0 \in SUBSET (1..n)
        OBVIOUS
    <2> HIDE DEF V, n
    <2> QED BY <1>10, <2>1
<1>13. ASSUME NEW k \in Nat, k + 1 <= n
       PROVE  iter[1..k + 1] = SaveStep(iter[1..k], list[k + 1], failing)
    <2>1. 1..k + 1 \in SUBSET (1..n)
        BY <1>2, <1>13
    <2> HIDE DEF V, n
    <2>2. 1..k + 1 # {} /\ Max(1..k + 1) = k + 1 /\ (1..k + 1) \ {k + 1} = 1..k
        BY FirstNumbers
    <2>3. iter[1..k + 1] = IF 1..k + 1 = {} THEN s
                           ELSE SaveStep(iter[(1..k + 1) \ {Max(1..k + 1)}],
                                         list[Max(1..k + 1)], failing)
        BY <1>10, <2>1
    <2> QED BY ONLY <2>2, <2>3
<1>14. Nat \subseteq S
    <2>1. 0 \in S
        BY <1>4, <1>12
    <2>2. ASSUME NEW k \in Nat, k \in S PROVE k + 1 \in S
        <3> SUFFICES ASSUME k + 1 <= n
                     PROVE  iter[1..k + 1] \in V /\ Done(iter[1..k + 1], k + 1)
            OBVIOUS
        <3>1. iter[1..k] \in V /\ Done(iter[1..k], k) /\ k + 1 \in 1..n
            BY <1>2, <2>2
        <3> DEFINE t == iter[1..k]
                   u == iter[1..k + 1]
        <3>2. u = SaveStep(t, list[k + 1], failing)
            BY <1>13
        <3>3. t \in V /\ Done(t, k)
            BY <3>1
        <3> HIDE DEF t, u
        <3>4. /\ \A c \in Buffer : c # list[k + 1] => u.buffer[c] = t.buffer[c]
              /\ SaveOf(s, list[k + 1], failing).ok =>
                   (u.buffer[list[k + 1]].isModified => u.buffer[list[k + 1]].isFileNew)
            BY <1>3, <3>1, <3>2, <3>3, SaveStepKeeps
        <3>5. \A i \in 1..k : list[i] \in Buffer /\ list[i] # list[k + 1]
            BY <1>2, <1>3, <3>1 DEF Listing, IsInjective
        <3>6. Done(u, k + 1)
            <4> SUFFICES ASSUME NEW i \in 1..k + 1, SaveOf(s, list[i], failing).ok,
                                u.buffer[list[i]].isModified
                         PROVE  u.buffer[list[i]].isFileNew
                OBVIOUS
            <4>1. CASE i = k + 1
                BY <3>4, <4>1
            <4>2. CASE i # k + 1
                <5>1. i \in 1..k
                    BY <4>2
                <5> QED BY <3>3, <3>4, <3>5, <5>1
            <4> QED BY <4>1, <4>2
        <3>7. u \in V
            BY <1>5, <3>1, <3>2, <3>3
        <3> QED BY <3>6, <3>7 DEF u
    <2> HIDE DEF S
    <2> QED BY <2>1, <2>2, SetInduction
<1>15. iter[1..n] \in V /\ Done(iter[1..n], n)
    BY <1>2, <1>14
<1>16. \A b \in ToSet(list) : \E i \in 1..n : b = list[i]
    BY <1>2 DEF ToSet
<1> HIDE DEF n
<1> QED BY <1>11, <1>15, <1>16
-----------------------------------------------------------------------------
(* Opening. What the code allocates is not in the lists.                   *)
LEMMA FreshIsFree ==
    ASSUME NEW s, Listing(s), HasRoom(s)
    PROVE  /\ Fresh(s.buffer, FreedBuffer) \in Buffer \ ToSet(s.mBufferList)
           /\ Fresh(s.view, FreedView) \in View \ ToSet(s.mViewList)
<1>1. /\ s.buffer \in [Buffer -> YBuffer] /\ s.view \in [View -> YView]
      /\ ToSet(s.mBufferList) \subseteq Buffer
    BY StateFields DEF Listing
<1> DEFINE b == Fresh(s.buffer, FreedBuffer)
           v == Fresh(s.view, FreedView)
<1>2. b \in Buffer /\ s.buffer[b] = FreedBuffer
    <2>1. \E x \in DOMAIN s.buffer : s.buffer[x] = FreedBuffer
        BY <1>1 DEF HasRoom
    <2>2. b \in DOMAIN s.buffer /\ s.buffer[b] = FreedBuffer
        BY <2>1 DEF Fresh
    <2> QED BY <1>1, <2>2
<1>3. v \in View /\ s.view[v] = FreedView
    <2>1. \E x \in DOMAIN s.view : s.view[x] = FreedView
        BY <1>1 DEF HasRoom
    <2>2. v \in DOMAIN s.view /\ s.view[v] = FreedView
        BY <2>1 DEF Fresh
    <2> QED BY <1>1, <2>2
<1>4. b \notin ToSet(s.mBufferList)
    <2>1. FreedBuffer.state # "active"
        BY DEF FreedBuffer
    <2> QED BY <1>2, <2>1 DEF Listing, Matched
<1>5. v \notin ToSet(s.mViewList)
    <2>1. FreedView.buffer \notin Buffer
        BY SessionAssumption DEF FreedView
    <2> QED BY <1>1, <1>3, <2>1 DEF Listing, Matched
<1> QED BY <1>2, <1>3, <1>4, <1>5

(* A buffer and its view are added to the lists.                           *)
Created(name, temp) ==
    CASE name = NoName -> temp [] name \in Directory -> NoName [] OTHER -> name

(* createBuffer() and createView(): one new buffer with one new view of it,*)
(* both at the ends of their lists.                                        *)
LEMMA CreateKeeps ==
    ASSUME NEW s, Listing(s), HasRoom(s),
           NEW name \in File \union Directory \union {NoName}, NEW temp \in Name
    PROVE  LET b == Fresh(s.buffer, FreedBuffer)
               v == Fresh(s.view, FreedView)
               t == CreateBufferAndItsView(s, name, temp)
           IN  /\ Listing(t)
               /\ t.mBufferList = Append(s.mBufferList, b)
               /\ t.mViewList = Append(s.mViewList, v)
               /\ t.view[v].buffer = b
               /\ t.buffer[b].path = Created(name, temp) /\ ~t.buffer[b].isModified
               /\ \A c \in Buffer : c # b => t.buffer[c] = s.buffer[c]
               /\ \A w \in View : w # v => t.view[w] = s.view[w]
               /\ t.lost = s.lost /\ t.running = s.running
               /\ t.mStartPosition = s.mStartPosition
               /\ t.mCurView = s.mCurView /\ t.mCurBuffer = s.mCurBuffer
<1> DEFINE b == Fresh(s.buffer, FreedBuffer)
           v == Fresh(s.view, FreedView)
           t == CreateBufferAndItsView(s, name, temp)
           x == [ state |-> "active", path |-> Created(name, temp),
                  isFileNew |-> name \in Directory \union {NoName},
                  isModified |-> FALSE, views |-> <<v>> ]
           y == [buffer |-> b, line |-> 0]
<1>1. s \in SessionState
    BY DEF Listing
<1>2. /\ s.mBufferList \in Seq(Buffer) /\ ToSet(s.mBufferList) \subseteq Buffer
      /\ s.mViewList \in Seq(View) /\ ToSet(s.mViewList) \subseteq View
      /\ s.buffer \in [Buffer -> YBuffer] /\ s.view \in [View -> YView]
    BY <1>1, StateFields
<1>3. b \in Buffer /\ b \notin ToSet(s.mBufferList) /\ v \in View /\ v \notin ToSet(s.mViewList)
    BY FreshIsFree
<1>4. t = [s EXCEPT !.mBufferList = Append(@, b), !.mViewList = Append(@, v),
                    !.buffer[b] = x, !.view[v] = y]
    BY DEF CreateBufferAndItsView, Created
<1> HIDE DEF b, v, t
<1>5. x \in YBuffer /\ x.state = "active" /\ x.views = <<v>> /\ x.path = Created(name, temp)
      /\ ~x.isModified
    <2>1. Created(name, temp) \in Name
        BY DEF Created, Name
    <2>2. <<v>> \in Seq(View)
        BY <1>3
    <2>3. (name \in Directory \union {NoName}) \in BOOLEAN
        OBVIOUS
    <2> QED BY <2>1, <2>2, <2>3 DEF YBuffer
<1>6. y \in YView /\ y.buffer = b
    <2>1. 0 \in Line
        BY SessionAssumption DEF Line
    <2> QED BY <1>3, <2>1 DEF YView
<1> HIDE DEF x, y
<1> DEFINE bl == Append(s.mBufferList, b)
           vl == Append(s.mViewList, v)
           bf == [s.buffer EXCEPT ![b] = x]
           vf == [s.view EXCEPT ![v] = y]
<1>7. /\ bl \in Seq(Buffer) /\ IsInjective(bl) /\ ToSet(bl) = ToSet(s.mBufferList) \union {b}
      /\ vl \in Seq(View) /\ IsInjective(vl) /\ ToSet(vl) = ToSet(s.mViewList) \union {v}
    <2>1. IsInjective(s.mBufferList) /\ IsInjective(s.mViewList)
        BY DEF Listing
    <2> QED BY <1>2, <1>3, <2>1, AppendToList
<1>8. /\ bf \in [Buffer -> YBuffer] /\ bf[b] = x /\ \A c \in Buffer : c # b => bf[c] = s.buffer[c]
      /\ vf \in [View -> YView] /\ vf[v] = y /\ \A w \in View : w # v => vf[w] = s.view[w]
    BY <1>2, <1>3, <1>5, <1>6
<1>9. t = [s EXCEPT !.mBufferList = bl, !.mViewList = vl, !.buffer = bf, !.view = vf]
    BY <1>4
<1> HIDE DEF bl, vl, bf, vf
<1>10. /\ t \in SessionState /\ t.mBufferList = bl /\ t.mViewList = vl
       /\ t.buffer = bf /\ t.view = vf /\ t.lost = s.lost /\ t.running = s.running
       /\ t.mStartPosition = s.mStartPosition
       /\ t.mCurView = s.mCurView /\ t.mCurBuffer = s.mCurBuffer
    BY <1>1, <1>7, <1>8, <1>9 DEF SessionState
<1>11. Matched(t)
    <2>1. ASSUME NEW c \in ToSet(t.mBufferList)
          PROVE  /\ t.buffer[c].state = "active"
                 /\ \E w \in ToSet(t.mViewList) : t.buffer[c].views = <<w>> /\ t.view[w].buffer = c
        <3>1. CASE c = b
            BY <1>5, <1>6, <1>7, <1>8, <1>10, <3>1
        <3>2. CASE c # b
            <4>1. c \in ToSet(s.mBufferList)
                BY <1>7, <1>10, <3>2
            <4>2. PICK w \in ToSet(s.mViewList) : s.buffer[c].views = <<w>> /\ s.view[w].buffer = c
                BY <4>1 DEF Listing, Matched
            <4>3. w # v /\ w \in View /\ w \in ToSet(t.mViewList) /\ c \in Buffer
                BY <1>2, <1>3, <1>7, <1>10, <4>1, <4>2
            <4> QED BY <1>8, <1>10, <3>2, <4>1, <4>2, <4>3 DEF Listing, Matched
        <3> QED BY <3>1, <3>2
    <2>2. ASSUME NEW w \in ToSet(t.mViewList)
          PROVE  /\ t.view[w].buffer \in ToSet(t.mBufferList)
                 /\ t.buffer[t.view[w].buffer].views = <<w>>
        <3>1. CASE w = v
            BY <1>5, <1>6, <1>7, <1>8, <1>10, <3>1
        <3>2. CASE w # v
            <4>1. w \in ToSet(s.mViewList) /\ w \in View
                BY <1>2, <1>7, <1>10, <3>2
            <4>2. /\ s.view[w].buffer \in ToSet(s.mBufferList)
                  /\ s.buffer[s.view[w].buffer].views = <<w>>
                BY <4>1 DEF Listing, Matched
            <4>3. s.view[w].buffer # b /\ s.view[w].buffer \in Buffer
                BY <1>2, <1>3, <4>2
            <4> QED BY <1>7, <1>8, <1>10, <3>2, <4>1, <4>2, <4>3
        <3> QED BY <3>1, <3>2
    <2>3. /\ \A c \in Buffer \ ToSet(t.mBufferList) : t.buffer[c] = FreedBuffer
          /\ \A w \in View \ ToSet(t.mViewList) : t.view[w] = FreedView
        BY <1>7, <1>8, <1>10 DEF Listing, Matched
    <2> QED BY <2>1, <2>2, <2>3 DEF Matched
<1>12. Listing(t)
    BY <1>7, <1>10, <1>11 DEF Listing
<1> QED BY <1>5, <1>6, <1>8, <1>10, <1>12 DEF b, v, t, bl, vl
-----------------------------------------------------------------------------
(* Finding. findBuffer() finds a listed buffer of that name, if any.       *)
LEMMA BufferFound ==
    ASSUME NEW s, Listing(s), NEW name
    PROVE  LET b == FindBuffer(s, name) IN
           \/ b \in ToSet(s.mBufferList) /\ b \in Buffer /\ s.buffer[b].path = name
           \/ b = NoBuffer /\ \A c \in ToSet(s.mBufferList) : s.buffer[c].path # name
<1> DEFINE list == s.mBufferList
           I == {i \in 1..Len(list) : s.buffer[list[i]].path = name}
<1>1. list \in Seq(Buffer) /\ ToSet(list) = {list[i] : i \in 1..Len(list)} /\ ToSet(list) \subseteq Buffer
    BY StateFields, InList DEF Listing
<1>2. Len(list) \in Nat
    BY <1>1, LenProperties
<1>3. FindBuffer(s, name) = LET i == IF I # {} THEN Min(I) ELSE 0
                            IN  IF i = 0 THEN NoBuffer ELSE list[i]
    BY DEF FindBuffer, SelectInSeq
<1>4. CASE I = {}
    <2>1. FindBuffer(s, name) = NoBuffer
        BY <1>3, <1>4
    <2> QED BY <1>1, <1>4, <2>1
<1>5. CASE I # {}
    <2>1. I \in SUBSET Nat
        OBVIOUS
    <2>2. Min(I) \in I
        BY <1>5, <2>1, SmallestIndex
    <2> DEFINE k == Min(I)
    <2>3. k \in 1..Len(list) /\ s.buffer[list[k]].path = name
        BY <2>2
    <2>4. FindBuffer(s, name) = IF k = 0 THEN NoBuffer ELSE list[k]
        BY <1>3, <1>5
    <2> HIDE DEF k
    <2>5. FindBuffer(s, name) = list[k]
        BY <2>3, <2>4
    <2> QED BY <1>1, <2>3, <2>5
<1> QED BY <1>4, <1>5

(* A listed buffer has a view.                                             *)
LEMMA ViewFound ==
    ASSUME NEW s, Listing(s), NEW b \in ToSet(s.mBufferList)
    PROVE  LET v == FindViewByBuffer(s, b) IN
           v \in ToSet(s.mViewList) /\ v \in View /\ s.view[v].buffer = b
<1> DEFINE list == s.mViewList
           I == {i \in 1..Len(list) : s.view[list[i]].buffer = b}
<1>1. list \in Seq(View) /\ ToSet(list) = {list[i] : i \in 1..Len(list)} /\ ToSet(list) \subseteq View
    BY StateFields, InList DEF Listing
<1>2. Len(list) \in Nat
    BY <1>1, LenProperties
<1>3. FindViewByBuffer(s, b) = LET i == IF I # {} THEN Min(I) ELSE 0
                               IN  IF i = 0 THEN NoView ELSE list[i]
    BY DEF FindViewByBuffer, SelectInSeq
<1>4. I # {}
    <2>1. PICK v \in ToSet(list) : s.view[v].buffer = b
        BY DEF Listing, Matched
    <2> QED BY <1>1, <2>1
<1>5. Min(I) \in I
    <2>1. I \in SUBSET Nat
        OBVIOUS
    <2> QED BY <1>4, <2>1, SmallestIndex
<1> DEFINE k == Min(I)
<1>6. k \in 1..Len(list) /\ s.view[list[k]].buffer = b
    BY <1>5
<1>7. FindViewByBuffer(s, b) = IF k = 0 THEN NoView ELSE list[k]
    BY <1>3, <1>4
<1> HIDE DEF k
<1>8. FindViewByBuffer(s, b) = list[k]
    BY <1>6, <1>7
<1> QED BY <1>1, <1>6, <1>8

(* setCurrentView() of a listed view leaves the lists as they are.         *)
SameButCurrent(t, s) ==
    /\ t.mBufferList = s.mBufferList /\ t.mViewList = s.mViewList
    /\ t.buffer = s.buffer /\ t.view = s.view /\ t.lost = s.lost
    /\ t.running = s.running /\ t.mStartPosition = s.mStartPosition

(* setCurrentView() of a listed view makes its buffer the current one.     *)
LEMMA SetCurrentKeeps ==
    ASSUME NEW s, Listing(s), NEW v \in ToSet(s.mViewList)
    PROVE  LET t == SetCurrentView(s, v) IN
           Good(t) /\ SameButCurrent(t, s) /\ t.mCurView = v
<1> DEFINE t == SetCurrentView(s, v)
           b == s.view[v].buffer
<1>1. s \in SessionState /\ ToSet(s.mBufferList) \subseteq Buffer /\ ToSet(s.mViewList) \subseteq View
    BY StateFields DEF Listing
<1>2. b \in Buffer /\ v \in View
    BY <1>1 DEF Listing, Matched
<1>3. t = [s EXCEPT !.mCurView = v, !.mCurBuffer = b]
    BY DEF SetCurrentView
<1> HIDE DEF t
<1>4. /\ t \in SessionState /\ SameButCurrent(t, s)
      /\ t.mCurView = v /\ t.mCurBuffer = b
    BY <1>1, <1>2, <1>3 DEF SessionState, SameButCurrent
<1>5. Listing(t)
    BY <1>4 DEF Listing, Matched, SameButCurrent
<1>6. CurrentIn(t)
    BY <1>4 DEF CurrentIn, SameButCurrent
<1> QED BY <1>4, <1>5, <1>6 DEF Good, t

(* A view starts at a line there is.                                       *)
LEMMA StartPosition ==
    ASSUME NEW s, NEW name, NEW line \in Line \union {NoLine}
    PROVE  GetStartPosition(s, name, line) \in Line
<1>1. InFileName(line) \in Line /\ InFileName(line) >= 0
    BY SessionAssumption DEF InFileName, Line, NoLine
<1> QED BY <1>1 DEF GetStartPosition

(* createBufferAndView() of a file that is open, and of one that is not.   *)
LEMMA OpenedAgain ==
    ASSUME NEW s, Listing(s), NEW name, NEW temp, NEW line \in Line \union {NoLine},
           FindBuffer(s, name) # NoBuffer
    PROVE  LET t == CreateBufferAndView(s, name, temp, line) IN
           /\ Good(t) /\ t.mBufferList = s.mBufferList /\ t.mViewList = s.mViewList
           /\ t.buffer = s.buffer /\ t.lost = s.lost
<1> DEFINE b == FindBuffer(s, name)
           v == FindViewByBuffer(s, b)
           p == GetStartPosition(s, name, line)
           c == SetCurrentView(s, v)
<1>1. CreateBufferAndView(s, name, temp, line) = ApplyStartPosition(c, v, p)
    BY DEF CreateBufferAndView
<1>2. b \in ToSet(s.mBufferList)
    BY BufferFound
<1> HIDE DEF b
<1>3. v \in ToSet(s.mViewList)
    BY <1>2, ViewFound
<1>4. p \in Line
    BY StartPosition
<1> HIDE DEF v, p
<1>5. Good(c) /\ SameButCurrent(c, s)
    BY <1>3, SetCurrentKeeps
<1> HIDE DEF c
<1> DEFINE t == ApplyStartPosition(c, v, p)
<1>6. Listing(c) /\ CurrentIn(c) /\ v \in ToSet(c.mViewList)
    BY <1>3, <1>5 DEF Good, SameButCurrent
<1>7. SameLists(t, c) /\ t.buffer = c.buffer /\ t.lost = c.lost
    BY <1>4, <1>6, ApplyStartPositionKeeps
<1> HIDE DEF t
<1>8. Listing(t) /\ CurrentIn(t)
    BY <1>6, <1>7, SameListsKeeps
<1> QED BY <1>1, <1>5, <1>7, <1>8 DEF Good, SameLists, SameButCurrent, t

(* A file that is not open gets a buffer and a view of its own, the current*)
(* ones then.                                                              *)
LEMMA OpenedAnew ==
    ASSUME NEW s, Listing(s), HasRoom(s),
           NEW name \in File \union Directory \union {NoName}, NEW temp \in Name,
           NEW line \in Line \union {NoLine}, FindBuffer(s, name) = NoBuffer
    PROVE  LET b == Fresh(s.buffer, FreedBuffer)
               v == Fresh(s.view, FreedView)
               t == CreateBufferAndView(s, name, temp, line)
           IN  /\ Good(t) /\ t.mCurView = v
               /\ t.mBufferList = Append(s.mBufferList, b)
               /\ t.mViewList = Append(s.mViewList, v)
               /\ t.buffer[b].path = Created(name, temp) /\ ~t.buffer[b].isModified
               /\ \A c \in Buffer : c # b => t.buffer[c] = s.buffer[c]
               /\ t.lost = s.lost
<1> DEFINE b == Fresh(s.buffer, FreedBuffer)
           v == Fresh(s.view, FreedView)
           u == CreateBufferAndItsView(s, name, temp)
           p == GetStartPosition(s, name, line)
           c == SetCurrentView(u, v)
           t == ApplyStartPosition(c, v, p)
<1>1. /\ Listing(u)
      /\ u.mBufferList = Append(s.mBufferList, b)
      /\ u.mViewList = Append(s.mViewList, v)
      /\ u.buffer[b].path = Created(name, temp) /\ ~u.buffer[b].isModified
      /\ \A d \in Buffer : d # b => u.buffer[d] = s.buffer[d]
      /\ u.lost = s.lost
    BY CreateKeeps
<1>2. v \in ToSet(u.mViewList) /\ Last(u.mViewList) = v
    <2>1. v \in View \ ToSet(s.mViewList) /\ s.mViewList \in Seq(View) /\ IsInjective(s.mViewList)
        BY FreshIsFree, StateFields DEF Listing
    <2> HIDE DEF v, u
    <2>2. ToSet(Append(s.mViewList, v)) = ToSet(s.mViewList) \union {v}
          /\ Last(Append(s.mViewList, v)) = v
        BY <2>1, AppendToList
    <2> QED BY <1>1, <2>2
<1>3. CreateBufferAndView(s, name, temp, line) = t
    <2> HIDE DEF p, v
    <2>1. CreateBufferAndView(s, name, temp, line)
            = ApplyStartPosition(SetCurrentView(u, Last(u.mViewList)), Last(u.mViewList), p)
        BY DEF CreateBufferAndView, p
    <2> QED BY <1>2, <2>1
<1>4. p \in Line
    BY StartPosition
<1> HIDE DEF b, v, p, u
<1>5. Good(c) /\ SameButCurrent(c, u) /\ c.mCurView = v
    BY <1>1, <1>2, SetCurrentKeeps
<1> HIDE DEF c
<1>6. Listing(c) /\ CurrentIn(c) /\ v \in ToSet(c.mViewList)
    BY <1>2, <1>5 DEF Good, SameButCurrent
<1>7. SameLists(t, c) /\ t.buffer = c.buffer /\ t.lost = c.lost
    BY <1>4, <1>6, ApplyStartPositionKeeps
<1> HIDE DEF t
<1>8. Listing(t) /\ CurrentIn(t)
    BY <1>6, <1>7, SameListsKeeps
<1>9. /\ t.mCurView = v /\ t.mBufferList = u.mBufferList /\ t.mViewList = u.mViewList
      /\ t.buffer = u.buffer /\ t.lost = u.lost
    BY <1>5, <1>7 DEF SameLists, SameButCurrent
<1> QED BY <1>1, <1>3, <1>8, <1>9 DEF Good, b, v
-----------------------------------------------------------------------------
(* Closing. The positions after that of a view is saved.                   *)
Remembered(s, v) ==
    LET name == s.buffer[s.view[v].buffer].path
    IN  IF name \in File THEN [s.mStartPosition EXCEPT ![name] = s.view[v].line]
                         ELSE s.mStartPosition

(* saveYzisInfo() notes the line of the view under the name of its file.   *)
LEMMA SavedPosition ==
    ASSUME NEW s \in SessionState, NEW v \in View
    PROVE  /\ Remembered(s, v) \in [File -> Line]
           /\ SaveYzisInfo(s, v) = [s EXCEPT !.mStartPosition = Remembered(s, v)]
<1>1. s.view \in [View -> YView] /\ s.mStartPosition \in [File -> Line]
    BY StateFields
<1>2. s.view[v].line \in Line
    BY <1>1 DEF YView
<1>3. Remembered(s, v) \in [File -> Line]
    BY <1>1, <1>2 DEF Remembered
<1>4. s = [s EXCEPT !.mStartPosition = s.mStartPosition]
    BY DEF SessionState
<1> QED BY <1>3, <1>4 DEF SaveYzisInfo, Remembered

(* The other views are of other buffers.                                   *)
LEMMA OneViewEach ==
    ASSUME NEW s, Listing(s), NEW v \in ToSet(s.mViewList), NEW w \in ToSet(s.mViewList),
           s.view[v].buffer = s.view[w].buffer
    PROVE  v = w
<1>1. s.buffer[s.view[v].buffer].views = <<v>> /\ s.buffer[s.view[w].buffer].views = <<w>>
    BY DEF Listing, Matched
<1> QED BY <1>1

(* A state without a view and its buffer.                                  *)
Removed(u, s, v) ==
    LET b == s.view[v].buffer
    IN  /\ u.mBufferList = Without(s.mBufferList, b)
        /\ u.mViewList = Without(s.mViewList, v)
        /\ u.buffer = [s.buffer EXCEPT ![b] = FreedBuffer]
        /\ u.view = [s.view EXCEPT ![v] = FreedView]
        /\ u.lost = (s.lost \/ s.buffer[b].isModified)
        /\ u.running = s.running
        /\ u.mStartPosition = Remembered(s, v)

(* Taking a view that is not the current one out, with its buffer, leaves  *)
(* lists that agree.                                                       *)
LEMMA RemovedIsListing ==
    ASSUME NEW s, Listing(s), NEW v \in ToSet(s.mViewList), NEW u, Removed(u, s, v),
           u.mCurView \in ToSet(s.mViewList), u.mCurView # v,
           u.mCurBuffer = s.view[u.mCurView].buffer, u \in SessionState
    PROVE  Good(u)
<1> DEFINE b == s.view[v].buffer
<1>1. /\ s \in SessionState
      /\ s.mBufferList \in Seq(Buffer) /\ ToSet(s.mBufferList) \subseteq Buffer
      /\ s.mViewList \in Seq(View) /\ ToSet(s.mViewList) \subseteq View
      /\ s.buffer \in [Buffer -> YBuffer] /\ s.view \in [View -> YView]
    BY StateFields DEF Listing
<1>2. b \in ToSet(s.mBufferList) /\ b \in Buffer /\ v \in View
    BY <1>1 DEF Listing, Matched
<1>3. /\ IsInjective(u.mBufferList) /\ ToSet(u.mBufferList) = ToSet(s.mBufferList) \ {b}
      /\ IsInjective(u.mViewList) /\ ToSet(u.mViewList) = ToSet(s.mViewList) \ {v}
    BY <1>1, WithoutOne DEF Removed, Listing
<1>4. /\ u.buffer[b] = FreedBuffer /\ \A c \in Buffer : c # b => u.buffer[c] = s.buffer[c]
      /\ u.view[v] = FreedView /\ \A w \in View : w # v => u.view[w] = s.view[w]
    BY <1>1, <1>2 DEF Removed
<1> HIDE DEF b
<1>5. ASSUME NEW c \in ToSet(u.mBufferList)
      PROVE  /\ u.buffer[c].state = "active"
             /\ \E w \in ToSet(u.mViewList) : u.buffer[c].views = <<w>> /\ u.view[w].buffer = c
    <2>1. c \in ToSet(s.mBufferList) /\ c # b /\ c \in Buffer
        BY <1>1, <1>3, <1>5
    <2>2. PICK w \in ToSet(s.mViewList) : s.buffer[c].views = <<w>> /\ s.view[w].buffer = c
        BY <2>1 DEF Listing, Matched
    <2>3. w # v /\ w \in ToSet(u.mViewList) /\ w \in View
        BY <1>1, <1>3, <2>1, <2>2 DEF b
    <2> QED BY <1>4, <2>1, <2>2, <2>3 DEF Listing, Matched
<1>6. ASSUME NEW w \in ToSet(u.mViewList)
      PROVE  /\ u.view[w].buffer \in ToSet(u.mBufferList)
             /\ u.buffer[u.view[w].buffer].views = <<w>>
    <2>1. w \in ToSet(s.mViewList) /\ w # v /\ w \in View
        BY <1>1, <1>3, <1>6
    <2>2. /\ s.view[w].buffer \in ToSet(s.mBufferList)
          /\ s.buffer[s.view[w].buffer].views = <<w>>
        BY <2>1 DEF Listing, Matched
    <2>3. s.view[w].buffer # b /\ s.view[w].buffer \in Buffer
        BY <1>1, <2>1, <2>2, OneViewEach DEF b
    <2> QED BY <1>3, <1>4, <2>1, <2>2, <2>3
<1>7. Matched(u)
    BY <1>3, <1>4, <1>5, <1>6 DEF Matched, Listing
<1>8. CurrentIn(u)
    BY <1>1, <1>3, <1>4 DEF CurrentIn
<1> QED BY <1>3, <1>7, <1>8 DEF Good, Listing

(* ~YView and ~YBuffer of a view that has left the list already.           *)
LEMMA DestroyViewRemoves ==
    ASSUME NEW s, Listing(s), NEW v \in ToSet(s.mViewList),
           NEW w \in ToSet(s.mViewList), w # v
    PROVE  LET u == DestroyView([s EXCEPT !.mViewList = Without(@, v)], v) IN
           /\ Removed(u, s, v) /\ u \in SessionState
           /\ u.mCurView = s.mCurView /\ u.mCurBuffer = s.mCurBuffer
<1> DEFINE b == s.view[v].buffer
           vl == Without(s.mViewList, v)
           bl == Without(s.mBufferList, b)
           r == [s EXCEPT !.mViewList = vl]
           f == Remembered(s, v)
           saved == SaveYzisInfo(r, v)
           rest == Without(s.buffer[b].views, v)
<1>1. /\ s \in SessionState
      /\ s.mBufferList \in Seq(Buffer) /\ ToSet(s.mBufferList) \subseteq Buffer
      /\ s.mViewList \in Seq(View) /\ ToSet(s.mViewList) \subseteq View
      /\ s.buffer \in [Buffer -> YBuffer] /\ s.view \in [View -> YView]
      /\ s.lost \in BOOLEAN
    BY StateFields DEF Listing
<1>2. b \in ToSet(s.mBufferList) /\ b \in Buffer /\ v \in View /\ s.buffer[b].views = <<v>>
    BY <1>1 DEF Listing, Matched
<1>3. vl \in Seq(View) /\ bl \in Seq(Buffer) /\ ToSet(bl) = ToSet(s.mBufferList) \ {b}
    BY <1>1, WithoutOne DEF Listing
<1>4. rest = <<>>
    <2>1. Without(<<v>>, v) \in Seq(View) /\ ToSet(Without(<<v>>, v)) = ToSet(<<v>>) \ {v}
        <3>1. <<v>> \in Seq(View) /\ IsInjective(<<v>>)
            BY <1>2 DEF IsInjective
        <3> QED BY <3>1, WithoutOne
    <2>2. ToSet(<<v>>) = {v}
        BY DEF ToSet
    <2> QED BY <1>2, <2>1, <2>2, InList
<1>5. bl # <<>>
    <2>1. s.view[w].buffer \in ToSet(s.mBufferList) /\ s.view[w].buffer # b
        BY OneViewEach DEF Listing, Matched
    <2>2. ToSet(bl) # {}
        BY <1>3, <2>1
    <2> QED BY <1>3, <2>2, InList
<1> HIDE DEF bl, vl
<1>6. /\ r \in SessionState /\ r.mViewList = vl /\ r.mBufferList = s.mBufferList
      /\ r.buffer = s.buffer /\ r.view = s.view /\ r.lost = s.lost /\ r.running = s.running
      /\ r.mStartPosition = s.mStartPosition
      /\ r.mCurView = s.mCurView /\ r.mCurBuffer = s.mCurBuffer
    BY <1>1, <1>3 DEF SessionState
<1>7. f \in [File -> Line] /\ saved = [r EXCEPT !.mStartPosition = f]
    <2> HIDE DEF r
    <2>1. Remembered(r, v) = Remembered(s, v)
        BY <1>6 DEF Remembered
    <2> QED BY <1>2, <1>6, <2>1, SavedPosition
<1> HIDE DEF f, r, saved, rest
<1>8. /\ saved \in SessionState /\ saved.mViewList = vl /\ saved.mBufferList = s.mBufferList
      /\ saved.buffer = s.buffer /\ saved.view = s.view /\ saved.lost = s.lost
      /\ saved.running = s.running /\ saved.mStartPosition = f
      /\ saved.mCurView = s.mCurView /\ saved.mCurBuffer = s.mCurBuffer
    BY <1>6, <1>7 DEF SessionState
<1> DEFINE left == [saved EXCEPT !.buffer[b].views = rest,
                                 !.buffer[b].state = IF rest = <<>> THEN "hidden" ELSE @,
                                 !.view[v] = FreedView]
<1>9. DestroyView(r, v) = DeleteBuffer(left, b)
    BY <1>4, <1>6 DEF DestroyView, saved, rest
<1> DEFINE x == [s.buffer[b] EXCEPT !.views = <<>>, !.state = "hidden"]
           bf == [s.buffer EXCEPT ![b] = x]
           vf == [s.view EXCEPT ![v] = FreedView]
<1>10. x \in YBuffer /\ x.isModified = s.buffer[b].isModified
    <2>1. s.buffer[b] \in YBuffer
        BY <1>1, <1>2
    <2>2. <<>> \in Seq(View)
        OBVIOUS
    <2> QED BY <2>1, <2>2 DEF YBuffer
<1>11. FreedView \in YView /\ FreedBuffer \in YBuffer
    <2>1. 0 \in Line
        BY SessionAssumption DEF Line
    <2>2. <<>> \in Seq(View)
        OBVIOUS
    <2> QED BY <2>1, <2>2 DEF FreedView, FreedBuffer, YView, YBuffer, Name
<1>12. left = [saved EXCEPT !.buffer = bf, !.view = vf]
    <2>1. saved.buffer \in [Buffer -> YBuffer] /\ saved.buffer[b] \in YBuffer
        BY <1>1, <1>2, <1>8
    <2>2. left = [saved EXCEPT !.buffer = [saved.buffer EXCEPT ![b].views = rest, ![b].state = "hidden"],
                               !.view = [saved.view EXCEPT ![v] = FreedView]]
        BY <1>2, <1>4, <2>1
    <2>3. [saved.buffer EXCEPT ![b].views = rest, ![b].state = "hidden"] = bf
        BY <1>2, <1>4, <1>8
    <2> HIDE DEF left
    <2> QED BY <1>8, <2>2, <2>3
<1> HIDE DEF left, x
<1>13. /\ bf \in [Buffer -> YBuffer] /\ bf[b] = x
       /\ vf \in [View -> YView]
    BY <1>1, <1>2, <1>10, <1>11
<1>14. [bf EXCEPT ![b] = FreedBuffer] = [s.buffer EXCEPT ![b] = FreedBuffer]
       /\ [bf EXCEPT ![b] = FreedBuffer] \in [Buffer -> YBuffer]
    BY <1>1, <1>2, <1>10, <1>11
<1> HIDE DEF bf, vf
<1>15. /\ left \in SessionState /\ left.mViewList = vl /\ left.mBufferList = s.mBufferList
       /\ left.buffer = bf /\ left.view = vf /\ left.lost = s.lost
       /\ left.running = s.running /\ left.mStartPosition = f
       /\ left.mCurView = s.mCurView /\ left.mCurBuffer = s.mCurBuffer
    BY <1>8, <1>12, <1>13 DEF SessionState
<1> DEFINE l == s.lost \/ s.buffer[b].isModified
           t == [left EXCEPT !.mBufferList = bl, !.buffer = [bf EXCEPT ![b] = FreedBuffer],
                             !.lost = l]
<1>16. l \in BOOLEAN
    BY <1>1, <1>2 DEF YBuffer
<1>17. DeleteBuffer(left, b) = IF t.mBufferList = <<>> THEN ExitRequest(t) ELSE t
    <2>1. left.buffer[b].isModified = s.buffer[b].isModified
        BY <1>10, <1>13, <1>15
    <2>2. [left EXCEPT !.mBufferList = Without(@, b), !.buffer[b] = FreedBuffer,
                       !.lost = @ \/ left.buffer[b].isModified] = t
        BY <1>15, <2>1 DEF bl
    <2> DEFINE e == [left EXCEPT !.mBufferList = Without(@, b), !.buffer[b] = FreedBuffer,
                                 !.lost = @ \/ left.buffer[b].isModified]
    <2>3. DeleteBuffer(left, b) = IF e.mBufferList = <<>> THEN ExitRequest(e) ELSE e
        BY DEF DeleteBuffer
    <2>4. e = t
        BY <2>2
    <2> HIDE DEF t, e
    <2> QED BY ONLY <2>3, <2>4
<1> HIDE DEF l
<1>18. /\ t \in SessionState /\ t.mViewList = vl /\ t.mBufferList = bl
       /\ t.buffer = [s.buffer EXCEPT ![b] = FreedBuffer] /\ t.view = vf /\ t.lost = l
       /\ t.running = s.running /\ t.mStartPosition = f
       /\ t.mCurView = s.mCurView /\ t.mCurBuffer = s.mCurBuffer
    BY <1>3, <1>14, <1>15, <1>16 DEF SessionState
<1> HIDE DEF t
<1>19. DestroyView(r, v) = t
    BY <1>5, <1>9, <1>17, <1>18
<1> QED BY <1>18, <1>19 DEF Removed, r, vl, bl, vf, f, l
(* An element of a list without repetitions is at one index only.          *)
LEMMA IndexIsUnique ==
    ASSUME NEW S, NEW list \in Seq(S), IsInjective(list), NEW i \in 1..Len(list)
    PROVE  IndexOf(list, list[i]) = i /\ list[i] \in ToSet(list)
<1>1. DOMAIN list = 1..Len(list) /\ list[i] \in ToSet(list)
    BY LenProperties DEF ToSet
<1>2. IndexOf(list, list[i]) \in 1..Len(list) /\ list[IndexOf(list, list[i])] = list[i]
    BY <1>1, IndexFound
<1> QED BY <1>1, <1>2 DEF IsInjective

(* The current view is at some index; the next and the previous ones are   *)
(* at the neighbouring ones.                                               *)
LEMMA CurrentIndex ==
    ASSUME NEW s, Good(s)
    PROVE  \E i \in 1..Len(s.mViewList) :
             /\ s.mCurView = s.mViewList[i] /\ s.mCurView # NoView
             /\ PrevView(s) = s.mViewList[IF i = 1 THEN Len(s.mViewList) ELSE i - 1]
             /\ NextView(s) = s.mViewList[(i % Len(s.mViewList)) + 1]
<1> DEFINE list == s.mViewList
           i == IndexOf(list, s.mCurView)
<1>1. list \in Seq(View) /\ ToSet(list) \subseteq View /\ IsInjective(list)
    BY StateFields DEF Good, Listing
<1>2. s.mCurView \in ToSet(list)
    BY DEF Good, CurrentIn
<1>3. i \in 1..Len(list) /\ list[i] = s.mCurView
    BY <1>1, <1>2, IndexFound
<1>4. s.mCurView # NoView
    BY <1>1, <1>2, SessionAssumption
<1>5. /\ PrevView(s) = list[IF i = 1 THEN Len(list) ELSE i - 1]
      /\ NextView(s) = list[(i % Len(list)) + 1]
    BY <1>4 DEF PrevView, NextView
<1> QED BY <1>3, <1>4, <1>5

(* The views one can go to are listed.                                     *)
LEMMA ViewsToGoTo ==
    ASSUME NEW s, Good(s)
    PROVE  /\ {PrevView(s), NextView(s), Head(s.mViewList), Last(s.mViewList)} \subseteq ToSet(s.mViewList)
           /\ Len(s.mViewList) > 1 => PrevView(s) # s.mCurView
<1> DEFINE list == s.mViewList
           n == Len(list)
<1>1. list \in Seq(View) /\ IsInjective(list)
    BY StateFields DEF Good, Listing
<1>2. n \in Nat /\ DOMAIN list = 1..n
    BY <1>1, LenProperties
<1>3. PICK i \in 1..n : /\ s.mCurView = list[i]
                        /\ PrevView(s) = list[IF i = 1 THEN n ELSE i - 1]
                        /\ NextView(s) = list[(i % n) + 1]
    BY CurrentIndex
<1> DEFINE p == IF i = 1 THEN n ELSE i - 1
           q == (i % n) + 1
<1>4. p \in 1..n /\ (n > 1 => p # i) /\ n >= 1
    BY <1>2, <1>3
<1>5. q \in 1..n
    BY <1>2, <1>3
<1>6. 1 \in 1..n /\ n \in 1..n /\ Head(list) = list[1] /\ Last(list) = list[n]
    BY <1>1, <1>2, <1>4 DEF Last
<1>7. \A j \in 1..n : list[j] \in ToSet(list)
    BY <1>2 DEF ToSet
<1>8. n > 1 => list[p] # list[i]
    BY <1>1, <1>2, <1>4 DEF IsInjective
<1> HIDE DEF n, p, q
<1> QED BY <1>3, <1>4, <1>5, <1>6, <1>7, <1>8 DEF n, p, q

(* :bnext and :bprevious undo each other.                                  *)
LEMMA NextIsUndone ==
    ASSUME NEW s, Good(s)
    PROVE  PrevView(SetCurrentView(s, NextView(s))) = s.mCurView
<1> DEFINE list == s.mViewList
           n == Len(list)
           t == SetCurrentView(s, NextView(s))
<1>1. list \in Seq(View) /\ IsInjective(list) /\ n \in Nat
    BY StateFields, LenProperties DEF Good, Listing
<1>2. PICK i \in 1..n : s.mCurView = list[i] /\ NextView(s) = list[(i % n) + 1]
    BY CurrentIndex
<1>3. Good(t) /\ t.mViewList = list /\ t.mCurView = NextView(s)
    BY ViewsToGoTo, SetCurrentKeeps DEF Good, SameButCurrent
<1> HIDE DEF t
<1>4. PICK j \in 1..n : t.mCurView = list[j] /\ PrevView(t) = list[IF j = 1 THEN n ELSE j - 1]
    BY <1>3, CurrentIndex
<1> DEFINE k == (i % n) + 1
<1>5. k \in 1..n /\ (IF k = 1 THEN n ELSE k - 1) = i
    <2>1. n \in Nat /\ i \in 1..n
        BY <1>1
    <2> HIDE DEF n
    <2>2. CASE i = n
        BY <2>1, <2>2
    <2>3. CASE i < n
        <3>1. i % n = i
            BY <2>1, <2>3
        <3> QED BY <2>1, <2>3, <3>1
    <2> QED BY <2>1, <2>2, <2>3
<1>6. k = j
    <2>1. list[k] = list[j]
        BY <1>2, <1>3, <1>4
    <2> QED BY <1>1, <1>5, <2>1, LenProperties DEF IsInjective
<1> HIDE DEF k, n
<1> QED BY <1>2, <1>4, <1>5, <1>6 DEF t

(* deleteView() of the last view ends the program; of another view it      *)
(* closes that, with its buffer.                                           *)
LEMMA DeleteViewCloses ==
    ASSUME NEW s, Good(s), NEW v \in ToSet(s.mViewList)
    PROVE  LET u == DeleteView(s, v) IN
           IF Len(s.mViewList) = 1
           THEN u = ExitRequest(s)
           ELSE Good(u) /\ Removed(u, s, v) /\ (v # s.mCurView => u.mCurView = s.mCurView)
<1> DEFINE list == s.mViewList
           n == Len(list)
           t == IF v = s.mCurView THEN SetCurrentView(s, PrevView(s)) ELSE s
           u == DeleteView(s, v)
<1>1. CASE n = 1
    BY <1>1 DEF DeleteView
<1>2. CASE n # 1
    <2>1. list \in Seq(View) /\ n \in Nat
        BY StateFields, LenProperties DEF Good, Listing
    <2>2. n > 1
        <3>1. PICK i \in 1..n : s.mCurView = list[i]
            BY CurrentIndex
        <3> HIDE DEF n
        <3> QED BY <1>2, <2>1, <3>1
    <2>3. /\ Good(t) /\ SameButCurrent(t, s) /\ t.mCurView # v
          /\ v # s.mCurView => t.mCurView = s.mCurView
        <3>1. CASE v = s.mCurView
            <4>1. PrevView(s) \in ToSet(list) /\ PrevView(s) # v
                BY <2>2, <3>1, ViewsToGoTo
            <4>2. t = SetCurrentView(s, PrevView(s))
                BY <3>1
            <4> HIDE DEF t
            <4> QED BY <3>1, <4>1, <4>2, SetCurrentKeeps DEF Good
        <3>2. CASE v # s.mCurView
            BY <3>2 DEF SameButCurrent
        <3> QED BY <3>1, <3>2
    <2>4. u = DestroyView([t EXCEPT !.mViewList = Without(@, v)], v)
        BY <1>2 DEF DeleteView
    <2> HIDE DEF t, u
    <2>5. /\ v \in ToSet(t.mViewList) /\ t.mCurView \in ToSet(t.mViewList)
          /\ t.mCurBuffer = t.view[t.mCurView].buffer /\ Listing(t)
        BY <2>3 DEF SameButCurrent, Good, CurrentIn
    <2>6. Removed(u, t, v) /\ u \in SessionState /\ u.mCurView = t.mCurView /\ u.mCurBuffer = t.mCurBuffer
        BY <2>3, <2>4, <2>5, DestroyViewRemoves
    <2>7. Good(u)
        BY <2>3, <2>5, <2>6, RemovedIsListing
    <2>8. Removed(u, s, v)
        BY <2>3, <2>6 DEF Removed, Remembered, SameButCurrent
    <2> QED BY <1>2, <2>3, <2>6, <2>7, <2>8 DEF u
<1> QED BY <1>1, <1>2

(* removeBuffer() deletes the only view of the buffer.                     *)
LEMMA RemoveBufferCloses ==
    ASSUME NEW s, Good(s), NEW b \in ToSet(s.mBufferList)
    PROVE  \E v \in ToSet(s.mViewList) : s.view[v].buffer = b /\ RemoveBuffer(s, b) = DeleteView(s, v)
<1>1. PICK v \in ToSet(s.mViewList) : s.buffer[b].views = <<v>> /\ s.view[v].buffer = b
    BY DEF Good, Listing, Matched
<1> DEFINE Fold(f) == f = [I \in SUBSET (1..1) |->
                             IF I = {} THEN s ELSE DeleteView(f[I \ {Max(I)}], <<v>>[Max(I)])]
           iter == CHOOSE f : Fold(f)
           h == [I \in SUBSET (1..1) |-> IF I = {} THEN s ELSE DeleteView(s, v)]
<1>2. ASSUME NEW I \in SUBSET (1..1), I # {}
      PROVE  Max(I) = 1 /\ I \ {Max(I)} = {}
    <2>1. Max(I) \in I
        <3>1. 1 \in Nat
            OBVIOUS
        <3> QED BY <1>2, <3>1, LargestIndex
    <2>3. \A i \in 1..1 : i = 1
        OBVIOUS
    <2>2. Max(I) = 1 /\ \A i \in I : i = 1
        BY <2>1, <2>3
    <2> QED BY <2>2
<1>3. Fold(h)
    <2>1. h[{}] = s
        OBVIOUS
    <2>2. ASSUME NEW I \in SUBSET (1..1), I # {}
          PROVE  DeleteView(s, v) = DeleteView(h[I \ {Max(I)}], <<v>>[Max(I)])
        BY <1>2, <2>1, <2>2
    <2> QED BY <2>2
<1>4. Fold(iter)
    BY <1>3
<1>5. RemoveBuffer(s, b) = iter[1..1]
    <2>1. DOMAIN <<v>> = 1..1
        OBVIOUS
    <2> QED BY <1>1, <2>1 DEF RemoveBuffer, FoldLeft, MapThenFoldSet
<1> HIDE DEF iter
<1>6. iter[{}] = s
    BY <1>4
<1>7. iter[1..1] = DeleteView(s, v)
    <2>1. 1..1 \in SUBSET (1..1) /\ 1..1 # {}
        OBVIOUS
    <2>2. Max(1..1) = 1 /\ (1..1) \ {Max(1..1)} = {}
        BY <1>2, <2>1
    <2>3. iter[1..1] = DeleteView(iter[(1..1) \ {Max(1..1)}], <<v>>[Max(1..1)])
        BY <1>4, <2>1
    <2>4. <<v>>[1] = v
        OBVIOUS
    <2> QED BY ONLY <1>6, <2>2, <2>3, <2>4
<1> QED BY <1>1, <1>5, <1>7
-----------------------------------------------------------------------------
(* Starting. The first buffers find room.                                  *)
LEMMA RoomLeft ==
    ASSUME NEW s, Listing(s), Len(s.mBufferList) <= 2, Len(s.mViewList) <= 2
    PROVE  HasRoom(s)
<1> DEFINE bl == s.mBufferList
           vl == s.mViewList
<1>1. /\ Len(bl) \in Nat /\ ToSet(bl) = {bl[i] : i \in 1..Len(bl)}
      /\ Len(vl) \in Nat /\ ToSet(vl) = {vl[i] : i \in 1..Len(vl)}
    BY StateFields, LenProperties, InList DEF Listing
<1>2. ToSet(bl) \subseteq {bl[1], bl[2]} /\ ToSet(vl) \subseteq {vl[1], vl[2]}
    <2>1. \A i \in 1..Len(bl) : i = 1 \/ i = 2
        BY <1>1
    <2>2. \A i \in 1..Len(vl) : i = 1 \/ i = 2
        BY <1>1
    <2> QED BY <1>1, <2>1, <2>2
<1>3. PICK b \in Buffer : b \notin ToSet(bl)
    <2>1. PICK b1, b2, b3 \in Buffer : Distinct(b1, b2, b3)
        BY SessionAssumption
    <2> QED BY <1>2, <2>1 DEF Distinct
<1>4. PICK v \in View : v \notin ToSet(vl)
    <2>1. PICK v1, v2, v3 \in View : Distinct(v1, v2, v3)
        BY SessionAssumption
    <2> QED BY <1>2, <2>1 DEF Distinct
<1> QED BY <1>3, <1>4 DEF HasRoom, Listing, Matched

(* No buffer is modified.                                                  *)
Clean(s) == \A b \in Buffer : ~s.buffer[b].isModified

(* Opening a file keeps names apart.                                       *)
LEMMA OpeningKeeps ==
    ASSUME NEW s, Listing(s), NEW name \in File \union Directory \union {NoName},
           NEW temp \in Name, NEW line \in Line \union {NoLine},
           FindBuffer(s, name) = NoBuffer => HasRoom(s),
           name = NoName /\ temp # NoName => FindBuffer(s, temp) = NoBuffer
    PROVE  LET t == CreateBufferAndView(s, name, temp, line) IN
           /\ Good(t) /\ t.lost = s.lost
           /\ SameName(t) => SameName(s)
           /\ Clean(s) => Clean(t)
<1> DEFINE b == Fresh(s.buffer, FreedBuffer)
           t == CreateBufferAndView(s, name, temp, line)
<1>1. CASE FindBuffer(s, name) # NoBuffer
    <2>1. Good(t) /\ t.mBufferList = s.mBufferList /\ t.buffer = s.buffer /\ t.lost = s.lost
        BY <1>1, OpenedAgain
    <2> QED BY <2>1 DEF SameName, Clean
<1>2. CASE FindBuffer(s, name) = NoBuffer
    <2>1. /\ Good(t) /\ t.mBufferList = Append(s.mBufferList, b)
          /\ t.buffer[b].path = Created(name, temp) /\ ~t.buffer[b].isModified
          /\ \A c \in Buffer : c # b => t.buffer[c] = s.buffer[c]
          /\ t.lost = s.lost
        BY <1>2, OpenedAnew
    <2>2. b \in Buffer /\ b \notin ToSet(s.mBufferList)
        BY <1>2, FreshIsFree
    <2> HIDE DEF b, t
    <2>3. /\ ToSet(t.mBufferList) = ToSet(s.mBufferList) \union {b}
          /\ ToSet(s.mBufferList) \subseteq Buffer
        BY <2>1, <2>2, AppendToList, StateFields DEF Listing
    <2>4. Clean(s) => Clean(t)
        BY <2>1 DEF Clean
    <2>5. \A c \in ToSet(s.mBufferList) :
            s.buffer[c].path = Created(name, temp) => Created(name, temp) = NoName
        <3>1. \A c \in ToSet(s.mBufferList) : s.buffer[c].path # name
            BY <1>2, BufferFound, SessionAssumption
        <3>2. name = NoName /\ temp # NoName =>
                \A c \in ToSet(s.mBufferList) : s.buffer[c].path # temp
            BY BufferFound, SessionAssumption
        <3> QED BY <3>1, <3>2 DEF Created
    <2>6. ASSUME NEW c \in ToSet(t.mBufferList), NEW d \in ToSet(t.mBufferList),
                 c # d, t.buffer[c].path = t.buffer[d].path, t.buffer[c].path # NoName
          PROVE  SameName(s)
        <3>1. CASE c = b \/ d = b
            BY <2>1, <2>3, <2>5, <2>6, <3>1
        <3>2. CASE c # b /\ d # b
            BY <2>1, <2>3, <2>6, <3>2 DEF SameName
        <3> QED BY <3>1, <3>2
    <2>7. SameName(t) => SameName(s)
        BY <2>6 DEF SameName
    <2> QED BY <2>1, <2>4, <2>7 DEF t
<1> QED BY <1>1, <1>2

(* What main() does for each file of the command line.                     *)
Open(s, f) == CreateBufferAndView(s, f, NoName, NoLine)

(* The files of the command line are opened one after another.             *)
LEMMA OpenFiles ==
    ASSUME NEW s, NEW files \in CommandLine, files # <<>>
    PROVE  \E f \in File :
             LET folded == FoldLeft(LAMBDA t, g : CreateBufferAndView(t, g, NoName, NoLine), s, files)
             IN  folded = Open(s, f) \/ \E g \in File : folded = Open(Open(s, f), g)
<1> DEFINE n == Len(files)
           Fold(h) == h = [I \in SUBSET (1..n) |->
                             IF I = {} THEN s
                             ELSE CreateBufferAndView(h[I \ {Max(I)}], files[Max(I)], NoName, NoLine)]
           iter == CHOOSE h : Fold(h)
           folded == FoldLeft(LAMBDA t, g : CreateBufferAndView(t, g, NoName, NoLine), s, files)
<1>1. /\ files \in Seq(File) /\ n \in {1, 2} /\ DOMAIN files = 1..n
      /\ \A i \in 1..n : files[i] \in File
    <2>1. CASE \E f \in File : files = <<f>>
        <3>1. PICK f \in File : files = <<f>>
            BY <2>1
        <3>2. <<f>> \in Seq(File) /\ Len(<<f>>) = 1 /\ DOMAIN <<f>> = 1..1 /\ <<f>>[1] = f
            OBVIOUS
        <3> QED BY <3>1, <3>2
    <2>2. CASE \E f, g \in File : files = <<f, g>>
        <3>1. PICK f, g \in File : files = <<f, g>>
            BY <2>2
        <3>2. /\ <<f, g>> \in Seq(File) /\ Len(<<f, g>>) = 2 /\ DOMAIN <<f, g>> = 1..2
              /\ <<f, g>>[1] = f /\ <<f, g>>[2] = g
            OBVIOUS
        <3> QED BY <3>1, <3>2
    <2>3. (\E f \in File : files = <<f>>) \/ (\E f, g \in File : files = <<f, g>>)
        BY DEF CommandLine
    <2> QED BY <2>1, <2>2, <2>3
<1>2. folded = iter[1..n]
    BY <1>1 DEF FoldLeft, MapThenFoldSet
<1> DEFINE A == Open(s, files[1])
           h == [I \in SUBSET (1..n) |->
                   IF I = {} THEN s ELSE IF I = {1} THEN A
                   ELSE IF I = {2} THEN Open(s, files[2]) ELSE Open(A, files[2])]
<1>3. ASSUME NEW I \in SUBSET (1..n), I # {}
      PROVE  \/ I = {1} /\ Max(I) = 1 /\ I \ {Max(I)} = {}
             \/ I = {2} /\ Max(I) = 2 /\ I \ {Max(I)} = {} /\ n = 2
             \/ I = {1, 2} /\ Max(I) = 2 /\ I \ {Max(I)} = {1} /\ n = 2
    <2>1. n \in Nat /\ (\A i \in 1..n : i = 1 \/ (i = 2 /\ n = 2))
        BY <1>1
    <2> HIDE DEF n
    <2>2. Max(I) \in I /\ \A i \in I : i <= Max(I)
        BY <1>3, <2>1, LargestIndex
    <2>3. I = {1} \/ (I = {2} /\ n = 2) \/ (I = {1, 2} /\ n = 2)
        BY <1>3, <2>1
    <2> QED BY <2>2, <2>3
<1>4. Fold(h)
    <2>1. h[{}] = s
        OBVIOUS
    <2>2. h[{1}] = A
        BY <1>1
    <2>3. ASSUME NEW I \in SUBSET (1..n), I # {}
          PROVE  h[I] = CreateBufferAndView(h[I \ {Max(I)}], files[Max(I)], NoName, NoLine)
        <3>1. h[I] = IF I = {1} THEN A ELSE IF I = {2} THEN Open(s, files[2]) ELSE Open(A, files[2])
            BY <2>3
        <3> HIDE DEF h, A, n
        <3>2. CASE I = {1} /\ Max(I) = 1 /\ I \ {Max(I)} = {}
            BY <2>1, <3>1, <3>2 DEF A, Open
        <3>3. CASE I = {2} /\ Max(I) = 2 /\ I \ {Max(I)} = {}
            <4>1. I # {1}
                BY <3>3
            <4>2. h[I] = Open(s, files[2])
                BY <3>1, <3>3, <4>1
            <4> QED BY <2>1, <3>3, <4>2 DEF Open
        <3>4. CASE I = {1, 2} /\ Max(I) = 2 /\ I \ {Max(I)} = {1}
            BY <2>2, <3>1, <3>4 DEF Open
        <3> QED BY <1>3, <2>3, <3>2, <3>3, <3>4
    <2>4. \A I \in SUBSET (1..n) :
            h[I] = IF I = {} THEN s
                   ELSE CreateBufferAndView(h[I \ {Max(I)}], files[Max(I)], NoName, NoLine)
        BY <2>1, <2>3
    <2>5. h = [I \in SUBSET (1..n) |-> h[I]]
        OBVIOUS
    <2> HIDE DEF h
    <2> QED BY <2>4, <2>5
<1>5. Fold(iter)
    BY <1>4
<1> HIDE DEF iter, h, A
<1>6. \A I \in SUBSET (1..n) :
        iter[I] = IF I = {} THEN s
                  ELSE CreateBufferAndView(iter[I \ {Max(I)}], files[Max(I)], NoName, NoLine)
    BY <1>5
<1> HIDE DEF n
<1>7. iter[{}] = s
    BY <1>6
<1>8. iter[{1}] = Open(s, files[1])
    <2>1. {1} \in SUBSET (1..n) /\ {1} # {} /\ {1} # {2} /\ {1} # {1, 2}
        BY <1>1
    <2>2. Max({1}) = 1 /\ {1} \ {Max({1})} = {}
        BY <1>3, <2>1
    <2>3. iter[{1}] = CreateBufferAndView(iter[{1} \ {Max({1})}], files[Max({1})], NoName, NoLine)
        BY <1>6, <2>1
    <2> QED BY <1>7, <2>2, <2>3 DEF Open
<1>9. CASE n = 1
    <2>1. 1..n = {1} /\ files[1] \in File
        BY <1>1, <1>9
    <2> QED BY <1>2, <1>8, <2>1
<1>10. CASE n = 2
    <2>1. 1..n = {1, 2} /\ files[1] \in File /\ files[2] \in File
        BY <1>1, <1>10
    <2>2. {1, 2} \in SUBSET (1..n) /\ {1, 2} # {} /\ {1, 2} # {2} /\ {1, 2} # {1}
        BY <2>1
    <2>3. Max({1, 2}) = 2 /\ {1, 2} \ {Max({1, 2})} = {1}
        BY <1>3, <2>2
    <2>4. iter[{1, 2}] = CreateBufferAndView(iter[{1, 2} \ {Max({1, 2})}], files[Max({1, 2})], NoName, NoLine)
        BY <1>6, <2>2
    <2>5. iter[{1, 2}] = Open(Open(s, files[1]), files[2])
        BY <1>8, <2>3, <2>4 DEF Open
    <2> QED BY <1>2, <2>1, <2>5
<1> QED BY <1>1, <1>9, <1>10
(* Before anything is opened.                                              *)
LEMMA EmptyIsListing ==
    ASSUME NEW positions \in [File -> Line]
    PROVE  LET s == Empty(positions) IN
           /\ Listing(s) /\ s.mBufferList = <<>> /\ s.mViewList = <<>>
           /\ Clean(s) /\ ~SameName(s) /\ ~s.lost
<1> DEFINE s == Empty(positions)
<1>1. FreedView \in YView /\ FreedBuffer \in YBuffer /\ ~FreedBuffer.isModified
    <2>1. 0 \in Line
        BY SessionAssumption DEF Line
    <2>2. <<>> \in Seq(View)
        OBVIOUS
    <2> QED BY <2>1, <2>2 DEF FreedView, FreedBuffer, YView, YBuffer, Name
<1>2. /\ s.mBufferList = <<>> /\ s.mViewList = <<>> /\ ~s.lost
      /\ \A b \in Buffer : s.buffer[b] = FreedBuffer
      /\ \A v \in View : s.view[v] = FreedView
    BY DEF Empty
<1>3. s \in SessionState
    <2>1. <<>> \in Seq(Buffer) /\ <<>> \in Seq(View)
        OBVIOUS
    <2>2. [b \in Buffer |-> FreedBuffer] \in [Buffer -> YBuffer]
          /\ [v \in View |-> FreedView] \in [View -> YView]
        BY <1>1
    <2> QED BY <2>1, <2>2 DEF Empty, SessionState
<1> HIDE DEF s
<1>4. IsInjective(<<>>) /\ ToSet(<<>>) = {}
    BY DEF IsInjective, ToSet
<1>5. Listing(s)
    BY <1>2, <1>3, <1>4 DEF Listing, Matched
<1>6. Clean(s) /\ ~SameName(s)
    BY <1>1, <1>2, <1>4 DEF Clean, SameName
<1> QED BY <1>2, <1>5, <1>6 DEF s

(* The view for error messages is the first of two.                        *)
Ready(s, v) ==
    /\ Listing(s) /\ Clean(s) /\ ~SameName(s) /\ ~s.lost
    /\ Len(s.mViewList) >= 2 /\ s.mViewList[1] = v

(* The start opens the buffer of the errors first, alone.                  *)
LEMMA ErrorsFirst ==
    ASSUME NEW positions \in [File -> Line], NEW temp \in NewName
    PROVE  LET s == CreateBufferAndView(Empty(positions), NoName, temp, NoLine) IN
           /\ Listing(s) /\ Clean(s) /\ ~SameName(s) /\ ~s.lost
           /\ Len(s.mBufferList) = 1 /\ Len(s.mViewList) = 1 /\ s.mViewList[1] = s.mCurView
           /\ \A b \in ToSet(s.mBufferList) : s.buffer[b].path = temp
<1> DEFINE e == Empty(positions)
           b == Fresh(e.buffer, FreedBuffer)
           v == Fresh(e.view, FreedView)
           s == CreateBufferAndView(e, NoName, temp, NoLine)
<1>1. /\ Listing(e) /\ e.mBufferList = <<>> /\ e.mViewList = <<>>
      /\ Clean(e) /\ ~SameName(e) /\ ~e.lost
    BY EmptyIsListing
<1> HIDE DEF e
<1>2. Len(<<>>) = 0 /\ ToSet(<<>>) = {} /\ IsInjective(<<>>)
      /\ <<>> \in Seq(Buffer) /\ <<>> \in Seq(View)
    BY DEF ToSet, IsInjective
<1>3. HasRoom(e)
    BY <1>1, <1>2, RoomLeft
<1>4. FindBuffer(e, NoName) = NoBuffer /\ FindBuffer(e, temp) = NoBuffer
    BY <1>1, <1>2, BufferFound
<1>5. temp \in Name /\ NoName \in File \union Directory \union {NoName} /\ NoLine \in Line \union {NoLine}
    BY DEF Name
<1>6. /\ Good(s) /\ s.lost = e.lost /\ (SameName(s) => SameName(e)) /\ (Clean(e) => Clean(s))
    BY <1>1, <1>3, <1>4, <1>5, OpeningKeeps
<1>7. /\ s.mCurView = v /\ s.mBufferList = Append(e.mBufferList, b) /\ s.mViewList = Append(e.mViewList, v)
      /\ s.buffer[b].path = Created(NoName, temp)
    BY <1>1, <1>3, <1>4, <1>5, OpenedAnew
<1>8. b \in Buffer /\ v \in View
    BY <1>1, <1>3, FreshIsFree
<1> HIDE DEF b, v, s
<1>9. /\ ToSet(s.mBufferList) = {b} /\ Len(s.mBufferList) = 1
      /\ Len(s.mViewList) = 1 /\ s.mViewList[1] = v
    <2>1. /\ ToSet(Append(<<>>, b)) = {} \union {b} /\ Len(Append(<<>>, b)) = 0 + 1
          /\ Len(Append(<<>>, v)) = 0 + 1
        <3>1. b \notin ToSet(<<>>) /\ v \notin ToSet(<<>>)
            BY <1>2
        <3>4. ToSet(Append(<<>>, b)) = ToSet(<<>>) \union {b}
            <4>1. Append(<<>>, b) = <<b>>
                OBVIOUS
            <4>2. ToSet(<<b>>) = {b}
                BY DEF ToSet
            <4> QED BY <1>2, <4>1, <4>2
        <3>5. Len(Append(<<>>, b)) = Len(<<>>) + 1
            BY <1>2, <1>8, AppendProperties
        <3>2. /\ ToSet(Append(<<>>, b)) = ToSet(<<>>) \union {b}
              /\ Len(Append(<<>>, b)) = Len(<<>>) + 1
            BY <3>4, <3>5
        <3>3. Len(Append(<<>>, v)) = Len(<<>>) + 1
            BY <1>2, <1>8, <3>1, AppendToList
        <3> QED BY <1>2, <3>2, <3>3
    <2>2. Append(<<>>, v)[1] = v
        OBVIOUS
    <2> QED BY <1>1, <1>7, <2>1, <2>2
<1>10. Created(NoName, temp) = temp
    BY SessionAssumption DEF Created
<1> QED BY <1>1, <1>6, <1>7, <1>9, <1>10 DEF Good, s, e

(* What is appended does not change the first element.                     *)
LEMMA FirstStays ==
    ASSUME NEW S, NEW list \in Seq(S), NEW x \in S, Len(list) >= 1
    PROVE  Len(Append(list, x)) = Len(list) + 1 /\ Append(list, x)[1] = list[1]
OBVIOUS

(* Opening a first and a second file after it.                             *)
LEMMA OpenedSecond ==
    ASSUME NEW s, Listing(s), Clean(s), ~SameName(s), ~s.lost,
           Len(s.mBufferList) = 1, Len(s.mViewList) = 1,
           NEW old \in NewName, \A b \in ToSet(s.mBufferList) : s.buffer[b].path = old,
           NEW name \in File \union {NoName}, NEW temp \in Name \ {old}
    PROVE  LET t == CreateBufferAndView(s, name, temp, NoLine) IN
           /\ Ready(t, s.mViewList[1])
           /\ Len(t.mBufferList) = 2 /\ Len(t.mViewList) = 2
<1> DEFINE b == Fresh(s.buffer, FreedBuffer)
           v == Fresh(s.view, FreedView)
           t == CreateBufferAndView(s, name, temp, NoLine)
<1>1. HasRoom(s)
    <2>1. Len(s.mBufferList) <= 2 /\ Len(s.mViewList) <= 2
        OBVIOUS
    <2> QED BY <2>1, RoomLeft
<1>2. old # name /\ old # temp
    BY SessionAssumption
<1>3. FindBuffer(s, name) = NoBuffer /\ FindBuffer(s, temp) = NoBuffer
    BY <1>2, BufferFound
<1>4. name \in File \union Directory \union {NoName} /\ NoLine \in Line \union {NoLine} /\ temp \in Name
    OBVIOUS
<1>5. Good(t) /\ t.lost = s.lost /\ (SameName(t) => SameName(s)) /\ (Clean(s) => Clean(t))
    BY <1>1, <1>3, <1>4, OpeningKeeps
<1>6. t.mBufferList = Append(s.mBufferList, b) /\ t.mViewList = Append(s.mViewList, v)
    BY <1>1, <1>3, <1>4, OpenedAnew
<1>7. b \in Buffer \ ToSet(s.mBufferList) /\ v \in View \ ToSet(s.mViewList)
    BY <1>1, FreshIsFree
<1> HIDE DEF b, v, t
<1>8. Len(t.mBufferList) = 2 /\ Len(t.mViewList) = 2 /\ t.mViewList[1] = s.mViewList[1]
    <2>1. /\ s.mBufferList \in Seq(Buffer) /\ IsInjective(s.mBufferList)
          /\ s.mViewList \in Seq(View) /\ IsInjective(s.mViewList)
        BY StateFields DEF Listing
    <2>2. Len(Append(s.mBufferList, b)) = Len(s.mBufferList) + 1
        <3>1. b \in Buffer /\ Len(s.mBufferList) >= 1
            BY <1>7
        <3> QED BY <2>1, <3>1, FirstStays
    <2>3. Len(Append(s.mViewList, v)) = Len(s.mViewList) + 1 /\ Append(s.mViewList, v)[1] = s.mViewList[1]
        <3>1. v \in View /\ Len(s.mViewList) >= 1
            BY <1>7
        <3> QED BY <2>1, <3>1, FirstStays
    <2> QED BY <1>6, <2>2, <2>3
<1> QED BY <1>5, <1>8 DEF Ready, Good, t

(* A second file of the command line finds the buffers of the first in place.*)
LEMMA OpenedThird ==
    ASSUME NEW s, NEW v, Ready(s, v), Len(s.mBufferList) = 2, Len(s.mViewList) = 2, NEW f \in File
    PROVE  Ready(Open(s, f), v)
<1> DEFINE b == Fresh(s.buffer, FreedBuffer)
           w == Fresh(s.view, FreedView)
           t == CreateBufferAndView(s, f, NoName, NoLine)
<1>1. Listing(s) /\ HasRoom(s)
    BY RoomLeft DEF Ready
<1>2. /\ f \in File \union Directory \union {NoName} /\ NoLine \in Line \union {NoLine}
      /\ NoName \in Name
    BY DEF Name
<1>3. Good(t) /\ t.lost = s.lost /\ (SameName(t) => SameName(s)) /\ (Clean(s) => Clean(t))
    BY <1>1, <1>2, OpeningKeeps
<1>4. t.mViewList = s.mViewList \/ t.mViewList = Append(s.mViewList, w)
    <2>1. CASE FindBuffer(s, f) = NoBuffer
        BY <1>1, <1>2, <2>1, OpenedAnew
    <2>2. CASE FindBuffer(s, f) # NoBuffer
        BY <1>1, <1>2, <2>2, OpenedAgain
    <2> QED BY <2>1, <2>2
<1>5. w \in View \ ToSet(s.mViewList)
    BY <1>1, FreshIsFree
<1> HIDE DEF b, w, t
<1>6. Len(t.mViewList) >= 2 /\ t.mViewList[1] = s.mViewList[1]
    <2>1. s.mViewList \in Seq(View) /\ IsInjective(s.mViewList)
        BY <1>1, StateFields DEF Listing
    <2>2. Len(Append(s.mViewList, w)) = Len(s.mViewList) + 1 /\ Append(s.mViewList, w)[1] = s.mViewList[1]
        <3>1. w \in View /\ Len(s.mViewList) >= 1
            BY <1>5
        <3> QED BY <2>1, <3>1, FirstStays
    <2> QED BY <1>4, <2>2
<1> QED BY <1>3, <1>6 DEF Ready, Good, Open, t

(* Whatever the command line asks for.                                     *)
LEMMA StartedIsGood ==
    ASSUME NEW positions \in [File -> Line], NEW files \in CommandLine, NEW temp \in TempNames
    PROVE  LET t == Started(positions, files, temp) IN
           Good(t) /\ ~SameName(t) /\ ~t.lost
<1> DEFINE errors == CreateBufferAndView(Empty(positions), NoName, temp[1], NoLine)
           v == errors.mCurView
           opened == IF files = <<>>
                     THEN CreateBufferAndView(errors, NoName, temp[2], NoLine)
                     ELSE FoldLeft(LAMBDA t, f : CreateBufferAndView(t, f, NoName, NoLine),
                                   errors, files)
           c == SetCurrentView(opened, opened.mViewList[2])
           u == DeleteView(c, v)
<1>1. Started(positions, files, temp) = u
    BY DEF Started
<1>2. temp[1] \in NewName /\ temp[2] \in NewName /\ temp[1] # temp[2]
    BY DEF TempNames
<1>3. /\ Listing(errors) /\ Clean(errors) /\ ~SameName(errors) /\ ~errors.lost
      /\ Len(errors.mBufferList) = 1 /\ Len(errors.mViewList) = 1 /\ errors.mViewList[1] = errors.mCurView
      /\ \A b \in ToSet(errors.mBufferList) : errors.buffer[b].path = temp[1]
    BY <1>2, ErrorsFirst
<1> HIDE DEF errors
<1>4. Ready(opened, v)
    <2>1. CASE files = <<>>
        <3>1. temp[2] \in Name \ {temp[1]} /\ NoName \in File \union {NoName}
            BY <1>2 DEF Name
        <3>2. opened = CreateBufferAndView(errors, NoName, temp[2], NoLine)
            BY <2>1
        <3> HIDE DEF opened
        <3> QED BY <1>2, <1>3, <3>1, <3>2, OpenedSecond
    <2>2. CASE files # <<>>
        <3>1. PICK f \in File : opened = Open(errors, f) \/ \E g \in File : opened = Open(Open(errors, f), g)
            <4>1. opened = FoldLeft(LAMBDA t, f : CreateBufferAndView(t, f, NoName, NoLine),
                                    errors, files)
                BY <2>2
            <4> HIDE DEF opened
            <4> QED BY <2>2, <4>1, OpenFiles
        <3> HIDE DEF opened
        <3>2. NoName \in Name \ {temp[1]}
            BY <1>2, SessionAssumption DEF Name
        <3>3. /\ Ready(Open(errors, f), v)
              /\ Len(Open(errors, f).mBufferList) = 2 /\ Len(Open(errors, f).mViewList) = 2
            BY <1>2, <1>3, <3>2, OpenedSecond DEF Open
        <3> QED BY <3>1, <3>3, OpenedThird
    <2> QED BY <2>1, <2>2
<1> HIDE DEF opened, v
<1> DEFINE vl == opened.mViewList
<1>5. /\ Listing(opened) /\ vl \in Seq(View) /\ IsInjective(vl) /\ Len(vl) >= 2 /\ vl[1] = v
    BY <1>4, StateFields DEF Ready, Listing
<1>6. v \in ToSet(vl) /\ vl[2] \in ToSet(vl) /\ v # vl[2] /\ Len(vl) # 1
    <2>1. Len(vl) \in Nat /\ DOMAIN vl = 1..Len(vl)
        BY <1>5, LenProperties
    <2>2. 1 \in 1..Len(vl) /\ 2 \in 1..Len(vl)
        BY <1>5, <2>1
    <2> QED BY <1>5, <2>1, <2>2 DEF ToSet, IsInjective
<1> HIDE DEF vl
<1>7. Good(c) /\ SameButCurrent(c, opened) /\ c.mViewList = vl
    BY <1>5, <1>6, SetCurrentKeeps DEF vl, SameButCurrent
<1> HIDE DEF c
<1>8. Good(u) /\ Removed(u, c, v)
    BY <1>6, <1>7, DeleteViewCloses
<1> HIDE DEF u
<1>9. /\ ToSet(u.mBufferList) \subseteq ToSet(opened.mBufferList)
      /\ c.view[v].buffer \in Buffer /\ c.view[v].buffer \notin ToSet(u.mBufferList)
      /\ c.buffer \in [Buffer -> YBuffer] /\ ToSet(opened.mBufferList) \subseteq Buffer
    <2>1. /\ c.mBufferList \in Seq(Buffer) /\ IsInjective(c.mBufferList)
          /\ c.mBufferList = opened.mBufferList /\ c.buffer \in [Buffer -> YBuffer]
          /\ ToSet(c.mBufferList) \subseteq Buffer
        BY <1>7, StateFields DEF Good, Listing, SameButCurrent
    <2>2. ToSet(u.mBufferList) = ToSet(c.mBufferList) \ {c.view[v].buffer}
        BY <1>8, <2>1, WithoutOne DEF Removed
    <2>3. c.view[v].buffer \in ToSet(c.mBufferList)
        BY <1>6, <1>7 DEF Good, Listing, Matched
    <2> QED BY <2>1, <2>2, <2>3
<1>10. \A b \in ToSet(u.mBufferList) : u.buffer[b] = opened.buffer[b]
    BY <1>7, <1>8, <1>9 DEF Removed, SameButCurrent
<1>11. ~SameName(u)
    BY <1>4, <1>9, <1>10 DEF SameName, Ready
<1>12. ~u.lost
    BY <1>4, <1>7, <1>8, <1>9 DEF Removed, SameButCurrent, Ready, Clean
<1> QED BY <1>1, <1>8, <1>11, <1>12
-----------------------------------------------------------------------------
(* What is lost, and which names there are. The current view and buffer    *)
(* are listed, and belong together.                                        *)
LEMMA CurrentListed ==
    ASSUME NEW s, Good(s)
    PROVE  /\ s.mCurView \in ToSet(s.mViewList) /\ s.mCurBuffer \in ToSet(s.mBufferList)
           /\ s.mCurView \in View /\ s.mCurBuffer \in Buffer
           /\ s.view[s.mCurView].buffer = s.mCurBuffer
           /\ s.buffer[s.mCurBuffer].views = <<s.mCurView>>
<1>1. ToSet(s.mViewList) \subseteq View /\ ToSet(s.mBufferList) \subseteq Buffer
    BY StateFields DEF Good, Listing
<1> QED BY <1>1 DEF Good, Listing, Matched, CurrentIn

(* Only listed buffers are modified.                                       *)
LEMMA ModifiedIsListed ==
    ASSUME NEW s, Listing(s), NEW b \in Buffer, s.buffer[b].isModified
    PROVE  b \in ToSet(s.mBufferList)
BY DEF Listing, Matched, FreedBuffer

(* Two states with the same names.                                         *)
SamePaths(t, s) == \A b \in ToSet(t.mBufferList) : t.buffer[b].path = s.buffer[b].path

(* Without a new buffer or a new name no two buffers get the same name.    *)
LEMMA NamesStayApart ==
    ASSUME NEW s, NEW t, ToSet(t.mBufferList) \subseteq ToSet(s.mBufferList), SamePaths(t, s)
    PROVE  SameName(t) => SameName(s)
BY DEF SameName, SamePaths

(* The program ends: nothing changes but what is lost.                     *)
LEMMA GuiQuitLoses ==
    ASSUME NEW s, Listing(s)
    PROVE  LET u == GuiQuit(s) IN
           /\ SameLists(u, s) /\ u.buffer = s.buffer
           /\ u.lost = (s.lost \/ IsOneBufferModified(s))
           /\ u.mStartPosition = s.mStartPosition
<1>1. s \in SessionState
    BY DEF Listing
<1>2. /\ GuiQuit(s).buffer = s.buffer
      /\ GuiQuit(s).lost = (s.lost \/ IsOneBufferModified(s))
      /\ GuiQuit(s).mStartPosition = s.mStartPosition
    BY <1>1 DEF GuiQuit, SessionState
<1> QED BY <1>2, GuiQuitKeeps

(* exitRequest() loses text only when a buffer is modified, and closes nothing*)
(* before it quits.                                                        *)
LEMMA ExitRequestLoses ==
    ASSUME NEW s, Listing(s)
    PROVE  LET u == ExitRequest(s) IN
           /\ SameLists(u, s) /\ u.buffer = s.buffer
           /\ u.lost = (s.lost \/ IsOneBufferModified(s))
<1> DEFINE n == Len(s.mBufferList)
<1>1. n \in Nat
    BY StateFields, LenProperties DEF Listing
<1>2. PICK t \in SessionState : Kept(t, s) /\ ExitRequest(s) = GuiQuit(t)
    BY <1>1, ExitSteps
<1>3. Listing(t) /\ IsOneBufferModified(t) = IsOneBufferModified(s)
    BY <1>2, SameListsKeeps DEF Kept, IsOneBufferModified
<1>4. /\ SameLists(GuiQuit(t), t) /\ GuiQuit(t).buffer = t.buffer
      /\ GuiQuit(t).lost = (t.lost \/ IsOneBufferModified(t))
    BY <1>3, GuiQuitLoses
<1>5. SameLists(GuiQuit(t), s)
    BY <1>2, <1>4, SameListsSteps DEF Kept
<1> QED BY <1>2, <1>3, <1>4, <1>5 DEF Kept

(* A list of one element.                                                  *)
LEMMA OnlyElement ==
    ASSUME NEW S, NEW list \in Seq(S), Len(list) = 1, NEW x \in ToSet(list), NEW y \in ToSet(list)
    PROVE  x = y
<1>1. ToSet(list) = {list[i] : i \in 1..1}
    BY InList
<1> QED BY <1>1

(* A view that is closed loses its buffer, and no other.                   *)
LEMMA DeleteViewKeeps ==
    ASSUME NEW s, Good(s), NEW v \in ToSet(s.mViewList)
    PROVE  LET u == DeleteView(s, v) IN
           /\ Good(u)
           /\ SameName(u) => SameName(s)
           /\ u.lost => s.lost \/ s.buffer[s.view[v].buffer].isModified
<1> DEFINE u == DeleteView(s, v)
           b == s.view[v].buffer
<1>1. /\ s.mBufferList \in Seq(Buffer) /\ ToSet(s.mBufferList) \subseteq Buffer
      /\ s.mViewList \in Seq(View) /\ s.buffer \in [Buffer -> YBuffer]
      /\ b \in ToSet(s.mBufferList) /\ b \in Buffer /\ Listing(s)
    BY StateFields DEF Good, Listing, Matched
<1>2. CASE Len(s.mViewList) = 1
    <2>1. u = ExitRequest(s)
        BY <1>2, DeleteViewCloses
    <2> HIDE DEF u
    <2>2. SameLists(u, s) /\ u.buffer = s.buffer /\ u.lost = (s.lost \/ IsOneBufferModified(s))
        BY <1>1, <2>1, ExitRequestLoses
    <2>3. Good(u)
        BY <1>1, <2>2, SameListsKeeps DEF Good
    <2>4. SameName(u) => SameName(s)
        BY <2>2 DEF SameName, SameLists
    <2>5. ASSUME NEW c \in Buffer, s.buffer[c].isModified PROVE c = b
        <3>1. c \in ToSet(s.mBufferList)
            BY <1>1, <2>5, ModifiedIsListed
        <3>2. PICK w \in ToSet(s.mViewList) : s.view[w].buffer = c
            BY <1>1, <3>1 DEF Listing, Matched
        <3>3. w = v
            BY <1>1, <1>2, OnlyElement
        <3> QED BY <3>2, <3>3
    <2> QED BY <2>2, <2>3, <2>4, <2>5 DEF IsOneBufferModified, u
<1>3. CASE Len(s.mViewList) # 1
    <2>1. Good(u) /\ Removed(u, s, v)
        BY <1>3, DeleteViewCloses
    <2> HIDE DEF u
    <2>2. ToSet(u.mBufferList) = ToSet(s.mBufferList) \ {b}
        BY <1>1, <2>1, WithoutOne DEF Removed, Listing
    <2>3. SamePaths(u, s)
        BY <1>1, <2>1, <2>2 DEF SamePaths, Removed
    <2>4. u.lost = (s.lost \/ s.buffer[b].isModified)
        BY <2>1 DEF Removed
    <2> QED BY <2>1, <2>2, <2>3, <2>4, NamesStayApart DEF u
<1> QED BY <1>2, <1>3

(* save(): the names stay, unless one is chosen.                           *)
LEMMA SaveKeeps ==
    ASSUME NEW s, Good(s), NEW b \in ToSet(s.mBufferList),
           NEW chosen \in File \union {NoName}, NEW opens \in BOOLEAN
    PROVE  LET r == SaveResult(s, b, chosen, opens) IN
           /\ Good(r.s) /\ r.s.lost = s.lost /\ r.s.mCurView = s.mCurView
           /\ r.s.mViewList = s.mViewList /\ r.s.view = s.view
           /\ r.ok => ~r.s.buffer[b].isModified
<1> DEFINE r == SaveResult(s, b, chosen, opens)
<1>1. Listing(s)
    BY DEF Good
<1>2. Touched(r.s, s, b) /\ (r.ok => ~r.s.buffer[b].isModified)
    BY <1>1, SaveResultProperties
<1> HIDE DEF r
<1>3. Good(r.s)
    BY <1>1, <1>2, SameListsKeeps DEF Touched, Good
<1> QED BY <1>2, <1>3 DEF Touched, SameLists, r
-----------------------------------------------------------------------------
(* The commands. A step that loses nothing and gives no buffer the name of *)
(* another.                                                                *)
Harmless(t, s) == Good(t) /\ (t.lost => s.lost) /\ (SameName(t) => SameName(s))

(* A command that keeps buffers, views and names is harmless.              *)
LEMMA SameListsHarmless ==
    ASSUME NEW s, Good(s), NEW t, SameLists(t, s), t.lost = s.lost, SamePaths(t, s)
    PROVE  Harmless(t, s)
<1>1. Good(t) /\ t.mBufferList = s.mBufferList
    BY SameListsKeeps DEF Good, SameLists
<1> QED BY <1>1, NamesStayApart DEF Harmless

(* Starting again.                                                         *)
LEMMA RestartKeeps ==
    ASSUME Good(session), Restart
    PROVE  Good(session') /\ ~SameName(session') /\ ~session'.lost
<1>1. session.mStartPosition \in [File -> Line]
    BY StateFields DEF Good, Listing
<1>2. PICK files \in CommandLine, temp \in TempNames :
        session' = Started(session.mStartPosition, files, temp)
    BY DEF Restart
<1> QED BY <1>1, <1>2, StartedIsGood

(* Editing and moving.                                                     *)
LEMMA ChangeKeeps ==
    ASSUME Good(session), Change
    PROVE  Harmless(session', session)
<1>1. Listing(session) /\ Current \in ToSet(session.mBufferList)
    BY CurrentListed DEF Good, Current
<1>2. session' = Marked(session, Current, TRUE)
    BY DEF Change, Marked
<1>3. ASSUME NEW m \in BOOLEAN
      PROVE  LET u == Marked(session, Current, m) IN
             /\ SameLists(u, session) /\ u.lost = session.lost
             /\ u.buffer[Current].path = session.buffer[Current].path
             /\ \A c \in Buffer : c # Current => u.buffer[c] = session.buffer[c]
    BY <1>1, MarkKeeps
<1>4. /\ SameLists(session', session) /\ session'.lost = session.lost
      /\ session'.buffer[Current].path = session.buffer[Current].path
      /\ \A c \in Buffer : c # Current => session'.buffer[c] = session.buffer[c]
    BY <1>2, <1>3
<1>5. ToSet(session'.mBufferList) \subseteq Buffer
    BY <1>4, StateFields DEF SameLists
<1> QED BY <1>4, <1>5, SameListsHarmless DEF SamePaths

(* A motion is harmless.                                                   *)
LEMMA MoveKeeps ==
    ASSUME Good(session), NEW line \in Line, Move(line)
    PROVE  Harmless(session', session)
<1>1. Listing(session) /\ Here \in ToSet(session.mViewList)
    BY CurrentListed DEF Good, Here
<1>2. session' = ApplyStartPosition(session, Here, line)
    BY DEF Move, ApplyStartPosition
<1>3. SameLists(session', session) /\ session'.buffer = session.buffer /\ session'.lost = session.lost
    BY <1>1, <1>2, ApplyStartPositionKeeps
<1> QED BY <1>3, SameListsHarmless DEF SamePaths

(* Saving, under another name or not.                                      *)
LEMMA NamedKeeps ==
    ASSUME Good(session), NEW name \in File \union {NoName}
    PROVE  LET t == Named(name) IN
           /\ Good(t) /\ t.lost = session.lost
           /\ t.mCurView = Here /\ t.mCurBuffer = Current
           /\ t.mViewList = session.mViewList /\ t.view = session.view
<1>1. Listing(session) /\ Current \in ToSet(session.mBufferList)
    BY CurrentListed DEF Good, Current
<1>2. CASE name = NoName
    <2>1. Named(name) = session
        BY <1>2 DEF Named
    <2> QED BY <2>1 DEF Here, Current
<1>3. CASE name # NoName
    <2>1. name \in Name
        BY DEF Name
    <2>2. Named(name) = SetPath(session, Current, name)
        BY <1>3 DEF Named
    <2>3. ASSUME NEW n \in Name
          PROVE  LET t == SetPath(session, Current, n) IN
                 SameLists(t, session) /\ t.view = session.view /\ t.lost = session.lost
        BY <1>1, SetPathKeeps
    <2>4. /\ SameLists(Named(name), session) /\ Named(name).view = session.view
          /\ Named(name).lost = session.lost
        BY <2>1, <2>2, <2>3
    <2>5. Good(Named(name))
        BY <1>1, <2>4, SameListsKeeps DEF Good
    <2> QED BY <2>4, <2>5 DEF SameLists, Here, Current
<1> QED BY <1>2, <1>3

(* :w keeps the lists, and loses nothing.                                  *)
LEMMA WriteKeeps ==
    ASSUME Good(session), NEW name \in File \union {NoName},
           NEW chosen \in File \union {NoName}, NEW opens \in BOOLEAN,
           Write(name, chosen, opens)
    PROVE  Good(session') /\ session'.lost = session.lost
<1> DEFINE t == Named(name)
<1>1. Good(t) /\ t.lost = session.lost /\ t.mCurBuffer = Current
    BY NamedKeeps
<1>2. Current \in ToSet(t.mBufferList)
    BY <1>1, CurrentListed
<1>3. session' = SaveResult(t, Current, chosen, opens).s
    BY DEF Write, Save
<1> HIDE DEF t
<1> QED BY <1>1, <1>2, <1>3, SaveKeeps

(* :wq keeps the lists, and loses text only with an exclamation mark.      *)
LEMMA WriteQuitKeeps ==
    ASSUME Good(session), NEW force \in BOOLEAN, NEW name \in File \union {NoName},
           NEW chosen \in File \union {NoName}, NEW opens \in BOOLEAN,
           WriteQuit(force, name, chosen, opens)
    PROVE  Good(session') /\ (session'.lost => session.lost \/ force)
<1> DEFINE t == Named(name)
           r == SaveResult(t, Current, chosen, opens)
<1>1. Good(t) /\ t.lost = session.lost /\ t.mCurView = Here /\ t.mCurBuffer = Current
    BY NamedKeeps
<1>2. Current \in ToSet(t.mBufferList) /\ Here \in ToSet(t.mViewList) /\ t.view[Here].buffer = Current
    BY <1>1, CurrentListed
<1>3. session' = IF force \/ r.ok THEN DeleteView(r.s, Here) ELSE r.s
    BY DEF WriteQuit
<1> HIDE DEF t
<1>4. /\ Good(r.s) /\ r.s.lost = t.lost /\ r.s.mViewList = t.mViewList /\ r.s.view = t.view
      /\ r.ok => ~r.s.buffer[Current].isModified
    BY <1>1, <1>2, SaveKeeps
<1> HIDE DEF r
<1>5. CASE force \/ r.ok
    <2>1. Here \in ToSet(r.s.mViewList) /\ r.s.view[Here].buffer = Current
        BY <1>2, <1>4
    <2>2. /\ Good(DeleteView(r.s, Here))
          /\ DeleteView(r.s, Here).lost => r.s.lost \/ r.s.buffer[r.s.view[Here].buffer].isModified
        BY <1>4, <2>1, DeleteViewKeeps
    <2> QED BY <1>1, <1>3, <1>4, <1>5, <2>1, <2>2
<1>6. CASE ~(force \/ r.ok)
    BY <1>1, <1>3, <1>4, <1>6
<1> QED BY <1>5, <1>6

(* :wall is harmless.                                                      *)
LEMMA WriteAllKeeps ==
    ASSUME Good(session), NEW failing, WriteAll(failing)
    PROVE  Harmless(session', session)
<1>1. Listing(session) /\ session' = SaveAll(session, failing)
    BY DEF Good, WriteAll
<1>2. SavedSome(session', session)
    BY <1>1, SaveAllKeeps
<1>3. ToSet(session'.mBufferList) \subseteq Buffer
    BY <1>2, StateFields DEF SavedSome, SameLists
<1> QED BY <1>2, <1>3, SameListsHarmless DEF SavedSome, SamePaths

(* :wqa and ZZ lose only what was never named.                             *)
LEMMA WriteQuitAllKeeps ==
    ASSUME Good(session), NEW failing, NEW key \in {"wqa", "ZZ"}, WriteQuitAll(failing, key)
    PROVE  /\ Good(session') /\ (SameName(session') => SameName(session))
           /\ session'.lost => \/ session.lost
                               \/ \E b \in Listed : session.buffer[b].isModified
                                                    /\ session.buffer[b].isFileNew
<1> DEFINE s == SaveAll(session, failing)
<1>1. Listing(session)
    BY DEF Good
<1>2. /\ SavedSome(s, session)
      /\ \A b \in ToSet(session.mBufferList) :
           SaveOf(session, b, failing).ok => (s.buffer[b].isModified => s.buffer[b].isFileNew)
    BY <1>1, SaveAllKeeps
<1>3. session' = CASE ~SavesAll(session, failing) -> s
                   [] SavesAll(session, failing) /\ key = "wqa" -> ExitRequest(s)
                   [] SavesAll(session, failing) /\ key = "ZZ" -> GuiQuit(s)
    BY DEF WriteQuitAll
<1> HIDE DEF s
<1>4. ToSet(s.mBufferList) \subseteq Buffer
    BY <1>2, StateFields DEF SavedSome, SameLists
<1>5. Harmless(s, session)
    BY <1>2, <1>4, SameListsHarmless DEF SavedSome, SamePaths
<1>6. CASE ~SavesAll(session, failing)
    BY <1>3, <1>5, <1>6 DEF Harmless
<1>7. CASE SavesAll(session, failing)
    <2>1. session' = ExitRequest(s) \/ session' = GuiQuit(s)
        BY <1>3, <1>7
    <2>2. Listing(s)
        BY <1>5 DEF Harmless, Good
    <2>3. /\ SameLists(session', s) /\ session'.buffer = s.buffer
          /\ session'.lost = (s.lost \/ IsOneBufferModified(s))
        BY <2>1, <2>2, ExitRequestLoses, GuiQuitLoses
    <2>4. Good(session')
        BY <1>5, <2>2, <2>3, SameListsKeeps DEF Harmless, Good
    <2>5. SameName(session') => SameName(s)
        BY <2>3 DEF SameName, SameLists
    <2>6. ASSUME NEW b \in Buffer, s.buffer[b].isModified
          PROVE  /\ b \in Listed
                 /\ session.buffer[b].isModified /\ session.buffer[b].isFileNew
        <3>1. b \in ToSet(session.mBufferList)
            BY <1>2, <2>2, <2>6, ModifiedIsListed DEF SavedSome, SameLists
        <3>2. session.buffer[b].isModified /\ s.buffer[b].isFileNew = session.buffer[b].isFileNew
            BY <1>2, <2>6 DEF SavedSome
        <3>3. CASE b \in ToSave(session)
            BY <1>2, <1>7, <2>6, <3>1, <3>2, <3>3 DEF SavesAll, Listed
        <3>4. CASE b \notin ToSave(session)
            BY <3>1, <3>2, <3>4 DEF ToSave, Listed
        <3> QED BY <3>3, <3>4
    <2>7. session'.lost => session.lost \/ \E b \in Buffer : s.buffer[b].isModified
        BY <1>5, <2>3 DEF IsOneBufferModified, Harmless
    <2> QED BY <1>5, <2>4, <2>5, <2>6, <2>7 DEF Harmless
<1> QED BY <1>6, <1>7
(* Closing: a view, everything, and a buffer. Only what is forced, or      *)
(* :bdelete, loses anything.                                               *)
LEMMA QuitKeeps ==
    ASSUME Good(session), NEW force \in BOOLEAN, Quit(force)
    PROVE  /\ Good(session') /\ (SameName(session') => SameName(session))
           /\ session'.lost => session.lost \/ force
<1>1. /\ Listing(session) /\ Here \in ToSet(session.mViewList) /\ Current \in ToSet(session.mBufferList)
      /\ session.view[Here].buffer = Current /\ session.buffer[Current].views = <<Here>>
    BY CurrentListed DEF Good, Here, Current
<1>2. force \/ ~session.buffer[Current].isModified
    <2>1. Len(<<Here>>) = 1 /\ ~(1 > 1)
        OBVIOUS
    <2> QED BY <1>1, <2>1 DEF Quit, Modified
<1>3. CASE session' = DeleteView(session, Here)
    BY <1>1, <1>2, <1>3, DeleteViewKeeps
<1>4. CASE Len(session.mBufferList) = 1 /\ session' = ExitRequest(session)
    <2>1. /\ SameLists(session', session) /\ session'.buffer = session.buffer
          /\ session'.lost = (session.lost \/ IsOneBufferModified(session))
        BY <1>1, <1>4, ExitRequestLoses
    <2>2. Good(session') /\ (SameName(session') => SameName(session))
        BY <1>1, <2>1, SameListsKeeps DEF Good, SameName, SameLists
    <2>3. ASSUME NEW b \in Buffer, session.buffer[b].isModified PROVE b = Current
        <3>1. b \in ToSet(session.mBufferList) /\ session.mBufferList \in Seq(Buffer)
            BY <1>1, <2>3, ModifiedIsListed, StateFields DEF Listing
        <3> QED BY <1>1, <1>4, <3>1, OnlyElement
    <2> QED BY <1>2, <2>1, <2>2, <2>3 DEF IsOneBufferModified
<1> QED BY <1>3, <1>4 DEF Quit

(* :qall keeps the lists, and loses text only with an exclamation mark.    *)
LEMMA QuitAllKeeps ==
    ASSUME Good(session), NEW force \in BOOLEAN, QuitAll(force)
    PROVE  /\ Good(session') /\ (SameName(session') => SameName(session))
           /\ session'.lost => session.lost \/ force
<1>1. Listing(session) /\ session' = ExitRequest(session) /\ (force \/ ~IsOneBufferModified(session))
    BY DEF Good, QuitAll
<1>2. /\ SameLists(session', session) /\ session'.buffer = session.buffer
      /\ session'.lost = (session.lost \/ IsOneBufferModified(session))
    BY <1>1, ExitRequestLoses
<1>3. Good(session')
    BY <1>1, <1>2, SameListsKeeps DEF Good
<1>4. SameName(session') => SameName(session)
    BY <1>2 DEF SameName, SameLists
<1> QED BY <1>1, <1>2, <1>3, <1>4

(* :bdelete keeps the lists, and gives no buffer a name.                   *)
LEMMA BufferDeleteKeeps ==
    ASSUME Good(session), BufferDelete
    PROVE  Good(session') /\ (SameName(session') => SameName(session))
<1>1. Current \in ToSet(session.mBufferList) /\ session' = RemoveBuffer(session, Current)
    BY CurrentListed DEF Current, BufferDelete
<1>2. PICK v \in ToSet(session.mViewList) : session' = DeleteView(session, v)
    BY <1>1, RemoveBufferCloses
<1> QED BY <1>2, DeleteViewKeeps

(* Going to another view.                                                  *)
LEMMA GotoViewKeeps ==
    ASSUME Good(session), NEW which \in {"first", "last", "next", "previous"}, GotoView(which)
    PROVE  Harmless(session', session)
<1>1. PICK v \in ToSet(session.mViewList) : session' = SetCurrentView(session, v)
    <2>1. PICK v \in {PrevView(session), NextView(session), Head(session.mViewList), Last(session.mViewList)} :
            session' = SetCurrentView(session, v)
        <3>1. CASE which = "first"
            BY <3>1 DEF GotoView
        <3>2. CASE which = "last"
            BY <3>2 DEF GotoView
        <3>3. CASE which = "next"
            BY <3>3 DEF GotoView
        <3>4. CASE which = "previous"
            BY <3>4 DEF GotoView
        <3> QED BY <3>1, <3>2, <3>3, <3>4
    <2> QED BY <2>1, ViewsToGoTo
<1>2. Good(session') /\ SameButCurrent(session', session)
    BY <1>1, SetCurrentKeeps DEF Good
<1> QED BY <1>2 DEF Harmless, SameButCurrent, SameName

(* Reading the file again.                                                 *)
LEMMA LostKeeps ==
    ASSUME NEW s, Good(s), NEW l \in BOOLEAN
    PROVE  LET t == [s EXCEPT !.lost = l] IN
           SameLists(t, s) /\ t.lost = l /\ t.buffer = s.buffer
<1>1. s \in SessionState
    BY DEF Good, Listing
<1> DEFINE t == [s EXCEPT !.lost = l]
<1>2. /\ t \in SessionState /\ t.lost = l /\ t.buffer = s.buffer /\ t.view = s.view
      /\ t.mBufferList = s.mBufferList /\ t.mViewList = s.mViewList
      /\ t.mCurView = s.mCurView /\ t.mCurBuffer = s.mCurBuffer
    BY <1>1 DEF SessionState
<1> HIDE DEF t
<1> QED BY <1>2 DEF SameLists, t

(* clearText() marks a buffer modified; load() gives it its name again and *)
(* marks it saved.                                                         *)
Cleared(s, b, l) == [Marked(s, b, TRUE) EXCEPT !.lost = l]
ReadAgain(s, b) == Marked(SetPath(s, b, s.buffer[b].path), b, FALSE)

(* Clearing the text of a buffer changes its lines alone, which may lose   *)
(* it.                                                                     *)
LEMMA ClearedKeeps ==
    ASSUME NEW s, Good(s), NEW b \in ToSet(s.mBufferList), NEW l \in BOOLEAN
    PROVE  LET t == Cleared(s, b, l) IN
           /\ Good(t) /\ SameLists(t, s) /\ SamePaths(t, s) /\ t.lost = l
           /\ t.buffer[b].path = s.buffer[b].path
<1> DEFINE m == Marked(s, b, TRUE)
           t == [m EXCEPT !.lost = l]
<1>1. Listing(s) /\ b \in Buffer /\ ToSet(s.mBufferList) \subseteq Buffer
    <2>1. ToSet(s.mBufferList) \subseteq Buffer
        BY StateFields DEF Good, Listing
    <2> QED BY <2>1 DEF Good
<1>2. ASSUME NEW x \in BOOLEAN
      PROVE  LET u == Marked(s, b, x) IN
             /\ SameLists(u, s) /\ u.buffer[b].path = s.buffer[b].path
             /\ \A c \in Buffer : c # b => u.buffer[c] = s.buffer[c]
    BY <1>1, MarkKeeps
<1>3. /\ SameLists(m, s) /\ m.buffer[b].path = s.buffer[b].path
      /\ \A c \in Buffer : c # b => m.buffer[c] = s.buffer[c]
    BY <1>2
<1> HIDE DEF m
<1>4. Good(m)
    BY <1>3, SameListsKeeps DEF Good
<1>5. SameLists(t, m) /\ t.lost = l /\ t.buffer = m.buffer
    BY <1>4, LostKeeps
<1> HIDE DEF t
<1>6. Good(t)
    BY <1>4, <1>5, SameListsKeeps DEF Good
<1>7. SameLists(t, s)
    BY <1>3, <1>5, SameListsSteps
<1>8. ASSUME NEW c \in ToSet(t.mBufferList) PROVE t.buffer[c].path = s.buffer[c].path
    <2>1. c \in Buffer
        BY <1>1, <1>7 DEF SameLists
    <2> QED BY <1>3, <1>5, <2>1
<1>9. Cleared(s, b, l) = t
    BY DEF Cleared, t, m
<1> QED BY <1>3, <1>5, <1>6, <1>7, <1>8, <1>9 DEF SamePaths

(* Reading the file of a buffer again changes its lines alone.             *)
LEMMA ReadAgainKeeps ==
    ASSUME NEW s, Good(s), NEW b \in ToSet(s.mBufferList)
    PROVE  LET t == ReadAgain(s, b) IN
           Good(t) /\ SameLists(t, s) /\ SamePaths(t, s) /\ t.lost = s.lost
<1> DEFINE name == s.buffer[b].path
           p == SetPath(s, b, name)
           m == Marked(p, b, FALSE)
<1>1. Listing(s) /\ b \in Buffer /\ ToSet(s.mBufferList) \subseteq Buffer /\ name \in Name
    <2>1. s.buffer \in [Buffer -> YBuffer] /\ ToSet(s.mBufferList) \subseteq Buffer
        BY StateFields DEF Good, Listing
    <2> QED BY <2>1 DEF Good, YBuffer
<1>2. /\ SameLists(p, s) /\ p.buffer[b].path = name /\ p.lost = s.lost
      /\ \A c \in Buffer : c # b => p.buffer[c] = s.buffer[c]
    <2> HIDE DEF name
    <2> QED BY <1>1, SetPathKeeps
<1> HIDE DEF p
<1>3. Good(p) /\ b \in ToSet(p.mBufferList)
    BY <1>1, <1>2, SameListsKeeps DEF Good, SameLists
<1>4. ASSUME NEW x \in BOOLEAN
      PROVE  LET u == Marked(p, b, x) IN
             /\ SameLists(u, p) /\ u.buffer[b].path = p.buffer[b].path /\ u.lost = p.lost
             /\ \A c \in Buffer : c # b => u.buffer[c] = p.buffer[c]
    BY <1>3, MarkKeeps DEF Good
<1>5. /\ SameLists(m, p) /\ m.buffer[b].path = p.buffer[b].path /\ m.lost = p.lost
      /\ \A c \in Buffer : c # b => m.buffer[c] = p.buffer[c]
    BY <1>4
<1> HIDE DEF m
<1>6. Good(m)
    BY <1>3, <1>5, SameListsKeeps DEF Good
<1>7. SameLists(m, s)
    BY <1>2, <1>5, SameListsSteps
<1>8. ASSUME NEW c \in ToSet(m.mBufferList) PROVE m.buffer[c].path = s.buffer[c].path
    <2>1. c \in Buffer
        BY <1>1, <1>7 DEF SameLists
    <2> QED BY <1>2, <1>5, <2>1
<1>9. ReadAgain(s, b) = m
    BY DEF ReadAgain, m, p
<1> QED BY <1>2, <1>5, <1>6, <1>7, <1>8, <1>9 DEF SamePaths

(* :e of the same file keeps the lists, and loses text only with an        *)
(* exclamation mark.                                                       *)
LEMMA ReloadKeeps ==
    ASSUME Good(session), NEW force \in BOOLEAN, Reload(force)
    PROVE  /\ Good(session') /\ (SameName(session') => SameName(session))
           /\ session'.lost => session.lost \/ force
<1> DEFINE s == SaveYzisInfo(session, Here)
           name == s.buffer[Current].path
           l == s.lost \/ Modified
           c == [s EXCEPT !.buffer[Current].isModified = TRUE, !.lost = @ \/ Modified]
           loaded == IF name = NoName THEN c
                     ELSE [SetPath(c, Current, name) EXCEPT !.buffer[Current].isModified = FALSE]
           line == GetStartPosition(loaded, name, NoLine)
<1>1. /\ Listing(session) /\ Here \in ToSet(session.mViewList) /\ Here \in View
      /\ Current \in ToSet(session.mBufferList) /\ Current \in Buffer
    BY CurrentListed DEF Good, Here, Current
<1>2. session' = ApplyStartPosition(loaded, Here, line)
    BY DEF Reload
<1>3. SameLists(s, session) /\ s.buffer = session.buffer /\ s.lost = session.lost
    BY <1>1, SaveYzisInfoKeeps
<1> HIDE DEF s
<1>4. Good(s) /\ Here \in ToSet(s.mViewList) /\ Current \in ToSet(s.mBufferList)
    BY <1>1, <1>3, SameListsKeeps DEF Good, SameLists
<1>5. line \in Line
    <2> HIDE DEF loaded
    <2> QED BY StartPosition
<1>6. l \in BOOLEAN
    <2>1. session.buffer \in [Buffer -> YBuffer] /\ session.lost \in BOOLEAN
        BY <1>1, StateFields DEF Listing
    <2> QED BY <1>1, <1>3, <2>1 DEF Modified, YBuffer
<1>7. c = Cleared(s, Current, l)
    <2>1. s \in SessionState
        BY <1>4 DEF Good, Listing
    <2> QED BY <2>1 DEF Cleared, Marked, SessionState
<1> HIDE DEF l, c
<1>8. /\ Good(c) /\ SameLists(c, s) /\ SamePaths(c, s) /\ c.lost = l
      /\ c.buffer[Current].path = name
    BY <1>4, <1>6, <1>7, ClearedKeeps
<1>9. Current \in ToSet(c.mBufferList)
    BY <1>4, <1>8 DEF SameLists
<1>10. Good(loaded) /\ SameLists(loaded, c) /\ SamePaths(loaded, c) /\ loaded.lost = c.lost
    <2>1. CASE name = NoName
        <3>1. loaded = c /\ c \in SessionState
            BY <1>8, <2>1 DEF Good, Listing
        <3> HIDE DEF loaded
        <3> QED BY <1>8, <3>1, SameListsSteps DEF SamePaths
    <2>2. CASE name # NoName
        <3>1. loaded = ReadAgain(c, Current)
            BY <1>8, <2>2 DEF ReadAgain, Marked
        <3> HIDE DEF loaded
        <3> QED BY <1>8, <1>9, <3>1, ReadAgainKeeps
    <2> QED BY <2>1, <2>2
<1> HIDE DEF loaded, line, name
<1>11. Here \in ToSet(loaded.mViewList)
    BY <1>4, <1>8, <1>10 DEF SameLists
<1>12. /\ SameLists(session', loaded) /\ session'.buffer = loaded.buffer
       /\ session'.lost = loaded.lost
    BY <1>2, <1>5, <1>10, <1>11, ApplyStartPositionKeeps DEF Good
<1>13. Good(session')
    BY <1>10, <1>12, SameListsKeeps DEF Good
<1>14. SameName(session') => SameName(session)
    <2>1. session'.mBufferList = session.mBufferList
        BY <1>3, <1>8, <1>10, <1>12 DEF SameLists
    <2>2. SamePaths(session', session)
        BY <1>3, <1>8, <1>10, <1>12, <2>1 DEF SamePaths, SameLists
    <2> QED BY <2>1, <2>2, NamesStayApart
<1>15. session'.lost => session.lost \/ force
    BY <1>3, <1>8, <1>10, <1>12 DEF Reload, l
<1> QED BY <1>13, <1>14, <1>15

(* Opening.                                                                *)
LEMMA EditKeeps ==
    ASSUME Good(session), NEW force \in BOOLEAN, NEW name \in File \union Directory,
           NEW line \in Line \union {NoLine}, Edit(force, name, line)
    PROVE  Harmless(session', session)
<1>1. /\ Listing(session) /\ session' = CreateBufferAndView(session, name, NoName, line)
      /\ FindBuffer(session, name) = NoBuffer => HasRoom(session)
    BY DEF Good, Edit
<1>2. name \in File \union Directory \union {NoName} /\ name # NoName /\ NoName \in Name
    BY SessionAssumption DEF Name
<1> QED BY <1>1, <1>2, OpeningKeeps DEF Harmless

(* :new is harmless.                                                       *)
LEMMA NewKeeps ==
    ASSUME Good(session), New
    PROVE  Harmless(session', session)
<1>1. PICK temp \in UnusedNames(session) : session' = CreateBufferAndView(session, NoName, temp, NoLine)
    BY DEF New
<1>2. /\ Listing(session) /\ temp \in Name /\ FindBuffer(session, temp) = NoBuffer
      /\ FindBuffer(session, NoName) = NoBuffer => HasRoom(session)
      /\ NoName \in File \union Directory \union {NoName} /\ NoLine \in Line \union {NoLine}
    BY DEF Good, New, UnusedNames, Name
<1> QED BY <1>1, <1>2, OpeningKeeps DEF Harmless
-----------------------------------------------------------------------------
(* What a step must have been that loses text, or gives two buffers one    *)
(* name.                                                                   *)
Asked ==
    \/ Quit(TRUE) \/ QuitAll(TRUE) \/ Reload(TRUE) \/ AnyWriteQuit(TRUE)
    \/ BufferDelete
    \/ /\ \E failing \in SUBSET File, key \in {"wqa", "ZZ"} : WriteQuitAll(failing, key)
       /\ \E b \in Listed : session.buffer[b].isModified /\ session.buffer[b].isFileNew

Renamed ==
    \/ \E name \in File \union {NoName} :
         LET P(chosen, opens) == Write(name, chosen, opens) IN AnyOf(P)
    \/ AnyWriteQuit(FALSE) \/ AnyWriteQuit(TRUE)

StepKeeps ==
    /\ Good(session')
    /\ session'.lost /\ ~session.lost => Asked
    /\ SameName(session') /\ ~SameName(session) => Renamed

(* Every command keeps what the theorems below need, one step per command. *)
LEMMA Steps ==
    ASSUME Good(session), [Next]_vars
    PROVE  StepKeeps
<1>1. CASE UNCHANGED vars
    BY <1>1 DEF vars, StepKeeps
<1>2. CASE Restart
    BY <1>2, RestartKeeps DEF StepKeeps
<1>3. CASE Change
    BY <1>3, ChangeKeeps DEF StepKeeps, Harmless
<1>4. ASSUME NEW line \in Line, Move(line) PROVE StepKeeps
    BY <1>4, MoveKeeps DEF StepKeeps, Harmless
<1>5. ASSUME NEW name \in File \union {NoName}, NEW chosen \in File \union {NoName},
             NEW opens \in BOOLEAN, Write(name, chosen, opens)
      PROVE  StepKeeps
    <2>1. Renamed
        BY <1>5 DEF Renamed, AnyOf
    <2> QED BY <1>5, <2>1, WriteKeeps DEF StepKeeps
<1>6. ASSUME NEW force \in BOOLEAN, NEW name \in File \union {NoName},
             NEW chosen \in File \union {NoName}, NEW opens \in BOOLEAN,
             WriteQuit(force, name, chosen, opens)
      PROVE  StepKeeps
    <2>1. AnyWriteQuit(force)
        BY <1>6 DEF AnyWriteQuit, AnyOf
    <2>2. CASE force = TRUE
        BY <1>6, <2>1, <2>2, WriteQuitKeeps DEF StepKeeps, Asked, Renamed
    <2>3. CASE force = FALSE
        BY <1>6, <2>1, <2>3, WriteQuitKeeps DEF StepKeeps, Renamed
    <2> QED BY <2>2, <2>3
<1>7. ASSUME NEW failing \in SUBSET File, WriteAll(failing) PROVE StepKeeps
    BY <1>7, WriteAllKeeps DEF StepKeeps, Harmless
<1>8. ASSUME NEW failing \in SUBSET File, NEW key \in {"wqa", "ZZ"}, WriteQuitAll(failing, key)
      PROVE  StepKeeps
    BY <1>8, WriteQuitAllKeeps DEF StepKeeps, Asked
<1>9. ASSUME NEW force \in BOOLEAN, Quit(force) PROVE StepKeeps
    <2>1. CASE force = TRUE
        BY <1>9, <2>1, QuitKeeps DEF StepKeeps, Asked
    <2>2. CASE force = FALSE
        BY <1>9, <2>2, QuitKeeps DEF StepKeeps
    <2> QED BY <2>1, <2>2
<1>10. ASSUME NEW force \in BOOLEAN, QuitAll(force) PROVE StepKeeps
    <2>1. CASE force = TRUE
        BY <1>10, <2>1, QuitAllKeeps DEF StepKeeps, Asked
    <2>2. CASE force = FALSE
        BY <1>10, <2>2, QuitAllKeeps DEF StepKeeps
    <2> QED BY <2>1, <2>2
<1>11. ASSUME NEW which \in {"first", "last", "next", "previous"}, GotoView(which)
       PROVE  StepKeeps
    BY <1>11, GotoViewKeeps DEF StepKeeps, Harmless
<1>12. CASE BufferDelete
    BY <1>12, BufferDeleteKeeps DEF StepKeeps, Asked
<1>13. ASSUME NEW force \in BOOLEAN, Reload(force) PROVE StepKeeps
    <2>1. CASE force = TRUE
        BY <1>13, <2>1, ReloadKeeps DEF StepKeeps, Asked
    <2>2. CASE force = FALSE
        BY <1>13, <2>2, ReloadKeeps DEF StepKeeps
    <2> QED BY <2>1, <2>2
<1>14. ASSUME NEW force \in BOOLEAN, NEW name \in File \union Directory,
              NEW line \in Line \union {NoLine}, Edit(force, name, line)
       PROVE  StepKeeps
    BY <1>14, EditKeeps DEF StepKeeps, Harmless
<1>15. CASE New
    BY <1>15, NewKeeps DEF StepKeeps, Harmless
<1> QED BY <1>1, <1>2, <1>3, <1>4, <1>5, <1>6, <1>7, <1>8, <1>9, <1>10, <1>11, <1>12,
           <1>13, <1>14, <1>15 DEF Next

(* The invariant holds from the start.                                     *)
THEOREM ListsAgree == Spec => []Good(session)
<1>1. Init => Good(session)
    <2> SUFFICES ASSUME Init PROVE Good(session)
        OBVIOUS
    <2>1. [f \in File |-> 0] \in [File -> Line]
        BY SessionAssumption DEF Line
    <2>2. PICK files \in CommandLine, temp \in TempNames :
            session = Started([f \in File |-> 0], files, temp)
        BY DEF Init
    <2> QED BY <2>1, <2>2, StartedIsGood
<1>2. Good(session) /\ [Next]_vars => Good(session)'
    BY Steps DEF StepKeeps, Good, Listing, Matched, CurrentIn
<1> QED BY <1>1, <1>2, PTL DEF Spec

(* Whatever was opened, saved and closed, with any number of files: every  *)
(* buffer has its view and every view its buffer, the current ones are     *)
(* alive and belong together, and :bnext is undone by :bprevious.          *)
THEOREM ViewsAreSoundHolds == Spec => []ViewsAreSound
<1>1. Good(session) => ViewsAreSound
    <2> SUFFICES ASSUME Good(session) PROVE ViewsAreSound
        OBVIOUS
    <2>1. TypeOK /\ CurrentIsAlive
        BY DEF Good, Listing, TypeOK, CurrentIn, CurrentIsAlive
    <2>2. \A v : <<v>> # <<>> /\ ToSet(<<v>>) = {v}
        BY DEF ToSet
    <2>3. ViewsMatch
        <3>1. ASSUME NEW b \in Listed
              PROVE  /\ session.buffer[b].state = "active" /\ session.buffer[b].views # <<>>
                     /\ \A v \in ToSet(session.buffer[b].views) :
                          v \in ToSet(session.mViewList) /\ session.view[v].buffer = b
            <4>1. PICK w \in ToSet(session.mViewList) :
                    session.buffer[b].views = <<w>> /\ session.view[w].buffer = b
                BY DEF Good, Listing, Matched, Listed
            <4>2. <<w>> # <<>> /\ ToSet(<<w>>) = {w}
                BY <2>2
            <4>3. session.buffer[b].state = "active"
                BY DEF Good, Listing, Matched, Listed
            <4> QED BY <4>1, <4>2, <4>3
        <3>2. \A v \in ToSet(session.mViewList) : session.view[v].buffer \in Listed
            BY DEF Good, Listing, Matched, Listed
        <3> QED BY <3>1, <3>2 DEF ViewsMatch
    <2>4. NextThenPrevious
        BY NextIsUndone DEF NextThenPrevious
    <2> QED BY <2>1, <2>3, <2>4 DEF ViewsAreSound
<1> QED BY <1>1, ListsAgree, PTL

(* Text nobody saved is lost only by a command that was told not to mind,  *)
(* by :bdelete, and by :wqa and ZZ when a buffer was never named.          *)
THEOREM LossIsAskedForHolds == Spec => LossIsAskedFor
<1>1. Good(session) /\ [Next]_vars => [session'.lost /\ ~session.lost => Asked]_vars
    BY Steps DEF StepKeeps
<1> QED BY <1>1, ListsAgree, PTL DEF Spec, LossIsAskedFor, Asked

(* Two buffers get one name only by saving under the name of the other.    *)
THEOREM OneBufferPerFileHolds == Spec => OneBufferPerFile
<1>1. Good(session) /\ [Next]_vars => [SameName(session') /\ ~SameName(session) => Renamed]_vars
    BY Steps DEF StepKeeps
<1> QED BY <1>1, ListsAgree, PTL DEF Spec, OneBufferPerFile, Renamed
-----------------------------------------------------------------------------
(* What is remembered of what is closed. exitRequest() keeps the position  *)
(* of every buffer, as no two have one name.                               *)
LEMMA ExitRemembers ==
    ASSUME NEW s, Listing(s), ~SameName(s), NEW v \in ToSet(s.mViewList),
           s.buffer[s.view[v].buffer].path \in File
    PROVE  ExitRequest(s).mStartPosition[s.buffer[s.view[v].buffer].path] = s.view[v].line
<1> DEFINE list == s.mBufferList
           n == Len(list)
           Path(i) == s.buffer[list[i]].path
<1>1. /\ s \in SessionState /\ list \in Seq(Buffer) /\ n \in Nat /\ DOMAIN list = 1..n
      /\ IsInjective(list)
    BY StateFields, LenProperties DEF Listing
<1>2. \A i \in 1..n : list[i] \in ToSet(list)
    BY <1>1 DEF ToSet
<1>3. PICK g \in [0..n -> SessionState] :
             /\ \A i \in 0..n : Kept(g[i], s)
             /\ \A i \in 1..n : g[i] = SaveYzisInfo(g[i - 1], FirstView(g[i - 1], list[i]))
             /\ ExitRequest(s) = GuiQuit(g[n])
    BY ExitSteps
<1>4. ASSUME NEW i \in 1..n
      PROVE  LET w == FirstView(s, list[i]) IN
             g[i].mStartPosition = IF Path(i) \in File
                                   THEN [g[i - 1].mStartPosition EXCEPT ![Path(i)] = s.view[w].line]
                                   ELSE g[i - 1].mStartPosition
    <2> DEFINE t == g[i - 1]
               w == FirstView(s, list[i])
    <2>1. i - 1 \in 0..n
        BY <1>1
    <2>2. Kept(t, s) /\ t \in SessionState
        BY <1>3, <2>1
    <2>3. g[i] = SaveYzisInfo(t, FirstView(t, list[i]))
        BY <1>3
    <2> HIDE DEF t
    <2>4. /\ w \in ToSet(s.mViewList) /\ s.view[w].buffer = list[i] /\ w \in View
        <3>1. ToSet(s.mViewList) \subseteq View
            BY <1>1, StateFields
        <3> QED BY <1>2, <3>1, FirstViewIsListed
    <2>5. FirstView(t, list[i]) = w /\ t.buffer = s.buffer /\ t.view = s.view
        BY <2>2 DEF Kept, FirstView
    <2> HIDE DEF w
    <2>6. g[i] = [t EXCEPT !.mStartPosition = Remembered(t, w)]
        BY <2>2, <2>3, <2>4, <2>5, SavedPosition
    <2>7. g[i].mStartPosition = Remembered(t, w)
        BY <2>2, <2>6 DEF SessionState
    <2> QED BY <2>4, <2>5, <2>7 DEF Remembered, t, w
<1>5. ASSUME NEW i \in 1..n, NEW j \in 1..n, i # j, Path(i) \in File
      PROVE  Path(i) # Path(j)
    <2>1. list[i] # list[j]
        BY <1>1, <1>5 DEF IsInjective
    <2>2. Path(i) # NoName
        BY <1>5, SessionAssumption
    <2> QED BY <1>2, <2>1, <2>2 DEF SameName
<1>6. \A i \in 0..n : g[i].mStartPosition \in [File -> Line]
    BY <1>3, StateFields
<1> DEFINE Done(k) == \A i \in 1..k : Path(i) \in File =>
                        g[k].mStartPosition[Path(i)] = s.view[FirstView(s, list[i])].line
           S == {k \in Nat : k <= n => Done(k)}
<1> HIDE DEF n, Path
<1>7. ASSUME NEW k \in Nat, k + 1 <= n, Done(k) PROVE Done(k + 1)
    <2>1. k + 1 \in 1..n /\ (k + 1) - 1 = k /\ k \in 0..n
        BY <1>1, <1>7
    <2>2. g[k + 1].mStartPosition = IF Path(k + 1) \in File
             THEN [g[k].mStartPosition EXCEPT ![Path(k + 1)] = s.view[FirstView(s, list[k + 1])].line]
             ELSE g[k].mStartPosition
        BY <1>4, <2>1
    <2>3. g[k].mStartPosition \in [File -> Line]
        BY <1>6, <2>1
    <2> SUFFICES ASSUME NEW i \in 1..k + 1, Path(i) \in File
                 PROVE  g[k + 1].mStartPosition[Path(i)] = s.view[FirstView(s, list[i])].line
        OBVIOUS
    <2>4. CASE i = k + 1
        BY <2>2, <2>3, <2>4
    <2>5. CASE i # k + 1
        <3>1. i \in 1..k /\ i \in 1..n
            BY <1>1, <1>7, <2>5
        <3>2. Path(i) # Path(k + 1)
            BY <1>5, <2>1, <2>5, <3>1
        <3>3. g[k].mStartPosition[Path(i)] = s.view[FirstView(s, list[i])].line
            BY <1>7, <3>1
        <3> QED BY <2>2, <2>3, <3>2, <3>3
    <2> QED BY <2>4, <2>5
<1>8. Done(0)
    OBVIOUS
<1> HIDE DEF Done
<1>9. 0 \in S /\ \A k \in Nat : k \in S => k + 1 \in S
    <2>1. \A k \in Nat : k \in S => k + 1 \in S
        <3> SUFFICES ASSUME NEW k \in Nat, k \in S, k + 1 <= n PROVE Done(k + 1)
            OBVIOUS
        <3>1. k <= n
            BY <1>1
        <3> QED BY <1>7, <3>1
    <2> QED BY <1>8, <2>1
<1> HIDE DEF S
<1>10. Done(n)
    <2>1. Nat \subseteq S
        BY <1>9, SetInduction
    <2> QED BY <1>1, <2>1 DEF S
<1>11. s.view[v].buffer \in ToSet(list) /\ s.buffer[s.view[v].buffer].views = <<v>>
    BY DEF Listing, Matched
<1>12. PICK i \in 1..n : list[i] = s.view[v].buffer
    BY <1>1, <1>11 DEF ToSet
<1>13. FirstView(s, list[i]) = v
    <2>1. s.buffer[list[i]].views = <<FirstView(s, list[i])>>
        BY <1>11, <1>12, FirstViewIsListed
    <2> QED BY <1>11, <1>12, <2>1
<1>14. g[n].mStartPosition[s.buffer[s.view[v].buffer].path] = s.view[v].line
    BY <1>10, <1>12, <1>13 DEF Done, Path
<1>15. ExitRequest(s).mStartPosition = g[n].mStartPosition
    <2>1. n \in 0..n
        BY <1>1
    <2>2. ExitRequest(s) = GuiQuit(g[n]) /\ g[n] \in SessionState
        BY <1>3, <2>1 DEF n
    <2> QED BY <2>2 DEF GuiQuit, SessionState
<1> QED BY <1>14, <1>15

(* deleteView() keeps the position of the view it closes.                  *)
LEMMA DeleteViewRemembers ==
    ASSUME NEW s, Good(s), s.running, ~SameName(s), NEW w \in ToSet(s.mViewList),
           NEW v \in ToSet(s.mViewList), s.buffer[s.view[v].buffer].path \in File
    PROVE  LET u == DeleteView(s, w) IN
           ~u.running \/ u.view[v].buffer # s.view[v].buffer =>
             u.mStartPosition[s.buffer[s.view[v].buffer].path] = s.view[v].line
<1> DEFINE u == DeleteView(s, w)
<1>1. CASE Len(s.mViewList) = 1
    <2>1. u = ExitRequest(s)
        BY <1>1, DeleteViewCloses
    <2> HIDE DEF u
    <2> QED BY <2>1, ExitRemembers DEF Good, u
<1>2. CASE Len(s.mViewList) # 1
    <2>1. Removed(u, s, w)
        BY <1>2, DeleteViewCloses
    <2> HIDE DEF u
    <2>2. /\ s.view \in [View -> YView] /\ v \in View /\ w \in View
          /\ s.mStartPosition \in [File -> Line]
        BY StateFields DEF Good, Listing
    <2>3. u.running = s.running /\ (v # w => u.view[v] = s.view[v])
        BY <2>1, <2>2 DEF Removed
    <2>4. CASE v = w
        <3>1. u.mStartPosition = Remembered(s, v)
            BY <2>1, <2>4 DEF Removed
        <3> QED BY <2>2, <3>1 DEF Remembered, u
    <2>5. CASE v # w
        BY <2>3, <2>5 DEF u
    <2> QED BY <2>4, <2>5
<1> QED BY <1>1, <1>2

(* Whatever is closed by :q, :qa or :bd is remembered: where the cursor of *)
(* a view was that goes is the saved position of its file.                 *)
THEOREM ClosedAreRememberedHolds == Spec => ClosedAreRemembered
<1> DEFINE Closing == \E force \in BOOLEAN : Quit(force) \/ QuitAll(force) \/ BufferDelete
           Forgotten == \E v \in ToSet(session.mViewList) :
             LET b == session.view[v].buffer
                 name == session.buffer[b].path
             IN  /\ name \in File /\ ~SameName(session)
                 /\ ~session'.running \/ session'.view[v].buffer # b
                 /\ session'.mStartPosition[name] # session.view[v].line
<1>1. ASSUME Good(session), Forgotten, Closing PROVE FALSE
    <2> HIDE DEF Forgotten, Closing
    <2>1. session.running /\ Listing(session)
        BY <1>1 DEF Closing, Quit, QuitAll, BufferDelete, Good
    <2>2. \/ session' = ExitRequest(session)
          \/ \E w \in ToSet(session.mViewList) : session' = DeleteView(session, w)
        <3>1. Here \in ToSet(session.mViewList) /\ Current \in ToSet(session.mBufferList)
            BY <1>1, CurrentListed DEF Here, Current
        <3>2. BufferDelete => \E w \in ToSet(session.mViewList) : session' = DeleteView(session, w)
            BY <1>1, <3>1, RemoveBufferCloses DEF BufferDelete
        <3> QED BY <1>1, <3>1, <3>2 DEF Closing, Quit, QuitAll
    <2>3. PICK v \in ToSet(session.mViewList) :
            /\ session.buffer[session.view[v].buffer].path \in File /\ ~SameName(session)
            /\ ~session'.running \/ session'.view[v].buffer # session.view[v].buffer
            /\ session'.mStartPosition[session.buffer[session.view[v].buffer].path] # session.view[v].line
        BY <1>1 DEF Forgotten
    <2>4. CASE session' = ExitRequest(session)
        BY <2>1, <2>3, <2>4, ExitRemembers
    <2>5. CASE \E w \in ToSet(session.mViewList) : session' = DeleteView(session, w)
        BY <1>1, <2>1, <2>3, <2>5, DeleteViewRemembers
    <2> QED BY <2>2, <2>4, <2>5
<1> HIDE DEF Forgotten, Closing
<1>2. Good(session) /\ [Next]_vars => [Forgotten => ~Closing]_vars
    BY <1>1
<1> QED BY <1>2, ListsAgree, PTL DEF Spec, ClosedAreRemembered, Forgotten, Closing
=============================================================================

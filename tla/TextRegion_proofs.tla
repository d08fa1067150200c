------------------------- MODULE TextRegion_proofs -------------------------
(***************************************************************************)
(* What insertRegion, deleteRegion and dataRegion (TextRegion) do to a     *)
(* text, for texts and lines of any length over any characters: an         *)
(* insertion is undone by deleting its region (InsertIsUndone), a deletion *)
(* by inserting the data that was copied before it (DeleteIsUndone), and   *)
(* lines behind the ones an operation works on make no difference to it.   *)
(* First strings cut in two and texts cut in three; then each primitive;   *)
(* then their types, which hold wherever the cursor is.                    *)
(***************************************************************************)
EXTENDS TextRegion, SequenceTheorems, TLAPS

(* Left and Mid (QString::left, QString::mid) of a length that may be      *)
(* beyond the end: their lengths and their characters.                     *)
LEMMA LeftMidProperties ==
    ASSUME NEW C, NEW s \in Seq(C), NEW n \in Nat
    PROVE  /\ Left(s, n) \in Seq(C)
           /\ Mid(s, n) \in Seq(C)
           /\ Len(Left(s, n)) = IF n <= Len(s) THEN n ELSE Len(s)
           /\ Len(Mid(s, n)) = IF n <= Len(s) THEN Len(s) - n ELSE 0
           /\ \A i \in 1..Len(Left(s, n)) : Left(s, n)[i] = s[i]
           /\ \A i \in 1..Len(Mid(s, n)) : Mid(s, n)[i] = s[n + i]
<1>1. Len(s) \in Nat /\ \A i \in 1..Len(s) : s[i] \in C
    BY LenProperties, ElementOfSeq
<1>2. CASE n <= Len(s)
    <2>1. Left(s, n) = SubSeq(s, 1, n) /\ Mid(s, n) = SubSeq(s, n + 1, Len(s))
        BY <1>1, <1>2 DEF Left, Mid
    <2>2. \A i \in 1..n : s[i] \in C
        BY <1>1, <1>2
    <2>3. \A i \in (n + 1)..Len(s) : s[i] \in C
        BY <1>1, <1>2
    <2>4. /\ SubSeq(s, 1, n) \in Seq(C)
          /\ Len(SubSeq(s, 1, n)) = IF 1 <= n THEN n - 1 + 1 ELSE 0
          /\ \A i \in 1..n - 1 + 1 : SubSeq(s, 1, n)[i] = s[1 + i - 1]
        BY <2>2, SubSeqProperties
    <2>5. /\ SubSeq(s, n + 1, Len(s)) \in Seq(C)
          /\ Len(SubSeq(s, n + 1, Len(s))) = IF n + 1 <= Len(s) THEN Len(s) - (n + 1) + 1 ELSE 0
          /\ \A i \in 1..Len(s) - (n + 1) + 1 : SubSeq(s, n + 1, Len(s))[i] = s[(n + 1) + i - 1]
        BY <2>3, <1>1, SubSeqProperties
    <2> DEFINE l == Left(s, n)
               m == Mid(s, n)
               k == Len(s)
    <2>6. /\ l \in Seq(C) /\ m \in Seq(C) /\ Len(l) = n /\ Len(m) = k - n
          /\ \A i \in 1..n : l[i] = s[1 + i - 1]
          /\ \A i \in 1..k - (n + 1) + 1 : m[i] = s[(n + 1) + i - 1]
        BY <2>1, <2>4, <2>5, <1>1, <1>2
    <2>7. k \in Nat /\ n <= k
        BY <1>1, <1>2
    <2> HIDE DEF l, m, k
    <2>8. \A i \in 1..n : l[i] = s[i]
        BY <2>6
    <2>9. \A i \in 1..k - n : m[i] = s[n + i]
        BY <2>6, <2>7
    <2> QED BY <2>6, <2>7, <2>8, <2>9 DEF l, m, k
<1>3. CASE ~(n <= Len(s))
    <2>1. Left(s, n) = s /\ Mid(s, n) = SubSeq(s, n + 1, Len(s))
        BY <1>1, <1>3 DEF Left, Mid
    <2>2. Mid(s, n) = <<>>
        BY <2>1, <1>1, <1>3, SubSeqEmpty
    <2> QED BY <2>1, <2>2, <1>1, <1>3, EmptySeq
<1> QED BY <1>2, <1>3

(* A string is what is left of a column and what is right of it.           *)
LEMMA LeftMid ==
    ASSUME NEW C, NEW s \in Seq(C), NEW n \in Nat
    PROVE  Left(s, n) \o Mid(s, n) = s
<1> DEFINE l == Left(s, n)
           m == Mid(s, n)
           t == l \o m
<1>1. /\ l \in Seq(C) /\ m \in Seq(C)
      /\ Len(l) = IF n <= Len(s) THEN n ELSE Len(s)
      /\ Len(m) = IF n <= Len(s) THEN Len(s) - n ELSE 0
      /\ \A i \in 1..Len(l) : l[i] = s[i]
      /\ \A i \in 1..Len(m) : m[i] = s[n + i]
    BY LeftMidProperties
<1>2. Len(s) \in Nat
    BY LenProperties
<1>3. /\ t \in Seq(C) /\ Len(t) = Len(l) + Len(m)
      /\ \A i \in 1..Len(l) + Len(m) : t[i] = IF i <= Len(l) THEN l[i] ELSE m[i - Len(l)]
    BY <1>1, ConcatProperties
<1> HIDE DEF l, m, t
<1>4. Len(t) = Len(s)
    BY <1>1, <1>2, <1>3
<1>5. \A i \in 1..Len(t) : t[i] = s[i]
    BY <1>1, <1>2, <1>3
<1>6. t = s
    BY <1>3, <1>4, <1>5, SeqEqual
<1> QED BY <1>6 DEF t, l, m

(* A concatenation cut where its parts meet.                               *)
LEMMA LeftMidOfConcat ==
    ASSUME NEW C, NEW s \in Seq(C), NEW t \in Seq(C), NEW n \in Nat, n = Len(s)
    PROVE  Left(s \o t, n) = s /\ Mid(s \o t, n) = t
<1> DEFINE u == s \o t
           l == Left(u, n)
           m == Mid(u, n)
<1>1. /\ u \in Seq(C) /\ Len(u) = n + Len(t)
      /\ \A i \in 1..n + Len(t) : u[i] = IF i <= n THEN s[i] ELSE t[i - n]
    BY ConcatProperties
<1>2. /\ l \in Seq(C) /\ m \in Seq(C)
      /\ Len(l) = IF n <= Len(u) THEN n ELSE Len(u)
      /\ Len(m) = IF n <= Len(u) THEN Len(u) - n ELSE 0
      /\ \A i \in 1..Len(l) : l[i] = u[i]
      /\ \A i \in 1..Len(m) : m[i] = u[n + i]
    BY <1>1, LeftMidProperties
<1>3. Len(t) \in Nat
    BY LenProperties
<1> HIDE DEF u, l, m
<1>4. Len(l) = n /\ Len(m) = Len(t)
    BY <1>1, <1>2, <1>3
<1>5. \A i \in 1..Len(l) : l[i] = s[i]
    BY <1>1, <1>2, <1>3, <1>4
<1>6. \A i \in 1..Len(m) : m[i] = t[i]
    <2> TAKE i \in 1..Len(m)
    <2>1. n + i \in 1..n + Len(t) /\ ~(n + i <= n) /\ (n + i) - n = i
        BY <1>3, <1>4
    <2>2. m[i] = u[n + i] /\ u[n + i] = t[(n + i) - n]
        BY <1>1, <1>2, <2>1
    <2> QED BY <2>1, <2>2
<1>7. l = s
    BY <1>2, <1>4, <1>5, SeqEqual
<1>8. m = t
    BY <1>2, <1>4, <1>6, SeqEqual
<1> QED BY <1>7, <1>8 DEF l, m, u

(* Left of a part of the left part.                                        *)
LEMMA LeftOfLonger ==
    ASSUME NEW C, NEW s \in Seq(C), NEW t \in Seq(C), NEW u \in Seq(C), NEW n \in Nat, n = Len(s)
    PROVE  /\ Left(s \o t \o u, n) = s
           /\ Mid(s \o t \o u, n + Len(t)) = u
<1>1. s \o t \in Seq(C) /\ t \o u \in Seq(C) /\ Len(s \o t) = n + Len(t) /\ Len(t) \in Nat
    BY ConcatProperties, LenProperties
<1>2. (s \o t) \o u = s \o (t \o u)
    BY ConcatAssociative
<1> DEFINE st == s \o t
           tu == t \o u
<1> HIDE DEF st, tu
<1>3. Left(s \o tu, n) = s
    BY <1>1, LeftMidOfConcat DEF tu, st
<1>4. Mid(st \o u, n + Len(t)) = u
    <2>1. st \in Seq(C) /\ n + Len(t) \in Nat /\ n + Len(t) = Len(st)
        BY <1>1 DEF st
    <2> QED BY <2>1, LeftMidOfConcat
<1> QED BY <1>2, <1>3, <1>4 DEF tu, st

(* A function on 1..k is a sequence of length k.                           *)
LEMMA FunctionIsSeq ==
    ASSUME NEW S, NEW k \in Nat, NEW f \in [1..k -> S]
    PROVE  f \in Seq(S) /\ Len(f) = k
<1>1. f \in Seq(S)
    BY SeqDef
<1>2. DOMAIN f = 1..k /\ DOMAIN f = 1..Len(f) /\ Len(f) \in Nat
    BY <1>1, LenProperties
<1> DEFINE n == Len(f)
<1>3. 1..k = 1..n /\ n \in Nat
    BY <1>2
<1> HIDE DEF n
<1>4. n = k
    <2>1. \A i \in Nat \ {0} : i <= k <=> i <= n
        BY <1>3
    <2>2. CASE k > n
        BY <2>1, <2>2, <1>3
    <2>3. CASE n > k
        BY <2>1, <2>3, <1>3
    <2> QED BY <2>2, <2>3, <1>3
<1> QED BY <1>1, <1>4 DEF n

-----------------------------------------------------------------------------
(* A sequence made of three parts: each is found where it was put.         *)
ConsistsOf(t, b, l, a, S) ==
    /\ t \in Seq(S)
    /\ Len(t) = Len(b) + Len(l) + Len(a)
    /\ SubSeq(t, 1, Len(b)) = b
    /\ SubSeq(t, Len(b) + Len(l) + 1, Len(t)) = a
    /\ \A i \in 1..Len(b) : t[i] = b[i]
    /\ \A i \in 1..Len(l) : t[Len(b) + i] = l[i]
    /\ \A i \in 1..Len(a) : t[Len(b) + Len(l) + i] = a[i]

(* Three texts put together have the three as their parts.                 *)
LEMMA ThreeParts ==
    ASSUME NEW S, NEW b \in Seq(S), NEW l \in Seq(S), NEW a \in Seq(S)
    PROVE  ConsistsOf(b \o l \o a, b, l, a, S)
<1> DEFINE t == b \o l \o a
           bl == b \o l
           m == Len(b)
           n == Len(l)
           k == Len(a)
<1>1. m \in Nat /\ n \in Nat /\ k \in Nat
    BY LenProperties
<1>2. /\ bl \in Seq(S) /\ Len(bl) = m + n
      /\ \A i \in 1..m + n : bl[i] = IF i <= m THEN b[i] ELSE l[i - m]
    BY ConcatProperties
<1>3. /\ bl \o a \in Seq(S) /\ Len(bl \o a) = Len(bl) + k
      /\ \A i \in 1..Len(bl) + k : (bl \o a)[i] = IF i <= Len(bl) THEN bl[i] ELSE a[i - Len(bl)]
    BY <1>2, ConcatProperties
<1>4. Left(t, m) = b /\ Mid(t, m + n) = a
    BY LeftOfLonger, <1>1
<1>5. t = bl \o a
    OBVIOUS
<1> HIDE DEF bl, t
<1>6. /\ t \in Seq(S) /\ Len(t) = m + n + k
      /\ \A i \in 1..m + n + k : t[i] = IF i <= m + n THEN bl[i] ELSE a[i - (m + n)]
    BY <1>2, <1>3, <1>5
<1> HIDE DEF m, n, k
<1>7. SubSeq(t, 1, m) = b /\ SubSeq(t, m + n + 1, Len(t)) = a
    BY <1>1, <1>4, <1>6 DEF Left, Mid
<1>8. \A i \in 1..m : t[i] = b[i]
    BY <1>1, <1>2, <1>6
<1>9. ASSUME NEW i \in 1..n PROVE t[m + i] = l[i]
    <2>1. m + i \in 1..m + n /\ m + i \in 1..m + n + k /\ m + i <= m + n /\ ~(m + i <= m) /\ (m + i) - m = i
        BY <1>1
    <2> QED BY <2>1, <1>2, <1>6
<1>10. ASSUME NEW i \in 1..k PROVE t[m + n + i] = a[i]
    <2>1. /\ m + n + i \in 1..m + n + k /\ ~(m + n + i <= m + n)
          /\ (m + n + i) - (m + n) = i
        BY <1>1
    <2> QED BY <2>1, <1>6
<1> QED BY <1>6, <1>7, <1>8, <1>9, <1>10 DEF m, n, k, t, ConsistsOf

(* The parts of a text around one line, or around several.                 *)
IsCut(t, p, q, S) ==
    /\ SubSeq(t, 1, p) \in Seq(S) /\ Len(SubSeq(t, 1, p)) = p
    /\ SubSeq(t, p + 1, q) \in Seq(S) /\ Len(SubSeq(t, p + 1, q)) = q - p
    /\ SubSeq(t, q + 1, Len(t)) \in Seq(S)
    /\ Len(SubSeq(t, q + 1, Len(t))) = Len(t) - q
    /\ \A i \in 1..p : SubSeq(t, 1, p)[i] = t[i]
    /\ \A i \in 1..q - p : SubSeq(t, p + 1, q)[i] = t[p + i]
    /\ \A i \in 1..Len(t) - q : SubSeq(t, q + 1, Len(t))[i] = t[q + i]
    /\ t = SubSeq(t, 1, p) \o SubSeq(t, p + 1, q) \o SubSeq(t, q + 1, Len(t))

(* A text cut at two places consists of the three parts it falls into.     *)
LEMMA CutText ==
    ASSUME NEW S, NEW t \in Seq(S), NEW p \in 0..Len(t), NEW q \in p..Len(t)
    PROVE  IsCut(t, p, q, S)
<1> DEFINE n == Len(t)
           b == SubSeq(t, 1, p)
           l == SubSeq(t, p + 1, q)
           a == SubSeq(t, q + 1, n)
<1>1. n \in Nat /\ p \in Nat /\ q \in Nat /\ p <= q /\ q <= n
    BY LenProperties
<1>2. \A i \in 1..n : t[i] \in S
    BY ElementOfSeq
<1>3. /\ \A i \in 1..p : t[i] \in S
      /\ \A i \in (p + 1)..q : t[i] \in S
      /\ \A i \in (q + 1)..n : t[i] \in S
    BY <1>1, <1>2
<1>4. /\ b \in Seq(S) /\ Len(b) = IF 1 <= p THEN p - 1 + 1 ELSE 0
      /\ \A i \in 1..p - 1 + 1 : b[i] = t[1 + i - 1]
    BY <1>1, <1>3, SubSeqProperties
<1>5. /\ l \in Seq(S) /\ Len(l) = IF p + 1 <= q THEN q - (p + 1) + 1 ELSE 0
      /\ \A i \in 1..q - (p + 1) + 1 : l[i] = t[(p + 1) + i - 1]
    BY <1>1, <1>3, SubSeqProperties
<1>6. /\ a \in Seq(S) /\ Len(a) = IF q + 1 <= n THEN n - (q + 1) + 1 ELSE 0
      /\ \A i \in 1..n - (q + 1) + 1 : a[i] = t[(q + 1) + i - 1]
    BY <1>1, <1>3, SubSeqProperties
<1> HIDE DEF n, b, l, a
<1>7. Len(b) = p /\ Len(l) = q - p /\ Len(a) = n - q
    BY <1>1, <1>4, <1>5, <1>6
<1>8. /\ \A i \in 1..p : b[i] = t[i]
      /\ \A i \in 1..q - p : l[i] = t[p + i]
      /\ \A i \in 1..n - q : a[i] = t[q + i]
    <2>1. \A i \in 1..p : b[i] = t[i]
        BY <1>1, <1>4
    <2>2. \A i \in 1..q - p : l[i] = t[p + i]
        BY <1>1, <1>5
    <2>3. \A i \in 1..n - q : a[i] = t[q + i]
        BY <1>1, <1>6
    <2> QED BY <2>1, <2>2, <2>3
<1>9. t = b \o l \o a
    <2> DEFINE u == b \o l \o a
    <2>1. /\ u \in Seq(S) /\ Len(u) = p + (q - p) + (n - q)
          /\ \A i \in 1..p : u[i] = b[i]
          /\ \A i \in 1..q - p : u[p + i] = l[i]
          /\ \A i \in 1..n - q : u[p + (q - p) + i] = a[i]
        <3>0. ConsistsOf(u, b, l, a, S)
            BY <1>4, <1>5, <1>6, ThreeParts
        <3> HIDE DEF u
        <3>1. /\ u \in Seq(S)
              /\ Len(u) = Len(b) + Len(l) + Len(a)
              /\ SubSeq(u, 1, Len(b)) = b
              /\ SubSeq(u, Len(b) + Len(l) + 1, Len(u)) = a
              /\ \A i \in 1..Len(b) : u[i] = b[i]
              /\ \A i \in 1..Len(l) : u[Len(b) + i] = l[i]
              /\ \A i \in 1..Len(a) : u[Len(b) + Len(l) + i] = a[i]
            BY <3>0 DEF ConsistsOf
        <3> QED BY <3>1, <1>7
    <2> HIDE DEF u
    <2>2. Len(u) = n
        BY <1>1, <2>1
    <2>3. ASSUME NEW i \in 1..n PROVE u[i] = t[i]
        <3>1. CASE i <= p
            <4>1. i \in 1..p
                BY <3>1, <1>1
            <4>2. u[i] = b[i] /\ b[i] = t[i]
                BY <4>1, <1>8, <2>1
            <4> QED BY <4>2
        <3>2. CASE p < i /\ i <= q
            <4>1. i - p \in 1..q - p /\ p + (i - p) = i
                BY <3>2, <1>1
            <4> QED BY <4>1, <1>8, <2>1
        <3>3. CASE q < i
            <4>1. i - q \in 1..n - q /\ q + (i - q) = i /\ p + (q - p) + (i - q) = i
                BY <3>3, <1>1
            <4> QED BY <4>1, <1>8, <2>1
        <3> QED BY <3>1, <3>2, <3>3, <1>1
    <2>4. u = t
        BY <2>1, <2>2, <2>3, SeqEqual DEF n
    <2> QED BY <2>4 DEF u
<1> QED BY <1>4, <1>5, <1>6, <1>7, <1>8, <1>9 DEF n, b, l, a, IsCut

-----------------------------------------------------------------------------
(* insertRegion on a line the text has, at a column the line has.          *)
InsertedLines(l, x, data) ==
    IF Len(data) = 1 THEN << Left(l, x) \o data[1] \o Mid(l, x) >>
    ELSE << Left(l, x) \o data[1] >> \o SubSeq(data, 2, Len(data) - 1)
         \o << Last(data) \o Mid(l, x) >>

(* The lines of InsertedLines, one by one.                                 *)
AreInserted(ls, l, x, data, C) ==
    /\ Len(data) \in Nat \ {0}
    /\ ls \in Seq(Seq(C)) /\ Len(ls) = Len(data)
    /\ \A i \in 2..Len(data) - 1 : ls[i] = data[i]
    /\ Len(data) = 1 => ls[1] = Left(l, x) \o data[1] \o Mid(l, x)
    /\ Len(data) # 1 => /\ ls[1] = Left(l, x) \o data[1]
                       /\ ls[Len(data)] = data[Len(data)] \o Mid(l, x)

(* The lines an insertion puts in the place of the line it is made in, one *)
(* by one: as many as there are pieces, the first with what was left of    *)
(* the cursor, the last with what was right of it.                         *)
LEMMA InsertedLinesProperties ==
    ASSUME NEW C, NEW l \in Seq(C), NEW x \in 0..Len(l), NEW data \in Seq(Seq(C)), data # <<>>
    PROVE  AreInserted(InsertedLines(l, x, data), l, x, data, C)
<1> DEFINE ls == InsertedLines(l, x, data)
           n == Len(data)
<1>1. n \in Nat \ {0} /\ \A i \in 1..n : data[i] \in Seq(C)
    BY EmptySeq, LenProperties, ElementOfSeq
<1>2. Left(l, x) \in Seq(C) /\ Mid(l, x) \in Seq(C)
    BY LeftMidProperties
<1>3. CASE n = 1
    <2>1. ls = << Left(l, x) \o data[1] \o Mid(l, x) >>
        BY <1>3 DEF InsertedLines
    <2>2. Left(l, x) \o data[1] \in Seq(C)
        BY <1>1, <1>2, <1>3, ConcatProperties
    <2>3. Left(l, x) \o data[1] \o Mid(l, x) \in Seq(C)
        BY <2>2, <1>2, ConcatProperties
    <2> DEFINE e == Left(l, x) \o data[1] \o Mid(l, x)
    <2> HIDE DEF e, ls
    <2>4. ls = << e >> /\ e \in Seq(C)
        BY <2>1, <2>3 DEF e
    <2>5. ls \in Seq(Seq(C)) /\ Len(ls) = 1 /\ ls[1] = e
        BY <2>4
    <2> QED BY <2>5, <1>1, <1>3 DEF ls, e, AreInserted
<1>4. CASE n # 1
    <2> DEFINE f == Left(l, x) \o data[1]
               g == data[n] \o Mid(l, x)
               mid == SubSeq(data, 2, n - 1)
    <2>1. ls = << f >> \o mid \o << g >>
        BY <1>4 DEF InsertedLines, Last
    <2>2. f \in Seq(C) /\ g \in Seq(C)
        BY <1>1, <1>2, ConcatProperties
    <2>3. \A i \in 2..n - 1 : data[i] \in Seq(C)
        BY <1>1
    <2>4. /\ mid \in Seq(Seq(C)) /\ Len(mid) = IF 2 <= n - 1 THEN (n - 1) - 2 + 1 ELSE 0
          /\ \A i \in 1..(n - 1) - 2 + 1 : mid[i] = data[2 + i - 1]
        BY <1>1, <2>3, SubSeqProperties
    <2> HIDE DEF f, g, mid, ls, n
    <2>5. << f >> \in Seq(Seq(C)) /\ << g >> \in Seq(Seq(C)) /\ Len(<< f >>) = 1 /\ Len(<< g >>) = 1
        BY <2>2
    <2> DEFINE fs == << f >>
               gs == << g >>
    <2>6. fs[1] = f /\ gs[1] = g
        OBVIOUS
    <2>7. fs \in Seq(Seq(C)) /\ gs \in Seq(Seq(C)) /\ Len(fs) = 1 /\ Len(gs) = 1 /\ ls = fs \o mid \o gs
        BY <2>5, <2>1
    <2> HIDE DEF fs, gs
    <2> DEFINE w == fs \o mid \o gs
    <2>13. ConsistsOf(w, fs, mid, gs, Seq(C))
        BY <2>7, <2>4, ThreeParts
    <2>8. /\ w \in Seq(Seq(C))
          /\ Len(w) = Len(fs) + Len(mid) + Len(gs)
          /\ SubSeq(w, 1, Len(fs)) = fs
          /\ SubSeq(w, Len(fs) + Len(mid) + 1, Len(w)) = gs
          /\ \A i \in 1..Len(fs) : w[i] = fs[i]
          /\ \A i \in 1..Len(mid) : w[Len(fs) + i] = mid[i]
          /\ \A i \in 1..Len(gs) : w[Len(fs) + Len(mid) + i] = gs[i]
        BY <2>13 DEF ConsistsOf
    <2>12. ls = w
        BY <2>7
    <2> HIDE DEF w
    <2>9. Len(mid) = n - 2 /\ n >= 2 /\ n \in Nat
        BY <2>4, <1>1, <1>4
    <2>10. /\ Len(ls) = n
           /\ ls[1] = f
           /\ ls[n] = g
        <3>1. 1 \in 1..1 /\ 1 + (n - 2) + 1 = n
            BY <2>9
        <3> QED BY <3>1, <2>6, <2>7, <2>8, <2>9, <2>12
    <2>11. \A i \in 2..n - 1 : ls[i] = data[i]
        <3> TAKE i \in 2..n - 1
        <3>1. /\ i - 1 \in 1..n - 2 /\ 1 + (i - 1) = i /\ 2 + (i - 1) - 1 = i
              /\ i - 1 \in 1..(n - 1) - 2 + 1
            BY <2>9
        <3>2. ls[1 + (i - 1)] = mid[i - 1]
            BY <3>1, <2>7, <2>8, <2>9, <2>12
        <3>3. mid[i - 1] = data[2 + (i - 1) - 1]
            BY <3>1, <2>4
        <3> QED BY <3>1, <3>2, <3>3
    <2> QED BY <2>8, <2>9, <2>10, <2>11, <2>12, <1>1, <1>4 DEF ls, n, f, g, AreInserted
<1> QED BY <1>3, <1>4

(* yzline(n) of a text: the line, or an empty one if there is none.        *)
LEMMA TextlineType ==
    ASSUME NEW C, NEW t \in Seq(Seq(C)), NEW n \in Nat
    PROVE  /\ Textline(t, n) \in Seq(C)
           /\ n < Len(t) => Textline(t, n) = t[n + 1] /\ t[n + 1] \in Seq(C)
           /\ GetLineLength(t, n) \in Nat
<1>1. Len(t) \in Nat
    BY LenProperties
<1>2. CASE n < Len(t)
    <2>1. n + 1 \in 1..Len(t)
        BY <1>1, <1>2
    <2>2. Textline(t, n) = t[n + 1] /\ t[n + 1] \in Seq(C)
        BY <1>2, <2>1, ElementOfSeq DEF Textline, LineCount
    <2> QED BY <2>2, LenProperties DEF GetLineLength
<1>3. CASE ~(n < Len(t))
    <2>1. Textline(t, n) = <<>> /\ <<>> \in Seq(C)
        BY <1>3, EmptySeq DEF Textline, LineCount
    <2> QED BY <2>1, <1>3, LenProperties DEF GetLineLength
<1> QED BY <1>2, <1>3

(* Does the text have the position?                                        *)
InText(t, pos) == LineExists(t, pos.y) /\ ColumnExists(t, pos)

(* The line of a cursor, with the facts about it that the steps need.      *)
HasLine(t, x, y, C) ==
    /\ Len(t) \in Nat /\ y < Len(t)
    /\ t[y + 1] \in Seq(C) /\ x <= Len(t[y + 1]) /\ Len(t[y + 1]) \in Nat

(* insertRegion at a position of the text, with data: never given up, and  *)
(* the text falls into the lines before, the lines made of the data, and   *)
(* the lines after.                                                        *)
LEMMA InsertRegionParts ==
    ASSUME NEW C, NEW t \in Seq(Seq(C)), NEW x \in Nat, NEW y \in Nat, InText(t, Cursor(x, y)),
           NEW data \in Seq(Seq(C)), data # <<>>
    PROVE  /\ HasLine(t, x, y, C)
           /\ ~InsertAborts(t, Cursor(x, y), data)
           /\ InsertRegion(t, Cursor(x, y), data) =
                  SubSeq(t, 1, y) \o InsertedLines(t[y + 1], x, data)
                  \o SubSeq(t, y + 2, Len(t))
<1> DEFINE begin == Cursor(x, y)
<1>0. begin.x = x /\ begin.y = y
    BY DEF Cursor
<1> HIDE DEF begin
<1>6. InText(t, begin)
    BY DEF begin
<1>1. Len(t) \in Nat /\ y < Len(t)
    BY <1>0, <1>6, LenProperties DEF InText, LineExists, LineCount
<1>2. Textline(t, y) = t[y + 1] /\ t[y + 1] \in Seq(C)
    BY <1>0, <1>1, TextlineType
<1>3. x <= Len(t[y + 1]) /\ Len(t[y + 1]) \in Nat
    BY <1>0, <1>2, <1>6, LenProperties DEF InText, ColumnExists, GetLineLength
<1>4. ~InsertAborts(t, begin, data)
    BY <1>0, <1>2, <1>3 DEF InsertAborts, GetLineLength
<1>5. InsertRegion(t, begin, data) =
          SubSeq(t, 1, y) \o InsertedLines(t[y + 1], x, data)
          \o SubSeq(t, y + 2, Len(t))
    BY Zenon, <1>0, <1>6, <1>2, <1>4 DEF InsertRegion, InsertedLines, InText, LineCount
<1> QED BY <1>1, <1>2, <1>3, <1>4, <1>5 DEF HasLine, begin

(* A text is what is before a line, the line, and what is after it.        *)
LEMMA LineCut ==
    ASSUME NEW S, NEW t \in Seq(S), NEW y \in Nat, y < Len(t)
    PROVE  t = SubSeq(t, 1, y) \o << t[y + 1] >> \o SubSeq(t, y + 2, Len(t))
<1>1. Len(t) \in Nat
    BY LenProperties
<1>2. y \in 0..Len(t) /\ y + 1 \in y..Len(t) /\ (y + 1) + 1 = y + 2 /\ (y + 1) - y = 1
    BY <1>1
<1> DEFINE l == SubSeq(t, y + 1, y + 1)
<1>6. IsCut(t, y, y + 1, S)
    BY <1>2, CutText
<1>3. /\ l \in Seq(S) /\ Len(l) = 1
      /\ \A i \in 1..1 : l[i] = t[y + i]
      /\ t = SubSeq(t, 1, y) \o l \o SubSeq(t, y + 2, Len(t))
    BY <1>6, <1>2 DEF IsCut
<1> HIDE DEF l
<1>4. << t[y + 1] >> \in Seq(S) /\ Len(<< t[y + 1] >>) = 1
    <2>1. t[y + 1] \in S
        BY <1>1, ElementOfSeq
    <2> QED BY <2>1
<1>5. l = << t[y + 1] >>
    <2> DEFINE k == << t[y + 1] >>
    <2>1. k \in Seq(S) /\ Len(k) = 1 /\ k[1] = t[y + 1]
        BY <1>4
    <2> HIDE DEF k
    <2>4. \A i \in 1..1 : l[i] = t[y + i]
        BY <1>3
    <2>5. l[1] = k[1]
        BY <2>1, <2>4
    <2>2. \A i \in 1..Len(l) : l[i] = k[i]
        BY <1>3, <2>5
    <2>3. l = k
        BY <1>3, <2>1, <2>2, SeqEqual
    <2> QED BY <2>3 DEF k
<1> QED BY <1>2, <1>3, <1>5

(* insertRegion adds the lines of the data but one, and the position it    *)
(* inserted at is still there.                                             *)
IsInsertion(r, t, x, y, data, C) ==
    LET n == Len(data)
        ls == InsertedLines(t[y + 1], x, data)
    IN  /\ r \in Seq(Seq(C))
        /\ Len(r) = Len(t) + n - 1
        /\ SubSeq(r, 1, y) = SubSeq(t, 1, y)
        /\ SubSeq(r, y + n + 1, Len(r)) = SubSeq(t, y + 2, Len(t))
        /\ r[y + 1] = ls[1]
        /\ r[y + n] = ls[n]
        /\ InText(r, Cursor(x, y))

(* The text after insertRegion at a position it has: its length, the lines *)
(* it shares with the text before, and the two lines at the ends of what   *)
(* was inserted.                                                           *)
LEMMA InsertRegionType ==
    ASSUME NEW C, NEW t \in Seq(Seq(C)), NEW x \in Nat, NEW y \in Nat, InText(t, Cursor(x, y)),
           NEW data \in Seq(Seq(C)), data # <<>>
    PROVE  IsInsertion(InsertRegion(t, Cursor(x, y), data), t, x, y, data, C)
<1> DEFINE r == InsertRegion(t, Cursor(x, y), data)
           l == t[y + 1]
           n == Len(data)
           ls == InsertedLines(l, x, data)
           b == SubSeq(t, 1, y)
           a == SubSeq(t, y + 2, Len(t))
           lf == Left(l, x)
           md == Mid(l, x)
           d == data[1]
<1>0. HasLine(t, x, y, C) /\ r = b \o ls \o a
    BY InsertRegionParts
<1>1. /\ y < Len(t) /\ x <= Len(l) /\ l \in Seq(C) /\ Len(t) \in Nat
      /\ r = b \o ls \o a
    BY <1>0 DEF HasLine
<1>2. x \in 0..Len(l) /\ Len(l) \in Nat
    BY <1>0 DEF HasLine
<1>3. AreInserted(ls, l, x, data, C)
    BY <1>1, <1>2, InsertedLinesProperties
<1>4. /\ n \in Nat \ {0}
      /\ ls \in Seq(Seq(C)) /\ Len(ls) = n
      /\ n = 1 => ls[1] = lf \o d \o md
      /\ n # 1 => ls[1] = lf \o d
    BY <1>3 DEF AreInserted
<1>5. IsCut(t, y, y + 1, Seq(C))
    <2>1. y \in 0..Len(t) /\ y + 1 \in y..Len(t)
        BY <1>1
    <2> QED BY <2>1, CutText
<1>6. /\ b \in Seq(Seq(C)) /\ Len(b) = y
      /\ a \in Seq(Seq(C)) /\ Len(a) = Len(t) - (y + 1)
    <2>1. (y + 1) + 1 = y + 2
        OBVIOUS
    <2> QED BY <1>5, <2>1 DEF IsCut
<1>7. lf \in Seq(C) /\ md \in Seq(C) /\ Len(lf) = x
    BY <1>1, <1>2, LeftMidProperties
<1>8. d \in Seq(C)
    BY <1>4, ElementOfSeq
<1>9. ConsistsOf(b \o ls \o a, b, ls, a, Seq(C))
    BY <1>4, <1>6, ThreeParts
<1> HIDE DEF r, ls, b, a, l, n, lf, md, d
<1>10. /\ r \in Seq(Seq(C))
       /\ Len(r) = y + n + Len(a)
       /\ SubSeq(r, 1, y) = b
       /\ SubSeq(r, y + n + 1, Len(r)) = a
       /\ \A i \in 1..n : r[y + i] = ls[i]
    BY <1>1, <1>4, <1>6, <1>9 DEF ConsistsOf
<1>11. Len(r) = Len(t) + n - 1
    BY <1>1, <1>4, <1>6, <1>10
<1>12. r[y + 1] = ls[1] /\ r[y + n] = ls[n]
    <2>1. 1 \in 1..n /\ n \in 1..n
        BY <1>4
    <2> QED BY <2>1, <1>10
<1>13. Len(ls[1]) >= x /\ Len(ls[1]) \in Nat
    <2>1. /\ lf \o d \in Seq(C) /\ Len(lf \o d) = x + Len(d) /\ Len(d) \in Nat /\ Len(md) \in Nat
        BY <1>7, <1>8, ConcatProperties, LenProperties
    <2> DEFINE ld == lf \o d
    <2>5. ld \in Seq(C) /\ Len(ld) = x + Len(d)
        BY <2>1
    <2> HIDE DEF ld
    <2>6. ld \o md \in Seq(C) /\ Len(ld \o md) = Len(ld) + Len(md)
        BY <1>7, <2>5, ConcatProperties
    <2>2. (lf \o d) \o md \in Seq(C) /\ Len((lf \o d) \o md) = x + Len(d) + Len(md)
        BY <2>5, <2>6 DEF ld
    <2>3. ls[1] = lf \o d \/ ls[1] = (lf \o d) \o md
        BY <1>4
    <2>4. Len(ls[1]) = x + Len(d) \/ Len(ls[1]) = x + Len(d) + Len(md)
        BY <2>1, <2>2, <2>3
    <2> QED BY <2>1, <2>4
<1>14. InText(r, Cursor(x, y))
    <2>1. y < Len(r) /\ Len(r) \in Nat
        BY <1>1, <1>4, <1>11
    <2>2. Textline(r, y) = ls[1]
        BY <2>1, <1>10, <1>12, TextlineType
    <2> QED BY <2>1, <2>2, <1>13
         DEF InText, LineExists, ColumnExists, LineCount, GetLineLength, Cursor
<1> QED BY <1>10, <1>11, <1>12, <1>14 DEF r, ls, b, a, l, n, IsInsertion

(* Deleting from the beginning of a line to somewhere, in a text whose     *)
(* parts are known.                                                        *)
LEMMA DeleteRegionParts ==
    ASSUME NEW C, NEW t \in Seq(Seq(C)), NEW bi, bi.from.x \in Nat, bi.from.y \in Nat,
           InText(t, bi.from),
           EndCursor(bi).x \in Nat, EndCursor(bi).y \in bi.from.y..Len(t) - 1
    PROVE  LET y == bi.from.y e == EndCursor(bi) IN
           /\ y < Len(t) /\ bi.from.x <= Len(t[y + 1])
           /\ t[y + 1] \in Seq(C) /\ t[e.y + 1] \in Seq(C)
           /\ Len(t) \in Nat
           /\ DeleteRegion(t, bi) =
                  SubSeq(t, 1, y) \o << Left(t[y + 1], bi.from.x) \o Mid(t[e.y + 1], e.x) >>
                  \o SubSeq(t, e.y + 2, Len(t))
<1> DEFINE y == bi.from.y
           e == EndCursor(bi)
<1>1. Len(t) \in Nat /\ y < Len(t) /\ e.y \in Nat /\ e.y < Len(t)
    BY LenProperties DEF InText, LineExists, LineCount
<1>2. /\ Textline(t, y) = t[y + 1] /\ t[y + 1] \in Seq(C)
      /\ Textline(t, e.y) = t[e.y + 1] /\ t[e.y + 1] \in Seq(C)
    BY <1>1, TextlineType
<1>3. bi.from.x <= Len(t[y + 1])
    BY <1>2, LenProperties DEF InText, ColumnExists, GetLineLength
<1>4. DeleteRegion(t, bi) =
          SubSeq(t, 1, y) \o << Left(t[y + 1], bi.from.x) \o Mid(t[e.y + 1], e.x) >>
          \o SubSeq(t, e.y + 2, Len(t))
    BY Zenon, <1>2 DEF DeleteRegion, InText, LineCount
<1> QED BY <1>1, <1>2, <1>3, <1>4

(* What undo relies on: the interval insertRegion records, deleted, takes  *)
(* the insertion back, whatever was inserted and wherever in the text      *)
(* (buffer.cpp, insertRegion and deleteRegion; undo.cpp:206-216).          *)
THEOREM InsertIsUndone ==
    ASSUME NEW C, NEW t \in Seq(Seq(C)), NEW x \in Nat, NEW y \in Nat, InText(t, Cursor(x, y)),
           NEW data \in Seq(Seq(C)), data # <<>>
    PROVE  LET begin == Cursor(x, y) IN
           DeleteRegion(InsertRegion(t, begin, data),
                        OpenInterval(begin, AfterInsert(begin, data))) = t
<1> DEFINE begin == Cursor(x, y)
           r == InsertRegion(t, begin, data)
           n == Len(data)
           l == t[y + 1]
           ls == InsertedLines(l, x, data)
           bi == OpenInterval(begin, AfterInsert(begin, data))
           ex == IF n = 1 THEN x + Len(data[1]) ELSE Len(data[n])
           lf == Left(l, x)
           md == Mid(l, x)
           d == data[1]
           dn == data[n]
<1>0. HasLine(t, x, y, C)
    BY InsertRegionParts
<1>1. /\ y < Len(t) /\ x <= Len(l) /\ l \in Seq(C) /\ Len(t) \in Nat
    BY <1>0 DEF HasLine
<1>2. x \in 0..Len(l) /\ Len(l) \in Nat
    BY <1>0 DEF HasLine
<1>3. AreInserted(ls, l, x, data, C) /\ IsInsertion(r, t, x, y, data, C)
    BY <1>1, <1>2, InsertedLinesProperties, InsertRegionType
<1>4. /\ n \in Nat \ {0}
      /\ n = 1 => ls[1] = lf \o d \o md
      /\ n # 1 => ls[1] = lf \o d /\ ls[n] = dn \o md
    BY <1>3 DEF AreInserted
<1>5. /\ r \in Seq(Seq(C))
      /\ Len(r) = Len(t) + n - 1
      /\ SubSeq(r, 1, y) = SubSeq(t, 1, y)
      /\ SubSeq(r, y + n + 1, Len(r)) = SubSeq(t, y + 2, Len(t))
      /\ r[y + 1] = ls[1]
      /\ r[y + n] = ls[n]
      /\ InText(r, begin)
    BY <1>3 DEF IsInsertion
<1>6. bi.from = begin /\ begin.x = x /\ begin.y = y
    BY DEF OpenInterval, Interval, Cursor
<1>7. EndCursor(bi) = Cursor(ex, y + n - 1)
    <2>1. EndCursor(bi) = AfterInsert(begin, data)
        BY DEF OpenInterval, Interval, EndCursor
    <2> QED BY <2>1 DEF AfterInsert, Cursor, Last
<1>8. d \in Seq(C) /\ dn \in Seq(C) /\ Len(d) \in Nat /\ Len(dn) \in Nat
    <2>1. 1 \in 1..n /\ n \in 1..n
        BY <1>4
    <2>2. d \in Seq(C) /\ dn \in Seq(C)
        BY <2>1, ElementOfSeq
    <2> QED BY <2>2, LenProperties
<1>9. lf \in Seq(C) /\ md \in Seq(C) /\ Len(lf) = x /\ lf \o md = l
    BY <1>1, <1>2, LeftMidProperties, LeftMid
<1>10. ex = IF n = 1 THEN x + Len(d) ELSE Len(dn)
    OBVIOUS
<1> HIDE DEF r, ls, bi, lf, md, n, l, ex, d, dn
<1>11. ex \in Nat /\ y + n - 1 \in y..Len(r) - 1 /\ y + n - 1 + 1 = y + n /\ y + n - 1 + 2 = y + n + 1
    <2>1. ex \in Nat
        BY <1>8, <1>10
    <2> DEFINE lt == Len(t)
               lr == Len(r)
    <2>2. lt \in Nat /\ y < lt /\ lr = lt + n - 1 /\ n \in Nat \ {0}
        BY <1>1, <1>4, <1>5
    <2> HIDE DEF lt, lr
    <2>3. y + n - 1 \in y..lr - 1 /\ y + n - 1 + 1 = y + n /\ y + n - 1 + 2 = y + n + 1
        BY <2>2
    <2> QED BY <2>1, <2>3 DEF lr
<1>12. DeleteRegion(r, bi) =
          SubSeq(r, 1, y) \o << Left(r[y + 1], x) \o Mid(r[y + n], ex) >>
          \o SubSeq(r, y + n + 1, Len(r))
    <2>1. EndCursor(bi).x = ex /\ EndCursor(bi).y = y + n - 1
        BY <1>7 DEF Cursor
    <2>2. DeleteRegion(r, bi) =
              SubSeq(r, 1, bi.from.y)
              \o << Left(r[bi.from.y + 1], bi.from.x) \o Mid(r[EndCursor(bi).y + 1], EndCursor(bi).x) >>
              \o SubSeq(r, EndCursor(bi).y + 2, Len(r))
        BY <2>1, <1>5, <1>6, <1>11, DeleteRegionParts
    <2> QED BY <2>1, <2>2, <1>6, <1>11
<1>13. Left(r[y + 1], x) = lf /\ Mid(r[y + n], ex) = md
    <2>1. CASE n = 1
        <3>1. r[y + 1] = lf \o d \o md /\ r[y + n] = lf \o d \o md
            BY <2>1, <1>4, <1>5
        <3>2. Left(lf \o d \o md, x) = lf
            BY <1>8, <1>9, LeftOfLonger
        <3>3. Mid(lf \o d \o md, x + Len(d)) = md
            BY <1>8, <1>9, LeftOfLonger
        <3> QED BY <3>1, <3>2, <3>3, <2>1, <1>10
    <2>2. CASE n # 1
        <3>1. r[y + 1] = lf \o d /\ r[y + n] = dn \o md
            BY <2>2, <1>4, <1>5
        <3>2. Left(lf \o d, x) = lf
            BY <1>8, <1>9, LeftMidOfConcat
        <3>3. Mid(dn \o md, Len(dn)) = md
            BY <1>8, <1>9, LeftMidOfConcat
        <3> QED BY <3>1, <3>2, <3>3, <2>2, <1>10
    <2> QED BY <2>1, <2>2
<1>14. t = SubSeq(t, 1, y) \o << l >> \o SubSeq(t, y + 2, Len(t))
    BY <1>1, LineCut DEF l
<1>15. DeleteRegion(r, bi) = t
    BY <1>5, <1>9, <1>12, <1>13, <1>14
<1> QED BY <1>15 DEF r, bi

(* What dataRegion copies out of an interval inside the text.              *)
AreCopied(data, t, x, y, ex, ey, C) ==
    LET n == ey - y + 1 IN
    /\ data \in Seq(Seq(C)) /\ Len(data) = n /\ data # <<>>
    /\ n = 1 => data[1] = Left(Mid(t[y + 1], x), ex - x)
    /\ n # 1 => data[1] = Mid(t[y + 1], x) /\ data[n] = Left(t[ey + 1], ex)
    /\ \A i \in 2..n - 1 : data[i] = t[y + i]

(* dataRegion of an interval within the text, piece by piece.              *)
LEMMA DataRegionParts ==
    ASSUME NEW C, NEW t \in Seq(Seq(C)), NEW x \in Nat, NEW y \in Nat, InText(t, Cursor(x, y)),
           NEW ex \in Nat, NEW ey \in y..Len(t) - 1, ey > y \/ ex >= x,
           NEW bi, bi.from = Cursor(x, y), EndCursor(bi) = Cursor(ex, ey)
    PROVE  AreCopied(DataRegion(t, bi), t, x, y, ex, ey, C)
<1> DEFINE data == DataRegion(t, bi)
           n == ey - y + 1
           m == Len(t)
<1>1. m \in Nat /\ y < m /\ ey \in Nat /\ ey < m /\ n \in Nat \ {0} /\ ey - y = n - 1
    BY LenProperties DEF InText, LineExists, LineCount, Cursor
<1>2. bi.from.x = x /\ bi.from.y = y /\ EndCursor(bi).x = ex /\ EndCursor(bi).y = ey
    BY DEF Cursor
<1>3. \A k \in Nat : k < m => Textline(t, k) = t[k + 1] /\ t[k + 1] \in Seq(C)
    BY TextlineType
<1>4. Textline(t, y) = t[y + 1] /\ t[y + 1] \in Seq(C)
    BY <1>1, <1>3
<1>5. Textline(t, ey) = t[ey + 1] /\ t[ey + 1] \in Seq(C)
    BY <1>1, <1>3
<1> DEFINE first == Mid(t[y + 1], x)
           piece(k) == IF k = ey THEN Left(Textline(t, k), ex) ELSE Textline(t, k)
<1>6. first \in Seq(C) /\ Len(first) \in Nat
    BY <1>4, LeftMidProperties, LenProperties
<1>7. CASE ey = y
    <2>1. data = << Left(first, ex - x) >>
        BY Zenon, <1>2, <1>4, <1>7 DEF DataRegion
    <2>2. ex - x \in Nat /\ n = 1
        BY <1>7
    <2>3. Left(first, ex - x) \in Seq(C)
        BY <2>2, <1>6, LeftMidProperties
    <2> DEFINE f == Left(first, ex - x)
    <2> HIDE DEF f, data, n, first
    <2>4. data = << f >> /\ f \in Seq(C)
        BY <2>1, <2>3 DEF f
    <2>5. data \in Seq(Seq(C)) /\ Len(data) = 1 /\ data[1] = f /\ data # <<>>
        BY <2>4
    <2> QED BY <2>2, <2>5 DEF AreCopied, f, n, data, first
<1>8. CASE ey # y
    <2> DEFINE rest == [i \in 1..ey - y |-> piece(y + i)]
    <2>1. data = << first >> \o rest \o <<>>
        <3>1. (IF ey < m THEN ey ELSE m - 1) = ey /\ ~(ey > ey)
            BY <1>1
        <3> QED BY Zenon, <3>1, <1>2, <1>4, <1>8 DEF DataRegion, LineCount
    <2>2. \A i \in 1..ey - y : piece(y + i) \in Seq(C)
        <3> TAKE i \in 1..ey - y
        <3>1. y + i \in Nat /\ y + i < m
            BY <1>1
        <3>2. Textline(t, y + i) \in Seq(C)
            BY <3>1, <1>3
        <3>3. Left(Textline(t, y + i), ex) \in Seq(C)
            BY <3>2, LeftMidProperties
        <3> QED BY <3>2, <3>3
    <2>14. ey - y \in Nat
        BY <1>1
    <2>15. \A i \in 1..n - 1 : rest[i] = piece(y + i)
        BY <1>1
    <2> HIDE DEF piece
    <2>3. rest \in [1..ey - y -> Seq(C)]
        BY <2>2
    <2> HIDE DEF rest
    <2>4. rest \in Seq(Seq(C)) /\ Len(rest) = ey - y
        BY <2>3, <2>14, FunctionIsSeq
    <2>5. \A i \in 1..n - 1 : rest[i] = piece(y + i)
        BY <2>15
    <2> DEFINE fs == << first >>
    <2>6. fs \in Seq(Seq(C)) /\ Len(fs) = 1 /\ fs[1] = first
        BY <1>6
    <2> HIDE DEF rest, fs, data, n, first, piece, m
    <2>16. rest \in Seq(Seq(C)) /\ Len(rest) = n - 1 /\ Len(fs) = 1
        BY <2>4, <2>6, <1>1
    <2>17. /\ fs \o rest \in Seq(Seq(C))
           /\ Len(fs \o rest) = Len(fs) + Len(rest)
           /\ \A i \in 1..Len(fs) + Len(rest) :
                  (fs \o rest)[i] = IF i <= Len(fs) THEN fs[i] ELSE rest[i - Len(fs)]
        BY <2>6, <2>16, ConcatProperties
    <2>7. fs \o rest \in Seq(Seq(C)) /\ Len(fs \o rest) = 1 + (n - 1)
          /\ \A i \in 1..1 + (n - 1) : (fs \o rest)[i] = IF i <= 1 THEN fs[i] ELSE rest[i - 1]
        BY <2>16, <2>17
    <2>8. data = fs \o rest
        BY <2>1, <2>7, ConcatEmptySeq DEF fs
    <2>9. n >= 2
        BY <1>1, <1>8 DEF n
    <2>10. data \in Seq(Seq(C)) /\ Len(data) = n /\ data[1] = first /\ data # <<>>
        <3>1. Len(data) = n /\ data \in Seq(Seq(C))
            BY <2>7, <2>8, <1>1
        <3>2. 1 \in 1..1 + (n - 1)
            BY <1>1
        <3>3. data[1] = first
            BY <3>2, <2>6, <2>7, <2>8
        <3>4. data # <<>>
            BY <3>1, <2>9, EmptySeq
        <3> QED BY <3>1, <3>3, <3>4
    <2>11. \A i \in 2..n : data[i] = piece(y + (i - 1))
        <3> TAKE i \in 2..n
        <3>1. i \in 1..1 + (n - 1) /\ ~(i <= 1) /\ i - 1 \in 1..n - 1
            BY <2>9, <1>1
        <3> QED BY <3>1, <2>5, <2>7, <2>8
    <2>12. data[n] = Left(t[ey + 1], ex)
        <3>1. n \in 2..n /\ y + (n - 1) = ey
            BY <2>9, <1>1 DEF n
        <3> QED BY <3>1, <2>11, <1>5 DEF piece
    <2>13. \A i \in 2..n - 1 : data[i] = t[y + i]
        <3> TAKE i \in 2..n - 1
        <3>1. i \in 2..n /\ y + (i - 1) # ey /\ y + (i - 1) \in Nat /\ y + (i - 1) < m
              /\ y + (i - 1) + 1 = y + i
            BY <2>9, <1>1 DEF n
        <3>2. Textline(t, y + (i - 1)) = t[y + i]
            BY <3>1, <1>3
        <3> QED BY <3>1, <3>2, <2>11 DEF piece
    <2> QED BY <2>9, <2>10, <2>12, <2>13 DEF AreCopied, n, data, first
<1> QED BY <1>7, <1>8

(* Cutting twice from the left is cutting once.                            *)
LEMMA MidMid ==
    ASSUME NEW C, NEW s \in Seq(C), NEW x \in Nat, NEW k \in Nat
    PROVE  Mid(Mid(s, x), k) = Mid(s, x + k)
<1> DEFINE m == Mid(s, x)
           p == Mid(m, k)
           q == Mid(s, x + k)
           n == Len(s)
<1>1. n \in Nat
    BY LenProperties
<1>2. m \in Seq(C) /\ Len(m) = (IF x <= n THEN n - x ELSE 0) /\ \A i \in 1..Len(m) : m[i] = s[x + i]
    BY LeftMidProperties
<1> HIDE DEF m, n
<1>3. p \in Seq(C) /\ Len(p) = (IF k <= Len(m) THEN Len(m) - k ELSE 0) /\ \A i \in 1..Len(p) : p[i] = m[k + i]
    BY <1>2, LeftMidProperties
<1>4. x + k \in Nat
    OBVIOUS
<1>5. q \in Seq(C) /\ Len(q) = (IF x + k <= n THEN n - (x + k) ELSE 0) /\ \A i \in 1..Len(q) : q[i] = s[(x + k) + i]
    BY <1>4, LeftMidProperties DEF n
<1> HIDE DEF p, q
<1>6. Len(p) = Len(q)
    BY <1>1, <1>2, <1>3, <1>5
<1>7. \A i \in 1..Len(p) : p[i] = q[i]
    <2> TAKE i \in 1..Len(p)
    <2>1. i \in Nat /\ i >= 1 /\ i <= Len(p) /\ Len(p) \in Nat /\ Len(m) \in Nat
        BY <1>2, <1>3, LenProperties
    <2>2. k + i \in 1..Len(m)
        BY <2>1, <1>3
    <2>3. x + (k + i) = (x + k) + i
        BY <2>1
    <2>4. p[i] = m[k + i] /\ m[k + i] = s[x + (k + i)]
        BY <2>2, <1>2, <1>3
    <2>5. q[i] = s[(x + k) + i]
        BY <1>5, <1>6
    <2> QED BY <2>3, <2>4, <2>5
<1>8. p = q
    BY <1>3, <1>5, <1>6, <1>7, SeqEqual
<1> QED BY <1>8 DEF p, q, m

(* What deleteRegion leaves of a text when the interval is inside it.      *)
IsDeletion(r, t, x, y, ex, ey, C) ==
    /\ r \in Seq(Seq(C))
    /\ Len(r) = Len(t) - (ey - y)
    /\ SubSeq(r, 1, y) = SubSeq(t, 1, y)
    /\ SubSeq(r, y + 2, Len(r)) = SubSeq(t, ey + 2, Len(t))
    /\ r[y + 1] = Left(t[y + 1], x) \o Mid(t[ey + 1], ex)
    /\ InText(r, Cursor(x, y))

(* The text after deleteRegion within the text: its length, the lines it   *)
(* shares with the text before, and the line the two ends were merged      *)
(* into.                                                                   *)
LEMMA DeleteRegionType ==
    ASSUME NEW C, NEW t \in Seq(Seq(C)), NEW x \in Nat, NEW y \in Nat, InText(t, Cursor(x, y)),
           NEW ex \in Nat, NEW ey \in y..Len(t) - 1,
           NEW bi, bi.from = Cursor(x, y), EndCursor(bi) = Cursor(ex, ey)
    PROVE  IsDeletion(DeleteRegion(t, bi), t, x, y, ex, ey, C)
<1> DEFINE r == DeleteRegion(t, bi)
           m == Len(t)
           lf == Left(t[y + 1], x)
           md == Mid(t[ey + 1], ex)
           g == lf \o md
           b == SubSeq(t, 1, y)
           a == SubSeq(t, ey + 2, Len(t))
<1>1. bi.from.x = x /\ bi.from.y = y /\ EndCursor(bi).x = ex /\ EndCursor(bi).y = ey
    BY DEF Cursor
<1>2. /\ y < m /\ x <= Len(t[y + 1])
      /\ t[y + 1] \in Seq(C) /\ t[ey + 1] \in Seq(C)
      /\ m \in Nat
      /\ r = b \o << g >> \o a
    <2>1. /\ bi.from.x \in Nat /\ bi.from.y \in Nat /\ InText(t, bi.from)
          /\ EndCursor(bi).x \in Nat /\ EndCursor(bi).y \in bi.from.y..Len(t) - 1
        BY <1>1
    <2>2. /\ bi.from.y < Len(t) /\ bi.from.x <= Len(t[bi.from.y + 1])
          /\ t[bi.from.y + 1] \in Seq(C) /\ t[EndCursor(bi).y + 1] \in Seq(C)
          /\ Len(t) \in Nat
          /\ DeleteRegion(t, bi) =
                SubSeq(t, 1, bi.from.y)
                \o << Left(t[bi.from.y + 1], bi.from.x) \o Mid(t[EndCursor(bi).y + 1], EndCursor(bi).x) >>
                \o SubSeq(t, EndCursor(bi).y + 2, Len(t))
        BY <2>1, DeleteRegionParts
    <2> QED BY <2>2, <1>1
<1>3. /\ lf \in Seq(C) /\ md \in Seq(C) /\ Len(lf) = x
    <2>1. Len(t[y + 1]) \in Nat
        BY <1>2, LenProperties
    <2> QED BY <1>2, <2>1, LeftMidProperties
<1>4. /\ b \in Seq(Seq(C)) /\ Len(b) = y
      /\ a \in Seq(Seq(C)) /\ Len(a) = m - (ey + 1)
    <2>1. ey + 1 \in 0..Len(t) /\ ey + 1 \in (ey + 1)..Len(t) /\ y \in 0..Len(t) /\ y + 1 \in y..Len(t)
        BY <1>2
    <2>2. IsCut(t, y, y + 1, Seq(C)) /\ IsCut(t, ey + 1, ey + 1, Seq(C))
        BY <2>1, CutText
    <2>3. ey + 1 + 1 = ey + 2
        BY <2>1
    <2> QED BY <2>2, <2>3 DEF IsCut
<1> HIDE DEF r, lf, md, a, b, m
<1>5. g \in Seq(C) /\ Len(g) = x + Len(md) /\ Len(md) \in Nat
    BY <1>3, ConcatProperties, LenProperties
<1> HIDE DEF g
<1> DEFINE gs == << g >>
<1>6. gs \in Seq(Seq(C)) /\ Len(gs) = 1 /\ gs[1] = g /\ r = b \o gs \o a
    BY <1>5, <1>2
<1>7. ConsistsOf(b \o gs \o a, b, gs, a, Seq(C))
    BY <1>6, <1>4, ThreeParts
<1> HIDE DEF gs
<1>8. /\ r \in Seq(Seq(C))
      /\ Len(r) = y + 1 + Len(a)
      /\ SubSeq(r, 1, y) = b
      /\ SubSeq(r, y + 1 + 1, Len(r)) = a
      /\ \A i \in 1..1 : r[y + i] = gs[i]
    BY <1>4, <1>6, <1>7 DEF ConsistsOf
<1>9. ey \in Nat /\ ey < m /\ y <= ey
    BY <1>2 DEF m
<1>10. Len(r) = m - (ey - y) /\ y + 1 + 1 = y + 2 /\ r[y + 1] = g
    <2>1. 1 \in 1..1
        OBVIOUS
    <2>2. r[y + 1] = g
        BY <2>1, <1>6, <1>8
    <2>3. Len(r) = y + 1 + (m - (ey + 1))
        BY <1>4, <1>8
    <2>4. y + 1 + (m - (ey + 1)) = m - (ey - y) /\ y + 1 + 1 = y + 2
        BY <1>2, <1>9
    <2> QED BY <2>2, <2>3, <2>4
<1>11. InText(r, Cursor(x, y))
    <2>1. y < Len(r) /\ Len(r) \in Nat
        BY <1>2, <1>9, <1>10
    <2>2. Textline(r, y) = g
        BY <2>1, <1>8, <1>10, TextlineType
    <2> QED BY <2>1, <2>2, <1>5
         DEF InText, LineExists, ColumnExists, LineCount, GetLineLength, Cursor
<1> QED BY <1>8, <1>10, <1>11 DEF r, a, b, g, lf, md, m, IsDeletion

(* And the data dataRegion took, inserted where the interval began, takes  *)
(* the deletion back.  The interval may end beyond the end of its last     *)
(* line, not beyond the last line (deleteRegion and insertRegion,          *)
(* buffer.cpp; undo.cpp:206-216).                                          *)
THEOREM DeleteIsUndone ==
    ASSUME NEW C, NEW t \in Seq(Seq(C)), NEW x \in Nat, NEW y \in Nat, InText(t, Cursor(x, y)),
           NEW ex \in Nat, NEW ey \in y..Len(t) - 1, ey > y \/ ex >= x,
           NEW bi, bi.from = Cursor(x, y), EndCursor(bi) = Cursor(ex, ey)
    PROVE  InsertRegion(DeleteRegion(t, bi), Cursor(x, y), DataRegion(t, bi)) = t
<1> DEFINE r == DeleteRegion(t, bi)
           data == DataRegion(t, bi)
           n == ey - y + 1
           m == Len(t)
           l == t[y + 1]
           le == t[ey + 1]
           lf == Left(l, x)
           md == Mid(le, ex)
           b == SubSeq(t, 1, y)
           a == SubSeq(t, ey + 2, m)
           c == SubSeq(t, y + 1, ey + 1)
<1>1. IsDeletion(r, t, x, y, ex, ey, C)
    BY DeleteRegionType
<1>2. AreCopied(data, t, x, y, ex, ey, C)
    BY DataRegionParts
<1>3. r \in Seq(Seq(C)) /\ InText(r, Cursor(x, y)) /\ data \in Seq(Seq(C)) /\ data # <<>>
    BY <1>1, <1>2 DEF IsDeletion, AreCopied
<1> DEFINE g == r[y + 1]
           ls == InsertedLines(g, x, data)
<1>4. /\ HasLine(r, x, y, C)
      /\ InsertRegion(r, Cursor(x, y), data) = SubSeq(r, 1, y) \o ls \o SubSeq(r, y + 2, Len(r))
    BY <1>3, InsertRegionParts
<1>5. InsertRegion(r, Cursor(x, y), data) = b \o ls \o a
    BY <1>1, <1>4 DEF IsDeletion
<1>6. g \in Seq(C) /\ x \in 0..Len(g)
    BY <1>4 DEF HasLine
<1>7. AreInserted(ls, g, x, data, C)
    BY <1>3, <1>6, InsertedLinesProperties
<1>8. m \in Nat /\ y < m /\ ey \in Nat /\ ey < m /\ y <= ey /\ n \in Nat \ {0}
    BY LenProperties DEF InText, LineExists, LineCount, Cursor
<1>9. l \in Seq(C) /\ le \in Seq(C) /\ x <= Len(l)
    <2>1. y + 1 \in 1..m /\ ey + 1 \in 1..m
        BY <1>8
    <2>2. l \in Seq(C) /\ le \in Seq(C)
        BY <2>1, ElementOfSeq
    <2>3. Textline(t, y) = l
        BY <1>8, TextlineType
    <2> QED BY <2>2, <2>3 DEF InText, ColumnExists, GetLineLength, Cursor
<1>10. lf \in Seq(C) /\ md \in Seq(C) /\ Len(lf) = x
    BY <1>9, LeftMidProperties, LenProperties
<1>11. g = lf \o md
    BY <1>1 DEF IsDeletion
<1>12. Left(g, x) = lf /\ Mid(g, x) = md
    BY <1>10, <1>11, LeftMidOfConcat
<1>13. IsCut(t, y, ey + 1, Seq(C))
    <2>1. y \in 0..Len(t) /\ ey + 1 \in y..Len(t)
        BY <1>8
    <2> QED BY <2>1, CutText
<1>14. /\ c \in Seq(Seq(C)) /\ Len(c) = (ey + 1) - y
       /\ \A i \in 1..(ey + 1) - y : c[i] = t[y + i]
       /\ t = b \o c \o a
    <2>1. (ey + 1) + 1 = ey + 2
        BY <1>8
    <2>5. SubSeq(t, y + 1, ey + 1) \in Seq(Seq(C)) /\ Len(SubSeq(t, y + 1, ey + 1)) = (ey + 1) - y
        BY <1>13 DEF IsCut
    <2>6. \A i \in 1..(ey + 1) - y : SubSeq(t, y + 1, ey + 1)[i] = t[y + i]
        BY <1>13 DEF IsCut
    <2>2. /\ SubSeq(t, y + 1, ey + 1) \in Seq(Seq(C))
          /\ Len(SubSeq(t, y + 1, ey + 1)) = (ey + 1) - y
          /\ \A i \in 1..(ey + 1) - y : SubSeq(t, y + 1, ey + 1)[i] = t[y + i]
        BY <2>5, <2>6
    <2>3. t = SubSeq(t, 1, y) \o SubSeq(t, y + 1, ey + 1) \o SubSeq(t, (ey + 1) + 1, Len(t))
        BY <1>13 DEF IsCut
    <2>4. t = SubSeq(t, 1, y) \o SubSeq(t, y + 1, ey + 1) \o SubSeq(t, ey + 2, Len(t))
        BY <2>1, <2>3
    <2> QED BY <2>2, <2>4
<1>15. Left(l, x) \o Mid(l, x) = l /\ Left(le, ex) \o Mid(le, ex) = le
    BY <1>9, LeftMid
<1>16. /\ Len(data) = n
       /\ n = 1 => data[1] = Left(Mid(l, x), ex - x)
       /\ n # 1 => data[1] = Mid(l, x) /\ data[n] = Left(le, ex)
       /\ \A i \in 2..n - 1 : data[i] = t[y + i]
    BY <1>2 DEF AreCopied
<1>17. /\ ls \in Seq(Seq(C)) /\ Len(ls) = n
       /\ \A i \in 2..n - 1 : ls[i] = data[i]
       /\ n = 1 => ls[1] = lf \o data[1] \o md
       /\ n # 1 => ls[1] = lf \o data[1] /\ ls[n] = data[n] \o md
    BY <1>7, <1>12, <1>16 DEF AreInserted
<1>18. n = 1 => ls[1] = l
    <2> SUFFICES ASSUME n = 1 PROVE ls[1] = l
        OBVIOUS
    <2>1. ey = y /\ le = l /\ ex - x \in Nat /\ x + (ex - x) = ex
        BY <1>8
    <2> DEFINE k == ex - x
               q == Mid(l, x)
    <2>2. q \in Seq(C)
        BY <1>9, LeftMidProperties
    <2>8. Mid(q, k) = Mid(l, x + k)
        BY <2>1, <1>9, MidMid
    <2>3. Mid(q, k) = md
        BY <2>1, <2>8
    <2>4. Left(q, k) \o Mid(q, k) = q
        BY <2>1, <2>2, LeftMid
    <2>5. ls[1] = (lf \o Left(q, k)) \o md
        BY <1>16, <1>17
    <2>6. Left(q, k) \in Seq(C)
        BY <2>1, <2>2, LeftMidProperties
    <2> DEFINE u == Left(q, k)
    <2>10. u \in Seq(C) /\ lf \in Seq(C) /\ md \in Seq(C)
        BY <2>6, <1>10
    <2> HIDE DEF u, lf, md
    <2>9. (lf \o u) \o md = lf \o (u \o md)
        BY ONLY <2>10, ConcatAssociative
    <2>7. (lf \o Left(q, k)) \o md = lf \o (Left(q, k) \o md)
        BY <2>9 DEF u
    <2> QED BY <2>3, <2>4, <2>5, <2>7, <1>15 DEF lf, md
<1>19. n # 1 => ls[1] = l /\ ls[n] = le
    BY <1>15, <1>16, <1>17
<1> HIDE DEF r, data, l, le, lf, md, b, a, c, g, ls
<1>20. ls = c
    <2>1. Len(c) = n
        BY <1>8, <1>14
    <2>2. ASSUME NEW i \in 1..n PROVE ls[i] = c[i]
        <3>5. i \in 1..(ey + 1) - y
            BY <1>8
        <3>1. c[i] = t[y + i]
            BY <3>5, <1>14
        <3>2. CASE i = 1
            BY <3>1, <3>2, <1>18, <1>19 DEF l
        <3>3. CASE i # 1 /\ i = n
            <4>1. y + i = ey + 1
                BY <3>3, <1>8
            <4> QED BY <3>1, <3>3, <4>1, <1>19 DEF le
        <3>4. CASE i # 1 /\ i # n
            <4>1. i \in 2..n - 1
                BY <3>4, <1>8
            <4> QED BY <3>1, <4>1, <1>16, <1>17
        <3> QED BY <3>2, <3>3, <3>4
    <2> QED BY <2>1, <2>2, <1>14, <1>17, SeqEqual
<1>21. InsertRegion(r, Cursor(x, y), data) = t
    BY <1>5, <1>14, <1>20
<1> QED BY <1>21 DEF r, data

-----------------------------------------------------------------------------
(* Lines added at the end of a text do not matter to an edit before them.  *)
IsExtended(w, t, u, p, q, S) ==
    /\ w \in Seq(S) /\ Len(w) = Len(t) + Len(u)
    /\ SubSeq(w, 1, p) = SubSeq(t, 1, p)
    /\ SubSeq(w, q + 1, Len(w)) = SubSeq(t, q + 1, Len(t)) \o u

(* More lines at the end of a text leave its beginning, up to any place,   *)
(* as it was.                                                              *)
LEMMA ExtendedText ==
    ASSUME NEW S, NEW t \in Seq(S), NEW u \in Seq(S), NEW p \in 0..Len(t), NEW q \in p..Len(t)
    PROVE  IsExtended(t \o u, t, u, p, q, S)
<1> DEFINE b == SubSeq(t, 1, p)
           c == SubSeq(t, p + 1, q)
           a == SubSeq(t, q + 1, Len(t))
<1>1. t \o u \in Seq(S) /\ Len(t \o u) = Len(t) + Len(u)
    BY ConcatProperties
<1>2. IsCut(t, p, q, S)
    BY CutText
<1>3. b \in Seq(S) /\ c \in Seq(S) /\ a \in Seq(S) /\ t = b \o c \o a /\ Len(b) = p /\ Len(c) = q - p
    BY <1>2 DEF IsCut
<1>4. p \in Nat /\ q \in Nat /\ p + (q - p) = q
    BY LenProperties
<1> HIDE DEF b, c, a
<1>5. b \o c \in Seq(S) /\ a \o u \in Seq(S)
    BY <1>3, ConcatProperties
<1>6. t \o u = b \o c \o (a \o u)
    <2>1. (b \o c \o a) \o u = b \o c \o (a \o u)
        <3>1. b \in Seq(S) /\ c \in Seq(S) /\ a \in Seq(S) /\ u \in Seq(S)
            BY <1>3
        <3> DEFINE bg == b \o c
        <3>2. bg \in Seq(S) /\ a \in Seq(S) /\ u \in Seq(S)
            BY <3>1, ConcatProperties
        <3> HIDE DEF bg
        <3>3. (bg \o a) \o u = bg \o (a \o u)
            BY ONLY <3>2, ConcatAssociative
        <3> QED BY <3>3 DEF bg
    <2> QED BY <2>1, <1>3
<1> DEFINE w == a \o u
<1> HIDE DEF w
<1>7. ConsistsOf(b \o c \o w, b, c, w, S)
    BY <1>3, <1>5, ThreeParts DEF w
<1>8. SubSeq(b \o c \o w, 1, p) = b /\ SubSeq(b \o c \o w, p + (q - p) + 1, Len(b \o c \o w)) = w
    BY <1>3, <1>7 DEF ConsistsOf
<1>9. t \o u = b \o c \o w
    BY <1>6 DEF w
<1>10. SubSeq(t \o u, 1, p) = b /\ SubSeq(t \o u, q + 1, Len(t \o u)) = w
    BY <1>4, <1>8, <1>9
<1> QED BY <1>1, <1>10 DEF w, a, b, IsExtended

(* More lines at the end of a text leave each of its lines.                *)
LEMMA ExtendedLine ==
    ASSUME NEW C, NEW t \in Seq(Seq(C)), NEW u \in Seq(Seq(C)), NEW n \in Nat, n < Len(t)
    PROVE  /\ (t \o u)[n + 1] = t[n + 1]
           /\ Textline(t \o u, n) = Textline(t, n)
           /\ n < Len(t \o u)
<1> DEFINE m == Len(t)
           k == Len(u)
           w == t \o u
<1>1. m \in Nat /\ k \in Nat
    BY LenProperties
<1>2. /\ w \in Seq(Seq(C)) /\ Len(w) = m + k
      /\ \A i \in 1..m + k : w[i] = IF i <= m THEN t[i] ELSE u[i - m]
    BY ConcatProperties
<1> HIDE DEF m, k, w
<1>3. n + 1 \in 1..m + k /\ n + 1 <= m
    BY <1>1 DEF m
<1>4. w[n + 1] = t[n + 1]
    BY <1>2, <1>3
<1>5. n < Len(w)
    BY <1>1, <1>2, <1>3
<1> QED BY <1>4, <1>5 DEF w, Textline, LineCount

(* A position of a text is one of any longer text that begins with it.     *)
LEMMA ExtendedInText ==
    ASSUME NEW C, NEW t \in Seq(Seq(C)), NEW u \in Seq(Seq(C)), NEW x \in Nat, NEW y \in Nat,
           InText(t, Cursor(x, y))
    PROVE  InText(t \o u, Cursor(x, y))
<1>1. Len(t) \in Nat /\ y < Len(t) /\ x \in 0..Len(Textline(t, y))
    BY LenProperties DEF InText, LineExists, ColumnExists, LineCount, GetLineLength, Cursor
<1>2. Textline(t \o u, y) = Textline(t, y) /\ y < Len(t \o u)
    BY <1>1, ExtendedLine
<1>3. Len(t \o u) \in Nat
    BY ConcatProperties, LenProperties
<1> DEFINE w == t \o u
<1>4. Textline(w, y) = Textline(t, y) /\ y < Len(w) /\ Len(w) \in Nat
    BY <1>2, <1>3
<1> HIDE DEF w
<1>5. InText(w, Cursor(x, y))
    BY <1>1, <1>4 DEF InText, LineExists, ColumnExists, LineCount, GetLineLength, Cursor
<1> QED BY <1>5 DEF w

(* An insertion does not notice lines behind the text: they are kept as    *)
(* they are.                                                               *)
LEMMA InsertExtends ==
    ASSUME NEW C, NEW t \in Seq(Seq(C)), NEW u \in Seq(Seq(C)), NEW x \in Nat, NEW y \in Nat,
           InText(t, Cursor(x, y)), NEW data \in Seq(Seq(C)), data # <<>>
    PROVE  InsertRegion(t \o u, Cursor(x, y), data) = InsertRegion(t, Cursor(x, y), data) \o u
<1> DEFINE w == t \o u
           b == SubSeq(t, 1, y)
           a == SubSeq(t, y + 2, Len(t))
           ls == InsertedLines(t[y + 1], x, data)
<1>1. /\ HasLine(t, x, y, C)
      /\ InsertRegion(t, Cursor(x, y), data) = b \o ls \o a
    BY InsertRegionParts
<1>2. Len(t) \in Nat /\ y < Len(t) /\ x \in 0..Len(t[y + 1]) /\ t[y + 1] \in Seq(C)
    BY <1>1 DEF HasLine
<1>3. w \in Seq(Seq(C)) /\ InText(w, Cursor(x, y))
    BY ExtendedInText, ConcatProperties
<1>4. InsertRegion(w, Cursor(x, y), data) =
          SubSeq(w, 1, y) \o InsertedLines(w[y + 1], x, data) \o SubSeq(w, y + 2, Len(w))
    <2> HIDE DEF w
    <2> QED BY <1>3, InsertRegionParts
<1>5. y \in 0..Len(t) /\ y + 1 \in y..Len(t) /\ (y + 1) + 1 = y + 2
    BY <1>2
<1>6. SubSeq(w, 1, y) = b /\ SubSeq(w, (y + 1) + 1, Len(w)) = SubSeq(t, (y + 1) + 1, Len(t)) \o u
    <2>1. IsExtended(t \o u, t, u, y, y + 1, Seq(C))
        BY <1>5, ExtendedText
    <2> QED BY <2>1 DEF IsExtended
<1>7. w[y + 1] = t[y + 1]
    BY <1>2, ExtendedLine
<1>8. InsertRegion(w, Cursor(x, y), data) = b \o ls \o (a \o u)
    BY <1>4, <1>5, <1>6, <1>7
<1>9. ls \in Seq(Seq(C))
    <2>1. AreInserted(ls, t[y + 1], x, data, C)
        BY <1>2, InsertedLinesProperties
    <2> QED BY <2>1 DEF AreInserted
<1>10. b \in Seq(Seq(C)) /\ a \in Seq(Seq(C))
    <2>1. IsCut(t, y, y + 1, Seq(C))
        BY <1>5, CutText
    <2> QED BY <2>1, <1>5 DEF IsCut
<1> HIDE DEF b, a, ls, w
<1>11. (b \o ls \o a) \o u = b \o ls \o (a \o u)
    <2>1. b \in Seq(Seq(C)) /\ ls \in Seq(Seq(C)) /\ a \in Seq(Seq(C)) /\ u \in Seq(Seq(C))
        BY <1>9, <1>10
    <2> DEFINE bg == b \o ls
    <2>2. bg \in Seq(Seq(C)) /\ a \in Seq(Seq(C)) /\ u \in Seq(Seq(C))
        BY <2>1, ConcatProperties
    <2> HIDE DEF bg
    <2>3. (bg \o a) \o u = bg \o (a \o u)
        BY ONLY <2>2, ConcatAssociative, SMTT(30)
    <2> QED BY <2>3 DEF bg
<1> QED BY <1>1, <1>8, <1>11 DEF w

(* A deletion within a text does not notice lines behind it: they are kept *)
(* as they are.                                                            *)
LEMMA DeleteExtends ==
    ASSUME NEW C, NEW t \in Seq(Seq(C)), NEW u \in Seq(Seq(C)), NEW x \in Nat, NEW y \in Nat,
           InText(t, Cursor(x, y)),
           NEW ex \in Nat, NEW ey \in y..Len(t) - 1,
           NEW bi, bi.from = Cursor(x, y), EndCursor(bi) = Cursor(ex, ey)
    PROVE  DeleteRegion(t \o u, bi) = DeleteRegion(t, bi) \o u
<1> DEFINE w == t \o u
           b == SubSeq(t, 1, y)
           a == SubSeq(t, ey + 2, Len(t))
           lf == Left(Textline(t, y), x)
           md == Mid(Textline(t, ey), ex)
           g == << lf \o md >>
<1>1. bi.from.x = x /\ bi.from.y = y /\ EndCursor(bi).x = ex /\ EndCursor(bi).y = ey
    BY DEF Cursor
<1>2. Len(t) \in Nat /\ y < Len(t) /\ ey \in Nat /\ ey < Len(t) /\ y <= ey
    BY LenProperties DEF InText, LineExists, LineCount, Cursor
<1>3. w \in Seq(Seq(C)) /\ InText(w, Cursor(x, y))
    BY ExtendedInText, ConcatProperties
<1>4. LineExists(t, y) /\ LineExists(w, y)
    BY <1>3 DEF InText, Cursor
<1>5. DeleteRegion(t, bi) = b \o g \o a
    BY Zenon, <1>1, <1>4 DEF DeleteRegion, LineCount
<1>6. Textline(w, y) = Textline(t, y) /\ Textline(w, ey) = Textline(t, ey)
    BY <1>2, ExtendedLine
<1>7. DeleteRegion(w, bi) = SubSeq(w, 1, y) \o g \o SubSeq(w, ey + 2, Len(w))
    BY Zenon, <1>1, <1>4, <1>6 DEF DeleteRegion, LineCount
<1>8. y \in 0..Len(t) /\ ey + 1 \in y..Len(t) /\ (ey + 1) + 1 = ey + 2
    BY <1>2
<1>9. SubSeq(w, 1, y) = b /\ SubSeq(w, (ey + 1) + 1, Len(w)) = SubSeq(t, (ey + 1) + 1, Len(t)) \o u
    <2>1. IsExtended(t \o u, t, u, y, ey + 1, Seq(C))
        BY <1>8, ExtendedText
    <2> QED BY <2>1 DEF IsExtended
<1>10. DeleteRegion(w, bi) = b \o g \o (a \o u)
    BY <1>7, <1>8, <1>9
<1>11. g \in Seq(Seq(C))
    <2>1. Textline(t, y) \in Seq(C) /\ Textline(t, ey) \in Seq(C)
        BY <1>2, TextlineType
    <2>2. lf \in Seq(C) /\ md \in Seq(C)
        BY <2>1, LeftMidProperties
    <2>3. lf \o md \in Seq(C)
        BY <2>2, ConcatProperties
    <2> QED BY <2>3
<1>12. b \in Seq(Seq(C)) /\ a \in Seq(Seq(C))
    <2>1. IsCut(t, y, ey + 1, Seq(C))
        BY <1>8, CutText
    <2> QED BY <2>1, <1>8 DEF IsCut
<1> HIDE DEF b, a, g, w
<1>13. (b \o g \o a) \o u = b \o g \o (a \o u)
    <2>1. b \in Seq(Seq(C)) /\ g \in Seq(Seq(C)) /\ a \in Seq(Seq(C)) /\ u \in Seq(Seq(C))
        BY <1>11, <1>12
    <2> DEFINE bg == b \o g
    <2>2. bg \in Seq(Seq(C)) /\ a \in Seq(Seq(C)) /\ u \in Seq(Seq(C))
        BY <2>1, ConcatProperties
    <2> HIDE DEF bg
    <2>3. (bg \o a) \o u = bg \o (a \o u)
        BY ONLY <2>2, ConcatAssociative
    <2> QED BY <2>3 DEF bg
<1> QED BY <1>5, <1>10, <1>13 DEF w

(* An interval that ends beyond the last line is, to deleteRegion and      *)
(* dataRegion, one that ends on an empty line after it.                    *)
LEMMA BeyondIsEmptyLine ==
    ASSUME NEW C, NEW t \in Seq(Seq(C)), NEW x \in Nat, NEW y \in Nat, InText(t, Cursor(x, y)),
           NEW bi, bi.from = Cursor(x, y), EndCursor(bi) = Cursor(0, Len(t))
    PROVE  /\ DeleteRegion(t, bi) = DeleteRegion(t \o << <<>> >>, bi)
           /\ DataRegion(t, bi) = DataRegion(t \o << <<>> >>, bi)
<1> DEFINE u == << <<>> >>
           w == t \o u
           m == Len(t)
<1>1. bi.from.x = x /\ bi.from.y = y /\ EndCursor(bi).x = 0 /\ EndCursor(bi).y = m
    BY DEF Cursor
<1>2. m \in Nat /\ y < m
    BY LenProperties DEF InText, LineExists, LineCount, Cursor
<1>3. u \in Seq(Seq(C)) /\ Len(u) = 1 /\ u[1] = <<>>
    BY EmptySeq
<1>4. w \in Seq(Seq(C)) /\ Len(w) = m + 1 /\ w[m + 1] = <<>>
    <2> HIDE DEF u, m
    <2>4. /\ w \in Seq(Seq(C)) /\ Len(w) = Len(t) + Len(u)
          /\ \A i \in 1..Len(t) + Len(u) : w[i] = IF i <= Len(t) THEN t[i] ELSE u[i - Len(t)]
        BY <1>3, ConcatProperties
    <2> HIDE DEF w
    <2>1. /\ w \in Seq(Seq(C)) /\ Len(w) = m + 1
          /\ \A i \in 1..m + 1 : w[i] = IF i <= m THEN t[i] ELSE u[i - m]
        BY <2>4, <1>3 DEF m
    <2>2. m + 1 \in 1..m + 1 /\ ~(m + 1 <= m) /\ (m + 1) - m = 1
        BY <1>2
    <2>3. w[m + 1] = u[(m + 1) - m]
        BY <2>1, <2>2
    <2> QED BY <2>1, <2>2, <2>3, <1>3
<1>5. \A k \in Nat : k < m => Textline(w, k) = Textline(t, k)
    BY <1>3, ExtendedLine
<1>6. InText(w, Cursor(x, y))
    BY <1>3, ExtendedInText
<1>7. Textline(t, m) = <<>> /\ Textline(w, m) = <<>>
    BY <1>2, <1>4 DEF Textline, LineCount
<1>8. LineExists(t, y) /\ LineExists(w, y) /\ Textline(w, y) = Textline(t, y)
    BY <1>2, <1>5, <1>6 DEF InText, Cursor
<1>9. SubSeq(w, 1, y) = SubSeq(t, 1, y)
    <2>1. y \in 0..Len(t) /\ y \in y..Len(t)
        BY <1>2
    <2>2. IsExtended(t \o u, t, u, y, y, Seq(C))
        BY <2>1, <1>3, ExtendedText
    <2> QED BY <2>2 DEF IsExtended
<1>10. SubSeq(w, m + 2, Len(w)) = <<>> /\ SubSeq(t, m + 2, Len(t)) = <<>>
    BY <1>2, <1>4, SubSeqEmpty
<1>11. DeleteRegion(t, bi) = DeleteRegion(w, bi)
    BY Zenon, <1>1, <1>7, <1>8, <1>9, <1>10 DEF DeleteRegion, LineCount
<1>12. DataRegion(t, bi) = DataRegion(w, bi)
    <2> DEFINE first == Mid(Textline(t, y), x)
               piece(k) == IF k = m THEN Left(Textline(t, k), 0) ELSE Textline(t, k)
               piecew(k) == IF k = m THEN Left(Textline(w, k), 0) ELSE Textline(w, k)
               rest == [i \in 1..m - 1 - y |-> piece(y + i)]
               restw == [i \in 1..m - y |-> piecew(y + i)]
    <2>1. DataRegion(t, bi) = << first >> \o rest \o << <<>> >>
        <3>1. (IF m < m THEN m ELSE m - 1) = m - 1 /\ m > m - 1 /\ m # y
            BY <1>2
        <3> QED BY Zenon, <3>1, <1>1 DEF DataRegion, LineCount
    <2>2. DataRegion(w, bi) = << first >> \o restw \o <<>>
        <3>1. m < Len(w) /\ ~(m > m) /\ m # y
            BY <1>2, <1>4
        <3>2. (IF m < Len(w) THEN m ELSE Len(w) - 1) = m
            BY <3>1
        <3> QED BY Zenon, <3>1, <3>2, <1>1, <1>8 DEF DataRegion, LineCount
    <2>3. \A k \in Nat : k <= m => piecew(k) \in Seq(C)
        <3> TAKE k \in Nat
        <3>1. Textline(w, k) \in Seq(C)
            BY <1>4, TextlineType
        <3>2. Left(Textline(w, k), 0) \in Seq(C)
            BY <3>1, LeftMidProperties
        <3> QED BY <3>1, <3>2
    <2>4. \A k \in Nat : k < m => piece(k) = piecew(k)
        BY <1>5
    <2>5. piecew(m) = <<>>
        BY <1>7 DEF Left
    <2>6. first \in Seq(C)
        BY <1>2, TextlineType, LeftMidProperties
    <2> HIDE DEF piece, piecew, w, m
    <2>7. m - y \in Nat /\ m - 1 - y \in Nat /\ m - 1 - y + 1 = m - y
        BY <1>2
    <2>8. \A i \in 1..m - y : y + i \in Nat /\ y + i <= m
        BY <1>2
    <2>9. \A i \in 1..m - 1 - y : y + i \in Nat /\ y + i < m
        BY <1>2
    <2>10. restw \in [1..m - y -> Seq(C)]
        BY <2>3, <2>8
    <2>18. \A i \in 1..m - 1 - y : piece(y + i) \in Seq(C)
        <3> TAKE i \in 1..m - 1 - y
        <3>1. y + i \in Nat /\ y + i < m /\ y + i <= m
            BY <2>9, <1>2
        <3> QED BY <3>1, <2>3, <2>4
    <2>11. rest \in [1..m - 1 - y -> Seq(C)]
        BY <2>18
    <2>12. restw \in Seq(Seq(C)) /\ Len(restw) = m - y /\ \A i \in 1..m - y : restw[i] = piecew(y + i)
        <3>1. \A i \in 1..m - y : restw[i] = piecew(y + i)
            OBVIOUS
        <3> HIDE DEF restw
        <3> QED BY <3>1, <2>7, <2>10, FunctionIsSeq
    <2>13. rest \in Seq(Seq(C)) /\ Len(rest) = m - 1 - y /\ \A i \in 1..m - 1 - y : rest[i] = piece(y + i)
        <3>1. \A i \in 1..m - 1 - y : rest[i] = piece(y + i)
            OBVIOUS
        <3> DEFINE k == m - 1 - y
        <3>2. k \in Nat /\ rest \in [1..k -> Seq(C)]
            BY <2>7, <2>11
        <3> HIDE DEF rest, k
        <3>3. rest \in Seq(Seq(C)) /\ Len(rest) = k
            BY <3>2, FunctionIsSeq
        <3> QED BY <3>1, <3>3 DEF k
    <2> HIDE DEF rest, restw, first, u
    <2>14. /\ rest \o u \in Seq(Seq(C)) /\ Len(rest \o u) = (m - 1 - y) + 1
           /\ \A i \in 1..(m - 1 - y) + 1 :
                  (rest \o u)[i] = IF i <= m - 1 - y THEN rest[i] ELSE u[i - (m - 1 - y)]
        <3>1. /\ rest \o u \in Seq(Seq(C)) /\ Len(rest \o u) = Len(rest) + Len(u)
              /\ \A i \in 1..Len(rest) + Len(u) :
                     (rest \o u)[i] = IF i <= Len(rest) THEN rest[i] ELSE u[i - Len(rest)]
            BY <2>13, <1>3, ConcatProperties
        <3> QED BY <3>1, <2>13, <1>3
    <2>15. rest \o u = restw
        <3> DEFINE v == rest \o u
        <3> HIDE DEF v
        <3>1. v \in Seq(Seq(C)) /\ Len(v) = Len(restw)
            BY <2>7, <2>12, <2>14 DEF v
        <3>2. ASSUME NEW i \in 1..m - y PROVE v[i] = restw[i]
            <4>1. CASE i <= m - 1 - y
                <5>1. i \in 1..m - 1 - y /\ i \in 1..(m - 1 - y) + 1
                    BY <4>1, <2>7
                <5>2. v[i] = rest[i]
                    BY <5>1, <4>1, <2>14 DEF v
                <5> QED BY <5>1, <5>2, <2>4, <2>9, <2>12, <2>13
            <4>2. CASE ~(i <= m - 1 - y)
                <5>1. i = m - y /\ i \in 1..(m - 1 - y) + 1 /\ i - (m - 1 - y) = 1 /\ y + i = m
                    BY <4>2, <1>2
                <5>2. v[i] = u[i - (m - 1 - y)]
                    BY <5>1, <4>2, <2>14 DEF v
                <5> QED BY <5>1, <5>2, <1>3, <2>5, <2>12
            <4> QED BY <4>1, <4>2
        <3>3. v = restw
            BY <3>1, <3>2, <2>12, SeqEqual
        <3> QED BY <3>3 DEF v
    <2>16. (<< first >> \o rest) \o u = << first >> \o (rest \o u)
        <3> DEFINE f == << first >>
        <3>1. f \in Seq(Seq(C)) /\ rest \in Seq(Seq(C)) /\ u \in Seq(Seq(C))
            BY <2>6, <2>13, <1>3
        <3> HIDE DEF f
        <3>2. (f \o rest) \o u = f \o (rest \o u)
            BY ONLY <3>1, ConcatAssociative
        <3> QED BY <3>2 DEF f
    <2>17. << first >> \o restw \o <<>> = << first >> \o restw
        <3>1. << first >> \in Seq(Seq(C))
            BY <2>6
        <3>2. << first >> \o restw \in Seq(Seq(C))
            BY <3>1, <2>12, ConcatProperties
        <3> QED BY <3>2, ConcatEmptySeq
    <2> QED BY <2>1, <2>2, <2>15, <2>16, <2>17 DEF u
<1> QED BY <1>11, <1>12

-----------------------------------------------------------------------------
(* What the primitives give is a text again, whatever the position or the  *)
(* interval: nothing in them depends on its being inside the text.         *)
LEMMA SubSeqType ==
    ASSUME NEW S, NEW s \in Seq(S), NEW m \in Nat \ {0}, NEW n \in Int, n <= Len(s)
    PROVE  SubSeq(s, m, n) \in Seq(S) /\ (m = 1 /\ n >= 0 => Len(SubSeq(s, m, n)) = n)
<1>1. \A i \in m..n : s[i] \in S
    <2> TAKE i \in m..n
    <2>1. i \in 1..Len(s)
        BY LenProperties
    <2> QED BY <2>1, ElementOfSeq
<1>2. SubSeq(s, m, n) \in Seq(S) /\ Len(SubSeq(s, m, n)) = IF m <= n THEN n - m + 1 ELSE 0
    BY <1>1, SubSeqProperties
<1> QED BY <1>2

(* Left and Mid of any number, which may be negative, are strings.         *)
LEMMA LeftMidType ==
    ASSUME NEW C, NEW s \in Seq(C), NEW n \in Int
    PROVE  Left(s, n) \in Seq(C) /\ Mid(s, n) \in Seq(C)
<1>1. CASE n >= 0
    BY <1>1, LeftMidProperties
<1>2. CASE n < 0
    <2>1. Left(s, n) = s
        BY <1>2 DEF Left
    <2>2. Mid(s, n) = SubSeq(s, 0 + 1, Len(s))
        BY <1>2 DEF Mid
    <2>3. SubSeq(s, 1, Len(s)) \in Seq(C)
        BY LenProperties, SubSeqType
    <2> QED BY <2>1, <2>2, <2>3
<1> QED BY <1>1, <1>2

(* A line the text has, and a column of it, are a position of the text.    *)
LEMMA TextPositions ==
    ASSUME NEW C, NEW t \in Seq(Seq(C)), NEW x \in Nat, NEW y \in Nat,
           y < Len(t), x <= GetLineLength(t, y)
    PROVE  InText(t, Cursor(x, y))
<1>1. GetLineLength(t, y) \in Nat /\ Len(t) \in Nat
    BY TextlineType, LenProperties
<1> QED BY <1>1 DEF InText, LineExists, ColumnExists, LineCount, Cursor

(* insertRegion gives a text for any cursor and any data, and never        *)
(* removes a line.                                                         *)
LEMMA InsertRegionIsText ==
    ASSUME NEW C, NEW t \in Seq(Seq(C)), NEW x \in Nat, NEW y \in Nat,
           NEW data \in Seq(Seq(C))
    PROVE  /\ InsertRegion(t, Cursor(x, y), data) \in Seq(Seq(C))
           /\ Len(InsertRegion(t, Cursor(x, y), data)) >= Len(t)
<1> DEFINE begin == Cursor(x, y)
           r == InsertRegion(t, begin, data)
<1>1. CASE InsertAborts(t, begin, data) \/ ~LineExists(t, begin.y)
    <2>1. r = t
        BY Zenon, <1>1 DEF InsertRegion
    <2> QED BY <2>1, LenProperties
<1>2. CASE ~(InsertAborts(t, begin, data) \/ ~LineExists(t, begin.y))
    <2>1. data # <<>> /\ y < Len(t) /\ ~(x > GetLineLength(t, y))
        BY <1>2, LenProperties DEF InsertAborts, LineExists, LineCount, Cursor
    <2>2. InText(t, begin)
        <3>1. GetLineLength(t, y) \in Nat
            BY TextlineType
        <3>2. x <= GetLineLength(t, y)
            BY <2>1, <3>1
        <3> QED BY <2>1, <3>2, TextPositions
    <2>3. IsInsertion(r, t, x, y, data, C)
        BY <2>1, <2>2, InsertRegionType
    <2>4. r \in Seq(Seq(C)) /\ Len(r) = Len(t) + Len(data) - 1
        BY <2>3 DEF IsInsertion
    <2>5. Len(data) \in Nat \ {0} /\ Len(t) \in Nat
        BY <2>1, EmptySeq, LenProperties
    <2> QED BY <2>4, <2>5
<1> QED BY <1>1, <1>2

(* The cursor insertRegion returns is a position.                          *)
LEMMA AfterInsertType ==
    ASSUME NEW C, NEW x \in Nat, NEW y \in Nat, NEW data \in Seq(Seq(C)), data # <<>>
    PROVE  AfterInsert(Cursor(x, y), data) \in [x : Nat, y : Nat]
<1> DEFINE n == Len(data)
<1>1. n \in Nat \ {0}
    BY EmptySeq
<1>2. data[1] \in Seq(C) /\ data[n] \in Seq(C)
    BY <1>1, ElementOfSeq
<1>3. Len(data[1]) \in Nat /\ Len(data[n]) \in Nat
    BY <1>2, LenProperties
<1>4. CASE n = 1
    <2>1. AfterInsert(Cursor(x, y), data) = Cursor(x + Len(data[1]), y)
        BY <1>4 DEF AfterInsert, Cursor
    <2> QED BY <2>1, <1>3 DEF Cursor
<1>5. CASE n # 1
    <2>1. AfterInsert(Cursor(x, y), data) = Cursor(Len(data[n]), y + n - 1)
        BY <1>5 DEF AfterInsert, Cursor, Last
    <2>2. y + n - 1 \in Nat
        BY <1>1
    <2> QED BY <2>1, <2>2, <1>3 DEF Cursor
<1> QED BY <1>4, <1>5

(* deleteRegion gives a text for any interval, one that ends before it     *)
(* begins or behind the text included, and never takes the last line.      *)
LEMMA DeleteRegionIsText ==
    ASSUME NEW C, NEW t \in Seq(Seq(C)), NEW bi, bi.from.x \in Nat, bi.from.y \in Nat,
           EndCursor(bi).x \in Int, EndCursor(bi).y \in Nat
    PROVE  /\ DeleteRegion(t, bi) \in Seq(Seq(C))
           /\ Len(t) >= 1 => Len(DeleteRegion(t, bi)) >= 1
<1> DEFINE x == bi.from.x
           y == bi.from.y
           ex == EndCursor(bi).x
           ey == EndCursor(bi).y
           r == DeleteRegion(t, bi)
           g == Left(Textline(t, y), x) \o Mid(Textline(t, ey), ex)
           b == SubSeq(t, 1, y)
           a == SubSeq(t, ey + 2, Len(t))
<1>1. CASE ~LineExists(t, y)
    BY <1>1 DEF DeleteRegion
<1>2. CASE LineExists(t, y)
    <2>1. r = b \o << g >> \o a
        BY Zenon, <1>2 DEF DeleteRegion, LineCount
    <2>2. g \in Seq(C)
        <3>1. Textline(t, y) \in Seq(C) /\ Textline(t, ey) \in Seq(C)
            BY TextlineType
        <3> DEFINE l == Textline(t, y)
                   le == Textline(t, ey)
                   xx == x
                   ee == ex
        <3>3. l \in Seq(C) /\ le \in Seq(C) /\ xx \in Int /\ ee \in Int
            BY <3>1
        <3> HIDE DEF l, le, xx, ee
        <3>4. Left(l, xx) \in Seq(C) /\ Mid(le, ee) \in Seq(C)
            BY <3>3, LeftMidType
        <3>2. Left(Textline(t, y), x) \in Seq(C) /\ Mid(Textline(t, ey), ex) \in Seq(C)
            BY <3>4 DEF l, le, xx, ee
        <3> QED BY <3>2, ConcatProperties
    <2> DEFINE yy == y
               ee == ey
    <2>3. yy \in Nat /\ yy < Len(t) /\ ee \in Nat /\ Len(t) \in Nat
        BY <1>2, LenProperties DEF LineExists, LineCount
    <2>4. b \in Seq(Seq(C)) /\ a \in Seq(Seq(C))
        <3> HIDE DEF yy, ee
        <3>1. SubSeq(t, 1, yy) \in Seq(Seq(C)) /\ SubSeq(t, ee + 2, Len(t)) \in Seq(Seq(C))
            BY <2>3, SubSeqType
        <3> QED BY <3>1 DEF yy, ee
    <2> DEFINE gs == << g >>
    <2> HIDE DEF g, a, b, r
    <2>5. gs \in Seq(Seq(C)) /\ Len(gs) = 1 /\ r = b \o gs \o a
        BY <2>1, <2>2
    <2> HIDE DEF gs
    <2>6. ConsistsOf(b \o gs \o a, b, gs, a, Seq(C))
        BY <2>4, <2>5, ThreeParts
    <2>7. r \in Seq(Seq(C)) /\ Len(r) = Len(b) + 1 + Len(a)
        BY <2>5, <2>6 DEF ConsistsOf
    <2>8. Len(b) \in Nat /\ Len(a) \in Nat
        BY <2>4, LenProperties
    <2> QED BY <2>7, <2>8 DEF r
<1> QED BY <1>1, <1>2

(* dataRegion gives pieces of text for any interval.                       *)
LEMMA DataRegionIsText ==
    ASSUME NEW C, NEW t \in Seq(Seq(C)), NEW bi, bi.from.x \in Nat, bi.from.y \in Nat,
           EndCursor(bi).x \in Int, EndCursor(bi).y \in Nat
    PROVE  DataRegion(t, bi) \in Seq(Seq(C))
<1> DEFINE x == bi.from.x
           y == bi.from.y
           ex == EndCursor(bi).x
           ey == EndCursor(bi).y
           lastLine == IF ey < Len(t) THEN ey ELSE Len(t) - 1
           first == Mid(Textline(t, y), x)
           piece(k) == IF k = ey THEN Left(Textline(t, k), ex) ELSE Textline(t, k)
           rest == [i \in 1..lastLine - y |-> piece(y + i)]
           end == IF ey > lastLine THEN << <<>> >> ELSE <<>>
<1>1. first \in Seq(C)
    <2> DEFINE l == Textline(t, y)
               xx == x
    <2>1. l \in Seq(C) /\ xx \in Int
        <3>1. y \in Nat /\ x \in Int
            OBVIOUS
        <3> HIDE DEF y, x
        <3>2. Textline(t, y) \in Seq(C)
            BY <3>1, TextlineType
        <3> QED BY <3>1, <3>2
    <2> HIDE DEF l, xx
    <2>2. Mid(l, xx) \in Seq(C)
        BY <2>1, LeftMidType
    <2> QED BY <2>2 DEF l, xx
<1>2. CASE ey = y
    <2>1. DataRegion(t, bi) = << Left(first, ex - x) >>
        BY Zenon, <1>2 DEF DataRegion
    <2> DEFINE f == first
               k == ex - x
    <2>3. f \in Seq(C) /\ k \in Int
        BY <1>1
    <2> HIDE DEF f, k
    <2>4. Left(f, k) \in Seq(C)
        BY <2>3, LeftMidType
    <2>2. Left(first, ex - x) \in Seq(C)
        BY <2>4 DEF f, k
    <2> QED BY <2>1, <2>2
<1>3. CASE ey # y
    <2>1. DataRegion(t, bi) = << first >> \o rest \o end
        BY Zenon, <1>3 DEF DataRegion, LineCount
    <2>2. \A k \in Nat : piece(k) \in Seq(C)
        <3> TAKE k \in Nat
        <3>1. Textline(t, k) \in Seq(C)
            BY TextlineType
        <3>2. Left(Textline(t, k), ex) \in Seq(C)
            BY <3>1, LeftMidType
        <3> QED BY <3>1, <3>2
    <2> DEFINE n == IF lastLine - y < 0 THEN 0 ELSE lastLine - y
    <2>3. n \in Nat /\ 1..lastLine - y = 1..n
        <3>1. lastLine - y \in Int
            BY LenProperties
        <3> HIDE DEF lastLine, y
        <3> QED BY <3>1
    <2>4. \A i \in 1..n : y + i \in Nat
        BY <2>3
    <2> HIDE DEF piece, n
    <2>5. rest \in [1..n -> Seq(C)]
        BY <2>2, <2>3, <2>4
    <2> HIDE DEF rest
    <2>6. rest \in Seq(Seq(C))
        BY <2>3, <2>5, FunctionIsSeq
    <2>7. << first >> \in Seq(Seq(C)) /\ end \in Seq(Seq(C))
        BY <1>1, EmptySeq
    <2> DEFINE fs == << first >>
    <2> HIDE DEF fs, end
    <2>8. fs \o rest \in Seq(Seq(C))
        BY <2>6, <2>7, ConcatProperties DEF fs
    <2>9. (fs \o rest) \o end \in Seq(Seq(C))
        BY <2>7, <2>8, ConcatProperties
    <2> QED BY <2>1, <2>9 DEF fs
<1> QED BY <1>2, <1>3
=============================================================================

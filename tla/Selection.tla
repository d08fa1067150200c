----------------------------- MODULE Selection -----------------------------
(***************************************************************************)
(* YSelection (src/libyzis/selection.cpp): a set of positions, kept as a   *)
(* list of intervals in order.  A view collects in one what it has to paint*)
(* (sendPaintEvent) and cuts it to the screen when it paints (clip).       *)
(*                                                                         *)
(* mMap has the keys 0 .. n-1 and is a sequence here.  A bound is a cursor *)
(* that belongs to the interval or, open, does not.                        *)
(***************************************************************************)
EXTENDS Integers, Sequences, SequencesExt

Pos(x, y) == [x |-> x, y |-> y]
Bound(pos, open) == [pos |-> pos, open |-> open]
Closed(pos) == Bound(pos, FALSE)
Turned(bound) == Bound(bound.pos, ~bound.open)
Between(from, to) == [from |-> from, to |-> to]

(* The comparisons of cursors and of bounds.  They know nothing of which   *)
(* end of an interval a bound is: an open one is the smaller one.          *)
Less(p, q) == p.y < q.y \/ (p.y = q.y /\ p.x < q.x)
Below(l, r) == Less(l.pos, r.pos) \/ (l.pos = r.pos /\ l.open /\ ~r.open)
AtMost(l, r) == Less(l.pos, r.pos) \/ (l.pos = r.pos /\ (l.open \/ ~r.open))

Valid(i) == AtMost(i.from, i.to)

-----------------------------------------------------------------------------
(* locatePosition: the index of the interval that has the bound, or of the *)
(* first one behind it.                                                    *)
LocatePosition(map, bound) ==
    LET Before(n) == \A j \in 1..n : ~Below(bound, map[j].from) /\ Below(map[j].to, bound)
        At(n) == [ id |-> n, isSelected |-> n < Len(map) /\ ~Below(bound, map[n + 1].from) ]
    IN  At(CHOOSE n \in 0..Len(map) : Before(n) /\ \A m \in n + 1..Len(map) : ~Before(m))

(* insertInterval, removeInterval.                                         *)
InsertInterval(map, id, i) == InsertAt(map, id + 1, i)
RemoveInterval(map, id, len) == SubSeq(map, 1, id) \o SubSeq(map, id + len + 1, Len(map))

AddIntervalUnmerged(map, i) ==  \* Slip: intervals stay apart that touch
    InsertInterval(map, LocatePosition(map, i.from).id, i)

(* Intervals that touch the new one are made one with it.  One that lies   *)
(* inside it goes, and then so does the interval behind it, unless the new *)
(* one ends in an interval: removeInterval is called for one too many.     *)
AddInterval(map, i) ==
    LET Start(from) == IF from.isSelected THEN map[from.id + 1].from ELSE i.from
        End(to) == IF to.isSelected THEN map[to.id + 1].to ELSE i.to
        Gone(from, to) ==
          to.id - from.id + IF to.isSelected \/ (~from.isSelected /\ to.id > from.id) THEN 1 ELSE 0
        Added(from, to) ==
          InsertInterval(RemoveInterval(map, from.id, Gone(from, to)), from.id, Between(Start(from), End(to)))
    IN  Added(LocatePosition(map, i.from), LocatePosition(map, i.to))

(* The interval in which the removal begins keeps what is before it, the   *)
(* one in which it ends what is behind it; one with both is split.  The    *)
(* same interval too many is lost when only the first is kept.             *)
DelInterval(map, i) ==
    LET KeepsStart(from) == from.isSelected /\ ~AtMost(i.from, map[from.id + 1].from)
        AtEnd(to) == to.isSelected /\ AtMost(map[to.id + 1].to, i.to)
        Next(to, keepsStart) ==
          to.id + (IF to.isSelected \/ keepsStart THEN 1 ELSE 0) + (IF AtEnd(to) /\ keepsStart THEN 1 ELSE 0)
        Without(from, to, keepsStart) ==
          SubSeq(map, 1, from.id)
          \o (IF keepsStart THEN << [map[from.id + 1] EXCEPT !.to = Turned(i.from)] >> ELSE <<>>)
          \o (IF to.isSelected /\ ~AtEnd(to) THEN << [map[to.id + 1] EXCEPT !.from = Turned(i.to)] >> ELSE <<>>)
          \o SubSeq(map, Next(to, keepsStart) + 1, Len(map))
        Removed(from, to) ==
          IF from.id = to.id /\ ~from.isSelected /\ ~to.isSelected THEN map
          ELSE Without(from, to, KeepsStart(from))
    IN  Removed(LocatePosition(map, i.from), LocatePosition(map, i.to))

(* clip: what is outside the lines of the bound goes, and each interval is *)
(* cut at its columns.                                                     *)
ClipColumns(map, left, right) ==
    LET Cut(ret, i) ==
          LET f == i.from.pos
              t == i.to.pos
              from == IF f.x <= right THEN Pos(IF f.x < left THEN left ELSE f.x, f.y)
                      ELSE Pos(left, f.y + 1)
              to == IF t.x >= left THEN Pos(IF t.x > right THEN right ELSE t.x, t.y)
                    ELSE Pos(right, t.y - 1)
              nothing == \/ f.y = t.y /\ (f.x > right \/ t.x < left)
                         \/ t.x < left /\ from.y >= t.y
          IN  IF nothing THEN ret ELSE AddInterval(ret, Between(Closed(from), Closed(to)))
    IN  FoldLeft(Cut, <<>>, map)

Clip(map, bound) ==
    LET limitFrom == Turned(bound.from)
        limitTo == Turned(bound.to)
        first == map[1].from
        last == Last(map).to
        Inside(above) ==
          IF above # <<>> /\ Below(first, limitFrom) THEN DelInterval(above, Between(first, limitFrom)) ELSE above
        Limited == Inside(IF Below(limitTo, last) THEN DelInterval(map, Between(limitTo, last)) ELSE map)
    IN  IF map = <<>> THEN <<>> ELSE ClipColumns(Limited, bound.from.pos.x, bound.to.pos.x)
=============================================================================

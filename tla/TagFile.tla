------------------------------ MODULE TagFile ------------------------------
(***************************************************************************)
(* Looking a tag up in a tag file (readtags/readtags.c): a binary search   *)
(* over the bytes of a sorted file, by seeking into the middle of some     *)
(* line and reading the next one, and a sequential search otherwise.       *)
(*                                                                         *)
(* A file is a sequence of lines.  Of a line only its name and the length  *)
(* of the rest matter: a line is its name, a tab, `rest' more bytes and a  *)
(* newline, or only a newline.  Names are compared byte by byte; the lines *)
(* at the top whose name begins with "!_" say how the file is sorted.      *)
(***************************************************************************)
EXTENDS Integers, Sequences, SequencesExt

CONSTANTS
    JumpBack,   \* JUMP_BACK, how far a search goes back at a time (512)
    PseudoTag,  \* the first byte of a pseudo tag, smaller than any other
    Freed       \* the names that freed memory may be taken for

TagFileAssumption == JumpBack \in Nat \ {0} /\ PseudoTag \in Nat

Unnamed == <<>>        \* a line without a name
Partial == << -1 >>   \* what is read from the middle of a name or later

Line(name, rest) == [name |-> name, rest |-> rest]

Size(line) == IF line.name = Unnamed THEN 1 ELSE Len(line.name) + line.rest + 2

Sizes(lines) == FoldLeft(LAMBDA n, line : n + Size(line), 0, lines)

Start(file, i) == Sizes(SubSeq(file, 1, i - 1))

IsPseudo(line) == line.name # Unnamed /\ line.name[1] = PseudoTag

LineAt(file, offset) ==
    CHOOSE i \in 1..Len(file) :
        Start(file, i) <= offset /\ offset < Start(file, i + 1)

-----------------------------------------------------------------------------
(* sTagFile while it is read: where the next line is read from, where the  *)
(* last one began, its number and its name, and whether there was one.     *)
Rewound == [next |-> 0, pos |-> 0, line |-> 0, name |-> Unnamed, ok |-> TRUE]

(* copyName(): the bytes up to a tab or the end of the line.               *)
NameFrom(line, offset) ==
    CASE offset = 0 -> line.name
      [] offset \in {Len(line.name), Size(line) - 1} -> Unnamed
      [] OTHER -> Partial

(* readTagLineRaw(): at the end of the file the old name stays.            *)
ReadTagLineRaw(file, r) ==
    IF r.next >= Sizes(file)
    THEN [r EXCEPT !.pos = r.next, !.ok = FALSE]
    ELSE LET i == LineAt(file, r.next)
         IN  [ next |-> Start(file, i + 1), pos |-> r.next, line |-> i,
               name |-> NameFrom(file[i], r.next - Start(file, i)), ok |-> TRUE ]

(* readTagLine(): lines without a name are skipped.                        *)
RECURSIVE ReadTagLine(_, _)
SkipUnnamed(file, read) ==
    IF read.ok /\ read.name = Unnamed THEN ReadTagLine(file, read) ELSE read
ReadTagLine(file, r) == SkipUnnamed(file, ReadTagLineRaw(file, r))

(* readTagLineSeek(): the first line read from inside the file is taken    *)
(* for a part of one.                                                      *)
ReadSecond(file, first, pos) == IF pos > 0 /\ first.ok THEN ReadTagLine(file, first) ELSE first
ReadTagLineSeek(file, r, pos) == ReadSecond(file, ReadTagLine(file, [r EXCEPT !.next = pos]), pos)

(* nameComparison(), for a full or a partial match.                        *)
RECURSIVE Compare(_, _)
Compare(a, b) ==
    CASE a = b -> 0
      [] a = <<>> \/ b = <<>> -> Len(a) - Len(b)
      [] OTHER -> IF Head(a) = Head(b) THEN Compare(Tail(a), Tail(b))
                                       ELSE Head(a) - Head(b)

NameComparison(search, name) ==
    LET Cut(s) == IF search.partial /\ search.nameLength < Len(s)
                  THEN SubSeq(s, 1, search.nameLength) ELSE s
    IN  Compare(Cut(search.name), Cut(name))

Matches(search, name) == NameComparison(search, name) = 0

-----------------------------------------------------------------------------
(* findFirstNonMatchBefore(): goes back by JumpBack bytes at a time.       *)
Back(pos) == IF pos < JumpBack THEN 0 ELSE pos - JumpBack

RECURSIVE FindFirstNonMatchFrom(_, _, _, _)
BackFrom(file, search, read, pos) ==
    IF read.ok /\ Matches(search, read.name) /\ pos > 0
    THEN FindFirstNonMatchFrom(file, search, read, Back(pos)) ELSE read
FindFirstNonMatchFrom(file, search, r, pos) ==
    BackFrom(file, search, ReadTagLineSeek(file, r, pos), pos)

BackOnce(file, search, r) == ReadTagLineSeek(file, r, Back(r.pos))  \* Slip: does not go on while it matches
FindFirstNonMatchBefore(file, search, r) == FindFirstNonMatchFrom(file, search, r, Back(r.pos))

RECURSIVE ReadToMatch(_, _, _, _)
ReadOn(file, search, read, found, start) ==
    IF read.ok /\ ~found /\ read.pos < start THEN ReadToMatch(file, search, read, start)
    ELSE [read EXCEPT !.ok = found]
ReadMatched(file, search, read, start) == ReadOn(file, search, read, Matches(search, read.name), start)
ReadToMatch(file, search, r, start) == ReadMatched(file, search, ReadTagLine(file, r), start)

FindFirstMatchBefore(file, search, r) ==
    ReadToMatch(file, search, FindFirstNonMatchBefore(file, search, r), r.pos)

(* findBinary(): in the middle, the half before it, the half behind it.    *)
RECURSIVE Bisect(_, _, _, _, _, _, _)
Halve(file, search, read, comp, lower, upper, last, pos) ==
    CASE ~read.ok \/ (pos # last /\ comp = 0 /\ pos # 0) -> FindFirstMatchBefore(file, search, read)
      [] read.ok /\ pos = last -> [read EXCEPT !.ok = FALSE]
      [] read.ok /\ pos # last /\ comp < 0 ->
           Bisect(file, search, read, lower, pos, pos, lower + ((pos - lower) \div 2))
      [] read.ok /\ pos # last /\ comp > 0 ->
           Bisect(file, search, read, pos, upper, pos, pos + ((upper - pos) \div 2))
      [] OTHER -> read
Compared(file, search, read, lower, upper, last, pos) ==
    Halve(file, search, read, NameComparison(search, read.name), lower, upper, last, pos)
Bisect(file, search, r, lower, upper, last, pos) ==
    Compared(file, search, ReadTagLineSeek(file, r, pos), lower, upper, last, pos)

FindBinary(file, search) ==
    Bisect(file, search, Rewound, 0, Sizes(file), 0, Sizes(file) \div 2)

(* findSequential()                                                        *)
RECURSIVE FindSequential(_, _, _)
SequentialFrom(file, search, read) ==
    IF read.ok /\ ~Matches(search, read.name) THEN FindSequential(file, search, read) ELSE read
FindSequential(file, search, r) == SequentialFrom(file, search, ReadTagLine(file, r))

(* find() and findNext()                                                   *)
Find(file, sorted, search) ==
    IF sorted THEN FindBinary(file, search) ELSE FindSequential(file, search, Rewound)

FindNext(file, sorted, search, r) ==
    IF sorted
    THEN LET read == ReadTagLine(file, r)
         IN  [read EXCEPT !.ok = @ /\ Matches(search, read.name)]
    ELSE FindSequential(file, search, r)

(* What the callers do (tagJumpTo and readAllMatchingTags, tagStartsWith).*)
(* The search only points to the name they pass to tagsFind, which is a    *)
(* temporary and freed before they call tagsFindNext: each time, that may  *)
(* compare with the name or with anything else the memory then holds.      *)
Search(name, partial) == [name |-> name, nameLength |-> Len(name), partial |-> partial]

Overwritten(search, bytes) == [search EXCEPT !.name = bytes]

(* The numbers of the lines found, one after the other: all lists that can *)
(* come out, if the memory holds one of `held' at each call.               *)
RECURSIVE FoundFrom(_, _, _, _, _)
FoundFrom(file, sorted, search, held, r) ==
    IF ~r.ok THEN { <<>> }
    ELSE { << r.line >> \o found : found \in UNION
             { FoundFrom(file, sorted, search, held,
                         FindNext(file, sorted, Overwritten(search, bytes), r)) : bytes \in held } }

Found(file, sorted, search, held) ==
    FoundFrom(file, sorted, search, held, Find(file, sorted, search))

AnyFound(file, sorted, search) == Found(file, sorted, search, Freed \cup {search.name})
=============================================================================

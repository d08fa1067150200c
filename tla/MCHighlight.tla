---------------------------- MODULE MCHighlight ----------------------------
(***************************************************************************)
(* Highlighting texts in which comments open and close, with the rules of  *)
(* C for comments and continued lines.                                     *)
(***************************************************************************)
EXTENDS Highlight

CONSTANTS Char, MaxLines, MaxLength, MaxChars

NoContext == [to |-> "#stay"]
Pop == [to |-> "#pop", times |-> 1]
Go(name) == [to |-> name]
Rule(kind, arg, attr, context) ==
    [kind |-> kind, arg |-> arg, attr |-> attr, context |-> context, lookAhead |-> FALSE,
     firstNonSpace |-> FALSE, column |-> -1, subItems |-> <<>>]

C ==
  << [name |-> "Normal", attr |-> 0, lineEnd |-> NoContext, fallthrough |-> NoContext,
      items |-> << Rule("Detect2Chars", << "/", "/" >>, 1, Go("Line")),
                   Rule("Detect2Chars", << "/", "*" >>, 1, Go("Comment")),
                   [Rule("DetectChar", << "*" >>, NoAttribute, Go("Define")) EXCEPT !.column = 0] >>],
     [name |-> "Line", attr |-> 1, lineEnd |-> Pop, fallthrough |-> NoContext,
      items |-> << Rule("LineContinue", "", 1, NoContext) >>],
     [name |-> "Comment", attr |-> 2, lineEnd |-> NoContext, fallthrough |-> NoContext,
      items |-> << Rule("Detect2Chars", << "*", "/" >>, 2, Pop) >>],
     [name |-> "Define", attr |-> 3, lineEnd |-> Pop, fallthrough |-> Pop,
      items |-> << [Rule("AnyChar", {"/"}, NoAttribute, Go("Comment")) EXCEPT !.lookAhead = TRUE],
                   Rule("LineContinue", "", NoAttribute, NoContext) >>] >>

CommentChars == {"/", "*", "\\"}

Strings(n) == UNION { [1..m -> Char] : m \in 0..n }
Positions == { Cursor(x, y) : x \in 0..MaxLength, y \in 0..MaxLines - 1 }

Ordered(p, q) == p.y < q.y \/ (p.y = q.y /\ p.x <= q.x)

Typed == { << << c >> >> : c \in Char }
Pasted == { << <<>>, l >> : l \in Strings(1) }
Paste == \E pos \in Positions, data \in Typed \cup Pasted : Insert(pos, data)
Erase == \E from \in Positions, to \in Positions :
           Ordered(from, to) /\ Delete(OpenInterval(from, to))

Fits(t) ==
    /\ Len(t) <= MaxLines /\ \A n \in 1..Len(t) : Len(t[n]) <= MaxLength
    /\ Len(FlattenSeq(t)) <= MaxChars

MCNext == (Paste \/ Erase \/ MakeAttribs) /\ Fits(text')
MCSpec == Init /\ [][MCNext]_vars

Stale == { n \in 1..Len(text) : ~Fresh(n) }

(* YBuffer::updateHL stops at a line that ends in the contexts it had, and *)
(* looks at nothing else.  Of a text that is highlighted right, an edit    *)
(* inside a line leaves the highlighting right, but for a line behind one  *)
(* that began, or ceased, to be continued.                                 *)
Continued(n) == hl[n].hlLineContinue
EditsInLineKeepItRight ==
    LineCount(text') = LineCount(text) =>
      \A n \in 1..Len(text) : ~Fresh(n)' => n > 1 /\ (Continued(n - 1) # Continued(n - 1)')

(* Whatever is inserted or deleted in such a text, at most one line after  *)
(* it is wrong: the first that was not highlighted again.  (It is not right*)
(* because the line before it, new or merged, ends in other contexts than  *)
(* the line that was there.)                                               *)
AtMostOneWrong == Cardinality(Stale') <= 1
=============================================================================

----------------------------- MODULE Completion -----------------------------
(***************************************************************************)
(* Completing the word before the cursor while typing, with C-n and C-p    *)
(* (src/libyzis/mode_complete.cpp).  The first of them makes the list of   *)
(* proposals, each one after it puts another proposal in the place of the  *)
(* one before; any other key ends the completion and is then typed.        *)
(*                                                                         *)
(* The mode is on top of the modes of Editing as long as there is a prefix.*)
(* C-x pushes it without one: what is typed next does as it does without.  *)
(***************************************************************************)
EXTENDS Editing

CONSTANTS
  CompleteOption,  \* the option "complete": which sources, in which order
  OtherTexts,      \* the texts of the other buffers, in the order of their list
  TagNames         \* the names in the tag files, in their order

VARIABLES
  mPrefix,               \* what was there to complete; <<>> if nothing is completed
  mCompletionStart,      \* where that begins
  mProposedCompletions,  \* the prefix, then what it may be completed to
  mCurrentProposal,      \* which of them is in the text, from 0 on
  mLastKey,              \* the key typed last: C-n or C-p
  mForward               \* does that one lead on in the list?

completionVars ==
    << mPrefix, mCompletionStart, mProposedCompletions, mCurrentProposal, mLastKey, mForward >>

CompletionKeys == {"C-n", "C-p"}
Completing == mPrefix # <<>>

-----------------------------------------------------------------------------
(* completeFromBuffer: the words of a text that begin with the prefix, one *)
(* after the other; the search goes on where a match ends, which is where  *)
(* its word does.                                                          *)
BeginsAt(l, prefix) == { i \in WordRuns(l, IsWord) : IsPrefix(prefix, Mid(l, i)) }
CompleteFromBuffer(t, prefix) ==
    LET matches == UNION { { Cursor(i, y) : i \in BeginsAt(Textline(t, y), prefix) } : y \in 0..LastLine(t) }
        inOrder == SetToSortSeq(matches, Before)
    IN  [k \in 1..Len(inOrder) |-> [at |-> inOrder[k], word |-> GetWordAt(t, inOrder[k])]]
WordsOf(matches) == [k \in 1..Len(matches) |-> matches[k].word]

(* What is proposed already is not proposed again.                         *)
AddWord(proposed, word) == IF Contains(proposed, word) THEN proposed ELSE Append(proposed, word)
AddWords(proposed, words) == FoldLeft(AddWord, proposed, words)

CompleteFromCurrentBufferOnward(t, start, forward, prefix, proposed) ==  \* Slip: not round the end
    LET matches == CompleteFromBuffer(t, prefix)
        startidx == CHOOSE k \in 1..Len(matches) : matches[k].at = start
    IN  AddWords(proposed, WordsOf(IF forward THEN SubSeq(matches, startidx + 1, Len(matches))
                                   ELSE Reverse(SubSeq(matches, 1, startidx - 1))))

(* The current buffer: from the match that is being completed on, round the*)
(* end of the text; backwards, though, no further than to its start.       *)
CompleteFromCurrentBuffer(t, start, forward, prefix, proposed) ==
    LET matches == CompleteFromBuffer(t, prefix)
        startidx == CHOOSE k \in 1..Len(matches) : matches[k].at = start
        before == SubSeq(matches, 1, startidx - 1)
        behind == SubSeq(matches, startidx + 1, Len(matches))
    IN  AddWords(proposed, WordsOf(IF forward THEN behind \o before ELSE Reverse(before)))

CompleteFromOtherBuffers(prefix, proposed) ==
    LET OfBuffer(words, t) == AddWords(words, WordsOf(CompleteFromBuffer(t, prefix)))
    IN  FoldLeft(OfBuffer, proposed, OtherTexts)

(* tagStartsWith.                                                          *)
TagStartsWith(prefix) == SelectSeq(TagNames, LAMBDA name : IsPrefix(prefix, name))
CompleteFromTags(prefix, proposed) == AddWords(proposed, TagStartsWith(prefix))

(* initCompletion: the word up to the cursor, which must end in a letter or*)
(* a digit, and the sources of the option one by one.                      *)
Completable == cursor.x > 0 /\ IsWord(Textline(text, cursor.y)[cursor.x])
Start == MoveWordBackward(text, cursor, 1)
PrefixAt(start) == DataRegion(text, ClosedInterval(start, Cursor(cursor.x - 1, cursor.y)))[1]
Proposals(start, forward, prefix) ==
    LET From(proposed, source) ==
          CASE source = "." -> CompleteFromCurrentBuffer(text, start, forward, prefix, proposed)
            [] source \in {"w", "b", "u", "U"} -> CompleteFromOtherBuffers(prefix, proposed)
            [] source \in {"t", "]"} -> CompleteFromTags(prefix, proposed)
            [] source = "i" -> proposed  \* not implemented
    IN  FoldLeft(From, << prefix >>, CompleteOption)

-----------------------------------------------------------------------------
(* doComplete: the next proposal or the one before, round the ends of the  *)
(* list, in the place of what there is from the start on.                  *)
NextProposal(current, size, forward) ==
    IF forward THEN IF current = size - 1 THEN 0 ELSE current + 1
    ELSE IF current = 0 THEN size - 1 ELSE current - 1

ReplaceText(t, pos, length, new) == InsertRegion(DelChar(t, pos, length), pos, << new >>)

DoComplete(start, proposed, current, forward) ==
    LET next == NextProposal(current, Len(proposed), forward)
        proposal == proposed[next + 1]
    IN  /\ mCurrentProposal' = next
        /\ Typed(ReplaceText(text, start, cursor.x - start.x, proposal),
                 Cursor(start.x + Len(proposal), cursor.y))

(* The first key of a completion: forward in the list, whichever it is.    *)
BeginCompletion(key) ==
    /\ ~Completing /\ Completable
    /\ LET prefix == PrefixAt(Start)
           proposed == Proposals(Start, key = "C-n", prefix)
       IN  /\ mPrefix' = prefix /\ mCompletionStart' = Start /\ mProposedCompletions' = proposed
           /\ DoComplete(Start, proposed, 0, TRUE)
    /\ mLastKey' = key /\ mForward' = TRUE

(* Nothing to complete: the mode is left at once.                          *)
AbortCompletion(key) ==
    /\ ~Completing /\ ~Completable
    /\ mLastKey' = key /\ mForward' = TRUE
    /\ UNCHANGED << vars, mPrefix, mCompletionStart, mProposedCompletions, mCurrentProposal >>

(* Another key than the last one turns round.                              *)
ContinueCompletion(key) ==
    /\ Completing
    /\ mForward' = (IF key = mLastKey THEN mForward ELSE ~mForward)
    /\ DoComplete(mCompletionStart, mProposedCompletions, mCurrentProposal, mForward')
    /\ mLastKey' = key
    /\ UNCHANGED << mPrefix, mCompletionStart, mProposedCompletions >>

(* Any other key: the mode is left, and the key sent again.                *)
TypeWithoutCompleting ==
    /\ TypingKeys
    /\ mPrefix' = <<>>
    /\ UNCHANGED << mCompletionStart, mProposedCompletions, mCurrentProposal, mLastKey, mForward >>

CompletionInit ==
    /\ mPrefix = <<>> /\ mCompletionStart = Cursor(0, 0) /\ mProposedCompletions = <<>>
    /\ mCurrentProposal = 0 /\ mLastKey = "C-n" /\ mForward = TRUE

CompletionNext ==
    /\ mode \in Typing
    /\ \/ \E key \in CompletionKeys :
            BeginCompletion(key) \/ AbortCompletion(key) \/ ContinueCompletion(key)
       \/ TypeWithoutCompleting
=============================================================================

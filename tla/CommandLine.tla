----------------------------- MODULE CommandLine -----------------------------
(***************************************************************************)
(* The line ex commands are typed on (src/libyzis/mode_ex.cpp): its keys,  *)
(* the completion of names with Tab, and the commands entered before       *)
(* (history.cpp).  What a command does is in ExCommands and elsewhere.     *)
(***************************************************************************)
EXTENDS Motions

CONSTANTS
  CommandNames, FileNames,  \* in their order; files in the current directory
  Prefix,                   \* what entries of that directory begin with: "./"
  LineChars,                \* the characters that may be typed
  MaxLine, MaxEntries       \* bounds: of what is typed, and of the commands entered

VARIABLES
  line,           \* guiGetCommandLineText
  possibilities,  \* YModeEx::mCompletePossibilities
  searched,       \* mCompletionCurrentSearch
  proposal,       \* mCurrentCompletionProposal
  entries,        \* YZHistory::entries
  current         \* YZHistory::current, an index

lineVars == << line, possibilities, searched, proposal, entries, current >>

-----------------------------------------------------------------------------
(* The words of the line, from their starts and lengths.                   *)
WordStarts(l) == { i \in 0..Len(l) - 1 : NonSpace(l[i + 1]) /\ (i = 0 \/ IsSpace(l[i])) }
WordAt(l, i) == SubSeq(l, i + 1, i + Run(l, i, NonSpace))
LastWord(l) == WordAt(l, Max(WordStarts(l)))
Chop(l, n) == SubSeq(l, 1, Max({0, Len(l) - n}))

(* The first Tab makes the list: of files after a word and a blank or for  *)
(* a second word, of commands for a first one.  What was there comes last. *)
WithPrefix(names, word) == SelectSeq(names, LAMBDA name : IsPrefix(word, name))
Found(list, word) == [list |-> Append(list, word), word |-> word]
FilesInDirectory(word) ==
    LET names == WithPrefix(FileNames, word)
    IN  [ i \in 1..Len(names) |-> Prefix \o names[i] ]
Searched(l) ==
    LET words == Cardinality(WordStarts(l))
        ended == l # <<>> /\ IsSpace(Last(l))
    IN  CASE words = 2 -> Found(FilesInDirectory(LastWord(l)), LastWord(l))
          [] words = 1 /\ ended -> Found(FileNames, <<>>)
          [] words = 1 /\ ~ended -> Found(WithPrefix(CommandNames, LastWord(l)), LastWord(l))
          [] OTHER -> [list |-> <<>>, word |-> <<>>]

ResetCompletion == possibilities' = <<>> /\ searched' = <<>> /\ proposal' = 0

CompleteChoppingNext ==  \* Slip: as many characters as the next proposal has
    LET first == possibilities = <<>>
        s == IF first THEN Searched(line) ELSE [list |-> possibilities, word |-> searched]
        next == IF proposal >= Len(s.list) THEN 1 ELSE proposal + 1
        kept == Chop(line, IF first THEN Len(s.word) ELSE Len(s.list[next]))
    IN  IF Len(s.list) > 1
        THEN /\ possibilities' = s.list /\ searched' = s.word
             /\ proposal' = next
             /\ line' = kept \o s.list[next]
        ELSE ResetCompletion /\ UNCHANGED line

(* completeCommandLine: each further Tab takes the proposal before it off  *)
(* the line, counted in characters, and puts the next one on.              *)
Complete ==
    LET first == possibilities = <<>>
        s == IF first THEN Searched(line) ELSE [list |-> possibilities, word |-> searched]
        kept == Chop(line, IF first THEN Len(s.word) ELSE Len(possibilities[proposal]))
        next == IF proposal >= Len(s.list) THEN 1 ELSE proposal + 1
    IN  IF Len(s.list) > 1
        THEN /\ possibilities' = s.list /\ searched' = s.word
             /\ proposal' = next
             /\ line' = kept \o s.list[next]
        ELSE ResetCompletion /\ UNCHANGED line

-----------------------------------------------------------------------------
(* Every other key ends the completion.                                    *)
Line(l) == line' = l /\ ResetCompletion
Keep == UNCHANGED << entries, current >>

Type(ch) == Len(line) < MaxLine /\ Line(Append(line, ch)) /\ Keep
EraseBack == Line(Chop(line, 1)) /\ Keep
EraseLine == Line(<<>>) /\ Keep

(* C-w: \b\S+\s*$, at the last place it matches.                           *)
EraseWord ==
    LET Boundary(i) == (i > 0 /\ IsWord(line[i])) # (i < Len(line) /\ IsWord(line[i + 1]))
        at == { i \in 0..Len(line) : Boundary(i) /\ RunAndThen(line, i, NonSpace, IsSpace) > 0
                                     /\ i + RunAndThen(line, i, NonSpace, IsSpace) = Len(line) }
    IN  Line(IF at = {} THEN line ELSE Left(line, Max(at))) /\ Keep

(* YZHistory: a command entered replaces the ones after the current one.   *)
Entry(i) == IF i <= Len(entries) THEN entries[i] ELSE <<>>
ShowEntry(i) == current' = i /\ Line(Entry(i)) /\ UNCHANGED entries
GoBackInTime == ShowEntry(Max({1, current - 1}))
GoForwardInTime == ShowEntry(Min({Len(entries) + 1, current + 1}))
AddEntry ==
    IF line = <<>> THEN UNCHANGED << entries, current >>
    ELSE /\ entries' = Append(SubSeq(entries, 1, current - 1), line)
         /\ current' = current + 1

(* Enter, Esc and Backspace on an empty line leave ex mode; the next ":"   *)
(* begins with an empty line.                                              *)
EnterLine == Line(<<>>) /\ AddEntry
LeaveLine == Line(<<>>) /\ Keep

LineInit ==
    /\ line = <<>> /\ possibilities = <<>> /\ searched = <<>> /\ proposal = 0
    /\ entries = <<>> /\ current = 1

LineNext ==
    /\ \/ \E ch \in LineChars : Type(ch)
       \/ Complete /\ Keep
       \/ EraseBack \/ EraseLine \/ EraseWord
       \/ GoBackInTime \/ GoForwardInTime
       \/ EnterLine \/ LeaveLine
    /\ Len(entries') <= MaxEntries
=============================================================================

----------------------------- MODULE UndoHistory -----------------------------
(***************************************************************************)
(* What an undo facility promises its user, with none of the bookkeeping   *)
(* of src/libyzis/undo.cpp: two stacks of changes and the change being     *)
(* made.  A change is a sequence of operations and moves as a whole.       *)
(*                                                                         *)
(*   done    changes that have been made, the oldest first                 *)
(*   undone  changes that have been undone, the next to redo first         *)
(*   open    the operations of the change in progress                      *)
(*                                                                         *)
(* UndoBuffer implements it: mUndoItemList cut at mCurrentIndex.           *)
(***************************************************************************)
EXTENDS Integers, Sequences

CONSTANT Operation

VARIABLES done, undone, open

vars == << done, undone, open >>

Change == Seq(Operation) \ {<<>>}

TypeOK ==
    /\ done \in Seq(Change)
    /\ undone \in Seq(Change)
    /\ open \in Seq(Operation)

Init == done = <<>> /\ undone = <<>> /\ open = <<>>

(* An operation is made: whatever could be redone is forgotten.            *)
Record(op) ==
    /\ open' = Append(open, op)
    /\ undone' = <<>>
    /\ UNCHANGED done

(* The change in progress is complete.                                     *)
Commit ==
    /\ open # <<>>
    /\ done' = Append(done, open)
    /\ open' = <<>>
    /\ undone' = <<>>

Undo ==
    /\ done # <<>>
    /\ undone' = << done[Len(done)] >> \o undone
    /\ done' = SubSeq(done, 1, Len(done) - 1)
    /\ UNCHANGED open

Redo ==
    /\ undone # <<>>
    /\ done' = Append(done, undone[1])
    /\ undone' = SubSeq(undone, 2, Len(undone))
    /\ UNCHANGED open

Next == Commit \/ Undo \/ Redo \/ \E op \in Operation : Record(op)

Spec == Init /\ [][Next]_vars

=============================================================================

----------------------------- MODULE UndoBuffer -----------------------------
(***************************************************************************)
(* YZUndoBuffer (src/libyzis/undo.h, undo.cpp): the undo list of a buffer. *)
(*                                                                         *)
(* Operations on the text are recorded one by one in mFutureUndoItem;      *)
(* commitUndoItem closes it and appends it to mUndoItemList.  The first    *)
(* mCurrentIndex items are done, the others can be redone.                 *)
(*                                                                         *)
(* undo() and redo() perform the operations of an item on the buffer, and  *)
(* the buffer answers each with a call of addBufferOperation, as for any   *)
(* edit.  They are therefore modelled at that grain: the call begins       *)
(* (StartUndo, StartRedo), performs one operation after the other          *)
(* (PerformOperation) and ends (FinishUndo, FinishRedo); `replay' is what  *)
(* it has still to perform.  Only mInsideUndo keeps the replay from being  *)
(* recorded.                                                               *)
(*                                                                         *)
(* The operations are left abstract here; module Buffer gives them.        *)
(***************************************************************************)
EXTENDS Integers, Sequences, SequencesExt

CONSTANTS
    Operation,  \* the operations on a buffer
    Position    \* the cursor positions kept with an item

VARIABLES
    mFutureUndoItem,  \* [ops, start]: the item being recorded
    mUndoItemList,    \* the committed items, [ops, start] each
    mCurrentIndex,    \* how many of them are done
    mInsideUndo,      \* are recording and committing switched off?
    replay            \* [dir, ops]: the running call of undo() or redo()

vars == << mFutureUndoItem, mUndoItemList, mCurrentIndex, mInsideUndo, replay >>

Idle == [dir |-> "none", ops |-> <<>>]

UndoItem == [ops : Seq(Operation), start : Position]

TypeOK ==
    /\ mFutureUndoItem \in UndoItem
    /\ mUndoItemList \in Seq(UndoItem)
    /\ mCurrentIndex \in 0..Len(mUndoItemList)
    /\ mInsideUndo \in BOOLEAN
    /\ replay \in [dir : {"none", "undo", "redo"}, ops : Seq(Operation)]

Init ==
    /\ \E start \in Position : mFutureUndoItem = [ops |-> <<>>, start |-> start]
    /\ mUndoItemList = <<>>
    /\ mCurrentIndex = 0
    /\ mInsideUndo = FALSE
    /\ replay = Idle

(* Definitions marked "Slip" are mistakes the runs are shown to notice (see *)
(* README.md); nothing uses them.                                          *)
ItemsBeforeCurrent == SubSeq(mUndoItemList, 1, mCurrentIndex - 1)  \* Slip

(* removeUndoItemAfterCurrent: what could be redone is dropped.            *)
ItemsUpToCurrent == SubSeq(mUndoItemList, 1, mCurrentIndex)

CommitAnyUndoItem(cursor) ==  \* Slip: commits an item with no operation
    IF mInsideUndo
    THEN UNCHANGED vars
    ELSE /\ mUndoItemList' = Append(ItemsUpToCurrent, mFutureUndoItem)
         /\ mCurrentIndex' = mCurrentIndex + 1
         /\ mFutureUndoItem' = [ops |-> <<>>, start |-> cursor]
         /\ UNCHANGED << mInsideUndo, replay >>

(* commitUndoItem(cursorX, cursorY)                                        *)
CommitUndoItem(cursor) ==
    IF mInsideUndo \/ mFutureUndoItem.ops = <<>>
    THEN UNCHANGED vars
    ELSE /\ mUndoItemList' = Append(ItemsUpToCurrent, mFutureUndoItem)
         /\ mCurrentIndex' = mCurrentIndex + 1
         /\ mFutureUndoItem' = [ops |-> <<>>, start |-> cursor]
         /\ UNCHANGED << mInsideUndo, replay >>

AddBufferOperationKeepingRedo(op) ==  \* Slip: what was undone stays
    IF mInsideUndo
    THEN UNCHANGED << mFutureUndoItem, mUndoItemList >>
    ELSE /\ mFutureUndoItem' = [mFutureUndoItem EXCEPT !.ops = Append(@, op)]
         /\ UNCHANGED mUndoItemList

(* addBufferOperation(type, data, interval)                                *)
AddBufferOperation(op) ==
    IF mInsideUndo
    THEN UNCHANGED << mFutureUndoItem, mUndoItemList >>
    ELSE /\ mFutureUndoItem' = [mFutureUndoItem EXCEPT !.ops = Append(@, op)]
         /\ mUndoItemList' = ItemsUpToCurrent

(* undo(pView)                                                             *)
MayUndo == mCurrentIndex > 0

StartUndoInOrder ==  \* Slip: the oldest operation first
    /\ replay = Idle
    /\ MayUndo
    /\ mInsideUndo' = TRUE
    /\ replay' = [dir |-> "undo", ops |-> mUndoItemList[mCurrentIndex].ops]
    /\ UNCHANGED << mFutureUndoItem, mUndoItemList, mCurrentIndex >>

StartUndoRecording ==  \* Slip: recording stays on
    /\ replay = Idle
    /\ MayUndo
    /\ replay' = [dir |-> "undo", ops |-> Reverse(mUndoItemList[mCurrentIndex].ops)]
    /\ UNCHANGED << mFutureUndoItem, mUndoItemList, mCurrentIndex, mInsideUndo >>

StartUndo ==
    /\ replay = Idle
    /\ MayUndo
    /\ mInsideUndo' = TRUE
    /\ replay' = [dir |-> "undo", ops |-> Reverse(mUndoItemList[mCurrentIndex].ops)]
    /\ UNCHANGED << mFutureUndoItem, mUndoItemList, mCurrentIndex >>

FinishUndo ==
    /\ replay = [dir |-> "undo", ops |-> <<>>]
    /\ mCurrentIndex' = mCurrentIndex - 1
    /\ mInsideUndo' = FALSE
    /\ replay' = Idle
    /\ UNCHANGED << mFutureUndoItem, mUndoItemList >>

(* redo(pView)                                                             *)
MayRedo == mCurrentIndex < Len(mUndoItemList)

StartRedoOfLast ==  \* Slip: the newest item, not the next one
    /\ replay = Idle
    /\ MayRedo
    /\ mInsideUndo' = TRUE
    /\ mCurrentIndex' = mCurrentIndex + 1
    /\ replay' = [dir |-> "redo", ops |-> Last(mUndoItemList).ops]
    /\ UNCHANGED << mFutureUndoItem, mUndoItemList >>

StartRedo ==
    /\ replay = Idle
    /\ MayRedo
    /\ mInsideUndo' = TRUE
    /\ mCurrentIndex' = mCurrentIndex + 1
    /\ replay' = [dir |-> "redo", ops |-> mUndoItemList[mCurrentIndex'].ops]
    /\ UNCHANGED << mFutureUndoItem, mUndoItemList >>

FinishRedoInside ==  \* Slip: recording stays off
    /\ replay = [dir |-> "redo", ops |-> <<>>]
    /\ replay' = Idle
    /\ UNCHANGED << mFutureUndoItem, mUndoItemList, mCurrentIndex, mInsideUndo >>

FinishRedo ==
    /\ replay = [dir |-> "redo", ops |-> <<>>]
    /\ mInsideUndo' = FALSE
    /\ replay' = Idle
    /\ UNCHANGED << mFutureUndoItem, mUndoItemList, mCurrentIndex >>

(* performOperation: the buffer carries out the next operation, or its     *)
(* opposite.                                                               *)
PerformOperation ==
    /\ replay.ops # <<>>
    /\ replay' = [replay EXCEPT !.ops = Tail(@)]
    /\ UNCHANGED << mCurrentIndex, mInsideUndo >>

-----------------------------------------------------------------------------
(* What the buffer and the modes call, one at a time.  A view may call     *)
(* undo with operations recorded and not committed: <C-a> leaves one.      *)
Edit ==
    /\ replay = Idle
    /\ \E op \in Operation : AddBufferOperation(op)
    /\ UNCHANGED << mCurrentIndex, mInsideUndo, replay >>

Commit ==
    /\ replay = Idle
    /\ \E cursor \in Position : CommitUndoItem(cursor)

(* The buffer reports what it did, whatever that is, to addBufferOperation.*)
Perform ==
    /\ PerformOperation
    /\ \E op \in Operation : AddBufferOperation(op)

Next ==
    \/ Edit \/ Commit
    \/ StartUndo \/ FinishUndo
    \/ StartRedo \/ FinishRedo
    \/ Perform

Spec == Init /\ [][Next]_vars

-----------------------------------------------------------------------------
(* undo() and redo() are never overtaken by a commit or an edit: the calls *)
(* that record are switched off exactly while one of them runs, and an undo*)
(* runs on an item that exists (src/libyzis/undo.cpp:181-235).             *)
ReplayIsInside ==
    /\ mInsideUndo <=> replay.dir # "none"
    /\ replay.dir = "none" => replay.ops = <<>>
    /\ replay.dir # "none" => mCurrentIndex > 0

(* An item is never empty, so a successful u always changes something.     *)
ItemsHaveOperations ==
    \A i \in DOMAIN mUndoItemList : mUndoItemList[i].ops # <<>>

(* What u finds when it is called: an item with something to undo, and no  *)
(* undo or redo still under way.                                           *)
ItemsAreReplayable == ReplayIsInside /\ ItemsHaveOperations

(* What undo() and redo() make the buffer do is not recorded: it would     *)
(* append to the item being recorded, and cut off what can be redone.      *)
ReplayKeepsRecord ==
    [][replay # Idle => UNCHANGED << mFutureUndoItem, mUndoItemList >>]_vars

(* The items before mCurrentIndex are the stack of changes done, those     *)
(* after it the stack of changes undone.                                   *)
Changes(items) == [i \in DOMAIN items |-> items[i].ops]

Done == Changes(SubSeq(mUndoItemList, 1, mCurrentIndex))
Undone == Changes(SubSeq(mUndoItemList, mCurrentIndex + 1, Len(mUndoItemList)))

History == INSTANCE UndoHistory WITH
    done <- Done, undone <- Undone, open <- mFutureUndoItem.ops

HistorySpec == History!Spec

=============================================================================

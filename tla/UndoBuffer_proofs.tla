------------------------- MODULE UndoBuffer_proofs -------------------------
(***************************************************************************)
(* Proofs about UndoBuffer, for any operations and positions and lists of  *)
(* any length: its invariants, the action property, and that it implements *)
(* UndoHistory.                                                            *)
(***************************************************************************)
EXTENDS UndoBuffer, SequenceTheorems, TLAPS

(* The inductive invariant.  Only together are the parts inductive: an     *)
(* undo decrements mCurrentIndex at its end, so it must be known that it   *)
(* runs on an item; a commit would shorten the list under a running undo,  *)
(* so it must be known that recording is off then.                         *)
IInv == TypeOK /\ ReplayIsInside /\ ItemsHaveOperations

-----------------------------------------------------------------------------
(* Reversing a sequence of operations gives one of the same length: what   *)
(* undo() replays is made of recorded operations (undo.cpp:196-204).       *)
LEMMA ReverseType ==
    ASSUME NEW S, NEW s \in Seq(S)
    PROVE  Reverse(s) \in Seq(S) /\ Len(Reverse(s)) = Len(s)
<1>1. \A i \in 1..Len(s) : s[(Len(s) - i) + 1] \in S
    <2> TAKE i \in 1..Len(s)
    <2>1. (Len(s) - i) + 1 \in 1..Len(s)
        OBVIOUS
    <2> QED BY <2>1, ElementOfSeq
<1>2. [i \in 1..Len(s) |-> s[(Len(s) - i) + 1]] \in [1..Len(s) -> S]
    BY <1>1
<1> QED BY <1>2 DEF Reverse

(* removeUndoItemAfterCurrent keeps the first mCurrentIndex items and only *)
(* them (undo.cpp:160-167).                                                *)
LEMMA KeptItems ==
    ASSUME TypeOK
    PROVE  /\ ItemsUpToCurrent \in Seq(UndoItem)
           /\ Len(ItemsUpToCurrent) = mCurrentIndex
           /\ \A i \in 1..mCurrentIndex : ItemsUpToCurrent[i] = mUndoItemList[i]
<1>1. /\ mUndoItemList \in Seq(UndoItem)
      /\ mCurrentIndex \in 0..Len(mUndoItemList)
    BY DEF TypeOK
<1>2. \A i \in 1..mCurrentIndex : mUndoItemList[i] \in UndoItem
    BY <1>1, ElementOfSeq
<1> QED BY <1>1, <1>2, SubSeqProperties DEF ItemsUpToCurrent

-----------------------------------------------------------------------------
(* A new undo buffer satisfies the invariant (undo.cpp:95-102).            *)
LEMMA InitInv == Init => IInv
<1> SUFFICES ASSUME Init PROVE IInv
    OBVIOUS
<1>1. <<>> \in Seq(Operation) /\ <<>> \in Seq(UndoItem) /\ Len(<<>>) = 0
    BY EmptySeq
<1>2. TypeOK
    <2>1. mFutureUndoItem \in UndoItem
        BY <1>1 DEF Init, UndoItem
    <2>2. mUndoItemList \in Seq(UndoItem) /\ mCurrentIndex \in 0..Len(mUndoItemList)
        BY <1>1 DEF Init
    <2>3. mInsideUndo \in BOOLEAN /\ replay \in [dir : {"none", "undo", "redo"}, ops : Seq(Operation)]
        BY <1>1 DEF Init, Idle
    <2> QED BY <2>1, <2>2, <2>3 DEF TypeOK
<1>3. ReplayIsInside /\ ItemsHaveOperations
    BY DEF Init, ReplayIsInside, ItemsHaveOperations, Idle
<1> QED BY <1>2, <1>3 DEF IInv

(* addBufferOperation keeps the lists well formed (undo.cpp:143-158).      *)
LEMMA AddInv ==
    ASSUME IInv, NEW op \in Operation, AddBufferOperation(op)
    PROVE  /\ mFutureUndoItem' \in UndoItem
           /\ mUndoItemList' \in Seq(UndoItem)
           /\ mCurrentIndex \in 0..Len(mUndoItemList')
           /\ ItemsHaveOperations'
<1> USE DEF IInv
<1>1. CASE mInsideUndo
    BY <1>1 DEF AddBufferOperation, TypeOK, ItemsHaveOperations
<1>2. CASE ~mInsideUndo
    <2>1. /\ mFutureUndoItem' = [mFutureUndoItem EXCEPT !.ops = Append(@, op)]
          /\ mUndoItemList' = ItemsUpToCurrent
        BY <1>2 DEF AddBufferOperation
    <2>2. mFutureUndoItem' \in UndoItem
        <3>1. mFutureUndoItem \in UndoItem
            BY DEF TypeOK
        <3>2. Append(mFutureUndoItem.ops, op) \in Seq(Operation)
            BY <3>1, AppendProperties DEF UndoItem
        <3> QED BY <2>1, <3>1, <3>2 DEF UndoItem
    <2>3. ItemsHaveOperations'
        <3>1. /\ DOMAIN ItemsUpToCurrent = 1..mCurrentIndex
              /\ DOMAIN mUndoItemList = 1..Len(mUndoItemList)
              /\ mCurrentIndex <= Len(mUndoItemList)
            BY KeptItems, LenProperties DEF TypeOK
        <3>2. \A i \in 1..mCurrentIndex : ItemsUpToCurrent[i] = mUndoItemList[i]
            BY KeptItems
        <3> QED BY <2>1, <3>1, <3>2 DEF ItemsHaveOperations, TypeOK
    <2> QED BY <2>1, <2>2, <2>3, KeptItems DEF TypeOK
<1> QED BY <1>1, <1>2

(* The invariant is preserved by every step.                               *)
LEMMA StepInv == IInv /\ [Next]_vars => IInv'
<1> SUFFICES ASSUME IInv, [Next]_vars PROVE IInv'
    OBVIOUS
<1> USE DEF IInv
<1>1. ASSUME Edit PROVE IInv'
    <2>1. PICK op \in Operation : AddBufferOperation(op)
        BY <1>1 DEF Edit
    <2>2. UNCHANGED << mCurrentIndex, mInsideUndo, replay >>
        BY <1>1 DEF Edit
    <2>3. TypeOK'
        BY <2>1, <2>2, AddInv DEF TypeOK
    <2> QED BY <2>1, <2>2, <2>3, AddInv DEF ReplayIsInside
<1>2. ASSUME Commit PROVE IInv'
    <2>1. PICK cursor \in Position : CommitUndoItem(cursor)
        BY <1>2 DEF Commit
    <2>2. CASE mInsideUndo \/ mFutureUndoItem.ops = <<>>
        BY <2>1, <2>2 DEF CommitUndoItem, vars, TypeOK, ReplayIsInside, ItemsHaveOperations
    <2>3. CASE ~(mInsideUndo \/ mFutureUndoItem.ops = <<>>)
        <3>1. /\ mUndoItemList' = Append(ItemsUpToCurrent, mFutureUndoItem)
              /\ mCurrentIndex' = mCurrentIndex + 1
              /\ mFutureUndoItem' = [ops |-> <<>>, start |-> cursor]
              /\ UNCHANGED << mInsideUndo, replay >>
            BY <2>1, <2>3 DEF CommitUndoItem
        <3>2. mFutureUndoItem \in UndoItem /\ mFutureUndoItem.ops # <<>>
            BY <2>3 DEF TypeOK
        <3>3. /\ mUndoItemList' \in Seq(UndoItem)
              /\ Len(mUndoItemList') = mCurrentIndex + 1
              /\ mUndoItemList'[mCurrentIndex + 1] = mFutureUndoItem
              /\ \A i \in 1..mCurrentIndex : mUndoItemList'[i] = mUndoItemList[i]
            BY <3>1, <3>2, KeptItems, AppendProperties
        <3>4. mCurrentIndex \in Nat
            BY DEF TypeOK
        <3>5. mFutureUndoItem' \in UndoItem
            BY <3>1, EmptySeq DEF UndoItem
        <3>6. TypeOK'
            BY <3>1, <3>3, <3>4, <3>5 DEF TypeOK
        <3>7. ReplayIsInside'
            BY <3>1, <3>4 DEF ReplayIsInside
        <3>8. ItemsHaveOperations'
            BY <3>2, <3>3, <3>4 DEF ItemsHaveOperations, TypeOK
        <3> QED BY <3>6, <3>7, <3>8
    <2> QED BY <2>2, <2>3
<1>3. ASSUME StartUndo PROVE IInv'
    <2>1. mCurrentIndex \in 1..Len(mUndoItemList)
        BY <1>3 DEF StartUndo, MayUndo, TypeOK
    <2>2. mUndoItemList[mCurrentIndex] \in UndoItem
        BY <2>1, ElementOfSeq DEF TypeOK
    <2>3. Reverse(mUndoItemList[mCurrentIndex].ops) \in Seq(Operation)
        BY <2>2, ReverseType DEF UndoItem
    <2> QED BY <1>3, <2>1, <2>3 DEF StartUndo, TypeOK, ReplayIsInside, ItemsHaveOperations
<1>4. ASSUME FinishUndo PROVE IInv'
    <2>1. mCurrentIndex \in 1..Len(mUndoItemList)
        BY <1>4 DEF FinishUndo, TypeOK, ReplayIsInside
    <2>2. mCurrentIndex' \in 0..Len(mUndoItemList)
        BY <1>4, <2>1 DEF FinishUndo, TypeOK
    <2>3. replay' = Idle /\ Idle \in [dir : {"none", "undo", "redo"}, ops : Seq(Operation)]
        BY <1>4, EmptySeq DEF FinishUndo, Idle
    <2>4. UNCHANGED << mFutureUndoItem, mUndoItemList >> /\ mInsideUndo' = FALSE
        BY <1>4 DEF FinishUndo
    <2>5. TypeOK'
        BY <2>2, <2>3, <2>4 DEF TypeOK
    <2>6. ReplayIsInside'
        BY <2>3, <2>4 DEF ReplayIsInside, Idle
    <2> QED BY <2>4, <2>5, <2>6 DEF ItemsHaveOperations
<1>5. ASSUME StartRedo PROVE IInv'
    <2>1. mCurrentIndex' \in 1..Len(mUndoItemList)
        BY <1>5 DEF StartRedo, MayRedo, TypeOK
    <2>2. mUndoItemList[mCurrentIndex'] \in UndoItem
        BY <2>1, ElementOfSeq DEF TypeOK
    <2>3. mUndoItemList[mCurrentIndex'].ops \in Seq(Operation)
        BY <2>2 DEF UndoItem
    <2> QED BY <1>5, <2>1, <2>3 DEF StartRedo, TypeOK, ReplayIsInside, ItemsHaveOperations
<1>6. ASSUME FinishRedo PROVE IInv'
    BY <1>6, EmptySeq DEF FinishRedo, TypeOK, ReplayIsInside, ItemsHaveOperations, Idle
<1>7. ASSUME Perform PROVE IInv'
    <2>1. PICK op \in Operation : AddBufferOperation(op)
        BY <1>7 DEF Perform
    <2>2. /\ replay.ops # <<>>
          /\ replay' = [replay EXCEPT !.ops = Tail(@)]
          /\ UNCHANGED << mCurrentIndex, mInsideUndo >>
        BY <1>7 DEF Perform, PerformOperation
    <2>3. Tail(replay.ops) \in Seq(Operation)
        BY <2>2, HeadTailProperties DEF TypeOK
    <2>4. /\ replay' \in [dir : {"none", "undo", "redo"}, ops : Seq(Operation)]
          /\ replay'.dir = replay.dir
        BY <2>2, <2>3 DEF TypeOK
    <2>5. TypeOK'
        BY <2>1, <2>2, <2>4, AddInv DEF TypeOK
    <2>6. ReplayIsInside'
        BY <2>2, <2>4 DEF ReplayIsInside
    <2> QED BY <2>1, <2>5, <2>6, AddInv
<1>8. ASSUME UNCHANGED vars PROVE IInv'
    BY <1>8 DEF vars, TypeOK, ReplayIsInside, ItemsHaveOperations
<1> QED BY <1>1, <1>2, <1>3, <1>4, <1>5, <1>6, <1>7, <1>8 DEF Next

(* The inductive invariant holds of every state of every behaviour.        *)
THEOREM InvHolds == Spec => []IInv
BY InitInv, StepInv, PTL DEF Spec

(* The lists of an undo buffer are well formed, and mCurrentIndex never    *)
(* leaves them: undo() and redo() find the item they ask for.              *)
THEOREM TypeCorrect == Spec => []TypeOK
BY InvHolds, PTL DEF IInv

(* Recording and committing are off exactly while undo() or redo() runs.   *)
THEOREM ReplayIsInsideHolds == Spec => []ReplayIsInside
BY InvHolds, PTL DEF IInv

(* No empty item is ever committed: every u undoes something.              *)
THEOREM ItemsHaveOperationsHolds == Spec => []ItemsHaveOperations
BY InvHolds, PTL DEF IInv

(* So what u and C-r find can be replayed, and is replayed by itself.      *)
THEOREM ItemsAreReplayableHolds == Spec => []ItemsAreReplayable
BY ReplayIsInsideHolds, ItemsHaveOperationsHolds, PTL DEF ItemsAreReplayable

(* What undo() and redo() make the buffer do is never recorded, so they    *)
(* cannot destroy what can be redone.                                      *)
THEOREM ReplayKeepsRecordHolds == Spec => ReplayKeepsRecord
<1>1. IInv /\ [Next]_vars
        => [replay # Idle => UNCHANGED << mFutureUndoItem, mUndoItemList >>]_vars
    <2> SUFFICES ASSUME IInv, Next, replay # Idle
                 PROVE  UNCHANGED << mFutureUndoItem, mUndoItemList >>
        OBVIOUS
    <2>1. mInsideUndo
        BY DEF IInv, ReplayIsInside, TypeOK, Idle
    <2> QED BY <2>1 DEF Next, Edit, Commit, StartUndo, StartRedo, FinishUndo, FinishRedo,
                        Perform, AddBufferOperation
<1> QED BY <1>1, InvHolds, PTL DEF Spec, ReplayKeepsRecord

-----------------------------------------------------------------------------
(* The refinement of UndoHistory.                                          *)

(* The changes of a part of the list: as many, in the same order.          *)
LEMMA ChangesOfPart ==
    ASSUME NEW list \in Seq(UndoItem), NEW m \in 1..Len(list) + 1, NEW n \in m - 1..Len(list)
    PROVE  /\ Changes(SubSeq(list, m, n)) \in Seq(Seq(Operation))
           /\ Len(Changes(SubSeq(list, m, n))) = n - m + 1
           /\ \A i \in 1..n - m + 1 : Changes(SubSeq(list, m, n))[i] = list[m + i - 1].ops
<1> DEFINE part == SubSeq(list, m, n)
<1>1. \A i \in m..n : list[i] \in UndoItem
    BY ElementOfSeq
<1>2. /\ part \in Seq(UndoItem)
      /\ Len(part) = n - m + 1
      /\ \A i \in 1..n - m + 1 : part[i] = list[m + i - 1]
    <2>1. m \in Int /\ n \in Int /\ (IF m <= n THEN n - m + 1 ELSE 0) = n - m + 1
        OBVIOUS
    <2> QED BY <1>1, <2>1, SubSeqProperties
<1>3. DOMAIN part = 1..n - m + 1 /\ \A i \in 1..n - m + 1 : part[i].ops \in Seq(Operation)
    BY <1>2, LenProperties, ElementOfSeq DEF UndoItem
<1>4. n - m + 1 \in Nat
    OBVIOUS
<1> HIDE DEF part
<1>5. Changes(part) = [i \in 1..n - m + 1 |-> part[i].ops]
    BY <1>3 DEF Changes
<1>6. Changes(part) \in [1..n - m + 1 -> Seq(Operation)]
    BY <1>3, <1>5
<1>7. Changes(part) \in Seq(Seq(Operation)) /\ Len(Changes(part)) = n - m + 1
    <2> DEFINE k == n - m + 1
    <2>1. k \in Nat /\ Changes(part) \in [1..k -> Seq(Operation)]
        BY <1>4, <1>6
    <2> HIDE DEF k
    <2>2. Changes(part) \in Seq(Seq(Operation)) /\ Len(Changes(part)) = k
        BY <2>1
    <2> QED BY <2>2 DEF k
<1> QED BY <1>2, <1>5, <1>7 DEF part

(* The two stacks, in terms of the list.                                   *)
LEMMA Stacks ==
    ASSUME NEW list \in Seq(UndoItem), NEW n \in 0..Len(list)
    PROVE  /\ Changes(SubSeq(list, 1, n)) \in Seq(Seq(Operation))
           /\ Len(Changes(SubSeq(list, 1, n))) = n
           /\ \A i \in 1..n : Changes(SubSeq(list, 1, n))[i] = list[i].ops
           /\ Changes(SubSeq(list, n + 1, Len(list))) \in Seq(Seq(Operation))
           /\ Len(Changes(SubSeq(list, n + 1, Len(list)))) = Len(list) - n
           /\ \A i \in 1..Len(list) - n :
                 Changes(SubSeq(list, n + 1, Len(list)))[i] = list[n + i].ops
<1> DEFINE d == Changes(SubSeq(list, 1, n))
           u == Changes(SubSeq(list, n + 1, Len(list)))
<1>1. /\ d \in Seq(Seq(Operation)) /\ Len(d) = n - 1 + 1
      /\ \A i \in 1..n - 1 + 1 : d[i] = list[1 + i - 1].ops
    <2>1. 1 \in 1..Len(list) + 1 /\ n \in 1 - 1..Len(list)
        OBVIOUS
    <2> QED BY <2>1, ChangesOfPart
<1>2. /\ u \in Seq(Seq(Operation)) /\ Len(u) = Len(list) - (n + 1) + 1
      /\ \A i \in 1..Len(list) - (n + 1) + 1 : u[i] = list[(n + 1) + i - 1].ops
    <2>1. n + 1 \in 1..Len(list) + 1 /\ Len(list) \in (n + 1) - 1..Len(list)
        OBVIOUS
    <2> QED BY <2>1, ChangesOfPart
<1> HIDE DEF d, u
<1>3. n - 1 + 1 = n /\ Len(list) - (n + 1) + 1 = Len(list) - n
    OBVIOUS
<1>4. /\ \A i \in 1..n : d[i] = list[i].ops
      /\ \A i \in 1..Len(list) - n : u[i] = list[n + i].ops
    <2>1. \A i \in Int : 1 + i - 1 = i /\ (n + 1) + i - 1 = n + i
        OBVIOUS
    <2> QED BY <1>1, <1>2, <1>3, <2>1
<1> QED BY <1>1, <1>2, <1>3, <1>4 DEF d, u

(* A new undo buffer has nothing done, nothing undone, nothing open.       *)
LEMMA InitRefines == Init => History!Init
<1> SUFFICES ASSUME Init PROVE History!Init
    OBVIOUS
<1>1. mUndoItemList \in Seq(UndoItem) /\ mCurrentIndex \in 0..Len(mUndoItemList)
    BY InitInv DEF IInv, TypeOK
<1>2. Len(mUndoItemList) = 0 /\ mCurrentIndex = 0
    BY DEF Init
<1>3. Done \in Seq(Seq(Operation)) /\ Len(Done) = 0
    BY <1>1, <1>2, Stacks DEF Done
<1>4. Undone \in Seq(Seq(Operation)) /\ Len(Undone) = 0
    <2>1. Undone \in Seq(Seq(Operation)) /\ Len(Undone) = Len(mUndoItemList) - mCurrentIndex
        BY <1>1, Stacks DEF Undone
    <2> QED BY <1>2, <2>1
<1>5. Done = <<>> /\ Undone = <<>>
    BY <1>3, <1>4, EmptySeq
<1> QED BY <1>5 DEF History!Init, Init

(* Every step of the undo buffer is a step of the two stacks or leaves     *)
(* them: an edit is Record, a commit Commit, the end of an undo Undo, the  *)
(* beginning of a redo Redo.                                               *)
LEMMA StepRefines == IInv /\ IInv' /\ [Next]_vars => [History!Next]_(History!vars)
<1> SUFFICES ASSUME IInv, IInv', [Next]_vars PROVE [History!Next]_(History!vars)
    OBVIOUS
<1> USE DEF IInv
<1>0. /\ mUndoItemList \in Seq(UndoItem) /\ mCurrentIndex \in 0..Len(mUndoItemList)
      /\ mUndoItemList' \in Seq(UndoItem) /\ mCurrentIndex' \in 0..Len(mUndoItemList')
    BY DEF TypeOK
<1>d. /\ Done \in Seq(Seq(Operation)) /\ Len(Done) = mCurrentIndex
      /\ \A i \in 1..mCurrentIndex : Done[i] = mUndoItemList[i].ops
    BY <1>0, Stacks DEF Done
<1>u. /\ Undone \in Seq(Seq(Operation)) /\ Len(Undone) = Len(mUndoItemList) - mCurrentIndex
      /\ \A i \in 1..Len(mUndoItemList) - mCurrentIndex :
            Undone[i] = mUndoItemList[mCurrentIndex + i].ops
    BY <1>0, Stacks DEF Undone
<1>dp. /\ Done' \in Seq(Seq(Operation)) /\ Len(Done') = mCurrentIndex'
       /\ \A i \in 1..mCurrentIndex' : Done'[i] = mUndoItemList'[i].ops
    BY <1>0, Stacks DEF Done
<1>up. /\ Undone' \in Seq(Seq(Operation)) /\ Len(Undone') = Len(mUndoItemList') - mCurrentIndex'
       /\ \A i \in 1..Len(mUndoItemList') - mCurrentIndex' :
             Undone'[i] = mUndoItemList'[mCurrentIndex' + i].ops
    BY <1>0, Stacks DEF Undone
<1>s. ASSUME UNCHANGED << mUndoItemList, mCurrentIndex, mFutureUndoItem >>
      PROVE  UNCHANGED History!vars
    BY <1>s DEF History!vars, Done, Undone
<1>1. ASSUME Edit PROVE History!Next
    <2>1. PICK op \in Operation : AddBufferOperation(op)
        BY <1>1 DEF Edit
    <2>2. ~mInsideUndo /\ mCurrentIndex' = mCurrentIndex
        BY <1>1 DEF Edit, ReplayIsInside, Idle
    <2>3. /\ mFutureUndoItem' = [mFutureUndoItem EXCEPT !.ops = Append(@, op)]
          /\ mUndoItemList' = ItemsUpToCurrent
        BY <2>1, <2>2 DEF AddBufferOperation
    <2>4. mFutureUndoItem'.ops = Append(mFutureUndoItem.ops, op)
        BY <2>3 DEF TypeOK, UndoItem
    <2>5. /\ Len(mUndoItemList') = mCurrentIndex
          /\ \A i \in 1..mCurrentIndex : mUndoItemList'[i] = mUndoItemList[i]
        BY <2>3, KeptItems
    <2>6. Done' = Done
        BY <1>d, <1>dp, <2>2, <2>5, SeqEqual
    <2>7. Len(Undone') = 0
        BY <1>0, <1>up, <2>2, <2>5
    <2>8. Undone' = <<>>
        BY <1>up, <2>7, EmptySeq
    <2>9. History!Record(op)
        BY <2>4, <2>6, <2>8 DEF History!Record
    <2> QED BY <2>9 DEF History!Next
<1>2. ASSUME Commit PROVE [History!Next]_(History!vars)
    <2>1. PICK cursor \in Position : CommitUndoItem(cursor)
        BY <1>2 DEF Commit
    <2>2. CASE mInsideUndo \/ mFutureUndoItem.ops = <<>>
        BY <2>1, <2>2, <1>s DEF CommitUndoItem, vars
    <2>3. CASE ~(mInsideUndo \/ mFutureUndoItem.ops = <<>>)
        <3>1. /\ mUndoItemList' = Append(ItemsUpToCurrent, mFutureUndoItem)
              /\ mCurrentIndex' = mCurrentIndex + 1
              /\ mFutureUndoItem' = [ops |-> <<>>, start |-> cursor]
            BY <2>1, <2>3 DEF CommitUndoItem
        <3>2. mFutureUndoItem \in UndoItem /\ mFutureUndoItem.ops \in Seq(Operation)
            BY DEF TypeOK, UndoItem
        <3>3. /\ Len(mUndoItemList') = mCurrentIndex + 1
              /\ mUndoItemList'[mCurrentIndex + 1] = mFutureUndoItem
              /\ \A i \in 1..mCurrentIndex : mUndoItemList'[i] = mUndoItemList[i]
            BY <3>1, <3>2, KeptItems, AppendProperties
        <3>4. /\ Append(Done, mFutureUndoItem.ops) \in Seq(Seq(Operation))
              /\ Len(Append(Done, mFutureUndoItem.ops)) = mCurrentIndex + 1
              /\ \A i \in 1..mCurrentIndex : Append(Done, mFutureUndoItem.ops)[i] = Done[i]
              /\ Append(Done, mFutureUndoItem.ops)[mCurrentIndex + 1] = mFutureUndoItem.ops
            BY <1>d, <3>2, AppendProperties
        <3>5. \A i \in 1..mCurrentIndex + 1 : Done'[i] = Append(Done, mFutureUndoItem.ops)[i]
            <4> TAKE i \in 1..mCurrentIndex + 1
            <4>1. CASE i = mCurrentIndex + 1
                BY <1>0, <1>dp, <3>1, <3>3, <3>4, <4>1
            <4>2. CASE i # mCurrentIndex + 1
                <5>1. i \in 1..mCurrentIndex /\ i \in 1..mCurrentIndex'
                    BY <1>0, <3>1, <4>2
                <5> QED BY <1>d, <1>dp, <3>3, <3>4, <5>1
            <4> QED BY <4>1, <4>2
        <3>6. Done' = Append(Done, mFutureUndoItem.ops)
            BY <1>dp, <3>1, <3>4, <3>5, SeqEqual
        <3>7. Len(Undone') = 0
            BY <1>0, <1>up, <3>1, <3>3
        <3>8. Undone' = <<>>
            BY <1>up, <3>7, EmptySeq
        <3>9. mFutureUndoItem.ops # <<>> /\ mFutureUndoItem'.ops = <<>>
            BY <2>3, <3>1
        <3> QED BY <3>6, <3>8, <3>9 DEF History!Commit, History!Next
    <2> QED BY <2>2, <2>3
<1>3. ASSUME FinishUndo PROVE History!Next
    <2>1. /\ mCurrentIndex' = mCurrentIndex - 1
          /\ mUndoItemList' = mUndoItemList /\ mFutureUndoItem' = mFutureUndoItem
        BY <1>3 DEF FinishUndo
    <2>2. mCurrentIndex \in 1..Len(mUndoItemList)
        BY <1>0, <1>3 DEF FinishUndo, ReplayIsInside
    <2> DEFINE top == Done[Len(Done)]
    <2>3. top = mUndoItemList[mCurrentIndex].ops /\ top \in Seq(Operation)
        BY <1>d, <2>2, ElementOfSeq
    <2>4. Done # <<>>
        BY <1>d, <2>2, EmptySeq
    <2> HIDE DEF top
    <2>5. /\ SubSeq(Done, 1, Len(Done) - 1) \in Seq(Seq(Operation))
          /\ Len(SubSeq(Done, 1, Len(Done) - 1)) = mCurrentIndex - 1
          /\ \A i \in 1..mCurrentIndex - 1 : SubSeq(Done, 1, Len(Done) - 1)[i] = Done[i]
        <3>1. \A i \in 1..Len(Done) - 1 : Done[i] \in Seq(Operation)
            BY <1>d, <2>2, ElementOfSeq
        <3>2. Len(Done) - 1 \in Int /\ Len(Done) - 1 = mCurrentIndex - 1
            BY <1>d, <2>2
        <3> QED BY <2>2, <3>1, <3>2, SubSeqProperties
    <2>6. Done' = SubSeq(Done, 1, Len(Done) - 1)
        <3>1. \A i \in 1..mCurrentIndex - 1 : Done'[i] = SubSeq(Done, 1, Len(Done) - 1)[i]
            <4> TAKE i \in 1..mCurrentIndex - 1
            <4>1. i \in 1..mCurrentIndex /\ i \in 1..mCurrentIndex'
                BY <2>1, <2>2
            <4>2. Done'[i] = mUndoItemList[i].ops
                BY <1>dp, <2>1, <4>1
            <4> QED BY <1>d, <2>5, <4>1, <4>2
        <3> QED BY <1>dp, <2>1, <2>5, <3>1, SeqEqual
    <2>7. << top >> \in Seq(Seq(Operation)) /\ Len(<< top >>) = 1 /\ << top >>[1] = top
        BY <2>3
    <2>8. /\ << top >> \o Undone \in Seq(Seq(Operation))
          /\ Len(<< top >> \o Undone) = 1 + (Len(mUndoItemList) - mCurrentIndex)
          /\ \A i \in 1..1 + (Len(mUndoItemList) - mCurrentIndex) :
                (<< top >> \o Undone)[i] = IF i <= 1 THEN << top >>[i] ELSE Undone[i - 1]
        BY <1>u, <2>7, ConcatProperties
    <2>9. \A i \in 1..1 + (Len(mUndoItemList) - mCurrentIndex) : Undone'[i] = (<< top >> \o Undone)[i]
        <3> TAKE i \in 1..1 + (Len(mUndoItemList) - mCurrentIndex)
        <3>1. Undone'[i] = mUndoItemList[(mCurrentIndex - 1) + i].ops
            <4>1. Len(mUndoItemList') - mCurrentIndex' = 1 + (Len(mUndoItemList) - mCurrentIndex)
                BY <1>0, <2>1
            <4> QED BY <1>up, <2>1, <4>1
        <3>2. CASE i = 1
            <4>1. (mCurrentIndex - 1) + i = mCurrentIndex
                BY <2>2, <3>2
            <4> QED BY <2>3, <2>7, <2>8, <3>1, <3>2, <4>1
        <3>3. CASE i # 1
            <4>1. /\ i - 1 \in 1..Len(mUndoItemList) - mCurrentIndex
                  /\ ~(i <= 1) /\ mCurrentIndex + (i - 1) = (mCurrentIndex - 1) + i
                BY <2>2, <3>3
            <4> QED BY <1>u, <2>8, <3>1, <4>1
        <3> QED BY <3>2, <3>3
    <2>10. Undone' = << top >> \o Undone
        <3>1. Len(Undone') = 1 + (Len(mUndoItemList) - mCurrentIndex)
            BY <1>0, <1>up, <2>1
        <3> QED BY <1>up, <2>8, <2>9, <3>1, SeqEqual
    <2>11. History!Undo
        BY <2>1, <2>4, <2>6, <2>10 DEF History!Undo, top
    <2> QED BY <2>11 DEF History!Next
<1>4. ASSUME StartRedo PROVE History!Next
    <2>1. /\ mCurrentIndex' = mCurrentIndex + 1 /\ mCurrentIndex < Len(mUndoItemList)
          /\ mUndoItemList' = mUndoItemList /\ mFutureUndoItem' = mFutureUndoItem
        BY <1>4 DEF StartRedo, MayRedo
    <2>2. Undone # <<>> /\ 1 \in 1..Len(Undone)
        BY <1>0, <1>u, <2>1, EmptySeq
    <2> DEFINE next == Undone[1]
    <2>3. next = mUndoItemList[mCurrentIndex + 1].ops /\ next \in Seq(Operation)
        BY <1>u, <2>2, ElementOfSeq
    <2> HIDE DEF next
    <2>4. /\ Append(Done, next) \in Seq(Seq(Operation))
          /\ Len(Append(Done, next)) = mCurrentIndex + 1
          /\ \A i \in 1..mCurrentIndex : Append(Done, next)[i] = Done[i]
          /\ Append(Done, next)[mCurrentIndex + 1] = next
        BY <1>d, <2>3, AppendProperties
    <2>5. \A i \in 1..mCurrentIndex + 1 : Done'[i] = Append(Done, next)[i]
        <3> TAKE i \in 1..mCurrentIndex + 1
        <3>1. Done'[i] = mUndoItemList[i].ops
            BY <1>dp, <2>1
        <3>2. CASE i = mCurrentIndex + 1
            BY <2>3, <2>4, <3>1, <3>2
        <3>3. CASE i # mCurrentIndex + 1
            <4>1. i \in 1..mCurrentIndex
                BY <1>0, <3>3
            <4> QED BY <1>d, <2>4, <3>1, <4>1
        <3> QED BY <3>2, <3>3
    <2>6. Done' = Append(Done, next)
        BY <1>dp, <2>1, <2>4, <2>5, SeqEqual
    <2>7. /\ SubSeq(Undone, 2, Len(Undone)) \in Seq(Seq(Operation))
          /\ Len(SubSeq(Undone, 2, Len(Undone))) = Len(Undone) - 1
          /\ \A i \in 1..Len(Undone) - 1 : SubSeq(Undone, 2, Len(Undone))[i] = Undone[i + 1]
        <3>1. \A i \in 2..Len(Undone) : Undone[i] \in Seq(Operation)
            BY <1>u, ElementOfSeq
        <3>2. /\ Len(Undone) \in Int /\ Len(Undone) - 2 + 1 = Len(Undone) - 1
              /\ (IF 2 <= Len(Undone) THEN Len(Undone) - 2 + 1 ELSE 0) = Len(Undone) - 1
              /\ \A i \in Int : 2 + i - 1 = i + 1
            BY <1>0, <1>u, <2>1
        <3> QED BY <3>1, <3>2, SubSeqProperties
    <2>8. Len(Undone') = Len(Undone) - 1
        BY <1>0, <1>u, <1>up, <2>1
    <2>9. \A i \in 1..Len(Undone) - 1 : Undone'[i] = SubSeq(Undone, 2, Len(Undone))[i]
        <3> TAKE i \in 1..Len(Undone) - 1
        <3>1. Undone'[i] = mUndoItemList[(mCurrentIndex + 1) + i].ops
            BY <1>up, <2>1, <2>8
        <3>2. /\ i + 1 \in 1..Len(mUndoItemList) - mCurrentIndex
              /\ mCurrentIndex + (i + 1) = (mCurrentIndex + 1) + i
            BY <1>0, <1>u
        <3> QED BY <1>u, <2>7, <3>1, <3>2
    <2>10. Undone' = SubSeq(Undone, 2, Len(Undone))
        BY <1>up, <2>7, <2>8, <2>9, SeqEqual
    <2>11. History!Redo
        BY <2>1, <2>2, <2>6, <2>10 DEF History!Redo, next
    <2> QED BY <2>11 DEF History!Next
<1>5. ASSUME Perform PROVE UNCHANGED History!vars
    <2>1. mInsideUndo /\ UNCHANGED mCurrentIndex
        BY <1>5 DEF Perform, PerformOperation, ReplayIsInside
    <2> QED BY <1>5, <2>1, <1>s DEF Perform, AddBufferOperation
<1>6. ASSUME StartUndo \/ FinishRedo \/ UNCHANGED vars PROVE UNCHANGED History!vars
    BY <1>6, <1>s DEF StartUndo, FinishRedo, vars
<1> QED BY <1>1, <1>2, <1>3, <1>4, <1>5, <1>6 DEF Next

(* The undo list cut at mCurrentIndex behaves as two stacks of changes:    *)
(* undo takes back the latest change done and redo makes the latest change *)
(* undone again, whole, however many operations it has.                    *)
THEOREM ImplementsHistory == Spec => HistorySpec
<1>1. IInv /\ IInv' /\ [Next]_vars => [History!Next]_(History!vars)
    BY StepRefines
<1> QED BY InitRefines, <1>1, InvHolds, PTL DEF Spec, HistorySpec, History!Spec

=============================================================================

--------------------------- MODULE Buffer_proofs ---------------------------
(***************************************************************************)
(* Proofs about Buffer (and the history variable of MCBuffer), for any     *)
(* characters, files and commands, texts, undo lists and journals of any   *)
(* length, and crashes at any point. TInv is the inductive invariant: the  *)
(* types, what UndoBuffer_proofs proves of an undo list (used here through *)
(* INSTANCE), what may be waiting in `calls', and that the journal in      *)
(* memory is short. On it rest: a buffer that is not marked modified has   *)
(* the text of its file (UnmodifiedIsSavedHolds), and the journal,         *)
(* replayed, gives the text (JournalIsKeptHolds). One lemma per action.    *)
(***************************************************************************)
EXTENDS MCBuffer, TextRegion_proofs, InductionLemmas

(* The proofs about undo lists, for the list of this buffer.               *)
UndoProofs == INSTANCE UndoBuffer_proofs WITH Position <- Nat \union {NoLine}

(* The texts a buffer may have (at least one line), and the positions and  *)
(* intervals of operations.                                                *)
Text == { t \in Seq(Line) : Len(t) >= 1 }
Pos == [x : Nat, y : Nat]
Region == [from : Pos, to : [x : Int, y : Nat], toOpen : BOOLEAN]

(* The fields of an operation.                                             *)
LEMMA OperationFields ==
    ASSUME NEW op \in Operation
    PROVE  /\ op.type \in {"add", "del"} /\ op.data \in Seq(Line) /\ op.interval \in Region
           /\ op.interval.from \in Pos
BY DEF Operation, Region, Pos

-----------------------------------------------------------------------------
(* The swap file.                                                          *)
LEMMA UnlinkFields ==
    ASSUME NEW s \in Swap!SwapState
    PROVE  /\ Swap!Unlink(s) \in Swap!SwapState
           /\ Swap!Unlink(s).mHistory = s.mHistory
           /\ Swap!Unlink(s).mFilename = s.mFilename
           /\ Swap!Unlink(s).mNotResetted = TRUE
           /\ Swap!Unlink(s).mRecovering = s.mRecovering
           /\ Swap!Unlink(s).files = [s.files EXCEPT ![s.mFilename] = NoFile]
BY DEF Swap!Unlink, Swap!SwapState

(* reset() forgets the operations in memory and leaves the files.          *)
LEMMA ResetFields ==
    ASSUME NEW s \in Swap!SwapState
    PROVE  /\ Swap!Reset(s) \in Swap!SwapState
           /\ Swap!Reset(s).mHistory = <<>>
           /\ Swap!Reset(s).mFilename = s.mFilename
           /\ Swap!Reset(s).mNotResetted = s.mNotResetted
           /\ Swap!Reset(s).mRecovering = s.mRecovering
           /\ Swap!Reset(s).files = s.files
BY EmptySeq DEF Swap!Reset, Swap!SwapState

(* setFileName removes the file of the old name, and changes the name.     *)
LEMMA SetFileNameFields ==
    ASSUME NEW s \in Swap!SwapState, NEW name \in SwapName
    PROVE  /\ Swap!SetFileName(s, name) \in Swap!SwapState
           /\ Swap!SetFileName(s, name).mHistory = s.mHistory
           /\ Swap!SetFileName(s, name).mFilename = name
           /\ Swap!SetFileName(s, name).mNotResetted = TRUE
           /\ Swap!SetFileName(s, name).mRecovering = s.mRecovering
           /\ Swap!SetFileName(s, name).files = [s.files EXCEPT ![s.mFilename] = NoFile]
<1> DEFINE u == Swap!Unlink(s)
<1>1. /\ u \in Swap!SwapState
      /\ u.mHistory = s.mHistory
      /\ u.mNotResetted = TRUE
      /\ u.mRecovering = s.mRecovering
      /\ u.files = [s.files EXCEPT ![s.mFilename] = NoFile]
    BY UnlinkFields
<1>2. Swap!SetFileName(s, name) = [u EXCEPT !.mFilename = name]
    BY DEF Swap!SetFileName
<1> HIDE DEF u
<1> QED BY <1>1, <1>2 DEF Swap!SwapState

(* A new YSwapFile holds no operation, and leaves the files that are       *)
(* there.                                                                  *)
LEMMA NewSwapFileFields ==
    ASSUME NEW files \in [SwapName -> Seq(Operation) \union {NoFile}], NEW name \in SwapName
    PROVE  /\ Swap!NewSwapFile(files, name) \in Swap!SwapState
           /\ Swap!NewSwapFile(files, name).mHistory = <<>>
           /\ Swap!NewSwapFile(files, name).mFilename = name
           /\ Swap!NewSwapFile(files, name).mNotResetted = TRUE
           /\ Swap!NewSwapFile(files, name).mRecovering = FALSE
           /\ Swap!NewSwapFile(files, name).files = files
BY EmptySeq DEF Swap!NewSwapFile, Swap!SwapState

(* init() creates the file, if it can, and keeps what is in memory.        *)
LEMMA InitFileFields ==
    ASSUME NEW s \in Swap!SwapState
    PROVE  /\ Swap!InitFile(s) \in Swap!SwapState
           /\ Swap!InitFile(s).mHistory = s.mHistory
           /\ Swap!InitFile(s).mFilename = s.mFilename
           /\ Swap!InitFile(s).mRecovering = s.mRecovering
<1>1. CASE Swap!Exists(s) \/ s.mFilename \notin (IF SwapWritable THEN {"beside"} ELSE {})
    <2>1. Swap!InitFile(s) = [s EXCEPT !.mNotResetted = TRUE]
        BY <1>1 DEF Swap!InitFile
    <2> QED BY <2>1 DEF Swap!SwapState
<1>2. CASE ~(Swap!Exists(s) \/ s.mFilename \notin (IF SwapWritable THEN {"beside"} ELSE {}))
    <2>1. Swap!InitFile(s) = [s EXCEPT !.files[s.mFilename] = <<>>, !.mNotResetted = FALSE]
        BY <1>2 DEF Swap!InitFile
    <2> DEFINE f == [s.files EXCEPT ![s.mFilename] = <<>>]
    <2>2. f \in [SwapName -> Seq(Operation) \union {NoFile}]
        BY EmptySeq DEF Swap!SwapState
    <2>3. Swap!InitFile(s) = [s EXCEPT !.files = f, !.mNotResetted = FALSE]
        BY <2>1
    <2> HIDE DEF f
    <2> QED BY <2>2, <2>3 DEF Swap!SwapState
<1> QED BY <1>1, <1>2

(* flush() forgets what is in memory, written or not, unless a recovery is *)
(* running.                                                                *)
LEMMA FlushFields ==
    ASSUME NEW s \in Swap!SwapState
    PROVE  /\ Swap!Flush(s) \in Swap!SwapState
           /\ s.mRecovering => Swap!Flush(s) = s
           /\ ~s.mRecovering => Swap!Flush(s).mHistory = <<>>
           /\ Swap!Flush(s).mFilename = s.mFilename
           /\ Swap!Flush(s).mRecovering = s.mRecovering
<1>1. CASE s.mRecovering
    BY <1>1 DEF Swap!Flush
<1>2. CASE ~s.mRecovering
    <2> DEFINE ready == IF s.mNotResetted THEN Swap!InitFile(s) ELSE s
               f == [ready.files EXCEPT ![ready.mFilename] = @ \o ready.mHistory]
               written == IF Swap!Exists(ready) /\ ready.mFilename \in (IF SwapWritable THEN {"beside"} ELSE {})
                          THEN [ready EXCEPT !.files[ready.mFilename] = @ \o ready.mHistory]
                          ELSE [ready EXCEPT !.mNotResetted = TRUE]
    <2>1. Swap!Flush(s) = Swap!Reset(written)
        BY <1>2 DEF Swap!Flush
    <2>2. /\ ready \in Swap!SwapState
          /\ ready.mFilename = s.mFilename
          /\ ready.mRecovering = s.mRecovering
        BY InitFileFields
    <2> HIDE DEF ready
    <2>3. CASE Swap!Exists(ready) /\ ready.mFilename \in (IF SwapWritable THEN {"beside"} ELSE {})
        <3>1. written = [ready EXCEPT !.files = f]
            BY <2>3
        <3>2. ready.files[ready.mFilename] \in Seq(Operation) /\ ready.mHistory \in Seq(Operation)
            BY <2>2, <2>3 DEF Swap!Exists, Swap!SwapState
        <3>3. ready.files[ready.mFilename] \o ready.mHistory \in Seq(Operation)
            BY <3>2, ConcatProperties
        <3>4. f \in [SwapName -> Seq(Operation) \union {NoFile}]
            BY <2>2, <3>3 DEF Swap!SwapState
        <3> HIDE DEF f, written
        <3>5. written \in Swap!SwapState /\ written.mFilename = s.mFilename /\ written.mRecovering = s.mRecovering
            BY <2>2, <3>1, <3>4 DEF Swap!SwapState
        <3> QED BY <1>2, <2>1, <3>5, ResetFields
    <2>4. CASE ~(Swap!Exists(ready) /\ ready.mFilename \in (IF SwapWritable THEN {"beside"} ELSE {}))
        <3>1. written = [ready EXCEPT !.mNotResetted = TRUE]
            BY <2>4
        <3> HIDE DEF written
        <3>5. written \in Swap!SwapState /\ written.mFilename = s.mFilename /\ written.mRecovering = s.mRecovering
            BY <2>2, <3>1 DEF Swap!SwapState
        <3> QED BY <1>2, <2>1, <3>5, ResetFields
    <2> QED BY <2>3, <2>4
<1> QED BY <1>1, <1>2 DEF Swap!SwapState

(* addToSwap: the operation is in memory, or flush() was called, or a      *)
(* recovery is running; never are more than updatecount in memory          *)
(* (swapfile.cpp:132-136).                                                 *)
LEMMA AddToSwapFields ==
    ASSUME NEW s \in Swap!SwapState, NEW op \in Operation
    PROVE  /\ Swap!AddToSwap(s, op) \in Swap!SwapState
           /\ Swap!AddToSwap(s, op).mFilename = s.mFilename
           /\ Swap!AddToSwap(s, op).mRecovering = s.mRecovering
           /\ s.mRecovering => Swap!AddToSwap(s, op) = s
           /\ ~s.mRecovering => Swap!AddToSwap(s, op).mHistory \in {<<>>, Append(s.mHistory, op)}
           /\ Len(s.mHistory) < updatecount => Len(Swap!AddToSwap(s, op).mHistory) < updatecount
<1> DEFINE longer == [s EXCEPT !.mHistory = Append(@, op)]
           h == Append(s.mHistory, op)
<1>1. s.mHistory \in Seq(Operation) /\ h \in Seq(Operation) /\ Len(h) \in Nat
    BY AppendProperties, LenProperties DEF Swap!SwapState
<1>2. longer = [s EXCEPT !.mHistory = h]
    OBVIOUS
<1> HIDE DEF h
<1>3. /\ longer \in Swap!SwapState
      /\ longer.mFilename = s.mFilename
      /\ longer.mRecovering = s.mRecovering
      /\ longer.mHistory = h
    BY <1>1, <1>2 DEF Swap!SwapState
<1>4. Swap!AddToSwap(s, op) = IF s.mRecovering THEN s
                              ELSE IF Len(longer.mHistory) >= updatecount THEN Swap!Flush(longer) ELSE longer
    BY DEF Swap!AddToSwap
<1> HIDE DEF longer
<1>5. updatecount \in Nat \ {0} /\ Len(<<>>) = 0
    BY UpdatecountAssumption
<1>6. CASE s.mRecovering
    BY <1>4, <1>6
<1>7. CASE ~s.mRecovering /\ Len(h) >= updatecount
    BY <1>3, <1>4, <1>5, <1>7, FlushFields
<1>8. CASE ~s.mRecovering /\ ~(Len(h) >= updatecount)
    BY <1>1, <1>3, <1>4, <1>5, <1>8 DEF h
<1> QED BY <1>1, <1>5, <1>6, <1>7, <1>8
-----------------------------------------------------------------------------
(* The undo list of a buffer is used as UndoBuffer says.                   *)
UndoOK == Undo!TypeOK /\ Undo!ReplayIsInside /\ Undo!ItemsHaveOperations

(* An undo list is sound when the buffer is created.                       *)
LEMMA UndoInit ==
    ASSUME Init PROVE UndoOK
<1>1. UndoProofs!Init
    <2>1. [ops |-> <<>>, start |-> NoLine] = mFutureUndoItem /\ NoLine \in Nat \union {NoLine}
        BY DEF Init
    <2> QED BY <2>1 DEF Init, UndoProofs!Init, Undo!Idle, UndoProofs!Idle
<1>2. UndoProofs!IInv
    BY <1>1, UndoProofs!InitInv
<1> QED BY <1>2 DEF UndoProofs!IInv, UndoOK, UndoProofs!TypeOK, Undo!TypeOK,
        UndoProofs!UndoItem, Undo!UndoItem, UndoProofs!ReplayIsInside, Undo!ReplayIsInside,
        UndoProofs!ItemsHaveOperations, Undo!ItemsHaveOperations

(* Every step of an undo list keeps it sound.                              *)
LEMMA UndoNext ==
    ASSUME UndoOK, [Undo!Next]_(Undo!vars)
    PROVE  UndoOK'
<1>1. UndoProofs!IInv
    BY DEF UndoProofs!IInv, UndoOK, UndoProofs!TypeOK, Undo!TypeOK,
        UndoProofs!UndoItem, Undo!UndoItem, UndoProofs!ReplayIsInside, Undo!ReplayIsInside,
        UndoProofs!ItemsHaveOperations, Undo!ItemsHaveOperations
<1>2. [UndoProofs!Next]_(UndoProofs!vars)
    <2>1. Undo!Edit => UndoProofs!Edit
        BY DEF Undo!Edit, UndoProofs!Edit, Undo!AddBufferOperation, UndoProofs!AddBufferOperation,
            Undo!ItemsUpToCurrent, UndoProofs!ItemsUpToCurrent, Undo!Idle, UndoProofs!Idle
    <2>2. Undo!Commit => UndoProofs!Commit
        BY DEF Undo!Commit, UndoProofs!Commit, Undo!CommitUndoItem, UndoProofs!CommitUndoItem,
            Undo!ItemsUpToCurrent, UndoProofs!ItemsUpToCurrent, Undo!Idle, UndoProofs!Idle,
            Undo!vars, UndoProofs!vars
    <2>3. Undo!StartUndo => UndoProofs!StartUndo
        <3>1. \A s : Undo!Reverse(s) = UndoProofs!Reverse(s)
            BY DEF Undo!Reverse, UndoProofs!Reverse
        <3>2. Undo!Reverse(mUndoItemList[mCurrentIndex].ops)
                = UndoProofs!Reverse(mUndoItemList[mCurrentIndex].ops)
            BY <3>1
        <3> QED BY <3>2 DEF Undo!StartUndo, UndoProofs!StartUndo, Undo!MayUndo, UndoProofs!MayUndo,
                Undo!Idle, UndoProofs!Idle
    <2>4. Undo!StartRedo => UndoProofs!StartRedo
        BY DEF Undo!StartRedo, UndoProofs!StartRedo, Undo!MayRedo, UndoProofs!MayRedo,
            Undo!Idle, UndoProofs!Idle
    <2>5. Undo!FinishUndo => UndoProofs!FinishUndo
        BY DEF Undo!FinishUndo, UndoProofs!FinishUndo, Undo!Idle, UndoProofs!Idle
    <2>6. Undo!FinishRedo => UndoProofs!FinishRedo
        BY DEF Undo!FinishRedo, UndoProofs!FinishRedo, Undo!Idle, UndoProofs!Idle
    <2>7. Undo!Perform => UndoProofs!Perform
        BY DEF Undo!Perform, UndoProofs!Perform, Undo!PerformOperation, UndoProofs!PerformOperation,
            Undo!AddBufferOperation, UndoProofs!AddBufferOperation,
            Undo!ItemsUpToCurrent, UndoProofs!ItemsUpToCurrent
    <2> QED BY <2>1, <2>2, <2>3, <2>4, <2>5, <2>6, <2>7
            DEF Undo!Next, UndoProofs!Next, Undo!vars, UndoProofs!vars
<1>3. UndoProofs!IInv'
    BY <1>1, <1>2, UndoProofs!StepInv
<1> QED BY <1>3 DEF UndoProofs!IInv, UndoOK, UndoProofs!TypeOK, Undo!TypeOK,
        UndoProofs!UndoItem, Undo!UndoItem, UndoProofs!ReplayIsInside, Undo!ReplayIsInside,
        UndoProofs!ItemsHaveOperations, Undo!ItemsHaveOperations
-----------------------------------------------------------------------------
(* The calls that change the text.                                         *)
LEMMA PosIsCursor ==
    ASSUME NEW p \in Pos
    PROVE  p.x \in Nat /\ p.y \in Nat /\ p = Cursor(p.x, p.y)
BY DEF Pos, Cursor

(* The operation insertRegion records.                                     *)
LEMMA AddOperationType ==
    ASSUME NEW begin \in Pos, NEW data \in Seq(Line), data # <<>>
    PROVE  /\ AddOperation(begin, data) \in Operation
           /\ AddOperation(begin, data).type = "add"
           /\ AddOperation(begin, data).data = data
           /\ AddOperation(begin, data).interval.from = begin
           /\ AddOperation(begin, data).interval = OpenInterval(begin, AfterInsert(begin, data))
<1> DEFINE after == AfterInsert(begin, data)
<1>1. after \in [x : Nat, y : Nat]
    <2>1. begin.x \in Nat /\ begin.y \in Nat /\ begin = Cursor(begin.x, begin.y) /\ data \in Seq(Seq(Char))
        BY PosIsCursor DEF Line
    <2> DEFINE x == begin.x
               y == begin.y
    <2>2. x \in Nat /\ y \in Nat /\ after = AfterInsert(Cursor(x, y), data)
        BY <2>1
    <2> HIDE DEF x, y, after
    <2> QED BY <2>1, <2>2, AfterInsertType
<1> HIDE DEF after
<1>2. after \in [x : Int, y : Nat]
    BY <1>1
<1>3. AddOperation(begin, data) = [type |-> "add", data |-> data,
          interval |-> [from |-> begin, to |-> after, toOpen |-> TRUE]]
    BY DEF AddOperation, OpenInterval, Interval, after
<1>4. OpenInterval(begin, after) = [from |-> begin, to |-> after, toOpen |-> TRUE]
    BY DEF OpenInterval, Interval
<1>5. begin \in [x : Nat, y : Nat]
    BY DEF Pos
<1> QED BY <1>2, <1>3, <1>4, <1>5 DEF Operation, after

(* The two ends of a recorded interval. The column of the end may be -1    *)
(* (an empty line replaced), or less.                                      *)
LEMMA RegionEnd ==
    ASSUME NEW bi \in Region
    PROVE  /\ bi.from.x \in Nat /\ bi.from.y \in Nat
           /\ EndCursor(bi).x \in Int /\ EndCursor(bi).y \in Nat
           /\ bi.from = Cursor(bi.from.x, bi.from.y)
<1>1. bi.from \in [x : Nat, y : Nat] /\ bi.to \in [x : Int, y : Nat]
    BY DEF Region, Pos
<1> DEFINE to == bi.to
<1>2. EndCursor(bi) = IF bi.toOpen THEN to ELSE [to EXCEPT !.x = @ + 1]
    BY DEF EndCursor
<1> HIDE DEF to
<1>3. to \in [x : Int, y : Nat]
    BY <1>1 DEF to
<1>4. EndCursor(bi).x \in Int /\ EndCursor(bi).y \in Nat
    BY <1>2, <1>3
<1> QED BY <1>1, <1>4 DEF Cursor

(* The operation deleteRegion records.                                     *)
LEMMA DelOperationType ==
    ASSUME text \in Text, NEW bi \in Region
    PROVE  /\ DelOperation(bi) \in Operation
           /\ DelOperation(bi).type = "del"
           /\ DelOperation(bi).data = DataRegion(text, bi)
           /\ DelOperation(bi).interval = bi
<1>1. text \in Seq(Seq(Char))
    BY DEF Text, Line
<1> DEFINE data == DataRegion(text, bi)
<1>2. data \in Seq(Seq(Char))
    BY <1>1, RegionEnd, DataRegionIsText
<1>3. DelOperation(bi) = [type |-> "del", data |-> data, interval |-> bi]
    BY DEF DelOperation
<1> HIDE DEF data
<1> QED BY <1>2, <1>3 DEF Operation, Region, Pos, Line, data

(* What changes the text: a call of insertRegion or of deleteRegion.       *)
RegionChange ==
    \/ \E begin \in Pos, data \in Seq(Line) : InsertRegionCall(begin, data)
    \/ \E bi \in Region : DeleteRegionCall(bi)

(* What such a call leaves: a text, a journal that is not too long, and an *)
(* undo list that recorded the operation or was told nothing.              *)
Changed ==
    /\ text' \in Text
    /\ isModified' \in BOOLEAN
    /\ swap' \in Swap!SwapState
    /\ Len(swap'.mHistory) < updatecount
    /\ \/ UNCHANGED << mFutureUndoItem, mUndoItemList >>
       \/ \E op \in Operation : Undo!AddBufferOperation(op)

(* insertRegion, whatever the cursor and the data.                         *)
LEMMA InsertChanges ==
    ASSUME TypeOK, Len(swap.mHistory) < updatecount,
           NEW begin \in Pos, NEW data \in Seq(Line), InsertRegionCall(begin, data)
    PROVE  Changed
<1>1. text \in Seq(Seq(Char)) /\ Len(text) >= 1 /\ swap \in Swap!SwapState /\ isModified \in BOOLEAN
    BY DEF TypeOK, Line, LineCount
<1>2. CASE InsertAborts(text, begin, data)
    BY <1>1, <1>2 DEF InsertRegionCall, Changed, Text, Line
<1>3. CASE ~InsertAborts(text, begin, data)
    <2> DEFINE op == AddOperation(begin, data)
    <2>1. /\ text' = InsertRegion(text, begin, data)
          /\ Undo!AddBufferOperation(op)
          /\ swap' = Swap!AddToSwap(swap, op)
          /\ isModified' = TRUE
        BY <1>3 DEF InsertRegionCall
    <2>2. data # <<>>
        BY <1>3 DEF InsertAborts
    <2>3. op \in Operation
        BY <2>2, AddOperationType
    <2>4. text' \in Text
        <3>1. begin = Cursor(begin.x, begin.y) /\ begin.x \in Nat /\ begin.y \in Nat
            BY PosIsCursor
        <3> DEFINE x == begin.x
                   y == begin.y
        <3>2. x \in Nat /\ y \in Nat /\ text' = InsertRegion(text, Cursor(x, y), data)
            BY <2>1, <3>1
        <3> HIDE DEF x, y
        <3>3. data \in Seq(Seq(Char))
            BY DEF Line
        <3>4. /\ InsertRegion(text, Cursor(x, y), data) \in Seq(Seq(Char))
              /\ Len(InsertRegion(text, Cursor(x, y), data)) >= Len(text)
            BY <1>1, <3>2, <3>3, InsertRegionIsText
        <3>5. Len(text) \in Nat /\ Len(text') \in Nat
            BY <1>1, <3>2, <3>4, LenProperties
        <3> QED BY <1>1, <3>2, <3>4, <3>5 DEF Text, Line
    <2> HIDE DEF op
    <2>5. swap' \in Swap!SwapState /\ Len(swap'.mHistory) < updatecount
        BY <1>1, <2>1, <2>3, AddToSwapFields
    <2> QED BY <2>1, <2>3, <2>4, <2>5 DEF Changed
<1> QED BY <1>2, <1>3

(* deleteRegion, whatever the interval.                                    *)
LEMMA DeleteChanges ==
    ASSUME TypeOK, Len(swap.mHistory) < updatecount,
           NEW bi \in Region, DeleteRegionCall(bi)
    PROVE  Changed
<1>1. text \in Seq(Seq(Char)) /\ Len(text) >= 1 /\ swap \in Swap!SwapState
    BY DEF TypeOK, Line, LineCount
<1> DEFINE op == DelOperation(bi)
<1>2. /\ text' = DeleteRegion(text, bi)
      /\ Undo!AddBufferOperation(op)
      /\ swap' = Swap!AddToSwap(swap, op)
      /\ isModified' = TRUE
    BY DEF DeleteRegionCall
<1>3. op \in Operation
    BY <1>1, DelOperationType DEF Text, Line
<1>4. DeleteRegion(text, bi) \in Seq(Seq(Char)) /\ Len(DeleteRegion(text, bi)) >= 1
    BY <1>1, RegionEnd, DeleteRegionIsText
<1> HIDE DEF op
<1>5. swap' \in Swap!SwapState /\ Len(swap'.mHistory) < updatecount
    BY <1>1, <1>2, <1>3, AddToSwapFields
<1> QED BY <1>2, <1>3, <1>4, <1>5 DEF Changed, Text, Line
-----------------------------------------------------------------------------
(* The invariant.                                                          *)
PlainCall == [call : {"commit"}]
             \union [call : {"region"}, op : Operation]
             \union [call : {"deleteLine"}, line : Nat]
Call == PlainCall \union [call : {"load", "recovered"}]

Question == << [call |-> "checkRecover"] >>

CallsOK ==
    /\ calls \in Seq(Call) \/ (calls = Question /\ Swap!Exists(swap))
    /\ calls # <<>> => replay = Undo!Idle

(* The inductive invariant.                                                *)
TInv ==
    /\ TypeOK
    /\ UndoOK
    /\ CallsOK
    /\ Len(swap.mHistory) < updatecount

(* The calls that may wait, told apart by their names.                     *)
LEMMA CallFields ==
    ASSUME NEW c \in Call
    PROVE  /\ c.call # "checkRecover"
           /\ c.call = "region" => c.op \in Operation
           /\ c.call = "deleteLine" => c.line \in Nat
           /\ c.call \notin {"load", "recovered"} => c \in PlainCall
           /\ c \in PlainCall => c.call \notin {"load", "recovered"}
BY DEF Call, PlainCall

(* The calls the actions make are such calls.                              *)
LEMMA CallsMade ==
    /\ [call |-> "commit"] \in PlainCall
    /\ [call |-> "load"] \in Call
    /\ [call |-> "recovered"] \in Call
    /\ \A op \in Operation : RegionCall(op) \in PlainCall
    /\ \A n \in Nat : [call |-> "deleteLine", line |-> n] \in PlainCall
    /\ PlainCall \subseteq Call
BY DEF Call, PlainCall, RegionCall

(* addBufferOperation, called while no undo runs, keeps the undo list      *)
(* sound.                                                                  *)
LEMMA UndoAdds ==
    ASSUME UndoOK, replay = Undo!Idle,
           \/ UNCHANGED << mFutureUndoItem, mUndoItemList >>
           \/ \E op \in Operation : Undo!AddBufferOperation(op),
           UNCHANGED << mCurrentIndex, mInsideUndo, replay >>
    PROVE  UndoOK'
<1>1. CASE UNCHANGED << mFutureUndoItem, mUndoItemList >>
    <2>1. [Undo!Next]_(Undo!vars)
        BY <1>1 DEF Undo!vars
    <2> QED BY <2>1, UndoNext
<1>2. CASE \E op \in Operation : Undo!AddBufferOperation(op)
    <2>1. Undo!Edit
        BY <1>2 DEF Undo!Edit
    <2>2. [Undo!Next]_(Undo!vars)
        BY <2>1 DEF Undo!Next
    <2> QED BY <2>2, UndoNext
<1> QED BY <1>1, <1>2

(* An edit: its first call, and the others waiting.                        *)
LEMMA EditStep ==
    ASSUME TInv, Changed, NEW name, NEW line \in Nat, NEW rest \in Seq(Call),
           Edit(name, line, rest)
    PROVE  TInv'
<1>1. /\ calls = <<>> /\ replay = Undo!Idle
      /\ cursorLine' = line
      /\ calls' = rest \o (IF mode = "insert" \/ name = "adjustNumber" THEN <<>>
                           ELSE << [call |-> "commit"] >>)
      /\ UNCHANGED << mode, mCurrentIndex, mInsideUndo, replay, file, mPendingReplay, running >>
    BY DEF Edit, Idle
<1>2. UndoOK'
    BY <1>1, UndoAdds DEF TInv, Changed
<1>3. calls' \in Seq(Call)
    <2> DEFINE end == IF mode = "insert" \/ name = "adjustNumber" THEN <<>>
                      ELSE << [call |-> "commit"] >>
    <2>1. end \in Seq(Call)
        BY CallsMade, EmptySeq
    <2>2. calls' = rest \o end
        BY <1>1
    <2> HIDE DEF end
    <2> QED BY <2>1, <2>2, ConcatProperties
<1>4. CallsOK'
    BY <1>1, <1>3 DEF CallsOK
<1>5. TypeOK'
    BY <1>1, <1>2 DEF TInv, TypeOK, UndoOK, Changed, Text, LineCount
<1> QED BY <1>2, <1>4, <1>5 DEF TInv, Changed

(* An edit whose first call is deleteRegion.                               *)
LEMMA DeleteStep ==
    ASSUME TInv, NEW bi \in Region, DeleteRegionCall(bi),
           NEW name, NEW line \in Nat, NEW rest \in Seq(Call), Edit(name, line, rest)
    PROVE  TInv'
BY DeleteChanges, EditStep DEF TInv

(* The lines and columns an edit chooses from are numbers.                 *)
LEMMA LineFacts ==
    ASSUME text \in Text
    PROVE  /\ LineCount(text) \in Nat
           /\ Lines \subseteq Nat
           /\ \A n \in Nat : Textline(text, n) \in Line /\ GetLineLength(text, n) \in Nat
           /\ \A n \in Nat : Columns(n) \subseteq Nat /\ CharColumns(n) \subseteq Nat
<1>1. text \in Seq(Seq(Char))
    BY DEF Text, Line
<1>2. LineCount(text) \in Nat
    BY <1>1, LenProperties DEF LineCount
<1>3. \A n \in Nat : Textline(text, n) \in Line /\ GetLineLength(text, n) \in Nat
    BY <1>1, TextlineType DEF Line
<1> QED BY <1>2, <1>3 DEF Lines, Columns, CharColumns

(* A column and a line make a position.                                    *)
LEMMA CursorIsPos ==
    ASSUME NEW x \in Nat, NEW y \in Nat
    PROVE  Cursor(x, y) \in Pos
BY DEF Cursor, Pos

(* The intervals the line operations of YBuffer build are intervals,       *)
(* whatever the line.                                                      *)
LEMMA Intervals ==
    ASSUME text \in Text, NEW x \in Nat, NEW y \in Nat
    PROVE  /\ CharsInterval(Cursor(x, y), 1) \in Region
           /\ LineInterval(text, y) \in Region
           /\ LineContent(text, y) \in Region
           /\ WholeText(text) \in Region
<1>1. LineCount(text) \in Nat /\ \A n \in Nat : GetLineLength(text, n) \in Nat
    BY LineFacts
<1>2. \A a, b, d \in Nat, e \in Int, o \in BOOLEAN :
          Interval(Cursor(a, b), Cursor(e, d), o) \in Region
    BY DEF Interval, Cursor, Region, Pos
<1>0. 0 \in Nat /\ 0 \in Int /\ TRUE \in BOOLEAN
    OBVIOUS
<1>3. CharsInterval(Cursor(x, y), 1) = Interval(Cursor(x, y), Cursor(x + 1 - 1, y), FALSE)
    BY DEF CharsInterval, ClosedInterval, Cursor
<1>4. CharsInterval(Cursor(x, y), 1) \in Region
    <2>1. x + 1 - 1 \in Int
        OBVIOUS
    <2> QED BY <1>2, <1>3, <2>1
<1>5. LineContent(text, y) \in Region
    <2>1. GetLineLength(text, y) - 1 \in Int
        BY <1>1
    <2> QED BY <1>2, <2>1 DEF LineContent, ClosedInterval
<1>6. WholeText(text) \in Region
    <2>1. WholeText(text) = Interval(Cursor(0, 0), Cursor(0, LineCount(text)), TRUE)
        BY DEF WholeText, OpenInterval
    <2> QED BY Zenon, <1>0, <1>1, <1>2, <2>1
<1>7. LineInterval(text, y) \in Region
    <2>1. CASE y > 0 /\ y = LineCount(text) - 1
        <3>1. y - 1 \in Nat /\ y + 1 \in Nat /\ GetLineLength(text, y - 1) \in Nat
            BY <1>1, <2>1
        <3> DEFINE n == GetLineLength(text, y - 1)
                   k == y - 1
        <3>2. LineInterval(text, y) = Interval(Cursor(n, k), Cursor(0, y + 1), TRUE)
            BY <2>1 DEF LineInterval, OpenInterval
        <3>3. n \in Nat /\ k \in Nat
            BY <3>1
        <3> HIDE DEF n, k
        <3> QED BY Zenon, <1>0, <1>2, <3>1, <3>2, <3>3
    <2>2. CASE ~(y > 0 /\ y = LineCount(text) - 1)
        <3>1. LineInterval(text, y) = Interval(Cursor(0, y), Cursor(0, y + 1), TRUE)
            BY <2>2 DEF LineInterval, OpenInterval
        <3>2. y + 1 \in Nat
            OBVIOUS
        <3> QED BY Zenon, <1>0, <1>2, <3>1, <3>2
    <2> QED BY <2>1, <2>2
<1> QED BY <1>4, <1>5, <1>6, <1>7
-----------------------------------------------------------------------------
(* The steps of a method that has begun.                                   *)
LEMMA HeadCall ==
    ASSUME TInv, NEW name, name # "checkRecover", NextCall(name)
    PROVE  /\ Head(calls) \in Call /\ Head(calls).call = name
           /\ calls' \in Seq(Call)
           /\ running /\ calls # <<>> /\ replay = Undo!Idle
<1>1. running /\ calls # <<>> /\ Head(calls).call = name /\ calls' = Tail(calls)
    BY DEF NextCall
<1>2. calls \in Seq(Call)
    <2>1. calls # Question
        BY <1>1 DEF Question
    <2> QED BY <2>1 DEF TInv, CallsOK
<1>3. Head(calls) \in Call /\ Tail(calls) \in Seq(Call)
    BY <1>1, <1>2, HeadTailProperties
<1> QED BY <1>1, <1>3 DEF TInv, CallsOK

(* A call that changes the text, taken off the queue.                      *)
LEMMA CallStep ==
    ASSUME TInv, Changed, calls # <<>>, calls' \in Seq(Call),
           UNCHANGED << cursorLine, mode, mCurrentIndex, mInsideUndo, replay, file,
                        mPendingReplay, running >>
    PROVE  TInv'
<1>1. replay = Undo!Idle
    BY DEF TInv, CallsOK
<1>2. UndoOK'
    BY <1>1, UndoAdds DEF TInv, Changed
<1>3. CallsOK'
    BY <1>1 DEF CallsOK
<1>4. TypeOK'
    BY <1>2 DEF TInv, TypeOK, UndoOK, Changed, Text, LineCount
<1> QED BY <1>2, <1>3, <1>4 DEF TInv, Changed

(* A waiting call of insertRegion or deleteRegion changes the text by it.  *)
LEMMA CallRegionChanges ==
    ASSUME TInv, CallRegion PROVE RegionChange
<1>1. NextCall("region")
    BY DEF CallRegion
<1>2. /\ Head(calls).op \in Operation /\ calls' \in Seq(Call) /\ calls # <<>>
    BY <1>1, HeadCall, CallFields
<1> DEFINE op == Head(calls).op
<1>3. op.interval.from \in Pos /\ op.data \in Seq(Line) /\ op.interval \in Region
    BY <1>2, OperationFields
<1>4. /\ IF op.type = "add" THEN InsertRegionCall(op.interval.from, op.data)
         ELSE DeleteRegionCall(op.interval)
      /\ UNCHANGED << cursorLine, mode, mCurrentIndex, mInsideUndo, replay, file, mPendingReplay, running >>
    BY DEF CallRegion
<1> HIDE DEF op
<1> QED BY <1>3, <1>4 DEF RegionChange

(* A waiting call of deleteLine changes the text by deleteRegion.          *)
LEMMA CallDeleteLineChanges ==
    ASSUME TInv, CallDeleteLine PROVE RegionChange
<1>1. NextCall("deleteLine")
    BY DEF CallDeleteLine
<1>2. /\ Head(calls).line \in Nat /\ calls' \in Seq(Call) /\ calls # <<>>
    BY <1>1, HeadCall, CallFields
<1> DEFINE n == Head(calls).line
<1>3. LineInterval(text, n) \in Region
    <2>1. text \in Text /\ 0 \in Nat
        BY DEF TInv, TypeOK, Text, LineCount
    <2> HIDE DEF n
    <2> QED BY <1>2, <2>1, Intervals DEF n
<1>4. /\ DeleteRegionCall(LineInterval(text, n))
      /\ UNCHANGED << cursorLine, mode, mCurrentIndex, mInsideUndo, replay, file, mPendingReplay, running >>
    BY DEF CallDeleteLine
<1> HIDE DEF n
<1> QED BY <1>3, <1>4 DEF RegionChange

(* The waiting calls that change the text keep the invariant.              *)
LEMMA CallChangeStep ==
    ASSUME TInv, CallRegion \/ CallDeleteLine PROVE TInv'
<1>1. RegionChange
    BY CallRegionChanges, CallDeleteLineChanges
<1>2. Changed
    BY <1>1, InsertChanges, DeleteChanges DEF TInv, RegionChange
<1>3. calls' \in Seq(Call) /\ calls # <<>>
    BY HeadCall DEF CallRegion, CallDeleteLine
<1> QED BY <1>2, <1>3, CallStep DEF CallRegion, CallDeleteLine

(* commitNextUndo, on its own or at the end of a command, keeps the        *)
(* invariant.                                                              *)
LEMMA CommitStep ==
    ASSUME TInv, replay = Undo!Idle,
           Undo!CommitUndoItem(cursorLine) \/ UNCHANGED undoVars,
           UNCHANGED << text, isModified, cursorLine, swap, file, mPendingReplay, running >>,
           mode' \in {"command", "insert"}, calls' \in Seq(Call)
    PROVE  TInv'
<1>1. UndoOK' /\ replay' = replay
    <2>1. CASE Undo!CommitUndoItem(cursorLine)
        <3>1. cursorLine \in Nat \union {NoLine}
            BY DEF TInv, TypeOK
        <3>2. Undo!Commit
            BY <2>1, <3>1 DEF Undo!Commit
        <3>3. [Undo!Next]_(Undo!vars)
            BY <3>2 DEF Undo!Next
        <3>4. replay' = replay
            BY <2>1 DEF Undo!CommitUndoItem, Undo!vars
        <3> QED BY <3>3, <3>4, UndoNext DEF TInv
    <2>2. CASE UNCHANGED undoVars
        <3>1. [Undo!Next]_(Undo!vars)
            BY <2>2 DEF Undo!vars, undoVars
        <3> QED BY <2>2, <3>1, UndoNext DEF TInv, undoVars
    <2> QED BY <2>1, <2>2
<1>2. CallsOK'
    BY <1>1 DEF CallsOK
<1>3. TypeOK'
    BY <1>1 DEF TInv, TypeOK, UndoOK
<1> QED BY <1>1, <1>2, <1>3 DEF TInv

(* A waiting commitNextUndo keeps the invariant.                           *)
LEMMA CallCommitStep ==
    ASSUME TInv, CallCommit PROVE TInv'
<1>1. NextCall("commit")
    BY DEF CallCommit
<1>2. calls' \in Seq(Call) /\ replay = Undo!Idle
    BY <1>1, HeadCall
<1>3. mode' \in {"command", "insert"}
    BY DEF CallCommit, TInv, TypeOK
<1> QED BY <1>2, <1>3, CommitStep DEF CallCommit

(* A step that changes neither the text nor the undo list.                 *)
LEMMA AsideStep ==
    ASSUME TInv, UNCHANGED << text, undoVars >>,
           isModified' \in BOOLEAN, cursorLine' \in Nat, mode' \in {"command", "insert"},
           swap' \in Swap!SwapState, Len(swap'.mHistory) < updatecount,
           file' \in Seq(Line), mPendingReplay' \in BOOLEAN, running' \in BOOLEAN,
           CallsOK'
    PROVE  TInv'
<1>1. [Undo!Next]_(Undo!vars)
    BY DEF Undo!vars, undoVars
<1>2. UndoOK'
    BY <1>1, UndoNext DEF TInv
<1>3. TypeOK'
    BY <1>2 DEF TInv, TypeOK, UndoOK
<1> QED BY <1>2, <1>3 DEF TInv

(* load() gives a text, for any file.                                      *)
LEMMA FileText ==
    ASSUME NEW f \in Seq(Line)
    PROVE  TextOf(f) \in Text
<1>1. EmptyText \in Seq(Seq(Char)) /\ Len(EmptyText) = 1
    BY EmptySeq DEF EmptyText
<1>2. CASE f = <<>>
    <2>1. TextOf(f) = EmptyText
        BY <1>2 DEF TextOf
    <2>2. EmptyText \in Text
        <3> HIDE DEF EmptyText
        <3>1. 1 >= 1
            OBVIOUS
        <3> QED BY <1>1, <3>1 DEF Text, Line
    <2> QED BY <2>1, <2>2
<1>3. CASE f # <<>>
    <2> DEFINE r == InsertRegion(EmptyText, Cursor(0, 0), f)
    <2>1. r \in Seq(Seq(Char)) /\ Len(r) >= Len(EmptyText)
        BY <1>1, InsertRegionIsText DEF Line
    <2>2. Len(r) \in Nat
        BY <2>1, LenProperties
    <2> QED BY <1>1, <1>3, <2>1, <2>2 DEF TextOf, Text, Line
<1> QED BY <1>2, <1>3

(* The two calls of setFileName at a start leave the name beside the file. *)
LEMMA LoadNamesFields ==
    ASSUME NEW s \in Swap!SwapState, NEW form
    PROVE  /\ LoadNames(s, form) \in Swap!SwapState
           /\ LoadNames(s, form).mHistory = s.mHistory
           /\ LoadNames(s, form).mFilename = "beside"
           /\ LoadNames(s, form).mNotResetted = TRUE
           /\ LoadNames(s, form).mRecovering = s.mRecovering
<1> DEFINE u == Swap!SetFileName(s, SwapNameOf(form))
<1>1. SwapNameOf(form) \in SwapName /\ "beside" \in SwapName
    BY DEF SwapNameOf, SwapName
<1>2. u \in Swap!SwapState /\ u.mHistory = s.mHistory /\ u.mRecovering = s.mRecovering
    BY <1>1, SetFileNameFields
<1> HIDE DEF u
<1> DEFINE v == Swap!SetFileName(u, "beside")
<1>3. LoadNames(s, form) = v
    BY DEF LoadNames, u
<1>4. v \in Swap!SwapState /\ v.mHistory = u.mHistory /\ v.mFilename = "beside"
      /\ v.mNotResetted = TRUE /\ v.mRecovering = u.mRecovering
    BY <1>1, <1>2, SetFileNameFields
<1> HIDE DEF v
<1> QED BY <1>2, <1>3, <1>4
-----------------------------------------------------------------------------
(* The recursion of a function over 0..n.                                  *)
Follows(g, n, base, step) ==
    \A i \in 0..n : g[i] = IF i = 0 THEN base ELSE step[i][g[i - 1]]

(* A function defined by recursion over the numbers up to n exists: what   *)
(* the recursive definitions of the model need before their values can be  *)
(* spoken of.                                                              *)
LEMMA RecursionExists ==
    ASSUME NEW n \in Nat, NEW V, NEW base \in V, NEW step \in [1..n -> [V -> V]]
    PROVE  \E g \in [0..n -> V] : Follows(g, n, base, step)
<1> DEFINE Holds(g, k) == \A i \in 0..k : g[i] = IF i = 0 THEN base ELSE step[i][g[i - 1]]
           S == { k \in Nat : k <= n => \E g \in [0..k -> V] : Holds(g, k) }
<1>1. 0 \in S
    <2> DEFINE g == [i \in 0..0 |-> base]
    <2>1. g \in [0..0 -> V] /\ Holds(g, 0)
        OBVIOUS
    <2> HIDE DEF g
    <2> QED BY <2>1
<1>2. ASSUME NEW k \in Nat, k \in S PROVE k + 1 \in S
    <2> SUFFICES ASSUME k + 1 <= n PROVE \E g \in [0..k + 1 -> V] : Holds(g, k + 1)
        OBVIOUS
    <2>1. PICK h \in [0..k -> V] : Holds(h, k)
        BY <1>2
    <2> DEFINE v == step[k + 1][h[k]]
               g == [i \in 0..k + 1 |-> IF i = k + 1 THEN v ELSE h[i]]
    <2>2. v \in V
        <3>1. k + 1 \in 1..n /\ h[k] \in V
            OBVIOUS
        <3> QED BY <3>1
    <2>3. \A i \in 0..k : g[i] = h[i]
        OBVIOUS
    <2>4. g[k + 1] = v /\ g \in [0..k + 1 -> V]
        BY <2>2
    <2> HIDE DEF g, v
    <2>5. Holds(g, k + 1)
        <3> TAKE i \in 0..k + 1
        <3>1. CASE i = k + 1
            BY <2>3, <2>4, <3>1 DEF v
        <3>2. CASE i # k + 1
            <4>1. i \in 0..k /\ (i # 0 => i - 1 \in 0..k)
                BY <3>2
            <4> QED BY <2>1, <2>3, <4>1
        <3> QED BY <3>1, <3>2
    <2> QED BY <2>4, <2>5
<1> HIDE DEF S
<1>3. Nat \subseteq S
    BY <1>1, <1>2, SetInduction
<1>4. PICK g \in [0..n -> V] : Holds(g, n)
    BY <1>3 DEF S
<1> QED BY <1>4 DEF Follows

(* recover() reads nothing, whatever journal was written: it takes a line  *)
(* for the bounds of an operation only if no line follows, and flush()     *)
(* writes at least the empty line that ends the entry (swapfile.cpp:95-103 *)
(* and :197-200).  What a crash left behind is not brought back.           *)
THEOREM NothingIsRecovered ==
    \A entries \in Seq(Operation) : Swap!Recovered(entries) = <<>>
<1> SUFFICES ASSUME NEW entries \in Seq(Operation) PROVE Swap!Recovered(entries) = <<>>
    OBVIOUS
<1> DEFINE n == Len(entries)
           Reads(f) == f = [i \in 0..n |->
                               IF i = 0 THEN <<>>
                               ELSE IF Swap!IsRead(entries, i) THEN Append(f[i - 1], entries[i])
                               ELSE f[i - 1]]
           read == CHOOSE f : Reads(f)
           g == [i \in 0..n |-> <<>>]
<1>1. n \in Nat
    BY LenProperties
<1>2. \A i \in 1..n : ~Swap!IsRead(entries, i)
    <2>1. ASSUME NEW i \in 1..n PROVE Swap!LinesOfEntry(entries[i]) # 1
        <3> DEFINE d == entries[i].data
        <3>1. d \in Seq(Line)
            BY ElementOfSeq, OperationFields
        <3>2. Len(d) \in Nat
            BY ONLY <3>1, LenProperties
        <3>3. Swap!LinesOfEntry(entries[i]) = 2 + Len(d)
            BY DEF Swap!LinesOfEntry
        <3> HIDE DEF d
        <3> QED BY ONLY <3>2, <3>3
    <2> QED BY <2>1 DEF Swap!IsRead, Swap!AtEndAfterBounds
<1>3. Swap!Recovered(entries) = read[n]
    BY DEF Swap!Recovered, n
<1> HIDE DEF n
<1>4. Reads(g)
    <2>1. \A i \in 0..n : i # 0 => i \in 1..n /\ i - 1 \in 0..n
        BY <1>1
    <2> QED BY <1>2, <2>1
<1>5. Reads(read)
    BY <1>4
<1>6. \A i \in 0..n : read[i] = IF i = 0 THEN <<>>
                                ELSE IF Swap!IsRead(entries, i) THEN Append(read[i - 1], entries[i])
                                ELSE read[i - 1]
    <2> HIDE DEF read
    <2> QED BY <1>5
<1> HIDE DEF read, Reads
<1> DEFINE S == { i \in Nat : i <= n => read[i] = <<>> }
<1>7. 0 \in S
    BY <1>1, <1>6
<1>8. ASSUME NEW i \in Nat, i \in S PROVE i + 1 \in S
    <2> SUFFICES ASSUME i + 1 <= n PROVE read[i + 1] = <<>>
        OBVIOUS
    <2>1. i + 1 \in 0..n /\ i + 1 \in 1..n /\ i + 1 # 0 /\ (i + 1) - 1 = i /\ i <= n
        BY <1>1
    <2> QED BY <1>2, <1>6, <1>8, <2>1
<1> HIDE DEF S
<1>9. Nat \subseteq S
    BY <1>7, <1>8, SetInduction
<1> QED BY <1>1, <1>3, <1>9 DEF S

-----------------------------------------------------------------------------
(* The invariant holds initially.                                          *)
LEMMA TypeInit ==
    ASSUME Init PROVE TInv
<1>1. file \in Seq(Line)
    BY FilesAssumption DEF Init, Line
<1>2. text \in Text
    BY <1>1, FileText DEF Init
<1>3. swap \in Swap!SwapState /\ swap.mHistory = <<>>
    <2>1. [n \in SwapName |-> NoFile] \in [SwapName -> Seq(Operation) \union {NoFile}]
        OBVIOUS
    <2>2. "beside" \in SwapName
        BY DEF SwapName
    <2> DEFINE f == [n \in SwapName |-> NoFile]
    <2>3. swap = Swap!NewSwapFile(f, "beside")
        BY DEF Init
    <2> HIDE DEF f
    <2>4. f \in [SwapName -> Seq(Operation) \union {NoFile}]
        BY <2>1 DEF f
    <2> QED BY <2>2, <2>3, <2>4, NewSwapFileFields
<1>4. Len(swap.mHistory) < updatecount
    BY <1>3, UpdatecountAssumption
<1>5. UndoOK
    BY UndoInit
<1>6. CallsOK
    BY EmptySeq DEF Init, CallsOK
<1>7. TypeOK
    BY <1>1, <1>2, <1>3, <1>5 DEF Init, TypeOK, Text, LineCount, UndoOK
<1> QED BY <1>4, <1>5, <1>6, <1>7 DEF TInv

(* An edit: one change of the text, and what the method still calls.       *)
EditForm ==
    \E name : \E line \in Nat, rest \in Seq(PlainCall) : Edit(name, line, rest) /\ RegionChange

(* An edit that begins with insertRegion has the form of an edit.          *)
LEMMA InsertForm ==
    ASSUME NEW begin \in Pos, NEW data \in Seq(Line), InsertRegionCall(begin, data),
           NEW name, NEW line \in Nat, NEW rest \in Seq(PlainCall), Edit(name, line, rest)
    PROVE  EditForm
BY DEF EditForm, RegionChange

(* An edit that begins with deleteRegion has the form of an edit.          *)
LEMMA DeleteForm ==
    ASSUME NEW bi \in Region, DeleteRegionCall(bi),
           NEW name, NEW line \in Nat, NEW rest \in Seq(PlainCall), Edit(name, line, rest)
    PROVE  EditForm
BY DEF EditForm, RegionChange

(* Every edit of the model has that form, with calls that end by           *)
(* themselves.                                                             *)
LEMMA EditTextForm ==
    ASSUME TInv, EditText PROVE EditForm
<1>1. text \in Text
    BY DEF TInv, TypeOK, Text, LineCount
<1>2. PICK line \in Lines :
        \/ DeleteLine(line) \/ MergeNextLine(line)
        \/ \E x \in Columns(line) : InsertNewLine(Cursor(x, line))
        \/ \E x \in CharColumns(line) : DeleteChar(Cursor(x, line), 1)
        \/ \E c \in Char :
              \/ \E x \in Columns(line) : InsertChar(Cursor(x, line), c)
              \/ \E x \in CharColumns(line) :
                    ReplaceChar(Cursor(x, line), c) \/ AdjustNumber(Cursor(x, line), c)
              \/ \E l \in {0, line + 1} : InsertLine(l, <<c>>)
              \/ ReplaceLine(line, <<c>>)
    BY DEF EditText
<1>3. /\ line \in Nat /\ line < LineCount(text)
      /\ Columns(line) \subseteq Nat /\ CharColumns(line) \subseteq Nat
    BY <1>1, <1>2, LineFacts DEF Lines
<1>4. <<>> \in Seq(PlainCall)
    BY EmptySeq
<1>5. \A x \in Nat : Cursor(x, line) \in Pos /\ Cursor(x, line).y = line
    BY <1>3, CursorIsPos DEF Cursor
<1>6. \A c \in Char : << <<c>> >> \in Seq(Line) /\ << <<c>> >> # <<>> /\ <<c>> \in Line
    BY DEF Line
<1>7. \A p \in Pos, c \in Char : << RegionCall(AddOperation(p, << <<c>> >>)) >> \in Seq(PlainCall)
    <2> TAKE p \in Pos, c \in Char
    <2>1. AddOperation(p, << <<c>> >>) \in Operation
        BY <1>6, AddOperationType
    <2> QED BY <2>1, CallsMade
<1>8. \A l \in Line : ReplaceLineCalls(line, l) \in Seq(PlainCall)
    <2> TAKE l \in Line
    <2>1. Cursor(0, line) \in Pos
        BY <1>5
    <2>2. << l >> \in Seq(Line) /\ << l >> # <<>>
        OBVIOUS
    <2>3. AddOperation(Cursor(0, line), << l >>) \in Operation
        BY <2>1, <2>2, AddOperationType
    <2> QED BY <2>3, CallsMade DEF ReplaceLineCalls
<1>9. LineInterval(text, line) \in Region /\ LineContent(text, line) \in Region
    BY <1>1, <1>3, Intervals
<1>10. \A x \in Nat : CharsInterval(Cursor(x, line), 1) \in Region
    BY <1>1, <1>3, Intervals
<1>11. ASSUME DeleteLine(line) PROVE EditForm
    <2>1. text' \in Text
        BY <1>9, <1>11, DeleteChanges DEF DeleteLine, TInv, Changed
    <2>2. LineCount(text') \in Nat /\ LineCount(text') >= 1
        BY <2>1, LenProperties DEF Text, LineCount
    <2> DEFINE n == IF line = LineCount(text') THEN line - 1 ELSE line
               name == NameAt(line, "deleteLine", "deleteLastLine")
    <2>3. n \in Nat
        BY <1>3, <2>2
    <2>4. DeleteRegionCall(LineInterval(text, line)) /\ Edit(name, n, <<>>)
        BY <1>11 DEF DeleteLine
    <2> HIDE DEF n, name
    <2> QED BY <1>4, <1>9, <2>3, <2>4, DeleteForm
<1>12. ASSUME MergeNextLine(line) PROVE EditForm
    <2> DEFINE l == Textline(text, line) \o Textline(text, line + 1)
               r1 == ReplaceLineCalls(line, l)
               r2 == << [call |-> "deleteLine", line |-> line + 1] >>
               name == NameAt(line + 1, "mergeNextLine", "mergeLastLine")
    <2>1. l \in Line
        BY <1>1, <1>3, LineFacts, ConcatProperties DEF Line
    <2>2. r1 \in Seq(PlainCall) /\ r2 \in Seq(PlainCall)
        <3>1. line + 1 \in Nat
            BY <1>3
        <3> QED BY <1>8, <2>1, <3>1, CallsMade
    <2>3. DeleteRegionCall(LineContent(text, line)) /\ Edit(name, line, r1 \o r2)
        BY <1>12 DEF MergeNextLine
    <2> HIDE DEF r1, r2, name
    <2>4. r1 \o r2 \in Seq(PlainCall)
        BY <2>2, ConcatProperties
    <2> QED BY <1>3, <1>9, <2>3, <2>4, DeleteForm
<1>13. ASSUME NEW x \in Columns(line), InsertNewLine(Cursor(x, line)) PROVE EditForm
    <2>1. LineBreak \in Seq(Line)
        BY EmptySeq DEF LineBreak, Line
    <2>2. Cursor(x, line) \in Pos /\ Cursor(x, line).y + 1 \in Nat
        BY <1>3, <1>5
    <2> QED BY <1>4, <1>13, <2>1, <2>2, InsertForm DEF InsertNewLine
<1>14. ASSUME NEW x \in CharColumns(line), DeleteChar(Cursor(x, line), 1) PROVE EditForm
    <2>1. Cursor(x, line).y \in Nat
        BY <1>3, <1>5
    <2> QED BY <1>3, <1>4, <1>10, <1>14, <2>1, DeleteForm DEF DeleteChar
<1>15. ASSUME NEW c \in Char, NEW x \in Columns(line), InsertChar(Cursor(x, line), c) PROVE EditForm
    <2>1. Cursor(x, line) \in Pos /\ Cursor(x, line).y \in Nat
        BY <1>3, <1>5
    <2> QED BY <1>4, <1>6, <1>15, <2>1, InsertForm DEF InsertChar
<1>16. ASSUME NEW c \in Char, NEW x \in CharColumns(line), ReplaceChar(Cursor(x, line), c) PROVE EditForm
    <2>1. Cursor(x, line) \in Pos /\ Cursor(x, line).y \in Nat
        BY <1>3, <1>5
    <2> QED BY <1>3, <1>7, <1>10, <1>16, <2>1, DeleteForm DEF ReplaceChar
<1>17. ASSUME NEW c \in Char, NEW x \in CharColumns(line), AdjustNumber(Cursor(x, line), c) PROVE EditForm
    <2>1. Cursor(x, line) \in Pos /\ Cursor(x, line).y \in Nat
        BY <1>3, <1>5
    <2> QED BY <1>3, <1>7, <1>10, <1>17, <2>1, DeleteForm DEF AdjustNumber
<1>18. ASSUME NEW c \in Char, NEW l \in {0, line + 1}, InsertLine(l, <<c>>) PROVE EditForm
    <2>1. l \in Nat
        BY <1>3
    <2>2. NewLinePosition(text, l) \in Pos
        <3>1. CASE l = 0
            BY <3>1, CursorIsPos DEF NewLinePosition
        <3>2. CASE l # 0
            <4> DEFINE k == l - 1
                       x == GetLineLength(text, l - 1)
            <4>1. k \in Nat /\ x \in Nat
                BY <1>1, <2>1, <3>2, LineFacts
            <4>2. NewLinePosition(text, l) = Cursor(x, k)
                BY <3>2 DEF NewLinePosition
            <4> HIDE DEF k, x
            <4> QED BY <4>1, <4>2, CursorIsPos
        <3> QED BY <3>1, <3>2
    <2>3. NewLineData(l, <<c>>) \in Seq(Line)
        BY EmptySeq DEF NewLineData, Line
    <2> QED BY <1>4, <1>18, <2>1, <2>2, <2>3, InsertForm DEF InsertLine
<1>19. ASSUME NEW c \in Char, ReplaceLine(line, <<c>>) PROVE EditForm
    BY <1>3, <1>6, <1>8, <1>9, <1>19, DeleteForm DEF ReplaceLine
<1> QED BY <1>2, <1>11, <1>12, <1>13, <1>14, <1>15, <1>16, <1>17, <1>18, <1>19

(* Every edit keeps the invariant.                                         *)
LEMMA EditTextStep ==
    ASSUME TInv, EditText PROVE TInv'
<1>1. PICK name : \E line \in Nat, rest \in Seq(PlainCall) : Edit(name, line, rest) /\ RegionChange
    BY EditTextForm DEF EditForm
<1>2. PICK line \in Nat, rest \in Seq(PlainCall) : Edit(name, line, rest) /\ RegionChange
    BY <1>1
<1>3. rest \in Seq(Call)
    BY CallsMade, SeqMonotonic
<1>4. Changed
    BY <1>2, InsertChanges, DeleteChanges DEF TInv, RegionChange
<1> QED BY <1>2, <1>3, <1>4, EditStep

(* The steps of undo() and redo().                                         *)
LEMMA ReplayStep ==
    ASSUME TInv, Undo!Next,
           text' \in Text, isModified' \in BOOLEAN, cursorLine' \in Nat,
           swap' \in Swap!SwapState, Len(swap'.mHistory) < updatecount,
           calls = <<>>, UNCHANGED << mode, calls, file, mPendingReplay, running >>
    PROVE  TInv'
<1>1. UndoOK'
    BY UndoNext DEF TInv
<1>2. CallsOK'
    BY EmptySeq DEF CallsOK
<1>3. TypeOK'
    BY <1>1 DEF TInv, TypeOK, UndoOK, Text, LineCount
<1> QED BY <1>1, <1>2, <1>3 DEF TInv

(* performOperation changes the text by insertRegion or deleteRegion.      *)
LEMMA PerformChanges ==
    ASSUME TInv, PerformOperation PROVE RegionChange
<1> DEFINE op == Head(replay.ops)
           ins == (op.type = "add") = (replay.dir = "redo")
<1>1. /\ Undo!PerformOperation
      /\ IF ins THEN InsertRegionCall(op.interval.from, op.data) ELSE DeleteRegionCall(op.interval)
    BY DEF PerformOperation
<1>2. replay.ops # <<>> /\ replay.ops \in Seq(Operation)
    BY <1>1 DEF Undo!PerformOperation, TInv, UndoOK, Undo!TypeOK
<1>3. op \in Operation
    BY <1>2, HeadTailProperties
<1> HIDE DEF op, ins
<1>4. op.interval.from \in Pos /\ op.data \in Seq(Line) /\ op.interval \in Region
    BY <1>3, OperationFields
<1> QED BY <1>1, <1>4 DEF RegionChange

(* performOperation keeps the invariant; what it changes is not recorded.  *)
LEMMA PerformStep ==
    ASSUME TInv, PerformOperation PROVE TInv'
<1>1. Undo!PerformOperation /\ UNCHANGED << cursorLine, mode, calls, file, mPendingReplay, running >>
    BY DEF PerformOperation
<1>2. replay.ops # <<>> /\ replay.ops \in Seq(Operation)
    BY <1>1 DEF Undo!PerformOperation, TInv, UndoOK, Undo!TypeOK
<1>3. calls = <<>>
    BY <1>2 DEF TInv, CallsOK, Undo!Idle
<1>4. mInsideUndo
    BY <1>2 DEF TInv, UndoOK, Undo!ReplayIsInside
<1>5. Changed
    BY PerformChanges, InsertChanges, DeleteChanges DEF TInv, RegionChange
<1>6. \E op \in Operation : Undo!AddBufferOperation(op)
    <2>1. UNCHANGED << mFutureUndoItem, mUndoItemList >>
        BY <1>4, <1>5 DEF Changed, Undo!AddBufferOperation
    <2>2. Head(replay.ops) \in Operation
        BY <1>2, HeadTailProperties
    <2> QED BY <1>4, <2>1, <2>2 DEF Undo!AddBufferOperation
<1>7. Undo!Next
    BY <1>1, <1>6 DEF Undo!Next, Undo!Perform
<1>8. cursorLine' \in Nat
    BY <1>1 DEF TInv, TypeOK
<1> QED BY <1>1, <1>3, <1>5, <1>7, <1>8, ReplayStep DEF Changed

(* The beginning and the end of undo() and redo() keep the invariant.      *)
LEMMA UndoSteps ==
    ASSUME TInv, StartUndo \/ StartRedo \/ FinishUndo \/ FinishRedo PROVE TInv'
<1>1. Undo!Next /\ UNCHANGED << text, isModified, mode, swap, calls, file, mPendingReplay, running >>
    BY DEF StartUndo, StartRedo, FinishUndo, FinishRedo, Undo!Next
<1>2. calls = <<>>
    <2>1. CASE StartUndo \/ StartRedo
        BY <2>1 DEF StartUndo, StartRedo, Idle
    <2>2. CASE FinishUndo \/ FinishRedo
        <3>1. replay # Undo!Idle
            BY <2>2 DEF FinishUndo, FinishRedo, Undo!FinishUndo, Undo!FinishRedo, Undo!Idle
        <3> QED BY <3>1 DEF TInv, CallsOK
    <2> QED BY <2>1, <2>2
<1>3. cursorLine' \in Nat
    <2>1. CASE StartUndo \/ StartRedo
        BY <2>1 DEF StartUndo, StartRedo, TInv, TypeOK
    <2>2. CASE FinishUndo \/ FinishRedo
        <3> DEFINE item == mUndoItemList[mCurrentIndex]
        <3>1. mCurrentIndex \in 1..Len(mUndoItemList) /\ mUndoItemList \in Seq(Undo!UndoItem)
            <4>1. replay.dir # "none"
                BY <2>2 DEF FinishUndo, FinishRedo, Undo!FinishUndo, Undo!FinishRedo
            <4> QED BY <4>1 DEF TInv, UndoOK, Undo!TypeOK, Undo!ReplayIsInside
        <3>2. item \in Undo!UndoItem
            BY <3>1, ElementOfSeq
        <3>3. GotoStartOf(item)
            BY <2>2 DEF FinishUndo, FinishRedo
        <3> HIDE DEF item
        <3>4. item.start \in Nat \union {NoLine} /\ cursorLine \in Nat
            BY <3>2 DEF Undo!UndoItem, TInv, TypeOK
        <3> QED BY <3>3, <3>4 DEF GotoStartOf, NoLine
    <2> QED BY <2>1, <2>2
<1>4. text' \in Text /\ isModified' \in BOOLEAN /\ swap' \in Swap!SwapState /\ Len(swap'.mHistory) < updatecount
    BY <1>1 DEF TInv, TypeOK, Text, LineCount
<1> QED BY <1>1, <1>2, <1>3, <1>4, ReplayStep

(* A start of the program, whatever a crash left, establishes the          *)
(* invariant.                                                              *)
LEMMA StartStep ==
    ASSUME TInv, NEW form, Start(form) PROVE TInv'
<1> DEFINE new == Swap!NewSwapFile(swap.files, "unnamed")
<1>1. new \in Swap!SwapState /\ new.mHistory = <<>>
    <2>1. swap.files \in [SwapName -> Seq(Operation) \union {NoFile}] /\ "unnamed" \in SwapName
        BY DEF TInv, TypeOK, Swap!SwapState, SwapName
    <2> QED BY <2>1, NewSwapFileFields
<1>2. swap' = LoadNames(new, form) /\ file' = file /\ file \in Seq(Line)
    BY DEF Start, TInv, TypeOK
<1> HIDE DEF new
<1>3. swap' \in Swap!SwapState /\ Len(swap'.mHistory) < updatecount
    <2>1. swap' \in Swap!SwapState /\ swap'.mHistory = <<>>
        BY <1>1, <1>2, LoadNamesFields
    <2>2. Len(<<>>) < updatecount
        BY UpdatecountAssumption
    <2> QED BY <2>1, <2>2
<1>4. text' \in Text
    BY <1>2, FileText DEF Start
<1>5. UndoOK'
    <2>1. /\ mFutureUndoItem' = [ops |-> <<>>, start |-> NoLine] /\ mUndoItemList' = <<>>
          /\ mCurrentIndex' = 0 /\ mInsideUndo' = FALSE /\ replay' = Undo!Idle
        BY DEF Start
    <2>2. UndoProofs!Init'
        BY <2>1 DEF UndoProofs!Init, Undo!Idle, UndoProofs!Idle
    <2>4. UndoProofs!IInv'
        BY <2>2, UndoProofs!InitInv, PTL
    <2> QED BY <2>4 DEF UndoProofs!IInv, UndoOK, UndoProofs!TypeOK, Undo!TypeOK,
            UndoProofs!UndoItem, Undo!UndoItem, UndoProofs!ReplayIsInside, Undo!ReplayIsInside,
            UndoProofs!ItemsHaveOperations, Undo!ItemsHaveOperations
<1>6. CallsOK'
    BY EmptySeq DEF Start, CallsOK, Question
<1>7. TypeOK'
    BY <1>2, <1>3, <1>4, <1>5 DEF Start, TypeOK, UndoOK, Text, LineCount, Swap!Exists
<1> QED BY <1>3, <1>5, <1>6, <1>7 DEF TInv

(* The question is all that waits when it is answered, and no operation of *)
(* the journal waits after it.                                             *)
LEMMA AnswerCalls ==
    ASSUME TInv, NEW answer \in BOOLEAN, CheckRecover(answer)
    PROVE  calls = Question /\ calls' \in {<<>>, << [call |-> "recovered"] >>}
<1> DEFINE recovered == Swap!Recovered(swap.files[swap.mFilename])
           end == << [call |-> "recovered"] >>
<1>1. /\ calls # <<>> /\ Head(calls).call = "checkRecover"
      /\ IF answer THEN calls' = [i \in DOMAIN recovered |-> RegionCall(recovered[i])] \o end
         ELSE calls' = <<>>
    BY DEF CheckRecover
<1>2. calls = Question /\ Swap!Exists(swap)
    <2>1. calls \notin Seq(Call)
        BY <1>1, HeadTailProperties, CallFields
    <2> QED BY <2>1 DEF TInv, CallsOK
<1>3. swap.files[swap.mFilename] \in Seq(Operation)
    BY <1>2 DEF TInv, TypeOK, Swap!Exists, Swap!SwapState
<1>4. recovered = <<>>
    BY <1>3, NothingIsRecovered
<1>5. [i \in DOMAIN recovered |-> RegionCall(recovered[i])] = <<>>
    BY <1>4
<1>6. <<>> \o end = end
    <2>1. end \in Seq(Call)
        BY CallsMade
    <2> HIDE DEF end
    <2> QED BY <2>1
<1> HIDE DEF recovered, end
<1>7. calls' = <<>> \/ calls' = end
    BY <1>1, <1>5, <1>6
<1> QED BY <1>2, <1>7 DEF end

(* checkRecover() keeps the invariant, whatever the user answers.          *)
LEMMA CheckRecoverStep ==
    ASSUME TInv, NEW answer \in BOOLEAN, CheckRecover(answer) PROVE TInv'
<1>1. /\ IF answer THEN swap' = [swap EXCEPT !.mRecovering = TRUE] ELSE UNCHANGED swap
      /\ UNCHANGED << text, isModified, cursorLine, mode, undoVars, file, mPendingReplay, running >>
    BY DEF CheckRecover
<1>2. calls = Question /\ calls' \in {<<>>, << [call |-> "recovered"] >>}
    BY AnswerCalls
<1>3. calls' \in Seq(Call)
    <2>1. << [call |-> "recovered"] >> \in Seq(Call)
        BY CallsMade
    <2> QED BY <1>2, <2>1, EmptySeq
<1>4. replay = Undo!Idle /\ replay' = replay
    BY <1>1, <1>2 DEF TInv, CallsOK, undoVars, Question
<1>5. CallsOK'
    BY <1>3, <1>4 DEF CallsOK
<1>6. swap' \in Swap!SwapState /\ Len(swap'.mHistory) < updatecount
    <2>1. Len(swap.mHistory) < updatecount /\ swap \in Swap!SwapState
        BY DEF TInv, TypeOK
    <2> QED BY <1>1, <2>1 DEF Swap!SwapState
<1> QED BY <1>1, <1>5, <1>6, AsideStep DEF TInv, TypeOK

(* load() called by the ex command edit keeps the invariant.               *)
LEMMA CallLoadStep ==
    ASSUME TInv, CallLoad PROVE TInv'
<1>1. NextCall("load")
    BY DEF CallLoad
<1>2. calls' \in Seq(Call) /\ replay = Undo!Idle
    BY <1>1, HeadCall
<1>3. /\ text' = TextOf(file) /\ isModified' = FALSE
      /\ swap' = LoadNames(swap, "absolute")
      /\ UNCHANGED << cursorLine, mode, undoVars, file, mPendingReplay, running >>
    BY DEF CallLoad
<1>4. text' \in Text
    BY <1>3, FileText DEF TInv, TypeOK
<1>5. swap' \in Swap!SwapState /\ swap'.mHistory = swap.mHistory
    BY <1>3, LoadNamesFields DEF TInv, TypeOK
<1>6. UndoOK'
    <2>1. [Undo!Next]_(Undo!vars)
        BY <1>3 DEF Undo!vars, undoVars
    <2> QED BY <2>1, UndoNext DEF TInv
<1>7. CallsOK'
    BY <1>2, <1>3 DEF CallsOK, undoVars
<1>8. TypeOK'
    BY <1>3, <1>4, <1>5, <1>6 DEF TInv, TypeOK, UndoOK, Text, LineCount
<1> QED BY <1>5, <1>6, <1>7, <1>8 DEF TInv

(* The end of a recovery keeps the invariant.                              *)
LEMMA CallRecoveredStep ==
    ASSUME TInv, CallRecovered PROVE TInv'
<1>1. NextCall("recovered")
    BY DEF CallRecovered
<1>2. calls' \in Seq(Call) /\ replay = Undo!Idle
    BY <1>1, HeadCall
<1>3. /\ swap' = [swap EXCEPT !.mRecovering = FALSE]
      /\ isModified' = TRUE /\ mPendingReplay' = FALSE
      /\ UNCHANGED << text, cursorLine, mode, undoVars, file, running >>
    BY DEF CallRecovered
<1>4. CallsOK'
    BY <1>2, <1>3 DEF CallsOK, undoVars
<1>5. swap' \in Swap!SwapState /\ Len(swap'.mHistory) < updatecount
    <2>1. swap \in Swap!SwapState /\ Len(swap.mHistory) < updatecount
        BY DEF TInv, TypeOK
    <2> QED BY <1>3, <2>1 DEF Swap!SwapState
<1> QED BY <1>3, <1>4, <1>5, AsideStep DEF TInv, TypeOK

(* save() and preserve keep the invariant.                                 *)
LEMMA SavePreserveStep ==
    ASSUME TInv, Save \/ Preserve PROVE TInv'
<1>1. /\ calls' = LeaveExMode /\ calls = <<>> /\ replay = Undo!Idle
      /\ UNCHANGED << text, cursorLine, mode, undoVars, mPendingReplay, running >>
    BY DEF Save, Preserve, Idle
<1>2. CallsOK'
    BY <1>1, CallsMade DEF CallsOK, undoVars, LeaveExMode
<1>3. swap \in Swap!SwapState /\ Len(swap.mHistory) < updatecount
      /\ Len(<<>>) < updatecount
    BY UpdatecountAssumption DEF TInv, TypeOK
<1>4. swap' \in Swap!SwapState /\ Len(swap'.mHistory) < updatecount
    <2>1. CASE Save
        <3> DEFINE r == Swap!Reset(swap)
        <3>1. r \in Swap!SwapState /\ r.mHistory = <<>>
            BY <1>3, ResetFields
        <3>2. swap' = Swap!Unlink(r)
            BY <2>1 DEF Save
        <3> HIDE DEF r
        <3> QED BY <1>3, <3>1, <3>2, UnlinkFields
    <2>2. CASE Preserve
        <3>1. swap' = Swap!Flush(swap)
            BY <2>2 DEF Preserve
        <3> QED BY <1>3, <3>1, FlushFields
    <2> QED BY <1>1, <2>1, <2>2 DEF Save, Preserve
<1>5. file' \in Seq(Line) /\ isModified' \in BOOLEAN
    BY EmptySeq DEF Save, Preserve, FileOf, TInv, TypeOK
<1> QED BY <1>1, <1>2, <1>4, <1>5, AsideStep DEF TInv, TypeOK

(* The ex command edit, without a name, keeps the invariant.               *)
LEMMA ReloadStep ==
    ASSUME TInv, Reload PROVE TInv'
<1>1. WholeText(text) \in Region
    <2>1. text \in Text /\ 0 \in Nat
        BY DEF TInv, TypeOK, Text, LineCount
    <2> QED BY <2>1, Intervals
<1> DEFINE rest == << [call |-> "load"] >>
<1>2. rest \in Seq(Call)
    BY CallsMade
<1>3. DeleteRegionCall(WholeText(text)) /\ Edit("reload", 0, rest)
    BY DEF Reload
<1> HIDE DEF rest
<1> QED BY <1>1, <1>2, <1>3, DeleteStep

(* Moving the cursor, quitting and crashing keep the invariant.            *)
LEMMA UserStep ==
    ASSUME TInv, MoveCursor \/ Quit \/ Crash PROVE TInv'
<1>1. UNCHANGED << text, undoVars, isModified, mode, calls, file, mPendingReplay >>
      /\ replay' = replay
    BY DEF MoveCursor, Quit, Crash, undoVars
<1>2. cursorLine' \in Nat
    <2>1. Lines \subseteq Nat
        BY LineFacts DEF TInv, TypeOK, Text, LineCount
    <2> QED BY <2>1 DEF MoveCursor, Quit, Crash, TInv, TypeOK
<1>3. swap' \in Swap!SwapState /\ Len(swap'.mHistory) < updatecount
    <2>1. swap' = swap \/ swap' = Swap!Unlink(swap)
        BY DEF MoveCursor, Quit, Crash
    <2>2. swap \in Swap!SwapState /\ Len(swap.mHistory) < updatecount
        BY DEF TInv, TypeOK
    <2> QED BY <2>1, <2>2, UnlinkFields
<1>4. CallsOK'
    <2>1. calls # <<>> => swap' = swap
        BY DEF MoveCursor, Quit, Crash, Idle
    <2>2. CASE calls = <<>>
        BY <1>1, <2>2, EmptySeq DEF CallsOK
    <2>3. CASE calls # <<>>
        BY <1>1, <2>1, <2>3 DEF CallsOK, TInv
    <2> QED BY <2>2, <2>3
<1>5. running' \in BOOLEAN
    BY DEF MoveCursor, Quit, Crash, TInv, TypeOK
<1> QED BY <1>1, <1>2, <1>3, <1>4, <1>5, AsideStep DEF TInv, TypeOK

(* Entering and leaving insert mode keep the invariant.                    *)
LEMMA InsertModeStep ==
    ASSUME TInv, NEW commits, EnterInsertMode(commits) \/ LeaveInsertMode PROVE TInv'
<1>1. /\ replay = Undo!Idle /\ calls = <<>> /\ calls' = calls
      /\ Undo!CommitUndoItem(cursorLine) \/ UNCHANGED undoVars
      /\ UNCHANGED << text, isModified, cursorLine, swap, file, mPendingReplay, running >>
      /\ mode' \in {"command", "insert"}
    BY DEF EnterInsertMode, LeaveInsertMode, Idle
<1> QED BY <1>1, EmptySeq, CommitStep

(* Every step keeps the invariant.                                         *)
LEMMA TypeStep ==
    ASSUME TInv, [Next]_vars PROVE TInv'
<1>1. CASE UNCHANGED vars
    <2>1. [Undo!Next]_(Undo!vars)
        BY <1>1 DEF Undo!vars, undoVars, vars
    <2>2. UndoOK'
        BY <2>1, UndoNext DEF TInv
    <2> QED BY <1>1, <2>2 DEF TInv, TypeOK, UndoOK, CallsOK, vars, undoVars
<1>2. CASE Continue
    BY <1>2, PerformStep, UndoSteps, CallChangeStep, CallCommitStep,
       CallLoadStep, CallRecoveredStep, CheckRecoverStep DEF Continue
<1>3. CASE \E form \in PathForms : Start(form)
    BY <1>3, StartStep
<1>4. CASE \E commits \in BOOLEAN : EnterInsertMode(commits)
    BY <1>4, InsertModeStep
<1> QED BY <1>1, <1>2, <1>3, <1>4, EditTextStep, UserStep, InsertModeStep, UndoSteps,
           SavePreserveStep, ReloadStep DEF Next

(* The invariant holds in every reachable state.                           *)
LEMMA InvHolds == Spec => []TInv
<1>1. Init => TInv
    BY TypeInit
<1>2. TInv /\ [Next]_vars => TInv'
    BY TypeStep
<1> QED BY <1>1, <1>2, PTL DEF Spec

(* The variables keep their types: the text always has a line, whatever    *)
(* interval an operation has (TypeOK).                                     *)
THEOREM TypeCorrect == Spec => []TypeOK
BY InvHolds, PTL DEF TInv

(* A crash loses fewer than updatecount operations: all others are in the  *)
(* file, or were given up by flush() (addToSwap, swapfile.cpp:132-136).    *)
THEOREM CrashLosesFewHolds == Spec => []CrashLosesFew
<1>1. TInv => CrashLosesFew
    BY DEF TInv, CrashLosesFew
<1> QED BY <1>1, InvHolds, PTL
-----------------------------------------------------------------------------
(* What is saved is what is loaded.                                        *)
LEMMA EmptyParts ==
    ASSUME NEW S, NEW s \in Seq(S), Len(s) = 1
    PROVE  SubSeq(s, 1, 0) = <<>> /\ SubSeq(s, 0 + 2, Len(s)) = <<>>
<1>1. SubSeq(s, 1, 0) \in Seq(S) /\ Len(SubSeq(s, 1, 0)) = 0
    BY SubSeqProperties
<1>2. SubSeq(s, 2, 1) \in Seq(S) /\ Len(SubSeq(s, 2, 1)) = 0
    BY SubSeqProperties
<1>3. \A e \in Seq(S) : Len(e) = 0 => e = <<>>
    BY EmptySeq
<1> HIDE DEF EmptyText
<1> QED BY <1>1, <1>2, <1>3

(* What save() writes, load() reads back: also of an empty buffer, for     *)
(* which nothing is written.                                               *)
LEMMA FileKeepsText ==
    ASSUME NEW t \in Text
    PROVE  TextOf(FileOf(t)) = t
<1>1. t \in Seq(Seq(Char)) /\ Len(t) \in Nat /\ Len(t) >= 1 /\ t # <<>>
    BY LenProperties, EmptySeq DEF Text, Line
<1>2. CASE t = EmptyText
    BY <1>2 DEF TextOf, FileOf
<1>3. CASE t # EmptyText
    <2> DEFINE e == EmptyText
               ls == InsertedLines(<<>>, 0, t)
    <2>1. e \in Seq(Seq(Char)) /\ Len(e) = 1 /\ e[1] = <<>>
        BY EmptySeq DEF EmptyText
    <2> HIDE DEF e
    <2>3. InsertRegion(e, Cursor(0, 0), t)
            = SubSeq(e, 1, 0) \o InsertedLines(e[0 + 1], 0, t) \o SubSeq(e, 0 + 2, Len(e))
        <3> DEFINE z == 0
        <3>1. GetLineLength(e, z) \in Nat /\ z \in Nat /\ z < Len(e)
            BY <2>1, TextlineType
        <3>2. z <= GetLineLength(e, z)
            BY <3>1
        <3> HIDE DEF z
        <3>3. /\ InText(e, Cursor(z, z)) /\ e \in Seq(Seq(Char)) /\ z \in Nat
              /\ t \in Seq(Seq(Char)) /\ t # <<>>
            BY <1>1, <2>1, <3>1, <3>2, TextPositions
        <3>4. InsertRegion(e, Cursor(z, z), t)
                = SubSeq(e, 1, z) \o InsertedLines(e[z + 1], z, t) \o SubSeq(e, z + 2, Len(e))
            BY ONLY <3>3, InsertRegionParts
        <3> QED BY <3>4 DEF z
    <2>4. AreInserted(ls, <<>>, 0, t, Char)
        <3>1. <<>> \in Seq(Char) /\ 0 \in 0..Len(<<>>)
            BY EmptySeq
        <3> QED BY <1>1, <3>1, InsertedLinesProperties
    <2>5. Left(<<>>, 0) = <<>> /\ Mid(<<>>, 0) = <<>>
        <3> DEFINE s == <<>>
        <3>1. s \in Seq(Char) /\ Len(s) = 0
            BY EmptySeq
        <3>2. \A w \in Seq(Char) : Len(w) = 0 => w = s
            BY EmptySeq
        <3> HIDE DEF s
        <3>3. Left(s, 0) = SubSeq(s, 1, 0) /\ Mid(s, 0) = SubSeq(s, 1, 0)
            BY <3>1 DEF Left, Mid
        <3>4. SubSeq(s, 1, 0) \in Seq(Char) /\ Len(SubSeq(s, 1, 0)) = 0
            BY <3>1, SubSeqProperties
        <3> QED BY <3>2, <3>3, <3>4 DEF s
    <2>6. ls \in Seq(Seq(Char)) /\ Len(ls) = Len(t)
        BY <2>4 DEF AreInserted
    <2> HIDE DEF ls
    <2>7. \A i \in 1..Len(t) : ls[i] = t[i]
        <3> TAKE i \in 1..Len(t)
        <3>1. \A w \in Seq(Char) : <<>> \o w = w /\ w \o <<>> = w
            BY ConcatEmptySeq
        <3>2. t[1] \in Seq(Char) /\ t[Len(t)] \in Seq(Char)
            BY <1>1, ElementOfSeq
        <3>3. CASE Len(t) = 1
            <4>1. ls[1] = <<>> \o t[1] \o <<>>
                BY <2>4, <2>5, <3>3 DEF AreInserted
            <4>2. ls[1] = t[1]
                BY <3>1, <3>2, <4>1
            <4> QED BY <3>3, <4>2
        <3>4. CASE Len(t) # 1
            <4>1. ls[1] = <<>> \o t[1] /\ ls[Len(t)] = t[Len(t)] \o <<>>
                BY <2>4, <2>5, <3>4 DEF AreInserted
            <4>2. ls[1] = t[1] /\ ls[Len(t)] = t[Len(t)]
                BY <3>1, <3>2, <4>1
            <4>3. i = 1 \/ i = Len(t) \/ i \in 2..Len(t) - 1
                BY <1>1
            <4> QED BY <2>4, <4>2, <4>3 DEF AreInserted
        <3> QED BY <3>3, <3>4
    <2>8. ls = t
        BY <1>1, <2>6, <2>7, SeqEqual
    <2>9. InsertRegion(e, Cursor(0, 0), t) = <<>> \o t \o <<>>
        <3>1. InsertedLines(e[0 + 1], 0, t) = t
            BY <2>1, <2>8 DEF ls
        <3>2. SubSeq(e, 1, 0) = <<>> /\ SubSeq(e, 0 + 2, Len(e)) = <<>>
            BY <2>1, EmptyParts
        <3> QED BY <2>3, <3>1, <3>2
    <2>10. <<>> \o t \o <<>> = t
        BY <1>1, ConcatEmptySeq
    <2>11. FileOf(t) = t /\ TextOf(t) = InsertRegion(EmptyText, Cursor(0, 0), t)
        BY <1>1, <1>3 DEF FileOf, TextOf
    <2> QED BY <2>9, <2>10, <2>11 DEF e
<1> QED BY <1>2, <1>3

(* The inductive form of UnmodifiedIsSaved: it holds in the middle of      *)
(* commands, too, and while the program does not run.                      *)
SavedInv == ~isModified => text = TextOf(file)

(* Every step keeps it: a call that changes the text marks the buffer      *)
(* modified, and what resets the mark has made text and file the same.     *)
LEMMA SavedStep ==
    ASSUME TInv, SavedInv, [Next]_vars PROVE SavedInv'
<1>1. ASSUME NEW begin, NEW data, InsertRegionCall(begin, data), UNCHANGED file PROVE SavedInv'
    BY <1>1 DEF InsertRegionCall, SavedInv
<1>2. ASSUME NEW bi, DeleteRegionCall(bi) PROVE SavedInv'
    BY <1>2 DEF DeleteRegionCall, SavedInv
<1>3. CASE UNCHANGED << text, isModified, file >>
    BY <1>3 DEF SavedInv
<1>4. CASE EditText
    <2>1. UNCHANGED file /\ RegionChange
        BY <1>4, EditTextForm DEF EditForm, Edit
    <2> QED BY <1>1, <1>2, <2>1 DEF RegionChange
<1>5. CASE PerformOperation \/ CallRegion \/ CallDeleteLine
    <2>1. UNCHANGED file /\ RegionChange
        BY <1>5, PerformChanges, CallRegionChanges, CallDeleteLineChanges
           DEF PerformOperation, CallRegion, CallDeleteLine
    <2> QED BY <1>1, <1>2, <2>1 DEF RegionChange
<1>8. CASE Reload
    BY <1>2, <1>8 DEF Reload
<1>9. CASE Save
    <2>1. text \in Text
        BY DEF TInv, TypeOK, Text, LineCount
    <2>2. text = TextOf(FileOf(text))
        BY <2>1, FileKeepsText
    <2>3. text' = text /\ file' = FileOf(text)
        BY <1>9 DEF Save
    <2>4. text' = TextOf(file')
        BY <2>2, <2>3
    <2> QED BY <2>4 DEF SavedInv
<1>10. CASE CallLoad
    BY <1>10 DEF CallLoad, SavedInv
<1>11. CASE \E form \in PathForms : Start(form)
    BY <1>11 DEF Start, SavedInv
<1>12. CASE CallRecovered
    BY <1>12 DEF CallRecovered, SavedInv
<1>13. CASE \E answer \in BOOLEAN : CheckRecover(answer)
    BY <1>3, <1>13 DEF CheckRecover
<1>14. CASE MoveCursor \/ (\E commits \in BOOLEAN : EnterInsertMode(commits)) \/ LeaveInsertMode
    BY <1>3, <1>14 DEF MoveCursor, EnterInsertMode, LeaveInsertMode
<1>15. CASE StartUndo \/ StartRedo \/ FinishUndo \/ FinishRedo
    BY <1>3, <1>15 DEF StartUndo, StartRedo, FinishUndo, FinishRedo
<1>16. CASE CallCommit \/ Preserve \/ Quit \/ Crash \/ UNCHANGED vars
    BY <1>3, <1>16 DEF CallCommit, Preserve, Quit, Crash, vars
<1> QED BY <1>4, <1>5, <1>8, <1>9, <1>10, <1>11, <1>12, <1>13, <1>14, <1>15, <1>16
        DEF Next, Continue

(* A buffer that is not marked modified has the text of its file           *)
(* (YBuffer::setChanged, save and load, buffer.cpp): quitting it without   *)
(* asking loses nothing.                                                   *)
THEOREM UnmodifiedIsSavedHolds == Spec => []UnmodifiedIsSaved
<1>1. Init => SavedInv
    BY DEF Init, SavedInv
<1>2. TInv /\ SavedInv /\ [Next]_vars => SavedInv'
    BY SavedStep
<1>3. SavedInv => UnmodifiedIsSaved
    BY DEF SavedInv, UnmodifiedIsSaved
<1> QED BY <1>1, <1>2, <1>3, InvHolds, PTL DEF Spec
-----------------------------------------------------------------------------
(* An operation, replayed, gives a text, wherever its interval lies.       *)
LEMMA ReplayedType ==
    ASSUME NEW t \in Text, NEW op \in Operation
    PROVE  Replayed(t, op) \in Text
<1>1. t \in Seq(Seq(Char)) /\ Len(t) \in Nat /\ Len(t) >= 1
    BY LenProperties DEF Text, Line
<1>2. op.interval.from \in Pos /\ op.data \in Seq(Line) /\ op.interval \in Region
    BY OperationFields
<1> DEFINE begin == op.interval.from
           data == op.data
           bi == op.interval
           x == begin.x
           y == begin.y
           r == InsertRegion(t, Cursor(x, y), data)
           d == DeleteRegion(t, bi)
<1>3. r \in Seq(Seq(Char)) /\ Len(r) >= Len(t)
    <2>1. x \in Nat /\ y \in Nat /\ data \in Seq(Seq(Char))
        BY <1>2, PosIsCursor DEF Line
    <2> HIDE DEF x, y, data
    <2> QED BY <1>1, <2>1, InsertRegionIsText
<1>4. d \in Seq(Seq(Char)) /\ Len(d) >= 1
    <2>1. bi \in Region
        BY <1>2
    <2> HIDE DEF bi
    <2> QED BY <1>1, <2>1, RegionEnd, DeleteRegionIsText
<1>5. Replayed(t, op) = r \/ Replayed(t, op) = d
    <2>1. begin = Cursor(x, y)
        BY <1>2, PosIsCursor
    <2> QED BY <2>1 DEF Replayed
<1> HIDE DEF r, d
<1>6. Len(r) \in Nat
    BY <1>3, LenProperties
<1> QED BY <1>1, <1>3, <1>4, <1>5, <1>6 DEF Text, Line

(* JournalText of any beginning, not of the file only.                     *)
JournalFrom(base, entries) ==
    LET after[i \in 0..Len(entries)] ==
            IF i = 0 THEN base ELSE Replayed(after[i - 1], entries[i])
    IN  after[Len(entries)]

(* The texts a journal goes through.                                       *)
ReplayedTexts(g, base, entries) ==
    /\ g \in [0..Len(entries) -> Text]
    /\ \A i \in 0..Len(entries) : g[i] = IF i = 0 THEN base ELSE Replayed(g[i - 1], entries[i])

(* Every journal can be replayed.                                          *)
LEMMA TextsExist ==
    ASSUME NEW base \in Text, NEW entries \in Seq(Operation)
    PROVE  \E g : ReplayedTexts(g, base, entries)
<1> DEFINE n == Len(entries)
           step == [i \in 1..n |-> [t \in Text |-> Replayed(t, entries[i])]]
<1>1. n \in Nat
    BY LenProperties
<1>2. step \in [1..n -> [Text -> Text]]
    <2>1. \A i \in 1..n, t \in Text : Replayed(t, entries[i]) \in Text
        BY ElementOfSeq, ReplayedType
    <2> QED BY <2>1
<1>3. \A i \in 1..n, t \in Text : step[i][t] = Replayed(t, entries[i])
    OBVIOUS
<1> HIDE DEF step, n
<1>4. PICK g \in [0..n -> Text] : Follows(g, n, base, step)
    BY <1>1, <1>2, RecursionExists
<1>5. ASSUME NEW i \in 0..n
      PROVE  g[i] = IF i = 0 THEN base ELSE Replayed(g[i - 1], entries[i])
    <2>1. CASE i = 0
        BY <1>4, <2>1 DEF Follows
    <2>2. CASE i # 0
        <3>1. i \in 1..n /\ i - 1 \in 0..n
            BY <1>1, <2>2
        <3>2. g[i] = step[i][g[i - 1]] /\ g[i - 1] \in Text
            BY <1>4, <2>2, <3>1 DEF Follows
        <3> QED BY <1>3, <2>2, <3>1, <3>2
    <2> QED BY <2>1, <2>2
<1> QED BY <1>4, <1>5 DEF ReplayedTexts, n

(* The last of them is what the journal gives.                             *)
LEMMA TextsGive ==
    ASSUME NEW base, NEW entries \in Seq(Operation), NEW g, ReplayedTexts(g, base, entries)
    PROVE  JournalFrom(base, entries) = g[Len(entries)]
<1> DEFINE n == Len(entries)
           Reads(f) == f = [i \in 0..n |->
                               IF i = 0 THEN base ELSE Replayed(f[i - 1], entries[i])]
           after == CHOOSE f : Reads(f)
<1>1. n \in Nat
    BY LenProperties
<1>2. Reads(g)
    BY DEF ReplayedTexts
<1>3. Reads(after)
    BY <1>2
<1>4. JournalFrom(base, entries) = after[n]
    BY DEF JournalFrom
<1> HIDE DEF after
<1>5. \A i \in 0..n : after[i] = IF i = 0 THEN base ELSE Replayed(after[i - 1], entries[i])
    BY <1>3
<1>6. \A i \in 0..n : g[i] = IF i = 0 THEN base ELSE Replayed(g[i - 1], entries[i])
    BY DEF ReplayedTexts
<1> HIDE DEF n, Reads
<1> DEFINE S == { i \in Nat : i <= n => after[i] = g[i] }
<1>7. 0 \in S
    BY <1>1, <1>5, <1>6
<1>8. ASSUME NEW i \in Nat, i \in S PROVE i + 1 \in S
    <2> SUFFICES ASSUME i + 1 <= n PROVE after[i + 1] = g[i + 1]
        OBVIOUS
    <2>1. i + 1 \in 0..n /\ i + 1 # 0 /\ (i + 1) - 1 = i
        BY <1>1
    <2>2. after[i] = g[i]
        BY <1>1, <1>8
    <2> QED BY <1>5, <1>6, <2>1, <2>2
<1> HIDE DEF S
<1>9. Nat \subseteq S
    BY <1>7, <1>8, SetInduction
<1> QED BY <1>1, <1>4, <1>9 DEF S, n

(* The empty journal gives the text it begins with.                        *)
LEMMA JournalOfNothing ==
    ASSUME NEW base \in Text
    PROVE  JournalFrom(base, <<>>) = base
<1> DEFINE e == <<>>
<1>1. e \in Seq(Operation) /\ Len(e) = 0
    BY EmptySeq
<1> HIDE DEF e
<1>2. PICK g : ReplayedTexts(g, base, e)
    BY <1>1, TextsExist
<1>3. JournalFrom(base, e) = g[Len(e)]
    BY <1>1, <1>2, TextsGive
<1>4. g[0] = base
    BY <1>1, <1>2 DEF ReplayedTexts
<1> QED BY <1>1, <1>3, <1>4 DEF e

(* One operation more: replay the others, then that one.                   *)
LEMMA JournalOfMore ==
    ASSUME NEW base \in Text, NEW entries \in Seq(Operation), NEW op \in Operation
    PROVE  /\ JournalFrom(base, Append(entries, op)) = Replayed(JournalFrom(base, entries), op)
           /\ JournalFrom(base, entries) \in Text
<1> DEFINE n == Len(entries)
           more == Append(entries, op)
<1>1. /\ n \in Nat /\ more \in Seq(Operation) /\ Len(more) = n + 1
      /\ more[n + 1] = op /\ \A i \in 1..n : more[i] = entries[i]
    BY LenProperties, AppendProperties
<1>2. PICK g : ReplayedTexts(g, base, entries)
    BY TextsExist
<1>3. PICK h : ReplayedTexts(h, base, more)
    BY <1>1, TextsExist
<1> HIDE DEF more
<1>4. /\ JournalFrom(base, entries) = g[n]
      /\ JournalFrom(base, more) = h[n + 1]
    BY <1>1, <1>2, <1>3, TextsGive
<1>5. /\ g \in [0..n -> Text]
      /\ \A i \in 0..n : g[i] = IF i = 0 THEN base ELSE Replayed(g[i - 1], entries[i])
      /\ \A i \in 0..n + 1 : h[i] = IF i = 0 THEN base ELSE Replayed(h[i - 1], more[i])
    BY <1>1, <1>2, <1>3 DEF ReplayedTexts
<1> HIDE DEF n
<1> DEFINE S == { i \in Nat : i <= n => h[i] = g[i] }
<1>6. 0 \in S
    <2>1. 0 \in 0..n /\ 0 \in 0..n + 1
        BY <1>1
    <2>2. h[0] = base /\ g[0] = base
        BY <1>5, <2>1
    <2> QED BY <2>2
<1>7. ASSUME NEW i \in Nat, i \in S PROVE i + 1 \in S
    <2> SUFFICES ASSUME i + 1 <= n PROVE h[i + 1] = g[i + 1]
        OBVIOUS
    <2>1. i + 1 \in 0..n /\ i + 1 \in 0..n + 1 /\ i + 1 \in 1..n /\ i + 1 # 0 /\ (i + 1) - 1 = i
        BY <1>1
    <2>2. h[i] = g[i]
        BY <1>1, <1>7
    <2>3. h[i + 1] = Replayed(h[i], more[i + 1]) /\ g[i + 1] = Replayed(g[i], entries[i + 1])
        BY <1>5, <2>1
    <2> QED BY <1>1, <2>1, <2>2, <2>3
<1> HIDE DEF S
<1>8. Nat \subseteq S
    BY <1>6, <1>7, SetInduction
<1>9. h[n] = g[n]
    BY <1>1, <1>8 DEF S
<1>10. h[n + 1] = Replayed(h[n], op)
    <2>1. n + 1 \in 0..n + 1 /\ n + 1 # 0 /\ (n + 1) - 1 = n
        BY <1>1
    <2> QED BY <1>1, <1>5, <2>1
<1> QED BY <1>1, <1>4, <1>5, <1>9, <1>10 DEF more

-----------------------------------------------------------------------------
(* The journal is kept.                                                    *)
Kept(s) ==
    /\ s \in Swap!SwapState
    /\ s.mFilename = "beside" /\ ~s.mRecovering
    /\ ~s.mNotResetted => Swap!Exists(s)

(* A journal consists of operations.                                       *)
LEMMA JournalType ==
    ASSUME NEW s, Kept(s)
    PROVE  Journal(s) \in Seq(Operation)
<1> DEFINE h == s.mHistory
           f == s.files[s.mFilename]
<1>1. h \in Seq(Operation) /\ (Swap!Exists(s) => f \in Seq(Operation))
    BY DEF Kept, Swap!SwapState, Swap!Exists
<1>2. Journal(s) = (IF Swap!Exists(s) THEN f ELSE <<>>) \o h
    BY DEF Journal
<1> HIDE DEF h, f
<1>3. (IF Swap!Exists(s) THEN f ELSE <<>>) \in Seq(Operation)
    BY <1>1, EmptySeq
<1> QED BY <1>1, <1>2, <1>3, ConcatProperties

(* flush() writes what is in memory, or keeps it.                          *)
LEMMA FlushKeeps ==
    ASSUME SwapWritable, NEW s, Kept(s)
    PROVE  Kept(Swap!Flush(s)) /\ Journal(Swap!Flush(s)) = Journal(s)
<1> DEFINE W == IF SwapWritable THEN {"beside"} ELSE {}
           ready == IF s.mNotResetted THEN Swap!InitFile(s) ELSE s
           J == Journal(s)
<1>1. /\ s \in Swap!SwapState /\ s.mFilename = "beside" /\ ~s.mRecovering
      /\ s.mHistory \in Seq(Operation) /\ "beside" \in SwapName
    BY DEF Kept, Swap!SwapState
<1>2. "beside" \in W
    OBVIOUS
<1>3. /\ ready \in Swap!SwapState /\ ready.mFilename = "beside" /\ ready.mHistory = s.mHistory
      /\ ready.mRecovering = s.mRecovering /\ Swap!Exists(ready)
      /\ ready.files["beside"] = IF Swap!Exists(s) THEN s.files["beside"] ELSE <<>>
    <2>1. CASE ~s.mNotResetted
        BY <1>1, <2>1 DEF Kept
    <2>2. CASE s.mNotResetted /\ Swap!Exists(s)
        <3>1. ready = [s EXCEPT !.mNotResetted = TRUE]
            BY <2>2 DEF Swap!InitFile
        <3> QED BY <1>1, <2>2, <3>1 DEF Swap!SwapState, Swap!Exists
    <2>3. CASE s.mNotResetted /\ ~Swap!Exists(s)
        <3> DEFINE f == [s.files EXCEPT !["beside"] = <<>>]
        <3>1. ready = [s EXCEPT !.files = f, !.mNotResetted = FALSE]
            <4>1. ready = [s EXCEPT !.files[s.mFilename] = <<>>, !.mNotResetted = FALSE]
                BY <1>1, <1>2, <2>3 DEF Swap!InitFile
            <4> QED BY <1>1, <4>1
        <3>2. f \in [SwapName -> Seq(Operation) \union {NoFile}] /\ f["beside"] = <<>>
            BY <1>1, EmptySeq DEF Swap!SwapState
        <3>3. <<>> # NoFile
            BY NoFileAssumption, EmptySeq
        <3> HIDE DEF f, ready
        <3>4. /\ ready.files = f /\ ready.mFilename = "beside" /\ ready.mHistory = s.mHistory
              /\ ready.mRecovering = s.mRecovering /\ ready \in Swap!SwapState
            BY <1>1, <3>1, <3>2 DEF Swap!SwapState
        <3> QED BY <2>3, <3>2, <3>3, <3>4 DEF Swap!Exists
    <2> QED BY <2>1, <2>2, <2>3
<1> HIDE DEF ready
<1> DEFINE c == ready.files["beside"] \o s.mHistory
           f == [ready.files EXCEPT !["beside"] = c]
           written == [ready EXCEPT !.files = f]
<1>4. Swap!Flush(s) = Swap!Reset(written)
    <2>1. Swap!Flush(s) = Swap!Reset(
              IF Swap!Exists(ready) /\ ready.mFilename \in W
              THEN [ready EXCEPT !.files[ready.mFilename] = @ \o ready.mHistory]
              ELSE [ready EXCEPT !.mNotResetted = TRUE])
        BY <1>1 DEF Swap!Flush, ready
    <2> QED BY <1>1, <1>2, <1>3, <2>1
<1>5. ready.files["beside"] \in Seq(Operation)
    BY <1>1, <1>3, EmptySeq DEF Swap!Exists, Swap!SwapState
<1>6. c \in Seq(Operation) /\ c = J
    <2>1. c = (IF Swap!Exists(s) THEN s.files["beside"] ELSE <<>>) \o s.mHistory
        BY <1>3
    <2>2. c = J
        BY <1>1, <2>1 DEF Journal
    <2> QED BY <1>1, <1>5, <2>2, ConcatProperties
<1> HIDE DEF c, J
<1>7. f \in [SwapName -> Seq(Operation) \union {NoFile}] /\ f["beside"] = c
    BY <1>1, <1>3, <1>6 DEF Swap!SwapState
<1> HIDE DEF f
<1>8. /\ written \in Swap!SwapState /\ written.files = f /\ written.mFilename = "beside"
      /\ ~written.mRecovering
    BY <1>1, <1>3, <1>7 DEF Swap!SwapState
<1> HIDE DEF written
<1> DEFINE r == Swap!Reset(written)
<1>9. /\ r \in Swap!SwapState /\ r.mHistory = <<>> /\ r.files = f /\ r.mFilename = "beside"
      /\ ~r.mRecovering
    BY <1>8, ResetFields
<1> HIDE DEF r
<1>10. Swap!Exists(r)
    BY <1>6, <1>7, <1>9, NoFileAssumption DEF Swap!Exists
<1>11. Journal(r) = c
    <2>1. Journal(r) = c \o <<>>
        BY <1>7, <1>9, <1>10 DEF Journal
    <2> QED BY <1>6, <2>1, ConcatEmptySeq
<1> QED BY <1>4, <1>6, <1>9, <1>10, <1>11 DEF Kept, J, r

(* An operation told to the swap file is the last of the journal.          *)
LEMMA AddKeeps ==
    ASSUME SwapWritable, NEW s, Kept(s), NEW op \in Operation
    PROVE  Kept(Swap!AddToSwap(s, op)) /\ Journal(Swap!AddToSwap(s, op)) = Append(Journal(s), op)
<1> DEFINE h == Append(s.mHistory, op)
           longer == [s EXCEPT !.mHistory = h]
           old == IF Swap!Exists(s) THEN s.files[s.mFilename] ELSE <<>>
<1>1. s \in Swap!SwapState /\ s.mHistory \in Seq(Operation) /\ old \in Seq(Operation)
    BY EmptySeq DEF Kept, Swap!SwapState, Swap!Exists
<1>2. h \in Seq(Operation)
    BY <1>1, AppendProperties
<1>3. Journal(s) = old \o s.mHistory
    BY DEF Journal
<1>4. old \o h = Append(old \o s.mHistory, op)
    <2> DEFINE one == << op >>
               p == s.mHistory
    <2>1. one \in Seq(Operation) /\ p \in Seq(Operation)
        BY <1>1
    <2>2. h = p \o one
        BY <2>1, AppendIsConcat
    <2>3. old \o p \in Seq(Operation)
        BY <1>1, ConcatProperties
    <2>4. Append(old \o p, op) = (old \o p) \o one
        BY <2>3, AppendIsConcat
    <2> HIDE DEF one, p, h, old
    <2>5. (old \o p) \o one = old \o (p \o one)
        BY <1>1, <2>1, ConcatAssociative
    <2> QED BY <2>2, <2>4, <2>5 DEF p
<1>5. Swap!AddToSwap(s, op) = IF Len(longer.mHistory) >= updatecount THEN Swap!Flush(longer) ELSE longer
    BY DEF Swap!AddToSwap, Kept
<1> HIDE DEF h
<1>6. /\ longer \in Swap!SwapState /\ longer.mHistory = h /\ longer.mFilename = s.mFilename
      /\ longer.files = s.files /\ longer.mRecovering = s.mRecovering
      /\ longer.mNotResetted = s.mNotResetted
    BY <1>1, <1>2 DEF Swap!SwapState
<1> HIDE DEF longer
<1>7. Kept(longer) /\ Journal(longer) = old \o h
    BY <1>6 DEF Kept, Journal, Swap!Exists
<1> HIDE DEF old
<1>8. CASE Len(longer.mHistory) >= updatecount
    BY <1>3, <1>4, <1>5, <1>7, <1>8, FlushKeeps
<1>9. CASE ~(Len(longer.mHistory) >= updatecount)
    BY <1>3, <1>4, <1>5, <1>7, <1>9
<1> QED BY <1>8, <1>9

(* What makes a journal good for a recovery: it belongs to this file, it   *)
(* leads from the file to the text, and no call that loads or recovers is  *)
(* waiting.                                                                *)
JournalGood ==
    /\ Kept(swap)
    /\ JournalFrom(TextOf(file), Journal(swap)) = text
    /\ calls \in Seq(PlainCall)

(* The inductive form of JournalIsKept: the journal leads to the text also *)
(* in the middle of commands and of undo.                                  *)
JInv == running => JournalGood

(* What changes the text is journaled: undone and redone operations as     *)
(* well as those of edits.                                                 *)
LEMMA ChangeJournaled ==
    ASSUME SwapWritable, TInv, JournalGood, RegionChange, file' = file
    PROVE  Kept(swap') /\ JournalFrom(TextOf(file'), Journal(swap')) = text'
<1> DEFINE base == TextOf(file)
<1>1. base \in Text /\ text \in Text
    BY FileText DEF TInv, TypeOK, Text, LineCount
<1>2. TextOf(file') = base
    OBVIOUS
<1>3. Journal(swap) \in Seq(Operation) /\ JournalFrom(base, Journal(swap)) = text /\ Kept(swap)
    BY JournalType DEF JournalGood
<1> HIDE DEF base
<1>4. ASSUME NEW op \in Operation, swap' = Swap!AddToSwap(swap, op), text' = Replayed(text, op)
      PROVE  Kept(swap') /\ JournalFrom(base, Journal(swap')) = text'
    <2>1. Kept(swap') /\ Journal(swap') = Append(Journal(swap), op)
        BY <1>3, <1>4, AddKeeps
    <2>2. JournalFrom(base, Append(Journal(swap), op)) = Replayed(JournalFrom(base, Journal(swap)), op)
        BY <1>1, <1>3, JournalOfMore
    <2> QED BY <1>3, <1>4, <2>1, <2>2
<1>5. CASE UNCHANGED << text, swap >>
    BY <1>2, <1>3, <1>5
<1>6. ASSUME NEW begin \in Pos, NEW data \in Seq(Line), InsertRegionCall(begin, data),
             ~InsertAborts(text, begin, data)
      PROVE  Kept(swap') /\ JournalFrom(base, Journal(swap')) = text'
    <2> DEFINE op == AddOperation(begin, data)
    <2>1. text' = InsertRegion(text, begin, data) /\ swap' = Swap!AddToSwap(swap, op)
        BY <1>6 DEF InsertRegionCall
    <2>2. data # <<>>
        BY <1>6 DEF InsertAborts
    <2>3. op \in Operation /\ op.type = "add" /\ op.data = data /\ op.interval.from = begin
        BY <2>2, AddOperationType
    <2> HIDE DEF op
    <2>4. text' = Replayed(text, op)
        BY <2>1, <2>3 DEF Replayed
    <2> QED BY <1>4, <2>1, <2>3, <2>4
<1>7. ASSUME NEW bi \in Region, DeleteRegionCall(bi)
      PROVE  Kept(swap') /\ JournalFrom(base, Journal(swap')) = text'
    <2> DEFINE op == DelOperation(bi)
    <2>1. text' = DeleteRegion(text, bi) /\ swap' = Swap!AddToSwap(swap, op)
        BY <1>7 DEF DeleteRegionCall
    <2>3. op \in Operation /\ op.type = "del" /\ op.interval = bi
        BY <1>1, DelOperationType
    <2> HIDE DEF op
    <2>4. text' = Replayed(text, op)
        BY <2>1, <2>3 DEF Replayed
    <2> QED BY <1>4, <2>1, <2>3, <2>4
<1>8. (\E begin \in Pos, data \in Seq(Line) : InsertRegionCall(begin, data)
                                              /\ ~InsertAborts(text, begin, data))
      \/ (\E bi \in Region : DeleteRegionCall(bi)) \/ UNCHANGED << text, swap >>
    BY DEF RegionChange, InsertRegionCall
<1> QED BY <1>2, <1>5, <1>6, <1>7, <1>8

(* The calls that wait besides load and recover.                           *)
LEMMA TailPlain ==
    ASSUME NEW q \in Seq(PlainCall), q # <<>>
    PROVE  Tail(q) \in Seq(PlainCall) /\ Head(q) \in PlainCall
           /\ Head(q).call \notin {"load", "recovered", "checkRecover"}
<1>1. Tail(q) \in Seq(PlainCall) /\ Head(q) \in PlainCall
    BY HeadTailProperties
<1> QED BY <1>1 DEF PlainCall

(* Without a swap file, and with nothing in memory, the journal is empty.  *)
LEMMA UnlinkedJournal ==
    ASSUME NEW s \in Swap!SwapState, s.mHistory = <<>>, s.mFilename = "beside", ~s.mRecovering,
           s.files["beside"] = NoFile, s.mNotResetted = TRUE
    PROVE  Kept(s) /\ Journal(s) = <<>>
<1>1. ~Swap!Exists(s)
    BY DEF Swap!Exists
<1>2. <<>> \o <<>> = <<>>
    <2>1. <<>> \in Seq(Operation)
        BY EmptySeq
    <2> QED BY <2>1, ConcatEmptySeq
<1> QED BY <1>1, <1>2 DEF Kept, Journal

(* A start with an absolute path finds no swap file: load() renames it to  *)
(* the name it already has, which removes the file.                        *)
LEMMA StartFindsNothing ==
    ASSUME TInv, NEW form, form # "bare", Start(form)
    PROVE  /\ swap' \in Swap!SwapState /\ swap'.mHistory = <<>> /\ swap'.mFilename = "beside"
           /\ ~swap'.mRecovering /\ swap'.mNotResetted = TRUE /\ swap'.files["beside"] = NoFile
           /\ calls' = <<>>
<1>1. swap \in Swap!SwapState
    BY DEF TInv, TypeOK
<1> DEFINE new == Swap!NewSwapFile(swap.files, "unnamed")
           u == Swap!SetFileName(new, "beside")
           v == Swap!SetFileName(u, "beside")
<1>3. swap' = v
    BY DEF Start, LoadNames, SwapNameOf
<1>4. "unnamed" \in SwapName /\ "beside" \in SwapName
      /\ swap.files \in [SwapName -> Seq(Operation) \union {NoFile}]
    BY <1>1 DEF SwapName, Swap!SwapState
<1>5. new \in Swap!SwapState /\ new.mHistory = <<>> /\ ~new.mRecovering
    BY <1>4, NewSwapFileFields
<1> HIDE DEF new
<1>6. u \in Swap!SwapState /\ u.mHistory = <<>> /\ ~u.mRecovering /\ u.mFilename = "beside"
    BY <1>4, <1>5, SetFileNameFields
<1> HIDE DEF u
<1>7. /\ v \in Swap!SwapState /\ v.mHistory = <<>> /\ ~v.mRecovering /\ v.mFilename = "beside"
      /\ v.mNotResetted = TRUE /\ v.files = [u.files EXCEPT ![u.mFilename] = NoFile]
    <2> DEFINE name == "beside"
    <2>1. name \in SwapName /\ name = "beside"
        BY <1>4
    <2> HIDE DEF name
    <2>2. /\ Swap!SetFileName(u, name) \in Swap!SwapState
          /\ Swap!SetFileName(u, name).mHistory = u.mHistory
          /\ Swap!SetFileName(u, name).mFilename = name
          /\ Swap!SetFileName(u, name).mNotResetted = TRUE
          /\ Swap!SetFileName(u, name).mRecovering = u.mRecovering
          /\ Swap!SetFileName(u, name).files = [u.files EXCEPT ![u.mFilename] = NoFile]
        BY <1>6, <2>1, SetFileNameFields
    <2> QED BY <1>6, <2>1, <2>2
<1> HIDE DEF v
<1>8. v.files["beside"] = NoFile
    BY <1>4, <1>6, <1>7 DEF Swap!SwapState
<1>10. ~Swap!Exists(swap')
    BY <1>3, <1>7, <1>8 DEF Swap!Exists
<1>11. calls' = <<>>
    BY <1>10 DEF Start
<1> QED BY <1>3, <1>7, <1>8, <1>11

(* Every step keeps the journal: those that empty it have made the file    *)
(* and the text the same.                                                  *)
LEMMA JournalStep ==
    ASSUME SwapWritable, "bare" \notin PathForms, "reload" \notin Commands,
           TInv, TInv', JInv, [Next]_vars
    PROVE  JInv'
<1>0. text \in Text /\ file \in Seq(Line) /\ swap \in Swap!SwapState
    BY DEF TInv, TypeOK, Text, LineCount
<1>1. ASSUME running, UNCHANGED << text, swap, file >>, calls' \in Seq(PlainCall) PROVE JInv'
    BY <1>1 DEF JInv, JournalGood
<1>2. ASSUME running, RegionChange, file' = file, calls' \in Seq(PlainCall) PROVE JInv'
    BY <1>2, ChangeJournaled DEF JInv, JournalGood
<1>3. ASSUME running PROVE calls \in Seq(PlainCall) /\ JournalGood
    BY <1>3 DEF JInv, JournalGood
<1>4. LeaveExMode \in Seq(PlainCall) /\ <<>> \in Seq(PlainCall)
    BY CallsMade, EmptySeq DEF LeaveExMode
<1>5. CASE EditText
    <2>1. PICK name : \E line \in Nat, rest \in Seq(PlainCall) : Edit(name, line, rest) /\ RegionChange
        BY <1>5, EditTextForm DEF EditForm
    <2>2. PICK line \in Nat, rest \in Seq(PlainCall) : Edit(name, line, rest) /\ RegionChange
        BY <2>1
    <2> DEFINE end == IF mode = "insert" \/ name = "adjustNumber" THEN <<>>
                      ELSE << [call |-> "commit"] >>
    <2>3. running /\ file' = file /\ calls' = rest \o end
        BY <2>2 DEF Edit, Idle
    <2>4. end \in Seq(PlainCall)
        BY CallsMade, <1>4
    <2> HIDE DEF end
    <2>5. calls' \in Seq(PlainCall)
        BY <2>3, <2>4, ConcatProperties
    <2> QED BY <1>2, <2>2, <2>3, <2>5
<1>6. CASE PerformOperation
    <2>1. running /\ file' = file /\ calls' = calls
        BY <1>6 DEF PerformOperation
    <2> QED BY <1>2, <1>3, <1>6, <2>1, PerformChanges
<1>7. CASE CallRegion \/ CallDeleteLine
    <2>1. running /\ file' = file /\ calls # <<>> /\ calls' = Tail(calls)
        BY <1>7 DEF CallRegion, CallDeleteLine, NextCall
    <2> QED BY <1>2, <1>3, <1>7, <2>1, CallRegionChanges, CallDeleteLineChanges, TailPlain
<1>8. CASE CallCommit
    <2>1. running /\ UNCHANGED << text, swap, file >> /\ calls # <<>> /\ calls' = Tail(calls)
        BY <1>8 DEF CallCommit, NextCall
    <2> QED BY <1>1, <1>3, <2>1, TailPlain
<1>9. CASE CallLoad \/ CallRecovered \/ (\E answer \in BOOLEAN : CheckRecover(answer))
    <2>1. running /\ calls # <<>> /\ Head(calls).call \in {"load", "recovered", "checkRecover"}
        BY <1>9 DEF CallLoad, CallRecovered, CheckRecover, NextCall
    <2> QED BY <1>3, <2>1, TailPlain
<1>10. CASE MoveCursor \/ (\E commits \in BOOLEAN : EnterInsertMode(commits)) \/ LeaveInsertMode
            \/ StartUndo \/ StartRedo \/ FinishUndo \/ FinishRedo
    <2>1. running /\ UNCHANGED << text, swap, file, calls >>
        BY <1>10 DEF MoveCursor, EnterInsertMode, LeaveInsertMode, StartUndo, StartRedo,
            FinishUndo, FinishRedo, Idle
    <2> QED BY <1>1, <1>3, <2>1
<1>11. CASE Preserve
    <2>1. running /\ UNCHANGED << text, file >> /\ calls' = LeaveExMode /\ swap' = Swap!Flush(swap)
        BY <1>11 DEF Preserve, Idle
    <2>2. Kept(swap') /\ Journal(swap') = Journal(swap)
        BY <1>3, <2>1, FlushKeeps DEF JournalGood
    <2> QED BY <1>3, <1>4, <2>1, <2>2 DEF JInv, JournalGood
<1>12. CASE Save
    <2> DEFINE r == Swap!Reset(swap)
    <2>1. running /\ text' = text /\ file' = FileOf(text) /\ calls' = LeaveExMode
          /\ swap' = Swap!Unlink(r)
        BY <1>12 DEF Save, Idle
    <2>2. r \in Swap!SwapState /\ r.mHistory = <<>> /\ r.mFilename = "beside" /\ ~r.mRecovering
        BY <1>0, <1>3, <2>1, ResetFields DEF JournalGood, Kept
    <2> HIDE DEF r
    <2>3. /\ swap' \in Swap!SwapState /\ swap'.mHistory = <<>> /\ swap'.mFilename = "beside"
          /\ ~swap'.mRecovering /\ swap'.mNotResetted = TRUE
          /\ swap'.files = [r.files EXCEPT !["beside"] = NoFile]
        BY <2>1, <2>2, UnlinkFields
    <2>4. swap'.files["beside"] = NoFile
        BY <2>2, <2>3 DEF Swap!SwapState, SwapName
    <2>5. Kept(swap') /\ Journal(swap') = <<>>
        BY <2>3, <2>4, UnlinkedJournal
    <2>6. TextOf(file') = text'
        BY <1>0, <2>1, FileKeepsText
    <2>7. JournalFrom(TextOf(file'), Journal(swap')) = text'
        BY <1>0, <2>1, <2>5, <2>6, JournalOfNothing
    <2> QED BY <1>4, <2>1, <2>5, <2>7 DEF JInv, JournalGood
<1>13. CASE \E form \in PathForms : Start(form)
    <2>1. PICK form \in PathForms : Start(form)
        BY <1>13
    <2>2. form # "bare"
        OBVIOUS
    <2>3. /\ swap' \in Swap!SwapState /\ swap'.mHistory = <<>> /\ swap'.mFilename = "beside"
          /\ ~swap'.mRecovering /\ swap'.mNotResetted = TRUE /\ swap'.files["beside"] = NoFile
          /\ calls' = <<>>
        BY <2>1, <2>2, StartFindsNothing
    <2>4. text' = TextOf(file) /\ file' = file
        BY <2>1 DEF Start
    <2>5. Kept(swap') /\ Journal(swap') = <<>>
        BY <2>3, UnlinkedJournal
    <2>6. JournalFrom(TextOf(file'), Journal(swap')) = text'
        BY <1>0, <2>4, <2>5, JournalOfNothing, FileText
    <2> QED BY <1>4, <2>3, <2>5, <2>6 DEF JInv, JournalGood
<1>14. CASE Quit \/ Crash
    BY <1>14 DEF Quit, Crash, JInv
<1>15. CASE UNCHANGED vars
    BY <1>1, <1>3, <1>15 DEF vars, JInv
<1>16. ~Reload
    BY DEF Reload, Edit
<1> QED BY <1>5, <1>6, <1>7, <1>8, <1>9, <1>10, <1>11, <1>12, <1>13, <1>14, <1>15, <1>16
        DEF Next, Continue

(* A buffer that was just created has an empty journal, and the text of    *)
(* its file.                                                               *)
LEMMA JournalInit ==
    ASSUME Init PROVE JInv
<1>1. TInv
    BY TypeInit
<1> DEFINE f == [n \in SwapName |-> NoFile]
<1>2. swap = Swap!NewSwapFile(f, "beside") /\ text = TextOf(file) /\ calls = <<>>
    BY DEF Init
<1>3. f \in [SwapName -> Seq(Operation) \union {NoFile}] /\ "beside" \in SwapName /\ f["beside"] = NoFile
    BY DEF SwapName
<1> HIDE DEF f
<1>4. /\ swap \in Swap!SwapState /\ swap.mHistory = <<>> /\ swap.mFilename = "beside"
      /\ ~swap.mRecovering /\ swap.mNotResetted = TRUE /\ swap.files = f
    BY <1>2, <1>3, NewSwapFileFields
<1>5. Kept(swap) /\ Journal(swap) = <<>>
    BY <1>3, <1>4, UnlinkedJournal
<1>6. TextOf(file) \in Text
    BY <1>1, FileText DEF TInv, TypeOK
<1>7. JournalFrom(TextOf(file), Journal(swap)) = text
    BY <1>2, <1>5, <1>6, JournalOfNothing
<1> QED BY <1>2, <1>5, <1>7, EmptySeq DEF JInv, JournalGood

(* The journal, in the file and in memory, leads from the file to the text *)
(* whenever no command runs, and fewer than updatecount operations of it   *)
(* are in memory only (addToSwap, flush, reset and setFileName of          *)
(* swapfile.cpp; save and load of buffer.cpp). The three hypotheses are    *)
(* needed. Where no swap file can be written, flush() drops what was to be *)
(* written. A bare name lets a swap file of an earlier session come into   *)
(* use, to which the new operations are appended. And the ex command edit  *)
(* reads the file anew without emptying the journal.                       *)
THEOREM JournalIsKeptHolds ==
    ASSUME SwapWritable, "bare" \notin PathForms, "reload" \notin Commands
    PROVE  Spec => []JournalIsKept
<1>1. Init => JInv
    BY JournalInit
<1>2. TInv /\ TInv' /\ JInv /\ [Next]_vars => JInv'
    BY JournalStep
<1>3. TInv /\ JInv => JournalIsKept
    <2>1. ASSUME JInv PROVE JournalGivesText
        <3>1. \A entries : JournalText(entries) = JournalFrom(TextOf(file), entries)
            BY DEF JournalText, JournalFrom
        <3>2. JournalText(Journal(swap)) = JournalFrom(TextOf(file), Journal(swap))
            BY <3>1
        <3> QED BY <2>1, <3>2 DEF JInv, JournalGood, JournalGivesText
    <2> QED BY <2>1 DEF TInv, JournalIsKept, CrashLosesFew
<1> QED BY <1>1, <1>2, <1>3, InvHolds, PTL DEF Spec
=============================================================================

------------------------------ MODULE SwapFile ------------------------------
(***************************************************************************)
(* YSwapFile (src/libyzis/swapfile.h, swapfile.cpp): the journal a buffer  *)
(* keeps of the operations made on it, first in memory (mHistory), then,   *)
(* `updatecount' operations at a time, appended to a swap file.            *)
(*                                                                         *)
(* The methods call one another, so each is an operator that takes the     *)
(* state of the swap file before the call and gives the one after it: a    *)
(* record of the object's fields and of the files on disk, which outlive   *)
(* the program.  A file is the sequence of its entries (the header text    *)
(* says nothing recover() uses), or NoFile.                                *)
(***************************************************************************)
EXTENDS Integers, Sequences, SequencesExt

CONSTANTS
    Operation,      \* the operations on a buffer
    FileName,       \* the names a swap file can get
    Writable,       \* those in a directory the user may write to
    NoFile,         \* the content of a file that does not exist
    updatecount     \* the option of that name, at least 1

SwapState == [ mHistory : Seq(Operation), mFilename : FileName,
               mNotResetted : BOOLEAN, mRecovering : BOOLEAN,
               files : [FileName -> Seq(Operation) \union {NoFile}] ]

Exists(s) == s.files[s.mFilename] # NoFile

(* unlink(): mHistory is kept.                                             *)
Unlink(s) == [s EXCEPT !.files[s.mFilename] = NoFile, !.mNotResetted = TRUE]

(* reset()                                                                 *)
Reset(s) == [s EXCEPT !.mHistory = <<>>]

(* setFileName(fname): the file of the old name goes first.                *)
SetFileName(s, name) == [Unlink(s) EXCEPT !.mFilename = name]

(* The constructor: there is no old name yet, so there is nothing to       *)
(* unlink.                                                                 *)
NewSwapFile(files, name) ==
    [ mHistory |-> <<>>, mFilename |-> name, mNotResetted |-> TRUE,
      mRecovering |-> FALSE, files |-> files ]

(* init(): a file that is already there is left as it is.                  *)
InitFile(s) ==
    IF Exists(s) \/ s.mFilename \notin Writable
    THEN [s EXCEPT !.mNotResetted = TRUE]
    ELSE [s EXCEPT !.files[s.mFilename] = <<>>, !.mNotResetted = FALSE]

(* Definitions marked "Slip" are mistakes the runs are shown to notice (see *)
(* README.md); nothing uses them.                                          *)
FlushKeepingHistory(s) ==  \* Slip: what was written stays in memory
    LET ready == IF s.mNotResetted THEN InitFile(s) ELSE s
    IN  IF s.mRecovering THEN s
        ELSE IF Exists(ready) /\ ready.mFilename \in Writable
        THEN [ready EXCEPT !.files[ready.mFilename] = @ \o ready.mHistory]
        ELSE [ready EXCEPT !.mNotResetted = TRUE]

(* flush(): the history is cleared whether or not it could be written.     *)
Flush(s) ==
    LET ready == IF s.mNotResetted THEN InitFile(s) ELSE s
        written == IF Exists(ready) /\ ready.mFilename \in Writable
                   THEN [ready EXCEPT !.files[ready.mFilename] = @ \o ready.mHistory]
                   ELSE [ready EXCEPT !.mNotResetted = TRUE]
    IN  IF s.mRecovering THEN s ELSE Reset(written)

AddToSwapOneMore(s, op) ==  \* Slip: > for >=
    LET longer == [s EXCEPT !.mHistory = Append(@, op)]
    IN  IF s.mRecovering THEN s
        ELSE IF Len(longer.mHistory) > updatecount THEN Flush(longer) ELSE longer

(* addToSwap(type, data, interval)                                         *)
AddToSwap(s, op) ==
    LET longer == [s EXCEPT !.mHistory = Append(@, op)]
    IN  IF s.mRecovering THEN s
        ELSE IF Len(longer.mHistory) >= updatecount THEN Flush(longer) ELSE longer

-----------------------------------------------------------------------------
(* recover() reads the file line by line.  Of an entry, flush() has written*)
(* one line of bounds, one line for each piece of data and an empty line.  *)
(* A line is taken for the first line of an entry only if the stream is at *)
(* its end after it: if no line of its own and no other entry follows.     *)
LinesOfEntry(op) == 2 + Len(op.data)
AtEndAfterBounds(entries, i) == i = Len(entries) /\ LinesOfEntry(entries[i]) = 1

(* A bound is written with its sign and read as a run of digits, so an     *)
(* interval that ends before column 0 cannot be read back.                 *)
Readable(op) == op.interval.to.x >= 0

IsRead(entries, i) == AtEndAfterBounds(entries, i) /\ Readable(entries[i])

(* The operations recover() gives to replay(), in order.                   *)
Recovered(entries) ==
    LET read[i \in 0..Len(entries)] ==
            IF i = 0 THEN <<>>
            ELSE IF IsRead(entries, i) THEN Append(read[i - 1], entries[i])
            ELSE read[i - 1]
    IN  read[Len(entries)]

=============================================================================

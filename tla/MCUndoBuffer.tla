---------------------------- MODULE MCUndoBuffer ----------------------------
(***************************************************************************)
(* UndoBuffer by itself, with any operations recorded in any order.        *)
(***************************************************************************)
EXTENDS UndoBuffer

CONSTANTS MaxItems, MaxPending  \* bounds on the two lists

MCNext ==
    /\ Next
    /\ Len(mUndoItemList') <= MaxItems
    /\ Len(mFutureUndoItem'.ops) <= MaxPending

MCSpec == Init /\ [][MCNext]_vars

=============================================================================

----------------------------- MODULE MCSession -----------------------------
(* The session with two files, a few buffers and two cursor lines.         *)
EXTENDS Session, TLC

(* Freed buffers and views are all alike, so it does not matter which of   *)
(* them is chosen: renaming them all changes nothing.                      *)
Symmetry ==
    {p @@ q : p \in Permutations(Buffer), q \in Permutations(View)}

Listed == ToSet(session.mBufferList)

(* Every listed buffer is active and shown by a listed view, and every     *)
(* view shows a listed buffer: the code calls a buffer found without a     *)
(* view something "that should never happen" (YModeEx::edit).              *)
ViewsMatch ==
    /\ \A b \in Listed :
         /\ session.buffer[b].state = "active"
         /\ session.buffer[b].views # <<>>
         /\ \A v \in ToSet(session.buffer[b].views) :
              v \in ToSet(session.mViewList) /\ session.view[v].buffer = b
    /\ \A v \in ToSet(session.mViewList) : session.view[v].buffer \in Listed

(* The current view is always a live one, and the current buffer is the    *)
(* one it shows, whichever views are closed (deleteView, setCurrentView).  *)
CurrentIsAlive ==
    /\ session.mCurView \in ToSet(session.mViewList)
    /\ session.mCurBuffer = session.view[session.mCurView].buffer

(* :bnext and then :bprevious comes back, at the ends of the list too.     *)
NextThenPrevious ==
    PrevView(SetCurrentView(session, NextView(session))) = session.mCurView

(* The lists of buffers and views agree, whatever was opened and closed.   *)
ViewsAreSound == TypeOK /\ ViewsMatch /\ CurrentIsAlive /\ NextThenPrevious

-----------------------------------------------------------------------------
AnyOf(P(_, _)) ==
    \E chosen \in File \union {NoName}, opens \in BOOLEAN : P(chosen, opens)

AnyWriteQuit(force) ==
    \E name \in File \union {NoName} :
        LET P(chosen, opens) == WriteQuit(force, name, chosen, opens) IN AnyOf(P)

(* Text nobody saved is lost only by a command that was told not to mind   *)
(* (with a "!", ZQ), by :bdelete, and by :wqa and ZZ, which leave out the  *)
(* buffers that were never named.                                          *)
LossIsAskedFor ==
    [][ session'.lost /\ ~session.lost =>
          \/ Quit(TRUE) \/ QuitAll(TRUE) \/ Reload(TRUE) \/ AnyWriteQuit(TRUE)
          \/ BufferDelete
          \/ /\ \E failing \in SUBSET File, key \in {"wqa", "ZZ"} :
                  WriteQuitAll(failing, key)
             /\ \E b \in Listed : session.buffer[b].isModified
                                  /\ session.buffer[b].isFileNew ]_vars

SameName(s) ==
    \E b, c \in ToSet(s.mBufferList) :
        b # c /\ s.buffer[b].path = s.buffer[c].path /\ s.buffer[b].path # NoName

(* One buffer per file (createBuffer): two buffers get the same name only  *)
(* by saving under the name of the other.                                  *)
OneBufferPerFile ==
    [][ SameName(session') /\ ~SameName(session) =>
          \/ \E name \in File \union {NoName} :
               LET P(chosen, opens) == Write(name, chosen, opens) IN AnyOf(P)
          \/ AnyWriteQuit(FALSE) \/ AnyWriteQuit(TRUE) ]_vars

(* Whatever is closed by :q, :qa or :bd is remembered: for each view that  *)
(* goes, and for every view when the program ends, the saved position of   *)
(* its file is where its cursor was.                                       *)
ClosedAreRemembered ==
    [][ (\E v \in ToSet(session.mViewList) :
             LET b == session.view[v].buffer
                 name == session.buffer[b].path
             IN  /\ name \in File /\ ~SameName(session)
                 /\ ~session'.running \/ session'.view[v].buffer # b
                 /\ session'.mStartPosition[name] # session.view[v].line)
          => ~ \E force \in BOOLEAN : Quit(force) \/ QuitAll(force) \/ BufferDelete ]_vars

=============================================================================

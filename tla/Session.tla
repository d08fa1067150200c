------------------------------ MODULE Session ------------------------------
(***************************************************************************)
(* YSession (src/libyzis/session.h, session.cpp) with what it shares with  *)
(* YBuffer and YView: which buffers and views exist, which view is the     *)
(* current one, and the commands that open, save, switch and close them    *)
(* (mode_ex.cpp: w, q, e, bn, bd ...; mode_command.cpp: ZZ, ZQ).           *)
(*                                                                         *)
(* The calls of the code nest deeply: closing a view may delete its        *)
(* buffer, and deleting a buffer may end the program.  The state is one    *)
(* record, and every function of the code an operator from it to its new   *)
(* value.  The text of a buffer is only "modified or not", a cursor a      *)
(* number.  Buffers and views are reused once freed, as addresses are.     *)
(* `lost' is not in the code: it records that text nobody saved is gone.   *)
(***************************************************************************)
EXTENDS Integers, Sequences, SequencesExt

CONSTANTS
    Buffer, View,  \* the addresses of buffers and views
    File,          \* the names of files one asks for
    NewName,       \* the names openNewFile makes up
    Directory,     \* names of directories, which cannot be opened
    NoBuffer, NoView, NoName,  \* NULL, NULL and the empty string
    MaxLine        \* the largest cursor line

Distinct(x, y, z) == x # y /\ y # z /\ z # x

ASSUME SessionAssumption ==
    /\ NoBuffer \notin Buffer
    /\ NoView \notin View
    /\ NoName \notin File \union NewName \union Directory
    /\ File \intersect NewName = {}
    /\ MaxLine \in Nat
    /\ \E b1, b2, b3 \in Buffer : Distinct(b1, b2, b3)  \* what the start allocates
    /\ \E v1, v2, v3 \in View : Distinct(v1, v2, v3)

VARIABLE session

vars == session

Name == File \union NewName \union {NoName}
Line == 0..MaxLine
NoLine == -1

(* YBuffer::Private; a freed buffer has no state.                          *)
YBuffer ==
    [ state : {"freed", "active", "hidden"}, path : Name,
      isFileNew : BOOLEAN, isModified : BOOLEAN, views : Seq(View) ]

FreedBuffer ==
    [ state |-> "freed", path |-> NoName,
      isFileNew |-> TRUE, isModified |-> FALSE, views |-> <<>> ]

YView == [buffer : Buffer \union {NoBuffer}, line : Line]

FreedView == [buffer |-> NoBuffer, line |-> 0]

SessionState ==
    [ mBufferList : Seq(Buffer), mViewList : Seq(View),
      mCurView : View \union {NoView}, mCurBuffer : Buffer \union {NoBuffer},
      buffer : [Buffer -> YBuffer], view : [View -> YView],
      mStartPosition : [File -> Line], running : BOOLEAN, lost : BOOLEAN ]

TypeOK == session \in SessionState

-----------------------------------------------------------------------------
(* Looking things up.                                                      *)

(* removeAll(): nothing is in a list twice (Session_proofs).               *)
Without(list, x) == RemoveFirst(list, x)

FindNoBuffer(s, name) == NoBuffer  \* Slip: takes every file for a new one

(* findBuffer(): the first buffer of the list with that name.              *)
FindBuffer(s, name) ==
    LET i == SelectInSeq(s.mBufferList, LAMBDA b : s.buffer[b].path = name)
    IN  IF i = 0 THEN NoBuffer ELSE s.mBufferList[i]

FindViewByBuffer(s, b) ==
    LET i == SelectInSeq(s.mViewList, LAMBDA v : s.view[v].buffer = b)
    IN  IF i = 0 THEN NoView ELSE s.mViewList[i]

(* firstView(): NULL for a buffer without views.                           *)
FirstView(s, b) ==
    IF s.buffer[b].views = <<>> THEN NoView ELSE Head(s.buffer[b].views)

IndexOf(list, x) == CHOOSE i \in 1..Len(list) : list[i] = x

PrevViewFromHere(s) ==  \* Slip: forgets to wrap around
    LET i == IndexOf(s.mViewList, s.mCurView)
    IN  s.mViewList[IF i = 1 THEN 1 ELSE i - 1]

PrevView(s) ==
    IF s.mCurView = NoView
    THEN Last(s.mViewList)
    ELSE LET i == IndexOf(s.mViewList, s.mCurView)
         IN  s.mViewList[IF i = 1 THEN Len(s.mViewList) ELSE i - 1]

NextView(s) ==
    IF s.mCurView = NoView
    THEN Head(s.mViewList)
    ELSE LET i == IndexOf(s.mViewList, s.mCurView)
         IN  s.mViewList[(i % Len(s.mViewList)) + 1]

SetCurrentView(s, v) ==
    [s EXCEPT !.mCurView = v, !.mCurBuffer = s.view[v].buffer]

-----------------------------------------------------------------------------
(* Saving.                                                                 *)

(* saveYzisInfo(): the position of a view's cursor is kept with the name   *)
(* of its buffer, and written out.  Only the records of files are followed *)
(* here: what is kept for a made-up or an empty name is never read back.   *)
SaveYzisInfo(s, v) ==
    LET name == s.buffer[s.view[v].buffer].path
    IN  IF name \in File
        THEN [s EXCEPT !.mStartPosition[name] = s.view[v].line]
        ELSE s

(* setPath(): from now on the buffer has a name.                           *)
SetPath(s, b, name) ==
    [s EXCEPT !.buffer[b].path = name, !.buffer[b].isFileNew = FALSE]

SaysItSaved(s, b, chosen, opens) ==  \* Slip: also when it could not open the file
    [ok |-> TRUE, s |-> IF opens THEN [s EXCEPT !.buffer[b].isModified = FALSE] ELSE s]

(* save(): `chosen' is what the dialog of a buffer that was never named    *)
(* answers (NoName: cancelled, or not implemented by the front end), and   *)
(* `opens' tells whether the file can be opened for writing.               *)
SaveResult(s, b, chosen, opens) ==
    LET named == IF s.buffer[b].isFileNew /\ chosen # NoName
                 THEN SetPath(s, b, chosen)
                 ELSE s
        saved == SaveYzisInfo([named EXCEPT !.buffer[b].isModified = FALSE],
                              FirstView(named, b))
    IN  CASE s.buffer[b].path = NoName -> [ok |-> FALSE, s |-> s]
          [] s.buffer[b].isFileNew /\ chosen = NoName -> [ok |-> FALSE, s |-> s]
          [] OTHER -> [ok |-> opens, s |-> IF opens THEN saved ELSE named]

Save(s, b, chosen, opens) == SaveResult(s, b, chosen, opens).s

(* saveAll(): every modified buffer but those that were never named.  The  *)
(* files that cannot be written are `failing'.                             *)
SaveOf(s, b, failing) ==
    SaveResult(s, b, NoName, s.buffer[b].path \notin failing)

ToSave(s) ==
    {b \in ToSet(s.mBufferList) : ~s.buffer[b].isFileNew /\ s.buffer[b].isModified}

SaveAll(s, failing) ==
    FoldLeft(LAMBDA t, b : IF b \in ToSave(t) THEN SaveOf(t, b, failing).s ELSE t,
             s, s.mBufferList)

SavesAll(s, failing) == \A b \in ToSave(s) : SaveOf(s, b, failing).ok

-----------------------------------------------------------------------------
(* Closing.                                                                *)

IsOneBufferModified(s) == \E b \in Buffer : s.buffer[b].isModified

(* guiQuit(): the program ends.                                            *)
GuiQuit(s) == [s EXCEPT !.running = FALSE, !.lost = @ \/ IsOneBufferModified(s)]

(* exitRequest(): where the first view of each buffer is, then guiQuit().  *)
ExitWithoutPositions(s) == GuiQuit(s)  \* Slip

ExitRequest(s) ==
    GuiQuit(FoldLeft(LAMBDA t, b : SaveYzisInfo(t, FirstView(t, b)),
                     s, s.mBufferList))

(* deleteBuffer() and ~YBuffer: a listed buffer leaves the list and is     *)
(* freed; the last one ends the program.                                   *)
DeleteBuffer(s, b) ==
    LET t == [s EXCEPT !.mBufferList = Without(@, b),
                       !.buffer[b] = FreedBuffer,
                       !.lost = @ \/ s.buffer[b].isModified]
    IN  IF t.mBufferList = <<>> THEN ExitRequest(t) ELSE t

KeepHiddenBuffer(s, v) ==  \* Slip: the buffer outlives its last view
    LET b == s.view[v].buffer
    IN  [s EXCEPT !.buffer[b].views = Without(@, v),
                  !.buffer[b].state = "hidden",
                  !.view[v] = FreedView]

(* ~YView: saves its position, leaves its buffer (rmView: hidden once no   *)
(* view is left), and then takes a buffer without views with it.           *)
DestroyView(s, v) ==
    LET b == s.view[v].buffer
        saved == SaveYzisInfo(s, v)
        rest == Without(s.buffer[b].views, v)
        left == [saved EXCEPT !.buffer[b].views = rest,
                              !.buffer[b].state = IF rest = <<>> THEN "hidden" ELSE @,
                              !.view[v] = FreedView]
    IN  IF rest = <<>> THEN DeleteBuffer(left, b) ELSE left

DeleteViewInPlace(s, v) ==  \* Slip: the current view is not switched first
    IF Len(s.mViewList) = 1
    THEN ExitRequest(s)
    ELSE DestroyView([s EXCEPT !.mViewList = Without(@, v)], v)

(* deleteView(): the last view is not deleted, the program ends instead.   *)
DeleteView(s, v) ==
    IF Len(s.mViewList) = 1
    THEN ExitRequest(s)
    ELSE LET t == IF v = s.mCurView THEN SetCurrentView(s, PrevView(s)) ELSE s
         IN  DestroyView([t EXCEPT !.mViewList = Without(@, v)], v)

(* removeBuffer(): deletes every view of the buffer.                       *)
RemoveBuffer(s, b) == FoldLeft(DeleteView, s, s.buffer[b].views)

-----------------------------------------------------------------------------
(* Opening.                                                                *)

Fresh(f, freed) == CHOOSE x \in DOMAIN f : f[x] = freed

HasRoom(s) ==
    /\ \E b \in Buffer : s.buffer[b] = FreedBuffer
    /\ \E v \in View : s.view[v] = FreedView

UnusedNames(s) == {n \in NewName : FindBuffer(s, n) = NoBuffer}

(* createBuffer() with createView(): `name' is the file, or NoName for a   *)
(* new buffer, which openNewFile names `temp'.  load() refuses a           *)
(* directory and leaves the buffer without a name.                         *)
CreateBufferAndItsView(s, name, temp) ==
    LET b == Fresh(s.buffer, FreedBuffer)
        v == Fresh(s.view, FreedView)
    IN  [s EXCEPT
          !.mBufferList = Append(@, b),
          !.mViewList = Append(@, v),
          !.buffer[b] =
            [ state |-> "active",
              path |-> CASE name = NoName -> temp
                         [] name \in Directory -> NoName
                         [] OTHER -> name,
              isFileNew |-> name \in Directory \union {NoName},
              isModified |-> FALSE, views |-> <<v>> ],
          !.view[v] = [buffer |-> b, line |-> 0]]

(* getStartPosition() of a name as it is typed: the line the name asks for *)
(* ("name:line"), else the saved one.  The cursor that parseFilename() is  *)
(* to fill in starts as YCursor(), which is (0, 0).                        *)
InFileName(line) == IF line = NoLine THEN 0 ELSE line

AskedPosition(s, name, line) == line  \* Slip: though there may be none

GetStartPosition(s, name, line) ==
    IF InFileName(line) >= 0
    THEN InFileName(line)
    ELSE IF name \in File THEN s.mStartPosition[name] ELSE 0

ApplyStartPosition(s, v, line) == [s EXCEPT !.view[v].line = line]

(* createBufferAndView()                                                   *)
CreateBufferAndView(s, name, temp, line) ==
    LET b == FindBuffer(s, name)
        t == IF b = NoBuffer THEN CreateBufferAndItsView(s, name, temp) ELSE s
        v == IF b = NoBuffer THEN Last(t.mViewList) ELSE FindViewByBuffer(t, b)
    IN  ApplyStartPosition(SetCurrentView(t, v), v, GetStartPosition(s, name, line))

-----------------------------------------------------------------------------
(* The session before main() opens anything.                               *)
Empty(positions) ==
    [ mBufferList |-> <<>>, mViewList |-> <<>>,
      mCurView |-> NoView, mCurBuffer |-> NoBuffer,
      buffer |-> [b \in Buffer |-> FreedBuffer],
      view |-> [v \in View |-> FreedView],
      mStartPosition |-> positions, running |-> TRUE, lost |-> FALSE ]

(* main() of nyzis: a view for error messages, the files of the command    *)
(* line (or a new buffer if there is none), the first of them current, and *)
(* the view for the errors deleted.                                        *)
Started(positions, files, temp) ==
    LET errors == CreateBufferAndView(Empty(positions), NoName, temp[1], NoLine)
        opened == IF files = <<>>
                  THEN CreateBufferAndView(errors, NoName, temp[2], NoLine)
                  ELSE FoldLeft(LAMBDA t, f : CreateBufferAndView(t, f, NoName, NoLine),
                                errors, files)
    IN  DeleteView(SetCurrentView(opened, opened.mViewList[2]),
                   errors.mCurView)

TempNames == {temp \in NewName \X NewName : temp[1] # temp[2]}

CommandLine == {<<>>} \union {<<f>> : f \in File} \union (File \X File)

Init ==
    \E files \in CommandLine : \E temp \in TempNames :
        session = Started([f \in File |-> 0], files, temp)

(* The program started again: only the saved positions are left.           *)
Restart ==
    /\ ~session.running
    /\ \E files \in CommandLine : \E temp \in TempNames :
         session' = Started(session.mStartPosition, files, temp)

Here == session.mCurView
Current == session.mCurBuffer
Modified == session.buffer[Current].isModified

(* What any edit and any motion do here.                                   *)
Change ==
    /\ session.running
    /\ ~Modified
    /\ session' = [session EXCEPT !.buffer[Current].isModified = TRUE]

Move(line) ==
    /\ session.running
    /\ line # session.view[Here].line
    /\ session' = [session EXCEPT !.view[Here].line = line]

(* :w and :w name, with or without !; the buffer keeps the name even when  *)
(* it could not be saved there.                                            *)
Named(name) == IF name = NoName THEN session ELSE SetPath(session, Current, name)

Write(name, chosen, opens) ==
    /\ session.running
    /\ session' = Save(Named(name), Current, chosen, opens)

(* :wq and :x; the forced form closes whether or not it saved.             *)
WriteQuit(force, name, chosen, opens) ==
    /\ session.running
    /\ LET saved == SaveResult(Named(name), Current, chosen, opens)
       IN  session' = IF force \/ saved.ok THEN DeleteView(saved.s, Here)
                                           ELSE saved.s

(* :wa                                                                     *)
WriteAll(failing) ==
    /\ session.running
    /\ session' = SaveAll(session, failing)

(* :wqa, and ZZ, which goes to guiQuit() without exitRequest().            *)
WriteQuitAll(failing, key) ==
    /\ session.running
    /\ LET s == SaveAll(session, failing)
           all == SavesAll(session, failing)
       IN  session' = CASE ~all -> s
                        [] all /\ key = "wqa" -> ExitRequest(s)
                        [] all /\ key = "ZZ" -> GuiQuit(s)

(* :q and :q!                                                              *)
Quit(force) ==
    /\ session.running
    /\ force \/ ~Modified \/ Len(session.buffer[Current].views) > 1
    /\ session' =
         IF Len(session.buffer[Current].views) = 1 /\ Len(session.mBufferList) = 1
         THEN ExitRequest(session)
         ELSE DeleteView(session, Here)

(* :qa and :qa!; ZQ is :qa!                                                *)
QuitAll(force) ==
    /\ session.running
    /\ force \/ ~IsOneBufferModified(session)
    /\ session' = ExitRequest(session)

(* :bfirst, :blast, :bnext, :bprevious                                     *)
GotoView(which) ==
    /\ session.running
    /\ session' = SetCurrentView(session,
                     CASE which = "first" -> Head(session.mViewList)
                       [] which = "last" -> Last(session.mViewList)
                       [] which = "next" -> NextView(session)
                       [] which = "previous" -> PrevView(session))

(* :bdelete, which asks nothing.                                           *)
BufferDelete ==
    /\ session.running
    /\ session' = RemoveBuffer(session, Current)

(* :e, :e! without a name: saves the position, clears the text, which      *)
(* marks it modified, and reads the file again, if there is a name: load() *)
(* returns at once if there is none.  The cursor goes where                *)
(* getStartPosition() says, and that is the first line, whatever is saved. *)
Reload(force) ==
    /\ session.running
    /\ force \/ ~Modified
    /\ LET s == SaveYzisInfo(session, Here)
           name == s.buffer[Current].path
           cleared == [s EXCEPT !.buffer[Current].isModified = TRUE, !.lost = @ \/ Modified]
           loaded == IF name = NoName THEN cleared
                     ELSE [SetPath(cleared, Current, name) EXCEPT
                             !.buffer[Current].isModified = FALSE]
       IN  session' = ApplyStartPosition(loaded, Here, GetStartPosition(loaded, name, NoLine))

(* :e name and :e name:line                                                *)
Edit(force, name, line) ==
    /\ session.running
    /\ force \/ ~Modified
    /\ FindBuffer(session, name) = NoBuffer => HasRoom(session)
    /\ session' = CreateBufferAndView(session, name, NoName, line)

(* :enew                                                                   *)
New ==
    /\ session.running
    /\ HasRoom(session) \/ FindBuffer(session, NoName) # NoBuffer
    /\ \E temp \in UnusedNames(session) :
         session' = CreateBufferAndView(session, NoName, temp, NoLine)

Next ==
    \/ Restart
    \/ Change
    \/ \E line \in Line : Move(line)
    \/ \E name \in File \union {NoName}, chosen \in File \union {NoName}, opens \in BOOLEAN :
         Write(name, chosen, opens)
    \/ \E force \in BOOLEAN, name \in File \union {NoName},
          chosen \in File \union {NoName}, opens \in BOOLEAN :
         WriteQuit(force, name, chosen, opens)
    \/ \E failing \in SUBSET File : WriteAll(failing)
    \/ \E failing \in SUBSET File, key \in {"wqa", "ZZ"} : WriteQuitAll(failing, key)
    \/ \E force \in BOOLEAN : Quit(force)
    \/ \E force \in BOOLEAN : QuitAll(force)
    \/ \E which \in {"first", "last", "next", "previous"} : GotoView(which)
    \/ BufferDelete
    \/ \E force \in BOOLEAN : Reload(force)
    \/ \E force \in BOOLEAN, name \in File \union Directory, line \in Line \union {NoLine} :
         Edit(force, name, line)
    \/ New

Spec == Init /\ [][Next]_vars
=============================================================================

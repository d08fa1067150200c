------------------------------ MODULE KeyInput ------------------------------
(***************************************************************************)
(* From a key to a command: the keys typed into a view, the mappings and   *)
(* macros that turn them into other keys, and the stack of modes that      *)
(* decides what a key does (YSession::sendKey, YModePool, YZMapping and    *)
(* the modes of src/libyzis).                                              *)
(*                                                                         *)
(* sendKey calls itself: a mapping, a macro, a script and a mode that      *)
(* passes its key on send further keys before the first has returned.      *)
(* `frames' is that stack of calls, the innermost first.  A key is sent in *)
(* two steps: it is recorded, mapped and put in the input buffer (SendKey),*)
(* and then the mode executes it.                                          *)
(*                                                                         *)
(* A key is a string: "i", "Esc".  "q" stands for q with the register a, or*)
(* the plain q that stops recording, "@" for @ with register a and a count *)
(* of Count.  Of the text only the column of the cursor is kept.           *)
(* Definitions marked "Slip" are mistakes the runs are shown to notice (see *)
(* README.md); nothing uses them.                                          *)
(***************************************************************************)
EXTENDS Integers, SequencesExt

CONSTANTS
    Key,              \* the keys
    TypedKeys,        \* those the user types
    InitialMappings,  \* per MapMode, the mappings: one for the keys `from'
    MapCommands,      \* the :map, :unmap and :noremap commands that are given
    KeyOrder,         \* all the keys that are mapped, in the order of QMap
    Script,           \* the keys a script sends, <<>> if no script is run
    InitialRegisters, \* what yzisinfo may give for register a: <<>> or << keys >>
    Count,            \* the count given to @
    FirstMode,        \* "command", or "intro" if no file was given
    MaxColumn, MaxStack, MaxFrames,   \* bounds: the line, the two stacks,
    MaxRegister, MaxInput             \* the recorded and the buffered keys

MapMode == {"normal", "pendingOp", "visual", "insert", "cmdline"}

(* A mapping, and a command that makes one or takes it away.               *)
Mapping == [from : Seq(Key), to : Seq(Key), noremap : BOOLEAN]
IsMapping(e) ==
    /\ e.to \in Seq(Key) /\ e.noremap \in BOOLEAN
    /\ e.from # <<>> /\ \E i \in DOMAIN KeyOrder : KeyOrder[i] = e.from

ASSUME InputAssumption ==
    /\ TypedKeys \subseteq Key /\ Script \in Seq(Key)
    /\ \A r \in InitialRegisters : r \in Seq(Seq(Key)) /\ Len(r) <= 1
    /\ Count \in Nat \ {0}
    /\ FirstMode \in {"command", "intro"}
    /\ KeyOrder \in Seq(Seq(Key))
    /\ InitialMappings \in [MapMode -> SUBSET Mapping]
    /\ \A m \in MapMode : \A e \in InitialMappings[m] : IsMapping(e)
    /\ \A m \in MapMode : \A e, f \in InitialMappings[m] : e.from = f.from => e = f
    /\ \A c \in MapCommands :
          IsMapping(c) /\ c.type \in MapMode \union {"global"} /\ c.remove \in BOOLEAN
    /\ MaxColumn \in Nat /\ MaxStack \in Nat /\ MaxFrames \in Nat
    /\ MaxRegister \in Nat /\ MaxInput \in Nat

VARIABLES
    view,        \* the view: its modes, input buffer, cursor, command line
    mapMode,     \* the tables the keys of the input buffer are looked up in
    mappings,    \* YZMapping: per MapMode, the mappings
    mNoremap,    \* was the last mapping one that is not to be remapped?
    recording,   \* are keys recorded into register a?
    register,    \* register a, a QStringList: <<>> or << keys >>
    frames,      \* the calls that have not returned
    result       \* the CmdState the last call returned

vars == << view, mapMode, mappings, mNoremap, recording, register, frames, result >>

VisualMode == {"visual", "visualLine"}
CmdlineMode == {"ex", "search"}
Mode == {"command", "insert", "completion", "intro"} \union VisualMode \union CmdlineMode
CmdState == {"error", "notYetValid", "operatorPending", "ok", "stopped"}

MapModeOf(mode) ==
    CASE mode \in VisualMode -> "visual"
      [] mode \in CmdlineMode -> "cmdline"
      [] mode \in {"insert", "completion"} -> "insert"
      [] mode \in {"command", "intro"} -> "normal"

(* No start of a visual selection is kept for the view.                    *)
NoStart == -1
Column == 0..MaxColumn

FrontMode == Head(view.stack)
Idle == frames = <<>>
Frame == [at : {"keys"}, keys : Seq(Key)]
         \union [at : {"exec", "intro", "completion", "script"}, pending : BOOLEAN]
         \union [at : {"macro"}, pending : BOOLEAN, left : Nat]

View == [stack : Seq(Mode), inputBuffer : Seq(Key), cursor : Column,
         commandLine : BOOLEAN, start : [VisualMode -> Column \union {NoStart}]]

TypeOK ==
    /\ view \in View
    /\ view.stack # <<>>
    /\ mapMode \subseteq MapMode
    /\ mappings \in [MapMode -> SUBSET Mapping]
    /\ mNoremap \in BOOLEAN /\ recording \in BOOLEAN
    /\ register \in Seq(Seq(Key)) /\ Len(register) <= 1
    /\ frames \in Seq(Frame)
    /\ result \in CmdState
-----------------------------------------------------------------------------
(* The stack of modes (YModePool).  What a mode does when it is entered and*)
(* left: ex and search empty the command line, insert steps back, a visual *)
(* mode keeps the place it was entered at, unless it still has one.        *)
EnterOneStart(v, mode) ==  \* Slip: one start for all the visual modes
    CASE mode \in CmdlineMode -> [v EXCEPT !.commandLine = FALSE]
      [] mode \in VisualMode /\ \A m \in VisualMode : v.start[m] = NoStart ->
            [v EXCEPT !.start[mode] = v.cursor]
      [] OTHER -> v

Enter(v, mode) ==
    CASE mode \in CmdlineMode -> [v EXCEPT !.commandLine = FALSE]
      [] mode \in VisualMode /\ v.start[mode] = NoStart -> [v EXCEPT !.start[mode] = v.cursor]
      [] OTHER -> v

(* The modes that are left, each once.  What one of them does is no matter *)
(* of what another does.                                                   *)
Leave(v, modes) ==
    [v EXCEPT !.commandLine = @ /\ modes \intersect CmdlineMode = {},
              !.start = [m \in VisualMode |-> IF m \in modes THEN NoStart ELSE @[m]],
              !.cursor = IF "insert" \in modes /\ @ > 0 THEN @ - 1 ELSE @]

Push(v, mode) == Enter([v EXCEPT !.stack = <<mode>> \o @], mode)

Purged(v) == [v EXCEPT !.inputBuffer = <<>>]

Refilled(v) == IF v.stack = <<>> THEN Push(v, "command") ELSE v

Pop(v, leaveMe) ==
    LET left == IF leaveMe THEN Leave(v, {Head(v.stack)}) ELSE v
    IN  Refilled(Purged([left EXCEPT !.stack = Tail(@)]))

Change(v, mode, leaveMe) == Push(Pop(v, leaveMe), mode)

(* The place of the first x of a sequence, the one behind it if it has none.*)
FirstPlace(seq, x) ==
    CHOOSE i \in 1..Len(seq) + 1 :
        /\ i <= Len(seq) => seq[i] = x
        /\ \A j \in 1..i - 1 : seq[j] # x

(* pop(mode): pop until that mode is in front; a mode that is there twice  *)
(* is left once.                                                           *)
PopTo(v, mode) ==
    LET at == FirstPlace(v.stack, mode)
        left == Leave(v, { v.stack[i] : i \in 1..at - 1 })
    IN  Refilled(Purged([left EXCEPT !.stack = SubSeq(@, at, Len(@))]))

(* gotoViewCursor: a visual mode in front takes the movement up.  If it has*)
(* no start, buildBufferInterval reports it and operator[] makes it one.   *)
MovedTo(v, column) ==
    LET mode == Head(v.stack)
        w == [v EXCEPT !.cursor = column]
    IN  IF mode \in VisualMode /\ v.start[mode] = NoStart
        THEN [w EXCEPT !.start[mode] = 0] ELSE w

MovedRight(v) == MovedTo(v, IF v.cursor < MaxColumn THEN v.cursor + 1 ELSE MaxColumn)
-----------------------------------------------------------------------------
(* Mappings (YZMapping).  The first mapping of a table whose keys occur in *)
(* the text is applied, at every place they occur; the mappings before it  *)
(* that begin with the text are pending.                                   *)
Replaced(text, from, to) ==
    LET n == Len(from)
        rest[i \in 1..Len(text) + 1] ==
            IF i > Len(text) THEN <<>>
            ELSE IF i + n - 1 <= Len(text) /\ SubSeq(text, i, i + n - 1) = from
                 THEN to \o rest[i + n]
                 ELSE <<text[i]>> \o rest[i + 1]
    IN  rest[1]

Occurs(from, text) ==
    \E i \in 1..Len(text) - Len(from) + 1 : SubSeq(text, i, i + Len(from) - 1) = from

(* Tables are searched in the order of QMap.                               *)
Place(e) == FirstPlace(KeyOrder, e.from)
Before(e, table) == { f \in table : Place(f) < Place(e) }
Pending(text, entries) == \E e \in entries : IsPrefix(text, e.from)

ApplyTable(found, table) ==
    LET matching == { e \in table : Occurs(e.from, found.text) }
        first == CHOOSE e \in matching : \A f \in matching : Place(e) <= Place(f)
    IN  IF matching = {} THEN [found EXCEPT !.pending = Pending(found.text, table)]
        ELSE [text |-> Replaced(found.text, first.from, first.to),
              pending |-> Pending(found.text, Before(first, table)),
              noremap |-> found.noremap \/ first.noremap]

(* A pending mapping ends the search; so does mNoremap, before it begins.  *)
ApplyTableOf(mode, found, modes) ==
    IF mode \notin modes \/ found.pending THEN found ELSE ApplyTable(found, mappings[mode])

ApplyMappings(text, modes) ==
    LET none == [text |-> text, pending |-> FALSE, noremap |-> FALSE]
        normal == ApplyTableOf("normal", none, modes)
        pendingOp == ApplyTableOf("pendingOp", normal, modes)
        visual == ApplyTableOf("visual", pendingOp, modes)
        insert == ApplyTableOf("insert", visual, modes)
    IN  IF mNoremap THEN none ELSE ApplyTableOf("cmdline", insert, modes)
-----------------------------------------------------------------------------
(* Calls.                                                                  *)
ExecFrame(pending) == [at |-> "exec", pending |-> pending]
KeysFrame(keys) == [at |-> "keys", keys |-> keys]

(* sendMultipleKeys begins by leaving a mode of the command line.          *)
BeginKeys(v) == IF Head(v.stack) \in CmdlineMode THEN Change(v, "command", TRUE) ELSE v

(* sendKey(k) with the view v, up to the execution: record, map, append to *)
(* the input buffer.  What is mapped is sent anew, key by key.             *)
SendKey(v, k, callers) ==
    LET modes == mapMode \union {MapModeOf(Head(v.stack))}
        typed == v.inputBuffer \o <<k>>
        found == ApplyMappings(typed, modes)
    IN  /\ Len(callers) < MaxFrames
        /\ register' = IF ~recording THEN register
                       ELSE << (IF register = <<>> THEN <<>> ELSE register[1]) \o <<k>> >>
        /\ mNoremap' = found.noremap
        /\ IF found.text # typed
           THEN /\ view' = BeginKeys(Purged(v))
                /\ mapMode' = {}
                /\ frames' = << KeysFrame(found.text) >> \o callers
                /\ result' = "ok"
           ELSE /\ view' = [v EXCEPT !.inputBuffer = typed]
                /\ mapMode' = modes
                /\ frames' = << ExecFrame(found.pending) >> \o callers
                /\ UNCHANGED result
        /\ UNCHANGED recording

(* The user types a key.  At the bounds of the model, the user leaves the  *)
(* mode and ends the recording.                                            *)
Leaving == IF FrontMode = "command" THEN "q" ELSE "Esc"

Type(k) ==
    /\ Idle
    /\ recording /\ register # <<>> /\ Len(register[1]) >= MaxRegister => k = Leaving
    /\ Len(view.stack) >= MaxStack => k = "Esc"
    /\ Len(view.inputBuffer) < MaxInput
    /\ SendKey(view, k, <<>>)

NextOfKeysAgain ==  \* Slip: the key is sent and not taken off
    /\ ~Idle /\ Head(frames).at = "keys"
    /\ IF Head(frames).keys = <<>> \/ result \in {"stopped", "error"}
       THEN /\ frames' = Tail(frames)
            /\ UNCHANGED << view, mapMode, mNoremap, recording, register, result >>
       ELSE SendKey(view, Head(Head(frames).keys), frames)

(* The loop of sendMultipleKeys.  In a mode of the command line most keys  *)
(* are put on the command line without being sent.                         *)
NextOfKeys ==
    /\ ~Idle /\ Head(frames).at = "keys"
    /\ LET keys == Head(frames).keys
           rest == << KeysFrame(Tail(keys)) >> \o Tail(frames)
       IN  IF keys = <<>> \/ result \in {"stopped", "error"}
           THEN /\ frames' = Tail(frames)
                /\ UNCHANGED << view, mapMode, mNoremap, recording, register, result >>
           ELSE IF FrontMode \in CmdlineMode /\ Head(keys) \notin {"Esc", "Enter"}
           THEN /\ view' = [view EXCEPT !.commandLine = TRUE]
                /\ frames' = rest
                /\ UNCHANGED << mapMode, mNoremap, recording, register, result >>
           ELSE SendKey(view, Head(keys), rest)

FinishKeepingMapMode(v, state) ==  \* Slip: mapMode is not reset
    LET keep == state = "notYetValid" \/ (state = "error" /\ Head(frames).pending)
    IN  /\ view' = IF keep \/ state = "operatorPending" THEN v ELSE Purged(v)
        /\ mapMode' = IF state = "operatorPending" THEN {"pendingOp"} ELSE mapMode
        /\ frames' = Tail(frames)
        /\ result' = state

(* The end of YModePool::sendKey: execCommand has returned the state.      *)
Finish(v, state) ==
    LET keep == state = "notYetValid" \/ (state = "error" /\ Head(frames).pending)
    IN  /\ view' = IF keep \/ state = "operatorPending" THEN v ELSE Purged(v)
        /\ mapMode' = IF keep THEN mapMode
                      ELSE IF state = "operatorPending" THEN {"pendingOp"} ELSE {}
        /\ frames' = Tail(frames)
        /\ result' = state

Done(v, state) == Finish(v, state) /\ UNCHANGED << mNoremap, recording, register >>

(* A command that sends keys waits for their end in a frame of its own.    *)
WaitFrame(at) == [at |-> at, pending |-> Head(frames).pending]

SendKeys(v, frame, keys) ==
    /\ Len(frames) < MaxFrames
    /\ view' = BeginKeys(v)
    /\ frames' = << KeysFrame(keys), frame >> \o Tail(frames)
    /\ result' = "ok"
    /\ UNCHANGED << mapMode, mNoremap, recording, register >>

Runs(modes) == ~Idle /\ Head(frames).at = "exec" /\ FrontMode \in modes
Executes(modes, keys) == Runs(modes) /\ view.inputBuffer \in { <<k>> : k \in keys }
Returns(at) == ~Idle /\ Head(frames).at = at
-----------------------------------------------------------------------------
(* Command mode.                                                           *)
ModeKeys == {"i", "v", "V", ":", "/"}
ModeFor(k) ==
    CASE k = "i" -> "insert" [] k = "v" -> "visual" [] k = "V" -> "visualLine"
      [] k = ":" -> "ex" [] OTHER -> "search"

GotoMode ==
    /\ Executes({"command"}, ModeKeys)
    /\ Done(Push(view, ModeFor(view.inputBuffer[1])), "ok")

AppendText ==
    /\ Executes({"command"}, {"a"})
    /\ Done(MovedRight(Change(view, "insert", TRUE)), "ok")

Motion ==
    /\ Executes({"command"} \union VisualMode, {"w", "Enter"})
    /\ \E column \in Column : Done(MovedTo(view, column), "ok")

DeleteChar ==
    /\ Executes({"command"}, {"x"})
    /\ \E column \in {0, view.cursor} : Done(MovedTo(view, column), "ok")

Abort ==
    /\ Executes({"command"}, {"Esc"})
    /\ Done(view, "ok")

(* C-n begins no command; a pending mapping may leave it in the buffer.    *)
UnknownCommand ==
    /\ Runs({"command"})
    /\ view.inputBuffer[1] = "C-n"
    /\ Done(view, "error")

(* interval(): the motion of an operator.  Any v and V before it change its*)
(* kind.  When no motion matches, the operator is given up only if nothing *)
(* at all was read.  i takes one more key; one written <...> is taken for  *)
(* the bracket it begins with.                                             *)
Operators == {"c", "d"}
Motions == {"w", "Enter", "i"}
TextObjects == {"w", "Esc", "Enter", "C-n"}

IntervalState(keys) ==
    LET m == CHOOSE i \in 1..Len(keys) + 1 :
                /\ i <= Len(keys) => keys[i] \notin {"v", "V"}
                /\ \A j \in 1..i - 1 : keys[j] \in {"v", "V"}
        motion == SubSeq(keys, m, Len(keys))
    IN  IF motion = <<>> \/ motion = <<"i">> THEN {"operatorPending"}
        ELSE IF motion[1] \notin Motions THEN {IF m = 1 THEN "error" ELSE "operatorPending"}
        ELSE IF motion[1] # "i" THEN {"ok"}
        ELSE IF motion[2] \in TextObjects THEN {"ok", "stopped"} ELSE {"stopped"}

(* change() begins to append where nothing is left of the line.            *)
ChangeMode(v) == { Change(v, "insert", TRUE), MovedRight(Change(v, "insert", TRUE)) }

Operator ==
    /\ Runs({"command"})
    /\ view.inputBuffer[1] \in Operators
    /\ LET op == view.inputBuffer[1]
           keys == Tail(view.inputBuffer)
       IN  \/ /\ keys = <<op>>
              /\ \/ op = "c" /\ Done([Push(view, "insert") EXCEPT !.cursor = 0], "ok")
                 \/ op = "d" /\ \E column \in Column : Done(MovedTo(view, column), "ok")
           \/ /\ keys # <<op>>
              /\ \E state \in IntervalState(keys) \ {"ok"} : Done(view, state)
           \/ /\ keys # <<op>> /\ "ok" \in IntervalState(keys)
              /\ \E column \in 0..view.cursor :
                    LET v == MovedTo(view, column)
                    IN  IF op = "d" THEN Done(Pop(v, TRUE), "ok")
                        ELSE \E w \in ChangeMode(v) : Done(w, "ok")

MacroWithItsEnd ==  \* Slip: the q stays in the register
    /\ Executes({"command"}, {"q"})
    /\ recording' = ~recording
    /\ register' = IF recording THEN register ELSE <<>>
    /\ Finish(view, "ok")
    /\ UNCHANGED mNoremap

(* q: the recorded keys lose the last, the q itself.                       *)
Macro ==
    /\ Executes({"command"}, {"q"})
    /\ recording' = ~recording
    /\ register' = IF recording THEN << Front(register[1]) >> ELSE <<>>
    /\ Finish(view, "ok")
    /\ UNCHANGED mNoremap

(* @: the register is played Count times.  sendMultipleKeys returns        *)
(* CmdError, the zero of CmdState, or something that ends the repetition.  *)
MacroFrame(left) == [at |-> "macro", pending |-> Head(frames).pending, left |-> left]

ReplayMacro ==
    /\ Executes({"command"}, {"@"})
    /\ IF recording THEN Done(Purged(view), "stopped")
       ELSE register # <<>> /\ SendKeys(Purged(view), MacroFrame(Count - 1), register[1])

AfterMacro ==
    /\ Returns("macro")
    /\ IF result # "error" THEN Done(view, "stopped")
       ELSE IF Head(frames).left = 0 THEN Done(view, "ok")
       ELSE SendKeys(view, MacroFrame(Head(frames).left - 1), register[1])
-----------------------------------------------------------------------------
(* Insert mode and completion.  A mode that is not command mode looks at   *)
(* the first key of the input buffer.                                      *)
FirstKey == view.inputBuffer[1]

InsertText ==
    /\ Runs({"insert"}) /\ FirstKey \notin {"Esc", "C-n"}
    /\ \/ FirstKey # "Enter" /\ Done(MovedRight(view), "ok")
       \/ FirstKey = "Enter" /\ \E column \in Column : Done(MovedTo(view, column), "ok")

LeaveInsert ==
    /\ Runs({"insert"}) /\ FirstKey = "Esc"
    /\ Done(PopTo(view, "command"), "ok")

(* completionNext: the completion mode is pushed and asked at once.  At the*)
(* start of a word there is nothing to complete, and it pops itself.       *)
CompletionNext ==
    /\ Runs({"insert"}) /\ FirstKey = "C-n"
    /\ \/ \E column \in Column : Done([Push(view, "completion") EXCEPT !.cursor = column], "error")
       \/ Done(Pop(Push(view, "completion"), TRUE), "error")

NextCompletion ==
    /\ Runs({"completion"}) /\ FirstKey = "C-n"
    /\ \E column \in Column : Done([view EXCEPT !.cursor = column], "error")

EndCompletionOnly ==  \* Slip: the key is lost
    /\ Runs({"completion"}) /\ FirstKey # "C-n"
    /\ Done(Pop(view, TRUE), "ok")

(* Any other key ends the completion and is sent again.                    *)
EndCompletion ==
    /\ Runs({"completion"}) /\ FirstKey # "C-n"
    /\ SendKey(Pop(view, TRUE), Last(view.inputBuffer), << WaitFrame("completion") >> \o Tail(frames))

AfterCompletion == Returns("completion") /\ Done(view, "ok")

(* The intro goes with the first key, which is sent again.                 *)
LeaveIntro ==
    /\ Runs({"intro"})
    /\ SendKey(Change([view EXCEPT !.cursor = 0], "command", TRUE),
               Last(view.inputBuffer), << WaitFrame("intro") >> \o Tail(frames))

AfterIntro == Returns("intro") /\ Done(view, result)
-----------------------------------------------------------------------------
(* The visual modes.                                                       *)
DeleteSelection ==
    /\ Executes(VisualMode, {"x", "d"})
    /\ \E column \in 0..view.cursor : Done(Pop(MovedTo(view, column), TRUE), "ok")

ChangeSelection ==
    /\ Executes(VisualMode, {"c"})
    /\ \E column \in 0..view.cursor :
          \E v \in ChangeMode(MovedTo(view, column)) : Done(v, "ok")

EscapeVisual ==
    /\ Runs(VisualMode)
    /\ view.inputBuffer \in { <<"Esc">>, << IF FrontMode = "visual" THEN "v" ELSE "V" >> }
    /\ Done(Pop(view, TRUE), "ok")

(* The mode is only translated: it is not left.                            *)
TranslateVisual ==
    /\ Runs(VisualMode)
    /\ \/ FrontMode = "visual" /\ view.inputBuffer = <<"V">>
          /\ Done(Change(view, "visualLine", FALSE), "ok")
       \/ FrontMode = "visualLine" /\ view.inputBuffer = <<"v">>
          /\ Done(Change(view, "visual", FALSE), "ok")

VisualToEx ==
    /\ Executes(VisualMode, {":"})
    /\ Done([Push(view, "ex") EXCEPT !.commandLine = TRUE], "ok")

(* i waits for a key, and there is no command i and that key.              *)
NoVisualCommand ==
    /\ Runs(VisualMode)
    /\ \/ view.inputBuffer = <<"i">> /\ Done(view, "notYetValid")
       \/ FirstKey \in {"a", "q", "@", "/", "C-n"} /\ Done(view, "error")
       \/ FirstKey = "i" /\ Len(view.inputBuffer) > 1 /\ Done(view, "error")
-----------------------------------------------------------------------------
(* The modes of the command line.                                          *)
TypeCommandLine ==
    /\ Runs(CmdlineMode) /\ FirstKey \notin {"Enter", "Esc"}
    /\ Done([view EXCEPT !.commandLine = TRUE], "ok")

EndSearch ==
    /\ Runs({"search"}) /\ FirstKey \in {"Enter", "Esc"}
    /\ \E column \in Column : Done(Pop([view EXCEPT !.cursor = column], TRUE), "ok")

LeaveEx ==
    /\ Runs({"ex"})
    /\ \/ FirstKey = "Esc" /\ Done(PopTo(view, "command"), "ok")
       \/ FirstKey = "Enter" /\ ~view.commandLine /\ Done(Pop(view, TRUE), "ok")

(* A command that succeeds or fails, or that sends keys, as a Lua script.  *)
ExCommand ==
    /\ Runs({"ex"}) /\ FirstKey = "Enter" /\ view.commandLine
    /\ \/ \E state \in {"ok", "error"} : Done(PopTo(view, "command"), state)
       \/ Script # <<>> /\ SendKeys(view, WaitFrame("script"), Script)

(* :map, :unmap, :noremap and the like for one mode (genericMap,           *)
(* genericUnmap, genericNoremap): they are for three modes if for none.    *)
TablesOf(type) == IF type = "global" THEN {"normal", "visual", "pendingOp"} ELSE {type}
Mapped(table, command) ==
    { e \in table : e.from # command.from }
    \union IF command.remove THEN {}
           ELSE { [from |-> command.from, to |-> command.to, noremap |-> command.noremap] }

MapCommand ==
    /\ Runs({"ex"}) /\ FirstKey = "Enter" /\ view.commandLine
    /\ \E command \in MapCommands :
         mappings' = [ m \in MapMode |-> IF m \in TablesOf(command.type)
                                        THEN Mapped(mappings[m], command) ELSE mappings[m] ]
    /\ Done(PopTo(view, "command"), "ok")

AfterScript == Returns("script") /\ Done(PopTo(view, "command"), "ok")
-----------------------------------------------------------------------------
Init ==
    /\ view = [ stack |-> IF FirstMode = "intro" THEN <<"intro", "command">> ELSE <<"command">>,
                inputBuffer |-> <<>>, cursor |-> 0, commandLine |-> FALSE,
                start |-> [m \in VisualMode |-> NoStart] ]
    /\ mapMode = {}
    /\ mappings = InitialMappings
    /\ mNoremap = FALSE
    /\ recording = FALSE
    /\ register \in InitialRegisters
    /\ frames = <<>>
    /\ result = "ok"

(* The call of sendKey goes on.                                            *)
Continue ==
    \/ NextOfKeys
    \/ GotoMode \/ AppendText \/ Motion \/ DeleteChar \/ Abort \/ UnknownCommand
    \/ Operator \/ Macro \/ ReplayMacro \/ AfterMacro
    \/ InsertText \/ LeaveInsert
    \/ CompletionNext \/ NextCompletion \/ EndCompletion \/ AfterCompletion
    \/ LeaveIntro \/ AfterIntro
    \/ DeleteSelection \/ ChangeSelection \/ EscapeVisual \/ TranslateVisual
    \/ VisualToEx \/ NoVisualCommand
    \/ TypeCommandLine \/ EndSearch \/ LeaveEx \/ ExCommand \/ AfterScript

Process == MapCommand \/ (Continue /\ UNCHANGED mappings)

Next == Process \/ \E k \in TypedKeys : Type(k) /\ UNCHANGED mappings

Spec == Init /\ [][Next]_vars

(* The front end waits until sendKey returns.                              *)
FairSpec == Spec /\ WF_vars(Process)

-----------------------------------------------------------------------------
(* Command mode is at the bottom of the stack, and a mode is over one that *)
(* it is entered from.  Keys that a script or a mapping sends from a       *)
(* command line are read in command mode, over what the command line was   *)
(* entered from (sendMultipleKeys).                                        *)
Below(mode) ==
    CASE mode = "completion" -> {"insert"}
      [] mode \in {"ex", "command", "insert"} -> {"command"} \union VisualMode
      [] OTHER -> {"command"}

Grounded(stack) ==
    /\ Last(stack) = "command"
    /\ \A i \in 1..Len(stack) - 1 : stack[i + 1] \in Below(stack[i])

StackIsGrounded == Grounded(view.stack)

(* Nothing is under command mode but command mode: only a completion and a *)
(* command line have another mode under them.                              *)
OneOverCommand(stack) ==
    \A i \in 2..Len(stack) :
        stack[i] # "command"
            => i = 2 /\ << stack[1], stack[2] >> \in {<<"completion", "insert">>}
                                                  \union ({"ex"} \X VisualMode)

(* mode_visual.cpp:75, :89: YASSERT(mStartViewCursor.contains(mView)) when *)
(* a visual mode is left and whenever the cursor moves in it.  One that is *)
(* on the stack will be left, if it does not come to the front before.     *)
HasStarts(v) ==
    \A i \in DOMAIN v.stack : v.stack[i] \in VisualMode => v.start[v.stack[i]] # NoStart

(* The stack of modes is one that keys can lead out of again, whatever was *)
(* entered from what.                                                      *)
ModesAreStacked ==
    TypeOK /\ StackIsGrounded /\ OneOverCommand(view.stack) /\ HasStarts(view)

(* A mode that reads one key finds the key it was given, and no key that   *)
(* was left in the input buffer by the mode before it.                     *)
Executing == ~Idle /\ Head(frames).at = "exec"
ReadsCommands == {"command"} \union VisualMode
OneKeyAtATime == Executing /\ FrontMode \notin ReadsCommands => Len(view.inputBuffer) = 1

(* The tables of an earlier mode are looked up only as long as there are   *)
(* keys typed in that mode: no mapping leaks into the next.                *)
MapModeIsFresh == Idle /\ view.inputBuffer = <<>> => mapMode = {}

(* No mode sees keys, or mappings, that were meant for the one before it.  *)
InputIsFresh == OneKeyAtATime /\ MapModeIsFresh
-----------------------------------------------------------------------------
(* What the two properties above take for granted.  Keys that are sent from*)
(* a command line leave command mode over a visual mode, and a mapping that*)
(* waits for a second key keeps the first in the buffer of a mode that     *)
(* takes keys one by one.                                                  *)
CommandLineSends ==
    \/ Script # <<>>
    \/ InitialMappings["cmdline"] # {}
    \/ \E c \in MapCommands : c.type = "cmdline"

KeyTables == {"insert", "cmdline"}
KeysWait ==
    \/ \E m \in KeyTables : \E e \in InitialMappings[m] : Len(e.from) > 1
    \/ \E c \in MapCommands : c.type \in KeyTables /\ Len(c.from) > 1

(* The inductive invariant of KeyInput_proofs, by parts.  A call that      *)
(* executes has its keys, and is the innermost.                            *)
Among(calls, ats) == \E i \in DOMAIN calls : calls[i].at \in ats

CallsAreSound ==
    /\ ~Idle => ~Among(Tail(frames), {"exec"})
    /\ Executing => view.inputBuffer # <<>>
    /\ Executing /\ recording => register # <<>> /\ register[1] # <<>>
    /\ Among(frames, {"macro"}) /\ register = <<>> => recording /\ result # "error"
    /\ ~Executing /\ result \in {"operatorPending", "notYetValid"}
          => FrontMode \in ReadsCommands /\ view.inputBuffer # <<>>

TablesAreSound ==
    /\ \A m \in MapMode : \A e \in mappings[m] : IsMapping(e)
    /\ ~CommandLineSends => mappings["cmdline"] = {}
    /\ ~KeysWait => \A m \in KeyTables : \A e \in mappings[m] : Len(e.from) = 1

CommandLineIsRead ==
    /\ OneOverCommand(view.stack) /\ HasStarts(view)
    /\ FrontMode \in CmdlineMode =>
          /\ mapMode \subseteq IF Executing THEN {"cmdline"} ELSE {}
          /\ ~Executing => result # "error"

KeysAreRead ==
    /\ FrontMode \notin ReadsCommands =>
          IF Executing
          THEN /\ Len(view.inputBuffer) = 1
               /\ mapMode = {MapModeOf(FrontMode)}
               /\ FrontMode # "intro" => ~Head(frames).pending
          ELSE view.inputBuffer = <<>> /\ mapMode = {}
    /\ ~Executing /\ ~Among(frames, {"macro", "script"}) => (view.inputBuffer = <<>> => mapMode = {})

Inv ==
    /\ TypeOK /\ StackIsGrounded /\ CallsAreSound /\ TablesAreSound
    /\ ~CommandLineSends => CommandLineIsRead
    /\ ~KeysWait => KeysAreRead

=============================================================================

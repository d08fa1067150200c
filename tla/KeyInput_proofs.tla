-------------------------- MODULE KeyInput_proofs --------------------------
(***************************************************************************)
(* Proofs about KeyInput, for any keys, mappings, scripts and macros and   *)
(* for stacks and buffers of any length: the stack of modes, the input     *)
(* buffer and the calls of sendKey stay sound (TypeCorrect, StackGrounded, *)
(* ModesStacked, InputFresh), and Escape leads to command mode (EscLeads). *)
(* First the operators, from the stack up to the mappings; then the two    *)
(* steps every command is made of, a key that is sent and a command that   *)
(* returns; then one lemma per action.                                     *)
(***************************************************************************)
EXTENDS MCKeyInput, InductionLemmas, SequenceTheorems, TLAPS

(* The place of the first x of a sequence is one of its places, or the one *)
(* behind it: what pop(mode) and the order of the mappings rest on.        *)
LEMMA FirstPlaceType ==
    ASSUME NEW S, NEW seq \in Seq(S), NEW x
    PROVE  /\ FirstPlace(seq, x) \in 1..Len(seq) + 1
           /\ FirstPlace(seq, x) <= Len(seq) => seq[FirstPlace(seq, x)] = x
           /\ \A j \in 1..FirstPlace(seq, x) - 1 : seq[j] # x
<1> DEFINE Places == { i \in 1..Len(seq) + 1 : i <= Len(seq) => seq[i] = x }
<1>1. Len(seq) \in Nat
    OBVIOUS
<1>2. Places \in SUBSET Nat /\ Len(seq) + 1 \in Places
    BY <1>1
<1>3. PICK n \in Places : \A m \in Places : n <= m
    BY <1>2, LeastNumber
<1>4. \A j \in 1..n - 1 : seq[j] # x
    BY <1>1, <1>3
<1>5. \E i \in 1..Len(seq) + 1 :
        /\ i <= Len(seq) => seq[i] = x
        /\ \A j \in 1..i - 1 : seq[j] # x
    BY <1>3, <1>4
<1> QED BY <1>5, Zenon DEF FirstPlace
-----------------------------------------------------------------------------
(* Leaving modes (leave() of the modes) changes no mode of the stack and   *)
(* no key of the input buffer, and takes the start from the visual modes   *)
(* that are left only.                                                     *)
LEMMA LeaveType ==
    ASSUME NEW v \in View, NEW modes
    PROVE  /\ Leave(v, modes) \in View
           /\ Leave(v, modes).stack = v.stack
           /\ Leave(v, modes).inputBuffer = v.inputBuffer
           /\ \A m \in VisualMode : Leave(v, modes).start[m] = IF m \in modes THEN NoStart ELSE v.start[m]
<1>1. MaxColumn \in Nat
    BY InputAssumption
<1>2. v.cursor \in Column /\ v.commandLine \in BOOLEAN /\ v.start \in [VisualMode -> Column \union {NoStart}]
    BY DEF View
<1> DEFINE line == v.commandLine /\ modes \intersect CmdlineMode = {}
           start == [m \in VisualMode |-> IF m \in modes THEN NoStart ELSE v.start[m]]
           cursor == IF "insert" \in modes /\ v.cursor > 0 THEN v.cursor - 1 ELSE v.cursor
<1>3. start \in [VisualMode -> Column \union {NoStart}]
    BY <1>2
<1>4. cursor \in Column
    BY <1>1, <1>2 DEF Column
<1>5. line \in BOOLEAN
    OBVIOUS
<1>6. Leave(v, modes) = [v EXCEPT !.commandLine = line, !.start = start, !.cursor = cursor]
    BY Zenon DEF Leave
<1>7. \A m \in VisualMode : start[m] = IF m \in modes THEN NoStart ELSE v.start[m]
    OBVIOUS
<1> HIDE DEF line, start, cursor
<1> QED BY <1>3, <1>4, <1>5, <1>6, <1>7 DEF View

(* Entering a mode (enter()) leaves stack and keys alone; a visual mode    *)
(* that is entered has a start, and no other loses its own.                *)
LEMMA EnterType ==
    ASSUME NEW v \in View, NEW mode \in Mode
    PROVE  /\ Enter(v, mode) \in View
           /\ Enter(v, mode).stack = v.stack
           /\ Enter(v, mode).inputBuffer = v.inputBuffer
           /\ \A m \in VisualMode :
                 v.start[m] # NoStart \/ m = mode => Enter(v, mode).start[m] # NoStart
<1>1. MaxColumn \in Nat /\ VisualMode \intersect CmdlineMode = {}
    BY InputAssumption DEF VisualMode, CmdlineMode
<1>2. v.cursor \in Column /\ v.start \in [VisualMode -> Column \union {NoStart}]
    BY DEF View
<1>3. CASE mode \in CmdlineMode
    <2>1. Enter(v, mode) = [v EXCEPT !.commandLine = FALSE]
        BY <1>3, <1>1 DEF Enter
    <2> QED BY <2>1, <1>3, <1>1 DEF View
<1>4. CASE mode \in VisualMode /\ v.start[mode] = NoStart
    <2>1. Enter(v, mode) = [v EXCEPT !.start[mode] = v.cursor]
        BY <1>4, <1>1 DEF Enter
    <2>2. [v.start EXCEPT ![mode] = v.cursor] \in [VisualMode -> Column \union {NoStart}]
        BY <1>2
    <2>3. v.cursor # NoStart
        BY <1>1, <1>2 DEF Column, NoStart
    <2> QED BY <2>1, <2>2, <2>3, <1>4, <1>2 DEF View
<1>5. CASE mode \notin CmdlineMode /\ ~(mode \in VisualMode /\ v.start[mode] = NoStart)
    <2>1. Enter(v, mode) = v
        BY <1>5 DEF Enter
    <2> QED BY <2>1, <1>5
<1> QED BY <1>3, <1>4, <1>5

(* A view whose stack of modes is one that keys lead out of. With keys     *)
(* sent from a command line only the part that says which mode is entered  *)
(* from which remains true.                                                *)
Sound(v) ==
    /\ v \in View /\ v.stack # <<>> /\ Grounded(v.stack)
    /\ ~CommandLineSends => OneOverCommand(v.stack) /\ HasStarts(v)

(* What a sound stack is made of: modes, each over one it is entered from, *)
(* with command mode at the bottom.                                        *)
LEMMA StackFacts ==
    ASSUME NEW v, Sound(v)
    PROVE  /\ v.stack \in Seq(Mode) /\ Len(v.stack) \in Nat \ {0}
           /\ \A i \in 1..Len(v.stack) : v.stack[i] \in Mode
           /\ Head(v.stack) = v.stack[1]
           /\ v.stack[Len(v.stack)] = "command"
           /\ \A i \in 1..Len(v.stack) - 1 : v.stack[i + 1] \in Below(v.stack[i])
<1>1. v.stack \in Seq(Mode) /\ v.stack # <<>>
    BY DEF Sound, View
<1>2. Len(v.stack) \in Nat \ {0} /\ \A i \in 1..Len(v.stack) : v.stack[i] \in Mode
    BY <1>1, EmptySeq, ElementOfSeq
<1> QED BY <1>1, <1>2 DEF Sound, Grounded, Last

(* push(mode) of a mode that may be entered from the front one keeps the   *)
(* stack sound, and the keys that are buffered.                            *)
LEMMA PushSound ==
    ASSUME NEW v, Sound(v), NEW mode \in Mode,
           v.stack[1] \in Below(mode),
           ~CommandLineSends => v.stack[1] = "command" \/ mode \in {"ex", "completion"}
    PROVE  /\ Sound(Push(v, mode))
           /\ Push(v, mode).stack[1] = mode
           /\ Push(v, mode).inputBuffer = v.inputBuffer
<1> DEFINE stack == <<mode>> \o v.stack
           w == [v EXCEPT !.stack = stack]
<1>1. v \in View
    BY DEF Sound
<1>2. /\ stack \in Seq(Mode) /\ Len(stack) = Len(v.stack) + 1 /\ stack[1] = mode
      /\ \A i \in 2..Len(stack) : stack[i] = v.stack[i - 1]
    <2>1. <<mode>> \in Seq(Mode) /\ Len(<<mode>>) = 1 /\ <<mode>>[1] = mode
        OBVIOUS
    <2> QED BY <2>1, StackFacts, ConcatProperties
<1>3. Push(v, mode) = Enter(w, mode)
    BY Zenon DEF Push
<1>4. w.stack = stack /\ w.inputBuffer = v.inputBuffer /\ w.start = v.start /\ w \in View
    BY <1>1, <1>2 DEF View
<1> HIDE DEF stack, w
<1>5. /\ Enter(w, mode) \in View
      /\ Enter(w, mode).stack = stack
      /\ Enter(w, mode).inputBuffer = v.inputBuffer
      /\ \A m \in VisualMode :
            v.start[m] # NoStart \/ m = mode => Enter(w, mode).start[m] # NoStart
    BY <1>4, EnterType
<1>6. stack # <<>>
    BY <1>2, StackFacts, EmptySeq
<1>7. Grounded(stack)
    <2>1. Last(stack) = "command"
        BY <1>2, StackFacts DEF Last
    <2>2. ASSUME NEW i \in 1..Len(stack) - 1 PROVE stack[i + 1] \in Below(stack[i])
        <3>1. CASE i = 1
            BY <3>1, <1>2, StackFacts
        <3>2. CASE i > 1
            <4>1. stack[i] = v.stack[i - 1] /\ stack[i + 1] = v.stack[(i - 1) + 1]
                BY <3>2, <1>2, StackFacts
            <4>2. i - 1 \in 1..Len(v.stack) - 1
                BY <3>2, <1>2, StackFacts
            <4> QED BY <4>1, <4>2, StackFacts
        <3> QED BY <3>1, <3>2, StackFacts, <1>2
    <2> QED BY <2>1, <2>2 DEF Grounded
<1>8. ASSUME ~CommandLineSends PROVE OneOverCommand(stack) /\ HasStarts(Push(v, mode))
    <2>1. OneOverCommand(v.stack) /\ HasStarts(v)
        BY <1>8 DEF Sound
    <2>2. \A i \in 2..Len(v.stack) :
             v.stack[i] # "command" => v.stack[1] \in {"completion", "ex"}
        BY <2>1 DEF OneOverCommand
    <2>3. v.stack[1] \notin {"completion", "ex"}
        BY <1>8 DEF Below, VisualMode
    <2>4. \A i \in 3..Len(stack) : stack[i] = "command"
        <3>1. \A i \in 3..Len(stack) : i - 1 \in 2..Len(v.stack) /\ stack[i] = v.stack[i - 1]
            BY <1>2, StackFacts
        <3> QED BY <3>1, <2>2, <2>3
    <2>5. stack[2] # "command" => << mode, stack[2] >> \in {<<"completion", "insert">>} \union ({"ex"} \X VisualMode)
        <3>1. stack[2] = v.stack[1]
            BY <1>2, StackFacts
        <3> QED BY <3>1, <1>8 DEF Below, VisualMode
    <2>6. OneOverCommand(stack)
        BY <2>4, <2>5, <1>2, StackFacts DEF OneOverCommand
    <2>7. ASSUME NEW m \in VisualMode, NEW i \in DOMAIN stack, stack[i] = m
          PROVE  Enter(w, mode).start[m] # NoStart
        <3>1. CASE i = 1
            BY <3>1, <2>7, <1>2, <1>5
        <3>2. CASE i # 1
            <4>1. i - 1 \in DOMAIN v.stack /\ v.stack[i - 1] = m
                BY <3>2, <2>7, <1>2, StackFacts
            <4>2. v.start[m] # NoStart
                BY <4>1, <2>1, <2>7 DEF HasStarts
            <4> QED BY <4>2, <1>5
        <3> QED BY <3>1, <3>2
    <2> QED BY <2>6, <2>7, <1>3, <1>5 DEF HasStarts
<1> QED BY <1>2, <1>3, <1>5, <1>6, <1>7, <1>8 DEF Sound

(* A stack that was emptied begins anew with command mode (YModePool::pop, *)
(* mode_pool.cpp).                                                         *)
LEMMA RefilledSound ==
    ASSUME NEW w \in View, w.stack = <<>>
    PROVE  Sound(Refilled(w)) /\ Refilled(w).stack[1] = "command"
           /\ Refilled(w).inputBuffer = w.inputBuffer
<1> DEFINE u == [w EXCEPT !.stack = <<"command">> \o w.stack]
<1>1. <<"command">> \o w.stack = <<"command">> /\ <<"command">> \in Seq(Mode)
    <2>1. "command" \in Mode
        BY DEF Mode
    <2>2. <<"command">> \in Seq(Mode)
        BY <2>1
    <2> QED BY <2>2, ConcatEmptySeq
<1>2. u \in View /\ u.stack = <<"command">> /\ u.inputBuffer = w.inputBuffer
    BY <1>1 DEF View
<1>3. Refilled(w) = Enter(u, "command")
    BY Zenon DEF Refilled, Push
<1> HIDE DEF u
<1>4. Enter(u, "command") \in View /\ Enter(u, "command").stack = <<"command">>
      /\ Enter(u, "command").inputBuffer = w.inputBuffer
    BY <1>2, EnterType DEF Mode
<1>5. Grounded(<<"command">>) /\ OneOverCommand(<<"command">>)
    BY DEF Grounded, OneOverCommand, Last
<1>6. HasStarts(Refilled(w))
    BY <1>3, <1>4 DEF HasStarts, VisualMode
<1>7. <<"command">>[1] = "command" /\ <<"command">> # <<>>
    OBVIOUS
<1> QED BY <1>3, <1>4, <1>5, <1>6, <1>7 DEF Sound

(* pop() keeps the stack sound and empties the input buffer; what comes to *)
(* the front is a mode the one that went is entered from.                  *)
LEMMA PopSound ==
    ASSUME NEW v, Sound(v), NEW leaveMe \in BOOLEAN
    PROVE  /\ Sound(Pop(v, leaveMe))
           /\ Pop(v, leaveMe).inputBuffer = <<>>
           /\ Pop(v, leaveMe).stack[1] \in Below(v.stack[1])
           /\ ~CommandLineSends /\ v.stack[1] \notin {"completion", "ex"}
                => Pop(v, leaveMe).stack[1] = "command"
<1> DEFINE left == IF leaveMe THEN Leave(v, {Head(v.stack)}) ELSE v
           t == Tail(left.stack)
           w == Purged([left EXCEPT !.stack = t])
<1>1. Pop(v, leaveMe) = Refilled(w)
    BY Zenon DEF Pop
<1>2. v \in View /\ v.stack # <<>> /\ Head(v.stack) = v.stack[1]
    BY StackFacts DEF Sound
<1>3. left \in View /\ left.stack = v.stack
      /\ \A m \in VisualMode : m # v.stack[1] => left.start[m] = v.start[m]
    <2>1. /\ Leave(v, {Head(v.stack)}) \in View
          /\ Leave(v, {Head(v.stack)}).stack = v.stack
          /\ \A m \in VisualMode : Leave(v, {Head(v.stack)}).start[m]
                                    = IF m \in {Head(v.stack)} THEN NoStart ELSE v.start[m]
        BY <1>2, LeaveType
    <2> QED BY <2>1, <1>2
<1> HIDE DEF left
<1>0. /\ v.stack \in Seq(Mode) /\ Len(v.stack) \in Nat \ {0}
      /\ v.stack[Len(v.stack)] = "command"
      /\ \A i \in 1..Len(v.stack) - 1 : v.stack[i + 1] \in Below(v.stack[i])
    BY StackFacts
<1>4. /\ t \in Seq(Mode) /\ Len(t) = Len(v.stack) - 1
      /\ \A i \in 1..Len(t) : t[i] = v.stack[i + 1]
    BY <1>0, <1>2, <1>3, HeadTailProperties
<1> HIDE DEF t
<1>5. w \in View /\ w.stack = t /\ w.inputBuffer = <<>> /\ w.start = left.start
    BY <1>3, <1>4, EmptySeq DEF View, Purged
<1> HIDE DEF w
<1>6. CASE t = <<>>
    <2>1. Len(v.stack) = 1
        BY <1>6, <1>4, <1>0
    <2>2. v.stack[1] = "command"
        BY <2>1, <1>0
    <2>3. "command" \in Below("command")
        BY DEF Below
    <2> QED BY <1>1, <1>5, <1>6, <2>2, <2>3, RefilledSound
<1>7. CASE t # <<>>
    <2>1. Refilled(w) = w
        BY <1>5, <1>7 DEF Refilled
    <2>2. Len(t) \in Nat \ {0} /\ Len(v.stack) = Len(t) + 1
        BY <1>0, <1>4, <1>7, EmptySeq
    <2>3. Grounded(t)
        <3>1. Last(t) = "command"
            <4>1. Len(t) \in 1..Len(t)
                BY <2>2
            <4>2. t[Len(t)] = v.stack[Len(t) + 1]
                BY <4>1, <1>4
            <4> QED BY <4>2, <2>2, <1>0 DEF Last
        <3>2. ASSUME NEW i \in 1..Len(t) - 1 PROVE t[i + 1] \in Below(t[i])
            <4>1. t[i] = v.stack[i + 1] /\ t[i + 1] = v.stack[(i + 1) + 1]
                BY <1>4, <2>2
            <4>2. i + 1 \in 1..Len(v.stack) - 1
                BY <1>4, <2>2
            <4> QED BY <4>1, <4>2, <1>0
        <3> QED BY <3>1, <3>2 DEF Grounded
    <2>4. t[1] = v.stack[2] /\ t[1] \in Below(v.stack[1])
        <3>1. 1 \in 1..Len(v.stack) - 1 /\ 1 \in 1..Len(t)
            BY <2>2
        <3>2. v.stack[1 + 1] \in Below(v.stack[1]) /\ t[1] = v.stack[1 + 1]
            BY <3>1, <1>0, <1>4
        <3> QED BY <3>2
    <2>5. ASSUME ~CommandLineSends
          PROVE  /\ OneOverCommand(t) /\ HasStarts(w)
                 /\ v.stack[1] \notin {"completion", "ex"} => t[1] = "command"
        <3>1. OneOverCommand(v.stack) /\ HasStarts(v)
            BY <2>5 DEF Sound
        <3>2. \A i \in 2..Len(t) : t[i] = "command"
            <4> TAKE i \in 2..Len(t)
            <4>1. i + 1 \in 2..Len(v.stack) /\ i + 1 # 2 /\ i \in 1..Len(t)
                BY <1>4, <2>2, <1>0
            <4>2. v.stack[i + 1] = "command"
                <5> DEFINE s == v.stack
                           j == i + 1
                <5>1. OneOverCommand(s) /\ j \in 2..Len(s) /\ j # 2
                    BY <3>1, <4>1
                <5> HIDE DEF s, j
                <5>2. s[j] = "command"
                    BY <5>1 DEF OneOverCommand
                <5> QED BY <5>2 DEF s, j
            <4>3. t[i] = v.stack[i + 1]
                BY <1>4, <2>2, <4>1
            <4> QED BY <4>2, <4>3
        <3>3. t[1] # "command" =>
                << v.stack[1], t[1] >> \in {<<"completion", "insert">>} \union ({"ex"} \X VisualMode)
            <4>1. 2 \in 2..Len(v.stack)
                BY <2>2
            <4> QED BY <4>1, <3>1, <2>4 DEF OneOverCommand
        <3>4. HasStarts(w)
            <4>1. SUFFICES ASSUME NEW m \in VisualMode, NEW i \in DOMAIN t, t[i] = m
                           PROVE  w.start[m] # NoStart
                BY <1>5 DEF HasStarts
            <4>2. i = 1
                BY <4>1, <3>2, <1>4, <2>2 DEF VisualMode
            <4>3. v.stack[1] = "ex" /\ m # v.stack[1]
                BY <4>1, <4>2, <3>3 DEF VisualMode
            <4>4. v.start[m] # NoStart
                <5>1. 2 \in DOMAIN v.stack /\ v.stack[2] = m
                    BY <4>1, <4>2, <2>4, <1>4, <2>2, <1>0
                <5> QED BY <5>1, <3>1 DEF HasStarts
            <4> QED BY <4>3, <4>4, <1>3, <1>5
        <3> QED BY <3>2, <3>3, <3>4 DEF OneOverCommand
    <2> QED BY <1>1, <1>5, <1>7, <2>1, <2>3, <2>4, <2>5 DEF Sound
<1> QED BY <1>6, <1>7

(* A view with the same modes and no start less is as sound: cursor, keys  *)
(* and command line do not matter.                                         *)
LEMMA SameStackSound ==
    ASSUME NEW v, Sound(v), NEW w \in View, w.stack = v.stack,
           \A m \in VisualMode : v.start[m] # NoStart => w.start[m] # NoStart
    PROVE  Sound(w)
<1>1. HasStarts(v) => HasStarts(w)
    <2>1. SUFFICES ASSUME HasStarts(v), NEW m \in VisualMode, NEW i \in DOMAIN v.stack, v.stack[i] = m
                   PROVE  w.start[m] # NoStart
        BY DEF HasStarts
    <2>2. v.start[m] # NoStart
        BY <2>1 DEF HasStarts
    <2> QED BY <2>2
<1> QED BY <1>1 DEF Sound

(* A movement keeps the stack and the keys: a visual mode in front takes   *)
(* it up with the start it has.                                            *)
LEMMA MovedSound ==
    ASSUME NEW v, Sound(v), NEW column \in Column
    PROVE  /\ Sound(MovedTo(v, column))
           /\ MovedTo(v, column).stack = v.stack
           /\ MovedTo(v, column).inputBuffer = v.inputBuffer
           /\ MovedTo(v, column).cursor \in Column
<1> DEFINE mode == Head(v.stack)
           w == [v EXCEPT !.cursor = column]
<1>1. v \in View /\ MaxColumn \in Nat
    BY InputAssumption DEF Sound
<1>2. w \in View /\ w.stack = v.stack /\ w.inputBuffer = v.inputBuffer /\ w.start = v.start
    BY <1>1 DEF View
<1>3. MovedTo(v, column) = IF mode \in VisualMode /\ v.start[mode] = NoStart
                           THEN [w EXCEPT !.start[mode] = 0] ELSE w
    BY Zenon DEF MovedTo
<1> HIDE DEF w, mode
<1>4. CASE mode \in VisualMode /\ v.start[mode] = NoStart
    <2> DEFINE u == [w EXCEPT !.start[mode] = 0]
    <2>1. MovedTo(v, column) = u
        BY <1>3, <1>4
    <2>2. w.start \in [VisualMode -> Column \union {NoStart}] /\ 0 \in Column /\ 0 # NoStart
        BY <1>1, <1>2 DEF View, Column, NoStart
    <2>3. [w.start EXCEPT ![mode] = 0] \in [VisualMode -> Column \union {NoStart}]
        BY <2>2
    <2>4. u \in View /\ u.stack = v.stack /\ u.inputBuffer = v.inputBuffer
          /\ u.start = [w.start EXCEPT ![mode] = 0]
        BY <1>2, <2>3 DEF View
    <2>5. \A m \in VisualMode : v.start[m] # NoStart => u.start[m] # NoStart
        BY <2>4, <1>2, <2>2
    <2> HIDE DEF u
    <2>6. Sound(u)
        BY <2>4, <2>5, SameStackSound
    <2> QED BY <2>1, <2>4, <2>6 DEF View
<1>5. CASE ~(mode \in VisualMode /\ v.start[mode] = NoStart)
    <2>1. MovedTo(v, column) = w
        BY <1>3, <1>5
    <2>2. Sound(w)
        BY <1>2, SameStackSound
    <2> QED BY <2>1, <2>2, <1>2 DEF View
<1> QED BY <1>4, <1>5

(* purgeInputBuffer touches only the keys.                                 *)
LEMMA PurgedSound ==
    ASSUME NEW v, Sound(v)
    PROVE  Sound(Purged(v)) /\ Purged(v).stack = v.stack /\ Purged(v).inputBuffer = <<>>
<1>1. v \in View /\ <<>> \in Seq(Key)
    BY EmptySeq DEF Sound
<1>2. Purged(v) \in View /\ Purged(v).stack = v.stack /\ Purged(v).start = v.start
      /\ Purged(v).inputBuffer = <<>>
    BY <1>1 DEF Purged, View
<1> QED BY <1>2, SameStackSound

(* change(mode), a pop and a push, keeps the stack sound when the new mode *)
(* is entered from whatever the old one is.                                *)
LEMMA ChangeSound ==
    ASSUME NEW v, Sound(v), NEW leaveMe \in BOOLEAN, NEW mode \in Mode,
           Below(v.stack[1]) \subseteq Below(mode),
           ~CommandLineSends => v.stack[1] \notin {"completion", "ex"}
    PROVE  /\ Sound(Change(v, mode, leaveMe))
           /\ Change(v, mode, leaveMe).stack[1] = mode
           /\ Change(v, mode, leaveMe).inputBuffer = <<>>
<1> DEFINE w == Pop(v, leaveMe)
<1>1. Sound(w) /\ w.inputBuffer = <<>> /\ w.stack[1] \in Below(mode)
      /\ (~CommandLineSends => w.stack[1] = "command")
    BY PopSound
<1>2. Change(v, mode, leaveMe) = Push(w, mode)
    BY Zenon DEF Change
<1> HIDE DEF w
<1> QED BY <1>1, <1>2, PushSound

(* pop(command) always finds command mode: no mode is left over, whatever  *)
(* there was above it.                                                     *)
LEMMA PopToSound ==
    ASSUME NEW v, Sound(v)
    PROVE  /\ Sound(PopTo(v, "command"))
           /\ PopTo(v, "command").stack[1] = "command"
           /\ PopTo(v, "command").inputBuffer = <<>>
<1> DEFINE at == FirstPlace(v.stack, "command")
           left == Leave(v, { v.stack[i] : i \in 1..at - 1 })
           t == SubSeq(left.stack, at, Len(left.stack))
           w == Purged([left EXCEPT !.stack = t])
<1>1. PopTo(v, "command") = Refilled(w)
    BY Zenon DEF PopTo
<1>2. /\ v.stack \in Seq(Mode) /\ Len(v.stack) \in Nat \ {0}
      /\ \A i \in 1..Len(v.stack) : v.stack[i] \in Mode
      /\ v.stack[Len(v.stack)] = "command"
      /\ \A i \in 1..Len(v.stack) - 1 : v.stack[i + 1] \in Below(v.stack[i])
    BY StackFacts
<1>3. /\ at \in 1..Len(v.stack) + 1
      /\ at <= Len(v.stack) => v.stack[at] = "command"
      /\ \A j \in 1..at - 1 : v.stack[j] # "command"
    BY <1>2, FirstPlaceType
<1>4. at \in 1..Len(v.stack) /\ v.stack[at] = "command"
    BY <1>2, <1>3
<1>5. v \in View
    BY DEF Sound
<1>6. left \in View /\ left.stack = v.stack
    BY <1>5, LeaveType
<1> HIDE DEF at, left
<1>7. /\ t \in Seq(Mode) /\ Len(t) = Len(v.stack) - at + 1
      /\ \A i \in 1..Len(t) : t[i] = v.stack[at + i - 1]
    <2>1. \A i \in at..Len(v.stack) : v.stack[i] \in Mode
        BY <1>2, <1>4
    <2>2. at \in Int /\ Len(v.stack) \in Int /\ at <= Len(v.stack)
        BY <1>2, <1>4
    <2>3. /\ SubSeq(v.stack, at, Len(v.stack)) \in Seq(Mode)
          /\ Len(SubSeq(v.stack, at, Len(v.stack))) = Len(v.stack) - at + 1
          /\ \A i \in 1..Len(v.stack) - at + 1 : SubSeq(v.stack, at, Len(v.stack))[i] = v.stack[at + i - 1]
        BY <2>1, <2>2, SubSeqProperties
    <2> QED BY <2>3, <1>6
<1> HIDE DEF t
<1>8. Len(t) \in Nat \ {0} /\ t[1] = "command" /\ t # <<>>
    <2>1. Len(t) \in Nat \ {0}
        BY <1>2, <1>4, <1>7
    <2>2. 1 \in 1..Len(t) /\ at + 1 - 1 = at
        BY <2>1, <1>4
    <2>3. t[1] = v.stack[at + 1 - 1]
        BY <2>2, <1>7
    <2> QED BY <2>1, <2>2, <2>3, <1>4, EmptySeq
<1>9. w \in View /\ w.stack = t /\ w.inputBuffer = <<>>
    BY <1>6, <1>7, EmptySeq DEF View, Purged
<1> HIDE DEF w
<1>10. Refilled(w) = w
    BY <1>8, <1>9 DEF Refilled
<1>11. Grounded(t)
    <2>1. Last(t) = "command"
        <3>1. Len(t) \in 1..Len(t) /\ at + Len(t) - 1 = Len(v.stack)
            BY <1>2, <1>4, <1>7, <1>8
        <3>2. t[Len(t)] = v.stack[at + Len(t) - 1]
            BY <3>1, <1>7
        <3> QED BY <3>1, <3>2, <1>2 DEF Last
    <2>2. ASSUME NEW i \in 1..Len(t) - 1 PROVE t[i + 1] \in Below(t[i])
        <3>1. i \in 1..Len(t) /\ i + 1 \in 1..Len(t)
            BY <1>8
        <3>2. t[i] = v.stack[at + i - 1] /\ t[i + 1] = v.stack[at + (i + 1) - 1]
            BY <3>1, <1>7
        <3>3. at + i - 1 \in 1..Len(v.stack) - 1 /\ at + (i + 1) - 1 = (at + i - 1) + 1
            BY <1>2, <1>4, <1>7, <1>8
        <3> QED BY <3>2, <3>3, <1>2
    <2> QED BY <2>1, <2>2 DEF Grounded
<1>12. ASSUME ~CommandLineSends PROVE OneOverCommand(t) /\ HasStarts(w)
    <2>1. OneOverCommand(v.stack)
        BY <1>12 DEF Sound
    <2>2. ASSUME NEW i \in 1..Len(t) PROVE t[i] = "command"
        <3>1. at + i - 1 \in 1..Len(v.stack) /\ at + i - 1 >= at /\ t[i] = v.stack[at + i - 1]
            BY <1>2, <1>4, <1>7
        <3>2. CASE at + i - 1 = at
            BY <3>1, <3>2, <1>4
        <3>3. CASE at + i - 1 > at
            <4>1. v.stack[at + i - 1] # "command" => at + i - 1 = 2 /\ v.stack[1] \in {"completion", "ex"}
                BY <3>1, <3>3, <2>1, <1>4 DEF OneOverCommand
            <4>2. at + i - 1 = 2 => at = 1
                BY <3>3, <1>4
            <4> QED BY <3>1, <4>1, <4>2, <1>4
        <3> QED BY <3>1, <3>2, <3>3, <1>4
    <2> QED BY <2>2, <1>8, <1>9, <1>7 DEF OneOverCommand, HasStarts, VisualMode
<1> QED BY <1>1, <1>8, <1>9, <1>10, <1>11, <1>12 DEF Sound
-----------------------------------------------------------------------------
(* Replacing keys by keys gives keys. The text is replaced from its end to *)
(* its beginning, so this is an induction over its length.                 *)
LEMMA ReplacedType ==
    ASSUME NEW text \in Seq(Key), NEW from \in Seq(Key), NEW to \in Seq(Key), from # <<>>
    PROVE  Replaced(text, from, to) \in Seq(Key)
<1> DEFINE N == Len(text)
           n == Len(from)
           Found(i) == i + n - 1 <= N /\ SubSeq(text, i, i + n - 1) = from
           Body(f, i) == IF i > N THEN <<>>
                         ELSE IF Found(i) THEN to \o f[i + n] ELSE <<text[i]>> \o f[i + 1]
           rest == CHOOSE f : f = [i \in 1..N + 1 |-> Body(f, i)]
<1>1. N \in Nat /\ n \in Nat \ {0} /\ \A i \in 1..N : text[i] \in Key
    BY EmptySeq, ElementOfSeq
<1>2. Replaced(text, from, to) = rest[1]
    BY DEF Replaced
<1> HIDE DEF N, n, Found, rest
<1>3. ASSUME NEW i \in 1..N + 1, NEW f, \A j \in i + 1..N + 1 : f[j] \in Seq(Key)
      PROVE  Body(f, i) \in Seq(Key)
    <2>1. CASE i > N
        BY <2>1
    <2>2. CASE i <= N /\ Found(i)
        <3>1. i + n \in i + 1..N + 1
            BY <2>2, <1>1 DEF Found
        <3> QED BY <2>2, <3>1, <1>3, ConcatProperties
    <2>3. CASE i <= N /\ ~Found(i)
        <3>1. i + 1 \in i + 1..N + 1 /\ <<text[i]>> \in Seq(Key)
            BY <2>3, <1>1
        <3> QED BY <2>3, <3>1, <1>3, ConcatProperties
    <2> QED BY <2>1, <2>2, <2>3, <1>1
<1>4. ASSUME NEW i \in 1..N + 1, NEW f, NEW g, \A j \in i + 1..N + 1 : f[j] = g[j]
      PROVE  Body(f, i) = Body(g, i)
    <2>1. CASE i > N
        BY <2>1
    <2>2. CASE i <= N /\ Found(i)
        <3>1. i + n \in i + 1..N + 1
            BY <2>2, <1>1 DEF Found
        <3> QED BY <2>2, <3>1, <1>4
    <2>3. CASE i <= N /\ ~Found(i)
        <3>1. i + 1 \in i + 1..N + 1
            BY <2>3, <1>1
        <3> QED BY <2>3, <3>1, <1>4
    <2> QED BY <2>1, <2>2, <2>3, <1>1
<1> HIDE DEF Body
<1> DEFINE From(k) == (N + 1) - k .. N + 1
           Solved == { k \in Nat : k <= N => \E f \in [From(k) -> Seq(Key)] :
                                              \A i \in From(k) : f[i] = Body(f, i) }
<1>5. N \in Solved
    <2>1. 0 \in Solved
        <3> DEFINE f == [i \in From(0) |-> <<>>]
        <3>1. From(0) = {N + 1}
            BY <1>1
        <3>2. f \in [From(0) -> Seq(Key)] /\ f[N + 1] = <<>>
            BY <3>1, EmptySeq
        <3>3. Body(f, N + 1) = <<>>
            BY <1>1 DEF Body
        <3> QED BY <3>1, <3>2, <3>3
    <2>2. ASSUME NEW k \in Nat, k \in Solved PROVE k + 1 \in Solved
        <3>1. SUFFICES ASSUME k + 1 <= N
                       PROVE  \E f \in [From(k + 1) -> Seq(Key)] :
                                 \A i \in From(k + 1) : f[i] = Body(f, i)
            OBVIOUS
        <3>0. k <= N => \E f \in [From(k) -> Seq(Key)] : \A i \in From(k) : f[i] = Body(f, i)
            BY <2>2, Zenon
        <3>2. PICK f \in [From(k) -> Seq(Key)] : \A i \in From(k) : f[i] = Body(f, i)
            <4>1. k <= N
                BY <3>1, <1>1
            <4> QED BY <3>0, <4>1
        <3> DEFINE m == N - k
                   g == [i \in From(k + 1) |-> IF i = m THEN Body(f, m) ELSE f[i]]
        <3>3. m \in 1..N + 1 /\ From(k + 1) = {m} \union From(k) /\ m \notin From(k) /\ From(k) = m + 1..N + 1
            BY <3>1, <1>1
        <3>4. Body(f, m) \in Seq(Key)
            BY <3>3, <3>2, <1>3
        <3>5. g \in [From(k + 1) -> Seq(Key)] /\ g[m] = Body(f, m) /\ \A i \in From(k) : g[i] = f[i]
            BY <3>3, <3>4, <3>2
        <3> HIDE DEF g
        <3>6. ASSUME NEW i \in From(k + 1) PROVE g[i] = Body(g, i)
            <4>1. i \in 1..N + 1 /\ \A j \in i + 1..N + 1 : j \in From(k)
                BY <3>3, <1>1
            <4>2. Body(f, i) = Body(g, i)
                BY <4>1, <3>5, <1>4
            <4> QED BY <4>2, <3>2, <3>3, <3>5
        <3> QED BY <3>5, <3>6
    <2> HIDE DEF Solved
    <2>3. Nat \subseteq Solved
        BY <2>1, <2>2, SetInduction
    <2> QED BY <2>3, <1>1
<1>6. \A i \in 1..N + 1 : rest[i] = Body(rest, i)
    <2>1. PICK f \in [From(N) -> Seq(Key)] : \A i \in From(N) : f[i] = Body(f, i)
        <3>1. N <= N => \E f \in [From(N) -> Seq(Key)] : \A i \in From(N) : f[i] = Body(f, i)
            BY <1>5, Zenon
        <3>2. N <= N
            BY <1>1
        <3> QED BY <3>1, <3>2
    <2>2. From(N) = 1..N + 1
        BY <1>1
    <2>3. f = [i \in 1..N + 1 |-> Body(f, i)]
        BY <2>1, <2>2
    <2>4. rest = [i \in 1..N + 1 |-> Body(rest, i)]
        BY <2>3 DEF rest
    <2> QED BY <2>4
<1> DEFINE Typed == { k \in Nat : k <= N => \A i \in From(k) : rest[i] \in Seq(Key) }
<1>7. N \in Typed
    <2>1. 0 \in Typed
        <3>1. rest[N + 1] = Body(rest, N + 1) /\ From(0) = {N + 1}
            BY <1>1, <1>6
        <3>2. Body(rest, N + 1) = <<>>
            BY <1>1 DEF Body
        <3> QED BY <3>1, <3>2, EmptySeq
    <2>2. ASSUME NEW k \in Nat, k \in Typed PROVE k + 1 \in Typed
        <3>1. SUFFICES ASSUME k + 1 <= N PROVE \A i \in From(k + 1) : rest[i] \in Seq(Key)
            OBVIOUS
        <3>2. N - k \in 1..N + 1 /\ From(k + 1) = {N - k} \union From(k) /\ From(k) = (N - k) + 1..N + 1
            BY <3>1, <1>1
        <3>3. \A i \in From(k) : rest[i] \in Seq(Key)
            BY <3>1, <2>2, <1>1
        <3>4. Body(rest, N - k) \in Seq(Key)
            BY <3>2, <3>3, <1>3
        <3> QED BY <3>2, <3>3, <3>4, <1>6
    <2> HIDE DEF Typed
    <2>3. Nat \subseteq Typed
        BY <2>1, <2>2, SetInduction
    <2> QED BY <2>3, <1>1
<1>8. 1 \in From(N)
    BY <1>1
<1> QED BY <1>2, <1>7, <1>8, <1>1

(* What applying mappings yields, and tables that hold mappings only.      *)
FoundMapping == [text : Seq(Key), pending : BOOLEAN, noremap : BOOLEAN]
Tables == mappings \in [MapMode -> SUBSET Mapping] /\ \A m \in MapMode : \A e \in mappings[m] : IsMapping(e)

(* Of the mappings that match, one comes first in the order of the table   *)
(* (QMap).                                                                 *)
LEMMA FirstMapping ==
    ASSUME NEW matching \in SUBSET Mapping, matching # {},
           NEW first, first = CHOOSE e \in matching : \A f \in matching : Place(e) <= Place(f)
    PROVE  first \in matching /\ \A f \in matching : Place(first) <= Place(f)
<1> DEFINE Places == { Place(e) : e \in matching }
<1>1. KeyOrder \in Seq(Seq(Key)) /\ Len(KeyOrder) \in Nat
    BY InputAssumption, LenProperties
<1>2. ASSUME NEW e PROVE Place(e) \in 1..Len(KeyOrder) + 1
    BY <1>1, FirstPlaceType DEF Place
<1>3. Places \in SUBSET Nat /\ Places # {}
    BY <1>1, <1>2
<1>4. PICK n \in Places : \A m \in Places : n <= m
    BY <1>3, LeastNumber
<1>5. PICK e \in matching : Place(e) = n
    BY <1>4
<1>6. \A f \in matching : Place(e) <= Place(f)
    BY <1>4, <1>5
<1> QED BY <1>6, Zenon

(* Looking keys up in one table yields keys (YZMapping::applyMappings of   *)
(* one map).                                                               *)
LEMMA ApplyTableType ==
    ASSUME NEW found \in FoundMapping, NEW table \in SUBSET Mapping,
           \A e \in table : IsMapping(e)
    PROVE  ApplyTable(found, table) \in FoundMapping
<1> DEFINE matching == { e \in table : Occurs(e.from, found.text) }
           first == CHOOSE e \in matching : \A f \in matching : Place(e) <= Place(f)
<1>1. CASE matching = {}
    <2>1. ApplyTable(found, table) = [found EXCEPT !.pending = Pending(found.text, table)]
        BY <1>1, Zenon DEF ApplyTable
    <2>2. Pending(found.text, table) \in BOOLEAN
        BY DEF Pending
    <2> QED BY <2>1, <2>2 DEF FoundMapping
<1>2. CASE matching # {}
    <2>1. ApplyTable(found, table) =
            [text |-> Replaced(found.text, first.from, first.to),
             pending |-> Pending(found.text, Before(first, table)),
             noremap |-> found.noremap \/ first.noremap]
        BY <1>2, Zenon DEF ApplyTable
    <2>2. first \in matching
        BY <1>2, FirstMapping
    <2>3. first \in Mapping /\ first.from # <<>>
        BY <2>2 DEF IsMapping
    <2> HIDE DEF first
    <2>4. Replaced(found.text, first.from, first.to) \in Seq(Key)
        BY <2>3, ReplacedType DEF Mapping, FoundMapping
    <2>5. Pending(found.text, Before(first, table)) \in BOOLEAN
        BY DEF Pending
    <2>6. (found.noremap \/ first.noremap) \in BOOLEAN
        BY <2>3 DEF Mapping
    <2> QED BY <2>1, <2>4, <2>5, <2>6 DEF FoundMapping
<1> QED BY <1>1, <1>2

(* The same for the table of a mode that may not be asked at all.          *)
LEMMA ApplyTableOfType ==
    ASSUME Tables, NEW mode \in MapMode, NEW found \in FoundMapping, NEW modes
    PROVE  ApplyTableOf(mode, found, modes) \in FoundMapping
<1>1. mappings[mode] \in SUBSET Mapping /\ \A e \in mappings[mode] : IsMapping(e)
    BY DEF Tables
<1> QED BY <1>1, ApplyTableType DEF ApplyTableOf

(* Looking keys up in all the tables, in turn, yields keys.                *)
LEMMA ApplyMappingsType ==
    ASSUME Tables, NEW text \in Seq(Key), NEW modes
    PROVE  ApplyMappings(text, modes) \in FoundMapping
<1> DEFINE none == [text |-> text, pending |-> FALSE, noremap |-> FALSE]
           normal == ApplyTableOf("normal", none, modes)
           pendingOp == ApplyTableOf("pendingOp", normal, modes)
           visual == ApplyTableOf("visual", pendingOp, modes)
           insert == ApplyTableOf("insert", visual, modes)
           cmdline == ApplyTableOf("cmdline", insert, modes)
<1>1. ApplyMappings(text, modes) = IF mNoremap THEN none ELSE cmdline
    BY Zenon DEF ApplyMappings
<1>2. none \in FoundMapping
    BY DEF FoundMapping
<1> HIDE DEF none
<1>3. {"normal", "pendingOp", "visual", "insert", "cmdline"} \subseteq MapMode
    BY DEF MapMode
<1>4. normal \in FoundMapping
    BY <1>2, <1>3, ApplyTableOfType
<1> HIDE DEF normal
<1>5. pendingOp \in FoundMapping
    BY <1>4, <1>3, ApplyTableOfType
<1> HIDE DEF pendingOp
<1>6. visual \in FoundMapping
    BY <1>5, <1>3, ApplyTableOfType
<1> HIDE DEF visual
<1>7. insert \in FoundMapping
    BY <1>6, <1>3, ApplyTableOfType
<1> HIDE DEF insert
<1>8. cmdline \in FoundMapping
    BY <1>7, <1>3, ApplyTableOfType
<1> QED BY <1>1, <1>2, <1>8

(* If the keys are those of one mode only, only its table is looked at.    *)
LEMMA ApplyOneTable ==
    ASSUME NEW text \in Seq(Key), NEW mode \in MapMode
    PROVE  ApplyMappings(text, {mode}) =
             IF mNoremap THEN [text |-> text, pending |-> FALSE, noremap |-> FALSE]
             ELSE ApplyTable([text |-> text, pending |-> FALSE, noremap |-> FALSE], mappings[mode])
<1> DEFINE none == [text |-> text, pending |-> FALSE, noremap |-> FALSE]
<1>1. none.pending = FALSE
    OBVIOUS
<1> HIDE DEF none
<1>2. ASSUME NEW m, m # mode, NEW found PROVE ApplyTableOf(m, found, {mode}) = found
    BY <1>2 DEF ApplyTableOf
<1>3. ApplyTableOf(mode, none, {mode}) = ApplyTable(none, mappings[mode])
    BY <1>1 DEF ApplyTableOf
<1>4. mode \in {"normal", "pendingOp", "visual", "insert", "cmdline"}
    BY DEF MapMode
<1>5. ApplyMappings(text, {mode}) =
        IF mNoremap THEN none
        ELSE ApplyTableOf("cmdline", ApplyTableOf("insert", ApplyTableOf("visual",
               ApplyTableOf("pendingOp", ApplyTableOf("normal", none, {mode}), {mode}), {mode}), {mode}), {mode})
    BY Zenon DEF ApplyMappings, none
<1>6. CASE mode = "normal"
    BY <1>2, <1>3, <1>5, <1>6 DEF none
<1>7. CASE mode = "pendingOp"
    BY <1>2, <1>3, <1>5, <1>7 DEF none
<1>8. CASE mode = "visual"
    BY <1>2, <1>3, <1>5, <1>8 DEF none
<1>9. CASE mode = "insert"
    BY <1>2, <1>3, <1>5, <1>9 DEF none
<1>10. CASE mode = "cmdline"
    BY <1>2, <1>3, <1>5, <1>10 DEF none
<1> QED BY <1>4, <1>6, <1>7, <1>8, <1>9, <1>10

(* Keys that are mapped and not longer than one are one.                   *)
LEMMA OneKey ==
    ASSUME NEW from \in Seq(Key), from # <<>>, ~(Len(from) > 1)
    PROVE  Len(from) = 1
<1> DEFINE n == Len(from)
<1>1. n \in Nat /\ n # 0 /\ ~(n > 1)
    BY EmptySeq
<1> HIDE DEF n
<1>2. n = 1
    BY <1>1
<1> QED BY <1>2 DEF n

(* Without a mapping nothing is replaced.                                  *)
LEMMA EmptyTable ==
    ASSUME NEW text \in Seq(Key), NEW mode \in MapMode, mappings[mode] = {}
    PROVE  ApplyMappings(text, {mode}).text = text
<1> DEFINE none == [text |-> text, pending |-> FALSE, noremap |-> FALSE]
<1>1. { e \in mappings[mode] : Occurs(e.from, none.text) } = {}
    OBVIOUS
<1>2. ApplyTable(none, mappings[mode]) = [none EXCEPT !.pending = Pending(none.text, mappings[mode])]
    BY <1>1, Zenon DEF ApplyTable
<1>3. ApplyTable(none, mappings[mode]).text = text
    BY <1>2
<1>4. ApplyMappings(text, {mode}) = IF mNoremap THEN none ELSE ApplyTable(none, mappings[mode])
    BY ApplyOneTable
<1>5. none.text = text
    OBVIOUS
<1> HIDE DEF none
<1> QED BY <1>3, <1>4, <1>5

(* In a table of mappings for single keys no key waits for another.        *)
LEMMA OneKeyIsNotPending ==
    ASSUME Tables, NEW k \in Key, NEW mode \in MapMode,
           \A e \in mappings[mode] : Len(e.from) = 1
    PROVE  ApplyMappings(<<k>>, {mode}).pending = FALSE
<1> DEFINE text == <<k>>
           none == [text |-> text, pending |-> FALSE, noremap |-> FALSE]
           table == mappings[mode]
           matching == { e \in table : Occurs(e.from, none.text) }
           first == CHOOSE e \in matching : \A f \in matching : Place(e) <= Place(f)
<1>1. text \in Seq(Key) /\ Len(text) = 1 /\ text[1] = k /\ none.text = text
    OBVIOUS
<1>6. ApplyMappings(text, {mode}) = IF mNoremap THEN none ELSE ApplyTable(none, table)
    BY <1>1, ApplyOneTable
<1>7. none.pending = FALSE
    OBVIOUS
<1>2. table \in SUBSET Mapping
    BY DEF Tables
<1>3. ASSUME NEW e \in table, IsPrefix(text, e.from) PROVE e \in matching
    <2>1. e.from \in Seq(Key) /\ Len(e.from) = 1
        BY <1>2 DEF Mapping
    <2>2. SubSeq(text, 1, 1) = SubSeq(e.from, 1, 1)
        BY <1>3, <1>1 DEF IsPrefix
    <2>3. SubSeq(text, 1, 1) = text /\ SubSeq(e.from, 1, 1) = e.from
        BY <1>1, <2>1, SubSeqFull
    <2>4. Occurs(e.from, text)
        BY <2>1, <2>2, <2>3, <1>1 DEF Occurs
    <2> QED BY <2>4, <1>1
<1>4. CASE matching = {}
    <2>1. ApplyTable(none, table) = [none EXCEPT !.pending = Pending(none.text, table)]
        BY <1>4, Zenon DEF ApplyTable
    <2>2. ~Pending(text, table)
        BY <1>3, <1>4 DEF Pending
    <2>3. ApplyTable(none, table).pending = FALSE
        BY <2>1, <2>2, <1>1
    <2> HIDE DEF none
    <2> QED BY <2>3, <1>6, <1>7
<1>5. CASE matching # {}
    <2>1. ApplyTable(none, table) =
            [text |-> Replaced(none.text, first.from, first.to),
             pending |-> Pending(none.text, Before(first, table)),
             noremap |-> none.noremap \/ first.noremap]
        BY <1>5, Zenon DEF ApplyTable
    <2>2. \A f \in matching : Place(first) <= Place(f)
        <3>1. matching \in SUBSET Mapping
            BY <1>2
        <3> HIDE DEF matching
        <3> QED BY <3>1, <1>5, FirstMapping
    <2> HIDE DEF first
    <2>3. first \in matching
        <3>1. matching \in SUBSET Mapping
            BY <1>2
        <3> HIDE DEF matching
        <3> QED BY <3>1, <1>5, FirstMapping DEF first
    <2>4. \A e \in matching : Place(e) \in Int
        <3>1. KeyOrder \in Seq(Seq(Key)) /\ Len(KeyOrder) \in Nat
            BY InputAssumption, LenProperties
        <3> QED BY <3>1, FirstPlaceType DEF Place
    <2>5. ~Pending(text, Before(first, table))
        <3>1. \A e \in Before(first, table) : e \in table /\ Place(e) < Place(first)
            BY DEF Before
        <3>2. \A e \in matching : ~(Place(e) < Place(first))
            BY <2>2, <2>3, <2>4
        <3> QED BY <3>1, <3>2, <1>3 DEF Pending
    <2>6. ApplyTable(none, table).pending = FALSE
        BY <2>1, <2>5, <1>1
    <2> HIDE DEF none
    <2> QED BY <2>6, <1>6, <1>7
<1> QED BY <1>4, <1>5
-----------------------------------------------------------------------------
(* sendMultipleKeys leaves a command line before it sends: the stack stays *)
(* sound where that is known to happen over command mode, or the theorem   *)
(* does not speak of it.                                                   *)
LEMMA BeginSound ==
    ASSUME NEW v, Sound(v), ~CommandLineSends => v.stack[1] \notin CmdlineMode
    PROVE  /\ Sound(BeginKeys(v)) /\ BeginKeys(v).stack[1] \notin CmdlineMode
           /\ v.stack[1] \in CmdlineMode
                => BeginKeys(v).stack[1] = "command" /\ BeginKeys(v).inputBuffer = <<>>
           /\ v.stack[1] \notin CmdlineMode => BeginKeys(v) = v
<1>1. BeginKeys(v) = IF v.stack[1] \in CmdlineMode THEN Change(v, "command", TRUE) ELSE v
    BY StackFacts DEF BeginKeys
<1>2. CASE v.stack[1] \in CmdlineMode
    <2>1. Below(v.stack[1]) \subseteq Below("command")
        BY <1>2 DEF CmdlineMode, Below
    <2>2. CommandLineSends
        BY <1>2
    <2>3. "command" \in Mode /\ "command" \notin CmdlineMode
        BY DEF Mode, CmdlineMode
    <2>4. /\ Sound(Change(v, "command", TRUE))
          /\ Change(v, "command", TRUE).stack[1] = "command"
          /\ Change(v, "command", TRUE).inputBuffer = <<>>
        BY <2>1, <2>2, <2>3, ChangeSound
    <2> QED BY <1>1, <1>2, <2>3, <2>4, Zenon
<1>3. CASE v.stack[1] \notin CmdlineMode
    BY <1>1, <1>3
<1> QED BY <1>2, <1>3

(* A call put on the stack of calls is the innermost, and the others are   *)
(* what they were.                                                         *)
LEMMA Calls ==
    ASSUME NEW f \in Frame, NEW calls \in Seq(Frame)
    PROVE  /\ << f >> \o calls \in Seq(Frame) /\ << f >> \o calls # <<>>
           /\ Head(<< f >> \o calls) = f /\ Tail(<< f >> \o calls) = calls
           /\ \A ats : Among(<< f >> \o calls, ats) <=> f.at \in ats \/ Among(calls, ats)
<1> DEFINE all == << f >> \o calls
<1>1. /\ all \in Seq(Frame) /\ Len(all) = Len(calls) + 1 /\ Len(calls) \in Nat
      /\ all[1] = f /\ \A i \in 1..Len(calls) : all[i + 1] = calls[i]
    BY ConcatProperties, LenProperties
<1> HIDE DEF all
<1>2. all # <<>> /\ Head(all) = f
    BY <1>1, EmptySeq
<1>3. Tail(all) = calls
    <2>1. Tail(all) \in Seq(Frame) /\ Len(Tail(all)) = Len(calls)
          /\ \A i \in 1..Len(Tail(all)) : Tail(all)[i] = all[i + 1]
        BY <1>1, <1>2, HeadTailProperties
    <2> QED BY <2>1, <1>1, SeqEqual
<1>4. ASSUME NEW ats PROVE Among(all, ats) <=> f.at \in ats \/ Among(calls, ats)
    <2>1. DOMAIN all = 1..Len(calls) + 1 /\ DOMAIN calls = 1..Len(calls)
        BY <1>1, LenProperties
    <2>2. ASSUME Among(all, ats) PROVE f.at \in ats \/ Among(calls, ats)
        <3>1. PICK i \in 1..Len(calls) + 1 : all[i].at \in ats
            BY <2>1, <2>2 DEF Among
        <3>2. CASE i = 1
            BY <3>1, <3>2, <1>1
        <3>3. CASE i # 1
            <4>1. i - 1 \in 1..Len(calls) /\ all[(i - 1) + 1] = calls[i - 1] /\ (i - 1) + 1 = i
                BY <3>3, <1>1
            <4> QED BY <4>1, <3>1, <2>1 DEF Among
        <3> QED BY <3>2, <3>3
    <2>3. ASSUME f.at \in ats PROVE Among(all, ats)
        <3>1. 1 \in DOMAIN all
            BY <1>1, <2>1
        <3> QED BY <3>1, <2>3, <1>1 DEF Among
    <2>4. ASSUME Among(calls, ats) PROVE Among(all, ats)
        <3>1. PICK i \in 1..Len(calls) : calls[i].at \in ats
            BY <2>1, <2>4 DEF Among
        <3>2. i + 1 \in DOMAIN all /\ all[i + 1] = calls[i]
            BY <3>1, <2>1, <1>1
        <3> QED BY <3>1, <3>2 DEF Among
    <2> QED BY <2>2, <2>3, <2>4
<1> QED BY <1>1, <1>2, <1>3, <1>4 DEF all

(* A stack of calls is its innermost call and the others.                  *)
LEMMA Innermost ==
    ASSUME NEW calls \in Seq(Frame), calls # <<>>
    PROVE  /\ Head(calls) \in Frame /\ Tail(calls) \in Seq(Frame)
           /\ \A ats : Among(calls, ats) <=> Head(calls).at \in ats \/ Among(Tail(calls), ats)
<1>1. Head(calls) \in Frame /\ Tail(calls) \in Seq(Frame)
    BY HeadTailProperties
<1>2. calls = << Head(calls) >> \o Tail(calls)
    <2>1. Len(calls) \in Nat \ {0} /\ calls[1] = Head(calls) /\ SubSeq(calls, 1, Len(calls)) = calls
        BY EmptySeq, SubSeqFull
    <2>2. SubSeq(calls, 1, Len(calls)) = << calls[1] >> \o SubSeq(calls, 2, Len(calls))
        <3>1. 1 \in 1..Len(calls) /\ Len(calls) \in 1..Len(calls)
            BY <2>1
        <3> QED BY <3>1, SubSeqRecursiveFirst
    <2> QED BY <2>1, <2>2, TailIsSubSeq
<1> DEFINE f == Head(calls)
           rest == Tail(calls)
<1> HIDE DEF f, rest
<1>3. f \in Frame /\ rest \in Seq(Frame) /\ calls = << f >> \o rest
    BY <1>1, <1>2 DEF f, rest
<1>4. \A ats : Among(<< f >> \o rest, ats) <=> f.at \in ats \/ Among(rest, ats)
    BY <1>3, Calls
<1> QED BY <1>1, <1>3, <1>4, Zenon DEF f, rest

(* What most steps need of the invariant.                                  *)
LEMMA InvTypes ==
    ASSUME Inv
    PROVE  /\ Sound(view) /\ Tables
           /\ view.inputBuffer \in Seq(Key) /\ FrontMode = view.stack[1] /\ FrontMode \in Mode
           /\ frames \in Seq(Frame)
           /\ frames # <<>> => /\ Head(frames) \in Frame /\ Tail(frames) \in Seq(Frame)
                               /\ ~Among(Tail(frames), {"exec"})
                               /\ \A ats : Among(frames, ats) <=> Head(frames).at \in ats \/ Among(Tail(frames), ats)
<1>1. Sound(view)
    BY DEF Inv, TypeOK, StackIsGrounded, CommandLineIsRead, Sound
<1>2. Tables
    BY DEF Inv, TypeOK, TablesAreSound, Tables
<1>3. view.inputBuffer \in Seq(Key)
    BY DEF Inv, TypeOK, View
<1>4. FrontMode = view.stack[1] /\ FrontMode \in Mode
    <2>1. Head(view.stack) = view.stack[1] /\ view.stack[1] \in Mode
        BY <1>1, StackFacts
    <2> QED BY <2>1 DEF FrontMode
<1>5. frames \in Seq(Frame)
    BY DEF Inv, TypeOK
<1>6. ASSUME frames # <<>>
      PROVE  /\ Head(frames) \in Frame /\ Tail(frames) \in Seq(Frame)
             /\ ~Among(Tail(frames), {"exec"})
             /\ \A ats : Among(frames, ats) <=> Head(frames).at \in ats \/ Among(Tail(frames), ats)
    <2>1. ~Among(Tail(frames), {"exec"})
        BY <1>6 DEF Inv, CallsAreSound, Idle
    <2> QED BY <2>1, <1>5, <1>6, Innermost
<1> QED BY <1>1, <1>2, <1>3, <1>4, <1>5, <1>6

(* The first half of YSession::sendKey keeps the invariant: a key is       *)
(* recorded, looked up and buffered, or replaced by the keys it is mapped  *)
(* to, which are sent by a call of their own. A mode that takes keys one   *)
(* by one gets it with an empty buffer and its own table only.             *)
LEMMA SendKeyKeeps ==
    ASSUME TypeOK, TablesAreSound, NEW v, Sound(v), NEW k \in Key,
           NEW callers \in Seq(Frame), ~Among(callers, {"exec"}),
           Among(callers, {"macro"}) /\ register = <<>> => recording,
           ~CommandLineSends /\ v.stack[1] \in CmdlineMode => mapMode \subseteq {"cmdline"},
           ~KeysWait /\ v.stack[1] \notin ReadsCommands
               => v.inputBuffer = <<>> /\ mapMode \subseteq {MapModeOf(v.stack[1])},
           SendKey(v, k, callers), mappings' = mappings
    PROVE  Inv'
<1> DEFINE mode == v.stack[1]
           modes == mapMode \union {MapModeOf(Head(v.stack))}
           fed == v.inputBuffer \o <<k>>
           found == ApplyMappings(fed, modes)
<1>1. /\ register' = IF ~recording THEN register
                     ELSE << (IF register = <<>> THEN <<>> ELSE register[1]) \o <<k>> >>
      /\ mNoremap' = found.noremap /\ recording' = recording
      /\ found.text # fed =>
            /\ view' = BeginKeys(Purged(v)) /\ mapMode' = {} /\ result' = "ok"
            /\ frames' = << KeysFrame(found.text) >> \o callers
      /\ found.text = fed =>
            /\ view' = [v EXCEPT !.inputBuffer = fed] /\ mapMode' = modes /\ result' = result
            /\ frames' = << ExecFrame(found.pending) >> \o callers
    BY Zenon DEF SendKey
<1>2. Tables
    BY DEF TypeOK, TablesAreSound, Tables
<1>3. /\ mode \in Mode /\ Head(v.stack) = mode /\ v \in View /\ v.inputBuffer \in Seq(Key)
      /\ fed \in Seq(Key) /\ Len(fed) = Len(v.inputBuffer) + 1 /\ Len(v.inputBuffer) \in Nat
    <2>1. mode \in Mode /\ Head(v.stack) = mode
        BY StackFacts
    <2>2. v \in View /\ v.inputBuffer \in Seq(Key)
        BY DEF Sound, View
    <2> QED BY <2>1, <2>2
<1>4. modes = mapMode \union {MapModeOf(mode)}
    BY <1>3
<1>5. MapModeOf(mode) \in MapMode
    BY <1>3 DEF MapModeOf, MapMode, Mode, VisualMode, CmdlineMode
<1>6. modes \subseteq MapMode
    BY <1>4, <1>5 DEF TypeOK
<1>7. found \in FoundMapping
    BY <1>2, <1>3, ApplyMappingsType
<1>8. found.text \in Seq(Key) /\ found.pending \in BOOLEAN /\ found.noremap \in BOOLEAN
    BY <1>7 DEF FoundMapping
<1>9. /\ register' \in Seq(Seq(Key)) /\ Len(register') <= 1
      /\ recording => register' # <<>> /\ register'[1] # <<>>
      /\ ~recording => register' = register
    <2>1. register \in Seq(Seq(Key)) /\ Len(register) <= 1 /\ recording \in BOOLEAN
        BY DEF TypeOK
    <2>2. CASE ~recording
        BY <2>1, <2>2, <1>1
    <2>3. CASE recording
        <3> DEFINE before == IF register = <<>> THEN <<>> ELSE register[1]
                   new == before \o <<k>>
        <3>1. register # <<>> => register[1] \in Seq(Key)
            BY <2>1, EmptySeq, ElementOfSeq
        <3>2. before \in Seq(Key)
            BY <3>1, EmptySeq
        <3> HIDE DEF before
        <3>3. new \in Seq(Key) /\ Len(new) = Len(before) + 1 /\ Len(before) \in Nat
            BY <3>2
        <3>4. new # <<>>
            BY <3>3, EmptySeq
        <3>5. register' = << new >>
            BY <1>1, <2>3 DEF before
        <3> HIDE DEF new
        <3> QED BY <3>3, <3>4, <3>5, <2>3
    <2> QED BY <2>1, <2>2, <2>3
<1>10. Among(callers, {"macro"}) /\ register' = <<>> => recording /\ FALSE
    BY <1>9
<1>11. recording' \in BOOLEAN /\ mNoremap' \in BOOLEAN /\ mappings' \in [MapMode -> SUBSET Mapping]
    BY <1>1, <1>8 DEF TypeOK
<1>12. TablesAreSound'
    BY DEF TablesAreSound
<1>13. CASE found.text # fed
    <2>1. ~CommandLineSends => mode \notin CmdlineMode
        <3>1. SUFFICES ASSUME ~CommandLineSends, mode \in CmdlineMode PROVE FALSE
            OBVIOUS
        <3>2. MapModeOf(mode) = "cmdline" /\ "cmdline" \in MapMode
            BY <3>1 DEF MapModeOf, CmdlineMode, VisualMode, MapMode
        <3>3. modes = {"cmdline"}
            BY <3>1, <3>2, <1>4
        <3>4. mappings["cmdline"] = {}
            BY <3>1 DEF TablesAreSound
        <3>5. ApplyMappings(fed, {"cmdline"}).text = fed
            BY <3>2, <3>4, <1>3, EmptyTable
        <3> QED BY <3>3, <3>5, <1>13
    <2> DEFINE p == Purged(v)
    <2>2. Sound(p) /\ p.stack = v.stack /\ p.inputBuffer = <<>>
        BY PurgedSound
    <2> HIDE DEF p
    <2>3. /\ Sound(BeginKeys(p)) /\ BeginKeys(p).stack[1] \notin CmdlineMode
          /\ BeginKeys(p).inputBuffer = <<>>
        <3>1. ~CommandLineSends => p.stack[1] \notin CmdlineMode
            BY <2>1, <2>2
        <3> QED BY <2>2, <3>1, BeginSound
    <2>4. view' = BeginKeys(p)
        BY <1>1, <1>13 DEF p
    <2>5. /\ Sound(view') /\ view'.stack[1] \notin CmdlineMode /\ view'.inputBuffer = <<>>
          /\ Head(view'.stack) = view'.stack[1]
        BY <2>3, <2>4, StackFacts
    <2> DEFINE f == KeysFrame(found.text)
    <2>6. f \in Frame /\ f.at = "keys"
        BY <1>8 DEF KeysFrame, Frame
    <2>7. frames' = << f >> \o callers /\ mapMode' = {} /\ result' = "ok"
        BY <1>1, <1>13
    <2> HIDE DEF f, found, fed, modes, mode
    <2>8. /\ frames' \in Seq(Frame) /\ frames' # <<>> /\ Head(frames') = f /\ Tail(frames') = callers
          /\ \A ats : Among(frames', ats) <=> f.at \in ats \/ Among(callers, ats)
        BY <2>6, <2>7, Calls
    <2>9. ~Executing'
        BY <2>6, <2>8 DEF Executing
    <2>10. TypeOK'
        BY <2>5, <2>7, <2>8, <1>9, <1>11 DEF TypeOK, Sound, CmdState
    <2>11. CallsAreSound'
        BY <2>6, <2>7, <2>8, <2>9, <1>10 DEF CallsAreSound, Idle
    <2>12. FrontMode' = view'.stack[1]
        BY <2>5 DEF FrontMode
    <2>13. ~CommandLineSends => CommandLineIsRead'
        BY <2>5, <2>12 DEF CommandLineIsRead, Sound
    <2>14. KeysAreRead'
        BY <2>5, <2>7, <2>9 DEF KeysAreRead
    <2>15. StackIsGrounded'
        BY <2>5 DEF StackIsGrounded, Sound
    <2> QED BY <2>10, <2>11, <2>13, <2>14, <2>15, <1>12 DEF Inv
<1>14. CASE found.text = fed
    <2> DEFINE f == ExecFrame(found.pending)
    <2>1. f \in Frame /\ f.at = "exec" /\ f.pending = found.pending
        BY <1>8 DEF ExecFrame, Frame
    <2>2. /\ view' = [v EXCEPT !.inputBuffer = fed] /\ mapMode' = modes /\ result' = result
          /\ frames' = << f >> \o callers
        BY <1>1, <1>14
    <2>3. Sound(view') /\ view'.stack = v.stack /\ view'.inputBuffer = fed
        <3>1. view' \in View /\ view'.stack = v.stack /\ view'.start = v.start /\ view'.inputBuffer = fed
            BY <2>2, <1>3 DEF View
        <3> QED BY <3>1, SameStackSound
    <2>4. FrontMode' = mode
        BY <2>3, <1>3 DEF FrontMode
    <2>5. fed # <<>>
        BY <1>3, EmptySeq
    <2>6. ~KeysWait /\ mode \notin ReadsCommands =>
            Len(fed) = 1 /\ mapMode' = {MapModeOf(mode)} /\ (mode # "intro" => ~found.pending)
        <3>1. SUFFICES ASSUME ~KeysWait, mode \notin ReadsCommands
                       PROVE  Len(fed) = 1 /\ mapMode' = {MapModeOf(mode)} /\ (mode # "intro" => ~found.pending)
            OBVIOUS
        <3>2. v.inputBuffer = <<>> /\ modes = {MapModeOf(mode)}
            BY <3>1, <1>4
        <3>3. fed = <<k>>
            BY <3>2, ConcatEmptySeq
        <3>4. ASSUME mode # "intro" PROVE ~found.pending
            <4>1. MapModeOf(mode) \in KeyTables
                BY <3>1, <3>4, <1>3 DEF MapModeOf, KeyTables, ReadsCommands, Mode, VisualMode, CmdlineMode
            <4>2. \A e \in mappings[MapModeOf(mode)] : Len(e.from) = 1
                BY <4>1, <3>1 DEF TablesAreSound
            <4>3. ApplyMappings(<<k>>, {MapModeOf(mode)}).pending = FALSE
                BY <4>2, <1>2, <1>5, OneKeyIsNotPending
            <4> QED BY <4>3, <3>2, <3>3
        <3> QED BY <3>2, <3>3, <3>4, <2>2
    <2>7. ~CommandLineSends /\ mode \in CmdlineMode => mapMode' \subseteq {"cmdline"}
        <3>1. mode \in CmdlineMode => MapModeOf(mode) = "cmdline"
            BY DEF MapModeOf, CmdlineMode, VisualMode
        <3> QED BY <3>1, <2>2, <1>4
    <2>8. mapMode' \subseteq MapMode
        BY <2>2, <1>6
    <2> HIDE DEF f, found, fed, modes, mode
    <2>9. /\ frames' \in Seq(Frame) /\ frames' # <<>> /\ Head(frames') = f /\ Tail(frames') = callers
          /\ \A ats : Among(frames', ats) <=> f.at \in ats \/ Among(callers, ats)
        BY <2>1, <2>2, Calls
    <2>10. Executing'
        BY <2>1, <2>9 DEF Executing, Idle
    <2>11. TypeOK'
        BY <2>2, <2>3, <2>8, <2>9, <1>9, <1>11 DEF TypeOK, Sound
    <2>12. CallsAreSound'
        BY <2>1, <2>3, <2>5, <2>9, <2>10, <1>1, <1>9, <1>10 DEF CallsAreSound, Idle
    <2>13. ~CommandLineSends => CommandLineIsRead'
        BY <2>3, <2>4, <2>7, <2>10 DEF CommandLineIsRead, Sound
    <2>14. ~KeysWait => KeysAreRead'
        BY <2>1, <2>3, <2>4, <2>6, <2>9, <2>10 DEF KeysAreRead
    <2>15. StackIsGrounded'
        BY <2>3 DEF StackIsGrounded, Sound
    <2> QED BY <2>11, <2>12, <2>13, <2>14, <2>15, <1>12 DEF Inv
<1> QED BY <1>13, <1>14

(* The second half, the end of YModePool::sendKey, keeps the invariant:    *)
(* the state a command returns decides whether its keys and tables stay    *)
(* for the next key. This is where a mode that was entered by a command    *)
(* that failed could see the keys of the one before.                       *)
LEMMA FinishKeeps ==
    ASSUME Inv, ~Idle, NEW v, Sound(v), NEW state \in CmdState, Finish(v, state),
           recording' \in BOOLEAN, register' \in Seq(Seq(Key)), Len(register') <= 1,
           mNoremap' = mNoremap, mappings' \in [MapMode -> SUBSET Mapping], TablesAreSound',
           Among(Tail(frames), {"macro"}) /\ register' = <<>> => recording' /\ state # "error",
           state \in {"operatorPending", "notYetValid"}
               => v.stack[1] \in ReadsCommands /\ v.inputBuffer # <<>>,
           ~CommandLineSends /\ v.stack[1] \in CmdlineMode => state # "error",
           ~KeysWait /\ state = "error" /\ Head(frames).pending =>
               /\ v.stack[1] \notin ReadsCommands => v.inputBuffer = <<>> /\ mapMode = {}
               /\ ~Among(Tail(frames), {"macro", "script"}) /\ v.inputBuffer = <<>> => mapMode = {}
    PROVE  Inv'
<1> DEFINE keep == state = "notYetValid" \/ (state = "error" /\ Head(frames).pending)
<1>1. /\ view' = IF keep \/ state = "operatorPending" THEN v ELSE Purged(v)
      /\ mapMode' = IF keep THEN mapMode
                    ELSE IF state = "operatorPending" THEN {"pendingOp"} ELSE {}
      /\ frames' = Tail(frames) /\ result' = state
    BY Zenon DEF Finish
<1>2. frames # <<>>
    BY DEF Idle
<1>3. frames' \in Seq(Frame) /\ ~Among(frames', {"exec"})
    BY <1>1, <1>2, InvTypes
<1>4. Sound(Purged(v)) /\ Purged(v).stack = v.stack /\ Purged(v).inputBuffer = <<>>
    BY PurgedSound
<1>5. Sound(view') /\ view'.stack = v.stack
    BY <1>1, <1>4
<1>6. FrontMode' = v.stack[1]
    <2>1. Head(v.stack) = v.stack[1]
        BY StackFacts
    <2> QED BY <1>5, <2>1 DEF FrontMode
<1>7. ~Executing' /\ (frames' # <<>> => ~Among(Tail(frames'), {"exec"}))
    <2>1. CASE frames' = <<>>
        BY <2>1 DEF Executing, Idle
    <2>2. CASE frames' # <<>>
        <3>1. \A ats : Among(frames', ats) <=> Head(frames').at \in ats \/ Among(Tail(frames'), ats)
            BY <1>3, <2>2, Innermost
        <3> QED BY <3>1, <1>3 DEF Executing
    <2> QED BY <2>1, <2>2
<1>8. mapMode' \subseteq MapMode
    <2>1. mapMode \subseteq MapMode /\ "pendingOp" \in MapMode
        BY DEF Inv, TypeOK, MapMode
    <2> QED BY <1>1, <2>1
<1>9. TypeOK'
    <2>1. mNoremap' \in BOOLEAN
        BY DEF Inv, TypeOK
    <2> QED BY <1>1, <1>3, <1>5, <1>8, <2>1 DEF TypeOK, Sound
<1>10. CallsAreSound'
    BY <1>1, <1>3, <1>4, <1>6, <1>7 DEF CallsAreSound, Idle
<1>11. ASSUME ~CommandLineSends PROVE CommandLineIsRead'
    <2>1. v.stack[1] \in CmdlineMode => mapMode' = {} /\ state # "error"
        BY <1>1, <1>11 DEF CmdlineMode, ReadsCommands, VisualMode
    <2> QED BY <2>1, <1>1, <1>5, <1>6, <1>7, <1>11 DEF CommandLineIsRead, Sound
<1>12. ASSUME ~KeysWait PROVE KeysAreRead'
    <2>1. CASE state \in {"notYetValid", "operatorPending"}
        BY <2>1, <1>1, <1>6, <1>7 DEF KeysAreRead
    <2>2. CASE state = "error" /\ Head(frames).pending
        BY <2>2, <1>1, <1>6, <1>7, <1>12 DEF KeysAreRead
    <2>3. CASE state \notin {"notYetValid", "operatorPending"} /\ ~(state = "error" /\ Head(frames).pending)
        <3>1. view'.inputBuffer = <<>> /\ mapMode' = {}
            BY <2>3, <1>1, <1>4
        <3> QED BY <3>1, <1>7 DEF KeysAreRead
    <2> QED BY <2>1, <2>2, <2>3
<1>13. StackIsGrounded'
    BY <1>5 DEF StackIsGrounded, Sound
<1> QED BY <1>9, <1>10, <1>11, <1>12, <1>13 DEF Inv

(* The same for a command that neither records nor maps.                   *)
LEMMA DoneKeeps ==
    ASSUME Inv, ~Idle, NEW v, Sound(v), NEW state \in CmdState, Done(v, state), mappings' = mappings,
           Executing \/ state # "error" \/ state = result,
           state \in {"operatorPending", "notYetValid"}
               => v.stack[1] \in ReadsCommands /\ v.inputBuffer # <<>>,
           ~CommandLineSends /\ v.stack[1] \in CmdlineMode => state # "error",
           ~KeysWait /\ state = "error" /\ Head(frames).pending =>
               /\ v.stack[1] \notin ReadsCommands => v.inputBuffer = <<>> /\ mapMode = {}
               /\ ~Among(Tail(frames), {"macro", "script"}) /\ v.inputBuffer = <<>> => mapMode = {}
    PROVE  Inv'
<1>1. Finish(v, state) /\ mNoremap' = mNoremap /\ recording' = recording /\ register' = register
    BY DEF Done
<1>2. TablesAreSound'
    BY DEF Inv, TablesAreSound
<1>3. /\ recording \in BOOLEAN /\ register \in Seq(Seq(Key)) /\ Len(register) <= 1
      /\ mappings' \in [MapMode -> SUBSET Mapping]
    BY DEF Inv, TypeOK
<1>4. Among(Tail(frames), {"macro"}) /\ register = <<>> => recording /\ state # "error"
    <2>1. Among(frames, {"macro"}) /\ register = <<>> => recording /\ result # "error"
        BY DEF Inv, CallsAreSound
    <2>2. Executing /\ recording => register # <<>>
        BY DEF Inv, CallsAreSound
    <2>3. Among(Tail(frames), {"macro"}) => Among(frames, {"macro"})
        BY InvTypes DEF Idle
    <2> QED BY <2>1, <2>2, <2>3
<1> QED BY <1>1, <1>2, <1>3, <1>4, FinishKeeps

(* The same for a command that returns CmdOk or CmdStopped: buffer and     *)
(* tables are reset, whatever the view.                                    *)
LEMMA DoneWellKeeps ==
    ASSUME Inv, ~Idle, NEW v, Sound(v), NEW state \in {"ok", "stopped"}, Done(v, state),
           mappings' = mappings
    PROVE  Inv'
<1>1. state \in CmdState /\ state \notin {"error", "operatorPending", "notYetValid"}
    BY DEF CmdState
<1> QED BY <1>1, DoneKeeps

(* A command that sends keys (a macro, a script) keeps the invariant: it   *)
(* waits in a call of its own, and the keys are sent from command mode.    *)
LEMMA SendKeysKeeps ==
    ASSUME Inv, ~Idle, NEW v, Sound(v), NEW frame \in Frame, frame.at \in {"macro", "script"},
           NEW keys \in Seq(Key), SendKeys(v, frame, keys), mappings' = mappings,
           frame.at = "macro" => register # <<>>,
           ~CommandLineSends => v.stack[1] \notin CmdlineMode,
           ~KeysWait /\ v.stack[1] \notin ReadsCommands \union CmdlineMode
               => v.inputBuffer = <<>> /\ mapMode = {}
    PROVE  Inv'
<1> DEFINE f == KeysFrame(keys)
           calls == << frame >> \o Tail(frames)
<1>1. /\ view' = BeginKeys(v) /\ frames' = << f, frame >> \o Tail(frames) /\ result' = "ok"
      /\ mapMode' = mapMode /\ mNoremap' = mNoremap /\ recording' = recording /\ register' = register
    BY Zenon DEF SendKeys
<1>2. frames # <<>> /\ Tail(frames) \in Seq(Frame) /\ ~Among(Tail(frames), {"exec"})
      /\ (Among(Tail(frames), {"macro"}) => Among(frames, {"macro"}))
    BY InvTypes DEF Idle
<1>3. /\ calls \in Seq(Frame) /\ \A ats : Among(calls, ats) <=> frame.at \in ats \/ Among(Tail(frames), ats)
    BY <1>2, Calls
<1>4. f \in Frame /\ f.at = "keys"
    BY DEF KeysFrame, Frame
<1>5. frames' = << f >> \o calls
    <2>1. << f, frame >> = << f >> \o << frame >>
        OBVIOUS
    <2>2. << f >> \in Seq(Frame) /\ << frame >> \in Seq(Frame)
        BY <1>4
    <2>3. << f, frame >> \o Tail(frames) = << f >> \o (<< frame >> \o Tail(frames))
        BY <2>1, <2>2, <1>2, ConcatAssociative
    <2> QED BY <2>3, <1>1
<1> HIDE DEF f, calls
<1>6. /\ frames' \in Seq(Frame) /\ frames' # <<>> /\ Head(frames') = f /\ Tail(frames') = calls
      /\ \A ats : Among(frames', ats) <=> f.at \in ats \/ Among(calls, ats)
    BY <1>3, <1>4, <1>5, Calls
<1>7. /\ Sound(view') /\ view'.stack[1] \notin CmdlineMode
      /\ v.stack[1] \notin CmdlineMode => view' = v
      /\ v.stack[1] \in CmdlineMode => view'.stack[1] = "command"
    BY <1>1, BeginSound
<1>8. FrontMode' = view'.stack[1]
    <2>1. Head(view'.stack) = view'.stack[1]
        BY <1>7, StackFacts
    <2> QED BY <2>1 DEF FrontMode
<1>9. ~Executing'
    BY <1>4, <1>6 DEF Executing
<1>10. TypeOK'
    BY <1>1, <1>6, <1>7 DEF Inv, TypeOK, Sound, CmdState
<1>11. CallsAreSound'
    <2>1. Among(frames', {"macro"}) /\ register = <<>> => recording
        <3>1. Among(frames, {"macro"}) /\ register = <<>> => recording
            BY DEF Inv, CallsAreSound
        <3> QED BY <3>1, <1>2, <1>3, <1>4, <1>6
    <2> QED BY <2>1, <1>1, <1>2, <1>3, <1>4, <1>6, <1>9 DEF CallsAreSound, Idle
<1>12. TablesAreSound'
    BY DEF Inv, TablesAreSound
<1>13. ~CommandLineSends => CommandLineIsRead'
    BY <1>7, <1>8 DEF CommandLineIsRead, Sound
<1>14. ~KeysWait => KeysAreRead'
    <2>1. Among(frames', {"macro", "script"})
        BY <1>3, <1>6
    <2>2. ~KeysWait /\ view'.stack[1] \notin ReadsCommands => view'.inputBuffer = <<>> /\ mapMode = {}
        BY <1>1, <1>7 DEF ReadsCommands
    <2> QED BY <2>1, <2>2, <1>1, <1>8, <1>9 DEF KeysAreRead
<1>15. StackIsGrounded'
    BY <1>7 DEF StackIsGrounded, Sound
<1> QED BY <1>10, <1>11, <1>12, <1>13, <1>14, <1>15 DEF Inv
-----------------------------------------------------------------------------
(* Placing the cursor keeps modes and keys.                                *)
LEMMA CursorSound ==
    ASSUME NEW v, Sound(v), NEW column \in Column
    PROVE  /\ Sound([v EXCEPT !.cursor = column])
           /\ [v EXCEPT !.cursor = column].stack = v.stack
           /\ [v EXCEPT !.cursor = column].inputBuffer = v.inputBuffer
<1> DEFINE w == [v EXCEPT !.cursor = column]
<1>1. w \in View /\ w.stack = v.stack /\ w.start = v.start /\ w.inputBuffer = v.inputBuffer
    BY DEF Sound, View
<1> HIDE DEF w
<1>2. Sound(w)
    BY <1>1, SameStackSound
<1> QED BY <1>1, <1>2 DEF w

(* Writing on the command line keeps modes and keys.                       *)
LEMMA CommandLineSound ==
    ASSUME NEW v, Sound(v)
    PROVE  /\ Sound([v EXCEPT !.commandLine = TRUE])
           /\ [v EXCEPT !.commandLine = TRUE].stack = v.stack
           /\ [v EXCEPT !.commandLine = TRUE].inputBuffer = v.inputBuffer
<1> DEFINE w == [v EXCEPT !.commandLine = TRUE]
<1>1. w \in View /\ w.stack = v.stack /\ w.start = v.start /\ w.inputBuffer = v.inputBuffer
    BY DEF Sound, View
<1> HIDE DEF w
<1>2. Sound(w)
    BY <1>1, SameStackSound
<1> QED BY <1>1, <1>2 DEF w

(* The columns of the line and where the cursor is.                        *)
LEMMA ColumnFacts ==
    /\ 0 \in Column /\ Column \subseteq Nat /\ Column \subseteq Int
    /\ \A v : Sound(v) => v.cursor \in Column /\ 0..v.cursor \subseteq Column
<1>1. MaxColumn \in Nat
    BY InputAssumption
<1>2. ASSUME NEW v, Sound(v) PROVE v.cursor \in Column
    BY <1>2 DEF Sound, View
<1> QED BY <1>1, <1>2 DEF Column

(* A step to the right keeps modes and keys, at the end of the line as     *)
(* well.                                                                   *)
LEMMA MovedRightSound ==
    ASSUME NEW v, Sound(v)
    PROVE  /\ Sound(MovedRight(v)) /\ MovedRight(v).stack = v.stack
           /\ MovedRight(v).inputBuffer = v.inputBuffer
<1> DEFINE column == IF v.cursor < MaxColumn THEN v.cursor + 1 ELSE MaxColumn
<1>1. column \in Column
    BY InputAssumption, ColumnFacts DEF Column
<1>2. MovedRight(v) = MovedTo(v, column)
    BY Zenon DEF MovedRight
<1> HIDE DEF column
<1> QED BY <1>1, <1>2, MovedSound

(* change() leads to insert mode from command mode and from the visual     *)
(* modes.                                                                  *)
LEMMA ChangeModeSound ==
    ASSUME NEW v, Sound(v), v.stack[1] \in ReadsCommands, NEW w \in ChangeMode(v)
    PROVE  Sound(w)
<1> DEFINE u == Change(v, "insert", TRUE)
<1>1. Below(v.stack[1]) \subseteq Below("insert") /\ v.stack[1] \notin {"completion", "ex"}
      /\ "insert" \in Mode
    BY DEF ReadsCommands, VisualMode, Below, Mode
<1>2. Sound(u)
    BY <1>1, ChangeSound
<1>3. w = u \/ w = MovedRight(u)
    BY DEF ChangeMode
<1> HIDE DEF u
<1> QED BY <1>2, <1>3, MovedRightSound

(* A mode that executes: the call is the innermost one, has its keys, and  *)
(* a mode that takes them one by one was looked up in its own table.       *)
LEMMA ExecutingFacts ==
    ASSUME Inv, NEW modes, Runs(modes)
    PROVE  /\ ~Idle /\ Executing /\ Sound(view) /\ FrontMode = view.stack[1]
           /\ view.stack[1] \in modes /\ view.stack[1] \in Mode
           /\ view.inputBuffer \in Seq(Key) /\ view.inputBuffer # <<>> /\ Len(view.inputBuffer) \in Nat \ {0}
           /\ view.inputBuffer[1] \in Key /\ Last(view.inputBuffer) \in Key
           /\ Head(frames).pending \in BOOLEAN
           /\ recording => register # <<>> /\ register[1] # <<>>
           /\ ~CommandLineSends /\ view.stack[1] \in CmdlineMode => mapMode \subseteq {"cmdline"}
           /\ ~KeysWait /\ view.stack[1] \notin ReadsCommands =>
                 /\ mapMode = {MapModeOf(view.stack[1])}
                 /\ view.stack[1] # "intro" => ~Head(frames).pending
<1>1. ~Idle /\ Executing /\ FrontMode \in modes /\ frames # <<>> /\ Head(frames).at = "exec"
    BY DEF Runs, Executing, Idle
<1>2. Sound(view) /\ FrontMode = view.stack[1] /\ view.inputBuffer \in Seq(Key) /\ Head(frames) \in Frame
      /\ FrontMode \in Mode
    BY <1>1, InvTypes
<1>3. view.inputBuffer # <<>> /\ (recording => register # <<>> /\ register[1] # <<>>)
    BY <1>1 DEF Inv, CallsAreSound
<1>4. /\ Len(view.inputBuffer) \in Nat \ {0}
      /\ \A i \in 1..Len(view.inputBuffer) : view.inputBuffer[i] \in Key
    BY <1>2, <1>3, EmptySeq, ElementOfSeq
<1>5. Head(frames).pending \in BOOLEAN
    BY <1>1, <1>2 DEF Frame
<1>6. ~CommandLineSends /\ FrontMode \in CmdlineMode => mapMode \subseteq {"cmdline"}
    BY <1>1 DEF Inv, CommandLineIsRead
<1>7. ~KeysWait /\ FrontMode \notin ReadsCommands =>
                 /\ mapMode = {MapModeOf(FrontMode)}
                 /\ FrontMode # "intro" => ~Head(frames).pending
    BY <1>1 DEF Inv, KeysAreRead
<1> QED BY <1>1, <1>2, <1>3, <1>4, <1>5, <1>6, <1>7 DEF Last

(* A mode that goes on after a call: nothing is left in the buffer of one  *)
(* that takes keys one by one.                                             *)
LEMMA ReturningFacts ==
    ASSUME Inv, NEW at, at # "exec", Returns(at)
    PROVE  /\ ~Idle /\ ~Executing /\ Sound(view) /\ Head(frames).at = at /\ Head(frames) \in Frame
           /\ ~CommandLineSends /\ view.stack[1] \in CmdlineMode => result # "error" /\ mapMode = {}
           /\ result \in {"operatorPending", "notYetValid"}
                 => view.stack[1] \in ReadsCommands /\ view.inputBuffer # <<>>
           /\ ~KeysWait =>
                 /\ view.stack[1] \notin ReadsCommands => view.inputBuffer = <<>> /\ mapMode = {}
                 /\ ~Among(frames, {"macro", "script"}) /\ view.inputBuffer = <<>> => mapMode = {}
           /\ FrontMode = view.stack[1] /\ result \in CmdState
<1>1. ~Idle /\ ~Executing /\ Head(frames).at = at /\ frames # <<>>
    BY DEF Returns, Executing, Idle
<1>2. Sound(view) /\ FrontMode = view.stack[1] /\ Head(frames) \in Frame
    BY <1>1, InvTypes
<1>3. ~CommandLineSends /\ FrontMode \in CmdlineMode => result # "error" /\ mapMode = {}
    BY <1>1 DEF Inv, CommandLineIsRead
<1>4. result \in {"operatorPending", "notYetValid"} => FrontMode \in ReadsCommands /\ view.inputBuffer # <<>>
    BY <1>1 DEF Inv, CallsAreSound
<1>5. ~KeysWait =>
                 /\ FrontMode \notin ReadsCommands => view.inputBuffer = <<>> /\ mapMode = {}
                 /\ ~Among(frames, {"macro", "script"}) /\ view.inputBuffer = <<>> => mapMode = {}
    BY <1>1 DEF Inv, KeysAreRead
<1> QED BY <1>1, <1>2, <1>3, <1>4, <1>5 DEF Inv, TypeOK
-----------------------------------------------------------------------------
(* A typed key keeps the invariant.                                        *)
LEMMA TypeKeeps ==
    ASSUME Inv, NEW k \in TypedKeys, Type(k), mappings' = mappings
    PROVE  Inv'
<1>1. SendKey(view, k, <<>>) /\ Idle /\ ~Executing
    BY DEF Type, Executing
<1>2. k \in Key
    BY InputAssumption
<1>3. TypeOK /\ TablesAreSound /\ Sound(view) /\ FrontMode = view.stack[1]
    BY InvTypes DEF Inv
<1>4. <<>> \in Seq(Frame) /\ \A ats : ~Among(<<>>, ats)
    BY EmptySeq DEF Among
<1>5. ~CommandLineSends /\ view.stack[1] \in CmdlineMode => mapMode \subseteq {"cmdline"}
    BY <1>1, <1>3 DEF Inv, CommandLineIsRead
<1>6. ~KeysWait /\ view.stack[1] \notin ReadsCommands => view.inputBuffer = <<>> /\ mapMode = {}
    BY <1>1, <1>3 DEF Inv, KeysAreRead
<1> QED BY <1>1, <1>2, <1>3, <1>4, <1>5, <1>6, SendKeyKeeps

(* sendMultipleKeys returning keeps the invariant.                         *)
LEMMA ReturnKeeps ==
    ASSUME Inv, ~Idle, Head(frames).at = "keys", frames' = Tail(frames),
           UNCHANGED << view, mapMode, mappings, mNoremap, recording, register, result >>
    PROVE  Inv'
<1>1. frames # <<>> /\ ~Executing
    BY DEF Idle, Executing
<1>2. /\ frames' \in Seq(Frame) /\ ~Among(frames', {"exec"})
      /\ \A ats : Among(frames, ats) <=> Head(frames).at \in ats \/ Among(frames', ats)
    BY <1>1, InvTypes
<1>3. ~Executing' /\ (frames' # <<>> => ~Among(Tail(frames'), {"exec"}))
    <2>1. CASE frames' = <<>>
        BY <2>1 DEF Executing, Idle
    <2>2. CASE frames' # <<>>
        <3>1. \A ats : Among(frames', ats) <=> Head(frames').at \in ats \/ Among(Tail(frames'), ats)
            BY <1>2, <2>2, Innermost
        <3> QED BY <3>1, <1>2 DEF Executing
    <2> QED BY <2>1, <2>2
<1>4. FrontMode' = FrontMode
    BY DEF FrontMode
<1>5. TypeOK'
    BY <1>2 DEF Inv, TypeOK
<1>6. CallsAreSound'
    BY <1>1, <1>2, <1>3, <1>4 DEF Inv, CallsAreSound, Idle
<1>7. TablesAreSound' /\ StackIsGrounded'
    BY DEF Inv, TablesAreSound, StackIsGrounded
<1>8. ~CommandLineSends => CommandLineIsRead'
    <2>1. HasStarts(view)' = HasStarts(view)
        BY DEF HasStarts
    <2> QED BY <2>1, <1>1, <1>3, <1>4 DEF Inv, CommandLineIsRead
<1>9. ~KeysWait => KeysAreRead'
    BY <1>1, <1>2, <1>3, <1>4 DEF Inv, KeysAreRead
<1> QED BY <1>5, <1>6, <1>7, <1>8, <1>9 DEF Inv

(* The loop of sendMultipleKeys keeps the invariant, with keys that are    *)
(* sent and keys that are put on the command line.                         *)
LEMMA NextOfKeysKeeps ==
    ASSUME Inv, NextOfKeys, mappings' = mappings
    PROVE  Inv'
<1> DEFINE keys == Head(frames).keys
           rest == << KeysFrame(Tail(keys)) >> \o Tail(frames)
<1>1. ~Idle /\ Head(frames).at = "keys" /\ frames # <<>> /\ ~Executing
    BY DEF NextOfKeys, Idle, Executing
<1>2. /\ Sound(view) /\ FrontMode = view.stack[1] /\ Head(frames) \in Frame
      /\ Tail(frames) \in Seq(Frame) /\ ~Among(Tail(frames), {"exec"})
      /\ \A ats : Among(frames, ats) <=> Head(frames).at \in ats \/ Among(Tail(frames), ats)
    BY <1>1, InvTypes
<1>3. keys \in Seq(Key)
    BY <1>1, <1>2 DEF Frame
<1>4. CASE keys = <<>> \/ result \in {"stopped", "error"}
    <2>1. frames' = Tail(frames)
          /\ UNCHANGED << view, mapMode, mNoremap, recording, register, result >>
        BY <1>4, Zenon DEF NextOfKeys
    <2> QED BY <2>1, <1>1, ReturnKeeps
<1>5. ASSUME keys # <<>>
      PROVE  /\ Head(keys) \in Key /\ KeysFrame(Tail(keys)) \in Frame /\ KeysFrame(Tail(keys)).at = "keys"
             /\ rest \in Seq(Frame) /\ rest # <<>> /\ Head(rest) = KeysFrame(Tail(keys)) /\ Tail(rest) = Tail(frames)
             /\ \A ats : Among(rest, ats) <=> "keys" \in ats \/ Among(Tail(frames), ats)
    <2>1. Head(keys) \in Key /\ Tail(keys) \in Seq(Key)
        BY <1>3, <1>5, HeadTailProperties
    <2> DEFINE f == KeysFrame(Tail(keys))
    <2>2. f \in Frame /\ f.at = "keys"
        BY <2>1 DEF KeysFrame, Frame
    <2> HIDE DEF f
    <2>3. /\ << f >> \o Tail(frames) \in Seq(Frame) /\ << f >> \o Tail(frames) # <<>>
          /\ Head(<< f >> \o Tail(frames)) = f /\ Tail(<< f >> \o Tail(frames)) = Tail(frames)
          /\ \A ats : Among(<< f >> \o Tail(frames), ats) <=> f.at \in ats \/ Among(Tail(frames), ats)
        BY <2>2, <1>2, Calls
    <2> QED BY <2>1, <2>2, <2>3 DEF f
<1>6. CASE ~(keys = <<>> \/ result \in {"stopped", "error"})
           /\ FrontMode \in CmdlineMode /\ Head(keys) \notin {"Esc", "Enter"}
    <2>1. /\ view' = [view EXCEPT !.commandLine = TRUE] /\ frames' = rest
          /\ UNCHANGED << mapMode, mNoremap, recording, register, result >>
        BY <1>6, Zenon DEF NextOfKeys
    <2> HIDE DEF rest, keys
    <2>2. Sound(view') /\ view'.stack = view.stack /\ view'.inputBuffer = view.inputBuffer
        BY <2>1, <1>2, CommandLineSound
    <2>3. FrontMode' = FrontMode
        BY <2>2 DEF FrontMode
    <2>4. ~Executing'
        BY <2>1, <1>5, <1>6 DEF Executing
    <2>5. TypeOK'
        BY <2>1, <2>2, <1>5, <1>6 DEF Inv, TypeOK, Sound
    <2>6. CallsAreSound'
        <3>1. Among(frames', {"macro"}) => Among(frames, {"macro"})
            BY <2>1, <1>2, <1>5, <1>6
        <3>2. Tail(frames') = Tail(frames)
            BY <2>1, <1>5, <1>6
        <3>3. Among(frames, {"macro"}) /\ register = <<>> => recording /\ result # "error"
            BY DEF Inv, CallsAreSound
        <3>4. result \in {"operatorPending", "notYetValid"} => FrontMode \in ReadsCommands /\ view.inputBuffer # <<>>
            BY <1>1 DEF Inv, CallsAreSound
        <3> QED BY <3>1, <3>2, <3>3, <3>4, <2>1, <2>2, <2>3, <2>4, <1>2 DEF CallsAreSound
    <2>7. TablesAreSound' /\ StackIsGrounded'
        BY <2>2 DEF Inv, TablesAreSound, StackIsGrounded
    <2>8. ~CommandLineSends => CommandLineIsRead'
        BY <2>1, <2>2, <2>3, <2>4, <1>1 DEF Inv, CommandLineIsRead, Sound
    <2>9. ~KeysWait => KeysAreRead'
        <3>1. Among(frames', {"macro", "script"}) <=> Among(frames, {"macro", "script"})
            BY <2>1, <1>1, <1>2, <1>5, <1>6
        <3> QED BY <3>1, <2>1, <2>2, <2>3, <2>4, <1>1 DEF Inv, KeysAreRead
    <2> QED BY <2>5, <2>6, <2>7, <2>8, <2>9 DEF Inv
<1>7. CASE ~(keys = <<>> \/ result \in {"stopped", "error"})
           /\ ~(FrontMode \in CmdlineMode /\ Head(keys) \notin {"Esc", "Enter"})
    <2>1. SendKey(view, Head(keys), rest)
        BY <1>7, Zenon DEF NextOfKeys
    <2>2. ~Among(rest, {"exec"})
        BY <1>2, <1>5, <1>7
    <2>3. Among(rest, {"macro"}) /\ register = <<>> => recording
        BY <1>2, <1>5, <1>7 DEF Inv, CallsAreSound
    <2>4. ~CommandLineSends /\ view.stack[1] \in CmdlineMode => mapMode \subseteq {"cmdline"}
        BY <1>1, <1>2 DEF Inv, CommandLineIsRead
    <2>5. ~KeysWait /\ view.stack[1] \notin ReadsCommands => view.inputBuffer = <<>> /\ mapMode = {}
        BY <1>1, <1>2 DEF Inv, KeysAreRead
    <2>6. TypeOK /\ TablesAreSound
        BY DEF Inv
    <2>7. Head(keys) \in Key /\ rest \in Seq(Frame)
        BY <1>5, <1>7
    <2> HIDE DEF keys, rest
    <2> QED BY <2>1, <2>2, <2>3, <2>4, <2>5, <2>6, <2>7, <1>2, SendKeyKeeps
<1> QED BY <1>4, <1>6, <1>7
-----------------------------------------------------------------------------
(* i, v, V, : and / keep the invariant.                                    *)
LEMMA GotoModeKeeps ==
    ASSUME Inv, GotoMode, mappings' = mappings PROVE Inv'
<1>1. Runs({"command"}) /\ view.inputBuffer \in { <<k>> : k \in ModeKeys }
    BY DEF GotoMode, Executes
<1> DEFINE mode == ModeFor(view.inputBuffer[1])
<1>2. ~Idle /\ Sound(view) /\ view.stack[1] = "command"
    BY <1>1, ExecutingFacts
<1>3. mode \in Mode /\ "command" \in Below(mode)
    BY DEF ModeFor, Mode, Below, VisualMode, CmdlineMode
<1>4. Done(Push(view, mode), "ok")
    BY DEF GotoMode
<1> HIDE DEF mode
<1>5. Sound(Push(view, mode))
    BY <1>2, <1>3, PushSound
<1> QED BY <1>2, <1>4, <1>5, DoneWellKeeps

(* a keeps the invariant.                                                  *)
LEMMA AppendTextKeeps ==
    ASSUME Inv, AppendText, mappings' = mappings PROVE Inv'
<1>1. Runs({"command"})
    BY DEF AppendText, Executes
<1>2. ~Idle /\ Sound(view) /\ view.stack[1] = "command"
    BY <1>1, ExecutingFacts
<1>3. "insert" \in Mode /\ Below("command") \subseteq Below("insert")
    BY DEF Mode, Below
<1>4. Sound(MovedRight(Change(view, "insert", TRUE)))
    BY <1>2, <1>3, ChangeSound, MovedRightSound
<1>5. Done(MovedRight(Change(view, "insert", TRUE)), "ok")
    BY DEF AppendText
<1> QED BY <1>2, <1>4, <1>5, DoneWellKeeps

(* Motions, x and Esc in command mode keep the invariant.                  *)
LEMMA MovesKeep ==
    ASSUME Inv, Motion \/ DeleteChar \/ Abort, mappings' = mappings PROVE Inv'
<1>1. Runs({"command"} \union VisualMode)
    BY DEF Motion, DeleteChar, Abort, Executes, Runs
<1>2. ~Idle /\ Sound(view)
    BY <1>1, ExecutingFacts
<1>3. ASSUME NEW column \in Column, Done(MovedTo(view, column), "ok") PROVE Inv'
    BY <1>2, <1>3, MovedSound, DoneWellKeeps
<1>4. CASE Motion
    BY <1>3, <1>4 DEF Motion
<1>5. CASE DeleteChar
    <2>1. {0, view.cursor} \subseteq Column
        BY <1>2, ColumnFacts
    <2> QED BY <2>1, <1>3, <1>5 DEF DeleteChar
<1>6. CASE Abort
    BY <1>2, <1>6, DoneWellKeeps DEF Abort
<1> QED BY <1>4, <1>5, <1>6

(* A key that begins no command keeps the invariant.                       *)
LEMMA UnknownCommandKeeps ==
    ASSUME Inv, UnknownCommand, mappings' = mappings PROVE Inv'
<1>1. Runs({"command"}) /\ Done(view, "error")
    BY DEF UnknownCommand
<1>2. /\ ~Idle /\ Executing /\ Sound(view) /\ view.stack[1] = "command" /\ view.inputBuffer # <<>>
    BY <1>1, ExecutingFacts
<1>3. "command" \in ReadsCommands /\ "command" \notin CmdlineMode /\ "error" \in CmdState
    BY DEF ReadsCommands, CmdlineMode, CmdState
<1> QED BY <1>1, <1>2, <1>3, DoneKeeps

(* c and d keep the invariant, with every state their motion can lead to.  *)
LEMMA OperatorKeeps ==
    ASSUME Inv, Operator, mappings' = mappings PROVE Inv'
<1> DEFINE op == view.inputBuffer[1]
           keys == Tail(view.inputBuffer)
<1>1. Runs({"command"})
    BY DEF Operator
<1>2. /\ ~Idle /\ Executing /\ Sound(view) /\ view.stack[1] = "command" /\ view.inputBuffer # <<>>
    BY <1>1, ExecutingFacts
<1>3. "command" \in ReadsCommands /\ "command" \notin CmdlineMode
    BY DEF ReadsCommands, CmdlineMode
<1>4. \/ Done([Push(view, "insert") EXCEPT !.cursor = 0], "ok")
      \/ \E column \in Column : Done(MovedTo(view, column), "ok")
      \/ \E state \in IntervalState(keys) \ {"ok"} : Done(view, state)
      \/ \E column \in 0..view.cursor : Done(Pop(MovedTo(view, column), TRUE), "ok")
      \/ \E column \in 0..view.cursor : \E w \in ChangeMode(MovedTo(view, column)) : Done(w, "ok")
    BY DEF Operator
<1>5. CASE Done([Push(view, "insert") EXCEPT !.cursor = 0], "ok")
    <2>1. "insert" \in Mode /\ "command" \in Below("insert") /\ 0 \in Column
        BY ColumnFacts DEF Mode, Below
    <2>2. Sound(Push(view, "insert"))
        BY <2>1, <1>2, PushSound
    <2> DEFINE w == [Push(view, "insert") EXCEPT !.cursor = 0]
    <2>3. Sound(w)
        BY <2>1, <2>2, CursorSound
    <2>4. Done(w, "ok")
        BY <1>5
    <2> HIDE DEF w
    <2> QED BY <2>3, <2>4, <1>2, DoneWellKeeps
<1>6. ASSUME NEW column \in Column, Done(MovedTo(view, column), "ok") PROVE Inv'
    BY <1>2, <1>6, MovedSound, DoneWellKeeps
<1>7. ASSUME NEW state \in IntervalState(keys) \ {"ok"}, Done(view, state) PROVE Inv'
    <2> HIDE DEF keys
    <2>1. IntervalState(keys) \subseteq {"operatorPending", "error", "ok", "stopped"}
        BY DEF IntervalState
    <2>2. state \in CmdState /\ state # "notYetValid"
        BY <2>1, <1>7 DEF CmdState
    <2> QED BY <2>2, <1>2, <1>3, <1>7, DoneKeeps
<1>8. ASSUME NEW column \in 0..view.cursor, Done(Pop(MovedTo(view, column), TRUE), "ok") PROVE Inv'
    <2>1. column \in Column
        BY <1>2, ColumnFacts
    <2>2. Sound(Pop(MovedTo(view, column), TRUE))
        BY <2>1, <1>2, MovedSound, PopSound
    <2> QED BY <2>2, <1>2, <1>8, DoneWellKeeps
<1>9. ASSUME NEW column \in 0..view.cursor, NEW w \in ChangeMode(MovedTo(view, column)), Done(w, "ok") PROVE Inv'
    <2>1. column \in Column
        BY <1>2, ColumnFacts
    <2>2. Sound(MovedTo(view, column)) /\ MovedTo(view, column).stack[1] \in ReadsCommands
        BY <2>1, <1>2, <1>3, MovedSound
    <2>3. Sound(w)
        BY <2>2, ChangeModeSound
    <2> QED BY <2>3, <1>2, <1>9, DoneWellKeeps
<1> QED BY <1>4, <1>5, <1>6, <1>7, <1>8, <1>9

(* q keeps the invariant: the register has the key that is taken off at    *)
(* the end, the q itself.                                                  *)
LEMMA MacroKeeps ==
    ASSUME Inv, Macro, mappings' = mappings PROVE Inv'
<1>1. /\ Runs({"command"}) /\ recording' = ~recording /\ Finish(view, "ok") /\ mNoremap' = mNoremap
      /\ register' = IF recording THEN << Front(register[1]) >> ELSE <<>>
    BY DEF Macro, Executes
<1>2. ~Idle /\ Sound(view) /\ (recording => register # <<>> /\ register[1] # <<>>)
    BY <1>1, ExecutingFacts
<1>3. register' \in Seq(Seq(Key)) /\ Len(register') <= 1
    <2>1. CASE ~recording
        BY <2>1, <1>1, EmptySeq
    <2>2. CASE recording
        <3>1. register \in Seq(Seq(Key)) /\ register # <<>>
            BY <2>2, <1>2 DEF Inv, TypeOK
        <3>2. register[1] \in Seq(Key) /\ Len(register[1]) \in Nat \ {0}
            BY <3>1, <2>2, <1>2, EmptySeq, ElementOfSeq
        <3>3. Front(register[1]) \in Seq(Key)
            BY <3>2, SubSeqProperties DEF Front
        <3> QED BY <3>3, <2>2, <1>1
    <2> QED BY <2>1, <2>2
<1>4. TablesAreSound' /\ mappings' \in [MapMode -> SUBSET Mapping] /\ recording' \in BOOLEAN
    BY <1>1 DEF Inv, TypeOK, TablesAreSound
<1>5. register' = <<>> => recording'
    BY <1>1
<1>6. "ok" \in CmdState /\ "ok" \notin {"error", "operatorPending", "notYetValid"}
    BY DEF CmdState
<1> QED BY <1>1, <1>2, <1>3, <1>4, <1>5, <1>6, FinishKeeps

(* The call in which a macro waits.                                        *)
LEMMA MacroFrameType ==
    ASSUME Head(frames).pending \in BOOLEAN, NEW left \in Nat
    PROVE  MacroFrame(left) \in Frame /\ MacroFrame(left).at = "macro"
BY DEF MacroFrame, Frame

(* @ keeps the invariant: the keys are sent by a call that waits for them. *)
LEMMA ReplayMacroKeeps ==
    ASSUME Inv, ReplayMacro, mappings' = mappings PROVE Inv'
<1>1. Runs({"command"})
    BY DEF ReplayMacro, Executes
<1>2. ~Idle /\ Sound(view) /\ Head(frames).pending \in BOOLEAN /\ view.stack[1] = "command"
    BY <1>1, ExecutingFacts
<1>3. Sound(Purged(view)) /\ Purged(view).stack[1] = "command"
    BY <1>2, PurgedSound
<1>4. CASE Done(Purged(view), "stopped")
    BY <1>2, <1>3, <1>4, DoneWellKeeps
<1>5. CASE register # <<>> /\ SendKeys(Purged(view), MacroFrame(Count - 1), register[1])
    <2>1. Count - 1 \in Nat
        BY InputAssumption
    <2>2. register[1] \in Seq(Key)
        BY <1>5, EmptySeq, ElementOfSeq DEF Inv, TypeOK
    <2>3. "command" \in ReadsCommands /\ "command" \notin CmdlineMode
        BY DEF ReadsCommands, CmdlineMode
    <2>4. MacroFrame(Count - 1) \in Frame /\ MacroFrame(Count - 1).at = "macro"
        BY <2>1, <1>2, MacroFrameType
    <2> QED BY <2>2, <2>3, <2>4, <1>2, <1>3, <1>5, SendKeysKeeps
<1> QED BY <1>4, <1>5 DEF ReplayMacro

(* The repetition of a macro keeps the invariant: the register is still    *)
(* there to be read, though the macro may have recorded into it.           *)
LEMMA AfterMacroKeeps ==
    ASSUME Inv, AfterMacro, mappings' = mappings PROVE Inv'
<1>1. Returns("macro")
    BY DEF AfterMacro
<1>2. /\ ~Idle /\ ~Executing /\ Sound(view) /\ Head(frames).at = "macro" /\ Head(frames) \in Frame
      /\ ~CommandLineSends /\ view.stack[1] \in CmdlineMode => result # "error"
      /\ ~KeysWait /\ view.stack[1] \notin ReadsCommands => view.inputBuffer = <<>> /\ mapMode = {}
    BY <1>1, ReturningFacts
<1>3. CASE Done(view, "stopped") \/ Done(view, "ok")
    BY <1>2, <1>3, DoneWellKeeps
<1>4. CASE /\ result = "error" /\ Head(frames).left # 0
           /\ SendKeys(view, MacroFrame(Head(frames).left - 1), register[1])
    <2>1. Head(frames).pending \in BOOLEAN /\ Head(frames).left - 1 \in Nat
        BY <1>2, <1>4 DEF Frame
    <2>2. MacroFrame(Head(frames).left - 1) \in Frame /\ MacroFrame(Head(frames).left - 1).at = "macro"
        BY <2>1, MacroFrameType
    <2>3. Among(frames, {"macro"})
        BY <1>2, InvTypes DEF Idle
    <2>4. register # <<>>
        BY <2>3, <1>4 DEF Inv, CallsAreSound
    <2>5. register[1] \in Seq(Key)
        BY <2>4, EmptySeq, ElementOfSeq DEF Inv, TypeOK
    <2> QED BY <2>2, <2>4, <2>5, <1>2, <1>4, SendKeysKeeps
<1> QED BY <1>3, <1>4 DEF AfterMacro
-----------------------------------------------------------------------------
(* Text typed in insert mode, and leaving it, keep the invariant.          *)
LEMMA InsertKeeps ==
    ASSUME Inv, InsertText \/ LeaveInsert, mappings' = mappings PROVE Inv'
<1>1. Runs({"insert"})
    BY DEF InsertText, LeaveInsert
<1>2. ~Idle /\ Sound(view)
    BY <1>1, ExecutingFacts
<1>3. CASE Done(MovedRight(view), "ok")
    BY <1>2, <1>3, MovedRightSound, DoneWellKeeps
<1>4. ASSUME NEW column \in Column, Done(MovedTo(view, column), "ok") PROVE Inv'
    BY <1>2, <1>4, MovedSound, DoneWellKeeps
<1>5. CASE Done(PopTo(view, "command"), "ok")
    BY <1>2, <1>5, PopToSound, DoneWellKeeps
<1> QED BY <1>3, <1>4, <1>5 DEF InsertText, LeaveInsert

(* C-n keeps the invariant: it returns CmdError with a new mode in front,  *)
(* which must not find the key.                                            *)
LEMMA CompletionKeeps ==
    ASSUME Inv, CompletionNext \/ NextCompletion, mappings' = mappings PROVE Inv'
<1>1. Runs({"insert", "completion"})
    BY DEF CompletionNext, NextCompletion, Runs
<1>2. /\ ~Idle /\ Executing /\ Sound(view) /\ view.stack[1] \in {"insert", "completion"}
      /\ ~KeysWait /\ view.stack[1] \notin ReadsCommands => (view.stack[1] # "intro" => ~Head(frames).pending)
    BY <1>1, ExecutingFacts
<1>3. ~KeysWait => ~Head(frames).pending
    BY <1>2 DEF ReadsCommands, VisualMode
<1>4. ASSUME NEW v, Sound(v), v.stack[1] \notin CmdlineMode, Done(v, "error") PROVE Inv'
    <2>1. "error" \in CmdState /\ "error" \notin {"operatorPending", "notYetValid"}
        BY DEF CmdState
    <2> QED BY <2>1, <1>2, <1>3, <1>4, DoneKeeps
<1>5. CASE CompletionNext
    <2>1. view.stack[1] = "insert"
        <3>1. FrontMode = "insert" /\ FrontMode = view.stack[1]
            BY <1>5, InvTypes DEF CompletionNext, Runs
        <3> QED BY <3>1
    <2>2. "completion" \in Mode /\ "insert" \in Below("completion") /\ "completion" \notin CmdlineMode
          /\ Below("completion") = {"insert"} /\ "insert" \notin CmdlineMode
        BY DEF Mode, Below, CmdlineMode
    <2> DEFINE u == Push(view, "completion")
    <2>3. Sound(u) /\ u.stack[1] = "completion"
        BY <2>1, <2>2, <1>2, PushSound
    <2>4. \/ \E column \in Column : Done([u EXCEPT !.cursor = column], "error")
          \/ Done(Pop(u, TRUE), "error")
        BY <1>5 DEF CompletionNext
    <2> HIDE DEF u
    <2>5. ASSUME NEW column \in Column, Done([u EXCEPT !.cursor = column], "error") PROVE Inv'
        <3> DEFINE w == [u EXCEPT !.cursor = column]
        <3>1. Sound(w) /\ w.stack = u.stack
            BY <2>3, CursorSound
        <3>2. Done(w, "error")
            BY <2>5
        <3> HIDE DEF w
        <3> QED BY <3>1, <3>2, <2>2, <2>3, <1>4
    <2>6. CASE Done(Pop(u, TRUE), "error")
        <3>1. Sound(Pop(u, TRUE)) /\ Pop(u, TRUE).stack[1] \in Below(u.stack[1])
            BY <2>3, PopSound
        <3>2. Pop(u, TRUE).stack[1] = "insert"
            BY <3>1, <2>2, <2>3
        <3> QED BY <3>1, <3>2, <2>2, <2>6, <1>4
    <2> QED BY <2>4, <2>5, <2>6
<1>6. CASE NextCompletion
    <2>1. PICK column \in Column : Done([view EXCEPT !.cursor = column], "error")
        BY <1>6 DEF NextCompletion
    <2> DEFINE w == [view EXCEPT !.cursor = column]
    <2>2. Sound(w) /\ w.stack = view.stack
        BY <1>2, CursorSound
    <2>3. Done(w, "error")
        BY <2>1
    <2>4. view.stack[1] \notin CmdlineMode
        BY <1>2 DEF CmdlineMode
    <2> HIDE DEF w
    <2> QED BY <2>2, <2>3, <2>4, <1>4
<1> QED BY <1>5, <1>6

(* The call in which a mode waits for the key it sent again.               *)
LEMMA WaitFrameType ==
    ASSUME Inv, ~Idle, Head(frames).pending \in BOOLEAN, NEW at \in {"exec", "intro", "completion", "script"}
    PROVE  /\ WaitFrame(at) \in Frame /\ WaitFrame(at).at = at
           /\ << WaitFrame(at) >> \o Tail(frames) \in Seq(Frame)
           /\ \A ats : Among(<< WaitFrame(at) >> \o Tail(frames), ats) <=> at \in ats \/ Among(Tail(frames), ats)
           /\ ~Among(Tail(frames), {"exec"})
           /\ Among(Tail(frames), {"macro"}) /\ register = <<>> => recording
<1> DEFINE f == WaitFrame(at)
<1>1. f \in Frame /\ f.at = at
    BY DEF WaitFrame, Frame
<1>2. /\ Tail(frames) \in Seq(Frame) /\ ~Among(Tail(frames), {"exec"})
      /\ Among(Tail(frames), {"macro"}) => Among(frames, {"macro"})
    BY InvTypes DEF Idle
<1>3. Among(Tail(frames), {"macro"}) /\ register = <<>> => recording
    BY <1>2 DEF Inv, CallsAreSound
<1> HIDE DEF f
<1>4. << f >> \o Tail(frames) \in Seq(Frame)
      /\ \A ats : Among(<< f >> \o Tail(frames), ats) <=> f.at \in ats \/ Among(Tail(frames), ats)
    BY <1>1, <1>2, Calls
<1> QED BY <1>1, <1>2, <1>3, <1>4 DEF f

(* The key that ends a completion is sent again, in insert mode: the       *)
(* invariant is kept.                                                      *)
LEMMA EndCompletionKeeps ==
    ASSUME Inv, EndCompletion, mappings' = mappings PROVE Inv'
<1> DEFINE v == Pop(view, TRUE)
           k == Last(view.inputBuffer)
           callers == << WaitFrame("completion") >> \o Tail(frames)
<1>1. Runs({"completion"}) /\ SendKey(v, k, callers)
    BY DEF EndCompletion
<1>2. /\ ~Idle /\ Sound(view) /\ view.stack[1] = "completion" /\ k \in Key
      /\ Head(frames).pending \in BOOLEAN
      /\ ~KeysWait /\ view.stack[1] \notin ReadsCommands => mapMode = {MapModeOf(view.stack[1])}
    BY <1>1, ExecutingFacts
<1>3. callers \in Seq(Frame) /\ ~Among(callers, {"exec"}) /\ (Among(callers, {"macro"}) /\ register = <<>> => recording)
    BY <1>2, WaitFrameType
<1>4. Sound(v) /\ v.inputBuffer = <<>> /\ v.stack[1] = "insert"
    <2>1. Below("completion") = {"insert"}
        BY DEF Below
    <2> QED BY <2>1, <1>2, PopSound
<1>5. ~KeysWait => mapMode \subseteq {MapModeOf("insert")}
    BY <1>2 DEF ReadsCommands, VisualMode, MapModeOf, CmdlineMode
<1>6. "insert" \notin CmdlineMode /\ TypeOK /\ TablesAreSound
    BY DEF CmdlineMode, Inv
<1> HIDE DEF v, k, callers
<1> QED BY <1>1, <1>2, <1>3, <1>4, <1>5, <1>6, SendKeyKeeps

(* The key that ends the intro is sent again, in command mode: the         *)
(* invariant is kept.                                                      *)
LEMMA LeaveIntroKeeps ==
    ASSUME Inv, LeaveIntro, mappings' = mappings PROVE Inv'
<1> DEFINE u == [view EXCEPT !.cursor = 0]
           v == Change(u, "command", TRUE)
           k == Last(view.inputBuffer)
           callers == << WaitFrame("intro") >> \o Tail(frames)
<1>1. Runs({"intro"}) /\ SendKey(v, k, callers)
    BY DEF LeaveIntro
<1>2. /\ ~Idle /\ Sound(view) /\ view.stack[1] = "intro" /\ k \in Key /\ Head(frames).pending \in BOOLEAN
    BY <1>1, ExecutingFacts
<1>3. callers \in Seq(Frame) /\ ~Among(callers, {"exec"}) /\ (Among(callers, {"macro"}) /\ register = <<>> => recording)
    BY <1>2, WaitFrameType
<1>4. Sound(u) /\ u.stack = view.stack
    BY <1>2, ColumnFacts, CursorSound
<1> HIDE DEF u
<1>5. Sound(v) /\ v.stack[1] = "command"
    <2>1. Below("intro") \subseteq Below("command") /\ "command" \in Mode
        BY DEF Below, VisualMode, Mode
    <2>2. Below(u.stack[1]) \subseteq Below("command") /\ u.stack[1] \notin {"completion", "ex"}
        BY <2>1, <1>2, <1>4
    <2>3. /\ Sound(Change(u, "command", TRUE)) /\ Change(u, "command", TRUE).stack[1] = "command"
        BY <2>1, <2>2, <1>4, ChangeSound
    <2> QED BY <2>3
<1>6. "command" \notin CmdlineMode /\ "command" \in ReadsCommands /\ TypeOK /\ TablesAreSound
    BY DEF CmdlineMode, ReadsCommands, Inv
<1> HIDE DEF v, k, callers
<1> QED BY <1>1, <1>2, <1>3, <1>5, <1>6, SendKeyKeeps

(* The ends of these calls keep the invariant. The intro returns what the  *)
(* mode that got its key returned.                                         *)
LEMMA AfterKeysKeeps ==
    ASSUME Inv, AfterCompletion \/ AfterIntro \/ AfterScript, mappings' = mappings PROVE Inv'
<1>1. CASE AfterCompletion
    <2>1. Returns("completion") /\ Done(view, "ok")
        BY <1>1 DEF AfterCompletion
    <2>2. ~Idle /\ Sound(view)
        BY <2>1, ReturningFacts
    <2> QED BY <2>1, <2>2, DoneWellKeeps
<1>2. CASE AfterScript
    <2>1. Returns("script") /\ Done(PopTo(view, "command"), "ok")
        BY <1>2 DEF AfterScript
    <2>2. ~Idle /\ Sound(view)
        BY <2>1, ReturningFacts
    <2> QED BY <2>1, <2>2, PopToSound, DoneWellKeeps
<1>3. CASE AfterIntro
    <2>1. Returns("intro") /\ Done(view, result)
        BY <1>3 DEF AfterIntro
    <2>2. /\ ~Idle /\ Sound(view) /\ result \in CmdState
          /\ Head(frames).at = "intro"
          /\ ~CommandLineSends /\ view.stack[1] \in CmdlineMode => result # "error"
          /\ result \in {"operatorPending", "notYetValid"}
                => view.stack[1] \in ReadsCommands /\ view.inputBuffer # <<>>
          /\ ~KeysWait =>
                /\ view.stack[1] \notin ReadsCommands => view.inputBuffer = <<>> /\ mapMode = {}
                /\ ~Among(frames, {"macro", "script"}) /\ view.inputBuffer = <<>> => mapMode = {}
        BY <2>1, ReturningFacts
    <2>3. Among(frames, {"macro", "script"}) => Among(Tail(frames), {"macro", "script"})
        BY <2>2, InvTypes DEF Idle
    <2> QED BY <2>1, <2>2, <2>3, DoneKeeps
<1> QED BY <1>1, <1>2, <1>3
-----------------------------------------------------------------------------
(* The commands that leave a visual mode, and v and V that translate one,  *)
(* keep the invariant.                                                     *)
LEMMA SelectionKeeps ==
    ASSUME Inv, DeleteSelection \/ ChangeSelection \/ EscapeVisual \/ TranslateVisual, mappings' = mappings
    PROVE  Inv'
<1>1. Runs(VisualMode)
    BY DEF DeleteSelection, ChangeSelection, EscapeVisual, TranslateVisual, Executes
<1>2. ~Idle /\ Sound(view) /\ view.stack[1] \in VisualMode
    BY <1>1, ExecutingFacts
<1>3. ASSUME NEW column \in 0..view.cursor
      PROVE  Sound(MovedTo(view, column)) /\ MovedTo(view, column).stack = view.stack
    <2>1. column \in Column
        BY <1>2, ColumnFacts
    <2> QED BY <2>1, <1>2, MovedSound
<1>4. CASE DeleteSelection
    <2>1. PICK column \in 0..view.cursor : Done(Pop(MovedTo(view, column), TRUE), "ok")
        BY <1>4 DEF DeleteSelection
    <2>2. Sound(Pop(MovedTo(view, column), TRUE))
        BY <1>3, PopSound
    <2> QED BY <2>1, <2>2, <1>2, DoneWellKeeps
<1>5. CASE ChangeSelection
    <2>1. PICK column \in 0..view.cursor : \E v \in ChangeMode(MovedTo(view, column)) : Done(v, "ok")
        BY <1>5 DEF ChangeSelection
    <2>2. PICK v \in ChangeMode(MovedTo(view, column)) : Done(v, "ok")
        BY <2>1
    <2>3. MovedTo(view, column).stack[1] \in ReadsCommands
        BY <1>2, <1>3 DEF ReadsCommands
    <2>4. Sound(v)
        BY <2>3, <1>3, ChangeModeSound
    <2> QED BY <2>2, <2>4, <1>2, DoneWellKeeps
<1>6. CASE EscapeVisual
    <2>1. Done(Pop(view, TRUE), "ok")
        BY <1>6 DEF EscapeVisual
    <2> QED BY <2>1, <1>2, PopSound, DoneWellKeeps
<1>7. CASE TranslateVisual
    <2>1. PICK mode \in VisualMode : Done(Change(view, mode, FALSE), "ok")
        BY <1>7 DEF TranslateVisual, VisualMode
    <2>2. mode \in Mode /\ Below(view.stack[1]) \subseteq Below(mode) /\ view.stack[1] \notin {"completion", "ex"}
        BY <1>2 DEF Mode, VisualMode, Below
    <2>3. Sound(Change(view, mode, FALSE))
        BY <2>2, <1>2, ChangeSound
    <2> QED BY <2>1, <2>3, <1>2, DoneWellKeeps
<1> QED BY <1>4, <1>5, <1>6, <1>7

(* : in a visual mode keeps the invariant: ex lies over the visual mode.   *)
LEMMA VisualToExKeeps ==
    ASSUME Inv, VisualToEx, mappings' = mappings PROVE Inv'
<1>1. Runs(VisualMode)
    BY DEF VisualToEx, Executes
<1>2. ~Idle /\ Sound(view) /\ view.stack[1] \in VisualMode
    BY <1>1, ExecutingFacts
<1> DEFINE u == Push(view, "ex")
           w == [u EXCEPT !.commandLine = TRUE]
<1>3. "ex" \in Mode /\ view.stack[1] \in Below("ex")
    BY <1>2 DEF Mode, CmdlineMode, Below
<1>4. Sound(u)
    BY <1>2, <1>3, PushSound
<1> HIDE DEF u
<1>5. Sound(w)
    BY <1>4, CommandLineSound
<1>6. Done(w, "ok")
    BY DEF VisualToEx, u
<1> HIDE DEF w
<1> QED BY <1>2, <1>5, <1>6, DoneWellKeeps

(* What is no command of a visual mode keeps the invariant.                *)
LEMMA NoVisualCommandKeeps ==
    ASSUME Inv, NoVisualCommand, mappings' = mappings PROVE Inv'
<1>1. Runs(VisualMode) /\ \E state \in {"notYetValid", "error"} : Done(view, state)
    BY DEF NoVisualCommand
<1>2. /\ ~Idle /\ Executing /\ Sound(view) /\ view.stack[1] \in VisualMode /\ view.inputBuffer # <<>>
    BY <1>1, ExecutingFacts
<1>3. view.stack[1] \in ReadsCommands /\ view.stack[1] \notin CmdlineMode
    BY <1>2 DEF ReadsCommands, VisualMode, CmdlineMode
<1>4. PICK state \in {"notYetValid", "error"} : Done(view, state)
    BY <1>1
<1>5. state \in CmdState
    BY DEF CmdState
<1> QED BY <1>2, <1>3, <1>4, <1>5, DoneKeeps
-----------------------------------------------------------------------------
(* The keys of a command line keep the invariant.                          *)
LEMMA CommandLineKeeps ==
    ASSUME Inv, TypeCommandLine \/ EndSearch \/ LeaveEx, mappings' = mappings PROVE Inv'
<1>1. Runs(CmdlineMode)
    BY DEF TypeCommandLine, EndSearch, LeaveEx, Runs, CmdlineMode
<1>2. ~Idle /\ Sound(view)
    BY <1>1, ExecutingFacts
<1>3. CASE TypeCommandLine
    <2> DEFINE w == [view EXCEPT !.commandLine = TRUE]
    <2>1. Done(w, "ok")
        BY <1>3 DEF TypeCommandLine
    <2>2. Sound(w)
        BY <1>2, CommandLineSound
    <2> HIDE DEF w
    <2> QED BY <2>1, <2>2, <1>2, DoneWellKeeps
<1>4. CASE EndSearch
    <2>1. PICK column \in Column : Done(Pop([view EXCEPT !.cursor = column], TRUE), "ok")
        BY <1>4 DEF EndSearch
    <2> DEFINE w == [view EXCEPT !.cursor = column]
    <2>2. Sound(w)
        BY <1>2, CursorSound
    <2>3. Done(Pop(w, TRUE), "ok")
        BY <2>1
    <2> HIDE DEF w
    <2>4. Sound(Pop(w, TRUE))
        BY <2>2, PopSound
    <2> QED BY <2>3, <2>4, <1>2, DoneWellKeeps
<1>5. CASE LeaveEx
    <2>1. Done(PopTo(view, "command"), "ok") \/ Done(Pop(view, TRUE), "ok")
        BY <1>5 DEF LeaveEx
    <2>2. Sound(PopTo(view, "command")) /\ Sound(Pop(view, TRUE))
        BY <1>2, PopSound, PopToSound
    <2> QED BY <2>1, <2>2, <1>2, DoneWellKeeps
<1> QED BY <1>3, <1>4, <1>5

(* An ex command keeps the invariant, and one that runs a script too.      *)
LEMMA ExCommandKeeps ==
    ASSUME Inv, ExCommand, mappings' = mappings PROVE Inv'
<1>1. Runs({"ex"})
    BY DEF ExCommand
<1>2. /\ ~Idle /\ Executing /\ Sound(view) /\ view.stack[1] = "ex" /\ Head(frames).pending \in BOOLEAN
      /\ ~KeysWait /\ view.stack[1] \notin ReadsCommands => ~Head(frames).pending
    BY <1>1, ExecutingFacts
<1>3. Sound(PopTo(view, "command")) /\ PopTo(view, "command").stack[1] = "command"
    BY <1>2, PopToSound
<1>4. "ex" \notin ReadsCommands /\ "command" \notin CmdlineMode /\ "ex" \in CmdlineMode
    BY DEF ReadsCommands, VisualMode, CmdlineMode
<1>5. ASSUME NEW state \in {"ok", "error"}, Done(PopTo(view, "command"), state) PROVE Inv'
    <2>1. state \in CmdState /\ state \notin {"operatorPending", "notYetValid"}
        BY DEF CmdState
    <2> QED BY <2>1, <1>2, <1>3, <1>4, <1>5, DoneKeeps
<1>6. CASE Script # <<>> /\ SendKeys(view, WaitFrame("script"), Script)
    <2>1. CommandLineSends /\ Script \in Seq(Key)
        BY <1>6, InputAssumption DEF CommandLineSends
    <2>2. WaitFrame("script") \in Frame /\ WaitFrame("script").at = "script"
        BY <1>2, WaitFrameType
    <2> QED BY <2>1, <2>2, <1>2, <1>4, <1>6, SendKeysKeeps
<1> QED BY <1>5, <1>6 DEF ExCommand

(* :map, :unmap and :noremap keep the invariant: no table gets what the    *)
(* tables never have.                                                      *)
LEMMA MapCommandKeeps ==
    ASSUME Inv, MapCommand PROVE Inv'
<1>1. Runs({"ex"}) /\ Done(PopTo(view, "command"), "ok")
    BY DEF MapCommand
<1>2. ~Idle /\ Sound(view)
    BY <1>1, ExecutingFacts
<1>3. PICK command \in MapCommands :
        mappings' = [ m \in MapMode |-> IF m \in TablesOf(command.type)
                                       THEN Mapped(mappings[m], command) ELSE mappings[m] ]
    BY DEF MapCommand
<1>4. IsMapping(command) /\ command.type \in MapMode \union {"global"}
    BY InputAssumption
<1>5. command.from \in Seq(Key)
    <2>1. PICK i \in DOMAIN KeyOrder : KeyOrder[i] = command.from
        BY <1>4 DEF IsMapping
    <2>2. KeyOrder \in Seq(Seq(Key))
        BY InputAssumption
    <2> QED BY <2>1, <2>2, ElementOfSeq
<1> DEFINE new == [from |-> command.from, to |-> command.to, noremap |-> command.noremap]
<1>6. new \in Mapping /\ IsMapping(new) /\ new.from = command.from
    BY <1>4, <1>5 DEF IsMapping, Mapping
<1>7. ASSUME NEW table \in SUBSET Mapping, NEW e \in Mapped(table, command)
      PROVE  e \in table \/ e = new
    BY <1>7, Zenon DEF Mapped
<1> HIDE DEF new
<1>8. mappings \in [MapMode -> SUBSET Mapping] /\ TablesAreSound
    BY DEF Inv, TypeOK
<1>9. ASSUME NEW m \in MapMode, NEW e \in mappings'[m]
      PROVE  e \in mappings[m] \/ (e = new /\ m \in TablesOf(command.type))
    <2>1. CASE m \in TablesOf(command.type)
        <3>1. mappings'[m] = Mapped(mappings[m], command)
            BY <1>3, <2>1
        <3>2. e \in Mapped(mappings[m], command)
            BY <3>1, <1>9
        <3>3. mappings[m] \in SUBSET Mapping
            BY <1>8
        <3> QED BY <3>2, <3>3, <2>1, <1>7
    <2>2. CASE m \notin TablesOf(command.type)
        BY <1>3, <2>2
    <2> QED BY <2>1, <2>2
<1>10. mappings' \in [MapMode -> SUBSET Mapping]
    <2>1. \A m \in MapMode : mappings'[m] \subseteq Mapping
        BY <1>6, <1>8, <1>9
    <2>2. mappings' = [m \in MapMode |-> mappings'[m]]
        BY <1>3
    <2> QED BY <2>1, <2>2
<1>11. TablesAreSound'
    <2>1. \A m \in MapMode : \A e \in mappings'[m] : IsMapping(e)
        BY <1>6, <1>8, <1>9 DEF TablesAreSound
    <2>2. ASSUME ~CommandLineSends PROVE mappings'["cmdline"] = {}
        <3>1. command.type # "cmdline" /\ "cmdline" \in MapMode
            BY <2>2 DEF CommandLineSends, MapMode
        <3>2. "cmdline" \notin TablesOf(command.type)
            BY <3>1 DEF TablesOf
        <3>3. mappings["cmdline"] = {}
            BY <2>2, <1>8 DEF TablesAreSound
        <3> QED BY <3>1, <3>2, <3>3, <1>9
    <2>3. ASSUME ~KeysWait, NEW m \in KeyTables, NEW e \in mappings'[m] PROVE Len(e.from) = 1
        <3>1. m \in MapMode
            BY DEF KeyTables, MapMode
        <3>2. CASE e \in mappings[m]
            BY <3>2, <2>3, <1>8 DEF TablesAreSound
        <3>3. CASE e = new /\ m \in TablesOf(command.type)
            <4>1. command.type \in KeyTables
                BY <3>3, <2>3 DEF TablesOf, KeyTables
            <4>2. ~(Len(command.from) > 1)
                BY <4>1, <2>3 DEF KeysWait
            <4>3. command.from # <<>>
                BY <1>4 DEF IsMapping
            <4>4. Len(command.from) = 1
                BY <4>2, <4>3, <1>5, OneKey
            <4> QED BY <4>4, <3>3, <1>6
        <3> QED BY <3>1, <3>2, <3>3, <1>9, <2>3
    <2> QED BY <2>1, <2>2, <2>3 DEF TablesAreSound
<1>12. /\ recording \in BOOLEAN /\ register \in Seq(Seq(Key)) /\ Len(register) <= 1
       /\ Finish(PopTo(view, "command"), "ok")
       /\ recording' = recording /\ register' = register /\ mNoremap' = mNoremap
    BY <1>1 DEF Inv, TypeOK, Done
<1>13. Among(Tail(frames), {"macro"}) /\ register = <<>> => recording
    <2>1. Among(Tail(frames), {"macro"}) => Among(frames, {"macro"})
        BY <1>2, InvTypes DEF Idle
    <2> QED BY <2>1 DEF Inv, CallsAreSound
<1>14. Sound(PopTo(view, "command"))
    BY <1>2, PopToSound
<1>15. "ok" \in CmdState /\ "ok" \notin {"error", "operatorPending", "notYetValid"}
    BY DEF CmdState
<1> QED BY <1>2, <1>10, <1>11, <1>12, <1>13, <1>14, <1>15, FinishKeeps
-----------------------------------------------------------------------------
(* The invariant holds when the view is opened.                            *)
LEMMA InitInv == Init => Inv
<1> SUFFICES ASSUME Init PROVE Inv
    OBVIOUS
<1> DEFINE stack == IF FirstMode = "intro" THEN <<"intro", "command">> ELSE <<"command">>
<1>1. /\ view = [ stack |-> stack, inputBuffer |-> <<>>, cursor |-> 0, commandLine |-> FALSE,
                  start |-> [m \in VisualMode |-> NoStart] ]
      /\ mapMode = {} /\ mappings = InitialMappings /\ mNoremap = FALSE /\ recording = FALSE
      /\ register \in InitialRegisters /\ frames = <<>> /\ result = "ok"
    BY DEF Init
<1>2. /\ FirstMode \in {"command", "intro"}
      /\ \A r \in InitialRegisters : r \in Seq(Seq(Key)) /\ Len(r) <= 1
      /\ InitialMappings \in [MapMode -> SUBSET Mapping]
      /\ \A m \in MapMode : \A e \in InitialMappings[m] : IsMapping(e)
    BY InputAssumption
<1>3. /\ stack \in Seq(Mode) /\ stack # <<>> /\ Grounded(stack) /\ OneOverCommand(stack)
      /\ Head(stack) = IF FirstMode = "intro" THEN "intro" ELSE "command"
      /\ \A i \in DOMAIN stack : stack[i] \in {"intro", "command"}
    <2>1. CASE FirstMode = "intro"
        <3>1. stack = <<"intro", "command">>
            BY <2>1
        <3>2. <<"intro", "command">> \in Seq(Mode)
            BY DEF Mode
        <3>3. Grounded(<<"intro", "command">>) /\ OneOverCommand(<<"intro", "command">>)
            BY DEF Grounded, OneOverCommand, Last, Below
        <3> QED BY <3>1, <3>2, <3>3, <2>1
    <2>2. CASE FirstMode = "command"
        <3>1. stack = <<"command">>
            BY <2>2
        <3>2. <<"command">> \in Seq(Mode)
            BY DEF Mode
        <3>3. Grounded(<<"command">>) /\ OneOverCommand(<<"command">>)
            BY DEF Grounded, OneOverCommand, Last, Below
        <3> QED BY <3>1, <3>2, <3>3, <2>2
    <2> QED BY <2>1, <2>2, <1>2
<1> HIDE DEF stack
<1>4. view \in View /\ view.stack = stack /\ view.inputBuffer = <<>>
    <2>1. [m \in VisualMode |-> NoStart] \in [VisualMode -> Column \union {NoStart}]
        OBVIOUS
    <2> QED BY <2>1, <1>1, <1>3, ColumnFacts DEF View
<1>5. HasStarts(view)
    BY <1>3, <1>4 DEF HasStarts, VisualMode
<1>6. Idle /\ ~Executing /\ \A ats : ~Among(frames, ats)
    BY <1>1 DEF Idle, Executing, Among
<1>7. TypeOK
    <2>1. mappings \in [MapMode -> SUBSET Mapping]
        BY <1>1, <1>2
    <2> QED BY <2>1, <1>1, <1>2, <1>3, <1>4, EmptySeq DEF TypeOK, CmdState
<1>8. FrontMode \in {"intro", "command"} /\ FrontMode \notin CmdlineMode
    BY <1>2, <1>3, <1>4 DEF FrontMode, CmdlineMode
<1>9. StackIsGrounded
    BY <1>3, <1>4 DEF StackIsGrounded
<1>10. CallsAreSound
    BY <1>1, <1>6 DEF CallsAreSound
<1>11. TablesAreSound
    <2>1. ~CommandLineSends => InitialMappings["cmdline"] = {}
        BY DEF CommandLineSends
    <2>2. ASSUME ~KeysWait, NEW m \in KeyTables, NEW e \in InitialMappings[m] PROVE Len(e.from) = 1
        <3>1. m \in MapMode
            BY DEF KeyTables, MapMode
        <3>2. e.from \in Seq(Key) /\ e.from # <<>>
            BY <3>1, <2>2, <1>2 DEF Mapping, IsMapping
        <3>3. ~(Len(e.from) > 1)
            BY <2>2 DEF KeysWait
        <3> QED BY <3>2, <3>3, OneKey
    <2> QED BY <2>1, <2>2, <1>1, <1>2 DEF TablesAreSound
<1>12. CommandLineIsRead
    BY <1>3, <1>4, <1>5, <1>8 DEF CommandLineIsRead
<1>13. KeysAreRead
    BY <1>1, <1>4, <1>6 DEF KeysAreRead
<1> QED BY <1>7, <1>9, <1>10, <1>11, <1>12, <1>13 DEF Inv

(* Every step keeps the invariant, action by action.                       *)
LEMMA NextInv == Inv /\ [Next]_vars => Inv'
<1> SUFFICES ASSUME Inv, [Next]_vars PROVE Inv'
    OBVIOUS
<1>1. CASE UNCHANGED vars
    <2>1. view' = view /\ mapMode' = mapMode /\ mappings' = mappings /\ mNoremap' = mNoremap
          /\ recording' = recording /\ register' = register /\ frames' = frames /\ result' = result
        BY <1>1 DEF vars
    <2>2. FrontMode' = FrontMode /\ Executing' = Executing /\ Idle' = Idle
          /\ HasStarts(view)' = HasStarts(view)
        BY <2>1 DEF FrontMode, Executing, Idle, HasStarts
    <2>3. TypeOK' /\ StackIsGrounded' /\ CallsAreSound' /\ TablesAreSound'
        BY <2>1, <2>2 DEF Inv, TypeOK, StackIsGrounded, CallsAreSound, TablesAreSound
    <2>4. ~CommandLineSends => CommandLineIsRead'
        BY <2>1, <2>2 DEF Inv, CommandLineIsRead
    <2>5. ~KeysWait => KeysAreRead'
        BY <2>1, <2>2 DEF Inv, KeysAreRead
    <2> QED BY <2>3, <2>4, <2>5 DEF Inv
<1>2. ASSUME NEW k \in TypedKeys, Type(k), UNCHANGED mappings PROVE Inv'
    BY <1>2, TypeKeeps
<1>3. CASE MapCommand
    BY <1>3, MapCommandKeeps
<1>4. CASE Continue /\ UNCHANGED mappings
    <2>1. CASE NextOfKeys
        BY <2>1, <1>4, NextOfKeysKeeps
    <2>2. CASE GotoMode
        BY <2>2, <1>4, GotoModeKeeps
    <2>3. CASE AppendText
        BY <2>3, <1>4, AppendTextKeeps
    <2>4. CASE Motion \/ DeleteChar \/ Abort
        BY <2>4, <1>4, MovesKeep
    <2>5. CASE UnknownCommand
        BY <2>5, <1>4, UnknownCommandKeeps
    <2>6. CASE Operator
        BY <2>6, <1>4, OperatorKeeps
    <2>7. CASE Macro
        BY <2>7, <1>4, MacroKeeps
    <2>8. CASE ReplayMacro
        BY <2>8, <1>4, ReplayMacroKeeps
    <2>9. CASE AfterMacro
        BY <2>9, <1>4, AfterMacroKeeps
    <2>10. CASE InsertText \/ LeaveInsert
        BY <2>10, <1>4, InsertKeeps
    <2>11. CASE CompletionNext \/ NextCompletion
        BY <2>11, <1>4, CompletionKeeps
    <2>12. CASE EndCompletion
        BY <2>12, <1>4, EndCompletionKeeps
    <2>13. CASE LeaveIntro
        BY <2>13, <1>4, LeaveIntroKeeps
    <2>14. CASE AfterCompletion \/ AfterIntro \/ AfterScript
        BY <2>14, <1>4, AfterKeysKeeps
    <2>15. CASE DeleteSelection \/ ChangeSelection \/ EscapeVisual \/ TranslateVisual
        BY <2>15, <1>4, SelectionKeeps
    <2>16. CASE VisualToEx
        BY <2>16, <1>4, VisualToExKeeps
    <2>17. CASE NoVisualCommand
        BY <2>17, <1>4, NoVisualCommandKeeps
    <2>18. CASE TypeCommandLine \/ EndSearch \/ LeaveEx
        BY <2>18, <1>4, CommandLineKeeps
    <2>19. CASE ExCommand
        BY <2>19, <1>4, ExCommandKeeps
    <2> QED BY <1>4, <2>1, <2>2, <2>3, <2>4, <2>5, <2>6, <2>7, <2>8, <2>9, <2>10, <2>11, <2>12,
               <2>13, <2>14, <2>15, <2>16, <2>17, <2>18, <2>19 DEF Continue
<1> QED BY <1>1, <1>2, <1>3, <1>4 DEF Next, Process

(* The inductive invariant holds: modes, keys, calls and mappings fit      *)
(* together.                                                               *)
THEOREM Invariant == Spec => []Inv
<1>1. Init => Inv
    BY InitInv
<1>2. Inv /\ [Next]_vars => Inv'
    BY NextInv
<1> QED BY <1>1, <1>2, PTL DEF Spec

(* Every variable has its type: a key is never executed by a call that has *)
(* none, the stack of modes is never empty when its front is asked         *)
(* (mode_pool.cpp), a register holds one string at most.                   *)
THEOREM TypeCorrect == Spec => []TypeOK
<1>1. Inv => TypeOK
    BY DEF Inv
<1> QED BY <1>1, Invariant, PTL

(* Whatever keys, mappings, scripts and macros come, command mode is at    *)
(* the bottom of the stack and every mode lies over one it is entered from *)
(* (mode_pool.cpp).                                                        *)
THEOREM StackGrounded == Spec => []StackIsGrounded
<1>1. Inv => StackIsGrounded
    BY DEF Inv
<1> QED BY <1>1, Invariant, PTL

(* Unless keys are sent from a command line, by a script or a mapping of   *)
(* its mode, a mode lies over command mode, or is a completion over insert *)
(* or ex over a visual mode; and no visual mode is left, or moved in,      *)
(* without the start its assertions ask for (mode_visual.cpp:75, :89). The *)
(* hypothesis is needed: sendMultipleKeys called from a command line over  *)
(* a visual mode leaves command mode over it.                              *)
THEOREM ModesStacked ==
    ASSUME ~CommandLineSends
    PROVE  Spec => []ModesAreStacked
<1>1. Inv => ModesAreStacked
    BY DEF Inv, CommandLineIsRead, ModesAreStacked
<1> QED BY <1>1, Invariant, PTL

(* Unless a mapping of insert mode or the command line is longer than one  *)
(* key, a mode that takes keys one by one executes each with a buffer that *)
(* holds it alone, and no table of an earlier mode is looked up            *)
(* (mode_pool.cpp, YModePool::sendKey). The hypothesis is needed: a        *)
(* command that fails while a mapping waits for its second key leaves the  *)
(* first in the buffer.                                                    *)
THEOREM InputFresh ==
    ASSUME ~KeysWait
    PROVE  Spec => []InputIsFresh
<1>1. ASSUME Inv PROVE InputIsFresh
    <2>1. KeysAreRead
        BY <1>1 DEF Inv
    <2>2. OneKeyAtATime
        BY <2>1 DEF KeysAreRead, OneKeyAtATime
    <2>3. Idle => ~Executing /\ ~Among(frames, {"macro", "script"})
        BY DEF Idle, Executing, Among
    <2>4. MapModeIsFresh
        BY <2>1, <2>3 DEF KeysAreRead, MapModeIsFresh
    <2> QED BY <2>2, <2>4 DEF InputIsFresh
<1> QED BY <1>1, Invariant, PTL
-----------------------------------------------------------------------------
(* Esc is mapped in no table; Esc was typed between two commands; and      *)
(* where it may have got since then: to command mode, to a mode that       *)
(* executes it, or to one that has passed it on and waits.                 *)
NoEscMapped == \A m \in MapMode : \A e \in mappings[m] : e.from # <<"Esc">>
EscTyped == lastKey = [key |-> "Esc", fresh |-> TRUE]

EscIsOnItsWay ==
    \/ Idle /\ FrontMode = "command"
    \/ /\ Executing /\ view.inputBuffer = <<"Esc">>
       /\ Tail(frames) # <<>> =>
             /\ FrontMode \in {"command", "insert"}
             /\ Tail(Tail(frames)) = <<>> /\ Head(Tail(frames)).at \in {"intro", "completion"}
    \/ /\ ~Idle /\ Head(frames).at \in {"intro", "completion"} /\ Tail(frames) = <<>>
       /\ FrontMode = "command"

(* The invariant of Escape.                                                *)
EscInv == Inv /\ NoEscMapped /\ (EscTyped => EscIsOnItsWay)

(* A key that is not mapped by itself is not replaced.                     *)
LEMMA NotMapped ==
    ASSUME Tables, NEW k \in Key, NEW modes, \A m \in MapMode : \A e \in mappings[m] : e.from # <<k>>
    PROVE  ApplyMappings(<<k>>, modes).text = <<k>>
<1> DEFINE none == [text |-> <<k>>, pending |-> FALSE, noremap |-> FALSE]
           normal == ApplyTableOf("normal", none, modes)
           pendingOp == ApplyTableOf("pendingOp", normal, modes)
           visual == ApplyTableOf("visual", pendingOp, modes)
           insert == ApplyTableOf("insert", visual, modes)
           cmdline == ApplyTableOf("cmdline", insert, modes)
<1>1. ApplyMappings(<<k>>, modes) = IF mNoremap THEN none ELSE cmdline
    BY Zenon DEF ApplyMappings
<1>2. ASSUME NEW mode \in MapMode, NEW found \in FoundMapping, found.text = <<k>>
      PROVE  ApplyTableOf(mode, found, modes) \in FoundMapping /\ ApplyTableOf(mode, found, modes).text = <<k>>
    <2>1. ASSUME NEW e \in mappings[mode], Occurs(e.from, <<k>>) PROVE FALSE
        <3>1. e.from \in Seq(Key) /\ e.from # <<>>
            BY <2>1 DEF Tables, Mapping, IsMapping
        <3>2. Len(e.from) \in Nat \ {0} /\ Len(<<k>>) = 1
            BY <3>1, EmptySeq
        <3>3. PICK i \in 1..1 - Len(e.from) + 1 : SubSeq(<<k>>, i, i + Len(e.from) - 1) = e.from
            BY <2>1, <3>2 DEF Occurs
        <3>4. i = 1 /\ Len(e.from) = 1
            BY <3>2, <3>3
        <3>5. SubSeq(<<k>>, 1, 1) = <<k>>
            <4>1. <<k>> \in Seq(Key) /\ Len(<<k>>) = 1
                OBVIOUS
            <4> QED BY <4>1, SubSeqFull
        <3> QED BY <3>3, <3>4, <3>5, <2>1
    <2>2. { e \in mappings[mode] : Occurs(e.from, found.text) } = {}
        BY <2>1, <1>2
    <2>3. ApplyTable(found, mappings[mode]) = [found EXCEPT !.pending = Pending(found.text, mappings[mode])]
        BY <2>2, Zenon DEF ApplyTable
    <2>4. ApplyTable(found, mappings[mode]).text = <<k>>
        BY <2>3, <1>2 DEF FoundMapping
    <2>5. ApplyTableOf(mode, found, modes).text = <<k>>
        BY <2>4, <1>2 DEF ApplyTableOf
    <2> QED BY <2>5, ApplyTableOfType
<1>3. none \in FoundMapping /\ none.text = <<k>>
    BY DEF FoundMapping
<1> HIDE DEF none
<1>4. {"normal", "pendingOp", "visual", "insert", "cmdline"} \subseteq MapMode
    BY DEF MapMode
<1>5. normal \in FoundMapping /\ normal.text = <<k>>
    BY <1>2, <1>3, <1>4
<1> HIDE DEF normal
<1>6. pendingOp \in FoundMapping /\ pendingOp.text = <<k>>
    BY <1>2, <1>4, <1>5
<1> HIDE DEF pendingOp
<1>7. visual \in FoundMapping /\ visual.text = <<k>>
    BY <1>2, <1>4, <1>6
<1> HIDE DEF visual
<1>8. insert \in FoundMapping /\ insert.text = <<k>>
    BY <1>2, <1>4, <1>7
<1> HIDE DEF insert
<1>9. cmdline.text = <<k>>
    BY <1>2, <1>4, <1>8
<1> QED BY <1>1, <1>3, <1>9

(* Esc that is sent with an empty buffer is what the mode in front         *)
(* executes next.                                                          *)
LEMMA EscSent ==
    ASSUME Tables, NoEscMapped, "Esc" \in Key, NEW v, Sound(v), v.inputBuffer = <<>>,
           NEW callers \in Seq(Frame), SendKey(v, "Esc", callers)
    PROVE  /\ view'.stack = v.stack /\ view'.inputBuffer = <<"Esc">>
           /\ frames' # <<>> /\ Head(frames').at = "exec" /\ Tail(frames') = callers
<1> DEFINE modes == mapMode \union {MapModeOf(Head(v.stack))}
           fed == v.inputBuffer \o <<"Esc">>
           found == ApplyMappings(fed, modes)
<1>1. found.text = fed => /\ view' = [v EXCEPT !.inputBuffer = fed]
                            /\ frames' = << ExecFrame(found.pending) >> \o callers
    BY Zenon DEF SendKey
<1>2. fed = <<"Esc">>
    BY ConcatEmptySeq
<1>3. found.text = fed
    BY <1>2, NotMapped DEF NoEscMapped
<1>4. found \in FoundMapping
    <2>1. fed \in Seq(Key)
        BY <1>2
    <2> HIDE DEF fed, modes
    <2> QED BY <2>1, ApplyMappingsType
<1>5. ExecFrame(found.pending) \in Frame /\ ExecFrame(found.pending).at = "exec"
    BY <1>4 DEF ExecFrame, Frame, FoundMapping
<1>6. v \in View
    BY DEF Sound
<1> DEFINE f == ExecFrame(found.pending)
<1>7. frames' = << f >> \o callers /\ f \in Frame /\ f.at = "exec"
    BY <1>1, <1>3, <1>5
<1>8. view'.stack = v.stack /\ view'.inputBuffer = <<"Esc">>
    BY <1>1, <1>2, <1>3, <1>6 DEF View
<1> HIDE DEF f
<1>9. /\ << f >> \o callers # <<>> /\ Head(<< f >> \o callers) = f /\ Tail(<< f >> \o callers) = callers
    BY <1>7, Calls
<1> QED BY <1>7, <1>8, <1>9

(* No :map command maps Esc if none of those given does.                   *)
LEMMA MapsKeep ==
    ASSUME NoEscMapped, \A c \in MapCommands : c.from # <<"Esc">>, Next \/ UNCHANGED mappings
    PROVE  NoEscMapped'
<1>1. CASE UNCHANGED mappings
    BY <1>1 DEF NoEscMapped
<1>2. CASE MapCommand
    <2>1. PICK command \in MapCommands :
            mappings' = [ m \in MapMode |-> IF m \in TablesOf(command.type)
                                           THEN Mapped(mappings[m], command) ELSE mappings[m] ]
        BY <1>2 DEF MapCommand
    <2>2. ASSUME NEW table, NEW e \in Mapped(table, command) PROVE e \in table \/ e.from = command.from
        <3>1. e \in table \/ e = [from |-> command.from, to |-> command.to, noremap |-> command.noremap]
            BY <2>2, Zenon DEF Mapped
        <3> QED BY <3>1
    <2>3. ASSUME NEW m \in MapMode, NEW e \in mappings'[m] PROVE e \in mappings[m] \/ e.from = command.from
        <3>1. mappings'[m] = IF m \in TablesOf(command.type) THEN Mapped(mappings[m], command) ELSE mappings[m]
            BY <2>1
        <3> QED BY <3>1, <2>2, <2>3
    <2> QED BY <2>3 DEF NoEscMapped
<1> QED BY <1>1, <1>2 DEF Next, Process

(* A command that ends in command mode has brought Esc there.              *)
LEMMA DoneOnItsWay ==
    ASSUME Inv, ~Idle, NEW v, v \in View, v.stack # <<>>, Head(v.stack) = "command", NEW state, Done(v, state),
           Tail(frames) # <<>> =>
               Tail(Tail(frames)) = <<>> /\ Head(Tail(frames)).at \in {"intro", "completion"}
    PROVE  EscIsOnItsWay'
<1>1. frames' = Tail(frames) /\ (view' = v \/ view' = Purged(v))
    BY DEF Done, Finish
<1>2. Purged(v).stack = v.stack
    BY DEF Purged, View
<1>3. FrontMode' = "command"
    BY <1>1, <1>2 DEF FrontMode
<1> QED BY <1>1, <1>3 DEF EscIsOnItsWay, Idle

(* A mode that executes Esc leads to command mode, or passes Esc on to a   *)
(* mode that does: the insert mode under a completion, the command mode    *)
(* that follows the intro.                                                 *)
LEMMA EscExecuted ==
    ASSUME Inv, NoEscMapped, "Esc" \in Key, Continue \/ MapCommand,
           Executing, view.inputBuffer = <<"Esc">>,
           Tail(frames) # <<>> =>
               /\ FrontMode \in {"command", "insert"}
               /\ Tail(Tail(frames)) = <<>> /\ Head(Tail(frames)).at \in {"intro", "completion"}
    PROVE  EscIsOnItsWay'
<1>1. /\ ~Idle /\ frames # <<>> /\ Head(frames).at = "exec"
      /\ Sound(view) /\ FrontMode = view.stack[1] /\ Head(view.stack) = view.stack[1] /\ FrontMode \in Mode
      /\ Tables
    BY InvTypes, StackFacts DEF Executing, Idle
<1>2. view.inputBuffer[1] = "Esc" /\ Last(view.inputBuffer) = "Esc" /\ FirstKey = "Esc"
      /\ \A k : <<k>> = view.inputBuffer => k = "Esc"
    BY DEF Last, FirstKey
<1>3. ASSUME NEW v, Sound(v), v.stack[1] = "command", NEW state, Done(v, state) PROVE EscIsOnItsWay'
    <2>1. v \in View /\ v.stack # <<>> /\ Head(v.stack) = "command"
        BY <1>3, StackFacts DEF Sound
    <2> QED BY <2>1, <1>1, <1>3, DoneOnItsWay
<1>4. ASSUME NEW v, Sound(v), v.inputBuffer = <<>>, v.stack[1] \in {"command", "insert"}, NEW at \in {"intro", "completion"},
             SendKey(v, "Esc", << WaitFrame(at) >> \o Tail(frames)), Tail(frames) = <<>>
      PROVE  EscIsOnItsWay'
    <2> DEFINE callers == << WaitFrame(at) >> \o Tail(frames)
    <2>1. Head(frames).pending \in BOOLEAN
        BY <1>1, InvTypes DEF Frame
    <2>2. WaitFrame(at) \in Frame /\ WaitFrame(at).at = at
        BY <1>1, <2>1, WaitFrameType
    <2>3. Tail(frames) \in Seq(Frame)
        BY <1>1, InvTypes
    <2> DEFINE f == WaitFrame(at)
               t == Tail(frames)
    <2>4. f \in Frame /\ f.at = at /\ t \in Seq(Frame) /\ t = <<>> /\ callers = << f >> \o t
        BY <2>2, <2>3, <1>4
    <2> HIDE DEF f, t, callers
    <2>5. callers \in Seq(Frame) /\ callers # <<>> /\ Head(callers) = f /\ Tail(callers) = t
        BY <2>4, Calls
    <2>6. SendKey(v, "Esc", callers)
        BY <1>4 DEF callers
    <2>7. /\ view'.stack = v.stack /\ view'.inputBuffer = <<"Esc">>
          /\ frames' # <<>> /\ Head(frames').at = "exec" /\ Tail(frames') = callers
        BY <2>5, <2>6, <1>1, <1>4, EscSent
    <2>8. FrontMode' \in {"command", "insert"}
        BY <2>7, <1>4, StackFacts DEF FrontMode
    <2> QED BY <2>4, <2>5, <2>7, <2>8 DEF EscIsOnItsWay, Executing, Idle
<1>5. Sound(PopTo(view, "command")) /\ PopTo(view, "command").stack[1] = "command"
    BY <1>1, PopToSound
<1>6. ASSUME FrontMode \in VisualMode \union {"search"}, NEW v, Sound(v), v.stack = view.stack
      PROVE  Sound(Pop(v, TRUE)) /\ Pop(v, TRUE).stack[1] = "command"
    <2>1. Below(v.stack[1]) = {"command"}
        BY <1>1, <1>6 DEF Below, VisualMode
    <2> QED BY <2>1, <1>6, PopSound
<1>7. ~NextOfKeys /\ ~AfterMacro /\ ~AfterCompletion /\ ~AfterIntro /\ ~AfterScript
    BY <1>1 DEF NextOfKeys, AfterMacro, AfterCompletion, AfterIntro, AfterScript, Returns
<1>8. ~GotoMode /\ ~AppendText /\ ~Motion /\ ~DeleteChar /\ ~Macro /\ ~ReplayMacro
    BY <1>2 DEF GotoMode, AppendText, Motion, DeleteChar, Macro, ReplayMacro, Executes, ModeKeys
<1>9. ~UnknownCommand /\ ~Operator /\ ~InsertText /\ ~CompletionNext /\ ~NextCompletion
      /\ ~NoVisualCommand /\ ~TypeCommandLine /\ ~ExCommand /\ ~MapCommand
    BY <1>2 DEF UnknownCommand, Operator, Operators, InsertText, CompletionNext, NextCompletion,
                NoVisualCommand, TypeCommandLine, ExCommand, MapCommand
<1>10. ~DeleteSelection /\ ~ChangeSelection /\ ~TranslateVisual /\ ~VisualToEx
    BY <1>2 DEF DeleteSelection, ChangeSelection, TranslateVisual, VisualToEx, Executes
<1>11. CASE Abort
    BY <1>1, <1>3, <1>11 DEF Abort, Executes, Runs
<1>12. CASE LeaveInsert
    BY <1>3, <1>5, <1>12 DEF LeaveInsert
<1>13. CASE EndCompletion
    <2>1. FrontMode = "completion" /\ SendKey(Pop(view, TRUE), "Esc", << WaitFrame("completion") >> \o Tail(frames))
        BY <1>2, <1>13 DEF EndCompletion, Runs
    <2>2. Sound(Pop(view, TRUE)) /\ Pop(view, TRUE).inputBuffer = <<>> /\ Pop(view, TRUE).stack[1] = "insert"
        <3>1. Below("completion") = {"insert"}
            BY DEF Below
        <3> QED BY <3>1, <2>1, <1>1, PopSound
    <2> QED BY <2>1, <2>2, <1>4
<1>14. CASE LeaveIntro
    <2> DEFINE u == [view EXCEPT !.cursor = 0]
               v == Change(u, "command", TRUE)
    <2>1. FrontMode = "intro" /\ SendKey(v, "Esc", << WaitFrame("intro") >> \o Tail(frames))
        BY <1>2, <1>14 DEF LeaveIntro, Runs
    <2>2. Sound(u) /\ u.stack = view.stack
        BY <1>1, ColumnFacts, CursorSound
    <2> HIDE DEF u
    <2>3. Sound(v) /\ v.stack[1] = "command" /\ v.inputBuffer = <<>>
        <3>1. Below("intro") \subseteq Below("command") /\ "command" \in Mode
            BY DEF Below, VisualMode, Mode
        <3>2. Below(u.stack[1]) \subseteq Below("command") /\ u.stack[1] \notin {"completion", "ex"}
            BY <3>1, <2>1, <2>2, <1>1
        <3>3. /\ Sound(Change(u, "command", TRUE)) /\ Change(u, "command", TRUE).stack[1] = "command"
              /\ Change(u, "command", TRUE).inputBuffer = <<>>
            BY <3>1, <3>2, <2>2, ChangeSound
        <3> QED BY <3>3
    <2> HIDE DEF v
    <2> QED BY <2>1, <2>3, <1>4
<1>15. CASE EscapeVisual
    <2>1. FrontMode \in VisualMode /\ Done(Pop(view, TRUE), "ok")
        BY <1>15 DEF EscapeVisual, Runs
    <2> QED BY <2>1, <1>1, <1>3, <1>6
<1>16. CASE EndSearch
    <2>1. PICK column \in Column : Done(Pop([view EXCEPT !.cursor = column], TRUE), "ok")
        BY <1>16 DEF EndSearch
    <2> DEFINE w == [view EXCEPT !.cursor = column]
    <2>2. Sound(w) /\ w.stack = view.stack
        BY <1>1, CursorSound
    <2>3. Done(Pop(w, TRUE), "ok")
        BY <2>1
    <2>4. FrontMode = "search"
        BY <1>16 DEF EndSearch, Runs
    <2> HIDE DEF w
    <2> QED BY <2>2, <2>3, <2>4, <1>3, <1>6
<1>17. CASE LeaveEx
    BY <1>2, <1>3, <1>5, <1>17 DEF LeaveEx
<1> QED BY <1>7, <1>8, <1>9, <1>10, <1>11, <1>12, <1>13, <1>14, <1>15, <1>16, <1>17 DEF Continue

(* No step leads Esc astray.                                               *)
LEMMA EscKeeps ==
    ASSUME EscInv, "Esc" \in Key, \A c \in MapCommands : c.from # <<"Esc">>, [MCNext]_mcVars
    PROVE  EscInv'
<1>1. Inv /\ NoEscMapped /\ Tables /\ Sound(view) /\ FrontMode = view.stack[1]
    BY InvTypes DEF EscInv
<1>2. CASE UNCHANGED mcVars
    <2>1. /\ view' = view /\ mapMode' = mapMode /\ mappings' = mappings /\ mNoremap' = mNoremap
          /\ recording' = recording /\ register' = register /\ frames' = frames /\ result' = result
          /\ lastKey' = lastKey
        BY <1>2 DEF mcVars, vars
    <2>2. [Next]_vars
        BY <2>1 DEF vars
    <2>3. Inv'
        BY <2>2, <1>1, NextInv
    <2>4. NoEscMapped' /\ EscTyped' = EscTyped /\ EscIsOnItsWay' = EscIsOnItsWay
        BY <2>1, <1>1 DEF NoEscMapped, EscTyped, EscIsOnItsWay, Idle, Executing, FrontMode
    <2> QED BY <2>3, <2>4 DEF EscInv
<1>3. ASSUME NEW k \in TypedKeys, MCType(k) PROVE EscInv'
    <2>1. /\ Idle /\ SendKey(view, k, <<>>) /\ mappings' = mappings
          /\ lastKey' = [key |-> k, fresh |-> view.inputBuffer = <<>>]
        BY <1>3 DEF MCType, Type
    <2>2. Inv'
        BY <1>1, <1>3, <2>1, TypeKeeps DEF MCType
    <2>3. NoEscMapped'
        BY <1>1, <2>1, MapsKeep
    <2>4. ASSUME EscTyped' PROVE EscIsOnItsWay'
        <3>0. lastKey'.key = "Esc" /\ lastKey'.fresh = TRUE
            BY <2>4 DEF EscTyped
        <3>1. k = "Esc" /\ view.inputBuffer = <<>>
            BY <3>0, <2>1
        <3>2. /\ view'.stack = view.stack /\ view'.inputBuffer = <<"Esc">>
              /\ frames' # <<>> /\ Head(frames').at = "exec" /\ Tail(frames') = <<>>
            BY <2>1, <3>1, <1>1, EscSent, EmptySeq
        <3> QED BY <3>2 DEF EscIsOnItsWay, Executing, Idle
    <2> QED BY <2>2, <2>3, <2>4 DEF EscInv
<1>4. CASE MCProcess
    <2>1. Process /\ lastKey' = lastKey
        BY <1>4 DEF MCProcess
    <2>2. Inv' /\ NoEscMapped'
        BY <2>1, <1>1, NextInv, MapsKeep DEF Next
    <2>3. Continue \/ MapCommand
        BY <2>1 DEF Process
    <2>4. ASSUME EscTyped' PROVE EscIsOnItsWay'
        <3>1. EscTyped
            BY <2>1, <2>4 DEF EscTyped
        <3>2. EscIsOnItsWay
            BY <3>1 DEF EscInv
        <3>3. ~Idle
            BY <2>3 DEF Continue, MapCommand, NextOfKeys, GotoMode, AppendText, Motion, DeleteChar, Abort,
                        UnknownCommand, Operator, Macro, ReplayMacro, AfterMacro, InsertText, LeaveInsert,
                        CompletionNext, NextCompletion, EndCompletion, AfterCompletion, LeaveIntro, AfterIntro,
                        DeleteSelection, ChangeSelection, EscapeVisual, TranslateVisual, VisualToEx,
                        NoVisualCommand, TypeCommandLine, EndSearch, LeaveEx, ExCommand, AfterScript,
                        Executes, Runs, Returns
        <3>4. CASE /\ Executing /\ view.inputBuffer = <<"Esc">>
                   /\ Tail(frames) # <<>> =>
                         /\ FrontMode \in {"command", "insert"}
                         /\ Tail(Tail(frames)) = <<>> /\ Head(Tail(frames)).at \in {"intro", "completion"}
            BY <3>4, <2>3, <1>1, EscExecuted
        <3>5. CASE /\ ~Idle /\ Head(frames).at \in {"intro", "completion"} /\ Tail(frames) = <<>>
                   /\ FrontMode = "command"
            <4>1. ~NextOfKeys /\ ~AfterMacro /\ ~AfterScript /\ \A modes : ~Runs(modes)
                BY <3>5 DEF NextOfKeys, AfterMacro, AfterScript, Returns, Runs
            <4>2. AfterCompletion \/ AfterIntro
                BY <4>1, <2>3
                   DEF Continue, MapCommand, GotoMode, AppendText, Motion, DeleteChar, Abort,
                       UnknownCommand, Operator, Macro, ReplayMacro, InsertText, LeaveInsert,
                       CompletionNext, NextCompletion, EndCompletion, LeaveIntro,
                       DeleteSelection, ChangeSelection, EscapeVisual, TranslateVisual, VisualToEx,
                       NoVisualCommand, TypeCommandLine, EndSearch, LeaveEx, ExCommand, Executes
            <4>3. \E state : Done(view, state)
                BY <4>2 DEF AfterCompletion, AfterIntro
            <4>4. view \in View /\ view.stack # <<>> /\ Head(view.stack) = "command"
                BY <3>5, <1>1 DEF Sound, FrontMode
            <4> QED BY <4>3, <4>4, <3>5, <1>1, DoneOnItsWay
        <3> QED BY <3>2, <3>3, <3>4, <3>5 DEF EscIsOnItsWay
    <2> QED BY <2>2, <2>4 DEF EscInv
<1> QED BY <1>2, <1>3, <1>4 DEF MCNext

(* Esc typed between two commands leads to command mode from every mode    *)
(* and through all of them, whatever else is mapped, recorded or sent      *)
(* (mode_pool.cpp and the modes). Esc itself must not be mapped: a mapping *)
(* may send it anywhere.                                                   *)
THEOREM EscLeads ==
    ASSUME "Esc" \in Key,
           \A m \in MapMode : \A e \in InitialMappings[m] : e.from # <<"Esc">>,
           \A c \in MapCommands : c.from # <<"Esc">>
    PROVE  MCSpec => []EscReturns
<1>1. MCInit => EscInv
    <2>1. MCInit => Init /\ ~EscTyped
        BY DEF MCInit, EscTyped
    <2>2. Init => NoEscMapped
        BY DEF Init, NoEscMapped
    <2> QED BY <2>1, <2>2, InitInv DEF EscInv
<1>2. EscInv /\ [MCNext]_mcVars => EscInv'
    BY EscKeeps
<1>3. EscInv => EscReturns
    BY DEF EscInv, EscIsOnItsWay, EscTyped, EscReturns, Executing
<1> QED BY <1>1, <1>2, <1>3, PTL DEF MCSpec
=============================================================================

----------------------------- MODULE MCKeyInput -----------------------------
(***************************************************************************)
(* KeyInput on small instances, with two history variables: the last key   *)
(* typed and whether the input buffer was empty before it, and the keys    *)
(* typed since the recording began.                                        *)
(***************************************************************************)
EXTENDS KeyInput

VARIABLES lastKey, typed

mcVars == << vars, lastKey, typed >>

(* Keys, registers and mappings for the runs.                              *)
AllKeys == { "i", "a", "v", "V", "w", "x", "c", "d", ":", "/", "q", "@",
             "Enter", "Esc", "C-n" }
NoRegister == { <<>> }
OneRegister == { << << "v", "c" >> >> }
SomeRegisters == { << << "v", "c" >> >>, << << "w", "d", "x" >> >> }
NoKeys == <<>>
OneScript == << "i", "x", "Esc" >>

Map(from, to) == [from |-> from, to |-> to, noremap |-> FALSE]
NoMappings == [m \in MapMode |-> {}]
SomeMappings ==
    [ NoMappings EXCEPT
        !["normal"] = { Map(<<"C-n", "x">>, <<"d", "w">>) },
        !["pendingOp"] = { Map(<<"x">>, <<"w">>) },
        !["insert"] = { Map(<<"w">>, <<"Esc", "@">>) },
        !["cmdline"] = { Map(<<"x">>, <<"w", "a">>) } ]

(* One that ends the mode it is for, one that takes a mapping away, and one*)
(* for three modes at a time.                                              *)
Command(type, from, to) ==
    [type |-> type, from |-> from, to |-> to, noremap |-> FALSE, remove |-> to = <<>>]
NoCommands == {}
SomeCommands ==
    { Command("cmdline", <<"c">>, <<"Esc">>), Command("insert", <<"w">>, <<>>),
      [Command("global", <<"x">>, <<"d">>) EXCEPT !.noremap = TRUE] }
NoOrder == <<>>
SomeOrder == << <<"C-n", "x">>, <<"c">>, <<"w">>, <<"x">> >>

MCInit == Init /\ lastKey = [key |-> "none", fresh |-> TRUE] /\ typed = <<>>

(* A macro that was recorded playing itself never ends; none is recorded   *)
(* here.                                                                   *)
MCType(k) ==
    /\ Type(k) /\ UNCHANGED mappings
    /\ recording => k # "@"
    /\ lastKey' = [key |-> k, fresh |-> view.inputBuffer = <<>>]
    /\ typed' = IF recording THEN Append(typed, k) ELSE <<>>

(* The key that ends a completion is recorded when it is typed and when it *)
(* is given back.                                                          *)
MCProcess ==
    /\ Process
    /\ typed' = IF recording /\ EndCompletion THEN Append(typed, FirstKey) ELSE typed
    /\ UNCHANGED lastKey

MCNext == MCProcess \/ \E k \in TypedKeys : MCType(k)

MCSpec == MCInit /\ [][MCNext]_mcVars

MCFairSpec == MCSpec /\ WF_mcVars(MCProcess)

-----------------------------------------------------------------------------
(* Escape leads to command mode, from any other mode and through all of    *)
(* them, a completion over insert or a command line over a selection       *)
(* included, unless it comes in the middle of a command (mode_pool.cpp).   *)
EscReturns == Idle /\ lastKey = [key |-> "Esc", fresh |-> TRUE] => FrontMode = "command"

(* A register holds the keys typed while it was recorded, whatever modes   *)
(* they went through: none is lost or out of order, and the stopping q is  *)
(* not there.  A key that ends a completion is there twice.                *)
Contents == IF register = <<>> THEN <<>> ELSE register[1]
RecordsWhatIsTyped ==
    Idle => IF recording THEN Contents = typed
            ELSE typed # <<>> => Contents = Front(typed)

(* The user gets the keyboard back.                                        *)
KeysAreProcessed == ~Idle ~> Idle


=============================================================================

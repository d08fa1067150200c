------------------------------ MODULE Options ------------------------------
(***************************************************************************)
(* The options (src/libyzis/option.cpp, internal_options.cpp): what they   *)
(* may hold, where they are kept and who reads them, the file they are     *)
(* saved to, and what of them a view or a buffer has put into effect.      *)
(*                                                                         *)
(* An entry such as `ts+=2' is taken apart into the name, what is done     *)
(* (`op', with `no' and `inv' in front of a name too) and a text.  A text  *)
(* is a sequence of pieces: the items between the commas of a list or a    *)
(* map, or the parts of a string.  A key is a group, which is a path and a *)
(* view (0: none), with the name of an option; a path is a sequence of     *)
(* pieces, as one path may begin with another.                             *)
(*                                                                         *)
(* Number says what the texts that are numbers mean (toInt), NumberText how*)
(* they are written, KeyValue what is before and behind the colon of the   *)
(* pieces that have one.                                                   *)
(***************************************************************************)
EXTENDS Integers, SequencesExt

CONSTANTS Buffer, BufferOf,     \* the views, 1.., and their buffers
          InternalOptions, KeyValue,
          IsNumber(_), Number(_), NumberText(_),
          Rank                  \* of the paths and `Global', by name

VARIABLES
    pool,           \* [values, options, group]: mOptions, options, currentGroup
    path,           \* of each buffer
    attributes,     \* what a view took over by updateInternalAttributes
    inEffect,       \* the syntax and encoding a buffer was given
    conf            \* the lines of yzis.conf

vars == << pool, path, attributes, inEffect, conf >>

View == DOMAIN BufferOf
None == 0
Empty == <<>>       \* the text "", which split() makes the list of one ""

(* `reader' is whose method reads it, which is not always its context.     *)
Option(name, alias, ctx, scope, kind, default, apply) ==
    [name |-> name, aliases |-> {name} \cup alias, ctx |-> ctx, scope |-> scope, kind |-> kind,
     default |-> default, apply |-> apply, reader |-> ctx, min |-> -1000, allValues |-> {}, allKeys |-> {}]

-----------------------------------------------------------------------------
(* The values and their texts: toString, and the FromString of each type.  *)
BooleanText(truth) == IF truth THEN {<<"yes">>, <<"on">>, <<"true">>} ELSE {<<"no">>, <<"off">>, <<"false">>}

ListFromString(text) == IF text = Empty THEN << "" >> ELSE text
ListToString(list) == IF list = << "" >> THEN Empty ELSE list

MapFromString(text) ==
    LET keys == { KeyValue[text[n]].key : n \in DOMAIN text }
    IN  [ k \in keys |-> KeyValue[text[SelectLastInSeq(text, LAMBDA p : KeyValue[p].key = k)]].value ]
MapToString(map) ==
    SetToSeq({ CHOOSE p \in DOMAIN KeyValue : KeyValue[p] = [key |-> k, value |-> map[k]] : k \in DOMAIN map })

Refused == [ok |-> FALSE]
Accepted(value) == [ok |-> TRUE, value |-> value]
AcceptedIf(fits, value) == IF fits THEN Accepted(value) ELSE Refused

FromString(kind, text) ==
    CASE kind = "boolean" -> AcceptedIf(text \in BooleanText(TRUE) \cup BooleanText(FALSE), text \in BooleanText(TRUE))
      [] kind = "integer" -> AcceptedIf(IsNumber(text), Number(text))
      [] kind = "list"    -> Accepted(ListFromString(text))
      [] kind = "map"     -> LET pieces == SelectSeq(text, LAMBDA p : p # "")
                             IN  AcceptedIf(ToSet(pieces) \subseteq DOMAIN KeyValue, MapFromString(pieces))
      [] kind = "string"  -> Accepted(text)

ValueToString(kind, value) ==
    CASE kind = "boolean" -> IF value THEN << "true" >> ELSE << "false" >>
      [] kind = "integer" -> NumberText(value)
      [] kind = "list"    -> ListToString(value)
      [] kind = "map"     -> MapToString(value)
      [] kind = "string"  -> value

(* What the reading methods answer when no value is stored.                *)
Unset(kind) ==
    CASE kind = "boolean" -> FALSE
      [] kind = "integer" -> 0
      [] kind \in {"list", "map", "string"} -> <<>>

-----------------------------------------------------------------------------
(* match: a letter behind the name makes it another; only a boolean takes  *)
(* `no' and `inv'.                                                         *)
Match(o, entry) ==
    entry.name \in o.aliases /\ (o.kind = "boolean" \/ entry.op \notin {"no", "inv"})

(* readValue: without an action the value is the whole entry.              *)
Action(entry) == IF entry.op \in {"", "!", "no", "inv"} THEN "invalid" ELSE entry.op
ReadValue(entry) == IF Action(entry) = "invalid" THEN << entry.name >> ELSE entry.text

BooleanSetValue(o, entry, value) ==
    CASE entry.op = ""             -> Accepted(TRUE)
      [] entry.op = "no"           -> Accepted(FALSE)
      [] entry.op \in {"!", "inv"} -> Accepted(~value)
      [] entry.op = "&"            -> Accepted(o.default)
      [] entry.op = "="            -> FromString("boolean", entry.text)
      [] entry.op \in {"+=", "^=", "-="} -> Refused

(* `^=' multiplies.                                                        *)
Changed(op, old, n) == CASE op = "=" -> n [] op = "+=" -> old + n [] op = "^=" -> old * n [] op = "-=" -> old - n
AcceptedInteger(o, n) == AcceptedIf(n >= o.min, n)
IntegerSetValue(o, entry, value) ==
    LET n == FromString("integer", ReadValue(entry))
    IN  IF entry.op = "&" THEN AcceptedInteger(o, o.default)
        ELSE IF n.ok THEN AcceptedInteger(o, Changed(entry.op, value, n.value)) ELSE Refused

AcceptedString(o, text) == AcceptedIf(o.allValues = {} \/ text \in o.allValues, text)
StringSetValue(o, entry, value) ==
    LET text == ReadValue(entry)
        set == CASE entry.op = "&"  -> o.default
                 [] entry.op = "="  -> text
                 [] entry.op = "+=" -> value \o text
                 [] entry.op = "^=" -> text \o value
                 [] entry.op = "-=" -> ReplaceAllSubSeqs(<<>>, text, value)
    IN  IF Action(entry) = "invalid" THEN Refused ELSE AcceptedString(o, set)

(* The name alone is taken for the list of itself.                         *)
ListSetValue(o, entry, value) ==
    LET list == ListFromString(ReadValue(entry))
        set == CASE entry.op = "&"  -> o.default
                 [] entry.op = "+=" -> value \o list
                 [] entry.op = "^=" -> list \o value
                 [] entry.op = "-=" -> SelectSeq(value, LAMBDA item : item \notin ToSet(list))
                 [] OTHER           -> list
    IN  AcceptedIf(o.allValues = {} \/ ToSet(set) \subseteq o.allValues, set)

AcceptedMap(o, map) ==
    AcceptedIf(/\ DOMAIN map \subseteq o.allKeys
               /\ o.allValues = {} \/ { map[k] : k \in DOMAIN map } \subseteq o.allValues, map)
ChangedMap(op, old, map) ==
    CASE op = "=" -> map
      [] op \in {"+=", "^="} -> [ k \in DOMAIN old \cup DOMAIN map |-> IF k \in DOMAIN map THEN map[k] ELSE old[k] ]
      [] op = "-=" -> [ k \in DOMAIN old \ DOMAIN map |-> old[k] ]
MapSetValue(o, entry, value) ==
    LET read == FromString("map", ReadValue(entry))
    IN  IF entry.op = "&" THEN AcceptedMap(o, o.default)
        ELSE IF Action(entry) # "invalid" /\ read.ok THEN AcceptedMap(o, ChangedMap(entry.op, value, read.value))
        ELSE Refused

SetValue(o, entry, value) ==
    CASE o.kind = "boolean" -> BooleanSetValue(o, entry, value)
      [] o.kind = "integer" -> IntegerSetValue(o, entry, value)
      [] o.kind = "string"  -> StringSetValue(o, entry, value)
      [] o.kind = "list"    -> ListSetValue(o, entry, value)
      [] o.kind = "map"     -> MapSetValue(o, entry, value)

-----------------------------------------------------------------------------
(* Where values are kept.                                                  *)
Group(p, view) == [path |-> p, view |-> view]
Global == Group(<< "Global" >>, None)
Key(group, name) == [group |-> group, name |-> name]
With(values, key, value) == [ k \in DOMAIN values \cup {key} |-> IF k = key THEN value ELSE values[k] ]

(* getLocalOption and its kin: the local value, else the global one.       *)
Stored(values, key) == key \in DOMAIN values
Read(values, group, o) ==
    IF Stored(values, Key(group, o.name)) THEN values[Key(group, o.name)]
    ELSE IF Stored(values, Key(Global, o.name)) THEN values[Key(Global, o.name)]
    ELSE Unset(o.kind)

(* fillOptionFromString: a value that is not there yet starts from the     *)
(* global one, or from the default.                                        *)
Filled(in, key, set) ==
    [ ok |-> set.ok, pool |-> IF set.ok THEN [in EXCEPT !.values = With(@, key, set.value)] ELSE in ]
FillOptionFromString(in, o, entry) ==
    LET key == Key(in.group, o.name)
        old == IF Stored(in.values, key) \/ Stored(in.values, Key(Global, o.name))
               THEN Read(in.values, in.group, o) ELSE o.default
    IN  Filled(in, key, SetValue(o, entry, old))

(* setOptionFromString up to the applying.  The group stays what it was    *)
(* made here.                                                              *)
Matching(in, entry) ==
    SelectInSeq(in.options, LAMBDA o : o.ctx # "None" /\ Match(o, entry))
ScopeOf(o, userScope) == IF userScope = "Default" THEN o.scope ELSE userScope
GroupOfFirst(o, scope, b, v) ==     \* Slip: the buffer's group, whoever reads the option
    IF scope = "Local" /\ b # None THEN Group(path[b], None) ELSE Global
GroupOf(o, scope, b, v) ==
    CASE scope = "Local" /\ o.ctx = "Buffer" /\ b # None -> Group(path[b], None)
      [] scope = "Local" /\ o.ctx = "View" /\ v # None   -> Group(path[BufferOf[v]], v)
      [] OTHER                                           -> Global

SetResult(filled, o) == [ok |-> filled.ok, matched |-> TRUE, pool |-> filled.pool, option |-> o]
SetOption(in, o, entry, group) == SetResult(FillOptionFromString([in EXCEPT !.group = group], o, entry), o)
SetOptionFromString(in, entry, userScope, b, v) ==
    LET n == Matching(in, entry)
        o == in.options[n]
    IN  IF n = 0 THEN [ok |-> FALSE, matched |-> FALSE, pool |-> in]
        ELSE SetOption(in, o, entry, GroupOf(o, ScopeOf(o, userScope), b, v))

(* A line of the file is a group or an entry `name=text'.                  *)
GroupLine(group) == [group |-> group]
EntryLine(name, text) == [name |-> name, op |-> "=", text |-> text]

(* setQStringEntry: an option no one knows becomes one of no context.      *)
SetQStringEntry(in, name, text) ==
    LET n == SelectInSeq(in.options, LAMBDA o : o.name = name)
    IN  IF n > 0 THEN FillOptionFromString(in, in.options[n], EntryLine(name, text)).pool
        ELSE [in EXCEPT !.options = Append(@, Option(name, {}, "None", "Global", "string", Empty, "nothing")),
                        !.values = With(@, Key(in.group, name), text)]

-----------------------------------------------------------------------------
(* The file.                                                               *)
Entered(in, line, set) == IF set.matched THEN set.pool ELSE SetQStringEntry(in, line.name, line.text)
LoadLine(in, line) ==
    IF "group" \in DOMAIN line THEN [in EXCEPT !.group = line.group]
    ELSE Entered(in, line, SetOptionFromString(in, line, "Default", None, None))

LoadFrom(in, lines) == FoldLeft(LoadLine, in, lines)

(* saveTo: the keys in the order of their names, but for those of          *)
(* `HL Cache'.  A view's `-' comes before what continues a path, and that  *)
(* before the `\' in front of the option's name.                           *)
GroupBefore(g, h) ==
    CASE g.view # None /\ h.view # None ->
           Rank[g.path] < Rank[h.path] \/ (g.path = h.path /\ g.view < h.view)
      [] g.view = None /\ h.view = None ->
           IsStrictPrefix(h.path, g.path) \/ (~IsPrefix(g.path, h.path) /\ Rank[g.path] < Rank[h.path])
      [] OTHER -> g.view # None
HLCache == << "HL Cache" >>
KindOf(in, name) == in.options[SelectInSeq(in.options, LAMBDA o : o.name = name)].kind
NamesIn(in, group) ==
    SelectSeq([ n \in DOMAIN in.options |-> in.options[n].name ],
              LAMBDA name : Stored(in.values, Key(group, name)))
Section(in, group) ==
    LET names == NamesIn(in, group)
    IN  << GroupLine(group) >> \o
          [ n \in DOMAIN names |->
              EntryLine(names[n], ValueToString(KindOf(in, names[n]), in.values[Key(group, names[n])])) ]

SaveTo(in) ==
    LET groups == { key.group : key \in DOMAIN in.values }
        sorted == SetToSortSeq({ g \in groups : ~IsPrefix(HLCache, g.path) }, GroupBefore)
    IN  FlattenSeq([ n \in DOMAIN sorted |-> Section(in, sorted[n]) ])

(* init: only the global options have a value before the file is read.     *)
Initial(lines) ==
    LET global == { n \in DOMAIN InternalOptions : InternalOptions[n].scope = "Global" }
        option(name) == InternalOptions[CHOOSE n \in global : InternalOptions[n].name = name]
        keys == { Key(Global, InternalOptions[n].name) : n \in global }
    IN  LoadFrom([ values |-> [ key \in keys |-> option(key.name).default ],
                   options |-> InternalOptions, group |-> Global ], lines)

-----------------------------------------------------------------------------
(* What the values are put to use as.                                      *)
OptionsThat(apply) == { n \in DOMAIN InternalOptions : InternalOptions[n].apply \in apply }
Attribute == OptionsThat({"recalc", "listchars"})
Settled == OptionsThat({"buffer"})

GroupRead(o, b, v) == IF o.reader = "View" THEN Group(path[b], v) ELSE Group(path[b], None)

(* updateInternalAttributes.                                               *)
UpdateInternalAttributes(values, v) ==
    [ n \in Attribute |-> Read(values, GroupRead(InternalOptions[n], BufferOf[v], v), InternalOptions[n]) ]

(* setSyntax and changeEncoding: what the buffer reads.                    *)
SettledValue(values, n, b) == Read(values, GroupRead(InternalOptions[n], b, None), InternalOptions[n])

(* applyOption: the buffers and views the option's method is called with,  *)
(* and what the methods do.                                                *)
AppliedHere(o, scope, b, v) ==      \* Slip: what is set for all is put to use here only
    IF o.ctx \in {"Buffer", "View"} THEN {<< b, v >>} ELSE {}
Applied(o, scope, b, v) ==
    CASE o.ctx = "Buffer" -> IF scope = "Global" THEN Buffer \X {v} ELSE {<< b, v >>}
      [] o.ctx = "View"   -> IF scope = "Global" THEN { << BufferOf[w], w >> : w \in View } ELSE {<< b, v >>}
      [] OTHER            -> {}

ApplyOption(values, o, scope, b, v) ==
    LET pairs == Applied(o, scope, b, v)
        views == { w \in View : o.apply = "recalc" /\ \E pair \in pairs : pair[2] = w }
        buffers == { c \in Buffer : o.apply = "buffer" /\ \E pair \in pairs : pair[1] = c }
    IN  /\ attributes' = [ w \in View |-> IF w \in views THEN UpdateInternalAttributes(values, w)
                                                         ELSE attributes[w] ]
        /\ inEffect' = [ c \in Buffer |-> [ n \in Settled |->
                           IF c \in buffers /\ InternalOptions[n].name = o.name
                           THEN SettledValue(values, n, c) ELSE inEffect[c][n] ] ]

-----------------------------------------------------------------------------
(* The program starts: the options, then buffers and their views.          *)
Start(lines) ==
    LET Begin(in) ==
          /\ pool' = in
          /\ attributes' = [ v \in View |-> UpdateInternalAttributes(in.values, v) ]
          /\ inEffect' = [ b \in Buffer |-> [ n \in Settled |-> SettledValue(in.values, n, b) ] ]
    IN  Begin(Initial(lines))

InitOf(lines, paths) ==
    LET Begin(in) ==
          /\ pool = in
          /\ attributes = [ v \in View |-> UpdateInternalAttributes(in.values, v) ]
          /\ inEffect = [ b \in Buffer |-> [ n \in Settled |-> SettledValue(in.values, n, b) ] ]
    IN  path = paths /\ conf = lines /\ Begin(Initial(lines))

(* `:set', `:setl' and `:setg' typed in a view.                            *)
Set(entry, userScope, v) ==
    LET Put(set) ==
          /\ pool' = set.pool
          /\ IF set.ok
             THEN ApplyOption(set.pool.values, set.option, ScopeOf(set.option, userScope), BufferOf[v], v)
             ELSE UNCHANGED << attributes, inEffect >>
          /\ UNCHANGED << path, conf >>
    IN  Put(SetOptionFromString(pool, entry, userScope, BufferOf[v], v))

(* createOption, for a plugin: the value is an entry too.                  *)
CreateOption(name, group, default, entry, ctx, kind) ==
    LET read == FromString(kind, default)
        new == Option(name, {}, ctx, "Local", kind, read.value, "nothing")
        o == IF kind = "map" THEN [new EXCEPT !.allKeys = DOMAIN read.value] ELSE new
        set == SetValue(o, entry, read.value)
    IN  /\ \A n \in DOMAIN pool.options : pool.options[n].name # name
        /\ read.ok /\ set.ok
        /\ pool' = [pool EXCEPT !.options = Append(@, o), !.values = With(@, Key(group, name), set.value)]
        /\ UNCHANGED << path, attributes, inEffect, conf >>

(* setPath: every key that begins with the old path goes with it.          *)
UpdateOptions(values, old, new) ==
    LET moved(key) == [key EXCEPT !.group.path = ReplaceFirstSubSeq(new, old, @)]
        goes == { key \in DOMAIN values : IsPrefix(old, key.group.path) }
        came == { moved(key) : key \in goes }
    IN  [ key \in (DOMAIN values \ goes) \cup came |->
            IF key \in came THEN values[CHOOSE k \in goes : moved(k) = key] ELSE values[key] ]

SetPath(b, new) ==
    /\ path' = [path EXCEPT ![b] = new]
    /\ pool' = [pool EXCEPT !.values = UpdateOptions(@, path[b], new)]
    /\ UNCHANGED << attributes, inEffect, conf >>

RecalcScreen(v) ==
    /\ attributes' = [attributes EXCEPT ![v] = UpdateInternalAttributes(pool.values, v)]
    /\ UNCHANGED << pool, path, inEffect, conf >>

(* `:mkyzisrc', which leaves a file alone that is there, and `:mkyzisrc!'. *)
Mkyzisrc(force) ==
    /\ conf' = IF conf # <<>> /\ ~force THEN conf ELSE SaveTo(pool)
    /\ UNCHANGED << pool, path, attributes, inEffect >>

Restart == Start(conf) /\ UNCHANGED << path, conf >>
=============================================================================

----------------------------- MODULE MCOptions -----------------------------
(* Options of every context and of all kinds but colours, for three views  *)
(* of two buffers; one path begins with another.                           *)
EXTENDS Integers, SequencesExt, TLC

CONSTANTS MaxChanges

VARIABLES pool, path, attributes, inEffect, conf, changes, mixed

MCBufferOf == << 1, 1, 2 >>
A == << "/a" >>
ABak == << "/a", ".bak" >>
B == << "/b" >>
MCPath == { A, ABak, B }
MCRank == A :> 1 @@ ABak :> 2 @@ B :> 3 @@ B \o << ".bak" >> :> 4 @@ << "Global" >> :> 5 @@ << "plugin" >> :> 6

Numbers == 0..64
MCIsNumber(text) == Len(text) = 1 /\ \E n \in Numbers : text[1] = ToString(n)
MCNumber(text) == CHOOSE n \in Numbers : text[1] = ToString(n)
MCNumberText(n) == << ToString(n) >>
MCKeyValue == "eol:$" :> [key |-> "eol", value |-> "$"] @@ "tab:>" :> [key |-> "tab", value |-> ">"]
              @@ "tab:." :> [key |-> "tab", value |-> "."] @@ "x:y" :> [key |-> "x", value |-> "y"]

Opt(name, alias, ctx, scope, kind, default, apply) ==
    [name |-> name, aliases |-> {name, alias}, ctx |-> ctx, scope |-> scope, kind |-> kind, default |-> default,
     apply |-> apply, reader |-> ctx, min |-> 0, allValues |-> {}, allKeys |-> {"eol", "tab"}]

MCOptions ==
    << [Opt("tabstop", "ts", "View", "Local", "integer", 8, "recalc") EXCEPT !.min = 1],
       Opt("wrap", "wrap", "View", "Local", "boolean", TRUE, "recalc"),
       Opt("listchars", "lcs", "View", "Global", "map", "tab" :> ">", "listchars"),
       [Opt("schema", "schema", "Buffer", "Local", "integer", 0, "recalc") EXCEPT !.reader = "View"],
       Opt("syntax", "syn", "Buffer", "Local", "string", <<>>, "buffer"),
       [Opt("cursor", "cursor", "View", "Local", "string", << "square" >>, "nothing")
          EXCEPT !.allValues = {<< "square" >>, << "vbar" >>}],
       Opt("tags", "tags", "Session", "Global", "list", << "tags" >>, "nothing") >>

Given(name, op, text) == [name |-> name, op |-> op, text |-> text]
Entries ==
    { Given("ts", "=", << "2" >>), Given("tabstop", "-=", << "1" >>), Given("ts", "^=", << "2" >>),
      Given("ts", "&", <<>>), Given("ts", "=", << "x" >>), Given("ts", "", <<>>),
      Given("wrap", "", <<>>), Given("wrap", "no", <<>>), Given("wrap", "!", <<>>), Given("wrap", "=", << "off" >>),
      Given("lcs", "+=", << "eol:$" >>), Given("lcs", "-=", << "tab:." >>), Given("lcs", "=", << "tab:." >>),
      Given("lcs", "=", << "x:y" >>), Given("lcs", "=", <<>>),
      Given("schema", "=", << "1" >>), Given("cursor", "=", << "hbar" >>), Given("cursor", "=", << "vbar" >>),
      Given("syn", "=", << "c" >>), Given("syn", "^=", << "x" >>), Given("syn", "-=", << "c" >>),
      Given("tags", "", <<>>), Given("tags", "=", <<>>), Given("tags", "+=", << "t" >>), Given("tags", "-=", << "tags" >>),
      Given("none", "=", << "1" >>) }

O == INSTANCE Options WITH Buffer <- {1, 2}, BufferOf <- MCBufferOf, InternalOptions <- MCOptions,
                           IsNumber <- MCIsNumber, Number <- MCNumber, NumberText <- MCNumberText, KeyValue <- MCKeyValue, Rank <- MCRank

(* The files found at the first start: none, and one that gives tabs a     *)
(* width, a view an option of its own and an option no one knows a value.  *)
Confs ==
    { <<>>,
      << [group |-> O!Global], Given("tabstop", "=", << "4" >>), [group |-> O!Group(A, 1)],
         Given("ours", "=", << "c" >>), Given("wrap", "=", << "on" >>) >> }

optionVars == << pool, path, attributes, inEffect, conf, changes, mixed >>

OptionsInitOf(lines) == changes = 0 /\ mixed = FALSE /\ O!InitOf(lines, << A, ABak >>)
OptionsInit == \E lines \in Confs : OptionsInitOf(lines)

(* Views 1 and 2 are alike; entries are typed in one of them.              *)
Typing == {1, 3}

Change ==
    \/ \E entry \in Entries, scope \in {"Default", "Local", "Global"}, v \in Typing : O!Set(entry, scope, v)
    \/ O!CreateOption("mine", O!Group(<< "plugin" >>, O!None), << "1" >>, Given("mine", "=", << "2" >>),
                      "Buffer", "integer")
    \/ \E v \in O!View : O!RecalcScreen(v)
    \/ \E force \in BOOLEAN : O!Mkyzisrc(force)

(* `mixed': the options of one file went with another's, or came to some   *)
(* that were there for the new name.                                       *)
Rename(b, new) ==
    /\ path[3 - b] # new
    /\ O!SetPath(b, new)
    /\ mixed' = \/ mixed
                \/ \E key \in DOMAIN pool.values :
                     \/ key.group.path = new
                     \/ key.group.path = path[3 - b] /\ IsPrefix(path[b], path[3 - b])

OptionsNext ==
    /\ changes < MaxChanges /\ changes' = changes + 1
    /\ \/ Change /\ UNCHANGED mixed
       \/ \E b \in {1, 2}, new \in MCPath : Rename(b, new)
       \/ O!Restart /\ mixed' = FALSE

-----------------------------------------------------------------------------
Known == ToSet(MCOptions)

(* What view v, or its buffer, reads of an option among some values.       *)
Reads(values, o, v) == O!Read(values, O!GroupRead(o, MCBufferOf[v], v), o)
Own(o, v) == O!Key(O!GroupRead(o, MCBufferOf[v], v), o.name)
Same(values, o, v) == Reads(values, o, v) = Reads(pool.values, o, v)

(* An entry changes what is read of its option only, where it is to change *)
(* it, and a refused one nothing.  What is given by `=' is read where it   *)
(* was typed, but for the option a view reads that is kept by buffer, and  *)
(* for a global value that has a local one before it.                      *)
SetReachesItsScope(entry, userScope, v) ==
    LET Reached(w, o, scope) ==
          \/ scope = "Global" \/ o.ctx = "Session" \/ w = v
          \/ o.ctx = "Buffer" /\ MCBufferOf[w] = MCBufferOf[v]
        IsRight(values, o, scope) ==
          /\ \A key \in DOMAIN pool.values : key.name # o.name => values[key] = pool.values[key]
          /\ \A w \in O!View : ~Reached(w, o, scope) => Same(values, o, w)
          /\ entry.op = "=" /\ o.reader = o.ctx /\ (scope = "Local" \/ Own(o, v) \notin DOMAIN pool.values) =>
               Reads(values, o, v) = O!FromString(o.kind, entry.text).value
        Reaches(set) ==
          IF set.ok THEN IsRight(set.pool.values, set.option, O!ScopeOf(set.option, userScope))
          ELSE set.pool.values = pool.values
    IN  Reaches(O!SetOptionFromString(pool, entry, userScope, MCBufferOf[v], v))

EntriesAreScoped ==
    \A entry \in Entries, scope \in {"Default", "Local", "Global"}, v \in Typing :
        SetReachesItsScope(entry, scope, v)

(* A value that is stored is one the option may have, whatever was added   *)
(* to it and taken from it.                                                *)
HasRange(o, value) ==
    CASE o.kind = "integer" -> value >= o.min
      [] o.kind = "map"     -> DOMAIN value \subseteq o.allKeys
      [] o.kind = "string"  -> o.allValues = {} \/ value \in o.allValues
      [] OTHER              -> TRUE

ValuesFit ==
    \A key \in DOMAIN pool.values, o \in Known : key.name = o.name => HasRange(o, pool.values[key])

(* A buffer that gets another name keeps its options and its views theirs, *)
(* and the other buffer keeps its own, unless its name began with the old. *)
RenamingKeepsOptions ==
    \A b \in {1, 2}, new \in MCPath :
      LET values == O!UpdateOptions(pool.values, path[b], new)
          At(w) == IF MCBufferOf[w] = b THEN new ELSE path[MCBufferOf[w]]
          ReadAt(o, w) == O!Read(values, [O!GroupRead(o, MCBufferOf[w], w) EXCEPT !.path = At(w)], o)
      IN  ~mixed /\ path[3 - b] # new =>
            \A o \in Known, w \in O!View :
              IF MCBufferOf[w] = b THEN Own(o, w) \in DOMAIN pool.values => ReadAt(o, w) = Reads(pool.values, o, w)
              ELSE ~IsPrefix(path[b], path[3 - b]) => ReadAt(o, w) = Reads(pool.values, o, w)

(* What a view or a buffer uses is what it reads, but for the two options  *)
(* whose methods do not look again, and once options were mixed by names.  *)
WhatIsSetIsUsed ==
    ~mixed => \A v \in O!View, n \in O!Attribute :
      LET o == MCOptions[n]
      IN  o.apply = "recalc" /\ o.reader = o.ctx => attributes[v][n] = Reads(pool.values, o, v)

(* What is saved is there at the next start, for the options no local      *)
(* value was given; an empty list comes back as a list of nothing.         *)
Local(o) == \E key \in DOMAIN pool.values : key.name = o.name /\ key.group # O!Global
SavedComesBack ==
    LET Back(again) ==
          \A o \in Known :
            ~Local(o) => LET value == O!Read(pool.values, O!Global, o)
                         IN  O!Read(again.values, O!Global, o)
                               = IF o.kind = "list" /\ value = <<>> THEN << "" >> ELSE value
    IN  Back(O!Initial(O!SaveTo(pool)))

ValuesAreKept == ValuesFit /\ RenamingKeepsOptions /\ WhatIsSetIsUsed /\ SavedComesBack
=============================================================================

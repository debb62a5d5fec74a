-------------------------------- MODULE Config --------------------------------
(***************************************************************************)
(* The configuration of one keyboard (config.c): how a file becomes a      *)
(* struct config, and how bindings supplied at run time (kbd_eval in       *)
(* keyboard.c) change it while keys are down.                              *)
(*                                                                         *)
(* A file is what ini_parse_string makes of it: a sequence of sections     *)
(* [kind, name, type, entries, fits].  kind is "ids", "aliases", "global"  *)
(* or "layer".  The name of a layer is the sequence of the parts between   *)
(* its "+"; its type is [kind, mods] with the kinds "none", "layout",      *)
(* "mods" and "unknown".  A key expression is the sequence of the names    *)
(* between its "+".  fits says, of a section header, of an alias and of a  *)
(* command, that its text is not too long.  The right-hand side of a       *)
(* binding is NoValue (a line of a file without a "=") or an expression, a *)
(* record with the field kind:                                             *)
(*   "empty"    "k ="          "key"     code, mods                        *)
(*   "command"  id, fits       "macro"   id, valid                         *)
(*   "fn"       name, args     "number"  n                                 *)
(*   "name"     the parts of a name that is no key                         *)
(* Indices count from 1; index i stands for the code's i - 1.              *)
(***************************************************************************)
EXTENDS DeviceIds, FiniteSets

CONSTANTS
    KeyCodes,            \* rows of keycode_table that have a name
    Names,               \* key code -> its name and alt_name
    Text,                \* the words a file is made of
    MaxLayers, MaxDescriptors, MaxMacros, MaxCommands, MaxChords,
    MaxChordKeys, MaxConstituents,    \* (MaxIds is a constant of DeviceIds)
    MaxNesting,          \* how deep actions are nested in each other
    Files,               \* the files that may be loaded
    Bindings,            \* what may be bound at run time: [layer, key, val]
    MaxBinds,            \* bound on the number of run-time bindings
    MaxHeld              \* bound on the number of keys that are down

VARIABLES
    config,              \* struct config
    original_config,     \* kbd->original_config
    todo,                \* the files still to be parsed, the current one first
    step,                \* [pass, section, entry] of config_parse_string
    held,                \* the descriptors cached for keys that are down
    log,                 \* history: the bindings made, with the codes they name
    loaded,              \* history: how many of them the files made
    binds                \* number of run-time bindings so far

vars == <<config, original_config, todo, step, held, log, loaded, binds>>

NoCode == "none"
MaxTimeout == 65536      \* descriptor_arg.timeout is a uint16_t
MaxIndex == 32767        \* descriptor_arg.idx is an int16_t
Positions(s) == DOMAIN s
FirstOf(S) == CHOOSE i \in S : \A j \in S : i <= j
\* f with the value v at all of keys.
Overwritten(f, keys, v) == [x \in DOMAIN f \cup keys |-> IF x \in keys THEN v ELSE f[x]]

-----------------------------------------------------------------------------
(* struct config *)

Descriptor(op, args) == [op |-> op, code |-> NoCode, mods |-> {}, args |-> args]
KeySequence(code, mods) == [op |-> "keysequence", code |-> code, mods |-> mods, args |-> <<>>]
NoDesc == Descriptor("none", <<>>)

EmptyConfig == [layers |-> <<>>, descriptors |-> <<>>, macros |-> <<>>, commands |-> <<>>,
                aliases |-> [c \in KeyCodes |-> ""], ids |-> NoIds, globals |-> <<>>]

EmptyLayer == [name |-> <<>>, type |-> "normal", mods |-> {}, keymap |-> <<>>,
               chords |-> <<>>, constituents |-> <<>>]

lookup_keycode(name) ==
    IF \E c \in KeyCodes : name \in Names[c] THEN CHOOSE c \in KeyCodes : name \in Names[c]
    ELSE NoCode

\* 0 stands for -1.
config_get_layer_index(c, name) ==
    LET named == {i \in Positions(c.layers) : c.layers[i].name = name} IN
    IF named = {} THEN 0 ELSE FirstOf(named)

MainLayer == 1

-----------------------------------------------------------------------------
(* Actions: the table of config.c. *)

ArgTypes ==
    [clear |-> <<>>, clearm |-> <<"macro">>,
     layer |-> <<"layer">>, oneshot |-> <<"layer">>, toggle |-> <<"layer">>, swap |-> <<"layer">>,
     layerm |-> <<"layer", "macro">>, oneshotm |-> <<"layer", "macro">>,
     togglem |-> <<"layer", "macro">>, swapm |-> <<"layer", "macro">>,
     overload |-> <<"layer", "descriptor">>,
     overloadt |-> <<"layer", "descriptor", "timeout">>,
     overloadt2 |-> <<"layer", "descriptor", "timeout">>,
     overloadi |-> <<"descriptor", "descriptor", "timeout">>,
     timeout |-> <<"descriptor", "timeout", "descriptor">>,
     macro2 |-> <<"timeout", "timeout", "macro">>,
     setlayout |-> <<"layout">>,
     scroll |-> <<"sensitivity">>, scrollt |-> <<"sensitivity">>]

\* Deprecated names of the same actions.
Renamed == [overload2 |-> "overloadt", overload3 |-> "overloadt2",
            toggle2 |-> "togglem", swap2 |-> "swapm"]
OpOf(name) == IF name \in DOMAIN Renamed THEN Renamed[name] ELSE name

\* Descriptors that parse_descriptor makes without the table.
PlainArgTypes == [none |-> <<>>, keysequence |-> <<>>, macro |-> <<"macro">>,
                  command |-> <<"command">>]
Ops == DOMAIN ArgTypes \cup DOMAIN PlainArgTypes
TypesOf(op) == IF op \in DOMAIN ArgTypes THEN ArgTypes[op] ELSE PlainArgTypes[op]

\* lettermod(l, k, t, u) is rewritten as overloadi(k, overloadt2(l, k, u), t).
Fn(name, args) == [kind |-> "fn", name |-> name, args |-> args]
Rewritten(e) ==
    IF e.name = "lettermod" /\ Len(e.args) = 4
    THEN Fn("overloadi", <<e.args[2], Fn("overloadt2", <<e.args[1], e.args[2], e.args[4]>>),
                           e.args[3]>>)
    ELSE e

-----------------------------------------------------------------------------
(* parse_descriptor.  What it has added to the tables before it fails stays *)
(* there: the result holds the configuration in both cases.  It adds to     *)
(* three tables only, which are what is passed down from one nested action  *)
(* to the next.                                                            *)

\* The right-hand sides whose actions are nested at most n deep.
Simple == [kind : {"empty"}]
          \cup [kind : {"key"}, code : KeyCodes, mods : SUBSET Text]
          \cup [kind : {"command"}, id : Text, fits : BOOLEAN]
          \cup [kind : {"macro"}, id : Text, valid : BOOLEAN]
          \cup [kind : {"number"}, n : Int]
          \cup [kind : {"name"}, parts : Seq(Text)]
Expressions[n \in 0 .. MaxNesting] ==
    IF n = 0 THEN Simple
    ELSE Simple \cup {e \in [kind : {"fn"}, name : Text, args : Seq(Expressions[n - 1])] :
                        Rewritten(e).args \in Seq(Expressions[n - 1])}

\* What a line without a "=" has for a value.
NoValue == [kind |-> "missing"]

Rows == [op : Ops, code : KeyCodes \cup {NoCode}, mods : SUBSET Text, args : Seq(Int)]
Tables == [descriptors : Seq(Rows), macros : Seq(Text), commands : Seq(Text)]
TablesOf(c) == [descriptors |-> c.descriptors, macros |-> c.macros, commands |-> c.commands]
WithTables(c, t) == [c EXCEPT !.descriptors = t.descriptors, !.macros = t.macros,
                              !.commands = t.commands]

Parsed(c, d) == [ok |-> TRUE, config |-> c, d |-> d]
Failed(c) == [ok |-> FALSE, config |-> c, d |-> NoDesc]

\* A modifier key on the right-hand side becomes its layer.
ModifierLayer == [leftshift |-> "shift", leftcontrol |-> "control", leftmeta |-> "meta",
                  leftalt |-> "alt", rightalt |-> "altgr"]

\* Mutant of parse_command: the index is read after the count is increased.
parse_command_late(c, e) ==
    IF ~e.fits \/ Len(c.commands) >= MaxCommands THEN Failed(c)
    ELSE Parsed([c EXCEPT !.commands = Append(@, e.id)],
                Descriptor("command", <<Len(c.commands) + 2>>))

parse_command(c, e) ==
    IF ~e.fits \/ Len(c.commands) >= MaxCommands THEN Failed(c)
    ELSE Parsed([c EXCEPT !.commands = Append(@, e.id)],
                Descriptor("command", <<Len(c.commands) + 1>>))

\* parse_macro_expression: macro(...), or any key sequence.
IsMacro(e) == (e.kind = "macro" /\ e.valid) \/ e.kind = "key"
MacroId(e) == IF e.kind = "macro" THEN e.id ELSE e.code

\* Mutants of AddMacro: one row too many; the last row is used again.
AddMacroUpTo(c, e, d) ==
    IF Len(c.macros) > MaxMacros \/ ~IsMacro(e) THEN Failed(c)
    ELSE Parsed([c EXCEPT !.macros = Append(@, MacroId(e))], d)
AddMacroReuses(c, e, d) ==
    IF ~IsMacro(e) THEN Failed(c)
    ELSE Parsed([c EXCEPT !.macros = IF Len(@) < MaxMacros THEN Append(@, MacroId(e))
                                     ELSE [@ EXCEPT ![MaxMacros] = MacroId(e)]], d)

AddMacro(c, e, d) ==
    IF Len(c.macros) >= MaxMacros \/ ~IsMacro(e) THEN Failed(c)
    ELSE Parsed([c EXCEPT !.macros = Append(@, MacroId(e))], d)

LayerNamed(c, e) == IF e.kind = "name" THEN config_get_layer_index(c, e.parts) ELSE 0
Number(e) == IF e.kind = "number" THEN e.n ELSE 0       \* atoi

\* One argument of an action: r is the result so far, whose d.args holds the
\* arguments to its right; parse is parse_descriptor for nested actions.
ParseArg(c, parse, r, type, e) ==
    LET t == r.config
        With(t1, v) == Parsed(t1, [r.d EXCEPT !.args = <<v>> \o @])
        idx == LayerNamed(c, e) IN
    CASE ~r.ok -> r
      [] r.ok /\ type = "layer" ->
            IF idx \in {0, MainLayer} \/ c.layers[idx].type = "layout"
            THEN Failed(t) ELSE With(t, idx)
      [] r.ok /\ type = "layout" ->
            IF idx = 0 \/ (idx # MainLayer /\ c.layers[idx].type # "layout")
            THEN Failed(t) ELSE With(t, idx)
      [] r.ok /\ type = "descriptor" ->
            LET p == parse[<<t, e>>] IN
            IF ~p.ok \/ Len(p.config.descriptors) >= MaxDescriptors THEN Failed(p.config)
            ELSE With([p.config EXCEPT !.descriptors = Append(@, p.d)],
                      Len(p.config.descriptors) + 1)
      [] r.ok /\ type = "macro" ->
            LET p == AddMacro(t, e, NoDesc) IN
            IF p.ok THEN With(p.config, Len(p.config.macros)) ELSE Failed(t)
      [] r.ok /\ type \in {"timeout", "sensitivity"} -> With(t, Number(e) % MaxTimeout)

\* The arguments of an action, the last one first.
ParseArgs(c, parse, t, op, args) ==
    LET n == Len(args)
        result[k \in 0 .. n] ==
            IF k = 0 THEN Parsed(t, Descriptor(op, <<>>))
            ELSE ParseArg(c, parse, result[k - 1], ArgTypes[op][n - k + 1], args[n - k + 1]) IN
    result[n]

ParseFn(c, parse, t, e) ==
    LET fn == Rewritten(e)
        op == OpOf(fn.name) IN
    IF op \notin DOMAIN ArgTypes \/ Len(fn.args) # Len(ArgTypes[op]) THEN Failed(t)
    ELSE ParseArgs(c, parse, t, op, fn.args)

\* One call of parse_descriptor: parse is the function for what is nested in e.
ParseExpression(c, parse, t, e) ==
    CASE e.kind = "empty" -> Parsed(t, NoDesc)
      [] e.kind = "key" /\ e.code \in DOMAIN ModifierLayer ->
            Parsed(t, Descriptor("layer", <<config_get_layer_index(c, <<ModifierLayer[e.code]>>)>>))
      [] e.kind = "key" /\ e.code \notin DOMAIN ModifierLayer ->
            Parsed(t, KeySequence(e.code, e.mods))
      [] e.kind = "command" -> parse_command(t, e)
      [] e.kind = "macro" -> AddMacro(t, e, Descriptor("macro", <<Len(t.macros) + 1>>))
      [] e.kind = "fn" -> ParseFn(c, parse, t, e)
      [] e.kind \in {"number", "name"} -> Failed(t)

parse_descriptor(c, e) ==
    LET parse[n \in 0 .. MaxNesting] ==
            [in \in Tables \X Expressions[n] |->
                ParseExpression(c, IF n = 0 THEN <<>> ELSE parse[n - 1], in[1], in[2])]
        p == parse[MaxNesting][<<TablesOf(c), e>>] IN
    [p EXCEPT !.config = WithTables(c, @)]

-----------------------------------------------------------------------------
(* set_layer_entry: a chord, or the binding of every key that has the alias  *)
(* and otherwise of the key with that name.                                 *)

\* The first chord that has every one of the keys: it may have more.
layer_lookup_chord(layer, keys) ==
    LET covering == {i \in Positions(layer.chords) :
                        \A j \in DOMAIN keys : keys[j] \in Range(layer.chords[i].keys)} IN
    IF covering = {} THEN 0 ELSE FirstOf(covering)

\* The codes a single key name designates: those with the alias, else the key's own.
Designated(c, name) ==
    LET aliased == {code \in KeyCodes : c.aliases[code] = name} IN
    IF aliased # {} THEN aliased ELSE {lookup_keycode(name)} \ {NoCode}

set_chord(c, l, names, d) ==
    LET layer == c.layers[l]
        keys == [i \in DOMAIN names |-> lookup_keycode(names[i])]
        known == layer_lookup_chord(layer, keys) IN
    IF NoCode \in Range(keys) \/ Len(keys) > MaxChordKeys THEN Failed(c)
    ELSE IF known # 0 THEN Parsed([c EXCEPT !.layers[l].chords[known].d = d], d)
    ELSE IF Len(layer.chords) >= MaxChords THEN Failed(c)
    ELSE Parsed([c EXCEPT !.layers[l].chords = Append(@, [keys |-> keys, d |-> d])], d)

\* Mutant of set_layer_entry: a key that is bound stays bound.
set_layer_entry_once(c, l, names, d) ==
    LET codes == Designated(c, names[1]) IN
    IF Len(names) > 1 THEN set_chord(c, l, names, d)
    ELSE IF codes = {} THEN Failed(c)
    ELSE Parsed([c EXCEPT !.layers[l].keymap = Overwritten(@, codes \ DOMAIN @, d)], d)

set_layer_entry(c, l, names, d) ==
    LET codes == Designated(c, names[1]) IN
    IF Len(names) > 1 THEN set_chord(c, l, names, d)
    ELSE IF codes = {} THEN Failed(c)
    ELSE Parsed([c EXCEPT !.layers[l].keymap = Overwritten(@, codes, d)], d)

\* config_add_entry.  A binding without a layer is one of main, unless a "."
\* follows its first character and precedes any "(": what stands before the
\* "." is then taken for the layer.
Dotted(names, e) == \/ \E i \in DOMAIN names : i > 1 /\ names[i] = "."
                    \/ names[1] # "." /\ e.kind = "key" /\ e.code = "."
\* Mutant of config_add_entry: the key is bound before the action is checked.
config_add_entry_first(c, b) ==
    LET l == IF b.layer # <<>> THEN config_get_layer_index(c, b.layer) ELSE MainLayer
        p == parse_descriptor(c, b.val) IN
    IF l = 0 THEN Failed(c)
    ELSE [set_layer_entry(p.config, l, b.key, p.d) EXCEPT !.ok = @ /\ p.ok]

config_add_entry(c, b) ==
    LET l == IF b.layer # <<>> THEN config_get_layer_index(c, b.layer)
             ELSE IF Dotted(b.key, b.val) THEN 0 ELSE MainLayer
        p == parse_descriptor(c, b.val) IN
    IF l = 0 THEN Failed(c)
    ELSE IF ~p.ok THEN p
    ELSE set_layer_entry(p.config, l, b.key, p.d)

-----------------------------------------------------------------------------
(* First pass of config_parse_string: ids, aliases, options and layers.     *)

NewLayer(s) == [EmptyLayer EXCEPT !.name = s.name]

\* Mutant of new_layer: a part that is no layer yet is let through.
new_layer_unchecked(c, s) ==
    LET parts == [i \in DOMAIN s.name |-> config_get_layer_index(c, <<s.name[i]>>)] IN
    [ok |-> TRUE,
     layer |-> IF Len(s.name) > 1
               THEN [NewLayer(s) EXCEPT !.type = "composite", !.constituents = parts]
               ELSE [NewLayer(s) EXCEPT !.type = IF s.type.kind = "layout" THEN "layout" ELSE @]]

new_layer(c, s) ==
    LET parts == [i \in DOMAIN s.name |-> config_get_layer_index(c, <<s.name[i]>>)] IN
    IF Len(s.name) > 1
    THEN [ok |-> s.type.kind = "none" /\ 0 \notin Range(parts) /\ Len(parts) <= MaxConstituents,
          layer |-> [NewLayer(s) EXCEPT !.type = "composite", !.constituents = parts]]
    ELSE [ok |-> TRUE,
          layer |-> CASE s.type.kind = "layout" -> [NewLayer(s) EXCEPT !.type = "layout"]
                      [] s.type.kind = "mods"   -> [NewLayer(s) EXCEPT !.mods = s.type.mods]
                      [] OTHER -> NewLayer(s)]

\* Mutant of config_add_layer: a section that opens again makes its layer anew.
config_add_layer_again(c, s) ==
    LET new == new_layer(c, s)
        known == config_get_layer_index(c, s.name) IN
    IF ~s.fits \/ Len(c.layers) >= MaxLayers \/ ~new.ok THEN c
    ELSE IF known # 0 THEN [c EXCEPT !.layers[known] = new.layer]
    ELSE [c EXCEPT !.layers = Append(@, new.layer)]

config_add_layer(c, s) ==
    LET new == new_layer(c, s) IN
    IF ~s.fits \/ config_get_layer_index(c, s.name) # 0 \/ Len(c.layers) >= MaxLayers \/ ~new.ok
    THEN c
    ELSE [c EXCEPT !.layers = Append(@, new.layer)]

\* "key = name": the key gets the alias and, when the alias is itself the
\* name of a key, is bound to that key in main.  One that is too long is dropped.
AddAlias(c, entry) ==
    LET code == lookup_keycode(entry.key)
        target == lookup_keycode(entry.val)
        bound == IF target = NoCode THEN c
                 ELSE [c EXCEPT !.layers[MainLayer].keymap =
                        Overwritten(@, {code}, KeySequence(target, {}))] IN
    IF code = NoCode \/ ~entry.fits THEN c
    ELSE [bound EXCEPT !.aliases[code] = entry.val]

\* Options are kept as given; the last value of an option wins.
GlobalOptions == {"macro_timeout", "macro_sequence_timeout", "disable_modifier_guard",
                  "oneshot_timeout", "chord_hold_timeout", "chord_timeout", "default_layout",
                  "macro_repeat_timeout", "layer_indicator", "overload_tap_timeout"}
parse_global_section(c, s) ==
    LET Set(g, entry) == IF entry.key \notin GlobalOptions THEN g
                         ELSE Overwritten(g, {entry.key}, entry.val) IN
    [c EXCEPT !.globals = FoldLeft(Set, @, s.entries)]

AddSection(c, s) ==
    CASE s.kind = "ids"     -> [c EXCEPT !.ids = parse_id_section(@, s.entries)]
      [] s.kind = "global"  -> parse_global_section(c, s)
      [] OTHER              -> config_add_layer(c, s)

-----------------------------------------------------------------------------
(* config_init: every configuration begins with this file.                  *)

Section(kind, name, type, entries) ==
    [kind |-> kind, name |-> name, type |-> type, entries |-> entries, fits |-> TRUE]
Alias(key, name) == [key |-> key, val |-> name, fits |-> TRUE]
NoType == [kind |-> "none", mods |-> {}]
ModsType(mods) == [kind |-> "mods", mods |-> mods]
LayerCall(name) == Fn("layer", <<[kind |-> "name", parts |-> <<name>>]>>)
ModifierLayers == <<"shift", "alt", "altgr", "meta", "control">>

default_config ==
    <<Section("aliases", <<>>, NoType,
        <<Alias("leftshift", "shift"), Alias("rightshift", "shift"),
          Alias("leftalt", "alt"), Alias("rightalt", "altgr"),
          Alias("leftmeta", "meta"), Alias("rightmeta", "meta"),
          Alias("leftcontrol", "control"), Alias("rightcontrol", "control")>>),
      Section("layer", <<"main">>, NoType,
        [i \in 1 .. 5 |-> [key |-> <<ModifierLayers[i]>>, val |-> LayerCall(ModifierLayers[i])]]),
      Section("layer", <<"control">>, ModsType({"ctrl"}), <<>>),
      Section("layer", <<"shift">>, ModsType({"shift"}), <<>>),
      Section("layer", <<"meta">>, ModsType({"super"}), <<>>),
      Section("layer", <<"alt">>, ModsType({"alt"}), <<>>),
      Section("layer", <<"altgr">>, ModsType({"altgr"}), <<>>)>>

-----------------------------------------------------------------------------
(* What the models may be instantiated with.                               *)

Nonempty(S) == Seq(S) \ {<<>>}
Types == [kind : {"none", "layout", "mods", "unknown"}, mods : SUBSET Text]
IsSection(s) ==
    /\ s.kind \in {"ids", "aliases", "global", "layer"} /\ s.fits \in BOOLEAN
    /\ s.kind = "aliases" => s.entries \in Seq([key : Text, val : Text, fits : BOOLEAN])
    /\ s.kind = "layer" => /\ s.name \in Nonempty(Text) /\ s.type \in Types
                           /\ s.entries \in Seq([key : Nonempty(Text),
                                                 val : Expressions[MaxNesting] \cup {NoValue}])

\* Files and bindings have the forms given above; the layers of the default
\* file have room (config.h:15) and are not named like keys (keys.c); indices fit
\* the int16_t of a descriptor (config.h:58).
ConfigAssumption ==
    /\ KeyCodes \subseteq Text \ {NoCode} /\ Names \in [KeyCodes -> SUBSET Text]
    /\ Range(ModifierLayers) \cup {"", "main", "ctrl", "super", "layer"} \subseteq Text
    /\ \A code \in KeyCodes : Names[code] \cap Range(ModifierLayers) = {}
    /\ MaxLayers \in 6 .. MaxIndex /\ MaxNesting \in Nat \ {0}
    /\ {MaxDescriptors, MaxMacros, MaxCommands, MaxChords} \subseteq 0 .. MaxIndex
    /\ MaxBinds \in Nat /\ MaxIds \in Nat
    /\ \A f \in Files : /\ f = [i \in 1 .. Len(f) |-> f[i]] /\ Len(f) \in Nat
                        /\ \A i \in 1 .. Len(f) : IsSection(f[i])
    /\ Bindings \subseteq [layer : Seq(Text), key : Nonempty(Text),
                           val : Expressions[MaxNesting]]
ASSUME ConfigsAssumed == ConfigAssumption

-----------------------------------------------------------------------------
(* The state machine: config_parse, then kbd_eval while keys are pressed.   *)

Start(pass) == [pass |-> pass, section |-> 1, entry |-> 1]

Init ==
    /\ config = EmptyConfig /\ original_config = EmptyConfig
    /\ todo \in {<<default_config, f>> : f \in Files}
    /\ step = Start("layers")
    /\ held = <<>> /\ log = <<>> /\ loaded = 0 /\ binds = 0

Current == Head(todo)[step.section]
AtSection(pass) == todo # <<>> /\ step.pass = pass /\ step.section <= Len(Head(todo))

\* What an accepted binding designates, from the configuration it is made in.
LogOf(c, b, d) ==
    [layer |-> IF b.layer = <<>> THEN MainLayer ELSE config_get_layer_index(c, b.layer),
     codes |-> IF Len(b.key) > 1 THEN {lookup_keycode(b.key[i]) : i \in DOMAIN b.key}
               ELSE Designated(c, b.key[1]),
     chord |-> Len(b.key) > 1, d |-> d]

\* The binding that an alias makes: "key = name" for the name of another key.
AliasLog(entry) ==
    LET code == lookup_keycode(entry.key)
        target == lookup_keycode(entry.val) IN
    IF code = NoCode \/ target = NoCode \/ ~entry.fits THEN <<>>
    ELSE <<[layer |-> MainLayer, codes |-> {code}, chord |-> FALSE,
            d |-> KeySequence(target, {})]>>

\* An [ids] section with more ids than there is room for.
IdsDoNotFit == Current.kind = "ids" /\ TooManyIds(config.ids, Current.entries)

FirstPass ==
    /\ AtSection("layers") /\ Current.kind # "aliases" /\ ~IdsDoNotFit
    /\ config' = AddSection(config, Current)
    /\ step' = [step EXCEPT !.section = @ + 1]
    /\ UNCHANGED <<original_config, todo, held, log, loaded, binds>>

\* The assertion of parse_id_section fails: nothing is read or bound any more.
TooManyIdsFound ==
    /\ AtSection("layers") /\ IdsDoNotFit
    /\ step' = Start("aborted")
    /\ UNCHANGED <<config, original_config, todo, held, log, loaded, binds>>

\* One entry of parse_alias_section.
ParseAlias ==
    LET entry == Current.entries[step.entry] IN
    /\ AtSection("layers") /\ Current.kind = "aliases" /\ step.entry <= Len(Current.entries)
    /\ config' = AddAlias(config, entry)
    /\ log' = log \o AliasLog(entry)
    /\ step' = [step EXCEPT !.entry = @ + 1]
    /\ UNCHANGED <<original_config, todo, held, loaded, binds>>

EndFirstPass ==
    /\ todo # <<>> /\ step.pass = "layers" /\ step.section > Len(Head(todo))
    /\ step' = Start("entries")
    /\ UNCHANGED <<config, original_config, todo, held, log, loaded, binds>>

\* One binding of a layer section.  A line without a "=" is skipped.
AddEntry ==
    LET entry == Current.entries[step.entry]
        b == [layer |-> Current.name, key |-> entry.key, val |-> entry.val]
        added == config_add_entry(config, b) IN
    /\ AtSection("entries")
    /\ Current.kind = "layer" /\ step.entry <= Len(Current.entries)
    /\ config' = IF entry.val = NoValue THEN config ELSE added.config
    /\ log' = IF entry.val # NoValue /\ added.ok
              THEN Append(log, LogOf(config, b, added.d)) ELSE log
    /\ step' = [step EXCEPT !.entry = @ + 1]
    /\ UNCHANGED <<original_config, todo, held, loaded, binds>>

EndSection ==
    /\ \/ AtSection("layers") /\ Current.kind = "aliases" /\ step.entry > Len(Current.entries)
       \/ AtSection("entries") /\ (Current.kind # "layer" \/ step.entry > Len(Current.entries))
    /\ step' = [step EXCEPT !.section = @ + 1, !.entry = 1]
    /\ UNCHANGED <<config, original_config, todo, held, log, loaded, binds>>

\* The end of a file.  After the last one new_keyboard keeps the
\* configuration as the one that "reset" restores.
EndFile ==
    /\ todo # <<>> /\ step.pass = "entries" /\ step.section > Len(Head(todo))
    /\ todo' = Tail(todo)
    /\ step' = Start("layers")
    /\ original_config' = IF todo' = <<>> THEN config ELSE original_config
    /\ loaded' = Len(log)
    /\ UNCHANGED <<config, held, log, binds>>

Bind ==
    /\ todo = <<>> /\ binds < MaxBinds
    /\ \E b \in Bindings :
        LET added == config_add_entry(config, b) IN
        /\ config' = added.config
        /\ log' = IF added.ok THEN Append(log, LogOf(config, b, added.d)) ELSE log
    /\ binds' = binds + 1
    /\ UNCHANGED <<original_config, todo, step, held, loaded>>

BindReset ==
    /\ todo = <<>> /\ binds < MaxBinds
    /\ config' = original_config
    /\ binds' = binds + 1
    /\ held' = [code \in DOMAIN held |-> [held[code] EXCEPT !.reset = TRUE]]
    /\ log' = SubSeq(log, 1, loaded)
    /\ UNCHANGED <<original_config, todo, step, loaded>>

\* A key goes down: the engine caches a descriptor that some layer has for
\* it.  Which layer that is, is the business of lookup_descriptor.
Press ==
    /\ todo = <<>> /\ Cardinality(DOMAIN held) < MaxHeld
    /\ \E l \in Positions(config.layers) : \E code \in DOMAIN config.layers[l].keymap :
        /\ code \notin DOMAIN held
        /\ config.layers[l].keymap[code].op # "none"
        /\ held' = Overwritten(held, {code}, [d |-> config.layers[l].keymap[code], reset |-> FALSE])
    /\ UNCHANGED <<config, original_config, todo, step, log, loaded, binds>>

Release ==
    /\ \E code \in DOMAIN held : held' = Restrict(held, DOMAIN held \ {code})
    /\ UNCHANGED <<config, original_config, todo, step, log, loaded, binds>>

Next == \/ FirstPass \/ TooManyIdsFound \/ ParseAlias \/ EndFirstPass \/ AddEntry \/ EndSection \/ EndFile
        \/ Bind \/ BindReset \/ Press \/ Release

Spec == Init /\ [][Next]_vars

-----------------------------------------------------------------------------
(* Properties                                                               *)

IsDescriptor(d) == /\ d.op \in Ops /\ d.code \in KeyCodes \cup {NoCode}
                   /\ d.args \in Seq(0 .. MaxTimeout - 1) /\ Len(d.args) = Len(TypesOf(d.op))
IsLayer(l) ==
    /\ l.type \in {"normal", "layout", "composite"}
    /\ l.type = "composite" <=> l.constituents # <<>>
    /\ DOMAIN l.keymap \subseteq KeyCodes /\ \A code \in DOMAIN l.keymap : IsDescriptor(l.keymap[code])
    /\ Len(l.chords) <= MaxChords
    /\ \A i \in Positions(l.chords) : IsDescriptor(l.chords[i].d)

\* Every table stays within the array that struct config has for it, and its
\* rows have the shape of their kind (config.h:72-148).
TypeOK ==
    /\ Len(config.layers) <= MaxLayers
    /\ Len(config.descriptors) <= MaxDescriptors
    /\ Len(config.macros) <= MaxMacros
    /\ Len(config.commands) <= MaxCommands
    /\ \A i \in Positions(config.layers) : IsLayer(config.layers[i])
    /\ \A i \in Positions(config.descriptors) : IsDescriptor(config.descriptors[i])
    /\ config.aliases \in [KeyCodes -> Text]
    /\ \A code \in DOMAIN held : IsDescriptor(held[code].d)
    /\ loaded \in 0 .. Len(log) /\ binds \in 0 .. MaxBinds

BoundDescriptors ==
    UNION {Range(config.layers[l].keymap)
           \cup {config.layers[l].chords[i].d : i \in Positions(config.layers[l].chords)}
           : l \in Positions(config.layers)}

\* An argument refers to something that exists; a nested descriptor to one
\* before the limit.
Refers(d, limit) ==
    \A i \in DOMAIN d.args :
        LET type == TypesOf(d.op)[i] IN
        CASE type \in {"layer", "layout"} -> d.args[i] \in Positions(config.layers)
          [] type = "descriptor" -> d.args[i] \in 1 .. limit
          [] type = "macro"      -> d.args[i] \in Positions(config.macros)
          [] type = "command"    -> d.args[i] \in Positions(config.commands)
          [] OTHER -> TRUE

\* No argument of a binding, of a nested action or of a key that is down
\* refers to a row that does not exist, whatever bindings failed on the way
\* (parse_descriptor leaves rows behind); nested actions refer only to earlier
\* rows, so that running one always ends.  A reset takes rows away under the
\* keys that are down (keyboard.c:1212): these are left out.
ReferencesInRange ==
    /\ \A d \in BoundDescriptors : Refers(d, Len(config.descriptors))
    /\ \A i \in Positions(config.descriptors) : Refers(config.descriptors[i], i - 1)
    /\ \A code \in DOMAIN held : held[code].reset \/ Refers(held[code].d, Len(config.descriptors))

\* What the engine takes for granted of the layers that actions name
\* (TargetsAssumption and LayersAssumption of KeydConfig): layer actions name
\* a layer other than main that is no layout, setlayout names main or a
\* layout, and a composite layer is made of layers declared before it.  A
\* layer action may name a composite layer: the code checks only for layouts
\* (config.c:668-672), though keyd.scdoc:298-299 says composite layers cannot be
\* assigned.
LayerTargetsAreValid ==
    /\ \A d \in BoundDescriptors \cup Range(config.descriptors) : \A i \in DOMAIN d.args :
        LET type == TypesOf(d.op)[i]
            target == config.layers[d.args[i]] IN
        /\ type = "layer" => d.args[i] # MainLayer /\ target.type # "layout"
        /\ type = "layout" => d.args[i] = MainLayer \/ target.type = "layout"
    /\ \A l \in Positions(config.layers) : \A i \in DOMAIN config.layers[l].constituents :
        config.layers[l].constituents[i] \in 1 .. l - 1

\* "If multiple bindings for the same key are present, the most recent one
\* takes precedence" (keyd.scdoc:267): of all the accepted bindings that name a
\* key, by its name, by an alias or as an alias, the last is in force.
LastBindingWins ==
    \A i \in DOMAIN log : ~log[i].chord =>
        \A code \in log[i].codes :
            \/ \E j \in i + 1 .. Len(log) : /\ ~log[j].chord /\ code \in log[j].codes
                                          /\ log[j].layer = log[i].layer
            \/ config.layers[log[i].layer].keymap[code] = log[i].d

\* "The layer type may not be reassigned" (keyd.scdoc:270): a layer keeps its
\* index, name, type, modifiers and parts, however often its section is opened.
SameHeader(l, m) == /\ l.name = m.name /\ l.type = m.type /\ l.mods = m.mods
                    /\ l.constituents = m.constituents
LayersKeepTheirType ==
    [][/\ Len(config.layers) <= Len(config'.layers)
       /\ \A l \in Positions(config.layers) : SameHeader(config.layers[l], config'.layers[l])]_config

\* Unless the configuration is reset, no step moves or rewrites a row that a
\* cached descriptor, a pending key or a repeating macro may hold the index of.
RowsStayPut ==
    [][\/ IsPrefix(config.descriptors, config'.descriptors)
          /\ IsPrefix(config.macros, config'.macros)
          /\ IsPrefix(config.commands, config'.commands)
       \/ config' = original_config]_config

\* A binding that is refused changes no binding: what it leaves behind are
\* rows nothing refers to.
RefusedBindingsChangeNothing ==
    [][(todo = <<>> /\ log' = log /\ config' # original_config)
         => config'.layers = config.layers /\ config'.aliases = config.aliases]_config
===============================================================================

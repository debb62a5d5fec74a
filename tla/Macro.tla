-------------------------------- MODULE Macro --------------------------------
(***************************************************************************)
(* Macro expressions (macro.c): what macro_parse makes of the tokens of an *)
(* expression, and the key events macro_execute sends for the result.      *)
(* A token is a record with the field kind:                                *)
(*   "key"    a key sequence:  code, mods                                  *)
(*   "group"  a+b+30ms+...:    parts, each a "key", a "time" or "bad"      *)
(*   "time"   20ms:            ms                                          *)
(*   "text"   anything else:   chars, each a "key", a "unicode" (with its  *)
(*            index in the compose table) or "unknown" character           *)
(* Key codes are numbers: an entry's data is sometimes read as a key code  *)
(* although it is not one.                                                 *)
(***************************************************************************)
EXTENDS Integers, Sequences, SequencesExt

CONSTANTS
    MaxMacroSize,        \* ARRAY_SIZE(macro->entries)
    UnicodeSequence      \* compose table index -> the four key codes that type it

ByteCodes == 0 .. 255    \* uint8_t

\* An expression is a sequence of tokens, whose keys have codes of a byte.
IsSequence(s) == s \in Seq(Range(s))
IsToken(tok) ==
    /\ tok.kind = "group" => /\ IsSequence(tok.parts)
                             /\ \A i \in DOMAIN tok.parts : LET part == tok.parts[i] IN
                                   /\ part.kind = "key" => part.code \in ByteCodes
                                   /\ part.kind = "time" => part.ms \in Nat
                                   /\ part.kind \in {"key", "time", "bad"}
    /\ tok.kind = "text" => IsSequence(tok.chars)
    /\ tok.kind \in {"key", "group", "time", "text"}
IsExpression(tokens) == IsSequence(tokens) /\ \A i \in DOMAIN tokens : IsToken(tokens[i])

EscKey == 1
BackspaceKey == 14
EnterKey == 28

\* The table of keys.c, in its order.
Modifiers == <<"alt", "altgr", "shift", "super", "ctrl">>
ModifierCode == [alt |-> 56, altgr |-> 100, shift |-> 42, super |-> 125, ctrl |-> 29]

-----------------------------------------------------------------------------
(* macro_parse *)

Entry(type, data, mods) == [type |-> type, data |-> data, mods |-> mods]

TokenEntries(tok) ==
    CASE tok.kind = "key"  -> <<Entry("keysequence", tok.code, tok.mods)>>
      [] tok.kind = "time" -> <<Entry("timeout", tok.ms, {})>>
      [] tok.kind = "group" ->
            LET Part(p) == IF p.kind = "time" THEN Entry("timeout", p.ms, {})
                                              ELSE Entry("hold", p.code, {}) IN
            Append([i \in DOMAIN tok.parts |-> Part(tok.parts[i])], Entry("release", 0, {}))
      [] OTHER ->
            LET Typed(c) == CASE c.kind = "key" -> <<Entry("keysequence", c.code, c.mods)>>
                              [] c.kind = "unicode" /\ c.index > 0 -> <<Entry("unicode", c.index, {})>>
                              [] OTHER -> <<>> IN
            FlattenSeq([i \in DOMAIN tok.chars |-> Typed(tok.chars[i])])

HasBadKey(tok) == tok.kind = "group" /\ \E i \in DOMAIN tok.parts : tok.parts[i].kind = "bad"

macro_parse(tokens) ==
    LET entries == FlattenSeq([i \in DOMAIN tokens |-> TokenEntries(tokens[i])]) IN
    [ok |-> /\ \A i \in DOMAIN tokens : ~HasBadKey(tokens[i])
            /\ Len(entries) <= MaxMacroSize,
     entries |-> entries]

-----------------------------------------------------------------------------
(* macro_execute *)

Down(code) == [code |-> code, down |-> TRUE]
Up(code) == [code |-> code, down |-> FALSE]
TapOf(code) == <<Down(code), Up(code)>>

\* The codes of the modifiers in mods, in table order.
ModCodes(mods) ==
    FlattenSeq([i \in DOMAIN Modifiers |-> IF Modifiers[i] \notin mods THEN <<>>
                                           ELSE <<ModifierCode[Modifiers[i]]>>])

\* Mutant of HoldStart: the last key held.
HoldStartLast(entries, i) ==
    LET holds == {j \in 1 .. i - 1 : entries[j].type = "hold"} IN
    IF holds = {} THEN 0 ELSE CHOOSE j \in holds : \A k \in holds : k <= j

\* hold_start when entry i is reached: the first key held since the last
\* release.  0 stands for -1.
HoldStart(entries, i) ==
    LET holds == {j \in 1 .. i - 1 : /\ entries[j].type = "hold"
                                     /\ \A r \in j .. i - 1 : entries[r].type # "release"} IN
    IF holds = {} THEN 0 ELSE CHOOSE j \in holds : \A k \in holds : j <= k

\* A release goes through every entry since hold_start, the timeouts in
\* between included, and takes the low byte of its data for a key code.
Released(entries, i) ==
    LET start == HoldStart(entries, i) IN
    IF start = 0 THEN <<>>
    ELSE [j \in 1 .. i - start |-> Up(entries[start + j - 1].data % 256)]

EntryOutput(entries, i) ==
    LET ent == entries[i] IN
    CASE ent.type = "hold"    -> <<Down(ent.data)>>
      [] ent.type = "release" -> Released(entries, i)
      [] ent.type = "unicode" ->
            FlattenSeq([j \in 1 .. 4 |-> TapOf(UnicodeSequence[ent.data][j])])
      [] ent.type = "timeout" -> <<>>
      [] OTHER ->
            LET ms == ModCodes(ent.mods) IN
            [i1 \in DOMAIN ms |-> Down(ms[i1])] \o TapOf(ent.data)
                \o [i2 \in DOMAIN ms |-> Up(ms[i2])]

macro_execute(entries) ==
    FlattenSeq([i \in DOMAIN entries |-> EntryOutput(entries, i)])

\* What a sequence of key events leaves down of the keys that were down.
Play(outputs, down) ==
    LET Final(code) == CHOOSE i \in DOMAIN outputs :
                          /\ outputs[i].code = code
                          /\ \A j \in i + 1 .. Len(outputs) : outputs[j].code # code
        touched == {outputs[i].code : i \in DOMAIN outputs} IN
    (down \ touched) \cup {c \in touched : outputs[Final(c)].down}
===============================================================================

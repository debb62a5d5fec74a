------------------------------ MODULE ConfigProofs ------------------------------
(***************************************************************************)
(* What config.c makes of files of any length, and what kbd_eval makes of  *)
(* bindings nested to any depth: the tables stay within their bounds and   *)
(* every index in them means what the engine takes it to mean; the last    *)
(* binding wins; a refused one changes nothing; rows and layers stay where *)
(* they are.                                                               *)
(***************************************************************************)
EXTENDS Config, TLAPS, SequenceTheorems, WellFoundedInduction

-----------------------------------------------------------------------------
(* Induction, least positions, and recursive functions.                     *)

LEMMA NatInduct ==
    ASSUME NEW T, 0 \in T, \A n \in Nat : n \in T => n + 1 \in T
    PROVE  Nat \subseteq T
<1> DEFINE Less == OpToRel(<, Nat)
           U == Nat \ T
<1> SUFFICES ASSUME U # {} PROVE FALSE
  OBVIOUS
<1>1. Less = {ss \in Nat \X Nat : ss[1] < ss[2]}
  BY DEF OpToRel
<1>2. PICK m \in U : \A y \in U : ~(<<y, m>> \in Less)
  BY NatLessThanWellFounded, WFMin
<1> HIDE DEF Less
<1>3. m # 0 /\ m - 1 \in Nat /\ m - 1 < m /\ (m - 1) + 1 = m
  BY <1>2
<1>4. m - 1 \notin U
  BY <1>1, <1>2, <1>3
<1> QED BY <1>2, <1>3, <1>4

\* FirstOf is the least of a set of positions that is not empty.
LEMMA FirstOfSet ==
    ASSUME NEW S \in SUBSET Nat, S # {}
    PROVE  FirstOf(S) \in S /\ \A j \in S : FirstOf(S) <= j
<1> DEFINE T == {n \in Nat : \A i \in 0 .. n : i \notin S}
<1>1. \E i \in S : \A j \in S : i <= j
  <2> SUFFICES ASSUME \A i \in S : \E j \in S : ~(i <= j) PROVE FALSE
    OBVIOUS
  <2>1. 0 \in T
    OBVIOUS
  <2>2. \A n \in Nat : n \in T => n + 1 \in T
    <3> SUFFICES ASSUME NEW n \in Nat, n \in T, n + 1 \in S PROVE FALSE
      OBVIOUS
    <3>1. PICK j \in S : ~(n + 1 <= j)
      OBVIOUS
    <3>2. j \in Nat /\ ~(n + 1 <= j)
      BY <3>1
    <3>3. j \in 0 .. n
      BY <3>2
    <3> QED BY <3>3
  <2>3. Nat \subseteq T
    <3> HIDE DEF T
    <3> QED BY <2>1, <2>2, NatInduct
  <2>4. PICK i \in S : TRUE
    OBVIOUS
  <2>5. i \in Nat /\ i \in 0 .. i /\ i \in T
    BY <2>3, <2>4
  <2> QED BY <2>4, <2>5
<1> QED BY <1>1 DEF FirstOf

LEMMA Bounds ==
    /\ MaxNesting \in Nat /\ MaxNesting # 0 /\ MaxNesting \in 0 .. MaxNesting
    /\ MaxLayers \in 6 .. MaxIndex /\ MaxDescriptors \in 0 .. MaxIndex /\ MaxMacros \in 0 .. MaxIndex
    /\ MaxCommands \in 0 .. MaxIndex /\ MaxChords \in 0 .. MaxIndex /\ MaxBinds \in Nat
<1>1. /\ MaxNesting \in Nat \ {0} /\ MaxLayers \in 6 .. MaxIndex /\ MaxBinds \in Nat
      /\ {MaxDescriptors, MaxMacros, MaxCommands, MaxChords} \subseteq 0 .. MaxIndex
  BY ConfigsAssumed, Zenon DEF ConfigAssumption
<1> QED BY <1>1

\* A function of the argument count, as ParseArgs defines it.
ArgsRec(f, c, parse, t, op, args, m) ==
    f = [k \in 0 .. m |->
            IF k = 0 THEN Parsed(t, Descriptor(op, <<>>))
            ELSE ParseArg(c, parse, f[k - 1], ArgTypes[op][Len(args) - k + 1], args[Len(args) - k + 1])]

LEMMA ArgsRecExists ==
    ASSUME NEW c, NEW parse, NEW t, NEW op, NEW args
    PROVE  \A m \in Nat : \E f : ArgsRec(f, c, parse, t, op, args, m)
<1> DEFINE T == {m \in Nat : \E f : ArgsRec(f, c, parse, t, op, args, m)}
           Base == Parsed(t, Descriptor(op, <<>>))
           Step(r, k) == ParseArg(c, parse, r, ArgTypes[op][Len(args) - k + 1], args[Len(args) - k + 1])
<1>1. 0 \in T
  <2>1. ArgsRec([k \in 0 .. 0 |-> Base], c, parse, t, op, args, 0)
    <3> HIDE DEF Base, Step
    <3>1. [k \in 0 .. 0 |-> Base] =
             [k \in 0 .. 0 |-> IF k = 0 THEN Base ELSE Step([j \in 0 .. 0 |-> Base][k - 1], k)]
      OBVIOUS
    <3> QED BY <3>1 DEF ArgsRec, Base, Step
  <2> QED BY <2>1
<1>2. \A n \in Nat : n \in T => n + 1 \in T
  <2> SUFFICES ASSUME NEW n \in Nat, NEW f, ArgsRec(f, c, parse, t, op, args, n)
               PROVE  \E g : ArgsRec(g, c, parse, t, op, args, n + 1)
    OBVIOUS
  <2> DEFINE g == [k \in 0 .. n + 1 |-> IF k = n + 1 THEN Step(f[n], n + 1) ELSE f[k]]
  <2>1. f = [k \in 0 .. n |-> IF k = 0 THEN Base ELSE Step(f[k - 1], k)]
    BY DEF ArgsRec
  <2>2. g = [k \in 0 .. n + 1 |-> IF k = 0 THEN Base ELSE Step(g[k - 1], k)]
    <3> HIDE DEF Base, Step
    <3> SUFFICES ASSUME NEW k \in 0 .. n + 1
                 PROVE  g[k] = IF k = 0 THEN Base ELSE Step(g[k - 1], k)
      OBVIOUS
    <3>1. CASE k = 0
      BY <2>1, <3>1
    <3>2. CASE k = n + 1
      <4>1. k - 1 = n /\ n \in 0 .. n + 1 /\ n # n + 1 /\ k # 0
        BY <3>2
      <4>2. g[n] = f[n] /\ g[k] = Step(f[n], n + 1)
        BY <3>2, <4>1
      <4> HIDE DEF g
      <4> QED BY <3>2, <4>1, <4>2
    <3>3. CASE k # 0 /\ k # n + 1
      <4>1. k \in 0 .. n /\ k - 1 \in 0 .. n + 1 /\ k - 1 # n + 1
        BY <3>3
      <4>2. g[k] = f[k] /\ g[k - 1] = f[k - 1]
        BY <3>3, <4>1
      <4>3. f[k] = IF k = 0 THEN Base ELSE Step(f[k - 1], k)
        BY <2>1, <4>1
      <4> HIDE DEF g
      <4> QED BY <3>3, <4>2, <4>3
    <3> QED BY <3>1, <3>2, <3>3
  <2>3. ArgsRec(g, c, parse, t, op, args, n + 1)
    <3> HIDE DEF g
    <3> QED BY <2>2 DEF ArgsRec
  <2> QED BY <2>3
<1>3. Nat \subseteq T
  <2> HIDE DEF T
  <2> QED BY <1>1, <1>2, NatInduct
<1> QED BY <1>3

LEMMA ArgsRecDef ==
    ASSUME NEW c, NEW parse, NEW t, NEW op, NEW args, Len(args) \in Nat
    PROVE  \E f : /\ ArgsRec(f, c, parse, t, op, args, Len(args))
                  /\ ParseArgs(c, parse, t, op, args) = f[Len(args)]
<1> DEFINE n == Len(args)
           result[k \in 0 .. n] ==
            IF k = 0 THEN Parsed(t, Descriptor(op, <<>>))
            ELSE ParseArg(c, parse, result[k - 1], ArgTypes[op][n - k + 1], args[n - k + 1])
<1>1. ParseArgs(c, parse, t, op, args) = result[n]
  BY DEF ParseArgs
<1>2. \E f : f = [k \in 0 .. n |->
            IF k = 0 THEN Parsed(t, Descriptor(op, <<>>))
            ELSE ParseArg(c, parse, f[k - 1], ArgTypes[op][n - k + 1], args[n - k + 1])]
  <2>1. PICK f : ArgsRec(f, c, parse, t, op, args, n)
    BY ArgsRecExists
  <2> QED BY <2>1, Zenon DEF ArgsRec
<1>3. result = [k \in 0 .. n |->
            IF k = 0 THEN Parsed(t, Descriptor(op, <<>>))
            ELSE ParseArg(c, parse, result[k - 1], ArgTypes[op][n - k + 1], args[n - k + 1])]
  BY <1>2
<1> HIDE DEF result
<1> QED BY <1>1, <1>3 DEF ArgsRec

\* The right-hand sides, as a recursive function.
ExprRec(f, m) ==
    f = [n \in 0 .. m |->
            IF n = 0 THEN Simple
            ELSE Simple \cup {e \in [kind : {"fn"}, name : Text, args : Seq(f[n - 1])] :
                                Rewritten(e).args \in Seq(f[n - 1])}]

LEMMA ExprRecExists == \A m \in Nat : \E f : ExprRec(f, m)
<1> DEFINE T == {m \in Nat : \E f : ExprRec(f, m)}
           Step(S) == Simple \cup {e \in [kind : {"fn"}, name : Text, args : Seq(S)] :
                                     Rewritten(e).args \in Seq(S)}
<1>1. 0 \in T
  <2>1. ExprRec([n \in 0 .. 0 |-> Simple], 0)
    <3> HIDE DEF Step
    <3>1. [n \in 0 .. 0 |-> Simple] =
             [n \in 0 .. 0 |-> IF n = 0 THEN Simple ELSE Step([j \in 0 .. 0 |-> Simple][n - 1])]
      OBVIOUS
    <3> QED BY <3>1 DEF ExprRec, Step
  <2> QED BY <2>1
<1>2. \A n \in Nat : n \in T => n + 1 \in T
  <2> SUFFICES ASSUME NEW n \in Nat, NEW f, ExprRec(f, n)
               PROVE  \E g : ExprRec(g, n + 1)
    OBVIOUS
  <2> DEFINE g == [k \in 0 .. n + 1 |-> IF k = n + 1 THEN Step(f[n]) ELSE f[k]]
  <2>1. f = [k \in 0 .. n |-> IF k = 0 THEN Simple ELSE Step(f[k - 1])]
    BY DEF ExprRec
  <2>2. g = [k \in 0 .. n + 1 |-> IF k = 0 THEN Simple ELSE Step(g[k - 1])]
    <3> HIDE DEF Step
    <3> SUFFICES ASSUME NEW k \in 0 .. n + 1
                 PROVE  g[k] = IF k = 0 THEN Simple ELSE Step(g[k - 1])
      OBVIOUS
    <3>1. CASE k = 0
      BY <2>1, <3>1
    <3>2. CASE k = n + 1
      <4>1. k - 1 = n /\ n \in 0 .. n + 1 /\ n # n + 1 /\ k # 0
        BY <3>2
      <4>2. g[n] = f[n] /\ g[k] = Step(f[n])
        BY <3>2, <4>1
      <4> HIDE DEF g
      <4> QED BY <3>2, <4>1, <4>2
    <3>3. CASE k # 0 /\ k # n + 1
      <4>1. k \in 0 .. n /\ k - 1 \in 0 .. n + 1 /\ k - 1 # n + 1
        BY <3>3
      <4>2. g[k] = f[k] /\ g[k - 1] = f[k - 1]
        BY <3>3, <4>1
      <4>3. f[k] = IF k = 0 THEN Simple ELSE Step(f[k - 1])
        BY <2>1, <4>1
      <4> HIDE DEF g
      <4> QED BY <3>3, <4>2, <4>3
    <3> QED BY <3>1, <3>2, <3>3
  <2>3. ExprRec(g, n + 1)
    <3> HIDE DEF g
    <3> QED BY <2>2 DEF ExprRec
  <2> QED BY <2>3
<1>3. Nat \subseteq T
  <2> HIDE DEF T
  <2> QED BY <1>1, <1>2, NatInduct
<1> QED BY <1>3

LEMMA ExpressionsDef == ExprRec(Expressions, MaxNesting)
<1>1. MaxNesting \in Nat
  BY Bounds
<1>2. \E f : f = [n \in 0 .. MaxNesting |->
            IF n = 0 THEN Simple
            ELSE Simple \cup {e \in [kind : {"fn"}, name : Text, args : Seq(f[n - 1])] :
                                Rewritten(e).args \in Seq(f[n - 1])}]
  <2>1. PICK f : ExprRec(f, MaxNesting)
    BY <1>1, ExprRecExists
  <2> QED BY <2>1, Zenon DEF ExprRec
<1>3. Expressions = [n \in 0 .. MaxNesting |->
            IF n = 0 THEN Simple
            ELSE Simple \cup {e \in [kind : {"fn"}, name : Text, args : Seq(Expressions[n - 1])] :
                                Rewritten(e).args \in Seq(Expressions[n - 1])}]
  BY <1>2, Zenon DEF Expressions
<1> QED BY <1>3, Zenon DEF ExprRec

\* parse_descriptor, as a recursive function of the depth of nesting.
ParseRec(f, c, m) ==
    f = [n \in 0 .. m |-> [in \in Tables \X Expressions[n] |->
            ParseExpression(c, IF n = 0 THEN <<>> ELSE f[n - 1], in[1], in[2])]]

LEMMA ParseRecExists == ASSUME NEW c PROVE \A m \in Nat : \E f : ParseRec(f, c, m)
<1> DEFINE T == {m \in Nat : \E f : ParseRec(f, c, m)}
           Step(n, p) == [in \in Tables \X Expressions[n] |-> ParseExpression(c, p, in[1], in[2])]
<1>0. ASSUME NEW f, NEW m
      PROVE  ParseRec(f, c, m) <=> f = [n \in 0 .. m |-> Step(n, IF n = 0 THEN <<>> ELSE f[n - 1])]
  BY Zenon DEF ParseRec
<1> HIDE DEF Step
<1>1. 0 \in T
  <2> DEFINE g == [n \in 0 .. 0 |-> Step(n, <<>>)]
  <2>1. g = [n \in 0 .. 0 |-> Step(n, IF n = 0 THEN <<>> ELSE g[n - 1])]
    OBVIOUS
  <2> HIDE DEF g
  <2>2. ParseRec(g, c, 0)
    BY <1>0, <2>1
  <2> QED BY <2>2
<1>2. \A n \in Nat : n \in T => n + 1 \in T
  <2> SUFFICES ASSUME NEW n \in Nat, NEW f, ParseRec(f, c, n)
               PROVE  \E g : ParseRec(g, c, n + 1)
    OBVIOUS
  <2> DEFINE g == [k \in 0 .. n + 1 |-> IF k = n + 1 THEN Step(n + 1, f[n]) ELSE f[k]]
  <2>1. f = [k \in 0 .. n |-> Step(k, IF k = 0 THEN <<>> ELSE f[k - 1])]
    BY <1>0
  <2>2. g = [k \in 0 .. n + 1 |-> Step(k, IF k = 0 THEN <<>> ELSE g[k - 1])]
    <3> SUFFICES ASSUME NEW k \in 0 .. n + 1
                 PROVE  g[k] = Step(k, IF k = 0 THEN <<>> ELSE g[k - 1])
      OBVIOUS
    <3>1. CASE k = 0
      BY <2>1, <3>1
    <3>2. CASE k = n + 1
      <4>1. k - 1 = n /\ n \in 0 .. n + 1 /\ n # n + 1 /\ k # 0
        BY <3>2
      <4>2. g[n] = f[n] /\ g[k] = Step(n + 1, f[n])
        BY <3>2, <4>1
      <4> HIDE DEF g
      <4> QED BY <3>2, <4>1, <4>2
    <3>3. CASE k # 0 /\ k # n + 1
      <4>1. k \in 0 .. n /\ k - 1 \in 0 .. n + 1 /\ k - 1 # n + 1
        BY <3>3
      <4>2. g[k] = f[k] /\ g[k - 1] = f[k - 1]
        BY <3>3, <4>1
      <4>3. f[k] = Step(k, IF k = 0 THEN <<>> ELSE f[k - 1])
        BY <2>1, <4>1
      <4> HIDE DEF g
      <4> QED BY <3>3, <4>2, <4>3
    <3> QED BY <3>1, <3>2, <3>3
  <2> HIDE DEF g
  <2>3. ParseRec(g, c, n + 1)
    BY <1>0, <2>2
  <2> QED BY <2>3
<1>3. Nat \subseteq T
  <2> HIDE DEF T
  <2> QED BY <1>1, <1>2, NatInduct
<1> QED BY <1>3

LEMMA ParseRecDef ==
    ASSUME NEW c, NEW e
    PROVE  \E f : /\ ParseRec(f, c, MaxNesting)
                  /\ parse_descriptor(c, e) =
                        [f[MaxNesting][<<TablesOf(c), e>>] EXCEPT !.config = WithTables(c, @)]
<1> DEFINE parse[n \in 0 .. MaxNesting] ==
            [in \in Tables \X Expressions[n] |->
                ParseExpression(c, IF n = 0 THEN <<>> ELSE parse[n - 1], in[1], in[2])]
<1>1. parse_descriptor(c, e) = [parse[MaxNesting][<<TablesOf(c), e>>] EXCEPT !.config = WithTables(c, @)]
  BY DEF parse_descriptor
<1>2. \E f : f = [n \in 0 .. MaxNesting |-> [in \in Tables \X Expressions[n] |->
            ParseExpression(c, IF n = 0 THEN <<>> ELSE f[n - 1], in[1], in[2])]]
  <2>1. PICK f : ParseRec(f, c, MaxNesting)
    BY ParseRecExists, Bounds
  <2> QED BY <2>1, Zenon DEF ParseRec
<1>3. parse = [n \in 0 .. MaxNesting |-> [in \in Tables \X Expressions[n] |->
            ParseExpression(c, IF n = 0 THEN <<>> ELSE parse[n - 1], in[1], in[2])]]
  BY <1>2
<1> HIDE DEF parse
<1> QED BY <1>1, <1>3, Zenon DEF ParseRec

-----------------------------------------------------------------------------
(* Types, and what the arguments of a descriptor may be.                    *)

ArgKinds == {"layer", "layout", "descriptor", "macro", "command", "timeout", "sensitivity"}
ArgValues == 0 .. MaxTimeout - 1
OpenDescs == [op : Ops, code : KeyCodes \cup {NoCode}, mods : SUBSET Text, args : Seq(ArgValues)]
Descs == {d \in OpenDescs : Len(d.args) = Len(TypesOf(d.op))}
KeyMaps == UNION {[D -> Descs] : D \in SUBSET KeyCodes}
ChordRows == [keys : Seq(KeyCodes), d : Descs]
LayerRows == [name : Seq(Text), type : {"normal", "layout", "composite"}, mods : SUBSET Text,
              keymap : KeyMaps, chords : Seq(ChordRows), constituents : Seq(Nat)]
RowTables == [descriptors : Seq(Descs), macros : Seq(Text), commands : Seq(Text)]

\* v is what an argument of this type may be, of a descriptor that may refer
\* to the first limit descriptors.
ArgSound(layers, t, type, v, limit) ==
    /\ type \in {"layer", "layout"} => v \in 1 .. Len(layers)
    /\ type = "layer" => v # MainLayer /\ layers[v].type # "layout"
    /\ type = "layout" => v = MainLayer \/ layers[v].type = "layout"
    /\ type = "descriptor" => v \in 1 .. limit
    /\ type = "macro" => v \in 1 .. Len(t.macros)
    /\ type = "command" => v \in 1 .. Len(t.commands)
Sound(layers, t, d, limit) ==
    \A i \in 1 .. Len(d.args) : ArgSound(layers, t, TypesOf(d.op)[i], d.args[i], limit)

TablesOK(layers, t) ==
    /\ Len(t.descriptors) <= MaxDescriptors
    /\ Len(t.macros) <= MaxMacros /\ Len(t.commands) <= MaxCommands
    /\ \A i \in 1 .. Len(t.descriptors) : Sound(layers, t, t.descriptors[i], i - 1)

Begins(s, u) == Len(s) <= Len(u) /\ \A i \in 1 .. Len(s) : s[i] = u[i]
Longer(t, u) == /\ Begins(t.descriptors, u.descriptors)
                /\ Begins(t.macros, u.macros) /\ Begins(t.commands, u.commands)

\* The layers of the default file are there, and a name is that of one layer.
Headed(layers) ==
    /\ Len(layers) >= 6 /\ layers[MainLayer].name = <<"main">>
    /\ \A m \in {"shift", "alt", "altgr", "meta", "control"} :
          \E i \in 2 .. 6 : layers[i].name = <<m>> /\ layers[i].type = "normal"
    /\ \A i, j \in 1 .. Len(layers) : layers[i].name = layers[j].name => i = j
LayersOK(layers) == layers \in Seq(LayerRows) /\ Len(layers) <= MaxLayers

LEMMA Modulus == \A n \in Int : n % MaxTimeout \in ArgValues
BY DEF MaxTimeout, ArgValues

LEMMA Numbers ==
    /\ MaxTimeout \in Nat /\ MaxTimeout # 0 /\ MaxIndex \in Nat /\ MaxIndex < MaxTimeout
    /\ \A i \in 0 .. MaxIndex : i \in ArgValues
<1>1. /\ MaxTimeout \in Nat /\ MaxTimeout # 0 /\ MaxIndex \in Nat /\ MaxIndex < MaxTimeout
      /\ MaxIndex <= MaxTimeout - 1
  BY DEF MaxTimeout, MaxIndex
<1> QED BY <1>1 DEF ArgValues

\* The sizes of the tables are within the range of an index.
LEMMA Limits ==
    /\ MaxDescriptors \in Nat /\ MaxMacros \in Nat /\ MaxCommands \in Nat /\ MaxLayers \in Nat
    /\ MaxChords \in Nat /\ MaxLayers >= 6
    /\ \A i \in Nat : \/ i <= MaxDescriptors \/ i <= MaxMacros \/ i <= MaxCommands \/ i <= MaxLayers
                      => i \in ArgValues
<1>1. MaxIndex \in Nat
  BY Numbers
<1>2. /\ MaxDescriptors \in Nat /\ MaxMacros \in Nat /\ MaxCommands \in Nat /\ MaxLayers \in Nat
      /\ MaxChords \in Nat /\ MaxLayers >= 6
      /\ MaxDescriptors <= MaxIndex /\ MaxMacros <= MaxIndex /\ MaxCommands <= MaxIndex
      /\ MaxLayers <= MaxIndex
  BY <1>1, Bounds
<1>3. ASSUME NEW i \in Nat,
             i <= MaxDescriptors \/ i <= MaxMacros \/ i <= MaxCommands \/ i <= MaxLayers
      PROVE  i \in ArgValues
  <2>1. i \in 0 .. MaxIndex
    BY <1>1, <1>2, <1>3
  <2> QED BY <2>1, Numbers
<1> QED BY <1>2, <1>3

LEMMA ArgTypesDomain ==
    DOMAIN ArgTypes = {"clear", "clearm", "layer", "oneshot", "toggle", "swap", "layerm", "oneshotm",
      "togglem", "swapm", "overload", "overloadt", "overloadt2", "overloadi", "timeout", "macro2",
      "setlayout", "scroll", "scrollt"}
BY DEF ArgTypes

LEMMA TupleTypes ==
    ASSUME NEW a \in ArgKinds, NEW b \in ArgKinds, NEW c \in ArgKinds
    PROVE  /\ <<>> \in Seq(ArgKinds) /\ Len(<<>>) \in 0 .. 3
           /\ <<a>> \in Seq(ArgKinds) /\ Len(<<a>>) \in 0 .. 3
           /\ <<a, b>> \in Seq(ArgKinds) /\ Len(<<a, b>>) \in 0 .. 3
           /\ <<a, b, c>> \in Seq(ArgKinds) /\ Len(<<a, b, c>>) \in 0 .. 3
OBVIOUS

\* The table of actions: each has at most three arguments of known types.
LEMMA ArgTypesTyped ==
    \A op \in DOMAIN ArgTypes : /\ ArgTypes[op] \in Seq(ArgKinds) /\ Len(ArgTypes[op]) \in 0 .. 3
                                /\ \A i \in 1 .. Len(ArgTypes[op]) : ArgTypes[op][i] # "command"
<1> DEFINE Good(ts) == /\ ts \in Seq(ArgKinds) /\ Len(ts) \in 0 .. 3
                       /\ \A i \in 1 .. Len(ts) : ts[i] # "command"
<1>1. /\ Good(<<>>) /\ Good(<<"macro">>) /\ Good(<<"layer">>) /\ Good(<<"layout">>)
      /\ Good(<<"sensitivity">>) /\ Good(<<"layer", "macro">>) /\ Good(<<"layer", "descriptor">>)
      /\ Good(<<"layer", "descriptor", "timeout">>) /\ Good(<<"descriptor", "descriptor", "timeout">>)
      /\ Good(<<"descriptor", "timeout", "descriptor">>) /\ Good(<<"timeout", "timeout", "macro">>)
  <2>1. {"layer", "layout", "descriptor", "macro", "timeout", "sensitivity"} \subseteq ArgKinds
    BY DEF ArgKinds
  <2>2. ASSUME NEW a \in {"layer", "layout", "descriptor", "macro", "timeout", "sensitivity"},
               NEW b \in {"layer", "layout", "descriptor", "macro", "timeout", "sensitivity"},
               NEW c \in {"layer", "layout", "descriptor", "macro", "timeout", "sensitivity"}
        PROVE  Good(<<>>) /\ Good(<<a>>) /\ Good(<<a, b>>) /\ Good(<<a, b, c>>)
    <3>1. a # "command" /\ b # "command" /\ c # "command"
      OBVIOUS
    <3> QED BY <2>1, <3>1
  <2> HIDE DEF Good
  <2> QED BY <2>2
<1>2. /\ ArgTypes["clear"] = <<>> /\ ArgTypes["clearm"] = <<"macro">>
      /\ ArgTypes["layer"] = <<"layer">> /\ ArgTypes["oneshot"] = <<"layer">>
      /\ ArgTypes["toggle"] = <<"layer">> /\ ArgTypes["swap"] = <<"layer">>
      /\ ArgTypes["layerm"] = <<"layer", "macro">> /\ ArgTypes["oneshotm"] = <<"layer", "macro">>
      /\ ArgTypes["togglem"] = <<"layer", "macro">> /\ ArgTypes["swapm"] = <<"layer", "macro">>
      /\ ArgTypes["overload"] = <<"layer", "descriptor">>
      /\ ArgTypes["overloadt"] = <<"layer", "descriptor", "timeout">>
      /\ ArgTypes["overloadt2"] = <<"layer", "descriptor", "timeout">>
      /\ ArgTypes["overloadi"] = <<"descriptor", "descriptor", "timeout">>
      /\ ArgTypes["timeout"] = <<"descriptor", "timeout", "descriptor">>
      /\ ArgTypes["macro2"] = <<"timeout", "timeout", "macro">>
      /\ ArgTypes["setlayout"] = <<"layout">> /\ ArgTypes["scroll"] = <<"sensitivity">>
      /\ ArgTypes["scrollt"] = <<"sensitivity">>
  BY DEF ArgTypes
<1>3. \A op \in DOMAIN ArgTypes : Good(ArgTypes[op])
  <2> HIDE DEF Good
  <2> QED BY <1>1, <1>2, ArgTypesDomain
<1> QED BY <1>3

LEMMA OpsTyped ==
    /\ Ops = DOMAIN ArgTypes \cup {"none", "keysequence", "macro", "command"}
    /\ \A op \in DOMAIN ArgTypes : TypesOf(op) = ArgTypes[op]
    /\ TypesOf("none") = <<>> /\ TypesOf("keysequence") = <<>>
    /\ TypesOf("macro") = <<"macro">> /\ TypesOf("command") = <<"command">>
<1>1. /\ DOMAIN PlainArgTypes = {"none", "keysequence", "macro", "command"}
      /\ PlainArgTypes["none"] = <<>> /\ PlainArgTypes["keysequence"] = <<>>
      /\ PlainArgTypes["macro"] = <<"macro">> /\ PlainArgTypes["command"] = <<"command">>
  BY DEF PlainArgTypes
<1>2. /\ "none" \notin DOMAIN ArgTypes /\ "keysequence" \notin DOMAIN ArgTypes
      /\ "macro" \notin DOMAIN ArgTypes /\ "command" \notin DOMAIN ArgTypes
  BY ArgTypesDomain
<1> QED BY <1>1, <1>2 DEF Ops, TypesOf

LEMMA NoDescTyped ==
    /\ NoDesc \in Descs /\ NoDesc.args = <<>>
    /\ \A layers, t, limit : Sound(layers, t, NoDesc, limit)
<1>1. NoDesc = [op |-> "none", code |-> NoCode, mods |-> {}, args |-> <<>>]
  BY DEF NoDesc, Descriptor
<1>2. NoDesc \in OpenDescs
  BY <1>1, OpsTyped DEF OpenDescs
<1>3. NoDesc.op = "none" /\ NoDesc.args = <<>> /\ Len(NoDesc.args) = 0
  BY <1>1
<1> QED BY <1>2, <1>3, OpsTyped DEF Descs, Sound

LEMMA OpenDescTyped ==
    ASSUME NEW op \in Ops, NEW args \in Seq(ArgValues)
    PROVE  /\ Descriptor(op, args) \in OpenDescs /\ Descriptor(op, args).op = op
           /\ Descriptor(op, args).args = args
BY OpsTyped DEF Descriptor, OpenDescs

LEMMA OneArgDesc ==
    ASSUME NEW op \in Ops, Len(TypesOf(op)) = 1, NEW v \in ArgValues
    PROVE  LET d == Descriptor(op, <<v>>) IN
           /\ d \in Descs /\ d.op = op /\ d.args = <<v>> /\ Len(d.args) = 1 /\ d.args[1] = v
<1>1. Descriptor(op, <<v>>) = [op |-> op, code |-> NoCode, mods |-> {}, args |-> <<v>>]
  BY DEF Descriptor
<1>2. <<v>> \in Seq(ArgValues) /\ Len(<<v>>) = 1 /\ <<v>>[1] = v
  OBVIOUS
<1> DEFINE d == Descriptor(op, <<v>>)
<1>3. d.op = op /\ d.args = <<v>>
  BY <1>1
<1>4. d \in OpenDescs
  BY <1>2, OpenDescTyped
<1> HIDE DEF d
<1>5. d \in Descs /\ d.op = op /\ d.args = <<v>> /\ Len(d.args) = 1 /\ d.args[1] = v
  BY <1>2, <1>3, <1>4 DEF Descs
<1> QED BY <1>5 DEF d

LEMMA WithTablesFields ==
    ASSUME NEW c, DOMAIN c = {"layers", "descriptors", "macros", "commands", "aliases", "ids", "globals"},
           c = [x \in DOMAIN c |-> c[x]], NEW t
    PROVE  LET u == WithTables(c, t) IN
           /\ u.layers = c.layers /\ u.aliases = c.aliases /\ u.ids = c.ids /\ u.globals = c.globals
           /\ u.descriptors = t.descriptors /\ u.macros = t.macros /\ u.commands = t.commands
BY DEF WithTables

-----------------------------------------------------------------------------
(* parse_descriptor: whatever it is given, the tables it returns are those   *)
(* it was given with rows behind them, and what is in them is sound.        *)

LEMMA BeginsSame == ASSUME NEW S, NEW s \in Seq(S) PROVE Begins(s, s)
BY DEF Begins

LEMMA BeginsTrans ==
    ASSUME NEW S, NEW s \in Seq(S), NEW u \in Seq(S), NEW w \in Seq(S), Begins(s, u), Begins(u, w)
    PROVE  Begins(s, w)
<1>1. Len(s) \in Nat /\ Len(u) \in Nat /\ Len(w) \in Nat
  OBVIOUS
<1>2. \A i \in 1 .. Len(s) : i \in 1 .. Len(u)
  BY <1>1 DEF Begins
<1> QED BY <1>1, <1>2 DEF Begins

LEMMA BeginsAppend ==
    ASSUME NEW S, NEW s \in Seq(S), NEW x \in S
    PROVE  /\ Append(s, x) \in Seq(S) /\ Len(Append(s, x)) = Len(s) + 1 /\ Begins(s, Append(s, x))
           /\ Append(s, x)[Len(s) + 1] = x
           /\ \A i \in 1 .. Len(s) + 1 : i \in 1 .. Len(s) \/ i = Len(s) + 1
BY DEF Begins

LEMMA LongerSame == ASSUME NEW t \in RowTables PROVE Longer(t, t)
BY BeginsSame DEF Longer, RowTables

LEMMA LongerTrans ==
    ASSUME NEW t \in RowTables, NEW u \in RowTables, NEW w \in RowTables, Longer(t, u), Longer(u, w)
    PROVE  Longer(t, w)
<1>1. /\ t.descriptors \in Seq(Descs) /\ u.descriptors \in Seq(Descs) /\ w.descriptors \in Seq(Descs)
      /\ t.macros \in Seq(Text) /\ u.macros \in Seq(Text) /\ w.macros \in Seq(Text)
      /\ t.commands \in Seq(Text) /\ u.commands \in Seq(Text) /\ w.commands \in Seq(Text)
  BY DEF RowTables
<1> QED BY <1>1, BeginsTrans DEF Longer

\* What was sound stays so when the tables grow.
LEMMA ArgSoundLonger ==
    ASSUME NEW layers, NEW t \in RowTables, NEW u \in RowTables, Longer(t, u),
           NEW type, NEW v, NEW m \in Nat, NEW n \in Nat, m <= n, ArgSound(layers, t, type, v, m)
    PROVE  ArgSound(layers, u, type, v, n)
<1>1. /\ Len(t.macros) \in Nat /\ Len(u.macros) \in Nat /\ Len(t.macros) <= Len(u.macros)
      /\ Len(t.commands) \in Nat /\ Len(u.commands) \in Nat /\ Len(t.commands) <= Len(u.commands)
  BY DEF Longer, Begins, RowTables
<1> QED BY <1>1 DEF ArgSound

LEMMA SoundLonger ==
    ASSUME NEW layers, NEW t \in RowTables, NEW u \in RowTables, Longer(t, u),
           NEW d, NEW m \in Nat, NEW n \in Nat, m <= n, Sound(layers, t, d, m)
    PROVE  Sound(layers, u, d, n)
BY ArgSoundLonger DEF Sound

LEMMA LongerLengths ==
    ASSUME NEW t \in RowTables, NEW u \in RowTables, Longer(t, u)
    PROVE  /\ Len(t.descriptors) \in Nat /\ Len(u.descriptors) \in Nat
           /\ Len(t.descriptors) <= Len(u.descriptors)
BY DEF Longer, Begins, RowTables

LEMMA TableSeqs ==
    ASSUME NEW t \in RowTables
    PROVE  /\ t.descriptors \in Seq(Descs) /\ t.macros \in Seq(Text) /\ t.commands \in Seq(Text)
BY DEF RowTables

LEMMA DescriptorsUpdate ==
    ASSUME NEW t \in RowTables, NEW s \in Seq(Descs), NEW u, u = [t EXCEPT !.descriptors = s]
    PROVE  u \in RowTables /\ u.descriptors = s /\ u.macros = t.macros /\ u.commands = t.commands
BY DEF RowTables

LEMMA MacrosUpdate ==
    ASSUME NEW t \in RowTables, NEW s \in Seq(Text), NEW u, u = [t EXCEPT !.macros = s]
    PROVE  u \in RowTables /\ u.macros = s /\ u.descriptors = t.descriptors /\ u.commands = t.commands
BY DEF RowTables

LEMMA CommandsUpdate ==
    ASSUME NEW t \in RowTables, NEW s \in Seq(Text), NEW u, u = [t EXCEPT !.commands = s]
    PROVE  u \in RowTables /\ u.commands = s /\ u.descriptors = t.descriptors /\ u.macros = t.macros
BY DEF RowTables

\* A row that is sound may be added to each table.
LEMMA RowAdded ==
    ASSUME NEW layers, NEW t \in RowTables, TablesOK(layers, t), Len(t.descriptors) < MaxDescriptors,
           NEW d \in Descs, Sound(layers, t, d, Len(t.descriptors))
    PROVE  LET u == [t EXCEPT !.descriptors = Append(@, d)] IN
           /\ u \in RowTables /\ TablesOK(layers, u) /\ Longer(t, u)
           /\ Len(u.descriptors) = Len(t.descriptors) + 1
<1> DEFINE u == [t EXCEPT !.descriptors = Append(@, d)]
           n == Len(t.descriptors)
<1>1. /\ u \in RowTables /\ u.descriptors = Append(t.descriptors, d)
      /\ u.macros = t.macros /\ u.commands = t.commands
      /\ t.descriptors \in Seq(Descs) /\ t.macros \in Seq(Text) /\ t.commands \in Seq(Text)
      /\ n \in Nat
  <2>1. Append(t.descriptors, d) \in Seq(Descs)
    BY TableSeqs
  <2>2. u = [t EXCEPT !.descriptors = Append(t.descriptors, d)]
    OBVIOUS
  <2> HIDE DEF u
  <2>3. u \in RowTables /\ u.descriptors = Append(t.descriptors, d) /\ u.macros = t.macros /\ u.commands = t.commands
    BY <2>1, <2>2, Zenon, DescriptorsUpdate
  <2> QED BY <2>3, TableSeqs
<1> HIDE DEF u
<1>2. Longer(t, u)
  BY <1>1, BeginsAppend, BeginsSame DEF Longer
<1>3. Len(u.descriptors) = n + 1 /\ u.descriptors[n + 1] = d
  BY <1>1, BeginsAppend
<1>4. ASSUME NEW i \in 1 .. n + 1 PROVE Sound(layers, u, u.descriptors[i], i - 1)
  <2>1. CASE i \in 1 .. n
    <3>1. u.descriptors[i] = t.descriptors[i] /\ i - 1 \in Nat
      BY <1>2, <2>1 DEF Longer, Begins
    <3>2. Sound(layers, t, t.descriptors[i], i - 1)
      BY <2>1 DEF TablesOK
    <3> QED BY <1>1, <1>2, <3>1, <3>2, SoundLonger
  <2>2. CASE i = n + 1
    BY <1>1, <1>2, <1>3, <2>2, SoundLonger
  <2> QED BY <1>1, <2>1, <2>2
<1>5. MaxDescriptors \in Nat
  BY Limits
<1>6. TablesOK(layers, u)
  BY <1>1, <1>3, <1>4, <1>5 DEF TablesOK
<1> QED BY <1>1, <1>2, <1>3, <1>6 DEF u

\* What a call of the parser returns.
ParseGood(layers, t, p) ==
    /\ p \in [ok : BOOLEAN, config : RowTables, d : Descs]
    /\ TablesOK(layers, p.config) /\ Longer(t, p.config)
    /\ p.ok => Sound(layers, p.config, p.d, Len(p.config.descriptors))

LEMMA ParsedFields ==
    ASSUME NEW t, NEW d
    PROVE  /\ Parsed(t, d).ok /\ Parsed(t, d).config = t /\ Parsed(t, d).d = d
           /\ ~Failed(t).ok /\ Failed(t).config = t /\ Failed(t).d = NoDesc
BY DEF Parsed, Failed

LEMMA FailedGood ==
    ASSUME NEW layers, NEW t \in RowTables, TablesOK(layers, t)
    PROVE  ParseGood(layers, t, Failed(t))
<1>1. Failed(t) \in [ok : BOOLEAN, config : RowTables, d : Descs]
  BY NoDescTyped DEF Failed
<1> QED BY <1>1, ParsedFields, LongerSame DEF ParseGood

LEMMA ParsedGood ==
    ASSUME NEW layers, NEW t \in RowTables, NEW u \in RowTables, TablesOK(layers, u), Longer(t, u),
           NEW d \in Descs, Sound(layers, u, d, Len(u.descriptors))
    PROVE  ParseGood(layers, t, Parsed(u, d))
<1>1. Parsed(u, d) \in [ok : BOOLEAN, config : RowTables, d : Descs]
  BY DEF Parsed
<1> DEFINE p == Parsed(u, d)
<1>2. p.config = u /\ p.d = d /\ p \in [ok : BOOLEAN, config : RowTables, d : Descs]
  BY <1>1, ParsedFields
<1> HIDE DEF p
<1>3. ParseGood(layers, t, p)
  BY <1>2 DEF ParseGood
<1> QED BY <1>3 DEF p

\* parse_macro_expression and parse_command add a row.
LEMMA MacroAdded ==
    ASSUME NEW layers, NEW t \in RowTables, TablesOK(layers, t), NEW x \in Text,
           Len(t.macros) < MaxMacros
    PROVE  LET u == [t EXCEPT !.macros = Append(@, x)] IN
           /\ u \in RowTables /\ TablesOK(layers, u) /\ Longer(t, u)
           /\ Len(u.macros) = Len(t.macros) + 1 /\ Len(u.macros) \in 1 .. MaxMacros
           /\ Len(u.descriptors) = Len(t.descriptors)
<1> DEFINE u == [t EXCEPT !.macros = Append(@, x)]
<1>1. /\ u \in RowTables /\ u.macros = Append(t.macros, x)
      /\ u.descriptors = t.descriptors /\ u.commands = t.commands
      /\ t.descriptors \in Seq(Descs) /\ t.macros \in Seq(Text) /\ t.commands \in Seq(Text)
      /\ Len(t.macros) \in Nat
  <2>1. Append(t.macros, x) \in Seq(Text)
    BY TableSeqs
  <2>2. u = [t EXCEPT !.macros = Append(t.macros, x)]
    OBVIOUS
  <2> HIDE DEF u
  <2>3. u \in RowTables /\ u.macros = Append(t.macros, x) /\ u.descriptors = t.descriptors /\ u.commands = t.commands
    BY <2>1, <2>2, Zenon, MacrosUpdate
  <2> QED BY <2>3, TableSeqs
<1> HIDE DEF u
<1>2. Longer(t, u) /\ Len(u.macros) = Len(t.macros) + 1
  BY <1>1, BeginsAppend, BeginsSame DEF Longer
<1>3. MaxMacros \in Nat
  BY Limits
<1>4. TablesOK(layers, u)
  BY <1>1, <1>2, <1>3, SoundLonger DEF TablesOK
<1> QED BY <1>1, <1>2, <1>3, <1>4 DEF u

LEMMA CommandAdded ==
    ASSUME NEW layers, NEW t \in RowTables, TablesOK(layers, t), NEW x \in Text,
           Len(t.commands) < MaxCommands
    PROVE  LET u == [t EXCEPT !.commands = Append(@, x)] IN
           /\ u \in RowTables /\ TablesOK(layers, u) /\ Longer(t, u)
           /\ Len(u.commands) = Len(t.commands) + 1 /\ Len(u.commands) \in 1 .. MaxCommands
<1> DEFINE u == [t EXCEPT !.commands = Append(@, x)]
<1>1. /\ u \in RowTables /\ u.commands = Append(t.commands, x)
      /\ u.descriptors = t.descriptors /\ u.macros = t.macros
      /\ t.descriptors \in Seq(Descs) /\ t.macros \in Seq(Text) /\ t.commands \in Seq(Text)
      /\ Len(t.commands) \in Nat
  <2>1. Append(t.commands, x) \in Seq(Text)
    BY TableSeqs
  <2>2. u = [t EXCEPT !.commands = Append(t.commands, x)]
    OBVIOUS
  <2> HIDE DEF u
  <2>3. u \in RowTables /\ u.commands = Append(t.commands, x) /\ u.descriptors = t.descriptors /\ u.macros = t.macros
    BY <2>1, <2>2, Zenon, CommandsUpdate
  <2> QED BY <2>3, TableSeqs
<1> HIDE DEF u
<1>2. Longer(t, u) /\ Len(u.commands) = Len(t.commands) + 1
  BY <1>1, BeginsAppend, BeginsSame DEF Longer
<1>3. MaxCommands \in Nat
  BY Limits
<1>4. TablesOK(layers, u)
  BY <1>1, <1>2, <1>3, SoundLonger DEF TablesOK
<1> QED BY <1>1, <1>2, <1>3, <1>4 DEF u

-----------------------------------------------------------------------------
(* Looking up layers, and what right-hand sides are made of.                *)

LEMMA LayerIndex ==
    ASSUME NEW c, Len(c.layers) \in Nat, DOMAIN c.layers = 1 .. Len(c.layers), NEW name
    PROVE  LET i == config_get_layer_index(c, name) IN
           /\ i \in 0 .. Len(c.layers)
           /\ i # 0 => i \in 1 .. Len(c.layers) /\ c.layers[i].name = name
           /\ \A j \in 1 .. Len(c.layers) : c.layers[j].name = name => i # 0
<1> DEFINE named == {i \in Positions(c.layers) : c.layers[i].name = name}
<1>1. config_get_layer_index(c, name) = IF named = {} THEN 0 ELSE FirstOf(named)
  BY DEF config_get_layer_index
<1>2. named \in SUBSET Nat /\ named \subseteq 1 .. Len(c.layers)
  BY DEF Positions
<1>3. CASE named = {}
  BY <1>1, <1>3 DEF Positions
<1>4. CASE named # {}
  <2>1. FirstOf(named) \in named
    <3> HIDE DEF named
    <3> QED BY <1>2, <1>4, FirstOfSet
  <2> DEFINE i == config_get_layer_index(c, name)
  <2>2. i \in named
    BY <1>1, <1>4, <2>1
  <2>3. i \in 1 .. Len(c.layers) /\ c.layers[i].name = name
    BY <1>2, <2>2
  <2> HIDE DEF i
  <2>4. i # 0 /\ i \in 0 .. Len(c.layers)
    BY <2>3
  <2> QED BY <2>3, <2>4 DEF i
<1> QED BY <1>3, <1>4

LEMMA LayersShape ==
    ASSUME NEW layers \in Seq(LayerRows)
    PROVE  /\ Len(layers) \in Nat /\ DOMAIN layers = 1 .. Len(layers)
           /\ \A i \in 1 .. Len(layers) : layers[i] \in LayerRows
OBVIOUS

\* In a configuration that has the layers of the default file, a modifier on
\* the right-hand side designates a layer that is no layout and not main.
LEMMA ModifierLayerIndex ==
    ASSUME NEW c, c.layers \in Seq(LayerRows), Headed(c.layers), NEW code \in DOMAIN ModifierLayer
    PROVE  LET i == config_get_layer_index(c, <<ModifierLayer[code]>>) IN
           i \in 1 .. Len(c.layers) /\ i # MainLayer /\ c.layers[i].type = "normal"
<1> DEFINE m == ModifierLayer[code]
           i == config_get_layer_index(c, <<m>>)
<1>1. m \in {"shift", "alt", "altgr", "meta", "control"}
  BY DEF ModifierLayer
<1> HIDE DEF m
<1>2. PICK j \in 2 .. 6 : c.layers[j].name = <<m>> /\ c.layers[j].type = "normal"
  BY <1>1 DEF Headed
<1>3. Len(c.layers) \in Nat /\ Len(c.layers) >= 6 /\ DOMAIN c.layers = 1 .. Len(c.layers)
  BY LayersShape DEF Headed
<1>4. j \in 1 .. Len(c.layers)
  BY <1>2, <1>3
<1>5. i \in 1 .. Len(c.layers) /\ c.layers[i].name = <<m>>
  <2> HIDE DEF i
  <2>1. i # 0 /\ (i # 0 => i \in 1 .. Len(c.layers) /\ c.layers[i].name = <<m>>)
    BY <1>2, <1>3, <1>4, LayerIndex DEF i
  <2> QED BY <2>1
<1> HIDE DEF i
<1>6. i = j
  BY <1>2, <1>4, <1>5 DEF Headed
<1>7. i \in 1 .. Len(c.layers) /\ i # MainLayer /\ c.layers[i].type = "normal"
  BY <1>2, <1>5, <1>6 DEF MainLayer
<1> QED BY <1>7 DEF i, m

LEMMA SeqSubset ==
    ASSUME NEW S, NEW T, S \subseteq T, NEW s \in Seq(S)
    PROVE  s \in Seq(T)
OBVIOUS

LEMMA KeyCodesText == KeyCodes \subseteq Text /\ NoCode \notin KeyCodes
BY ConfigsAssumed, Zenon DEF ConfigAssumption

LEMMA ExpressionsAt ==
    /\ Expressions[0] = Simple
    /\ \A n \in 1 .. MaxNesting :
          /\ n - 1 \in 0 .. MaxNesting
          /\ Expressions[n] = Simple \cup {e \in [kind : {"fn"}, name : Text, args : Seq(Expressions[n - 1])] :
                                              Rewritten(e).args \in Seq(Expressions[n - 1])}
<1>1. MaxNesting \in Nat
  BY Bounds
<1>2. Expressions = [n \in 0 .. MaxNesting |->
            IF n = 0 THEN Simple
            ELSE Simple \cup {e \in [kind : {"fn"}, name : Text, args : Seq(Expressions[n - 1])] :
                                Rewritten(e).args \in Seq(Expressions[n - 1])}]
  BY ExpressionsDef, Zenon DEF ExprRec
<1>3. 0 \in 0 .. MaxNesting
  BY <1>1
<1>4. ASSUME NEW n \in 1 .. MaxNesting PROVE n \in 0 .. MaxNesting /\ n # 0 /\ n - 1 \in 0 .. MaxNesting
  BY <1>1
<1> QED BY <1>2, <1>3, <1>4, Zenon

\* The parts of a right-hand side whose actions are nested at most n deep.
IsExpression(n, e) ==
    /\ e.kind \in {"empty", "key", "command", "macro", "number", "name", "fn"}
    /\ e.kind = "key" => e.code \in KeyCodes /\ e.mods \in SUBSET Text
    /\ e.kind = "command" => e.id \in Text
    /\ e.kind = "macro" => e.id \in Text
    /\ e.kind = "number" => e.n \in Int
    /\ e.kind = "fn" => n # 0 /\ Rewritten(e).args \in Seq(Expressions[n - 1])

LEMMA SimpleTyped == ASSUME NEW n, NEW e \in Simple PROVE IsExpression(n, e)
<1>1. CASE e \in [kind : {"empty"}]
  BY <1>1 DEF IsExpression
<1>2. CASE e \in [kind : {"key"}, code : KeyCodes, mods : SUBSET Text]
  BY <1>2 DEF IsExpression
<1>3. CASE e \in [kind : {"command"}, id : Text, fits : BOOLEAN]
  BY <1>3 DEF IsExpression
<1>4. CASE e \in [kind : {"macro"}, id : Text, valid : BOOLEAN]
  BY <1>4 DEF IsExpression
<1>5. CASE e \in [kind : {"number"}, n : Int]
  BY <1>5 DEF IsExpression
<1>6. CASE e \in [kind : {"name"}, parts : Seq(Text)]
  BY <1>6 DEF IsExpression
<1> QED BY <1>1, <1>2, <1>3, <1>4, <1>5, <1>6 DEF Simple

LEMMA ExpressionsTyped ==
    ASSUME NEW n \in 0 .. MaxNesting, NEW e \in Expressions[n]
    PROVE  IsExpression(n, e)
<1>1. CASE n = 0
  BY <1>1, ExpressionsAt, SimpleTyped
<1>2. CASE n # 0
  <2>1. n \in 1 .. MaxNesting
    BY <1>2, Bounds
  <2>2. CASE e \in Simple
    BY <2>2, SimpleTyped
  <2>3. CASE e \notin Simple
    <3>1. /\ e \in [kind : {"fn"}, name : Text, args : Seq(Expressions[n - 1])]
          /\ Rewritten(e).args \in Seq(Expressions[n - 1])
      BY <2>1, <2>3, ExpressionsAt, Zenon
    <3>2. e.kind = "fn"
      BY <3>1
    <3> QED BY <1>2, <3>1, <3>2 DEF IsExpression
  <2> QED BY <2>2, <2>3
<1> QED BY <1>1, <1>2

LEMMA MacroIdTyped ==
    ASSUME NEW n, NEW e, IsExpression(n, e), IsMacro(e)
    PROVE  MacroId(e) \in Text
BY KeyCodesText DEF IsExpression, IsMacro, MacroId

LEMMA NumberTyped ==
    ASSUME NEW n, NEW e, IsExpression(n, e)
    PROVE  Number(e) % MaxTimeout \in ArgValues
<1>1. Number(e) \in Int
  BY DEF IsExpression, Number
<1> QED BY <1>1, Modulus

-----------------------------------------------------------------------------
(* The arguments of an action, from the last to the first.                  *)

\* What there is after the last k arguments of op.
PartGood(layers, t, op, k, r) ==
    /\ r \in [ok : BOOLEAN, config : RowTables, d : OpenDescs]
    /\ TablesOK(layers, r.config) /\ Longer(t, r.config)
    /\ ~r.ok => r.d = NoDesc
    /\ r.ok => /\ r.d.op = op /\ Len(r.d.args) = k
               /\ \A j \in 1 .. k :
                     ArgSound(layers, r.config, ArgTypes[op][Len(ArgTypes[op]) - k + j], r.d.args[j],
                              Len(r.config.descriptors))

\* What parse_descriptor does for right-hand sides in E.
ParsesWell(layers, parse, E) ==
    \A t \in RowTables : TablesOK(layers, t) =>
        \A e \in E : ParseGood(layers, t, parse[<<t, e>>])

LEMMA PartFailed ==
    ASSUME NEW layers, NEW t \in RowTables, NEW op, NEW k, NEW u \in RowTables,
           TablesOK(layers, u), Longer(t, u)
    PROVE  PartGood(layers, t, op, k, Failed(u))
<1> DEFINE r == Failed(u)
<1>1. r \in [ok : BOOLEAN, config : RowTables, d : OpenDescs]
  BY NoDescTyped DEF Failed, Descs
<1>2. ~r.ok /\ r.config = u /\ r.d = NoDesc
  BY ParsedFields
<1> HIDE DEF r
<1>3. PartGood(layers, t, op, k, r)
  BY <1>1, <1>2 DEF PartGood
<1> QED BY <1>3 DEF r

LEMMA Prepended ==
    ASSUME NEW S, NEW s \in Seq(S), NEW v \in S
    PROVE  /\ <<v>> \o s \in Seq(S) /\ Len(<<v>> \o s) = Len(s) + 1 /\ (<<v>> \o s)[1] = v
           /\ \A j \in 2 .. Len(s) + 1 : (<<v>> \o s)[j] = s[j - 1] /\ j - 1 \in 1 .. Len(s)
OBVIOUS

LEMMA ArgsUpdate ==
    ASSUME NEW d \in OpenDescs, NEW s \in Seq(ArgValues), NEW u, u = [d EXCEPT !.args = s]
    PROVE  u \in OpenDescs /\ u.op = d.op /\ u.args = s
BY DEF OpenDescs

\* An argument goes before those to its right.
LEMMA PartLonger ==
    ASSUME NEW layers, NEW t \in RowTables, NEW op \in DOMAIN ArgTypes,
           NEW k \in 1 .. Len(ArgTypes[op]), NEW r, PartGood(layers, t, op, k - 1, r), r.ok,
           NEW u \in RowTables, TablesOK(layers, u), Longer(r.config, u), NEW v \in ArgValues,
           ArgSound(layers, u, ArgTypes[op][Len(ArgTypes[op]) - k + 1], v, Len(u.descriptors))
    PROVE  PartGood(layers, t, op, k, Parsed(u, [r.d EXCEPT !.args = <<v>> \o @]))
<1> DEFINE d == [r.d EXCEPT !.args = <<v>> \o @]
           q == Parsed(u, d)
           n == Len(ArgTypes[op])
<1>1. /\ r.config \in RowTables /\ r.d \in OpenDescs /\ r.d.op = op /\ Len(r.d.args) = k - 1
      /\ TablesOK(layers, r.config) /\ Longer(t, r.config)
      /\ \A j \in 1 .. k - 1 :
            ArgSound(layers, r.config, ArgTypes[op][n - (k - 1) + j], r.d.args[j],
                     Len(r.config.descriptors))
  BY DEF PartGood
<1>2. n \in Nat /\ k \in Nat /\ 1 <= k
  BY ArgTypesTyped
<1> HIDE DEF n
<1>3. r.d.args \in Seq(ArgValues)
  BY <1>1 DEF OpenDescs
<1>4. <<v>> \o r.d.args \in Seq(ArgValues) /\ Len(<<v>> \o r.d.args) = k /\ (<<v>> \o r.d.args)[1] = v
      /\ \A j \in 2 .. k : (<<v>> \o r.d.args)[j] = r.d.args[j - 1] /\ j - 1 \in 1 .. k - 1
  <2>1. k - 1 + 1 = k
    BY <1>2
  <2> QED BY <1>1, <1>3, <2>1, Prepended
<1>5. d \in OpenDescs /\ d.op = op /\ d.args = <<v>> \o r.d.args
  <2>1. d = [r.d EXCEPT !.args = <<v>> \o r.d.args]
    OBVIOUS
  <2>2. r.d \in OpenDescs /\ <<v>> \o r.d.args \in Seq(ArgValues)
    BY <1>1, <1>4
  <2>3. d \in OpenDescs /\ d.op = r.d.op /\ d.args = <<v>> \o r.d.args
    <3> DEFINE w == r.d
               s == <<v>> \o r.d.args
    <3>1. d = [w EXCEPT !.args = s] /\ w \in OpenDescs /\ s \in Seq(ArgValues)
      BY <2>1, <2>2
    <3> HIDE DEF d, w, s
    <3>2. d \in OpenDescs /\ d.op = w.op /\ d.args = s
      BY <3>1, ArgsUpdate
    <3> QED BY <3>2 DEF w, s
  <2> QED BY <1>1, <2>3, Zenon
<1> HIDE DEF d
<1>6. q.ok /\ q.config = u /\ q.d = d
  BY ParsedFields
<1>7. q \in [ok : BOOLEAN, config : RowTables, d : OpenDescs]
  BY <1>5 DEF Parsed
<1>8. Longer(t, u)
  BY <1>1, LongerTrans
<1>9. ASSUME NEW j \in 1 .. k
      PROVE  ArgSound(layers, u, ArgTypes[op][n - k + j], d.args[j], Len(u.descriptors))
  <2>1. CASE j = 1
    BY <1>4, <1>5, <2>1 DEF n
  <2>2. CASE j # 1
    <3>1. j \in 2 .. k /\ n - (k - 1) + (j - 1) = n - k + j
      BY <1>2, <2>2
    <3>2. j - 1 \in 1 .. k - 1 /\ d.args[j] = r.d.args[j - 1]
      BY <1>4, <1>5, <3>1
    <3>3. ArgSound(layers, r.config, ArgTypes[op][n - k + j], r.d.args[j - 1], Len(r.config.descriptors))
      BY <1>1, <3>1, <3>2
    <3>4. /\ Len(r.config.descriptors) \in Nat /\ Len(u.descriptors) \in Nat
          /\ Len(r.config.descriptors) <= Len(u.descriptors)
      BY <1>1, LongerLengths
    <3> QED BY <1>1, <3>2, <3>3, <3>4, ArgSoundLonger
  <2> QED BY <2>1, <2>2
<1>10. Len(d.args) = k
  BY <1>4, <1>5
<1> HIDE DEF q
<1>11. PartGood(layers, t, op, k, q)
  BY <1>5, <1>6, <1>7, <1>8, <1>9, <1>10 DEF PartGood, n
<1> QED BY <1>11 DEF q, d

LEMMA ParseArgGood ==
    ASSUME NEW c, c.layers \in Seq(LayerRows), Len(c.layers) <= MaxLayers,
           NEW parse, NEW m \in 0 .. MaxNesting, ParsesWell(c.layers, parse, Expressions[m]),
           NEW e \in Expressions[m],
           NEW t \in RowTables, NEW op \in DOMAIN ArgTypes, NEW k \in 1 .. Len(ArgTypes[op]),
           NEW r, PartGood(c.layers, t, op, k - 1, r)
    PROVE  PartGood(c.layers, t, op, k,
                    ParseArg(c, parse, r, ArgTypes[op][Len(ArgTypes[op]) - k + 1], e))
<1> DEFINE type == ArgTypes[op][Len(ArgTypes[op]) - k + 1]
           layers == c.layers
           u == r.config
           idx == LayerNamed(c, e)
           new == ParseArg(c, parse, r, type, e)
<1>1. type \in ArgKinds \ {"command"}
  <2>1. Len(ArgTypes[op]) - k + 1 \in 1 .. Len(ArgTypes[op])
    BY ArgTypesTyped
  <2> QED BY <2>1, ArgTypesTyped
<1>2. u \in RowTables /\ TablesOK(layers, u) /\ Longer(t, u)
  BY DEF PartGood
<1>3. IsExpression(m, e)
  BY ExpressionsTyped
<1>4. layers \in Seq(LayerRows) /\ Len(layers) \in Nat /\ DOMAIN layers = 1 .. Len(layers)
      /\ \A i \in 1 .. Len(layers) : i \in ArgValues
  <2>1. Len(layers) \in Nat /\ DOMAIN layers = 1 .. Len(layers)
    BY LayersShape
  <2>2. MaxLayers \in Nat
    BY Limits
  <2>3. \A i \in 1 .. Len(layers) : i \in Nat /\ i <= MaxLayers
    BY <2>1, <2>2
  <2> QED BY <2>1, <2>3, Limits
<1>5. CASE ~r.ok
  <2>1. new = r
    BY <1>5, Zenon DEF ParseArg
  <2>2. PartGood(layers, t, op, k, r)
    BY <1>5 DEF PartGood
  <2> QED BY <2>1, <2>2
<1>6. CASE r.ok /\ type \in {"layer", "layout"}
  <2>1. idx \in 0 .. Len(layers)
    <3>1. config_get_layer_index(c, e.parts) \in 0 .. Len(layers)
      BY <1>4, LayerIndex
    <3> QED BY <1>4, <3>1 DEF LayerNamed
  <2>2. CASE new = Failed(u)
    BY <1>2, <2>2, PartFailed
  <2>3. CASE new # Failed(u)
    <3> HIDE DEF idx, type
    <3>1. new = Parsed(u, [r.d EXCEPT !.args = <<idx>> \o @])
      BY <1>6, <2>3 DEF ParseArg, idx
    <3>2. /\ type = "layer" => idx \notin {0, MainLayer} /\ layers[idx].type # "layout"
          /\ type = "layout" => idx # 0 /\ (idx = MainLayer \/ layers[idx].type = "layout")
      <4>1. CASE type = "layer"
        <5>1. ~(idx \in {0, MainLayer} \/ c.layers[idx].type = "layout")
          BY <1>6, <2>3, <4>1 DEF ParseArg, idx
        <5> QED BY <4>1, <5>1
      <4>2. CASE type = "layout"
        <5>1. ~(idx = 0 \/ (idx # MainLayer /\ c.layers[idx].type # "layout"))
          BY <1>6, <2>3, <4>2 DEF ParseArg, idx
        <5> QED BY <4>2, <5>1
      <4> QED BY <1>6, <4>1, <4>2
    <3>3. idx \in ArgValues /\ idx \in 1 .. Len(layers)
      BY <1>4, <1>6, <2>1, <3>2
    <3>4. ArgSound(layers, u, type, idx, Len(u.descriptors))
      BY <1>6, <3>2, <3>3 DEF ArgSound
    <3> QED BY <1>2, <1>6, <3>1, <3>3, <3>4, LongerSame, PartLonger DEF type
  <2> QED BY <2>2, <2>3
<1>7. CASE r.ok /\ type = "descriptor"
  <2> DEFINE p == parse[<<u, e>>]
             w == [p.config EXCEPT !.descriptors = Append(@, p.d)]
             v == Len(p.config.descriptors) + 1
  <2>1. ParseGood(layers, u, p)
    BY <1>2 DEF ParsesWell
  <2>2. new = IF ~p.ok \/ Len(p.config.descriptors) >= MaxDescriptors THEN Failed(p.config)
              ELSE Parsed(w, [r.d EXCEPT !.args = <<v>> \o @])
    <3> HIDE DEF type, idx
    <3>1. new = LET q == parse[<<r.config, e>>] IN
            IF ~q.ok \/ Len(q.config.descriptors) >= MaxDescriptors THEN Failed(q.config)
            ELSE Parsed([q.config EXCEPT !.descriptors = Append(@, q.d)],
                        [r.d EXCEPT !.args = <<Len(q.config.descriptors) + 1>> \o @])
      BY <1>7 DEF ParseArg
    <3> QED BY <3>1
  <2> HIDE DEF p
  <2>3. /\ p.config \in RowTables /\ p.d \in Descs /\ TablesOK(layers, p.config) /\ Longer(u, p.config)
        /\ p.ok => Sound(layers, p.config, p.d, Len(p.config.descriptors))
    BY <2>1 DEF ParseGood
  <2>4. Longer(t, p.config)
    BY <1>2, <2>3, LongerTrans
  <2>5. CASE ~p.ok \/ Len(p.config.descriptors) >= MaxDescriptors
    BY <2>2, <2>3, <2>4, <2>5, PartFailed
  <2>6. CASE ~(~p.ok \/ Len(p.config.descriptors) >= MaxDescriptors)
    <3>1. Len(p.config.descriptors) \in Nat /\ MaxDescriptors \in Nat
      BY <2>3, Limits, TableSeqs
    <3>2. Len(p.config.descriptors) < MaxDescriptors /\ v \in Nat /\ v <= MaxDescriptors /\ v >= 1
      BY <2>6, <3>1
    <3>3. v \in ArgValues
      BY <3>2, Limits
    <3>4. /\ w \in RowTables /\ TablesOK(layers, w) /\ Longer(p.config, w)
          /\ Len(w.descriptors) = v
      BY <2>3, <2>6, <3>2, RowAdded
    <3> HIDE DEF w, v, type
    <3>5. Longer(u, w)
      BY <1>2, <2>3, <3>4, LongerTrans
    <3>6. v \in 1 .. Len(w.descriptors)
      BY <3>2, <3>3, <3>4
    <3>7. ArgSound(layers, w, type, v, Len(w.descriptors))
      BY <1>7, <3>6 DEF ArgSound
    <3>8. new = Parsed(w, [r.d EXCEPT !.args = <<v>> \o @])
      BY <2>2, <2>6
    <3> QED BY <1>2, <1>7, <3>3, <3>4, <3>5, <3>7, <3>8, PartLonger DEF type
  <2> QED BY <2>5, <2>6
<1>8. CASE r.ok /\ type = "macro"
  <2> DEFINE w == [u EXCEPT !.macros = Append(@, MacroId(e))]
             v == Len(w.macros)
  <2>1. new = IF Len(u.macros) >= MaxMacros \/ ~IsMacro(e) THEN Failed(u)
              ELSE Parsed(w, [r.d EXCEPT !.args = <<v>> \o @])
    <3> HIDE DEF type, idx
    <3>1. new = LET p == AddMacro(r.config, e, NoDesc) IN
                IF p.ok THEN Parsed(p.config, [r.d EXCEPT !.args = <<Len(p.config.macros)>> \o @])
                ELSE Failed(r.config)
      BY <1>8 DEF ParseArg
    <3>2. CASE Len(u.macros) >= MaxMacros \/ ~IsMacro(e)
      <4>1. AddMacro(r.config, e, NoDesc) = Failed(r.config)
        BY <3>2 DEF AddMacro
      <4> QED BY <3>1, <3>2, <4>1, ParsedFields
    <3>3. CASE ~(Len(u.macros) >= MaxMacros \/ ~IsMacro(e))
      <4>1. AddMacro(r.config, e, NoDesc) = Parsed(w, NoDesc)
        BY <3>3 DEF AddMacro
      <4> HIDE DEF w
      <4>2. Parsed(w, NoDesc).ok /\ Parsed(w, NoDesc).config = w
        BY ParsedFields
      <4> QED BY <3>1, <3>3, <4>1, <4>2
    <3> QED BY <3>2, <3>3
  <2>2. CASE Len(u.macros) >= MaxMacros \/ ~IsMacro(e)
    BY <1>2, <2>1, <2>2, PartFailed
  <2>3. CASE ~(Len(u.macros) >= MaxMacros \/ ~IsMacro(e))
    <3>1. MacroId(e) \in Text
      BY <1>3, <2>3, MacroIdTyped
    <3>2. Len(u.macros) \in Nat /\ MaxMacros \in Nat
      BY <1>2, Limits, TableSeqs
    <3>3. Len(u.macros) < MaxMacros
      BY <2>3, <3>2
    <3>4. /\ w \in RowTables /\ TablesOK(layers, w) /\ Longer(u, w) /\ Len(w.macros) \in 1 .. MaxMacros
      BY <1>2, <3>1, <3>3, MacroAdded
    <3> HIDE DEF w, type
    <3>5. v \in Nat /\ v <= MaxMacros /\ v \in 1 .. Len(w.macros)
      BY <3>2, <3>4
    <3>6. v \in ArgValues /\ v \in 1 .. Len(w.macros)
      BY <3>5, Limits
    <3>7. ArgSound(layers, w, type, v, Len(w.descriptors))
      BY <1>8, <3>6 DEF ArgSound
    <3> HIDE DEF v
    <3>8. new = Parsed(w, [r.d EXCEPT !.args = <<v>> \o @])
      BY <2>1, <2>3
    <3> QED BY <1>2, <1>8, <3>4, <3>6, <3>7, <3>8, PartLonger DEF type
  <2> QED BY <2>2, <2>3
<1>9. CASE r.ok /\ type \in {"timeout", "sensitivity"}
  <2> DEFINE v == Number(e) % MaxTimeout
  <2>1. new = Parsed(u, [r.d EXCEPT !.args = <<v>> \o @])
    <3> HIDE DEF type, idx
    <3> QED BY <1>9 DEF ParseArg
  <2>2. v \in ArgValues
    BY <1>3, NumberTyped
  <2>3. ArgSound(layers, u, type, v, Len(u.descriptors))
    <3> HIDE DEF v, type
    <3> QED BY <1>9 DEF ArgSound
  <2> HIDE DEF v
  <2> QED BY <1>2, <1>9, <2>1, <2>2, <2>3, LongerSame, PartLonger
<1>10. type \in {"layer", "layout"} \/ type = "descriptor" \/ type = "macro"
       \/ type \in {"timeout", "sensitivity"}
  <2> HIDE DEF type
  <2> QED BY <1>1 DEF ArgKinds
<1> HIDE DEF type
<1> QED BY <1>5, <1>6, <1>7, <1>8, <1>9, <1>10, Zenon

LEMMA ParseArgsGood ==
    ASSUME NEW c, c.layers \in Seq(LayerRows), Len(c.layers) <= MaxLayers,
           NEW parse, NEW m \in 0 .. MaxNesting, ParsesWell(c.layers, parse, Expressions[m]),
           NEW t \in RowTables, TablesOK(c.layers, t), NEW op \in DOMAIN ArgTypes,
           NEW args \in Seq(Expressions[m]), Len(args) = Len(ArgTypes[op])
    PROVE  ParseGood(c.layers, t, ParseArgs(c, parse, t, op, args))
<1> DEFINE n == Len(args)
           layers == c.layers
<1>1. n \in Nat
  OBVIOUS
<1>2. PICK f : /\ ArgsRec(f, c, parse, t, op, args, n) /\ ParseArgs(c, parse, t, op, args) = f[n]
  BY <1>1, ArgsRecDef
<1>3. f = [k \in 0 .. n |->
            IF k = 0 THEN Parsed(t, Descriptor(op, <<>>))
            ELSE ParseArg(c, parse, f[k - 1], ArgTypes[op][n - k + 1], args[n - k + 1])]
  BY <1>2, Zenon DEF ArgsRec
<1>4. /\ f[0] = Parsed(t, Descriptor(op, <<>>))
      /\ \A k \in 1 .. n :
            f[k] = ParseArg(c, parse, f[k - 1], ArgTypes[op][n - k + 1], args[n - k + 1])
  <2>1. 0 \in 0 .. n /\ \A k \in 1 .. n : k \in 0 .. n /\ k # 0
    BY <1>1
  <2> QED BY <1>3, <2>1, Zenon
<1> DEFINE T == {k \in Nat : k <= n => PartGood(layers, t, op, k, f[k])}
<1>5. 0 \in T
  <2>1. op \in Ops /\ <<>> \in Seq(ArgValues) /\ Len(<<>>) = 0
    BY OpsTyped
  <2> DEFINE d == Descriptor(op, <<>>)
             q == Parsed(t, d)
  <2>2. d \in OpenDescs /\ d.op = op /\ d.args = <<>>
    BY <2>1, OpenDescTyped
  <2> HIDE DEF d
  <2>3. q \in [ok : BOOLEAN, config : RowTables, d : OpenDescs]
    BY <2>2 DEF Parsed
  <2>4. q.ok /\ q.config = t /\ q.d = d
    BY ParsedFields
  <2> HIDE DEF q
  <2>5. Longer(t, t)
    BY LongerSame
  <2>6. PartGood(layers, t, op, 0, q)
    BY <2>2, <2>3, <2>4, <2>5 DEF PartGood
  <2>7. PartGood(layers, t, op, 0, f[0])
    BY <1>4, <2>6 DEF q, d
  <2> QED BY <2>7
<1>6. \A j \in Nat : j \in T => j + 1 \in T
  <2> SUFFICES ASSUME NEW j \in Nat, j \in T, j + 1 <= n
               PROVE  PartGood(layers, t, op, j + 1, f[j + 1])
    OBVIOUS
  <2> DEFINE k == j + 1
             e == args[n - k + 1]
  <2>1. k \in 1 .. n /\ k - 1 = j /\ n - k + 1 \in 1 .. n
    BY <1>1
  <2>2. e \in Expressions[m]
    BY <2>1
  <2>3. PartGood(layers, t, op, k - 1, f[k - 1])
    BY <1>1, <2>1
  <2>4. f[k] = ParseArg(c, parse, f[k - 1], ArgTypes[op][n - k + 1], e)
    BY <1>4, <2>1, Zenon
  <2>5. k \in 1 .. Len(ArgTypes[op]) /\ n = Len(ArgTypes[op])
    BY <2>1
  <2>6. PartGood(layers, t, op, k, ParseArg(c, parse, f[k - 1], ArgTypes[op][Len(ArgTypes[op]) - k + 1], e))
    <3> HIDE DEF e, k, T, n
    <3> QED BY <2>2, <2>3, <2>5, ParseArgGood
  <2> QED BY <2>4, <2>5, <2>6
<1>7. PartGood(layers, t, op, n, f[n])
  <2>1. Nat \subseteq T
    <3> HIDE DEF T
    <3> QED BY <1>5, <1>6, NatInduct
  <2> QED BY <1>1, <2>1
<1> DEFINE r == f[n]
<1> HIDE DEF r
<1>8. PartGood(layers, t, op, n, r)
  BY <1>7 DEF r
<1>9. /\ r \in [ok : BOOLEAN, config : RowTables, d : OpenDescs]
      /\ TablesOK(layers, r.config) /\ Longer(t, r.config)
  BY <1>8 DEF PartGood
<1>10. CASE ~r.ok
  <2>1. r.d \in Descs
    BY <1>8, <1>10, NoDescTyped DEF PartGood
  <2>2. r \in [ok : BOOLEAN, config : RowTables, d : Descs]
    BY <1>9, <2>1
  <2>3. ParseGood(layers, t, r)
    BY <1>9, <1>10, <2>2 DEF ParseGood
  <2> QED BY <1>2, <2>3 DEF r
<1>11. CASE r.ok
  <2>1. r.d.op = op /\ Len(r.d.args) = n /\ TypesOf(op) = ArgTypes[op] /\ n = Len(ArgTypes[op])
    BY <1>8, <1>11, OpsTyped DEF PartGood
  <2>2. r.d \in Descs
    BY <1>9, <2>1 DEF Descs
  <2>3. r \in [ok : BOOLEAN, config : RowTables, d : Descs]
    BY <1>9, <2>2
  <2>4. ASSUME NEW j \in 1 .. n
        PROVE  ArgSound(layers, r.config, ArgTypes[op][j], r.d.args[j], Len(r.config.descriptors))
    <3>1. ArgSound(layers, r.config, ArgTypes[op][Len(ArgTypes[op]) - n + j], r.d.args[j],
                   Len(r.config.descriptors))
      BY <1>8, <1>11 DEF PartGood
    <3>2. Len(ArgTypes[op]) - n + j = j
      BY <1>1, <2>1
    <3> QED BY <3>1, <3>2
  <2>5. Sound(layers, r.config, r.d, Len(r.config.descriptors))
    BY <2>1, <2>4 DEF Sound
  <2>6. ParseGood(layers, t, r)
    BY <1>9, <2>3, <2>5 DEF ParseGood
  <2> QED BY <1>2, <2>6 DEF r
<1> QED BY <1>10, <1>11

-----------------------------------------------------------------------------
(* One call of parse_descriptor, and calls nested in each other.            *)

LEMMA KeySequenceTyped ==
    ASSUME NEW code \in KeyCodes, NEW mods \in SUBSET Text
    PROVE  /\ KeySequence(code, mods) \in Descs
           /\ \A layers, t, limit : Sound(layers, t, KeySequence(code, mods), limit)
<1> DEFINE d == KeySequence(code, mods)
<1>1. d = [op |-> "keysequence", code |-> code, mods |-> mods, args |-> <<>>]
  BY DEF KeySequence
<1>2. d \in OpenDescs
  BY <1>1, OpsTyped DEF OpenDescs
<1>3. d.op = "keysequence" /\ Len(d.args) = 0
  BY <1>1
<1> HIDE DEF d
<1>4. d \in Descs /\ \A layers, t, limit : Sound(layers, t, d, limit)
  BY <1>2, <1>3, OpsTyped DEF Descs, Sound
<1> QED BY <1>4 DEF d

LEMMA OneArgSound ==
    ASSUME NEW layers, NEW t, NEW limit, NEW d, Len(d.args) = 1, NEW type, TypesOf(d.op) = <<type>>,
           ArgSound(layers, t, type, d.args[1], limit)
    PROVE  Sound(layers, t, d, limit)
<1>1. \A i \in 1 .. Len(d.args) : i = 1
  OBVIOUS
<1>2. TypesOf(d.op)[1] = type
  OBVIOUS
<1> QED BY <1>1, <1>2 DEF Sound

LEMMA OneArgTypes ==
    /\ TypesOf("layer") = <<"layer">> /\ TypesOf("macro") = <<"macro">> /\ TypesOf("command") = <<"command">>
    /\ Len(TypesOf("layer")) = 1 /\ Len(TypesOf("macro")) = 1 /\ Len(TypesOf("command")) = 1
    /\ {"layer", "macro", "command"} \subseteq Ops
<1>1. "layer" \in DOMAIN ArgTypes /\ ArgTypes["layer"] = <<"layer">>
  BY DEF ArgTypes
<1> QED BY <1>1, OpsTyped

LEMMA ParseExpressionGood ==
    ASSUME NEW c, c.layers \in Seq(LayerRows), Len(c.layers) <= MaxLayers, Headed(c.layers),
           NEW n \in 0 .. MaxNesting, NEW e \in Expressions[n],
           NEW parse, n # 0 => ParsesWell(c.layers, parse, Expressions[n - 1]),
           NEW t \in RowTables, TablesOK(c.layers, t)
    PROVE  ParseGood(c.layers, t, ParseExpression(c, parse, t, e))
<1> DEFINE layers == c.layers
           new == ParseExpression(c, parse, t, e)
<1>1. IsExpression(n, e)
  BY ExpressionsTyped
<1>2. Longer(t, t) /\ t.macros \in Seq(Text) /\ t.commands \in Seq(Text)
  BY LongerSame, TableSeqs
<1>3. CASE e.kind = "empty"
  <2>1. new = Parsed(t, NoDesc)
    BY <1>3 DEF ParseExpression
  <2> QED BY <1>2, <2>1, NoDescTyped, ParsedGood
<1>4. CASE e.kind = "key" /\ e.code \in DOMAIN ModifierLayer
  <2> DEFINE i == config_get_layer_index(c, <<ModifierLayer[e.code]>>)
             d == Descriptor("layer", <<i>>)
  <2>1. new = Parsed(t, d)
    BY <1>4 DEF ParseExpression
  <2>2. i \in 1 .. Len(c.layers) /\ i # MainLayer /\ c.layers[i].type = "normal"
    BY <1>4, ModifierLayerIndex
  <2> HIDE DEF i
  <2>3. i \in Nat /\ i <= MaxLayers
    BY <2>2, LayersShape, Limits
  <2>4. i \in ArgValues
    BY <2>3, Limits
  <2>5. d \in Descs /\ d.op = "layer" /\ Len(d.args) = 1 /\ d.args[1] = i
    BY <2>4, OneArgDesc, OneArgTypes
  <2> HIDE DEF d
  <2>6. ArgSound(layers, t, "layer", i, Len(t.descriptors))
    BY <2>2 DEF ArgSound
  <2>7. Sound(layers, t, d, Len(t.descriptors))
    BY <2>5, <2>6, OneArgSound, OneArgTypes
  <2> QED BY <1>2, <2>1, <2>5, <2>7, ParsedGood
<1>5. CASE e.kind = "key" /\ e.code \notin DOMAIN ModifierLayer
  <2>1. new = Parsed(t, KeySequence(e.code, e.mods))
    BY <1>5 DEF ParseExpression
  <2>2. e.code \in KeyCodes /\ e.mods \in SUBSET Text
    BY <1>1, <1>5 DEF IsExpression
  <2> QED BY <1>2, <2>1, <2>2, KeySequenceTyped, ParsedGood
<1>6. CASE e.kind = "command"
  <2> DEFINE w == [t EXCEPT !.commands = Append(@, e.id)]
             v == Len(t.commands) + 1
             d == Descriptor("command", <<v>>)
  <2>1. new = IF ~e.fits \/ Len(t.commands) >= MaxCommands THEN Failed(t) ELSE Parsed(w, d)
    BY <1>6 DEF ParseExpression, parse_command
  <2>2. CASE new = Failed(t)
    BY <2>2, FailedGood
  <2>3. CASE new # Failed(t)
    <3>1. Len(t.commands) \in Nat /\ MaxCommands \in Nat /\ e.id \in Text
      BY <1>1, <1>2, <1>6, Limits DEF IsExpression
    <3>2. Len(t.commands) < MaxCommands /\ new = Parsed(w, d)
      BY <2>1, <2>3, <3>1
    <3>3. w \in RowTables /\ TablesOK(layers, w) /\ Longer(t, w) /\ Len(w.commands) = v
      BY <3>1, <3>2, CommandAdded
    <3>4. v \in Nat /\ v <= MaxCommands /\ v >= 1
      BY <3>1, <3>2
    <3> HIDE DEF w, v
    <3>5. v \in ArgValues
      BY <3>4, Limits
    <3>6. d \in Descs /\ d.op = "command" /\ Len(d.args) = 1 /\ d.args[1] = v
      BY <3>5, OneArgDesc, OneArgTypes
    <3> HIDE DEF d
    <3>7. ArgSound(layers, w, "command", v, Len(w.descriptors))
      BY <3>3, <3>4 DEF ArgSound
    <3>8. Sound(layers, w, d, Len(w.descriptors))
      BY <3>6, <3>7, OneArgSound, OneArgTypes
    <3> QED BY <3>2, <3>3, <3>6, <3>8, ParsedGood
  <2> QED BY <2>2, <2>3
<1>7. CASE e.kind = "macro"
  <2> DEFINE w == [t EXCEPT !.macros = Append(@, MacroId(e))]
             v == Len(t.macros) + 1
             d == Descriptor("macro", <<v>>)
  <2>1. new = IF Len(t.macros) >= MaxMacros \/ ~IsMacro(e) THEN Failed(t) ELSE Parsed(w, d)
    BY <1>7 DEF ParseExpression, AddMacro
  <2>2. CASE Len(t.macros) >= MaxMacros \/ ~IsMacro(e)
    BY <2>1, <2>2, FailedGood
  <2>3. CASE ~(Len(t.macros) >= MaxMacros \/ ~IsMacro(e))
    <3>1. Len(t.macros) \in Nat /\ MaxMacros \in Nat /\ MacroId(e) \in Text
      BY <1>1, <1>2, <2>3, Limits, MacroIdTyped
    <3>2. Len(t.macros) < MaxMacros /\ new = Parsed(w, d)
      BY <2>1, <2>3, <3>1
    <3>3. w \in RowTables /\ TablesOK(layers, w) /\ Longer(t, w) /\ Len(w.macros) = v
      BY <3>1, <3>2, MacroAdded
    <3>4. v \in Nat /\ v <= MaxMacros /\ v >= 1
      BY <3>1, <3>2
    <3> HIDE DEF w, v
    <3>5. v \in ArgValues
      BY <3>4, Limits
    <3>6. d \in Descs /\ d.op = "macro" /\ Len(d.args) = 1 /\ d.args[1] = v
      BY <3>5, OneArgDesc, OneArgTypes
    <3> HIDE DEF d
    <3>7. ArgSound(layers, w, "macro", v, Len(w.descriptors))
      BY <3>3, <3>4 DEF ArgSound
    <3>8. Sound(layers, w, d, Len(w.descriptors))
      BY <3>6, <3>7, OneArgSound, OneArgTypes
    <3> QED BY <3>2, <3>3, <3>6, <3>8, ParsedGood
  <2> QED BY <2>2, <2>3
<1>8. CASE e.kind = "fn"
  <2> DEFINE fn == Rewritten(e)
             op == OpOf(fn.name)
  <2>1. n - 1 \in 0 .. MaxNesting /\ fn.args \in Seq(Expressions[n - 1])
        /\ ParsesWell(layers, parse, Expressions[n - 1])
    BY <1>1, <1>8, Bounds DEF IsExpression
  <2>2. new = IF op \notin DOMAIN ArgTypes \/ Len(fn.args) # Len(ArgTypes[op]) THEN Failed(t)
              ELSE ParseArgs(c, parse, t, op, fn.args)
    <3>1. new = ParseFn(c, parse, t, e)
      BY <1>8 DEF ParseExpression
    <3> QED BY <3>1 DEF ParseFn
  <2> HIDE DEF op, fn
  <2>3. CASE op \notin DOMAIN ArgTypes \/ Len(fn.args) # Len(ArgTypes[op])
    BY <2>2, <2>3, FailedGood
  <2>4. CASE op \in DOMAIN ArgTypes /\ Len(fn.args) = Len(ArgTypes[op])
    <3>1. ParseGood(layers, t, ParseArgs(c, parse, t, op, fn.args))
      BY <2>1, <2>4, ParseArgsGood
    <3> QED BY <2>2, <2>4, <3>1
  <2> QED BY <2>3, <2>4
<1>9. CASE e.kind \in {"number", "name"}
  <2>1. new = Failed(t)
    BY <1>9 DEF ParseExpression
  <2> QED BY <2>1, FailedGood
<1> QED BY <1>1, <1>3, <1>4, <1>5, <1>6, <1>7, <1>8, <1>9 DEF IsExpression

LEMMA RowTablesAreTables == RowTables \subseteq Tables
<1>1. Descs \subseteq Rows
  <2> SUFFICES ASSUME NEW d \in Descs PROVE d \in Rows
    OBVIOUS
  <2>1. ArgValues \subseteq Int
    BY Numbers DEF ArgValues
  <2>2. d \in OpenDescs
    BY DEF Descs
  <2>3. d.args \in Seq(Int)
    BY <2>1, <2>2, SeqSubset DEF OpenDescs
  <2> QED BY <2>2, <2>3 DEF OpenDescs, Rows
<1>2. ASSUME NEW t \in RowTables PROVE t \in Tables
  <2>1. t.descriptors \in Seq(Rows)
    BY <1>1, SeqSubset, TableSeqs
  <2> QED BY <2>1 DEF RowTables, Tables
<1> QED BY <1>2

LEMMA NestedGood ==
    ASSUME NEW c, c.layers \in Seq(LayerRows), Len(c.layers) <= MaxLayers, Headed(c.layers),
           NEW f, ParseRec(f, c, MaxNesting)
    PROVE  \A n \in 0 .. MaxNesting : ParsesWell(c.layers, f[n], Expressions[n])
<1> DEFINE T == {n \in Nat : n <= MaxNesting => ParsesWell(c.layers, f[n], Expressions[n])}
<1>1. MaxNesting \in Nat
  BY Bounds
<1>2. ASSUME NEW n \in 0 .. MaxNesting, n # 0 => ParsesWell(c.layers, f[n - 1], Expressions[n - 1])
      PROVE  ParsesWell(c.layers, f[n], Expressions[n])
  <2> SUFFICES ASSUME NEW t \in RowTables, TablesOK(c.layers, t), NEW e \in Expressions[n]
               PROVE  ParseGood(c.layers, t, f[n][<<t, e>>])
    BY DEF ParsesWell
  <2> DEFINE p == IF n = 0 THEN <<>> ELSE f[n - 1]
             g == [in \in Tables \X Expressions[n] |-> ParseExpression(c, p, in[1], in[2])]
  <2>1. f[n] = g
    <3>1. f = [k \in 0 .. MaxNesting |-> [in \in Tables \X Expressions[k] |->
                ParseExpression(c, IF k = 0 THEN <<>> ELSE f[k - 1], in[1], in[2])]]
      BY Zenon DEF ParseRec
    <3> QED BY <3>1, Zenon
  <2>2. <<t, e>> \in Tables \X Expressions[n]
    BY RowTablesAreTables
  <2>3. g[<<t, e>>] = ParseExpression(c, p, t, e)
    <3> HIDE DEF p
    <3>1. g[<<t, e>>] = ParseExpression(c, p, <<t, e>>[1], <<t, e>>[2])
      BY <2>2, Zenon
    <3>2. <<t, e>>[1] = t /\ <<t, e>>[2] = e
      OBVIOUS
    <3> QED BY <3>1, <3>2, Zenon
  <2>4. n # 0 => ParsesWell(c.layers, p, Expressions[n - 1])
    BY <1>2
  <2> HIDE DEF p
  <2>5. ParseGood(c.layers, t, ParseExpression(c, p, t, e))
    BY <2>4, ParseExpressionGood
  <2> QED BY <2>1, <2>3, <2>5, Zenon
<1>3. 0 \in T
  BY <1>1, <1>2
<1>4. \A j \in Nat : j \in T => j + 1 \in T
  <2> SUFFICES ASSUME NEW j \in Nat, j \in T, j + 1 <= MaxNesting
               PROVE  ParsesWell(c.layers, f[j + 1], Expressions[j + 1])
    OBVIOUS
  <2>1. j + 1 \in 0 .. MaxNesting /\ (j + 1) - 1 = j /\ j <= MaxNesting
    BY <1>1
  <2>2. ParsesWell(c.layers, f[j], Expressions[j])
    BY <2>1
  <2> HIDE DEF T
  <2> QED BY <1>2, <2>1, <2>2
<1>5. Nat \subseteq T
  <2> HIDE DEF T
  <2> QED BY <1>3, <1>4, NatInduct
<1> QED BY <1>1, <1>5

-----------------------------------------------------------------------------
(* Configurations.                                                          *)

Fields == {"layers", "descriptors", "macros", "commands", "aliases", "ids", "globals"}
IsRecord(c) == DOMAIN c = Fields /\ c = [x \in Fields |-> c[x]]

\* A layer at position l: what it binds is sound, what it is made of comes before it.
LayerSound(layers, t, l) ==
    /\ layers[l].type = "composite" <=> layers[l].constituents # <<>>
    /\ \A i \in 1 .. Len(layers[l].constituents) : layers[l].constituents[i] \in 1 .. l - 1
    /\ Len(layers[l].chords) <= MaxChords
    /\ \A code \in DOMAIN layers[l].keymap :
          Sound(layers, t, layers[l].keymap[code], Len(t.descriptors))
    /\ \A i \in 1 .. Len(layers[l].chords) :
          Sound(layers, t, layers[l].chords[i].d, Len(t.descriptors))

ConfigOK(c) ==
    /\ IsRecord(c)
    /\ LayersOK(c.layers) /\ TablesOf(c) \in RowTables /\ c.aliases \in [KeyCodes -> Text]
    /\ TablesOK(c.layers, TablesOf(c))
    /\ \A l \in 1 .. Len(c.layers) : LayerSound(c.layers, TablesOf(c), l)

\* Layers keep their place and what they are.
Kept(layers, more) ==
    /\ Len(layers) <= Len(more)
    /\ \A l \in 1 .. Len(layers) : SameHeader(layers[l], more[l])

WithLayers(c, v) == [c EXCEPT !.layers = v]
LEMMA LayersUpdate ==
    ASSUME NEW c, IsRecord(c), NEW v
    PROVE  /\ IsRecord(WithLayers(c, v)) /\ WithLayers(c, v).layers = v
           /\ TablesOf(WithLayers(c, v)) = TablesOf(c) /\ WithLayers(c, v).aliases = c.aliases
<1> DEFINE u == WithLayers(c, v)
<1>1. /\ u.layers = v /\ u.descriptors = c.descriptors /\ u.macros = c.macros
      /\ u.commands = c.commands /\ u.aliases = c.aliases
  BY DEF IsRecord, Fields, WithLayers
<1>2. DOMAIN u = Fields /\ u = [x \in DOMAIN u |-> u[x]]
  BY DEF IsRecord, WithLayers
<1> HIDE DEF u
<1>3. IsRecord(u)
  BY <1>2 DEF IsRecord
<1>4. TablesOf(u) = TablesOf(c)
  BY <1>1 DEF TablesOf
<1> QED BY <1>1, <1>3, <1>4 DEF u

WithAliases(c, v) == [c EXCEPT !.aliases = v]
LEMMA AliasesUpdate ==
    ASSUME NEW c, IsRecord(c), NEW v
    PROVE  /\ IsRecord(WithAliases(c, v)) /\ WithAliases(c, v).layers = c.layers
           /\ TablesOf(WithAliases(c, v)) = TablesOf(c) /\ WithAliases(c, v).aliases = v
<1> DEFINE u == WithAliases(c, v)
<1>1. u.aliases = v /\ u.layers = c.layers /\ u.descriptors = c.descriptors /\ u.macros = c.macros /\ u.commands = c.commands
  BY DEF IsRecord, Fields, WithAliases
<1>2. DOMAIN u = Fields /\ u = [x \in DOMAIN u |-> u[x]]
  BY DEF IsRecord, WithAliases
<1> HIDE DEF u
<1>3. IsRecord(u)
  BY <1>2 DEF IsRecord
<1>4. TablesOf(u) = TablesOf(c)
  BY <1>1 DEF TablesOf
<1> QED BY <1>1, <1>3, <1>4 DEF u

WithIds(c, v) == [c EXCEPT !.ids = v]
LEMMA IdsUpdate ==
    ASSUME NEW c, IsRecord(c), NEW v
    PROVE  /\ IsRecord(WithIds(c, v)) /\ WithIds(c, v).layers = c.layers
           /\ TablesOf(WithIds(c, v)) = TablesOf(c) /\ WithIds(c, v).aliases = c.aliases
<1> DEFINE u == WithIds(c, v)
<1>1. u.layers = c.layers /\ u.descriptors = c.descriptors /\ u.macros = c.macros /\ u.commands = c.commands /\ u.aliases = c.aliases
  BY DEF IsRecord, Fields, WithIds
<1>2. DOMAIN u = Fields /\ u = [x \in DOMAIN u |-> u[x]]
  BY DEF IsRecord, WithIds
<1> HIDE DEF u
<1>3. IsRecord(u)
  BY <1>2 DEF IsRecord
<1>4. TablesOf(u) = TablesOf(c)
  BY <1>1 DEF TablesOf
<1> QED BY <1>1, <1>3, <1>4 DEF u

WithGlobals(c, v) == [c EXCEPT !.globals = v]
LEMMA GlobalsUpdate ==
    ASSUME NEW c, IsRecord(c), NEW v
    PROVE  /\ IsRecord(WithGlobals(c, v)) /\ WithGlobals(c, v).layers = c.layers
           /\ TablesOf(WithGlobals(c, v)) = TablesOf(c) /\ WithGlobals(c, v).aliases = c.aliases
<1> DEFINE u == WithGlobals(c, v)
<1>1. u.layers = c.layers /\ u.descriptors = c.descriptors /\ u.macros = c.macros /\ u.commands = c.commands /\ u.aliases = c.aliases
  BY DEF IsRecord, Fields, WithGlobals
<1>2. DOMAIN u = Fields /\ u = [x \in DOMAIN u |-> u[x]]
  BY DEF IsRecord, WithGlobals
<1> HIDE DEF u
<1>3. IsRecord(u)
  BY <1>2 DEF IsRecord
<1>4. TablesOf(u) = TablesOf(c)
  BY <1>1 DEF TablesOf
<1> QED BY <1>1, <1>3, <1>4 DEF u

LEMMA TablesUpdate ==
    ASSUME NEW c, IsRecord(c), NEW t \in RowTables, NEW u, u = WithTables(c, t)
    PROVE  /\ IsRecord(u) /\ u.aliases = c.aliases /\ u.layers = c.layers /\ TablesOf(u) = t
<1>1. /\ u.layers = c.layers /\ u.aliases = c.aliases /\ u.ids = c.ids /\ u.globals = c.globals
      /\ u.descriptors = t.descriptors /\ u.macros = t.macros /\ u.commands = t.commands
  <2>1. DOMAIN c = Fields /\ c = [x \in DOMAIN c |-> c[x]]
    BY DEF IsRecord
  <2> QED BY <2>1, WithTablesFields DEF Fields
<1>2. TablesOf(u) = t
  BY <1>1 DEF TablesOf, RowTables
<1>3. IsRecord(u)
  <2>1. DOMAIN u = Fields /\ u = [x \in DOMAIN u |-> u[x]]
    BY DEF WithTables, IsRecord
  <2> QED BY <2>1 DEF IsRecord
<1> QED BY <1>1, <1>2, <1>3

\* What was sound stays so when rows and layers are added.
LEMMA SoundKept ==
    ASSUME NEW layers \in Seq(LayerRows), NEW more \in Seq(LayerRows), Kept(layers, more),
           NEW t \in RowTables, NEW u \in RowTables, Longer(t, u),
           NEW d, NEW m \in Nat, NEW n \in Nat, m <= n, Sound(layers, t, d, m)
    PROVE  Sound(more, u, d, n)
<1>1. Sound(layers, u, d, n)
  BY SoundLonger
<1>2. Len(layers) \in Nat /\ Len(more) \in Nat /\ Len(layers) <= Len(more)
  BY LayersShape DEF Kept
<1>3. \A l \in 1 .. Len(layers) : l \in 1 .. Len(more) /\ layers[l].type = more[l].type
  BY <1>2 DEF Kept, SameHeader
<1>4. ASSUME NEW type, NEW v, ArgSound(layers, u, type, v, n)
      PROVE  ArgSound(more, u, type, v, n)
  <2>1. CASE type \in {"layer", "layout"}
    <3>1. v \in 1 .. Len(layers) /\ v \in 1 .. Len(more) /\ layers[v].type = more[v].type
      BY <1>3, <1>4, <2>1 DEF ArgSound
    <3> QED BY <1>4, <2>1, <3>1 DEF ArgSound
  <2>2. CASE type \notin {"layer", "layout"}
    BY <1>4, <2>2 DEF ArgSound
  <2> QED BY <2>1, <2>2
<1> QED BY <1>1, <1>4 DEF Sound

LEMMA KeptSame == ASSUME NEW layers \in Seq(LayerRows) PROVE Kept(layers, layers)
BY DEF Kept, SameHeader

LEMMA KeptTrans ==
    ASSUME NEW a \in Seq(LayerRows), NEW b \in Seq(LayerRows), NEW c \in Seq(LayerRows),
           Kept(a, b), Kept(b, c)
    PROVE  Kept(a, c)
<1>1. Len(a) \in Nat /\ Len(b) \in Nat /\ Len(c) \in Nat /\ Len(a) <= Len(b) /\ Len(b) <= Len(c)
  BY DEF Kept
<1>2. \A l \in 1 .. Len(a) : l \in 1 .. Len(b)
  BY <1>1
<1> QED BY <1>1, <1>2 DEF Kept, SameHeader

LEMMA TablesKept ==
    ASSUME NEW layers \in Seq(LayerRows), NEW more \in Seq(LayerRows), Kept(layers, more),
           NEW t \in RowTables, TablesOK(layers, t)
    PROVE  TablesOK(more, t)
<1>1. \A i \in 1 .. Len(t.descriptors) : i - 1 \in Nat
  BY TableSeqs
<1> QED BY <1>1, LongerSame, SoundKept DEF TablesOK

\* A layer stays sound when rows and layers are added and nothing is bound in it.
LEMMA LayerSoundKept ==
    ASSUME NEW layers \in Seq(LayerRows), NEW more \in Seq(LayerRows), Kept(layers, more),
           NEW t \in RowTables, NEW u \in RowTables, Longer(t, u),
           NEW l \in 1 .. Len(layers), LayerSound(layers, t, l), more[l] = layers[l]
    PROVE  LayerSound(more, u, l)
<1>1. /\ Len(t.descriptors) \in Nat /\ Len(u.descriptors) \in Nat
      /\ Len(t.descriptors) <= Len(u.descriptors)
  BY LongerLengths
<1>2. ASSUME NEW d, Sound(layers, t, d, Len(t.descriptors))
      PROVE  Sound(more, u, d, Len(u.descriptors))
  BY <1>1, <1>2, SoundKept
<1> QED BY <1>2 DEF LayerSound

-----------------------------------------------------------------------------
(* parse_descriptor.                                                        *)

LEMMA ParseDescriptorGood ==
    ASSUME NEW c, ConfigOK(c), Headed(c.layers), NEW e \in Expressions[MaxNesting]
    PROVE  LET p == parse_descriptor(c, e) IN
           /\ ConfigOK(p.config) /\ p.config.layers = c.layers /\ p.config.aliases = c.aliases
           /\ Longer(TablesOf(c), TablesOf(p.config))
           /\ p.d \in Descs
           /\ p.ok => Sound(c.layers, TablesOf(p.config), p.d, Len(p.config.descriptors))
<1> DEFINE t == TablesOf(c)
           p == parse_descriptor(c, e)
<1>1. PICK f : /\ ParseRec(f, c, MaxNesting)
               /\ p = [f[MaxNesting][<<t, e>>] EXCEPT !.config = WithTables(c, @)]
  BY ParseRecDef
<1> DEFINE q == f[MaxNesting][<<t, e>>]
<1>2. t \in RowTables /\ TablesOK(c.layers, t) /\ c.layers \in Seq(LayerRows) /\ Len(c.layers) <= MaxLayers
      /\ IsRecord(c)
  BY DEF ConfigOK, LayersOK
<1>3. ParseGood(c.layers, t, q)
  <2>1. ParsesWell(c.layers, f[MaxNesting], Expressions[MaxNesting])
    BY <1>1, <1>2, NestedGood, Bounds
  <2> HIDE DEF t
  <2> QED BY <1>2, <2>1 DEF ParsesWell
<1> HIDE DEF q, p
<1>4. /\ q \in [ok : BOOLEAN, config : RowTables, d : Descs]
      /\ TablesOK(c.layers, q.config) /\ Longer(t, q.config)
      /\ q.ok => Sound(c.layers, q.config, q.d, Len(q.config.descriptors))
  BY <1>3 DEF ParseGood
<1>5. p = [q EXCEPT !.config = WithTables(c, q.config)]
  BY <1>1 DEF q
<1>6. p.ok = q.ok /\ p.d = q.d /\ p.config = WithTables(c, q.config)
  BY <1>4, <1>5
<1>7. /\ IsRecord(p.config) /\ p.config.aliases = c.aliases /\ p.config.layers = c.layers
      /\ TablesOf(p.config) = q.config
  BY <1>2, <1>4, <1>6, TablesUpdate
<1>8. p.config.descriptors = q.config.descriptors
  BY <1>7 DEF TablesOf
<1>9. ConfigOK(p.config)
  <2>1. q.config \in RowTables /\ Kept(c.layers, c.layers)
    BY <1>2, <1>4, KeptSame
  <2>2. ASSUME NEW l \in 1 .. Len(c.layers) PROVE LayerSound(c.layers, q.config, l)
    <3>1. LayerSound(c.layers, t, l)
      BY DEF ConfigOK
    <3> HIDE DEF t
    <3> QED BY <1>2, <1>4, <2>1, <3>1, LayerSoundKept
  <2>3. LayersOK(c.layers) /\ c.aliases \in [KeyCodes -> Text]
    BY DEF ConfigOK
  <2> QED BY <1>4, <1>7, <2>1, <2>2, <2>3 DEF ConfigOK
<1> HIDE DEF t
<1>10. /\ p.d \in Descs
       /\ p.ok => Sound(c.layers, TablesOf(p.config), p.d, Len(p.config.descriptors))
       /\ Longer(t, TablesOf(p.config))
  BY <1>4, <1>6, <1>7, <1>8
<1> QED BY <1>7, <1>9, <1>10 DEF t, p

-----------------------------------------------------------------------------
(* set_layer_entry.                                                         *)

LEMMA LayerRowUpdates ==
    ASSUME NEW row \in LayerRows
    PROVE  /\ \A km \in KeyMaps : /\ [row EXCEPT !.keymap = km] \in LayerRows
                                  /\ [row EXCEPT !.keymap = km].keymap = km
                                  /\ [row EXCEPT !.keymap = km].chords = row.chords
                                  /\ SameHeader(row, [row EXCEPT !.keymap = km])
           /\ \A s \in Seq(ChordRows) : /\ [row EXCEPT !.chords = s] \in LayerRows
                                        /\ [row EXCEPT !.chords = s].keymap = row.keymap
                                        /\ [row EXCEPT !.chords = s].chords = s
                                        /\ SameHeader(row, [row EXCEPT !.chords = s])
<1>1. ASSUME NEW km \in KeyMaps
      PROVE  /\ [row EXCEPT !.keymap = km] \in LayerRows
             /\ [row EXCEPT !.keymap = km].keymap = km
             /\ [row EXCEPT !.keymap = km].chords = row.chords
             /\ SameHeader(row, [row EXCEPT !.keymap = km])
  BY DEF LayerRows, SameHeader
<1>2. ASSUME NEW s \in Seq(ChordRows)
      PROVE  /\ [row EXCEPT !.chords = s] \in LayerRows
             /\ [row EXCEPT !.chords = s].keymap = row.keymap
             /\ [row EXCEPT !.chords = s].chords = s
             /\ SameHeader(row, [row EXCEPT !.chords = s])
  BY DEF LayerRows, SameHeader
<1> QED BY <1>1, <1>2, Zenon

LEMMA KeyMapsTyped ==
    ASSUME NEW km
    PROVE  km \in KeyMaps <=> /\ DOMAIN km \in SUBSET KeyCodes /\ km = [x \in DOMAIN km |-> km[x]]
                              /\ \A x \in DOMAIN km : km[x] \in Descs
<1>1. ASSUME km \in KeyMaps
      PROVE  /\ DOMAIN km \in SUBSET KeyCodes /\ km = [x \in DOMAIN km |-> km[x]]
             /\ \A x \in DOMAIN km : km[x] \in Descs
  <2>1. PICK D \in SUBSET KeyCodes : km \in [D -> Descs]
    BY <1>1 DEF KeyMaps
  <2> QED BY <2>1
<1>2. ASSUME DOMAIN km \in SUBSET KeyCodes, km = [x \in DOMAIN km |-> km[x]],
             \A x \in DOMAIN km : km[x] \in Descs
      PROVE  km \in KeyMaps
  <2>1. km \in [DOMAIN km -> Descs]
    BY <1>2
  <2> QED BY <1>2, <2>1 DEF KeyMaps
<1> QED BY <1>1, <1>2

LEMMA OverwrittenTyped ==
    ASSUME NEW f \in KeyMaps, NEW keys \in SUBSET KeyCodes, NEW v \in Descs
    PROVE  Overwritten(f, keys, v) \in KeyMaps
<1> DEFINE o == Overwritten(f, keys, v)
<1>1. DOMAIN f \in SUBSET KeyCodes /\ \A x \in DOMAIN f : f[x] \in Descs
  BY KeyMapsTyped
<1>2. /\ DOMAIN o = DOMAIN f \cup keys
      /\ \A x \in DOMAIN o : o[x] = IF x \in keys THEN v ELSE f[x]
      /\ o = [x \in DOMAIN o |-> o[x]]
  BY DEF Overwritten
<1> HIDE DEF o
<1>3. o \in KeyMaps
  BY <1>1, <1>2, KeyMapsTyped
<1> QED BY <1>3 DEF o

\* A row may take the place of the layer at l: the header is the same, the bindings are sound.
RowFits(c, l, row) ==
    /\ row \in LayerRows /\ SameHeader(c.layers[l], row) /\ Len(row.chords) <= MaxChords
    /\ \A code \in DOMAIN row.keymap :
          Sound(c.layers, TablesOf(c), row.keymap[code], Len(c.descriptors))
    /\ \A i \in 1 .. Len(row.chords) :
          Sound(c.layers, TablesOf(c), row.chords[i].d, Len(c.descriptors))
WithRow(c, l, row) == WithLayers(c, [c.layers EXCEPT ![l] = row])
Edited(c, l, row, u) ==
    /\ ConfigOK(u) /\ Kept(c.layers, u.layers) /\ Len(u.layers) = Len(c.layers)
    /\ u.aliases = c.aliases /\ TablesOf(u) = TablesOf(c)
    /\ u.layers[l] = row /\ \A i \in 1 .. Len(c.layers) : i # l => u.layers[i] = c.layers[i]

LEMMA LayerEdited ==
    ASSUME NEW c, ConfigOK(c), NEW l \in 1 .. Len(c.layers), NEW row, RowFits(c, l, row)
    PROVE  Edited(c, l, row, WithRow(c, l, row))
<1> DEFINE layers == c.layers
           more == [layers EXCEPT ![l] = row]
           t == TablesOf(c)
           u == WithRow(c, l, row)
<1>0. /\ row \in LayerRows /\ SameHeader(layers[l], row) /\ Len(row.chords) <= MaxChords
      /\ \A code \in DOMAIN row.keymap : Sound(layers, t, row.keymap[code], Len(c.descriptors))
      /\ \A i \in 1 .. Len(row.chords) : Sound(layers, t, row.chords[i].d, Len(c.descriptors))
  BY DEF RowFits
<1>1. /\ IsRecord(c) /\ layers \in Seq(LayerRows) /\ Len(layers) \in Nat /\ t \in RowTables
      /\ TablesOK(layers, t) /\ c.aliases \in [KeyCodes -> Text] /\ Len(layers) <= MaxLayers
      /\ t.descriptors = c.descriptors
  BY LayersShape DEF ConfigOK, LayersOK, TablesOf
<1>2. /\ IsRecord(u) /\ u.layers = more /\ TablesOf(u) = t /\ u.aliases = c.aliases
  <2>1. u = WithLayers(c, more)
    BY DEF WithRow
  <2>2. IsRecord(c)
    BY <1>1
  <2> HIDE DEF more, u
  <2> QED BY <2>1, <2>2, LayersUpdate
<1> HIDE DEF t, u
<1>3. /\ more \in Seq(LayerRows) /\ Len(more) = Len(layers) /\ more[l] = row
      /\ \A i \in 1 .. Len(layers) : i # l => more[i] = layers[i]
  BY <1>0, <1>1
<1> HIDE DEF more
<1>4. Kept(layers, more)
  <2>1. ASSUME NEW i \in 1 .. Len(layers) PROVE SameHeader(layers[i], more[i])
    BY <1>0, <1>3 DEF SameHeader
  <2> QED BY <1>1, <1>3, <2>1 DEF Kept
<1>5. TablesOK(more, t)
  BY <1>1, <1>3, <1>4, TablesKept
<1>6. ASSUME NEW i \in 1 .. Len(layers) PROVE LayerSound(more, t, i)
  <2>1. LayerSound(layers, t, i)
    BY DEF ConfigOK, t
  <2>2. CASE i # l
    BY <1>1, <1>3, <1>4, <2>1, <2>2, LongerSame, LayerSoundKept
  <2>3. CASE i = l
    <3>1. Len(t.descriptors) \in Nat /\ Longer(t, t)
      BY <1>1, LongerSame, TableSeqs
    <3>2. ASSUME NEW d, Sound(layers, t, d, Len(c.descriptors))
          PROVE  Sound(more, t, d, Len(t.descriptors))
      BY <1>1, <1>3, <1>4, <3>1, <3>2, SoundKept
    <3>3. /\ row.type = layers[l].type /\ row.constituents = layers[l].constituents
      BY <1>0 DEF SameHeader
    <3>4. /\ \A code \in DOMAIN row.keymap : Sound(more, t, row.keymap[code], Len(t.descriptors))
          /\ \A j \in 1 .. Len(row.chords) : Sound(more, t, row.chords[j].d, Len(t.descriptors))
      BY <1>0, <3>2
    <3> QED BY <1>0, <1>3, <2>1, <2>3, <3>3, <3>4 DEF LayerSound
  <2> QED BY <2>2, <2>3
<1>7. ConfigOK(u)
  BY <1>1, <1>2, <1>3, <1>5, <1>6 DEF ConfigOK, LayersOK
<1> QED BY <1>2, <1>3, <1>4, <1>7 DEF t, u, Edited

LEMMA LookupTyped == \A name : lookup_keycode(name) \in KeyCodes \cup {NoCode}
BY DEF lookup_keycode

LEMMA DesignatedTyped ==
    ASSUME NEW c, NEW name
    PROVE  Designated(c, name) \in SUBSET KeyCodes
BY LookupTyped DEF Designated

\* What an accepted binding does to the keymaps.
KeymapsAfter(layers, more, l, names, codes, d) ==
    /\ \A i \in 1 .. Len(layers) : i # l \/ Len(names) > 1 => more[i].keymap = layers[i].keymap
    /\ Len(names) <= 1 => more[l].keymap = Overwritten(layers[l].keymap, codes, d)

\* What set_layer_entry returns.
EntrySet(c, l, names, d, s) ==
    /\ ConfigOK(s.config) /\ Kept(c.layers, s.config.layers) /\ Len(s.config.layers) = Len(c.layers)
    /\ s.config.aliases = c.aliases /\ TablesOf(s.config) = TablesOf(c)
    /\ ~s.ok => s.config = c
    /\ s.ok => s.d = d /\ KeymapsAfter(c.layers, s.config.layers, l, names, Designated(c, names[1]), d)

LEMMA EntryFailed ==
    ASSUME NEW c, ConfigOK(c), NEW l, NEW names, NEW d
    PROVE  EntrySet(c, l, names, d, Failed(c))
<1> DEFINE s == Failed(c)
<1>1. ~s.ok /\ s.config = c
  BY ParsedFields
<1>2. Kept(c.layers, c.layers)
  BY KeptSame DEF ConfigOK, LayersOK
<1> HIDE DEF s
<1>3. EntrySet(c, l, names, d, s)
  BY <1>1, <1>2 DEF EntrySet
<1> QED BY <1>3 DEF s

\* Descriptors that the layer has are sound.
LEMMA LayerAt ==
    ASSUME NEW c, ConfigOK(c), NEW l \in 1 .. Len(c.layers)
    PROVE  /\ c.layers[l] \in LayerRows /\ c.layers[l].keymap \in KeyMaps
           /\ c.layers[l].chords \in Seq(ChordRows) /\ Len(c.layers[l].chords) <= MaxChords
           /\ \A code \in DOMAIN c.layers[l].keymap :
                 Sound(c.layers, TablesOf(c), c.layers[l].keymap[code], Len(c.descriptors))
           /\ \A i \in 1 .. Len(c.layers[l].chords) :
                 Sound(c.layers, TablesOf(c), c.layers[l].chords[i].d, Len(c.descriptors))
<1>1. c.layers[l] \in LayerRows
  BY LayersShape DEF ConfigOK, LayersOK
<1>2. c.layers[l].keymap \in KeyMaps /\ c.layers[l].chords \in Seq(ChordRows)
  BY <1>1 DEF LayerRows
<1>3. TablesOf(c).descriptors = c.descriptors
  BY DEF TablesOf
<1>4. LayerSound(c.layers, TablesOf(c), l)
  BY DEF ConfigOK
<1> QED BY <1>1, <1>2, <1>3, <1>4 DEF LayerSound

LEMMA SetChordGood ==
    ASSUME NEW c, ConfigOK(c), NEW l \in 1 .. Len(c.layers), NEW names \in Seq(Text), Len(names) > 1,
           NEW d \in Descs, Sound(c.layers, TablesOf(c), d, Len(c.descriptors))
    PROVE  EntrySet(c, l, names, d, set_chord(c, l, names, d))
<1> DEFINE layer == c.layers[l]
           keys == [i \in DOMAIN names |-> lookup_keycode(names[i])]
           known == layer_lookup_chord(layer, keys)
           new == set_chord(c, l, names, d)
           chords == layer.chords
<1>1. /\ layer \in LayerRows /\ chords \in Seq(ChordRows) /\ Len(chords) \in Nat
      /\ DOMAIN chords = 1 .. Len(chords)
  BY LayerAt
<1>2. /\ \A code \in DOMAIN layer.keymap :
            Sound(c.layers, TablesOf(c), layer.keymap[code], Len(c.descriptors))
      /\ \A i \in 1 .. Len(chords) :
            Sound(c.layers, TablesOf(c), chords[i].d, Len(c.descriptors))
      /\ Len(chords) <= MaxChords
  BY LayerAt
<1>3. known \in 0 .. Len(chords)
  <2> DEFINE covering == {i \in Positions(layer.chords) :
                            \A j \in DOMAIN keys : keys[j] \in Range(layer.chords[i].keys)}
  <2>1. known = IF covering = {} THEN 0 ELSE FirstOf(covering)
    BY DEF layer_lookup_chord
  <2>2. covering \in SUBSET Nat /\ covering \subseteq 1 .. Len(chords)
    BY <1>1 DEF Positions
  <2> HIDE DEF covering, known
  <2>3. CASE covering = {}
    BY <1>1, <2>1, <2>3
  <2>4. CASE covering # {}
    <3>1. FirstOf(covering) \in covering
      BY <2>2, <2>4, FirstOfSet
    <3> QED BY <1>1, <2>1, <2>2, <2>4, <3>1
  <2> QED BY <2>3, <2>4
\* Any chords of the layer that are sound may take the place of its own.
<1>4. ASSUME NEW s \in Seq(ChordRows), Len(s) <= MaxChords,
             \A i \in 1 .. Len(s) : Sound(c.layers, TablesOf(c), s[i].d, Len(c.descriptors)),
             NEW u, u = WithRow(c, l, [layer EXCEPT !.chords = s])
      PROVE  EntrySet(c, l, names, d, Parsed(u, d))
  <2> DEFINE row == [layer EXCEPT !.chords = s]
             q == Parsed(u, d)
  <2>1. row \in LayerRows /\ row.keymap = layer.keymap /\ row.chords = s /\ SameHeader(layer, row)
    BY <1>1, LayerRowUpdates
  <2>2. u = WithRow(c, l, row)
    BY <1>4
  <2> HIDE DEF row
  <2>3. /\ ConfigOK(u) /\ Kept(c.layers, u.layers) /\ Len(u.layers) = Len(c.layers)
        /\ u.aliases = c.aliases /\ TablesOf(u) = TablesOf(c)
        /\ u.layers[l] = row /\ \A i \in 1 .. Len(c.layers) : i # l => u.layers[i] = c.layers[i]
    <3>1. RowFits(c, l, row)
      BY <1>2, <1>4, <2>1 DEF RowFits
    <3>2. Edited(c, l, row, u)
      BY <2>2, <3>1, LayerEdited
    <3> QED BY <3>2 DEF Edited
  <2>4. KeymapsAfter(c.layers, u.layers, l, names, Designated(c, names[1]), d)
    <3>1. ASSUME NEW i \in 1 .. Len(c.layers) PROVE u.layers[i].keymap = c.layers[i].keymap
      BY <2>1, <2>3
    <3>2. ~(Len(names) <= 1)
      OBVIOUS
    <3> QED BY <3>1, <3>2 DEF KeymapsAfter
  <2>5. q.ok /\ q.config = u /\ q.d = d
    BY ParsedFields
  <2> HIDE DEF q
  <2>6. EntrySet(c, l, names, d, q)
    BY <2>3, <2>4, <2>5 DEF EntrySet
  <2> QED BY <2>6 DEF q
<1>5. CASE NoCode \in Range(keys) \/ Len(keys) > MaxChordKeys
  <2>1. new = Failed(c)
    BY <1>5, Zenon DEF set_chord
  <2> QED BY <2>1, EntryFailed
<1>6. CASE ~(NoCode \in Range(keys) \/ Len(keys) > MaxChordKeys) /\ known # 0
  <2> DEFINE s == [chords EXCEPT ![known] = [chords[known] EXCEPT !.d = d]]
             u == WithRow(c, l, [layer EXCEPT !.chords = s])
  <2>1. new = Parsed([c EXCEPT !.layers[l].chords[known].d = d], d)
    <3> HIDE DEF keys
    <3>1. new = IF NoCode \in Range(keys) \/ Len(keys) > MaxChordKeys THEN Failed(c)
                ELSE IF known # 0 THEN Parsed([c EXCEPT !.layers[l].chords[known].d = d], d)
                ELSE IF Len(layer.chords) >= MaxChords THEN Failed(c)
                ELSE Parsed([c EXCEPT !.layers[l].chords = Append(@, [keys |-> keys, d |-> d])], d)
      BY Zenon DEF set_chord, keys
    <3> QED BY <1>6, <3>1, Zenon
  <2>2. [c EXCEPT !.layers[l].chords[known].d = d] = u
    BY DEF WithRow, WithLayers
  <2>3. known \in 1 .. Len(chords)
    BY <1>1, <1>3, <1>6
  <2> HIDE DEF known
  <2>4. chords[known] \in ChordRows
    BY <1>1, <2>3
  <2>5. [chords[known] EXCEPT !.d = d] \in ChordRows /\ [chords[known] EXCEPT !.d = d].d = d
    BY <2>4 DEF ChordRows
  <2>6. /\ s \in Seq(ChordRows) /\ Len(s) = Len(chords)
        /\ \A i \in 1 .. Len(chords) : s[i].d = IF i = known THEN d ELSE chords[i].d
    BY <1>1, <2>3, <2>5
  <2> HIDE DEF s
  <2>7. \A i \in 1 .. Len(s) : Sound(c.layers, TablesOf(c), s[i].d, Len(c.descriptors))
    BY <1>2, <2>6
  <2>8. EntrySet(c, l, names, d, Parsed(u, d))
    BY <1>2, <1>4, <2>6, <2>7
  <2> QED BY <2>1, <2>2, <2>8, Zenon
<1>7. CASE ~(NoCode \in Range(keys) \/ Len(keys) > MaxChordKeys) /\ known = 0
  <2> DEFINE row == [keys |-> keys, d |-> d]
             s == Append(chords, row)
             u == WithRow(c, l, [layer EXCEPT !.chords = s])
  <2>1. new = IF Len(layer.chords) >= MaxChords THEN Failed(c)
              ELSE Parsed([c EXCEPT !.layers[l].chords = Append(@, [keys |-> keys, d |-> d])], d)
    <3> HIDE DEF keys
    <3>1. new = IF NoCode \in Range(keys) \/ Len(keys) > MaxChordKeys THEN Failed(c)
                ELSE IF known # 0 THEN Parsed([c EXCEPT !.layers[l].chords[known].d = d], d)
                ELSE IF Len(layer.chords) >= MaxChords THEN Failed(c)
                ELSE Parsed([c EXCEPT !.layers[l].chords = Append(@, [keys |-> keys, d |-> d])], d)
      BY Zenon DEF set_chord, keys
    <3> QED BY <1>7, <3>1, Zenon
  <2>2. CASE Len(layer.chords) >= MaxChords
    <3>1. new = Failed(c)
      BY <2>1, <2>2, Zenon
    <3> QED BY <3>1, EntryFailed
  <2>3. CASE ~(Len(layer.chords) >= MaxChords)
    <3>1. keys \in Seq(KeyCodes)
      <4>1. keys \in [1 .. Len(names) -> KeyCodes \cup {NoCode}] /\ DOMAIN keys = 1 .. Len(names)
        BY LookupTyped
      <4>2. \A i \in 1 .. Len(names) : keys[i] # NoCode
        BY <1>7, <4>1 DEF Range
      <4>3. keys \in [1 .. Len(names) -> KeyCodes]
        BY <4>1, <4>2
      <4> QED BY <4>3
    <3> HIDE DEF keys
    <3>2. row \in ChordRows /\ row.d = d
      BY <3>1 DEF ChordRows
    <3> HIDE DEF row
    <3>3. /\ s \in Seq(ChordRows) /\ Len(s) = Len(chords) + 1 /\ s[Len(chords) + 1] = row
          /\ \A i \in 1 .. Len(chords) : s[i] = chords[i]
      BY <1>1, <3>2
    <3>4. [c EXCEPT !.layers[l].chords = Append(@, [keys |-> keys, d |-> d])] = u
      BY DEF row, WithRow, WithLayers
    <3> HIDE DEF s
    <3>5. Len(s) <= MaxChords
      BY <1>1, <2>3, <3>3, Limits
    <3>6. \A i \in 1 .. Len(s) : Sound(c.layers, TablesOf(c), s[i].d, Len(c.descriptors))
      <4> TAKE i \in 1 .. Len(s)
      <4>1. i \in 1 .. Len(chords) \/ i = Len(chords) + 1
        BY <1>1, <3>3
      <4> QED BY <1>2, <3>2, <3>3, <4>1
    <3>7. EntrySet(c, l, names, d, Parsed(u, d))
      BY <1>4, <3>3, <3>5, <3>6
    <3> QED BY <2>1, <2>3, <3>4, <3>7, Zenon
  <2> QED BY <2>2, <2>3
<1> QED BY <1>5, <1>6, <1>7

LEMMA SetLayerEntryGood ==
    ASSUME NEW c, ConfigOK(c), NEW l \in 1 .. Len(c.layers), NEW names \in Seq(Text),
           NEW d \in Descs, Sound(c.layers, TablesOf(c), d, Len(c.descriptors))
    PROVE  EntrySet(c, l, names, d, set_layer_entry(c, l, names, d))
<1> DEFINE layer == c.layers[l]
           codes == Designated(c, names[1])
           new == set_layer_entry(c, l, names, d)
<1>0. new = IF Len(names) > 1 THEN set_chord(c, l, names, d)
            ELSE IF codes = {} THEN Failed(c)
            ELSE Parsed([c EXCEPT !.layers[l].keymap = Overwritten(@, codes, d)], d)
  BY Zenon DEF set_layer_entry
<1>1. CASE Len(names) > 1
  <2>1. new = set_chord(c, l, names, d)
    BY <1>0, <1>1, Zenon
  <2> QED BY <1>1, <2>1, SetChordGood
<1>2. CASE ~(Len(names) > 1) /\ codes = {}
  <2>1. new = Failed(c)
    BY <1>0, <1>2, Zenon
  <2> QED BY <2>1, EntryFailed
<1>3. CASE ~(Len(names) > 1) /\ codes # {}
  <2> DEFINE km == Overwritten(layer.keymap, codes, d)
             row == [layer EXCEPT !.keymap = km]
             u == WithRow(c, l, row)
             q == Parsed(u, d)
  <2>1. new = Parsed([c EXCEPT !.layers[l].keymap = Overwritten(@, codes, d)], d)
    BY <1>0, <1>3, Zenon
  <2>2. [c EXCEPT !.layers[l].keymap = Overwritten(@, codes, d)] = u
    <3> HIDE DEF codes
    <3> QED BY DEF WithRow, WithLayers
  <2>3. codes \in SUBSET KeyCodes
    BY DesignatedTyped
  <2>4. /\ layer \in LayerRows /\ layer.keymap \in KeyMaps /\ Len(layer.chords) <= MaxChords
        /\ \A code \in DOMAIN layer.keymap :
              Sound(c.layers, TablesOf(c), layer.keymap[code], Len(c.descriptors))
        /\ \A i \in 1 .. Len(layer.chords) :
              Sound(c.layers, TablesOf(c), layer.chords[i].d, Len(c.descriptors))
    BY LayerAt
  <2> HIDE DEF codes
  <2>5. /\ km \in KeyMaps /\ DOMAIN km = DOMAIN layer.keymap \cup codes
        /\ \A x \in DOMAIN km : km[x] = IF x \in codes THEN d ELSE layer.keymap[x]
    <3>1. km = Overwritten(layer.keymap, codes, d) /\ layer.keymap \in KeyMaps
      BY <2>4
    <3> HIDE DEF km
    <3> HIDE DEF layer
    <3>2. km \in KeyMaps
      BY <2>3, <3>1, OverwrittenTyped
    <3>3. DOMAIN km = DOMAIN layer.keymap \cup codes
          /\ \A x \in DOMAIN km : km[x] = IF x \in codes THEN d ELSE layer.keymap[x]
      BY <3>1 DEF Overwritten
    <3> QED BY <3>2, <3>3
  <2> HIDE DEF km
  <2>6. row \in LayerRows /\ row.keymap = km /\ row.chords = layer.chords /\ SameHeader(layer, row)
    BY <2>4, <2>5, LayerRowUpdates
  <2> HIDE DEF row
  <2>7. \A x \in DOMAIN km : Sound(c.layers, TablesOf(c), km[x], Len(c.descriptors))
    BY <2>4, <2>5
  <2>8. RowFits(c, l, row)
    BY <2>4, <2>6, <2>7 DEF RowFits
  <2> HIDE DEF u
  <2>9. /\ ConfigOK(u) /\ Kept(c.layers, u.layers) /\ Len(u.layers) = Len(c.layers)
        /\ u.aliases = c.aliases /\ TablesOf(u) = TablesOf(c)
        /\ u.layers[l] = row /\ \A i \in 1 .. Len(c.layers) : i # l => u.layers[i] = c.layers[i]
    BY <2>8, LayerEdited DEF Edited, u
  <2>10. KeymapsAfter(c.layers, u.layers, l, names, codes, d)
    <3>1. ASSUME NEW i \in 1 .. Len(c.layers), i # l PROVE u.layers[i].keymap = c.layers[i].keymap
      BY <2>9, <3>1
    <3>2. u.layers[l].keymap = Overwritten(c.layers[l].keymap, codes, d)
      BY <2>6, <2>9 DEF km
    <3> QED BY <1>3, <3>1, <3>2 DEF KeymapsAfter
  <2>11. q.ok /\ q.config = u /\ q.d = d
    BY ParsedFields
  <2> HIDE DEF q
  <2>12. EntrySet(c, l, names, d, q)
    BY <2>9, <2>10, <2>11 DEF EntrySet, codes
  <2>13. new = q
    BY <2>1, <2>2, Zenon DEF q, u, codes
  <2> QED BY <2>12, <2>13, Zenon
<1> QED BY <1>1, <1>2, <1>3

-----------------------------------------------------------------------------
(* config_add_entry.                                                        *)

BindingRows == [layer : Seq(Text), key : Nonempty(Text), val : Expressions[MaxNesting]]
LogRows == [layer : Nat, codes : SUBSET (KeyCodes \cup {NoCode}), chord : BOOLEAN, d : Descs]

\* The layer a binding is for.
LayerOf(c, b) == IF b.layer = <<>> THEN MainLayer ELSE config_get_layer_index(c, b.layer)

\* What config_add_entry returns.
EntryAdded(c, b, s) ==
    /\ ConfigOK(s.config) /\ Kept(c.layers, s.config.layers) /\ Len(s.config.layers) = Len(c.layers)
    /\ s.config.aliases = c.aliases /\ Longer(TablesOf(c), TablesOf(s.config))
    /\ ~s.ok => s.config.layers = c.layers
    /\ s.ok => /\ LayerOf(c, b) \in 1 .. Len(c.layers) /\ s.d \in Descs
               /\ KeymapsAfter(c.layers, s.config.layers, LayerOf(c, b), b.key,
                               Designated(c, b.key[1]), s.d)

LEMMA AddEntryGood ==
    ASSUME NEW c, ConfigOK(c), Headed(c.layers), NEW b \in BindingRows
    PROVE  EntryAdded(c, b, config_add_entry(c, b))
<1> DEFINE l == IF b.layer # <<>> THEN config_get_layer_index(c, b.layer)
                ELSE IF Dotted(b.key, b.val) THEN 0 ELSE MainLayer
           p == parse_descriptor(c, b.val)
           new == config_add_entry(c, b)
<1>1. new = IF l = 0 THEN Failed(c) ELSE IF ~p.ok THEN p ELSE set_layer_entry(p.config, l, b.key, p.d)
  BY Zenon DEF config_add_entry
<1>2. b.key \in Seq(Text) /\ b.val \in Expressions[MaxNesting]
  BY DEF BindingRows, Nonempty
<1>3. /\ ConfigOK(p.config) /\ p.config.layers = c.layers /\ p.config.aliases = c.aliases
      /\ Longer(TablesOf(c), TablesOf(p.config))
      /\ p.d \in Descs
      /\ p.ok => Sound(c.layers, TablesOf(p.config), p.d, Len(p.config.descriptors))
  BY <1>2, ParseDescriptorGood
<1>4. c.layers \in Seq(LayerRows) /\ Kept(c.layers, c.layers) /\ TablesOf(c) \in RowTables
      /\ Longer(TablesOf(c), TablesOf(c)) /\ Len(c.layers) \in Nat /\ Len(c.layers) >= 6
      /\ DOMAIN c.layers = 1 .. Len(c.layers)
  BY KeptSame, LongerSame, LayersShape DEF ConfigOK, LayersOK, Headed
<1>5. l \in 0 .. Len(c.layers) /\ (l # 0 => l = LayerOf(c, b))
  <2>1. config_get_layer_index(c, b.layer) \in 0 .. Len(c.layers)
    BY <1>4, LayerIndex
  <2>2. MainLayer \in 0 .. Len(c.layers) /\ 0 \in 0 .. Len(c.layers)
    BY <1>4 DEF MainLayer
  <2> QED BY <2>1, <2>2 DEF LayerOf
<1> HIDE DEF l, p, new
<1>6. CASE l = 0
  <2>1. new = Failed(c)
    BY <1>1, <1>6, Zenon
  <2>2. ~new.ok /\ new.config = c
    BY <2>1, ParsedFields, Zenon
  <2>3. EntryAdded(c, b, new)
    BY <1>4, <2>2 DEF EntryAdded
  <2> QED BY <2>3 DEF new
<1>7. CASE l # 0 /\ ~p.ok
  <2>1. new = p
    BY <1>1, <1>7, Zenon
  <2>2. EntryAdded(c, b, p)
    BY <1>3, <1>4, <1>7 DEF EntryAdded
  <2> QED BY <2>1, <2>2 DEF new
<1>8. CASE l # 0 /\ p.ok
  <2> DEFINE s == set_layer_entry(p.config, l, b.key, p.d)
  <2>1. new = s
    BY <1>1, <1>8, Zenon
  <2>2. EntrySet(p.config, l, b.key, p.d, s)
    <3>1. l \in 1 .. Len(p.config.layers) /\ Sound(p.config.layers, TablesOf(p.config), p.d, Len(p.config.descriptors))
      BY <1>3, <1>4, <1>5, <1>8
    <3> QED BY <1>2, <1>3, <3>1, SetLayerEntryGood
  <2> HIDE DEF s
  <2>3. Designated(p.config, b.key[1]) = Designated(c, b.key[1])
    BY <1>3 DEF Designated
  <2>4. EntryAdded(c, b, s)
    <3>1. /\ ConfigOK(s.config) /\ Kept(c.layers, s.config.layers) /\ Len(s.config.layers) = Len(c.layers)
          /\ s.config.aliases = c.aliases /\ TablesOf(s.config) = TablesOf(p.config)
          /\ ~s.ok => s.config = p.config
          /\ s.ok => s.d = p.d /\ KeymapsAfter(c.layers, s.config.layers, l, b.key,
                                               Designated(c, b.key[1]), p.d)
      BY <1>3, <2>2, <2>3 DEF EntrySet
    <3>2. l = LayerOf(c, b) /\ l \in 1 .. Len(c.layers)
      BY <1>4, <1>5, <1>8
    <3> QED BY <1>3, <3>1, <3>2 DEF EntryAdded
  <2> QED BY <2>1, <2>4 DEF new
<1> QED BY <1>6, <1>7, <1>8

-----------------------------------------------------------------------------
(* Of the bindings in the log, the last one for a code is in force.         *)

Shadowed(row, later, code) ==
    ~later.chord /\ code \in later.codes /\ later.layer = row.layer
Holds(layers, row, code) ==
    code \in DOMAIN layers[row.layer].keymap /\ layers[row.layer].keymap[code] = row.d
InForce(layers, rows) ==
    \A i \in 1 .. Len(rows) :
        /\ rows[i].layer \in 1 .. Len(layers)
        /\ ~rows[i].chord => \A code \in rows[i].codes :
              \/ \E j \in i + 1 .. Len(rows) : Shadowed(rows[i], rows[j], code)
              \/ Holds(layers, rows[i], code)

\* Every binding stays as it is, except those that row makes.
Rebinds(layers, more, row) ==
    /\ \A i \in 1 .. Len(layers) : \A code \in DOMAIN layers[i].keymap :
          \/ i = row.layer /\ ~row.chord /\ code \in row.codes
          \/ code \in DOMAIN more[i].keymap /\ more[i].keymap[code] = layers[i].keymap[code]
    /\ ~row.chord => \A code \in row.codes : Holds(more, row, code)

LEMMA InForceAppended ==
    ASSUME NEW layers, NEW more, Len(layers) \in Nat, Len(more) \in Nat, Len(layers) <= Len(more),
           NEW rows \in Seq(LogRows), NEW row \in LogRows, row.layer \in 1 .. Len(layers),
           InForce(layers, rows), Rebinds(layers, more, row)
    PROVE  InForce(more, Append(rows, row))
<1> DEFINE all == Append(rows, row)
           n == Len(rows)
<1>1. /\ n \in Nat /\ Len(all) = n + 1 /\ all[n + 1] = row /\ \A i \in 1 .. n : all[i] = rows[i]
  OBVIOUS
<1> HIDE DEF all, n
<1>2. ASSUME NEW i \in 1 .. n + 1
      PROVE  /\ all[i].layer \in 1 .. Len(more)
             /\ ~all[i].chord => \A code \in all[i].codes :
                   \/ \E j \in i + 1 .. n + 1 : Shadowed(all[i], all[j], code)
                   \/ Holds(more, all[i], code)
  <2>1. CASE i = n + 1
    <3>1. all[i] = row
      BY <1>1, <2>1
    <3>2. row.layer \in 1 .. Len(more)
      OBVIOUS
    <3>3. ~row.chord => \A code \in row.codes : Holds(more, row, code)
      BY DEF Rebinds
    <3> QED BY <3>1, <3>2, <3>3
  <2>2. CASE i # n + 1
    <3>1. i \in 1 .. n /\ all[i] = rows[i] /\ rows[i].layer \in 1 .. Len(layers)
      BY <1>1, <2>2 DEF InForce, n
    <3>2. ASSUME ~rows[i].chord, NEW code \in rows[i].codes
          PROVE  \/ \E j \in i + 1 .. n + 1 : Shadowed(rows[i], all[j], code)
                 \/ Holds(more, rows[i], code)
      <4>1. CASE \E j \in i + 1 .. n : Shadowed(rows[i], rows[j], code)
        <5>1. PICK j \in i + 1 .. n : Shadowed(rows[i], rows[j], code)
          BY <4>1
        <5>2. j \in i + 1 .. n + 1 /\ j \in 1 .. n
          BY <1>1, <3>1
        <5>3. Shadowed(rows[i], all[j], code)
          BY <1>1, <5>1, <5>2
        <5> QED BY <5>2, <5>3
      <4>2. CASE Holds(layers, rows[i], code)
        <5>1. CASE rows[i].layer = row.layer /\ ~row.chord /\ code \in row.codes
          <6>1. n + 1 \in i + 1 .. n + 1
            BY <1>1, <3>1
          <6>2. Shadowed(rows[i], all[n + 1], code)
            BY <1>1, <5>1 DEF Shadowed
          <6> QED BY <6>1, <6>2
        <5>2. CASE ~(rows[i].layer = row.layer /\ ~row.chord /\ code \in row.codes)
          <6>1. Holds(more, rows[i], code)
            BY <3>1, <4>2, <5>2 DEF Holds, Rebinds
          <6> QED BY <6>1
        <5> QED BY <5>1, <5>2
      <4> QED BY <3>1, <3>2, <4>1, <4>2 DEF InForce, n
    <3>3. rows[i].layer \in 1 .. Len(more)
      BY <3>1
    <3> QED BY <3>1, <3>2, <3>3
  <2> QED BY <2>1, <2>2
<1>3. InForce(more, all)
  BY <1>1, <1>2 DEF InForce
<1> QED BY <1>3 DEF all

LEMMA InForceKept ==
    ASSUME NEW layers, NEW more, Len(layers) \in Nat, Len(more) \in Nat, Len(layers) <= Len(more),
           \A i \in 1 .. Len(layers) : more[i].keymap = layers[i].keymap,
           NEW rows, InForce(layers, rows)
    PROVE  InForce(more, rows)
<1>1. \A i \in 1 .. Len(layers) : i \in 1 .. Len(more)
  OBVIOUS
<1> QED BY <1>1 DEF InForce, Holds

\* What is logged of an accepted binding.
LEMMA EntryLogged ==
    ASSUME NEW c, ConfigOK(c), NEW b \in BindingRows, NEW s, EntryAdded(c, b, s), s.ok,
           NEW rows \in Seq(LogRows), InForce(c.layers, rows)
    PROVE  /\ LogOf(c, b, s.d) \in LogRows
           /\ InForce(s.config.layers, Append(rows, LogOf(c, b, s.d)))
<1> DEFINE row == LogOf(c, b, s.d)
           layers == c.layers
           more == s.config.layers
           l == LayerOf(c, b)
           codes == Designated(c, b.key[1])
           d == s.d
<1>1. /\ l \in 1 .. Len(layers) /\ d \in Descs /\ KeymapsAfter(layers, more, l, b.key, codes, d)
      /\ Len(more) = Len(layers) /\ ConfigOK(s.config)
  BY DEF EntryAdded
<1>2. /\ layers \in Seq(LayerRows) /\ Len(layers) \in Nat
      /\ \A i \in 1 .. Len(layers) : layers[i].keymap \in KeyMaps
  <2>1. layers \in Seq(LayerRows) /\ Len(layers) \in Nat
    BY LayersShape DEF ConfigOK, LayersOK
  <2> QED BY <2>1, LayerAt
<1>3. codes \in SUBSET KeyCodes
  BY DesignatedTyped
<1>4. /\ row.layer = l /\ row.chord = (Len(b.key) > 1) /\ row.d = d
      /\ ~(Len(b.key) > 1) => row.codes = codes
      /\ row \in LogRows
  <2> DEFINE named == IF Len(b.key) > 1 THEN {lookup_keycode(b.key[i]) : i \in DOMAIN b.key} ELSE codes
  <2>1. row = [layer |-> l, codes |-> named, chord |-> Len(b.key) > 1, d |-> d]
    BY DEF LogOf, LayerOf
  <2>2. named \in SUBSET (KeyCodes \cup {NoCode})
    BY <1>3, LookupTyped
  <2> HIDE DEF named, l, d, row, codes
  <2>3. l \in Nat
    BY <1>1, <1>2
  <2>4. row.layer = l /\ row.chord = (Len(b.key) > 1) /\ row.d = d /\ row.codes = named
    BY <2>1
  <2>5. row \in LogRows
    BY <1>1, <2>1, <2>2, <2>3 DEF LogRows
  <2> QED BY <2>4, <2>5 DEF named
<1> HIDE DEF row, l, codes, d, more, layers
<1>5. b.key \in Seq(Text) /\ Len(b.key) \in Nat
  BY DEF BindingRows, Nonempty
<1>6. Rebinds(layers, more, row)
  <2>1. CASE Len(b.key) > 1
    <3>1. \A i \in 1 .. Len(layers) : more[i].keymap = layers[i].keymap
      BY <1>1, <2>1 DEF KeymapsAfter
    <3> QED BY <1>4, <2>1, <3>1 DEF Rebinds
  <2>2. CASE ~(Len(b.key) > 1)
    <3>1. Len(b.key) <= 1
      BY <1>5, <2>2
    <3>2. /\ \A i \in 1 .. Len(layers) : i # l => more[i].keymap = layers[i].keymap
          /\ more[l].keymap = Overwritten(layers[l].keymap, codes, d)
      BY <1>1, <3>1 DEF KeymapsAfter
    <3>3. /\ DOMAIN more[l].keymap = DOMAIN layers[l].keymap \cup codes
          /\ \A x \in DOMAIN more[l].keymap :
                more[l].keymap[x] = IF x \in codes THEN d ELSE layers[l].keymap[x]
      BY <3>2 DEF Overwritten
    <3>4. row.layer = l /\ ~row.chord /\ row.codes = codes /\ row.d = d
      BY <1>4, <2>2
    <3>5. ASSUME NEW i \in 1 .. Len(layers), NEW code \in DOMAIN layers[i].keymap
          PROVE  \/ i = row.layer /\ ~row.chord /\ code \in row.codes
                 \/ code \in DOMAIN more[i].keymap /\ more[i].keymap[code] = layers[i].keymap[code]
      BY <3>2, <3>3, <3>4
    <3>6. \A code \in row.codes : Holds(more, row, code)
      BY <3>3, <3>4 DEF Holds
    <3> QED BY <3>5, <3>6 DEF Rebinds
  <2> QED BY <2>1, <2>2
<1>7. InForce(more, Append(rows, row))
  <2>1. /\ Len(layers) \in Nat /\ Len(more) \in Nat /\ Len(layers) <= Len(more)
        /\ row \in LogRows /\ row.layer \in 1 .. Len(layers) /\ Rebinds(layers, more, row)
    BY <1>1, <1>2, <1>4, <1>6
  <2>2. InForce(layers, rows)
    BY DEF layers
  <2> QED BY <2>1, <2>2, InForceAppended
<1> QED BY <1>4, <1>7 DEF row, more, d

-----------------------------------------------------------------------------
(* config_add_layer and the other sections.                                 *)

LEMMA EmptyKeymap == <<>> \in KeyMaps /\ DOMAIN <<>> = {} /\ <<>> \in Seq(ChordRows) /\ Len(<<>>) = 0
<1>1. DOMAIN <<>> = {} /\ <<>> \in Seq(ChordRows) /\ Len(<<>>) = 0
  OBVIOUS
<1>2. <<>> = [x \in DOMAIN <<>> |-> <<>>[x]]
  OBVIOUS
<1>3. <<>> \in KeyMaps
  <2> DEFINE e == <<>>
  <2>1. DOMAIN e \in SUBSET KeyCodes /\ e = [x \in DOMAIN e |-> e[x]] /\ \A x \in DOMAIN e : e[x] \in Descs
    BY <1>1, <1>2
  <2> HIDE DEF e
  <2>2. e \in KeyMaps
    BY <2>1, KeyMapsTyped
  <2> QED BY <2>2 DEF e
<1> QED BY <1>1, <1>3

LEMMA LayerAdded ==
    ASSUME NEW c, ConfigOK(c), Len(c.layers) < MaxLayers,
           NEW row \in LayerRows, row.keymap = <<>>, row.chords = <<>>,
           row.type = "composite" <=> row.constituents # <<>>,
           \A i \in 1 .. Len(row.constituents) : row.constituents[i] \in 1 .. Len(c.layers)
    PROVE  LET u == WithLayers(c, Append(c.layers, row)) IN
           /\ ConfigOK(u) /\ TablesOf(u) = TablesOf(c) /\ u.aliases = c.aliases
           /\ u.layers = Append(c.layers, row) /\ Kept(c.layers, u.layers)
<1> DEFINE layers == c.layers
           more == Append(layers, row)
           t == TablesOf(c)
           u == WithLayers(c, more)
           n == Len(layers)
<1>1. /\ IsRecord(c) /\ layers \in Seq(LayerRows) /\ n \in Nat /\ t \in RowTables
      /\ TablesOK(layers, t) /\ c.aliases \in [KeyCodes -> Text]
  BY LayersShape DEF ConfigOK, LayersOK
<1>2. /\ IsRecord(u) /\ u.layers = more /\ TablesOf(u) = t /\ u.aliases = c.aliases
  <2> HIDE DEF more
  <2> QED BY <1>1, LayersUpdate
<1> HIDE DEF u, t
<1>3. /\ more \in Seq(LayerRows) /\ Len(more) = n + 1 /\ more[n + 1] = row
      /\ \A i \in 1 .. n : more[i] = layers[i]
  BY <1>1
<1> HIDE DEF more
<1>4. Kept(layers, more)
  BY <1>1, <1>3 DEF Kept, SameHeader
<1>5. TablesOK(more, t)
  BY <1>1, <1>3, <1>4, TablesKept
<1>6. ASSUME NEW i \in 1 .. n + 1 PROVE LayerSound(more, t, i)
  <2>1. CASE i \in 1 .. n
    <3>1. LayerSound(layers, t, i) /\ more[i] = layers[i]
      BY <1>3, <2>1 DEF ConfigOK, t
    <3> QED BY <1>1, <1>3, <1>4, <2>1, <3>1, LongerSame, LayerSoundKept
  <2>2. CASE i = n + 1
    <3>1. MaxChords \in Nat /\ i - 1 = n /\ more[i] = row
      BY <1>1, <1>3, <2>2, Limits
    <3>2. /\ \A code \in DOMAIN row.keymap : Sound(more, t, row.keymap[code], Len(t.descriptors))
          /\ \A j \in 1 .. Len(row.chords) : Sound(more, t, row.chords[j].d, Len(t.descriptors))
          /\ Len(row.chords) <= MaxChords
      BY <3>1, EmptyKeymap
    <3> QED BY <3>1, <3>2 DEF LayerSound, n
  <2> QED BY <1>1, <2>1, <2>2
<1>7. Len(more) <= MaxLayers
  BY <1>1, <1>3, Limits
<1>8. ConfigOK(u)
  BY <1>1, <1>2, <1>3, <1>5, <1>6, <1>7 DEF ConfigOK, LayersOK
<1> QED BY <1>2, <1>4, <1>8 DEF u, t, more

\* A layer without bindings.
Bare(name, type, mods, parts) ==
    [name |-> name, type |-> type, mods |-> mods, keymap |-> <<>>, chords |-> <<>>,
     constituents |-> parts]

LEMMA BareTyped ==
    ASSUME NEW a \in Seq(Text), NEW b \in {"normal", "layout", "composite"},
           NEW m \in SUBSET Text, NEW q \in Seq(Nat), NEW r, r = Bare(a, b, m, q)
    PROVE  /\ r \in LayerRows /\ r.keymap = <<>> /\ r.chords = <<>> /\ r.name = a
           /\ r.type = b /\ r.constituents = q
BY EmptyKeymap DEF Bare, LayerRows

\* What config_add_layer returns.
LayerMade(c, s, u) ==
    /\ ConfigOK(u) /\ TablesOf(u) = TablesOf(c) /\ u.aliases = c.aliases /\ Kept(c.layers, u.layers)
    /\ \/ u.layers = c.layers
       \/ \E row \in LayerRows : /\ u.layers = Append(c.layers, row) /\ row.name = s.name
                                 /\ \A i \in 1 .. Len(c.layers) : c.layers[i].name # s.name

LEMMA ConfigSame == ASSUME NEW c, ConfigOK(c), NEW s PROVE LayerMade(c, s, c)
<1>1. Kept(c.layers, c.layers)
  BY KeptSame DEF ConfigOK, LayersOK
<1> QED BY <1>1 DEF LayerMade

LEMMA AddLayerGood ==
    ASSUME NEW c, ConfigOK(c), NEW s, s.name \in Nonempty(Text), s.type \in Types
    PROVE  LayerMade(c, s, config_add_layer(c, s))
<1> DEFINE new == new_layer(c, s)
           u == config_add_layer(c, s)
           parts == [i \in DOMAIN s.name |-> config_get_layer_index(c, <<s.name[i]>>)]
<1>1. u = IF ~s.fits \/ config_get_layer_index(c, s.name) # 0 \/ Len(c.layers) >= MaxLayers \/ ~new.ok
          THEN c ELSE WithLayers(c, Append(c.layers, new.layer))
  BY DEF config_add_layer, WithLayers
<1>2. /\ c.layers \in Seq(LayerRows) /\ Len(c.layers) \in Nat /\ DOMAIN c.layers = 1 .. Len(c.layers)
      /\ s.name \in Seq(Text) /\ Len(s.name) \in Nat /\ s.type.mods \in SUBSET Text
      /\ DOMAIN s.name = 1 .. Len(s.name)
  BY LayersShape DEF ConfigOK, LayersOK, Nonempty, Types
<1>3. CASE ~s.fits \/ config_get_layer_index(c, s.name) # 0 \/ Len(c.layers) >= MaxLayers \/ ~new.ok
  <2>1. u = c
    BY <1>1, <1>3, Zenon
  <2> QED BY <2>1, ConfigSame
<1>4. CASE ~(~s.fits \/ config_get_layer_index(c, s.name) # 0 \/ Len(c.layers) >= MaxLayers \/ ~new.ok)
  <2> DEFINE row == new.layer
  <2>1. u = WithLayers(c, Append(c.layers, row))
    BY <1>1, <1>4, Zenon
  <2>2. Len(c.layers) < MaxLayers
    BY <1>2, <1>4, Limits
  <2>3. \A i \in 1 .. Len(c.layers) : c.layers[i].name # s.name
    BY <1>2, <1>4, LayerIndex
  <2>4. /\ row \in LayerRows /\ row.keymap = <<>> /\ row.chords = <<>> /\ row.name = s.name
        /\ row.type = "composite" <=> row.constituents # <<>>
        /\ \A i \in 1 .. Len(row.constituents) : row.constituents[i] \in 1 .. Len(c.layers)
    <3>1. CASE Len(s.name) > 1
      <4>1. row = Bare(s.name, "composite", {}, parts)
        <5> HIDE DEF parts
        <5>1. new.layer = [NewLayer(s) EXCEPT !.type = "composite", !.constituents = parts]
          BY <3>1 DEF new_layer, parts
        <5> QED BY <5>1 DEF Bare, NewLayer, EmptyLayer
      <4>2. 0 \notin Range(parts)
        <5> HIDE DEF parts
        <5>1. new.ok = (s.type.kind = "none" /\ 0 \notin Range(parts) /\ Len(parts) <= MaxConstituents)
          BY <3>1 DEF new_layer, parts
        <5> QED BY <1>4, <5>1
      <4>3. ASSUME NEW i \in 1 .. Len(s.name)
            PROVE  parts[i] \in 1 .. Len(c.layers)
        <5>1. config_get_layer_index(c, <<s.name[i]>>) \in 0 .. Len(c.layers)
          BY <1>2, LayerIndex
        <5>2. parts[i] = config_get_layer_index(c, <<s.name[i]>>) /\ i \in DOMAIN parts
          BY <1>2
        <5>3. parts[i] # 0
          BY <4>2, <5>2 DEF Range
        <5> QED BY <1>2, <5>1, <5>2, <5>3
      <4>4. parts \in Seq(Nat) /\ Len(parts) = Len(s.name)
        <5>1. DOMAIN parts = 1 .. Len(s.name) /\ parts = [i \in DOMAIN parts |-> parts[i]]
          BY <1>2
        <5>2. \A i \in 1 .. Len(s.name) : parts[i] \in Nat
          <6> HIDE DEF parts
          <6> QED BY <1>2, <4>3
        <5> HIDE DEF parts
        <5>3. parts \in [1 .. Len(s.name) -> Nat]
          BY <5>1, <5>2
        <5> QED BY <1>2, <5>3
      <4> HIDE DEF parts, row
      <4>5. parts # <<>>
        BY <3>1, <4>4
      <4>6. /\ row \in LayerRows /\ row.keymap = <<>> /\ row.chords = <<>> /\ row.name = s.name
            /\ row.type = "composite" /\ row.constituents = parts
        BY <1>2, <4>1, <4>4, BareTyped
      <4> QED BY <4>3, <4>4, <4>5, <4>6
    <3>2. CASE ~(Len(s.name) > 1)
      <4>1. \E type \in {"normal", "layout"} : \E mods \in SUBSET Text :
              row = Bare(s.name, type, mods, <<>>)
        <5>1. row = CASE s.type.kind = "layout" -> [NewLayer(s) EXCEPT !.type = "layout"]
                      [] s.type.kind = "mods"   -> [NewLayer(s) EXCEPT !.mods = s.type.mods]
                      [] OTHER -> NewLayer(s)
          BY <3>2 DEF new_layer
        <5> HIDE DEF row
        <5>2. CASE s.type.kind = "layout"
          <6>1. row = Bare(s.name, "layout", {}, <<>>)
            BY <5>1, <5>2 DEF Bare, NewLayer, EmptyLayer
          <6> QED BY <6>1
        <5>3. CASE s.type.kind = "mods"
          <6>1. row = Bare(s.name, "normal", s.type.mods, <<>>)
            BY <5>1, <5>3 DEF Bare, NewLayer, EmptyLayer
          <6> QED BY <1>2, <6>1
        <5>4. CASE s.type.kind \notin {"layout", "mods"}
          <6>1. row = Bare(s.name, "normal", {}, <<>>)
            BY <5>1, <5>4 DEF Bare, NewLayer, EmptyLayer
          <6> QED BY <6>1
        <5> QED BY <5>2, <5>3, <5>4
      <4>2. PICK type \in {"normal", "layout"}, mods \in SUBSET Text : row = Bare(s.name, type, mods, <<>>)
        BY <4>1
      <4> HIDE DEF row
      <4>3. <<>> \in Seq(Nat) /\ Len(<<>>) = 0
        OBVIOUS
      <4>4. /\ row \in LayerRows /\ row.keymap = <<>> /\ row.chords = <<>> /\ row.name = s.name
            /\ row.type = type /\ row.constituents = <<>>
        <5>1. type \in {"normal", "layout", "composite"} /\ s.name \in Seq(Text)
          BY <1>2
        <5> DEFINE none == <<>>
        <5>2. row = Bare(s.name, type, mods, none) /\ none \in Seq(Nat)
          BY <4>2, <4>3
        <5> HIDE DEF none
        <5>3. /\ row \in LayerRows /\ row.keymap = <<>> /\ row.chords = <<>> /\ row.name = s.name
              /\ row.type = type /\ row.constituents = none
          BY <5>1, <5>2, BareTyped
        <5> QED BY <5>3 DEF none
      <4>5. type # "composite"
        OBVIOUS
      <4> QED BY <4>3, <4>4, <4>5
    <3> QED BY <3>1, <3>2
  <2> HIDE DEF row, u
  <2>5. /\ ConfigOK(u) /\ TablesOf(u) = TablesOf(c) /\ u.aliases = c.aliases
        /\ u.layers = Append(c.layers, row) /\ Kept(c.layers, u.layers)
    BY <2>1, <2>2, <2>4, LayerAdded
  <2>6. LayerMade(c, s, u)
    BY <2>3, <2>4, <2>5 DEF LayerMade
  <2> QED BY <2>6 DEF u
<1> QED BY <1>3, <1>4

LEMMA HeadedAppended ==
    ASSUME NEW layers \in Seq(LayerRows), Headed(layers), NEW row \in LayerRows,
           \A i \in 1 .. Len(layers) : layers[i].name # row.name
    PROVE  Headed(Append(layers, row))
<1> DEFINE more == Append(layers, row)
           n == Len(layers)
<1>1. /\ n \in Nat /\ n >= 6 /\ Len(more) = n + 1 /\ more[n + 1] = row
      /\ \A i \in 1 .. n : more[i] = layers[i]
  BY DEF Headed
<1> HIDE DEF more
<1>2. more[MainLayer].name = <<"main">>
  BY <1>1 DEF Headed, MainLayer
<1>3. ASSUME NEW m \in {"shift", "alt", "altgr", "meta", "control"}
      PROVE  \E i \in 2 .. 6 : more[i].name = <<m>> /\ more[i].type = "normal"
  <2>1. PICK i \in 2 .. 6 : layers[i].name = <<m>> /\ layers[i].type = "normal"
    BY DEF Headed
  <2>2. i \in 1 .. n
    BY <1>1
  <2> QED BY <1>1, <2>1, <2>2
<1>4. ASSUME NEW i \in 1 .. n + 1, NEW j \in 1 .. n + 1, more[i].name = more[j].name
      PROVE  i = j
  <2>1. (i \in 1 .. n \/ i = n + 1) /\ (j \in 1 .. n \/ j = n + 1)
    BY <1>1
  <2>2. CASE i \in 1 .. n /\ j \in 1 .. n
    BY <1>1, <1>4, <2>2 DEF Headed, n
  <2>3. CASE i \in 1 .. n /\ j = n + 1
    BY <1>1, <1>4, <2>3
  <2>4. CASE i = n + 1 /\ j \in 1 .. n
    BY <1>1, <1>4, <2>4
  <2> QED BY <2>1, <2>2, <2>3, <2>4
<1>5. Headed(more)
  BY <1>1, <1>2, <1>3, <1>4 DEF Headed
<1> QED BY <1>5 DEF more

LEMMA HeadedKept ==
    ASSUME NEW layers, NEW more, Headed(layers), Kept(layers, more), Len(layers) \in Nat,
           Len(more) = Len(layers)
    PROVE  Headed(more)
<1>1. /\ Len(layers) >= 6 /\ \A i \in 1 .. Len(layers) : more[i].name = layers[i].name /\ more[i].type = layers[i].type
  BY DEF Headed, Kept, SameHeader
<1>2. more[MainLayer].name = <<"main">>
  BY <1>1 DEF Headed, MainLayer
<1>3. ASSUME NEW m \in {"shift", "alt", "altgr", "meta", "control"}
      PROVE  \E i \in 2 .. 6 : more[i].name = <<m>> /\ more[i].type = "normal"
  <2>1. PICK i \in 2 .. 6 : layers[i].name = <<m>> /\ layers[i].type = "normal"
    BY DEF Headed
  <2>2. i \in 1 .. Len(layers)
    BY <1>1
  <2> QED BY <1>1, <2>1, <2>2
<1>4. ASSUME NEW i \in 1 .. Len(more), NEW j \in 1 .. Len(more), more[i].name = more[j].name
      PROVE  i = j
  BY <1>1, <1>4 DEF Headed
<1> QED BY <1>1, <1>2, <1>3, <1>4 DEF Headed

\* Only the tables and layers matter to what is sound.
LEMMA SameLayersOK ==
    ASSUME NEW c, ConfigOK(c), NEW u, IsRecord(u), u.layers = c.layers, TablesOf(u) = TablesOf(c),
           u.aliases \in [KeyCodes -> Text]
    PROVE  ConfigOK(u)
BY DEF ConfigOK

\* What the proofs need of a section and of a file.
SectionFits(s) ==
    /\ s.kind \in {"ids", "aliases", "global", "layer"}
    /\ s.kind = "aliases" => /\ Len(s.entries) \in Nat
                             /\ \A i \in 1 .. Len(s.entries) : s.entries[i].val \in Text
    /\ s.kind = "layer" => /\ s.name \in Nonempty(Text) /\ s.type \in Types
                           /\ s.entries \in Seq([key : Nonempty(Text),
                                                 val : Expressions[MaxNesting] \cup {NoValue}])
FileFits(f) == Len(f) \in Nat /\ \A i \in 1 .. Len(f) : SectionFits(f[i])

\* What a section that is no alias section does, and what an alias does.
SectionAdded(c, s, u) ==
    IF s.kind = "layer" THEN LayerMade(c, s, u)
    ELSE /\ ConfigOK(u) /\ u.layers = c.layers /\ TablesOf(u) = TablesOf(c)

LEMMA AddSectionGood ==
    ASSUME NEW c, ConfigOK(c), NEW s, SectionFits(s), s.kind # "aliases"
    PROVE  SectionAdded(c, s, AddSection(c, s))
<1> DEFINE u == AddSection(c, s)
<1>1. s.kind \in {"ids", "global", "layer"}
  BY DEF SectionFits
<1>2. IsRecord(c) /\ c.aliases \in [KeyCodes -> Text]
  BY DEF ConfigOK
<1>3. CASE s.kind = "layer"
  <2>1. u = config_add_layer(c, s)
    BY <1>3 DEF AddSection
  <2>2. s.name \in Nonempty(Text) /\ s.type \in Types
    BY <1>3 DEF SectionFits
  <2> QED BY <1>3, <2>1, <2>2, AddLayerGood DEF SectionAdded
<1>4. CASE s.kind = "ids"
  <2> DEFINE v == parse_id_section(c.ids, s.entries)
  <2>1. u = WithIds(c, v)
    BY <1>4 DEF AddSection, WithIds
  <2> HIDE DEF v, u
  <2>2. IsRecord(u) /\ u.layers = c.layers /\ TablesOf(u) = TablesOf(c) /\ u.aliases = c.aliases
    BY <1>2, <2>1, IdsUpdate
  <2>3. ConfigOK(u)
    BY <1>2, <2>2, SameLayersOK
  <2>4. SectionAdded(c, s, u)
    BY <1>4, <2>2, <2>3 DEF SectionAdded
  <2> QED BY <2>4 DEF u
<1>5. CASE s.kind = "global"
  <2>1. \E v : u = WithGlobals(c, v)
    <3>1. u = parse_global_section(c, s)
      BY <1>5 DEF AddSection
    <3> QED BY <3>1 DEF parse_global_section, WithGlobals
  <2>2. PICK v : u = WithGlobals(c, v)
    BY <2>1
  <2> HIDE DEF u
  <2>3. IsRecord(u) /\ u.layers = c.layers /\ TablesOf(u) = TablesOf(c) /\ u.aliases = c.aliases
    BY <1>2, <2>2, GlobalsUpdate
  <2>4. ConfigOK(u)
    BY <1>2, <2>3, SameLayersOK
  <2>5. SectionAdded(c, s, u)
    BY <1>5, <2>3, <2>4 DEF SectionAdded
  <2> QED BY <2>5 DEF u
<1> QED BY <1>1, <1>3, <1>4, <1>5

\* An alias, and the binding that it makes when it is the name of a key.
AliasAdded(c, rows, entry, u) ==
    /\ ConfigOK(u) /\ Kept(c.layers, u.layers) /\ Len(u.layers) = Len(c.layers)
    /\ TablesOf(u) = TablesOf(c)
    /\ rows \o AliasLog(entry) \in Seq(LogRows)
    /\ Len(rows) <= Len(rows \o AliasLog(entry))
    /\ InForce(u.layers, rows \o AliasLog(entry))
    /\ lookup_keycode(entry.val) = NoCode => u.layers = c.layers

LEMMA AddAliasGood ==
    ASSUME NEW c, ConfigOK(c), NEW entry, entry.val \in Text,
           Len(c.layers) >= 1 \/ lookup_keycode(entry.val) = NoCode,
           NEW rows \in Seq(LogRows), InForce(c.layers, rows)
    PROVE  AliasAdded(c, rows, entry, AddAlias(c, entry))
<1> DEFINE code == lookup_keycode(entry.key)
           target == lookup_keycode(entry.val)
           d == KeySequence(target, {})
           edited == [c EXCEPT !.layers[MainLayer].keymap = Overwritten(@, {code}, d)]
           bound == IF target = NoCode THEN c ELSE edited
           u == AddAlias(c, entry)
<1>1. /\ code \in KeyCodes \cup {NoCode} /\ target \in KeyCodes \cup {NoCode} /\ entry.val \in Text
  BY LookupTyped
<1>2. /\ u = IF code = NoCode \/ ~entry.fits THEN c
             ELSE WithAliases(bound, [bound.aliases EXCEPT ![code] = entry.val])
      /\ AliasLog(entry) = IF code = NoCode \/ target = NoCode \/ ~entry.fits THEN <<>>
                           ELSE <<[layer |-> MainLayer, codes |-> {code}, chord |-> FALSE, d |-> d]>>
  BY DEF AddAlias, AliasLog, WithAliases
<1>3. /\ IsRecord(c) /\ c.layers \in Seq(LayerRows) /\ Len(c.layers) \in Nat /\ Kept(c.layers, c.layers)
      /\ c.aliases \in [KeyCodes -> Text]
  BY LayersShape, KeptSame DEF ConfigOK, LayersOK
<1>4. rows \o <<>> = rows /\ Len(rows) \in Nat
  OBVIOUS
\* The alias itself changes no layer.
<1>5. ASSUME NEW w, ConfigOK(w), code # NoCode, w.aliases = c.aliases
      PROVE  LET x == WithAliases(w, [w.aliases EXCEPT ![code] = entry.val]) IN
             ConfigOK(x) /\ x.layers = w.layers /\ TablesOf(x) = TablesOf(w)
  <2> DEFINE al == [w.aliases EXCEPT ![code] = entry.val]
             x == WithAliases(w, al)
  <2>1. al \in [KeyCodes -> Text]
    <3> HIDE DEF code
    <3> QED BY <1>1, <1>3, <1>5
  <2> HIDE DEF al
  <2>2. IsRecord(w)
    BY <1>5 DEF ConfigOK
  <2>3. IsRecord(x) /\ x.layers = w.layers /\ TablesOf(x) = TablesOf(w) /\ x.aliases = al
    BY <2>2, AliasesUpdate
  <2> HIDE DEF x
  <2>4. ConfigOK(x)
    BY <1>5, <2>1, <2>3, SameLayersOK
  <2> QED BY <2>3, <2>4 DEF x, al
<1>6. CASE code = NoCode \/ ~entry.fits
  <2>1. u = c /\ AliasLog(entry) = <<>>
    BY <1>2, <1>6, Zenon
  <2> HIDE DEF u
  <2>2. AliasAdded(c, rows, entry, u)
    BY <1>3, <1>4, <2>1 DEF AliasAdded
  <2> QED BY <2>2 DEF u
<1>7. CASE code # NoCode /\ entry.fits /\ target = NoCode
  <2> DEFINE x == WithAliases(c, [c.aliases EXCEPT ![code] = entry.val])
  <2>1. u = x /\ AliasLog(entry) = <<>>
    BY <1>2, <1>7, Zenon
  <2>2. ConfigOK(x) /\ x.layers = c.layers /\ TablesOf(x) = TablesOf(c)
    BY <1>5, <1>7
  <2> HIDE DEF u, x
  <2>3. AliasAdded(c, rows, entry, u)
    BY <1>3, <1>4, <2>1, <2>2 DEF AliasAdded
  <2> QED BY <2>3 DEF u
<1>8. CASE code # NoCode /\ entry.fits /\ target # NoCode
  <2> DEFINE layer == c.layers[MainLayer]
             map == Overwritten(layer.keymap, {code}, d)
             fit == [layer EXCEPT !.keymap = map]
             w == WithRow(c, MainLayer, fit)
             entered == [layer |-> MainLayer, codes |-> {code}, chord |-> FALSE, d |-> d]
             x == WithAliases(w, [w.aliases EXCEPT ![code] = entry.val])
  <2>1. bound = w
    <3>1. bound = edited
      BY <1>8, Zenon
    <3>2. edited = w
      <4> HIDE DEF code, d
      <4> QED BY DEF WithRow, WithLayers
    <3> QED BY <3>1, <3>2, Zenon
  <2>2. u = x /\ AliasLog(entry) = <<entered>>
    BY <1>2, <1>8, <2>1, Zenon
  <2>3. MainLayer \in 1 .. Len(c.layers) /\ code \in KeyCodes /\ target \in KeyCodes
    BY <1>1, <1>3, <1>8 DEF MainLayer
  <2>4. d \in Descs /\ \A limit : Sound(c.layers, TablesOf(c), d, limit)
    <3>1. {} \in SUBSET Text
      OBVIOUS
    <3> HIDE DEF target
    <3> QED BY <2>3, <3>1, KeySequenceTyped
  <2> HIDE DEF d, code, target, u
  <2>5. /\ layer \in LayerRows /\ layer.keymap \in KeyMaps /\ Len(layer.chords) <= MaxChords
        /\ \A key \in DOMAIN layer.keymap :
              Sound(c.layers, TablesOf(c), layer.keymap[key], Len(c.descriptors))
        /\ \A i \in 1 .. Len(layer.chords) :
              Sound(c.layers, TablesOf(c), layer.chords[i].d, Len(c.descriptors))
    BY <2>3, LayerAt
  <2>6. /\ map \in KeyMaps /\ DOMAIN map = DOMAIN layer.keymap \cup {code}
        /\ \A key \in DOMAIN map : map[key] = IF key \in {code} THEN d ELSE layer.keymap[key]
    <3>1. layer.keymap \in KeyMaps /\ {code} \in SUBSET KeyCodes
      BY <2>3, <2>5
    <3>2. map = Overwritten(layer.keymap, {code}, d)
      OBVIOUS
    <3> HIDE DEF layer, map
    <3>3. map \in KeyMaps
      BY <2>4, <3>1, <3>2, OverwrittenTyped
    <3> QED BY <3>2, <3>3 DEF Overwritten
  <2> HIDE DEF map
  <2>7. fit \in LayerRows /\ fit.keymap = map /\ fit.chords = layer.chords /\ SameHeader(layer, fit)
    BY <2>5, <2>6, LayerRowUpdates
  <2> HIDE DEF fit
  <2>8. \A key \in DOMAIN map : Sound(c.layers, TablesOf(c), map[key], Len(c.descriptors))
    BY <2>4, <2>5, <2>6
  <2>9. RowFits(c, MainLayer, fit)
    BY <2>5, <2>7, <2>8 DEF RowFits
  <2>10. /\ ConfigOK(w) /\ Kept(c.layers, w.layers) /\ Len(w.layers) = Len(c.layers)
         /\ w.aliases = c.aliases /\ TablesOf(w) = TablesOf(c) /\ w.layers[MainLayer] = fit
         /\ \A i \in 1 .. Len(c.layers) : i # MainLayer => w.layers[i] = c.layers[i]
    BY <2>3, <2>9, LayerEdited DEF Edited
  <2> HIDE DEF w
  <2>11. ConfigOK(x) /\ x.layers = w.layers /\ TablesOf(x) = TablesOf(w)
    BY <1>5, <1>8, <2>10
  <2> HIDE DEF x
  <2>12. entered \in LogRows /\ entered.layer = MainLayer /\ ~entered.chord
         /\ entered.codes = {code} /\ entered.d = d
    BY <2>3, <2>4 DEF LogRows, MainLayer
  <2> HIDE DEF entered
  <2>13. rows \o <<entered>> = Append(rows, entered) /\ Append(rows, entered) \in Seq(LogRows)
         /\ Len(rows) <= Len(Append(rows, entered))
    BY <2>12
  <2>14. Rebinds(c.layers, x.layers, entered)
    <3>1. ASSUME NEW i \in 1 .. Len(c.layers), NEW key \in DOMAIN c.layers[i].keymap
          PROVE  \/ i = entered.layer /\ ~entered.chord /\ key \in entered.codes
                 \/ /\ key \in DOMAIN x.layers[i].keymap
                    /\ x.layers[i].keymap[key] = c.layers[i].keymap[key]
      <4>1. CASE i # MainLayer
        BY <2>10, <2>11, <4>1
      <4>2. CASE i = MainLayer
        BY <2>6, <2>7, <2>10, <2>11, <2>12, <4>2
      <4> QED BY <4>1, <4>2
    <3>2. \A key \in entered.codes : Holds(x.layers, entered, key)
      BY <2>6, <2>7, <2>10, <2>11, <2>12 DEF Holds
    <3> QED BY <3>1, <3>2 DEF Rebinds
  <2>15. InForce(x.layers, Append(rows, entered))
    <3>1. Len(x.layers) = Len(c.layers) /\ entered.layer \in 1 .. Len(c.layers)
      BY <2>3, <2>10, <2>11, <2>12
    <3> QED BY <1>3, <2>12, <2>14, <3>1, InForceAppended
  <2>16. AliasAdded(c, rows, entry, x)
    BY <1>8, <2>2, <2>10, <2>11, <2>13, <2>15 DEF AliasAdded, target
  <2>17. u = x
    BY <2>2, Zenon
  <2> QED BY <2>16, <2>17 DEF u
<1> QED BY <1>6, <1>7, <1>8

-----------------------------------------------------------------------------
(* The invariant.                                                           *)

Passes == {"layers", "entries", "aborted"}
Steps == [pass : Passes, section : Nat \ {0}, entry : Nat \ {0}]
HeldRows == [d : Descs, reset : BOOLEAN]

\* While the first pass over the default file lasts, the layers are those of
\* its sections so far.
Beginning == Len(todo) = 2 /\ step.pass = "layers"
DefaultLayers(layers, s) ==
    /\ s \in 1 .. 8 /\ Len(layers) = IF s = 1 THEN 0 ELSE s - 2
    /\ \A i \in 1 .. Len(layers) : layers[i].name = default_config[i + 1].name
                                   /\ layers[i].type = "normal"

Reading == /\ \/ \E f \in Files : todo = <<default_config, f>> \/ todo = <<f>>
              \/ todo = <<>>
           /\ step \in Steps
LayersHeaded == IF Beginning THEN DefaultLayers(config.layers, step.section)
                ELSE Headed(config.layers)
LogIn(c, rows, n) == rows \in Seq(LogRows) /\ InForce(c.layers, rows) /\ n \in 0 .. Len(rows)
HeldIn(c, keys) ==
    \A code \in DOMAIN keys :
        /\ keys[code] \in HeldRows
        /\ keys[code].reset \/ Sound(c.layers, TablesOf(c), keys[code].d, Len(c.descriptors))
OriginalOf(o, c, rows, n) ==
    /\ ConfigOK(o) /\ Kept(o.layers, c.layers) /\ Len(o.layers) = Len(c.layers)
    /\ InForce(o.layers, SubSeq(rows, 1, n))

IInv == /\ Reading
        /\ ConfigOK(config)
        /\ LayersHeaded
        /\ LogIn(config, log, loaded) /\ binds \in 0 .. MaxBinds
        /\ HeldIn(config, held)
        /\ todo = <<>> => OriginalOf(original_config, config, log, loaded)

\* What every step but a reset leaves of the configuration.
Extends(c, u) == ConfigOK(u) /\ Kept(c.layers, u.layers) /\ Longer(TablesOf(c), TablesOf(u))

-----------------------------------------------------------------------------
(* The default file.                                                        *)

LEMMA SimpleNested == \A n \in 0 .. MaxNesting : Simple \subseteq Expressions[n]
<1> SUFFICES ASSUME NEW n \in 0 .. MaxNesting PROVE Simple \subseteq Expressions[n]
  OBVIOUS
<1>1. CASE n = 0
  BY <1>1, ExpressionsAt
<1>2. CASE n # 0
  <2>1. n \in 1 .. MaxNesting
    BY <1>2, Bounds
  <2> QED BY <2>1, ExpressionsAt, Zenon
<1> QED BY <1>1, <1>2

LEMMA OneInSeq == ASSUME NEW S, NEW a \in S PROVE <<a>> \in Seq(S) /\ <<a>> # <<>>
OBVIOUS

LEMMA SeqElements ==
    ASSUME NEW S, NEW s \in Seq(S) PROVE Len(s) \in Nat /\ \A i \in 1 .. Len(s) : s[i] \in S
OBVIOUS

LEMMA FunctionInSeq ==
    ASSUME NEW S, NEW n \in Nat, NEW f \in [1 .. n -> S] PROVE f \in Seq(S)
OBVIOUS

\* The words of the default file.
DefaultNames == {"shift", "alt", "altgr", "meta", "control"}

LEMMA DefaultWords ==
    /\ DefaultNames \subseteq Text /\ {"", "main", "ctrl", "super", "layer"} \subseteq Text
    /\ \A name \in DefaultNames : lookup_keycode(name) = NoCode
    /\ \A i \in 1 .. 5 : ModifierLayers[i] \in DefaultNames
<1>1. /\ \A i \in 1 .. 5 : ModifierLayers[i] \in DefaultNames
      /\ Range(ModifierLayers) = DefaultNames
  <2>1. /\ DOMAIN ModifierLayers = 1 .. 5
        /\ ModifierLayers[1] = "shift" /\ ModifierLayers[2] = "alt" /\ ModifierLayers[3] = "altgr"
        /\ ModifierLayers[4] = "meta" /\ ModifierLayers[5] = "control"
    BY DEF ModifierLayers
  <2>2. 1 \in 1 .. 5 /\ 2 \in 1 .. 5 /\ 3 \in 1 .. 5 /\ 4 \in 1 .. 5 /\ 5 \in 1 .. 5
    OBVIOUS
  <2>3. \A i \in 1 .. 5 : i = 1 \/ i = 2 \/ i = 3 \/ i = 4 \/ i = 5
    OBVIOUS
  <2>4. \A i \in 1 .. 5 : ModifierLayers[i] \in DefaultNames
    BY <2>1, <2>3 DEF DefaultNames
  <2>5. \A m \in DefaultNames : \E i \in DOMAIN ModifierLayers : ModifierLayers[i] = m
    BY <2>1, <2>2, Zenon DEF DefaultNames
  <2> QED BY <2>1, <2>4, <2>5 DEF Range
<1>2. /\ Range(ModifierLayers) \cup {"", "main", "ctrl", "super", "layer"} \subseteq Text
      /\ \A code \in KeyCodes : Names[code] \cap Range(ModifierLayers) = {}
  BY ConfigsAssumed, Zenon DEF ConfigAssumption
<1>3. ASSUME NEW name \in DefaultNames PROVE lookup_keycode(name) = NoCode
  <2>1. ~ \E c \in KeyCodes : name \in Names[c]
    BY <1>1, <1>2
  <2> QED BY <2>1, Zenon DEF lookup_keycode
<1> QED BY <1>1, <1>2, <1>3

LEMMA LayerCallTyped == \A name \in DefaultNames : LayerCall(name) \in Expressions[MaxNesting]
<1> SUFFICES ASSUME NEW name \in DefaultNames PROVE LayerCall(name) \in Expressions[MaxNesting]
  OBVIOUS
<1> DEFINE part == [kind |-> "name", parts |-> <<name>>]
           args == <<part>>
           e == LayerCall(name)
           n == MaxNesting
<1>1. n \in 1 .. MaxNesting /\ n - 1 \in 0 .. MaxNesting
  <2>1. MaxNesting \in Nat \ {0}
    BY ConfigsAssumed, Zenon DEF ConfigAssumption
  <2> QED BY <2>1
<1>2. part \in Simple
  <2>1. name \in Text
    BY DefaultWords
  <2>2. <<name>> \in Seq(Text)
    BY <2>1, OneInSeq
  <2> QED BY <2>2 DEF Simple
<1> HIDE DEF part
<1>3. part \in Expressions[n - 1]
  BY <1>1, <1>2, SimpleNested
<1>4. args \in Seq(Expressions[n - 1])
  BY <1>3, OneInSeq
<1>5. e = [kind |-> "fn", name |-> "layer", args |-> args]
  BY DEF LayerCall, Fn, part
<1> HIDE DEF args, e, n
<1>6. e \in [kind : {"fn"}, name : Text, args : Seq(Expressions[n - 1])] /\ e.name = "layer" /\ e.args = args
  BY <1>4, <1>5, DefaultWords
<1>7. Rewritten(e) = e
  BY <1>6 DEF Rewritten
<1>8. e \in Expressions[n]
  BY <1>1, <1>4, <1>6, <1>7, ExpressionsAt, Zenon
<1> QED BY <1>8 DEF e, n

\* The layer that the section i of the default file makes.
DefaultLayer(i) == CASE i = 2 -> "main" [] i = 3 -> "control" [] i = 4 -> "shift"
                     [] i = 5 -> "meta" [] i = 6 -> "alt" [] i = 7 -> "altgr"

LEMMA DefaultLayerNames ==
    /\ \A i \in 2 .. 7 : DefaultLayer(i) \in Text
    /\ \A i, j \in 2 .. 7 : DefaultLayer(i) = DefaultLayer(j) => i = j
    /\ DefaultLayer(2) = "main"
    /\ \A m \in DefaultNames : \E i \in 3 .. 7 : DefaultLayer(i) = m
<1>1. /\ DefaultLayer(2) = "main" /\ DefaultLayer(3) = "control" /\ DefaultLayer(4) = "shift"
      /\ DefaultLayer(5) = "meta" /\ DefaultLayer(6) = "alt" /\ DefaultLayer(7) = "altgr"
  BY DEF DefaultLayer
<1>2. \A i \in 2 .. 7 : i = 2 \/ i = 3 \/ i = 4 \/ i = 5 \/ i = 6 \/ i = 7
  OBVIOUS
<1>3. 3 \in 3 .. 7 /\ 4 \in 3 .. 7 /\ 5 \in 3 .. 7 /\ 6 \in 3 .. 7 /\ 7 \in 3 .. 7
  OBVIOUS
<1>4. \A i \in 2 .. 7 : DefaultLayer(i) \in Text
  BY <1>1, <1>2, DefaultWords DEF DefaultNames
<1>5. \A i, j \in 2 .. 7 : DefaultLayer(i) = DefaultLayer(j) => i = j
  BY <1>1, <1>2
<1>6. \A m \in DefaultNames : \E i \in 3 .. 7 : DefaultLayer(i) = m
  BY <1>1, <1>3, Zenon DEF DefaultNames
<1> QED BY <1>1, <1>4, <1>5, <1>6

MainBindings == [i \in 1 .. 5 |-> [key |-> <<ModifierLayers[i]>>, val |-> LayerCall(ModifierLayers[i])]]
DefaultAliases ==
    <<Alias("leftshift", "shift"), Alias("rightshift", "shift"),
      Alias("leftalt", "alt"), Alias("rightalt", "altgr"),
      Alias("leftmeta", "meta"), Alias("rightmeta", "meta"),
      Alias("leftcontrol", "control"), Alias("rightcontrol", "control")>>

LEMMA DefaultAliasesTyped ==
    Len(DefaultAliases) = 8 /\ \A i \in 1 .. 8 : DefaultAliases[i].val \in DefaultNames
<1>1. /\ Len(DefaultAliases) = 8
      /\ DefaultAliases[1].val = "shift" /\ DefaultAliases[2].val = "shift"
      /\ DefaultAliases[3].val = "alt" /\ DefaultAliases[4].val = "altgr"
      /\ DefaultAliases[5].val = "meta" /\ DefaultAliases[6].val = "meta"
      /\ DefaultAliases[7].val = "control" /\ DefaultAliases[8].val = "control"
  BY DEF DefaultAliases, Alias
<1>2. \A i \in 1 .. 8 : i = 1 \/ i = 2 \/ i = 3 \/ i = 4 \/ i = 5 \/ i = 6 \/ i = 7 \/ i = 8
  OBVIOUS
<1> QED BY <1>1, <1>2 DEF DefaultNames

EntryRows == [key : Nonempty(Text), val : Expressions[MaxNesting] \cup {NoValue}]

LEMMA MainBindingsTyped == MainBindings \in Seq(EntryRows) /\ <<>> \in Seq(EntryRows)
<1>1. ASSUME NEW i \in 1 .. 5 PROVE MainBindings[i] \in EntryRows
  <2>1. PICK m \in DefaultNames : ModifierLayers[i] = m
    BY DefaultWords
  <2>2. MainBindings[i] = [key |-> <<m>>, val |-> LayerCall(m)]
    BY <2>1 DEF MainBindings
  <2>3. LayerCall(m) \in Expressions[MaxNesting]
    BY LayerCallTyped
  <2>4. <<m>> \in Nonempty(Text)
    <3>1. m \in Text
      BY DefaultWords
    <3> QED BY <3>1, OneInSeq DEF Nonempty
  <2> QED BY <2>2, <2>3, <2>4 DEF EntryRows
<1>2. MainBindings \in [1 .. 5 -> EntryRows]
  <2>1. MainBindings = [i \in 1 .. 5 |-> MainBindings[i]]
    BY DEF MainBindings
  <2> QED BY <1>1, <2>1
<1>3. 5 \in Nat /\ <<>> \in Seq(EntryRows)
  OBVIOUS
<1> HIDE DEF MainBindings
<1> QED BY <1>2, <1>3, FunctionInSeq

LEMMA SectionFields ==
    ASSUME NEW s, NEW kind, NEW name, NEW type, NEW entries, s = Section(kind, name, type, entries)
    PROVE  s.kind = kind /\ s.name = name /\ s.type = type /\ s.entries = entries /\ s.fits
BY DEF Section

LEMMA DefaultSections ==
    /\ Len(default_config) = 7
    /\ default_config[1].kind = "aliases" /\ default_config[1].entries = DefaultAliases
    /\ default_config[2].entries = MainBindings
    /\ \A i \in 3 .. 7 : default_config[i].entries = <<>>
    /\ \A i \in 2 .. 7 : /\ default_config[i].kind = "layer"
                         /\ default_config[i].name = <<DefaultLayer(i)>>
                         /\ default_config[i].fits
    /\ \A i \in 2 .. 7 : \/ default_config[i].type = NoType
                         \/ \E m \in Text : default_config[i].type = ModsType({m})
<1> DEFINE Is(i, name, type, entries) == /\ default_config[i].kind = "layer"
                                         /\ default_config[i].name = name
                                         /\ default_config[i].type = type
                                         /\ default_config[i].entries = entries
                                         /\ default_config[i].fits
<1>1. /\ Len(default_config) = 7
      /\ default_config[1] = Section("aliases", <<>>, NoType, DefaultAliases)
      /\ default_config[2] = Section("layer", <<"main">>, NoType, MainBindings)
      /\ default_config[3] = Section("layer", <<"control">>, ModsType({"ctrl"}), <<>>)
      /\ default_config[4] = Section("layer", <<"shift">>, ModsType({"shift"}), <<>>)
      /\ default_config[5] = Section("layer", <<"meta">>, ModsType({"super"}), <<>>)
      /\ default_config[6] = Section("layer", <<"alt">>, ModsType({"alt"}), <<>>)
      /\ default_config[7] = Section("layer", <<"altgr">>, ModsType({"altgr"}), <<>>)
  BY DEF default_config, DefaultAliases, MainBindings
<1>2. default_config[1].kind = "aliases" /\ default_config[1].entries = DefaultAliases
  BY <1>1, SectionFields
<1>3. Is(2, <<"main">>, NoType, MainBindings)
  BY <1>1, SectionFields
<1>4. Is(3, <<"control">>, ModsType({"ctrl"}), <<>>)
  BY <1>1, SectionFields
<1>5. Is(4, <<"shift">>, ModsType({"shift"}), <<>>)
  BY <1>1, SectionFields
<1>6. Is(5, <<"meta">>, ModsType({"super"}), <<>>)
  BY <1>1, SectionFields
<1>7. Is(6, <<"alt">>, ModsType({"alt"}), <<>>)
  BY <1>1, SectionFields
<1>8. Is(7, <<"altgr">>, ModsType({"altgr"}), <<>>)
  BY <1>1, SectionFields
<1>9. /\ DefaultLayer(2) = "main" /\ DefaultLayer(3) = "control" /\ DefaultLayer(4) = "shift"
      /\ DefaultLayer(5) = "meta" /\ DefaultLayer(6) = "alt" /\ DefaultLayer(7) = "altgr"
  BY DEF DefaultLayer
<1>10. "ctrl" \in Text /\ "shift" \in Text /\ "super" \in Text /\ "alt" \in Text /\ "altgr" \in Text
  BY DefaultWords DEF DefaultNames
<1>11. /\ \A i \in 2 .. 7 : i = 2 \/ i = 3 \/ i = 4 \/ i = 5 \/ i = 6 \/ i = 7
       /\ \A i \in 3 .. 7 : i = 3 \/ i = 4 \/ i = 5 \/ i = 6 \/ i = 7
  OBVIOUS
<1>12. \A i \in 3 .. 7 : default_config[i].entries = <<>>
  BY <1>4, <1>5, <1>6, <1>7, <1>8, <1>11
<1>13. \A i \in 2 .. 7 : /\ default_config[i].kind = "layer" /\ default_config[i].name = <<DefaultLayer(i)>>
                         /\ default_config[i].fits
  BY <1>3, <1>4, <1>5, <1>6, <1>7, <1>8, <1>9, <1>11
<1>14. \A i \in 2 .. 7 : \/ default_config[i].type = NoType
                         \/ \E m \in Text : default_config[i].type = ModsType({m})
  BY <1>3, <1>4, <1>5, <1>6, <1>7, <1>8, <1>10, <1>11
<1> QED BY <1>1, <1>2, <1>3, <1>12, <1>13, <1>14

LEMMA DefaultTypes ==
    \A i \in 2 .. 7 : default_config[i].type \in Types /\ default_config[i].type.kind # "layout"
<1>1. NoType \in Types /\ NoType.kind # "layout"
  BY DEF NoType, Types
<1>2. ASSUME NEW m \in Text PROVE ModsType({m}) \in Types /\ ModsType({m}).kind # "layout"
  BY DEF ModsType, Types
<1> QED BY <1>1, <1>2, DefaultSections

LEMMA DefaultFits ==
    /\ FileFits(default_config)
    /\ \A i \in 1 .. Len(default_config[1].entries) :
          lookup_keycode(default_config[1].entries[i].val) = NoCode
<1>1. SectionFits(default_config[1])
  <2>1. \A i \in 1 .. 8 : DefaultAliases[i].val \in Text
    BY DefaultAliasesTyped, DefaultWords
  <2> QED BY <2>1, DefaultSections, DefaultAliasesTyped DEF SectionFits
<1>2. ASSUME NEW i \in 2 .. 7 PROVE SectionFits(default_config[i])
  <2>1. default_config[i].kind = "layer" /\ default_config[i].name = <<DefaultLayer(i)>>
    BY DefaultSections
  <2>2. <<DefaultLayer(i)>> \in Nonempty(Text)
    <3>1. DefaultLayer(i) \in Text
      BY DefaultLayerNames
    <3> QED BY <3>1, OneInSeq DEF Nonempty
  <2>3. default_config[i].entries \in Seq(EntryRows)
    <3>1. i = 2 \/ i \in 3 .. 7
      OBVIOUS
    <3> QED BY <3>1, DefaultSections, MainBindingsTyped, Zenon
  <2>4. default_config[i].type \in Types
    BY DefaultTypes
  <2> QED BY <2>1, <2>2, <2>3, <2>4 DEF SectionFits, EntryRows
<1>3. Len(default_config) = 7 /\ \A i \in 1 .. 7 : i = 1 \/ i \in 2 .. 7
  BY DefaultSections
<1>4. FileFits(default_config)
  BY <1>1, <1>2, <1>3 DEF FileFits
<1>5. /\ default_config[1].entries = DefaultAliases /\ Len(DefaultAliases) = 8
      /\ \A i \in 1 .. 8 : DefaultAliases[i].val \in DefaultNames
  BY DefaultSections, DefaultAliasesTyped
<1> QED BY <1>4, <1>5, DefaultWords

\* Every file that is read has the form of a file.
LEMMA FilesFit == \A f \in Files : FileFits(f)
<1> SUFFICES ASSUME NEW f \in Files PROVE FileFits(f)
  OBVIOUS
<1>1. Len(f) \in Nat /\ \A i \in 1 .. Len(f) : IsSection(f[i])
  BY ConfigsAssumed, Zenon DEF ConfigAssumption
<1>2. ASSUME NEW s, IsSection(s) PROVE SectionFits(s)
  <2>1. CASE s.kind = "aliases"
    <3>1. s.entries \in Seq([key : Text, val : Text, fits : BOOLEAN])
      BY <1>2, <2>1 DEF IsSection
    <3>2. Len(s.entries) \in Nat /\ \A i \in 1 .. Len(s.entries) : s.entries[i] \in [key : Text, val : Text, fits : BOOLEAN]
      BY <3>1, SeqElements
    <3>3. \A i \in 1 .. Len(s.entries) : s.entries[i].val \in Text
      BY <3>2
    <3> QED BY <2>1, <3>2, <3>3 DEF SectionFits
  <2>2. CASE s.kind # "aliases"
    BY <1>2, <2>2 DEF IsSection, SectionFits
  <2> QED BY <2>1, <2>2
<1> QED BY <1>1, <1>2 DEF FileFits

-----------------------------------------------------------------------------
(* The parts of the invariant.                                              *)

LEMMA ExtendsSame == ASSUME NEW c, ConfigOK(c) PROVE Extends(c, c)
<1>1. c.layers \in Seq(LayerRows) /\ TablesOf(c) \in RowTables
  BY DEF ConfigOK, LayersOK
<1> QED BY <1>1, KeptSame, LongerSame DEF Extends

LEMMA HeldKept ==
    ASSUME NEW c, ConfigOK(c), NEW u, Extends(c, u), NEW keys, HeldIn(c, keys)
    PROVE  HeldIn(u, keys)
<1> DEFINE t == TablesOf(c)
           v == TablesOf(u)
<1>1. /\ c.layers \in Seq(LayerRows) /\ u.layers \in Seq(LayerRows) /\ t \in RowTables /\ v \in RowTables
      /\ Kept(c.layers, u.layers) /\ Longer(t, v)
      /\ t.descriptors = c.descriptors /\ v.descriptors = u.descriptors
  BY DEF Extends, ConfigOK, LayersOK, TablesOf
<1> HIDE DEF t, v
<1>2. /\ Len(t.descriptors) \in Nat /\ Len(v.descriptors) \in Nat
      /\ Len(t.descriptors) <= Len(v.descriptors)
  BY <1>1, LongerLengths
<1>3. ASSUME NEW d, Sound(c.layers, t, d, Len(c.descriptors))
      PROVE  Sound(u.layers, v, d, Len(u.descriptors))
  BY <1>1, <1>2, <1>3, SoundKept
<1> QED BY <1>3 DEF HeldIn, t, v

LEMMA LogKept ==
    ASSUME NEW c, ConfigOK(c), NEW u, Extends(c, u),
           \A i \in 1 .. Len(c.layers) : u.layers[i].keymap = c.layers[i].keymap,
           NEW rows, NEW n, LogIn(c, rows, n)
    PROVE  LogIn(u, rows, n)
<1>1. Len(c.layers) \in Nat /\ Len(u.layers) \in Nat /\ Len(c.layers) <= Len(u.layers)
  BY LayersShape DEF Extends, ConfigOK, LayersOK, Kept
<1>2. rows \in Seq(LogRows) /\ InForce(c.layers, rows) /\ n \in 0 .. Len(rows)
  BY DEF LogIn
<1>3. InForce(u.layers, rows)
  BY <1>1, <1>2, InForceKept
<1> QED BY <1>2, <1>3 DEF LogIn

LEMMA OriginalKept ==
    ASSUME NEW o, NEW c, ConfigOK(c), NEW u, Extends(c, u), Len(u.layers) = Len(c.layers),
           NEW rows \in Seq(LogRows), NEW row \in LogRows, NEW n \in 0 .. Len(rows),
           OriginalOf(o, c, rows, n)
    PROVE  OriginalOf(o, u, rows, n) /\ OriginalOf(o, u, Append(rows, row), n)
<1>1. /\ o.layers \in Seq(LayerRows) /\ c.layers \in Seq(LayerRows) /\ u.layers \in Seq(LayerRows)
  BY DEF OriginalOf, Extends, ConfigOK, LayersOK
<1>2. Kept(o.layers, u.layers)
  BY <1>1, KeptTrans DEF OriginalOf, Extends
<1>3. SubSeq(Append(rows, row), 1, n) = SubSeq(rows, 1, n)
  OBVIOUS
<1> QED BY <1>2, <1>3 DEF OriginalOf

\* What is left to read.
LEMMA Pairs ==
    ASSUME NEW a, NEW b
    PROVE  /\ <<a, b>> # <<>> /\ Len(<<a, b>>) = 2 /\ Head(<<a, b>>) = a /\ Tail(<<a, b>>) = <<b>>
           /\ <<b>> # <<>> /\ Len(<<b>>) = 1 /\ Head(<<b>>) = b /\ Tail(<<b>>) = <<>> /\ Len(<<>>) = 0
OBVIOUS

LEMMA FilesLeft ==
    ASSUME Reading
    PROVE  /\ todo = <<>> => Len(todo) = 0
           /\ todo # <<>> => /\ FileFits(Head(todo))
                             /\ \/ Len(todo) = 2 /\ Head(todo) = default_config
                                   /\ \E f \in Files : Tail(todo) = <<f>>
                                \/ Len(todo) = 1 /\ Tail(todo) = <<>>
<1>1. todo = <<>> \/ \E f \in Files : todo = <<default_config, f>> \/ todo = <<f>>
  BY DEF Reading
<1>2. CASE todo = <<>>
  BY <1>2
<1>3. CASE \E f \in Files : todo = <<default_config, f>> \/ todo = <<f>>
  <2>1. PICK f \in Files : todo = <<default_config, f>> \/ todo = <<f>>
    BY <1>3
  <2> DEFINE d == default_config
  <2> HIDE DEF d
  <2>2. CASE todo = <<d, f>>
    <3>1. todo # <<>> /\ Len(todo) = 2 /\ Head(todo) = d /\ Tail(todo) = <<f>>
      BY <2>2, Pairs
    <3>2. FileFits(d)
      BY DefaultFits DEF d
    <3> QED BY <3>1, <3>2 DEF d
  <2>3. CASE todo = <<f>>
    <3>1. todo # <<>> /\ Len(todo) = 1 /\ Head(todo) = f /\ Tail(todo) = <<>>
      BY <2>3, Pairs
    <3> QED BY <3>1, FilesFit
  <2> QED BY <2>1, <2>2, <2>3 DEF d
<1> QED BY <1>1, <1>2, <1>3

LEMMA StepChanged ==
    ASSUME NEW s \in Steps, NEW k \in Nat \ {0}
    PROVE  /\ [s EXCEPT !.section = k] \in Steps
           /\ [s EXCEPT !.section = k].pass = s.pass /\ [s EXCEPT !.section = k].section = k
           /\ [s EXCEPT !.entry = k] \in Steps
           /\ [s EXCEPT !.entry = k].pass = s.pass /\ [s EXCEPT !.entry = k].section = s.section
           /\ [s EXCEPT !.section = k, !.entry = 1] \in Steps
           /\ [s EXCEPT !.section = k, !.entry = 1].pass = s.pass
           /\ [s EXCEPT !.section = k, !.entry = 1].section = k
<1>1. /\ [s EXCEPT !.section = k] \in Steps
      /\ [s EXCEPT !.section = k].pass = s.pass /\ [s EXCEPT !.section = k].section = k
  BY DEF Steps
<1>2. /\ [s EXCEPT !.entry = k] \in Steps
      /\ [s EXCEPT !.entry = k].pass = s.pass /\ [s EXCEPT !.entry = k].section = s.section
  BY DEF Steps
<1>3. [s EXCEPT !.section = k, !.entry = 1] \in Steps
  <2> DEFINE P == Nat \ {0}
  <2>1. 1 \in P /\ k \in P
    OBVIOUS
  <2>2. s \in [pass : Passes, section : P, entry : P]
    BY DEF Steps
  <2> HIDE DEF P
  <2>3. [s EXCEPT !.section = k, !.entry = 1] \in [pass : Passes, section : P, entry : P]
    BY <2>1, <2>2
  <2> QED BY <2>3 DEF Steps, P
<1>4. /\ [s EXCEPT !.section = k, !.entry = 1].pass = s.pass
      /\ [s EXCEPT !.section = k, !.entry = 1].section = k
  BY DEF Steps
<1> QED BY <1>1, <1>2, <1>3, <1>4

LEMMA StepTyped ==
    ASSUME NEW s \in Steps
    PROVE  /\ s.pass \in Passes /\ s.section \in Nat \ {0} /\ s.entry \in Nat \ {0}
           /\ [s EXCEPT !.section = @ + 1] \in Steps
           /\ [s EXCEPT !.section = @ + 1].pass = s.pass
           /\ [s EXCEPT !.section = @ + 1].section = s.section + 1
           /\ [s EXCEPT !.entry = @ + 1] \in Steps
           /\ [s EXCEPT !.entry = @ + 1].pass = s.pass
           /\ [s EXCEPT !.entry = @ + 1].section = s.section
           /\ [s EXCEPT !.section = @ + 1, !.entry = 1] \in Steps
           /\ [s EXCEPT !.section = @ + 1, !.entry = 1].pass = s.pass
           /\ [s EXCEPT !.section = @ + 1, !.entry = 1].section = s.section + 1
<1>1. /\ s.pass \in Passes /\ s.section \in Nat \ {0} /\ s.entry \in Nat \ {0}
  BY DEF Steps
<1>2. s.section + 1 \in Nat \ {0} /\ s.entry + 1 \in Nat \ {0}
  BY <1>1
<1> QED BY <1>1, <1>2, StepChanged, Zenon

LEMMA StartTyped ==
    ASSUME NEW pass \in Passes
    PROVE  Start(pass) \in Steps /\ Start(pass).pass = pass /\ Start(pass).section = 1
BY DEF Start, Steps

LEMMA PassesAre == "layers" \in Passes /\ "entries" \in Passes /\ "aborted" \in Passes
BY DEF Passes

\* The section that is read, and its entries.
LEMMA CurrentFits ==
    ASSUME Reading, NEW pass, AtSection(pass)
    PROVE  /\ SectionFits(Current) /\ todo # <<>> /\ step.pass = pass
           /\ Len(todo) = 2 => step.section \in 1 .. 7 /\ Current = default_config[step.section]
           /\ step.entry \in Nat \ {0} /\ step.section \in Nat \ {0} /\ step \in Steps
<1>1. /\ todo # <<>> /\ step.pass = pass /\ step.section <= Len(Head(todo)) /\ step \in Steps
  BY DEF AtSection, Reading
<1>2. step.section \in Nat \ {0} /\ step.entry \in Nat \ {0}
  BY <1>1, StepTyped
<1>3. FileFits(Head(todo)) /\ (Len(todo) = 2 => Head(todo) = default_config)
  <2>1. 1 # 2
    OBVIOUS
  <2> QED BY <1>1, <2>1, FilesLeft
<1>4. Len(Head(todo)) \in Nat /\ step.section \in 1 .. Len(Head(todo))
  BY <1>1, <1>2, <1>3 DEF FileFits
<1>5. SectionFits(Current)
  BY <1>3, <1>4 DEF FileFits, Current
<1>6. Len(default_config) = 7
  BY DefaultSections
<1> QED BY <1>1, <1>2, <1>3, <1>4, <1>5, <1>6 DEF Current

\* A layer section of the default file always makes its layer.
LEMMA DefaultLayerAdded ==
    ASSUME NEW c, ConfigOK(c), NEW s \in 2 .. 7, DefaultLayers(c.layers, s)
    PROVE  DefaultLayers(AddSection(c, default_config[s]).layers, s + 1)
<1> DEFINE sec == default_config[s]
           n == Len(c.layers)
           new == new_layer(c, sec)
           u == AddSection(c, sec)
<1>1. /\ n = s - 2 /\ n \in Nat /\ c.layers \in Seq(LayerRows) /\ DOMAIN c.layers = 1 .. n
  BY LayersShape DEF DefaultLayers, ConfigOK, LayersOK
<1>2. /\ sec.kind = "layer" /\ sec.name = <<DefaultLayer(s)>> /\ Len(sec.name) = 1
      /\ sec.type \in Types /\ sec.type.kind # "layout" /\ sec.fits
  <2>1. sec.kind = "layer" /\ sec.name = <<DefaultLayer(s)>> /\ sec.fits
    BY DefaultSections
  <2>2. sec.type \in Types /\ sec.type.kind # "layout"
    BY DefaultTypes
  <2>3. Len(<<DefaultLayer(s)>>) = 1
    OBVIOUS
  <2> QED BY <2>1, <2>2, <2>3, Zenon
<1>3. ASSUME NEW i \in 1 .. n PROVE c.layers[i].name # sec.name
  <2>1. i + 1 \in 2 .. 7 /\ i + 1 # s
    BY <1>1
  <2>2. c.layers[i].name = default_config[i + 1].name
    BY DEF DefaultLayers
  <2>3. c.layers[i].name = <<DefaultLayer(i + 1)>>
    BY <2>1, <2>2, DefaultSections
  <2>4. DefaultLayer(i + 1) # DefaultLayer(s)
    BY <2>1, DefaultLayerNames
  <2> QED BY <1>2, <2>3, <2>4
<1>4. config_get_layer_index(c, sec.name) = 0
  <2> DEFINE i == config_get_layer_index(c, sec.name)
  <2>1. i # 0 => i \in 1 .. n /\ c.layers[i].name = sec.name
    BY <1>1, LayerIndex
  <2> HIDE DEF i
  <2>2. i = 0
    BY <1>3, <2>1
  <2> QED BY <2>2 DEF i
<1>5. ~(n >= MaxLayers)
  BY <1>1, Limits
<1>6. new.ok /\ new.layer.name = sec.name /\ new.layer.type = "normal"
  <2>1. ~(Len(sec.name) > 1)
    BY <1>2
  <2>2. new.ok /\ new.layer = CASE sec.type.kind = "layout" -> [NewLayer(sec) EXCEPT !.type = "layout"]
                              [] sec.type.kind = "mods"   -> [NewLayer(sec) EXCEPT !.mods = sec.type.mods]
                              [] OTHER -> NewLayer(sec)
    <3> HIDE DEF sec
    <3> QED BY <2>1 DEF new_layer
  <2> HIDE DEF sec, new
  <2>3. new.layer = [NewLayer(sec) EXCEPT !.mods = sec.type.mods] \/ new.layer = NewLayer(sec)
    BY <1>2, <2>2
  <2>4. /\ NewLayer(sec).name = sec.name /\ NewLayer(sec).type = "normal"
        /\ [NewLayer(sec) EXCEPT !.mods = sec.type.mods].name = sec.name
        /\ [NewLayer(sec) EXCEPT !.mods = sec.type.mods].type = "normal"
    BY DEF NewLayer, EmptyLayer
  <2> QED BY <2>2, <2>3, <2>4
<1>7. u.layers = Append(c.layers, new.layer)
  <2>1. u = config_add_layer(c, sec)
    BY <1>2 DEF AddSection
  <2>2. u = WithLayers(c, Append(c.layers, new.layer))
    <3> HIDE DEF sec, u, n
    <3>1. ~(~sec.fits \/ config_get_layer_index(c, sec.name) # 0 \/ Len(c.layers) >= MaxLayers \/ ~new.ok)
      BY <1>2, <1>4, <1>5, <1>6 DEF n
    <3> QED BY <2>1, <3>1 DEF config_add_layer, WithLayers
  <2>3. IsRecord(c)
    BY DEF ConfigOK
  <2> HIDE DEF u, new
  <2> QED BY <2>2, <2>3, LayersUpdate
<1> HIDE DEF u, new
<1>8. /\ Len(u.layers) = n + 1 /\ u.layers[n + 1] = new.layer
      /\ \A i \in 1 .. n : u.layers[i] = c.layers[i]
  BY <1>1, <1>7
<1>9. ASSUME NEW i \in 1 .. n + 1
      PROVE  u.layers[i].name = default_config[i + 1].name /\ u.layers[i].type = "normal"
  <2>1. CASE i = n + 1
    <3>1. i + 1 = s
      BY <1>1, <2>1
    <3> QED BY <1>6, <1>8, <2>1, <3>1
  <2>2. CASE i # n + 1
    <3>1. i \in 1 .. n
      BY <1>1, <2>2
    <3> QED BY <1>8, <3>1 DEF DefaultLayers
  <2> QED BY <2>1, <2>2
<1>10. DefaultLayers(u.layers, s + 1)
  BY <1>1, <1>8, <1>9 DEF DefaultLayers
<1> QED BY <1>10 DEF u

LEMMA DefaultHeaded ==
    ASSUME NEW layers \in Seq(LayerRows), DefaultLayers(layers, 8)
    PROVE  Headed(layers)
<1>1. Len(layers) = 6
  BY DEF DefaultLayers
<1>2. \A i \in 1 .. 6 : layers[i].name = <<DefaultLayer(i + 1)>> /\ layers[i].type = "normal"
  <2> SUFFICES ASSUME NEW i \in 1 .. 6
               PROVE  layers[i].name = <<DefaultLayer(i + 1)>> /\ layers[i].type = "normal"
    OBVIOUS
  <2>1. i + 1 \in 2 .. 7
    OBVIOUS
  <2>2. layers[i].name = default_config[i + 1].name /\ layers[i].type = "normal"
    BY <1>1 DEF DefaultLayers
  <2> QED BY <2>1, <2>2, DefaultSections
<1>3. layers[MainLayer].name = <<"main">>
  <2>1. layers[1].name = <<DefaultLayer(2)>>
    BY <1>2
  <2> QED BY <2>1, DefaultLayerNames DEF MainLayer
<1>4. ASSUME NEW m \in {"shift", "alt", "altgr", "meta", "control"}
      PROVE  \E i \in 2 .. 6 : layers[i].name = <<m>> /\ layers[i].type = "normal"
  <2>1. PICK j \in 3 .. 7 : DefaultLayer(j) = m
    BY DefaultLayerNames DEF DefaultNames
  <2>2. j - 1 \in 2 .. 6 /\ j - 1 \in 1 .. 6 /\ (j - 1) + 1 = j
    OBVIOUS
  <2> QED BY <1>2, <2>1, <2>2
<1>5. ASSUME NEW i \in 1 .. 6, NEW j \in 1 .. 6, layers[i].name = layers[j].name
      PROVE  i = j
  <2>1. <<DefaultLayer(i + 1)>> = <<DefaultLayer(j + 1)>>
    BY <1>2, <1>5
  <2>2. DefaultLayer(i + 1) = DefaultLayer(j + 1) /\ i + 1 \in 2 .. 7 /\ j + 1 \in 2 .. 7
    BY <2>1
  <2>3. i + 1 = j + 1
    BY <2>2, DefaultLayerNames
  <2> QED BY <2>3
<1> QED BY <1>1, <1>3, <1>4, <1>5 DEF Headed

-----------------------------------------------------------------------------
(* The actions.  Each keeps the invariant, and all but a reset only extend  *)
(* the configuration.                                                       *)

LEMMA InitHolds == Init => IInv
<1> SUFFICES ASSUME Init PROVE IInv
  OBVIOUS
<1>1. /\ config = EmptyConfig /\ step = Start("layers") /\ held = <<>> /\ log = <<>>
      /\ loaded = 0 /\ binds = 0 /\ \E f \in Files : todo = <<default_config, f>>
  BY DEF Init
<1>2. Reading
  BY <1>1, StartTyped, PassesAre DEF Reading
<1>3. todo # <<>> /\ Len(todo) = 2
  <2> DEFINE d == default_config
  <2>1. \E f : todo = <<d, f>>
    BY <1>1
  <2> HIDE DEF d
  <2> QED BY <2>1, Pairs
<1>4. /\ config.layers = <<>> /\ config.descriptors = <<>> /\ config.macros = <<>>
      /\ config.commands = <<>> /\ config.aliases = [c \in KeyCodes |-> ""]
      /\ IsRecord(config)
  BY <1>1 DEF EmptyConfig, IsRecord, Fields
<1>5. ConfigOK(config)
  <2>1. <<>> \in Seq(LayerRows) /\ <<>> \in Seq(Descs) /\ <<>> \in Seq(Text) /\ Len(<<>>) = 0
    OBVIOUS
  <2>2. /\ 0 <= MaxLayers /\ 0 <= MaxDescriptors /\ 0 <= MaxMacros /\ 0 <= MaxCommands
    BY Limits
  <2>3. TablesOf(config) = [descriptors |-> <<>>, macros |-> <<>>, commands |-> <<>>]
    BY <1>4 DEF TablesOf
  <2>4. TablesOf(config) \in RowTables
    BY <2>1, <2>3 DEF RowTables
  <2>5. config.aliases \in [KeyCodes -> Text]
    BY <1>4, DefaultWords
  <2>6. TablesOK(config.layers, TablesOf(config))
    BY <2>1, <2>2, <2>3 DEF TablesOK
  <2>7. LayersOK(config.layers)
    BY <1>4, <2>1, <2>2 DEF LayersOK
  <2>8. \A l \in 1 .. Len(config.layers) : LayerSound(config.layers, TablesOf(config), l)
    <3>1. Len(config.layers) = 0
      BY <1>4, <2>1
    <3> QED BY <3>1
  <2> QED BY <1>4, <2>4, <2>5, <2>6, <2>7, <2>8 DEF ConfigOK
<1>6. LayersHeaded
  <2>1. Beginning /\ step.section = 1
    BY <1>1, <1>3, StartTyped, PassesAre DEF Beginning
  <2>2. DefaultLayers(config.layers, 1)
    <3>1. Len(config.layers) = 0
      <4>1. Len(<<>>) = 0
        OBVIOUS
      <4> QED BY <1>4, <4>1
    <3>2. 1 \in 1 .. 8 /\ 1 .. 0 = {}
      OBVIOUS
    <3> QED BY <3>1, <3>2 DEF DefaultLayers
  <2> QED BY <2>1, <2>2 DEF LayersHeaded
<1>7. LogIn(config, log, loaded) /\ binds \in 0 .. MaxBinds
  <2>1. MaxBinds \in Nat
    BY ConfigsAssumed, Zenon DEF ConfigAssumption
  <2>2. log \in Seq(LogRows) /\ Len(log) = 0
    BY <1>1
  <2> QED BY <1>1, <2>1, <2>2 DEF LogIn, InForce
<1>8. HeldIn(config, held)
  BY <1>1 DEF HeldIn
<1> QED BY <1>2, <1>3, <1>5, <1>6, <1>7, <1>8 DEF IInv

LEMMA FirstPassHolds == ASSUME IInv, FirstPass PROVE IInv' /\ Extends(config, config')
<1>1. /\ Reading /\ ConfigOK(config) /\ LayersHeaded /\ LogIn(config, log, loaded)
      /\ binds \in 0 .. MaxBinds /\ HeldIn(config, held)
  BY DEF IInv
<1>2. /\ AtSection("layers") /\ Current.kind # "aliases"
      /\ config' = AddSection(config, Current) /\ step' = [step EXCEPT !.section = @ + 1]
      /\ todo' = todo /\ held' = held /\ log' = log /\ loaded' = loaded /\ binds' = binds
  BY DEF FirstPass
<1>3. /\ SectionFits(Current) /\ todo # <<>> /\ step.pass = "layers"
      /\ Len(todo) = 2 => step.section \in 1 .. 7 /\ Current = default_config[step.section]
      /\ step.section \in Nat \ {0} /\ step \in Steps
  BY <1>1, <1>2, CurrentFits
<1>4. step' \in Steps /\ step'.pass = step.pass /\ step'.section = step.section + 1
  BY <1>2, <1>3, StepTyped
<1>5. Reading'
  BY <1>1, <1>2, <1>4 DEF Reading
<1> DEFINE s == Current
           u == config'
<1>6. SectionAdded(config, s, u)
  BY <1>1, <1>2, <1>3, AddSectionGood
<1> HIDE DEF s
<1>7. config.layers \in Seq(LayerRows) /\ Kept(config.layers, config.layers)
      /\ TablesOf(config) \in RowTables /\ Longer(TablesOf(config), TablesOf(config))
  BY <1>1, KeptSame, LongerSame DEF ConfigOK, LayersOK
<1>8. /\ Extends(config, u)
      /\ \/ u.layers = config.layers
         \/ \E row \in LayerRows : /\ u.layers = Append(config.layers, row)
                                   /\ \A i \in 1 .. Len(config.layers) : config.layers[i].name # row.name
  <2>1. CASE s.kind = "layer"
    <3>1. LayerMade(config, s, u)
      BY <1>6, <2>1 DEF SectionAdded
    <3> QED BY <1>7, <3>1 DEF LayerMade, Extends
  <2>2. CASE s.kind # "layer"
    <3>1. ConfigOK(u) /\ u.layers = config.layers /\ TablesOf(u) = TablesOf(config)
      BY <1>6, <2>2 DEF SectionAdded
    <3> QED BY <1>7, <3>1 DEF Extends
  <2> QED BY <2>1, <2>2
<1>9. \A i \in 1 .. Len(config.layers) : u.layers[i].keymap = config.layers[i].keymap
  <2>1. CASE u.layers = config.layers
    BY <2>1
  <2>2. CASE \E row \in LayerRows : u.layers = Append(config.layers, row)
    <3>1. PICK row \in LayerRows : u.layers = Append(config.layers, row)
      BY <2>2
    <3>2. \A i \in 1 .. Len(config.layers) : u.layers[i] = config.layers[i]
      BY <1>7, <3>1
    <3> QED BY <3>2
  <2> QED BY <1>8, <2>1, <2>2
<1>10. LogIn(u, log, loaded) /\ HeldIn(u, held)
  BY <1>1, <1>8, <1>9, LogKept, HeldKept
<1>11. LayersHeaded'
  <2>1. CASE Beginning
    <3>1. /\ step.section \in 1 .. 7 /\ s = default_config[step.section]
          /\ DefaultLayers(config.layers, step.section)
      BY <1>1, <1>3, <2>1 DEF Beginning, LayersHeaded, s
    <3>2. step.section # 1
      BY <1>2, <3>1, DefaultSections DEF s
    <3>3. step.section \in 2 .. 7
      BY <3>1, <3>2
    <3>4. u = AddSection(config, default_config[step.section])
      BY <1>2, <3>1 DEF s
    <3>5. DefaultLayers(u.layers, step.section + 1)
      BY <1>1, <3>1, <3>3, <3>4, DefaultLayerAdded
    <3>6. Beginning'
      BY <1>2, <1>4, <2>1 DEF Beginning
    <3> QED BY <1>4, <3>5, <3>6 DEF LayersHeaded
  <2>2. CASE ~Beginning
    <3>1. Headed(config.layers)
      BY <1>1, <2>2 DEF LayersHeaded
    <3>2. Headed(u.layers)
      BY <1>7, <1>8, <3>1, HeadedAppended
    <3>3. ~Beginning'
      BY <1>2, <1>4, <2>2 DEF Beginning
    <3> QED BY <3>2, <3>3 DEF LayersHeaded
  <2> QED BY <2>1, <2>2
<1>12. ConfigOK(u)
  BY <1>8 DEF Extends
<1> QED BY <1>1, <1>2, <1>3, <1>5, <1>8, <1>10, <1>11, <1>12 DEF IInv

LEMMA ParseAliasHolds == ASSUME IInv, ParseAlias PROVE IInv' /\ Extends(config, config')
<1>1. /\ Reading /\ ConfigOK(config) /\ LayersHeaded /\ LogIn(config, log, loaded)
      /\ binds \in 0 .. MaxBinds /\ HeldIn(config, held)
  BY DEF IInv
<1> DEFINE entry == Current.entries[step.entry]
           u == config'
<1>2. /\ AtSection("layers") /\ Current.kind = "aliases" /\ step.entry <= Len(Current.entries)
      /\ u = AddAlias(config, entry) /\ log' = log \o AliasLog(entry)
      /\ step' = [step EXCEPT !.entry = @ + 1]
      /\ todo' = todo /\ held' = held /\ loaded' = loaded /\ binds' = binds
  BY DEF ParseAlias
<1>3. /\ SectionFits(Current) /\ todo # <<>> /\ step.pass = "layers"
      /\ Len(todo) = 2 => step.section \in 1 .. 7 /\ Current = default_config[step.section]
      /\ step.entry \in Nat \ {0} /\ step \in Steps
  BY <1>1, <1>2, CurrentFits
<1>4. step' \in Steps /\ step'.pass = step.pass /\ step'.section = step.section
  BY <1>2, <1>3, StepTyped
<1>5. Reading' /\ (Beginning' <=> Beginning)
  BY <1>1, <1>2, <1>4 DEF Reading, Beginning
<1>6. /\ Len(Current.entries) \in Nat /\ step.entry \in 1 .. Len(Current.entries)
      /\ entry.val \in Text
  <2>1. Len(Current.entries) \in Nat /\ \A i \in 1 .. Len(Current.entries) : Current.entries[i].val \in Text
    BY <1>2, <1>3 DEF SectionFits
  <2>2. step.entry \in 1 .. Len(Current.entries)
    BY <1>2, <1>3, <2>1
  <2> QED BY <2>1, <2>2
<1>7. Beginning => step.section = 1 /\ lookup_keycode(entry.val) = NoCode
  <2> SUFFICES ASSUME Beginning PROVE step.section = 1 /\ lookup_keycode(entry.val) = NoCode
    OBVIOUS
  <2>1. step.section \in 1 .. 7 /\ Current = default_config[step.section]
    BY <1>3 DEF Beginning
  <2>2. step.section = 1
    <3>1. step.section = 1 \/ step.section \in 2 .. 7
      BY <2>1
    <3> QED BY <1>2, <2>1, <3>1, DefaultSections
  <2> QED BY <1>6, <2>1, <2>2, DefaultFits
<1>8. Len(config.layers) >= 1 \/ lookup_keycode(entry.val) = NoCode
  <2>1. CASE ~Beginning
    <3>1. Len(config.layers) >= 6 /\ Len(config.layers) \in Nat
      BY <1>1, <2>1, LayersShape DEF LayersHeaded, Headed, ConfigOK, LayersOK
    <3> QED BY <3>1
  <2> QED BY <1>7, <2>1
<1>9. log \in Seq(LogRows) /\ InForce(config.layers, log) /\ loaded \in 0 .. Len(log)
  BY <1>1 DEF LogIn
<1> HIDE DEF entry
<1>10. AliasAdded(config, log, entry, u)
  BY <1>1, <1>2, <1>6, <1>8, <1>9, AddAliasGood
<1>11. TablesOf(config) \in RowTables /\ Longer(TablesOf(config), TablesOf(config))
       /\ Len(config.layers) \in Nat
  BY <1>1, LongerSame, LayersShape DEF ConfigOK, LayersOK
<1>12. ConfigOK(u) /\ Extends(config, u)
  BY <1>10, <1>11 DEF AliasAdded, Extends
<1>13. LogIn(u, log', loaded) /\ HeldIn(u, held)
  <2>1. log' \in Seq(LogRows) /\ InForce(u.layers, log') /\ Len(log) <= Len(log')
    BY <1>2, <1>10 DEF AliasAdded
  <2>2. Len(log) \in Nat /\ Len(log') \in Nat
    BY <1>9, <2>1
  <2> QED BY <1>1, <1>9, <1>12, <2>1, <2>2, HeldKept DEF LogIn
<1>14. LayersHeaded'
  <2>1. CASE Beginning
    <3>1. u.layers = config.layers
      BY <1>7, <1>10, <2>1 DEF AliasAdded
    <3> QED BY <1>1, <1>4, <1>5, <2>1, <3>1 DEF LayersHeaded
  <2>2. CASE ~Beginning
    <3>1. Headed(config.layers)
      BY <1>1, <2>2 DEF LayersHeaded
    <3>2. Kept(config.layers, u.layers) /\ Len(u.layers) = Len(config.layers)
      BY <1>10 DEF AliasAdded
    <3>3. Headed(u.layers)
      BY <1>11, <3>1, <3>2, HeadedKept
    <3> QED BY <1>5, <2>2, <3>3 DEF LayersHeaded
  <2> QED BY <2>1, <2>2
<1> QED BY <1>1, <1>2, <1>3, <1>5, <1>12, <1>13, <1>14 DEF IInv

\* Steps that leave the configuration and the log alone.
LEMMA SameConfigHolds ==
    ASSUME IInv, config' = config, log' = log, loaded' = loaded, binds' = binds, held' = held,
           todo' = todo, todo # <<>>, step' \in Steps, LayersHeaded'
    PROVE  IInv' /\ Extends(config, config')
<1>1. Reading'
  BY DEF IInv, Reading
<1> QED BY <1>1, ExtendsSame DEF IInv

\* Only a file of the user has too many ids: the default one has no such section.
LEMMA TooManyIdsHolds == ASSUME IInv, TooManyIdsFound PROVE IInv' /\ Extends(config, config')
<1>1. /\ AtSection("layers") /\ Current.kind = "ids" /\ step' = Start("aborted")
      /\ config' = config /\ todo' = todo /\ held' = held /\ log' = log /\ loaded' = loaded /\ binds' = binds
  BY DEF TooManyIdsFound, IdsDoNotFit
<1>2. Reading /\ LayersHeaded
  BY DEF IInv
<1>3. /\ todo # <<>>
      /\ Len(todo) = 2 => step.section \in 1 .. 7 /\ Current = default_config[step.section]
  BY <1>1, <1>2, CurrentFits
<1>4. ~Beginning
  <2> SUFFICES ASSUME Beginning PROVE FALSE
    OBVIOUS
  <2>1. step.section \in 1 .. 7 /\ default_config[step.section].kind = "ids"
    BY <1>1, <1>3 DEF Beginning
  <2>2. step.section = 1 \/ step.section \in 2 .. 7
    BY <2>1
  <2> QED BY <2>1, <2>2, DefaultSections
<1>5. step' \in Steps /\ step'.pass = "aborted"
  BY <1>1, StartTyped, PassesAre
<1>6. LayersHeaded'
  BY <1>1, <1>2, <1>4, <1>5 DEF LayersHeaded, Beginning
<1> QED BY <1>1, <1>3, <1>5, <1>6, SameConfigHolds

LEMMA EndFirstPassHolds == ASSUME IInv, EndFirstPass PROVE IInv' /\ Extends(config, config')
<1>1. /\ todo # <<>> /\ step.pass = "layers" /\ step.section > Len(Head(todo))
      /\ step' = Start("entries")
      /\ config' = config /\ todo' = todo /\ held' = held /\ log' = log /\ loaded' = loaded /\ binds' = binds
  BY DEF EndFirstPass
<1>2. step' \in Steps /\ step'.pass = "entries"
  BY <1>1, StartTyped, PassesAre
<1>3. Reading /\ LayersHeaded /\ config.layers \in Seq(LayerRows) /\ step.section \in Nat
  <2>1. Reading /\ LayersHeaded /\ config.layers \in Seq(LayerRows)
    BY DEF IInv, ConfigOK, LayersOK
  <2>2. step \in Steps
    BY <2>1 DEF Reading
  <2> QED BY <2>1, <2>2, StepTyped
<1>4. Headed(config.layers)
  <2>1. CASE Beginning
    <3>1. DefaultLayers(config.layers, step.section) /\ step.section \in 1 .. 8
      BY <1>3, <2>1 DEF LayersHeaded, DefaultLayers
    <3>2. Len(Head(todo)) = 7
      <4>1. Len(todo) = 2 /\ 1 # 2
        BY <2>1 DEF Beginning
      <4>2. Head(todo) = default_config
        BY <1>1, <1>3, <4>1, FilesLeft
      <4> QED BY <4>2, DefaultSections
    <3>3. step.section = 8
      <4>1. step.section > 7
        BY <1>1, <3>2
      <4> QED BY <3>1, <4>1
    <3> QED BY <1>3, <3>1, <3>3, DefaultHeaded
  <2>2. CASE ~Beginning
    BY <1>3, <2>2 DEF LayersHeaded
  <2> QED BY <2>1, <2>2
<1>5. LayersHeaded'
  <2>1. ~Beginning'
    BY <1>2 DEF Beginning
  <2> QED BY <1>1, <1>4, <2>1 DEF LayersHeaded
<1> QED BY <1>1, <1>2, <1>5, SameConfigHolds

LEMMA EndSectionHolds == ASSUME IInv, EndSection PROVE IInv' /\ Extends(config, config')
<1>1. /\ \/ AtSection("layers") /\ Current.kind = "aliases" /\ step.entry > Len(Current.entries)
         \/ AtSection("entries") /\ (Current.kind # "layer" \/ step.entry > Len(Current.entries))
      /\ step' = [step EXCEPT !.section = @ + 1, !.entry = 1]
      /\ config' = config /\ todo' = todo /\ held' = held /\ log' = log /\ loaded' = loaded /\ binds' = binds
  BY DEF EndSection
<1>2. Reading /\ LayersHeaded
  BY DEF IInv
<1>3. /\ todo # <<>> /\ step \in Steps
      /\ Len(todo) = 2 => step.section \in 1 .. 7 /\ Current = default_config[step.section]
  BY <1>1, <1>2, CurrentFits
<1>4. step' \in Steps /\ step'.pass = step.pass /\ step'.section = step.section + 1
  BY <1>1, <1>3, StepTyped
<1>5. LayersHeaded'
  <2>1. CASE Beginning
    <3>1. DefaultLayers(config.layers, step.section) /\ step.section \in 1 .. 7
          /\ Current = default_config[step.section] /\ step.pass = "layers"
      BY <1>2, <1>3, <2>1 DEF LayersHeaded, Beginning
    <3>2. Current.kind = "aliases"
      BY <1>1, <3>1 DEF AtSection
    <3>3. step.section = 1
      <4>1. step.section = 1 \/ step.section \in 2 .. 7
        BY <3>1
      <4> QED BY <3>1, <3>2, <4>1, DefaultSections
    <3>4. Len(config.layers) = 0
      BY <3>1, <3>3 DEF DefaultLayers
    <3>5. DefaultLayers(config.layers, 2)
      BY <3>4 DEF DefaultLayers
    <3>6. Beginning' /\ step'.section = 2
      BY <1>1, <1>4, <2>1, <3>3 DEF Beginning
    <3> QED BY <1>1, <3>5, <3>6 DEF LayersHeaded
  <2>2. CASE ~Beginning
    <3>1. ~Beginning'
      BY <1>1, <1>4, <2>2 DEF Beginning
    <3> QED BY <1>1, <1>2, <2>2, <3>1 DEF LayersHeaded
  <2> QED BY <2>1, <2>2
<1> QED BY <1>1, <1>3, <1>4, <1>5, SameConfigHolds

LEMMA EndFileHolds == ASSUME IInv, EndFile PROVE IInv' /\ Extends(config, config')
<1>1. /\ todo # <<>> /\ step.pass = "entries" /\ todo' = Tail(todo) /\ step' = Start("layers")
      /\ original_config' = IF todo' = <<>> THEN config ELSE original_config
      /\ loaded' = Len(log) /\ config' = config /\ held' = held /\ log' = log /\ binds' = binds
  BY DEF EndFile
<1>2. /\ Reading /\ ConfigOK(config) /\ LayersHeaded /\ LogIn(config, log, loaded)
      /\ binds \in 0 .. MaxBinds /\ HeldIn(config, held)
  BY DEF IInv
<1>3. /\ todo' = <<>> \/ \E f \in Files : todo' = <<f>>
      /\ Len(todo') # 2
  <2>1. todo' = <<>> \/ \E f \in Files : todo' = <<f>>
    BY <1>1, <1>2, FilesLeft
  <2>2. CASE todo' = <<>>
    BY <2>2
  <2>3. CASE \E f \in Files : todo' = <<f>>
    <3>1. Len(todo') = 1
      BY <2>3, Pairs
    <3> QED BY <2>1, <3>1
  <2> QED BY <2>1, <2>2, <2>3
<1>4. Reading'
  BY <1>1, <1>3, StartTyped, PassesAre DEF Reading
<1>5. LayersHeaded'
  <2>1. ~Beginning /\ ~Beginning'
    BY <1>1, <1>3 DEF Beginning
  <2> QED BY <1>1, <1>2, <2>1 DEF LayersHeaded
<1>6. /\ log \in Seq(LogRows) /\ InForce(config.layers, log) /\ Len(log) \in Nat
      /\ SubSeq(log, 1, Len(log)) = log
  <2>1. log \in Seq(LogRows) /\ InForce(config.layers, log)
    BY <1>2 DEF LogIn
  <2> QED BY <2>1
<1>7. LogIn(config', log', loaded')
  BY <1>1, <1>6 DEF LogIn
<1>8. todo' = <<>> => OriginalOf(original_config', config', log', loaded')
  <2>1. Kept(config.layers, config.layers)
    BY <1>2, KeptSame DEF ConfigOK, LayersOK
  <2>2. OriginalOf(config, config, log, Len(log))
    BY <1>2, <1>6, <2>1 DEF OriginalOf
  <2> QED BY <1>1, <2>2
<1> QED BY <1>1, <1>2, <1>4, <1>5, <1>7, <1>8, ExtendsSame DEF IInv

LEMMA AddEntryHolds == ASSUME IInv, AddEntry PROVE IInv' /\ Extends(config, config')
<1> DEFINE entry == Current.entries[step.entry]
           b == [layer |-> Current.name, key |-> entry.key, val |-> entry.val]
           added == config_add_entry(config, b)
<1>1. /\ AtSection("entries") /\ Current.kind = "layer" /\ step.entry <= Len(Current.entries)
      /\ config' = IF entry.val = NoValue THEN config ELSE added.config
      /\ log' = IF entry.val # NoValue /\ added.ok
                THEN Append(log, LogOf(config, b, added.d)) ELSE log
      /\ step' = [step EXCEPT !.entry = @ + 1]
      /\ todo' = todo /\ held' = held /\ loaded' = loaded /\ binds' = binds
  BY Zenon DEF AddEntry
<1>2. /\ Reading /\ ConfigOK(config) /\ LayersHeaded /\ LogIn(config, log, loaded)
      /\ binds \in 0 .. MaxBinds /\ HeldIn(config, held)
  BY DEF IInv
<1>3. /\ SectionFits(Current) /\ todo # <<>> /\ step.pass = "entries"
      /\ step.entry \in Nat \ {0} /\ step \in Steps
  BY <1>1, <1>2, CurrentFits
<1>4. step' \in Steps /\ step'.pass = step.pass
  BY <1>1, <1>3, StepTyped
<1>5. Reading' /\ ~Beginning /\ ~Beginning'
  BY <1>1, <1>2, <1>3, <1>4 DEF Reading, Beginning
<1>6. Headed(config.layers)
  BY <1>2, <1>5 DEF LayersHeaded
<1>7. entry.val # NoValue => b \in BindingRows
  <2>1. Current.name \in Nonempty(Text) /\ Current.entries \in Seq(EntryRows)
    BY <1>1, <1>3 DEF SectionFits, EntryRows
  <2>2. Len(Current.entries) \in Nat
        /\ \A i \in 1 .. Len(Current.entries) : Current.entries[i] \in EntryRows
    BY <2>1, SeqElements
  <2>3. step.entry \in 1 .. Len(Current.entries)
    BY <1>1, <1>3, <2>2
  <2>4. entry \in EntryRows
    BY <2>2, <2>3
  <2>5. Current.name \in Seq(Text)
    BY <2>1 DEF Nonempty
  <2> HIDE DEF entry
  <2>6. entry.key \in Nonempty(Text) /\ entry.val \in Expressions[MaxNesting] \cup {NoValue}
    BY <2>4 DEF EntryRows
  <2> QED BY <2>5, <2>6 DEF BindingRows
<1>8. entry.val # NoValue => EntryAdded(config, b, added)
  <2> HIDE DEF b, entry
  <2> QED BY <1>2, <1>6, <1>7, AddEntryGood
<1>9. LogIn(config, log, loaded) => log \in Seq(LogRows) /\ InForce(config.layers, log) /\ loaded \in 0 .. Len(log)
  BY DEF LogIn
<1>10. entry.val # NoValue /\ added.ok =>
          /\ LogOf(config, b, added.d) \in LogRows
          /\ InForce(added.config.layers, Append(log, LogOf(config, b, added.d)))
  <2> HIDE DEF b, added, entry
  <2> QED BY <1>2, <1>7, <1>8, <1>9, EntryLogged
<1> DEFINE row == LogOf(config, b, added.d)
           missing == entry.val = NoValue
<1> HIDE DEF entry, b, added, row
<1>11. \/ log' = log /\ config' = config
       \/ ~missing /\ log' = log /\ config' = added.config /\ ~added.ok
       \/ ~missing /\ log' = Append(log, row) /\ config' = added.config /\ added.ok
  BY <1>1, Zenon DEF row
<1>12. Extends(config, config') /\ Len(config'.layers) = Len(config.layers)
  <2>1. ~missing => Extends(config, added.config) /\ Len(added.config.layers) = Len(config.layers)
    BY <1>8 DEF EntryAdded, Extends
  <2> QED BY <1>2, <1>11, <2>1, ExtendsSame
<1>13. HeldIn(config', held)
  BY <1>2, <1>12, HeldKept
<1>14. LogIn(config', log', loaded)
  <2>1. CASE log' = log /\ config' = config
    BY <1>2, <2>1
  <2>2. CASE ~missing /\ log' = log /\ config' = added.config /\ ~added.ok
    <3>1. config'.layers = config.layers
      BY <1>8, <2>2 DEF EntryAdded
    <3> QED BY <1>2, <2>2, <3>1 DEF LogIn
  <2>3. CASE ~missing /\ log' = Append(log, row) /\ config' = added.config /\ added.ok
    <3>1. row \in LogRows /\ InForce(config'.layers, log')
      BY <1>10, <2>3 DEF row
    <3>2. log' \in Seq(LogRows) /\ loaded \in 0 .. Len(log')
      BY <1>2, <1>9, <2>3, <3>1
    <3> QED BY <3>1, <3>2 DEF LogIn
  <2> QED BY <1>11, <2>1, <2>2, <2>3
<1>15. ConfigOK(config') /\ Headed(config'.layers)
  <2>1. ConfigOK(config') /\ Kept(config.layers, config'.layers) /\ Len(config.layers) \in Nat
    BY <1>2, <1>12, LayersShape DEF Extends, ConfigOK, LayersOK
  <2> QED BY <1>6, <1>12, <2>1, HeadedKept
<1>16. LayersHeaded'
  BY <1>5, <1>15 DEF LayersHeaded
<1>17. IInv'
  BY <1>1, <1>2, <1>3, <1>5, <1>13, <1>14, <1>15, <1>16 DEF IInv
<1> QED BY <1>12, <1>17

\* Once everything is read, every layer of the default file is there.
LEMMA ReadHeaded ==
    ASSUME IInv, todo = <<>>
    PROVE  /\ Headed(config.layers) /\ ~Beginning
           /\ OriginalOf(original_config, config, log, loaded)
           /\ log \in Seq(LogRows) /\ InForce(config.layers, log) /\ loaded \in 0 .. Len(log)
<1>1. Len(todo) = 0 /\ 0 # 2
  OBVIOUS
<1> QED BY <1>1 DEF IInv, LayersHeaded, Beginning, LogIn

LEMMA BindHolds ==
    ASSUME IInv, Bind
    PROVE  /\ IInv' /\ Extends(config, config')
           /\ log' = log => config'.layers = config.layers /\ config'.aliases = config.aliases
<1>1. /\ todo = <<>> /\ binds < MaxBinds /\ binds' = binds + 1
      /\ original_config' = original_config /\ todo' = todo /\ step' = step /\ held' = held /\ loaded' = loaded
  BY DEF Bind
<1>2. PICK b \in Bindings :
        /\ config' = config_add_entry(config, b).config
        /\ log' = IF config_add_entry(config, b).ok
                  THEN Append(log, LogOf(config, b, config_add_entry(config, b).d)) ELSE log
  BY Zenon DEF Bind
<1> DEFINE added == config_add_entry(config, b)
           row == LogOf(config, b, added.d)
<1>3. /\ Reading /\ ConfigOK(config) /\ LogIn(config, log, loaded)
      /\ binds \in 0 .. MaxBinds /\ HeldIn(config, held)
  BY DEF IInv
<1>4. /\ Headed(config.layers) /\ OriginalOf(original_config, config, log, loaded)
      /\ log \in Seq(LogRows) /\ InForce(config.layers, log) /\ loaded \in 0 .. Len(log) /\ ~Beginning
  BY <1>1, ReadHeaded
<1>5. b \in BindingRows
  <2>1. Bindings \subseteq [layer : Seq(Text), key : Nonempty(Text), val : Expressions[MaxNesting]]
    BY ConfigsAssumed, Zenon DEF ConfigAssumption
  <2> QED BY <2>1 DEF BindingRows
<1>6. EntryAdded(config, b, added)
  BY <1>3, <1>4, <1>5, AddEntryGood
<1>7. added.ok => row \in LogRows /\ InForce(added.config.layers, Append(log, row))
  <2> HIDE DEF added
  <2> QED BY <1>3, <1>4, <1>5, <1>6, EntryLogged DEF row
<1>8. /\ config' = added.config
      /\ added.ok => log' = Append(log, row)
      /\ ~added.ok => log' = log
  BY <1>2, Zenon
<1> HIDE DEF added, row
<1>9. Extends(config, config') /\ Len(config'.layers) = Len(config.layers)
  BY <1>6, <1>8 DEF EntryAdded, Extends
<1>10. HeldIn(config', held)
  BY <1>3, <1>9, HeldKept
<1>11. /\ LogIn(config', log', loaded) /\ OriginalOf(original_config, config', log', loaded)
       /\ log' = log => config'.layers = config.layers /\ config'.aliases = config.aliases
  <2>1. CASE ~added.ok
    <3>1. config'.layers = config.layers /\ config'.aliases = config.aliases /\ log' = log
      BY <1>6, <1>8, <2>1 DEF EntryAdded
    <3>2. LogIn(config', log', loaded)
      BY <1>3, <3>1 DEF LogIn
    <3>3. OriginalOf(original_config, config', log', loaded)
      BY <1>4, <3>1 DEF OriginalOf
    <3> QED BY <3>1, <3>2, <3>3
  <2>2. CASE added.ok
    <3>1. log' = Append(log, row) /\ row \in LogRows /\ InForce(config'.layers, log')
      BY <1>7, <1>8, <2>2
    <3>2. log' \in Seq(LogRows) /\ loaded \in 0 .. Len(log') /\ log' # log
      <4>1. log' \in Seq(LogRows) /\ Len(log') = Len(log) + 1 /\ Len(log) \in Nat
        BY <1>4, <3>1
      <4> QED BY <1>4, <4>1
    <3>3. OriginalOf(original_config, config', log', loaded)
      BY <1>3, <1>4, <1>9, <3>1, OriginalKept
    <3> QED BY <3>1, <3>2, <3>3 DEF LogIn
  <2> QED BY <2>1, <2>2
<1>12. ConfigOK(config') /\ Headed(config'.layers)
  <2>1. ConfigOK(config') /\ Kept(config.layers, config'.layers) /\ Len(config.layers) \in Nat
    BY <1>3, <1>9, LayersShape DEF Extends, ConfigOK, LayersOK
  <2> QED BY <1>4, <1>9, <2>1, HeadedKept
<1>13. Reading' /\ LayersHeaded' /\ binds' \in 0 .. MaxBinds
  <2>1. MaxBinds \in Nat
    BY ConfigsAssumed, Zenon DEF ConfigAssumption
  <2>2. Reading' /\ ~Beginning'
    BY <1>1, <1>3, <1>4 DEF Reading, Beginning
  <2>3. binds' \in 0 .. MaxBinds
    BY <1>1, <1>3, <2>1
  <2> QED BY <1>12, <2>2, <2>3 DEF LayersHeaded
<1>14. IInv'
  BY <1>1, <1>10, <1>11, <1>12, <1>13 DEF IInv
<1> QED BY <1>9, <1>11, <1>14

LEMMA BindResetHolds ==
    ASSUME IInv, BindReset
    PROVE  IInv' /\ Kept(config.layers, config'.layers) /\ config' = original_config
<1>1. /\ todo = <<>> /\ binds < MaxBinds /\ binds' = binds + 1 /\ config' = original_config
      /\ held' = [code \in DOMAIN held |-> [held[code] EXCEPT !.reset = TRUE]]
      /\ log' = SubSeq(log, 1, loaded)
      /\ original_config' = original_config /\ todo' = todo /\ step' = step /\ loaded' = loaded
  BY DEF BindReset
<1>2. Reading /\ ConfigOK(config) /\ binds \in 0 .. MaxBinds /\ HeldIn(config, held)
  BY DEF IInv
<1>3. /\ Headed(config.layers) /\ OriginalOf(original_config, config, log, loaded)
      /\ log \in Seq(LogRows) /\ loaded \in 0 .. Len(log) /\ ~Beginning
  BY <1>1, ReadHeaded
<1>4. /\ ConfigOK(config') /\ Kept(config'.layers, config.layers) /\ Len(config'.layers) = Len(config.layers)
      /\ InForce(config'.layers, log')
  BY <1>1, <1>3 DEF OriginalOf
<1>5. config'.layers \in Seq(LayerRows) /\ config.layers \in Seq(LayerRows) /\ Len(config.layers) \in Nat
  BY <1>2, <1>4, LayersShape DEF ConfigOK, LayersOK
<1>6. Kept(config.layers, config'.layers)
  BY <1>4, <1>5 DEF Kept, SameHeader
<1>7. Headed(config'.layers)
  BY <1>3, <1>4, <1>5, <1>6, HeadedKept
<1>8. log' \in Seq(LogRows) /\ Len(log') = loaded /\ SubSeq(log', 1, loaded) = log'
  BY <1>1, <1>3
<1>9. LogIn(config', log', loaded')
  <2>1. loaded' \in 0 .. Len(log')
    BY <1>1, <1>3, <1>8
  <2> QED BY <1>4, <1>8, <2>1 DEF LogIn
<1>10. HeldIn(config', held')
  <2> SUFFICES ASSUME NEW code \in DOMAIN held' PROVE held'[code] \in HeldRows /\ held'[code].reset
    BY DEF HeldIn
  <2>1. held[code] \in HeldRows /\ held'[code] = [held[code] EXCEPT !.reset = TRUE]
    BY <1>1, <1>2 DEF HeldIn
  <2>2. ASSUME NEW h \in HeldRows PROVE [h EXCEPT !.reset = TRUE] \in HeldRows /\ [h EXCEPT !.reset = TRUE].reset
    BY DEF HeldRows
  <2> QED BY <2>1, <2>2
<1>11. Reading' /\ LayersHeaded' /\ binds' \in 0 .. MaxBinds
  <2>1. MaxBinds \in Nat
    BY ConfigsAssumed, Zenon DEF ConfigAssumption
  <2>2. Reading' /\ ~Beginning'
    BY <1>1, <1>2, <1>3 DEF Reading, Beginning
  <2>3. binds' \in 0 .. MaxBinds
    BY <1>1, <1>2, <2>1
  <2> QED BY <1>7, <2>2, <2>3 DEF LayersHeaded
<1>12. OriginalOf(original_config', config', log', loaded')
  <2>1. Kept(config'.layers, config'.layers)
    BY <1>5, KeptSame
  <2> QED BY <1>1, <1>4, <1>8, <2>1 DEF OriginalOf
<1>13. IInv'
  BY <1>4, <1>9, <1>10, <1>11, <1>12 DEF IInv
<1> QED BY <1>1, <1>6, <1>13

\* Steps that change only which keys are down.
LEMMA KeysHold ==
    ASSUME IInv, UNCHANGED <<config, original_config, todo, step, log, loaded, binds>>,
           HeldIn(config, held')
    PROVE  IInv' /\ Extends(config, config')
<1>1. Reading' /\ LayersHeaded'
  BY DEF IInv, Reading, LayersHeaded, Beginning
<1> QED BY <1>1, ExtendsSame DEF IInv

LEMMA PressHolds == ASSUME IInv, Press PROVE IInv' /\ Extends(config, config')
<1>0. PICK l \in Positions(config.layers) : \E code \in DOMAIN config.layers[l].keymap :
        held' = Overwritten(held, {code}, [d |-> config.layers[l].keymap[code], reset |-> FALSE])
  BY DEF Press
<1>1. PICK code \in DOMAIN config.layers[l].keymap :
        held' = Overwritten(held, {code}, [d |-> config.layers[l].keymap[code], reset |-> FALSE])
  BY <1>0
<1>2. ConfigOK(config) /\ HeldIn(config, held)
  BY DEF IInv
<1> DEFINE d == config.layers[l].keymap[code]
           h == [d |-> d, reset |-> FALSE]
<1>3. d \in Descs /\ Sound(config.layers, TablesOf(config), d, Len(config.descriptors))
  <2>1. l \in 1 .. Len(config.layers)
    BY <1>2, LayersShape DEF Positions, ConfigOK, LayersOK
  <2>2. config.layers[l].keymap \in KeyMaps
        /\ Sound(config.layers, TablesOf(config), d, Len(config.descriptors))
    BY <1>2, <2>1, LayerAt
  <2>3. d \in Descs
    BY <2>2, KeyMapsTyped
  <2> QED BY <2>2, <2>3
<1>4. h \in HeldRows /\ h.d = d
  BY <1>3 DEF HeldRows
<1>5. HeldIn(config, held')
  <2> SUFFICES ASSUME NEW x \in DOMAIN held'
               PROVE  /\ held'[x] \in HeldRows
                      /\ \/ held'[x].reset
                         \/ Sound(config.layers, TablesOf(config), held'[x].d, Len(config.descriptors))
    BY DEF HeldIn
  <2>1. held'[x] = h \/ (x \in DOMAIN held /\ held'[x] = held[x])
    BY <1>1 DEF Overwritten
  <2> HIDE DEF h
  <2> QED BY <1>2, <1>3, <1>4, <2>1 DEF HeldIn
<1> QED BY <1>5, KeysHold DEF Press

LEMMA ReleaseHolds == ASSUME IInv, Release PROVE IInv' /\ Extends(config, config')
<1>1. PICK code \in DOMAIN held : held' = Restrict(held, DOMAIN held \ {code})
  BY DEF Release
<1>2. HeldIn(config, held)
  BY DEF IInv
<1>3. \A x \in DOMAIN held' : x \in DOMAIN held /\ held'[x] = held[x]
  BY <1>1 DEF Restrict
<1>4. HeldIn(config, held')
  BY <1>2, <1>3 DEF HeldIn
<1> QED BY <1>4, KeysHold DEF Release

-----------------------------------------------------------------------------
(* What the invariant says of the properties.                               *)

LEMMA NextHolds ==
    ASSUME IInv, Next
    PROVE  /\ IInv'
           /\ Extends(config, config') \/ (config' = original_config /\ Kept(config.layers, config'.layers))
<1>1. CASE FirstPass
  BY <1>1, FirstPassHolds
<1>2. CASE ParseAlias
  BY <1>2, ParseAliasHolds
<1>3. CASE EndFirstPass
  BY <1>3, EndFirstPassHolds
<1>4. CASE AddEntry
  BY <1>4, AddEntryHolds
<1>5. CASE EndSection
  BY <1>5, EndSectionHolds
<1>6. CASE EndFile
  BY <1>6, EndFileHolds
<1>7. CASE Bind
  BY <1>7, BindHolds
<1>8. CASE BindReset
  BY <1>8, BindResetHolds
<1>9. CASE Press
  BY <1>9, PressHolds
<1>10. CASE Release
  BY <1>10, ReleaseHolds
<1>11. CASE TooManyIdsFound
  BY <1>11, TooManyIdsHolds
<1> QED BY <1>1, <1>2, <1>3, <1>4, <1>5, <1>6, <1>7, <1>8, <1>9, <1>10, <1>11 DEF Next

LEMMA IInvStep == IInv /\ [Next]_vars => IInv'
<1> SUFFICES ASSUME IInv, [Next]_vars PROVE IInv'
  OBVIOUS
<1>1. CASE Next
  BY <1>1, NextHolds
<1>2. CASE UNCHANGED vars
  BY <1>2 DEF vars, IInv, Reading, LayersHeaded, Beginning
<1> QED BY <1>1, <1>2

LEMMA IInvAlways == Spec => []IInv
<1>1. Init => IInv
  BY InitHolds
<1>2. IInv /\ [Next]_vars => IInv'
  BY IInvStep
<1> QED BY <1>1, <1>2, PTL DEF Spec

LEMMA DescChecked == \A d \in Descs : IsDescriptor(d)
BY DEF Descs, OpenDescs, IsDescriptor, ArgValues

LEMMA LayerChecked ==
    ASSUME NEW c, ConfigOK(c), NEW l \in 1 .. Len(c.layers)
    PROVE  IsLayer(c.layers[l])
<1> DEFINE row == c.layers[l]
<1>1. /\ row \in LayerRows /\ row.keymap \in KeyMaps /\ row.chords \in Seq(ChordRows)
      /\ Len(row.chords) <= MaxChords
  BY LayerAt
<1>2. row.type = "composite" <=> row.constituents # <<>>
  BY DEF ConfigOK, LayerSound
<1> HIDE DEF row
<1>3. row.type \in {"normal", "layout", "composite"}
  BY <1>1 DEF LayerRows
<1>4. DOMAIN row.keymap \subseteq KeyCodes /\ \A code \in DOMAIN row.keymap : row.keymap[code] \in Descs
  BY <1>1, KeyMapsTyped
<1>5. DOMAIN row.chords = 1 .. Len(row.chords) /\ \A i \in 1 .. Len(row.chords) : row.chords[i] \in ChordRows
  BY <1>1
<1>6. \A i \in 1 .. Len(row.chords) : row.chords[i].d \in Descs
  BY <1>5 DEF ChordRows
<1>7. IsLayer(row)
  BY <1>1, <1>2, <1>3, <1>4, <1>5, <1>6, DescChecked DEF IsLayer, Positions
<1> QED BY <1>7 DEF row

LEMMA TypesHold == ASSUME IInv PROVE TypeOK
<1>1. /\ ConfigOK(config) /\ LogIn(config, log, loaded) /\ binds \in 0 .. MaxBinds /\ HeldIn(config, held)
  BY DEF IInv
<1> DEFINE t == TablesOf(config)
<1>2. /\ config.layers \in Seq(LayerRows) /\ Len(config.layers) <= MaxLayers
      /\ t \in RowTables /\ TablesOK(config.layers, t) /\ config.aliases \in [KeyCodes -> Text]
  BY <1>1 DEF ConfigOK, LayersOK
<1>3. /\ t.descriptors = config.descriptors /\ t.macros = config.macros /\ t.commands = config.commands
  BY DEF TablesOf
<1> HIDE DEF t
<1>4. /\ Len(config.descriptors) <= MaxDescriptors /\ Len(config.macros) <= MaxMacros
      /\ Len(config.commands) <= MaxCommands
  BY <1>2, <1>3 DEF TablesOK
<1>5. \A i \in Positions(config.layers) : IsLayer(config.layers[i])
  <2>1. Positions(config.layers) = 1 .. Len(config.layers)
    BY <1>2, LayersShape DEF Positions
  <2> QED BY <1>1, <2>1, LayerChecked
<1>6. \A i \in Positions(config.descriptors) : IsDescriptor(config.descriptors[i])
  <2>1. config.descriptors \in Seq(Descs)
    BY <1>2, <1>3 DEF RowTables
  <2>2. \A i \in DOMAIN config.descriptors : config.descriptors[i] \in Descs
    BY <2>1
  <2> QED BY <2>2, DescChecked DEF Positions
<1>7. \A code \in DOMAIN held : IsDescriptor(held[code].d)
  <2>1. \A h \in HeldRows : h.d \in Descs
    BY DEF HeldRows
  <2> QED BY <1>1, <2>1, DescChecked DEF HeldIn
<1>8. loaded \in 0 .. Len(log)
  BY <1>1 DEF LogIn
<1> QED BY <1>1, <1>2, <1>4, <1>5, <1>6, <1>7, <1>8 DEF TypeOK

\* The row of a table, a binding or a chord: it is sound and of the right form.
LEMMA DescArgs ==
    ASSUME NEW d \in Descs
    PROVE  d.args \in Seq(ArgValues) /\ DOMAIN d.args = 1 .. Len(d.args)
BY DEF Descs, OpenDescs

LEMMA RefersSound ==
    ASSUME ConfigOK(config), NEW d \in Descs, NEW limit,
           Sound(config.layers, TablesOf(config), d, limit)
    PROVE  Refers(d, limit)
<1>1. DOMAIN d.args = 1 .. Len(d.args)
  BY DescArgs
<1>2. /\ Positions(config.layers) = 1 .. Len(config.layers)
      /\ Positions(config.macros) = 1 .. Len(config.macros)
      /\ Positions(config.commands) = 1 .. Len(config.commands)
      /\ TablesOf(config).macros = config.macros /\ TablesOf(config).commands = config.commands
  <2>1. config.layers \in Seq(LayerRows) /\ TablesOf(config) \in RowTables
    BY DEF ConfigOK, LayersOK
  <2>2. TablesOf(config).macros = config.macros /\ TablesOf(config).commands = config.commands
    BY DEF TablesOf
  <2>3. config.macros \in Seq(Text) /\ config.commands \in Seq(Text)
    BY <2>1, <2>2 DEF RowTables
  <2> QED BY <2>1, <2>2, <2>3 DEF Positions
<1>3. ASSUME NEW i \in 1 .. Len(d.args), NEW type, type = TypesOf(d.op)[i]
      PROVE  CASE type \in {"layer", "layout"} -> d.args[i] \in Positions(config.layers)
               [] type = "descriptor" -> d.args[i] \in 1 .. limit
               [] type = "macro"      -> d.args[i] \in Positions(config.macros)
               [] type = "command"    -> d.args[i] \in Positions(config.commands)
               [] OTHER -> TRUE
  <2> DEFINE v == d.args[i]
  <2>1. ArgSound(config.layers, TablesOf(config), type, v, limit)
    BY <1>3 DEF Sound
  <2> HIDE DEF v
  <2>2. /\ type \in {"layer", "layout"} => v \in Positions(config.layers)
        /\ type = "descriptor" => v \in 1 .. limit
        /\ type = "macro" => v \in Positions(config.macros)
        /\ type = "command" => v \in Positions(config.commands)
    BY <1>2, <2>1 DEF ArgSound
  <2>3. CASE type \in {"layer", "layout"}
    BY <2>2, <2>3 DEF v
  <2>4. CASE type = "descriptor"
    BY <2>2, <2>4 DEF v
  <2>5. CASE type = "macro"
    BY <2>2, <2>5 DEF v
  <2>6. CASE type = "command"
    BY <2>2, <2>6 DEF v
  <2>7. CASE type \notin {"layer", "layout", "descriptor", "macro", "command"}
    BY <2>7
  <2> QED BY <2>3, <2>4, <2>5, <2>6, <2>7
<1> QED BY <1>1, <1>3 DEF Refers

\* Every descriptor that is bound is sound.
LEMMA BoundSound ==
    ASSUME ConfigOK(config), NEW d \in BoundDescriptors
    PROVE  d \in Descs /\ Sound(config.layers, TablesOf(config), d, Len(config.descriptors))
<1>1. PICK l \in Positions(config.layers) :
        d \in Range(config.layers[l].keymap)
              \cup {config.layers[l].chords[i].d : i \in Positions(config.layers[l].chords)}
  BY DEF BoundDescriptors
<1>2. l \in 1 .. Len(config.layers)
  BY LayersShape DEF ConfigOK, LayersOK, Positions
<1> DEFINE row == config.layers[l]
<1>3. /\ row.keymap \in KeyMaps /\ row.chords \in Seq(ChordRows)
      /\ \A code \in DOMAIN row.keymap :
            Sound(config.layers, TablesOf(config), row.keymap[code], Len(config.descriptors))
      /\ \A i \in 1 .. Len(row.chords) :
            Sound(config.layers, TablesOf(config), row.chords[i].d, Len(config.descriptors))
  BY <1>2, LayerAt
<1>4. d \in Range(row.keymap) \/ d \in {row.chords[i].d : i \in Positions(row.chords)}
  BY <1>1
<1> HIDE DEF row
<1>5. CASE d \in Range(row.keymap)
  <2>1. PICK code \in DOMAIN row.keymap : d = row.keymap[code]
    BY <1>5 DEF Range
  <2>2. row.keymap[code] \in Descs
    BY <1>3, KeyMapsTyped
  <2> QED BY <1>3, <2>1, <2>2
<1>6. CASE d \in {row.chords[i].d : i \in Positions(row.chords)}
  <2>1. PICK i \in Positions(row.chords) : d = row.chords[i].d
    BY <1>6
  <2>2. i \in 1 .. Len(row.chords) /\ row.chords[i] \in ChordRows
    BY <1>3 DEF Positions
  <2>3. row.chords[i].d \in Descs
    BY <2>2 DEF ChordRows
  <2> QED BY <1>3, <2>1, <2>2, <2>3
<1> QED BY <1>4, <1>5, <1>6

\* So is every row of the table, as far as the rows before it.
LEMMA RowsSound ==
    ASSUME ConfigOK(config), NEW i \in Positions(config.descriptors)
    PROVE  /\ config.descriptors[i] \in Descs
           /\ Sound(config.layers, TablesOf(config), config.descriptors[i], i - 1)
<1> DEFINE t == TablesOf(config)
<1>1. t \in RowTables /\ TablesOK(config.layers, t) /\ t.descriptors = config.descriptors
  BY DEF ConfigOK, TablesOf
<1> HIDE DEF t
<1>2. config.descriptors \in Seq(Descs)
  BY <1>1 DEF RowTables
<1>3. i \in 1 .. Len(config.descriptors) /\ config.descriptors[i] \in Descs
  BY <1>2 DEF Positions
<1> QED BY <1>1, <1>3 DEF TablesOK, t

LEMMA ReferencesHold == ASSUME IInv PROVE ReferencesInRange
<1>1. ConfigOK(config) /\ HeldIn(config, held)
  BY DEF IInv
<1>2. \A d \in BoundDescriptors : Refers(d, Len(config.descriptors))
  BY <1>1, BoundSound, RefersSound
<1>3. \A i \in Positions(config.descriptors) : Refers(config.descriptors[i], i - 1)
  BY <1>1, RowsSound, RefersSound
<1>4. \A code \in DOMAIN held : held[code].reset \/ Refers(held[code].d, Len(config.descriptors))
  <2>1. \A h \in HeldRows : h.d \in Descs
    BY DEF HeldRows
  <2> QED BY <1>1, <2>1, RefersSound DEF HeldIn
<1> QED BY <1>2, <1>3, <1>4 DEF ReferencesInRange

LEMMA TargetsHold == ASSUME IInv PROVE LayerTargetsAreValid
<1>1. ConfigOK(config)
  BY DEF IInv
<1>2. ASSUME NEW d \in Descs, NEW limit, Sound(config.layers, TablesOf(config), d, limit),
             NEW i \in DOMAIN d.args
      PROVE  /\ TypesOf(d.op)[i] = "layer" => /\ d.args[i] # MainLayer
                                              /\ config.layers[d.args[i]].type # "layout"
             /\ TypesOf(d.op)[i] = "layout" => \/ d.args[i] = MainLayer
                                               \/ config.layers[d.args[i]].type = "layout"
  <2>1. i \in 1 .. Len(d.args)
    BY DescArgs
  <2>2. ArgSound(config.layers, TablesOf(config), TypesOf(d.op)[i], d.args[i], limit)
    BY <1>2, <2>1 DEF Sound
  <2> QED BY <2>2 DEF ArgSound
<1>3. ASSUME NEW d \in BoundDescriptors \cup Range(config.descriptors)
      PROVE  \E limit : d \in Descs /\ Sound(config.layers, TablesOf(config), d, limit)
  <2>1. CASE d \in BoundDescriptors
    BY <1>1, <2>1, BoundSound
  <2>2. CASE d \in Range(config.descriptors)
    <3>1. PICK i \in Positions(config.descriptors) : d = config.descriptors[i]
      BY <2>2 DEF Range, Positions
    <3> QED BY <1>1, <3>1, RowsSound
  <2> QED BY <2>1, <2>2
<1>4. ASSUME NEW d \in BoundDescriptors \cup Range(config.descriptors), NEW i \in DOMAIN d.args
      PROVE  LET type == TypesOf(d.op)[i]
                 target == config.layers[d.args[i]] IN
             /\ type = "layer" => d.args[i] # MainLayer /\ target.type # "layout"
             /\ type = "layout" => d.args[i] = MainLayer \/ target.type = "layout"
  BY <1>2, <1>3
<1>5. ASSUME NEW l \in Positions(config.layers), NEW i \in DOMAIN config.layers[l].constituents
      PROVE  config.layers[l].constituents[i] \in 1 .. l - 1
  <2>1. l \in 1 .. Len(config.layers) /\ config.layers[l] \in LayerRows
    BY <1>1, LayersShape DEF ConfigOK, LayersOK, Positions
  <2>2. config.layers[l].constituents \in Seq(Nat)
    BY <2>1 DEF LayerRows
  <2>3. i \in 1 .. Len(config.layers[l].constituents)
    BY <2>2
  <2> QED BY <1>1, <2>1, <2>3 DEF ConfigOK, LayerSound
<1> QED BY <1>4, <1>5 DEF LayerTargetsAreValid

LEMMA LastHolds == ASSUME IInv PROVE LastBindingWins
<1>1. log \in Seq(LogRows) /\ InForce(config.layers, log)
  BY DEF IInv, LogIn
<1>2. DOMAIN log = 1 .. Len(log)
  BY <1>1
<1>3. ASSUME NEW i \in 1 .. Len(log), ~log[i].chord, NEW code \in log[i].codes
      PROVE  \/ \E j \in i + 1 .. Len(log) : /\ ~log[j].chord /\ code \in log[j].codes
                                            /\ log[j].layer = log[i].layer
             \/ config.layers[log[i].layer].keymap[code] = log[i].d
  BY <1>1, <1>3 DEF InForce, Shadowed, Holds
<1> QED BY <1>2, <1>3 DEF LastBindingWins

LEMMA BeginsPrefix ==
    ASSUME NEW S, NEW s \in Seq(S), NEW u \in Seq(S), Begins(s, u)
    PROVE  IsPrefix(s, u)
<1>1. /\ Len(s) \in Nat /\ Len(u) \in Nat /\ Len(s) <= Len(u) /\ \A i \in 1 .. Len(s) : s[i] = u[i]
  BY DEF Begins
<1>2. SubSeq(s, 1, Len(s)) = SubSeq(u, 1, Len(s))
  <2>1. /\ SubSeq(s, 1, Len(s)) \in Seq(S) /\ SubSeq(u, 1, Len(s)) \in Seq(S)
        /\ Len(SubSeq(s, 1, Len(s))) = Len(s) /\ Len(SubSeq(u, 1, Len(s))) = Len(s)
        /\ \A i \in 1 .. Len(s) : SubSeq(s, 1, Len(s))[i] = s[i] /\ SubSeq(u, 1, Len(s))[i] = u[i]
    BY <1>1
  <2> QED BY <1>1, <2>1
<1> QED BY <1>1, <1>2 DEF IsPrefix

LEMMA LongerPrefixes ==
    ASSUME NEW c, ConfigOK(c), NEW u, Extends(c, u)
    PROVE  /\ IsPrefix(c.descriptors, u.descriptors) /\ IsPrefix(c.macros, u.macros)
           /\ IsPrefix(c.commands, u.commands)
<1> DEFINE t == TablesOf(c)
           v == TablesOf(u)
<1>1. /\ t \in RowTables /\ v \in RowTables /\ Longer(t, v)
      /\ t.descriptors = c.descriptors /\ t.macros = c.macros /\ t.commands = c.commands
      /\ v.descriptors = u.descriptors /\ v.macros = u.macros /\ v.commands = u.commands
  BY DEF Extends, ConfigOK, TablesOf
<1> HIDE DEF t, v
<1>2. /\ c.descriptors \in Seq(Descs) /\ u.descriptors \in Seq(Descs)
      /\ c.macros \in Seq(Text) /\ u.macros \in Seq(Text)
      /\ c.commands \in Seq(Text) /\ u.commands \in Seq(Text)
  BY <1>1 DEF RowTables
<1>3. /\ Begins(c.descriptors, u.descriptors) /\ Begins(c.macros, u.macros)
      /\ Begins(c.commands, u.commands)
  BY <1>1 DEF Longer
<1> QED BY <1>2, <1>3, BeginsPrefix

-----------------------------------------------------------------------------
(* The theorems.                                                            *)

\* However files and run-time bindings follow each other, and whatever parts
\* of them are refused, no table of struct config outgrows its array
\* (config.h:111-148), every layer and descriptor has the form of its kind, and
\* every index and timeout fits its field (config.h:56-63).
THEOREM ConfigTyped == Spec => []TypeOK
<1>1. IInv => TypeOK
  BY TypesHold
<1> QED BY <1>1, IInvAlways, PTL

\* No binding, nested action or key that is down refers to a row that does not
\* exist, and a nested action only to earlier rows (parse_descriptor,
\* config.c:539-730), until a reset takes rows away under a key that is down
\* (keyboard.c:1212).
THEOREM ReferencesStayInRange == Spec => []ReferencesInRange
<1>1. IInv => ReferencesInRange
  BY ReferencesHold
<1> QED BY <1>1, IInvAlways, PTL

\* Every action that names a layer names one of the kind it is made for, and a
\* composite layer is made of layers before it (config.c:303-365, 657-677):
\* what the engine assumes when it activates a layer or sets a layout.
THEOREM TargetsStayValid == Spec => []LayerTargetsAreValid
<1>1. IInv => LayerTargetsAreValid
  BY TargetsHold
<1> QED BY <1>1, IInvAlways, PTL

\* Of all the accepted bindings of a key in a layer, by its name, by an alias
\* or as an alias, the last is in force, also after a reset (set_layer_entry,
\* config.c:233-301; keyd.scdoc:267).
THEOREM LastBindingAlwaysWins == Spec => []LastBindingWins
<1>1. IInv => LastBindingWins
  BY LastHolds
<1> QED BY <1>1, IInvAlways, PTL

\* No section, binding or reset moves a layer or changes its name, type,
\* modifiers or parts (config_add_layer, config.c:367-397; keyd.scdoc:270).
THEOREM LayerTypesKept == Spec => LayersKeepTheirType
<1> DEFINE Kind == /\ Len(config.layers) <= Len(config'.layers)
                   /\ \A l \in Positions(config.layers) : SameHeader(config.layers[l], config'.layers[l])
<1>1. IInv /\ [Next]_vars => [Kind]_config
  <2> SUFFICES ASSUME IInv, [Next]_vars, config' # config PROVE Kind
    OBVIOUS
  <2>1. Next
    BY DEF vars
  <2>2. Kept(config.layers, config'.layers)
    BY <2>1, NextHolds DEF Extends
  <2>3. Positions(config.layers) = 1 .. Len(config.layers)
    BY LayersShape DEF IInv, ConfigOK, LayersOK, Positions
  <2> QED BY <2>2, <2>3 DEF Kept
<1> QED BY <1>1, IInvAlways, PTL DEF Spec, LayersKeepTheirType

\* Apart from a reset, no step moves or rewrites a row of a table: the indices
\* that cached descriptors and pending keys hold keep their meaning while
\* bindings are added under them (config.c:678-717; kbd_eval, keyboard.c:1209).
THEOREM RowsNeverMove == Spec => RowsStayPut
<1> DEFINE Put == \/ /\ IsPrefix(config.descriptors, config'.descriptors)
                     /\ IsPrefix(config.macros, config'.macros)
                     /\ IsPrefix(config.commands, config'.commands)
                  \/ config' = original_config
<1>1. IInv /\ [Next]_vars => [Put]_config
  <2> SUFFICES ASSUME IInv, [Next]_vars, config' # config PROVE Put
    OBVIOUS
  <2>1. Next
    BY DEF vars
  <2>2. Extends(config, config') \/ config' = original_config
    BY <2>1, NextHolds
  <2>3. ConfigOK(config)
    BY DEF IInv
  <2> QED BY <2>2, <2>3, LongerPrefixes
<1> QED BY <1>1, IInvAlways, PTL DEF Spec, RowsStayPut

\* A run-time binding that is refused, at whatever step of parsing it, leaves
\* every layer and alias as it was (config_add_entry, config.c:986-1027).
THEOREM RefusalsChangeNothing == Spec => RefusedBindingsChangeNothing
<1> DEFINE Same == (todo = <<>> /\ log' = log /\ config' # original_config)
                     => config'.layers = config.layers /\ config'.aliases = config.aliases
<1>1. IInv /\ [Next]_vars => [Same]_config
  <2> SUFFICES ASSUME IInv, [Next]_vars, config' # config,
                      todo = <<>>, log' = log, config' # original_config
               PROVE  config'.layers = config.layers /\ config'.aliases = config.aliases
    OBVIOUS
  <2>1. Next
    BY DEF vars
  <2>2. /\ ~FirstPass /\ ~TooManyIdsFound /\ ~ParseAlias /\ ~EndFirstPass /\ ~AddEntry
        /\ ~EndSection /\ ~EndFile
    BY DEF FirstPass, TooManyIdsFound, ParseAlias, EndFirstPass, AddEntry, EndSection, EndFile, AtSection
  <2>3. ~BindReset /\ ~Press /\ ~Release
    BY DEF BindReset, Press, Release
  <2>4. Bind
    BY <2>1, <2>2, <2>3 DEF Next
  <2> QED BY <2>4, BindHolds
<1> QED BY <1>1, IInvAlways, PTL DEF Spec, RefusedBindingsChangeNothing
================================================================================

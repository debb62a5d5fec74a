------------------------------ MODULE MCKeyboard ------------------------------
(***************************************************************************)
(* Small configurations of the engine for TLC.  Each section is the        *)
(* translation of a configuration file of a few lines, given above it.     *)
(***************************************************************************)
EXTENDS KeyboardProps, TLC

Key(code) == KeySequence(code, {})
Overload(l, act) == [LayerAction("overload", l) EXCEPT !.act = act]
TapHold(op, l, act, timeout) == [LayerAction(op, l) EXCEPT !.act = act, !.timeout = timeout]
Choice(op, act, act2, timeout) ==
    [NoDesc EXCEPT !.op = op, !.act = act, !.act2 = act2, !.timeout = timeout]
Plain(op) == [NoDesc EXCEPT !.op = op]
WithMacro(d, m) == [d EXCEPT !.macro = m]

Tap(code) == [simple |-> TRUE, code |-> code, mods |-> {}, taps |-> {code}]
Typing(codes) == [simple |-> FALSE, code |-> NoKey, mods |-> {}, taps |-> codes]

\* Tables for configurations without chords, macros or composite layers.
OneDevice == {"kbd"}
TwoDevices == {"kbd", "pad"}
NoActs == 0 :> Key("noop")
NoMacros == 0 :> Typing({})
Normal3 == [l \in 0 .. 2 |-> "normal"]
NoConstituents3 == [l \in 0 .. 2 |-> {}]
NoChords3 == [l \in 0 .. 2 |-> <<>>]
Shift2 == [l \in 0 .. 2 |-> IF l = 2 THEN {"shift"} ELSE {}]

-----------------------------------------------------------------------------
(* Layers.  [main]       a = overload(nav, x)  b = togglem(fn, x)          *)
(*                       c = oneshot(shift)                                *)
(*          [nav]        b = layer(shift)      c = swap(num)               *)
(*          [shift:S]    a = overload(nav, x)                              *)
(*          [num]        a = layerm(nav, x)    b = swap(nav)               *)
(*          [fn]         c = swapm(num, y)                                 *)
(*          [nav+shift]  c = x                                             *)
LayersKeys == {"a", "b", "c"}
LayersActs == NoActs @@ 1 :> Key("x")
LayersType == [l \in 0 .. 5 |-> IF l = 5 THEN "composite" ELSE "normal"]
LayersMods == [l \in 0 .. 5 |-> IF l = 2 THEN {"shift"} ELSE {}]
LayersConstituents == [l \in 0 .. 5 |-> IF l = 5 THEN {1, 2} ELSE {}]
NoChords6 == [l \in 0 .. 5 |-> <<>>]
LayersMacros == NoMacros @@ 1 :> Tap("x") @@ 2 :> Tap("y")
LayersKeymap ==
    0 :> ("a" :> Overload(1, 1) @@ "b" :> WithMacro(LayerAction("togglem", 4), 1)
          @@ "c" :> LayerAction("oneshot", 2))
 @@ 1 :> ("b" :> LayerAction("layer", 2) @@ "c" :> LayerAction("swap", 3))
 @@ 2 :> ("a" :> Overload(1, 1))
 @@ 3 :> ("a" :> WithMacro(LayerAction("layerm", 1), 1) @@ "b" :> LayerAction("swap", 1))
 @@ 4 :> ("c" :> WithMacro(LayerAction("swapm", 3), 2))
 @@ 5 :> ("c" :> Key("x"))

-----------------------------------------------------------------------------
(* Tap-hold.  [main]  a = overloadt(nav, x, 2)                             *)
(*            [nav]   b = y                                                *)
TwoKeys == {"a", "b"}
TapHoldActs == NoActs @@ 1 :> Key("x") @@ 2 :> Key("y")
TapHoldKeymap ==
    0 :> ("a" :> TapHold("overloadt", 1, 1, 2))
 @@ 1 :> ("b" :> Key("y"))
 @@ 2 :> <<>>

-----------------------------------------------------------------------------
(* Chords.  [main]  a+b = layer(nav)   a+b+c = y                           *)
(*          [nav]   c = x              b+c = z                             *)
ChordKeys == {"a", "b", "c"}
ChordsMain ==
    0 :> <<[keys |-> {"a", "b"}, d |-> LayerAction("layer", 1)],
           [keys |-> {"a", "b", "c"}, d |-> Key("y")]>>
 @@ 1 :> <<[keys |-> {"b", "c"}, d |-> Key("z")]>>
 @@ 2 :> <<>>
ChordsKeymap == 0 :> <<>> @@ 1 :> ("c" :> Key("x")) @@ 2 :> <<>>

(* Limits.  [main]  a+b = x   c+d = layer(nav)                            *)
(*                  c = overloadt2(nav, x, 2)                              *)
(*                  d = timeout(x, 1, layer(shift))                        *)
(*          [nav]   d = timeout(y, 1, layer(shift))                        *)
LimitsKeys == {"a", "b", "c", "d"}
LimitsActs == TapHoldActs @@ 3 :> LayerAction("layer", 2)
LimitsChords == 0 :> <<[keys |-> {"a", "b"}, d |-> Key("x")],
                       [keys |-> {"c", "d"}, d |-> LayerAction("layer", 1)]>>
             @@ 1 :> <<>> @@ 2 :> <<>>
LimitsKeymap ==
    0 :> ("c" :> TapHold("overloadt2", 1, 1, 2) @@ "d" :> Choice("timeout", 1, 3, 1))
 @@ 1 :> ("d" :> Choice("timeout", 2, 3, 1))
 @@ 2 :> <<>>

-----------------------------------------------------------------------------
(* Modes.  [main]        a = overloadi(scroll(1), overload(shift,          *)
(*                             macro(x y)), 1)                             *)
(*                       b = setlayout(alt)        c = oneshotm(shift, x)  *)
(*         [alt:layout]  a = clearm(x)   b = setlayout(main)               *)
(*                       c = scrollt(1)                                    *)
(*         [shift:S]     a = macro2(2, 1, macro(x y))                      *)
(*                       b = overload(shift, command(true))   c = clear()  *)
ModesKeys == {"a", "b", "c"}
ModesType == [l \in 0 .. 2 |-> IF l = 1 THEN "layout" ELSE "normal"]
ModesMacros == NoMacros @@ 1 :> Typing({"x", "y"}) @@ 2 :> Tap("x")
ModesActs == NoActs @@ 1 :> Plain("scroll") @@ 2 :> Overload(2, 3)
             @@ 3 :> WithMacro(Plain("macro"), 1) @@ 4 :> Plain("command")
ModesKeymap ==
    0 :> ("a" :> Choice("overloadi", 1, 2, 1) @@ "b" :> [Plain("layout") EXCEPT !.layer = 1]
          @@ "c" :> WithMacro(LayerAction("oneshotm", 2), 2))
 @@ 1 :> ("a" :> WithMacro(Plain("clearm"), 2) @@ "b" :> Plain("layout")
          @@ "c" :> Plain("scrollt"))
 @@ 2 :> ("a" :> WithMacro([Plain("macro2") EXCEPT !.timeout = 2, !.repeat = 1], 1)
          @@ "b" :> Overload(2, 4) @@ "c" :> Plain("clear"))

-----------------------------------------------------------------------------
(* A configuration in which a swap is bound in a toggled layer.             *)

(* [main]  k = x  a = toggle(nav)  b = layer(nav)    [nav]  c = swap(num)  *)
SwapToggleKeys == {"k", "a", "b", "c"}
SwapToggleKeymap ==
    0 :> ("k" :> Key("x") @@ "a" :> LayerAction("toggle", 1) @@ "b" :> LayerAction("layer", 1))
 @@ 1 :> ("c" :> LayerAction("swap", 2))
 @@ 2 :> <<>>
===============================================================================

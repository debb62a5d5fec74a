----------------------------- MODULE KeydConfig -----------------------------
(***************************************************************************)
(* The parsed configuration of one keyboard (struct config, config.h) and  *)
(* the vocabulary of descriptors, macros and chords that the engine        *)
(* (Keyboard.tla) interprets.  A configuration is read-only while keys are *)
(* processed, so everything here is a constant.                            *)
(***************************************************************************)
EXTENDS Integers, Sequences, FiniteSets

CONSTANTS
    Keys,                \* key codes the physical devices can send
    OutKeys,             \* further key codes that descriptors can emit
    NrLayers,            \* config.nr_layers, layer 0 is "main"
    LayerType,           \* layer -> "normal", "layout" or "composite"
    LayerMods,           \* layer -> set of modifiers (layer.mods)
    Constituents,        \* layer -> set of layers (composite layers only)
    Keymap,              \* layer -> (bound key code -> descriptor)
    Chords,              \* layer -> sequence of chords
    DescTable,           \* config.descriptors: index -> descriptor
    Macros,              \* config.macros: index -> macro
    DefaultLayout,       \* index of default_layout, 0 when there is none
    OneshotTimeout, OverloadTapTimeout,
    MacroTimeout, MacroRepeatTimeout,
    ChordInterkeyTimeout, ChordHoldTimeout,
    DisableModifierGuard,
    NrChordSlots         \* KEYD_CHORD_MAX - KEYD_CHORD_1 + 1, which is 3

-----------------------------------------------------------------------------
(* Codes.  "none" is the code 0 the C code uses for "no key".              *)

Layers == 0 .. NrLayers - 1
Acts == DOMAIN DescTable
MacroIds == DOMAIN Macros

\* The table of keys.c, in its order: set_mods walks it front to back.
Mods == {"alt", "altgr", "shift", "super", "ctrl"}
ModKey == [m \in Mods |-> CASE m = "alt"   -> "leftalt"
                            [] m = "altgr" -> "rightalt"
                            [] m = "shift" -> "leftshift"
                            [] m = "super" -> "leftmeta"
                            [] OTHER       -> "leftctrl"]
ModKeys == {"leftalt", "rightalt", "leftshift", "leftmeta", "leftctrl"}

NoKey == "none"
Unsent == {"noop", "extbtn"}   \* KEYD_NOOP, KEYD_EXTERNAL_MOUSE_BUTTON

\* KEYD_CHORD_1 .. KEYD_CHORD_MAX: the pseudo keys that stand for chords.
ChordSlots == 1 .. NrChordSlots
ChordCode == <<"chord1", "chord2", "chord3">>
ChordCodes == {ChordCode[i] : i \in ChordSlots}

Codes == Keys \cup OutKeys \cup ModKeys \cup ChordCodes \cup Unsent \cup {NoKey}

-----------------------------------------------------------------------------
(* Descriptors: enum op and struct descriptor of config.h.  Every field    *)
(* stands for the argument of that meaning; an op reads only its own.      *)

MacroFirstOps == {"layerm", "oneshotm", "togglem"}
HoldOps == {"layer", "layerm", "overload", "oneshot", "oneshotm"}
ToggleOps == {"toggle", "togglem"}
OneshotOps == {"oneshot", "oneshotm"}
SwapOps == {"swap", "swapm"}
TapHoldOps == {"overloadt", "overloadt2"}
LayerArgOps == HoldOps \cup ToggleOps \cup SwapOps \cup TapHoldOps
Ops == LayerArgOps \cup {"none", "keysequence", "layout", "clear", "clearm",
       "overloadi", "macro", "macro2", "command", "timeout", "scroll", "scrollt"}

Descriptor == [op: Ops, code: Codes, mods: SUBSET Mods, layer: Layers,
               act: Acts, act2: Acts, timeout: Nat, repeat: Nat, macro: MacroIds]

NoDesc == [op |-> "none", code |-> NoKey, mods |-> {}, layer |-> 0, act |-> 0,
           act2 |-> 0, timeout |-> 0, repeat |-> 0, macro |-> 0]
KeySequence(code, mods) == [NoDesc EXCEPT !.op = "keysequence", !.code = code, !.mods = mods]
LayerAction(op, l) == [NoDesc EXCEPT !.op = op, !.layer = l]

\* A macro, as far as the engine can tell: a single key sequence (simple,
\* with its code and mods) or a longer one, and the keys it taps.
Macro == [simple: BOOLEAN, code: Codes, mods: SUBSET Mods, taps: SUBSET Codes]

Chord == [keys: SUBSET Keys, d: Descriptor]

LayerDescs(l) == {Keymap[l][c] : c \in DOMAIN Keymap[l]}
            \cup {Chords[l][i].d : i \in DOMAIN Chords[l]}
NestedDescs == {DescTable[a] : a \in Acts}
ConfigDescs == NestedDescs \cup UNION {LayerDescs(l) : l \in Layers}

BoundOps == {d.op : d \in ConfigDescs}
ToggledLayers == {d.layer : d \in {e \in ConfigDescs : e.op \in ToggleOps}}
OneshotLayers == {d.layer : d \in {e \in ConfigDescs : e.op \in OneshotOps \cup SwapOps}}
ClearMacros == {d.macro : d \in {e \in ConfigDescs : e.op = "clearm"}}
TapActs == {d.act : d \in {e \in ConfigDescs : e.op = "overload"}}
IdleActs == UNION {{d.act, d.act2} : d \in {e \in ConfigDescs : e.op = "overloadi"}}

\* What the engine runs: bindings, and the descriptors it makes from their
\* arguments (the layer of a tap-hold key, the replacement of a swapped one).
IsTarget(l) == l # 0 /\ LayerType[l] # "layout"
Runnable == {d \in Descriptor : /\ d.op \in BoundOps \cup {"none", "keysequence", "layer"}
                                /\ d.op = "overload" => d.act \in TapActs
                                /\ d.op = "overloadi" => {d.act, d.act2} \subseteq IdleActs
                                /\ d.op \in LayerArgOps => IsTarget(d.layer)
                                /\ d.op \in ToggleOps => d.layer \in ToggledLayers
                                /\ d.op \in OneshotOps \cup SwapOps => d.layer \in OneshotLayers
                                /\ d.op = "clearm" => d.macro \in ClearMacros
                                /\ d.op = "layout" => ~IsTarget(d.layer)}

\* The layers whose bindings hold a swap.  An action nested in another one
\* (a row of DescTable) may run for any layer.
SwapHome(l) == \/ \E c \in DOMAIN Keymap[l] : Keymap[l][c].op \in SwapOps
               \/ \E i \in DOMAIN Chords[l] : Chords[l][i].d.op \in SwapOps
               \/ \E a \in Acts : DescTable[a].op \in SwapOps

-----------------------------------------------------------------------------
(* What config.c guarantees of every configuration it accepts.             *)

ASSUME LayersAssumption ==
    /\ NrLayers \in Nat \ {0}
    /\ LayerType \in [Layers -> {"normal", "layout", "composite"}]
    /\ LayerType[0] = "normal"
    /\ LayerMods \in [Layers -> SUBSET Mods]
    /\ \A l \in Layers : LayerMods[l] # {} => l # 0 /\ LayerType[l] = "normal"
    /\ Constituents \in [Layers -> SUBSET Layers]
    /\ DefaultLayout = 0 \/ (DefaultLayout \in Layers /\ LayerType[DefaultLayout] = "layout")

ASSUME CodesAssumption ==
    /\ IsFiniteSet(Keys)
    /\ \A k \in Keys \cup OutKeys : k # NoKey /\ k \notin ChordCodes
    /\ NrChordSlots \in 1 .. 3
    /\ 0 \in Acts /\ 0 \in MacroIds

ASSUME BindingsAssumption ==
    /\ \A l \in Layers : \A c \in DOMAIN Keymap[l] : Keymap[l][c] \in Descriptor
    /\ \A l \in Layers : Chords[l] \in Seq(Chord)
    /\ \A a \in Acts : DescTable[a] \in Descriptor
    /\ \A d \in ConfigDescs : d.op # "none"
    /\ \A m \in MacroIds : Macros[m] \in Macro

\* The ARG_LAYER and ARG_LAYOUT checks of parse_descriptor.
ASSUME TargetsAssumption ==
    \A d \in ConfigDescs :
        /\ d.op \in LayerArgOps => IsTarget(d.layer)
        /\ d.op = "layout" => d.layer = 0 \/ LayerType[d.layer] = "layout"

ASSUME TimeoutsAssumption ==
    /\ {OneshotTimeout, OverloadTapTimeout, MacroTimeout, MacroRepeatTimeout,
        ChordInterkeyTimeout, ChordHoldTimeout} \subseteq Nat
    /\ DisableModifierGuard \in BOOLEAN
=============================================================================

-------------------------- MODULE KeyboardStructure --------------------------
(***************************************************************************)
(* What every step of the engine keeps.  First TypeOK, of Keyboard!Spec    *)
(* for every configuration that meets the assumptions of KeydConfig; then  *)
(* StructureInv, the part of the inductive invariant about which           *)
(* descriptor runs for which key: how calls and returns keep the call      *)
(* stack in order, and one lemma for each action.  The lemmas of the       *)
(* second part also say what becomes of the claims on a layer.             *)
(***************************************************************************)
EXTENDS KeyboardInv, FiniteSetTheorems, SequenceTheorems, TLAPS

-----------------------------------------------------------------------------
(* The output operators return output states.                              *)

\* The key codes the engine itself emits are codes.
LEMMA CodesOfMods ==
    /\ ModKeys \subseteq Codes /\ NoKey \in Codes
    /\ \A m \in Mods : ModKey[m] \in Codes
    /\ ChordCodes \subseteq Codes
  BY DEF ModKeys, Codes, ModKey, Mods

LEMMA SendKeyType ==
    ASSUME NEW o \in Output, NEW code \in Codes, NEW pressed \in BOOLEAN
    PROVE  SendKey(o, code, pressed) \in Output
  BY DEF SendKey, Emit, With, Output

LEMMA ClearModType ==
    ASSUME NEW o \in Output, NEW m \in Mods, NEW inhibit
    PROVE  ClearMod(o, ModKey[m], inhibit) \in Output
<1> DEFINE o1 == SendKey(o, "leftctrl", TRUE)
           o2 == SendKey(o1, ModKey[m], FALSE)
<1>1. "leftctrl" \in Codes /\ ModKey[m] \in Codes
  BY CodesOfMods DEF ModKeys
<1>2. o1 \in Output
  BY <1>1, SendKeyType
<1>3. o2 \in Output
  BY <1>1, <1>2, SendKeyType
<1>4. SendKey(o2, "leftctrl", FALSE) \in Output
  BY <1>1, <1>3, SendKeyType
<1>5. SendKey(o, ModKey[m], FALSE) \in Output
  BY <1>1, SendKeyType
<1> QED  BY <1>4, <1>5 DEF ClearMod

LEMMA SetModType ==
    ASSUME NEW o \in Output, NEW mods, NEW inhibit, NEW m \in Mods
    PROVE  SetMod(o, mods, inhibit, m) \in Output
  BY CodesOfMods, SendKeyType, ClearModType DEF SetMod

LEMMA SetModsType ==
    ASSUME NEW o \in Output, NEW mods, NEW inhibit
    PROVE  SetMods(o, mods, inhibit) \in Output
<1> DEFINE alt == SetMod(o, mods, inhibit, "alt")
           altgr == SetMod(alt, mods, inhibit, "altgr")
           shift == SetMod(altgr, mods, inhibit, "shift")
           super == SetMod(shift, mods, inhibit, "super")
<1>0. {"alt", "altgr", "shift", "super", "ctrl"} = Mods
  BY DEF Mods
<1>1. alt \in Output  BY <1>0, SetModType
<1>2. altgr \in Output  BY <1>0, <1>1, SetModType
<1>3. shift \in Output  BY <1>0, <1>2, SetModType
<1>4. super \in Output  BY <1>0, <1>3, SetModType
<1>5. SetMod(super, mods, inhibit, "ctrl") \in Output  BY <1>0, <1>4, SetModType
<1> QED  BY <1>5 DEF SetMods

LEMMA UpdateModsType ==
    ASSUME NEW o \in Output, NEW ls, NEW excluded, NEW mods, NEW inhibit
    PROVE  /\ UpdateModsQuietly(o, ls, excluded, mods, inhibit) \in Output
           /\ UpdateMods(o, ls, excluded, mods) \in Output
  BY SetModsType DEF UpdateModsQuietly, UpdateMods

LEMMA ResetKeystateType ==
    ASSUME NEW o \in Output  PROVE ResetKeystate(o) \in Output
  BY DEF ResetKeystate, Output

LEMMA ExecuteMacroType ==
    ASSUME NEW o \in Output, NEW ls, NEW dl, NEW m \in MacroIds
    PROVE  ExecuteMacro(o, ls, dl, Macros[m]) \in Output
<1>1. Macros[m] \in Macro
  BY BindingsAssumption
<1>2. CASE Macros[m].simple
  <2> DEFINE o1 == UpdateMods(o, ls, dl, Macros[m].mods)
  <2>1. Macros[m].code \in Codes  BY <1>1 DEF Macro
  <2>2. o1 \in Output  BY UpdateModsType
  <2>3. SendKey(o1, Macros[m].code, TRUE) \in Output  BY <2>1, <2>2, SendKeyType
  <2>4. SendKey(SendKey(o1, Macros[m].code, TRUE), Macros[m].code, FALSE) \in Output
    BY <2>1, <2>3, SendKeyType
  <2> QED  BY <1>2, <2>4 DEF ExecuteMacro
<1>3. CASE ~Macros[m].simple
  <2>1. UpdateMods(o, ls, dl, {}) \in Output  BY UpdateModsType
  <2> QED  BY <1>3, <2>1 DEF ExecuteMacro, RunMacro, Output
<1> QED  BY <1>2, <1>3

-----------------------------------------------------------------------------
(* The layer operators return layer states and change the fields they name. *)

Layering == [Layers -> LayerState]

LEMMA LayersFinite == IsFiniteSet(Layers) /\ 0 \in Layers
  BY LayersAssumption, FS_Interval DEF Layers

\* The values of a function on a finite set are finitely many.
LEMMA FiniteValues ==
    ASSUME NEW S, IsFiniteSet(S), NEW f, f = [x \in S |-> f[x]]
    PROVE  IsFiniteSet({f[x] : x \in S})
<1>1. f \in Surjection(S, {f[x] : x \in S})
  BY DEF Surjection
<1> QED  BY <1>1, FS_Surjection

\* Renumbering the activation times changes nothing else.
LEMMA PackedType ==
    ASSUME NEW ls \in Layering
    PROVE  /\ Packed(ls) \in Layering
           /\ \A l \in Layers : /\ Packed(ls)[l].active = ls[l].active
                                /\ Packed(ls)[l].toggled = ls[l].toggled
                                /\ Packed(ls)[l].oneshot_depth = ls[l].oneshot_depth
<1> DEFINE at == [l \in Layers |-> IF ls[l].active = 0 THEN 0 ELSE ls[l].at]
           times == {at[l] : l \in Layers}
           later == times \ {0, 1}
           below(l) == {t \in later : t < at[l]}
           newat(l) == IF at[l] \in {0, 1} THEN at[l] ELSE 2 + Cardinality(below(l))
<1>1. IsFiniteSet(times)
  <2>1. at = [l \in Layers |-> at[l]]  OBVIOUS
  <2> HIDE DEF at
  <2> QED  BY <2>1, LayersFinite, FiniteValues
<1>2. ASSUME NEW l \in Layers PROVE Cardinality(below(l)) \in Nat
  <2>1. below(l) \subseteq times  OBVIOUS
  <2> QED  BY <1>1, <2>1, FS_Subset, FS_CardinalityType
<1>3. ASSUME NEW l \in Layers PROVE newat(l) \in Nat
  BY <1>2, <1>3 DEF Layering, LayerState
<1>4. Packed(ls) = [l \in Layers |-> [ls[l] EXCEPT !.at = newat(l)]]
  BY DEF Packed
<1> HIDE DEF newat
<1> QED  BY <1>3, <1>4 DEF Layering, LayerState

LEMMA GetTimeType ==
    ASSUME NEW ls \in Layering  PROVE GetTime(ls) \in Nat
<1> DEFINE at == [l \in Layers |-> ls[l].at]
<1>1. IsFiniteSet({ls[l].at : l \in Layers})
  <2>1. at = [l \in Layers |-> at[l]] /\ {at[l] : l \in Layers} = {ls[l].at : l \in Layers}  OBVIOUS
  <2> HIDE DEF at
  <2> QED  BY <2>1, LayersFinite, FiniteValues
<1>2. IsFiniteSet(LaterTimes(ls))
  BY <1>1, FS_Subset DEF LaterTimes
<1> QED  BY <1>2, FS_CardinalityType DEF GetTime

LEMMA ActivateType ==
    ASSUME NEW ls \in Layering, NEW l \in Layers
    PROVE  /\ Activate(ls, l) \in Layering
           /\ \A k \in Layers : /\ Activate(ls, l)[k].toggled = ls[k].toggled
                                /\ Activate(ls, l)[k].oneshot_depth = ls[k].oneshot_depth
                                /\ k # l => Activate(ls, l)[k].active = ls[k].active
           /\ Activate(ls, l)[l].active = IF ls[l].active < 0 THEN ls[l].active
                                          ELSE (ls[l].active + 1) % CounterSize
<1>1. GetTime(ls) \in Nat  BY GetTimeType
<1>2. ls[l].active \in Int  BY DEF Layering, LayerState
<1>3. CounterSize \in Nat \ {0}  BY SizesAssumption
<1>4. (ls[l].active + 1) % CounterSize \in Int  BY <1>2, <1>3
<1> QED  BY <1>1, <1>2, <1>4 DEF Activate, Layering, LayerState

LEMMA DeactivateType ==
    ASSUME NEW ls \in Layering, NEW l \in Layers
    PROVE  /\ Deactivate(ls, l) \in Layering
           /\ \A k \in Layers : /\ Deactivate(ls, l)[k].toggled = ls[k].toggled
                                /\ Deactivate(ls, l)[k].oneshot_depth = ls[k].oneshot_depth
                                /\ k # l => Deactivate(ls, l)[k].active = ls[k].active
           /\ Deactivate(ls, l)[l].active = ls[l].active - 1
  BY DEF Deactivate, Layering, LayerState

LEMMA ClearOneshotType ==
    ASSUME NEW ls \in Layering
    PROVE  /\ ClearOneshot(ls) \in Layering
           /\ \A l \in Layers : /\ ClearOneshot(ls)[l].toggled = ls[l].toggled
                                /\ ClearOneshot(ls)[l].oneshot_depth = 0
                                /\ ClearOneshot(ls)[l].active = ls[l].active - ls[l].oneshot_depth
<1> DEFINE left(l) == ls[l].active - ls[l].oneshot_depth
<1>1. \A l \in Layers : left(l) \in Int
  BY DEF Layering, LayerState
<1>2. ClearOneshot(ls) = [l \in Layers |-> [ls[l] EXCEPT !.active = left(l), !.oneshot_depth = 0]]
  BY DEF ClearOneshot
<1> SUFFICES /\ ClearOneshot(ls) \in Layering
             /\ \A l \in Layers : /\ ClearOneshot(ls)[l].toggled = ls[l].toggled
                                  /\ ClearOneshot(ls)[l].oneshot_depth = 0
                                  /\ ClearOneshot(ls)[l].active = left(l)
  OBVIOUS
<1> HIDE DEF left
<1>3. ASSUME NEW l \in Layers
      PROVE  /\ ClearOneshot(ls)[l] \in LayerState
             /\ ClearOneshot(ls)[l].toggled = ls[l].toggled
             /\ ClearOneshot(ls)[l].oneshot_depth = 0
             /\ ClearOneshot(ls)[l].active = left(l)
  <2> DEFINE r == ls[l]
             s == ClearOneshot(ls)[l]
             n == left(l)
  <2>1. s = [r EXCEPT !.active = n, !.oneshot_depth = 0]
    BY <1>2
  <2>2. r \in LayerState /\ n \in Int
    BY <1>1 DEF Layering
  <2> HIDE DEF r, s, n
  <2>3. s \in LayerState /\ s.toggled = r.toggled /\ s.oneshot_depth = 0 /\ s.active = n
    BY <2>1, <2>2 DEF LayerState
  <2> QED  BY <2>3 DEF r, s, n
<1> QED  BY <1>2, <1>3 DEF Layering

LEMMA ClearLayersType ==
    ASSUME NEW ls \in Layering
    PROVE  /\ ClearLayers(ls) \in Layering
           /\ \A l \in Layers :
                /\ ClearLayers(ls)[l].oneshot_depth = 0
                /\ IsTarget(l) => /\ ClearLayers(ls)[l].toggled = 0
                                  /\ ClearLayers(ls)[l].active
                                       = ls[l].active - ls[l].oneshot_depth - ls[l].toggled
                /\ ~IsTarget(l) => /\ ClearLayers(ls)[l].toggled = ls[l].toggled
                                   /\ ClearLayers(ls)[l].active = ls[l].active - ls[l].oneshot_depth
<1> DEFINE ls1 == ClearOneshot(ls)
<1>1. /\ ls1 \in Layering
      /\ \A l \in Layers : /\ ls1[l].toggled = ls[l].toggled
                           /\ ls1[l].oneshot_depth = 0
                           /\ ls1[l].active = ls[l].active - ls[l].oneshot_depth
  BY ClearOneshotType
<1> DEFINE left(l) == ls1[l].active - ls1[l].toggled
<1>2. \A l \in Layers : left(l) \in Int
                        /\ left(l) = ls[l].active - ls[l].oneshot_depth - ls[l].toggled
  BY <1>1 DEF Layering, LayerState
<1>3. ClearLayers(ls) = [l \in Layers |->
          IF IsTarget(l) THEN [ls1[l] EXCEPT !.active = left(l), !.toggled = 0] ELSE ls1[l]]
  BY DEF ClearLayers, IsTarget
<1> HIDE DEF ls1, left
<1>4. ClearLayers(ls) \in Layering
  BY <1>1, <1>2, <1>3 DEF Layering, LayerState
<1>5. ASSUME NEW l \in Layers, IsTarget(l)
      PROVE  /\ ClearLayers(ls)[l].oneshot_depth = 0
             /\ ClearLayers(ls)[l].toggled = 0 /\ ClearLayers(ls)[l].active = left(l)
  BY <1>1, <1>3, <1>5 DEF Layering, LayerState
<1>6. ASSUME NEW l \in Layers, ~IsTarget(l) PROVE ClearLayers(ls)[l] = ls1[l]
  BY <1>3, <1>6
<1> QED  BY <1>1, <1>2, <1>4, <1>5, <1>6

LEMMA SetLayoutLayersType ==
    ASSUME NEW ls \in Layering, NEW idx \in Layers
    PROVE  /\ SetLayoutLayers(ls, idx) \in Layering
           /\ \A l \in Layers :
                /\ SetLayoutLayers(ls, idx)[l].toggled = ClearLayers(ls)[l].toggled
                /\ SetLayoutLayers(ls, idx)[l].oneshot_depth = 0
                /\ SetLayoutLayers(ls, idx)[l].active \in {0, 1, ClearLayers(ls)[l].active}
                /\ (l # idx \/ idx = 0) /\ LayerType[l] # "layout"
                       => SetLayoutLayers(ls, idx)[l].active = ClearLayers(ls)[l].active
<1> DEFINE ls1 == ClearLayers(ls)
<1>1. ls1 \in Layering /\ \A l \in Layers : ls1[l].oneshot_depth = 0
  BY ClearLayersType
<1>2. SetLayoutLayers(ls, idx) = [l \in Layers |->
         IF idx # 0 /\ l = idx THEN [ls1[l] EXCEPT !.active = 1, !.at = 1]
         ELSE IF LayerType[l] = "layout" THEN [ls1[l] EXCEPT !.active = 0]
         ELSE ls1[l]]
  BY DEF SetLayoutLayers
<1>3. ASSUME NEW l \in Layers
      PROVE  /\ SetLayoutLayers(ls, idx)[l] \in LayerState
             /\ SetLayoutLayers(ls, idx)[l].toggled = ls1[l].toggled
             /\ SetLayoutLayers(ls, idx)[l].oneshot_depth = 0
             /\ SetLayoutLayers(ls, idx)[l].active \in {0, 1, ls1[l].active}
             /\ (l # idx \/ idx = 0) /\ LayerType[l] # "layout"
                  => SetLayoutLayers(ls, idx)[l].active = ls1[l].active
  <2> DEFINE r == ls1[l]
             s == SetLayoutLayers(ls, idx)[l]
  <2>1. r \in LayerState /\ r.oneshot_depth = 0
    BY <1>1 DEF Layering
  <2>2. s = IF idx # 0 /\ l = idx THEN [r EXCEPT !.active = 1, !.at = 1]
            ELSE IF LayerType[l] = "layout" THEN [r EXCEPT !.active = 0] ELSE r
    BY <1>2
  <2> HIDE DEF r, s
  <2> {0, 1} \subseteq Nat /\ {0, 1} \subseteq Int  OBVIOUS
  <2>3. ASSUME s = [r EXCEPT !.active = 1, !.at = 1]
        PROVE  /\ s \in LayerState /\ s.active = 1
               /\ s.toggled = r.toggled /\ s.oneshot_depth = r.oneshot_depth
    BY <2>1, <2>3 DEF LayerState
  <2>4. ASSUME s = [r EXCEPT !.active = 0]
        PROVE  /\ s \in LayerState /\ s.active = 0
               /\ s.toggled = r.toggled /\ s.oneshot_depth = r.oneshot_depth
    BY <2>1, <2>4 DEF LayerState
  <2>5. (l # idx \/ idx = 0) /\ LayerType[l] # "layout" => s.active = r.active
    BY <2>2
  <2>6. /\ s \in LayerState
        /\ s.toggled = r.toggled /\ s.oneshot_depth = r.oneshot_depth
        /\ s.active = 0 \/ s.active = 1 \/ s.active = r.active
    BY <2>1, <2>2, <2>3, <2>4
  <2> QED  BY <2>1, <2>5, <2>6 DEF r, s
<1> QED  BY <1>2, <1>3 DEF Layering

-----------------------------------------------------------------------------
(* Descriptors, the cache and the timeouts.                                *)

LEMMA NoDescType == NoDesc \in Runnable /\ NoDesc \in Descriptor
<1>1. 0 \in Layers /\ 0 \in Acts /\ 0 \in MacroIds /\ NoKey \in Codes /\ "none" \in Ops /\ {} \subseteq Mods
  BY LayersFinite, CodesAssumption, CodesOfMods DEF Ops
<1>2. /\ "none" \notin LayerArgOps /\ "none" \notin ToggleOps /\ "none" # "layout"
      /\ "none" \notin OneshotOps \cup SwapOps
  BY DEF LayerArgOps, HoldOps, ToggleOps, OneshotOps, SwapOps, TapHoldOps
<1> QED  BY <1>1, <1>2 DEF NoDesc, Runnable, Descriptor

LEMMA KeySequenceType ==
    ASSUME NEW code \in Codes, NEW mods \in SUBSET Mods
    PROVE  KeySequence(code, mods) \in Runnable
<1>1. /\ "keysequence" \in Ops /\ "keysequence" \notin LayerArgOps /\ "keysequence" \notin ToggleOps
      /\ "keysequence" \notin OneshotOps \cup SwapOps
  BY DEF Ops, LayerArgOps, HoldOps, ToggleOps, OneshotOps, SwapOps, TapHoldOps
<1> QED  BY <1>1, NoDescType DEF KeySequence, Runnable, Descriptor

LEMMA LayerActionType ==
    ASSUME NEW l \in Layers, IsTarget(l)
    PROVE  LayerAction("layer", l) \in Runnable
<1>1. "layer" \in Ops /\ "layer" \notin ToggleOps /\ "layer" \notin OneshotOps \cup SwapOps
  BY DEF Ops, LayerArgOps, HoldOps, ToggleOps, OneshotOps, SwapOps
<1> QED  BY <1>1, NoDescType DEF LayerAction, Runnable, Descriptor

\* A binding is a descriptor the engine may run.
LEMMA ConfigDescsType ==
    /\ ConfigDescs \subseteq Runnable
    /\ \A a \in Acts : DescTable[a] \in ConfigDescs
    /\ \A l \in Layers : \A c \in DOMAIN Keymap[l] : Keymap[l][c] \in ConfigDescs
    /\ \A l \in Layers : \A i \in DOMAIN Chords[l] :
            Chords[l][i].d \in ConfigDescs /\ Chords[l][i] \in Chord
<1>1. /\ \A a \in Acts : DescTable[a] \in ConfigDescs
      /\ \A l \in Layers : \A c \in DOMAIN Keymap[l] : Keymap[l][c] \in ConfigDescs
      /\ \A l \in Layers : \A i \in DOMAIN Chords[l] : Chords[l][i].d \in ConfigDescs
  <2>1. \A a \in Acts : DescTable[a] \in NestedDescs
    BY DEF NestedDescs
  <2>5. NestedDescs \subseteq ConfigDescs
    BY DEF ConfigDescs
  <2>2. ASSUME NEW l \in Layers PROVE LayerDescs(l) \subseteq ConfigDescs
    BY DEF ConfigDescs
  <2>3. ASSUME NEW l \in Layers, NEW c \in DOMAIN Keymap[l] PROVE Keymap[l][c] \in LayerDescs(l)
    BY DEF LayerDescs
  <2>4. ASSUME NEW l \in Layers, NEW i \in DOMAIN Chords[l] PROVE Chords[l][i].d \in LayerDescs(l)
    BY DEF LayerDescs
  <2> QED  BY <2>1, <2>2, <2>3, <2>4, <2>5
<1>2. ASSUME NEW l \in Layers, NEW i \in DOMAIN Chords[l] PROVE Chords[l][i] \in Chord
  BY BindingsAssumption
<1>3. ASSUME NEW d \in ConfigDescs PROVE d \in Runnable
  <2>1. d \in Descriptor
    <3>1. ASSUME NEW l \in Layers, d \in LayerDescs(l) PROVE d \in Descriptor
      <4>1. CASE \E c \in DOMAIN Keymap[l] : d = Keymap[l][c]
        BY <4>1, BindingsAssumption
      <4>2. CASE \E i \in DOMAIN Chords[l] : d = Chords[l][i].d
        BY <1>2, <4>2 DEF Chord
      <4> QED  BY <3>1, <4>1, <4>2 DEF LayerDescs
    <3>2. NestedDescs \subseteq Descriptor
      BY BindingsAssumption DEF NestedDescs
    <3> QED  BY <3>1, <3>2 DEF ConfigDescs
  <2>2. /\ d.op \in BoundOps
        /\ d.op = "overload" => d.act \in TapActs
        /\ d.op = "overloadi" => {d.act, d.act2} \subseteq IdleActs
        /\ d.op \in ToggleOps => d.layer \in ToggledLayers
        /\ d.op \in OneshotOps \cup SwapOps => d.layer \in OneshotLayers
        /\ d.op = "clearm" => d.macro \in ClearMacros
    BY DEF BoundOps, TapActs, IdleActs, ToggledLayers, OneshotLayers, ClearMacros
  <2> QED  BY <2>1, <2>2, TargetsAssumption DEF Runnable, IsTarget
<1> QED  BY <1>1, <1>2, <1>3

LEMMA CacheTypes ==
    ASSUME NEW c \in [Slots -> Entry], NEW code \in Codes
    PROVE  /\ \A d \in Runnable, dl \in Layers : CacheSet(c, code, d, dl) \in [Slots -> Entry]
           /\ CacheClear(c, code) \in [Slots -> Entry]
           /\ \A l \in Layers : CacheLayer(c, code, l) \in [Slots -> Entry]
<1>1. EmptySlot \in Entry
  BY NoDescType, LayersFinite, CodesOfMods DEF EmptySlot, Entry
<1>2. CacheClear(c, code) \in [Slots -> Entry]
  BY <1>1 DEF CacheClear
<1>3. ASSUME NEW d \in Runnable, NEW dl \in Layers
      PROVE  CacheSet(c, code, d, dl) \in [Slots -> Entry]
  BY LayersFinite DEF CacheSet, Entry
<1>4. ASSUME NEW l \in Layers PROVE CacheLayer(c, code, l) \in [Slots -> Entry]
  BY DEF CacheLayer, Entry
<1> QED  BY <1>2, <1>3, <1>4

LEMMA LookupType ==
    ASSUME active_chords \in [ChordSlots -> ActiveChord], NEW code \in Codes
    PROVE  LookupDescriptor(code).d \in Runnable /\ LookupDescriptor(code).dl \in Layers
<1>1. CASE code \in ChordCodes
  <2> DEFINE i == CHOOSE s \in ChordSlots : ChordCode[s] = code
  <2>1. i \in ChordSlots
    BY <1>1 DEF ChordCodes
  <2> HIDE DEF i
  <2>2. active_chords[i].d \in Runnable /\ active_chords[i].layer \in Layers
    BY <2>1 DEF ActiveChord
  <2> QED  BY <1>1, <2>2 DEF LookupDescriptor, i
<1>2. CASE code \notin ChordCodes
  <2> DEFINE best == IF BestComposite(code) # {} THEN BestComposite(code) ELSE NewestBinding(code)
             l == CHOOSE k \in best : TRUE
  <2>1. \A k \in best : k \in Layers /\ code \in DOMAIN Keymap[k]
    BY DEF BestComposite, NewestBinding, MatchingComposites, Active, Bound
  <2>2. LookupDescriptor(code) = IF best = {} THEN [d |-> KeySequence(code, {}), dl |-> 0]
                                 ELSE [d |-> Keymap[l][code], dl |-> l]
    BY <1>2 DEF LookupDescriptor
  <2>3. best # {} => l \in best
    OBVIOUS
  <2> HIDE DEF best, l
  <2>4. KeySequence(code, {}) \in Runnable /\ 0 \in Layers
    BY KeySequenceType, LayersFinite
  <2> QED  BY <2>1, <2>2, <2>3, <2>4, ConfigDescsType
<1> QED  BY <1>1, <1>2

LEMMA TimeoutTypes ==
    ASSUME TimeoutsOK, NEW t \in Nat
    PROVE  /\ Scheduled(t) \subseteq Nat \X Nat /\ IsFiniteSet(Scheduled(t))
           /\ Live(t) \subseteq Nat \X Nat /\ IsFiniteSet(Live(t))
           /\ NextDue(t) \in Nat
<1> USE DEF TimeoutsOK
<1>1. Live(t) \subseteq timeouts /\ IsFiniteSet(Live(t))
  BY FS_Subset DEF Live
<1>2. Cardinality({x \in timeouts : x[1] = t}) \in Nat
  BY FS_Subset, FS_CardinalityType
<1>3. Scheduled(t) \subseteq Nat \X Nat /\ IsFiniteSet(Scheduled(t))
  <2> DEFINE x == <<t, Cardinality({y \in timeouts : y[1] = t})>>
  <2>1. x \in Nat \X Nat /\ Scheduled(t) = timeouts \cup {x}
    BY <1>2 DEF Scheduled
  <2> HIDE DEF x
  <2> QED  BY <2>1, FS_AddElement
<1>4. NextDue(t) \in Nat
  <2> DEFINE later == {x[1] : x \in Live(t)}
             first == {u \in later : \A v \in later : u <= v}
  <2>1. \A u \in first : u \in Nat
    BY <1>1
  <2>2. NextDue(t) = IF first = {} THEN 0 ELSE CHOOSE u \in first : TRUE
    BY DEF NextDue
  <2> HIDE DEF first
  <2> QED  BY <2>1, <2>2
<1> QED  BY <1>1, <1>3, <1>4

-----------------------------------------------------------------------------
(* Frames.                                                                 *)

\* What a frame carries at each program counter.
LEMMA FrameFields ==
    ASSUME NEW f \in Frame
    PROVE  /\ f.pc \in {"events", "due"} => f.evs \in Seq(Event) /\ f.due \in Nat
           /\ f.pc \in {"chord", "pending", "timers", "key"} =>
                f.code \in Codes /\ f.pressed \in BOOLEAN /\ f.time \in Nat
           /\ f.pc = "descriptor" => /\ f.code \in Codes /\ f.d \in Runnable /\ f.dl \in Layers
                                     /\ f.pressed \in BOOLEAN /\ f.time \in Nat
           /\ f.pc = "recache" => f.code \in Codes /\ f.d \in Runnable
           /\ f.pc = "exit" => f.time \in Nat
           /\ f.pc = "idle" <=> f = IdleCall
<1>1. CASE f \in [pc: {"idle", "resolved", "no chord slot"}]
  <2>1. f.pc \in {"idle", "resolved", "no chord slot"} /\ f = [pc |-> f.pc]
    BY <1>1
  <2>2. ASSUME f.pc = "idle" PROVE f = IdleCall
    BY <2>1, <2>2, Zenon DEF IdleCall
  <2>3. IdleCall.pc = "idle"
    BY DEF IdleCall
  <2> QED  BY <2>1, <2>2, <2>3
<1>2. CASE f \in [pc: {"events", "due"}, evs: Seq(Event), due: Nat]
  BY <1>2 DEF IdleCall
<1>3. CASE f \in [pc: {"chord", "pending", "timers", "key"}, code: Codes,
                  pressed: BOOLEAN, time: Nat]
  BY <1>3 DEF IdleCall
<1>4. CASE f \in [pc: {"descriptor"}, code: Codes, d: Runnable, dl: Layers,
                  pressed: BOOLEAN, time: Nat]
  BY <1>4 DEF IdleCall
<1>5. CASE f \in [pc: {"recache"}, code: Codes, d: Runnable]
  BY <1>5 DEF IdleCall
<1>6. CASE f \in [pc: {"exit"}, time: Nat]
  BY <1>6 DEF IdleCall
<1> QED  BY <1>1, <1>2, <1>3, <1>4, <1>5, <1>6 DEF Frame

LEMMA FrameMakers ==
    /\ IdleCall \in Frame /\ ChordResolved \in Frame /\ [pc |-> "no chord slot"] \in Frame
    /\ \A evs \in Seq(Event) : ProcessEvents(evs) \in Frame
    /\ \A pc \in {"events", "due"}, evs \in Seq(Event), due \in Nat :
            Loop(pc, evs, due) \in Frame
    /\ \A pc \in {"chord", "pending", "timers", "key"}, code \in Codes, pressed \in BOOLEAN,
          time \in Nat : ProcessEvent(pc, code, pressed, time) \in Frame
    /\ \A code \in Codes, d \in Runnable, dl \in Layers, pressed \in BOOLEAN, time \in Nat :
            ProcessDescriptor(code, d, dl, pressed, time) \in Frame
    /\ \A code \in Codes, d \in Runnable : Recache(code, d) \in Frame
    /\ \A time \in Nat : ExitEvent(time) \in Frame
  BY DEF Frame, IdleCall, ChordResolved, ProcessEvents, Loop, ProcessEvent, ProcessDescriptor,
         Recache, ExitEvent

\* None of them is the idle loop.
LEMMA FramesRun ==
    /\ ChordResolved # IdleCall /\ [pc |-> "no chord slot"] # IdleCall
    /\ \A evs : ProcessEvents(evs) # IdleCall
    /\ \A pc \in {"events", "due"} : \A evs, due : Loop(pc, evs, due) # IdleCall
    /\ \A pc \in {"chord", "pending", "timers", "key"} : \A code, pressed, time :
            ProcessEvent(pc, code, pressed, time) # IdleCall
    /\ \A code, d, dl, pressed, time : ProcessDescriptor(code, d, dl, pressed, time) # IdleCall
    /\ \A code, d : Recache(code, d) # IdleCall
    /\ \A time : ExitEvent(time) # IdleCall
  BY DEF IdleCall, ChordResolved, ProcessEvents, Loop, ProcessEvent, ProcessDescriptor,
         Recache, ExitEvent

-----------------------------------------------------------------------------
(* The call stack.                                                         *)

Running == Frame \ {IdleCall}

LEMMA StackGoto ==
    ASSUME NEW c, NEW cs, WellStacked(c, cs), c # IdleCall, NEW f \in Running
    PROVE  WellStacked(f, cs)
  BY DEF WellStacked, Running

LEMMA StackCall ==
    ASSUME NEW c, NEW cs, WellStacked(c, cs), c # IdleCall,
           NEW f \in Running, NEW ks \in Seq(Running)
    PROVE  WellStacked(f, ks \o cs)
<1> DEFINE n == Len(ks)
           m == Len(cs)
           all == ks \o cs
<1>1. /\ cs \in Seq(Frame) /\ cs # <<>> /\ ks \in Seq(Frame) /\ n \in Nat /\ m \in Nat
      /\ \A i \in 1 .. n : ks[i] # IdleCall
      /\ \A i \in 1 .. m : cs[i] = IdleCall <=> i = m
  BY DEF WellStacked, Running
<1>2. /\ all \in Seq(Frame) /\ Len(all) = n + m
      /\ \A i \in 1 .. n + m : all[i] = IF i <= n THEN ks[i] ELSE cs[i - n]
  BY <1>1, ConcatProperties
<1>3. m > 0
  BY <1>1, EmptySeq
<1>4. all # <<>> /\ DOMAIN all = 1 .. n + m
  BY <1>1, <1>2, <1>3
<1>5. ASSUME NEW i \in 1 .. n + m PROVE all[i] = IdleCall <=> i = n + m
  <2>1. CASE i <= n
    BY <1>1, <1>2, <1>3, <2>1
  <2>2. CASE i > n
    <3>1. i - n \in 1 .. m /\ all[i] = cs[i - n]
      BY <1>1, <1>2, <2>2
    <3> QED  BY <1>1, <3>1
  <2> QED  BY <1>1, <2>1, <2>2
<1> HIDE DEF all
<1> QED  BY <1>2, <1>4, <1>5 DEF WellStacked, Running, all

LEMMA StackReturn ==
    ASSUME NEW c, NEW cs, WellStacked(c, cs), c # IdleCall
    PROVE  /\ Head(cs) \in Frame
           /\ WellStacked(Head(cs), Tail(cs))
           /\ \A f \in Running : Head(cs) # IdleCall => WellStacked(f, Tail(cs))
<1> DEFINE m == Len(cs)
           h == Head(cs)
           t == Tail(cs)
<1>1. /\ cs \in Seq(Frame) /\ cs # <<>> /\ m \in Nat
      /\ \A i \in 1 .. m : cs[i] = IdleCall <=> i = m
  BY DEF WellStacked
<1>2. m > 0
  BY <1>1, EmptySeq
<1>3. /\ h \in Frame /\ t \in Seq(Frame) /\ Len(t) = m - 1
      /\ \A i \in 1 .. Len(t) : t[i] = cs[i + 1]
  BY <1>1, HeadTailProperties
<1>4. h = cs[1]
  BY <1>1
<1> HIDE DEF h, t, m
<1>5. h = IdleCall <=> t = <<>>
  <2>1. 1 \in 1 .. m
    BY <1>1, <1>2
  <2>2. h = IdleCall <=> m = 1
    BY <1>1, <1>4, <2>1
  <2>3. t = <<>> <=> Len(t) = 0
    BY <1>3, EmptySeq
  <2> QED  BY <1>1, <1>3, <2>2, <2>3
<1>6. ASSUME NEW i \in DOMAIN t PROVE t[i] = IdleCall <=> i = Len(t)
  <2>1. i \in 1 .. Len(t)
    BY <1>3
  <2>2. i \in 1 .. m - 1 /\ i + 1 \in 1 .. m
    BY <1>1, <1>3, <2>1
  <2> QED  BY <1>1, <1>3, <2>1, <2>2
<1>7. WellStacked(h, t)
  BY <1>3, <1>5, <1>6 DEF WellStacked
<1>8. ASSUME NEW f \in Running, h # IdleCall PROVE WellStacked(f, t)
  BY <1>3, <1>5, <1>6, <1>8 DEF WellStacked, Running
<1> QED  BY <1>3, <1>7, <1>8 DEF h, t

LEMMA StackCallIdle ==
    ASSUME NEW cs, WellStacked(IdleCall, cs), NEW f \in Running
    PROVE  WellStacked(f, <<IdleCall>> \o cs)
<1>1. cs = <<>>
  BY DEF WellStacked
<1>2. IdleCall \in Frame
  BY FrameMakers
<1> <<IdleCall>> \in Seq(Frame)
  BY <1>2
<1>3. <<IdleCall>> \o cs = <<IdleCall>>
  BY <1>1, <1>2, ConcatEmptySeq
<1> QED  BY <1>2, <1>3 DEF WellStacked, Running

\* The activations the actions make, one lemma for each shape.
LEMMA NewEvents ==
    ASSUME NEW evs \in Seq(Event)  PROVE ProcessEvents(evs) \in Running
  BY FrameMakers, FramesRun DEF Running
LEMMA NewLoop ==
    ASSUME NEW pc \in {"events", "due"}, NEW evs \in Seq(Event), NEW due \in Nat
    PROVE  Loop(pc, evs, due) \in Running
  BY FrameMakers, FramesRun DEF Running
LEMMA NewEvent ==
    ASSUME NEW pc \in {"chord", "pending", "timers", "key"}, NEW code \in Codes,
           NEW pressed \in BOOLEAN, NEW time \in Nat
    PROVE  ProcessEvent(pc, code, pressed, time) \in Running
  BY FrameMakers, FramesRun DEF Running
LEMMA NewDescriptor ==
    ASSUME NEW code \in Codes, NEW d \in Runnable, NEW dl \in Layers,
           NEW pressed \in BOOLEAN, NEW time \in Nat
    PROVE  ProcessDescriptor(code, d, dl, pressed, time) \in Running
  BY FrameMakers, FramesRun DEF Running
LEMMA NewTails ==
    /\ ChordResolved \in Running /\ [pc |-> "no chord slot"] \in Running
    /\ \A code \in Codes, d \in Runnable : Recache(code, d) \in Running
    /\ \A time \in Nat : ExitEvent(time) \in Running
  BY FrameMakers, FramesRun DEF Running

LEMMA GotoType ==
    ASSUME StackOK, call # IdleCall, NEW f \in Running, Goto(f)  PROVE StackOK'
  BY StackGoto DEF StackOK, Goto
LEMMA CallThen1Type ==
    ASSUME StackOK, call # IdleCall, NEW f \in Running, NEW k \in Running, CallThen(f, <<k>>)
    PROVE  StackOK'
<1>1. <<k>> \in Seq(Running)  OBVIOUS
<1> QED  BY <1>1, StackCall DEF StackOK, CallThen
LEMMA CallThen2Type ==
    ASSUME StackOK, call # IdleCall, NEW f \in Running,
           NEW k1 \in Running, NEW k2 \in Running, CallThen(f, <<k1, k2>>)
    PROVE  StackOK'
<1>1. <<k1, k2>> \in Seq(Running)  OBVIOUS
<1> QED  BY <1>1, StackCall DEF StackOK, CallThen
LEMMA CallThen3Type ==
    ASSUME StackOK, call # IdleCall, NEW f \in Running,
           NEW k1 \in Running, NEW k2 \in Running, NEW k3 \in Running, CallThen(f, <<k1, k2, k3>>)
    PROVE  StackOK'
<1>1. <<k1, k2, k3>> \in Seq(Running)  OBVIOUS
<1> QED  BY <1>1, StackCall DEF StackOK, CallThen
LEMMA ReturnType ==
    ASSUME StackOK, call # IdleCall, Return  PROVE StackOK'
  BY StackReturn DEF StackOK, Return

-----------------------------------------------------------------------------
(* The parts of TypeOK.                                                    *)

LEMMA Unchanging ==
    ASSUME TypeOK
    PROVE  /\ UNCHANGED layerVars => LayersOK'
           /\ UNCHANGED keyVars => KeysOK'
           /\ UNCHANGED chordVars => ChordsOK'
           /\ UNCHANGED modeVars => ModesOK'
           /\ UNCHANGED recent => RecentOK'
           /\ UNCHANGED timeouts => TimeoutsOK'
           /\ UNCHANGED envVars => EnvOK'
           /\ UNCHANGED out => (out \in Output)'
  BY DEF TypeOK, LayersOK, KeysOK, ChordsOK, ModesOK, RecentOK, TimeoutsOK, EnvOK,
         layerVars, keyVars, chordVars, modeVars, envVars

LEMMA AssertsType ==
    ASSUME TypeOK, Asserts  PROVE AbortOK'
<1>1. FailedAssert \in {"none", "active > 0", "nr_timeouts", "pending_key.queue_sz",
                        "chord.queue_sz", "chord code"}
  BY DEF FailedAssert
<1>2. saturated' \in BOOLEAN
  BY DEF TypeOK, AbortOK, Asserts, CounterFull
<1> QED  BY <1>1, <1>2 DEF Asserts, AbortOK

LEMMA SetLayersType ==
    ASSUME NEW ls \in Layering, SetLayers(ls)
    PROVE  layer_state' \in [Layers -> LayerState]
  BY PackedType DEF SetLayers, Layering

LEMMA LayersTyped ==
    ASSUME TypeOK
    PROVE  /\ layer_state \in Layering /\ activated \in BOOLEAN /\ out \in Output
           /\ call \in Frame /\ StackOK
  BY DEF TypeOK, LayersOK, Layering, StackOK, WellStacked

-----------------------------------------------------------------------------
(* kbd_process_events.                                                     *)

LEMMA NextEventType ==
    ASSUME TypeOK, NextEvent  PROVE TypeOK'
<1> DEFINE e == Head(call.evs)
<1>1. call.evs \in Seq(Event) /\ call.evs # <<>> /\ call.due \in Nat /\ call # IdleCall
  BY LayersTyped, FrameFields DEF NextEvent, IdleCall
<1>2. e \in Event /\ Tail(call.evs) \in Seq(Event)
  BY <1>1, HeadTailProperties
<1>3. /\ Loop("due", Tail(call.evs), call.due) \in Running
      /\ ProcessEvent("chord", e.code, e.pressed, e.time) \in Running
  BY <1>1, <1>2, NewLoop, NewEvent DEF Event
<1>4. StackOK'
  BY <1>1, <1>3, LayersTyped, CallThen1Type DEF NextEvent
<1> QED  BY <1>4, Unchanging, AssertsType DEF NextEvent, TypeOK

LEMMA DueBeforeNextEventType ==
    ASSUME TypeOK, DueBeforeNextEvent  PROVE TypeOK'
<1>1. call.evs \in Seq(Event) /\ call.due \in Nat /\ call # IdleCall
  BY LayersTyped, FrameFields DEF DueBeforeNextEvent, IdleCall
<1>2. /\ Loop("due", call.evs, call.due) \in Running
      /\ ProcessEvent("chord", NoKey, FALSE, call.due) \in Running
  BY <1>1, NewLoop, NewEvent, CodesOfMods
<1>3. StackOK'
  BY <1>1, <1>2, LayersTyped, CallThen1Type DEF DueBeforeNextEvent
<1> QED  BY <1>3, Unchanging, AssertsType DEF DueBeforeNextEvent, TypeOK

LEMMA EventsDoneType ==
    ASSUME TypeOK, EventsDone  PROVE TypeOK'
<1>1. call.due \in Nat /\ call # IdleCall
  BY LayersTyped, FrameFields DEF EventsDone, IdleCall
<1>2. StackOK'
  BY <1>1, LayersTyped, ReturnType DEF EventsDone
<1>3. EnvOK'
  BY <1>1 DEF EventsDone, TypeOK, EnvOK
<1> QED  BY <1>2, <1>3, Unchanging, AssertsType DEF EventsDone, TypeOK

LEMMA ExitType ==
    ASSUME TypeOK, Exit  PROVE TypeOK'
<1>1. call.time \in Nat /\ call # IdleCall
  BY LayersTyped, FrameFields DEF Exit, IdleCall
<1>2. timeouts' \subseteq Nat \X Nat /\ IsFiniteSet(timeouts') /\ NextDue(call.time) \in Nat
  BY <1>1, TimeoutTypes DEF Exit, TypeOK
<1>3. Head(callers) \in Frame /\ WellStacked(Head(callers), Tail(callers))
  BY <1>1, LayersTyped, StackReturn DEF StackOK
<1>4. StackOK'
  <2> DEFINE h == Head(callers)
             f == Loop("events", h.evs, NextDue(call.time))
  <2>1. CASE h.pc = "due"
    <3>1. h.evs \in Seq(Event) /\ h # IdleCall
      BY <1>3, <2>1, FrameFields DEF IdleCall
    <3>2. f \in Running
      BY <1>2, <3>1, NewLoop
    <3>3. call' = f /\ callers' = Tail(callers)
      BY <2>1 DEF Exit
    <3> HIDE DEF h, f
    <3> QED  BY <1>1, <3>1, <3>2, <3>3, LayersTyped, StackReturn DEF StackOK, h
  <2>2. CASE h.pc # "due"
    BY <1>3, <2>2 DEF Exit, StackOK
  <2> QED  BY <2>1, <2>2
<1> QED  BY <1>2, <1>4, Unchanging, AssertsType DEF Exit, TypeOK, TimeoutsOK

-----------------------------------------------------------------------------
(* handle_chord.                                                           *)

LEMMA ChordUpdates ==
    ASSUME NEW c \in Chording
    PROVE  /\ \A st \in {"inactive", "disambiguation", "hold", "resolving"} :
                    [c EXCEPT !.state = st] \in Chording
           /\ \A q \in Seq(Event) : [c EXCEPT !.queue = q] \in Chording
           /\ \A m \in ChordMatch, t \in Nat :
                    [c EXCEPT !.match = m, !.last_code_time = t] \in Chording
           /\ [c EXCEPT !.match = NoMatch] \in Chording
           /\ NoChord \in Chording
  BY EmptySeq DEF Chording, ChordMatch, NoChord

LEMMA ChordRefType ==
    ASSUME NEW p \in ChordRefs
    PROVE  /\ p[1] \in Layers /\ p[2] \in DOMAIN Chords[p[1]]
           /\ Chords[p[1]][p[2]].keys \in SUBSET Keys
           /\ Cardinality(Chords[p[1]][p[2]].keys) \in Nat
           /\ Chords[p[1]][p[2]].d \in Runnable
<1>1. p[1] \in Layers /\ p[2] \in DOMAIN Chords[p[1]]
  BY DEF ChordRefs
<1>2. Chords[p[1]][p[2]] \in Chord /\ Chords[p[1]][p[2]].d \in Runnable
  BY <1>1, ConfigDescsType
<1>3. Chords[p[1]][p[2]].keys \in SUBSET Keys
  BY <1>2 DEF Chord
<1> QED  BY <1>1, <1>2, <1>3, CodesAssumption, FS_Subset, FS_CardinalityType

LEMMA BestMatchType ==
    ASSUME NEW q, NEW was \in ChordMatch
    PROVE  BestMatch(q, was) \in ChordMatch
<1> DEFINE best == {p \in FullMatches(q) : ~ \E r \in FullMatches(q) : ChordBefore(p, r)}
<1>1. FullMatches(q) \subseteq ChordRefs
  BY DEF FullMatches, MatchesOf, ActiveChordsOf, Active, ChordRefs
<1>2. BestMatch(q, was) = IF best = {} THEN was ELSE CHOOSE p \in best : TRUE
  BY DEF BestMatch
<1>3. best \subseteq ChordRefs
  BY <1>1
<1> HIDE DEF best
<1> QED  BY <1>2, <1>3 DEF ChordMatch

\* What happens in process_event: the event it handles, and a place to return to.
HandlesEvent == /\ call # IdleCall
                /\ call.code \in Codes /\ call.pressed \in BOOLEAN /\ call.time \in Nat

LEMMA EventStages ==
    ASSUME TypeOK, call.pc \in {"chord", "pending", "timers", "key"}
    PROVE  HandlesEvent /\ ThisEvent \in Event
  BY LayersTyped, FrameFields DEF HandlesEvent, IdleCall, ThisEvent, Event

LEMMA EnqueuedType ==
    ASSUME NEW c \in Chording, ThisEvent \in Event
    PROVE  Enqueued(c) \in Chording
<1>1. c.queue \in Seq(Event)
  BY DEF Chording
<1>2. Append(c.queue, ThisEvent) \in Seq(Event)
  BY <1>1, AppendProperties
<1> QED  BY <1>2, ChordUpdates DEF Enqueued

LEMMA ResolveChordType ==
    ASSUME TypeOK, HandlesEvent, NEW c \in Chording, ResolveChord(c)
    PROVE  ChordsOK' /\ TimeoutsOK' /\ StackOK'
<1>1. chord' \in Chording /\ TimeoutsOK'
  BY ChordUpdates, Unchanging DEF ResolveChord
<1>2. active_chords \in [ChordSlots -> ActiveChord]
  BY DEF TypeOK, ChordsOK
<1>3. ExitEvent(call.time) \in Running /\ ChordResolved \in Running /\ StackOK /\ call # IdleCall
  BY NewTails, LayersTyped DEF HandlesEvent
<1>4. c.queue \in Seq(Event) /\ c.match \in ChordMatch /\ c.last_code_time \in Nat
  BY DEF Chording
<1>5. CASE c.match = NoMatch
  <2>1. ProcessEvents(c.queue) \in Running
    BY <1>4, NewEvents
  <2>2. StackOK'
    BY <1>3, <1>5, <2>1, CallThen2Type DEF ResolveChord
  <2> QED  BY <1>1, <1>2, <1>5, <2>2 DEF ResolveChord, ChordsOK
<1>6. CASE c.match # NoMatch
  <2> DEFINE m == Chords[c.match[1]][c.match[2]]
             rest == SubSeq(c.queue, Cardinality(m.keys) + 1, Len(c.queue))
  <2>1. /\ c.match[1] \in Layers /\ m.keys \in SUBSET Keys
        /\ Cardinality(m.keys) \in Nat /\ m.d \in Runnable
    BY <1>4, <1>6, ChordRefType DEF ChordMatch
  <2>2. rest \in Seq(Event)
    <3>1. \A i \in Cardinality(m.keys) + 1 .. Len(c.queue) : c.queue[i] \in Event
      BY <1>4, <2>1
    <3>2. Cardinality(m.keys) + 1 \in Int /\ Len(c.queue) \in Int
      BY <1>4, <2>1
    <3> HIDE DEF m
    <3> QED  BY <3>1, <3>2, SubSeqProperties
  <2>3. CASE FreeChordSlots = {}
    BY <1>1, <1>2, <1>3, <1>6, <2>3, GotoType, NewTails DEF ResolveChord, ChordsOK
  <2>4. ASSUME NEW i \in FreeChordSlots,
               active_chords' = [active_chords EXCEPT ![i] =
                                   [keys |-> m.keys, d |-> m.d, layer |-> c.match[1]]],
               CallThen(ProcessEvent("chord", ChordCode[i], TRUE, c.last_code_time),
                        <<ProcessEvents(rest), ChordResolved, ExitEvent(call.time)>>)
        PROVE  ChordsOK' /\ StackOK'
    <3>1. i \in ChordSlots /\ ChordCode[i] \in Codes
      BY CodesOfMods DEF FreeChordSlots, ChordCodes
    <3>2. /\ ProcessEvent("chord", ChordCode[i], TRUE, c.last_code_time) \in Running
          /\ ProcessEvents(rest) \in Running
      BY <1>4, <2>2, <3>1, NewEvent, NewEvents
    <3> HIDE DEF m, rest
    <3>3. StackOK'
      BY <1>3, <2>4, <3>2, CallThen3Type
    <3>4. active_chords' \in [ChordSlots -> ActiveChord]
      BY <1>2, <2>1, <2>4 DEF ActiveChord
    <3> QED  BY <1>1, <3>3, <3>4 DEF ChordsOK
  <2> QED  BY <1>1, <1>6, <2>3, <2>4 DEF ResolveChord
<1> QED  BY <1>5, <1>6

LEMMA AwaitChordType ==
    ASSUME TypeOK, HandlesEvent, NEW c \in Chording, NEW until \in Nat, AwaitChord(c, until)
    PROVE  ChordsOK' /\ TimeoutsOK' /\ StackOK'
<1>1. ExitEvent(call.time) \in Running /\ StackOK /\ call # IdleCall
  BY NewTails, LayersTyped DEF HandlesEvent
<1>2. StackOK'
  BY <1>1, GotoType DEF AwaitChord
<1>3. TimeoutsOK'
  BY TimeoutTypes DEF AwaitChord, TypeOK, TimeoutsOK
<1> QED  BY <1>2, <1>3 DEF AwaitChord, TypeOK, ChordsOK

LEMMA DisambiguateType ==
    ASSUME TypeOK, HandlesEvent, NEW c \in Chording, Disambiguate(c)
    PROVE  ChordsOK' /\ TimeoutsOK' /\ StackOK'
<1> DEFINE c1 == [c EXCEPT !.match = BestMatch(c.queue, c.match), !.last_code_time = call.time]
<1>1. c1 \in Chording
  BY BestMatchType, ChordUpdates DEF HandlesEvent, Chording
<1> HIDE DEF c1
<1>2. [c1 EXCEPT !.state = "disambiguation"] \in Chording /\ [c1 EXCEPT !.state = "hold"] \in Chording
  BY <1>1, ChordUpdates
<1>3. call.time + ChordInterkeyTimeout \in Nat /\ call.time + ChordHoldTimeout \in Nat
  BY TimeoutsAssumption DEF HandlesEvent
<1>4. \/ AwaitChord([c1 EXCEPT !.state = "disambiguation"], call.time + ChordInterkeyTimeout)
      \/ AwaitChord([c1 EXCEPT !.state = "hold"], call.time + ChordHoldTimeout)
      \/ ResolveChord(c1)
  BY DEF Disambiguate, c1
<1> QED  BY <1>1, <1>2, <1>3, <1>4, AwaitChordType, ResolveChordType

LEMMA AbortChordType ==
    ASSUME TypeOK, HandlesEvent, NEW c \in Chording, AbortChord(c)
    PROVE  ChordsOK' /\ TimeoutsOK' /\ StackOK'
  BY ChordUpdates, ResolveChordType DEF AbortChord

LEMMA NotHandledByChordType ==
    ASSUME TypeOK, HandlesEvent, NotHandledByChord
    PROVE  ChordsOK' /\ TimeoutsOK' /\ StackOK'
<1>1. Stage("pending") \in Running /\ StackOK /\ call # IdleCall
  BY NewEvent, LayersTyped DEF HandlesEvent, Stage
<1> QED  BY <1>1, GotoType, Unchanging DEF NotHandledByChord

\* A branch of handle_chord changes the chord, the timeouts and the stack.
LEMMA InChordHandlerType ==
    ASSUME TypeOK, NEW st, InChordHandler(st), ChordsOK', TimeoutsOK', StackOK', Asserts
    PROVE  TypeOK'
  BY Unchanging, AssertsType DEF InChordHandler, TypeOK

LEMMA ReleaseChordKeyType ==
    ASSUME TypeOK, ReleaseChordKey  PROVE TypeOK'
<1>1. HandlesEvent
  BY EventStages DEF ReleaseChordKey
<1>2. active_chords \in [ChordSlots -> ActiveChord]
  BY DEF TypeOK, ChordsOK
<1>3. PICK i \in ChordOfRelease :
         /\ active_chords' = [active_chords EXCEPT ![i].keys = @ \ {call.code}]
         /\ IF active_chords[i].keys = {call.code}
            THEN CallThen(ProcessEvent("chord", ChordCode[i], FALSE, call.time),
                          <<ExitEvent(call.time)>>)
            ELSE Goto(ExitEvent(call.time))
  BY DEF ReleaseChordKey
<1>4. i \in ChordSlots /\ ChordCode[i] \in Codes
  BY CodesOfMods DEF ChordOfRelease, ChordCodes
<1>5. active_chords' \in [ChordSlots -> ActiveChord]
  BY <1>2, <1>3, <1>4 DEF ActiveChord
<1>6. /\ ProcessEvent("chord", ChordCode[i], FALSE, call.time) \in Running
      /\ ExitEvent(call.time) \in Running
  BY <1>1, <1>4, NewEvent, NewTails DEF HandlesEvent
<1>7. StackOK'
  BY <1>1, <1>3, <1>6, LayersTyped, GotoType, CallThen1Type DEF HandlesEvent
<1>8. ChordsOK'
  BY <1>5 DEF ReleaseChordKey, TypeOK, ChordsOK
<1> QED  BY <1>7, <1>8, Unchanging, AssertsType DEF ReleaseChordKey, TypeOK

LEMMA ChordResolvingType ==
    ASSUME TypeOK, ChordResolving  PROVE TypeOK'
<1>1. HandlesEvent
  BY EventStages DEF ChordResolving, InChordHandler
<1> QED  BY <1>1, NotHandledByChordType, InChordHandlerType DEF ChordResolving

LEMMA ChordInactiveType ==
    ASSUME TypeOK, ChordInactive  PROVE TypeOK'
<1>1. HandlesEvent /\ ThisEvent \in Event
  BY EventStages DEF ChordInactive, InChordHandler
<1> DEFINE fresh == IF call.code = NoKey THEN NoChord ELSE Enqueued(NoChord)
<1>2. fresh \in Chording
  <2>1. NoChord \in Chording
    BY ChordUpdates, EmptySeq DEF Chording, NoChord, ChordMatch
  <2> QED  BY <1>1, <2>1, EnqueuedType
<1>3. NotHandledByChord \/ Disambiguate(fresh)
  BY DEF ChordInactive
<1> HIDE DEF fresh
<1>4. ChordsOK' /\ TimeoutsOK' /\ StackOK'
  BY <1>1, <1>2, <1>3, NotHandledByChordType, DisambiguateType
<1> QED  BY <1>4, InChordHandlerType DEF ChordInactive

LEMMA ChordDisambiguationType ==
    ASSUME TypeOK, ChordDisambiguation  PROVE TypeOK'
<1>1. HandlesEvent /\ ThisEvent \in Event
  BY EventStages DEF ChordDisambiguation, InChordHandler
<1>2. /\ chord \in Chording /\ Enqueued(chord) \in Chording
      /\ [chord EXCEPT !.state = "hold"] \in Chording
  BY <1>1, EnqueuedType, ChordUpdates DEF TypeOK, ChordsOK
<1>3. ChordHoldTimeout > ChordInterkeyTimeout
        => call.time + ChordHoldTimeout - ChordInterkeyTimeout \in Nat
  BY <1>1, TimeoutsAssumption DEF HandlesEvent
<1>4. \/ NotHandledByChord
      \/ AbortChord(chord)
      \/ ResolveChord(chord)
      \/ /\ ChordHoldTimeout > ChordInterkeyTimeout
         /\ AwaitChord([chord EXCEPT !.state = "hold"],
                       call.time + ChordHoldTimeout - ChordInterkeyTimeout)
      \/ AbortChord(Enqueued(chord))
      \/ Disambiguate(Enqueued(chord))
  BY DEF ChordDisambiguation
<1>5. ChordsOK' /\ TimeoutsOK' /\ StackOK'
  BY <1>1, <1>2, <1>3, <1>4, NotHandledByChordType, AbortChordType, ResolveChordType,
     AwaitChordType, DisambiguateType
<1> QED  BY <1>5, InChordHandlerType DEF ChordDisambiguation

LEMMA ChordHoldType ==
    ASSUME TypeOK, ChordHold  PROVE TypeOK'
<1>1. HandlesEvent /\ ThisEvent \in Event
  BY EventStages DEF ChordHold, InChordHandler
<1>2. chord \in Chording /\ Enqueued(chord) \in Chording
  BY <1>1, EnqueuedType DEF TypeOK, ChordsOK
<1>3. \/ NotHandledByChord
      \/ ResolveChord(chord)
      \/ AbortChord(Enqueued(chord))
      \/ /\ chord' = Enqueued(chord)
         /\ Goto(ExitEvent(call.time))
         /\ UNCHANGED <<active_chords, timeouts>>
  BY DEF ChordHold
<1>4. ASSUME chord' = Enqueued(chord), Goto(ExitEvent(call.time)),
             UNCHANGED <<active_chords, timeouts>>
      PROVE  ChordsOK' /\ TimeoutsOK' /\ StackOK'
  <2>1. ExitEvent(call.time) \in Running
    BY <1>1, NewTails DEF HandlesEvent
  <2>2. StackOK'
    BY <1>1, <1>4, <2>1, LayersTyped, GotoType DEF HandlesEvent
  <2> QED  BY <1>2, <1>4, <2>2, Unchanging DEF TypeOK, ChordsOK
<1>5. ChordsOK' /\ TimeoutsOK' /\ StackOK'
  BY <1>1, <1>2, <1>3, <1>4, NotHandledByChordType, AbortChordType, ResolveChordType
<1> QED  BY <1>5, InChordHandlerType DEF ChordHold

LEMMA LeaveChordType ==
    ASSUME TypeOK, LeaveChord  PROVE TypeOK'
<1>1. call # IdleCall
  BY DEF LeaveChord, IdleCall
<1>2. StackOK'
  BY <1>1, LayersTyped, ReturnType DEF LeaveChord
<1>3. NoChord \in Chording
  BY EmptySeq DEF Chording, NoChord, ChordMatch
<1>4. ChordsOK'
  BY <1>3 DEF LeaveChord, TypeOK, ChordsOK
<1> QED  BY <1>2, <1>4, Unchanging, AssertsType DEF LeaveChord, TypeOK

-----------------------------------------------------------------------------
(* handle_pending_key.                                                     *)

LEMMA NotPendingType ==
    ASSUME TypeOK, NotPending  PROVE TypeOK'
<1>1. HandlesEvent
  BY EventStages DEF NotPending
<1>2. Stage("timers") \in Running
  BY <1>1, NewEvent DEF HandlesEvent, Stage
<1>3. StackOK'
  BY <1>1, <1>2, LayersTyped, GotoType DEF NotPending, HandlesEvent
<1> QED  BY <1>3, Unchanging, AssertsType DEF NotPending, TypeOK

LEMMA PendingKeyType ==
    ASSUME TypeOK, PendingKey  PROVE TypeOK'
<1> DEFINE p == pending_key
           q == HoldBack(p.queue)
           action == PendingAction(q)
<1>1. HandlesEvent /\ ThisEvent \in Event
  BY EventStages DEF PendingKey
<1>2. p \in Pending /\ cache \in [Slots -> Entry]
  BY DEF TypeOK, KeysOK
<1>3. q \in Seq(Event)
  BY <1>1, <1>2, AppendProperties DEF Pending, HoldBack
<1>4. action \in Runnable /\ p.code \in Codes /\ p.dl \in Layers
  BY <1>2, NoDescType DEF PendingAction, Pending
<1>5. ExitEvent(call.time) \in Running /\ StackOK /\ call # IdleCall
  BY <1>1, NewTails, LayersTyped DEF HandlesEvent
<1>6. CASE action.op = "none"
  <2>1. pending_key' = [p EXCEPT !.queue = q] /\ Goto(ExitEvent(call.time)) /\ UNCHANGED cache
    BY <1>6 DEF PendingKey
  <2> HIDE DEF q
  <2>2. KeysOK'
    BY <1>2, <1>3, <2>1 DEF KeysOK, Pending
  <2>3. StackOK'
    BY <1>5, <2>1, GotoType
  <2> QED  BY <2>2, <2>3, Unchanging, AssertsType DEF PendingKey, TypeOK
<1>7. CASE action.op # "none"
  <2>1. /\ pending_key' = NoPending
        /\ cache' = CacheSet(cache, p.code, action, p.dl)
        /\ CallThen(ProcessDescriptor(p.code, action, p.dl, TRUE, call.time),
                    <<ProcessEvents(q), ExitEvent(call.time)>>)
    BY <1>7 DEF PendingKey
  <2> HIDE DEF p, q, action
  <2>2. NoPending \in Pending
    BY NoDescType, LayersFinite, CodesOfMods, EmptySeq DEF NoPending, Pending, Behaviours
  <2>3. CacheSet(cache, p.code, action, p.dl) \in [Slots -> Entry]
    BY <1>2, <1>4, CacheTypes
  <2>4. KeysOK'
    BY <2>1, <2>2, <2>3 DEF KeysOK
  <2>5. /\ ProcessDescriptor(p.code, action, p.dl, TRUE, call.time) \in Running
        /\ ProcessEvents(q) \in Running
    BY <1>1, <1>3, <1>4, NewDescriptor, NewEvents DEF HandlesEvent
  <2>6. StackOK'
    BY <1>5, <2>1, <2>5, CallThen2Type
  <2> QED  BY <2>4, <2>6, Unchanging, AssertsType DEF PendingKey, TypeOK
<1> QED  BY <1>6, <1>7

-----------------------------------------------------------------------------
(* The rest of process_event.                                              *)

LEMMA OneshotClearedType ==
    OneshotCleared \in [latch: BOOLEAN, timeout: Nat]
  BY DEF OneshotCleared

LEMMA TimersType ==
    ASSUME TypeOK, Timers  PROVE TypeOK'
<1> DEFINE ls == IF OneshotExpired THEN ClearOneshot(layer_state) ELSE layer_state
           o == IF OneshotExpired THEN UpdateMods(out, ls, NoLayer, {}) ELSE out
<1>1. HandlesEvent
  BY EventStages DEF Timers
<1>2. ls \in Layering /\ o \in Output
  BY LayersTyped, ClearOneshotType, UpdateModsType
<1>3. LayersOK'
  BY <1>2, LayersTyped, SetLayersType DEF Timers, LayersOK
<1>4. StackOK'
  <2>1. ExitEvent(call.time) \in Running /\ Stage("key") \in Running
    BY <1>1, NewTails, NewEvent DEF HandlesEvent, Stage
  <2> QED  BY <1>1, <2>1, LayersTyped, GotoType DEF Timers, HandlesEvent
<1>5. /\ oneshot \in [latch: BOOLEAN, timeout: Nat] /\ scroll \in BOOLEAN
      /\ macro \in [active: BOOLEAN, id: MacroIds, dl: Layers, timeout: Nat, repeat: Nat]
  BY DEF TypeOK, ModesOK
<1>6. oneshot' \in [latch: BOOLEAN, timeout: Nat] /\ scroll' = scroll
  BY <1>5, OneshotClearedType DEF Timers
<1>7. call.time + macro.repeat \in Nat
  BY <1>1, <1>5 DEF HandlesEvent
<1>8. \/ /\ macro' = [macro EXCEPT !.active = FALSE]
         /\ out' = UpdateMods(o, ls, NoLayer, {}) /\ UNCHANGED timeouts
      \/ /\ macro' = [macro EXCEPT !.timeout = call.time + macro.repeat]
         /\ out' = ExecuteMacro(o, ls, macro.dl, Macros[macro.id])
         /\ timeouts' = Scheduled(call.time + macro.repeat)
      \/ /\ macro' = macro /\ out' = o /\ UNCHANGED timeouts
  BY DEF Timers
<1> HIDE DEF ls, o
<1>9. macro' \in [active: BOOLEAN, id: MacroIds, dl: Layers, timeout: Nat, repeat: Nat]
  BY <1>5, <1>7, <1>8
<1>10. out' \in Output
  BY <1>2, <1>5, <1>8, UpdateModsType, ExecuteMacroType
<1>11. TimeoutsOK'
  BY <1>7, <1>8, TimeoutTypes, Unchanging DEF TypeOK, TimeoutsOK
<1>12. ModesOK'
  BY <1>5, <1>6, <1>9 DEF ModesOK
<1> QED  BY <1>3, <1>4, <1>10, <1>11, <1>12, Unchanging, AssertsType DEF Timers, TypeOK

LEMMA KeyPressedType ==
    ASSUME TypeOK, KeyPressed  PROVE TypeOK'
<1> DEFINE b == LookupDescriptor(call.code)
<1>1. HandlesEvent
  BY EventStages DEF KeyPressed
<1>2. b.d \in Runnable /\ b.dl \in Layers
  BY <1>1, LookupType DEF TypeOK, ChordsOK, HandlesEvent
<1>3. cache \in [Slots -> Entry] /\ pending_key \in Pending
  BY DEF TypeOK, KeysOK
<1>4. ExitEvent(call.time) \in Running /\ StackOK /\ call # IdleCall
  BY <1>1, NewTails, LayersTyped DEF HandlesEvent
<1>5. \/ Goto(ExitEvent(call.time)) /\ UNCHANGED cache
      \/ /\ cache' = CacheSet(cache, call.code, b.d, b.dl)
         /\ CallThen(ProcessDescriptor(call.code, b.d, b.dl, TRUE, call.time),
                     <<ExitEvent(call.time)>>)
  BY DEF KeyPressed
<1> HIDE DEF b
<1>6. ProcessDescriptor(call.code, b.d, b.dl, TRUE, call.time) \in Running
  BY <1>1, <1>2, NewDescriptor DEF HandlesEvent
<1>7. StackOK'
  BY <1>4, <1>5, <1>6, GotoType, CallThen1Type
<1>8. CacheSet(cache, call.code, b.d, b.dl) \in [Slots -> Entry]
  BY <1>1, <1>2, <1>3, CacheTypes DEF HandlesEvent
<1>9. KeysOK'
  BY <1>3, <1>5, <1>8 DEF KeyPressed, KeysOK
<1> QED  BY <1>7, <1>9, Unchanging, AssertsType DEF KeyPressed, TypeOK

LEMMA KeyReleasedType ==
    ASSUME TypeOK, KeyReleased  PROVE TypeOK'
<1>1. HandlesEvent
  BY EventStages DEF KeyReleased
<1>2. cache \in [Slots -> Entry] /\ pending_key \in Pending
  BY DEF TypeOK, KeysOK
<1>3. ExitEvent(call.time) \in Running /\ StackOK /\ call # IdleCall
  BY <1>1, NewTails, LayersTyped DEF HandlesEvent
<1>4. CASE Goto(ExitEvent(call.time)) /\ UNCHANGED cache
  <2>1. KeysOK'
    BY <1>2, <1>4 DEF KeyReleased, KeysOK
  <2>2. StackOK'
    BY <1>3, <1>4, GotoType
  <2> QED  BY <2>1, <2>2, Unchanging, AssertsType DEF KeyReleased, TypeOK
<1>5. ASSUME NEW i \in Cached(cache, call.code), cache' = CacheClear(cache, call.code),
             CallThen(ProcessDescriptor(call.code, cache[i].d, cache[i].dl, FALSE, call.time),
                      <<ExitEvent(call.time)>>)
      PROVE  TypeOK'
  <2>1. cache[i].d \in Runnable /\ cache[i].dl \in Layers
    BY <1>2 DEF Cached, Entry
  <2>2. ProcessDescriptor(call.code, cache[i].d, cache[i].dl, FALSE, call.time) \in Running
    BY <1>1, <2>1, NewDescriptor DEF HandlesEvent
  <2>3. StackOK'
    BY <1>3, <1>5, <2>2, CallThen1Type
  <2>4. CacheClear(cache, call.code) \in [Slots -> Entry]
    BY <1>1, <1>2, CacheTypes DEF HandlesEvent
  <2>5. KeysOK'
    BY <1>2, <1>5, <2>4 DEF KeyReleased, KeysOK
  <2> QED  BY <2>3, <2>5, Unchanging, AssertsType DEF KeyReleased, TypeOK
<1> QED  BY <1>4, <1>5 DEF KeyReleased

-----------------------------------------------------------------------------
(* process_descriptor.                                                     *)

LEMMA DescriptorRuns ==
    ASSUME TypeOK, call.pc = "descriptor"
    PROVE  /\ call # IdleCall /\ call.code \in Codes /\ call.d \in Runnable /\ call.dl \in Layers
           /\ call.pressed \in BOOLEAN /\ call.time \in Nat
           /\ call.d.code \in Codes /\ call.d.mods \in SUBSET Mods
           /\ call.d.layer \in Layers /\ call.d.macro \in MacroIds
           /\ call.d.act \in Acts /\ call.d.act2 \in Acts
           /\ call.d.timeout \in Nat /\ call.d.repeat \in Nat
           /\ call.d.op \in LayerArgOps => IsTarget(call.d.layer)
<1>1. /\ call # IdleCall /\ call.code \in Codes /\ call.d \in Runnable /\ call.dl \in Layers
      /\ call.pressed \in BOOLEAN /\ call.time \in Nat
  BY LayersTyped, FrameFields DEF IdleCall
<1> QED  BY <1>1 DEF Runnable, Descriptor

LEMMA DoneType ==
    ASSUME TypeOK, call.pc = "descriptor", Done
    PROVE  StackOK' /\ RecentOK'
<1>1. StackOK'
  BY LayersTyped, DescriptorRuns, ReturnType DEF Done
<1>2. RecentOK'
  BY DescriptorRuns DEF Done, NotePress, TypeOK, RecentOK
<1> QED  BY <1>1, <1>2

LEMMA MacroFirstType ==
    ASSUME TypeOK, call.pc = "descriptor"
    PROVE  MacroFirst \in Output
  BY LayersTyped, DescriptorRuns, ExecuteMacroType DEF MacroFirst

\* The modes, one field at a time.
LEMMA ModesTyped ==
    ASSUME TypeOK
    PROVE  /\ oneshot \in [latch: BOOLEAN, timeout: Nat] /\ scroll \in BOOLEAN
           /\ macro \in [active: BOOLEAN, id: MacroIds, dl: Layers, timeout: Nat, repeat: Nat]
           /\ cache \in [Slots -> Entry] /\ pending_key \in Pending
           /\ recent \in [last_pressed_code: Codes, overload_start_time: Nat,
                          last_simple_key_time: Nat]
  BY DEF TypeOK, ModesOK, KeysOK, RecentOK

LEMMA OpKeySequenceType ==
    ASSUME TypeOK, OpKeySequence  PROVE TypeOK'
<1> DEFINE d == call.d
           o1 == IF d.code \in out.keystate THEN SendKey(out, d.code, FALSE) ELSE out
           o2 == UpdateMods(o1, layer_state, call.dl, d.mods)
<1>1. call.pc = "descriptor"
  BY DEF OpKeySequence, Executing
<1>2. d.code \in Codes /\ call.time \in Nat /\ call.code \in Codes /\ call # IdleCall
  BY <1>1, DescriptorRuns
<1>3. o1 \in Output /\ SendKey(out, d.code, FALSE) \in Output
  BY <1>2, LayersTyped, SendKeyType
<1>4. o2 \in Output
  BY <1>3, UpdateModsType
<1>5. SendKey(o2, d.code, TRUE) \in Output
  BY <1>2, <1>4, SendKeyType
<1>6. UpdateMods(SendKey(out, d.code, FALSE), layer_state, NoLayer, {}) \in Output
  BY <1>3, UpdateModsType
<1>7. \/ /\ out' = SendKey(o2, d.code, TRUE) /\ SetLayers(ClearOneshot(layer_state))
         /\ oneshot' = OneshotCleared
      \/ /\ out' = UpdateMods(SendKey(out, d.code, FALSE), layer_state, NoLayer, {})
         /\ UNCHANGED <<layer_state, oneshot>>
  BY DEF OpKeySequence
<1> HIDE DEF o1, o2
<1>8. out' \in Output
  BY <1>5, <1>6, <1>7
<1>9. LayersOK'
  BY <1>7, LayersTyped, ClearOneshotType, SetLayersType DEF OpKeySequence, LayersOK, Layering
<1>10. ModesOK'
  BY <1>7, ModesTyped, OneshotClearedType DEF OpKeySequence, ModesOK
<1>11. RecentOK'
  BY <1>2, ModesTyped DEF OpKeySequence, RecentOK
<1>12. StackOK'
  BY <1>2, LayersTyped, ReturnType DEF OpKeySequence
<1> QED  BY <1>8, <1>9, <1>10, <1>11, <1>12, Unchanging, AssertsType DEF OpKeySequence, TypeOK

LEMMA OpScrollType ==
    ASSUME TypeOK, OpScroll  PROVE TypeOK'
<1>1. call.pc = "descriptor"
  BY DEF OpScroll, Executing
<1>2. StackOK' /\ RecentOK'
  BY <1>1, DoneType DEF OpScroll
<1>3. ModesOK'
  BY <1>1, ModesTyped, DescriptorRuns DEF OpScroll, ModesOK
<1> QED  BY <1>2, <1>3, Unchanging, AssertsType DEF OpScroll, TypeOK

LEMMA OpOverloadIdleType ==
    ASSUME TypeOK, OpOverloadIdle  PROVE TypeOK'
<1> DEFINE action == DescTable[IF call.time - recent.last_simple_key_time >= call.d.timeout
                               THEN call.d.act2 ELSE call.d.act]
<1>1. call.pc = "descriptor"
  BY DEF OpOverloadIdle, Executing
<1>2. action \in Runnable
  BY <1>1, DescriptorRuns, ConfigDescsType
<1>3. \/ CallThen(ProcessDescriptor(call.code, action, call.dl, TRUE, call.time),
                  <<Recache(call.code, action)>>)
      \/ Return
  BY DEF OpOverloadIdle
<1> HIDE DEF action
<1>4. /\ ProcessDescriptor(call.code, action, call.dl, TRUE, call.time) \in Running
      /\ Recache(call.code, action) \in Running
  BY <1>1, <1>2, DescriptorRuns, NewDescriptor, NewTails
<1>5. StackOK'
  BY <1>1, <1>3, <1>4, DescriptorRuns, LayersTyped, CallThen1Type, ReturnType
<1> QED  BY <1>5, Unchanging, AssertsType DEF OpOverloadIdle, TypeOK

LEMMA RecacheActionType ==
    ASSUME TypeOK, RecacheAction  PROVE TypeOK'
<1>1. call.code \in Codes /\ call.d \in Runnable /\ call # IdleCall
  BY LayersTyped, FrameFields DEF RecacheAction, IdleCall
<1>2. StackOK'
  BY <1>1, LayersTyped, ReturnType DEF RecacheAction
<1>3. cache' \in [Slots -> Entry]
  BY <1>1, ModesTyped DEF RecacheAction, Entry
<1>4. KeysOK' /\ RecentOK'
  BY <1>1, <1>3, ModesTyped DEF RecacheAction, KeysOK, RecentOK
<1> QED  BY <1>2, <1>4, Unchanging, AssertsType DEF RecacheAction, TypeOK

LEMMA BecomePendingType ==
    ASSUME TypeOK, call.pc = "descriptor", NEW behaviour \in Behaviours, NEW expire \in Nat,
           NEW action1 \in Runnable, NEW action2 \in Runnable, UNCHANGED cache,
           BecomePending(behaviour, expire, action1, action2)
    PROVE  KeysOK' /\ TimeoutsOK'
<1>1. call.code \in Codes /\ call.dl \in Layers
  BY DescriptorRuns
<1>2. pending_key' \in Pending
  BY <1>1, ModesTyped DEF BecomePending, Pending
<1>3. TimeoutsOK'
  BY TimeoutTypes DEF BecomePending, TypeOK, TimeoutsOK
<1> QED  BY <1>2, <1>3, ModesTyped DEF KeysOK

LEMMA OpOverloadTimeoutType ==
    ASSUME TypeOK, OpOverloadTimeout  PROVE TypeOK'
<1> DEFINE d == call.d
           behaviour == IF d.op = "overloadt2" THEN "uninterruptible_tap_action2"
                        ELSE "uninterruptible"
<1>1. call.pc = "descriptor" /\ d.op \in LayerArgOps
  BY DEF OpOverloadTimeout, Executing, LayerArgOps, TapHoldOps
<1>2. /\ behaviour \in Behaviours /\ call.time + d.timeout \in Nat
      /\ DescTable[d.act] \in Runnable /\ LayerAction("layer", d.layer) \in Runnable
  BY <1>1, DescriptorRuns, ConfigDescsType, LayerActionType DEF Behaviours
<1>3. \/ BecomePending(behaviour, call.time + d.timeout,
                       DescTable[d.act], LayerAction("layer", d.layer))
      \/ UNCHANGED <<pending_key, timeouts>>
  BY DEF OpOverloadTimeout
<1> HIDE DEF d, behaviour
<1>4. KeysOK' /\ TimeoutsOK'
  <2>1. CASE BecomePending(behaviour, call.time + d.timeout,
                           DescTable[d.act], LayerAction("layer", d.layer))
    BY <1>1, <1>2, <2>1, BecomePendingType DEF OpOverloadTimeout
  <2>2. CASE UNCHANGED <<pending_key, timeouts>>
    BY <2>2, ModesTyped, Unchanging DEF OpOverloadTimeout, KeysOK
  <2> QED  BY <1>3, <2>1, <2>2
<1>5. StackOK' /\ RecentOK'
  BY <1>1, DoneType DEF OpOverloadTimeout
<1> QED  BY <1>4, <1>5, Unchanging, AssertsType DEF OpOverloadTimeout, TypeOK

LEMMA OpTimeoutType ==
    ASSUME TypeOK, OpTimeout  PROVE TypeOK'
<1> DEFINE d == call.d
<1>1. call.pc = "descriptor"
  BY DEF OpTimeout, Executing
<1>2. /\ "interrupt_action1" \in Behaviours /\ call.time + d.timeout \in Nat
      /\ DescTable[d.act] \in Runnable /\ DescTable[d.act2] \in Runnable
  BY <1>1, DescriptorRuns, ConfigDescsType DEF Behaviours
<1>3. \/ BecomePending("interrupt_action1", call.time + d.timeout,
                       DescTable[d.act], DescTable[d.act2])
      \/ UNCHANGED <<pending_key, timeouts>>
  BY DEF OpTimeout
<1> HIDE DEF d
<1>4. KeysOK' /\ TimeoutsOK'
  <2>1. CASE BecomePending("interrupt_action1", call.time + d.timeout,
                           DescTable[d.act], DescTable[d.act2])
    BY <1>1, <1>2, <2>1, BecomePendingType DEF OpTimeout
  <2>2. CASE UNCHANGED <<pending_key, timeouts>>
    BY <2>2, ModesTyped, Unchanging DEF OpTimeout, KeysOK
  <2> QED  BY <1>3, <2>1, <2>2
<1>5. StackOK' /\ RecentOK'
  BY <1>1, DoneType DEF OpTimeout
<1> QED  BY <1>4, <1>5, Unchanging, AssertsType DEF OpTimeout, TypeOK

LEMMA OpLayerType ==
    ASSUME TypeOK, OpLayer  PROVE TypeOK'
<1> DEFINE l == call.d.layer
           ls == IF call.pressed THEN Activate(layer_state, l) ELSE Deactivate(layer_state, l)
<1>1. call.pc = "descriptor"
  BY DEF OpLayer, Executing
<1>2. ls \in Layering /\ l \in Layers
  BY <1>1, LayersTyped, DescriptorRuns, ActivateType, DeactivateType
<1>3. out' \in Output
  BY <1>1, MacroFirstType, UpdateModsType DEF OpLayer
<1>4. LayersOK'
  <2>1. SetLayers(ls) /\ activated' \in BOOLEAN
    BY <1>1, LayersTyped, DescriptorRuns DEF OpLayer
  <2> HIDE DEF ls
  <2> QED  BY <1>2, <2>1, SetLayersType DEF LayersOK
<1>5. KeysOK'
  BY <1>1, <1>2, ModesTyped, DescriptorRuns, CacheTypes DEF OpLayer, KeysOK
<1>6. StackOK' /\ RecentOK'
  BY <1>1, DoneType DEF OpLayer
<1> QED  BY <1>3, <1>4, <1>5, <1>6, Unchanging, AssertsType DEF OpLayer, TypeOK

\* Setting one field of one layer.
LEMMA SetFieldType ==
    ASSUME NEW ls \in Layering, NEW l \in Layers
    PROVE  /\ \A t \in {0, 1} :
                /\ [ls EXCEPT ![l].toggled = t] \in Layering
                /\ \A k \in Layers :
                     /\ [ls EXCEPT ![l].toggled = t][k].active = ls[k].active
                     /\ [ls EXCEPT ![l].toggled = t][k].oneshot_depth = ls[k].oneshot_depth
                     /\ [ls EXCEPT ![l].toggled = t][k].toggled = IF k = l THEN t ELSE ls[k].toggled
           /\ \A n \in Nat :
                /\ [ls EXCEPT ![l].oneshot_depth = n] \in Layering
                /\ \A k \in Layers :
                     /\ [ls EXCEPT ![l].oneshot_depth = n][k].active = ls[k].active
                     /\ [ls EXCEPT ![l].oneshot_depth = n][k].toggled = ls[k].toggled
                     /\ [ls EXCEPT ![l].oneshot_depth = n][k].oneshot_depth
                            = IF k = l THEN n ELSE ls[k].oneshot_depth
<1>1. ASSUME NEW t \in {0, 1} PROVE [ls EXCEPT ![l].toggled = t] \in Layering
  BY DEF Layering, LayerState
<1>2. ASSUME NEW n \in Nat PROVE [ls EXCEPT ![l].oneshot_depth = n] \in Layering
  BY DEF Layering, LayerState
<1>3. ASSUME NEW t \in {0, 1}, NEW k \in Layers
      PROVE  /\ [ls EXCEPT ![l].toggled = t][k].active = ls[k].active
             /\ [ls EXCEPT ![l].toggled = t][k].oneshot_depth = ls[k].oneshot_depth
             /\ [ls EXCEPT ![l].toggled = t][k].toggled = IF k = l THEN t ELSE ls[k].toggled
  BY DEF Layering, LayerState
<1>4. ASSUME NEW n \in Nat, NEW k \in Layers
      PROVE  /\ [ls EXCEPT ![l].oneshot_depth = n][k].active = ls[k].active
             /\ [ls EXCEPT ![l].oneshot_depth = n][k].toggled = ls[k].toggled
             /\ [ls EXCEPT ![l].oneshot_depth = n][k].oneshot_depth
                    = IF k = l THEN n ELSE ls[k].oneshot_depth
  BY DEF Layering, LayerState
<1> QED  BY <1>1, <1>2, <1>3, <1>4

\* What clear() and setlayout() do to the modes.
LEMMA ClearModesType ==
    ASSUME TypeOK, ClearModes \/ UNCHANGED <<oneshot, macro>>, scroll' = scroll
    PROVE  ModesOK'
  BY ModesTyped, OneshotClearedType DEF ClearModes, ModesOK

LEMMA OpClearType ==
    ASSUME TypeOK, OpClear  PROVE TypeOK'
<1> DEFINE ls == ClearLayers(layer_state)
           o == ResetKeystate(out)
<1>1. call.pc = "descriptor"
  BY DEF OpClear, Executing
<1>2. ls \in Layering /\ o \in Output /\ ExecuteMacro(o, ls, call.dl, Macros[call.d.macro]) \in Output
  BY <1>1, LayersTyped, DescriptorRuns, ClearLayersType, ResetKeystateType, ExecuteMacroType
<1>3. \/ /\ SetLayers(ls) /\ ClearModes
         /\ out' = o \/ out' = ExecuteMacro(o, ls, call.dl, Macros[call.d.macro])
      \/ UNCHANGED <<layer_state, oneshot, macro, out>>
  BY DEF OpClear
<1> HIDE DEF ls, o
<1>4. out' \in Output
  BY <1>2, <1>3, LayersTyped
<1>5. LayersOK'
  BY <1>2, <1>3, LayersTyped, SetLayersType DEF OpClear, LayersOK, Layering
<1>6. ModesOK'
  BY <1>3, ClearModesType DEF OpClear
<1>7. StackOK' /\ RecentOK'
  BY <1>1, DoneType DEF OpClear
<1> QED  BY <1>4, <1>5, <1>6, <1>7, Unchanging, AssertsType DEF OpClear, TypeOK

LEMMA OpLayoutType ==
    ASSUME TypeOK, OpLayout  PROVE TypeOK'
<1> DEFINE ls == SetLayoutLayers(layer_state, call.d.layer)
<1>1. call.pc = "descriptor"
  BY DEF OpLayout, Executing
<1>2. ls \in Layering /\ ResetKeystate(out) \in Output
  BY <1>1, LayersTyped, DescriptorRuns, SetLayoutLayersType, ResetKeystateType
<1>3. \/ SetLayers(ls) /\ ClearModes /\ out' = ResetKeystate(out)
      \/ UNCHANGED <<layer_state, oneshot, macro, out>>
  BY DEF OpLayout
<1> HIDE DEF ls
<1>4. out' \in Output
  BY <1>2, <1>3, LayersTyped
<1>5. LayersOK'
  BY <1>2, <1>3, LayersTyped, SetLayersType DEF OpLayout, LayersOK, Layering
<1>6. ModesOK'
  BY <1>3, ClearModesType DEF OpLayout
<1>7. StackOK' /\ RecentOK'
  BY <1>1, DoneType DEF OpLayout
<1> QED  BY <1>4, <1>5, <1>6, <1>7, Unchanging, AssertsType DEF OpLayout, TypeOK

LEMMA OverloadPressedType ==
    ASSUME TypeOK, OverloadPressed  PROVE TypeOK'
<1> DEFINE l == call.d.layer
           ls == Activate(layer_state, l)
<1>1. call.pc = "descriptor"
  BY DEF OverloadPressed, Executing
<1>2. ls \in Layering /\ l \in Layers
  BY <1>1, LayersTyped, DescriptorRuns, ActivateType
<1>3. out' \in Output
  BY LayersTyped, UpdateModsType DEF OverloadPressed
<1>4. LayersOK'
  BY <1>2, SetLayersType DEF OverloadPressed, LayersOK
<1>5. KeysOK'
  BY <1>1, <1>2, ModesTyped, DescriptorRuns, CacheTypes DEF OverloadPressed, KeysOK
<1>6. StackOK'
  BY <1>1, LayersTyped, DescriptorRuns, ReturnType DEF OverloadPressed
<1>7. RecentOK'
  BY <1>1, ModesTyped, DescriptorRuns DEF OverloadPressed, RecentOK
<1> QED  BY <1>3, <1>4, <1>5, <1>6, <1>7, Unchanging, AssertsType DEF OverloadPressed, TypeOK

LEMMA OverloadReleasedType ==
    ASSUME TypeOK, OverloadReleased  PROVE TypeOK'
<1> DEFINE ls == Deactivate(layer_state, call.d.layer)
           o == UpdateMods(out, ls, NoLayer, {})
           action == DescTable[call.d.act]
<1>1. call.pc = "descriptor"
  BY DEF OverloadReleased, Executing
<1>2. ls \in Layering /\ o \in Output /\ action \in Runnable
  BY <1>1, LayersTyped, DescriptorRuns, DeactivateType, UpdateModsType, ConfigDescsType
<1>3. action.macro \in MacroIds
  BY <1>2 DEF Runnable, Descriptor
<1>4. /\ SetLayers(ls)
      /\ out' = o \/ out' = ExecuteMacro(o, ls, call.dl, Macros[action.macro])
      /\ \/ CallThen(ProcessDescriptor(call.code, action, call.dl, TRUE, call.time),
                     <<ProcessDescriptor(call.code, action, call.dl, FALSE, call.time)>>)
         \/ Return
  BY DEF OverloadReleased
<1> HIDE DEF ls, o, action
<1>5. out' \in Output
  BY <1>2, <1>3, <1>4, ExecuteMacroType
<1>6. LayersOK'
  BY <1>2, <1>4, LayersTyped, SetLayersType DEF OverloadReleased, LayersOK
<1>7. \A pressed \in BOOLEAN : ProcessDescriptor(call.code, action, call.dl, pressed, call.time) \in Running
  BY <1>1, <1>2, DescriptorRuns, NewDescriptor
<1>8. StackOK'
  BY <1>1, <1>4, <1>7, DescriptorRuns, LayersTyped, CallThen1Type, ReturnType
<1> QED  BY <1>5, <1>6, <1>8, Unchanging, AssertsType DEF OverloadReleased, TypeOK

LEMMA OneshotPressedType ==
    ASSUME TypeOK, OneshotPressed  PROVE TypeOK'
<1> DEFINE l == call.d.layer
           ls == Activate(layer_state, l)
<1>1. call.pc = "descriptor"
  BY DEF OneshotPressed, Executing
<1>2. ls \in Layering /\ l \in Layers
  BY <1>1, LayersTyped, DescriptorRuns, ActivateType
<1>3. out' \in Output
  BY <1>1, MacroFirstType, UpdateModsType DEF OneshotPressed
<1>4. LayersOK'
  BY <1>2, SetLayersType DEF OneshotPressed, LayersOK
<1>5. KeysOK'
  BY <1>1, <1>2, ModesTyped, DescriptorRuns, CacheTypes DEF OneshotPressed, KeysOK
<1>6. ModesOK'
  BY ModesTyped DEF OneshotPressed, ModesOK
<1>7. StackOK' /\ RecentOK'
  BY <1>1, DoneType DEF OneshotPressed
<1> QED  BY <1>3, <1>4, <1>5, <1>6, <1>7, Unchanging, AssertsType DEF OneshotPressed, TypeOK

LEMMA OneshotReleasedType ==
    ASSUME TypeOK, OneshotReleased  PROVE TypeOK'
<1> DEFINE l == call.d.layer
           n == (layer_state[l].oneshot_depth + 1) % CounterSize
           t == call.time + OneshotTimeout
<1>1. call.pc = "descriptor"
  BY DEF OneshotReleased, Executing
<1>2. l \in Layers /\ layer_state \in Layering /\ t \in Nat
  BY <1>1, LayersTyped, DescriptorRuns, TimeoutsAssumption
<1>3. n \in Nat
  BY <1>2, SizesAssumption DEF Layering, LayerState
<1>4. [layer_state EXCEPT ![l].oneshot_depth = n] \in Layering /\ Deactivate(layer_state, l) \in Layering
  <2> HIDE DEF n
  <2> QED  BY <1>2, <1>3, SetFieldType, DeactivateType
<1>5. /\ \/ SetLayers([layer_state EXCEPT ![l].oneshot_depth = n])
         \/ SetLayers(Deactivate(layer_state, l))
      /\ \/ UNCHANGED out
         \/ out' = UpdateMods(out, Deactivate(layer_state, l), NoLayer, {})
      /\ \/ oneshot' = [oneshot EXCEPT !.timeout = t] /\ timeouts' = Scheduled(t)
         \/ UNCHANGED <<oneshot, timeouts>>
  BY DEF OneshotReleased
<1> HIDE DEF l, n, t
<1>6. out' \in Output
  BY <1>5, LayersTyped, UpdateModsType
<1>7. LayersOK'
  BY <1>4, <1>5, LayersTyped, SetLayersType DEF OneshotReleased, LayersOK
<1>8. ModesOK'
  BY <1>2, <1>5, ModesTyped DEF OneshotReleased, ModesOK
<1>9. TimeoutsOK'
  BY <1>2, <1>5, TimeoutTypes, Unchanging DEF TypeOK, TimeoutsOK
<1>10. StackOK' /\ RecentOK'
  BY <1>1, DoneType DEF OneshotReleased
<1> QED  BY <1>6, <1>7, <1>8, <1>9, <1>10, Unchanging, AssertsType DEF OneshotReleased, TypeOK

LEMMA OpMacroType ==
    ASSUME TypeOK, OpMacro  PROVE TypeOK'
<1> DEFINE d == call.d
           ls == ClearOneshot(layer_state)
           expire == call.time + (IF d.op = "macro2" THEN d.timeout ELSE MacroTimeout)
           repeat == IF d.op = "macro2" THEN d.repeat ELSE MacroRepeatTimeout
           m == [active |-> TRUE, id |-> d.macro, dl |-> call.dl,
                 timeout |-> expire, repeat |-> repeat]
<1>1. call.pc = "descriptor"
  BY DEF OpMacro, Executing
<1>2. /\ ls \in Layering /\ d.macro \in MacroIds /\ call.dl \in Layers
      /\ expire \in Nat /\ repeat \in Nat
  BY <1>1, LayersTyped, DescriptorRuns, ClearOneshotType, TimeoutsAssumption
<1>3. \/ /\ SetLayers(ls) /\ oneshot' = OneshotCleared /\ macro' = m
         /\ out' = ExecuteMacro(out, ls, call.dl, Macros[d.macro])
         /\ timeouts' = Scheduled(expire)
      \/ UNCHANGED <<layer_state, oneshot, out, macro, timeouts>>
  BY DEF OpMacro
<1> HIDE DEF ls, d, expire, repeat
<1>4. out' \in Output
  BY <1>2, <1>3, LayersTyped, ExecuteMacroType
<1>5. LayersOK'
  BY <1>2, <1>3, LayersTyped, SetLayersType DEF OpMacro, LayersOK, Layering
<1>6. ModesOK'
  <2>1. m \in [active: BOOLEAN, id: MacroIds, dl: Layers, timeout: Nat, repeat: Nat]
    BY <1>2
  <2> HIDE DEF m
  <2>2. scroll' = scroll
    BY DEF OpMacro
  <2> QED  BY <1>3, <2>1, <2>2, ModesTyped, OneshotClearedType DEF ModesOK
<1>7. TimeoutsOK'
  BY <1>2, <1>3, TimeoutTypes, Unchanging DEF TypeOK, TimeoutsOK
<1>8. StackOK' /\ RecentOK'
  BY <1>1, DoneType DEF OpMacro
<1> QED  BY <1>4, <1>5, <1>6, <1>7, <1>8, Unchanging, AssertsType DEF OpMacro, TypeOK

LEMMA OpToggleType ==
    ASSUME TypeOK, OpToggle  PROVE TypeOK'
<1> DEFINE l == call.d.layer
           on == layer_state[l].toggled = 0
           ls == IF on THEN [Activate(layer_state, l) EXCEPT ![l].toggled = 1]
                 ELSE [Deactivate(layer_state, l) EXCEPT ![l].toggled = 0]
<1>1. call.pc = "descriptor"
  BY DEF OpToggle, Executing
<1>2. ls \in Layering /\ l \in Layers
  BY <1>1, LayersTyped, DescriptorRuns, ActivateType, DeactivateType, SetFieldType
<1>3. CASE ~call.pressed
  <2>1. UNCHANGED <<layerVars, cache, out, oneshot>>
    BY <1>3 DEF OpToggle
  <2>2. KeysOK' /\ ModesOK'
    BY <2>1, ModesTyped DEF OpToggle, KeysOK, ModesOK
  <2>3. StackOK' /\ RecentOK'
    BY <1>1, DoneType DEF OpToggle
  <2> QED  BY <2>1, <2>2, <2>3, Unchanging, AssertsType DEF OpToggle, TypeOK
<1>4. CASE call.pressed
  <2>1. /\ SetLayers(ClearOneshot(ls)) /\ oneshot' = OneshotCleared
        /\ out' = UpdateMods(MacroFirst, ls, NoLayer, {})
    BY <1>4 DEF OpToggle
  <2>2. cache' = CacheLayer(cache, call.code, l) \/ cache' = cache
    BY <1>4 DEF OpToggle
  <2>3. activated' \in BOOLEAN
    BY <1>4, LayersTyped DEF OpToggle
  <2> HIDE DEF ls, on
  <2>4. out' \in Output
    BY <1>1, <2>1, MacroFirstType, UpdateModsType
  <2>5. LayersOK'
    BY <1>2, <2>1, <2>3, ClearOneshotType, SetLayersType DEF LayersOK
  <2>6. KeysOK'
    BY <1>1, <1>2, <2>2, ModesTyped, DescriptorRuns, CacheTypes DEF OpToggle, KeysOK
  <2>7. ModesOK'
    BY <2>1, ModesTyped, OneshotClearedType DEF OpToggle, ModesOK
  <2>8. StackOK' /\ RecentOK'
    BY <1>1, DoneType DEF OpToggle
  <2> QED  BY <2>4, <2>5, <2>6, <2>7, <2>8, Unchanging, AssertsType DEF OpToggle, TypeOK
<1> QED  BY <1>3, <1>4

LEMMA OpCommandType ==
    ASSUME TypeOK, OpCommand  PROVE TypeOK'
<1> DEFINE ls == ClearOneshot(layer_state)
<1>1. call.pc = "descriptor"
  BY DEF OpCommand, Executing
<1>2. ls \in Layering
  BY LayersTyped, ClearOneshotType
<1>3. \/ /\ SetLayers(ls) /\ oneshot' = OneshotCleared
         /\ out' = UpdateMods(out, ls, NoLayer, {})
      \/ UNCHANGED <<layer_state, oneshot, out>>
  BY DEF OpCommand
<1> HIDE DEF ls
<1>4. out' \in Output
  BY <1>3, LayersTyped, UpdateModsType
<1>5. LayersOK'
  BY <1>2, <1>3, LayersTyped, SetLayersType DEF OpCommand, LayersOK, Layering
<1>6. ModesOK'
  BY <1>3, ModesTyped, OneshotClearedType DEF OpCommand, ModesOK
<1>7. StackOK' /\ RecentOK'
  BY <1>1, DoneType DEF OpCommand
<1> QED  BY <1>4, <1>5, <1>6, <1>7, Unchanging, AssertsType DEF OpCommand, TypeOK

\* Swapping a key's layer leaves it an entry of the cache.
LEMMA SwapEntryType ==
    ASSUME NEW c \in [Slots -> Entry], NEW i \in Slots, NEW l \in Layers, IsTarget(l)
    PROVE  [c EXCEPT ![i].d.op = "layer", ![i].d.layer = l, ![i].layer = l] \in [Slots -> Entry]
<1> DEFINE e == c[i]
           d == e.d
           d1 == [d EXCEPT !.op = "layer", !.layer = l]
           e1 == [e EXCEPT !.d = d1, !.layer = l]
<1>1. e \in Entry /\ d \in Runnable
  BY DEF Entry
<1>2. "layer" \in Ops /\ "layer" \notin ToggleOps /\ "layer" \notin OneshotOps \cup SwapOps
  BY DEF Ops, LayerArgOps, HoldOps, ToggleOps, OneshotOps, SwapOps
<1>3. d1 \in Runnable
  <2> HIDE DEF d
  <2> QED  BY <1>1, <1>2 DEF Runnable, Descriptor
<1>4. e1 \in Entry
  <2> HIDE DEF e, d1
  <2> QED  BY <1>1, <1>3 DEF Entry
<1>5. [c EXCEPT ![i].d.op = "layer", ![i].d.layer = l, ![i].layer = l] = [c EXCEPT ![i] = e1]
  OBVIOUS
<1> HIDE DEF e1
<1> QED  BY <1>4, <1>5

LEMMA SwapPressedType ==
    ASSUME TypeOK, SwapPressed  PROVE TypeOK'
<1> DEFINE l == call.d.layer
           dl == call.dl
           ls == Activate(Deactivate(layer_state, dl), l)
           toggled == MoveToggle(ls, dl, l)
           less == [ls EXCEPT ![dl].oneshot_depth = @ - 1]
           oneshots == [less EXCEPT ![l].oneshot_depth = (@ + 1) % CounterSize]
<1>1. call.pc = "descriptor" /\ call.d.op \in LayerArgOps
  BY DEF SwapPressed, Executing, LayerArgOps
<1>2. l \in Layers /\ dl \in Layers /\ IsTarget(l) /\ layer_state \in Layering
  BY <1>1, LayersTyped, DescriptorRuns
<1>3. ls \in Layering /\ ls[dl].oneshot_depth = layer_state[dl].oneshot_depth
  <2> DEFINE ls0 == Deactivate(layer_state, dl)
  <2>1. ls0 \in Layering /\ ls0[dl].oneshot_depth = layer_state[dl].oneshot_depth
    BY <1>2, DeactivateType
  <2>2. ls = Activate(ls0, l)
    OBVIOUS
  <2> HIDE DEF ls0, ls
  <2> QED  BY <1>2, <2>1, <2>2, ActivateType
<1>4. toggled \in Layering
  <2> HIDE DEF ls
  <2> QED  BY <1>2, <1>3, SetFieldType DEF MoveToggle
<1>5. ASSUME layer_state[dl].oneshot_depth > 0 PROVE oneshots \in Layering
  <2> HIDE DEF ls
  <2> DEFINE n == ls[dl].oneshot_depth - 1
  <2>1. n \in Nat
    BY <1>2, <1>3, <1>5 DEF Layering, LayerState
  <2>2. less = [ls EXCEPT ![dl].oneshot_depth = n]
    OBVIOUS
  <2> HIDE DEF n, less
  <2>3. less \in Layering
    BY <1>2, <1>3, <2>1, <2>2, SetFieldType
  <2> DEFINE k == (less[l].oneshot_depth + 1) % CounterSize
  <2>4. k \in Nat
    BY <1>2, <2>3, SizesAssumption DEF Layering, LayerState
  <2>5. oneshots = [less EXCEPT ![l].oneshot_depth = k]
    OBVIOUS
  <2> HIDE DEF k, oneshots
  <2> QED  BY <1>2, <2>3, <2>4, <2>5, SetFieldType
<1>6. \/ SetLayers(toggled) /\ activated' = TRUE /\ UNCHANGED cache
      \/ /\ layer_state[dl].oneshot_depth > 0
         /\ SetLayers(oneshots) /\ activated' = TRUE /\ UNCHANGED cache
      \/ /\ SetLayers(ls) /\ activated' = TRUE
         /\ \E i \in Slots : cache' = [cache EXCEPT ![i].d.op = "layer",
                                                    ![i].d.layer = l, ![i].layer = l]
      \/ UNCHANGED <<layerVars, cache>>
  BY DEF SwapPressed, SwappedSlot, Swappable
<1> HIDE DEF ls, toggled, less, oneshots
<1>7. LayersOK'
  BY <1>3, <1>4, <1>5, <1>6, SetLayersType, Unchanging DEF LayersOK
<1>8. KeysOK'
  <2>1. cache' \in [Slots -> Entry]
    <3>1. CASE cache' = cache
      BY <3>1, ModesTyped
    <3>2. ASSUME NEW i \in Slots,
                 cache' = [cache EXCEPT ![i].d.op = "layer", ![i].d.layer = l, ![i].layer = l]
          PROVE  cache' \in [Slots -> Entry]
      BY <1>2, <3>2, ModesTyped, SwapEntryType
    <3> QED  BY <1>6, <3>1, <3>2
  <2> QED  BY <2>1, ModesTyped DEF SwapPressed, KeysOK
<1>9. out' \in Output
  <2>1. \A ls1 : /\ UpdateMods(out, ls1, NoLayer, {}) \in Output
                 /\ ExecuteMacro(UpdateMods(out, ls1, NoLayer, {}), ls1, dl,
                                 Macros[call.d.macro]) \in Output
    BY <1>1, LayersTyped, DescriptorRuns, UpdateModsType, ExecuteMacroType
  <2>2. ExecuteMacro(out, layer_state, dl, Macros[call.d.macro]) \in Output /\ out \in Output
    BY <1>1, LayersTyped, DescriptorRuns, ExecuteMacroType
  <2> QED  BY <2>1, <2>2 DEF SwapPressed
<1>10. StackOK' /\ RecentOK'
  BY <1>1, DoneType DEF SwapPressed
<1> QED  BY <1>7, <1>8, <1>9, <1>10, Unchanging, AssertsType DEF SwapPressed, TypeOK

LEMMA SwapReleasedType ==
    ASSUME TypeOK, SwapReleased  PROVE TypeOK'
<1>1. call.pc = "descriptor"
  BY DEF SwapReleased, Executing
<1>2. Macros[call.d.macro] \in Macro
  BY <1>1, DescriptorRuns, BindingsAssumption
<1>3. SendKey(out, Macros[call.d.macro].code, FALSE) \in Output
  BY <1>2, LayersTyped, SendKeyType DEF Macro
<1>4. out' \in Output
  BY <1>3, LayersTyped, UpdateModsType DEF SwapReleased
<1>5. StackOK' /\ RecentOK'
  BY <1>1, DoneType DEF SwapReleased
<1> QED  BY <1>4, <1>5, Unchanging, AssertsType DEF SwapReleased, TypeOK

-----------------------------------------------------------------------------
(* The environment.                                                        *)

LEMMA ProcessOneType ==
    ASSUME TypeOK, Idle, NEW code \in Codes, NEW pressed \in BOOLEAN,
           ProcessOne(code, pressed), held' \subseteq Devices \X Keys, Asserts
    PROVE  TypeOK'
<1> DEFINE evs == <<[code |-> code, pressed |-> pressed, time |-> now]>>
<1>1. evs \in Seq(Event)
  BY DEF TypeOK, EnvOK, Event
<1> HIDE DEF evs
<1>2. CallThen(ProcessEvents(evs), <<IdleCall>>)
  BY DEF ProcessOne, evs
<1>3. ProcessEvents(evs) \in Running
  BY <1>1, NewEvents
<1>4. StackOK'
  BY <1>2, <1>3, LayersTyped, StackCallIdle DEF StackOK, CallThen, Idle
<1>5. EnvOK'
  BY DEF ProcessOne, TypeOK, EnvOK
<1> QED  BY <1>4, <1>5, Unchanging, AssertsType DEF ProcessOne, TypeOK

LEMMA EnvironmentType ==
    ASSUME TypeOK, Environment  PROVE TypeOK'
<1>1. Keys \subseteq Codes /\ NoKey \in Codes
  BY DEF Codes
<1>2. ASSUME NEW dev \in Devices, NEW key \in Keys, Press(dev, key) PROVE TypeOK'
  <2>1. held' \subseteq Devices \X Keys
    BY <1>2 DEF Press, TypeOK, EnvOK
  <2> QED  BY <1>1, <1>2, <2>1, ProcessOneType DEF Press
<1>3. ASSUME NEW dev \in Devices, NEW key \in Keys, Release(dev, key) PROVE TypeOK'
  <2>1. held' \subseteq Devices \X Keys
    BY <1>3 DEF Release, TypeOK, EnvOK
  <2> QED  BY <1>1, <1>3, <2>1, ProcessOneType DEF Release
<1>4. CASE Timeout
  BY <1>1, <1>4, ProcessOneType DEF Timeout, TypeOK, EnvOK
<1>5. CASE Tick
  <2>1. EnvOK'
    BY <1>5 DEF Tick, TypeOK, EnvOK
  <2>2. StackOK'
    BY <1>5 DEF Tick, stackVars, TypeOK, StackOK
  <2> QED  BY <1>5, <2>1, <2>2, Unchanging, AssertsType DEF Tick, TypeOK
<1> QED  BY <1>2, <1>3, <1>4, <1>5 DEF Environment

-----------------------------------------------------------------------------
(* Type correctness.                                                       *)

\* new_keyboard leaves a keyboard of the right types.
LEMMA InitType == Init => TypeOK
<1> SUFFICES ASSUME Init PROVE TypeOK
  OBVIOUS
<1> USE LayersFinite, NoDescType, CodesOfMods, EmptySeq
<1>1. LayersOK
  <2>1. layer_state \in [Layers -> LayerState]
    BY DEF Init, LayerState
  <2> QED  BY <2>1 DEF Init, LayersOK
<1>2. KeysOK
  BY DEF Init, KeysOK, EmptySlot, Entry, NoPending, Pending, Behaviours
<1>3. ChordsOK
  BY DEF Init, ChordsOK, NoChord, Chording, ChordMatch, ActiveChord
<1>4. ModesOK
  BY CodesAssumption DEF Init, ModesOK, OneshotCleared
<1>5. RecentOK /\ EnvOK /\ AbortOK
  BY SizesAssumption DEF Init, RecentOK, EnvOK, AbortOK
<1>6. TimeoutsOK
  BY FS_EmptySet DEF Init, TimeoutsOK
<1>7. StackOK
  <2>1. call = IdleCall /\ callers = <<>> /\ <<>> \in Seq(Frame) /\ DOMAIN <<>> = {}
    BY DEF Init
  <2> QED  BY <2>1, FrameMakers DEF StackOK, WellStacked
<1>8. out \in Output
  BY DEF Init, NoOutput, Output
<1> QED  BY <1>1, <1>2, <1>3, <1>4, <1>5, <1>6, <1>7, <1>8 DEF TypeOK

\* Every step of the engine and of its environment keeps the types.
LEMMA NextType == TypeOK /\ [Next]_vars => TypeOK'
<1> SUFFICES ASSUME TypeOK, [Next]_vars PROVE TypeOK'
  OBVIOUS
<1>1. CASE Looping
  BY <1>1, NextEventType, DueBeforeNextEventType, EventsDoneType, ExitType DEF Looping
<1>2. CASE ChordHandler
  BY <1>2, ReleaseChordKeyType, ChordResolvingType, ChordInactiveType,
     ChordDisambiguationType, ChordHoldType, LeaveChordType DEF ChordHandler
<1>3. CASE Holding
  BY <1>3, NotPendingType, PendingKeyType DEF Holding
<1>4. CASE Binding
  BY <1>4, TimersType, KeyPressedType, KeyReleasedType DEF Binding
<1>5. CASE Op
  BY <1>5, OpKeySequenceType, OpScrollType, OpOverloadIdleType, RecacheActionType,
     OpOverloadTimeoutType, OpTimeoutType, OpLayerType, OpClearType, OpLayoutType,
     OverloadPressedType, OverloadReleasedType, OneshotPressedType, OneshotReleasedType,
     OpMacroType, OpToggleType, OpCommandType, SwapPressedType, SwapReleasedType DEF Op
<1>6. CASE Environment
  BY <1>6, EnvironmentType
<1>7. CASE UNCHANGED vars
  <2>1. AbortOK' /\ StackOK'
    BY <1>7 DEF vars, stackVars, TypeOK, AbortOK, StackOK
  <2> QED  BY <1>7, <2>1, Unchanging DEF vars, TypeOK
<1> QED  BY <1>1, <1>2, <1>3, <1>4, <1>5, <1>6, <1>7 DEF Next, Engine

\* In every run of the engine, for every accepted configuration and every
\* size of its tables, the state is well typed and the call stack well formed:
\* process_event and its callees always have an activation to return to, and
\* what they hand each other is what keyboard.h says it is.
THEOREM TypeCorrectness == Spec => []TypeOK
  BY InitType, NextType, PTL DEF Spec


-----------------------------------------------------------------------------
(* Activations outside process_descriptor.                                 *)

OutFrame(f) == f.pc \notin {"descriptor", "recache", "timers", "key"}
OutStack(cs) == \A i \in DOMAIN cs : OutFrame(cs[i])

LEMMA OutFrames ==
    /\ OutFrame(ChordResolved) /\ OutFrame(IdleCall) /\ OutFrame([pc |-> "no chord slot"])
    /\ \A evs : OutFrame(ProcessEvents(evs))
    /\ \A pc \in {"events", "due"} : \A evs, due : OutFrame(Loop(pc, evs, due))
    /\ \A pc \in {"chord", "pending"} : \A code, pressed, time :
            OutFrame(ProcessEvent(pc, code, pressed, time))
    /\ \A time : OutFrame(ExitEvent(time))
  BY DEF OutFrame, ChordResolved, IdleCall, ProcessEvents, Loop, ProcessEvent, ExitEvent

\* Suspending frames of these functions keeps a stack of them.
LEMMA OutPush ==
    ASSUME NEW S, NEW cs \in Seq(S), OutStack(cs), NEW ks \in Seq(S), OutStack(ks)
    PROVE  OutStack(ks \o cs)
<1> DEFINE all == ks \o cs
<1>1. /\ all \in Seq(S) /\ Len(all) = Len(ks) + Len(cs)
      /\ Len(ks) \in Nat /\ Len(cs) \in Nat
      /\ \A i \in 1 .. Len(ks) + Len(cs) :
            all[i] = IF i <= Len(ks) THEN ks[i] ELSE cs[i - Len(ks)]
  BY ConcatProperties
<1>2. ASSUME NEW i \in 1 .. Len(all) PROVE OutFrame(all[i])
  <2>1. CASE i <= Len(ks)
    BY <1>1, <2>1 DEF OutStack
  <2>2. CASE i > Len(ks)
    <3>1. i - Len(ks) \in 1 .. Len(cs) /\ all[i] = cs[i - Len(ks)]
      BY <1>1, <2>2
    <3> QED  BY <3>1 DEF OutStack
  <2> QED  BY <1>1, <2>1, <2>2
<1>3. DOMAIN all = 1 .. Len(all)
  BY <1>1
<1> HIDE DEF all
<1>4. OutStack(all)
  BY <1>2, <1>3 DEF OutStack
<1> QED  BY <1>4 DEF all

LEMMA OutPushes ==
    ASSUME NEW cs \in Seq(Frame), OutStack(cs), NEW f, OutFrame(f), NEW g, OutFrame(g),
           NEW h, OutFrame(h)
    PROVE  OutStack(<<f>> \o cs) /\ OutStack(<<f, g>> \o cs) /\ OutStack(<<f, g, h>> \o cs)
<1> DEFINE S == Frame \cup {f, g, h}
<1>1. cs \in Seq(S)
  OBVIOUS
<1>2. /\ <<f>> \in Seq(S) /\ OutStack(<<f>>)
      /\ <<f, g>> \in Seq(S) /\ OutStack(<<f, g>>)
      /\ <<f, g, h>> \in Seq(S) /\ OutStack(<<f, g, h>>)
  BY DEF OutStack
<1> HIDE DEF S
<1> QED  BY <1>1, <1>2, OutPush

LEMMA OutPop ==
    ASSUME NEW cs \in Seq(Frame), cs # <<>>, OutStack(cs)
    PROVE  OutFrame(Head(cs)) /\ OutStack(Tail(cs))
<1>1. /\ Head(cs) = cs[1] /\ Len(cs) \in Nat /\ Len(cs) > 0
      /\ Tail(cs) \in Seq(Frame) /\ Len(Tail(cs)) = Len(cs) - 1
      /\ \A i \in 1 .. Len(Tail(cs)) : Tail(cs)[i] = cs[i + 1]
  BY HeadTailProperties, EmptySeq
<1>2. ASSUME NEW i \in 1 .. Len(Tail(cs)) PROVE OutFrame(Tail(cs)[i])
  <2>1. i + 1 \in DOMAIN cs
    BY <1>1
  <2> QED  BY <1>1, <2>1 DEF OutStack
<1>3. 1 \in DOMAIN cs
  BY <1>1
<1> QED  BY <1>1, <1>2, <1>3 DEF OutStack

\* Outside process_descriptor nothing of it is suspended either.
LEMMA OutsideStack ==
    ASSUME TypeOK, StackInv, ~InDescriptor(call)
    PROVE  OutStack(callers)
  BY DEF StackInv, Innermost, KeyKnown, InDescriptor, OutStack, OutFrame

LEMMA StackTyped ==
    ASSUME TypeOK
    PROVE  /\ call \in Frame /\ callers \in Seq(Frame)
           /\ call.pc # "idle" => callers # <<>> /\ Head(callers) = callers[1]
  BY FrameFields DEF TypeOK, StackOK, WellStacked

-----------------------------------------------------------------------------
(* Steps outside process_descriptor.                                       *)

\* Between two activations of process_descriptor; on the way to the next one.
NoneRuns == OutFrame(call) /\ OutStack(callers)
KeyStage == /\ call.pc \in {"timers", "key"} /\ (call.pc = "key" => call.code # NoKey)
            /\ OutStack(callers)

\* The parts of the invariant that are not about the call stack.
StateInv == OnlyTargets /\ EntryTargets /\ UniqueEntries /\ SwapsPending /\ SwapsChorded

NoNewClaims == \A l \in Layers : Claims(l)' <= Claims(l)

LEMMA ClaimsType ==
    ASSUME NEW l
    PROVE  /\ IsFiniteSet(Claimants(l)) /\ Cardinality(Claimants(l)) \in Nat
           /\ Finishing(l) \in {0, 1} /\ Claims(l) \in Nat
<1>1. IsFiniteSet(Slots) /\ Claimants(l) \subseteq Slots
  BY SizesAssumption, FS_Interval DEF Slots, Claimants
<1>2. IsFiniteSet(Claimants(l)) /\ Cardinality(Claimants(l)) \in Nat
  BY <1>1, FS_Subset, FS_CardinalityType
<1>3. Finishing(l) \in {0, 1}
  BY DEF Finishing
<1> QED  BY <1>2, <1>3 DEF Claims

LEMMA FewerClaims ==
    ASSUME NEW l, Claimants(l)' \subseteq Claimants(l), Finishing(l)' <= Finishing(l)
    PROVE  Claims(l)' <= Claims(l)
<1> DEFINE S == Claimants(l)
           T == Claimants(l)'
<1>1. /\ IsFiniteSet(S) /\ Cardinality(S) \in Nat
      /\ Finishing(l) \in {0, 1}
  BY ClaimsType
<1>2. Finishing(l)' \in {0, 1}
  BY DEF Finishing
<1>3. T \subseteq S
  OBVIOUS
<1> HIDE DEF S, T
<1>4. Cardinality(T) <= Cardinality(S) /\ Cardinality(T) \in Nat
  BY <1>1, <1>3, FS_Subset, FS_CardinalityType
<1> QED  BY <1>1, <1>2, <1>4 DEF Claims, S, T

\* A step from one activation outside process_descriptor to another.
LEMMA QuietStep ==
    ASSUME TypeOK, StructureInv, ~InDescriptor(call), cache' = cache,
           NoneRuns' \/ KeyStage', OnlyTargets', SwapsPending', SwapsChorded'
    PROVE  StructureInv' /\ NoNewClaims
<1>1. StackInv' /\ FreshEntry' /\ SwapRuns'
  BY DEF NoneRuns, KeyStage, OutStack, OutFrame, StackInv, Innermost, ReleasedNotCached, KeyKnown,
         ClaimingIsNext, Claiming, InDescriptor, Pressing, Releasing, FreshEntry, SwapRuns
<1>2. EntryTargets' /\ UniqueEntries'
  BY DEF StructureInv, EntryTargets, UniqueEntries
<1>3. ASSUME NEW l \in Layers
      PROVE  Claimants(l)' \subseteq Claimants(l) /\ Finishing(l)' <= Finishing(l)
  BY DEF Claimants, ClaimsEntry, Finishing, NoneRuns, KeyStage, OutFrame, InDescriptor, Pressing, Releasing
<1>4. NoNewClaims
  BY <1>3, FewerClaims DEF NoNewClaims
<1> QED  BY <1>1, <1>2, <1>4 DEF StructureInv, SwapsAtHome

\* The calls and returns of such steps.
LEMMA NoneRunsGoto ==
    ASSUME TypeOK, StackInv, ~InDescriptor(call), NEW f, Goto(f), OutFrame(f)
    PROVE  NoneRuns'
<1>1. call' = f /\ callers' = callers /\ OutStack(callers)
  BY OutsideStack DEF Goto
<1> QED  BY <1>1 DEF NoneRuns, OutFrame, InDescriptor

LEMMA NoneRunsCalls ==
    ASSUME TypeOK, StackInv, ~InDescriptor(call), NEW e, OutFrame(e), NEW f, OutFrame(f),
           NEW g, OutFrame(g), NEW h, OutFrame(h),
           CallThen(e, <<f>>) \/ CallThen(e, <<f, g>>) \/ CallThen(e, <<f, g, h>>)
    PROVE  NoneRuns'
<1>1. call' = e /\ OutStack(callers')
  BY OutsideStack, StackTyped, OutPushes DEF CallThen
<1> QED  BY <1>1 DEF NoneRuns, OutFrame, InDescriptor

LEMMA NoneRunsReturn ==
    ASSUME TypeOK, StackInv, ~InDescriptor(call), call.pc # "idle"
    PROVE  OutFrame(Head(callers)) /\ OutStack(Tail(callers)) /\ (Return => NoneRuns')
<1>1. OutStack(callers) /\ callers \in Seq(Frame) /\ callers # <<>>
  BY OutsideStack, StackTyped
<1>2. OutFrame(Head(callers)) /\ OutStack(Tail(callers))
  BY <1>1, OutPop
<1> QED  BY <1>2 DEF NoneRuns, OutFrame, InDescriptor, Return

\* Whatever else such a step leaves alone stays as it was.
LEMMA QuietState ==
    ASSUME StructureInv
    PROVE  /\ layer_state' = layer_state => OnlyTargets'
           /\ pending_key' = pending_key => SwapsPending'
           /\ active_chords' = active_chords => SwapsChorded'
  BY DEF StructureInv, SwapsAtHome, OnlyTargets, SwapsPending, SwapsChorded

-----------------------------------------------------------------------------
(* kbd_process_events.                                                      *)

LEMMA NextEventQuiet ==
    ASSUME TypeOK, StructureInv, NextEvent  PROVE StructureInv' /\ NoNewClaims /\ NoneRuns'
<1> DEFINE e == Head(call.evs)
           f == ProcessEvent("chord", e.code, e.pressed, e.time)
           k == Loop("due", Tail(call.evs), call.due)
<1>1. /\ ~InDescriptor(call) /\ CallThen(f, <<k>>) /\ cache' = cache
      /\ layer_state' = layer_state /\ pending_key' = pending_key /\ active_chords' = active_chords
  BY DEF NextEvent, InDescriptor, layerVars, keyVars, chordVars
<1>2. OutFrame(f) /\ OutFrame(k)
  BY OutFrames
<1> HIDE DEF f, k
<1>3. NoneRuns'
  BY <1>1, <1>2, NoneRunsCalls DEF StructureInv
<1> QED  BY <1>1, <1>3, QuietState, QuietStep

LEMMA DueBeforeNextEventQuiet ==
    ASSUME TypeOK, StructureInv, DueBeforeNextEvent  PROVE StructureInv' /\ NoNewClaims /\ NoneRuns'
<1>1. /\ ~InDescriptor(call) /\ cache' = cache
      /\ layer_state' = layer_state /\ pending_key' = pending_key /\ active_chords' = active_chords
  BY DEF DueBeforeNextEvent, InDescriptor, layerVars, keyVars, chordVars
<1>2. NoneRuns'
  BY <1>1, OutFrames, NoneRunsCalls DEF DueBeforeNextEvent, StructureInv
<1> QED  BY <1>1, <1>2, QuietState, QuietStep

LEMMA EventsDoneQuiet ==
    ASSUME TypeOK, StructureInv, EventsDone  PROVE StructureInv' /\ NoNewClaims /\ NoneRuns'
<1>1. /\ ~InDescriptor(call) /\ cache' = cache
      /\ layer_state' = layer_state /\ pending_key' = pending_key /\ active_chords' = active_chords
  BY DEF EventsDone, InDescriptor, layerVars, keyVars, chordVars
<1>2. NoneRuns'
  BY <1>1, NoneRunsReturn DEF EventsDone, StructureInv
<1> QED  BY <1>1, <1>2, QuietState, QuietStep

LEMMA ExitQuiet ==
    ASSUME TypeOK, StructureInv, Exit  PROVE StructureInv' /\ NoNewClaims /\ NoneRuns'
<1>1. /\ ~InDescriptor(call) /\ cache' = cache
      /\ layer_state' = layer_state /\ pending_key' = pending_key /\ active_chords' = active_chords
  BY DEF Exit, InDescriptor, layerVars, keyVars, chordVars
<1>2. OutFrame(Head(callers)) /\ OutStack(Tail(callers))
  BY <1>1, NoneRunsReturn DEF Exit, StructureInv
<1>3. OutFrame(call') /\ callers' = Tail(callers)
  BY <1>2, OutFrames DEF Exit
<1>4. NoneRuns'
  BY <1>2, <1>3 DEF NoneRuns, OutFrame, InDescriptor
<1> QED  BY <1>1, <1>4, QuietState, QuietStep

-----------------------------------------------------------------------------
(* handle_chord.                                                            *)

\* What a branch of handle_chord leaves behind.
ChordStep == NoneRuns' /\ SwapsChorded'

\* A configured chord that swaps makes its layer the home of a swap.
LEMMA ChordAtHome ==
    ASSUME NEW l \in Layers, NEW i \in DOMAIN Chords[l]
    PROVE  SwapAtHome(Chords[l][i].d, l)
  BY DEF SwapAtHome, SwapHome

LEMMA ResolveChordQuiet ==
    ASSUME TypeOK, StructureInv, ~InDescriptor(call), NEW c \in Chording, ResolveChord(c)
    PROVE  ChordStep
<1>1. StackInv
  BY DEF StructureInv
<1>2. CASE c.match = NoMatch
  <2>1. active_chords' = active_chords
    BY <1>2 DEF ResolveChord
  <2>2. NoneRuns'
    BY <1>1, <1>2, OutFrames, NoneRunsCalls DEF ResolveChord
  <2> QED  BY <2>1, <2>2, QuietState DEF ChordStep
<1>3. CASE c.match # NoMatch
  <2> DEFINE l == c.match[1]
             m == Chords[l][c.match[2]]
             rest == SubSeq(c.queue, Cardinality(m.keys) + 1, Len(c.queue))
  <2>1. l \in Layers /\ c.match[2] \in DOMAIN Chords[l]
    BY <1>3, ChordRefType DEF Chording, ChordMatch
  <2>2. SwapAtHome(m.d, l)
    BY <2>1, ChordAtHome
  <2>3. CASE FreeChordSlots = {}
    <3>1. Goto([pc |-> "no chord slot"]) /\ active_chords' = active_chords
      BY <1>3, <2>3 DEF ResolveChord
    <3>2. NoneRuns'
      BY <1>1, <3>1, OutFrames, NoneRunsGoto
    <3> QED  BY <3>1, <3>2, QuietState DEF ChordStep
  <2>4. ASSUME NEW i \in FreeChordSlots,
               active_chords' = [active_chords EXCEPT ![i] =
                                   [keys |-> m.keys, d |-> m.d, layer |-> l]],
               CallThen(ProcessEvent("chord", ChordCode[i], TRUE, c.last_code_time),
                        <<ProcessEvents(rest), ChordResolved, ExitEvent(call.time)>>)
        PROVE  ChordStep
    <3> HIDE DEF l, m, rest
    <3>1. NoneRuns'
      BY <1>1, <2>4, OutFrames, NoneRunsCalls
    <3>2. i \in ChordSlots /\ active_chords \in [ChordSlots -> ActiveChord]
      BY DEF FreeChordSlots, TypeOK, ChordsOK
    <3>3. SwapsChorded
      BY DEF StructureInv, SwapsAtHome
    <3>4. ASSUME NEW j \in ChordSlots PROVE SwapAtHome(active_chords'[j].d, active_chords'[j].layer)
      BY <2>2, <2>4, <3>2, <3>3 DEF SwapsChorded
    <3> QED  BY <3>1, <3>4 DEF ChordStep, SwapsChorded
  <2> QED  BY <1>3, <2>3, <2>4 DEF ResolveChord
<1> QED  BY <1>2, <1>3

LEMMA AwaitChordQuiet ==
    ASSUME TypeOK, StructureInv, ~InDescriptor(call), NEW c, NEW until, AwaitChord(c, until)
    PROVE  ChordStep
  BY OutFrames, NoneRunsGoto, QuietState DEF AwaitChord, StructureInv, ChordStep

LEMMA DisambiguateQuiet ==
    ASSUME TypeOK, StructureInv, ~InDescriptor(call), HandlesEvent, NEW c \in Chording, Disambiguate(c)
    PROVE  ChordStep
<1> DEFINE c1 == [c EXCEPT !.match = BestMatch(c.queue, c.match), !.last_code_time = call.time]
<1>1. c1 \in Chording
  BY BestMatchType, ChordUpdates DEF HandlesEvent, Chording
<1> HIDE DEF c1
<1>2. \/ AwaitChord([c1 EXCEPT !.state = "disambiguation"], call.time + ChordInterkeyTimeout)
      \/ AwaitChord([c1 EXCEPT !.state = "hold"], call.time + ChordHoldTimeout)
      \/ ResolveChord(c1)
  BY DEF Disambiguate, c1
<1> QED  BY <1>1, <1>2, AwaitChordQuiet, ResolveChordQuiet

LEMMA AbortChordQuiet ==
    ASSUME TypeOK, StructureInv, ~InDescriptor(call), NEW c \in Chording, AbortChord(c)
    PROVE  ChordStep
  BY ChordUpdates, ResolveChordQuiet DEF AbortChord

LEMMA NotHandledByChordQuiet ==
    ASSUME TypeOK, StructureInv, ~InDescriptor(call), NotHandledByChord
    PROVE  ChordStep
<1>1. OutFrame(Stage("pending")) /\ active_chords' = active_chords
  BY OutFrames DEF Stage, NotHandledByChord, chordVars
<1> QED  BY <1>1, NoneRunsGoto, QuietState DEF NotHandledByChord, StructureInv, ChordStep

\* handle_chord changes neither the layers nor the cache nor the pending key.
LEMMA InChordHandlerQuiet ==
    ASSUME TypeOK, StructureInv, NEW st, InChordHandler(st), ChordStep
    PROVE  StructureInv' /\ NoNewClaims /\ NoneRuns'
<1>1. ~InDescriptor(call) /\ cache' = cache /\ layer_state' = layer_state /\ pending_key' = pending_key
  BY DEF InChordHandler, InDescriptor, layerVars, keyVars
<1> QED  BY <1>1, QuietState, QuietStep DEF ChordStep

LEMMA ReleaseChordKeyQuiet ==
    ASSUME TypeOK, StructureInv, ReleaseChordKey  PROVE StructureInv' /\ NoNewClaims /\ NoneRuns'
<1>1. ~InDescriptor(call) /\ cache' = cache /\ layer_state' = layer_state /\ pending_key' = pending_key
  BY DEF ReleaseChordKey, InDescriptor, layerVars, keyVars
<1>2. PICK i \in ChordOfRelease :
         /\ active_chords' = [active_chords EXCEPT ![i].keys = @ \ {call.code}]
         /\ IF active_chords[i].keys = {call.code}
            THEN CallThen(ProcessEvent("chord", ChordCode[i], FALSE, call.time),
                          <<ExitEvent(call.time)>>)
            ELSE Goto(ExitEvent(call.time))
  BY DEF ReleaseChordKey
<1>3. NoneRuns'
  BY <1>1, <1>2, OutFrames, NoneRunsGoto, NoneRunsCalls DEF StructureInv
<1>4. SwapsChorded'
  <2>1. active_chords \in [ChordSlots -> ActiveChord] /\ SwapsChorded
    BY DEF TypeOK, ChordsOK, StructureInv, SwapsAtHome
  <2>2. ASSUME NEW j \in ChordSlots
        PROVE  /\ active_chords'[j].d = active_chords[j].d
               /\ active_chords'[j].layer = active_chords[j].layer
    BY <1>2, <2>1 DEF ActiveChord
  <2> QED  BY <2>1, <2>2 DEF SwapsChorded
<1> QED  BY <1>1, <1>3, <1>4, QuietState, QuietStep

LEMMA ChordResolvingQuiet ==
    ASSUME TypeOK, StructureInv, ChordResolving  PROVE StructureInv' /\ NoNewClaims /\ NoneRuns'
<1>1. ~InDescriptor(call)
  BY DEF ChordResolving, InChordHandler, InDescriptor
<1> QED  BY <1>1, NotHandledByChordQuiet, InChordHandlerQuiet DEF ChordResolving

LEMMA ChordInactiveQuiet ==
    ASSUME TypeOK, StructureInv, ChordInactive  PROVE StructureInv' /\ NoNewClaims /\ NoneRuns'
<1>1. HandlesEvent /\ ThisEvent \in Event /\ ~InDescriptor(call)
  BY EventStages DEF ChordInactive, InChordHandler, InDescriptor
<1> DEFINE fresh == IF call.code = NoKey THEN NoChord ELSE Enqueued(NoChord)
<1>2. fresh \in Chording
  <2>1. NoChord \in Chording
    BY ChordUpdates, EmptySeq DEF Chording, NoChord, ChordMatch
  <2> QED  BY <1>1, <2>1, EnqueuedType
<1>3. NotHandledByChord \/ Disambiguate(fresh)
  BY DEF ChordInactive
<1> HIDE DEF fresh
<1>4. ChordStep
  BY <1>1, <1>2, <1>3, NotHandledByChordQuiet, DisambiguateQuiet
<1> QED  BY <1>4, InChordHandlerQuiet DEF ChordInactive

LEMMA ChordDisambiguationQuiet ==
    ASSUME TypeOK, StructureInv, ChordDisambiguation  PROVE StructureInv' /\ NoNewClaims /\ NoneRuns'
<1>1. HandlesEvent /\ ThisEvent \in Event /\ ~InDescriptor(call)
  BY EventStages DEF ChordDisambiguation, InChordHandler, InDescriptor
<1>2. chord \in Chording /\ Enqueued(chord) \in Chording
  BY <1>1, EnqueuedType DEF TypeOK, ChordsOK
<1>3. \/ NotHandledByChord
      \/ AbortChord(chord)
      \/ ResolveChord(chord)
      \/ AwaitChord([chord EXCEPT !.state = "hold"],
                    call.time + ChordHoldTimeout - ChordInterkeyTimeout)
      \/ AbortChord(Enqueued(chord))
      \/ Disambiguate(Enqueued(chord))
  BY DEF ChordDisambiguation
<1>4. ChordStep
  BY <1>1, <1>2, <1>3, NotHandledByChordQuiet, AbortChordQuiet, ResolveChordQuiet,
     AwaitChordQuiet, DisambiguateQuiet
<1> QED  BY <1>4, InChordHandlerQuiet DEF ChordDisambiguation

LEMMA ChordHoldQuiet ==
    ASSUME TypeOK, StructureInv, ChordHold  PROVE StructureInv' /\ NoNewClaims /\ NoneRuns'
<1>1. HandlesEvent /\ ThisEvent \in Event /\ ~InDescriptor(call)
  BY EventStages DEF ChordHold, InChordHandler, InDescriptor
<1>2. chord \in Chording /\ Enqueued(chord) \in Chording
  BY <1>1, EnqueuedType DEF TypeOK, ChordsOK
<1>3. \/ NotHandledByChord
      \/ ResolveChord(chord)
      \/ AbortChord(Enqueued(chord))
      \/ Goto(ExitEvent(call.time)) /\ active_chords' = active_chords
  BY DEF ChordHold
<1>4. ASSUME Goto(ExitEvent(call.time)), active_chords' = active_chords
      PROVE  ChordStep
    BY <1>1, <1>4, OutFrames, NoneRunsGoto, QuietState DEF StructureInv, ChordStep
<1>5. ChordStep
  BY <1>1, <1>2, <1>3, <1>4, NotHandledByChordQuiet, AbortChordQuiet, ResolveChordQuiet
<1> QED  BY <1>5, InChordHandlerQuiet DEF ChordHold

LEMMA LeaveChordQuiet ==
    ASSUME TypeOK, StructureInv, LeaveChord  PROVE StructureInv' /\ NoNewClaims /\ NoneRuns'
<1>1. /\ ~InDescriptor(call) /\ cache' = cache
      /\ layer_state' = layer_state /\ pending_key' = pending_key /\ active_chords' = active_chords
  BY DEF LeaveChord, InDescriptor, layerVars, keyVars
<1>2. NoneRuns'
  BY <1>1, NoneRunsReturn DEF LeaveChord, StructureInv
<1> QED  BY <1>1, <1>2, QuietState, QuietStep

-----------------------------------------------------------------------------
(* The environment.                                                        *)

LEMMA EnvironmentQuiet ==
    ASSUME TypeOK, StructureInv, Environment  PROVE StructureInv' /\ NoNewClaims /\ NoneRuns'
<1>1. Idle /\ (Tick \/ \E code \in Keys \cup {NoKey}, pressed \in BOOLEAN : ProcessOne(code, pressed))
  <2>1. ASSUME NEW dev \in Devices, NEW key \in Keys, Press(dev, key)
        PROVE  Idle /\ ProcessOne(key, TRUE)
    BY <2>1 DEF Press
  <2>2. ASSUME NEW dev \in Devices, NEW key \in Keys, Release(dev, key)
        PROVE  Idle /\ ProcessOne(key, FALSE)
    BY <2>2 DEF Release
  <2>3. CASE Timeout
    BY <2>3 DEF Timeout
  <2>4. CASE Tick
    BY <2>4 DEF Tick
  <2> QED  BY <2>1, <2>2, <2>3, <2>4 DEF Environment
<1>2. ~InDescriptor(call) /\ call.pc # "key"
  BY <1>1 DEF Idle, IdleCall, InDescriptor
<1>3. ASSUME NEW code, NEW pressed, ProcessOne(code, pressed)
      PROVE  StructureInv' /\ NoNewClaims /\ NoneRuns'
  <2>1. /\ cache' = cache /\ layer_state' = layer_state
        /\ pending_key' = pending_key /\ active_chords' = active_chords
    BY <1>3 DEF ProcessOne, layerVars, keyVars, chordVars
  <2>2. NoneRuns'
    BY <1>2, <1>3, OutFrames, NoneRunsCalls DEF ProcessOne, StructureInv
  <2> QED  BY <1>2, <2>1, <2>2, QuietState, QuietStep
<1>4. CASE Tick
  <2>1. /\ cache' = cache /\ layer_state' = layer_state
        /\ pending_key' = pending_key /\ active_chords' = active_chords
        /\ call' = call /\ callers' = callers
    BY <1>4 DEF Tick, layerVars, keyVars, chordVars, stackVars
  <2>2. NoneRuns'
    BY <1>1, <2>1, OutsideStack DEF NoneRuns, OutFrame, InDescriptor, Idle, IdleCall, StructureInv
  <2> QED  BY <1>2, <2>1, <2>2, QuietState, QuietStep
<1> QED  BY <1>1, <1>3, <1>4

-----------------------------------------------------------------------------
(* Layers and cache entries.                                               *)

\* No layer that is not a target is toggled or left on by a oneshot.
LayersOfTargets(ls) == \A l \in Layers : ~IsTarget(l) => /\ ls[l].toggled = 0
                                                         /\ ls[l].oneshot_depth = 0

LEMMA OnlyTargetsSet ==
    ASSUME NEW ls \in Layering, LayersOfTargets(ls), SetLayers(ls)
    PROVE  OnlyTargets'
  BY PackedType DEF SetLayers, LayersOfTargets, OnlyTargets

LEMMA LayersOfState ==
    ASSUME TypeOK, StructureInv
    PROVE  /\ layer_state \in Layering
           /\ LayersOfTargets(layer_state) /\ LayersOfTargets(ClearOneshot(layer_state))
           /\ ClearOneshot(layer_state) \in Layering
<1>1. layer_state \in Layering /\ LayersOfTargets(layer_state)
  BY DEF TypeOK, LayersOK, Layering, StructureInv, OnlyTargets, LayersOfTargets
<1> QED  BY <1>1, ClearOneshotType DEF LayersOfTargets

\* cache_set makes the entry of the key anew, and every other one stays.
LEMMA CacheSetEntries ==
    ASSUME TypeOK, StructureInv, NEW code \in Codes, code # NoKey, NEW d, NEW dl,
           cache' = CacheSet(cache, code, d, dl)
    PROVE  /\ UniqueEntries' /\ EntryTargets'
           /\ \A i \in Slots : \/ cache'[i] = cache[i] /\ cache[i].code # code
                               \/ cache'[i] = [code |-> code, d |-> d, dl |-> dl, layer |-> 0]
<1> DEFINE slots == SlotFor(cache, code)
           new == [code |-> code, d |-> d, dl |-> dl, layer |-> 0]
<1>1. cache' = [i \in Slots |-> IF i \in slots THEN new ELSE cache[i]]
  BY DEF CacheSet
<1>2. UniqueEntries /\ EntryTargets
  BY DEF StructureInv
<1>3. /\ \A i \in Slots : cache[i].code = code => i \in slots
      /\ slots \subseteq Slots
      /\ \A i, j \in slots : i = j
  <2>1. CASE Cached(cache, code) # {}
    <3>1. slots = {i \in Slots : cache[i].code = code}
      BY <2>1 DEF SlotFor, Cached
    <3> QED  BY <1>2, <3>1 DEF UniqueEntries
  <2>2. CASE Cached(cache, code) = {}
    <3>1. slots = {i \in {k \in Slots : cache[k].code = NoKey} :
                     \A j \in {k \in Slots : cache[k].code = NoKey} : j <= i}
      BY <2>2 DEF SlotFor
    <3>2. Slots \subseteq Int
      BY DEF Slots
    <3>3. ASSUME NEW i \in slots, NEW j \in slots PROVE i = j
      <4> HIDE DEF slots, new
      <4>1. i <= j /\ j <= i
        BY <3>1
      <4>2. i \in Int /\ j \in Int
        BY <3>1, <3>2
      <4> QED  BY <4>1, <4>2
    <3>4. \A i \in Slots : cache[i].code # code
      BY <2>2 DEF Cached
    <3> QED  BY <3>1, <3>3, <3>4
  <2> QED  BY <2>1, <2>2
<1>4. new.code = code /\ new.layer = 0
  OBVIOUS
<1> HIDE DEF slots, new
<1>5. ASSUME NEW i \in Slots
      PROVE  IF i \in slots THEN cache'[i] = new ELSE cache'[i] = cache[i] /\ cache[i].code # code
  BY <1>1, <1>3
<1>6. EntryTargets'
  BY <1>2, <1>4, <1>5 DEF EntryTargets
<1>7. UniqueEntries'
  <2> SUFFICES ASSUME NEW i \in Slots, NEW j \in Slots,
                      cache'[i].code = cache'[j].code, cache'[i].code # NoKey
               PROVE  i = j
    BY DEF UniqueEntries
  <2>1. CASE i \in slots /\ j \in slots
    BY <1>3, <2>1
  <2>2. CASE i \in slots /\ j \notin slots
    BY <1>4, <1>5, <2>2
  <2>3. CASE i \notin slots /\ j \in slots
    BY <1>4, <1>5, <2>3
  <2>4. CASE i \notin slots /\ j \notin slots
    BY <1>2, <1>5, <2>4 DEF UniqueEntries
  <2> QED  BY <2>1, <2>2, <2>3, <2>4
<1> QED  BY <1>5, <1>6, <1>7 DEF new

-----------------------------------------------------------------------------
(* Entering process_descriptor.                                            *)

LEMMA EnterStep ==
    ASSUME TypeOK, StructureInv, ~InDescriptor(call), OutStack(callers'),
           NEW code, NEW d, NEW dl, NEW pressed \in BOOLEAN, NEW time,
           call' = ProcessDescriptor(code, d, dl, pressed, time),
           ~pressed => NotCached(code)'
    PROVE  StackInv'
<1>1. call'.pc = "descriptor" /\ call'.code = code /\ call'.pressed = pressed
  BY DEF ProcessDescriptor
<1>2. Innermost' /\ KeyKnown' /\ ClaimingIsNext'
  BY <1>1 DEF Innermost, KeyKnown, ClaimingIsNext, Claiming, InDescriptor, OutStack, OutFrame
<1>3. ReleasedNotCached'
  BY <1>1 DEF ReleasedNotCached, Releasing, OutStack, OutFrame, NotCached
<1> QED  BY <1>2, <1>3 DEF StackInv

\* A key is pressed with descriptor d, which the cache now has for it.
LEMMA EnterPress ==
    ASSUME TypeOK, StructureInv, ~InDescriptor(call), OutStack(callers'),
           NEW code \in Codes, code # NoKey, NEW d, NEW dl, SwapAtHome(d, dl), NEW time,
           call' = ProcessDescriptor(code, d, dl, TRUE, time),
           cache' = CacheSet(cache, code, d, dl),
           OnlyTargets', SwapsPending', SwapsChorded'
    PROVE  StructureInv' /\ NoNewClaims
<1>1. /\ call'.pc = "descriptor" /\ call'.code = code /\ call'.pressed = TRUE
      /\ call'.d = d /\ call'.dl = dl
  BY DEF ProcessDescriptor
<1>2. StackInv' /\ SwapRuns'
  BY <1>1, EnterStep DEF SwapRuns, Pressing
<1>3. /\ UniqueEntries' /\ EntryTargets'
      /\ \A i \in Slots : \/ cache'[i] = cache[i] /\ cache[i].code # code
                          \/ cache'[i] = [code |-> code, d |-> d, dl |-> dl, layer |-> 0]
  BY CacheSetEntries
<1> DEFINE new == [code |-> code, d |-> d, dl |-> dl, layer |-> 0]
<1>4. new.code = code /\ new.d = d /\ new.layer = 0
  OBVIOUS
<1>5. ASSUME NEW i \in Slots
      PROVE  \/ cache'[i] = cache[i] /\ cache[i].code # code
             \/ cache'[i].code = code /\ cache'[i].d = d /\ cache'[i].layer = 0
  BY <1>3, <1>4
<1> HIDE DEF new
<1>6. FreshEntry'
  BY <1>1, <1>5 DEF FreshEntry
<1>7. NoNewClaims
  <2>1. ASSUME NEW l \in Layers PROVE Claimants(l)' \subseteq Claimants(l)
    <3> SUFFICES ASSUME NEW i \in Slots, ClaimsEntry(i, l)' PROVE ClaimsEntry(i, l)
      BY DEF Claimants
    <3>1. cache'[i].code # code
      BY <1>1 DEF ClaimsEntry, Pressing
    <3>2. cache'[i] = cache[i]
      BY <1>5, <3>1
    <3> QED  BY <1>1, <3>2 DEF ClaimsEntry, Pressing, InDescriptor
  <2>2. ASSUME NEW l \in Layers PROVE Finishing(l)' <= Finishing(l)
    <3>1. Finishing(l)' = 0
      BY <1>1 DEF Finishing, Releasing
    <3>2. Finishing(l) \in {0, 1}
      BY DEF Finishing
    <3> QED  BY <3>1, <3>2
  <2> QED  BY <2>1, <2>2, FewerClaims DEF NoNewClaims
<1> QED  BY <1>2, <1>3, <1>6, <1>7 DEF StructureInv, SwapsAtHome

-----------------------------------------------------------------------------
(* handle_pending_key.                                                      *)

LEMMA NotPendingQuiet ==
    ASSUME TypeOK, StructureInv, NotPending  PROVE StructureInv' /\ NoNewClaims
<1>1. /\ ~InDescriptor(call) /\ cache' = cache
      /\ layer_state' = layer_state /\ pending_key' = pending_key /\ active_chords' = active_chords
  BY DEF NotPending, InDescriptor, layerVars, keyVars, chordVars
<1>2. call' = Stage("timers") /\ callers' = callers /\ OutStack(callers)
  BY <1>1, OutsideStack DEF NotPending, Goto, StructureInv
<1>3. KeyStage'
  BY <1>2 DEF KeyStage, Stage, ProcessEvent
<1> QED  BY <1>1, <1>3, QuietState, QuietStep

\* A row of DescTable is a home for swaps everywhere, and no other action the
\* engine makes is a swap.
LEMMA ActionsAtHome ==
    /\ \A a \in Acts : \A l : SwapAtHome(DescTable[a], l)
    /\ \A k, l : SwapAtHome(LayerAction("layer", k), l)
    /\ \A code, mods, l : SwapAtHome(KeySequence(code, mods), l)
    /\ \A l : SwapAtHome(NoDesc, l)
<1>1. /\ \A k : LayerAction("layer", k).op = "layer"
      /\ \A code, mods : KeySequence(code, mods).op = "keysequence"
      /\ NoDesc.op = "none"
  BY DEF LayerAction, KeySequence, NoDesc
<1> QED  BY <1>1 DEF SwapAtHome, SwapHome, SwapOps

LEMMA PendingKeyQuiet ==
    ASSUME TypeOK, StructureInv, PendingKey  PROVE StructureInv' /\ NoNewClaims
<1> DEFINE p == pending_key
           q == HoldBack(p.queue)
           action == PendingAction(q)
           f == ProcessDescriptor(p.code, action, p.dl, TRUE, call.time)
<1>1. /\ ~InDescriptor(call) /\ StackInv /\ p.code # NoKey /\ p \in Pending
      /\ layer_state' = layer_state /\ active_chords' = active_chords
      /\ OnlyTargets' /\ SwapsChorded'
  BY QuietState DEF PendingKey, PassesPendingKey, InDescriptor, layerVars, chordVars, TypeOK, KeysOK,
                    StructureInv
<1>2. SwapAtHome(p.action1, p.dl) /\ SwapAtHome(p.action2, p.dl) /\ SwapsPending
  BY <1>1 DEF StructureInv, SwapsAtHome, SwapsPending
<1>3. SwapAtHome(action, p.dl)
  BY <1>2, ActionsAtHome DEF PendingAction
<1>4. CASE action.op = "none"
  <2>1. /\ cache' = cache /\ Goto(ExitEvent(call.time))
        /\ pending_key' = [p EXCEPT !.queue = q]
    BY <1>4 DEF PendingKey
  <2>2. NoneRuns'
    BY <1>1, <2>1, OutFrames, NoneRunsGoto
  <2> HIDE DEF q
  <2>3. /\ pending_key'.action1 = p.action1 /\ pending_key'.action2 = p.action2
        /\ pending_key'.dl = p.dl
    BY <1>1, <2>1 DEF Pending
  <2>4. SwapsPending'
    BY <1>2, <2>3 DEF SwapsPending
  <2> QED  BY <1>1, <2>1, <2>2, <2>4, QuietStep
<1>5. CASE action.op # "none"
  <2>1. /\ pending_key' = NoPending
        /\ cache' = CacheSet(cache, p.code, action, p.dl)
        /\ call' = f /\ callers' = <<ProcessEvents(q), ExitEvent(call.time)>> \o callers
    BY <1>5 DEF PendingKey, CallThen
  <2>2. OutStack(callers')
    BY <1>1, <2>1, OutsideStack, StackTyped, OutFrames, OutPushes
  <2>3. SwapsPending'
    BY <2>1 DEF SwapsPending, NoPending
  <2>4. p.code \in Codes
    BY <1>1 DEF Pending
  <2> HIDE DEF p, q, action
  <2> QED  BY <1>1, <1>3, <2>1, <2>2, <2>3, <2>4, EnterPress
<1> QED  BY <1>4, <1>5

-----------------------------------------------------------------------------
(* The rest of process_event.                                              *)

LEMMA TimersQuiet ==
    ASSUME TypeOK, StructureInv, Timers  PROVE StructureInv' /\ NoNewClaims
<1> DEFINE ls == IF OneshotExpired THEN ClearOneshot(layer_state) ELSE layer_state
<1>1. /\ ~InDescriptor(call) /\ cache' = cache /\ SetLayers(ls)
      /\ pending_key' = pending_key /\ active_chords' = active_chords
  BY DEF Timers, InDescriptor, keyVars, chordVars
<1>2. ls \in Layering /\ LayersOfTargets(ls)
  BY LayersOfState
<1> HIDE DEF ls
<1>3. OnlyTargets'
  BY <1>1, <1>2, OnlyTargetsSet
<1>4. NoneRuns' \/ KeyStage'
  <2>1. OutStack(callers) /\ callers' = callers
    BY <1>1, OutsideStack DEF StructureInv, Timers, Goto
  <2>2. call' = IF call.code = NoKey THEN ExitEvent(call.time) ELSE Stage("key")
    BY DEF Timers, Goto
  <2>3. CASE call.code = NoKey
    BY <2>1, <2>2, <2>3, OutFrames DEF NoneRuns, OutFrame, InDescriptor
  <2>4. CASE call.code # NoKey
    <3>1. call'.pc = "key" /\ call'.code = call.code
      BY <2>2, <2>4 DEF Stage, ProcessEvent
    <3> QED  BY <2>1, <2>4, <3>1 DEF KeyStage
  <2> QED  BY <2>3, <2>4
<1> QED  BY <1>1, <1>3, <1>4, QuietState, QuietStep

\* lookup_descriptor finds a swap only where one is bound.
LEMMA LookupAtHome ==
    ASSUME TypeOK, SwapsChorded, NEW code \in Codes
    PROVE  SwapAtHome(LookupDescriptor(code).d, LookupDescriptor(code).dl)
<1>1. CASE code \in ChordCodes
  <2> DEFINE i == CHOOSE s \in ChordSlots : ChordCode[s] = code
  <2>1. i \in ChordSlots
    BY <1>1 DEF ChordCodes
  <2>2. LookupDescriptor(code) = [d |-> active_chords[i].d, dl |-> active_chords[i].layer]
    BY <1>1 DEF LookupDescriptor
  <2> HIDE DEF i
  <2> QED  BY <2>1, <2>2 DEF SwapsChorded
<1>2. CASE code \notin ChordCodes
  <2> DEFINE best == IF BestComposite(code) # {} THEN BestComposite(code) ELSE NewestBinding(code)
             l == CHOOSE k \in best : TRUE
  <2>1. \A k \in best : k \in Layers /\ code \in DOMAIN Keymap[k]
    BY DEF BestComposite, NewestBinding, MatchingComposites, Active, Bound
  <2>2. LookupDescriptor(code) = IF best = {} THEN [d |-> KeySequence(code, {}), dl |-> 0]
                                 ELSE [d |-> Keymap[l][code], dl |-> l]
    BY <1>2 DEF LookupDescriptor
  <2>3. best # {} => l \in best
    OBVIOUS
  <2> HIDE DEF best, l
  <2>4. SwapAtHome(KeySequence(code, {}), 0)
    BY ActionsAtHome
  <2>5. best # {} => SwapAtHome(Keymap[l][code], l)
    BY <2>1, <2>3 DEF SwapAtHome, SwapHome
  <2> QED  BY <2>2, <2>4, <2>5
<1> QED  BY <1>1, <1>2

LEMMA KeyPressedQuiet ==
    ASSUME TypeOK, StructureInv, KeyPressed  PROVE StructureInv' /\ NoNewClaims
<1> DEFINE b == LookupDescriptor(call.code)
           f == ProcessDescriptor(call.code, b.d, b.dl, TRUE, call.time)
<1>1. /\ ~InDescriptor(call) /\ StackInv /\ SwapsChorded /\ call.code # NoKey
      /\ layer_state' = layer_state /\ pending_key' = pending_key /\ active_chords' = active_chords
      /\ OnlyTargets' /\ SwapsPending' /\ SwapsChorded'
  BY QuietState DEF KeyPressed, InDescriptor, layerVars, chordVars, StructureInv, SwapsAtHome,
                    StackInv, KeyKnown
<1>2. call.code \in Codes
  BY EventStages DEF KeyPressed, HandlesEvent
<1>3. SwapAtHome(b.d, b.dl)
  BY <1>1, <1>2, LookupAtHome
<1>4. \/ Goto(ExitEvent(call.time)) /\ cache' = cache
      \/ /\ cache' = CacheSet(cache, call.code, b.d, b.dl)
         /\ call' = f /\ callers' = <<ExitEvent(call.time)>> \o callers
  BY DEF KeyPressed, CallThen
<1>5. CASE Goto(ExitEvent(call.time)) /\ cache' = cache
  BY <1>1, <1>5, OutFrames, NoneRunsGoto, QuietStep
<1>6. CASE /\ cache' = CacheSet(cache, call.code, b.d, b.dl)
           /\ call' = f /\ callers' = <<ExitEvent(call.time)>> \o callers
  <2>1. OutStack(callers')
    BY <1>1, <1>6, OutsideStack, StackTyped, OutFrames, OutPushes
  <2> HIDE DEF b
  <2> QED  BY <1>1, <1>2, <1>3, <1>6, <2>1, EnterPress
<1> QED  BY <1>4, <1>5, <1>6

\* The claim of an entry passes to the release that clears it.
LEMMA KeyReleasedQuiet ==
    ASSUME TypeOK, StructureInv, KeyReleased  PROVE StructureInv' /\ NoNewClaims
<1>1. /\ ~InDescriptor(call) /\ StackInv /\ call.code # NoKey /\ OutStack(callers)
      /\ layer_state' = layer_state /\ pending_key' = pending_key /\ active_chords' = active_chords
      /\ OnlyTargets' /\ SwapsPending' /\ SwapsChorded'
  BY QuietState, OutsideStack DEF KeyReleased, InDescriptor, layerVars, chordVars, StructureInv,
                                  StackInv, KeyKnown
<1>2. CASE Goto(ExitEvent(call.time)) /\ cache' = cache
  BY <1>1, <1>2, OutFrames, NoneRunsGoto, QuietStep
<1>3. ASSUME NEW i \in Cached(cache, call.code), cache' = CacheClear(cache, call.code),
             CallThen(ProcessDescriptor(call.code, cache[i].d, cache[i].dl, FALSE, call.time),
                      <<ExitEvent(call.time)>>)
      PROVE  StructureInv' /\ NoNewClaims
  <2>1. i \in Slots /\ cache[i].code = call.code
    BY DEF Cached
  <2>2. ASSUME NEW j \in Slots
        PROVE  \/ cache'[j] = cache[j] /\ cache[j].code # call.code
               \/ cache'[j].code = NoKey /\ cache'[j].layer = 0
    BY <1>3 DEF CacheClear, EmptySlot
  <2>3. /\ call'.pc = "descriptor" /\ call'.code = call.code /\ call'.pressed = FALSE
        /\ call'.d = cache[i].d
    BY <1>3 DEF CallThen, ProcessDescriptor
  <2>4. NotCached(call.code)'
    BY <1>1, <2>2, <2>3 DEF NotCached
  <2>5. OutStack(callers')
    BY <1>1, <1>3, StackTyped, OutFrames, OutPushes DEF CallThen
  <2>6. StackInv'
    <3>1. call' = ProcessDescriptor(call.code, cache[i].d, cache[i].dl, FALSE, call.time)
      BY <1>3 DEF CallThen
    <3>2. \A j \in Slots : cache'[j].code # call.code
      BY <1>1, <2>2
    <3> QED  BY <1>1, <2>4, <2>5, <3>1, <3>2, EnterStep DEF NotCached
  <2>7. FreshEntry' /\ SwapRuns'
    BY <2>3 DEF FreshEntry, SwapRuns, Pressing
  <2>8. EntryTargets' /\ UniqueEntries'
    BY <2>2 DEF StructureInv, EntryTargets, UniqueEntries
  <2>9. ASSUME NEW l \in Layers PROVE Claims(l)' <= Claims(l)
    <3>1. Claimants(l)' \subseteq Claimants(l)
      BY <1>1, <2>2, <2>3 DEF Claimants, ClaimsEntry, Pressing, InDescriptor
    <3>2. i \notin Claimants(l)'
      BY <1>1, <2>1, <2>2 DEF Claimants, ClaimsEntry
    <3>3. Finishing(l)' = IF Holds(cache[i].d, l) THEN 1 ELSE 0
      BY <2>3 DEF Finishing, Releasing, Holds
    <3>4. Finishing(l) = 0
      BY <1>1 DEF Finishing, Releasing, InDescriptor
    <3>5. CASE ~Holds(cache[i].d, l)
      BY <3>1, <3>3, <3>4, <3>5, FewerClaims
    <3>6. CASE Holds(cache[i].d, l)
      <4> DEFINE S == Claimants(l)
                 T == Claimants(l)'
      <4>1. i \in S
        BY <1>1, <2>1, <3>6 DEF Claimants, ClaimsEntry, Pressing, InDescriptor
      <4>2. T \subseteq S \ {i} /\ IsFiniteSet(S)
        BY <3>1, <3>2, ClaimsType
      <4> HIDE DEF S, T
      <4>3. Cardinality(T) <= Cardinality(S) - 1 /\ Cardinality(T) \in Nat /\ Cardinality(S) \in Nat
        BY <4>1, <4>2, FS_RemoveElement, FS_Subset, FS_CardinalityType
      <4> QED  BY <3>3, <3>4, <3>6, <4>3 DEF Claims, S, T
    <3> QED  BY <3>5, <3>6
  <2> QED  BY <1>1, <2>6, <2>7, <2>8, <2>9 DEF StructureInv, SwapsAtHome, NoNewClaims
<1> QED  BY <1>2, <1>3 DEF KeyReleased

-----------------------------------------------------------------------------
(* Leaving process_descriptor.                                             *)

\* What returns is not pressing a key, and if it will release or cache a
\* descriptor that holds a layer, that is the one that was just pressed.
LEMMA ReturnStack ==
    ASSUME TypeOK, StructureInv, InDescriptor(call), Return,
           \A i \in Slots : cache'[i].code = cache[i].code
    PROVE  /\ StackInv' /\ FreshEntry' /\ SwapRuns' /\ UniqueEntries' /\ ~Pressing'
           /\ Claiming(call') => Pressing /\ call'.d = call.d /\ call'.code = call.code
<1> DEFINE t == Tail(callers)
<1>1. /\ callers \in Seq(Frame) /\ callers # <<>> /\ Len(callers) \in Nat /\ Len(callers) > 0
      /\ call' = callers[1] /\ callers' = t
  BY StackTyped, EmptySeq DEF InDescriptor, Return
<1>2. /\ t \in Seq(Frame) /\ Len(t) = Len(callers) - 1
      /\ \A i \in 1 .. Len(t) : t[i] = callers[i + 1]
  BY <1>1, HeadTailProperties
<1>3. /\ DOMAIN callers = 1 .. Len(callers) /\ 1 \in DOMAIN callers
      /\ DOMAIN t = 1 .. Len(t)
      /\ \A i \in DOMAIN t : i + 1 \in DOMAIN callers /\ t[i] = callers[i + 1]
  BY <1>1, <1>2
<1> HIDE DEF t
<1>4. StackInv /\ UniqueEntries
  BY DEF StructureInv
<1>5. Innermost'
  <2>1. ASSUME ~InDescriptor(call'), NEW i \in DOMAIN t PROVE ~InDescriptor(t[i])
    <3>1. 1 <= i + 1 /\ i + 1 \in DOMAIN callers
      BY <1>2, <1>3
    <3> QED  BY <1>1, <1>3, <1>4, <2>1, <3>1 DEF StackInv, Innermost
  <2>2. ASSUME NEW i \in DOMAIN t, NEW j \in DOMAIN t, i <= j, InDescriptor(t[j])
        PROVE  InDescriptor(t[i])
    <3>1. i + 1 <= j + 1 /\ i + 1 \in DOMAIN callers /\ j + 1 \in DOMAIN callers
      BY <1>2, <1>3, <2>2
    <3> QED  BY <1>3, <1>4, <2>2, <3>1 DEF StackInv, Innermost
  <2> QED  BY <1>1, <2>1, <2>2 DEF Innermost
<1>7. ReleasedNotCached' /\ ~Pressing'
  <2>1. ASSUME NEW i \in DOMAIN callers, callers[i].pc = "descriptor"
        PROVE  /\ ~callers[i].pressed
               /\ \A j \in Slots : cache'[j].code = callers[i].code => callers[i].code = NoKey
    BY <1>4, <2>1 DEF StackInv, ReleasedNotCached, NotCached
  <2> QED  BY <1>1, <1>3, <2>1 DEF ReleasedNotCached, Releasing, Pressing, NotCached
<1>8. KeyKnown'
  BY <1>1, <1>3, <1>4 DEF StackInv, KeyKnown
<1>9. ClaimingIsNext'
  <2>1. ASSUME NEW i \in DOMAIN t PROVE ~Claiming(t[i])
    <3>1. i + 1 # 1 /\ i + 1 \in DOMAIN callers /\ t[i] = callers[i + 1]
      BY <1>2, <1>3
    <3> QED  BY <1>4, <3>1 DEF StackInv, ClaimingIsNext
  <2> QED  BY <1>1, <2>1 DEF ClaimingIsNext
<1>10. FreshEntry' /\ SwapRuns'
  BY <1>7 DEF FreshEntry, SwapRuns
<1>11. UniqueEntries'
  BY <1>4 DEF UniqueEntries
<1>12. Claiming(call') => Pressing /\ call'.d = call.d /\ call'.code = call.code
  BY <1>1, <1>3, <1>4 DEF StackInv, ClaimingIsNext
<1> QED  BY <1>5, <1>7, <1>8, <1>9, <1>10, <1>11, <1>12 DEF StackInv

\* A cache in which nothing but the layers noted in its entries has changed.
Relabelled == \A i \in Slots : /\ cache'[i].code = cache[i].code /\ cache'[i].d = cache[i].d
                               /\ \/ cache'[i].layer = cache[i].layer
                                  \/ cache'[i].code = call.code /\ IsTarget(cache'[i].layer)

\* The claims after a return: those of before, or the claim of a key that has
\* just been pressed with a descriptor that holds a layer.
LEMMA ReturnClaims ==
    ASSUME TypeOK, StructureInv, call.pc = "descriptor", Return, Relabelled,
           NEW l \in Layers, ~(call.pressed /\ Holds(call.d, l)),
           \A i \in Slots : cache'[i].layer = cache[i].layer \/ cache'[i].layer # l \/ ~SwapHome(l)
    PROVE  Claimants(l)' \subseteq Claimants(l) /\ Finishing(l)' = 0
<1>1. /\ ~Pressing' /\ FreshEntry
      /\ Claiming(call') => Pressing /\ call'.d = call.d /\ call'.code = call.code
  BY ReturnStack DEF InDescriptor, Relabelled, StructureInv
<1>2. ~(Claiming(call') /\ Holds(call'.d, l))
  BY <1>1 DEF Pressing, Holds
<1>3. ASSUME NEW i \in Slots, ClaimsEntry(i, l)' PROVE ClaimsEntry(i, l)
  <2>1. /\ cache[i].code # NoKey
        /\ \/ Holds(cache[i].d, l)
           \/ cache[i].layer = l /\ SwapHome(l) /\ l # 0
    BY <1>2, <1>3 DEF ClaimsEntry, Relabelled, Claiming, InDescriptor, Holds
  <2>2. ASSUME Pressing, call.code = cache[i].code PROVE FALSE
    <3>1. cache[i].layer = 0 /\ (cache[i].d = call.d \/ cache[i].d.op \notin HoldOps)
      BY <1>1, <2>1, <2>2 DEF FreshEntry
    <3> QED  BY <2>1, <2>2, <3>1 DEF Holds, Pressing
  <2> QED  BY <2>1, <2>2 DEF ClaimsEntry
<1>4. Finishing(l)' = 0
  BY <1>2 DEF Finishing, Releasing, Claiming, InDescriptor, Holds
<1> QED  BY <1>3, <1>4 DEF Claimants

\* A descriptor that holds no layer leaves the claims as they are.
LEMMA ReturnQuiet ==
    ASSUME TypeOK, StructureInv, call.pc = "descriptor", call.d.op \notin HoldOps, Return,
           Relabelled,
           \A i \in Slots : cache'[i].layer = cache[i].layer \/ ~SwapHome(cache'[i].layer),
           OnlyTargets', SwapsPending', active_chords' = active_chords
    PROVE  StructureInv' /\ NoNewClaims
<1>1. StackInv' /\ FreshEntry' /\ SwapRuns' /\ UniqueEntries'
  BY ReturnStack DEF InDescriptor, Relabelled
<1>2. EntryTargets'
  BY DEF StructureInv, EntryTargets, Relabelled
<1>3. SwapsChorded'
  BY QuietState
<1>4. ASSUME NEW l \in Layers PROVE Claims(l)' <= Claims(l)
  <2>1. Claimants(l)' \subseteq Claimants(l) /\ Finishing(l)' = 0
    BY ReturnClaims DEF Holds
  <2> QED  BY <2>1, ClaimsType, FewerClaims
<1> QED  BY <1>1, <1>2, <1>3, <1>4 DEF StructureInv, SwapsAtHome, NoNewClaims

\* One claim on l more than before, or one less.
ClaimGained(l) == \A k \in Layers : Claims(k)' <= Claims(k) + (IF k = l THEN 1 ELSE 0)
ClaimDropped(l) == \A k \in Layers : Claims(k)' <= Claims(k) - (IF k = l THEN 1 ELSE 0)

\* The key of a descriptor that holds a layer goes up.
LEMMA ReturnReleased ==
    ASSUME TypeOK, StructureInv, call.pc = "descriptor", ~call.pressed, call.d.op \in HoldOps,
           Return, cache' = cache, OnlyTargets', SwapsPending', active_chords' = active_chords
    PROVE  StructureInv' /\ ClaimDropped(call.d.layer)
<1>1. StackInv' /\ FreshEntry' /\ SwapRuns' /\ UniqueEntries' /\ SwapsChorded' /\ EntryTargets'
  BY ReturnStack, QuietState DEF InDescriptor, StructureInv, EntryTargets
<1>2. ASSUME NEW k \in Layers
      PROVE  Claims(k)' <= Claims(k) - (IF k = call.d.layer THEN 1 ELSE 0)
  <2> DEFINE S == Claimants(k)
             T == Claimants(k)'
  <2>1. T \subseteq S /\ Finishing(k)' = 0
    BY ReturnClaims DEF Relabelled
  <2>2. Finishing(k) = IF k = call.d.layer THEN 1 ELSE 0
    BY DEF Finishing, Releasing, Holds
  <2>3. IsFiniteSet(S)
    BY ClaimsType
  <2> HIDE DEF S, T
  <2>4. Cardinality(T) <= Cardinality(S) /\ Cardinality(T) \in Nat /\ Cardinality(S) \in Nat
    BY <2>1, <2>3, FS_Subset, FS_CardinalityType
  <2> QED  BY <2>1, <2>2, <2>4 DEF Claims, S, T
<1> QED  BY <1>1, <1>2 DEF StructureInv, SwapsAtHome, ClaimDropped

\* cache_set of a layer: the entry of the key notes it.
LEMMA CacheLayerRelabels ==
    ASSUME TypeOK, NEW l \in Layers, IsTarget(l), cache' = CacheLayer(cache, call.code, l)
    PROVE  /\ Relabelled
           /\ \A i \in Slots : cache'[i].layer = cache[i].layer \/ cache'[i].layer = l
<1>1. ASSUME NEW i \in Slots
      PROVE  /\ cache'[i].code = cache[i].code /\ cache'[i].d = cache[i].d
             /\ \/ cache'[i].layer = cache[i].layer
                \/ cache[i].code = call.code /\ cache'[i].layer = l
  <2> DEFINE e == cache[i]
             e1 == cache'[i]
  <2>1. e \in Entry
    BY ModesTyped
  <2>2. e1 = IF call.code # NoKey /\ e.code = call.code THEN [e EXCEPT !.layer = l] ELSE e
    BY DEF CacheLayer
  <2> HIDE DEF e, e1
  <2>3. /\ e1.code = e.code /\ e1.d = e.d
        /\ e1.layer = e.layer \/ (e.code = call.code /\ e1.layer = l)
    BY <2>1, <2>2 DEF Entry
  <2> QED  BY <2>3 DEF e, e1
<1> QED  BY <1>1 DEF Relabelled

\* The key of a descriptor that holds a layer goes down.
LEMMA ReturnPressed ==
    ASSUME TypeOK, StructureInv, call.pc = "descriptor", call.pressed, call.d.op \in HoldOps,
           Return, cache' = CacheLayer(cache, call.code, call.d.layer),
           OnlyTargets', SwapsPending', active_chords' = active_chords
    PROVE  StructureInv' /\ ClaimGained(call.d.layer)
<1> DEFINE l == call.d.layer
<1>1. l \in Layers /\ IsTarget(l)
  BY DescriptorRuns DEF LayerArgOps
<1>2. /\ Relabelled
      /\ \A i \in Slots : cache'[i].layer = cache[i].layer \/ cache'[i].layer = l
  BY <1>1, CacheLayerRelabels
<1>3. /\ StackInv' /\ FreshEntry' /\ SwapRuns' /\ UniqueEntries' /\ SwapsChorded' /\ ~Pressing'
      /\ Claiming(call') => call'.d = call.d /\ call'.code = call.code
  BY <1>2, ReturnStack, QuietState DEF InDescriptor, Relabelled
<1>4. EntryTargets'
  BY <1>2 DEF StructureInv, EntryTargets, Relabelled
<1>5. ASSUME NEW k \in Layers, k # l PROVE Claims(k)' <= Claims(k)
  <2>1. Claimants(k)' \subseteq Claimants(k) /\ Finishing(k)' = 0
    BY <1>2, <1>5, ReturnClaims DEF Holds
  <2> QED  BY <2>1, ClaimsType, FewerClaims
<1>6. ASSUME NEW k \in Layers, k = l PROVE Claims(k)' <= Claims(k) + 1
  <2> DEFINE S == Claimants(k)
             T == Claimants(k)'
  <2>1. ASSUME NEW i \in T PROVE i \in S \/ (cache'[i].code = call.code /\ call.code # NoKey)
    <3>1. i \in Slots /\ ClaimsEntry(i, k)'
      BY DEF Claimants
    <3>2. CASE cache'[i].code # call.code
      <4>1. cache'[i].layer = cache[i].layer /\ cache'[i].code = cache[i].code /\ cache'[i].d = cache[i].d
        BY <1>2, <3>1, <3>2 DEF Relabelled
      <4>2. ~(call'.pc = "recache" /\ call'.code = cache'[i].code /\ Holds(call'.d, k))
        BY <1>3, <3>2 DEF Claiming, InDescriptor, Holds
      <4> QED  BY <3>1, <3>2, <4>1, <4>2 DEF Claimants, ClaimsEntry, Pressing
    <3>3. CASE cache'[i].code = call.code
      BY <3>1, <3>3 DEF ClaimsEntry
    <3> QED  BY <3>2, <3>3
  <2>2. IsFiniteSet(S) /\ T \subseteq Slots
    BY ClaimsType DEF Claimants
  <2>3. Finishing(k)' = 1 => \A i \in Slots : cache'[i].code = call.code => call.code = NoKey
    BY <1>3 DEF Finishing, Releasing, Claiming, InDescriptor, Holds, StackInv, ReleasedNotCached, NotCached
  <2>4. Finishing(k) = 0 /\ Finishing(k)' \in {0, 1}
    BY DEF Finishing, Releasing
  <2>5. CASE \A i \in T : i \in S
    <3>1. T \subseteq S
      BY <2>5
    <3> HIDE DEF S, T
    <3>2. Cardinality(T) <= Cardinality(S) /\ Cardinality(T) \in Nat /\ Cardinality(S) \in Nat
      BY <2>2, <3>1, FS_Subset, FS_CardinalityType
    <3> QED  BY <2>4, <3>2 DEF Claims, S, T
  <2>6. ASSUME NEW i \in T, i \notin S PROVE Claims(k)' <= Claims(k) + 1
    <3>1. cache'[i].code = call.code /\ call.code # NoKey /\ i \in Slots
      BY <2>1, <2>2, <2>6
    <3>2. ASSUME NEW j \in T PROVE j \in S \cup {i}
      <4>1. CASE j \in S
        BY <4>1
      <4>2. CASE j \notin S
        <5>1. cache'[j].code = call.code /\ j \in Slots
          BY <2>1, <2>2, <4>2
        <5> QED  BY <1>3, <3>1, <5>1 DEF UniqueEntries
      <4> QED  BY <4>1, <4>2
    <3>3. Finishing(k)' = 0
      BY <2>3, <2>4, <3>1
    <3>4. T \subseteq S \cup {i}
      BY <3>2
    <3> HIDE DEF S, T
    <3>5. /\ IsFiniteSet(S \cup {i}) /\ Cardinality(S \cup {i}) = Cardinality(S) + 1
          /\ Cardinality(S) \in Nat
      BY <2>2, <2>6, FS_AddElement, FS_CardinalityType
    <3>6. Cardinality(T) <= Cardinality(S) + 1 /\ Cardinality(T) \in Nat
      BY <3>4, <3>5, FS_Subset, FS_CardinalityType
    <3> QED  BY <2>4, <3>3, <3>5, <3>6 DEF Claims, S, T
  <2> QED  BY <2>5, <2>6
<1> QED  BY <1>1, <1>3, <1>4, <1>5, <1>6, ClaimsType DEF StructureInv, SwapsAtHome, ClaimGained

-----------------------------------------------------------------------------
(* process_descriptor.                                                     *)

\* Every way an action sets the layers leaves those that are no targets alone.
LEMMA TargetsKept ==
    ASSUME TypeOK, StructureInv
    PROVE  /\ SetLayers(ClearOneshot(layer_state)) => OnlyTargets'
           /\ SetLayers(ClearLayers(layer_state)) => OnlyTargets'
           /\ \A i \in Layers : SetLayers(SetLayoutLayers(layer_state, i)) => OnlyTargets'
           /\ \A l \in Layers : SetLayers(Activate(layer_state, l)) => OnlyTargets'
           /\ \A l \in Layers : SetLayers(Deactivate(layer_state, l)) => OnlyTargets'
           /\ UNCHANGED layer_state => OnlyTargets'
<1>1. /\ layer_state \in Layering /\ LayersOfTargets(layer_state)
      /\ LayersOfTargets(ClearOneshot(layer_state)) /\ ClearOneshot(layer_state) \in Layering
  BY LayersOfState
<1>2. ClearLayers(layer_state) \in Layering /\ LayersOfTargets(ClearLayers(layer_state))
  BY <1>1, ClearLayersType DEF LayersOfTargets
<1>3. ASSUME NEW i \in Layers
      PROVE  /\ SetLayoutLayers(layer_state, i) \in Layering
             /\ LayersOfTargets(SetLayoutLayers(layer_state, i))
  BY <1>1, <1>2, SetLayoutLayersType DEF LayersOfTargets
<1>4. ASSUME NEW l \in Layers
      PROVE  /\ Activate(layer_state, l) \in Layering /\ LayersOfTargets(Activate(layer_state, l))
             /\ Deactivate(layer_state, l) \in Layering /\ LayersOfTargets(Deactivate(layer_state, l))
  <2>1. /\ Activate(layer_state, l) \in Layering
        /\ \A k \in Layers :
             /\ Activate(layer_state, l)[k].toggled = layer_state[k].toggled
             /\ Activate(layer_state, l)[k].oneshot_depth = layer_state[k].oneshot_depth
    BY <1>1, ActivateType
  <2>2. /\ Deactivate(layer_state, l) \in Layering
        /\ \A k \in Layers :
             /\ Deactivate(layer_state, l)[k].toggled = layer_state[k].toggled
             /\ Deactivate(layer_state, l)[k].oneshot_depth = layer_state[k].oneshot_depth
    BY <1>1, DeactivateType
  <2> QED  BY <1>1, <2>1, <2>2 DEF LayersOfTargets
<1> QED  BY <1>1, <1>2, <1>3, <1>4, OnlyTargetsSet, QuietState

\* An action that changes nothing but the layers and the modes.
LEMMA PlainReturn ==
    ASSUME TypeOK, StructureInv, call.pc = "descriptor", call.d.op \notin HoldOps, Return,
           cache' = cache, pending_key' = pending_key, active_chords' = active_chords, OnlyTargets'
    PROVE  StructureInv' /\ NoNewClaims
<1>1. /\ Relabelled
      /\ \A i \in Slots : cache'[i].layer = cache[i].layer
  BY DEF Relabelled
<1> QED  BY <1>1, QuietState, ReturnQuiet

LEMMA OpKeySequenceQuiet ==
    ASSUME TypeOK, StructureInv, OpKeySequence  PROVE StructureInv' /\ NoNewClaims
<1>1. /\ call.pc = "descriptor" /\ call.d.op \notin HoldOps /\ Return /\ cache' = cache
      /\ pending_key' = pending_key /\ active_chords' = active_chords
      /\ SetLayers(ClearOneshot(layer_state)) \/ UNCHANGED layer_state
  BY DEF OpKeySequence, Executing, HoldOps, keyVars, chordVars
<1> QED  BY <1>1, TargetsKept, PlainReturn

LEMMA OpScrollQuiet ==
    ASSUME TypeOK, StructureInv, OpScroll  PROVE StructureInv' /\ NoNewClaims
<1>1. /\ call.pc = "descriptor" /\ call.d.op \notin HoldOps /\ Return /\ cache' = cache
      /\ pending_key' = pending_key /\ active_chords' = active_chords /\ UNCHANGED layer_state
  BY DEF OpScroll, Executing, HoldOps, Done, layerVars, keyVars, chordVars
<1> QED  BY <1>1, TargetsKept, PlainReturn

LEMMA OpClearQuiet ==
    ASSUME TypeOK, StructureInv, OpClear  PROVE StructureInv' /\ NoNewClaims
<1>1. /\ call.pc = "descriptor" /\ call.d.op \notin HoldOps /\ Return /\ cache' = cache
      /\ pending_key' = pending_key /\ active_chords' = active_chords
      /\ SetLayers(ClearLayers(layer_state)) \/ UNCHANGED layer_state
  BY DEF OpClear, Executing, HoldOps, Done, keyVars, chordVars
<1> QED  BY <1>1, TargetsKept, PlainReturn

LEMMA OpLayoutQuiet ==
    ASSUME TypeOK, StructureInv, OpLayout  PROVE StructureInv' /\ NoNewClaims
<1>1. /\ call.pc = "descriptor" /\ call.d.op \notin HoldOps /\ Return /\ cache' = cache
      /\ pending_key' = pending_key /\ active_chords' = active_chords
      /\ SetLayers(SetLayoutLayers(layer_state, call.d.layer)) \/ UNCHANGED layer_state
  BY DEF OpLayout, Executing, HoldOps, Done, keyVars, chordVars
<1> QED  BY <1>1, DescriptorRuns, TargetsKept, PlainReturn

LEMMA OpMacroQuiet ==
    ASSUME TypeOK, StructureInv, OpMacro  PROVE StructureInv' /\ NoNewClaims
<1>1. /\ call.pc = "descriptor" /\ call.d.op \notin HoldOps /\ Return /\ cache' = cache
      /\ pending_key' = pending_key /\ active_chords' = active_chords
      /\ SetLayers(ClearOneshot(layer_state)) \/ UNCHANGED layer_state
  BY DEF OpMacro, Executing, HoldOps, Done, keyVars, chordVars
<1> QED  BY <1>1, TargetsKept, PlainReturn

LEMMA OpCommandQuiet ==
    ASSUME TypeOK, StructureInv, OpCommand  PROVE StructureInv' /\ NoNewClaims
<1>1. /\ call.pc = "descriptor" /\ call.d.op \notin HoldOps /\ Return /\ cache' = cache
      /\ pending_key' = pending_key /\ active_chords' = active_chords
      /\ SetLayers(ClearOneshot(layer_state)) \/ UNCHANGED layer_state
  BY DEF OpCommand, Executing, HoldOps, Done, keyVars, chordVars
<1> QED  BY <1>1, TargetsKept, PlainReturn

LEMMA SwapReleasedQuiet ==
    ASSUME TypeOK, StructureInv, SwapReleased  PROVE StructureInv' /\ NoNewClaims
<1>1. /\ call.pc = "descriptor" /\ call.d.op \notin HoldOps /\ Return /\ cache' = cache
      /\ pending_key' = pending_key /\ active_chords' = active_chords /\ UNCHANGED layer_state
  BY DEF SwapReleased, Executing, HoldOps, SwapOps, Done, layerVars, keyVars, chordVars
<1> QED  BY <1>1, TargetsKept, PlainReturn

LEMMA OpToggleQuiet ==
    ASSUME SwapToggleDisjoint, TypeOK, StructureInv, OpToggle  PROVE StructureInv' /\ NoNewClaims
<1> DEFINE l == call.d.layer
           on == layer_state[l].toggled = 0
           ls == IF on THEN [Activate(layer_state, l) EXCEPT ![l].toggled = 1]
                 ELSE [Deactivate(layer_state, l) EXCEPT ![l].toggled = 0]
<1>1. /\ call.pc = "descriptor" /\ call.d.op \in ToggleOps /\ Return
      /\ pending_key' = pending_key /\ active_chords' = active_chords
  BY DEF OpToggle, Executing, Done, chordVars
<1>2. call.d.op \notin HoldOps /\ call.d.op \in LayerArgOps
  BY <1>1 DEF HoldOps, ToggleOps, LayerArgOps
<1>3. l \in Layers /\ IsTarget(l) /\ ~SwapHome(l)
  <2>1. call.d \in Runnable
    BY <1>1, DescriptorRuns
  <2> QED  BY <1>1, <1>2, <2>1, DescriptorRuns DEF Runnable, SwapToggleDisjoint
<1>4. OnlyTargets'
  <2>1. layer_state \in Layering /\ LayersOfTargets(layer_state)
    BY LayersOfState
  <2>2. ls \in Layering /\ LayersOfTargets(ls)
    <3> DEFINE a == IF on THEN Activate(layer_state, l) ELSE Deactivate(layer_state, l)
               n == IF on THEN 1 ELSE 0
    <3>1. /\ a \in Layering /\ n \in {0, 1}
          /\ \A k \in Layers : /\ a[k].toggled = layer_state[k].toggled
                               /\ a[k].oneshot_depth = layer_state[k].oneshot_depth
      BY <1>3, <2>1, ActivateType, DeactivateType
    <3>2. ls = [a EXCEPT ![l].toggled = n]
      OBVIOUS
    <3> HIDE DEF a, n, ls
    <3>3. /\ ls \in Layering
          /\ \A k \in Layers : /\ ls[k].oneshot_depth = a[k].oneshot_depth
                               /\ k # l => ls[k].toggled = a[k].toggled
      BY <1>3, <3>1, <3>2 DEF Layering, LayerState
    <3> QED  BY <1>3, <2>1, <3>1, <3>3 DEF LayersOfTargets
  <2>3. SetLayers(ClearOneshot(ls)) \/ UNCHANGED layer_state
    BY DEF OpToggle, layerVars
  <2> HIDE DEF ls
  <2>4. ClearOneshot(ls) \in Layering /\ LayersOfTargets(ClearOneshot(ls))
    BY <2>2, ClearOneshotType DEF LayersOfTargets
  <2> QED  BY <2>3, <2>4, OnlyTargetsSet, QuietState
<1>5. /\ Relabelled
      /\ \A i \in Slots : cache'[i].layer = cache[i].layer \/ cache'[i].layer = l
  <2>1. cache' = CacheLayer(cache, call.code, l) \/ cache' = cache
    BY DEF OpToggle
  <2> QED  BY <1>3, <2>1, CacheLayerRelabels DEF Relabelled
<1>6. \A i \in Slots : cache'[i].layer = cache[i].layer \/ ~SwapHome(cache'[i].layer)
  BY <1>3, <1>5
<1> QED  BY <1>1, <1>2, <1>4, <1>5, <1>6, QuietState, ReturnQuiet

LEMMA PendingReturn ==
    ASSUME TypeOK, StructureInv, call.pc = "descriptor", call.d.op \notin HoldOps, Return,
           cache' = cache, active_chords' = active_chords, layer_state' = layer_state,
           SwapsPending'
    PROVE  StructureInv' /\ NoNewClaims
<1>1. /\ Relabelled
      /\ \A i \in Slots : cache'[i].layer = cache[i].layer
  BY DEF Relabelled
<1> QED  BY <1>1, QuietState, ReturnQuiet

LEMMA BecomePendingQuiet ==
    ASSUME TypeOK, NEW b, NEW e, NEW action1, NEW action2, BecomePending(b, e, action1, action2),
           \A l : SwapAtHome(action1, l) /\ SwapAtHome(action2, l)
    PROVE  SwapsPending'
<1>1. pending_key'.action1 = action1 /\ pending_key'.action2 = action2
  BY ModesTyped DEF BecomePending, Pending
<1> QED  BY <1>1 DEF SwapsPending

LEMMA OpOverloadTimeoutQuiet ==
    ASSUME TypeOK, StructureInv, OpOverloadTimeout  PROVE StructureInv' /\ NoNewClaims
<1> DEFINE d == call.d
<1>1. /\ call.pc = "descriptor" /\ d.op \notin HoldOps /\ Return /\ cache' = cache
      /\ active_chords' = active_chords /\ UNCHANGED layer_state
  BY DEF OpOverloadTimeout, Executing, HoldOps, Done, layerVars, chordVars
<1>2. d.act \in Acts
  BY <1>1, DescriptorRuns
<1>3. \/ BecomePending(IF d.op = "overloadt2" THEN "uninterruptible_tap_action2"
                       ELSE "uninterruptible",
                       call.time + d.timeout,
                       DescTable[d.act], LayerAction("layer", d.layer))
      \/ UNCHANGED pending_key
  BY DEF OpOverloadTimeout
<1>4. SwapsPending'
  BY <1>2, <1>3, ActionsAtHome, BecomePendingQuiet, QuietState
<1> QED  BY <1>1, <1>4, PendingReturn

LEMMA OpTimeoutQuiet ==
    ASSUME TypeOK, StructureInv, OpTimeout  PROVE StructureInv' /\ NoNewClaims
<1> DEFINE d == call.d
<1>1. /\ call.pc = "descriptor" /\ d.op \notin HoldOps /\ Return /\ cache' = cache
      /\ active_chords' = active_chords /\ UNCHANGED layer_state
  BY DEF OpTimeout, Executing, HoldOps, Done, layerVars, chordVars
<1>2. d.act \in Acts /\ d.act2 \in Acts
  BY <1>1, DescriptorRuns
<1>3. \/ BecomePending("interrupt_action1", call.time + d.timeout,
                       DescTable[d.act], DescTable[d.act2])
      \/ UNCHANGED pending_key
  BY DEF OpTimeout
<1>4. SwapsPending'
  BY <1>2, <1>3, ActionsAtHome, BecomePendingQuiet, QuietState
<1> QED  BY <1>1, <1>4, PendingReturn

-----------------------------------------------------------------------------
(* The actions that hold a layer.                                          *)

LEMMA OpLayerClaims ==
    ASSUME TypeOK, StructureInv, OpLayer
    PROVE  /\ StructureInv'
           /\ call.pressed => ClaimGained(call.d.layer)
           /\ ~call.pressed => ClaimDropped(call.d.layer)
<1>1. /\ call.pc = "descriptor" /\ call.d.op \in HoldOps /\ Return
      /\ pending_key' = pending_key /\ active_chords' = active_chords
      /\ \/ SetLayers(Activate(layer_state, call.d.layer))
         \/ SetLayers(Deactivate(layer_state, call.d.layer))
      /\ call.pressed => cache' = CacheLayer(cache, call.code, call.d.layer)
      /\ ~call.pressed => cache' = cache
  BY DEF OpLayer, Executing, HoldOps, Done, chordVars
<1>2. OnlyTargets' /\ SwapsPending'
  BY <1>1, DescriptorRuns, TargetsKept, QuietState
<1>3. CASE call.pressed
  BY <1>1, <1>2, <1>3, ReturnPressed
<1>4. CASE ~call.pressed
  BY <1>1, <1>2, <1>4, ReturnReleased
<1> QED  BY <1>3, <1>4

LEMMA OverloadPressedClaims ==
    ASSUME TypeOK, StructureInv, OverloadPressed
    PROVE  StructureInv' /\ ClaimGained(call.d.layer)
<1>1. /\ call.pc = "descriptor" /\ call.d.op \in HoldOps /\ call.pressed /\ Return
      /\ pending_key' = pending_key /\ active_chords' = active_chords
      /\ SetLayers(Activate(layer_state, call.d.layer))
      /\ cache' = CacheLayer(cache, call.code, call.d.layer)
  BY DEF OverloadPressed, Executing, HoldOps, chordVars
<1>2. OnlyTargets' /\ SwapsPending'
  BY <1>1, DescriptorRuns, TargetsKept, QuietState
<1> QED  BY <1>1, <1>2, ReturnPressed

LEMMA OneshotPressedClaims ==
    ASSUME TypeOK, StructureInv, OneshotPressed
    PROVE  StructureInv' /\ ClaimGained(call.d.layer)
<1>1. /\ call.pc = "descriptor" /\ call.d.op \in HoldOps /\ call.pressed /\ Return
      /\ pending_key' = pending_key /\ active_chords' = active_chords
      /\ SetLayers(Activate(layer_state, call.d.layer))
      /\ cache' = CacheLayer(cache, call.code, call.d.layer)
  BY DEF OneshotPressed, Executing, HoldOps, Done, chordVars
<1>2. OnlyTargets' /\ SwapsPending'
  BY <1>1, DescriptorRuns, TargetsKept, QuietState
<1> QED  BY <1>1, <1>2, ReturnPressed

LEMMA OneshotReleasedClaims ==
    ASSUME TypeOK, StructureInv, OneshotReleased
    PROVE  StructureInv' /\ ClaimDropped(call.d.layer)
<1> DEFINE l == call.d.layer
           n == (layer_state[l].oneshot_depth + 1) % CounterSize
           ls == [layer_state EXCEPT ![l].oneshot_depth = n]
<1>1. /\ call.pc = "descriptor" /\ call.d.op \in HoldOps /\ ~call.pressed /\ Return
      /\ pending_key' = pending_key /\ active_chords' = active_chords /\ cache' = cache
      /\ SetLayers(ls) \/ SetLayers(Deactivate(layer_state, l))
  BY DEF OneshotReleased, Executing, HoldOps, Done, keyVars, chordVars
<1>2. l \in Layers /\ IsTarget(l) /\ layer_state \in Layering /\ LayersOfTargets(layer_state)
  BY <1>1, DescriptorRuns, LayersOfState DEF LayerArgOps
<1>3. n \in Nat
  BY <1>2, SizesAssumption DEF Layering, LayerState
<1> HIDE DEF n
<1>4. ls \in Layering /\ LayersOfTargets(ls)
  <2>1. /\ ls \in Layering
        /\ \A k \in Layers : /\ ls[k].toggled = layer_state[k].toggled
                             /\ k # l => ls[k].oneshot_depth = layer_state[k].oneshot_depth
    <3> DEFINE s == layer_state
    <3>1. ls = [s EXCEPT ![l].oneshot_depth = n] /\ s \in Layering /\ l \in Layers
      BY <1>2
    <3> HIDE DEF ls, s, l
    <3>2. /\ ls \in Layering
          /\ \A k \in Layers : /\ ls[k].toggled = s[k].toggled
                               /\ k # l => ls[k].oneshot_depth = s[k].oneshot_depth
      BY <1>3, <3>1 DEF Layering, LayerState
    <3> QED  BY <3>2 DEF s
  <2> HIDE DEF ls
  <2> QED  BY <1>2, <2>1 DEF LayersOfTargets
<1>5. OnlyTargets' /\ SwapsPending'
  <2> HIDE DEF ls
  <2> QED  BY <1>1, <1>2, <1>4, OnlyTargetsSet, TargetsKept, QuietState
<1> QED  BY <1>1, <1>5, ReturnReleased

-----------------------------------------------------------------------------
(* The actions that run another one for their key.                         *)

\* process_descriptor presses a row of DescTable, and then runs its tail k.
LEMMA Nested ==
    ASSUME TypeOK, StructureInv, call.pc = "descriptor", ~(call.pressed /\ call.d.op \in HoldOps),
           NEW d, \A l : SwapAtHome(d, l), NEW k \in Frame, InDescriptor(k), k.d = d,
           k.code = call.code, k.pc = "descriptor" => ~k.pressed /\ NotCached(call.code),
           \A i \in Slots : cache[i].code = call.code /\ call.code # NoKey =>
                               cache[i].layer = 0 /\ cache[i].d.op \notin HoldOps,
           CallThen(ProcessDescriptor(call.code, d, call.dl, TRUE, call.time), <<k>>),
           UNCHANGED keyVars, active_chords' = active_chords, OnlyTargets'
    PROVE  /\ StructureInv'
           /\ \A l \in Layers : Claimants(l)' \subseteq Claimants(l) /\ Finishing(l)' = 0
<1> DEFINE all == <<k>> \o callers
<1>1. /\ call'.pc = "descriptor" /\ call'.code = call.code /\ call'.d = d /\ call'.pressed = TRUE
      /\ callers' = all /\ cache' = cache /\ pending_key' = pending_key
  BY DEF CallThen, ProcessDescriptor, keyVars
<1>2. /\ all \in Seq(Frame) /\ Len(all) = Len(callers) + 1 /\ Len(callers) \in Nat
      /\ all[1] = k
      /\ \A i \in 2 .. Len(all) : i - 1 \in DOMAIN callers /\ all[i] = callers[i - 1]
  <2>1. <<k>> \in Seq(Frame) /\ Len(<<k>>) = 1 /\ <<k>>[1] = k /\ callers \in Seq(Frame)
    BY StackTyped
  <2>2. /\ all \in Seq(Frame) /\ Len(all) = 1 + Len(callers) /\ Len(callers) \in Nat
        /\ \A i \in 1 .. 1 + Len(callers) :
               all[i] = IF i <= 1 THEN <<k>>[i] ELSE callers[i - 1]
    BY <2>1, ConcatProperties
  <2>3. DOMAIN callers = 1 .. Len(callers)
    BY <2>1
  <2> HIDE DEF all
  <2> QED  BY <2>1, <2>2, <2>3
<1> HIDE DEF all
<1>3. DOMAIN all = 1 .. Len(all)
  BY <1>2
<1>4. StackInv /\ EntryTargets /\ UniqueEntries
  BY DEF StructureInv
<1>5. ASSUME NEW i \in DOMAIN all
      PROVE  /\ i = 1 \/ (i - 1 \in DOMAIN callers /\ all[i] = callers[i - 1])
             /\ i \in Nat
  BY <1>2, <1>3
<1>6. Innermost'
  <2>1. ASSUME NEW i \in DOMAIN all, NEW j \in DOMAIN all, i <= j, InDescriptor(all[j])
        PROVE  InDescriptor(all[i])
    <3>1. CASE i = 1
      BY <1>2, <3>1
    <3>2. CASE i # 1
      <4>1. j # 1 /\ i - 1 <= j - 1
        BY <1>2, <1>3, <2>1, <3>2
      <4> QED  BY <1>4, <1>5, <2>1, <3>2, <4>1 DEF StackInv, Innermost
    <3> QED  BY <3>1, <3>2
  <2> QED  BY <1>1, <2>1 DEF Innermost, InDescriptor
<1>7. ReleasedNotCached'
  <2>1. ASSUME NEW i \in DOMAIN all, all[i].pc = "descriptor"
        PROVE  ~all[i].pressed /\ NotCached(all[i].code)
    BY <1>2, <1>4, <1>5, <2>1 DEF StackInv, ReleasedNotCached
  <2> QED  BY <1>1, <2>1 DEF ReleasedNotCached, Releasing, NotCached
<1>8. KeyKnown'
  <2>1. ASSUME NEW i \in DOMAIN all PROVE all[i].pc \notin {"timers", "key"}
    BY <1>2, <1>4, <1>5 DEF StackInv, KeyKnown, InDescriptor
  <2> QED  BY <1>1, <2>1 DEF KeyKnown
<1>9. ClaimingIsNext'
  <2>1. ASSUME NEW i \in DOMAIN all, Claiming(all[i]) PROVE i = 1
    <3>1. \A j \in DOMAIN callers : ~Claiming(callers[j])
      BY <1>4 DEF StackInv, ClaimingIsNext, Claiming, Pressing
    <3> QED  BY <1>5, <2>1, <3>1
  <2> QED  BY <1>1, <1>2, <2>1 DEF ClaimingIsNext, Pressing
<1>10. FreshEntry' /\ SwapRuns'
  BY <1>1 DEF FreshEntry, SwapRuns, Pressing
<1>11. EntryTargets' /\ UniqueEntries' /\ SwapsPending' /\ SwapsChorded'
  BY <1>1, <1>4, QuietState DEF EntryTargets, UniqueEntries
<1>12. ASSUME NEW l \in Layers PROVE Claimants(l)' \subseteq Claimants(l) /\ Finishing(l)' = 0
  BY <1>1 DEF Claimants, ClaimsEntry, Finishing, Pressing, Releasing
<1> QED  BY <1>6, <1>7, <1>8, <1>9, <1>10, <1>11, <1>12 DEF StructureInv, StackInv, SwapsAtHome

LEMMA OpOverloadIdleQuiet ==
    ASSUME TypeOK, StructureInv, OpOverloadIdle  PROVE StructureInv' /\ NoNewClaims
<1> DEFINE action == DescTable[IF call.time - recent.last_simple_key_time >= call.d.timeout
                               THEN call.d.act2 ELSE call.d.act]
           k == Recache(call.code, action)
<1>1. /\ call.pc = "descriptor" /\ call.d.op \notin HoldOps /\ UNCHANGED keyVars
      /\ active_chords' = active_chords /\ layer_state' = layer_state
  BY DEF OpOverloadIdle, Executing, HoldOps, layerVars, chordVars
<1>2. action \in Runnable /\ (\A l : SwapAtHome(action, l)) /\ call.code \in Codes
  BY <1>1, DescriptorRuns, ConfigDescsType, ActionsAtHome
<1>3. OnlyTargets'
  BY <1>1, TargetsKept
<1>4. CASE ~call.pressed
  BY <1>1, <1>3, <1>4, PlainReturn DEF OpOverloadIdle, keyVars
<1>5. CASE call.pressed
  <2>1. CallThen(ProcessDescriptor(call.code, action, call.dl, TRUE, call.time), <<k>>)
    BY <1>5 DEF OpOverloadIdle
  <2> HIDE DEF action
  <2>2. k \in Frame /\ k.pc = "recache" /\ k.code = call.code /\ k.d = action
    BY <1>2, FrameMakers DEF Recache
  <2> HIDE DEF k
  <2>3. \A i \in Slots : cache[i].code = call.code /\ call.code # NoKey =>
                               cache[i].layer = 0 /\ cache[i].d.op \notin HoldOps
    BY <1>1, <1>5 DEF StructureInv, FreshEntry, Pressing
  <2>4. /\ StructureInv'
        /\ \A l \in Layers : Claimants(l)' \subseteq Claimants(l) /\ Finishing(l)' = 0
    BY <1>1, <1>2, <1>3, <2>1, <2>2, <2>3, Nested DEF InDescriptor
  <2>5. ASSUME NEW l \in Layers PROVE Claims(l)' <= Claims(l)
    BY <2>4, ClaimsType, FewerClaims
  <2> QED  BY <2>4, <2>5 DEF NoNewClaims
<1> QED  BY <1>4, <1>5

\* The descriptor that was pressed takes over the entry it already claimed.
LEMMA RecacheActionQuiet ==
    ASSUME TypeOK, StructureInv, RecacheAction  PROVE StructureInv' /\ NoNewClaims
<1>1. /\ call.pc = "recache" /\ Return /\ layer_state' = layer_state
      /\ pending_key' = pending_key /\ active_chords' = active_chords
      /\ OnlyTargets' /\ SwapsPending' /\ SwapsChorded'
  BY QuietState DEF RecacheAction, layerVars, chordVars
<1>2. ASSUME NEW i \in Slots
      PROVE  /\ cache'[i].code = cache[i].code /\ cache'[i].layer = cache[i].layer
             /\ \/ cache'[i].d = cache[i].d
                \/ cache'[i].d = call.d /\ cache[i].code = call.code
  <2> DEFINE e == cache[i]
             e1 == cache'[i]
  <2>1. e \in Entry
    BY ModesTyped
  <2>2. e1 = IF e.code = call.code THEN [e EXCEPT !.d = call.d] ELSE e
    BY DEF RecacheAction
  <2> HIDE DEF e, e1
  <2>3. /\ e1.code = e.code /\ e1.layer = e.layer
        /\ e1.d = e.d \/ (e1.d = call.d /\ e.code = call.code)
    BY <2>1, <2>2 DEF Entry
  <2> QED  BY <2>3 DEF e, e1
<1>3. /\ StackInv' /\ FreshEntry' /\ SwapRuns' /\ UniqueEntries'
      /\ ~Claiming(call')
  BY <1>1, <1>2, ReturnStack DEF InDescriptor, Pressing
<1>4. EntryTargets'
  BY <1>2 DEF StructureInv, EntryTargets
<1>5. ASSUME NEW l \in Layers PROVE Claims(l)' <= Claims(l)
  <2>1. ASSUME NEW i \in Slots, ClaimsEntry(i, l)' PROVE ClaimsEntry(i, l)
    <3>1. ~(call'.pc = "recache" /\ Holds(call'.d, l))
      BY <1>3 DEF Claiming, InDescriptor, Holds
    <3> QED  BY <1>1, <1>2, <2>1, <3>1 DEF ClaimsEntry, Pressing, Holds
  <2>2. Finishing(l)' = 0
    BY <1>3 DEF Finishing, Releasing, Claiming, InDescriptor, Holds
  <2>3. Claimants(l)' \subseteq Claimants(l)
    BY <2>1 DEF Claimants
  <2> QED  BY <2>2, <2>3, ClaimsType, FewerClaims
<1> QED  BY <1>1, <1>3, <1>4, <1>5 DEF StructureInv, SwapsAtHome, NoNewClaims

LEMMA OverloadReleasedClaims ==
    ASSUME TypeOK, StructureInv, OverloadReleased
    PROVE  StructureInv' /\ ClaimDropped(call.d.layer)
<1> DEFINE action == DescTable[call.d.act]
           k == ProcessDescriptor(call.code, action, call.dl, FALSE, call.time)
<1>1. /\ call.pc = "descriptor" /\ call.d.op \in HoldOps /\ ~call.pressed /\ UNCHANGED keyVars
      /\ active_chords' = active_chords /\ SetLayers(Deactivate(layer_state, call.d.layer))
  BY DEF OverloadReleased, Executing, HoldOps, chordVars
<1>2. OnlyTargets'
  BY <1>1, DescriptorRuns, TargetsKept
<1>3. \/ Return
      \/ CallThen(ProcessDescriptor(call.code, action, call.dl, TRUE, call.time), <<k>>)
  BY DEF OverloadReleased
<1>4. CASE Return
  BY <1>1, <1>2, <1>4, QuietState, ReturnReleased DEF keyVars
<1>5. CASE CallThen(ProcessDescriptor(call.code, action, call.dl, TRUE, call.time), <<k>>)
  <2>1. action \in Runnable /\ (\A l : SwapAtHome(action, l)) /\ call.code \in Codes
        /\ call.dl \in Layers /\ call.time \in Nat
    BY <1>1, DescriptorRuns, ConfigDescsType, ActionsAtHome
  <2> HIDE DEF action
  <2>2. /\ k \in Frame /\ k.pc = "descriptor" /\ k.code = call.code /\ k.d = action
        /\ k.pressed = FALSE
    BY <2>1, FrameMakers DEF ProcessDescriptor
  <2> HIDE DEF k
  <2>3. NotCached(call.code)
    BY <1>1 DEF StructureInv, StackInv, ReleasedNotCached, Releasing
  <2>4. /\ StructureInv'
        /\ \A l \in Layers : Claimants(l)' \subseteq Claimants(l) /\ Finishing(l)' = 0
    BY <1>1, <1>2, <1>5, <2>1, <2>2, <2>3, Nested DEF InDescriptor, NotCached
  <2>5. ASSUME NEW l \in Layers
        PROVE  Claims(l)' <= Claims(l) - (IF l = call.d.layer THEN 1 ELSE 0)
    <3> DEFINE S == Claimants(l)
               T == Claimants(l)'
    <3>1. T \subseteq S /\ Finishing(l)' = 0 /\ IsFiniteSet(S)
      BY <2>4, ClaimsType
    <3>2. Finishing(l) = IF l = call.d.layer THEN 1 ELSE 0
      BY <1>1 DEF Finishing, Releasing, Holds
    <3> HIDE DEF S, T
    <3>3. Cardinality(T) <= Cardinality(S) /\ Cardinality(T) \in Nat /\ Cardinality(S) \in Nat
      BY <3>1, FS_Subset, FS_CardinalityType
    <3> QED  BY <3>1, <3>2, <3>3 DEF Claims, S, T
  <2> QED  BY <2>4, <2>5 DEF ClaimDropped
<1> QED  BY <1>3, <1>4, <1>5

-----------------------------------------------------------------------------
(* Swaps.                                                                  *)

\* What a swap sets the layers to: l instead of dl, toggled like dl or left on
\* by a oneshot like dl.
Swapped(dl, l) == Activate(Deactivate(layer_state, dl), l)
SwappedToggle(dl, l) == MoveToggle(Swapped(dl, l), dl, l)
SwappedOneshot(dl, l) == [[Swapped(dl, l) EXCEPT ![dl].oneshot_depth = @ - 1]
                             EXCEPT ![l].oneshot_depth = (@ + 1) % CounterSize]

LEMMA SwappedType ==
    ASSUME TypeOK, NEW dl \in Layers, NEW l \in Layers
    PROVE  /\ Swapped(dl, l) \in Layering
           /\ \A k \in Layers :
                /\ Swapped(dl, l)[k].toggled = layer_state[k].toggled
                /\ Swapped(dl, l)[k].oneshot_depth = layer_state[k].oneshot_depth
                /\ k # l => Swapped(dl, l)[k].active
                             = layer_state[k].active - (IF k = dl THEN 1 ELSE 0)
           /\ LET n == layer_state[l].active - (IF l = dl THEN 1 ELSE 0)
              IN Swapped(dl, l)[l].active = IF n < 0 THEN n ELSE (n + 1) % CounterSize
<1> DEFINE ls0 == Deactivate(layer_state, dl)
           ls == Activate(ls0, l)
<1>1. layer_state \in Layering
  BY LayersTyped
<1>2. /\ ls0 \in Layering
      /\ \A k \in Layers : /\ ls0[k].toggled = layer_state[k].toggled
                           /\ ls0[k].oneshot_depth = layer_state[k].oneshot_depth
                           /\ k # dl => ls0[k].active = layer_state[k].active
      /\ ls0[dl].active = layer_state[dl].active - 1
  BY <1>1, DeactivateType
<1>3. \A k \in Layers : ls0[k].active = layer_state[k].active - (IF k = dl THEN 1 ELSE 0)
  BY <1>1, <1>2 DEF Layering, LayerState
<1> HIDE DEF ls0
<1>4. /\ ls \in Layering
      /\ \A k \in Layers : /\ ls[k].toggled = ls0[k].toggled
                           /\ ls[k].oneshot_depth = ls0[k].oneshot_depth
                           /\ k # l => ls[k].active = ls0[k].active
      /\ ls[l].active = IF ls0[l].active < 0 THEN ls0[l].active
                        ELSE (ls0[l].active + 1) % CounterSize
  BY <1>2, ActivateType
<1> HIDE DEF ls
<1>5. Swapped(dl, l) = ls
  BY DEF Swapped, ls, ls0
<1> QED  BY <1>2, <1>3, <1>4, <1>5

LEMMA SwappedToggleType ==
    ASSUME TypeOK, NEW dl \in Layers, NEW l \in Layers
    PROVE  /\ SwappedToggle(dl, l) \in Layering
           /\ \A k \in Layers :
                /\ SwappedToggle(dl, l)[k].active = Swapped(dl, l)[k].active
                /\ SwappedToggle(dl, l)[k].oneshot_depth = layer_state[k].oneshot_depth
                /\ SwappedToggle(dl, l)[k].toggled =
                      IF k = l THEN 1 ELSE IF k = dl THEN 0 ELSE layer_state[k].toggled
<1> DEFINE ls == Swapped(dl, l)
           ls1 == [ls EXCEPT ![dl].toggled = 0]
           ls2 == [ls1 EXCEPT ![l].toggled = 1]
<1>1. /\ ls \in Layering
      /\ \A k \in Layers : /\ ls[k].toggled = layer_state[k].toggled
                           /\ ls[k].oneshot_depth = layer_state[k].oneshot_depth
  BY SwappedType
<1> HIDE DEF ls
<1>2. /\ ls1 \in Layering
      /\ \A k \in Layers : /\ ls1[k].active = ls[k].active
                           /\ ls1[k].oneshot_depth = ls[k].oneshot_depth
                           /\ ls1[k].toggled = IF k = dl THEN 0 ELSE ls[k].toggled
  BY <1>1 DEF Layering, LayerState
<1> HIDE DEF ls1
<1>3. /\ ls2 \in Layering
      /\ \A k \in Layers : /\ ls2[k].active = ls1[k].active
                           /\ ls2[k].oneshot_depth = ls1[k].oneshot_depth
                           /\ ls2[k].toggled = IF k = l THEN 1 ELSE ls1[k].toggled
  BY <1>2 DEF Layering, LayerState
<1>4. SwappedToggle(dl, l) = ls2
  BY DEF SwappedToggle, MoveToggle, ls, ls1
<1> HIDE DEF ls2
<1> QED  BY <1>1, <1>2, <1>3, <1>4 DEF ls

LEMMA SwappedOneshotType ==
    ASSUME TypeOK, NEW dl \in Layers, NEW l \in Layers, layer_state[dl].oneshot_depth > 0
    PROVE  /\ SwappedOneshot(dl, l) \in Layering
           /\ \A k \in Layers :
                /\ SwappedOneshot(dl, l)[k].active = Swapped(dl, l)[k].active
                /\ SwappedOneshot(dl, l)[k].toggled = layer_state[k].toggled
                /\ k # l => SwappedOneshot(dl, l)[k].oneshot_depth
                             = layer_state[k].oneshot_depth - (IF k = dl THEN 1 ELSE 0)
           /\ LET n == layer_state[l].oneshot_depth - (IF l = dl THEN 1 ELSE 0)
              IN SwappedOneshot(dl, l)[l].oneshot_depth = (n + 1) % CounterSize
<1> DEFINE ls == Swapped(dl, l)
           less == ls[dl].oneshot_depth - 1
           ls1 == [ls EXCEPT ![dl].oneshot_depth = less]
           more == (ls1[l].oneshot_depth + 1) % CounterSize
           ls2 == [ls1 EXCEPT ![l].oneshot_depth = more]
<1>1. /\ ls \in Layering
      /\ \A k \in Layers : /\ ls[k].toggled = layer_state[k].toggled
                           /\ ls[k].oneshot_depth = layer_state[k].oneshot_depth
  BY SwappedType
<1>2. SwappedOneshot(dl, l) = ls2
  BY DEF SwappedOneshot
<1> HIDE DEF ls
<1>3. less \in Nat /\ less = layer_state[dl].oneshot_depth - 1
  BY <1>1 DEF Layering, LayerState
<1> HIDE DEF less
<1>4. /\ ls1 \in Layering
      /\ \A k \in Layers : /\ ls1[k].active = ls[k].active /\ ls1[k].toggled = ls[k].toggled
                           /\ ls1[k].oneshot_depth = IF k = dl THEN less ELSE ls[k].oneshot_depth
  BY <1>1, <1>3 DEF Layering, LayerState
<1> HIDE DEF ls1
<1>5. more \in Nat
  BY <1>4, SizesAssumption DEF Layering, LayerState
<1> HIDE DEF more
<1>6. /\ ls2 \in Layering
      /\ \A k \in Layers : /\ ls2[k].active = ls1[k].active /\ ls2[k].toggled = ls1[k].toggled
                           /\ ls2[k].oneshot_depth = IF k = l THEN more ELSE ls1[k].oneshot_depth
  BY <1>4, <1>5 DEF Layering, LayerState
<1> HIDE DEF ls2
<1>7. \A k \in Layers : ls1[k].oneshot_depth
                           = layer_state[k].oneshot_depth - (IF k = dl THEN 1 ELSE 0)
  BY <1>1, <1>3, <1>4 DEF Layering, LayerState
<1> QED  BY <1>1, <1>2, <1>4, <1>6, <1>7 DEF ls, more

\* The four ways a swap goes.
SwapOfToggle(dl, l) == SetLayers(SwappedToggle(dl, l)) /\ cache' = cache
SwapOfOneshot(dl, l) == /\ layer_state[dl].oneshot_depth > 0
                        /\ SetLayers(SwappedOneshot(dl, l)) /\ cache' = cache
SwapOfKey(dl, l) == /\ SetLayers(Swapped(dl, l))
                    /\ \E i \in SwappedSlot :
                          cache' = [cache EXCEPT ![i].d.op = "layer", ![i].d.layer = l, ![i].layer = l]
SwapOfNothing == layer_state' = layer_state /\ cache' = cache

LEMMA SwapPressedSteps ==
    ASSUME TypeOK, StructureInv, SwapPressed
    PROVE  /\ call.pc = "descriptor" /\ call.d.op \in SwapOps /\ call.pressed /\ Return
           /\ call.dl \in Layers /\ call.d.layer \in Layers /\ IsTarget(call.d.layer)
           /\ call.d.op \notin HoldOps
           /\ pending_key' = pending_key /\ active_chords' = active_chords
           /\ SwapHome(call.dl)
           /\ \/ layer_state[call.dl].toggled = 1 /\ SwapOfToggle(call.dl, call.d.layer)
              \/ SwapOfOneshot(call.dl, call.d.layer)
              \/ SwapOfKey(call.dl, call.d.layer)
              \/ SwapOfNothing
<1>1. /\ call.pc = "descriptor" /\ call.d.op \in SwapOps /\ call.pressed /\ Return
      /\ pending_key' = pending_key /\ active_chords' = active_chords
  BY DEF SwapPressed, Executing, Done, chordVars
<1>2. call.d.op \in LayerArgOps /\ call.d.op \notin HoldOps
  BY <1>1 DEF LayerArgOps, SwapOps, HoldOps
<1>3. call.dl \in Layers /\ call.d.layer \in Layers /\ IsTarget(call.d.layer)
  BY <1>1, <1>2, DescriptorRuns
<1>4. SwapHome(call.dl)
  BY <1>1 DEF StructureInv, SwapsAtHome, SwapRuns, SwapAtHome, Pressing
<1>5. \/ layer_state[call.dl].toggled = 1 /\ SwapOfToggle(call.dl, call.d.layer)
      \/ SwapOfOneshot(call.dl, call.d.layer)
      \/ SwapOfKey(call.dl, call.d.layer)
      \/ SwapOfNothing
  BY DEF SwapPressed, SwapOfToggle, SwapOfOneshot, SwapOfKey, SwapOfNothing, Swapped,
         SwappedToggle, SwappedOneshot, layerVars
<1> QED  BY <1>1, <1>2, <1>3, <1>4, <1>5

LEMMA SwapTargets ==
    ASSUME TypeOK, StructureInv, SwapPressed
    PROVE  OnlyTargets'
<1> DEFINE l == call.d.layer
           dl == call.dl
<1>1. l \in Layers /\ dl \in Layers /\ IsTarget(l)
  BY SwapPressedSteps
<1>2. layer_state \in Layering /\ LayersOfTargets(layer_state)
  BY LayersOfState
<1>3. CASE SwapOfToggle(dl, l)
  <2>1. SwappedToggle(dl, l) \in Layering /\ LayersOfTargets(SwappedToggle(dl, l))
    BY <1>1, <1>2, SwappedToggleType DEF LayersOfTargets
  <2> QED  BY <1>3, <2>1, OnlyTargetsSet DEF SwapOfToggle
<1>4. CASE SwapOfOneshot(dl, l)
  <2> DEFINE ls == SwappedOneshot(dl, l)
  <2>1. /\ ls \in Layering
        /\ \A k \in Layers :
              /\ ls[k].toggled = layer_state[k].toggled
              /\ k # l => ls[k].oneshot_depth = layer_state[k].oneshot_depth - (IF k = dl THEN 1 ELSE 0)
    BY <1>1, <1>4, SwappedOneshotType DEF SwapOfOneshot
  <2>2. IsTarget(dl)
    BY <1>1, <1>2, <1>4 DEF SwapOfOneshot, LayersOfTargets
  <2> HIDE DEF ls
  <2>3. LayersOfTargets(ls)
    BY <1>1, <1>2, <2>1, <2>2 DEF LayersOfTargets
  <2> QED  BY <1>4, <2>1, <2>3, OnlyTargetsSet DEF SwapOfOneshot, ls
<1>5. CASE SwapOfKey(dl, l)
  <2>1. Swapped(dl, l) \in Layering /\ LayersOfTargets(Swapped(dl, l))
    BY <1>1, <1>2, SwappedType DEF LayersOfTargets
  <2> QED  BY <1>5, <2>1, OnlyTargetsSet DEF SwapOfKey
<1>6. CASE SwapOfNothing
  BY <1>6, QuietState DEF SwapOfNothing
<1> QED  BY <1>3, <1>4, <1>5, <1>6, SwapPressedSteps

LEMMA SwapQuiet ==
    ASSUME TypeOK, StructureInv, SwapPressed, cache' = cache
    PROVE  StructureInv' /\ NoNewClaims
  BY SwapPressedSteps, SwapTargets, PlainReturn

\* The claim of the key that held dl is on l from now on.
ClaimMoved(dl, l) == \A k \in Layers :
    Claims(k)' <= Claims(k) - (IF k = dl THEN 1 ELSE 0) + (IF k = l THEN 1 ELSE 0)

LEMMA SwapOfKeyClaims ==
    ASSUME TypeOK, StructureInv, SwapPressed, SwapOfKey(call.dl, call.d.layer)
    PROVE  StructureInv' /\ ClaimMoved(call.dl, call.d.layer) /\ Claims(call.dl) > 0
<1> DEFINE l == call.d.layer
           dl == call.dl
<1>1. /\ call.pc = "descriptor" /\ call.pressed /\ Return
      /\ dl \in Layers /\ l \in Layers /\ IsTarget(l) /\ SwapHome(dl) /\ call.d.op \notin HoldOps
      /\ OnlyTargets' /\ SwapsPending' /\ SwapsChorded'
  BY SwapPressedSteps, SwapTargets, QuietState
<1>2. PICK i \in SwappedSlot :
         cache' = [cache EXCEPT ![i].d.op = "layer", ![i].d.layer = l, ![i].layer = l]
  BY DEF SwapOfKey
<1>3. i \in Slots /\ cache[i].code # NoKey /\ cache[i].layer = dl /\ dl # 0
  BY DEF SwappedSlot, Swappable
<1>4. /\ \A j \in Slots : j # i => cache'[j] = cache[j]
      /\ cache'[i].code = cache[i].code /\ cache'[i].d.layer = l /\ cache'[i].layer = l
  <2> DEFINE e == cache[i]
             d == e.d
             d1 == [d EXCEPT !.op = "layer", !.layer = l]
             e1 == [e EXCEPT !.d = d1, !.layer = l]
  <2>1. e \in Entry /\ d \in Runnable /\ cache \in [Slots -> Entry]
    BY <1>3, ModesTyped DEF Entry
  <2>2. cache' = [cache EXCEPT ![i] = e1]
    BY <1>2
  <2>3. d1.layer = l
    <3> HIDE DEF d
    <3> QED  BY <2>1 DEF Runnable, Descriptor
  <2>4. e1.code = e.code /\ e1.d = d1 /\ e1.layer = l
    <3> HIDE DEF e, d1
    <3> QED  BY <2>1 DEF Entry
  <2> HIDE DEF e1, d1
  <2> QED  BY <1>3, <2>1, <2>2, <2>3, <2>4
<1>5. \A j \in Slots : cache'[j].code = cache[j].code
  BY <1>4
<1>6. /\ StackInv' /\ FreshEntry' /\ SwapRuns' /\ UniqueEntries' /\ ~Pressing'
      /\ ~Claiming(call')
  BY <1>1, <1>5, ReturnStack DEF InDescriptor, Claiming
<1>7. EntryTargets'
  BY <1>1, <1>4 DEF StructureInv, EntryTargets
<1>8. cache[i].code # call.code
  BY <1>1, <1>3 DEF StructureInv, FreshEntry, Pressing
<1>9. i \in Claimants(dl)
  BY <1>1, <1>3, <1>8 DEF Claimants, ClaimsEntry
<1>10. ASSUME NEW k \in Layers
       PROVE  /\ \A j \in Claimants(k)' : j # i => j \in Claimants(k)
              /\ i \in Claimants(k)' => k = l
              /\ Finishing(k)' = 0 /\ Finishing(k) = 0
  <2>1. ~(call'.pc = "recache" /\ Holds(call'.d, k))
    BY <1>6 DEF Claiming, InDescriptor, Holds
  <2>2. Finishing(k)' = 0 /\ Finishing(k) = 0
    BY <1>1, <1>6 DEF Finishing, Releasing, Claiming, InDescriptor, Holds
  <2>3. ASSUME NEW j \in Slots, j # i, ClaimsEntry(j, k)' PROVE ClaimsEntry(j, k)
    <3>1. cache'[j] = cache[j]
      BY <1>4, <2>3
    <3>2. /\ cache[j].code # NoKey
          /\ \/ Holds(cache[j].d, k)
             \/ cache[j].layer = k /\ SwapHome(k) /\ k # 0
      BY <2>1, <2>3, <3>1 DEF ClaimsEntry, Holds
    <3>3. ASSUME call.code = cache[j].code PROVE FALSE
      <4>1. cache[j].layer = 0 /\ (cache[j].d = call.d \/ cache[j].d.op \notin HoldOps)
        BY <1>1, <3>2, <3>3 DEF StructureInv, FreshEntry, Pressing
      <4> QED  BY <1>1, <3>2, <4>1 DEF Holds
    <3> QED  BY <3>2, <3>3 DEF ClaimsEntry
  <2>4. ASSUME ClaimsEntry(i, k)' PROVE k = l
    BY <1>4, <2>1, <2>4 DEF ClaimsEntry, Holds
  <2> QED  BY <2>2, <2>3, <2>4 DEF Claimants
<1>11. ASSUME NEW k \in Layers
       PROVE  Claims(k)' <= Claims(k) - (IF k = dl THEN 1 ELSE 0) + (IF k = l THEN 1 ELSE 0)
  <2> DEFINE S == Claimants(k)
             T == Claimants(k)'
  <2>1. /\ \A j \in T : j # i => j \in S
        /\ i \in T => k = l
        /\ Finishing(k)' = 0 /\ Finishing(k) = 0
        /\ k = dl => i \in S
    BY <1>9, <1>10
  <2>2. IsFiniteSet(S) /\ Claims(k) = Cardinality(S) + Finishing(k)
        /\ Claims(k)' = Cardinality(T) + Finishing(k)'
    BY ClaimsType DEF Claims
  <2> HIDE DEF S, T
  <2>3. /\ IsFiniteSet(S \ {i}) /\ IsFiniteSet(S \cup {i}) /\ Cardinality(S) \in Nat
        /\ i \in S => Cardinality(S \ {i}) = Cardinality(S) - 1
        /\ i \notin S => Cardinality(S \cup {i}) = Cardinality(S) + 1
    BY <2>2, FS_RemoveElement, FS_AddElement, FS_CardinalityType
  <2>4. /\ T \subseteq S \ {i} => Cardinality(T) <= Cardinality(S \ {i})
        /\ T \subseteq S => Cardinality(T) <= Cardinality(S)
        /\ T \subseteq S \cup {i} => Cardinality(T) <= Cardinality(S \cup {i}) /\ Cardinality(T) \in Nat
    BY <2>2, <2>3, FS_Subset, FS_CardinalityType
  <2>5. T \subseteq S \cup {i}
    BY <2>1
  <2>6. CASE k # l
    <3>1. T \subseteq S \ {i} /\ T \subseteq S
      BY <2>1, <2>6
    <3> QED  BY <2>1, <2>2, <2>3, <2>4, <2>5, <2>6, <3>1
  <2>7. CASE k = l /\ i \in S
    <3>1. T \subseteq S
      BY <2>1, <2>7
    <3> QED  BY <2>1, <2>2, <2>3, <2>4, <2>5, <2>7, <3>1
  <2>8. CASE k = l /\ i \notin S
    <3> QED  BY <2>1, <2>2, <2>3, <2>4, <2>5, <2>8
  <2> QED  BY <2>6, <2>7, <2>8
<1>12. Claims(dl) > 0
  <2> DEFINE S == Claimants(dl)
  <2>1. i \in S /\ IsFiniteSet(S) /\ Claims(dl) = Cardinality(S) + Finishing(dl)
        /\ Finishing(dl) \in {0, 1}
    BY <1>9, ClaimsType DEF Claims
  <2> HIDE DEF S
  <2>2. Cardinality(S) \in Nat /\ Cardinality(S) # 0
    BY <2>1, FS_CardinalityType, FS_EmptySet
  <2> QED  BY <2>1, <2>2
<1> QED  BY <1>1, <1>6, <1>7, <1>11, <1>12 DEF StructureInv, SwapsAtHome, ClaimMoved
==============================================================================

-------------------------- MODULE KeyboardPairing --------------------------
(***************************************************************************)
(* Activations are paired with deactivations, and none leaks.  Every step  *)
(* adds to the activations of a layer what it adds to the claims on it: so *)
(* a layer is never deactivated too often (IInv, for configurations that   *)
(* bind no swap in a layer that is toggled) nor too seldom (AccountInv,    *)
(* for those that do not nest waiting actions either).                     *)
(***************************************************************************)
EXTENDS KeyboardStructure, KeyboardProps

AllCovered == \A l \in Layers : Covered(l)
AllExplained == \A l \in Layers : IsTarget(l) => Explained(l)

\* What a step does to the activations that need a claim.
One(k, l) == IF k = l THEN 1 ELSE 0
ExcessKept == \A k \in Layers : Excess(layer_state', k) = Excess(layer_state, k)
ExcessNotLess == \A k \in Layers : Excess(layer_state', k) >= Excess(layer_state, k)
ExcessMore(l) == \A k \in Layers : Excess(layer_state', k) = Excess(layer_state, k) + One(k, l)
ExcessLess(l) == \A k \in Layers : Excess(layer_state', k) = Excess(layer_state, k) - One(k, l)
ExcessMoved(dl, l) == \A k \in Layers :
    Excess(layer_state', k) = Excess(layer_state, k) - One(k, dl) + One(k, l)

LEMMA LayerFields ==
    ASSUME TypeOK, NEW l \in Layers
    PROVE  /\ layer_state[l].active \in Int /\ layer_state[l].toggled \in {0, 1}
           /\ layer_state[l].oneshot_depth \in Nat
           /\ Excess(layer_state, l) \in Int /\ Claims(l) \in Nat
<1>1. /\ layer_state[l].active \in Int /\ layer_state[l].toggled \in {0, 1}
      /\ layer_state[l].oneshot_depth \in Nat
  BY LayersTyped DEF Layering, LayerState
<1> QED  BY <1>1, ClaimsType DEF Excess

LEMMA CoveredActive ==
    ASSUME TypeOK, AllCovered, NEW l \in Layers
    PROVE  /\ layer_state[l].active \in Nat
           /\ layer_state[l].active >= layer_state[l].toggled + layer_state[l].oneshot_depth + Claims(l)
<1>1. layer_state[l].active - layer_state[l].toggled - layer_state[l].oneshot_depth >= Claims(l)
  BY DEF AllCovered, Covered, Excess
<1> QED  BY <1>1, LayerFields

LEMMA ClaimsTypeNext == \A l : Claims(l)' \in Nat
<1>1. ASSUME NEW l PROVE Claims(l)' \in Nat
  <2>1. IsFiniteSet(Slots) /\ Claimants(l)' \subseteq Slots
    BY SizesAssumption, FS_Interval DEF Slots, Claimants
  <2>2. Cardinality(Claimants(l)') \in Nat
    BY <2>1, FS_Subset, FS_CardinalityType
  <2>3. Finishing(l)' \in {0, 1}
    BY DEF Finishing
  <2> QED  BY <2>2, <2>3 DEF Claims
<1> QED  BY <1>1

LEMMA ExcessTypeNext ==
    ASSUME TypeOK', NEW l \in Layers  PROVE Excess(layer_state', l) \in Int
<1>1. layer_state' \in [Layers -> LayerState]
  BY DEF TypeOK, LayersOK
<1> QED  BY <1>1 DEF LayerState, Excess

\* A step that adds no more claims than activations keeps the layers covered.
LEMMA CoverStep ==
    ASSUME TypeOK, TypeOK', AllCovered, NEW dl, NEW l,
           \/ (ExcessKept \/ ExcessNotLess) /\ NoNewClaims
           \/ ExcessMore(l) /\ ClaimGained(l)
           \/ ExcessLess(l) /\ ClaimDropped(l)
           \/ ExcessMoved(dl, l) /\ ClaimMoved(dl, l)
    PROVE  AllCovered'
<1>1. ASSUME NEW k \in Layers PROVE Covered(k)'
  <2>1. /\ Excess(layer_state, k) \in Int /\ Claims(k) \in Nat /\ Claims(k)' \in Nat
        /\ Excess(layer_state, k) >= Claims(k)
        /\ One(k, l) \in {0, 1} /\ One(k, dl) \in {0, 1}
    BY LayerFields, ClaimsTypeNext DEF AllCovered, Covered, One
  <2>2. CASE (ExcessKept \/ ExcessNotLess) /\ NoNewClaims
    <3>1. Excess(layer_state', k) >= Excess(layer_state, k)
      BY <2>1, <2>2 DEF ExcessKept, ExcessNotLess
    <3> QED  BY <2>1, <2>2, <3>1, ExcessTypeNext DEF NoNewClaims, Covered
  <2>3. CASE ExcessMore(l) /\ ClaimGained(l)
    BY <2>1, <2>3 DEF ExcessMore, ClaimGained, One, Covered
  <2>4. CASE ExcessLess(l) /\ ClaimDropped(l)
    BY <2>1, <2>4 DEF ExcessLess, ClaimDropped, One, Covered
  <2>5. CASE ExcessMoved(dl, l) /\ ClaimMoved(dl, l)
    BY <2>1, <2>5 DEF ExcessMoved, ClaimMoved, One, Covered
  <2> QED  BY <2>2, <2>3, <2>4, <2>5
<1> QED  BY <1>1 DEF AllCovered

\* Setting the layers renumbers their activation times only.
LEMMA ExcessSet ==
    ASSUME NEW ls \in Layering, SetLayers(ls), NEW l \in Layers
    PROVE  /\ Excess(layer_state', l) = Excess(ls, l)
           /\ ls[l].active \in Int /\ ls[l].toggled \in {0, 1} /\ ls[l].oneshot_depth \in Nat
<1>1. /\ layer_state'[l].active = ls[l].active /\ layer_state'[l].toggled = ls[l].toggled
      /\ layer_state'[l].oneshot_depth = ls[l].oneshot_depth
  BY PackedType DEF SetLayers
<1> QED  BY <1>1 DEF Excess, Layering, LayerState

-----------------------------------------------------------------------------
(* The ways in which actions set the layers.                               *)

\* clear_oneshot gives back one activation for each oneshot it forgets.
LEMMA ClearOneshotExcess ==
    ASSUME TypeOK, SetLayers(ClearOneshot(layer_state)) \/ layer_state' = layer_state
    PROVE  ExcessKept
<1> DEFINE ls == ClearOneshot(layer_state)
<1>1. /\ ls \in Layering
      /\ \A l \in Layers : /\ ls[l].toggled = layer_state[l].toggled /\ ls[l].oneshot_depth = 0
                           /\ ls[l].active = layer_state[l].active - layer_state[l].oneshot_depth
  BY LayersTyped, ClearOneshotType
<1>2. SetLayers(ls) \/ layer_state' = layer_state
  OBVIOUS
<1> HIDE DEF ls
<1>3. ASSUME NEW k \in Layers PROVE Excess(ls, k) = Excess(layer_state, k)
  BY <1>1, LayerFields DEF Excess
<1> QED  BY <1>1, <1>2, <1>3, ExcessSet DEF ExcessKept

LEMMA ActivateExcess ==
    ASSUME TypeOK, CountersBelow, AllCovered, NEW l \in Layers, SetLayers(Activate(layer_state, l))
    PROVE  ExcessMore(l)
<1> DEFINE ls == Activate(layer_state, l)
<1>1. /\ ls \in Layering
      /\ \A k \in Layers : /\ ls[k].toggled = layer_state[k].toggled
                           /\ ls[k].oneshot_depth = layer_state[k].oneshot_depth
                           /\ k # l => ls[k].active = layer_state[k].active
      /\ ls[l].active = IF layer_state[l].active < 0 THEN layer_state[l].active
                        ELSE (layer_state[l].active + 1) % CounterSize
  BY LayersTyped, ActivateType
<1>2. SetLayers(ls)
  OBVIOUS
<1> HIDE DEF ls
<1>3. ls[l].active = layer_state[l].active + 1
  <2>1. layer_state[l].active \in Nat /\ layer_state[l].active + 1 < CounterSize
        /\ CounterSize \in Nat
    BY CoveredActive, SizesAssumption DEF CountersBelow
  <2>2. (layer_state[l].active + 1) % CounterSize = layer_state[l].active + 1
    BY <2>1
  <2> QED  BY <1>1, <2>1, <2>2
<1>4. ASSUME NEW k \in Layers PROVE Excess(ls, k) = Excess(layer_state, k) + One(k, l)
  BY <1>1, <1>3, LayerFields DEF Excess, One
<1> QED  BY <1>1, <1>2, <1>4, ExcessSet DEF ExcessMore

LEMMA DeactivateExcess ==
    ASSUME TypeOK, NEW l \in Layers, SetLayers(Deactivate(layer_state, l))
    PROVE  ExcessLess(l)
<1> DEFINE ls == Deactivate(layer_state, l)
<1>1. /\ ls \in Layering
      /\ \A k \in Layers : /\ ls[k].toggled = layer_state[k].toggled
                           /\ ls[k].oneshot_depth = layer_state[k].oneshot_depth
                           /\ k # l => ls[k].active = layer_state[k].active
      /\ ls[l].active = layer_state[l].active - 1
  BY LayersTyped, DeactivateType
<1>2. SetLayers(ls)
  OBVIOUS
<1> HIDE DEF ls
<1>3. ASSUME NEW k \in Layers PROVE Excess(ls, k) = Excess(layer_state, k) - One(k, l)
  BY <1>1, LayerFields DEF Excess, One
<1> QED  BY <1>1, <1>2, <1>3, ExcessSet DEF ExcessLess

LEMMA OpClearExcess ==
    ASSUME TypeOK, OpClear  PROVE ExcessKept
<1> DEFINE ls == ClearLayers(layer_state)
<1>1. SetLayers(ls) \/ layer_state' = layer_state
  BY DEF OpClear
<1>2. /\ ls \in Layering
      /\ \A l \in Layers :
           /\ ls[l].oneshot_depth = 0
           /\ IsTarget(l) => /\ ls[l].toggled = 0
                             /\ ls[l].active = layer_state[l].active
                                       - layer_state[l].oneshot_depth - layer_state[l].toggled
           /\ ~IsTarget(l) => /\ ls[l].toggled = layer_state[l].toggled
                              /\ ls[l].active = layer_state[l].active - layer_state[l].oneshot_depth
  BY LayersTyped, ClearLayersType
<1> HIDE DEF ls
<1>3. ASSUME NEW l \in Layers PROVE Excess(ls, l) = Excess(layer_state, l)
  BY <1>2, LayerFields DEF Excess
<1> QED  BY <1>1, <1>2, <1>3, ExcessSet DEF ExcessKept

\* setlayout sets the count of the layouts, which no action holds or toggles.
LEMMA OpLayoutExcess ==
    ASSUME TypeOK, StructureInv, AllCovered, OpLayout
    PROVE  \A l \in Layers :
               IF IsTarget(l) THEN Excess(layer_state', l) = Excess(layer_state, l)
                              ELSE Excess(layer_state', l) >= 0
<1> DEFINE ls == SetLayoutLayers(layer_state, call.d.layer)
<1>1. /\ call.pc = "descriptor" /\ call.d.op = "layout"
      /\ SetLayers(ls) \/ layer_state' = layer_state
  BY DEF OpLayout, Executing
<1>2. call.d.layer \in Layers /\ ~IsTarget(call.d.layer)
  BY <1>1, DescriptorRuns DEF Runnable
<1>3. /\ layer_state \in Layering
      /\ ls \in Layering
      /\ \A l \in Layers :
           /\ ls[l].toggled = ClearLayers(layer_state)[l].toggled /\ ls[l].oneshot_depth = 0
           /\ ls[l].active \in {0, 1, ClearLayers(layer_state)[l].active}
           /\ (l # call.d.layer \/ call.d.layer = 0) /\ LayerType[l] # "layout"
                  => ls[l].active = ClearLayers(layer_state)[l].active
  BY <1>2, LayersTyped, SetLayoutLayersType
<1> HIDE DEF ls
<1>4. ASSUME NEW l \in Layers, IsTarget(l) PROVE Excess(ls, l) = Excess(layer_state, l)
  <2>1. /\ ls[l].toggled = 0 /\ ls[l].oneshot_depth = 0
        /\ ls[l].active = layer_state[l].active - layer_state[l].oneshot_depth - layer_state[l].toggled
    BY <1>2, <1>3, <1>4, ClearLayersType DEF IsTarget
  <2> QED  BY <2>1, LayerFields DEF Excess
<1>5. ASSUME NEW l \in Layers, ~IsTarget(l)
      PROVE  Excess(layer_state, l) >= 0 /\ Excess(ls, l) >= 0
  <2>1. layer_state[l].toggled = 0 /\ layer_state[l].oneshot_depth = 0
    BY <1>5 DEF StructureInv, OnlyTargets
  <2>2. layer_state[l].active \in Nat
    BY CoveredActive
  <2>3. /\ ClearLayers(layer_state)[l].toggled = 0
        /\ ClearLayers(layer_state)[l].active = layer_state[l].active - 0
    BY <1>3, <1>5, <2>1, ClearLayersType
  <2>4. ls[l].active \in Nat /\ ls[l].toggled = 0 /\ ls[l].oneshot_depth = 0
    BY <1>3, <2>2, <2>3
  <2> QED  BY <2>1, <2>2, <2>4 DEF Excess
<1>6. CASE SetLayers(ls)
  BY <1>3, <1>4, <1>5, <1>6, ExcessSet
<1>7. CASE layer_state' = layer_state
  BY <1>5, <1>7
<1> QED  BY <1>1, <1>6, <1>7

LEMMA OpToggleExcess ==
    ASSUME TypeOK, CountersBelow, AllCovered, OpToggle  PROVE ExcessKept
<1> DEFINE l == call.d.layer
           on == layer_state[l].toggled = 0
           a == IF on THEN Activate(layer_state, l) ELSE Deactivate(layer_state, l)
           n == IF on THEN 1 ELSE 0
           ls == [a EXCEPT ![l].toggled = n]
           cleared == ClearOneshot(ls)
<1>1. call.pc = "descriptor" /\ (SetLayers(cleared) \/ layer_state' = layer_state)
  BY DEF OpToggle, Executing, layerVars
<1>2. l \in Layers /\ layer_state \in Layering /\ layer_state[l].toggled \in {0, 1}
  BY <1>1, DescriptorRuns, LayersTyped DEF Layering, LayerState
<1>3. layer_state[l].active \in Nat /\ (layer_state[l].active + 1) % CounterSize = layer_state[l].active + 1
  <2>1. layer_state[l].active \in Nat /\ layer_state[l].active + 1 < CounterSize
        /\ CounterSize \in Nat
    BY <1>2, CoveredActive, SizesAssumption DEF CountersBelow
  <2> QED  BY <2>1
<1>4. /\ a \in Layering
      /\ \A k \in Layers : /\ a[k].toggled = layer_state[k].toggled
                           /\ a[k].oneshot_depth = layer_state[k].oneshot_depth
                           /\ k # l => a[k].active = layer_state[k].active
      /\ a[l].active = layer_state[l].active + (IF on THEN 1 ELSE -1)
  <2>1. CASE on
    <3>1. a = Activate(layer_state, l)
      BY <2>1
    <3> HIDE DEF a
    <3> QED  BY <1>2, <1>3, <2>1, <3>1, ActivateType
  <2>2. CASE ~on
    <3>1. a = Deactivate(layer_state, l)
      BY <2>2
    <3>2. layer_state[l].active - 1 = layer_state[l].active + (-1)
      BY <1>3
    <3> HIDE DEF a
    <3> QED  BY <1>2, <2>2, <3>1, <3>2, DeactivateType
  <2> QED  BY <2>1, <2>2
<1>5. n \in {0, 1} /\ (on => layer_state[l].toggled = 0 /\ n = 1)
      /\ (~on => layer_state[l].toggled = 1 /\ n = 0)
  BY <1>2
<1> HIDE DEF a, n
<1>6. /\ ls \in Layering
      /\ \A k \in Layers : /\ ls[k].oneshot_depth = a[k].oneshot_depth
                           /\ ls[k].active = a[k].active
                           /\ ls[k].toggled = IF k = l THEN n ELSE a[k].toggled
  BY <1>2, <1>4, <1>5 DEF Layering, LayerState
<1> HIDE DEF ls
<1>7. /\ cleared \in Layering
      /\ \A k \in Layers : /\ cleared[k].toggled = ls[k].toggled
                           /\ cleared[k].oneshot_depth = 0
                           /\ cleared[k].active = ls[k].active - ls[k].oneshot_depth
  BY <1>6, ClearOneshotType
<1> HIDE DEF cleared, on
<1>8. ASSUME NEW k \in Layers PROVE Excess(cleared, k) = Excess(layer_state, k)
  <2>1. /\ cleared[k].toggled = ls[k].toggled /\ cleared[k].oneshot_depth = 0
        /\ cleared[k].active = a[k].active - layer_state[k].oneshot_depth
    BY <1>4, <1>6, <1>7
  <2>2. CASE k = l
    <3>1. CASE on
      BY <1>4, <1>5, <1>6, <2>1, <2>2, <3>1, LayerFields DEF Excess
    <3>2. CASE ~on
      BY <1>4, <1>5, <1>6, <2>1, <2>2, <3>2, LayerFields DEF Excess
    <3> QED  BY <3>1, <3>2
  <2>3. CASE k # l
    BY <1>4, <1>6, <2>1, <2>3, LayerFields DEF Excess
  <2> QED  BY <2>2, <2>3
<1> QED  BY <1>1, <1>7, <1>8, ExcessSet DEF ExcessKept

\* The oneshot key goes up: its claim becomes a oneshot, or its layer goes.
LEMMA OneshotReleasedExcess ==
    ASSUME TypeOK, CountersBelow, OneshotReleased  PROVE ExcessLess(call.d.layer)
<1> DEFINE l == call.d.layer
           n == (layer_state[l].oneshot_depth + 1) % CounterSize
           ls == [layer_state EXCEPT ![l].oneshot_depth = n]
<1>1. /\ call.pc = "descriptor" /\ (SetLayers(ls) \/ SetLayers(Deactivate(layer_state, l)))
  BY DEF OneshotReleased, Executing
<1>2. l \in Layers /\ layer_state \in Layering
  BY <1>1, DescriptorRuns, LayersTyped
<1>3. n \in Nat /\ n = layer_state[l].oneshot_depth + 1
  <2>1. layer_state[l].oneshot_depth \in Nat /\ layer_state[l].oneshot_depth + 1 < CounterSize
        /\ CounterSize \in Nat
    BY <1>2, LayerFields, SizesAssumption DEF CountersBelow
  <2> QED  BY <2>1
<1> HIDE DEF n
<1>4. /\ ls \in Layering
      /\ \A k \in Layers : /\ ls[k].active = layer_state[k].active
                           /\ ls[k].toggled = layer_state[k].toggled
                           /\ ls[k].oneshot_depth = IF k = l THEN n ELSE layer_state[k].oneshot_depth
  <2> DEFINE s == layer_state
  <2>1. ls = [s EXCEPT ![l].oneshot_depth = n] /\ s \in Layering
    BY <1>2
  <2> HIDE DEF ls, s, l
  <2>2. /\ ls \in Layering
        /\ \A k \in Layers : /\ ls[k].active = s[k].active /\ ls[k].toggled = s[k].toggled
                             /\ ls[k].oneshot_depth = IF k = l THEN n ELSE s[k].oneshot_depth
    BY <1>2, <1>3, <2>1 DEF Layering, LayerState
  <2> QED  BY <2>2 DEF s
<1> HIDE DEF ls
<1>5. ASSUME NEW k \in Layers PROVE Excess(ls, k) = Excess(layer_state, k) - One(k, l)
  BY <1>3, <1>4, LayerFields DEF Excess, One
<1>6. CASE SetLayers(ls)
  BY <1>4, <1>5, <1>6, ExcessSet DEF ExcessLess
<1>7. CASE SetLayers(Deactivate(layer_state, l))
  BY <1>2, <1>7, DeactivateExcess
<1> QED  BY <1>1, <1>6, <1>7

\* A swap takes one activation from its layer and gives one to its target.
LEMMA SwappedActive ==
    ASSUME TypeOK, CountersBelow, AllCovered, NEW dl \in Layers, NEW l \in Layers,
           layer_state[dl].active >= 1
    PROVE  \A k \in Layers : Swapped(dl, l)[k].active
               = layer_state[k].active - One(k, dl) + One(k, l)
<1> DEFINE n == layer_state[l].active - (IF l = dl THEN 1 ELSE 0)
<1>1. /\ \A k \in Layers : k # l => Swapped(dl, l)[k].active
                             = layer_state[k].active - (IF k = dl THEN 1 ELSE 0)
      /\ Swapped(dl, l)[l].active = IF n < 0 THEN n ELSE (n + 1) % CounterSize
  BY SwappedType
<1>2. /\ \A k \in Layers : layer_state[k].active \in Nat
      /\ layer_state[l].active + 1 < CounterSize /\ CounterSize \in Nat
  BY CoveredActive, SizesAssumption DEF CountersBelow
<1>3. n \in Nat /\ n + 1 < CounterSize
  BY <1>2
<1>4. (n + 1) % CounterSize = n + 1
  BY <1>2, <1>3
<1>5. Swapped(dl, l)[l].active = n + 1
  BY <1>1, <1>3, <1>4
<1>6. ASSUME NEW k \in Layers
      PROVE  Swapped(dl, l)[k].active
               = layer_state[k].active - One(k, dl) + One(k, l)
  <2>1. CASE k = l
    BY <1>2, <1>5, <2>1 DEF One
  <2>2. CASE k # l
    BY <1>1, <1>2, <2>2 DEF One
  <2> QED  BY <2>1, <2>2
<1> QED  BY <1>6

LEMMA SwapOfToggleExcess ==
    ASSUME TypeOK, CountersBelow, AllCovered, NEW dl \in Layers, NEW l \in Layers,
           layer_state[dl].toggled = 1, SetLayers(SwappedToggle(dl, l))
    PROVE  ExcessNotLess
<1> DEFINE ls == SwappedToggle(dl, l)
<1>1. layer_state[dl].active >= 1
  BY CoveredActive, LayerFields
<1>2. /\ ls \in Layering
      /\ \A k \in Layers :
           /\ ls[k].active = layer_state[k].active - One(k, dl) + One(k, l)
           /\ ls[k].oneshot_depth = layer_state[k].oneshot_depth
           /\ ls[k].toggled = IF k = l THEN 1 ELSE IF k = dl THEN 0 ELSE layer_state[k].toggled
  BY <1>1, SwappedActive, SwappedToggleType
<1>3. SetLayers(ls)
  OBVIOUS
<1> HIDE DEF ls
<1>4. ASSUME NEW k \in Layers PROVE Excess(ls, k) >= Excess(layer_state, k)
  <2>1. k = dl => layer_state[k].toggled = 1
    OBVIOUS
  <2> QED  BY <1>2, <2>1, LayerFields DEF Excess, One
<1> QED  BY <1>2, <1>3, <1>4, ExcessSet DEF ExcessNotLess

LEMMA SwapOfOneshotExcess ==
    ASSUME TypeOK, CountersBelow, AllCovered, NEW dl \in Layers, NEW l \in Layers,
           layer_state[dl].oneshot_depth > 0, SetLayers(SwappedOneshot(dl, l))
    PROVE  ExcessKept
<1> DEFINE ls == SwappedOneshot(dl, l)
           n == layer_state[l].oneshot_depth - (IF l = dl THEN 1 ELSE 0)
<1>1. layer_state[dl].active >= 1
  BY CoveredActive, LayerFields
<1>2. n \in Nat /\ n + 1 < CounterSize /\ CounterSize \in Nat
  BY LayerFields, SizesAssumption DEF CountersBelow
<1>3. (n + 1) % CounterSize = n + 1
  BY <1>2
<1>4. /\ ls \in Layering
      /\ \A k \in Layers :
           /\ ls[k].active = layer_state[k].active - One(k, dl) + One(k, l)
           /\ ls[k].toggled = layer_state[k].toggled
           /\ k # l => ls[k].oneshot_depth
                         = layer_state[k].oneshot_depth - (IF k = dl THEN 1 ELSE 0)
      /\ ls[l].oneshot_depth = n + 1
  BY <1>1, <1>3, SwappedActive, SwappedOneshotType
<1>5. SetLayers(ls)
  OBVIOUS
<1> HIDE DEF ls
<1>6. ASSUME NEW k \in Layers PROVE Excess(ls, k) = Excess(layer_state, k)
  BY <1>4, LayerFields DEF Excess, One
<1> QED  BY <1>4, <1>5, <1>6, ExcessSet DEF ExcessKept

LEMMA SwapOfKeyExcess ==
    ASSUME TypeOK, CountersBelow, AllCovered, NEW dl \in Layers, NEW l \in Layers,
           Claims(dl) > 0, SetLayers(Swapped(dl, l))
    PROVE  ExcessMoved(dl, l)
<1> DEFINE ls == Swapped(dl, l)
<1>1. layer_state[dl].active >= 1
  BY CoveredActive, LayerFields
<1>2. /\ ls \in Layering
      /\ \A k \in Layers :
           /\ ls[k].active = layer_state[k].active - One(k, dl) + One(k, l)
           /\ ls[k].toggled = layer_state[k].toggled
           /\ ls[k].oneshot_depth = layer_state[k].oneshot_depth
  BY <1>1, SwappedActive, SwappedType
<1>3. SetLayers(ls)
  OBVIOUS
<1> HIDE DEF ls
<1>4. ASSUME NEW k \in Layers
      PROVE  Excess(ls, k) = Excess(layer_state, k) - One(k, dl) + One(k, l)
  BY <1>2, LayerFields DEF Excess, One
<1> QED  BY <1>2, <1>3, <1>4, ExcessSet DEF ExcessMoved

-----------------------------------------------------------------------------
(* Every step keeps the layers covered.                                    *)

\* The actions that leave the layers alone.
LEMMA LayersLeftAlone ==
    ASSUME Looping \/ ChordHandler \/ Holding \/ KeyPressed \/ KeyReleased \/ OpScroll
             \/ OpOverloadIdle \/ RecacheAction \/ OpOverloadTimeout \/ OpTimeout
             \/ SwapReleased \/ Environment
    PROVE  layer_state' = layer_state
<1> USE DEF layerVars
<1>1. ASSUME Looping PROVE layer_state' = layer_state
  BY <1>1 DEF Looping, NextEvent, DueBeforeNextEvent, EventsDone, Exit
<1>2. ASSUME ChordHandler PROVE layer_state' = layer_state
  BY <1>2 DEF ChordHandler, ReleaseChordKey, ChordResolving, ChordInactive,
              ChordDisambiguation, ChordHold, LeaveChord, InChordHandler
<1>3. ASSUME Holding PROVE layer_state' = layer_state
  BY <1>3 DEF Holding, NotPending, PendingKey
<1>4. ASSUME Environment PROVE layer_state' = layer_state
  BY <1>4 DEF Environment, Press, Release, Timeout, Tick, ProcessOne
<1> QED  BY <1>1, <1>2, <1>3, <1>4 DEF KeyPressed, KeyReleased, OpScroll, OpOverloadIdle,
            RecacheAction, OpOverloadTimeout, OpTimeout, SwapReleased

LEMMA LoopingQuiet ==
    ASSUME TypeOK, StructureInv, Looping  PROVE StructureInv' /\ NoNewClaims /\ NoneRuns'
  BY NextEventQuiet, DueBeforeNextEventQuiet, EventsDoneQuiet, ExitQuiet DEF Looping

LEMMA ChordHandlerQuiet ==
    ASSUME TypeOK, StructureInv, ChordHandler  PROVE StructureInv' /\ NoNewClaims /\ NoneRuns'
  BY ReleaseChordKeyQuiet, ChordResolvingQuiet, ChordInactiveQuiet, ChordDisambiguationQuiet,
     ChordHoldQuiet, LeaveChordQuiet DEF ChordHandler

LEMMA HoldingQuiet ==
    ASSUME TypeOK, StructureInv, Holding  PROVE StructureInv' /\ NoNewClaims
  BY NotPendingQuiet, PendingKeyQuiet DEF Holding

\* The actions that change the layers at most by ending the oneshots.
LEMMA PlainExcess ==
    ASSUME TypeOK,
           \/ Looping \/ ChordHandler \/ Holding \/ Binding \/ Environment
           \/ OpKeySequence \/ OpScroll \/ OpOverloadIdle \/ RecacheAction \/ OpOverloadTimeout
           \/ OpTimeout \/ OpMacro \/ OpCommand \/ SwapReleased
    PROVE  ExcessKept
<1>1. \/ SetLayers(ClearOneshot(layer_state)) \/ layer_state' = layer_state
      \/ SetLayers(layer_state)
  BY LayersLeftAlone DEF Binding, Timers, OpKeySequence, OpMacro, OpCommand
<1>2. CASE SetLayers(layer_state)
  BY <1>2, LayersTyped, ExcessSet DEF ExcessKept
<1> QED  BY <1>1, <1>2, ClearOneshotExcess

\* The actions of the keys that hold a layer.
LEMMA HoldExcess ==
    ASSUME TypeOK, CountersBelow, AllCovered,
           OpLayer \/ OverloadPressed \/ OverloadReleased \/ OneshotPressed \/ OneshotReleased
    PROVE  IF call.pressed THEN ExcessMore(call.d.layer) ELSE ExcessLess(call.d.layer)
<1>1. call.pc = "descriptor"
  BY DEF OpLayer, OverloadPressed, OverloadReleased, OneshotPressed, OneshotReleased, Executing
<1>2. call.d.layer \in Layers
  BY <1>1, DescriptorRuns
<1>3. \/ OneshotReleased /\ ~call.pressed
      \/ call.pressed /\ SetLayers(Activate(layer_state, call.d.layer))
      \/ ~call.pressed /\ SetLayers(Deactivate(layer_state, call.d.layer))
  BY DEF OpLayer, OverloadPressed, OverloadReleased, OneshotPressed, OneshotReleased
<1> QED  BY <1>2, <1>3, OneshotReleasedExcess, ActivateExcess, DeactivateExcess

\* The layers of bindings that no action may hold or toggle have no claims.
LEMMA NoTargetNoClaims ==
    ASSUME TypeOK', StructureInv', NEW l \in Layers, ~IsTarget(l)
    PROVE  Claims(l)' = 0
<1>1. /\ cache' \in [Slots -> Entry] /\ EntryTargets'
      /\ call'.pc \in {"descriptor", "recache"} => call'.d \in Runnable
  <2>1. call' \in Frame
    BY DEF TypeOK, StackOK, WellStacked
  <2> QED  BY <2>1, FrameFields DEF TypeOK, KeysOK, StructureInv
<1>2. ASSUME NEW d \in Runnable PROVE ~Holds(d, l)
  BY <1>2 DEF Runnable, Holds, LayerArgOps
<1>3. ASSUME NEW i \in Slots PROVE ~ClaimsEntry(i, l)'
  <2>1. cache'[i].d \in Runnable /\ (cache'[i].layer = 0 \/ IsTarget(cache'[i].layer))
    BY <1>1 DEF Entry, EntryTargets
  <2> QED  BY <1>1, <1>2, <2>1 DEF ClaimsEntry, Holds
<1>4. Claimants(l)' = {}
  BY <1>3 DEF Claimants
<1>5. Finishing(l)' = 0
  BY <1>1, <1>2 DEF Finishing, Releasing, Holds
<1> QED  BY <1>4, <1>5, FS_EmptySet DEF Claims

LEMMA OpLayoutCovers ==
    ASSUME TypeOK, StructureInv, AllCovered, TypeOK', StructureInv', NoNewClaims, OpLayout
    PROVE  AllCovered'
<1>1. ASSUME NEW l \in Layers PROVE Covered(l)'
  <2>1. /\ Excess(layer_state, l) \in Int /\ Excess(layer_state', l) \in Int
        /\ Claims(l) \in Nat /\ Claims(l)' \in Nat
        /\ Excess(layer_state, l) >= Claims(l) /\ Claims(l)' <= Claims(l)
    BY LayerFields, ExcessTypeNext, ClaimsTypeNext DEF AllCovered, Covered, NoNewClaims
  <2>2. CASE IsTarget(l)
    <3>1. Excess(layer_state', l) = Excess(layer_state, l)
      BY <2>2, OpLayoutExcess
    <3> QED  BY <2>1, <3>1 DEF Covered
  <2>3. CASE ~IsTarget(l)
    <3>1. Excess(layer_state', l) >= 0 /\ Claims(l)' = 0
      BY <2>3, OpLayoutExcess, NoTargetNoClaims
    <3> QED  BY <2>1, <3>1 DEF Covered
  <2> QED  BY <2>2, <2>3
<1> QED  BY <1>1 DEF AllCovered

LEMMA SwapPressedCovers ==
    ASSUME TypeOK, TypeOK', StructureInv, CountersBelow, AllCovered, SwapPressed
    PROVE  AllCovered'
<1> DEFINE l == call.d.layer
           dl == call.dl
<1>1. /\ dl \in Layers /\ l \in Layers
      /\ \/ layer_state[dl].toggled = 1 /\ SwapOfToggle(dl, l)
         \/ SwapOfOneshot(dl, l)
         \/ SwapOfKey(dl, l)
         \/ SwapOfNothing
  BY SwapPressedSteps
<1>2. CASE layer_state[dl].toggled = 1 /\ SwapOfToggle(dl, l)
  <2>1. NoNewClaims /\ SetLayers(SwappedToggle(dl, l))
    BY <1>2, SwapQuiet DEF SwapOfToggle
  <2> HIDE DEF l, dl
  <2> QED  BY <1>1, <1>2, <2>1, SwapOfToggleExcess, CoverStep
<1>3. CASE SwapOfOneshot(dl, l)
  <2>1. /\ NoNewClaims /\ SetLayers(SwappedOneshot(dl, l))
        /\ layer_state[dl].oneshot_depth > 0
    BY <1>3, SwapQuiet DEF SwapOfOneshot
  <2> HIDE DEF l, dl
  <2> QED  BY <1>1, <2>1, SwapOfOneshotExcess, CoverStep
<1>4. CASE SwapOfKey(dl, l)
  <2>1. ClaimMoved(dl, l) /\ Claims(dl) > 0 /\ SetLayers(Swapped(dl, l))
    BY <1>4, SwapOfKeyClaims DEF SwapOfKey
  <2> HIDE DEF l, dl
  <2> QED  BY <1>1, <2>1, SwapOfKeyExcess, CoverStep
<1>5. CASE SwapOfNothing
  <2>1. NoNewClaims /\ ExcessKept
    BY <1>5, SwapQuiet, ClearOneshotExcess DEF SwapOfNothing
  <2> QED  BY <2>1, CoverStep
<1> QED  BY <1>1, <1>2, <1>3, <1>4, <1>5

LEMMA StepCovers ==
    ASSUME SwapToggleDisjoint, TypeOK, StructureInv, CountersBelow, AllCovered,
           TypeOK', StructureInv', Next
    PROVE  AllCovered'
<1>1. CASE Looping \/ ChordHandler \/ Holding \/ Binding \/ Environment
  <2>1. NoNewClaims
    BY <1>1, LoopingQuiet, ChordHandlerQuiet, HoldingQuiet, TimersQuiet, KeyPressedQuiet,
       KeyReleasedQuiet, EnvironmentQuiet DEF Binding
  <2> QED  BY <1>1, <2>1, PlainExcess, CoverStep
<1>2. CASE OpKeySequence \/ OpScroll \/ OpOverloadIdle \/ RecacheAction \/ OpOverloadTimeout
             \/ OpTimeout \/ OpMacro \/ OpCommand \/ SwapReleased
  <2>1. NoNewClaims
    BY <1>2, OpKeySequenceQuiet, OpScrollQuiet, OpOverloadIdleQuiet, RecacheActionQuiet,
       OpOverloadTimeoutQuiet, OpTimeoutQuiet, OpMacroQuiet, OpCommandQuiet, SwapReleasedQuiet
  <2> QED  BY <1>2, <2>1, PlainExcess, CoverStep
<1>3. CASE OpClear \/ OpToggle
  <2>1. NoNewClaims /\ ExcessKept
    BY <1>3, OpClearQuiet, OpToggleQuiet, OpClearExcess, OpToggleExcess
  <2> QED  BY <2>1, CoverStep
<1>4. CASE OpLayout
  BY <1>4, OpLayoutQuiet, OpLayoutCovers
<1>5. CASE OpLayer \/ OverloadPressed \/ OverloadReleased \/ OneshotPressed \/ OneshotReleased
  <2> DEFINE l == call.d.layer
  <2>1. IF call.pressed THEN ClaimGained(l) ELSE ClaimDropped(l)
    BY <1>5, OpLayerClaims, OverloadPressedClaims, OverloadReleasedClaims, OneshotPressedClaims,
       OneshotReleasedClaims DEF OverloadPressed, OverloadReleased, OneshotPressed, OneshotReleased
  <2>2. IF call.pressed THEN ExcessMore(l) ELSE ExcessLess(l)
    BY <1>5, HoldExcess
  <2> HIDE DEF l
  <2> QED  BY <2>1, <2>2, CoverStep
<1>6. CASE SwapPressed
  BY <1>6, SwapPressedCovers
<1> QED  BY <1>1, <1>2, <1>3, <1>4, <1>5, <1>6 DEF Next, Engine, Op

\* What every step does to the structure of the state.
LEMMA StepStructure ==
    ASSUME SwapToggleDisjoint, TypeOK, StructureInv, Next
    PROVE  StructureInv'
<1>1. CASE Looping \/ ChordHandler \/ Holding \/ Environment
  BY <1>1, LoopingQuiet, ChordHandlerQuiet, HoldingQuiet, EnvironmentQuiet
<1>2. CASE Binding
  BY <1>2, TimersQuiet, KeyPressedQuiet, KeyReleasedQuiet DEF Binding
<1>3. CASE SwapPressed
  <2>1. SwapOfKey(call.dl, call.d.layer) \/ cache' = cache
    BY <1>3, SwapPressedSteps DEF SwapOfToggle, SwapOfOneshot, SwapOfNothing
  <2> QED  BY <1>3, <2>1, SwapQuiet, SwapOfKeyClaims
<1>4. CASE Op /\ ~SwapPressed
  BY <1>4, OpKeySequenceQuiet, OpScrollQuiet, OpOverloadIdleQuiet, RecacheActionQuiet,
     OpOverloadTimeoutQuiet, OpTimeoutQuiet, OpLayerClaims, OpClearQuiet, OpLayoutQuiet,
     OverloadPressedClaims, OverloadReleasedClaims, OneshotPressedClaims,
     OneshotReleasedClaims, OpMacroQuiet, OpToggleQuiet, OpCommandQuiet, SwapReleasedQuiet DEF Op
<1> QED  BY <1>1, <1>2, <1>3, <1>4 DEF Next, Engine

\* Every step ends with the assertions of the code.
LEMMA StepAsserts == ASSUME Next PROVE Asserts
<1>1. ASSUME Looping PROVE Asserts
  BY <1>1 DEF Looping, NextEvent, DueBeforeNextEvent, EventsDone, Exit
<1>2. ASSUME ChordHandler PROVE Asserts
  BY <1>2 DEF ChordHandler, ReleaseChordKey, ChordResolving, ChordInactive,
              ChordDisambiguation, ChordHold, LeaveChord
<1>3. ASSUME Holding \/ Binding PROVE Asserts
  BY <1>3 DEF Holding, NotPending, PendingKey, Binding, Timers, KeyPressed, KeyReleased
<1>4. ASSUME Environment PROVE Asserts
  BY <1>4 DEF Environment, Press, Release, Timeout, Tick
<1>5. ASSUME Op PROVE Asserts
  BY <1>5 DEF Op, OpKeySequence, OpScroll, OpOverloadIdle, RecacheAction, OpOverloadTimeout,
       OpTimeout, OpLayer, OpClear, OpLayout, OverloadPressed, OverloadReleased, OneshotPressed,
       OneshotReleased, OpMacro, OpToggle, OpCommand, SwapPressed, SwapReleased
<1> QED  BY <1>1, <1>2, <1>3, <1>4, <1>5 DEF Next, Engine

-----------------------------------------------------------------------------
(* Nothing leaks: ReasonsInv is kept, and claims disappear only with the    *)
(* activations they account for.                                           *)

NoLostClaims == \A k \in Layers : Claims(k)' >= Claims(k)
ClaimAdded(l) == \A k \in Layers : Claims(k)' >= Claims(k) + One(k, l)
ClaimPaid(l) == \A k \in Layers : Claims(k)' >= Claims(k) - One(k, l)
ClaimPassed(dl, l) == \A k \in Layers : Claims(k)' >= Claims(k) - One(k, dl) + One(k, l)

\* The number of claims, from what becomes of one entry and of the release.
LEMMA ClaimsAtLeast ==
    ASSUME NEW l, NEW i
    PROVE  LET n == Finishing(l)' - Finishing(l) IN
           /\ Claimants(l) \subseteq Claimants(l)' =>
                 /\ Claims(l)' >= Claims(l) + n
                 /\ i \in Claimants(l)' /\ i \notin Claimants(l) => Claims(l)' >= Claims(l) + n + 1
           /\ Claimants(l) \ {i} \subseteq Claimants(l)' => Claims(l)' >= Claims(l) + n - 1
<1> DEFINE S == Claimants(l)
           T == Claimants(l)'
           n == Finishing(l)' - Finishing(l)
<1>1. /\ IsFiniteSet(S) /\ Finishing(l) \in {0, 1} /\ Finishing(l)' \in {0, 1}
      /\ Claims(l) = Cardinality(S) + Finishing(l)
      /\ Claims(l)' = Cardinality(T) + Finishing(l)'
  BY ClaimsType DEF Claims, Finishing
<1>2. IsFiniteSet(T)
  <2>1. IsFiniteSet(Slots) /\ T \subseteq Slots
    BY SizesAssumption, FS_Interval DEF Slots, Claimants
  <2> QED  BY <2>1, FS_Subset
<1> HIDE DEF S, T
<1>3. /\ Cardinality(S) \in Nat /\ Cardinality(T) \in Nat /\ IsFiniteSet(S \ {i})
      /\ IsFiniteSet(S \cup {i}) /\ Cardinality(S \ {i}) \in Nat /\ Cardinality(S \cup {i}) \in Nat
      /\ Cardinality(S \ {i}) >= Cardinality(S) - 1
      /\ i \notin S => Cardinality(S \cup {i}) = Cardinality(S) + 1
  <2>1. /\ IsFiniteSet(S \ {i}) /\ IsFiniteSet(S \cup {i})
        /\ i \in S => Cardinality(S \ {i}) = Cardinality(S) - 1
        /\ i \notin S => Cardinality(S \cup {i}) = Cardinality(S) + 1
    BY <1>1, FS_RemoveElement, FS_AddElement
  <2>2. ASSUME i \notin S PROVE Cardinality(S \ {i}) = Cardinality(S)
    <3>1. S \ {i} = S
      BY <2>2
    <3> QED  BY <3>1
  <2>3. /\ Cardinality(S) \in Nat /\ Cardinality(T) \in Nat
        /\ Cardinality(S \ {i}) \in Nat /\ Cardinality(S \cup {i}) \in Nat
    BY <1>1, <1>2, <2>1, FS_CardinalityType
  <2>4. CASE i \in S
    BY <2>1, <2>3, <2>4
  <2>5. CASE i \notin S
    BY <2>1, <2>2, <2>3, <2>5
  <2> QED  BY <2>4, <2>5
<1>4. ASSUME S \subseteq T PROVE Cardinality(S) <= Cardinality(T)
  BY <1>2, <1>4, FS_Subset
<1>5. ASSUME S \subseteq T, i \in T, i \notin S PROVE Cardinality(S) + 1 <= Cardinality(T)
  <2>1. S \cup {i} \subseteq T
    BY <1>5
  <2> QED  BY <1>2, <1>3, <1>5, <2>1, FS_Subset
<1>6. ASSUME S \ {i} \subseteq T PROVE Cardinality(S) - 1 <= Cardinality(T)
  <2>1. Cardinality(S \ {i}) <= Cardinality(T)
    BY <1>2, <1>6, FS_Subset
  <2> QED  BY <1>3, <2>1
<1>7. S \subseteq T => Claims(l)' >= Claims(l) + n
  BY <1>1, <1>3, <1>4
<1>8. S \subseteq T /\ i \in T /\ i \notin S => Claims(l)' >= Claims(l) + n + 1
  BY <1>1, <1>3, <1>5
<1>9. S \ {i} \subseteq T => Claims(l)' >= Claims(l) + n - 1
  BY <1>1, <1>3, <1>6
<1> QED  BY <1>7, <1>8, <1>9 DEF S, T

\* No claimant is lost, and no release in progress either.
LEMMA ClaimsStay ==
    ASSUME \A k \in Layers : Claimants(k) \subseteq Claimants(k)' /\ Finishing(k)' >= Finishing(k)
    PROVE  NoLostClaims
<1>1. ASSUME NEW k \in Layers PROVE Claims(k)' >= Claims(k)
  <2>1. Claims(k)' >= Claims(k) + (Finishing(k)' - Finishing(k))
    BY ClaimsAtLeast
  <2>2. /\ Finishing(k) \in {0, 1} /\ Finishing(k)' \in {0, 1} /\ Finishing(k)' >= Finishing(k)
        /\ Claims(k) \in Nat /\ Claims(k)' \in Nat
    BY ClaimsType, ClaimsTypeNext DEF Finishing
  <2> QED  BY <2>1, <2>2
<1> QED  BY <1>1 DEF NoLostClaims

-----------------------------------------------------------------------------
(* Steps outside process_descriptor.                                       *)

\* Every way an action sets the layers toggles only what some action toggles.
LEMMA ToggledKept ==
    ASSUME TypeOK, ToggledKnown, NEW ls \in Layering, SetLayers(ls),
           \A l \in Layers : ls[l].toggled \in {0, layer_state[l].toggled} \/ l \in ToggledLayers
    PROVE  ToggledKnown'
<1>1. \A l \in Layers : layer_state'[l].toggled = ls[l].toggled
  BY PackedType DEF SetLayers
<1> QED  BY <1>1 DEF ToggledKnown

LEMMA ToggledSteps ==
    ASSUME TypeOK, ToggledKnown
    PROVE  /\ SetLayers(layer_state) => ToggledKnown'
           /\ SetLayers(ClearOneshot(layer_state)) => ToggledKnown'
           /\ SetLayers(ClearLayers(layer_state)) => ToggledKnown'
           /\ \A i \in Layers : SetLayers(SetLayoutLayers(layer_state, i)) => ToggledKnown'
           /\ \A l \in Layers : SetLayers(Activate(layer_state, l)) => ToggledKnown'
           /\ \A l \in Layers : SetLayers(Deactivate(layer_state, l)) => ToggledKnown'
           /\ UNCHANGED layer_state => ToggledKnown'
<1>1. layer_state \in Layering
  BY LayersTyped
<1>2. SetLayers(layer_state) => ToggledKnown'
  BY <1>1, ToggledKept
<1>3. SetLayers(ClearOneshot(layer_state)) => ToggledKnown'
  BY <1>1, ClearOneshotType, ToggledKept
<1>4. SetLayers(ClearLayers(layer_state)) => ToggledKnown'
  <2>1. /\ ClearLayers(layer_state) \in Layering
        /\ \A l \in Layers : ClearLayers(layer_state)[l].toggled \in {0, layer_state[l].toggled}
    BY <1>1, ClearLayersType
  <2> QED  BY <2>1, ToggledKept
<1>5. ASSUME NEW i \in Layers PROVE SetLayers(SetLayoutLayers(layer_state, i)) => ToggledKnown'
  <2>1. \A l \in Layers : ClearLayers(layer_state)[l].toggled \in {0, layer_state[l].toggled}
    BY <1>1, ClearLayersType
  <2>2. /\ SetLayoutLayers(layer_state, i) \in Layering
        /\ \A l \in Layers : SetLayoutLayers(layer_state, i)[l].toggled \in {0, layer_state[l].toggled}
    BY <1>1, <2>1, SetLayoutLayersType
  <2> QED  BY <2>2, ToggledKept
<1>6. ASSUME NEW l \in Layers PROVE SetLayers(Activate(layer_state, l)) => ToggledKnown'
  BY <1>1, ActivateType, ToggledKept
<1>7. ASSUME NEW l \in Layers PROVE SetLayers(Deactivate(layer_state, l)) => ToggledKnown'
  BY <1>1, DeactivateType, ToggledKept
<1>8. UNCHANGED layer_state => ToggledKnown'
  BY DEF ToggledKnown
<1> QED  BY <1>2, <1>3, <1>4, <1>5, <1>6, <1>7, <1>8

\* The conclusion of the lemmas about steps that keep the claims.
Accounted == ReasonsInv' /\ NoLostClaims

LEMMA OutsideAccounted ==
    ASSUME ReasonsInv, ~InDescriptor(call), ~InDescriptor(call'), OutStack(callers'),
           cache' = cache, pending_key'.code = pending_key.code, KeyPassed', ToggledKnown'
    PROVE  Accounted
<1>1. LayerHeld'
  BY DEF ReasonsInv, LayerHeld, InDescriptor
<1>2. PressKept' /\ RecacheKept' /\ NestedOnce'
  BY DEF PressKept, RecacheKept, NestedOnce, Pressing, InDescriptor, OutStack, OutFrame
<1>3. PendingKept'
  BY DEF ReasonsInv, PendingKept, CachedCodes, Pressing, InDescriptor
<1>4. \A k \in Layers : Claimants(k) \subseteq Claimants(k)' /\ Finishing(k)' >= Finishing(k)
  BY DEF Claimants, ClaimsEntry, Finishing, Pressing, Releasing, InDescriptor
<1> QED  BY <1>1, <1>2, <1>3, <1>4, ClaimsStay DEF ReasonsInv, Accounted

LEMMA NoneRunsAccounted ==
    ASSUME TypeOK, ReasonsInv, ~InDescriptor(call), NoneRuns', cache' = cache,
           pending_key'.code = pending_key.code, layer_state' = layer_state
    PROVE  Accounted
<1>1. ToggledKnown'
  BY ToggledSteps DEF ReasonsInv
<1>2. KeyPassed' /\ ~InDescriptor(call') /\ OutStack(callers')
  BY DEF NoneRuns, KeyPassed, OutFrame, InDescriptor, OutStack
<1> QED  BY <1>1, <1>2, OutsideAccounted

LEMMA LoopingAccounted ==
    ASSUME TypeOK, StructureInv, ReasonsInv, Looping  PROVE Accounted
<1>1. /\ ~InDescriptor(call) /\ layer_state' = layer_state
      /\ cache' = cache /\ pending_key' = pending_key
  BY DEF Looping, NextEvent, DueBeforeNextEvent, EventsDone, Exit, InDescriptor, keyVars, layerVars
<1> QED  BY <1>1, LoopingQuiet, NoneRunsAccounted

LEMMA ChordHandlerAccounted ==
    ASSUME TypeOK, StructureInv, ReasonsInv, ChordHandler  PROVE Accounted
<1>1. /\ ~InDescriptor(call) /\ layer_state' = layer_state
      /\ cache' = cache /\ pending_key' = pending_key
  BY DEF ChordHandler, ReleaseChordKey, ChordResolving, ChordInactive, ChordDisambiguation,
         ChordHold, LeaveChord, InChordHandler, InDescriptor, keyVars, layerVars
<1> QED  BY <1>1, ChordHandlerQuiet, NoneRunsAccounted

LEMMA EnvironmentAccounted ==
    ASSUME TypeOK, StructureInv, ReasonsInv, Environment  PROVE Accounted
<1>1. call = IdleCall /\ UNCHANGED layerVars /\ UNCHANGED keyVars
  BY DEF Environment, Press, Release, Timeout, Tick, ProcessOne, Idle
<1>2. /\ ~InDescriptor(call) /\ layer_state' = layer_state
      /\ cache' = cache /\ pending_key' = pending_key
  BY <1>1 DEF IdleCall, InDescriptor, keyVars, layerVars
<1> QED  BY <1>2, EnvironmentQuiet, NoneRunsAccounted

\* An event that gets past handle_pending_key is not of the pending key.
LEMMA NotPendingAccounted ==
    ASSUME TypeOK, StructureInv, ReasonsInv, NotPending  PROVE Accounted
<1>1. /\ ~InDescriptor(call) /\ layer_state' = layer_state
      /\ cache' = cache /\ pending_key' = pending_key
      /\ call' = Stage("timers") /\ callers' = callers /\ PassesPendingKey
  BY DEF NotPending, Goto, InDescriptor, keyVars, layerVars
<1>2. call'.pc = "timers" /\ call'.code = call.code
  BY <1>1 DEF Stage, ProcessEvent
<1>3. OutStack(callers')
  BY <1>1, OutsideStack DEF StructureInv
<1>4. KeyPassed'
  BY <1>1, <1>2 DEF KeyPassed, PassesPendingKey
<1>5. ToggledKnown'
  BY <1>1, ToggledSteps DEF ReasonsInv
<1> QED  BY <1>1, <1>2, <1>3, <1>4, <1>5, OutsideAccounted DEF InDescriptor

LEMMA TimersAccounted ==
    ASSUME TypeOK, StructureInv, ReasonsInv, Timers  PROVE Accounted
<1>1. /\ ~InDescriptor(call) /\ call.pc = "timers" /\ callers' = callers
      /\ cache' = cache /\ pending_key' = pending_key
      /\ SetLayers(ClearOneshot(layer_state)) \/ SetLayers(layer_state)
      /\ call' = IF call.code = NoKey THEN ExitEvent(call.time) ELSE Stage("key")
  BY DEF Timers, Goto, InDescriptor, keyVars
<1>2. ~InDescriptor(call')
  BY <1>1 DEF Stage, ProcessEvent, ExitEvent, InDescriptor
<1>3. OutStack(callers')
  BY <1>1, OutsideStack DEF StructureInv
<1>4. KeyPassed'
  BY <1>1 DEF ReasonsInv, KeyPassed, Stage, ProcessEvent, ExitEvent
<1>5. ToggledKnown'
  BY <1>1, ToggledSteps DEF ReasonsInv
<1> QED  BY <1>1, <1>2, <1>3, <1>4, <1>5, OutsideAccounted

\* A press gives the key an entry, in place of one that holds nothing.
LEMMA EnterAccounted ==
    ASSUME TypeOK, StructureInv, ReasonsInv, ~InDescriptor(call),
           OutStack(callers'), callers' # <<>>, OutFrame(callers'[1]),
           NEW code \in Codes, code # NoKey, NEW d, NEW dl, NEW time,
           call' = ProcessDescriptor(code, d, dl, TRUE, time),
           cache' = CacheSet(cache, code, d, dl), SlotFor(cache, code) # {},
           \A i \in Slots : cache[i].code = code =>
                               cache[i].layer = 0 /\ cache[i].d.op \notin HoldOps,
           pending_key'.code \in {NoKey, pending_key.code} \ {code},
           layer_state' = layer_state
    PROVE  Accounted
<1>1. /\ call'.pc = "descriptor" /\ call'.code = code /\ call'.pressed = TRUE /\ call'.d = d
  BY DEF ProcessDescriptor
<1> DEFINE new == [code |-> code, d |-> d, dl |-> dl, layer |-> 0]
<1>2. new.code = code /\ new.d = d /\ new.layer = 0
  OBVIOUS
<1>3. \A i \in Slots : IF i \in SlotFor(cache, code) THEN cache'[i] = new ELSE cache'[i] = cache[i]
  BY DEF CacheSet
<1> HIDE DEF new
<1>4. \A i \in SlotFor(cache, code) : i \in Slots /\ cache[i].code \in {code, NoKey}
  BY DEF SlotFor, Cached
<1>5. \A i \in Slots : cache[i].code = code => i \in SlotFor(cache, code)
  BY DEF SlotFor, Cached
<1>6. ASSUME NEW i \in Slots
      PROVE  \/ cache'[i] = cache[i] /\ cache[i].code # code
             \/ /\ cache'[i].code = code /\ cache'[i].d = d /\ cache'[i].layer = 0
                /\ cache[i].code \in {code, NoKey}
  BY <1>2, <1>3, <1>4, <1>5
<1>7. code \in CachedCodes'
  <2>1. PICK i \in Slots : cache'[i].code = code
    BY <1>2, <1>3, <1>4
  <2> QED  BY <2>1 DEF CachedCodes
<1>8. ASSUME NEW c \in CachedCodes PROVE c \in CachedCodes'
  BY <1>6, <1>7, <1>8 DEF CachedCodes
<1>9. LayerHeld'
  BY <1>1, <1>6 DEF ReasonsInv, LayerHeld, InDescriptor
<1>10. PressKept'
  <2>1. EntryInPlace'
    BY <1>1, <1>6, <1>7 DEF EntryInPlace, OutFrame, InDescriptor
  <2> QED  BY <2>1 DEF PressKept
<1>11. RecacheKept' /\ NestedOnce' /\ KeyPassed'
  BY <1>1 DEF RecacheKept, NestedOnce, KeyPassed, OutStack, OutFrame, InDescriptor
<1>12. PendingKept'
  <2> SUFFICES ASSUME pending_key'.code # NoKey PROVE PendingKept'
    BY DEF PendingKept
  <2>1. pending_key'.code = pending_key.code /\ pending_key.code # code /\ pending_key.code # NoKey
    OBVIOUS
  <2>2. /\ pending_key.code \in CachedCodes
        /\ \A i \in Slots : cache[i].code = pending_key.code =>
                               cache[i].layer = 0 /\ cache[i].d.op \notin HoldOps
    BY <2>1 DEF ReasonsInv, PendingKept
  <2> QED  BY <1>1, <1>6, <1>8, <2>1, <2>2 DEF PendingKept
<1>13. ToggledKnown'
  BY ToggledSteps DEF ReasonsInv
<1>14. \A k \in Layers : Claimants(k) \subseteq Claimants(k)' /\ Finishing(k)' >= Finishing(k)
  <2> TAKE k \in Layers
  <2>1. Finishing(k) = 0 /\ Finishing(k)' = 0
    BY <1>1 DEF Finishing, Releasing, InDescriptor
  <2>2. ASSUME NEW i \in Slots, ClaimsEntry(i, k) PROVE ClaimsEntry(i, k)'
    <3>1. cache[i].code # NoKey /\ (Holds(cache[i].d, k) \/ (cache[i].layer = k /\ SwapHome(k) /\ k # 0))
      BY <2>2 DEF ClaimsEntry, InDescriptor
    <3>2. cache[i].code # code
      BY <3>1 DEF Holds
    <3>3. cache'[i] = cache[i]
      BY <1>6, <3>1, <3>2
    <3> QED  BY <1>1, <3>1, <3>2, <3>3 DEF ClaimsEntry, Pressing
  <2> QED  BY <2>1, <2>2 DEF Claimants
<1> QED  BY <1>9, <1>10, <1>11, <1>12, <1>13, <1>14, ClaimsStay DEF ReasonsInv, Accounted

LEMMA PendingKeyAccounted ==
    ASSUME TypeOK, StructureInv, ReasonsInv, PendingKey  PROVE Accounted
<1> DEFINE p == pending_key
           q == HoldBack(p.queue)
           action == PendingAction(q)
           f == ProcessDescriptor(p.code, action, p.dl, TRUE, call.time)
           ks == <<ProcessEvents(q), ExitEvent(call.time)>>
<1>1. /\ ~InDescriptor(call) /\ layer_state' = layer_state /\ OutStack(callers)
      /\ callers \in Seq(Frame) /\ p.code # NoKey /\ p.code \in Codes
  BY OutsideStack, StackTyped DEF PendingKey, PassesPendingKey, InDescriptor, layerVars,
                                  StructureInv, TypeOK, KeysOK, Pending
<1>2. CASE pending_key' = [p EXCEPT !.queue = q] /\ cache' = cache /\ Goto(ExitEvent(call.time))
  <2>1. pending_key'.code = pending_key.code
    BY <1>2 DEF TypeOK, KeysOK, Pending
  <2>2. NoneRuns'
    BY <1>1, <1>2, OutFrames, NoneRunsGoto DEF StructureInv
  <2> QED  BY <1>1, <1>2, <2>1, <2>2, NoneRunsAccounted
<1>3. CASE pending_key' = NoPending /\ cache' = CacheSet(cache, p.code, action, p.dl) /\ CallThen(f, ks)
  <2>1. /\ OutFrame(ProcessEvents(q)) /\ OutFrame(ExitEvent(call.time))
    BY OutFrames
  <2>2. OutStack(ks \o callers)
    BY <1>1, <2>1, OutPushes
  <2>3. ks \o callers # <<>> /\ (ks \o callers)[1] = ProcessEvents(q)
    <3>1. ks \in Seq({ProcessEvents(q), ExitEvent(call.time)}) /\ Len(ks) = 2
      OBVIOUS
    <3>2. Len(ks \o callers) = 2 + Len(callers) /\ Len(callers) \in Nat
      BY <1>1, <3>1
    <3> QED  BY <1>1, <3>1, <3>2
  <2>4. /\ p.code \in CachedCodes
        /\ \A i \in Slots : cache[i].code = p.code =>
                               cache[i].layer = 0 /\ cache[i].d.op \notin HoldOps
    BY <1>1 DEF ReasonsInv, PendingKept
  <2>5. SlotFor(cache, p.code) # {}
    BY <2>4 DEF CachedCodes, SlotFor, Cached
  <2>6. pending_key'.code \in {NoKey, pending_key.code} \ {p.code}
    BY <1>1, <1>3 DEF NoPending
  <2>7. call' = f /\ callers' = ks \o callers
    BY <1>3 DEF CallThen
  <2> HIDE DEF p, q, action, ks
  <2> QED  BY <1>1, <1>3, <2>1, <2>2, <2>3, <2>4, <2>5, <2>6, <2>7, EnterAccounted
<1> QED  BY <1>2, <1>3 DEF PendingKey

LEMMA KeyPressedAccounted ==
    ASSUME TypeOK, StructureInv, ReasonsInv, KeyPressed  PROVE Accounted
<1> DEFINE b == LookupDescriptor(call.code)
           f == ProcessDescriptor(call.code, b.d, b.dl, TRUE, call.time)
           ks == <<ExitEvent(call.time)>>
<1>1. /\ ~InDescriptor(call) /\ layer_state' = layer_state /\ OutStack(callers)
      /\ callers \in Seq(Frame) /\ call.code # NoKey /\ pending_key' = pending_key
      /\ call.code # pending_key.code
  BY OutsideStack, StackTyped DEF KeyPressed, InDescriptor, layerVars, StructureInv, StackInv,
                                  KeyKnown, ReasonsInv, KeyPassed
<1>2. call.code \in Codes
  BY EventStages DEF KeyPressed, HandlesEvent
<1>3. CASE Goto(ExitEvent(call.time)) /\ cache' = cache
  <2>1. NoneRuns'
    BY <1>1, <1>3, OutFrames, NoneRunsGoto DEF StructureInv
  <2> QED  BY <1>1, <1>3, <2>1, NoneRunsAccounted
<1>4. CASE /\ Cached(cache, call.code) = {} /\ SlotFor(cache, call.code) # {}
           /\ cache' = CacheSet(cache, call.code, b.d, b.dl) /\ CallThen(f, ks)
  <2>1. OutFrame(ExitEvent(call.time)) /\ OutStack(ks \o callers)
    BY <1>1, OutFrames, OutPushes
  <2>2. ks \o callers # <<>> /\ (ks \o callers)[1] = ExitEvent(call.time)
    <3>1. ks \in Seq({ExitEvent(call.time)}) /\ Len(ks) = 1
      OBVIOUS
    <3>2. Len(ks \o callers) = 1 + Len(callers) /\ Len(callers) \in Nat
      BY <1>1, <3>1
    <3> QED  BY <1>1, <3>1, <3>2
  <2>3. \A i \in Slots : cache[i].code # call.code
    BY <1>4 DEF Cached
  <2>4. call' = f /\ callers' = ks \o callers
    BY <1>4 DEF CallThen
  <2> HIDE DEF b, ks
  <2> QED  BY <1>1, <1>2, <1>4, <2>1, <2>2, <2>3, <2>4, EnterAccounted
<1> QED  BY <1>3, <1>4 DEF KeyPressed

\* The claims of the entry that goes are those of the release that begins.
LEMMA KeyReleasedAccounted ==
    ASSUME TypeOK, StructureInv, ReasonsInv, KeyReleased  PROVE Accounted
<1>1. /\ ~InDescriptor(call) /\ layer_state' = layer_state /\ OutStack(callers)
      /\ callers \in Seq(Frame) /\ call.code # NoKey /\ pending_key' = pending_key
      /\ call.code # pending_key.code /\ UniqueEntries
  BY OutsideStack, StackTyped DEF KeyReleased, InDescriptor, layerVars, StructureInv, StackInv,
                                  KeyKnown, ReasonsInv, KeyPassed
<1>2. CASE Goto(ExitEvent(call.time)) /\ cache' = cache
  <2>1. NoneRuns'
    BY <1>1, <1>2, OutFrames, NoneRunsGoto DEF StructureInv
  <2> QED  BY <1>1, <1>2, <2>1, NoneRunsAccounted
<1>3. ASSUME NEW i \in Cached(cache, call.code), cache' = CacheClear(cache, call.code),
             CallThen(ProcessDescriptor(call.code, cache[i].d, cache[i].dl, FALSE, call.time),
                      <<ExitEvent(call.time)>>)
      PROVE  Accounted
  <2>1. i \in Slots /\ cache[i].code = call.code
    BY DEF Cached
  <2>2. ASSUME NEW j \in Slots
        PROVE  \/ cache'[j] = cache[j] /\ cache[j].code # call.code
               \/ cache'[j].code = NoKey /\ cache[j].code = call.code
    BY <1>3 DEF CacheClear, EmptySlot
  <2>3. /\ call'.pc = "descriptor" /\ call'.pressed = FALSE /\ call'.d = cache[i].d
    BY <1>3 DEF CallThen, ProcessDescriptor
  <2>4. OutStack(callers')
    BY <1>1, <1>3, OutFrames, OutPushes DEF CallThen
  <2>5. LayerHeld'
    BY <1>1, <2>2, <2>3 DEF ReasonsInv, LayerHeld, InDescriptor
  <2>6. PressKept' /\ RecacheKept' /\ NestedOnce' /\ KeyPassed'
    BY <2>3, <2>4 DEF PressKept, RecacheKept, NestedOnce, KeyPassed, Pressing, OutStack, OutFrame,
                      InDescriptor
  <2>7. PendingKept'
    <3> SUFFICES ASSUME pending_key.code # NoKey PROVE PendingKept'
      BY <1>1 DEF PendingKept
    <3>1. /\ pending_key.code \in CachedCodes
          /\ \A j \in Slots : cache[j].code = pending_key.code =>
                                 cache[j].layer = 0 /\ cache[j].d.op \notin HoldOps
      BY DEF ReasonsInv, PendingKept
    <3>2. pending_key.code \in CachedCodes'
      BY <1>1, <2>2, <3>1 DEF CachedCodes
    <3> QED  BY <1>1, <2>2, <2>3, <3>1, <3>2 DEF PendingKept, Pressing
  <2>8. ToggledKnown'
    BY <1>1, ToggledSteps DEF ReasonsInv
  <2>9. ASSUME NEW k \in Layers PROVE Claims(k)' >= Claims(k)
    <3>1. ASSUME NEW j \in Claimants(k), j # i PROVE j \in Claimants(k)'
      <4>1. j \in Slots /\ cache[j].code # NoKey
            /\ (Holds(cache[j].d, k) \/ (cache[j].layer = k /\ SwapHome(k) /\ k # 0))
        BY <1>1 DEF Claimants, ClaimsEntry, InDescriptor
      <4>2. cache'[j] = cache[j]
        BY <1>1, <2>1, <2>2, <3>1, <4>1 DEF UniqueEntries
      <4> QED  BY <2>3, <4>1, <4>2 DEF Claimants, ClaimsEntry, Pressing
    <3>2. i \in Claimants(k) => Holds(cache[i].d, k)
      BY <1>1, <2>1 DEF Claimants, ClaimsEntry, InDescriptor, ReasonsInv, LayerHeld
    <3>3. /\ Finishing(k) = 0
          /\ Finishing(k)' = IF Holds(cache[i].d, k) THEN 1 ELSE 0
      BY <1>1, <2>3 DEF Finishing, Releasing, InDescriptor, Holds
    <3>4. CASE Holds(cache[i].d, k)
      <4>1. Claims(k)' >= Claims(k) + 1 - 1
        <5>1. Claimants(k) \ {i} \subseteq Claimants(k)'
          BY <3>1
        <5> QED  BY <3>3, <3>4, <5>1, ClaimsAtLeast
      <4> QED  BY <4>1, ClaimsType
    <3>5. CASE ~Holds(cache[i].d, k)
      <4>1. Claims(k)' >= Claims(k) + 0
        <5>1. Claimants(k) \subseteq Claimants(k)'
          BY <3>1, <3>2, <3>5
        <5> QED  BY <3>3, <3>5, <5>1, ClaimsAtLeast
      <4> QED  BY <4>1, ClaimsType
    <3> QED  BY <3>4, <3>5
  <2> QED  BY <2>5, <2>6, <2>7, <2>8, <2>9 DEF ReasonsInv, Accounted, NoLostClaims
<1> QED  BY <1>2, <1>3 DEF KeyReleased

-----------------------------------------------------------------------------
(* Leaving process_descriptor.                                             *)

\* Where a press returns to: the release of a tap, the caller of a key whose
\* entry has the descriptor, or the tail that will write it there.
ToRelease == Releases(call') /\ call'.code = call.code /\ call'.d = call.d /\ NotCached(call.code)
ToEntry == /\ call.code \in CachedCodes /\ ~InDescriptor(call')
           /\ \A i \in Slots : cache[i].code = call.code => cache[i].d = call.d
ToRecache == /\ call.code \in CachedCodes /\ call'.pc = "recache"
             /\ call'.code = call.code /\ call'.d = call.d

LEMMA ReturnTo ==
    ASSUME TypeOK, StructureInv, ReasonsInv, InDescriptor(call), Return
    PROVE  /\ IF Pressing THEN ToRelease \/ ToEntry \/ ToRecache ELSE ~InDescriptor(call')
           /\ Pressing /\ call.d.op \in WaitingOps => ToEntry \/ ToRecache
           /\ NestedOnce' /\ KeyPassed'
<1> DEFINE t == Tail(callers)
<1>1. /\ callers \in Seq(Frame) /\ callers # <<>> /\ Len(callers) \in Nat /\ Len(callers) > 0
      /\ call' = callers[1] /\ callers' = t
  BY StackTyped, EmptySeq DEF InDescriptor, Return
<1>2. /\ t \in Seq(Frame) /\ Len(t) = Len(callers) - 1
      /\ \A i \in 1 .. Len(t) : t[i] = callers[i + 1]
  BY <1>1, HeadTailProperties
<1>3. /\ 1 \in DOMAIN callers
      /\ \A i \in DOMAIN t : i + 1 # 1 /\ i + 1 \in DOMAIN callers /\ t[i] = callers[i + 1]
  BY <1>1, <1>2
<1> HIDE DEF t
<1>4. /\ NestedOnce /\ PressKept /\ KeyKnown /\ ReleasedNotCached
  BY DEF ReasonsInv, StructureInv, StackInv
<1>5. NestedOnce'
  BY <1>1, <1>3, <1>4 DEF NestedOnce
<1>6. KeyPassed'
  BY <1>1, <1>3, <1>4 DEF KeyKnown, KeyPassed
<1>7. ASSUME Pressing, TapInProgress PROVE ToRelease
  BY <1>1, <1>3, <1>4, <1>7 DEF TapInProgress, Releases, ToRelease, ReleasedNotCached
<1>8. ASSUME Pressing, EntryInPlace PROVE ToEntry \/ ToRecache
  BY <1>1, <1>8 DEF EntryInPlace, ToEntry, ToRecache, Recache
<1>9. ~Pressing => ~InDescriptor(call')
  BY <1>1, <1>3, <1>4 DEF NestedOnce
<1>10. TapInProgress => call.d.op \notin WaitingOps
  BY DEF TapInProgress
<1> QED  BY <1>4, <1>5, <1>6, <1>7, <1>8, <1>9, <1>10 DEF PressKept

\* What an action may do to the cache: note a layer in the entry of the key
\* that is pressed, or change an entry that holds a layer, of another key.
Touched == \A i \in Slots :
    \/ cache'[i] = cache[i]
    \/ Pressing /\ cache[i].code = call.code /\ cache'[i].code = call.code /\ cache'[i].d = cache[i].d
    \/ cache[i].code # call.code /\ cache[i].layer # 0 /\ cache'[i].code = cache[i].code

LEMMA ReturnKept ==
    ASSUME TypeOK, StructureInv, ReasonsInv, call.pc = "descriptor", Return, Touched,
           \/ pending_key'.code = pending_key.code
           \/ /\ pending_key'.code = call.code /\ cache' = cache
              /\ call.pressed /\ call.d.op \in WaitingOps /\ call.d.op \notin HoldOps
    PROVE  /\ PressKept' /\ RecacheKept' /\ NestedOnce' /\ PendingKept' /\ KeyPassed' /\ ~Pressing'
           /\ IF Pressing THEN ToRelease \/ ToEntry \/ ToRecache ELSE ~InDescriptor(call')
<1>1. /\ IF Pressing THEN ToRelease \/ ToEntry \/ ToRecache ELSE ~InDescriptor(call')
      /\ Pressing /\ call.d.op \in WaitingOps => ToEntry \/ ToRecache
      /\ NestedOnce' /\ KeyPassed'
  BY ReturnTo DEF InDescriptor
<1>2. \A i \in Slots : cache'[i].code = cache[i].code
  BY DEF Touched
<1>3. ~Pressing'
  BY <1>2, ReturnStack DEF InDescriptor
<1>4. CachedCodes' = CachedCodes
  BY <1>2 DEF CachedCodes
<1>5. PressKept'
  BY <1>3 DEF PressKept
<1>6. call'.pc = "recache" => Pressing /\ ToRecache
  BY <1>1 DEF ToRelease, ToEntry, Releases, InDescriptor
<1>7. Pressing => \A i \in Slots : cache[i].code = call.code /\ call.code # NoKey =>
                      cache[i].layer = 0 /\ (cache[i].d = call.d \/ cache[i].d.op \notin HoldOps)
  BY DEF StructureInv, FreshEntry
<1>8. RecacheKept'
  <2> SUFFICES ASSUME call'.pc = "recache" PROVE RecacheKept'
    BY DEF RecacheKept
  <2>1. Pressing /\ call'.code = call.code /\ call'.d = call.d /\ call.code \in CachedCodes
    BY <1>6 DEF ToRecache
  <2>2. call.code # NoKey
    BY <2>1 DEF CachedCodes
  <2>3. ASSUME NEW i \in Slots, cache'[i].code = call.code
        PROVE  cache'[i].d = call.d \/ cache'[i].d.op \notin HoldOps
    BY <1>2, <1>7, <2>1, <2>2, <2>3 DEF Touched
  <2> QED  BY <1>4, <2>1, <2>3 DEF RecacheKept
<1>9. PendingKept'
  <2> SUFFICES ASSUME pending_key'.code # NoKey PROVE PendingKept'
    BY DEF PendingKept
  <2>1. CASE pending_key'.code = pending_key.code
    <3>1. /\ pending_key.code \in CachedCodes
          /\ \A j \in Slots : cache[j].code = pending_key.code =>
                                 cache[j].layer = 0 /\ cache[j].d.op \notin HoldOps
          /\ Pressing => call.code # pending_key.code
      BY <2>1 DEF ReasonsInv, PendingKept
    <3>2. ASSUME NEW j \in Slots, cache'[j].code = pending_key.code
          PROVE  cache'[j].layer = 0 /\ cache'[j].d.op \notin HoldOps
      BY <1>2, <3>1, <3>2 DEF Touched
    <3>3. call'.pc = "recache" => call'.code # pending_key.code
      BY <1>6, <3>1 DEF ToRecache
    <3> QED  BY <1>3, <1>4, <2>1, <3>1, <3>2, <3>3 DEF PendingKept
  <2>2. CASE /\ pending_key'.code = call.code /\ cache' = cache
             /\ call.pressed /\ call.d.op \in WaitingOps /\ call.d.op \notin HoldOps
    <3>1. Pressing
      BY <2>2 DEF Pressing
    <3>2. call.code \in CachedCodes /\ call.code # NoKey
      BY <1>1, <2>2, <3>1 DEF ToEntry, ToRecache
    <3>3. \A i \in Slots : cache[i].code = call.code =>
                               cache[i].layer = 0 /\ cache[i].d.op \notin HoldOps
      BY <1>7, <2>2, <3>1, <3>2
    <3>4. call'.pc = "recache" => call'.d.op \notin HoldOps
      BY <1>6, <2>2 DEF ToRecache
    <3> QED  BY <1>3, <1>4, <2>2, <3>2, <3>3, <3>4 DEF PendingKept
  <2> QED  BY <2>1, <2>2
<1> QED  BY <1>1, <1>3, <1>5, <1>8, <1>9

\* No entry but the one of the key that is pressed loses a claim.
LEMMA ReturnClaimants ==
    ASSUME call.pc = "descriptor", ~Pressing', NEW k,
           \A i \in Slots : cache'[i] = cache[i] \/ (Pressing /\ cache[i].code = call.code)
    PROVE  Claimants(k) \subseteq Claimants(k)'
  BY DEF Claimants, ClaimsEntry

\* An action that holds no layer.
LEMMA PlainAccounted ==
    ASSUME TypeOK, StructureInv, ReasonsInv, call.pc = "descriptor", call.d.op \notin HoldOps,
           Return, cache' = cache, ToggledKnown',
           \/ pending_key'.code = pending_key.code
           \/ pending_key'.code = call.code /\ call.pressed /\ call.d.op \in WaitingOps
    PROVE  Accounted
<1>1. /\ PressKept' /\ RecacheKept' /\ NestedOnce' /\ PendingKept' /\ KeyPassed' /\ ~Pressing'
  BY ReturnKept DEF Touched
<1>2. LayerHeld'
  BY DEF ReasonsInv, LayerHeld
<1>3. \A k \in Layers : Claimants(k) \subseteq Claimants(k)' /\ Finishing(k)' >= Finishing(k)
  <2> TAKE k \in Layers
  <2>1. Finishing(k) = 0 /\ Finishing(k)' \in {0, 1}
    BY DEF Finishing, Holds
  <2> QED  BY <1>1, <2>1, ReturnClaimants
<1> QED  BY <1>1, <1>2, <1>3, ClaimsStay DEF ReasonsInv, Accounted

\* The key of a descriptor that holds a layer goes up.
LEMMA ReleasedAccounted ==
    ASSUME TypeOK, StructureInv, ReasonsInv, call.pc = "descriptor", ~call.pressed, Return,
           cache' = cache, ToggledKnown', pending_key'.code = pending_key.code
    PROVE  ReasonsInv' /\ ClaimPaid(call.d.layer)
<1>1. /\ PressKept' /\ RecacheKept' /\ NestedOnce' /\ PendingKept' /\ KeyPassed' /\ ~Pressing'
  BY ReturnKept DEF Touched
<1>2. LayerHeld'
  BY DEF ReasonsInv, LayerHeld
<1>3. ASSUME NEW k \in Layers PROVE Claims(k)' >= Claims(k) - One(k, call.d.layer)
  <2>1. /\ Finishing(k) \in {0, 1} /\ Finishing(k)' \in {0, 1}
        /\ Finishing(k) <= One(k, call.d.layer) /\ One(k, call.d.layer) \in {0, 1}
    BY DEF Finishing, Holds, One
  <2>2. Claims(k)' >= Claims(k) + (Finishing(k)' - Finishing(k))
    BY <1>1, ReturnClaimants, ClaimsAtLeast
  <2>3. Claims(k) \in Nat /\ Claims(k)' \in Nat
    BY ClaimsType, ClaimsTypeNext
  <2> QED  BY <2>1, <2>2, <2>3
<1> QED  BY <1>1, <1>2, <1>3 DEF ReasonsInv, ClaimPaid

\* The layer is noted in the entry of the key that is pressed.
LEMMA CacheLayerTouched ==
    ASSUME TypeOK, call.pc = "descriptor", call.pressed, NEW l \in Layers,
           cache' = CacheLayer(cache, call.code, l)
    PROVE  /\ Touched
           /\ \A i \in Slots :
                 \/ cache'[i] = cache[i] /\ (call.code = NoKey \/ cache[i].code # call.code)
                 \/ /\ call.code # NoKey /\ cache[i].code = call.code /\ cache'[i].code = call.code
                    /\ cache'[i].d = cache[i].d /\ cache'[i].layer = l
<1>1. ASSUME NEW i \in Slots
      PROVE  \/ cache'[i] = cache[i] /\ (call.code = NoKey \/ cache[i].code # call.code)
             \/ /\ call.code # NoKey /\ cache[i].code = call.code /\ cache'[i].code = call.code
                /\ cache'[i].d = cache[i].d /\ cache'[i].layer = l
  <2> DEFINE e == cache[i]
             e1 == cache'[i]
  <2>1. e \in Entry
    BY ModesTyped
  <2>2. e1 = IF call.code # NoKey /\ e.code = call.code THEN [e EXCEPT !.layer = l] ELSE e
    BY DEF CacheLayer
  <2> HIDE DEF e, e1
  <2>3. \/ e1 = e /\ (call.code = NoKey \/ e.code # call.code)
        \/ /\ call.code # NoKey /\ e.code = call.code /\ e1.code = e.code
           /\ e1.d = e.d /\ e1.layer = l
    BY <2>1, <2>2 DEF Entry
  <2> QED  BY <2>3 DEF e, e1
<1> QED  BY <1>1 DEF Touched, Pressing

\* The key of a descriptor that holds a layer goes down: its entry, or the
\* release of the tap, will give back what it takes.
LEMMA PressedAccounted ==
    ASSUME TypeOK, StructureInv, ReasonsInv, call.pc = "descriptor", call.pressed,
           call.d.op \in HoldOps, Return, cache' = CacheLayer(cache, call.code, call.d.layer),
           ToggledKnown', pending_key'.code = pending_key.code
    PROVE  ReasonsInv' /\ ClaimAdded(call.d.layer)
<1> DEFINE l == call.d.layer
<1>1. l \in Layers /\ Pressing
  BY DescriptorRuns DEF Pressing
<1>2. /\ Touched
      /\ \A i \in Slots :
            \/ cache'[i] = cache[i] /\ (call.code = NoKey \/ cache[i].code # call.code)
            \/ /\ call.code # NoKey /\ cache[i].code = call.code /\ cache'[i].code = call.code
               /\ cache'[i].d = cache[i].d /\ cache'[i].layer = l
  BY <1>1, CacheLayerTouched
<1>3. /\ PressKept' /\ RecacheKept' /\ NestedOnce' /\ PendingKept' /\ KeyPassed' /\ ~Pressing'
      /\ ToRelease \/ ToEntry \/ ToRecache
  BY <1>1, <1>2, ReturnKept
<1>4. ASSUME NEW i \in Slots, call.code # NoKey, cache[i].code = call.code
      PROVE  \/ Holds(cache'[i].d, l)
             \/ call'.pc = "recache" /\ call'.code = cache'[i].code /\ Holds(call'.d, l)
  <2>1. ~ToRelease
    BY <1>4 DEF ToRelease, NotCached
  <2> QED  BY <1>2, <1>3, <1>4, <2>1 DEF ToEntry, ToRecache, Holds
<1>5. LayerHeld'
  <2> SUFFICES ASSUME NEW i \in Slots, cache'[i].code # NoKey, cache'[i].layer # 0,
                      SwapHome(cache'[i].layer)
               PROVE  \/ Holds(cache'[i].d, cache'[i].layer)
                      \/ call'.pc = "recache" /\ call'.code = cache'[i].code
                                              /\ Holds(call'.d, cache'[i].layer)
    BY DEF LayerHeld
  <2>1. CASE cache'[i] = cache[i]
    BY <2>1 DEF ReasonsInv, LayerHeld
  <2>2. CASE call.code # NoKey /\ cache[i].code = call.code /\ cache'[i].layer = l
    BY <1>4, <2>2
  <2> QED  BY <1>2, <2>1, <2>2
<1>6. ASSUME NEW k \in Layers
      PROVE  /\ Claimants(k) \subseteq Claimants(k)' /\ Finishing(k) = 0
             /\ Finishing(k)' \in {0, 1}
  BY <1>1, <1>2, <1>3, ReturnClaimants DEF Finishing, Releasing, Pressing
<1>7. ASSUME NEW k \in Layers, k # l PROVE Claims(k)' >= Claims(k) + One(k, l)
  <2>1. Claims(k)' >= Claims(k) + (Finishing(k)' - Finishing(k))
    BY <1>6, ClaimsAtLeast
  <2> QED  BY <1>6, <1>7, <2>1, ClaimsType, ClaimsTypeNext DEF One
<1>8. ASSUME NEW k \in Layers, k = l PROVE Claims(k)' >= Claims(k) + One(k, l)
  <2>1. /\ Claims(k) \in Nat /\ Claims(k)' \in Nat /\ One(k, l) = 1
        /\ Finishing(k) = 0 /\ Finishing(k)' \in {0, 1}
    BY <1>6, <1>8, ClaimsType, ClaimsTypeNext DEF One
  <2>2. CASE ToRelease
    <3>1. Finishing(k)' = 1
      BY <1>8, <2>2 DEF ToRelease, Releases, Finishing, Releasing, Holds
    <3>2. Claims(k)' >= Claims(k) + (Finishing(k)' - Finishing(k))
      BY <1>6, ClaimsAtLeast
    <3> HIDE DEF l
    <3> QED  BY <2>1, <3>1, <3>2
  <2>3. CASE ToEntry \/ ToRecache
    <3>1. PICK i \in Slots : cache[i].code = call.code /\ call.code # NoKey
      BY <2>3 DEF ToEntry, ToRecache, CachedCodes
    <3>2. i \notin Claimants(k)
      BY <1>1, <3>1 DEF Claimants, ClaimsEntry
    <3>3. i \in Claimants(k)'
      BY <1>2, <1>3, <1>4, <1>8, <3>1 DEF Claimants, ClaimsEntry
    <3>4. Claims(k)' >= Claims(k) + (Finishing(k)' - Finishing(k)) + 1
      BY <1>6, <3>2, <3>3, ClaimsAtLeast
    <3> HIDE DEF l
    <3> QED  BY <2>1, <3>4
  <2> QED  BY <1>3, <2>2, <2>3
<1>9. \A k \in Layers : Claims(k)' >= Claims(k) + One(k, l)
  BY <1>7, <1>8
<1> QED  BY <1>3, <1>5, <1>9 DEF ReasonsInv, ClaimAdded

LEMMA OpToggleAccounted ==
    ASSUME SwapToggleDisjoint, TypeOK, StructureInv, ReasonsInv, OpToggle  PROVE Accounted
<1> DEFINE l == call.d.layer
           on == layer_state[l].toggled = 0
           a == IF on THEN Activate(layer_state, l) ELSE Deactivate(layer_state, l)
           n == IF on THEN 1 ELSE 0
           ls == [a EXCEPT ![l].toggled = n]
           cleared == ClearOneshot(ls)
<1>1. /\ call.pc = "descriptor" /\ call.d.op \in ToggleOps /\ call.d.op \notin HoldOps /\ Return
      /\ pending_key' = pending_key
  BY DEF OpToggle, Executing, Done, ToggleOps, HoldOps
<1>2. /\ SetLayers(cleared) \/ layer_state' = layer_state
      /\ cache' = cache \/ (call.pressed /\ cache' = CacheLayer(cache, call.code, l))
  BY DEF OpToggle, layerVars
<1>3. l \in Layers /\ l \in ToggledLayers /\ layer_state \in Layering
  BY <1>1, DescriptorRuns, LayersTyped DEF Runnable
<1>4. a \in Layering /\ \A k \in Layers : a[k].toggled = layer_state[k].toggled
  <2>1. CASE on
    <3>1. a = Activate(layer_state, l)
      BY <2>1
    <3> HIDE DEF a
    <3> QED  BY <1>3, <3>1, ActivateType
  <2>2. CASE ~on
    <3>1. a = Deactivate(layer_state, l)
      BY <2>2
    <3> HIDE DEF a
    <3> QED  BY <1>3, <3>1, DeactivateType
  <2> QED  BY <2>1, <2>2
<1>5. n \in {0, 1}
  OBVIOUS
<1> HIDE DEF a, n
<1>6. ls \in Layering /\ \A k \in Layers : k # l => ls[k].toggled = layer_state[k].toggled
  BY <1>3, <1>4, <1>5 DEF Layering, LayerState
<1> HIDE DEF ls
<1>7. cleared \in Layering /\ \A k \in Layers : k # l => cleared[k].toggled = layer_state[k].toggled
  BY <1>6, ClearOneshotType
<1> HIDE DEF cleared
<1>8. ToggledKnown'
  <2>1. CASE SetLayers(cleared)
    BY <1>3, <1>7, <2>1, ToggledKept DEF ReasonsInv
  <2>2. CASE layer_state' = layer_state
    BY <2>2, ToggledSteps DEF ReasonsInv
  <2> QED  BY <1>2, <2>1, <2>2
<1>9. CASE cache' = cache
  BY <1>1, <1>8, <1>9, PlainAccounted
<1>10. CASE call.pressed /\ cache' = CacheLayer(cache, call.code, l)
  <2>1. /\ Touched
        /\ \A i \in Slots :
              \/ cache'[i] = cache[i] /\ (call.code = NoKey \/ cache[i].code # call.code)
              \/ /\ call.code # NoKey /\ cache[i].code = call.code /\ cache'[i].code = call.code
                 /\ cache'[i].d = cache[i].d /\ cache'[i].layer = l
    BY <1>1, <1>3, <1>10, CacheLayerTouched
  <2>2. /\ PressKept' /\ RecacheKept' /\ NestedOnce' /\ PendingKept' /\ KeyPassed' /\ ~Pressing'
    BY <1>1, <2>1, ReturnKept
  <2>3. ~SwapHome(l) /\ Pressing
    BY <1>1, <1>3, <1>10 DEF SwapToggleDisjoint, Pressing
  <2>4. LayerHeld'
    BY <1>1, <2>1, <2>3 DEF ReasonsInv, LayerHeld
  <2>5. ASSUME NEW k \in Layers
        PROVE  Claimants(k) \subseteq Claimants(k)' /\ Finishing(k)' >= Finishing(k)
    <3>1. Finishing(k) = 0 /\ Finishing(k)' \in {0, 1}
      BY <2>3 DEF Finishing, Releasing, Pressing
    <3>2. \A i \in Slots : cache'[i] = cache[i] \/ (Pressing /\ cache[i].code = call.code)
      BY <2>1, <2>3
    <3> QED  BY <1>1, <2>2, <3>1, <3>2, ReturnClaimants
  <2> QED  BY <1>8, <2>2, <2>4, <2>5, ClaimsStay DEF ReasonsInv, Accounted
<1> QED  BY <1>2, <1>9, <1>10


-----------------------------------------------------------------------------
(* Swaps.                                                                  *)

\* A swap finds no layer toggled that it is bound in.
LEMMA NoSwapOfToggle ==
    ASSUME SwapToggleDisjoint, TypeOK, ToggledKnown, NEW dl \in Layers, SwapHome(dl)
    PROVE  layer_state[dl].toggled # 1
  BY DEF SwapToggleDisjoint, ToggledKnown

LEMMA SwapOfKeyAccounted ==
    ASSUME TypeOK, StructureInv, ReasonsInv, SwapPressed, SwapOfKey(call.dl, call.d.layer)
    PROVE  ReasonsInv' /\ ClaimPassed(call.dl, call.d.layer)
<1> DEFINE l == call.d.layer
           dl == call.dl
<1>1. /\ call.pc = "descriptor" /\ call.pressed /\ Return /\ Pressing
      /\ dl \in Layers /\ l \in Layers /\ SwapHome(dl) /\ pending_key' = pending_key
  BY SwapPressedSteps DEF Pressing
<1>2. PICK i \in SwappedSlot :
         cache' = [cache EXCEPT ![i].d.op = "layer", ![i].d.layer = l, ![i].layer = l]
  BY DEF SwapOfKey
<1>3. i \in Slots /\ cache[i].code # NoKey /\ cache[i].layer = dl /\ dl # 0
  BY DEF SwappedSlot, Swappable
<1>4. /\ \A j \in Slots : j # i => cache'[j] = cache[j]
      /\ cache'[i].code = cache[i].code /\ Holds(cache'[i].d, l) /\ cache'[i].layer = l
  <2> DEFINE e == cache[i]
             d == e.d
             d1 == [d EXCEPT !.op = "layer", !.layer = l]
             e1 == [e EXCEPT !.d = d1, !.layer = l]
  <2>1. e \in Entry /\ d \in Runnable /\ cache \in [Slots -> Entry]
    BY <1>3, ModesTyped DEF Entry
  <2>2. cache' = [cache EXCEPT ![i] = e1]
    BY <1>2
  <2>3. d1.layer = l /\ d1.op = "layer"
    <3> HIDE DEF d
    <3> QED  BY <2>1 DEF Runnable, Descriptor
  <2>4. e1.code = e.code /\ e1.d = d1 /\ e1.layer = l
    <3> HIDE DEF e, d1
    <3> QED  BY <2>1 DEF Entry
  <2> HIDE DEF e1, d1
  <2> QED  BY <1>3, <2>1, <2>2, <2>3, <2>4 DEF Holds, HoldOps
<1>5. cache[i].code # call.code
  BY <1>1, <1>3 DEF StructureInv, FreshEntry
<1>6. Touched
  BY <1>3, <1>4, <1>5 DEF Touched
<1>7. /\ PressKept' /\ RecacheKept' /\ NestedOnce' /\ PendingKept' /\ KeyPassed' /\ ~Pressing'
  BY <1>1, <1>6, ReturnKept
<1>8. SetLayers(Swapped(dl, l))
  BY DEF SwapOfKey
<1>9. ToggledKnown'
  BY <1>1, <1>8, SwappedType, ToggledKept DEF ReasonsInv
<1>10. LayerHeld'
  BY <1>1, <1>4 DEF ReasonsInv, LayerHeld
<1>11. ASSUME NEW k \in Layers PROVE Claims(k)' >= Claims(k) - One(k, dl) + One(k, l)
  <2>1. Claimants(k) \ {i} \subseteq Claimants(k)'
    BY <1>1, <1>4, <1>7 DEF Claimants, ClaimsEntry
  <2>2. i \in Claimants(k) => k = dl
    BY <1>1, <1>3 DEF ReasonsInv, LayerHeld, Claimants, ClaimsEntry, Holds
  <2>3. k = l => i \in Claimants(k)'
    BY <1>3, <1>4, <1>7 DEF Claimants, ClaimsEntry
  <2>4. /\ Finishing(k) = 0 /\ Finishing(k)' \in {0, 1}
        /\ Claims(k) \in Nat /\ Claims(k)' \in Nat
    BY <1>1, ClaimsType, ClaimsTypeNext DEF Finishing, Releasing, Pressing
  <2>5. LET n == Finishing(k)' - Finishing(k) IN
        /\ Claimants(k) \subseteq Claimants(k)' =>
              /\ Claims(k)' >= Claims(k) + n
              /\ i \in Claimants(k)' /\ i \notin Claimants(k) => Claims(k)' >= Claims(k) + n + 1
        /\ Claims(k)' >= Claims(k) + n - 1
    BY <2>1, ClaimsAtLeast
  <2>6. CASE k = dl /\ k = l
    <3>1. Claimants(k) \subseteq Claimants(k)'
      BY <2>1, <2>3, <2>6
    <3> HIDE DEF l, dl
    <3> QED  BY <2>4, <2>5, <2>6, <3>1 DEF One
  <2>7. CASE k = dl /\ k # l
    <3> HIDE DEF l, dl
    <3> QED  BY <2>4, <2>5, <2>7 DEF One
  <2>8. CASE k # dl
    <3>1. Claimants(k) \subseteq Claimants(k)' /\ i \notin Claimants(k)
      BY <2>1, <2>2, <2>8
    <3> HIDE DEF l, dl
    <3> QED  BY <2>3, <2>4, <2>5, <2>8, <3>1 DEF One
  <2> QED  BY <2>6, <2>7, <2>8
<1> QED  BY <1>7, <1>9, <1>10, <1>11 DEF ReasonsInv, ClaimPassed

\* Any other swap changes no entry.
LEMMA SwapElseAccounted ==
    ASSUME TypeOK, StructureInv, ReasonsInv, SwapPressed,
           SwapOfOneshot(call.dl, call.d.layer) \/ SwapOfNothing
    PROVE  Accounted
<1>1. /\ call.pc = "descriptor" /\ call.d.op \notin HoldOps /\ Return
      /\ call.dl \in Layers /\ call.d.layer \in Layers /\ pending_key' = pending_key
      /\ cache' = cache
  BY SwapPressedSteps DEF SwapOfOneshot, SwapOfNothing
<1>2. CASE SwapOfOneshot(call.dl, call.d.layer)
  <2> DEFINE ls == SwappedOneshot(call.dl, call.d.layer)
  <2>1. /\ SetLayers(ls) /\ ls \in Layering
        /\ \A k \in Layers : ls[k].toggled = layer_state[k].toggled
    BY <1>1, <1>2, SwappedOneshotType DEF SwapOfOneshot
  <2> HIDE DEF ls
  <2>2. ToggledKnown'
    BY <2>1, ToggledKept DEF ReasonsInv
  <2> QED  BY <1>1, <2>2, PlainAccounted
<1>3. CASE SwapOfNothing
  <2>1. ToggledKnown'
    BY <1>3, ToggledSteps DEF ReasonsInv, SwapOfNothing
  <2> QED  BY <1>1, <2>1, PlainAccounted
<1> QED  BY <1>2, <1>3

-----------------------------------------------------------------------------
(* The actions that run another one for their key.                         *)

\* process_descriptor presses the action of a tap or of an overloadi.
LEMMA NestedAccounted ==
    ASSUME TypeOK, StructureInv, ReasonsInv, call.pc = "descriptor",
           NEW d, NEW k,
           CallThen(ProcessDescriptor(call.code, d, call.dl, TRUE, call.time), <<k>>),
           cache' = cache, pending_key' = pending_key,
           \A i \in DOMAIN callers : ~InDescriptor(callers[i]),
           call.code = NoKey \/ call.code # pending_key.code
    PROVE  /\ call'.pc = "descriptor" /\ call'.pressed = TRUE /\ call'.d = d
           /\ call'.code = call.code
           /\ callers' # <<>> /\ callers'[1] = k
           /\ RecacheKept' /\ NestedOnce' /\ PendingKept' /\ KeyPassed' /\ LayerHeld'
<1> DEFINE all == <<k>> \o callers
<1>1. /\ call'.pc = "descriptor" /\ call'.code = call.code /\ call'.d = d /\ call'.pressed = TRUE
      /\ callers' = all
  BY DEF CallThen, ProcessDescriptor
<1>2. /\ all # <<>> /\ all[1] = k
      /\ \A i \in DOMAIN all : i = 1 \/ (i - 1 \in DOMAIN callers /\ all[i] = callers[i - 1])
  <2>1. /\ callers \in Seq(Frame) /\ Len(callers) \in Nat
    BY StackTyped
  <2>2. <<k>> \in Seq({k}) /\ Len(<<k>>) = 1 /\ <<k>>[1] = k
    OBVIOUS
  <2>3. /\ Len(all) = 1 + Len(callers)
        /\ \A i \in 1 .. 1 + Len(callers) : all[i] = IF i <= 1 THEN <<k>>[i] ELSE callers[i - 1]
    BY <2>1, <2>2
  <2>4. DOMAIN all = 1 .. 1 + Len(callers) /\ DOMAIN callers = 1 .. Len(callers)
    BY <2>1, <2>3
  <2>5. all # <<>>
    BY <2>1, <2>4
  <2> HIDE DEF all
  <2> QED  BY <2>1, <2>2, <2>3, <2>4, <2>5
<1> HIDE DEF all
<1>3. NestedOnce'
  BY <1>1, <1>2 DEF NestedOnce, Pressing
<1>4. RecacheKept' /\ KeyPassed' /\ LayerHeld'
  BY <1>1 DEF ReasonsInv, RecacheKept, KeyPassed, LayerHeld
<1>5. PendingKept'
  <2> SUFFICES ASSUME pending_key.code # NoKey PROVE PendingKept'
    BY DEF PendingKept
  <2>1. /\ pending_key.code \in CachedCodes
        /\ \A i \in Slots : cache[i].code = pending_key.code =>
                               cache[i].layer = 0 /\ cache[i].d.op \notin HoldOps
    BY DEF ReasonsInv, PendingKept
  <2> QED  BY <1>1, <2>1 DEF PendingKept, CachedCodes
<1> QED  BY <1>1, <1>2, <1>3, <1>4, <1>5

LEMMA OpOverloadIdleAccounted ==
    ASSUME ChoicesAreFinal, TypeOK, StructureInv, ReasonsInv, OpOverloadIdle  PROVE Accounted
<1> DEFINE a == IF call.time - recent.last_simple_key_time >= call.d.timeout
                THEN call.d.act2 ELSE call.d.act
           action == DescTable[a]
           k == Recache(call.code, action)
<1>1. /\ call.pc = "descriptor" /\ call.d.op = "overloadi" /\ layer_state' = layer_state
      /\ cache' = cache /\ pending_key' = pending_key
  BY DEF OpOverloadIdle, Executing, keyVars, layerVars
<1>2. call.d.op \notin HoldOps /\ call.d.op \in WaitingOps
  BY <1>1 DEF HoldOps, WaitingOps
<1>3. ToggledKnown'
  BY <1>1, ToggledSteps DEF ReasonsInv
<1>4. CASE ~call.pressed
  BY <1>1, <1>2, <1>3, <1>4, PlainAccounted DEF OpOverloadIdle
<1>5. CASE call.pressed
  <2>1. CallThen(ProcessDescriptor(call.code, action, call.dl, TRUE, call.time), <<k>>)
    BY <1>5 DEF OpOverloadIdle
  <2>2. action.op # "overloadi"
    <3>1. a \in IdleActs
      BY <1>1, DescriptorRuns DEF Runnable
    <3> QED  BY <3>1 DEF ChoicesAreFinal
  <2>3. /\ Pressing /\ call.code \in CachedCodes /\ ~InDescriptor(callers[1])
        /\ \A i \in DOMAIN callers : ~InDescriptor(callers[i])
    BY <1>1, <1>2, <1>5 DEF ReasonsInv, PressKept, TapInProgress, EntryInPlace, NestedOnce, Pressing
  <2>4. call.code # pending_key.code
    BY <2>3 DEF ReasonsInv, PendingKept, CachedCodes
  <2>5. k = Recache(call.code, action)
    OBVIOUS
  <2> HIDE DEF a, action, k
  <2>6. /\ call'.pc = "descriptor" /\ call'.pressed = TRUE /\ call'.d = action
        /\ call'.code = call.code /\ callers' # <<>> /\ callers'[1] = k
        /\ RecacheKept' /\ NestedOnce' /\ PendingKept' /\ KeyPassed' /\ LayerHeld'
    BY <1>1, <2>1, <2>3, <2>4, NestedAccounted
  <2>7. PressKept'
    BY <1>1, <2>2, <2>3, <2>5, <2>6 DEF PressKept, EntryInPlace, CachedCodes
  <2>8. ASSUME NEW j \in Layers
        PROVE  Claimants(j) \subseteq Claimants(j)' /\ Finishing(j)' >= Finishing(j)
    <3>1. Finishing(j) = 0 /\ Finishing(j)' = 0
      BY <1>5, <2>6 DEF Finishing, Releasing
    <3> QED  BY <1>1, <1>5, <2>6, <3>1 DEF Claimants, ClaimsEntry, Pressing
  <2> QED  BY <1>3, <2>6, <2>7, <2>8, ClaimsStay DEF ReasonsInv, Accounted
<1> QED  BY <1>4, <1>5

\* The layer of the overload is given back before its tap runs.
LEMMA OverloadReleasedAccounted ==
    ASSUME TapsAreFinal, TypeOK, StructureInv, ReasonsInv, OverloadReleased
    PROVE  ReasonsInv' /\ ClaimPaid(call.d.layer)
<1> DEFINE action == DescTable[call.d.act]
           k == ProcessDescriptor(call.code, action, call.dl, FALSE, call.time)
<1>1. /\ call.pc = "descriptor" /\ call.d.op = "overload" /\ ~call.pressed
      /\ cache' = cache /\ pending_key' = pending_key
      /\ SetLayers(Deactivate(layer_state, call.d.layer))
      /\ \/ Return
         \/ CallThen(ProcessDescriptor(call.code, action, call.dl, TRUE, call.time), <<k>>)
  BY DEF OverloadReleased, Executing, keyVars
<1>2. call.d \in Runnable /\ call.d.layer \in Layers
  BY <1>1, DescriptorRuns
<1>3. ToggledKnown'
  BY <1>1, <1>2, ToggledSteps DEF ReasonsInv
<1>4. CASE Return
  BY <1>1, <1>3, <1>4, ReleasedAccounted
<1>5. CASE CallThen(ProcessDescriptor(call.code, action, call.dl, TRUE, call.time), <<k>>)
  <2>1. action.op \notin WaitingOps
    <3>1. PICK d \in ConfigDescs : d.op = "overload" /\ call.d.act = d.act
      BY <1>1, <1>2 DEF Runnable, TapActs
    <3> QED  BY <3>1 DEF TapsAreFinal
  <2>2. Releases(k) /\ k.code = call.code /\ k.d = action
    BY DEF ProcessDescriptor, Releases
  <2>3. /\ NotCached(call.code) /\ ~Pressing
        /\ \A i \in DOMAIN callers : ~InDescriptor(callers[i])
    BY <1>1 DEF StructureInv, StackInv, ReleasedNotCached, Releasing, Pressing, ReasonsInv, NestedOnce
  <2>4. call.code = NoKey \/ call.code # pending_key.code
    BY <2>3 DEF ReasonsInv, PendingKept, CachedCodes, NotCached
  <2> HIDE DEF action, k
  <2>5. /\ call'.pc = "descriptor" /\ call'.pressed = TRUE /\ call'.d = action
        /\ call'.code = call.code /\ callers' # <<>> /\ callers'[1] = k
        /\ RecacheKept' /\ NestedOnce' /\ PendingKept' /\ KeyPassed' /\ LayerHeld'
    BY <1>1, <1>5, <2>3, <2>4, NestedAccounted
  <2>6. PressKept'
    BY <2>1, <2>2, <2>5 DEF PressKept, TapInProgress
  <2>7. ASSUME NEW j \in Layers PROVE Claims(j)' >= Claims(j) - One(j, call.d.layer)
    <3>1. Claimants(j) \subseteq Claimants(j)'
      BY <1>1, <2>3, <2>5 DEF Claimants, ClaimsEntry, Pressing, NotCached
    <3>2. /\ Finishing(j)' = 0 /\ Finishing(j) \in {0, 1}
          /\ Finishing(j) <= One(j, call.d.layer) /\ One(j, call.d.layer) \in {0, 1}
      BY <2>5 DEF Finishing, Releasing, Holds, One
    <3>3. Claims(j)' >= Claims(j) + (Finishing(j)' - Finishing(j))
      BY <3>1, ClaimsAtLeast
    <3>4. Claims(j) \in Nat /\ Claims(j)' \in Nat
      BY ClaimsType, ClaimsTypeNext
    <3> QED  BY <3>2, <3>3, <3>4
  <2> QED  BY <1>3, <2>5, <2>6, <2>7 DEF ReasonsInv, ClaimPaid
<1> QED  BY <1>1, <1>4, <1>5

\* The entry of the key gets the choice of the overloadi, and its claim.
LEMMA RecacheActionAccounted ==
    ASSUME TypeOK, StructureInv, ReasonsInv, RecacheAction  PROVE Accounted
<1>1. /\ call.pc = "recache" /\ Return /\ layer_state' = layer_state
      /\ pending_key' = pending_key /\ ~Pressing
  BY DEF RecacheAction, layerVars, Pressing
<1>2. ASSUME NEW i \in Slots
      PROVE  /\ cache'[i].code = cache[i].code /\ cache'[i].layer = cache[i].layer
             /\ cache'[i].d = IF cache[i].code = call.code THEN call.d ELSE cache[i].d
  <2> DEFINE e == cache[i]
             e1 == cache'[i]
  <2>1. e \in Entry
    BY ModesTyped
  <2>2. e1 = IF e.code = call.code THEN [e EXCEPT !.d = call.d] ELSE e
    BY DEF RecacheAction
  <2> HIDE DEF e, e1
  <2>3. /\ e1.code = e.code /\ e1.layer = e.layer
        /\ e1.d = IF e.code = call.code THEN call.d ELSE e.d
    BY <2>1, <2>2 DEF Entry
  <2> QED  BY <2>3 DEF e, e1
<1>3. ~InDescriptor(call') /\ NestedOnce' /\ KeyPassed'
  BY <1>1, ReturnTo DEF InDescriptor
<1>4. CachedCodes' = CachedCodes
  BY <1>2 DEF CachedCodes
<1>5. \A i \in Slots : cache[i].code = call.code => cache[i].d = call.d \/ cache[i].d.op \notin HoldOps
  BY <1>1 DEF ReasonsInv, RecacheKept
<1>6. ToggledKnown'
  BY <1>1, ToggledSteps DEF ReasonsInv
<1>7. LayerHeld'
  <2>1. \A i \in Slots : cache[i].code # NoKey /\ cache[i].layer # 0 /\ SwapHome(cache[i].layer) =>
            \/ Holds(cache[i].d, cache[i].layer)
            \/ call.code = cache[i].code /\ Holds(call.d, cache[i].layer)
    BY DEF ReasonsInv, LayerHeld
  <2> QED  BY <1>2, <1>5, <2>1 DEF LayerHeld, Holds
<1>8. PressKept' /\ RecacheKept'
  BY <1>3 DEF PressKept, RecacheKept, Pressing, InDescriptor
<1>9. PendingKept'
  <2> SUFFICES ASSUME pending_key.code # NoKey PROVE PendingKept'
    BY <1>1 DEF PendingKept
  <2>1. /\ pending_key.code \in CachedCodes
        /\ \A i \in Slots : cache[i].code = pending_key.code =>
                               cache[i].layer = 0 /\ cache[i].d.op \notin HoldOps
        /\ call.code = pending_key.code => call.d.op \notin HoldOps
    BY <1>1 DEF ReasonsInv, PendingKept
  <2> QED  BY <1>1, <1>2, <1>3, <1>4, <2>1 DEF PendingKept, Pressing, InDescriptor
<1>10. ASSUME NEW k \in Layers
       PROVE  Claimants(k) \subseteq Claimants(k)' /\ Finishing(k)' >= Finishing(k)
  <2>1. Finishing(k) = 0 /\ Finishing(k)' \in {0, 1}
    BY <1>1 DEF Finishing, Releasing
  <2>2. ASSUME NEW i \in Slots, ClaimsEntry(i, k) PROVE ClaimsEntry(i, k)'
    <3>1. /\ cache[i].code # NoKey
          /\ \/ Holds(cache[i].d, k)
             \/ cache[i].layer = k /\ SwapHome(k) /\ k # 0
             \/ call.code = cache[i].code /\ Holds(call.d, k)
      BY <2>2 DEF ClaimsEntry
    <3>2. \/ Holds(cache'[i].d, k)
          \/ cache'[i].layer = k /\ SwapHome(k) /\ k # 0
      BY <1>2, <1>5, <3>1 DEF Holds
    <3> QED  BY <1>2, <1>3, <3>1, <3>2 DEF ClaimsEntry, Pressing, InDescriptor
  <2> QED  BY <2>1, <2>2 DEF Claimants
<1> QED  BY <1>3, <1>6, <1>7, <1>8, <1>9, <1>10, ClaimsStay DEF ReasonsInv, Accounted

-----------------------------------------------------------------------------
(* The other actions of process_descriptor.                                *)

LEMMA PlainOpsAccounted ==
    ASSUME TypeOK, StructureInv, ReasonsInv,
           \/ OpKeySequence \/ OpScroll \/ OpOverloadTimeout \/ OpTimeout \/ OpMacro \/ OpCommand
           \/ OpClear \/ OpLayout \/ SwapReleased
    PROVE  Accounted
<1>1. /\ call.pc = "descriptor" /\ call.d.op \notin HoldOps /\ Return /\ cache' = cache
  BY DEF OpKeySequence, OpScroll, OpOverloadTimeout, OpTimeout, OpMacro, OpCommand, OpClear,
         OpLayout, SwapReleased, Executing, Done, keyVars, HoldOps, SwapOps
<1>2. \/ pending_key' = pending_key
      \/ /\ call.pressed /\ call.d.op \in WaitingOps
         /\ \E behaviour, expire, a1, a2 : BecomePending(behaviour, expire, a1, a2)
  BY DEF OpKeySequence, OpScroll, OpOverloadTimeout, OpTimeout, OpMacro, OpCommand, OpClear,
         OpLayout, SwapReleased, Executing, keyVars, WaitingOps, TapHoldOps
<1>3. \/ pending_key'.code = pending_key.code
      \/ pending_key'.code = call.code /\ call.pressed /\ call.d.op \in WaitingOps
  <2>1. ASSUME NEW behaviour, NEW expire, NEW a1, NEW a2, BecomePending(behaviour, expire, a1, a2)
        PROVE  pending_key'.code = call.code
    <3>1. pending_key \in Pending
      BY DEF TypeOK, KeysOK
    <3> QED  BY <2>1, <3>1 DEF BecomePending, Pending
  <2> QED  BY <1>2, <2>1
<1>4. ToggledKnown'
  <2>1. \/ SetLayers(ClearOneshot(layer_state)) \/ layer_state' = layer_state
        \/ SetLayers(ClearLayers(layer_state))
        \/ call.d.op = "layout" /\ SetLayers(SetLayoutLayers(layer_state, call.d.layer))
    BY DEF OpKeySequence, OpScroll, OpOverloadTimeout, OpTimeout, OpMacro, OpCommand, OpClear,
           OpLayout, SwapReleased, Executing, layerVars
  <2> QED  BY <1>1, <2>1, DescriptorRuns, ToggledSteps DEF ReasonsInv
<1> QED  BY <1>1, <1>3, <1>4, PlainAccounted

\* A key that holds a layer goes down or up.
LEMMA HoldOpsAccounted ==
    ASSUME TypeOK, StructureInv, ReasonsInv,
           OpLayer \/ OverloadPressed \/ OneshotPressed \/ OneshotReleased
    PROVE  ReasonsInv' /\ IF call.pressed THEN ClaimAdded(call.d.layer) ELSE ClaimPaid(call.d.layer)
<1> DEFINE l == call.d.layer
           ls == [layer_state EXCEPT ![l].oneshot_depth = (@ + 1) % CounterSize]
<1>1. /\ call.pc = "descriptor" /\ call.d.op \in HoldOps /\ Return /\ pending_key' = pending_key
      /\ cache' = IF call.pressed THEN CacheLayer(cache, call.code, l) ELSE cache
      /\ SetLayers(Activate(layer_state, l)) \/ SetLayers(Deactivate(layer_state, l)) \/ SetLayers(ls)
  BY DEF OpLayer, OverloadPressed, OneshotPressed, OneshotReleased, Executing, Done, keyVars, HoldOps
<1>2. l \in Layers /\ layer_state \in Layering
  BY <1>1, DescriptorRuns, LayersTyped
<1>3. ls \in Layering /\ \A k \in Layers : ls[k].toggled = layer_state[k].toggled
  <2> DEFINE s == layer_state
             n == (s[l].oneshot_depth + 1) % CounterSize
  <2>1. n \in Nat
    BY <1>2, SizesAssumption DEF Layering, LayerState
  <2>2. ls = [s EXCEPT ![l].oneshot_depth = n] /\ s \in Layering
    BY <1>2
  <2> HIDE DEF ls, s, l, n
  <2>3. ls \in Layering /\ \A k \in Layers : ls[k].toggled = s[k].toggled
    BY <1>2, <2>1, <2>2 DEF Layering, LayerState
  <2> QED  BY <2>3 DEF s
<1> HIDE DEF ls
<1>4. ToggledKnown'
  BY <1>1, <1>2, <1>3, ToggledKept, ToggledSteps DEF ReasonsInv
<1>5. pending_key'.code = pending_key.code
  BY <1>1
<1>6. CASE call.pressed
  BY <1>1, <1>4, <1>5, <1>6, PressedAccounted
<1>7. CASE ~call.pressed
  BY <1>1, <1>4, <1>5, <1>7, ReleasedAccounted
<1> QED  BY <1>6, <1>7

-----------------------------------------------------------------------------
(* No step makes a layer active for nothing.                               *)

\* Activations and claims that move together leave every activation explained.
LEMMA ExplainStep ==
    ASSUME TypeOK, TypeOK', AllExplained, NEW dl, NEW l,
           \/ ExcessKept /\ NoLostClaims
           \/ ExcessMore(l) /\ ClaimAdded(l)
           \/ ExcessLess(l) /\ ClaimPaid(l)
           \/ ExcessMoved(dl, l) /\ ClaimPassed(dl, l)
    PROVE  AllExplained'
<1>1. ASSUME NEW k \in Layers, IsTarget(k) PROVE Explained(k)'
  <2>1. /\ Excess(layer_state, k) \in Int /\ Claims(k) \in Nat /\ Claims(k)' \in Nat
        /\ Excess(layer_state, k) <= Claims(k)
        /\ One(k, l) \in {0, 1} /\ One(k, dl) \in {0, 1}
    BY <1>1, LayerFields, ClaimsTypeNext DEF AllExplained, Explained, One
  <2>2. CASE ExcessKept /\ NoLostClaims
    <3>1. Excess(layer_state', k) = Excess(layer_state, k) /\ Claims(k)' >= Claims(k)
      BY <2>2 DEF ExcessKept, NoLostClaims
    <3> QED  BY <2>1, <3>1 DEF Explained
  <2>3. CASE ExcessMore(l) /\ ClaimAdded(l)
    BY <2>1, <2>3 DEF ExcessMore, ClaimAdded, Explained
  <2>4. CASE ExcessLess(l) /\ ClaimPaid(l)
    BY <2>1, <2>4 DEF ExcessLess, ClaimPaid, Explained
  <2>5. CASE ExcessMoved(dl, l) /\ ClaimPassed(dl, l)
    BY <2>1, <2>5 DEF ExcessMoved, ClaimPassed, Explained
  <2> QED  BY <2>2, <2>3, <2>4, <2>5, <1>1
<1> QED  BY <1>1 DEF AllExplained

LEMMA OpLayoutExplained ==
    ASSUME TypeOK, TypeOK', StructureInv, AllCovered, AllExplained, NoLostClaims, OpLayout
    PROVE  AllExplained'
<1>1. ASSUME NEW l \in Layers, IsTarget(l) PROVE Explained(l)'
  <2>1. /\ Excess(layer_state, l) \in Int /\ Claims(l) \in Nat /\ Claims(l)' \in Nat
        /\ Excess(layer_state, l) <= Claims(l) /\ Claims(l)' >= Claims(l)
        /\ Excess(layer_state', l) = Excess(layer_state, l)
    BY <1>1, LayerFields, ClaimsTypeNext, OpLayoutExcess DEF AllExplained, Explained, NoLostClaims
  <2> QED  BY <2>1 DEF Explained
<1> QED  BY <1>1 DEF AllExplained

LEMMA SwapPressedExplained ==
    ASSUME SwapToggleDisjoint, TypeOK, TypeOK', StructureInv, ReasonsInv, CountersBelow,
           AllCovered, AllExplained, SwapPressed
    PROVE  ReasonsInv' /\ AllExplained'
<1> DEFINE l == call.d.layer
           dl == call.dl
<1>1. /\ dl \in Layers /\ l \in Layers /\ layer_state[dl].toggled # 1
      /\ SwapOfOneshot(dl, l) \/ SwapOfKey(dl, l) \/ SwapOfNothing
  BY SwapPressedSteps, NoSwapOfToggle DEF ReasonsInv
<1>2. CASE SwapOfOneshot(dl, l) \/ SwapOfNothing
  <2>1. Accounted
    BY <1>2, SwapElseAccounted
  <2>2. \/ layer_state[dl].oneshot_depth > 0 /\ SetLayers(SwappedOneshot(dl, l))
        \/ layer_state' = layer_state
    BY <1>2 DEF SwapOfOneshot, SwapOfNothing
  <2> HIDE DEF l, dl
  <2>3. ExcessKept
    BY <1>1, <2>2, SwapOfOneshotExcess, ClearOneshotExcess
  <2> QED  BY <2>1, <2>3, ExplainStep DEF Accounted
<1>3. CASE SwapOfKey(dl, l)
  <2>1. ReasonsInv' /\ ClaimPassed(dl, l) /\ Claims(dl) > 0 /\ SetLayers(Swapped(dl, l))
    BY <1>3, SwapOfKeyAccounted, SwapOfKeyClaims DEF SwapOfKey
  <2> HIDE DEF l, dl
  <2> QED  BY <1>1, <2>1, SwapOfKeyExcess, ExplainStep
<1> QED  BY <1>1, <1>2, <1>3

LEMMA StepReasons ==
    ASSUME SwapToggleDisjoint, TapsAreFinal, ChoicesAreFinal, TypeOK, StructureInv, ReasonsInv, Next
    PROVE  ReasonsInv'
<1>1. CASE Looping \/ ChordHandler \/ Holding \/ Binding \/ Environment
  BY <1>1, LoopingAccounted, ChordHandlerAccounted, NotPendingAccounted, PendingKeyAccounted,
     TimersAccounted, KeyPressedAccounted, KeyReleasedAccounted, EnvironmentAccounted
     DEF Holding, Binding, Accounted
<1>2. CASE SwapPressed
  <2>1. /\ layer_state[call.dl].toggled # 1
        /\ \/ SwapOfOneshot(call.dl, call.d.layer) \/ SwapOfKey(call.dl, call.d.layer)
           \/ SwapOfNothing
    BY <1>2, SwapPressedSteps, NoSwapOfToggle DEF ReasonsInv
  <2> QED  BY <1>2, <2>1, SwapElseAccounted, SwapOfKeyAccounted DEF Accounted
<1>3. CASE Op /\ ~SwapPressed
  BY <1>3, PlainOpsAccounted, HoldOpsAccounted, OpToggleAccounted, OpOverloadIdleAccounted,
     OverloadReleasedAccounted, RecacheActionAccounted DEF Op, Accounted
<1> QED  BY <1>1, <1>2, <1>3 DEF Next, Engine

LEMMA StepExplained ==
    ASSUME SwapToggleDisjoint, TapsAreFinal, ChoicesAreFinal, TypeOK, TypeOK', StructureInv,
           ReasonsInv, CountersBelow, AllCovered, AllExplained, Next
    PROVE  AllExplained'
<1>1. CASE Looping \/ ChordHandler \/ Holding \/ Binding \/ Environment
  <2>1. NoLostClaims
    BY <1>1, LoopingAccounted, ChordHandlerAccounted, NotPendingAccounted, PendingKeyAccounted,
       TimersAccounted, KeyPressedAccounted, KeyReleasedAccounted, EnvironmentAccounted
       DEF Holding, Binding, Accounted
  <2> QED  BY <1>1, <2>1, PlainExcess, ExplainStep
<1>2. CASE OpKeySequence \/ OpScroll \/ OpOverloadIdle \/ RecacheAction \/ OpOverloadTimeout
             \/ OpTimeout \/ OpMacro \/ OpCommand \/ SwapReleased
  <2>1. NoLostClaims
    BY <1>2, PlainOpsAccounted, OpOverloadIdleAccounted, RecacheActionAccounted DEF Accounted
  <2> QED  BY <1>2, <2>1, PlainExcess, ExplainStep
<1>3. CASE OpClear \/ OpToggle
  <2>1. NoLostClaims /\ ExcessKept
    BY <1>3, PlainOpsAccounted, OpToggleAccounted, OpClearExcess, OpToggleExcess DEF Accounted
  <2> QED  BY <2>1, ExplainStep
<1>4. CASE OpLayout
  <2>1. NoLostClaims
    BY <1>4, PlainOpsAccounted DEF Accounted
  <2> QED  BY <1>4, <2>1, OpLayoutExplained
<1>5. CASE OpLayer \/ OverloadPressed \/ OverloadReleased \/ OneshotPressed \/ OneshotReleased
  <2> DEFINE l == call.d.layer
  <2>1. IF call.pressed THEN ClaimAdded(l) ELSE ClaimPaid(l)
    BY <1>5, HoldOpsAccounted, OverloadReleasedAccounted DEF OverloadReleased
  <2>2. IF call.pressed THEN ExcessMore(l) ELSE ExcessLess(l)
    BY <1>5, HoldExcess
  <2> HIDE DEF l
  <2> QED  BY <2>1, <2>2, ExplainStep
<1>6. CASE SwapPressed
  BY <1>6, SwapPressedExplained
<1> QED  BY <1>1, <1>2, <1>3, <1>4, <1>5, <1>6 DEF Next, Engine, Op

-----------------------------------------------------------------------------
LEMMA InitAccount == Init => AccountInv
<1> SUFFICES ASSUME Init PROVE AccountInv
  OBVIOUS
<1>1. TypeOK
  BY InitType
<1>2. /\ \A i \in Slots : cache[i].code = NoKey
      /\ pending_key.code = NoKey /\ call.pc = "idle" /\ callers = <<>>
      /\ \A l \in Layers : /\ layer_state[l].toggled = 0 /\ layer_state[l].oneshot_depth = 0
                           /\ IsTarget(l) => layer_state[l].active = 0
  BY LayersAssumption DEF Init, EmptySlot, NoPending, IdleCall, IsTarget
<1>3. ReasonsInv
  BY <1>2 DEF ReasonsInv, ToggledKnown, LayerHeld, PressKept, RecacheKept, NestedOnce,
              PendingKept, KeyPassed, Pressing
<1>4. ASSUME NEW l \in Layers, IsTarget(l) PROVE Explained(l)
  <2>1. Excess(layer_state, l) = 0 /\ Claims(l) \in Nat
    BY <1>1, <1>2, <1>4, ClaimsType DEF Excess
  <2> QED  BY <2>1 DEF Explained
<1> QED  BY <1>3, <1>4 DEF AccountInv

LEMMA SameAccount ==
    ASSUME AccountInv, UNCHANGED vars  PROVE AccountInv'
<1>1. /\ layer_state' = layer_state /\ cache' = cache /\ pending_key' = pending_key
      /\ call' = call /\ callers' = callers /\ saturated' = saturated
  BY DEF vars, layerVars, keyVars, stackVars
<1>2. \A l \in Layers : Claimants(l)' = Claimants(l) /\ Finishing(l)' = Finishing(l)
  BY <1>1 DEF Claimants, ClaimsEntry, Finishing, Pressing, Releasing
<1>3. PressKept <=> PressKept'
  BY <1>1 DEF PressKept, TapInProgress, EntryInPlace, CachedCodes, Pressing
<1>4. RecacheKept <=> RecacheKept'
  BY <1>1 DEF RecacheKept, CachedCodes
<1>5. PendingKept <=> PendingKept'
  BY <1>1 DEF PendingKept, CachedCodes, Pressing
<1>6. (ToggledKnown <=> ToggledKnown') /\ (LayerHeld <=> LayerHeld') /\ (KeyPassed <=> KeyPassed')
      /\ (NestedOnce <=> NestedOnce')
  BY <1>1 DEF ToggledKnown, LayerHeld, KeyPassed, NestedOnce, Pressing
<1>7. \A l \in Layers : Explained(l) <=> Explained(l)'
  BY <1>1, <1>2 DEF Explained, Claims
<1> QED  BY <1>1, <1>3, <1>4, <1>5, <1>6, <1>7 DEF AccountInv, ReasonsInv

LEMMA NextAccount ==
    ASSUME SwapToggleDisjoint, TapsAreFinal, ChoicesAreFinal
    PROVE  IInv /\ AccountInv /\ [Next]_vars => AccountInv'
<1> SUFFICES ASSUME IInv, AccountInv, [Next]_vars PROVE AccountInv'
  OBVIOUS
<1>1. TypeOK /\ TypeOK' /\ StructureInv /\ ClaimsInv /\ ReasonsInv
  BY NextType DEF IInv, AccountInv
<1>2. CASE Next
  <2>1. saturated' = (saturated \/ CounterFull(layer_state'))
    BY <1>2, StepAsserts DEF Asserts
  <2>2. ReasonsInv'
    BY <1>1, <1>2, StepReasons
  <2>3. ASSUME ~saturated' PROVE AllExplained'
    <3>1. CountersBelow /\ AllCovered /\ AllExplained
      BY <1>1, <2>1, <2>3 DEF ClaimsInv, AccountInv, AllCovered, AllExplained
    <3> QED  BY <1>1, <1>2, <3>1, StepExplained
  <2> QED  BY <2>2, <2>3 DEF AccountInv, AllExplained
<1>3. CASE UNCHANGED vars
  BY <1>3, SameAccount
<1> QED  BY <1>2, <1>3

\* While the engine is idle the claims on a layer are those of the keys that hold it.
LEMMA IdleClaims ==
    ASSUME TypeOK, LayerHeld, Idle, NEW l \in Layers
    PROVE  Claims(l) = Cardinality(Holders(l))
<1>1. call.pc = "idle"
  BY DEF Idle, IdleCall
<1>2. Claimants(l) = Holders(l)
  BY <1>1 DEF Claimants, ClaimsEntry, Holders, Holds, Pressing, LayerHeld
<1>3. Finishing(l) = 0 /\ Claims(l) \in Nat /\ IsFiniteSet(Claimants(l))
  BY <1>1, ClaimsType DEF Finishing, Releasing
<1>4. Cardinality(Claimants(l)) \in Nat
  BY <1>3, FS_CardinalityType
<1> QED  BY <1>2, <1>3, <1>4 DEF Claims

-----------------------------------------------------------------------------
(* The theorems.                                                           *)

LEMMA InitInv == Init => IInv
<1> SUFFICES ASSUME Init PROVE IInv
  OBVIOUS
<1>1. TypeOK
  BY InitType
<1>2. /\ \A i \in Slots : cache[i].code = NoKey /\ cache[i].layer = 0
      /\ \A i \in ChordSlots : active_chords[i].d.op = "none"
      /\ pending_key.code = NoKey /\ call.pc = "idle" /\ callers = <<>>
      /\ \A l \in Layers : /\ layer_state[l].active \in {0, 1} /\ layer_state[l].toggled = 0
                           /\ layer_state[l].oneshot_depth = 0
  BY DEF Init, EmptySlot, NoDesc, NoPending, IdleCall
<1>3. DOMAIN callers = {}
  BY <1>2
<1>4. StackInv /\ ~Pressing /\ ~Releasing
  BY <1>2, <1>3 DEF StackInv, Innermost, ReleasedNotCached, KeyKnown, ClaimingIsNext,
                    Pressing, Releasing, InDescriptor
<1>5. SwapsAtHome
  BY <1>2, <1>4 DEF SwapsAtHome, SwapRuns, SwapsPending, SwapsChorded, SwapAtHome, SwapOps
<1>6. StructureInv
  BY <1>2, <1>4, <1>5 DEF StructureInv, OnlyTargets, EntryTargets, UniqueEntries, FreshEntry
<1>7. ASSUME NEW l \in Layers PROVE Covered(l)
  <2>1. Claimants(l) = {} /\ Finishing(l) = 0
    BY <1>2, <1>4 DEF Claimants, ClaimsEntry, Finishing
  <2>2. Claims(l) = 0
    BY <2>1, FS_EmptySet DEF Claims
  <2> QED  BY <1>1, <1>2, <2>2, LayerFields DEF Covered, Excess
<1>8. CountersBelow
  BY <1>2, SizesAssumption DEF CountersBelow
<1>9. panic = "none"
  BY DEF Init
<1> QED  BY <1>1, <1>6, <1>7, <1>8, <1>9 DEF IInv, ClaimsInv, PairedDeactivation

\* Nothing of the invariant changes when the engine does not move.
LEMMA SameState ==
    ASSUME IInv, UNCHANGED vars, TypeOK'  PROVE IInv'
<1>1. /\ layer_state' = layer_state /\ cache' = cache /\ pending_key' = pending_key
      /\ active_chords' = active_chords /\ call' = call /\ callers' = callers
      /\ saturated' = saturated /\ panic' = panic
  BY DEF vars, layerVars, keyVars, chordVars, stackVars
<1>2. StackInv <=> StackInv'
  BY <1>1 DEF StackInv, Innermost, ReleasedNotCached, NotCached, KeyKnown, ClaimingIsNext,
              Claiming, InDescriptor, Pressing, Releasing
<1>3. SwapsAtHome <=> SwapsAtHome'
  BY <1>1 DEF SwapsAtHome, SwapRuns, SwapsPending, SwapsChorded, Pressing
<1>4. StructureInv <=> StructureInv'
  BY <1>1, <1>2, <1>3 DEF StructureInv, OnlyTargets, EntryTargets, UniqueEntries, FreshEntry,
                          Pressing
<1>5. \A l \in Layers : Claimants(l)' = Claimants(l) /\ Finishing(l)' = Finishing(l)
  BY <1>1 DEF Claimants, ClaimsEntry, Finishing, Pressing, Releasing
<1>6. \A l \in Layers : Covered(l) <=> Covered(l)'
  BY <1>1, <1>5 DEF Covered, Claims
<1>7. ClaimsInv <=> ClaimsInv'
  BY <1>1, <1>6 DEF ClaimsInv, CountersBelow
<1> QED  BY <1>1, <1>4, <1>7 DEF IInv, PairedDeactivation

\* A step that saturates no counter starts and ends with all of them below
\* their limit, and leaves no layer with fewer activations than claims.
LEMMA NextInv == ASSUME SwapToggleDisjoint PROVE IInv /\ [Next]_vars => IInv'
<1> SUFFICES ASSUME IInv, [Next]_vars PROVE IInv'
  OBVIOUS
<1>1. TypeOK /\ TypeOK'
  BY NextType DEF IInv
<1>2. CASE Next
  <2>1. /\ panic = "none" /\ StructureInv /\ ClaimsInv
        /\ panic' = FailedAssert /\ saturated' = (saturated \/ CounterFull(layer_state'))
    BY <1>2, StepAsserts DEF Asserts, IInv
  <2>2. StructureInv'
    BY <1>1, <1>2, <2>1, StepStructure
  <2>3. ASSUME ~saturated' PROVE CountersBelow' /\ AllCovered'
    <3>1. ~saturated /\ ~CounterFull(layer_state')
      BY <2>1, <2>3
    <3>2. CountersBelow /\ AllCovered
      BY <2>1, <3>1 DEF ClaimsInv, AllCovered
    <3>3. AllCovered'
      BY <1>1, <1>2, <2>1, <2>2, <3>2, StepCovers
    <3>4. \A l \in Layers : layer_state'[l].active \in Int /\ layer_state'[l].oneshot_depth \in Int
      BY <1>1 DEF TypeOK, LayersOK, LayerState
    <3>5. CountersBelow'
      BY <3>1, <3>4, SizesAssumption DEF CounterFull, CountersBelow
    <3> QED  BY <3>3, <3>5
  <2>4. ASSUME ~saturated' PROVE panic' # "active > 0"
    <3>1. \A l \in Layers : layer_state'[l].active >= 0 /\ layer_state'[l].active \in Int
      <4> TAKE l \in Layers
      <4>1. Excess(layer_state', l) >= Claims(l)'
        BY <2>3, <2>4 DEF AllCovered, Covered
      <4>2. /\ layer_state'[l].active \in Int /\ layer_state'[l].toggled \in {0, 1}
            /\ layer_state'[l].oneshot_depth \in Nat
        BY <1>1 DEF TypeOK, LayersOK, LayerState
      <4> QED  BY <4>1, <4>2, ClaimsTypeNext DEF Excess
    <3>2. ~ \E l \in Layers : layer_state'[l].active < 0
      BY <3>1
    <3> QED  BY <2>1, <3>2 DEF FailedAssert
  <2>5. ClaimsInv'
    BY <2>3 DEF ClaimsInv, AllCovered
  <2>6. PairedDeactivation'
    BY <2>4 DEF PairedDeactivation
  <2> QED  BY <1>1, <2>2, <2>5, <2>6 DEF IInv
<1>3. CASE UNCHANGED vars
  BY <1>1, <1>3, SameState
<1> QED  BY <1>2, <1>3

\* In every configuration that binds no swap in a toggled layer, whatever the
\* keys that are pressed, and when: as long as no uint8_t counter is full,
\* every layer is at least as many times active as it is toggled, waits as a
\* oneshot or is held by a cached key or by a release in progress; and cache,
\* pending key, chords and call stack are as that argument needs them.
THEOREM PairingInvariant ==
    ASSUME SwapToggleDisjoint  PROVE Spec => []IInv
<1>1. Init => IInv
  BY InitInv
<1>2. IInv /\ [Next]_vars => IInv'
  BY NextInv
<1> QED  BY <1>1, <1>2, PTL DEF Spec

\* In such a configuration assert(layer_state[idx].active > 0) of
\* deactivate_layer never fails: clear_oneshot, clear, a key that goes up and a
\* swap take no layer away that is not on for that very reason.
THEOREM ActivationsPaired ==
    ASSUME SwapToggleDisjoint  PROVE Spec => []PairedDeactivation
<1>1. IInv => PairedDeactivation
  BY DEF IInv
<1> QED  BY <1>1, PairingInvariant, PTL

\* In every configuration that binds no swap in a toggled layer, taps no action
\* that itself waits for its key, and nests no overloadi in an overloadi: what
\* a press activates is given back by an entry of the cache, by a release in
\* progress, by the oneshots or by the toggle, whatever the keys that are
\* pressed, and when.
THEOREM AccountInvariant ==
    ASSUME SwapToggleDisjoint, TapsAreFinal, ChoicesAreFinal
    PROVE  Spec => [](IInv /\ AccountInv)
<1>1. Init => IInv /\ AccountInv
  BY InitInv, InitAccount
<1>2. IInv /\ AccountInv /\ [Next]_vars => (IInv /\ AccountInv)'
  BY NextInv, NextAccount
<1> QED  BY <1>1, <1>2, PTL DEF Spec

\* In such a configuration no layer leaks: whenever the engine is idle and no
\* uint8_t counter was ever full, every layer that actions hold, toggle or
\* leave on is exactly as many times active as there are keys that hold it,
\* oneshots that wait for a key and toggles (activate_layer and deactivate_layer).
THEOREM NothingLeaks ==
    ASSUME SwapToggleDisjoint, TapsAreFinal, ChoicesAreFinal
    PROVE  Spec => []ActivationsAccounted
<1>1. IInv /\ AccountInv => ActivationsAccounted
  <2> SUFFICES ASSUME IInv, AccountInv, Idle, ~saturated, NEW l \in Layers, IsTarget(l)
               PROVE  layer_state[l].active = Reasons(l)
    BY DEF ActivationsAccounted, IsTarget
  <2>1. TypeOK /\ Excess(layer_state, l) >= Claims(l) /\ Excess(layer_state, l) <= Claims(l)
    BY DEF IInv, ClaimsInv, AccountInv, Covered, Explained
  <2>2. Claims(l) = Cardinality(Holders(l)) /\ Claims(l) \in Nat
    BY <2>1, IdleClaims, ClaimsType DEF AccountInv, ReasonsInv
  <2>3. /\ layer_state[l].active \in Int /\ layer_state[l].toggled \in Int
        /\ layer_state[l].oneshot_depth \in Int
    BY <2>1, LayerFields
  <2> QED  BY <2>1, <2>2, <2>3 DEF Reasons, Excess
<1> QED  BY <1>1, AccountInvariant, PTL
=============================================================================

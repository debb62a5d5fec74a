----------------------------- MODULE KeyboardInv -----------------------------
(***************************************************************************)
(* The inductive invariant behind PairedDeactivation: every layer is at    *)
(* least as many times active as there are claims on it, that is, reasons  *)
(* for which some later step will deactivate it once.                      *)
(***************************************************************************)
EXTENDS Keyboard

\* A swap takes the layer away from the first cached key whose entry names
\* it.  A toggle key is named too, although it has nothing to give back: the
\* code relies on configurations in which no swap is bound in a toggled layer.
SwapToggleDisjoint == \A l \in ToggledLayers : ~SwapHome(l)

\* process_descriptor runs descriptor d for key `code', pressed or released.
Pressing == call.pc = "descriptor" /\ call.pressed
Releasing == call.pc = "descriptor" /\ ~call.pressed

\* A descriptor that activates l when pressed and deactivates it when released.
Holds(d, l) == d.op \in HoldOps /\ d.layer = l

\* The entries of the cache with a claim on l, once the descriptor in progress
\* has run: OP_OVERLOAD_IDLE_TIMEOUT is about to cache the action it chose.
ClaimsEntry(i, l) ==
    /\ cache[i].code # NoKey
    /\ ~(Pressing /\ call.code = cache[i].code)
    /\ \/ Holds(cache[i].d, l)
       \/ cache[i].layer = l /\ SwapHome(l) /\ l # 0
       \/ call.pc = "recache" /\ call.code = cache[i].code /\ Holds(call.d, l)
Claimants(l) == {i \in Slots : ClaimsEntry(i, l)}
Finishing(l) == IF Releasing /\ Holds(call.d, l) THEN 1 ELSE 0
Claims(l) == Cardinality(Claimants(l)) + Finishing(l)

\* The activations of l that are not those of a toggle or of oneshots.
Excess(ls, l) == ls[l].active - ls[l].toggled - ls[l].oneshot_depth
Covered(l) == Excess(layer_state, l) >= Claims(l)

\* Only layers that actions may target are toggled, left on by a oneshot or
\* noted in the cache.
OnlyTargets == \A l \in Layers : ~IsTarget(l) => /\ layer_state[l].toggled = 0
                                                 /\ layer_state[l].oneshot_depth = 0
EntryTargets == \A i \in Slots : cache[i].layer = 0 \/ IsTarget(cache[i].layer)

UniqueEntries == \A i, j \in Slots : cache[i].code = cache[j].code /\ cache[i].code # NoKey => i = j

\* A swap runs for a layer it is bound in: in the descriptor in progress, in
\* the actions of the pending key and in the active chords.
SwapAtHome(d, l) == d.op \in SwapOps => SwapHome(l)
SwapRuns == Pressing => SwapAtHome(call.d, call.dl)
SwapsPending == pending_key.code # NoKey => /\ SwapAtHome(pending_key.action1, pending_key.dl)
                                            /\ SwapAtHome(pending_key.action2, pending_key.dl)
SwapsChorded == \A i \in ChordSlots : SwapAtHome(active_chords[i].d, active_chords[i].layer)

\* The entry of a key that is being pressed holds no layer yet, and is of the
\* descriptor that runs unless that one is an action of an overload.
FreshEntry == Pressing => \A i \in Slots :
    cache[i].code = call.code /\ call.code # NoKey =>
                                 /\ cache[i].layer = 0
                                 /\ cache[i].d = call.d \/ cache[i].d.op \notin HoldOps

\* process_descriptor is called by itself only: its activations are the
\* innermost ones, those that are suspended will release their key, and a
\* key that goes up in one of them is not cached.
InDescriptor(f) == f.pc \in {"descriptor", "recache"}
NotCached(code) == \A i \in Slots : cache[i].code = code => code = NoKey
Innermost == /\ ~InDescriptor(call) => \A i \in DOMAIN callers : ~InDescriptor(callers[i])
             /\ \A i, j \in DOMAIN callers :
                    i <= j /\ InDescriptor(callers[j]) => InDescriptor(callers[i])
ReleasedNotCached == /\ Releasing => NotCached(call.code)
                     /\ \A i \in DOMAIN callers : callers[i].pc = "descriptor" =>
                            ~callers[i].pressed /\ NotCached(callers[i].code)

\* A timeout never gets as far as the key lookup, and nothing returns to it.
KeyKnown == /\ call.pc = "key" => call.code # NoKey
            /\ \A i \in DOMAIN callers : callers[i].pc \notin {"timers", "key"}

\* A suspended activation that will release or cache a holding descriptor is
\* the one that waits for that descriptor to be pressed.
Claiming(f) == InDescriptor(f) /\ f.d.op \in HoldOps
ClaimingIsNext == \A i \in DOMAIN callers :
    Claiming(callers[i]) => /\ i = 1 /\ Pressing
                            /\ call.d = callers[i].d /\ call.code = callers[i].code

CountersBelow == \A l \in Layers : /\ layer_state[l].active < CounterSize - 1
                                   /\ layer_state[l].oneshot_depth < CounterSize - 1

StackInv == Innermost /\ ReleasedNotCached /\ KeyKnown /\ ClaimingIsNext
SwapsAtHome == SwapRuns /\ SwapsPending /\ SwapsChorded
StructureInv == /\ OnlyTargets /\ EntryTargets /\ UniqueEntries /\ FreshEntry
                /\ SwapsAtHome /\ StackInv
ClaimsInv == ~saturated => CountersBelow /\ \A l \in Layers : Covered(l)

\* The inductive invariant.
IInv == TypeOK /\ StructureInv /\ ClaimsInv /\ PairedDeactivation

-----------------------------------------------------------------------------
(* Nothing leaks: no layer is active without a reason either.               *)

\* An overload whose tap waits for a timeout or for an earlier key leaves the
\* key in the cache when it is up already: OP_OVERLOAD runs the tap of a key
\* that handle_pending_key will then put back, and OP_OVERLOAD_IDLE_TIMEOUT
\* finds no entry to write its choice to.
WaitingOps == TapHoldOps \cup {"timeout", "overloadi"}
TapsAreFinal == \A d \in ConfigDescs : d.op = "overload" => DescTable[d.act].op \notin WaitingOps

\* The choice of an overloadi within an overloadi is overwritten in the cache
\* by that overloadi itself, whose release does nothing.
ChoicesAreFinal == \A a \in IdleActs : DescTable[a].op # "overloadi"

CachedCodes == {cache[i].code : i \in Slots} \ {NoKey}

\* Only layers that some action toggles are toggled, and only a key that
\* holds a layer is noted as the holder of one that a swap may take away.
ToggledKnown == \A l \in Layers : layer_state[l].toggled # 0 => l \in ToggledLayers
LayerHeld == \A i \in Slots :
    cache[i].code # NoKey /\ cache[i].layer # 0 /\ SwapHome(cache[i].layer) =>
        \/ Holds(cache[i].d, cache[i].layer)
        \/ call.pc = "recache" /\ call.code = cache[i].code /\ Holds(call.d, cache[i].layer)

\* Who gives back what a press activates: the release of the same tap, or the
\* entry of the key, which has the descriptor or is about to get it.
Releases(f) == f.pc = "descriptor" /\ ~f.pressed
TapInProgress == /\ call.d.op \notin WaitingOps
                 /\ Releases(callers[1]) /\ callers[1].code = call.code /\ callers[1].d = call.d
EntryInPlace == /\ call.code \in CachedCodes
                /\ \/ /\ ~InDescriptor(callers[1])
                      /\ \A i \in Slots : cache[i].code = call.code => cache[i].d = call.d
                   \/ callers[1] = Recache(call.code, call.d) /\ call.d.op # "overloadi"
PressKept == Pressing => callers # <<>> /\ (TapInProgress \/ EntryInPlace)
RecacheKept == call.pc = "recache" =>
    /\ call.code \in CachedCodes
    /\ \A i \in Slots : cache[i].code = call.code => \/ cache[i].d = call.d
                                                    \/ cache[i].d.op \notin HoldOps

\* process_descriptor calls itself once at most.
NestedOnce == \A i \in DOMAIN callers : InDescriptor(callers[i]) => i = 1 /\ Pressing

\* The entry of the pending key is there, and holds no layer yet.
PendingKept == pending_key.code # NoKey =>
    /\ pending_key.code \in CachedCodes
    /\ \A i \in Slots : cache[i].code = pending_key.code =>
          cache[i].layer = 0 /\ cache[i].d.op \notin HoldOps
    /\ Pressing => call.code # pending_key.code
    /\ call.pc = "recache" /\ call.code = pending_key.code => call.d.op \notin HoldOps
KeyPassed == call.pc \in {"timers", "key"} /\ call.code # NoKey => call.code # pending_key.code

ReasonsInv == ToggledKnown /\ LayerHeld /\ PressKept /\ RecacheKept /\ NestedOnce /\ PendingKept /\ KeyPassed

Explained(l) == Excess(layer_state, l) <= Claims(l)
AccountInv == ReasonsInv /\ (~saturated => \A l \in Layers : IsTarget(l) => Explained(l))
=============================================================================

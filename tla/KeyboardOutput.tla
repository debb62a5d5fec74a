---------------------------- MODULE KeyboardOutput ----------------------------
(***************************************************************************)
(* The proof about what the engine leaves down on the virtual device: the  *)
(* modifiers of the active layers, and what the release of a key that is   *)
(* cached, of a tap in progress or of the macro that is repeated is going  *)
(* to let go of.  With every key up and every layer off, nothing is down.  *)
(***************************************************************************)
EXTENDS KeyboardPairing, KeyboardQueues

-----------------------------------------------------------------------------
(* The output operators.                                                   *)

\* What is down on the device is down in keystate, where no mute key is.
Sane(o) == o.device \subseteq o.keystate /\ o.keystate \cap Unsent = {}

KeysOf(mods) == {ModKey[m] : m \in mods}
ModsOf(ls) == UNION {LayerMods[l] : l \in Active(ls)}

LEMMA ModKeysOf ==
    /\ \A mods \in SUBSET Mods : KeysOf(mods) \subseteq ModKeys
    /\ \A m, n \in Mods : ModKey[m] = ModKey[n] => m = n
    /\ ModKeys = {ModKey[m] : m \in Mods}
    /\ ModKeys \cap Unsent = {}
  BY DEF KeysOf, ModKeys, ModKey, Mods, Unsent

\* send_key sets one key of keystate, and the device follows.
LEMMA SendKeySets ==
    ASSUME NEW o \in Output, Sane(o), NEW code \in Codes, NEW pressed \in BOOLEAN
    PROVE  LET o1 == SendKey(o, code, pressed) IN
           /\ o1 \in Output /\ Sane(o1)
           /\ o1.keystate = IF code \in Unsent THEN o.keystate
                            ELSE IF pressed THEN o.keystate \cup {code} ELSE o.keystate \ {code}
<1>1. SendKey(o, code, pressed) \in Output
  BY SendKeyType
<1>2. CASE code \in Unsent
  BY <1>1, <1>2 DEF SendKey
<1>3. CASE code \notin Unsent /\ (code \in o.keystate) = pressed
  BY <1>1, <1>3 DEF SendKey, Output, Sane
<1>4. CASE code \notin Unsent /\ (code \in o.keystate) # pressed
  <2>1. CASE pressed
    BY <1>1, <1>4, <2>1 DEF SendKey, Emit, With, Output, Sane
  <2>2. CASE ~pressed
    BY <1>1, <1>4, <2>2 DEF SendKey, Emit, With, Output, Sane
  <2> QED BY <2>1, <2>2
<1> QED BY <1>2, <1>3, <1>4

\* clear_mod lets go of the modifier, whether or not it taps control first.
LEMMA ClearModSets ==
    ASSUME NEW o \in Output, Sane(o), NEW m \in Mods, NEW inhibit
    PROVE  LET o1 == ClearMod(o, ModKey[m], inhibit) IN
           o1 \in Output /\ Sane(o1) /\ o1.keystate = o.keystate \ {ModKey[m]}
<1> DEFINE code == ModKey[m]
           c1 == SendKey(o, "leftctrl", TRUE)
           c2 == SendKey(c1, code, FALSE)
           c3 == SendKey(c2, "leftctrl", FALSE)
<1>1. code \in Codes /\ code \notin Unsent /\ "leftctrl" \in Codes /\ "leftctrl" \notin Unsent
  BY CodesOfMods, ModKeysOf DEF ModKeys
<1>2. /\ SendKey(o, code, FALSE) \in Output /\ Sane(SendKey(o, code, FALSE))
      /\ SendKey(o, code, FALSE).keystate = o.keystate \ {code}
  BY <1>1, SendKeySets
<1>3. c1 \in Output /\ Sane(c1) /\ c1.keystate = o.keystate \cup {"leftctrl"}
  BY <1>1, SendKeySets
<1>4. c2 \in Output /\ Sane(c2) /\ c2.keystate = c1.keystate \ {code}
  <2> HIDE DEF c1
  <2> QED BY <1>1, <1>3, SendKeySets
<1>5. c3 \in Output /\ Sane(c3) /\ c3.keystate = c2.keystate \ {"leftctrl"}
  <2> HIDE DEF c1, c2
  <2> QED BY <1>1, <1>4, SendKeySets
<1>6. "leftctrl" \notin o.keystate => c3.keystate = o.keystate \ {code}
  BY <1>3, <1>4, <1>5
<1>7. \/ ClearMod(o, code, inhibit) = SendKey(o, code, FALSE)
      \/ ClearMod(o, code, inhibit) = c3 /\ "leftctrl" \notin o.keystate
  BY DEF ClearMod
<1> HIDE DEF code, c3
<1> QED BY <1>2, <1>5, <1>6, <1>7 DEF code

LEMMA SetModSets ==
    ASSUME NEW o \in Output, Sane(o), NEW mods, NEW inhibit, NEW m \in Mods
    PROVE  LET o1 == SetMod(o, mods, inhibit, m) IN
           /\ o1 \in Output /\ Sane(o1)
           /\ o1.keystate = IF m \in mods THEN o.keystate \cup {ModKey[m]}
                                          ELSE o.keystate \ {ModKey[m]}
<1>1. ModKey[m] \in Codes /\ ModKey[m] \notin Unsent
  BY CodesOfMods, ModKeysOf
<1>2. /\ SendKey(o, ModKey[m], TRUE) \in Output /\ Sane(SendKey(o, ModKey[m], TRUE))
      /\ SendKey(o, ModKey[m], TRUE).keystate = o.keystate \cup {ModKey[m]}
  BY <1>1, SendKeySets
<1>3. LET o1 == ClearMod(o, ModKey[m], inhibit) IN
           o1 \in Output /\ Sane(o1) /\ o1.keystate = o.keystate \ {ModKey[m]}
  BY ClearModSets
<1> QED BY <1>2, <1>3 DEF SetMod

\* set_mods leaves just these modifiers down, and no other key changes.
LEMMA SetModsSets ==
    ASSUME NEW o \in Output, Sane(o), NEW mods \in SUBSET Mods, NEW inhibit
    PROVE  LET o1 == SetMods(o, mods, inhibit) IN
           /\ o1 \in Output /\ Sane(o1)
           /\ o1.keystate = (o.keystate \ ModKeys) \cup KeysOf(mods)
<1> DEFINE alt == SetMod(o, mods, inhibit, "alt")
           altgr == SetMod(alt, mods, inhibit, "altgr")
           shift == SetMod(altgr, mods, inhibit, "shift")
           super == SetMod(shift, mods, inhibit, "super")
           ctrl == SetMod(super, mods, inhibit, "ctrl")
           After(k, m) == IF m \in mods THEN k \cup {ModKey[m]} ELSE k \ {ModKey[m]}
<1>0. {"alt", "altgr", "shift", "super", "ctrl"} = Mods
  BY DEF Mods
<1>9. \A p \in Output, m \in Mods : Sane(p) =>
          LET q == SetMod(p, mods, inhibit, m) IN
          q \in Output /\ Sane(q) /\ q.keystate = After(p.keystate, m)
  BY SetModSets
<1>1. alt \in Output /\ Sane(alt) /\ alt.keystate = After(o.keystate, "alt")
  BY <1>0, <1>9
<1>2. altgr \in Output /\ Sane(altgr) /\ altgr.keystate = After(alt.keystate, "altgr")
  <2> HIDE DEF After, alt
  <2> QED BY <1>0, <1>1, <1>9
<1>3. shift \in Output /\ Sane(shift) /\ shift.keystate = After(altgr.keystate, "shift")
  <2> HIDE DEF After, altgr
  <2> QED BY <1>0, <1>2, <1>9
<1>4. super \in Output /\ Sane(super) /\ super.keystate = After(shift.keystate, "super")
  <2> HIDE DEF After, shift
  <2> QED BY <1>0, <1>3, <1>9
<1>5. ctrl \in Output /\ Sane(ctrl) /\ ctrl.keystate = After(super.keystate, "ctrl")
  <2> HIDE DEF After, super
  <2> QED BY <1>0, <1>4, <1>9
<1>6. SetMods(o, mods, inhibit) = ctrl
  BY DEF SetMods
<1> HIDE DEF alt, altgr, shift, super, ctrl
<1>7. ctrl.keystate = (o.keystate \ ModKeys) \cup KeysOf(mods)
  <2>1. ASSUME NEW x PROVE x \in ctrl.keystate <=> x \in (o.keystate \ ModKeys) \cup KeysOf(mods)
    <3>1. CASE x \notin ModKeys
      <4>1. x \notin KeysOf(mods) /\ \A m \in Mods : x # ModKey[m]
        BY <3>1, ModKeysOf
      <4>2. x \in ctrl.keystate <=> x \in o.keystate
        BY <1>0, <1>1, <1>2, <1>3, <1>4, <1>5, <4>1
      <4> QED BY <3>1, <4>1, <4>2
    <3>2. CASE x \in ModKeys
      <4>1. PICK m \in Mods : x = ModKey[m]
        BY <3>2, ModKeysOf
      <4>2. x \in KeysOf(mods) <=> m \in mods
        BY <4>1, ModKeysOf DEF KeysOf
      <4>3. \A n \in Mods : ModKey[n] = x <=> n = m
        BY <4>1, ModKeysOf
      <4>4. x \in ctrl.keystate <=> m \in mods
        BY <1>0, <1>1, <1>2, <1>3, <1>4, <1>5, <4>3
      <4> QED BY <3>2, <4>2, <4>4
    <3> QED BY <3>1, <3>2
  <2> QED BY <2>1
<1> QED BY <1>5, <1>6, <1>7

\* update_mods leaves the modifiers it is given and those of active layers.
LEMMA UpdateModsSets ==
    ASSUME NEW o \in Output, Sane(o), NEW ls, NEW excluded, NEW mods \in SUBSET Mods, NEW inhibit
    PROVE  LET o1 == UpdateModsQuietly(o, ls, excluded, mods, inhibit) IN
           /\ o1 \in Output /\ Sane(o1)
           /\ o1.keystate \subseteq (o.keystate \ ModKeys) \cup KeysOf(mods) \cup KeysOf(ModsOf(ls))
           /\ \A x \in o.keystate \ ModKeys : x \in o1.keystate
<1> DEFINE except == IF excluded = NoLayer THEN {}
                     ELSE {excluded} \cup (IF LayerType[excluded] = "composite"
                                           THEN Constituents[excluded] ELSE {})
           all == mods \cup UNION {LayerMods[l] : l \in Active(ls) \ except}
<1>1. all \subseteq Mods /\ all \subseteq mods \cup ModsOf(ls)
  BY LayersAssumption DEF ModsOf, Active
<1>2. KeysOf(all) \subseteq KeysOf(mods) \cup KeysOf(ModsOf(ls))
  BY <1>1 DEF KeysOf
<1>3. UpdateModsQuietly(o, ls, excluded, mods, inhibit) = SetMods(o, all, inhibit)
  BY DEF UpdateModsQuietly
<1> HIDE DEF all
<1> QED BY <1>1, <1>2, <1>3, SetModsSets

\* execute_macro leaves the modifiers of the active layers, and its own when it
\* is a single key sequence.
Leaves(m) == Macros[m].simple /\ Macros[m].mods # {}

LEMMA ExecuteMacroSets ==
    ASSUME NEW o \in Output, Sane(o), NEW ls, NEW dl, NEW m \in MacroIds
    PROVE  LET o1 == ExecuteMacro(o, ls, dl, Macros[m]) IN
           /\ o1 \in Output /\ Sane(o1)
           /\ o1.keystate \subseteq (o.keystate \ ModKeys) \cup ModKeys
           /\ ~Leaves(m) => o1.keystate \subseteq (o.keystate \ ModKeys) \cup KeysOf(ModsOf(ls))
<1> DEFINE mac == Macros[m]
<1>1. mac.simple \in BOOLEAN /\ mac.code \in Codes /\ mac.mods \in SUBSET Mods /\ {} \in SUBSET Mods
  BY BindingsAssumption DEF Macro
<1>2. ModsOf(ls) \in SUBSET Mods
  BY LayersAssumption DEF ModsOf, Active
<1>3. KeysOf(ModsOf(ls)) \subseteq ModKeys /\ KeysOf(mac.mods) \subseteq ModKeys /\ KeysOf({}) = {}
  BY <1>1, <1>2, ModKeysOf DEF KeysOf
<1>4. CASE mac.simple
  <2> DEFINE o1 == UpdateMods(o, ls, dl, mac.mods)
             o2 == SendKey(o1, mac.code, TRUE)
             o3 == SendKey(o2, mac.code, FALSE)
  <2>1. /\ o1 \in Output /\ Sane(o1)
        /\ o1.keystate \subseteq (o.keystate \ ModKeys) \cup KeysOf(mac.mods) \cup KeysOf(ModsOf(ls))
    BY <1>1, UpdateModsSets DEF UpdateMods
  <2> HIDE DEF o1
  <2>2. /\ o2 \in Output /\ Sane(o2)
        /\ o2.keystate = IF mac.code \in Unsent THEN o1.keystate ELSE o1.keystate \cup {mac.code}
    BY <1>1, <2>1, SendKeySets
  <2> HIDE DEF o2
  <2>3. /\ o3 \in Output /\ Sane(o3)
        /\ o3.keystate = IF mac.code \in Unsent THEN o2.keystate ELSE o2.keystate \ {mac.code}
    BY <1>1, <2>2, SendKeySets
  <2>4. o3.keystate \subseteq o1.keystate
    BY <2>2, <2>3
  <2>5. ExecuteMacro(o, ls, dl, mac) = o3
    BY <1>4 DEF ExecuteMacro, o1, o2
  <2>6. ~Leaves(m) => KeysOf(mac.mods) = {}
    BY <1>3, <1>4 DEF Leaves
  <2> HIDE DEF o3, mac
  <2> QED BY <1>3, <2>1, <2>3, <2>4, <2>5, <2>6 DEF mac
<1>5. CASE ~mac.simple
  <2> DEFINE o1 == UpdateMods(o, ls, dl, {})
             o2 == RunMacro(o1, mac)
  <2>1. /\ o1 \in Output /\ Sane(o1)
        /\ o1.keystate \subseteq (o.keystate \ ModKeys) \cup KeysOf({}) \cup KeysOf(ModsOf(ls))
    BY <1>1, UpdateModsSets DEF UpdateMods
  <2> HIDE DEF o1
  <2>2. o2 \in Output /\ Sane(o2) /\ o2.keystate = o1.keystate
    BY <2>1 DEF RunMacro, Output, Sane
  <2>3. ExecuteMacro(o, ls, dl, mac) = o2
    BY <1>5 DEF ExecuteMacro, o1
  <2> HIDE DEF o2, mac
  <2> QED BY <1>3, <2>1, <2>2, <2>3 DEF mac
<1> QED BY <1>4, <1>5

LEMMA ResetKeystateSets ==
    ASSUME NEW o \in Output, Sane(o)
    PROVE  LET o1 == ResetKeystate(o) IN o1 \in Output /\ Sane(o1) /\ o1.keystate = {}
  BY ResetKeystateType DEF ResetKeystate, Output, Sane

\* Renumbering the activation times leaves the same layers active.
LEMMA PackedActive ==
    ASSUME NEW ls \in Layering, SetLayers(ls)
    PROVE  Active(layer_state') = Active(ls) /\ ModsOf(layer_state') = ModsOf(ls)
<1>1. \A l \in Layers : layer_state'[l].active = ls[l].active
  BY PackedType DEF SetLayers
<1> QED BY <1>1 DEF Active, ModsOf

-----------------------------------------------------------------------------
(* The invariant.                                                          *)

\* The actions whose press may leave something down until their release.
MacroOps == {"macro", "macro2"}
SoundingOps == {"keysequence", "swapm"} \cup MacroOps

\* The descriptors whose release is still to come: those of the entries of the
\* cache, the one that is released or about to be cached now, and the one that
\* waits for the press in progress to end.
WillRelease(d) ==
    \/ \E i \in Slots : cache[i].code # NoKey /\ cache[i].d = d
    \/ (Releasing \/ call.pc = "recache") /\ call.d = d
    \/ Pressing /\ InDescriptor(callers[1]) /\ callers[1].d = d

\* A key is down for a key sequence, a modifier for a layer, or for an action
\* that lets go of the modifiers in the end: a key sequence, swapm with a key
\* sequence, or the macro that is repeated.
HeldDown(x) == \E d \in Runnable : WillRelease(d) /\ d.op = "keysequence" /\ d.code = x
Repeating == macro.active /\ Leaves(macro.id)
Letting(d) == d.op = "keysequence" \/ (d.op = "swapm" /\ Leaves(d.macro))
Loose == Repeating \/ \E d \in Runnable : WillRelease(d) /\ Letting(d)
Justified(x) == \/ HeldDown(x)
                \/ x \in KeysOf(ModsOf(layer_state))
                \/ Loose /\ x \in ModKeys
OutInv == Sane(out) /\ \A x \in out.keystate : Justified(x)

\* The macro that is repeated is one of a key that is held, and is not repeated
\* any more when that key goes up.
RepeatKept ==
    /\ Repeating => \E d \in Runnable : WillRelease(d) /\ d.op \in MacroOps /\ d.macro = macro.id
    /\ call.pc = "key" => ~macro.active
    /\ Releasing /\ call.d.op \in MacroOps => ~macro.active \/ ~Leaves(call.d.macro)
    /\ Pressing /\ Releases(callers[1]) /\ callers[1].d.op \in MacroOps => ~Leaves(callers[1].d.macro)

\* Entries that get another descriptor have one whose release does nothing.
WaitingEntry(c, code) == \A i \in Slots : c[i].code = code => c[i].d.op \in WaitingOps
PendingWaits == pending_key.code # NoKey =>
    /\ WaitingEntry(cache, pending_key.code)
    /\ call.pc = "recache" /\ call.code = pending_key.code => call.d.op \in WaitingOps
RecacheWaits == /\ call.pc = "recache" => WaitingEntry(cache, call.code)
                /\ Pressing /\ callers[1].pc = "recache" => WaitingEntry(cache, callers[1].code)

\* Only layers of oneshot and swap actions are left on by a oneshot.
OneshotKnown == \A l \in Layers : layer_state[l].oneshot_depth # 0 => l \in OneshotLayers

EntriesInv == PendingWaits /\ RecacheWaits
OutputInv == OutInv /\ RepeatKept /\ EntriesInv /\ OneshotKnown

\* The macros that nobody lets go of have no modifiers: that of clearm, which
\* runs after everything was let go of, and that of a tap, whose release is
\* over when the macro begins; and a toggle, which computes the modifiers
\* before it ends the oneshots, meets none of a layer with modifiers.
ModsGivenBack ==
    /\ \A m \in ClearMacros : ~Leaves(m)
    /\ \A a \in TapActs : DescTable[a].op \in MacroOps => ~Leaves(DescTable[a].macro)
    /\ ToggledLayers = {} \/ \A l \in OneshotLayers : LayerMods[l] = {}

LEMMA OpsApart ==
    /\ HoldOps \cap WaitingOps = {} /\ SoundingOps \cap WaitingOps = {}
    /\ SoundingOps \cap HoldOps = {}
  BY DEF HoldOps, WaitingOps, TapHoldOps, SoundingOps, MacroOps

-----------------------------------------------------------------------------
(* What is to be released, from step to step.                              *)

ReleasersKept == \A d \in Runnable : WillRelease(d) /\ d.op \in SoundingOps => WillRelease(d)'
OthersKept == \A d \in Runnable : WillRelease(d) /\ d.op \in SoundingOps /\ d # call.d => WillRelease(d)'
CallKept == \A d \in Runnable : d = call.d /\ d.op \in SoundingOps => WillRelease(d)'

\* What holds when process_descriptor has returned.
Returned ==
    /\ EntriesInv' /\ ~Pressing' /\ call'.pc # "key" /\ OthersKept
    /\ call.pressed => ReleasersKept /\ CallKept
    /\ Releasing' => Pressing /\ Releases(callers[1]) /\ call' = callers[1]

\* Steps outside process_descriptor that leave the cache alone.
LEMMA OutsideHolds ==
    ASSUME EntriesInv, ~InDescriptor(call), ~InDescriptor(call'), cache' = cache,
           pending_key'.code \in {NoKey, pending_key.code}
    PROVE  ReleasersKept /\ EntriesInv' /\ ~Releasing' /\ ~Pressing'
  BY DEF EntriesInv, PendingWaits, RecacheWaits, WaitingEntry, InDescriptor, ReleasersKept,
         WillRelease, Pressing, Releasing

\* A key gets an entry, in place of one whose release does nothing.
LEMMA EnterHolds ==
    ASSUME EntriesInv, ~InDescriptor(call), ~InDescriptor(callers'[1]),
           NEW code \in Codes, code # NoKey, NEW d, NEW dl, NEW time,
           call' = ProcessDescriptor(code, d, dl, TRUE, time),
           cache' = CacheSet(cache, code, d, dl), WaitingEntry(cache, code),
           pending_key'.code \in {NoKey, pending_key.code} \ {code}
    PROVE  ReleasersKept /\ EntriesInv' /\ ~Releasing' /\ ~InDescriptor(callers'[1])
<1>1. /\ call'.pc = "descriptor" /\ call'.code = code /\ call'.pressed = TRUE
  BY DEF ProcessDescriptor
<1> DEFINE new == [code |-> code, d |-> d, dl |-> dl, layer |-> 0]
<1>2. new.code = code
  OBVIOUS
<1>3. \A i \in Slots : IF i \in SlotFor(cache, code) THEN cache'[i] = new ELSE cache'[i] = cache[i]
  BY DEF CacheSet
<1> HIDE DEF new
<1>4. \A i \in SlotFor(cache, code) : i \in Slots /\ cache[i].code \in {code, NoKey}
  BY DEF SlotFor, Cached
<1>5. ASSUME NEW i \in Slots
      PROVE  \/ cache'[i] = cache[i]
             \/ cache'[i].code = code /\ cache[i].code \in {code, NoKey}
  BY <1>2, <1>3, <1>4
<1>6. ReleasersKept
  <2> SUFFICES ASSUME NEW e \in Runnable, WillRelease(e), e.op \in SoundingOps PROVE WillRelease(e)'
    BY DEF ReleasersKept
  <2>1. PICK i \in Slots : cache[i].code # NoKey /\ cache[i].d = e
    BY DEF WillRelease, Releasing, Pressing, InDescriptor
  <2>2. cache[i].code # code
    BY <2>1, OpsApart DEF WaitingEntry
  <2> QED BY <1>5, <2>1, <2>2 DEF WillRelease
<1>7. EntriesInv'
  BY <1>1, <1>5 DEF EntriesInv, PendingWaits, RecacheWaits, WaitingEntry, InDescriptor
<1> QED BY <1>1, <1>6, <1>7 DEF Releasing

\* The release of a key takes the descriptor of its entry over.
LEMMA LeaveHolds ==
    ASSUME UniqueEntries, EntriesInv, ~InDescriptor(call), call.code # NoKey,
           NEW i \in Cached(cache, call.code), NEW dl, NEW time,
           call' = ProcessDescriptor(call.code, cache[i].d, dl, FALSE, time),
           cache' = CacheClear(cache, call.code), pending_key' = pending_key,
           call.code # pending_key.code
    PROVE  ReleasersKept /\ EntriesInv' /\ ~Pressing'
<1>1. /\ call'.pc = "descriptor" /\ call'.pressed = FALSE /\ call'.d = cache[i].d
  BY DEF ProcessDescriptor
<1>2. i \in Slots /\ cache[i].code = call.code
  BY DEF Cached
<1>3. ASSUME NEW j \in Slots
      PROVE  \/ cache'[j] = cache[j] /\ cache[j].code # call.code
             \/ cache'[j].code = NoKey /\ cache[j].code = call.code
  BY DEF CacheClear, EmptySlot
<1>4. ReleasersKept
  <2> SUFFICES ASSUME NEW e \in Runnable, WillRelease(e) PROVE WillRelease(e)'
    BY DEF ReleasersKept
  <2>1. PICK j \in Slots : cache[j].code # NoKey /\ cache[j].d = e
    BY DEF WillRelease, Releasing, Pressing, InDescriptor
  <2>2. CASE cache[j].code = call.code
    BY <1>1, <1>2, <2>1, <2>2 DEF UniqueEntries, WillRelease, Releasing
  <2>3. CASE cache[j].code # call.code
    BY <1>3, <2>1, <2>3 DEF WillRelease
  <2> QED BY <2>2, <2>3
<1>5. EntriesInv'
  BY <1>1, <1>3 DEF EntriesInv, PendingWaits, RecacheWaits, WaitingEntry, Pressing
<1> QED BY <1>1, <1>4, <1>5 DEF Pressing

\* A descriptor that returns: what it released is done with, and what it
\* pressed will be released.
LEMMA ReturnHolds ==
    ASSUME TypeOK, StructureInv, ReasonsInv, EntriesInv, call.pc = "descriptor", Return,
           \A i \in Slots : /\ cache'[i].code = cache[i].code
                            /\ cache'[i].d = cache[i].d \/ cache[i].d.op \in HoldOps,
           \/ pending_key'.code = pending_key.code
           \/ pending_key'.code = call.code /\ call.pressed /\ call.d.op \in WaitingOps
    PROVE  Returned
<1>1. /\ IF Pressing THEN ToRelease \/ ToEntry \/ ToRecache ELSE ~InDescriptor(call')
      /\ Pressing /\ call.d.op \in WaitingOps => ToEntry \/ ToRecache
  BY ReturnTo DEF InDescriptor
<1>2. ~Pressing'
  BY ReturnStack DEF InDescriptor
<1>3. /\ callers # <<>> /\ call' = callers[1] /\ 1 \in DOMAIN callers
  <2>1. callers \in Seq(Frame) /\ callers # <<>>
    BY StackTyped DEF InDescriptor
  <2> QED BY <2>1, EmptySeq DEF Return
<1>4. call'.pc # "key"
  BY <1>3 DEF StructureInv, StackInv, KeyKnown
<1>5. Releasing' => Pressing /\ Releases(callers[1])
  BY <1>1, <1>3 DEF Releasing, Releases, InDescriptor
<1>6. ASSUME NEW i \in Slots, cache[i].d.op \in WaitingOps \/ cache[i].d.op \in SoundingOps
      PROVE  cache'[i].d = cache[i].d
  BY <1>6, OpsApart
<1>7. ASSUME NEW d, d.op \in SoundingOps, \E i \in Slots : cache[i].code # NoKey /\ cache[i].d = d
      PROVE  WillRelease(d)'
  BY <1>6, <1>7 DEF WillRelease
<1>8. ASSUME NEW d \in Runnable, call.pressed, d.op \in SoundingOps, WillRelease(d)
      PROVE  WillRelease(d)'
  <2>1. CASE \E i \in Slots : cache[i].code # NoKey /\ cache[i].d = d
    BY <1>7, <1>8, <2>1
  <2>2. CASE Pressing /\ InDescriptor(callers[1]) /\ callers[1].d = d
    <3>1. call'.d = d /\ InDescriptor(call')
      BY <1>3, <2>2
    <3>2. Releasing' \/ call'.pc = "recache"
      BY <1>2, <3>1 DEF Pressing, Releasing, InDescriptor
    <3> QED BY <3>1, <3>2 DEF WillRelease
  <2> QED BY <1>8, <2>1, <2>2 DEF WillRelease, Releasing
<1>9. ASSUME NEW d \in Runnable, call.pressed, d.op \in SoundingOps, d = call.d PROVE WillRelease(d)'
  <2>1. Pressing
    BY <1>9 DEF Pressing
  <2>2. CASE ToRelease
    BY <1>9, <2>2 DEF ToRelease, Releases, Releasing, WillRelease
  <2>3. CASE ToEntry
    <3>1. PICK i \in Slots : cache[i].code = call.code /\ cache[i].code # NoKey
      BY <2>3 DEF ToEntry, CachedCodes
    <3>2. cache[i].d = d
      BY <1>9, <2>3, <3>1 DEF ToEntry
    <3> QED BY <1>7, <1>9, <3>1, <3>2
  <2>4. CASE ToRecache
    BY <1>9, <2>4 DEF ToRecache, WillRelease
  <2> QED BY <1>1, <2>1, <2>2, <2>3, <2>4
<1>10. ASSUME NEW d \in Runnable, ~call.pressed, d.op \in SoundingOps, WillRelease(d), d # call.d
       PROVE  WillRelease(d)'
  BY <1>7, <1>10 DEF WillRelease, Pressing
<1>11. ASSUME NEW code, WaitingEntry(cache, code) PROVE WaitingEntry(cache', code)
  BY <1>6, <1>11 DEF WaitingEntry
<1>12. RecacheWaits'
  BY <1>1, <1>2, <1>3, <1>11 DEF EntriesInv, RecacheWaits, ToRecache, InDescriptor
<1>13. PendingWaits'
  <2>1. CASE pending_key'.code = pending_key.code
    <3>1. pending_key.code # NoKey => WaitingEntry(cache', pending_key.code)
      BY <1>11 DEF EntriesInv, PendingWaits
    <3>2. pending_key.code # NoKey /\ call'.pc = "recache" => call'.code # pending_key.code
      BY <1>1 DEF ReasonsInv, PendingKept, ToRecache, ToRelease, ToEntry, Releases, InDescriptor
    <3> QED BY <2>1, <3>1, <3>2 DEF PendingWaits
  <2>2. CASE pending_key'.code = call.code /\ call.pressed /\ call.d.op \in WaitingOps
    <3>1. Pressing
      BY <2>2 DEF Pressing
    <3>2. CASE ToEntry
      <4>1. WaitingEntry(cache, call.code)
        BY <2>2, <3>2 DEF ToEntry, WaitingEntry
      <4> QED BY <1>11, <2>2, <3>2, <4>1 DEF PendingWaits, ToEntry, InDescriptor
    <3>3. CASE ToRecache
      <4>1. WaitingEntry(cache, call.code)
        BY <1>3, <3>1, <3>3 DEF ToRecache, EntriesInv, RecacheWaits
      <4> QED BY <1>11, <2>2, <3>3, <4>1 DEF PendingWaits, ToRecache
    <3> QED BY <1>1, <2>2, <3>1, <3>2, <3>3
  <2> QED BY <2>1, <2>2
<1>14. ~call.pressed \/ call.pressed
  OBVIOUS
<1> QED BY <1>2, <1>3, <1>4, <1>5, <1>8, <1>9, <1>10, <1>12, <1>13, <1>14
        DEF Returned, CallKept, EntriesInv, OthersKept, ReleasersKept

-----------------------------------------------------------------------------
(* What is down, from step to step.                                        *)

HeldKept == \A x : HeldDown(x) => HeldDown(x)'
LooseKept == Loose => Loose'
MacroKept == macro'.active => macro.active /\ macro'.id = macro.id

LEMMA ModsOfType ==
    ASSUME NEW ls PROVE ModsOf(ls) \in SUBSET Mods /\ KeysOf(ModsOf(ls)) \subseteq ModKeys
<1>1. ModsOf(ls) \in SUBSET Mods
  BY LayersAssumption DEF ModsOf, Active
<1> QED BY <1>1, ModKeysOf

LEMMA KeptHeld ==
    /\ ReleasersKept => HeldKept
    /\ ReleasersKept /\ macro' = macro => LooseKept
<1>1. ASSUME ReleasersKept, NEW x, HeldDown(x) PROVE HeldDown(x)'
  <2>1. PICK d \in Runnable : WillRelease(d) /\ d.op = "keysequence" /\ d.code = x
    BY <1>1 DEF HeldDown
  <2>2. WillRelease(d)'
    BY <1>1, <2>1 DEF ReleasersKept, SoundingOps
  <2> QED BY <2>1, <2>2 DEF HeldDown
<1>2. ASSUME ReleasersKept, macro' = macro, Loose PROVE Loose'
  <2>1. CASE Repeating
    BY <1>2, <2>1 DEF Loose, Repeating
  <2>2. ASSUME NEW d \in Runnable, WillRelease(d), Letting(d) PROVE Loose'
    <3>1. WillRelease(d)'
      BY <1>2, <2>2 DEF ReleasersKept, SoundingOps, Letting
    <3> QED BY <2>2, <3>1 DEF Loose
  <2> QED BY <1>2, <2>1, <2>2 DEF Loose
<1> QED BY <1>1, <1>2 DEF HeldKept, LooseKept

\* Every key that is down after the step is one that was down and is no
\* modifier, or it is down for a reason.
LEMMA OutSet ==
    ASSUME OutInv, HeldKept, Sane(out'),
           \A x \in out'.keystate : \/ x \in out.keystate \ ModKeys
                                    \/ x \in KeysOf(ModsOf(layer_state'))
                                    \/ x \in ModKeys /\ Loose'
                                    \/ HeldDown(x)'
    PROVE  OutInv'
<1>1. ASSUME NEW x \in out'.keystate PROVE Justified(x)'
  <2>1. CASE x \in out.keystate \ ModKeys
    <3>1. HeldDown(x)
      BY <2>1, ModsOfType DEF OutInv, Justified
    <3> QED BY <3>1 DEF HeldKept, Justified
  <2>2. CASE x \in KeysOf(ModsOf(layer_state')) \/ (x \in ModKeys /\ Loose') \/ HeldDown(x)'
    BY <2>2 DEF Justified
  <2> QED BY <2>1, <2>2
<1> QED BY <1>1 DEF OutInv

LEMMA OutSame ==
    ASSUME OutInv, HeldKept, LooseKept, out' = out, ModsOf(layer_state') = ModsOf(layer_state)
    PROVE  OutInv'
<1>1. ASSUME NEW x \in out'.keystate PROVE Justified(x)'
  <2>1. Justified(x)
    BY <1>1 DEF OutInv
  <2> QED BY <2>1 DEF Justified, HeldKept, LooseKept
<1> QED BY <1>1 DEF OutInv

\* The macro that is repeated keeps its key.
LEMMA RepeatOutside ==
    ASSUME RepeatKept, ReleasersKept, MacroKept, Releasing' \/ call'.pc = "key" => ~macro'.active,
           Pressing' => ~InDescriptor(callers'[1])
    PROVE  RepeatKept'
<1>1. ASSUME Repeating'
      PROVE  \E d \in Runnable : WillRelease(d)' /\ d.op \in MacroOps /\ d.macro = macro'.id
  <2>1. PICK d \in Runnable : WillRelease(d) /\ d.op \in MacroOps /\ d.macro = macro.id
    BY <1>1 DEF RepeatKept, MacroKept, Repeating
  <2>2. WillRelease(d)'
    BY <2>1 DEF ReleasersKept, SoundingOps
  <2> QED BY <1>1, <2>1, <2>2 DEF MacroKept, Repeating
<1> QED BY <1>1 DEF RepeatKept, Releases, InDescriptor

LEMMA RepeatReturned ==
    ASSUME TypeOK, RepeatKept, call.pc = "descriptor", Returned, MacroKept
    PROVE  RepeatKept'
<1>1. ASSUME Repeating'
      PROVE  \E d \in Runnable : WillRelease(d)' /\ d.op \in MacroOps /\ d.macro = macro'.id
  <2>1. PICK d \in Runnable : WillRelease(d) /\ d.op \in MacroOps /\ d.macro = macro.id
    BY <1>1 DEF RepeatKept, MacroKept, Repeating
  <2>2. call.pressed \/ d # call.d
    BY <1>1, <2>1 DEF RepeatKept, MacroKept, Repeating, Releasing
  <2>3. WillRelease(d)'
    BY <2>1, <2>2 DEF Returned, ReleasersKept, OthersKept, SoundingOps
  <2> QED BY <1>1, <2>1, <2>3 DEF MacroKept, Repeating
<1>2. Releasing' /\ call'.d.op \in MacroOps => ~Leaves(call'.d.macro)
  BY DEF Returned, RepeatKept
<1> QED BY <1>1, <1>2 DEF Returned, RepeatKept

\* Every way an action sets the layers leaves only known layers on by a oneshot.
LEMMA OneshotKept ==
    ASSUME OneshotKnown, NEW ls \in Layering, SetLayers(ls),
           \A l \in Layers : ls[l].oneshot_depth \in {0, layer_state[l].oneshot_depth} \/ l \in OneshotLayers
    PROVE  OneshotKnown'
<1>1. \A l \in Layers : layer_state'[l].oneshot_depth = ls[l].oneshot_depth
  BY PackedType DEF SetLayers
<1> QED BY <1>1 DEF OneshotKnown

LEMMA OneshotSteps ==
    ASSUME TypeOK, OneshotKnown
    PROVE  /\ SetLayers(layer_state) => OneshotKnown'
           /\ SetLayers(ClearOneshot(layer_state)) => OneshotKnown'
           /\ SetLayers(ClearLayers(layer_state)) => OneshotKnown'
           /\ \A i \in Layers : SetLayers(SetLayoutLayers(layer_state, i)) => OneshotKnown'
           /\ \A l \in Layers : SetLayers(Activate(layer_state, l)) => OneshotKnown'
           /\ \A l \in Layers : SetLayers(Deactivate(layer_state, l)) => OneshotKnown'
           /\ UNCHANGED layer_state => OneshotKnown'
<1>1. layer_state \in Layering
  BY LayersTyped
<1>2. SetLayers(layer_state) => OneshotKnown'
  BY <1>1, OneshotKept
<1>3. SetLayers(ClearOneshot(layer_state)) => OneshotKnown'
  BY <1>1, ClearOneshotType, OneshotKept
<1>4. SetLayers(ClearLayers(layer_state)) => OneshotKnown'
  BY <1>1, ClearLayersType, OneshotKept
<1>5. ASSUME NEW i \in Layers PROVE SetLayers(SetLayoutLayers(layer_state, i)) => OneshotKnown'
  BY <1>1, SetLayoutLayersType, OneshotKept
<1>6. ASSUME NEW l \in Layers PROVE SetLayers(Activate(layer_state, l)) => OneshotKnown'
  BY <1>1, ActivateType, OneshotKept
<1>7. ASSUME NEW l \in Layers PROVE SetLayers(Deactivate(layer_state, l)) => OneshotKnown'
  BY <1>1, DeactivateType, OneshotKept
<1>8. UNCHANGED layer_state => OneshotKnown'
  BY DEF OneshotKnown
<1> QED BY <1>2, <1>3, <1>4, <1>5, <1>6, <1>7, <1>8

-----------------------------------------------------------------------------
(* Steps outside process_descriptor.                                       *)

LEMMA QuietOutput ==
    ASSUME OutputInv, ~InDescriptor(call), ~InDescriptor(call'), call'.pc # "key", cache' = cache,
           pending_key'.code = pending_key.code, layer_state' = layer_state, out' = out, macro' = macro
    PROVE  OutputInv'
<1>1. ReleasersKept /\ EntriesInv' /\ ~Releasing' /\ ~Pressing'
  BY OutsideHolds DEF OutputInv
<1>2. OutInv'
  BY <1>1, KeptHeld, OutSame DEF OutputInv
<1>3. RepeatKept'
  BY <1>1, RepeatOutside DEF OutputInv, MacroKept
<1>4. OneshotKnown'
  BY DEF OutputInv, OneshotKnown
<1> QED BY <1>1, <1>2, <1>3, <1>4 DEF OutputInv

LEMMA QuietSteps ==
    ASSUME TypeOK, StructureInv, OutputInv, Looping \/ ChordHandler \/ NotPending \/ Environment
    PROVE  OutputInv'
<1>1. /\ ~InDescriptor(call) /\ layer_state' = layer_state /\ cache' = cache
      /\ pending_key' = pending_key /\ out' = out /\ macro' = macro
  <2>1. CASE Environment
    <3>1. call = IdleCall /\ UNCHANGED layerVars /\ UNCHANGED keyVars /\ out' = out /\ UNCHANGED modeVars
      BY <2>1 DEF Environment, Press, Release, Timeout, Tick, ProcessOne, Idle
    <3> QED BY <3>1 DEF IdleCall, InDescriptor, keyVars, layerVars, modeVars
  <2>2. CASE Looping \/ ChordHandler \/ NotPending
    BY <2>2 DEF Looping, NextEvent, DueBeforeNextEvent, EventsDone, Exit, ChordHandler, ReleaseChordKey,
          ChordResolving, ChordInactive, ChordDisambiguation, ChordHold, LeaveChord, InChordHandler,
          NotPending, InDescriptor, keyVars, layerVars, modeVars
  <2> QED BY <2>1, <2>2
<1>2. CASE NotPending
  <2>1. call'.pc = "timers"
    BY <1>2 DEF NotPending, Goto, Stage, ProcessEvent
  <2> QED BY <1>1, <2>1, QuietOutput DEF InDescriptor
<1>3. CASE Looping \/ ChordHandler \/ Environment
  <2>1. NoneRuns'
    BY <1>3, LoopingQuiet, ChordHandlerQuiet, EnvironmentQuiet
  <2> QED BY <1>1, <2>1, QuietOutput DEF NoneRuns, OutFrame, InDescriptor
<1> QED BY <1>2, <1>3

LEMMA PendingKeyOutput ==
    ASSUME TypeOK, StructureInv, ReasonsInv, OutputInv, PendingKey  PROVE OutputInv'
<1> DEFINE p == pending_key
           q == HoldBack(p.queue)
           action == PendingAction(q)
           f == ProcessDescriptor(p.code, action, p.dl, TRUE, call.time)
           ks == <<ProcessEvents(q), ExitEvent(call.time)>>
<1>1. /\ ~InDescriptor(call) /\ layer_state' = layer_state /\ out' = out /\ macro' = macro
      /\ callers \in Seq(Frame) /\ p.code # NoKey /\ p.code \in Codes
  BY StackTyped DEF PendingKey, PassesPendingKey, InDescriptor, layerVars, modeVars, TypeOK, KeysOK, Pending
<1>2. CASE pending_key' = [p EXCEPT !.queue = q] /\ cache' = cache /\ Goto(ExitEvent(call.time))
  <2>1. pending_key'.code = pending_key.code
    BY <1>2 DEF TypeOK, KeysOK, Pending
  <2>2. call'.pc = "exit"
    BY <1>2 DEF Goto, ExitEvent
  <2> QED BY <1>1, <1>2, <2>1, <2>2, QuietOutput DEF InDescriptor
<1>3. CASE pending_key' = NoPending /\ cache' = CacheSet(cache, p.code, action, p.dl) /\ CallThen(f, ks)
  <2>1. ~InDescriptor(callers'[1])
    <3>1. ks \in Seq({ProcessEvents(q), ExitEvent(call.time)}) /\ Len(ks) = 2
      OBVIOUS
    <3>2. Len(ks \o callers) = 2 + Len(callers) /\ Len(callers) \in Nat
      BY <1>1, <3>1
    <3>3. (ks \o callers)[1] = ProcessEvents(q)
      BY <1>1, <3>1, <3>2
    <3> QED BY <1>3, <3>3, OutFrames DEF CallThen, OutFrame, InDescriptor
  <2>2. pending_key'.code \in {NoKey, pending_key.code} \ {p.code}
    BY <1>1, <1>3 DEF NoPending
  <2>3. call' = f
    BY <1>3 DEF CallThen
  <2>4. WaitingEntry(cache, p.code)
    BY <1>1 DEF OutputInv, EntriesInv, PendingWaits
  <2> HIDE DEF p, action
  <2>5. ReleasersKept /\ EntriesInv' /\ ~Releasing' /\ ~InDescriptor(callers'[1])
    BY <1>1, <1>3, <2>1, <2>2, <2>3, <2>4, EnterHolds DEF OutputInv
  <2>6. OutInv'
    BY <1>1, <2>5, KeptHeld, OutSame DEF OutputInv
  <2>7. call'.pc # "key"
    BY <2>3 DEF ProcessDescriptor
  <2>8. RepeatKept'
    BY <1>1, <2>5, <2>7, RepeatOutside DEF OutputInv, MacroKept
  <2>9. OneshotKnown'
    BY <1>1 DEF OutputInv, OneshotKnown
  <2> QED BY <2>5, <2>6, <2>8, <2>9 DEF OutputInv
<1> QED BY <1>2, <1>3 DEF PendingKey

LEMMA KeyPressedOutput ==
    ASSUME TypeOK, StructureInv, ReasonsInv, OutputInv, KeyPressed  PROVE OutputInv'
<1> DEFINE b == LookupDescriptor(call.code)
           f == ProcessDescriptor(call.code, b.d, b.dl, TRUE, call.time)
           ks == <<ExitEvent(call.time)>>
<1>1. /\ ~InDescriptor(call) /\ layer_state' = layer_state /\ out' = out /\ macro' = macro
      /\ callers \in Seq(Frame) /\ call.code # NoKey /\ pending_key' = pending_key
      /\ call.code # pending_key.code
  BY StackTyped DEF KeyPressed, InDescriptor, layerVars, modeVars, StructureInv, StackInv,
                    KeyKnown, ReasonsInv, KeyPassed
<1>2. call.code \in Codes
  BY EventStages DEF KeyPressed, HandlesEvent
<1>3. CASE Goto(ExitEvent(call.time)) /\ cache' = cache
  <2>1. call'.pc = "exit"
    BY <1>3 DEF Goto, ExitEvent
  <2> QED BY <1>1, <1>3, <2>1, QuietOutput DEF InDescriptor
<1>4. CASE Cached(cache, call.code) = {} /\ cache' = CacheSet(cache, call.code, b.d, b.dl) /\ CallThen(f, ks)
  <2>1. ~InDescriptor(callers'[1])
    <3>1. ks \in Seq({ExitEvent(call.time)}) /\ Len(ks) = 1
      OBVIOUS
    <3>2. Len(ks \o callers) = 1 + Len(callers) /\ Len(callers) \in Nat
      BY <1>1, <3>1
    <3>3. (ks \o callers)[1] = ExitEvent(call.time)
      BY <1>1, <3>1, <3>2
    <3> QED BY <1>4, <3>3, OutFrames DEF CallThen, OutFrame, InDescriptor
  <2>2. call' = f
    BY <1>4 DEF CallThen
  <2>3. WaitingEntry(cache, call.code)
    BY <1>4 DEF Cached, WaitingEntry
  <2> HIDE DEF b
  <2>4. ReleasersKept /\ EntriesInv' /\ ~Releasing' /\ ~InDescriptor(callers'[1])
    BY <1>1, <1>2, <1>4, <2>1, <2>2, <2>3, EnterHolds DEF OutputInv
  <2>5. OutInv'
    BY <1>1, <2>4, KeptHeld, OutSame DEF OutputInv
  <2>6. call'.pc # "key"
    BY <2>2 DEF ProcessDescriptor
  <2>7. RepeatKept'
    BY <1>1, <2>4, <2>6, RepeatOutside DEF OutputInv, MacroKept
  <2>8. OneshotKnown'
    BY <1>1 DEF OutputInv, OneshotKnown
  <2> QED BY <2>4, <2>5, <2>7, <2>8 DEF OutputInv
<1> QED BY <1>3, <1>4 DEF KeyPressed

LEMMA KeyReleasedOutput ==
    ASSUME TypeOK, StructureInv, ReasonsInv, OutputInv, KeyReleased  PROVE OutputInv'
<1>1. /\ ~InDescriptor(call) /\ layer_state' = layer_state /\ out' = out /\ macro' = macro
      /\ call.pc = "key" /\ call.code # NoKey /\ pending_key' = pending_key
      /\ call.code # pending_key.code /\ UniqueEntries
  BY DEF KeyReleased, InDescriptor, layerVars, modeVars, StructureInv, StackInv,
                    KeyKnown, ReasonsInv, KeyPassed
<1>2. CASE Goto(ExitEvent(call.time)) /\ cache' = cache
  <2>1. call'.pc = "exit"
    BY <1>2 DEF Goto, ExitEvent
  <2> QED BY <1>1, <1>2, <2>1, QuietOutput DEF InDescriptor
<1>3. ASSUME NEW i \in Cached(cache, call.code), cache' = CacheClear(cache, call.code),
             CallThen(ProcessDescriptor(call.code, cache[i].d, cache[i].dl, FALSE, call.time),
                      <<ExitEvent(call.time)>>)
      PROVE  OutputInv'
  <2>1. call' = ProcessDescriptor(call.code, cache[i].d, cache[i].dl, FALSE, call.time)
    BY <1>3 DEF CallThen
  <2>2. ReleasersKept /\ EntriesInv' /\ ~Pressing'
    BY <1>1, <1>3, <2>1, LeaveHolds DEF OutputInv
  <2>3. OutInv'
    BY <1>1, <2>2, KeptHeld, OutSame DEF OutputInv
  <2>4. ~macro'.active
    BY <1>1 DEF OutputInv, RepeatKept
  <2>5. RepeatKept'
    BY <1>1, <2>2, <2>4, RepeatOutside DEF OutputInv, MacroKept
  <2>6. OneshotKnown'
    BY <1>1 DEF OutputInv, OneshotKnown
  <2> QED BY <2>2, <2>3, <2>5, <2>6 DEF OutputInv
<1> QED BY <1>2, <1>3 DEF KeyReleased

\* The end of the oneshots and the repetition of a macro set the modifiers anew.
LEMMA TimersOutput ==
    ASSUME TypeOK, StructureInv, OutputInv, Timers  PROVE OutputInv'
<1> DEFINE ls == IF OneshotExpired THEN ClearOneshot(layer_state) ELSE layer_state
           o == IF OneshotExpired THEN UpdateMods(out, ls, NoLayer, {}) ELSE out
           mods == (out.keystate \ ModKeys) \cup KeysOf(ModsOf(layer_state'))
<1>1. /\ ~InDescriptor(call) /\ cache' = cache /\ pending_key' = pending_key /\ SetLayers(ls)
      /\ call' = IF call.code = NoKey THEN ExitEvent(call.time) ELSE Stage("key")
  BY DEF Timers, Goto, InDescriptor, keyVars
<1>2. /\ ~InDescriptor(call') /\ (call'.pc = "key" => call.code # NoKey)
  BY <1>1 DEF Stage, ProcessEvent, ExitEvent, InDescriptor
<1>3. ReleasersKept /\ EntriesInv' /\ ~Releasing' /\ ~Pressing'
  BY <1>1, <1>2, OutsideHolds DEF OutputInv
<1>4. ls \in Layering /\ (~OneshotExpired => ls = layer_state)
      /\ ls \in {layer_state, ClearOneshot(layer_state)}
  BY LayersTyped, ClearOneshotType
<1>5. OneshotKnown'
  BY <1>1, <1>4, OneshotSteps DEF OutputInv
<1>6. ModsOf(layer_state') = ModsOf(ls)
  <2> HIDE DEF ls
  <2> QED BY <1>1, <1>4, PackedActive
<1>7. out \in Output /\ Sane(out) /\ macro.id \in MacroIds /\ {} \in SUBSET Mods /\ KeysOf({}) = {}
  BY LayersTyped, ModesTyped DEF OutputInv, OutInv, KeysOf
<1>8. /\ o \in Output /\ Sane(o) /\ o.keystate \ ModKeys \subseteq out.keystate \ ModKeys
      /\ OneshotExpired => o.keystate \subseteq mods
      /\ ~OneshotExpired => o = out
  <2>1. CASE OneshotExpired
    <3>1. o = UpdateModsQuietly(out, ls, NoLayer, {}, FALSE)
      BY <2>1 DEF UpdateMods
    <3> HIDE DEF o, ls
    <3> QED BY <1>6, <1>7, <2>1, <3>1, UpdateModsSets, ModsOfType
  <2>2. CASE ~OneshotExpired
    BY <1>7, <2>2
  <2> QED BY <2>1, <2>2
<1>9. \A m : UpdateMods(o, ls, NoLayer, m) = UpdateModsQuietly(o, ls, NoLayer, m, FALSE)
  BY DEF UpdateMods
<1>10. HeldKept
  BY <1>3, KeptHeld
<1> HIDE DEF o, ls
<1>11. CASE /\ macro.active /\ call.code # NoKey /\ macro' = [macro EXCEPT !.active = FALSE]
            /\ out' = UpdateMods(o, ls, NoLayer, {})
  <2>1. ~macro'.active
    BY <1>11, ModesTyped
  <2>2. Sane(out') /\ out'.keystate \subseteq mods
    BY <1>6, <1>7, <1>8, <1>9, <1>11, UpdateModsSets
  <2>3. OutInv'
    BY <1>10, <2>2, OutSet DEF OutputInv
  <2>4. RepeatKept'
    BY <1>3, <2>1, RepeatOutside DEF OutputInv, MacroKept
  <2> QED BY <1>3, <1>5, <2>3, <2>4 DEF OutputInv
<1>12. CASE /\ macro.active /\ call.code = NoKey
            /\ macro' = [macro EXCEPT !.timeout = call.time + macro.repeat]
            /\ out' = ExecuteMacro(o, ls, macro.dl, Macros[macro.id])
  <2>1. macro'.active = macro.active /\ macro'.id = macro.id
    BY <1>12, ModesTyped
  <2>2. /\ Sane(out') /\ out'.keystate \subseteq (out.keystate \ ModKeys) \cup ModKeys
        /\ ~Leaves(macro.id) => out'.keystate \subseteq mods
    BY <1>6, <1>7, <1>8, <1>12, ExecuteMacroSets
  <2>3. Leaves(macro.id) => Loose'
    BY <1>12, <2>1 DEF Loose, Repeating
  <2>4. OutInv'
    BY <1>10, <2>2, <2>3, OutSet DEF OutputInv
  <2>5. RepeatKept'
    BY <1>2, <1>3, <1>12, <2>1, RepeatOutside DEF OutputInv, MacroKept
  <2> QED BY <1>3, <1>5, <2>4, <2>5 DEF OutputInv
<1>13. CASE (~macro.active \/ call.code = NoKey) /\ out' = o /\ macro' = macro
  <2>1. ASSUME OneshotExpired PROVE OutInv'
    BY <1>8, <1>10, <1>13, <2>1, OutSet DEF OutputInv
  <2>2. ASSUME ~OneshotExpired PROVE OutInv'
    BY <1>3, <1>4, <1>6, <1>8, <1>13, <2>2, KeptHeld, OutSame DEF OutputInv
  <2>3. RepeatKept'
    BY <1>2, <1>3, <1>13, RepeatOutside DEF OutputInv, MacroKept
  <2> QED BY <1>3, <1>5, <2>1, <2>2, <2>3 DEF OutputInv
<1> QED BY <1>11, <1>12, <1>13 DEF Timers, o, ls

-----------------------------------------------------------------------------
(* Leaving process_descriptor.                                             *)

LEMMA ReturnKeeps ==
    ASSUME Returned
    PROVE  /\ call.pressed \/ call.d.op # "keysequence" => HeldKept
           /\ (call.pressed \/ ~Letting(call.d)) /\ macro' = macro => LooseKept
<1>1. ASSUME NEW d \in Runnable, WillRelease(d), d.op \in SoundingOps, call.pressed \/ d # call.d
      PROVE  WillRelease(d)'
  BY <1>1 DEF Returned, ReleasersKept, OthersKept
<1>2. ASSUME call.pressed \/ call.d.op # "keysequence", NEW x, HeldDown(x) PROVE HeldDown(x)'
  <2>1. PICK d \in Runnable : WillRelease(d) /\ d.op = "keysequence" /\ d.code = x
    BY <1>2 DEF HeldDown
  <2>2. WillRelease(d)'
    BY <1>1, <1>2, <2>1 DEF SoundingOps
  <2> QED BY <2>1, <2>2 DEF HeldDown
<1>3. ASSUME call.pressed \/ ~Letting(call.d), macro' = macro, Loose PROVE Loose'
  <2>1. CASE Repeating
    BY <1>3, <2>1 DEF Loose, Repeating
  <2>2. ASSUME NEW d \in Runnable, WillRelease(d), Letting(d) PROVE Loose'
    <3>1. WillRelease(d)'
      BY <1>1, <1>3, <2>2 DEF SoundingOps, Letting
    <3> QED BY <2>2, <3>1 DEF Loose
  <2> QED BY <1>3, <2>1, <2>2 DEF Loose
<1> QED BY <1>2, <1>3 DEF HeldKept, LooseKept

LEMMA SilentReturn ==
    ASSUME TypeOK, OutputInv, call.pc = "descriptor", Returned, call.pressed \/ ~Letting(call.d),
           out' = out, ModsOf(layer_state') = ModsOf(layer_state), OneshotKnown', macro' = macro
    PROVE  OutputInv'
<1>1. HeldKept /\ LooseKept
  BY ReturnKeeps DEF Letting
<1>2. OutInv'
  BY <1>1, OutSame DEF OutputInv
<1>3. RepeatKept'
  BY RepeatReturned DEF OutputInv, MacroKept
<1> QED BY <1>2, <1>3 DEF OutputInv, Returned

\* The modifiers are those of the layers, and no other key goes down.
LEMMA SetReturn ==
    ASSUME TypeOK, OutputInv, call.pc = "descriptor", Returned, call.pressed \/ call.d.op # "keysequence",
           MacroKept, OneshotKnown', Sane(out'),
           out'.keystate \subseteq (out.keystate \ ModKeys) \cup KeysOf(ModsOf(layer_state'))
    PROVE  OutputInv'
<1>1. OutInv'
  BY ReturnKeeps, OutSet DEF OutputInv
<1> QED BY <1>1, RepeatReturned DEF OutputInv, Returned

\* The actions that change no entry of the cache.
LEMMA PlainReturned ==
    ASSUME TypeOK, StructureInv, ReasonsInv, OutputInv,
           \/ OpKeySequence \/ OpScroll \/ OpOverloadTimeout \/ OpTimeout \/ OpMacro \/ OpCommand
           \/ OpClear \/ OpLayout \/ OneshotReleased \/ SwapReleased
           \/ OpOverloadIdle /\ ~call.pressed
    PROVE  Returned
<1>1. /\ call.pc = "descriptor" /\ Return /\ cache' = cache
      /\ \/ pending_key' = pending_key
         \/ /\ call.pressed /\ call.d.op \in WaitingOps
            /\ \E behaviour, expire, a1, a2 : BecomePending(behaviour, expire, a1, a2)
  BY DEF OpKeySequence, OpScroll, OpOverloadTimeout, OpTimeout, OpMacro, OpCommand, OpClear,
         OpLayout, OneshotReleased, SwapReleased, OpOverloadIdle, Executing, Done, keyVars,
         WaitingOps, TapHoldOps
<1>2. ASSUME NEW behaviour, NEW expire, NEW a1, NEW a2, BecomePending(behaviour, expire, a1, a2)
      PROVE  pending_key'.code = call.code
  <2>1. pending_key \in Pending
    BY DEF TypeOK, KeysOK
  <2> QED BY <1>2, <2>1 DEF BecomePending, Pending
<1>3. \/ pending_key'.code = pending_key.code
      \/ pending_key'.code = call.code /\ call.pressed /\ call.d.op \in WaitingOps
  BY <1>1, <1>2
<1> QED BY <1>1, <1>3, ReturnHolds DEF OutputInv

\* The key of a layer, or a toggle: the layer is noted in the entry of the key.
LEMMA HoldReturned ==
    ASSUME TypeOK, StructureInv, ReasonsInv, OutputInv,
           OpLayer \/ OverloadPressed \/ OneshotPressed \/ OpToggle
    PROVE  Returned
<1>1. /\ call.pc = "descriptor" /\ Return /\ pending_key' = pending_key
      /\ cache' = cache \/ (call.pressed /\ cache' = CacheLayer(cache, call.code, call.d.layer))
  BY DEF OpLayer, OverloadPressed, OneshotPressed, OpToggle, Executing, Done, layerVars
<1>2. \A i \in Slots : cache'[i].code = cache[i].code /\ cache'[i].d = cache[i].d
  BY <1>1, DescriptorRuns, CacheLayerTouched
<1> QED BY <1>1, <1>2, ReturnHolds DEF OutputInv

\* A swap may replace the descriptor of an entry that holds a layer.
LEMMA SwapReturned ==
    ASSUME SwapToggleDisjoint, TypeOK, StructureInv, ReasonsInv, OutputInv, SwapPressed
    PROVE  Returned
<1>1. /\ call.pc = "descriptor" /\ call.pressed /\ Return /\ pending_key' = pending_key
      /\ call.dl \in Layers /\ SwapHome(call.dl)
  BY SwapPressedSteps
<1>2. CASE cache' = cache
  BY <1>1, <1>2, ReturnHolds DEF OutputInv
<1>3. CASE SwapOfKey(call.dl, call.d.layer)
  <2>1. PICK i \in SwappedSlot :
           cache' = [cache EXCEPT ![i].d.op = "layer", ![i].d.layer = call.d.layer, ![i].layer = call.d.layer]
    BY <1>3 DEF SwapOfKey
  <2>2. i \in Slots /\ cache[i].code # NoKey /\ cache[i].layer = call.dl /\ call.dl # 0
    BY DEF SwappedSlot, Swappable
  <2>3. /\ \A j \in Slots : j # i => cache'[j] = cache[j]
        /\ cache'[i].code = cache[i].code
    <3> DEFINE e == cache[i]
               e1 == [e EXCEPT !.d = [@ EXCEPT !.op = "layer", !.layer = call.d.layer],
                               !.layer = call.d.layer]
    <3>1. e \in Entry /\ cache \in [Slots -> Entry]
      BY <2>2, ModesTyped
    <3>2. cache' = [cache EXCEPT ![i] = e1]
      BY <2>1
    <3>3. e1.code = e.code
      <4> HIDE DEF e
      <4> QED BY <3>1 DEF Entry
    <3> HIDE DEF e1
    <3> QED BY <2>2, <3>1, <3>2, <3>3
  <2>4. cache[i].d.op \in HoldOps
    BY <1>1, <2>2 DEF ReasonsInv, LayerHeld, Holds
  <2> QED BY <1>1, <2>3, <2>4, ReturnHolds DEF OutputInv
<1> QED BY <1>2, <1>3, SwapPressedSteps DEF SwapOfToggle, SwapOfOneshot, SwapOfNothing

-----------------------------------------------------------------------------
(* The actions.                                                            *)

\* The ways an action ends: with update_mods, or with a macro whose modifiers,
\* if it has any, somebody lets go of.
LEMMA ModsReturn ==
    ASSUME TypeOK, OutputInv, call.pc = "descriptor", Returned, call.pressed \/ call.d.op # "keysequence",
           MacroKept, OneshotKnown', NEW o \in Output, Sane(o), o.keystate \ ModKeys \subseteq out.keystate,
           NEW ls, ModsOf(ls) \subseteq ModsOf(layer_state'), NEW excluded, NEW inhibit,
           out' = UpdateModsQuietly(o, ls, excluded, {}, inhibit)
    PROVE  OutputInv'
<1>1. {} \in SUBSET Mods /\ KeysOf({}) = {} /\ KeysOf(ModsOf(ls)) \subseteq KeysOf(ModsOf(layer_state'))
  BY DEF KeysOf
<1>2. Sane(out') /\ out'.keystate \subseteq (o.keystate \ ModKeys) \cup KeysOf(ModsOf(ls))
  BY <1>1, UpdateModsSets
<1>3. out'.keystate \subseteq (out.keystate \ ModKeys) \cup KeysOf(ModsOf(layer_state'))
  BY <1>1, <1>2
<1> QED BY <1>2, <1>3, SetReturn

LEMMA MacroReturn ==
    ASSUME TypeOK, OutputInv, call.pc = "descriptor", Returned, call.pressed \/ call.d.op # "keysequence",
           MacroKept, OneshotKnown', NEW o \in Output, Sane(o), o.keystate \ ModKeys \subseteq out.keystate,
           NEW ls, ModsOf(ls) \subseteq ModsOf(layer_state'), NEW dl, NEW m \in MacroIds, ~Leaves(m) \/ Loose',
           out' = ExecuteMacro(o, ls, dl, Macros[m])
    PROVE  OutputInv'
<1>1. KeysOf(ModsOf(ls)) \subseteq KeysOf(ModsOf(layer_state'))
  BY DEF KeysOf
<1>2. /\ Sane(out') /\ out'.keystate \subseteq (o.keystate \ ModKeys) \cup ModKeys
      /\ ~Leaves(m) => out'.keystate \subseteq (o.keystate \ ModKeys) \cup KeysOf(ModsOf(ls))
  BY ExecuteMacroSets
<1>3. CASE ~Leaves(m)
  BY <1>1, <1>2, <1>3, SetReturn
<1>4. CASE Loose'
  <2>1. OutInv'
    BY <1>2, <1>4, ReturnKeeps, OutSet DEF OutputInv
  <2> QED BY <2>1, RepeatReturned DEF OutputInv, Returned
<1> QED BY <1>3, <1>4

\* What the actions find.
LEMMA OutputFound ==
    ASSUME TypeOK, OutputInv
    PROVE  out \in Output /\ Sane(out) /\ layer_state \in Layering /\ OneshotKnown
  BY LayersTyped DEF OutputInv, OutInv

\* The macro of an ...m action leaves no other key down.
LEMMA MacroFirstSets ==
    ASSUME TypeOK, OutputInv, call.pc = "descriptor"
    PROVE  MacroFirst \in Output /\ Sane(MacroFirst) /\ MacroFirst.keystate \ ModKeys \subseteq out.keystate
  BY OutputFound, DescriptorRuns, ExecuteMacroSets DEF MacroFirst

\* An action that touches neither layers nor output.
LEMMA SilentOps ==
    ASSUME TypeOK, StructureInv, ReasonsInv, OutputInv,
           \/ OpScroll \/ OpOverloadTimeout \/ OpTimeout
           \/ (OpClear \/ OpLayout \/ OpMacro \/ OpCommand \/ OpToggle \/ OpOverloadIdle) /\ ~call.pressed
    PROVE  OutputInv'
<1>1. Returned
  BY PlainReturned, HoldReturned
<1>2. /\ call.pc = "descriptor" /\ out' = out /\ layer_state' = layer_state /\ macro' = macro
      /\ ~Letting(call.d)
  BY DEF OpScroll, OpOverloadTimeout, OpTimeout, OpClear, OpLayout, OpMacro, OpCommand, OpToggle,
         OpOverloadIdle, Executing, Letting, ToggleOps, layerVars, modeVars
<1> QED BY <1>1, <1>2, SilentReturn, OneshotSteps DEF OutputInv

\* clear and setlayout let go of everything, and end the macro that is repeated.
LEMMA ClearingOutput ==
    ASSUME ModsGivenBack, TypeOK, StructureInv, ReasonsInv, OutputInv, OpClear \/ OpLayout, call.pressed
    PROVE  OutputInv'
<1> DEFINE o == ResetKeystate(out)
           ls == ClearLayers(layer_state)
<1>1. Returned
  BY PlainReturned
<1>2. /\ call.pc = "descriptor" /\ macro' = [macro EXCEPT !.active = FALSE]
      /\ \/ call.d.op \in {"clear", "clearm"} /\ SetLayers(ls)
         \/ call.d.op = "layout" /\ SetLayers(SetLayoutLayers(layer_state, call.d.layer))
      /\ \/ out' = o
         \/ call.d.op = "clearm" /\ SetLayers(ls) /\ out' = ExecuteMacro(o, ls, call.dl, Macros[call.d.macro])
  BY DEF OpClear, OpLayout, Executing, ClearModes
<1>3. call.d.layer \in Layers /\ call.d.macro \in MacroIds /\ call.d \in Runnable
  BY <1>2, DescriptorRuns
<1>4. o \in Output /\ Sane(o) /\ o.keystate = {}
  BY OutputFound, ResetKeystateSets
<1>5. ls \in Layering
  BY OutputFound, ClearLayersType
<1>6. OneshotKnown'
  BY <1>2, <1>3, OneshotSteps DEF OutputInv
<1>7. MacroKept
  BY <1>2, ModesTyped DEF MacroKept
<1> HIDE DEF o, ls
<1>8. CASE out' = o
  BY <1>1, <1>2, <1>4, <1>6, <1>7, <1>8, SetReturn
<1>9. CASE call.d.op = "clearm" /\ SetLayers(ls) /\ out' = ExecuteMacro(o, ls, call.dl, Macros[call.d.macro])
  <2>1. ~Leaves(call.d.macro)
    BY <1>3, <1>9 DEF Runnable, ModsGivenBack
  <2>2. ModsOf(ls) \subseteq ModsOf(layer_state')
    BY <1>5, <1>9, PackedActive
  <2> QED BY <1>1, <1>2, <1>3, <1>4, <1>6, <1>7, <1>9, <2>1, <2>2, MacroReturn
<1> QED BY <1>2, <1>8, <1>9

LEMMA CommandOutput ==
    ASSUME TypeOK, StructureInv, ReasonsInv, OutputInv, OpCommand  PROVE OutputInv'
<1>1. CASE ~call.pressed
  BY <1>1, SilentOps
<1>2. CASE call.pressed
  <2> DEFINE ls == ClearOneshot(layer_state)
  <2>1. Returned
    BY PlainReturned
  <2>2. /\ call.pc = "descriptor" /\ macro' = macro /\ SetLayers(ls)
        /\ out' = UpdateModsQuietly(out, ls, NoLayer, {}, FALSE)
    BY <1>2 DEF OpCommand, Executing, UpdateMods
  <2>3. OneshotKnown'
    BY <2>2, OneshotSteps DEF OutputInv
  <2>4. ls \in Layering
    BY OutputFound, ClearOneshotType
  <2> HIDE DEF ls
  <2>5. ModsOf(ls) \subseteq ModsOf(layer_state')
    BY <2>2, <2>4, PackedActive
  <2> QED BY <1>2, <2>1, <2>2, <2>3, <2>5, OutputFound, ModsReturn DEF MacroKept
<1> QED BY <1>1, <1>2

\* A key of a layer goes down or up.
LEMMA HoldOutput ==
    ASSUME TypeOK, StructureInv, ReasonsInv, OutputInv, OpLayer \/ OverloadPressed \/ OneshotPressed
    PROVE  OutputInv'
<1> DEFINE l == call.d.layer
           ls == IF call.pressed THEN Activate(layer_state, l) ELSE Deactivate(layer_state, l)
<1>1. Returned
  BY HoldReturned
<1>2. /\ call.pc = "descriptor" /\ call.d.op \in HoldOps /\ macro' = macro /\ SetLayers(ls)
      /\ \E o \in {out, MacroFirst} : \E excluded, inhibit :
            out' = UpdateModsQuietly(o, ls, excluded, {}, inhibit)
  BY DEF OpLayer, OverloadPressed, OneshotPressed, Executing, UpdateMods, HoldOps, modeVars
<1>3. l \in Layers
  BY <1>2, DescriptorRuns
<1>4. OneshotKnown'
  BY <1>2, <1>3, OneshotSteps DEF OutputInv
<1>5. ls \in Layering
  BY <1>3, OutputFound, ActivateType, DeactivateType
<1> HIDE DEF ls
<1>6. ModsOf(ls) \subseteq ModsOf(layer_state')
  BY <1>2, <1>5, PackedActive
<1>7. PICK o \in {out, MacroFirst} : \E excluded, inhibit :
            out' = UpdateModsQuietly(o, ls, excluded, {}, inhibit)
  BY <1>2
<1>8. o \in Output /\ Sane(o) /\ o.keystate \ ModKeys \subseteq out.keystate
  BY <1>2, OutputFound, MacroFirstSets
<1> QED BY <1>1, <1>2, <1>4, <1>6, <1>7, <1>8, ModsReturn DEF MacroKept, HoldOps

LEMMA OneshotReleasedOutput ==
    ASSUME TypeOK, StructureInv, ReasonsInv, OutputInv, OneshotReleased  PROVE OutputInv'
<1> DEFINE l == call.d.layer
           n == (layer_state[l].oneshot_depth + 1) % CounterSize
           ls == [layer_state EXCEPT ![l].oneshot_depth = n]
<1>1. Returned
  BY PlainReturned
<1>2. /\ call.pc = "descriptor" /\ call.d.op \in OneshotOps /\ macro' = macro
      /\ \/ SetLayers(ls) /\ out' = out
         \/ /\ SetLayers(Deactivate(layer_state, l))
            /\ out' = UpdateModsQuietly(out, Deactivate(layer_state, l), NoLayer, {}, FALSE)
  BY DEF OneshotReleased, Executing, UpdateMods, OneshotOps
<1>3. l \in Layers /\ l \in OneshotLayers
  BY <1>2, DescriptorRuns DEF Runnable
<1>4. CASE SetLayers(ls) /\ out' = out
  <2> DEFINE s == layer_state
  <2>1. n \in Nat /\ s \in Layering
    BY <1>3, OutputFound, SizesAssumption DEF Layering, LayerState
  <2>2. ls = [s EXCEPT ![l].oneshot_depth = n]
    OBVIOUS
  <2> HIDE DEF ls, s, l, n
  <2>3. /\ ls \in Layering
        /\ \A k \in Layers : /\ ls[k].active = s[k].active
                             /\ k # l => ls[k].oneshot_depth = s[k].oneshot_depth
    BY <1>3, <2>1, <2>2 DEF Layering, LayerState
  <2>4. OneshotKnown'
    BY <1>3, <1>4, <2>3, OneshotKept DEF OutputInv, s
  <2>5. ModsOf(layer_state') = ModsOf(layer_state)
    <3>1. Active(ls) = Active(s)
      BY <2>3 DEF Active
    <3> QED BY <1>4, <2>3, <3>1, PackedActive DEF ModsOf, s
  <2> QED BY <1>1, <1>2, <1>4, <2>4, <2>5, SilentReturn DEF Letting, OneshotOps
<1>5. CASE /\ SetLayers(Deactivate(layer_state, l))
           /\ out' = UpdateModsQuietly(out, Deactivate(layer_state, l), NoLayer, {}, FALSE)
  <2> DEFINE d == Deactivate(layer_state, l)
  <2>1. OneshotKnown'
    BY <1>3, <1>5, OneshotSteps DEF OutputInv
  <2>2. d \in Layering
    BY <1>3, OutputFound, DeactivateType
  <2> HIDE DEF d
  <2>3. ModsOf(d) \subseteq ModsOf(layer_state')
    BY <1>5, <2>2, PackedActive DEF d
  <2> QED BY <1>1, <1>2, <1>5, <2>1, <2>3, OutputFound, ModsReturn DEF MacroKept, OneshotOps, d
<1> QED BY <1>2, <1>4, <1>5

\* update_mods sees a toggled layer before the oneshots end: the layers that
\* are on only then have no modifiers.
LEMMA ToggleOutput ==
    ASSUME ModsGivenBack, TypeOK, StructureInv, ReasonsInv, OutputInv, OpToggle, call.pressed
    PROVE  OutputInv'
<1> DEFINE l == call.d.layer
           on == layer_state[l].toggled = 0
           a == IF on THEN Activate(layer_state, l) ELSE Deactivate(layer_state, l)
           n == IF on THEN 1 ELSE 0
           ls == [a EXCEPT ![l].toggled = n]
           cleared == ClearOneshot(ls)
<1>1. Returned
  BY HoldReturned
<1>2. /\ call.pc = "descriptor" /\ call.d.op \in ToggleOps /\ macro' = macro /\ SetLayers(cleared)
      /\ out' = UpdateModsQuietly(MacroFirst, ls, NoLayer, {}, FALSE)
  BY DEF OpToggle, Executing, UpdateMods
<1>3. l \in Layers /\ l \in ToggledLayers /\ layer_state \in Layering
  BY <1>2, DescriptorRuns, LayersTyped DEF Runnable
<1>4. a \in Layering /\ \A k \in Layers : a[k].oneshot_depth = layer_state[k].oneshot_depth
  <2>1. CASE on
    <3>1. a = Activate(layer_state, l)
      BY <2>1
    <3> HIDE DEF a
    <3> QED BY <1>3, <3>1, ActivateType
  <2>2. CASE ~on
    <3>1. a = Deactivate(layer_state, l)
      BY <2>2
    <3> HIDE DEF a
    <3> QED BY <1>3, <3>1, DeactivateType
  <2> QED BY <2>1, <2>2
<1>5. n \in {0, 1}
  OBVIOUS
<1> HIDE DEF a, n
<1>6. ls \in Layering /\ \A k \in Layers : ls[k].oneshot_depth = a[k].oneshot_depth
  BY <1>3, <1>4, <1>5 DEF Layering, LayerState
<1> HIDE DEF ls
<1>7. /\ cleared \in Layering
      /\ \A k \in Layers : /\ cleared[k].oneshot_depth = 0
                           /\ cleared[k].active = ls[k].active - layer_state[k].oneshot_depth
  BY <1>4, <1>6, ClearOneshotType
<1> HIDE DEF cleared
<1>8. OneshotKnown'
  BY <1>2, <1>7, OneshotKept DEF OutputInv
<1>9. ModsOf(ls) \subseteq ModsOf(layer_state')
  <2>1. ASSUME NEW k \in Active(ls), LayerMods[k] # {} PROVE k \in Active(cleared)
    <3>1. k \in Layers /\ ls[k].active > 0 /\ ls[k].active \in Int
      BY <1>6, <2>1 DEF Active, Layering, LayerState
    <3>2. layer_state[k].oneshot_depth = 0
      BY <1>3, <2>1, <3>1 DEF ModsGivenBack, OutputInv, OneshotKnown
    <3> QED BY <1>7, <3>1, <3>2 DEF Active
  <2>2. ModsOf(ls) \subseteq ModsOf(cleared)
    BY <2>1 DEF ModsOf
  <2> QED BY <1>2, <1>7, <2>2, PackedActive
<1> QED BY <1>1, <1>2, <1>8, <1>9, MacroFirstSets, ModsReturn DEF MacroKept, ToggleOps

\* A key sequence leaves its key down, and its modifiers, until it is let go of.
LEMMA KeySequencePressed ==
    ASSUME TypeOK, StructureInv, ReasonsInv, OutputInv, OpKeySequence, call.pressed
    PROVE  OutputInv'
<1>1. Returned
  BY PlainReturned
<1>2. PICK d \in Runnable : d = call.d /\ d.code \in Codes /\ d.mods \in SUBSET Mods
  BY DescriptorRuns DEF OpKeySequence, Executing
<1> DEFINE o1 == IF d.code \in out.keystate THEN SendKey(out, d.code, FALSE) ELSE out
           o2 == UpdateModsQuietly(o1, layer_state, call.dl, d.mods, FALSE)
<1>3. /\ call.pc = "descriptor" /\ d.op = "keysequence" /\ macro' = macro
      /\ SetLayers(ClearOneshot(layer_state)) /\ out' = SendKey(o2, d.code, TRUE)
  BY <1>2 DEF OpKeySequence, Executing, UpdateMods
<1>4. o1 \in Output /\ Sane(o1) /\ o1.keystate \subseteq out.keystate
  <2> DEFINE c == d.code
             o == SendKey(out, c, FALSE)
  <2>1. /\ o \in Output /\ Sane(o)
        /\ o.keystate = IF c \in Unsent THEN out.keystate ELSE out.keystate \ {c}
    <3>1. c \in Codes
      BY <1>2
    <3> HIDE DEF c
    <3> QED BY <3>1, OutputFound, SendKeySets
  <2> HIDE DEF o
  <2>2. o.keystate \subseteq out.keystate
    BY <2>1
  <2>3. o1 = o \/ o1 = out
    BY DEF o
  <2> HIDE DEF o1
  <2> QED BY <2>1, <2>2, <2>3, OutputFound
<1> HIDE DEF o1
<1>5. /\ o2 \in Output /\ Sane(o2) /\ o2.keystate \subseteq (o1.keystate \ ModKeys) \cup ModKeys
  <2>1. KeysOf(d.mods) \subseteq ModKeys /\ KeysOf(ModsOf(layer_state)) \subseteq ModKeys
    BY <1>2, ModKeysOf, ModsOfType
  <2> QED BY <1>2, <1>4, <2>1, UpdateModsSets
<1> HIDE DEF o2
<1>6. Sane(out') /\ out'.keystate \subseteq o2.keystate \cup {d.code}
  BY <1>2, <1>3, <1>5, SendKeySets
<1>7. WillRelease(d)'
  BY <1>1, <1>2, <1>3 DEF Returned, CallKept, SoundingOps
<1>8. Loose' /\ HeldDown(d.code)'
  BY <1>2, <1>3, <1>7 DEF Loose, Letting, HeldDown
<1>9. OutInv'
  <2>1. HeldKept /\ OutInv
    BY <1>1, ReturnKeeps DEF OutputInv
  <2>2. ASSUME NEW x \in out'.keystate
        PROVE  \/ x \in out.keystate \ ModKeys
               \/ x \in ModKeys /\ Loose'
               \/ HeldDown(x)'
    <3>1. CASE x = d.code
      BY <1>8, <3>1
    <3>2. CASE x # d.code
      BY <1>4, <1>5, <1>6, <1>8, <2>2, <3>2
    <3> QED BY <3>1, <3>2
  <2> QED BY <1>6, <2>1, <2>2, OutSet
<1>10. OneshotKnown'
  BY <1>3, OneshotSteps DEF OutputInv
<1>11. RepeatKept'
  BY <1>1, <1>3, RepeatReturned DEF OutputInv, MacroKept
<1> QED BY <1>1, <1>9, <1>10, <1>11 DEF OutputInv, Returned

LEMMA KeySequenceReleased ==
    ASSUME TypeOK, StructureInv, ReasonsInv, OutputInv, OpKeySequence, ~call.pressed
    PROVE  OutputInv'
<1> DEFINE c == call.d.code
           o1 == SendKey(out, c, FALSE)
<1>1. Returned
  BY PlainReturned
<1>2. /\ call.pc = "descriptor" /\ macro' = macro /\ layer_state' = layer_state
      /\ call.d.op = "keysequence" /\ out' = UpdateModsQuietly(o1, layer_state, NoLayer, {}, FALSE)
  BY DEF OpKeySequence, Executing, UpdateMods
<1>3. c \in Codes /\ {} \in SUBSET Mods /\ KeysOf({}) = {}
  BY <1>2, DescriptorRuns DEF KeysOf
<1>4. /\ o1 \in Output /\ Sane(o1) /\ o1.keystate \subseteq out.keystate
      /\ c \notin o1.keystate
  <2>1. /\ o1 \in Output /\ Sane(o1)
        /\ o1.keystate = IF c \in Unsent THEN out.keystate ELSE out.keystate \ {c}
    <3> HIDE DEF c
    <3> QED BY <1>3, OutputFound, SendKeySets
  <2>2. out.keystate \cap Unsent = {}
    BY OutputFound DEF Sane
  <2> HIDE DEF o1, c
  <2> QED BY <2>1, <2>2
<1> HIDE DEF o1
<1>5. /\ Sane(out')
      /\ out'.keystate \subseteq (o1.keystate \ ModKeys) \cup KeysOf(ModsOf(layer_state))
  BY <1>2, <1>3, <1>4, UpdateModsSets
<1>6. ASSUME NEW x \in out'.keystate PROVE Justified(x)'
  <2>1. CASE x \in KeysOf(ModsOf(layer_state))
    BY <1>2, <2>1 DEF Justified
  <2>2. CASE x \in o1.keystate \ ModKeys
    <3>1. HeldDown(x) /\ x # c
      BY <1>4, <2>2, ModsOfType DEF OutputInv, OutInv, Justified
    <3>2. PICK d \in Runnable : WillRelease(d) /\ d.op = "keysequence" /\ d.code = x
      BY <3>1 DEF HeldDown
    <3>3. WillRelease(d)'
      BY <1>1, <3>1, <3>2 DEF Returned, OthersKept, SoundingOps
    <3> QED BY <3>2, <3>3 DEF HeldDown, Justified
  <2> QED BY <1>5, <1>6, <2>1, <2>2
<1>7. OutInv'
  BY <1>5, <1>6 DEF OutInv
<1>8. OneshotKnown'
  BY <1>2, OneshotSteps DEF OutputInv
<1>9. RepeatKept'
  BY <1>1, <1>2, RepeatReturned DEF OutputInv, MacroKept
<1> QED BY <1>1, <1>7, <1>8, <1>9 DEF OutputInv, Returned

\* The key of a macro: its modifiers are those of the macro that is repeated.
LEMMA MacroPressed ==
    ASSUME TypeOK, StructureInv, ReasonsInv, OutputInv, OpMacro, call.pressed
    PROVE  OutputInv'
<1> DEFINE ls == ClearOneshot(layer_state)
<1>1. Returned
  BY PlainReturned
<1>2. PICK d \in Runnable : d = call.d /\ d.macro \in MacroIds
  BY DescriptorRuns DEF OpMacro, Executing
<1>3. /\ call.pc = "descriptor" /\ d.op \in MacroOps /\ macro'.active = TRUE /\ macro'.id = d.macro
      /\ SetLayers(ls) /\ out' = ExecuteMacro(out, ls, call.dl, Macros[d.macro])
  BY <1>2 DEF OpMacro, Executing, MacroOps
<1>4. ls \in Layering
  BY OutputFound, ClearOneshotType
<1>5. OneshotKnown'
  BY <1>3, OneshotSteps DEF OutputInv
<1>6. WillRelease(d)'
  BY <1>1, <1>2, <1>3 DEF Returned, CallKept, SoundingOps
<1> HIDE DEF ls
<1>7. /\ Sane(out') /\ out'.keystate \subseteq (out.keystate \ ModKeys) \cup ModKeys
      /\ ~Leaves(d.macro) => out'.keystate \subseteq (out.keystate \ ModKeys) \cup KeysOf(ModsOf(layer_state'))
  <2>1. ModsOf(layer_state') = ModsOf(ls)
    BY <1>3, <1>4, PackedActive
  <2> QED BY <1>2, <1>3, <2>1, OutputFound, ExecuteMacroSets
<1>8. Leaves(d.macro) => Loose'
  BY <1>3 DEF Loose, Repeating
<1>9. OutInv'
  BY <1>1, <1>7, <1>8, ReturnKeeps, OutSet DEF OutputInv
<1>10. RepeatKept'
  <2>1. Releasing' /\ call'.d.op \in MacroOps => ~Leaves(call'.d.macro)
    BY <1>1 DEF Returned, RepeatKept, OutputInv
  <2> QED BY <1>1, <1>2, <1>3, <1>6, <2>1 DEF Returned, RepeatKept
<1> QED BY <1>1, <1>5, <1>9, <1>10 DEF OutputInv, Returned

\* The modifiers of a swapm go up with the key; a swap sends nothing.
LEMMA SwapReleasedOutput ==
    ASSUME TypeOK, StructureInv, ReasonsInv, OutputInv, SwapReleased  PROVE OutputInv'
<1> DEFINE c == Macros[call.d.macro].code
           o == SendKey(out, c, FALSE)
<1>1. Returned
  BY PlainReturned
<1>2. /\ call.pc = "descriptor" /\ call.d.op \in SwapOps /\ macro' = macro /\ layer_state' = layer_state
      /\ \/ out' = UpdateModsQuietly(o, layer_state, NoLayer, {}, FALSE)
         \/ out' = out /\ ~Letting(call.d)
  BY DEF SwapReleased, Executing, UpdateMods, SwapOps, Letting, Leaves, layerVars, modeVars
<1>3. OneshotKnown'
  BY <1>2, OneshotSteps DEF OutputInv
<1>4. CASE out' = UpdateModsQuietly(o, layer_state, NoLayer, {}, FALSE)
  <2>1. c \in Codes
    BY <1>2, DescriptorRuns, BindingsAssumption DEF Macro
  <2>2. /\ o \in Output /\ Sane(o)
        /\ o.keystate = IF c \in Unsent THEN out.keystate ELSE out.keystate \ {c}
    <3> HIDE DEF c
    <3> QED BY <2>1, OutputFound, SendKeySets
  <2> HIDE DEF c, o
  <2>3. o.keystate \ ModKeys \subseteq out.keystate
    BY <2>2
  <2>4. call.d.op # "keysequence"
    BY <1>2 DEF SwapOps
  <2> QED BY <1>1, <1>2, <1>3, <1>4, <2>2, <2>3, <2>4, ModsReturn DEF MacroKept
<1>5. CASE out' = out /\ ~Letting(call.d)
  BY <1>1, <1>2, <1>3, <1>5, SilentReturn
<1> QED BY <1>2, <1>4, <1>5

LEMMA SwapPressedOutput ==
    ASSUME SwapToggleDisjoint, TypeOK, StructureInv, ReasonsInv, OutputInv, SwapPressed
    PROVE  OutputInv'
<1> DEFINE l == call.d.layer
           dl == call.dl
           sw == Swapped(dl, l)
           m == call.d.macro
           mods == UpdateModsQuietly(out, sw, NoLayer, {}, FALSE)
<1>1. Returned
  BY SwapReturned
<1>2. /\ call.pc = "descriptor" /\ call.d.op \in SwapOps /\ call.pressed /\ macro' = macro
      /\ l \in Layers /\ dl \in Layers /\ SwapHome(dl) /\ m \in MacroIds
  BY SwapPressedSteps, DescriptorRuns DEF SwapPressed, modeVars
<1>3. l \in OneshotLayers
  BY <1>2, DescriptorRuns DEF Runnable
<1>4. call.d.op = "swapm" => ~Leaves(m) \/ Loose'
  <2> SUFFICES ASSUME call.d.op = "swapm", Leaves(m) PROVE Loose'
    OBVIOUS
  <2>1. PICK d \in Runnable : d = call.d
    BY <1>2, DescriptorRuns
  <2>2. WillRelease(d)'
    BY <1>1, <1>2, <2>1 DEF Returned, CallKept, SoundingOps
  <2> QED BY <2>1, <2>2 DEF Loose, Letting
<1>5. layer_state[dl].toggled # 1
  BY <1>2, NoSwapOfToggle DEF ReasonsInv
<1>6. \/ /\ \/ layer_state[dl].oneshot_depth > 0 /\ SetLayers(SwappedOneshot(dl, l))
            \/ SetLayers(sw)
         /\ out' = mods \/ (call.d.op = "swapm" /\ out' = ExecuteMacro(mods, sw, dl, Macros[m]))
      \/ /\ layer_state' = layer_state
         /\ out' = out \/ (call.d.op = "swapm" /\ out' = ExecuteMacro(out, layer_state, dl, Macros[m]))
  BY <1>5 DEF SwapPressed, Swapped, SwappedOneshot, UpdateMods, layerVars
<1>7. sw \in Layering /\ \A k \in Layers : sw[k].oneshot_depth = layer_state[k].oneshot_depth
  BY <1>2, SwappedType
<1>8. out \in Output /\ Sane(out) /\ OneshotKnown
  BY OutputFound
<1>9. call.pressed \/ call.d.op # "keysequence"
  BY <1>2
<1>10. MacroKept
  BY <1>2 DEF MacroKept
<1>11. ASSUME OneshotKnown', ModsOf(sw) \subseteq ModsOf(layer_state'),
              out' = mods \/ (call.d.op = "swapm" /\ out' = ExecuteMacro(mods, sw, dl, Macros[m]))
       PROVE  OutputInv'
  <2>1. CASE out' = mods
    <3> HIDE DEF sw
    <3> QED BY <1>1, <1>2, <1>8, <1>9, <1>10, <1>11, <2>1, ModsReturn
  <2>2. CASE call.d.op = "swapm" /\ out' = ExecuteMacro(mods, sw, dl, Macros[m])
    <3>1. {} \in SUBSET Mods /\ KeysOf({}) = {}
      BY DEF KeysOf
    <3>2. /\ mods \in Output /\ Sane(mods)
          /\ mods.keystate \subseteq (out.keystate \ ModKeys) \cup KeysOf(ModsOf(sw))
      <4> HIDE DEF sw
      <4> QED BY <1>8, <3>1, UpdateModsSets
    <3> HIDE DEF sw, mods, dl, m
    <3>3. mods.keystate \ ModKeys \subseteq out.keystate
      BY <3>2, ModsOfType
    <3> QED BY <1>1, <1>2, <1>4, <1>9, <1>10, <1>11, <2>2, <3>2, <3>3, MacroReturn
  <2> QED BY <1>11, <2>1, <2>2
<1>12. CASE layer_state[dl].oneshot_depth > 0 /\ SetLayers(SwappedOneshot(dl, l))
            /\ (out' = mods \/ (call.d.op = "swapm" /\ out' = ExecuteMacro(mods, sw, dl, Macros[m])))
  <2> DEFINE ls == SwappedOneshot(dl, l)
  <2>1. /\ ls \in Layering
        /\ \A k \in Layers : /\ ls[k].active = sw[k].active
                             /\ k # l => ls[k].oneshot_depth
                                    = layer_state[k].oneshot_depth - (IF k = dl THEN 1 ELSE 0)
    BY <1>2, <1>12, SwappedOneshotType
  <2>2. dl \in OneshotLayers
    <3>1. layer_state[dl].oneshot_depth # 0
      BY <1>12
    <3> QED BY <1>2, <1>8, <3>1 DEF OneshotKnown
  <2>3. \A k \in Layers : layer_state[k].oneshot_depth - 0 = layer_state[k].oneshot_depth
    BY OutputFound DEF Layering, LayerState
  <2>4. SetLayers(ls)
    BY <1>12
  <2> HIDE DEF ls, sw, l, dl
  <2>5. OneshotKnown'
    BY <1>2, <1>3, <1>8, <2>1, <2>2, <2>3, <2>4, OneshotKept
  <2>6. Active(ls) = Active(sw)
    BY <2>1 DEF Active
  <2>7. ModsOf(sw) \subseteq ModsOf(layer_state')
    BY <2>1, <2>4, <2>6, PackedActive DEF ModsOf
  <2> QED BY <1>11, <1>12, <2>5, <2>7
<1>13. CASE SetLayers(sw)
            /\ (out' = mods \/ (call.d.op = "swapm" /\ out' = ExecuteMacro(mods, sw, dl, Macros[m])))
  <2>1. OneshotKnown' /\ ModsOf(sw) \subseteq ModsOf(layer_state')
    <3> HIDE DEF sw
    <3> QED BY <1>7, <1>8, <1>13, OneshotKept, PackedActive
  <2> QED BY <1>11, <1>13, <2>1
<1>14. CASE /\ layer_state' = layer_state
            /\ out' = out \/ (call.d.op = "swapm" /\ out' = ExecuteMacro(out, layer_state, dl, Macros[m]))
  <2>1. OneshotKnown'
    BY <1>8, <1>14, OneshotSteps
  <2>2. CASE out' = out
    BY <1>1, <1>2, <1>14, <2>1, <2>2, SilentReturn
  <2>3. CASE call.d.op = "swapm" /\ out' = ExecuteMacro(out, layer_state, dl, Macros[m])
    BY <1>1, <1>2, <1>4, <1>8, <1>9, <1>10, <1>14, <2>1, <2>3, MacroReturn
  <2> QED BY <1>14, <2>2, <2>3
<1> QED BY <1>6, <1>12, <1>13, <1>14

\* The tap of an overload runs as a press and a release of its action.
LEMMA OverloadReleasedOutput ==
    ASSUME TapsAreFinal, ModsGivenBack, TypeOK, StructureInv, ReasonsInv, OutputInv, OverloadReleased
    PROVE  OutputInv'
<1> DEFINE action == DescTable[call.d.act]
           k == ProcessDescriptor(call.code, action, call.dl, FALSE, call.time)
           ls == Deactivate(layer_state, call.d.layer)
           o == UpdateModsQuietly(out, ls, NoLayer, {}, FALSE)
<1>1. /\ call.pc = "descriptor" /\ call.d.op = "overload" /\ ~call.pressed
      /\ cache' = cache /\ pending_key' = pending_key /\ macro' = macro /\ SetLayers(ls)
      /\ \/ /\ Return
            /\ \/ out' = o
               \/ action.op = "macro" /\ out' = ExecuteMacro(o, ls, call.dl, Macros[action.macro])
         \/ /\ CallThen(ProcessDescriptor(call.code, action, call.dl, TRUE, call.time), <<k>>)
            /\ out' = o
  BY DEF OverloadReleased, Executing, UpdateMods, keyVars, modeVars
<1>2. call.d \in Runnable /\ call.d.layer \in Layers /\ call.d.act \in Acts
  BY <1>1, DescriptorRuns
<1>3. /\ action.macro \in MacroIds
      /\ action.op \in MacroOps => ~Leaves(action.macro)
  BY <1>1, <1>2, BindingsAssumption DEF Descriptor, Runnable, ModsGivenBack
<1>4. OneshotKnown'
  BY <1>1, <1>2, OneshotSteps DEF OutputInv
<1>5. ls \in Layering
  BY <1>2, OutputFound, DeactivateType
<1>6. {} \in SUBSET Mods /\ KeysOf({}) = {} /\ out \in Output /\ Sane(out)
  BY OutputFound DEF KeysOf
<1> HIDE DEF ls
<1>7. /\ o \in Output /\ Sane(o)
      /\ o.keystate \subseteq (out.keystate \ ModKeys) \cup KeysOf(ModsOf(ls))
  BY <1>6, UpdateModsSets
<1>8. ModsOf(layer_state') = ModsOf(ls)
  BY <1>1, <1>5, PackedActive
<1>9. MacroKept
  BY <1>1 DEF MacroKept
<1>10. CASE /\ Return
            /\ \/ out' = o
               \/ action.op = "macro" /\ out' = ExecuteMacro(o, ls, call.dl, Macros[action.macro])
  <2>1. Returned
    BY <1>1, <1>10, ReturnHolds DEF OutputInv
  <2>2. CASE out' = o
    BY <1>1, <1>4, <1>6, <1>8, <1>9, <2>1, <2>2, ModsReturn
  <2>3. CASE action.op = "macro" /\ out' = ExecuteMacro(o, ls, call.dl, Macros[action.macro])
    <3>1. ~Leaves(action.macro)
      BY <1>3, <2>3 DEF MacroOps
    <3> HIDE DEF o, action
    <3>2. o.keystate \ ModKeys \subseteq out.keystate
      BY <1>7, ModsOfType
    <3> QED BY <1>1, <1>3, <1>4, <1>7, <1>8, <1>9, <2>1, <2>3, <3>1, <3>2, MacroReturn
  <2> QED BY <1>10, <2>2, <2>3
<1>11. CASE /\ CallThen(ProcessDescriptor(call.code, action, call.dl, TRUE, call.time), <<k>>)
            /\ out' = o
  <2>1. /\ NotCached(call.code) /\ ~Pressing
        /\ \A i \in DOMAIN callers : ~InDescriptor(callers[i])
    BY <1>1 DEF StructureInv, StackInv, ReleasedNotCached, Releasing, Pressing, ReasonsInv, NestedOnce
  <2>2. call.code = NoKey \/ call.code # pending_key.code
    BY <2>1 DEF ReasonsInv, PendingKept, CachedCodes, NotCached
  <2>3. k.pc = "descriptor" /\ k.d = action
    BY DEF ProcessDescriptor
  <2> HIDE DEF action, k, o
  <2>4. /\ call'.pc = "descriptor" /\ call'.pressed = TRUE /\ callers'[1] = k
    BY <1>1, <1>11, <2>1, <2>2, NestedAccounted
  <2>5. ReleasersKept
    BY <1>1, <2>1 DEF ReleasersKept, WillRelease, SoundingOps, MacroOps
  <2>6. HeldKept
    BY <2>5, KeptHeld
  <2>7. OutInv'
    BY <1>7, <1>8, <1>11, <2>6, OutSet DEF OutputInv
  <2>8. EntriesInv'
    BY <1>1, <2>3, <2>4 DEF OutputInv, EntriesInv, PendingWaits, RecacheWaits, WaitingEntry
  <2>9. RepeatKept'
    <3>1. ASSUME Repeating'
          PROVE  \E d \in Runnable : WillRelease(d)' /\ d.op \in MacroOps /\ d.macro = macro'.id
      <4>1. PICK d \in Runnable : WillRelease(d) /\ d.op \in MacroOps /\ d.macro = macro.id
        BY <1>1, <3>1 DEF OutputInv, RepeatKept, Repeating
      <4>2. WillRelease(d)'
        BY <2>5, <4>1 DEF ReleasersKept, SoundingOps
      <4> QED BY <1>1, <4>1, <4>2
    <3> QED BY <1>3, <2>3, <2>4, <3>1 DEF RepeatKept, Releasing
  <2> QED BY <1>4, <2>7, <2>8, <2>9 DEF OutputInv
<1> QED BY <1>1, <1>10, <1>11

LEMMA OverloadIdleOutput ==
    ASSUME TypeOK, StructureInv, ReasonsInv, OutputInv, OpOverloadIdle  PROVE OutputInv'
<1> DEFINE action == DescTable[IF call.time - recent.last_simple_key_time >= call.d.timeout
                               THEN call.d.act2 ELSE call.d.act]
           k == Recache(call.code, action)
<1>1. CASE ~call.pressed
  BY <1>1, SilentOps
<1>2. CASE call.pressed
  <2>1. /\ call.pc = "descriptor" /\ call.d.op = "overloadi" /\ layer_state' = layer_state
        /\ cache' = cache /\ pending_key' = pending_key /\ macro' = macro /\ out' = out
        /\ CallThen(ProcessDescriptor(call.code, action, call.dl, TRUE, call.time), <<k>>)
    BY <1>2 DEF OpOverloadIdle, Executing, keyVars, layerVars, modeVars
  <2>2. /\ Pressing /\ call.code \in CachedCodes /\ ~InDescriptor(callers[1]) /\ ~Releasing
        /\ \A i \in DOMAIN callers : ~InDescriptor(callers[i])
        /\ \A i \in Slots : cache[i].code = call.code => cache[i].d = call.d
        /\ call.d.op \in WaitingOps
    BY <1>2, <2>1 DEF ReasonsInv, PressKept, TapInProgress, EntryInPlace, NestedOnce, Pressing,
                      Releasing, WaitingOps
  <2>3. call.code # pending_key.code
    BY <2>2 DEF ReasonsInv, PendingKept, CachedCodes
  <2>4. k.pc = "recache" /\ k.code = call.code
    BY DEF Recache
  <2> HIDE DEF action, k
  <2>5. call'.pc = "descriptor" /\ call'.pressed = TRUE /\ callers'[1] = k
    BY <2>1, <2>2, <2>3, NestedAccounted
  <2>6. ReleasersKept
    BY <2>1, <2>2 DEF ReleasersKept, WillRelease
  <2>7. HeldKept /\ LooseKept
    BY <2>1, <2>6, KeptHeld
  <2>8. OutInv'
    BY <2>1, <2>7, OutSame DEF OutputInv
  <2>9. WaitingEntry(cache, call.code)
    BY <2>2 DEF WaitingEntry
  <2>10. EntriesInv'
    BY <2>1, <2>4, <2>5, <2>9 DEF OutputInv, EntriesInv, PendingWaits, RecacheWaits, WaitingEntry
  <2>11. RepeatKept'
    <3>1. ASSUME Repeating'
          PROVE  \E d \in Runnable : WillRelease(d)' /\ d.op \in MacroOps /\ d.macro = macro'.id
      <4>1. PICK d \in Runnable : WillRelease(d) /\ d.op \in MacroOps /\ d.macro = macro.id
        BY <2>1, <3>1 DEF OutputInv, RepeatKept, Repeating
      <4>2. WillRelease(d)'
        BY <2>6, <4>1 DEF ReleasersKept, SoundingOps
      <4> QED BY <2>1, <4>1, <4>2
    <3> QED BY <2>4, <2>5, <3>1 DEF RepeatKept, Releasing, Releases
  <2>12. OneshotKnown'
    BY <2>1, OneshotSteps DEF OutputInv
  <2> QED BY <2>8, <2>10, <2>11, <2>12 DEF OutputInv
<1> QED BY <1>1, <1>2

\* The entry of the key gets the choice of the overloadi.
LEMMA RecacheOutput ==
    ASSUME TypeOK, StructureInv, ReasonsInv, OutputInv, RecacheAction  PROVE OutputInv'
<1>1. /\ call.pc = "recache" /\ Return /\ layer_state' = layer_state /\ out' = out /\ macro' = macro
      /\ pending_key' = pending_key
  BY DEF RecacheAction, layerVars, modeVars
<1>2. ASSUME NEW i \in Slots
      PROVE  /\ cache'[i].code = cache[i].code
             /\ cache'[i].d = IF cache[i].code = call.code THEN call.d ELSE cache[i].d
  <2> DEFINE e == cache[i]
             e1 == cache'[i]
  <2>1. e \in Entry
    BY ModesTyped
  <2>2. e1 = IF e.code = call.code THEN [e EXCEPT !.d = call.d] ELSE e
    BY DEF RecacheAction
  <2> HIDE DEF e, e1
  <2>3. e1.code = e.code /\ e1.d = IF e.code = call.code THEN call.d ELSE e.d
    BY <2>1, <2>2 DEF Entry
  <2> QED BY <2>3 DEF e, e1
<1>3. ~InDescriptor(call') /\ ~Pressing' /\ ~Releasing'
  BY <1>1, ReturnTo DEF InDescriptor, Pressing, Releasing
<1>4. call'.pc # "key"
  <2>1. callers \in Seq(Frame) /\ callers # <<>> /\ call' = callers[1]
    BY <1>1, StackTyped DEF Return
  <2>2. 1 \in DOMAIN callers
    BY <2>1, EmptySeq
  <2> QED BY <2>1, <2>2 DEF StructureInv, StackInv, KeyKnown
<1>5. ReleasersKept
  <2> SUFFICES ASSUME NEW d \in Runnable, WillRelease(d), d.op \in SoundingOps PROVE WillRelease(d)'
    BY DEF ReleasersKept
  <2>1. CASE \E i \in Slots : cache[i].code # NoKey /\ cache[i].d = d
    <3>1. PICK i \in Slots : cache[i].code # NoKey /\ cache[i].d = d
      BY <2>1
    <3>2. cache[i].code # call.code
      BY <1>1, <3>1, OpsApart DEF OutputInv, EntriesInv, RecacheWaits, WaitingEntry
    <3> QED BY <1>2, <3>1, <3>2 DEF WillRelease
  <2>2. CASE call.d = d
    <3>1. PICK i \in Slots : cache[i].code = call.code /\ cache[i].code # NoKey
      BY <1>1 DEF ReasonsInv, RecacheKept, CachedCodes
    <3>2. cache'[i].code # NoKey /\ cache'[i].d = d
      BY <1>2, <2>2, <3>1
    <3> QED BY <3>2 DEF WillRelease
  <2> QED BY <1>1, <2>1, <2>2 DEF WillRelease, Pressing
<1>6. HeldKept /\ LooseKept
  BY <1>1, <1>5, KeptHeld
<1>7. OutInv'
  BY <1>1, <1>6, OutSame DEF OutputInv
<1>8. EntriesInv'
  <2>1. PendingWaits'
    BY <1>1, <1>2, <1>3 DEF OutputInv, EntriesInv, PendingWaits, WaitingEntry, InDescriptor
  <2>2. RecacheWaits'
    BY <1>3 DEF RecacheWaits, InDescriptor
  <2> QED BY <2>1, <2>2 DEF EntriesInv
<1>9. RepeatKept'
  BY <1>1, <1>3, <1>4, <1>5, RepeatOutside DEF OutputInv, MacroKept
<1>10. OneshotKnown'
  BY <1>1, OneshotSteps DEF OutputInv
<1> QED BY <1>7, <1>8, <1>9, <1>10 DEF OutputInv

-----------------------------------------------------------------------------
(* The invariant holds from the start.                                     *)

LEMMA OutputStart == Init => OutputInv
<1> SUFFICES ASSUME Init PROVE OutputInv
  OBVIOUS
<1>1. /\ out.keystate = {} /\ out.device = {} /\ ~macro.active
      /\ call.pc = "idle" /\ pending_key.code = NoKey
      /\ \A l \in Layers : layer_state[l].oneshot_depth = 0
  BY DEF Init, NoOutput, IdleCall, NoPending
<1>2. OutInv
  BY <1>1 DEF OutInv, Sane
<1>3. RepeatKept /\ EntriesInv
  BY <1>1 DEF RepeatKept, Repeating, Releasing, Pressing, EntriesInv, PendingWaits, RecacheWaits
<1>4. OneshotKnown
  BY <1>1 DEF OneshotKnown
<1> QED BY <1>2, <1>3, <1>4 DEF OutputInv

LEMMA OutputStep ==
    ASSUME SwapToggleDisjoint, TapsAreFinal, ModsGivenBack, TypeOK, StructureInv, ReasonsInv, OutputInv, Next
    PROVE  OutputInv'
<1>1. CASE Looping \/ ChordHandler \/ NotPending \/ Environment
  BY <1>1, QuietSteps
<1>2. CASE PendingKey \/ Timers \/ KeyPressed \/ KeyReleased
  BY <1>2, PendingKeyOutput, TimersOutput, KeyPressedOutput, KeyReleasedOutput
<1>3. CASE OpKeySequence
  BY <1>3, KeySequencePressed, KeySequenceReleased
<1>4. CASE OpScroll \/ OpOverloadTimeout \/ OpTimeout \/ OpCommand
  BY <1>4, SilentOps, CommandOutput
<1>5. CASE OpOverloadIdle \/ RecacheAction
  BY <1>5, OverloadIdleOutput, RecacheOutput
<1>6. CASE OpLayer \/ OverloadPressed \/ OneshotPressed
  BY <1>6, HoldOutput
<1>7. CASE OverloadReleased \/ OneshotReleased
  BY <1>7, OverloadReleasedOutput, OneshotReleasedOutput
<1>8. CASE OpClear \/ OpLayout
  BY <1>8, SilentOps, ClearingOutput
<1>9. CASE OpMacro
  BY <1>9, SilentOps, MacroPressed
<1>10. CASE OpToggle
  BY <1>10, SilentOps, ToggleOutput
<1>11. CASE SwapPressed \/ SwapReleased
  BY <1>11, SwapPressedOutput, SwapReleasedOutput
<1> QED BY <1>1, <1>2, <1>3, <1>4, <1>5, <1>6, <1>7, <1>8, <1>9, <1>10, <1>11
        DEF Next, Engine, Holding, Binding, Op

LEMMA SameOutput ==
    ASSUME OutputInv, UNCHANGED vars  PROVE OutputInv'
<1>1. /\ layer_state' = layer_state /\ cache' = cache /\ pending_key' = pending_key /\ out' = out
      /\ call' = call /\ callers' = callers /\ macro' = macro
  BY DEF vars, layerVars, keyVars, stackVars, modeVars
<1>2. \A d : WillRelease(d) <=> WillRelease(d)'
  BY <1>1 DEF WillRelease, Releasing, Pressing
<1>3. \A x : Justified(x) <=> Justified(x)'
  <2>1. \A x : HeldDown(x) <=> HeldDown(x)'
    BY <1>2 DEF HeldDown
  <2>2. Loose <=> Loose'
    BY <1>1, <1>2 DEF Loose, Repeating
  <2> QED BY <1>1, <2>1, <2>2 DEF Justified
<1>4. RepeatKept <=> RepeatKept'
  BY <1>1, <1>2 DEF RepeatKept, Repeating, Releasing, Pressing
<1>5. (EntriesInv <=> EntriesInv') /\ (OneshotKnown <=> OneshotKnown')
  BY <1>1 DEF EntriesInv, PendingWaits, RecacheWaits, OneshotKnown, Pressing
<1> QED BY <1>1, <1>3, <1>4, <1>5 DEF OutputInv, OutInv

-----------------------------------------------------------------------------
(* The theorems.                                                           *)

\* In every configuration whose macros leave no modifier that nobody lets go
\* of (and that meets the conditions of AccountInvariant), whatever the keys
\* that are pressed, and when: a key is down only for a key sequence whose
\* release is still to come, and a modifier only for an active layer or for an
\* action that will set the modifiers anew (send_key, set_mods).
THEOREM OutputJustified ==
    ASSUME SwapToggleDisjoint, TapsAreFinal, ChoicesAreFinal, ModsGivenBack
    PROVE  Spec => []OutputInv
<1>1. Init => OutputInv
  BY OutputStart
<1>2. IInv /\ AccountInv /\ OutputInv /\ [Next]_vars => OutputInv'
  <2> SUFFICES ASSUME IInv, AccountInv, OutputInv, [Next]_vars PROVE OutputInv'
    OBVIOUS
  <2>1. TypeOK /\ StructureInv /\ ReasonsInv
    BY DEF IInv, AccountInv
  <2>2. CASE Next
    BY <2>1, <2>2, OutputStep
  <2>3. CASE UNCHANGED vars
    BY <2>3, SameOutput
  <2> QED BY <2>2, <2>3
<1> QED BY <1>1, <1>2, AccountInvariant, PTL DEF Spec

\* With every key up, nothing pending and no layer left on, no entry of the
\* cache is left to release anything, and no layer with modifiers is active.
LEMMA NothingLeft ==
    ASSUME TypeOK, OutputInv, NoneChorded, CachedKeysAreDown, ActivationsAccounted, ~saturated
    PROVE  QuiescentClean
<1> SUFFICES ASSUME Settled, held = {},
                    \A l \in Layers : layer_state[l].toggled = 0 /\ layer_state[l].oneshot_depth = 0
             PROVE  /\ \A l \in Layers : l # 0 /\ LayerType[l] # "layout" => layer_state[l].active = 0
                    /\ out.keystate = {} /\ out.device = {}
  BY DEF QuiescentClean
<1>1. Idle /\ call.pc = "idle"
  BY DEF Settled, Idle, IdleCall
<1>2. \A i \in Slots : cache[i].code = NoKey
  BY DEF CachedKeysAreDown, NoneChorded
<1>3. ASSUME NEW l \in Layers, l # 0, LayerType[l] # "layout" PROVE layer_state[l].active = 0
  <2>1. Holders(l) = {}
    BY <1>2 DEF Holders
  <2>2. Cardinality(Holders(l)) = 0
    BY <2>1, FS_EmptySet
  <2> QED BY <1>1, <1>3, <2>2 DEF ActivationsAccounted, Reasons
<1>4. \A d : ~WillRelease(d)
  BY <1>1, <1>2 DEF WillRelease, Releasing, Pressing
<1>5. ModsOf(layer_state) = {}
  <2>1. \A l \in Layers : LayerMods[l] # {} => layer_state[l].active = 0
    BY <1>3, LayersAssumption
  <2> QED BY <2>1 DEF ModsOf, Active
<1>6. ~Loose /\ \A x : ~HeldDown(x)
  BY <1>4 DEF Loose, HeldDown, OutputInv, RepeatKept
<1>7. out.keystate = {}
  BY <1>5, <1>6 DEF OutputInv, OutInv, Justified, KeysOf
<1>8. out.device = {}
  BY <1>7 DEF OutputInv, OutInv, Sane
<1> QED BY <1>3, <1>7, <1>8

\* Nothing stays down: in every such configuration without chords, whenever
\* every key is up, nothing is pending and no layer is toggled or left on, no
\* layer is active and no key or modifier is down on the virtual device, as
\* long as no uint8_t counter was ever full.
THEOREM NothingStaysDown ==
    ASSUME NoChords, SwapToggleDisjoint, TapsAreFinal, ChoicesAreFinal, ModsGivenBack
    PROVE  Spec => [](saturated \/ QuiescentClean)
<1>1. Init => QueueInv
  BY QueueInvStart
<1>2. TypeOK /\ QueueInv /\ [Next]_vars => QueueInv'
  BY QueueInvStep
<1>3. /\ TypeOK /\ QueueInv /\ OutputInv /\ CachedKeysAreDown /\ ActivationsAccounted
      => saturated \/ QuiescentClean
  BY NothingLeft DEF QueueInv
<1> QED BY <1>1, <1>2, <1>3, TypeCorrectness, OutputJustified, NoneStuck, NothingLeaks, PTL DEF Spec
=============================================================================

------------------------------ MODULE KeyOutput ------------------------------
(***************************************************************************)
(* The output half of keyboard.c: send_key, clear_mod, set_mods and        *)
(* reset_keystate, as operators on the output state of a keyboard:         *)
(*   keystate  kbd->keystate, the keys the engine believes to be down      *)
(*   last      kbd->last_pressed_output_code                               *)
(*   device    the keys that are down on the virtual device, which macros  *)
(*             drive without going through kbd->keystate                   *)
(***************************************************************************)
EXTENDS KeydConfig

Output == [keystate: SUBSET Codes, last: Codes, device: SUBSET Codes]

NoOutput == [keystate |-> {}, last |-> NoKey, device |-> {}]

With(S, code, pressed) == IF pressed THEN S \cup {code} ELSE S \ {code}

\* kbd->output.send_key.
Emit(o, code, pressed) == [o EXCEPT !.device = With(@, code, pressed)]

SendKey(o, code, pressed) ==
    LET o1 == IF pressed THEN [o EXCEPT !.last = code] ELSE o IN
    IF code \in Unsent THEN o
    ELSE IF (code \in o.keystate) = pressed THEN o1
    ELSE Emit([o1 EXCEPT !.keystate = With(@, code, pressed)], code, pressed)

GuardedMods == {"leftmeta", "leftalt", "rightalt"}

ClearMod(o, code, inhibit) ==
    IF /\ o.last = code /\ code \in GuardedMods
       /\ ~inhibit /\ ~DisableModifierGuard
       /\ "leftctrl" \notin o.keystate
    THEN SendKey(SendKey(SendKey(o, "leftctrl", TRUE), code, FALSE), "leftctrl", FALSE)
    ELSE SendKey(o, code, FALSE)

\* Mutant of SetMod: modifiers are pressed and never released.
SetModOnlyPresses(o, mods, inhibit, m) ==
    IF m \in mods THEN SendKey(o, ModKey[m], TRUE) ELSE o
SetMod(o, mods, inhibit, m) ==
    LET code == ModKey[m] IN
    IF m \in mods
    THEN IF code \in o.keystate THEN o ELSE SendKey(o, code, TRUE)
    ELSE IF code \in o.keystate THEN ClearMod(o, code, inhibit) ELSE o

\* The loop of set_mods, in the order of the table of keys.c.
SetMods(o, mods, inhibit) ==
    LET alt   == SetMod(o, mods, inhibit, "alt")
        altgr == SetMod(alt, mods, inhibit, "altgr")
        shift == SetMod(altgr, mods, inhibit, "shift")
        super == SetMod(shift, mods, inhibit, "super")
    IN SetMod(super, mods, inhibit, "ctrl")

\* reset_keystate: every key of keystate goes up.
ResetKeystate(o) == [o EXCEPT !.keystate = {}, !.device = @ \ o.keystate]

\* macro_execute (macro.c), in sum: the keys it taps end up released on the
\* device, and kbd->keystate is not told.
RunMacro(o, m) == [o EXCEPT !.device = @ \ m.taps]
=============================================================================

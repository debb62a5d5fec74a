------------------------------ MODULE Keyboard ------------------------------
(***************************************************************************)
(* The remapping engine of one keyboard (keyboard.c): what                 *)
(* kbd_process_events does with a key event or a timeout.                  *)
(*                                                                         *)
(* The C functions call each other recursively (a resolved pending key or  *)
(* chord feeds the events it held back into kbd_process_events again), so  *)
(* the engine is modelled as a machine with an explicit call stack: `call' *)
(* is the activation that runs, `callers' the suspended ones, innermost    *)
(* first.  Every action is a piece of one C function between two calls.    *)
(* When the engine is idle the environment may press or release a key, let *)
(* the clock advance or deliver the timeout that was asked for.            *)
(***************************************************************************)
EXTENDS KeyOutput

CONSTANTS
    Devices,       \* physical devices that share this keyboard
    CacheSize,     \* CACHE_SIZE
    QueueSize,     \* ARRAY_SIZE of pending_key.queue and of chord.queue
    MaxTimeouts,   \* ARRAY_SIZE of timeouts
    CounterSize,   \* 256: layer_state[].active and oneshot_depth are uint8_t
    Lag,           \* how late a timeout may be served, in milliseconds
    StartTime,     \* the clock at startup
    MaxTime,       \* bound of the model: the clock stops here
    MaxOneshots,   \* bound of the model: no oneshot press at this oneshot_depth
    MaxScheduled,  \* bound of the model: no press with so many timeouts
    MaxQueued      \* bound of the model: no press when a queue is this long

ASSUME SizesAssumption ==
    /\ CacheSize \in Nat \ {0} /\ QueueSize \in Nat \ {0} /\ MaxTimeouts \in Nat \ {0}
    /\ CounterSize \in Nat \ 0 .. 2
    /\ Lag \in Nat /\ StartTime \in Nat /\ MaxTime \in Nat /\ MaxOneshots \in Nat /\ MaxScheduled \in Nat /\ MaxQueued \in Nat

VARIABLES
    layer_state,     \* layer -> [active, toggled, oneshot_depth, at]
    activated,       \* get_time has been called in this process
    cache,           \* slot -> [code, d, dl, layer]
    pending_key,     \* [code, dl, expire, behaviour, queue, action1, action2]
    chord,           \* [state, queue, match, last_code_time]
    active_chords,   \* chord slot -> [keys, d, layer], active while keys # {}
    oneshot,         \* [latch, timeout] (oneshot_latch, oneshot_timeout)
    macro,           \* [active, id, dl, timeout, repeat] (active_macro, ...)
    recent,          \* [last_pressed_code, overload_start_time, last_simple_key_time]
    scroll,          \* scroll.active
    timeouts,        \* set of <<deadline, copy>>: the array timeouts[]
    out,             \* output state, see KeyOutput
    call, callers,   \* the call stack
    deadline,        \* what the event loop was told to wait for, 0 for nothing
    now,             \* the clock, in milliseconds
    held,            \* the physical keys that are down
    saturated,       \* a uint8_t counter has reached its largest value
    panic            \* the assertion that failed, "none" while there is none

layerVars == <<layer_state, activated>>
keyVars == <<cache, pending_key>>
chordVars == <<chord, active_chords>>
modeVars == <<oneshot, macro, scroll>>
stackVars == <<call, callers>>
envVars == <<deadline, now, held>>
vars == <<layerVars, keyVars, chordVars, modeVars, recent, timeouts, out,
          stackVars, envVars, saturated, panic>>

Slots == 1 .. CacheSize
Event == [code: Codes, pressed: BOOLEAN, time: Nat]
NoMatch == <<0, 0>>

EmptySlot == [code |-> NoKey, d |-> NoDesc, dl |-> 0, layer |-> 0]
NoPending == [code |-> NoKey, dl |-> 0, expire |-> 0, behaviour |-> "none",
              queue |-> <<>>, action1 |-> NoDesc, action2 |-> NoDesc]
NoChord == [state |-> "inactive", queue |-> <<>>, match |-> NoMatch, last_code_time |-> 0]
IdleCall == [pc |-> "idle"]

-----------------------------------------------------------------------------
(* Activations of the C functions.                                         *)

\* kbd_process_events(events, n): `due' is timeout_ts while timeout > 0, else 0.
\* In "due" it waits for process_event to return its timeout.
Loop(pc, evs, due) == [pc |-> pc, evs |-> evs, due |-> due]
ProcessEvents(evs) == Loop("events", evs, 0)

\* process_event, from its stage `pc' on.
ProcessEvent(pc, code, pressed, time) ==
    [pc |-> pc, code |-> code, pressed |-> pressed, time |-> time]
Stage(pc) == ProcessEvent(pc, call.code, call.pressed, call.time)

\* process_descriptor.
ProcessDescriptor(code, d, dl, pressed, time) ==
    [pc |-> "descriptor", code |-> code, d |-> d, dl |-> dl,
     pressed |-> pressed, time |-> time]

\* The tails of OP_OVERLOAD_IDLE_TIMEOUT, resolve_chord and process_event.
Recache(code, d) == [pc |-> "recache", code |-> code, d |-> d]
ChordResolved == [pc |-> "resolved"]
ExitEvent(time) == [pc |-> "exit", time |-> time]

\* Call f and then run the continuations ks in place of the current activation.
CallThen(f, ks) == call' = f /\ callers' = ks \o callers
Goto(f) == call' = f /\ UNCHANGED callers
Return == call' = Head(callers) /\ callers' = Tail(callers)

-----------------------------------------------------------------------------
(* Layers.                                                                 *)

Active(ls) == {l \in Layers : ls[l].active > 0}

\* Activation times matter by their order and their ties only: 0 is never, 1
\* the value setlayout uses, and later ones are renumbered from 2.
LaterTimes(ls) == {ls[l].at : l \in Layers} \ {0, 1}
Packed(ls) ==
    LET at == [l \in Layers |-> IF ls[l].active = 0 THEN 0 ELSE ls[l].at]
        later == {at[l] : l \in Layers} \ {0, 1}
    IN [l \in Layers |-> [ls[l] EXCEPT !.at =
          IF at[l] \in {0, 1} THEN at[l] ELSE 2 + Cardinality({t \in later : t < at[l]})]]

\* The value of get_time(): the first call of the process returns 1.
GetTime(ls) == IF activated THEN 2 + Cardinality(LaterTimes(ls)) ELSE 1

\* A count below 0 records that assert(active > 0) failed.
Activate(ls, l) ==
    [ls EXCEPT ![l].at = GetTime(ls),
               ![l].active = IF @ < 0 THEN @ ELSE (@ + 1) % CounterSize]
Deactivate(ls, l) == [ls EXCEPT ![l].active = @ - 1]

SetLayers(ls) == layer_state' = Packed(ls)

\* Mutants of ClearOneshot: one deactivation however often the key was
\* tapped; a depth that is not reset; a depth that is counted down.
ClearOneshotOnce(ls) ==
    [l \in Layers |-> [ls[l] EXCEPT !.active = IF ls[l].oneshot_depth > 0 THEN @ - 1 ELSE @,
                                   !.oneshot_depth = 0]]
ClearOneshotKeepsDepth(ls) ==
    [l \in Layers |-> [ls[l] EXCEPT !.active = @ - ls[l].oneshot_depth]]
ClearOneshotCountsDown(ls) ==
    [l \in Layers |-> [ls[l] EXCEPT !.active = @ - ls[l].oneshot_depth, !.oneshot_depth = @ - 1]]
ClearOneshot(ls) ==
    [l \in Layers |-> [ls[l] EXCEPT !.active = @ - ls[l].oneshot_depth, !.oneshot_depth = 0]]
OneshotCleared == [latch |-> FALSE, timeout |-> 0]

\* The layer part of clear(): oneshots, then toggled layers other than layouts.
ClearLayers(ls) ==
    LET ls1 == ClearOneshot(ls) IN
    [l \in Layers |-> IF l # 0 /\ LayerType[l] # "layout"
                      THEN [ls1[l] EXCEPT !.active = @ - ls1[l].toggled, !.toggled = 0]
                      ELSE ls1[l]]

SetLayoutLayers(ls, idx) ==
    LET ls1 == ClearLayers(ls) IN
    [l \in Layers |->
       IF idx # 0 /\ l = idx THEN [ls1[l] EXCEPT !.active = 1, !.at = 1]
       ELSE IF LayerType[l] = "layout" THEN [ls1[l] EXCEPT !.active = 0]
       ELSE ls1[l]]

NoLayer == -1
UpdateModsQuietly(o, ls, excluded, mods, inhibit) ==
    LET except == IF excluded = NoLayer THEN {}
                  ELSE {excluded} \cup (IF LayerType[excluded] = "composite"
                                        THEN Constituents[excluded] ELSE {})
    IN SetMods(o, mods \cup UNION {LayerMods[l] : l \in Active(ls) \ except}, inhibit)
UpdateMods(o, ls, excluded, mods) == UpdateModsQuietly(o, ls, excluded, mods, FALSE)

ExecuteMacro(o, ls, dl, m) ==
    IF m.simple
    THEN LET o1 == UpdateMods(o, ls, dl, m.mods)
         IN SendKey(SendKey(o1, m.code, TRUE), m.code, FALSE)
    ELSE RunMacro(UpdateMods(o, ls, dl, {}), m)

-----------------------------------------------------------------------------
(* The descriptor cache.                                                   *)

Cached(c, code) == {i \in Slots : c[i].code = code}

\* The slot cache_set picks: the one of the code, or else the last free one.
SlotFor(c, code) ==
    LET free == {i \in Slots : c[i].code = NoKey} IN
    IF Cached(c, code) # {} THEN Cached(c, code)
    ELSE {i \in free : \A j \in free : j <= i}

CacheSet(c, code, d, dl) ==
    [i \in Slots |-> IF i \in SlotFor(c, code)
                     THEN [code |-> code, d |-> d, dl |-> dl, layer |-> 0] ELSE c[i]]
\* Mutant of CacheClear: a released key stays cached.
CacheClearKeeps(c, code) == c
CacheClear(c, code) ==
    [i \in Slots |-> IF c[i].code = code THEN EmptySlot ELSE c[i]]

\* activate_layer: the entry of the key, if it has one, notes the layer.
CacheLayer(c, code, l) ==
    [i \in Slots |-> IF code # NoKey /\ c[i].code = code
                     THEN [c[i] EXCEPT !.layer = l] ELSE c[i]]

\* The layer whose binding applies: the composite layer with the most
\* constituents (the first of them), or else the layer activated last.
Bound(l, code) == code \in DOMAIN Keymap[l]
MatchingComposites(code) ==
    {l \in Layers : /\ LayerType[l] = "composite" /\ Bound(l, code)
                    /\ Constituents[l] # {} /\ Constituents[l] \subseteq Active(layer_state)}
BestComposite(code) ==
    LET Size(l) == Cardinality(Constituents[l]) IN
    {l \in MatchingComposites(code) : \A k \in MatchingComposites(code) :
        Size(k) < Size(l) \/ (Size(k) = Size(l) /\ l <= k)}
Newer(k, l) == \/ layer_state[k].at > layer_state[l].at
               \/ layer_state[k].at = layer_state[l].at /\ k > l
NewestBinding(code) ==
    LET candidates == {l \in Active(layer_state) : Bound(l, code)} IN
    {l \in candidates : ~ \E k \in candidates : Newer(k, l)}

\* lookup_descriptor: [d, dl].
LookupDescriptor(code) ==
    IF code \in ChordCodes
    THEN LET i == CHOOSE s \in ChordSlots : ChordCode[s] = code
         IN [d |-> active_chords[i].d, dl |-> active_chords[i].layer]
    ELSE LET best == IF BestComposite(code) # {} THEN BestComposite(code)
                     ELSE NewestBinding(code)
         IN IF best = {} THEN [d |-> KeySequence(code, {}), dl |-> 0]
            ELSE LET l == CHOOSE k \in best : TRUE IN [d |-> Keymap[l][code], dl |-> l]

-----------------------------------------------------------------------------
(* Timeouts.                                                               *)

\* Mutant of Scheduled: no new timeout while another one is waited for.
ScheduledWhenNone(t) == IF timeouts = {} THEN {<<t, 0>>} ELSE timeouts

\* schedule_timeout; copies of one deadline count towards MaxTimeouts.
Scheduled(t) == timeouts \cup {<<t, Cardinality({x \in timeouts : x[1] = t})>>}

\* calculate_main_loop_timeout: what it keeps and the next deadline.
Live(time) == {x \in timeouts : x[1] > time}
NextDue(time) ==
    LET later == {x[1] : x \in Live(time)}
        first == {t \in later : \A u \in later : t <= u}
    IN IF first = {} THEN 0 ELSE CHOOSE t \in first : TRUE

-----------------------------------------------------------------------------
\* The assertions of keyboard.c, each by what its failure would leave behind.
FailedAssert ==
    IF \E l \in Layers : layer_state'[l].active < 0 THEN "active > 0"
    ELSE IF Cardinality(timeouts') > MaxTimeouts THEN "nr_timeouts"
    ELSE IF Len(pending_key'.queue) > QueueSize THEN "pending_key.queue_sz"
    ELSE IF Len(chord'.queue) > QueueSize THEN "chord.queue_sz"
    ELSE IF call'.pc = "no chord slot" THEN "chord code"
    ELSE "none"

CounterFull(ls) == \E l \in Layers : \/ ls[l].active >= CounterSize - 1
                                     \/ ls[l].oneshot_depth >= CounterSize - 1

\* Part of every step: abort() where an assertion fails, and note a full counter.
Asserts == /\ panic = "none"
           /\ panic' = FailedAssert
           /\ saturated' = (saturated \/ CounterFull(layer_state'))

-----------------------------------------------------------------------------
(* kbd_process_events: the loop over the events, which lets the timeout     *)
(* process_event asked for go first when it is due before the next event.   *)

NextEvent ==
    /\ call.pc = "events" /\ call.evs # <<>>
    /\ ~(call.due > 0 /\ call.due <= Head(call.evs).time)
    /\ LET e == Head(call.evs) IN
       CallThen(ProcessEvent("chord", e.code, e.pressed, e.time),
                <<Loop("due", Tail(call.evs), call.due)>>)
    /\ UNCHANGED <<layerVars, keyVars, chordVars, modeVars, recent, timeouts, out, envVars>>
    /\ Asserts

DueBeforeNextEvent ==
    /\ call.pc = "events" /\ call.evs # <<>>
    /\ call.due > 0 /\ call.due <= Head(call.evs).time
    /\ CallThen(ProcessEvent("chord", NoKey, FALSE, call.due), <<Loop("due", call.evs, call.due)>>)
    /\ UNCHANGED <<layerVars, keyVars, chordVars, modeVars, recent, timeouts, out, envVars>>
    /\ Asserts

\* The outermost call hands its timeout to the event loop.
EventsDone ==
    /\ call.pc = "events" /\ call.evs = <<>>
    /\ Return
    /\ deadline' = IF Head(callers) = IdleCall THEN call.due ELSE deadline
    /\ UNCHANGED <<layerVars, keyVars, chordVars, modeVars, recent, timeouts, out, now, held>>
    /\ Asserts

\* The end of process_event: drop the timeouts that have passed and report
\* the next one to a caller that looks at it.
Exit ==
    /\ call.pc = "exit"
    /\ timeouts' = Live(call.time)
    /\ call' = IF Head(callers).pc = "due"
               THEN Loop("events", Head(callers).evs, NextDue(call.time))
               ELSE Head(callers)
    /\ callers' = Tail(callers)
    /\ UNCHANGED <<layerVars, keyVars, chordVars, modeVars, recent, out, envVars>>
    /\ Asserts

-----------------------------------------------------------------------------
(* handle_chord.                                                            *)

\* chord_event_match: 2 when every key of the chord is in the queue, 1 when
\* some are, 0 on none or on a key outside.
Presses(q) == {i \in DOMAIN q : q[i].pressed}
ChordEventMatch(keys, q) ==
    IF Presses(q) = {} \/ \E i \in Presses(q) : q[i].code \notin keys THEN 0
    ELSE IF Cardinality(Presses(q)) = Cardinality(keys) THEN 2 ELSE 1

ActiveChordsOf(ls) == UNION {{<<l, i>> : i \in DOMAIN Chords[l]} : l \in Active(ls)}
MatchesOf(q, n) == {p \in ActiveChordsOf(layer_state) :
                      ChordEventMatch(Chords[p[1]][p[2]].keys, q) = n}
FullMatches(q) == MatchesOf(q, 2)

\* check_chord_match: the match of the newest layer, the last one on a tie.
\* Without a full match kbd->chord.match keeps the value it had.
ChordBefore(p, r) == \/ layer_state[p[1]].at < layer_state[r[1]].at
                     \/ /\ layer_state[p[1]].at = layer_state[r[1]].at
                        /\ p[1] < r[1] \/ (p[1] = r[1] /\ p[2] < r[2])
BestMatch(q, was) ==
    LET best == {p \in FullMatches(q) : ~ \E r \in FullMatches(q) : ChordBefore(p, r)}
    IN IF best = {} THEN was ELSE CHOOSE p \in best : TRUE
Unmatched(q) == FullMatches(q) = {} /\ MatchesOf(q, 1) = {}
Unambiguous(q) == FullMatches(q) # {} /\ MatchesOf(q, 1) = {}

FreeChordSlots ==
    {i \in ChordSlots : active_chords[i].keys = {} /\ \A j \in 1 .. i - 1 : active_chords[j].keys # {}}

\* resolve_chord on chord state c: press the pseudo key of the match, if there
\* is one, and process the events queued behind it.  Without a free slot the
\* assertion on `code' fails.
ResolveChord(c) ==
    /\ chord' = [c EXCEPT !.state = "resolving"]
    /\ UNCHANGED timeouts
    /\ IF c.match = NoMatch
       THEN /\ CallThen(ProcessEvents(c.queue), <<ChordResolved, ExitEvent(call.time)>>)
            /\ UNCHANGED active_chords
       ELSE LET m == Chords[c.match[1]][c.match[2]]
                rest == SubSeq(c.queue, Cardinality(m.keys) + 1, Len(c.queue)) IN
            \/ \E i \in FreeChordSlots :
                 /\ active_chords' = [active_chords EXCEPT ![i] =
                                        [keys |-> m.keys, d |-> m.d, layer |-> c.match[1]]]
                 /\ CallThen(ProcessEvent("chord", ChordCode[i], TRUE, c.last_code_time),
                             <<ProcessEvents(rest), ChordResolved, ExitEvent(call.time)>>)
            \/ /\ FreeChordSlots = {}
               /\ Goto([pc |-> "no chord slot"])
               /\ UNCHANGED active_chords

\* The event was queued: wait until `until' for the rest of the chord.
AwaitChord(c, until) ==
    /\ chord' = c
    /\ timeouts' = Scheduled(until)
    /\ Goto(ExitEvent(call.time))
    /\ UNCHANGED active_chords

\* What both queueing states do with a queue that matches some chord.
Disambiguate(c) ==
    LET c1 == [c EXCEPT !.match = BestMatch(c.queue, c.match), !.last_code_time = call.time] IN
    IF ~Unambiguous(c.queue)
    THEN AwaitChord([c1 EXCEPT !.state = "disambiguation"], call.time + ChordInterkeyTimeout)
    ELSE IF ChordHoldTimeout > 0
    THEN AwaitChord([c1 EXCEPT !.state = "hold"], call.time + ChordHoldTimeout)
    ELSE ResolveChord(c1)

AbortChord(c) == ResolveChord([c EXCEPT !.match = NoMatch])

NotHandledByChord == Goto(Stage("pending")) /\ UNCHANGED <<chordVars, timeouts>>

ThisEvent == [code |-> call.code, pressed |-> call.pressed, time |-> call.time]
EnqueuedInFront(c) == [c EXCEPT !.queue = <<ThisEvent>> \o @]    \* mutant of Enqueued
Enqueued(c) == [c EXCEPT !.queue = Append(@, ThisEvent)]

\* The first active chord that a key going up belongs to.
ChordOfReleaseForgotten == {}      \* mutant: a chord never ends
ChordOfRelease ==
    IF call.code = NoKey \/ call.pressed THEN {}
    ELSE {i \in ChordSlots : /\ call.code \in active_chords[i].keys
                             /\ \A j \in 1 .. i - 1 : call.code \notin active_chords[j].keys}

InChordHandler(state) ==
    /\ call.pc = "chord" /\ ChordOfRelease = {} /\ chord.state = state
    /\ UNCHANGED <<layerVars, keyVars, modeVars, recent, out, envVars>>

\* A key of an active chord goes up; the last one releases the chord.
ReleaseChordKey ==
    /\ call.pc = "chord"
    /\ \E i \in ChordOfRelease :
         /\ active_chords' = [active_chords EXCEPT ![i].keys = @ \ {call.code}]
         /\ IF active_chords[i].keys = {call.code}
            THEN CallThen(ProcessEvent("chord", ChordCode[i], FALSE, call.time),
                          <<ExitEvent(call.time)>>)
            ELSE Goto(ExitEvent(call.time))
    /\ UNCHANGED <<layerVars, keyVars, chord, modeVars, recent, timeouts, out, envVars>>
    /\ Asserts

ChordResolving ==
    /\ InChordHandler("resolving")
    /\ NotHandledByChord
    /\ Asserts

ChordInactive ==
    LET fresh == IF call.code = NoKey THEN NoChord ELSE Enqueued(NoChord) IN
    /\ InChordHandler("inactive")
    /\ IF Unmatched(fresh.queue) THEN NotHandledByChord ELSE Disambiguate(fresh)
    /\ Asserts

ChordDisambiguation ==
    /\ InChordHandler("disambiguation")
    /\ IF call.code = NoKey
       THEN IF call.time - chord.last_code_time < ChordInterkeyTimeout THEN NotHandledByChord
            ELSE IF chord.match = NoMatch THEN AbortChord(chord)
            ELSE IF ChordHoldTimeout > ChordInterkeyTimeout
            THEN AwaitChord([chord EXCEPT !.state = "hold"],
                            call.time + ChordHoldTimeout - ChordInterkeyTimeout)
            ELSE ResolveChord(chord)
       ELSE LET c == Enqueued(chord) IN
            IF ~call.pressed \/ Unmatched(c.queue) THEN AbortChord(c) ELSE Disambiguate(c)
    /\ Asserts

ChordHold ==
    /\ InChordHandler("hold")
    /\ IF call.code = NoKey
       THEN IF call.time - chord.last_code_time < ChordHoldTimeout THEN NotHandledByChord
            ELSE ResolveChord(chord)
       ELSE IF ~call.pressed /\ call.code \in Chords[chord.match[1]][chord.match[2]].keys
       THEN AbortChord(Enqueued(chord))
       ELSE /\ chord' = Enqueued(chord)
            /\ Goto(ExitEvent(call.time))
            /\ UNCHANGED <<active_chords, timeouts>>
    /\ Asserts

\* resolve_chord is over.  The queue and the match are not read again before
\* CHORD_INACTIVE resets them.
LeaveChord ==
    /\ call.pc = "resolved"
    /\ chord' = NoChord
    /\ Return
    /\ UNCHANGED <<layerVars, keyVars, active_chords, modeVars, recent, timeouts, out, envVars>>
    /\ Asserts

-----------------------------------------------------------------------------
(* handle_pending_key.                                                      *)

QueuedCodes(q) == {q[i].code : i \in DOMAIN q}

HoldBackInFront(q) == IF call.code = NoKey THEN q ELSE <<ThisEvent>> \o q    \* mutant
HoldBack(q) == IF call.code = NoKey THEN q ELSE Append(q, ThisEvent)

\* The key that is not held back: none is pending, or a key struck before the
\* pending one goes up.  The assertion on queue_sz comes first.
PassesPendingKey ==
    \/ pending_key.code = NoKey
    \/ /\ Len(pending_key.queue) < QueueSize
       /\ call.code # NoKey /\ ~call.pressed /\ call.code # pending_key.code
       /\ call.code \notin QueuedCodes(pending_key.queue)

NotPending ==
    /\ call.pc = "pending" /\ PassesPendingKey
    /\ Goto(Stage("timers"))
    /\ UNCHANGED <<layerVars, keyVars, chordVars, modeVars, recent, timeouts, out, envVars>>
    /\ Asserts

\* Mutant of PendingAction: a pending key expires one millisecond late.
PendingActionLate(q) ==
    LET p == pending_key IN
    IF call.time > p.expire THEN p.action2
    ELSE IF call.code = p.code THEN p.action1
    ELSE NoDesc

\* What the event makes of the pending key once it is in the queue q, NoDesc
\* when it stays pending.
PendingAction(q) ==
    LET p == pending_key IN
    IF call.time >= p.expire THEN p.action2
    ELSE IF call.code = p.code THEN p.action1
    ELSE IF call.code # NoKey /\ call.pressed /\ p.behaviour = "interrupt_action1" THEN p.action1
    ELSE IF /\ p.behaviour = "uninterruptible_tap_action2"
            /\ ~call.pressed /\ call.code \in QueuedCodes(q)
    THEN p.action2
    ELSE NoDesc

\* Hold the event back, or resolve the pending key and let the queue follow it.
PendingKey ==
    LET p == pending_key
        q == HoldBack(p.queue)
        action == PendingAction(q) IN
    /\ call.pc = "pending" /\ ~PassesPendingKey
    /\ \/ /\ action.op = "none"
          /\ pending_key' = [p EXCEPT !.queue = q]
          /\ Goto(ExitEvent(call.time))
          /\ UNCHANGED cache
       \/ /\ action.op # "none"
          /\ pending_key' = NoPending
          /\ cache' = CacheSet(cache, p.code, action, p.dl)
          /\ CallThen(ProcessDescriptor(p.code, action, p.dl, TRUE, call.time),
                      <<ProcessEvents(q), ExitEvent(call.time)>>)
    /\ UNCHANGED <<layerVars, chordVars, modeVars, recent, timeouts, out, envVars>>
    /\ Asserts

-----------------------------------------------------------------------------
(* The rest of process_event: oneshot timeout, macro repetition, and the    *)
(* descriptor of the key.                                                   *)

OneshotExpired == oneshot.timeout # 0 /\ call.time >= oneshot.timeout

Timers ==
    LET ls == IF OneshotExpired THEN ClearOneshot(layer_state) ELSE layer_state
        o  == IF OneshotExpired THEN UpdateMods(out, ls, NoLayer, {}) ELSE out IN
    /\ call.pc = "timers"
    /\ SetLayers(ls)
    /\ oneshot' = IF OneshotExpired THEN OneshotCleared ELSE oneshot
    /\ \/ /\ macro.active /\ call.code # NoKey
          /\ macro' = [macro EXCEPT !.active = FALSE]
          /\ out' = UpdateMods(o, ls, NoLayer, {})
          /\ UNCHANGED timeouts
       \/ /\ macro.active /\ call.code = NoKey /\ call.time >= macro.timeout
          /\ macro' = [macro EXCEPT !.timeout = call.time + macro.repeat]
          /\ out' = ExecuteMacro(o, ls, macro.dl, Macros[macro.id])
          /\ timeouts' = Scheduled(call.time + macro.repeat)
       \/ /\ ~macro.active \/ (call.code = NoKey /\ call.time < macro.timeout)
          /\ out' = o
          /\ UNCHANGED <<macro, timeouts>>
    /\ Goto(IF call.code = NoKey THEN ExitEvent(call.time) ELSE Stage("key"))
    /\ UNCHANGED <<activated, keyVars, chordVars, scroll, recent, envVars>>
    /\ Asserts

\* A second press of a key that is cached and a release of one that is not are
\* dropped, and so is a press that finds the cache full.
KeyPressed ==
    LET b == LookupDescriptor(call.code) IN
    /\ call.pc = "key" /\ call.pressed
    /\ IF Cached(cache, call.code) # {} \/ SlotFor(cache, call.code) = {}
       THEN Goto(ExitEvent(call.time)) /\ UNCHANGED cache
       ELSE /\ cache' = CacheSet(cache, call.code, b.d, b.dl)
            /\ CallThen(ProcessDescriptor(call.code, b.d, b.dl, TRUE, call.time),
                        <<ExitEvent(call.time)>>)
    /\ UNCHANGED <<layerVars, pending_key, chordVars, modeVars, recent, timeouts, out, envVars>>
    /\ Asserts

KeyReleased ==
    /\ call.pc = "key" /\ ~call.pressed
    /\ \/ /\ Cached(cache, call.code) = {}
          /\ Goto(ExitEvent(call.time)) /\ UNCHANGED cache
       \/ \E i \in Cached(cache, call.code) :
            /\ cache' = CacheClear(cache, call.code)
            /\ CallThen(ProcessDescriptor(call.code, cache[i].d, cache[i].dl, FALSE, call.time),
                        <<ExitEvent(call.time)>>)
    /\ UNCHANGED <<layerVars, pending_key, chordVars, modeVars, recent, timeouts, out, envVars>>
    /\ Asserts

-----------------------------------------------------------------------------
(* process_descriptor, one action per case.                                 *)

Executing(ops) == call.pc = "descriptor" /\ call.d.op \in ops

NotePress == recent' = IF call.pressed THEN [recent EXCEPT !.last_pressed_code = call.code]
                       ELSE recent
Done == Return /\ NotePress

\* The macro of the ...m actions runs first.
MacroFirst ==
    IF call.pressed /\ call.d.op \in MacroFirstOps
    THEN ExecuteMacro(out, layer_state, call.dl, Macros[call.d.macro]) ELSE out

OpKeySequence ==
    LET d == call.d
        o1 == IF d.code \in out.keystate THEN SendKey(out, d.code, FALSE) ELSE out
        o2 == UpdateMods(o1, layer_state, call.dl, d.mods)
        simple == d.mods \in {{}, {"shift"}} IN
    /\ Executing({"keysequence"})
    /\ IF call.pressed
       THEN /\ out' = SendKey(o2, d.code, TRUE)
            /\ SetLayers(ClearOneshot(layer_state))
            /\ oneshot' = OneshotCleared
       ELSE /\ out' = UpdateMods(SendKey(out, d.code, FALSE), layer_state, NoLayer, {})
            /\ UNCHANGED <<layer_state, oneshot>>
    /\ recent' = [recent EXCEPT
                    !.last_simple_key_time = IF simple THEN call.time ELSE @,
                    !.last_pressed_code = IF call.pressed THEN call.code ELSE @]
    /\ Return
    /\ UNCHANGED <<activated, keyVars, chordVars, macro, scroll, timeouts, envVars>>
    /\ Asserts

OpScroll ==
    /\ Executing({"scroll", "scrollt"})
    /\ scroll' = IF call.d.op = "scroll" THEN call.pressed
                 ELSE IF call.pressed THEN ~scroll ELSE scroll
    /\ Done
    /\ UNCHANGED <<layerVars, keyVars, chordVars, oneshot, macro, timeouts, out, envVars>>
    /\ Asserts

\* process_descriptor on the action, which then replaces the cached descriptor.
OpOverloadIdle ==
    LET idle == call.time - recent.last_simple_key_time >= call.d.timeout
        action == DescTable[IF idle THEN call.d.act2 ELSE call.d.act] IN
    /\ Executing({"overloadi"})
    /\ IF call.pressed
       THEN CallThen(ProcessDescriptor(call.code, action, call.dl, TRUE, call.time),
                     <<Recache(call.code, action)>>)
       ELSE Return
    /\ UNCHANGED <<layerVars, keyVars, chordVars, modeVars, recent, timeouts, out, envVars>>
    /\ Asserts

\* Mutant of RecacheAction: the key keeps the descriptor of the overloadi.
RecacheActionForgets ==
    /\ call.pc = "recache"
    /\ recent' = [recent EXCEPT !.last_pressed_code = call.code]
    /\ Return
    /\ UNCHANGED <<layerVars, keyVars, chordVars, modeVars, timeouts, out, envVars>>
    /\ Asserts

RecacheAction ==
    /\ call.pc = "recache"
    /\ cache' = [i \in Slots |-> IF cache[i].code = call.code
                                 THEN [cache[i] EXCEPT !.d = call.d] ELSE cache[i]]
    /\ recent' = [recent EXCEPT !.last_pressed_code = call.code]
    /\ Return
    /\ UNCHANGED <<layerVars, pending_key, chordVars, modeVars, timeouts, out, envVars>>
    /\ Asserts

\* The key becomes pending.  Only the fields named here are assigned.
BecomePending(behaviour, expire, action1, action2) ==
    /\ pending_key' = [pending_key EXCEPT
           !.code = call.code, !.dl = call.dl, !.expire = expire,
           !.behaviour = behaviour, !.action1 = action1, !.action2 = action2]
    /\ timeouts' = Scheduled(expire)

OpOverloadTimeout ==
    LET d == call.d IN
    /\ Executing({"overloadt", "overloadt2"})
    /\ IF call.pressed
       THEN BecomePending(IF d.op = "overloadt2" THEN "uninterruptible_tap_action2"
                          ELSE "uninterruptible",
                          call.time + d.timeout,
                          DescTable[d.act], LayerAction("layer", d.layer))
       ELSE UNCHANGED <<pending_key, timeouts>>
    /\ Done
    /\ UNCHANGED <<layerVars, cache, chordVars, modeVars, out, envVars>>
    /\ Asserts

OpTimeout ==
    LET d == call.d IN
    /\ Executing({"timeout"})
    /\ IF call.pressed
       THEN BecomePending("interrupt_action1", call.time + d.timeout,
                          DescTable[d.act], DescTable[d.act2])
       ELSE UNCHANGED <<pending_key, timeouts>>
    /\ Done
    /\ UNCHANGED <<layerVars, cache, chordVars, modeVars, out, envVars>>
    /\ Asserts

OpLayer ==
    LET l == call.d.layer
        ls == IF call.pressed THEN Activate(layer_state, l) ELSE Deactivate(layer_state, l) IN
    /\ Executing({"layer", "layerm"})
    /\ SetLayers(ls)
    /\ activated' = (activated \/ call.pressed)
    /\ cache' = IF call.pressed THEN CacheLayer(cache, call.code, l) ELSE cache
    /\ out' = UpdateModsQuietly(MacroFirst, ls, NoLayer, {}, recent.last_pressed_code = call.code)
    /\ Done
    /\ UNCHANGED <<pending_key, chordVars, modeVars, timeouts, envVars>>
    /\ Asserts

\* clear() and setlayout().
ClearModes == /\ oneshot' = OneshotCleared
              /\ macro' = [macro EXCEPT !.active = FALSE]

OpClear ==
    LET ls == ClearLayers(layer_state)
        o == ResetKeystate(out) IN
    /\ Executing({"clear", "clearm"})
    /\ IF call.pressed
       THEN /\ SetLayers(ls)
            /\ ClearModes
            /\ out' = IF call.d.op = "clearm"
                      THEN ExecuteMacro(o, ls, call.dl, Macros[call.d.macro]) ELSE o
       ELSE UNCHANGED <<layer_state, oneshot, macro, out>>
    /\ Done
    /\ UNCHANGED <<activated, keyVars, chordVars, scroll, timeouts, envVars>>
    /\ Asserts

OpLayout ==
    /\ Executing({"layout"})
    /\ IF call.pressed
       THEN /\ SetLayers(SetLayoutLayers(layer_state, call.d.layer))
            /\ ClearModes
            /\ out' = ResetKeystate(out)
       ELSE UNCHANGED <<layer_state, oneshot, macro, out>>
    /\ Done
    /\ UNCHANGED <<activated, keyVars, chordVars, scroll, timeouts, envVars>>
    /\ Asserts

OverloadPressed ==
    LET l == call.d.layer
        ls == Activate(layer_state, l) IN
    /\ Executing({"overload"}) /\ call.pressed
    /\ SetLayers(ls)
    /\ activated' = TRUE
    /\ cache' = CacheLayer(cache, call.code, l)
    /\ out' = UpdateMods(out, ls, NoLayer, {})
    /\ recent' = [recent EXCEPT !.overload_start_time = call.time,
                                !.last_pressed_code = call.code]
    /\ Return
    /\ UNCHANGED <<pending_key, chordVars, modeVars, timeouts, envVars>>
    /\ Asserts

Tapped == /\ recent.last_pressed_code = call.code
          /\ \/ OverloadTapTimeout = 0
             \/ call.time - recent.overload_start_time < OverloadTapTimeout

\* A tap runs the action: a macro at once, any other as a press and a release.
OverloadReleased ==
    LET ls == Deactivate(layer_state, call.d.layer)
        o == UpdateMods(out, ls, NoLayer, {})
        action == DescTable[call.d.act] IN
    /\ Executing({"overload"}) /\ ~call.pressed
    /\ SetLayers(ls)
    /\ out' = IF Tapped /\ action.op = "macro"
              THEN ExecuteMacro(o, ls, call.dl, Macros[action.macro]) ELSE o
    /\ IF Tapped /\ action.op # "macro"
       THEN CallThen(ProcessDescriptor(call.code, action, call.dl, TRUE, call.time),
                     <<ProcessDescriptor(call.code, action, call.dl, FALSE, call.time)>>)
       ELSE Return
    /\ UNCHANGED <<activated, keyVars, chordVars, modeVars, recent, timeouts, envVars>>
    /\ Asserts

OneshotPressed ==
    LET l == call.d.layer
        ls == Activate(layer_state, l) IN
    /\ Executing({"oneshot", "oneshotm"}) /\ call.pressed
    /\ SetLayers(ls)
    /\ activated' = TRUE
    /\ cache' = CacheLayer(cache, call.code, l)
    /\ out' = UpdateMods(MacroFirst, ls, call.dl, {})
    /\ oneshot' = [oneshot EXCEPT !.latch = TRUE]
    /\ Done
    /\ UNCHANGED <<pending_key, chordVars, macro, scroll, timeouts, envVars>>
    /\ Asserts

\* The layer outlives the key when nothing was struck in between.
OneshotReleased ==
    LET l == call.d.layer IN
    /\ Executing({"oneshot", "oneshotm"}) /\ ~call.pressed
    /\ IF oneshot.latch
       THEN /\ SetLayers([layer_state EXCEPT ![l].oneshot_depth = (@ + 1) % CounterSize])
            /\ UNCHANGED out
            /\ IF OneshotTimeout # 0
               THEN /\ oneshot' = [oneshot EXCEPT !.timeout = call.time + OneshotTimeout]
                    /\ timeouts' = Scheduled(call.time + OneshotTimeout)
               ELSE UNCHANGED <<oneshot, timeouts>>
       ELSE /\ SetLayers(Deactivate(layer_state, l))
            /\ out' = UpdateMods(out, Deactivate(layer_state, l), NoLayer, {})
            /\ UNCHANGED <<oneshot, timeouts>>
    /\ Done
    /\ UNCHANGED <<activated, keyVars, chordVars, macro, scroll, envVars>>
    /\ Asserts

OpMacro ==
    LET d == call.d
        ls == ClearOneshot(layer_state)
        two == d.op = "macro2"
        expire == call.time + (IF two THEN d.timeout ELSE MacroTimeout) IN
    /\ Executing({"macro", "macro2"})
    /\ IF call.pressed
       THEN /\ SetLayers(ls)
            /\ oneshot' = OneshotCleared
            /\ out' = ExecuteMacro(out, ls, call.dl, Macros[d.macro])
            /\ macro' = [active |-> TRUE, id |-> d.macro, dl |-> call.dl, timeout |-> expire,
                         repeat |-> IF two THEN d.repeat ELSE MacroRepeatTimeout]
            /\ timeouts' = Scheduled(expire)
       ELSE UNCHANGED <<layer_state, oneshot, out, macro, timeouts>>
    /\ Done
    /\ UNCHANGED <<activated, keyVars, chordVars, scroll, envVars>>
    /\ Asserts

OpToggle ==
    LET l == call.d.layer
        on == layer_state[l].toggled = 0
        ls == IF on THEN [Activate(layer_state, l) EXCEPT ![l].toggled = 1]
              ELSE [Deactivate(layer_state, l) EXCEPT ![l].toggled = 0] IN
    /\ Executing(ToggleOps)
    /\ IF call.pressed
       THEN /\ SetLayers(ClearOneshot(ls))
            /\ activated' = (activated \/ on)
            /\ cache' = IF on THEN CacheLayer(cache, call.code, l) ELSE cache
            /\ out' = UpdateMods(MacroFirst, ls, NoLayer, {})
            /\ oneshot' = OneshotCleared
       ELSE UNCHANGED <<layerVars, cache, out, oneshot>>
    /\ Done
    /\ UNCHANGED <<pending_key, chordVars, macro, scroll, timeouts, envVars>>
    /\ Asserts

OpCommand ==
    LET ls == ClearOneshot(layer_state) IN
    /\ Executing({"command"})
    /\ IF call.pressed
       THEN /\ SetLayers(ls)
            /\ oneshot' = OneshotCleared
            /\ out' = UpdateMods(out, ls, NoLayer, {})
       ELSE UNCHANGED <<layer_state, oneshot, out>>
    /\ Done
    /\ UNCHANGED <<activated, keyVars, chordVars, macro, scroll, timeouts, envVars>>
    /\ Asserts

\* Mutant of MoveToggle: the layer that is left stays toggled.
MoveToggleForgets(ls, dl, l) == [ls EXCEPT ![l].toggled = 1]
MoveToggle(ls, dl, l) == [[ls EXCEPT ![dl].toggled = 0] EXCEPT ![l].toggled = 1]

\* Mutant of Swappable: any key that holds a layer.
SwappableAny == {i \in Slots : cache[i].code # NoKey /\ cache[i].layer # 0}

\* The first cached key that holds the layer the swap is bound in.
Swappable == {i \in Slots : /\ cache[i].code # NoKey /\ cache[i].layer = call.dl
                            /\ LayerType[call.dl] = "normal" /\ call.dl # 0}
SwappedSlot == {i \in Swappable : \A j \in Swappable : i <= j}

\* Replace the layer of the swap by its target: where it is toggled, where it
\* is a oneshot, or else in the entry of the key that holds it.
SwapPressed ==
    LET l == call.d.layer
        dl == call.dl
        ls == Activate(Deactivate(layer_state, dl), l)
        Swap(ls1) == /\ SetLayers(ls1)
                     /\ activated' = TRUE
        AfterSwap(ls1, o) == IF call.d.op = "swapm"
                             THEN ExecuteMacro(o, ls1, dl, Macros[call.d.macro]) ELSE o IN
    /\ Executing(SwapOps) /\ call.pressed
    /\ \/ /\ layer_state[dl].toggled = 1
          /\ Swap(MoveToggle(ls, dl, l))
          /\ out' = AfterSwap(ls, UpdateMods(out, ls, NoLayer, {}))
          /\ UNCHANGED cache
       \/ /\ layer_state[dl].toggled = 0 /\ layer_state[dl].oneshot_depth > 0
          /\ Swap([[ls EXCEPT ![dl].oneshot_depth = @ - 1]
                      EXCEPT ![l].oneshot_depth = (@ + 1) % CounterSize])
          /\ out' = AfterSwap(ls, UpdateMods(out, ls, NoLayer, {}))
          /\ UNCHANGED cache
       \/ /\ layer_state[dl].toggled = 0 /\ layer_state[dl].oneshot_depth = 0
          /\ \E i \in SwappedSlot :
               /\ Swap(ls)
               /\ cache' = [cache EXCEPT ![i].d.op = "layer", ![i].d.layer = l, ![i].layer = l]
          /\ out' = AfterSwap(ls, UpdateMods(out, ls, NoLayer, {}))
       \/ /\ layer_state[dl].toggled = 0 /\ layer_state[dl].oneshot_depth = 0
          /\ SwappedSlot = {}
          /\ out' = AfterSwap(layer_state, out)
          /\ UNCHANGED <<layerVars, cache>>
    /\ Done
    /\ UNCHANGED <<pending_key, chordVars, modeVars, timeouts, envVars>>
    /\ Asserts

SwapReleased ==
    LET m == Macros[call.d.macro] IN
    /\ Executing(SwapOps) /\ ~call.pressed
    /\ out' = IF call.d.op = "swapm" /\ m.simple
              THEN UpdateMods(SendKey(out, m.code, FALSE), layer_state, NoLayer, {}) ELSE out
    /\ Done
    /\ UNCHANGED <<layerVars, keyVars, chordVars, modeVars, timeouts, envVars>>
    /\ Asserts

-----------------------------------------------------------------------------
(* The environment: evloop and event_handler (daemon.c), which call the     *)
(* engine with one event at a time.                                         *)

Idle == call = IdleCall

ProcessOne(code, pressed) ==
    /\ CallThen(ProcessEvents(<<[code |-> code, pressed |-> pressed, time |-> now]>>), <<IdleCall>>)
    /\ UNCHANGED <<layerVars, keyVars, chordVars, modeVars, recent, timeouts, out, deadline, now>>

\* Bounds of the model: beyond them this key is not pressed.
MayPress(key) ==
    /\ Len(pending_key.queue) < MaxQueued /\ Len(chord.queue) < MaxQueued
    /\ Cardinality(timeouts) < MaxScheduled
    /\ \/ LookupDescriptor(key).d.op \notin {"oneshot", "oneshotm"}
       \/ \A l \in Layers : layer_state[l].oneshot_depth < MaxOneshots

\* evloop serves a timeout that is over before the keys that wait with it, but
\* counts it from when the last event was done: a key may come Lag ms past it.
BeforeDeadline == deadline = 0 \/ now < deadline + Lag

Press(dev, key) ==
    /\ Idle /\ BeforeDeadline /\ MayPress(key) /\ <<dev, key>> \notin held
    /\ held' = held \cup {<<dev, key>>}
    /\ ProcessOne(key, TRUE)
    /\ Asserts

Release(dev, key) ==
    /\ Idle /\ BeforeDeadline /\ <<dev, key>> \in held
    /\ held' = held \ {<<dev, key>>}
    /\ ProcessOne(key, FALSE)
    /\ Asserts

\* EV_TIMEOUT: the time the engine asked for is over.
Timeout ==
    /\ Idle /\ deadline > 0 /\ now >= deadline
    /\ ProcessOne(NoKey, FALSE)
    /\ UNCHANGED held
    /\ Asserts

Tick ==
    /\ Idle /\ BeforeDeadline
    /\ now' = IF now < MaxTime THEN now + 1 ELSE now
    /\ UNCHANGED <<layerVars, keyVars, chordVars, modeVars, recent, timeouts, out,
                   stackVars, deadline, held>>
    /\ Asserts

-----------------------------------------------------------------------------
ChordHandler == \/ ReleaseChordKey \/ ChordResolving \/ ChordInactive
                \/ ChordDisambiguation \/ ChordHold \/ LeaveChord
Holding == NotPending \/ PendingKey
Looping == NextEvent \/ DueBeforeNextEvent \/ EventsDone \/ Exit
Binding == Timers \/ KeyPressed \/ KeyReleased
Op == \/ OpKeySequence \/ OpScroll \/ OpOverloadIdle \/ RecacheAction
      \/ OpOverloadTimeout \/ OpTimeout \/ OpLayer \/ OpClear \/ OpLayout
      \/ OverloadPressed \/ OverloadReleased \/ OneshotPressed \/ OneshotReleased
      \/ OpMacro \/ OpToggle \/ OpCommand \/ SwapPressed \/ SwapReleased
Engine == Looping \/ ChordHandler \/ Holding \/ Binding \/ Op

Environment == \/ \E dev \in Devices, key \in Keys : Press(dev, key) \/ Release(dev, key)
               \/ Timeout
               \/ Tick

Next == Engine \/ Environment

\* new_keyboard.
Init ==
    /\ layer_state = [l \in Layers |->
         [active |-> IF l \in {0, DefaultLayout} THEN 1 ELSE 0,
          toggled |-> 0, oneshot_depth |-> 0,
          at |-> IF l = DefaultLayout /\ l # 0 THEN 1 ELSE 0]]
    /\ activated \in BOOLEAN
    /\ cache = [i \in Slots |-> EmptySlot]
    /\ pending_key = NoPending
    /\ chord = NoChord
    /\ active_chords = [i \in ChordSlots |-> [keys |-> {}, d |-> NoDesc, layer |-> 0]]
    /\ oneshot = OneshotCleared
    /\ macro = [active |-> FALSE, id |-> 0, dl |-> 0, timeout |-> 0, repeat |-> 0]
    /\ recent = [last_pressed_code |-> NoKey, overload_start_time |-> 0,
                 last_simple_key_time |-> 0]
    /\ scroll = FALSE
    /\ timeouts = {}
    /\ out = NoOutput
    /\ call = IdleCall /\ callers = <<>>
    /\ deadline = 0 /\ now = StartTime /\ held = {}
    /\ saturated = FALSE /\ panic = "none"

Spec == Init /\ [][Next]_vars

-----------------------------------------------------------------------------
(* Properties.                                                              *)

Frame ==
         [pc: {"idle", "resolved", "no chord slot"}]
    \cup [pc: {"events", "due"}, evs: Seq(Event), due: Nat]
    \cup [pc: {"chord", "pending", "timers", "key"}, code: Codes, pressed: BOOLEAN, time: Nat]
    \cup [pc: {"descriptor"}, code: Codes, d: Runnable, dl: Layers, pressed: BOOLEAN, time: Nat]
    \cup [pc: {"recache"}, code: Codes, d: Runnable]
    \cup [pc: {"exit"}, time: Nat]

LayerState == [active: Int, toggled: {0, 1}, oneshot_depth: Nat, at: Nat]

Behaviours == {"none", "interrupt_action1", "uninterruptible", "uninterruptible_tap_action2"}

ChordRefs == UNION {{<<l, i>> : i \in DOMAIN Chords[l]} : l \in Layers}

Entry == [code: Codes, d: Runnable, dl: Layers, layer: Layers]
Pending == [code: Codes, dl: Layers, expire: Nat, behaviour: Behaviours,
            queue: Seq(Event), action1: Runnable, action2: Runnable]
ChordMatch == ChordRefs \cup {NoMatch}
Chording == [state: {"inactive", "disambiguation", "hold", "resolving"},
             queue: Seq(Event), match: ChordMatch, last_code_time: Nat]
ActiveChord == [keys: SUBSET Keys, d: Runnable, layer: Layers]

LayersOK == layer_state \in [Layers -> LayerState] /\ activated \in BOOLEAN
KeysOK == cache \in [Slots -> Entry] /\ pending_key \in Pending
ChordsOK == chord \in Chording /\ active_chords \in [ChordSlots -> ActiveChord]
ModesOK == /\ oneshot \in [latch: BOOLEAN, timeout: Nat]
           /\ macro \in [active: BOOLEAN, id: MacroIds, dl: Layers, timeout: Nat, repeat: Nat]
           /\ scroll \in BOOLEAN
RecentOK == recent \in [last_pressed_code: Codes, overload_start_time: Nat,
                        last_simple_key_time: Nat]
TimeoutsOK == timeouts \subseteq Nat \X Nat /\ IsFiniteSet(timeouts)
EnvOK == deadline \in Nat /\ now \in Nat /\ held \subseteq Devices \X Keys
AbortOK == /\ saturated \in BOOLEAN
           /\ panic \in {"none", "active > 0", "nr_timeouts", "pending_key.queue_sz",
                         "chord.queue_sz", "chord code"}

\* The stack ends with the idle loop, which calls the engine when nothing runs.
WellStacked(c, cs) == /\ c \in Frame
                      /\ cs \in Seq(Frame)
                      /\ c = IdleCall <=> cs = <<>>
                      /\ \A i \in DOMAIN cs : cs[i] = IdleCall <=> i = Len(cs)
StackOK == WellStacked(call, callers)

\* Types, and that the call stack is well formed.
TypeOK == /\ LayersOK /\ KeysOK /\ ChordsOK /\ ModesOK /\ RecentOK /\ TimeoutsOK
          /\ EnvOK /\ AbortOK /\ StackOK
          /\ out \in Output

\* assert(active > 0) of deactivate_layer never fails: no sequence of keys
\* deactivates a layer more often than it activated it (until a uint8_t
\* counter has reached its limit).
PairedDeactivation == saturated \/ panic # "active > 0"
=============================================================================

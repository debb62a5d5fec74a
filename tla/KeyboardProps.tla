---------------------------- MODULE KeyboardProps ----------------------------
(***************************************************************************)
(* What the engine of Keyboard.tla must never do, beyond the pairing of    *)
(* activations: leak a layer, leave a key stuck, process held-back events  *)
(* out of order, or wait for an event that no timeout will bring.          *)
(***************************************************************************)
EXTENDS KeyboardInv

\* The keys in the cache that hold a layer: they deactivate it when they go up.
Holders(l) == {i \in Slots : /\ cache[i].code # NoKey
                              /\ cache[i].d.op \in HoldOps /\ cache[i].d.layer = l}
Reasons(l) == layer_state[l].toggled + layer_state[l].oneshot_depth + Cardinality(Holders(l))

\* Nothing leaks: whenever the engine is idle, a layer is as many times active
\* as it is toggled, left on by a oneshot or held by a key in the cache, unless
\* one of the uint8_t counters of activate_layer was full.
ActivationsAccounted ==
    Idle /\ ~saturated => \A l \in Layers : l # 0 /\ LayerType[l] # "layout"
                                             => layer_state[l].active = Reasons(l)

Settled == /\ Idle /\ pending_key.code = NoKey /\ chord.state = "inactive"

\* No stuck key: with nothing pending, every cached key is down on some device
\* or stands for a chord with a key that still is.
CachedKeysAreDown ==
    Settled => \A i \in Slots : cache[i].code # NoKey =>
        \/ \E dev \in Devices : <<dev, cache[i].code>> \in held
        \/ \E s \in ChordSlots : ChordCode[s] = cache[i].code /\ active_chords[s].keys # {}

\* When every key is up and no layer was left on, the virtual device is as
\* it was at the start: no layer, no key and no modifier is stuck.
QuiescentClean ==
    /\ Settled /\ held = {}
    /\ \A l \in Layers : layer_state[l].toggled = 0 /\ layer_state[l].oneshot_depth = 0
    => /\ \A l \in Layers : l # 0 /\ LayerType[l] # "layout" => layer_state[l].active = 0
       /\ out.keystate = {} /\ out.device = {}

\* The events held back, in the order in which they will be processed: behind
\* the pending key, behind an unfinished chord, in the loops of the stack.
Rest(f) == IF f.pc \in {"events", "due"} THEN f.evs ELSE <<>>
HeldBack == <<pending_key.queue, IF chord.state = "resolving" THEN <<>> ELSE chord.queue, Rest(call)>>
              \o [i \in DOMAIN callers |-> Rest(callers[i])]

\* Keys struck behind a pending key or an unfinished chord are processed in
\* the order in which they were struck, however often they are held back
\* (handle_pending_key and resolve_chord re-feed their queues recursively).
HeldBackInOrder ==
    LET q == HeldBack IN
    \A m, n \in DOMAIN q : \A i \in DOMAIN q[m], j \in DOMAIN q[n] :
        m < n \/ (m = n /\ i < j) => q[m][i].time <= q[n][j].time

\* While a key is pending the event loop has been told to come back before it
\* expires (the return value of process_event).
PendingTimerArmed ==
    Idle /\ pending_key.code # NoKey => 0 < deadline /\ deadline <= pending_key.expire

\* The same of a chord whose keys are held back: the loop comes back when it is
\* to be decided.
ChordDue == chord.last_code_time
            + (IF chord.state = "hold" THEN ChordHoldTimeout ELSE ChordInterkeyTimeout)
ChordTimerArmed ==
    Idle /\ chord.state \in {"disambiguation", "hold"} => 0 < deadline /\ deadline <= ChordDue

\* A layer left on by a oneshot key with a timeout is going to be switched off:
\* the event loop has been told to come back in time.
OneshotTimerArmed ==
    Idle /\ oneshot.timeout # 0 => 0 < deadline /\ deadline <= oneshot.timeout

\* The engine runs to completion, the clock advances however busy the keys
\* are, and poll() returns when the timeout is over.
Fairness == WF_vars(Next /\ ~Idle) /\ SF_vars(Next /\ Tick) /\ WF_vars(Next /\ Timeout)
FairSpec == Spec /\ Fairness

\* A pending key is resolved, whatever else is pressed meanwhile.
PendingKeyResolves ==
    (pending_key.code # NoKey /\ pending_key.expire <= MaxTime) ~> pending_key.code = NoKey
=============================================================================

-------------------------------- MODULE Daemon --------------------------------
(***************************************************************************)
(* The daemon around the remapping engine: the event loop (evloop.c), its  *)
(* event handler, reload and the requests of clients (daemon.c), and the   *)
(* devices it grabs and reads (device.c).                                  *)
(*                                                                         *)
(* The loop is one thread, but devices, clients, the configuration         *)
(* directory and the clock change at any moment: the environment's actions *)
(* interleave with every step of the loop.  An action of the loop is the   *)
(* code between two points where it looks at the world again.              *)
(*                                                                         *)
(* The engine itself is Keyboard.tla.  Here a keyboard is the set of keys  *)
(* it holds down and the deadline it waits for: plain keys are passed on,  *)
(* LayerKeys hold the layer "nav", and the press of one of TimerKeys asks  *)
(* to be called again after Delay.                                         *)
(***************************************************************************)
EXTENDS DeviceIds, Macro, FiniteSets

CONSTANTS
    Devices,             \* physical devices, and the virtual one
    VirtualDevice,       \* keyd's own, which is read for LED events
    DeviceId, DeviceFlags,         \* device -> its id, its types
    DeviceKeys,          \* device -> the codes it can send
    Pointers,            \* devices that also report motion and scrolling
    AxisDevices,         \* devices with an absolute axis other than x and y
    Leds,                \* states the system gives CapsLock
    LayerKeys, TimerKeys, Delay,   \* what the engine does with which codes
    AtStart,             \* devices connected when the daemon starts
    Files, FilesAtStart, \* configuration files, and those there at the start
    IdLines,             \* file -> the lines of its [ids] section
    LayerIndicator,      \* files with layer_indicator set
    Requests,            \* what clients may ask: "reload", "listen", or a macro or text
    MacroTokens,         \* request "do" -> the tokens of its macro
    InputCodes,          \* request "input" -> the codes of its text
    MaxDevices, MaxListeners,
    GarbageTime,         \* values of the uninitialised ev.timestamp of the first events
    MaxBudget, MaxTime, MaxQueue   \* bounds: environment events, clock, unread events

\* Devices and files are finitely many, and neither a pointer nor what Custody
\* says of a device without a keyboard is a file name; key codes fit a byte, a
\* key waits for some time, and the garbage of an uninitialised int is some int.
ASSUME DaemonAssumption ==
    /\ FilesAtStart \subseteq Files /\ {"NULL", "freed", "system", "limbo"} \cap Files = {}
    /\ IsFiniteSet(Devices) /\ IsFiniteSet(Files)
    /\ AtStart \cup {VirtualDevice} \cup AxisDevices \subseteq Devices
    /\ DeviceFlags \in [Devices -> SUBSET DeviceTypes]
    /\ DeviceKeys \in [Devices -> SUBSET ByteCodes] /\ Leds \subseteq BOOLEAN
    /\ \A f \in Files : /\ IsSequence(IdLines[f])
                         /\ \A i \in DOMAIN IdLines[f] : IdLines[f][i].mark \in Marks
    /\ IsExpression(MacroTokens) /\ IsSequence(InputCodes)
    /\ Delay \in Nat \ {0} /\ GarbageTime \subseteq Int
    /\ {MaxIds, MaxDevices, MaxListeners, MaxBudget, MaxTime, MaxQueue} \subseteq Nat

VARIABLES
    \* the world
    clock, budget,
    plugged,             \* devices that are connected
    pressed,             \* device -> the keys that are physically down
    announced,           \* inotify events of /dev/input not yet read
    dir,                 \* the files in CONFIG_DIR
    requests,            \* requests of clients not yet accepted
    \* the loop
    pc,                  \* where the loop is
    managing,            \* table positions manage_device is still to be called for
    return,              \* where the loop goes on when they are done
    ready,               \* what poll reported: [devs, ipc, mon]
    loop,                \* evloop's timeout, and the last time it read: start_time or ev.timestamp
    static,              \* event_handler's [timeout, last]
    table,               \* device_table: [node, fd, grabbed, data, queue]
    \* what the daemon keeps
    configs,             \* the loaded files, in the order of the list
    kbd,                 \* file -> its keyboard: [down, due]
    active_kbd,
    keystate, vk,        \* keys down as the daemon and the virtual device have it
    latch,               \* panic_check's statics that are set
    devev,               \* device_read_event's static: the event it returned last
    leaked,              \* devices grabbed through a descriptor the loop has lost
    stranded,            \* history: <<file, code>> of keys down of which nobody will
                         \* report the release
    listeners,           \* listener -> whether nav is active, by what it was sent
    alive,
    asker                \* history: whose answer the timeout last came from

worldVars == <<plugged, pressed, announced, dir, requests, clock, budget>>
controlVars == <<pc, managing, return, ready>>
timeVars == <<loop, static>>
outVars == <<keystate, vk>>
engineVars == <<kbd, active_kbd, listeners, asker>>
readVars == <<latch, devev, leaked, stranded>>
vars == <<worldVars, controlVars, timeVars, outVars, engineVars, readVars, table, configs, alive>>

NoKbd == "NULL"
Freed == "freed"         \* a pointer to a keyboard that free_configs has freed
Least(S) == CHOOSE x \in S : \A y \in S : x <= y
AtLeast0(n) == IF n < 0 THEN 0 ELSE n
AllCodes == UNION {DeviceKeys[p] : p \in Devices}

-----------------------------------------------------------------------------
(* Devices.                                                                 *)

NewEntry(p) == [node |-> p, fd |-> "open", grabbed |-> FALSE, data |-> NoKbd, queue |-> <<>>]
Positions == DOMAIN table
IsVirtual(i) == table[i].node = VirtualDevice

ParsedIds == [f \in Files |-> parse_id_section(NoIds, IdLines[f])]

\* Whether load_configs gets through these files.
CanLoad(S) == \A f \in S : ~TooManyIds(NoIds, IdLines[f])

\* The file that manage_device finds for a device, NoKbd when it finds none.
Claim(p) ==
    LET match == lookup_config_ent([i \in DOMAIN configs |-> ParsedIds[configs[i]]],
                                   DeviceId[p], DeviceFlags[p]) IN
    IF match = 0 THEN NoKbd ELSE configs[match]

\* EVIOCGRAB: at most one file descriptor has a device to itself.
Through(i, p) == table[i].node = p /\ table[i].fd = "open"
Grabbed(p) == p \in leaked \/ \E i \in Positions : Through(i, p) /\ table[i].grabbed
Receives(i, p) == Through(i, p) /\ (table[i].grabbed \/ ~Grabbed(p))

\* The kernel queues an event for every descriptor that may see it.
Deliver(p, e) ==
    table' = [i \in Positions |-> IF Receives(i, p) THEN [table[i] EXCEPT !.queue = Append(@, e)]
                                                   ELSE table[i]]
Room(p) == \A i \in Positions : Receives(i, p) => Len(table[i].queue) < MaxQueue

Event(type, code, down) == [type |-> type, code |-> code, down |-> down]
Removed == Event("removed", 0, FALSE)

\* Of what follows the first k events of a queue, the first that is about the key
\* is its release; when none is about it, the key is down on the device.
OfKey(e, c) == e.type = "key" /\ e.code = c
ReleaseAfter(q, k, down, c) ==
    \/ \E n \in DOMAIN q : /\ n > k /\ OfKey(q[n], c) /\ ~q[n].down
                          /\ \A m \in DOMAIN q : k < m /\ m < n => ~OfKey(q[m], c)
    \/ c \in down /\ \A m \in DOMAIN q : m > k => ~OfKey(q[m], c)

\* The device at i will report the release of c, or has done so.
ReleaseToCome(i, c) == ReleaseAfter(table[i].queue, 0, pressed[table[i].node], c)

\* The keys whose release was to come from the devices at these positions.
KeysDown == UNION {{f} \X kbd[f].down : f \in Files}
ReleasesLost(S) ==
    {k \in KeysDown : \E i \in S : table[i].data = k[1] /\ ReleaseToCome(i, k[2])}

-----------------------------------------------------------------------------
(* The world.  Releases are not counted against the budget.  A change is     *)
(* made only where the loop could tell it from the same change made later:  *)
(* input and unplugging while it waits, reads or grabs, the clock where it   *)
(* is read, requests, files and new devices where poll would report them.   *)

Polling == pc = "blocked"
Touching == pc \in {"blocked", "read", "manage", "grab"}
Spend == /\ alive /\ budget > 0 /\ budget' = budget - 1
daemonVars == <<controlVars, timeVars, outVars, engineVars, configs, latch, devev, alive>>
lostVars == <<leaked, stranded>>

Plug(p) ==
    /\ Spend /\ (Polling \/ pc = "scan") /\ p \notin plugged
    /\ plugged' = plugged \cup {p}
    /\ announced' = Append(announced, p)
    /\ UNCHANGED <<pressed, dir, requests, clock, table, daemonVars, lostVars>>

\* The descriptors of the device stay open but are dead: their events are gone,
\* those of the keys that are down too, and event_handler will only log this.
Unplug(p) ==
    /\ Spend /\ Touching /\ p \in plugged \ {VirtualDevice}
    /\ plugged' = plugged \ {p}
    /\ pressed' = [pressed EXCEPT ![p] = {}]
    /\ table' = [i \in Positions |-> IF Through(i, p) THEN [table[i] EXCEPT !.fd = "dead", !.queue = <<>>]
                                                     ELSE table[i]]
    /\ leaked' = leaked \ {p}
    /\ stranded' = stranded \cup ReleasesLost({i \in Positions : Through(i, p)})
    /\ UNCHANGED <<announced, dir, requests, clock, daemonVars>>

KeyDown(p, c) ==
    /\ Spend /\ Touching /\ p \in plugged /\ c \in DeviceKeys[p] \ pressed[p] /\ Room(p)
    /\ pressed' = [pressed EXCEPT ![p] = @ \cup {c}]
    /\ Deliver(p, Event("key", c, TRUE))
    /\ UNCHANGED <<plugged, announced, dir, requests, clock, daemonVars, lostVars>>

KeyUp(p, c) ==
    /\ alive /\ Touching /\ c \in pressed[p] /\ Room(p)
    /\ pressed' = [pressed EXCEPT ![p] = @ \ {c}]
    /\ Deliver(p, Event("key", c, FALSE))
    /\ UNCHANGED <<plugged, announced, dir, requests, clock, budget, daemonVars, lostVars>>

\* An "axis" event is about an absolute axis other than x and y.
Point(p, type) ==
    /\ Spend /\ pc \in {"blocked", "read"} /\ Room(p)
    /\ p \in plugged \cap (IF type = "axis" THEN AxisDevices ELSE Pointers)
    /\ Deliver(p, Event(type, 0, FALSE))
    /\ UNCHANGED <<plugged, pressed, announced, dir, requests, clock, daemonVars, lostVars>>

\* CapsLock (LED code 1) is switched by the system, on the virtual device.
Led(on) ==
    /\ Spend /\ pc \in {"blocked", "read"} /\ VirtualDevice \in plugged /\ Room(VirtualDevice)
    /\ Deliver(VirtualDevice, Event("led", 1, on))
    /\ UNCHANGED <<plugged, pressed, announced, dir, requests, clock, daemonVars, lostVars>>

Edit(f) ==
    /\ Spend /\ Polling
    /\ dir' = IF f \in dir THEN dir \ {f} ELSE dir \cup {f}
    /\ UNCHANGED <<plugged, pressed, announced, requests, clock, table, daemonVars, lostVars>>

Ask(r) ==
    /\ Spend /\ Polling
    /\ requests' = Append(requests, r)
    /\ UNCHANGED <<plugged, pressed, announced, dir, clock, table, daemonVars, lostVars>>

Tick ==
    /\ alive /\ pc \in {"blocked", "turn"} /\ clock < MaxTime
    /\ clock' = clock + 1
    /\ UNCHANGED <<plugged, pressed, announced, dir, requests, budget, table, daemonVars, lostVars>>

World ==
    \/ \E p \in Devices : \/ Plug(p) \/ Unplug(p)
                          \/ Point(p, "move") \/ Point(p, "scroll") \/ Point(p, "axis")
                          \/ \E c \in DeviceKeys[p] : KeyDown(p, c) \/ KeyUp(p, c)
    \/ \E on \in Leds : Led(on)
    \/ \E f \in Files : Edit(f)
    \/ \E r \in Requests : Ask(r)
    \/ Tick

-----------------------------------------------------------------------------
(* Starting, and the prologue of event_handler.                             *)

\* The order in which readdir lists the files is not specified.
Orders(S) == {o \in [1 .. Cardinality(S) -> S] : Range(o) = S}
NothingReady == [devs |-> {}, ipc |-> FALSE, mon |-> FALSE]
NewKeyboard == [down |-> {}, due |-> 0]

Init ==
    /\ clock = 0 /\ budget = MaxBudget
    /\ plugged = AtStart \cup {VirtualDevice}
    /\ pressed = [p \in Devices |-> {}] /\ announced = <<>> /\ requests = <<>>
    /\ dir = FilesAtStart
    /\ pc = "scan" /\ managing = <<>> /\ return = "turn"
    /\ ready = NothingReady
    /\ loop = [timeout |-> 0, time |-> 0]
    /\ static = [timeout |-> 0, last |-> 0]
    /\ table = <<>>
    /\ configs \in Orders(dir)
    /\ kbd = [f \in Files |-> NewKeyboard]
    /\ active_kbd = NoKbd /\ asker = NoKbd
    /\ keystate = {} /\ vk = {}
    /\ latch = {} /\ devev = Event("key", 0, FALSE) /\ leaked = {} /\ stranded = {}
    /\ listeners = <<>> /\ alive = CanLoad(dir)

\* The static timeout runs down by the time since the last event of any kind.
Elapsed(ts) == [timeout |-> AtLeast0(static.timeout - (ts - static.last)), last |-> ts]

\* An event whose handler leaves the static timeout alone.
Unasked ==
    /\ static' = Elapsed(loop.time)
    /\ loop' = [loop EXCEPT !.timeout = static'.timeout]

\* device_scan, after devmon_create: whatever is plugged in between is found
\* here and announced as well.  The events that add the devices carry a
\* timestamp that is not initialised.
Scan ==
    /\ alive /\ pc = "scan" /\ Cardinality(plugged) <= MaxDevices
    /\ \E order \in Orders(plugged) :
        /\ table' = [i \in DOMAIN order |-> NewEntry(order[i])]
        /\ managing' = [i \in DOMAIN order |-> i]
    /\ \E ts \in GarbageTime : static' = Elapsed(ts)
    /\ pc' = "manage" /\ return' = "turn"
    /\ UNCHANGED <<worldVars, ready, loop, outVars, engineVars, configs, readVars, alive>>

\* assert(n < MAX_DEVICES), for each device that device_scan finds.
TooManyFound ==
    /\ alive /\ pc = "scan" /\ Cardinality(plugged) > MaxDevices
    /\ alive' = FALSE
    /\ UNCHANGED <<worldVars, controlVars, timeVars, outVars, engineVars, table, configs, readVars>>

-----------------------------------------------------------------------------
(* manage_device, for EV_DEV_ADD and for reload.  Its environment may act   *)
(* between the wait for a neutral key state and the grab.                   *)

Managed == Head(managing)
Managing == alive /\ pc = "manage" /\ managing # <<>>
ManageStep == UNCHANGED <<worldVars, ready, timeVars, outVars, engineVars, configs,
                          readVars, alive>>

\* keyd's own device is left alone; one no file claims is given back.
Ignore ==
    /\ Managing
    /\ IsVirtual(Managed) \/ Claim(table[Managed].node) = NoKbd
    /\ table' = IF IsVirtual(Managed) THEN table
                ELSE [table EXCEPT ![Managed].data = NoKbd,
                                   ![Managed].grabbed = @ /\ table[Managed].fd # "open"]
    /\ managing' = Tail(managing)
    /\ UNCHANGED <<pc, return>> /\ ManageStep

\* device_grab returns at once when the device is grabbed already.
Keep ==
    /\ Managing /\ ~IsVirtual(Managed) /\ table[Managed].grabbed
    /\ Claim(table[Managed].node) # NoKbd
    /\ table' = [table EXCEPT ![Managed].data = Claim(table[Managed].node)]
    /\ managing' = Tail(managing)
    /\ UNCHANGED <<pc, return>> /\ ManageStep

AwaitNeutral ==
    LET p == table[Managed].node IN
    /\ Managing /\ ~IsVirtual(Managed) /\ ~table[Managed].grabbed /\ Claim(p) # NoKbd
    /\ table[Managed].fd = "open" => pressed[p] = {}
    /\ pc' = "grab"
    /\ UNCHANGED <<table, managing, return>> /\ ManageStep

\* The grab fails when the device is gone or grabbed through another
\* descriptor; when it succeeds what has been queued is drained.
Grab ==
    LET p == table[Managed].node
        possible == table[Managed].fd = "open" /\ ~Grabbed(p) IN
    /\ alive /\ pc = "grab"
    /\ table' = [table EXCEPT ![Managed] =
                    IF possible THEN [@ EXCEPT !.grabbed = TRUE, !.data = Claim(p), !.queue = <<>>]
                                ELSE [@ EXCEPT !.data = NoKbd]]
    /\ managing' = Tail(managing)
    /\ pc' = "manage" /\ UNCHANGED return /\ ManageStep

AllManaged ==
    /\ alive /\ pc = "manage" /\ managing = <<>>
    /\ pc' = return /\ return' = "turn"
    /\ UNCHANGED <<table, managing>> /\ ManageStep

-----------------------------------------------------------------------------
(* The engine, as the daemon sees it.                                       *)

Live == Range(configs)
Remaining(k, t) == IF k.due > t THEN k.due ELSE 0
Answer(k, t) == IF k.due > t THEN k.due - t ELSE 0

\* The keyboard after a key event, and after a call without one.
Typed(k, e, t) ==
    [down |-> IF e.down THEN k.down \cup {e.code} ELSE k.down \ {e.code},
     due  |-> IF e.down /\ e.code \in TimerKeys \ k.down THEN t + Delay ELSE Remaining(k, t)]
Called(k, t) == [k EXCEPT !.due = Remaining(k, t)]
NavActive(k) == k.down \cap LayerKeys # {}

\* The engine answers the event at hand: its answer is the new timeout.
Answered(f, k) ==
    /\ kbd' = [kbd EXCEPT ![f] = k]
    /\ static' = [timeout |-> Answer(k, loop.time), last |-> loop.time]
    /\ loop' = [loop EXCEPT !.timeout = Answer(k, loop.time)]
    /\ asker' = f

\* A write to an unplugged device fails, and then xwrite ends the process:
\* whether the LEDs of the devices at these positions can be written.
LedReaches(S) ==
    \A i \in S : table[i].data # NoKbd => table[i].fd = "open"

send_key(c, down) ==
    /\ keystate' = IF down THEN keystate \cup {c} ELSE keystate \ {c}
    /\ vk' = IF down THEN vk \cup {c} ELSE vk \ {c}

\* on_layer_change: every listener is sent the new state; those whose write
\* fails or is cut short are dropped.
on_layer_change(f, active) ==
    /\ \E n \in 0 .. Len(listeners) : listeners' = [l \in 1 .. n |-> active]
    /\ alive' = (f \in LayerIndicator => LedReaches({i \in Positions : table[i].data = f}))

\* kbd_process_events for a key: presses of keys that are down and releases
\* of keys that are not change nothing but the timeout.
EngineKey(f, e) ==
    LET k == kbd[f]
        fresh == e.down # (e.code \in k.down) IN
    /\ Answered(f, Typed(k, e, loop.time))
    /\ IF fresh /\ e.code \in LayerKeys THEN on_layer_change(f, e.down)
                                        ELSE UNCHANGED <<listeners, alive>>
    /\ IF fresh /\ e.code \notin LayerKeys \cup TimerKeys THEN send_key(e.code, e.down)
                                                          ELSE UNCHANGED outVars

-----------------------------------------------------------------------------
(* One turn of evloop: poll, the timeout, the devices, a client, the        *)
(* monitor, and the removal of dead devices.                                *)

ReadyNow == [devs |-> {i \in Positions : table[i].fd = "dead" \/ table[i].queue # <<>>},
             ipc |-> requests # <<>>, mon |-> announced # <<>>]
AnyReady == ReadyNow.devs # {} \/ ReadyNow.ipc \/ ReadyNow.mon
Waited == clock - loop.time
ExpiredEarly == loop.timeout > 0 /\ Waited + 1 >= loop.timeout      \* mutant of Expired
Expired == loop.timeout > 0 /\ Waited >= loop.timeout

WakeStep ==
    /\ alive /\ pc = "blocked"
    /\ ready' = ReadyNow
    /\ pc' = "read"
    /\ UNCHANGED <<worldVars, managing, return, table, outVars, listeners, configs, readVars>>

\* A timeout of 0 or less means no timeout: it stays at 0 here.
WakeForEvents ==
    /\ AnyReady /\ ~Expired
    /\ loop' = [loop EXCEPT !.timeout = AtLeast0(@ - Waited), !.time = clock]
    /\ UNCHANGED <<static, kbd, active_kbd, asker, alive>> /\ WakeStep

\* EV_TIMEOUT without a keyboard returns 0, whatever the static timeout is.
\* The garbage of the first events may have set one, if it was in the future.
WakeUnclaimed ==
    /\ Expired /\ active_kbd = NoKbd
    /\ static' = Elapsed(clock)
    /\ loop' = [loop EXCEPT !.timeout = 0, !.time = clock]
    /\ UNCHANGED <<kbd, active_kbd, asker, alive>> /\ WakeStep

\* EV_TIMEOUT goes to the keyboard that was used last.
WakeForTimeout ==
    LET k == Called(kbd[active_kbd], clock) IN
    /\ Expired /\ active_kbd \in Live
    /\ kbd' = [kbd EXCEPT ![active_kbd] = k]
    /\ static' = [timeout |-> Answer(k, clock), last |-> clock]
    /\ loop' = [loop EXCEPT !.timeout = Answer(k, clock), !.time = clock]
    /\ asker' = active_kbd
    /\ UNCHANGED <<active_kbd, alive>> /\ WakeStep

\* A keyboard that reload has freed: undefined.  The process ends, or the
\* call returns something and touches nothing that is still in use.
WakeFreed ==
    /\ Expired /\ active_kbd = Freed
    /\ alive' \in BOOLEAN
    /\ \E n \in {0, Delay} : /\ static' = [timeout |-> n, last |-> clock]
                             /\ loop' = [loop EXCEPT !.timeout = n, !.time = clock]
    /\ UNCHANGED <<kbd, active_kbd, asker>> /\ WakeStep

Reading(i) == alive /\ pc = "read" /\ ready.devs # {} /\ i = Least(ready.devs)
Done(i) == ready' = [ready EXCEPT !.devs = @ \ {i}]
ReadStep == UNCHANGED <<worldVars, pc, managing, return, configs>>

\* Mutant of ReadRemoved: the descriptor of a device that is gone is kept.
ReadRemovedKept(i) ==
    /\ Reading(i) /\ table[i].fd = "dead"
    /\ Unasked /\ Done(i)
    /\ UNCHANGED <<table, outVars, engineVars, readVars, alive>> /\ ReadStep

\* DEV_REMOVED.
ReadRemoved(i) ==
    /\ Reading(i) /\ table[i].fd = "dead"
    /\ table' = [table EXCEPT ![i].fd = "closed"]
    /\ devev' = Removed
    /\ Unasked /\ Done(i)
    /\ UNCHANGED <<outVars, engineVars, latch, lostVars, alive>> /\ ReadStep

ReadNothing(i) ==
    /\ Reading(i) /\ table[i].fd = "open" /\ table[i].queue = <<>>
    /\ Done(i)
    /\ UNCHANGED <<table, timeVars, outVars, engineVars, readVars, alive>> /\ ReadStep

\* panic_check looks at the code of every event, whatever its type.
PanicKeys == {EnterKey, BackspaceKey, EscKey}
LatchAfter(e) == IF e.code \notin PanicKeys THEN latch
                 ELSE IF e.down THEN latch \cup {e.code} ELSE latch \ {e.code}

\* device_read_event fills in its static event and returns it.  At any axis but
\* x and y it returns what it returned last, whichever device that was of.
Again(i) == Head(table[i].queue).type = "axis"
Candidates(i) == Range(table[i].queue) \cup {devev}
Returned(i, e) ==
    /\ Reading(i) /\ table[i].fd = "open" /\ table[i].queue # <<>>
    /\ e = IF Again(i) THEN devev ELSE Head(table[i].queue)
    /\ devev' = e

\* The removal of another device is taken for one of this device, which is
\* forgotten while its descriptor stays open, and grabbed if it was.
ReadDropped(i) ==
    /\ Returned(i, Removed)
    /\ table' = [table EXCEPT ![i].fd = "closed", ![i].queue = <<>>]
    /\ leaked' = leaked \cup {p \in {table[i].node} : table[i].grabbed}
    /\ stranded' = stranded \cup ReleasesLost({i})
    /\ Unasked /\ Done(i)
    /\ UNCHANGED <<outVars, engineVars, latch, alive>> /\ ReadStep

\* An event is taken from the queue.  The loop reads on unless the event ends
\* a report of the device.
Taken(i, e) ==
    /\ Returned(i, e) /\ e # Removed
    /\ table' = [table EXCEPT ![i].queue = Tail(@)]
    /\ Done(i) \/ UNCHANGED ready
    /\ latch' = LatchAfter(e)
    /\ UNCHANGED leaked /\ ReadStep

Panic(i) ==
    \E e \in Candidates(i) :
        /\ Taken(i, e) /\ latch' = PanicKeys
        /\ alive' = FALSE
        /\ UNCHANGED <<timeVars, outVars, engineVars, stranded>>

\* EV_DEV_EVENT of a device that has a keyboard.  Of a press that comes again
\* the device will report no release.
ReadKey(i) ==
    \E e \in Candidates(i) :
        /\ Taken(i, e) /\ latch' # PanicKeys
        /\ e.type = "key" /\ table[i].data \in Live
        /\ active_kbd' = table[i].data
        /\ EngineKey(table[i].data, e)
        /\ LET key == {<<table[i].data, e.code>>} IN
           stranded' = IF Again(i) /\ e.down THEN stranded \cup key ELSE stranded \ key

ReadScroll(i) ==
    \E e \in Candidates(i) :
        /\ Taken(i, e) /\ latch' # PanicKeys
        /\ e.type = "scroll" /\ table[i].data \in Live
        /\ active_kbd' = table[i].data
        /\ Answered(table[i].data, Called(kbd[table[i].data], loop.time))
        /\ UNCHANGED <<outVars, listeners, stranded, alive>>

\* Motion, and a LED event that comes again.
ReadMove(i) ==
    \E e \in Candidates(i) :
        /\ Taken(i, e) /\ latch' # PanicKeys
        /\ e.type \in {"move", "led"} /\ table[i].data \in Live
        /\ active_kbd' = table[i].data
        /\ Unasked
        /\ UNCHANGED <<outVars, kbd, listeners, asker, stranded, alive>>

\* A device without a keyboard: only the LEDs of the virtual device matter.
ReadUnmanaged(i) ==
    \E e \in Candidates(i) :
        /\ Taken(i, e) /\ latch' # PanicKeys
        /\ table[i].data = NoKbd
        /\ alive' = (IsVirtual(i) /\ e.type = "led" => LedReaches(Positions))
        /\ Unasked
        /\ UNCHANGED <<outVars, engineVars, stranded>>

AfterRequests == IF ready.mon THEN "watch" ELSE "turn"

AllRead ==
    /\ alive /\ pc = "read" /\ ready.devs = {}
    /\ pc' = IF ready.ipc THEN "accept" ELSE AfterRequests
    /\ UNCHANGED <<worldVars, managing, return, ready, timeVars, outVars, engineVars, table,
                   configs, readVars, alive>>

-----------------------------------------------------------------------------
(* Requests: one is accepted per turn.                                      *)

Accepting(r) ==
    /\ alive /\ pc = "accept" /\ requests # <<>> /\ r = Head(requests)
    /\ requests' = Tail(requests)
    /\ Unasked
    /\ UNCHANGED <<plugged, pressed, announced, dir, clock, budget, ready, latch, devev, leaked>>
Answering(r) ==
    /\ Accepting(r) /\ pc' = AfterRequests
    /\ UNCHANGED <<managing, return, table, configs, kbd, active_kbd, asker, stranded>>

\* Mutant of Reload: the last device is not given its new keyboard.
ReloadAllButLast ==
    /\ Accepting("reload")
    /\ configs' \in Orders(dir)
    /\ kbd' = [f \in Files |-> NewKeyboard]
    /\ active_kbd' = IF active_kbd = NoKbd THEN NoKbd ELSE Freed
    /\ table' = [i \in Positions |-> IF table[i].data = NoKbd THEN table[i]
                                     ELSE [table[i] EXCEPT !.data = Freed]]
    /\ managing' = [i \in 1 .. Len(table) - 1 |-> i]
    /\ pc' = "manage" /\ return' = "reloaded"
    /\ stranded' = {} /\ alive' = CanLoad(dir)
    /\ UNCHANGED <<outVars, listeners, asker>>

\* The keyboards of the old configuration are freed; devices and active_kbd
\* go on pointing at them.  A file with too many ids ends the daemon.
Reload ==
    /\ Accepting("reload")
    /\ configs' \in Orders(dir)
    /\ kbd' = [f \in Files |-> NewKeyboard]
    /\ active_kbd' = IF active_kbd = NoKbd THEN NoKbd ELSE Freed
    /\ table' = [i \in Positions |-> IF table[i].data = NoKbd THEN table[i]
                                     ELSE [table[i] EXCEPT !.data = Freed]]
    /\ managing' = [i \in Positions |-> i]
    /\ pc' = "manage" /\ return' = "reloaded"
    /\ stranded' = {} /\ alive' = CanLoad(dir)
    /\ UNCHANGED <<outVars, listeners, asker>>

\* Mutant of Reloaded: clear_vkbd is not called.
ReloadedKeysDown ==
    /\ alive /\ pc = "reloaded"
    /\ pc' = AfterRequests
    /\ UNCHANGED <<worldVars, managing, return, ready, timeVars, outVars, engineVars, table, configs,
                   readVars, alive>>

\* clear_vkbd, once every device has its new keyboard.
Reloaded ==
    /\ alive /\ pc = "reloaded"
    /\ vk' = vk \ keystate /\ keystate' = {}
    /\ pc' = AfterRequests
    /\ UNCHANGED <<worldVars, managing, return, ready, timeVars, engineVars, table, configs,
                   readVars, alive>>

\* Mutants of AddListener: no limit; the state is not sent.
AddListenerUnbounded ==
    /\ Answering("listen")
    /\ listeners' = Append(listeners, active_kbd \in Live /\ NavActive(kbd[active_kbd]))
    /\ UNCHANGED <<outVars, alive>>
AddListenerSilent ==
    /\ Answering("listen")
    /\ listeners' = IF Len(listeners) < MaxListeners THEN Append(listeners, FALSE) ELSE listeners
    /\ UNCHANGED <<outVars, alive>>

\* A new listener is told the active layers of the active keyboard.  If that
\* keyboard has been freed, the daemon reads freed memory.
AddListener ==
    /\ Answering("listen")
    /\ \E view \in BOOLEAN :
        /\ active_kbd \in Live => view = NavActive(kbd[active_kbd])
        /\ active_kbd = NoKbd => ~view
        /\ listeners' = IF Len(listeners) < MaxListeners THEN Append(listeners, view) ELSE listeners
    /\ alive' \in (IF active_kbd = Freed THEN BOOLEAN ELSE {TRUE})
    /\ UNCHANGED outVars

\* "do": the macro goes through send_key.
DoMacro == macro_parse(MacroTokens)
DoOutputs == macro_execute(DoMacro.entries)
Do ==
    /\ Answering("do")
    /\ IF DoMacro.ok THEN keystate' = Play(DoOutputs, keystate) /\ vk' = Play(DoOutputs, vk)
                     ELSE UNCHANGED outVars
    /\ UNCHANGED <<listeners, alive>>

\* "input": the text goes to the virtual device behind keystate's back.
InputOutputs == FlattenSeq([i \in DOMAIN InputCodes |-> TapOf(InputCodes[i])])
Input ==
    /\ Answering("input")
    /\ vk' = Play(InputOutputs, vk)
    /\ UNCHANGED <<keystate, listeners, alive>>

-----------------------------------------------------------------------------
(* New devices, and the end of the turn.                                    *)

\* All that is announced is opened, as long as there is something to read.
WatchStep == UNCHANGED <<plugged, pressed, dir, requests, clock, budget, ready, outVars,
                         engineVars, configs, readVars>>

\* Mutant of TableFull: the device is skipped.
TableFullSkips ==
    /\ alive /\ pc = "watch" /\ announced # <<>>
    /\ Head(announced) \in plugged /\ Len(table) >= MaxDevices
    /\ announced' = Tail(announced)
    /\ UNCHANGED <<table, managing, pc, return, timeVars, alive>> /\ WatchStep

Opened ==
    LET p == Head(announced) IN
    /\ alive /\ pc = "watch" /\ announced # <<>>
    /\ p \in plugged /\ Len(table) < MaxDevices
    /\ announced' = Tail(announced)
    /\ table' = Append(table, NewEntry(p))
    /\ managing' = <<Len(table) + 1>>
    /\ pc' = "manage" /\ return' = "watch"
    /\ Unasked
    /\ UNCHANGED alive /\ WatchStep

\* assert(device_table_sz < MAX_DEVICES).
TableFull ==
    /\ alive /\ pc = "watch" /\ announced # <<>>
    /\ Head(announced) \in plugged /\ Len(table) >= MaxDevices
    /\ alive' = FALSE
    /\ UNCHANGED <<announced, table, managing, pc, return, timeVars>> /\ WatchStep

NotOpened ==
    /\ alive /\ pc = "watch" /\ announced # <<>>
    /\ Head(announced) \notin plugged
    /\ announced' = Tail(announced)
    /\ UNCHANGED <<table, managing, pc, return, timeVars, alive>> /\ WatchStep

AllOpened ==
    /\ alive /\ pc = "watch" /\ announced = <<>>
    /\ pc' = "turn"
    /\ UNCHANGED <<announced, table, managing, return, timeVars, alive>> /\ WatchStep

\* Mutant of Turn: the table is cut to its new size but not moved up.
TurnCutsTable ==
    /\ alive /\ pc = "turn"
    /\ table' = SubSeq(table, 1, Cardinality({i \in Positions : table[i].fd # "closed"}))
    /\ loop' = [loop EXCEPT !.time = clock]
    /\ ready' = NothingReady
    /\ pc' = "blocked"
    /\ UNCHANGED <<worldVars, managing, return, static, outVars, engineVars, configs,
                   readVars, alive>>

\* Removed devices leave the table, and the loop blocks in poll.
Turn ==
    /\ alive /\ pc = "turn"
    /\ \E stay \in Orders({i \in Positions : table[i].fd # "closed"}) :
        /\ \A i, j \in DOMAIN stay : i < j => stay[i] < stay[j]
        /\ table' = [i \in DOMAIN stay |-> table[stay[i]]]
    /\ loop' = [loop EXCEPT !.time = clock]
    /\ ready' = NothingReady
    /\ pc' = "blocked"
    /\ UNCHANGED <<worldVars, managing, return, static, outVars, engineVars, configs,
                   readVars, alive>>

-----------------------------------------------------------------------------

Manage == Ignore \/ Keep \/ AwaitNeutral \/ Grab \/ AllManaged
Wake == WakeForEvents \/ WakeUnclaimed \/ WakeForTimeout \/ WakeFreed
Read == \/ \E i \in Positions : \/ ReadRemoved(i) \/ ReadDropped(i) \/ ReadNothing(i) \/ Panic(i)
                                \/ ReadKey(i) \/ ReadScroll(i) \/ ReadMove(i) \/ ReadUnmanaged(i)
        \/ AllRead
Serve == Reload \/ Reloaded \/ AddListener \/ Do \/ Input
Watch == Opened \/ TableFull \/ NotOpened \/ AllOpened
Daemon == Scan \/ TooManyFound \/ Manage \/ Wake \/ Read \/ Serve \/ Watch \/ Turn

Next == World \/ Daemon

Spec == Init /\ [][Next]_vars

\* The loop is never starved, and whoever presses a key lets go of it.
Releases == \E p \in Devices : \E c \in DeviceKeys[p] : KeyUp(p, c)
FairSpec == Spec /\ WF_vars(Daemon) /\ WF_vars(Releases)

-----------------------------------------------------------------------------

Keyboards == Files \cup {NoKbd, Freed}
IsEntry(e) == /\ e.node \in Devices /\ e.fd \in {"open", "dead", "closed"}
              /\ e.grabbed \in BOOLEAN /\ e.data \in Keyboards
              /\ Len(e.queue) <= MaxQueue /\ (e.fd # "open" => e.queue = <<>>)

\* The shape of the state.  A timeout is never negative.
TypeOK ==
    /\ clock \in 0 .. MaxTime /\ budget \in 0 .. MaxBudget
    /\ plugged \subseteq Devices /\ Range(announced) \subseteq Devices
    /\ Len(table) <= MaxDevices /\ \A i \in Positions : IsEntry(table[i])
    /\ Range(managing) \subseteq Positions
    /\ active_kbd \in Keyboards /\ asker \in Keyboards
    /\ keystate \subseteq ByteCodes /\ vk \subseteq ByteCodes
    /\ Len(listeners) <= MaxListeners
    /\ loop.timeout \in Nat /\ static.timeout \in Nat
===============================================================================

# keyd: models and proofs

keyd is a key remapping daemon. It grabs the input devices, runs every key
event through a remapping engine and emits the result on a virtual device. This
directory holds TLA+ models of the engine, of the daemon around it and of the
configuration they work with, the TLC runs that check them on small instances,
and TLAPS proofs for every instance: about the layers, queues, caches, timers and
output of the engine, about the keys, timeouts, keyboards, devices and listeners of the
daemon and its abstract specification, about what the parser makes of configuration
files and bindings of any size, and about macros of any length.

Paths below are relative to the source directory of the repository:
`keyboard.c`, `daemon.c`, and so on; `keyd.scdoc` is the manual in `docs/`.

## 1. The system

| Component | Source | State | Operations | Model |
|---|---|---|---|---|
| Remapping engine | `keyboard.c`, `keyboard.h` | `struct keyboard`: layer counts, descriptor cache, pending key, chord queue and active chords, oneshot latch and timeout, active macro, array of timeouts | `kbd_process_events`, which calls `process_event`, which calls `handle_chord`, `handle_pending_key` and `process_descriptor`; all of them call each other | `Keyboard` |
| Key output | `keyboard.c`, `daemon.c` | `keystate[256]`, `last_pressed_output_code` | `send_key`, `clear_mod`, `set_mods`, `update_mods`, `reset_keystate` | `KeyOutput` |
| Configuration | `config.c`, `config.h` | `struct config`: layers, keymaps, chords, nested descriptors, macros, commands, aliases, ids, options | parsed at startup and on reload; `kbd_eval` (bind, reset) changes it at run time | `Config`, `KeydConfig` |
| Event loop | `evloop.c` | device table, poll timeout, the last time it read | poll, `EV_TIMEOUT`, device events, clients, new and removed devices | `Daemon` |
| Event handler | `daemon.c` | `active_kbd`, static `timeout` and `last_time`, `keystate` of the virtual device | one handler for every event | `Daemon` |
| IPC, reload, listeners | `daemon.c`, `ipc.c` | client sockets, listeners | bind, reload, do, input, listen | `Daemon`, `Config` |
| Devices | `device.c`, `daemon.c` | file descriptors, grabs, LEDs | scan, match with a file, wait for a neutral state, grab, ungrab, read, remove | `Daemon`, `DeviceIds`, `Custody` |
| Macros | `macro.c` | none | parse, execute | `Macro` |
| Virtual keyboard | `vkbd/*` | file descriptor | emit | as the set of keys that are down |
| Everything else | `keyd.c`, `monitor.c`, `log.c`, `keys.c`, `strutil.c`, `ini.c`, `scripts/` | none that matters here | command line, printing, tables, text | no |

The daemon is one thread. The engine is called with one event (a key, or code 0
for a timeout) and answers with the number of milliseconds after which it wants
to be called again. The loop keeps that answer, and the event handler keeps it a
second time; both count it down. What is hard in the engine is not parallelism
but *re-entrance and time*:

- a key that may mean two things becomes *pending*, and the keys struck after it
  wait in a queue until it is resolved by a release, by another key or by a
  timeout. Then the queue is fed back into the engine, recursively; one of its
  keys may become pending itself;
- the same is done, with another queue, for keys that may become a chord, and a
  chord is itself fed back as the press and release of a pseudo key;
- a layer is active as many times as it has been activated, by keys that hold
  it, toggles, oneshots and swaps, each of which must give back exactly one
  activation, with the descriptor the key was *pressed* with;
- timers are anonymous: the array `timeouts[]` holds deadlines, not what they
  are for, and past ones are dropped;
- several devices may feed one keyboard, so a key can go down twice.

What is hard in the daemon is *ownership while the world changes*: devices come
and go between any two system calls, a reload frees every keyboard while devices,
listeners and `active_kbd` point at one, a grab takes effect some time after the
keys were seen to be up, a client types behind the back of `keystate`. What is
hard in the configuration is that it is a set of tables of fixed size with
*indices* between them, that a binding which fails may have added rows before it
did, and that it is changed while keys that are down hold indices into it.

What makes each component correct:

- *engine*: activations are paired; nothing is left active, pressed or cached
  when all keys are up; held-back keys keep their order; whoever waits for a
  timer has one; a pending key is resolved;
- *output*: the virtual device holds down exactly what the engine believes it
  does, macros included;
- *event loop and handler*: a timeout is neither lost nor early, and the loop
  always gets back to waiting;
- *devices and reload*: each device belongs to the file with the best claim, no
  event reaches another keyboard, no device is forgotten, a key that is down is on a
  device that will report its release, no index, pointer or key state outlives the
  configuration it was made under;
- *configuration*: references are in range and mean what the engine assumes, the
  last binding wins, a refused one changes nothing;
- *macros*: every key a macro presses is released;
- *listeners*: they see the layers that are active.

`PROJECT.json` lists the hazards line by line.

## 2. Modules

| Module | What it is |
|---|---|
| `KeydConfig` | `struct config` as CONSTANTS; descriptors, macros and chords; what `config.c` guarantees, as named assumptions |
| `KeyOutput` | the output state and `send_key`, `clear_mod`, `set_mods`, `reset_keystate` as operators |
| `Keyboard` | the engine and its environment: `Init`, `Next`, `Spec`, `TypeOK`, `PairedDeactivation` |
| `KeyboardInv` | the inductive invariants `IInv` behind `PairedDeactivation` and `AccountInv` behind `ActivationsAccounted` |
| `KeyboardProps` | the other properties, and `FairSpec` |
| `MCKeyboard` | small configurations, each given as the configuration file it translates |
| `DeviceIds` | which file claims a device: `parse_id_section`, `config_check_match`, `lookup_config_ent` as operators |
| `Macro` | `macro_parse` from tokens, and `macro_execute` as the key events it sends |
| `Config` | `config_parse` and `kbd_eval` as a state machine over `struct config`, with its properties; extends `DeviceIds` |
| `MCConfig` | small files and bindings |
| `Daemon` | event loop, event handler, devices, reload and clients; extends `DeviceIds` and `Macro` |
| `Custody` | abstract specification: who owns which device, from the words of the manual |
| `DaemonProps` | the daemon's properties, and the refinement of `Custody` |
| `MCDaemon` | small worlds of devices and files, a macro and a text |
| `KeyboardStructure` | lemmas about the operators, what they return, and one per action; `THEOREM TypeCorrectness`. Then one lemma per action: it preserves `StructureInv`, and what it does to the claims on each layer |
| `KeyboardPairing` | what each action does to the activations of a layer, and that no claim on it gets lost: activations equal claims; `THEOREM PairingInvariant`, `THEOREM ActivationsPaired`, `THEOREM AccountInvariant`, `THEOREM NothingLeaks` |
| `KeyboardQueues` | what is held back, who stays in the cache and which timer is armed, in three inductive invariants; `THEOREM InOrderOfStriking`, `THEOREM NoneStuck`, `THEOREM OneshotWatched` |
| `KeyboardOutput` | which keys are down on the virtual device, and who will let go of them; `THEOREM OutputJustified`, `THEOREM NothingStaysDown` |
| `MacroProofs` | macros of any length; `THEOREM MacroReleases` |
| `DaemonLoop` | one lemma per part of the daemon for each of three inductive invariants: timeouts, pointers to keyboards, devices; `THEOREM NeverEarly`, `THEOREM NoneDangles` |
| `DaemonProofs` | the types of everything, what is down, the refinement, and who will report the release of what is down; `THEOREM TypeCorrect`, `THEOREM NoneForgotten`, `THEOREM ListenersKnow`, `THEOREM CustodyInvariant`, `THEOREM Custodian`, `THEOREM NoneLeftDown` |
| `ConfigProofs` | recursive parsing by induction over the depth of nesting, one lemma per operation on `struct config`, one per action; a theorem for each property of MCConfig |

`Keyboard` composes `KeydConfig` and `KeyOutput`; `Daemon` composes `DeviceIds`
and `Macro`, and stands to `Keyboard` as a caller: what `Keyboard` calls its
environment (`Press`, `Release`, `Tick`, `Timeout`) is what `Daemon` does with
each keyboard. `Config` establishes what `KeydConfig` assumes, and `ConfigProofs`
proves that it does.

### How the engine is modelled

The C functions call each other recursively, so the model has a call stack:
`call` is the activation that runs, `callers` the suspended ones, innermost
first. An action is the piece of a C function between two calls. The frames are

| `pc` | activation |
|---|---|
| `events`, `due` | `kbd_process_events`, before an event and waiting for the timeout of one |
| `chord`, `pending`, `timers`, `key`, `exit` | `process_event` at `handle_chord`, `handle_pending_key`, the oneshot and macro timers, the lookup of the key, and `calculate_main_loop_timeout` |
| `descriptor` | `process_descriptor` |
| `recache` | the tail of `OP_OVERLOAD_IDLE_TIMEOUT` after its recursive call |
| `resolved` | the tail of `resolve_chord` |
| `idle` | the event loop waits in `poll` |

While `call` is idle the environment may `Press` or `Release` a key on a device,
`Tick` the clock or deliver the `Timeout`. Every key that goes down is released some
time: a device that is unplugged while one of its keys is down is the business of
`Daemon`.

| C state | variable |
|---|---|
| `layer_state[]` | `layer_state`; `activation_time` is `at` |
| `cache[]` | `cache`; code 0 is `"none"` |
| `pending_key`, `chord`, `active_chords[]` | the same names |
| `oneshot_latch`, `oneshot_timeout` | `oneshot` |
| `active_macro`, `active_macro_layer`, `macro_timeout`, `macro_repeat_interval` | `macro` |
| `last_pressed_code`, `overload_start_time`, `last_simple_key_time` | `recent` |
| `timeouts[]`, `nr_timeouts` | `timeouts`, a set of (deadline, copy) |
| `keystate[]`, `last_pressed_output_code`, and the virtual device | `out` |

Abstractions, and why they lose nothing the properties tell apart:

- activation times are compared, never printed, so `Packed` renumbers them after
  each step; 0 (never) and 1 (what `new_keyboard` and `setlayout` write) keep
  their value. `get_time` counts for the whole process: whether it has been
  called before this keyboard's first event is the nondeterministic `activated`;
- a macro that is one key sequence is executed as the code does; any other is
  the set of keys it taps, all of which are up on the device when it ends, while
  `keystate` is not told (`macro_execute` bypasses `kbd->keystate`);
- fields of `pending_key` and `chord` that are dead until they are written
  again are reset at once. `tap_expiry` is never set to anything but 0 and
  `PK_INTERRUPT_ACTION2` is never used; both are left out;
- an assertion that fails stops the model with `panic` set to its name. A
  negative `active` stands for the failed `assert(active > 0)`;
- time is in milliseconds, `Tick` by `Tick`, and stops at `MaxTime`;
- a binding with nothing behind its `=` is not in `ConfigDescs`: in a keymap it
  is no binding, and chords bound to nothing are left out.

### How the daemon is modelled

An action is the code between two points where the daemon looks at the world.
`pc` says where it is:

| `pc` | code |
|---|---|
| `scan` | `device_scan`, after the watch on `/dev/input` was set up |
| `manage` | `manage_device` is about to be called for the next of `managing` |
| `grab` | `device_grab`, between the wait for all keys to be up and `EVIOCGRAB` |
| `turn` | the end of a turn of `evloop`: removed devices leave the table |
| `blocked` | `poll` |
| `read` | the devices `poll` reported are read, event by event |
| `accept` | a client is accepted and served |
| `reloaded` | `clear_vkbd`, the end of `reload` |
| `watch` | the announcements of new devices are read |

The world plugs and unplugs devices, presses and releases keys, moves pointers,
switches CapsLock, edits the directory of configuration files, sends requests
and lets time pass. It may do so at every point where the loop could tell a
change made there from the same change made later, and nowhere else: `Touching`
names these points for input and removal, `Tick` those where the clock is read.
Every change but the release of a key is paid from `budget`.

| C state | variable |
|---|---|
| `device_table[]` | `table`: the device, its descriptor (`open`; `dead` when the device is gone; `closed` when the loop knows), `grabbed`, `data`, and the kernel's queue of unread events |
| `configs`, `active_kbd` | the same names; a pointer that `free_configs` left dangling is `"freed"` |
| `timeout`, `start_time` and `ev.timestamp` of `evloop` | `loop` |
| `timeout`, `last_time` of `event_handler` | `static` |
| `keystate[]` of `daemon.c`, the virtual device | `keystate`, `vk` |
| the three statics of `panic_check` | `latch` |
| the static `devev` of `device_read_event` | `devev`: the event it returned last |
| `listeners[]` | `listeners`: what each was last told about the layer |
| the whole of `struct keyboard` | `kbd[f]`: the keys it holds down and the moment it wants to be called |

Abstractions:

- the engine passes keys on, except that `LayerKeys` hold the one layer `nav` and
  `TimerKeys` ask to be called again after `Delay`; everything else it does is
  `Keyboard`. Its answer is the time left until its deadline, as
  `calculate_main_loop_timeout` computes it;
- a device's flags and id are constants; its capabilities are not read again;
- undefined behaviour is a choice: the timestamp of the events that add the first
  devices is never written (`GarbageTime`); a call into a freed keyboard
  (`WakeFreed`, `AddListener`) ends the process or returns anything;
- `xwrite` ends the process when a write fails (`LedReaches`); so do the panic
  sequence and the assertion on a full table. All of them set `alive` to FALSE;
- a listener whose write fails is dropped: any number of them may be;
- an event of an absolute axis other than x and y, which only `AxisDevices` have, makes
  `device_read_event` return its static `devev` once more (`device.c:453-455`): the
  last event of whichever device left it there, as an event of this one (`Returned`).
  When that was the removal of another device, this one is dropped from the table with
  its descriptor open (`ReadDropped`), and grabbed if it was (`leaked`);
- a file with more ids than `MaxIds` (64 in the code) fails an assertion and ends the
  daemon, at the start and at a reload (`CanLoad`);
- `asker` and `stranded` are history: whose answer the timeouts come from, and which
  keys are down on a keyboard although no device will report their release any more
  (until the next reload: see `NoKeyLeftDown` below).

### How the configuration is modelled

A file is what `ini_parse_string` returns, with names and expressions already
split (the comment at the head of `Config` gives the forms). `config_parse` runs
twice, over `default_config` and over the file, each time in two passes: ids,
aliases, options and layers in the first, bindings in the second. Every alias and
every binding is a step. `parse_descriptor` calls itself for the actions in an
action; here it is a function of the depth: `parse[n]` parses what is nested at
most `n` deep and calls `parse[n - 1]`. It takes and returns the three tables it
adds to, so that what a failed action has added to them stays there.
`MaxNesting` is the depth of what may be loaded or bound (2 in the runs, any
number in the proofs; the code has no limit but `MAX_EXP_LEN`). The arguments are
parsed from the last to the first, as in the code. When all files are parsed,
clients `Bind` and `BindReset` and keys go down (`Press`), which caches a
descriptor, and up. `log` and `loaded` are history: the bindings that were
accepted, with the keys they designate, those that an alias makes among them.

Two lines without an action are told apart as in the code: one without a `=`
(`NoValue`) has a null value and is skipped with a warning (`config.c:877`), while `k =`
has an empty one, which is a binding like any other: it unbinds `k`. Section headers
and aliases that are too long (`fits`) are dropped (`config.c:373`, `814`). An id too many
fails an assertion: `TooManyIdsFound` ends the run of the program, and nothing is
parsed or bound after it. Entries of `[aliases]` and `[global]` always have a value here.

`ConfigAssumption` says which instances there are: files and bindings have the forms
that the head of the module describes; the tables fit the `int16_t` of an index
(`config.h:59`), and the six layers of `default_config` have room (`MAX_LAYERS` is
32); no key is called `shift`, `alt`, `altgr`, `meta` or `control` (`keys.c`; if one
were, the aliases of the default file would bind keys to it). `Text` is the
set of words; TLC takes STRING for it.

## 3. Runs

### The engine (module `MCKeyboard`)

Every cfg fixes a configuration of two to four keys and three to six layers,
written out in `MCKeyboard` as the configuration file it stands for.

| Run | Configuration | Shows |
|---|---|---|
| MCLayers | overload, togglem, oneshot, layer, layerm, swap, swapm and a composite layer, six layers | `TypeOK`, `PairedDeactivation`, `ActivationsAccounted`, `QuiescentClean`, `CachedKeysAreDown` |
| MCTapHold | overloadt, with two devices | `HeldBackInOrder`, `PendingTimerArmed`, `CachedKeysAreDown`, `QuiescentClean`, `PendingKeyResolves` |
| MCChords | a+b, the longer a+b+c and the overlapping b+c, on two layers, with a hold timeout | `HeldBackInOrder`, `CachedKeysAreDown`, `ChordTimerArmed`, `QuiescentClean` |
| MCLimits | chords, overloadt2 and timeout that nest in each other; two slots of everything; timeouts up to 1 ms late | `PairedDeactivation`, `HeldBackInOrder`, `CachedKeysAreDown`, `QuiescentClean` |
| MCModes | overloadi over an overload, layouts, macro2, oneshotm, clear, clearm, scroll, command, oneshot timeout | `IInv`, `AccountInv`, `OneshotTimerArmed`, `ActivationsAccounted`, `QuiescentClean` |

`CacheSize`, `QueueSize` and `MaxTimeouts` are 4 (16, 32 and 64 in the code):
more never fill with so few keys, except in MCLimits, which sets them to 2 and
`NrChordSlots` to 1 so that they do. MCChords has a `QueueSize` of 8, because
there three keys wait at once. The bounds of the model are `MaxTime` (1 where no
timer matters, else 3 to 6, past every timeout of the configuration),
`MaxOneshots` (how many oneshot taps may add up), `MaxScheduled` and `MaxQueued`
(no press once so many timeouts are armed or events held back; 9 in MCLimits,
which is no bound there), and `Lag`, the milliseconds by which a timeout may be
served late, 1 in MCLimits and 0 elsewhere. They are guards of `Press` and `Tick`
only: the engine itself is never cut short. In MCChords `MaxScheduled` is 3, because the
keys of a+b+c arm three timeouts before the chord is complete, and `MaxTime` is 6: a+b
is resolved at time 3 at the earliest, its layer then makes b+c possible, and b+c is
resolved two ticks later, at 5. All three chords do resolve in this run, and two of them
are active at once. MCLimits switches the deadlock check
off because there the assertions on full queues do stop the program.

### The daemon (module `MCDaemon`)

| Run | World | Shows |
|---|---|---|
| MCDaemon | a keyboard, a keyboard with a pointer and the virtual device; three files, one that takes anything, one that names both devices and one with an id too many; plugging, keys, CapsLock, editing, reloading; no clock | `NoKeyLeftDown`, `NoDeviceForgotten`, `NoDanglingKeyboard`, `DevicesInCustody`, `WorkGetsDone` |
| MCClients | the same devices and one more, and one file; keys that wait for a timeout, a key that holds a layer, motion, scrolling and an unknown axis; clients that reload, listen, run a macro and type text; two ticks of the clock | `TypeOK`, `NoKeyLeftDown`, `NoDeviceForgotten`, `TimeoutNotEarly`, `ListenersSeeTheLayer` |

`MaxBudget` is the number of changes the world makes besides releases: 4 in
MCDaemon (press, edit, reload, unplug: what it takes for a device to be grabbed,
lost to another file, and removed while it is), 3 in MCClients (press, reload,
listen), where the clock adds to it. `MaxTime` is 2, `Delay` there is 2, so that
timeouts are over exactly at the last tick and not before. `MaxIds` is 2, which one file
exceeds. `MaxDevices` is 4 in MCDaemon: both devices, the virtual one and a device plugged in again; the fifth
entry fails the assertion. It is 3 in MCClients, where there is one device more
than the table holds: one that is announced ends the daemon
(`device_table_sz < MAX_DEVICES`), and so does one found by the first scan. `MaxListeners` is 1, so that a second listener is refused. A queue
of eight events (`MaxQueue`) never fills. `GarbageTime` is one moment before and
one after the real ones. The deadlock check is off because the daemon may end, and
because the world stops when its budget is spent.

`DevicesInCustody` is a refinement: `Daemon` implements `Custody`, whose state is
the connected devices, the loaded files, the owner of each device and the keys each
keyboard holds down. The owner is computed from the device table: the file of the
one entry that has the device grabbed, `"limbo"` if that keyboard was freed,
`"system"` if nothing has it. The interesting obligations are that a reload
replaces all keyboards at once and nothing is handled until no device is in limbo;
that a device is given back only when no file claims it; and that a key reaches no
keyboard but its device's, which holds as long as no device has an absolute axis other
than x and y (`NoAxes`, true in MCDaemon; MCAxes shows what happens otherwise). Whom a
device belongs to is defined in `Custody` from the words of the manual (a line excludes,
or names a type, or an id; a wildcard leaves mice alone) and in `DeviceIds` from the ranks in the code.

`NoKeyLeftDown` says two things of every key that is down on the virtual device, once
no reload is in progress: `keystate` knows of it, so that a reload can let go of it, and
it is down on a keyboard in use *and its release will come*: the device is open, read
for that keyboard, and either the release is in its queue or the key is physically down
on it (`ReleaseToCome`). The exceptions are explicit. A key that is down on a device when it is
unplugged stays down until the next reload, because `EV_DEV_REMOVE` is only logged
(`daemon.c:520-523`); so does a press that came again on another device. `stranded`
records exactly those, at the step in which the release is lost, and forgets them when a
release arrives all the same, or at a reload.

`NoDanglingKeyboard` is about the keyboards of *devices*. `active_kbd` is not covered and
does dangle: see "Where the program does something else".

### The configuration (module `MCConfig`)

| Run | Input | Shows |
|---|---|---|
| MCConfig | 2 alias sections, one with an alias that is too long; 6 x 6 bindings of main, `k =` among them; 3 types of a layer; 6 last sections, one with a header that is too long and one with `k =` and a line without `=`: with one file that has an id too many, 1297 files; six bindings at run time, two of them in any order with resets and keys | `TypeOK`, `ReferencesInRange`, `LayerTargetsAreValid`, `LastBindingWins`, `LayersKeepTheirType`, `RowsStayPut`, `RefusedBindingsChangeNothing` |

The tables are small (`MaxLayers` 8, of which the default file takes six;
`MaxDescriptors` 4, `MaxMacros` 3, one command, one chord, one id), so that every one of
them, the layers included, overflows in some file, in the middle of an action as
well as at its start.
`MaxBinds` is 2 and `MaxHeld` is 1: the properties relate a binding to one other
and a key to one binding. The deadlock check is off because an id too many ends the
program.

### Where the program does something else

Four runs check what a comment or the manual says of the program. TLC finds a
shortest way to break it:

| Run | Property | What happens | What says otherwise |
|---|---|---|---|
| MCSwapToggle | `PairedDeactivation` | swap takes a layer away from a key that only toggled it | `keyboard.c:254` and the assertion in `deactivate_layer` |
| MCAxes | `KeysComeFromOwnDevices` | an unknown absolute axis of one device delivers the last key of another device to its keyboard (`device.c:453-455`) | `device.c:378-382` |
| MCTimerLost | `TimerIsArmed` | pointer motion at the moment a timeout is over counts it down to 0, which means none (`daemon.c:430`) | `keyboard.c:1118-1120` |
| MCPanic | `PanicNeedsItsKeys` | with CapsLock on, backspace and enter end the daemon: LED code 1 passes for escape (`evloop.c:106`) | `keyd.scdoc:58-60` |

The passing runs stay clear of the first of these, and of nine more cases of the engine
and its listeners in which a property does not hold. TLC confirms each on a small
instance; they are the limits of what the passing runs show:

- a *second tap-hold key* in the queue of a first may be started, when the queue
  is flushed (`keyboard.c:1109`), with an expiry that is over, and then waits
  without a timer, against `keyboard.c:1118`: `PendingTimerArmed` is checked with
  one tap-hold key;
- a pending key absorbs the *oneshot timeout* (`keyboard.c:1130`), against
  `keyd.scdoc:577`: `OneshotTimerArmed` is checked without tap-hold keys;
- a *toggle* struck while a oneshot of a modifier layer waits ends the oneshot
  after the modifiers were computed (`keyboard.c:711`) and leaves the modifier
  down, against `keyd.scdoc:638`: `QuiescentClean` speaks of states in which
  nothing is toggled, and MCLayers has no modifier oneshot in reach of a toggle;
- the *modifiers of a macro* that is one key sequence (`macro(C-x)`) stay down until
  something sets the modifiers anew, which nothing does after `clearm(C-x)`
  (`keyboard.c:611-614`), whose release does nothing; after the tap of `overload(shift,
  macro(C-x))`, whose release is over when the macro runs (`keyboard.c:636-642`), ctrl
  stays down until the next key; and `overload(shift, macro2(1, 1, C-x))` presses and
  releases the `macro2` at once (`keyboard.c:644-645`), which then repeats without a key
  that would end it, against the comment at `keyboard.c:637-640`. No run with
  `QuiescentClean` has such a macro;
- the same key on *two devices* completes a chord of two keys (`keyboard.c:287`),
  against the comment at `keyboard.c:1154`; a layer that the chord holds then stays on
  when all keys are up: chords are checked with one device;
- the *tap of an overload* may be an action that waits. `overload(nav, overloadi(a, b,
  t))` leaves `a` or `b` down forever: `OP_OVERLOAD_IDLE_TIMEOUT` replaces the
  descriptor in the cache (`keyboard.c:558`), which no longer has the key, and is
  released as itself, which does nothing. `overload(nav, overloadt(...))` leaves a key
  that is up in the cache, and `overload(nav, overloadi(layer(num), ...))` leaves `num`
  on. No run has such a configuration;
- *overloadi within overloadi*: `overloadi(a, overloadi(b, layer(num), t), t)` leaves
  `num` on when its key goes up. The inner one caches `layer(num)` for the key, then
  the outer one caches the inner (`keyboard.c:558`), whose release does nothing:
  `ActivationsAccounted` is checked where no overloadi chooses another;
- a *late timeout*: a key struck before the pending one and released in the
  millisecond in which that one expires is not held back (`keyboard.c:1051`), and the
  timer, being over, is dropped (`keyboard.c:467`); the pending key then waits for the next event.
  `PendingTimerArmed` is checked with timeouts that are served in time;
- *two keys for one layer*: `deactivate_layer` tells the listeners that the layer is
  off although the other key still holds it (`keyboard.c:250`). MCClients has one.

Two more of the daemon are in the model and are left open by its properties, as
`NoKeyLeftDown` and `NoDanglingKeyboard` say:

- a key that is down on a device when it is *unplugged* stays down, on its keyboard and on
  the virtual device, until the next reload (`daemon.c:520-523`);
- after a *reload* `active_kbd` points at a keyboard that was freed until the next event of
  a device. A timeout that is over before is delivered to it (`daemon.c:433-440`), and a new
  listener is told its layers (`daemon.c:76-88`): undefined behaviour, which `WakeFreed` and
  `AddListener` leave open, the end of the process included.

Five more differences were met that no run shows:

- a *chord* whose keys are all part of an earlier one replaces the action of the earlier
  one and is not bound itself, because `layer_lookup_chord` takes the first chord that has all
  the keys, whether or not it has more (`config.c:203-226`), against `keyd.scdoc:382-383`.
  `LastBindingWins` speaks of single keys;
- *composite layers* may be assigned: `parse_descriptor` refuses only main and layouts
  (`config.c:668-672`), while `keyd.scdoc:298-299` says they "cannot be explicitly assigned".
  MCConfig binds one, and `LayerTargetsAreValid` allows it;
- bindings apply to every keyboard (`keyd.scdoc:816` says the most recently active one);
- `bind 'a = .'` is read as a binding of a layer named by what precedes the dot
  (`config.c:1004`);
- `clearm` clears the layers before it executes the macro (`keyboard.c:612-614`), not after
  (`keyd.scdoc:689`).

Every property of a passing run is broken by a mutant of the code (`PROJECT.json`
"mutants"; the mutated operators stand before the ones they replace).

### Fairness

`PendingKeyResolves` (MCTapHold) assumes that the engine runs to completion (it is
a sequential function that is called and returns), that a timeout that is over
is delivered (`poll` returns), and that the clock advances however often keys
interrupt the waiting. Nothing is assumed of the keys. The property is limited to
keys whose expiry is within `MaxTime`, beyond which the model has no clock.

`WorkGetsDone` (MCDaemon) assumes that the loop is not starved, `WF_vars(Daemon)`,
and that whoever presses a key lets go of it, `WF_vars(Releases)`. The second is
needed: `device_grab` waits for all keys of the device to be up, and a key that is
held forever holds up the daemon forever. The world has a finite budget, so that
it becomes quiet.

## 4. Proofs

TLAPS proves the following for every value of the constants that satisfies the
named assumptions of the modules. A theorem that needs more of the configuration
says so: `NoChords`, `NoTapHold`, `TapsAreFinal`, `ChoicesAreFinal`, `ModsGivenBack`,
`SwapToggleDisjoint` and `OneLayerKey` are properties of a configuration file, `NoAxes` is
one of the devices. Each is there for a reason: without `NoChords` the argument of a proof ends (see below), and for
every other one there is an instance without it that breaks the property.

The engine, for every configuration and every size of the cache, the queues, the
timeouts and the counters:

| Theorem | Says | Of which configurations |
|---|---|---|
| `TypeCorrectness` | `TypeOK` | all |
| `PairingInvariant`, `ActivationsPaired` | `IInv`, `PairedDeactivation` | `SwapToggleDisjoint`: no swap is bound in a layer some action toggles |
| `AccountInvariant`, `NothingLeaks` | `AccountInv`, `ActivationsAccounted` | `SwapToggleDisjoint`, `TapsAreFinal` and `ChoicesAreFinal`: no overloadi chooses an overloadi |
| `InOrderOfStriking` | `HeldBackInOrder` | `NoChords` |
| `NoneStuck` | `CachedKeysAreDown` | `NoChords`, `TapsAreFinal`: the tap of an overload does not itself wait for a timeout or an earlier key |
| `OneshotWatched` | `OneshotTimerArmed` | `NoChords`, `NoTapHold` |
| `OutputJustified` | `OutputInv` | `SwapToggleDisjoint`, `TapsAreFinal`, `ChoicesAreFinal`, `ModsGivenBack`: no macro of a `clearm` or of the tap of an overload is a key sequence with modifiers, and where a layer may be toggled no oneshot or swap is for a layer with modifiers |
| `NothingStaysDown` | `QuiescentClean`, while no counter was full | these and `NoChords` |

The daemon, for any devices, files, ids, edits, reloads, requests, waiting times
and garbage in the first timestamps:

| Theorem | Says |
|---|---|
| `TypeCorrect` | `TypeOK` |
| `TimeInvariant`, `NeverEarly` | `TimeInv`, `TimeoutNotEarly` |
| `PointerInvariant`, `NoneDangles` | `PointerInv`, `NoDanglingKeyboard` |
| `NoneForgotten` | `NoDeviceForgotten`: devices with absolute axes other than x and y are excepted in the property itself |
| `KeysInvariant` | `TypesInv`, `KeysInv` |
| `NoneLeftDown` | `NoKeyLeftDown`, with no condition on devices or files |
| `ListenersKnow` | `ListenersSeeTheLayer`, under `OneLayerKey`: one file and one key that holds the layer |
| `CustodyInvariant`, `Custodian` | `AllInv`; `Daemon` implements `Custody`, under `NoAxes`: no device has an absolute axis other than x and y |

The configuration, for all files, bindings, depths of nesting, names of keys and sizes
of the tables that satisfy `ConfigAssumption`:

| Theorem | Says |
|---|---|
| `ConfigTyped` | `TypeOK` |
| `ReferencesStayInRange` | `ReferencesInRange` |
| `TargetsStayValid` | `LayerTargetsAreValid` |
| `LastBindingAlwaysWins` | `LastBindingWins` |
| `LayerTypesKept` | `LayersKeepTheirType` |
| `RowsNeverMove` | `RowsStayPut` |
| `RefusalsChangeNothing` | `RefusedBindingsChangeNothing` |

And `MacroReleases`, of every text of a macro: what `macro_parse` accepts,
`macro_execute` plays so that no key is down afterwards which it pressed, and no
other key has changed.

The assumptions on configurations in `KeydConfig` are what the parser guarantees: a
layer action names a layer that is neither main nor a layout, `setlayout` names
main or a layout, nested actions are in the table. That it does is
`TargetsStayValid` and `ReferencesStayInRange`, of the parser's model. Only a layer
that is neither main, a layout nor composite has modifiers: `new_layer`
(`config.c:303-358`) gives them to no other. TLC evaluates
the assumptions in every run. `DaemonAssumption` asks that `Delay` is positive, that devices and files
are finitely many, that those at the start (and keyd's own device) are among them,
that the four names of something that is no file are none, that key codes fit a
byte, that macros and texts are sequences, and that the rest has its type.

### Types of the engine

The part of `TypeOK` that is more than types is `WellStacked`: the call stack ends
with the idle loop, holds it nowhere else, and every activation carries well typed
arguments. There is one lemma per action; the lemmas about calls and returns
(`CallThen1Type` ... `ReturnType`) carry the stack, the others of the first half of
`KeyboardStructure` say what the operators return.

### Activations

`SwapToggleDisjoint` is needed: MCSwapToggle is a configuration without it in
which the assertion fails. `assert(active > 0)` of `deactivate_layer` cannot fail
while no `uint8_t` counter is full (`saturated` records that one was; 255
activations of one layer take as many keys or oneshot taps).

`PairedDeactivation` alone is not inductive: that a deactivation finds a positive
count depends on who will deactivate the layer later. `IInv` counts them.

- A *claim* on a layer is a cache entry whose descriptor will deactivate it when
  its key goes up (`Holds`), an entry that names it and that a swap may take it
  from, an entry `OP_OVERLOAD_IDLE_TIMEOUT` is about to give such a descriptor, or
  a release of such a descriptor in progress (`Finishing`).
- The *excess* of a layer is `active - toggled - oneshot_depth`: the activations that
  need a claim. `Covered(l)`: the excess is at least the claims. Each action changes
  the two in step. The lemmas of `KeyboardStructure` say how the claims move at most
  (`NoNewClaims`, `ClaimGained`, `ClaimDropped`, `ClaimMoved`), those of
  `KeyboardPairing` how the excess does (`ExcessKept`, `ExcessMore`, `ExcessLess`,
  `ExcessMoved`); `CoverStep` combines them.
- `StructureInv` is what makes the claims move that way: a key has one cache
  entry (`UniqueEntries`); the entry of a key that is being pressed claims
  nothing yet (`FreshEntry`); a key that goes up is no longer cached
  (`ReleasedNotCached`); the activations of `process_descriptor` are innermost on
  the call stack and at most one of them has a claim of its own, which is that of
  the one it waits for (`Innermost`, `ClaimingIsNext`); a swap runs for a layer it
  is bound in (`SwapsAtHome`); main and layouts are never toggled, oneshot or
  noted in the cache (`OnlyTargets`, `EntryTargets`), which is why `setlayout` may
  overwrite their counts.
- `CountersBelow`: while no counter is full, none wraps around.

That nothing leaks is the other direction, `Explained(l)`: the excess is at most the
claims. For it no claim may get lost (`NoLostClaims`, `ClaimAdded`, `ClaimPaid`,
`ClaimPassed`; `ExplainStep` combines them with the same facts about the excess), and
`ReasonsInv` is what that takes:

- whoever is being pressed has something that will give back what it activates
  (`PressKept`): its entry has the descriptor, or the tail of
  `OP_OVERLOAD_IDLE_TIMEOUT` is about to write it there, or `OP_OVERLOAD` is about to
  release what it pressed;
- that tail finds the entry (`RecacheKept`) and overwrites no claim, since
  `process_descriptor` calls itself once at most (`NestedOnce`) and never for another
  overloadi (`ChoicesAreFinal`);
- the entry of the pending key is there and holds nothing yet (`PendingKept`,
  `KeyPassed`), so that `handle_pending_key` writes over no claim; a tap that waits
  would become pending without an entry (`TapsAreFinal`);
- an entry that names a layer a swap may take belongs to a key that holds it
  (`LayerHeld`), and what is toggled was bound to be (`ToggledKnown`): a swap takes
  over the claim of a key, never one that is not there (`SwapToggleDisjoint`).

While the engine is idle the claims on a layer are the cached keys that hold it
(`IdleClaims`), which is `ActivationsAccounted`. MCModes is a configuration that has
all three properties. MCLayers binds a swap in a toggled layer, so the theorem says
nothing about it; there `ActivationsAccounted` is model-checked only.

MCModes checks `IInv` and `AccountInv` as invariants; the steps of the induction are
`InitInv`, `NextInv`, `InitAccount` and `NextAccount`.

### Held-back keys, cached keys, the oneshot timer

Without chords an event that was struck and is not processed yet is in one of three
places: in the queue of the pending key, in the activation that runs (`Fed`), or in
a loop that is suspended while one of its events is processed. `QueueInv` says that
these places follow each other in time, and that each is sorted. A step of the
engine hands on the events of one place, or none (`PlainStep`), takes the first from
a loop, or puts it at the end of the pending key's queue; and `handle_pending_key`
lets an event pass the queue only when nothing of its key is in it. It is the last
case that makes the invariant more than a remark: the release that passes the
pending key is later than all that waits, and it is not in any place afterwards.

`FateInv` says which keys will be in the cache once all events on their way are
processed (`Coming`: the keys of the cache, changed by the last event of each key
that is still on its way): they are down. Each step leaves `Coming` as it is, or
changes it as the physical key did. `PendingInv` is what makes this so: a pending key
is in the cache, and no later event of it overtakes what waits; whoever runs an
action that may become pending runs it for a key that is cached. The last fails for
an overload whose tap is such an action, because `OP_OVERLOAD` runs the tap of a key
that left the cache when it went up (see the limits above): hence `TapsAreFinal`.

Chords are excluded from these two theorems because `resolve_chord` makes events
for a key that is not on any device, in a slot that may be free again before they are
processed (`keyboard.c:858`).

`ArmedInv` says of a oneshot timeout that it is armed: a timer for it is in the
array, its time is later than the event that is processed (`EventTime`, the same for
all descriptors on the stack), and the loop was told to come back by then. `Exit`
drops timers, but none that is later than its event; `Timers` ends a oneshot that is
over before `Exit` can drop its timer; and `NextDue` is the least of those left. The
argument needs that events are processed at the time they were struck, which the
queue of a pending key or a chord breaks (see the limits above): hence `NoChords`
and `NoTapHold`.

### What is down

`QuiescentClean` is far from inductive: a key that is down on the virtual device is
let go of by the release of a descriptor that a key was pressed with, and that may be
in the cache, on the call stack or about to be written by `OP_OVERLOAD_IDLE_TIMEOUT`;
modifiers are let go of by whatever calls `set_mods` next. `OutputInv` names for all
that is down who will let go of it:

- `OutInv`: each key in `keystate` is `Justified`. Either a key sequence that emits it
  is still to be released (`HeldDown`, `WillRelease`), or it is a modifier of an active
  layer, or it is a modifier and something will set the modifiers anew (`Loose`): the
  release of a key sequence or of a `swapm`, or the key lookup that ends the macro that
  repeats. What is down on the device is in `keystate`;
- `RepeatKept`: the macro that repeats belongs to a key whose release is still to come,
  and has stopped when that release runs;
- `EntriesInv`: a cache entry that gets another descriptor (of the pending key, or after
  an overloadi) has one until then whose release does nothing, so that no release is
  lost;
- `OneshotKnown`: only layers of oneshot and swap actions are left on by a oneshot.

Each action keeps the releases that are still to come (`ReleasersKept`), except that of
the descriptor it has just released (`OthersKept`), and sets the modifiers to those of
the layers it leaves active; `ModsReturn` and `MacroReturn` combine the two for the
actions that end in `Return`. What the operators of `KeyOutput` do to `keystate` comes
first: `set_mods` goes through the modifiers in the order of `keys.c`, and
`clear_mod` taps control meanwhile. `ModsGivenBack` excludes the macros and toggles of
which nobody sets the modifiers anew (see the limits above).

`NothingLeft` puts it together: when all keys are up and nothing is held back, the
cache is empty (`NoneStuck`), so that no release is still to come and no macro
repeats; no layer is active that is neither toggled nor left on by a oneshot
(`NothingLeaks`), so that no modifier is justified either; hence nothing is down. MCModes
and MCTapHold satisfy all the hypotheses. `OutputInv` was checked with TLC on MCModes,
and on a variant of it in which the key sequences and macros have modifiers, before it
was proved.

### Timeouts

`TimeoutNotEarly` says of the moment when `poll` returns that the keyboard whose
answer set the timeout has reached its deadline. It is not inductive: `evloop`
and `event_handler` each count the answer down, from different moments, and
the handler's count replaces the loop's after every event that is not a key.
`TimeInv` adds:

- `AskerServed`: neither count ends before the deadline of `asker`
  (`NotBefore`), and the handler last counted no later than the loop read the
  clock. Counting down moves the start forward and the rest back by the same amount
  (`CountedDown`); an answer is the time left until the deadline
  (`AnswerTaken`); `evloop.c:84` only measures later (`TurnKeepsTime`);
- `NoneWaits`: after a reload no keyboard has a deadline until one is used again,
  so whatever a freed keyboard answers belongs to nobody;
- `Started`: the timestamps that were never written come before any keyboard is
  asked.

There is one lemma per part of the loop (`WorldKeepsTime` ... `TurnKeepsTime`);
`TimeInvStep` combines them.

### Devices

`NoDanglingKeyboard` says nothing of the moments in which it is not true: `reload`
frees all keyboards and then calls `manage_device` for one device after the
other, and while one of them is being grabbed the world goes on. `PointerInv` says
what holds then:

- `Accounted`: a device whose keyboard was freed is among those `manage_device` is
  still to be called for; keyd's own device never has a keyboard;
- `Grabbing`: the device that waits for its keys to be up has a claim on it by a
  file that is loaded (`ClaimInUse`: who claims a device is a file that is in use,
  or nobody);
- `Control`: what is left to manage are positions of the table, and only in the
  middle of managing is anything left.

`NoDeviceForgotten` speaks of the waiting loop; `DeviceInv` adds to the above that
it holds all along: `Known`, a connected device without unknown axes is open or
announced from the first scan on, whatever is plugged while devices are read, grabbed
and swept out of the table; and `Exclusive`, no device is grabbed through two
descriptors, which holds because `EVIOCGRAB` fails on a device that is grabbed. The
table drops an entry only when its device is gone, or when an event of an unknown axis is
answered with the removal of another device (`Axial`); that only a device with such an axis
has such an event in its queue is part of `TypesInv`, so `NoneForgotten` is proved in
`DaemonProofs`.

### Keys and listeners

`KeysInv` relates three records of what is down. What the virtual device holds down,
`keystate` of `daemon.c` knows of: the engine's output goes through both, and a text
(`input`) or a macro (`do`) goes to the device behind the back of `keystate`, but every
key it presses is up when it ends (`MacroReleases`). What `keystate` knows of is down
on a keyboard that is loaded, unless `clear_vkbd` of the reload in progress will
release it.

That its release will come is the harder half of `NoKeyLeftDown`, and `Strand` is its
invariant:

- `Followed`: of a device that is open and grabbed, every press in the queue has its
  release behind it in the queue, or the key is still down. It holds from the grab on,
  because the grab waits for all keys to be up and drains what was queued; the kernel then
  delivers every event to the one descriptor that has the device;
- `Covered`: every key that is down on a keyboard in use is to be released by a device
  that is open and read for that keyboard (`WillRelease`), or is recorded as stranded;
- `Fresh`: during a reload the new keyboards have nothing down.

A press that is read from the queue moves from `Followed` to `Covered`
(`KeyKeepsStrand`); a device that is unplugged, or dropped from the table, takes the
releases it owed with it, and the step that removes it records them
(`UnplugKeepsStrand`, `DropKeepsStrand`); a device changes its keyboard only in a reload,
when no key is down on one. Two devices of one keyboard may hold the same key: the
release of the first clears it, and nothing is left for the second to release.

`TypesInv` carries the types all of these need: what a device has queued
are events of its own keys, an axis event only if it has such an axis, and the device
table and the listeners stay within their arrays.

`ListenersKnow` needs `OneLayerKey`. With two keyboards a new listener is told of the
layers of `active_kbd` only (`daemon.c:76`); with two keys for the layer it is told
that the layer is off when the first of them goes up (`keyboard.c:250`).

### Custody

`AllInv` is what it takes to read the owner of a device off the device table: at most
one open entry of a device is grabbed (`Exclusive`), an open entry has a keyboard in
use only while it is grabbed and is grabbed only while it has a keyboard (`Held`), and
a device whose keyboard was freed is in the list `managing` (`ToManage`). Each part of
the daemon maps to one step of `Custody` or to a stutter (`StepIsKept`). `NoAxes` is
needed where an event is read: what is returned is then the head of the device's own queue,
and not the last event of another device (MCAxes). That the file
which `lookup_config_ent` picks, by rank and the first of the best, has the best claim
in the words of the manual is `ClaimIsBest`, for `[ids]` sections of any length.

### Macros

`MacroReleases` is about folds and recursive functions over sequences of any length.
Induction over data is out of the provers' reach where the theorem of induction takes
an operator; here it is done by hand: the lengths for which a fact does not hold are a
set of numbers, and if it is not empty it has a least one (`FirstExists`), which the
fact for shorter ones refutes. What `macro_parse` guarantees is that behind each hold
there is a release that can name it (`HoldsReleased`); `macro_execute` then goes
through the entries with the key that is held as its state.

### The configuration

None of the four invariants is inductive. A binding is parsed against the layers and
tables of the moment, and its indices keep their meaning only because nothing is ever
taken away: that a layer action is valid now rests on the layer's type having been
checked once and kept since. `IInv` of `ConfigProofs` has these parts:

- `ConfigOK`: every table is within its array, and every descriptor in a keymap, a
  chord or the table of nested ones is `Sound`: each argument is what its type asks for,
  and a nested action refers only to what is before a limit, which is its own
  position for one in the table;
- `LayersHeaded`: after the first pass over the default file its layers are there
  (`Headed`), so that a key like `leftshift` on the right-hand side finds the layer
  `shift` (the assertion at `config.c:573`), and each name is the name of one layer.
  While that pass lasts (`DefaultLayers`) the layers are those of the sections so far;
- `LogIn`: of the accepted bindings the last one for a code is in force (`InForce`);
- `HeldIn`: the descriptor of a key that is down is sound, unless there was a reset;
- `OriginalOf`: what a reset restores is itself `ConfigOK`, has the same layers as the
  running configuration, and in it the bindings that the files made are in force.

Every step but a reset `Extends` the configuration: layers are `Kept` and only added
to, the tables are `Longer`, and what was sound stays sound (`Longer` and `Kept` are all
that `Sound` depends on). For `parse_descriptor` this is an induction over the
depth of nesting, and inside it one over the arguments of an action, from the
last to the first; both are done by hand (`NatInduct`), as for macros. An action that
fails has added rows to the tables, which nothing refers to: the tables are
`Longer` all the same, and the layers are the same. `EntrySet` is what `set_layer_entry`
does to the layers; `Rebinds` says that every binding but that of the named codes stays,
which is what the last binding of a key being in force comes down to.

The default file is parsed like any other; the proof goes through its sections to see
that their layers are made (`DefaultLayers`), whatever the names of the keys are.

`IInv` was checked with TLC as an invariant of the MCConfig instance before it was
proved; the steps of the induction are `InitHolds` and `IInvAlways`.

## 5. What is only model-checked, and what is not modelled

Only model-checked:

- `PendingTimerArmed` and `ChordTimerArmed`, whose hypotheses would be narrow: one
  tap-hold key, timeouts served in time, timeouts that are not 0; and the theorems
  about held-back and cached keys, and that nothing stays down, in configurations with
  chords (MCChords, MCLimits); of MCLayers, which binds a swap in a toggled layer,
  `ActivationsAccounted` and `QuiescentClean`;
- both liveness properties: fairness is out of the prover's reach.

Not modelled:

- the text of configuration files: `ini.c`, escapes, include files, the
  splitting of arguments, `strutil.c`. The models begin after it;
- a binding at run time against the live engine: `Config` relates bindings to
  the descriptors that keys which are down have cached, `Keyboard` takes its
  configuration as constant. After a reset these descriptors may refer to rows
  that are gone (`keyboard.c:1212`); `ReferencesInRange` leaves them out;
- how often a held macro repeats, and which descriptor a chord's pseudo key is
  looked up with when its slot is used again (`keyboard.c:858`): both need a
  history of the engine, whose variables are those of the code;
- the wrap of `int` milliseconds after 24.8 days (`keyboard.h:30`);
- devices: reading capabilities and ids, the scaling of absolute coordinates, LEDs that
  devices report back, a device that is unplugged while its keyboard holds back or remembers
  one of its keys (`Keyboard`: every key that goes down is released; `Daemon`, where keys are
  passed on, has the removal), and the file descriptor that is not closed when a device is
  removed (`device.c:394`). A device that is plugged in again is the same device;
- clients: the socket, the messages, slow clients, more than one layer for
  listeners;
- the virtual devices (`vkbd/`), which are the set of keys that are down;
- the sensitivity of scrolling, and an alias that is the name of a key beyond its
  binding;
- the command line, the monitor, logging, the scripts and the test harness,
  which keep no state that interacts with key processing.

What would come next: the theorems about held-back and cached keys with chords, and a
composition of `Keyboard` with a configuration that changes.

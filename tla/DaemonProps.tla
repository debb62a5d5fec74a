----------------------------- MODULE DaemonProps -----------------------------
(***************************************************************************)
(* What makes the daemon correct.                                          *)
(***************************************************************************)
EXTENDS Daemon

Reloading == return = "reloaded" \/ pc = "reloaded"

\* A device that is read for the keyboard of f, and will report the release.
WillRelease(i, f, c) == table[i].fd = "open" /\ table[i].data = f /\ ReleaseToCome(i, c)
KeptDown(f, c) == c \in kbd[f].down
                  /\ (<<f, c>> \in stranded \/ \E i \in Positions : WillRelease(i, f, c))

\* Whatever the virtual device holds down, keystate knows of, so that the
\* next reload can let go of it (clear_vkbd); and some keyboard in use still
\* has that key down, on a device that is connected, grabbed and read, and
\* on which the key is down or its release is queued (daemon.c:38-53, 240-251,
\* evloop.c:91-116).  Left out are the keys known to be stranded: those that
\* were down on a device when it went (daemon.c:520-523 only logs that), and
\* presses that came again on another device (device.c:453-455).
NoKeyLeftDown ==
    alive /\ ~Reloading =>
        vk \subseteq keystate /\ \A c \in keystate : \E f \in Live : KeptDown(f, c)

\* When the wait of poll has expired, the keyboard whose answer it comes from
\* is not still waiting for a later moment (daemon.c:427-439, evloop.c:76-88).
TimeoutNotEarly ==
    Polling /\ Expired /\ asker \in Live => kbd[asker].due <= clock

\* Whenever the loop waits, each connected device has been opened or is still
\* announced, and is grabbed through one descriptor at most (evloop.c:130-151).
\* A device with other axes than x and y may be taken for removed.
NoDeviceForgotten ==
    Polling => \A p \in plugged :
        LET mine == {i \in Positions : table[i].node = p /\ table[i].fd = "open"} IN
        /\ mine # {} \/ p \in Range(announced) \/ p \in AxisDevices
        /\ Cardinality({i \in mine : table[i].grabbed}) <= 1

\* With one keyboard and one key for its layer, no listener believes the
\* layer inactive while it is active, whenever it subscribed and whatever was
\* reloaded meanwhile (daemon.c:55-137).  With a second key for the layer the
\* release of the first is reported as the end of the layer.
ListenersSeeTheLayer ==
    \A f \in Live : NavActive(kbd[f]) => \A l \in DOMAIN listeners : listeners[l]

\* Once a reload is through with the devices, each has a keyboard that is in
\* use or none: what is read from a device never reaches a keyboard that was
\* freed, nor one of a file that is no longer loaded (daemon.c:209-251).  This
\* is about the devices: active_kbd may dangle, and a timeout or a new
\* listener does reach the freed keyboard (WakeFreed, AddListener).
NoDanglingKeyboard ==
    pc \notin {"manage", "grab"} => \A i \in Positions : table[i].data \in Live \cup {NoKbd}

\* The devices are kept as Custody describes: each goes to a file with the
\* best claim, a reload replaces every keyboard before another event is
\* handled, and an event reaches only the keyboard that owns its device, as
\* long as no device has an axis other than x and y.
OwnerOf(p) ==
    LET mine == {i \in Positions : table[i].node = p /\ table[i].fd = "open" /\ table[i].grabbed}
        data == table[Least(mine)].data IN
    IF p \notin plugged \/ mine = {} THEN "system"
    ELSE IF data \in Live THEN data ELSE "limbo"

NoAxes == AxisDevices = {}

Kept == INSTANCE Custody WITH
            loaded <- Live,
            owner <- [p \in Devices |-> OwnerOf(p)],
            keys <- [f \in Files |-> kbd[f].down]
DevicesInCustody == Kept!Spec

\* Once the world is quiet, the daemon has read and answered everything and
\* waits, or it has ended: no request, new device or removal keeps it in a
\* loop, and every grab it waits for happens.
WorkGetsDone == <>[](alive => Polling /\ ~AnyReady)

-----------------------------------------------------------------------------
(* What the documents say and the daemon does not do.                       *)

\* "The return value corresponds to a timeout before which the next invocation
\* of process_event must take place" (keyboard.c:1118): with one keyboard, the
\* loop never waits without a timeout while the keyboard still has a deadline.
TimerIsArmed ==
    Polling => \A f \in Live : kbd[f].due # 0 => loop.timeout > 0

\* "The panic sequence <backspace>+<escape>+<enter> will force keyd to
\* terminate" (keyd.scdoc): where no device has one of these keys, the daemon
\* never takes the sequence for complete.
PanicNeedsItsKeys == latch = PanicKeys => PanicKeys \subseteq AllCodes

\* "Read a device event from the given device or return NULL if none are
\* available" (device.c:378): a keyboard holds down only keys that a device it
\* may own can send.
KeysComeFromOwnDevices ==
    \A f \in Live : kbd[f].down \subseteq UNION {DeviceKeys[p] : p \in {q \in Devices : Claim(q) = f}}
===============================================================================

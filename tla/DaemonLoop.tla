------------------------------ MODULE DaemonLoop ------------------------------
(***************************************************************************)
(* TimeoutNotEarly and NoDanglingKeyboard hold for every set of devices,   *)
(* files, keys and delays, and NoDeviceForgotten does if a descriptor is   *)
(* dropped only of devices with other axes than x and y (DaemonProofs).    *)
(*                                                                         *)
(* event_handler and evloop each keep a timeout of their own, and each     *)
(* measures it from a moment of its own.  The moment at which either one   *)
(* is over is never before the keyboard that asked for it expects to be    *)
(* called: counting down moves both ends together, and measuring later     *)
(* (evloop.c:84) only moves that moment away.                              *)
(*                                                                         *)
(* reload frees the keyboards first and then gives each device another one *)
(* (daemon.c:240-251).  In between, the devices that still point at a      *)
(* freed keyboard are exactly among those manage_device is still to be     *)
(* called for, and it leaves none of them as it was.  However devices are  *)
(* plugged and unplugged while the loop scans, reads, grabs and reloads, a *)
(* connected one is open or announced, and at most one descriptor has it   *)
(* to itself.                                                              *)
(***************************************************************************)
EXTENDS DaemonProps, MacroProofs, FiniteSetTheorems

\* Neither timeout is over before the asker's deadline, if it has one.
NotBefore(timeout, since, due) == due > 0 /\ timeout > 0 => since + timeout >= due
AskerServed ==
    asker \in Files => /\ NotBefore(loop.timeout, loop.time, kbd[asker].due)
                       /\ NotBefore(static.timeout, static.last, kbd[asker].due)
                       /\ static.last <= loop.time

\* The uninitialised timestamps come before any keyboard is asked.
Started == return # "scan" /\ (pc = "scan" => asker = NoKbd)

\* Until a keyboard of the new configuration is used, none has a deadline:
\* whatever a freed keyboard answers belongs to none of them.
NoneWaits == active_kbd = Freed => \A f \in Files : kbd[f].due = 0

TimeTypes ==
    /\ clock \in Nat /\ loop \in [timeout : Int, time : Int] /\ loop.time <= clock
    /\ static \in [timeout : Int, last : Int]
    /\ DOMAIN kbd = Files /\ \A f \in Files : kbd[f].due \in Int
    /\ dir \subseteq Files /\ Range(configs) \subseteq Files

TimeInv == TimeTypes /\ AskerServed /\ NoneWaits

\* All that TimeInv speaks of, except the moment of the loop's timeout.
timingVars == <<clock, dir, configs, kbd, active_kbd, asker, static>>

-----------------------------------------------------------------------------
(* The ways in which a step treats the timeouts.                            *)

\* It leaves everything alone.
LEMMA Untouched == TimeInv /\ UNCHANGED <<timingVars, loop>> => TimeInv'
BY DEF TimeInv, TimeTypes, AskerServed, NotBefore, NoneWaits, timingVars

\* It counts both down: the static timeout by the time since the last event.
LEMMA CountedDown ==
    ASSUME TimeInv, Unasked, UNCHANGED <<clock, dir, configs, kbd, asker>>,
           active_kbd' = active_kbd \/ active_kbd' \in Files
    PROVE  TimeInv'
<1>1. /\ static' = [timeout |-> static'.timeout, last |-> loop.time]
      /\ static'.timeout \in Int
      /\ loop' = [timeout |-> static'.timeout, time |-> loop.time]
  BY DEF TimeInv, TimeTypes, Unasked, Elapsed, AtLeast0
<1>2. static'.timeout > 0 => loop.time + static'.timeout = static.last + static.timeout
  BY DEF TimeInv, TimeTypes, Unasked, Elapsed, AtLeast0
<1>3. TimeTypes'
  BY <1>1 DEF TimeInv, TimeTypes
<1>4. AskerServed'
  <2> SUFFICES ASSUME asker \in Files, kbd[asker].due > 0, static'.timeout > 0
               PROVE  loop.time + static'.timeout >= kbd[asker].due
    BY <1>1 DEF AskerServed, NotBefore, TimeInv, TimeTypes
  <2> QED BY <1>2, <1>1 DEF TimeInv, TimeTypes, AskerServed, NotBefore
<1>5. NoneWaits'
  BY DaemonAssumption DEF TimeInv, NoneWaits, Freed
<1> QED BY <1>3, <1>4, <1>5 DEF TimeInv

\* It takes the answer of keyboard f, which is now the one that was asked.
LEMMA AnswerTaken ==
    ASSUME TimeInv, NEW f \in Files, NEW k, k.due \in Int, Answered(f, k),
           active_kbd' \in Files, UNCHANGED <<clock, dir, configs>>
    PROVE  TimeInv'
<1>1. kbd'[f] = k /\ DOMAIN kbd' = Files /\ \A g \in Files \ {f} : kbd'[g] = kbd[g]
  BY DEF TimeInv, TimeTypes, Answered
<1>2. TimeTypes'
  BY <1>1 DEF TimeInv, TimeTypes, Answered, Answer
<1>3. AskerServed'
  BY <1>1 DEF TimeInv, TimeTypes, AskerServed, NotBefore, Answered, Answer
<1>4. NoneWaits'
  BY DaemonAssumption DEF NoneWaits, Freed
<1> QED BY <1>2, <1>3, <1>4 DEF TimeInv

LEMMA DueIsInt ==
    ASSUME TimeInv, NEW f \in Files, NEW e, NEW t \in Int
    PROVE  Typed(kbd[f], e, t).due \in Int /\ Called(kbd[f], t).due \in Int
BY DaemonAssumption DEF TimeInv, TimeTypes, Typed, Called, Remaining

LEMMA LiveFile == TimeInv => Live \subseteq Files
BY DEF TimeInv, TimeTypes, Live

LEMMA LoopTime == TimeInv => loop.time \in Int /\ clock \in Int
BY DEF TimeInv, TimeTypes

-----------------------------------------------------------------------------
(* The steps.                                                               *)

LEMMA WorldKeepsTime == TimeInv /\ World => TimeInv'
<1> SUFFICES ASSUME TimeInv, World PROVE TimeInv'
  OBVIOUS
<1> USE DEF Spend, daemonVars, controlVars, timeVars, engineVars
<1>1. ASSUME NEW p \in Devices, Plug(p) \/ Unplug(p) PROVE TimeInv'
  BY <1>1, Untouched DEF Plug, Unplug, timingVars
<1>2. ASSUME NEW p \in Devices, NEW type, Point(p, type) PROVE TimeInv'
  BY <1>2, Untouched DEF Point, timingVars
<1>3. ASSUME NEW p \in Devices, NEW c \in DeviceKeys[p], KeyDown(p, c) \/ KeyUp(p, c)
      PROVE  TimeInv'
  BY <1>3, Untouched DEF KeyDown, KeyUp, timingVars
<1>4. ASSUME NEW on \in Leds, Led(on) PROVE TimeInv'
  BY <1>4, Untouched DEF Led, timingVars
<1>5. ASSUME NEW f \in Files, Edit(f) PROVE TimeInv'
  BY <1>5 DEF Edit, TimeInv, TimeTypes, AskerServed, NotBefore, NoneWaits
<1>6. ASSUME NEW r \in Requests, Ask(r) PROVE TimeInv'
  BY <1>6, Untouched DEF Ask, timingVars
<1>7. CASE Tick
  BY <1>7 DEF Tick, TimeInv, TimeTypes, AskerServed, NotBefore, NoneWaits
<1> QED BY <1>1, <1>2, <1>3, <1>4, <1>5, <1>6, <1>7 DEF World

\* The timestamps of the first events are taken for times, whatever they are.
LEMMA ScanKeepsTime == TimeInv /\ Started /\ Scan => TimeInv'
<1> SUFFICES ASSUME TimeInv, Started, Scan PROVE TimeInv'
  OBVIOUS
<1>1. PICK ts \in GarbageTime : static' = Elapsed(ts)
  BY DEF Scan
<1>2. /\ UNCHANGED <<clock, loop, kbd, dir, configs, active_kbd>>
      /\ asker' \notin Files
  BY DaemonAssumption DEF Scan, Started, worldVars, engineVars, NoKbd
<1>3. static' \in [timeout : Int, last : Int]
  BY <1>1, DaemonAssumption DEF Elapsed, AtLeast0, TimeInv, TimeTypes
<1> QED BY <1>2, <1>3 DEF TimeInv, TimeTypes, AskerServed, NoneWaits

LEMMA ManageKeepsTime == TimeInv /\ Manage => TimeInv'
BY Untouched DEF Manage, Ignore, Keep, AwaitNeutral, Grab, AllManaged, ManageStep,
                 worldVars, timeVars, engineVars, timingVars

\* poll returned: for events it counts the loop's timeout down; an expired
\* timeout is answered by the keyboard that was used last, whoever asked.
LEMMA WakeKeepsTime == TimeInv /\ Wake => TimeInv'
<1> SUFFICES ASSUME TimeInv, Wake PROVE TimeInv'
  OBVIOUS
<1>1. UNCHANGED <<clock, dir, configs>>
  BY DEF Wake, WakeForEvents, WakeUnclaimed, WakeForTimeout, WakeFreed, WakeStep, worldVars
<1>2. CASE WakeForEvents
  <2> DEFINE n == AtLeast0(loop.timeout - Waited)
  <2>1. /\ UNCHANGED <<static, kbd, active_kbd, asker>>
        /\ loop' = [timeout |-> n, time |-> clock]
    BY <1>2 DEF WakeForEvents, TimeInv, TimeTypes
  <2>2. /\ n \in Int
        /\ n > 0 => loop.timeout > 0 /\ clock + n = loop.time + loop.timeout
    BY DEF Waited, AtLeast0, TimeInv, TimeTypes
  <2> HIDE DEF n
  <2> QED BY <1>1, <2>1, <2>2 DEF TimeInv, TimeTypes, AskerServed, NotBefore, NoneWaits
<1>3. CASE WakeUnclaimed
  <2> DEFINE n == AtLeast0(static.timeout - (clock - static.last))
  <2>1. /\ UNCHANGED <<kbd, active_kbd, asker>>
        /\ loop' = [timeout |-> 0, time |-> clock]
        /\ static' = [timeout |-> n, last |-> clock]
    BY <1>3 DEF WakeUnclaimed, Elapsed, TimeInv, TimeTypes
  <2>2. /\ n \in Int
        /\ n > 0 => clock + n = static.last + static.timeout
        /\ n > 0 /\ static.last <= clock => static.timeout > 0
    BY DEF AtLeast0, TimeInv, TimeTypes
  <2> HIDE DEF n
  <2>3. AskerServed'
    BY <1>1, <2>1, <2>2 DEF TimeInv, TimeTypes, AskerServed, NotBefore
  <2> QED BY <1>1, <2>1, <2>2, <2>3 DEF TimeInv, TimeTypes, NoneWaits
<1>4. CASE WakeForTimeout
  <2>1. active_kbd \in Files /\ active_kbd' = active_kbd
    BY <1>4, LiveFile DEF WakeForTimeout
  <2> DEFINE k == Called(kbd[active_kbd], clock)
  <2>2. k.due \in Int
    BY <2>1, DueIsInt, LoopTime
  <2>3. /\ kbd' = [kbd EXCEPT ![active_kbd] = k] /\ asker' = active_kbd
        /\ static' = [timeout |-> Answer(k, clock), last |-> clock]
        /\ loop' = [timeout |-> Answer(k, clock), time |-> clock]
    BY <1>4 DEF WakeForTimeout, TimeInv, TimeTypes
  <2>4. DOMAIN kbd' = Files /\ kbd'[active_kbd] = k
        /\ \A g \in Files \ {active_kbd} : kbd'[g] = kbd[g]
    BY <2>1, <2>3 DEF TimeInv, TimeTypes
  <2> HIDE DEF k
  <2> QED BY <1>1, <2>1, <2>2, <2>3, <2>4, DaemonAssumption
          DEF TimeInv, TimeTypes, AskerServed, NotBefore, NoneWaits, Answer, Freed
<1>5. CASE WakeFreed
  <2>1. PICK n \in {0, Delay} : /\ static' = [timeout |-> n, last |-> clock]
                                /\ loop' = [loop EXCEPT !.timeout = n, !.time = clock]
    BY <1>5 DEF WakeFreed
  <2>2. UNCHANGED <<kbd, active_kbd, asker>> /\ \A f \in Files : kbd[f].due = 0
    BY <1>5 DEF WakeFreed, TimeInv, NoneWaits
  <2>3. n \in Int
    BY DaemonAssumption
  <2>4. loop' = [timeout |-> n, time |-> clock]
    BY <2>1 DEF TimeInv, TimeTypes
  <2>5. TimeTypes'
    BY <1>1, <2>1, <2>2, <2>3, <2>4 DEF TimeInv, TimeTypes
  <2>6. AskerServed' /\ NoneWaits'
    BY <1>1, <2>1, <2>2, <2>3, <2>4 DEF TimeInv, TimeTypes, AskerServed, NotBefore, NoneWaits
  <2> QED BY <2>5, <2>6 DEF TimeInv
<1> QED BY <1>2, <1>3, <1>4, <1>5 DEF Wake

LEMMA ReadKeepsTime == TimeInv /\ Read => TimeInv'
<1> SUFFICES ASSUME TimeInv, Read PROVE TimeInv'
  OBVIOUS
<1> USE DEF ReadStep, worldVars, timeVars, engineVars
<1>1. ASSUME NEW i \in Positions, ReadRemoved(i) PROVE TimeInv'
  BY <1>1, CountedDown DEF ReadRemoved
<1>9. ASSUME NEW i \in Positions, ReadDropped(i) PROVE TimeInv'
  BY <1>9, CountedDown DEF ReadDropped
<1>2. ASSUME NEW i \in Positions, ReadNothing(i) PROVE TimeInv'
  BY <1>2, Untouched DEF ReadNothing, timingVars
<1>3. ASSUME NEW i \in Positions, Panic(i) PROVE TimeInv'
  BY <1>3, Untouched DEF Panic, Taken, timingVars
<1>4. ASSUME NEW i \in Positions, ReadKey(i) PROVE TimeInv'
  <2> DEFINE f == table[i].data
  <2>1. PICK e \in Candidates(i) :
            Taken(i, e) /\ f \in Live /\ active_kbd' = f /\ EngineKey(f, e)
    BY <1>4 DEF ReadKey
  <2>2. f \in Files
    BY <2>1, LiveFile
  <2>3. Answered(f, Typed(kbd[f], e, loop.time))
    BY <2>1 DEF EngineKey
  <2>4. Typed(kbd[f], e, loop.time).due \in Int
    BY <2>2, DueIsInt, LoopTime
  <2>5. active_kbd' \in Files /\ UNCHANGED <<clock, dir, configs>>
    BY <2>1, <2>2 DEF Taken
  <2> HIDE DEF f
  <2> QED BY <2>2, <2>3, <2>4, <2>5, AnswerTaken
<1>5. ASSUME NEW i \in Positions, ReadScroll(i) PROVE TimeInv'
  <2> DEFINE f == table[i].data
  <2>1. PICK e \in Candidates(i) :
            /\ Taken(i, e) /\ f \in Live /\ active_kbd' = f
            /\ Answered(f, Called(kbd[f], loop.time))
    BY <1>5 DEF ReadScroll
  <2>2. f \in Files
    BY <2>1, LiveFile
  <2>3. Called(kbd[f], loop.time).due \in Int
    BY <2>2, DueIsInt, LoopTime
  <2>4. active_kbd' \in Files /\ UNCHANGED <<clock, dir, configs>>
    BY <2>1, <2>2 DEF Taken
  <2> HIDE DEF f
  <2> QED BY <2>1, <2>2, <2>3, <2>4, AnswerTaken
<1>6. ASSUME NEW i \in Positions, ReadMove(i) PROVE TimeInv'
  BY <1>6, CountedDown, LiveFile DEF ReadMove, Taken
<1>7. ASSUME NEW i \in Positions, ReadUnmanaged(i) PROVE TimeInv'
  BY <1>7, CountedDown DEF ReadUnmanaged, Taken
<1>8. CASE AllRead
  BY <1>8, Untouched DEF AllRead, timingVars
<1> QED BY <1>1, <1>2, <1>3, <1>4, <1>5, <1>6, <1>7, <1>8, <1>9 DEF Read

\* A reload leaves no keyboard that waits.
LEMMA ServeKeepsTime == TimeInv /\ Serve => TimeInv'
<1> SUFFICES ASSUME TimeInv, Serve PROVE TimeInv'
  OBVIOUS
<1>1. CASE Reload
  <2>1. Unasked /\ UNCHANGED <<clock, dir, asker>>
    BY <1>1 DEF Reload, Accepting
  <2>2. DOMAIN kbd' = Files /\ \A f \in Files : kbd'[f].due = 0
    BY <1>1 DEF Reload, NewKeyboard
  <2>3. Range(configs') \subseteq Files
    BY <1>1 DEF Reload, Orders, TimeInv, TimeTypes
  <2>4. /\ static' \in [timeout : Int, last : Int] /\ static'.last = loop.time
        /\ loop' \in [timeout : Int, time : Int] /\ loop'.time = loop.time
    BY <2>1 DEF Unasked, Elapsed, AtLeast0, TimeInv, TimeTypes
  <2> QED BY <2>1, <2>2, <2>3, <2>4 DEF TimeInv, TimeTypes, AskerServed, NotBefore, NoneWaits
<1>2. CASE Reloaded
  BY <1>2, Untouched DEF Reloaded, worldVars, timeVars, engineVars, timingVars
<1>3. CASE AddListener \/ Do \/ Input
  BY <1>3, CountedDown DEF AddListener, Do, Input, Answering, Accepting
<1> QED BY <1>1, <1>2, <1>3 DEF Serve

LEMMA WatchKeepsTime == TimeInv /\ Watch => TimeInv'
<1> SUFFICES ASSUME TimeInv, Watch PROVE TimeInv'
  OBVIOUS
<1> USE DEF WatchStep, engineVars
<1>1. CASE Opened
  BY <1>1, CountedDown DEF Opened
<1>2. CASE TableFull \/ NotOpened \/ AllOpened
  BY <1>2, Untouched DEF TableFull, NotOpened, AllOpened, timeVars, timingVars
<1> QED BY <1>1, <1>2 DEF Watch

\* The loop's timeout is measured from the end of the turn.
LEMMA TurnKeepsTime == TimeInv /\ Turn => TimeInv'
BY DEF Turn, worldVars, engineVars, TimeInv, TimeTypes, AskerServed, NotBefore, NoneWaits

-----------------------------------------------------------------------------
(* No step of the loop goes back to the scan for devices.                   *)

LEMMA StartedStep == Started /\ [Next]_vars => Started'
<1> SUFFICES ASSUME Started, [Next]_vars PROVE Started'
  OBVIOUS
<1>1. CASE World
  <2>1. UNCHANGED <<pc, return, asker>>
    BY <1>1 DEF World, Plug, Unplug, Point, KeyDown, KeyUp, Led, Edit, Ask, Tick,
                daemonVars, controlVars, engineVars
  <2> QED BY <2>1 DEF Started
<1>2. CASE Scan
  BY <1>2 DEF Scan, Started
<1>3. CASE Manage
  BY <1>3 DEF Manage, Ignore, Keep, AwaitNeutral, Grab, AllManaged, Managing, Started
<1>4. CASE Wake
  BY <1>4 DEF Wake, WakeForEvents, WakeUnclaimed, WakeForTimeout, WakeFreed, WakeStep, Started
<1>5. CASE Read
  <2>1. /\ UNCHANGED return
        /\ pc = "read" /\ pc' \in {"read", "accept", "watch", "turn"}
    BY <1>5 DEF Read, ReadRemoved, ReadDropped, ReadNothing, Panic, ReadKey, ReadScroll,
                ReadMove, ReadUnmanaged, Taken, Returned, Reading, ReadStep, AllRead, AfterRequests
  <2> QED BY <2>1 DEF Started
<1>6. CASE Serve
  BY <1>6 DEF Serve, Reload, Reloaded, AddListener, Do, Input, Answering, Accepting,
              AfterRequests, Started
<1>7. CASE Watch
  BY <1>7 DEF Watch, Opened, TableFull, NotOpened, AllOpened, Started
<1>8. CASE Turn
  BY <1>8 DEF Turn, Started
<1>9. CASE UNCHANGED vars \/ TooManyFound
  BY <1>9 DEF vars, TooManyFound, controlVars, engineVars, Started
<1> QED BY <1>1, <1>2, <1>3, <1>4, <1>5, <1>6, <1>7, <1>8, <1>9 DEF Next, Daemon

LEMMA InitTimeInv == Init => TimeInv /\ Started
<1> SUFFICES ASSUME Init PROVE TimeInv /\ Started
  OBVIOUS
<1>1. Range(configs) \subseteq Files /\ dir \subseteq Files
  BY DaemonAssumption DEF Init, Orders
<1>2. TimeTypes
  BY <1>1 DEF Init, TimeTypes, NewKeyboard
<1>3. asker \notin Files /\ active_kbd # Freed
  BY DaemonAssumption DEF Init, NoKbd, Freed
<1> QED BY <1>2, <1>3 DEF TimeInv, AskerServed, NoneWaits, Started, Init

LEMMA TimeInvStep == TimeInv /\ Started /\ [Next]_vars => TimeInv'
<1>1. TimeInv /\ (UNCHANGED vars \/ TooManyFound) => TimeInv'
  BY Untouched DEF vars, TooManyFound, worldVars, timeVars, engineVars, timingVars
<1> QED BY <1>1, WorldKeepsTime, ScanKeepsTime, ManageKeepsTime, WakeKeepsTime,
           ReadKeepsTime, ServeKeepsTime, WatchKeepsTime, TurnKeepsTime DEF Next, Daemon

\* Both timeouts are at most as early as the deadline of the keyboard whose
\* answer they come from, whatever arrives in between (daemon.c:427-439,
\* evloop.c:76-88).
THEOREM TimeInvariant == Spec => []TimeInv
<1>1. TimeInv /\ Started /\ [Next]_vars => (TimeInv /\ Started)'
  BY TimeInvStep, StartedStep
<1> QED BY <1>1, InitTimeInv, PTL DEF Spec

\* No keyboard is called for its timeout before its deadline (daemon.c:427-439,
\* evloop.c:76-88): poll's wait never ends too early.
THEOREM NeverEarly == Spec => []TimeoutNotEarly
<1>1. TimeInv => TimeoutNotEarly
  BY LiveFile DEF TimeInv, TimeTypes, AskerServed, NotBefore, TimeoutNotEarly, Expired, Waited
<1> QED BY <1>1, TimeInvariant, PTL

-----------------------------------------------------------------------------
(* Devices and keyboards.                                                   *)

Fields == {"node", "fd", "grabbed", "data", "queue"}
IsTable(t) == /\ t \in Seq(Range(t))
              /\ \A i \in DOMAIN t : DOMAIN t[i] = Fields

\* A keyboard that is in use, or none.
InUse(k) == k \in Live \cup {NoKbd}

\* A device has a keyboard that is in use, or its turn is still to come; keyd's
\* own device never has one.
Accounted(t, m) ==
    \A i \in DOMAIN t : /\ t[i].node = VirtualDevice => t[i].data = NoKbd
                        /\ InUse(t[i].data) \/ i \in Range(m)

\* The device being grabbed has a claim on it.
Grabbing ==
    pc = "grab" => /\ managing # <<>> /\ table[Managed].node # VirtualDevice
                   /\ Claim(table[Managed].node) \in Live

Finite == /\ dir \subseteq Files /\ plugged \subseteq Devices
          /\ DOMAIN configs \subseteq Nat

Control == /\ managing \in Seq(Positions)
           /\ managing # <<>> => pc \in {"manage", "grab"}
           /\ return \notin {"manage", "grab"}

PointerInv == Finite /\ Control /\ IsTable(table) /\ Accounted(table, managing) /\ Grabbing

-----------------------------------------------------------------------------
(* Finite sets, sequences and claims.                                       *)

\* An order of a finite set is a sequence of its elements.
LEMMA OrdersAreSequences ==
    ASSUME NEW S, IsFiniteSet(S), NEW o \in Orders(S)
    PROVE  /\ Cardinality(S) \in Nat /\ DOMAIN o = 1 .. Cardinality(S)
           /\ \A i \in DOMAIN o : o[i] \in S
BY FS_CardinalityType DEF Orders

\* A device goes to a file that is loaded, or to none.
LEMMA ClaimInUse == ASSUME Finite, NEW p PROVE InUse(Claim(p))
<1> DEFINE ids == [i \in DOMAIN configs |-> ParsedIds[configs[i]]]
           rank == [i \in DOMAIN ids |-> config_check_match(ids[i], DeviceId[p], DeviceFlags[p])]
           best == {i \in DOMAIN ids : /\ rank[i] > 0 /\ \A j \in DOMAIN ids : rank[j] <= rank[i]}
           match == CHOOSE i \in best : \A j \in best : i <= j
           found == lookup_config_ent(ids, DeviceId[p], DeviceFlags[p])
<1>1. found = IF best = {} \/ (rank[match] = 1 /\ DeviceFlags[p] = {"mouse"}) THEN 0 ELSE match
  BY DEF lookup_config_ent
<1>2. best \subseteq DOMAIN configs /\ best \in SUBSET Nat
  BY DEF Finite
<1> HIDE DEF best
<1>3. best # {} => match \in best
  BY <1>2, FirstExists
<1>4. found = 0 \/ found \in DOMAIN configs
  BY <1>1, <1>2, <1>3
<1>5. Claim(p) = IF found = 0 THEN NoKbd ELSE configs[found]
  BY DEF Claim
<1> HIDE DEF found
<1> QED BY <1>4, <1>5 DEF InUse, Live, Range

\* What is in a sequence is its head or in its tail.
LEMMA HeadAndRest ==
    ASSUME NEW S, NEW s \in Seq(S), s # <<>>
    PROVE  /\ Tail(s) \in Seq(S) /\ Head(s) \in S
           /\ \A x \in Range(s) : x = Head(s) \/ x \in Range(Tail(s))
<1>1. /\ Tail(s) \in Seq(S) /\ Len(Tail(s)) = Len(s) - 1 /\ Head(s) = s[1] /\ Head(s) \in S
      /\ \A i \in 1 .. Len(Tail(s)) : Tail(s)[i] = s[i + 1]
  BY HeadTailProperties
<1>2. ASSUME NEW i \in 1 .. Len(s), i # 1 PROVE s[i] \in Range(Tail(s))
  <2>1. i - 1 \in 1 .. Len(Tail(s)) /\ Tail(s)[i - 1] = s[i]
    BY <1>1, <1>2
  <2>2. i - 1 \in DOMAIN Tail(s)
    BY <1>1, <2>1, LenProperties
  <2> QED BY <2>1, <2>2 DEF Range
<1>3. DOMAIN s = 1 .. Len(s)
  BY LenProperties
<1> QED BY <1>1, <1>2, <1>3 DEF Range

\* Any function on 1 .. n whose values have the fields of an entry.
LEMMA FunctionIsTable ==
    ASSUME NEW n \in Nat, NEW t, t = [i \in 1 .. n |-> t[i]],
           \A i \in 1 .. n : DOMAIN t[i] = Fields
    PROVE  IsTable(t)
<1>1. DOMAIN t = 1 .. n
  OBVIOUS
<1>2. t \in [1 .. n -> Range(t)]
  BY <1>1 DEF Range
<1> QED BY <1>1, <1>2 DEF IsTable

\* A table is such a function.
LEMMA TableIsFunction ==
    ASSUME NEW t, IsTable(t)
    PROVE  /\ Len(t) \in Nat /\ DOMAIN t = 1 .. Len(t) /\ t = [i \in 1 .. Len(t) |-> t[i]]
           /\ \A i \in DOMAIN t : DOMAIN t[i] = Fields
BY DEF IsTable

-----------------------------------------------------------------------------
(* The ways in which a step treats the devices.                             *)

\* It leaves every device its keyboard.
LEMMA SameKeyboards ==
    ASSUME PointerInv, UNCHANGED <<managing, return, configs>>,
           dir' \subseteq Files, plugged' \subseteq Devices,
           IsTable(table'), DOMAIN table' = DOMAIN table,
           \A i \in DOMAIN table : table'[i].node = table[i].node /\ table'[i].data = table[i].data,
           pc' = pc \/ (pc' \notin {"manage", "grab"} /\ managing = <<>>)
    PROVE  PointerInv'
<1>1. Finite' /\ Control'
  BY DEF PointerInv, Finite, Control, Positions
<1>2. Accounted(table, managing)'
  BY DEF PointerInv, Accounted, InUse, Live
<1>3. managing # <<>> => Managed \in DOMAIN table
  BY DEF PointerInv, Control, Managed, Positions
<1>4. Grabbing'
  BY <1>3 DEF PointerInv, Grabbing, Managed, Claim, Live
<1> QED BY <1>1, <1>2, <1>4 DEF PointerInv

\* It leaves the table alone.
LEMMA SameTable ==
    ASSUME PointerInv, UNCHANGED <<managing, return, configs, table>>,
           dir' \subseteq Files, plugged' \subseteq Devices,
           pc' = pc \/ (pc' \notin {"manage", "grab"} /\ managing = <<>>)
    PROVE  PointerInv'
<1>1. Finite' /\ Control' /\ IsTable(table)'
  BY DEF PointerInv, Finite, Control, Positions
<1>2. Accounted(table, managing)'
  BY DEF PointerInv, Accounted, InUse, Live
<1>3. Grabbing'
  BY DEF PointerInv, Grabbing, Managed, Claim, Live
<1> QED BY <1>1, <1>2, <1>3 DEF PointerInv

\* manage_device has given the first of the devices its keyboard, or none.
LEMMA OneManaged ==
    ASSUME PointerInv, managing # <<>>, managing' = Tail(managing),
           UNCHANGED <<return, configs, dir, plugged>>, pc' = "manage",
           IsTable(table'), DOMAIN table' = DOMAIN table,
           \A i \in DOMAIN table : table'[i].node = table[i].node,
           \A i \in DOMAIN table \ {Managed} : table'[i].data = table[i].data,
           InUse(table'[Managed].data),
           table[Managed].node = VirtualDevice => table'[Managed].data = NoKbd
    PROVE  PointerInv'
<1>1. managing \in Seq(Positions)
  BY DEF PointerInv, Control
<1>2. /\ managing' \in Seq(Positions)
      /\ \A i \in Range(managing) : i = Managed \/ i \in Range(managing')
  BY <1>1, HeadAndRest DEF Managed
<1>3. Finite' /\ Control' /\ Grabbing'
  BY <1>2 DEF PointerInv, Finite, Control, Positions, Grabbing
<1>4. Accounted(table, managing)'
  BY <1>2 DEF PointerInv, Accounted, InUse, Live
<1> QED BY <1>3, <1>4 DEF PointerInv

-----------------------------------------------------------------------------
(* The steps.                                                               *)

\* Events are queued by device; a device that goes away keeps its entry.
LEMMA WorldKeepsPointers == PointerInv /\ World => PointerInv'
<1> SUFFICES ASSUME PointerInv, World PROVE PointerInv'
  OBVIOUS
<1> USE DEF Spend, daemonVars, controlVars
<1>1. dir \subseteq Files /\ plugged \subseteq Devices /\ IsTable(table)
  BY DEF PointerInv, Finite
<1>2. Len(table) \in Nat /\ DOMAIN table = 1 .. Len(table) /\ \A i \in DOMAIN table : DOMAIN table[i] = Fields
  BY <1>1, TableIsFunction
<1>3. ASSUME NEW p, NEW e, Deliver(p, e), UNCHANGED <<controlVars, configs, dir, plugged>>
      PROVE  PointerInv'
  <2>1. /\ DOMAIN table' = DOMAIN table /\ table' = [i \in 1 .. Len(table) |-> table'[i]]
        /\ \A i \in DOMAIN table : /\ table'[i].node = table[i].node
                                   /\ table'[i].data = table[i].data /\ DOMAIN table'[i] = Fields
    BY <1>2, <1>3 DEF Deliver, Positions, Fields
  <2>2. IsTable(table')
    BY <2>1, <1>2, FunctionIsTable
  <2> QED BY <1>1, <1>3, <2>1, <2>2, SameKeyboards
<1>4. ASSUME NEW p \in Devices, Plug(p) PROVE PointerInv'
  BY <1>1, <1>4, SameTable DEF Plug
<1>5. ASSUME NEW p \in Devices, Unplug(p) PROVE PointerInv'
  <2>1. /\ DOMAIN table' = DOMAIN table /\ table' = [i \in 1 .. Len(table) |-> table'[i]]
        /\ \A i \in DOMAIN table : /\ table'[i].node = table[i].node
                                   /\ table'[i].data = table[i].data /\ DOMAIN table'[i] = Fields
    BY <1>2, <1>5 DEF Unplug, Positions, Fields
  <2>2. IsTable(table')
    BY <2>1, <1>2, FunctionIsTable
  <2>3. UNCHANGED <<managing, return, configs, dir, pc>> /\ plugged' \subseteq Devices
    BY <1>1, <1>5 DEF Unplug
  <2> QED BY <1>1, <2>1, <2>2, <2>3, SameKeyboards
<1>6. ASSUME NEW p \in Devices, NEW c \in DeviceKeys[p], KeyDown(p, c) \/ KeyUp(p, c)
      PROVE  PointerInv'
  BY <1>3, <1>6 DEF KeyDown, KeyUp
<1>7. ASSUME NEW p \in Devices, NEW type, Point(p, type) PROVE PointerInv'
  BY <1>3, <1>7 DEF Point
<1>8. ASSUME NEW on \in Leds, Led(on) PROVE PointerInv'
  BY <1>3, <1>8 DEF Led
<1>9. ASSUME NEW f \in Files, Edit(f) PROVE PointerInv'
  BY <1>1, <1>9, SameTable DEF Edit
<1>10. ASSUME NEW r \in Requests, Ask(r) PROVE PointerInv'
  BY <1>1, <1>10, SameTable DEF Ask
<1>11. CASE Tick
  BY <1>1, <1>11, SameTable DEF Tick
<1> QED BY <1>4, <1>5, <1>6, <1>7, <1>8, <1>9, <1>10, <1>11 DEF World

\* Every device found gets an entry without a keyboard.
LEMMA ScanKeepsPointers == PointerInv /\ Scan => PointerInv'
<1> SUFFICES ASSUME PointerInv, Scan PROVE PointerInv'
  OBVIOUS
<1>1. PICK order \in Orders(plugged) : /\ table' = [i \in DOMAIN order |-> NewEntry(order[i])]
                                       /\ managing' = [i \in DOMAIN order |-> i]
  BY DEF Scan
<1>2. IsFiniteSet(plugged)
  BY DaemonAssumption, FS_Subset DEF PointerInv, Finite
<1>3. Cardinality(plugged) \in Nat /\ DOMAIN order = 1 .. Cardinality(plugged)
  BY <1>2, OrdersAreSequences
<1>4. /\ table' = [i \in 1 .. Cardinality(plugged) |-> table'[i]]
      /\ \A i \in DOMAIN table' : DOMAIN table'[i] = Fields /\ table'[i].data = NoKbd
  BY <1>1, <1>3 DEF NewEntry, Fields
<1>5. IsTable(table)'
  BY <1>3, <1>4, FunctionIsTable
<1>6. Finite' /\ Control' /\ Grabbing'
  BY <1>1, <1>3, <1>4 DEF Scan, PointerInv, Finite, Control, Positions, Grabbing, worldVars
<1>7. Accounted(table, managing)'
  BY <1>4 DEF Accounted, InUse
<1> QED BY <1>5, <1>6, <1>7 DEF PointerInv

\* Each device that is managed gets a keyboard in use, or none; the keyboard
\* it is grabbed for is still in use when the grab succeeds.
LEMMA ManageKeepsPointers == PointerInv /\ Manage => PointerInv'
<1> SUFFICES ASSUME PointerInv, Manage PROVE PointerInv'
  OBVIOUS
<1> DEFINE m == Managed
<1>1. /\ Finite /\ IsTable(table) /\ Len(table) \in Nat /\ DOMAIN table = 1 .. Len(table)
      /\ table = [i \in 1 .. Len(table) |-> table[i]]
      /\ \A i \in DOMAIN table : DOMAIN table[i] = Fields
  BY TableIsFunction DEF PointerInv
<1>2. managing # <<>> => m \in DOMAIN table
  BY HeadAndRest DEF PointerInv, Control, Positions, Managed
<1>3. UNCHANGED <<dir, plugged, configs>>
  BY DEF Manage, Ignore, Keep, AwaitNeutral, Grab, AllManaged, ManageStep, worldVars
<1>4. InUse(NoKbd) /\ \A p : InUse(Claim(p))
  BY <1>1, ClaimInUse DEF InUse
<1>5. ASSUME managing # <<>>, NEW e, table' = [table EXCEPT ![m] = e], DOMAIN e = Fields,
             e.node = table[m].node, InUse(e.data),
             table[m].node = VirtualDevice => e.data = NoKbd,
             managing' = Tail(managing), UNCHANGED return, pc' = "manage"
      PROVE  PointerInv'
  <2>1. /\ DOMAIN table' = DOMAIN table /\ table'[m] = e
        /\ \A i \in DOMAIN table \ {m} : table'[i] = table[i]
        /\ table' = [i \in 1 .. Len(table) |-> table'[i]]
    BY <1>1, <1>2, <1>5
  <2>2. IsTable(table')
    BY <1>1, <1>5, <2>1, FunctionIsTable
  <2> QED BY <1>3, <1>5, <2>1, <2>2, OneManaged
<1>6. CASE Ignore
  <2>1. CASE IsVirtual(m)
    <3>1. managing # <<>> /\ managing' = Tail(managing) /\ UNCHANGED <<table, return>> /\ pc' = "manage"
      BY <1>6, <2>1 DEF Ignore, Managing
    <3>2. table[m].data = NoKbd
      BY <1>2, <2>1, <3>1 DEF PointerInv, Accounted, IsVirtual
    <3> QED BY <1>1, <1>3, <1>4, <3>1, <3>2, OneManaged
  <2>2. CASE ~IsVirtual(m)
    <3> DEFINE e == [table[m] EXCEPT !.data = NoKbd, !.grabbed = @ /\ table[m].fd # "open"]
    <3>1. managing # <<>> /\ managing' = Tail(managing) /\ UNCHANGED return /\ pc' = "manage"
      BY <1>6 DEF Ignore, Managing
    <3>2. table' = [table EXCEPT ![m] = e]
      BY <1>1, <1>2, <1>6, <2>2, <3>1 DEF Ignore
    <3>3. DOMAIN e = Fields /\ e.node = table[m].node /\ e.data = NoKbd
      BY <1>1, <1>2, <3>1 DEF Fields
    <3> HIDE DEF e
    <3> QED BY <1>4, <1>5, <3>1, <3>2, <3>3
  <2> QED BY <2>1, <2>2
<1>7. CASE Keep
  <2> DEFINE e == [table[m] EXCEPT !.data = Claim(table[m].node)]
  <2>1. managing # <<>> /\ managing' = Tail(managing) /\ UNCHANGED return /\ pc' = "manage"
        /\ ~IsVirtual(m)
    BY <1>7 DEF Keep, Managing
  <2>2. table' = [table EXCEPT ![m] = e]
    BY <1>1, <1>2, <1>7, <2>1 DEF Keep
  <2>3. DOMAIN e = Fields /\ e.node = table[m].node /\ e.data = Claim(table[m].node)
    BY <1>1, <1>2, <2>1 DEF Fields
  <2> HIDE DEF e
  <2> QED BY <1>4, <1>5, <2>1, <2>2, <2>3 DEF IsVirtual
<1>8. CASE AwaitNeutral
  <2>1. managing # <<>> /\ UNCHANGED <<table, managing, return>> /\ pc' = "grab"
        /\ ~IsVirtual(m) /\ Claim(table[m].node) # NoKbd
    BY <1>8 DEF AwaitNeutral, Managing
  <2>2. Claim(table[m].node) \in Live
    BY <1>4, <2>1 DEF InUse
  <2>3. Finite' /\ Control' /\ IsTable(table)' /\ Accounted(table, managing)'
    BY <1>3, <2>1 DEF PointerInv, Finite, Control, Positions, Accounted, InUse, Live
  <2>4. Grabbing'
    BY <1>3, <2>1, <2>2 DEF Grabbing, IsVirtual, Managed, Claim, Live
  <2> QED BY <2>3, <2>4 DEF PointerInv
<1>9. CASE Grab
  <2>1. /\ managing # <<>> /\ table[m].node # VirtualDevice
        /\ managing' = Tail(managing) /\ UNCHANGED return /\ pc' = "manage"
    BY <1>9 DEF Grab, PointerInv, Grabbing
  <2> DEFINE taken == [table[m] EXCEPT !.grabbed = TRUE, !.data = Claim(table[m].node), !.queue = <<>>]
             left == [table[m] EXCEPT !.data = NoKbd]
  <2>2. \/ table' = [table EXCEPT ![m] = taken]
        \/ table' = [table EXCEPT ![m] = left]
    BY <1>1, <1>2, <1>9, <2>1 DEF Grab
  <2>3. /\ DOMAIN taken = Fields /\ taken.node = table[m].node /\ taken.data = Claim(table[m].node)
        /\ DOMAIN left = Fields /\ left.node = table[m].node /\ left.data = NoKbd
    BY <1>1, <1>2, <2>1 DEF Fields
  <2> HIDE DEF taken, left
  <2> QED BY <1>4, <1>5, <2>1, <2>2, <2>3
<1>10. CASE AllManaged
  <2>1. managing = <<>> /\ pc' = return /\ return' = "turn" /\ UNCHANGED <<table, managing>>
    BY <1>10 DEF AllManaged
  <2>2. Finite' /\ Control' /\ IsTable(table)' /\ Accounted(table, managing)' /\ Grabbing'
    BY <1>3, <2>1 DEF PointerInv, Finite, Control, Positions, Accounted, InUse, Live, Grabbing
  <2> QED BY <2>2 DEF PointerInv
<1> QED BY <1>6, <1>7, <1>8, <1>9, <1>10 DEF Manage

\* poll looks at the table and leaves it alone.
LEMMA WakeKeepsPointers == PointerInv /\ Wake => PointerInv'
<1> SUFFICES ASSUME PointerInv, Wake PROVE PointerInv'
  OBVIOUS
<1>1. WakeStep
  BY DEF Wake, WakeForEvents, WakeUnclaimed, WakeForTimeout, WakeFreed
<1>2. /\ UNCHANGED <<managing, return, table, configs, dir, plugged>>
      /\ pc = "blocked" /\ pc' = "read"
  BY <1>1 DEF WakeStep, worldVars
<1>3. managing = <<>> /\ dir \subseteq Files /\ plugged \subseteq Devices
  BY <1>2 DEF PointerInv, Control, Finite
<1> QED BY <1>2, <1>3, SameTable

\* An event leaves the queue, or a device that is gone is closed.
LEMMA ReadKeepsPointers == PointerInv /\ Read => PointerInv'
<1> SUFFICES ASSUME PointerInv, Read PROVE PointerInv'
  OBVIOUS
<1>1. /\ IsTable(table) /\ Len(table) \in Nat /\ DOMAIN table = 1 .. Len(table)
      /\ table = [i \in 1 .. Len(table) |-> table[i]]
      /\ \A i \in DOMAIN table : DOMAIN table[i] = Fields
  BY TableIsFunction DEF PointerInv
<1>2. dir \subseteq Files /\ plugged \subseteq Devices
  BY DEF PointerInv, Finite
<1>3. ASSUME NEW i \in Positions, NEW e, table' = [table EXCEPT ![i] = e], ReadStep,
             DOMAIN e = Fields, e.node = table[i].node, e.data = table[i].data
      PROVE  PointerInv'
  <2>1. DOMAIN table' = DOMAIN table /\ table' = [j \in 1 .. Len(table) |-> table'[j]]
        /\ \A j \in DOMAIN table : /\ table'[j].node = table[j].node
                                   /\ table'[j].data = table[j].data /\ DOMAIN table'[j] = Fields
    BY <1>1, <1>3 DEF Positions
  <2>2. IsTable(table')
    BY <1>1, <2>1, FunctionIsTable
  <2>3. UNCHANGED <<managing, return, configs, dir, plugged, pc>>
    BY <1>3 DEF ReadStep, worldVars
  <2> QED BY <1>2, <2>1, <2>2, <2>3, SameKeyboards
<1>4. ASSUME NEW i \in Positions, NEW e, Taken(i, e) PROVE PointerInv'
  <2> DEFINE rest == [table[i] EXCEPT !.queue = Tail(@)]
  <2>1. table' = [table EXCEPT ![i] = rest] /\ ReadStep
    BY <1>1, <1>4 DEF Taken
  <2>2. DOMAIN rest = Fields /\ rest.node = table[i].node /\ rest.data = table[i].data
    BY <1>1 DEF Fields, Positions
  <2> HIDE DEF rest
  <2> QED BY <1>3, <2>1, <2>2
<1>5. ASSUME NEW i \in Positions, ReadRemoved(i) PROVE PointerInv'
  <2> DEFINE gone == [table[i] EXCEPT !.fd = "closed"]
  <2>1. table' = [table EXCEPT ![i] = gone] /\ ReadStep
    BY <1>1, <1>5 DEF ReadRemoved
  <2>2. DOMAIN gone = Fields /\ gone.node = table[i].node /\ gone.data = table[i].data
    BY <1>1 DEF Fields, Positions
  <2> HIDE DEF gone
  <2> QED BY <1>3, <2>1, <2>2
<1>8. ASSUME NEW i \in Positions, ReadDropped(i) PROVE PointerInv'
  <2> DEFINE gone == [table[i] EXCEPT !.fd = "closed", !.queue = <<>>]
  <2>1. table' = [table EXCEPT ![i] = gone] /\ ReadStep
    BY <1>1, <1>8 DEF ReadDropped, Positions
  <2>2. DOMAIN gone = Fields /\ gone.node = table[i].node /\ gone.data = table[i].data
    BY <1>1 DEF Fields, Positions
  <2> HIDE DEF gone
  <2> QED BY <1>3, <2>1, <2>2
<1>6. ASSUME NEW i \in Positions, ReadNothing(i) PROVE PointerInv'
  BY <1>2, <1>6, SameTable DEF ReadNothing, ReadStep, worldVars
<1>7. CASE AllRead
  <2>1. managing = <<>>
    BY <1>7 DEF AllRead, PointerInv, Control
  <2>2. UNCHANGED <<managing, return, table, configs, dir, plugged>>
        /\ pc' \notin {"manage", "grab"}
    BY <1>7 DEF AllRead, AfterRequests, worldVars
  <2> QED BY <1>2, <2>1, <2>2, SameTable
<1> QED BY <1>4, <1>5, <1>6, <1>7, <1>8
        DEF Read, Panic, ReadKey, ReadScroll, ReadMove, ReadUnmanaged

\* reload: every device that had a keyboard is to be managed.
LEMMA ServeKeepsPointers == PointerInv /\ Serve => PointerInv'
<1> SUFFICES ASSUME PointerInv, Serve PROVE PointerInv'
  OBVIOUS
<1>1. /\ IsTable(table) /\ Len(table) \in Nat /\ DOMAIN table = 1 .. Len(table)
      /\ \A i \in DOMAIN table : DOMAIN table[i] = Fields
  BY TableIsFunction DEF PointerInv
<1>2. dir \subseteq Files /\ plugged \subseteq Devices
  BY DEF PointerInv, Finite
<1>3. CASE Reload
  <2>1. /\ configs' \in Orders(dir) /\ managing' = [i \in 1 .. Len(table) |-> i]
        /\ table' = [i \in 1 .. Len(table) |-> IF table[i].data = NoKbd THEN table[i]
                                               ELSE [table[i] EXCEPT !.data = Freed]]
        /\ pc' = "manage" /\ return' = "reloaded" /\ UNCHANGED <<dir, plugged>>
    BY <1>1, <1>3 DEF Reload, Accepting, Positions
  <2>2. /\ DOMAIN table' = 1 .. Len(table) /\ table' = [i \in 1 .. Len(table) |-> table'[i]]
        /\ \A i \in DOMAIN table : /\ table'[i].node = table[i].node /\ DOMAIN table'[i] = Fields
                                   /\ table[i].data = NoKbd => table'[i].data = NoKbd
    BY <1>1, <2>1 DEF Fields
  <2>3. IsTable(table)'
    BY <1>1, <2>2, FunctionIsTable
  <2>4. IsFiniteSet(dir)
    BY <1>2, DaemonAssumption, FS_Subset
  <2>5. Finite'
    BY <1>2, <2>1, <2>4, OrdersAreSequences DEF Finite
  <2>6. Control' /\ Grabbing'
    BY <1>1, <2>1, <2>2 DEF Control, Positions, Grabbing
  <2>7. \A i \in DOMAIN table' : i \in Range(managing')
    BY <2>1, <2>2 DEF Range
  <2>8. Accounted(table, managing)'
    BY <1>1, <2>2, <2>7 DEF PointerInv, Accounted
  <2> QED BY <2>3, <2>5, <2>6, <2>8 DEF PointerInv
<1>4. CASE Reloaded \/ AddListener \/ Do \/ Input
  <2>1. UNCHANGED <<managing, return, table, configs, dir, plugged>>
        /\ pc \in {"reloaded", "accept"} /\ pc' \notin {"manage", "grab"}
    BY <1>4 DEF Reloaded, AddListener, Do, Input, Answering, Accepting, AfterRequests, worldVars
  <2>2. managing = <<>>
    BY <2>1 DEF PointerInv, Control
  <2> QED BY <1>2, <2>1, <2>2, SameTable
<1> QED BY <1>3, <1>4 DEF Serve

\* A new device is managed at once.
LEMMA WatchKeepsPointers == PointerInv /\ Watch => PointerInv'
<1> SUFFICES ASSUME PointerInv, Watch PROVE PointerInv'
  OBVIOUS
<1>1. /\ IsTable(table) /\ Len(table) \in Nat /\ DOMAIN table = 1 .. Len(table)
      /\ \A i \in DOMAIN table : DOMAIN table[i] = Fields
  BY TableIsFunction DEF PointerInv
<1>2. dir \subseteq Files /\ plugged \subseteq Devices
  BY DEF PointerInv, Finite
<1>3. UNCHANGED <<dir, plugged, configs>> /\ pc = "watch"
  BY DEF Watch, Opened, TableFull, NotOpened, AllOpened, WatchStep
<1>4. managing = <<>>
  BY <1>3 DEF PointerInv, Control
<1>5. CASE Opened
  <2> DEFINE e == NewEntry(Head(announced))
  <2>1. /\ table' = Append(table, e) /\ managing' = <<Len(table) + 1>>
        /\ pc' = "manage" /\ return' = "watch"
    BY <1>5 DEF Opened
  <2>2. DOMAIN e = Fields /\ e.data = NoKbd
    BY DEF NewEntry, Fields
  <2> HIDE DEF e
  <2>3. /\ table \in Seq(Range(table) \cup {e}) /\ e \in Range(table) \cup {e}
    BY <1>1 DEF IsTable
  <2>4. /\ table' \in Seq(Range(table) \cup {e}) /\ Len(table') = Len(table) + 1
        /\ \A i \in 1 .. Len(table) : table'[i] = table[i]
        /\ table'[Len(table) + 1] = e
    BY <2>1, <2>3, AppendProperties
  <2>5. DOMAIN table' = 1 .. Len(table) + 1 /\ table' = [i \in 1 .. Len(table) + 1 |-> table'[i]]
    BY <2>4, LenProperties
  <2>6. \A i \in 1 .. Len(table) + 1 : i \in 1 .. Len(table) \/ i = Len(table) + 1
    BY <1>1
  <2>7. IsTable(table)'
    BY <1>1, <2>2, <2>4, <2>5, <2>6, FunctionIsTable
  <2>8. Finite' /\ Control' /\ Grabbing'
    BY <1>1, <1>3, <2>1, <2>5 DEF PointerInv, Finite, Control, Positions, Grabbing
  <2>9. \A i \in DOMAIN table : InUse(table[i].data)
    BY <1>4 DEF PointerInv, Accounted, Range
  <2>10. Accounted(table, managing)'
    BY <1>1, <1>3, <2>2, <2>4, <2>5, <2>6, <2>9 DEF PointerInv, Accounted, InUse, Live
  <2> QED BY <2>7, <2>8, <2>10 DEF PointerInv
<1>6. CASE TableFull \/ NotOpened \/ AllOpened
  <2>1. UNCHANGED <<managing, return, table>> /\ pc' \notin {"manage", "grab"}
    BY <1>3, <1>6 DEF TableFull, NotOpened, AllOpened
  <2> QED BY <1>2, <1>3, <1>4, <2>1, SameTable
<1> QED BY <1>5, <1>6 DEF Watch

\* The devices that stay move up with their keyboards.
LEMMA TurnKeepsPointers == PointerInv /\ Turn => PointerInv'
<1> SUFFICES ASSUME PointerInv, Turn PROVE PointerInv'
  OBVIOUS
<1> DEFINE open == {i \in Positions : table[i].fd # "closed"}
<1>1. /\ Len(table) \in Nat /\ DOMAIN table = 1 .. Len(table)
      /\ \A i \in DOMAIN table : DOMAIN table[i] = Fields
  BY TableIsFunction DEF PointerInv
<1>2. PICK stay \in Orders(open) : table' = [i \in DOMAIN stay |-> table[stay[i]]]
  BY DEF Turn
<1>3. IsFiniteSet(open)
  <2>1. IsFiniteSet(1 .. Len(table))
    BY <1>1, FS_Interval
  <2>2. open \subseteq 1 .. Len(table)
    BY <1>1 DEF Positions
  <2> QED BY <2>1, <2>2, FS_Subset
<1>4. /\ Cardinality(open) \in Nat /\ DOMAIN stay = 1 .. Cardinality(open)
      /\ \A i \in DOMAIN stay : stay[i] \in DOMAIN table
  BY <1>3, OrdersAreSequences DEF Positions
<1> HIDE DEF open
<1>5. IsTable(table)'
  BY <1>1, <1>2, <1>4, FunctionIsTable
<1>6. /\ UNCHANGED <<managing, return, configs, dir, plugged>> /\ managing = <<>>
      /\ pc' = "blocked"
  BY DEF Turn, worldVars, PointerInv, Control
<1>7. Finite' /\ Control' /\ Grabbing'
  BY <1>6 DEF PointerInv, Finite, Control, Grabbing
<1>8. \A i \in DOMAIN table : InUse(table[i].data)
  BY <1>6 DEF PointerInv, Accounted, Range
<1>9. Accounted(table, managing)'
  BY <1>2, <1>4, <1>6, <1>8 DEF PointerInv, Accounted, InUse, Live
<1> QED BY <1>5, <1>7, <1>9 DEF PointerInv

-----------------------------------------------------------------------------

LEMMA InitPointerInv == Init => PointerInv
<1> SUFFICES ASSUME Init PROVE PointerInv
  OBVIOUS
<1>1. dir \subseteq Files /\ plugged \subseteq Devices /\ configs \in Orders(dir)
      /\ table = <<>> /\ managing = <<>> /\ pc = "scan" /\ return = "turn"
  BY DaemonAssumption DEF Init
<1>2. IsFiniteSet(dir)
  BY <1>1, DaemonAssumption, FS_Subset
<1>3. Finite
  BY <1>1, <1>2, OrdersAreSequences DEF Finite
<1>4. IsTable(table)
  BY <1>1 DEF IsTable
<1>5. Control /\ Accounted(table, managing) /\ Grabbing
  BY <1>1 DEF Control, Accounted, Grabbing
<1> QED BY <1>3, <1>4, <1>5 DEF PointerInv

LEMMA PointerInvStep == PointerInv /\ [Next]_vars => PointerInv'
<1>1. PointerInv /\ (UNCHANGED vars \/ TooManyFound) => PointerInv'
  BY SameTable DEF vars, TooManyFound, worldVars, controlVars, PointerInv, Finite
<1> QED BY <1>1, WorldKeepsPointers, ScanKeepsPointers, ManageKeepsPointers, WakeKeepsPointers,
           ReadKeepsPointers, ServeKeepsPointers, WatchKeepsPointers, TurnKeepsPointers
        DEF Next, Daemon

\* Every device has a keyboard that is in use, or none, or manage_device is
\* still to be called for it (daemon.c:209-251).
THEOREM PointerInvariant == Spec => []PointerInv
BY InitPointerInv, PointerInvStep, PTL DEF Spec

\* Outside of a reload and of the start, no device points at a keyboard that
\* was freed or is not loaded (daemon.c:209-251): an event of a device is
\* never given to one (a timeout may be: active_kbd is another pointer).
THEOREM NoneDangles == Spec => []NoDanglingKeyboard
<1>1. PointerInv => NoDanglingKeyboard
  BY DEF PointerInv, Control, Accounted, InUse, Positions, Range, NoDanglingKeyboard
<1> QED BY <1>1, PointerInvariant, PTL

-----------------------------------------------------------------------------
(* Descriptors.                                                             *)

IsOpen(t, i, p) == t[i].node = p /\ t[i].fd = "open"

\* Once the devices were scanned, those connected are open or announced, except
\* that one with axes other than x and y may have been dropped.
Known == pc # "scan" => \A p \in plugged \ AxisDevices :
                                           \/ \E i \in Positions : IsOpen(table, i, p)
                                           \/ p \in Range(announced)

\* No device is grabbed through two descriptors.
Exclusive(t) ==
    \A i, j \in DOMAIN t : i # j /\ t[i].grabbed /\ t[j].grabbed =>
        \A p : ~(IsOpen(t, i, p) /\ IsOpen(t, j, p))

Tracked == announced \in Seq(Devices) /\ Known /\ Exclusive(table)
DeviceInv == PointerInv /\ Tracked

\* Only such a device is dropped (what the queues hold is TypesInv's matter).
Axial == \A i \in Positions : ReadDropped(i) => table[i].node \in AxisDevices

-----------------------------------------------------------------------------
(* The ways in which a step treats descriptors.                             *)

\* What is appended is in the sequence, and what was there stays.
LEMMA RangeOfAppend ==
    ASSUME NEW S, NEW s \in Seq(S), NEW e \in S
    PROVE  /\ Append(s, e) \in Seq(S)
           /\ \A x : x \in Range(s) \/ x = e => x \in Range(Append(s, e))
<1>1. /\ Append(s, e) \in Seq(S) /\ Len(Append(s, e)) = Len(s) + 1
      /\ \A i \in 1 .. Len(s) : Append(s, e)[i] = s[i]
      /\ Append(s, e)[Len(s) + 1] = e
  BY AppendProperties
<1>2. /\ DOMAIN Append(s, e) = 1 .. Len(s) + 1 /\ DOMAIN s = 1 .. Len(s) /\ Len(s) \in Nat
  BY <1>1, LenProperties
<1> QED BY <1>1, <1>2 DEF Range

\* It closes no descriptor of a connected device and grabs none.
LEMMA SameDescriptors ==
    ASSUME DeviceInv, UNCHANGED announced, plugged' \subseteq plugged,
           pc = "scan" => pc' = "scan", DOMAIN table' = DOMAIN table,
           \A i \in DOMAIN table :
              /\ table'[i].node = table[i].node
              /\ table[i].fd = "open" /\ table[i].node \in plugged' \ AxisDevices
                    => table'[i].fd = "open"
              /\ table'[i].fd = "open" => table[i].fd = "open"
              /\ table'[i].fd = "open" /\ table'[i].grabbed => table[i].grabbed
    PROVE  Tracked'
<1>1. Known'
  BY DEF DeviceInv, Tracked, Known, IsOpen, Positions
<1>2. Exclusive(table)'
  BY DEF DeviceInv, Tracked, Exclusive, IsOpen
<1> QED BY <1>1, <1>2 DEF DeviceInv, Tracked

-----------------------------------------------------------------------------
(* The steps.                                                               *)

LEMMA WorldKeepsDevices == DeviceInv /\ World => Tracked'
<1> SUFFICES ASSUME DeviceInv, World PROVE Tracked'
  OBVIOUS
<1> USE DEF Spend, daemonVars, controlVars
<1>1. \A i \in DOMAIN table : DOMAIN table[i] = Fields
  BY DEF DeviceInv, Tracked, PointerInv, IsTable
<1>2. CASE UNCHANGED <<table, announced, plugged, pc>>
  BY <1>2, SameDescriptors
<1>3. ASSUME NEW p, NEW e, Deliver(p, e), UNCHANGED <<controlVars, announced, plugged>>
      PROVE  Tracked'
  <2>1. /\ DOMAIN table' = DOMAIN table
        /\ \A i \in DOMAIN table : /\ table'[i].node = table[i].node /\ table'[i].fd = table[i].fd
                                   /\ table'[i].grabbed = table[i].grabbed
    BY <1>1, <1>3 DEF Deliver, Positions, Fields
  <2> QED BY <1>3, <2>1, SameDescriptors
<1>4. ASSUME NEW p \in Devices, Plug(p)
      PROVE  Tracked'
  <2>1. /\ plugged' = plugged \cup {p} /\ announced' = Append(announced, p)
        /\ UNCHANGED <<table, pc>>
    BY <1>4 DEF Plug
  <2>2. /\ announced' \in Seq(Devices)
        /\ \A x : x \in Range(announced) \/ x = p => x \in Range(announced')
    BY <2>1, RangeOfAppend DEF DeviceInv, Tracked
  <2> QED BY <2>1, <2>2 DEF DeviceInv, Tracked, Known, Exclusive, IsOpen, Positions
<1>5. ASSUME NEW p \in Devices, Unplug(p)
      PROVE  Tracked'
  <2>1. /\ UNCHANGED <<announced, pc>> /\ plugged' = plugged \ {p} /\ DOMAIN table' = DOMAIN table
        /\ \A i \in DOMAIN table :
              /\ table'[i].node = table[i].node /\ table'[i].grabbed = table[i].grabbed
              /\ table[i].node # p => table'[i].fd = table[i].fd
              /\ table'[i].fd = "open" => table[i].fd = "open"
    BY <1>1, <1>5 DEF Unplug, Through, Positions, Fields
  <2> QED BY <2>1, SameDescriptors
<1>6. ASSUME NEW p \in Devices, NEW c \in DeviceKeys[p], KeyDown(p, c) \/ KeyUp(p, c)
      PROVE  Tracked'
  BY <1>3, <1>6 DEF KeyDown, KeyUp
<1>7. ASSUME NEW p \in Devices, NEW type, Point(p, type)
      PROVE  Tracked'
  BY <1>3, <1>7 DEF Point
<1>8. ASSUME NEW on \in Leds, Led(on)
      PROVE  Tracked'
  BY <1>3, <1>8 DEF Led
<1>9. (\E f \in Files : Edit(f)) \/ (\E r \in Requests : Ask(r)) \/ Tick
      => UNCHANGED <<table, announced, plugged, pc>>
  BY DEF Edit, Ask, Tick
<1> QED BY <1>2, <1>4, <1>5, <1>6, <1>7, <1>8, <1>9 DEF World

\* Everything that is connected is opened, and nothing is grabbed yet.
LEMMA ScanKeepsDevices == DeviceInv /\ Scan => Tracked'
<1> SUFFICES ASSUME DeviceInv, Scan PROVE Tracked'
  OBVIOUS
<1>1. PICK order \in Orders(plugged) : table' = [i \in DOMAIN order |-> NewEntry(order[i])]
  BY DEF Scan
<1>2. UNCHANGED <<announced, plugged>> /\ Range(order) = plugged
  BY DEF Scan, Orders, worldVars
<1>3. \A i \in DOMAIN order : table'[i].node = order[i] /\ table'[i].fd = "open"
                             /\ table'[i].grabbed = FALSE
  BY <1>1 DEF NewEntry
<1>4. Known'
  BY <1>1, <1>2, <1>3 DEF Known, IsOpen, Positions, Range
<1>5. Exclusive(table)'
  BY <1>1, <1>3 DEF Exclusive
<1> QED BY <1>2, <1>4, <1>5 DEF DeviceInv, Tracked

\* A grab succeeds only on a device nobody has grabbed.
LEMMA ManageKeepsDevices == DeviceInv /\ Manage => Tracked'
<1> SUFFICES ASSUME DeviceInv, Manage PROVE Tracked'
  OBVIOUS
<1> DEFINE m == Managed
<1>1. /\ \A i \in DOMAIN table : DOMAIN table[i] = Fields
      /\ managing # <<>> => m \in DOMAIN table
  BY HeadAndRest DEF DeviceInv, Tracked, PointerInv, IsTable, Control, Positions, Managed
<1>2. UNCHANGED <<plugged, announced>> /\ pc # "scan"
  BY DEF Manage, Ignore, Keep, AwaitNeutral, Grab, AllManaged, Managing, ManageStep, worldVars
<1>3. CASE UNCHANGED table
  BY <1>2, <1>3, SameDescriptors
<1>4. ASSUME m \in DOMAIN table, NEW e, table' = [table EXCEPT ![m] = e],
             e.node = table[m].node, e.fd = table[m].fd,
             e.fd = "open" /\ e.grabbed => table[m].grabbed
      PROVE  Tracked'
  <2>1. DOMAIN table' = DOMAIN table /\ table'[m] = e
        /\ \A i \in DOMAIN table \ {m} : table'[i] = table[i]
    BY <1>4
  <2> QED BY <1>2, <1>4, <2>1, SameDescriptors
<1>5. CASE Ignore
  <2> DEFINE e == [table[m] EXCEPT !.data = NoKbd, !.grabbed = @ /\ table[m].fd # "open"]
  <2>1. CASE IsVirtual(m)
    BY <1>3, <1>5, <2>1 DEF Ignore
  <2>2. CASE ~IsVirtual(m)
    <3>1. m \in DOMAIN table /\ table' = [table EXCEPT ![m] = e]
      BY <1>1, <1>5, <2>2 DEF Ignore, Managing
    <3>2. e.node = table[m].node /\ e.fd = table[m].fd /\ ~(e.fd = "open" /\ e.grabbed)
      BY <1>1, <3>1 DEF Fields
    <3> HIDE DEF e
    <3> QED BY <1>4, <3>1, <3>2
  <2> QED BY <2>1, <2>2
<1>6. CASE Keep
  <2> DEFINE e == [table[m] EXCEPT !.data = Claim(table[m].node)]
  <2>1. m \in DOMAIN table /\ table' = [table EXCEPT ![m] = e]
    BY <1>1, <1>6 DEF Keep, Managing
  <2>2. e.node = table[m].node /\ e.fd = table[m].fd /\ e.grabbed = table[m].grabbed
    BY <1>1, <2>1 DEF Fields
  <2> HIDE DEF e
  <2> QED BY <1>4, <2>1, <2>2
<1>7. CASE AwaitNeutral \/ AllManaged
  BY <1>3, <1>7 DEF AwaitNeutral, AllManaged
<1>8. CASE Grab
  <2>1. m \in DOMAIN table
    BY <1>1, <1>8 DEF Grab, DeviceInv, PointerInv, Grabbing
  <2> DEFINE taken == [table[m] EXCEPT !.grabbed = TRUE, !.data = Claim(table[m].node), !.queue = <<>>]
             left == [table[m] EXCEPT !.data = NoKbd]
  <2>2. /\ taken.node = table[m].node /\ taken.fd = table[m].fd
        /\ left.node = table[m].node /\ left.fd = table[m].fd /\ left.grabbed = table[m].grabbed
    BY <1>1, <2>1 DEF Fields
  <2>3. \/ table' = [table EXCEPT ![m] = left]
        \/ /\ table' = [table EXCEPT ![m] = taken]
           /\ table[m].fd = "open" /\ ~Grabbed(table[m].node)
    BY <1>1, <1>8, <2>1 DEF Grab
  <2> HIDE DEF taken, left
  <2>4. CASE table' = [table EXCEPT ![m] = left]
    BY <1>4, <2>1, <2>2, <2>4
  <2>5. CASE /\ table' = [table EXCEPT ![m] = taken]
             /\ table[m].fd = "open" /\ ~Grabbed(table[m].node)
    <3>1. DOMAIN table' = DOMAIN table /\ table'[m] = taken
          /\ \A i \in DOMAIN table \ {m} : table'[i] = table[i]
      BY <2>1, <2>5
    <3>2. Known'
      BY <1>2, <2>1, <2>2, <3>1 DEF DeviceInv, Tracked, Known, IsOpen, Positions
    <3>3. \A i \in DOMAIN table \ {m} : ~(table[i].grabbed /\ IsOpen(table, i, table[m].node))
      BY <2>5 DEF Grabbed, Through, IsOpen, Positions
    <3>4. Exclusive(table)'
      BY <2>2, <3>1, <3>3 DEF DeviceInv, Tracked, Exclusive, IsOpen
    <3> QED BY <1>2, <3>2, <3>4 DEF DeviceInv, Tracked
  <2> QED BY <2>3, <2>4, <2>5
<1> QED BY <1>5, <1>6, <1>7, <1>8 DEF Manage

\* poll looks at the table and leaves it alone.
LEMMA WakeKeepsDevices == DeviceInv /\ Wake => Tracked'
<1> SUFFICES ASSUME DeviceInv, Wake PROVE Tracked'
  OBVIOUS
<1>1. WakeStep
  BY DEF Wake, WakeForEvents, WakeUnclaimed, WakeForTimeout, WakeFreed
<1>2. UNCHANGED <<table, announced, plugged>> /\ pc # "scan"
  BY <1>1 DEF WakeStep, worldVars
<1> QED BY <1>2, SameDescriptors

\* Events are read; what is closed was dead before, or is dropped.
LEMMA ReadKeepsDevices == DeviceInv /\ Axial /\ Read => Tracked'
<1> SUFFICES ASSUME DeviceInv, Axial, Read PROVE Tracked'
  OBVIOUS
<1>1. \A i \in DOMAIN table : DOMAIN table[i] = Fields
  BY DEF DeviceInv, Tracked, PointerInv, IsTable
<1>2. ASSUME NEW i \in Positions, NEW e, Taken(i, e)
      PROVE  Tracked'
  <2>1. UNCHANGED <<announced, plugged, pc>> /\ table' = [table EXCEPT ![i].queue = Tail(@)]
    BY <1>2 DEF Taken, ReadStep, worldVars
  <2>2. DOMAIN table' = DOMAIN table
        /\ \A j \in DOMAIN table : /\ table'[j].node = table[j].node /\ table'[j].fd = table[j].fd
                                   /\ table'[j].grabbed = table[j].grabbed
    BY <1>1, <2>1 DEF Fields
  <2> QED BY <2>1, <2>2, SameDescriptors
<1>3. ASSUME NEW i \in Positions, ReadRemoved(i)
      PROVE  Tracked'
  <2>1. /\ UNCHANGED <<announced, plugged, pc>> /\ table' = [table EXCEPT ![i].fd = "closed"]
        /\ table[i].fd = "dead"
    BY <1>3 DEF ReadRemoved, ReadStep, worldVars
  <2>2. DOMAIN table' = DOMAIN table
        /\ \A j \in DOMAIN table : /\ table'[j].node = table[j].node
                                   /\ table'[j].grabbed = table[j].grabbed
                                   /\ table'[j].fd = IF j = i THEN "closed" ELSE table[j].fd
    BY <1>1, <2>1 DEF Fields
  <2> QED BY <2>1, <2>2, SameDescriptors
<1>6. ASSUME NEW i \in Positions, ReadDropped(i)
      PROVE  Tracked'
  <2>1. /\ UNCHANGED <<announced, plugged, pc>>
        /\ table' = [table EXCEPT ![i].fd = "closed", ![i].queue = <<>>]
        /\ table[i].node \in AxisDevices
    BY <1>6 DEF ReadDropped, ReadStep, worldVars, Axial
  <2>2. DOMAIN table' = DOMAIN table
        /\ \A j \in DOMAIN table : /\ table'[j].node = table[j].node
                                   /\ table'[j].grabbed = table[j].grabbed
                                   /\ table'[j].fd = IF j = i THEN "closed" ELSE table[j].fd
    BY <1>1, <2>1 DEF Fields
  <2> QED BY <2>1, <2>2, SameDescriptors
<1>4. (\E i \in Positions : ReadNothing(i)) \/ AllRead
      => UNCHANGED <<table, announced, plugged>> /\ pc # "scan"
  BY DEF ReadNothing, AllRead, Reading, ReadStep, worldVars
<1>5. CASE UNCHANGED <<table, announced, plugged>> /\ pc # "scan"
  BY <1>5, SameDescriptors
<1> QED BY <1>2, <1>3, <1>4, <1>5, <1>6
        DEF Read, Panic, ReadKey, ReadScroll, ReadMove, ReadUnmanaged

\* reload changes keyboards, not descriptors.
LEMMA ServeKeepsDevices == DeviceInv /\ Serve => Tracked'
<1> SUFFICES ASSUME DeviceInv, Serve PROVE Tracked'
  OBVIOUS
<1>1. \A i \in DOMAIN table : DOMAIN table[i] = Fields
  BY DEF DeviceInv, PointerInv, IsTable
<1>2. CASE Reload
  <2>1. /\ UNCHANGED <<announced, plugged>> /\ pc # "scan"
        /\ table' = [i \in DOMAIN table |-> IF table[i].data = NoKbd THEN table[i]
                                           ELSE [table[i] EXCEPT !.data = Freed]]
    BY <1>2 DEF Reload, Accepting, Positions
  <2>2. DOMAIN table' = DOMAIN table
        /\ \A i \in DOMAIN table : /\ table'[i].node = table[i].node /\ table'[i].fd = table[i].fd
                                   /\ table'[i].grabbed = table[i].grabbed
    BY <1>1, <2>1 DEF Fields
  <2> QED BY <2>1, <2>2, SameDescriptors
<1>3. CASE Reloaded \/ AddListener \/ Do \/ Input
  <2>1. UNCHANGED <<table, announced, plugged>> /\ pc # "scan"
    BY <1>3 DEF Reloaded, AddListener, Do, Input, Answering, Accepting, worldVars
  <2> QED BY <2>1, SameDescriptors
<1> QED BY <1>2, <1>3 DEF Serve

\* An announcement is dropped when its device is opened, or is gone.
LEMMA WatchKeepsDevices == DeviceInv /\ Watch => Tracked'
<1> SUFFICES ASSUME DeviceInv, Watch PROVE Tracked'
  OBVIOUS
<1>1. UNCHANGED plugged /\ pc = "watch"
  BY DEF Watch, Opened, TableFull, NotOpened, AllOpened, WatchStep
<1>2. announced # <<>> => /\ Tail(announced) \in Seq(Devices) /\ Head(announced) \in Devices
                          /\ \A p \in Range(announced) :
                                p = Head(announced) \/ p \in Range(Tail(announced))
  BY HeadAndRest DEF DeviceInv, Tracked
<1>3. CASE Opened
  <2> DEFINE e == NewEntry(Head(announced))
  <2>1. /\ announced # <<>> /\ announced' = Tail(announced) /\ table' = Append(table, e)
    BY <1>3 DEF Opened
  <2>2. e.node = Head(announced) /\ e.fd = "open" /\ e.grabbed = FALSE
    BY DEF NewEntry
  <2> HIDE DEF e
  <2>3. /\ Len(table) \in Nat /\ DOMAIN table = 1 .. Len(table)
        /\ table \in Seq(Range(table) \cup {e}) /\ e \in Range(table) \cup {e}
    BY TableIsFunction DEF DeviceInv, PointerInv, IsTable
  <2>4. /\ table' \in Seq(Range(table) \cup {e}) /\ Len(table') = Len(table) + 1
        /\ \A i \in 1 .. Len(table) : table'[i] = table[i]
        /\ table'[Len(table) + 1] = e
    BY <2>1, <2>3, AppendProperties
  <2>5. DOMAIN table' = 1 .. Len(table) + 1
    BY <2>4, LenProperties
  <2>6. /\ Len(table) + 1 \in DOMAIN table' /\ \A i \in DOMAIN table : i \in DOMAIN table'
        /\ \A i \in DOMAIN table' : i \in DOMAIN table \/ i = Len(table) + 1
    BY <2>3, <2>5
  <2>7. \A p \in Range(announced) : p \in Range(announced') \/ IsOpen(table', Len(table) + 1, p)
    BY <1>2, <2>1, <2>2, <2>4 DEF IsOpen
  <2>8. \A i \in DOMAIN table : \A p : IsOpen(table, i, p) => IsOpen(table', i, p)
    BY <2>3, <2>4 DEF IsOpen
  <2>9. Known'
    BY <1>1, <2>6, <2>7, <2>8 DEF DeviceInv, Tracked, Known, Positions
  <2>10. Exclusive(table)'
    BY <2>2, <2>3, <2>4, <2>6 DEF DeviceInv, Tracked, Exclusive, IsOpen
  <2> QED BY <1>2, <2>1, <2>9, <2>10 DEF Tracked
<1>4. CASE NotOpened
  <2>1. /\ announced # <<>> /\ announced' = Tail(announced) /\ UNCHANGED <<table, pc>>
        /\ Head(announced) \notin plugged
    BY <1>4 DEF NotOpened
  <2> QED BY <1>1, <1>2, <2>1 DEF DeviceInv, Tracked, Known, Exclusive, IsOpen, Positions
<1>5. CASE TableFull \/ AllOpened
  <2>1. UNCHANGED <<announced, table>>
    BY <1>5 DEF TableFull, AllOpened
  <2> QED BY <1>1, <2>1, SameDescriptors
<1> QED BY <1>3, <1>4, <1>5 DEF Watch

\* Only closed descriptors leave the table, and none is counted twice.
LEMMA TurnKeepsDevices == DeviceInv /\ Turn => Tracked'
<1> SUFFICES ASSUME DeviceInv, Turn PROVE Tracked'
  OBVIOUS
<1> DEFINE open == {i \in Positions : table[i].fd # "closed"}
<1>1. /\ Len(table) \in Nat /\ DOMAIN table = 1 .. Len(table)
  BY TableIsFunction DEF DeviceInv, PointerInv
<1>2. PICK stay \in Orders(open) : /\ \A i, j \in DOMAIN stay : i < j => stay[i] < stay[j]
                                  /\ table' = [i \in DOMAIN stay |-> table[stay[i]]]
  BY DEF Turn
<1>3. IsFiniteSet(open)
  <2>1. IsFiniteSet(1 .. Len(table)) /\ open \subseteq 1 .. Len(table)
    BY <1>1, FS_Interval DEF Positions
  <2> QED BY <2>1, FS_Subset
<1>4. /\ Cardinality(open) \in Nat /\ DOMAIN stay = 1 .. Cardinality(open)
      /\ \A i \in DOMAIN stay : stay[i] \in 1 .. Len(table)
      /\ \A k \in open : \E i \in DOMAIN stay : stay[i] = k
  BY <1>1, <1>3, OrdersAreSequences DEF Positions, Orders, Range
<1>5. \A i, j \in DOMAIN stay : i # j => stay[i] # stay[j]
  BY <1>2, <1>4
<1>6. UNCHANGED <<announced, plugged>> /\ pc # "scan"
  BY DEF Turn, worldVars
<1>7. \A k \in DOMAIN table : \A p : IsOpen(table, k, p) =>
          \E i \in DOMAIN table' : IsOpen(table', i, p)
  BY <1>2, <1>4 DEF IsOpen, Positions
<1> HIDE DEF open
<1>8. Known'
  BY <1>6, <1>7 DEF DeviceInv, Tracked, Known, Positions
<1>9. Exclusive(table)'
  BY <1>1, <1>2, <1>4, <1>5 DEF DeviceInv, Tracked, Exclusive, IsOpen
<1> QED BY <1>6, <1>8, <1>9 DEF DeviceInv, Tracked

-----------------------------------------------------------------------------

LEMMA DeviceInvStep == DeviceInv /\ Axial /\ [Next]_vars => DeviceInv'
<1>1. DeviceInv /\ (UNCHANGED vars \/ TooManyFound) => Tracked'
  BY SameDescriptors DEF vars, TooManyFound, worldVars, controlVars
<1>2. DeviceInv /\ Axial /\ Next => Tracked'
  BY <1>1, WorldKeepsDevices, ScanKeepsDevices, ManageKeepsDevices, ReadKeepsDevices,
     ServeKeepsDevices, WatchKeepsDevices, TurnKeepsDevices, WakeKeepsDevices DEF Next, Daemon
<1> QED BY <1>1, <1>2, PointerInvStep DEF DeviceInv

LEMMA InitDeviceInv == Init => DeviceInv
BY InitPointerInv DEF Init, DeviceInv, Tracked, Known, Exclusive

\* Then each connected device is open or announced, and one descriptor at most
\* has it grabbed.
LEMMA TrackedDevices == DeviceInv => NoDeviceForgotten
<1> SUFFICES ASSUME DeviceInv, Polling, NEW p \in plugged
             PROVE  LET mine == {i \in Positions : table[i].node = p /\ table[i].fd = "open"} IN
                    /\ mine # {} \/ p \in Range(announced) \/ p \in AxisDevices
                    /\ Cardinality({i \in mine : table[i].grabbed}) <= 1
  BY DEF NoDeviceForgotten
<1> DEFINE mine == {i \in Positions : table[i].node = p /\ table[i].fd = "open"}
           grabs == {i \in mine : table[i].grabbed}
<1>1. mine # {} \/ p \in Range(announced) \/ p \in AxisDevices
  BY DEF DeviceInv, Tracked, Known, IsOpen, Polling
<1>2. \A i, j \in grabs : i = j
  BY DEF DeviceInv, Tracked, Exclusive, IsOpen, Positions
<1> HIDE DEF grabs
<1>3. grabs = {} \/ \E i : grabs = {i}
  BY <1>2
<1>4. Cardinality(grabs) <= 1
  BY <1>3, FS_EmptySet, FS_Singleton
<1> QED BY <1>1, <1>4 DEF grabs

===============================================================================

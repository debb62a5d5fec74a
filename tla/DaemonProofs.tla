------------------------------ MODULE DaemonProofs ------------------------------
(***************************************************************************)
(* TypeOK and NoKeyLeftDown hold, listeners see the layers, and the daemon *)
(* implements Custody, for every set of devices, files and lines of their  *)
(* [ids] sections, keys and macros.                                        *)
(*                                                                         *)
(* keystate and the virtual device are told of the same keys, except that  *)
(* a text goes to the virtual device alone; but a text, like a macro, lets *)
(* go of every key it presses.  So what the virtual device holds down      *)
(* keystate knows of, and what keystate knows of a keyboard in use has     *)
(* down, until a reload replaces the keyboards and then clears both.       *)
(*                                                                         *)
(* A grab begins with all keys up and nothing queued.  From then on each   *)
(* press that is queued has its release behind it or the key is down; so   *)
(* what a keyboard has down is to be released by the device it was read    *)
(* from, unless that device went or the press came twice, when the step    *)
(* that loses the release records the key as stranded (Strand).            *)
(*                                                                         *)
(* The keyboard that has a device is the one at the device's entry of the  *)
(* table, and there is one such entry at most (Exclusive).  A device that  *)
(* is grabbed has a keyboard, and one in use is never given to a device    *)
(* that is not grabbed; so whoever owns a device can be read off the       *)
(* table, and a device is in limbo only while manage_device is still to be *)
(* called for it, when no event is read.                                   *)
(***************************************************************************)
EXTENDS DaemonLoop

\* What a device may have queued.
EventsOf(p) == [type : {"key"}, code : DeviceKeys[p], down : BOOLEAN]
               \cup [type : {"move", "scroll", "led"}, code : {0, 1}, down : BOOLEAN]
               \cup {Event("axis", 0, FALSE) : d \in {p} \cap AxisDevices}
Entries(t) == \A i \in DOMAIN t : /\ IsEntry(t[i]) /\ t[i].queue \in Seq(EventsOf(t[i].node))
                                  /\ Len(t[i].queue) \in Nat

Counters == /\ clock \in 0 .. MaxTime /\ budget \in 0 .. MaxBudget
            /\ loop.timeout \in Nat /\ static.timeout \in Nat
Owners == active_kbd \in Keyboards /\ asker \in Keyboards
Told == listeners \in Seq(BOOLEAN) /\ Len(listeners) <= MaxListeners
Tables == Entries(table) /\ Len(table) <= MaxDevices
Outputs == keystate \subseteq ByteCodes /\ vk \subseteq ByteCodes
LastEvent == devev.down \in BOOLEAN /\ (devev.type = "key" => devev.code \in ByteCodes)

TypesInv == /\ DeviceInv /\ TimeInv /\ Started /\ Counters /\ Owners /\ Told /\ Tables
            /\ Outputs /\ LastEvent

DownSomewhere == UNION {kbd[f].down : f \in Live}

\* A keyboard is its keys and its deadline.
KbdShape == \A f \in Files : DOMAIN kbd[f] = {"down", "due"}

\* The loop has somewhere else to go on only while it manages devices.
Returning == pc \notin {"manage", "grab"} => return = "turn"

KeysInv == /\ KbdShape /\ Returning
           /\ vk \subseteq keystate
           /\ keystate \cap (LayerKeys \cup TimerKeys) = {}
           /\ Reloading \/ keystate \subseteq DownSomewhere

-----------------------------------------------------------------------------
(* What the steps leave alone.                                              *)

LEMMA WorldLeaves == World => UNCHANGED daemonVars
<1> USE DEF daemonVars, Spend
<1>1. ASSUME NEW p \in Devices, Plug(p) \/ Unplug(p) PROVE UNCHANGED daemonVars
  BY <1>1 DEF Plug, Unplug
<1>2. ASSUME NEW p \in Devices, NEW type, Point(p, type) PROVE UNCHANGED daemonVars
  BY <1>2 DEF Point
<1>3. ASSUME NEW p \in Devices, NEW c \in DeviceKeys[p], KeyDown(p, c) \/ KeyUp(p, c)
      PROVE  UNCHANGED daemonVars
  BY <1>3 DEF KeyDown, KeyUp
<1>4. ASSUME NEW on \in Leds, Led(on) PROVE UNCHANGED daemonVars
  BY <1>4 DEF Led
<1>5. (\E f \in Files : Edit(f)) \/ (\E r \in Requests : Ask(r)) \/ Tick => UNCHANGED daemonVars
  BY DEF Edit, Ask, Tick
<1> QED BY <1>1, <1>2, <1>3, <1>4, <1>5 DEF World

LEMMA ManageLeaves == Manage => ManageStep
BY DEF Manage, Ignore, Keep, AwaitNeutral, Grab, AllManaged

\* A step of Read that is none of the four that answer an event.
LEMMA ReadLeaves ==
    Read => /\ ReadStep \/ AllRead
            /\ \/ \E i \in Positions : ReadKey(i) \/ ReadScroll(i) \/ ReadMove(i)
               \/ UNCHANGED <<outVars, engineVars>>
<1> SUFFICES ASSUME Read PROVE /\ ReadStep \/ AllRead
                               /\ \/ \E i \in Positions : ReadKey(i) \/ ReadScroll(i) \/ ReadMove(i)
                                  \/ UNCHANGED <<outVars, engineVars>>
  OBVIOUS
<1>1. ASSUME NEW i \in Positions, ReadRemoved(i) \/ ReadDropped(i) \/ ReadNothing(i)
      PROVE  ReadStep /\ UNCHANGED <<outVars, engineVars>>
  BY <1>1 DEF ReadRemoved, ReadDropped, ReadNothing
<1>2. ASSUME NEW i \in Positions, Panic(i) \/ ReadUnmanaged(i)
      PROVE  ReadStep /\ UNCHANGED <<outVars, engineVars>>
  BY <1>2 DEF Panic, ReadUnmanaged, Taken
<1>3. ASSUME NEW i \in Positions, ReadKey(i) \/ ReadScroll(i) \/ ReadMove(i)
      PROVE  ReadStep
  BY <1>3 DEF ReadKey, ReadScroll, ReadMove, Taken
<1>4. AllRead => UNCHANGED <<outVars, engineVars>>
  BY DEF AllRead
<1> QED BY <1>1, <1>2, <1>3, <1>4 DEF Read

-----------------------------------------------------------------------------
(* Type correctness.                                                        *)

LEMMA UnaskedNat ==
    ASSUME TimeInv, Unasked
    PROVE  loop'.timeout \in Nat /\ static'.timeout \in Nat
<1>1. loop \in [timeout : Int, time : Int] /\ static \in [timeout : Int, last : Int]
  BY DEF TimeInv, TimeTypes
<1>2. static'.timeout \in Nat
  BY <1>1 DEF Unasked, Elapsed, AtLeast0
<1>3. loop'.timeout = static'.timeout
  BY <1>1 DEF Unasked
<1> QED BY <1>2, <1>3

LEMMA AnsweredNat ==
    ASSUME TimeInv, NEW f \in Files, NEW k, k.due \in Int, Answered(f, k)
    PROVE  loop'.timeout \in Nat /\ static'.timeout \in Nat
<1>1. loop \in [timeout : Int, time : Int]
  BY DEF TimeInv, TimeTypes
<1>2. Answer(k, loop.time) \in Nat
  BY <1>1 DEF Answer
<1> QED BY <1>1, <1>2 DEF Answered

LEMMA CountersStep == TypesInv /\ [Next]_vars => Counters'
<1> SUFFICES ASSUME TypesInv, [Next]_vars PROVE Counters'
  OBVIOUS
<1>1. /\ Counters /\ TimeInv /\ clock \in Int /\ MaxTime \in Nat /\ MaxBudget \in Nat
      /\ loop \in [timeout : Int, time : Int] /\ static \in [timeout : Int, last : Int]
  BY DaemonAssumption DEF TypesInv, Counters, TimeInv, TimeTypes
<1>2. CASE World
  <2>1. UNCHANGED timeVars
    BY <1>2, WorldLeaves DEF daemonVars
  <2>2. \/ clock' = clock /\ budget' = budget
        \/ clock' = clock /\ budget > 0 /\ budget' = budget - 1
        \/ clock < MaxTime /\ clock' = clock + 1 /\ budget' = budget
    <3>1. Tick \/ ~Tick => (Tick => clock < MaxTime /\ clock' = clock + 1 /\ budget' = budget)
      BY DEF Tick
    <3>2. ASSUME NEW p \in Devices, NEW c, KeyUp(p, c) PROVE clock' = clock /\ budget' = budget
      BY <3>2 DEF KeyUp
    <3>3. ASSUME NEW p \in Devices, NEW c, KeyDown(p, c)
          PROVE clock' = clock /\ budget > 0 /\ budget' = budget - 1
      BY <3>3 DEF KeyDown, Spend
    <3>4. ASSUME NEW p \in Devices, Plug(p) \/ Unplug(p)
          PROVE clock' = clock /\ budget > 0 /\ budget' = budget - 1
      BY <3>4 DEF Plug, Unplug, Spend
    <3>5. ASSUME NEW p \in Devices, NEW type, Point(p, type)
          PROVE clock' = clock /\ budget > 0 /\ budget' = budget - 1
      BY <3>5 DEF Point, Spend
    <3>6. (\E on \in Leds : Led(on)) \/ (\E f \in Files : Edit(f)) \/ (\E r \in Requests : Ask(r))
          => clock' = clock /\ budget > 0 /\ budget' = budget - 1
      BY DEF Led, Edit, Ask, Spend
    <3> QED BY <1>2, <3>1, <3>2, <3>3, <3>4, <3>5, <3>6 DEF World
  <2> QED BY <1>1, <2>1, <2>2 DEF Counters, timeVars
<1>3. CASE Scan
  <2>1. PICK ts \in GarbageTime : static' = Elapsed(ts)
    BY <1>3 DEF Scan
  <2>2. static'.timeout \in Nat
    BY <1>1, <2>1, DaemonAssumption DEF Elapsed, AtLeast0
  <2> QED BY <1>1, <1>3, <2>2 DEF Scan, Counters, worldVars
<1>4. CASE Manage
  BY <1>1, <1>4, ManageLeaves DEF ManageStep, worldVars, timeVars, Counters
<1>5. CASE Wake
  <2>1. UNCHANGED <<clock, budget>>
    BY <1>5 DEF Wake, WakeForEvents, WakeUnclaimed, WakeForTimeout, WakeFreed, WakeStep, worldVars
  <2>2. CASE WakeForEvents
    <3>1. loop'.timeout \in Nat /\ UNCHANGED static
      BY <1>1, <2>2 DEF WakeForEvents, AtLeast0, Waited
    <3> QED BY <1>1, <2>1, <3>1 DEF Counters
  <2>3. CASE WakeUnclaimed
    <3>1. loop'.timeout \in Nat /\ static'.timeout \in Nat
      BY <1>1, <2>3 DEF WakeUnclaimed, Elapsed, AtLeast0
    <3> QED BY <1>1, <2>1, <3>1 DEF Counters
  <2>4. CASE WakeForTimeout
    <3> DEFINE k == Called(kbd[active_kbd], clock)
    <3>1. active_kbd \in Files
      BY <1>1, <2>4, LiveFile DEF WakeForTimeout
    <3>2. k.due \in Int
      BY <1>1, <3>1, DueIsInt
    <3>3. /\ static' = [timeout |-> Answer(k, clock), last |-> clock]
          /\ loop' = [loop EXCEPT !.timeout = Answer(k, clock), !.time = clock]
      BY <2>4 DEF WakeForTimeout
    <3> HIDE DEF k
    <3>4. loop'.timeout \in Nat /\ static'.timeout \in Nat
      BY <1>1, <3>2, <3>3 DEF Answer
    <3> QED BY <1>1, <2>1, <3>4 DEF Counters
  <2>5. CASE WakeFreed
    <3>1. loop'.timeout \in Nat /\ static'.timeout \in Nat
      BY <1>1, <2>5, DaemonAssumption DEF WakeFreed
    <3> QED BY <1>1, <2>1, <3>1 DEF Counters
  <2> QED BY <1>5, <2>2, <2>3, <2>4, <2>5 DEF Wake
<1>6. CASE Read
  <2>1. UNCHANGED <<clock, budget>>
    BY <1>6, ReadLeaves DEF ReadStep, AllRead, worldVars
  <2>2. \/ UNCHANGED timeVars \/ Unasked
        \/ \E i \in Positions : ReadKey(i) \/ ReadScroll(i)
    BY <1>6 DEF Read, ReadRemoved, ReadDropped, ReadNothing, Panic, ReadMove, ReadUnmanaged, AllRead
  <2>3. ASSUME NEW i \in Positions, ReadKey(i) \/ ReadScroll(i)
        PROVE  loop'.timeout \in Nat /\ static'.timeout \in Nat
    <3> DEFINE f == table[i].data
    <3>1. f \in Files
      BY <1>1, <2>3, LiveFile DEF ReadKey, ReadScroll
    <3>2. PICK e : \/ Answered(f, Typed(kbd[f], e, loop.time))
                   \/ Answered(f, Called(kbd[f], loop.time))
      BY <2>3 DEF ReadKey, ReadScroll, EngineKey
    <3>3. Typed(kbd[f], e, loop.time).due \in Int /\ Called(kbd[f], loop.time).due \in Int
      BY <1>1, <3>1, DueIsInt
    <3> HIDE DEF f
    <3> QED BY <1>1, <3>1, <3>2, <3>3, AnsweredNat
  <2> QED BY <1>1, <2>1, <2>2, <2>3, UnaskedNat DEF Counters, timeVars
<1>7. CASE Serve
  <2>1. UNCHANGED <<clock, budget>> /\ (Unasked \/ UNCHANGED timeVars)
    BY <1>7 DEF Serve, Reload, Reloaded, AddListener, Do, Input, Answering, Accepting, worldVars
  <2> QED BY <1>1, <2>1, UnaskedNat DEF Counters, timeVars
<1>8. CASE Watch
  <2>1. UNCHANGED <<clock, budget>> /\ (Unasked \/ UNCHANGED timeVars)
    BY <1>8 DEF Watch, Opened, TableFull, NotOpened, AllOpened, WatchStep
  <2> QED BY <1>1, <2>1, UnaskedNat DEF Counters, timeVars
<1>9. CASE Turn
  BY <1>1, <1>9 DEF Turn, Counters, worldVars
<1>10. CASE UNCHANGED vars \/ TooManyFound
  BY <1>1, <1>10 DEF vars, TooManyFound, worldVars, timeVars, Counters
<1> QED BY <1>2, <1>3, <1>4, <1>5, <1>6, <1>7, <1>8, <1>9, <1>10 DEF Next, Daemon

\* A keyboard that is asked or active is that of a file.
LEMMA OwnersStep == TypesInv /\ [Next]_vars => Owners'
<1> SUFFICES ASSUME TypesInv, [Next]_vars PROVE Owners'
  OBVIOUS
<1>1. Owners /\ TimeInv /\ Live \subseteq Files
  BY LiveFile DEF TypesInv
<1>2. CASE UNCHANGED engineVars
  BY <1>1, <1>2 DEF Owners, engineVars
<1>3. CASE World \/ Scan \/ Manage \/ Watch \/ Turn
  BY <1>2, <1>3, WorldLeaves, ManageLeaves
     DEF daemonVars, Scan, ManageStep, Watch, Opened, TableFull, NotOpened, AllOpened, WatchStep, Turn
<1>4. CASE Wake
  BY <1>1, <1>4 DEF Wake, WakeForEvents, WakeUnclaimed, WakeForTimeout, WakeFreed, Owners, Keyboards
<1>5. CASE Read
  <2>1. ASSUME NEW i \in Positions, ReadKey(i) \/ ReadScroll(i) \/ ReadMove(i) PROVE Owners'
    <3>1. table[i].data \in Files /\ active_kbd' = table[i].data
      BY <1>1, <2>1 DEF ReadKey, ReadScroll, ReadMove
    <3>2. asker' \in {asker, table[i].data}
      BY <2>1 DEF ReadKey, ReadScroll, ReadMove, EngineKey, Answered
    <3> QED BY <1>1, <3>1, <3>2 DEF Owners, Keyboards
  <2> QED BY <1>2, <1>5, <2>1, ReadLeaves
<1>6. CASE Serve
  <2>1. /\ UNCHANGED asker \/ UNCHANGED engineVars
        /\ UNCHANGED active_kbd \/ active_kbd' \in {NoKbd, Freed} \/ UNCHANGED engineVars
    BY <1>6 DEF Serve, Reload, Reloaded, AddListener, Do, Input, Answering, Accepting
  <2> QED BY <1>1, <2>1 DEF Owners, Keyboards, engineVars
<1>7. CASE UNCHANGED vars \/ TooManyFound
  BY <1>2, <1>7 DEF vars, TooManyFound
<1> QED BY <1>3, <1>4, <1>5, <1>6, <1>7 DEF Next, Daemon

\* The event at the head of a queue is one of the device's.
LEMMA FirstEvent ==
    ASSUME Entries(table), NEW i \in Positions, NEW e, Returned(i, e)
    PROVE  /\ table[i].node \in Devices /\ table[i].queue \in Seq(EventsOf(table[i].node))
           /\ Head(table[i].queue) \in EventsOf(table[i].node)
           /\ Tail(table[i].queue) \in Seq(EventsOf(table[i].node))
           /\ Len(Tail(table[i].queue)) = Len(table[i].queue) - 1 /\ Len(table[i].queue) \in Nat \ {0}
           /\ Again(i) => table[i].node \in AxisDevices
           /\ ~Again(i) => e = Head(table[i].queue)
           /\ Head(table[i].queue).type # "removed"
<1>1. /\ table[i].queue \in Seq(EventsOf(table[i].node)) /\ table[i].node \in Devices
      /\ table[i].queue # <<>>
      /\ e = IF Again(i) THEN devev ELSE Head(table[i].queue)
  BY DEF Entries, IsEntry, Positions, Returned
<1>2. /\ Head(table[i].queue) \in EventsOf(table[i].node)
      /\ Tail(table[i].queue) \in Seq(EventsOf(table[i].node))
      /\ Len(Tail(table[i].queue)) = Len(table[i].queue) - 1 /\ Len(table[i].queue) \in Nat \ {0}
  BY <1>1, HeadTailProperties, LenProperties, EmptySeq
<1>3. /\ Again(i) => table[i].node \in AxisDevices
      /\ Head(table[i].queue).type # "removed"
  BY <1>2 DEF Again, EventsOf, Event
<1> QED BY <1>1, <1>2, <1>3

\* What is read is that event, or the one that was read last.
LEMMA TakenEvent ==
    ASSUME TypesInv, NEW i \in Positions, NEW e, Returned(i, e)
    PROVE  /\ e.down \in BOOLEAN /\ (e.type = "key" => e.code \in ByteCodes)
           /\ e.type = "key" /\ ~Again(i) => e.code \in DeviceKeys[table[i].node]
<1>1. Entries(table) /\ LastEvent
  BY DEF TypesInv, Tables
<1>2. CASE Again(i)
  BY <1>1, <1>2 DEF Returned, LastEvent
<1>3. CASE ~Again(i)
  <2>1. e \in EventsOf(table[i].node) /\ table[i].node \in Devices
    BY <1>1, <1>3, FirstEvent
  <2>2. e.down \in BOOLEAN /\ (e.type = "key" => e.code \in DeviceKeys[table[i].node])
    <3> DEFINE p == table[i].node
    <3>1. CASE e \in [type : {"key"}, code : DeviceKeys[p], down : BOOLEAN]
      BY <3>1
    <3>2. CASE e \in [type : {"move", "scroll", "led"}, code : {0, 1}, down : BOOLEAN]
      BY <3>2
    <3>3. CASE e = [type |-> "axis", code |-> 0, down |-> FALSE]
      BY <3>3
    <3>4. \/ e \in [type : {"key"}, code : DeviceKeys[p], down : BOOLEAN]
          \/ e \in [type : {"move", "scroll", "led"}, code : {0, 1}, down : BOOLEAN]
          \/ e = [type |-> "axis", code |-> 0, down |-> FALSE]
      BY <2>1, Zenon DEF EventsOf, Event
    <3> QED BY <3>1, <3>2, <3>3, <3>4
  <2>3. DeviceKeys[table[i].node] \subseteq ByteCodes
    BY <2>1, DaemonAssumption
  <2> QED BY <2>2, <2>3
<1> QED BY <1>2, <1>3

\* A descriptor is dropped only of a device with such an axis.
LEMMA OnlyAxesDropped == TypesInv => Axial
<1> SUFFICES ASSUME TypesInv, NEW i \in Positions, ReadDropped(i)
             PROVE  table[i].node \in AxisDevices
  BY DEF Axial
<1>1. Returned(i, Removed) /\ Entries(table)
  BY DEF ReadDropped, TypesInv, Tables
<1>2. CASE Again(i)
  BY <1>1, <1>2, FirstEvent
<1>3. CASE ~Again(i)
  BY <1>1, <1>3, FirstEvent DEF Removed, Event
<1> QED BY <1>2, <1>3

LEMMA LastEventStep == TypesInv /\ [Next]_vars => LastEvent'
<1> SUFFICES ASSUME TypesInv, [Next]_vars PROVE LastEvent'
  OBVIOUS
<1>1. CASE UNCHANGED devev
  BY <1>1 DEF TypesInv, LastEvent
<1>2. CASE World \/ Scan \/ Manage \/ Watch \/ Turn \/ UNCHANGED vars \/ TooManyFound
  BY <1>1, <1>2, WorldLeaves, ManageLeaves
     DEF daemonVars, Scan, ManageStep, Watch, Opened, TableFull, NotOpened, AllOpened, WatchStep,
         Turn, vars, TooManyFound, readVars
<1>3. CASE Wake \/ Serve
  BY <1>1, <1>3 DEF Wake, WakeForEvents, WakeUnclaimed, WakeForTimeout, WakeFreed, WakeStep,
                    Serve, Reload, Reloaded, AddListener, Do, Input, Answering, Accepting, readVars
<1>4. CASE Read
  <2>1. ASSUME NEW i \in Positions, NEW e, Returned(i, e) PROVE LastEvent'
    <3>1. devev' = e
      BY <2>1 DEF Returned
    <3> QED BY <2>1, <3>1, TakenEvent DEF LastEvent
  <2>2. ASSUME NEW i \in Positions, ReadRemoved(i) PROVE LastEvent'
    BY <2>2 DEF ReadRemoved, Removed, Event, LastEvent
  <2>3. (\E i \in Positions : ReadNothing(i)) \/ AllRead => UNCHANGED devev
    BY DEF ReadNothing, AllRead, readVars
  <2> QED BY <1>1, <1>4, <2>1, <2>2, <2>3
          DEF Read, ReadDropped, Panic, ReadKey, ReadScroll, ReadMove, ReadUnmanaged, Taken
<1> QED BY <1>2, <1>3, <1>4 DEF Next, Daemon

LEMMA ToldStep == TypesInv /\ [Next]_vars => Told'
<1> SUFFICES ASSUME TypesInv, [Next]_vars PROVE Told'
  OBVIOUS
<1>1. Told /\ Entries(table) /\ MaxListeners \in Nat /\ Len(listeners) \in Nat
  BY DaemonAssumption, LenProperties DEF TypesInv, Told, Tables
<1>2. CASE UNCHANGED listeners
  BY <1>1, <1>2 DEF Told
<1>3. CASE World \/ Scan \/ Manage \/ Wake \/ Watch \/ Turn
  <2>1. Wake => UNCHANGED listeners
    BY DEF Wake, WakeForEvents, WakeUnclaimed, WakeForTimeout, WakeFreed, WakeStep
  <2> QED BY <1>2, <1>3, <2>1, WorldLeaves, ManageLeaves
          DEF daemonVars, Scan, ManageStep, Watch, Opened, TableFull, NotOpened, AllOpened,
              WatchStep, Turn, engineVars
<1>4. CASE Read
  <2>1. ASSUME NEW i \in Positions, ReadKey(i) \/ ReadScroll(i) \/ ReadMove(i) PROVE Told'
    <3>1. CASE UNCHANGED listeners
      BY <1>2, <3>1
    <3>2. CASE ReadKey(i) /\ ~UNCHANGED listeners
      <4>1. PICK e : /\ Taken(i, e)
                     /\ \E n \in 0 .. Len(listeners) : listeners' = [l \in 1 .. n |-> e.down]
        BY <3>2 DEF ReadKey, EngineKey, on_layer_change
      <4>2. PICK n \in 0 .. Len(listeners) : listeners' = [l \in 1 .. n |-> e.down]
        BY <4>1
      <4>3. e.down \in BOOLEAN
        BY <4>1, TakenEvent DEF Taken
      <4>4. n \in Nat /\ n <= Len(listeners) /\ listeners' \in Seq(BOOLEAN) /\ Len(listeners') = n
        BY <1>1, <4>2, <4>3
      <4> QED BY <1>1, <4>4 DEF Told
    <3> QED BY <2>1, <3>1, <3>2 DEF ReadScroll, ReadMove
  <2> QED BY <1>2, <1>4, <2>1, ReadLeaves DEF engineVars
<1>5. CASE Serve
  <2>1. CASE AddListener
    <3>1. PICK view \in BOOLEAN : listeners' = IF Len(listeners) < MaxListeners
                                               THEN Append(listeners, view) ELSE listeners
      BY <2>1 DEF AddListener
    <3>2. /\ Append(listeners, view) \in Seq(BOOLEAN)
          /\ Len(Append(listeners, view)) = Len(listeners) + 1
      BY <1>1, AppendProperties DEF Told
    <3>3. CASE listeners' = listeners
      BY <1>2, <3>3
    <3>4. CASE Len(listeners) < MaxListeners /\ listeners' = Append(listeners, view)
      <4>1. Len(listeners') = Len(listeners) + 1 /\ listeners' \in Seq(BOOLEAN)
        BY <3>2, <3>4
      <4>2. Len(listeners') <= MaxListeners
        BY <1>1, <3>4, <4>1
      <4> QED BY <4>1, <4>2 DEF Told
    <3> QED BY <3>1, <3>3, <3>4
  <2>2. CASE Reload \/ Reloaded \/ Do \/ Input
    BY <1>2, <2>2 DEF Reload, Reloaded, Do, Input, engineVars
  <2> QED BY <1>5, <2>1, <2>2 DEF Serve
<1>6. CASE UNCHANGED vars \/ TooManyFound
  BY <1>2, <1>6 DEF vars, TooManyFound, engineVars
<1> QED BY <1>3, <1>4, <1>5, <1>6 DEF Next, Daemon

\* A table whose entries keep their devices and get no event they cannot have.
LEMMA SameEntries ==
    ASSUME TypesInv, DOMAIN table' = DOMAIN table, Len(table') = Len(table),
           \A i \in DOMAIN table :
              /\ IsEntry(table'[i]) /\ table'[i].node = table[i].node
              /\ table'[i].queue \in Seq(EventsOf(table[i].node)) /\ Len(table'[i].queue) \in Nat
    PROVE  Tables'
BY DEF TypesInv, Tables, Entries, IsEntry, Keyboards

LEMMA OneEntryChanges ==
    ASSUME TypesInv, NEW i \in DOMAIN table, NEW e, table' = [table EXCEPT ![i] = e],
           IsEntry(e), e.node = table[i].node,
           e.queue \in Seq(EventsOf(table[i].node)), Len(e.queue) \in Nat
    PROVE  Tables'
<1>1. Entries(table) /\ IsTable(table)
  BY DEF TypesInv, Tables, DeviceInv, PointerInv
<1>2. Len(table) \in Nat /\ DOMAIN table = 1 .. Len(table)
  BY <1>1, TableIsFunction
<1>3. /\ DOMAIN table' = DOMAIN table /\ table'[i] = e
      /\ \A j \in DOMAIN table \ {i} : table'[j] = table[j]
      /\ table' = [j \in 1 .. Len(table) |-> table'[j]]
  BY <1>2
<1>4. Len(table') = Len(table)
  BY <1>2, <1>3
<1> QED BY <1>1, <1>3, <1>4, SameEntries DEF Entries

\* A list of new entries, and those that stay.
LEMMA FreshEntry ==
    ASSUME NEW p \in Devices
    PROVE  LET e == NewEntry(p) IN
           /\ IsEntry(e) /\ e.node = p /\ e.queue \in Seq(EventsOf(p)) /\ Len(e.queue) \in Nat
<1>1. Len(<<>>) = 0 /\ 0 <= MaxQueue
  BY DaemonAssumption
<1> QED BY <1>1 DEF NewEntry, IsEntry, Keyboards

LEMMA DeliverTables ==
    ASSUME TypesInv, NEW p \in Devices, NEW e \in EventsOf(p), Room(p), Deliver(p, e)
    PROVE  Tables'
<1>1. Entries(table) /\ IsTable(table)
  BY DEF TypesInv, Tables, DeviceInv, PointerInv
<1>2. Len(table) \in Nat /\ DOMAIN table = 1 .. Len(table) /\ \A i \in DOMAIN table : DOMAIN table[i] = Fields
  BY <1>1, TableIsFunction
<1>3. /\ DOMAIN table' = 1 .. Len(table) /\ table' = [i \in 1 .. Len(table) |-> table'[i]]
      /\ \A i \in DOMAIN table :
            table'[i] = IF Receives(i, p) THEN [table[i] EXCEPT !.queue = Append(@, e)] ELSE table[i]
  BY <1>2 DEF Deliver, Positions
<1>4. Len(table') = Len(table)
  BY <1>2, <1>3
<1>5. ASSUME NEW i \in DOMAIN table
      PROVE  /\ IsEntry(table'[i]) /\ table'[i].node = table[i].node
             /\ table'[i].queue \in Seq(EventsOf(table[i].node)) /\ Len(table'[i].queue) \in Nat
  <2>1. CASE ~Receives(i, p)
    BY <1>1, <1>3, <2>1 DEF Entries
  <2>2. CASE Receives(i, p)
    <3> DEFINE q == table[i].queue
               n == [table[i] EXCEPT !.queue = Append(q, e)]
    <3>1. /\ table[i].node = p /\ table[i].fd = "open" /\ q \in Seq(EventsOf(p)) /\ Len(q) \in Nat
          /\ Len(q) < MaxQueue /\ table'[i] = n /\ MaxQueue \in Nat
      BY <1>1, <1>3, <2>2, DaemonAssumption DEF Entries, Receives, Through, Room, Positions
    <3>2. Append(q, e) \in Seq(EventsOf(p)) /\ Len(Append(q, e)) = Len(q) + 1
      BY <3>1, AppendProperties
    <3>3. /\ n.node = table[i].node /\ n.fd = table[i].fd /\ n.grabbed = table[i].grabbed
          /\ n.data = table[i].data /\ n.queue = Append(q, e)
      BY <1>2 DEF Fields
    <3> HIDE DEF n, q
    <3>4. IsEntry(n)
      BY <1>1, <3>1, <3>2, <3>3 DEF IsEntry, Entries
    <3>5. Len(Append(q, e)) \in Nat
      BY <3>1, <3>2
    <3> QED BY <3>1, <3>2, <3>3, <3>4, <3>5
  <2> QED BY <2>1, <2>2
<1> QED BY <1>2, <1>3, <1>4, <1>5, SameEntries

LEMMA WorldTables == TypesInv /\ World => Tables'
<1> SUFFICES ASSUME TypesInv, World PROVE Tables'
  OBVIOUS
<1>1. Entries(table) /\ IsTable(table) /\ Tables
  BY DEF TypesInv, Tables, DeviceInv, PointerInv
<1>2. Len(table) \in Nat /\ DOMAIN table = 1 .. Len(table) /\ \A i \in DOMAIN table : DOMAIN table[i] = Fields
  BY <1>1, TableIsFunction
<1>3. CASE UNCHANGED table
  BY <1>1, <1>3 DEF Tables, Entries, IsEntry, Keyboards
<1>4. ASSUME NEW p \in Devices, Unplug(p) PROVE Tables'
  <2>1. /\ DOMAIN table' = 1 .. Len(table) /\ table' = [i \in 1 .. Len(table) |-> table'[i]]
        /\ \A i \in DOMAIN table :
              table'[i] = IF table[i].node = p /\ table[i].fd = "open"
                          THEN [table[i] EXCEPT !.fd = "dead", !.queue = <<>>] ELSE table[i]
    BY <1>2, <1>4 DEF Unplug, Through, Positions
  <2>2. Len(table') = Len(table)
    BY <1>2, <2>1, FunctionIsSequence
  <2>3. ASSUME NEW i \in DOMAIN table
        PROVE  /\ IsEntry(table'[i]) /\ table'[i].node = table[i].node
               /\ table'[i].queue \in Seq(EventsOf(table[i].node)) /\ Len(table'[i].queue) \in Nat
    <3>1. CASE ~(table[i].node = p /\ table[i].fd = "open")
      BY <1>1, <2>1, <3>1 DEF Entries
    <3>2. CASE table[i].node = p /\ table[i].fd = "open"
      <4> DEFINE n == [table[i] EXCEPT !.fd = "dead", !.queue = <<>>]
      <4>1. /\ n.node = table[i].node /\ n.fd = "dead" /\ n.grabbed = table[i].grabbed
            /\ n.data = table[i].data /\ n.queue = <<>> /\ table'[i] = n
        BY <1>2, <2>1, <3>2 DEF Fields
      <4> HIDE DEF n
      <4>2. Len(<<>>) = 0 /\ 0 <= MaxQueue
        BY DaemonAssumption
      <4>3. IsEntry(n)
        BY <1>1, <4>1, <4>2 DEF IsEntry, Entries
      <4>4. n.queue \in Seq(EventsOf(table[i].node)) /\ Len(n.queue) \in Nat
        BY <4>1, <4>2
      <4> QED BY <4>1, <4>3, <4>4
    <3> QED BY <3>1, <3>2
  <2> QED BY <1>2, <2>1, <2>2, <2>3, SameEntries
<1>5. ASSUME NEW p \in Devices, NEW c \in DeviceKeys[p], KeyDown(p, c) \/ KeyUp(p, c)
      PROVE  Tables'
  <2>1. PICK b \in BOOLEAN : Room(p) /\ Deliver(p, Event("key", c, b))
    BY <1>5 DEF KeyDown, KeyUp
  <2>2. Event("key", c, b) \in EventsOf(p)
    BY DEF Event, EventsOf
  <2> QED BY <2>1, <2>2, DeliverTables
<1>6. ASSUME NEW p \in Devices, NEW type \in {"move", "scroll", "axis"}, Point(p, type)
      PROVE  Tables'
  <2>1. Room(p) /\ Deliver(p, Event(type, 0, FALSE)) /\ (type = "axis" => p \in AxisDevices)
    BY <1>6 DEF Point
  <2>2. Event(type, 0, FALSE) \in EventsOf(p)
    BY <2>1 DEF Event, EventsOf
  <2> QED BY <2>1, <2>2, DeliverTables
<1>7. ASSUME NEW on \in Leds, Led(on) PROVE Tables'
  <2>1. Room(VirtualDevice) /\ Deliver(VirtualDevice, Event("led", 1, on))
    BY <1>7 DEF Led
  <2>2. Event("led", 1, on) \in EventsOf(VirtualDevice) /\ VirtualDevice \in Devices
    BY DaemonAssumption DEF Event, EventsOf
  <2> QED BY <2>1, <2>2, DeliverTables
<1>8. (\E p \in Devices : Plug(p)) \/ (\E f \in Files : Edit(f)) \/ (\E r \in Requests : Ask(r)) \/ Tick
      => UNCHANGED table
  BY DEF Plug, Edit, Ask, Tick
<1> QED BY <1>3, <1>4, <1>5, <1>6, <1>7, <1>8 DEF World

LEMMA ClaimIsKeyboard == ASSUME TypesInv, NEW p PROVE Claim(p) \in Keyboards
<1>1. InUse(Claim(p)) /\ Live \subseteq Files
  BY ClaimInUse, LiveFile DEF TypesInv, DeviceInv, PointerInv
<1> QED BY <1>1 DEF InUse, Keyboards

LEMMA ManageTables == TypesInv /\ Manage => Tables'
<1> SUFFICES ASSUME TypesInv, Manage PROVE Tables'
  OBVIOUS
<1> DEFINE m == Managed
<1>1. /\ Entries(table) /\ IsTable(table) /\ Tables
      /\ managing # <<>> => m \in DOMAIN table
  BY HeadAndRest DEF TypesInv, Tables, DeviceInv, PointerInv, Control, Positions, Managed
<1>2. /\ \A i \in DOMAIN table : /\ DOMAIN table[i] = Fields /\ IsEntry(table[i])
                                 /\ table[i].queue \in Seq(EventsOf(table[i].node))
                                 /\ Len(table[i].queue) \in Nat
      /\ Claim(table[m].node) \in Keyboards /\ NoKbd \in Keyboards
  BY <1>1, TableIsFunction, ClaimIsKeyboard DEF Entries, Keyboards
<1>3. CASE UNCHANGED table
  BY <1>1, <1>3 DEF Tables, Entries, IsEntry, Keyboards
<1>4. CASE Ignore /\ ~IsVirtual(m)
  <2> DEFINE e == [table[m] EXCEPT !.data = NoKbd, !.grabbed = @ /\ table[m].fd # "open"]
  <2>1. m \in DOMAIN table /\ table' = [table EXCEPT ![m] = e]
    BY <1>1, <1>4 DEF Ignore, Managing
  <2>2. /\ e.node = table[m].node /\ e.fd = table[m].fd /\ e.data = NoKbd /\ e.queue = table[m].queue
        /\ e.grabbed \in BOOLEAN
    BY <1>2, <2>1 DEF Fields
  <2> HIDE DEF e
  <2>3. IsEntry(e)
    BY <1>2, <2>1, <2>2 DEF IsEntry
  <2> QED BY <1>2, <2>1, <2>2, <2>3, OneEntryChanges
<1>5. CASE Keep
  <2> DEFINE e == [table[m] EXCEPT !.data = Claim(table[m].node)]
  <2>1. m \in DOMAIN table /\ table' = [table EXCEPT ![m] = e]
    BY <1>1, <1>5 DEF Keep, Managing
  <2>2. /\ e.node = table[m].node /\ e.fd = table[m].fd /\ e.data = Claim(table[m].node)
        /\ e.queue = table[m].queue /\ e.grabbed = table[m].grabbed
    BY <1>2, <2>1 DEF Fields
  <2> HIDE DEF e
  <2>3. IsEntry(e)
    BY <1>2, <2>1, <2>2 DEF IsEntry
  <2> QED BY <1>2, <2>1, <2>2, <2>3, OneEntryChanges
<1>6. CASE Grab
  <2> DEFINE taken == [table[m] EXCEPT !.grabbed = TRUE, !.data = Claim(table[m].node), !.queue = <<>>]
             left == [table[m] EXCEPT !.data = NoKbd]
  <2>1. m \in DOMAIN table
    BY <1>1, <1>6 DEF Grab, TypesInv, DeviceInv, PointerInv, Grabbing
  <2>2. table' = [table EXCEPT ![m] = taken] \/ table' = [table EXCEPT ![m] = left]
    BY <1>6, <2>1 DEF Grab
  <2>3. /\ taken.node = table[m].node /\ taken.fd = table[m].fd /\ taken.queue = <<>>
        /\ taken.data = Claim(table[m].node) /\ taken.grabbed = TRUE
        /\ left.node = table[m].node /\ left.fd = table[m].fd /\ left.queue = table[m].queue
        /\ left.data = NoKbd /\ left.grabbed = table[m].grabbed
    BY <1>2, <2>1 DEF Fields
  <2> HIDE DEF taken, left
  <2>4. Len(<<>>) = 0 /\ 0 <= MaxQueue
    BY DaemonAssumption
  <2>5. IsEntry(taken) /\ IsEntry(left)
    BY <1>2, <2>1, <2>3, <2>4 DEF IsEntry
  <2>6. taken.queue \in Seq(EventsOf(table[m].node)) /\ Len(taken.queue) \in Nat
    BY <2>3, <2>4
  <2> QED BY <1>2, <2>1, <2>2, <2>3, <2>5, <2>6, OneEntryChanges
<1>7. (Ignore /\ IsVirtual(m)) \/ AwaitNeutral \/ AllManaged => UNCHANGED table
  BY DEF Ignore, AwaitNeutral, AllManaged
<1> QED BY <1>3, <1>4, <1>5, <1>6, <1>7 DEF Manage

LEMMA ReadTables == TypesInv /\ Read => Tables'
<1> SUFFICES ASSUME TypesInv, Read PROVE Tables'
  OBVIOUS
<1>1. Entries(table) /\ IsTable(table) /\ Tables
  BY DEF TypesInv, Tables, DeviceInv, PointerInv
<1>2. \A i \in DOMAIN table : /\ DOMAIN table[i] = Fields /\ IsEntry(table[i])
                              /\ table[i].queue \in Seq(EventsOf(table[i].node))
                              /\ Len(table[i].queue) \in Nat
  BY <1>1, TableIsFunction DEF Entries
<1>3. CASE UNCHANGED table
  BY <1>1, <1>3 DEF Tables, Entries, IsEntry, Keyboards
<1>4. ASSUME NEW i \in Positions, NEW ev, Taken(i, ev) PROVE Tables'
  <2> DEFINE e == [table[i] EXCEPT !.queue = Tail(@)]
  <2>1. i \in DOMAIN table /\ table' = [table EXCEPT ![i] = e] /\ table[i].fd = "open"
    BY <1>2, <1>4 DEF Taken, Returned, Positions
  <2>2. /\ e.node = table[i].node /\ e.fd = table[i].fd /\ e.data = table[i].data
        /\ e.queue = Tail(table[i].queue) /\ e.grabbed = table[i].grabbed
    BY <1>2, <2>1 DEF Fields
  <2> HIDE DEF e
  <2>3. /\ e.queue \in Seq(EventsOf(table[i].node)) /\ Len(e.queue) = Len(table[i].queue) - 1
        /\ Len(table[i].queue) \in Nat \ {0}
    BY <1>1, <1>4, <2>2, FirstEvent DEF Taken
  <2>4. IsEntry(e) /\ Len(e.queue) \in Nat
    BY <1>2, <2>1, <2>2, <2>3, DaemonAssumption DEF IsEntry
  <2> QED BY <2>1, <2>2, <2>3, <2>4, OneEntryChanges
<1>5. ASSUME NEW i \in Positions, ReadRemoved(i) PROVE Tables'
  <2> DEFINE e == [table[i] EXCEPT !.fd = "closed"]
  <2>1. i \in DOMAIN table /\ table' = [table EXCEPT ![i] = e] /\ table[i].fd = "dead"
    BY <1>2, <1>5 DEF ReadRemoved, Positions
  <2>2. /\ e.node = table[i].node /\ e.fd = "closed" /\ e.data = table[i].data
        /\ e.queue = table[i].queue /\ e.grabbed = table[i].grabbed
    BY <1>2, <2>1 DEF Fields
  <2> HIDE DEF e
  <2>3. IsEntry(e)
    BY <1>2, <2>1, <2>2 DEF IsEntry
  <2> QED BY <1>2, <2>1, <2>2, <2>3, OneEntryChanges
<1>7. ASSUME NEW i \in Positions, ReadDropped(i) PROVE Tables'
  <2> DEFINE e == [table[i] EXCEPT !.fd = "closed", !.queue = <<>>]
  <2>1. i \in DOMAIN table /\ table' = [table EXCEPT ![i] = e]
    BY <1>2, <1>7 DEF ReadDropped, Positions
  <2>2. /\ e.node = table[i].node /\ e.fd = "closed" /\ e.data = table[i].data
        /\ e.queue = <<>> /\ e.grabbed = table[i].grabbed
    BY <1>2, <2>1 DEF Fields
  <2> HIDE DEF e
  <2>3. Len(<<>>) = 0 /\ 0 <= MaxQueue
    BY DaemonAssumption
  <2>4. IsEntry(e)
    BY <1>2, <2>1, <2>2, <2>3 DEF IsEntry
  <2>5. e.queue \in Seq(EventsOf(table[i].node)) /\ Len(e.queue) \in Nat
    BY <2>2, <2>3
  <2> QED BY <2>1, <2>2, <2>4, <2>5, OneEntryChanges
<1>6. (\E i \in Positions : ReadNothing(i)) \/ AllRead => UNCHANGED table
  BY DEF ReadNothing, AllRead
<1> QED BY <1>3, <1>4, <1>5, <1>6, <1>7 DEF Read, Panic, ReadKey, ReadScroll, ReadMove, ReadUnmanaged

LEMMA ServeTables == TypesInv /\ Serve => Tables'
<1> SUFFICES ASSUME TypesInv, Serve PROVE Tables'
  OBVIOUS
<1>1. Entries(table) /\ IsTable(table) /\ Tables
  BY DEF TypesInv, Tables, DeviceInv, PointerInv
<1>2. /\ Len(table) \in Nat /\ DOMAIN table = 1 .. Len(table)
      /\ \A i \in DOMAIN table : DOMAIN table[i] = Fields
  BY <1>1, TableIsFunction
<1>3. CASE Reload
  <2> DEFINE freed(i) == [table[i] EXCEPT !.data = Freed]
  <2>1. /\ DOMAIN table' = 1 .. Len(table) /\ table' = [i \in 1 .. Len(table) |-> table'[i]]
        /\ \A i \in DOMAIN table : table'[i] = table[i] \/ table'[i] = freed(i)
    BY <1>2, <1>3 DEF Reload, Positions
  <2>2. Len(table') = Len(table)
    BY <1>2, <2>1, FunctionIsSequence
  <2>3. ASSUME NEW i \in DOMAIN table
        PROVE  /\ freed(i).node = table[i].node /\ freed(i).fd = table[i].fd
               /\ freed(i).queue = table[i].queue /\ freed(i).data = Freed
               /\ freed(i).grabbed = table[i].grabbed
    BY <1>2 DEF Fields
  <2> HIDE DEF freed
  <2>4. \A i \in DOMAIN table : IsEntry(freed(i))
    BY <1>1, <2>3 DEF Entries, IsEntry, Keyboards
  <2>5. ASSUME NEW i \in DOMAIN table
        PROVE  /\ IsEntry(table'[i]) /\ table'[i].node = table[i].node
               /\ table'[i].queue \in Seq(EventsOf(table[i].node)) /\ Len(table'[i].queue) \in Nat
    <3>1. CASE table'[i] = table[i]
      BY <1>1, <3>1 DEF Entries
    <3>2. CASE table'[i] = freed(i)
      BY <1>1, <2>3, <2>4, <3>2 DEF Entries
    <3> QED BY <2>1, <3>1, <3>2
  <2> QED BY <1>2, <2>1, <2>2, <2>5, SameEntries
<1>4. CASE Reloaded \/ AddListener \/ Do \/ Input
  <2>1. UNCHANGED table
    BY <1>4 DEF Reloaded, AddListener, Do, Input, Answering
  <2> QED BY <1>1, <2>1 DEF Tables, Entries, IsEntry, Keyboards
<1> QED BY <1>3, <1>4 DEF Serve

LEMMA WatchTables == TypesInv /\ Watch => Tables'
<1> SUFFICES ASSUME TypesInv, Watch PROVE Tables'
  OBVIOUS
<1>1. Entries(table) /\ IsTable(table) /\ Tables
  BY DEF TypesInv, Tables, DeviceInv, PointerInv
<1>2. /\ Len(table) \in Nat /\ DOMAIN table = 1 .. Len(table) /\ MaxDevices \in Nat
  BY <1>1, TableIsFunction, DaemonAssumption
<1>3. CASE Opened
  <2> DEFINE e == NewEntry(Head(announced))
  <2>1. /\ announced # <<>> /\ table' = Append(table, e) /\ Len(table) < MaxDevices
    BY <1>3 DEF Opened
  <2>2. Head(announced) \in Devices
    BY <2>1, HeadAndRest DEF TypesInv, DeviceInv, Tracked
  <2>3. /\ IsEntry(e) /\ e.node = Head(announced)
        /\ e.queue \in Seq(EventsOf(e.node)) /\ Len(e.queue) \in Nat
    BY <2>2, FreshEntry
  <2> HIDE DEF e
  <2>4. table \in Seq(Range(table) \cup {e}) /\ e \in Range(table) \cup {e}
    BY <1>1, SeqMonotonic DEF IsTable
  <2>5. /\ Len(table') = Len(table) + 1 /\ table' \in Seq(Range(table) \cup {e})
        /\ \A i \in 1 .. Len(table) : table'[i] = table[i]
        /\ table'[Len(table) + 1] = e
    BY <2>1, <2>4, AppendProperties
  <2>6. DOMAIN table' = 1 .. Len(table) + 1
    BY <2>5, LenProperties
  <2>7. \A i \in DOMAIN table' : i \in DOMAIN table \/ i = Len(table) + 1
    BY <1>2, <2>6
  <2>8. Entries(table')
    BY <1>1, <1>2, <2>3, <2>5, <2>7 DEF Entries
  <2>9. Len(table') <= MaxDevices
    BY <1>2, <2>1, <2>5
  <2> QED BY <2>8, <2>9 DEF Tables, Entries, IsEntry, Keyboards
<1>4. CASE TableFull \/ NotOpened \/ AllOpened
  <2>1. UNCHANGED table
    BY <1>4 DEF TableFull, NotOpened, AllOpened
  <2> QED BY <1>1, <2>1 DEF Tables, Entries, IsEntry, Keyboards
<1> QED BY <1>3, <1>4 DEF Watch

LEMMA ScanTables == TypesInv /\ Scan => Tables'
<1> SUFFICES ASSUME TypesInv, Scan PROVE Tables'
  OBVIOUS
<1>1. PICK order \in Orders(plugged) : table' = [i \in DOMAIN order |-> NewEntry(order[i])]
  BY DEF Scan
<1>2. plugged \subseteq Devices /\ IsFiniteSet(plugged) /\ Cardinality(plugged) <= MaxDevices
  BY DaemonAssumption, FS_Subset DEF Scan, TypesInv, DeviceInv, PointerInv, Finite
<1>3. /\ Cardinality(plugged) \in Nat /\ DOMAIN order = 1 .. Cardinality(plugged)
      /\ \A i \in DOMAIN order : order[i] \in Devices
  BY <1>2, OrdersAreSequences
<1>4. /\ DOMAIN table' = 1 .. Cardinality(plugged) /\ table' = [i \in DOMAIN table' |-> table'[i]]
      /\ \A i \in DOMAIN table' : i \in DOMAIN order /\ table'[i] = NewEntry(order[i])
  BY <1>1, <1>3
<1>5. Len(table') = Cardinality(plugged)
  BY <1>3, <1>4, FunctionIsSequence
<1>6. Entries(table')
  <2> SUFFICES ASSUME NEW i \in DOMAIN table'
               PROVE  /\ IsEntry(table'[i]) /\ table'[i].queue \in Seq(EventsOf(table'[i].node))
                      /\ Len(table'[i].queue) \in Nat
    BY DEF Entries
  <2> DEFINE e == NewEntry(order[i])
  <2>1. IsEntry(e) /\ e.queue \in Seq(EventsOf(e.node)) /\ Len(e.queue) \in Nat
    BY <1>3, <1>4, FreshEntry
  <2> HIDE DEF e
  <2>2. table'[i] = e
    BY <1>4 DEF e
  <2> QED BY <2>1, <2>2
<1> QED BY <1>2, <1>5, <1>6 DEF Tables, Entries, IsEntry, Keyboards

LEMMA CountUpTo ==
    ASSUME NEW n \in Nat
    PROVE  IsFiniteSet(1 .. n) /\ Cardinality(1 .. n) = n
<1>1. IsFiniteSet(1 .. n) /\ Cardinality(1 .. n) = IF 1 > n THEN 0 ELSE n - 1 + 1
  BY FS_Interval
<1> DEFINE size == Cardinality(1 .. n)
<1>2. size = IF 1 > n THEN 0 ELSE n - 1 + 1
  BY <1>1
<1> HIDE DEF size
<1>3. size = n
  BY <1>2
<1> QED BY <1>1, <1>3 DEF size

LEMMA TurnTables == TypesInv /\ Turn => Tables'
<1> SUFFICES ASSUME TypesInv, Turn PROVE Tables'
  OBVIOUS
<1> DEFINE open == {i \in Positions : table[i].fd # "closed"}
<1>1. /\ Entries(table) /\ Len(table) \in Nat /\ DOMAIN table = 1 .. Len(table)
      /\ Len(table) <= MaxDevices /\ MaxDevices \in Nat
  BY TableIsFunction, DaemonAssumption DEF TypesInv, DeviceInv, PointerInv, Tables
<1>2. PICK stay \in Orders(open) : table' = [i \in DOMAIN stay |-> table[stay[i]]]
  BY DEF Turn
<1>3. IsFiniteSet(open) /\ Cardinality(open) <= Len(table)
  <2>1. open \subseteq 1 .. Len(table)
    BY <1>1 DEF Positions
  <2>2. IsFiniteSet(1 .. Len(table)) /\ Cardinality(1 .. Len(table)) = Len(table)
    BY <1>1, CountUpTo
  <2> HIDE DEF open
  <2> QED BY <2>1, <2>2, FS_Subset
<1>4. /\ Cardinality(open) \in Nat /\ DOMAIN stay = 1 .. Cardinality(open)
      /\ \A i \in DOMAIN stay : stay[i] \in DOMAIN table
  BY <1>3, OrdersAreSequences DEF Positions
<1> HIDE DEF open
<1>5. /\ DOMAIN table' = 1 .. Cardinality(open) /\ table' = [i \in DOMAIN table' |-> table'[i]]
      /\ \A i \in DOMAIN table' : i \in DOMAIN stay /\ table'[i] = table[stay[i]]
  BY <1>2, <1>4
<1>6. Len(table') = Cardinality(open)
  BY <1>4, <1>5, FunctionIsSequence
<1>7. Entries(table')
  BY <1>1, <1>4, <1>5 DEF Entries
<1>8. Len(table') <= MaxDevices
  BY <1>1, <1>3, <1>4, <1>6
<1> QED BY <1>7, <1>8 DEF Tables, Entries, IsEntry, Keyboards

\* No queue and no table is ever longer than the bounds say, and the table
\* holds entries.
LEMMA TablesStep == TypesInv /\ [Next]_vars => Tables'
<1>1. TypesInv /\ (UNCHANGED vars \/ TooManyFound \/ Wake) => Tables'
  <2> SUFFICES ASSUME TypesInv, UNCHANGED table PROVE Tables'
    BY DEF vars, TooManyFound, Wake, WakeForEvents, WakeUnclaimed, WakeForTimeout, WakeFreed, WakeStep
  <2> QED BY DEF TypesInv, Tables, Entries, IsEntry, Keyboards
<1> QED BY <1>1, WorldTables, ScanTables, ManageTables, ReadTables, ServeTables, WatchTables,
           TurnTables DEF Next, Daemon

-----------------------------------------------------------------------------
(* Keys.                                                                    *)

\* Macros and texts let go of every key they press.
LEMMA OutputsRelease ==
    ASSUME NEW down
    PROVE  /\ DoMacro.ok => Play(DoOutputs, down) = down \ {DoOutputs[i].code : i \in DOMAIN DoOutputs}
           /\ Play(InputOutputs, down) \subseteq down
<1>1. ASSUME DoMacro.ok
      PROVE  Play(DoOutputs, down) = down \ {DoOutputs[i].code : i \in DOMAIN DoOutputs}
  <2>1. IsExpression(MacroTokens) /\ macro_parse(MacroTokens).ok
    BY <1>1, DaemonAssumption DEF DoMacro
  <2> DEFINE outputs == macro_execute(macro_parse(MacroTokens).entries)
  <2>2. Play(outputs, down) = down \ {outputs[i].code : i \in DOMAIN outputs}
    BY <2>1, MacroReleases
  <2>3. DoOutputs = outputs
    BY DEF DoOutputs, DoMacro
  <2> HIDE DEF outputs
  <2> QED BY <2>2, <2>3
<1>2. Play(InputOutputs, down) \subseteq down
  <2>1. Len(InputCodes) \in Nat /\ DOMAIN InputCodes = 1 .. Len(InputCodes)
    BY DaemonAssumption, SequenceDomain
  <2> DEFINE out == FlattenSeq([i \in 1 .. Len(InputCodes) |-> TapOf(InputCodes[i])])
  <2>2. IsSequence(out) /\ AllReleased(out)
    BY <2>1, TapsRelease
  <2>3. InputOutputs = out
    BY <2>1 DEF InputOutputs
  <2> HIDE DEF out
  <2> QED BY <2>2, <2>3, PlayReleases
<1> QED BY <1>1, <1>2

LEMMA OutputsStep == TypesInv /\ KeysInv /\ [Next]_vars => Outputs'
<1> SUFFICES ASSUME TypesInv, KeysInv, [Next]_vars PROVE Outputs'
  OBVIOUS
<1>1. Outputs /\ Entries(table)
  BY DEF TypesInv, Tables
<1>2. CASE UNCHANGED outVars
  BY <1>1, <1>2 DEF Outputs, outVars
<1>3. CASE World \/ Scan \/ Manage \/ Wake \/ Watch \/ Turn
  BY <1>2, <1>3, WorldLeaves, ManageLeaves
     DEF daemonVars, Scan, ManageStep, Wake, WakeForEvents, WakeUnclaimed, WakeForTimeout, WakeFreed,
         WakeStep, Watch, Opened, TableFull, NotOpened, AllOpened, WatchStep, Turn
<1>4. CASE Read
  <2>1. ASSUME NEW i \in Positions, ReadKey(i) PROVE Outputs'
    <3>1. PICK e : Taken(i, e) /\ e.type = "key"
                   /\ (UNCHANGED outVars \/ send_key(e.code, e.down))
      BY <2>1 DEF ReadKey, EngineKey
    <3>2. e.code \in ByteCodes
      BY <3>1, TakenEvent DEF Taken
    <3> QED BY <1>1, <1>2, <3>1, <3>2 DEF send_key, Outputs
  <2> QED BY <1>2, <1>4, <2>1, ReadLeaves DEF ReadScroll, ReadMove
<1>5. CASE Serve
  <2>1. CASE Do
    <3>1. UNCHANGED outVars \/ (keystate' \subseteq keystate /\ vk' \subseteq vk)
      BY <2>1, OutputsRelease DEF Do
    <3> QED BY <1>1, <1>2, <3>1 DEF Outputs
  <2>2. CASE Input
    <3>1. UNCHANGED keystate /\ vk' \subseteq vk
      BY <2>2, OutputsRelease DEF Input
    <3> QED BY <1>1, <3>1 DEF Outputs
  <2>3. CASE Reloaded
    BY <1>1, <2>3 DEF Reloaded, Outputs
  <2>4. CASE Reload \/ AddListener
    BY <1>2, <2>4 DEF Reload, AddListener
  <2> QED BY <1>5, <2>1, <2>2, <2>3, <2>4 DEF Serve
<1>6. CASE UNCHANGED vars \/ TooManyFound
  BY <1>2, <1>6 DEF vars, TooManyFound
<1> QED BY <1>3, <1>4, <1>5, <1>6 DEF Next, Daemon

\* A step that tells nobody of a key and leaves the keyboards in use theirs.
LEMMA SameKeys ==
    ASSUME KeysInv, UNCHANGED <<outVars, configs>>, KbdShape', Returning',
           \A f \in Live : kbd'[f].down = kbd[f].down,
           Reloading => Reloading'
    PROVE  KeysInv'
<1>1. DownSomewhere' = DownSomewhere
  BY DEF DownSomewhere, Live
<1> QED BY <1>1 DEF KeysInv, outVars

LEMMA ReadKeepsKeys == TypesInv /\ KeysInv /\ Read => KeysInv'
<1> SUFFICES ASSUME TypesInv, KeysInv, Read PROVE KeysInv'
  OBVIOUS
<1>1. /\ Entries(table) /\ TimeInv /\ Live \subseteq Files /\ DOMAIN kbd = Files
      /\ KbdShape /\ Returning
  BY LiveFile DEF TypesInv, Tables, KeysInv, TimeInv, TimeTypes
<1>2. /\ pc = "read" /\ pc' \in {"read", "accept", "watch", "turn"}
      /\ UNCHANGED <<return, configs>>
  BY DEF Read, ReadRemoved, ReadDropped, ReadNothing, Panic, ReadKey, ReadScroll, ReadMove,
         ReadUnmanaged, Taken, Returned, Reading, ReadStep, AllRead, AfterRequests
<1>3. Returning' /\ ~Reloading
  BY <1>1, <1>2 DEF Returning, Reloading
<1>4. CASE UNCHANGED <<outVars, kbd>>
  BY <1>1, <1>2, <1>3, <1>4, SameKeys DEF KbdShape
<1>5. ASSUME NEW i \in Positions, ReadScroll(i) PROVE KeysInv'
  <2> DEFINE f == table[i].data
             k == Called(kbd[f], loop.time)
  <2>1. UNCHANGED outVars /\ f \in Live /\ kbd' = [kbd EXCEPT ![f] = k]
    BY <1>5 DEF ReadScroll, Answered
  <2>2. DOMAIN k = {"down", "due"} /\ k.down = kbd[f].down
    BY <1>1, <2>1 DEF Called, KbdShape
  <2> HIDE DEF f, k
  <2>3. KbdShape' /\ \A g \in Live : kbd'[g].down = kbd[g].down
    BY <1>1, <2>1, <2>2 DEF KbdShape
  <2> QED BY <1>2, <1>3, <2>1, <2>3, SameKeys
<1>6. ASSUME NEW i \in Positions, ReadKey(i) PROVE KeysInv'
  <2> DEFINE f == table[i].data
  <2>1. PICK e : /\ Taken(i, e) /\ f \in Live /\ EngineKey(f, e)
    BY <1>6 DEF ReadKey
  <2>2. e.down \in BOOLEAN
    BY <2>1, TakenEvent DEF Taken
  <2> HIDE DEF f
  <2> DEFINE k == Typed(kbd[f], e, loop.time)
             fresh == e.down # (e.code \in kbd[f].down)
  <2>3. kbd' = [kbd EXCEPT ![f] = k]
    BY <2>1 DEF EngineKey, Answered
  <2>4. /\ DOMAIN k = {"down", "due"}
        /\ k.down = IF e.down THEN kbd[f].down \cup {e.code} ELSE kbd[f].down \ {e.code}
    BY DEF Typed
  <2>5. IF fresh /\ e.code \notin LayerKeys \cup TimerKeys THEN send_key(e.code, e.down)
                                                           ELSE UNCHANGED outVars
    BY <2>1 DEF EngineKey
  <2> HIDE DEF k
  <2>6. /\ KbdShape' /\ kbd'[f] = k /\ Live' = Live
        /\ \A g \in Live \ {f} : kbd'[g] = kbd[g]
    BY <1>1, <1>2, <2>1, <2>3, <2>4 DEF KbdShape, Live
  <2>7. CASE ~fresh
    <3>1. k.down = kbd[f].down /\ UNCHANGED outVars
      BY <2>2, <2>4, <2>5, <2>7
    <3> QED BY <1>2, <1>3, <2>6, <3>1, SameKeys
  <2>8. CASE fresh /\ e.code \notin LayerKeys \cup TimerKeys
    <3>1. send_key(e.code, e.down)
      BY <2>5, <2>8
    <3>2. vk' \subseteq keystate' /\ keystate' \cap (LayerKeys \cup TimerKeys) = {}
      BY <2>2, <2>8, <3>1 DEF send_key, KeysInv
    <3>3. keystate' \subseteq DownSomewhere'
      <4> SUFFICES ASSUME NEW c \in keystate' PROVE \E g \in Live : c \in kbd'[g].down
        BY <2>6 DEF DownSomewhere
      <4>1. CASE c = e.code
        <5>1. c \in kbd'[f].down
          BY <2>2, <2>4, <2>6, <3>1, <4>1 DEF send_key
        <5> QED BY <2>1, <5>1
      <4>2. CASE c # e.code
        <5>1. c \in keystate
          BY <3>1, <4>2 DEF send_key
        <5>2. PICK g \in Live : c \in kbd[g].down
          BY <1>3, <5>1 DEF KeysInv, DownSomewhere
        <5>3. c \in kbd'[g].down
          BY <2>4, <2>6, <4>2, <5>2
        <5> QED BY <5>3
      <4> QED BY <4>1, <4>2
    <3> QED BY <1>3, <2>6, <3>2, <3>3 DEF KeysInv
  <2>9. CASE fresh /\ e.code \in LayerKeys \cup TimerKeys
    <3>1. UNCHANGED outVars
      BY <2>5, <2>9
    <3>2. keystate' \subseteq DownSomewhere'
      <4> SUFFICES ASSUME NEW c \in keystate PROVE \E g \in Live : c \in kbd'[g].down
        BY <2>6, <3>1 DEF DownSomewhere, outVars
      <4>1. c # e.code
        BY <2>9 DEF KeysInv
      <4>2. PICK g \in Live : c \in kbd[g].down
        BY <1>3 DEF KeysInv, DownSomewhere
      <4>3. c \in kbd'[g].down
        BY <2>4, <2>6, <4>1, <4>2
      <4> QED BY <4>3
    <3> QED BY <1>3, <2>6, <3>1, <3>2 DEF KeysInv, outVars
  <2> QED BY <2>7, <2>8, <2>9
<1>7. (\E i \in Positions : ReadMove(i)) => UNCHANGED <<outVars, kbd>>
  BY DEF ReadMove
<1>8. UNCHANGED <<outVars, engineVars>> => UNCHANGED <<outVars, kbd>>
  BY DEF engineVars
<1> QED BY <1>4, <1>5, <1>6, <1>7, <1>8, ReadLeaves

LEMMA ServeKeepsKeys == TypesInv /\ KeysInv /\ Serve => KeysInv'
<1> SUFFICES ASSUME TypesInv, KeysInv, Serve PROVE KeysInv'
  OBVIOUS
<1>1. CASE Reload
  <2>1. /\ UNCHANGED outVars /\ kbd' = [f \in Files |-> NewKeyboard]
        /\ pc' = "manage" /\ return' = "reloaded"
    BY <1>1 DEF Reload
  <2>2. KbdShape' /\ Returning' /\ Reloading'
    BY <2>1 DEF KbdShape, NewKeyboard, Returning, Reloading
  <2> QED BY <2>1, <2>2 DEF KeysInv, outVars
<1>2. CASE Reloaded
  <2>1. /\ vk' = {} /\ keystate' = {} /\ UNCHANGED <<kbd, return>> /\ pc = "reloaded"
    BY <1>2 DEF Reloaded, KeysInv, engineVars
  <2>2. KbdShape' /\ Returning'
    BY <2>1 DEF KeysInv, KbdShape, Returning
  <2> QED BY <2>1, <2>2 DEF KeysInv
<1>3. CASE AddListener \/ Do \/ Input
  <2>1. /\ pc = "accept" /\ pc' \in {"watch", "turn"}
        /\ UNCHANGED <<return, configs, kbd>>
    BY <1>3 DEF AddListener, Do, Input, Answering, Accepting, AfterRequests
  <2>2. KbdShape' /\ Returning' /\ ~Reloading /\ DownSomewhere' = DownSomewhere
    BY <2>1 DEF KeysInv, KbdShape, Returning, Reloading, DownSomewhere, Live
  <2>3. /\ vk' \subseteq keystate' /\ keystate' \subseteq keystate
    <3>1. CASE AddListener
      BY <3>1 DEF AddListener, outVars, KeysInv
    <3>2. CASE Do
      BY <3>2, OutputsRelease DEF Do, outVars, KeysInv
    <3>3. CASE Input
      BY <3>3, OutputsRelease DEF Input, KeysInv
    <3> QED BY <1>3, <3>1, <3>2, <3>3
  <2> QED BY <2>2, <2>3 DEF KeysInv
<1> QED BY <1>1, <1>2, <1>3 DEF Serve

LEMMA WakeKeepsKeys == TypesInv /\ KeysInv /\ Wake => KeysInv'
<1> SUFFICES ASSUME TypesInv, KeysInv, Wake PROVE KeysInv'
  OBVIOUS
<1>1. /\ TimeInv /\ Live \subseteq Files /\ DOMAIN kbd = Files /\ KbdShape /\ Returning
  BY LiveFile DEF TypesInv, KeysInv, TimeInv, TimeTypes
<1>2. WakeStep
  BY DEF Wake, WakeForEvents, WakeUnclaimed, WakeForTimeout, WakeFreed
<1>3. UNCHANGED <<outVars, configs, return>> /\ pc = "blocked" /\ pc' = "read"
  BY <1>2 DEF WakeStep
<1>4. Returning' /\ ~Reloading
  BY <1>1, <1>3 DEF Returning, Reloading
<1>5. KbdShape' /\ \A f \in Live : kbd'[f].down = kbd[f].down
  <2>1. CASE WakeForTimeout
    <3> DEFINE k == Called(kbd[active_kbd], clock)
    <3>1. active_kbd \in Files /\ kbd' = [kbd EXCEPT ![active_kbd] = k]
      BY <1>1, <2>1 DEF WakeForTimeout
    <3>2. DOMAIN k = {"down", "due"} /\ k.down = kbd[active_kbd].down
      BY <1>1, <3>1 DEF Called, KbdShape
    <3> HIDE DEF k
    <3> QED BY <1>1, <3>1, <3>2 DEF KbdShape
  <2>2. CASE WakeForEvents \/ WakeUnclaimed \/ WakeFreed
    <3>1. UNCHANGED kbd
      BY <2>2 DEF WakeForEvents, WakeUnclaimed, WakeFreed
    <3> QED BY <1>1, <3>1 DEF KbdShape
  <2> QED BY <2>1, <2>2 DEF Wake
<1> QED BY <1>3, <1>4, <1>5, SameKeys

LEMMA KeysInvStep == TypesInv /\ KeysInv /\ [Next]_vars => KeysInv'
<1> SUFFICES ASSUME TypesInv, KeysInv, [Next]_vars PROVE KeysInv'
  OBVIOUS
<1>1. ASSUME UNCHANGED <<outVars, configs, kbd>>, Returning', Reloading => Reloading'
      PROVE  KeysInv'
  BY <1>1, SameKeys DEF KeysInv, KbdShape
<1>2. CASE World
  <2>1. UNCHANGED daemonVars
    BY <1>2, WorldLeaves
  <2> QED BY <1>1, <2>1 DEF daemonVars, engineVars, controlVars, KeysInv, Returning, Reloading
<1>3. CASE UNCHANGED vars \/ TooManyFound
  BY <1>1, <1>3 DEF vars, TooManyFound, engineVars, controlVars, KeysInv, Returning, Reloading
<1>4. CASE Scan
  BY <1>1, <1>4 DEF Scan, engineVars, KeysInv, Returning, Reloading
<1>5. CASE Manage
  <2>1. UNCHANGED <<outVars, configs, kbd>>
    BY <1>5, ManageLeaves DEF ManageStep, engineVars
  <2>2. CASE AllManaged
    BY <1>1, <2>1, <2>2 DEF AllManaged, Returning, Reloading
  <2>3. CASE Ignore \/ Keep \/ AwaitNeutral \/ Grab
    <3>1. UNCHANGED return /\ pc \in {"manage", "grab"} /\ pc' \in {"manage", "grab"}
      BY <2>3 DEF Ignore, Keep, AwaitNeutral, Grab, Managing
    <3> QED BY <1>1, <2>1, <3>1 DEF Returning, Reloading
  <2> QED BY <1>5, <2>2, <2>3 DEF Manage
<1>6. CASE Watch
  <2>1. UNCHANGED <<outVars, configs, kbd>> /\ pc = "watch"
    BY <1>6 DEF Watch, Opened, TableFull, NotOpened, AllOpened, WatchStep, engineVars
  <2>2. Returning' /\ ~Reloading
    BY <1>6, <2>1 DEF Watch, Opened, TableFull, NotOpened, AllOpened, KeysInv, Returning, Reloading
  <2> QED BY <1>1, <2>1, <2>2
<1>7. CASE Turn
  BY <1>1, <1>7 DEF Turn, engineVars, KeysInv, Returning, Reloading
<1> QED BY <1>2, <1>3, <1>4, <1>5, <1>6, <1>7, ReadKeepsKeys, ServeKeepsKeys, WakeKeepsKeys
        DEF Next, Daemon

-----------------------------------------------------------------------------

LEMMA InitKeys == Init => TypesInv /\ KeysInv
<1> SUFFICES ASSUME Init PROVE TypesInv /\ KeysInv
  OBVIOUS
<1>1. DeviceInv
  BY InitDeviceInv
<1>2. TimeInv /\ Started
  BY InitTimeInv
<1>3. Counters /\ Owners
  BY DaemonAssumption DEF Init, Counters, Owners, Keyboards
<1>4. Told /\ Tables /\ Outputs
  BY DaemonAssumption DEF Init, Told, Tables, Entries, Outputs
<1>5. KeysInv
  BY DEF Init, KeysInv, KbdShape, NewKeyboard, Returning
<1>6. LastEvent
  BY DEF Init, LastEvent, Event, ByteCodes
<1> QED BY <1>1, <1>2, <1>3, <1>4, <1>5, <1>6 DEF TypesInv

LEMMA TypesInvStep == TypesInv /\ KeysInv /\ [Next]_vars => TypesInv'
<1>1. TypesInv => DeviceInv /\ TimeInv /\ Started
  BY DEF TypesInv
<1> QED BY <1>1, OnlyAxesDropped, DeviceInvStep, TimeInvStep, StartedStep, CountersStep,
           OwnersStep, ToldStep, TablesStep, OutputsStep, LastEventStep DEF TypesInv

\* All that the daemon keeps is of its type, and the keys are accounted for
\* (daemon.c:38-53, 209-251, 405-520).
THEOREM KeysInvariant == Spec => [](TypesInv /\ KeysInv)
<1>1. TypesInv /\ KeysInv /\ [Next]_vars => (TypesInv /\ KeysInv)'
  BY TypesInvStep, KeysInvStep
<1> QED BY <1>1, InitKeys, PTL DEF Spec

\* The daemon's state is of its type in every reachable state: the table stays
\* within MAX_DEVICES, listeners within MAX_IPC_CONNECTIONS, and no timeout is
\* negative (device.c:228, evloop.c:134, daemon.c:78-97, 427-439).
THEOREM TypeCorrect == Spec => []TypeOK
<1>1. TypesInv => TypeOK
  <2> SUFFICES ASSUME TypesInv PROVE TypeOK
    OBVIOUS
  <2>1. /\ clock \in 0 .. MaxTime /\ budget \in 0 .. MaxBudget
        /\ loop.timeout \in Nat /\ static.timeout \in Nat
        /\ active_kbd \in Keyboards /\ asker \in Keyboards
        /\ keystate \subseteq ByteCodes /\ vk \subseteq ByteCodes
        /\ Len(listeners) <= MaxListeners /\ Len(table) <= MaxDevices
        /\ \A i \in Positions : IsEntry(table[i])
    BY DEF TypesInv, Counters, Owners, Told, Tables, Entries, Outputs, Positions
  <2>2. plugged \subseteq Devices /\ Range(managing) \subseteq Positions
    BY DEF TypesInv, DeviceInv, PointerInv, Finite, Control, Range
  <2>3. Range(announced) \subseteq Devices
    BY DEF TypesInv, DeviceInv, Tracked, Range
  <2> QED BY <2>1, <2>2, <2>3 DEF TypeOK
<1> QED BY <1>1, KeysInvariant, PTL

\* Whenever the loop waits, each connected device is open or announced, unless
\* it has other axes than x and y, and one descriptor at most has it grabbed
\* (evloop.c:130-151, device.c:326-361).
THEOREM NoneForgotten == Spec => []NoDeviceForgotten
BY KeysInvariant, TrackedDevices, PTL DEF TypesInv

-----------------------------------------------------------------------------
(* Listeners.                                                               *)

OneLayerKey == (\A f, g \in Files : f = g) /\ (\A c, d \in LayerKeys : c = d)

\* Who subscribes is told the layers of the active keyboard: where that is none
\* in use, no keyboard has the layer active.
ToldInv == /\ ListenersSeeTheLayer
           /\ active_kbd \notin Live => \A f \in Live : ~NavActive(kbd[f])

\* A step that neither tells listeners anything nor changes what is active.
LEMMA NothingToTell ==
    ASSUME ToldInv, UNCHANGED <<listeners, configs>>, \A f \in Live : NavActive(kbd'[f]) = NavActive(kbd[f]),
           active_kbd' = active_kbd \/ active_kbd' \in Live
    PROVE  ToldInv'
<1>1. Live' = Live
  BY DEF Live
<1> QED BY <1>1 DEF ToldInv, ListenersSeeTheLayer

LEMMA ToldStepOfEngine ==
    ASSUME OneLayerKey, TypesInv, KeysInv, ToldInv, NEW i \in Positions, ReadKey(i)
    PROVE  ToldInv'
<1> DEFINE f == table[i].data
<1>1. PICK e : Taken(i, e) /\ f \in Live /\ active_kbd' = f /\ EngineKey(f, e)
  BY DEF ReadKey
<1>2. /\ e.down \in BOOLEAN /\ f \in Files /\ DOMAIN kbd = Files /\ UNCHANGED configs
  BY <1>1, TakenEvent, LiveFile DEF TypesInv, TimeInv, TimeTypes, Taken, ReadStep
<1> HIDE DEF f
<1> DEFINE k == Typed(kbd[f], e, loop.time)
           fresh == e.down # (e.code \in kbd[f].down)
<1>3. kbd' = [kbd EXCEPT ![f] = k]
  BY <1>1 DEF EngineKey, Answered
<1>4. k.down = IF e.down THEN kbd[f].down \cup {e.code} ELSE kbd[f].down \ {e.code}
  BY DEF Typed
<1>5. IF fresh /\ e.code \in LayerKeys THEN on_layer_change(f, e.down) ELSE UNCHANGED listeners
  BY <1>1 DEF EngineKey
<1> HIDE DEF k
<1>6. kbd'[f] = k /\ \A g \in Live : g = f
  BY <1>1, <1>2, <1>3, LiveFile DEF OneLayerKey, TypesInv
<1>7. CASE ~(fresh /\ e.code \in LayerKeys)
  <2>1. NavActive(k) = NavActive(kbd[f])
    BY <1>2, <1>4, <1>7 DEF NavActive
  <2> QED BY <1>1, <1>2, <1>5, <1>6, <1>7, <2>1, NothingToTell
<1>8. CASE fresh /\ e.code \in LayerKeys
  <2>1. PICK n \in 0 .. Len(listeners) : listeners' = [l \in 1 .. n |-> e.down]
    BY <1>5, <1>8 DEF on_layer_change
  <2>2. \A l \in DOMAIN listeners' : listeners'[l] = e.down
    BY <2>1
  <2>3. ~e.down => ~NavActive(k)
    BY <1>4, <1>8 DEF NavActive, OneLayerKey
  <2>4. Live' = Live
    BY <1>2 DEF Live
  <2> QED BY <1>1, <1>2, <1>6, <2>2, <2>3, <2>4 DEF ToldInv, ListenersSeeTheLayer
<1> QED BY <1>7, <1>8

LEMMA ToldInvStep == OneLayerKey /\ TypesInv /\ KeysInv /\ ToldInv /\ [Next]_vars => ToldInv'
<1> SUFFICES ASSUME OneLayerKey, TypesInv, KeysInv, ToldInv, [Next]_vars PROVE ToldInv'
  OBVIOUS
<1>1. /\ TimeInv /\ Live \subseteq Files /\ DOMAIN kbd = Files /\ Told
  BY LiveFile DEF TypesInv, TimeInv, TimeTypes
<1>2. CASE UNCHANGED <<engineVars, configs>>
  BY <1>2, NothingToTell DEF engineVars
<1>3. CASE World \/ Scan \/ Manage \/ Watch \/ Turn \/ UNCHANGED vars \/ TooManyFound
  BY <1>2, <1>3, WorldLeaves, ManageLeaves
     DEF daemonVars, Scan, ManageStep, Watch, Opened, TableFull, NotOpened, AllOpened, WatchStep, Turn,
         vars, TooManyFound
<1>4. ASSUME NEW f \in Live, NEW t, kbd' = [kbd EXCEPT ![f] = Called(kbd[f], t)]
      PROVE  \A g \in Live : NavActive(kbd'[g]) = NavActive(kbd[g])
  BY <1>1, <1>4 DEF NavActive, Called
<1>5. CASE Wake
  <2>1. UNCHANGED <<listeners, configs, active_kbd>>
    BY <1>5 DEF Wake, WakeForEvents, WakeUnclaimed, WakeForTimeout, WakeFreed, WakeStep
  <2>2. UNCHANGED kbd \/ (active_kbd \in Live /\ kbd' = [kbd EXCEPT ![active_kbd] = Called(kbd[active_kbd], clock)])
    BY <1>5 DEF Wake, WakeForEvents, WakeUnclaimed, WakeForTimeout, WakeFreed
  <2> QED BY <1>4, <2>1, <2>2, NothingToTell
<1>6. CASE Read
  <2>1. UNCHANGED configs
    BY <1>6, ReadLeaves DEF ReadStep, AllRead
  <2>2. ASSUME NEW i \in Positions, ReadScroll(i) PROVE ToldInv'
    <3>1. /\ table[i].data \in Live /\ active_kbd' = table[i].data /\ UNCHANGED listeners
          /\ kbd' = [kbd EXCEPT ![table[i].data] = Called(kbd[table[i].data], loop.time)]
      BY <2>2 DEF ReadScroll, Answered
    <3> QED BY <1>4, <2>1, <3>1, NothingToTell
  <2>3. ASSUME NEW i \in Positions, ReadMove(i) PROVE ToldInv'
    <3>1. active_kbd' \in Live /\ UNCHANGED <<kbd, listeners>>
      BY <2>3 DEF ReadMove
    <3> QED BY <2>1, <3>1, NothingToTell
  <2> QED BY <1>2, <1>6, <2>1, <2>2, <2>3, ReadLeaves, ToldStepOfEngine
<1>7. CASE Reload
  <2>1. kbd' = [f \in Files |-> NewKeyboard] /\ configs' \in Orders(dir)
    BY <1>7 DEF Reload
  <2>2. Live' \subseteq Files
    <3>1. TimeInv'
      BY TimeInvStep DEF TypesInv
    <3> QED BY <3>1 DEF TimeInv, TimeTypes, Live
  <2>3. \A f \in Live' : ~NavActive(kbd'[f])
    BY <2>1, <2>2 DEF NewKeyboard, NavActive
  <2> QED BY <2>3 DEF ToldInv, ListenersSeeTheLayer
<1>8. CASE Reloaded \/ Do \/ Input
  BY <1>2, <1>8, NothingToTell DEF Reloaded, Do, Input, Answering, engineVars
<1>9. CASE AddListener
  <2>1. UNCHANGED <<configs, kbd, active_kbd>>
    BY <1>9 DEF AddListener, Answering
  <2>2. PICK view \in BOOLEAN :
            /\ active_kbd \in Live => view = NavActive(kbd[active_kbd])
            /\ listeners' = IF Len(listeners) < MaxListeners THEN Append(listeners, view) ELSE listeners
    BY <1>9 DEF AddListener
  <2>3. CASE listeners' = listeners
    BY <2>1, <2>3, NothingToTell
  <2>4. CASE listeners' = Append(listeners, view)
    <3>1. \A l \in DOMAIN listeners' : \/ l \in DOMAIN listeners /\ listeners'[l] = listeners[l]
                                       \/ listeners'[l] = view
      BY <1>1, <2>4 DEF Told
    <3>2. Live' = Live
      BY <2>1 DEF Live
    <3>3. ASSUME NEW f \in Live, NavActive(kbd[f]) PROVE view
      <4>1. active_kbd \in Live
        BY <3>3 DEF ToldInv
      <4>2. active_kbd = f
        BY <1>1, <4>1 DEF OneLayerKey
      <4> QED BY <2>2, <3>3, <4>1, <4>2
    <3> QED BY <2>1, <3>1, <3>2, <3>3 DEF ToldInv, ListenersSeeTheLayer
  <2> QED BY <2>2, <2>3, <2>4
<1> QED BY <1>3, <1>5, <1>6, <1>7, <1>8, <1>9 DEF Next, Daemon, Serve

\* With one file and one key for the layer, no listener believes the layer
\* inactive while it is, whenever it subscribed and however many reloads, freed
\* keyboards and dropped listeners there were (daemon.c:55-137, 240-251).
THEOREM ListenersKnow == OneLayerKey => (Spec => []ListenersSeeTheLayer)
<1> SUFFICES ASSUME OneLayerKey PROVE Spec => []ListenersSeeTheLayer
  OBVIOUS
<1>1. Init => ToldInv
  BY InitTimeInv, LiveFile DEF Init, ToldInv, ListenersSeeTheLayer, NewKeyboard, NavActive
<1>2. TypesInv /\ KeysInv /\ ToldInv /\ [Next]_vars => ToldInv'
  BY ToldInvStep
<1>3. ToldInv => ListenersSeeTheLayer
  BY DEF ToldInv
<1> QED BY <1>1, <1>2, <1>3, KeysInvariant, PTL DEF Spec

-----------------------------------------------------------------------------
(* Who has a device.                                                        *)

IsGrabbed(t, i, p) == IsOpen(t, i, p) /\ t[i].grabbed

\* An open device is connected, has a keyboard as long as it is grabbed, and is
\* grabbed as long as it has a keyboard in use.
Held(t) == \A i \in DOMAIN t : t[i].fd = "open" =>
                /\ t[i].node \in plugged
                /\ t[i].grabbed => t[i].data # NoKbd
                /\ t[i].data \in Live => t[i].grabbed

\* Those manage_device is still to be called for have no keyboard in use, and
\* it is called once for each.
ToManage == /\ \A i, j \in DOMAIN managing : managing[i] = managing[j] => i = j
            /\ \A i \in Range(managing) : table[i].data \in {NoKbd, Freed}
            /\ pc = "grab" => ~table[Managed].grabbed
            /\ pc = "scan" => table = <<>>

\* The loaded files are counted from 1.
Loaded == 0 \notin DOMAIN configs

CustodyInv == Held(table) /\ ToManage /\ Loaded
AllInv == TypesInv /\ KeysInv /\ CustodyInv

-----------------------------------------------------------------------------
(* Claims.                                                                  *)

\* What a line of [ids] adds to the ids of the file.
IdOf(line) == IF line.mark \in {"*", "long"} THEN <<>>
              ELSE <<[id |-> line.id, flags |-> FlagsOf(line.mark)]>>
IsHit(entry, p) == /\ IsPrefix(entry.id, DeviceId[p])
                   /\ entry.flags \cap (DeviceFlags[p] \cup {"excluded"}) # {}

\* The ids of a file are those of its lines, in their order.
LEMMA IdsPlaced ==
    ASSUME NEW f \in Files
    PROVE  \E off :
             LET lines == IdLines[f]
                 ids == ParsedIds[f].ids
                 Ided(i) == lines[i].mark \notin {"*", "long"} IN
             /\ DOMAIN lines \subseteq Nat /\ DOMAIN ids \subseteq Nat
             /\ \A i \in DOMAIN lines : off[i] \in Nat
             /\ \A i \in DOMAIN lines : Ided(i) =>
                   /\ off[i] + 1 \in DOMAIN ids
                   /\ ids[off[i] + 1] = [id |-> lines[i].id, flags |-> FlagsOf(lines[i].mark)]
             /\ \A k \in DOMAIN ids : \E i \in DOMAIN lines : Ided(i) /\ k = off[i] + 1
             /\ \A i, j \in DOMAIN lines : i < j /\ Ided(i) => off[i] < off[j]
<1> DEFINE lines == IdLines[f]
           ss == [i \in DOMAIN lines |-> IdOf(lines[i])]
           flat == FlattenSeq(ss)
           Ided(i) == lines[i].mark \notin {"*", "long"}
<1>1. Len(lines) \in Nat /\ DOMAIN lines = 1 .. Len(lines)
  BY DaemonAssumption, SequenceDomain
<1>2. ASSUME NEW i \in DOMAIN lines
      PROVE  /\ IsSequence(ss[i])
             /\ Ided(i) => /\ Len(ss[i]) = 1
                           /\ ss[i][1] = [id |-> lines[i].id, flags |-> FlagsOf(lines[i].mark)]
             /\ ~Ided(i) => Len(ss[i]) = 0
  <2>1. ss[i] = IdOf(lines[i])
    OBVIOUS
  <2> HIDE DEF ss
  <2>2. CASE Ided(i)
    <3> DEFINE e == [id |-> lines[i].id, flags |-> FlagsOf(lines[i].mark)]
    <3>1. ss[i] = <<e>>
      BY <2>1, <2>2 DEF IdOf
    <3> HIDE DEF e
    <3>2. IsSequence(<<e>>) /\ Len(<<e>>) = 1 /\ <<e>>[1] = e
      BY TupleIsSequence
    <3> QED BY <2>2, <3>1, <3>2 DEF e
  <2>3. CASE ~Ided(i)
    <3>1. ss[i] = <<>>
      BY <2>1, <2>3 DEF IdOf
    <3> QED BY <2>3, <3>1, TupleIsSequence
  <2> QED BY <2>2, <2>3
<1>3. DOMAIN ss = 1 .. Len(lines) /\ ss = [i \in DOMAIN ss |-> ss[i]]
  BY <1>1
<1> HIDE DEF ss
<1>4. IsNested(ss) /\ Len(ss) = Len(lines)
  BY <1>1, <1>2, <1>3, FunctionIsSequence DEF IsNested
<1>5. IsSequence(flat) /\ \E off : Placed(flat, ss, Len(ss), off)
  BY <1>4, Pieces
<1>6. PICK off : Placed(flat, ss, Len(ss), off)
  BY <1>5
<1>7. ParsedIds[f].ids = flat
  <2>1. ParsedIds[f].ids = <<>> \o flat
    BY DEF ParsedIds, parse_id_section, NoIds, flat, ss, IdOf
  <2>2. flat \in Seq(Range(flat))
    BY <1>5 DEF IsSequence
  <2> HIDE DEF flat
  <2> QED BY <2>1, <2>2, ConcatEmptySeq
<1>8. Len(flat) \in Nat /\ DOMAIN flat = 1 .. Len(flat)
  BY <1>5, SequenceDomain
<1> HIDE DEF flat, lines
<1>9. \A i \in DOMAIN lines : off[i] \in Nat
  BY <1>1, <1>4, <1>6 DEF Placed
<1>10. \A i \in DOMAIN lines : Ided(i) =>
          off[i] + 1 \in DOMAIN flat /\ flat[off[i] + 1] = [id |-> lines[i].id, flags |-> FlagsOf(lines[i].mark)]
  <2> SUFFICES ASSUME NEW i \in DOMAIN lines, Ided(i)
               PROVE  off[i] + 1 \in DOMAIN flat /\ flat[off[i] + 1] = ss[i][1]
    BY <1>2
  <2>1. i \in 1 .. Len(ss)
    BY <1>1, <1>4
  <2>2. Len(ss[i]) = 1
    BY <1>2
  <2>3. 1 \in 1 .. Len(ss[i])
    BY <2>2
  <2> QED BY <1>6, <1>8, <2>1, <2>3 DEF Placed
<1>11. \A k \in DOMAIN flat : \E i \in DOMAIN lines : Ided(i) /\ k = off[i] + 1
  <2> SUFFICES ASSUME NEW k \in DOMAIN flat PROVE \E i \in DOMAIN lines : Ided(i) /\ k = off[i] + 1
    OBVIOUS
  <2>1. PICK i \in 1 .. Len(ss) : \E j \in 1 .. Len(ss[i]) : k = off[i] + j
    BY <1>6, <1>8 DEF Placed
  <2>2. PICK j \in 1 .. Len(ss[i]) : k = off[i] + j
    BY <2>1
  <2>3. i \in DOMAIN lines
    BY <1>1, <1>4
  <2>4. Ided(i)
    <3>1. CASE ~Ided(i)
      <4>1. Len(ss[i]) = 0
        BY <1>2, <2>3, <3>1
      <4> QED BY <4>1
    <3> QED BY <3>1
  <2>5. Len(ss[i]) = 1
    BY <1>2, <2>3, <2>4
  <2>6. j = 1
    BY <2>5
  <2> QED BY <2>2, <2>3, <2>4, <2>6
<1>12. \A i, j \in DOMAIN lines : i < j /\ Ided(i) => off[i] < off[j]
  <2> SUFFICES ASSUME NEW i \in DOMAIN lines, NEW j \in DOMAIN lines, i < j, Ided(i)
               PROVE  off[i] < off[j]
    OBVIOUS
  <2>1. off[i] + Len(ss[i]) <= off[j] /\ Len(ss[i]) = 1
    BY <1>1, <1>2, <1>4, <1>6 DEF Placed
  <2> QED BY <1>9, <2>1
<1>13. DOMAIN lines \subseteq Nat /\ DOMAIN flat \subseteq Nat
  BY <1>1, <1>8
<1> QED BY <1>7, <1>9, <1>10, <1>11, <1>12, <1>13 DEF lines

\* A line is about a device when what it adds is a hit; it excludes the device
\* when its mark is "-" (config.c:765-800).
LEMMA AboutIsHit ==
    ASSUME NEW p \in Devices, NEW line, line.mark \in Marks
    PROVE  /\ Kept!About(line, p) <=>
                 /\ line.mark \notin {"*", "long"}
                 /\ IsHit([id |-> line.id, flags |-> FlagsOf(line.mark)], p)
           /\ "excluded" \in FlagsOf(line.mark) <=> line.mark = "-"
<1>1. DeviceFlags[p] \subseteq {"keyboard", "mouse"}
  BY DaemonAssumption DEF DeviceTypes
<1> DEFINE flags == DeviceFlags[p]
<1> HIDE DEF flags
<1>2. line.mark \notin {"*", "long"} =>
        (FlagsOf(line.mark) \cap (DeviceFlags[p] \cup {"excluded"}) # {}
         <=> /\ line.mark = "m:" => "mouse" \in DeviceFlags[p]
             /\ line.mark = "k:" => "keyboard" \in DeviceFlags[p]
             /\ line.mark = "" => DeviceFlags[p] # {})
  <2>1. CASE line.mark = "m:"
    <3>1. FlagsOf(line.mark) = {"mouse"} 
      BY <2>1 DEF FlagsOf
    <3> QED BY <2>1, <3>1, <1>1
  <2>2. CASE line.mark = "k:"
    <3>1. FlagsOf(line.mark) = {"keyboard"}
      BY <2>2 DEF FlagsOf
    <3> QED BY <2>2, <3>1, <1>1
  <2>3. CASE line.mark = "-"
    <3>1. FlagsOf(line.mark) = {"excluded"}
      BY <2>3 DEF FlagsOf
    <3> QED BY <2>3, <3>1
  <2>4. CASE line.mark = ""
    <3>1. FlagsOf(line.mark) = {"keyboard", "mouse"}
      BY <2>4 DEF FlagsOf
    <3> QED BY <2>4, <3>1, <1>1
  <2> QED BY <2>1, <2>2, <2>3, <2>4 DEF Marks
<1>3. Kept!About(line, p) <=> /\ line.mark \notin {"*", "long"}
                              /\ IsPrefix(line.id, DeviceId[p])
                              /\ line.mark = "m:" => "mouse" \in DeviceFlags[p]
                              /\ line.mark = "k:" => "keyboard" \in DeviceFlags[p]
                              /\ line.mark = "" => DeviceFlags[p] # {}
  <2>1. ASSUME NEW s, NEW t PROVE Kept!IsPrefix(s, t) <=> IsPrefix(s, t)
    BY DEF Kept!IsPrefix, IsPrefix
  <2> QED BY <2>1 DEF Kept!About
<1>4. "excluded" \in FlagsOf(line.mark) <=> line.mark = "-"
  BY DEF FlagsOf, Marks
<1> QED BY <1>2, <1>3, <1>4 DEF IsHit

\* 2 when the file names the device, 1 when it takes anything and no line is
\* about the device (config.c:950-985).
LEMMA RankOfFile ==
    ASSUME NEW f \in Files, NEW p \in Devices
    PROVE  LET rank == config_check_match(ParsedIds[f], DeviceId[p], DeviceFlags[p]) IN
           /\ rank \in {0, 1, 2}
           /\ rank = 2 <=> Kept!Names(f, p)
           /\ rank = 1 <=> Kept!Anything(f) /\ Kept!Silent(f, p)
<1> DEFINE lines == IdLines[f]
           ids == ParsedIds[f].ids
           wildcard == ParsedIds[f].wildcard
           Ided(i) == lines[i].mark \notin {"*", "long"}
           entry(i) == [id |-> lines[i].id, flags |-> FlagsOf(lines[i].mark)]
           hits == {k \in DOMAIN ids : IsHit(ids[k], p)}
           first == CHOOSE i \in hits : \A j \in hits : i <= j
           rank == config_check_match(ParsedIds[f], DeviceId[p], DeviceFlags[p])
           AboutLine(i) == Kept!About(lines[i], p)
<1>1. rank = IF hits # {} THEN IF "excluded" \in ids[first].flags THEN 0 ELSE 2
             ELSE IF wildcard THEN 1 ELSE 0
  BY DEF config_check_match, IsHit
<1>2. wildcard <=> Kept!Anything(f)
  BY DEF ParsedIds, parse_id_section, NoIds, Kept!Anything
<1>3. PICK off :
         /\ DOMAIN lines \subseteq Nat /\ DOMAIN ids \subseteq Nat
         /\ \A i \in DOMAIN lines : off[i] \in Nat
         /\ \A i \in DOMAIN lines : Ided(i) => off[i] + 1 \in DOMAIN ids /\ ids[off[i] + 1] = entry(i)
         /\ \A k \in DOMAIN ids : \E i \in DOMAIN lines : Ided(i) /\ k = off[i] + 1
         /\ \A i, j \in DOMAIN lines : i < j /\ Ided(i) => off[i] < off[j]
  BY IdsPlaced
<1>4. \A i \in DOMAIN lines : /\ AboutLine(i) <=> Ided(i) /\ IsHit(entry(i), p)
                              /\ "excluded" \in entry(i).flags <=> lines[i].mark = "-"
  <2> SUFFICES ASSUME NEW i \in DOMAIN lines
               PROVE  /\ AboutLine(i) <=> Ided(i) /\ IsHit(entry(i), p)
                      /\ "excluded" \in entry(i).flags <=> lines[i].mark = "-"
    OBVIOUS
  <2>1. lines[i].mark \in Marks
    BY DaemonAssumption
  <2>2. entry(i).flags = FlagsOf(lines[i].mark)
    OBVIOUS
  <2> QED BY <2>1, <2>2, AboutIsHit
<1>5. Kept!Names(f, p) <=> \E i \in DOMAIN lines : /\ AboutLine(i) /\ lines[i].mark # "-"
                                                   /\ \A j \in 1 .. i - 1 : ~AboutLine(j)
  BY DEF Kept!Names, Kept!FirstAbout
<1>6. Kept!Silent(f, p) <=> \A i \in DOMAIN lines : ~AboutLine(i)
  BY DEF Kept!Silent
<1>7. DOMAIN lines = 1 .. Len(lines) /\ Len(lines) \in Nat
  BY DaemonAssumption, SequenceDomain
<1> HIDE DEF AboutLine, entry, rank, lines, ids, wildcard
<1>8. \A i \in DOMAIN lines : AboutLine(i) => off[i] + 1 \in hits
  BY <1>3, <1>4
<1>9. \A k \in hits : \E i \in DOMAIN lines : AboutLine(i) /\ k = off[i] + 1
  BY <1>3, <1>4
<1>10. hits \in SUBSET Nat
  BY <1>3
<1> HIDE DEF hits
<1>11. hits # {} => first \in hits /\ \A j \in hits : first <= j
  BY <1>10, FirstExists
<1> HIDE DEF first
<1>12. CASE hits = {}
  <2>1. Kept!Silent(f, p) /\ ~Kept!Names(f, p)
    BY <1>5, <1>6, <1>8, <1>12
  <2> QED BY <1>1, <1>2, <1>12, <2>1 DEF rank
<1>13. CASE hits # {}
  <2>1. PICK i \in DOMAIN lines : AboutLine(i) /\ first = off[i] + 1
    BY <1>9, <1>11, <1>13
  <2>2. ids[first] = entry(i)
    BY <1>3, <1>4, <2>1
  <2>3. \A j \in DOMAIN lines : AboutLine(j) => ~(j < i)
    <3> SUFFICES ASSUME NEW j \in DOMAIN lines, AboutLine(j), j < i PROVE FALSE
      OBVIOUS
    <3>1. off[j] < off[i] /\ off[j] \in Nat /\ off[i] \in Nat
      BY <1>3, <1>4
    <3>2. first <= off[j] + 1
      BY <1>8, <1>11, <1>13
    <3> QED BY <2>1, <3>1, <3>2
  <2>4. \A j \in 1 .. i - 1 : ~AboutLine(j)
    <3> SUFFICES ASSUME NEW j \in 1 .. i - 1 PROVE ~AboutLine(j)
      OBVIOUS
    <3>1. j \in DOMAIN lines /\ j < i
      BY <1>7
    <3> QED BY <2>3, <3>1
  <2>5. \A j \in DOMAIN lines : AboutLine(j) /\ (\A l \in 1 .. j - 1 : ~AboutLine(l)) => j = i
    <3> SUFFICES ASSUME NEW j \in DOMAIN lines, AboutLine(j), \A l \in 1 .. j - 1 : ~AboutLine(l)
                 PROVE  j = i
      OBVIOUS
    <3>1. i \in Nat /\ i >= 1 /\ j \in Nat /\ ~(j < i)
      BY <1>7, <2>3
    <3>2. ~(i < j)
      BY <2>1, <3>1
    <3> QED BY <3>1, <3>2
  <2>6. Kept!Names(f, p) <=> lines[i].mark # "-"
    BY <1>5, <2>1, <2>4, <2>5
  <2>7. "excluded" \in ids[first].flags <=> lines[i].mark = "-"
    BY <1>4, <2>2
  <2>8. ~Kept!Silent(f, p)
    BY <1>6, <2>1
  <2> QED BY <1>1, <1>13, <2>6, <2>7, <2>8 DEF rank
<1> QED BY <1>12, <1>13

\* manage_device finds a file with the best claim on the device, and none only
\* when no file has one (daemon.c:185-207).
LEMMA ClaimIsBest ==
    ASSUME NEW p \in Devices, Live \subseteq Files, Finite, Loaded
    PROVE  IF Claim(p) = NoKbd THEN Kept!Claimants(p) = {} ELSE Claim(p) \in Kept!Claimants(p)
<1> DEFINE ids == [i \in DOMAIN configs |-> ParsedIds[configs[i]]]
           rank == [i \in DOMAIN ids |-> config_check_match(ids[i], DeviceId[p], DeviceFlags[p])]
           best == {i \in DOMAIN ids : /\ rank[i] > 0 /\ \A j \in DOMAIN ids : rank[j] <= rank[i]}
           match == CHOOSE i \in best : \A j \in best : i <= j
           found == lookup_config_ent(ids, DeviceId[p], DeviceFlags[p])
           mouse == DeviceFlags[p] = {"mouse"}
           named == {f \in Live : Kept!Names(f, p)}
           wild == {f \in Live : Kept!Anything(f) /\ Kept!Silent(f, p)}
<1>1. found = IF best = {} \/ (rank[match] = 1 /\ mouse) THEN 0 ELSE match
  BY DEF lookup_config_ent
<1>2. Claim(p) = IF found = 0 THEN NoKbd ELSE configs[found]
  BY DEF Claim
<1>3. Kept!Claimants(p) = IF named # {} THEN named ELSE IF mouse THEN {} ELSE wild
  BY DEF Kept!Claimants
<1>4. \A i \in DOMAIN configs : configs[i] \in Live /\ configs[i] \in Files
  BY DEF Live, Range
<1>5. \A f \in Live : \E i \in DOMAIN configs : f = configs[i]
  BY DEF Live, Range
<1>6. \A i \in DOMAIN configs : /\ rank[i] \in {0, 1, 2}
                                /\ rank[i] = 2 <=> Kept!Names(configs[i], p)
                                /\ rank[i] = 1 <=> Kept!Anything(configs[i]) /\ Kept!Silent(configs[i], p)
  <2> SUFFICES ASSUME NEW i \in DOMAIN configs
               PROVE  /\ rank[i] \in {0, 1, 2}
                      /\ rank[i] = 2 <=> Kept!Names(configs[i], p)
                      /\ rank[i] = 1 <=> Kept!Anything(configs[i]) /\ Kept!Silent(configs[i], p)
    OBVIOUS
  <2>1. rank[i] = config_check_match(ParsedIds[configs[i]], DeviceId[p], DeviceFlags[p])
    OBVIOUS
  <2> HIDE DEF rank
  <2> QED BY <1>4, <2>1, RankOfFile
<1>7. DOMAIN ids = DOMAIN configs /\ DOMAIN configs \in SUBSET Nat /\ 0 \notin DOMAIN configs
  BY DEF Finite, Loaded
<1>8. best = {i \in DOMAIN configs : rank[i] > 0 /\ \A j \in DOMAIN configs : rank[j] <= rank[i]}
  OBVIOUS
<1> HIDE DEF rank, ids, best, found, mouse
<1>9. best # {} => match \in best
  <2>1. best \in SUBSET Nat
    BY <1>7, <1>8
  <2> QED BY <2>1, FirstExists
<1> HIDE DEF match
<1>10. \A i \in DOMAIN configs : configs[i] # NoKbd
  BY <1>4, DaemonAssumption DEF NoKbd
<1>11. CASE named # {}
  <2>1. PICK i \in DOMAIN configs : rank[i] = 2
    BY <1>5, <1>6, <1>11
  <2>2. i \in best
    BY <1>6, <1>8, <2>1
  <2>3. match \in DOMAIN configs /\ rank[match] = 2
    BY <1>6, <1>8, <1>9, <2>1, <2>2
  <2>4. found = match /\ found # 0
    BY <1>1, <1>7, <2>2, <2>3
  <2>5. configs[match] \in named
    BY <1>4, <1>6, <2>3
  <2> QED BY <1>2, <1>3, <1>10, <1>11, <2>3, <2>4, <2>5
<1>12. CASE named = {} /\ best = {}
  <2>1. \A i \in DOMAIN configs : rank[i] = 0
    <3> SUFFICES ASSUME NEW i \in DOMAIN configs, rank[i] # 0 PROVE FALSE
      OBVIOUS
    <3>1. \A j \in DOMAIN configs : rank[j] \in {0, 1}
      BY <1>4, <1>6, <1>12
    <3>2. i \in best
      BY <1>8, <3>1
    <3> QED BY <1>12, <3>2
  <2>2. wild = {}
    BY <1>5, <1>6, <2>1
  <2> QED BY <1>1, <1>2, <1>3, <1>12, <2>2
<1>13. CASE named = {} /\ best # {}
  <2>1. match \in DOMAIN configs /\ rank[match] = 1
    BY <1>4, <1>6, <1>8, <1>9, <1>13
  <2>2. configs[match] \in wild
    BY <1>4, <1>6, <2>1
  <2>3. CASE mouse
    BY <1>1, <1>2, <1>3, <1>13, <2>1, <2>3
  <2>4. CASE ~mouse
    <3>1. found = match /\ found # 0
      BY <1>1, <1>7, <1>13, <2>1, <2>4
    <3>2. Claim(p) \in Kept!Claimants(p)
      BY <1>2, <1>3, <1>13, <2>2, <2>4, <3>1
    <3>3. Claim(p) # NoKbd
      BY <1>2, <1>10, <2>1, <3>1
    <3> QED BY <3>2, <3>3
  <2> QED BY <2>3, <2>4
<1> QED BY <1>11, <1>12, <1>13

-----------------------------------------------------------------------------
(* What a step does to the table.                                           *)

\* It leaves every device to whoever has it.
Alike(t, u) ==
    /\ DOMAIN u = DOMAIN t
    /\ \A i \in DOMAIN t : /\ u[i].node = t[i].node /\ u[i].grabbed = t[i].grabbed
                           /\ u[i].data = t[i].data
                           /\ u[i].fd = "open" <=> t[i].fd = "open"

Quiet == /\ Alike(table, table') /\ UNCHANGED <<managing, configs>>
         /\ plugged \subseteq plugged'
         /\ pc' = "scan" => pc = "scan" /\ UNCHANGED table
         /\ pc' = "grab" => pc = "grab" \/ (managing # <<>> /\ ~table[Managed].grabbed)

LEMMA TableShape ==
    ASSUME AllInv
    PROVE  /\ Len(table) \in Nat /\ DOMAIN table = 1 .. Len(table)
           /\ \A i \in DOMAIN table : DOMAIN table[i] = Fields
           /\ PointerInv /\ DeviceInv /\ Finite /\ Control /\ Entries(table)
           /\ managing # <<>> => Managed \in DOMAIN table
<1>1. PointerInv /\ DeviceInv /\ Finite /\ Control /\ Entries(table) /\ IsTable(table)
  BY DEF AllInv, TypesInv, DeviceInv, PointerInv, Tables
<1>2. managing # <<>> => Managed \in DOMAIN table
  BY <1>1, HeadAndRest DEF Control, Positions, Managed
<1> QED BY <1>1, <1>2, TableIsFunction

\* Input, requests, files and the clock: only unplugging takes a device away.
LEMMA WorldIsQuiet ==
    ASSUME AllInv, World
    PROVE  Quiet \/ \E p \in Devices : Unplug(p)
<1>1. \A i \in DOMAIN table : DOMAIN table[i] = Fields
  BY TableShape
<1>2. UNCHANGED <<managing, configs, pc>>
  BY WorldLeaves DEF daemonVars, controlVars
<1>3. ASSUME UNCHANGED table, plugged \subseteq plugged' PROVE Quiet
  BY <1>2, <1>3 DEF Quiet, Alike
<1>4. ASSUME NEW p, NEW e, Deliver(p, e), pc # "scan", UNCHANGED plugged PROVE Quiet
  <2>1. Alike(table, table')
    BY <1>1, <1>4 DEF Deliver, Positions, Fields, Alike
  <2> QED BY <1>2, <1>4, <2>1 DEF Quiet
<1>5. ASSUME NEW p \in Devices, NEW c \in DeviceKeys[p], KeyDown(p, c) \/ KeyUp(p, c) PROVE Quiet
  BY <1>4, <1>5 DEF KeyDown, KeyUp, Touching
<1>6. ASSUME NEW p \in Devices, NEW type, Point(p, type) PROVE Quiet
  BY <1>4, <1>6 DEF Point
<1>7. ASSUME NEW on \in Leds, Led(on) PROVE Quiet
  BY <1>4, <1>7 DEF Led
<1>8. ASSUME NEW p \in Devices, Plug(p) PROVE Quiet
  BY <1>3, <1>8 DEF Plug
<1>9. (\E f \in Files : Edit(f)) \/ (\E r \in Requests : Ask(r)) \/ Tick => UNCHANGED <<table, plugged>>
  BY DEF Edit, Ask, Tick
<1> QED BY <1>3, <1>5, <1>6, <1>7, <1>8, <1>9 DEF World

\* Reading takes events from the queues, and closes what is dead; it may take a
\* device for one that is gone.
LEMMA ReadIsQuiet ==
    ASSUME AllInv, Read
    PROVE  Quiet \/ \E i \in Positions : ReadDropped(i)
<1>1. \A i \in DOMAIN table : DOMAIN table[i] = Fields
  BY TableShape
<1>2. /\ UNCHANGED <<managing, configs, plugged>>
      /\ pc' \notin {"scan", "grab"}
  <2>1. ASSUME ReadStep
        PROVE  UNCHANGED <<managing, configs, plugged, pc>>
    BY <2>1 DEF ReadStep, worldVars
  <2>2. AllRead => UNCHANGED <<managing, configs, plugged>> /\ pc' \notin {"scan", "grab"}
    BY DEF AllRead, AfterRequests, worldVars
  <2>3. ASSUME NEW i \in Positions, ReadRemoved(i) \/ ReadDropped(i) \/ ReadNothing(i) PROVE pc = "read"
    BY <2>3 DEF ReadRemoved, ReadDropped, ReadNothing, Returned, Reading
  <2>4. ASSUME NEW i \in Positions, NEW e, Taken(i, e) PROVE pc = "read"
    BY <2>4 DEF Taken, Returned, Reading
  <2>5. pc = "read" \/ AllRead
    BY <2>3, <2>4 DEF Read, Panic, ReadKey, ReadScroll, ReadMove, ReadUnmanaged
  <2> QED BY <2>1, <2>2, <2>5, ReadLeaves
<1>3. CASE UNCHANGED table
  BY <1>2, <1>3 DEF Quiet, Alike
<1>4. ASSUME NEW i \in Positions, NEW e, Taken(i, e) PROVE Quiet
  <2>1. Alike(table, table')
    BY <1>1, <1>4 DEF Taken, Alike, Fields
  <2> QED BY <1>2, <2>1 DEF Quiet
<1>5. ASSUME NEW i \in Positions, ReadRemoved(i) PROVE Quiet
  <2>1. Alike(table, table')
    BY <1>1, <1>5 DEF ReadRemoved, Alike, Fields
  <2> QED BY <1>2, <2>1 DEF Quiet
<1>6. (\E i \in Positions : ReadNothing(i)) \/ AllRead => UNCHANGED table
  BY DEF ReadNothing, AllRead
<1> QED BY <1>3, <1>4, <1>5, <1>6 DEF Read, Panic, ReadKey, ReadScroll, ReadMove, ReadUnmanaged

\* The steps that may give a device to somebody else.
LEMMA QuietOrNot ==
    ASSUME AllInv, [Next]_vars
    PROVE  \/ Quiet
           \/ (\E p \in Devices : Unplug(p)) \/ (\E i \in Positions : ReadDropped(i)) \/ Scan \/ Ignore \/ Keep \/ Grab
           \/ Reload \/ Opened \/ Turn
<1>1. ASSUME UNCHANGED <<table, managing, configs, plugged>>, pc' = "scan" => pc = "scan",
             pc' = "grab" => pc = "grab" \/ (managing # <<>> /\ ~table[Managed].grabbed)
      PROVE  Quiet
  BY <1>1 DEF Quiet, Alike
<1>2. CASE UNCHANGED vars \/ TooManyFound
  BY <1>1, <1>2 DEF vars, TooManyFound, worldVars, controlVars
<1>3. CASE AwaitNeutral
  BY <1>1, <1>3 DEF AwaitNeutral, Managing, ManageStep, worldVars
<1>4. CASE AllManaged
  <2>1. return # "scan" /\ return \notin {"manage", "grab"}
    BY TableShape DEF AllInv, TypesInv, Started, Control
  <2> QED BY <1>1, <1>4, <2>1 DEF AllManaged, ManageStep, worldVars
<1>5. CASE Wake
  <2>1. WakeStep
    BY <1>5 DEF Wake, WakeForEvents, WakeUnclaimed, WakeForTimeout, WakeFreed
  <2> QED BY <1>1, <2>1 DEF WakeStep, worldVars
<1>6. CASE Reloaded \/ AddListener \/ Do \/ Input
  BY <1>1, <1>6 DEF Reloaded, AddListener, Do, Input, Answering, Accepting, AfterRequests, worldVars
<1>7. CASE TableFull \/ NotOpened \/ AllOpened
  BY <1>1, <1>7 DEF TableFull, NotOpened, AllOpened, WatchStep
<1> QED BY <1>2, <1>3, <1>4, <1>5, <1>6, <1>7, WorldIsQuiet, ReadIsQuiet
        DEF Next, Daemon, Manage, Serve, Watch

-----------------------------------------------------------------------------
(* The invariant.                                                           *)

LEMMA QuietKeepsCustody == ASSUME AllInv, Quiet PROVE CustodyInv'
<1>1. /\ Held(table) /\ ToManage /\ Loaded
      /\ Control /\ PointerInv
      /\ managing # <<>> => Managed \in DOMAIN table
  BY TableShape DEF AllInv, CustodyInv
<1>2. Held(table)'
  BY <1>1 DEF Quiet, Alike, Held, Live
<1>3. Range(managing) \subseteq DOMAIN table
  BY <1>1 DEF Control, Positions, Range
<1>4. pc = "grab" => managing # <<>>
  BY <1>1 DEF PointerInv, Grabbing
<1>5. \A i \in Range(managing) : table'[i].data \in {NoKbd, Freed}
  BY <1>1, <1>3 DEF Quiet, Alike, ToManage
<1>6. pc' = "grab" => ~table'[Managed].grabbed
  <2> SUFFICES ASSUME pc' = "grab", pc = "grab" \/ (managing # <<>> /\ ~table[Managed].grabbed)
               PROVE  ~table'[Managed].grabbed
    BY DEF Quiet
  <2>1. ~table[Managed].grabbed
    BY <1>1 DEF ToManage
  <2>2. Managed \in DOMAIN table /\ UNCHANGED managing
    BY <1>1, <1>4 DEF Quiet
  <2> QED BY <2>1, <2>2 DEF Quiet, Alike, Managed
<1> QED BY <1>1, <1>2, <1>5, <1>6 DEF Quiet, CustodyInv, ToManage, Managed, Loaded

\* A device that is gone has no open descriptor.
LEMMA UnplugKeepsCustody == ASSUME AllInv, NEW p \in Devices, Unplug(p) PROVE CustodyInv'
<1>1. /\ Held(table) /\ ToManage /\ Loaded
      /\ Control /\ PointerInv /\ \A i \in DOMAIN table : DOMAIN table[i] = Fields
  BY TableShape DEF AllInv, CustodyInv
<1>2. /\ UNCHANGED <<managing, configs, pc>> /\ plugged' = plugged \ {p} /\ pc # "scan"
  BY DEF Unplug, daemonVars, controlVars, Touching
<1>3. /\ DOMAIN table' = DOMAIN table
      /\ \A i \in DOMAIN table :
            /\ table'[i].node = table[i].node /\ table'[i].grabbed = table[i].grabbed
            /\ table'[i].data = table[i].data
            /\ table'[i].fd = "open" => table[i].fd = "open" /\ table[i].node # p
  BY <1>1 DEF Unplug, Through, Positions, Fields
<1>4. Held(table)'
  BY <1>1, <1>2, <1>3 DEF Held, Live
<1>5. Range(managing) \subseteq DOMAIN table
  BY <1>1 DEF Control, Positions, Range
<1>6. pc = "grab" => Managed \in DOMAIN table
  BY TableShape, <1>1 DEF PointerInv, Grabbing
<1>7. ToManage'
  BY <1>1, <1>2, <1>3, <1>5, <1>6 DEF ToManage, Managed
<1> QED BY <1>1, <1>2, <1>4, <1>7 DEF CustodyInv, Loaded

LEMMA DropKeepsCustody == ASSUME AllInv, NEW k \in Positions, ReadDropped(k) PROVE CustodyInv'
<1>1. /\ Held(table) /\ ToManage /\ Loaded
      /\ Control /\ PointerInv /\ \A i \in DOMAIN table : DOMAIN table[i] = Fields
  BY TableShape DEF AllInv, CustodyInv
<1>2. UNCHANGED <<managing, configs, pc, plugged>> /\ pc = "read"
  BY DEF ReadDropped, Returned, Reading, ReadStep, worldVars
<1>3. /\ DOMAIN table' = DOMAIN table
      /\ \A i \in DOMAIN table :
            /\ table'[i].node = table[i].node /\ table'[i].grabbed = table[i].grabbed
            /\ table'[i].data = table[i].data
            /\ table'[i].fd = "open" => table[i].fd = "open"
  BY <1>1 DEF ReadDropped, Positions, Fields
<1>4. Held(table)'
  BY <1>1, <1>2, <1>3 DEF Held, Live
<1>5. Range(managing) \subseteq DOMAIN table
  BY <1>1 DEF Control, Positions, Range
<1>6. ToManage'
  BY <1>1, <1>2, <1>3, <1>5 DEF ToManage, Managed
<1> QED BY <1>1, <1>2, <1>4, <1>6 DEF CustodyInv, Loaded

\* New entries are open, and nobody's.
LEMMA ScanKeepsCustody == ASSUME AllInv, Scan PROVE CustodyInv'
<1>1. Loaded /\ PointerInv /\ UNCHANGED <<configs, plugged>> /\ pc' = "manage" /\ Live \subseteq Files
  BY TableShape, LiveFile DEF AllInv, CustodyInv, Scan, worldVars, TypesInv
<1>2. PICK order \in Orders(plugged) : /\ table' = [i \in DOMAIN order |-> NewEntry(order[i])]
                                       /\ managing' = [i \in DOMAIN order |-> i]
  BY DEF Scan
<1>3. Range(order) = plugged
  BY DEF Orders
<1>4. \A i \in DOMAIN table' : /\ table'[i].node \in plugged /\ table'[i].grabbed = FALSE
                               /\ table'[i].data = NoKbd
  BY <1>2, <1>3 DEF NewEntry, Range
<1>5. Held(table)'
  BY <1>1, <1>4, DaemonAssumption DEF Held, Live, NoKbd
<1>6. ToManage'
  BY <1>1, <1>2, <1>4 DEF ToManage, Range
<1> QED BY <1>1, <1>5, <1>6 DEF CustodyInv, Loaded

\* What manage_device makes of a device is its new entry e; the others wait.
LEMMA ManagedKeepsCustody ==
    ASSUME AllInv, managing # <<>>, managing' = Tail(managing), UNCHANGED <<configs, plugged>>,
           pc' = "manage", NEW e, table' = [table EXCEPT ![Managed] = e],
           e.fd = "open" => /\ e.node \in plugged
                            /\ e.grabbed => e.data # NoKbd
                            /\ e.data \in Live => e.grabbed
    PROVE  CustodyInv'
<1>1. /\ Held(table) /\ ToManage /\ Loaded /\ Control /\ Managed \in DOMAIN table
  BY TableShape DEF AllInv, CustodyInv
<1>2. /\ DOMAIN table' = DOMAIN table /\ table'[Managed] = e
      /\ \A i \in DOMAIN table \ {Managed} : table'[i] = table[i]
  BY <1>1
<1>3. Held(table)'
  <2> SUFFICES ASSUME NEW i \in DOMAIN table, table'[i].fd = "open"
               PROVE  /\ table'[i].node \in plugged
                      /\ table'[i].grabbed => table'[i].data # NoKbd
                      /\ table'[i].data \in Live => table'[i].grabbed
    BY <1>2 DEF Held, Live
  <2>1. CASE i = Managed
    BY <1>2, <2>1
  <2>2. CASE i # Managed
    <3>1. table'[i] = table[i]
      BY <1>2, <2>2
    <3> QED BY <1>1, <3>1 DEF Held
  <2> QED BY <2>1, <2>2
<1>4. /\ Len(managing) \in Nat \ {0} /\ DOMAIN managing = 1 .. Len(managing)
      /\ Managed = managing[1] /\ managing \in Seq(Positions)
      /\ managing' \in Seq(Positions) /\ Len(managing') = Len(managing) - 1
      /\ \A i \in 1 .. Len(managing') : managing'[i] = managing[i + 1]
  BY <1>1, HeadTailProperties, EmptySeq, LenProperties DEF Control, Managed
<1>5. DOMAIN managing' = 1 .. Len(managing) - 1
  BY <1>4, LenProperties
<1>6. \A i, j \in DOMAIN managing' : managing'[i] = managing'[j] => i = j
  <2> SUFFICES ASSUME NEW i \in DOMAIN managing', NEW j \in DOMAIN managing', managing'[i] = managing'[j]
               PROVE  i = j
    OBVIOUS
  <2>1. i \in Nat /\ j \in Nat /\ i + 1 \in DOMAIN managing /\ j + 1 \in DOMAIN managing
    BY <1>4, <1>5
  <2>2. managing[i + 1] = managing[j + 1]
    BY <1>4, <1>5
  <2>3. i + 1 = j + 1
    BY <1>1, <2>1, <2>2 DEF ToManage
  <2> QED BY <2>1, <2>3
<1>7. \A x \in Range(managing') : x \in Range(managing) /\ x # Managed
  <2> SUFFICES ASSUME NEW i \in DOMAIN managing'
               PROVE  managing'[i] \in Range(managing) /\ managing'[i] # Managed
    BY DEF Range
  <2>1. i + 1 \in DOMAIN managing /\ 1 \in DOMAIN managing /\ i + 1 # 1
    BY <1>4, <1>5
  <2>2. managing'[i] = managing[i + 1] /\ managing[i + 1] # managing[1]
    BY <1>1, <1>4, <1>5, <2>1 DEF ToManage
  <2> QED BY <1>4, <2>1, <2>2 DEF Range
<1>8. Range(managing) \subseteq DOMAIN table
  BY <1>4 DEF Positions, Range
<1>9. \A x \in Range(managing') : table'[x].data \in {NoKbd, Freed}
  BY <1>1, <1>2, <1>7, <1>8 DEF ToManage
<1>10. ToManage'
  BY <1>6, <1>9 DEF ToManage
<1> QED BY <1>1, <1>3, <1>10 DEF CustodyInv, Loaded

\* The entry that manage_device leaves for a device that is not keyd's own.
LEMMA ManagedEntry ==
    ASSUME AllInv, (Ignore /\ ~IsVirtual(Managed)) \/ Keep \/ Grab
    PROVE  LET p == table[Managed].node
               possible == table[Managed].fd = "open" /\ ~Grabbed(p) IN
           /\ managing # <<>> /\ managing' = Tail(managing) /\ UNCHANGED <<configs, plugged>>
           /\ pc' = "manage" /\ Managed \in DOMAIN table /\ p \in Devices
           /\ table[Managed].data \in {NoKbd, Freed}
           /\ \E e : /\ table' = [table EXCEPT ![Managed] = e]
                     /\ e.node = p /\ e.fd = table[Managed].fd
                     /\ \/ /\ Ignore /\ Claim(p) = NoKbd /\ e.data = NoKbd
                           /\ e.grabbed = (table[Managed].grabbed /\ e.fd # "open")
                        \/ /\ Keep /\ Claim(p) # NoKbd /\ e.data = Claim(p)
                           /\ table[Managed].grabbed /\ e.grabbed /\ e.queue = table[Managed].queue
                        \/ /\ Grab /\ Claim(p) # NoKbd /\ possible
                           /\ e.grabbed /\ e.data = Claim(p) /\ ~table[Managed].grabbed /\ e.queue = <<>>
                        \/ /\ Grab /\ ~possible /\ ~table[Managed].grabbed
                           /\ e.grabbed = table[Managed].grabbed /\ e.data = NoKbd
<1> DEFINE m == Managed
           p == table[Managed].node
           possible == table[Managed].fd = "open" /\ ~Grabbed(p)
<1>1. managing # <<>> /\ managing' = Tail(managing)
  BY TableShape DEF Ignore, Keep, Grab, Managing, PointerInv, Grabbing
<1>2. UNCHANGED <<configs, plugged>> /\ pc' = "manage"
  BY DEF Ignore, Keep, Grab, Managing, ManageStep, worldVars
<1>3. m \in DOMAIN table /\ DOMAIN table[m] = Fields /\ p \in Devices
  BY <1>1, TableShape DEF Entries, IsEntry
<1>4. m \in Range(managing)
  BY <1>1, TableShape, HeadTailProperties, LenProperties, EmptySeq DEF Control, Managed, Range
<1>5. ToManage /\ table[m].data \in {NoKbd, Freed}
  BY <1>4 DEF AllInv, CustodyInv, ToManage
<1> HIDE DEF m
<1>6. ASSUME Ignore, ~IsVirtual(Managed)
      PROVE  \E e : /\ table' = [table EXCEPT ![m] = e]
                    /\ e.node = table[m].node /\ e.fd = table[m].fd
                    /\ Claim(table[m].node) = NoKbd /\ e.data = NoKbd
                    /\ e.grabbed = (table[m].grabbed /\ e.fd # "open")
  <2> DEFINE e == [table[m] EXCEPT !.data = NoKbd, !.grabbed = @ /\ table[m].fd # "open"]
  <2>1. table' = [table EXCEPT ![m] = e] /\ Claim(table[m].node) = NoKbd
    BY <1>3, <1>6 DEF Ignore, m
  <2>2. e.node = table[m].node /\ e.fd = table[m].fd /\ e.data = NoKbd
        /\ e.grabbed = (table[m].grabbed /\ table[m].fd # "open")
    BY <1>3 DEF Fields
  <2> HIDE DEF e
  <2> QED BY <2>1, <2>2
<1>7. ASSUME Keep
      PROVE  \E e : /\ table' = [table EXCEPT ![m] = e]
                    /\ e.node = table[m].node /\ e.fd = table[m].fd
                    /\ Claim(table[m].node) # NoKbd /\ e.data = Claim(table[m].node)
                    /\ table[m].grabbed /\ e.grabbed /\ e.queue = table[m].queue
  <2> DEFINE e == [table[m] EXCEPT !.data = Claim(table[m].node)]
  <2>1. table' = [table EXCEPT ![m] = e] /\ Claim(table[m].node) # NoKbd /\ table[m].grabbed
    BY <1>3, <1>7 DEF Keep, m
  <2>2. e.node = table[m].node /\ e.fd = table[m].fd /\ e.data = Claim(table[m].node)
        /\ e.grabbed = table[m].grabbed /\ e.queue = table[m].queue
    BY <1>3 DEF Fields
  <2> HIDE DEF e
  <2> QED BY <2>1, <2>2
<1>8. ASSUME Grab
      PROVE  \E e : /\ table' = [table EXCEPT ![m] = e]
                    /\ e.node = table[m].node /\ e.fd = table[m].fd /\ ~table[m].grabbed
                    /\ \/ /\ possible /\ Claim(table[m].node) # NoKbd
                          /\ e.grabbed /\ e.data = Claim(table[m].node) /\ e.queue = <<>>
                       \/ ~possible /\ e.grabbed = table[m].grabbed /\ e.data = NoKbd
  <2>1. ~table[m].grabbed /\ Claim(table[m].node) # NoKbd
    <3>1. pc = "grab" /\ Claim(table[m].node) \in Live
      BY <1>8, TableShape DEF Grab, PointerInv, Grabbing, m
    <3> QED BY <1>5, <3>1, LiveFile, DaemonAssumption DEF ToManage, m, NoKbd, AllInv, TypesInv
  <2> DEFINE taken == [table[m] EXCEPT !.grabbed = TRUE, !.data = Claim(table[m].node), !.queue = <<>>]
             left == [table[m] EXCEPT !.data = NoKbd]
  <2>2. table' = [table EXCEPT ![m] = IF possible THEN taken ELSE left]
    BY <1>3, <1>8 DEF Grab, m
  <2>3. /\ taken.node = table[m].node /\ taken.fd = table[m].fd /\ taken.grabbed = TRUE
        /\ taken.data = Claim(table[m].node) /\ taken.queue = <<>>
        /\ left.node = table[m].node /\ left.fd = table[m].fd /\ left.grabbed = table[m].grabbed
        /\ left.data = NoKbd
    BY <1>3 DEF Fields
  <2> HIDE DEF taken, left, possible
  <2>4. CASE possible
    BY <2>1, <2>2, <2>3, <2>4
  <2>5. CASE ~possible
    BY <2>1, <2>2, <2>3, <2>5
  <2> QED BY <2>4, <2>5
<1>9. \E e : /\ table' = [table EXCEPT ![Managed] = e]
             /\ e.node = p /\ e.fd = table[Managed].fd
             /\ \/ /\ Ignore /\ Claim(p) = NoKbd /\ e.data = NoKbd
                   /\ e.grabbed = (table[Managed].grabbed /\ e.fd # "open")
                \/ /\ Keep /\ Claim(p) # NoKbd /\ e.data = Claim(p)
                   /\ table[Managed].grabbed /\ e.grabbed /\ e.queue = table[Managed].queue
                \/ /\ Grab /\ Claim(p) # NoKbd /\ possible
                   /\ e.grabbed /\ e.data = Claim(p) /\ ~table[Managed].grabbed /\ e.queue = <<>>
                \/ /\ Grab /\ ~possible /\ ~table[Managed].grabbed
                   /\ e.grabbed = table[Managed].grabbed /\ e.data = NoKbd
  <2> HIDE DEF possible
  <2>1. CASE Ignore /\ ~IsVirtual(Managed)
    BY <1>6, <2>1 DEF m
  <2>2. CASE Keep
    BY <1>7, <2>2 DEF m
  <2>3. CASE Grab
    BY <1>8, <2>3 DEF m
  <2> QED BY <2>1, <2>2, <2>3
<1> QED BY <1>1, <1>2, <1>3, <1>5, <1>9 DEF m

\* A device that manage_device gives a keyboard is grabbed, and one that it
\* leaves without is not (daemon.c:209-238).
LEMMA ManageKeepsCustody == ASSUME AllInv, Ignore \/ Keep \/ Grab PROVE CustodyInv'
<1>1. CASE Ignore /\ IsVirtual(Managed)
  <2>1. /\ UNCHANGED <<table, configs, plugged>> /\ managing # <<>> /\ managing' = Tail(managing)
        /\ pc' = "manage"
    BY <1>1 DEF Ignore, Managing, ManageStep, worldVars
  <2> DEFINE e == table[Managed]
  <2>2. Held(table) /\ Managed \in DOMAIN table
    BY <2>1, TableShape DEF AllInv, CustodyInv
  <2>3. table = [i \in DOMAIN table |-> table[i]]
    BY TableIsFunction, TableShape DEF PointerInv
  <2>4. table' = [table EXCEPT ![Managed] = e]
    BY <2>1, <2>2, <2>3
  <2>5. e.fd = "open" => /\ e.node \in plugged
                         /\ e.grabbed => e.data # NoKbd
                         /\ e.data \in Live => e.grabbed
    BY <2>2 DEF Held
  <2> HIDE DEF e
  <2> QED BY <2>1, <2>4, <2>5, ManagedKeepsCustody
<1>2. CASE (Ignore /\ ~IsVirtual(Managed)) \/ Keep \/ Grab
  <2> DEFINE p == table[Managed].node
             possible == table[Managed].fd = "open" /\ ~Grabbed(p)
             good(e) == /\ e.node = p /\ e.fd = table[Managed].fd
                        /\ \/ /\ Ignore /\ Claim(p) = NoKbd /\ e.data = NoKbd
                              /\ e.grabbed = (table[Managed].grabbed /\ e.fd # "open")
                           \/ /\ Keep /\ Claim(p) # NoKbd /\ e.data = Claim(p)
                              /\ table[Managed].grabbed /\ e.grabbed
                           \/ /\ Grab /\ Claim(p) # NoKbd /\ possible
                              /\ e.grabbed /\ e.data = Claim(p) /\ ~table[Managed].grabbed
                           \/ /\ Grab /\ ~possible /\ ~table[Managed].grabbed
                              /\ e.grabbed = table[Managed].grabbed /\ e.data = NoKbd
  <2>1. /\ managing # <<>> /\ managing' = Tail(managing) /\ UNCHANGED <<configs, plugged>>
        /\ pc' = "manage" /\ Managed \in DOMAIN table
        /\ \E e : table' = [table EXCEPT ![Managed] = e] /\ good(e)
    BY <1>2, ManagedEntry
  <2>2. PICK e : table' = [table EXCEPT ![Managed] = e] /\ good(e)
    BY <2>1
  <2>3. Held(table) /\ NoKbd \notin Live
    BY LiveFile, DaemonAssumption DEF AllInv, CustodyInv, TypesInv, NoKbd
  <2> HIDE DEF possible
  <2>4. e.fd = "open" => /\ e.node \in plugged
                         /\ e.grabbed => e.data # NoKbd
                         /\ e.data \in Live => e.grabbed
    BY <2>1, <2>2, <2>3 DEF Held
  <2> QED BY <2>1, <2>2, <2>4, ManagedKeepsCustody
<1> QED BY <1>1, <1>2

\* What reload has freed is in use by nobody.
LEMMA ReloadKeepsCustody == ASSUME AllInv, Reload PROVE CustodyInv'
<1>1. /\ Held(table) /\ Finite /\ \A i \in DOMAIN table : DOMAIN table[i] = Fields
  BY TableShape DEF AllInv, CustodyInv
<1>2. /\ UNCHANGED plugged /\ configs' \in Orders(dir)
      /\ table' = [i \in DOMAIN table |-> IF table[i].data = NoKbd THEN table[i]
                                         ELSE [table[i] EXCEPT !.data = Freed]]
      /\ managing' = [i \in DOMAIN table |-> i] /\ pc' = "manage"
  BY DEF Reload, Accepting, Positions
<1>3. IsFiniteSet(dir) /\ Range(configs') = dir /\ dir \subseteq Files
  BY <1>1, <1>2, DaemonAssumption, FS_Subset DEF Finite, Orders
<1>4. Loaded'
  BY <1>2, <1>3, OrdersAreSequences DEF Loaded
<1>5. NoKbd \notin Live' /\ Freed \notin Live'
  BY <1>3, DaemonAssumption DEF Live, NoKbd, Freed
<1>6. /\ DOMAIN table' = DOMAIN table
      /\ \A i \in DOMAIN table : /\ table'[i].node = table[i].node /\ table'[i].fd = table[i].fd
                                 /\ table'[i].grabbed = table[i].grabbed
                                 /\ table'[i].data = IF table[i].data = NoKbd THEN NoKbd ELSE Freed
  BY <1>1, <1>2 DEF Fields
<1>7. NoKbd # Freed
  BY DEF NoKbd, Freed
<1>8. Held(table)'
  BY <1>1, <1>2, <1>5, <1>6, <1>7 DEF Held
<1>9. ToManage'
  BY <1>2, <1>6 DEF ToManage, Range
<1> QED BY <1>4, <1>8, <1>9 DEF CustodyInv

\* The entry of a new device comes last.
LEMMA OpenedEntry ==
    ASSUME AllInv, Opened
    PROVE  /\ DOMAIN table' = 1 .. Len(table) + 1
           /\ \A i \in DOMAIN table : i \in DOMAIN table' /\ table'[i] = table[i]
           /\ \A i \in DOMAIN table' : i \in DOMAIN table \/ i = Len(table) + 1
           /\ Len(table) + 1 \in DOMAIN table' /\ Len(table) + 1 \notin DOMAIN table
           /\ table'[Len(table) + 1] = NewEntry(Head(announced))
<1> DEFINE e == NewEntry(Head(announced))
<1>1. table' = Append(table, e)
  BY DEF Opened
<1>2. /\ Len(table) \in Nat /\ DOMAIN table = 1 .. Len(table)
      /\ table \in Seq(Range(table) \cup {e}) /\ e \in Range(table) \cup {e}
  BY TableShape DEF PointerInv, IsTable
<1> HIDE DEF e
<1>3. /\ table' \in Seq(Range(table) \cup {e}) /\ Len(table') = Len(table) + 1
      /\ \A i \in 1 .. Len(table) : table'[i] = table[i]
      /\ table'[Len(table) + 1] = e
  BY <1>1, <1>2, AppendProperties
<1>4. DOMAIN table' = 1 .. Len(table) + 1
  BY <1>3, LenProperties
<1> QED BY <1>2, <1>3, <1>4 DEF e

LEMMA OpenedKeepsCustody == ASSUME AllInv, Opened PROVE CustodyInv'
<1>1. /\ Held(table) /\ Loaded
  BY DEF AllInv, CustodyInv
<1>2. /\ UNCHANGED <<plugged, configs>> /\ Head(announced) \in plugged /\ pc' = "manage"
      /\ managing' = <<Len(table) + 1>>
  BY DEF Opened, WatchStep
<1>3. /\ DOMAIN managing' = 1 .. 1 /\ managing'[1] = Len(table) + 1
  BY <1>2, TupleIsSequence
<1> DEFINE n == Len(table) + 1
<1>4. /\ table'[n].node \in plugged /\ table'[n].grabbed = FALSE /\ table'[n].data = NoKbd
      /\ \A i \in DOMAIN table : table'[i] = table[i]
      /\ \A i \in DOMAIN table' : i \in DOMAIN table \/ i = n
  BY <1>2, OpenedEntry DEF NewEntry
<1>5. NoKbd \notin Live
  BY LiveFile, DaemonAssumption DEF AllInv, TypesInv, NoKbd
<1> HIDE DEF n
<1>6. Held(table)'
  BY <1>1, <1>2, <1>4, <1>5 DEF Held, Live
<1>7. ToManage'
  BY <1>2, <1>3, <1>4 DEF ToManage, Range, n
<1> QED BY <1>1, <1>2, <1>6, <1>7 DEF CustodyInv, Loaded

\* Turn drops what is closed, and nothing waits to be managed.
LEMMA TurnEntries ==
    ASSUME AllInv, Turn
    PROVE  \E stay : /\ \A i \in DOMAIN table' : stay[i] \in DOMAIN table /\ table'[i] = table[stay[i]]
                     /\ \A i \in DOMAIN table : table[i].fd # "closed" =>
                           \E j \in DOMAIN table' : stay[j] = i
<1> DEFINE open == {i \in Positions : table[i].fd # "closed"}
<1>1. Len(table) \in Nat /\ DOMAIN table = 1 .. Len(table)
  BY TableShape
<1>2. PICK stay \in Orders(open) : table' = [i \in DOMAIN stay |-> table[stay[i]]]
  BY DEF Turn
<1>3. DOMAIN table' = DOMAIN stay /\ Range(stay) = open
  BY <1>2 DEF Orders
<1> QED BY <1>2, <1>3 DEF Range, Positions

LEMMA TurnKeepsCustody == ASSUME AllInv, Turn PROVE CustodyInv'
<1>1. Held(table) /\ Loaded /\ UNCHANGED <<plugged, configs, managing>>
      /\ pc = "turn" /\ pc' = "blocked"
  BY DEF AllInv, CustodyInv, Turn, worldVars
<1>2. managing = <<>>
  BY <1>1, TableShape DEF Control
<1>3. \A i \in DOMAIN table' : \E k \in DOMAIN table : table'[i] = table[k]
  BY TurnEntries
<1>4. Held(table)'
  BY <1>1, <1>3 DEF Held, Live
<1>5. DOMAIN managing = {}
  BY <1>2
<1>6. ToManage'
  BY <1>1, <1>5 DEF ToManage, Range
<1> QED BY <1>1, <1>4, <1>6 DEF CustodyInv, Loaded

\* Whoever has a device can be read off the table.
LEMMA AllInvStep == AllInv /\ [Next]_vars => AllInv'
<1> SUFFICES ASSUME AllInv, [Next]_vars PROVE AllInv'
  OBVIOUS
<1>1. TypesInv' /\ KeysInv'
  BY TypesInvStep, KeysInvStep DEF AllInv
<1>2. CustodyInv'
  BY QuietOrNot, QuietKeepsCustody, UnplugKeepsCustody, DropKeepsCustody, ScanKeepsCustody,
     ManageKeepsCustody, ReloadKeepsCustody, OpenedKeepsCustody, TurnKeepsCustody
<1> QED BY <1>1, <1>2 DEF AllInv

LEMMA InitAllInv == Init => AllInv
<1> SUFFICES ASSUME Init PROVE AllInv
  OBVIOUS
<1>1. TypesInv /\ KeysInv
  BY InitKeys
<1>2. IsFiniteSet(dir) /\ configs \in Orders(dir)
  BY DaemonAssumption, FS_Subset DEF Init
<1>3. Loaded
  BY <1>2, OrdersAreSequences DEF Loaded
<1>4. DOMAIN table = {} /\ DOMAIN managing = {} /\ table = <<>> /\ pc = "scan"
  BY DEF Init
<1>5. Held(table) /\ ToManage
  BY <1>4 DEF Held, ToManage, Range
<1> QED BY <1>1, <1>3, <1>5 DEF AllInv, CustodyInv

-----------------------------------------------------------------------------
(* Who owns a device.                                                       *)

Owner == [p \in Devices |-> OwnerOf(p)]
Keys == [f \in Files |-> kbd[f].down]

\* OwnerOf, of any table.
OwnerFrom(t, up, live, p) ==
    LET mine == {i \in DOMAIN t : t[i].node = p /\ t[i].fd = "open" /\ t[i].grabbed}
        data == t[Least(mine)].data IN
    IF p \notin up \/ mine = {} THEN "system" ELSE IF data \in live THEN data ELSE "limbo"

\* The owner by the entry that has the device, if there is one.
OwnedBy(t, live, p, o) ==
    \/ \E i \in DOMAIN t : /\ IsGrabbed(t, i, p)
                           /\ o = IF t[i].data \in live THEN t[i].data ELSE "limbo"
    \/ o = "system" /\ \A i \in DOMAIN t : ~IsGrabbed(t, i, p)

LEMMA OwnerIs ==
    ASSUME NEW t, NEW up, NEW live, NEW p, Exclusive(t), DOMAIN t \subseteq Nat,
           \A i \in DOMAIN t : t[i].fd = "open" => t[i].node \in up
    PROVE  OwnedBy(t, live, p, OwnerFrom(t, up, live, p))
<1> DEFINE mine == {i \in DOMAIN t : t[i].node = p /\ t[i].fd = "open" /\ t[i].grabbed}
           data == t[Least(mine)].data
           o == OwnerFrom(t, up, live, p)
<1>1. o = IF p \notin up \/ mine = {} THEN "system" ELSE IF data \in live THEN data ELSE "limbo"
  BY DEF OwnerFrom
<1>2. \A i \in DOMAIN t : i \in mine <=> IsGrabbed(t, i, p)
  BY DEF IsGrabbed, IsOpen
<1>3. mine # {} => p \in up
  OBVIOUS
<1>4. \A i, j \in mine : i = j
  BY DEF Exclusive, IsOpen
<1>5. \A i \in mine : i \in DOMAIN t
  OBVIOUS
<1> HIDE DEF mine, o
<1>6. CASE mine = {}
  BY <1>1, <1>2, <1>6 DEF OwnedBy, o
<1>7. CASE mine # {}
  <2>1. PICK i : mine = {i}
    BY <1>4, <1>7
  <2>2. Least(mine) \in mine /\ i \in mine
    <3>1. i \in Nat /\ i <= i
      BY <1>5, <2>1
    <3>2. Least({i}) \in {i}
      BY <3>1 DEF Least
    <3> QED BY <2>1, <3>2
  <2>3. Least(mine) = i
    BY <2>1, <2>2
  <2> QED BY <1>1, <1>2, <1>3, <1>5, <1>7, <2>2, <2>3 DEF OwnedBy, o
<1> QED BY <1>6, <1>7

LEMMA OneOwner ==
    ASSUME NEW t, NEW live, NEW p, NEW o1, NEW o2, Exclusive(t),
           OwnedBy(t, live, p, o1), OwnedBy(t, live, p, o2)
    PROVE  o1 = o2
<1>1. \A i, j \in DOMAIN t : IsGrabbed(t, i, p) /\ IsGrabbed(t, j, p) => i = j
  BY DEF Exclusive, IsGrabbed
<1> QED BY <1>1 DEF OwnedBy

\* Before and after every step.
LEMMA BeforeAndAfter ==
    ASSUME AllInv, AllInv', NEW p
    PROVE  /\ OwnedBy(table, Live, p, OwnerOf(p)) /\ OwnedBy(table', Live', p, OwnerOf(p)')
           /\ Exclusive(table) /\ Exclusive(table')
<1>1. /\ Exclusive(table) /\ DOMAIN table \subseteq Nat
      /\ \A i \in DOMAIN table : table[i].fd = "open" => table[i].node \in plugged
  BY TableIsFunction DEF AllInv, TypesInv, DeviceInv, Tracked, PointerInv, CustodyInv, Held
<1>2. /\ Exclusive(table') /\ DOMAIN table' \subseteq Nat
      /\ \A i \in DOMAIN table' : table'[i].fd = "open" => table'[i].node \in plugged'
  BY TableIsFunction DEF AllInv, TypesInv, DeviceInv, Tracked, PointerInv, CustodyInv, Held
<1>3. OwnerOf(p) = OwnerFrom(table, plugged, Live, p)
  BY DEF OwnerOf, OwnerFrom, Positions
<1>4. OwnerOf(p)' = OwnerFrom(table', plugged', Live', p)
  BY DEF OwnerOf, OwnerFrom, Positions
<1> QED BY <1>1, <1>2, <1>3, <1>4, OwnerIs

\* A device stays with its keyboard as long as its entry does.
LEMMA SameOwner ==
    ASSUME AllInv, AllInv', NEW p, Live' = Live,
           \A i \in DOMAIN table : IsGrabbed(table, i, p) =>
              \E j \in DOMAIN table' : IsGrabbed(table', j, p) /\ table'[j].data = table[i].data,
           \A j \in DOMAIN table' : IsGrabbed(table', j, p) =>
              \E i \in DOMAIN table : IsGrabbed(table, i, p)
    PROVE  OwnerOf(p)' = OwnerOf(p)
<1>1. OwnedBy(table', Live', p, OwnerOf(p))
  <2>1. OwnedBy(table, Live, p, OwnerOf(p))
    BY BeforeAndAfter
  <2>2. CASE \E i \in DOMAIN table : IsGrabbed(table, i, p)
    <3>1. PICK i \in DOMAIN table : /\ IsGrabbed(table, i, p)
                                   /\ OwnerOf(p) = IF table[i].data \in Live THEN table[i].data ELSE "limbo"
      BY <2>1, <2>2 DEF OwnedBy
    <3>2. PICK j \in DOMAIN table' : IsGrabbed(table', j, p) /\ table'[j].data = table[i].data
      BY <3>1
    <3> QED BY <3>1, <3>2 DEF OwnedBy
  <2>3. CASE ~\E i \in DOMAIN table : IsGrabbed(table, i, p)
    BY <2>1, <2>3 DEF OwnedBy
  <2> QED BY <2>2, <2>3
<1> QED BY <1>1, BeforeAndAfter, OneOwner

LEMMA QuietOwners == ASSUME AllInv, AllInv', Quiet PROVE Live' = Live /\ Owner' = Owner
<1>1. Live' = Live
  BY DEF Quiet, Live
<1>2. \A i \in DOMAIN table : \A p : /\ i \in DOMAIN table' /\ table'[i].data = table[i].data
                                     /\ IsGrabbed(table', i, p) <=> IsGrabbed(table, i, p)
  BY DEF Quiet, Alike, IsGrabbed, IsOpen
<1>3. DOMAIN table' = DOMAIN table
  BY DEF Quiet, Alike
<1>4. \A p : OwnerOf(p)' = OwnerOf(p)
  <2> SUFFICES ASSUME NEW p PROVE OwnerOf(p)' = OwnerOf(p)
    OBVIOUS
  <2>1. ASSUME NEW i \in DOMAIN table, IsGrabbed(table, i, p)
        PROVE  \E j \in DOMAIN table' : IsGrabbed(table', j, p) /\ table'[j].data = table[i].data
    BY <1>2, <2>1
  <2>2. ASSUME NEW j \in DOMAIN table', IsGrabbed(table', j, p)
        PROVE  \E i \in DOMAIN table : IsGrabbed(table, i, p)
    <3>1. j \in DOMAIN table
      BY <1>3, <2>2
    <3>2. IsGrabbed(table, j, p)
      BY <1>2, <2>2, <3>1
    <3> QED BY <3>1, <3>2
  <2> QED BY <1>1, <2>1, <2>2, SameOwner
<1> QED BY <1>1, <1>4 DEF Owner

-----------------------------------------------------------------------------
(* What the steps do, in the words of Custody.                              *)

SameCustody == UNCHANGED <<plugged, Live, Owner, Keys>>

\* Only keys and reload change what a keyboard has down.
LEMMA KeysChange ==
    ASSUME AllInv, [Next]_vars
    PROVE  Keys' = Keys \/ Reload \/ \E i \in Positions : ReadKey(i)
<1>1. DOMAIN kbd = Files /\ Live \subseteq Files /\ KbdShape
  BY LiveFile DEF AllInv, TypesInv, TimeInv, TimeTypes, KeysInv
<1>2. CASE UNCHANGED kbd
  BY <1>2 DEF Keys
<1>3. ASSUME NEW f \in Files, NEW t, kbd' = [kbd EXCEPT ![f] = Called(kbd[f], t)]
      PROVE  Keys' = Keys
  <2> DEFINE k == Called(kbd[f], t)
  <2>1. k.down = kbd[f].down
    BY <1>1 DEF Called, KbdShape
  <2> HIDE DEF k
  <2>2. \A g \in Files : kbd'[g].down = kbd[g].down
    BY <1>1, <1>3, <2>1 DEF k
  <2> QED BY <2>2 DEF Keys
<1>4. CASE World \/ Scan \/ Manage \/ Watch \/ Turn \/ TooManyFound \/ UNCHANGED vars
  BY <1>2, <1>4, WorldLeaves, ManageLeaves
     DEF daemonVars, Scan, ManageStep, Watch, Opened, TableFull, NotOpened, AllOpened, WatchStep,
         Turn, TooManyFound, vars, engineVars
<1>5. CASE Wake
  <2>1. UNCHANGED kbd \/ WakeForTimeout
    BY <1>5 DEF Wake, WakeForEvents, WakeUnclaimed, WakeFreed
  <2>2. CASE WakeForTimeout
    BY <1>1, <1>3, <2>2 DEF WakeForTimeout
  <2> QED BY <1>2, <2>1, <2>2
<1>6. CASE Read
  <2>1. ASSUME NEW i \in Positions, ReadScroll(i) PROVE Keys' = Keys
    <3>1. table[i].data \in Files
          /\ kbd' = [kbd EXCEPT ![table[i].data] = Called(kbd[table[i].data], loop.time)]
      BY <1>1, <2>1 DEF ReadScroll, Answered
    <3> QED BY <1>3, <3>1
  <2>2. (\E i \in Positions : ReadMove(i)) => UNCHANGED kbd
    BY DEF ReadMove
  <2> QED BY <1>2, <1>6, <2>1, <2>2, ReadLeaves DEF engineVars
<1>7. CASE Reloaded \/ AddListener \/ Do \/ Input
  BY <1>2, <1>7 DEF Reloaded, AddListener, Do, Input, Answering, engineVars
<1> QED BY <1>4, <1>5, <1>6, <1>7 DEF Next, Daemon, Serve

LEMMA PluggedChange ==
    ASSUME [Next]_vars
    PROVE  plugged' = plugged \/ \E p \in Devices : Plug(p) \/ Unplug(p)
<1>1. CASE World
  <2>1. ASSUME NEW p \in Devices, NEW c \in DeviceKeys[p], KeyDown(p, c) \/ KeyUp(p, c)
        PROVE  plugged' = plugged
    BY <2>1 DEF KeyDown, KeyUp
  <2>2. ASSUME NEW p \in Devices, NEW type, Point(p, type) PROVE plugged' = plugged
    BY <2>2 DEF Point
  <2>3. (\E on \in Leds : Led(on)) \/ (\E f \in Files : Edit(f)) \/ (\E r \in Requests : Ask(r)) \/ Tick
        => plugged' = plugged
    BY DEF Led, Edit, Ask, Tick
  <2> QED BY <1>1, <2>1, <2>2, <2>3 DEF World
<1>2. CASE Manage \/ Scan \/ TooManyFound \/ Turn \/ UNCHANGED vars
  BY <1>2, ManageLeaves DEF ManageStep, Scan, TooManyFound, Turn, vars, worldVars
<1>3. CASE Wake
  <2>1. WakeStep
    BY <1>3 DEF Wake, WakeForEvents, WakeUnclaimed, WakeForTimeout, WakeFreed
  <2> QED BY <2>1 DEF WakeStep, worldVars
<1>4. CASE Read
  BY <1>4, ReadLeaves DEF ReadStep, AllRead, worldVars
<1>5. CASE Serve
  BY <1>5 DEF Serve, Reload, Reloaded, AddListener, Do, Input, Answering, Accepting, worldVars
<1>6. CASE Watch
  BY <1>6 DEF Watch, Opened, TableFull, NotOpened, AllOpened, WatchStep
<1> QED BY <1>1, <1>2, <1>3, <1>4, <1>5, <1>6 DEF Next, Daemon

\* Without other axes no event comes again, and no device is dropped.
LEMMA NothingDropped ==
    ASSUME NoAxes, AllInv, NEW i \in Positions
    PROVE  ~ReadDropped(i) /\ \A e : Returned(i, e) => ~Again(i)
BY OnlyAxesDropped, FirstEvent DEF NoAxes, AllInv, TypesInv, Tables, Axial

\* A key is handled by the keyboard that owns the device, and nobody is in
\* limbo then.
LEMMA ReadKeyHandles ==
    ASSUME NoAxes, AllInv, AllInv', [Next]_vars, NEW i \in Positions, ReadKey(i)
    PROVE  /\ UNCHANGED <<plugged, Live, Owner>>
           /\ \/ Keys' = Keys
              \/ \E p \in Devices : \E c \in DeviceKeys[p] : Kept!Handle(p, c)
<1> DEFINE p == table[i].node
           f == table[i].data
<1>1. Read /\ ~\E j \in Positions : ReadDropped(j)
  BY NothingDropped DEF Read
<1>2. Live' = Live /\ Owner' = Owner
  BY <1>1, ReadIsQuiet, QuietOwners
<1>3. PICK e : Taken(i, e) /\ e.type = "key" /\ f \in Live /\ EngineKey(f, e)
  BY DEF ReadKey
<1>4. plugged' = plugged /\ pc = "read" /\ table[i].fd = "open" /\ i \in DOMAIN table
  BY <1>3 DEF Taken, Returned, Reading, ReadStep, worldVars, Positions
<1>5. p \in Devices /\ e.code \in DeviceKeys[p] /\ e.down \in BOOLEAN
  BY <1>3, TableShape, NothingDropped, FirstEvent, TakenEvent DEF AllInv, Taken
<1>6. p \in plugged /\ IsGrabbed(table, i, p)
  BY <1>3, <1>4 DEF AllInv, CustodyInv, Held, IsGrabbed, IsOpen
<1>7. OwnerOf(p) = f
  <2>1. OwnedBy(table, Live, p, f)
    BY <1>3, <1>4, <1>6 DEF OwnedBy
  <2> HIDE DEF f
  <2> QED BY <2>1, BeforeAndAfter, OneOwner
<1>8. ASSUME NEW q \in Devices PROVE OwnerOf(q) # "limbo"
  <2>1. OwnedBy(table, Live, q, OwnerOf(q))
    BY BeforeAndAfter
  <2>2. CASE OwnerOf(q) = "system"
    BY <2>2
  <2>3. ASSUME NEW j \in DOMAIN table, IsGrabbed(table, j, q),
               OwnerOf(q) = IF table[j].data \in Live THEN table[j].data ELSE "limbo"
        PROVE  OwnerOf(q) # "limbo"
    <3>1. table[j].data # NoKbd
      BY <2>3 DEF AllInv, CustodyInv, Held, IsGrabbed, IsOpen
    <3>2. managing = <<>> /\ Accounted(table, managing)
      BY <1>4, TableShape DEF PointerInv, Control
    <3>3. table[j].data \in Live
      BY <3>1, <3>2 DEF Accounted, InUse, Range
    <3> QED BY <2>3, <3>3, LiveFile, DaemonAssumption DEF AllInv, TypesInv
  <2> QED BY <2>1, <2>2, <2>3 DEF OwnedBy
<1>9. DOMAIN kbd = Files /\ f \in Files
  BY <1>3, LiveFile DEF AllInv, TypesInv, TimeInv, TimeTypes
<1> HIDE DEF f, p
<1> DEFINE k == Typed(kbd[f], e, loop.time)
<1>10. kbd' = [kbd EXCEPT ![f] = k]
       /\ k.down = IF e.down THEN kbd[f].down \cup {e.code} ELSE kbd[f].down \ {e.code}
  BY <1>3 DEF EngineKey, Answered, Typed
<1> HIDE DEF k
<1>11. kbd'[f] = k /\ \A g \in Files \ {f} : kbd'[g] = kbd[g]
  BY <1>9, <1>10
<1>12. Keys' = [g \in Files |-> kbd'[g].down]
  BY DEF Keys
<1>13. CASE e.down <=> e.code \in kbd[f].down
  <2>1. k.down = kbd[f].down
    BY <1>5, <1>10, <1>13
  <2>2. \A g \in Files : kbd'[g].down = kbd[g].down
    BY <1>11, <2>1
  <2> QED BY <1>2, <1>4, <1>12, <2>2 DEF Keys
<1>14. CASE ~(e.down <=> e.code \in kbd[f].down)
  <2>1. k.down = IF e.code \in kbd[f].down THEN kbd[f].down \ {e.code} ELSE kbd[f].down \cup {e.code}
    BY <1>5, <1>10, <1>14
  <2>2. Keys' = [Keys EXCEPT ![f] = IF e.code \in @ THEN @ \ {e.code} ELSE @ \cup {e.code}]
    BY <1>9, <1>11, <1>12, <2>1 DEF Keys
  <2>3. Kept!Handle(p, e.code)
    BY <1>2, <1>3, <1>4, <1>5, <1>6, <1>7, <1>8, <2>2 DEF Kept!Handle, Kept!Limbo, Owner, Keys
  <2> QED BY <1>2, <1>4, <1>5, <2>3
<1> QED BY <1>13, <1>14

\* A device that goes away belongs to nobody.
LEMMA UnplugMaps ==
    ASSUME AllInv, AllInv', [Next]_vars, NEW p \in Devices, Unplug(p)
    PROVE  Kept!Unplug(p)
<1>1. /\ UNCHANGED <<configs, kbd>> /\ plugged' = plugged \ {p}
      /\ \A i \in DOMAIN table : DOMAIN table[i] = Fields
  BY TableShape DEF Unplug, daemonVars, engineVars
<1>2. /\ DOMAIN table' = DOMAIN table
      /\ \A i \in DOMAIN table :
            /\ table'[i].node = table[i].node /\ table'[i].grabbed = table[i].grabbed
            /\ table'[i].data = table[i].data
            /\ table'[i].fd = "open" <=> table[i].fd = "open" /\ table[i].node # p
  BY <1>1 DEF Unplug, Through, Positions, Fields
<1>3. Live' = Live /\ Keys' = Keys
  BY <1>1 DEF Live, Keys
<1>4. ASSUME NEW q, q # p PROVE OwnerOf(q)' = OwnerOf(q)
  <2>1. \A i \in DOMAIN table : IsGrabbed(table', i, q) <=> IsGrabbed(table, i, q)
    BY <1>2, <1>4 DEF IsGrabbed, IsOpen
  <2> QED BY <1>2, <1>3, <2>1, SameOwner
<1>5. OwnerOf(p)' = "system"
  <2>1. OwnedBy(table', Live', p, "system")
    BY <1>2 DEF OwnedBy, IsGrabbed, IsOpen
  <2> QED BY <2>1, BeforeAndAfter, OneOwner
<1>6. Owner' = [Owner EXCEPT ![p] = "system"]
  BY <1>4, <1>5 DEF Owner
<1> QED BY <1>1, <1>3, <1>6 DEF Kept!Unplug, Kept!System, Owner, Keys

\* A new entry is nobody's, and a closed one was.
LEMMA TableGrowsOrShrinks ==
    ASSUME AllInv, AllInv', [Next]_vars, Scan \/ Opened \/ Turn
    PROVE  SameCustody
<1>1. UNCHANGED <<plugged, configs, kbd>>
  BY DEF Scan, Opened, WatchStep, Turn, worldVars, engineVars
<1>2. Live' = Live /\ Keys' = Keys
  BY <1>1 DEF Live, Keys
<1>3. CASE Scan
  <2>1. DOMAIN table = {}
    <3>1. table = <<>>
      BY <1>3 DEF Scan, AllInv, CustodyInv, ToManage
    <3> QED BY <3>1
  <2>2. \A i \in DOMAIN table' : table'[i].grabbed = FALSE
    BY <1>3 DEF Scan, NewEntry
  <2>3. \A p : OwnerOf(p)' = OwnerOf(p)
    <3> SUFFICES ASSUME NEW p PROVE OwnerOf(p)' = OwnerOf(p)
      OBVIOUS
    <3>1. \A i \in DOMAIN table' : ~IsGrabbed(table', i, p)
      BY <2>2 DEF IsGrabbed
    <3> QED BY <1>2, <2>1, <3>1, SameOwner
  <2> QED BY <1>1, <1>2, <2>3 DEF SameCustody, Owner
<1>4. CASE Opened
  <2>1. ASSUME NEW p PROVE OwnerOf(p)' = OwnerOf(p)
    <3> DEFINE n == Len(table) + 1
    <3>1. /\ \A i \in DOMAIN table : i \in DOMAIN table' /\ table'[i] = table[i]
          /\ \A i \in DOMAIN table' : i \in DOMAIN table \/ i = n
          /\ table'[n].grabbed = FALSE
      BY <1>4, OpenedEntry DEF NewEntry
    <3> HIDE DEF n
    <3>2. \A i \in DOMAIN table : IsGrabbed(table', i, p) <=> IsGrabbed(table, i, p)
      BY <3>1 DEF IsGrabbed, IsOpen
    <3>3. ~IsGrabbed(table', n, p)
      BY <3>1 DEF IsGrabbed
    <3>4. ASSUME NEW i \in DOMAIN table, IsGrabbed(table, i, p)
          PROVE  \E j \in DOMAIN table' : IsGrabbed(table', j, p) /\ table'[j].data = table[i].data
      BY <3>1, <3>2, <3>4
    <3>5. ASSUME NEW j \in DOMAIN table', IsGrabbed(table', j, p)
          PROVE  \E i \in DOMAIN table : IsGrabbed(table, i, p)
      BY <3>1, <3>2, <3>3, <3>5
    <3> QED BY <1>2, <3>4, <3>5, SameOwner
  <2> QED BY <1>1, <1>2, <2>1 DEF SameCustody, Owner
<1>5. CASE Turn
  <2>1. PICK stay : /\ \A i \in DOMAIN table' : stay[i] \in DOMAIN table /\ table'[i] = table[stay[i]]
                    /\ \A i \in DOMAIN table : table[i].fd # "closed" =>
                          \E j \in DOMAIN table' : stay[j] = i
    BY <1>5, TurnEntries
  <2>2. ASSUME NEW p PROVE OwnerOf(p)' = OwnerOf(p)
    <3>1. ASSUME NEW i \in DOMAIN table, IsGrabbed(table, i, p)
          PROVE  \E j \in DOMAIN table' : IsGrabbed(table', j, p) /\ table'[j].data = table[i].data
      <4>1. PICK j \in DOMAIN table' : stay[j] = i
        BY <2>1, <3>1 DEF IsGrabbed, IsOpen
      <4>2. table'[j] = table[i]
        BY <2>1, <4>1
      <4> QED BY <3>1, <4>2 DEF IsGrabbed, IsOpen
    <3>2. ASSUME NEW j \in DOMAIN table', IsGrabbed(table', j, p)
          PROVE  \E i \in DOMAIN table : IsGrabbed(table, i, p)
      <4>1. stay[j] \in DOMAIN table /\ table'[j] = table[stay[j]]
        BY <2>1
      <4>2. IsGrabbed(table, stay[j], p)
        BY <3>2, <4>1 DEF IsGrabbed, IsOpen
      <4> QED BY <4>1, <4>2
    <3> QED BY <1>2, <3>1, <3>2, SameOwner
  <2> QED BY <1>1, <1>2, <2>2 DEF SameCustody, Owner
<1> QED BY <1>3, <1>4, <1>5

\* reload replaces every keyboard, and leaves what was owned in limbo.
LEMMA ReloadMaps ==
    ASSUME AllInv, AllInv', Reload, NEW F, F = dir
    PROVE  Kept!Load(F)
<1>1. Finite /\ Held(table) /\ \A i \in DOMAIN table : DOMAIN table[i] = Fields
  BY TableShape DEF AllInv, CustodyInv
<1>2. /\ plugged' = plugged /\ configs' \in Orders(dir)
      /\ kbd' = [f \in Files |-> NewKeyboard]
      /\ table' = [i \in DOMAIN table |-> IF table[i].data = NoKbd THEN table[i]
                                         ELSE [table[i] EXCEPT !.data = Freed]]
  BY DEF Reload, Accepting, Positions
<1>3. Live' = dir /\ Freed \notin Live' /\ dir \subseteq Files
  BY <1>1, <1>2, DaemonAssumption DEF Finite, Orders, Live, Freed
<1>4. /\ DOMAIN table' = DOMAIN table
      /\ \A i \in DOMAIN table : /\ table'[i].node = table[i].node /\ table'[i].fd = table[i].fd
                                 /\ table'[i].grabbed = table[i].grabbed
                                 /\ table'[i].data = IF table[i].data = NoKbd THEN NoKbd ELSE Freed
  BY <1>1, <1>2 DEF Fields
<1>5. \A i \in DOMAIN table : \A p : IsGrabbed(table', i, p) <=> IsGrabbed(table, i, p)
  BY <1>4 DEF IsGrabbed, IsOpen
<1>6. ASSUME NEW p PROVE OwnerOf(p)' = IF OwnerOf(p) = "system" THEN "system" ELSE "limbo"
  <2>1. OwnedBy(table, Live, p, OwnerOf(p))
    BY BeforeAndAfter
  <2>2. CASE \E i \in DOMAIN table : IsGrabbed(table, i, p)
    <3>1. PICK i \in DOMAIN table : /\ IsGrabbed(table, i, p)
                                   /\ OwnerOf(p) = IF table[i].data \in Live THEN table[i].data ELSE "limbo"
      BY <2>1, <2>2 DEF OwnedBy
    <3>2. OwnerOf(p) # "system"
      BY <3>1, LiveFile, DaemonAssumption DEF AllInv, TypesInv
    <3>3. table'[i].data = Freed
      BY <1>1, <1>4, <3>1 DEF Held, IsGrabbed, IsOpen
    <3>4. OwnedBy(table', Live', p, "limbo")
      BY <1>3, <1>4, <1>5, <3>1, <3>3 DEF OwnedBy
    <3>5. OwnerOf(p)' = "limbo"
      BY <3>4, BeforeAndAfter, OneOwner
    <3> QED BY <3>2, <3>5
  <2>3. CASE ~\E i \in DOMAIN table : IsGrabbed(table, i, p)
    <3>1. OwnerOf(p) = "system"
      BY <2>1, <2>3 DEF OwnedBy
    <3>2. OwnedBy(table', Live', p, "system")
      BY <1>4, <1>5, <2>3 DEF OwnedBy
    <3>3. OwnerOf(p)' = "system"
      BY <3>2, BeforeAndAfter, OneOwner
    <3> QED BY <3>1, <3>3
  <2> QED BY <2>2, <2>3
<1>7. Owner' = [p \in Devices |-> IF Owner[p] = "system" THEN "system" ELSE "limbo"]
  BY <1>6 DEF Owner
<1>8. Keys' = [f \in Files |-> {}]
  BY <1>2 DEF Keys, NewKeyboard
<1> QED BY <1>2, <1>3, <1>7, <1>8 DEF Kept!Load, Kept!System, Kept!Limbo, Owner, Keys

\* manage_device leaves the other devices to whoever has them.
LEMMA OthersKeep ==
    ASSUME AllInv, AllInv', Managed \in DOMAIN table, NEW e, table' = [table EXCEPT ![Managed] = e],
           Live' = Live, e.node = table[Managed].node, NEW q, q # table[Managed].node
    PROVE  OwnerOf(q)' = OwnerOf(q)
<1>1. /\ DOMAIN table' = DOMAIN table /\ table'[Managed] = e
      /\ \A i \in DOMAIN table \ {Managed} : table'[i] = table[i]
  OBVIOUS
<1>2. ~IsGrabbed(table, Managed, q) /\ ~IsGrabbed(table', Managed, q)
  BY <1>1 DEF IsGrabbed, IsOpen
<1>3. ASSUME NEW i \in DOMAIN table, IsGrabbed(table, i, q)
      PROVE  \E j \in DOMAIN table' : IsGrabbed(table', j, q) /\ table'[j].data = table[i].data
  <2>1. table'[i] = table[i] /\ i \in DOMAIN table'
    BY <1>1, <1>2, <1>3
  <2> QED BY <1>3, <2>1 DEF IsGrabbed, IsOpen
<1>4. ASSUME NEW j \in DOMAIN table', IsGrabbed(table', j, q)
      PROVE  \E i \in DOMAIN table : IsGrabbed(table, i, q)
  <2>1. table'[j] = table[j] /\ j \in DOMAIN table
    BY <1>1, <1>2, <1>4
  <2> QED BY <1>4, <2>1 DEF IsGrabbed, IsOpen
<1> QED BY <1>3, <1>4, SameOwner

\* A device is taken for a file with the best claim on it, or given back when
\* there is none.
LEMMA ManageMaps ==
    ASSUME AllInv, AllInv', Ignore \/ Keep \/ Grab
    PROVE  SameCustody \/ \E p \in Devices : Kept!Take(p) \/ Kept!Give(p)
<1>1. UNCHANGED <<plugged, configs, kbd>>
  BY DEF Ignore, Keep, Grab, ManageStep, worldVars, engineVars
<1>2. Live' = Live /\ Keys' = Keys
  BY <1>1 DEF Live, Keys
<1>3. CASE Ignore /\ IsVirtual(Managed)
  <2>1. table' = table
    BY <1>3 DEF Ignore
  <2>2. \A q : OwnerOf(q)' = OwnerOf(q)
    BY <1>1, <1>2, <2>1 DEF OwnerOf, Positions
  <2> QED BY <1>1, <1>2, <2>2 DEF SameCustody, Owner
<1>4. CASE (Ignore /\ ~IsVirtual(Managed)) \/ Keep \/ Grab
  <2>0. PICK m, p : m = Managed /\ p = table[Managed].node
    OBVIOUS
  <2> DEFINE possible == table[m].fd = "open" /\ ~Grabbed(p)
             good(e) == /\ e.node = p /\ e.fd = table[m].fd
                        /\ \/ /\ Ignore /\ Claim(p) = NoKbd /\ e.data = NoKbd
                              /\ e.grabbed = (table[m].grabbed /\ e.fd # "open")
                           \/ /\ Keep /\ Claim(p) # NoKbd /\ e.data = Claim(p)
                              /\ table[m].grabbed /\ e.grabbed
                           \/ /\ Grab /\ Claim(p) # NoKbd /\ possible
                              /\ e.grabbed /\ e.data = Claim(p) /\ ~table[m].grabbed
                           \/ /\ Grab /\ ~possible /\ ~table[m].grabbed
                              /\ e.grabbed = table[m].grabbed /\ e.data = NoKbd
  <2>1. /\ m \in DOMAIN table /\ p \in Devices /\ table[m].data \in {NoKbd, Freed}
        /\ \E e : table' = [table EXCEPT ![m] = e] /\ good(e)
    BY <1>4, <2>0, ManagedEntry
  <2>2. PICK e : table' = [table EXCEPT ![m] = e] /\ good(e)
    BY <2>1
  <2>3. /\ DOMAIN table' = DOMAIN table /\ table'[m] = e
        /\ \A i \in DOMAIN table \ {m} : table'[i] = table[i]
    BY <2>1, <2>2
  <2>4. /\ Held(table) /\ Live \subseteq Files /\ Finite /\ Loaded
        /\ {"NULL", "freed", "system", "limbo"} \cap Files = {}
    BY LiveFile, TableShape, DaemonAssumption DEF AllInv, CustodyInv, TypesInv
  <2>5. \A q : q # p => OwnerOf(q)' = OwnerOf(q)
    BY <1>2, <2>0, <2>1, <2>2, OthersKeep
  <2>6. IF Claim(p) = NoKbd THEN Kept!Claimants(p) = {} ELSE Claim(p) \in Kept!Claimants(p) /\ Claim(p) \in Live
    BY <2>1, <2>4, ClaimIsBest, ClaimInUse DEF InUse
  <2>7. ASSUME NEW o, OwnedBy(table', Live', p, o) PROVE Owner' = [Owner EXCEPT ![p] = o]
    <3>1. OwnerOf(p)' = o
      BY <2>7, BeforeAndAfter, OneOwner
    <3> QED BY <2>1, <2>5, <3>1 DEF Owner
  <2>8. ASSUME NEW o, OwnedBy(table, Live, p, o) PROVE Owner[p] = o
    <3>1. OwnerOf(p) = o
      BY <2>8, BeforeAndAfter, OneOwner
    <3> QED BY <2>1, <3>1 DEF Owner
  <2>9. IsGrabbed(table, m, p) => OwnedBy(table, Live, p, "limbo")
    BY <2>1, <2>4 DEF OwnedBy, NoKbd, Freed
  <2>10. ASSUME \A i \in DOMAIN table' : IsGrabbed(table', i, p) <=> IsGrabbed(table, i, p),
                ~IsGrabbed(table', m, p)
         PROVE  SameCustody
    <3>1. ASSUME NEW i \in DOMAIN table, IsGrabbed(table, i, p)
          PROVE  \E j \in DOMAIN table' : IsGrabbed(table', j, p) /\ table'[j].data = table[i].data
      <4>1. i \in DOMAIN table \ {m} /\ table'[i] = table[i]
        BY <2>3, <2>10, <3>1
      <4> QED BY <2>3, <2>10, <3>1, <4>1
    <3>2. ASSUME NEW j \in DOMAIN table', IsGrabbed(table', j, p)
          PROVE  \E i \in DOMAIN table : IsGrabbed(table, i, p)
      BY <2>3, <2>10, <3>2
    <3>3. OwnerOf(p)' = OwnerOf(p)
      BY <1>2, <3>1, <3>2, SameOwner
    <3> QED BY <1>1, <1>2, <2>5, <3>3 DEF SameCustody, Owner
  <2>11. \A i \in DOMAIN table \ {m} : IsGrabbed(table', i, p) <=> IsGrabbed(table, i, p)
    BY <2>3 DEF IsGrabbed, IsOpen
  <2>12. /\ IsGrabbed(table, m, p) <=> table[m].fd = "open" /\ table[m].grabbed
         /\ IsGrabbed(table', m, p) <=> table[m].fd = "open" /\ e.grabbed
    BY <2>0, <2>2, <2>3 DEF IsGrabbed, IsOpen
  <2>13. ASSUME IsGrabbed(table', m, p), e.data = Claim(p), Claim(p) # NoKbd,
                OwnedBy(table, Live, p, "limbo") \/ OwnedBy(table, Live, p, "system")
         PROVE  Kept!Take(p)
    <3>1. OwnedBy(table', Live', p, Claim(p))
      BY <1>2, <2>1, <2>3, <2>6, <2>13 DEF OwnedBy
    <3>2. Owner' = [Owner EXCEPT ![p] = Claim(p)]
      BY <2>7, <3>1
    <3>3. Owner[p] \in {"system", "limbo"}
      BY <2>8, <2>13
    <3>4. p \in plugged
      BY <1>1, <2>0, <2>1, <2>2, <2>3, <2>4, <2>12, <2>13 DEF Held
    <3> QED BY <1>1, <1>2, <2>6, <2>13, <3>2, <3>3, <3>4
            DEF Kept!Take, Kept!System, Kept!Limbo, Owner, Keys
  <2>14. CASE Ignore /\ Claim(p) = NoKbd /\ e.grabbed = (table[m].grabbed /\ e.fd # "open")
    <3>1. ~IsGrabbed(table', m, p)
      BY <2>2, <2>12, <2>14
    <3>2. CASE ~IsGrabbed(table, m, p)
      BY <2>3, <2>10, <2>11, <3>1, <3>2
    <3>3. CASE IsGrabbed(table, m, p)
      <4>1. \A i \in DOMAIN table \ {m} : ~IsGrabbed(table, i, p)
        BY <2>1, <3>3, BeforeAndAfter DEF Exclusive, IsGrabbed
      <4>2. \A i \in DOMAIN table' : ~IsGrabbed(table', i, p)
        BY <2>3, <2>11, <3>1, <4>1
      <4>3. OwnedBy(table', Live', p, "system")
        BY <4>2 DEF OwnedBy
      <4>4. Owner' = [Owner EXCEPT ![p] = "system"] /\ Owner[p] = "limbo"
        BY <2>7, <2>8, <2>9, <3>3, <4>3
      <4>5. Kept!Give(p)
        BY <1>1, <1>2, <2>6, <2>14, <4>4 DEF Kept!Give, Kept!System, Kept!Limbo, Owner, Keys
      <4> QED BY <2>1, <4>5
    <3> QED BY <3>2, <3>3
  <2>15. CASE Keep /\ Claim(p) # NoKbd /\ e.data = Claim(p) /\ table[m].grabbed /\ e.grabbed
    <3>1. CASE table[m].fd = "open"
      BY <2>1, <2>9, <2>12, <2>13, <2>15, <3>1
    <3>2. CASE table[m].fd # "open"
      BY <2>3, <2>10, <2>11, <2>12, <3>2
    <3> QED BY <3>1, <3>2
  <2>16. CASE Grab /\ Claim(p) # NoKbd /\ possible /\ e.grabbed /\ e.data = Claim(p)
    <3>1. \A i \in DOMAIN table : ~IsGrabbed(table, i, p)
      BY <2>16 DEF Grabbed, Through, Positions, IsGrabbed, IsOpen
    <3>2. OwnedBy(table, Live, p, "system") /\ IsGrabbed(table', m, p)
      BY <2>12, <2>16, <3>1 DEF OwnedBy
    <3> QED BY <2>1, <2>13, <2>16, <3>2
  <2>17. CASE Grab /\ ~table[m].grabbed /\ e.grabbed = table[m].grabbed
    BY <2>3, <2>10, <2>11, <2>12, <2>17
  <2> QED BY <2>2, <2>14, <2>15, <2>16, <2>17
<1> QED BY <1>3, <1>4

-----------------------------------------------------------------------------

\* Every step of the daemon is one of Custody, or changes nothing it speaks of.
LEMMA StepIsKept ==
    ASSUME NoAxes, AllInv, AllInv', [Next]_vars
    PROVE  SameCustody \/ Kept!Next
<1>1. CASE Reload
  <2>1. PICK F : F = dir
    OBVIOUS
  <2>2. F \in SUBSET Files /\ Kept!Load(F)
    BY <1>1, <2>1, ReloadMaps, TableShape DEF Finite
  <2> QED BY <2>2 DEF Kept!Next
<1>2. CASE Quiet /\ ~Reload
  <2>1. Live' = Live /\ Owner' = Owner
    BY <1>2, QuietOwners
  <2>2. CASE \E i \in Positions : ReadKey(i)
    <3>1. \/ Keys' = Keys /\ plugged' = plugged
          \/ \E p \in Devices : \E c \in DeviceKeys[p] : Kept!Handle(p, c)
      BY <2>2, ReadKeyHandles
    <3> QED BY <2>1, <3>1 DEF SameCustody, Kept!Next
  <2>3. CASE ~\E i \in Positions : ReadKey(i)
    <3>1. Keys' = Keys
      BY <1>2, <2>3, KeysChange
    <3>2. ASSUME NEW p \in Devices, Plug(p) PROVE Kept!Plug(p)
      BY <2>1, <3>1, <3>2 DEF Plug, Kept!Plug, Owner, Keys
    <3>3. ASSUME NEW p \in Devices, Unplug(p) PROVE Kept!Unplug(p)
      BY <3>3, UnplugMaps
    <3> QED BY <2>1, <3>1, <3>2, <3>3, PluggedChange DEF SameCustody, Kept!Next
  <2> QED BY <2>2, <2>3
<1>3. ASSUME NEW p \in Devices, Unplug(p) PROVE Kept!Next
  BY <1>3, UnplugMaps DEF Kept!Next
<1>4. CASE Scan \/ Opened \/ Turn
  BY <1>4, TableGrowsOrShrinks
<1>5. CASE Ignore \/ Keep \/ Grab
  BY <1>5, ManageMaps DEF Kept!Next
<1> QED BY <1>1, <1>2, <1>3, <1>4, <1>5, QuietOrNot, NothingDropped

\* At the start nobody owns anything.
LEMMA InitIsKept == Init => Kept!Init
<1> SUFFICES ASSUME Init PROVE Kept!Init
  OBVIOUS
<1>1. plugged \subseteq Devices /\ Live \subseteq Files
  BY InitAllInv, LiveFile, TableShape DEF AllInv, TypesInv, Finite
<1>2. \A p \in Devices : OwnerOf(p) = "system"
  <2> SUFFICES ASSUME NEW p \in Devices PROVE OwnerOf(p) = "system"
    OBVIOUS
  <2> DEFINE mine == {i \in Positions : table[i].node = p /\ table[i].fd = "open" /\ table[i].grabbed}
  <2>1. mine = {}
    BY DEF Init, Positions
  <2> QED BY <2>1 DEF OwnerOf
<1>3. \A f \in Files : kbd[f].down = {}
  BY DEF Init, NewKeyboard
<1> QED BY <1>1, <1>2, <1>3 DEF Kept!Init, Kept!System

\* Whoever has a device can be read off the table: the steps that may change
\* it are those of manage_device, reload and a device that goes away
\* (daemon.c:209-251, evloop.c:94-116).
THEOREM CustodyInvariant == Spec => []AllInv
BY InitAllInv, AllInvStep, PTL DEF Spec

\* Each device goes to a file with the best claim on it, a reload replaces all
\* keyboards before another event is handled, and an event changes only the
\* keyboard that owns its device (daemon.c:185-251, 405-477): every behaviour
\* of the daemon is one of Custody.
THEOREM Custodian == NoAxes => (Spec => DevicesInCustody)
<1> SUFFICES ASSUME NoAxes PROVE Spec => DevicesInCustody
  OBVIOUS
<1>1. AllInv /\ AllInv' /\ [Next]_vars
      => [Kept!Next]_<<plugged, Live, [p \in Devices |-> OwnerOf(p)], [f \in Files |-> kbd[f].down]>>
  <2> SUFFICES ASSUME AllInv, AllInv', [Next]_vars
               PROVE  [Kept!Next]_<<plugged, Live, [p \in Devices |-> OwnerOf(p)],
                                    [f \in Files |-> kbd[f].down]>>
    OBVIOUS
  <2> QED BY StepIsKept DEF SameCustody, Owner, Keys
<1>2. Spec => Kept!Init
  BY InitIsKept DEF Spec
<1> QED BY <1>1, <1>2, CustodyInvariant, PTL DEF Spec, DevicesInCustody, Kept!Spec

-----------------------------------------------------------------------------
(* Releases to come.                                                        *)

\* Every press that is queued is followed by its release, or the key is down.
Follows(q, down) ==
    \A n \in DOMAIN q : q[n].type = "key" /\ q[n].down => ReleaseAfter(q, n, down, q[n].code)

\* A queue gets what the kernel sends: presses of keys that are up, and releases
\* of keys that are down.
Sent(e, down, after) ==
    \A c : /\ OfKey(e, c) /\ e.down => c \notin down /\ c \in after
           /\ ~OfKey(e, c) /\ c \in down => c \in after

LEMMA AppendedAfter ==
    ASSUME NEW S, NEW q \in Seq(S), NEW e \in S, NEW down, NEW after, Sent(e, down, after),
           NEW k \in Nat, k <= Len(q), NEW c, ReleaseAfter(q, k, down, c)
    PROVE  ReleaseAfter(Append(q, e), k, after, c)
<1> DEFINE r == Append(q, e)
<1>1. /\ Len(q) \in Nat /\ DOMAIN q = 1 .. Len(q) /\ DOMAIN r = 1 .. Len(q) + 1
      /\ \A i \in 1 .. Len(q) : r[i] = q[i]
      /\ r[Len(q) + 1] = e
  <2>1. r \in Seq(S) /\ Len(r) = Len(q) + 1
    BY AppendProperties
  <2> QED BY <2>1, AppendProperties, LenProperties
<1> HIDE DEF r
<1>2. CASE \E n \in DOMAIN q : /\ n > k /\ OfKey(q[n], c) /\ ~q[n].down
                               /\ \A m \in DOMAIN q : k < m /\ m < n => ~OfKey(q[m], c)
  <2>1. PICK n \in DOMAIN q : /\ n > k /\ OfKey(q[n], c) /\ ~q[n].down
                              /\ \A m \in DOMAIN q : k < m /\ m < n => ~OfKey(q[m], c)
    BY <1>2
  <2>2. n \in DOMAIN r /\ r[n] = q[n]
    BY <1>1
  <2>3. ASSUME NEW m \in DOMAIN r, k < m, m < n PROVE ~OfKey(r[m], c)
    <3>1. m \in DOMAIN q /\ r[m] = q[m]
      BY <1>1, <2>3
    <3> QED BY <2>1, <2>3, <3>1
  <2> QED BY <2>1, <2>2, <2>3 DEF ReleaseAfter, r
<1>3. CASE c \in down /\ \A m \in DOMAIN q : m > k => ~OfKey(q[m], c)
  <2>1. \A m \in DOMAIN r : m > k /\ m # Len(q) + 1 => ~OfKey(r[m], c)
    BY <1>1, <1>3
  <2>2. CASE OfKey(e, c)
    <3>1. ~e.down
      BY <1>3, <2>2 DEF Sent
    <3>2. Len(q) + 1 \in DOMAIN r /\ Len(q) + 1 > k
      BY <1>1
    <3>3. \A m \in DOMAIN r : k < m /\ m < Len(q) + 1 => ~OfKey(r[m], c)
      BY <1>1, <2>1
    <3> QED BY <1>1, <2>2, <3>1, <3>2, <3>3 DEF ReleaseAfter, r
  <2>3. CASE ~OfKey(e, c)
    <3>1. c \in after
      BY <1>3, <2>3 DEF Sent
    <3>2. \A m \in DOMAIN r : m > k => ~OfKey(r[m], c)
      BY <1>1, <2>1, <2>3
    <3> QED BY <3>1, <3>2 DEF ReleaseAfter, r
  <2> QED BY <2>2, <2>3
<1> QED BY <1>2, <1>3 DEF ReleaseAfter

LEMMA AppendedFollows ==
    ASSUME NEW S, NEW q \in Seq(S), NEW e \in S, NEW down, NEW after, Sent(e, down, after),
           Follows(q, down)
    PROVE  Follows(Append(q, e), after)
<1> DEFINE r == Append(q, e)
<1>1. /\ Len(q) \in Nat /\ DOMAIN q = 1 .. Len(q) /\ DOMAIN r = 1 .. Len(q) + 1
      /\ \A i \in 1 .. Len(q) : r[i] = q[i]
      /\ r[Len(q) + 1] = e
  <2>1. r \in Seq(S) /\ Len(r) = Len(q) + 1
    BY AppendProperties
  <2> QED BY <2>1, AppendProperties, LenProperties
<1> HIDE DEF r
<1> SUFFICES ASSUME NEW n \in DOMAIN r, r[n].type = "key", r[n].down
             PROVE  ReleaseAfter(r, n, after, r[n].code)
  BY DEF Follows, r
<1>2. CASE n \in DOMAIN q
  <2>1. ReleaseAfter(q, n, down, q[n].code) /\ n \in Nat /\ n <= Len(q) /\ r[n] = q[n]
    BY <1>1, <1>2 DEF Follows
  <2> QED BY <2>1, AppendedAfter DEF r
<1>3. CASE n = Len(q) + 1
  <2>1. e.code \in after
    BY <1>1, <1>3 DEF Sent, OfKey
  <2>2. \A m \in DOMAIN r : ~(m > n)
    BY <1>1, <1>3
  <2> QED BY <1>1, <1>3, <2>1, <2>2 DEF ReleaseAfter
<1> QED BY <1>1, <1>2, <1>3

LEMMA TailAfter ==
    ASSUME NEW S, NEW q \in Seq(S), q # <<>>, NEW down, NEW k \in Nat, NEW c,
           ReleaseAfter(q, k + 1, down, c)
    PROVE  ReleaseAfter(Tail(q), k, down, c)
<1> DEFINE r == Tail(q)
<1>1. /\ Len(q) \in Nat \ {0} /\ DOMAIN q = 1 .. Len(q) /\ DOMAIN r = 1 .. Len(q) - 1
      /\ \A i \in DOMAIN r : i + 1 \in DOMAIN q /\ r[i] = q[i + 1]
      /\ \A i \in DOMAIN q : i > 1 => i - 1 \in DOMAIN r /\ r[i - 1] = q[i]
  <2>1. Len(q) \in Nat \ {0} /\ DOMAIN q = 1 .. Len(q)
    BY LenProperties, EmptySeq
  <2>2. r \in Seq(S) /\ Len(r) = Len(q) - 1 /\ \A i \in 1 .. Len(r) : r[i] = q[i + 1]
    BY HeadTailProperties
  <2>3. DOMAIN r = 1 .. Len(q) - 1
    BY <2>2, LenProperties
  <2> HIDE DEF r
  <2>4. \A i \in DOMAIN r : i + 1 \in DOMAIN q /\ r[i] = q[i + 1]
    BY <2>1, <2>2, <2>3
  <2>5. ASSUME NEW i \in DOMAIN q, i > 1 PROVE i - 1 \in DOMAIN r /\ r[i - 1] = q[i]
    <3>1. i - 1 \in 1 .. Len(q) - 1 /\ (i - 1) + 1 = i
      BY <2>1, <2>5
    <3> QED BY <2>2, <2>3, <3>1
  <2> QED BY <2>1, <2>3, <2>4, <2>5
<1> HIDE DEF r
<1>2. ASSUME NEW n \in DOMAIN q, n > k + 1, OfKey(q[n], c), ~q[n].down,
             \A m \in DOMAIN q : k + 1 < m /\ m < n => ~OfKey(q[m], c)
      PROVE  ReleaseAfter(r, k, down, c)
  <2>1. n - 1 \in DOMAIN r /\ r[n - 1] = q[n] /\ n - 1 > k
    BY <1>1, <1>2
  <2>2. ASSUME NEW m \in DOMAIN r, k < m, m < n - 1 PROVE ~OfKey(r[m], c)
    <3>1. m + 1 \in DOMAIN q /\ r[m] = q[m + 1] /\ k + 1 < m + 1 /\ m + 1 < n
      BY <1>1, <2>2
    <3> QED BY <1>2, <3>1
  <2> QED BY <1>2, <2>1, <2>2 DEF ReleaseAfter
<1>3. ASSUME c \in down, \A m \in DOMAIN q : m > k + 1 => ~OfKey(q[m], c)
      PROVE  ReleaseAfter(r, k, down, c)
  <2>1. ASSUME NEW m \in DOMAIN r, m > k PROVE ~OfKey(r[m], c)
    <3>1. m + 1 \in DOMAIN q /\ r[m] = q[m + 1] /\ m + 1 > k + 1
      BY <1>1, <2>1
    <3> QED BY <1>3, <3>1
  <2> QED BY <1>3, <2>1 DEF ReleaseAfter
<1> QED BY <1>2, <1>3 DEF ReleaseAfter, r

\* Taking the head of a queue leaves the releases of other keys to come.
LEMMA TailFollows ==
    ASSUME NEW S, NEW q \in Seq(S), q # <<>>, NEW down
    PROVE  /\ Follows(q, down) => Follows(Tail(q), down)
           /\ \A c : ReleaseAfter(q, 0, down, c) /\ ~OfKey(Head(q), c)
                     => ReleaseAfter(Tail(q), 0, down, c)
           /\ \A c : Follows(q, down) /\ OfKey(Head(q), c) /\ Head(q).down
                     => ReleaseAfter(Tail(q), 0, down, c)
<1>1. /\ Len(q) \in Nat \ {0} /\ DOMAIN q = 1 .. Len(q) /\ Head(q) = q[1]
      /\ Tail(q) \in Seq(S) /\ DOMAIN Tail(q) = 1 .. Len(q) - 1
      /\ \A i \in 1 .. Len(q) - 1 : Tail(q)[i] = q[i + 1]
  <2>1. Len(q) \in Nat \ {0} /\ DOMAIN q = 1 .. Len(q) /\ Head(q) = q[1]
    BY LenProperties, EmptySeq
  <2>2. Tail(q) \in Seq(S) /\ Len(Tail(q)) = Len(q) - 1 /\ \A i \in 1 .. Len(Tail(q)) : Tail(q)[i] = q[i + 1]
    BY HeadTailProperties
  <2> QED BY <2>1, <2>2, LenProperties
<1>2. ASSUME Follows(q, down) PROVE Follows(Tail(q), down)
  <2> SUFFICES ASSUME NEW n \in DOMAIN Tail(q), Tail(q)[n].type = "key", Tail(q)[n].down
               PROVE  ReleaseAfter(Tail(q), n, down, Tail(q)[n].code)
    BY DEF Follows
  <2>1. n \in Nat /\ n + 1 \in DOMAIN q /\ Tail(q)[n] = q[n + 1]
    BY <1>1
  <2>2. ReleaseAfter(q, n + 1, down, q[n + 1].code)
    BY <1>2, <2>1 DEF Follows
  <2> QED BY <2>1, <2>2, TailAfter
<1>3. ASSUME NEW c, ReleaseAfter(q, 0, down, c), ~OfKey(Head(q), c)
      PROVE  ReleaseAfter(Tail(q), 0, down, c)
  <2>1. ReleaseAfter(q, 1, down, c)
    <3>1. ASSUME NEW n \in DOMAIN q, n > 0, OfKey(q[n], c), ~q[n].down,
                 \A m \in DOMAIN q : 0 < m /\ m < n => ~OfKey(q[m], c)
          PROVE  ReleaseAfter(q, 1, down, c)
      <4>1. n > 1 /\ \A m \in DOMAIN q : 1 < m /\ m < n => 0 < m /\ m < n
        BY <1>1, <1>3, <3>1
      <4> QED BY <3>1, <4>1 DEF ReleaseAfter
    <3>2. ASSUME c \in down, \A m \in DOMAIN q : m > 0 => ~OfKey(q[m], c)
          PROVE  ReleaseAfter(q, 1, down, c)
      <4>1. \A m \in DOMAIN q : m > 1 => m > 0
        BY <1>1
      <4> QED BY <3>2, <4>1 DEF ReleaseAfter
    <3> QED BY <1>3, <3>1, <3>2 DEF ReleaseAfter
  <2> QED BY <2>1, TailAfter, 1 = 0 + 1
<1>4. ASSUME NEW c, Follows(q, down), OfKey(Head(q), c), Head(q).down
      PROVE  ReleaseAfter(Tail(q), 0, down, c)
  <2>1. 1 \in DOMAIN q /\ q[1].type = "key" /\ q[1].code = c /\ q[1].down
    BY <1>1, <1>4 DEF OfKey
  <2>2. ReleaseAfter(q, 1, down, c)
    BY <1>4, <2>1 DEF Follows
  <2> QED BY <2>2, TailAfter, 1 = 0 + 1
<1> QED BY <1>2, <1>3, <1>4

-----------------------------------------------------------------------------
(* Keys that are down.                                                      *)

\* What is down on a device whose events the loop has to itself was pressed
\* after the grab, so the release of every press in its queue is still to come.
Followed == \A i \in Positions : table[i].fd = "open" /\ table[i].grabbed =>
                Follows(table[i].queue, pressed[table[i].node])

\* A keyboard that was just made has nothing down.
Fresh == Reloading => \A f \in Files : kbd[f].down = {}

Cover(f, c) == <<f, c>> \in stranded \/ \E i \in Positions : WillRelease(i, f, c)
Covered == alive /\ ~Reloading => \A f \in Live : \A c \in kbd[f].down : Cover(f, c)

Strand == DOMAIN pressed = Devices /\ Followed /\ Fresh /\ Covered

\* What only a reload changes.
LEMMA OnlyReload ==
    ASSUME AllInv, [Next]_vars
    PROVE  \/ Reload \/ Reloaded
           \/ UNCHANGED configs /\ (Reloading' <=> Reloading) /\ (alive' => alive)
<1>1. CASE World
  BY <1>1, WorldLeaves DEF daemonVars, controlVars, Reloading
<1>2. CASE Scan \/ TooManyFound \/ UNCHANGED vars
  BY <1>2 DEF Scan, TooManyFound, vars, controlVars, Reloading, AllInv, KeysInv, Returning
<1>3. CASE Manage
  <2>1. UNCHANGED <<configs, alive>>
    BY <1>3, ManageLeaves DEF ManageStep
  <2>2. CASE AllManaged
    BY <2>1, <2>2 DEF AllManaged, Reloading
  <2>3. CASE Ignore \/ Keep \/ AwaitNeutral \/ Grab
    BY <2>1, <2>3 DEF Ignore, Keep, AwaitNeutral, Grab, Managing, Reloading
  <2> QED BY <1>3, <2>2, <2>3 DEF Manage
<1>4. CASE Wake
  BY <1>4 DEF Wake, WakeForEvents, WakeUnclaimed, WakeForTimeout, WakeFreed, WakeStep, Reloading
<1>5. CASE Read
  <2>1. alive /\ pc # "reloaded"
    BY <1>5 DEF Read, ReadRemoved, ReadDropped, ReadNothing, Panic, ReadKey, ReadScroll, ReadMove,
                ReadUnmanaged, Taken, Returned, Reading, AllRead
  <2>2. ReadStep \/ AllRead
    BY <1>5, ReadLeaves
  <2> QED BY <2>1, <2>2 DEF ReadStep, AllRead, AfterRequests, Reloading
<1>6. CASE AddListener \/ Do \/ Input
  BY <1>6 DEF AddListener, Do, Input, Answering, Accepting, AfterRequests, Reloading
<1>7. CASE Watch
  BY <1>7 DEF Watch, Opened, TableFull, NotOpened, AllOpened, WatchStep, Reloading, AllInv, KeysInv,
              Returning
<1>8. CASE Turn
  BY <1>8 DEF Turn, Reloading
<1> QED BY <1>1, <1>2, <1>3, <1>4, <1>5, <1>6, <1>7, <1>8 DEF Next, Daemon, Serve

\* A step that leaves the keyboards alone, and of what is to come only what it
\* notes as stranded.
LEMMA CoverKept ==
    ASSUME AllInv, Strand, [Next]_vars, ~Reload, ~Reloaded, Keys' = Keys,
           \A f \in Live : \A c \in kbd[f].down : Cover(f, c) => Cover(f, c)'
    PROVE  Fresh' /\ Covered'
<1>1. UNCHANGED configs /\ (Reloading' <=> Reloading) /\ (alive' => alive)
  BY OnlyReload
<1>2. Live' = Live /\ Live \subseteq Files
  BY <1>1, LiveFile DEF Live, AllInv, TypesInv
<1>3. \A f \in Files : kbd'[f].down = kbd[f].down
  <2> SUFFICES ASSUME NEW f \in Files PROVE kbd'[f].down = kbd[f].down
    OBVIOUS
  <2>1. Keys'[f] = kbd'[f].down /\ Keys[f] = kbd[f].down
    BY DEF Keys
  <2> QED BY <2>1
<1>4. Fresh'
  BY <1>1, <1>3 DEF Strand, Fresh
<1>5. Covered'
  BY <1>1, <1>2, <1>3 DEF Strand, Covered
<1> QED BY <1>4, <1>5

\* A step that changes neither the table nor the devices.
LEMMA SameStrand ==
    ASSUME AllInv, Strand, [Next]_vars, ~Reload, ~Reloaded, Keys' = Keys,
           UNCHANGED <<table, pressed, stranded>>
    PROVE  Strand'
<1>1. \A f, c : Cover(f, c) => Cover(f, c)'
  BY DEF Cover, WillRelease, ReleaseToCome, Positions
<1>2. Followed'
  BY DEF Strand, Followed, Positions
<1> QED BY <1>1, <1>2, CoverKept DEF Strand

\* A keyboard in use is read from a device that is grabbed.
LEMMA WhoReleases ==
    ASSUME AllInv, NEW f \in Live, NEW c, NEW i \in Positions, WillRelease(i, f, c)
    PROVE  /\ table[i].fd = "open" /\ table[i].grabbed /\ table[i].data = f
           /\ f \in Files /\ f # NoKbd /\ f # Freed
           /\ table[i].queue \in Seq(EventsOf(table[i].node)) /\ table[i].node \in Devices
           /\ ReleaseAfter(table[i].queue, 0, pressed[table[i].node], c)
<1>1. Held(table) /\ Live \subseteq Files /\ Entries(table)
  BY LiveFile, TableShape DEF AllInv, CustodyInv, TypesInv
<1> QED BY <1>1, DaemonAssumption
        DEF WillRelease, Held, Entries, IsEntry, Positions, ReleaseToCome, NoKbd, Freed

\* An event of a device goes to the descriptor that has it to itself.
LEMMA DeliverKeepsStrand ==
    ASSUME AllInv, Strand, [Next]_vars, ~Reload, ~Reloaded, Keys' = Keys, UNCHANGED stranded,
           NEW p \in Devices, NEW e \in EventsOf(p), Deliver(p, e),
           DOMAIN pressed' = Devices, \A q \in Devices \ {p} : pressed'[q] = pressed[q],
           Sent(e, pressed[p], pressed'[p])
    PROVE  Strand'
<1>1. /\ DOMAIN table' = DOMAIN table /\ Entries(table)
      /\ \A i \in DOMAIN table : ~Receives(i, p) => table'[i] = table[i]
      /\ \A i \in DOMAIN table : Receives(i, p) =>
            /\ table'[i].node = table[i].node /\ table'[i].fd = table[i].fd
            /\ table'[i].data = table[i].data /\ table'[i].grabbed = table[i].grabbed
            /\ table'[i].queue = Append(table[i].queue, e)
  BY TableShape DEF Deliver, Positions, Fields
<1>2. ASSUME NEW i \in DOMAIN table, table[i].grabbed, table[i].fd = "open"
      PROVE  IF table[i].node = p THEN Receives(i, p) ELSE ~Receives(i, p)
  BY <1>2 DEF Receives, Through
<1>3. \A i \in DOMAIN table : table[i].queue \in Seq(EventsOf(table[i].node)) /\ table[i].node \in Devices
  BY <1>1 DEF Entries, IsEntry
<1>4. Followed'
  <2> SUFFICES ASSUME NEW i \in DOMAIN table, table'[i].fd = "open", table'[i].grabbed
               PROVE  Follows(table'[i].queue, pressed'[table'[i].node])
    BY <1>1 DEF Followed, Positions
  <2>1. table[i].fd = "open" /\ table[i].grabbed /\ Follows(table[i].queue, pressed[table[i].node])
    BY <1>1 DEF Strand, Followed, Positions
  <2>2. CASE table[i].node = p
    <3>1. Receives(i, p) /\ table[i].queue \in Seq(EventsOf(p))
      BY <1>2, <1>3, <2>1, <2>2
    <3>2. Follows(Append(table[i].queue, e), pressed'[p])
      BY <2>1, <2>2, <3>1, AppendedFollows
    <3> QED BY <1>1, <2>2, <3>1, <3>2
  <2>3. CASE table[i].node # p
    BY <1>1, <1>2, <1>3, <2>1, <2>3
  <2> QED BY <2>2, <2>3
<1>5. ASSUME NEW f \in Live, NEW c \in kbd[f].down, Cover(f, c) PROVE Cover(f, c)'
  <2>1. CASE <<f, c>> \in stranded
    BY <2>1 DEF Cover
  <2>2. ASSUME NEW i \in Positions, WillRelease(i, f, c) PROVE i \in Positions' /\ WillRelease(i, f, c)'
    <3>1. /\ table[i].fd = "open" /\ table[i].grabbed /\ table[i].data = f
          /\ ReleaseAfter(table[i].queue, 0, pressed[table[i].node], c)
      BY <2>2, WhoReleases
    <3>2. CASE table[i].node = p
      <4>1. Receives(i, p)
        BY <1>2, <3>1, <3>2 DEF Positions
      <4>2. 0 <= Len(table[i].queue)
        BY <1>3, <3>2, LenProperties DEF Positions
      <4>3. ReleaseAfter(Append(table[i].queue, e), 0, pressed'[p], c)
        BY <1>3, <3>1, <3>2, <4>2, AppendedAfter DEF Positions
      <4> QED BY <1>1, <3>1, <3>2, <4>1, <4>3 DEF WillRelease, ReleaseToCome, Positions
    <3>3. CASE table[i].node # p
      <4>1. table'[i] = table[i] /\ pressed'[table[i].node] = pressed[table[i].node]
        BY <1>1, <1>2, <1>3, <3>1, <3>3 DEF Positions
      <4> QED BY <1>1, <3>1, <4>1 DEF WillRelease, ReleaseToCome, Positions
    <3> QED BY <3>2, <3>3
  <2> QED BY <1>5, <2>1, <2>2 DEF Cover
<1> QED BY <1>4, <1>5, CoverKept DEF Strand

\* When a device goes, what was to come from it is stranded.
LEMMA UnplugKeepsStrand ==
    ASSUME AllInv, Strand, [Next]_vars, ~Reload, ~Reloaded, Keys' = Keys,
           NEW p \in Devices, Unplug(p)
    PROVE  Strand'
<1>1. /\ DOMAIN table' = DOMAIN table /\ Entries(table)
      /\ \A i \in DOMAIN table : IF Through(i, p) THEN table'[i].fd = "dead" ELSE table'[i] = table[i]
      /\ \A q \in Devices \ {p} : pressed'[q] = pressed[q]
      /\ DOMAIN pressed' = Devices
      /\ stranded' = stranded \cup ReleasesLost({i \in Positions : Through(i, p)})
  BY TableShape DEF Unplug, Positions, Fields, Strand
<1>2. ASSUME NEW i \in DOMAIN table, table'[i].fd = "open"
      PROVE  /\ table'[i] = table[i] /\ ~Through(i, p)
             /\ pressed'[table[i].node] = pressed[table[i].node]
  BY <1>1, <1>2 DEF Through, Entries, IsEntry
<1>3. Followed'
  BY <1>1, <1>2 DEF Strand, Followed, Positions
<1>4. ASSUME NEW f \in Live, NEW c \in kbd[f].down, Cover(f, c) PROVE Cover(f, c)'
  <2>1. CASE <<f, c>> \in stranded
    BY <1>1, <2>1 DEF Cover
  <2>2. ASSUME NEW i \in Positions, WillRelease(i, f, c), Through(i, p) PROVE <<f, c>> \in stranded'
    <3>1. f \in Files
      BY <2>2, WhoReleases
    <3>2. <<f, c>> \in KeysDown
      BY <3>1 DEF KeysDown
    <3>3. <<f, c>> \in ReleasesLost({j \in Positions : Through(j, p)})
      BY <2>2, <3>2 DEF ReleasesLost, WillRelease
    <3> QED BY <1>1, <3>3
  <2>3. ASSUME NEW i \in Positions, WillRelease(i, f, c), ~Through(i, p)
        PROVE  i \in Positions' /\ WillRelease(i, f, c)'
    <3>1. i \in DOMAIN table /\ table'[i] = table[i] /\ table'[i].fd = "open"
      BY <1>1, <2>3 DEF WillRelease, Positions
    <3> QED BY <1>1, <1>2, <2>3, <3>1 DEF WillRelease, ReleaseToCome, Positions
  <2> QED BY <1>4, <2>1, <2>2, <2>3 DEF Cover
<1> QED BY <1>1, <1>3, <1>4, CoverKept DEF Strand

\* So is it when the device is taken for one that went.
LEMMA DropKeepsStrand ==
    ASSUME AllInv, Strand, [Next]_vars, ~Reload, ~Reloaded, Keys' = Keys,
           NEW k \in Positions, ReadDropped(k)
    PROVE  Strand'
<1>1. /\ DOMAIN table' = DOMAIN table /\ table'[k].fd = "closed"
      /\ \A i \in DOMAIN table \ {k} : table'[i] = table[i]
      /\ stranded' = stranded \cup ReleasesLost({k}) /\ UNCHANGED pressed
  BY TableShape DEF ReadDropped, ReadStep, worldVars, Positions, Fields
<1>2. Followed'
  BY <1>1 DEF Strand, Followed, Positions
<1>3. ASSUME NEW f \in Live, NEW c \in kbd[f].down, Cover(f, c) PROVE Cover(f, c)'
  <2>1. CASE <<f, c>> \in stranded
    BY <1>1, <2>1 DEF Cover
  <2>2. ASSUME WillRelease(k, f, c) PROVE <<f, c>> \in stranded'
    <3>1. f \in Files
      BY <2>2, WhoReleases
    <3>2. <<f, c>> \in KeysDown
      BY <3>1 DEF KeysDown
    <3>3. <<f, c>> \in ReleasesLost({k})
      BY <2>2, <3>2 DEF ReleasesLost, WillRelease
    <3> QED BY <1>1, <3>3
  <2>3. ASSUME NEW i \in Positions, WillRelease(i, f, c), i # k
        PROVE  i \in Positions' /\ WillRelease(i, f, c)'
    BY <1>1, <2>3 DEF WillRelease, ReleaseToCome, Positions
  <2> QED BY <1>3, <2>1, <2>2, <2>3 DEF Cover
<1> QED BY <1>1, <1>2, <1>3, CoverKept DEF Strand

\* manage_device is called for no device that a keyboard in use is read from,
\* and what it grabs has nothing queued.
LEMMA ManageKeepsStrand ==
    ASSUME AllInv, Strand, [Next]_vars, ~Reload, ~Reloaded, Keys' = Keys,
           (Ignore /\ ~IsVirtual(Managed)) \/ Keep \/ Grab
    PROVE  Strand'
<1> DEFINE m == Managed
           good(e) == /\ e.fd = table[m].fd /\ e.node = table[m].node
                      /\ \/ ~(e.fd = "open" /\ e.grabbed)
                         \/ table[m].grabbed /\ e.queue = table[m].queue
                         \/ e.queue = <<>>
<1>1. /\ m \in DOMAIN table /\ table[m].data \in {NoKbd, Freed}
      /\ \E e : table' = [table EXCEPT ![m] = e] /\ good(e)
  <2>1. m \in DOMAIN table /\ table[m].data \in {NoKbd, Freed}
    BY ManagedEntry
  <2>2. PICK e : /\ table' = [table EXCEPT ![m] = e]
                 /\ e.node = table[m].node /\ e.fd = table[m].fd
                 /\ \/ e.grabbed = (table[m].grabbed /\ e.fd # "open")
                    \/ table[m].grabbed /\ e.grabbed /\ e.queue = table[m].queue
                    \/ e.queue = <<>>
                    \/ ~table[m].grabbed /\ e.grabbed = table[m].grabbed
    BY ManagedEntry
  <2>3. good(e)
    BY <2>2
  <2> HIDE DEF good
  <2> QED BY <2>1, <2>2, <2>3
<1>2. PICK e : table' = [table EXCEPT ![m] = e] /\ good(e)
  BY <1>1
<1>3. /\ DOMAIN table' = DOMAIN table /\ table'[m] = e
      /\ \A i \in DOMAIN table \ {m} : table'[i] = table[i]
  BY <1>1, <1>2
<1>4. UNCHANGED <<pressed, stranded>>
  BY DEF Ignore, Keep, Grab, ManageStep, worldVars, readVars
<1>5. Followed'
  <2> SUFFICES ASSUME NEW i \in DOMAIN table, table'[i].fd = "open", table'[i].grabbed
               PROVE  Follows(table'[i].queue, pressed[table'[i].node])
    BY <1>3, <1>4 DEF Followed, Positions
  <2>1. CASE i # m
    BY <1>3, <2>1 DEF Strand, Followed, Positions
  <2>2. CASE i = m
    <3>1. e.queue = <<>> => Follows(e.queue, pressed[e.node])
      BY DEF Follows
    <3>2. table[m].grabbed /\ e.queue = table[m].queue => Follows(e.queue, pressed[e.node])
      BY <1>1, <1>2, <1>3, <2>2 DEF Strand, Followed, Positions
    <3> QED BY <1>2, <1>3, <2>2, <3>1, <3>2
  <2> QED BY <2>1, <2>2
<1>6. ASSUME NEW f \in Live, NEW c \in kbd[f].down, Cover(f, c) PROVE Cover(f, c)'
  <2>1. ASSUME NEW i \in Positions, WillRelease(i, f, c) PROVE i \in Positions' /\ WillRelease(i, f, c)'
    <3>1. i # m
      BY <1>1, <2>1, WhoReleases
    <3> QED BY <1>3, <1>4, <2>1, <3>1 DEF WillRelease, ReleaseToCome, Positions
  <2> QED BY <1>4, <1>6, <2>1 DEF Cover
<1> QED BY <1>4, <1>5, <1>6, CoverKept DEF Strand

\* Entries come and go, but none that is open.
LEMMA TableKeepsStrand ==
    ASSUME AllInv, Strand, [Next]_vars, ~Reload, ~Reloaded, Keys' = Keys, Scan \/ Opened \/ Turn
    PROVE  Strand'
<1>1. UNCHANGED <<pressed, stranded>>
  BY DEF Scan, Opened, Turn, WatchStep, worldVars, readVars
<1>2. /\ \A j \in DOMAIN table' : \/ ~table'[j].grabbed
                                  \/ \E i \in DOMAIN table : table'[j] = table[i]
      /\ \A i \in DOMAIN table : table[i].fd = "open" => \E j \in DOMAIN table' : table'[j] = table[i]
  <2>1. CASE Scan
    <3>1. DOMAIN table = {}
      BY <2>1 DEF Scan, AllInv, CustodyInv, ToManage
    <3>2. \A j \in DOMAIN table' : ~table'[j].grabbed
      BY <2>1 DEF Scan, NewEntry
    <3> QED BY <3>1, <3>2
  <2>2. CASE Opened
    <3>1. ~NewEntry(Head(announced)).grabbed
      BY DEF NewEntry
    <3> QED BY <2>2, <3>1, OpenedEntry
  <2>3. CASE Turn
    <3>1. PICK stay : /\ \A i \in DOMAIN table' : stay[i] \in DOMAIN table /\ table'[i] = table[stay[i]]
                      /\ \A i \in DOMAIN table : table[i].fd # "closed" =>
                            \E j \in DOMAIN table' : stay[j] = i
      BY <2>3, TurnEntries
    <3> QED BY <3>1
  <2> QED BY <2>1, <2>2, <2>3
<1>3. Followed'
  BY <1>1, <1>2 DEF Strand, Followed, Positions
<1>4. ASSUME NEW f \in Live, NEW c \in kbd[f].down, Cover(f, c) PROVE Cover(f, c)'
  <2>1. ASSUME NEW i \in Positions, WillRelease(i, f, c)
        PROVE  \E j \in Positions' : WillRelease(j, f, c)'
    <3>1. PICK j \in DOMAIN table' : table'[j] = table[i]
      BY <1>2, <2>1 DEF WillRelease, Positions
    <3> QED BY <1>1, <2>1, <3>1 DEF WillRelease, ReleaseToCome, Positions
  <2> QED BY <1>1, <1>4, <2>1 DEF Cover
<1> QED BY <1>1, <1>3, <1>4, CoverKept DEF Strand

\* An event leaves its queue: the releases of other keys are still to come, and
\* after a press its own is.
LEMMA TakenLeaves ==
    ASSUME AllInv, Strand, NEW i \in Positions, NEW e, Taken(i, e)
    PROVE  /\ Followed' /\ UNCHANGED <<pressed, configs>>
           /\ \A f \in Live, j \in Positions : \A c :
                 WillRelease(j, f, c) /\ (j = i => ~OfKey(Head(table[i].queue), c))
                 => j \in Positions' /\ WillRelease(j, f, c)'
           /\ \A f \in Live : \A c :
                 table[i].data = f /\ OfKey(Head(table[i].queue), c) /\ Head(table[i].queue).down
                 => i \in Positions' /\ WillRelease(i, f, c)'
<1>1. /\ DOMAIN table' = DOMAIN table /\ Entries(table) /\ Held(table) /\ UNCHANGED <<pressed, configs>>
      /\ \A j \in DOMAIN table \ {i} : table'[j] = table[j]
      /\ table'[i].node = table[i].node /\ table'[i].fd = table[i].fd /\ table[i].fd = "open"
      /\ table'[i].data = table[i].data /\ table'[i].grabbed = table[i].grabbed
      /\ table'[i].queue = Tail(table[i].queue)
  BY TableShape DEF Taken, Returned, ReadStep, worldVars, Positions, Fields, AllInv, CustodyInv
<1>2. table[i].queue \in Seq(EventsOf(table[i].node)) /\ table[i].queue # <<>> /\ i \in DOMAIN table
  BY <1>1 DEF Entries, Taken, Returned, Positions
<1> DEFINE q == table[i].queue
           down == pressed[table[i].node]
<1>3. /\ Follows(q, down) => Follows(Tail(q), down)
      /\ \A c : ReleaseAfter(q, 0, down, c) /\ ~OfKey(Head(q), c) => ReleaseAfter(Tail(q), 0, down, c)
      /\ \A c : Follows(q, down) /\ OfKey(Head(q), c) /\ Head(q).down => ReleaseAfter(Tail(q), 0, down, c)
  BY <1>2, TailFollows
<1>4. Followed'
  <2> SUFFICES ASSUME NEW j \in DOMAIN table, table'[j].fd = "open", table'[j].grabbed
               PROVE  Follows(table'[j].queue, pressed[table'[j].node])
    BY <1>1 DEF Followed, Positions
  <2>1. Follows(table[j].queue, pressed[table[j].node])
    BY <1>1 DEF Strand, Followed, Positions
  <2> QED BY <1>1, <1>3, <2>1
<1>5. ASSUME NEW f \in Live, NEW j \in Positions, NEW c, WillRelease(j, f, c),
             j = i => ~OfKey(Head(q), c)
      PROVE  j \in Positions' /\ WillRelease(j, f, c)'
  <2>1. CASE j = i
    <3>1. ReleaseAfter(Tail(q), 0, down, c)
      BY <1>3, <1>5, <2>1 DEF WillRelease, ReleaseToCome
    <3> QED BY <1>1, <1>5, <2>1, <3>1 DEF WillRelease, ReleaseToCome, Positions
  <2>2. CASE j # i
    BY <1>1, <1>5, <2>2 DEF WillRelease, ReleaseToCome, Positions
  <2> QED BY <2>1, <2>2
<1>6. ASSUME NEW f \in Live, NEW c, table[i].data = f, OfKey(Head(q), c), Head(q).down
      PROVE  i \in Positions' /\ WillRelease(i, f, c)'
  <2>1. table[i].grabbed
    BY <1>1, <1>2, <1>6 DEF Held
  <2>2. Follows(q, down)
    BY <1>1, <2>1 DEF Strand, Followed
  <2>3. ReleaseAfter(Tail(q), 0, down, c)
    BY <1>3, <1>6, <2>2
  <2> QED BY <1>1, <1>2, <1>6, <2>3 DEF WillRelease, ReleaseToCome, Positions
<1> QED BY <1>1, <1>4, <1>5, <1>6

\* Events that are no key of a keyboard in use.
LEMMA OtherEventKeepsStrand ==
    ASSUME AllInv, Strand, [Next]_vars, ~Reload, ~Reloaded, Keys' = Keys, UNCHANGED stranded,
           NEW i \in Positions, NEW e, Taken(i, e), e.type # "key" \/ table[i].data \notin Live
    PROVE  Strand'
<1>1. table[i].data \in Live => \A c : ~OfKey(Head(table[i].queue), c)
  <2>1. e.type # "key" => Again(i) \/ e = Head(table[i].queue)
    BY DEF Taken, Returned
  <2> QED BY <2>1 DEF Again, OfKey
<1>2. ASSUME NEW f \in Live, NEW c \in kbd[f].down, Cover(f, c) PROVE Cover(f, c)'
  <2>1. ASSUME NEW j \in Positions, WillRelease(j, f, c) PROVE j \in Positions' /\ WillRelease(j, f, c)'
    <3>1. j = i => ~OfKey(Head(table[i].queue), c)
      BY <1>1, <2>1 DEF WillRelease
    <3> QED BY <2>1, <3>1, TakenLeaves
  <2> QED BY <1>2, <2>1 DEF Cover
<1> QED BY <1>2, CoverKept, TakenLeaves DEF Strand

LEMMA KeyKeepsStrand ==
    ASSUME AllInv, Strand, [Next]_vars, ~Reload, ~Reloaded, NEW i \in Positions, ReadKey(i)
    PROVE  Strand'
<1> DEFINE f == table[i].data
           h == Head(table[i].queue)
<1>1. PICK e : /\ Taken(i, e) /\ e.type = "key" /\ f \in Live /\ EngineKey(f, e)
               /\ stranded' = IF Again(i) /\ e.down THEN stranded \cup {<<f, e.code>>}
                                                    ELSE stranded \ {<<f, e.code>>}
  BY DEF ReadKey
<1>2. DOMAIN kbd = Files /\ Live \subseteq Files /\ f \in Files
  BY <1>1, LiveFile DEF AllInv, TypesInv, TimeInv, TimeTypes
<1> HIDE DEF f
<1> DEFINE k == Typed(kbd[f], e, loop.time)
<1>3. k.down = IF e.down THEN kbd[f].down \cup {e.code} ELSE kbd[f].down \ {e.code}
  BY DEF Typed
<1>4. kbd' = [kbd EXCEPT ![f] = k]
  BY <1>1 DEF EngineKey, Answered
<1> HIDE DEF k
<1>5. kbd'[f].down = k.down /\ \A g \in Files \ {f} : kbd'[g] = kbd[g]
  BY <1>2, <1>4
<1>6. UNCHANGED configs /\ (Reloading' <=> Reloading) /\ (alive' => alive) /\ Live' = Live
  BY OnlyReload DEF Live
<1>7. ~Reloading
  BY <1>1 DEF Taken, Returned, Reading, AllInv, KeysInv, Returning, Reloading
<1>8. ASSUME alive', NEW g \in Live, NEW c \in kbd'[g].down PROVE Cover(g, c)'
  <2>1. CASE <<g, c>> = <<f, e.code>>
    <3>1. e.down
      BY <1>3, <1>5, <1>8, <2>1
    <3>2. CASE Again(i)
      BY <1>1, <2>1, <3>1, <3>2 DEF Cover
    <3>3. CASE ~Again(i)
      <4>1. e = h
        BY <1>1, <3>3 DEF Taken, Returned
      <4>2. OfKey(h, c) /\ h.down
        BY <1>1, <2>1, <3>1, <4>1 DEF OfKey
      <4>3. i \in Positions' /\ WillRelease(i, g, c)'
        BY <1>1, <2>1, <4>2, TakenLeaves DEF f
      <4> QED BY <4>3 DEF Cover
    <3> QED BY <3>2, <3>3
  <2>2. CASE <<g, c>> # <<f, e.code>>
    <3>1. c \in kbd[g].down
      BY <1>2, <1>3, <1>5, <1>8, <2>2
    <3>2. Cover(g, c)
      BY <1>6, <1>7, <1>8, <3>1 DEF Strand, Covered
    <3>3. <<g, c>> \in stranded => <<g, c>> \in stranded'
      BY <1>1, <2>2
    <3>4. ASSUME NEW j \in Positions, WillRelease(j, g, c) PROVE j \in Positions' /\ WillRelease(j, g, c)'
      <4>1. j = i => ~OfKey(h, c)
        <5>1. CASE Again(i)
          BY <5>1 DEF Again, OfKey
        <5>2. CASE ~Again(i) /\ j = i
          <6>1. e = h /\ g = f
            BY <1>1, <3>4, <5>2 DEF Taken, Returned, WillRelease, f
          <6> QED BY <2>2, <6>1 DEF OfKey
        <5> QED BY <5>1, <5>2
      <4> QED BY <1>1, <3>4, <4>1, TakenLeaves
    <3> QED BY <3>2, <3>3, <3>4 DEF Cover
  <2> QED BY <2>1, <2>2
<1>9. Fresh'
  BY <1>6, <1>7 DEF Fresh
<1>10. Covered'
  BY <1>6, <1>8 DEF Covered
<1>11. Followed' /\ UNCHANGED pressed
  BY <1>1, TakenLeaves
<1> QED BY <1>9, <1>10, <1>11 DEF Strand

LEMMA WorldKeepsStrand ==
    ASSUME AllInv, Strand, World, ~Reload, ~Reloaded
    PROVE  Strand'
<1>1. [Next]_vars /\ Keys' = Keys
  BY WorldLeaves DEF Next, daemonVars, engineVars, Keys
<1>2. DOMAIN pressed = Devices
  BY DEF Strand
<1>3. ASSUME NEW p \in Devices, NEW e \in EventsOf(p), Deliver(p, e), UNCHANGED <<pressed, stranded>>,
             e.type # "key"
      PROVE  Strand'
  <2>1. Sent(e, pressed[p], pressed'[p])
    BY <1>3 DEF Sent, OfKey
  <2> QED BY <1>1, <1>2, <1>3, <2>1, DeliverKeepsStrand
<1>4. ASSUME NEW p \in Devices, NEW c \in DeviceKeys[p], KeyDown(p, c) PROVE Strand'
  <2> DEFINE e == Event("key", c, TRUE)
  <2>1. e \in EventsOf(p) /\ e.type = "key" /\ e.code = c /\ e.down
    BY DEF Event, EventsOf
  <2>2. Deliver(p, e) /\ UNCHANGED stranded /\ c \notin pressed[p]
        /\ pressed' = [pressed EXCEPT ![p] = @ \cup {c}]
    BY <1>4 DEF KeyDown, lostVars
  <2> HIDE DEF e
  <2>3. /\ DOMAIN pressed' = Devices /\ \A q \in Devices \ {p} : pressed'[q] = pressed[q]
        /\ pressed'[p] = pressed[p] \cup {c}
    BY <1>2, <2>2
  <2>4. Sent(e, pressed[p], pressed'[p])
    BY <2>1, <2>2, <2>3 DEF Sent, OfKey
  <2> QED BY <1>1, <2>1, <2>2, <2>3, <2>4, DeliverKeepsStrand
<1>5. ASSUME NEW p \in Devices, NEW c \in DeviceKeys[p], KeyUp(p, c) PROVE Strand'
  <2> DEFINE e == Event("key", c, FALSE)
  <2>1. e \in EventsOf(p) /\ e.type = "key" /\ e.code = c /\ ~e.down
    BY DEF Event, EventsOf
  <2>2. Deliver(p, e) /\ UNCHANGED stranded /\ pressed' = [pressed EXCEPT ![p] = @ \ {c}]
    BY <1>5 DEF KeyUp, lostVars
  <2> HIDE DEF e
  <2>3. /\ DOMAIN pressed' = Devices /\ \A q \in Devices \ {p} : pressed'[q] = pressed[q]
        /\ pressed'[p] = pressed[p] \ {c}
    BY <1>2, <2>2
  <2>4. Sent(e, pressed[p], pressed'[p])
    BY <2>1, <2>3 DEF Sent, OfKey
  <2> QED BY <1>1, <2>1, <2>2, <2>3, <2>4, DeliverKeepsStrand
<1>6. ASSUME NEW p \in Devices, NEW type \in {"move", "scroll", "axis"}, Point(p, type) PROVE Strand'
  <2> DEFINE e == Event(type, 0, FALSE)
  <2>1. e \in EventsOf(p) /\ e.type # "key"
    <3>1. type = "axis" => p \in AxisDevices
      BY <1>6 DEF Point
    <3>2. e.type # "key"
      BY DEF Event
    <3>3. e \in EventsOf(p)
      BY <3>1 DEF Event, EventsOf
    <3> QED BY <3>2, <3>3
  <2>2. Deliver(p, e) /\ UNCHANGED <<pressed, stranded>>
    BY <1>6 DEF Point, lostVars
  <2> QED BY <1>3, <2>1, <2>2
<1>7. ASSUME NEW on \in Leds, Led(on) PROVE Strand'
  <2> DEFINE e == Event("led", 1, on)
  <2>1. e \in EventsOf(VirtualDevice) /\ e.type # "key" /\ VirtualDevice \in Devices
    BY DaemonAssumption DEF EventsOf, Event
  <2>2. Deliver(VirtualDevice, e) /\ UNCHANGED <<pressed, stranded>>
    BY <1>7 DEF Led, lostVars
  <2> QED BY <1>3, <2>1, <2>2
<1>8. ASSUME NEW p \in Devices, Unplug(p) PROVE Strand'
  BY <1>1, <1>8, UnplugKeepsStrand
<1>9. (\E p \in Devices : Plug(p)) \/ (\E f \in Files : Edit(f)) \/ (\E r \in Requests : Ask(r)) \/ Tick
      => UNCHANGED <<table, pressed, stranded>>
  BY DEF Plug, Edit, Ask, Tick, lostVars
<1> QED BY <1>1, <1>4, <1>5, <1>6, <1>7, <1>8, <1>9, SameStrand DEF World

LEMMA ReadKeepsStrand ==
    ASSUME AllInv, Strand, Read, ~Reload, ~Reloaded
    PROVE  Strand'
<1>1. [Next]_vars
  BY DEF Next, Daemon
<1>2. CASE \E i \in Positions : ReadKey(i)
  BY <1>1, <1>2, KeyKeepsStrand
<1>3. CASE ~\E i \in Positions : ReadKey(i)
  <2>1. Keys' = Keys
    BY <1>1, <1>3, KeysChange
  <2>2. ASSUME NEW i \in Positions, ReadDropped(i) PROVE Strand'
    BY <1>1, <2>1, <2>2, DropKeepsStrand
  <2>3. ASSUME NEW i \in Positions, ReadScroll(i) \/ ReadMove(i) PROVE Strand'
    <3>1. PICK e : Taken(i, e) /\ e.type # "key"
      BY <2>3 DEF ReadScroll, ReadMove
    <3>2. UNCHANGED stranded
      BY <2>3 DEF ReadScroll, ReadMove
    <3> QED BY <1>1, <2>1, <3>1, <3>2, OtherEventKeepsStrand
  <2>4. ASSUME NEW i \in Positions, ReadUnmanaged(i) PROVE Strand'
    <3>1. PICK e : Taken(i, e) /\ table[i].data = NoKbd
      BY <2>4 DEF ReadUnmanaged
    <3>2. UNCHANGED stranded /\ table[i].data \notin Live
      BY <2>4, <3>1, LiveFile, DaemonAssumption DEF ReadUnmanaged, NoKbd, AllInv, TypesInv
    <3> QED BY <1>1, <2>1, <3>1, <3>2, OtherEventKeepsStrand
  <2>5. ASSUME NEW i \in Positions, Panic(i) PROVE Strand'
    <3>1. PICK e : Taken(i, e)
      BY <2>5 DEF Panic
    <3>2. Followed' /\ UNCHANGED pressed
      BY <3>1, TakenLeaves
    <3>3. ~alive' /\ ~Reloading'
      BY <2>5 DEF Panic, Taken, Returned, Reading, ReadStep, AllInv, KeysInv, Returning, Reloading
    <3> QED BY <3>2, <3>3 DEF Strand, Fresh, Covered
  <2>6. ASSUME NEW k \in Positions, ReadRemoved(k) PROVE Strand'
    <3>1. /\ DOMAIN table' = DOMAIN table /\ table[k].fd = "dead" /\ table'[k].fd = "closed"
          /\ \A i \in DOMAIN table \ {k} : table'[i] = table[i]
          /\ UNCHANGED <<pressed, stranded>>
      BY <2>6, TableShape DEF ReadRemoved, ReadStep, worldVars, lostVars, Positions, Fields
    <3>2. Followed'
      BY <3>1 DEF Strand, Followed, Positions
    <3>3. \A f, c : Cover(f, c) => Cover(f, c)'
      BY <3>1 DEF Cover, WillRelease, ReleaseToCome, Positions
    <3> QED BY <1>1, <2>1, <3>1, <3>2, <3>3, CoverKept DEF Strand
  <2>7. (\E i \in Positions : ReadNothing(i)) \/ AllRead => UNCHANGED <<table, pressed, stranded>>
    BY DEF ReadNothing, AllRead, ReadStep, worldVars, readVars
  <2> QED BY <1>1, <1>3, <2>1, <2>2, <2>3, <2>4, <2>5, <2>6, <2>7, SameStrand DEF Read
<1> QED BY <1>2, <1>3

LEMMA StrandStep == AllInv /\ Strand /\ [Next]_vars => Strand'
<1> SUFFICES ASSUME AllInv, Strand, [Next]_vars PROVE Strand'
  OBVIOUS
<1>1. CASE Reload
  <2>1. /\ UNCHANGED pressed /\ kbd' = [f \in Files |-> NewKeyboard]
        /\ return' = "reloaded" /\ Entries(table)
    BY <1>1, TableShape DEF Reload, Accepting
  <2>2. /\ DOMAIN table' = DOMAIN table
        /\ \A i \in DOMAIN table : /\ table'[i].fd = table[i].fd /\ table'[i].grabbed = table[i].grabbed
                                   /\ table'[i].queue = table[i].queue /\ table'[i].node = table[i].node
    BY <1>1, TableShape DEF Reload, Positions, Fields
  <2>3. Followed'
    BY <2>1, <2>2 DEF Strand, Followed, Positions
  <2>4. Reloading' /\ Fresh'
    BY <2>1 DEF Reloading, Fresh, NewKeyboard
  <2> QED BY <2>1, <2>3, <2>4 DEF Strand, Covered
<1>2. CASE Reloaded
  <2>1. UNCHANGED <<table, pressed, kbd, configs>> /\ Reloading
    BY <1>2 DEF Reloaded, worldVars, engineVars, Reloading
  <2>2. Live \subseteq Files /\ Live' = Live
    BY <2>1, LiveFile DEF Live, AllInv, TypesInv
  <2>3. \A f \in Files : kbd'[f].down = {}
    BY <2>1 DEF Strand, Fresh
  <2>4. Followed' /\ Fresh' /\ Covered'
    BY <2>1, <2>2, <2>3 DEF Strand, Followed, Positions, Fresh, Covered
  <2> QED BY <2>1, <2>4 DEF Strand
<1>3. CASE ~Reload /\ ~Reloaded
  <2>1. CASE World
    BY <1>3, <2>1, WorldKeepsStrand
  <2>2. CASE Read
    BY <1>3, <2>2, ReadKeepsStrand
  <2>3. CASE ~Read
    <3>1. Keys' = Keys \/ \E i \in Positions : ReadKey(i)
      BY <1>3, KeysChange
    <3>2. Keys' = Keys
      BY <2>3, <3>1 DEF Read
    <3>3. CASE (Ignore /\ ~IsVirtual(Managed)) \/ Keep \/ Grab
      BY <1>3, <3>2, <3>3, ManageKeepsStrand
    <3>4. CASE Scan \/ Opened \/ Turn
      BY <1>3, <3>2, <3>4, TableKeepsStrand
    <3>5. (Ignore /\ IsVirtual(Managed)) \/ AwaitNeutral \/ AllManaged => UNCHANGED <<table, pressed, stranded>>
      BY DEF Ignore, AwaitNeutral, AllManaged, ManageStep, worldVars, readVars
    <3>6. Wake => UNCHANGED <<table, pressed, stranded>>
      BY DEF Wake, WakeForEvents, WakeUnclaimed, WakeForTimeout, WakeFreed, WakeStep, worldVars, readVars
    <3>7. AddListener \/ Do \/ Input => UNCHANGED <<table, pressed, stranded>>
      BY DEF AddListener, Do, Input, Answering, Accepting
    <3>8. TableFull \/ NotOpened \/ AllOpened => UNCHANGED <<table, pressed, stranded>>
      BY DEF TableFull, NotOpened, AllOpened, WatchStep, readVars
    <3>9. TooManyFound => UNCHANGED <<table, pressed, stranded>>
      BY DEF TooManyFound, worldVars, readVars
    <3>10. UNCHANGED vars => UNCHANGED <<table, pressed, stranded>>
      BY DEF vars, worldVars, readVars
    <3> QED BY <1>3, <2>1, <2>3, <3>2, <3>3, <3>4, <3>5, <3>6, <3>7, <3>8, <3>9, <3>10, SameStrand
            DEF Next, Daemon, Manage, Serve, Watch
  <2> QED BY <2>1, <2>2, <2>3
<1> QED BY <1>1, <1>2, <1>3

\* Whatever the virtual device holds down keystate knows of, and some keyboard
\* in use has it down, for a device that is read and will report the release;
\* all but what was down on a device that went, or came again on another, which
\* stays down until the next reload (daemon.c:38-53, 240-251, 520-523,
\* evloop.c:91-116, device.c:453-455).
THEOREM NoneLeftDown == Spec => []NoKeyLeftDown
<1>1. Init => AllInv /\ Strand
  <2> SUFFICES ASSUME Init PROVE Strand
    BY InitAllInv
  <2>1. Live \subseteq Files
    BY InitAllInv, LiveFile DEF AllInv, TypesInv
  <2> QED BY <2>1 DEF Init, Strand, Followed, Positions, Fresh, Covered, NewKeyboard
<1>2. AllInv /\ Strand /\ [Next]_vars => (AllInv /\ Strand)'
  BY AllInvStep, StrandStep
<1>3. AllInv /\ Strand => NoKeyLeftDown
  <2> SUFFICES ASSUME AllInv, Strand, alive, ~Reloading
               PROVE  vk \subseteq keystate /\ \A c \in keystate : \E f \in Live : KeptDown(f, c)
    BY DEF NoKeyLeftDown
  <2>1. vk \subseteq keystate /\ keystate \subseteq DownSomewhere
    BY DEF AllInv, KeysInv
  <2>2. \A f \in Live : \A c \in kbd[f].down : KeptDown(f, c)
    BY DEF Strand, Covered, Cover, KeptDown
  <2> QED BY <2>1, <2>2 DEF DownSomewhere
<1> QED BY <1>1, <1>2, <1>3, PTL DEF Spec
================================================================================

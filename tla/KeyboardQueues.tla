---------------------------- MODULE KeyboardQueues ----------------------------
(***************************************************************************)
(* In a configuration without chords, keys that wait behind a pending key  *)
(* are processed in the order in which they were struck, and no key stays  *)
(* in the cache when it is up.                                             *)
(*                                                                         *)
(* An event that is on its way is in the queue of the pending key, in the  *)
(* activation that runs, or in a suspended loop.  Each step moves it from  *)
(* one of these places to the next, and none overtakes another, except     *)
(* the release of a key struck before the pending one, of which nothing    *)
(* waits (handle_pending_key).                                             *)
(*                                                                         *)
(* The last part is about the timer of a oneshot layer.                    *)
(***************************************************************************)
EXTENDS KeyboardStructure, KeyboardProps, WellFoundedInduction

NoChords == \A l \in Layers : Chords[l] = <<>>

Stages == {"chord", "pending", "timers", "key"}

\* The events that are still to be processed by the activation f.
Fed(f) == IF f.pc \in Stages /\ f.code # NoKey
          THEN <<[code |-> f.code, pressed |-> f.pressed, time |-> f.time]>> ELSE Rest(f)

Sorted(s) == \A i, j \in DOMAIN s : i < j => s[i].time <= s[j].time
Before(s, t) == \A i \in DOMAIN s, j \in DOMAIN t : s[i].time <= t[j].time
Until(s, t) == \A i \in DOMAIN s : s[i].time <= t

\* The events of q, of the activation c and of those that wait for it, none
\* of which is later than t.
InOrder(q, c, cs, t) ==
    /\ Sorted(q) /\ Until(q, t) /\ Before(q, Fed(c))
    /\ Sorted(Fed(c)) /\ Until(Fed(c), t)
    /\ \A i \in DOMAIN cs : /\ Sorted(Fed(cs[i])) /\ Until(Fed(cs[i]), t)
                            /\ Before(q, Fed(cs[i])) /\ Before(Fed(c), Fed(cs[i]))
    /\ \A i, j \in DOMAIN cs : i < j => Before(Fed(cs[i]), Fed(cs[j]))

NoneChorded == /\ chord = NoChord
               /\ \A i \in ChordSlots : active_chords[i].keys = {} /\ active_chords[i].d = NoDesc

QueueInv == /\ NoneChorded
            /\ InOrder(pending_key.queue, call, callers, now)
            /\ \A i \in DOMAIN callers : callers[i].pc \notin Stages

-----------------------------------------------------------------------------
(* Events on the call stack.                                                *)

LEMMA FedType ==
    ASSUME NEW f \in Frame PROVE Fed(f) \in Seq(Event)
<1>1. <<>> \in Seq(Event)
  OBVIOUS
<1>2. CASE f.pc \in Stages
  <2>1. [code |-> f.code, pressed |-> f.pressed, time |-> f.time] \in Event
    BY <1>2, FrameFields DEF Stages, Event
  <2> QED BY <1>1, <1>2, <2>1 DEF Fed, Rest, Stages
<1>3. CASE f.pc \notin Stages
  BY <1>1, <1>3, FrameFields DEF Fed, Rest
<1> QED BY <1>2, <1>3

\* Where an activation of each function keeps its events.
LEMMA FedOf ==
    /\ Fed(IdleCall) = <<>> /\ Fed(ChordResolved) = <<>>
    /\ \A evs, due : \A pc \in {"events", "due"} : Fed(Loop(pc, evs, due)) = evs
    /\ \A evs : Fed(ProcessEvents(evs)) = evs
    /\ \A pc \in Stages : \A code, pressed, time :
         Fed(ProcessEvent(pc, code, pressed, time))
           = IF code = NoKey THEN <<>>
             ELSE <<[code |-> code, pressed |-> pressed, time |-> time]>>
    /\ \A code, d, dl, pressed, time : Fed(ProcessDescriptor(code, d, dl, pressed, time)) = <<>>
    /\ \A code, d : Fed(Recache(code, d)) = <<>>
    /\ \A time : Fed(ExitEvent(time)) = <<>>
  BY DEF Fed, Rest, Stages, IdleCall, ChordResolved, Loop, ProcessEvents, ProcessEvent,
         ProcessDescriptor, Recache, ExitEvent

LEMMA NoEvents ==
    /\ Sorted(<<>>) /\ \A t : Until(<<>>, t) /\ \A s : Before(<<>>, s) /\ Before(s, <<>>)
  BY DEF Sorted, Until, Before

\* One frame in front of others.
LEMMA ConsFrames ==
    ASSUME NEW f \in Frame, NEW cs \in Seq(Frame)
    PROVE  /\ <<f>> \o cs \in Seq(Frame) /\ DOMAIN (<<f>> \o cs) = 1 .. Len(cs) + 1
           /\ (<<f>> \o cs)[1] = f
           /\ \A i \in 1 .. Len(cs) : i + 1 \in DOMAIN (<<f>> \o cs) /\ (<<f>> \o cs)[i + 1] = cs[i]
           /\ \A i \in DOMAIN (<<f>> \o cs) : i # 1 => i - 1 \in 1 .. Len(cs) /\ (<<f>> \o cs)[i] = cs[i - 1]
  OBVIOUS

LEMMA ConsTwice ==
    ASSUME NEW f \in Frame, NEW g \in Frame, NEW cs \in Seq(Frame)
    PROVE  <<f, g>> \o cs = <<f>> \o (<<g>> \o cs)
<1> DEFINE l == <<f, g>>
           r == <<f>> \o <<g>>
<1>1. l \in Seq(Frame) /\ Len(l) = 2 /\ l[1] = f /\ l[2] = g
  OBVIOUS
<1>2. r \in Seq(Frame) /\ Len(r) = 2 /\ r[1] = f /\ r[2] = g
  OBVIOUS
<1> HIDE DEF l, r
<1>3. l = r
  <2>1. \A i \in 1 .. Len(l) : l[i] = r[i]
    BY <1>1, <1>2
  <2> QED BY <1>1, <1>2, <2>1, SeqEqual
<1> QED BY <1>3, ConcatAssociative DEF l, r

LEMMA TailFrames ==
    ASSUME NEW S, NEW cs \in Seq(S), cs # <<>>
    PROVE  /\ Head(cs) \in S /\ Head(cs) = cs[1] /\ Tail(cs) \in Seq(S)
           /\ 1 \in DOMAIN cs /\ DOMAIN Tail(cs) = 1 .. Len(cs) - 1
           /\ \A i \in DOMAIN Tail(cs) : i + 1 \in DOMAIN cs /\ Tail(cs)[i] = cs[i + 1]
           /\ cs = <<Head(cs)>> \o Tail(cs)
<1>1. Len(cs) > 0 /\ Len(cs) \in Nat
  BY EmptySeq
<1> QED BY <1>1

\* Activations that hand on their events, or drop them.
LEMMA OrderGoto ==
    ASSUME NEW q, NEW c, NEW cs, NEW t, InOrder(q, c, cs, t), NEW f, Fed(f) \in {Fed(c), <<>>}
    PROVE  InOrder(q, f, cs, t)
<1>1. CASE Fed(f) = Fed(c)
  BY <1>1 DEF InOrder
<1>2. CASE Fed(f) = <<>>
  BY <1>2, NoEvents DEF InOrder
<1> QED BY <1>1, <1>2

LEMMA OrderPush ==
    ASSUME NEW q, NEW f, NEW g \in Frame, NEW cs \in Seq(Frame), NEW t, InOrder(q, g, cs, t),
           Sorted(Fed(f)), Until(Fed(f), t), Before(q, Fed(f)), Before(Fed(f), Fed(g)),
           \A i \in DOMAIN cs : Before(Fed(f), Fed(cs[i]))
    PROVE  InOrder(q, f, <<g>> \o cs, t)
<1> DEFINE ks == <<g>> \o cs
<1>1. /\ DOMAIN cs = 1 .. Len(cs) /\ Len(cs) \in Nat /\ DOMAIN ks = 1 .. Len(cs) + 1
      /\ ks[1] = g /\ \A i \in DOMAIN ks : i # 1 => i - 1 \in DOMAIN cs /\ ks[i] = cs[i - 1]
  BY ConsFrames
<1> HIDE DEF ks
<1>2. ASSUME NEW i \in DOMAIN ks
      PROVE  Sorted(Fed(ks[i])) /\ Until(Fed(ks[i]), t) /\ Before(q, Fed(ks[i])) /\ Before(Fed(f), Fed(ks[i]))
  <2>1. CASE i = 1
    BY <1>1, <2>1 DEF InOrder
  <2>2. CASE i # 1
    BY <1>1, <2>2 DEF InOrder
  <2> QED BY <2>1, <2>2
<1>3. ASSUME NEW i \in DOMAIN ks, NEW j \in DOMAIN ks, i < j PROVE Before(Fed(ks[i]), Fed(ks[j]))
  <2>1. j # 1 /\ j - 1 \in DOMAIN cs /\ ks[j] = cs[j - 1]
    BY <1>1, <1>3
  <2>2. CASE i = 1
    BY <1>1, <2>1, <2>2 DEF InOrder
  <2>3. CASE i # 1
    <3>1. i - 1 \in DOMAIN cs /\ ks[i] = cs[i - 1] /\ i - 1 < j - 1
      BY <1>1, <1>3, <2>3
    <3> QED BY <2>1, <3>1 DEF InOrder
  <2> QED BY <2>2, <2>3
<1>4. InOrder(q, f, ks, t)
  BY <1>2, <1>3 DEF InOrder
<1> QED BY <1>4 DEF ks

LEMMA OrderPop ==
    ASSUME NEW q, NEW c, NEW cs \in Seq(Frame), cs # <<>>, NEW t, InOrder(q, c, cs, t)
    PROVE  InOrder(q, Head(cs), Tail(cs), t)
<1> DEFINE h == Head(cs)
           ks == Tail(cs)
<1>1. /\ h = cs[1] /\ 1 \in DOMAIN cs /\ DOMAIN ks \subseteq Nat \ {0}
      /\ \A i \in DOMAIN ks : i + 1 \in DOMAIN cs /\ ks[i] = cs[i + 1]
  BY TailFrames
<1> HIDE DEF h, ks
<1>2. ASSUME NEW i \in DOMAIN ks
      PROVE  Sorted(Fed(ks[i])) /\ Until(Fed(ks[i]), t) /\ Before(q, Fed(ks[i])) /\ Before(Fed(h), Fed(ks[i]))
  <2>1. 1 < i + 1
    BY <1>1
  <2> QED BY <1>1, <2>1 DEF InOrder
<1>3. ASSUME NEW i \in DOMAIN ks, NEW j \in DOMAIN ks, i < j PROVE Before(Fed(ks[i]), Fed(ks[j]))
  <2>1. i + 1 < j + 1
    BY <1>1, <1>3
  <2> QED BY <1>1, <2>1 DEF InOrder
<1>4. InOrder(q, h, ks, t)
  BY <1>1, <1>2, <1>3 DEF InOrder
<1> QED BY <1>4 DEF h, ks

-----------------------------------------------------------------------------
(* Steps that move no event past another.                                   *)

\* A step of the call stack that feeds no event: a return, a change of the
\* activation that runs, or a call before the rest is fed.
PlainStep ==
    /\ UNCHANGED <<chordVars, now>> /\ pending_key'.queue = pending_key.queue
    /\ \/ /\ call # IdleCall /\ Fed(call) = <<>> /\ callers' = Tail(callers)
          /\ Fed(call') = Fed(Head(callers))
       \/ Fed(call') = Fed(call) /\ callers' = callers
       \/ \E f : \E g \in Frame : /\ Fed(f) = <<>> /\ Fed(g) = Fed(call) /\ g.pc \notin Stages
                                  /\ call' = f /\ callers' = <<g>> \o callers

LEMMA PlainStepKeepsOrder ==
    ASSUME TypeOK, QueueInv, PlainStep  PROVE QueueInv'
<1> DEFINE q == pending_key.queue
<1>1. /\ callers \in Seq(Frame) /\ call \in Frame /\ NoneChorded' /\ now' = now
      /\ pending_key'.queue = q /\ InOrder(q, call, callers, now)
      /\ \A i \in DOMAIN callers : callers[i].pc \notin Stages
  BY StackTyped DEF PlainStep, QueueInv, NoneChorded, chordVars
<1> HIDE DEF q
<1>2. CASE call # IdleCall /\ callers' = Tail(callers) /\ Fed(call') = Fed(Head(callers))
  <2>1. callers # <<>>
    BY <1>2 DEF TypeOK, StackOK, WellStacked
  <2>2. InOrder(q, Head(callers), callers', now)
    BY <1>1, <1>2, <2>1, OrderPop
  <2>3. InOrder(q, call', callers', now)
    BY <1>2, <2>2, OrderGoto
  <2>4. \A i \in DOMAIN callers' : i + 1 \in DOMAIN callers /\ callers'[i] = callers[i + 1]
    BY <1>1, <1>2, <2>1, TailFrames
  <2> QED BY <1>1, <2>3, <2>4 DEF QueueInv
<1>3. CASE Fed(call') = Fed(call) /\ callers' = callers
  BY <1>1, <1>3, OrderGoto DEF QueueInv
<1>4. ASSUME NEW f, NEW g \in Frame, Fed(f) = <<>>, Fed(g) = Fed(call), g.pc \notin Stages,
             call' = f, callers' = <<g>> \o callers
      PROVE  QueueInv'
  <2>1. InOrder(q, g, callers, now)
    BY <1>1, <1>4, OrderGoto
  <2>2. InOrder(q, f, <<g>> \o callers, now)
    BY <1>1, <1>4, <2>1, OrderPush, NoEvents
  <2>3. \A i \in DOMAIN callers' : callers'[i] = g \/ (i - 1 \in DOMAIN callers /\ callers'[i] = callers[i - 1])
    BY <1>1, <1>4, ConsFrames
  <2> QED BY <1>1, <1>4, <2>2, <2>3 DEF QueueInv
<1> QED BY <1>2, <1>3, <1>4 DEF PlainStep

LEMMA FedOfCall ==
    ASSUME TypeOK
    PROVE  /\ call.pc \in {"descriptor", "recache", "resolved", "exit"} => Fed(call) = <<>> /\ call # IdleCall
           /\ call.pc \in {"events", "due"} => Fed(call) = call.evs /\ call # IdleCall
           /\ call.pc \in Stages => /\ call # IdleCall
                                    /\ Fed(call) = IF call.code = NoKey THEN <<>> ELSE <<ThisEvent>>
                                    /\ \A pc \in Stages : Fed(Stage(pc)) = Fed(call)
  BY FedOf DEF Fed, Rest, Stages, IdleCall, Stage, ThisEvent

LEMMA ReturnIsPlain ==
    ASSUME TypeOK, call.pc \in {"descriptor", "recache", "resolved"}, Return \/ Done,
           UNCHANGED <<chordVars, now>>, pending_key'.queue = pending_key.queue
    PROVE  PlainStep
  BY FedOfCall DEF PlainStep, Return, Done

LEMMA OpPlain ==
    ASSUME TypeOK, Op  PROVE PlainStep
<1> USE DEF Executing, envVars, keyVars
<1>1. ASSUME NEW d, Recache(call.code, d) \in Frame, NEW e, NEW dl, NEW pressed, NEW time,
             call.pc = "descriptor", UNCHANGED <<chordVars, now, pending_key>>,
             CallThen(ProcessDescriptor(call.code, e, dl, pressed, time), <<Recache(call.code, d)>>)
      PROVE  PlainStep
  <2>1. Recache(call.code, d).pc \notin Stages
    BY DEF Recache, Stages
  <2> QED BY <1>1, <2>1, FedOf, FedOfCall DEF PlainStep, CallThen
<1>2. CASE OpKeySequence \/ OpScroll \/ RecacheAction
  BY <1>2, ReturnIsPlain DEF OpKeySequence, OpScroll, RecacheAction
<1>3. CASE OpOverloadIdle
  <2> DEFINE idle == call.time - recent.last_simple_key_time >= call.d.timeout
             action == DescTable[IF idle THEN call.d.act2 ELSE call.d.act]
  <2>1. call.pc = "descriptor" /\ UNCHANGED <<chordVars, now, pending_key>>
    BY <1>3 DEF OpOverloadIdle
  <2>2. action \in Runnable /\ call.code \in Codes
    BY <2>1, DescriptorRuns, ConfigDescsType
  <2>3. CASE call.pressed
    <3>1. CallThen(ProcessDescriptor(call.code, action, call.dl, TRUE, call.time),
                   <<Recache(call.code, action)>>)
      BY <1>3, <2>3 DEF OpOverloadIdle
    <3> HIDE DEF action
    <3> QED BY <1>1, <2>1, <2>2, <3>1, FrameMakers
  <2>4. CASE ~call.pressed
    <3>1. Return
      BY <1>3, <2>4 DEF OpOverloadIdle
    <3> QED BY <2>1, <3>1, ReturnIsPlain
  <2> QED BY <2>3, <2>4
<1>4. CASE OpOverloadTimeout \/ OpTimeout
  <2>1. call.pc = "descriptor" /\ UNCHANGED <<chordVars, now>> /\ Done
    BY <1>4 DEF OpOverloadTimeout, OpTimeout
  <2>2. pending_key'.queue = pending_key.queue
    BY <1>4 DEF OpOverloadTimeout, OpTimeout, BecomePending, TypeOK, KeysOK, Pending
  <2> QED BY <2>1, <2>2, ReturnIsPlain
<1>5. CASE OpLayer \/ OpClear \/ OpLayout \/ OverloadPressed
  BY <1>5, ReturnIsPlain DEF OpLayer, OpClear, OpLayout, OverloadPressed
<1>6. CASE OverloadReleased
  <2> DEFINE action == DescTable[call.d.act]
             k == ProcessDescriptor(call.code, action, call.dl, FALSE, call.time)
  <2>1. call.pc = "descriptor" /\ UNCHANGED <<chordVars, now, pending_key>>
    BY <1>6 DEF OverloadReleased
  <2>2. action \in Runnable /\ call.code \in Codes /\ call.dl \in Layers /\ call.time \in Nat
    BY <2>1, DescriptorRuns, ConfigDescsType
  <2>3. k \in Frame /\ k.pc \notin Stages /\ Fed(k) = <<>>
    <3> HIDE DEF action
    <3>1. k \in Frame
      BY <2>2, FrameMakers
    <3> QED BY <3>1, FedOf DEF ProcessDescriptor, Stages
  <2>4. Return \/ CallThen(ProcessDescriptor(call.code, action, call.dl, TRUE, call.time), <<k>>)
    BY <1>6 DEF OverloadReleased
  <2> HIDE DEF action, k
  <2>5. CASE Return
    BY <2>1, <2>5, ReturnIsPlain
  <2>6. CASE CallThen(ProcessDescriptor(call.code, action, call.dl, TRUE, call.time), <<k>>)
    <3>1. Fed(call') = <<>> /\ callers' = <<k>> \o callers
      <4>1. \A code, d, dl, pressed, time : Fed(ProcessDescriptor(code, d, dl, pressed, time)) = <<>>
        BY FedOf
      <4> QED BY <2>6, <4>1 DEF CallThen
    <3>2. Fed(call) = <<>>
      BY <2>1, FedOfCall
    <3> QED BY <2>1, <2>3, <3>1, <3>2 DEF PlainStep
  <2> QED BY <2>4, <2>5, <2>6
<1>7. CASE OneshotPressed \/ OneshotReleased \/ OpMacro \/ OpToggle \/ OpCommand
  BY <1>7, ReturnIsPlain DEF OneshotPressed, OneshotReleased, OpMacro, OpToggle, OpCommand
<1>8. CASE SwapPressed \/ SwapReleased
  BY <1>8, ReturnIsPlain DEF SwapPressed, SwapReleased
<1> QED BY <1>2, <1>3, <1>4, <1>5, <1>6, <1>7, <1>8 DEF Op

\* No chord matches, ever.
LEMMA NothingMatches ==
    ASSUME NoChords, NEW q  PROVE Unmatched(q)
<1>1. \A ls : ActiveChordsOf(ls) = {}
  BY DEF ActiveChordsOf, Active, NoChords
<1> QED BY <1>1 DEF Unmatched, FullMatches, MatchesOf

LEMMA ChordHandlerPlain ==
    ASSUME NoChords, TypeOK, NoneChorded, ChordHandler  PROVE PlainStep
<1>1. ChordOfRelease = {} /\ chord.state = "inactive"
  BY DEF NoneChorded, ChordOfRelease, NoChord
<1>2. CASE ChordInactive
  <2>1. /\ call.pc = "chord" /\ UNCHANGED <<chordVars, now, pending_key>>
        /\ call' = Stage("pending") /\ callers' = callers
    BY <1>2, NothingMatches DEF ChordInactive, InChordHandler, NotHandledByChord, Goto, envVars, keyVars
  <2>2. Fed(call') = Fed(call)
    BY <2>1, FedOfCall DEF Stages
  <2> QED BY <2>1, <2>2 DEF PlainStep
<1>3. CASE LeaveChord
  <2>1. UNCHANGED <<chordVars, now, pending_key>> /\ Return /\ call.pc = "resolved"
    BY <1>3 DEF LeaveChord, envVars, keyVars, chordVars, NoneChorded
  <2> QED BY <2>1, ReturnIsPlain
<1>4. ~ReleaseChordKey /\ ~ChordResolving /\ ~ChordDisambiguation /\ ~ChordHold
  BY <1>1 DEF ReleaseChordKey, ChordResolving, ChordDisambiguation, ChordHold, InChordHandler
<1> QED BY <1>2, <1>3, <1>4 DEF ChordHandler

LEMMA QuietPlain ==
    ASSUME TypeOK, DueBeforeNextEvent \/ EventsDone \/ Exit \/ NotPending \/ Timers
    PROVE  PlainStep
<1> USE DEF envVars, keyVars
<1>1. CASE DueBeforeNextEvent
  <2> DEFINE g == Loop("due", call.evs, call.due)
  <2>1. /\ call.pc = "events" /\ UNCHANGED <<chordVars, now, pending_key>>
        /\ call' = ProcessEvent("chord", NoKey, FALSE, call.due) /\ callers' = <<g>> \o callers
    BY <1>1 DEF DueBeforeNextEvent, CallThen
  <2>2. call.evs \in Seq(Event) /\ call.due \in Nat
    BY <2>1, StackTyped, FrameFields
  <2>3. g \in Frame /\ Fed(g) = call.evs /\ Fed(call) = call.evs /\ Fed(call') = <<>>
    <3>1. g \in Frame /\ Fed(g) = call.evs
      BY <2>2, FrameMakers, FedOf
    <3>2. Fed(call) = call.evs
      BY <2>1, FedOfCall
    <3>3. Fed(call') = <<>>
      BY <2>1 DEF Fed, Rest, ProcessEvent
    <3> QED BY <3>1, <3>2, <3>3
  <2>4. g.pc \notin Stages
    BY DEF Loop, Stages
  <2> HIDE DEF g
  <2> QED BY <2>1, <2>3, <2>4 DEF PlainStep
<1>2. CASE EventsDone
  BY <1>2, FedOfCall DEF EventsDone, Return, PlainStep
<1>3. CASE Exit
  <2>1. /\ call.pc = "exit" /\ UNCHANGED <<chordVars, now, pending_key>> /\ callers' = Tail(callers)
        /\ call' = IF Head(callers).pc = "due"
                   THEN Loop("events", Head(callers).evs, NextDue(call.time)) ELSE Head(callers)
    BY <1>3 DEF Exit
  <2>2. Fed(call') = Fed(Head(callers))
    <3>1. CASE Head(callers).pc = "due"
      BY <2>1, <3>1, FedOf DEF Fed, Rest, Stages
    <3> QED BY <2>1, <3>1
  <2> QED BY <2>1, <2>2, FedOfCall DEF PlainStep
<1>4. CASE NotPending
  BY <1>4, FedOfCall DEF NotPending, Goto, Stages, PlainStep
<1>5. CASE Timers
  <2>1. /\ call.pc = "timers" /\ UNCHANGED <<chordVars, now, pending_key>> /\ callers' = callers
        /\ call' = IF call.code = NoKey THEN ExitEvent(call.time) ELSE Stage("key")
    BY <1>5 DEF Timers, Goto
  <2>2. Fed(call') = Fed(call)
    BY <2>1, FedOf, FedOfCall DEF Stages
  <2> QED BY <2>1, <2>2 DEF PlainStep
<1> QED BY <1>1, <1>2, <1>3, <1>4, <1>5

-----------------------------------------------------------------------------
(* Steps that take an event from the call stack.                            *)

LEMMA NextEventKeepsOrder ==
    ASSUME TypeOK, QueueInv, NextEvent  PROVE QueueInv'
<1> DEFINE e == Head(call.evs)
           f == ProcessEvent("chord", e.code, e.pressed, e.time)
           g == Loop("due", Tail(call.evs), call.due)
           q == pending_key.queue
<1>1. /\ call.pc = "events" /\ call.evs # <<>> /\ UNCHANGED <<chordVars, now, pending_key>>
      /\ call' = f /\ callers' = <<g>> \o callers
  BY DEF NextEvent, CallThen, envVars, keyVars
<1>2. call.evs \in Seq(Event) /\ call.due \in Nat /\ callers \in Seq(Frame)
  BY <1>1, StackTyped, FrameFields
<1>3. e \in Event /\ Tail(call.evs) \in Seq(Event) /\ Len(call.evs) \in Nat \ {0}
  BY <1>1, <1>2, EmptySeq, HeadTailProperties
<1>4. g \in Frame /\ Fed(g) = Tail(call.evs) /\ g.pc \notin Stages
  <2>1. g.pc \notin Stages
    BY DEF Loop, Stages
  <2> QED BY <1>2, <1>3, <2>1, FrameMakers, FedOf
<1>5. Fed(f) = <<e>> \/ Fed(f) = <<>>
  <2>1. "chord" \in Stages /\ e = [code |-> e.code, pressed |-> e.pressed, time |-> e.time]
    BY <1>3 DEF Stages, Event
  <2> HIDE DEF e
  <2> QED BY <2>1, FedOf
<1>6. /\ Fed(call) = call.evs /\ InOrder(q, call, callers, now)
      /\ NoneChorded' /\ now' = now /\ pending_key'.queue = q
      /\ \A i \in DOMAIN callers : callers[i].pc \notin Stages
  BY <1>1, FedOfCall DEF QueueInv, NoneChorded, chordVars
<1>7. /\ 1 \in DOMAIN Fed(call) /\ Fed(call)[1] = e
      /\ DOMAIN Fed(g) \subseteq Nat \ {0}
      /\ \A i \in DOMAIN Fed(g) : i + 1 \in DOMAIN Fed(call) /\ Fed(g)[i] = Fed(call)[i + 1]
  <2> HIDE DEF g
  <2>1. Fed(call) = call.evs /\ Fed(g) = Tail(call.evs)
    BY <1>4, <1>6
  <2>2. /\ e = call.evs[1] /\ 1 \in DOMAIN call.evs /\ DOMAIN Tail(call.evs) = 1 .. Len(call.evs) - 1
        /\ \A i \in DOMAIN Tail(call.evs) : i + 1 \in DOMAIN call.evs /\ Tail(call.evs)[i] = call.evs[i + 1]
    BY <1>1, <1>2, TailFrames
  <2> QED BY <1>3, <2>1, <2>2
<1> HIDE DEF e, f, g, q
<1>8. InOrder(q, g, callers, now)
  <2>1. Sorted(Fed(g))
    <3>1. ASSUME NEW i \in DOMAIN Fed(g), NEW j \in DOMAIN Fed(g), i < j PROVE Fed(g)[i].time <= Fed(g)[j].time
      <4>1. i + 1 < j + 1
        BY <1>7, <3>1
      <4> QED BY <1>6, <1>7, <4>1 DEF InOrder, Sorted
    <3> QED BY <3>1 DEF Sorted
  <2>2. Until(Fed(g), now) /\ Before(q, Fed(g))
    BY <1>6, <1>7 DEF InOrder, Until, Before
  <2>3. \A i \in DOMAIN callers : Before(Fed(g), Fed(callers[i]))
    BY <1>6, <1>7 DEF InOrder, Before
  <2> QED BY <1>6, <2>1, <2>2, <2>3 DEF InOrder
<1>9. InOrder(q, f, callers', now)
  <2>1. CASE Fed(f) = <<>>
    BY <1>1, <1>2, <1>4, <1>8, <2>1, OrderPush, NoEvents
  <2>2. CASE Fed(f) = <<e>>
    <3>1. DOMAIN <<e>> = {1} /\ <<e>>[1] = e
      OBVIOUS
    <3>2. Sorted(Fed(f)) /\ Until(Fed(f), now) /\ Before(q, Fed(f))
      BY <1>6, <1>7, <2>2, <3>1 DEF InOrder, Sorted, Until, Before
    <3>3. Before(Fed(f), Fed(g))
      <4>1. ASSUME NEW j \in DOMAIN Fed(g) PROVE e.time <= Fed(g)[j].time
        <5>1. 1 < j + 1
          BY <1>7
        <5> QED BY <1>6, <1>7, <5>1 DEF InOrder, Sorted
      <4> QED BY <2>2, <3>1, <4>1 DEF Before
    <3>4. \A i \in DOMAIN callers : Before(Fed(f), Fed(callers[i]))
      BY <1>6, <1>7, <2>2, <3>1 DEF InOrder, Before
    <3> QED BY <1>1, <1>2, <1>4, <1>8, <3>2, <3>3, <3>4, OrderPush
  <2> QED BY <1>5, <2>1, <2>2
<1>10. \A i \in DOMAIN callers' : callers'[i] = g \/ (i - 1 \in DOMAIN callers /\ callers'[i] = callers[i - 1])
  BY <1>1, <1>2, <1>4, ConsFrames
<1> QED BY <1>1, <1>4, <1>6, <1>9, <1>10 DEF QueueInv

LEMMA PushesKeepOrder ==
    ASSUME NEW cs \in Seq(Frame), NEW q, NEW c, NEW t, InOrder(q, c, cs, t), NEW f, NEW time \in Nat,
           Fed(f) = <<>>
    PROVE  InOrder(q, f, <<ExitEvent(time)>> \o cs, t)
<1>1. ExitEvent(time) \in Frame /\ Fed(ExitEvent(time)) = <<>>
  BY FrameMakers, FedOf
<1>2. InOrder(q, ExitEvent(time), cs, t)
  BY <1>1, OrderGoto
<1> QED BY <1>1, <1>2, OrderPush, NoEvents

LEMMA KeyKeepsOrder ==
    ASSUME TypeOK, QueueInv, KeyPressed \/ KeyReleased  PROVE QueueInv'
<1>1. /\ call.pc = "key" /\ UNCHANGED <<chordVars, now, pending_key>>
      /\ \/ call' = ExitEvent(call.time) /\ callers' = callers
         \/ \E code, d, dl, pressed : /\ call' = ProcessDescriptor(code, d, dl, pressed, call.time)
                                      /\ callers' = <<ExitEvent(call.time)>> \o callers
  BY DEF KeyPressed, KeyReleased, Goto, CallThen, envVars
<1>2. call.time \in Nat /\ callers \in Seq(Frame)
  BY <1>1, StackTyped, FrameFields
<1>3. /\ InOrder(pending_key.queue, call, callers, now) /\ NoneChorded'
      /\ \A i \in DOMAIN callers : callers[i].pc \notin Stages
  BY <1>1 DEF QueueInv, NoneChorded, chordVars
<1>4. CASE call' = ExitEvent(call.time) /\ callers' = callers
  <2>1. Fed(call') = <<>>
    BY <1>4, FedOf
  <2> QED BY <1>1, <1>3, <1>4, <2>1, OrderGoto DEF QueueInv
<1>5. ASSUME NEW code, NEW d, NEW dl, NEW pressed,
             call' = ProcessDescriptor(code, d, dl, pressed, call.time),
             callers' = <<ExitEvent(call.time)>> \o callers
      PROVE  QueueInv'
  <2>1. Fed(call') = <<>>
    BY <1>5, FedOf
  <2>2. InOrder(pending_key.queue, call', callers', now)
    BY <1>2, <1>3, <1>5, <2>1, PushesKeepOrder
  <2>3. ExitEvent(call.time).pc \notin Stages /\ ExitEvent(call.time) \in Frame
    BY <1>2, FrameMakers DEF ExitEvent, Stages
  <2>4. \A i \in DOMAIN callers' : \/ callers'[i] = ExitEvent(call.time)
                                   \/ i - 1 \in DOMAIN callers /\ callers'[i] = callers[i - 1]
    BY <1>2, <1>5, <2>3, ConsFrames
  <2> QED BY <1>1, <1>3, <2>2, <2>3, <2>4 DEF QueueInv
<1> QED BY <1>1, <1>4, <1>5

\* The event behind the queue of the pending key.
LEMMA HoldBackOrder ==
    ASSUME TypeOK, QueueInv, call.pc = "pending", NEW q, q = HoldBack(pending_key.queue)
    PROVE  /\ q \in Seq(Event) /\ Sorted(q) /\ Until(q, now)
           /\ \A i \in DOMAIN callers : Before(q, Fed(callers[i]))
<1> DEFINE p == pending_key.queue
<1>1. /\ p \in Seq(Event) /\ InOrder(p, call, callers, now) /\ Fed(call) \in {<<>>, <<ThisEvent>>}
      /\ Fed(call) = IF call.code = NoKey THEN <<>> ELSE <<ThisEvent>>
  BY FedOfCall DEF TypeOK, KeysOK, Pending, QueueInv, Stages
<1>2. CASE call.code = NoKey
  BY <1>1, <1>2 DEF HoldBack, InOrder
<1>3. CASE call.code # NoKey
  <2>1. q = Append(p, ThisEvent)
    BY <1>3 DEF HoldBack
  <2>2. ThisEvent \in Event
    BY StackTyped, FrameFields DEF ThisEvent, Event
  <2>3. /\ q \in Seq(Event) /\ DOMAIN p = 1 .. Len(p) /\ Len(p) \in Nat
        /\ DOMAIN q = 1 .. Len(p) + 1 /\ q[Len(p) + 1] = ThisEvent
        /\ \A i \in 1 .. Len(p) : q[i] = p[i]
    BY <1>1, <2>1, <2>2
  <2>4. Fed(call) = <<ThisEvent>> /\ DOMAIN <<ThisEvent>> = {1} /\ <<ThisEvent>>[1] = ThisEvent
    BY <1>1, <1>3
  <2>5. /\ \A i \in DOMAIN p : p[i].time <= ThisEvent.time
        /\ ThisEvent.time <= now
        /\ \A k \in DOMAIN callers : \A j \in DOMAIN Fed(callers[k]) : ThisEvent.time <= Fed(callers[k])[j].time
    BY <1>1, <2>4 DEF InOrder, Before, Until
  <2> HIDE DEF p
  <2>6. \A i \in DOMAIN q : (i \in DOMAIN p /\ q[i] = p[i]) \/ (i = Len(p) + 1 /\ q[i] = ThisEvent)
    BY <2>3
  <2>7. Sorted(q)
    <3>1. ASSUME NEW i \in DOMAIN q, NEW j \in DOMAIN q, i < j PROVE q[i].time <= q[j].time
      <4>1. i \in DOMAIN p /\ q[i] = p[i]
        BY <2>3, <2>6, <3>1
      <4> QED BY <1>1, <2>5, <2>6, <3>1, <4>1 DEF InOrder, Sorted
    <3> QED BY <3>1 DEF Sorted
  <2>8. Until(q, now)
    BY <1>1, <2>5, <2>6 DEF InOrder, Until
  <2>9. \A i \in DOMAIN callers : Before(q, Fed(callers[i]))
    BY <1>1, <2>5, <2>6 DEF InOrder, Before
  <2> QED BY <2>3, <2>7, <2>8, <2>9
<1> QED BY <1>2, <1>3

LEMMA PendingKeyKeepsOrder ==
    ASSUME TypeOK, QueueInv, PendingKey  PROVE QueueInv'
<1> DEFINE p == pending_key
           q == HoldBack(p.queue)
           action == PendingAction(q)
<1>1. /\ call.pc = "pending" /\ UNCHANGED <<chordVars, now>> /\ p \in Pending
      /\ InOrder(p.queue, call, callers, now) /\ NoneChorded'
      /\ \A i \in DOMAIN callers : callers[i].pc \notin Stages
  BY DEF PendingKey, QueueInv, NoneChorded, chordVars, envVars, TypeOK, KeysOK
<1>2. /\ q \in Seq(Event) /\ Sorted(q) /\ Until(q, now)
      /\ \A i \in DOMAIN callers : Before(q, Fed(callers[i]))
  BY <1>1, HoldBackOrder
<1>3. call.time \in Nat /\ callers \in Seq(Frame)
  BY <1>1, StackTyped, FrameFields
<1>4. CASE action.op = "none"
  <2>1. call' = ExitEvent(call.time) /\ callers' = callers /\ pending_key' = [p EXCEPT !.queue = q]
    BY <1>4 DEF PendingKey, Goto
  <2> HIDE DEF q
  <2>2. pending_key'.queue = q /\ Fed(call') = <<>>
    BY <1>1, <2>1, FedOf DEF Pending
  <2>3. InOrder(q, call', callers, now)
    BY <1>1, <1>2, <2>2, NoEvents DEF InOrder
  <2> QED BY <1>1, <2>1, <2>2, <2>3 DEF QueueInv
<1>5. CASE action.op # "none"
  <2> DEFINE f == ProcessDescriptor(p.code, action, p.dl, TRUE, call.time)
             g == ProcessEvents(q)
             h == ExitEvent(call.time)
  <2>1. pending_key' = NoPending /\ call' = f /\ callers' = <<g, h>> \o callers
    BY <1>5 DEF PendingKey, CallThen
  <2> HIDE DEF q, action
  <2>2. g \in Frame /\ h \in Frame /\ Fed(f) = <<>> /\ Fed(g) = q /\ Fed(h) = <<>>
    <3>1. g \in Frame /\ Fed(g) = q
      BY <1>2, FrameMakers, FedOf
    <3>2. h \in Frame /\ Fed(h) = <<>>
      BY <1>3, FrameMakers, FedOf
    <3>3. Fed(f) = <<>>
      BY DEF Fed, Rest, Stages, ProcessDescriptor
    <3> QED BY <3>1, <3>2, <3>3
  <2>3. g.pc \notin Stages /\ h.pc \notin Stages /\ pending_key'.queue = <<>>
    BY <2>1 DEF ProcessEvents, Loop, ExitEvent, Stages, NoPending
  <2> HIDE DEF f, g, h
  <2>4. callers' = <<g>> \o (<<h>> \o callers) /\ <<h>> \o callers \in Seq(Frame)
    <3>1. <<g, h>> \o callers = <<g>> \o (<<h>> \o callers)
      BY <1>3, <2>2, ConsTwice
    <3> QED BY <1>3, <2>1, <2>2, <3>1, ConsFrames
  <2>5. InOrder(<<>>, h, callers, now)
    BY <1>1, <2>2, NoEvents DEF InOrder
  <2>6. InOrder(<<>>, g, <<h>> \o callers, now)
    BY <1>2, <1>3, <2>2, <2>5, OrderPush, NoEvents
  <2>7. InOrder(<<>>, f, callers', now)
    BY <2>2, <2>4, <2>6, OrderPush, NoEvents
  <2>8. \A i \in DOMAIN callers' : callers'[i].pc \notin Stages
    <3> DEFINE cs == <<h>> \o callers
    <3>1. \A i \in DOMAIN cs : cs[i] = h \/ (i - 1 \in DOMAIN callers /\ cs[i] = callers[i - 1])
      BY <1>3, <2>2, ConsFrames
    <3> HIDE DEF cs
    <3>2. \A i \in DOMAIN cs : cs[i].pc \notin Stages
      BY <1>1, <2>3, <3>1
    <3>3. \A i \in DOMAIN callers' : callers'[i] = g \/ (i - 1 \in DOMAIN cs /\ callers'[i] = cs[i - 1])
      <4>1. cs \in Seq(Frame) /\ callers' = <<g>> \o cs
        BY <2>4 DEF cs
      <4> QED BY <2>2, <4>1, ConsFrames
    <3> QED BY <2>3, <3>2, <3>3
  <2> QED BY <1>1, <2>1, <2>3, <2>7, <2>8 DEF QueueInv
<1> QED BY <1>4, <1>5

LEMMA EnvironmentKeepsOrder ==
    ASSUME TypeOK, QueueInv, Environment  PROVE QueueInv'
<1>1. now \in Nat /\ now' \in Nat /\ now <= now' /\ call = IdleCall
  <2>1. now \in Nat
    BY DEF TypeOK, EnvOK
  <2>2. call = IdleCall /\ (now' = now \/ now' = now + 1)
    BY DEF Environment, Press, Release, Timeout, Tick, ProcessOne, Idle
  <2> QED BY <2>1, <2>2
<1>2. /\ callers = <<>> /\ UNCHANGED <<chordVars, pending_key>> /\ NoneChorded'
      /\ InOrder(pending_key.queue, call, callers, now)
  BY <1>1 DEF Environment, Press, Release, Timeout, Tick, ProcessOne, TypeOK, StackOK, WellStacked,
              QueueInv, NoneChorded, chordVars, keyVars
<1>3. Until(pending_key.queue, now') /\ Sorted(pending_key.queue)
  <2>1. ASSUME NEW i \in DOMAIN pending_key.queue PROVE pending_key.queue[i].time <= now'
    <3>1. pending_key.queue[i].time \in Nat
      <4>1. pending_key.queue \in Seq(Event)
        BY DEF TypeOK, KeysOK, Pending
      <4>2. pending_key.queue[i] \in Event
        BY <4>1
      <4> QED BY <4>2 DEF Event
    <3>2. pending_key.queue[i].time <= now
      BY <1>2 DEF InOrder, Until
    <3> QED BY <1>1, <3>1, <3>2
  <2> QED BY <1>2, <2>1 DEF InOrder, Until
<1>4. CASE Tick
  <2>1. UNCHANGED stackVars
    BY <1>4 DEF Tick
  <2>2. Fed(call) = <<>>
    BY <1>1, FedOf
  <2> QED BY <1>2, <1>3, <2>1, <2>2, NoEvents DEF InOrder, QueueInv, stackVars
<1>5. ASSUME NEW code, NEW pressed, ProcessOne(code, pressed) PROVE QueueInv'
  <2> DEFINE e == [code |-> code, pressed |-> pressed, time |-> now]
  <2>1. call' = ProcessEvents(<<e>>) /\ callers' = <<IdleCall>> \o callers /\ now' = now
    BY <1>5 DEF ProcessOne, CallThen
  <2>2. Fed(call') = <<e>> /\ DOMAIN <<e>> = {1} /\ <<e>>[1] = e /\ e.time = now
    BY <2>1, FedOf
  <2> HIDE DEF e
  <2>3. callers' = <<IdleCall>>
    BY <1>2, <2>1
  <2>4. Sorted(Fed(call')) /\ Until(Fed(call'), now) /\ Before(pending_key.queue, Fed(call'))
    BY <1>1, <1>3, <2>1, <2>2 DEF Sorted, Until, Before
  <2>5. InOrder(pending_key.queue, call', callers', now')
    <3>1. DOMAIN callers' = {1} /\ callers'[1] = IdleCall
      BY <2>3
    <3>2. Fed(IdleCall) = <<>>
      BY FedOf
    <3> QED BY <1>3, <2>1, <2>4, <3>1, <3>2, NoEvents DEF InOrder
  <2> QED BY <1>2, <2>3, <2>5 DEF QueueInv, IdleCall, Stages
<1> QED BY <1>4, <1>5 DEF Environment, Press, Release, Timeout

\* At the start nothing is held back.
LEMMA QueueInvStart == Init => QueueInv
<1> SUFFICES ASSUME Init PROVE QueueInv
  OBVIOUS
<1>1. /\ pending_key.queue = <<>> /\ Fed(call) = <<>> /\ callers = <<>> /\ NoneChorded
  BY FedOf DEF Init, NoPending, NoneChorded
<1> QED BY <1>1, NoEvents DEF QueueInv, InOrder

LEMMA QueueInvStep ==
    ASSUME NoChords, TypeOK, QueueInv, [Next]_vars  PROVE QueueInv'
<1>1. CASE UNCHANGED vars
  BY <1>1 DEF vars, QueueInv, NoneChorded, chordVars, keyVars, stackVars, envVars
<1>2. CASE Engine
  <2>1. QueueInv => NoneChorded
    BY DEF QueueInv
  <2>2. CASE NextEvent \/ KeyPressed \/ KeyReleased \/ PendingKey
    BY <2>2, NextEventKeepsOrder, KeyKeepsOrder, PendingKeyKeepsOrder
  <2>3. CASE ChordHandler \/ Op \/ DueBeforeNextEvent \/ EventsDone \/ Exit \/ NotPending \/ Timers
    BY <2>1, <2>3, ChordHandlerPlain, OpPlain, QuietPlain, PlainStepKeepsOrder
  <2> QED BY <1>2, <2>2, <2>3 DEF Engine, Looping, Holding, Binding
<1> QED BY <1>1, <1>2, EnvironmentKeepsOrder DEF Next

LEMMA PrefixedLists ==
    ASSUME NEW cs \in Seq(Frame), NEW a, NEW b, NEW c
    PROVE  LET rests == [i \in DOMAIN cs |-> Rest(cs[i])]
               lists == <<a, b, c>> \o rests IN
           /\ DOMAIN lists = 1 .. Len(cs) + 3
           /\ lists[1] = a /\ lists[2] = b /\ lists[3] = c
           /\ \A m \in DOMAIN lists : m > 3 => m - 3 \in DOMAIN cs /\ lists[m] = Rest(cs[m - 3])
<1> DEFINE rests == [i \in DOMAIN cs |-> Rest(cs[i])]
           S == {a, b, c} \cup {Rest(cs[i]) : i \in DOMAIN cs}
<1>1. DOMAIN cs = 1 .. Len(cs) /\ Len(cs) \in Nat
  OBVIOUS
<1>2. rests \in Seq(S) /\ Len(rests) = Len(cs)
  <2>1. rests \in [1 .. Len(cs) -> S]
    BY <1>1
  <2> QED BY <1>1, <2>1
<1>3. <<a, b, c>> \in Seq(S) /\ Len(<<a, b, c>>) = 3
  OBVIOUS
<1>4. \A i \in DOMAIN cs : rests[i] = Rest(cs[i])
  OBVIOUS
<1> HIDE DEF rests, S
<1>5. /\ DOMAIN (<<a, b, c>> \o rests) = 1 .. Len(cs) + 3
      /\ \A m \in 1 .. Len(cs) + 3 : (<<a, b, c>> \o rests)[m]
            = IF m <= 3 THEN <<a, b, c>>[m] ELSE rests[m - 3]
  BY <1>1, <1>2, <1>3, ConcatProperties
<1>6. \A m \in 1 .. Len(cs) + 3 : m > 3 => m - 3 \in DOMAIN cs
  BY <1>1
<1>7. 1 \in 1 .. Len(cs) + 3 /\ 2 \in 1 .. Len(cs) + 3 /\ 3 \in 1 .. Len(cs) + 3
  BY <1>1
<1> QED BY <1>4, <1>5, <1>6, <1>7 DEF rests

LEMMA ListsInOrder ==
    ASSUME TypeOK, QueueInv  PROVE HeldBackInOrder
<1> DEFINE q == pending_key.queue
<1>1. /\ callers \in Seq(Frame) /\ InOrder(q, call, callers, now) /\ chord = NoChord
      /\ \A i \in DOMAIN callers : callers[i].pc \notin Stages
  BY StackTyped DEF QueueInv, NoneChorded
<1>2. /\ chord.queue = <<>> /\ chord.state # "resolving"
      /\ \A i \in DOMAIN callers : Rest(callers[i]) = Fed(callers[i])
      /\ Rest(call) = Fed(call) \/ Rest(call) = <<>>
  BY <1>1 DEF NoChord, Fed, Rest, Stages
<1>3. /\ DOMAIN HeldBack = 1 .. Len(callers) + 3 /\ Len(callers) \in Nat
      /\ HeldBack[1] = q /\ HeldBack[2] = <<>> /\ HeldBack[3] = Rest(call)
      /\ \A m \in DOMAIN HeldBack : m > 3 => /\ m - 3 \in DOMAIN callers
                                              /\ HeldBack[m] = Rest(callers[m - 3])
  BY <1>1, <1>2, PrefixedLists DEF HeldBack
<1> HIDE DEF q
<1>4. ASSUME NEW m \in DOMAIN HeldBack
      PROVE  Sorted(HeldBack[m]) /\ (m > 1 => Before(q, HeldBack[m])) /\ (m > 3 => Before(Rest(call), HeldBack[m]))
  <2>1. CASE m <= 3
    <3>1. m = 1 \/ m = 2 \/ m = 3
      BY <1>3, <2>1
    <3> QED BY <1>1, <1>2, <1>3, <2>1, <3>1, NoEvents DEF InOrder
  <2>2. CASE m > 3
    BY <1>1, <1>2, <1>3, <2>2, NoEvents DEF InOrder
  <2> QED BY <1>3, <2>1, <2>2
<1>5. ASSUME NEW m \in DOMAIN HeldBack, NEW n \in DOMAIN HeldBack, m < n
      PROVE  Before(HeldBack[m], HeldBack[n])
  <2>1. m \in Nat /\ n \in Nat /\ m >= 1
    BY <1>3
  <2>2. CASE m = 1
    BY <1>3, <1>4, <1>5, <2>1, <2>2
  <2>3. CASE m = 2
    BY <1>3, <2>3, NoEvents
  <2>4. CASE m = 3
    BY <1>3, <1>4, <1>5, <2>4
  <2>5. CASE m > 3
    <3>1. m - 3 < n - 3 /\ n > 3
      BY <1>5, <2>1, <2>5
    <3> QED BY <1>1, <1>2, <1>3, <2>5, <3>1 DEF InOrder
  <2> QED BY <2>1, <2>2, <2>3, <2>4, <2>5
<1> QED BY <1>4, <1>5 DEF HeldBackInOrder, Sorted, Before

\* Whatever is held back is processed in the order in which it was struck, in
\* every configuration without chords, however pending keys nest and whatever
\* timeouts come in between (handle_pending_key, kbd_process_events).
THEOREM InOrderOfStriking ==
    ASSUME NoChords  PROVE Spec => []HeldBackInOrder
<1>1. Init => QueueInv
  BY QueueInvStart
<1>2. TypeOK /\ QueueInv /\ [Next]_vars => QueueInv'
  BY QueueInvStep
<1>3. TypeOK /\ QueueInv => HeldBackInOrder
  BY ListsInOrder
<1> QED BY <1>1, <1>2, <1>3, TypeCorrectness, PTL DEF Spec

-----------------------------------------------------------------------------
(* The keys that will be in the cache once all events are processed.        *)

RealCodes == Codes \ {NoKey}
HeldCodes == {k \in Keys : \E dev \in Devices : <<dev, k>> \in held}

\* What the events s say of the key k: nothing, or at last that it goes down.
Mentioned(s, k) == \E i \in DOMAIN s : s[i].code = k
LeftDown(s, k) == \E i \in DOMAIN s : /\ s[i].code = k /\ s[i].pressed
                                      /\ \A j \in DOMAIN s : j > i => s[j].code # k

\* The keys that are down after the events s, and after those of the
\* activations cs, when those of D were down before.
Struck(D, s) == {k \in RealCodes : LeftDown(s, k) \/ (k \in D /\ ~Mentioned(s, k))}
StruckAll(D, cs) ==
    {k \in RealCodes :
        \/ \E i \in DOMAIN cs : /\ LeftDown(Fed(cs[i]), k)
                                /\ \A j \in DOMAIN cs : j > i => ~Mentioned(Fed(cs[j]), k)
        \/ k \in D /\ \A i \in DOMAIN cs : ~Mentioned(Fed(cs[i]), k)}
Coming == StruckAll(Struck(Struck(CachedCodes, pending_key.queue), Fed(call)), callers)

LEMMA StruckNothing ==
    ASSUME NEW D, D \subseteq RealCodes
    PROVE  Struck(D, <<>>) = D /\ StruckAll(D, <<>>) = D
  BY DEF Struck, StruckAll, LeftDown, Mentioned

LEMMA StruckReal ==
    ASSUME NEW D, NEW s PROVE Struck(D, s) \subseteq RealCodes
  BY DEF Struck

LEMMA StruckOne ==
    ASSUME NEW D, NEW e
    PROVE  Struck(D, <<e>>) = {k \in RealCodes : (e.code = k /\ e.pressed) \/ (k \in D /\ e.code # k)}
<1>1. DOMAIN <<e>> = {1} /\ <<e>>[1] = e
  OBVIOUS
<1>2. \A k : (LeftDown(<<e>>, k) <=> e.code = k /\ e.pressed) /\ (Mentioned(<<e>>, k) <=> e.code = k)
  BY <1>1 DEF LeftDown, Mentioned
<1> QED BY <1>2 DEF Struck

LEMMA StruckMonotone ==
    ASSUME NEW D, NEW E, D \subseteq E
    PROVE  /\ \A s : Struck(D, s) \subseteq Struck(E, s)
           /\ \A cs : StruckAll(D, cs) \subseteq StruckAll(E, cs)
  BY DEF Struck, StruckAll

LEMMA StruckAppend ==
    ASSUME NEW D, NEW s \in Seq(Event), NEW e \in Event
    PROVE  Struck(D, Append(s, e)) = Struck(Struck(D, s), <<e>>)
<1> DEFINE t == Append(s, e)
<1>1. /\ DOMAIN s = 1 .. Len(s) /\ Len(s) \in Nat /\ DOMAIN t = 1 .. Len(s) + 1
      /\ t[Len(s) + 1] = e /\ \A i \in DOMAIN s : t[i] = s[i]
  OBVIOUS
<1> HIDE DEF t
<1>2. ASSUME NEW k
      PROVE  /\ Mentioned(t, k) <=> Mentioned(s, k) \/ e.code = k
             /\ LeftDown(t, k) <=> (e.code = k /\ e.pressed) \/ (e.code # k /\ LeftDown(s, k))
  <2>1. \A i \in DOMAIN t : i = Len(s) + 1 \/ i \in DOMAIN s
    BY <1>1
  <2>2. Len(s) + 1 \in DOMAIN t /\ \A i \in DOMAIN s : i \in DOMAIN t /\ i < Len(s) + 1
    BY <1>1
  <2>3. Mentioned(t, k) <=> Mentioned(s, k) \/ e.code = k
    BY <1>1, <2>1, <2>2 DEF Mentioned
  <2>4. CASE e.code = k
    <3>1. ASSUME LeftDown(t, k) PROVE e.pressed
      <4>1. PICK i \in DOMAIN t : t[i].code = k /\ t[i].pressed /\ \A j \in DOMAIN t : j > i => t[j].code # k
        BY <3>1 DEF LeftDown
      <4>2. i = Len(s) + 1
        BY <1>1, <2>1, <2>2, <2>4, <4>1
      <4> QED BY <1>1, <4>1, <4>2
    <3>2. ASSUME e.pressed PROVE LeftDown(t, k)
      <4>1. \A j \in DOMAIN t : ~(j > Len(s) + 1)
        BY <1>1
      <4> QED BY <1>1, <2>2, <2>4, <3>2, <4>1 DEF LeftDown
    <3> QED BY <2>3, <2>4, <3>1, <3>2
  <2>5. CASE e.code # k
    BY <1>1, <2>1, <2>2, <2>3, <2>5 DEF LeftDown
  <2> QED BY <2>4, <2>5
<1>3. ASSUME NEW k PROVE k \in Struck(D, t) <=> k \in Struck(Struck(D, s), <<e>>)
  <2> DEFINE before == Struck(D, s)
  <2>1. k \in before <=> k \in RealCodes /\ (LeftDown(s, k) \/ (k \in D /\ ~Mentioned(s, k)))
    BY DEF Struck
  <2>2. k \in Struck(D, t) <=> k \in RealCodes /\ (LeftDown(t, k) \/ (k \in D /\ ~Mentioned(t, k)))
    BY DEF Struck
  <2> HIDE DEF before
  <2>3. k \in Struck(before, <<e>>) <=> k \in RealCodes /\ ((e.code = k /\ e.pressed) \/ (k \in before /\ e.code # k))
    BY StruckOne
  <2>4. k \in Struck(D, t) <=> k \in Struck(before, <<e>>)
    BY <1>2, <2>1, <2>2, <2>3
  <2> QED BY <2>4 DEF before
<1>4. Struck(D, t) = Struck(Struck(D, s), <<e>>)
  BY <1>3
<1> QED BY <1>4 DEF t

LEMMA StruckFirst ==
    ASSUME NEW D, NEW s \in Seq(Event), s # <<>>
    PROVE  Struck(D, s) = Struck(Struck(D, <<Head(s)>>), Tail(s))
<1> DEFINE e == Head(s)
           t == Tail(s)
<1>1. /\ e = s[1] /\ 1 \in DOMAIN s /\ DOMAIN t = 1 .. Len(s) - 1 /\ DOMAIN s = 1 .. Len(s) /\ Len(s) \in Nat
      /\ \A i \in DOMAIN t : i + 1 \in DOMAIN s /\ t[i] = s[i + 1]
  BY TailFrames
<1> HIDE DEF e, t
<1>2. \A i \in DOMAIN s : i = 1 \/ (i - 1 \in DOMAIN t /\ s[i] = t[i - 1] /\ i > 1)
  BY <1>1
<1>3. ASSUME NEW k
      PROVE  /\ Mentioned(s, k) <=> Mentioned(t, k) \/ e.code = k
             /\ LeftDown(s, k) <=> LeftDown(t, k) \/ (~Mentioned(t, k) /\ e.code = k /\ e.pressed)
  <2>1. Mentioned(s, k) <=> Mentioned(t, k) \/ e.code = k
    BY <1>1, <1>2 DEF Mentioned
  <2>2. ASSUME LeftDown(s, k) PROVE LeftDown(t, k) \/ (~Mentioned(t, k) /\ e.code = k /\ e.pressed)
    <3>1. PICK i \in DOMAIN s : s[i].code = k /\ s[i].pressed /\ \A j \in DOMAIN s : j > i => s[j].code # k
      BY <2>2 DEF LeftDown
    <3>2. CASE i = 1
      <4>1. \A j \in DOMAIN t : j + 1 \in DOMAIN s /\ j + 1 > i /\ t[j] = s[j + 1]
        BY <1>1, <3>2
      <4> QED BY <1>1, <3>1, <3>2, <4>1 DEF Mentioned
    <3>3. CASE i # 1
      <4>1. i - 1 \in DOMAIN t /\ t[i - 1] = s[i]
        BY <1>2, <3>3
      <4>2. \A j \in DOMAIN t : j > i - 1 => j + 1 \in DOMAIN s /\ j + 1 > i /\ t[j] = s[j + 1]
        BY <1>1
      <4> QED BY <3>1, <4>1, <4>2 DEF LeftDown
    <3> QED BY <3>2, <3>3
  <2>3. ASSUME LeftDown(t, k) PROVE LeftDown(s, k)
    <3>1. PICK i \in DOMAIN t : t[i].code = k /\ t[i].pressed /\ \A j \in DOMAIN t : j > i => t[j].code # k
      BY <2>3 DEF LeftDown
    <3>2. i + 1 \in DOMAIN s /\ s[i + 1] = t[i]
      BY <1>1
    <3>3. ASSUME NEW j \in DOMAIN s, j > i + 1 PROVE s[j].code # k
      <4>1. j - 1 \in DOMAIN t /\ j - 1 > i /\ s[j] = t[j - 1]
        BY <1>1, <1>2, <3>3
      <4> QED BY <3>1, <4>1
    <3> QED BY <3>1, <3>2, <3>3 DEF LeftDown
  <2>4. ASSUME ~Mentioned(t, k), e.code = k, e.pressed PROVE LeftDown(s, k)
    <3>1. \A j \in DOMAIN s : j > 1 => s[j].code # k
      BY <1>2, <2>4 DEF Mentioned
    <3> QED BY <1>1, <2>4, <3>1 DEF LeftDown
  <2> QED BY <2>1, <2>2, <2>3, <2>4
<1>4. ASSUME NEW k PROVE k \in Struck(D, s) <=> k \in Struck(Struck(D, <<e>>), t)
  <2> DEFINE after == Struck(D, <<e>>)
  <2>1. k \in after <=> k \in RealCodes /\ ((e.code = k /\ e.pressed) \/ (k \in D /\ e.code # k))
    BY StruckOne
  <2>2. k \in Struck(D, s) <=> k \in RealCodes /\ (LeftDown(s, k) \/ (k \in D /\ ~Mentioned(s, k)))
    BY DEF Struck
  <2> HIDE DEF after
  <2>3. k \in Struck(after, t) <=> k \in RealCodes /\ (LeftDown(t, k) \/ (k \in after /\ ~Mentioned(t, k)))
    BY DEF Struck
  <2>4. k \in Struck(D, s) <=> k \in Struck(after, t)
    BY <1>3, <2>1, <2>2, <2>3
  <2> QED BY <2>4 DEF after
<1>5. Struck(D, s) = Struck(Struck(D, <<e>>), t)
  BY <1>4
<1> QED BY <1>5 DEF e, t

LEMMA StruckAllFirst ==
    ASSUME NEW D, NEW f \in Frame, NEW cs \in Seq(Frame)
    PROVE  StruckAll(D, <<f>> \o cs) = StruckAll(Struck(D, Fed(f)), cs)
<1> DEFINE ks == <<f>> \o cs
<1>1. /\ DOMAIN cs = 1 .. Len(cs) /\ Len(cs) \in Nat /\ DOMAIN ks = 1 .. Len(cs) + 1 /\ ks[1] = f
      /\ \A i \in DOMAIN cs : i + 1 \in DOMAIN ks /\ ks[i + 1] = cs[i]
      /\ \A i \in DOMAIN ks : i # 1 => i - 1 \in DOMAIN cs /\ ks[i] = cs[i - 1]
  BY ConsFrames
<1> HIDE DEF ks
<1>2. ASSUME NEW k
      PROVE  (\A i \in DOMAIN ks : ~Mentioned(Fed(ks[i]), k))
               <=> ~Mentioned(Fed(f), k) /\ \A i \in DOMAIN cs : ~Mentioned(Fed(cs[i]), k)
  <2>1. 1 \in DOMAIN ks
    BY <1>1
  <2> QED BY <1>1, <2>1
<1>3. ASSUME NEW k
      PROVE  (\E i \in DOMAIN ks : /\ LeftDown(Fed(ks[i]), k)
                                   /\ \A j \in DOMAIN ks : j > i => ~Mentioned(Fed(ks[j]), k))
        <=> \/ \E i \in DOMAIN cs : /\ LeftDown(Fed(cs[i]), k)
                                    /\ \A j \in DOMAIN cs : j > i => ~Mentioned(Fed(cs[j]), k)
            \/ LeftDown(Fed(f), k) /\ \A i \in DOMAIN cs : ~Mentioned(Fed(cs[i]), k)
  <2>1. ASSUME NEW i \in DOMAIN ks, LeftDown(Fed(ks[i]), k),
               \A j \in DOMAIN ks : j > i => ~Mentioned(Fed(ks[j]), k)
        PROVE  \/ \E m \in DOMAIN cs : /\ LeftDown(Fed(cs[m]), k)
                                       /\ \A j \in DOMAIN cs : j > m => ~Mentioned(Fed(cs[j]), k)
               \/ LeftDown(Fed(f), k) /\ \A m \in DOMAIN cs : ~Mentioned(Fed(cs[m]), k)
    <3>1. CASE i = 1
      <4>1. \A m \in DOMAIN cs : m + 1 \in DOMAIN ks /\ m + 1 > i /\ ks[m + 1] = cs[m]
        BY <1>1, <3>1
      <4> QED BY <1>1, <2>1, <3>1, <4>1
    <3>2. CASE i # 1
      <4>1. i - 1 \in DOMAIN cs /\ ks[i] = cs[i - 1]
        BY <1>1, <3>2
      <4>2. \A j \in DOMAIN cs : j > i - 1 => j + 1 \in DOMAIN ks /\ j + 1 > i /\ ks[j + 1] = cs[j]
        BY <1>1
      <4> QED BY <2>1, <4>1, <4>2
    <3> QED BY <3>1, <3>2
  <2>2. ASSUME NEW i \in DOMAIN cs, LeftDown(Fed(cs[i]), k),
               \A j \in DOMAIN cs : j > i => ~Mentioned(Fed(cs[j]), k)
        PROVE  \E m \in DOMAIN ks : /\ LeftDown(Fed(ks[m]), k)
                                    /\ \A j \in DOMAIN ks : j > m => ~Mentioned(Fed(ks[j]), k)
    <3>1. i + 1 \in DOMAIN ks /\ ks[i + 1] = cs[i]
      BY <1>1
    <3>2. ASSUME NEW j \in DOMAIN ks, j > i + 1 PROVE ~Mentioned(Fed(ks[j]), k)
      <4>1. j - 1 \in DOMAIN cs /\ j - 1 > i /\ ks[j] = cs[j - 1]
        BY <1>1, <3>2
      <4> QED BY <2>2, <4>1
    <3> QED BY <2>2, <3>1, <3>2
  <2>3. ASSUME LeftDown(Fed(f), k), \A i \in DOMAIN cs : ~Mentioned(Fed(cs[i]), k)
        PROVE  \E m \in DOMAIN ks : /\ LeftDown(Fed(ks[m]), k)
                                    /\ \A j \in DOMAIN ks : j > m => ~Mentioned(Fed(ks[j]), k)
    <3>1. 1 \in DOMAIN ks /\ \A j \in DOMAIN ks : j > 1 => ~Mentioned(Fed(ks[j]), k)
      BY <1>1, <2>3
    <3> QED BY <1>1, <2>3, <3>1
  <2> QED BY <2>1, <2>2, <2>3
<1>4. ASSUME NEW k PROVE k \in StruckAll(D, ks) <=> k \in StruckAll(Struck(D, Fed(f)), cs)
  BY <1>2, <1>3 DEF StruckAll, Struck
<1>5. StruckAll(D, ks) = StruckAll(Struck(D, Fed(f)), cs)
  BY <1>4
<1> QED BY <1>5 DEF ks

-----------------------------------------------------------------------------
(* Steps that leave the pending key and the codes in the cache alone.       *)

\* What is pending is cached, and a key that is looked up is not pending.
Waits(cs) == \A i \in DOMAIN cs : cs[i].pc = "descriptor" => ~cs[i].pressed
PendingInv ==
    /\ pending_key.code = NoKey => pending_key.queue = <<>>
    /\ pending_key.code # NoKey => pending_key.code \in CachedCodes
    /\ call.pc \in {"timers", "key"} /\ call.code # NoKey =>
          ~Mentioned(pending_key.queue, call.code) /\ call.code # pending_key.code
    /\ call.pc = "key" => call.code # NoKey
    /\ Pressing /\ call.d.op \in WaitingOps => call.code \in CachedCodes
    /\ Waits(callers)

\* Every key that will be in the cache is down.
FateInv == PendingInv /\ Coming \subseteq HeldCodes

LEMMA TapsEnd ==
    ASSUME TapsAreFinal, NEW d \in Runnable, d.op = "overload"
    PROVE  DescTable[d.act].op \notin WaitingOps
<1>1. d.act \in TapActs
  BY DEF Runnable
<1> QED BY <1>1 DEF TapActs, TapsAreFinal

LEMMA CodesKept ==
    ASSUME \A i \in Slots : cache'[i].code = cache[i].code
    PROVE  CachedCodes' = CachedCodes
  BY DEF CachedCodes

LEMMA CacheSetCodes ==
    ASSUME NEW code, NEW d, NEW dl, cache' = CacheSet(cache, code, d, dl)
    PROVE  CachedCodes' \subseteq CachedCodes \cup {code}
<1>1. \A i \in Slots : cache'[i].code \in {cache[i].code, code}
  BY DEF CacheSet
<1> QED BY <1>1 DEF CachedCodes

LEMMA CachedCodesReal ==
    ASSUME TypeOK PROVE CachedCodes \subseteq RealCodes
  BY DEF CachedCodes, RealCodes, TypeOK, KeysOK, Entry

\* A cache that names the same keys.
LEMMA OpKeepsCodes ==
    ASSUME TypeOK, Op PROVE CachedCodes' = CachedCodes
<1> USE DEF keyVars
<1>1. cache \in [Slots -> Entry]
  BY DEF TypeOK, KeysOK
<1>2. ASSUME NEW code, NEW l, cache' \in {cache, CacheLayer(cache, code, l)}
      PROVE  CachedCodes' = CachedCodes
  <2>1. \A e \in Entry : [e EXCEPT !.layer = l].code = e.code
    BY DEF Entry
  <2>2. \A i \in Slots : cache'[i].code = cache[i].code
    BY <1>1, <1>2, <2>1 DEF CacheLayer
  <2> QED BY <2>2, CodesKept
<1>3. ASSUME cache' = cache PROVE CachedCodes' = CachedCodes
  BY <1>3, CodesKept
<1>4. CASE OpLayer \/ OverloadPressed \/ OneshotPressed \/ OpToggle
  <2>1. cache' \in {cache, CacheLayer(cache, call.code, call.d.layer)}
    BY <1>4 DEF OpLayer, OverloadPressed, OneshotPressed, OpToggle
  <2> QED BY <1>2, <2>1
<1>5. CASE SwapPressed
  <2>1. CASE cache' = cache
    BY <1>3, <2>1
  <2>2. CASE cache' # cache
    <3>1. PICK i, l : i \in SwappedSlot /\
             cache' = [cache EXCEPT ![i].d.op = "layer", ![i].d.layer = l, ![i].layer = l]
      BY <1>5, <2>2 DEF SwapPressed
    <3>2. i \in Slots
      BY <3>1 DEF SwappedSlot, Swappable
    <3>3. ASSUME NEW j \in Slots PROVE cache'[j].code = cache[j].code
      <4>1. \A e \in Entry : [e EXCEPT !.d.op = "layer", !.d.layer = l, !.layer = l].code = e.code
        BY DEF Entry
      <4>2. cache[j] \in Entry
        BY <1>1
      <4>3. j # i => cache'[j] = cache[j]
        BY <1>1, <3>1, <3>2
      <4>4. j = i => cache'[j].code = cache[j].code
        BY <1>1, <3>1, <3>2, <4>1, <4>2
      <4> QED BY <4>3, <4>4
    <3> QED BY <3>3, CodesKept
  <2> QED BY <2>1, <2>2
<1>6. CASE RecacheAction
  <2>1. cache' = [i \in Slots |-> IF cache[i].code = call.code
                                  THEN [cache[i] EXCEPT !.d = call.d] ELSE cache[i]]
    BY <1>6 DEF RecacheAction
  <2>2. \A e \in Entry : [e EXCEPT !.d = call.d].code = e.code
    BY DEF Entry
  <2>3. \A i \in Slots : cache'[i].code = cache[i].code
    BY <1>1, <2>1, <2>2
  <2> QED BY <2>3, CodesKept
<1>7. CASE \/ OpKeySequence \/ OpScroll \/ OpOverloadIdle \/ OpOverloadTimeout \/ OpTimeout \/ OpClear
           \/ OpLayout \/ OverloadReleased \/ OneshotReleased \/ OpMacro \/ OpCommand \/ SwapReleased
  BY <1>3, <1>7 DEF OpKeySequence, OpScroll, OpOverloadIdle, OpOverloadTimeout, OpTimeout, OpClear,
                    OpLayout, OverloadReleased, OneshotReleased, OpMacro, OpCommand, SwapReleased
<1> QED BY <1>4, <1>5, <1>6, <1>7 DEF Op

LEMMA PlainStepKeepsFate ==
    ASSUME TypeOK, PlainStep, CachedCodes' = CachedCodes, held' = held, Coming \subseteq HeldCodes
    PROVE  (Coming \subseteq HeldCodes)'
<1> DEFINE B == Struck(CachedCodes, pending_key.queue)
<1>1. /\ callers \in Seq(Frame) /\ call \in Frame /\ B \subseteq RealCodes
      /\ B' = B /\ HeldCodes' = HeldCodes
      /\ Coming = StruckAll(Struck(B, Fed(call)), callers)
      /\ Coming' = StruckAll(Struck(B', Fed(call)'), callers')
  BY StackTyped, StruckReal DEF PlainStep, Coming, HeldCodes
<1> HIDE DEF B
<1>2. CASE call # IdleCall /\ Fed(call) = <<>> /\ callers' = Tail(callers) /\ Fed(call') = Fed(Head(callers))
  <2>1. callers # <<>>
    BY <1>2 DEF TypeOK, StackOK, WellStacked
  <2>2. Head(callers) \in Frame /\ Tail(callers) \in Seq(Frame) /\ callers = <<Head(callers)>> \o Tail(callers)
    BY <1>1, <2>1, TailFrames
  <2>3. Coming = StruckAll(B, callers)
    BY <1>1, <1>2, StruckNothing
  <2>4. Coming = StruckAll(Struck(B, Fed(Head(callers))), Tail(callers))
    <3>1. StruckAll(B, <<Head(callers)>> \o Tail(callers)) = StruckAll(Struck(B, Fed(Head(callers))), Tail(callers))
      BY <2>2, StruckAllFirst
    <3> QED BY <2>2, <2>3, <3>1
  <2> QED BY <1>1, <1>2, <2>4
<1>3. CASE Fed(call') = Fed(call) /\ callers' = callers
  BY <1>1, <1>3
<1>4. ASSUME NEW g \in Frame, Fed(call') = <<>>, Fed(g) = Fed(call), callers' = <<g>> \o callers
      PROVE  (Coming \subseteq HeldCodes)'
  <2>1. Coming' = StruckAll(B, <<g>> \o callers)
    BY <1>1, <1>4, StruckNothing
  <2>2. StruckAll(B, <<g>> \o callers) = StruckAll(Struck(B, Fed(g)), callers)
    BY <1>1, StruckAllFirst
  <2> QED BY <1>1, <1>4, <2>1, <2>2
<1> QED BY <1>2, <1>3, <1>4 DEF PlainStep

-----------------------------------------------------------------------------
(* Steps that take an event, and what becomes of the keys in the cache.     *)

LEMMA NextEventKeepsFate ==
    ASSUME TypeOK, NextEvent, Coming \subseteq HeldCodes  PROVE (Coming \subseteq HeldCodes)'
<1> DEFINE e == Head(call.evs)
           f == ProcessEvent("chord", e.code, e.pressed, e.time)
           g == Loop("due", Tail(call.evs), call.due)
           B == Struck(CachedCodes, pending_key.queue)
<1>1. /\ call.pc = "events" /\ call.evs # <<>> /\ UNCHANGED <<cache, pending_key, held>>
      /\ call' = f /\ callers' = <<g>> \o callers
  BY DEF NextEvent, CallThen, envVars, keyVars
<1>2. call.evs \in Seq(Event) /\ call.due \in Nat /\ callers \in Seq(Frame) /\ Fed(call) = call.evs
  BY <1>1, StackTyped, FrameFields, FedOfCall
<1>3. e \in Event /\ Tail(call.evs) \in Seq(Event)
  BY <1>1, <1>2, EmptySeq, HeadTailProperties
<1>4. g \in Frame /\ Fed(g) = Tail(call.evs)
  BY <1>2, <1>3, FrameMakers, FedOf
<1>5. Fed(f) = IF e.code = NoKey THEN <<>> ELSE <<e>>
  <2>1. "chord" \in Stages /\ e = [code |-> e.code, pressed |-> e.pressed, time |-> e.time]
    BY <1>3 DEF Stages, Event
  <2> HIDE DEF e
  <2> QED BY <2>1, FedOf
<1>6. /\ B \subseteq RealCodes /\ Coming = StruckAll(Struck(B, call.evs), callers)
      /\ Coming' = StruckAll(Struck(B, Fed(f)), <<g>> \o callers) /\ HeldCodes' = HeldCodes
  <2>1. B' = B /\ HeldCodes' = HeldCodes /\ B \subseteq RealCodes
    BY <1>1, StruckReal DEF CachedCodes, HeldCodes
  <2>2. Coming = StruckAll(Struck(B, Fed(call)), callers) /\ Coming' = StruckAll(Struck(B', Fed(call')), callers')
    BY DEF Coming
  <2> HIDE DEF B, f, g
  <2> QED BY <1>1, <1>2, <2>1, <2>2
<1> HIDE DEF e, f, g, B
<1>7. Struck(B, Fed(f)) = Struck(B, <<e>>)
  <2>1. CASE e.code = NoKey
    <3>1. \A k \in RealCodes : k # NoKey
      BY DEF RealCodes
    <3>2. Struck(B, <<e>>) = {k \in RealCodes : (e.code = k /\ e.pressed) \/ (k \in B /\ e.code # k)}
      BY StruckOne
    <3>3. Struck(B, <<e>>) = B
      BY <1>6, <2>1, <3>1, <3>2
    <3> QED BY <1>5, <1>6, <2>1, <3>3, StruckNothing
  <2>2. CASE e.code # NoKey
    BY <1>5, <2>2
  <2> QED BY <2>1, <2>2
<1>8. Struck(B, call.evs) = Struck(Struck(B, <<e>>), Tail(call.evs))
  BY <1>1, <1>2, StruckFirst DEF e
<1>9. StruckAll(Struck(B, Fed(f)), <<g>> \o callers) = StruckAll(Struck(Struck(B, Fed(f)), Fed(g)), callers)
  BY <1>2, <1>4, StruckAllFirst
<1> QED BY <1>4, <1>6, <1>7, <1>8, <1>9

\* The tail of process_event changes nothing.
LEMMA StruckThenExit ==
    ASSUME NEW D, D \subseteq RealCodes, NEW cs \in Seq(Frame), NEW time \in Nat
    PROVE  StruckAll(D, <<ExitEvent(time)>> \o cs) = StruckAll(D, cs)
<1>1. ExitEvent(time) \in Frame /\ Fed(ExitEvent(time)) = <<>>
  BY FrameMakers, FedOf
<1>2. StruckAll(D, <<ExitEvent(time)>> \o cs) = StruckAll(Struck(D, <<>>), cs)
  BY <1>1, StruckAllFirst
<1> QED BY <1>2, StruckNothing

LEMMA KeyKeepsFate ==
    ASSUME TypeOK, PendingInv, KeyPressed \/ KeyReleased, Coming \subseteq HeldCodes
    PROVE  (Coming \subseteq HeldCodes)'
<1> DEFINE q == pending_key.queue
           k == call.code
           B == Struck(CachedCodes, q)
           A == Struck(CachedCodes', q)
           after == IF call.pressed THEN B \cup {k} ELSE B \ {k}
<1>1. /\ call.pc = "key" /\ UNCHANGED <<pending_key, held>> /\ Fed(call') = <<>>
      /\ callers' \in {callers, <<ExitEvent(call.time)>> \o callers}
  <2>1. /\ call.pc = "key" /\ UNCHANGED <<pending_key, held>>
        /\ \/ call' = ExitEvent(call.time) /\ callers' = callers
           \/ \E code, d, dl, pressed : /\ call' = ProcessDescriptor(code, d, dl, pressed, call.time)
                                        /\ callers' = <<ExitEvent(call.time)>> \o callers
    BY DEF KeyPressed, KeyReleased, Goto, CallThen, envVars
  <2>2. CASE call' = ExitEvent(call.time)
    BY <2>1, <2>2, FedOf
  <2>3. ASSUME NEW code, NEW d, NEW dl, NEW pressed,
               call' = ProcessDescriptor(code, d, dl, pressed, call.time)
        PROVE  Fed(call') = <<>>
    BY <2>3 DEF Fed, Rest, Stages, ProcessDescriptor
  <2> QED BY <2>1, <2>2, <2>3
<1>2. /\ k \in RealCodes /\ ~Mentioned(q, k) /\ callers \in Seq(Frame) /\ call.time \in Nat
      /\ Fed(call) = <<ThisEvent>> /\ ThisEvent.code = k /\ ThisEvent.pressed = call.pressed
      /\ call.pressed \in BOOLEAN
  BY <1>1, StackTyped, FrameFields, FedOfCall DEF PendingInv, RealCodes, Stages, ThisEvent
<1>3. A \subseteq after /\ A \subseteq RealCodes
  <2>1. CASE KeyPressed
    <3>1. call.pressed /\ CachedCodes' \subseteq CachedCodes \cup {k}
      <4>1. call.pressed /\ (cache' = cache \/ \E d, dl : cache' = CacheSet(cache, k, d, dl))
        BY <2>1 DEF KeyPressed
      <4> QED BY <4>1, CacheSetCodes, CodesKept
    <3>2. A \subseteq B \cup {k}
      BY <3>1 DEF Struck
    <3> QED BY <3>1, <3>2, StruckReal
  <2>2. CASE KeyReleased
    <3>1. ~call.pressed /\ CachedCodes' \subseteq CachedCodes \ {k}
      <4>1. CASE Cached(cache, k) = {} /\ cache' = cache
        BY <2>2, <4>1 DEF KeyReleased, Cached, CachedCodes
      <4>2. CASE cache' = CacheClear(cache, k)
        BY <2>2, <4>2, <1>2 DEF KeyReleased, CacheClear, CachedCodes, EmptySlot, RealCodes
      <4> QED BY <2>2, <4>1, <4>2 DEF KeyReleased
    <3>2. A \subseteq B \ {k}
      <4>1. ~LeftDown(q, k)
        BY <1>2 DEF LeftDown, Mentioned
      <4> QED BY <3>1, <4>1 DEF Struck
    <3> QED BY <3>1, <3>2, StruckReal
  <2> QED BY <2>1, <2>2
<1>4. Coming = StruckAll(after, callers)
  <2>1. Coming = StruckAll(Struck(B, <<ThisEvent>>), callers)
    BY <1>2 DEF Coming
  <2>2. B \subseteq RealCodes
    BY StruckReal
  <2> HIDE DEF B
  <2>3. Struck(B, <<ThisEvent>>) = {c \in RealCodes : (ThisEvent.code = c /\ ThisEvent.pressed) \/ (c \in B /\ ThisEvent.code # c)}
    BY StruckOne
  <2>4. Struck(B, <<ThisEvent>>) = after
    BY <1>2, <2>2, <2>3
  <2> QED BY <2>1, <2>4
<1>5. HeldCodes' = HeldCodes /\ Coming' = StruckAll(A, callers')
  <2>1. Coming' = StruckAll(Struck(A, Fed(call')), callers') /\ HeldCodes' = HeldCodes
    BY <1>1 DEF Coming, HeldCodes
  <2> HIDE DEF A
  <2> QED BY <1>1, <1>3, <2>1, StruckNothing
<1> HIDE DEF A, after
<1>6. StruckAll(A, callers') = StruckAll(A, callers)
  BY <1>1, <1>2, <1>3, StruckThenExit
<1>7. StruckAll(A, callers) \subseteq StruckAll(after, callers)
  BY <1>3, StruckMonotone
<1> QED BY <1>4, <1>5, <1>6, <1>7

LEMMA PendingKeyKeepsFate ==
    ASSUME TypeOK, PendingInv, PendingKey, Coming \subseteq HeldCodes
    PROVE  (Coming \subseteq HeldCodes)'
<1> DEFINE p == pending_key
           q == HoldBack(p.queue)
           action == PendingAction(q)
           C == CachedCodes
<1>1. /\ call.pc = "pending" /\ held' = held /\ p.code # NoKey /\ p.queue \in Seq(Event)
      /\ C \subseteq RealCodes
  BY CachedCodesReal DEF PendingKey, PassesPendingKey, envVars, TypeOK, KeysOK, Pending
<1>2. callers \in Seq(Frame) /\ call.time \in Nat /\ HeldCodes' = HeldCodes
  BY <1>1, StackTyped, FrameFields DEF HeldCodes
<1>3. Struck(C, q) = Struck(Struck(C, p.queue), Fed(call)) /\ q \in Seq(Event)
  <2>1. CASE call.code = NoKey
    <3>1. q = p.queue /\ Fed(call) = <<>>
      BY <1>1, <2>1, FedOfCall DEF HoldBack, Stages
    <3> QED BY <1>1, <3>1, StruckReal, StruckNothing
  <2>2. CASE call.code # NoKey
    <3>1. q = Append(p.queue, ThisEvent) /\ Fed(call) = <<ThisEvent>>
      BY <1>1, <2>2, FedOfCall DEF HoldBack, Stages
    <3>2. ThisEvent \in Event
      BY <1>1, StackTyped, FrameFields DEF ThisEvent, Event
    <3> QED BY <1>1, <3>1, <3>2, StruckAppend
  <2> QED BY <2>1, <2>2
<1>4. Coming = StruckAll(Struck(C, q), callers)
  BY <1>3 DEF Coming
<1>5. CASE action.op = "none"
  <2>1. call' = ExitEvent(call.time) /\ callers' = callers /\ pending_key' = [p EXCEPT !.queue = q] /\ cache' = cache
    BY <1>5 DEF PendingKey, Goto
  <2> HIDE DEF q
  <2>2. pending_key'.queue = q /\ Fed(call') = <<>> /\ CachedCodes' = C
    BY <2>1, FedOf, CodesKept DEF TypeOK, KeysOK, Pending
  <2>3. Coming' = StruckAll(Struck(Struck(C, q), <<>>), callers)
    <3>1. Coming' = StruckAll(Struck(Struck(CachedCodes', pending_key'.queue), Fed(call')), callers')
      BY DEF Coming
    <3> HIDE DEF C
    <3> QED BY <2>1, <2>2, <3>1
  <2> QED BY <1>2, <1>4, <2>3, StruckNothing, StruckReal
<1>6. CASE action.op # "none"
  <2> DEFINE f == ProcessDescriptor(p.code, action, p.dl, TRUE, call.time)
             g == ProcessEvents(q)
             h == ExitEvent(call.time)
             C1 == CachedCodes'
  <2>1. /\ pending_key' = NoPending /\ call' = f /\ callers' = <<g, h>> \o callers
        /\ cache' = CacheSet(cache, p.code, action, p.dl)
    BY <1>6 DEF PendingKey, CallThen
  <2> HIDE DEF q, action
  <2>2. C1 \subseteq C
    <3>1. p.code \in C
      BY <1>1 DEF PendingInv
    <3>2. C1 \subseteq C \cup {p.code}
      BY <2>1, CacheSetCodes
    <3> QED BY <3>1, <3>2
  <2>3. g \in Frame /\ h \in Frame /\ Fed(f) = <<>> /\ Fed(g) = q
    <3>1. g \in Frame /\ h \in Frame /\ Fed(g) = q
      BY <1>2, <1>3, FrameMakers, FedOf
    <3>2. Fed(f) = <<>>
      BY DEF Fed, Rest, Stages, ProcessDescriptor
    <3> QED BY <3>1, <3>2
  <2>4. pending_key'.queue = <<>>
    BY <2>1 DEF NoPending
  <2>5. <<h>> \o callers \in Seq(Frame) /\ callers' = <<g>> \o (<<h>> \o callers)
    <3> HIDE DEF f, g, h
    <3> QED BY <1>2, <2>1, <2>3, ConsFrames, ConsTwice
  <2>6. Coming' = StruckAll(C1, callers')
    <3>1. Coming' = StruckAll(Struck(Struck(C1, pending_key'.queue), Fed(call')), callers')
      BY DEF Coming
    <3>2. Fed(call') = <<>> /\ C1 \subseteq RealCodes
      BY <1>1, <2>1, <2>2, <2>3
    <3> HIDE DEF C1
    <3> QED BY <2>4, <3>1, <3>2, StruckNothing
  <2> HIDE DEF f, g, C1
  <2>7. StruckAll(C1, callers') = StruckAll(Struck(C1, q), <<h>> \o callers)
    BY <2>3, <2>5, StruckAllFirst
  <2>8. StruckAll(Struck(C1, q), <<h>> \o callers) = StruckAll(Struck(C1, q), callers)
    BY <1>2, StruckThenExit, StruckReal
  <2>9. StruckAll(Struck(C1, q), callers) \subseteq StruckAll(Struck(C, q), callers)
    <3>1. Struck(C1, q) \subseteq Struck(C, q)
      BY <2>2, StruckMonotone
    <3> QED BY <3>1, StruckMonotone
  <2> QED BY <1>2, <1>4, <2>6, <2>7, <2>8, <2>9
<1> QED BY <1>5, <1>6

LEMMA EnvironmentKeepsFate ==
    ASSUME TypeOK, Environment, Coming \subseteq HeldCodes  PROVE (Coming \subseteq HeldCodes)'
<1> DEFINE B == Struck(CachedCodes, pending_key.queue)
<1>1. call = IdleCall /\ callers = <<>> /\ UNCHANGED <<cache, pending_key>> /\ B \subseteq RealCodes
  BY StruckReal DEF Environment, Press, Release, Timeout, Tick, ProcessOne, Idle, TypeOK, StackOK, WellStacked, keyVars
<1>2. B' = B
  BY <1>1 DEF CachedCodes
<1>3. Coming = StruckAll(Struck(B, Fed(call)), callers) /\ Coming' = StruckAll(Struck(B', Fed(call')), callers')
  BY DEF Coming
<1> HIDE DEF B
<1>4. B \subseteq HeldCodes
  <2>1. Fed(IdleCall) = <<>>
    BY FedOf
  <2> QED BY <1>1, <1>3, <2>1, StruckNothing
<1>5. CASE Tick
  BY <1>2, <1>3, <1>5 DEF Tick, stackVars, HeldCodes
<1>6. ASSUME NEW code, NEW pressed, ProcessOne(code, pressed)
      PROVE  Coming' = {k \in RealCodes : (code = k /\ pressed) \/ (k \in B /\ code # k)}
  <2> DEFINE e == [code |-> code, pressed |-> pressed, time |-> now]
  <2>1. call' = ProcessEvents(<<e>>) /\ callers' = <<IdleCall>> \o <<>>
    BY <1>1, <1>6 DEF ProcessOne, CallThen
  <2>2. Fed(call') = <<e>> /\ e.code = code /\ e.pressed = pressed /\ Fed(IdleCall) = <<>>
    BY <2>1, FedOf
  <2> HIDE DEF e
  <2>3. StruckAll(Struck(B, <<e>>), <<IdleCall>> \o <<>>) = Struck(B, <<e>>)
    <3>1. IdleCall \in Frame /\ <<>> \in Seq(Frame) /\ Struck(B, <<e>>) \subseteq RealCodes
      <4>1. Struck(B, <<e>>) \subseteq RealCodes
        BY StruckReal
      <4>2. <<>> \in Seq(Frame)
        OBVIOUS
      <4> QED BY <4>1, <4>2, FrameMakers
    <3>2. StruckAll(Struck(B, <<e>>), <<IdleCall>> \o <<>>) = StruckAll(Struck(Struck(B, <<e>>), <<>>), <<>>)
      BY <2>2, <3>1, StruckAllFirst
    <3> QED BY <3>1, <3>2, StruckNothing
  <2>4. Struck(B, <<e>>) = {k \in RealCodes : (e.code = k /\ e.pressed) \/ (k \in B /\ e.code # k)}
    BY StruckOne
  <2> QED BY <1>2, <1>3, <2>1, <2>2, <2>3, <2>4
<1>7. ASSUME NEW dev \in Devices, NEW key \in Keys, Press(dev, key) PROVE (Coming \subseteq HeldCodes)'
  <2>1. Coming' = {k \in RealCodes : (key = k /\ TRUE) \/ (k \in B /\ key # k)}
    BY <1>6, <1>7 DEF Press
  <2>2. HeldCodes \cup {key} \subseteq HeldCodes'
    BY <1>7 DEF Press, HeldCodes
  <2> QED BY <1>4, <2>1, <2>2
<1>8. ASSUME NEW dev \in Devices, NEW key \in Keys, Release(dev, key) PROVE (Coming \subseteq HeldCodes)'
  <2>1. Coming' = {k \in RealCodes : (key = k /\ FALSE) \/ (k \in B /\ key # k)}
    BY <1>6, <1>8 DEF Release
  <2>2. HeldCodes \ {key} \subseteq HeldCodes'
    BY <1>8 DEF Release, HeldCodes
  <2> QED BY <1>4, <2>1, <2>2
<1>9. CASE Timeout
  <2>1. Coming' = {k \in RealCodes : (NoKey = k /\ FALSE) \/ (k \in B /\ NoKey # k)}
    BY <1>6, <1>9 DEF Timeout
  <2>2. HeldCodes' = HeldCodes
    BY <1>9 DEF Timeout, HeldCodes
  <2> QED BY <1>4, <2>1, <2>2
<1> QED BY <1>5, <1>7, <1>8, <1>9 DEF Environment

-----------------------------------------------------------------------------
(* What is pending stays cached.                                            *)

LEMMA WaitsPush ==
    ASSUME NEW g \in Frame, NEW cs \in Seq(Frame), Waits(cs), g.pc = "descriptor" => ~g.pressed
    PROVE  Waits(<<g>> \o cs)
<1>1. \A i \in DOMAIN (<<g>> \o cs) :
        (<<g>> \o cs)[i] = g \/ (i - 1 \in DOMAIN cs /\ (<<g>> \o cs)[i] = cs[i - 1])
  BY ConsFrames
<1> QED BY <1>1 DEF Waits

\* An activation that neither looks a key up nor presses one.
Calm(f) == f.pc \notin {"timers", "key"} /\ (f.pc = "descriptor" => ~f.pressed)

LEMMA CalmStep ==
    ASSUME PendingInv, pending_key' = pending_key, CachedCodes' = CachedCodes, Calm(call'), Waits(callers')
    PROVE  PendingInv'
  BY DEF PendingInv, Calm, Pressing

LEMMA CalmReturn ==
    ASSUME TypeOK, QueueInv, PendingInv, call.pc # "idle"
    PROVE  Calm(Head(callers)) /\ Waits(Tail(callers))
<1>1. callers \in Seq(Frame) /\ callers # <<>>
  BY StackTyped
<1>2. /\ Head(callers) = callers[1] /\ 1 \in DOMAIN callers
      /\ \A i \in DOMAIN Tail(callers) : i + 1 \in DOMAIN callers /\ Tail(callers)[i] = callers[i + 1]
  BY <1>1, TailFrames
<1>3. Waits(callers) /\ \A i \in DOMAIN callers : callers[i].pc \notin Stages
  BY DEF PendingInv, QueueInv
<1>4. Waits(Tail(callers))
  BY <1>2, <1>3 DEF Waits
<1>5. Calm(Head(callers))
  BY <1>2, <1>3 DEF Calm, Waits, Stages
<1> QED BY <1>4, <1>5

LEMMA LoopingKeepsPending ==
    ASSUME TypeOK, QueueInv, PendingInv, Looping  PROVE PendingInv'
<1> USE DEF keyVars, envVars
<1>1. pending_key' = pending_key /\ CachedCodes' = CachedCodes
  BY DEF Looping, NextEvent, DueBeforeNextEvent, EventsDone, Exit, CachedCodes
<1>2. CASE NextEvent \/ DueBeforeNextEvent
  <2>1. PICK code, pressed, time, evs :
           /\ evs \in {call.evs, Tail(call.evs)}
           /\ call' = ProcessEvent("chord", code, pressed, time)
           /\ callers' = <<Loop("due", evs, call.due)>> \o callers
           /\ call.pc = "events" /\ call.evs # <<>>
    <3>1. CASE NextEvent
      BY <3>1 DEF NextEvent, CallThen
    <3>2. CASE DueBeforeNextEvent
      BY <3>2 DEF DueBeforeNextEvent, CallThen
    <3> QED BY <1>2, <3>1, <3>2
  <2>2. evs \in Seq(Event) /\ call.due \in Nat /\ callers \in Seq(Frame)
    BY <2>1, StackTyped, FrameFields, EmptySeq, HeadTailProperties
  <2>3. Loop("due", evs, call.due) \in Frame /\ Loop("due", evs, call.due).pc # "descriptor"
    BY <2>2, FrameMakers DEF Loop
  <2>4. Waits(callers')
    BY <2>1, <2>2, <2>3, WaitsPush DEF PendingInv
  <2>5. Calm(call')
    BY <2>1 DEF Calm, ProcessEvent
  <2> QED BY <1>1, <2>4, <2>5, CalmStep
<1>3. CASE EventsDone
  <2>1. call.pc # "idle" /\ call' = Head(callers) /\ callers' = Tail(callers)
    BY <1>3 DEF EventsDone, Return
  <2> QED BY <1>1, <2>1, CalmReturn, CalmStep
<1>4. CASE Exit
  <2>1. /\ call.pc # "idle" /\ callers' = Tail(callers)
        /\ \/ call' = Head(callers)
           \/ \E evs, due : call' = Loop("events", evs, due)
    BY <1>4 DEF Exit
  <2>2. \A evs, due : Calm(Loop("events", evs, due))
    BY DEF Calm, Loop
  <2> QED BY <1>1, <2>1, <2>2, CalmReturn, CalmStep
<1> QED BY <1>2, <1>3, <1>4 DEF Looping

LEMMA ChordHandlerKeepsPending ==
    ASSUME NoChords, TypeOK, QueueInv, PendingInv, ChordHandler  PROVE PendingInv'
<1>1. ChordOfRelease = {} /\ chord.state = "inactive"
  BY DEF QueueInv, NoneChorded, ChordOfRelease, NoChord
<1>2. CASE ChordInactive
  <2>1. UNCHANGED keyVars /\ call' = Stage("pending") /\ callers' = callers
    BY <1>2, NothingMatches DEF ChordInactive, InChordHandler, NotHandledByChord, Goto
  <2>2. Calm(call')
    BY <2>1 DEF Calm, Stage, ProcessEvent
  <2> QED BY <2>1, <2>2, CalmStep DEF PendingInv, keyVars, CachedCodes
<1>3. CASE LeaveChord
  <2>1. UNCHANGED keyVars /\ call' = Head(callers) /\ callers' = Tail(callers) /\ call.pc # "idle"
    BY <1>3 DEF LeaveChord, Return
  <2> QED BY <2>1, CalmReturn, CalmStep DEF keyVars, CachedCodes
<1>4. ~ReleaseChordKey /\ ~ChordResolving /\ ~ChordDisambiguation /\ ~ChordHold
  BY <1>1 DEF ReleaseChordKey, ChordResolving, ChordDisambiguation, ChordHold, InChordHandler
<1> QED BY <1>2, <1>3, <1>4 DEF ChordHandler

LEMMA StagesKeepPending ==
    ASSUME TypeOK, PendingInv, NotPending \/ Timers  PROVE PendingInv'
<1>1. CASE NotPending
  <2>1. UNCHANGED keyVars /\ call' = Stage("timers") /\ callers' = callers
    BY <1>1 DEF NotPending, Goto
  <2>2. call'.pc = "timers" /\ call'.code = call.code
    BY <2>1 DEF Stage, ProcessEvent
  <2>3. call.code # NoKey => ~Mentioned(pending_key.queue, call.code) /\ call.code # pending_key.code
    BY <1>1 DEF NotPending, PassesPendingKey, PendingInv, Mentioned, QueuedCodes
  <2> QED BY <2>1, <2>2, <2>3 DEF PendingInv, keyVars, CachedCodes, Pressing
<1>2. CASE Timers
  <2>1. /\ UNCHANGED keyVars /\ callers' = callers /\ call.pc = "timers"
        /\ call' = IF call.code = NoKey THEN ExitEvent(call.time) ELSE Stage("key")
    BY <1>2 DEF Timers, Goto
  <2>2. CASE call.code = NoKey
    <3>1. Calm(call')
      BY <2>1, <2>2 DEF Calm, ExitEvent
    <3> QED BY <2>1, <3>1, CalmStep DEF PendingInv, keyVars, CachedCodes
  <2>3. CASE call.code # NoKey
    <3>1. call'.pc = "key" /\ call'.code = call.code
      BY <2>1, <2>3 DEF Stage, ProcessEvent
    <3> QED BY <2>1, <2>3, <3>1 DEF PendingInv, keyVars, CachedCodes, Pressing
  <2> QED BY <2>2, <2>3
<1> QED BY <1>1, <1>2

\* A key that goes down is in the cache before its descriptor runs.
LEMMA CacheSetsCode ==
    ASSUME TypeOK, NEW code, code # NoKey, NEW d, NEW dl, SlotFor(cache, code) # {},
           cache' = CacheSet(cache, code, d, dl)
    PROVE  CachedCodes' = CachedCodes \cup {code}
<1>1. PICK s \in SlotFor(cache, code) : TRUE
  OBVIOUS
<1>2. s \in Slots /\ SlotFor(cache, code) \subseteq Slots
  BY <1>1 DEF SlotFor, Cached
<1>3. \A i \in Slots : cache'[i].code = IF i \in SlotFor(cache, code) THEN code ELSE cache[i].code
  BY DEF CacheSet
<1>4. \A i \in SlotFor(cache, code) : cache[i].code \in {code, NoKey}
  BY DEF SlotFor, Cached
<1> HIDE DEF SlotFor
<1>5. code \in CachedCodes'
  BY <1>1, <1>2, <1>3 DEF CachedCodes
<1>6. ASSUME NEW c \in CachedCodes PROVE c \in CachedCodes'
  <2>1. PICK i \in Slots : cache[i].code = c /\ c # NoKey
    BY <1>6 DEF CachedCodes
  <2> QED BY <1>3, <1>4, <1>5, <2>1 DEF CachedCodes
<1> QED BY <1>5, <1>6, CacheSetCodes

LEMMA KeyKeepsPending ==
    ASSUME TypeOK, PendingInv, KeyPressed \/ KeyReleased  PROVE PendingInv'
<1>1. /\ call.pc = "key" /\ pending_key' = pending_key /\ callers \in Seq(Frame) /\ call.time \in Nat
      /\ call.code # NoKey /\ call.code # pending_key.code /\ Waits(callers)
  BY StackTyped, FrameFields DEF KeyPressed, KeyReleased, PendingInv
<1>2. Waits(<<ExitEvent(call.time)>> \o callers)
  <2>1. ExitEvent(call.time) \in Frame /\ ExitEvent(call.time).pc # "descriptor"
    BY <1>1, FrameMakers DEF ExitEvent
  <2> QED BY <1>1, <2>1, WaitsPush
<1>3. CASE call' = ExitEvent(call.time) /\ callers' = callers /\ cache' = cache
  <2>1. Calm(call')
    BY <1>3 DEF Calm, ExitEvent
  <2> QED BY <1>1, <1>3, <2>1, CalmStep, CodesKept
<1>4. CASE KeyPressed /\ ~(call' = ExitEvent(call.time) /\ callers' = callers /\ cache' = cache)
  <2>1. PICK d, dl : /\ SlotFor(cache, call.code) # {}
                     /\ cache' = CacheSet(cache, call.code, d, dl)
                     /\ call' = ProcessDescriptor(call.code, d, dl, TRUE, call.time)
                     /\ callers' = <<ExitEvent(call.time)>> \o callers
    BY <1>4 DEF KeyPressed, Goto, CallThen
  <2>2. CachedCodes' = CachedCodes \cup {call.code}
    BY <1>1, <2>1, CacheSetsCode
  <2>3. call'.pc = "descriptor" /\ call'.code = call.code
    BY <2>1 DEF ProcessDescriptor
  <2> QED BY <1>1, <1>2, <2>1, <2>2, <2>3 DEF PendingInv
<1>5. CASE KeyReleased /\ ~(call' = ExitEvent(call.time) /\ callers' = callers /\ cache' = cache)
  <2>1. PICK d, dl : /\ cache' = CacheClear(cache, call.code)
                     /\ call' = ProcessDescriptor(call.code, d, dl, FALSE, call.time)
                     /\ callers' = <<ExitEvent(call.time)>> \o callers
    BY <1>5 DEF KeyReleased, Goto, CallThen
  <2>2. CachedCodes \ {call.code} \subseteq CachedCodes'
    BY <2>1 DEF CacheClear, CachedCodes
  <2>3. call'.pc = "descriptor" /\ ~call'.pressed
    BY <2>1 DEF ProcessDescriptor
  <2> QED BY <1>1, <1>2, <2>1, <2>2, <2>3 DEF PendingInv, Pressing
<1> QED BY <1>3, <1>4, <1>5

\* The action of a pending key runs for a key in the cache.
LEMMA PendingKeyKeepsPending ==
    ASSUME TypeOK, PendingInv, PendingKey  PROVE PendingInv'
<1> DEFINE p == pending_key
           q == HoldBack(p.queue)
           action == PendingAction(q)
<1>1. /\ call.pc = "pending" /\ p.code # NoKey /\ p.code \in CachedCodes /\ Waits(callers)
      /\ p \in Pending
  BY DEF PendingKey, PassesPendingKey, PendingInv, TypeOK, KeysOK
<1>2. callers \in Seq(Frame) /\ call.time \in Nat /\ q \in Seq(Event)
  <2>1. callers \in Seq(Frame) /\ call.time \in Nat /\ ThisEvent \in Event
    BY <1>1, StackTyped, FrameFields DEF ThisEvent, Event
  <2>2. p.queue \in Seq(Event)
    BY <1>1 DEF Pending
  <2> QED BY <2>1, <2>2 DEF HoldBack
<1>3. CASE action.op = "none"
  <2>1. call' = ExitEvent(call.time) /\ callers' = callers /\ pending_key' = [p EXCEPT !.queue = q] /\ cache' = cache
    BY <1>3 DEF PendingKey, Goto
  <2> HIDE DEF q
  <2>2. pending_key'.code = p.code /\ CachedCodes' = CachedCodes /\ Calm(call')
    BY <1>1, <2>1, CodesKept DEF Pending, Calm, ExitEvent
  <2> QED BY <1>1, <2>1, <2>2 DEF PendingInv, Calm, Pressing
<1>4. CASE action.op # "none"
  <2> DEFINE f == ProcessDescriptor(p.code, action, p.dl, TRUE, call.time)
             g == ProcessEvents(q)
             h == ExitEvent(call.time)
  <2>1. /\ pending_key' = NoPending /\ call' = f /\ callers' = <<g, h>> \o callers
        /\ cache' = CacheSet(cache, p.code, action, p.dl)
    BY <1>4 DEF PendingKey, CallThen
  <2> HIDE DEF q, action
  <2>2. CachedCodes' = CachedCodes \cup {p.code}
    <3>1. SlotFor(cache, p.code) # {}
      BY <1>1 DEF SlotFor, Cached, CachedCodes
    <3> QED BY <1>1, <2>1, <3>1, CacheSetsCode
  <2>3. f.pc = "descriptor" /\ f.code = p.code
    BY DEF ProcessDescriptor
  <2>4. g \in Frame /\ g.pc # "descriptor" /\ h \in Frame /\ h.pc # "descriptor"
    BY <1>2, FrameMakers DEF ProcessEvents, Loop, ExitEvent
  <2> HIDE DEF f, g, h
  <2>5. <<h>> \o callers \in Seq(Frame) /\ Waits(<<h>> \o callers)
    BY <1>1, <1>2, <2>4, ConsFrames, WaitsPush
  <2>6. callers' = <<g>> \o (<<h>> \o callers)
    BY <1>2, <2>1, <2>4, ConsTwice
  <2>7. Waits(callers')
    BY <2>4, <2>5, <2>6, WaitsPush
  <2> QED BY <2>1, <2>2, <2>3, <2>7 DEF PendingInv, NoPending, Pressing
<1> QED BY <1>3, <1>4

\* The key that becomes pending is cached, and keeps what waits already.
LEMMA BecomesPending ==
    ASSUME TypeOK, QueueInv, PendingInv, Pressing, call.d.op \in WaitingOps, Done, CachedCodes' = CachedCodes,
           NEW behaviour, NEW expire, NEW action1, NEW action2, BecomePending(behaviour, expire, action1, action2)
    PROVE  PendingInv'
<1>1. pending_key'.code = call.code /\ pending_key'.queue = pending_key.queue
  BY DEF BecomePending, TypeOK, KeysOK, Pending
<1>2. call.code \in CachedCodes /\ call.code # NoKey
  BY DEF PendingInv, CachedCodes
<1>3. Calm(call') /\ Waits(callers')
  BY CalmReturn DEF Pressing, Done, Return
<1> QED BY <1>1, <1>2, <1>3 DEF PendingInv, Calm, Pressing

LEMMA OpKeepsPending ==
    ASSUME TapsAreFinal, TypeOK, QueueInv, PendingInv, Op  PROVE PendingInv'
<1> USE DEF Executing, keyVars
<1>1. CachedCodes' = CachedCodes
  BY OpKeepsCodes
<1>2. ASSUME call.pc \in {"descriptor", "recache"}, Return \/ Done, pending_key' = pending_key
      PROVE  PendingInv'
  BY <1>1, <1>2, CalmReturn, CalmStep DEF Return, Done
<1>3. CASE OpKeySequence \/ OpScroll \/ RecacheAction
  BY <1>2, <1>3 DEF OpKeySequence, OpScroll, RecacheAction
<1>4. CASE OpLayer \/ OpClear \/ OpLayout \/ OverloadPressed
  BY <1>2, <1>4 DEF OpLayer, OpClear, OpLayout, OverloadPressed
<1>5. CASE OneshotPressed \/ OneshotReleased \/ OpMacro \/ OpToggle \/ OpCommand
  BY <1>2, <1>5 DEF OneshotPressed, OneshotReleased, OpMacro, OpToggle, OpCommand
<1>6. CASE SwapPressed \/ SwapReleased
  BY <1>2, <1>6 DEF SwapPressed, SwapReleased
<1>7. CASE OpOverloadTimeout \/ OpTimeout
  <2>1. CASE ~call.pressed
    BY <1>2, <1>7, <2>1 DEF OpOverloadTimeout, OpTimeout
  <2>2. CASE call.pressed
    <3>1. Pressing /\ call.d.op \in WaitingOps /\ Done
      BY <1>7, <2>2 DEF OpOverloadTimeout, OpTimeout, Pressing, WaitingOps, TapHoldOps
    <3>2. \E behaviour, expire, action1, action2 : BecomePending(behaviour, expire, action1, action2)
      <4>1. CASE OpOverloadTimeout
        BY <2>2, <4>1 DEF OpOverloadTimeout
      <4>2. CASE OpTimeout
        BY <2>2, <4>2 DEF OpTimeout
      <4> QED BY <1>7, <4>1, <4>2
    <3> QED BY <1>1, <3>1, <3>2, BecomesPending
  <2> QED BY <2>1, <2>2
<1>8. CASE OpOverloadIdle
  <2> DEFINE idle == call.time - recent.last_simple_key_time >= call.d.timeout
             action == DescTable[IF idle THEN call.d.act2 ELSE call.d.act]
  <2>1. call.pc = "descriptor" /\ pending_key' = pending_key /\ call.d.op = "overloadi"
    BY <1>8 DEF OpOverloadIdle
  <2>2. action \in Runnable /\ call.code \in Codes /\ callers \in Seq(Frame)
    BY <2>1, DescriptorRuns, ConfigDescsType, StackTyped
  <2>3. CASE call.pressed
    <3>1. /\ call' = ProcessDescriptor(call.code, action, call.dl, TRUE, call.time)
          /\ callers' = <<Recache(call.code, action)>> \o callers
      BY <1>8, <2>3 DEF OpOverloadIdle, CallThen
    <3> HIDE DEF action
    <3>2. Recache(call.code, action) \in Frame /\ Recache(call.code, action).pc # "descriptor"
      BY <2>2, FrameMakers DEF Recache
    <3>3. Waits(callers')
      BY <2>2, <3>1, <3>2, WaitsPush DEF PendingInv
    <3>4. call.code \in CachedCodes
      BY <2>1, <2>3 DEF PendingInv, Pressing, WaitingOps
    <3>5. call'.pc = "descriptor" /\ call'.code = call.code
      BY <3>1 DEF ProcessDescriptor
    <3> QED BY <1>1, <2>1, <3>3, <3>4, <3>5 DEF PendingInv
  <2>4. CASE ~call.pressed
    <3>1. Return
      BY <1>8, <2>4 DEF OpOverloadIdle
    <3> QED BY <1>2, <2>1, <3>1
  <2> QED BY <2>3, <2>4
<1>9. CASE OverloadReleased
  <2> DEFINE action == DescTable[call.d.act]
             k == ProcessDescriptor(call.code, action, call.dl, FALSE, call.time)
             f == ProcessDescriptor(call.code, action, call.dl, TRUE, call.time)
  <2>1. call.pc = "descriptor" /\ pending_key' = pending_key /\ call.d.op = "overload"
    BY <1>9 DEF OverloadReleased
  <2>2. /\ action \in Runnable /\ call.code \in Codes /\ call.dl \in Layers /\ call.time \in Nat
        /\ action.op \notin WaitingOps /\ callers \in Seq(Frame)
    BY <2>1, DescriptorRuns, ConfigDescsType, StackTyped, TapsEnd
  <2>3. Return \/ CallThen(f, <<k>>)
    BY <1>9 DEF OverloadReleased
  <2> HIDE DEF action
  <2>4. k \in Frame /\ (k.pc = "descriptor" => ~k.pressed)
    BY <2>2, FrameMakers DEF ProcessDescriptor
  <2>5. f.pc = "descriptor" /\ f.d = action
    BY DEF ProcessDescriptor
  <2> HIDE DEF f, k
  <2>6. CASE Return
    BY <1>2, <2>1, <2>6
  <2>7. CASE CallThen(f, <<k>>)
    <3>1. call' = f /\ callers' = <<k>> \o callers
      BY <2>7 DEF CallThen
    <3>2. Waits(callers')
      BY <2>2, <2>4, <3>1, WaitsPush DEF PendingInv
    <3> QED BY <1>1, <2>1, <2>2, <2>5, <3>1, <3>2 DEF PendingInv
  <2> QED BY <2>3, <2>6, <2>7
<1> QED BY <1>3, <1>4, <1>5, <1>6, <1>7, <1>8, <1>9 DEF Op

LEMMA EnvironmentKeepsPending ==
    ASSUME TypeOK, PendingInv, Environment  PROVE PendingInv'
<1>1. call = IdleCall /\ callers = <<>> /\ UNCHANGED <<cache, pending_key>>
  BY DEF Environment, Press, Release, Timeout, Tick, ProcessOne, Idle, TypeOK, StackOK, WellStacked, keyVars
<1>2. CachedCodes' = CachedCodes
  BY <1>1, CodesKept
<1>3. CASE Tick
  BY <1>1, <1>2, <1>3 DEF Tick, stackVars, PendingInv, Pressing
<1>4. ASSUME NEW code, NEW pressed, ProcessOne(code, pressed) PROVE PendingInv'
  <2>1. PICK evs : call' = ProcessEvents(evs) /\ callers' = <<IdleCall>> \o <<>>
    BY <1>1, <1>4 DEF ProcessOne, CallThen
  <2>2. Calm(call') /\ IdleCall.pc # "descriptor"
    BY <2>1 DEF Calm, ProcessEvents, Loop, IdleCall
  <2>3. Waits(callers')
    <3>1. <<>> \in Seq(Frame)
      OBVIOUS
    <3> QED BY <1>1, <2>1, <2>2, <3>1, FrameMakers, WaitsPush DEF PendingInv
  <2> QED BY <1>1, <1>2, <2>2, <2>3, CalmStep
<1> QED BY <1>3, <1>4 DEF Environment, Press, Release, Timeout

LEMMA FateStep ==
    ASSUME NoChords, TapsAreFinal, TypeOK, QueueInv, FateInv, [Next]_vars
    PROVE  FateInv'
<1>1. CASE UNCHANGED vars
  <2>1. UNCHANGED <<cache, pending_key, call, callers, held>>
    BY <1>1 DEF vars, keyVars, stackVars, envVars
  <2>2. Coming' = Coming
    BY <2>1 DEF Coming, CachedCodes
  <2> QED BY <2>1, <2>2 DEF FateInv, PendingInv, Pressing, CachedCodes, HeldCodes
<1>2. PendingInv /\ NoneChorded /\ Coming \subseteq HeldCodes
  BY DEF FateInv, QueueInv
<1>3. CASE NextEvent \/ KeyPressed \/ KeyReleased \/ PendingKey
  <2>1. PendingInv'
    BY <1>2, <1>3, LoopingKeepsPending, KeyKeepsPending, PendingKeyKeepsPending DEF Looping
  <2> QED BY <1>2, <1>3, <2>1, NextEventKeepsFate, KeyKeepsFate, PendingKeyKeepsFate DEF FateInv
<1>4. CASE ChordHandler \/ Op \/ DueBeforeNextEvent \/ EventsDone \/ Exit \/ NotPending \/ Timers
  <2>1. PlainStep
    BY <1>2, <1>4, ChordHandlerPlain, OpPlain, QuietPlain
  <2>2. PendingInv'
    BY <1>2, <1>4, ChordHandlerKeepsPending, OpKeepsPending, LoopingKeepsPending, StagesKeepPending DEF Looping
  <2>3. CachedCodes' = CachedCodes
    <3>1. CASE Op
      BY <3>1, OpKeepsCodes
    <3>2. CASE ~Op
      <4>1. cache' = cache
        BY <1>4, <3>2 DEF ChordHandler, ReleaseChordKey, ChordResolving, ChordInactive, ChordDisambiguation,
            ChordHold, LeaveChord, InChordHandler, DueBeforeNextEvent, EventsDone, Exit, NotPending, Timers, keyVars
      <4> QED BY <4>1, CodesKept
    <3> QED BY <3>1, <3>2
  <2>4. held' = held
    BY <1>4 DEF ChordHandler, ReleaseChordKey, ChordResolving, ChordInactive, ChordDisambiguation,
        ChordHold, LeaveChord, InChordHandler, DueBeforeNextEvent, EventsDone, Exit, NotPending, Timers, envVars,
        Op, OpKeySequence, OpScroll, OpOverloadIdle, RecacheAction, OpOverloadTimeout, OpTimeout, OpLayer,
        OpClear, OpLayout, OverloadPressed, OverloadReleased, OneshotPressed, OneshotReleased, OpMacro,
        OpToggle, OpCommand, SwapPressed, SwapReleased
  <2> QED BY <1>2, <2>1, <2>2, <2>3, <2>4, PlainStepKeepsFate DEF FateInv
<1>5. CASE Environment
  BY <1>2, <1>5, EnvironmentKeepsFate, EnvironmentKeepsPending DEF FateInv
<1> QED BY <1>1, <1>3, <1>4, <1>5 DEF Next, Engine, Looping, Holding, Binding

\* No key gets stuck: in every configuration without chords whose overloads
\* end their taps at once, whenever nothing is pending each key of the cache
\* is down, whichever keys are held back, dropped or struck twice meanwhile.
THEOREM NoneStuck ==
    ASSUME NoChords, TapsAreFinal  PROVE Spec => []CachedKeysAreDown
<1>1. Init => QueueInv /\ FateInv
  <2> SUFFICES ASSUME Init PROVE QueueInv /\ FateInv
    OBVIOUS
  <2>1. /\ pending_key.queue = <<>> /\ pending_key.code = NoKey /\ Fed(call) = <<>> /\ callers = <<>>
        /\ NoneChorded /\ call.pc = "idle" /\ CachedCodes = {}
    BY FedOf DEF Init, NoPending, NoneChorded, IdleCall, CachedCodes, EmptySlot
  <2>2. Coming = {}
    BY <2>1, StruckNothing DEF Coming
  <2> QED BY <2>1, <2>2, NoEvents DEF QueueInv, InOrder, FateInv, PendingInv, Pressing, Waits
<1>2. TypeOK /\ QueueInv /\ FateInv /\ [Next]_vars => QueueInv' /\ FateInv'
  BY QueueInvStep, FateStep
<1>3. TypeOK /\ QueueInv /\ FateInv => CachedKeysAreDown
  <2> SUFFICES ASSUME TypeOK, FateInv, Settled PROVE CachedCodes \subseteq HeldCodes
    BY DEF CachedKeysAreDown, CachedCodes, HeldCodes
  <2>1. callers = <<>> /\ Fed(call) = <<>> /\ pending_key.queue = <<>>
    BY FedOf DEF Settled, Idle, TypeOK, StackOK, WellStacked, FateInv, PendingInv
  <2>2. CachedCodes \subseteq RealCodes
    BY CachedCodesReal
  <2>3. Coming = CachedCodes
    BY <2>1, <2>2, StruckNothing DEF Coming
  <2> QED BY <2>3 DEF FateInv
<1> QED BY <1>1, <1>2, <1>3, TypeCorrectness, PTL DEF Spec

-----------------------------------------------------------------------------
(* The timer of a oneshot layer.                                            *)

\* A pending key absorbs the events that come with a timeout, and feeds the
\* others back with the times they had.
NoTapHold == \A d \in ConfigDescs : d.op \notin TapHoldOps \cup {"timeout"}

Inner == {"descriptor", "recache"}

\* The time of the event that is processed.
EventTime(c, cs) == IF c.pc \in Inner THEN cs[Len(cs) - 2].time ELSE c.time

\* One loop, one event in it, and the descriptors that run for that event.
Straight(c, cs) ==
    /\ c.pc \in {"idle", "events", "exit"} \cup Stages \cup Inner
    /\ c.pc = "events" => Len(cs) = 1
    /\ c.pc \in Stages \cup {"exit"} => Len(cs) = 2 /\ cs[1].pc = "due"
    /\ c.pc \in Inner =>
         /\ Len(cs) >= 3 /\ cs[Len(cs) - 1].pc = "due" /\ cs[Len(cs) - 2].pc = "exit"
         /\ \A i \in 1 .. Len(cs) - 3 : cs[i].pc \in Inner
         /\ c.pc = "descriptor" => c.time = EventTime(c, cs)
         /\ \A i \in 1 .. Len(cs) - 3 : cs[i].pc = "descriptor" => cs[i].time = EventTime(c, cs)

Scheduling(t) == \E x \in timeouts : x[1] = t

\* What waits for the oneshot timeout: a timer that Exit does not drop, and
\* the caller that is to come back in time.
Watched == oneshot.timeout # 0 =>
    /\ Scheduling(oneshot.timeout)
    /\ call.pc = "idle" => 0 < deadline /\ deadline <= oneshot.timeout
    /\ call.pc = "events" /\ call.evs = <<>> => 0 < call.due /\ call.due <= oneshot.timeout
    /\ call.pc \in {"key", "exit"} \cup Inner => EventTime(call, callers) < oneshot.timeout

ArmedInv == NoneChorded /\ pending_key.code = NoKey /\ Straight(call, callers) /\ Watched

\* calculate_main_loop_timeout reports the first of the timers it keeps.
LEMMA NextDueFirst ==
    ASSUME TimeoutsOK, NEW time \in Nat, NEW x \in timeouts, x[1] > time
    PROVE  0 < NextDue(time) /\ NextDue(time) <= x[1]
<1> DEFINE later == {y[1] : y \in Live(time)}
           first == {t \in later : \A u \in later : t <= u}
<1>1. later \subseteq Nat /\ x[1] \in later /\ \A t \in later : t > time
  BY DEF Live, TimeoutsOK
<1> HIDE DEF later
<1>2. PICK t \in later : \A u \in later : ~(<<u, t>> \in OpToRel(<, Nat))
  BY <1>1, NatLessThanWellFounded, WFMin
<1>3. t \in first
  <2>1. \A u \in later : ~(u < t)
    BY <1>1, <1>2 DEF OpToRel
  <2> QED BY <1>1, <2>1
<1>4. NextDue(time) = CHOOSE u \in first : TRUE
  BY <1>3 DEF NextDue, later
<1>5. NextDue(time) \in first
  BY <1>3, <1>4
<1>6. NextDue(time) \in later /\ NextDue(time) <= x[1]
  BY <1>1, <1>5
<1>7. NextDue(time) > time /\ NextDue(time) \in Nat
  BY <1>1, <1>6
<1> QED BY <1>6, <1>7

-----------------------------------------------------------------------------
(* The call stack.                                                          *)

\* A descriptor or a recache returns to what runs for the same event.
LEMMA InnerReturns ==
    ASSUME TypeOK, call.pc \in Inner, Straight(call, callers), Return
    PROVE  /\ Straight(call', callers') /\ call'.pc \in {"exit"} \cup Inner
           /\ EventTime(call', callers') = EventTime(call, callers)
<1> DEFINE n == Len(callers)
<1>1. /\ callers \in Seq(Frame) /\ n \in Nat /\ n >= 3 /\ callers # <<>>
      /\ callers[n - 1].pc = "due" /\ callers[n - 2].pc = "exit"
      /\ \A i \in 1 .. n - 3 : callers[i].pc \in Inner
      /\ \A i \in 1 .. n - 3 : callers[i].pc = "descriptor" => callers[i].time = callers[n - 2].time
  BY StackTyped DEF Straight, EventTime
<1>2. /\ call' = callers[1] /\ callers' \in Seq(Frame) /\ Len(callers') = n - 1
      /\ \A i \in 1 .. n - 1 : callers'[i] = callers[i + 1]
  BY <1>1 DEF Return
<1>3. EventTime(call, callers) = callers[n - 2].time
  BY DEF EventTime
<1>4. CASE n = 3
  <2>1. call'.pc = "exit" /\ Len(callers') = 2 /\ callers'[1].pc = "due"
    BY <1>1, <1>2, <1>4
  <2> QED BY <1>2, <1>3, <1>4, <2>1 DEF Straight, EventTime, Inner, Stages
<1>5. CASE n # 3
  <2>1. /\ call'.pc \in Inner /\ n - 1 >= 3
        /\ callers'[n - 2] = callers[n - 1] /\ callers'[n - 3] = callers[n - 2]
        /\ \A i \in 1 .. n - 4 : callers'[i] = callers[i + 1] /\ i + 1 \in 1 .. n - 3
        /\ call'.pc = "descriptor" => call'.time = callers[n - 2].time
    <3>1. n - 3 \in 1 .. n - 1 /\ n - 2 \in 1 .. n - 1 /\ 1 \in 1 .. n - 3
      <4>1. n \in Nat /\ n >= 3 /\ n # 3
        BY <1>1, <1>5
      <4> HIDE DEF n
      <4> QED BY <4>1
    <3>2. callers'[n - 3] = callers[(n - 3) + 1] /\ callers'[n - 2] = callers[(n - 2) + 1]
      BY <1>2, <3>1
    <3>3. (n - 3) + 1 = n - 2 /\ (n - 2) + 1 = n - 1
      BY <1>1
    <3>4. \A i \in 1 .. n - 4 : i \in 1 .. n - 1 /\ i + 1 \in 1 .. n - 3
      BY <1>1
    <3>5. call' = callers[1] /\ callers[1].pc \in Inner
      BY <1>1, <1>2, <3>1
    <3> QED BY <1>1, <1>2, <1>5, <3>1, <3>2, <3>3, <3>4, <3>5
  <2>2. EventTime(call', callers') = callers[n - 2].time
    BY <1>1, <1>2, <2>1 DEF EventTime
  <2>3. /\ Len(callers') - 1 = n - 2 /\ Len(callers') - 2 = n - 3 /\ Len(callers') - 3 = n - 4
        /\ Len(callers') >= 3
    BY <1>1, <1>2, <2>1
  <2>4. ASSUME NEW i \in 1 .. n - 4
        PROVE  callers'[i].pc \in Inner /\ (callers'[i].pc = "descriptor" => callers'[i].time = callers[n - 2].time)
    BY <1>1, <2>1
  <2>5. Straight(call', callers')
    BY <1>1, <2>1, <2>2, <2>3, <2>4 DEF Straight, Inner, Stages
  <2> QED BY <1>3, <2>1, <2>2, <2>5
<1> QED BY <1>4, <1>5

\* A descriptor calls another one for the same event.
LEMMA InnerCalls ==
    ASSUME TypeOK, call.pc = "descriptor", Straight(call, callers),
           NEW f, f.pc = "descriptor", f.time = call.time,
           NEW g \in Frame, g.pc \in Inner, g.pc = "descriptor" => g.time = call.time,
           CallThen(f, <<g>>)
    PROVE  /\ Straight(call', callers') /\ call'.pc \in {"exit"} \cup Inner
           /\ EventTime(call', callers') = EventTime(call, callers)
<1> DEFINE n == Len(callers)
<1>1. /\ callers \in Seq(Frame) /\ n \in Nat /\ n >= 3 /\ call.pc \in Inner
      /\ callers[n - 1].pc = "due" /\ callers[n - 2].pc = "exit"
      /\ \A i \in 1 .. n - 3 : callers[i].pc \in Inner
      /\ call.time = callers[n - 2].time
      /\ \A i \in 1 .. n - 3 : callers[i].pc = "descriptor" => callers[i].time = callers[n - 2].time
  BY StackTyped DEF Straight, EventTime, Inner
<1>2. /\ call' = f /\ callers' \in Seq(Frame) /\ Len(callers') = n + 1 /\ callers'[1] = g
      /\ \A i \in 1 .. n : callers'[i + 1] = callers[i]
  BY <1>1 DEF CallThen
<1>3. /\ EventTime(call, callers) = callers[n - 2].time
      /\ callers'[n] = callers[n - 1] /\ callers'[n - 1] = callers[n - 2]
  <2>1. n - 1 \in 1 .. n /\ n - 2 \in 1 .. n
    BY <1>1
  <2>2. callers'[(n - 1) + 1] = callers[n - 1] /\ callers'[(n - 2) + 1] = callers[n - 2]
    BY <1>2, <2>1
  <2>3. (n - 1) + 1 = n /\ (n - 2) + 1 = n - 1
    BY <1>1
  <2> QED BY <1>1, <2>2, <2>3 DEF EventTime
<1>4. EventTime(call', callers') = callers[n - 2].time
  <2>1. Len(callers') - 2 = n - 1 /\ call'.pc \in Inner
    BY <1>1, <1>2 DEF Inner
  <2> QED BY <1>3, <2>1 DEF EventTime
<1>5. ASSUME NEW i \in 1 .. n - 2
      PROVE  callers'[i].pc \in Inner /\ (callers'[i].pc = "descriptor" => callers'[i].time = callers[n - 2].time)
  <2>1. CASE i = 1
    BY <1>1, <1>2, <2>1
  <2>2. CASE i # 1
    <3>1. i - 1 \in 1 .. n - 3 /\ i - 1 \in 1 .. n /\ (i - 1) + 1 = i
      BY <1>1, <2>2
    <3> QED BY <1>1, <1>2, <3>1
  <2> QED BY <2>1, <2>2
<1>6. Straight(call', callers')
  <2>1. Len(callers') - 1 = n /\ Len(callers') - 2 = n - 1 /\ Len(callers') - 3 = n - 2 /\ Len(callers') >= 3
    BY <1>1, <1>2
  <2> QED BY <1>1, <1>2, <1>3, <1>4, <1>5, <2>1 DEF Straight, Inner, Stages
<1> QED BY <1>2, <1>3, <1>4, <1>6 DEF Inner

-----------------------------------------------------------------------------
(* process_descriptor.                                                      *)

\* What a step does to the oneshot timeout: nothing, clear it, or set it
\* together with a timer for it.
TimeoutKept == \/ oneshot'.timeout = oneshot.timeout /\ timeouts \subseteq timeouts'
               \/ oneshot'.timeout = 0
               \/ /\ Executing({"oneshot", "oneshotm"}) /\ oneshot'.timeout = call.time + OneshotTimeout
                  /\ OneshotTimeout # 0 /\ timeouts' = Scheduled(oneshot'.timeout)

LEMMA OpTimeouts ==
    ASSUME TypeOK, Op  PROVE TimeoutKept
<1> USE DEF TimeoutKept, modeVars
<1>1. \A t : timeouts \subseteq Scheduled(t)
  BY DEF Scheduled
<1>2. CASE OpKeySequence \/ OpScroll \/ OpOverloadIdle \/ RecacheAction \/ OpLayer
  <2>1. CASE OpKeySequence
    <3>1. UNCHANGED timeouts /\ oneshot' \in {oneshot, OneshotCleared}
      <4>1. UNCHANGED timeouts
        BY <2>1 DEF OpKeySequence
      <4>2. CASE call.pressed
        BY <2>1, <4>1, <4>2 DEF OpKeySequence
      <4>3. CASE ~call.pressed
        BY <2>1, <4>1, <4>3 DEF OpKeySequence
      <4> QED BY <4>2, <4>3
    <3> QED BY <3>1 DEF OneshotCleared
  <2>2. CASE OpScroll \/ OpOverloadIdle \/ RecacheAction \/ OpLayer
    BY <2>2 DEF OpScroll, OpOverloadIdle, RecacheAction, OpLayer
  <2> QED BY <1>2, <2>1, <2>2
<1>3. CASE OpOverloadTimeout \/ OpTimeout
  BY <1>1, <1>3 DEF OpOverloadTimeout, OpTimeout, BecomePending
<1>4. CASE OpClear \/ OpLayout
  BY <1>4 DEF OpClear, OpLayout, ClearModes, OneshotCleared
<1>5. CASE OverloadPressed \/ OverloadReleased \/ OneshotPressed
  BY <1>5 DEF OverloadPressed, OverloadReleased, OneshotPressed, TypeOK, ModesOK
<1>6. CASE OneshotReleased
  BY <1>6 DEF OneshotReleased, TypeOK, ModesOK
<1>7. CASE OpMacro \/ OpToggle \/ OpCommand
  BY <1>7 DEF OpMacro, OpToggle, OpCommand, OneshotCleared
<1>8. CASE SwapPressed \/ SwapReleased
  BY <1>8 DEF SwapPressed, SwapReleased
<1> QED BY <1>2, <1>3, <1>4, <1>5, <1>6, <1>7, <1>8 DEF Op

\* Descriptors run for the event that their callers process.
LEMMA OpCalls ==
    ASSUME TypeOK, Op, Straight(call, callers)
    PROVE  /\ Straight(call', callers') /\ call'.pc \in {"exit"} \cup Inner
           /\ EventTime(call', callers') = EventTime(call, callers)
<1> USE DEF Executing, Done
<1>1. ASSUME call.pc \in {"descriptor", "recache"}, Return
      PROVE  /\ Straight(call', callers') /\ call'.pc \in {"exit"} \cup Inner
             /\ EventTime(call', callers') = EventTime(call, callers)
  BY <1>1, InnerReturns DEF Inner
<1>2. ASSUME NEW d \in Runnable, NEW g \in Frame, call.pc = "descriptor", g.pc \in Inner,
             g.pc = "descriptor" => g.time = call.time,
             CallThen(ProcessDescriptor(call.code, d, call.dl, TRUE, call.time), <<g>>)
      PROVE  /\ Straight(call', callers') /\ call'.pc \in {"exit"} \cup Inner
             /\ EventTime(call', callers') = EventTime(call, callers)
  <2> DEFINE f == ProcessDescriptor(call.code, d, call.dl, TRUE, call.time)
  <2>1. f.pc = "descriptor" /\ f.time = call.time
    BY DEF ProcessDescriptor
  <2> HIDE DEF f
  <2> QED BY <1>2, <2>1, InnerCalls DEF f
<1>3. CASE OpKeySequence \/ OpScroll \/ RecacheAction \/ OpOverloadTimeout \/ OpTimeout
  BY <1>1, <1>3 DEF OpKeySequence, OpScroll, RecacheAction, OpOverloadTimeout, OpTimeout
<1>4. CASE OpLayer \/ OpClear \/ OpLayout \/ OverloadPressed
  BY <1>1, <1>4 DEF OpLayer, OpClear, OpLayout, OverloadPressed
<1>5. CASE OneshotPressed \/ OneshotReleased \/ OpMacro \/ OpToggle \/ OpCommand
  BY <1>1, <1>5 DEF OneshotPressed, OneshotReleased, OpMacro, OpToggle, OpCommand
<1>6. CASE SwapPressed \/ SwapReleased
  BY <1>1, <1>6 DEF SwapPressed, SwapReleased
<1>7. CASE OpOverloadIdle
  <2> DEFINE idle == call.time - recent.last_simple_key_time >= call.d.timeout
             action == DescTable[IF idle THEN call.d.act2 ELSE call.d.act]
             g == Recache(call.code, action)
  <2>1. call.pc = "descriptor"
    BY <1>7 DEF OpOverloadIdle
  <2>2. action \in Runnable /\ call.code \in Codes
    BY <2>1, DescriptorRuns, ConfigDescsType
  <2>3. Return \/ CallThen(ProcessDescriptor(call.code, action, call.dl, TRUE, call.time), <<g>>)
    BY <1>7 DEF OpOverloadIdle
  <2> HIDE DEF action
  <2>4. g \in Frame /\ g.pc = "recache"
    BY <2>2, FrameMakers DEF Recache
  <2> HIDE DEF g
  <2> QED BY <1>1, <1>2, <2>1, <2>2, <2>3, <2>4 DEF Inner
<1>8. CASE OverloadReleased
  <2> DEFINE action == DescTable[call.d.act]
             g == ProcessDescriptor(call.code, action, call.dl, FALSE, call.time)
  <2>1. call.pc = "descriptor"
    BY <1>8 DEF OverloadReleased
  <2>2. action \in Runnable /\ call.code \in Codes /\ call.dl \in Layers /\ call.time \in Nat
    BY <2>1, DescriptorRuns, ConfigDescsType
  <2>3. Return \/ CallThen(ProcessDescriptor(call.code, action, call.dl, TRUE, call.time), <<g>>)
    BY <1>8 DEF OverloadReleased
  <2> HIDE DEF action
  <2>4. g \in Frame /\ g.pc = "descriptor" /\ g.time = call.time
    BY <2>2, FrameMakers DEF ProcessDescriptor
  <2> HIDE DEF g
  <2> QED BY <1>1, <1>2, <2>1, <2>2, <2>3, <2>4 DEF Inner
<1> QED BY <1>3, <1>4, <1>5, <1>6, <1>7, <1>8 DEF Op

\* No key becomes pending.
LEMMA OpPendsNone ==
    ASSUME NoTapHold, TypeOK, Op  PROVE UNCHANGED <<chordVars, pending_key>>
<1> USE DEF Executing, keyVars
<1>1. call.pc = "descriptor" => call.d.op \notin TapHoldOps \cup {"timeout"}
  <2> SUFFICES ASSUME call.pc = "descriptor" PROVE call.d.op \notin TapHoldOps \cup {"timeout"}
    OBVIOUS
  <2>1. call.d.op \in BoundOps \cup {"none", "keysequence", "layer"}
    BY DescriptorRuns DEF Runnable
  <2> QED BY <2>1 DEF BoundOps, NoTapHold, TapHoldOps
<1>2. ~OpOverloadTimeout /\ ~OpTimeout
  BY <1>1 DEF OpOverloadTimeout, OpTimeout, TapHoldOps
<1>3. CASE OpKeySequence \/ OpScroll \/ RecacheAction \/ OpOverloadIdle \/ OverloadReleased
  BY <1>3 DEF OpKeySequence, OpScroll, RecacheAction, OpOverloadIdle, OverloadReleased
<1>4. CASE OpLayer \/ OpClear \/ OpLayout \/ OverloadPressed
  BY <1>4 DEF OpLayer, OpClear, OpLayout, OverloadPressed
<1>5. CASE OneshotPressed \/ OneshotReleased \/ OpMacro \/ OpToggle \/ OpCommand
  BY <1>5 DEF OneshotPressed, OneshotReleased, OpMacro, OpToggle, OpCommand
<1>6. CASE SwapPressed \/ SwapReleased
  BY <1>6 DEF SwapPressed, SwapReleased
<1> QED BY <1>2, <1>3, <1>4, <1>5, <1>6 DEF Op

\* A step within process_event that keeps the event it processes.
LEMMA KeepsWatching ==
    ASSUME TypeOK, TimeoutKept, Straight(call, callers), call.pc \in {"key"} \cup Inner, Watched,
           call'.pc \in {"key", "exit"} \cup Inner, EventTime(call', callers') = EventTime(call, callers)
    PROVE  Watched'
<1> DEFINE t == oneshot'.timeout
<1>1. ASSUME t # 0, oneshot'.timeout = oneshot.timeout, timeouts \subseteq timeouts' PROVE Watched'
  <2>1. Scheduling(oneshot.timeout) /\ EventTime(call, callers) < oneshot.timeout
    BY <1>1 DEF Watched
  <2>2. \E x \in timeouts' : x[1] = oneshot'.timeout
    BY <1>1, <2>1 DEF Scheduling
  <2> QED BY <1>1, <2>1, <2>2 DEF Watched, Inner, Scheduling
<1>2. ASSUME Executing({"oneshot", "oneshotm"}), t = call.time + OneshotTimeout,
             OneshotTimeout # 0, timeouts' = Scheduled(t)
      PROVE  Watched'
  <2>1. /\ EventTime(call, callers) = call.time /\ call.time \in Nat /\ OneshotTimeout \in Nat
    BY <1>2, DescriptorRuns, TimeoutsAssumption DEF Straight, Executing, Inner
  <2>2. EventTime(call, callers) < t
    BY <1>2, <2>1
  <2>3. \E x \in timeouts' : x[1] = t
    <3> DEFINE y == <<t, Cardinality({x \in timeouts : x[1] = t})>>
    <3>1. y \in timeouts' /\ y[1] = t
      BY <1>2 DEF Scheduled
    <3> QED BY <3>1
  <2> QED BY <2>2, <2>3 DEF Watched, Inner, Scheduling
<1>3. ASSUME t = 0 PROVE Watched'
  BY <1>3 DEF Watched
<1> QED BY <1>1, <1>2, <1>3 DEF TimeoutKept

LEMMA OpKeepsArmed ==
    ASSUME NoTapHold, TypeOK, ArmedInv, Op  PROVE ArmedInv'
<1>1. call.pc \in Inner
  BY DEF Op, OpKeySequence, OpScroll, OpOverloadIdle, RecacheAction, OpOverloadTimeout, OpTimeout,
         OpLayer, OpClear, OpLayout, OverloadPressed, OverloadReleased, OneshotPressed, OneshotReleased,
         OpMacro, OpToggle, OpCommand, SwapPressed, SwapReleased, Executing, Inner
<1>2. Watched'
  BY <1>1, OpTimeouts, OpCalls, KeepsWatching DEF ArmedInv
<1> QED BY <1>2, OpCalls, OpPendsNone DEF ArmedInv, NoneChorded, chordVars

-----------------------------------------------------------------------------
(* The other steps.                                                         *)

LEMMA OneInFront ==
    ASSUME NEW f \in Frame, NEW cs \in Seq(Frame)
    PROVE  /\ Len(<<f>> \o cs) = Len(cs) + 1 /\ (<<f>> \o cs)[1] = f
           /\ \A i \in 1 .. Len(cs) : (<<f>> \o cs)[i + 1] = cs[i]
  OBVIOUS

LEMMA NextEventKeepsArmed ==
    ASSUME TypeOK, ArmedInv, NextEvent \/ DueBeforeNextEvent  PROVE ArmedInv'
<1> USE DEF keyVars, envVars, modeVars
<1>1. PICK code, pressed, time, evs :
         /\ evs \in {call.evs, Tail(call.evs)}
         /\ call' = ProcessEvent("chord", code, pressed, time)
         /\ callers' = <<Loop("due", evs, call.due)>> \o callers
         /\ call.pc = "events" /\ call.evs # <<>>
  <2>1. CASE NextEvent
    BY <2>1 DEF NextEvent, CallThen
  <2>2. CASE DueBeforeNextEvent
    BY <2>2 DEF DueBeforeNextEvent, CallThen
  <2> QED BY <2>1, <2>2
<1>2. UNCHANGED <<chordVars, pending_key, oneshot, timeouts>>
  BY DEF NextEvent, DueBeforeNextEvent
<1> DEFINE g == Loop("due", evs, call.due)
<1>3. evs \in Seq(Event) /\ call.due \in Nat /\ callers \in Seq(Frame) /\ Len(callers) = 1
  <2>1. call.evs \in Seq(Event) /\ call.due \in Nat /\ callers \in Seq(Frame)
    BY <1>1, StackTyped, FrameFields
  <2>2. Tail(call.evs) \in Seq(Event)
    BY <1>1, <2>1, EmptySeq, HeadTailProperties
  <2>3. Len(callers) = 1
    BY <1>1 DEF ArmedInv, Straight
  <2> QED BY <1>1, <2>1, <2>2, <2>3
<1>4. g \in Frame /\ g.pc = "due"
  BY <1>3, FrameMakers DEF Loop
<1> HIDE DEF g
<1>5. Len(callers') = 2 /\ callers'[1].pc = "due"
  <2>1. callers' = <<g>> \o callers
    BY <1>1 DEF g
  <2> QED BY <1>3, <1>4, <2>1, OneInFront
<1>6. call'.pc = "chord"
  BY <1>1 DEF ProcessEvent
<1>7. Straight(call', callers')
  BY <1>5, <1>6 DEF Straight, Inner, Stages
<1>8. Watched'
  BY <1>2, <1>6 DEF ArmedInv, Watched, Scheduling, Inner
<1> QED BY <1>2, <1>7, <1>8 DEF ArmedInv, NoneChorded, chordVars

LEMMA EventsDoneKeepsArmed ==
    ASSUME TypeOK, ArmedInv, EventsDone  PROVE ArmedInv'
<1>1. /\ call.pc = "events" /\ call.evs = <<>> /\ Len(callers) = 1 /\ Return
      /\ UNCHANGED <<chordVars, pending_key, oneshot, timeouts>>
      /\ deadline' = IF Head(callers) = IdleCall THEN call.due ELSE deadline
  BY DEF EventsDone, ArmedInv, Straight, keyVars, modeVars
<1>2. callers \in Seq(Frame) /\ Head(callers) = callers[1] /\ callers[1] = IdleCall
  BY <1>1, StackTyped DEF TypeOK, StackOK, WellStacked
<1>3. call' = IdleCall /\ call'.pc = "idle" /\ deadline' = call.due
  BY <1>1, <1>2 DEF Return, IdleCall
<1>4. Straight(call', callers')
  BY <1>3 DEF Straight, Inner, Stages
<1>5. Watched'
  BY <1>1, <1>3 DEF ArmedInv, Watched, Scheduling, Inner
<1> QED BY <1>1, <1>4, <1>5 DEF ArmedInv, NoneChorded, chordVars

\* Exit drops the timers that have passed, which the oneshot's has not.
LEMMA ExitKeepsArmed ==
    ASSUME TypeOK, ArmedInv, Exit  PROVE ArmedInv'
<1>1. /\ call.pc = "exit" /\ Len(callers) = 2 /\ callers[1].pc = "due" /\ callers \in Seq(Frame)
      /\ UNCHANGED <<chordVars, pending_key, oneshot>> /\ timeouts' = Live(call.time)
      /\ callers' = Tail(callers) /\ Head(callers) = callers[1] /\ call.time \in Nat /\ TimeoutsOK
  BY StackTyped, FrameFields DEF Exit, ArmedInv, Straight, keyVars, modeVars, TypeOK
<1>2. /\ call'.pc = "events" /\ call'.due = NextDue(call.time) /\ Len(callers') = 1
  <2>1. call' = Loop("events", Head(callers).evs, NextDue(call.time))
    BY <1>1 DEF Exit
  <2>2. Len(callers') = 1
    BY <1>1
  <2> QED BY <2>1, <2>2 DEF Loop
<1>3. Straight(call', callers')
  BY <1>2 DEF Straight, Inner, Stages
<1>4. ASSUME oneshot.timeout # 0
      PROVE  /\ \E x \in Live(call.time) : x[1] = oneshot.timeout
             /\ 0 < NextDue(call.time) /\ NextDue(call.time) <= oneshot.timeout
  <2>1. Scheduling(oneshot.timeout) /\ call.time < oneshot.timeout
    BY <1>1, <1>4 DEF ArmedInv, Watched, EventTime, Inner
  <2>2. PICK x \in timeouts : x[1] = oneshot.timeout
    BY <2>1 DEF Scheduling
  <2>3. oneshot.timeout \in Nat
    BY DEF TypeOK, ModesOK
  <2>4. x[1] > call.time
    BY <1>1, <2>1, <2>2, <2>3
  <2> QED BY <1>1, <2>2, <2>4, NextDueFirst DEF Live
<1>5. Watched'
  BY <1>1, <1>2, <1>4 DEF Watched, Scheduling, Inner
<1> QED BY <1>1, <1>3, <1>5 DEF ArmedInv, NoneChorded, chordVars

LEMMA ChordHandlerKeepsArmed ==
    ASSUME NoChords, TypeOK, ArmedInv, ChordHandler  PROVE ArmedInv'
<1>1. ChordOfRelease = {} /\ chord.state = "inactive" /\ call.pc # "resolved"
  BY DEF ArmedInv, NoneChorded, ChordOfRelease, NoChord, Straight, Stages, Inner
<1>2. ~ReleaseChordKey /\ ~ChordResolving /\ ~ChordDisambiguation /\ ~ChordHold /\ ~LeaveChord
  BY <1>1 DEF ReleaseChordKey, ChordResolving, ChordDisambiguation, ChordHold, InChordHandler, LeaveChord
<1>3. /\ call.pc = "chord" /\ UNCHANGED <<chordVars, pending_key, oneshot, timeouts>>
      /\ call' = Stage("pending") /\ callers' = callers
  BY <1>2, NothingMatches DEF ChordHandler, ChordInactive, InChordHandler, NotHandledByChord, Goto,
     keyVars, modeVars
<1>4. call'.pc = "pending"
  BY <1>3 DEF Stage, ProcessEvent
<1>5. Straight(call', callers')
  BY <1>3, <1>4 DEF ArmedInv, Straight, Inner, Stages
<1>6. Watched'
  BY <1>3, <1>4 DEF ArmedInv, Watched, Scheduling, Inner
<1> QED BY <1>3, <1>5, <1>6 DEF ArmedInv, NoneChorded, chordVars

LEMMA HoldingKeepsArmed ==
    ASSUME TypeOK, ArmedInv, Holding  PROVE ArmedInv'
<1>1. NotPending
  BY DEF Holding, PendingKey, PassesPendingKey, ArmedInv
<1>2. /\ call.pc = "pending" /\ UNCHANGED <<chordVars, pending_key, oneshot, timeouts>>
      /\ call' = Stage("timers") /\ callers' = callers
  BY <1>1 DEF NotPending, Goto, keyVars, modeVars
<1>3. call'.pc = "timers"
  BY <1>2 DEF Stage, ProcessEvent
<1>4. Straight(call', callers')
  BY <1>2, <1>3 DEF ArmedInv, Straight, Inner, Stages
<1>5. Watched'
  BY <1>2, <1>3 DEF ArmedInv, Watched, Scheduling, Inner
<1> QED BY <1>2, <1>4, <1>5 DEF ArmedInv, NoneChorded, chordVars

\* A oneshot that is not over yet has its timeout ahead of the event.
LEMMA TimersKeepArmed ==
    ASSUME TypeOK, ArmedInv, Timers  PROVE ArmedInv'
<1>1. /\ call.pc = "timers" /\ UNCHANGED <<chordVars, pending_key>> /\ callers' = callers
      /\ call' = IF call.code = NoKey THEN ExitEvent(call.time) ELSE Stage("key")
      /\ oneshot' = IF OneshotExpired THEN OneshotCleared ELSE oneshot
      /\ call.time \in Nat /\ oneshot.timeout \in Nat
  BY StackTyped, FrameFields DEF Timers, Goto, keyVars, TypeOK, ModesOK
<1>2. timeouts \subseteq timeouts'
  BY DEF Timers, Scheduled
<1>3. call'.pc \in {"key", "exit"} /\ call'.time = call.time
  BY <1>1 DEF Stage, ProcessEvent, ExitEvent
<1>4. Straight(call', callers')
  BY <1>1, <1>3 DEF ArmedInv, Straight, Inner, Stages
<1>5. Watched'
  <2>1. CASE OneshotExpired
    BY <1>1, <2>1 DEF Watched, OneshotCleared
  <2>2. CASE ~OneshotExpired
    <3>1. oneshot' = oneshot
      BY <1>1, <2>2
    <3>2. oneshot.timeout # 0 => call.time < oneshot.timeout
      BY <1>1, <2>2 DEF OneshotExpired
    <3>3. oneshot.timeout # 0 => Scheduling(oneshot.timeout)'
      BY <1>2, <3>1 DEF ArmedInv, Watched, Scheduling
    <3>4. EventTime(call', callers') = call.time
      BY <1>3 DEF EventTime, Inner
    <3> QED BY <1>3, <3>1, <3>2, <3>3, <3>4 DEF Watched, Inner
  <2> QED BY <2>1, <2>2
<1> QED BY <1>1, <1>4, <1>5 DEF ArmedInv, NoneChorded, chordVars

LEMMA KeyKeepsArmed ==
    ASSUME TypeOK, ArmedInv, KeyPressed \/ KeyReleased  PROVE ArmedInv'
<1>1. /\ call.pc = "key" /\ UNCHANGED <<chordVars, pending_key, oneshot, timeouts>>
      /\ callers \in Seq(Frame) /\ call.time \in Nat /\ Len(callers) = 2 /\ callers[1].pc = "due"
  BY StackTyped, FrameFields DEF KeyPressed, KeyReleased, ArmedInv, Straight, Stages, modeVars
<1>2. \/ call' = ExitEvent(call.time) /\ callers' = callers
      \/ \E d, dl, pressed : /\ call' = ProcessDescriptor(call.code, d, dl, pressed, call.time)
                             /\ callers' = <<ExitEvent(call.time)>> \o callers
  BY DEF KeyPressed, KeyReleased, Goto, CallThen
<1>3. EventTime(call, callers) = call.time
  BY <1>1 DEF EventTime, Inner
<1>4. /\ Straight(call', callers') /\ call'.pc \in {"exit"} \cup Inner
      /\ EventTime(call', callers') = EventTime(call, callers)
  <2>1. CASE call' = ExitEvent(call.time) /\ callers' = callers
    <3>1. call'.pc = "exit" /\ call'.time = call.time
      BY <2>1 DEF ExitEvent
    <3> QED BY <1>1, <1>3, <2>1, <3>1 DEF Straight, EventTime, Inner, Stages
  <2>2. ASSUME NEW d, NEW dl, NEW pressed,
               call' = ProcessDescriptor(call.code, d, dl, pressed, call.time),
               callers' = <<ExitEvent(call.time)>> \o callers
        PROVE  /\ Straight(call', callers') /\ call'.pc \in {"exit"} \cup Inner
               /\ EventTime(call', callers') = EventTime(call, callers)
    <3>1. call'.pc = "descriptor" /\ call'.time = call.time
      BY <2>2 DEF ProcessDescriptor
    <3>2. ExitEvent(call.time) \in Frame /\ ExitEvent(call.time).pc = "exit" /\ ExitEvent(call.time).time = call.time
      BY <1>1, FrameMakers DEF ExitEvent
    <3>3. Len(callers') = 3 /\ callers'[1] = ExitEvent(call.time) /\ callers'[2] = callers[1]
      <4> DEFINE g == ExitEvent(call.time)
      <4>1. g \in Frame /\ callers' = <<g>> \o callers
        BY <2>2, <3>2
      <4> HIDE DEF g
      <4>2. Len(callers') = 3 /\ callers'[1] = g /\ callers'[1 + 1] = callers[1]
        <5>1. 1 \in 1 .. Len(callers)
          BY <1>1
        <5>2. Len(callers') = Len(callers) + 1 /\ callers'[1] = g /\ callers'[1 + 1] = callers[1]
          BY <1>1, <4>1, <5>1, OneInFront
        <5>3. Len(callers) + 1 = 3
          BY <1>1
        <5> QED BY <5>2, <5>3
      <4> QED BY <4>2 DEF g
    <3>4. EventTime(call', callers') = call.time
      BY <3>1, <3>2, <3>3 DEF EventTime, Inner
    <3>5. Straight(call', callers')
      BY <1>1, <3>1, <3>2, <3>3, <3>4 DEF Straight, Inner, Stages
    <3> QED BY <1>3, <3>1, <3>4, <3>5 DEF Inner
  <2> QED BY <1>2, <2>1, <2>2
<1>5. Watched'
  BY <1>1, <1>4, KeepsWatching DEF ArmedInv, TimeoutKept
<1> QED BY <1>1, <1>4, <1>5 DEF ArmedInv, NoneChorded, chordVars

LEMMA EnvironmentKeepsArmed ==
    ASSUME TypeOK, ArmedInv, Environment  PROVE ArmedInv'
<1>1. /\ call = IdleCall /\ callers = <<>>
      /\ UNCHANGED <<chordVars, pending_key, oneshot, timeouts, deadline>>
  BY DEF Environment, Press, Release, Timeout, Tick, ProcessOne, Idle, TypeOK, StackOK, WellStacked,
     keyVars, modeVars
<1>2. CASE Tick
  BY <1>1, <1>2 DEF Tick, stackVars, ArmedInv, NoneChorded, chordVars, Watched, Scheduling
<1>3. ASSUME NEW code, NEW pressed, ProcessOne(code, pressed) PROVE ArmedInv'
  <2> DEFINE evs == <<[code |-> code, pressed |-> pressed, time |-> now]>>
  <2>1. call' = ProcessEvents(evs) /\ callers' = <<IdleCall>> \o <<>>
    BY <1>1, <1>3 DEF ProcessOne, CallThen
  <2>2. call'.pc = "events" /\ call'.evs # <<>>
    BY <2>1 DEF ProcessEvents, Loop
  <2>3. Len(callers') = 1
    BY <2>1
  <2>4. Straight(call', callers')
    BY <2>2, <2>3 DEF Straight, Inner, Stages
  <2>5. Watched'
    BY <1>1, <2>2 DEF ArmedInv, Watched, Scheduling, Inner
  <2> QED BY <1>1, <2>4, <2>5 DEF ArmedInv, NoneChorded, chordVars
<1> QED BY <1>2, <1>3 DEF Environment, Press, Release, Timeout

\* A oneshot layer does not outlive its timeout for want of a timer: in every
\* configuration without chords and tap-hold keys, whatever other timers are
\* armed, dropped or served late, the loop is told to come back in time.
THEOREM OneshotWatched ==
    ASSUME NoChords, NoTapHold  PROVE Spec => []OneshotTimerArmed
<1>1. Init => ArmedInv
  BY DEF Init, ArmedInv, NoneChorded, NoPending, Straight, Watched, OneshotCleared, IdleCall, Inner, Stages
<1>2. TypeOK /\ ArmedInv /\ [Next]_vars => ArmedInv'
  <2> SUFFICES ASSUME TypeOK, ArmedInv, [Next]_vars PROVE ArmedInv'
    OBVIOUS
  <2>1. CASE UNCHANGED vars
    BY <2>1 DEF vars, keyVars, chordVars, modeVars, stackVars, envVars, ArmedInv, NoneChorded, Watched, Scheduling
  <2>2. CASE Next
    BY <2>2, NextEventKeepsArmed, EventsDoneKeepsArmed, ExitKeepsArmed, ChordHandlerKeepsArmed,
       HoldingKeepsArmed, TimersKeepArmed, KeyKeepsArmed, OpKeepsArmed, EnvironmentKeepsArmed
       DEF Next, Engine, Looping, Binding
  <2> QED BY <2>1, <2>2
<1>3. ArmedInv => OneshotTimerArmed
  BY DEF ArmedInv, Watched, OneshotTimerArmed, Idle, IdleCall
<1> QED BY <1>1, <1>2, <1>3, TypeCorrectness, PTL DEF Spec

=============================================================================

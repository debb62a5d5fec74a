------------------------------- MODULE MCDaemon -------------------------------
(***************************************************************************)
(* A keyboard, a keyboard with a pointer, and small configuration files.   *)
(***************************************************************************)
EXTENDS DaemonProps

\* Key codes: escape is 1, backspace 14, enter 28, a 30, s 31 and d 32.
SmallDevices == {"k", "p", "keyd"}
SmallIds == [p \in SmallDevices |-> <<p>>]
SmallFlags == [p \in SmallDevices |-> IF p = "p" THEN {"keyboard", "mouse"} ELSE {"keyboard"}]
SmallKeys == [p \in SmallDevices |->
                CASE p = "k" -> {BackspaceKey, EnterKey} [] p = "p" -> {BackspaceKey}
                [] OTHER -> {}]
TimedKeys == [p \in SmallDevices |->
                CASE p = "k" -> {30, 31} [] p = "p" -> {30, 32} [] OTHER -> {}]
NoEscape == [p \in SmallDevices |-> IF p = "k" THEN {BackspaceKey, EnterKey} ELSE {}]

\* One device more than the table has room for.
ManyDevices == SmallDevices \cup {"q"}
ManyIds == [p \in ManyDevices |-> <<p>>]
ManyFlags == [p \in ManyDevices |-> IF p = "p" THEN {"keyboard", "mouse"} ELSE {"keyboard"}]
ManyKeys == [p \in ManyDevices |-> IF p = "q" THEN {} ELSE TimedKeys[p]]

\* one:  *
AnyDevice == [f \in {"one"} |-> <<[mark |-> "*", id |-> <<>>]>>]

\* one:  *        two:  -k   m:p        long:  k   p   q
SmallLines ==
    [f \in {"one", "two", "long"} |->
        CASE f = "one" -> <<[mark |-> "*", id |-> <<>>]>>
          [] f = "two" -> <<[mark |-> "-", id |-> <<"k">>], [mark |-> "m:", id |-> <<"p">>]>>
          [] f = "long" -> [i \in 1 .. 3 |-> [mark |-> "", id |-> <<<<"k", "p", "q">>[i]>>]]]

\* do a+287ms+d Q
MacroKey(c) == [kind |-> "key", code |-> c, mods |-> {}]
SmallMacro ==
    <<[kind |-> "group", parts |-> <<MacroKey(30), [kind |-> "time", ms |-> 287], MacroKey(32)>>],
      [kind |-> "key", code |-> 16, mods |-> {"shift"}]>>
SmallText == <<30>>
Garbage == {-1, 2}
NoCompose == [i \in 1 .. 1 |-> <<1, 2, 3, 4>>]
===============================================================================

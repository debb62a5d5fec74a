------------------------------- MODULE MCConfig -------------------------------
(***************************************************************************)
(* Small configuration files and run-time bindings for TLC.                *)
(***************************************************************************)
EXTENDS Config

ModifierKeys == {"leftshift", "rightshift", "leftalt", "rightalt", "leftmeta", "rightmeta",
                 "leftcontrol", "rightcontrol"}
SmallKeyCodes == ModifierKeys \cup {"j", "k", "l", "esc", "."}
SmallNames == [c \in SmallKeyCodes |-> IF c = "esc" THEN {"esc", "escape"} ELSE {c}]

AllText == STRING

\* Expressions.
Nothing == [kind |-> "empty"]
KeyExp(code) == [kind |-> "key", code |-> code, mods |-> {}]
MacroExp(id) == [kind |-> "macro", id |-> id, valid |-> TRUE]
BadMacro == [kind |-> "macro", id |-> "bad", valid |-> FALSE]
CommandExp == [kind |-> "command", id |-> "ls", fits |-> TRUE]
LongCommand == [kind |-> "command", id |-> "long", fits |-> FALSE]
Name(n) == [kind |-> "name", parts |-> <<n>>]
Num(n) == [kind |-> "number", n |-> n]
Entry(key, val) == [key |-> key, val |-> val]
Layer(name, type, entries) == Section("layer", name, type, entries)
LayoutType == [kind |-> "layout", mods |-> {}]

-----------------------------------------------------------------------------
(* Files: aliases, an [ids] and a [global] section, one binding of main     *)
(* before and one after a [nav] section, and sections that open again or    *)
(* compose what is there, one of them a layer too many, or whose header is  *)
(* too long; and a file with an id too many.                               *)

TooLong(r) == [r EXCEPT !.fits = FALSE]

AliasSections ==
    {<<>>,
     <<Section("aliases", <<>>, NoType,
               <<Alias("j", "esc"), Alias("escape", "hyper"), TooLong(Alias("k", "very_long"))>>)>>}

Line(mark, id) == [mark |-> mark, id |-> id]
IdSection(lines) == Section("ids", <<>>, NoType, lines)
Fixed == <<IdSection(<<Line("*", <<>>), Line("-", <<"1", "2">>)>>),
           Section("global", <<>>, NoType,
                   <<Entry("oneshot_timeout", "5"), Entry("no_such_option", "1")>>)>>

MainEntries ==
    {Entry(<<"j">>, Fn("overload", <<Name("nav"), MacroExp("m1")>>)),
     Entry(<<"shift">>, Fn("timeout", <<Fn("toggle2", <<Name("nav"), MacroExp("m0")>>), Num(5), CommandExp>>)),
     Entry(<<"esc">>, Fn("lettermod", <<Name("nav"), KeyExp("j"), Num(1), Num(65537)>>)),
     Entry(<<"hyper">>, Fn("setlayout", <<Name("nav")>>)),
     Entry(<<"j", "k", "l">>, Fn("layerm", <<Name("nav"), KeyExp("k")>>)),
     Entry(<<"k">>, Nothing)}

NavSections ==
    {<<Layer(<<"nav">>, type, <<Entry(<<"k">>, KeyExp("leftshift")), Entry(<<"k">>, LongCommand)>>)>>
     : type \in {NoType, LayoutType, ModsType({"ctrl"})}}

LastSections ==
    {<<>>,
     <<Layer(<<"nav">>, LayoutType,
             <<Entry(<<"k">>, MacroExp("m2")), Entry(<<"k">>, Nothing), Entry(<<"k">>, NoValue)>>)>>,
     <<TooLong(Layer(<<"num">>, NoType, <<Entry(<<"j">>, CommandExp)>>))>>,
     <<Layer(<<"nav", "shift">>, NoType, <<Entry(<<"j">>, CommandExp)>>)>>,
     <<Layer(<<"nav", "shift">>, NoType, <<>>),
       Layer(<<"nav", "alt">>, NoType, <<Entry(<<"j">>, CommandExp)>>)>>,
     <<Layer(<<"num", "nav">>, NoType, <<Entry(<<"j">>, CommandExp)>>)>>}

SmallFiles ==
    {a \o Fixed \o <<Layer(<<"main">>, NoType, <<m1>>)>> \o n
       \o <<Layer(<<"main">>, NoType, <<m2>>)>> \o l :
     a \in AliasSections, m1 \in MainEntries, m2 \in MainEntries,
     n \in NavSections, l \in LastSections}
  \cup {Fixed \o <<IdSection(<<Line("k:", <<"3">>)>>), Layer(<<"main">>, NoType, <<>>)>>}

\* Run-time bindings: all of them refused or accepted depending on the file.
Bound(layer, key, val) == [layer |-> layer, key |-> key, val |-> val]
SmallBindings ==
    {Bound(<<>>, <<"j">>, MacroExp("m3")),
     Bound(<<>>, <<"j">>, KeyExp(".")),
     Bound(<<"nav">>, <<"esc">>, Fn("overload", <<Name("nav"), BadMacro>>)),
     Bound(<<"nav">>, <<"j", "k">>, Fn("swapm", <<[kind |-> "name", parts |-> <<"nav", "shift">>], MacroExp("m3")>>)),
     Bound(<<>>, <<"">>, Nothing),
     Bound(<<>>, <<"nokey">>, Fn("overloadi", <<MacroExp("m4"), KeyExp("k"), Num(7)>>))}
===============================================================================

------------------------------ MODULE DeviceIds ------------------------------
(***************************************************************************)
(* Which configuration file claims a device: the [ids] section of a file   *)
(* (parse_id_section, config_check_match) and the choice between several   *)
(* files (lookup_config_ent).  A device id "vendor:product:hash" is the    *)
(* sequence of its parts, which a line of the section may cut short.       *)
(* A line is [mark, id]: its mark "*", "m:", "k:", "-" or "" is what the   *)
(* line starts with; "long" is an id that does not fit.                    *)
(***************************************************************************)
EXTENDS Integers, Sequences, SequencesExt

CONSTANT MaxIds          \* ids one file may have

DeviceTypes == {"keyboard", "mouse"}         \* ID_KEYBOARD, ID_MOUSE
Marks == {"*", "m:", "k:", "-", "", "long"}

FlagsOf(mark) == CASE mark = "m:" -> {"mouse"}
                   [] mark = "k:" -> {"keyboard"}
                   [] mark = "-"  -> {"excluded"}
                   [] OTHER       -> {"keyboard", "mouse"}

NoIds == [wildcard |-> FALSE, ids |-> <<>>]

parse_id_section(c, lines) ==
    LET Id(line) == IF line.mark \in {"*", "long"} THEN <<>>
                    ELSE <<[id |-> line.id, flags |-> FlagsOf(line.mark)]>> IN
    [wildcard |-> c.wildcard \/ \E i \in DOMAIN lines : lines[i].mark = "*",
     ids |-> c.ids \o FlattenSeq([i \in DOMAIN lines |-> Id(lines[i])])]

\* The assertion of parse_id_section, made for each id: there is room for it.
TooManyIds(c, lines) == Len(parse_id_section(c, lines).ids) > MaxIds

\* Mutant of config_check_match: a line that excludes the device is any match.
config_check_match_any(c, id, flags) ==
    IF \E i \in DOMAIN c.ids : IsPrefix(c.ids[i].id, id) THEN 2
    ELSE IF c.wildcard THEN 1 ELSE 0

\* 0 for no match, 1 for a match of the wildcard, 2 for one of an id.
config_check_match(c, id, flags) ==
    LET hits == {i \in DOMAIN c.ids : /\ IsPrefix(c.ids[i].id, id)
                                      /\ c.ids[i].flags \cap (flags \cup {"excluded"}) # {}}
        first == CHOOSE i \in hits : \A j \in hits : i <= j IN
    IF hits # {} THEN IF "excluded" \in c.ids[first].flags THEN 0 ELSE 2
    ELSE IF c.wildcard THEN 1 ELSE 0

\* The position in configs, a sequence of parsed [ids] sections, of the file
\* that claims the device: the first of the best rank.  0 when none does.
lookup_config_ent(configs, id, flags) ==
    LET rank == [i \in DOMAIN configs |-> config_check_match(configs[i], id, flags)]
        best == {i \in DOMAIN configs : /\ rank[i] > 0
                                        /\ \A j \in DOMAIN configs : rank[j] <= rank[i]}
        match == CHOOSE i \in best : \A j \in best : i <= j IN
    IF best = {} \/ (rank[match] = 1 /\ flags = {"mouse"}) THEN 0 ELSE match
===============================================================================

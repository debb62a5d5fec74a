------------------------------- MODULE Custody -------------------------------
(***************************************************************************)
(* What the daemon promises about devices, without a loop, a table or file *)
(* descriptors: who owns each device, and that nothing a keyboard does not *)
(* own reaches it.  Daemon.tla is shown to implement this.                 *)
(*                                                                         *)
(* The claims of the files are defined from the words of the manual, line  *)
(* by line, and not by the ranks of DeviceIds.                             *)
(***************************************************************************)
EXTENDS FiniteSets, Naturals, SequencesExt

CONSTANTS Devices, DeviceId, DeviceFlags, DeviceKeys, Files, IdLines

VARIABLES
    plugged,             \* the devices that are connected
    loaded,              \* the files that are loaded
    owner,               \* device -> the file whose keyboard has it to itself
    keys                 \* file -> the keys its keyboard holds down

System == "system"       \* nobody: the rest of the system sees its events
Limbo == "limbo"         \* taken from the system, and its keyboard is gone

-----------------------------------------------------------------------------
\* A line is about a device when the device's id begins with the line's, and
\* the line is not for the other type of device.
About(line, p) ==
    /\ line.mark \notin {"*", "long"}
    /\ IsPrefix(line.id, DeviceId[p])
    /\ line.mark = "m:" => "mouse" \in DeviceFlags[p]
    /\ line.mark = "k:" => "keyboard" \in DeviceFlags[p]
    /\ line.mark = "" => DeviceFlags[p] # {}

FirstAbout(f, p, i) == /\ About(IdLines[f][i], p)
                       /\ \A j \in 1 .. i - 1 : ~About(IdLines[f][j], p)
Names(f, p) == \E i \in DOMAIN IdLines[f] : FirstAbout(f, p, i) /\ IdLines[f][i].mark # "-"
Silent(f, p) == ~\E i \in DOMAIN IdLines[f] : About(IdLines[f][i], p)
Anything(f) == \E i \in DOMAIN IdLines[f] : IdLines[f][i].mark = "*"

\* A file that names the device goes before one that takes anything, and the
\* latter never has a device that is only a mouse.
Claimants(p) ==
    LET named == {f \in loaded : Names(f, p)}
        wild == {f \in loaded : Anything(f) /\ Silent(f, p)} IN
    IF named # {} THEN named ELSE IF DeviceFlags[p] = {"mouse"} THEN {} ELSE wild

-----------------------------------------------------------------------------

Init == /\ owner = [p \in Devices |-> System]
        /\ keys = [f \in Files |-> {}]
        /\ plugged \subseteq Devices /\ loaded \subseteq Files

\* All keyboards are replaced at once; what was owned is in limbo.
Load(F) ==
    /\ loaded' = F
    /\ owner' = [p \in Devices |-> IF owner[p] = System THEN System ELSE Limbo]
    /\ keys' = [f \in Files |-> {}]
    /\ UNCHANGED plugged

Take(p) ==
    /\ p \in plugged /\ owner[p] \in {System, Limbo}
    /\ \E f \in Claimants(p) : owner' = [owner EXCEPT ![p] = f]
    /\ UNCHANGED <<plugged, loaded, keys>>

Give(p) ==
    /\ owner[p] = Limbo /\ Claimants(p) = {}
    /\ owner' = [owner EXCEPT ![p] = System]
    /\ UNCHANGED <<plugged, loaded, keys>>

\* A keyboard's keys change only by its own devices' events, and only while no
\* device is in limbo.
Handle(p, c) ==
    /\ p \in plugged /\ owner[p] \in loaded
    /\ \A q \in Devices : owner[q] # Limbo
    /\ keys' = [keys EXCEPT ![owner[p]] = IF c \in @ THEN @ \ {c} ELSE @ \cup {c}]
    /\ UNCHANGED <<plugged, loaded, owner>>

Plug(p) == /\ plugged' = plugged \cup {p} /\ UNCHANGED <<loaded, owner, keys>>
Unplug(p) == /\ plugged' = plugged \ {p}
             /\ owner' = [owner EXCEPT ![p] = System]
             /\ UNCHANGED <<loaded, keys>>

Next == \/ \E F \in SUBSET Files : Load(F)
        \/ \E p \in Devices : \/ Take(p) \/ Give(p) \/ Plug(p) \/ Unplug(p)
                              \/ \E c \in DeviceKeys[p] : Handle(p, c)

Spec == Init /\ [][Next]_<<plugged, loaded, owner, keys>>
===============================================================================

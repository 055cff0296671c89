---------------------------- MODULE SettingsFile ----------------------------
(***************************************************************************)
(* What the settings file promises to the Trontop instances that share it  *)
(* (src/docs/SETTINGS_PERSISTENCE.md, "Files and migration"): an instance  *)
(* replaces the file as a whole, and only while it still holds the         *)
(* contents which that instance last read or wrote.                        *)
(***************************************************************************)
CONSTANTS
    Instances,  \* the processes that share the file
    Settings,   \* contents that can be decoded
    None,       \* there is no file
    Unknown     \* an instance that has not read the file

VARIABLES
    file,       \* the contents of settings-v3.json
    known       \* what every instance takes the contents to be

vars == <<file, known>>

Init == known = [i \in Instances |-> Unknown]

Load(i) ==
    /\ file \in Settings \cup {None}
    /\ known' = [known EXCEPT ![i] = file]
    /\ UNCHANGED file

Replace(i, s) ==
    /\ known[i] = file
    /\ file' = s
    /\ known' = [known EXCEPT ![i] = s]

Forget(i) ==
    /\ known' = [known EXCEPT ![i] = Unknown]
    /\ UNCHANGED file

Next == \E i \in Instances : Load(i) \/ Forget(i) \/ \E s \in Settings : Replace(i, s)

Spec == Init /\ [][Next]_vars
=============================================================================

------------------------------- MODULE Hotkey -------------------------------
(***************************************************************************)
(* The global hotkey (hotkey.rs, app/global_hotkey.rs): the UI asks for a  *)
(* chord, a thread of its own holds at most one registration, reports how  *)
(* that went and raises a flag when the held chord was pressed.  All       *)
(* registrations use the one HOTKEY_ID, so a message in the queue does not *)
(* say which chord was pressed; the model remembers it, the code cannot.   *)
(***************************************************************************)
EXTENDS Naturals, Sequences

CONSTANTS Chords,      \* the combinations the user may choose
          MaxPresses,  \* bound: messages in the thread's queue
          Off,         \* Choice::Off, which registers nothing
          NoRequest    \* no request

ASSUME ChordsAssumption == Off \notin Chords /\ NoRequest \notin Chords \cup {Off}

VARIABLES
  choice,      \* hotkey_choice of the UI
  setting,     \* where the UI is in set()
  keyReport,   \* Shared::report
  desired,     \* Shared::desired
  keyEvent,    \* the auto-reset event
  keyStop,     \* Shared::stop
  keyFlag,     \* Shared::pressed
  keyAt,       \* where the thread is
  keyCurrent,  \* the thread's own current choice
  held,        \* the chord it has registered, or Off
  presses      \* its message queue: the chord of each WM_HOTKEY

uiVars  == <<choice, setting, keyStop>>
keyVars == <<uiVars, keyReport, desired, keyEvent, keyFlag, keyAt, keyCurrent, held, presses>>

KeyChoices == Chords \cup {Off}
Statuses == {"Pending", "Off", "Active", "InUse", "Failed"}

KeyReport(c, status) == [choice |-> c, status |-> status]
-----------------------------------------------------------------------------
(* The UI.  Each statement of set is a step of its own for the thread.     *)

SetReport ==
  /\ setting = "idle" /\ ~keyStop /\ setting' = "desired"
  /\ \E c \in KeyChoices : choice' = c /\ keyReport' = KeyReport(c, "Pending")
  /\ UNCHANGED <<keyStop, desired, keyEvent, keyFlag, keyAt, keyCurrent, held, presses>>

SetDesired ==
  /\ setting = "desired" /\ setting' = "signal"
  /\ desired' = choice
  /\ UNCHANGED <<choice, keyStop, keyReport, keyEvent, keyFlag, keyAt, keyCurrent, held, presses>>

SetSignal ==
  /\ setting = "signal" /\ setting' = "idle"
  /\ keyEvent' = TRUE
  /\ UNCHANGED <<choice, keyStop, keyReport, desired, keyFlag, keyAt, keyCurrent, held, presses>>

TakePress ==
  /\ keyFlag /\ keyFlag' = FALSE
  /\ UNCHANGED <<uiVars, keyReport, desired, keyEvent, keyAt, keyCurrent, held, presses>>

DropHotkey ==
  /\ setting = "idle" /\ ~keyStop
  /\ keyStop' = TRUE /\ keyEvent' = TRUE
  /\ UNCHANGED <<choice, setting, keyReport, desired, keyFlag, keyAt, keyCurrent, held, presses>>

(* The notice under the row: a late answer for a previous choice must not  *)
(* describe this one.                                                      *)
Notice == keyReport.choice = choice /\ keyReport.status \in {"InUse", "Failed"}
-----------------------------------------------------------------------------
(* The thread. *)

KeyTo(from, to) == keyAt = from /\ keyAt' = to

(* The thread ends; dropping its slot releases the chord.                  *)
EndThread == keyAt' = "ended" /\ held' = Off /\ presses' = <<>>

TakeDesired ==
  /\ keyAt = "loop"
  /\ IF keyStop THEN EndThread /\ UNCHANGED <<desired, keyCurrent>>
     ELSE /\ UNCHANGED <<held, presses>>
          /\ IF desired = NoRequest
             THEN keyAt' = "pressed" /\ UNCHANGED <<desired, keyCurrent>>
             ELSE keyAt' = "release" /\ keyCurrent' = desired /\ desired' = NoRequest
  /\ UNCHANGED <<uiVars, keyReport, keyEvent, keyFlag>>

(* Slot::apply: the old chord is released first ...                        *)
Release ==
  /\ KeyTo("release", "drain")
  /\ held' = Off
  /\ UNCHANGED <<uiVars, keyReport, desired, keyEvent, keyFlag, keyCurrent, presses>>

DrainPresses ==
  /\ KeyTo("drain", "register")
  /\ presses' = <<>>
  /\ UNCHANGED <<uiVars, keyReport, desired, keyEvent, keyFlag, keyCurrent, held>>

(* ... and the new one registered, unless another program has it.          *)
Register ==
  /\ keyAt = "register"
  /\ \/ keyCurrent = Off /\ held' = Off /\ keyAt' = "Off"
     \/ keyCurrent # Off /\ held' = keyCurrent /\ keyAt' = "Active"
     \/ keyCurrent # Off /\ held' = Off /\ keyAt' \in {"InUse", "Failed"}
  /\ UNCHANGED <<uiVars, keyReport, desired, keyEvent, keyFlag, keyCurrent, presses>>

PublishReport ==
  /\ keyAt \in Statuses \ {"Pending"} /\ keyAt' = "pressed"
  /\ keyReport' = KeyReport(keyCurrent, keyAt)
  /\ UNCHANGED <<uiVars, desired, keyEvent, keyFlag, keyCurrent, held, presses>>

(* Slot::pressed empties the queue; repeats make one press.                *)
ReadPresses ==
  /\ KeyTo("pressed", "wait")
  /\ keyFlag' = (keyFlag \/ (presses # <<>> /\ held # Off))
  /\ presses' = <<>>
  /\ UNCHANGED <<uiVars, keyReport, desired, keyEvent, keyCurrent, held>>

WakeThread ==
  /\ KeyTo("wait", "loop")
  /\ \/ keyEvent /\ keyEvent' = FALSE
     \/ presses # <<>> /\ UNCHANGED keyEvent
  /\ UNCHANGED <<uiVars, keyReport, desired, keyFlag, keyCurrent, held, presses>>

(* The chord is given up, but its last report stands.                      *)
GiveUpSilently ==
  /\ keyAt = "wait" /\ EndThread
  /\ UNCHANGED <<uiVars, keyReport, desired, keyEvent, keyFlag, keyCurrent>>

(* WAIT_FAILED: never spin, give up the chord and say so.                  *)
GiveUp ==
  /\ keyAt = "wait" /\ EndThread
  /\ keyReport' = KeyReport(keyCurrent, "Failed")
  /\ UNCHANGED <<uiVars, desired, keyEvent, keyFlag, keyCurrent>>

(* Windows posts WM_HOTKEY for the registered chord.                       *)
PressChord ==
  /\ held # Off /\ Len(presses) < MaxPresses
  /\ presses' = Append(presses, held)
  /\ UNCHANGED <<uiVars, keyReport, desired, keyEvent, keyFlag, keyAt, keyCurrent, held>>

KeyThread == TakeDesired \/ Release \/ DrainPresses \/ Register \/ PublishReport
             \/ ReadPresses \/ WakeThread

-----------------------------------------------------------------------------
KeyInit ==
  /\ choice \in KeyChoices /\ setting = "idle" /\ keyStop = FALSE
  /\ keyReport = KeyReport(choice, "Pending") /\ desired = choice /\ keyCurrent = choice
  /\ keyEvent = FALSE /\ keyFlag = FALSE /\ keyAt = "loop" /\ held = Off /\ presses = <<>>

KeyNext == SetReport \/ SetDesired \/ SetSignal \/ TakePress \/ DropHotkey \/ KeyThread \/ GiveUp \/ PressChord

KeySpec == KeyInit /\ [][KeyNext]_keyVars
-----------------------------------------------------------------------------
(* Once nothing is under way, what the row says of the choice is what the  *)
(* thread holds, also after the thread gave up (hotkey.rs:182-222,         *)
(* 427-455).                                                               *)
ReportAgrees ==
  setting = "idle" /\ desired = NoRequest /\ keyAt \in {"pressed", "wait", "ended"} /\ ~keyStop
    => /\ keyReport.choice = choice
       /\ keyReport.status # "Pending"
       /\ held = IF keyReport.status = "Active" THEN choice ELSE Off

(* A press of a chord that was released does not toggle the window under   *)
(* the new one, although the messages look alike (hotkey.rs:197-198).      *)
ReleasedChordsAreSilent ==
  keyAt = "pressed" /\ held # Off => \A i \in DOMAIN presses : presses[i] = held

(* What the page says of the chord and what toggles the window agree.      *)
ChordIsAsShown == ReportAgrees /\ ReleasedChordsAreSilent
=============================================================================

---------------------------- MODULE Preferences -----------------------------
(***************************************************************************)
(* Settings that several Trontop processes share in one file, saved by a   *)
(* worker, and the quit that waits for it (src/src/preferences.rs,         *)
(* preferences/file.rs, app/preferences.rs, app/window.rs).                *)
(*                                                                         *)
(* The UI thread of every instance owns a Controller and calls it in a     *)
(* fixed order: raw_input_hook and logic open a frame (`Frame'), then ui   *)
(* draws and handles clicks (`Edit', `Quit', the dialog).  What the UI     *)
(* thread does between two looks at its channels is one step; the calls of *)
(* such a step are operators on the record of the controller.  The worker  *)
(* loads once, then saves under a lock file: compare, stage, replace.      *)
(***************************************************************************)
EXTENDS Naturals
LOCAL INSTANCE TLC

CONSTANTS
    Instances,   \* processes that may run
    Settings,    \* theme, library, hotkey and UI memory, as one value
    Default,     \* the settings of a first start
    Legacy,      \* what state-v2.ron holds, or None
    Broken,      \* file contents that this build refuses
    None,        \* an empty Option; no file
    Unknown,     \* see SettingsFile
    Unwinding,   \* a panic ends only its thread (dev profile)
    MaxEdits,    \* bound: captures of the settings
    MaxStarts    \* bound: processes started

LoadAnswers == [loaded : Settings]
SaveAnswers == [saved : Nat, ok : {TRUE}]
FailAnswers == [loaded : {None}] \cup [saved : Nat, ok : {FALSE}]
Events == LoadAnswers \cup SaveAnswers \cup FailAnswers

ASSUME PreferencesAssumption ==
    /\ Default \in Settings /\ Legacy \in Settings \cup {None}
    /\ None \notin Settings /\ Broken \notin Settings \cup {None}
    /\ Unknown \notin Settings \cup {None}
    /\ None \notin Instances \cup [save : Nat, value : Settings] \cup Events
    /\ Unwinding \in BOOLEAN /\ MaxEdits \in Nat /\ MaxStarts \in Nat

VARIABLES
    file,      \* settings-v3.json
    lock,      \* the instance that holds settings-v3.lock, or None
    ctl,       \* per instance: its UI thread, Controller and window
    wrk,       \* per instance: its worker thread and Store
    confirmed, \* history: what the last load or successful save was about
    edits,     \* history: captures so far
    starts     \* history: processes started

vars == <<file, lock, ctl, wrk, confirmed, edits, starts>>

Save(r, s) == [save |-> r, value |-> s]
Saves == [save : Nat, value : Settings]
Load == [load |-> TRUE]

\* A process before it starts and after it ends.
OffCtl == [life |-> "off", shown |-> Default, ready |-> FALSE, busy |-> FALSE,
           revision |-> 0, desired |-> None, recent |-> FALSE, error |-> FALSE,
           command |-> None, event |-> None, closing |-> FALSE,
           close |-> "no", hidden |-> FALSE]
OffWrk == [at |-> "dead", job |-> None, loaded |-> FALSE, expected |-> None]

-----------------------------------------------------------------------------
(* The controller: what each call makes of its record `c' *)

Listening(i) == wrk[i].at # "dead"

\* close_authorized, with the reason it was set.
Authorized(c) == c.close # "no"

Pending(c) == c.desired # None \/ (c.ready /\ c.busy)

\* update: the latest capture replaces the one that waits.
Updated(c, s) ==
    IF ~c.ready THEN c
    ELSE [c EXCEPT !.shown = s, !.desired = s, !.recent = TRUE, !.revision = @ + 1]

\* Mutant: any successful save answers for the latest capture.
PolledAnySave(c, i) ==
    LET e == c.event
        d == [c EXCEPT !.event = None, !.busy = FALSE]
    IN  CASE e \in LoadAnswers ->
               [d EXCEPT !.ready = TRUE, !.error = FALSE, !.shown = e.loaded]
          [] e \in SaveAnswers -> [d EXCEPT !.desired = None, !.error = FALSE]
          [] e \in FailAnswers -> [d EXCEPT !.error = TRUE]
          [] e = None /\ ~Listening(i) -> [d EXCEPT !.error = TRUE]
          [] OTHER -> c

\* poll
Polled(c, i) ==
    LET e == c.event
        d == [c EXCEPT !.event = None, !.busy = FALSE]
    IN  CASE e \in LoadAnswers ->
               [d EXCEPT !.ready = TRUE, !.error = FALSE, !.shown = e.loaded]
          [] e \in SaveAnswers ->
               [d EXCEPT !.desired = IF e.saved = c.revision THEN None ELSE @, !.error = FALSE]
          [] e \in FailAnswers -> [d EXCEPT !.error = TRUE]
          [] e = None /\ ~Listening(i) -> [d EXCEPT !.error = TRUE]
          [] OTHER -> c

Sent(c, i, message) ==
    IF Listening(i) /\ c.command = None
    THEN [c EXCEPT !.command = message, !.busy = TRUE, !.error = FALSE]
    ELSE [c EXCEPT !.error = TRUE]

\* dispatch(force)
Dispatched(c, i, force) ==
    IF c.busy \/ c.error \/ ~c.ready \/ (c.recent /\ ~force) \/ c.desired = None THEN c
    ELSE Sent(c, i, Save(c.revision, c.desired))

\* retry; the channel is gone once poll has seen the worker end.
Retried(c, i) ==
    IF c.busy \/ ~Listening(i) THEN c
    ELSE IF c.ready THEN Dispatched([c EXCEPT !.error = FALSE], i, TRUE)
    ELSE Sent(c, i, Load)

\* finish_preferences_close
Finished(c) ==
    IF c.closing /\ ~Pending(c)
    THEN [c EXCEPT !.close = IF c.ready THEN "saved" ELSE "unloaded", !.closing = FALSE] ELSE c

\* request_quit; a quit that must wait shows the window.
QuitRequested(c, i, s) ==
    IF Authorized(c) THEN c
    ELSE LET d == IF c.closing THEN c ELSE Updated([c EXCEPT !.closing = TRUE], s)
             f == Finished(Dispatched(d, i, TRUE))
         IN  IF Authorized(f) THEN f ELSE [f EXCEPT !.hidden = FALSE]

\* request_window_close, `tray' is the tray's state.
HideRequested(c, i, s, tray) ==
    IF Authorized(c) \/ c.closing \/ c.hidden \/ ~tray THEN c
    ELSE [Dispatched(Updated(c, s), i, TRUE) EXCEPT !.hidden = TRUE]

\* Mutant: only a quit hands the captures to the worker.
LogicAtQuit(c, i, s) ==
    LET d == IF s # None /\ ~c.closing /\ ~c.error THEN Updated(c, s) ELSE c
    IN  IF d.closing THEN Finished(Dispatched(d, i, TRUE)) ELSE d

\* preferences_logic: `s' is what the 30-second capture finds, None when it is not due.
Logic(c, i, s) ==
    Finished(Dispatched(IF s # None /\ ~c.closing /\ ~c.error THEN Updated(c, s) ELSE c,
                        i, c.closing))

-----------------------------------------------------------------------------
(* The UI thread of an instance *)

Up(i) == ctl[i].life = "up"

Set(i, c) ==
    /\ ctl' = [ctl EXCEPT ![i] = c]
    /\ edits' = IF c.revision # ctl[i].revision THEN edits + 1 ELSE edits

\* Settings as a capture finds them: an edit changes them, UI memory by itself may.
Captures == IF edits < MaxEdits THEN Settings ELSE {}

\* with_backend; native finds no directory, or Windows refuses a thread.
Start(i) ==
    /\ ctl[i].life = "off" /\ starts < MaxStarts
    /\ starts' = starts + 1
    /\ \E active \in BOOLEAN :
          /\ ctl' = [ctl EXCEPT ![i] =
                        [OffCtl EXCEPT !.life = "up", !.busy = active, !.error = ~active]]
          /\ wrk' = [wrk EXCEPT ![i] = [OffWrk EXCEPT !.at = IF active THEN "load" ELSE "dead"]]
    /\ UNCHANGED <<file, lock, confirmed, edits>>

\* raw_input_hook, then logic: the tray or the hotkey may ask for something.
Frame(i) ==
    /\ Up(i)
    /\ LET c == Polled(ctl[i], i)
       IN  \/ \E s \in Captures \cup {None} : Set(i, Logic(c, i, s))
           \/ Set(i, Logic([c EXCEPT !.hidden = FALSE], i, None))
           \/ \E s \in Captures : Set(i, Logic(QuitRequested(c, i, s), i, None))
           \/ \E s \in Captures, tray \in BOOLEAN :
                 Set(i, Logic(HideRequested(c, i, s, tray), i, None))
    /\ UNCHANGED <<file, lock, wrk, confirmed, starts>>

\* ui: a theme, palette or hotkey is chosen and captured in the same pass.
Edit(i) ==
    /\ Up(i) /\ ~ctl[i].hidden /\ ctl[i].ready
    /\ \E s \in Captures : Set(i, Dispatched(Updated(ctl[i], s), i, ctl[i].closing))
    /\ UNCHANGED <<file, lock, wrk, confirmed, starts>>

Quit(i) ==
    /\ Up(i) /\ ~ctl[i].hidden
    /\ \E s \in Captures : Set(i, QuitRequested(ctl[i], i, s))
    /\ UNCHANGED <<file, lock, wrk, confirmed, starts>>

\* The footer's Retry, and the dialog's.
Retry(i) ==
    /\ Up(i) /\ ~ctl[i].hidden /\ ctl[i].error
    /\ Set(i, Retried(ctl[i], i))
    /\ UNCHANGED <<file, lock, wrk, confirmed, starts>>

\* preferences_close_dialog, drawn after 250 ms or an error.
KeepOpen(i) ==
    /\ Up(i) /\ ~ctl[i].hidden /\ ctl[i].closing
    /\ Set(i, [ctl[i] EXCEPT !.closing = FALSE])
    /\ UNCHANGED <<file, lock, wrk, confirmed, starts>>

CloseAnyway(i) ==
    /\ Up(i) /\ ~ctl[i].hidden /\ ctl[i].closing
    /\ Set(i, [ctl[i] EXCEPT !.closing = FALSE, !.close = "anyway"])
    /\ UNCHANGED <<file, lock, wrk, confirmed, starts>>

\* 250 ms have passed since the last capture.
DebouncePasses(i) ==
    /\ ctl[i].recent
    /\ Set(i, [ctl[i] EXCEPT !.recent = FALSE])
    /\ UNCHANGED <<file, lock, wrk, confirmed, starts>>

\* The native loop ends: the Controller is dropped, the worker is not joined.
Drop(i) ==
    /\ Up(i) /\ Authorized(ctl[i])
    /\ Set(i, [ctl[i] EXCEPT !.life = "dropped"])
    /\ UNCHANGED <<file, lock, wrk, confirmed, starts>>

\* The process ends, after its main thread or at any time: Windows releases the lock.
End(i) ==
    /\ ctl[i].life # "off"
    /\ ctl' = [ctl EXCEPT ![i] = OffCtl]
    /\ wrk' = [wrk EXCEPT ![i] = OffWrk]
    /\ lock' = IF lock = i THEN None ELSE lock
    /\ confirmed' = [confirmed EXCEPT ![i] = None]
    /\ UNCHANGED <<file, edits, starts>>

-----------------------------------------------------------------------------
(* The worker thread and its Store *)

At(i, place) == wrk[i].at = place
Stop(i) == ctl[i].life = "dropped"
Goto(i, place) == wrk' = [wrk EXCEPT ![i].at = place]

\* The locals of save are dropped, then the answer is sent and the next command
\* awaited; nobody listens after the drop.
Answer(i, w, event) ==
    /\ lock' = IF lock = i THEN None ELSE lock
    /\ IF Stop(i)
       THEN wrk' = [wrk EXCEPT ![i] = [w EXCEPT !.at = "dead", !.job = None]] /\ UNCHANGED ctl
       ELSE /\ wrk' = [wrk EXCEPT ![i] = [w EXCEPT !.at = "recv", !.job = None]]
            /\ ctl' = [ctl EXCEPT ![i].event = event]

Failed(i) == Answer(i, wrk[i], [saved |-> wrk[i].job.save, ok |-> FALSE])

\* Store::load.  Reading may fail too.
LoadFile(i) ==
    /\ At(i, "load")
    /\ \/ /\ file # Broken
          /\ LET s == IF file # None THEN file ELSE IF Legacy # None THEN Legacy ELSE Default
             IN  /\ Answer(i, [wrk[i] EXCEPT !.loaded = TRUE, !.expected = file], [loaded |-> s])
                 /\ confirmed' = [confirmed EXCEPT ![i] = s]
       \/ /\ Answer(i, wrk[i], [loaded |-> None])
          /\ UNCHANGED confirmed
    /\ UNCHANGED <<file, edits, starts>>

Receive(i) ==
    /\ At(i, "recv")
    /\ IF Stop(i) THEN Goto(i, "dead") /\ UNCHANGED ctl
       ELSE /\ ctl[i].command # None
            /\ wrk' = [wrk EXCEPT ![i].at = IF ctl[i].command = Load THEN "load" ELSE "check",
                                  ![i].job = IF ctl[i].command = Load THEN None ELSE ctl[i].command]
            /\ ctl' = [ctl EXCEPT ![i].command = None]
    /\ UNCHANGED <<file, lock, confirmed, edits, starts>>

\* save: encode, look at the flag, and do nothing when nothing has changed.
Check(i) ==
    /\ At(i, "check")
    /\ \/ Failed(i) /\ UNCHANGED confirmed
       \/ /\ wrk[i].loaded /\ ~Stop(i) /\ wrk[i].expected = wrk[i].job.value
          /\ Answer(i, wrk[i], [saved |-> wrk[i].job.save, ok |-> TRUE])
          /\ confirmed' = [confirmed EXCEPT ![i] = wrk[i].job.value]
       \/ /\ wrk[i].loaded /\ ~Stop(i) /\ wrk[i].expected # wrk[i].job.value
          /\ Goto(i, "lock")
          /\ UNCHANGED <<ctl, lock, confirmed>>
    /\ UNCHANGED <<file, edits, starts>>

\* Mutant: the lock file is opened, not locked.
TryLockNever(i) ==
    /\ At(i, "lock")
    /\ \/ Failed(i)
       \/ Goto(i, "compare") /\ UNCHANGED <<ctl, lock>>
    /\ UNCHANGED <<file, confirmed, edits, starts>>

TryLock(i) ==
    /\ At(i, "lock")
    /\ \/ Failed(i)
       \/ /\ lock = None
          /\ lock' = i
          /\ Goto(i, "compare") /\ UNCHANGED ctl
    /\ UNCHANGED <<file, confirmed, edits, starts>>

\* read(destination) != expected: another instance was here.
Compare(i) ==
    /\ At(i, "compare")
    /\ \/ Failed(i)
       \/ file = wrk[i].expected /\ Goto(i, "stage") /\ UNCHANGED <<ctl, lock>>
    /\ UNCHANGED <<file, confirmed, edits, starts>>

\* Write and flush a sibling file, then look at the flag again.
Stage(i) ==
    /\ At(i, "stage")
    /\ \/ Failed(i)
       \/ ~Stop(i) /\ Goto(i, "replace") /\ UNCHANGED <<ctl, lock>>
    /\ UNCHANGED <<file, confirmed, edits, starts>>

Replace(i) ==
    /\ At(i, "replace")
    /\ \/ Failed(i) /\ UNCHANGED <<file, confirmed>>
       \/ /\ file' = wrk[i].job.value
          /\ wrk' = [wrk EXCEPT ![i].at = "answer", ![i].expected = wrk[i].job.value]
          /\ confirmed' = [confirmed EXCEPT ![i] = wrk[i].job.value]
          /\ UNCHANGED <<ctl, lock>>
    /\ UNCHANGED <<edits, starts>>

Acknowledge(i) ==
    /\ At(i, "answer")
    /\ Answer(i, wrk[i], [saved |-> wrk[i].job.save, ok |-> TRUE])
    /\ UNCHANGED <<file, confirmed, edits, starts>>

\* Only where a panic unwinds.
Panic(i) ==
    /\ Unwinding /\ wrk[i].at \notin {"dead", "recv"}
    /\ wrk' = [wrk EXCEPT ![i].at = "dead", ![i].job = None]
    /\ lock' = IF lock = i THEN None ELSE lock
    /\ UNCHANGED <<file, ctl, confirmed, edits, starts>>

-----------------------------------------------------------------------------
(* Specification *)

Init ==
    /\ file \in Settings \cup {None, Broken}
    /\ lock = None
    /\ ctl = [i \in Instances |-> OffCtl]
    /\ wrk = [i \in Instances |-> OffWrk]
    /\ confirmed = [i \in Instances |-> None]
    /\ edits = 0 /\ starts = 0

UI(i) == Frame(i) \/ Edit(i) \/ Quit(i) \/ Retry(i) \/ KeepOpen(i) \/ CloseAnyway(i)

Worker(i) == \/ LoadFile(i) \/ Receive(i) \/ Check(i) \/ TryLock(i) \/ Compare(i)
             \/ Stage(i) \/ Replace(i) \/ Acknowledge(i)

Process(i) == Start(i) \/ DebouncePasses(i) \/ Drop(i) \/ End(i)

Next == \E i \in Instances : UI(i) \/ Worker(i) \/ Process(i) \/ Panic(i)

Spec == Init /\ [][Next]_vars

\* The worker is scheduled and storage answers; pending work keeps frames
\* coming (schedule); the native loop ends once Close was sent.
Fairness == \A i \in Instances :
    WF_vars(Frame(i)) /\ WF_vars(Worker(i)) /\ WF_vars(DebouncePasses(i)) /\ WF_vars(Drop(i))

FairSpec == Spec /\ Fairness

-----------------------------------------------------------------------------
(* Properties *)

Controllers ==
    [life : {"off", "up", "dropped"}, shown : Settings, ready : BOOLEAN, busy : BOOLEAN,
     revision : Nat, desired : Settings \cup {None}, recent : BOOLEAN, error : BOOLEAN,
     command : Saves \cup {Load, None}, event : Events \cup {None}, closing : BOOLEAN,
     close : {"no", "saved", "unloaded", "anyway"}, hidden : BOOLEAN]

Workers ==
    [at : {"load", "recv", "check", "lock", "compare", "stage", "replace", "answer", "dead"},
     job : Saves \cup {None}, loaded : BOOLEAN, expected : Settings \cup {None}]

TypeOK ==
    /\ file \in Settings \cup {None, Broken}
    /\ lock \in Instances \cup {None}
    /\ ctl \in [Instances -> Controllers]
    /\ wrk \in [Instances -> Workers]
    /\ \A i \in Instances :
          wrk[i].at \in {"check", "lock", "compare", "stage", "replace", "answer"}
             <=> wrk[i].job # None
    /\ confirmed \in [Instances -> Settings \cup {None}]
    /\ edits \in Nat /\ starts \in Nat

\* "A conflict does not silently merge or replace another instance's choices":
\* the lock, the comparison and the rename amount to one compare-and-swap, with
\* any number of instances, crashes included, and a file that cannot be read is
\* never replaced.
File == INSTANCE SettingsFile WITH
    known <- [i \in Instances |-> IF wrk[i].loaded THEN wrk[i].expected ELSE Unknown]

ImplementsSettingsFile == File!Spec

\* "Settings saved": nothing waits, so the last thing that storage confirmed is
\* what the window shows, whatever was captured while a save was running.
SavedMeansSaved ==
    \A i \in Instances :
        Up(i) /\ ctl[i].ready /\ ctl[i].desired = None => confirmed[i] = ctl[i].shown

\* "A tray Quit with slow/failed storage must expose its recovery controls":
\* nobody waits for a window that is hidden.
WaitingIsVisible == \A i \in Instances : ctl[i].closing => ~ctl[i].hidden

\* "If settings have loaded, capture the final state, queue it and cancel the
\* native close until success": a close permitted this way leaves nothing unsaved.
FinalStateSaved ==
    \A i \in Instances : Up(i) /\ ctl[i].close = "saved" => confirmed[i] = ctl[i].shown

\* "Settings saved" is true, and what waits for the user can be seen.
SettingsAreAsShown == TypeOK /\ SavedMeansSaved /\ WaitingIsVisible

\* "This window will close when saving succeeds": an edit is saved and a quit ends in a
\* close or in Keep open, or an error with its Retry says why not.
SettingsSettle ==
    \A i \in Instances :
        (Up(i) /\ (ctl[i].desired # None \/ ctl[i].closing))
            ~> (~Up(i) \/ ctl[i].error \/ (ctl[i].desired = None /\ ~ctl[i].closing))

(* Instances are interchangeable. *)
InstanceSymmetry == Permutations(Instances)
=============================================================================

----------------------------- MODULE TrayWindow -----------------------------
(***************************************************************************)
(* The window that closes to the notification area: the frames of the UI   *)
(* (app.rs logic and ui, app/window.rs), the tray worker (tray.rs and      *)
(* tray/native/worker.rs) and the mailbox the sampler publishes its        *)
(* snapshots through (sampler.rs).  A frame runs because somebody asked    *)
(* for a repaint or because the window got some input; a hidden window     *)
(* gets no input.                                                          *)
(***************************************************************************)
EXTENDS Naturals, Sequences

CONSTANTS LastSample,   \* bound: how many snapshots the sampler publishes
          MaxMessages   \* bound: the messages queued on the tray thread

ASSUME BoundsAssumption == LastSample \in Nat /\ MaxMessages \in Nat

VARIABLES
  ui,            \* where the frame of the UI thread is
  repaint,       \* a repaint was requested and its frame has not begun
  hidden,        \* hidden_to_tray
  closing,       \* closing_at.is_some(): an explicit Quit waits for its save
  authorized,    \* close_authorized
  pressed,       \* the hotkey listener's flag
  seen,          \* seen_generation
  trayState,     \* Shared::state
  trayStop,      \* Shared::stop
  trayAt,        \* where the tray worker is
  trayCalls,     \* the worker owes a request_repaint
  traySignal,    \* the auto-reset event
  trayLatest,    \* Shared::latest holds a sample
  trayQueue,     \* messages of the tray thread
  trayPending,   \* Shared::pending
  sampler,       \* where the sampler is in its publication
  sequence,      \* the sampler's sequence number
  box,           \* SnapshotMailbox::pending, 0 for none
  boxLocked,     \* its lock is held by the sampler
  generation,    \* SnapshotMailbox::generation
  uiHidden       \* SnapshotMailbox::ui_hidden

frameVars   == <<ui, repaint, hidden, closing, authorized, pressed, seen>>
trayVars    == <<trayState, trayStop, trayAt, trayCalls, traySignal, trayLatest, trayQueue,
                 trayPending>>
samplerVars == <<sampler, sequence, box, boxLocked, generation, uiHidden>>
windowVars  == <<frameVars, trayVars, samplerVars>>

Messages == {"Show", "Quit", "WM_QUIT"}
TrayStates == {"Starting", "Ready", "UpdateFailed", "Unavailable", "Stopped"}
-----------------------------------------------------------------------------
(* The window. *)

(* The sampler is not told that the window is back.                        *)
ShowWindowQuietly == hidden' = FALSE /\ UNCHANGED uiHidden /\ repaint' = TRUE

ShowWindow == hidden' = FALSE /\ uiHidden' = FALSE /\ repaint' = TRUE

KeepWindow == UNCHANGED <<hidden, uiHidden, repaint>>

(* The title-bar X hides the window whatever the tray says.                *)
RequestWindowCloseUnchecked ==
  IF authorized \/ closing \/ hidden
  THEN KeepWindow
  ELSE hidden' = TRUE /\ uiHidden' = TRUE /\ UNCHANGED repaint

(* Without a tray that is Ready the window stays open, with a message.     *)
RequestWindowClose ==
  IF authorized \/ closing \/ hidden
  THEN KeepWindow
  ELSE IF trayState # "Ready"
       THEN repaint' = TRUE /\ UNCHANGED <<hidden, uiHidden>>
       ELSE hidden' = TRUE /\ uiHidden' = TRUE /\ UNCHANGED repaint

(* The exit gate: an explicit Quit closes at once when nothing is unsaved, *)
(* otherwise it waits, with the window on screen.                          *)
RequestQuit ==
  IF authorized
  THEN KeepWindow /\ UNCHANGED <<closing, authorized>>
  ELSE \/ authorized' = TRUE /\ closing' = FALSE /\ KeepWindow
       \/ closing' = TRUE /\ UNCHANGED authorized
          /\ IF hidden THEN ShowWindow ELSE KeepWindow
-----------------------------------------------------------------------------
(* A frame: logic, then ui. *)

NextPhase(from, to) == ui = from /\ ui' = to

RepaintFrame == repaint /\ NextPhase("idle", "poll") /\ repaint' = FALSE
                /\ UNCHANGED <<hidden, closing, authorized, pressed, seen, trayVars, samplerVars>>

InputFrame == ~hidden /\ NextPhase("idle", "poll")
              /\ UNCHANGED <<repaint, hidden, closing, authorized, pressed, seen, trayVars,
                             samplerVars>>

TrayPoll ==
  /\ NextPhase("poll", "tray")
  /\ trayPending' = 0
  /\ CASE trayPending = 1 -> ShowWindow /\ UNCHANGED <<closing, authorized>>
       [] trayPending = 2 -> RequestQuit
       [] OTHER -> KeepWindow /\ UNCHANGED <<closing, authorized>>
  /\ UNCHANGED <<pressed, seen, trayState, trayStop, trayAt, trayCalls, traySignal, trayLatest,
                 trayQueue, sampler, sequence, box, boxLocked, generation>>

TrayCheck ==
  /\ NextPhase("tray", "hotkey")
  /\ IF hidden /\ ~authorized /\ trayState # "Ready" THEN ShowWindow ELSE KeepWindow
  /\ UNCHANGED <<closing, authorized, pressed, seen, trayVars, sampler, sequence, box,
                 boxLocked, generation>>

(* A press hides only the window that is in front.                         *)
HotkeyLogic ==
  /\ NextPhase("hotkey", "preferences")
  /\ pressed' = FALSE
  /\ IF ~pressed THEN KeepWindow
     ELSE \/ ~hidden /\ RequestWindowClose
          \/ ShowWindow
  /\ UNCHANGED <<closing, authorized, seen, trayVars, sampler, sequence, box, boxLocked,
                 generation>>

(* The title-bar X, and the exit gate once its save is done.               *)
PreferencesLogic ==
  /\ NextPhase("preferences", "generation")
  /\ \/ KeepWindow /\ UNCHANGED <<closing, authorized>>
     \/ ~hidden /\ RequestWindowClose /\ UNCHANGED <<closing, authorized>>
     \/ closing /\ authorized' = TRUE /\ closing' = FALSE /\ KeepWindow
  /\ UNCHANGED <<pressed, seen, trayVars, sampler, sequence, box, boxLocked, generation>>

(* take_after, first half: the generation is compared without the lock.    *)
ReadGeneration ==
  /\ ui = "generation"
  /\ ui' = IF generation = seen THEN "paint" ELSE "take"
  /\ UNCHANGED <<repaint, hidden, closing, authorized, pressed, seen, trayVars, samplerVars>>

(* take_after, second half: the UI never waits for the lock.               *)
TakeSnapshot ==
  /\ NextPhase("take", "paint")
  /\ IF boxLocked \/ box \in {0, seen}
     THEN UNCHANGED <<seen, box>>
     ELSE seen' = box /\ box' = 0
  /\ UNCHANGED <<repaint, hidden, closing, authorized, pressed, trayVars, sampler, sequence,
                 boxLocked, generation, uiHidden>>

(* ui: nothing for a hidden window; About > Quit and the close dialog.     *)
Paint ==
  /\ NextPhase("paint", "idle")
  /\ \/ KeepWindow /\ UNCHANGED <<closing, authorized>>
     \/ ~hidden /\ RequestQuit
     \/ ~hidden /\ closing /\ closing' = FALSE /\ KeepWindow /\ authorized' \in BOOLEAN
  /\ UNCHANGED <<pressed, seen, trayVars, sampler, sequence, box, boxLocked, generation>>

(* The frame after an authorized close ends the application: the tray      *)
(* controller stops its worker, the sampler is told to stop.               *)
CloseApp ==
  /\ authorized /\ NextPhase("idle", "closed")
  /\ trayStop' = TRUE /\ traySignal' = TRUE
  /\ UNCHANGED <<repaint, hidden, closing, authorized, pressed, seen, trayState, trayAt,
                 trayCalls, trayLatest, trayQueue, trayPending, samplerVars>>

HotkeyPress ==
  /\ ~pressed /\ ui # "closed"
  /\ pressed' = TRUE /\ repaint' = TRUE
  /\ UNCHANGED <<ui, hidden, closing, authorized, seen, trayVars, samplerVars>>

FrameStep == RepaintFrame \/ TrayPoll \/ TrayCheck \/ HotkeyLogic \/ PreferencesLogic
             \/ ReadGeneration \/ TakeSnapshot \/ Paint \/ CloseApp
-----------------------------------------------------------------------------
(* The tray worker. *)

WorkerAt(from) == trayAt = from /\ ~trayCalls

(* set_state asks for a frame only when the state changed.                 *)
SetState(state) == trayState' = state /\ trayCalls' = (state # trayState)

(* ExitState::drop, however the worker ends.                               *)
Leave == trayAt' = "ended" /\ trayStop' = TRUE
         /\ SetState(IF trayStop THEN "Stopped" ELSE "Unavailable")

Announce ==
  /\ trayCalls
  /\ trayCalls' = FALSE /\ repaint' = TRUE
  /\ UNCHANGED <<ui, hidden, closing, authorized, pressed, seen, trayState, trayStop, trayAt,
                 traySignal, trayLatest, trayQueue, trayPending, samplerVars>>

CreateTray ==
  /\ WorkerAt("creating")
  /\ \/ Leave
     \/ ~trayStop /\ trayAt' = "created" /\ UNCHANGED <<trayStop, trayState, trayCalls>>
  /\ UNCHANGED <<frameVars, traySignal, trayLatest, trayQueue, trayPending, samplerVars>>

(* A close that raced a slow constructor destroys its late result.         *)
TrayCreated ==
  /\ WorkerAt("created")
  /\ IF trayStop THEN Leave ELSE trayAt' = "loop" /\ SetState("Ready") /\ UNCHANGED trayStop
  /\ UNCHANGED <<frameVars, traySignal, trayLatest, trayQueue, trayPending, samplerVars>>

TrayLoop ==
  /\ WorkerAt("loop")
  /\ IF trayStop THEN Leave
     ELSE trayAt' = "waiting" /\ UNCHANGED <<trayStop, trayState, trayCalls>>
  /\ UNCHANGED <<frameVars, traySignal, trayLatest, trayQueue, trayPending, samplerVars>>

(* One sleep for the event and for native messages; the event resets when  *)
(* it is the one that ended the wait.                                      *)
Wake ==
  /\ WorkerAt("waiting")
  /\ \/ traySignal /\ traySignal' = FALSE
     \/ trayQueue # <<>> /\ UNCHANGED traySignal
  /\ IF trayStop THEN Leave /\ UNCHANGED trayLatest
     ELSE /\ trayAt' = IF trayLatest THEN "updating" ELSE "draining"
          /\ trayLatest' = FALSE
          /\ UNCHANGED <<trayStop, trayState, trayCalls>>
  /\ UNCHANGED <<frameVars, trayQueue, trayPending, samplerVars>>

WaitFails ==
  /\ WorkerAt("waiting") /\ Leave
  /\ UNCHANGED <<frameVars, traySignal, trayLatest, trayQueue, trayPending, samplerVars>>

UpdateTray ==
  /\ WorkerAt("updating")
  /\ trayAt' = "draining"
  /\ \E succeeded \in BOOLEAN : SetState(IF succeeded THEN "Ready" ELSE "UpdateFailed")
  /\ UNCHANGED <<frameVars, trayStop, traySignal, trayLatest, trayQueue, trayPending,
                 samplerVars>>

(* A plain store: the last click wins.                                     *)
QueueActionStore(message) == trayPending' = IF message = "Quit" THEN 2 ELSE 1

(* The handler of a menu or click message: queue_action, then a repaint.   *)
(* A later Show must not swallow an explicit Quit: fetch_max.              *)
QueueAction(message) ==
  LET code == IF message = "Quit" THEN 2 ELSE 1
  IN  trayPending' = IF code > trayPending THEN code ELSE trayPending

Drain ==
  /\ WorkerAt("draining")
  /\ IF trayStop
     THEN Leave /\ UNCHANGED <<trayQueue, trayPending>>
     ELSE IF trayQueue = <<>>
     THEN trayAt' = "loop" /\ UNCHANGED <<trayQueue, trayPending, trayStop, trayState, trayCalls>>
     ELSE /\ trayQueue' = Tail(trayQueue)
          /\ CASE Head(trayQueue) = "WM_QUIT" -> Leave /\ UNCHANGED trayPending
               [] OTHER -> /\ QueueAction(Head(trayQueue))
                           /\ trayCalls' = TRUE
                           /\ UNCHANGED <<trayAt, trayStop, trayState>>
  /\ UNCHANGED <<frameVars, traySignal, trayLatest, samplerVars>>

(* The shell posts a message to the icon while it exists.                  *)
Click ==
  /\ trayAt \notin {"creating", "ended"} /\ Len(trayQueue) < MaxMessages
  /\ \E message \in Messages : trayQueue' = Append(trayQueue, message)
  /\ UNCHANGED <<frameVars, trayState, trayStop, trayAt, trayCalls, traySignal, trayLatest,
                 trayPending, samplerVars>>

TrayStep == Announce \/ CreateTray \/ TrayCreated \/ TrayLoop \/ Wake \/ UpdateTray \/ Drain
-----------------------------------------------------------------------------
(* The sampler publishes to the tray and then to the UI. *)

SamplerTo(from, to) == sampler = from /\ sampler' = to

PublishToTray ==
  /\ sequence < LastSample /\ ui # "closed"
  /\ SamplerTo("idle", "locking")
  /\ sequence' = sequence + 1
  /\ IF trayStop THEN UNCHANGED <<trayLatest, traySignal>>
                 ELSE trayLatest' = TRUE /\ traySignal' = TRUE
  /\ UNCHANGED <<frameVars, trayState, trayStop, trayAt, trayCalls, trayQueue, trayPending,
                 box, boxLocked, generation, uiHidden>>

ReplaceSnapshot ==
  /\ SamplerTo("locking", "storing")
  /\ boxLocked' = TRUE /\ box' = sequence
  /\ UNCHANGED <<frameVars, trayVars, sequence, generation, uiHidden>>

StoreGeneration ==
  /\ SamplerTo("storing", "unlocking")
  /\ generation' = sequence
  /\ UNCHANGED <<frameVars, trayVars, sequence, box, boxLocked, uiHidden>>

UnlockMailbox ==
  /\ SamplerTo("unlocking", "waking")
  /\ boxLocked' = FALSE
  /\ UNCHANGED <<frameVars, trayVars, sequence, box, generation, uiHidden>>

(* publish_to_ui wakes the UI only while it is not hidden.                 *)
WakeUi ==
  /\ SamplerTo("waking", "idle")
  /\ repaint' = (repaint \/ ~uiHidden)
  /\ UNCHANGED <<ui, hidden, closing, authorized, pressed, seen, trayVars, sequence, box,
                 boxLocked, generation, uiHidden>>

SamplerStep == PublishToTray \/ ReplaceSnapshot \/ StoreGeneration
               \/ UnlockMailbox \/ WakeUi
-----------------------------------------------------------------------------
WindowInit ==
  /\ ui = "idle" /\ repaint = TRUE /\ hidden = FALSE /\ closing = FALSE /\ authorized = FALSE
  /\ pressed = FALSE /\ seen = 0
  /\ trayState = "Starting" /\ trayStop = FALSE /\ trayAt = "creating" /\ trayCalls = FALSE
  /\ traySignal = FALSE /\ trayLatest = FALSE /\ trayQueue = <<>> /\ trayPending = 0
  /\ sampler = "idle" /\ sequence = 0 /\ box = 0 /\ boxLocked = FALSE /\ generation = 0
  /\ uiHidden = FALSE

WindowNext == FrameStep \/ InputFrame \/ HotkeyPress \/ TrayStep \/ WaitFails \/ Click
              \/ SamplerStep

(* A requested frame is drawn, the worker and the sampler run while they   *)
(* can.  Clicks, presses, input and failures of the shell may never come.  *)
WindowFairness == WF_windowVars(FrameStep) /\ WF_windowVars(TrayStep) /\ WF_windowVars(SamplerStep)

WindowSpec == WindowInit /\ [][WindowNext]_windowVars /\ WindowFairness
-----------------------------------------------------------------------------
(* A window hidden in a tray that is no longer Ready cannot be reached by  *)
(* the user: whenever that is so, the frame that shows it again is already *)
(* under way (app/window.rs:49-61, tray/native/worker.rs:41-45).           *)
NeverStranded ==
  hidden /\ ~authorized /\ trayState # "Ready"
    => repaint \/ trayCalls \/ ui \in {"poll", "tray"}

(* Whatever frames and locks the publication of a snapshot meets, a window *)
(* on screen comes to show it or a newer one (sampler.rs:105-139).         *)
NewestIsShown ==
  \A n \in 1 .. LastSample :
    (generation >= n /\ ~hidden) ~> (seen >= n \/ hidden \/ ui = "closed")

(* An explicit Quit taken from the menu reaches the UI as a Quit even when *)
(* the icon is clicked again before the next frame (tray.rs:8-17).         *)
QuitIsHeard == trayPending = 2 ~> closing \/ authorized
=============================================================================

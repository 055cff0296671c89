---------------------------- MODULE WindowProofs ----------------------------
(***************************************************************************)
(* However long the tray's queue gets, however many snapshots come, and    *)
(* whenever the tray worker fails: a window hidden without a tray is on    *)
(* its way back.  And whenever devices fail, however many textures there   *)
(* are and whatever each frame does to them: the suspension ends exactly   *)
(* with the recovery, a drawn frame has every texture, and the attempts    *)
(* stay apart.  For any chords and any number of exports: what the panels  *)
(* say of the chord and of the exported file is so.  And for any samples,  *)
(* in any number and of any age: the figures of a process row are of one   *)
(* process and one interval, a view says how old its sample is, and what   *)
(* a chart calls live was measured.  And however many programs append to   *)
(* one failure log, and wherever they are cut short: it is read back as    *)
(* the newest records written to it.                                       *)
(***************************************************************************)
EXTENDS TrayWindow, GraphicsRecovery, Hotkey, Exporter, Inventory, ProcessSampling,
        GraphHistory, FailureLog, TLAPS, FiniteSetTheorems, WellFoundedInduction,
        SequenceTheorems

\* A step that leaves all that NeverStranded looks at alone.
LEMMA Aside ==
    ASSUME NeverStranded, ui \notin {"poll", "tray"},
           UNCHANGED <<hidden, authorized, trayState, trayCalls, repaint>>
    PROVE  NeverStranded'
BY DEF NeverStranded

\* A title-bar X, or a press that hides, hides only into a tray that is Ready.
LEMMA CloseIsSafe ==
    ASSUME NeverStranded, RequestWindowClose, ui \notin {"poll", "tray"},
           UNCHANGED <<authorized, trayState, trayCalls>>
    PROVE  NeverStranded'
BY DEF NeverStranded, RequestWindowClose, KeepWindow

\* A frame ends with the window shown, or with a tray to get it back from.
LEMMA FrameIsSafe ==
    ASSUME NeverStranded, FrameStep \/ InputFrame \/ HotkeyPress
    PROVE  NeverStranded'
<1>1. CASE RepaintFrame \/ InputFrame \/ HotkeyPress \/ CloseApp
  BY <1>1 DEF NeverStranded, RepaintFrame, InputFrame, HotkeyPress, CloseApp, NextPhase
<1>2. CASE TrayPoll
  BY <1>2 DEF NeverStranded, TrayPoll, NextPhase
<1>3. CASE TrayCheck
  BY <1>3 DEF NeverStranded, TrayCheck, NextPhase, ShowWindow, KeepWindow, trayVars
<1>4. CASE HotkeyLogic
  <2>1. ui \notin {"poll", "tray"} /\ UNCHANGED <<authorized, trayState, trayCalls>>
    BY <1>4 DEF HotkeyLogic, NextPhase, trayVars
  <2>2. KeepWindow \/ RequestWindowClose \/ ShowWindow
    BY <1>4 DEF HotkeyLogic
  <2> QED  BY <2>1, <2>2, CloseIsSafe DEF NeverStranded, KeepWindow, ShowWindow
<1>5. CASE PreferencesLogic
  <2>1. ui \notin {"poll", "tray"} /\ UNCHANGED <<trayState, trayCalls>>
    BY <1>5 DEF PreferencesLogic, NextPhase, trayVars
  <2>2. \/ KeepWindow /\ UNCHANGED authorized
        \/ RequestWindowClose /\ UNCHANGED authorized
        \/ authorized'
    BY <1>5 DEF PreferencesLogic
  <2> QED  BY <2>1, <2>2, CloseIsSafe DEF NeverStranded, KeepWindow
<1>6. CASE ReadGeneration \/ TakeSnapshot
  BY <1>6, Aside DEF ReadGeneration, TakeSnapshot, NextPhase, trayVars
<1>7. CASE Paint
  <2>1. ui \notin {"poll", "tray"} /\ UNCHANGED <<trayState, trayCalls>>
    BY <1>7 DEF Paint, NextPhase, trayVars
  <2>2. CASE KeepWindow /\ UNCHANGED authorized
    BY <2>1, <2>2, Aside DEF KeepWindow
  <2>3. CASE ~hidden /\ RequestQuit
    BY <2>1, <2>3 DEF NeverStranded, RequestQuit, KeepWindow, ShowWindow
  <2>4. CASE ~hidden /\ KeepWindow
    BY <2>1, <2>4 DEF NeverStranded, KeepWindow
  <2> QED  BY <1>7, <2>2, <2>3, <2>4 DEF Paint
<1> QED  BY <1>1, <1>2, <1>3, <1>4, <1>5, <1>6, <1>7 DEF FrameStep

\* A tray that stops being Ready asks for a frame.
LEMMA StateIsAnnounced ==
    ASSUME NeverStranded, ~trayCalls, NEW state, SetState(state),
           UNCHANGED frameVars
    PROVE  NeverStranded'
BY DEF NeverStranded, SetState, frameVars

LEMMA LeaveIsAnnounced ==
    ASSUME NeverStranded, ~trayCalls, Leave, UNCHANGED frameVars
    PROVE  NeverStranded'
BY StateIsAnnounced DEF Leave

LEMMA TrayIsSafe ==
    ASSUME NeverStranded, TrayStep \/ WaitFails \/ Click
    PROVE  NeverStranded'
<1>1. CASE Announce \/ Click
  BY <1>1 DEF Announce, Click, NeverStranded, frameVars
<1>2. CASE CreateTray \/ TrayCreated \/ TrayLoop \/ Wake \/ UpdateTray \/ WaitFails
  <2>1. ~trayCalls /\ UNCHANGED frameVars
    BY <1>2 DEF CreateTray, TrayCreated, TrayLoop, Wake, UpdateTray, WaitFails, WorkerAt
  <2>2. \/ Leave
        \/ \E state \in TrayStates : SetState(state)
        \/ UNCHANGED <<trayState, trayCalls>>
    BY <1>2 DEF CreateTray, TrayCreated, TrayLoop, Wake, UpdateTray, WaitFails, TrayStates
  <2> QED  BY <2>1, <2>2, LeaveIsAnnounced, StateIsAnnounced DEF NeverStranded, frameVars
<1>3. CASE Drain
  <2>1. ~trayCalls /\ UNCHANGED frameVars
    BY <1>3 DEF Drain, WorkerAt
  <2>2. Leave \/ UNCHANGED <<trayState, trayCalls>> \/ trayCalls'
    BY <1>3 DEF Drain
  <2> QED  BY <2>1, <2>2, LeaveIsAnnounced DEF NeverStranded, frameVars
<1> QED  BY <1>1, <1>2, <1>3 DEF TrayStep

\* The sampler takes back no request for a frame.
LEMMA SamplerIsSafe == ASSUME NeverStranded, SamplerStep PROVE NeverStranded'
BY DEF NeverStranded, SamplerStep, PublishToTray, ReplaceSnapshot, StoreGeneration,
       UnlockMailbox, WakeUi, frameVars, trayVars

(* Whenever the tray worker fails, no window stays hidden in a tray that is  *)
(* not Ready without the frame that shows it again being under way           *)
(* (app/window.rs, tray/native/worker.rs).                                   *)
THEOREM HiddenWindowReturns == WindowSpec => []NeverStranded
<1>1. WindowInit => NeverStranded
  BY DEF WindowInit, NeverStranded
<1>2. NeverStranded /\ UNCHANGED windowVars => NeverStranded'
  BY DEF NeverStranded, windowVars, frameVars, trayVars, samplerVars
<1>3. NeverStranded /\ [WindowNext]_windowVars => NeverStranded'
  BY <1>2, FrameIsSafe, TrayIsSafe, SamplerIsSafe DEF WindowNext
<1> QED  BY <1>1, <1>3, PTL DEF WindowSpec
-----------------------------------------------------------------------------
(* The recovery of the graphics device *)


\* The three flags the suspension depends on.
FlagsOK == lost \in BOOLEAN /\ needsPresent \in BOOLEAN /\ recovering \in BOOLEAN

CauseInv == FlagsOK /\ SuspendedForCause

\* A report suspends the controls, if they are not already.
LEMMA ReportSuspends == ASSUME CauseInv, ReportLoss PROVE lost' = TRUE /\ recovering' = TRUE
<1>1. recovering \/ ~lost
  BY DEF CauseInv, SuspendedForCause
<1> QED  BY <1>1 DEF ReportLoss

\* Flags that are what they were stay in agreement.
LEMMA SameFlags ==
    ASSUME CauseInv, lost' = lost, needsPresent' = needsPresent, recovering' = recovering
    PROVE  CauseInv'
BY DEF CauseInv, FlagsOK, SuspendedForCause

\* Suspended, with a device lost or its successor still to present a frame.
LEMMA Suspended ==
    ASSUME lost' \in BOOLEAN, needsPresent' \in BOOLEAN, recovering' = TRUE,
           lost' = TRUE \/ needsPresent' = TRUE
    PROVE  CauseInv'
BY DEF CauseInv, FlagsOK, SuspendedForCause

\* A step keeps the flags in agreement.
LEMMA CauseStep == CauseInv /\ [GraphicsNext]_graphicsVars => CauseInv'
<1> SUFFICES ASSUME CauseInv, [GraphicsNext]_graphicsVars PROVE CauseInv'
    OBVIOUS
<1>1. CASE DeviceFails
  <2>1. CASE ReportLoss /\ needsPresent' = needsPresent
    BY <2>1, ReportSuspends, Suspended DEF CauseInv, FlagsOK
  <2> QED  BY <1>1, <2>1, SameFlags DEF DeviceFails
<1>2. CASE SecondPasses \/ AttemptEnds \/ RecreateSurface \/ Acquire
  BY <1>2, SameFlags DEF SecondPasses, AttemptEnds, RecreateSurface, Acquire, recoveryVars
<1>3. CASE BeginPaint
  <2>1. CASE UNCHANGED recoveryVars
    BY <2>1, SameFlags DEF recoveryVars
  <2>2. CASE lost /\ Adopt /\ needsPresent' = TRUE
    <3>1. recovering = TRUE
      BY <2>2 DEF CauseInv, FlagsOK, SuspendedForCause
    <3> QED  BY <2>2, <3>1, Suspended DEF Adopt
  <2>3. CASE lost /\ (BackOff \/ StartAttempt) /\ needsPresent' = needsPresent
    <3>1. lost' = TRUE /\ recovering' = TRUE
      BY <2>3 DEF CauseInv, FlagsOK, BackOff, StartAttempt
    <3> QED  BY <2>3, <3>1, Suspended DEF CauseInv, FlagsOK
  <2>4. CASE KeepWaiting /\ needsPresent' = needsPresent
    BY <2>4, SameFlags DEF KeepWaiting
  <2> QED  BY <1>3, <2>1, <2>2, <2>3, <2>4 DEF BeginPaint
<1>4. CASE Upload
  <2>1. CASE ReportLoss /\ needsPresent' = needsPresent
    BY <2>1, ReportSuspends, Suspended DEF CauseInv, FlagsOK
  <2> QED  BY <1>4, <2>1, SameFlags DEF Upload, recoveryVars
<1>5. CASE DrawAndPresent
  <2>1. CASE Presented
    BY <1>5, <2>1 DEF DrawAndPresent, Presented, CauseInv, FlagsOK, SuspendedForCause
  <2> QED  BY <1>5, <2>1, SameFlags DEF DrawAndPresent
<1>6. CASE UNCHANGED graphicsVars
  BY <1>6, SameFlags DEF graphicsVars, recoveryVars
<1> QED  BY <1>1, <1>2, <1>3, <1>4, <1>5, <1>6 DEF GraphicsNext

(* The controls are suspended from the first report of a loss until a frame  *)
(* of the new device is on screen, and at no other time (recovery.rs,        *)
(* winit.rs, main.rs).                                                       *)
THEOREM SuspensionHasACause == GraphicsSpec => []SuspendedForCause
<1>1. GraphicsInit => CauseInv
  BY DEF GraphicsInit, CauseInv, FlagsOK, SuspendedForCause
<1>2. CauseInv => SuspendedForCause
  BY DEF CauseInv
<1> QED  BY <1>1, <1>2, CauseStep, PTL DEF GraphicsSpec
-----------------------------------------------------------------------------
(* The textures *)

\* A renderer without a debt: its textures are those the frame uses.
Complete == \A t \in Textures : wanted[t] # Absent => gpu[t] = wanted[t]

\* Between frames a freed texture may linger; before the upload the frame's own
\* update is to come.
UpToDate ==
    /\ paintStep = "idle" =>
         \A t \in Textures \ delta.free : wanted[t] # Absent => gpu[t] = wanted[t]
    /\ paintStep \in {"surface", "upload"} =>
         \A t \in Textures : wanted[t] # Absent => Updated(gpu, delta.set)[t] = wanted[t]
    /\ paintStep \in {"acquire", "draw"} => Complete

\* The updates egui may send.
AnySet == {NoSet} \cup [id : Textures, part : {"whole", "half"}, content : Contents]

LEMMA SetsAreUpdates == Sets \subseteq AnySet
BY DEF Sets, AnySet

PictureInv ==
    /\ delta.set \in AnySet
    /\ wanted \in [Textures -> Images] /\ gpu \in [Textures -> Images]
    /\ mirror = wanted /\ retired = delta.free
    /\ lost => device = "failed"
    /\ replay => paintStep \in {"idle", "surface", "upload"}
    /\ lost \/ replay \/ UpToDate

\* An update keeps textures textures.
LEMMA UpdatedType ==
    ASSUME NEW images \in [Textures -> Images], NEW set \in AnySet
    PROVE  Updated(images, set) \in [Textures -> Images]
<1> SUFFICES ASSUME NEW t \in Textures PROVE Updated(images, set)[t] \in Images
    BY DEF Updated
<1>1. CASE t # set.id
  BY <1>1 DEF Updated
<1>2. CASE t = set.id
  <2>1. set.content \in Contents /\ set.part \in {"whole", "half"}
    BY <1>2, GraphicsAssumption DEF AnySet, NoSet
  <2>2. images[t] = Absent \/ images[t][1] \in Contents
    BY DEF Images
  <2> QED  BY <1>2, <2>1, <2>2 DEF Updated, Images
<1> QED  BY <1>1, <1>2

LEMMA WithoutType ==
    ASSUME NEW images \in [Textures -> Images], NEW ids
    PROVE  Without(images, ids) \in [Textures -> Images]
BY DEF Without, Images

\* What the application means after its update, the renderer has after the same
\* update, if it had the rest.
LEMMA SameUpdate ==
    ASSUME wanted \in [Textures -> Images], gpu \in [Textures -> Images],
           \A t \in Textures \ delta.free : wanted[t] # Absent => gpu[t] = wanted[t],
           NEW set \in Sets, NEW t \in Textures,
           Updated(Without(wanted, delta.free), set)[t] # Absent
    PROVE  Updated(gpu, set)[t] = Updated(Without(wanted, delta.free), set)[t]
<1> DEFINE rest == Without(wanted, delta.free)
<1>1. rest[t] = IF t \in delta.free THEN Absent ELSE wanted[t]
  BY DEF Without
<1>2. CASE t # set.id
  BY <1>1, <1>2 DEF Updated
<1>3. CASE t = set.id /\ set.part = "whole"
  BY <1>3 DEF Updated
<1>4. CASE t = set.id /\ set.part # "whole"
  <2>1. rest[t] # Absent
    BY <1>4 DEF Updated
  <2>2. gpu[t] = rest[t]
    BY <1>1, <2>1
  <2> QED  BY <1>4, <2>1, <2>2 DEF Updated
<1> QED  BY <1>2, <1>3, <1>4

\* Steps that leave textures, device and frame where they were.
LEMMA SamePicture ==
    ASSUME PictureInv, UNCHANGED <<textureVars, paintStep, lost, device>>
    PROVE  PictureInv'
BY DEF PictureInv, UpToDate, Complete, Updated, textureVars

\* A step leaves the renderer complete, or in debt.
LEMMA PictureStep == PictureInv /\ [GraphicsNext]_graphicsVars => PictureInv'
<1> SUFFICES ASSUME PictureInv, [GraphicsNext]_graphicsVars PROVE PictureInv'
    OBVIOUS
<1>1. CASE DeviceFails
  BY <1>1 DEF DeviceFails, ReportLoss, PictureInv, UpToDate, Complete, Updated, textureVars
<1>2. CASE SecondPasses \/ AttemptEnds
  BY <1>2, SamePicture DEF SecondPasses, AttemptEnds
<1>3. CASE BeginPaint
  <2>1. PICK set \in Sets : \E free \in SUBSET Textures :
           /\ delta' = [set |-> set, free |-> free]
           /\ wanted' = Updated(Without(wanted, delta.free), set)
           /\ Apply(set, free)
    BY <1>3 DEF BeginPaint
  <2>2. wanted' \in [Textures -> Images] /\ mirror' = wanted' /\ retired' = delta'.free
    BY <2>1, SetsAreUpdates, UpdatedType, WithoutType DEF PictureInv, Apply
  <2>3. delta'.set = set /\ delta'.set \in AnySet
    BY <2>1, SetsAreUpdates
  <2>4. CASE ~lost /\ paintStep' = "surface" /\ UNCHANGED <<device, lost, replay, gpu>>
    <3>1. replay \/ \A t \in Textures \ delta.free : wanted[t] # Absent => gpu[t] = wanted[t]
      BY <1>3, <2>4 DEF PictureInv, UpToDate, BeginPaint
    <3>2. replay \/ \A t \in Textures : wanted'[t] # Absent => Updated(gpu, set)[t] = wanted'[t]
      BY <2>1, <3>1, SameUpdate DEF PictureInv
    <3>3. replay' \/ UpToDate'
      BY <2>1, <2>3, <2>4, <3>2 DEF UpToDate, Updated
    <3> QED  BY <2>2, <2>4, <3>3, <2>3 DEF PictureInv
  <2>5. CASE /\ Adopt /\ paintStep' = "surface" /\ replay' = TRUE
             /\ gpu' = [t \in Textures |-> Absent]
    BY <2>2, <2>5, <2>3 DEF PictureInv, Adopt, Images
  <2>6. CASE lost /\ paintStep' = "idle" /\ UNCHANGED <<device, lost, replay, gpu>>
    BY <2>2, <2>6, <2>3 DEF PictureInv
  <2> QED  BY <1>3, <2>4, <2>5, <2>6
      DEF BeginPaint, BackOff, StartAttempt, KeepWaiting, GiveUpFrame, recoveryVars
<1>4. CASE RecreateSurface
  BY <1>4 DEF RecreateSurface, GiveUpFrame, PictureInv, UpToDate, Updated, recoveryVars
<1>5. CASE Upload
  <2>1. gpu' \in [Textures -> Images]
    BY <1>5, UpdatedType DEF Upload, PictureInv
  <2>2. ~lost => Complete'
    BY <1>5 DEF Upload, PictureInv, UpToDate, Complete
  <2> QED  BY <1>5, <2>1, <2>2
      DEF Upload, ReportLoss, GiveUpFrame, PictureInv, UpToDate, Complete, recoveryVars
<1>6. CASE Acquire
  BY <1>6 DEF Acquire, GiveUpFrame, PictureInv, UpToDate, Complete, recoveryVars, textureVars
<1>7. CASE DrawAndPresent
  <2>1. gpu' \in [Textures -> Images]
    BY <1>7, WithoutType DEF DrawAndPresent, PictureInv
  <2>2. \A t \in Textures \ delta.free : gpu'[t] = gpu[t]
    BY <1>7 DEF DrawAndPresent, Without
  <2> QED  BY <1>7, <2>1, <2>2 DEF DrawAndPresent, GiveUpFrame, PictureInv, UpToDate, Complete
<1>8. CASE UNCHANGED graphicsVars
  BY <1>8, SamePicture DEF graphicsVars, recoveryVars
<1> QED  BY <1>1, <1>2, <1>3, <1>4, <1>5, <1>6, <1>7, <1>8 DEF GraphicsNext
-----------------------------------------------------------------------------
(* The attempts *)

\* The waits that are doubled, up to the bound.
LEMMA LongestIsLong == Longest \in Nat /\ Longest >= 2
<1>1. 2^1 = 2 /\ 2^2 = 4 /\ 2^3 = 8 /\ 2^4 = 16 /\ 2^5 = 32
  OBVIOUS
<1>2. MaxFailures = 1 \/ MaxFailures = 2 \/ MaxFailures = 3 \/ MaxFailures = 4 \/ MaxFailures = 5
  BY GraphicsAssumption
<1>3. Longest \in {2, 4, 8, 16, 32}
  BY <1>1, <1>2 DEF Longest
<1> QED  BY <1>3

LEMMA Doubled ==
    \A n \in 0 .. MaxFailures : 2 ^ n \in Nat /\ 2 ^ n >= 1 /\ 2 ^ n <= Longest
<1> DEFINE Power(n) == IF n = 0 THEN 1 ELSE IF n = 1 THEN 2 ELSE IF n = 2 THEN 4
                       ELSE IF n = 3 THEN 8 ELSE IF n = 4 THEN 16 ELSE 32
<1>1. 2^0 = 1 /\ 2^1 = 2 /\ 2^2 = 4 /\ 2^3 = 8 /\ 2^4 = 16 /\ 2^5 = 32
  OBVIOUS
<1>2. ASSUME NEW n \in 0 .. 5 PROVE 2 ^ n = Power(n)
  <2>1. n = 0 \/ n = 1 \/ n = 2 \/ n = 3 \/ n = 4 \/ n = 5
    OBVIOUS
  <2> QED  BY <1>1, <2>1
<1> HIDE DEF Power
<1>3. Longest = Power(MaxFailures)
  <2>1. MaxFailures \in 0 .. 5
    BY GraphicsAssumption
  <2> QED  BY <1>2, <2>1 DEF Longest
<1>4. ASSUME NEW n \in 0 .. MaxFailures
      PROVE  Power(n) \in Nat /\ Power(n) >= 1 /\ Power(n) <= Power(MaxFailures)
  BY GraphicsAssumption DEF Power
<1>5. \A n \in 0 .. MaxFailures : 2 ^ n = Power(n)
  <2>1. 0 .. MaxFailures \subseteq 0 .. 5
    BY GraphicsAssumption
  <2> QED  BY <1>2, <2>1
<1> QED  BY <1>3, <1>4, <1>5

\* A second shortens the wait and lengthens what has passed, up to the longest.
LEMMA OneLater ==
    ASSUME NEW long \in Nat, NEW due \in Nat, due <= long,
           NEW w \in Nat, NEW wNext \in Nat, wNext = w - 1 \/ (w = 0 /\ wNext = 0),
           NEW s \in Nat, NEW sNext \in Nat, sNext = s + 1 \/ sNext = long, sNext >= s,
           s + w >= due
    PROVE  sNext + wNext >= due
OBVIOUS

PaceInv ==
    /\ refusals \in 0 .. MaxFailures /\ wait \in Nat
    /\ sinceStart \in 0 .. Longest /\ sinceRefusal \in 0 .. Longest
    /\ sinceStart + wait >= 1
    /\ refusals > 0 => sinceRefusal + wait >= 2 ^ refusals

\* The clocks of the attempts stand still.
LEMMA SamePace ==
    ASSUME PaceInv, UNCHANGED <<refusals, wait, sinceStart, sinceRefusal>>
    PROVE  PaceInv'
BY DEF PaceInv

\* A wait that runs out leaves its length behind.
LEMMA PaceStep == PaceInv /\ [GraphicsNext]_graphicsVars => PaceInv'
<1> SUFFICES ASSUME PaceInv, [GraphicsNext]_graphicsVars PROVE PaceInv'
    OBVIOUS
<1>1. CASE SecondPasses
  <2>1. UNCHANGED refusals /\ wait' = OneLess(wait)
        /\ sinceStart' = OneMore(sinceStart) /\ sinceRefusal' = OneMore(sinceRefusal)
    BY <1>1 DEF SecondPasses
  <2>2. wait' \in Nat /\ (wait' = wait - 1 \/ (wait = 0 /\ wait' = 0))
    BY <2>1 DEF PaceInv, OneLess
  <2>3. sinceStart' \in 0 .. Longest /\ (sinceStart' = sinceStart + 1 \/ sinceStart' = Longest)
        /\ sinceStart' >= sinceStart
    BY <2>1, LongestIsLong DEF PaceInv, OneMore
  <2>4. sinceRefusal' \in 0 .. Longest
        /\ (sinceRefusal' = sinceRefusal + 1 \/ sinceRefusal' = Longest)
        /\ sinceRefusal' >= sinceRefusal
    BY <2>1, LongestIsLong DEF PaceInv, OneMore
  <2>5. sinceStart' + wait' >= 1
    <3>1. wait \in Nat /\ sinceStart \in Nat /\ sinceStart + wait >= 1
      BY LongestIsLong DEF PaceInv
    <3>2. sinceStart' \in Nat /\ 1 <= Longest
      BY <2>3, LongestIsLong
    <3> QED  BY <2>2, <2>3, <3>1, <3>2, LongestIsLong, OneLater
  <2>6. refusals > 0 => sinceRefusal' + wait' >= 2 ^ refusals
    <3> DEFINE due == 2 ^ refusals
    <3>1. due \in Nat /\ due <= Longest
      BY Doubled DEF PaceInv
    <3>2. wait \in Nat /\ sinceRefusal \in Nat /\ (refusals > 0 => sinceRefusal + wait >= due)
      BY LongestIsLong DEF PaceInv
    <3>3. sinceRefusal' \in Nat
      BY <2>4, LongestIsLong
    <3> HIDE DEF due
    <3>4. refusals > 0 => sinceRefusal' + wait' >= due
      BY <2>2, <2>4, <3>1, <3>2, <3>3, LongestIsLong, OneLater
    <3> QED  BY <3>4 DEF due
  <2> QED  BY <2>1, <2>2, <2>3, <2>4, <2>5, <2>6 DEF PaceInv
<1>2. CASE DeviceFails \/ AttemptEnds \/ RecreateSurface \/ Upload \/ Acquire \/ DrawAndPresent
  BY <1>2, SamePace DEF DeviceFails, AttemptEnds, RecreateSurface, Upload, Acquire,
     DrawAndPresent, recoveryVars
<1>3. CASE BeginPaint
  <2>1. CASE UNCHANGED recoveryVars \/ KeepWaiting
    BY <2>1, SamePace DEF recoveryVars, KeepWaiting
  <2>2. CASE Adopt
    BY <2>2, GraphicsAssumption DEF Adopt, PaceInv
  <2>3. CASE BackOff
    <3>1. refusals' \in 0 .. MaxFailures
      BY <2>3, GraphicsAssumption DEF BackOff, PaceInv
    <3>2. wait' = 2 ^ refusals' /\ sinceRefusal' = 0 /\ sinceStart' = sinceStart
      BY <2>3 DEF BackOff
    <3>3. 2 ^ refusals' \in Nat /\ 2 ^ refusals' >= 1
      BY <3>1, Doubled
    <3>4. sinceStart' \in 0 .. Longest /\ sinceRefusal' \in 0 .. Longest
      BY <3>2, LongestIsLong DEF PaceInv
    <3>5. wait' \in Nat /\ sinceStart' + wait' >= 1 /\ sinceRefusal' + wait' >= 2 ^ refusals'
      BY <3>2, <3>3 DEF PaceInv
    <3> QED  BY <3>1, <3>4, <3>5 DEF PaceInv
  <2>4. CASE StartAttempt
    <3>1. wait = 0 /\ UNCHANGED <<refusals, sinceRefusal>>
      BY <2>4 DEF StartAttempt
    <3>2. (wait' = 1 \/ wait' = 5) /\ (sinceStart' = 0 \/ sinceStart' = sinceStart)
      BY <2>4 DEF StartAttempt
    <3>3. sinceStart' \in 0 .. Longest /\ wait' \in Nat /\ sinceStart' + wait' >= 1
      <4>1. sinceStart \in 0 .. Longest /\ sinceStart \in Nat /\ 0 \in 0 .. Longest
        BY LongestIsLong DEF PaceInv
      <4>2. sinceStart' \in 0 .. Longest /\ sinceStart' \in Nat
        BY <3>2, <4>1
      <4> QED  BY <3>2, <4>2
    <3>4. ASSUME refusals > 0 PROVE sinceRefusal' + wait' >= 2 ^ refusals'
      <4> DEFINE due == 2 ^ refusals
      <4>1. due \in Nat /\ sinceRefusal >= due /\ 2 ^ refusals' = due
        BY <3>1, <3>4, Doubled DEF PaceInv
      <4>2. sinceRefusal \in 0 .. Longest
        BY DEF PaceInv
      <4> HIDE DEF due
      <4> QED  BY <3>1, <3>2, <4>1, <4>2, LongestIsLong
    <3> QED  BY <3>1, <3>3, <3>4 DEF PaceInv
  <2> QED  BY <1>3, <2>1, <2>2, <2>3, <2>4 DEF BeginPaint
<1>4. CASE UNCHANGED graphicsVars
  BY <1>4, SamePace DEF graphicsVars, recoveryVars
<1> QED  BY <1>1, <1>2, <1>3, <1>4 DEF GraphicsNext

\* An attempt starts in StartAttempt, when no wait is left.
LEMMA StartsLate ==
    ASSUME PaceInv, [GraphicsNext]_graphicsVars, attempt = "none", attempt' = "creating"
    PROVE  sinceStart >= 1 /\ (refusals > 0 => sinceRefusal >= 2 ^ refusals)
<1>1. wait = 0
  BY DEF GraphicsNext, DeviceFails, SecondPasses, AttemptEnds, RecreateSurface, Upload, Acquire,
     DrawAndPresent, BeginPaint, Adopt, BackOff, StartAttempt, KeepWaiting,
     recoveryVars, graphicsVars
<1>2. sinceStart >= 1
  BY <1>1 DEF PaceInv
<1>3. ASSUME refusals > 0 PROVE sinceRefusal >= 2 ^ refusals
  BY <1>1, <1>3, Doubled DEF PaceInv
<1> QED  BY <1>2, <1>3

(* No frame of a working device lacks a texture, whatever was lost before    *)
(* it, and no loss, however often it comes back, makes the program start     *)
(* device after device (recovery.rs, winit.rs).                              *)
THEOREM PictureSurvivesLosses == GraphicsSpec => RecoveryKeepsThePicture
<1> DEFINE Spaced == attempt = "none" /\ attempt' = "creating" =>
                       sinceStart >= 1 /\ (refusals > 0 => sinceRefusal >= 2 ^ refusals)
<1>1. GraphicsInit => PictureInv
  BY DEF GraphicsInit, PictureInv, UpToDate, AnySet, NoSet, Images
<1>2. GraphicsInit => PaceInv
  BY GraphicsAssumption, LongestIsLong DEF GraphicsInit, PaceInv
<1>3. PictureInv => FramesAreComplete
  BY DEF PictureInv, UpToDate, Complete, FramesAreComplete
<1>4. PaceInv /\ [GraphicsNext]_graphicsVars => [Spaced]_graphicsVars
  BY StartsLate
<1> QED  BY <1>1, <1>2, <1>3, <1>4, PictureStep, PaceStep, PTL
     DEF GraphicsSpec, RecoveryKeepsThePicture, AttemptsAreSpaced
-----------------------------------------------------------------------------
(* Hotkey: the row of the settings and the thread that holds the chord       *)

KeyTyped ==
  /\ choice \in KeyChoices /\ setting \in {"idle", "desired", "signal"}
  /\ keyReport \in [choice : KeyChoices, status : Statuses]
  /\ desired \in KeyChoices \cup {NoRequest} /\ keyCurrent \in KeyChoices
  /\ keyAt \in {"loop", "release", "drain", "register", "pressed", "wait", "ended"}
               \cup (Statuses \ {"Pending"})
  /\ held \in KeyChoices /\ presses \in Seq(Chords)

\* What the thread holds while it answers a request.
HoldsItsAnswer ==
  /\ keyAt \in {"drain", "register", "Off", "InUse", "Failed", "ended"} => held = Off
  /\ keyAt = "Active" => held = keyCurrent /\ held # Off

\* A message in the queue is of the chord that is held, but between its release and the
\* drain.
PressesAreOfHeld ==
  keyAt # "drain" => \A i \in DOMAIN presses : presses[i] = held /\ held # Off

\* A request that was taken was the last choice, and once it was answered the report is
\* of it.
TakenIsChosen ==
  setting # "desired" /\ desired = NoRequest =>
    /\ keyCurrent = choice
    /\ keyAt \in {"loop", "pressed", "wait", "ended"} /\ ~keyStop =>
         /\ keyReport.choice = choice
         /\ keyReport.status # "Pending"
         /\ held = IF keyReport.status = "Active" THEN choice ELSE Off
NotYetTaken == setting = "signal" \/ setting = "idle" => desired \in {choice, NoRequest}

KeyInv == KeyTyped /\ HoldsItsAnswer /\ PressesAreOfHeld /\ TakenIsChosen /\ NotYetTaken

LEMMA KeyTypes == KeyTyped /\ [KeyNext]_keyVars => KeyTyped'
<1> SUFFICES ASSUME KeyTyped, [KeyNext]_keyVars PROVE KeyTyped'
  OBVIOUS
<1> USE DEF KeyTyped, KeyChoices, Statuses, KeyReport, uiVars
<1>1. CASE SetReport \/ SetDesired \/ SetSignal \/ TakePress \/ DropHotkey
  BY <1>1 DEF SetReport, SetDesired, SetSignal, TakePress, DropHotkey
<1>0. <<>> \in Seq(Chords)
  OBVIOUS
<1>2. CASE TakeDesired
  <2>1. CASE keyStop
    BY <1>0, <1>2, <2>1 DEF TakeDesired, EndThread
  <2>2. CASE ~keyStop
    BY <1>2, <2>2 DEF TakeDesired
  <2> QED BY <2>1, <2>2
<1>3. CASE Release \/ DrainPresses \/ ReadPresses \/ WakeThread
  <2>1. CASE Release \/ WakeThread
    BY <2>1 DEF Release, WakeThread, KeyTo
  <2>2. CASE DrainPresses \/ ReadPresses
    BY <1>0, <2>2 DEF DrainPresses, ReadPresses, KeyTo
  <2> QED BY <1>3, <2>1, <2>2
<1>4. CASE Register
  BY <1>4 DEF Register
<1>5. CASE PublishReport
  BY <1>5 DEF PublishReport
<1>6. CASE GiveUp
  BY <1>0, <1>6 DEF GiveUp, EndThread
<1>7. CASE PressChord
  BY <1>7 DEF PressChord
<1>8. CASE UNCHANGED keyVars
  BY <1>8 DEF keyVars
<1> QED BY <1>1, <1>2, <1>3, <1>4, <1>5, <1>6, <1>7, <1>8 DEF KeyNext, KeyThread

LEMMA KeyStep == KeyInv /\ [KeyNext]_keyVars => KeyInv'
<1> SUFFICES ASSUME KeyInv, [KeyNext]_keyVars PROVE KeyInv'
  OBVIOUS
<1>1. KeyTyped /\ KeyTyped'
  BY KeyTypes DEF KeyInv
<1> USE DEF KeyTyped, KeyChoices, Statuses, KeyReport, uiVars
<1>2. HoldsItsAnswer'
  <2>1. CASE SetReport \/ SetDesired \/ SetSignal \/ TakePress \/ DropHotkey \/ PressChord
             \/ UNCHANGED keyVars
    BY <2>1 DEF SetReport, SetDesired, SetSignal, TakePress, DropHotkey, PressChord, keyVars,
          KeyInv, HoldsItsAnswer
  <2>2. CASE TakeDesired \/ Release \/ DrainPresses \/ Register
    BY <2>2 DEF TakeDesired, EndThread, Release, DrainPresses, Register, KeyTo, KeyInv,
          HoldsItsAnswer
  <2>3. CASE PublishReport \/ ReadPresses \/ WakeThread \/ GiveUp
    BY <2>3 DEF PublishReport, ReadPresses, WakeThread, GiveUp, EndThread, KeyTo, KeyInv,
          HoldsItsAnswer
  <2> QED BY <2>1, <2>2, <2>3 DEF KeyNext, KeyThread
<1>3. PressesAreOfHeld'
  <2>1. CASE UNCHANGED <<held, presses>> /\ (keyAt = "drain" => keyAt' = "drain")
    BY <2>1 DEF PressesAreOfHeld, KeyInv
  <2>2. CASE presses' = <<>>
    BY <2>2 DEF PressesAreOfHeld
  <2>3. CASE PressChord
    <3>1. keyAt' # "drain" => keyAt # "drain" /\ held' = held /\ held # Off
      BY <2>3 DEF PressChord
    <3>2. ASSUME NEW i \in DOMAIN presses', keyAt # "drain" PROVE presses'[i] = held
      BY <2>3, <3>2 DEF PressChord, PressesAreOfHeld, KeyInv
    <3> QED BY <3>1, <3>2 DEF PressesAreOfHeld
  <2>4. CASE Register
    <3>1. presses' = presses /\ held = Off
      BY <2>4 DEF Register, KeyInv, HoldsItsAnswer
    <3>2. DOMAIN presses = {}
      BY <2>4, <3>1 DEF Register, PressesAreOfHeld, KeyInv
    <3> QED BY <3>1, <3>2 DEF PressesAreOfHeld
  <2>5. CASE Release
    BY <2>5 DEF Release, KeyTo, PressesAreOfHeld
  <2>6. CASE SetReport \/ SetDesired \/ SetSignal \/ TakePress \/ DropHotkey \/ PublishReport
             \/ WakeThread \/ UNCHANGED keyVars
    BY <2>1, <2>6 DEF SetReport, SetDesired, SetSignal, TakePress, DropHotkey, PublishReport,
          WakeThread, KeyTo, keyVars
  <2>7. CASE TakeDesired
    BY <2>1, <2>2, <2>7 DEF TakeDesired, EndThread
  <2>8. CASE DrainPresses \/ ReadPresses \/ GiveUp
    BY <2>2, <2>8 DEF DrainPresses, ReadPresses, GiveUp, EndThread
  <2> QED BY <2>3, <2>4, <2>5, <2>6, <2>7, <2>8 DEF KeyNext, KeyThread
<1>4. NotYetTaken'
  <2>1. CASE SetReport \/ SetDesired \/ SetSignal
    BY <2>1 DEF SetReport, SetDesired, SetSignal, NotYetTaken, KeyInv
  <2>2. CASE TakeDesired
    BY <2>2 DEF TakeDesired, NotYetTaken, KeyInv
  <2>3. CASE UNCHANGED <<choice, setting, desired>>
    BY <2>3 DEF NotYetTaken, KeyInv
  <2>4. CASE TakePress \/ DropHotkey \/ Release \/ DrainPresses \/ Register \/ PublishReport
             \/ ReadPresses \/ WakeThread \/ GiveUp \/ PressChord \/ UNCHANGED keyVars
    BY <2>3, <2>4 DEF TakePress, DropHotkey, Release, DrainPresses, Register, PublishReport,
          ReadPresses, WakeThread, GiveUp, PressChord, keyVars
  <2> QED BY <2>1, <2>2, <2>4 DEF KeyNext, KeyThread
<1>5. TakenIsChosen'
  <2>1. CASE SetReport
    BY <2>1 DEF SetReport, TakenIsChosen
  <2>2. CASE SetDesired
    BY <1>1, <2>2, ChordsAssumption DEF SetDesired, TakenIsChosen
  <2>3. CASE SetSignal \/ TakePress \/ DropHotkey \/ PressChord \/ ReadPresses \/ WakeThread
             \/ UNCHANGED keyVars
    BY <2>3 DEF SetSignal, TakePress, DropHotkey, PressChord, ReadPresses, WakeThread, KeyTo,
          keyVars, TakenIsChosen, KeyInv
  <2>4. CASE TakeDesired
    BY <2>4, ChordsAssumption DEF TakeDesired, EndThread, TakenIsChosen, NotYetTaken, KeyInv
  <2>5. CASE Release \/ DrainPresses \/ Register
    BY <2>5 DEF Release, DrainPresses, Register, KeyTo, TakenIsChosen, KeyInv
  <2>6. CASE PublishReport
    BY <2>6 DEF PublishReport, TakenIsChosen, HoldsItsAnswer, KeyInv
  <2>7. CASE GiveUp
    BY <2>7 DEF GiveUp, EndThread, TakenIsChosen, KeyInv
  <2> QED BY <2>1, <2>2, <2>3, <2>4, <2>5, <2>6, <2>7 DEF KeyNext, KeyThread
<1> QED BY <1>1, <1>2, <1>3, <1>4, <1>5 DEF KeyInv

(* Whenever the user chooses and whatever chord another program holds: once  *)
(* nothing is under way the row says of the choice what the thread holds,    *)
(* and a press of a released chord does not toggle the window (hotkey.rs).   *)
THEOREM RowTellsTheChord == KeySpec => []ChordIsAsShown
<1>1. KeyInit => KeyInv
  BY ChordsAssumption DEF KeyInit, KeyInv, KeyTyped, HoldsItsAnswer, PressesAreOfHeld,
     TakenIsChosen, NotYetTaken, KeyChoices, Statuses, KeyReport
<1>2. KeyInv => ChordIsAsShown
  BY DEF KeyInv, ChordIsAsShown, ReportAgrees, ReleasedChordsAreSilent, PressesAreOfHeld,
     TakenIsChosen
<1> QED BY <1>1, <1>2, KeyStep, PTL DEF KeySpec

-----------------------------------------------------------------------------
(* Exports: the chosen file and what the panel says of it                    *)

Outcomes == {"Saved", "Cancelled", "Failed"}

ExportTyped ==
  /\ job \in Nat /\ captures \in Nat /\ exportStop \in BOOLEAN
  /\ polling \in {"idle", "empty", "again"}
  /\ result \in [kind : Outcomes \cup {"none"}, capture : Nat]
  /\ exportAt \in {"choosing", "reserving", "writing", "flushed", "sending", "sent",
                   "finished", "killed"}
  /\ outcome \in Outcomes \cup {"none"} /\ channel \in Outcomes \cup {"none", "closed"}
  /\ temporary \in [capture : Nat, records : Nat]
  /\ destination \in [capture : Nat, records : Nat]

\* The job is the last capture; without one the thread has no more to say, and the panel
\* tells of the last capture.
OneJob ==
  /\ result.capture = captures /\ job \in {0, captures} /\ destination.capture <= captures
  /\ job # 0 => result.kind = "none"
  /\ job = 0 => exportAt \in {"sent", "finished", "killed"} /\ polling = "idle"
  /\ polling = "again" => exportAt = "finished"

\* Until its outcome is there a job has not touched the chosen file, and its temporary
\* file is of its own capture.
WorksOnItsOwn ==
  /\ destination.records = Records
  /\ exportAt \in {"choosing", "reserving", "writing", "flushed"} =>
        destination.capture < job /\ channel = "none"
  /\ exportAt \in {"writing", "flushed"} => temporary.capture = job
  /\ exportAt = "flushed" => temporary.records = Records

\* What it sends is what became of that file.
Tells(kind) == kind = "Saved" <=> destination.capture = job
SendsTheTruth ==
  /\ exportAt = "sending" => outcome \in Outcomes /\ Tells(outcome) /\ channel = "none"
  /\ job # 0 /\ channel \in Outcomes => Tells(channel)
  /\ job # 0 /\ channel = "closed" => destination.capture < job
  /\ job # 0 /\ exportAt \in {"sent", "finished"} => channel # "none"

ExportInv == ExportTyped /\ OneJob /\ WorksOnItsOwn /\ SendsTheTruth /\ OutcomeIsTrue

LEMMA ExportTypes == ExportTyped /\ OneJob /\ [ExportNext]_exportVars => ExportTyped'
<1> SUFFICES ASSUME ExportTyped, OneJob, [ExportNext]_exportVars PROVE ExportTyped'
  OBVIOUS
<1> USE DEF ExportTyped, Outcomes, Result, File, NoFile, jobVars, fileVars
<1>1. CASE Submit
  BY <1>1 DEF Submit
<1>2. CASE PollFirst \/ PollFinished \/ PollAgain
  <2>1. CASE PollFirst
    BY <2>1 DEF PollFirst, Answer
  <2>2. CASE PollFinished
    BY <2>2 DEF PollFinished
  <2>3. CASE PollAgain
    BY <2>3 DEF PollAgain, Answer
  <2> QED BY <1>2, <2>1, <2>2, <2>3
<1>3. CASE DropJob \/ ChoosePath
  BY <1>3 DEF DropJob, ChoosePath, Conclude
<1>4. CASE ReserveTemporary
  BY <1>4 DEF ReserveTemporary, Conclude
<1>5. CASE WriteRecord
  BY <1>5 DEF WriteRecord, Conclude, RemoveTemporary
<1>6. CASE ReplaceDestination
  BY <1>6 DEF ReplaceDestination, Conclude, RemoveTemporary
<1>7. CASE SendOutcome \/ FinishThread \/ ProcessEnds
  BY <1>7 DEF SendOutcome, FinishThread, ProcessEnds, ExportTo
<1>8. CASE Panic
  BY <1>8 DEF Panic, RemoveTemporary
<1>9. CASE UNCHANGED exportVars
  BY <1>9 DEF exportVars
<1> QED BY <1>1, <1>2, <1>3, <1>4, <1>5, <1>6, <1>7, <1>8, <1>9
      DEF ExportNext, ExportPoll, ExportWork

LEMMA ExportStep == ExportInv /\ [ExportNext]_exportVars => ExportInv'
<1> SUFFICES ASSUME ExportInv, [ExportNext]_exportVars PROVE ExportInv'
  OBVIOUS
<1>1. /\ ExportTyped /\ ExportTyped' /\ OneJob /\ WorksOnItsOwn /\ SendsTheTruth
      /\ OutcomeIsTrue
  BY ExportTypes DEF ExportInv
<1> USE DEF ExportTyped, Outcomes, Result, File, NoFile, jobVars, fileVars, Tells
<1>2. CASE Submit
  <2>1. CASE job' = captures + 1 /\ exportAt' = "choosing" /\ channel' = "none"
             /\ result' = Result("none", captures + 1)
    BY <1>1, <1>2, <2>1 DEF Submit, ExportInv, OneJob, WorksOnItsOwn, SendsTheTruth, OutcomeIsTrue
  <2>2. CASE result' = Result("Failed", captures + 1) /\ UNCHANGED <<job, exportAt, outcome, channel>>
    BY <1>1, <1>2, <2>2 DEF Submit, ExportInv, OneJob, WorksOnItsOwn, SendsTheTruth, OutcomeIsTrue
  <2> QED BY <1>2, <2>1, <2>2 DEF Submit
<1>3. ASSUME NEW kind \in Outcomes, Answer(kind), Tells(kind), job # 0,
             exportAt \in {"sent", "finished", "killed"},
             UNCHANGED <<captures, exportStop, exportAt, outcome, channel, fileVars>>
      PROVE  ExportInv'
  BY <1>1, <1>3 DEF Answer, ExportInv, OneJob, WorksOnItsOwn, SendsTheTruth, OutcomeIsTrue
<1>4. CASE PollFirst
  <2>1. CASE channel = "none"
    BY <1>1, <1>4, <2>1 DEF PollFirst, ExportInv, OneJob, WorksOnItsOwn, SendsTheTruth, OutcomeIsTrue
  <2>2. CASE channel # "none"
    <3>1. exportAt \in {"sent", "finished", "killed"} /\ job # 0 /\ job = captures
      BY <1>1, <1>4, <2>2 DEF PollFirst, OneJob, WorksOnItsOwn, SendsTheTruth
    <3>2. CASE channel = "closed"
      BY <1>1, <1>3, <1>4, <3>1, <3>2 DEF PollFirst, SendsTheTruth
    <3>3. CASE channel # "closed"
      BY <1>1, <1>3, <1>4, <2>2, <3>1, <3>3 DEF PollFirst, SendsTheTruth
    <3> QED BY <3>2, <3>3
  <2> QED BY <2>1, <2>2
<1>5. CASE PollAgain
  <2>1. exportAt = "finished" /\ job # 0 /\ channel # "none"
    BY <1>1, <1>5 DEF PollAgain, OneJob, SendsTheTruth
  <2>2. CASE channel = "closed"
    BY <1>1, <1>3, <1>5, <2>1, <2>2 DEF PollAgain, SendsTheTruth
  <2>3. CASE channel # "closed"
    BY <1>1, <1>3, <1>5, <2>1, <2>3 DEF PollAgain, SendsTheTruth
  <2> QED BY <2>2, <2>3
<1>6. CASE PollFinished \/ DropJob \/ UNCHANGED exportVars
  BY <1>1, <1>6 DEF PollFinished, Finished, DropJob, exportVars, ExportInv, OneJob, WorksOnItsOwn,
     SendsTheTruth, OutcomeIsTrue
<1>7. CASE ChoosePath
  BY <1>1, <1>7 DEF ChoosePath, Conclude, ExportInv, OneJob, WorksOnItsOwn, SendsTheTruth, OutcomeIsTrue
<1>8. CASE ReserveTemporary
  BY <1>1, <1>8 DEF ReserveTemporary, Conclude, ExportInv, OneJob, WorksOnItsOwn, SendsTheTruth,
     OutcomeIsTrue
<1>9. CASE WriteRecord
  BY <1>1, <1>9 DEF WriteRecord, Conclude, RemoveTemporary, ExportInv, OneJob, WorksOnItsOwn,
     SendsTheTruth, OutcomeIsTrue
<1>10. CASE ReplaceDestination
  BY <1>1, <1>10 DEF ReplaceDestination, Conclude, RemoveTemporary, ExportInv, OneJob,
     WorksOnItsOwn, SendsTheTruth, OutcomeIsTrue
<1>11. CASE SendOutcome
  BY <1>1, <1>11 DEF SendOutcome, ExportTo, ExportInv, OneJob, WorksOnItsOwn, SendsTheTruth,
     OutcomeIsTrue
<1>12. CASE FinishThread \/ ProcessEnds
  BY <1>1, <1>12 DEF FinishThread, ProcessEnds, ExportTo, ExportInv, OneJob, WorksOnItsOwn,
     SendsTheTruth, OutcomeIsTrue
<1>13. CASE Panic
  BY <1>1, <1>13 DEF Panic, RemoveTemporary, ExportInv, OneJob, WorksOnItsOwn, SendsTheTruth,
     OutcomeIsTrue
<1> QED BY <1>2, <1>4, <1>5, <1>6, <1>7, <1>8, <1>9, <1>10, <1>11, <1>12, <1>13
      DEF ExportNext, ExportPoll, ExportWork

(* However many exports are asked for, whatever of them fails, panics or is   *)
(* stopped and whenever the outcome is sent: the chosen file is whole, and    *)
(* the panel says Saved exactly of the capture it holds (export.rs,           *)
(* export/file.rs).                                                           *)
THEOREM FileIsWhatIsSaid == ExportSpec => []ExportIsWhole
<1>1. ExportInit => ExportInv
  <2> SUFFICES ASSUME ExportInit PROVE ExportInv
    OBVIOUS
  <2>1. ExportTyped
    BY ExporterAssumption DEF ExportInit, ExportTyped, Outcomes, Result, File, NoFile
  <2>2. OneJob /\ WorksOnItsOwn
    BY ExporterAssumption DEF ExportInit, OneJob, WorksOnItsOwn, Result, File
  <2>3. SendsTheTruth /\ OutcomeIsTrue
    BY DEF ExportInit, SendsTheTruth, OutcomeIsTrue, Result
  <2> QED BY <2>1, <2>2, <2>3 DEF ExportInv
<1>2. ExportInv => ExportIsWhole
  BY DEF ExportInv, WorksOnItsOwn, ExportIsWhole, DestinationIsWhole
<1> QED BY <1>1, <1>2, ExportStep, PTL DEF ExportSpec

-----------------------------------------------------------------------------
(* What an inventory page shows *)

\* A deadline that counts: some reading and its age are still to run out.
HealthOK(health) == health.attempt \in Nat

WorkerTypes ==
    /\ clock \in Nat \ {0} /\ started \in Nat \ {0}
    /\ HealthOK(own) /\ HealthOK(shared.health) /\ HealthOK(cached.health)
    /\ shared.active \in Nat /\ cached.active \in Nat

\* What is on screen is so now, and the wake is set for its next change.
ScreenOK ==
    /\ HealthOK(view.health) /\ wake \in Nat
    /\ clock = wake \/ /\ painted = StateAt(view.health, MaxAge, clock)
                       /\ wake = NextStateChange(view.health, MaxAge, clock)

\* The kept failed view is marked with its attempt.
MarkedAsKept == failedView.shown = Shown(failedView.source, failedView.attempt)

InventoryInv == WorkerTypes /\ ScreenOK /\ MarkedAsKept /\ FailedViewIsCurrent

\* Until the deadline a reading is what it was.
LEMMA StateHolds ==
    ASSUME NEW health, HealthOK(health), NEW age \in Nat, NEW t \in Nat,
           LET due == NextStateChange(health, age, t) IN due = Never \/ t + 1 < due
    PROVE  /\ StateAt(health, age, t + 1) = StateAt(health, age, t)
           /\ NextStateChange(health, age, t + 1) = NextStateChange(health, age, t)
<1>1. CASE ~(health.state \in Timed /\ health.attempt # Never)
  BY <1>1 DEF StateAt, NextStateChange
<1>2. CASE health.state \in Timed /\ health.attempt # Never
  <2>1. CASE health.attempt + age + 1 > t
    <3>1. t + 1 < health.attempt + age + 1
      BY <1>2, <2>1 DEF NextStateChange, HealthOK, Never
    <3> QED  BY <1>2, <2>1, <3>1 DEF StateAt, NextStateChange, HealthOK
  <2>2. CASE ~(health.attempt + age + 1 > t)
    BY <1>2, <2>2 DEF StateAt, NextStateChange, HealthOK
  <2> QED  BY <2>1, <2>2
<1> QED  BY <1>1, <1>2

\* A frame shows what is so and asks for the next one in time.
LEMMA PaintedIsSo ==
    ASSUME PaintView, clock' = clock, HealthOK(view'.health)
    PROVE  ScreenOK'
<1>1. NextStateChange(view'.health, MaxAge, clock) \in Nat
  BY InventoryAssumption DEF NextStateChange, HealthOK, Never
<1> QED  BY <1>1 DEF PaintView, ScreenOK

LEMMA LooksAreDated ==
    ASSUME InventoryInv, NEW contended \in BOOLEAN, Latest(contended)
    PROVE  /\ HealthOK(cached'.health) /\ cached'.active \in Nat
           /\ HealthOK(view'.health) /\ MarkedAsKept' /\ FailedViewIsCurrent'
<1> DEFINE now  == IF contended THEN cached ELSE shared
           at   == FirstNonzero(now.active, now.health.attempt, 1)
           kept == FailedView(at, now.version)
           failing == readAt = "finished" \/ (now.active # Never /\ clock >= now.active + SlowAfter)
           starting == now.health.attempt = Never /\ now.active # Never
<1>1. now.active \in Nat /\ now.health.attempt \in Nat /\ at \in Nat
  BY DEF InventoryInv, WorkerTypes, HealthOK, FirstNonzero
<1>2. kept.shown = Shown(now.version, at)
  BY DEF FailedView, InventoryInv, MarkedAsKept
<1>3. kept.source = now.version /\ kept.attempt = at
  BY DEF FailedView
<1>4. cached' = now
  BY DEF Latest
<1>5. fresh' = [version |-> now.version, attempt |-> at, failing |-> failing]
  BY DEF Latest
<1>6. CASE failing
  <2>1. /\ failedView' = kept
        /\ view' = [shown |-> kept.shown, health |-> RecordHealth(now.health, at, "Unavailable")]
    BY <1>6 DEF Latest
  <2> QED  BY <1>1, <1>2, <1>3, <1>4, <1>5, <1>6, <2>1 DEF HealthOK, RecordHealth, MarkedAsKept, FailedViewIsCurrent
<1>7. CASE ~failing
  <2>1. /\ failedView' = NoView
        /\ view' = [shown  |-> Shown(now.version, Never),
                    health |-> IF starting THEN RecordHealth(now.health, now.active, "Starting")
                               ELSE now.health]
    BY <1>7 DEF Latest
  <2> QED  BY <1>1, <1>4, <1>5, <1>7, <2>1 DEF HealthOK, RecordHealth, MarkedAsKept, FailedViewIsCurrent, NoView
<1> QED  BY <1>6, <1>7

LEMMA ScreenRests ==
    ASSUME InventoryInv, UNCHANGED <<clock, lookVars, screenVars>>, WorkerTypes'
    PROVE  InventoryInv'
BY DEF InventoryInv, lookVars, screenVars, ScreenOK, HealthOK, MarkedAsKept, FailedViewIsCurrent

LEMMA InventoryStep == InventoryInv /\ [InventoryNext]_inventoryVars => InventoryInv'
<1> SUFFICES ASSUME InventoryInv, [InventoryNext]_inventoryVars PROVE InventoryInv'
  OBVIOUS
<1> USE InventoryAssumption
<1>1. CASE StartRead \/ NextRead \/ RequestRead \/ ReadPanics \/ Publish
  <2>1. UNCHANGED <<clock, lookVars, screenVars>>
    BY <1>1 DEF StartRead, NextRead, RequestRead, ReadPanics, Publish
  <2>2. /\ started' \in Nat \ {0} /\ own' = own
        /\ HealthOK(shared'.health) /\ shared'.active \in Nat
    <3>1. CASE StartRead
      BY <3>1 DEF StartRead, InventoryInv, WorkerTypes, HealthOK
    <3>2. CASE Publish
      BY <3>2 DEF Publish, InventoryInv, WorkerTypes, HealthOK, Never
    <3>3. CASE NextRead \/ RequestRead \/ ReadPanics
      BY <3>3 DEF NextRead, RequestRead, ReadPanics, InventoryInv, WorkerTypes, HealthOK
    <3> QED  BY <1>1, <3>1, <3>2, <3>3
  <2>3. WorkerTypes'
    BY <2>1, <2>2 DEF InventoryInv, WorkerTypes, HealthOK, lookVars
  <2> QED  BY <2>1, <2>3, ScreenRests
<1>2. CASE Collect
  <2>1. PICK state \in {"Live", "Partial", "Unavailable"} : own' = RecordHealth(own, started, state)
    BY <1>2 DEF Collect
  <2>2. HealthOK(own')
    BY <2>1 DEF RecordHealth, HealthOK, InventoryInv, WorkerTypes
  <2> QED  BY <1>2, <2>2, ScreenRests DEF Collect, InventoryInv, WorkerTypes, lookVars
<1>3. CASE Sample
  <2>1. PICK contended \in BOOLEAN : Latest(contended)
    BY <1>3 DEF Sample
  <2>2. /\ HealthOK(cached'.health) /\ cached'.active \in Nat
        /\ HealthOK(view'.health) /\ MarkedAsKept' /\ FailedViewIsCurrent'
    BY <2>1, LooksAreDated
  <2>3. ScreenOK'
    BY <1>3, <2>2, PaintedIsSo DEF Sample
  <2>4. WorkerTypes'
    BY <1>3, <2>2 DEF Sample, workerVars, InventoryInv, WorkerTypes
  <2> QED  BY <2>2, <2>3, <2>4 DEF InventoryInv
<1>4. CASE WakeFrame
  <2>1. ScreenOK'
    BY <1>4, PaintedIsSo DEF WakeFrame, InventoryInv, ScreenOK
  <2> QED  BY <1>4, <2>1 DEF WakeFrame, workerVars, lookVars, InventoryInv, WorkerTypes, HealthOK, MarkedAsKept, FailedViewIsCurrent
<1>5. CASE InventoryTick
  <2>1. /\ clock \in Nat \ {0} /\ clock' = clock + 1 /\ (wake = Never \/ clock < wake)
        /\ UNCHANGED <<view, painted, wake>>
    BY <1>5 DEF InventoryTick, screenVars, InventoryInv, WorkerTypes
  <2>2. /\ HealthOK(view.health) /\ painted = StateAt(view.health, MaxAge, clock)
        /\ wake = NextStateChange(view.health, MaxAge, clock)
    <3>1. clock # wake
      BY <2>1 DEF InventoryInv, ScreenOK, Never
    <3> QED  BY <3>1 DEF InventoryInv, ScreenOK
  <2>3. wake \in Nat
    BY DEF InventoryInv, ScreenOK
  <2>4. ScreenOK'
    <3>1. CASE wake = clock + 1
      BY <2>1, <2>2, <2>3, <3>1 DEF ScreenOK
    <3>2. CASE wake # clock + 1
      <4>1. wake = Never \/ clock + 1 < wake
        BY <2>1, <2>3, <3>2 DEF Never
      <4>2. /\ StateAt(view.health, MaxAge, clock + 1) = painted
            /\ NextStateChange(view.health, MaxAge, clock + 1) = wake
        BY <2>1, <2>2, <4>1, StateHolds
      <4> QED  BY <2>1, <2>2, <2>3, <4>2 DEF ScreenOK
    <3> QED  BY <3>1, <3>2
  <2> QED  BY <1>5, <2>1, <2>4 DEF InventoryTick, workerVars, lookVars, screenVars, InventoryInv, WorkerTypes, HealthOK, MarkedAsKept, FailedViewIsCurrent
<1>6. CASE UNCHANGED inventoryVars
  BY <1>6, ScreenRests DEF inventoryVars, workerVars, lookVars, InventoryInv, WorkerTypes, HealthOK
<1> QED  BY <1>1, <1>2, <1>3, <1>4, <1>5, <1>6 DEF InventoryNext

\* For any ages and cadence, however long a read takes and whether the worker lives: a
\* page that nothing repaints says what is so, and data are marked as kept from the very
\* attempt that keeps them.
THEOREM ViewsStayHonest == InventorySpec => []ViewsAreHonest
<1>1. InventoryInit => InventoryInv
  BY InventoryAssumption
  DEF InventoryInit, InventoryInv, WorkerTypes, ScreenOK, HealthOK, MarkedAsKept, FailedViewIsCurrent,
      NoHealth, NoView, Never, StateAt, NextStateChange
<1>2. InventoryInv => ViewsAreHonest
  BY DEF InventoryInv, ScreenOK, ViewsAreHonest, FrozenViewIsHonest
<1> QED  BY <1>1, <1>2, InventoryStep, PTL DEF InventorySpec

-----------------------------------------------------------------------------
(* How a process row is put together *)

\* Every listed process has its control information once that has been refreshed.
ControlsInv ==
    /\ \A c \in controls : c.created # 0 => Second(c.created) = c.second
    /\ step \in {"gpu", "collect", "rows"} =>
          \A pid \in Present(table) :
             \E c \in controls : c.pid = pid /\ c.second = Second(table[pid])

\* The times are joined over the interval that ends with this sample.
TimesInv ==
    /\ cycle \in Nat /\ read.from \in Int /\ read.to \in Int
    /\ IF step \in {"table", "times"} THEN read.to \in {-1, cycle}
       ELSE read.from \in {-1, cycle} /\ read.to \in {-1, cycle + 1}

\* A counter has as many samples as collections have succeeded since it was added.
CountersInv ==
    /\ counters \in [Pids -> {-1, 0, 1, 2}] /\ collected = counters
    /\ step = "rows" => \A pid \in Pids : gpuByPid[pid].kind = "Measured" => collected[pid] = 2

SamplingInv == ControlsInv /\ TimesInv /\ CountersInv /\ RowsAreConsistent

\* Steps of the world, and readings that leave the rows and the parts they are made of.
LEMMA ControlsRest ==
    ASSUME ControlsInv, UNCHANGED <<table, controls>>,
           step' \in {"gpu", "collect", "rows"} => step \in {"gpu", "collect", "rows"}
    PROVE  ControlsInv'
BY DEF ControlsInv, Present

\* Of what is asked for, a process that started in another second gives nothing.
LEMMA RefreshKeepsControls == ASSUME ControlsInv, RefreshControls PROVE ControlsInv'
<1> DEFINE active == {<<pid, Second(table[pid])>> : pid \in Present(table)}
           kept   == {c \in controls : <<c.pid, c.second>> \in active}
           asked  == {key \in active : cycle % ControlInterval = 0
                                       \/ ~\E c \in kept : <<c.pid, c.second>> = key}
<1>1. PICK accessible \in SUBSET asked :
         controls' = {c \in kept : <<c.pid, c.second>> \notin asked}
            \cup {[pid |-> key[1], second |-> key[2],
                   created |-> IF key \in accessible
                               THEN ForObservedStart(alive[key[1]], key[2]) ELSE 0]
                    : key \in asked}
  BY DEF RefreshControls
<1>2. table' = table
  BY DEF RefreshControls
<1>3. ASSUME NEW c \in controls', c.created # 0 PROVE Second(c.created) = c.second
  <2>1. CASE c \in controls
    BY <1>3, <2>1 DEF ControlsInv
  <2>2. CASE c \notin controls
    <3>1. PICK key \in asked :
             c = [pid |-> key[1], second |-> key[2],
                  created |-> IF key \in accessible
                              THEN ForObservedStart(alive[key[1]], key[2]) ELSE 0]
      BY <1>1, <2>2
    <3>2. c.created = ForObservedStart(alive[key[1]], key[2]) /\ c.second = key[2]
      BY <1>3, <3>1
    <3> QED  BY <1>3, <3>2 DEF ForObservedStart
  <2> QED  BY <2>1, <2>2
<1>4. ASSUME NEW pid \in Present(table)
      PROVE  \E c \in controls' : c.pid = pid /\ c.second = Second(table[pid])
  <2> DEFINE key == <<pid, Second(table[pid])>>
  <2>1. key \in active
    OBVIOUS
  <2>2. CASE key \in asked
    <3> DEFINE answer == [pid |-> key[1], second |-> key[2],
                          created |-> IF key \in accessible
                                      THEN ForObservedStart(alive[key[1]], key[2]) ELSE 0]
    <3>1. answer \in controls'
      BY <1>1, <2>2
    <3>2. answer.pid = pid /\ answer.second = Second(table[pid])
      OBVIOUS
    <3> QED  BY <3>1, <3>2
  <2>3. CASE key \notin asked
    <3>1. PICK c \in kept : <<c.pid, c.second>> = key
      BY <2>1, <2>3
    <3>2. c \in controls'
      BY <1>1, <2>3, <3>1
    <3> QED  BY <3>1, <3>2
  <2> QED  BY <2>2, <2>3
<1> QED  BY <1>2, <1>3, <1>4 DEF ControlsInv, Present

\* A row's figures are of the second it names and of the interval that just ended.
LEMMA RowsFit == ASSUME SamplingInv, BuildRows PROVE RowsAreConsistent'
<1>1. /\ step = "rows" /\ cycle' = cycle + 1 /\ collected' = collected
      /\ rows' = {[pid |-> pid, second |-> Second(table[pid]),
                   cpu |-> CpuFigure(pid, Second(table[pid])),
                   control |-> (CHOOSE c \in controls :
                                  c.pid = pid /\ c.second = Second(table[pid])).created,
                   gpu |-> gpuByPid[pid]] : pid \in Present(table)}
  BY DEF BuildRows, StepTo, gpuVars
<1>2. ASSUME NEW row \in rows'
      PROVE  /\ row.cpu.birth # 0 => Second(row.cpu.birth) = row.second
             /\ row.control # 0 => Second(row.control) = row.second
             /\ row.cpu.since # -1 => row.cpu.since = cycle' - 1
             /\ row.gpu.kind = "Measured" => collected'[row.pid] = 2
  <2>1. PICK pid \in Present(table) :
           row = [pid |-> pid, second |-> Second(table[pid]),
                  cpu |-> CpuFigure(pid, Second(table[pid])),
                  control |-> (CHOOSE c \in controls :
                                 c.pid = pid /\ c.second = Second(table[pid])).created,
                  gpu |-> gpuByPid[pid]]
    BY <1>1
  <2>2. PICK c \in controls : /\ c.pid = pid /\ c.second = Second(table[pid])
                              /\ row.control = c.created
    <3>1. \E c \in controls : c.pid = pid /\ c.second = Second(table[pid])
      BY <1>1 DEF SamplingInv, ControlsInv
    <3> QED  BY <2>1, <3>1
  <2>3. row.control # 0 => Second(row.control) = row.second
    BY <2>1, <2>2 DEF SamplingInv, ControlsInv
  <2>4. row.cpu.birth # 0 => Second(row.cpu.birth) = row.second
    BY <2>1 DEF CpuFigure
  <2>5. row.cpu.since # -1 => row.cpu.since = cycle
    BY <1>1, <2>1 DEF CpuFigure, SamplingInv, TimesInv
  <2>6. row.gpu.kind = "Measured" => collected[row.pid] = 2
    BY <1>1, <2>1 DEF SamplingInv, CountersInv, Present
  <2>7. cycle' - 1 = cycle
    BY <1>1 DEF SamplingInv, TimesInv
  <2> QED  BY <1>1, <2>3, <2>4, <2>5, <2>6, <2>7
<1> QED  BY <1>2 DEF RowsAreConsistent, FiguresAreOfTheRow, RatesSpanOneInterval

\* Of a counter's samples only two or more make a rate.
LEMMA CollectionCounts ==
    ASSUME CountersInv, NEW valid \in SUBSET Pids, CollectEngines(valid),
           collected' = [pid \in Pids |-> IF collected[pid] = -1 THEN -1
                                          ELSE IF collected[pid] < 2 THEN collected[pid] + 1
                                          ELSE 2]
    PROVE  /\ counters' \in [Pids -> {-1, 0, 1, 2}] /\ collected' = counters'
           /\ \A pid \in Pids : gpuByPid'[pid].kind = "Measured" => collected'[pid] = 2
<1> DEFINE samples(pid) == IF counters[pid] < 2 THEN counters[pid] + 1 ELSE 2
           usage(pid)   == IF samples(pid) < 2 THEN Missing("Warming")
                           ELSE IF pid \in valid THEN Measured(1) ELSE Missing("Unavailable")
           counted      == {pid \in Pids : counters[pid] # -1}
           told         == {pid \in counted : alive[pid] # 0 \/ samples(pid) < 2}
           anyValid     == \E pid \in told : HasValue(usage(pid))
<1>1. counters' = [pid \in Pids |-> IF pid \in counted THEN samples(pid) ELSE -1]
  BY DEF CollectEngines
<1>2. gpuByPid' = [pid \in Pids |->
           IF pid \in told
           THEN IF gpuError THEN LowerBound(usage(pid)) ELSE usage(pid)
           ELSE Missing(IF anyValid THEN "Unreported"
                        ELSE IF gpuError \/ told = {}
                                \/ \E p \in told : usage(p).kind # "Warming"
                        THEN "Unavailable" ELSE "Warming")]
  BY DEF CollectEngines
<1>3. /\ counters' \in [Pids -> {-1, 0, 1, 2}] /\ collected' = counters'
      /\ \A pid \in Pids : collected'[pid] = IF pid \in counted THEN samples(pid) ELSE -1
  BY <1>1 DEF CountersInv
<1>4. ASSUME NEW pid \in Pids, gpuByPid'[pid].kind = "Measured" PROVE collected'[pid] = 2
  <2>1. pid \in told
    <3> HIDE DEF told, anyValid, usage
    <3> SUFFICES ASSUME pid \notin told PROVE FALSE
      OBVIOUS
    <3>1. PICK kind \in {"Unreported", "Unavailable", "Warming"} : gpuByPid'[pid] = Missing(kind)
      BY <1>2
    <3> QED  BY <1>4, <3>1 DEF Missing
  <2>2. gpuByPid'[pid] \in {LowerBound(usage(pid)), usage(pid)}
    <3> HIDE DEF told, anyValid, usage
    <3> QED  BY <1>2, <2>1
  <2>3. ~(samples(pid) < 2)
    BY <1>4, <2>2 DEF LowerBound, HasValue, Missing, Partial
  <2> QED  BY <1>3, <2>1, <2>3 DEF CountersInv
<1> QED  BY <1>3, <1>4

LEMMA InventoryCounts ==
    ASSUME CountersInv, NEW engines, NEW found \in BOOLEAN, RefreshInstances(engines, found)
    PROVE  counters' \in [Pids -> {-1, 0, 1, 2}] /\ collected' = counters'
BY DEF CountersInv, RefreshInstances

LEMMA SamplingStep == SamplingInv /\ [SamplingNext]_samplingVars => SamplingInv'
<1> SUFFICES ASSUME SamplingInv, [SamplingNext]_samplingVars PROVE SamplingInv'
  OBVIOUS
<1>1. CASE \E pid \in Pids : Spawn(pid) \/ Exit(pid)
  BY <1>1, ControlsRest
  DEF Spawn, Exit, cpuVars, gpuVars, SamplingInv, TimesInv, CountersInv,
      RowsAreConsistent, FiguresAreOfTheRow, RatesSpanOneInterval
<1>2. CASE RefreshTable
  <2>1. step' = "times" /\ UNCHANGED <<cycle, cpuVars, controls, gpuVars, rows>> /\ step = "table"
    BY <1>2 DEF RefreshTable, StepTo
  <2> QED  BY <2>1
    DEF cpuVars, gpuVars, SamplingInv, ControlsInv, TimesInv, CountersInv,
        RowsAreConsistent, FiguresAreOfTheRow, RatesSpanOneInterval
<1>3. CASE ReadTimes
  <2>1. /\ step = "times" /\ step' = "controls" /\ UNCHANGED <<world, cycle, table, controls, gpuVars, rows>>
    BY <1>3 DEF ReadTimes, StepTo
  <2>2. TimesInv'
    <3>1. PICK ok \in BOOLEAN : UpdateTimes(ok)
      BY <1>3 DEF ReadTimes
    <3> QED  BY <2>1, <3>1 DEF UpdateTimes, SamplingInv, TimesInv
  <2> QED  BY <2>1, <2>2, ControlsRest
    DEF gpuVars, SamplingInv, CountersInv, RowsAreConsistent, FiguresAreOfTheRow, RatesSpanOneInterval
<1>4. CASE RefreshControls
  <2>1. /\ step = "controls" /\ step' = "gpu" /\ UNCHANGED <<world, cycle, table, cpuVars, gpuVars, rows>>
    BY <1>4 DEF RefreshControls, StepTo
  <2>2. ControlsInv'
    BY <1>4, RefreshKeepsControls DEF SamplingInv
  <2> QED  BY <2>1, <2>2
    DEF cpuVars, gpuVars, SamplingInv, TimesInv, CountersInv, RowsAreConsistent,
        FiguresAreOfTheRow, RatesSpanOneInterval
<1>5. CASE GpuInventory
  <2>1. /\ step = "gpu" /\ step' = "collect"
        /\ UNCHANGED <<world, cycle, table, cpuVars, controls, gpuByPid, rows>>
    BY <1>5 DEF GpuInventory, StepTo
  <2>2. counters' \in [Pids -> {-1, 0, 1, 2}] /\ collected' = counters'
    <3>1. CASE \E engines \in SUBSET Present(alive), found \in BOOLEAN : RefreshInstances(engines, found)
      BY <3>1, InventoryCounts DEF SamplingInv
    <3>2. CASE UNCHANGED <<counters, collected, gpuError>>
      BY <3>2 DEF SamplingInv, CountersInv
    <3> QED  BY <1>5, <3>1, <3>2 DEF GpuInventory
  <2> QED  BY <2>1, <2>2, ControlsRest
    DEF cpuVars, SamplingInv, TimesInv, CountersInv, RowsAreConsistent, FiguresAreOfTheRow, RatesSpanOneInterval
<1>6. CASE CollectProcesses
  <2>1. /\ step = "collect" /\ step' = "rows"
        /\ UNCHANGED <<world, cycle, table, cpuVars, controls, gpuError, rows>>
    BY <1>6 DEF CollectProcesses, StepTo
  <2>2. /\ counters' \in [Pids -> {-1, 0, 1, 2}] /\ collected' = counters'
        /\ \A pid \in Pids : gpuByPid'[pid].kind = "Measured" => collected'[pid] = 2
    <3>1. CASE /\ gpuByPid' = [pid \in Pids |-> Missing(IF gpuError THEN "Unavailable" ELSE "Warming")]
               /\ UNCHANGED <<counters, collected>>
      BY <3>1 DEF SamplingInv, CountersInv, Missing
    <3>2. CASE /\ FailedCollection
               /\ collected' = [pid \in Pids |-> IF collected[pid] = -1 THEN -1 ELSE 0]
               /\ gpuByPid' = [pid \in Pids |-> Missing("Unavailable")]
      BY <3>2 DEF FailedCollection, SamplingInv, CountersInv, Missing
    <3>3. CASE /\ \E valid \in SUBSET Pids : CollectEngines(valid)
               /\ collected' = [pid \in Pids |-> IF collected[pid] = -1 THEN -1
                                                 ELSE IF collected[pid] < 2 THEN collected[pid] + 1
                                                 ELSE 2]
      BY <3>3, CollectionCounts DEF SamplingInv
    <3> QED  BY <1>6, <3>1, <3>2, <3>3 DEF CollectProcesses
  <2> QED  BY <2>1, <2>2, ControlsRest
    DEF cpuVars, SamplingInv, TimesInv, CountersInv, RowsAreConsistent, FiguresAreOfTheRow, RatesSpanOneInterval
<1>7. CASE BuildRows
  <2>1. /\ step = "rows" /\ step' = "table" /\ cycle' = cycle + 1
        /\ UNCHANGED <<world, table, cpuVars, controls, gpuVars>>
    BY <1>7 DEF BuildRows, StepTo
  <2>2. RowsAreConsistent'
    BY <1>7, RowsFit
  <2>3. TimesInv'
    BY <2>1 DEF cpuVars, SamplingInv, TimesInv
  <2> QED  BY <2>1, <2>2, <2>3, ControlsRest DEF gpuVars, SamplingInv, CountersInv
<1>8. CASE UNCHANGED samplingVars
  BY <1>8, ControlsRest
  DEF samplingVars, cpuVars, gpuVars, SamplingInv, TimesInv, CountersInv,
      RowsAreConsistent, FiguresAreOfTheRow, RatesSpanOneInterval
<1> QED  BY <1>1, <1>2, <1>3, <1>4, <1>5, <1>6, <1>7, <1>8 DEF SamplingNext

\* However processes exit and PIDs are used again between the readings, and whichever of
\* them fail: the figures of a row are of the second it names, and its rates are of the
\* one interval that ends with the sample.
THEOREM RowsAreOfOneProcess == SamplingSpec => []RowsAreConsistent
<1>1. SamplingInit => SamplingInv
  BY DEF SamplingInit, SamplingInv, ControlsInv, TimesInv, CountersInv,
         RowsAreConsistent, FiguresAreOfTheRow, RatesSpanOneInterval, Missing
<1>2. SamplingInv => RowsAreConsistent
  BY DEF SamplingInv
<1> QED  BY <1>1, <1>2, SamplingStep, PTL DEF SamplingSpec

-----------------------------------------------------------------------------
(* What a chart calls live *)

Point == [at : Nat, value : Heights \cup {Unmeasured}]

\* A chart with a measured point has a current value, and one that is live was measured
\* by the last snapshot that named it.
ChartInv(i) ==
    LET c == history[i] IN
    /\ c.points \in Seq(Point) /\ c.lastSeen \in Nat
    /\ c.measuredAt \in Nat \cup {Unmeasured}
    /\ (\E k \in DOMAIN c.points : c.points[k].value # Unmeasured) => c.current # Unmeasured
    /\ c.state = "Live" /\ c.current # Unmeasured => c.measuredAt \in Nat /\ i \in reported

GraphInv ==
    /\ moment \in Nat /\ DOMAIN history = Sensors
    /\ \A i \in Charted : ChartInv(i)

\* Every nonempty set of natural numbers has a least element.
LEMMA LeastNumber ==
    ASSUME NEW T \in SUBSET Nat, T # {}
    PROVE  \E x \in T : \A y \in T : x <= y
<1> DEFINE less == {p \in Nat \X Nat : p[1] < p[2]}
<1>1. IsWellFoundedOn(less, Nat)
  <2>1. OpToRel(<, Nat) = less
    BY Zenon DEF OpToRel
  <2> QED  BY <2>1, NatLessThanWellFounded, Zenon
<1>2. \E x \in T : \A y \in T : <<y, x>> \notin less
  <2> HIDE DEF less
  <2> QED  BY <1>1, WFMin
<1>3. PICK x \in T : \A y \in T : <<y, x>> \notin less
  BY <1>2
<1>4. ASSUME NEW y \in T PROVE x <= y
  <2>1. x \in Nat /\ y \in Nat /\ <<y, x>> \in Nat \X Nat
    OBVIOUS
  <2>2. ~(y < x)
    BY <1>3, <2>1
  <2> QED  BY <2>1, <2>2
<1> QED  BY <1>4

LEMMA MinIsLeast ==
    ASSUME NEW S \in SUBSET Nat, S # {}
    PROVE  Min(S) \in S /\ \A n \in S : Min(S) <= n
BY LeastNumber DEF Min

\* Of two deadlines, or of one, the earlier counts.
LEMMA EarliestIsFirst ==
    ASSUME NEW a \in Nat, NEW S \in SUBSET Nat
    PROVE  /\ Earliest({a} \cup S) \in {a} \cup S /\ Earliest({a} \cup S) <= a
           /\ \A n \in S : Earliest({a} \cup S) <= n
<1>1. {a} \cup S \in SUBSET Nat /\ {a} \cup S # {}
  OBVIOUS
<1> QED  BY <1>1, MinIsLeast DEF Earliest

\* What leaves a series leaves at the front.
LEMMA FrontIsOld ==
    ASSUME NEW points \in Seq(Point), GraphAssumption
    PROVE  /\ FrontDropped(points) \in Seq(Point)
           /\ \A k \in DOMAIN FrontDropped(points) :
                 \E j \in DOMAIN points : FrontDropped(points)[k] = points[j]
<1> DEFINE firsts == {k \in 1..(Len(points) + 1) :
                        /\ Len(points) - k + 1 <= MaxPoints
                        /\ k <= Len(points) => moment - points[k].at <= Window}
           first == Min(firsts)
<1>1. Len(points) + 1 \in firsts
  BY DEF GraphAssumption
<1>2. first \in 1..(Len(points) + 1)
  <2>1. firsts \in SUBSET Nat /\ firsts # {}
    BY <1>1
  <2>2. first \in firsts
    <3> HIDE DEF firsts
    <3> QED  BY <2>1, MinIsLeast
  <2> QED  BY <2>2
<1>3. FrontDropped(points) = SubSeq(points, first, Len(points))
  BY DEF FrontDropped
<1> HIDE DEF first
<1>4. /\ SubSeq(points, first, Len(points)) \in Seq(Point)
      /\ Len(SubSeq(points, first, Len(points))) = Len(points) - first + 1
      /\ \A k \in 1..(Len(points) - first + 1) :
            SubSeq(points, first, Len(points))[k] = points[first + k - 1]
  BY <1>2
<1>5. ASSUME NEW k \in DOMAIN FrontDropped(points)
      PROVE  \E j \in DOMAIN points : FrontDropped(points)[k] = points[j]
  <2>1. k \in 1..(Len(points) - first + 1)
    BY <1>2, <1>3, <1>4
  <2>2. first + k - 1 \in DOMAIN points
    BY <1>2, <2>1
  <2> QED  BY <1>3, <1>4, <2>1, <2>2
<1> QED  BY <1>3, <1>4, <1>5

\* A sensor of the sample charts what the sample says of it.
LEMMA ChartingKeeps ==
    ASSUME GraphAssumption, moment \in Nat, NEW c, NEW f \in Fields,
           c.points \in Seq(Point), c.measuredAt \in Nat \cup {Unmeasured},
           (\E k \in DOMAIN c.points : c.points[k].value # Unmeasured) => c.current # Unmeasured
    PROVE  LET d == Charting(c, f) IN
           /\ d.points \in Seq(Point) /\ d.lastSeen \in Nat
           /\ d.measuredAt \in Nat \cup {Unmeasured}
           /\ (\E k \in DOMAIN d.points : d.points[k].value # Unmeasured) => d.current # Unmeasured
           /\ d.state = "Live" /\ d.current # Unmeasured =>
                 d.measuredAt \in Nat /\ f.value # Unmeasured
<1> DEFINE at    == IF f.at <= moment THEN f.at ELSE Unmeasured
           later == at # Unmeasured /\ (c.points = <<>> \/ at > Last(c.points).at)
           point == [at |-> at, value |-> IF Graphable(f) THEN f.value ELSE Unmeasured]
           after == IF later THEN Append(c.points, point) ELSE c.points
           d     == Charting(c, f)
<1>1. f.at \in Nat /\ f.at <= moment /\ at = f.at /\ f.value \in Heights \cup {Unmeasured}
  <2>1. f.at = moment \/ f.at = Max({0, moment - 1})
    BY DEF Fields
  <2>2. Max({0, moment - 1}) \in Nat /\ Max({0, moment - 1}) <= moment
    <3>1. \E x \in {0, moment - 1} : \A y \in {0, moment - 1} : x >= y
      <4>1. CASE moment = 0
        BY <4>1
      <4>2. CASE moment # 0
        BY <4>2
      <4> QED  BY <4>1, <4>2
    <3>2. /\ Max({0, moment - 1}) \in {0, moment - 1}
          /\ \A y \in {0, moment - 1} : Max({0, moment - 1}) >= y
      BY <3>1 DEF Max
    <3> QED  BY <3>2
  <2> QED  BY <2>1, <2>2 DEF Fields
<1>2. point \in Point
  BY <1>1 DEF Point
<1>3. after \in Seq(Point)
  <2> HIDE DEF point
  <2> QED  BY <1>2
<1>4. \A k \in DOMAIN after : after[k].value # Unmeasured =>
          (\E j \in DOMAIN c.points : c.points[j].value # Unmeasured) \/ f.value # Unmeasured
  <2> SUFFICES ASSUME NEW k \in DOMAIN after, after[k].value # Unmeasured
               PROVE  (\E j \in DOMAIN c.points : c.points[j].value # Unmeasured) \/ f.value # Unmeasured
    OBVIOUS
  <2>1. CASE k \in DOMAIN c.points /\ after[k] = c.points[k]
    BY <2>1
  <2>2. CASE after[k] = point
    BY <2>2
  <2>3. (k \in DOMAIN c.points /\ after[k] = c.points[k]) \/ after[k] = point
    <3> HIDE DEF point, later
    <3> QED  BY <1>2
  <2> QED  BY <2>1, <2>2, <2>3
<1>5. /\ d.points = FrontDropped(after)
      /\ d.current = (IF f.value # Unmeasured THEN f.value ELSE c.current)
      /\ d.state = Label(c, f) /\ d.lastSeen = moment
      /\ d.measuredAt = (IF Graphable(f) /\ f.value # Unmeasured THEN at ELSE c.measuredAt)
  BY DEF Charting
<1> HIDE DEF after, d, point, later
<1>6. d.points \in Seq(Point)
  BY <1>3, <1>5, FrontIsOld
<1>7. (\E k \in DOMAIN d.points : d.points[k].value # Unmeasured) => d.current # Unmeasured
  <2> SUFFICES ASSUME NEW k \in DOMAIN d.points, d.points[k].value # Unmeasured
               PROVE  d.current # Unmeasured
    OBVIOUS
  <2>1. PICK j \in DOMAIN after : d.points[k] = after[j]
    BY <1>3, <1>5, FrontIsOld
  <2> QED  BY <1>4, <1>5, <2>1
<1>8. ASSUME d.state = "Live", d.current # Unmeasured
      PROVE  d.measuredAt \in Nat /\ f.value # Unmeasured
  BY <1>1, <1>5, <1>8 DEF Label, Graphable
<1> QED  BY <1>1, <1>5, <1>6, <1>7, <1>8 DEF d

LEMMA SampleKeepsCharts == ASSUME GraphAssumption, GraphInv, TakeSample PROVE GraphInv'
<1>1. PICK asked \in SUBSET Sensors \ {{}} : \E fields \in [asked -> Fields] : SampleFields(fields)
  BY DEF TakeSample
<1>2. PICK fields \in [asked -> Fields] : SampleFields(fields)
  BY <1>1
<1> DEFINE new   == DOMAIN fields \ Retained
           room  == ChartLimit - Cardinality(Retained)
           taken == {i \in new : Cardinality({j \in new : j < i}) < room}
           before(i) == IF i \in Retained THEN history[i] ELSE FreshChart(fields[i])
<1>3. /\ history' = [i \in Sensors |->
            IF i \in asked /\ (i \in Retained \/ i \in taken) THEN Charting(before(i), fields[i])
            ELSE IF i \in Retained THEN history[i] ELSE NoChart]
      /\ reported' = (reported \ asked) \cup {i \in asked : fields[i].value # Unmeasured}
      /\ moment' = moment
  BY <1>2 DEF SampleFields
<1> HIDE DEF taken, new, room
<1>4. ASSUME NEW i \in Charted' PROVE ChartInv(i)'
  <2>1. i \in Sensors /\ history'[i] # NoChart
    BY <1>3, <1>4 DEF Charted
  <2>2. CASE i \in asked /\ (i \in Retained \/ i \in taken)
    <3>1. history'[i] = Charting(before(i), fields[i]) /\ fields[i] \in Fields
      BY <1>3, <2>1, <2>2
    <3>2. /\ before(i).points \in Seq(Point) /\ before(i).measuredAt \in Nat \cup {Unmeasured}
          /\ (\E k \in DOMAIN before(i).points : before(i).points[k].value # Unmeasured)
                => before(i).current # Unmeasured
      <4>1. CASE i \in Retained
        BY <4>1 DEF Retained, GraphInv, ChartInv
      <4>2. CASE i \notin Retained
        BY <4>2 DEF FreshChart
      <4> QED  BY <4>1, <4>2
    <3> HIDE DEF before
    <3>3. LET d == history'[i] IN
          /\ d.points \in Seq(Point) /\ d.lastSeen \in Nat
          /\ d.measuredAt \in Nat \cup {Unmeasured}
          /\ (\E k \in DOMAIN d.points : d.points[k].value # Unmeasured) => d.current # Unmeasured
          /\ d.state = "Live" /\ d.current # Unmeasured =>
                d.measuredAt \in Nat /\ fields[i].value # Unmeasured
      BY <3>1, <3>2, ChartingKeeps DEF GraphInv
    <3>4. fields[i].value # Unmeasured => i \in reported'
      BY <1>3, <2>2
    <3> QED  BY <3>3, <3>4 DEF ChartInv
  <2>3. CASE ~(i \in asked /\ (i \in Retained \/ i \in taken))
    <3>1. i \in Retained /\ i \notin asked /\ history'[i] = history[i]
      BY <1>3, <2>1, <2>3
    <3>2. ChartInv(i)
      BY <3>1 DEF Retained, GraphInv
    <3>3. i \in reported => i \in reported'
      BY <1>3, <3>1
    <3> QED  BY <3>1, <3>2, <3>3 DEF ChartInv
  <2> QED  BY <2>2, <2>3
<1>5. DOMAIN history' = Sensors /\ moment' \in Nat
  BY <1>3 DEF GraphInv
<1> QED  BY <1>4, <1>5 DEF GraphInv

LEMMA GraphStep ==
    ASSUME GraphAssumption, GraphInv, [GraphNext]_graphVars PROVE GraphInv'
<1>1. CASE TakeSample
  BY <1>1, SampleKeepsCharts
<1>2. CASE PassTime \/ UNCHANGED graphVars
  <2>1. UNCHANGED <<history, reported>> /\ moment' \in Nat
    BY <1>2 DEF PassTime, graphVars, GraphInv
  <2> QED  BY <2>1 DEF GraphInv, ChartInv, Charted
<1> QED  BY <1>1, <1>2 DEF GraphNext

\* Until its next change a chart keeps its state.
LEMMA HoldsUntil ==
    ASSUME NEW c, NEW now \in Nat, NEW t \in Nat, now <= t, Silence \in Nat,
           NEW lastAt \in Nat, c.lastSeen = lastAt,
           NEW measured \in Nat \cup {Unmeasured}, c.measuredAt = measured,
           StateChange(c, now) = Unmeasured \/ t < StateChange(c, now)
    PROVE  ChartState(c, t) = ChartState(c, now)
<1> DEFINE silentAt == lastAt + Silence + 1
           cachedAt == measured + Cadence3 + 1
           coming == IF c.state = "Live" /\ measured # Unmeasured /\ cachedAt > now
                     THEN {cachedAt} ELSE {}
<1>1. CASE silentAt <= now
  <2>1. now > lastAt + Silence /\ t > lastAt + Silence
    BY <1>1
  <2> QED  BY <2>1 DEF ChartState
<1>2. CASE ~(silentAt <= now)
  <2>1. StateChange(c, now) = Earliest({silentAt} \cup coming)
    BY <1>2 DEF StateChange
  <2>2. silentAt \in Nat /\ coming \in SUBSET Nat
    BY DEF Cadence3, Unmeasured
  <2> DEFINE due == StateChange(c, now)
  <2>3. due \in Nat /\ due <= silentAt /\ \A n \in coming : due <= n
    <3> HIDE DEF coming, silentAt
    <3>1. /\ Earliest({silentAt} \cup coming) \in {silentAt} \cup coming
          /\ Earliest({silentAt} \cup coming) <= silentAt
          /\ \A n \in coming : Earliest({silentAt} \cup coming) <= n
      BY <2>2, EarliestIsFirst
    <3> QED  BY <2>1, <2>2, <3>1
  <2>4. t < due
    BY <2>3 DEF Unmeasured
  <2> HIDE DEF due
  <2>5. t < silentAt /\ \A n \in coming : t < n
    <3> HIDE DEF coming, silentAt
    <3> QED  BY <2>2, <2>3, <2>4
  <2>6. ~(t > lastAt + Silence) /\ ~(now > lastAt + Silence)
    BY <2>5
  <2>7. ASSUME c.state = "Live", measured # Unmeasured
        PROVE  (t > measured + Cadence3) <=> (now > measured + Cadence3)
    <3>1. measured \in Nat
      BY <2>7
    <3>2. cachedAt > now => t < cachedAt
      BY <2>5, <2>7
    <3> QED  BY <3>1, <3>2 DEF Cadence3
  <2> QED  BY <2>6, <2>7 DEF ChartState
<1> QED  BY <1>1, <1>2

LEMMA HoldsUntilDeadline ==
    ASSUME GraphAssumption, GraphInv PROVE StateHoldsUntilDeadline
<1> SUFFICES ASSUME NEW i \in Charted,
                    NEW t \in moment..(LastMoment + Silence + Cadence3),
                    LET due == StateChange(history[i], moment) IN due = Unmeasured \/ t < due
             PROVE  ChartState(history[i], t) = ChartState(history[i], moment)
  BY DEF StateHoldsUntilDeadline
<1>1. PICK now : now = moment
  OBVIOUS
<1>2. /\ now \in Nat /\ Silence \in Nat /\ history[i].lastSeen \in Nat
      /\ history[i].measuredAt \in Nat \cup {Unmeasured}
  BY <1>1 DEF GraphInv, ChartInv, GraphAssumption
<1>3. t \in Nat /\ now <= t
  BY <1>1, <1>2 DEF GraphAssumption, Cadence3
<1>4. StateChange(history[i], now) = Unmeasured \/ t < StateChange(history[i], now)
  BY <1>1
<1>5. ChartState(history[i], t) = ChartState(history[i], now)
  BY <1>2, <1>3, <1>4, HoldsUntil
<1> QED  BY <1>1, <1>5

LEMMA LiveWasMeasured ==
    ASSUME GraphAssumption, GraphInv PROVE LiveIsMeasured
<1>1. ASSUME NEW i \in Charted, ChartState(history[i], moment) = "Live",
             history[i].current # Unmeasured
      PROVE  moment - history[i].measuredAt <= Cadence3 /\ i \in reported
  <2>1. ChartInv(i) /\ moment \in Nat
    BY DEF GraphInv
  <2>2. /\ history[i].state = "Live"
        /\ ~(history[i].measuredAt # Unmeasured /\ moment > history[i].measuredAt + Cadence3)
    BY <1>1 DEF ChartState
  <2>3. history[i].measuredAt \in Nat /\ i \in reported
    BY <1>1, <2>1, <2>2 DEF ChartInv
  <2> QED  BY <2>1, <2>2, <2>3 DEF Cadence3, Unmeasured
<1>2. ASSUME NEW i \in CardSeries, CardState = "Live"
      PROVE  ChartState(history[i], moment) = "Live" /\ history[i].current # Unmeasured
  <2> DEFINE odd == {j \in CardSeries : ChartState(history[j], moment) # "Live"}
  <2>1. i \in Charted /\ MeasuredChart(history[i], moment)
    BY DEF CardSeries, Measuring
  <2>2. history[i].current # Unmeasured
    <3>1. PICK k \in 1..Len(history[i].points) : history[i].points[k].value # Unmeasured
      BY <2>1 DEF MeasuredChart
    <3>2. ChartInv(i)
      BY <2>1 DEF GraphInv
    <3> QED  BY <3>1, <3>2 DEF ChartInv
  <2>3. odd = {}
    <3> SUFFICES ASSUME odd # {} PROVE FALSE
      OBVIOUS
    <3>1. odd \in SUBSET Nat
      BY DEF CardSeries, Measuring, Charted, GraphAssumption
    <3>2. Min(odd) \in odd
      <4> HIDE DEF odd
      <4> QED  BY <3>1, MinIsLeast
    <3>3. CardState = ChartState(history[Min(odd)], moment)
      BY DEF CardState
    <3> QED  BY <1>2, <3>2, <3>3
  <2> QED  BY <2>2, <2>3
<1> QED  BY <1>1, <1>2 DEF LiveIsMeasured, CardSeries, Measuring

\* For any sensors, limits and ages, whatever each sample names and leaves out: between two
\* samples a chart keeps its state until its deadline, and what a chart or a card calls
\* live was measured lately, by the last snapshot that named it.
THEOREM ChartsStayMeasured == GraphInit /\ [][GraphNext]_graphVars => []ChartsAreMeasured
<1>1. GraphInit => GraphInv
  BY DEF GraphInit, GraphInv, Charted
<1>2. GraphInv => ChartsAreMeasured
  BY GraphAssumption, HoldsUntilDeadline, LiveWasMeasured DEF ChartsAreMeasured
<1>3. GraphInv /\ [GraphNext]_graphVars => GraphInv'
  BY GraphAssumption, GraphStep
<1> QED  BY <1>1, <1>2, <1>3, PTL

-----------------------------------------------------------------------------
(* The failure log *)

LEMMA SetInduction ==
    ASSUME NEW T, 0 \in T, \A n \in Nat : n \in T => n + 1 \in T
    PROVE  \A n \in Nat : n \in T
<1> SUFFICES ASSUME Nat \ T # {} PROVE FALSE
    OBVIOUS
<1>1. PICK x \in Nat \ T : \A y \in Nat \ T : x <= y
  <2>1. Nat \ T \in SUBSET Nat
    OBVIOUS
  <2> QED  BY <2>1, LeastNumber
<1>2. x - 1 \in Nat /\ x - 1 \in T
  BY <1>1
<1>3. x - 1 + 1 = x
  BY <1>1
<1> QED  BY <1>1, <1>2, <1>3

\* A function of 0 .. N with a given first value and a step from each number to
\* the next exists.
Defines(f, W, x, N, rule) ==
  f \in [0 .. N -> W] /\ f[0] = x /\ \A n \in 1 .. N : f[n] = rule[n][f[n - 1]]

LEMMA RecursionExists ==
    ASSUME NEW W, NEW x \in W, NEW N \in Nat, NEW rule \in [1 .. N -> [W -> W]]
    PROVE  \E f : Defines(f, W, x, N, rule)
<1> DEFINE Upto(n) == {f \in [0 .. n -> W] : f[0] = x /\ \A k \in 1 .. n : f[k] = rule[k][f[k - 1]]}
           T == {n \in Nat : n <= N => Upto(n) # {}}
<1>1. 0 \in T
  <2>1. [k \in 0 .. 0 |-> x] \in Upto(0)
    OBVIOUS
  <2> QED  BY <2>1
<1>2. ASSUME NEW n \in Nat, n \in T PROVE n + 1 \in T
  <2> HIDE DEF Upto
  <2> SUFFICES ASSUME n + 1 <= N PROVE Upto(n + 1) # {}
      OBVIOUS
  <2> USE DEF Upto
  <2>1. PICK g \in [0 .. n -> W] : g[0] = x /\ \A k \in 1 .. n : g[k] = rule[k][g[k - 1]]
    <3>1. n <= N
      OBVIOUS
    <3> QED  BY <1>2, <3>1
  <2> DEFINE h == [k \in 0 .. (n + 1) |-> IF k = n + 1 THEN rule[n + 1][g[n]] ELSE g[k]]
  <2>2. h \in [0 .. (n + 1) -> W]
    <3>1. g[n] \in W /\ n + 1 \in 1 .. N
      OBVIOUS
    <3>2. rule[n + 1] \in [W -> W]
      BY <3>1
    <3>3. rule[n + 1][g[n]] \in W
      BY <3>1, <3>2
    <3>4. ASSUME NEW k \in 0 .. (n + 1) PROVE h[k] \in W
      BY <3>3
    <3> QED  BY <3>4
  <2>3. h[0] = x
    BY <2>1
  <2>4. ASSUME NEW k \in 1 .. (n + 1) PROVE h[k] = rule[k][h[k - 1]]
    <3>1. CASE k = n + 1
      <4>1. k - 1 = n /\ k - 1 \in 0 .. (n + 1) /\ n # n + 1
        BY <3>1
      <4>2. h[k - 1] = g[n]
        BY <4>1
      <4> QED  BY <3>1, <4>1, <4>2
    <3>2. CASE k # n + 1
      <4>1. k \in 1 .. n /\ k - 1 \in 0 .. (n + 1) /\ k - 1 # n + 1
        BY <3>2
      <4>2. h[k - 1] = g[k - 1] /\ h[k] = g[k]
        BY <3>2, <4>1
      <4> QED  BY <2>1, <4>1, <4>2
    <3> QED  BY <3>1, <3>2
  <2>5. h \in Upto(n + 1)
    <3> HIDE DEF h
    <3> QED  BY <2>2, <2>3, <2>4
  <2> QED  BY <2>5
<1>3. N \in T
  <2> HIDE DEF T
  <2> QED  BY <1>1, <1>2, SetInduction
<1>4. Upto(N) # {}
  <2> HIDE DEF Upto
  <2> QED  BY <1>3
<1> QED  BY <1>4 DEF Defines

LogCells == [id : Nat, part : Nat, last : BOOLEAN]
LogRecords == {c \in LogCells : c.last /\ c.part >= 1}

\* Two functions that begin alike and go on alike end alike.
Alike(F, G, N) == F[0] = G[0] /\ \A n \in 1 .. N : F[n - 1] = G[n - 1] => F[n] = G[n]

LEMMA AlikeToTheEnd ==
    ASSUME NEW N \in Nat, NEW F, NEW G, Alike(F, G, N)
    PROVE  F[N] = G[N]
<1> DEFINE T == {n \in Nat : n <= N => F[n] = G[n]}
<1>1. 0 \in T
  BY DEF Alike
<1>2. ASSUME NEW n \in Nat, n \in T PROVE n + 1 \in T
  <2> SUFFICES ASSUME n + 1 <= N PROVE F[n + 1] = G[n + 1]
      OBVIOUS
  <2>1. n + 1 \in 1 .. N /\ (n + 1) - 1 = n /\ F[n] = G[n]
    BY <1>2
  <2> QED  BY <2>1 DEF Alike
<1>3. \A n \in Nat : n \in T
  <2> HIDE DEF T
  <2> QED  BY <1>1, <1>2, SetInduction
<1> QED  BY <1>3

LEMMA CellsType ==
    ASSUME NEW r \in LogCells
    PROVE  /\ Cells(r) \in Seq(LogCells) /\ Len(Cells(r)) = r.part /\ r.part \in Nat
           /\ \A i \in 1 .. r.part : Cells(r)[i] = LogCell(r.id, i, i = r.part)
<1>1. r.part \in Nat /\ r.id \in Nat
  BY DEF LogCells
<1>2. \A i \in 1 .. r.part : LogCell(r.id, i, i = r.part) \in LogCells
  BY <1>1 DEF LogCell, LogCells
<1>3. Cells(r) \in [1 .. r.part -> LogCells] /\ \A i \in 1 .. r.part : Cells(r)[i] = LogCell(r.id, i, i = r.part)
  BY <1>2 DEF Cells
<1>4. Cells(r) \in Seq(LogCells)
  BY <1>1, <1>3, SeqDef
<1>5. Len(Cells(r)) = r.part
  <2>1. 1 .. Len(Cells(r)) = 1 .. r.part /\ Len(Cells(r)) \in Nat
    BY <1>3, <1>4, LenProperties
  <2> QED  BY <1>1, <2>1
<1> QED  BY <1>1, <1>3, <1>4, <1>5

LEMMA HeaderType == Header \in Seq(LogCells) /\ Len(Header) = 2
<1>1. LogCell(0, 1, FALSE) \in LogCells /\ LogCell(0, 2, TRUE) \in LogCells
  BY DEF LogCell, LogCells
<1>2. \A a, b \in LogCells : <<a, b>> \in Seq(LogCells) /\ Len(<<a, b>>) = 2
  OBVIOUS
<1> QED  BY <1>1, <1>2, Zenon DEF Header

\* The lines written so far, one record after the other.
LaidBy(up, records) ==
  /\ up \in [0 .. Len(records) -> Seq(LogCells)] /\ up[0] = Header
  /\ \A n \in 1 .. Len(records) : up[n] = up[n - 1] \o Cells(records[n])

LEMMA LaidUnfolds ==
    ASSUME NEW records \in Seq(LogCells)
    PROVE  \E up : LaidBy(up, records) /\ Laid(records) = up[Len(records)]
<1> DEFINE N == Len(records)
           W == Seq(LogCells)
           rule == [n \in 1 .. N |-> [s \in W |-> s \o Cells(records[n])]]
<1>1. N \in Nat /\ Header \in W
  BY HeaderType
<1>2. \A n \in 1 .. N : Cells(records[n]) \in W
  BY CellsType
<1>3. rule \in [1 .. N -> [W -> W]]
  <2>1. ASSUME NEW n \in 1 .. N, NEW s \in W PROVE s \o Cells(records[n]) \in W
    BY <1>2, <2>1, ConcatProperties
  <2> QED  BY <2>1
<1>4. PICK G : Defines(G, W, Header, N, rule)
  <2> HIDE DEF N, W, rule
  <2> QED  BY <1>1, <1>3, RecursionExists
<1>5. \A n \in 1 .. N : G[n] = G[n - 1] \o Cells(records[n])
  <2>1. ASSUME NEW n \in 1 .. N PROVE rule[n][G[n - 1]] = G[n - 1] \o Cells(records[n])
    <3>1. n - 1 \in 0 .. N
      OBVIOUS
    <3>2. G[n - 1] \in W
      BY <1>4, <3>1 DEF Defines
    <3> QED  BY <3>2
  <2> HIDE DEF rule
  <2> QED  BY <1>4, <2>1 DEF Defines
<1> DEFINE F == CHOOSE f : f = [n \in 0 .. N |-> IF n = 0 THEN Header ELSE f[n - 1] \o Cells(records[n])]
<1> HIDE DEF N, W, rule
<1>6. G = [n \in 0 .. N |-> IF n = 0 THEN Header ELSE G[n - 1] \o Cells(records[n])]
  <2>1. ASSUME NEW n \in 0 .. N PROVE G[n] = IF n = 0 THEN Header ELSE G[n - 1] \o Cells(records[n])
    <3>1. CASE n = 0
      BY <1>4, <3>1 DEF Defines
    <3>2. CASE n # 0
      <4>1. n \in 1 .. N
        BY <1>1, <3>2
      <4> QED  BY <1>5, <3>2, <4>1
    <3> QED  BY <3>1, <3>2
  <2> QED  BY <1>4, <2>1 DEF Defines
<1>7. F = [n \in 0 .. N |-> IF n = 0 THEN Header ELSE F[n - 1] \o Cells(records[n])]
  BY <1>6
<1>8. Laid(records) = F[N]
  BY DEF Laid, N
<1> HIDE DEF F
<1>9. F[N] = G[N]
  <2>1. F[0] = G[0] /\ \A n \in 1 .. N : n # 0 /\ n \in 0 .. N
    BY <1>1, <1>6, <1>7
  <2>2. \A n \in 1 .. N : F[n - 1] = G[n - 1] => F[n] = G[n]
    BY <1>5, <1>7, <2>1
  <2>3. Alike(F, G, N)
    BY <2>1, <2>2 DEF Alike
  <2> QED  BY <1>1, <2>3, AlikeToTheEnd
<1>10. LaidBy(G, records)
  BY <1>4, <1>5 DEF LaidBy, Defines, N, W
<1> QED  BY <1>8, <1>9, <1>10 DEF N

LEMMA LaidType == ASSUME NEW records \in Seq(LogCells) PROVE Laid(records) \in Seq(LogCells)
<1>1. PICK up : LaidBy(up, records) /\ Laid(records) = up[Len(records)]
  BY LaidUnfolds
<1>2. Len(records) \in 0 .. Len(records)
  OBVIOUS
<1> QED  BY <1>1, <1>2 DEF LaidBy

LEMMA LaidEmpty == Laid(<<>>) = Header
<1>1. <<>> \in Seq(LogCells) /\ Len(<<>>) = 0
  OBVIOUS
<1>2. PICK up : LaidBy(up, <<>>) /\ Laid(<<>>) = up[Len(<<>>)]
  BY <1>1, LaidUnfolds
<1> QED  BY <1>1, <1>2 DEF LaidBy

LEMMA LaidAppend ==
    ASSUME NEW records \in Seq(LogCells), NEW r \in LogCells
    PROVE  Laid(Append(records, r)) = Laid(records) \o Cells(r)
<1> DEFINE N == Len(records)
<1>1. PICK all \in Seq(LogCells) : all = Append(records, r)
  BY AppendProperties
<1>2. N \in Nat /\ Len(all) = N + 1 /\ all[N + 1] = r /\ \A n \in 1 .. N : all[n] = records[n]
  BY <1>1, AppendProperties
<1>3. PICK up : LaidBy(up, records) /\ Laid(records) = up[N]
  BY LaidUnfolds
<1>4. PICK upall : LaidBy(upall, all) /\ Laid(all) = upall[N + 1]
  BY <1>2, LaidUnfolds
<1> HIDE DEF N
<1>5. up[0] = upall[0] /\ \A n \in 1 .. N : up[n - 1] = upall[n - 1] => up[n] = upall[n]
  <2>1. \A n \in 1 .. N : n \in 1 .. Len(all)
    BY <1>2
  <2> QED  BY <1>2, <1>3, <1>4, <2>1 DEF LaidBy, N
<1>6. up[N] = upall[N]
  <2>1. Alike(up, upall, N)
    BY <1>5 DEF Alike
  <2> QED  BY <1>2, <2>1, AlikeToTheEnd
<1>7. N + 1 \in 1 .. Len(all) /\ (N + 1) - 1 = N
  BY <1>2
<1>8. upall[N + 1] = upall[N] \o Cells(r)
  BY <1>2, <1>4, <1>7 DEF LaidBy
<1> QED  BY <1>1, <1>3, <1>4, <1>6, <1>8, Zenon

\* What was collected of the lines so far.
CollectedBy(f, body) ==
  /\ f \in [0 .. Len(body) -> Seq(LogCells)] /\ f[0] = <<>>
  /\ \A n \in 1 .. Len(body) : f[n] = IF body[n].last THEN Append(f[n - 1], body[n]) ELSE f[n - 1]

LEMMA BodyType ==
    ASSUME NEW file \in Seq(LogCells)
    PROVE  /\ Body(file) \in Seq(LogCells)
           /\ Len(Body(file)) = (IF 2 <= Len(file) THEN Len(file) - 2 ELSE 0)
           /\ \A i \in 1 .. Len(file) - 2 : Body(file)[i] = file[i + 2]
<1>1. Len(Header) = 2 /\ Len(file) \in Nat
  BY HeaderType
<1>2. Body(file) = SubSeq(file, 3, Len(file))
  BY <1>1 DEF Body
<1>3. \A i \in 3 .. Len(file) : file[i] \in LogCells
  OBVIOUS
<1>4. /\ SubSeq(file, 3, Len(file)) \in Seq(LogCells)
      /\ Len(SubSeq(file, 3, Len(file))) = IF 3 <= Len(file) THEN Len(file) - 3 + 1 ELSE 0
      /\ \A i \in 1 .. Len(file) - 3 + 1 : SubSeq(file, 3, Len(file))[i] = file[3 + i - 1]
  BY <1>1, <1>3, SubSeqProperties
<1> HIDE DEF Header
<1>5. \A i \in 1 .. Len(file) - 2 : i \in 1 .. Len(file) - 3 + 1 /\ 3 + i - 1 = i + 2
  BY <1>1
<1> QED  BY <1>1, <1>2, <1>4, <1>5

LEMMA LinesUnfold ==
    ASSUME NEW file \in Seq(LogCells)
    PROVE  \E f : CollectedBy(f, Body(file)) /\ Lines(file) = f[Len(Body(file))]
<1> DEFINE body == Body(file)
           N == Len(body)
           W == Seq(LogCells)
           Next1(n, s) == IF body[n].last THEN Append(s, body[n]) ELSE s
           rule == [n \in 1 .. N |-> [s \in W |-> Next1(n, s)]]
<1>1. N \in Nat /\ <<>> \in W /\ body \in W
  BY BodyType
<1>2. \A n \in 1 .. N : body[n] \in LogCells
  BY <1>1
<1>3. rule \in [1 .. N -> [W -> W]]
  <2>1. ASSUME NEW n \in 1 .. N, NEW s \in W PROVE Next1(n, s) \in W
    BY <1>2, AppendProperties
  <2> HIDE DEF Next1
  <2> QED  BY <2>1
<1>4. PICK G : Defines(G, W, <<>>, N, rule)
  <2> HIDE DEF N, W, rule
  <2> QED  BY <1>1, <1>3, RecursionExists
<1>5. \A n \in 1 .. N : G[n] = Next1(n, G[n - 1])
  <2>1. ASSUME NEW n \in 1 .. N PROVE rule[n][G[n - 1]] = Next1(n, G[n - 1])
    <3>1. n - 1 \in 0 .. N
      OBVIOUS
    <3>2. G[n - 1] \in W
      BY <1>4, <3>1 DEF Defines
    <3> HIDE DEF Next1
    <3> QED  BY <3>2
  <2> HIDE DEF rule, Next1
  <2> QED  BY <1>4, <2>1 DEF Defines
<1> DEFINE F == CHOOSE f : f = [n \in 0 .. N |->
                  IF n = 0 THEN <<>> ELSE IF body[n].last THEN Append(f[n - 1], body[n]) ELSE f[n - 1]]
<1> HIDE DEF N, W, rule, body
<1>6. G = [n \in 0 .. N |-> IF n = 0 THEN <<>> ELSE IF body[n].last THEN Append(G[n - 1], body[n]) ELSE G[n - 1]]
  <2>1. ASSUME NEW n \in 0 .. N PROVE G[n] = IF n = 0 THEN <<>> ELSE Next1(n, G[n - 1])
    <3>1. CASE n = 0
      BY <1>4, <3>1 DEF Defines
    <3>2. CASE n # 0
      <4>1. n \in 1 .. N
        BY <1>1, <3>2
      <4> HIDE DEF Next1
      <4> QED  BY <1>5, <3>2, <4>1
    <3> QED  BY <3>1, <3>2
  <2> QED  BY <1>4, <2>1 DEF Defines
<1>7. F = [n \in 0 .. N |-> IF n = 0 THEN <<>> ELSE IF body[n].last THEN Append(F[n - 1], body[n]) ELSE F[n - 1]]
  BY <1>6
<1>8. Lines(file) = F[N]
  BY DEF Lines, N, body
<1> HIDE DEF F
<1>9. F[N] = G[N]
  <2>1. F[0] = G[0] /\ \A n \in 1 .. N : n # 0 /\ n \in 0 .. N
    BY <1>1, <1>6, <1>7
  <2>2. \A n \in 1 .. N : F[n] = Next1(n, F[n - 1])
    BY <1>7, <2>1
  <2> HIDE DEF Next1
  <2>3. \A n \in 1 .. N : F[n - 1] = G[n - 1] => F[n] = G[n]
    BY <1>5, <2>2, Zenon
  <2>4. Alike(F, G, N)
    BY <2>1, <2>3 DEF Alike
  <2> QED  BY <1>1, <2>4, AlikeToTheEnd
<1>10. CollectedBy(G, body)
  BY <1>4, <1>5 DEF CollectedBy, Defines, N, W
<1> QED  BY <1>8, <1>9, <1>10 DEF N, body

\* Where the lines of a file end, and that no line ends after the last.
LayoutOf(off, body, records) ==
  /\ off \in [0 .. Len(records) -> Nat] /\ off[0] = 0 /\ off[Len(records)] <= Len(body)
  /\ \A n \in 1 .. Len(records) :
       /\ off[n] = off[n - 1] + records[n].part
       /\ \A j \in 1 .. records[n].part :
            body[off[n - 1] + j] = LogCell(records[n].id, j, j = records[n].part)
  /\ \A k \in off[Len(records)] + 1 .. Len(body) : ~body[k].last

\* The file holds these records, and perhaps the beginning of a line.
LaysOut(file, records) ==
  /\ Len(Laid(records)) <= Len(file)
  /\ \A k \in 1 .. Len(Laid(records)) : file[k] = Laid(records)[k]
  /\ \A k \in Len(Laid(records)) + 1 .. Len(file) : ~file[k].last

\* What is laid so far stays as it is.
LEMMA LaidGrows ==
    ASSUME NEW records \in Seq(LogCells), NEW up, LaidBy(up, records), NEW n \in 0 .. Len(records)
    PROVE  LET all == up[Len(records)]
           IN  Len(up[n]) <= Len(all) /\ \A k \in 1 .. Len(up[n]) : all[k] = up[n][k]
<1> DEFINE N == Len(records)
           Stays(m) == Len(up[n]) <= Len(up[m]) /\ \A k \in 1 .. Len(up[n]) : up[m][k] = up[n][k]
           T == {m \in Nat : n <= m /\ m <= N => Stays(m)}
<1>1. N \in Nat /\ n \in Nat /\ n <= N /\ up[n] \in Seq(LogCells)
  BY DEF LaidBy
<1> HIDE DEF N
<1>2. 0 \in T
  BY <1>1
<1>3. ASSUME NEW m \in Nat, m \in T PROVE m + 1 \in T
  <2> SUFFICES ASSUME n <= m + 1, m + 1 <= N PROVE Stays(m + 1)
      OBVIOUS
  <2>1. CASE n = m + 1
    BY <1>1, <2>1
  <2>2. CASE n # m + 1
    <3>1. Stays(m)
      BY <1>1, <1>3, <2>2
    <3>2. m + 1 \in 1 .. N /\ m \in 0 .. N /\ (m + 1) - 1 = m
      BY <1>1
    <3>3. /\ up[m + 1] = up[m] \o Cells(records[m + 1])
          /\ up[m] \in Seq(LogCells) /\ Cells(records[m + 1]) \in Seq(LogCells)
      <4>1. records[m + 1] \in LogCells
        BY <3>2 DEF N
      <4> QED  BY <3>2, <4>1, CellsType DEF LaidBy, N
    <3>4. PICK a \in Seq(LogCells), b \in Seq(LogCells), c \in Seq(LogCells) :
                a = up[m] /\ b = Cells(records[m + 1]) /\ c = up[n] /\ up[m + 1] = a \o b
      BY <1>1, <3>3
    <3>5. Len(a \o b) = Len(a) + Len(b) /\ \A k \in 1 .. Len(a) : (a \o b)[k] = a[k]
      OBVIOUS
    <3>6. Len(c) <= Len(a) /\ \A k \in 1 .. Len(c) : a[k] = c[k]
      BY <3>1, <3>4
    <3>7. Len(c) <= Len(a \o b) /\ \A k \in 1 .. Len(c) : (a \o b)[k] = c[k]
      BY <3>5, <3>6
    <3> QED  BY <3>4, <3>7
  <2> QED  BY <2>1, <2>2
<1>4. Stays(N)
  <2> HIDE DEF Stays
  <2>1. N \in T
    <3> HIDE DEF T
    <3> QED  BY <1>1, <1>2, <1>3, SetInduction
  <2> QED  BY <1>1, <2>1
<1> QED  BY <1>4 DEF N

LEMMA LayoutExists ==
    ASSUME NEW file \in Seq(LogCells), NEW records \in Seq(LogRecords), LaysOut(file, records)
    PROVE  \E off : LayoutOf(off, Body(file), records)
<1> DEFINE N == Len(records)
<1>1. records \in Seq(LogCells)
  BY SeqMonotonic DEF LogRecords
<1>2. PICK up : LaidBy(up, records) /\ Laid(records) = up[N]
  BY <1>1, LaidUnfolds
<1>3. N \in Nat /\ Len(file) \in Nat /\ \A n \in 0 .. N : up[n] \in Seq(LogCells) /\ Len(up[n]) \in Nat
  BY <1>2 DEF LaidBy
<1>4. up[0] = Header /\ Len(up[0]) = 2
  BY <1>2, HeaderType DEF LaidBy
<1> HIDE DEF N
<1>5. ASSUME NEW n \in 1 .. N
      PROVE  /\ records[n].part \in Nat \ {0}
             /\ Len(up[n]) = Len(up[n - 1]) + records[n].part
             /\ \A j \in 1 .. records[n].part :
                  /\ up[n][Len(up[n - 1]) + j] = LogCell(records[n].id, j, j = records[n].part)
                  /\ Len(up[n - 1]) + j \in 1 .. Len(up[n])
  <2>1. PICK r \in LogCells : r = records[n] /\ r.part \in Nat \ {0}
    <3>1. records[n] \in LogRecords
      BY DEF N
    <3> QED  BY <3>1 DEF LogRecords, LogCells
  <2>2. n \in 0 .. N /\ n - 1 \in 0 .. N
    BY <1>3
  <2>3. PICK a \in Seq(LogCells), c \in Seq(LogCells) : a = up[n - 1] /\ c = Cells(r)
    BY <1>3, <2>2, CellsType
  <2>4. up[n] = a \o c
    BY <1>2, <2>1, <2>3 DEF LaidBy, N
  <2>5. Len(c) = r.part /\ Len(a) \in Nat /\ \A j \in 1 .. r.part : c[j] = LogCell(r.id, j, j = r.part)
    BY <2>3, CellsType
  <2>6. Len(a \o c) = Len(a) + Len(c) /\ \A j \in 1 .. Len(c) : (a \o c)[Len(a) + j] = c[j]
    OBVIOUS
  <2>7. \A j \in 1 .. r.part : Len(a) + j \in 1 .. Len(a) + r.part
    BY <2>5
  <2>8. Len(up[n]) = Len(a) + r.part
    BY <2>4, <2>5, <2>6
  <2>9. \A j \in 1 .. r.part : up[n][Len(a) + j] = LogCell(r.id, j, j = r.part) /\ Len(a) + j \in 1 .. Len(up[n])
    BY <2>4, <2>5, <2>6, <2>7, <2>8
  <2>10. PICK p \in Nat \ {0} : p = r.part
    BY <2>1
  <2>11. Len(up[n]) = Len(up[n - 1]) + p
    BY <2>3, <2>8, <2>10
  <2>12. \A j \in 1 .. p : /\ up[n][Len(up[n - 1]) + j] = LogCell(r.id, j, j = p)
                            /\ Len(up[n - 1]) + j \in 1 .. Len(up[n])
    BY <2>3, <2>9, <2>10
  <2> QED  BY <2>1, <2>10, <2>11, <2>12
<1>6. \A n \in 0 .. N : Len(up[n]) >= 2
  <2> DEFINE T == {n \in Nat : n <= N => Len(up[n]) >= 2}
  <2>1. 0 \in T
    <3>1. 0 \in Nat /\ Len(up[0]) >= 2
      <4>1. \A l : l = 2 => l >= 2
        OBVIOUS
      <4> QED  BY <1>4, <4>1
    <3> QED  BY <3>1
  <2>2. ASSUME NEW n \in Nat, n \in T PROVE n + 1 \in T
    <3> SUFFICES ASSUME n + 1 <= N PROVE Len(up[n + 1]) >= 2
        OBVIOUS
    <3>1. n + 1 \in 1 .. N /\ (n + 1) - 1 = n /\ n \in 0 .. N /\ n + 1 \in 0 .. N /\ Len(up[n]) >= 2
      BY <1>3, <2>2
    <3>2. Len(up[n + 1]) = Len(up[n]) + records[n + 1].part /\ records[n + 1].part \in Nat
      BY <1>5, <3>1
    <3>3. Len(up[n]) \in Nat
      BY <1>3, <3>1
    <3> QED  BY <3>1, <3>2, <3>3
  <2>3. \A n \in Nat : n \in T
    <3> HIDE DEF T
    <3> QED  BY <2>1, <2>2, SetInduction
  <2> QED  BY <1>3, <2>3
<1>7. PICK off \in [0 .. N -> Nat] : \A n \in 0 .. N : off[n] + 2 = Len(up[n])
  <2> DEFINE o == [n \in 0 .. N |-> Len(up[n]) - 2]
  <2>1. \A n \in 0 .. N : Len(up[n]) - 2 \in Nat /\ (Len(up[n]) - 2) + 2 = Len(up[n])
    BY <1>3, <1>6
  <2>2. o \in [0 .. N -> Nat] /\ \A n \in 0 .. N : o[n] + 2 = Len(up[n])
    BY <2>1
  <2> HIDE DEF o
  <2> QED  BY <2>2
<1>8. Len(up[N]) <= Len(file) /\ (\A k \in 1 .. Len(up[N]) : file[k] = up[N][k])
      /\ \A k \in Len(up[N]) + 1 .. Len(file) : ~file[k].last
  BY <1>2 DEF LaysOut
<1> DEFINE body == Body(file)
<1>9. /\ 0 \in 0 .. N /\ N \in 0 .. N /\ off[0] \in Nat /\ off[N] \in Nat
      /\ off[0] + 2 = 2 /\ off[N] + 2 = Len(up[N]) /\ off[N] + 2 <= Len(file)
  <2>1. 0 \in 0 .. N /\ N \in 0 .. N
    BY <1>3
  <2>2. off[0] \in Nat /\ off[N] \in Nat /\ off[0] + 2 = Len(up[0]) /\ off[N] + 2 = Len(up[N])
    BY <1>7, <2>1
  <2> QED  BY <1>4, <1>8, <2>1, <2>2
<1>10. Len(body) = Len(file) - 2 /\ Len(body) \in Nat /\ \A i \in 1 .. Len(body) : body[i] = file[i + 2]
  <2>1. PICK f \in Nat, o \in Nat : f = Len(file) /\ o = off[N]
    BY <1>3, <1>9
  <2>2. 2 <= f
    BY <1>9, <2>1
  <2>3. Len(body) = f - 2 /\ \A i \in 1 .. f - 2 : body[i] = file[i + 2]
    BY <2>1, <2>2, BodyType
  <2>4. f - 2 \in Nat
    BY <2>2
  <2> HIDE DEF body
  <2> QED  BY <2>1, <2>3, <2>4
<1> HIDE DEF body
<1>11. off[0] = 0 /\ off[N] <= Len(body)
  BY <1>3, <1>9, <1>10
<1>12. ASSUME NEW n \in 1 .. N
       PROVE  /\ off[n] = off[n - 1] + records[n].part
              /\ \A j \in 1 .. records[n].part :
                   body[off[n - 1] + j] = LogCell(records[n].id, j, j = records[n].part)
  <2>1. PICK m : m = n - 1 /\ m \in 0 .. N /\ n \in 0 .. N
    BY <1>3
  <2>2. PICK p \in Nat : p = records[n].part
    BY <1>5
  <2>3. PICK a \in Nat, b \in Nat, c \in Nat, d \in Nat :
              a = off[m] /\ b = off[n] /\ c = Len(up[m]) /\ d = Len(up[n]) /\ a + 2 = c /\ b + 2 = d
    BY <1>3, <1>7, <2>1
  <2>4. Len(up[n]) = Len(up[m]) + p
    BY <1>5, <2>1, <2>2
  <2>5. ASSUME NEW j \in 1 .. p PROVE body[off[m] + j] = LogCell(records[n].id, j, j = p)
    <3>1. /\ up[n][Len(up[m]) + j] = LogCell(records[n].id, j, j = p)
          /\ Len(up[m]) + j \in 1 .. Len(up[n])
      BY <1>5, <2>1, <2>2
    <3>2. PICK k \in Nat : k = a + j
      BY <2>3
    <3>3. k + 2 = Len(up[m]) + j /\ k = off[m] + j
      <4>1. a + 2 = c
        BY <2>3
      <4>2. k + 2 = c + j
        BY <3>2, <4>1
      <4> QED  BY <2>3, <3>2, <4>2
    <3>4. Len(up[n]) <= Len(up[N]) /\ up[N][k + 2] = up[n][k + 2]
      <4>1. Len(up[n]) <= Len(up[N]) /\ \A q \in 1 .. Len(up[n]) : up[N][q] = up[n][q]
        BY <1>1, <1>2, <2>1, LaidGrows DEF N
      <4> QED  BY <3>1, <3>3, <4>1
    <3>5. k + 2 \in 1 .. Len(up[N]) /\ k \in 1 .. Len(body)
      <4>1. PICK x \in Nat, y \in Nat, z \in Nat : x = Len(up[n]) /\ y = Len(up[N]) /\ z = Len(file)
        BY <1>3, <1>9, <2>1
      <4>2. k + 2 <= x /\ x <= y /\ y <= z /\ Len(body) = z - 2
        BY <1>8, <1>10, <3>1, <3>3, <3>4, <4>1
      <4>3. 1 <= k
        BY <2>3, <3>2
      <4> QED  BY <4>1, <4>2, <4>3
    <3>6. body[k] = file[k + 2] /\ file[k + 2] = up[N][k + 2]
      BY <1>8, <1>10, <3>5
    <3> QED  BY <3>1, <3>3, <3>4, <3>6
  <2>6. off[n] = off[m] + p
    <3>1. d = c + p /\ a + 2 = c /\ b + 2 = d
      BY <2>3, <2>4
    <3>2. b = a + p
      BY <3>1
    <3> QED  BY <2>3, <3>2
  <2> QED  BY <2>1, <2>2, <2>5, <2>6
<1>13. ASSUME NEW k \in off[N] + 1 .. Len(body) PROVE ~body[k].last
  <2>1. k \in Nat /\ k \in 1 .. Len(body)
    BY <1>9, <1>10
  <2>2. k + 2 \in Len(up[N]) + 1 .. Len(file)
    <3>1. PICK x \in Nat, z \in Nat, o \in Nat : x = Len(up[N]) /\ z = Len(file) /\ o = off[N]
      BY <1>3, <1>9
    <3>2. o + 2 = x /\ o + 1 <= k /\ k <= z - 2
      BY <1>9, <1>10, <2>1, <3>1
    <3> QED  BY <2>1, <3>1, <3>2
  <2> QED  BY <1>8, <1>10, <2>1, <2>2
<1> QED  BY <1>7, <1>11, <1>12, <1>13 DEF LayoutOf, N, body

LEMMA LayoutRises ==
    ASSUME NEW records \in Seq(LogRecords), NEW body, NEW off, LayoutOf(off, body, records)
    PROVE  \A n \in 0 .. Len(records) : off[n] \in Nat /\ off[n] <= off[Len(records)]
<1> DEFINE N == Len(records)
<1> SUFFICES ASSUME NEW n \in 0 .. N PROVE off[n] \in Nat /\ off[n] <= off[N]
    OBVIOUS
<1>1. /\ N \in Nat /\ \A m \in 0 .. N : off[m] \in Nat
      /\ \A m \in 1 .. N : records[m].part \in Nat /\ off[m] = off[m - 1] + records[m].part
  <2>1. \A m \in 1 .. N : records[m] \in LogRecords
    OBVIOUS
  <2>2. \A r \in LogRecords : r.part \in Nat
    BY DEF LogRecords, LogCells
  <2> QED  BY <2>1, <2>2 DEF LayoutOf
<1> HIDE DEF N
<1> DEFINE T == {m \in Nat : n <= m /\ m <= N => off[n] <= off[m]}
<1>2. 0 \in T
  BY <1>1
<1>3. ASSUME NEW m \in Nat, m \in T PROVE m + 1 \in T
  <2> SUFFICES ASSUME n <= m + 1, m + 1 <= N PROVE off[n] <= off[m + 1]
      OBVIOUS
  <2>1. CASE n = m + 1
    BY <1>1, <2>1
  <2>2. CASE n # m + 1
    <3>1. m \in 0 .. N /\ m + 1 \in 1 .. N /\ (m + 1) - 1 = m /\ off[n] <= off[m]
      BY <1>1, <1>3, <2>2
    <3>2. off[m + 1] = off[m] + records[m + 1].part /\ records[m + 1].part \in Nat
      BY <1>1, <3>1
    <3>3. PICK a \in Nat, b \in Nat, p \in Nat : a = off[n] /\ b = off[m] /\ p = records[m + 1].part
      BY <1>1, <3>1, <3>2
    <3>4. a <= b + p
      <4>1. a <= b
        BY <3>1, <3>3
      <4> QED  BY <4>1
    <3> QED  BY <3>2, <3>3, <3>4
  <2> QED  BY <2>1, <2>2
<1>4. N \in T
  <2> HIDE DEF T
  <2> QED  BY <1>1, <1>2, <1>3, SetInduction
<1> QED  BY <1>1, <1>4

\* Where no line ends nothing is collected.
LEMMA NothingCollected ==
    ASSUME NEW body \in Seq(LogCells), NEW f, CollectedBy(f, body),
           NEW a \in 0 .. Len(body), NEW b \in a .. Len(body), \A k \in a + 1 .. b : ~body[k].last
    PROVE  f[b] = f[a]
<1> DEFINE M == Len(body)
           T == {m \in Nat : a <= m /\ m <= b => f[m] = f[a]}
<1>1. M \in Nat /\ a \in Nat /\ b \in Nat /\ a <= b /\ b <= M
  OBVIOUS
<1> HIDE DEF M
<1>2. 0 \in T
  BY <1>1
<1>3. ASSUME NEW m \in Nat, m \in T PROVE m + 1 \in T
  <2> SUFFICES ASSUME a <= m + 1, m + 1 <= b PROVE f[m + 1] = f[a]
      OBVIOUS
  <2>1. CASE a = m + 1
    BY <2>1
  <2>2. CASE a # m + 1
    <3>1. f[m] = f[a] /\ m + 1 \in 1 .. M /\ (m + 1) - 1 = m /\ m + 1 \in a + 1 .. b
      BY <1>1, <1>3, <2>2
    <3> QED  BY <3>1 DEF CollectedBy, M
  <2> QED  BY <2>1, <2>2
<1>4. b \in T
  <2> HIDE DEF T
  <2> QED  BY <1>1, <1>2, <1>3, SetInduction
<1> QED  BY <1>1, <1>4

\* The lines of a file that lays out these records are these records.
LEMMA LayoutRead ==
    ASSUME NEW file \in Seq(LogCells), NEW records \in Seq(LogRecords), NEW off,
           LayoutOf(off, Body(file), records)
    PROVE  Lines(file) = records
<1> DEFINE body == Body(file)
           M == Len(body)
           N == Len(records)
<1>1. PICK f : CollectedBy(f, body) /\ Lines(file) = f[M]
  BY LinesUnfold
<1>2. body \in Seq(LogCells) /\ M \in Nat /\ N \in Nat
  BY BodyType
<1>3. \A n \in 0 .. N : off[n] \in Nat /\ off[n] <= off[N]
  BY LayoutRises
<1> DEFINE T == {n \in Nat : n <= N => f[off[n]] = SubSeq(records, 1, n)}
<1> HIDE DEF body, M, N
<1>4. off[0] = 0 /\ off[N] <= M /\ N \in 0 .. N /\ off[N] \in Nat
  BY <1>2, <1>3 DEF LayoutOf, M, N, body
<1>5. 0 \in T
  <2>1. SubSeq(records, 1, 0) = <<>>
    BY SubSeqEmpty
  <2> QED  BY <1>1, <1>4, <2>1 DEF CollectedBy
<1>6. ASSUME NEW n \in Nat, n \in T PROVE n + 1 \in T
  <2> SUFFICES ASSUME n + 1 <= N PROVE f[off[n + 1]] = SubSeq(records, 1, n + 1)
      OBVIOUS
  <2>1. n \in 0 .. N /\ n + 1 \in 0 .. N /\ n + 1 \in 1 .. N /\ (n + 1) - 1 = n /\ f[off[n]] = SubSeq(records, 1, n)
    BY <1>2, <1>6
  <2>2. PICK r \in LogRecords : r = records[n + 1]
    BY <2>1 DEF N
  <2>3. PICK p \in Nat : p = r.part /\ 1 <= p
    BY DEF LogRecords, LogCells
  <2>4. PICK a \in Nat, b \in Nat : a = off[n] /\ b = off[n + 1]
    BY <1>3, <2>1
  <2>5. b = a + p /\ \A j \in 1 .. p : body[a + j] = LogCell(r.id, j, j = p)
    BY <2>1, <2>2, <2>3, <2>4 DEF LayoutOf, N, body
  <2>6. b <= M
    <3>1. b <= off[N]
      BY <1>3, <2>1, <2>4
    <3> QED  BY <1>2, <1>4, <3>1
  <2>7. PICK c \in Nat : c + 1 = b /\ c - a \in Nat /\ c - a = p - 1
    <3>1. b = a + p /\ 1 <= p
      BY <2>3, <2>5
    <3>2. b - 1 \in Nat /\ (b - 1) + 1 = b /\ (b - 1) - a \in Nat /\ (b - 1) - a = p - 1
      BY <3>1
    <3> QED  BY <3>2
  <2>8. a \in 0 .. M /\ c \in a .. M /\ b \in 1 .. M /\ b - 1 = c
    <3>1. b = a + p /\ 1 <= p /\ c + 1 = b /\ c - a \in Nat
      BY <2>3, <2>5, <2>7
    <3> QED  BY <1>2, <2>6, <3>1
  <2>9. \A k \in a + 1 .. c : ~body[k].last
    <3>1. ASSUME NEW k \in a + 1 .. c PROVE ~body[k].last
      <4>1. k - a \in 1 .. p /\ k - a # p /\ a + (k - a) = k
        BY <2>3, <2>5, <2>7
      <4>2. body[k] = LogCell(r.id, k - a, FALSE)
        BY <2>5, <4>1
      <4> QED  BY <4>2 DEF LogCell
    <3> QED  BY <3>1
  <2>10. f[c] = f[a]
    BY <1>1, <1>2, <2>8, <2>9, NothingCollected DEF M
  <2>11. body[b] = r /\ body[b].last
    <3>1. p \in 1 .. p
      BY <2>3
    <3>2. body[b] = LogCell(r.id, p, TRUE)
      BY <2>5, <3>1
    <3>3. r = [id |-> r.id, part |-> r.part, last |-> TRUE]
      BY DEF LogRecords, LogCells
    <3> QED  BY <2>3, <3>2, <3>3 DEF LogCell
  <2>12. f[b] = Append(SubSeq(records, 1, n), r)
    BY <1>1, <2>1, <2>4, <2>8, <2>10, <2>11 DEF CollectedBy, M
  <2>13. SubSeq(records, 1, n + 1) = Append(SubSeq(records, 1, n), r)
    <3>1. PICK s \in Seq(LogRecords) : s = SubSeq(records, 1, n)
      <4>1. 1 \in Int /\ n \in Int /\ \A i \in 1 .. n : records[i] \in LogRecords
        BY <2>1 DEF N
      <4> QED  BY <4>1, SubSeqProperties
    <3>2. SubSeq(records, 1, n + 1) = s \o <<r>>
      <4>1. 1 \in 1 .. Len(records) /\ n + 1 \in 1 .. Len(records)
        BY <2>1 DEF N
      <4> QED  BY <2>1, <2>2, <3>1, <4>1, SubSeqRecursiveSecond
    <3> QED  BY <3>1, <3>2, AppendIsConcat
  <2> QED  BY <2>4, <2>12, <2>13
<1>7. f[off[N]] = SubSeq(records, 1, N)
  <2>1. N \in T
    <3> HIDE DEF T
    <3> QED  BY <1>2, <1>5, <1>6, SetInduction
  <2> QED  BY <1>2, <2>1
<1>8. f[M] = f[off[N]]
  <2>1. \A k \in off[N] + 1 .. M : ~body[k].last
    BY DEF LayoutOf, M, N, body
  <2>2. off[N] \in 0 .. M /\ M \in off[N] .. M
    BY <1>2, <1>4
  <2> QED  BY <1>1, <1>2, <2>1, <2>2, NothingCollected DEF M
<1>9. SubSeq(records, 1, N) = records
  BY SubSeqFull DEF N
<1> QED  BY <1>1, <1>7, <1>8, <1>9

\* Each part laid out belongs to one of the records.
LEMMA LayoutCovers ==
    ASSUME NEW records \in Seq(LogRecords), NEW body, NEW off, LayoutOf(off, body, records),
           NEW k \in 1 .. off[Len(records)]
    PROVE  \E n \in 1 .. Len(records) : off[n - 1] < k /\ k <= off[n]
<1> DEFINE N == Len(records)
           T == {n \in 0 .. N : k <= off[n]}
<1>1. N \in Nat /\ N \in 0 .. N /\ \A n \in 0 .. N : off[n] \in Nat
  BY LayoutRises
<1>2. off[0] = 0
  BY DEF LayoutOf
<1> HIDE DEF N
<1>3. k \in Nat /\ 1 <= k /\ k <= off[N]
  BY <1>1 DEF N
<1>4. N \in T /\ T \in SUBSET Nat
  BY <1>1, <1>3
<1>5. PICK n \in T : \A y \in T : n <= y
  <2> HIDE DEF T
  <2> QED  BY <1>4, LeastNumber
<1>6. n # 0
  BY <1>2, <1>3, <1>5
<1>7. n \in 1 .. N /\ n - 1 \in 0 .. N /\ ~(n <= n - 1)
  BY <1>1, <1>5, <1>6
<1>8. ~(k <= off[n - 1])
  BY <1>5, <1>7
<1>9. off[n - 1] < k
  BY <1>1, <1>3, <1>7, <1>8
<1> QED  BY <1>5, <1>7, <1>9 DEF N

LEMMA CellHas ==
    ASSUME NEW id, NEW piece, NEW last
    PROVE  LET cell == LogCell(id, piece, last) IN cell.id = id /\ cell.part = piece /\ cell.last = last
  BY DEF LogCell

\* Each line that ends is one record.
LEMMA LayoutWhole ==
    ASSUME NEW records \in Seq(LogRecords), NEW body \in Seq(LogCells), NEW off,
           LayoutOf(off, body, records), NEW end \in LineEnds(body)
    PROVE  WholeLine(body, end)
<1> DEFINE N == Len(records)
           ends == {i \in LineEnds(body) : i < end}
<1>1. end \in 1 .. Len(body) /\ body[end].last /\ Len(body) \in Nat /\ N \in Nat
  BY DEF LineEnds
<1>2. \A n \in 0 .. N : off[n] \in Nat /\ off[n] <= off[N]
  BY LayoutRises
<1>3. off[N] \in Nat /\ off[N] <= Len(body) /\ off[0] = 0 /\ \A k \in off[N] + 1 .. Len(body) : ~body[k].last
  BY <1>1, <1>2 DEF LayoutOf
<1>4. end \in 1 .. off[N]
  BY <1>1, <1>3
<1>5. PICK n \in 1 .. N : off[n - 1] < end /\ end <= off[n]
  BY <1>4, LayoutCovers
<1>6. \A m \in 1 .. N : /\ m - 1 \in 0 .. N /\ m \in 0 .. N
                        /\ records[m].part \in Nat /\ 1 <= records[m].part
                        /\ off[m] = off[m - 1] + records[m].part
                        /\ \A j \in 1 .. records[m].part :
                             body[off[m - 1] + j] = LogCell(records[m].id, j, j = records[m].part)
  <2>1. \A m \in 1 .. N : records[m] \in LogRecords /\ m - 1 \in 0 .. N /\ m \in 0 .. N
    BY <1>1
  <2>2. \A r \in LogRecords : r.part \in Nat /\ 1 <= r.part
    BY DEF LogRecords, LogCells
  <2> QED  BY <2>1, <2>2 DEF LayoutOf
<1> HIDE DEF N
<1>7. PICK a \in Nat, b \in Nat, p \in Nat \ {0} : a = off[n - 1] /\ b = off[n] /\ p = records[n].part
  BY <1>2, <1>6
<1>8. /\ b = a + p /\ b <= Len(body) /\ a < end /\ end <= b
      /\ \A j \in 1 .. p : body[a + j] = LogCell(records[n].id, j, j = p)
  <2>1. b <= off[N]
    BY <1>2, <1>6, <1>7
  <2>2. b = a + p /\ \A j \in 1 .. p : body[a + j] = LogCell(records[n].id, j, j = p)
    BY <1>6, <1>7
  <2>3. a < end /\ end <= b
    BY <1>5, <1>7
  <2>4. b <= Len(body)
    BY <1>1, <1>3, <2>1
  <2> QED  BY <2>2, <2>3, <2>4
<1>9. \A k \in a + 1 .. b : body[k].id = records[n].id /\ body[k].part = k - a /\ (body[k].last <=> k = b)
  <2>1. ASSUME NEW k \in a + 1 .. b PROVE body[k].id = records[n].id /\ body[k].part = k - a /\ (body[k].last <=> k = b)
    <3>1. PICK j \in 1 .. p : j = k - a /\ a + j = k /\ (j = p <=> k = b)
      <4>1. b = a + p /\ a + 1 <= k /\ k <= b /\ k \in Int
        BY <1>8
      <4>2. k - a \in 1 .. p /\ a + (k - a) = k /\ (k - a = p <=> k = b)
        BY <4>1
      <4> QED  BY <4>2
    <3>2. PICK last : last = (j = p)
      OBVIOUS
    <3>3. body[k] = LogCell(records[n].id, j, last)
      BY <1>8, <3>1, <3>2
    <3>4. body[k].id = records[n].id /\ body[k].part = j /\ body[k].last = last
      BY <3>3, CellHas
    <3> QED  BY <3>1, <3>2, <3>4
  <2> QED  BY <2>1
<1>10. end = b
  <2>1. end \in a + 1 .. b
    BY <1>1, <1>8
  <2> QED  BY <1>1, <1>9, <2>1
<1>11. a \in {0} \cup ends
  <2>1. CASE n = 1
    <3>1. n - 1 = 0
      BY <2>1
    <3> QED  BY <1>3, <1>7, <3>1
  <2>2. CASE n # 1
    <3>1. PICK m \in 1 .. N : m = n - 1
      BY <1>1, <2>2
    <3>2. PICK q \in Nat, c \in Nat : q = records[m].part /\ 1 <= q /\ c = off[m - 1] /\ a = c + q
      BY <1>2, <1>6, <1>7, <3>1
    <3>3. body[c + q] = LogCell(records[m].id, q, q = q)
      <4>1. q \in 1 .. q
        BY <3>2
      <4> QED  BY <1>6, <3>2, <4>1
    <3>4. body[a].last
      <4>1. body[c + q] = LogCell(records[m].id, q, TRUE)
        BY <3>3
      <4>2. PICK cell : cell = body[a]
        OBVIOUS
      <4>3. cell = LogCell(records[m].id, q, TRUE)
        BY <3>2, <4>1, <4>2
      <4> QED  BY <4>2, <4>3 DEF LogCell
    <3>5. a \in 1 .. Len(body)
      <4>1. a = c + q /\ 1 <= q /\ b = a + p /\ b <= Len(body)
        BY <1>8, <3>2
      <4> QED  BY <1>1, <4>1
    <3> QED  BY <1>8, <3>4, <3>5 DEF LineEnds
  <2> QED  BY <2>1, <2>2
<1>12. \A y \in {0} \cup ends : y \in Nat /\ a >= y
  <2>1. ASSUME NEW y \in ends, ~(a >= y) PROVE FALSE
    <3>1. y \in 1 .. Len(body) /\ body[y].last /\ y < end
      BY DEF LineEnds
    <3>2. y \in a + 1 .. b /\ y # b
      BY <1>1, <1>10, <2>1, <3>1
    <3> QED  BY <1>9, <3>1, <3>2
  <2>2. \A y \in ends : y \in Nat
    BY DEF LineEnds
  <2> QED  BY <2>1, <2>2
<1>13. Max({0} \cup ends) = a
  <2> HIDE DEF ends
  <2>1. \A x \in {0} \cup ends : (\A y \in {0} \cup ends : x >= y) => x = a
    BY <1>11, <1>12
  <2> QED  BY <1>11, <1>12, <2>1 DEF Max
<1>14. \A i \in 1 + a .. end : body[i].id = body[end].id /\ body[i].part = i - (1 + a) + 1
  <2>1. ASSUME NEW i \in 1 + a .. end PROVE body[i].id = body[end].id /\ body[i].part = i - (1 + a) + 1
    <3>1. i \in a + 1 .. b /\ b \in a + 1 .. b /\ i - a = i - (1 + a) + 1
      BY <1>8, <1>10
    <3>2. body[i].id = records[n].id /\ body[b].id = records[n].id /\ body[i].part = i - a
      BY <1>9, <3>1
    <3> QED  BY <1>10, <3>1, <3>2
  <2> QED  BY <2>1
<1> QED  BY <1>13, <1>14 DEF WholeLine

LEMMA LargerOfZero == ASSUME NEW x \in Int PROVE Max({0, x}) = IF 0 <= x THEN x ELSE 0
<1>1. \A c \in {0, x} : (\A y \in {0, x} : c >= y) => c = IF 0 <= x THEN x ELSE 0
  OBVIOUS
<1>2. \E c \in {0, x} : \A y \in {0, x} : c >= y
  OBVIOUS
<1> QED  BY <1>1, <1>2 DEF Max

\* The newest, counted from the end.
LEMMA NewestIs ==
    ASSUME NEW S, NEW records \in Seq(S), NEW n \in Nat
    PROVE  LET d == IF n <= Len(records) THEN Len(records) - n ELSE 0
           IN  /\ Newest(n, records) \in Seq(S) /\ d \in Nat
               /\ Len(Newest(n, records)) = Len(records) - d
               /\ \A i \in 1 .. Len(records) - d : Newest(n, records)[i] = records[d + i]
<1> DEFINE d == IF n <= Len(records) THEN Len(records) - n ELSE 0
           l == Len(records)
<1>1. l \in Nat /\ d \in Nat /\ d <= l /\ Max({0, l - n}) = d
  <2>1. l \in Nat /\ l - n \in Int
    OBVIOUS
  <2>2. Max({0, l - n}) = IF 0 <= l - n THEN l - n ELSE 0
    BY <2>1, LargerOfZero
  <2> QED  BY <2>1, <2>2
<1>2. Newest(n, records) = SubSeq(records, 1 + d, l)
  BY <1>1 DEF Newest
<1>3. \A i \in 1 + d .. l : records[i] \in S
  BY <1>1
<1> HIDE DEF d, l
<1>4. 1 + d \in Int /\ l \in Int
  BY <1>1
<1>5. /\ SubSeq(records, 1 + d, l) \in Seq(S)
      /\ Len(SubSeq(records, 1 + d, l)) = IF 1 + d <= l THEN l - (1 + d) + 1 ELSE 0
      /\ \A i \in 1 .. l - (1 + d) + 1 : SubSeq(records, 1 + d, l)[i] = records[1 + d + i - 1]
  BY <1>3, <1>4, SubSeqProperties
<1>6. Len(SubSeq(records, 1 + d, l)) = l - d
  BY <1>1, <1>5
<1>7. \A i \in 1 .. l - d : i \in 1 .. l - (1 + d) + 1 /\ 1 + d + i - 1 = d + i
  BY <1>1
<1> QED  BY <1>1, <1>2, <1>5, <1>6, <1>7 DEF d, l

\* Dropping all but the newest lines before a new one is written, and again
\* after it was.
LEMMA NewestAppend ==
    ASSUME NEW S, NEW records \in Seq(S), NEW r \in S, NEW n \in Nat \ {0}
    PROVE  Newest(n, Append(records, r)) = Append(Newest(n - 1, Newest(n, records)), r)
<1> DEFINE l == Len(records)
           d == IF n <= l THEN l - n ELSE 0
           e == IF n - 1 <= l - d THEN l - d - (n - 1) ELSE 0
           g == IF n <= l + 1 THEN l + 1 - n ELSE 0
<1>1. l \in Nat /\ d \in Nat /\ e \in Nat /\ g \in Nat /\ g = d + e /\ g <= l /\ n - 1 \in Nat /\ d <= l
  <2>1. l \in Nat
    OBVIOUS
  <2> HIDE DEF l
  <2> QED  BY <2>1
<1>2. PICK all \in Seq(S) : all = Append(records, r) /\ Len(all) = l + 1 /\ all[l + 1] = r /\ \A i \in 1 .. l : all[i] = records[i]
  <2>1. /\ Append(records, r) \in Seq(S) /\ Len(Append(records, r)) = l + 1 /\ Append(records, r)[l + 1] = r
        /\ \A i \in 1 .. l : Append(records, r)[i] = records[i]
    BY AppendProperties
  <2> QED  BY <2>1
<1>3. PICK one \in Seq(S) : one = Newest(n, records) /\ Len(one) = l - d /\ \A i \in 1 .. l - d : one[i] = records[d + i]
  BY NewestIs
<1>4. PICK two \in Seq(S) : two = Newest(n - 1, one) /\ Len(two) = l - d - e /\ \A i \in 1 .. l - d - e : two[i] = one[e + i]
  <2>1. PICK k \in Nat : k = n - 1
    BY <1>1
  <2>2. LET c == IF k <= Len(one) THEN Len(one) - k ELSE 0
        IN  /\ Newest(k, one) \in Seq(S) /\ c \in Nat
            /\ Len(Newest(k, one)) = Len(one) - c
            /\ \A i \in 1 .. Len(one) - c : Newest(k, one)[i] = one[c + i]
    BY NewestIs
  <2>3. (IF k <= Len(one) THEN Len(one) - k ELSE 0) = e
    BY <1>3, <2>1
  <2> HIDE DEF e, d, l
  <2>4. /\ Newest(k, one) \in Seq(S) /\ Len(Newest(k, one)) = Len(one) - e
        /\ \A i \in 1 .. Len(one) - e : Newest(k, one)[i] = one[e + i]
    BY <2>2, <2>3
  <2> QED  BY <1>3, <2>1, <2>4
<1>5. PICK left \in Seq(S) : left = Newest(n, all) /\ Len(left) = l + 1 - g /\ \A i \in 1 .. l + 1 - g : left[i] = all[g + i]
  <2>1. LET c == IF n <= Len(all) THEN Len(all) - n ELSE 0
        IN  /\ Newest(n, all) \in Seq(S) /\ c \in Nat
            /\ Len(Newest(n, all)) = Len(all) - c
            /\ \A i \in 1 .. Len(all) - c : Newest(n, all)[i] = all[c + i]
    BY NewestIs
  <2>2. (IF n <= Len(all) THEN Len(all) - n ELSE 0) = g
    BY <1>2
  <2> HIDE DEF g, l
  <2>3. /\ Newest(n, all) \in Seq(S) /\ Len(Newest(n, all)) = Len(all) - g
        /\ \A i \in 1 .. Len(all) - g : Newest(n, all)[i] = all[g + i]
    BY <2>1, <2>2
  <2>4. Len(all) = l + 1
    BY <1>2
  <2>5. PICK new \in Seq(S) : /\ new = Newest(n, all) /\ Len(new) = Len(all) - g
                             /\ \A i \in 1 .. Len(all) - g : new[i] = all[g + i]
    BY <2>3
  <2>6. Len(new) = l + 1 - g /\ \A i \in 1 .. l + 1 - g : new[i] = all[g + i]
    BY <1>1, <2>4, <2>5
  <2> QED  BY <2>5, <2>6
<1> HIDE DEF l, d, e, g
<1>6. PICK right \in Seq(S) : right = Append(two, r) /\ Len(right) = l - d - e + 1 /\ right[l - d - e + 1] = r
                              /\ \A i \in 1 .. l - d - e : right[i] = two[i]
  <2>1. Len(two) = l - d - e
    BY <1>4
  <2>2. /\ Append(two, r) \in Seq(S) /\ Len(Append(two, r)) = Len(two) + 1 /\ Append(two, r)[Len(two) + 1] = r
        /\ \A i \in 1 .. Len(two) : Append(two, r)[i] = two[i]
    BY AppendProperties
  <2> QED  BY <2>1, <2>2
<1>7. Len(left) = Len(right)
  <2>1. l - d - e + 1 = l + 1 - g
    BY <1>1
  <2> QED  BY <1>5, <1>6, <2>1
<1>8. ASSUME NEW i \in 1 .. Len(left) PROVE left[i] = right[i]
  <2>1. i \in 1 .. l + 1 - g
    BY <1>5
  <2>2. left[i] = all[g + i]
    BY <1>5, <2>1
  <2>3. CASE i = l + 1 - g
    <3>1. g + i = l + 1 /\ i = l - d - e + 1
      BY <1>1, <2>3
    <3> QED  BY <1>2, <1>6, <2>2, <3>1
  <2>4. CASE i # l + 1 - g
    <3>1. i \in 1 .. l - d - e /\ e + i \in 1 .. l - d /\ d + (e + i) = g + i /\ g + i \in 1 .. l
      BY <1>1, <2>1, <2>4
    <3>2. right[i] = two[i] /\ two[i] = one[e + i]
      BY <1>4, <1>6, <3>1
    <3>3. one[e + i] = records[d + (e + i)] /\ records[g + i] = all[g + i]
      BY <1>2, <1>3, <3>1
    <3> QED  BY <2>2, <3>1, <3>2, <3>3
  <2> QED  BY <2>3, <2>4
<1>9. left = right
  BY <1>7, <1>8, SeqEqual
<1> QED  BY <1>2, <1>3, <1>4, <1>5, <1>6, <1>9

LEMMA NewestWhenShort ==
    ASSUME NEW S, NEW records \in Seq(S), NEW n \in Nat, Len(records) <= n
    PROVE  Newest(n, records) = records
<1>1. /\ Newest(n, records) \in Seq(S) /\ Len(records) \in Nat
      /\ LET d == IF n <= Len(records) THEN Len(records) - n ELSE 0
         IN  /\ Len(Newest(n, records)) = Len(records) - d
             /\ \A i \in 1 .. Len(records) - d : Newest(n, records)[i] = records[d + i]
  BY NewestIs
<1>2. (IF n <= Len(records) THEN Len(records) - n ELSE 0) = 0
  BY <1>1
<1>3. Len(Newest(n, records)) = Len(records) - 0 /\ \A i \in 1 .. Len(records) - 0 : Newest(n, records)[i] = records[0 + i]
  BY <1>1, <1>2
<1>4. Len(Newest(n, records)) = Len(records) /\ \A i \in 1 .. Len(records) : Newest(n, records)[i] = records[i]
  BY <1>1, <1>3
<1> QED  BY <1>1, <1>4, SeqEqual

LEMMA NewestLength ==
    ASSUME NEW S, NEW records \in Seq(S), NEW n \in Nat
    PROVE  Newest(n, records) \in Seq(S) /\ Len(Newest(n, records)) <= n
<1>1. /\ Newest(n, records) \in Seq(S) /\ Len(records) \in Nat
      /\ LET d == IF n <= Len(records) THEN Len(records) - n ELSE 0
         IN  Len(Newest(n, records)) = Len(records) - d
  BY NewestIs
<1> QED  BY <1>1

\* The file holds these records, or was never written to.
HoldsRecords(file, records) == (file = <<>> /\ records = <<>>) \/ LaysOut(file, records)

LEMMA HeldIsRead ==
    ASSUME NEW file \in Seq(LogCells), NEW records \in Seq(LogRecords),
           HoldsRecords(file, records), Len(records) <= MaxRecords
    PROVE  Readable(file) /\ Lines(file) = records
<1>1. CASE file = <<>> /\ records = <<>>
  <2>1. PICK f : CollectedBy(f, Body(file)) /\ Lines(file) = f[Len(Body(file))]
    BY LinesUnfold
  <2>2. Len(file) = 0
    BY <1>1
  <2>3. Len(Body(file)) = 0
    <3>1. Len(Body(file)) = IF 2 <= Len(file) THEN Len(file) - 2 ELSE 0
      BY BodyType
    <3> QED  BY <2>2, <3>1
  <2> QED  BY <1>1, <2>1, <2>3 DEF Readable, CollectedBy
<1>2. CASE LaysOut(file, records)
  <2>1. PICK off : LayoutOf(off, Body(file), records)
    BY <1>2, LayoutExists
  <2>2. Lines(file) = records
    BY <2>1, LayoutRead
  <2>3. \A end \in LineEnds(Body(file)) : WholeLine(Body(file), end)
    BY <2>1, LayoutWhole, BodyType
  <2>4. records \in Seq(LogCells)
    BY SeqMonotonic DEF LogRecords
  <2>5. PICK up : LaidBy(up, records) /\ Laid(records) = up[Len(records)]
    BY <2>4, LaidUnfolds
  <2>6. 0 \in 0 .. Len(records) /\ up[0] = Header
    BY <2>5 DEF LaidBy
  <2>7. Len(Header) <= Len(Laid(records)) /\ \A k \in 1 .. Len(Header) : Laid(records)[k] = Header[k]
    BY <2>4, <2>5, <2>6, LaidGrows
  <2>8. PICK h \in Seq(LogCells) : h = Header /\ Len(h) = 2
    BY HeaderType
  <2>9. Len(file) \in Nat /\ Len(Laid(records)) \in Nat
    BY <2>4, LaidType
  <2>10. 2 <= Len(file) /\ \A k \in 1 .. 2 : h[k] = file[k]
    BY <1>2, <2>7, <2>8, <2>9 DEF LaysOut
  <2>11. SubSeq(h, 1, 2) = SubSeq(file, 1, 2)
    <3>1. \A k \in 1 .. 2 : k \in 1 .. Len(file) /\ k \in 1 .. Len(h)
      BY <2>8, <2>9, <2>10
    <3>2. \A k \in 1 .. 2 : h[k] \in LogCells /\ file[k] \in LogCells
      BY <3>1
    <3>3. /\ SubSeq(h, 1, 2) \in Seq(LogCells) /\ Len(SubSeq(h, 1, 2)) = 2
          /\ \A k \in 1 .. 2 : SubSeq(h, 1, 2)[k] = h[k]
      BY <3>2, SubSeqProperties
    <3>4. /\ SubSeq(file, 1, 2) \in Seq(LogCells) /\ Len(SubSeq(file, 1, 2)) = 2
          /\ \A k \in 1 .. 2 : SubSeq(file, 1, 2)[k] = file[k]
      BY <3>2, SubSeqProperties
    <3>5. \A k \in 1 .. 2 : SubSeq(h, 1, 2)[k] = SubSeq(file, 1, 2)[k]
      BY <2>10, <3>3, <3>4
    <3> QED  BY <3>3, <3>4, <3>5, SeqEqual
  <2>12. IsPrefix(Header, file)
    BY <2>8, <2>10, <2>11 DEF IsPrefix
  <2> QED  BY <2>2, <2>3, <2>12 DEF Readable
<1> QED  BY <1>1, <1>2 DEF HoldsRecords

\* One sequence is written over another from its start.
LEMMA WrittenOver ==
    ASSUME NEW a \in Seq(LogCells), NEW b \in Seq(LogCells), NEW w \in Nat, w < Len(a)
    PROVE  \E over \in Seq(LogCells) :
             /\ over = SubSeq(a, 1, w + 1) \o SubSeq(b, w + 2, Len(b))
             /\ Len(over) = (IF w + 1 <= Len(b) THEN Len(b) ELSE w + 1)
             /\ \A k \in 1 .. Len(over) : over[k] = IF k <= w + 1 THEN a[k] ELSE b[k]
<1>1. PICK l \in Nat : l = Len(b) /\ w + 1 <= Len(a) /\ w + 1 \in Int /\ w + 2 \in Int
  OBVIOUS
<1>2. PICK x \in Seq(LogCells) : /\ x = SubSeq(a, 1, w + 1) /\ Len(x) = w + 1
                                 /\ \A k \in 1 .. w + 1 : x[k] = a[k]
  <2>1. \A i \in 1 .. w + 1 : a[i] \in LogCells
    BY <1>1
  <2>2. PICK p \in Int : p = w + 1
    BY <1>1
  <2>3. /\ SubSeq(a, 1, p) \in Seq(LogCells)
        /\ Len(SubSeq(a, 1, p)) = IF 1 <= p THEN p - 1 + 1 ELSE 0
        /\ \A k \in 1 .. p - 1 + 1 : SubSeq(a, 1, p)[k] = a[1 + k - 1]
    BY <2>1, <2>2, SubSeqProperties
  <2>4. /\ SubSeq(a, 1, p) \in Seq(LogCells) /\ Len(SubSeq(a, 1, p)) = p
        /\ \A k \in 1 .. p : SubSeq(a, 1, p)[k] = a[k]
    <3>1. 1 <= p /\ p - 1 + 1 = p /\ \A k \in 1 .. p : 1 + k - 1 = k
      BY <2>2
    <3> QED  BY <2>3, <3>1
  <2> QED  BY <2>2, <2>4
<1>3. PICK y \in Seq(LogCells) : /\ y = SubSeq(b, w + 2, l) /\ Len(y) = (IF w + 2 <= l THEN l - (w + 2) + 1 ELSE 0)
                                 /\ \A k \in 1 .. l - (w + 2) + 1 : y[k] = b[w + 2 + k - 1]
  <2>1. \A i \in w + 2 .. l : b[i] \in LogCells
    BY <1>1
  <2>2. PICK p \in Int : p = w + 2
    BY <1>1
  <2>3. /\ SubSeq(b, p, l) \in Seq(LogCells)
        /\ Len(SubSeq(b, p, l)) = IF p <= l THEN l - p + 1 ELSE 0
        /\ \A k \in 1 .. l - p + 1 : SubSeq(b, p, l)[k] = b[p + k - 1]
    BY <2>1, <2>2, SubSeqProperties
  <2> QED  BY <2>2, <2>3
<1>4. PICK over \in Seq(LogCells) : /\ over = x \o y /\ Len(over) = Len(x) + Len(y)
                                    /\ \A k \in 1 .. Len(x) : over[k] = x[k]
                                    /\ \A k \in 1 .. Len(y) : over[Len(x) + k] = y[k]
  <2>1. /\ x \o y \in Seq(LogCells) /\ Len(x \o y) = Len(x) + Len(y)
        /\ \A k \in 1 .. Len(x) : (x \o y)[k] = x[k]
        /\ \A k \in 1 .. Len(y) : (x \o y)[Len(x) + k] = y[k]
    BY ConcatProperties
  <2> QED  BY <2>1
<1>5. Len(over) = IF w + 1 <= l THEN l ELSE w + 1
  <2>1. Len(over) = (w + 1) + IF w + 2 <= l THEN l - (w + 2) + 1 ELSE 0
    BY <1>2, <1>3, <1>4
  <2>2. (w + 1) + (IF w + 2 <= l THEN l - (w + 2) + 1 ELSE 0) = IF w + 1 <= l THEN l ELSE w + 1
    OBVIOUS
  <2> QED  BY <2>1, <2>2
<1>6. ASSUME NEW k \in 1 .. Len(over) PROVE over[k] = IF k <= w + 1 THEN a[k] ELSE b[k]
  <2>1. CASE k <= w + 1
    <3>1. k \in 1 .. w + 1
      BY <2>1
    <3> QED  BY <1>2, <1>4, <2>1, <3>1
  <2>2. CASE ~(k <= w + 1)
    <3>1. PICK j \in Nat : j = k - (w + 1) /\ j \in 1 .. l - (w + 2) + 1 /\ w + 2 <= l /\ w + 2 + j - 1 = k /\ (w + 1) + j = k
      <4>1. k \in Nat /\ k <= l /\ w + 2 <= k
        BY <1>5, <2>2
      <4>2. k - (w + 1) \in Nat /\ k - (w + 1) \in 1 .. l - (w + 2) + 1
            /\ w + 2 + (k - (w + 1)) - 1 = k /\ (w + 1) + (k - (w + 1)) = k /\ w + 2 <= l
        BY <4>1
      <4> QED  BY <4>2
    <3>2. j \in 1 .. Len(y) /\ Len(x) + j = k
      BY <1>2, <1>3, <3>1
    <3> QED  BY <1>3, <1>4, <2>2, <3>1, <3>2
  <2> QED  BY <2>1, <2>2
<1> QED  BY <1>1, <1>2, <1>3, <1>4, <1>5, <1>6

\* An append that is under way: the first parts are the new contents, the
\* others the old ones, after whose records no line ends.
UnderWritten(file, old, new, w) ==
  /\ w <= Len(file) /\ Len(Laid(old)) <= Len(file)
  /\ \A k \in 1 .. Len(file) :
       IF k <= w THEN file[k] = new[k]
       ELSE IF k <= Len(Laid(old)) THEN file[k] = Laid(old)[k] ELSE ~file[k].last

LEMMA UnderWrittenKept ==
    ASSUME NEW file \in Seq(LogCells), NEW old \in Seq(LogRecords), NEW r \in LogRecords,
           NEW w \in Nat, NEW new, new = Laid(Append(old, r)), w < Len(new),
           UnderWritten(file, old, new, w)
    PROVE  /\ LaysOut(file, old)
           /\ UnderWritten(SubSeq(new, 1, w + 1) \o SubSeq(file, w + 2, Len(file)), old, new, w + 1)
<1>1. old \in Seq(LogCells) /\ r \in LogCells /\ r.part \in Nat \ {0} /\ r.id \in Nat
  <2>1. old \in Seq(LogCells)
    BY SeqMonotonic DEF LogRecords
  <2>2. r \in LogCells /\ r.part \in Nat \ {0} /\ r.id \in Nat
    BY DEF LogRecords, LogCells
  <2> QED  BY <2>1, <2>2
<1>2. PICK a \in Seq(LogCells), c \in Seq(LogCells) : a = Laid(old) /\ c = Cells(r) /\ new = a \o c
  BY <1>1, LaidType, LaidAppend, CellsType
<1>3. Len(c) = r.part /\ \A i \in 1 .. r.part : c[i] = LogCell(r.id, i, i = r.part)
  BY <1>1, <1>2, CellsType
<1>4. PICK n \in Seq(LogCells) : /\ n = new /\ Len(n) = Len(a) + Len(c)
                                 /\ \A k \in 1 .. Len(a) : n[k] = a[k]
                                 /\ \A k \in 1 .. Len(c) : n[Len(a) + k] = c[k]
  <2>1. /\ a \o c \in Seq(LogCells) /\ Len(a \o c) = Len(a) + Len(c)
        /\ \A k \in 1 .. Len(a) : (a \o c)[k] = a[k]
        /\ \A k \in 1 .. Len(c) : (a \o c)[Len(a) + k] = c[k]
    BY ConcatProperties
  <2> QED  BY <1>2, <2>1
<1>5. \A k \in Len(a) + 1 .. Len(n) : k < Len(n) => ~n[k].last
  <2>1. ASSUME NEW k \in Len(a) + 1 .. Len(n), k < Len(n) PROVE ~n[k].last
    <3>1. PICK j \in 1 .. r.part : j = k - Len(a) /\ Len(a) + j = k /\ j # r.part
      <4>1. Len(a) \in Nat /\ Len(n) = Len(a) + r.part
        BY <1>3, <1>4
      <4>2. k - Len(a) \in 1 .. r.part /\ Len(a) + (k - Len(a)) = k /\ k - Len(a) # r.part
        BY <1>1, <2>1, <4>1
      <4> QED  BY <4>2
    <3>2. n[k] = c[j]
      BY <1>3, <1>4, <3>1
    <3>3. n[k] = LogCell(r.id, j, FALSE)
      BY <1>3, <3>1, <3>2
    <3> QED  BY <3>3 DEF LogCell
  <2> QED  BY <2>1
<1>6. Len(file) \in Nat /\ Len(a) \in Nat /\ Len(n) \in Nat /\ w < Len(n)
  BY <1>4
<1>7. /\ w <= Len(file) /\ Len(a) <= Len(file)
      /\ \A k \in 1 .. Len(file) : IF k <= w THEN file[k] = n[k]
                                   ELSE IF k <= Len(a) THEN file[k] = a[k] ELSE ~file[k].last
  BY <1>2, <1>4 DEF UnderWritten
<1>8. LaysOut(file, old)
  <2>1. ASSUME NEW k \in 1 .. Len(a) PROVE file[k] = a[k]
    <3>1. k \in 1 .. Len(file)
      BY <1>6, <1>7
    <3>2. n[k] = a[k] /\ k <= Len(a)
      BY <1>4
    <3> QED  BY <1>7, <3>1, <3>2
  <2>2. ASSUME NEW k \in Len(a) + 1 .. Len(file) PROVE ~file[k].last
    <3>1. k \in 1 .. Len(file) /\ ~(k <= Len(a))
      BY <1>6, <1>7
    <3>2. CASE k <= w
      <4>1. k \in Len(a) + 1 .. Len(n) /\ k < Len(n)
        BY <1>6, <3>2
      <4> QED  BY <1>5, <1>7, <3>1, <3>2, <4>1
    <3>3. CASE ~(k <= w)
      BY <1>7, <3>1, <3>3
    <3> QED  BY <3>2, <3>3
  <2> QED  BY <1>2, <1>7, <2>1, <2>2 DEF LaysOut
<1>9. PICK over \in Seq(LogCells) :
        /\ over = SubSeq(n, 1, w + 1) \o SubSeq(file, w + 2, Len(file))
        /\ Len(over) = (IF w + 1 <= Len(file) THEN Len(file) ELSE w + 1)
        /\ \A k \in 1 .. Len(over) : over[k] = IF k <= w + 1 THEN n[k] ELSE file[k]
  <2>1. w < Len(n)
    BY <1>6
  <2>2. \E o \in Seq(LogCells) :
          /\ o = SubSeq(n, 1, w + 1) \o SubSeq(file, w + 2, Len(file))
          /\ Len(o) = (IF w + 1 <= Len(file) THEN Len(file) ELSE w + 1)
          /\ \A k \in 1 .. Len(o) : o[k] = IF k <= w + 1 THEN n[k] ELSE file[k]
    BY <2>1, WrittenOver
  <2> QED  BY <2>2
<1>10. w + 1 <= Len(over) /\ Len(a) <= Len(over)
  <2>1. Len(over) = IF w + 1 <= Len(file) THEN Len(file) ELSE w + 1
    BY <1>9
  <2> QED  BY <1>6, <1>7, <2>1
<1>11. ASSUME NEW k \in 1 .. Len(over)
       PROVE  IF k <= w + 1 THEN over[k] = n[k] ELSE IF k <= Len(a) THEN over[k] = a[k] ELSE ~over[k].last
  <2>1. CASE k <= w + 1
    BY <1>9, <2>1
  <2>2. CASE ~(k <= w + 1)
    <3>1. over[k] = file[k] /\ ~(k <= w) /\ k \in 1 .. Len(file)
      <4>1. over[k] = file[k]
        BY <1>9, <2>2
      <4>2. Len(over) = IF w + 1 <= Len(file) THEN Len(file) ELSE w + 1
        BY <1>9
      <4> QED  BY <1>6, <2>2, <4>1, <4>2
    <3> QED  BY <1>7, <2>2, <3>1
  <2> QED  BY <2>1, <2>2
<1>12. UnderWritten(over, old, n, w + 1)
  BY <1>2, <1>10, <1>11 DEF UnderWritten
<1> QED  BY <1>4, <1>8, <1>9, <1>12

LEMMA UnderWrittenBegins ==
    ASSUME NEW file, NEW old \in Seq(LogRecords), NEW new, LaysOut(file, old), file \in Seq(LogCells)
    PROVE  UnderWritten(file, old, new, 0)
<1>1. Laid(old) \in Seq(LogCells) /\ Len(Laid(old)) \in Nat /\ Len(file) \in Nat
  <2>1. old \in Seq(LogCells)
    BY SeqMonotonic DEF LogRecords
  <2>2. Laid(old) \in Seq(LogCells)
    BY <2>1, LaidType
  <2> QED  BY <2>2
<1> QED  BY <1>1 DEF LaysOut, UnderWritten

LEMMA UnderWrittenEnds ==
    ASSUME NEW file \in Seq(LogCells), NEW old \in Seq(LogRecords), NEW r \in LogRecords,
           NEW new, new = Laid(Append(old, r)), UnderWritten(file, old, new, Len(new))
    PROVE  LaysOut(file, Append(old, r))
<1>1. old \in Seq(LogCells) /\ r \in LogCells
  BY SeqMonotonic DEF LogRecords
<1>2. PICK a \in Seq(LogCells), n \in Seq(LogCells) : a = Laid(old) /\ n = new /\ Len(a) <= Len(n)
  <2>1. PICK x \in Seq(LogCells), c \in Seq(LogCells) : x = Laid(old) /\ c = Cells(r) /\ new = x \o c
    BY <1>1, LaidType, LaidAppend, CellsType
  <2>2. x \o c \in Seq(LogCells) /\ Len(x \o c) = Len(x) + Len(c) /\ Len(x) \in Nat /\ Len(c) \in Nat
    BY ConcatProperties
  <2>3. Len(x) <= Len(x \o c)
    BY <2>2
  <2> QED  BY <2>1, <2>2, <2>3
<1>3. Len(a) \in Nat /\ Len(n) \in Nat /\ Len(file) \in Nat
  OBVIOUS
<1>4. /\ Len(n) <= Len(file)
      /\ \A k \in 1 .. Len(file) : IF k <= Len(n) THEN file[k] = n[k]
                                   ELSE IF k <= Len(a) THEN file[k] = a[k] ELSE ~file[k].last
  BY <1>2 DEF UnderWritten
<1>5. \A k \in 1 .. Len(n) : file[k] = n[k]
  BY <1>3, <1>4
<1>6. \A k \in Len(n) + 1 .. Len(file) : ~file[k].last
  BY <1>2, <1>3, <1>4
<1> QED  BY <1>2, <1>4, <1>5, <1>6 DEF LaysOut

\* What an append that is writing knows: the output keeps the newest records
\* and its own, and unless it moves them the file still holds the others.
AppendsTo(task) ==
  LET kept == Newest(MaxRecords, appended) IN
  /\ task.output = Laid(Newest(MaxRecords, Append(appended, task.record)))
  /\ task.written <= Len(task.output)
  /\ task.written = 0 => HoldsRecords(log, kept)
  /\ ~task.moves => Len(kept) < MaxRecords /\ UnderWritten(log, kept, task.output, task.written)

Jobs == [at : {"idle", "open", "read", "write"}, record : LogCells, output : Seq(LogCells),
         written : Nat, moves : BOOLEAN]

LogTypes ==
  /\ log \in Seq(LogCells) /\ locked \in Instances \cup {Nobody}
  /\ queue \in [Instances -> Seq(LogRecords)] /\ writer \in [Instances -> Jobs]
  /\ failures \in Nat /\ appended \in Seq(LogRecords) /\ damaged \in BOOLEAN

\* Whoever reads or writes the file holds its lock; nothing is written before.
LockHeld ==
  \A i \in Instances :
    /\ writer[i].at # "idle" => writer[i].record \in LogRecords
    /\ writer[i].at \in {"read", "write"} => locked = i
    /\ writer[i].at # "write" => writer[i].written = 0

AppendsAreSound ==
  /\ \A i \in Instances : writer[i].at = "write" => AppendsTo(writer[i])
  /\ (\A i \in Instances : writer[i].at # "write") => HoldsRecords(log, Newest(MaxRecords, appended))

LogInv == LogTypes /\ LockHeld /\ (~damaged => AppendsAreSound)

LEMMA JobsType ==
    ASSUME NEW r \in LogRecords
    PROVE  /\ r \in LogCells /\ Idle \in Jobs
           /\ [Idle EXCEPT !.at = "open", !.record = r] =
                [at |-> "open", record |-> r, output |-> <<>>, written |-> 0, moves |-> FALSE]
           /\ [Idle EXCEPT !.at = "open", !.record = r] \in Jobs
<1>1. r \in LogCells /\ <<>> \in Seq(LogCells)
  BY DEF LogRecords
<1>2. LogCell(0, 0, TRUE) \in LogCells
  BY DEF LogCell, LogCells
<1>3. [Idle EXCEPT !.at = "open", !.record = r] =
        [at |-> "open", record |-> r, output |-> <<>>, written |-> 0, moves |-> FALSE]
  <2>1. PICK cell \in LogCells, empty \in Seq(LogCells) : cell = LogCell(0, 0, TRUE) /\ empty = <<>>
    BY <1>1, <1>2
  <2>2. PICK idle \in Jobs : idle = Idle
    BY <1>1, <1>2 DEF Idle, Jobs
  <2>3. idle.output = empty /\ idle.written = 0 /\ idle.moves = FALSE
    BY <2>1, <2>2 DEF Idle
  <2>4. PICK task \in Jobs : task = [idle EXCEPT !.at = "open", !.record = r]
    BY <1>1 DEF Jobs
  <2>5. /\ task.at = "open" /\ task.record = r /\ task.output = idle.output
        /\ task.written = idle.written /\ task.moves = idle.moves
    BY <2>4 DEF Jobs
  <2>6. task = [at |-> task.at, record |-> task.record, output |-> task.output, written |-> task.written, moves |-> task.moves]
    BY DEF Jobs
  <2> QED  BY <2>1, <2>2, <2>3, <2>4, <2>5, <2>6, Zenon
<1>4. Idle \in Jobs
  BY <1>1, <1>2 DEF Idle, Jobs
<1> QED  BY <1>1, <1>3, <1>4 DEF Jobs

LEMMA IdleJob == Idle \in Jobs /\ Idle.at = "idle" /\ Idle.written = 0
<1>1. <<>> \in Seq(LogCells) /\ LogCell(0, 0, TRUE) \in LogCells
  BY DEF LogCell, LogCells
<1> QED  BY <1>1 DEF Idle, Jobs

LEMMA LogInitInv == LogInit => LogInv
<1> SUFFICES ASSUME LogInit PROVE LogInv
    OBVIOUS
<1>1. <<>> \in Seq(LogCells) /\ <<>> \in Seq(LogRecords) /\ Len(<<>>) = 0
  OBVIOUS
<1>2. LogTypes
  BY <1>1, IdleJob DEF LogInit, LogTypes
<1>3. LockHeld
  BY IdleJob DEF LogInit, LockHeld
<1>4. AppendsAreSound
  <2>1. MaxRecords \in Nat
    BY FailureLogAssumption
  <2>2. Newest(MaxRecords, <<>>) = <<>>
    <3>1. Len(<<>>) <= MaxRecords
      BY <1>1, <2>1
    <3> QED  BY <1>1, <2>1, <3>1, NewestWhenShort
  <2>3. HoldsRecords(log, Newest(MaxRecords, appended))
    BY <2>2 DEF LogInit, HoldsRecords
  <2>4. \A i \in Instances : writer[i].at # "write"
    BY IdleJob DEF LogInit
  <2> QED  BY <2>3, <2>4 DEF AppendsAreSound
<1> QED  BY <1>2, <1>3, <1>4 DEF LogInv

LEMMA JobReplaced ==
    ASSUME LogTypes, NEW i \in Instances, NEW task \in Jobs, writer' = [writer EXCEPT ![i] = task]
    PROVE  /\ writer' \in [Instances -> Jobs] /\ writer'[i] = task
           /\ \A j \in Instances : j # i => writer'[j] = writer[j]
  BY DEF LogTypes

LEMMA LinesType == ASSUME NEW file \in Seq(LogCells) PROVE Lines(file) \in Seq(LogCells)
<1>1. PICK f : CollectedBy(f, Body(file)) /\ Lines(file) = f[Len(Body(file))]
  BY LinesUnfold
<1>2. Len(Body(file)) \in 0 .. Len(Body(file))
  BY BodyType
<1> QED  BY <1>1, <1>2 DEF CollectedBy

LEMMA OutputType ==
    ASSUME NEW file \in Seq(LogCells), NEW r \in LogCells
    PROVE  Output(file, r) \in Seq(LogCells)
<1>1. PICK k \in Nat : k = MaxRecords - 1
  BY FailureLogAssumption
<1>2. PICK lines \in Seq(LogCells) : lines = Newest(k, Lines(file))
  BY LinesType, NewestLength
<1>3. Append(lines, r) \in Seq(LogCells)
  BY AppendProperties
<1>4. Laid(Append(lines, r)) \in Seq(LogCells)
  BY <1>3, LaidType
<1> QED  BY <1>1, <1>2, <1>4 DEF Output

\* The lock that an instance takes is free, or it had it.
LEMMA LockKept ==
    ASSUME LogTypes, LockHeld, NEW i \in Instances, NEW task \in Jobs, writer' = [writer EXCEPT ![i] = task],
           task.at # "idle" => task.record \in LogRecords,
           task.at # "write" => task.written = 0,
           task.at \in {"read", "write"} => locked' = i /\ locked \in {i, Nobody},
           locked' # locked => locked \in {i, Nobody}
    PROVE  writer' \in [Instances -> Jobs] /\ LockHeld'
<1>1. writer' \in [Instances -> Jobs] /\ writer'[i] = task /\ \A j \in Instances : j # i => writer'[j] = writer[j]
  BY JobReplaced
<1>2. Nobody \notin Instances
  BY FailureLogAssumption
<1>3. ASSUME NEW j \in Instances
      PROVE  /\ writer'[j].at # "idle" => writer'[j].record \in LogRecords
             /\ writer'[j].at \in {"read", "write"} => locked' = j
             /\ writer'[j].at # "write" => writer'[j].written = 0
  <2>1. CASE j = i
    BY <1>1, <2>1
  <2>2. CASE j # i
    <3>1. writer'[j] = writer[j]
      BY <1>1, <2>2
    <3>2. writer[j].at \in {"read", "write"} => locked = j
      BY DEF LockHeld
    <3>3. writer[j].at \in {"read", "write"} => locked' = j
      BY <1>2, <2>2, <3>2
    <3> QED  BY <3>1, <3>3 DEF LockHeld
  <2> QED  BY <2>1, <2>2
<1> QED  BY <1>1, <1>3 DEF LockHeld

LEMMA RecordsAreMade ==
    ASSUME failures \in Nat, NEW size \in 1 .. MaxSize
    PROVE  NewRecord(size) \in LogRecords
<1>1. size \in Nat /\ size >= 1 /\ failures + 1 \in Nat
  BY FailureLogAssumption
<1> QED  BY <1>1 DEF NewRecord, LogCell, LogRecords, LogCells

LEMMA LogTypesKept ==
    ASSUME LogTypes, LockHeld, [LogNext]_logVars
    PROVE  LogTypes' /\ LockHeld'
<1>1. CASE UNCHANGED logVars
  BY <1>1 DEF logVars, LogTypes, LockHeld
<1>2. ASSUME NEW i \in Instances, Enqueue(i) PROVE LogTypes' /\ LockHeld'
  <2>1. queue' \in [Instances -> Seq(LogRecords)]
    <3>1. PICK size \in 1 .. MaxSize :
            queue' = [queue EXCEPT ![i] = IF Len(@) < MaxPending THEN Append(@, NewRecord(size)) ELSE @]
      BY <1>2 DEF Enqueue
    <3>2. NewRecord(size) \in LogRecords
      BY RecordsAreMade DEF LogTypes
    <3>3. PICK q \in Seq(LogRecords) : q = queue[i]
      BY DEF LogTypes
    <3>4. Append(q, NewRecord(size)) \in Seq(LogRecords)
      BY <3>2, AppendProperties
    <3> QED  BY <3>1, <3>3, <3>4 DEF LogTypes
  <2>2. failures' \in Nat
    BY <1>2 DEF Enqueue, LogTypes
  <2> QED  BY <1>2, <2>1, <2>2 DEF Enqueue, LogTypes, LockHeld
<1>3. ASSUME NEW i \in Instances, RecordPanic(i) PROVE LogTypes' /\ LockHeld'
  <2>1. failures' \in Nat
    BY <1>3 DEF RecordPanic, LogTypes
  <2>2. writer' \in [Instances -> Jobs] /\ LockHeld'
    <3>1. CASE UNCHANGED writer
      BY <1>3, <3>1 DEF RecordPanic, LogTypes, LockHeld
    <3>2. ASSUME NEW size \in 1 .. MaxSize, Append1(i, NewRecord(size))
          PROVE writer' \in [Instances -> Jobs] /\ LockHeld'
      <4>1. PICK r \in LogRecords : r = NewRecord(size)
        BY RecordsAreMade DEF LogTypes
      <4>2. PICK task \in Jobs : /\ task = [Idle EXCEPT !.at = "open", !.record = r]
                                /\ task.at = "open" /\ task.record = r /\ task.written = 0
        BY JobsType
      <4>3. writer' = [writer EXCEPT ![i] = task]
        BY <3>2, <4>1, <4>2 DEF Append1
      <4>4. locked' = locked
        BY <1>3 DEF RecordPanic
      <4> QED  BY <4>2, <4>3, <4>4, LockKept
    <3> QED  BY <1>3, <3>1, <3>2 DEF RecordPanic
  <2> QED  BY <1>3, <2>1, <2>2 DEF RecordPanic, LogTypes
<1>4. ASSUME NEW i \in Instances, TakeRecord(i) PROVE LogTypes' /\ LockHeld'
  <2>1. PICK q \in Seq(LogRecords) : q = queue[i] /\ q # <<>>
    BY <1>4 DEF TakeRecord, LogTypes
  <2>2. Head(q) \in LogRecords /\ Tail(q) \in Seq(LogRecords)
    BY <2>1
  <2>3. queue' \in [Instances -> Seq(LogRecords)]
    BY <1>4, <2>1, <2>2 DEF TakeRecord, LogTypes
  <2>4. writer' \in [Instances -> Jobs] /\ LockHeld'
    <3>1. CASE UNCHANGED writer
      BY <1>4, <3>1 DEF TakeRecord, LogTypes, LockHeld
    <3>2. CASE Append1(i, Head(queue[i]))
      <4>1. PICK r \in LogRecords : r = Head(queue[i])
        BY <2>1, <2>2
      <4>2. PICK task \in Jobs : /\ task = [Idle EXCEPT !.at = "open", !.record = r]
                                /\ task.at = "open" /\ task.record = r /\ task.written = 0
        BY JobsType
      <4>3. writer' = [writer EXCEPT ![i] = task]
        BY <3>2, <4>1, <4>2 DEF Append1
      <4>4. locked' = locked
        BY <1>4 DEF TakeRecord
      <4> QED  BY <4>2, <4>3, <4>4, LockKept
    <3> QED  BY <1>4, <3>1, <3>2 DEF TakeRecord
  <2> QED  BY <1>4, <2>3, <2>4 DEF TakeRecord, LogTypes
<1>5. ASSUME NEW i \in Instances, OpenLog(i) PROVE LogTypes' /\ LockHeld'
  <2>1. writer' \in [Instances -> Jobs] /\ LockHeld' /\ locked' \in Instances \cup {Nobody}
    <3>1. CASE Stop(i) /\ UNCHANGED locked
      <4>1. writer' = [writer EXCEPT ![i] = Idle] /\ locked' = locked
        BY <3>1 DEF Stop
      <4> QED  BY <4>1, IdleJob, LockKept DEF LogTypes
    <3>2. CASE locked = Nobody /\ locked' = i /\ writer' = [writer EXCEPT ![i].at = "read"]
      <4>1. PICK old \in Jobs : old = writer[i] /\ old.at = "open" /\ old.record \in LogRecords /\ old.written = 0
        <5>1. writer[i] \in Jobs /\ writer[i].at = "open"
          BY <1>5 DEF OpenLog, LogTypes
        <5> QED  BY <5>1 DEF LockHeld
      <4>2. PICK task \in Jobs : task = [old EXCEPT !.at = "read"]
        BY DEF Jobs
      <4>3. task.at = "read" /\ task.record = old.record /\ task.written = old.written
        BY <4>2 DEF Jobs
      <4>4. writer' = [writer EXCEPT ![i] = task]
        BY <3>2, <4>1, <4>2
      <4> QED  BY <3>2, <4>1, <4>3, <4>4, LockKept
    <3> QED  BY <1>5, <3>1, <3>2 DEF OpenLog
  <2> QED  BY <1>5, <2>1 DEF OpenLog, LogTypes
<1>6. ASSUME NEW i \in Instances, ReadLog(i) PROVE LogTypes' /\ LockHeld'
  <2>1. PICK old \in Jobs : old = writer[i] /\ old.at = "read" /\ old.record \in LogRecords /\ locked = i
    <3>1. writer[i] \in Jobs /\ writer[i].at = "read"
      BY <1>6 DEF ReadLog, LogTypes
    <3> QED  BY <3>1 DEF LockHeld
  <2>2. writer' \in [Instances -> Jobs] /\ LockHeld' /\ locked' \in Instances \cup {Nobody}
    <3>1. CASE Stop(i) /\ locked' = Nobody
      <4>1. writer' = [writer EXCEPT ![i] = Idle]
        BY <3>1 DEF Stop
      <4> QED  BY <2>1, <3>1, <4>1, IdleJob, LockKept
    <3>2. CASE /\ writer' = [writer EXCEPT ![i].at = "write",
                                           ![i].output = Output(log, writer[i].record),
                                           ![i].moves = Moves(log)]
               /\ UNCHANGED locked
      <4>1. PICK out \in Seq(LogCells) : out = Output(log, writer[i].record)
        <5>1. old.record \in LogCells /\ log \in Seq(LogCells)
          BY <2>1 DEF LogTypes, Jobs
        <5> QED  BY <2>1, <5>1, OutputType
      <4>2. PICK moves \in BOOLEAN : moves = Moves(log)
        BY DEF Moves
      <4>3. PICK task \in Jobs : task = [old EXCEPT !.at = "write", !.output = out, !.moves = moves]
        BY DEF Jobs
      <4>4. task.at = "write" /\ task.record = old.record
        BY <4>3 DEF Jobs
      <4>5. writer' = [writer EXCEPT ![i] = task]
        BY <2>1, <3>2, <4>1, <4>2, <4>3 DEF LogTypes
      <4> QED  BY <2>1, <3>2, <4>4, <4>5, LockKept
    <3> QED  BY <1>6, <3>1, <3>2 DEF ReadLog
  <2> QED  BY <1>6, <2>2 DEF ReadLog, LogTypes
<1>7. ASSUME NEW i \in Instances, WritePart(i) PROVE LogTypes' /\ LockHeld'
  <2>1. PICK old \in Jobs : old = writer[i] /\ old.at = "write" /\ old.written < Len(old.output)
                            /\ old.record \in LogRecords /\ locked = i
    <3>1. writer[i] \in Jobs /\ writer[i].at = "write" /\ writer[i].written < Len(writer[i].output)
      BY <1>7 DEF WritePart, LogTypes
    <3> QED  BY <3>1 DEF LockHeld
  <2>2. log' \in Seq(LogCells)
    <3>1. PICK a \in Seq(LogCells), w \in Nat : a = old.output /\ w = old.written /\ w < Len(a)
      BY <2>1 DEF Jobs
    <3>2. log' = SubSeq(a, 1, w + 1) \o SubSeq(log, w + 2, Len(log))
      BY <1>7, <2>1, <3>1 DEF WritePart
    <3>3. log \in Seq(LogCells)
      BY DEF LogTypes
    <3> QED  BY <3>1, <3>2, <3>3, WrittenOver
  <2>3. writer' \in [Instances -> Jobs] /\ LockHeld'
    <3>1. old.written \in Nat
      BY DEF Jobs
    <3>2. PICK more \in Nat : more = old.written + 1
      BY <3>1
    <3>3. PICK task \in Jobs : task = [old EXCEPT !.written = more]
      BY DEF Jobs
    <3>4. task.at = "write" /\ task.record = old.record
      BY <2>1, <3>3 DEF Jobs
    <3>5. writer' = [writer EXCEPT ![i] = task]
      BY <1>7, <2>1, <3>2, <3>3 DEF WritePart
    <3>6. locked' = locked
      BY <1>7 DEF WritePart
    <3> QED  BY <2>1, <3>4, <3>5, <3>6, LockKept
  <2> QED  BY <1>7, <2>2, <2>3 DEF WritePart, LogTypes
<1>8. ASSUME NEW i \in Instances, SetLen(i) PROVE LogTypes' /\ LockHeld'
  <2>1. writer[i] \in Jobs /\ writer[i].at = "write" /\ writer[i].record \in LogRecords /\ locked = i
    BY <1>8 DEF SetLen, LogTypes, LockHeld
  <2>2. log' \in Seq(LogCells) /\ appended' \in Seq(LogRecords)
    <3>1. appended \in Seq(LogRecords) /\ log' = writer[i].output /\ appended' = Append(appended, writer[i].record)
      BY <1>8 DEF SetLen, LogTypes
    <3> QED  BY <2>1, <3>1, AppendProperties DEF Jobs
  <2>3. writer' \in [Instances -> Jobs] /\ LockHeld'
    <3>1. writer' = [writer EXCEPT ![i] = Idle] /\ locked' = Nobody
      BY <1>8 DEF SetLen, Stop
    <3> QED  BY <2>1, <3>1, IdleJob, LockKept
  <2> QED  BY <1>8, <2>2, <2>3 DEF SetLen, LogTypes
<1>9. ASSUME NEW i \in Instances, Interrupt(i) PROVE LogTypes' /\ LockHeld'
  <2>1. queue' \in [Instances -> Seq(LogRecords)]
    <3>1. <<>> \in Seq(LogRecords)
      OBVIOUS
    <3> QED  BY <1>9, <3>1 DEF Interrupt, LogTypes
  <2>2. appended' \in Seq(LogRecords)
    <3>1. CASE writer[i].at = "write" /\ writer[i].written = Len(writer[i].output)
      <4>1. writer[i].record \in LogRecords
        BY <3>1 DEF LockHeld
      <4>2. appended \in Seq(LogRecords) /\ appended' = Append(appended, writer[i].record)
        BY <1>9, <3>1 DEF Interrupt, LogTypes
      <4> QED  BY <4>1, <4>2, AppendProperties
    <3>2. CASE ~(writer[i].at = "write" /\ writer[i].written = Len(writer[i].output))
      BY <1>9, <3>2 DEF Interrupt, LogTypes
    <3> QED  BY <3>1, <3>2
  <2>3. writer' \in [Instances -> Jobs] /\ LockHeld'
    <3>1. writer' = [writer EXCEPT ![i] = Idle] /\ locked' = IF locked = i THEN Nobody ELSE locked
      BY <1>9 DEF Interrupt, Stop
    <3> QED  BY <3>1, IdleJob, LockKept
  <2>4. damaged' \in BOOLEAN /\ locked' \in Instances \cup {Nobody}
    BY <1>9 DEF Interrupt, LogTypes
  <2> QED  BY <1>9, <2>1, <2>2, <2>3, <2>4 DEF Interrupt, LogTypes
<1> QED  BY <1>1, <1>2, <1>3, <1>4, <1>5, <1>6, <1>7, <1>8, <1>9 DEF LogNext

LEMMA OnlyOneWrites ==
    ASSUME LockHeld, NEW i \in Instances, writer[i].at \in {"read", "write"}
    PROVE  \A j \in Instances : writer[j].at \in {"read", "write"} => j = i
  BY DEF LockHeld

\* A step that leaves the file and the appends that write it alone.
LEMMA AppendsRest ==
    ASSUME AppendsAreSound, UNCHANGED <<log, appended>>,
           \A j \in Instances : writer'[j].at = "write" => writer'[j] = writer[j],
           \A j \in Instances : writer[j].at = "write" => writer'[j].at = "write"
    PROVE  AppendsAreSound'
<1>1. log' = log /\ appended' = appended
  OBVIOUS
<1>2. ASSUME NEW j \in Instances, writer'[j].at = "write" PROVE AppendsTo(writer[j])'
  <2>1. writer'[j] = writer[j] /\ writer[j].at = "write"
    BY <1>2
  <2>2. AppendsTo(writer[j])
    BY <2>1 DEF AppendsAreSound
  <2> QED  BY <1>1, <2>1, <2>2 DEF AppendsTo, HoldsRecords, LaysOut, UnderWritten
<1>3. ASSUME \A j \in Instances : writer'[j].at # "write"
      PROVE  HoldsRecords(log', Newest(MaxRecords, appended'))
  BY <1>1, <1>3 DEF AppendsAreSound
<1> QED  BY <1>2, <1>3 DEF AppendsAreSound

\* The other records stay while a new one is written after them.
LEMMA NewestGrows ==
    ASSUME NEW records \in Seq(LogRecords), NEW r \in LogRecords, Len(Newest(MaxRecords, records)) < MaxRecords
    PROVE  Newest(MaxRecords, Append(records, r)) = Append(Newest(MaxRecords, records), r)
<1>1. PICK k \in Nat : k = MaxRecords - 1 /\ MaxRecords \in Nat \ {0}
  BY FailureLogAssumption
<1>2. PICK kept \in Seq(LogRecords) : kept = Newest(MaxRecords, records)
  BY <1>1, NewestLength
<1>3. Len(kept) <= k
  <2>1. Len(kept) \in Nat /\ Len(kept) < MaxRecords
    BY <1>2
  <2> QED  BY <1>1, <2>1
<1>4. Newest(k, kept) = kept
  BY <1>3, NewestWhenShort
<1> QED  BY <1>1, <1>2, <1>4, NewestAppend

LEMMA ReadLogKeeps ==
    ASSUME LogTypes, LockHeld, AppendsAreSound, NEW i \in Instances, ReadLog(i)
    PROVE  AppendsAreSound'
<1>1. writer[i].at = "read" /\ writer[i] \in Jobs /\ writer[i].record \in LogRecords /\ writer[i].written = 0
  BY DEF ReadLog, LogTypes, LockHeld
<1>2. \A j \in Instances : writer[j].at # "write"
  BY <1>1, OnlyOneWrites
<1>3. PICK kept \in Seq(LogRecords) : kept = Newest(MaxRecords, appended) /\ Len(kept) <= MaxRecords /\ Len(kept) \in Nat
  <2>1. MaxRecords \in Nat /\ appended \in Seq(LogRecords)
    BY FailureLogAssumption DEF LogTypes
  <2> QED  BY <2>1, NewestLength
<1>4. HoldsRecords(log, kept)
  BY <1>2, <1>3 DEF AppendsAreSound
<1>5. Readable(log) /\ Lines(log) = kept
  BY <1>3, <1>4, HeldIsRead DEF LogTypes
<1>6. PICK r \in LogRecords : r = writer[i].record
  BY <1>1
<1>7. Output(log, r) = Laid(Newest(MaxRecords, Append(appended, r)))
  <2>1. MaxRecords \in Nat \ {0} /\ appended \in Seq(LogRecords)
    BY FailureLogAssumption DEF LogTypes
  <2>2. Newest(MaxRecords, Append(appended, r)) = Append(Newest(MaxRecords - 1, kept), r)
    BY <1>3, <2>1, NewestAppend
  <2> QED  BY <1>5, <2>2 DEF Output
<1>8. writer' = [writer EXCEPT ![i].at = "write", ![i].output = Output(log, r), ![i].moves = Moves(log)]
  BY <1>5, <1>6 DEF ReadLog
<1>9. PICK out \in Seq(LogCells), moves \in BOOLEAN : out = Output(log, r) /\ moves = Moves(log)
  <2>1. r \in LogCells /\ log \in Seq(LogCells)
    BY DEF LogTypes, LogRecords
  <2> QED  BY <2>1, OutputType DEF Moves
<1>10. PICK was \in Jobs : was = writer[i] /\ was.record = r /\ was.written = 0
  BY <1>1, <1>6
<1>11. PICK task \in Jobs : task = [was EXCEPT !.at = "write", !.output = out, !.moves = moves]
  BY DEF Jobs
<1>12. task.at = "write" /\ task.record = r /\ task.output = out /\ task.moves = moves /\ task.written = 0
  BY <1>10, <1>11 DEF Jobs
<1>13. writer' = [writer EXCEPT ![i] = task]
  BY <1>8, <1>9, <1>10, <1>11 DEF LogTypes
<1>14. writer'[i] = task /\ \A j \in Instances : j # i => writer'[j] = writer[j]
  BY <1>13, JobReplaced
<1>15. log' = log /\ appended' = appended
  BY DEF ReadLog
<1>16. ~moves => Len(kept) < MaxRecords /\ UnderWritten(log, kept, out, 0)
  <2> SUFFICES ASSUME ~moves PROVE Len(kept) < MaxRecords /\ UnderWritten(log, kept, out, 0)
      OBVIOUS
  <2>1. log # <<>> /\ ~(Len(kept) >= MaxRecords)
    BY <1>5, <1>9 DEF Moves
  <2>2. LaysOut(log, kept)
    BY <1>4, <2>1 DEF HoldsRecords
  <2>3. UnderWritten(log, kept, out, 0)
    BY <2>2, UnderWrittenBegins DEF LogTypes
  <2>4. Len(kept) < MaxRecords
    BY <1>3, <2>1, FailureLogAssumption
  <2> QED  BY <2>3, <2>4
<1>17. AppendsTo(task)
  <2>1. 0 <= Len(out)
    OBVIOUS
  <2> QED  BY <1>3, <1>4, <1>7, <1>9, <1>12, <1>16, <2>1 DEF AppendsTo
<1>18. ASSUME NEW j \in Instances, writer'[j].at = "write" PROVE AppendsTo(writer[j])'
  <2>1. j = i
    BY <1>2, <1>14, <1>18
  <2>2. writer'[j] = task
    BY <1>14, <2>1
  <2> QED  BY <1>15, <1>17, <2>2 DEF AppendsTo, HoldsRecords, LaysOut, UnderWritten
<1>19. writer'[i].at = "write"
  BY <1>12, <1>14
<1> QED  BY <1>18, <1>19 DEF AppendsAreSound

LEMMA WritePartKeeps ==
    ASSUME LogTypes, LockHeld, AppendsAreSound, NEW i \in Instances, WritePart(i)
    PROVE  AppendsAreSound'
<1>1. writer[i].at = "write" /\ writer[i] \in Jobs /\ writer[i].record \in LogRecords
  BY DEF WritePart, LogTypes, LockHeld
<1>2. \A j \in Instances : j # i => writer[j].at # "write"
  BY <1>1, OnlyOneWrites
<1>3. PICK was \in Jobs, r \in LogRecords, w \in Nat, out \in Seq(LogCells) :
         /\ was = writer[i] /\ r = was.record /\ w = was.written /\ out = was.output /\ w < Len(out)
  BY <1>1 DEF Jobs, WritePart
<1>4. PICK kept \in Seq(LogRecords) : kept = Newest(MaxRecords, appended)
  <2>1. MaxRecords \in Nat /\ appended \in Seq(LogRecords)
    BY FailureLogAssumption DEF LogTypes
  <2> QED  BY <2>1, NewestLength
<1>5. /\ out = Laid(Newest(MaxRecords, Append(appended, r)))
      /\ ~was.moves => Len(kept) < MaxRecords /\ UnderWritten(log, kept, out, w)
  <2>1. AppendsTo(writer[i])
    BY <1>1 DEF AppendsAreSound
  <2> QED  BY <1>3, <1>4, <2>1 DEF AppendsTo
<1>6. log' = SubSeq(out, 1, w + 1) \o SubSeq(log, w + 2, Len(log)) /\ appended' = appended
  BY <1>3 DEF WritePart
<1>7. PICK more \in Nat : more = w + 1 /\ more # 0 /\ more <= Len(out)
  <2>1. w \in Nat /\ Len(out) \in Nat /\ w < Len(out)
    BY <1>3
  <2>2. w + 1 \in Nat /\ w + 1 # 0 /\ w + 1 <= Len(out)
    BY <2>1
  <2> QED  BY <2>2
<1>8. PICK task \in Jobs : task = [was EXCEPT !.written = more]
  BY DEF Jobs
<1>9. /\ task.at = was.at /\ task.record = r /\ task.output = out /\ task.moves = was.moves /\ task.written = more
  BY <1>3, <1>8 DEF Jobs
<1>10. writer' = [writer EXCEPT ![i] = task]
  BY <1>3, <1>7, <1>8 DEF WritePart
<1>11. writer'[i] = task /\ \A j \in Instances : j # i => writer'[j] = writer[j]
  BY <1>10, JobReplaced
<1>12. ~task.moves => UnderWritten(log', kept, out, more)
  <2> SUFFICES ASSUME ~was.moves PROVE UnderWritten(log', kept, out, w + 1)
      BY <1>7, <1>9
  <2>1. Len(kept) < MaxRecords /\ UnderWritten(log, kept, out, w)
    BY <1>5
  <2>2. Newest(MaxRecords, Append(appended, r)) = Append(kept, r)
    BY <1>4, <2>1, NewestGrows DEF LogTypes
  <2>3. out = Laid(Append(kept, r))
    BY <1>5, <2>2
  <2>4. log \in Seq(LogCells)
    BY DEF LogTypes
  <2>5. UnderWritten(SubSeq(out, 1, w + 1) \o SubSeq(log, w + 2, Len(log)), kept, out, w + 1)
    BY <1>3, <2>1, <2>3, <2>4, UnderWrittenKept
  <2> QED  BY <1>6, <2>5
<1>13. ASSUME NEW j \in Instances, writer'[j].at = "write" PROVE AppendsTo(writer[j])'
  <2>1. writer'[j] = task
    BY <1>2, <1>11, <1>13
  <2>2. AppendsTo(task)'
    BY <1>4, <1>5, <1>6, <1>7, <1>9, <1>12 DEF AppendsTo
  <2> QED  BY <2>1, <2>2 DEF AppendsTo
<1>14. writer'[i].at = "write"
  BY <1>1, <1>3, <1>9, <1>11
<1> QED  BY <1>13, <1>14 DEF AppendsAreSound

LEMMA SetLenKeeps ==
    ASSUME LogTypes, LockHeld, AppendsAreSound, NEW i \in Instances, SetLen(i)
    PROVE  AppendsAreSound'
<1>1. writer[i].at = "write" /\ writer[i].record \in LogRecords
  BY DEF SetLen, LockHeld
<1>2. \A j \in Instances : j # i => writer[j].at # "write"
  BY <1>1, OnlyOneWrites
<1>3. writer' = [writer EXCEPT ![i] = Idle]
  BY DEF SetLen, Stop
<1>4. writer'[i] = Idle /\ \A j \in Instances : j # i => writer'[j] = writer[j]
  BY <1>3, IdleJob, JobReplaced
<1>5. \A j \in Instances : writer'[j].at # "write"
  BY <1>2, <1>4, IdleJob
<1>6. log' = Laid(Newest(MaxRecords, appended'))
  <2>1. AppendsTo(writer[i])
    BY <1>1 DEF AppendsAreSound
  <2> QED  BY <2>1 DEF AppendsTo, SetLen
<1>7. LaysOut(log', Newest(MaxRecords, appended'))
  <2>1. PICK laid \in Seq(LogCells) : laid = Laid(Newest(MaxRecords, appended'))
    <3>1. Append(appended, writer[i].record) \in Seq(LogRecords) /\ MaxRecords \in Nat
      BY <1>1, AppendProperties, FailureLogAssumption DEF LogTypes
    <3>2. Newest(MaxRecords, Append(appended, writer[i].record)) \in Seq(LogRecords)
      BY <3>1, NewestLength
    <3>3. Newest(MaxRecords, Append(appended, writer[i].record)) \in Seq(LogCells)
      BY <3>2, SeqMonotonic DEF LogRecords
    <3>4. appended' = Append(appended, writer[i].record)
      BY DEF SetLen
    <3> QED  BY <3>3, <3>4, LaidType
  <2>2. Len(laid) <= Len(laid) /\ \A k \in Len(laid) + 1 .. Len(laid) : FALSE
    OBVIOUS
  <2> QED  BY <1>6, <2>1, <2>2 DEF LaysOut
<1> QED  BY <1>5, <1>7 DEF AppendsAreSound, HoldsRecords

LEMMA InterruptKeeps ==
    ASSUME LogTypes, LockHeld, AppendsAreSound, NEW i \in Instances, Interrupt(i), ~damaged'
    PROVE  AppendsAreSound'
<1>1. writer[i] \in Jobs /\ log' = log
  BY DEF Interrupt, LogTypes
<1>2. writer' = [writer EXCEPT ![i] = Idle]
  BY DEF Interrupt, Stop
<1>3. writer'[i] = Idle /\ \A j \in Instances : j # i => writer'[j] = writer[j]
  BY <1>2, IdleJob, JobReplaced
<1>4. CASE writer[i].at # "write"
  <2>1. appended' = appended
    BY <1>4 DEF Interrupt
  <2>2. \A j \in Instances : /\ writer'[j].at = "write" => writer'[j] = writer[j]
                             /\ writer[j].at = "write" => writer'[j].at = "write"
    BY <1>3, <1>4, IdleJob
  <2> QED  BY <1>1, <2>1, <2>2, AppendsRest
<1>5. CASE writer[i].at = "write"
  <2>1. \A j \in Instances : writer'[j].at # "write"
    BY <1>3, <1>5, IdleJob, OnlyOneWrites
  <2>2. PICK kept \in Seq(LogRecords) : kept = Newest(MaxRecords, appended)
    <3>1. MaxRecords \in Nat /\ appended \in Seq(LogRecords)
      BY FailureLogAssumption DEF LogTypes
    <3> QED  BY <3>1, NewestLength
  <2>3. PICK task \in Jobs, r \in LogRecords, w \in Nat, out \in Seq(LogCells) :
          task = writer[i] /\ r = task.record /\ w = task.written /\ out = task.output
    BY <1>1, <1>5 DEF Jobs, LockHeld
  <2>4. /\ out = Laid(Newest(MaxRecords, Append(appended, r)))
        /\ w <= Len(out) /\ (w = 0 => HoldsRecords(log, kept))
        /\ ~task.moves => Len(kept) < MaxRecords /\ UnderWritten(log, kept, out, w)
    <3>1. AppendsTo(writer[i])
      BY <1>5 DEF AppendsAreSound
    <3> QED  BY <2>2, <2>3, <3>1 DEF AppendsTo
  <2>5. ~(task.moves /\ w > 0)
    BY <2>3 DEF Interrupt
  <2>6. log \in Seq(LogCells) /\ appended \in Seq(LogRecords) /\ Len(out) \in Nat
    BY DEF LogTypes
  <2>7. 2 <= Len(out)
    <3>1. Append(appended, r) \in Seq(LogRecords) /\ MaxRecords \in Nat
      BY <2>6, AppendProperties, FailureLogAssumption
    <3>2. PICK all \in Seq(LogCells) : all = Newest(MaxRecords, Append(appended, r))
      <4>1. Newest(MaxRecords, Append(appended, r)) \in Seq(LogRecords)
        BY <3>1, NewestLength
      <4> QED  BY <4>1, SeqMonotonic DEF LogRecords
    <3>3. PICK up : LaidBy(up, all) /\ Laid(all) = up[Len(all)]
      BY LaidUnfolds
    <3>4. 0 \in 0 .. Len(all) /\ up[0] = Header
      BY <3>3 DEF LaidBy
    <3>5. Len(Header) <= Len(Laid(all))
      BY <3>3, <3>4, LaidGrows
    <3> QED  BY <2>4, <3>2, <3>5, HeaderType
  <2>8. CASE w < Len(out)
    <3>1. appended' = appended
      BY <2>3, <2>6, <2>8 DEF Interrupt
    <3>2. HoldsRecords(log, kept)
      <4>1. CASE w = 0
        BY <2>4, <4>1
      <4>2. CASE w # 0
        <5>1. ~task.moves
          BY <2>5, <4>2
        <5>2. out = Laid(Append(kept, r))
          BY <2>2, <2>4, <2>6, <5>1, NewestGrows
        <5>3. LaysOut(log, kept)
          BY <2>4, <2>6, <2>8, <5>1, <5>2, UnderWrittenKept
        <5> QED  BY <5>3 DEF HoldsRecords
      <4> QED  BY <4>1, <4>2
    <3> QED  BY <1>1, <2>1, <2>2, <3>1, <3>2 DEF AppendsAreSound
  <2>9. CASE ~(w < Len(out))
    <3>1. w = Len(out) /\ w > 0
      BY <2>4, <2>6, <2>7, <2>9
    <3>2. ~task.moves
      BY <2>5, <3>1
    <3>3. appended' = Append(appended, r)
      BY <1>5, <2>3, <3>1 DEF Interrupt
    <3>4. Newest(MaxRecords, Append(appended, r)) = Append(kept, r)
      BY <2>2, <2>4, <2>6, <3>2, NewestGrows
    <3>5. LaysOut(log, Append(kept, r))
      <4>1. out = Laid(Append(kept, r)) /\ UnderWritten(log, kept, out, Len(out))
        BY <2>4, <3>1, <3>2, <3>4
      <4> QED  BY <2>6, <4>1, UnderWrittenEnds
    <3> QED  BY <1>1, <2>1, <3>3, <3>4, <3>5 DEF AppendsAreSound, HoldsRecords
  <2> QED  BY <2>8, <2>9
<1> QED  BY <1>4, <1>5

LEMMA LogInvKept == LogInv /\ [LogNext]_logVars => LogInv'
<1> SUFFICES ASSUME LogInv, [LogNext]_logVars PROVE LogInv'
    OBVIOUS
<1>1. LogTypes' /\ LockHeld' /\ LogTypes /\ LockHeld
  BY LogTypesKept DEF LogInv
<1>2. ASSUME ~damaged' PROVE AppendsAreSound'
  <2>1. CASE UNCHANGED logVars
    <3>1. AppendsAreSound
      BY <1>2, <2>1 DEF LogInv, logVars
    <3>2. UNCHANGED <<log, appended>> /\ writer' = writer
      BY <2>1 DEF logVars
    <3> QED  BY <3>1, <3>2, AppendsRest
  <2>2. ASSUME NEW i \in Instances, Enqueue(i) \/ RecordPanic(i) \/ TakeRecord(i) \/ OpenLog(i)
        PROVE  AppendsAreSound'
    <3>1. AppendsAreSound /\ log' = log /\ appended' = appended
      BY <1>2, <2>2 DEF LogInv, Enqueue, RecordPanic, TakeRecord, OpenLog
    <3>2. \A j \in Instances : /\ writer'[j].at = "write" => writer'[j] = writer[j]
                               /\ writer[j].at = "write" => writer'[j].at = "write"
      <4>1. \A j \in Instances : writer[j] \in Jobs
        BY <1>1 DEF LogTypes
      <4>2. CASE writer' = writer
        BY <4>2
      <4>3. CASE writer[i].at # "write" /\ \E task \in Jobs : task.at # "write" /\ writer' = [writer EXCEPT ![i] = task]
        <5>1. PICK task \in Jobs : task.at # "write" /\ writer' = [writer EXCEPT ![i] = task]
          BY <4>3
        <5>2. writer'[i] = task /\ \A j \in Instances : j # i => writer'[j] = writer[j]
          BY <1>1, <5>1, JobReplaced
        <5> QED  BY <4>3, <5>1, <5>2
      <4>4. ASSUME NEW r \in LogRecords, Append1(i, r)
            PROVE  \E task \in Jobs : task.at # "write" /\ writer' = [writer EXCEPT ![i] = task]
        <5>1. PICK task \in Jobs : task = [Idle EXCEPT !.at = "open", !.record = r] /\ task.at = "open"
          BY JobsType
        <5>2. writer' = [writer EXCEPT ![i] = task]
          BY <4>4, <5>1 DEF Append1
        <5> QED  BY <5>1, <5>2
      <4>5. CASE Enqueue(i)
        BY <4>2, <4>5 DEF Enqueue
      <4>6. CASE RecordPanic(i)
        <5>1. CASE writer' = writer
          BY <4>2, <5>1
        <5>2. ASSUME NEW size \in 1 .. MaxSize, writer[i].at = "idle", Append1(i, NewRecord(size))
              PROVE  writer[i].at # "write" /\ \E task \in Jobs : task.at # "write" /\ writer' = [writer EXCEPT ![i] = task]
          <6>1. NewRecord(size) \in LogRecords
            BY <1>1, RecordsAreMade DEF LogTypes
          <6> QED  BY <4>4, <5>2, <6>1
        <5> QED  BY <4>3, <4>6, <5>1, <5>2 DEF RecordPanic
      <4>7. CASE TakeRecord(i)
        <5>1. CASE writer' = writer
          BY <4>2, <5>1
        <5>2. ASSUME writer[i].at = "idle", Append1(i, Head(queue[i]))
              PROVE  writer[i].at # "write" /\ \E task \in Jobs : task.at # "write" /\ writer' = [writer EXCEPT ![i] = task]
          <6>1. PICK q \in Seq(LogRecords) : q = queue[i] /\ q # <<>>
            BY <1>1, <4>7 DEF TakeRecord, LogTypes
          <6>2. Head(q) \in LogRecords
            BY <6>1
          <6> QED  BY <4>4, <5>2, <6>1, <6>2
        <5> QED  BY <4>3, <4>7, <5>1, <5>2 DEF TakeRecord
      <4>8. CASE OpenLog(i)
        <5>1. writer[i].at = "open"
          BY <4>8 DEF OpenLog
        <5>2. CASE Stop(i)
          BY <4>3, <5>1, <5>2, IdleJob DEF Stop
        <5>3. CASE writer' = [writer EXCEPT ![i].at = "read"]
          <6>1. PICK was \in Jobs : was = writer[i]
            BY <4>1
          <6>2. PICK task \in Jobs : task = [was EXCEPT !.at = "read"]
            BY DEF Jobs
          <6>3. task.at = "read" /\ writer' = [writer EXCEPT ![i] = task]
            BY <5>3, <6>1, <6>2 DEF Jobs
          <6> QED  BY <4>3, <5>1, <6>3
        <5> QED  BY <4>8, <5>2, <5>3 DEF OpenLog
      <4> QED  BY <2>2, <4>5, <4>6, <4>7, <4>8
    <3> QED  BY <3>1, <3>2, AppendsRest
  <2>3. ASSUME NEW i \in Instances, ReadLog(i) \/ WritePart(i) \/ SetLen(i) PROVE AppendsAreSound'
    <3>1. AppendsAreSound
      BY <1>2, <2>3 DEF LogInv, ReadLog, WritePart, SetLen
    <3> QED  BY <1>1, <2>3, <3>1, ReadLogKeeps, WritePartKeeps, SetLenKeeps
  <2>4. ASSUME NEW i \in Instances, Interrupt(i) PROVE AppendsAreSound'
    <3>1. ~damaged
      BY <1>2, <2>4 DEF Interrupt
    <3>2. AppendsAreSound
      BY <3>1 DEF LogInv
    <3> QED  BY <1>1, <1>2, <2>4, <3>2, InterruptKeeps
  <2> QED  BY <2>1, <2>2, <2>3, <2>4 DEF LogNext
<1> QED  BY <1>1, <1>2 DEF LogInv

\* Between appends, of any instance, the file is readable and holds the newest
\* of the records that were written, in their order, whatever appends were cut
\* short, refused or made by other instances, as long as none was cut short
\* while it began the file or moved its lines (failure.rs:263-325).
THEOREM NewestAreKept == LogSpec => []KeepsTheNewest
<1>1. LogInv => KeepsTheNewest
  <2> SUFFICES ASSUME LogInv, ~damaged, locked = Nobody
               PROVE  Readable(log) /\ Lines(log) = Newest(MaxRecords, appended)
      BY DEF KeepsTheNewest
  <2>1. \A i \in Instances : writer[i].at # "write"
    BY FailureLogAssumption DEF LogInv, LockHeld
  <2>2. MaxRecords \in Nat /\ appended \in Seq(LogRecords) /\ log \in Seq(LogCells)
    BY FailureLogAssumption DEF LogInv, LogTypes
  <2>3. Newest(MaxRecords, appended) \in Seq(LogRecords) /\ Len(Newest(MaxRecords, appended)) <= MaxRecords
    BY <2>2, NewestLength
  <2>4. HoldsRecords(log, Newest(MaxRecords, appended))
    BY <2>1 DEF LogInv, AppendsAreSound
  <2> QED  BY <2>2, <2>3, <2>4, HeldIsRead
<1> QED  BY <1>1, LogInitInv, LogInvKept, PTL DEF LogSpec
=============================================================================

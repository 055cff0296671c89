-------------------------- MODULE GraphicsRecovery --------------------------
(***************************************************************************)
(* The loss of the graphics device under the window, and its replacement   *)
(* (src/vendor/egui-wgpu/src/recovery.rs and winit.rs, the repository's    *)
(* own patch of the renderer; src/src/main.rs):                            *)
(*                                                                         *)
(*   - the loss is noticed by the device's callback or by a failed upload, *)
(*   - paint then starts at most one worker that creates another device,   *)
(*     asks it on every frame without waiting, and spaces the attempts,    *)
(*   - the new device knows none of the textures: a mirror of the live     *)
(*     ones is replayed into it once the surface, too, is recreated,       *)
(*   - the application suspends its controls from the first report until   *)
(*     a frame is presented by the new device.                             *)
(*                                                                         *)
(* A frame is painted in steps, and the device may fail between them.  The *)
(* callback runs within a call on the device, hence on the UI thread, and  *)
(* an old device's late callback finds its own flag set and is silent.     *)
(* Resizing, screenshots and other viewports are left out.                 *)
(***************************************************************************)
EXTENDS Integers

CONSTANTS
    Textures,     \* texture ids; egui takes a new id, here one that is free
    Contents,     \* what a half of a texture may hold
    MaxFailures   \* bound: refused attempts in a row that are told apart

ASSUME GraphicsAssumption ==
    0 \notin Textures /\ 0 \notin Contents /\ MaxFailures \in 1 .. 5

\* A texture is two halves, so that one can be updated alone.
Absent == <<0, 0>>
Images == (Contents \X Contents) \cup {Absent}

NoSet == [id |-> 0, part |-> "none", content |-> 0]

VARIABLES
    device,         \* "ok" or "failed"
    lost,           \* DeviceRecovery::lost
    attempt,        \* DeviceRecovery::pending: none, creating, made or refused
    wait,           \* seconds until retry_at
    refusals,
    needsPresent,   \* recovery_needs_present
    needsRecreate,  \* SurfaceState::needs_recreate
    recovering,     \* graphics_recovering, what the application sees
    paintStep,      \* where paint_and_update_textures stands
    wanted,         \* the textures of the frame, as egui means them
    delta,          \* TexturesDelta of the frame: one set and the freed ids
    mirror,         \* TextureReplay::images
    retired,
    replay,         \* TextureReplay::pending
    gpu,            \* the textures in the current renderer
    sinceStart,     \* history: seconds since a worker was last started,
    sinceRefusal    \* and since the last refused attempt, as far as they matter

recoveryVars == <<lost, attempt, wait, refusals, needsPresent, recovering,
                  sinceStart, sinceRefusal>>
textureVars  == <<wanted, delta, mirror, retired, replay, gpu>>
graphicsVars == <<device, needsRecreate, paintStep, recoveryVars, textureVars>>

Longest == 2 ^ MaxFailures

GraphicsInit ==
    /\ device = "ok" /\ lost = FALSE /\ attempt = "none" /\ wait = 0 /\ refusals = 0
    /\ needsPresent = FALSE /\ needsRecreate = FALSE /\ recovering = FALSE /\ paintStep = "idle"
    /\ wanted = [t \in Textures |-> Absent] /\ mirror = wanted /\ gpu = wanted
    /\ delta = [set |-> NoSet, free |-> {}] /\ retired = {} /\ replay = FALSE
    /\ sinceStart = Longest /\ sinceRefusal = Longest

-----------------------------------------------------------------------------
(* The device and the clock *)

\* set_device_lost_callback; destruction by the program itself is not reported.
ReportLoss == lost' = TRUE /\ recovering' = (recovering \/ ~lost)

DeviceFails ==
    /\ device = "ok" /\ device' = "failed"
    /\ ReportLoss \/ UNCHANGED <<lost, recovering>>
    /\ UNCHANGED <<attempt, wait, refusals, needsPresent, sinceStart, sinceRefusal,
                   needsRecreate, paintStep, textureVars>>

OneLess(n) == IF n = 0 THEN 0 ELSE n - 1
OneMore(n) == IF n = Longest THEN n ELSE n + 1

SecondPasses ==
    /\ paintStep = "idle"
    /\ wait' = OneLess(wait)
    /\ sinceStart' = OneMore(sinceStart) /\ sinceRefusal' = OneMore(sinceRefusal)
    /\ UNCHANGED <<device, lost, attempt, refusals, needsPresent, recovering,
                   needsRecreate, paintStep, textureVars>>

\* The worker: RenderState::create succeeds or not, and the UI is woken.
AttemptEnds ==
    /\ attempt = "creating" /\ attempt' \in {"made", "refused"}
    /\ UNCHANGED <<device, lost, wait, refusals, needsPresent, recovering, sinceStart,
                   sinceRefusal, needsRecreate, paintStep, textureVars>>

-----------------------------------------------------------------------------
(* Textures *)

\* egui: what this frame sets and, after it, frees.
Sets == {NoSet}
   \cup {[id |-> t, part |-> "whole", content |-> c] :
           t \in {u \in Textures : wanted[u] = Absent}, c \in Contents}
   \cup {[id |-> t, part |-> "half", content |-> c] :
           t \in {u \in Textures : wanted[u] # Absent} \ delta.free, c \in Contents}

\* ImageDelta::apply for the mirror, update_texture for the GPU: a partial
\* update needs the texture.
Updated(images, set) ==
    [t \in Textures |->
       IF t # set.id THEN images[t]
       ELSE IF set.part = "whole" THEN <<set.content, set.content>>
       ELSE IF images[t] = Absent THEN Absent
       ELSE <<images[t][1], set.content>>]

Without(images, ids) == [t \in Textures |-> IF t \in ids THEN Absent ELSE images[t]]

\* TextureReplay::apply: textures retire at the next frame.
Apply(set, free) ==
    /\ mirror' = Updated(Without(mirror, retired), set)
    /\ retired' = free

-----------------------------------------------------------------------------
(* paint_and_update_textures *)

\* poll_or_start, a replacement is there: the retry time stays as it was set
\* when the worker started.  Below, as it would be if it were cleared.
AdoptAtOnce ==
    /\ attempt = "made" /\ attempt' = "none"
    /\ refusals' = 0 /\ lost' = FALSE /\ device' = "ok"
    /\ wait' = 0
    /\ UNCHANGED <<recovering, sinceStart, sinceRefusal>>

Adopt ==
    /\ attempt = "made" /\ attempt' = "none"
    /\ refusals' = 0 /\ lost' = FALSE /\ device' = "ok"
    /\ UNCHANGED <<wait, recovering, sinceStart, sinceRefusal>>

\* poll_or_start, the attempt was refused, or its worker ended without a word.
BackOff ==
    /\ attempt = "refused" /\ attempt' = "none"
    /\ refusals' = IF refusals = MaxFailures THEN refusals ELSE refusals + 1
    /\ wait' = 2 ^ refusals' /\ sinceRefusal' = 0
    /\ recovering' = TRUE
    /\ UNCHANGED <<lost, device, sinceStart>>

\* poll_or_start, nothing pending and the retry time past: a thread is spawned,
\* or it is not.
StartAttempt ==
    /\ attempt = "none" /\ wait = 0
    /\ \/ attempt' = "creating" /\ wait' = 1 /\ sinceStart' = 0
       \/ attempt' = "none" /\ wait' = 5 /\ UNCHANGED sinceStart
    /\ recovering' = TRUE
    /\ UNCHANGED <<lost, device, refusals, sinceRefusal>>

\* poll_or_start, the worker is still at it or the retry time is to come.
KeepWaiting ==
    /\ attempt = "creating" \/ (attempt = "none" /\ wait > 0)
    /\ UNCHANGED <<lost, device, attempt, refusals, wait, recovering, sinceStart, sinceRefusal>>

\* The frame is given up; its delta is consumed all the same.
GiveUpFrame == paintStep' = "idle"

BeginPaint ==
    /\ paintStep = "idle"
    /\ \E set \in Sets :
         LET now == Updated(Without(wanted, delta.free), set) IN
         \E free \in SUBSET {t \in Textures : now[t] # Absent} :
            /\ delta' = [set |-> set, free |-> free] /\ wanted' = now
            /\ Apply(set, free)
    /\ \/ /\ ~lost
          /\ paintStep' = "surface"
          /\ UNCHANGED <<device, recoveryVars, needsRecreate, replay, gpu>>
       \/ /\ lost /\ Adopt
          /\ paintStep' = "surface" /\ needsPresent' = TRUE /\ needsRecreate' = TRUE
          /\ replay' = TRUE /\ gpu' = [t \in Textures |-> Absent]
       \/ /\ lost /\ (BackOff \/ StartAttempt \/ KeepWaiting)
          /\ GiveUpFrame
          /\ UNCHANGED <<needsPresent, needsRecreate, replay, gpu>>

\* recreate_surface, if the flag asks for it.  It may fail, and then the whole
\* mirror is owed to the renderer.
RecreateSurface ==
    /\ paintStep = "surface"
    /\ \/ needsRecreate' = FALSE /\ paintStep' = "upload" /\ UNCHANGED replay
       \/ needsRecreate /\ replay' = TRUE /\ UNCHANGED needsRecreate /\ GiveUpFrame
    /\ UNCHANGED <<device, recoveryVars, wanted, delta, mirror, retired, gpu>>

\* A failed device shows in the upload, which reports it unless the callback has,
\* or not at all when there was nothing to upload.
Upload ==
    /\ paintStep = "upload"
    /\ gpu' = IF replay THEN mirror ELSE Updated(gpu, delta.set)
    /\ replay' = FALSE
    /\ \/ paintStep' = "acquire" /\ UNCHANGED recoveryVars
       \/ /\ device = "failed" /\ ReportLoss
          /\ GiveUpFrame
          /\ UNCHANGED <<attempt, wait, refusals, needsPresent, sinceStart, sinceRefusal>>
    /\ UNCHANGED <<device, needsRecreate, wanted, delta, mirror, retired>>

\* get_current_texture: a frame to draw, or a lost, outdated or busy surface.
Acquire ==
    /\ paintStep = "acquire"
    /\ \/ paintStep' = "draw" /\ UNCHANGED needsRecreate
       \/ needsRecreate' \in {needsRecreate, TRUE} /\ GiveUpFrame
    /\ UNCHANGED <<device, recoveryVars, textureVars>>

\* The end of the recovery as it would be if the device's flag were not read.
PresentedUnchecked == needsPresent

\* The recovery ends with a presented frame, unless the new device is gone too.
Presented == needsPresent /\ ~lost

DrawAndPresent ==
    /\ paintStep = "draw"
    /\ gpu' = Without(gpu, delta.free)
    /\ GiveUpFrame
    /\ IF Presented THEN needsPresent' = FALSE /\ recovering' = FALSE
       ELSE UNCHANGED <<needsPresent, recovering>>
    /\ UNCHANGED <<device, needsRecreate, lost, attempt, wait, refusals, sinceStart,
                   sinceRefusal, wanted, delta, mirror, retired, replay>>

GraphicsNext ==
    \/ DeviceFails \/ SecondPasses \/ AttemptEnds
    \/ BeginPaint \/ RecreateSurface \/ Upload \/ Acquire \/ DrawAndPresent

GraphicsSpec == GraphicsInit /\ [][GraphicsNext]_graphicsVars

-----------------------------------------------------------------------------
(* A frame that a working device draws has every texture it uses, as egui    *)
(* last meant it, those that are freed after it included: no delta is lost   *)
(* with a frame that was given up, with the device or with the surface.      *)
(* ("A failed surface recreation keeps replay pending and merges subsequent  *)
(* deltas until it succeeds", docs/RENDERER_RECOVERY.md.)                    *)
FramesAreComplete ==
    (paintStep = "draw" /\ device = "ok") =>
       \A t \in Textures : wanted[t] # Absent => gpu[t] = wanted[t]

(* The controls are suspended exactly while a device is lost or its          *)
(* replacement has not presented a frame: they neither act on a frozen       *)
(* picture nor stay suspended with nothing left that would release them.     *)
SuspendedForCause == recovering <=> (lost \/ needsPresent)

(* Attempts are at least a second apart, even when every device dies on its  *)
(* first frame, and after n refusals in a row the next one waits 2^n.        *)
AttemptsAreSpaced ==
    [][attempt = "none" /\ attempt' = "creating" =>
          sinceStart >= 1 /\ (refusals > 0 => sinceRefusal >= 2 ^ refusals)]_graphicsVars

(* A recovery loses no texture and does not spin.                             *)
RecoveryKeepsThePicture == []FramesAreComplete /\ AttemptsAreSpaced
=============================================================================

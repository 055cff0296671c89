------------------------------ MODULE Inventory ------------------------------
(***************************************************************************)
(* An inventory worker and the page that shows its health (inventory.rs,   *)
(* diagnostics.rs, app.rs ui): the worker reads every CADENCE or on        *)
(* request, a read may take for ever or unwind; the sampler looks at what  *)
(* was published without ever waiting, and the UI repaints when a new      *)
(* snapshot arrives and at the deadline next_state_change gives it.        *)
(***************************************************************************)
EXTENDS Readings

CONSTANTS Cadence, SlowAfter, MaxAge,
          LastTime      \* bound: the clock stops

ASSUME InventoryAssumption ==
  Cadence \in Nat \ {0} /\ SlowAfter \in Nat \ {0} /\ MaxAge \in Nat /\ LastTime \in Nat

VARIABLES
  clock,
  readAt,      \* where the worker is
  started,     \* `at': when its read began
  own,         \* its health
  version,     \* its data
  shared,      \* Published: data, health, active
  request,     \* the sync_channel(1) holds a request
  cached,      \* Worker::cached, of the sampler
  failedView,  \* Worker::failed_view: the attempt, the data and what it shows
  view,        \* what the UI's snapshot holds: the data shown and its health
  fresh,       \* history: the sampler's inputs to that view
  painted,     \* the state on screen
  wake         \* the UI's next request_repaint_after, Never for none

workerVars == <<readAt, started, own, version, shared, request>>
lookVars   == <<cached, failedView>>
screenVars == <<view, fresh, painted, wake>>
inventoryVars == <<clock, workerVars, lookVars, screenVars>>

(* Data shown as it is (cachedAt Never) or marked as kept from an attempt. *)
Shown(v, cachedAt) == [version |-> v, cachedAt |-> cachedAt]
NoView == [attempt |-> Never, source |-> 0, shown |-> Shown(0, Never)]
-----------------------------------------------------------------------------
(* The worker. *)

ReadTo(from, to) == readAt = from /\ readAt' = to

StartRead ==
  /\ ReadTo("start", "collect")
  /\ started' = clock
  /\ shared' = [shared EXCEPT !.active = clock]
  /\ UNCHANGED <<clock, own, version, request, lookVars, screenVars>>

(* apply_startup, apply_services: a failed read keeps the entries.         *)
Collect ==
  /\ ReadTo("collect", "publish")
  /\ \E state \in {"Live", "Partial", "Unavailable"} :
       /\ own' = RecordHealth(own, started, state)
       /\ version' = IF state = "Unavailable" THEN version ELSE started
  /\ UNCHANGED <<clock, started, shared, request, lookVars, screenVars>>

Publish ==
  /\ ReadTo("publish", "wait")
  /\ shared' = [version |-> version, health |-> own, active |-> Never]
  /\ started' = clock     \* when the wait of recv_timeout began
  /\ UNCHANGED <<clock, own, version, request, lookVars, screenVars>>

(* recv_timeout: a request that came during a slow read is still there.    *)
NextRead ==
  /\ ReadTo("wait", "start")
  /\ request \/ clock >= started + Cadence
  /\ request' = FALSE
  /\ UNCHANGED <<clock, started, own, version, shared, lookVars, screenVars>>

RequestRead ==
  /\ ~request /\ request' = TRUE
  /\ UNCHANGED <<clock, readAt, started, own, version, shared, lookVars, screenVars>>

(* A read unwinds; the thread is finished, what it published stays.        *)
ReadPanics ==
  /\ ReadTo("collect", "finished")
  /\ UNCHANGED <<clock, started, own, version, shared, request, lookVars, screenVars>>
-----------------------------------------------------------------------------
(* The sampler: latest. *)

FirstNonzero(a, b, c) == IF a # Never THEN a ELSE IF b # Never THEN b ELSE c

(* invalidate marks the data as kept from attempt `at'; the result is      *)
(* reused while neither has changed.                                       *)
FailedView(at, data) ==
  IF failedView # NoView /\ failedView.attempt = at /\ failedView.source = data
  THEN failedView
  ELSE [attempt |-> at, source |-> data, shown |-> Shown(data, at)]

(* try_lock may find the lock taken by a worker about to publish: the copy *)
(* of the last look is used again.                                         *)
Latest(contended) ==
  LET now  == IF contended THEN cached ELSE shared
      dead == readAt = "finished"
      slow == now.active # Never /\ clock >= now.active + SlowAfter
      at   == FirstNonzero(now.active, now.health.attempt, 1)
      kept == FailedView(at, now.version)
      starting == now.health.attempt = Never /\ now.active # Never
  IN  /\ contended => readAt \in {"start", "publish"}
      /\ cached' = now
      /\ IF dead \/ slow
         THEN /\ failedView' = kept
              /\ view' = [shown  |-> kept.shown,
                          health |-> RecordHealth(now.health, at, "Unavailable")]
         ELSE /\ failedView' = NoView
              /\ view' = [shown  |-> Shown(now.version, Never),
                          health |-> IF starting
                                     THEN RecordHealth(now.health, now.active, "Starting")
                                     ELSE now.health]
      /\ fresh' = [version |-> now.version, attempt |-> at, failing |-> dead \/ slow]

(* The new snapshot reaches the UI, whose frame schedules the next one.    *)
PaintView ==
  /\ painted' = StateAt(view'.health, MaxAge, clock)
  /\ wake' = NextStateChange(view'.health, MaxAge, clock)

Sample ==
  /\ \E contended \in BOOLEAN : Latest(contended)
  /\ PaintView
  /\ UNCHANGED <<clock, workerVars>>

(* The frame of the deadline.                                              *)
WakeFrame ==
  /\ wake # Never /\ clock >= wake
  /\ view' = view /\ PaintView
  /\ UNCHANGED <<clock, workerVars, lookVars, fresh>>

(* Time passes, but not past a frame the UI asked for.                     *)
InventoryTick ==
  /\ clock < LastTime /\ (wake = Never \/ clock < wake)
  /\ clock' = clock + 1
  /\ UNCHANGED <<workerVars, lookVars, screenVars>>
-----------------------------------------------------------------------------
InventoryInit ==
  /\ clock = 1 /\ readAt \in {"start", "finished"} /\ started = 1 /\ own = NoHealth /\ version = 0
  /\ shared = [version |-> 0, health |-> NoHealth, active |-> Never]
  /\ request = FALSE /\ cached = shared /\ failedView = NoView
  /\ view = [shown |-> Shown(0, Never), health |-> NoHealth]
  /\ fresh = [version |-> 0, attempt |-> Never, failing |-> FALSE]
  /\ painted = "Starting" /\ wake = Never

InventoryNext == StartRead \/ Collect \/ Publish \/ NextRead \/ RequestRead \/ ReadPanics
                 \/ Sample \/ WakeFrame \/ InventoryTick

InventorySpec == InventoryInit /\ [][InventoryNext]_inventoryVars
-----------------------------------------------------------------------------
(* A view that nothing repaints never claims more than it may: at every    *)
(* time what is painted is the state of the reading at that time, although *)
(* only the deadlines of next_state_change are scheduled (app.rs:3261-3285,*)
(* diagnostics.rs:128-136, 158-175).                                       *)
FrozenViewIsHonest ==
  clock = wake \/ painted = StateAt(view.health, MaxAge, clock)

(* While a read is stuck or the worker gone, the data handed out is the    *)
(* newest published and marked as kept from this very attempt; as soon as  *)
(* it is neither, the marks are gone (inventory.rs:111-163).               *)
FailedViewIsCurrent ==
  fresh.attempt # Never =>
    view.shown = Shown(fresh.version, IF fresh.failing THEN fresh.attempt ELSE Never)

(* The inventory pages say how old what they show is, whether a frame is   *)
(* drawn or not and whether the worker lives or not.                       *)
ViewsAreHonest == FrozenViewIsHonest /\ FailedViewIsCurrent
=============================================================================

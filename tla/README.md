# Trontop in TLA+

Trontop is a Windows task manager (Rust, egui). One UI thread draws frames; every
slow or blocking thing (sampling, inventories, service commands, process actions,
startup changes, exports, sensors, icons) runs on a worker thread of its own that
talks to the UI through bounded channels and one-slot mailboxes. Nothing is joined
at exit: `Drop` raises a flag, closes the channel and leaves the worker to the end
of the process. The interesting correctness questions are therefore about

- one request being in flight, answered exactly once, whatever the worker does;
- values read at one moment and used at another (a confirmation, a cached row, a
  reading that may predate a command);
- what is lost, kept or repeated when a worker ends, a call is slow, a device is
  lost or the program closes;
- what a page may still claim when nothing new arrives.

This directory holds specifications of those parts, TLC configurations that check
them, and TLAPS proofs. Paths below are relative to the repository.

## 1. Inventory

| Component (source) | State it keeps | Operations | Hard behaviour | What makes it correct |
|---|---|---|---|---|
| Service commands (`src/service_control.rs`, `native.rs`) | `active`, channel of one, one-slot mailbox, stop flag, the worker's event | submit, poll, drop; open, preflight, stop, wait, start, wait, finish | another controller of the service acts between any two steps; panic; drop mid-command; 30 s limits | one command at a time, one answer each, no repeated command, completion only after the target was read |
| Services page (`app/service_controls.rs`, `service_control/observations.rs`) | retained observations per service, overflow barrier, the snapshot in use | confirm, poll, record, reconcile, refresh | three clocks of readings (command, inventory, snapshot) arrive out of order | a row offered as fresh is not older than the last command to that service |
| Process actions (`process_actions.rs`, `platform.rs`, `platform/suspension.rs`) | `active`, two channels of one, the UI's mirror of held suspensions, the worker's handles | submit, poll, drop; validate, native call, publish | worker loss while suspensions are held; actions confirmed long ago; PID reuse | single flight; the mirror equals the handles held; holds are released with the worker |
| End process tree (`process_actions/tree.rs`, `platform/tree.rs`, `app/process_controls.rs`) | the reviewed plan | build, refresh, confirm; verify every handle, terminate | PIDs exit and are reused between sample, review, verification and termination | only reviewed processes are terminated; none before all are verified |
| Process table and page (`model.rs`, `model/process_tree.rs`, `app.rs`, `app/tree_state.rs`) | rows, order, search, expanded rows, selection, open dialogs | sort, search, expand, select, open, confirm | a sample replaces everything between two clicks; one PID, two processes within a second | the rows shown are those of the sample; a dialog acts on the process it was opened for |
| Startup control (`startup/control.rs`, `startup/control/*`, `app/startup_controls.rs`) | `active`, mailbox, receipts, uncertain records | submit, poll, apply, verify, restore | other programs edit the entry between any two steps of the transaction and between the two calls that read a row; unknown outcomes; reads that began before a command arrive after it | only what was reviewed is replaced; a row that may be acted on shows nothing from before Trontop's last change |
| Inventory workers (`inventory.rs`, `startup.rs`) | published data and health, `active` since, channel of one | request, read, latest | a request during a slow read; contended lock; dead worker | what is shown says how old it is, also when nothing repaints it |
| Sampler and snapshots (`sampler.rs`, `process_cpu.rs`, `diagnostics.rs`) | history, providers' health, the snapshot mailbox | cycle, publish, latest, refresh flags, pause | a row is put together from four readings while PIDs are used again; the UI takes some snapshots and skips others | figures of a row are of one process and one interval; the newest snapshot is shown |
| Preferences (`preferences.rs`, `preferences/file.rs`, `app/preferences.rs`) | current, saved and in-flight settings, the file | load, edit, debounce, save, quit | two instances, a crash between write and rename, quit while saving | no lost edit, no foreign file overwritten, quit ends |
| Window, tray and hotkey (`app/window.rs`, `tray.rs`, `tray/native/worker.rs`, `hotkey.rs`, `app/global_hotkey.rs`) | visibility, icon, queue, registration | show, hide, quit, register, replace | a hidden window gets no input; Explorer restarts; registration races with a change of settings | the window can always be brought back; the row tells the chord that is held |
| Theme editor (`theme_studio.rs`, `theme/gradient.rs`) | theme, library, rolls and their undo, opening theme | edit, roll, undo, import, save, revert | edits that end in a normalisation in f32; limits of neighbouring pegs | pegs stay apart; what is stored reads back as shown |
| Storage sensors (`storage_sensors/mod.rs`, `native.rs`) | one slot and one thread per drive | pass, poll, cancel, retire | a driver call that never returns | a bounded number of threads, only overdue calls cancelled |
| Disk activity, CPU clocks, GPU (`disk_activity.rs`, `cpu_clock.rs`, `gpu_*.rs`) | previous readings, adapters, plotted histories, back-off | collect, retry, plot | counter resets, devices that come and go, retained values | a rate spans one interval; an old value is marked as old |
| System specifications and sensor bridge (`specs/*`, `app/system.rs`, `app/sensors.rs`) | worker per section, one polling worker, the UI's copies | visit, poll, refresh | a WMI call that hangs; four pages read one bridge | a refresh is served; pages show what the bridge said and when |
| Graphs (`app/graphs/history.rs`, `wall.rs`) | points of every chart, state, card | sample, deadline | a sensor vanishes from a snapshot; nothing repaints | what is called live was measured |
| Renderer recovery (`vendor/egui-wgpu/src/recovery.rs`, `winit.rs`) | device, texture mirror, attempts | paint, notice, replace, replay | the device is lost within a frame, again during recovery | a drawn frame has every texture; controls rest exactly while recovering |
| Exports (`export.rs`, `export/file.rs`, `encode.rs`) | one job, result slot | submit, poll, cancel | existing files, partial writes, a panic | the file is the earlier one or whole, and the panel says which |
| Failure log (`failure.rs`) | 32 rolling records in a file | record, load | two instances, an end in the middle of writing | the newest whole records survive |
| Process icons (`process_icons/mod.rs`) | cache of 256, 32 outstanding | request, receive, upload, evict | answers for evicted entries | counts agree, what is painted is held |
| UI (`app.rs`, `app/*`, `widgets.rs`, `theme*.rs`) | layout | drawing | - | not modelled |

How they interact: the UI thread owns every controller and calls them once per
frame in a fixed order (`app.rs`: accept the newest snapshot, poll the startup
controller, poll the service controller, draw, confirm dialogs). The sampler
thread owns the inventories and polls them each cycle, forwarding refresh
requests that the UI raised as flags. Workers never call each other.

## 2. Modules

A component has a module of its own. Components that share state extend each
other; those that do not are put side by side in an `MC...` module, where one of them
(chosen by `part` in the initial state) runs in a behaviour and the others rest.

| Module | Models | Composes, refines, used by |
|---|---|---|
| `CommandSlot` | what a single-flight controller promises | abstract |
| `ServiceControl` | the service controller, its worker, the SCM | implements `CommandSlot`, `CommandEvents` |
| `CommandEvents` | only the time stamps a service command leaves | abstract; base of `ServiceView` |
| `ServiceView` | Services page, observations, inventory worker, sampler | extends `CommandEvents`; `MCPages` |
| `StartupControl` | the startup controller and its registry transaction | base of `StartupPage` |
| `StartupPage` | Startup page, observations, merge of an inventory source, sampler | extends `StartupControl`; `MCPages` |
| `SettingsFile` | what the settings file promises | abstract |
| `Preferences` | settings, autosave and quit of several instances | implements `SettingsFile`; `MCDesktop` |
| `TrayWindow` | frames, window, tray thread, snapshot mailbox, quit | `MCDesktop` |
| `ProcessActions` | the process-action controller, its worker, suspensions | implements `CommandSlot`; `MCWorkers` |
| `DriveSensors` | the drive monitor and its threads | `MCWorkers` |
| `SpecsWorkers` | the threads of a specification section and of the bridge, and the pages' polls | `MCWorkers` |
| `ProcessTree` | the walk of `Plan::build`, as a step function | used by the next two |
| `ProcessWalk` | that walk over every sample within bounds | extends `ProcessTree`; `MCProcessTrees` |
| `EndTree` | the end-tree dialog and `terminate_tree` against Windows | extends `ProcessTree`; `MCProcessTrees` |
| `ProcessForest` | the tree of the table: links, search, expansion, order | `MCProcessTrees` |
| `ProcessTable` | when the view is rebuilt, and which rows stay expanded | `MCProcessTrees` |
| `ProcessPage` | selection and dialogs against new samples | `MCProcessTrees` |
| `ProcessOrder` | the order of the table, App history and Overview's top lists, and tree totals | `MCProcessTrees` |
| `Readings` | health of a provider, three-valued GPU usages | used by several |
| `Hotkey`, `Inventory`, `ProcessSampling`, `GraphHistory`, `Exporter`, `FailureLog`, `SpecsReport`, `GraphicsRecovery`, `IconCache`, `DiskActivity`, `CpuClock`, `GpuAdapters`, `SensorPages`, `ThemeStudio` | what their headers say | `MCSnapshots` |
| `ServiceControlProofs`, `PagesProofs`, `PreferencesProofs`, `ProcessProofs`, `WorkerProofs`, `WindowProofs`, `SnapshotsProofs` | theorems, section 4 | |

### ServiceControl

One action per step between which the thread can be preempted or another thread
can look. `Submit`, `PollTake`, `PollReturn`, `Drop` are the UI's calls: `poll` is
two steps because it takes the mailbox first and asks whether the thread has
finished afterwards. The worker's actions carry the name of the piece of `execute`
they model; `StopGate`/`StopCheck`/`StopCall` are separate because the flag is read
twice, with a publication in between, before the native call. `worker` is the
program counter, `event` the local variable that `execute` mutates and publishes.
A native command may take effect and still report failure (`Command`).
`ServiceMoves` lets the SCM and every other controller move the service along
`Moves` at any time, so that every reading may be out of date one step later.

Instants are readings of a clock that may stand still between two readings;
the 30-second limits are flags that may rise whenever they are measured.
`Unwinding` says whether a panic ends only the worker (dev profile) or the whole
process (release profile, `panic = "abort"` in `Cargo.toml`): with
`Unwinding = FALSE` there is no `Panic` action because nothing remains to observe it.

### CommandEvents and ServiceView

The page compares three kinds of stamps. Composing `ServiceControl` itself with
the page would multiply two large state spaces, so `CommandEvents` keeps only the
stamps of the command worker; that every behaviour of `ServiceControl` is one of
`CommandEvents` is checked (`ImplementsContracts`) and proved (`KeepsEventOrder`).
`ServiceView` adds the page: `records` and `overflow_at` are `Observations`,
`PollBegin`/`PollEnd` are `poll_service_command`, `Confirm` the dialog's final check.
An inventory is reduced to the stamp of its last successful read and whether its last
attempt was good. The history variables `announced` and `outdated` hold the stamp of the
last command sent and which inventory readings were made before it reached Windows.

### ProcessTree, ProcessWalk, EndTree

`Plan::build` is a loop over local variables. `ProcessTree` gives one turn of it
(`Visit`) as an operator on the record of those variables: `ProcessWalk` makes every
turn a step and says what the list must be, `EndTree` iterates the same operator
to its end (`Build`) each time the dialog rebuilds its plan. A row of a sample keeps
PID, parent PID, creation time (0 where Windows refused it), path and name. In
`EndTree` Windows is the environment: processes start, exit, and PIDs are used
again, except those to which the worker holds a handle. The worker opens and
verifies one target per step and then requests one termination per step.

### The process table and its page

`ProcessForest` computes the table's tree from parent links: what is linked, what a
search keeps and what is displayed. `ProcessOrder` is the comparison by which rows,
siblings, the history and Overview's lists are sorted, with the stable sort and the
totals of a collapsed row. `ProcessTable` keeps the view as the inputs from which
it was last built, so that a path that changes an input and does not rebuild
shows; a row is remembered as expanded by its PID and start. `ProcessPage`
has the selection, which a new sample keeps while the row "could be" the same process,
and the dialogs, which keep the identity they were opened for.

### ProcessActions, DriveSensors, SpecsWorkers

`ProcessActions`: `Controller` (submit, poll, drop, and `mirror`, its copy of the
suspensions) and the worker's loop, one step per native call. A suspension is a state
handle: it ends when the handle is closed, by the worker or because the worker is
gone. `Set` stands for priority and affinity and `Shell` for Reveal and Launch, which
run through the same code. Ending a tree, a request of this controller too, is
`EndTree`; single flight is what makes the two composable.

`DriveSensors`: a pass of the monitor looks at one slot per step, while the slots'
workers enter and leave queries; a worker that hangs stays, and counts. `SpecsWorkers`:
a section's thread reads once and on request; the bridge's polls every two or ten seconds while
a page that needs it is visible, and every thirty otherwise.

### Preferences, SettingsFile, TrayWindow

Several instances, each with a UI thread and a worker, share one file. What the UI
thread does between two looks at its channels is one step, so the calls of
`Controller` are operators on its record (`Updated`, `Polled`, `Dispatched`,
`Retried`) and `Frame` composes them in the order of `raw_input_hook` and `logic`.
The worker's save is split at every point where another instance can act: lock,
compare, stage, rename, answer. Settings are opaque values. An instance can be
killed at any step, which releases its lock (the lock is a file handle).

`TrayWindow` is a frame in phases (`ui`), the tray thread with its queue of commands, and
the sampler's mailbox with its generation and its request to repaint. A frame runs
because somebody asked for one or the window got input, and a hidden window gets none:
that is why a lost request to repaint would matter.

### StartupControl, StartupPage

`Verify` to `Confirm` are the steps of `guard_run` and `apply_at`; an early return drops
the transaction (`Fail`). Other programs edit the entry between any two of them
(`Edit`). From the staged write on, Windows either refuses such an edit or lets it
win and dooms the transaction; a Startup file is opened without sharing and
cannot be edited at all. `Commit` may also fail with an error that leaves open
whether it took effect. Any step before it may fail, which includes the
confirmation's 30 seconds. An approval is `Missing`, enabled, disabled or one of
`Unrecognized`; the time inside a disabled record is left out.

`StartupPage` adds the dialog (`Review`, `Confirmed`, `Cancel`), the poll of a frame
(`Frame`), `Observations`, what one inventory source keeps between complete, partial,
failed and slow reads, and the snapshot the UI has accepted. The five sources are separate
namespaces that the same code merges one by one. Publishing and accepting a
snapshot are one step (`SamplerCycle`). A read takes time, so that two reads never carry
the same stamp.

A read goes entry by entry, and for each entry in two calls: the enumeration gives the
registration (`EnumerateEntry`), a query of its own the approval (`ObserveApproval`).
`SourcePublish` ends the read, after the last entry or, failed, anywhere before. Other programs and
Trontop's own transaction may change the entry between any two of these steps, so that a row
may join a registration with a later approval although the entry never was both at once. The
history variable `since` holds what a row may therefore be: a registration that the entry has
had since Trontop last changed it, with an approval that it had at that moment or later, but not with
one from before. `FreshSinceLastChange` claims no more than this. That both halves are true
together is for the transaction to verify, which it does (`CommitsOnlyReviewed`).

### The parts of MCSnapshots

- `Hotkey`: the UI's `set` in its steps, the thread that registers, answers and drains the
  queue. Messages do not name a chord; the model remembers which chord they were pressed for.
- `Inventory`: the worker's read in three steps, the sampler that looks without waiting, and
  the UI's wake at `next_state_change`.
- `ProcessSampling`: table, CPU times, control information and GPU counters are read one after the
  other while births, exits and reuse go on; two processes may be born in one second.
- `GraphHistory`: charts of one device, with every subset of its sensors named by a snapshot.
- `Exporter`, `FailureLog`: a file written record by record, with an end of the process
  possible at every write. `SpecsReport`: a pure function over chosen inputs.
- `GraphicsRecovery`: a frame in its steps; the device may fail between any two of them, and
  the replacement too. The source is the repository's own patch of its renderer.
- `IconCache`: render thread, worker and both channels. `DiskActivity`, `CpuClock`, `GpuAdapters`: a
  native collector that keeps a baseline, what it publishes, and what is plotted of it.
- `SensorPages`: two providers, the bridge, the UI's copy and four pages that show it.
- `ThemeStudio`: edits with the f32 positions as integers in units of 2^-30, library and restart.

## 3. Runs

| Run | Module | Shows | Distinct states |
|---|---|---|---|
| `service_control` | `ServiceControl` | one answer each, commands observed, both refinements, controls return | 225,016 |
| `pages` | `MCPages` | freshness and barriers of the Services page; transaction and page of a startup entry | 1,378,788 |
| `process_trees` | `MCProcessTrees` | from parent links to terminated processes | 1,097,304 |
| `workers` | `MCWorkers` | actions and suspensions, drive reads, specification threads, with their liveness | 477,629 |
| `desktop` | `MCDesktop` | the window comes back, newest snapshot, quit, settings come to rest | 263,591 |
| `preferences` | `Preferences` | two instances on one file, kills and panics included | 1,179,373 |
| `snapshots` | `MCSnapshots` | what is measured, shown, drawn and written | 432,376 |
| `service_page_inventory` | `ServiceView` | finding 1 | violation |
| `process_walk_order` | `MCProcessTrees` | finding 2 | violation |
| `preferences_close` | `Preferences` | finding 3 | violation |
| `startup_answered_once` | `StartupControl` | finding 4 | violation |
| `peg_limits` | `ThemeStudio` | finding 5 | violation |

A component with several things to say states them as one conjunction of named parts, so that
a run lists one property for it:

| Property | Parts |
|---|---|
| `CommandsAreObserved` | types, `SingleFlight`, `CommandsSent` (no duplicate, late or unannounced call), `CompletedMeansObserved` |
| `ImplementsContracts` | the refinements of `CommandSlot` and `CommandEvents` |
| `PageFollowsCommands` | types, `FreshAfterAnnouncement`, `CapacityReserved`; beside it `BarrierHolds` |
| `PageFollowsChanges` | types, `FreshSinceLastChange`; beside it `DisappearsOnlyWhenRead`, `CommitsOnlyReviewed` |
| `ActionsAreAsShown` | types, `ActsOnceAsConfirmed`, `SuspensionsShown` |
| `HoldsAreReleased` | `ReleasedOnRequest`, `ClosingReleases` |
| `ReadsAreBounded` | `ThreadsBounded`, `OnlyOverdueCancelled`; beside it `AskedAgain` |
| `SpecsFollowThePage` | `VisiblePollsFast`, `RefreshReadsAgain` |
| `SettingsAreAsShown` | types, `SavedMeansSaved`, `WaitingIsVisible`; beside it `ImplementsSettingsFile`, `SettingsSettle` |
| `ReviewsTheFamily` | types, `ListsTheFamily`, `ParentListedBefore`, `BranchParentsFirst`, `RefusedForCause` |
| `EndsTheFamily` | types, `FamilyOnly`, `NoSurvivorLeftOut`; beside it `OnlyConfirmed` |
| `ListingIsWhole` | `ForestIsWhole`, `ListingIsOrdered` |
| `TableIsOfTheSample` | `ViewIsCurrent`, `ExpandedForOneProcess` |
| `ActsOnTheClicked` | `SelectionKeepsItsSecond`, `ActsOnTheReviewed` |
| `ChordIsAsShown` | `ReportAgrees`, `ReleasedChordsAreSilent` |
| `ViewsAreHonest` | `FrozenViewIsHonest`, `FailedViewIsCurrent` |
| `RowsAreConsistent` | `FiguresAreOfTheRow`, `RatesSpanOneInterval` |
| `ChartsAreMeasured` | `StateHoldsUntilDeadline`, `LiveIsMeasured` |
| `ExportIsWhole` | `DestinationIsWhole`, `OutcomeIsTrue` |
| `ReportIsFaithful` | `PrivateStaysOut`, `OldIsMarked`, `CellsReadBack` |
| `RecoveryKeepsThePicture` | `FramesAreComplete`, `AttemptsAreSpaced`; beside it `SuspendedForCause` |
| `IconsAreAccounted` | `CountedOnce`, `PaintedIsHeld` |
| `MeasuredOverOneInterval` | disks (`RatesSpanOneCollection`, `EndedIsNotLive`, `PlottedOnce`), CPU clocks (`ClocksAreOfOneInterval`) |
| `ReadingsAreDated` | GPU (`AdapterFiguresCurrent`, `PlottedWasRead`), temperatures (`SensorsAreAsShown`) |
| `ThemeIsKept` | `PegsApart`, `StoredIsShown`, `StoredReadsBack`, `RevertsToOpening` |

### Bounds, and why they are enough

- Controllers keep nothing of a request once it has been answered, so a second request already
  meets every leftover the first can leave (an unread event, a used flag, a dead worker).
  `ServiceControl.cfg`: 1 service, 2 requests, 2 clock readings. Process actions get three, because a
  suspension outlives its request: suspend, then resume and act on another, or suspend two;
  2 PIDs of which one is used again.
- Only one service can be involved in one request; a second one matters only to the records of
  the page, where it exhausts a limit of one. Startup records are evicted by size as well, which
  the model leaves open, so that one entry is enough; it starts `Missing` (a file) or `Disabled` (the
  registry) and reaches the other approvals through commands and edits. Two edits by another program are what
  a row needs to join halves that never were true together: the registration goes away after it was enumerated, and
  comes back with another approval. Two commands are a change and its undo. `MaxActivity = 3` leaves out
  two of each; either kind may be the one that comes twice.
- Two clock readings give before, equal and after. `MaxTime = 3` with `MaxAge = 1` (services) and
  `LastTime = 4` with `MaxAge = 2` (inventory) let a reading expire while it is shown. In the Startup
  part the age limits are zero: what was read in an earlier tick is stale.
- All eight service states are in the model; `Reached` restricts the environment to the four on
  the path of a command.
- Three processes give chains, siblings, cycles of parents and a helper between two instances;
  `MaxCreated = 2` gives a parent that is younger than its child (a reused PID) and one of the same
  age. `EndTree`: 3 PIDs, one used again, one confirmed list, since a second list meets a worker that
  remembers nothing. Forest and order: 3 rows, of 4 kinds that tie in some column and differ in
  another; `HistoryRows = 2` and `TopRows = 1`, so that lists are cut. Page: one PID used three times,
  because rows of different PIDs never meet in a comparison.
- `Untouchable` (PIDs that no action may touch) is empty and `MaxTargets` is the number of processes: with few PIDs they
  would only remove behaviour. The refusals of such a PID and of a family over the limit are therefore not met in
  `process_trees`; `WholeFamiliesAreReviewed` is proved for every value of the two.
- Drives: two, as many as threads are allowed, so that a stuck one blocks a new one. Specifications:
  two reads, one poll.
- Desktop: one snapshot after the first (a second, which would replace one that was not taken, takes the run
  beyond five minutes), one message in the tray's queue, two edits. `Preferences`:
  2 instances and 3 starts (one restarts), 2 captures.
- Tables and caches are full with what is there: 1 chart of 2 sensors, 1 disk of 2, 1 adapter, 2 icons
  of 3 executables with 2 requests outstanding, 1 saved theme, 2 log records of 3.
- Sampling: 3 cycles with control information and GPU counters read every second one; one PID with three
  births. Graphs: 2 points and a window of 4 ticks in 5. A sensor tick is about seven seconds, so that
  the bridge's limit of 15 s is 2 ticks, a poll and its budget 1, the idle cadence 3. Clocks: the
  interval of a step is too short, right or too long.
- Gradient positions are exact f32 values; {24 %, 25 %, 100 %} are values at which the rounding of the
  editor's limits and of the normalisation differ.

`Pages.cfg` uses a `VIEW`, which leaves out what nothing that is looked at depends on: the history
variable `outdated`, which no property of that run mentions; the refresh requests, because the 30-second
cadence starts reads without one; whether an inventory was live once it is too old for that; of a closed
Services page the inventory worker; the reviewed startup request once the bounds admit no further command;
and the startup records and `since` once the page is dropped or its worker dead, because
`FreshSinceLastChange` speaks of pages from which a command can be sent.
Services (`Pages.cfg`) and instances
(`Preferences.cfg`) that only their names tell apart are symmetric; no liveness property is checked
with symmetry.

### Fairness

- `ServiceControl`, `ProcessActions`: the worker thread is scheduled and the native calls it makes
  return; a deadline passes; the UI draws frames, because publishing an outcome requests a repaint, and
  each frame polls. The user, Windows, the clock and panics owe nothing. If a native call never
  returned, the controls would stay disabled: the code's documented choice (no retry, no cancellation).
  Service and startup controllers are polled in `ui`, which returns early while the window is hidden in
  the tray, so that for a hidden window the assumption says that it is shown again.
- `Preferences`: the worker is scheduled and storage answers; `schedule()` keeps frames coming while
  something is pending or in flight; the debounce passes; a permitted close ends the native loop.
- `TrayWindow`: the three threads are scheduled. A frame is fair only as a step that was asked for: a
  window without a request to repaint and without input draws none.
- `DriveSensors`: the monitor makes its passes, a free worker takes its request, time passes. The query of a
  driver owes nothing, and neither does a worker's creation.
- `SpecsWorkers`: a section's thread is scheduled between its reads; a read itself may never return, and
  `RefreshReadsAgain` says so.

Deadlock is checked in `ServiceControl`, `ServicePageInventory` and `ProcessTrees*`, where the clock or Windows
always has a step or the end is named (`AtRest`). It is off where the system really stops: clocks are bounded,
an application has been closed, a report is written once.

## 4. Proofs

All theorems hold for every set of services, PIDs, instances, settings, entries, drives, chords, textures,
executables, disks, processors, adapters and log records and for every bound; only the named assumption on the constants of each module is used. Those
that state a property of a run:

| Module | Theorem | States | Invariant it needs |
|---|---|---|---|
| `ServiceControlProofs` | `AnsweredOnce` | `OneCompletionEach` | `SlotInv` |
| | `ObservesItsCommands` | `CommandsAreObserved` | `SlotInv` and what each position of the worker knows |
| `PagesProofs` | `FollowsTheCommands`, `UncertaintyIsResolved` | `PageFollowsCommands`, `BarrierHolds` | `ViewInv` |
| | `OnlyReviewed` | `CommitsOnlyReviewed` | `Held` |
| | `ShowsSinceLastChange`, `RemovedOnlyWhenRead` | `PageFollowsChanges`, `DisappearsOnlyWhenRead` | `PageInv` |
| `PreferencesProofs` | `SavesAreAtomic` | `ImplementsSettingsFile` | `StoreInv` |
| | `SettingsAreSaid` | `SettingsAreAsShown` | `SettingsInv` |
| `ProcessProofs` | `TerminatesOnlyConfirmed` | `OnlyConfirmed` | `KillInv` |
| | `FamiliesEndWhole` | `EndsTheFamily` | `FamilyInv` |
| | `WholeFamiliesAreReviewed` | `ReviewsTheFamily` | `WalkInv`, `ReviewInv` |
| | `TableShowsTheSample` | `TableIsOfTheSample` | `TableInv` |
| | `OneProcessIsMeant` | `ActsOnTheClicked` | `DialogsInv` |
| `WorkerProofs` | `ActsAsConfirmedAndShown` | `ActionsAreAsShown` | `ActionsInv` |
| | `ReadsStayBounded` | `ReadsAreBounded` | `DrivesInv` |
| `WindowProofs` | `HiddenWindowReturns` | `NeverStranded` | itself |
| | `SuspensionHasACause` | `SuspendedForCause` | `CauseInv` |
| | `PictureSurvivesLosses` | `RecoveryKeepsThePicture` | `PictureInv`, `PaceInv` |
| | `RowTellsTheChord` | `ChordIsAsShown` | `KeyInv` |
| | `FileIsWhatIsSaid` | `ExportIsWhole` | `ExportInv` |
| | `ViewsStayHonest` | `ViewsAreHonest` | `InventoryInv` |
| | `RowsAreOfOneProcess` | `RowsAreConsistent` | `SamplingInv` |
| | `ChartsStayMeasured` | `ChartsAreMeasured` | `GraphInv` |
| | `NewestAreKept` | `KeepsTheNewest` | `LogInv` |
| `SnapshotsProofs` | `IconsAccountedFor` | `IconsAreAccounted` | `IconInv` |
| | `RatesAreMeasured` | `MeasuredOverOneInterval` | `DiskInv`, `ClockInv` |
| | `FiguresAreDated` | `ReadingsAreDated` | `AdapterInv`, `PlotInv`, `SensorPagesInv` |
| | `ReportsAreFaithful` | `ReportIsFaithful` | `ReportInv` |
| | `ThemesAreKept` | `ThemeIsKept` | `StudioInv` |

and those that state more than a run, or a part of one: `TypeCorrect` (service control, startup control,
preferences), `OneCommandAtATime` (`SingleFlight`), `KeepsSlotContract` (both controllers implement the safety part
of `CommandSlot`), `KeepsEventOrder` (`ServiceControl` implements `CommandEvents`), `OnlyResumeReleases`
(`ReleasedOnRequest`), `LivePagesPollFast` (`VisiblePollsFast`), `TableOrderIsStrict` and `UsagesAddInAnyOrder`. `ComponentsKeepTheirSpecs` and
`PagesKeepTheirSpecs` say that the compositions the runs check keep the specification of each component, so that
what is proved of a component alone is proved of it beside the others.

### Services

`SingleFlight` is not inductive: it says nothing of the event the worker is working on, and a worker whose
event were already `done` would answer while it is still running. `SlotInv` adds that the worker's own
event is never done, that an event marked done belongs to the active request, and that a request is in one
place at a time. `TypeOK` ties the worker's position to whether it holds a request, which keeps the case
analysis of `Next` short: the worker's actions that end in `Fail` or `Publish` share one lemma.

`KeepsEventOrder` lets the page be proved against `CommandEvents` alone. There `FreshAfterAnnouncement` is not
inductive either: it looks at the row on screen, and the next snapshot puts another one there. `ViewInv`
says of every place a reading can wait in (worker's event, mailbox, record, inventory, published, snapshot)
that its stamps are past and that it lies behind the command it would answer for (`CommandsAreBehind`),
and that nothing taken is kept when `poll` is over.

### Startup

`Held` says from where on the registration and the approval are guarded, and that unless an edit has doomed
the transaction, what `Recheck` and `ReadBack` saw is still so. That the order is guard first, then check, is
exactly what makes it inductive: with the check before the guard, an edit in between leaves `AsRegistered`
false and nothing doomed. `PageInv` follows the moment of the last change: a row that may be acted on comes
from a read that began after it or from the command's own verified outcome, for which `Held` is needed again.
Of a read in progress it says the same half by half: an enumerated registration is one of those since the change, and
therefore goes with whatever the approval is by the time it is read (`JoinedNow`).
Where an eviction has replaced records by a fence, the newest fence is one of theirs; that there is a
newest one follows from the least-number principle.

### Preferences

Types are proved one controller call at a time. For the refinement, `StoreInv` says that an instance between its
compare and its rename holds the lock and that the file still has the contents it compared; a rename is
then the abstract compare-and-swap and every other step a stutter, a load or a forget. `SettingsInv` says that
one message is under way between the UI and its worker, that a save carries the capture of its revision,
and that there is nothing to save before the file has been loaded.

### Processes

`KillInv` follows identities: the worker's list is confirmed, every handle was opened on a process whose identity
was compared with the list, and so what is terminated through a handle is confirmed, whoever uses the PID by
now. Nothing about `Build` is used, so the theorem holds whatever list the review shows. `FamilyInv` adds what
is true of Windows (identities are never reused; a parent's PID is free, the parent's, or reused since) and of
any two rows of however old a sample, and that each target before the one under verification is held if it still runs.

`WholeFamiliesAreReviewed` is about a loop. Its invariant `WalkInv` has one lemma for each outcome of a turn
(a row skipped, refused, listed), and at the end nothing is queued, so that
the list is closed under "is a child of". `EndTree` uses the loop as one recursive function; that this function exists, and that the sort it
starts with has a result, is shown by induction over sets of numbers (`LeastNumber`, `SetInduction`),
because the library's induction theorems take an operator as a parameter.

`TableInv` says that the view is built from the inputs of the moment and that an expanded row stands for one
process, of which at most one native reading was seen. `DialogsInv` says that an open dialog has the identity it
was opened for; that the selection stays within its second is inductive as it is.

### Workers

`ActionsInv` needs that creation times grow, so that nobody who is gone comes back, and that what was reported, the
results, the mirror and the frozen processes name the same running processes wherever the worker is.
`DrivesInv` counts a thread that has ended as long as its slot is there, because the monitor does; and it says that
a query's flag is raised only for a timeout or an unplugged drive. `WakeOnItsWay`: while a poll has missed the page and
nobody has asked for another, the page is between the swap of the flag and the wake.

### Window, files, figures

`NeverStranded` is inductive once the phases of a frame are told apart. `KeyInv`: a thread that answers holds its
answer; presses are of the chord held, except between a release and the drain. `ExportInv`: one job, which
works on its own temporary file and sends the truth about it. `PictureInv` relates the mirror to the textures of
both devices through every phase of a frame, `PaceInv` the attempts to the clock. `InventoryInv`: what is
painted is so now and the wake is the next change of it, and what was kept from an attempt that
failed is marked with it. `SamplingInv`: after the refresh every listed process has control information of
its second, times end with this sample, and counters count collections. `GraphInv`: a chart whose state is live and
which has a value was measured by the last snapshot that named it.

### Failure log

The file is overwritten from its first cell and cut to its length afterwards, so a death in between leaves a new
beginning before an old end. `LogInv` says that whoever opens, reads or writes the file holds its lock; that
what the lock's holder writes is laid out for the newest records together with its own; and that the file
holds the newest records whenever nobody is writing. A write that moves nothing puts the same cells where they were, so until
its last cell the file still lays out the old records (`UnderWritten`). `LayoutRead`
says that reading a layout returns what was laid out. After a write that moved records died, nothing is
claimed of older records: that is the `damaged` of the property.

### Icons

The property bounds what the loader is asked for by counting two channels and the request in hand against the
entries that wait. `IconInv` is the stronger statement that each awaited entry is asked exactly once, in one of
the places, with the number of its request, and that nothing is asked without an entry or a note that it
was dropped. `outstanding` then is a count of positions, and every
action moves one position. The invariant is stated of a state in the middle of a frame (`Midway`), since a frame takes answers,
evicts and asks again in one step.

### Figures and reports

`DiskInv` says that the counters kept are of the last pass that read them, so that a rate spans two passes in a row;
that an unread snapshot is newer than what is charted; and that charted moments rise. `ClockInv` puts the published interval
within its limits and after every failed query of its time. Its average lies between the slowest and the fastest
processor because each sum is a recursive function over a finite set, shown to exist and compared term
by term by induction over sets (`SetInduction`). `AdapterInv` and `PlotInv` date what is kept, through the pruning of a
history, which leaves a suffix. `SensorPagesInv` needs that a poll takes no longer than the bridge's limit allows. `ReportInv` says that
what is written is what was collected, escaped; that a cell is read back whole, and reads as private only if it is,
is a lemma on the recursive functions that escape a text and read it, by induction on how much is left.

### Themes

`StudioInv` says that every theme that is kept (shown, opened with, named, stored) is one the normalisation leaves as
it is. That rests on f32: rounding a sum never turns the order of two sums (`NearestRises`, one case for
each pair of binades), a peg's lower limit lies above its neighbour (`AfterIs`), and the ceilings leave room for it,
each being the rounded successor of the one before (`CeilingIs`, reckoned). Every place in the order of the pegs is taken
(`EveryPlaceIsTaken`), and pegs that are apart are where the order puts them (`ApartStays`).

`SnapshotsInv` puts the components side by side, each of the GPU's two samplers with the other at rest.

### Model-checked only

- Liveness (`ControlsReturn`, `ClosingReleases`, `AskedAgain`, `RefreshReadsAgain`, `NewestIsShown`, `QuitIsHeard`,
  `SettingsSettle`) and the fairness of `CommandSlot` in the refinements: out of the prover's reach.
- `ListingIsWhole`: `ProcessForest` uses recursive operators, and both halves of the property sort by `SortSeq`,
  which the provers cannot expand.
- Of `HoldsAreReleased`, `OnlyResumeReleases` proves the part that is not liveness; of `SpecsFollowThePage`, so
  does `LivePagesPollFast`.

## 5. Findings

1. `InventoryAfterCommand` is violated. `command_at` is stamped before the native call, and an inventory that
   starts before the command arrives in Windows has a later stamp. `app/service_controls.rs:28` says such an
   inventory cannot resolve the outcome. What does hold is `FreshAfterAnnouncement`: measured from the
   announcement, older readings are never offered as fresh.
2. `ParentsPrecedeChildren` is violated under All instances: all instances are roots and come first, so one that
   another instance started through a helper precedes that helper. `docs/PROCESS_CONTROLS.md:32` and
   `platform/tree.rs:69` say that parents precede. What does hold is `BranchParentsFirst` for a selected tree and
   `ParentListedBefore` for the recorded parents.
3. `FinalStateSaved` is violated. Between the permission to close and the end of the native loop the UI still
   captures settings (`app/preferences.rs:60`, `:71`), which are then lost; `docs/SETTINGS_PERSISTENCE.md:109` says
   the close waits for the final state.
4. `AnsweredOnce` is violated in builds that unwind panics. A startup worker that panics, publishes and ends
   between the two halves of `poll` (`startup/control/worker.rs:90`) is answered for by `poll`, and its own outcome
   is returned by the next poll; `startup/control/worker/tests.rs:54` and `:66` expect one report. `export.rs` reads its
   channel again after `is_finished` for this very reason.
5. `MovesAreAnswered` is violated. Gradient pegs at 23 %, 24 % and 25 % are as close as the normalisation allows, yet
   the limits that `move_stop` computes for the middle one cross by one rounding (0.24000001 and 0.23999999), and
   `f32::clamp` panics, which ends a release build (`theme/gradient.rs:74`).

Met while modelling, too small for a run, or a matter of taste:

- `app/system.rs:60-72` does not pull the specifications on Graphs, so that about 15 s after the last visit of System
  or Hardware sensors the chip of Graphs says "CPU temp: sensor app stopped" while the worker keeps polling every
  30 s (`app.rs:3330-3332` says otherwise). A visit of System after such a pause may show it until the poll answers.
- `app.rs:3266-3268` repaints a frozen view at "the remaining freshness transitions", but the bridge's expiry is not among
  them. Before the first poll, pages say "needs sensor app".
- Cores of two providers may mix: `specs/bridge.rs:60` numbers each provider's cores densely, `specs/live.rs:49` takes
  the first provider of each key.
- The tree sorted by State compares the raw status, the flat table the label on screen.
- The selection, which compares seconds, may drift to another process that used the PID within the same second
  when Windows refuses the creation time in between.
- Textures freed in a frame that is not presented stay on the GPU until the device is replaced.
- A hotkey that is set after the thread gave up stays "Pending".

## 6. What is left out

- Sample rows of one process are read in one step for the dialogs, and a loop turn of `terminate_tree` is one step. Names,
  command lines, depth and layout are not modelled.
- Preferences: settings are opaque; the tray may refuse to hide a window at any time.
- Startup: rows without an identity and unreadable approvals (neither can be changed), an enumeration that skips or repeats
  an entry because others come and go while it runs, the order of rows, and the death of the inventory worker.
- Theme editor: colours are tokens; the periodic capture every 30 seconds, hex fields, the palette generator, contrast
  and the gradient's mesh. Renderer: upstream's code, resizing, screenshots, other viewports.
- Parsers and collectors (SMBIOS, EDID, HWiNFO, WMI, PDH and NVML calls): a native call is one step with its possible
  outcomes. Memory, volume and network figures: arithmetic over one reading.
- Painting, widgets, layout, formatting, and the tests that paint every page. They are most of the source, which is why the map
  covers a sixth of its lines.
- `PROJECT.json` lists every component, with the reason where it is not modelled or only partly.

## 7. Plan

1. `ListingIsWhole`: the recursion of `ProcessForest` as functions of a set of rows, and the orders of
   `ProcessForest` and `ProcessOrder` by the rank of a row, as `ThemeStudio` orders its pegs. The forest then follows
   from what a walk towards the root leaves detached.
2. Memory, volume and network figures, which are arithmetic over one reading, if they grow state.

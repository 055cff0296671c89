----------------------------- MODULE SensorPages -----------------------------
(***************************************************************************)
(* The temperatures of the processor and of a drive, on every page that    *)
(* shows them: the sensor bridge's polls (specs/bridge.rs, specs/worker.rs *)
(* spawn_live), the copy of them the UI takes (app/system.rs poll_specs),  *)
(* and what Overview, System, Hardware sensors and Graphs make of it       *)
(* (specs/live.rs, app/overview.rs, app/sensors.rs, app/system.rs,         *)
(* app/storage.rs, app/graphs.rs).  A tick is about seven seconds.         *)
(***************************************************************************)
EXTENDS Integers, FiniteSets, FiniteSetsExt

CONSTANTS
  Apps,          \* the providers, 1..n in the order they are polled
  Reports,       \* what a provider may report: sets of Package and cores, the cores
                 \* 1..n in the order it lists them
  BridgeLimit,   \* BRIDGE_STALE_AFTER
  DriveLimit,    \* DriveReading::live, 15 s
  ActivePoll, IdlePoll,   \* ACTIVE_POLL, IDLE_POLL
  IdleInterval,  \* LIVE_IDLE_INTERVAL
  PollBudget,    \* the budget of a poll's Context
  LastInstant    \* bound: the clock stops

ASSUME SensorPagesAssumption ==
  /\ Apps \subseteq Nat /\ \A reports \in Reports : reports \subseteq Nat
  /\ {BridgeLimit, ActivePoll, IdlePoll, IdleInterval, PollBudget} \subseteq Nat
  /\ PollBudget + Max({ActivePoll, IdlePoll}) <= BridgeLimit

VARIABLES
  instant,
  showing,     \* the page
  specsOn,     \* specs.is_some()
  bridgeAt,    \* the bridge's thread: "off", "polling", "waiting"
  began,       \* when its poll began
  waitUntil,   \* when its recv_timeout ends
  requested,       \* its sync_channel(1) holds a request
  liveOn,      \* the AtomicBool live_active
  published,   \* the shared BridgeReadings
  seen,        \* specs_view.bridge
  drive        \* the DriveReading of a drive, in the newest snapshot

bridgeVars == <<showing, specsOn, bridgeAt, began, waitUntil, requested, liveOn, published, seen>>
sensorPageVars == <<instant, bridgeVars, drive>>

NotYet == -1
Package == 0
Recent(at, limit) == at # NotYet /\ instant - at <= limit
-----------------------------------------------------------------------------
(* bridge.rs: a poll asks every provider; one that is not running answers  *)
(* with an error.  Readings that are no numbers never get this far.        *)

NotRunning == [running |-> FALSE, reports |-> {}]
Polls == [Apps -> {NotRunning} \cup [running : {TRUE}, reports : Reports]]

NeverPolled == [poll |-> [a \in Apps |-> NotRunning], at |-> NotYet,
           late |-> FALSE]

(* Cores are numbered as they come, in each poll and provider anew.        *)
Key(reports, n) ==
  IF n = Package THEN [kind |-> "package", index |-> 0]
  ELSE [kind |-> "core", index |-> Cardinality({c \in reports \ {Package} : c < n})]

(* A provider's readings numbered by what it calls its cores.              *)
Offered(bridge) ==
  UNION {{[key |-> Key(bridge.poll[a].reports, n), app |-> a, name |-> n] :
            n \in bridge.poll[a].reports} : a \in Apps}

(* The first provider wins a key. *)
BridgeReadings(bridge) ==
  {r \in Offered(bridge) : \A other \in Offered(bridge) :
                             other.key = r.key => r.app <= other.app}

(* BridgeReadings::status is known. *)
Known(bridge) == \E a \in Apps : bridge.poll[a].running
-----------------------------------------------------------------------------
(* worker.rs spawn_live: a poll, then a wait that is long while no page    *)
(* shows live readings and that a request ends.                            *)

EndPoll ==
  /\ bridgeAt = "polling" /\ bridgeAt' = "waiting" /\ began' = 0
  /\ \E poll \in Polls :
       /\ published' = [poll |-> poll, at |-> began, late |-> instant - began > PollBudget]
       /\ waitUntil' = instant + (IF ~liveOn THEN IdleInterval
                                  ELSE IF Known(published') THEN ActivePoll ELSE IdlePoll)
  /\ UNCHANGED <<instant, showing, specsOn, requested, liveOn, seen, drive>>

WaitOver == bridgeAt = "waiting" /\ (requested \/ instant >= waitUntil)

NextPoll ==
  /\ WaitOver /\ bridgeAt' = "polling" /\ began' = instant
  /\ requested' = FALSE /\ waitUntil' = 0
  /\ UNCHANGED <<instant, showing, specsOn, liveOn, published, seen, drive>>
-----------------------------------------------------------------------------
(* system.rs poll_specs and prepare_page.                                  *)

StartsSpecs(page) == page \in {"system", "network"}
WantsLive(page) == page \in {"system", "overview"}
Pulls(page) == StartsSpecs(page) \/ page = "overview"

StartSpecs(on) ==
  /\ specsOn' = on
  /\ IF on /\ ~specsOn THEN bridgeAt' = "polling" /\ began' = instant
     ELSE UNCHANGED <<bridgeAt, began>>

(* The flag goes up, and the thread sleeps on.                             *)
SetLiveSilently(live) == liveOn' = live /\ UNCHANGED requested

(* set_live_active: a request only when the flag goes up; snapshot: a lock *)
(* that the thread holds leaves the last copy.                             *)
SetLive(live) == liveOn' = live /\ requested' = (requested \/ (live /\ ~liveOn))

Frame(page) ==
  /\ showing' = page
  /\ StartSpecs(specsOn \/ StartsSpecs(page))
  /\ IF specsOn' THEN SetLive(WantsLive(page)) ELSE UNCHANGED <<liveOn, requested>>
  /\ IF specsOn' /\ Pulls(page)
     THEN seen' = published \/ (bridgeAt = "polling" /\ UNCHANGED seen)
     ELSE UNCHANGED seen
  /\ UNCHANGED <<instant, waitUntil, published, drive>>

(* Pointing at System in the navigation starts its workers.                *)
HoverSystem ==
  /\ ~specsOn /\ StartSpecs(TRUE)
  /\ UNCHANGED <<instant, showing, waitUntil, requested, liveOn, published, seen, drive>>
-----------------------------------------------------------------------------
(* storage_sensors/mod.rs: what becomes of a drive's reading.  A sensor's  *)
(* reading may be missing: Blank.  The drive lists its sensors in any      *)
(* order.                                                                  *)

Blank == 0
Sensor(index, celsius) == [index |-> index, celsius |-> celsius]
SensorLists == {<<Sensor(0, Blank)>>, <<Sensor(0, 1)>>, <<Sensor(1, 1), Sensor(0, 2)>>,
                <<Sensor(0, Blank), Sensor(1, 1)>>}
HasReading(list) == {i \in DOMAIN list : list[i].celsius # Blank}

NewDrive == [present |-> TRUE, failed |-> FALSE, success |-> NotYet, list |-> <<>>,
             listAt |-> NotYet]   \* when the list was read, for the properties

(* complete: an answer without one usable reading is a failure, of which   *)
(* only the first keeps its sensors.                                       *)
CompleteRead(list) ==
  IF HasReading(list) # {}
  THEN [drive EXCEPT !.failed = FALSE, !.success = instant, !.list = list, !.listAt = instant]
  ELSE IF drive.success = NotYet
  THEN [drive EXCEPT !.failed = TRUE, !.list = list, !.listAt = instant]
  ELSE [drive EXCEPT !.failed = TRUE]

DriveAnswers ==
  /\ drive.present /\ \E list \in SensorLists : drive' = CompleteRead(list)
  /\ UNCHANGED <<instant, bridgeVars>>

DriveFails ==
  /\ drive' = [drive EXCEPT !.failed = TRUE]
  /\ UNCHANGED <<instant, bridgeVars>>

(* An inventory no longer has the drive, or has it again: in the slot that *)
(* still waits for its worker, or in a new one.                            *)
DriveGoes == drive.present /\ drive' = [drive EXCEPT !.present = FALSE]
DriveReturns ==
  /\ ~drive.present /\ drive' \in {NewDrive, [drive EXCEPT !.present = TRUE]}

DriveMoves == (DriveGoes \/ DriveReturns) /\ UNCHANGED <<instant, bridgeVars>>
-----------------------------------------------------------------------------
(* Time does not pass the end of a wait; a poll may take for ever.         *)
PassInstant ==
  /\ instant < LastInstant /\ ~WaitOver
  /\ instant' = instant + 1
  /\ UNCHANGED <<bridgeVars, drive>>

(* "system" is System or Hardware sensors, "network" Performance with an    *)
(* adapter chosen; Graphs stands for every page without these readings.    *)
ShownPages == {"system", "network", "overview", "graphs"}

SensorPagesInit ==
  /\ instant = 0 /\ showing = "overview" /\ specsOn = FALSE
  /\ bridgeAt = "off" /\ began = 0 /\ waitUntil = 0 /\ requested = FALSE /\ liveOn = TRUE
  /\ published = NeverPolled /\ seen = NeverPolled /\ drive = NewDrive

BridgeNext ==
  EndPoll \/ NextPoll \/ HoverSystem \/ PassInstant \/ \E page \in ShownPages : Frame(page)

DriveNext == DriveAnswers \/ DriveFails \/ DriveMoves \/ PassInstant
-----------------------------------------------------------------------------
(* What the pages make of the processor's temperature.  A set of readings  *)
(* is empty where the page has nothing to show.                            *)

PackageKey == [kind |-> "package", index |-> 0]
FreshBridge(bridge) == Recent(bridge.at, BridgeLimit)
With(bridge, key) == {r \in BridgeReadings(bridge) : r.key = key}

(* from_bridge: the rows of System and of Hardware sensors.                *)
FromBridge(key) == IF Known(seen) /\ FreshBridge(seen) THEN With(seen, key) ELSE {}

(* overview_thermals' tile. *)
OverviewTile ==
  LET fresh == Known(seen) /\ FreshBridge(seen)
  IN {r \in With(seen, PackageKey) : fresh}

(* cpu_temperature_gap: the wording every page shares; Graphs' chip is it. *)
CpuTemperatureGap ==
  IF Known(seen) /\ FreshBridge(seen) /\ With(seen, PackageKey) # {} THEN "none"
  ELSE IF ~specsOn THEN "not checked yet"
  ELSE IF ~Known(seen) THEN "needs sensor app"
  ELSE IF FreshBridge(seen) THEN "not in sensor app" ELSE "sensor app stopped"

(* live_parts and headline_live. *)
LiveParts(key) ==
  IF FromBridge(key) # {} THEN "value"
  ELSE IF key = PackageKey /\ CpuTemperatureGap # "none" THEN CpuTemperatureGap ELSE "unavailable"

HeadlineLive(key) ==
  IF LiveParts(key) = "unavailable" \/ (key = PackageKey /\ CpuTemperatureGap # "none")
  THEN "--" ELSE LiveParts(key)

(* Hardware sensors: its pill, its row and its core chips.                 *)
SensorsPill ==
  IF ~Known(seen) THEN CpuTemperatureGap
  ELSE IF FreshBridge(seen) THEN "providers" ELSE "sensor app stopped"

SensorsRow == IF Known(seen) THEN LiveParts(PackageKey) ELSE "needs sensor app"

CoreChips ==
  {[core |-> r, text |-> HeadlineLive(r.key)] :
     r \in {reading \in BridgeReadings(seen) : Known(seen) /\ reading.key.kind = "core"}}
-----------------------------------------------------------------------------
(* What the pages make of a drive's temperature.                           *)

DriveLive == drive.present /\ ~drive.failed /\ Recent(drive.success, DriveLimit)

DriveStatus ==
  IF ~drive.present THEN "Disconnected" ELSE IF DriveLive THEN "Live"
  ELSE IF drive.success # NotYet THEN "Cached"
  ELSE IF drive.failed THEN "Unavailable" ELSE "Starting"

(* live.rs drive: the sensor of index 0, else the first with a reading.    *)
SystemDrive ==
  LET zero == {i \in HasReading(drive.list) : drive.list[i].index = 0}
      found == IF zero # {} THEN zero ELSE HasReading(drive.list)
  IN IF found = {} \/ (~DriveLive /\ drive.success = NotYet) THEN [state |-> "unavailable"]
     ELSE [state |-> IF DriveLive THEN "Live" ELSE "Cached",
           celsius |-> drive.list[Min(found)].celsius]

(* Overview's tile: the hottest sensor, with a chip.                       *)
StateChip ==
  CASE DriveStatus = "Live" -> "none" [] DriveStatus = "Cached" -> "Cached"
    [] DriveStatus = "Starting" -> "Starting" [] OTHER -> "Stale"

OverviewDrive ==
  IF ~drive.present THEN [shows |-> "nothing"]
  ELSE IF HasReading(drive.list) = {} THEN [shows |-> "gap"]
  ELSE [shows |-> "tile", chip |-> StateChip,
        celsius |-> Max({drive.list[i].celsius : i \in HasReading(drive.list)})]

(* Hardware sensors: a card with every sensor and a chip.                  *)
DriveCard ==
  IF drive.list = <<>> THEN [shows |-> "gap"]
  ELSE [shows |-> "card",
        chip |-> CASE DriveStatus = "Live" -> "none" [] DriveStatus = "Cached" -> "Cached"
                   [] OTHER -> "Stale"]
-----------------------------------------------------------------------------
(* The pages tell one story of the processor's temperature, although each  *)
(* has its own reading of the bridge: all of them show it, or all of them  *)
(* say that it is missing, and they name one cause (app/overview.rs:       *)
(* 743-785, app/sensors.rs:29-97, 137-190, 703-745, app/system.rs:710-761, *)
(* specs/live.rs:218-257).                                                 *)
CpuPagesAgree ==
  LET shown == OverviewTile # {} IN
  /\ shown <=> CpuTemperatureGap = "none"
  /\ shown <=> LiveParts(PackageKey) = "value"
  /\ shown <=> HeadlineLive(PackageKey) # "--"
  /\ shown <=> SensorsRow = "value"
  /\ SensorsPill = "providers" <=> CpuTemperatureGap \in {"none", "not in sensor app"}
  /\ SensorsPill = "sensor app stopped" <=> CpuTemperatureGap = "sensor app stopped"

(* A temperature on a page was measured at most the limit ago, and comes   *)
(* from the first provider that has it, however many answered; the cores   *)
(* of one provider appear in its order and no number twice (specs/bridge.rs*)
(* 45-107, app/sensors.rs:162-199).                                        *)
TemperaturesAreRecent ==
  /\ (OverviewTile # {} \/ \E chip \in CoreChips : chip.text = "value")
       => seen.at # NotYet /\ instant - seen.at <= BridgeLimit
  /\ \A r \in OverviewTile, a \in Apps : Package \in seen.poll[a].reports => r.app <= a
  /\ \A x, y \in CoreChips :
       /\ x.core.key = y.core.key => x = y
       /\ x.core.app = y.core.app /\ x.core.name < y.core.name
            => x.core.key.index < y.core.key.index

(* A page that keeps the readings live says that the sensor app stopped    *)
(* only because of the app: a poll overran its budget or is still under    *)
(* way, unless the next poll or the page's copy of the last is just due    *)
(* (specs/worker.rs:385-424, app/system.rs:59-75).                         *)
StoppedIsTrue ==
  specsOn /\ WantsLive(showing) /\ CpuTemperatureGap = "sensor app stopped" =>
    published.late \/ bridgeAt = "polling" \/ requested \/ seen # published

(* A drive's temperature is without a mark on all pages or on none, and    *)
(* then the drive is there and gave it within the limit (storage_sensors/  *)
(* mod.rs:144-187, specs/live.rs:415-455, app/overview.rs:867-914,         *)
(* app/storage.rs:55-100, 275-281).                                        *)
DrivePagesAgree ==
  LET unmarked == SystemDrive.state = "Live" IN
  /\ unmarked <=> OverviewDrive.shows = "tile" /\ OverviewDrive.chip = "none"
  /\ unmarked <=> DriveCard.shows = "card" /\ DriveCard.chip = "none"
  /\ unmarked => drive.present /\ Recent(drive.listAt, DriveLimit)

SensorsAreAsShown ==
  CpuPagesAgree /\ TemperaturesAreRecent /\ StoppedIsTrue /\ DrivePagesAgree
=============================================================================

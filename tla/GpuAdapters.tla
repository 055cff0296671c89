---------------------------- MODULE GpuAdapters ----------------------------
(***************************************************************************)
(* GPU rows on the sampler thread.  gpu_adapters/native.rs keeps Windows   *)
(* adapters through temporary failures, with the engines and the memory of *)
(* this sample only; gpu_sensors.rs keeps the last good NVML readings and  *)
(* says when they are old, and the page plots them by UUID (app.rs).       *)
(* A figure stands for the moment at which it was read.                    *)
(***************************************************************************)
EXTENDS Readings, FiniteSets, FiniteSetsExt, Sequences, SequencesExt, Functions

CONSTANTS Luids,                    \* logical adapters
          Nodes,                    \* further physical nodes, beside node 0
          MaxAdapters,
          Uuids,                    \* NVML identities
          AdapterRetry, Retain,     \* 30 s and 120 s
          SensorRetry, SensorWindow, MaxSensorPoints,
          LastGpuSample             \* bound: samples taken

ASSUME GpuAssumption ==
  /\ IsFiniteSet(Luids) /\ IsFiniteSet(Nodes) /\ 0 \notin Nodes
  /\ {MaxAdapters, AdapterRetry, Retain, SensorRetry, SensorWindow, MaxSensorPoints, LastGpuSample}
       \subseteq Nat

VARIABLES gpuClock,
          inventoried, inventoryLive, memoryQuery, lastRetry, adapterRows,    \* native::Sampler
          nvml, sensorRetryAt, lastGood, sensors,    \* SensorSampler and what it returned
          sensorHistory                              \* TrontopApp.sensor_history

adapterVars == <<inventoried, inventoryLive, memoryQuery, lastRetry, adapterRows>>
sensorVars == <<nvml, sensorRetryAt, lastGood, sensors, sensorHistory>>
deviceVars == <<gpuClock, adapterVars, sensorVars>>

Unavailable == 0
NotRead == 0

Keys == Luids \X ({0} \cup Nodes)
NewRow == [activity |-> Unavailable, memory |-> NotRead, live |-> FALSE,
           described |-> FALSE, current |-> FALSE, lastSeen |-> Never]

GpuInit ==
  /\ gpuClock = 1
  /\ inventoried = {} /\ inventoryLive = FALSE /\ memoryQuery = FALSE /\ lastRetry = Never
  /\ adapterRows = <<>>
  /\ nvml = FALSE /\ sensorRetryAt = Never /\ lastGood = <<>>
  /\ sensors = [readings |-> <<>>, cached |-> FALSE, attemptedAt |-> Never]
  /\ sensorHistory = <<>>

-----------------------------------------------------------------------------
(* The rows that were seen within Retain; the others are dropped.          *)
RetainedKeys == {key \in DOMAIN adapterRows :
               adapterRows[key].lastSeen # Never /\ gpuClock' <= adapterRows[key].lastSeen + Retain}

(* rows.entry(key).or_insert_with: a new row only while there is room.     *)
Entered(keys, wanted) ==
  LET room == Min({Cardinality(wanted \ keys), MaxAdapters - Cardinality(keys)})
  IN  {keys \cup new : new \in kSubset(room, wanted \ keys)}

(***************************************************************************)
(* The inventory of DXGI and the PDH query, tried again after AdapterRetry;*)
(* one memory counter stands for the three.                                *)
(***************************************************************************)
RetryNative ==
  IF lastRetry # Never /\ gpuClock' < lastRetry + AdapterRetry
  THEN UNCHANGED <<inventoried, inventoryLive, memoryQuery, lastRetry>>
  ELSE /\ lastRetry' = gpuClock'
       /\ \/ inventoryLive' = TRUE /\ inventoried' \in SUBSET Luids
          \/ inventoryLive' = FALSE /\ inventoried' = inventoried
       /\ memoryQuery' \in IF memoryQuery THEN {TRUE} ELSE BOOLEAN

(* What a counter array has: for some adapters a value, or an invalid one. *)
MemoryArrays == UNION {[keys -> BOOLEAN] : keys \in SUBSET Keys}

(***************************************************************************)
(* The row after a sample.  What was live in the sample before is not live *)
(* in this one unless it is read again.  The description of a logical      *)
(* adapter is current if the last inventory worked and has it; a further   *)
(* node has no description of its own.                                     *)
(***************************************************************************)
Before(key) == IF key \in RetainedKeys THEN adapterRows[key] ELSE NewRow
Listed(key) == key[2] = 0 /\ key[1] \in inventoried'

(* A memory figure stays live until it is read and found invalid.          *)
LiveUntilRead(key, memory) == IF key \in DOMAIN memory THEN memory[key] ELSE Before(key).live

LiveNow(key, memory) == key \in DOMAIN memory /\ memory[key]

Row(key, active, memory) ==
  [activity  |-> IF key \in active THEN gpuClock' ELSE Unavailable,
   live      |-> LiveNow(key, memory),
   memory    |-> IF key \in DOMAIN memory /\ memory[key] THEN gpuClock' ELSE Before(key).memory,
   described |-> Before(key).described \/ Listed(key),
   current   |-> inventoryLive' /\ Listed(key),
   lastSeen  |-> IF key \in active \cup DOMAIN memory \/ (Listed(key) /\ inventoryLive')
                 THEN gpuClock' ELSE Before(key).lastSeen]

(* The inventory, the engines and the memory counters each bring adapters. *)
SampleAdapters(active, memory) ==
  \E described \in Entered(RetainedKeys, {<<luid, 0>> : luid \in inventoried'}) :
    \E busy \in Entered(described, active) :
      \E keys \in Entered(busy, DOMAIN memory) :
        adapterRows' = [key \in keys |-> Row(key, active, memory)]

NextAdapters ==
  /\ gpuClock < LastGpuSample /\ gpuClock' = gpuClock + 1
  /\ RetryNative
  /\ \E active \in SUBSET Keys : \E memory \in IF memoryQuery' THEN MemoryArrays ELSE {<<>>} :
       SampleAdapters(active, memory)
  /\ UNCHANGED sensorVars

-----------------------------------------------------------------------------
(***************************************************************************)
(* NVML.  Nvml::sample fails if enumeration fails or every adapter does;   *)
(* an adapter that answers may lack a reading.                             *)
(***************************************************************************)
Answers == UNION {[uuids -> {NotRead, gpuClock'}] : uuids \in SUBSET Uuids \ {{}}}

Succeed(readings) ==
  /\ nvml' = TRUE /\ sensorRetryAt' = Never
  /\ lastGood' = readings
  /\ sensors' = [readings |-> readings, cached |-> FALSE, attemptedAt |-> gpuClock']

(* A driver that is missing or a sample that fails: left alone for 30 s.   *)
FailSensors ==
  /\ nvml' = FALSE /\ sensorRetryAt' = gpuClock' + SensorRetry
  /\ UNCHANGED lastGood
  /\ sensors' = [readings |-> lastGood, cached |-> lastGood # <<>>, attemptedAt |-> gpuClock']

WaitForRetry ==
  /\ UNCHANGED <<nvml, sensorRetryAt, lastGood>>
  /\ sensors' = [sensors EXCEPT !.readings = lastGood, !.cached = lastGood # <<>>]

SampleSensors == IF gpuClock' < sensorRetryAt THEN WaitForRetry
                 ELSE FailSensors \/ \E readings \in Answers : Succeed(readings)

(***************************************************************************)
(* SensorHistory::push and the part of accept_sample that calls it.        *)
(***************************************************************************)
(* Points leave from the front while there are too many or they are old.   *)
Pruned(points, at) ==
  LET first == Min({i \in 1 .. Len(points) + 1 :
                      /\ Len(points) < i + MaxSensorPoints
                      /\ i <= Len(points) => at <= points[i].at + SensorWindow})
  IN  SubSeq(points, first, Len(points))

Push(points, at, value) ==
  IF points # <<>> /\ Last(points).at >= at THEN points
  ELSE Pruned(Append(points, [at |-> at, value |-> value]), at)

Plottable(snap, uuid) ==
  IF uuid \in DOMAIN snap.readings /\ ~snap.cached THEN snap.readings[uuid] ELSE NotRead

(* An adapter that was removed leaves once its whole window is empty.      *)
StillShown(snap, uuid, points) ==
  uuid \in DOMAIN snap.readings \/ \E i \in DOMAIN points : points[i].value # NotRead

PlotSensors ==
  LET pushed == [uuid \in DOMAIN sensorHistory \cup DOMAIN sensors'.readings |->
                   Push(IF uuid \in DOMAIN sensorHistory THEN sensorHistory[uuid] ELSE <<>>,
                        gpuClock', Plottable(sensors', uuid))]
  IN  sensorHistory' = Restrict(pushed, {uuid \in DOMAIN pushed :
                                           StillShown(sensors', uuid, pushed[uuid])})

NextSensors ==
  /\ gpuClock < LastGpuSample /\ \E step \in {1, 2} : gpuClock' = gpuClock + step
  /\ SampleSensors
  /\ PlotSensors
  /\ UNCHANGED adapterVars

(* The two share only the sampler's turn, so each behaviour runs one.      *)
AdapterSpec == GpuInit /\ [][NextAdapters]_deviceVars
SensorSpec == GpuInit /\ [][NextSensors]_deviceVars

-----------------------------------------------------------------------------
(***************************************************************************)
(* An engine or a memory figure that a row shows as live was read in the   *)
(* last sample, and a description that is called current was in the last   *)
(* inventory, whatever failed, left or came back before; every row was     *)
(* seen or described within its time (gpu_adapters/native.rs 58-152).      *)
(***************************************************************************)
AdapterFiguresCurrent ==
  /\ Cardinality(DOMAIN adapterRows) <= MaxAdapters
  /\ \A key \in DOMAIN adapterRows :
       LET row == adapterRows[key]
       IN  /\ row.activity \in {Unavailable, gpuClock}
           /\ row.live => row.memory = gpuClock
           /\ row.current => row.described /\ inventoryLive /\ key[1] \in inventoried
           /\ gpuClock <= row.lastSeen + Retain \/ (key[2] = 0 /\ key[1] \in inventoried)

(***************************************************************************)
(* A point of a sensor's history was read at the time it is plotted at,    *)
(* although the last good readings are shown while the driver fails        *)
(* (gpu_sensors.rs 59-150, app.rs 458-490).                                *)
(***************************************************************************)
PlottedWasRead ==
  \A uuid \in DOMAIN sensorHistory : \A i \in DOMAIN sensorHistory[uuid] :
    sensorHistory[uuid][i].value \in {NotRead, sensorHistory[uuid][i].at}

(* No figure of a GPU is older than the page or the graph says.            *)
GpuFiguresAreDated == AdapterFiguresCurrent /\ PlottedWasRead
=============================================================================

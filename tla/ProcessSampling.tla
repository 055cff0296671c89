--------------------------- MODULE ProcessSampling ---------------------------
(***************************************************************************)
(* How the sampler puts a process row together (sampler.rs sample_loop,    *)
(* process_cpu.rs, windows_metrics.rs): the process table, the CPU times,  *)
(* the control information and the GPU counters are read one after the     *)
(* other while processes exit and their PIDs are used again.  A process is *)
(* named by its birth, a number; the table knows only the second of it.    *)
(***************************************************************************)
EXTENDS Integers, FiniteSets, Readings

CONSTANTS Pids,
          ControlInterval, GpuInterval,  \* CONTROL_ and GPU_INVENTORY_REFRESH_INTERVAL
          LastBirth, LastCycle           \* bounds: processes started, samples taken

ASSUME SamplingAssumption ==
  /\ ControlInterval \in Nat \ {0} /\ GpuInterval \in Nat \ {0}
  /\ LastBirth \in Nat /\ LastCycle \in Nat

VARIABLES
  alive,      \* the process of each PID, 0 for none
  births,
  cycle,      \* sequence: samples begun
  step,       \* what the sampler reads next
  table,      \* sysinfo's process of each PID
  timesOk,    \* the CPU tracker: its current reading is not the default
  current,    \* the process of each PID in the current reading, 0 for none
  previous,   \* the same of the previous one; NoReading for None
  read,       \* history: the cycles of the two readings
  controls,   \* the control information kept for (PID, second)
  counters,   \* collections since each PID's GPU counter was added, -1: no counter
  gpuError,   \* last_error
  collected,  \* history: consecutive good collections of each counter, -1: no counter
  gpuByPid,   \* this sample's reading of each PID
  rows        \* the sample's process rows

world    == <<alive, births>>
cpuVars  == <<timesOk, current, previous, read>>
gpuVars  == <<counters, gpuError, collected, gpuByPid>>
samplingVars == <<world, cycle, step, table, cpuVars, controls, gpuVars, rows>>

Second(birth) == (birth + 1) \div 2   \* two births fall in one second
Nothing   == [pid \in Pids |-> 0]
NoReading == [pid \in Pids |-> -1]
Present(t) == {pid \in Pids : t[pid] > 0}

(* Windows gives the PID of an ended process to a new one.                 *)
Spawn(pid) ==
  /\ alive[pid] = 0 /\ births < LastBirth
  /\ births' = births + 1 /\ alive' = [alive EXCEPT ![pid] = births + 1]
  /\ UNCHANGED <<cycle, step, table, cpuVars, controls, gpuVars, rows>>

Exit(pid) ==
  /\ alive[pid] # 0 /\ alive' = [alive EXCEPT ![pid] = 0]
  /\ UNCHANGED <<births, cycle, step, table, cpuVars, controls, gpuVars, rows>>
-----------------------------------------------------------------------------
StepTo(from, to) == step = from /\ step' = to

RefreshTable ==
  /\ StepTo("table", "times") /\ cycle < LastCycle
  /\ table' = alive
  /\ UNCHANGED <<world, cycle, cpuVars, controls, gpuVars, rows>>

(* Tracker::update: a failed read clears the baseline.                     *)
UpdateTimes(ok) ==
  IF ok THEN /\ timesOk' = TRUE /\ current' = alive /\ previous' = current
             /\ read' = [from |-> read.to, to |-> cycle + 1]
        ELSE /\ timesOk' = FALSE /\ current' = Nothing /\ previous' = NoReading
             /\ read' = [from |-> -1, to |-> -1]

ReadTimes ==
  /\ StepTo("times", "controls")
  /\ \E ok \in BOOLEAN : UpdateTimes(ok)
  /\ UNCHANGED <<world, cycle, table, controls, gpuVars, rows>>

ForAnyStart(created, second) == created

(* ProcessControlInfo::for_observed_start: of another start, nothing.      *)
ForObservedStart(created, second) ==
  IF created # 0 /\ Second(created) = second THEN created ELSE 0

(* Information of processes that are gone is dropped; the rest is asked    *)
(* for when it is missing and every ControlInterval samples.  The query    *)
(* opens whatever process has the PID now, and may be denied.              *)
RefreshControls ==
  /\ StepTo("controls", "gpu")
  /\ LET active == {<<pid, Second(table[pid])>> : pid \in Present(table)}
         kept   == {c \in controls : <<c.pid, c.second>> \in active}
         asked  == {key \in active : cycle % ControlInterval = 0
                                     \/ ~\E c \in kept : <<c.pid, c.second>> = key}
     IN \E accessible \in SUBSET asked :
          controls' = {c \in kept : <<c.pid, c.second>> \notin asked}
            \cup {[pid |-> key[1], second |-> key[2],
                   created |-> IF key \in accessible
                               THEN ForObservedStart(alive[key[1]], key[2]) ELSE 0]
                    : key \in asked}
  /\ UNCHANGED <<world, cycle, table, cpuVars, gpuVars, rows>>

(* refresh_instances: existing counters keep their samples.                *)
RefreshInstances(engines, found) ==
  /\ counters' = [pid \in Pids |-> IF ~found THEN counters[pid]
                                   ELSE IF pid \notin engines THEN -1
                                   ELSE IF counters[pid] = -1 THEN 0 ELSE counters[pid]]
  /\ collected' = [pid \in Pids |-> IF counters'[pid] = -1 THEN -1
                                    ELSE IF counters[pid] = -1 THEN 0 ELSE collected[pid]]
  /\ gpuError' = (~found \/ engines = {})

GpuInventory ==
  /\ StepTo("gpu", "collect")
  /\ IF cycle > 0 /\ cycle % GpuInterval = 0
     THEN \E engines \in SUBSET Present(alive), found \in BOOLEAN :
            RefreshInstances(engines, found)
     ELSE UNCHANGED <<counters, collected, gpuError>>
  /\ UNCHANGED <<world, cycle, table, cpuVars, controls, gpuByPid, rows>>

(* A failed collection breaks the interval: the counters start again.      *)
FailedCollection == counters' = [pid \in Pids |-> IF counters[pid] = -1 THEN -1 ELSE 0]

(* sample_engines: a rate needs a second collection; a counter whose       *)
(* engine is gone is no gap; an unreadable one is.                         *)
CollectEngines(valid) ==
  LET samples(pid) == IF counters[pid] < 2 THEN counters[pid] + 1 ELSE 2
      usage(pid)   == IF samples(pid) < 2 THEN Missing("Warming")
                      ELSE IF pid \in valid THEN Measured(1) ELSE Missing("Unavailable")
      counted      == {pid \in Pids : counters[pid] # -1}
      reported     == {pid \in counted : alive[pid] # 0 \/ samples(pid) < 2}
      anyValid     == \E pid \in reported : HasValue(usage(pid))
  IN  /\ counters' = [pid \in Pids |-> IF pid \in counted THEN samples(pid) ELSE -1]
      /\ gpuByPid' = [pid \in Pids |->
           IF pid \in reported
           THEN IF gpuError THEN LowerBound(usage(pid)) ELSE usage(pid)
           ELSE Missing(IF anyValid THEN "Unreported"
                        ELSE IF gpuError \/ reported = {}
                                \/ \E p \in reported : usage(p).kind # "Warming"
                        THEN "Unavailable" ELSE "Warming")]

CollectProcesses ==
  /\ StepTo("collect", "rows")
  /\ IF \A pid \in Pids : counters[pid] = -1
     THEN /\ gpuByPid' = [pid \in Pids |->
                            Missing(IF gpuError THEN "Unavailable" ELSE "Warming")]
          /\ UNCHANGED <<counters, collected>>
     ELSE \/ /\ FailedCollection
             /\ collected' = [pid \in Pids |-> IF collected[pid] = -1 THEN -1 ELSE 0]
             /\ gpuByPid' = [pid \in Pids |-> Missing("Unavailable")]
          \/ /\ \E valid \in SUBSET Pids : CollectEngines(valid)
             /\ collected' = [pid \in Pids |-> IF collected[pid] = -1 THEN -1
                                               ELSE IF collected[pid] < 2 THEN collected[pid] + 1
                                               ELSE 2]
  /\ UNCHANGED <<world, cycle, table, cpuVars, controls, gpuError, rows>>

(* process_cpu: the times are joined by PID and by the second of birth;    *)
(* Tracker::percent compares the exact births of the two readings.         *)
CpuFigure(pid, second) ==
  IF current[pid] > 0 /\ Second(current[pid]) = second
  THEN [birth |-> current[pid],
        since |-> IF previous[pid] = current[pid] THEN read.from ELSE -1]
  ELSE [birth |-> 0, since |-> -1]

(* The rows of the sample; the sequence number counts it.                  *)
BuildRows ==
  /\ StepTo("rows", "table")
  /\ cycle' = cycle + 1
  /\ rows' = {[pid |-> pid, second |-> Second(table[pid]),
               cpu |-> CpuFigure(pid, Second(table[pid])),
               control |-> (CHOOSE c \in controls :
                              c.pid = pid /\ c.second = Second(table[pid])).created,
               gpu |-> gpuByPid[pid]] : pid \in Present(table)}
  /\ UNCHANGED <<world, table, cpuVars, controls, gpuVars>>
-----------------------------------------------------------------------------
SamplingInit ==
  /\ births = 1 /\ alive \in {[Nothing EXCEPT ![pid] = 1] : pid \in Pids}
  /\ cycle = 0 /\ step = "table" /\ table = Nothing
  /\ timesOk = TRUE /\ current = alive /\ previous = Nothing
  /\ read = [from |-> -1, to |-> 0]
  /\ controls = {}
  /\ counters \in [Pids -> {-1, 0}] /\ collected = counters /\ gpuError \in BOOLEAN
  /\ gpuByPid = [pid \in Pids |-> Missing("Unavailable")]
  /\ rows = {}

SamplingNext ==
  \/ \E pid \in Pids : Spawn(pid) \/ Exit(pid)
  \/ RefreshTable \/ ReadTimes \/ RefreshControls \/ GpuInventory \/ CollectProcesses \/ BuildRows

SamplingSpec == SamplingInit /\ [][SamplingNext]_samplingVars
-----------------------------------------------------------------------------
(* Whatever exits and starts between the four reads, a row's CPU figure    *)
(* and control information are of a process born in the second the row     *)
(* names (sampler.rs:50-64, 279-297, 354-395).                             *)
FiguresAreOfTheRow ==
  \A row \in rows : /\ row.cpu.birth # 0 => Second(row.cpu.birth) = row.second
                    /\ row.control # 0 => Second(row.control) = row.second

(* A percentage is a rate over the last interval and no other: of CPU      *)
(* between two readings of consecutive samples, of GPU between two         *)
(* collections with none that failed between them (process_cpu.rs:53-93,   *)
(* windows_metrics.rs:167-190).                                            *)
RatesSpanOneInterval ==
  step = "table" => \A row \in rows :
    /\ row.cpu.since # -1 => row.cpu.since = cycle - 1
    /\ row.gpu.kind = "Measured" => collected[row.pid] = 2

(* A row of the sample is of one process and one interval.                 *)
RowsAreConsistent == FiguresAreOfTheRow /\ RatesSpanOneInterval
=============================================================================

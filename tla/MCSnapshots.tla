---------------------------- MODULE MCSnapshots ----------------------------
(* What the program measures, shows, draws and writes, beside the processes, *)
(* services and startup entries.  The parts do not share state, so that one  *)
(* component runs in a behaviour, chosen at the start, and the others rest.  *)
EXTENDS Hotkey, Inventory, ProcessSampling, GraphHistory, Exporter, FailureLog, SpecsReport,
        GraphicsRecovery, IconCache, DiskActivity, CpuClock, GpuAdapters, ThemeStudio,
        SensorPages

VARIABLE part

snapshotsVars == <<part, keyVars, inventoryVars, samplingVars, graphVars, exportVars, logVars,
                   reportVars, graphicsVars, iconVars, diskVars, clockVars, deviceVars, studioVars,
                   sensorPageVars>>

Parts == {"hotkey", "inventory", "sampling", "graphs", "export", "failures", "report",
          "graphics", "icons", "disks", "clocks", "adapters", "sensors", "studio",
          "bridge", "drivepages"}

SnapshotsInit ==
  /\ part \in Parts
  /\ KeyInit /\ (part # "hotkey" => choice = Off)
  /\ InventoryInit /\ (part # "inventory" => readAt = "start")
  /\ SamplingInit /\ (part # "sampling" => ~gpuError /\ collected = [pid \in Pids |-> 0])
  /\ IconInit /\ (part # "icons" => loader = "running")
  /\ DiskInit /\ (part # "disks" => diskWorker = "running")
  /\ GraphInit /\ ExportInit /\ LogInit /\ GraphicsInit /\ ClockInit /\ GpuInit
  /\ StudioInit /\ SensorPagesInit
  /\ IF part = "report" THEN ReportInit
     ELSE material = [cell |-> <<>>] /\ document = Unwritten

Only(p, A) == part = p /\ UNCHANGED part
              /\ (p = "hotkey" \/ UNCHANGED keyVars)
              /\ (p = "inventory" \/ UNCHANGED inventoryVars)
              /\ (p = "sampling" \/ UNCHANGED samplingVars)
              /\ (p = "graphs" \/ UNCHANGED graphVars)
              /\ (p = "export" \/ UNCHANGED exportVars)
              /\ (p = "failures" \/ UNCHANGED logVars)
              /\ (p = "report" \/ UNCHANGED reportVars)
              /\ (p = "graphics" \/ UNCHANGED graphicsVars)
              /\ (p = "icons" \/ UNCHANGED iconVars)
              /\ (p = "disks" \/ UNCHANGED diskVars)
              /\ (p = "clocks" \/ UNCHANGED clockVars)
              /\ (p \in {"adapters", "sensors"} \/ UNCHANGED deviceVars)
              /\ (p = "studio" \/ UNCHANGED studioVars)
              /\ (p \in {"bridge", "drivepages"} \/ UNCHANGED sensorPageVars)
              /\ A

SnapshotsNext ==
  \/ Only("hotkey", KeyNext)       \/ Only("inventory", InventoryNext)
  \/ Only("sampling", SamplingNext) \/ Only("graphs", GraphNext)
  \/ Only("export", ExportNext)    \/ Only("failures", LogNext)
  \/ Only("report", ReportNext)    \/ Only("graphics", GraphicsNext)
  \/ Only("icons", IconNext)       \/ Only("disks", DiskNext)
  \/ Only("clocks", Refresh)       \/ Only("adapters", NextAdapters)
  \/ Only("sensors", NextSensors)   \/ Only("studio", StudioNext)
  \/ Only("bridge", BridgeNext)    \/ Only("drivepages", DriveNext)

(* A rate, of a disk or of a processor's clock, is of one whole interval    *)
(* between two readings and is called live only while that is the last one  *)
(* (disk_activity.rs:222-286, cpu_clock.rs:59-183).                         *)
MeasuredOverOneInterval == ActivityIsMeasured /\ ClocksAreOfOneInterval

(* Figures of sensors, the display adapters' in what is published and the  *)
(* processor's and the drives' on the pages, are recent or are marked      *)
(* (gpu_adapters.rs, gpu_sensors.rs, specs/bridge.rs, app/sensors.rs).     *)
ReadingsAreDated == GpuFiguresAreDated /\ SensorsAreAsShown

SnapshotsSpec == SnapshotsInit /\ [][SnapshotsNext]_snapshotsVars
=============================================================================

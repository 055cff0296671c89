---------------------------- MODULE DiskActivity ----------------------------
(***************************************************************************)
(* Physical-disk counters (disk_activity.rs, disk_activity/native.rs): one *)
(* worker collects a PDH query, applies what it read to a snapshot that    *)
(* keeps the last good readings, and leaves a copy in a mailbox of one.    *)
(* The sampler takes it without waiting and the page plots it              *)
(* (app/disks.rs).  Two metrics stand for the five: a rate, which PDH      *)
(* computes between two collections, and the queue, read at an instant.    *)
(* A measured value is the pair of collections it spans.                   *)
(***************************************************************************)
EXTENDS Readings, FiniteSets, FiniteSetsExt, Sequences, SequencesExt

CONSTANTS Disks,          \* instance names with a disk number, in the order of their names
          MaxDisks,       \* MAX_DEVICES
          StaleAfter, RetryAfter, HistoryLength,
          LastDiskTime    \* bound: the clock stops

ASSUME DiskAssumption == /\ IsFiniteSet(Disks) /\ Disks \subseteq Nat
                         /\ {MaxDisks, StaleAfter, RetryAfter, LastDiskTime} \subseteq Nat
                         /\ HistoryLength \in Nat \ {0}

Metrics == {"Rate", "Queue"}

VARIABLES diskClock,
          queryOpen, diskCounters, samples, retryAt,    \* native::Sampler
          collections, raws,    \* external: PDH's count of collections and its last two per counter
          snapshot,             \* the worker's own copy
          mailbox, latestDisks, \* Monitor.pending and Monitor.latest
          diskWorker,           \* "running" or "ended"
          passAt,               \* when the worker last passed
          plotted, plottedGeneration    \* Histories: the moment each plotted rate was measured

diskVars == <<diskClock, queryOpen, diskCounters, samples, retryAt, collections, raws, snapshot,
              mailbox, latestDisks, diskWorker, passAt, plotted, plottedGeneration>>

FirstMoment == StaleAfter + 2    \* the machine has been up for longer than a reading lasts
Gap == 0
NoValue == <<>>
Unread == [value |-> NoValue, at |-> Never]
NewDisk == [metric \in Metrics |-> Unread]
Empty == [at |-> Never, generation |-> 0, disks |-> <<>>, error |-> "None"]
NoMail == [at |-> Never]

DiskInit ==
  /\ diskClock = FirstMoment
  /\ queryOpen = FALSE /\ diskCounters = {} /\ samples = 0 /\ retryAt = Never
  /\ collections = 0 /\ raws = [metric \in Metrics |-> <<0, 0>>]
  /\ snapshot = Empty /\ mailbox = NoMail
  /\ latestDisks = [Empty EXCEPT !.at = FirstMoment]
  /\ diskWorker \in {"running", "ended"}    \* ended: it could not be started
  /\ passAt = Never /\ plotted = <<>> /\ plottedGeneration = Never

-----------------------------------------------------------------------------
(***************************************************************************)
(* native::Sampler::initialize: what the sampler has afterwards.           *)
(***************************************************************************)
Have == [open |-> queryOpen, counters |-> diskCounters, samples |-> samples, retryAt |-> retryAt]

(* A counter that is added late makes the whole query warm up again.       *)
Added(have, new) == [have EXCEPT !.counters = @ \cup new, !.samples = IF new = {} THEN @ ELSE 0]

Initialized ==
  IF (queryOpen /\ diskCounters = Metrics) \/ diskClock < retryAt THEN {Have}
  ELSE LET retrying == [Have EXCEPT !.retryAt = diskClock + RetryAfter]
           opened   == [retrying EXCEPT !.open = TRUE]
       IN  {Added(opened, new) : new \in SUBSET (Metrics \ diskCounters)}
           \cup (IF queryOpen THEN {} ELSE {retrying})

(***************************************************************************)
(* One column of a batch: what one counter array says.  An error, or rows; *)
(* an invalid, negative or repeated row has no value.  A rate needs two    *)
(* collections of its counter, without which PDH has only invalid rows.    *)
(***************************************************************************)
Failed == [ok |-> FALSE, rows |-> <<>>]
ReadRows(rows) == [ok |-> TRUE, rows |-> rows]

Span(metric, raw) == IF metric = "Rate" THEN raw[metric] ELSE <<raw[metric][2], raw[metric][2]>>
Values(metric, raw) == {NoValue} \cup (IF Span(metric, raw)[1] = 0 THEN {} ELSE {Span(metric, raw)})

DiskArrays(metric, raw) ==
  {Failed} \cup {ReadRows(rows) : rows \in UNION {[names -> Values(metric, raw)] : names \in SUBSET Disks}}

Valueless(column) == [column EXCEPT !.rows = [name \in DOMAIN @ |-> NoValue]]

Baseline(have, queue) ==
  [metric \in Metrics |-> IF metric \notin have.counters THEN Failed
                          ELSE IF metric = "Queue" THEN queue ELSE Valueless(queue)]

Batches(have, raw) ==
  IF have.samples < 2
  THEN {Baseline(have, queue) :
          queue \in IF "Queue" \in have.counters THEN DiskArrays("Queue", raw) ELSE {Failed}}
  ELSE {batch \in [Metrics -> DiskArrays("Rate", raw) \cup DiskArrays("Queue", raw)] :
          \A metric \in Metrics :
            batch[metric] \in IF metric \in have.counters THEN DiskArrays(metric, raw) ELSE {Failed}}

NoBatch == [metric \in Metrics |-> Failed]

(* Sampler::sample with a collection that fails, and with one that works.  *)
FailedCollect(have) == [have EXCEPT !.samples = 0]
Counted(have) == [have EXCEPT !.samples = IF @ < 2 THEN @ + 1 ELSE 2]

Collected(have) ==
  [metric \in Metrics |-> IF metric \in have.counters THEN <<raws[metric][2], collections + 1>>
                          ELSE raws[metric]]

(***************************************************************************)
(* Snapshot::apply.  Only a batch without errors removes a disk.           *)
(***************************************************************************)
Named(batch) == UNION {DOMAIN batch[metric].rows : metric \in Metrics}
Complete(batch) == \A metric \in Metrics : batch[metric].ok

Kept(disks, batch) == IF Complete(batch) THEN DOMAIN disks \cap Named(batch) ELSE DOMAIN disks

(* The disks pushed, in the order of their names, while there is room.     *)
Pushed(kept, batch) ==
  LET new == Named(batch) \ kept
  IN  {name \in new : Cardinality(kept) + Cardinality({n \in new : n <= name}) <= MaxDisks}

ReadingAfter(old, column, name, at) ==
  IF name \in DOMAIN column.rows /\ column.rows[name] # NoValue
  THEN [value |-> column.rows[name], at |-> at] ELSE old

Applied(snap, batch, at) ==
  LET kept   == Kept(snap.disks, batch)
      listed == kept \cup Pushed(kept, batch)
      before(name) == IF name \in kept THEN snap.disks[name] ELSE NewDisk
  IN  [at |-> at, generation |-> snap.generation + 1,
       disks |-> [name \in listed |-> [metric \in Metrics |->
                    ReadingAfter(before(name)[metric], batch[metric], name, at)]],
       error |-> IF ~ (Named(batch) \subseteq listed) THEN "DeviceLimit"
                 ELSE IF Complete(batch) THEN "None" ELSE "Counters"]

(* One pass of the worker: read, apply, publish, and park for a second.    *)
Sampled(have, batch) ==
  /\ queryOpen' = have.open /\ diskCounters' = have.counters
  /\ samples' = have.samples /\ retryAt' = have.retryAt
  /\ snapshot' = Applied(snapshot, batch, diskClock)
  /\ mailbox' = snapshot'
  /\ passAt' = diskClock

NoQuery(have) == ~have.open /\ Sampled(have, NoBatch) /\ UNCHANGED <<collections, raws>>

CollectFails(have) ==
  /\ have.open
  /\ collections' = collections + 1
  /\ Sampled(FailedCollect(have), NoBatch)
  /\ UNCHANGED raws

CollectWorks(have) ==
  /\ have.open
  /\ collections' = collections + 1
  /\ raws' = Collected(have)
  /\ \E batch \in Batches(Counted(have), raws') : Sampled(Counted(have), batch)

Pass ==
  /\ diskWorker = "running" /\ passAt < diskClock
  /\ \E have \in Initialized : NoQuery(have) \/ CollectFails(have) \/ CollectWorks(have)
  /\ UNCHANGED <<diskClock, latestDisks, diskWorker, plotted, plottedGeneration>>

PassPanics ==
  /\ diskWorker = "running"
  /\ diskWorker' = "ended"
  /\ UNCHANGED <<diskClock, queryOpen, diskCounters, samples, retryAt, collections, raws, snapshot,
                 mailbox, latestDisks, passAt, plotted, plottedGeneration>>

-----------------------------------------------------------------------------
(* Snapshot::fresh and Reading::live.                                      *)
Fresh(snap, t) == snap.at # Never /\ t <= snap.at + StaleAfter
Live(reading, snap, t) ==
  reading.at # Never /\ reading.at = snap.at /\ Fresh(snap, t) /\ reading.value # NoValue

(* Snapshot::state.                                                        *)
AllReadings(snap) == {<<name, metric>> : name \in DOMAIN snap.disks, metric \in Metrics}
LiveReadings(snap, t) == {r \in AllReadings(snap) : Live(snap.disks[r[1]][r[2]], snap, t)}
AnyCached(snap) == \E r \in AllReadings(snap) : snap.disks[r[1]][r[2]].value # NoValue

SnapshotState(snap, t) ==
  IF snap.at # Never /\ ~Fresh(snap, t)
  THEN IF AnyCached(snap) THEN "Stale" ELSE "Unavailable"
  ELSE IF LiveReadings(snap, t) # {}
       THEN IF LiveReadings(snap, t) = AllReadings(snap) /\ snap.error = "None" THEN "Live" ELSE "Partial"
       ELSE IF AnyCached(snap) THEN "Stale"
            ELSE IF snap.error = "None" /\ snap.generation < 2 THEN "Starting" ELSE "Unavailable"

(***************************************************************************)
(* Monitor::snapshot, which never waits for the lock, and Histories::push  *)
(* for the sample that carries it.  An ended worker expires the snapshot:  *)
(* its time becomes one at which nothing is fresh.                         *)
(***************************************************************************)
(* The readings of an ended worker keep the time of the last pass.         *)
ExpiredInName(snap) == [snap EXCEPT !.error = "WorkerEnded"]

Expired(snap) ==
  [snap EXCEPT !.error = "WorkerEnded", !.at = diskClock - (StaleAfter + 1)]

NoticeEnd(snap) ==
  IF diskWorker = "ended" /\ snap.error # "WorkerEnded" THEN Expired(snap) ELSE snap

Appended(points, point) ==
  IF Len(points) < HistoryLength THEN Append(points, point) ELSE Append(Tail(points), point)

PointOf(snap, name) ==
  LET reading == snap.disks[name]["Rate"]
  IN  IF plottedGeneration # snap.generation /\ Live(reading, snap, diskClock) THEN reading.at ELSE Gap

Plot(snap) ==
  /\ plotted' = [name \in DOMAIN snap.disks |->
                   Appended(IF name \in DOMAIN plotted THEN plotted[name] ELSE <<>>,
                            PointOf(snap, name))]
  /\ plottedGeneration' = snap.generation

TakeDisks ==
  /\ \E taken \in BOOLEAN :
       /\ taken => mailbox # NoMail
       /\ mailbox' = IF taken THEN NoMail ELSE mailbox
       /\ latestDisks' = NoticeEnd(IF taken THEN mailbox ELSE latestDisks)
  /\ Plot(latestDisks')
  /\ UNCHANGED <<diskClock, queryOpen, diskCounters, samples, retryAt, collections, raws, snapshot,
                 diskWorker, passAt>>

Tick ==
  /\ diskClock < LastDiskTime /\ diskClock' = diskClock + 1
  /\ UNCHANGED <<queryOpen, diskCounters, samples, retryAt, collections, raws, snapshot,
                 mailbox, latestDisks, diskWorker, passAt, plotted, plottedGeneration>>

DiskNext == Pass \/ PassPanics \/ TakeDisks \/ Tick

DiskSpec == DiskInit /\ [][DiskNext]_diskVars

-----------------------------------------------------------------------------
(***************************************************************************)
(* Every rate that is kept was computed between two collections in a row,  *)
(* never across a failed one or one its counter had no part in, whatever   *)
(* order opening, adding counters, collecting and failing took             *)
(* (native.rs 30-98).                                                      *)
(***************************************************************************)
RatesSpanOneCollection ==
  \A name \in DOMAIN snapshot.disks :
    LET value == snapshot.disks[name]["Rate"].value
    IN  value # NoValue => value[2] = value[1] + 1

(***************************************************************************)
(* Once the end of the worker is noticed nothing is shown as live or as    *)
(* warming up, whatever the last pass read; and no measurement is plotted  *)
(* twice, however often a snapshot is shown (disk_activity.rs 341-367,     *)
(* app/disks.rs 12-28).                                                    *)
(***************************************************************************)
EndedIsNotLive ==
  latestDisks.error = "WorkerEnded" =>
    SnapshotState(latestDisks, diskClock) \in {"Stale", "Unavailable"}

PlottedOnce ==
  \A name \in DOMAIN plotted : \A i, j \in DOMAIN plotted[name] :
    i < j /\ plotted[name][i] # Gap /\ plotted[name][j] # Gap => plotted[name][i] < plotted[name][j]

(* The activity of a disk, read, shown or plotted, is a measurement of its *)
(* time (disk_activity.rs, disk_activity/native.rs, app/disks.rs).         *)
ActivityIsMeasured == RatesSpanOneCollection /\ EndedIsNotLive /\ PlottedOnce
=============================================================================

----------------------------- MODULE DriveSensors -----------------------------
(***************************************************************************)
(* The drive temperature monitor (storage_sensors/mod.rs, native.rs): one  *)
(* monitor thread enumerates the drives and looks at every slot in passes; *)
(* each slot has a worker thread of its own, whose query may never return. *)
(* A worker that is stuck is asked to cancel, never replaced.              *)
(***************************************************************************)
EXTENDS Naturals, FiniteSets

CONSTANTS Drives,      \* interface identities
          MaxDrives    \* MAX_DRIVES

ASSUME DriveAssumption == IsFiniteSet(Drives) /\ MaxDrives \in Nat

VARIABLES
  slots,            \* by drive: a Slot, or NoSlot
  detached,         \* workers whose slot was dropped while they ran
  todo,             \* the slots this pass has still to look at
  inventoryError,   \* Snapshot::inventory_error is set
  monitorStop              \* Monitor::stop

driveVars == <<slots, detached, todo, inventoryError, monitorStop>>

NoSlot == [worker |-> "none"]

(* `pending' and `next' are told apart by whether their time has come; the *)
(* worker's own stop is `retired'. The values read and the error shown are *)
(* left out: an empty answer counts as a failed one.                       *)
NewSlot ==
  [present |-> TRUE, retired |-> FALSE, worker |-> "idle", command |-> FALSE,
   result |-> "none", cancel |-> FALSE, pending |-> "none", next |-> "due",
   timedOut |-> FALSE]

Watched == {d \in Drives : slots[d] # NoSlot}
Running(s) == s # NoSlot /\ s.worker # "ended"

-----------------------------------------------------------------------------
(* The worker thread of a slot. *)

Changed(d, s) == slots' = [slots EXCEPT ![d] = s]

(* recv_timeout: a command is taken, and left undone after a stop; without *)
(* one the loop condition sees the stop, or the slot's end of the channel. *)
WorkerTakes(d) ==
  LET s == slots[d]
  IN /\ s # NoSlot /\ s.worker = "idle"
     /\ IF s.retired \/ monitorStop
        THEN Changed(d, [s EXCEPT !.worker = "ended"])
        ELSE s.command /\ Changed(d, [s EXCEPT !.worker = "reading", !.command = FALSE])
     /\ UNCHANGED <<detached, todo, inventoryError, monitorStop>>

(* Backend::read. The cancel and stop flags are looked at before and after *)
(* the calls of the driver, which CancelSynchronousIo may end too.         *)
ReadOutcomes(s) ==
  IF s.cancel \/ monitorStop THEN {"cancelled", "failed"} ELSE {"usable", "failed"}

WorkerAnswers(d) ==
  /\ slots[d] # NoSlot /\ slots[d].worker = "reading"
  /\ \E outcome \in ReadOutcomes(slots[d]) :
       Changed(d, [slots[d] EXCEPT !.worker = "idle", !.result = outcome])
  /\ UNCHANGED <<detached, todo, inventoryError, monitorStop>>

WorkerPanics(d) ==
  /\ slots[d] # NoSlot /\ slots[d].worker = "reading"
  /\ Changed(d, [slots[d] EXCEPT !.worker = "ended"])
  /\ UNCHANGED <<detached, todo, inventoryError, monitorStop>>
-----------------------------------------------------------------------------
(* Slot. *)

Retire(s) == [s EXCEPT !.retired = TRUE, !.cancel = TRUE]

(* try_recv: a slow query that succeeds is retried as late as a failed one. *)
Received(s) ==
  IF s.result # "none"
  THEN [s EXCEPT !.result = "none", !.pending = "none", !.timedOut = FALSE,
          !.next = IF s.timedOut \/ s.result # "usable" THEN "retry" ELSE "sample"]
  ELSE IF s.worker = "ended" THEN [s EXCEPT !.pending = "none"]
  ELSE s

TimedOut(s) ==
  IF s.pending = "late" /\ ~s.timedOut
  THEN [s EXCEPT !.timedOut = TRUE, !.cancel = TRUE] ELSE s

(* The flag of the last query is not taken back. *)
AskAgainUncleared(s) ==
  IF s.pending # "none" \/ ~s.present \/ s.next # "due" \/ s.worker = "ended" THEN s
  ELSE [s EXCEPT !.command = TRUE, !.pending = "fresh"]

AskAgain(s) ==
  IF s.pending # "none" \/ ~s.present \/ s.next # "due" \/ s.worker = "ended" THEN s
  ELSE [s EXCEPT !.cancel = FALSE, !.command = TRUE, !.pending = "fresh"]

UpdateSlot(s) ==
  LET r == Received(s)
      lost == s.result = "none" /\ s.worker = "ended"
  IN IF lost \/ s.retired THEN r ELSE AskAgain(TimedOut(r))
-----------------------------------------------------------------------------
(* The monitor. A pass: the inventory when it is due, then every slot.     *)

(* slots.retain: the worker of a retired slot counts until it has ended.   *)
Kept(s) == ~s.retired \/ s.worker # "ended"
Marked(found) ==
  [d \in Drives |->
     IF slots[d] = NoSlot THEN NoSlot
     ELSE LET s == [slots[d] EXCEPT !.present = d \in found]
          IN IF s.present THEN s ELSE Retire(s)]

RetainedSlots(found) ==
  [d \in Drives |-> IF Marked(found)[d] # NoSlot /\ ~Kept(Marked(found)[d]) THEN NoSlot
                    ELSE Marked(found)[d]]

(* `listed' are the first MAX_DRIVES devices found. A drive whose retired  *)
(* slot is still there waits for it; spawning one worker may fail.         *)
TakeInventory(found, listed, failing) ==
  LET kept    == RetainedSlots(found)
      full(S) == Cardinality({d \in Drives : kept[d] # NoSlot}) + Cardinality(S)
      wanted  == {d \in listed : kept[d] = NoSlot} \ failing
  IN \E new \in SUBSET wanted :
       /\ full(new) <= MaxDrives
       /\ new = wanted \/ full(new) = MaxDrives
       /\ slots' = [d \in Drives |-> IF d \in new THEN NewSlot ELSE kept[d]]
       /\ detached' = detached
            + Cardinality({d \in Drives : Running(slots[d]) /\ kept[d] = NoSlot})
       /\ inventoryError' = (Cardinality(found) > MaxDrives \/ new # wanted \/ failing # {})

Enumerate ==
  /\ todo = {} /\ ~monitorStop
  /\ \/ \E found \in SUBSET Drives : \E listed, failing \in SUBSET found :
          /\ IF Cardinality(found) <= MaxDrives THEN listed = found
             ELSE Cardinality(listed) = MaxDrives
          /\ failing \subseteq listed /\ Cardinality(failing) <= 1
          /\ TakeInventory(found, listed, failing)
     \/ inventoryError' = TRUE /\ UNCHANGED <<slots, detached>>
  /\ todo' = {d \in Drives : slots'[d] # NoSlot}
  /\ UNCHANGED monitorStop

NextPass ==
  /\ todo = {} /\ ~monitorStop
  /\ todo' = Watched
  /\ UNCHANGED <<slots, detached, inventoryError, monitorStop>>

(* A blocking recv in place of try_recv. *)
UpdateWaiting(d) ==
  /\ d \in todo
  /\ slots[d].pending = "none" \/ slots[d].result # "none" \/ slots[d].worker = "ended"
  /\ todo' = todo \ {d}
  /\ Changed(d, UpdateSlot(slots[d]))
  /\ UNCHANGED <<detached, inventoryError, monitorStop>>

Update(d) ==
  /\ d \in todo
  /\ todo' = todo \ {d}
  /\ Changed(d, UpdateSlot(slots[d]))
  /\ UNCHANGED <<detached, inventoryError, monitorStop>>

(* Drop for Monitor, and for every Slot when its closure returns: no       *)
(* worker is waited for, the threads that still run are left.              *)
DropMonitor ==
  /\ ~monitorStop /\ monitorStop' = TRUE
  /\ UNCHANGED <<slots, detached, todo, inventoryError>>

DropSlots ==
  /\ monitorStop /\ todo = {} /\ Watched # {}
  /\ detached' = detached + Cardinality({d \in Drives : Running(slots[d])})
  /\ slots' = [d \in Drives |-> NoSlot]
  /\ UNCHANGED <<todo, inventoryError, monitorStop>>
-----------------------------------------------------------------------------
(* Time: a query runs late, a next attempt comes due.                *)

Elapse(d) ==
  LET s == slots[d]
  IN /\ s # NoSlot
     /\ \/ s.pending = "fresh" /\ Changed(d, [s EXCEPT !.pending = "late"])
        \/ s.next # "due" /\ Changed(d, [s EXCEPT !.next = "due"])
     /\ UNCHANGED <<detached, todo, inventoryError, monitorStop>>

DriveInit ==
  /\ slots = [d \in Drives |-> NoSlot]
  /\ detached = 0 /\ todo = {} /\ inventoryError = FALSE /\ monitorStop = FALSE

MonitorPass == NextPass \/ Enumerate \/ \E d \in Drives : Update(d)

DriveNext ==
  \/ MonitorPass \/ DropMonitor \/ DropSlots
  \/ \E d \in Drives : WorkerTakes(d) \/ WorkerAnswers(d) \/ WorkerPanics(d) \/ Elapse(d)
-----------------------------------------------------------------------------
(* The monitor never runs more worker threads than MAX_DRIVES, the ones    *)
(* stuck in a driver for drives long unplugged included: an uncooperative  *)
(* driver cannot make it add a thread at every inventory.                  *)
ThreadsBounded ==
  Cardinality({d \in Drives : Running(slots[d])}) + detached <= MaxDrives

(* A query is answered by cancellation only when it ran into its timeout,  *)
(* its drive was unplugged or the monitor closes: the cancel of one query  *)
(* never reaches the next one of that drive.                               *)
OnlyOverdueCancelled ==
  \A d \in Watched :
    slots[d].result = "cancelled" => slots[d].timedOut \/ slots[d].retired \/ monitorStop

(* A drive that is watched is asked again and again, whatever the driver   *)
(* of another one does: its query is under way, or it is gone, or its      *)
(* worker has ended.                                                       *)
AskedAgain ==
  \A d \in Drives :
    []<>(monitorStop \/ slots[d] = NoSlot \/ (slots[d] # NoSlot
           /\ (slots[d].retired \/ slots[d].pending # "none" \/ slots[d].worker = "ended")))

(* What a monitor has running is bounded, and it gives up only what is     *)
(* late (storage_sensors/mod.rs 300-505).                                  *)
ReadsAreBounded == ThreadsBounded /\ OnlyOverdueCancelled
=============================================================================

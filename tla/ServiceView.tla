---------------------------- MODULE ServiceView ----------------------------
(***************************************************************************)
(* What the Services page shows and which commands it allows               *)
(* (src/src/app/service_controls.rs), composed from                        *)
(*                                                                         *)
(*   - the command Controller and its worker, CommandEvents,               *)
(*   - the retained observations of commands                               *)
(*     (src/src/service_control/observations.rs),                          *)
(*   - the service inventory worker (src/src/inventory.rs) and the sampler *)
(*     that carries refresh requests to it and its reads to the UI         *)
(*     (src/src/sampler.rs).                                               *)
(*                                                                         *)
(* A command stamps `command_at' before it is sent and `observed' when it  *)
(* reads the service; an inventory read is stamped when it starts.  The    *)
(* page decides by comparing these stamps which reading is the newest and  *)
(* whether any reading is newer than the last command.                     *)
(***************************************************************************)
EXTENDS CommandEvents, FiniteSets

CONSTANTS
    Limit,    \* LIMIT: services whose observations are retained
    MaxAge    \* MAX_AGE and the age at which an inventory turns stale

ASSUME ServiceViewAssumption == Limit \in Nat /\ MaxAge \in Nat

VARIABLES
    inventory,    \* the inventory worker: reading or waiting, since when
    published,    \* the health it last published
    wanted,       \* its sync_channel(1) of refresh requests holds one
    refresh,      \* Sampler.service_refresh
    snapshot,     \* the services' health in the UI's accepted snapshot
    records,      \* Observations.records; a service with no stamp has no record
    overflow_at,  \* Observations.overflow_at, 0 for None
    announced,    \* history: the command_at of the last command sent to a service
    outdated      \* history: which readings of a service that command made old

inventoryVars == <<inventory, published, wanted>>
sampleVars    == <<refresh, snapshot>>
pageVars      == <<records, overflow_at>>
historyVars   == <<announced, outdated>>
viewVars == <<inventoryVars, sampleVars, pageVars, historyVars>>
allVars  == <<vars, viewVars>>

\* `success' is Health.last_success (0: never); `live' its state right after.
Inventory == [success : Nat, live : BOOLEAN]
Record    == [command_at : Nat, observed : Nat]
NoRecord  == [command_at |-> 0, observed |-> 0]

\* Where an inventory reading of a service is kept: the worker's last one and the
\* copy of it in the UI's snapshot.
Copies == {"published", "snapshot"}

-----------------------------------------------------------------------------
(* Observations *)

Max2(a, b) == IF a >= b THEN a ELSE b
NewestStamp(r) == Max2(r.command_at, r.observed)
Recorded == { name \in Services : NewestStamp(records[name]) # 0 }

CanTrack(name) ==
    overflow_at = 0 /\ (name \in Recorded \/ Cardinality(Recorded) < Limit)

Merge(record, e) ==
    [command_at |-> Max2(record.command_at, e.command_at),
     observed |-> IF e.observed # 0 /\ e.observed >= record.observed
                  THEN e.observed ELSE record.observed]

\* Observations::record
RecordEvent(e) ==
    CASE NewestStamp(e) = 0 -> UNCHANGED <<records, overflow_at>>
      [] NewestStamp(e) # 0 /\ e.name \notin Recorded
           /\ Cardinality(Recorded) >= Limit ->
             /\ overflow_at' = Max2(overflow_at, NewestStamp(e))
             /\ UNCHANGED records
      [] OTHER -> /\ records' = [records EXCEPT ![e.name] = Merge(@, e)]
                  /\ UNCHANGED overflow_at

\* Mutant: only readings, not commands, protect a record from an inventory.
ReconcileReadings(inventory_at) ==
    /\ records' = [name \in Services |->
                     IF records[name].observed >= inventory_at
                     THEN records[name] ELSE NoRecord]
    /\ overflow_at' = IF inventory_at > overflow_at THEN 0 ELSE overflow_at

\* Observations::reconcile
Reconcile(inventory_at) ==
    IF inventory_at = 0 THEN UNCHANGED <<records, overflow_at>>
    ELSE /\ records' = [name \in Services |->
                          IF NewestStamp(records[name]) >= inventory_at
                          THEN records[name] ELSE NoRecord]
         /\ overflow_at' = IF inventory_at > overflow_at THEN 0 ELSE overflow_at

\* Observations::status is Some: the retained reading is the newest one.
Retained(name) ==
    LET at == records[name].observed IN
    /\ at # 0
    /\ at >= records[name].command_at
    /\ at >= snapshot.success
    /\ now - at <= MaxAge

\* Mutant: an unresolved command is forgotten with age.
UncertainAged(name) ==
    /\ records[name].command_at # 0
    /\ snapshot.success <= records[name].command_at
    /\ records[name].observed < records[name].command_at
    /\ now - records[name].command_at <= MaxAge

\* Observations::uncertain
Uncertain(name) ==
    \/ overflow_at # 0 /\ snapshot.success <= overflow_at
    \/ /\ records[name].command_at # 0
       /\ snapshot.success <= records[name].command_at
       /\ records[name].observed < records[name].command_at

-----------------------------------------------------------------------------
(* The Services page *)

\* Health::state is Live: the last attempt succeeded and is recent.
InventoryLive == snapshot.live /\ now - snapshot.success <= MaxAge

Fresh(name) == ~Uncertain(name) /\ (Retained(name) \/ InventoryLive)

\* The confirmation dialog looks at the row again: it is in the snapshot, still
\* fresh and trackable.  Whether its status allows the action is Allowed in
\* ServiceControl; staging the dialog asks for no more than this.
Confirm(name) ==
    /\ snapshot.success # 0
    /\ Fresh(name) /\ CanTrack(name)
    /\ Submit(name)
    /\ UNCHANGED viewVars

\* poll_service_command: reconcile with the snapshot, poll, record, refresh.
PollBegin ==
    /\ PollTake
    /\ Reconcile(snapshot.success)
    /\ UNCHANGED <<inventoryVars, sampleVars, historyVars>>

PollEnd ==
    /\ PollReturn
    /\ IF Polled = None THEN UNCHANGED <<records, overflow_at, refresh>>
       ELSE /\ RecordEvent(Polled)
            /\ refresh' = (refresh \/ Polled.done)
    /\ UNCHANGED <<inventoryVars, snapshot, historyVars>>

\* The Refresh button, enabled while no command is busy.
Refresh ==
    /\ ~polling /\ ~stop /\ active = None /\ ~refresh
    /\ refresh' = TRUE
    /\ UNCHANGED <<vars, inventoryVars, snapshot, pageVars, historyVars>>

-----------------------------------------------------------------------------
(* The sampler and the inventory worker *)

\* A sampler cycle forwards a requested refresh and copies the inventory it
\* sees, as last published or no longer live while a read is slow (over 5 s),
\* into a snapshot that the UI accepts at the start of a frame.
SampleCycle ==
    /\ ~polling /\ ~stop
    /\ wanted' = (wanted \/ refresh)
    /\ refresh' = FALSE
    /\ snapshot' \in {published} \cup
           (IF inventory.reading THEN {[published EXCEPT !.live = FALSE]} ELSE {})
    /\ outdated' = [name \in Services |->
                      (outdated[name] \ {"snapshot"}) \cup
                      (IF "published" \in outdated[name] THEN {"snapshot"} ELSE {})]
    /\ UNCHANGED <<vars, inventory, published, pageVars, announced>>

\* A request or the 30 s cadence starts a read, stamped before it.
InventoryStart ==
    /\ ~inventory.reading
    /\ inventory' = [reading |-> TRUE, at |-> now]
    /\ wanted' = FALSE
    /\ UNCHANGED <<vars, published, sampleVars, pageVars, historyVars>>

\* The enumeration fails, or has read every service at some moment before now:
\* take that moment to be this step.
InventoryRead ==
    /\ inventory.reading
    /\ inventory' = [reading |-> FALSE, at |-> 0]
    /\ \/ /\ published' = [published EXCEPT !.live = FALSE]
          /\ UNCHANGED outdated
       \/ /\ published' = [success |-> inventory.at, live |-> TRUE]
          /\ outdated' = [name \in Services |-> outdated[name] \ {"published"}]
    /\ UNCHANGED <<vars, wanted, sampleVars, pageVars, announced>>

-----------------------------------------------------------------------------
(* Specification *)

\* The command's worker, and when each of its commands reached Windows.
SendCommand ==
    /\ Send
    /\ announced' = [announced EXCEPT ![event.name] = event.command_at]
    /\ outdated' = [outdated EXCEPT ![event.name] = Copies]
    /\ UNCHANGED <<inventoryVars, sampleVars, pageVars>>

Execute ==
    /\ Receive \/ Observe \/ Announce \/ GiveUp \/ Finish \/ End
    /\ UNCHANGED viewVars

Close == Drop /\ UNCHANGED viewVars

Time == Tick /\ UNCHANGED viewVars

ViewInit ==
    /\ Init
    /\ inventory = [reading |-> FALSE, at |-> 0]
    /\ published = [success |-> 0, live |-> FALSE] /\ snapshot = published
    /\ wanted = FALSE /\ refresh = FALSE
    /\ records = [name \in Services |-> NoRecord] /\ overflow_at = 0
    /\ announced = [name \in Services |-> 0]
    /\ outdated = [name \in Services |-> {}]

Page == \/ \E name \in Services : Confirm(name)
        \/ PollBegin \/ PollEnd \/ Refresh \/ Close

ViewNext == \/ Page \/ SendCommand \/ Execute \/ Time
            \/ SampleCycle \/ InventoryStart \/ InventoryRead

ViewSpec == ViewInit /\ [][ViewNext]_allVars

-----------------------------------------------------------------------------
(* Properties *)

ViewTypeOK ==
    /\ now \in Nat /\ active \in Services \cup {None}
    /\ phase \in {"idle", "queued", "working", "announced", "dead"}
    /\ event \in (IF phase \in {"working", "announced"} THEN Event ELSE {None})
    /\ latest \in Event \cup {None}
    /\ taken \in Event \cup {None}
    /\ polling \in BOOLEAN /\ stop \in BOOLEAN /\ submitted \in Nat
    /\ inventory \in [reading : BOOLEAN, at : Nat]
    /\ published \in Inventory /\ snapshot \in Inventory
    /\ wanted \in BOOLEAN /\ refresh \in BOOLEAN
    /\ records \in [Services -> Record] /\ overflow_at \in Nat
    /\ announced \in [Services -> Nat]
    /\ outdated \in [Services -> SUBSET Copies]

\* The stamp of the reading the page shows for a service.
ShownAt(name) == IF Retained(name) THEN records[name].observed
                 ELSE snapshot.success

\* "A pre-command inventory cannot resolve an unknown outcome": once no command
\* is busy, a row offered as fresh was stamped no earlier than the announcement
\* of the last command sent to that service, however the progress events, the
\* inventory reads and the snapshots interleaved.
FreshAfterAnnouncement ==
    \A name \in Services : active = None /\ Fresh(name) => ShownAt(name) >= announced[name]

\* "A pre-command inventory cannot resolve an unknown outcome", measured from
\* the moment the command reached Windows.
InventoryAfterCommand ==
    \A name \in Services :
        active = None /\ Fresh(name) /\ ~Retained(name) =>
            "snapshot" \notin outdated[name]

\* "The UI reserves capacity before dispatch": the overflow path is not reached.
CapacityReserved == overflow_at = 0 /\ Cardinality(Recorded) <= Limit

\* "Age alone must never erase an unresolved command" and "a delayed event
\* cannot erase a newer barrier": a service stops being uncertain only through
\* a newer inventory or a reading made after the command.
BarrierHolds ==
    [][\A name \in Services :
         LET command_at == records[name].command_at IN
         Uncertain(name) /\ ~Uncertain(name)' =>
            \/ snapshot'.success > command_at
            \/ records'[name].observed >= command_at]_allVars

\* What the page offers as fresh follows the last command, within the capacity that
\* was reserved before it.
PageFollowsCommands == ViewTypeOK /\ FreshAfterAnnouncement /\ CapacityReserved
=============================================================================

---------------------------- MODULE PagesProofs ----------------------------
(***************************************************************************)
(* Proofs about the two pages that change the system through a worker, for *)
(* any services and any startup entries.  ServiceView: what the Services   *)
(* page offers as fresh follows the last command, however events,          *)
(* inventory reads and snapshots interleave; that the command controller   *)
(* leaves no other events than those assumed there is KeepsEventOrder in   *)
(* ServiceControlProofs.  StartupControl and StartupPage: an approval is   *)
(* answered once, and the page shows it.                                   *)
(***************************************************************************)
EXTENDS MCPages, TLAPS, FiniteSetTheorems, WellFoundedInduction

(* Services *)

\* The events under way: the worker's, the mailbox's and the one being read.
UnderWay == {event, latest, taken} \ {None}

-----------------------------------------------------------------------------
(* Types *)

LEMMA ViewInitTyped == ViewInit => ViewTypeOK
<1> SUFFICES ASSUME ViewInit PROVE ViewTypeOK
  OBVIOUS
<1>1. /\ now \in Nat /\ active = None /\ phase = "idle" /\ event = None
      /\ latest = None /\ taken = None
      /\ polling \in BOOLEAN /\ stop \in BOOLEAN /\ submitted \in Nat
  BY DEF ViewInit, Init
<1>2. /\ inventory \in [reading : BOOLEAN, at : Nat]
      /\ published \in Inventory /\ snapshot \in Inventory
      /\ wanted \in BOOLEAN /\ refresh \in BOOLEAN
  BY DEF ViewInit, Inventory
<1>3. /\ records \in [Services -> Record] /\ overflow_at \in Nat
      /\ announced \in [Services -> Nat]
      /\ outdated \in [Services -> SUBSET Copies]
  BY DEF ViewInit, Record, NoRecord
<1> QED BY <1>1, <1>2, <1>3 DEF ViewTypeOK

\* What poll makes of the mailbox is an event of a service.
LEMMA PolledTyped ==
    ASSUME ViewTypeOK, Polled # None
    PROVE  Polled \in Event
<1>1. CASE taken # None
  BY <1>1 DEF ViewTypeOK, Polled
<1>2. CASE taken = None
  BY <1>2 DEF ViewTypeOK, Polled, Disconnected, Event
<1> QED BY <1>1, <1>2

\* Observations::record, when the service was reserved or is recorded already.
LEMMA RecordedEvent ==
    ASSUME ViewTypeOK, IsFiniteSet(Recorded), NEW e \in Event, RecordEvent(e)
    PROVE  /\ records' \in [Services -> Record] /\ overflow_at' \in Nat
           /\ \A name \in Services :
                 /\ records'[name].command_at >= records[name].command_at
                 /\ name # e.name => records'[name] = records[name]
           /\ e.name \in Recorded \/ Cardinality(Recorded) < Limit =>
                 /\ overflow_at' = overflow_at
                 /\ records'[e.name].command_at >= e.command_at
           /\ Recorded' \in {Recorded, Recorded \cup {e.name}}
<1>1. /\ e.name \in Services /\ e.command_at \in Nat /\ e.observed \in Nat
      /\ \A name \in Services : records[name] \in Record
      /\ records \in [Services -> Record] /\ overflow_at \in Nat
  BY DEF ViewTypeOK, Event
<1>2. NewestStamp(e) \in Nat /\ (NewestStamp(e) = 0 => e.command_at = 0)
  BY <1>1 DEF NewestStamp, Max2
<1>3. CASE NewestStamp(e) = 0
  <2>1. UNCHANGED <<records, overflow_at>>
    BY <1>3 DEF RecordEvent
  <2>2. Recorded' = Recorded
    BY <2>1 DEF Recorded
  <2> QED BY <1>1, <1>2, <1>3, <2>1, <2>2 DEF Record
<1>4. CASE /\ NewestStamp(e) # 0 /\ e.name \notin Recorded
           /\ Cardinality(Recorded) >= Limit
  <2>1. /\ overflow_at' = Max2(overflow_at, NewestStamp(e)) /\ UNCHANGED records
    BY <1>4 DEF RecordEvent
  <2>2. overflow_at' \in Nat
    BY <1>1, <1>2, <2>1 DEF Max2
  <2>3. ~(e.name \in Recorded \/ Cardinality(Recorded) < Limit)
    BY <1>4, FS_CardinalityType, ServiceViewAssumption
  <2>4. Recorded' = Recorded
    BY <2>1 DEF Recorded
  <2> QED BY <1>1, <2>1, <2>2, <2>3, <2>4 DEF Record
<1>5. CASE /\ NewestStamp(e) # 0
           /\ e.name \in Recorded \/ ~(Cardinality(Recorded) >= Limit)
  <2>1. /\ records' = [records EXCEPT ![e.name] = Merge(records[e.name], e)]
        /\ UNCHANGED overflow_at
    BY <1>5 DEF RecordEvent
  <2>2. /\ Merge(records[e.name], e) \in Record
        /\ Merge(records[e.name], e).command_at >= records[e.name].command_at
        /\ Merge(records[e.name], e).command_at >= e.command_at
    BY <1>1 DEF Merge, Max2, Record
  <2>3. \A name \in Services \ {e.name} : records'[name] = records[name]
    BY <1>1, <2>1
  <2>4. NewestStamp(records[e.name]) # 0 => NewestStamp(records'[e.name]) # 0
    <3>1. records'[e.name] = Merge(records[e.name], e)
      BY <1>1, <2>1
    <3> QED BY <1>1, <3>1 DEF Merge, Max2, Record, NewestStamp
  <2>5. Recorded' \in {Recorded, Recorded \cup {e.name}}
    <3>1. Recorded' = { name \in Services : NewestStamp(records'[name]) # 0 }
      BY DEF Recorded, NewestStamp
    <3> QED BY <1>1, <2>3, <2>4, <3>1 DEF Recorded
  <2> QED BY <1>1, <2>1, <2>2, <2>5 DEF Record
<1> QED BY <1>3, <1>4, <1>5

\* The half of ViewTypeOK that is about the command, and the rest.
CommandTyped ==
    /\ now \in Nat /\ active \in Services \cup {None}
    /\ phase \in {"idle", "queued", "working", "announced", "dead"}
    /\ event \in (IF phase \in {"working", "announced"} THEN Event ELSE {None})
    /\ latest \in Event \cup {None}
    /\ taken \in Event \cup {None}
    /\ polling \in BOOLEAN /\ stop \in BOOLEAN /\ submitted \in Nat

PageTyped ==
    /\ inventory \in [reading : BOOLEAN, at : Nat]
    /\ published \in Inventory /\ snapshot \in Inventory
    /\ wanted \in BOOLEAN /\ refresh \in BOOLEAN
    /\ records \in [Services -> Record] /\ overflow_at \in Nat
    /\ announced \in [Services -> Nat]
    /\ outdated \in [Services -> SUBSET Copies]

LEMMA TypedInHalves == ViewTypeOK <=> CommandTyped /\ PageTyped
  BY DEF ViewTypeOK, CommandTyped, PageTyped

\* A step of the command keeps its types.
LEMMA CommandStepTyped ==
    ASSUME CommandTyped, phase = "queued" => active # None,
           \/ \E name \in Services : Submit(name)
           \/ PollTake \/ PollReturn \/ Drop \/ Tick
           \/ Receive \/ Observe \/ Announce \/ Send \/ GiveUp \/ Finish \/ End
    PROVE  CommandTyped'
<1>1. CASE \E name \in Services : Submit(name)
  <2>1. PICK name \in Services : Submit(name)
    BY <1>1
  <2> QED BY <2>1 DEF CommandTyped, Submit
<1>2. CASE PollTake
  BY <1>2 DEF CommandTyped, PollTake
<1>3. CASE PollReturn
  BY <1>3 DEF CommandTyped, PollReturn
<1>4. CASE Drop
  BY <1>4 DEF CommandTyped, Drop
<1>5. CASE Tick
  BY <1>5 DEF CommandTyped, Tick, uiVars
<1>6. CASE Receive
  <2>1. phase = "queued" /\ active \in Services
    BY <1>6 DEF CommandTyped, Receive
  <2>2. NewEvent(active) \in Event
    BY <2>1 DEF NewEvent, Event
  <2> QED BY <1>6, <2>2 DEF CommandTyped, Receive, uiVars
<1>7. CASE Observe \/ Announce
  <2>1. /\ event \in Event /\ now \in Nat
    BY <1>7 DEF CommandTyped, Observe, Announce
  <2>2. /\ [event EXCEPT !.observed = now] \in Event
        /\ [event EXCEPT !.command_at = now] \in Event
        /\ [event EXCEPT !.command_at = now, !.observed = now] \in Event
    BY <2>1 DEF Event
  <2>3. event' \in Event /\ latest' \in Event \cup {None}
    BY <1>7, <2>2 DEF CommandTyped, Observe, Announce
  <2> QED BY <1>7, <2>3 DEF CommandTyped, Observe, Announce, uiVars
<1>8. CASE Send \/ GiveUp
  BY <1>8 DEF CommandTyped, Send, GiveUp, uiVars
<1>9. CASE Finish
  <2>1. event \in Event
    BY <1>9 DEF CommandTyped, Finish
  <2>2. [event EXCEPT !.done = TRUE] \in Event
    BY <2>1 DEF Event
  <2> QED BY <1>9, <2>2 DEF CommandTyped, Finish, uiVars
<1>10. CASE End
  BY <1>10 DEF CommandTyped, End, uiVars
<1> QED BY <1>1, <1>2, <1>3, <1>4, <1>5, <1>6, <1>7, <1>8, <1>9, <1>10

-----------------------------------------------------------------------------
(* The inductive invariant *)

\* Stamps are readings of the clock, and a snapshot is no newer than what the
\* inventory worker published, which is no newer than the read it is making.
StampsArePast ==
    /\ 0 < now
    /\ published.success <= now
    /\ inventory.reading => published.success <= inventory.at /\ inventory.at <= now
    /\ snapshot.success <= published.success
    /\ \A e \in UnderWay : e.command_at <= now
    /\ \A name \in Services : announced[name] <= now

\* The service that a command is about has its record, or a place for it.
Reserved(name) == name \in Recorded \/ Cardinality(Recorded) < Limit

RecordsFit ==
    /\ overflow_at = 0
    /\ IsFiniteSet(Recorded) /\ Cardinality(Recorded) <= Limit
    /\ active # None => Reserved(active)
    /\ \A e \in UnderWay : Reserved(e.name)

\* Whose events are under way, and whether one of them is the last.
OneService ==
    /\ (phase \in {"working", "announced"}) = (event # None)
    /\ event # None => active = event.name /\ ~event.done
    /\ active = None => phase \in {"idle", "dead"}
    /\ active # None => \A e \in UnderWay : e.name = active
    /\ active = None /\ phase # "dead" => UnderWay = {}
    /\ phase = "queued" => UnderWay = {}
    /\ \A e, f \in UnderWay : e.name = f.name

OneCompletion ==
    /\ ~polling => taken = None
    /\ taken # None /\ taken.done => phase \in {"idle", "dead"} /\ latest = None
    /\ latest # None /\ latest.done => phase \in {"idle", "dead"}
    /\ phase = "idle" /\ active # None =>
          \E e \in {latest, taken} \ {None} : e.done

\* The last command sent to a service is behind a barrier: its record, a newer
\* inventory, or the events of the command that is still under way.
Behind(name) ==
    LET sent == announced[name] IN
    \/ records[name].command_at >= sent
    \/ snapshot.success >= sent
    \/ /\ active = name /\ phase # "queued"
       /\ event # None => event.command_at >= sent
       /\ \A e \in {latest, taken} \ {None} : e.done => e.command_at >= sent

CommandsAreBehind == \A name \in Services : Behind(name)

ViewInv == /\ ViewTypeOK /\ StampsArePast /\ RecordsFit
           /\ OneService /\ OneCompletion /\ CommandsAreBehind

LEMMA ViewInvAtStart == ViewInit => ViewInv
<1> SUFFICES ASSUME ViewInit PROVE ViewInv
  OBVIOUS
<1>1. ViewTypeOK
  BY ViewInitTyped
<1>2. UnderWay = {} /\ now = 1 /\ active = None /\ phase = "idle" /\ event = None
  BY DEF ViewInit, Init, UnderWay
<1>3. StampsArePast
  BY <1>2 DEF ViewInit, StampsArePast
<1>4. RecordsFit
  <2>1. Recorded = {} /\ overflow_at = 0
    BY DEF ViewInit, Recorded, NoRecord, NewestStamp, Max2
  <2> QED BY <1>2, <2>1, FS_EmptySet, ServiceViewAssumption DEF RecordsFit
<1>5. OneService
  BY <1>2 DEF OneService
<1>6. OneCompletion
  BY <1>2 DEF OneCompletion, ViewInit, Init
<1>7. CommandsAreBehind
  <2>1. \A name \in Services : announced[name] = 0 /\ records[name].command_at = 0
    BY DEF ViewInit, NoRecord
  <2> SUFFICES ASSUME NEW name \in Services
               PROVE  records[name].command_at >= announced[name]
    BY DEF CommandsAreBehind, Behind
  <2>2. announced[name] = 0 /\ records[name].command_at = 0
    BY <2>1
  <2>3. 0 >= 0
    OBVIOUS
  <2> QED BY <2>2, <2>3
<1> QED BY <1>1, <1>3, <1>4, <1>5, <1>6, <1>7 DEF ViewInv

-----------------------------------------------------------------------------
(* Steps of the command *)

LEMMA HeldTyped ==
    ASSUME ViewTypeOK
    PROVE  /\ \A e \in UnderWay : e \in Event
           /\ event # None => event \in Event
           /\ latest # None => latest \in Event
           /\ taken # None => taken \in Event
  BY DEF ViewTypeOK, UnderWay

\* What a step that leaves the page and the inventory alone has to show.
LEMMA CommandStep ==
    ASSUME ViewInv, UNCHANGED viewVars, CommandTyped',
           now' \in Nat, now <= now',
           \A e \in UnderWay' : e.command_at <= now' /\ Reserved(e.name),
           active' # None => Reserved(active'),
           OneService', OneCompletion',
           \A name \in Services :
              Behind(name) /\ announced[name] > snapshot.success
                /\ announced[name] > records[name].command_at => Behind(name)'
    PROVE  ViewInv'
<1>1. UNCHANGED <<inventory, published, wanted, refresh, snapshot, records,
                  overflow_at, announced, outdated>>
  BY DEF viewVars, inventoryVars, sampleVars, pageVars, historyVars
<1>2. ViewTypeOK'
  <2>1. PageTyped
    BY TypedInHalves DEF ViewInv
  <2>2. PageTyped'
    BY <1>1, <2>1 DEF PageTyped
  <2> QED BY <2>2 DEF ViewTypeOK, CommandTyped, PageTyped
<1>3. /\ now \in Nat /\ published.success \in Nat /\ inventory.at \in Nat
      /\ \A name \in Services : announced[name] \in Nat
  BY DEF ViewInv, ViewTypeOK, Inventory
<1>4. StampsArePast'
  BY <1>1, <1>3 DEF ViewInv, StampsArePast
<1>5. Recorded' = Recorded
  BY <1>1 DEF Recorded
<1>6. RecordsFit'
  BY <1>1, <1>5 DEF ViewInv, RecordsFit, Reserved
<1>7. CommandsAreBehind'
  <2> SUFFICES ASSUME NEW name \in Services PROVE Behind(name)'
    BY DEF CommandsAreBehind
  <2>1. Behind(name)
    BY DEF ViewInv, CommandsAreBehind
  <2>2. /\ announced[name] \in Nat /\ snapshot.success \in Nat
        /\ records[name].command_at \in Nat
    BY DEF ViewInv, ViewTypeOK, Inventory, Record
  <2>3. CASE announced[name] > snapshot.success /\ announced[name] > records[name].command_at
    BY <2>1, <2>3
  <2>4. CASE announced[name] <= snapshot.success \/ announced[name] <= records[name].command_at
    BY <1>1, <2>2, <2>4 DEF Behind
  <2> QED BY <2>2, <2>3, <2>4
<1> QED BY <1>2, <1>4, <1>6, <1>7 DEF ViewInv, OneService, OneCompletion

\* The request is accepted: the mailbox is empty and the service reserved.
LEMMA ConfirmStep ==
    ASSUME ViewInv, NEW name \in Services, Confirm(name)
    PROVE  ViewInv'
<1>1. /\ active = None /\ phase = "idle" /\ active' = name /\ phase' = "queued"
      /\ UNCHANGED <<now, event, latest, taken>>
      /\ UNCHANGED viewVars /\ CanTrack(name) /\ Submit(name)
  BY DEF Confirm, Submit
<1>2. UnderWay = {} /\ UnderWay' = {} /\ event = None /\ event' = None
  BY <1>1 DEF ViewInv, OneService, UnderWay
<1>3. CommandTyped'
  BY <1>1, CommandStepTyped, TypedInHalves DEF ViewInv
<1>4. name # None
  BY CommandEventsAssumption
<1>5. Reserved(active')
  BY <1>1 DEF CanTrack, Reserved
<1>6. OneService'
  BY <1>1, <1>2, <1>4 DEF OneService
<1>7. OneCompletion'
  BY <1>1, <1>2 DEF OneCompletion, UnderWay
<1>8. \A other \in Services : Behind(other) => Behind(other)'
  BY <1>1, <1>2, CommandEventsAssumption
     DEF Behind, viewVars, sampleVars, pageVars, historyVars
<1> QED BY <1>1, <1>2, <1>3, <1>5, <1>6, <1>7, <1>8, CommandStep DEF ViewInv, ViewTypeOK

LEMMA DropAndTick ==
    ASSUME ViewInv, Close \/ Time
    PROVE  ViewInv'
<1>1. /\ UNCHANGED <<active, phase, event, latest, polling, taken, viewVars>>
      /\ now' \in Nat /\ now <= now' /\ (Drop \/ Tick)
  BY DEF Close, Time, Drop, Tick, uiVars, ViewInv, ViewTypeOK
<1>2. UnderWay' = UnderWay
  BY <1>1 DEF UnderWay
<1>3. CommandTyped'
  BY <1>1, CommandStepTyped, TypedInHalves DEF ViewInv, OneService
<1>4. \A e \in UnderWay' : e.command_at <= now' /\ Reserved(e.name)
  BY <1>1, <1>2, HeldTyped DEF ViewInv, ViewTypeOK, StampsArePast, RecordsFit, Event
<1>5. OneService' /\ OneCompletion'
  BY <1>1, <1>2 DEF ViewInv, OneService, OneCompletion
<1>6. \A other \in Services : Behind(other) => Behind(other)'
  BY <1>1 DEF Behind, viewVars, sampleVars, pageVars, historyVars
<1>7. active' # None => Reserved(active')
  BY <1>1 DEF ViewInv, RecordsFit
<1> QED BY <1>1, <1>3, <1>4, <1>5, <1>6, <1>7, CommandStep

\* The worker takes the request, or reads the service, or announces the command.
LEMMA ReceiveStep ==
    ASSUME ViewInv, Receive, UNCHANGED viewVars
    PROVE  ViewInv'
<1>1. /\ phase = "queued" /\ phase' = "working" /\ active # None
      /\ active \in Services /\ now \in Nat
      /\ event' = NewEvent(active) /\ latest' = event'
      /\ UNCHANGED <<now, active, polling, taken>>
  BY DEF Receive, uiVars, ViewInv, ViewTypeOK, OneService
<1>2. CommandTyped'
  BY <1>1, CommandStepTyped, TypedInHalves DEF ViewInv
<1>3. /\ event'.name = active /\ ~event'.done /\ event'.command_at = 0
      /\ event' # None
  <2>1. NewEvent(active) \in Event
    BY <1>1 DEF NewEvent, Event
  <2> QED BY <1>1, <2>1, CommandEventsAssumption DEF NewEvent
<1>4. taken = None
  BY <1>1 DEF ViewInv, OneService, UnderWay
<1>5. UnderWay' = {event'}
  BY <1>1, <1>3, <1>4 DEF UnderWay
<1>6. \A e \in UnderWay' : e.command_at <= now' /\ Reserved(e.name)
  BY <1>1, <1>3, <1>5 DEF ViewInv, StampsArePast, RecordsFit
<1>7. OneService' /\ OneCompletion'
  BY <1>1, <1>3, <1>4, <1>5 DEF OneService, OneCompletion
<1>8. \A other \in Services :
        Behind(other) /\ announced[other] > snapshot.success
          /\ announced[other] > records[other].command_at => Behind(other)'
  BY <1>1 DEF Behind, ViewInv, ViewTypeOK, Inventory, Record
<1> QED BY <1>1, <1>2, <1>6, <1>7, <1>8, CommandStep DEF ViewInv, RecordsFit

LEMMA ObserveAndAnnounceSteps ==
    ASSUME ViewInv, Observe \/ Announce, UNCHANGED viewVars
    PROVE  ViewInv'
<1>1. /\ phase = "working" /\ phase' \in {"working", "announced"}
      /\ latest' \in {latest, event'}
      /\ UNCHANGED <<now, active, polling, taken>> /\ now \in Nat
      /\ event \in Event /\ latest \in Event \cup {None}
      /\ taken \in Event \cup {None}
  BY DEF Observe, Announce, uiVars, ViewInv, ViewTypeOK
<1>2. CommandTyped'
  BY CommandStepTyped, TypedInHalves DEF ViewInv, OneService
<1>3. /\ event' \in Event /\ event'.name = event.name /\ event'.done = event.done
      /\ event'.command_at \in {event.command_at, now}
  BY <1>1 DEF Observe, Announce, Event
<1>4. event # None /\ event' # None /\ ~event.done /\ active = event.name
  BY <1>1, <1>3, CommandEventsAssumption DEF ViewInv, OneService
<1>5. \A e \in UnderWay' : e \in UnderWay \/ e = event'
  BY <1>1 DEF UnderWay
<1>6. event.command_at <= now /\ \A name \in Services : announced[name] <= now
  BY <1>4 DEF ViewInv, StampsArePast, UnderWay
<1>7. \A e \in UnderWay' : e.command_at <= now' /\ Reserved(e.name) /\ e.name = active
  <2>1. \A e \in UnderWay : e.command_at <= now /\ Reserved(e.name) /\ e.name = active
    BY <1>4, CommandEventsAssumption
       DEF ViewInv, StampsArePast, RecordsFit, OneService, UnderWay, Event
  <2>2. event \in UnderWay
    BY <1>4 DEF UnderWay
  <2>3. event'.command_at <= now' /\ Reserved(event'.name) /\ event'.name = active
    BY <1>1, <1>3, <2>1, <2>2
  <2> QED BY <1>1, <1>5, <2>1, <2>3
<1>8. OneService'
  BY <1>1, <1>3, <1>4, <1>7 DEF OneService, ViewInv
<1>9. ~(latest' # None /\ latest'.done) /\ ~(taken # None /\ taken.done)
  BY <1>1, <1>3, <1>4 DEF ViewInv, OneCompletion
<1>10. OneCompletion'
  BY <1>1, <1>9 DEF OneCompletion, ViewInv
<1>11. \A other \in Services : Behind(other) => Behind(other)'
  <2> SUFFICES ASSUME NEW other \in Services, Behind(other) PROVE Behind(other)'
    OBVIOUS
  <2>1. UNCHANGED <<records, snapshot, announced>>
    BY DEF viewVars, sampleVars, pageVars, historyVars
  <2>2. event.command_at >= announced[other] => event'.command_at >= announced[other]
    <3>1. announced[other] \in Nat /\ announced[other] <= now
      BY <1>6 DEF ViewInv, ViewTypeOK
    <3> QED BY <1>1, <1>3, <3>1
  <2> QED BY <1>1, <1>4, <1>9, <2>1, <2>2 DEF Behind
<1> QED BY <1>1, <1>2, <1>7, <1>8, <1>10, <1>11, CommandStep DEF ViewInv, RecordsFit

LEMMA GiveUpStep ==
    ASSUME ViewInv, GiveUp, UNCHANGED viewVars
    PROVE  ViewInv'
<1>1. /\ phase = "announced" /\ phase' = "working"
      /\ UNCHANGED <<now, active, event, latest, polling, taken>> /\ now \in Nat
  BY DEF GiveUp, uiVars, ViewInv, ViewTypeOK
<1>2. CommandTyped'
  BY CommandStepTyped, TypedInHalves DEF ViewInv, OneService
<1>3. UnderWay' = UnderWay
  BY <1>1 DEF UnderWay
<1>4. \A e \in UnderWay' : e.command_at <= now' /\ Reserved(e.name)
  BY <1>1, <1>3 DEF ViewInv, StampsArePast, RecordsFit
<1>5. OneService' /\ OneCompletion'
  BY <1>1, <1>3 DEF ViewInv, OneService, OneCompletion
<1>6. \A other \in Services : Behind(other) => Behind(other)'
  BY <1>1 DEF Behind, viewVars, sampleVars, pageVars, historyVars
<1> QED BY <1>1, <1>2, <1>4, <1>5, <1>6, CommandStep DEF ViewInv, RecordsFit

\* The completion carries the worker's stamps.
LEMMA FinishStep ==
    ASSUME ViewInv, Finish, UNCHANGED viewVars
    PROVE  ViewInv'
<1>1. /\ phase = "working" /\ phase' = "idle" /\ event' = None
      /\ latest' = [event EXCEPT !.done = TRUE] /\ event \in Event
      /\ UNCHANGED <<now, active, polling, taken>> /\ now \in Nat
      /\ taken \in Event \cup {None}
  BY DEF Finish, uiVars, ViewInv, ViewTypeOK
<1>2. CommandTyped'
  BY CommandStepTyped, TypedInHalves DEF ViewInv, OneService
<1>3. /\ latest' \in Event /\ latest'.done /\ latest'.name = event.name
      /\ latest'.command_at = event.command_at /\ latest' # None
  BY <1>1, CommandEventsAssumption DEF Event
<1>4. /\ event # None /\ active = event.name /\ event \in UnderWay
      /\ ~(taken # None /\ taken.done)
  BY <1>1, CommandEventsAssumption DEF ViewInv, OneService, OneCompletion, UnderWay
<1>5. \A e \in UnderWay' : e \in UnderWay \/ e = latest'
  BY <1>1 DEF UnderWay
<1>6. \A e \in UnderWay : e.command_at <= now /\ Reserved(e.name) /\ e.name = active
  BY <1>4, CommandEventsAssumption
     DEF ViewInv, StampsArePast, RecordsFit, OneService, UnderWay, Event
<1>7. \A e \in UnderWay' : e.command_at <= now' /\ Reserved(e.name) /\ e.name = active
  BY <1>1, <1>3, <1>4, <1>5, <1>6
<1>8. active # None
  BY <1>1, <1>4, CommandEventsAssumption DEF Event
<1>9. OneService' /\ OneCompletion'
  <2>1. OneService'
    BY <1>1, <1>7, <1>8 DEF OneService
  <2>2. latest' \in {latest', taken'} \ {None}
    BY <1>3
  <2> QED BY <1>1, <1>3, <1>4, <2>1, <2>2 DEF OneCompletion, ViewInv
<1>10. \A other \in Services : Behind(other) => Behind(other)'
  BY <1>1, <1>3, <1>4 DEF Behind, viewVars, sampleVars, pageVars, historyVars
<1> QED BY <1>1, <1>2, <1>7, <1>9, <1>10, CommandStep DEF ViewInv, RecordsFit

\* The worker ends with the process or in a panic: no later event is its own.
LEMMA EndStep ==
    ASSUME ViewInv, End, UNCHANGED viewVars
    PROVE  ViewInv'
<1>1. /\ phase' = "dead" /\ event' = None
      /\ UNCHANGED <<now, active, latest, polling, taken>> /\ now \in Nat
  BY DEF End, uiVars, ViewInv, ViewTypeOK
<1>2. CommandTyped'
  BY CommandStepTyped, TypedInHalves DEF ViewInv, OneService
<1>3. \A e \in UnderWay' : e \in UnderWay
  BY <1>1 DEF UnderWay
<1>4. \A e \in UnderWay' : e.command_at <= now' /\ Reserved(e.name)
  BY <1>1, <1>3 DEF ViewInv, StampsArePast, RecordsFit
<1>5. OneService' /\ OneCompletion'
  BY <1>1, <1>3 DEF ViewInv, OneService, OneCompletion
<1>6. \A other \in Services :
        Behind(other) /\ announced[other] > snapshot.success
          /\ announced[other] > records[other].command_at => Behind(other)'
  <2> SUFFICES ASSUME NEW other \in Services, Behind(other),
                      announced[other] > snapshot.success,
                      announced[other] > records[other].command_at
               PROVE  Behind(other)'
    OBVIOUS
  <2> QED BY <1>1 DEF Behind, viewVars, sampleVars, pageVars, historyVars,
                      ViewInv, ViewTypeOK, Inventory, Record
<1> QED BY <1>1, <1>2, <1>4, <1>5, <1>6, CommandStep DEF ViewInv, RecordsFit

\* The native call: from here on, this command is the last one of its service.
LEMMA SendStep ==
    ASSUME ViewInv, SendCommand
    PROVE  ViewInv'
<1>1. /\ Send /\ phase = "announced" /\ phase' = "working" /\ event \in Event
      /\ UNCHANGED <<now, active, event, latest, taken, polling, stop, submitted>>
      /\ UNCHANGED <<inventory, published, wanted, refresh, snapshot, records, overflow_at>>
      /\ announced' = [announced EXCEPT ![event.name] = event.command_at]
      /\ outdated' = [outdated EXCEPT ![event.name] = Copies]
      /\ now \in Nat
  BY DEF SendCommand, Send, uiVars, inventoryVars, sampleVars, pageVars, ViewInv, ViewTypeOK
<1>2. /\ UnderWay' = UnderWay /\ Recorded' = Recorded /\ event \in UnderWay /\ event # None
      /\ active = event.name /\ event.name \in Services
  BY <1>1, CommandEventsAssumption DEF UnderWay, Recorded, ViewInv, OneService, Event
<1>3. ViewTypeOK'
  <2>1. CommandTyped'
    BY <1>1, CommandStepTyped, TypedInHalves DEF ViewInv, OneService
  <2>2. announced' \in [Services -> Nat] /\ outdated' \in [Services -> SUBSET Copies]
    BY <1>1 DEF ViewInv, ViewTypeOK, Event
  <2>3. PageTyped'
    BY <1>1, <2>2 DEF PageTyped, ViewInv, ViewTypeOK
  <2> QED BY <2>1, <2>3 DEF ViewTypeOK, CommandTyped, PageTyped
<1>4. StampsArePast'
  <2>1. \A name \in Services : announced'[name] <= now'
    BY <1>1, <1>2 DEF ViewInv, ViewTypeOK, StampsArePast
  <2> QED BY <1>1, <1>2, <2>1 DEF ViewInv, StampsArePast
<1>5. RecordsFit'
  BY <1>1, <1>2 DEF ViewInv, RecordsFit, Reserved
<1>6. OneService' /\ OneCompletion'
  BY <1>1, <1>2 DEF ViewInv, OneService, OneCompletion
<1>7. CommandsAreBehind'
  <2> SUFFICES ASSUME NEW other \in Services PROVE Behind(other)'
    BY DEF CommandsAreBehind
  <2>1. Behind(other)
    BY DEF ViewInv, CommandsAreBehind
  <2>2. ~(latest # None /\ latest.done) /\ ~(taken # None /\ taken.done)
    BY <1>1 DEF ViewInv, OneCompletion
  <2>3. CASE other = event.name
    <3>1. announced'[other] = event.command_at /\ event.command_at \in Nat
      BY <1>1, <2>3 DEF ViewInv, ViewTypeOK, Event
    <3> QED BY <1>1, <1>2, <2>2, <2>3, <3>1 DEF Behind
  <2>4. CASE other # event.name
    <3>1. announced'[other] = announced[other]
      BY <1>1, <2>4 DEF ViewInv, ViewTypeOK
    <3> QED BY <1>1, <2>1, <3>1 DEF Behind
  <2> QED BY <2>3, <2>4
<1> QED BY <1>3, <1>4, <1>5, <1>6, <1>7 DEF ViewInv

-----------------------------------------------------------------------------
(* Steps of the inventory and the sampler *)

\* What a step that leaves the command and the records alone has to show.
LEMMA InventoryStep ==
    ASSUME ViewInv, UNCHANGED <<vars, pageVars, announced>>,
           inventory' \in [reading : BOOLEAN, at : Nat],
           published' \in Inventory, snapshot' \in Inventory,
           wanted' \in BOOLEAN, refresh' \in BOOLEAN,
           outdated' \in [Services -> SUBSET Copies],
           published'.success <= now, snapshot.success <= snapshot'.success,
           snapshot'.success <= published'.success,
           inventory'.reading => published'.success <= inventory'.at /\ inventory'.at <= now
    PROVE  ViewInv'
<1>1. /\ UNCHANGED <<now, active, phase, event, latest, polling, taken, stop, submitted>>
      /\ UNCHANGED <<records, overflow_at, announced>>
  BY DEF vars, pageVars
<1>2. UnderWay' = UnderWay /\ Recorded' = Recorded
  BY <1>1 DEF UnderWay, Recorded
<1>3. ViewTypeOK'
  BY <1>1 DEF ViewInv, ViewTypeOK
<1>4. StampsArePast'
  BY <1>1, <1>2 DEF ViewInv, StampsArePast
<1>5. RecordsFit'
  BY <1>1, <1>2 DEF ViewInv, RecordsFit, Reserved
<1>6. OneService' /\ OneCompletion'
  BY <1>1, <1>2 DEF ViewInv, OneService, OneCompletion
<1>7. CommandsAreBehind'
  <2> SUFFICES ASSUME NEW name \in Services PROVE Behind(name)'
    BY DEF CommandsAreBehind
  <2>1. Behind(name)
    BY DEF ViewInv, CommandsAreBehind
  <2>2. /\ announced[name] \in Nat /\ snapshot.success \in Nat /\ snapshot'.success \in Nat
    BY DEF ViewInv, ViewTypeOK, Inventory
  <2>3. snapshot.success >= announced[name] => snapshot'.success >= announced[name]
    BY <2>2
  <2> QED BY <1>1, <2>1, <2>3 DEF Behind
<1> QED BY <1>3, <1>4, <1>5, <1>6, <1>7 DEF ViewInv

LEMMA RefreshStep ==
    ASSUME ViewInv, Refresh
    PROVE  ViewInv'
  BY InventoryStep DEF Refresh, inventoryVars, historyVars, ViewInv, ViewTypeOK,
     StampsArePast, Inventory

LEMMA SampleStep ==
    ASSUME ViewInv, SampleCycle
    PROVE  ViewInv'
<1>1. /\ published \in Inventory /\ snapshot \in Inventory
      /\ snapshot.success <= published.success /\ published.success <= now
      /\ wanted \in BOOLEAN /\ refresh \in BOOLEAN
      /\ outdated \in [Services -> SUBSET Copies]
  BY DEF ViewInv, ViewTypeOK, StampsArePast
<1>2. snapshot' \in Inventory /\ snapshot'.success = published.success
  BY <1>1 DEF SampleCycle, Inventory
<1>3. outdated' \in [Services -> SUBSET Copies]
  BY <1>1 DEF SampleCycle, Copies
<1>4. UNCHANGED <<vars, inventory, published, pageVars, announced>>
  BY DEF SampleCycle
<1>5. wanted' \in BOOLEAN /\ refresh' \in BOOLEAN
  BY <1>1 DEF SampleCycle
<1>6. inventory'.reading => published'.success <= inventory'.at /\ inventory'.at <= now
  BY <1>4 DEF ViewInv, StampsArePast
<1>7. inventory \in [reading : BOOLEAN, at : Nat]
  BY DEF ViewInv, ViewTypeOK
<1>8. /\ UNCHANGED <<vars, pageVars, announced>>
      /\ inventory' = inventory /\ published' = published
  BY <1>4
<1>9. /\ published' \in Inventory /\ published'.success <= now
      /\ snapshot.success <= snapshot'.success
      /\ snapshot'.success <= published'.success
  BY <1>1, <1>2, <1>8 DEF Inventory
<1>10. inventory' \in [reading : BOOLEAN, at : Nat]
  BY <1>7, <1>8
<1> QED BY <1>2, <1>3, <1>5, <1>6, <1>8, <1>9, <1>10, InventoryStep

LEMMA InventorySteps ==
    ASSUME ViewInv, InventoryStart \/ InventoryRead
    PROVE  ViewInv'
<1>1. /\ published \in Inventory /\ snapshot \in Inventory /\ now \in Nat
      /\ snapshot.success <= published.success /\ published.success <= now
      /\ wanted \in BOOLEAN /\ refresh \in BOOLEAN
      /\ outdated \in [Services -> SUBSET Copies]
      /\ inventory \in [reading : BOOLEAN, at : Nat]
      /\ inventory.reading => published.success <= inventory.at /\ inventory.at <= now
  BY DEF ViewInv, ViewTypeOK, StampsArePast
<1>2. CASE InventoryStart
  <2>1. /\ inventory' = [reading |-> TRUE, at |-> now] /\ wanted' = FALSE
        /\ UNCHANGED <<vars, published, sampleVars, pageVars, historyVars>>
    BY <1>2 DEF InventoryStart
  <2>2. UNCHANGED <<refresh, snapshot, announced, outdated>>
    BY <2>1 DEF sampleVars, historyVars
  <2>3. /\ inventory'.at = now /\ inventory' \in [reading : BOOLEAN, at : Nat]
        /\ wanted' \in BOOLEAN /\ published' = published
        /\ UNCHANGED <<vars, pageVars, announced>>
    BY <1>1, <2>1, <2>2
  <2>4. now <= now /\ snapshot.success <= snapshot'.success
    BY <1>1, <2>2 DEF Inventory
  <2> QED BY <1>1, <2>2, <2>3, <2>4, InventoryStep
<1>3. CASE InventoryRead
  <2>1. /\ inventory.reading /\ inventory' = [reading |-> FALSE, at |-> 0]
        /\ UNCHANGED <<vars, wanted, refresh, snapshot, pageVars, announced>>
    BY <1>3 DEF InventoryRead, sampleVars
  <2>2. /\ published' \in Inventory /\ published'.success <= now
        /\ snapshot.success <= published'.success
    <3>1. CASE published' = [published EXCEPT !.live = FALSE]
      BY <1>1, <3>1 DEF Inventory
    <3>2. CASE published' = [success |-> inventory.at, live |-> TRUE]
      BY <1>1, <2>1, <3>2 DEF Inventory
    <3> QED BY <1>3, <3>1, <3>2 DEF InventoryRead
  <2>3. outdated' \in [Services -> SUBSET Copies]
    BY <1>1, <1>3 DEF InventoryRead
  <2> QED BY <1>1, <2>1, <2>2, <2>3, InventoryStep DEF Inventory
<1> QED BY <1>2, <1>3

-----------------------------------------------------------------------------
(* Steps of poll_service_command *)

\* Observations::reconcile drops what the accepted inventory has overtaken.
LEMMA RowsReconciled ==
    ASSUME ViewTypeOK, IsFiniteSet(Recorded), Cardinality(Recorded) <= Limit,
           overflow_at = 0, Reconcile(snapshot.success)
    PROVE  /\ records' \in [Services -> Record] /\ overflow_at' = 0
           /\ IsFiniteSet(Recorded') /\ Cardinality(Recorded') <= Limit
           /\ \A name \in Services : Reserved(name) => Reserved(name)'
           /\ \A name \in Services :
                 records'[name] = records[name] \/ records[name].command_at < snapshot.success
<1>1. /\ snapshot.success \in Nat /\ records \in [Services -> Record]
      /\ \A name \in Services : /\ records[name].command_at \in Nat
                                 /\ records[name].observed \in Nat
  BY DEF ViewTypeOK, Inventory, Record
<1>2. CASE snapshot.success = 0
  <2>1. UNCHANGED <<records, overflow_at>>
    BY <1>2 DEF Reconcile
  <2>2. Recorded' = Recorded
    BY <2>1 DEF Recorded
  <2> QED BY <1>1, <2>1, <2>2 DEF Reserved
<1>3. CASE snapshot.success # 0
  <2>1. /\ records' = [name \in Services |->
                          IF NewestStamp(records[name]) >= snapshot.success
                          THEN records[name] ELSE NoRecord]
        /\ overflow_at' = 0
    BY <1>1, <1>3 DEF Reconcile
  <2>2. records' \in [Services -> Record] /\ NoRecord \in Record
    BY <1>1, <2>1 DEF NoRecord, Record
  <2>3. \A name \in Services :
          records'[name] = records[name] \/ records[name].command_at < snapshot.success
    BY <1>1, <2>1 DEF NewestStamp, Max2
  <2>4. NewestStamp(NoRecord) = 0
    BY DEF NewestStamp, NoRecord, Max2
  <2>5. Recorded' = { name \in Services : NewestStamp(records'[name]) # 0 }
    BY DEF Recorded, NewestStamp
  <2>6. Recorded' \subseteq Recorded
    BY <2>1, <2>4, <2>5 DEF Recorded
  <2>7. /\ IsFiniteSet(Recorded') /\ Cardinality(Recorded') <= Cardinality(Recorded)
        /\ Cardinality(Recorded') = Cardinality(Recorded) => Recorded' = Recorded
    BY <2>6, FS_Subset
  <2>8. Cardinality(Recorded') \in Nat /\ Cardinality(Recorded) \in Nat
    BY <2>7, FS_CardinalityType
  <2>9. Limit \in Nat
    BY ServiceViewAssumption
  <2>10. \A name \in Services : Reserved(name) => Reserved(name)'
    BY <2>7, <2>8, <2>9 DEF Reserved
  <2> QED BY <2>1, <2>2, <2>3, <2>7, <2>8, <2>9, <2>10
<1> QED BY <1>2, <1>3

LEMMA PollBeginStep ==
    ASSUME ViewInv, PollBegin
    PROVE  ViewInv'
<1>1. /\ UNCHANGED <<now, active, phase, event, stop, submitted>>
      /\ UNCHANGED <<inventory, published, wanted, refresh, snapshot, announced, outdated>>
      /\ PollTake /\ Reconcile(snapshot.success)
  BY DEF PollBegin, PollTake, inventoryVars, sampleVars, historyVars
<1>2. \/ taken' = latest /\ latest' = None
      \/ taken' = None /\ latest' = latest /\ phase \in {"working", "announced"}
  BY <1>1 DEF PollTake
<1>3. \A e \in UnderWay' : e \in UnderWay
  BY <1>1, <1>2 DEF UnderWay
<1>4. /\ records' \in [Services -> Record] /\ overflow_at' = 0
      /\ IsFiniteSet(Recorded') /\ Cardinality(Recorded') <= Limit
      /\ \A name \in Services : Reserved(name) => Reserved(name)'
      /\ \A name \in Services :
            records'[name] = records[name] \/ records[name].command_at < snapshot.success
  BY <1>1, RowsReconciled DEF ViewInv, RecordsFit
<1>5. ViewTypeOK'
  <2>1. CommandTyped'
    BY <1>1, CommandStepTyped, TypedInHalves DEF ViewInv, OneService
  <2>2. PageTyped'
    BY <1>1, <1>4 DEF PageTyped, ViewInv, ViewTypeOK
  <2> QED BY <2>1, <2>2 DEF ViewTypeOK, CommandTyped, PageTyped
<1>6. StampsArePast'
  BY <1>1, <1>3 DEF ViewInv, StampsArePast
<1>7. RecordsFit'
  <2>1. active \in Services \cup {None} /\ \A e \in UnderWay : e.name \in Services
    BY HeldTyped DEF ViewInv, ViewTypeOK, Event
  <2> QED BY <1>1, <1>3, <1>4, <2>1 DEF ViewInv, RecordsFit
<1>8. OneService'
  BY <1>1, <1>3 DEF ViewInv, OneService
<1>9. OneCompletion'
  <2>1. CASE taken' = latest /\ latest' = None
    <3>1. taken = None /\ polling'
      BY <1>1 DEF PollTake, ViewInv, OneCompletion
    <3>2. phase = "idle" /\ active # None =>
             \E e \in {latest', taken'} \ {None} : e.done
      BY <2>1, <3>1 DEF ViewInv, OneCompletion
    <3> QED BY <1>1, <2>1, <3>1, <3>2 DEF ViewInv, OneCompletion
  <2>2. CASE taken' = None /\ latest' = latest /\ phase \in {"working", "announced"}
    BY <1>1, <2>2 DEF ViewInv, OneCompletion
  <2> QED BY <1>2, <2>1, <2>2
<1>10. CommandsAreBehind'
  <2> SUFFICES ASSUME NEW name \in Services PROVE Behind(name)'
    BY DEF CommandsAreBehind
  <2>1. Behind(name)
    BY DEF ViewInv, CommandsAreBehind
  <2>2. /\ announced[name] \in Nat /\ snapshot.success \in Nat
        /\ records[name].command_at \in Nat
    BY DEF ViewInv, ViewTypeOK, Inventory, Record
  <2>3. CASE records[name].command_at >= announced[name]
    <3>1. \/ records'[name].command_at >= announced[name]
          \/ snapshot.success >= announced[name]
      BY <1>4, <2>2, <2>3
    <3> QED BY <1>1, <3>1 DEF Behind
  <2>4. CASE snapshot.success >= announced[name]
    BY <1>1, <2>4 DEF Behind
  <2>5. CASE /\ active = name /\ phase # "queued"
             /\ event # None => event.command_at >= announced[name]
             /\ \A e \in {latest, taken} \ {None} : e.done => e.command_at >= announced[name]
    <3>1. \A e \in {latest', taken'} \ {None} : e.done => e.command_at >= announced[name]
      BY <1>2, <2>5
    <3> QED BY <1>1, <2>5, <3>1 DEF Behind
  <2> QED BY <2>1, <2>3, <2>4, <2>5 DEF Behind
<1> QED BY <1>5, <1>6, <1>7, <1>8, <1>9, <1>10 DEF ViewInv

\* What poll returns is about the reserved service, and settles the command.
LEMMA PolledOne ==
    ASSUME ViewInv, Polled # None
    PROVE  /\ Polled \in Event /\ Reserved(Polled.name) /\ Polled.command_at <= now
           /\ \A e \in UnderWay : e.name = Polled.name
           /\ active # None => active = Polled.name
           /\ active = None \/ ~Polled.done => Polled = taken
<1>1. Polled \in Event
  BY PolledTyped DEF ViewInv
<1>2. CASE taken # None
  <2>1. Polled = taken /\ taken \in UnderWay
    BY <1>2 DEF Polled, UnderWay
  <2> QED BY <1>1, <2>1 DEF ViewInv, RecordsFit, OneService, StampsArePast
<1>3. CASE taken = None
  <2>1. /\ Polled = Disconnected(active) /\ active # None
        /\ Polled.name = active /\ Polled.command_at = now /\ Polled.done
    BY <1>3 DEF Polled, Disconnected
  <2>2. now <= now
    BY DEF ViewInv, ViewTypeOK
  <2> QED BY <1>1, <2>1, <2>2 DEF ViewInv, RecordsFit, OneService
<1> QED BY <1>2, <1>3

\* A progress event or the completion is recorded before the controls return.
LEMMA PollEndStep ==
    ASSUME ViewInv, PollEnd
    PROVE  ViewInv'
<1>1. /\ UNCHANGED <<now, phase, event, latest, stop, submitted>>
      /\ UNCHANGED <<inventory, published, wanted, snapshot, announced, outdated>>
      /\ PollReturn /\ taken' = None /\ polling' = FALSE
      /\ active' = IF Polled # None /\ Polled.done THEN None ELSE active
  BY DEF PollEnd, PollReturn, inventoryVars, historyVars
<1>2. \A e \in UnderWay' : e \in UnderWay
  BY <1>1 DEF UnderWay
<1>3. CommandTyped'
  BY <1>1, CommandStepTyped, TypedInHalves DEF ViewInv, OneService
<1>4. StampsArePast'
  BY <1>1, <1>2 DEF ViewInv, StampsArePast
<1>5. CASE Polled = None
  <2>1. UNCHANGED <<records, overflow_at, refresh, active>> /\ taken = None
    BY <1>1, <1>5, PolledTyped, CommandEventsAssumption
       DEF PollEnd, Polled, Disconnected, ViewInv, ViewTypeOK
  <2>2. Recorded' = Recorded /\ UnderWay' = UnderWay
    BY <1>1, <2>1 DEF Recorded, UnderWay
  <2>3. PageTyped'
    BY <1>1, <2>1 DEF PageTyped, ViewInv, ViewTypeOK
  <2>4. RecordsFit' /\ OneService' /\ OneCompletion'
    BY <1>1, <2>1, <2>2 DEF ViewInv, RecordsFit, Reserved, OneService, OneCompletion
  <2>5. CommandsAreBehind'
    BY <1>1, <2>1 DEF ViewInv, CommandsAreBehind, Behind
  <2> QED BY <1>3, <1>4, <2>3, <2>4, <2>5 DEF ViewInv, ViewTypeOK, CommandTyped, PageTyped
<1>6. CASE Polled # None
  <2>1. /\ Polled \in Event /\ Reserved(Polled.name) /\ Polled.name \in Services
        /\ \A e \in UnderWay : e.name = Polled.name
        /\ active # None => active = Polled.name
        /\ active = None \/ ~Polled.done => Polled = taken
    BY <1>6, PolledOne DEF Event
  <2>2. RecordEvent(Polled) /\ refresh' = (refresh \/ Polled.done)
    BY <1>6 DEF PollEnd
  <2>3. /\ records' \in [Services -> Record] /\ overflow_at' = 0
        /\ \A name \in Services : records'[name].command_at >= records[name].command_at
        /\ records'[Polled.name].command_at >= Polled.command_at
        /\ Recorded' \in {Recorded, Recorded \cup {Polled.name}}
    BY <2>1, <2>2, RecordedEvent DEF ViewInv, RecordsFit, Reserved
  <2>4. PageTyped'
    <3>1. refresh' \in BOOLEAN
      BY <2>1, <2>2 DEF ViewInv, ViewTypeOK, Event
    <3> QED BY <1>1, <2>3, <3>1 DEF PageTyped, ViewInv, ViewTypeOK
  <2>5. RecordsFit'
    <3>1. /\ IsFiniteSet(Recorded) /\ Cardinality(Recorded) <= Limit
          /\ Cardinality(Recorded) \in Nat /\ Limit \in Nat
      BY FS_CardinalityType, ServiceViewAssumption DEF ViewInv, RecordsFit
    <3>2. /\ IsFiniteSet(Recorded') /\ Cardinality(Recorded') <= Limit
          /\ Polled.name \in Recorded' \/ Cardinality(Recorded') < Limit
      <4>1. CASE Recorded' = Recorded
        BY <2>1, <3>1, <4>1 DEF Reserved
      <4>2. CASE Recorded' = Recorded \cup {Polled.name} /\ Polled.name \notin Recorded
        <5>1. /\ Cardinality(Recorded) < Limit
              /\ IsFiniteSet(Recorded \cup {Polled.name})
              /\ Cardinality(Recorded \cup {Polled.name}) = Cardinality(Recorded) + 1
          BY <2>1, <3>1, <4>2, FS_AddElement DEF Reserved
        <5>2. Cardinality(Recorded') = Cardinality(Recorded) + 1 /\ Polled.name \in Recorded'
          BY <4>2, <5>1
        <5> QED BY <3>1, <4>2, <5>1, <5>2
      <4> QED BY <2>3, <4>1, <4>2
    <3>3. PICK served : served = Polled.name
      OBVIOUS
    <3>4. served \in Recorded' \/ Cardinality(Recorded') < Limit
      BY <3>2, <3>3
    <3>5. /\ \A e \in UnderWay' : e.name = served
          /\ active' # None => active' = served
      BY <1>1, <1>2, <2>1, <3>3
    <3>6. /\ \A e \in UnderWay' : Reserved(e.name)'
          /\ active' # None => Reserved(active)'
      BY <3>4, <3>5 DEF Reserved
    <3> QED BY <2>3, <3>2, <3>6 DEF RecordsFit
  <2>6. Polled.done /\ phase # "dead" => latest = None /\ phase = "idle" /\ taken = Polled
    <3>1. phase # "dead" => Polled = taken
      BY <1>6 DEF Polled
    <3> QED BY <1>6, <3>1 DEF ViewInv, OneCompletion, OneService
  <2>7. OneService'
    <3>1. phase = "queued" => taken = None /\ latest = None
      BY DEF ViewInv, OneService, UnderWay
    <3>2. CASE Polled.done
      <4>1. active' = None
        BY <1>1, <1>6, <3>2
      <4>2. phase \in {"idle", "dead"} /\ event = None
        BY <2>6, <3>2 DEF ViewInv, OneService
      <4>3. phase # "dead" => UnderWay' = {}
        BY <1>1, <2>6, <3>2, <4>2 DEF UnderWay
      <4> QED BY <1>1, <1>2, <4>1, <4>2, <4>3 DEF ViewInv, OneService
    <3>3. CASE ~Polled.done
      BY <1>1, <1>2, <3>3 DEF ViewInv, OneService
    <3> QED BY <3>2, <3>3
  <2>8. OneCompletion'
    <3>1. CASE Polled.done
      BY <1>1, <1>6, <3>1 DEF ViewInv, OneCompletion
    <3>2. CASE ~Polled.done
      <4>1. Polled = taken /\ active' = active
        BY <1>1, <2>1, <3>2
      <4> QED BY <1>1, <3>2, <4>1 DEF ViewInv, OneCompletion
    <3> QED BY <3>1, <3>2
  <2>9. CommandsAreBehind'
    <3> SUFFICES ASSUME NEW name \in Services PROVE Behind(name)'
      BY DEF CommandsAreBehind
    <3>1. Behind(name)
      BY DEF ViewInv, CommandsAreBehind
    <3>2. /\ announced[name] \in Nat /\ records[name].command_at \in Nat
          /\ records'[name].command_at \in Nat
          /\ Polled.command_at \in Nat
      BY <2>1, <2>3 DEF ViewInv, ViewTypeOK, Record, Event
    <3>3. CASE records[name].command_at >= announced[name]
      <4>1. records'[name].command_at >= announced[name]
        BY <2>3, <3>2, <3>3
      <4> QED BY <1>1, <4>1 DEF Behind
    <3>4. CASE snapshot.success >= announced[name]
      BY <1>1, <3>4 DEF Behind
    <3>5. CASE /\ active = name /\ phase # "queued"
               /\ event # None => event.command_at >= announced[name]
               /\ \A e \in {latest, taken} \ {None} : e.done => e.command_at >= announced[name]
      <4>1. CASE Polled.done
        <5>1. active # None /\ Polled.name = name
          BY <2>1, <3>5, CommandEventsAssumption
        <5>2. Polled.command_at >= announced[name]
          <6>1. CASE Polled = taken
            BY <1>6, <3>5, <4>1, <6>1
          <6>2. CASE Polled # taken
            <7>1. Polled.command_at = now
              BY <6>2 DEF Polled, Disconnected
            <7> QED BY <3>2, <7>1 DEF ViewInv, StampsArePast
          <6> QED BY <6>1, <6>2
        <5>3. records'[name].command_at >= announced[name]
          BY <2>3, <3>2, <5>1, <5>2
        <5> QED BY <1>1, <5>3 DEF Behind
      <4>2. CASE ~Polled.done
        BY <1>1, <3>5, <4>2 DEF Behind
      <4> QED BY <4>1, <4>2
    <3> QED BY <3>1, <3>3, <3>4, <3>5 DEF Behind
  <2> QED BY <1>3, <1>4, <2>4, <2>5, <2>7, <2>8, <2>9
          DEF ViewInv, ViewTypeOK, CommandTyped, PageTyped
<1> QED BY <1>5, <1>6

-----------------------------------------------------------------------------
(* Theorems *)

LEMMA ViewInvStep == ViewInv /\ [ViewNext]_allVars => ViewInv'
<1> SUFFICES ASSUME ViewInv, [ViewNext]_allVars PROVE ViewInv'
  OBVIOUS
<1>1. CASE \E name \in Services : Confirm(name)
  BY <1>1, ConfirmStep
<1>2. CASE PollBegin
  BY <1>2, PollBeginStep
<1>3. CASE PollEnd
  BY <1>3, PollEndStep
<1>4. CASE Refresh
  BY <1>4, RefreshStep
<1>5. CASE Close \/ Time
  BY <1>5, DropAndTick
<1>6. CASE SendCommand
  BY <1>6, SendStep
<1>7. CASE Execute
  BY <1>7, ReceiveStep, ObserveAndAnnounceSteps, GiveUpStep, FinishStep, EndStep DEF Execute
<1>8. CASE SampleCycle
  BY <1>8, SampleStep
<1>9. CASE InventoryStart \/ InventoryRead
  BY <1>9, InventorySteps
<1>10. CASE UNCHANGED allVars
  <2>1. /\ UNCHANGED <<now, active, phase, event, latest, polling, taken, stop, submitted>>
        /\ UNCHANGED <<inventory, published, wanted, refresh, snapshot, records,
                       overflow_at, announced, outdated>>
    BY <1>10 DEF allVars, vars, viewVars, inventoryVars, sampleVars, pageVars, historyVars
  <2>2. UnderWay' = UnderWay /\ Recorded' = Recorded
    BY <2>1 DEF UnderWay, Recorded
  <2>3. ViewTypeOK' /\ StampsArePast'
    BY <2>1, <2>2 DEF ViewInv, ViewTypeOK, StampsArePast
  <2>4. RecordsFit' /\ OneService' /\ OneCompletion'
    BY <2>1, <2>2 DEF ViewInv, RecordsFit, Reserved, OneService, OneCompletion
  <2>5. CommandsAreBehind'
    BY <2>1 DEF ViewInv, CommandsAreBehind, Behind
  <2> QED BY <2>3, <2>4, <2>5 DEF ViewInv
<1> QED BY <1>1, <1>2, <1>3, <1>4, <1>5, <1>6, <1>7, <1>8, <1>9, <1>10 DEF ViewNext, Page

LEMMA ViewInvariant == ViewSpec => []ViewInv
  BY ViewInvAtStart, ViewInvStep, PTL DEF ViewSpec

\* "A pre-command inventory cannot resolve an unknown outcome" and "the UI
\* reserves capacity before dispatch" (service_control/observations.rs): once no
\* command is busy, a row offered as fresh was read no earlier than the last
\* command sent to its service was announced, and no record is ever lost for
\* want of room.
THEOREM FollowsTheCommands == ViewSpec => []PageFollowsCommands
<1>1. ViewInv => PageFollowsCommands
  <2> SUFFICES ASSUME ViewInv PROVE PageFollowsCommands
    OBVIOUS
  <2>1. FreshAfterAnnouncement
    <3> SUFFICES ASSUME NEW name \in Services, active = None, Fresh(name)
                 PROVE  ShownAt(name) >= announced[name]
      BY DEF FreshAfterAnnouncement
    <3> DEFINE sent == announced[name]
               seen == records[name].observed
               command == records[name].command_at
               listed == snapshot.success
    <3>1. /\ sent \in Nat /\ seen \in Nat /\ command \in Nat /\ listed \in Nat
          /\ now \in Nat /\ MaxAge \in Nat
      BY ServiceViewAssumption DEF ViewInv, ViewTypeOK, Inventory, Record
    <3>2. command >= sent \/ listed >= sent
      BY CommandEventsAssumption DEF ViewInv, CommandsAreBehind, Behind
    <3>3. command # 0 => listed > command \/ seen >= command
      BY <3>1 DEF Fresh, Uncertain
    <3>4. CASE Retained(name)
      <4>1. seen >= command /\ seen >= listed
        BY <3>4 DEF Retained
      <4>2. ShownAt(name) = seen
        BY <3>4 DEF ShownAt
      <4> QED BY <3>1, <3>2, <4>1, <4>2
    <3>5. CASE ~Retained(name)
      <4>1. ShownAt(name) = listed
        BY <3>5 DEF ShownAt
      <4>2. now - listed <= MaxAge
        BY <3>5 DEF Fresh, InventoryLive
      <4>3. seen = 0 \/ seen < command \/ seen < listed \/ now - seen > MaxAge
        BY <3>1, <3>5 DEF Retained
      <4>4. command = 0 \/ listed > command
        BY <3>1, <3>3, <4>2, <4>3
      <4> QED BY <3>1, <3>2, <4>1, <4>4
    <3> QED BY <3>4, <3>5
  <2>2. CapacityReserved
    BY DEF ViewInv, RecordsFit, CapacityReserved
  <2> QED BY <2>1, <2>2 DEF ViewInv, PageFollowsCommands
<1> QED BY <1>1, ViewInvariant, PTL

\* "Age alone must never erase an unresolved command" and "a delayed event cannot
\* erase a newer barrier": only a newer inventory, or a reading made after the
\* command, ends the uncertainty about a service.
THEOREM UncertaintyIsResolved == ViewSpec => BarrierHolds
<1>1. ViewInv /\ ViewInv' /\ [ViewNext]_allVars =>
        [\A name \in Services :
           LET command_at == records[name].command_at IN
           Uncertain(name) /\ ~Uncertain(name)' =>
              \/ snapshot'.success > command_at
              \/ records'[name].observed >= command_at]_allVars
  <2> SUFFICES ASSUME ViewInv, ViewInv', [ViewNext]_allVars,
                      NEW name \in Services, Uncertain(name), ~Uncertain(name)'
               PROVE  \/ snapshot'.success > records[name].command_at
                      \/ records'[name].observed >= records[name].command_at
    OBVIOUS
  <2> DEFINE before == records[name]
             after  == records'[name]
  <2>1. /\ before \in Record /\ after \in Record
        /\ snapshot.success \in Nat /\ snapshot'.success \in Nat
        /\ overflow_at = 0 /\ overflow_at' = 0
    BY DEF ViewInv, ViewTypeOK, RecordsFit, Inventory
  <2>2. /\ before.command_at # 0 /\ snapshot.success <= before.command_at
    BY <2>1 DEF Uncertain
  <2>3. \/ after.command_at = 0 \/ snapshot'.success > after.command_at
        \/ after.observed >= after.command_at
    BY <2>1 DEF Uncertain, Record
  <2>4. after.command_at >= before.command_at
    <3>1. CASE PollBegin
      <4>1. after = before \/ before.command_at < snapshot.success
        BY <3>1, RowsReconciled DEF PollBegin, ViewInv, RecordsFit
      <4> QED BY <2>1, <2>2, <4>1 DEF Record
    <3>2. CASE PollEnd
      <4>1. CASE Polled = None
        BY <2>1, <3>2, <4>1 DEF PollEnd, Record
      <4>2. CASE Polled # None
        <5>1. Polled \in Event /\ RecordEvent(Polled)
          BY <3>2, <4>2, PolledTyped DEF PollEnd, ViewInv
        <5> QED BY <5>1, RecordedEvent DEF ViewInv, RecordsFit
      <4> QED BY <4>1, <4>2
    <3>3. CASE ~PollBegin /\ ~PollEnd
      <4>1. records' = records
        BY <3>3 DEF ViewNext, Page, Confirm, Refresh, Close, SendCommand, Execute, Time,
           SampleCycle, InventoryStart, InventoryRead, allVars, viewVars, pageVars
      <4> QED BY <2>1, <4>1 DEF Record
    <3> QED BY <3>1, <3>2, <3>3
  <2> QED BY <2>1, <2>2, <2>3, <2>4 DEF Record
<1> QED BY <1>1, ViewInvariant, PTL DEF ViewSpec, BarrierHolds

-----------------------------------------------------------------------------
(* Startup entries: the approval controller and the page *)

\* What is on its way to the worker has been validated.
Validated ==
    /\ queue # Nothing => Valid(queue)
    /\ worker.job # Nothing => Valid(worker.job)

TypedValid == TypeOK /\ Validated

LEMMA InitTyped == ControlInit => TypedValid
<1> SUFFICES ASSUME ControlInit PROVE TypedValid
    OBVIOUS
<1>1. worker \in Worker /\ worker.job = Nothing /\ worker.at = "idle"
      BY DEF ControlInit, Idle, Worker, Places, Results
<1>2. guard \in Guard
      BY DEF ControlInit, NoGuard, Guard
<1>3. registration \in [Keys -> Registrations \cup {Nothing}]
      BY DEF ControlInit
<1>. QED
      BY <1>1, <1>2, <1>3 DEF ControlInit, TypedValid, TypeOK, Validated

\* The approval that a valid request writes is one.
LEMMA AfterIsApproval ==
  ASSUME NEW request \in Request, Valid(request)
  PROVE  After(request) \in Approvals
  BY DEF Request, Valid, After, Approvals

\* A step of the transaction goes on to another place, fails, or is the last one.
LEMMA WorkerMoves ==
  ASSUME Apply
  PROVE  \/ \E place \in Places \ {"idle", "ending", "dead"} : Goto(place)
         \/ \E result \in Results : Fail(result)
         \/ worker' = [worker EXCEPT !.at = "publish", !.result = "ok", !.observed_at = clock]
  BY DEF Apply, Verify, Stage, Recheck, ReadApproval, WriteApproval, ReadBack, Commit, ConfirmApproval,
     Places, Results

LEMMA GuardMoves ==
  ASSUME Apply, guard \in Guard
  PROVE  guard' \in Guard
<1>1. NoGuard \in Guard
      BY DEF NoGuard, Guard
<1>2. /\ [guard EXCEPT !.registration = TRUE] \in Guard
      /\ [guard EXCEPT !.approval = TRUE] \in Guard
      BY DEF Guard
<1>. QED
      BY <1>1, <1>2 DEF Apply, Verify, Stage, Recheck, ReadApproval, WriteApproval, ReadBack,
         Commit, ConfirmApproval, Fail

LEMMA StepTyped == TypedValid /\ [ControlNext]_controlVars => TypedValid'
<1> SUFFICES ASSUME TypedValid, [ControlNext]_controlVars PROVE TypedValid'
    OBVIOUS
<1> USE DEF TypedValid, controller, windows
<1> USE StartupControlAssumption
<1>1. ASSUME NEW request \in Request, SubmitChange(request) PROVE TypedValid'
      BY <1>1 DEF SubmitChange, TypeOK, Validated
<1>2. CASE Poll
      BY <1>2 DEF Poll, TakeAnswer, PollEmpty, PollFinished, TypeOK, Validated
<1>3. CASE DropController
      BY <1>3 DEF DropController, TypeOK, Validated
<1>4. CASE ReceiveChange
      <2>1. queue \in Request /\ queue # Nothing /\ Valid(queue)
            BY <1>4 DEF ReceiveChange, TypeOK, Validated
      <2>2. CASE dropped
            <3>1. worker' = [at |-> "dead", job |-> Nothing, result |-> "unchanged", observed_at |-> 0]
                  BY <1>4, <2>2 DEF ReceiveChange, Idle
            <3>2. worker' \in Worker /\ worker'.job = Nothing /\ worker'.at = "dead"
                  BY <3>1 DEF Worker, Places, Results
            <3>. QED
                  BY <1>4, <3>2 DEF ReceiveChange, TypeOK, Validated
      <2>3. CASE ~dropped
            <3>1. worker' = [at |-> "verify", job |-> queue, result |-> "unchanged", observed_at |-> 0]
                  BY <1>4, <2>3 DEF ReceiveChange, Idle
            <3>2. worker' \in Worker /\ worker'.job = queue /\ worker'.at = "verify"
                  BY <2>1, <3>1 DEF Worker, Places, Results
            <3>. QED
                  BY <1>4, <2>1, <3>2 DEF ReceiveChange, TypeOK, Validated
      <2>. QED
            BY <2>2, <2>3
<1>5. CASE Disconnect
      BY <1>5 DEF Disconnect, At, Goto, TypeOK, Validated, Worker, Places
<1>6. CASE Apply
      <2>0. /\ worker \in Worker /\ guard \in Guard
            /\ worker.at \in {"verify", "stage", "recheck", "read", "write", "readback",
                             "commit", "confirm"}
            BY <1>6 DEF TypeOK, Apply, Verify, Stage, Recheck, ReadApproval, WriteApproval,
               ReadBack, Commit, ConfirmApproval, At
      <2>1. worker.job # Nothing /\ worker.job \in Request /\ Valid(worker.job)
            BY <2>0 DEF TypeOK, Validated, Worker
      <2>2. After(worker.job) \in Approvals
            BY <2>1, AfterIsApproval
      <2>3. Written \in [Keys -> Approvals]
            BY <2>1, <2>2 DEF Written, TypeOK, Request
      <2>4. approval' \in [Keys -> Approvals]
            BY <1>6, <2>3 DEF Apply, Commit, TypeOK
      <2>5. /\ worker'.job = worker.job /\ worker' \in Worker
            /\ worker'.at \notin {"idle", "ending", "dead"}
        <3>1. ASSUME NEW place \in Places \ {"idle", "ending", "dead"}, Goto(place)
              PROVE  <2>5
              BY <2>0, <3>1 DEF Goto, Worker
        <3>2. ASSUME NEW result \in Results, Fail(result)
              PROVE  <2>5
              BY <2>0, <3>2 DEF Fail, Worker, Places
        <3>3. CASE worker' = [worker EXCEPT !.at = "publish", !.result = "ok", !.observed_at = clock]
              BY <2>0, <3>3 DEF Worker, Places, Results, TypeOK
        <3>. QED
              BY <1>6, <2>0, <3>1, <3>2, <3>3, WorkerMoves
      <2>6. guard' \in Guard
            BY <1>6, <2>0, GuardMoves
      <2>. QED
            BY <1>6, <2>1, <2>4, <2>5, <2>6 DEF Apply, TypeOK, Validated
<1>7. CASE Panic
      <2>1. /\ worker' \in Worker /\ worker'.job = worker.job /\ worker'.at = "crashed"
            /\ worker.job # Nothing
            BY <1>7 DEF Panic, TypeOK, Worker, Places, Results
      <2>2. guard' \in Guard
            BY <1>7 DEF Panic, NoGuard, Guard
      <2>. QED
            BY <1>7, <2>1, <2>2 DEF Panic, TypeOK, Validated
<1>8. CASE Publish
      <2>1. /\ worker.job \in Request /\ worker.result \in Results /\ worker.observed_at \in Nat
            /\ worker.at \in {"publish", "crashed"}
            BY <1>8 DEF Publish, At, TypeOK, Worker
      <2>2. answer' \in Outcome
            BY <1>8, <2>1 DEF Publish, Outcome
      <2>3. /\ worker' \in Worker /\ worker'.job = Nothing /\ worker'.at \in {"idle", "ending"}
            BY <1>8 DEF Publish, At, Idle, Worker, Places, Results
      <2>. QED
            BY <1>8, <2>2, <2>3 DEF Publish, TypeOK, Validated
<1>9. CASE EndWorker
      BY <1>9 DEF EndWorker, At, Goto, TypeOK, Validated, Worker, Places
<1>10. ASSUME NEW key \in Keys, Edit(key) PROVE TypedValid'
      <2>1. /\ registration' \in [Keys -> Registrations \cup {Nothing}]
            /\ approval' \in [Keys -> Approvals]
            BY <1>10 DEF Edit, TypeOK
      <2>2. guard' \in Guard
            BY <1>10 DEF Edit, TypeOK, Guard
      <2>. QED
            BY <1>10, <2>1, <2>2 DEF Edit, TypeOK, Validated
<1>11. CASE ClockTicks
      BY <1>11 DEF ClockTicks, TypeOK, Validated
<1>12. CASE UNCHANGED controlVars
      BY <1>12 DEF controlVars, TypeOK, Validated
<1>. QED
      BY <1>1, <1>2, <1>3, <1>4, <1>5, <1>6, <1>7, <1>8, <1>9, <1>10, <1>11, <1>12
      DEF ControlNext, Work

\* Every reachable state of the startup controller is well typed, and what its
\* worker applies has been validated.
THEOREM TypeCorrect == ControlSpec => []TypedValid
  BY InitTyped, StepTyped, PTL DEF ControlSpec

-----------------------------------------------------------------------------
(* What the transaction holds *)

\* From its guard on, an edit of the registration dooms the transaction, and from
\* the write on one of the approval does.  So what Recheck and ReadBack have seen is
\* still so when the transaction commits.
Held ==
    /\ worker.at \in {"recheck", "read", "write", "readback", "commit"} => guard.registration
    /\ worker.at \in {"readback", "commit"} => guard.approval
    /\ worker.at \in {"read", "write", "readback", "commit"} /\ ~guard.doomed => AsRegistered
    /\ At("commit") /\ ~guard.doomed => AsApproved

LEMMA InitHeld == ControlInit => Held
  BY DEF ControlInit, Held, Idle, At

LEMMA StepHeld == TypedValid /\ Held /\ [ControlNext]_controlVars => Held'
<1> SUFFICES ASSUME TypedValid, Held, [ControlNext]_controlVars PROVE Held'
    OBVIOUS
<1> USE DEF controller, windows
<1>0. /\ worker \in Worker /\ guard \in Guard
      /\ worker.at \notin {"idle", "ending", "dead"} => worker.job \in Request
      <2>1. worker \in Worker /\ guard \in Guard
            BY DEF TypedValid, TypeOK
      <2>2. worker.job \in Request \cup {Nothing}
            BY <2>1 DEF Worker
      <2>. QED
            BY <2>1, <2>2 DEF TypedValid, TypeOK
<1>1. CASE UNCHANGED <<registration, approval, worker, guard>>
      BY <1>1 DEF Held, At, AsRegistered, AsApproved
<1>2. CASE ReceiveChange \/ Disconnect \/ Panic \/ Publish \/ EndWorker
      <2>1. worker'.at \in {"verify", "idle", "dead", "ending", "crashed"}
            BY <1>0, <1>2 DEF ReceiveChange, Disconnect, Panic, Publish, EndWorker, Goto, Idle, Worker
      <2>. QED
            BY <2>1 DEF Held, At
<1>3. CASE Apply
      <2> USE DEF At, Goto, Fail, AsRegistered, AsApproved
      <2>1. ASSUME worker'.at = "publish" PROVE Held'
            BY <2>1 DEF Held
      <2>2. CASE Verify /\ UNCHANGED <<approval, registration>>
            BY <1>0, <2>1, <2>2 DEF Verify, Held, Worker, Guard
      <2>3. CASE Stage /\ UNCHANGED <<approval, registration>>
            BY <1>0, <2>1, <2>3 DEF Stage, Held, Worker, Guard
      <2>4. CASE Recheck /\ UNCHANGED <<approval, registration>>
            BY <1>0, <2>1, <2>4 DEF Recheck, Held, Worker, Guard
      <2>5. CASE ReadApproval /\ UNCHANGED <<approval, registration>>
            BY <1>0, <2>1, <2>5 DEF ReadApproval, Held, Worker, Guard
      <2>6. CASE WriteApproval /\ UNCHANGED <<approval, registration>>
            BY <1>0, <2>1, <2>6 DEF WriteApproval, Held, Worker, Guard
      <2>7. CASE ReadBack /\ UNCHANGED <<approval, registration>>
            BY <1>0, <2>1, <2>7 DEF ReadBack, Held, Worker, Guard
      <2>8. CASE ConfirmApproval \/ Commit
            <3>1. worker'.at \in {"publish", "confirm"}
                  BY <1>0, <2>8 DEF ConfirmApproval, Commit, Worker
            <3>. QED BY <3>1 DEF Held
      <2>. QED
            BY <1>3, <2>2, <2>3, <2>4, <2>5, <2>6, <2>7, <2>8 DEF Apply
<1>4. ASSUME NEW key \in Keys, Edit(key) PROVE Held'
      <2>1. worker' = worker
            BY <1>4 DEF Edit
      <2>2. CASE worker.at \in {"idle", "ending", "dead"}
            BY <2>1, <2>2 DEF Held, At
      <2>3. CASE worker.job \in Request /\ worker.job # Nothing
            <3>1. worker.job.key \in Keys
                  BY <2>3 DEF Request
            <3>2. /\ guard'.registration = guard.registration /\ guard'.approval = guard.approval
                  /\ guard.doomed => guard'.doomed
                  BY <1>0, <1>4 DEF Edit, Guard
            <3>3. guard.registration /\ ~guard'.doomed
                    => registration'[worker.job.key] = registration[worker.job.key]
                  BY <1>0, <1>4, <2>3, <3>1 DEF Edit, Guard, Guarded, TypedValid, TypeOK
            <3>4. guard.approval /\ ~guard'.doomed
                    => approval'[worker.job.key] = approval[worker.job.key]
                  BY <1>0, <1>4, <2>3, <3>1 DEF Edit, Guard, Guarded, TypedValid, TypeOK
            <3>. QED
                  BY <2>1, <3>2, <3>3, <3>4 DEF Held, At, AsRegistered, AsApproved
      <2>. QED
            BY <1>0, <2>2, <2>3 DEF TypedValid, TypeOK
<1>. QED
      BY <1>1, <1>2, <1>3, <1>4
      DEF ControlNext, Work, SubmitChange, Poll, TakeAnswer, PollEmpty, PollFinished, DropController, ClockTicks, controlVars

THEOREM HeldInvariant == ControlSpec => []Held
  BY TypeCorrect, InitHeld, StepHeld, PTL DEF ControlSpec

LEMMA CommitStep ==
  ASSUME TypedValid, Held, ControlNext, At("commit"), approval' # approval, UNCHANGED edits
  PROVE  LET key == worker.job.key IN
         /\ approval[key] = worker.job.target.approval
         /\ registration[key] = worker.job.target.registration
         /\ registration' = registration
         /\ approval' = [approval EXCEPT ![key] = After(worker.job)]
<1> USE DEF windows, controller
<1>1. \A key \in Keys : ~Edit(key)
      BY DEF Edit, TypedValid, TypeOK
<1>2. Apply
      BY <1>1 DEF ControlNext, Work, SubmitChange, Poll, TakeAnswer, PollEmpty, PollFinished,
          DropController, ClockTicks,
         ReceiveChange, Disconnect, Panic, Publish, EndWorker
<1>3. Commit /\ registration' = registration
      BY <1>2 DEF Apply
<1>4. ~guard.doomed /\ approval' = Written
      BY <1>3 DEF Commit
<1>5. AsApproved /\ AsRegistered
      BY <1>4 DEF Held, At
<1>. QED
      BY <1>3, <1>4, <1>5 DEF AsApproved, AsRegistered, Written

\* However other programs edit an entry between the steps of a command, Trontop
\* replaces only the reviewed approval, by the confirmed one, and only while the
\* entry's registration is the reviewed one.
THEOREM OnlyReviewed == ControlSpec => CommitsOnlyReviewed
<1>1. TypedValid /\ Held /\ [ControlNext]_controlVars =>
        [(At("commit") /\ approval' # approval /\ UNCHANGED edits) =>
            LET key == worker.job.key IN
            /\ approval[key] = worker.job.target.approval
            /\ registration[key] = worker.job.target.registration
            /\ registration' = registration
            /\ approval' = [approval EXCEPT ![key] = After(worker.job)]]_controlVars
      BY CommitStep DEF controlVars
<1>. QED
      BY <1>1, TypeCorrect, HeldInvariant, PTL DEF ControlSpec, CommitsOnlyReviewed

-----------------------------------------------------------------------------
(* Eviction leaves the newest fence *)

\* Every nonempty set of natural numbers has a least element.
LEMMA LeastNatural ==
    ASSUME NEW T \in SUBSET Nat, T # {}
    PROVE  \E x \in T : \A y \in T : x <= y
<1> DEFINE less == {p \in Nat \X Nat : p[1] < p[2]}
<1>1. IsWellFoundedOn(less, Nat)
  <2>1. OpToRel(<, Nat) = less
    BY Zenon DEF OpToRel
  <2> QED BY <2>1, NatLessThanWellFounded, Zenon
<1>2. \E x \in T : \A y \in T : <<y, x>> \notin less
  <2> HIDE DEF less
  <2> QED BY <1>1, WFMin
<1>3. PICK x \in T : \A y \in T : <<y, x>> \notin less
  BY <1>2
<1>4. ASSUME NEW y \in T PROVE x <= y
  <2>1. x \in Nat /\ y \in Nat /\ <<y, x>> \in Nat \X Nat
    OBVIOUS
  <2>2. ~(y < x)
    BY <1>3, <2>1
  <2> QED BY <2>1, <2>2
<1> QED BY <1>4

LEMMA NewestFenceIsNewest ==
    ASSUME NEW all \in [Keys -> ChangeRecord \cup {Nothing}],
           NEW gone \in SUBSET {key \in Keys : all[key] # Nothing},
           clock \in Nat, evicted_fence \in Nat, evicted_fence <= clock,
           \A key \in gone : all[key].fence <= clock
    PROVE  /\ NewestFence(all, gone) \in Nat /\ NewestFence(all, gone) <= clock
           /\ evicted_fence <= NewestFence(all, gone)
           /\ \A key \in gone : all[key].fence <= NewestFence(all, gone)
<1> DEFINE fences == {evicted_fence} \cup {all[key].fence : key \in gone}
           bounds == {n \in Nat : \A fence \in fences : fence <= n}
<1>1. fences \in SUBSET Nat /\ \A fence \in fences : fence <= clock
  <2>1. \A key \in gone : all[key].fence \in Nat
    BY DEF ChangeRecord
  <2> QED BY <2>1
<1>2. bounds \in SUBSET Nat /\ clock \in bounds
  BY <1>1
<1>3. PICK least \in bounds : \A n \in bounds : least <= n
  BY <1>2, LeastNatural
<1>4. least \in fences
  <2> SUFFICES ASSUME least \notin fences PROVE FALSE
    OBVIOUS
  <2>1. least \in Nat /\ \A fence \in fences : fence <= least /\ fence # least
    BY <1>3
  <2>2. least - 1 \in Nat
    BY <1>1, <2>1
  <2>3. \A fence \in fences : fence <= least - 1
    BY <1>1, <2>1
  <2>4. least - 1 \in bounds
    BY <2>2, <2>3
  <2> QED BY <1>3, <2>1, <2>4
<1>5. \A fence \in fences : fence <= least
  BY <1>3
<1>6. \E fence \in fences : fence >= evicted_fence /\ \A key \in gone : fence >= all[key].fence
  <2>1. least >= evicted_fence /\ \A key \in gone : least >= all[key].fence
    BY <1>1, <1>4, <1>5
  <2> QED BY <1>4, <2>1
<1>7. NewestFence(all, gone) =
        CHOOSE fence \in fences : fence >= evicted_fence /\ \A key \in gone : fence >= all[key].fence
  BY DEF NewestFence
<1>8. /\ NewestFence(all, gone) \in fences
      /\ NewestFence(all, gone) >= evicted_fence
      /\ \A key \in gone : NewestFence(all, gone) >= all[key].fence
  <2> HIDE DEF fences
  <2> QED BY <1>6, <1>7
<1>9. \A key \in gone : all[key].fence \in Nat
  BY DEF ChangeRecord
<1> QED BY <1>1, <1>8, <1>9

-----------------------------------------------------------------------------
(* The page's records, one at a time *)

\* A record without a receipt is that of an unknown outcome, and a receipt's target
\* carries the approval that was verified.
WellKept(record) ==
    record # Nothing =>
        /\ record \in ChangeRecord
        /\ record.uncertain \/ record.receipt # Nothing
        /\ record.receipt # Nothing => record.receipt.target.approval = record.receipt.after

LEMMA NothingApart ==
    /\ Nothing \notin Entry /\ Nothing \notin Outcome
    /\ Nothing \notin Receipt /\ Nothing \notin ChangeRecord
  BY StartupPageAssumption

LEMMA ReceiptTyped ==
    ASSUME NEW request \in Request, Valid(request)
    PROVE  /\ ReceiptOf(request) \in Receipt /\ ReceiptOf(request) # Nothing
           /\ ReceiptOf(request).target.approval = ReceiptOf(request).after
           /\ ReceiptOf(request).target =
                [registration |-> request.target.registration, approval |-> After(request)]
<1>1. /\ request.target \in Row /\ After(request) \in Approvals
      /\ request.target.registration \in Registrations
      /\ request.target.approval \in Approvals
  BY AfterIsApproval DEF Request, Row
<1>2. [request.target EXCEPT !.approval = After(request)] =
        [registration |-> request.target.registration, approval |-> After(request)]
  BY <1>1 DEF Row
<1>3. ReceiptOf(request) \in Receipt
  BY <1>1, <1>2 DEF ReceiptOf, Receipt, Row
<1> QED BY <1>2, <1>3, NothingApart DEF ReceiptOf

LEMMA NotedTyped ==
    ASSUME NEW outcome \in Outcome, Valid(outcome.request), clock \in Nat,
           WellKept(changes[outcome.request.key])
    PROVE  /\ WellKept(Noted(outcome))
           /\ outcome.result = "ok" =>
                 /\ Noted(outcome) # Nothing /\ Noted(outcome).fence = outcome.observed_at
                 /\ ~Noted(outcome).uncertain
                 /\ Noted(outcome).receipt = ReceiptOf(outcome.request)
           /\ outcome.result = "uncertain" =>
                 /\ Noted(outcome) # Nothing /\ Noted(outcome).fence = clock
                 /\ Noted(outcome).uncertain
           /\ outcome.result = "unchanged" => Noted(outcome) = changes[outcome.request.key]
<1> DEFINE record == changes[outcome.request.key]
<1>1. /\ outcome.request \in Request /\ outcome.observed_at \in Nat
      /\ outcome.result \in {"ok", "unchanged", "uncertain"}
  BY DEF Outcome, Results
<1>2. CASE outcome.result = "ok"
  <2>1. Noted(outcome) = [fence |-> outcome.observed_at,
                          receipt |-> ReceiptOf(outcome.request), uncertain |-> FALSE]
    BY <1>2 DEF Noted
  <2>2. /\ ReceiptOf(outcome.request) \in Receipt /\ ReceiptOf(outcome.request) # Nothing
        /\ ReceiptOf(outcome.request).target.approval = ReceiptOf(outcome.request).after
    BY <1>1, ReceiptTyped
  <2>3. Noted(outcome) \in ChangeRecord /\ Noted(outcome) # Nothing
    <3>1. Noted(outcome) \in ChangeRecord
      BY <1>1, <2>1, <2>2 DEF ChangeRecord
    <3> QED BY <3>1, NothingApart
  <2>4. WellKept(Noted(outcome))
    BY <2>1, <2>2, <2>3 DEF WellKept
  <2> QED BY <1>2, <2>1, <2>3, <2>4
<1>3. CASE outcome.result = "uncertain"
  <2>1. Noted(outcome) = [fence |-> clock, uncertain |-> TRUE,
                          receipt |-> IF record = Nothing THEN Nothing ELSE record.receipt]
    BY <1>3 DEF Noted
  <2>2. /\ record # Nothing => record.receipt \in Receipt \cup {Nothing}
        /\ record # Nothing /\ record.receipt # Nothing =>
              record.receipt.target.approval = record.receipt.after
    BY DEF WellKept, ChangeRecord
  <2>3. Noted(outcome) \in ChangeRecord /\ Noted(outcome) # Nothing
    <3>1. Noted(outcome) \in ChangeRecord
      BY <2>1, <2>2 DEF ChangeRecord
    <3> QED BY <3>1, NothingApart
  <2>4. Noted(outcome).uncertain /\ Noted(outcome).fence = clock
    BY <2>1
  <2>5. Noted(outcome).receipt = IF record = Nothing THEN Nothing ELSE record.receipt
    BY <2>1
  <2>6. WellKept(Noted(outcome))
    BY <2>2, <2>3, <2>4, <2>5 DEF WellKept
  <2> QED BY <1>3, <2>3, <2>4, <2>6
<1>4. CASE outcome.result = "unchanged"
  <2>1. Noted(outcome) = record
    BY <1>4 DEF Noted
  <2> QED BY <1>4, <2>1
<1> QED BY <1>1, <1>2, <1>3, <1>4

\* Reconciling keeps a record, settles it by what an inventory shows, or drops it
\* for a newer inventory.
LEMMA ReconciledRecord ==
    ASSUME NEW record, WellKept(record), NEW entry \in Entry \cup {Nothing},
           shownSource.complete \in Nat
    PROVE  LET kept == Reconciled(record, entry) IN
           /\ WellKept(kept)
           /\ kept # Nothing =>
                 /\ record # Nothing /\ kept.fence = record.fence
                 /\ kept.receipt = record.receipt
                 /\ \/ kept.uncertain = record.uncertain
                    \/ /\ entry # Nothing /\ entry.at > record.fence
                       /\ kept.receipt.target = entry.row
           /\ kept = Nothing /\ record # Nothing =>
                 \/ entry # Nothing /\ entry.at > record.fence
                 \/ entry = Nothing /\ shownSource.complete > record.fence
<1> DEFINE kept == Reconciled(record, entry)
<1>1. CASE record = Nothing
  <2>1. kept = Nothing
    BY <1>1 DEF Reconciled
  <2> QED BY <1>1, <2>1 DEF WellKept
<1>2. CASE record # Nothing /\ entry = Nothing
  <2>1. kept = IF shownSource.complete <= record.fence THEN record ELSE Nothing
    BY <1>2 DEF Reconciled
  <2>2. record.fence \in Nat
    BY <1>2 DEF WellKept, ChangeRecord
  <2> QED BY <1>2, <2>1, <2>2 DEF WellKept
<1>3. CASE record # Nothing /\ entry # Nothing /\ entry.at <= record.fence
  <2>1. kept = record
    BY <1>3 DEF Reconciled
  <2> QED BY <1>3, <2>1
<1>4. CASE record # Nothing /\ entry # Nothing /\ ~(entry.at <= record.fence)
  <2>1. kept = IF record.receipt # Nothing /\ UndoMatches(record.receipt, entry.row)
               THEN [record EXCEPT !.uncertain = FALSE] ELSE Nothing
    BY <1>4 DEF Reconciled
  <2>2. /\ record \in ChangeRecord /\ record.fence \in Nat /\ entry \in Entry
        /\ entry.at \in Nat /\ entry.row \in Row /\ entry.at > record.fence
    BY <1>4 DEF WellKept, ChangeRecord, Entry
  <2>3. CASE record.receipt # Nothing /\ UndoMatches(record.receipt, entry.row)
    <3>1. kept = [fence |-> record.fence, receipt |-> record.receipt, uncertain |-> FALSE]
      BY <2>1, <2>2, <2>3 DEF ChangeRecord
    <3>2. /\ record.receipt \in Receipt /\ record.receipt.target \in Row
          /\ record.receipt.target.approval = record.receipt.after
      BY <1>4, <2>2, <2>3 DEF WellKept, ChangeRecord, Receipt
    <3>3. record.receipt.target = entry.row
      BY <2>2, <2>3, <3>2 DEF UndoMatches, SameRegistration, Row
    <3>4. kept \in ChangeRecord
      BY <2>2, <2>3, <3>1, <3>2 DEF ChangeRecord
    <3>5. kept # Nothing
      <4> HIDE DEF kept
      <4> QED BY <3>4, NothingApart
    <3>6. /\ kept.fence = record.fence /\ kept.receipt = record.receipt
          /\ kept.receipt.target = entry.row
      BY <3>1, <3>3
    <3>7. WellKept(kept)
      <4> HIDE DEF kept
      <4> QED BY <2>3, <3>2, <3>4, <3>6 DEF WellKept
    <3> HIDE DEF kept
    <3>8. entry # Nothing /\ record # Nothing
      BY <1>4
    <3> QED BY <2>2, <3>5, <3>6, <3>7, <3>8 DEF kept
  <2>4. CASE ~(record.receipt # Nothing /\ UndoMatches(record.receipt, entry.row))
    BY <1>4, <2>1, <2>2, <2>4 DEF WellKept
  <2> QED BY <2>3, <2>4
<1> QED BY <1>1, <1>2, <1>3, <1>4

\* What is kept of a source between two reads.
LEMMA MergedSource ==
    ASSUME NEW source \in Source, NEW at \in Nat,
           NEW state \in {"Starting", "Readable", "Missing", "Failed"},
           NEW rows \in [Keys -> Row \cup {Nothing}]
    PROVE  LET merged == MergeRead(source, state, rows, at) IN
           /\ merged \in Source /\ merged.attempt = at
           /\ merged.complete = IF state = "Failed" THEN source.complete ELSE at
           /\ \A key \in Keys : merged.entries[key] # Nothing =>
                 \/ rows[key] # Nothing /\ merged.entries[key].at = at
                      /\ merged.entries[key].row = rows[key]
                 \/ state = "Failed" /\ source.entries[key] # Nothing
                      /\ merged.entries[key].at = source.entries[key].at
                      /\ merged.entries[key].row = source.entries[key].row
           /\ \A key \in Keys : merged.entries[key] = Nothing =>
                 state # "Failed" \/ source.entries[key] = Nothing
<1> DEFINE merged == MergeRead(source, state, rows, at)
           shown(key) == [row |-> rows[key], at |-> at, observed |-> TRUE]
           old(key) == [source.entries[key] EXCEPT !.observed = FALSE]
<1>1. /\ source.entries \in [Keys -> Entry \cup {Nothing}] /\ source.complete \in Nat
  BY DEF Source
<1>2. \A key \in Keys : rows[key] # Nothing => shown(key) \in Entry /\ shown(key) # Nothing
  <2> SUFFICES ASSUME NEW key \in Keys, rows[key] # Nothing
               PROVE  shown(key) \in Entry
    BY NothingApart
  <2>1. rows[key] \in Row
    OBVIOUS
  <2> QED BY <2>1 DEF Entry
<1>3. ASSUME NEW key \in Keys, source.entries[key] # Nothing
      PROVE  /\ old(key) \in Entry /\ old(key) # Nothing
             /\ old(key).row = source.entries[key].row
             /\ old(key).at = source.entries[key].at
  <2>1. source.entries[key] \in Entry
    BY <1>1, <1>3
  <2>2. /\ old(key) \in Entry
        /\ old(key).row = source.entries[key].row
        /\ old(key).at = source.entries[key].at
    BY <2>1 DEF Entry
  <2> QED BY <2>2, NothingApart
<1>4. ASSUME NEW key \in Keys
      PROVE  merged.entries[key] =
               IF state = "Missing" \/ rows[key] = Nothing
               THEN IF state # "Failed" \/ source.entries[key] = Nothing
                    THEN Nothing ELSE old(key)
               ELSE shown(key)
  BY <1>3 DEF MergeRead, Kept
<1>5. \A key \in Keys : merged.entries[key] \in Entry \cup {Nothing}
  <2> HIDE DEF merged, shown, old
  <2> QED BY <1>2, <1>3, <1>4
<1>6. /\ merged.entries \in [Keys -> Entry \cup {Nothing}] /\ merged.attempt = at
      /\ merged.complete = IF state = "Failed" THEN source.complete ELSE at
      /\ merged.result = state
  <2>1. merged.entries =
          [key \in Keys |-> IF state = "Missing" \/ rows[key] = Nothing
                            THEN Kept(source, state)[key] ELSE shown(key)]
    BY DEF MergeRead
  <2>2. merged.entries \in [Keys -> Entry \cup {Nothing}]
    BY <1>5, <2>1
  <2> QED BY <2>2 DEF MergeRead
<1>7. merged \in Source
  BY <1>1, <1>6 DEF Source, MergeRead
<1>8. ASSUME NEW key \in Keys, merged.entries[key] # Nothing
      PROVE  \/ rows[key] # Nothing /\ merged.entries[key].at = at
                  /\ merged.entries[key].row = rows[key]
             \/ state = "Failed" /\ source.entries[key] # Nothing
                  /\ merged.entries[key].at = source.entries[key].at
                  /\ merged.entries[key].row = source.entries[key].row
  <2>1. CASE state = "Missing" \/ rows[key] = Nothing
    <3>1. state = "Failed" /\ source.entries[key] # Nothing /\ merged.entries[key] = old(key)
      BY <1>4, <1>8, <2>1
    <3> QED BY <1>3, <3>1
  <2>2. CASE ~(state = "Missing" \/ rows[key] = Nothing)
    <3>1. merged.entries[key] = shown(key) /\ rows[key] # Nothing
      BY <1>4, <2>2
    <3> QED BY <3>1
  <2> QED BY <2>1, <2>2
<1>9. ASSUME NEW key \in Keys, merged.entries[key] = Nothing
      PROVE  state # "Failed" \/ source.entries[key] = Nothing
  BY <1>2, <1>3, <1>4, <1>9
<1> QED BY <1>6, <1>7, <1>8, <1>9

-----------------------------------------------------------------------------
(* One request at a time *)

\* A request is in the channel, at the worker or answered, until it was taken; what
\* is answered was valid and observed in the past.
OneUnderWay ==
    /\ worker.at # "dead" =>
          /\ asked = Nothing => queue = Nothing /\ worker.job = Nothing /\ answer = Nothing
          /\ queue = Nothing \/ (worker.job = Nothing /\ answer = Nothing)
          /\ answer = Nothing \/ worker.job = Nothing
    /\ asked # Nothing => Valid(asked)
    /\ answer # Nothing => Valid(answer.request) /\ answer.observed_at <= clock
    /\ worker.at = "crashed" => worker.result = "uncertain"
    /\ worker.observed_at <= clock

LEMMA InitUnderWay == ControlInit => OneUnderWay
  BY DEF ControlInit, OneUnderWay, Idle

LEMMA StepUnderWay ==
    TypedValid /\ OneUnderWay /\ [ControlNext]_controlVars => OneUnderWay'
<1> SUFFICES ASSUME TypedValid, OneUnderWay, [ControlNext]_controlVars PROVE OneUnderWay'
  OBVIOUS
<1> USE DEF controller, windows
<1>0. /\ worker \in Worker /\ clock \in Nat /\ worker.observed_at \in Nat
      /\ answer # Nothing => answer \in Outcome /\ answer.observed_at \in Nat
      /\ worker.job = Nothing <=> worker.at \in {"idle", "ending", "dead"}
  BY DEF TypedValid, TypeOK, Worker, Outcome
<1>1. ASSUME NEW request \in Request, SubmitChange(request) PROVE OneUnderWay'
  BY <1>1, NothingApart DEF SubmitChange, Ready, OneUnderWay
<1>2. CASE Poll \/ DropController
  BY <1>2 DEF Poll, TakeAnswer, PollEmpty, PollFinished, Lost, DropController, OneUnderWay
<1>3. CASE ReceiveChange
  <2>1. queue # Nothing /\ queue' = Nothing /\ UNCHANGED <<clock, answer, asked>>
    BY <1>3 DEF ReceiveChange
  <2>2. CASE dropped
    <3>1. worker'.at = "dead" /\ worker'.observed_at = 0
      BY <1>3, <2>2 DEF ReceiveChange, Idle
    <3> QED BY <1>0, <2>1, <3>1 DEF OneUnderWay
  <2>3. CASE ~dropped
    <3>1. worker'.at = "verify" /\ worker'.observed_at = 0 /\ At("idle")
      BY <1>3, <2>3 DEF ReceiveChange, Idle
    <3> QED BY <1>0, <2>1, <3>1 DEF OneUnderWay, At
  <2> QED BY <2>2, <2>3
<1>4. CASE Disconnect \/ EndWorker
  <2>1. /\ worker'.at = "dead" /\ worker'.observed_at = worker.observed_at
        /\ UNCHANGED <<clock, answer, asked>>
    BY <1>0, <1>4 DEF Disconnect, EndWorker, Goto, Worker
  <2> QED BY <1>0, <2>1 DEF OneUnderWay
<1>5. CASE Apply
  <2>1. /\ worker.at \notin {"idle", "ending", "dead", "crashed"}
        /\ UNCHANGED <<clock, queue, answer, asked>>
    BY <1>5 DEF Apply, Verify, Stage, Recheck, ReadApproval, WriteApproval,
       ReadBack, Commit, ConfirmApproval, At
  <2>2. /\ worker'.job = worker.job /\ worker'.at \notin {"idle", "ending", "dead", "crashed"}
        /\ worker'.observed_at \in {worker.observed_at, clock}
    <3>1. \/ \E place \in Places : Goto(place) /\ place \notin {"idle", "ending", "dead", "crashed"}
          \/ \E result \in Results : Fail(result)
          \/ worker' = [worker EXCEPT !.at = "publish", !.result = "ok", !.observed_at = clock]
      BY <1>5 DEF Apply, Verify, Stage, Recheck, ReadApproval, WriteApproval, ReadBack, Commit,
         ConfirmApproval, Places, Results
    <3> QED BY <1>0, <3>1 DEF Goto, Fail, Worker
  <2> QED BY <1>0, <2>1, <2>2 DEF OneUnderWay
<1>6. CASE Panic
  <2>1. /\ worker.at \notin {"idle", "ending", "dead"} /\ worker'.job = worker.job
        /\ worker'.at = "crashed" /\ worker'.result = "uncertain"
        /\ worker'.observed_at = worker.observed_at
        /\ UNCHANGED <<clock, queue, answer, asked>>
    BY <1>0, <1>6 DEF Panic, Worker
  <2> QED BY <1>0, <2>1 DEF OneUnderWay
<1>7. CASE Publish
  <2>1. /\ worker.job \in Request /\ worker.job # Nothing /\ Valid(worker.job)
        /\ worker.at # "dead"
    BY <1>0, <1>7 DEF Publish, At, TypedValid, Validated, Worker
  <2>2. /\ answer'.request = worker.job /\ answer'.observed_at = worker.observed_at
        /\ worker'.job = Nothing /\ worker'.at \in {"idle", "ending"}
        /\ worker'.observed_at = 0
        /\ UNCHANGED <<clock, queue, asked>>
    BY <1>7 DEF Publish, Idle
  <2> QED BY <1>0, <2>1, <2>2 DEF OneUnderWay
<1>8. ASSUME NEW key \in Keys, Edit(key) PROVE OneUnderWay'
  BY <1>8 DEF Edit, OneUnderWay
<1>9. CASE ClockTicks
  <2>1. /\ clock' = clock + 1 /\ UNCHANGED <<queue, answer, asked, worker>>
    BY <1>9 DEF ClockTicks
  <2> QED BY <1>0, <2>1 DEF OneUnderWay
<1>10. CASE UNCHANGED controlVars
  BY <1>10 DEF controlVars, OneUnderWay
<1> QED BY <1>1, <1>2, <1>3, <1>4, <1>5, <1>6, <1>7, <1>8, <1>9, <1>10 DEF ControlNext, Work

\* The steps of the controller that the page takes are steps of the controller.
LEMMA PageStepsControl ==
    ASSUME pending \in Request \cup {Nothing}, [PageNext]_startupVars
    PROVE  [ControlNext]_controlVars
<1>1. CASE Confirmed
  <2>1. pending \in Request /\ SubmitChange(pending)
    BY <1>1 DEF Confirmed
  <2> QED BY <2>1 DEF ControlNext
<1>2. CASE Frame \/ Command \/ OtherProgram \/ TimePasses \/ PollEmpty \/ CloseStartup
  BY <1>2 DEF Frame, Command, OtherProgram, TimePasses, CloseStartup, ControlNext, Poll
<1>3. CASE UNCHANGED controlVars
  BY <1>3
<1> QED BY <1>1, <1>2, <1>3 DEF PageNext, Review, Cancel, AskRefresh, SourceReadStarts,
           EnumerateEntry, ObserveApproval, SourcePublish, SamplerCycle, startupVars

-----------------------------------------------------------------------------
(* Types and stamps of the page *)

PageKept == PageTypeOK /\ \A key \in Keys : WellKept(changes[key])

\* The stamps of a source.
InPast(source) ==
    /\ source.complete <= source.attempt /\ source.attempt <= clock
    /\ \A key \in Keys : source.entries[key] # Nothing =>
          /\ 0 < source.entries[key].at
          /\ source.complete <= source.entries[key].at
          /\ source.entries[key].at <= source.attempt

\* What the UI has accepted is no newer than what was published: an entry of it is
\* still listed, or a later complete read did not find it.
NoNewer(older, newer) ==
    /\ older.complete <= newer.complete
    /\ \A key \in Keys : older.entries[key] # Nothing =>
          \/ /\ newer.entries[key] # Nothing
             /\ older.entries[key].at <= newer.entries[key].at
          \/ newer.complete > older.entries[key].at

StampsInOrder ==
    /\ 0 < clock
    /\ InPast(listedSource) /\ InPast(shownSource) /\ NoNewer(shownSource, listedSource)
    /\ read.at # 0 => listedSource.attempt < read.at /\ read.at <= clock
    /\ \A key \in Keys : changes[key] # Nothing => changes[key].fence <= clock
    /\ evicted_fence <= clock

LEMMA UnreadTyped ==
    /\ NoEntries \in [Keys -> Row \cup {Nothing}]
    /\ NoEntries \in [Keys -> ChangeRecord \cup {Nothing}]
    /\ \A key \in Keys : NoEntries[key] = Nothing
    /\ Unread \in Source /\ NotReading \in Reading
    /\ Unread.entries = NoEntries /\ Unread.attempt = 0 /\ Unread.complete = 0
    /\ NotReading.at = 0 /\ NotReading.seen = Nothing /\ NotReading.rows = NoEntries
<1>1. /\ NoEntries \in [Keys -> Entry \cup {Nothing}]
      /\ NoEntries \in [Keys -> Row \cup {Nothing}]
      /\ NoEntries \in [Keys -> ChangeRecord \cup {Nothing}]
      /\ \A key \in Keys : NoEntries[key] = Nothing
  BY DEF NoEntries
<1> QED BY <1>1 DEF Unread, Source, NotReading, Reading

\* A source that nothing was read of, or was given up, is in the past.
LEMMA UnreadInPast ==
    ASSUME clock \in Nat
    PROVE  InPast(Unread) /\ NoNewer(Unread, Unread)
  BY UnreadTyped DEF InPast, NoNewer

LEMMA InitKept == PageInit => PageKept /\ StampsInOrder
<1> SUFFICES ASSUME PageInit PROVE PageKept /\ StampsInOrder
  OBVIOUS
<1>1. /\ clock = 1 /\ read = NotReading /\ listedSource = Unread /\ shownSource = Unread
      /\ rereadWanted = TRUE /\ refreshAsked = FALSE
      /\ pending = Nothing /\ changes = NoEntries /\ evicted_fence = 0
  BY DEF PageInit, ControlInit
<1>2. PageKept
  BY <1>1, UnreadTyped DEF PageKept, PageTypeOK, WellKept
<1>3. StampsInOrder
  BY <1>1, UnreadTyped, UnreadInPast DEF StampsInOrder
<1> QED BY <1>2, <1>3

\* Whatever becomes of the source, the records and the clock, the rest of the page's
\* types is kept by a step that leaves the review alone.
LEMMA ViewTyped ==
    ASSUME PageKept, NEW key \in Keys, shownSource.entries[key] # Nothing
    PROVE  /\ View(key).row \in Row
           /\ CanUndo(key) => /\ changes[key].receipt.target \in Row
                              /\ changes[key].receipt.before \in Approvals
<1>1. shownSource.entries[key] \in Entry
  BY DEF PageKept, PageTypeOK, Source
<1>2. shownSource.entries[key].row \in Row
  BY <1>1 DEF Entry
<1>3. changes[key] # Nothing /\ changes[key].receipt # Nothing =>
         changes[key].receipt \in Receipt
  BY DEF PageKept, WellKept, ChangeRecord
<1>4. changes[key] # Nothing /\ changes[key].receipt # Nothing =>
         /\ changes[key].receipt.target \in Row
         /\ changes[key].receipt.before \in Approvals
  BY <1>3 DEF Receipt
<1>5. View(key).row \in Row
  BY <1>2, <1>4 DEF View, Overlaid
<1> QED BY <1>4, <1>5 DEF CanUndo

\* A failed read that shows nothing keeps every entry with its stamp.
LEMMA FailedRead ==
    ASSUME NEW source \in Source, NEW at \in Nat
    PROVE  LET merged == MergeRead(source, "Failed", NoEntries, at) IN
           /\ merged \in Source /\ merged.attempt = at /\ merged.complete = source.complete
           /\ \A key \in Keys :
                 /\ (merged.entries[key] # Nothing) = (source.entries[key] # Nothing)
                 /\ merged.entries[key] # Nothing =>
                       /\ merged.entries[key].at = source.entries[key].at
                       /\ merged.entries[key].row = source.entries[key].row
<1> DEFINE merged == MergeRead(source, "Failed", NoEntries, at)
<1>1. PICK rows \in [Keys -> Row \cup {Nothing}] : rows = NoEntries
  BY UnreadTyped
<1>2. \A key \in Keys : rows[key] = Nothing
  BY <1>1, UnreadTyped
<1>3. MergeRead(source, "Failed", rows, at) \in Source
  BY MergedSource
<1>4. MergeRead(source, "Failed", rows, at).attempt = at
  BY MergedSource
<1>5. MergeRead(source, "Failed", rows, at).complete = source.complete
  BY MergedSource
<1>6. \A key \in Keys : MergeRead(source, "Failed", rows, at).entries[key] # Nothing =>
        /\ source.entries[key] # Nothing
        /\ MergeRead(source, "Failed", rows, at).entries[key].at = source.entries[key].at
        /\ MergeRead(source, "Failed", rows, at).entries[key].row = source.entries[key].row
  BY <1>2, MergedSource
<1>7. \A key \in Keys : MergeRead(source, "Failed", rows, at).entries[key] = Nothing =>
        source.entries[key] = Nothing
  BY MergedSource
<1>8. merged = MergeRead(source, "Failed", rows, at)
  BY <1>1
<1> HIDE DEF merged
<1> QED BY <1>3, <1>4, <1>5, <1>6, <1>7, <1>8 DEF merged

LEMMA LatestSource ==
    ASSUME PageKept, clock \in Nat, StampsInOrder
    PROVE  /\ Latest \in Source /\ InPast(Latest) /\ NoNewer(Latest, listedSource)
           /\ Latest.complete = listedSource.complete
           /\ \A key \in Keys :
                 /\ (Latest.entries[key] # Nothing) = (listedSource.entries[key] # Nothing)
                 /\ Latest.entries[key] # Nothing =>
                       /\ Latest.entries[key].at = listedSource.entries[key].at
                       /\ Latest.entries[key].row = listedSource.entries[key].row
<1>0. /\ listedSource \in Source /\ read \in Reading
      /\ listedSource.complete \in Nat /\ listedSource.attempt \in Nat /\ read.at \in Nat
      /\ \A key \in Keys : listedSource.entries[key] # Nothing =>
            listedSource.entries[key].at \in Nat
  BY DEF PageKept, PageTypeOK, Source, Reading, Entry
<1>1. CASE Latest = listedSource
  BY <1>0, <1>1 DEF StampsInOrder, NoNewer
<1>2. CASE Latest = Invalidated(listedSource, read.at) /\ read.at # 0
  <2>1. Latest = MergeRead(listedSource, "Failed", NoEntries, read.at)
    BY <1>2 DEF Invalidated
  <2>2. /\ Latest \in Source /\ Latest.attempt = read.at
        /\ Latest.complete = listedSource.complete
        /\ \A key \in Keys : Latest.entries[key] # Nothing =>
              /\ listedSource.entries[key] # Nothing
              /\ Latest.entries[key].at = listedSource.entries[key].at
              /\ Latest.entries[key].row = listedSource.entries[key].row
        /\ \A key \in Keys : Latest.entries[key] = Nothing => listedSource.entries[key] = Nothing
    <3>1. PICK source \in Source : source = listedSource
      BY <1>0
    <3>2. PICK at \in Nat : at = read.at
      BY <1>0
    <3> QED BY <2>1, <3>1, <3>2, FailedRead
  <2> HIDE DEF Latest
  <2>3. InPast(listedSource) /\ listedSource.attempt < read.at /\ read.at <= clock
    BY <1>2 DEF StampsInOrder
  <2>4. InPast(Latest)
    BY <1>0, <2>2, <2>3 DEF InPast
  <2>5. NoNewer(Latest, listedSource)
    BY <1>0, <2>2 DEF NoNewer
  <2> QED BY <2>2, <2>4, <2>5
<1> QED BY <1>1, <1>2 DEF Latest
-----------------------------------------------------------------------------
(* A frame's records *)

\* What is known of an entry once a frame has noted the outcome it polled.
NotedIn(key) ==
    IF Answered # Nothing /\ Answered.request.key = key THEN Noted(Answered) ELSE changes[key]

\* What a frame makes of a record: it settles it by a newer entry or drops it, and
\* then an inventory or the fence is newer.
Succeeds(record, kept, entry, fence) ==
    /\ WellKept(kept)
    /\ kept # Nothing =>
          /\ record # Nothing /\ kept.fence = record.fence /\ kept.receipt = record.receipt
          /\ \/ kept.uncertain = record.uncertain
             \/ /\ entry # Nothing /\ entry.at > record.fence
                /\ kept.receipt.target = entry.row
    /\ kept = Nothing /\ record # Nothing =>
          \/ fence >= record.fence
          \/ entry # Nothing /\ entry.at > record.fence
          \/ entry = Nothing /\ shownSource.complete > record.fence

\* The outcome that a frame polls.
LEMMA AnsweredTyped ==
    ASSUME TypedValid, OneUnderWay, Answered # Nothing
    PROVE  /\ Answered \in Outcome /\ Valid(Answered.request) /\ Answered.request.key \in Keys
           /\ Answered.observed_at <= clock
<1>0. clock \in Nat /\ asked \in Request \cup {Nothing} /\ answer \in Outcome \cup {Nothing}
  BY DEF TypedValid, TypeOK
<1>1. CASE checking
  <2>1. Lost /\ Answered = Unknown(asked) /\ asked \in Request /\ Valid(asked)
    BY <1>0, <1>1 DEF Answered, Lost, Busy, OneUnderWay
  <2>2. /\ Answered.request = asked /\ Answered.observed_at = 0
        /\ Answered \in Outcome
    BY <2>1 DEF Unknown, Outcome, Results
  <2> QED BY <1>0, <2>1, <2>2 DEF Request
<1>2. CASE ~checking
  <2>1. Answered = answer /\ answer \in Outcome
    BY <1>0, <1>2 DEF Answered
  <2>2. answer.request \in Request
    BY <2>1 DEF Outcome
  <2> QED BY <2>1, <2>2 DEF OneUnderWay, Request
<1> QED BY <1>1, <1>2

\* A record that is noted has a fence in the past.
LEMMA NotedKept ==
    ASSUME TypedValid, OneUnderWay, PageKept, StampsInOrder, NEW key \in Keys
    PROVE  /\ WellKept(NotedIn(key))
           /\ NotedIn(key) # Nothing => NotedIn(key).fence <= clock
<1>0. clock \in Nat
  BY DEF TypedValid, TypeOK
<1>1. WellKept(changes[key]) /\ (changes[key] # Nothing => changes[key].fence <= clock)
  BY DEF PageKept, StampsInOrder
<1>2. CASE Answered # Nothing /\ Answered.request.key = key
  <2>1. PICK outcome \in Outcome : outcome = Answered
    BY <1>2, AnsweredTyped
  <2>2. /\ Valid(outcome.request) /\ outcome.request.key = key /\ outcome.observed_at <= clock
        /\ outcome.result \in {"ok", "unchanged", "uncertain"}
    BY <1>2, <2>1, AnsweredTyped DEF Outcome, Results
  <2>3. /\ WellKept(Noted(outcome))
        /\ outcome.result = "ok" => Noted(outcome).fence = outcome.observed_at
        /\ outcome.result = "uncertain" => Noted(outcome).fence = clock
        /\ outcome.result = "unchanged" => Noted(outcome) = changes[key]
    BY <1>0, <1>1, <2>2, NotedTyped
  <2>4. NotedIn(key) = Noted(outcome)
    BY <1>2, <2>1 DEF NotedIn
  <2> QED BY <1>0, <1>1, <2>2, <2>3, <2>4
<1>3. CASE ~(Answered # Nothing /\ Answered.request.key = key)
  BY <1>1, <1>3 DEF NotedIn
<1> QED BY <1>2, <1>3

LEMMA FrameRecords ==
    ASSUME TypedValid, OneUnderWay, PageKept, StampsInOrder, Frame
    PROVE  /\ changes' \in [Keys -> ChangeRecord \cup {Nothing}] /\ refreshAsked' \in BOOLEAN
           /\ evicted_fence' \in Nat /\ evicted_fence' <= clock /\ evicted_fence <= evicted_fence'
           /\ \A key \in Keys :
                Succeeds(NotedIn(key), changes'[key], shownSource.entries[key], evicted_fence')
<1> DEFINE noted == [key \in Keys |-> NotedIn(key)]
<1>0. /\ clock \in Nat /\ evicted_fence \in Nat /\ evicted_fence <= clock
      /\ refreshAsked \in BOOLEAN /\ shownSource.complete \in Nat
      /\ shownSource.entries \in [Keys -> Entry \cup {Nothing}]
      /\ changes \in [Keys -> ChangeRecord \cup {Nothing}]
  BY DEF TypedValid, TypeOK, PageKept, PageTypeOK, StampsInOrder, Source
<1>1. /\ noted \in [Keys -> ChangeRecord \cup {Nothing}]
      /\ \A key \in Keys : noted[key] = NotedIn(key) /\ WellKept(noted[key])
      /\ \A key \in Keys : noted[key] # Nothing => noted[key].fence <= clock
  BY NotedKept DEF WellKept
<1>2. ASSUME NEW gone \in SUBSET {key \in Keys : noted[key] # Nothing},
             changes' = ReconcileAll([key \in Keys |-> IF key \in gone THEN Nothing ELSE noted[key]]),
             evicted_fence' \in Nat, evicted_fence' <= clock, evicted_fence <= evicted_fence',
             \A key \in gone : noted[key].fence <= evicted_fence',
             refreshAsked' \in BOOLEAN
      PROVE  /\ changes' \in [Keys -> ChangeRecord \cup {Nothing}]
             /\ \A key \in Keys :
                  Succeeds(NotedIn(key), changes'[key], shownSource.entries[key], evicted_fence')
  <2> DEFINE left == [key \in Keys |-> IF key \in gone THEN Nothing ELSE noted[key]]
  <2> HIDE DEF noted
  <2>1. ASSUME NEW key \in Keys
        PROVE  Succeeds(noted[key], changes'[key], shownSource.entries[key], evicted_fence')
    <3> DEFINE record == left[key]
               entry  == shownSource.entries[key]
    <3>1. entry \in Entry \cup {Nothing}
      BY <1>0
    <3>2. /\ record = IF key \in gone THEN Nothing ELSE noted[key]
          /\ changes'[key] = Reconciled(record, entry)
      BY <1>2 DEF ReconcileAll
    <3>3. WellKept(record)
      BY <1>1, <3>2 DEF WellKept
    <3> HIDE DEF record, entry
    <3>4. /\ WellKept(changes'[key])
          /\ changes'[key] # Nothing =>
                /\ record # Nothing /\ changes'[key].fence = record.fence
                /\ changes'[key].receipt = record.receipt
                /\ \/ changes'[key].uncertain = record.uncertain
                   \/ /\ entry # Nothing /\ entry.at > record.fence
                      /\ changes'[key].receipt.target = entry.row
          /\ changes'[key] = Nothing /\ record # Nothing =>
                \/ entry # Nothing /\ entry.at > record.fence
                \/ entry = Nothing /\ shownSource.complete > record.fence
      BY <1>0, <3>1, <3>2, <3>3, ReconciledRecord
    <3>5. CASE key \in gone
      BY <1>2, <3>2, <3>4, <3>5 DEF Succeeds, entry
    <3>6. CASE key \notin gone
      BY <3>2, <3>4, <3>6 DEF Succeeds, entry
    <3> QED BY <3>5, <3>6
  <2>2. changes' = [key \in Keys |-> Reconciled(left[key], shownSource.entries[key])]
    BY <1>2 DEF ReconcileAll
  <2>3. \A key \in Keys : changes'[key] \in ChangeRecord \cup {Nothing}
    BY <2>1 DEF Succeeds, WellKept
  <2> QED BY <1>1, <2>1, <2>2, <2>3
<1>3. CASE Answered = Nothing
  <2>1. changes' = ReconcileAll(changes) /\ UNCHANGED <<evicted_fence, refreshAsked>>
    BY <1>3 DEF Frame
  <2>2. noted = changes
    BY <1>0, <1>3 DEF NotedIn
  <2> HIDE DEF noted
  <2>3. PICK gone \in SUBSET {key \in Keys : noted[key] # Nothing} : gone = {}
    OBVIOUS
  <2>4. noted = [key \in Keys |-> IF key \in gone THEN Nothing ELSE noted[key]]
    BY <1>1, <2>3
  <2>5. changes' = ReconcileAll([key \in Keys |-> IF key \in gone THEN Nothing ELSE noted[key]])
    BY <2>1, <2>2, <2>4
  <2>6. /\ evicted_fence' \in Nat /\ evicted_fence' <= clock /\ evicted_fence <= evicted_fence'
        /\ refreshAsked' \in BOOLEAN
    BY <1>0, <2>1
  <2> QED BY <1>2, <2>3, <2>5, <2>6
<1>4. CASE Answered # Nothing
  <2>1. PICK outcome \in Outcome : outcome = Answered /\ outcome.request.key \in Keys
    BY <1>4, AnsweredTyped
  <2>2. ApplyOutcome(outcome)
    BY <1>4, <2>1 DEF Frame
  <2>3. [changes EXCEPT ![outcome.request.key] = Noted(outcome)] = noted
    BY <1>0, <1>4, <2>1 DEF NotedIn
  <2> HIDE DEF noted
  <2> DEFINE all == [changes EXCEPT ![outcome.request.key] = Noted(outcome)]
  <2>a. PICK gone \in Evictable(all) :
           /\ changes' = ReconcileAll([key \in Keys |-> IF key \in gone THEN Nothing ELSE all[key]])
           /\ evicted_fence' = NewestFence(all, gone)
           /\ refreshAsked' = TRUE
    BY <2>2 DEF ApplyOutcome
  <2> HIDE DEF all
  <2>4. /\ gone \in SUBSET {key \in Keys : noted[key] # Nothing}
        /\ changes' = ReconcileAll([key \in Keys |-> IF key \in gone THEN Nothing ELSE noted[key]])
        /\ evicted_fence' = NewestFence(noted, gone)
        /\ refreshAsked' = TRUE
    <3>1. all = noted
      BY <2>3 DEF all
    <3> QED BY <2>a, <3>1 DEF Evictable
  <2>5. /\ NewestFence(noted, gone) \in Nat /\ NewestFence(noted, gone) <= clock
        /\ evicted_fence <= NewestFence(noted, gone)
        /\ \A key \in gone : noted[key].fence <= NewestFence(noted, gone)
    BY <1>0, <1>1, <2>4, NewestFenceIsNewest
  <2> QED BY <1>2, <2>4, <2>5
<1> QED BY <1>3, <1>4
-----------------------------------------------------------------------------
(* The page's types and stamps are kept *)

\* A step that leaves the source and the records alone keeps them.
LEMMA OthersKept ==
    ASSUME PageKept, StampsInOrder, clock \in Nat, clock' \in Nat, clock <= clock',
           pending' \in Request \cup {Nothing}, refreshAsked' \in BOOLEAN,
           UNCHANGED <<sourceVars, shownSource, observationVars>>
    PROVE  PageKept' /\ StampsInOrder'
<1>1. PageKept'
  BY DEF PageKept, PageTypeOK, WellKept, sourceVars, observationVars
<1>2. /\ \A key \in Keys : listedSource.entries[key] # Nothing =>
             listedSource.entries[key].at \in Nat
      /\ \A key \in Keys : shownSource.entries[key] # Nothing =>
             shownSource.entries[key].at \in Nat
      /\ \A key \in Keys : changes[key] # Nothing => changes[key].fence \in Nat
      /\ listedSource.attempt \in Nat /\ shownSource.attempt \in Nat
      /\ read.at \in Nat /\ evicted_fence \in Nat
  BY DEF PageKept, PageTypeOK, Source, Entry, Reading, WellKept, ChangeRecord
<1>3. InPast(listedSource)' /\ InPast(shownSource)' /\ NoNewer(shownSource, listedSource)'
  BY <1>2 DEF StampsInOrder, InPast, NoNewer, sourceVars
<1>4. StampsInOrder'
  BY <1>2, <1>3 DEF StampsInOrder, sourceVars, observationVars
<1> QED BY <1>1, <1>4

\* A step that leaves the review and the clock alone keeps what it makes typed.
LEMMA SourceKept ==
    ASSUME PageKept, UNCHANGED <<clock, pending, observationVars>>,
           read' \in Reading, listedSource' \in Source, shownSource' \in Source,
           rereadWanted' \in BOOLEAN, refreshAsked' \in BOOLEAN
    PROVE  PageKept'
  BY DEF PageKept, PageTypeOK, WellKept, observationVars

LEMMA ReadStartsKept ==
    ASSUME clock \in Nat, PageKept, StampsInOrder, SourceReadStarts
    PROVE  PageKept' /\ StampsInOrder'
<1>1. /\ read' = [NotReading EXCEPT !.at = clock, !.left = Keys] /\ rereadWanted' = FALSE
      /\ listedSource.attempt < clock /\ 0 < clock
      /\ UNCHANGED <<clock, listedSource, refreshAsked, shownSource, pending, changes, evicted_fence>>
  BY DEF SourceReadStarts, StampsInOrder, controlVars, reviewVars, observationVars
<1>2. read' \in Reading /\ read'.at = clock
  BY <1>1, UnreadTyped DEF NotReading, Reading
<1>3. PageKept'
  BY <1>1, <1>2, SourceKept DEF PageKept, PageTypeOK, observationVars
<1>4. StampsInOrder'
  BY <1>1, <1>2 DEF StampsInOrder, InPast, NoNewer
<1> QED BY <1>3, <1>4

\* The enumeration finds an entry's registration as it is, and then its approval.
LEMMA ReadShows ==
    ASSUME TypeOK, PageKept, EnumerateEntry \/ ObserveApproval
    PROVE  /\ read' \in Reading /\ read'.at = read.at
           /\ \A key \in Keys : read'.rows[key] # Nothing =>
                 \/ read'.rows[key] = read.rows[key]
                 \/ /\ read.seen # Nothing /\ read.seen.key = key
                    /\ read'.rows[key] = [registration |-> read.seen.registration,
                                          approval |-> approval[key]]
           /\ read'.seen # Nothing =>
                 /\ read'.seen.key \in Keys
                 /\ read'.seen.registration = registration[read'.seen.key]
<1>0. /\ read \in Reading /\ registration \in [Keys -> Registrations \cup {Nothing}]
      /\ approval \in [Keys -> Approvals]
  BY DEF TypeOK, PageKept, PageTypeOK
<1>1. CASE EnumerateEntry
  <2>1. PICK key \in read.left : read' = [read EXCEPT !.left = @ \ {key}, !.seen = Found(key)]
    BY <1>1 DEF EnumerateEntry
  <2>2. key \in Keys /\ read.left \ {key} \in SUBSET Keys
    BY <1>0 DEF Reading
  <2>3. /\ Found(key) \in Enumerated \cup {Nothing}
        /\ Found(key) # Nothing =>
              Found(key).key = key /\ Found(key).registration = registration[key]
    BY <1>0, <2>2 DEF Found, Enumerated
  <2> QED BY <1>0, <2>1, <2>2, <2>3 DEF Reading
<1>2. CASE ObserveApproval
  <2>1. /\ read.seen # Nothing /\ read.seen \in Enumerated
        /\ read' = [read EXCEPT !.seen = Nothing, !.rows = [@ EXCEPT ![read.seen.key] = Observed]]
    BY <1>0, <1>2 DEF ObserveApproval, Reading
  <2>2. read.seen.key \in Keys /\ Observed \in Row
    BY <1>0, <2>1 DEF Enumerated, Row, Observed
  <2>3. read.rows \in [Keys -> Row \cup {Nothing}]
    BY <1>0 DEF Reading
  <2>4. /\ read'.seen = Nothing /\ read'.at = read.at
        /\ read'.rows = [read.rows EXCEPT ![read.seen.key] = Observed]
    BY <1>0, <2>1 DEF Reading
  <2>5. read' \in Reading
    BY <1>0, <2>1, <2>2, <2>3 DEF Reading
  <2>6. \A key \in Keys : read'.rows[key] = IF key = read.seen.key THEN Observed ELSE read.rows[key]
    BY <2>2, <2>3, <2>4
  <2> QED BY <2>1, <2>4, <2>5, <2>6 DEF Observed
<1> QED BY <1>1, <1>2

\* A step of the enumeration leaves the stamps alone.
LEMMA EnumerationKept ==
    ASSUME TypeOK, PageKept, StampsInOrder, EnumerateEntry \/ ObserveApproval
    PROVE  PageKept' /\ StampsInOrder'
<1>1. /\ read' \in Reading /\ read'.at = read.at
      /\ UNCHANGED <<clock, listedSource, rereadWanted, refreshAsked, shownSource, pending,
                     changes, evicted_fence>>
  BY ReadShows DEF EnumerateEntry, ObserveApproval, controlVars, reviewVars, observationVars
<1>2. PageKept'
  BY <1>1, SourceKept DEF PageKept, PageTypeOK, observationVars
<1>3. StampsInOrder'
  BY <1>1 DEF StampsInOrder, InPast, NoNewer
<1> QED BY <1>2, <1>3

LEMMA PublishKept ==
    ASSUME clock \in Nat, PageKept, StampsInOrder, SourcePublish
    PROVE  /\ PageKept' /\ StampsInOrder'
           /\ UNCHANGED <<clock, registration, approval, shownSource, changes, evicted_fence, since>>
           /\ read' = NotReading
           /\ \A key \in Keys : listedSource'.entries[key] # Nothing =>
                   \/ /\ read.rows[key] # Nothing
                      /\ listedSource'.entries[key].at = read.at
                      /\ listedSource'.entries[key].row = read.rows[key]
                   \/ /\ listedSource.entries[key] # Nothing
                      /\ listedSource'.entries[key].at = listedSource.entries[key].at
                      /\ listedSource'.entries[key].row = listedSource.entries[key].row
<1>0. PICK result \in {"Readable", "Missing", "Failed"} :
         listedSource' = MergeRead(listedSource, result, read.rows, read.at)
  BY DEF SourcePublish
<1>1. /\ read.at # 0 /\ read' = NotReading
      /\ UNCHANGED <<clock, registration, approval, rereadWanted, refreshAsked, shownSource, pending,
                     changes, evicted_fence, since>>
  BY DEF SourcePublish, controlVars, windows, reviewVars, observationVars
<1>2. PICK source \in Source : source = listedSource
  BY DEF PageKept, PageTypeOK
<1>3. PICK seen \in Reading : seen = read
  BY DEF PageKept, PageTypeOK
<1>4. /\ seen.at \in Nat /\ seen.rows \in [Keys -> Row \cup {Nothing}]
      /\ 0 < seen.at /\ source.attempt < seen.at /\ seen.at <= clock
      /\ source.complete \in Nat /\ source.attempt \in Nat
      /\ \A key \in Keys : source.entries[key] # Nothing => source.entries[key].at \in Nat
      /\ shownSource.complete \in Nat
      /\ \A key \in Keys : shownSource.entries[key] # Nothing => shownSource.entries[key].at \in Nat
  BY <1>1, <1>2, <1>3 DEF Reading, StampsInOrder, PageKept, PageTypeOK, Source, Entry
<1> DEFINE merged == MergeRead(source, result, seen.rows, seen.at)
<1>5. /\ merged \in Source /\ merged.attempt = seen.at
      /\ merged.complete = IF result = "Failed" THEN source.complete ELSE seen.at
      /\ \A key \in Keys : merged.entries[key] # Nothing =>
            \/ seen.rows[key] # Nothing /\ merged.entries[key].at = seen.at
                 /\ merged.entries[key].row = seen.rows[key]
            \/ result = "Failed" /\ source.entries[key] # Nothing
                 /\ merged.entries[key].at = source.entries[key].at
                 /\ merged.entries[key].row = source.entries[key].row
      /\ \A key \in Keys : merged.entries[key] = Nothing =>
            result # "Failed" \/ source.entries[key] = Nothing
  <2>1. PICK state \in {"Starting", "Readable", "Missing", "Failed"} : state = result
    OBVIOUS
  <2>2. PICK rows \in [Keys -> Row \cup {Nothing}] : rows = seen.rows
    BY <1>4
  <2>3. PICK at \in Nat : at = seen.at
    BY <1>4
  <2>4. MergeRead(source, state, rows, at) \in Source
    BY MergedSource
  <2>5. MergeRead(source, state, rows, at).attempt = at
    BY MergedSource
  <2>6. MergeRead(source, state, rows, at).complete =
          IF state = "Failed" THEN source.complete ELSE at
    BY MergedSource
  <2>7. \A key \in Keys : MergeRead(source, state, rows, at).entries[key] # Nothing =>
          \/ /\ rows[key] # Nothing /\ MergeRead(source, state, rows, at).entries[key].at = at
             /\ MergeRead(source, state, rows, at).entries[key].row = rows[key]
          \/ /\ state = "Failed" /\ source.entries[key] # Nothing
             /\ MergeRead(source, state, rows, at).entries[key].at = source.entries[key].at
             /\ MergeRead(source, state, rows, at).entries[key].row = source.entries[key].row
    BY MergedSource
  <2>8. \A key \in Keys : MergeRead(source, state, rows, at).entries[key] = Nothing =>
          state # "Failed" \/ source.entries[key] = Nothing
    BY MergedSource
  <2>9. merged = MergeRead(source, state, rows, at)
    BY <2>1, <2>2, <2>3
  <2> HIDE DEF merged
  <2> QED BY <2>1, <2>2, <2>3, <2>4, <2>5, <2>6, <2>7, <2>8, <2>9
<1>6. merged = listedSource'
  BY <1>0, <1>2, <1>3
<1> HIDE DEF merged
<1>7. PageKept'
  BY <1>1, <1>5, <1>6, UnreadTyped, SourceKept DEF PageKept, PageTypeOK, observationVars
<1>8. InPast(source) /\ NoNewer(shownSource, source) /\ InPast(shownSource)
  BY <1>2 DEF StampsInOrder
<1>9. InPast(listedSource)'
  <2>1. InPast(merged)
    BY <1>4, <1>5, <1>8 DEF InPast
  <2> QED BY <1>1, <1>6, <2>1 DEF InPast
<1>10. NoNewer(shownSource, listedSource)'
  <2>1. \A key \in Keys : shownSource.entries[key] # Nothing =>
           shownSource.entries[key].at <= source.attempt
    BY <1>2, <1>4, <1>8 DEF InPast, NoNewer, StampsInOrder
  <2>2. NoNewer(shownSource, merged)
    <3>1. shownSource.complete <= merged.complete /\ source.complete <= merged.complete
      BY <1>4, <1>5, <1>8 DEF NoNewer, InPast
    <3>2. ASSUME NEW key \in Keys, shownSource.entries[key] # Nothing
          PROVE  \/ /\ merged.entries[key] # Nothing
                    /\ shownSource.entries[key].at <= merged.entries[key].at
                 \/ merged.complete > shownSource.entries[key].at
      <4>1. \/ /\ source.entries[key] # Nothing
               /\ shownSource.entries[key].at <= source.entries[key].at
            \/ source.complete > shownSource.entries[key].at
        BY <1>8, <3>2 DEF NoNewer
      <4> QED BY <1>4, <1>5, <2>1, <3>1, <3>2, <4>1
    <3> QED BY <3>1, <3>2 DEF NoNewer
  <2> QED BY <1>1, <1>6, <2>2 DEF NoNewer
<1>11. StampsInOrder'
  BY <1>1, <1>8, <1>9, <1>10, UnreadTyped DEF StampsInOrder, InPast
<1> QED BY <1>1, <1>2, <1>3, <1>5, <1>6, <1>7, <1>11, UnreadTyped

LEMMA CycleKept ==
    ASSUME clock \in Nat, PageKept, StampsInOrder, SamplerCycle
    PROVE  /\ PageKept' /\ StampsInOrder'
           /\ UNCHANGED <<clock, registration, approval, read, listedSource, changes, evicted_fence,
                          since>>
           /\ shownSource' = Latest
<1>1. /\ shownSource' = Latest /\ refreshAsked' = FALSE
      /\ rereadWanted' = (rereadWanted \/ refreshAsked)
      /\ UNCHANGED <<clock, registration, approval, read, listedSource, pending, changes,
                     evicted_fence, since>>
  BY DEF SamplerCycle, controlVars, windows, reviewVars, observationVars
<1>2. /\ Latest \in Source /\ InPast(Latest) /\ NoNewer(Latest, listedSource)
  BY LatestSource
<1>3. rereadWanted' \in BOOLEAN
  BY <1>1 DEF PageKept, PageTypeOK
<1>4. PageKept'
  BY <1>1, <1>2, <1>3, SourceKept DEF PageKept, PageTypeOK, observationVars
<1>5. InPast(shownSource)' /\ NoNewer(shownSource, listedSource)'
  BY <1>1, <1>2 DEF InPast, NoNewer
<1>6. StampsInOrder'
  BY <1>1, <1>5 DEF StampsInOrder, InPast
<1> QED BY <1>1, <1>4, <1>6

LEMMA CloseKept ==
    ASSUME clock \in Nat, StampsInOrder, CloseStartup
    PROVE  PageKept' /\ StampsInOrder'
<1>1. /\ read' = NotReading /\ listedSource' = Unread /\ rereadWanted' = FALSE
      /\ refreshAsked' = FALSE /\ shownSource' = Unread
      /\ pending' = Nothing /\ changes' = NoEntries /\ evicted_fence' = 0 /\ clock' = clock
  BY DEF CloseStartup, DropController
<1>2. PageKept'
  BY <1>1, UnreadTyped DEF PageKept, PageTypeOK, WellKept
<1>3. InPast(Unread)' /\ NoNewer(Unread, Unread)'
  BY <1>1, UnreadTyped DEF InPast, NoNewer
<1>4. StampsInOrder'
  BY <1>1, <1>3, UnreadTyped DEF StampsInOrder, InPast, NoNewer
<1> QED BY <1>2, <1>4

\* What is put under review is a request.
LEMMA ReviewTyped ==
    ASSUME PageKept, NEW key \in Keys, Review(key)
    PROVE  pending' \in Request
<1>1. shownSource.entries[key] # Nothing
  BY DEF Review, Actionable
<1>2. /\ View(key).row \in Row
      /\ CanUndo(key) => /\ changes[key].receipt.target \in Row
                         /\ changes[key].receipt.before \in Approvals
  BY <1>1, ViewTyped
<1> QED BY <1>2 DEF Review, Request

LEMMA StepKept ==
    ASSUME TypedValid, TypedValid', OneUnderWay, PageKept, StampsInOrder, [PageNext]_startupVars
    PROVE  PageKept' /\ StampsInOrder'
<1> USE DEF controlVars, windows, controller, sourceVars, reviewVars, observationVars
<1>0. /\ clock \in Nat /\ clock' \in Nat /\ TypeOK
      /\ pending \in Request \cup {Nothing} /\ refreshAsked \in BOOLEAN
  BY DEF TypedValid, TypeOK, PageKept, PageTypeOK
<1>1. ASSUME NEW key \in Keys, Review(key) PROVE PageKept' /\ StampsInOrder'
  BY <1>0, <1>1, ReviewTyped, OthersKept DEF Review
<1>2. CASE Confirmed \/ Cancel \/ AskRefresh
  <2>1. /\ clock' = clock /\ UNCHANGED <<sourceVars, shownSource, observationVars>>
        /\ pending' \in Request \cup {Nothing} /\ refreshAsked' \in BOOLEAN
    BY <1>0, <1>2 DEF Confirmed, Cancel, AskRefresh, SubmitChange
  <2> QED BY <1>0, <2>1, OthersKept
<1>3. CASE Frame
  <2>1. UNCHANGED <<clock, read, listedSource, rereadWanted, shownSource, pending>>
    BY <1>3 DEF Frame, TakeAnswer, PollFinished
  <2>2. /\ changes' \in [Keys -> ChangeRecord \cup {Nothing}] /\ refreshAsked' \in BOOLEAN
        /\ evicted_fence' \in Nat /\ evicted_fence' <= clock
        /\ \A key \in Keys :
             Succeeds(NotedIn(key), changes'[key], shownSource.entries[key], evicted_fence')
    BY <1>3, FrameRecords
  <2>3. \A key \in Keys : NotedIn(key) # Nothing => NotedIn(key).fence <= clock
    BY NotedKept
  <2>4. \A key \in Keys : /\ WellKept(changes'[key])
                          /\ changes'[key] # Nothing => changes'[key].fence <= clock
    BY <2>2, <2>3 DEF Succeeds
  <2>5. PageKept'
    BY <2>1, <2>2, <2>4 DEF PageKept, PageTypeOK, WellKept
  <2>6. StampsInOrder'
    BY <2>1, <2>2, <2>4 DEF StampsInOrder, InPast, NoNewer
  <2> QED BY <2>5, <2>6
<1>4. CASE \/ Command \/ OtherProgram \/ TimePasses
           \/ PollEmpty /\ UNCHANGED <<sourceVars, refreshAsked, shownSource, reviewVars, since>>
  <2>1. clock <= clock' /\ UNCHANGED <<sourceVars, refreshAsked, shownSource, reviewVars>>
    BY <1>0, <1>4 DEF Command, OtherProgram, TimePasses, PollEmpty, ClockTicks, Edit, Work,
       ReceiveChange, Disconnect, Apply, Panic, Publish, EndWorker
  <2> QED BY <1>0, <2>1, OthersKept
<1>5. CASE CloseStartup
  BY <1>0, <1>5, CloseKept
<1>6. CASE SourceReadStarts
  BY <1>0, <1>6, ReadStartsKept
<1>7. CASE EnumerateEntry \/ ObserveApproval
  BY <1>0, <1>7, EnumerationKept
<1>8. CASE SourcePublish
  BY <1>0, <1>8, PublishKept
<1>9. CASE SamplerCycle
  BY <1>0, <1>9, CycleKept
<1>10. CASE UNCHANGED startupVars
  BY <1>0, <1>10, OthersKept DEF startupVars
<1>11. CASE PageNext
  BY <1>1, <1>2, <1>3, <1>4, <1>5, <1>6, <1>7, <1>8, <1>9, <1>11 DEF PageNext
<1> QED BY <1>10, <1>11
-----------------------------------------------------------------------------
(* What a row that may be changed shows *)

Alive == ~dropped /\ worker.at # "dead"

\* A change of the entry that was committed, or may have been, is on its way to the
\* page, which does not know of it yet.
Open(key) ==
    \/ /\ worker.job # Nothing /\ worker.job.key = key
       /\ \/ worker.at = "confirm"
          \/ worker.at \in {"publish", "crashed"} /\ worker.result # "unchanged"
    \/ answer # Nothing /\ answer.request.key = key /\ answer.result # "unchanged"

\* A read that began after the moment c shows the registration and the approval since
\* the change, and the registration that it has come to is one of them.
ShownAfter(source, key, c) ==
    source.entries[key] # Nothing /\ source.entries[key].at > c =>
        source.entries[key].row \in since[key]

DataAfter(key, c) ==
    /\ read.rows[key] # Nothing /\ read.at > c => read.rows[key] \in since[key]
    /\ read.seen # Nothing /\ read.seen.key = key /\ read.at > c =>
          read.seen.registration \in Registered(key)
    /\ ShownAfter(listedSource, key, c) /\ ShownAfter(shownSource, key, c)

\* A record that hides what was read until the moment c, and that shows what the
\* entry was since the change; or else the eviction's fence or an inventory is newer.
FencedBy(record, fence, key, c) ==
    IF record # Nothing
    THEN /\ record.fence >= c
         /\ ~record.uncertain => record.receipt.target \in since[key]
    ELSE \/ fence >= c
         \/ shownSource.entries[key] # Nothing /\ shownSource.entries[key].at > c
         \/ shownSource.complete > c

\* The receipt that a success on its way will leave.
Resulting(key, c) ==
    /\ worker.job # Nothing /\ worker.job.key = key =>
          /\ worker.at = "confirm" => ReceiptOf(worker.job).target \in since[key]
          /\ worker.at = "publish" /\ worker.result = "ok" =>
                ReceiptOf(worker.job).target \in since[key] /\ worker.observed_at >= c
    /\ answer # Nothing /\ answer.request.key = key /\ answer.result = "ok" =>
          ReceiptOf(answer.request).target \in since[key] /\ answer.observed_at >= c

\* c is the moment of the last change by Trontop, or an earlier one of which the
\* page may take the rows for granted.
FollowsSince(key, c) ==
    /\ c <= clock /\ DataAfter(key, c)
    /\ IF Open(key) THEN Resulting(key, c)
       ELSE FencedBy(changes[key], evicted_fence, key, c)

\* Every registration since the change, and the present one, may be shown with the
\* present approval.
JoinedNow(key) ==
    \A r \in Registered(key) \cup {registration[key]} :
        [registration |-> r, approval |-> approval[key]] \in since[key]

Follows(key) ==
    /\ JoinedNow(key)
    /\ \E c \in Nat : FollowsSince(key, c)

PageInv ==
    /\ TypedValid /\ Held /\ OneUnderWay /\ PageKept /\ StampsInOrder
    /\ Alive => \A key \in Keys : Follows(key)

\* A moment is a natural number, and so are the stamps.
LEMMA StampsAreNatural ==
    ASSUME TypedValid, PageKept
    PROVE  /\ clock \in Nat /\ read.at \in Nat /\ evicted_fence \in Nat
           /\ shownSource.complete \in Nat /\ listedSource.complete \in Nat
           /\ shownSource.attempt \in Nat /\ listedSource.attempt \in Nat
           /\ \A key \in Keys :
                /\ listedSource.entries[key] # Nothing => listedSource.entries[key].at \in Nat
                /\ shownSource.entries[key] # Nothing => shownSource.entries[key].at \in Nat
                /\ changes[key] # Nothing => changes[key].fence \in Nat
  BY DEF TypedValid, TypeOK, PageKept, PageTypeOK, Source, Entry, Reading, WellKept, ChangeRecord

\* Nothing was read after the present moment.
LEMMA NothingAfterNow ==
    ASSUME TypedValid, PageKept, StampsInOrder, NEW key \in Keys
    PROVE  DataAfter(key, clock)
  BY StampsAreNatural DEF DataAfter, ShownAfter, StampsInOrder, InPast

\* What others make of an entry comes on top, and the data and the fences still hold.
LEMMA DataKept ==
    ASSUME NEW key \in Keys, NEW c \in Nat, DataAfter(key, c),
           since[key] \subseteq since'[key], UNCHANGED <<read, listedSource, shownSource>>
    PROVE  DataAfter(key, c)'
  BY DEF DataAfter, ShownAfter, Registered

LEMMA FenceKept ==
    ASSUME NEW key \in Keys, NEW c \in Nat, FencedBy(changes[key], evicted_fence, key, c),
           since[key] \subseteq since'[key], UNCHANGED <<changes, evicted_fence, shownSource>>
    PROVE  FencedBy(changes[key], evicted_fence, key, c)'
  BY DEF FencedBy

\* A frame keeps the fence of what it noted.
LEMMA SucceedingFence ==
    ASSUME NEW key \in Keys, NEW c \in Nat, NEW record, NEW kept, NEW fence \in Nat,
           NEW newer \in Nat, fence <= newer,
           record # Nothing => record.fence \in Nat,
           shownSource.complete \in Nat,
           shownSource.entries[key] # Nothing => shownSource.entries[key].at \in Nat,
           ShownAfter(shownSource, key, c), FencedBy(record, fence, key, c),
           Succeeds(record, kept, shownSource.entries[key], newer)
    PROVE  FencedBy(kept, newer, key, c)
<1>1. CASE kept # Nothing
  <2>1. /\ record # Nothing /\ kept.fence = record.fence /\ kept.receipt = record.receipt
        /\ record.fence >= c /\ (~record.uncertain => record.receipt.target \in since[key])
        /\ \/ kept.uncertain = record.uncertain
           \/ /\ shownSource.entries[key] # Nothing
              /\ shownSource.entries[key].at > record.fence
              /\ kept.receipt.target = shownSource.entries[key].row
    BY <1>1 DEF Succeeds, FencedBy
  <2>2. ~kept.uncertain => kept.receipt.target \in since[key]
    BY <2>1 DEF ShownAfter
  <2> QED BY <1>1, <2>1, <2>2 DEF FencedBy
<1>2. CASE kept = Nothing /\ record # Nothing
  <2>1. /\ record.fence >= c
        /\ \/ newer >= record.fence
           \/ /\ shownSource.entries[key] # Nothing
              /\ shownSource.entries[key].at > record.fence
           \/ shownSource.complete > record.fence
    BY <1>2 DEF Succeeds, FencedBy
  <2>2. \/ newer >= c
        \/ shownSource.entries[key] # Nothing /\ shownSource.entries[key].at > c
        \/ shownSource.complete > c
    BY <1>2, <2>1
  <2> QED BY <1>2, <2>2 DEF FencedBy
<1>3. CASE kept = Nothing /\ record = Nothing
  BY <1>3 DEF FencedBy
<1> QED BY <1>1, <1>2, <1>3

LEMMA InitFollows ==
    ASSUME PageInit, NEW key \in Keys
    PROVE  Follows(key)
<1>1. /\ clock = 1 /\ answer = Nothing /\ worker.job = Nothing /\ changes = NoEntries
      /\ evicted_fence = 0 /\ read = NotReading /\ listedSource = Unread /\ shownSource = Unread
      /\ since[key] = {Now(key)}
  BY DEF PageInit, ControlInit, Idle
<1>2. DataAfter(key, 0) /\ JoinedNow(key)
  BY <1>1, UnreadTyped DEF DataAfter, ShownAfter, JoinedNow, Registered, Now
<1>3. ~Open(key) /\ FencedBy(changes[key], evicted_fence, key, 0)
  BY <1>1, UnreadTyped DEF Open, FencedBy
<1>4. FollowsSince(key, 0)
  BY <1>1, <1>2, <1>3 DEF FollowsSince
<1> QED BY <1>2, <1>4 DEF Follows

\* A step that leaves what is known of the entry alone.
LEMMA FollowsKept ==
    ASSUME NEW key \in Keys, Follows(key), clock \in Nat, clock' \in Nat, clock <= clock',
           UNCHANGED <<registration, approval, worker, answer, sourceVars, shownSource,
                       observationVars, since>>
    PROVE  Follows(key)'
<1>1. PICK c \in Nat : FollowsSince(key, c)
  BY DEF Follows
<1>2. FollowsSince(key, c)'
  BY <1>1 DEF FollowsSince, DataAfter, ShownAfter, Open, Resulting, FencedBy, sourceVars,
     observationVars, Registered
<1> QED BY <1>1, <1>2 DEF Follows, JoinedNow, Registered

\* A step of the inventory: Open and Resulting are not concerned.
LEMMA SourceFollows ==
    ASSUME TypedValid, PageKept, StampsInOrder, NEW key \in Keys, Follows(key),
           \/ SourceReadStarts \/ EnumerateEntry \/ ObserveApproval \/ SourcePublish
           \/ SamplerCycle
    PROVE  Follows(key)'
<1>0. /\ clock \in Nat /\ TypeOK
      /\ UNCHANGED <<clock, registration, approval, worker, answer, changes, evicted_fence, since>>
  BY StampsAreNatural DEF TypedValid, SourceReadStarts, EnumerateEntry, ObserveApproval,
     SourcePublish, SamplerCycle, controlVars, windows, reviewVars, observationVars
<1>1. PICK c \in Nat : FollowsSince(key, c)
  BY DEF Follows
<1>2. /\ Open(key)' = Open(key) /\ Resulting(key, c)' = Resulting(key, c)
      /\ Registered(key)' = Registered(key) /\ JoinedNow(key)' = JoinedNow(key)
  BY <1>0 DEF Open, Resulting, JoinedNow, Registered
<1>3. DataAfter(key, c) /\ c <= clock
  BY <1>1 DEF FollowsSince
<1>4. SUFFICES /\ DataAfter(key, c)'
               /\ FencedBy(changes[key], evicted_fence, key, c) =>
                     FencedBy(changes[key], evicted_fence, key, c)'
  BY <1>0, <1>1, <1>2 DEF Follows, FollowsSince
<1>5. CASE SourceReadStarts
  <2>1. /\ \A k \in Keys : read'.rows[k] = Nothing
        /\ read'.seen = Nothing /\ UNCHANGED <<listedSource, shownSource>>
    BY <1>5, UnreadTyped DEF SourceReadStarts, NotReading
  <2> QED BY <1>0, <1>3, <2>1 DEF DataAfter, ShownAfter, FencedBy
<1>6. CASE EnumerateEntry \/ ObserveApproval
  <2>1. JoinedNow(key) /\ UNCHANGED <<listedSource, shownSource>>
    BY <1>6 DEF Follows, EnumerateEntry, ObserveApproval
  <2>2. read'.at = read.at
    BY <1>0, <1>6, ReadShows
  \* The registration may be joined with the present approval.
  <2>3. ASSUME read'.rows[key] # Nothing, read'.at > c PROVE read'.rows[key] \in since[key]
    <3>1. CASE read'.rows[key] = read.rows[key]
      BY <1>3, <2>2, <2>3, <3>1 DEF DataAfter
    <3>2. CASE /\ read.seen # Nothing /\ read.seen.key = key
               /\ read'.rows[key] = [registration |-> read.seen.registration,
                                     approval |-> approval[key]]
      <4>1. read.seen.registration \in Registered(key)
        BY <1>3, <2>2, <2>3, <3>2 DEF DataAfter
      <4> QED BY <2>1, <3>2, <4>1 DEF JoinedNow
    <3> QED BY <1>0, <1>6, <2>3, <3>1, <3>2, ReadShows
  \* The registration that the enumeration comes to is the present one.
  <2>4. ASSUME read'.seen # Nothing, read'.seen.key = key
        PROVE  read'.seen.registration \in Registered(key)
    <3>1. read'.seen.registration = registration[key]
      BY <1>0, <1>6, <2>4, ReadShows
    <3>2. [registration |-> registration[key], approval |-> approval[key]] \in since[key]
      BY <2>1 DEF JoinedNow
    <3> QED BY <3>1, <3>2 DEF Registered
  <2>5. DataAfter(key, c)'
    BY <1>0, <1>2, <1>3, <2>1, <2>3, <2>4 DEF DataAfter, ShownAfter
  <2> QED BY <1>0, <2>1, <2>5 DEF FencedBy
<1>7. CASE SourcePublish
  <2>1. /\ read' = NotReading /\ shownSource' = shownSource
        /\ listedSource'.entries[key] # Nothing =>
             \/ /\ read.rows[key] # Nothing
                /\ listedSource'.entries[key].at = read.at
                /\ listedSource'.entries[key].row = read.rows[key]
             \/ /\ listedSource.entries[key] # Nothing
                /\ listedSource'.entries[key].at = listedSource.entries[key].at
                /\ listedSource'.entries[key].row = listedSource.entries[key].row
    BY <1>0, <1>7, PublishKept
  <2>2. ShownAfter(listedSource, key, c)'
    BY <1>0, <1>3, <2>1 DEF DataAfter, ShownAfter
  <2>3. read'.rows[key] = Nothing /\ read'.seen = Nothing
    BY <2>1, UnreadTyped
  <2> QED BY <1>0, <1>3, <2>1, <2>2, <2>3 DEF DataAfter, ShownAfter, FencedBy
<1>8. CASE SamplerCycle
  <2>1. shownSource' = Latest /\ UNCHANGED <<read, listedSource>>
    BY <1>0, <1>8, CycleKept
  <2>2. /\ Latest \in Source /\ Latest.complete = listedSource.complete
        /\ (Latest.entries[key] # Nothing) = (listedSource.entries[key] # Nothing)
        /\ Latest.entries[key] # Nothing =>
              /\ Latest.entries[key].at = listedSource.entries[key].at
              /\ Latest.entries[key].row = listedSource.entries[key].row
    BY <1>0, LatestSource
  <2>3. ShownAfter(shownSource, key, c)'
    BY <1>0, <1>3, <2>1, <2>2 DEF DataAfter, ShownAfter
  <2>4. DataAfter(key, c)'
    BY <1>0, <1>2, <1>3, <2>1, <2>3 DEF DataAfter, ShownAfter
  <2>5. ASSUME FencedBy(changes[key], evicted_fence, key, c)
        PROVE  FencedBy(changes[key], evicted_fence, key, c)'
    <3>1. CASE changes[key] # Nothing
      BY <1>0, <2>5, <3>1 DEF FencedBy
    <3>2. CASE changes[key] = Nothing /\ evicted_fence >= c
      BY <1>0, <3>2 DEF FencedBy
    <3>3. CASE /\ changes[key] = Nothing
               /\ \/ shownSource.entries[key] # Nothing /\ shownSource.entries[key].at > c
                  \/ shownSource.complete > c
      <4>1. NoNewer(shownSource, listedSource)
        BY DEF StampsInOrder
      <4>2. \/ listedSource.entries[key] # Nothing /\ listedSource.entries[key].at > c
            \/ listedSource.complete > c
        BY <3>3, <4>1, StampsAreNatural DEF NoNewer
      <4>3. \/ shownSource'.entries[key] # Nothing /\ shownSource'.entries[key].at > c
            \/ shownSource'.complete > c
        BY <2>1, <2>2, <4>2
      <4> QED BY <1>0, <3>3, <4>3 DEF FencedBy
    <3> QED BY <2>5, <3>1, <3>2, <3>3 DEF FencedBy
  <2> QED BY <2>4, <2>5
<1> QED BY <1>5, <1>6, <1>7, <1>8
\* A frame takes the outcome, and what it notes hides what was read before it.
LEMMA FrameFollows ==
    ASSUME TypedValid, OneUnderWay, PageKept, StampsInOrder, NEW key \in Keys, Follows(key),
           Frame, Alive'
    PROVE  Follows(key)'
<1>0. /\ UNCHANGED <<clock, registration, approval, worker, read, listedSource, shownSource, since>>
      /\ worker.at # "dead" /\ clock \in Nat /\ evicted_fence \in Nat
      /\ answer \in Outcome \cup {Nothing}
  BY StampsAreNatural DEF TypedValid, TypeOK, Frame, TakeAnswer, PollFinished, Alive, controlVars,
     windows, sourceVars
<1>1. PICK c \in Nat : FollowsSince(key, c)
  BY DEF Follows
<1>2. c <= clock /\ DataAfter(key, c) /\ DataAfter(key, c)'
  BY <1>0, <1>1, DataKept DEF FollowsSince
<1>3. SUFFICES IF Open(key)' THEN Resulting(key, c)'
               ELSE FencedBy(changes[key], evicted_fence, key, c)'
  BY <1>0, <1>2 DEF Follows, FollowsSince, JoinedNow, Registered
<1>4. ASSUME FencedBy(NotedIn(key), evicted_fence, key, c)
      PROVE  FencedBy(changes[key], evicted_fence, key, c)'
  <2>1. PICK newer \in Nat : newer = evicted_fence'
    BY FrameRecords
  <2>2. PICK record : record = NotedIn(key)
    OBVIOUS
  <2>3. PICK kept : kept = changes'[key]
    OBVIOUS
  <2>4. /\ evicted_fence <= newer
        /\ Succeeds(record, kept, shownSource.entries[key], newer)
    BY <2>1, <2>2, <2>3, FrameRecords
  <2>5. /\ record # Nothing => record.fence \in Nat
        /\ ShownAfter(shownSource, key, c)
    BY <1>2, <2>2, NotedKept DEF WellKept, ChangeRecord, DataAfter
  <2>6. FencedBy(kept, newer, key, c)
    BY <1>0, <1>4, <2>2, <2>4, <2>5, StampsAreNatural, SucceedingFence
  <2> QED BY <1>0, <2>1, <2>3, <2>6 DEF FencedBy
<1>5. CASE Answered = Nothing
  <2>1. NotedIn(key) = changes[key]
    BY <1>5 DEF NotedIn
  <2>2. answer' = answer
    BY <1>5 DEF Frame, TakeAnswer, PollFinished, Answered, controlVars
  <2>3. Open(key)' = Open(key) /\ Resulting(key, c)' = Resulting(key, c)
    BY <1>0, <2>2 DEF Open, Resulting
  <2> QED BY <1>1, <1>4, <2>1, <2>3 DEF FollowsSince
<1>6. CASE Answered # Nothing
  <2>1. ~checking /\ answer # Nothing /\ Answered = answer /\ answer' = Nothing
    BY <1>0, <1>6 DEF Frame, TakeAnswer, PollFinished, Answered, Lost
  <2>2. worker.job = Nothing
    BY <1>0, <2>1 DEF OneUnderWay
  <2>3. ~Open(key)'
    BY <1>0, <2>1, <2>2 DEF Open
  <2>4. FencedBy(NotedIn(key), evicted_fence, key, c)
    <3>1. CASE answer.request.key # key
      <4>1. NotedIn(key) = changes[key]
        BY <2>1, <3>1 DEF NotedIn
      <4>2. ~Open(key)
        BY <2>2, <3>1 DEF Open
      <4> QED BY <1>1, <4>1, <4>2 DEF FollowsSince
    <3>2. CASE answer.request.key = key
      <4>1. PICK outcome \in Outcome : outcome = answer
        BY <1>0, <2>1
      <4>2. NotedIn(key) = Noted(outcome)
        BY <2>1, <3>2, <4>1 DEF NotedIn
      <4>3. outcome.result \in {"ok", "unchanged", "uncertain"} /\ Valid(outcome.request)
        BY <2>1, <4>1 DEF Outcome, Results, OneUnderWay
      <4>4. WellKept(changes[outcome.request.key])
        BY <3>2, <4>1 DEF PageKept
      <4>5. CASE outcome.result = "ok"
        <5>1. /\ Noted(outcome) # Nothing /\ Noted(outcome).fence = outcome.observed_at
              /\ Noted(outcome).receipt = ReceiptOf(outcome.request)
          BY <1>0, <4>3, <4>4, <4>5, NotedTyped
        <5>2. /\ ReceiptOf(answer.request).target \in since[key]
              /\ answer.observed_at >= c
          BY <1>1, <2>1, <3>2, <4>1, <4>5 DEF FollowsSince, Open, Resulting
        <5> QED BY <4>1, <4>2, <5>1, <5>2 DEF FencedBy
      <4>6. CASE outcome.result = "uncertain"
        <5>1. /\ Noted(outcome) # Nothing /\ Noted(outcome).fence = clock
              /\ Noted(outcome).uncertain
          BY <1>0, <4>3, <4>4, <4>6, NotedTyped
        <5> QED BY <1>0, <1>2, <4>2, <5>1 DEF FencedBy
      <4>7. CASE outcome.result = "unchanged"
        <5>1. Noted(outcome) = changes[key]
          BY <1>0, <3>2, <4>1, <4>3, <4>4, <4>7, NotedTyped
        <5>2. ~Open(key)
          BY <2>2, <4>1, <4>7 DEF Open
        <5> QED BY <1>1, <4>2, <5>1, <5>2 DEF FollowsSince
      <4> QED BY <4>3, <4>5, <4>6, <4>7
    <3> QED BY <3>1, <3>2
  <2> QED BY <1>4, <2>3, <2>4
<1> QED BY <1>5, <1>6

\* What others make of an entry is what it is.
LEMMA OthersFollow ==
    ASSUME TypedValid, NEW key \in Keys, Follows(key), OtherProgram
    PROVE  Follows(key)'
<1>0. /\ UNCHANGED <<clock, worker, answer, read, listedSource, shownSource, changes, evicted_fence>>
      /\ since' = [k \in Keys |-> since[k] \cup
                      {[registration |-> r, approval |-> approval'[k]] :
                          r \in Registered(k) \cup {registration'[k]}}]
  BY DEF OtherProgram, Edit, sourceVars, reviewVars, observationVars
<1>1. PICK c \in Nat : FollowsSince(key, c)
  BY DEF Follows
<1>2. since[key] \subseteq since'[key] /\ JoinedNow(key)'
  <2> DEFINE joined == {[registration |-> r, approval |-> approval'[key]] :
                           r \in Registered(key) \cup {registration'[key]}}
  <2>1. since'[key] = since[key] \cup joined
    BY <1>0
  <2>2. \A row \in since'[key] : row.registration \in Registered(key) \cup {registration'[key]}
    BY <2>1 DEF Registered
  <2>3. Registered(key)' \subseteq Registered(key) \cup {registration'[key]}
    BY <2>2 DEF Registered
  <2> QED BY <2>1, <2>3 DEF JoinedNow
<1>3. DataAfter(key, c)'
  BY <1>0, <1>1, <1>2, DataKept DEF FollowsSince
<1>4. Open(key)' = Open(key) /\ (Resulting(key, c) => Resulting(key, c)')
  BY <1>0, <1>2 DEF Open, Resulting
<1>5. ~Open(key) => FencedBy(changes[key], evicted_fence, key, c)'
  BY <1>0, <1>1, <1>2, FenceKept DEF FollowsSince
<1>6. FollowsSince(key, c)'
  BY <1>0, <1>1, <1>3, <1>4, <1>5 DEF FollowsSince
<1> QED BY <1>1, <1>2, <1>6 DEF Follows

\* What Trontop commits is the outcome on its way; a step that commits nothing opens
\* nothing.
LEMMA CommandFollows ==
    ASSUME TypedValid, Held, OneUnderWay, PageKept, PageKept', StampsInOrder, StampsInOrder',
           TypedValid', NEW key \in Keys, Follows(key), Command, Alive'
    PROVE  Follows(key)'
<1> USE DEF controller
<1>0. /\ UNCHANGED <<clock, registration, read, listedSource, shownSource, changes, evicted_fence>>
      /\ since' = [k \in Keys |-> IF approval'[k] # approval[k] THEN {Now(k)'} ELSE since[k]]
      /\ clock \in Nat /\ worker'.at # "dead" /\ worker.at # "dead" /\ worker \in Worker
      /\ worker.job = Nothing <=> worker.at \in {"idle", "ending", "dead"}
  <2>1. UNCHANGED <<clock, registration>>
    BY DEF Command, Work, ReceiveChange, Disconnect, Apply, Panic, Publish, EndWorker, windows
  <2>2. worker.at # "dead"
    BY DEF Command, Work, ReceiveChange, Disconnect, Apply, Panic, Publish, EndWorker, At, Verify,
       Stage, Recheck, ReadApproval, WriteApproval, ReadBack, Commit, ConfirmApproval, TypedValid,
       TypeOK
  <2> QED BY <2>1, <2>2 DEF Command, Alive, TypedValid, TypeOK, sourceVars, reviewVars,
             observationVars
<1>1. PICK c \in Nat : FollowsSince(key, c)
  BY DEF Follows
<1>2. c <= clock /\ DataAfter(key, c)
  BY <1>1 DEF FollowsSince
<1>3. worker.job # Nothing => answer = Nothing /\ worker.job \in Request
  BY <1>0 DEF OneUnderWay, Worker
\* While the entry is as it was, only the outcome's way is to be followed.
<1>4. ASSUME approval'[key] = approval[key]
      PROVE  /\ since'[key] = since[key] /\ Now(key)' = Now(key)
             /\ JoinedNow(key)' /\ Now(key) \in since[key]
             /\ DataAfter(key, c)'
             /\ FencedBy(changes[key], evicted_fence, key, c) =>
                   FencedBy(changes[key], evicted_fence, key, c)'
             /\ (IF Open(key)' THEN Resulting(key, c)'
                 ELSE FencedBy(changes[key], evicted_fence, key, c)') => Follows(key)'
  <2>1. /\ since'[key] = since[key] /\ Now(key)' = Now(key)
        /\ JoinedNow(key)' /\ Now(key) \in since[key]
    BY <1>0, <1>4 DEF Now, Follows, JoinedNow, Registered
  <2>2. DataAfter(key, c)'
    BY <1>0, <1>2, <2>1, DataKept
  <2>3. FencedBy(changes[key], evicted_fence, key, c) =>
           FencedBy(changes[key], evicted_fence, key, c)'
    BY <1>0, <2>1, FenceKept
  <2>4. ASSUME IF Open(key)' THEN Resulting(key, c)'
               ELSE FencedBy(changes[key], evicted_fence, key, c)'
        PROVE  Follows(key)'
    BY <1>0, <1>1, <1>2, <2>1, <2>2, <2>4 DEF Follows, FollowsSince
  <2> QED BY <2>1, <2>2, <2>3, <2>4
<1>5. CASE ReceiveChange
  <2>1. /\ worker.job = Nothing /\ worker'.at = "verify" /\ UNCHANGED <<approval, answer>>
    BY <1>0, <1>5 DEF ReceiveChange, At, Idle, windows
  <2>2. Open(key)' = Open(key) /\ (Open(key) /\ Resulting(key, c) => Resulting(key, c)')
    BY <1>0, <1>4, <2>1 DEF Open, Resulting
  <2> QED BY <1>1, <1>4, <2>1, <2>2 DEF FollowsSince
<1>6. CASE Disconnect \/ EndWorker
  <2>1. worker'.at = "dead"
    BY <1>0, <1>6 DEF Disconnect, EndWorker, Goto, Worker
  <2> QED BY <1>0, <2>1
<1>7. CASE Panic
  <2>1. /\ worker.job # Nothing /\ worker'.job = worker.job /\ worker'.at = "crashed"
        /\ worker'.result = "uncertain" /\ UNCHANGED <<approval, answer>>
        /\ worker.at \notin {"publish", "crashed"}
    BY <1>0, <1>7 DEF Panic, Worker, windows
  <2>2. CASE worker.job.key = key
    <3>1. Open(key)' /\ Resulting(key, c)'
      BY <1>3, <2>1, <2>2 DEF Open, Resulting
    <3> QED BY <1>4, <2>1, <3>1
  <2>3. CASE worker.job.key # key
    <3>1. ~Open(key) /\ ~Open(key)'
      BY <1>3, <2>1, <2>3 DEF Open
    <3> QED BY <1>1, <1>4, <2>1, <3>1 DEF FollowsSince
  <2> QED BY <2>2, <2>3
<1>8. CASE Publish
  <2>1. /\ worker.job # Nothing /\ worker'.job = Nothing /\ approval' = approval
        /\ worker.at \in {"publish", "crashed"}
        /\ answer'.request = worker.job /\ answer'.result = worker.result
        /\ answer'.observed_at = worker.observed_at
    BY <1>0, <1>8 DEF Publish, At, Idle, windows
  <2>2. answer' # Nothing
    <3>1. answer' \in Outcome
      BY <1>0, <1>3, <1>8, <2>1 DEF Publish, Outcome, Worker
    <3> QED BY <3>1, NothingApart
  <2>3. Open(key)' = Open(key)
    BY <1>3, <2>1, <2>2 DEF Open
  <2>4. Open(key) /\ Resulting(key, c) => Resulting(key, c)'
    BY <1>3, <1>4, <2>1 DEF Open, Resulting, OneUnderWay
  <2> QED BY <1>1, <1>4, <2>1, <2>3, <2>4 DEF FollowsSince
<1>9. CASE Apply
  <2>1. /\ worker.job # Nothing /\ worker.job \in Request /\ answer = Nothing /\ answer' = Nothing
    BY <1>0, <1>3, <1>9 DEF Apply, Verify, Stage, Recheck, ReadApproval, WriteApproval, ReadBack,
       Commit, ConfirmApproval, At
  <2>2. CASE /\ Verify \/ Stage \/ Recheck \/ ReadApproval \/ WriteApproval \/ ReadBack
             /\ approval' = approval
    <3>1. /\ worker.at \notin {"confirm", "publish", "crashed"} /\ worker'.job = worker.job
          /\ \/ worker'.at \notin {"confirm", "publish", "crashed"}
             \/ worker'.at = "publish" /\ worker'.result = "unchanged"
      BY <1>0, <2>2 DEF Verify, Stage, Recheck, ReadApproval, WriteApproval, ReadBack, At, Goto,
         Fail, Worker
    <3>2. ~Open(key) /\ ~Open(key)'
      BY <2>1, <3>1 DEF Open
    <3> QED BY <1>1, <1>4, <2>2, <3>2 DEF FollowsSince
  <2>3. CASE ConfirmApproval /\ approval' = approval
    <3>1. /\ worker.at = "confirm" /\ worker'.job = worker.job /\ worker'.at = "publish"
          /\ \/ worker'.result = "uncertain"
             \/ worker'.result = "ok" /\ worker'.observed_at = clock
      BY <1>0, <2>3 DEF ConfirmApproval, At, Fail, Worker
    <3>2. CASE worker.job.key = key
      <4>1. Open(key) /\ Open(key)'
        BY <2>1, <3>1, <3>2 DEF Open
      <4>2. Resulting(key, c)'
        BY <1>1, <1>2, <1>4, <2>1, <2>3, <3>1, <3>2, <4>1 DEF FollowsSince, Resulting
      <4> QED BY <1>4, <2>3, <4>1, <4>2
    <3>3. CASE worker.job.key # key
      <4>1. ~Open(key) /\ ~Open(key)'
        BY <2>1, <3>1, <3>3 DEF Open
      <4> QED BY <1>1, <1>4, <2>3, <4>1 DEF FollowsSince
    <3> QED BY <3>2, <3>3
  <2>4. CASE Commit
    <3>1. /\ worker.at = "commit" /\ worker'.job = worker.job
          /\ \/ /\ worker'.at = "publish" /\ worker'.result = "unchanged" /\ approval' = approval
             \/ /\ worker'.at = "confirm" /\ ~guard.doomed /\ approval' = Written
             \/ /\ worker'.at = "publish" /\ worker'.result = "uncertain"
                /\ approval' = approval \/ (~guard.doomed /\ approval' = Written)
      BY <1>0, <2>4 DEF Commit, At, Goto, Fail, Worker
    <3>2. CASE worker.job.key # key
      <4>1. approval'[key] = approval[key]
        BY <3>1, <3>2 DEF Written, TypedValid, TypeOK
      <4>2. ~Open(key) /\ ~Open(key)'
        BY <2>1, <3>1, <3>2 DEF Open
      <4> QED BY <1>1, <1>4, <4>1, <4>2 DEF FollowsSince
    <3>3. CASE worker.job.key = key
      <4>1. ~Open(key)
        BY <2>1, <3>1 DEF Open
      \* The reviewed registration carries the approval that was verified.
      <4>2. ASSUME ~guard.doomed, approval' = Written
            PROVE  ReceiptOf(worker.job).target = Now(key)' /\ registration[key] # Nothing
        <5>1. /\ registration[key] = worker.job.target.registration
              /\ worker.job.target.registration \in Registrations
          BY <2>1, <3>1, <3>3, <4>2 DEF Held, AsRegistered, Request, Row
        <5>2. approval'[key] = After(worker.job)
          BY <3>3, <4>2 DEF Written, TypedValid, TypeOK
        <5>3. Valid(worker.job)
          BY <2>1 DEF TypedValid, Validated
        <5>4. ReceiptOf(worker.job).target =
                 [registration |-> worker.job.target.registration, approval |-> After(worker.job)]
          BY <2>1, <5>3, ReceiptTyped
        <5> QED BY <1>0, <5>1, <5>2, <5>4, StartupControlAssumption DEF Now
      <4>3. ASSUME approval'[key] # approval[key]
            PROVE  Follows(key)'
        <5>0. ReceiptOf(worker.job).target = Now(key)'
          BY <3>1, <4>2, <4>3
        <5>1. worker'.at = "confirm" \/ (worker'.at = "publish" /\ worker'.result = "uncertain")
          BY <3>1, <4>3
        <5>2. since'[key] = {Now(key)'}
          BY <1>0, <4>3
        <5>3. Open(key)'
          BY <2>1, <3>1, <3>3, <5>1 DEF Open
        <5>4. Resulting(key, clock)'
          <6>1. ReceiptOf(worker'.job).target \in since'[key]
            BY <3>1, <5>0, <5>2
          <6> QED BY <2>1, <3>1, <5>1, <6>1 DEF Resulting
        <5>5. DataAfter(key, clock)'
          BY NothingAfterNow, PTL
        <5>6. PICK moment \in Nat : moment = clock /\ moment = clock'
          BY <1>0
        <5>7. FollowsSince(key, moment)'
          BY <1>0, <5>3, <5>4, <5>5, <5>6 DEF FollowsSince
        <5>8. JoinedNow(key)'
          <6>1. Registered(key)' = {registration'[key]}
            BY <5>2 DEF Registered, Now
          <6> QED BY <5>2, <6>1 DEF JoinedNow, Now
        <5> QED BY <5>6, <5>7, <5>8 DEF Follows
      <4>4. ASSUME approval'[key] = approval[key]
            PROVE  Follows(key)'
        <5>1. CASE worker'.at = "publish" /\ worker'.result = "unchanged"
          <6>1. ~Open(key)'
            BY <2>1, <5>1 DEF Open
          <6> QED BY <1>1, <1>4, <4>1, <4>4, <6>1 DEF FollowsSince
        <5>2. CASE worker'.at = "publish" /\ worker'.result = "uncertain"
          <6>1. Open(key)' /\ Resulting(key, c)'
            BY <2>1, <3>1, <3>3, <5>2 DEF Open, Resulting
          <6> QED BY <1>4, <4>4, <6>1
        <5>3. CASE worker'.at = "confirm"
          <6>1. ReceiptOf(worker.job).target = Now(key) /\ Now(key) \in since'[key]
            BY <1>4, <3>1, <4>2, <4>4, <5>3
          <6>2. Open(key)' /\ Resulting(key, c)'
            BY <2>1, <3>1, <3>3, <5>3, <6>1 DEF Open, Resulting
          <6> QED BY <1>4, <4>4, <6>2
        <5> QED BY <3>1, <5>1, <5>2, <5>3
      <4> QED BY <4>3, <4>4
    <3> QED BY <3>2, <3>3
  <2> QED BY <1>9, <2>2, <2>3, <2>4 DEF Apply
<1> QED BY <1>5, <1>6, <1>7, <1>8, <1>9 DEF Command, Work
LEMMA StepFollows ==
    ASSUME PageInv, TypedValid', PageKept', StampsInOrder', [PageNext]_startupVars, Alive'
    PROVE  \A key \in Keys : Follows(key)'
<1>0. /\ clock \in Nat /\ clock' \in Nat
      /\ TypedValid /\ Held /\ OneUnderWay /\ PageKept /\ StampsInOrder
  BY DEF PageInv, TypedValid, TypeOK
<1>1. Alive
  <2>1. CASE UNCHANGED <<dropped, worker>>
    BY <2>1 DEF Alive
  <2>2. CASE Work
    BY <2>2 DEF Alive, Work, ReceiveChange, Disconnect, Apply, Panic, Publish, EndWorker, At,
       Verify, Stage, Recheck, ReadApproval, WriteApproval, ReadBack, Commit, ConfirmApproval,
       controller
  <2>3. CASE CloseStartup
    BY <2>3 DEF CloseStartup, DropController, Alive
  <2> QED BY <2>1, <2>2, <2>3 DEF PageNext, Review, Confirmed, SubmitChange, Cancel, Frame, TakeAnswer,
             PollFinished, AskRefresh, Command, OtherProgram, Edit, TimePasses, ClockTicks,
             PollEmpty, SourceReadStarts, EnumerateEntry, ObserveApproval, SourcePublish, SamplerCycle,
             startupVars,
             controlVars, controller
<1> TAKE key \in Keys
<1>2. Follows(key)
  BY <1>1 DEF PageInv
<1>3. CASE \/ SourceReadStarts \/ EnumerateEntry \/ ObserveApproval \/ SourcePublish
           \/ SamplerCycle
  BY <1>0, <1>2, <1>3, SourceFollows
<1>4. CASE Frame
  BY <1>0, <1>2, <1>4, FrameFollows
<1>5. CASE OtherProgram
  BY <1>0, <1>2, <1>5, OthersFollow
<1>6. CASE Command
  BY <1>0, <1>2, <1>6, CommandFollows
<1>7. CASE CloseStartup
  BY <1>7 DEF CloseStartup, DropController, Alive
<1>8. CASE \/ \E other \in Keys : Review(other)
           \/ Confirmed \/ Cancel \/ AskRefresh \/ TimePasses
           \/ PollEmpty /\ UNCHANGED <<sourceVars, refreshAsked, shownSource, reviewVars, since>>
           \/ UNCHANGED startupVars
  <2>1. /\ clock <= clock'
        /\ UNCHANGED <<registration, approval, worker, answer, sourceVars, shownSource,
                       observationVars, since>>
    BY <1>0, <1>8 DEF Review, Confirmed, SubmitChange, Cancel, AskRefresh, TimePasses, ClockTicks,
       PollEmpty, startupVars, controlVars, windows, reviewVars
  <2> QED BY <1>0, <1>2, <2>1, FollowsKept
<1> QED BY <1>3, <1>4, <1>5, <1>6, <1>7, <1>8 DEF PageNext

LEMMA StepInv == PageInv /\ [PageNext]_startupVars => PageInv'
<1> SUFFICES ASSUME PageInv, [PageNext]_startupVars PROVE PageInv'
  OBVIOUS
<1>1. TypedValid /\ Held /\ OneUnderWay /\ PageKept /\ StampsInOrder
  BY DEF PageInv
<1>2. [ControlNext]_controlVars
  BY <1>1, PageStepsControl DEF PageKept, PageTypeOK
<1>3. TypedValid' /\ Held' /\ OneUnderWay'
  BY <1>1, <1>2, StepTyped, StepHeld, StepUnderWay
<1>4. PageKept' /\ StampsInOrder'
  BY <1>1, <1>3, StepKept
<1>5. Alive' => \A key \in Keys : Follows(key)'
  BY <1>3, <1>4, StepFollows
<1> QED BY <1>3, <1>4, <1>5 DEF PageInv

LEMMA PageInvariant == PageSpec => []PageInv
<1>1. PageInit => PageInv
  BY InitTyped, InitHeld, InitUnderWay, InitKept, InitFollows DEF PageInit, PageInv
<1> QED BY <1>1, StepInv, PTL DEF PageSpec

LEMMA FreshRows == PageInv => FreshSinceLastChange
<1> SUFFICES ASSUME PageInv, NEW key \in Keys, Ready, ~checking, Actionable(key)
             PROVE  View(key).row \in since[key]
  BY DEF FreshSinceLastChange
<1> DEFINE entry  == shownSource.entries[key]
           record == changes[key]
<1>1. TypedValid /\ OneUnderWay /\ PageKept /\ StampsInOrder /\ Follows(key)
  BY DEF PageInv, Ready, Alive
<1>2. ~Open(key)
  BY <1>1 DEF Ready, OneUnderWay, Open
<1>3. PICK c \in Nat : FollowsSince(key, c)
  BY <1>1 DEF Follows
<1>4. ShownAfter(shownSource, key, c) /\ FencedBy(record, evicted_fence, key, c)
  BY <1>2, <1>3 DEF FollowsSince, DataAfter
<1>5. /\ entry # Nothing /\ View(key).fresh /\ entry.at \in Nat /\ evicted_fence \in Nat
      /\ shownSource.complete \in Nat /\ (record # Nothing => record.fence \in Nat)
      /\ 0 < entry.at /\ shownSource.complete <= entry.at
  BY <1>1, StampsAreNatural DEF Actionable, StampsInOrder, InPast
<1>6. CASE Overlaid(key)
  <2>1. /\ ~record.uncertain /\ View(key).row = record.receipt.target
        /\ record # Nothing
    BY <1>5, <1>6 DEF View, Overlaid
  <2> QED BY <1>4, <2>1 DEF FencedBy
<1>7. CASE ~Overlaid(key)
  <2>1. /\ View(key).row = entry.row /\ (evicted_fence = 0 \/ entry.at > evicted_fence)
        /\ record # Nothing => entry.at > record.fence
    BY <1>5, <1>7 DEF View, Overlaid
  <2>2. entry.at > c
    BY <1>4, <1>5, <2>1 DEF FencedBy
  <2> QED BY <1>4, <1>5, <2>1, <2>2 DEF ShownAfter
<1> QED BY <1>6, <1>7

\* A row that may be changed shows a registration that the entry has had since Trontop
\* last changed it and an approval that it had then or later, whatever became of the
\* outcome, the record, the eviction and the reads that were under way, and however
\* other programs edit the entry between the two calls that read it.
THEOREM ShowsSinceLastChange == PageSpec => []PageFollowsChanges
<1>1. PageInv => PageFollowsChanges
  BY FreshRows DEF PageInv, TypedValid, PageKept, PageFollowsChanges
<1> QED BY <1>1, PageInvariant, PTL

\* "Failed enumeration cannot prove an entry was removed": only a complete read that
\* began after an entry was seen takes it off the page.
THEOREM RemovedOnlyWhenRead == PageSpec => DisappearsOnlyWhenRead
<1>1. ASSUME PageInv, [PageNext]_startupVars, NEW key \in Keys,
             shownSource.entries[key] # Nothing, shownSource'.entries[key] = Nothing, ~dropped'
      PROVE  shownSource'.complete > shownSource.entries[key].at
  <2>1. CASE SamplerCycle
    <3>1. PageKept /\ clock \in Nat /\ StampsInOrder
      BY <1>1 DEF PageInv, TypedValid, TypeOK
    <3>2. /\ shownSource' = Latest /\ Latest.complete = listedSource.complete
          /\ (Latest.entries[key] # Nothing) = (listedSource.entries[key] # Nothing)
      BY <2>1, <3>1, LatestSource DEF SamplerCycle
    <3> QED BY <1>1, <3>1, <3>2 DEF StampsInOrder, NoNewer
  <2>2. CASE CloseStartup
    BY <1>1, <2>2 DEF CloseStartup, DropController
  <2>3. CASE shownSource' = shownSource
    BY <1>1, <2>3
  <2> QED BY <1>1, <2>1, <2>2, <2>3 DEF PageNext, Review, Confirmed, Cancel, Frame, AskRefresh, Command,
             OtherProgram, TimePasses, SourceReadStarts, EnumerateEntry, ObserveApproval,
             SourcePublish, startupVars
<1>2. PageInv /\ [PageNext]_startupVars =>
        [\A key \in Keys :
           shownSource.entries[key] # Nothing /\ shownSource'.entries[key] = Nothing /\ ~dropped' =>
              shownSource'.complete > shownSource.entries[key].at]_startupVars
  BY <1>1
<1> QED BY <1>2, PageInvariant, PTL DEF PageSpec, DisappearsOnlyWhenRead

-----------------------------------------------------------------------------
(* Both pages: a behaviour runs one of them, and the other rests. *)

\* What is proved of each page alone holds of the two side by side.
THEOREM PagesKeepTheirSpecs == PagesSpec => ViewSpec /\ PageSpec
<1>1. PagesInit => ViewInit /\ PageInit
  BY DEF PagesInit
<1>2. [PagesNext]_pagesVars => [ViewNext]_allVars /\ [PageNext]_startupVars
  BY DEF pagesVars, PagesNext, Only
<1> QED  BY <1>1, <1>2, PTL DEF PagesSpec, ViewSpec, PageSpec
=============================================================================

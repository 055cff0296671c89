----------------------------- MODULE SpecsWorkers -----------------------------
(***************************************************************************)
(* The specification workers (specs/worker.rs) and the pages that use them *)
(* (app/system.rs poll_specs, prepare_page): a worker thread for a section *)
(* and the sensor bridge's, started by the first visit of a page that      *)
(* needs them. One section stands for all: they share nothing.             *)
(***************************************************************************)
EXTENDS Naturals

CONSTANTS MaxReads,     \* bound: reads of the section
          MaxPolls      \* bound: polls of the bridge

VARIABLES
  page,          \* the page shown: "system", "overview" or "other"
  pageAt,        \* where poll_specs of this frame is
  monitor,       \* "unstarted", "running", "dropped"
  sectionAt,     \* where the section worker is
  sectionAsked,  \* its sync_channel(1) holds a request
  reads,         \* the read under way, or the last one
  slot,          \* shared Slot: the section's read, health, collecting
  shown,         \* what the page shows of it
  liveAt, liveWait, liveAsked, liveReads,
  liveActive,    \* the AtomicBool
  wanted         \* history: the first read a refresh may be answered by

sectionVars == <<sectionAt, sectionAsked, reads, slot>>
liveVars    == <<liveAt, liveWait, liveAsked, liveReads>>
specsVars   == <<page, pageAt, monitor, sectionVars, shown, liveVars, liveActive, wanted>>

NoSection == [section |-> 0, state |-> "Waiting", collecting |-> FALSE]
Started == monitor = "running"
-----------------------------------------------------------------------------
(* spawn_section: each step of its loop; the stop flag is looked at before *)
(* a read and after it.                                                    *)

SectionGoes(from, to) == sectionAt = from /\ sectionAt' = to

MarkCollecting ==
  /\ monitor # "unstarted" /\ reads < MaxReads
  /\ SectionGoes("loop", IF monitor = "dropped" THEN "ended" ELSE "read")
  /\ IF monitor = "dropped" THEN UNCHANGED <<reads, slot>>
     ELSE /\ reads' = reads + 1
          /\ slot' = [slot EXCEPT !.collecting = TRUE,
                        !.state = IF slot.section = 0 THEN "Collecting" ELSE @]
  /\ UNCHANGED <<page, pageAt, monitor, sectionAsked, shown, liveVars, liveActive, wanted>>

(* The provider returns; Section::completeness.                            *)
PublishSection ==
  /\ SectionGoes("read", IF monitor = "dropped" THEN "ended" ELSE "wait")
  /\ IF monitor = "dropped" THEN UNCHANGED slot
     ELSE \E state \in {"Complete", "Partial", "Unavailable"} :
            slot' = [section |-> reads, state |-> state, collecting |-> FALSE]
  /\ UNCHANGED <<page, pageAt, monitor, sectionAsked, reads, shown, liveVars, liveActive, wanted>>

(* A panic of the provider: its thread is finished, no lock is poisoned.   *)
SectionPanics ==
  /\ SectionGoes("read", "ended")
  /\ UNCHANGED <<page, pageAt, monitor, sectionAsked, reads, slot, shown, liveVars, liveActive, wanted>>

(* What was asked during the read is forgotten before the wait.            *)
WaitDrained ==
  /\ SectionGoes("wait", "waiting") /\ sectionAsked' = FALSE
  /\ UNCHANGED <<page, pageAt, monitor, reads, slot, shown, liveVars, liveActive, wanted>>

(* recv_timeout(CADENCE) begins. *)
SectionWaits ==
  /\ SectionGoes("wait", "waiting")
  /\ UNCHANGED <<page, pageAt, monitor, sectionAsked, reads, slot, shown, liveVars, liveActive, wanted>>

(* A request, or the end of the channel, ends the wait at once.            *)
SectionWoken ==
  /\ SectionGoes("waiting", IF sectionAsked \/ Started THEN "loop" ELSE "ended")
  /\ sectionAsked \/ monitor = "dropped"
  /\ sectionAsked' = FALSE
  /\ UNCHANGED <<page, pageAt, monitor, reads, slot, shown, liveVars, liveActive, wanted>>

CadenceElapses ==
  /\ SectionGoes("waiting", "loop") /\ Started /\ ~sectionAsked
  /\ UNCHANGED <<page, pageAt, monitor, sectionAsked, reads, slot, shown, liveVars, liveActive, wanted>>
-----------------------------------------------------------------------------
(* spawn_live: the wait is chosen by what live_active held after the poll; *)
(* the bridge's own hint is clamped to at most a minute.                   *)

LiveGoes(from, to) == liveAt = from /\ liveAt' = to

PollBridge ==
  /\ monitor # "unstarted" /\ liveReads < MaxPolls
  /\ LiveGoes("loop", IF monitor = "dropped" THEN "ended" ELSE "chosen")
  /\ IF monitor = "dropped" THEN UNCHANGED <<liveReads, liveWait>>
     ELSE liveReads' = liveReads + 1 /\ liveWait' = IF liveActive THEN "short" ELSE "idle"
  /\ UNCHANGED <<page, pageAt, monitor, sectionVars, shown, liveAsked, liveActive, wanted>>

PublishBridge ==
  /\ LiveGoes("chosen", "waiting")
  /\ UNCHANGED <<page, pageAt, monitor, sectionVars, shown, liveWait, liveAsked, liveReads, liveActive, wanted>>

BridgeWoken ==
  /\ LiveGoes("waiting", IF Started \/ liveAsked THEN "loop" ELSE "ended")
  /\ liveAsked' = FALSE
  /\ UNCHANGED <<page, pageAt, monitor, sectionVars, shown, liveWait, liveReads, liveActive, wanted>>
-----------------------------------------------------------------------------
(* The UI. *)

Visit(p) ==
  /\ pageAt = "idle" /\ monitor # "dropped" /\ p # page
  /\ page' = p /\ pageAt' = "poll"
  /\ UNCHANGED <<monitor, sectionVars, shown, liveVars, liveActive, wanted>>

(* prepare_page: the Overview never starts the workers.                    *)
PreparePage ==
  /\ pageAt = "poll" /\ pageAt' = "active"
  /\ monitor' = IF page = "system" THEN "running" ELSE monitor
  /\ UNCHANGED <<page, sectionVars, shown, liveVars, liveActive, wanted>>

LiveActiveOn(p) == p \in {"system", "overview"}

(* set_live_active: the swap, then a request when the flag was down.       *)
SwapLiveActive ==
  /\ pageAt = "active" /\ Started
  /\ liveActive' = LiveActiveOn(page)
  /\ pageAt' = IF ~liveActive /\ LiveActiveOn(page) THEN "wake" ELSE "pull"
  /\ UNCHANGED <<page, monitor, sectionVars, shown, liveVars, wanted>>

SkipUnstarted ==
  /\ pageAt = "active" /\ ~Started /\ pageAt' = "idle"
  /\ UNCHANGED <<page, monitor, sectionVars, shown, liveVars, liveActive, wanted>>

WakeBridge ==
  /\ pageAt = "wake" /\ pageAt' = "pull" /\ liveAsked' = TRUE
  /\ UNCHANGED <<page, monitor, sectionVars, shown, liveAt, liveWait, liveReads, liveActive, wanted>>

(* snapshot: try_lock, or what was there. Stopped keeps the data, as does  *)
(* Slow, a matter of time alone that is left out.                          *)
ShownOf(s) ==
  [section |-> s.section,
   state |-> IF sectionAt = "ended" THEN "Stopped" ELSE s.state,
   collecting |-> s.collecting /\ sectionAt # "ended"]

PullSnapshot ==
  /\ pageAt = "pull" /\ pageAt' = "idle"
  /\ \/ LiveActiveOn(page) /\ shown' = ShownOf(slot)
     \/ LiveActiveOn(page) /\ sectionAt \in {"loop", "read"} /\ UNCHANGED shown
     \/ ~LiveActiveOn(page) /\ UNCHANGED shown
  /\ UNCHANGED <<page, monitor, sectionVars, liveVars, liveActive, wanted>>

(* A later frame on the same page. *)
NextFrame ==
  /\ pageAt = "idle" /\ Started /\ pageAt' = "active"
  /\ UNCHANGED <<page, monitor, sectionVars, shown, liveVars, liveActive, wanted>>

(* refresh: one request each, on top of none already queued.               *)
Refresh ==
  /\ pageAt = "idle" /\ page = "system" /\ Started /\ reads < MaxReads
  /\ sectionAsked' = TRUE /\ liveAsked' = TRUE
  /\ wanted' = reads + 1
  /\ UNCHANGED <<page, pageAt, monitor, sectionAt, reads, slot, shown,
                 liveAt, liveWait, liveReads, liveActive>>

DropSpecs ==
  /\ pageAt = "idle" /\ Started /\ monitor' = "dropped"
  /\ UNCHANGED <<page, pageAt, sectionVars, shown, liveVars, liveActive, wanted>>

SpecsInit ==
  /\ page = "other" /\ pageAt = "idle" /\ monitor = "unstarted"
  /\ sectionAt = "loop" /\ sectionAsked = FALSE /\ reads = 0 /\ slot = NoSection
  /\ shown = NoSection
  /\ liveAt = "loop" /\ liveWait = "short" /\ liveAsked = FALSE /\ liveReads = 0
  /\ liveActive = TRUE /\ wanted = 0

SectionSteps == MarkCollecting \/ SectionWaits \/ SectionWoken

SpecsNext ==
  \/ SectionSteps \/ PublishSection \/ SectionPanics \/ CadenceElapses
  \/ PollBridge \/ PublishBridge \/ BridgeWoken
  \/ \E p \in {"system", "overview", "other"} : Visit(p)
  \/ PreparePage \/ SwapLiveActive \/ SkipUnstarted \/ WakeBridge \/ PullSnapshot
  \/ NextFrame \/ Refresh \/ DropSpecs
-----------------------------------------------------------------------------
(* A page that shows live readings is never left to the bridge's idle      *)
(* cadence of half a minute: a poll that found no such page is followed by *)
(* another as soon as one opens, however the two threads interleave.       *)
VisiblePollsFast ==
  ~ (/\ Started /\ pageAt \in {"idle", "pull"} /\ LiveActiveOn(page) /\ liveActive
     /\ liveAt \in {"chosen", "waiting"} /\ liveWait = "idle" /\ ~liveAsked)

(* A refresh asked while a read runs is answered by a read that begins     *)
(* after it, unless a provider never returns, its worker has ended or the  *)
(* application closes.                                                     *)
RefreshReadsAgain ==
  []<>(reads >= wanted) \/ <>[](sectionAt \in {"read", "ended"}) \/ <>[](~Started)

(* The two threads of the specifications follow the page: the live one     *)
(* when it opens, the other at every refresh (specs/worker.rs 98-425).     *)
SpecsFollowThePage == []VisiblePollsFast /\ RefreshReadsAgain
=============================================================================

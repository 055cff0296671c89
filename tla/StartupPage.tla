---------------------------- MODULE StartupPage ----------------------------
(***************************************************************************)
(* The Startup page: which rows it shows, which of them may be changed and *)
(* which change can be undone (src/src/startup/control/observations.rs,    *)
(* src/src/app/startup_controls.rs), composed with the command controller  *)
(* (StartupControl), the inventory worker and the sampler that carries its *)
(* results to the UI (src/src/inventory.rs, src/src/sampler.rs).           *)
(***************************************************************************)
EXTENDS StartupControl

CONSTANTS
    StaleAfter,  \* STALE_AFTER, in ticks
    SlowAfter    \* SLOW_AFTER, in ticks

-----------------------------------------------------------------------------
(* What is kept of a source between two reads of it (src/src/startup.rs).  *)
(* "A failed read cannot prove that a previously observed entry has been   *)
(* removed": its rows stay, marked as cached.  The five sources are        *)
(* separate namespaces merged by the same code; the keys here are those of *)
(* one.  A read that exceeds ENTRY_LIMIT or TEXT_LIMIT is a failed one     *)
(* with some of the rows.                                                  *)

Entry  == [row : Row, at : Nat, observed : BOOLEAN]
Source == [entries : [Keys -> Entry \cup {Nothing}], attempt : Nat, complete : Nat,
           result : {"Starting", "Readable", "Missing", "Failed"}]

NoEntries == [key \in Keys |-> Nothing]
Unread == [entries |-> NoEntries, attempt |-> 0, complete |-> 0, result |-> "Starting"]

\* Mutant: whatever a read does not show is gone.
KeptNothing(source, state) == NoEntries

\* The entries that survive a read, no longer counted as observed by it.
Kept(source, state) ==
    [key \in Keys |->
        IF state # "Failed" \/ source.entries[key] = Nothing THEN Nothing
        ELSE [source.entries[key] EXCEPT !.observed = FALSE]]

\* SourceSnapshot::apply; `rows' has Nothing for a key that the read does not show.
MergeRead(source, state, rows, at) ==
    [entries  |-> [key \in Keys |->
                      IF state = "Missing" \/ rows[key] = Nothing THEN Kept(source, state)[key]
                      ELSE [row |-> rows[key], at |-> at, observed |-> TRUE]],
     attempt  |-> at,
     complete |-> IF state = "Failed" THEN source.complete ELSE at,
     result   |-> state]

\* invalidate_startup: the view of a source whose read is slow.
Invalidated(source, at) == MergeRead(source, "Failed", NoEntries, at)

\* SourceSnapshot::row_state
RowState(source, entry, now) ==
    CASE now - source.attempt > StaleAfter -> "Cached"
      [] now - source.attempt <= StaleAfter /\ source.result = "Readable" -> "Live"
      [] now - source.attempt <= StaleAfter /\ source.result = "Failed" /\ entry.observed -> "Observed"
      [] OTHER -> "Cached"

-----------------------------------------------------------------------------
VARIABLES
    read,           \* the inventory worker's read: since when, how far, and what it saw
    listedSource,   \* what it last published
    rereadWanted,   \* its sync_channel(1) of refresh requests holds one
    refreshAsked,   \* Sampler.startup_refresh
    shownSource,    \* the source in the snapshot that the UI has accepted
    pending,        \* pending_startup: the request under review
    changes,        \* Observations.records
    evicted_fence,  \* Observations.evicted_fence, 0 for None
    since           \* history: what reads of an entry begun since Trontop last changed
                    \* it may show: a registration, with an approval of then or later

sourceVars == <<read, listedSource, rereadWanted>>
observationVars == <<changes, evicted_fence>>
reviewVars == <<pending, observationVars>>
startupVars == <<controlVars, sourceVars, refreshAsked, shownSource, reviewVars, since>>

\* left: the entries that the enumeration has not come to; seen: the one whose
\* approval is yet to be read.
Enumerated == [key : Keys, registration : Registrations]
Reading == [at : Nat, left : SUBSET Keys, seen : Enumerated \cup {Nothing},
            rows : [Keys -> Row \cup {Nothing}]]
NotReading == [at |-> 0, left |-> {}, seen |-> Nothing, rows |-> NoEntries]

Receipt == [target : Row, before : Approvals, after : Approvals]
ChangeRecord  == [fence : Nat, receipt : Receipt \cup {Nothing}, uncertain : BOOLEAN]

ASSUME StartupPageAssumption ==
    /\ Nothing \notin Entry \cup Outcome \cup Receipt \cup ChangeRecord \cup Enumerated
    /\ StaleAfter \in Nat /\ SlowAfter \in Nat

-----------------------------------------------------------------------------
(* Observations *)

\* A receipt's target is the reviewed row with the approval that was verified.
ReceiptOf(request) ==
    [target |-> [request.target EXCEPT !.approval = After(request)],
     before |-> request.target.approval, after |-> After(request)]

\* The record of an entry after an outcome of it.
Noted(outcome) ==
    LET record == changes[outcome.request.key] IN
    CASE outcome.result = "ok" ->
           [fence |-> outcome.observed_at, receipt |-> ReceiptOf(outcome.request),
            uncertain |-> FALSE]
      [] outcome.result = "uncertain" ->
           [fence |-> clock, uncertain |-> TRUE,
            receipt |-> IF record = Nothing THEN Nothing ELSE record.receipt]
      [] OTHER -> record

\* The oldest records are evicted while they are too many or too large; how large
\* they are is left open.
Evictable(all) ==
    {gone \in SUBSET {key \in Keys : all[key] # Nothing} :
        \A key \in gone, other \in Keys \ gone :
            all[other] # Nothing => all[key].fence <= all[other].fence}

\* Mutant: an evicted record leaves no fence.
NoFence(all, gone) == evicted_fence

NewestFence(all, gone) ==
    CHOOSE fence \in {evicted_fence} \cup {all[key].fence : key \in gone} :
        fence >= evicted_fence /\ \A key \in gone : fence >= all[key].fence

SameRegistration(a, b) == a.registration = b.registration
UndoMatches(receipt, row) == SameRegistration(receipt.target, row) /\ row.approval = receipt.after

\* Observations::reconcile, for one record.
Reconciled(record, entry) ==
    CASE record = Nothing -> Nothing
      [] record # Nothing /\ entry = Nothing ->
           IF shownSource.complete <= record.fence THEN record ELSE Nothing
      [] record # Nothing /\ entry # Nothing /\ entry.at <= record.fence -> record
      [] OTHER ->
           IF record.receipt # Nothing /\ UndoMatches(record.receipt, entry.row)
           THEN [record EXCEPT !.uncertain = FALSE] ELSE Nothing

ReconcileAll(all) == [key \in Keys |-> Reconciled(all[key], shownSource.entries[key])]

\* poll_startup_command with an outcome, and without one.
ApplyOutcome(outcome) ==
    \E gone \in Evictable([changes EXCEPT ![outcome.request.key] = Noted(outcome)]) :
        LET all == [changes EXCEPT ![outcome.request.key] = Noted(outcome)] IN
        /\ changes' = ReconcileAll([key \in Keys |-> IF key \in gone THEN Nothing ELSE all[key]])
        /\ evicted_fence' = NewestFence(all, gone)
        /\ refreshAsked' = TRUE

\* Observations::view: the row shown for an entry and whether it may be acted on.
Overlaid(key) ==
    LET record == changes[key] IN
    record # Nothing /\ shownSource.entries[key].at <= record.fence

View(key) ==
    LET entry  == shownSource.entries[key]
        record == changes[key]
    IN  IF Overlaid(key)
        THEN IF ~record.uncertain /\ record.receipt # Nothing /\
                SameRegistration(record.receipt.target, entry.row)
             THEN [row |-> record.receipt.target, fresh |-> clock - record.fence <= StaleAfter]
             ELSE [row |-> entry.row, fresh |-> FALSE]
        ELSE [row |-> entry.row,
              fresh |-> /\ evicted_fence = 0 \/ entry.at > evicted_fence
                        /\ RowState(shownSource, entry, clock) \in {"Live", "Observed"}]

Actionable(key) == shownSource.entries[key] # Nothing /\ View(key).fresh

\* Observations::undo: the receipt of the last change, if the row still shows it.
CanUndo(key) ==
    /\ changes[key] # Nothing
    /\ ~changes[key].uncertain /\ changes[key].receipt # Nothing
    /\ UndoMatches(changes[key].receipt, View(key).row)

-----------------------------------------------------------------------------
(* The page *)

\* startup_controls: Enable, Disable or Undo opens the review of a fresh entry.
Review(key) ==
    /\ ~checking /\ Ready /\ Actionable(key) /\ Editable(View(key).row.approval)
    /\ \/ \E action \in {"Enable", "Disable"} :
             /\ (action = "Enable") = (View(key).row.approval = "Disabled")
             /\ pending' = [key |-> key, target |-> View(key).row, action |-> action,
                            restore |-> Nothing]
       \/ /\ CanUndo(key)
          /\ pending' = [key |-> key, target |-> changes[key].receipt.target,
                         action |-> "Restore", restore |-> changes[key].receipt.before]
    /\ UNCHANGED <<controlVars, sourceVars, refreshAsked, shownSource, observationVars, since>>

\* confirm_startup_command: the row is still fresh and the one under review.
Confirmed ==
    /\ pending # Nothing
    /\ Actionable(pending.key) /\ View(pending.key).row = pending.target
    /\ SubmitChange(pending)
    /\ pending' = Nothing
    /\ UNCHANGED <<sourceVars, refreshAsked, shownSource, observationVars, since>>

Cancel ==
    /\ ~checking /\ pending # Nothing
    /\ pending' = Nothing
    /\ UNCHANGED <<controlVars, sourceVars, refreshAsked, shownSource, observationVars, since>>

\* A frame polls the controller and reconciles the records with the snapshot.
Frame ==
    /\ \/ TakeAnswer \/ PollFinished
       \/ ~checking /\ ~dropped /\ answer = Nothing /\ UNCHANGED controlVars
    /\ IF Answered # Nothing THEN ApplyOutcome(Answered)
       ELSE changes' = ReconcileAll(changes) /\ UNCHANGED <<evicted_fence, refreshAsked>>
    /\ UNCHANGED <<sourceVars, shownSource, pending, since>>

\* The Refresh button.
AskRefresh ==
    /\ ~checking /\ ~dropped /\ ~Busy /\ ~refreshAsked
    /\ refreshAsked' = TRUE
    /\ UNCHANGED <<controlVars, sourceVars, shownSource, reviewVars, since>>

-----------------------------------------------------------------------------
(* The inventory worker and the sampler *)

\* A request, the 30 s cadence or the start of Trontop begins a read.  Every read
\* takes time, so that their stamps differ.
SourceReadStarts ==
    /\ ~dropped /\ read.at = 0 /\ listedSource.attempt < clock
    /\ read' = [NotReading EXCEPT !.at = clock, !.left = Keys]
    /\ rereadWanted' = FALSE
    /\ UNCHANGED <<controlVars, listedSource, refreshAsked, shownSource, reviewVars, since>>

\* RegEnumValueW, or the folder's listing and the file's identity: the enumeration
\* comes to an entry, which may be gone.
Found(key) == IF registration[key] = Nothing THEN Nothing
              ELSE [key |-> key, registration |-> registration[key]]

EnumerateEntry ==
    /\ read.at # 0 /\ read.seen = Nothing
    /\ \E key \in read.left : read' = [read EXCEPT !.left = @ \ {key}, !.seen = Found(key)]
    /\ UNCHANGED <<controlVars, listedSource, rereadWanted, refreshAsked, shownSource, reviewVars,
                   since>>

\* approval_at, a call of its own: other programs may have edited the entry meanwhile.
Observed == [registration |-> read.seen.registration, approval |-> approval[read.seen.key]]

ObserveApproval ==
    /\ read.seen # Nothing
    /\ read' = [read EXCEPT !.seen = Nothing, !.rows = [@ EXCEPT ![read.seen.key] = Observed]]
    /\ UNCHANGED <<controlVars, listedSource, rereadWanted, refreshAsked, shownSource, reviewVars,
                   since>>

\* The read ends, after the last entry or anywhere with the rows it has, and is published.
\* A source in which nothing was found may be one whose registry key is missing.
SourcePublish ==
    /\ read.at # 0
    /\ \E state \in {"Readable", "Missing", "Failed"} :
          /\ state # "Failed" => read.left = {} /\ read.seen = Nothing
          /\ state = "Missing" => read.rows = NoEntries
          /\ listedSource' = MergeRead(listedSource, state, read.rows, read.at)
    /\ read' = NotReading
    /\ UNCHANGED <<controlVars, rereadWanted, refreshAsked, shownSource, reviewVars, since>>

\* Worker::latest: a slow read makes what is published stale.
Latest == IF read.at # 0 /\ clock - read.at >= SlowAfter
          THEN Invalidated(listedSource, read.at) ELSE listedSource

\* A sampler cycle, whose snapshot the UI accepts at the start of a frame.
SamplerCycle ==
    /\ ~checking /\ ~dropped
    /\ rereadWanted' = (rereadWanted \/ refreshAsked)
    /\ refreshAsked' = FALSE
    /\ shownSource' = Latest
    /\ UNCHANGED <<controlVars, read, listedSource, reviewVars, since>>

-----------------------------------------------------------------------------
(* Specification *)

Now(key) == [registration |-> registration[key], approval |-> approval[key]]
Registered(key) == {row.registration : row \in since[key]}

\* What Trontop commits is all that an entry has been since.
Command ==
    /\ Work
    /\ since' = [key \in Keys |-> IF approval'[key] # approval[key] THEN {Now(key)'} ELSE since[key]]
    /\ UNCHANGED <<sourceVars, refreshAsked, shownSource, reviewVars>>

\* What others make of an entry comes on top: a read may join the approval they leave
\* with any registration since the change, but not a registration with an older approval.
OtherProgram ==
    /\ \E key \in Keys : Edit(key)
    /\ since' = [key \in Keys |-> since[key] \cup
                    {[registration |-> r, approval |-> approval'[key]] :
                        r \in Registered(key) \cup {registration'[key]}}]
    /\ UNCHANGED <<sourceVars, refreshAsked, shownSource, reviewVars>>

TimePasses ==
    ClockTicks /\ UNCHANGED <<sourceVars, refreshAsked, shownSource, reviewVars, since>>

PageInit ==
    /\ ControlInit
    /\ read = NotReading /\ listedSource = Unread /\ shownSource = Unread
    /\ rereadWanted = TRUE /\ refreshAsked = FALSE
    /\ pending = Nothing /\ changes = NoEntries /\ evicted_fence = 0
    /\ since = [key \in Keys |-> {Now(key)}]

\* The App is dropped with all it holds, and the inventory worker with its sampler.
CloseStartup ==
    /\ DropController
    /\ read' = NotReading /\ listedSource' = Unread /\ rereadWanted' = FALSE
    /\ refreshAsked' = FALSE /\ shownSource' = Unread
    /\ pending' = Nothing /\ changes' = NoEntries /\ evicted_fence' = 0
    /\ UNCHANGED since

PageNext ==
    \/ \E key \in Keys : Review(key)
    \/ Confirmed \/ Cancel \/ Frame \/ AskRefresh \/ Command \/ OtherProgram \/ TimePasses
    \/ PollEmpty /\ UNCHANGED <<sourceVars, refreshAsked, shownSource, reviewVars, since>>
    \/ CloseStartup
    \/ SourceReadStarts \/ EnumerateEntry \/ ObserveApproval \/ SourcePublish \/ SamplerCycle

PageSpec == PageInit /\ [][PageNext]_startupVars

-----------------------------------------------------------------------------
(* Properties *)

\* The types; a record without a receipt is that of an unknown outcome.
PageTypeOK ==
    /\ read \in Reading /\ listedSource \in Source /\ shownSource \in Source
    /\ rereadWanted \in BOOLEAN /\ refreshAsked \in BOOLEAN
    /\ pending \in Request \cup {Nothing}
    /\ changes \in [Keys -> ChangeRecord \cup {Nothing}] /\ evicted_fence \in Nat
    /\ \A key \in Keys : changes[key] # Nothing =>
          changes[key].uncertain \/ changes[key].receipt # Nothing

\* "Command readback outranks inventory reads started before the command completed"
\* and "eviction retains a freshness fence": a row that may be acted on shows a
\* registration and an approval that the entry has had since Trontop last changed it,
\* the approval at that moment or later, whatever became of the change's outcome, its
\* record and the reads that were on their way.  The two halves are read by separate
\* calls and need not have been true together: the transaction verifies them again.
FreshSinceLastChange ==
    \A key \in Keys : Ready /\ ~checking /\ Actionable(key) => View(key).row \in since[key]

\* "Failed enumeration cannot prove an entry was removed": a row disappears only
\* once a later complete read was published.
DisappearsOnlyWhenRead ==
    [][\A key \in Keys :
         shownSource.entries[key] # Nothing /\ shownSource'.entries[key] = Nothing /\ ~dropped' =>
            shownSource'.complete > shownSource.entries[key].at]_startupVars

\* What the page offers for a change is well formed and follows the last one.
PageFollowsChanges == TypeOK /\ PageTypeOK /\ FreshSinceLastChange
=============================================================================

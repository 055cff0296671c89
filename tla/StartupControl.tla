--------------------------- MODULE StartupControl ---------------------------
(***************************************************************************)
(* Confirmed changes of a startup entry's Windows approval, one at a time  *)
(* (src/src/startup/control.rs, control/worker.rs, control/native.rs).     *)
(*                                                                         *)
(* The UI thread owns the Controller.  Its worker thread verifies that the *)
(* registration and the approval are still the ones that were reviewed,    *)
(* guards both against other programs and commits one registry             *)
(* transaction.  Meanwhile other programs edit the registry.               *)
(***************************************************************************)
EXTENDS Naturals

CONSTANTS
    Keys,           \* startup entries, by source and name
    Registrations,  \* what a Run value or a file's identity may be
    Unrecognized,   \* approvals that Trontop does not recognize
    Nothing,        \* an empty Option
    Unwinds,        \* a panic unwinds its thread (the release build aborts)
    MaxChanges,     \* bound: requests accepted
    MaxEdits,       \* bound: changes made by other programs
    LastTick        \* bound: ticks of the clock

\* Approval: no override, a record that enables or disables, or one that Trontop
\* does not recognize.  The time stored in a disabled record is left out.
Approvals == {"Missing", "Enabled", "Disabled"} \cup Unrecognized
Editable(approved) == approved \notin Unrecognized

ASSUME StartupControlAssumption ==
    /\ Nothing \notin Registrations /\ Nothing \notin Approvals
    /\ Unrecognized \cap {"Missing", "Enabled", "Disabled"} = {}
    /\ Unwinds \in BOOLEAN
    /\ MaxChanges \in Nat /\ MaxEdits \in Nat /\ LastTick \in Nat

Row == [registration : Registrations, approval : Approvals]

\* Action::Restore carries the approval it restores.
Request == [key : Keys, target : Row, action : {"Enable", "Disable", "Restore"},
            restore : Approvals \cup {Nothing}]

\* Request::validate, except its 30 s limit: Commit may find that it has passed.
Valid(request) ==
    /\ Editable(request.target.approval)
    /\ request.action = "Restore" => request.restore \in Approvals /\ Editable(request.restore)

\* The approval that a request writes (Approval::changed).
After(request) == CASE request.action = "Restore" -> request.restore
                    [] request.action = "Enable"  -> "Enabled"
                    [] request.action = "Disable" -> "Disabled"

\* observed_at is that of a receipt, and 0 in a failure.
Results == {"ok", "unchanged", "uncertain"}
Outcome == [request : Request, result : Results, observed_at : Nat]

VARIABLES
    clock,         \* the clock, in ticks
    files,         \* the entries that are files of a Startup folder, not Run values
    registration,  \* Windows: an entry's Run value or file, None if it is gone
    approval,      \* Windows: its StartupApproved value
    edits,         \* changes made by other programs so far
    queue,         \* the sync_channel(1) of requests
    asked,         \* Controller.active
    answer,        \* Controller.latest
    checking,      \* poll has found no answer and is to ask is_finished
    dropped,       \* the Controller was dropped
    accepted,      \* requests accepted so far
    worker,        \* the worker thread: where it stands, its request and outcome
    guard          \* its transaction: what it guards, and whether an edit has doomed it

windows    == <<files, registration, approval, edits>>
controller == <<asked, checking, dropped, accepted>>
controlVars == <<clock, windows, queue, answer, controller, worker, guard>>

Places == {"idle", "verify", "stage", "recheck", "read", "write", "readback", "commit",
           "confirm", "publish", "crashed", "ending", "dead"}
Worker == [at : Places, job : Request \cup {Nothing}, result : Results, observed_at : Nat]
Guard  == [registration : BOOLEAN, approval : BOOLEAN, doomed : BOOLEAN]

NoGuard == [registration |-> FALSE, approval |-> FALSE, doomed |-> FALSE]
Idle    == [at |-> "idle", job |-> Nothing, result |-> "unchanged", observed_at |-> 0]

-----------------------------------------------------------------------------
(* The UI thread *)

Ready == asked = Nothing /\ ~dropped /\ worker.at # "dead"
Busy  == asked # Nothing

SubmitChange(request) ==
    /\ ~checking /\ Valid(request) /\ Ready /\ queue = Nothing
    /\ accepted < MaxChanges
    /\ queue' = request /\ asked' = request
    /\ accepted' = accepted + 1
    /\ UNCHANGED <<clock, windows, answer, checking, dropped, worker, guard>>

Unknown(request) == [request |-> request, result |-> "uncertain", observed_at |-> 0]

\* poll takes an outcome from the slot.
TakeAnswer ==
    /\ ~checking /\ ~dropped /\ answer # Nothing
    /\ answer' = Nothing /\ asked' = Nothing
    /\ UNCHANGED <<clock, windows, queue, checking, dropped, accepted, worker, guard>>

\* It finds the slot empty, and then asks whether the worker has finished.
PollEmpty ==
    /\ ~checking /\ ~dropped /\ answer = Nothing /\ Busy
    /\ checking' = TRUE
    /\ UNCHANGED <<clock, windows, queue, asked, dropped, accepted, answer, worker, guard>>

Lost == worker.at = "dead" /\ Busy
PollFinished ==
    /\ checking
    /\ checking' = FALSE
    /\ asked' = IF Lost THEN Nothing ELSE asked
    /\ UNCHANGED <<clock, windows, queue, dropped, accepted, answer, worker, guard>>

\* The outcome that poll returns in this step, or None.
Answered == IF checking THEN IF Lost THEN Unknown(asked) ELSE Nothing
          ELSE answer

\* The Controller is dropped; nobody waits for the worker.
DropController ==
    /\ ~checking /\ ~dropped
    /\ dropped' = TRUE
    /\ UNCHANGED <<clock, windows, queue, asked, checking, accepted, answer, worker, guard>>

-----------------------------------------------------------------------------
(* The worker thread *)

At(place) == worker.at = place
Goto(place) == worker' = [worker EXCEPT !.at = place]

\* An early return drops the transaction, which rolls it back.
Fail(result) ==
    /\ worker' = [worker EXCEPT !.at = "publish", !.result = result]
    /\ guard' = NoGuard

ReceiveChange ==
    /\ At("idle") /\ queue # Nothing
    /\ queue' = Nothing
    /\ worker' = IF dropped THEN [Idle EXCEPT !.at = "dead"]
                 ELSE [Idle EXCEPT !.at = "verify", !.job = queue]
    /\ UNCHANGED <<clock, windows, answer, controller, guard>>

Disconnect ==
    /\ At("idle") /\ queue = Nothing /\ dropped
    /\ Goto("dead")
    /\ UNCHANGED <<clock, windows, queue, answer, controller, guard>>

AsRegistered == registration[worker.job.key] = worker.job.target.registration
AsApproved     == approval[worker.job.key] = worker.job.target.approval

\* guard_run reads the Run value in the transaction, which guards nothing yet.  A
\* Startup file is opened so that it cannot change while it is identified.
Verify ==
    /\ At("verify")
    /\ \/ Fail("unchanged")
       \/ /\ worker.job.key \in files
          /\ Goto("recheck") /\ guard' = [guard EXCEPT !.registration = TRUE]
       \/ /\ worker.job.key \notin files /\ AsRegistered
          /\ Goto("stage") /\ UNCHANGED guard

\* The identical Run value is written in the transaction ...
Stage ==
    /\ At("stage")
    /\ \/ Fail("unchanged")
       \/ Goto("recheck") /\ guard' = [guard EXCEPT !.registration = TRUE]

\* Mutant: a writer that won before the guard goes unnoticed.
RecheckNothing ==
    /\ At("recheck")
    /\ \/ Fail("unchanged")
       \/ Goto("read") /\ UNCHANGED guard

\* ... and the committed one is read again, or the open file is identified.
Recheck ==
    /\ At("recheck")
    /\ \/ Fail("unchanged")
       \/ AsRegistered /\ Goto("read") /\ UNCHANGED guard

ReadApproval ==
    /\ At("read")
    /\ \/ Fail("unchanged")
       \/ AsApproved /\ Goto("write") /\ UNCHANGED guard

WriteApproval ==
    /\ At("write")
    /\ \/ Fail("unchanged")
       \/ Goto("readback") /\ guard' = [guard EXCEPT !.approval = TRUE]

ReadBack ==
    /\ At("readback")
    /\ \/ Fail("unchanged")
       \/ AsApproved /\ Goto("commit") /\ UNCHANGED guard

Written == [approval EXCEPT ![worker.job.key] = After(worker.job)]

\* The confirmation has expired, the transaction commits, or Windows reports an
\* error that leaves open whether it did.
Commit ==
    /\ At("commit")
    /\ \/ Fail("unchanged") /\ UNCHANGED approval
       \/ /\ ~guard.doomed
          /\ approval' = Written
          /\ Goto("confirm") /\ guard' = NoGuard
       \/ /\ Fail("uncertain")
          /\ approval' \in {approval} \cup (IF guard.doomed THEN {} ELSE {Written})

\* The committed approval is read once more.
ConfirmApproval ==
    /\ At("confirm")
    /\ \/ Fail("uncertain")
       \/ /\ approval[worker.job.key] = After(worker.job)
          /\ worker' = [worker EXCEPT !.at = "publish", !.result = "ok", !.observed_at = clock]
          /\ UNCHANGED guard

Apply ==
    /\ \/ /\ Verify \/ Stage \/ Recheck \/ ReadApproval \/ WriteApproval \/ ReadBack
             \/ ConfirmApproval
          /\ UNCHANGED approval
       \/ Commit
    /\ UNCHANGED <<clock, files, registration, edits, queue, answer, controller>>

\* catch_unwind: the worker reports an unknown outcome and ends.
Panic ==
    /\ Unwinds
    /\ worker.at \notin {"idle", "publish", "crashed", "ending", "dead"}
    /\ worker' = [worker EXCEPT !.at = "crashed", !.result = "uncertain"]
    /\ guard' = NoGuard
    /\ UNCHANGED <<clock, windows, queue, answer, controller>>

Publish ==
    /\ At("publish") \/ At("crashed")
    /\ answer' = [request |-> worker.job, result |-> worker.result,
                  observed_at |-> worker.observed_at]
    /\ worker' = [Idle EXCEPT !.at = IF At("crashed") THEN "ending" ELSE "idle"]
    /\ UNCHANGED <<clock, windows, queue, controller, guard>>

EndWorker ==
    /\ At("ending")
    /\ Goto("dead")
    /\ UNCHANGED <<clock, windows, queue, answer, controller, guard>>

Work == ReceiveChange \/ Disconnect \/ Apply \/ Panic \/ Publish \/ EndWorker

-----------------------------------------------------------------------------
(* Other programs and the clock *)

\* What the worker guards for an entry is not changed by anyone else, except that
\* Windows may let a registry edit through and doom the transaction instead.
Guarded(key) == worker.job # Nothing /\ worker.job.key = key
Edit(key) ==
    /\ edits < MaxEdits /\ edits' = edits + 1
    /\ \/ /\ \E r \in (Registrations \cup {Nothing}) \ {registration[key]} :
                registration' = [registration EXCEPT ![key] = r]
          /\ UNCHANGED approval
          /\ IF Guarded(key) /\ guard.registration
             THEN key \notin files /\ guard' = [guard EXCEPT !.doomed = TRUE]
             ELSE UNCHANGED guard
       \/ /\ \E a \in Approvals \ {approval[key]} : approval' = [approval EXCEPT ![key] = a]
          /\ UNCHANGED registration
          /\ guard' = IF Guarded(key) /\ guard.approval THEN [guard EXCEPT !.doomed = TRUE]
                      ELSE guard
    /\ UNCHANGED <<clock, files, queue, answer, controller, worker>>

ClockTicks ==
    /\ clock < LastTick
    /\ clock' = clock + 1
    /\ UNCHANGED <<windows, queue, answer, controller, worker, guard>>

-----------------------------------------------------------------------------
(* Specification *)

ControlInit ==
    /\ clock = 1 /\ files \in SUBSET Keys
    /\ registration \in [Keys -> Registrations] /\ approval \in [Keys -> Approvals]
    /\ edits = 0
    /\ queue = Nothing /\ asked = Nothing /\ answer = Nothing
    /\ checking = FALSE /\ dropped = FALSE /\ accepted = 0
    /\ worker = Idle /\ guard = NoGuard

Poll == TakeAnswer \/ PollEmpty \/ PollFinished
ControlNext == \/ \E request \in Request : SubmitChange(request)
        \/ Poll \/ DropController \/ Work \/ ClockTicks
        \/ \E key \in Keys : Edit(key)

ControlSpec == ControlInit /\ [][ControlNext]_controlVars

-----------------------------------------------------------------------------
(* Properties *)

\* The types; the worker has a request exactly while it works on one.
TypeOK ==
    /\ clock \in Nat /\ edits \in Nat /\ accepted \in Nat
    /\ files \in SUBSET Keys
    /\ registration \in [Keys -> Registrations \cup {Nothing}]
    /\ approval \in [Keys -> Approvals]
    /\ queue \in Request \cup {Nothing} /\ asked \in Request \cup {Nothing}
    /\ answer \in Outcome \cup {Nothing}
    /\ checking \in BOOLEAN /\ dropped \in BOOLEAN
    /\ worker \in Worker /\ guard \in Guard
    /\ worker.job = Nothing <=> worker.at \in {"idle", "ending", "dead"}

\* "The worker validates the captured registration and exact approval bytes" and "a
\* changed registration must never accompany a committed stale approval": however
\* other programs edit the entry between the steps of a command, the approval is
\* changed by Trontop only from the reviewed one, to the confirmed one, of the
\* reviewed registration.
CommitsOnlyReviewed ==
    [][(At("commit") /\ approval' # approval /\ UNCHANGED edits) =>
          LET key == worker.job.key IN
          /\ approval[key] = worker.job.target.approval
          /\ registration[key] = worker.job.target.registration
          /\ registration' = registration
          /\ approval' = [approval EXCEPT ![key] = After(worker.job)]]_controlVars

\* "A completed failure is reported once": an answered request is not answered again.
\* A panicked worker publishes its outcome and ends between the two halves of poll,
\* which then answers for it and leaves the outcome to be returned once more.
AnsweredOnce == ~Busy /\ ~checking => answer = Nothing \/ dropped

=============================================================================

--------------------------- MODULE ServiceControl ---------------------------
(***************************************************************************)
(* Confirmed, single-flight service commands (src/src/service_control.rs). *)
(*                                                                         *)
(* Three parties interleave: the UI thread owns the Controller (submit,    *)
(* poll, drop), one worker thread runs `execute' for one request at a time *)
(* and publishes progress into a mailbox of one slot that it overwrites,   *)
(* and Windows (the SCM and every other controller of the service) moves   *)
(* the service between any two steps of the worker.                        *)
(*                                                                         *)
(* Time.  Instants are readings of `now', a clock that Tick may advance    *)
(* between any two steps and that two readings may share.  The 30 s        *)
(* lifetime of a confirmation and the 30 s deadline of wait_for are flags  *)
(* (`expired', `overdue') that may rise at any moment they are measured.   *)
(***************************************************************************)
EXTENDS Naturals

CONSTANTS
    Services,      \* SCM service names
    Protected,     \* drivers and services hosted in a system process
    Pids,          \* host process ids; 0 stands for "no PID"
    None,          \* an empty Option
    Unwinding,     \* a panic ends one thread (dev profile), not the process
    Reached,       \* bound: the states services pass through
    Accepts,       \* bound: whether running services report that they accept Stop
    Timeouts,      \* bound: whether confirmations and waits may run out
    MaxRequests,   \* bound: requests the UI submits
    MaxTime        \* bound: readings of the clock

States  == {"Stopped", "Starting", "Stopping", "Running",
            "Resuming", "Pausing", "Paused", "Unknown"}
Actions == {"Start", "Stop", "Restart"}

\* win32_service and system_process do not change while the program runs:
\* the services whose flags refuse every command are the set Protected.
Status == [state : States, pid : Pids \cup {0}, accepts_stop : BOOLEAN]
DefaultStatus == [state |-> "Unknown", pid |-> 0, accepts_stop |-> FALSE]

Request == [name : Services, action : Actions, expected : Status]

\* `at' = 0 is an observation not made, command_at = 0 a command not sent.
Reading == [at : Nat, status : Status]
NoReading == [at |-> 0, status |-> DefaultStatus]
Event == [name : Services, action : Actions, command_at : Nat,
          observed : Reading, done : BOOLEAN, error : BOOLEAN]

ASSUME ServiceControlAssumption ==
    /\ Protected \subseteq Services
    /\ 0 \notin Pids
    /\ None \notin Request
    /\ None \notin Event /\ None \notin Services
    /\ None \notin [name : Services, command_at : Nat, observed : Nat, done : BOOLEAN]
    /\ Unwinding \in BOOLEAN
    /\ {"Stopped", "Starting", "Running", "Stopping"} \subseteq Reached
    /\ Reached \subseteq States
    /\ Accepts \subseteq BOOLEAN /\ Timeouts \in BOOLEAN
    /\ MaxRequests \in Nat
    /\ MaxTime \in Nat

Phases == {"idle", "open", "preflight", "stop_gate", "stop_check", "stop_call",
           "stop_wait", "start_gate", "start_check", "start_call",
           "start_wait", "finish", "dead"}

VARIABLES
    now,        \* the monotonic clock
    service,    \* the actual status of every service, kept by the SCM
    active,     \* Controller.active: the request not yet answered, or None
    queue,      \* the sync_channel(1) of requests: a request or None
    latest,     \* Controller.latest: the newest unread event, or None
    polling,    \* the UI thread is inside Controller.poll
    taken,      \*   the event it found in `latest', or None
    stop,       \* Controller.stop; the drop that sets it closes the channel
    worker,     \* where the worker thread stands in its loop and `execute'
    request,    \* the request `execute' works on
    event,      \* its local `event'
    expired,    \* the request's confirmation is older than 30 s
    overdue,    \* wait_for has waited longer than its timeout
    submitted,  \* history: requests accepted by submit
    completed,  \* history: done events that poll returned
    sent        \* history: commands of the current request given to the SCM,
                \*   and how many of them after the Controller was dropped

uiVars     == <<active, polling, taken, stop, submitted, completed>>
workerVars == <<worker, request, event, sent>>
timeVars   == <<now, expired, overdue>>
vars == <<now, service, active, queue, latest, polling, taken, stop, worker,
          request, event, expired, overdue, submitted, completed, sent>>

-----------------------------------------------------------------------------
(* Decisions shared by the UI and the worker *)

\* Action::refusal is None.
Allowed(name, action, status) ==
    /\ name \notin Protected
    /\ \/ action = "Start" /\ status.state = "Stopped"
       \/ /\ action \in {"Stop", "Restart"}
          /\ status.state \in {"Running", "Paused"}
          /\ status.accepts_stop
          /\ status.pid # 0

\* Request::validate succeeds.  Names come from the SCM's own enumeration.
Valid(r, tooOld) == ~tooOld /\ Allowed(r.name, r.action, r.expected)

Target(action) == IF action = "Stop" THEN "Stopped" ELSE "Running"

NewEvent(r) == [name |-> r.name, action |-> r.action, command_at |-> 0,
                observed |-> NoReading, done |-> FALSE, error |-> FALSE]

-----------------------------------------------------------------------------
(* The UI thread: Controller *)

\* The channel is open and its receiver is alive.
Available == ~stop /\ worker # "dead"
Busy == active # None

Submit(r) ==
    /\ ~polling
    /\ Valid(r, FALSE)
    /\ ~Busy
    /\ Available /\ queue = None            \* try_send
    /\ submitted < MaxRequests
    /\ queue' = r
    /\ active' = r
    /\ expired' = FALSE
    /\ submitted' = submitted + 1
    /\ UNCHANGED <<now, service, latest, polling, taken, stop, workerVars,
                   overdue, completed>>

\* try_lock and take.  The lock is held only while the worker publishes.
PollTake ==
    /\ ~stop /\ ~polling
    /\ polling' = TRUE
    /\ \/ taken' = latest /\ latest' = None
       \/ /\ worker \notin {"idle", "dead"}
          /\ taken' = None /\ UNCHANGED latest
    /\ UNCHANGED <<service, active, queue, stop, workerVars, timeVars,
                   submitted, completed>>

\* The event that poll reports for a worker thread that has ended.
Disconnected(r) == [NewEvent(r) EXCEPT !.command_at = now, !.done = TRUE,
                                       !.error = TRUE]

\* Mutant: a worker that ended is never reported.
PolledOnly == taken

\* What poll returns, once is_finished has been read.
Polled == IF taken = None /\ worker = "dead" /\ Busy
          THEN Disconnected(active) ELSE taken

\* Mutant: any event frees the slot, as if all of them were the last.
PollReturnAny ==
    /\ polling
    /\ IF Polled # None
       THEN active' = None /\ completed' = completed + 1
       ELSE UNCHANGED <<active, completed>>
    /\ polling' = FALSE /\ taken' = None
    /\ UNCHANGED <<service, queue, latest, stop, workerVars, timeVars,
                   submitted>>

PollReturn ==
    /\ polling
    /\ IF Polled # None /\ Polled.done
       THEN active' = None /\ completed' = completed + 1
       ELSE UNCHANGED <<active, completed>>
    /\ polling' = FALSE /\ taken' = None
    /\ UNCHANGED <<service, queue, latest, stop, workerVars, timeVars,
                   submitted>>

\* Drop: raise the flag, close the channel, never wait for the worker.
Drop ==
    /\ ~stop /\ ~polling
    /\ stop' = TRUE
    /\ UNCHANGED <<service, active, queue, latest, polling, taken, workerVars,
                   timeVars, submitted, completed>>

-----------------------------------------------------------------------------
(* The worker thread: its receive loop and `execute' *)

Publish(e) == event' = e /\ latest' = e

\* An early return with Err: `execute' still publishes a last event.
Fail ==
    /\ worker' = "finish"
    /\ event' = [event EXCEPT !.error = TRUE]
    /\ UNCHANGED latest

Observed == [event EXCEPT !.observed = [at |-> now,
                                        status |-> service[request.name]]]

\* A request already in the channel is received even after the drop.
Receive ==
    /\ worker = "idle"
    /\ queue # None
    /\ queue' = None
    /\ IF stop
       THEN worker' = "dead" /\ UNCHANGED <<latest, request, event, sent>>
       ELSE /\ worker' = "open"
            /\ request' = queue
            /\ Publish(NewEvent(queue))
            /\ sent' = [stops |-> 0, starts |-> 0, late |-> 0]
    /\ UNCHANGED <<service, uiVars, timeVars>>

\* The channel is closed and empty.
Disconnect ==
    /\ worker = "idle" /\ queue = None /\ stop
    /\ worker' = "dead"
    /\ UNCHANGED <<service, queue, latest, request, event, sent, uiVars, timeVars>>

\* Open one handle with the rights the action needs; Windows may refuse.
Open ==
    /\ worker = "open"
    /\ \/ Fail
       \/ /\ ~stop /\ Valid(request, expired)
          /\ worker' = "preflight" /\ UNCHANGED <<event, latest>>
    /\ UNCHANGED <<service, queue, request, sent, uiVars, timeVars>>

\* Query on the handle, publish the reading, compare it with the confirmation.
Preflight ==
    /\ worker = "preflight"
    /\ \/ Fail                                          \* the query failed
       \/ /\ ~stop /\ Valid(request, expired)
          /\ LET status == service[request.name]
                 same == /\ status.state = request.expected.state
                         /\ status.pid = request.expected.pid
                         /\ Allowed(request.name, request.action, status)
             IN  /\ latest' = Observed
                 /\ event' = [Observed EXCEPT !.error = ~same]
                 /\ worker' = CASE ~same -> "finish"
                                [] same /\ request.action = "Start" -> "start_gate"
                                [] OTHER -> "stop_gate"
    /\ UNCHANGED <<service, queue, request, sent, uiVars, timeVars>>

StopGate ==
    /\ worker = "stop_gate"
    /\ IF stop \/ ~Valid(request, expired)
       THEN Fail
       ELSE /\ worker' = "stop_check"
            /\ Publish([event EXCEPT !.command_at = now])
    /\ UNCHANGED <<service, queue, request, sent, uiVars, timeVars>>

StopCheck ==
    /\ worker = "stop_check"
    /\ IF stop THEN Fail ELSE worker' = "stop_call" /\ UNCHANGED <<event, latest>>
    /\ UNCHANGED <<service, queue, request, sent, uiVars, timeVars>>

StartGate ==
    /\ worker = "start_gate"
    /\ \/ Fail                                          \* the query failed
       \/ /\ ~stop
          /\ IF Allowed(request.name, "Start", Observed.observed.status)
             THEN /\ worker' = "start_check"
                  /\ Publish([Observed EXCEPT !.command_at = now])
             ELSE /\ worker' = "finish"
                  /\ event' = [Observed EXCEPT !.error = TRUE]
                  /\ UNCHANGED latest
    /\ UNCHANGED <<service, queue, request, sent, uiVars, timeVars>>

\* Only a plain Start is held to the lifetime of its confirmation here.
StartCheck ==
    /\ worker = "start_check"
    /\ IF stop \/ (request.action = "Start" /\ ~Valid(request, expired))
       THEN Fail
       ELSE worker' = "start_call" /\ UNCHANGED <<event, latest>>
    /\ UNCHANGED <<service, queue, request, sent, uiVars, timeVars>>

\* A native command: it may land whether or not Windows then reports an error.
\* An accepted command changes the reported state now or, by Moves, later.
Command(after, waiting) ==
    /\ service' \in {service, [service EXCEPT ![request.name] = after]}
    /\ \/ Fail /\ UNCHANGED overdue
       \/ worker' = waiting /\ overdue' = FALSE /\ UNCHANGED <<event, latest>>

StopEffect(status) ==
    IF status.state \in {"Running", "Paused"} /\ status.accepts_stop
    THEN [state |-> "Stopping", pid |-> 0, accepts_stop |-> FALSE] ELSE status

StartEffect(status) ==
    IF status.state = "Stopped"
    THEN [state |-> "Starting", pid |-> 0, accepts_stop |-> FALSE] ELSE status

Late == IF stop THEN sent.late + 1 ELSE sent.late

StopCall ==
    /\ worker = "stop_call"
    /\ Command(StopEffect(service[request.name]), "stop_wait")
    /\ sent' = [sent EXCEPT !.stops = @ + 1, !.late = Late]
    /\ UNCHANGED <<now, expired, queue, request, uiVars>>

StartCall ==
    /\ worker = "start_call"
    /\ Command(StartEffect(service[request.name]), "start_wait")
    /\ sent' = [sent EXCEPT !.starts = @ + 1, !.late = Late]
    /\ UNCHANGED <<now, expired, queue, request, uiVars>>

\* Mutant: running out of time counts as an answer.
WaitForLenient(target, next) ==
    \/ Fail
    \/ /\ ~stop
       /\ Publish(Observed)
       /\ worker' = IF service[request.name].state = target \/ overdue
                    THEN next ELSE worker

\* Mutant: the wait has no deadline.
WaitForever(target, next) ==
    /\ ~stop
    /\ Publish(Observed)
    /\ worker' = IF service[request.name].state = target THEN next ELSE worker

\* One turn of wait_for: query, publish the reading, stop waiting or sleep.
WaitFor(target, next) ==
    \/ Fail                                              \* the query failed
    \/ /\ ~stop
       /\ latest' = Observed
       /\ LET state  == service[request.name].state
              failed == \/ target = "Running" /\ state = "Stopped"
                        \/ overdue
          IN  /\ worker' = CASE state = target -> next
                             [] state # target /\ failed -> "finish"
                             [] OTHER -> worker
              /\ event' = [Observed EXCEPT !.error = state # target /\ failed]

StopWait ==
    /\ worker = "stop_wait"
    /\ WaitFor("Stopped", IF request.action = "Restart" THEN "start_gate"
                          ELSE "finish")
    /\ UNCHANGED <<service, queue, request, sent, uiVars, timeVars>>

StartWait ==
    /\ worker = "start_wait"
    /\ WaitFor("Running", "finish")
    /\ UNCHANGED <<service, queue, request, sent, uiVars, timeVars>>

Finish ==
    /\ worker = "finish"
    /\ latest' = [event EXCEPT !.done = TRUE]
    /\ worker' = "idle" /\ request' = None /\ event' = None
    /\ UNCHANGED <<service, queue, sent, uiVars, timeVars>>

\* A panic inside `execute' takes the receiver and what it held with it.
Panic ==
    /\ Unwinding /\ worker \notin {"idle", "dead"}
    /\ worker' = "dead" /\ queue' = None /\ request' = None /\ event' = None
    /\ UNCHANGED <<service, latest, sent, uiVars, timeVars>>

-----------------------------------------------------------------------------
(* The outside: Windows, other controllers, time, the end of the process *)

\* What the SCM may report next for a service, whoever asked for it.
Moves == { <<"Stopped", "Starting">>, <<"Starting", "Running">>,
           <<"Starting", "Stopped">>, <<"Running", "Pausing">>,
           <<"Pausing", "Paused">>, <<"Paused", "Resuming">>,
           <<"Resuming", "Running">>, <<"Running", "Stopping">>,
           <<"Paused", "Stopping">>, <<"Stopping", "Stopped">>,
           <<"Running", "Stopped">>, <<"Paused", "Stopped">>,
           <<"Running", "Unknown">>, <<"Unknown", "Running">> }

\* status_from_native: a PID only where Windows documents it as valid.
Reported(state, pid, accepts) ==
    [state |-> state,
     pid |-> IF state \in {"Running", "Paused", "Pausing", "Resuming"}
             THEN pid ELSE 0,
     accepts_stop |-> accepts /\ state \in {"Running", "Paused"}]

ServiceMoves(name) ==
    \E state \in Reached, pid \in Pids, accepts \in Accepts :
        /\ <<service[name].state, state>> \in Moves
        /\ service[name].pid # 0 => pid = service[name].pid
        /\ service' = [service EXCEPT ![name] = Reported(state, pid, accepts)]
        /\ UNCHANGED <<queue, latest, uiVars, workerVars, timeVars>>

Tick ==
    /\ now < MaxTime
    /\ now' = now + 1
    /\ UNCHANGED <<service, queue, latest, uiVars, workerVars, expired, overdue>>

ConfirmationExpires ==
    /\ Timeouts /\ Busy /\ ~expired
    /\ expired' = TRUE
    /\ UNCHANGED <<now, service, queue, latest, uiVars, workerVars, overdue>>

DeadlinePasses ==
    /\ Timeouts /\ worker \in {"stop_wait", "start_wait"} /\ ~overdue
    /\ overdue' = TRUE
    /\ UNCHANGED <<now, service, queue, latest, uiVars, workerVars, expired>>

\* main returns after the drop: the process ends whatever the worker does.
ProcessExit ==
    /\ stop /\ worker # "dead"
    /\ worker' = "dead" /\ request' = None /\ event' = None
    /\ UNCHANGED <<service, queue, latest, sent, uiVars, timeVars>>

-----------------------------------------------------------------------------
(* Specification *)

Init ==
    /\ now = 1
    /\ service \in [Services -> { Reported("Running", pid, TRUE) : pid \in Pids }
                                \cup { Reported("Stopped", 0, FALSE) }]
    /\ active = None /\ queue = None /\ latest = None
    /\ polling = FALSE /\ taken = None /\ stop = FALSE
    /\ worker = "idle"
    /\ request = None /\ event = None
    /\ expired = FALSE /\ overdue = FALSE
    /\ submitted = 0 /\ completed = 0
    /\ sent = [stops |-> 0, starts |-> 0, late |-> 0]

\* A request is staged from a status the UI saw earlier, any it may have seen.
SubmitAny == \E r \in Request : Submit(r)

UI == SubmitAny \/ PollTake \/ PollReturn \/ Drop

Worker == \/ Receive \/ Disconnect \/ Open \/ Preflight
          \/ StopGate \/ StopCheck \/ StopCall \/ StopWait
          \/ StartGate \/ StartCheck \/ StartCall \/ StartWait \/ Finish

Outside == \/ \E name \in Services : ServiceMoves(name)
           \/ Tick \/ ConfirmationExpires \/ DeadlinePasses
           \/ Panic \/ ProcessExit

Next == UI \/ Worker \/ Outside

Spec == Init /\ [][Next]_vars

(***************************************************************************)
(* Fairness.  The worker thread keeps running and every native call it     *)
(* makes returns; a wait's deadline passes; the UI keeps drawing frames,   *)
(* each of which polls (a publication requests a repaint).  The user, the  *)
(* SCM and the clock owe nothing.                                          *)
(***************************************************************************)
Fairness == /\ WF_vars(Worker) /\ WF_vars(DeadlinePasses)
            /\ WF_vars(PollTake) /\ WF_vars(PollReturn)

FairSpec == Spec /\ Fairness

-----------------------------------------------------------------------------
(* Properties *)

Working == worker \notin {"idle", "dead"}

TypeOK ==
    /\ now \in Nat
    /\ service \in [Services -> Status]
    /\ active \in Request \cup {None}
    /\ queue \in Request \cup {None}
    /\ latest \in Event \cup {None}
    /\ polling \in BOOLEAN
    /\ taken \in Event \cup {None}
    /\ stop \in BOOLEAN
    /\ worker \in Phases
    /\ IF Working THEN request \in Request /\ event \in Event
                  ELSE request = None /\ event = None
    /\ expired \in BOOLEAN /\ overdue \in BOOLEAN
    /\ submitted \in Nat /\ completed \in Nat
    /\ sent \in [stops : Nat, starts : Nat, late : Nat]

\* A done event is somewhere between the worker and the UI.
Answered == \/ latest # None /\ latest.done
            \/ taken # None /\ taken.done

\* "One command can be active, with one coalesced progress slot": when the
\* controls are enabled again nothing of an earlier request is left that could
\* still send a command or report a second completion.
SingleFlight ==
    /\ ~Busy => queue = None /\ ~Working /\ ~Answered
    /\ queue # None => ~Working /\ ~Answered
    /\ Working => ~Answered
    /\ queue # None => queue = active
    /\ Working => request = active

\* Every accepted request is answered once: the completions that poll returned
\* and the request still busy account for all submissions.
OneCompletionEach == submitted = completed + (IF Busy THEN 1 ELSE 0)

\* No request sends a command twice, a Restart never sends Start before Stop,
\* and dropping the Controller leaves at most the one command whose last check
\* had passed ("an in-flight command may still complete").
CommandsSent ==
    /\ sent.stops <= 1 /\ sent.starts <= 1 /\ sent.late <= 1
    /\ Working /\ sent.starts > 0 =>
         sent.stops = (IF request.action = "Restart" THEN 1 ELSE 0)

\* "Report completion only after observing the target state": read after the
\* command was announced, for the last command the request sends.
CompletedMeansObserved ==
    \A e \in {latest, taken} \ {None} :
        e.done /\ ~e.error => /\ e.observed.status.state = Target(e.action)
                              /\ e.observed.at >= e.command_at
                              /\ e.command_at > 0

\* The single-flight contract, see CommandSlot.
SlotPhase == IF ~Busy THEN "free"
             ELSE IF Answered \/ worker = "dead" THEN "answered"
             ELSE "running"

Slot == INSTANCE CommandSlot WITH
    phase  <- SlotPhase,
    accepted <- submitted,
    delivered <- completed,
    closed <- stop

ImplementsCommandSlot == Slot!FairSpec

\* The stamps the Services page is built on, see CommandEvents and ServiceView.
Stamps(e) == IF e = None THEN None
             ELSE [name |-> e.name, command_at |-> e.command_at,
                   observed |-> e.observed.at, done |-> e.done]

EventsPhase ==
    IF queue # None THEN "queued"
    ELSE CASE worker \in {"idle", "dead"} -> worker
           [] worker \in {"stop_check", "stop_call", "start_check", "start_call"} -> "announced"
           [] OTHER -> "working"

Events == INSTANCE CommandEvents WITH
    active <- IF Busy THEN active.name ELSE None,
    phase  <- EventsPhase,
    event  <- Stamps(event),
    latest <- Stamps(latest),
    taken  <- Stamps(taken)

ImplementsCommandEvents == Events!Spec

\* The controls come back: an accepted request is answered unless Trontop closes.
ControlsReturn == Busy ~> (~Busy \/ stop)

\* One command is under way, sent at most once, and called completed when it was seen to be.
CommandsAreObserved == TypeOK /\ SingleFlight /\ CommandsSent /\ CompletedMeansObserved

\* The two contracts of the controller: one request at a time, and the order of its stamps.
ImplementsContracts == ImplementsCommandSlot /\ ImplementsCommandEvents
=============================================================================

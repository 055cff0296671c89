--------------------------- MODULE CommandEvents ---------------------------
(***************************************************************************)
(* The stamps that a service command leaves: what the Services page can    *)
(* learn from src/src/service_control.rs about when a service was read and *)
(* when a command to it was announced.                                     *)
(*                                                                         *)
(* ServiceControl implements this specification (its CommandEvents         *)
(* refinement): here a worker that holds a request may observe, announce,  *)
(* send or give up, and finish, in any order that never sends a command    *)
(* it has not announced.  ServiceView builds the page on top of it.        *)
(***************************************************************************)
EXTENDS Naturals

CONSTANTS
    Services,      \* SCM service names
    None,          \* an empty Option
    Unwinding,     \* a panic ends one thread (dev profile), not the process
    MaxRequests,   \* bound: requests the UI submits
    MaxTime        \* bound: readings of the clock

\* Stamps are readings of the clock, 0 where there is none.
Event == [name : Services, command_at : Nat, observed : Nat, done : BOOLEAN]

ASSUME CommandEventsAssumption ==
    /\ None \notin Services /\ None \notin Event
    /\ Unwinding \in BOOLEAN
    /\ MaxRequests \in Nat /\ MaxTime \in Nat

VARIABLES
    now,        \* the monotonic clock
    active,     \* the service of the request not yet answered, or None
    phase,      \* the request in the channel or at the worker
    event,      \* the worker's current event, or None
    latest,     \* the mailbox: the newest event not read, or None
    polling,    \* the UI thread is inside Controller.poll
    taken,      \*   the event it found, or None
    stop,       \* the Controller was dropped
    submitted   \* history: requests accepted

uiVars == <<active, polling, taken, stop, submitted>>
vars == <<now, active, phase, event, latest, polling, taken, stop, submitted>>

NewEvent(name) ==
    [name |-> name, command_at |-> 0, observed |-> 0, done |-> FALSE]

-----------------------------------------------------------------------------
(* The UI *)

Submit(name) ==
    /\ ~polling /\ ~stop
    /\ active = None /\ phase = "idle"
    /\ submitted < MaxRequests
    /\ active' = name /\ phase' = "queued" /\ submitted' = submitted + 1
    /\ UNCHANGED <<now, event, latest, polling, taken, stop>>

PollTake ==
    /\ ~stop /\ ~polling
    /\ polling' = TRUE
    /\ \/ taken' = latest /\ latest' = None
       \/ /\ phase \in {"working", "announced"}
          /\ taken' = None /\ UNCHANGED latest
    /\ UNCHANGED <<now, active, phase, event, stop, submitted>>

Disconnected(name) ==
    [name |-> name, command_at |-> now, observed |-> 0, done |-> TRUE]

Polled == IF taken = None /\ phase = "dead" /\ active # None
          THEN Disconnected(active) ELSE taken

PollReturn ==
    /\ polling
    /\ active' = IF Polled # None /\ Polled.done THEN None ELSE active
    /\ polling' = FALSE /\ taken' = None
    /\ UNCHANGED <<now, phase, event, latest, stop, submitted>>

Drop ==
    /\ ~stop /\ ~polling
    /\ stop' = TRUE
    /\ UNCHANGED <<now, active, phase, event, latest, polling, taken, submitted>>

-----------------------------------------------------------------------------
(* The worker *)

Receive ==
    /\ phase = "queued" /\ ~stop
    /\ phase' = "working"
    /\ event' = NewEvent(active) /\ latest' = event'
    /\ UNCHANGED <<now, uiVars>>

\* A query of the service.  A reading that leads to a refusal is not published.
Observe ==
    /\ phase = "working"
    /\ event' = [event EXCEPT !.observed = now]
    /\ latest' \in {latest, event'}
    /\ UNCHANGED <<now, phase, uiVars>>

Announce ==
    /\ phase = "working" /\ ~stop
    /\ phase' = "announced"
    /\ event' \in { [event EXCEPT !.command_at = now],
                    [event EXCEPT !.command_at = now, !.observed = now] }
    /\ latest' = event'
    /\ UNCHANGED <<now, uiVars>>

\* The native call.
Send ==
    /\ phase = "announced"
    /\ phase' = "working"
    /\ UNCHANGED <<now, event, latest, uiVars>>

\* A last check fails: the announced command is not sent.
GiveUp ==
    /\ phase = "announced"
    /\ phase' = "working"
    /\ UNCHANGED <<now, event, latest, uiVars>>

Finish ==
    /\ phase = "working"
    /\ phase' = "idle" /\ event' = None
    /\ latest' = [event EXCEPT !.done = TRUE]
    /\ UNCHANGED <<now, uiVars>>

\* The worker ends: a panic, the closed channel or the end of the process.
End ==
    /\ \/ stop /\ phase # "dead"
       \/ Unwinding /\ phase \in {"working", "announced"}
    /\ phase' = "dead" /\ event' = None
    /\ UNCHANGED <<now, latest, uiVars>>

Tick ==
    /\ now < MaxTime
    /\ now' = now + 1
    /\ UNCHANGED <<phase, event, latest, uiVars>>

-----------------------------------------------------------------------------
(* Specification *)

Init ==
    /\ now = 1 /\ active = None /\ phase = "idle"
    /\ event = None /\ latest = None
    /\ polling = FALSE /\ taken = None /\ stop = FALSE /\ submitted = 0

Next == \/ \E name \in Services : Submit(name)
        \/ PollTake \/ PollReturn \/ Drop
        \/ Receive \/ Observe \/ Announce \/ Send \/ GiveUp \/ Finish \/ End
        \/ Tick

Spec == Init /\ [][Next]_vars
=============================================================================

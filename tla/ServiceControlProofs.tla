------------------------ MODULE ServiceControlProofs ------------------------
(***************************************************************************)
(* Proofs about ServiceControl for any services, any host processes, any   *)
(* number of requests and either panic strategy.                           *)
(***************************************************************************)
EXTENDS ServiceControl, TLAPS

-----------------------------------------------------------------------------
(* Type correctness *)

LEMMA DefaultsTyped ==
    /\ DefaultStatus \in Status /\ NoReading \in Reading
    /\ \A r \in Request : NewEvent(r) \in Event
    /\ \A state \in States, pid \in Pids \cup {0}, accepts \in BOOLEAN :
           Reported(state, pid, accepts) \in Status
  BY DEF DefaultStatus, Status, States, NoReading, Reading, NewEvent, Event,
         Request, Reported, Actions

LEMMA InitTyped == Init => TypeOK
<1> SUFFICES ASSUME Init PROVE TypeOK
  OBVIOUS
<1>1. service \in [Services -> Status]
  <2> DEFINE first == { Reported("Running", pid, TRUE) : pid \in Pids }
                        \cup { Reported("Stopped", 0, FALSE) }
  <2>1. first \subseteq Status
    BY DefaultsTyped, "Running" \in States, "Stopped" \in States DEF States
  <2>2. service \in [Services -> first]
    BY DEF Init
  <2> HIDE DEF first
  <2> QED BY <2>1, <2>2
<1> QED
  BY <1>1 DEF Init, TypeOK, Phases, Working

\* The events a worker can build from the one it holds.
LEMMA EventsTyped ==
    ASSUME TypeOK, Working
    PROVE  /\ request \in Request /\ event \in Event
           /\ latest \in Event \cup {None}
           /\ Observed \in Event
           /\ \A e \in {event, Observed}, b \in BOOLEAN :
                 /\ [e EXCEPT !.error = b] \in Event
                 /\ [e EXCEPT !.done = b] \in Event
                 /\ [e EXCEPT !.command_at = now] \in Event
<1>1. request \in Request /\ event \in Event /\ now \in Nat
  BY DEF TypeOK
<1>2. service[request.name] \in Status
  BY <1>1 DEF TypeOK, Request
<1>3. [at |-> now, status |-> service[request.name]] \in Reading
  BY <1>1, <1>2 DEF Reading
<1>4. Observed \in Event
  BY <1>1, <1>3 DEF Observed, Event
<1>5. \A e \in Event, b \in BOOLEAN :
        /\ [e EXCEPT !.error = b] \in Event
        /\ [e EXCEPT !.done = b] \in Event
        /\ [e EXCEPT !.command_at = now] \in Event
  BY <1>1 DEF Event
<1>6. latest \in Event \cup {None}
  BY DEF TypeOK
<1> QED BY <1>1, <1>4, <1>5, <1>6

\* What a step inside `execute' has to show, and what a native call has to.
LEMMA ExecuteStepTyped ==
    ASSUME TypeOK, Working,
           UNCHANGED <<service, queue, request, sent, uiVars, timeVars>>,
           latest' \in Event \cup {None},
           worker' \in Phases \ {"idle", "dead"},
           event' \in Event
    PROVE  TypeOK'
  BY DEF TypeOK, Working, uiVars, timeVars

LEMMA CallStepTyped ==
    ASSUME TypeOK, Working,
           UNCHANGED <<now, expired, queue, latest, request, uiVars>>,
           service' \in [Services -> Status],
           overdue' \in BOOLEAN,
           worker' \in Phases \ {"idle", "dead"},
           event' \in Event,
           sent' \in [stops : Nat, starts : Nat, late : Nat]
    PROVE  TypeOK'
  BY DEF TypeOK, Working, uiVars

LEMMA NextTyped == TypeOK /\ [Next]_vars => TypeOK'
<1> SUFFICES ASSUME TypeOK, [Next]_vars PROVE TypeOK'
  OBVIOUS
<1>1. CASE UI
  <2>1. CASE SubmitAny
    <3>1. PICK r \in Request : Submit(r)
      BY <2>1 DEF SubmitAny
    <3>2. /\ active' = r /\ queue' = r /\ expired' = FALSE
          /\ submitted' = submitted + 1
          /\ UNCHANGED <<now, service, latest, polling, taken, stop, worker,
                         request, event, sent, overdue, completed>>
      BY <3>1 DEF Submit, workerVars
    <3>3. submitted' \in Nat
      BY <3>2 DEF TypeOK
    <3>4. Working' = Working
      BY <3>2 DEF Working
    <3>5. /\ active' \in Request \cup {None} /\ queue' \in Request \cup {None}
          /\ request' = request /\ event' = event
      BY <3>2
    <3> QED BY <3>2, <3>3, <3>4, <3>5 DEF TypeOK
  <2>2. CASE PollTake
    BY <2>2 DEF TypeOK, PollTake, workerVars, timeVars, Working
  <2>3. CASE PollReturn
    <3>1. active' \in Request \cup {None} /\ completed' \in Nat
      BY <2>3 DEF TypeOK, PollReturn
    <3> QED BY <2>3, <3>1 DEF TypeOK, PollReturn, workerVars, timeVars, Working
  <2>4. CASE Drop
    BY <2>4 DEF TypeOK, Drop, workerVars, timeVars, Working
  <2> QED BY <1>1, <2>1, <2>2, <2>3, <2>4 DEF UI
<1>2. CASE Worker
  <2>1. CASE Open
    <3>1. Working
      BY <2>1 DEF Open, Working
    <3>2. UNCHANGED <<service, queue, request, sent, uiVars, timeVars>>
      BY <2>1 DEF Open
    <3>3. latest' \in Event \cup {None} /\ event' \in Event
      BY <2>1, <3>1, EventsTyped DEF Open, Fail
    <3>4. worker' \in Phases \ {"idle", "dead"}
      BY <2>1 DEF Open, Fail, Phases
    <3> QED BY <3>1, <3>2, <3>3, <3>4, ExecuteStepTyped
  <2>2. CASE Preflight
    <3>1. Working
      BY <2>2 DEF Preflight, Working
    <3>2. UNCHANGED <<service, queue, request, sent, uiVars, timeVars>>
      BY <2>2 DEF Preflight
    <3>3. latest' \in Event \cup {None} /\ event' \in Event
      BY <2>2, <3>1, EventsTyped DEF Preflight, Fail
    <3>4. worker' \in Phases \ {"idle", "dead"}
      BY <2>2 DEF Preflight, Fail, Phases
    <3> QED BY <3>1, <3>2, <3>3, <3>4, ExecuteStepTyped
  <2>3. CASE StopGate
    <3>1. Working
      BY <2>3 DEF StopGate, Working
    <3>2. UNCHANGED <<service, queue, request, sent, uiVars, timeVars>>
      BY <2>3 DEF StopGate
    <3>3. latest' \in Event \cup {None} /\ event' \in Event
      BY <2>3, <3>1, EventsTyped DEF StopGate, Fail, Publish
    <3>4. worker' \in Phases \ {"idle", "dead"}
      BY <2>3 DEF StopGate, Fail, Phases
    <3> QED BY <3>1, <3>2, <3>3, <3>4, ExecuteStepTyped
  <2>4. CASE StopCheck
    <3>1. Working
      BY <2>4 DEF StopCheck, Working
    <3>2. UNCHANGED <<service, queue, request, sent, uiVars, timeVars>>
      BY <2>4 DEF StopCheck
    <3>3. latest' \in Event \cup {None} /\ event' \in Event
      BY <2>4, <3>1, EventsTyped DEF StopCheck, Fail
    <3>4. worker' \in Phases \ {"idle", "dead"}
      BY <2>4 DEF StopCheck, Fail, Phases
    <3> QED BY <3>1, <3>2, <3>3, <3>4, ExecuteStepTyped
  <2>5. CASE StopWait
    <3>1. Working
      BY <2>5 DEF StopWait, Working
    <3>2. UNCHANGED <<service, queue, request, sent, uiVars, timeVars>>
      BY <2>5 DEF StopWait
    <3>3. latest' \in Event \cup {None} /\ event' \in Event
      BY <2>5, <3>1, EventsTyped DEF StopWait, WaitFor, Fail
    <3>4. worker' \in Phases \ {"idle", "dead"}
      BY <2>5 DEF StopWait, WaitFor, Fail, Phases
    <3> QED BY <3>1, <3>2, <3>3, <3>4, ExecuteStepTyped
  <2>6. CASE StartGate
    <3>1. Working
      BY <2>6 DEF StartGate, Working
    <3>2. UNCHANGED <<service, queue, request, sent, uiVars, timeVars>>
      BY <2>6 DEF StartGate
    <3>3. latest' \in Event \cup {None} /\ event' \in Event
      BY <2>6, <3>1, EventsTyped DEF StartGate, Fail, Publish
    <3>4. worker' \in Phases \ {"idle", "dead"}
      BY <2>6 DEF StartGate, Fail, Phases
    <3> QED BY <3>1, <3>2, <3>3, <3>4, ExecuteStepTyped
  <2>7. CASE StartCheck
    <3>1. Working
      BY <2>7 DEF StartCheck, Working
    <3>2. UNCHANGED <<service, queue, request, sent, uiVars, timeVars>>
      BY <2>7 DEF StartCheck
    <3>3. latest' \in Event \cup {None} /\ event' \in Event
      BY <2>7, <3>1, EventsTyped DEF StartCheck, Fail
    <3>4. worker' \in Phases \ {"idle", "dead"}
      BY <2>7 DEF StartCheck, Fail, Phases
    <3> QED BY <3>1, <3>2, <3>3, <3>4, ExecuteStepTyped
  <2>8. CASE StartWait
    <3>1. Working
      BY <2>8 DEF StartWait, Working
    <3>2. UNCHANGED <<service, queue, request, sent, uiVars, timeVars>>
      BY <2>8 DEF StartWait
    <3>3. latest' \in Event \cup {None} /\ event' \in Event
      BY <2>8, <3>1, EventsTyped DEF StartWait, WaitFor, Fail
    <3>4. worker' \in Phases \ {"idle", "dead"}
      BY <2>8 DEF StartWait, WaitFor, Fail, Phases
    <3> QED BY <3>1, <3>2, <3>3, <3>4, ExecuteStepTyped
  <2>9. CASE StopCall
    <3>1. Working /\ request \in Request /\ event \in Event
      BY <2>9, EventsTyped DEF StopCall, Working
    <3>2. /\ service' \in {service, [service EXCEPT ![request.name] = StopEffect(@)]}
          /\ \/ Fail /\ UNCHANGED overdue
             \/ worker' = "stop_wait" /\ overdue' = FALSE /\ UNCHANGED <<event, latest>>
      BY <2>9 DEF StopCall, Command
    <3>3. service' \in [Services -> Status]
      <4>1. service \in [Services -> Status]
        BY DEF TypeOK
      <4>2. \A status \in Status : StopEffect(status) \in Status
        BY DEF StopEffect, Status, States
      <4> QED BY <3>2, <4>1, <4>2
    <3>4. /\ worker' \in Phases \ {"idle", "dead"} /\ event' \in Event
          /\ overdue' \in BOOLEAN /\ UNCHANGED latest
      BY <3>1, <3>2, EventsTyped DEF Fail, Phases, TypeOK
    <3>5. sent' \in [stops : Nat, starts : Nat, late : Nat]
      <4>1. sent \in [stops : Nat, starts : Nat, late : Nat]
        BY DEF TypeOK
      <4>2. Late \in Nat /\ sent.stops + 1 \in Nat /\ sent.starts + 1 \in Nat
        BY <4>1 DEF Late
      <4> QED BY <2>9, <4>1, <4>2 DEF StopCall
    <3>6. UNCHANGED <<now, expired, queue, request, uiVars>>
      BY <2>9 DEF StopCall
    <3> QED BY <3>1, <3>3, <3>4, <3>5, <3>6, CallStepTyped
  <2>10. CASE StartCall
    <3>1. Working /\ request \in Request /\ event \in Event
      BY <2>10, EventsTyped DEF StartCall, Working
    <3>2. /\ service' \in {service, [service EXCEPT ![request.name] = StartEffect(@)]}
          /\ \/ Fail /\ UNCHANGED overdue
             \/ worker' = "start_wait" /\ overdue' = FALSE /\ UNCHANGED <<event, latest>>
      BY <2>10 DEF StartCall, Command
    <3>3. service' \in [Services -> Status]
      <4>1. service \in [Services -> Status]
        BY DEF TypeOK
      <4>2. \A status \in Status : StartEffect(status) \in Status
        BY DEF StartEffect, Status, States
      <4> QED BY <3>2, <4>1, <4>2
    <3>4. /\ worker' \in Phases \ {"idle", "dead"} /\ event' \in Event
          /\ overdue' \in BOOLEAN /\ UNCHANGED latest
      BY <3>1, <3>2, EventsTyped DEF Fail, Phases, TypeOK
    <3>5. sent' \in [stops : Nat, starts : Nat, late : Nat]
      <4>1. sent \in [stops : Nat, starts : Nat, late : Nat]
        BY DEF TypeOK
      <4>2. Late \in Nat /\ sent.stops + 1 \in Nat /\ sent.starts + 1 \in Nat
        BY <4>1 DEF Late
      <4> QED BY <2>10, <4>1, <4>2 DEF StartCall
    <3>6. UNCHANGED <<now, expired, queue, request, uiVars>>
      BY <2>10 DEF StartCall
    <3> QED BY <3>1, <3>3, <3>4, <3>5, <3>6, CallStepTyped
  <2>11. CASE Receive
    <3>1. queue \in Request /\ NewEvent(queue) \in Event
      BY <2>11, DefaultsTyped DEF Receive, TypeOK
    <3>2. CASE stop
      BY <2>11, <3>2 DEF Receive, TypeOK, Working, Phases, uiVars, timeVars
    <3>3. CASE ~stop
      BY <2>11, <3>1, <3>3
      DEF Receive, Publish, TypeOK, Working, Phases, uiVars, timeVars
    <3> QED BY <3>2, <3>3
  <2>12. CASE Disconnect
    BY <2>12 DEF Disconnect, TypeOK, Working, Phases, uiVars, timeVars
  <2>13. CASE Finish
    <3>1. latest' \in Event
      BY <2>13, EventsTyped DEF Finish, Working
    <3> QED
      BY <2>13, <3>1 DEF Finish, TypeOK, Working, Phases, uiVars, timeVars
  <2> QED BY <1>2, <2>1, <2>2, <2>3, <2>4, <2>5, <2>6, <2>7, <2>8, <2>9, <2>10, <2>11, <2>12, <2>13 DEF Worker
<1>3. CASE Outside
  <2>1. ASSUME NEW name \in Services, ServiceMoves(name) PROVE TypeOK'
    <3>1. service' \in [Services -> Status]
      BY <2>1, DefaultsTyped, ServiceControlAssumption
      DEF ServiceMoves, TypeOK
    <3> QED
      BY <2>1, <3>1 DEF ServiceMoves, TypeOK, Working, uiVars, workerVars, timeVars
  <2>2. CASE Tick
    BY <2>2 DEF Tick, TypeOK, Working, uiVars, workerVars
  <2>3. CASE ConfirmationExpires
    BY <2>3 DEF ConfirmationExpires, TypeOK, Working, uiVars, workerVars
  <2>4. CASE DeadlinePasses
    BY <2>4 DEF DeadlinePasses, TypeOK, Working, uiVars, workerVars
  <2>5. CASE Panic
    BY <2>5 DEF Panic, TypeOK, Working, Phases, uiVars, timeVars
  <2>6. CASE ProcessExit
    BY <2>6 DEF ProcessExit, TypeOK, Working, Phases, uiVars, timeVars
  <2> QED BY <1>3, <2>1, <2>2, <2>3, <2>4, <2>5, <2>6 DEF Outside
<1>4. CASE UNCHANGED vars
  BY <1>4 DEF TypeOK, vars, Working
<1> QED BY <1>1, <1>2, <1>3, <1>4 DEF Next

\* Every variable keeps its type, whatever the interleaving.
THEOREM TypeCorrect == Spec => []TypeOK
  BY InitTyped, NextTyped, PTL DEF Spec
-----------------------------------------------------------------------------
(* Single flight *)

DoneEvent(e) == e # None /\ e.done

\* SingleFlight and OneCompletionEach are not inductive alone: a completion is
\* in one place at most, a worker that ended took its queue with it, and an
\* event the worker still works on is not a completion.
SlotInv ==
    /\ SingleFlight
    /\ OneCompletionEach
    /\ polling => ~stop
    /\ ~polling => taken = None
    /\ ~(DoneEvent(latest) /\ DoneEvent(taken))
    /\ worker = "dead" /\ ~stop => queue = None /\ ~Answered
    /\ Working => ~event.done

LEMMA InitSlot == Init => SlotInv
  BY DEF Init, SlotInv, SingleFlight, OneCompletionEach, DoneEvent, Answered,
         Working, Busy

\* A step inside `execute' publishes progress at most.
LEMMA ExecuteStepSlot ==
    ASSUME TypeOK, SlotInv, Working,
           UNCHANGED <<queue, request, uiVars>>,
           latest' = latest \/ (latest' # None /\ ~latest'.done),
           ~event'.done,
           worker' \notin {"idle", "dead"}
    PROVE  SlotInv'
<1>1. /\ UNCHANGED <<active, polling, taken, stop, submitted, completed>>
      /\ Working'
  BY DEF uiVars, Working
<1>2. Answered' => Answered
  BY <1>1 DEF Answered
<1>3. SingleFlight' /\ OneCompletionEach'
  BY <1>1, <1>2 DEF SlotInv, SingleFlight, OneCompletionEach, Busy
<1>4. ~(DoneEvent(latest) /\ DoneEvent(taken))'
  BY <1>1 DEF SlotInv, DoneEvent
<1> QED BY <1>1, <1>2, <1>3, <1>4 DEF SlotInv, Working

LEMMA EventsNotDone ==
    ASSUME TypeOK, SlotInv, Working
    PROVE  /\ ~event.done /\ ~Observed.done
           /\ event # None /\ Observed # None
           /\ \A e \in {event, Observed}, b \in BOOLEAN :
                 /\ ~[e EXCEPT !.error = b].done
                 /\ ~[e EXCEPT !.command_at = now].done
                 /\ [e EXCEPT !.error = b] # None
                 /\ [e EXCEPT !.command_at = now] # None
<1>1. ~event.done
  BY DEF SlotInv
<1>2. event \in Event /\ Observed \in Event
  BY EventsTyped
<1>3. Observed.done = event.done
  BY <1>2 DEF Observed, Event
<1>4. \A e \in {event, Observed}, b \in BOOLEAN :
         /\ [e EXCEPT !.error = b].done = e.done
         /\ [e EXCEPT !.command_at = now].done = e.done
  BY <1>2 DEF Event
<1> QED BY <1>1, <1>2, <1>3, <1>4, EventsTyped, ServiceControlAssumption

LEMMA NextSlot == TypeOK /\ SlotInv /\ [Next]_vars => SlotInv'
<1> SUFFICES ASSUME TypeOK, SlotInv, [Next]_vars PROVE SlotInv'
  OBVIOUS
<1>1. CASE UI
  <2>1. CASE SubmitAny
    <3>1. PICK r \in Request : Submit(r)
      BY <2>1 DEF SubmitAny
    <3>2. /\ active' = r /\ queue' = r /\ submitted' = submitted + 1
          /\ UNCHANGED <<latest, polling, taken, stop, worker, request, event,
                         completed>>
          /\ ~Busy /\ worker # "dead"
      BY <3>1 DEF Submit, workerVars, Available
    <3>3. r # None /\ submitted \in Nat /\ completed \in Nat
      BY ServiceControlAssumption DEF TypeOK
    <3>4. OneCompletionEach'
      BY <3>2, <3>3 DEF SlotInv, OneCompletionEach, Busy
    <3>5. Answered' = Answered /\ Working' = Working
      BY <3>2 DEF Answered, Working
    <3> QED BY <3>2, <3>3, <3>4, <3>5
            DEF SlotInv, SingleFlight, Busy, DoneEvent
  <2>2. CASE PollTake
    <3>1. /\ UNCHANGED <<active, queue, stop, submitted, completed, worker,
                         request, event>>
          /\ ~stop /\ taken = None /\ polling'
      BY <2>2 DEF PollTake, workerVars, SlotInv
    <3>2. \/ taken' = latest /\ latest' = None
          \/ taken' = None /\ latest' = latest
      BY <2>2 DEF PollTake
    <3>3. Answered' = Answered /\ ~(DoneEvent(latest) /\ DoneEvent(taken))'
      BY <3>1, <3>2 DEF Answered, DoneEvent
    <3> QED BY <3>1, <3>3 DEF SlotInv, SingleFlight, OneCompletionEach, Busy, Working
  <2>3. CASE PollReturn
    <3>1. /\ UNCHANGED <<queue, latest, stop, submitted, worker, request, event>>
          /\ taken' = None /\ ~polling' /\ polling
      BY <2>3 DEF PollReturn, workerVars
    <3>2. CASE DoneEvent(Polled)
      <4>1. active' = None /\ completed' = completed + 1
        BY <2>3, <3>2 DEF PollReturn, DoneEvent
      <4>2. Busy /\ queue = None /\ ~Working /\ ~DoneEvent(latest)
        <5>1. CASE taken = None /\ worker = "dead" /\ Busy
          BY <3>1, <5>1 DEF SlotInv, Answered, DoneEvent, Working
        <5>2. CASE ~(taken = None /\ worker = "dead" /\ Busy)
          <6>1. DoneEvent(taken) /\ Answered
            BY <3>2, <5>2 DEF Polled, DoneEvent, Answered
          <6> QED BY <6>1 DEF SlotInv, SingleFlight
        <5> QED BY <5>1, <5>2
      <4>3. submitted \in Nat /\ completed \in Nat
        BY DEF TypeOK
      <4>4. OneCompletionEach'
        BY <3>1, <4>1, <4>2, <4>3 DEF SlotInv, OneCompletionEach, Busy
      <4>5. ~Answered' /\ ~Working'
        BY <3>1, <4>2 DEF Answered, DoneEvent, Working
      <4> QED BY <3>1, <4>1, <4>2, <4>4, <4>5
              DEF SlotInv, SingleFlight, Busy, DoneEvent
    <3>3. CASE ~DoneEvent(Polled)
      <4>1. UNCHANGED <<active, completed>>
        BY <2>3, <3>3 DEF PollReturn, DoneEvent
      <4>2. Answered' => Answered
        BY <3>1 DEF Answered
      <4> QED BY <3>1, <4>1, <4>2
              DEF SlotInv, SingleFlight, OneCompletionEach, Busy, DoneEvent, Working
    <3> QED BY <3>2, <3>3
  <2>4. CASE Drop
    BY <2>4 DEF Drop, workerVars, SlotInv, SingleFlight, OneCompletionEach,
                Busy, DoneEvent, Working, Answered
  <2> QED BY <1>1, <2>1, <2>2, <2>3, <2>4 DEF UI
<1>2. CASE Worker
  <2>1. CASE Open
    <3>1. Working /\ UNCHANGED <<queue, request, uiVars>>
      BY <2>1 DEF Open, Working
    <3>2. /\ latest' = latest \/ (latest' # None /\ ~latest'.done)
          /\ ~event'.done
      BY <2>1, <3>1, EventsNotDone DEF Open, Fail
    <3>3. worker' \notin {"idle", "dead"}
      BY <2>1 DEF Open, Fail
    <3> QED BY <3>1, <3>2, <3>3, ExecuteStepSlot
  <2>2. CASE Preflight
    <3>1. Working /\ UNCHANGED <<queue, request, uiVars>>
      BY <2>2 DEF Preflight, Working
    <3>2. /\ latest' = latest \/ (latest' # None /\ ~latest'.done)
          /\ ~event'.done
      BY <2>2, <3>1, EventsNotDone DEF Preflight, Fail
    <3>3. worker' \notin {"idle", "dead"}
      BY <2>2 DEF Preflight, Fail
    <3> QED BY <3>1, <3>2, <3>3, ExecuteStepSlot
  <2>3. CASE StopGate
    <3>1. Working /\ UNCHANGED <<queue, request, uiVars>>
      BY <2>3 DEF StopGate, Working
    <3>2. /\ latest' = latest \/ (latest' # None /\ ~latest'.done)
          /\ ~event'.done
      BY <2>3, <3>1, EventsNotDone DEF StopGate, Fail, Publish
    <3>3. worker' \notin {"idle", "dead"}
      BY <2>3 DEF StopGate, Fail
    <3> QED BY <3>1, <3>2, <3>3, ExecuteStepSlot
  <2>4. CASE StopCheck
    <3>1. Working /\ UNCHANGED <<queue, request, uiVars>>
      BY <2>4 DEF StopCheck, Working
    <3>2. /\ latest' = latest \/ (latest' # None /\ ~latest'.done)
          /\ ~event'.done
      BY <2>4, <3>1, EventsNotDone DEF StopCheck, Fail
    <3>3. worker' \notin {"idle", "dead"}
      BY <2>4 DEF StopCheck, Fail
    <3> QED BY <3>1, <3>2, <3>3, ExecuteStepSlot
  <2>5. CASE StopWait
    <3>1. Working /\ UNCHANGED <<queue, request, uiVars>>
      BY <2>5 DEF StopWait, Working
    <3>2. /\ latest' = latest \/ (latest' # None /\ ~latest'.done)
          /\ ~event'.done
      BY <2>5, <3>1, EventsNotDone DEF StopWait, WaitFor, Fail
    <3>3. worker' \notin {"idle", "dead"}
      BY <2>5 DEF StopWait, WaitFor, Fail
    <3> QED BY <3>1, <3>2, <3>3, ExecuteStepSlot
  <2>6. CASE StartGate
    <3>1. Working /\ UNCHANGED <<queue, request, uiVars>>
      BY <2>6 DEF StartGate, Working
    <3>2. /\ latest' = latest \/ (latest' # None /\ ~latest'.done)
          /\ ~event'.done
      BY <2>6, <3>1, EventsNotDone DEF StartGate, Fail, Publish
    <3>3. worker' \notin {"idle", "dead"}
      BY <2>6 DEF StartGate, Fail
    <3> QED BY <3>1, <3>2, <3>3, ExecuteStepSlot
  <2>7. CASE StartCheck
    <3>1. Working /\ UNCHANGED <<queue, request, uiVars>>
      BY <2>7 DEF StartCheck, Working
    <3>2. /\ latest' = latest \/ (latest' # None /\ ~latest'.done)
          /\ ~event'.done
      BY <2>7, <3>1, EventsNotDone DEF StartCheck, Fail
    <3>3. worker' \notin {"idle", "dead"}
      BY <2>7 DEF StartCheck, Fail
    <3> QED BY <3>1, <3>2, <3>3, ExecuteStepSlot
  <2>8. CASE StartWait
    <3>1. Working /\ UNCHANGED <<queue, request, uiVars>>
      BY <2>8 DEF StartWait, Working
    <3>2. /\ latest' = latest \/ (latest' # None /\ ~latest'.done)
          /\ ~event'.done
      BY <2>8, <3>1, EventsNotDone DEF StartWait, WaitFor, Fail
    <3>3. worker' \notin {"idle", "dead"}
      BY <2>8 DEF StartWait, WaitFor, Fail
    <3> QED BY <3>1, <3>2, <3>3, ExecuteStepSlot
  <2>9. CASE StopCall
    <3>1. Working /\ UNCHANGED <<queue, request, uiVars>>
      BY <2>9 DEF StopCall, Working
    <3>2. /\ latest' = latest \/ (latest' # None /\ ~latest'.done)
          /\ ~event'.done
      BY <2>9, <3>1, EventsNotDone DEF StopCall, Command, Fail
    <3>3. worker' \notin {"idle", "dead"}
      BY <2>9 DEF StopCall, Command, Fail
    <3> QED BY <3>1, <3>2, <3>3, ExecuteStepSlot
  <2>10. CASE StartCall
    <3>1. Working /\ UNCHANGED <<queue, request, uiVars>>
      BY <2>10 DEF StartCall, Working
    <3>2. /\ latest' = latest \/ (latest' # None /\ ~latest'.done)
          /\ ~event'.done
      BY <2>10, <3>1, EventsNotDone DEF StartCall, Command, Fail
    <3>3. worker' \notin {"idle", "dead"}
      BY <2>10 DEF StartCall, Command, Fail
    <3> QED BY <3>1, <3>2, <3>3, ExecuteStepSlot
  <2>11. CASE Receive
    <3>1. /\ queue' = None /\ worker = "idle" /\ queue # None
          /\ UNCHANGED <<active, polling, taken, stop, submitted, completed>>
      BY <2>11 DEF Receive, uiVars
    <3>2. ~Answered /\ queue = active /\ Busy
      BY <3>1 DEF SlotInv, SingleFlight, Busy
    <3>3. CASE stop
      <4>1. worker' = "dead" /\ UNCHANGED <<latest, request, event>>
        BY <2>11, <3>3 DEF Receive
      <4> QED BY <3>1, <3>2, <3>3, <4>1
              DEF SlotInv, SingleFlight, OneCompletionEach, Busy, Working,
                  Answered, DoneEvent
    <3>4. CASE ~stop
      <4>1. /\ worker' = "open" /\ request' = queue
            /\ event' = NewEvent(queue) /\ latest' = NewEvent(queue)
        BY <2>11, <3>4 DEF Receive, Publish
      <4>2. ~NewEvent(queue).done
        BY DEF NewEvent
      <4> QED BY <3>1, <3>2, <3>4, <4>1, <4>2
              DEF SlotInv, SingleFlight, OneCompletionEach, Busy, Working,
                  Answered, DoneEvent
    <3> QED BY <3>3, <3>4
  <2>12. CASE Disconnect
    BY <2>12 DEF Disconnect, uiVars, SlotInv, SingleFlight, OneCompletionEach,
                  Busy, Working, Answered, DoneEvent
  <2>13. CASE Finish
    <3>1. /\ worker' = "idle" /\ Working
          /\ UNCHANGED <<queue, active, polling, taken, stop, submitted, completed>>
      BY <2>13 DEF Finish, uiVars, Working
    <3>2. ~Answered /\ Busy /\ queue = None
      <4>1. request = active /\ request # None
        BY <3>1, EventsTyped, ServiceControlAssumption DEF SlotInv, SingleFlight
      <4> QED BY <3>1, <4>1 DEF SlotInv, SingleFlight, Busy
    <3> QED BY <3>1, <3>2 DEF SlotInv, SingleFlight, OneCompletionEach, Busy,
                              Working, Answered, DoneEvent
  <2> QED BY <1>2, <2>1, <2>2, <2>3, <2>4, <2>5, <2>6, <2>7, <2>8, <2>9, <2>10, <2>11, <2>12, <2>13 DEF Worker
<1>3. CASE Outside
  <2>1. ASSUME NEW name \in Services, ServiceMoves(name) PROVE SlotInv'
    BY <2>1 DEF ServiceMoves, uiVars, workerVars, SlotInv, SingleFlight,
                OneCompletionEach, Busy, Working, Answered, DoneEvent
  <2>2. CASE Tick \/ ConfirmationExpires \/ DeadlinePasses
    <3>1. UNCHANGED <<queue, latest, active, polling, taken, stop, submitted,
                      completed, worker, request, event>>
      BY <2>2 DEF Tick, ConfirmationExpires, DeadlinePasses, uiVars, workerVars
    <3> QED BY <3>1 DEF SlotInv, SingleFlight, OneCompletionEach, Busy, Working,
                        Answered, DoneEvent
  <2>3. CASE Panic
    BY <2>3 DEF Panic, uiVars, SlotInv, SingleFlight, OneCompletionEach, Busy,
                Working, Answered, DoneEvent
  <2>4. CASE ProcessExit
    BY <2>4 DEF ProcessExit, uiVars, SlotInv, SingleFlight, OneCompletionEach,
                Busy, Working, Answered, DoneEvent
  <2> QED BY <1>3, <2>1, <2>2, <2>3, <2>4 DEF Outside
<1>4. CASE UNCHANGED vars
  BY <1>4 DEF vars, SlotInv, SingleFlight, OneCompletionEach, Busy, Working,
              Answered, DoneEvent
<1> QED BY <1>1, <1>2, <1>3, <1>4 DEF Next

LEMMA SlotInvariant == Spec => [](TypeOK /\ SlotInv)
<1>1. Init => TypeOK /\ SlotInv
  BY InitTyped, InitSlot
<1>2. TypeOK /\ SlotInv /\ [Next]_vars => (TypeOK /\ SlotInv)'
  BY NextTyped, NextSlot
<1> QED BY <1>1, <1>2, PTL DEF Spec

\* One command at a time: when the controls are enabled again, no request, no
\* running command and no unread completion of an earlier one is left.
THEOREM OneCommandAtATime == Spec => []SingleFlight
<1>1. SlotInv => SingleFlight
  BY DEF SlotInv
<1> QED BY <1>1, SlotInvariant, PTL

\* Every accepted request is answered once, by the worker or on its behalf.
THEOREM AnsweredOnce == Spec => []OneCompletionEach
<1>1. SlotInv => OneCompletionEach
  BY DEF SlotInv
<1> QED BY <1>1, SlotInvariant, PTL
-----------------------------------------------------------------------------
(* ServiceControl implements CommandSlot *)

\* A step that keeps all the contract can see is a stutter of it.
LEMMA SlotStutter ==
    ASSUME UNCHANGED <<submitted, completed, stop>>, SlotPhase' = SlotPhase
    PROVE  UNCHANGED Slot!vars
  BY DEF Slot!vars

\* A step inside `execute', of Windows or of the clock shows nothing of itself.
LEMMA QuietStep ==
    ASSUME TypeOK, SlotInv,
           UNCHANGED uiVars,
           worker' = "dead" <=> worker = "dead",
           latest' = latest \/ (Working /\ latest' # None /\ ~latest'.done)
    PROVE  UNCHANGED Slot!vars
<1>1. Answered' = Answered
  BY DEF SlotInv, SingleFlight, Answered, uiVars
<1>2. SlotPhase' = SlotPhase
  BY <1>1 DEF SlotPhase, Busy, uiVars
<1> QED BY <1>2, SlotStutter DEF uiVars

\* The worker's end answers a request that is not yet answered.
LEMMA EndStep ==
    ASSUME UNCHANGED <<uiVars, latest>>, worker' = "dead"
    PROVE  Slot!Answer \/ UNCHANGED Slot!vars
<1>1. Answered' = Answered /\ Busy' = Busy
  BY DEF Answered, Busy, uiVars
<1>2. UNCHANGED <<submitted, completed, stop>>
  BY DEF uiVars
<1>3. CASE SlotPhase = "running"
  BY <1>1, <1>2, <1>3 DEF SlotPhase, Slot!Answer
<1>4. CASE SlotPhase # "running"
  BY <1>1, <1>2, <1>4, SlotStutter DEF SlotPhase
<1> QED BY <1>3, <1>4

LEMMA StepImplementsSlot ==
    TypeOK /\ SlotInv /\ [Next]_vars => [Slot!Next]_(Slot!vars)
<1> SUFFICES ASSUME TypeOK, SlotInv, [Next]_vars
             PROVE  Slot!Next \/ UNCHANGED Slot!vars
  OBVIOUS
<1>1. CASE UI
  <2>1. CASE SubmitAny
    <3>1. PICK r \in Request : Submit(r)
      BY <2>1 DEF SubmitAny
    <3>2. /\ active' = r /\ submitted' = submitted + 1 /\ ~Busy /\ ~stop
          /\ worker' # "dead" /\ UNCHANGED <<latest, taken, stop, completed>>
      BY <3>1 DEF Submit, workerVars, Available
    <3>3. ~Answered' /\ r # None
      BY <3>2, ServiceControlAssumption DEF SlotInv, SingleFlight, Answered
    <3>4. SlotPhase = "free" /\ SlotPhase' = "running"
      BY <3>2, <3>3 DEF SlotPhase, Busy
    <3> QED BY <3>2, <3>4 DEF Slot!Next, Slot!Accept
  <2>2. CASE PollTake
    <3>1. /\ UNCHANGED <<active, stop, submitted, completed, worker>>
          /\ taken = None
          /\ \/ taken' = latest /\ latest' = None
             \/ taken' = None /\ latest' = latest
      BY <2>2 DEF PollTake, workerVars, SlotInv
    <3>2. Answered' = Answered
      BY <3>1 DEF Answered
    <3>3. SlotPhase' = SlotPhase
      BY <3>1, <3>2 DEF SlotPhase, Busy
    <3> QED BY <3>1, <3>3, SlotStutter
  <2>3. CASE PollReturn
    <3>1. /\ UNCHANGED <<latest, stop, submitted, worker>> /\ taken' = None
          /\ ~stop
      BY <2>3 DEF PollReturn, workerVars, SlotInv
    <3>2. CASE DoneEvent(Polled)
      <4>1. active' = None /\ completed' = completed + 1
        BY <2>3, <3>2 DEF PollReturn, DoneEvent
      <4>2. Answered \/ (worker = "dead" /\ Busy)
        <5>1. CASE ~(taken = None /\ worker = "dead" /\ Busy)
          <6>1. DoneEvent(taken)
            BY <3>2, <5>1 DEF Polled
          <6>2. Answered
            BY <6>1 DEF DoneEvent, Answered
          <6> QED BY <6>2
        <5> QED BY <5>1
      <4>3. SlotPhase = "answered"
        BY <4>2 DEF SlotPhase, SlotInv, SingleFlight
      <4>4. SlotPhase' = "free"
        BY <4>1 DEF SlotPhase, Busy
      <4> QED BY <3>1, <4>1, <4>3, <4>4 DEF Slot!Next, Slot!Deliver
    <3>3. CASE ~DoneEvent(Polled)
      <4>1. UNCHANGED <<active, completed>>
        BY <2>3, <3>3 DEF PollReturn, DoneEvent
      <4>2. Answered' = Answered \/ (worker = "dead" /\ Busy)
        BY <3>1, <3>3 DEF Answered, Polled, DoneEvent
      <4>3. SlotPhase' = SlotPhase
        BY <3>1, <4>1, <4>2 DEF SlotPhase, Busy
      <4> QED BY <3>1, <4>1, <4>3, SlotStutter
    <3> QED BY <3>2, <3>3
  <2>4. CASE Drop
    <3>1. /\ stop' = TRUE /\ ~stop
          /\ UNCHANGED <<active, latest, taken, worker, submitted, completed>>
      BY <2>4 DEF Drop, workerVars
    <3>2. SlotPhase' = SlotPhase
      BY <3>1 DEF SlotPhase, Busy, Answered
    <3> QED BY <3>1, <3>2 DEF Slot!Next, Slot!Close
  <2> QED BY <1>1, <2>1, <2>2, <2>3, <2>4 DEF UI
<1>2. CASE Worker
  <2>1. CASE Open
    <3>1. Working /\ UNCHANGED uiVars
      BY <2>1 DEF Open, Working
    <3>2. latest' = latest \/ (latest' # None /\ ~latest'.done)
      BY <2>1, <3>1, EventsNotDone DEF Open, Fail
    <3>3. worker # "dead" /\ worker' # "dead"
      BY <2>1 DEF Open, Fail
    <3> QED BY <3>1, <3>2, <3>3, QuietStep
  <2>2. CASE Preflight
    <3>1. Working /\ UNCHANGED uiVars
      BY <2>2 DEF Preflight, Working
    <3>2. latest' = latest \/ (latest' # None /\ ~latest'.done)
      BY <2>2, <3>1, EventsNotDone DEF Preflight, Fail
    <3>3. worker # "dead" /\ worker' # "dead"
      BY <2>2 DEF Preflight, Fail
    <3> QED BY <3>1, <3>2, <3>3, QuietStep
  <2>3. CASE StopGate
    <3>1. Working /\ UNCHANGED uiVars
      BY <2>3 DEF StopGate, Working
    <3>2. latest' = latest \/ (latest' # None /\ ~latest'.done)
      BY <2>3, <3>1, EventsNotDone DEF StopGate, Fail, Publish
    <3>3. worker # "dead" /\ worker' # "dead"
      BY <2>3 DEF StopGate, Fail
    <3> QED BY <3>1, <3>2, <3>3, QuietStep
  <2>4. CASE StopCheck
    <3>1. Working /\ UNCHANGED uiVars
      BY <2>4 DEF StopCheck, Working
    <3>2. latest' = latest \/ (latest' # None /\ ~latest'.done)
      BY <2>4, <3>1, EventsNotDone DEF StopCheck, Fail
    <3>3. worker # "dead" /\ worker' # "dead"
      BY <2>4 DEF StopCheck, Fail
    <3> QED BY <3>1, <3>2, <3>3, QuietStep
  <2>5. CASE StopWait
    <3>1. Working /\ UNCHANGED uiVars
      BY <2>5 DEF StopWait, Working
    <3>2. latest' = latest \/ (latest' # None /\ ~latest'.done)
      BY <2>5, <3>1, EventsNotDone DEF StopWait, WaitFor, Fail
    <3>3. worker # "dead" /\ worker' # "dead"
      BY <2>5 DEF StopWait, WaitFor, Fail
    <3> QED BY <3>1, <3>2, <3>3, QuietStep
  <2>6. CASE StartGate
    <3>1. Working /\ UNCHANGED uiVars
      BY <2>6 DEF StartGate, Working
    <3>2. latest' = latest \/ (latest' # None /\ ~latest'.done)
      BY <2>6, <3>1, EventsNotDone DEF StartGate, Fail, Publish
    <3>3. worker # "dead" /\ worker' # "dead"
      BY <2>6 DEF StartGate, Fail
    <3> QED BY <3>1, <3>2, <3>3, QuietStep
  <2>7. CASE StartCheck
    <3>1. Working /\ UNCHANGED uiVars
      BY <2>7 DEF StartCheck, Working
    <3>2. latest' = latest \/ (latest' # None /\ ~latest'.done)
      BY <2>7, <3>1, EventsNotDone DEF StartCheck, Fail
    <3>3. worker # "dead" /\ worker' # "dead"
      BY <2>7 DEF StartCheck, Fail
    <3> QED BY <3>1, <3>2, <3>3, QuietStep
  <2>8. CASE StartWait
    <3>1. Working /\ UNCHANGED uiVars
      BY <2>8 DEF StartWait, Working
    <3>2. latest' = latest \/ (latest' # None /\ ~latest'.done)
      BY <2>8, <3>1, EventsNotDone DEF StartWait, WaitFor, Fail
    <3>3. worker # "dead" /\ worker' # "dead"
      BY <2>8 DEF StartWait, WaitFor, Fail
    <3> QED BY <3>1, <3>2, <3>3, QuietStep
  <2>9. CASE StopCall
    <3>1. Working /\ UNCHANGED uiVars
      BY <2>9 DEF StopCall, Working
    <3>2. latest' = latest \/ (latest' # None /\ ~latest'.done)
      BY <2>9, <3>1, EventsNotDone DEF StopCall, Command, Fail
    <3>3. worker # "dead" /\ worker' # "dead"
      BY <2>9 DEF StopCall, Command, Fail
    <3> QED BY <3>1, <3>2, <3>3, QuietStep
  <2>10. CASE StartCall
    <3>1. Working /\ UNCHANGED uiVars
      BY <2>10 DEF StartCall, Working
    <3>2. latest' = latest \/ (latest' # None /\ ~latest'.done)
      BY <2>10, <3>1, EventsNotDone DEF StartCall, Command, Fail
    <3>3. worker # "dead" /\ worker' # "dead"
      BY <2>10 DEF StartCall, Command, Fail
    <3> QED BY <3>1, <3>2, <3>3, QuietStep
  <2>11. CASE Receive
    <3>1. UNCHANGED uiVars /\ worker = "idle" /\ queue # None /\ ~Answered
      BY <2>11 DEF Receive, SlotInv, SingleFlight
    <3>2. CASE stop
      BY <2>11, <3>1, <3>2, EndStep DEF Receive, Slot!Next
    <3>3. CASE ~stop
      <4>1. worker' = "open" /\ ~latest'.done
        BY <2>11, <3>3 DEF Receive, Publish, NewEvent
      <4>2. ~Answered'
        BY <3>1, <4>1 DEF Answered, uiVars
      <4>3. SlotPhase' = SlotPhase
        BY <3>1, <4>1, <4>2 DEF SlotPhase, Busy, uiVars
      <4> QED BY <3>1, <4>3, SlotStutter DEF uiVars
    <3> QED BY <3>2, <3>3
  <2>12. CASE Disconnect
    BY <2>12, EndStep DEF Disconnect, Slot!Next
  <2>13. CASE Finish
    <3>1. /\ Working /\ worker # "dead" /\ worker' = "idle"
          /\ UNCHANGED <<active, taken, stop, submitted, completed>>
          /\ latest' = [event EXCEPT !.done = TRUE]
      BY <2>13 DEF Finish, uiVars, Working
    <3>2. ~Answered /\ Busy
      <4>1. request = active /\ request # None
        BY <3>1, EventsTyped, ServiceControlAssumption DEF SlotInv, SingleFlight
      <4> QED BY <3>1, <4>1 DEF SlotInv, SingleFlight, Busy
    <3>3. latest' \in Event /\ latest' # None /\ latest'.done
      <4>1. event \in Event
        BY <3>1, EventsTyped
      <4> QED BY <3>1, <4>1, ServiceControlAssumption DEF Event
    <3>4. SlotPhase = "running" /\ SlotPhase' = "answered"
      BY <3>1, <3>2, <3>3 DEF SlotPhase, Busy, Answered
    <3> QED BY <3>1, <3>4 DEF Slot!Next, Slot!Answer
  <2> QED BY <1>2, <2>1, <2>2, <2>3, <2>4, <2>5, <2>6, <2>7, <2>8, <2>9, <2>10, <2>11, <2>12, <2>13 DEF Worker
<1>3. CASE Outside
  <2>1. ASSUME NEW name \in Services, ServiceMoves(name)
        PROVE  UNCHANGED Slot!vars
    BY <2>1, QuietStep DEF ServiceMoves, workerVars
  <2>2. CASE Tick \/ ConfirmationExpires \/ DeadlinePasses
    BY <2>2, QuietStep DEF Tick, ConfirmationExpires, DeadlinePasses, workerVars
  <2>3. CASE Panic \/ ProcessExit
    BY <2>3, EndStep DEF Panic, ProcessExit, Slot!Next
  <2> QED BY <1>3, <2>1, <2>2, <2>3 DEF Outside
<1>4. CASE UNCHANGED vars
  BY <1>4, QuietStep DEF vars, uiVars
<1> QED BY <1>1, <1>2, <1>3, <1>4 DEF Next

\* The controller keeps the single-flight contract of CommandSlot: accept one
\* request, answer it once, accept the next after the answer was taken.
THEOREM KeepsSlotContract == Spec => Slot!Spec
<1>1. Init => Slot!Init
  BY DEF Init, Slot!Init, SlotPhase, Busy
<1>2. TypeOK /\ SlotInv /\ [Next]_vars => [Slot!Next]_(Slot!vars)
  BY StepImplementsSlot
<1> QED BY <1>1, <1>2, SlotInvariant, PTL DEF Spec, Slot!Spec
-----------------------------------------------------------------------------
(* Commands are sent at most once and completed when they were seen to be *)

StopsDue == IF request.action = "Restart" THEN 1 ELSE 0

\* CommandsSent, with what each place of the worker has sent so far.
SentSoFar ==
    /\ sent.stops <= 1 /\ sent.starts <= 1 /\ sent.late <= 1
    /\ worker \in {"open", "preflight", "stop_gate", "stop_check", "stop_call"} =>
         sent.stops = 0 /\ sent.starts = 0
    /\ worker \in {"stop_gate", "stop_check", "stop_call", "stop_wait"} =>
         sent.starts = 0 /\ request.action \in {"Stop", "Restart"}
    /\ worker = "stop_wait" => sent.stops = 1
    /\ worker \in {"start_gate", "start_check", "start_call"} =>
         sent.starts = 0 /\ sent.stops = StopsDue /\ request.action \in {"Start", "Restart"}
    /\ worker = "start_wait" =>
         sent.stops = StopsDue /\ request.action \in {"Start", "Restart"}
    /\ worker = "finish" /\ sent.starts > 0 => sent.stops = StopsDue
    /\ sent.late > 0 =>
         stop /\ worker \in {"stop_wait", "start_wait", "finish", "idle", "dead"}

LEMMA SentIsCounted ==
    ASSUME TypeOK
    PROVE  sent.stops \in Nat /\ sent.starts \in Nat /\ sent.late \in Nat
<1>1. sent \in [stops : Nat, starts : Nat, late : Nat]
  BY DEF TypeOK
<1> QED BY <1>1

LEMMA SentMeansCommandsSent == TypeOK /\ SentSoFar => CommandsSent
<1> SUFFICES ASSUME TypeOK, SentSoFar PROVE CommandsSent
  OBVIOUS
<1>1. worker \in Phases
  BY DEF TypeOK
<1> QED BY <1>1, SentIsCounted DEF SentSoFar, CommandsSent, StopsDue, Working, Phases

LEMMA NextSent == TypeOK /\ SentSoFar /\ [Next]_vars => SentSoFar'
<1> SUFFICES ASSUME TypeOK, SentSoFar, [Next]_vars PROVE SentSoFar'
  OBVIOUS
<1> USE DEF SentSoFar, StopsDue
<1>1. /\ sent.stops \in Nat /\ sent.starts \in Nat /\ sent.late \in Nat
      /\ sent \in [stops : Nat, starts : Nat, late : Nat]
  BY SentIsCounted DEF TypeOK
<1>2. Working => request.action \in Actions
  BY DEF TypeOK, Request
<1>3. CASE UI
  <2>1. UNCHANGED <<worker, request, event, sent>> /\ (stop => stop')
    BY <1>3 DEF UI, SubmitAny, Submit, PollTake, PollReturn, Drop, workerVars
  <2> QED BY <2>1
<1>4. CASE Worker
  <2>1. CASE Receive
    BY <1>1, <2>1 DEF Receive, Publish, uiVars
  <2>2. CASE Disconnect \/ Finish
    BY <1>1, <2>2 DEF Disconnect, Finish, uiVars
  <2>3. CASE Open
    BY <1>1, <2>3 DEF Open, Fail, uiVars
  <2>4. CASE Preflight
    BY <1>1, <1>2, <2>4 DEF Preflight, Fail, uiVars, Working, Actions
  <2>5. CASE StopGate \/ StopCheck
    BY <1>1, <2>5 DEF StopGate, StopCheck, Fail, Publish, uiVars
  <2>6. CASE StartGate \/ StartCheck
    BY <1>1, <2>6 DEF StartGate, StartCheck, Fail, Publish, uiVars
  <2>7. CASE StopCall
    <3>1. /\ worker = "stop_call" /\ worker' \in {"finish", "stop_wait"}
          /\ UNCHANGED <<request, stop>>
      BY <2>7 DEF StopCall, Command, Fail, uiVars
    <3>2. sent' = [sent EXCEPT !.stops = @ + 1, !.late = Late]
      BY <2>7 DEF StopCall
    <3>3. sent'.stops = sent.stops + 1 /\ sent'.starts = sent.starts /\ sent'.late = Late
      BY <1>1, <3>2
    <3> QED BY <1>1, <3>1, <3>3 DEF Late
  <2>8. CASE StartCall
    <3>1. /\ worker = "start_call" /\ worker' \in {"finish", "start_wait"}
          /\ UNCHANGED <<request, stop>>
      BY <2>8 DEF StartCall, Command, Fail, uiVars
    <3>2. sent' = [sent EXCEPT !.starts = @ + 1, !.late = Late]
      BY <2>8 DEF StartCall
    <3>3. sent'.stops = sent.stops /\ sent'.starts = sent.starts + 1 /\ sent'.late = Late
      BY <1>1, <3>2
    <3> QED BY <1>1, <3>1, <3>3 DEF Late
  <2>9. CASE StopWait
    <3>1. /\ worker = "stop_wait" /\ UNCHANGED <<sent, request, stop>>
          /\ \/ worker' \in {"finish", "stop_wait"}
             \/ ~stop /\ worker' = "start_gate" /\ request.action = "Restart"
      BY <2>9 DEF StopWait, WaitFor, Fail, uiVars
    <3> QED BY <1>1, <3>1
  <2>10. CASE StartWait
    <3>1. /\ worker = "start_wait" /\ UNCHANGED <<sent, request, stop>>
          /\ worker' \in {"finish", "start_wait"}
      BY <2>10 DEF StartWait, WaitFor, Fail, uiVars
    <3> QED BY <1>1, <3>1
  <2> QED BY <1>4, <2>1, <2>2, <2>3, <2>4, <2>5, <2>6, <2>7, <2>8, <2>9, <2>10 DEF Worker
<1>5. CASE Outside
  <2>1. UNCHANGED <<sent, stop>> /\ (UNCHANGED <<worker, request>> \/ worker' = "dead")
    BY <1>5 DEF Outside, ServiceMoves, Tick, ConfirmationExpires, DeadlinePasses,
                Panic, ProcessExit, uiVars, workerVars
  <2> QED BY <1>1, <2>1
<1>6. CASE UNCHANGED vars
  BY <1>6 DEF vars
<1> QED BY <1>3, <1>4, <1>5, <1>6 DEF Next

\* A reading of the target state, made after the command was announced.
SeenToBe(e) ==
    /\ e.observed.status.state = Target(e.action)
    /\ e.observed.at >= e.command_at
    /\ e.command_at > 0

Announced == {"stop_check", "stop_call", "stop_wait",
              "start_check", "start_call", "start_wait"}

\* CompletedMeansObserved, with what the event says on the way to a completion.
EventSoFar ==
    /\ now > 0
    /\ Working => /\ event.action = request.action
                  /\ event.command_at <= now
                  /\ worker \in Announced => event.command_at > 0
                  /\ worker # "finish" => ~event.error
                  /\ worker = "finish" => event.error \/ SeenToBe(event)
    /\ CompletedMeansObserved

\* A step on the way: progress that `execute' publishes is not a completion.
LEMMA ProgressSeen ==
    ASSUME TypeOK, SlotInv, EventSoFar, Working,
           UNCHANGED <<request, uiVars, now>>,
           latest' = latest \/ (latest' # None /\ ~latest'.done),
           worker' \notin {"idle", "dead", "finish"},
           event'.action = event.action, ~event'.error,
           event'.command_at <= now,
           worker' \in Announced => event'.command_at > 0
    PROVE  EventSoFar'
<1>1. CompletedMeansObserved'
  BY DEF EventSoFar, CompletedMeansObserved, uiVars
<1> QED BY <1>1 DEF EventSoFar, uiVars, Working

\* The last step: what it did failed or the target state was read.
LEMMA EndSeen ==
    ASSUME TypeOK, SlotInv, EventSoFar, Working,
           UNCHANGED <<request, uiVars, now>>,
           latest' = latest \/ (latest' # None /\ ~latest'.done),
           worker' = "finish",
           event'.action = event.action,
           event'.command_at <= now,
           event'.error \/ SeenToBe(event')
    PROVE  EventSoFar'
<1>1. CompletedMeansObserved'
  BY DEF EventSoFar, CompletedMeansObserved, uiVars
<1>2. (event.error \/ SeenToBe(event))'
  BY DEF SeenToBe
<1> QED BY <1>1, <1>2 DEF EventSoFar, uiVars, Working, Announced

\* The fields of the events that a worker can build.
LEMMA EventFields ==
    ASSUME TypeOK, Working
    PROVE  /\ now \in Nat /\ event.command_at \in Nat
           /\ Observed.action = event.action /\ Observed.command_at = event.command_at
           /\ Observed.error = event.error
           /\ Observed.observed = [at |-> now, status |-> service[request.name]]
           /\ \A e \in {event, Observed}, b \in BOOLEAN :
                /\ [e EXCEPT !.error = b].action = e.action
                /\ [e EXCEPT !.error = b].command_at = e.command_at
                /\ [e EXCEPT !.error = b].observed = e.observed
                /\ [e EXCEPT !.error = b].error = b
                /\ [e EXCEPT !.command_at = now].action = e.action
                /\ [e EXCEPT !.command_at = now].command_at = now
                /\ [e EXCEPT !.command_at = now].error = e.error
<1>1. event \in Event /\ Observed \in Event /\ now \in Nat
  BY EventsTyped DEF TypeOK
<1> QED BY <1>1 DEF Observed, Event

\* The steps of `execute', by what they make of its event.
FailedStep == worker' = "finish" /\ event' = [event EXCEPT !.error = TRUE] /\ latest' = latest
RefusedStep == /\ worker' = "finish" /\ event' = [Observed EXCEPT !.error = TRUE]
               /\ latest' \in {latest, Observed}
SilentStep == /\ worker' \notin {"idle", "dead", "finish"} /\ event' = event /\ latest' = latest
              /\ (worker' \in Announced => worker \in Announced)
ReadingStep == /\ worker' \notin {"idle", "dead", "finish"} /\ latest' = Observed
               /\ event' = [Observed EXCEPT !.error = FALSE]
               /\ (worker' \in Announced => worker \in Announced)
AnnouncingStep ==
    /\ worker' \notin {"idle", "dead", "finish"} /\ latest' = event'
    /\ event' \in {[event EXCEPT !.command_at = now], [Observed EXCEPT !.command_at = now]}

LEMMA ExecuteSteps ==
    ASSUME TypeOK, SlotInv, EventSoFar, Working, worker # "finish",
           UNCHANGED <<request, uiVars, now>>,
           FailedStep \/ RefusedStep \/ SilentStep \/ ReadingStep \/ AnnouncingStep
    PROVE  EventSoFar'
<1>1. /\ now \in Nat /\ now > 0 /\ event.command_at \in Nat /\ event.command_at <= now
      /\ ~event.error /\ (worker \in Announced => event.command_at > 0)
  BY EventFields DEF EventSoFar
<1>2. CASE FailedStep \/ RefusedStep
  <2>1. event'.action = event.action /\ event'.command_at = event.command_at /\ event'.error
    BY <1>2, EventFields DEF FailedStep, RefusedStep
  <2>2. latest' = latest \/ (latest' # None /\ ~latest'.done)
    BY <1>2, EventsNotDone DEF FailedStep, RefusedStep
  <2> QED BY <1>1, <1>2, <2>1, <2>2, EndSeen DEF FailedStep, RefusedStep
<1>3. CASE SilentStep
  BY <1>1, <1>3, ProgressSeen DEF SilentStep
<1>4. CASE ReadingStep
  <2>1. event'.action = event.action /\ event'.command_at = event.command_at /\ ~event'.error
    BY <1>4, EventFields DEF ReadingStep
  <2>2. latest' # None /\ ~latest'.done
    BY <1>4, EventsNotDone DEF ReadingStep
  <2> QED BY <1>1, <1>4, <2>1, <2>2, ProgressSeen DEF ReadingStep
<1>5. CASE AnnouncingStep
  <2>1. event'.action = event.action /\ event'.command_at = now /\ ~event'.error
    BY <1>1, <1>5, EventFields DEF AnnouncingStep
  <2>2. latest' # None /\ ~latest'.done
    BY <1>5, EventsNotDone DEF AnnouncingStep
  <2> QED BY <1>1, <1>5, <2>1, <2>2, ProgressSeen DEF AnnouncingStep
<1> QED BY <1>2, <1>3, <1>4, <1>5

LEMMA NextSeen ==
    TypeOK /\ SlotInv /\ SentSoFar /\ EventSoFar /\ [Next]_vars => EventSoFar'
<1> SUFFICES ASSUME TypeOK, SlotInv, SentSoFar, EventSoFar, [Next]_vars
             PROVE  EventSoFar'
  OBVIOUS
<1>1. CASE UI
  <2>1. UNCHANGED <<now, worker, request, event>>
    BY <1>1 DEF UI, SubmitAny, Submit, PollTake, PollReturn, Drop, workerVars, timeVars
  <2>2. {latest', taken'} \subseteq {latest, taken, None}
    BY <1>1 DEF UI, SubmitAny, Submit, PollTake, PollReturn, Drop, workerVars, timeVars
  <2> QED BY <2>1, <2>2 DEF EventSoFar, CompletedMeansObserved, Working, SeenToBe
<1>2. CASE Worker
  <2>1. CASE Receive
    <3>1. CASE stop
      BY <2>1, <3>1 DEF Receive, EventSoFar, CompletedMeansObserved, Working, uiVars, timeVars
    <3>2. CASE ~stop
      BY <2>1, <3>2 DEF Receive, Publish, NewEvent, EventSoFar, CompletedMeansObserved,
                        Working, uiVars, timeVars, TypeOK, Announced
    <3> QED BY <3>1, <3>2
  <2>2. CASE Disconnect
    BY <2>2 DEF Disconnect, EventSoFar, CompletedMeansObserved, Working, uiVars, timeVars
  <2>3. CASE Finish
    <3>1. /\ event \in Event /\ (event.error \/ SeenToBe(event))
          /\ latest' = [event EXCEPT !.done = TRUE]
          /\ UNCHANGED <<now, taken>> /\ worker' = "idle"
      BY <2>3, EventsTyped DEF Finish, EventSoFar, Working, uiVars, timeVars
    <3>2. /\ latest'.error = event.error /\ latest'.observed = event.observed
          /\ latest'.action = event.action /\ latest'.command_at = event.command_at
      BY <3>1 DEF Event
    <3> QED BY <3>1, <3>2 DEF EventSoFar, CompletedMeansObserved, SeenToBe, Working
  <2>4. CASE Open
    <3>1. Working /\ worker # "finish" /\ UNCHANGED <<request, uiVars, now>>
      BY <2>4 DEF Open, Working, timeVars
    <3>2. FailedStep \/ SilentStep
      BY <2>4 DEF Open, Fail, Announced, FailedStep, SilentStep
    <3> QED BY <3>1, <3>2, ExecuteSteps
  <2>5. CASE Preflight
    <3>1. Working /\ worker # "finish" /\ UNCHANGED <<request, uiVars, now>>
      BY <2>5 DEF Preflight, Working, timeVars
    <3>2. FailedStep \/ RefusedStep \/ ReadingStep
      BY <2>5 DEF Preflight, Fail, Announced, FailedStep, RefusedStep, ReadingStep
    <3> QED BY <3>1, <3>2, ExecuteSteps
  <2>6. CASE StopGate \/ StopCheck
    <3>1. Working /\ worker # "finish" /\ UNCHANGED <<request, uiVars, now>>
      BY <2>6 DEF StopGate, StopCheck, Working, timeVars
    <3>2. FailedStep \/ SilentStep \/ AnnouncingStep
      BY <2>6 DEF StopGate, StopCheck, Fail, Publish, Announced, FailedStep, SilentStep, AnnouncingStep
    <3> QED BY <3>1, <3>2, ExecuteSteps
  <2>7. CASE StartGate \/ StartCheck
    <3>1. Working /\ worker # "finish" /\ UNCHANGED <<request, uiVars, now>>
      BY <2>7 DEF StartGate, StartCheck, Working, timeVars
    <3>2. FailedStep \/ RefusedStep \/ SilentStep \/ AnnouncingStep
      BY <2>7 DEF StartGate, StartCheck, Fail, Publish, Announced, FailedStep, RefusedStep, SilentStep, AnnouncingStep
    <3> QED BY <3>1, <3>2, ExecuteSteps
  <2>8. CASE StopCall \/ StartCall
    <3>1. Working /\ worker # "finish" /\ UNCHANGED <<request, uiVars, now>>
      BY <2>8 DEF StopCall, StartCall, Working, timeVars
    <3>2. FailedStep \/ SilentStep
      BY <2>8 DEF StopCall, StartCall, Command, Fail, Announced, FailedStep, SilentStep
    <3> QED BY <3>1, <3>2, ExecuteSteps
  <2>9. CASE StopWait
    <3>1. Working /\ worker = "stop_wait" /\ UNCHANGED <<request, uiVars, now>>
      BY <2>9 DEF StopWait, Working, timeVars
    <3>2. CASE /\ worker' = "finish" /\ event' = [Observed EXCEPT !.error = FALSE]
               /\ latest' = Observed /\ service[request.name].state = "Stopped"
               /\ request.action # "Restart"
      <4>1. /\ event'.action = event.action /\ event'.command_at = event.command_at
            /\ event'.observed = [at |-> now, status |-> service[request.name]]
            /\ event.command_at \in Nat /\ now \in Nat
        BY <3>1, <3>2, EventFields
      <4>2. event.command_at > 0 /\ event.command_at <= now /\ event.action = request.action
        BY <3>1 DEF EventSoFar, Announced
      <4>3. request.action \in {"Stop", "Restart"}
        BY <3>1 DEF SentSoFar
      <4>4. SeenToBe(event')
        BY <3>2, <4>1, <4>2, <4>3 DEF SeenToBe, Target
      <4>5. latest' # None /\ ~latest'.done
        BY <3>1, <3>2, EventsNotDone
      <4> QED BY <3>1, <3>2, <4>1, <4>2, <4>4, <4>5, EndSeen
    <3>3. CASE ~(/\ worker' = "finish" /\ event' = [Observed EXCEPT !.error = FALSE]
                 /\ latest' = Observed /\ service[request.name].state = "Stopped"
                 /\ request.action # "Restart")
      <4>1. FailedStep \/ RefusedStep \/ ReadingStep
        BY <2>9, <3>1, <3>3
        DEF StopWait, WaitFor, Fail, FailedStep, RefusedStep, ReadingStep, Announced
      <4> QED BY <3>1, <4>1, ExecuteSteps
    <3> QED BY <3>2, <3>3
  <2>10. CASE StartWait
    <3>1. Working /\ worker = "start_wait" /\ UNCHANGED <<request, uiVars, now>>
      BY <2>10 DEF StartWait, Working, timeVars
    <3>2. CASE /\ worker' = "finish" /\ event' = [Observed EXCEPT !.error = FALSE]
               /\ latest' = Observed /\ service[request.name].state = "Running"
      <4>1. /\ event'.action = event.action /\ event'.command_at = event.command_at
            /\ event'.observed = [at |-> now, status |-> service[request.name]]
            /\ event.command_at \in Nat /\ now \in Nat
        BY <3>1, <3>2, EventFields
      <4>2. event.command_at > 0 /\ event.command_at <= now /\ event.action = request.action
        BY <3>1 DEF EventSoFar, Announced
      <4>3. request.action \in {"Start", "Restart"}
        BY <3>1 DEF SentSoFar
      <4>4. SeenToBe(event')
        BY <3>2, <4>1, <4>2, <4>3 DEF SeenToBe, Target
      <4>5. latest' # None /\ ~latest'.done
        BY <3>1, <3>2, EventsNotDone
      <4> QED BY <3>1, <3>2, <4>1, <4>2, <4>4, <4>5, EndSeen
    <3>3. CASE ~(/\ worker' = "finish" /\ event' = [Observed EXCEPT !.error = FALSE]
                 /\ latest' = Observed /\ service[request.name].state = "Running")
      <4>1. FailedStep \/ RefusedStep \/ ReadingStep
        BY <2>10, <3>1, <3>3
        DEF StartWait, WaitFor, Fail, FailedStep, RefusedStep, ReadingStep, Announced
      <4> QED BY <3>1, <4>1, ExecuteSteps
    <3> QED BY <3>2, <3>3
  <2> QED BY <1>2, <2>1, <2>2, <2>3, <2>4, <2>5, <2>6, <2>7, <2>8, <2>9, <2>10 DEF Worker
<1>3. CASE Outside
  <2>1. /\ UNCHANGED <<latest, taken>> /\ now' \in {now, now + 1}
        /\ UNCHANGED <<worker, request, event>> \/ worker' = "dead"
    BY <1>3 DEF Outside, ServiceMoves, Tick, ConfirmationExpires, DeadlinePasses,
                Panic, ProcessExit, uiVars, workerVars, timeVars
  <2>2. now \in Nat /\ now' \in Nat /\ now' >= now /\ (Working => event.command_at \in Nat)
    BY <2>1 DEF TypeOK, Event
  <2> QED BY <2>1, <2>2 DEF EventSoFar, CompletedMeansObserved, Working, SeenToBe
<1>4. CASE UNCHANGED vars
  BY <1>4 DEF vars, EventSoFar, CompletedMeansObserved, Working, SeenToBe
<1> QED BY <1>1, <1>2, <1>3, <1>4 DEF Next

\* Whatever the SCM, other controllers, panics and the user's quit do between
\* the worker's steps: one command is under way, it is sent at most once and in
\* order, and it is called completed only after the target state was read later
\* than the command was announced (service_control.rs execute, wait_for).
THEOREM ObservesItsCommands == Spec => []CommandsAreObserved
<1> DEFINE Inv == TypeOK /\ SlotInv /\ SentSoFar /\ EventSoFar
<1>1. Init => Inv
  <2>1. Init => SentSoFar /\ EventSoFar
    BY DEF Init, SentSoFar, EventSoFar, CompletedMeansObserved, Working
  <2> QED BY <2>1, InitTyped, InitSlot
<1>2. Inv /\ [Next]_vars => Inv'
  BY NextTyped, NextSlot, NextSent, NextSeen
<1>3. Inv => CommandsAreObserved
  BY SentMeansCommandsSent DEF SlotInv, EventSoFar, CommandsAreObserved
<1> QED BY <1>1, <1>2, <1>3, PTL DEF Spec
-----------------------------------------------------------------------------
(* ServiceControl implements CommandEvents *)

\* Stamps keeps an event apart from None, and its fields.
LEMMA StampsOf ==
    /\ Stamps(None) = None
    /\ \A e \in Event :
         /\ Stamps(e) = [name |-> e.name, command_at |-> e.command_at,
                         observed |-> e.observed.at, done |-> e.done]
         /\ Stamps(e) # None /\ Stamps(e) \in Events!Event
<1>1. ASSUME NEW e \in Event
      PROVE  /\ Stamps(e) = [name |-> e.name, command_at |-> e.command_at,
                             observed |-> e.observed.at, done |-> e.done]
             /\ Stamps(e) # None /\ Stamps(e) \in Events!Event
  <2>1. e # None
    BY ServiceControlAssumption
  <2>2. Stamps(e) = [name |-> e.name, command_at |-> e.command_at,
                     observed |-> e.observed.at, done |-> e.done]
    BY <2>1 DEF Stamps
  <2>3. Stamps(e) \in [name : Services, command_at : Nat, observed : Nat, done : BOOLEAN]
    BY <2>2 DEF Event, Reading
  <2> QED BY <2>2, <2>3, ServiceControlAssumption DEF Events!Event
<1> QED BY <1>1 DEF Stamps

\* The stamps of the events that a worker can build.
LEMMA StampsBuilt ==
    ASSUME TypeOK, Working
    PROVE  /\ Stamps(Observed) = [Stamps(event) EXCEPT !.observed = now]
           /\ \A e \in {event, Observed}, b \in BOOLEAN :
                /\ Stamps([e EXCEPT !.error = b]) = Stamps(e)
                /\ Stamps([e EXCEPT !.done = b]) = [Stamps(e) EXCEPT !.done = b]
                /\ Stamps([e EXCEPT !.command_at = now])
                     = [Stamps(e) EXCEPT !.command_at = now]
<1>1. /\ event \in Event /\ Observed \in Event
      /\ \A e \in {event, Observed}, b \in BOOLEAN :
           /\ [e EXCEPT !.error = b] \in Event
           /\ [e EXCEPT !.done = b] \in Event
           /\ [e EXCEPT !.command_at = now] \in Event
  BY EventsTyped
<1>2. Observed.observed.at = now
  BY EventFields
<1>3. /\ Observed.name = event.name /\ Observed.command_at = event.command_at
      /\ Observed.done = event.done
  BY <1>1 DEF Observed, Event
<1>4. ASSUME NEW e \in {event, Observed}, NEW b \in BOOLEAN
      PROVE  /\ Stamps([e EXCEPT !.error = b]) = Stamps(e)
             /\ Stamps([e EXCEPT !.done = b]) = [Stamps(e) EXCEPT !.done = b]
             /\ Stamps([e EXCEPT !.command_at = now])
                  = [Stamps(e) EXCEPT !.command_at = now]
  <2>1. e \in Event
    BY <1>1
  <2>2. /\ [e EXCEPT !.error = b].name = e.name
        /\ [e EXCEPT !.error = b].command_at = e.command_at
        /\ [e EXCEPT !.error = b].observed = e.observed
        /\ [e EXCEPT !.error = b].done = e.done
        /\ [e EXCEPT !.done = b].name = e.name
        /\ [e EXCEPT !.done = b].command_at = e.command_at
        /\ [e EXCEPT !.done = b].observed = e.observed
        /\ [e EXCEPT !.done = b].done = b
        /\ [e EXCEPT !.command_at = now].name = e.name
        /\ [e EXCEPT !.command_at = now].command_at = now
        /\ [e EXCEPT !.command_at = now].observed = e.observed
        /\ [e EXCEPT !.command_at = now].done = e.done
    BY <2>1 DEF Event
  <2>3. /\ Stamps([e EXCEPT !.error = b]) = Stamps(e)
        /\ Stamps([e EXCEPT !.done = b]) =
             [name |-> e.name, command_at |-> e.command_at, observed |-> e.observed.at, done |-> b]
        /\ Stamps([e EXCEPT !.command_at = now]) =
             [name |-> e.name, command_at |-> now, observed |-> e.observed.at, done |-> e.done]
    BY <1>1, <2>1, <2>2, StampsOf
  <2>4. Stamps(e) = [name |-> e.name, command_at |-> e.command_at,
                     observed |-> e.observed.at, done |-> e.done]
    BY <2>1, StampsOf
  <2>5. /\ [Stamps(e) EXCEPT !.done = b] =
             [name |-> e.name, command_at |-> e.command_at, observed |-> e.observed.at, done |-> b]
        /\ [Stamps(e) EXCEPT !.command_at = now] =
             [name |-> e.name, command_at |-> now, observed |-> e.observed.at, done |-> e.done]
    BY <2>4
  <2> QED BY <2>3, <2>5
<1>5. Stamps(Observed) = [Stamps(event) EXCEPT !.observed = now]
  BY <1>1, <1>2, <1>3, StampsOf
<1> QED BY <1>4, <1>5

\* What the contract sees of the UI.
LEMMA EventsUI ==
    ASSUME UNCHANGED uiVars
    PROVE  UNCHANGED <<IF Busy THEN active.name ELSE None, polling, Stamps(taken), stop, submitted>>
  BY DEF uiVars, Busy, Stamps

\* A step of the worker between its commands.
LEMMA EventsWorking ==
    ASSUME TypeOK, SlotInv, Working,
           UNCHANGED <<queue, uiVars, now>>,
           EventsPhase = "working", EventsPhase' = "working",
           \/ Stamps(event)' = Stamps(event) /\ Stamps(latest)' = Stamps(latest)
           \/ /\ Stamps(event)' = [Stamps(event) EXCEPT !.observed = now]
              /\ Stamps(latest)' \in {Stamps(latest), Stamps(event)'}
    PROVE  Events!Observe \/ UNCHANGED Events!vars
  BY EventsUI DEF Events!Observe, Events!vars, Events!uiVars, uiVars

\* Only a request in the channel keeps the worker's phase hidden.
LEMMA PhaseOfWorking ==
    ASSUME SlotInv, Working
    PROVE  /\ queue = None
           /\ EventsPhase = IF worker \in {"stop_check", "stop_call", "start_check", "start_call"}
                            THEN "announced" ELSE "working"
  BY DEF SlotInv, SingleFlight, EventsPhase, Working

LEMMA EventsUIStep ==
    ASSUME TypeOK, SlotInv, UI PROVE Events!Next
<1>1. CASE SubmitAny
  <2>1. PICK r \in Request : Submit(r)
    BY <1>1 DEF SubmitAny
  <2>2. /\ ~polling /\ ~Busy /\ ~stop /\ worker # "dead" /\ queue = None
        /\ submitted < MaxRequests /\ submitted' = submitted + 1
        /\ queue' = r /\ active' = r /\ r # None /\ r.name \in Services
        /\ UNCHANGED <<now, latest, polling, taken, stop, worker, event>>
    BY <2>1, ServiceControlAssumption DEF Submit, Available, workerVars, Request
  <2>3. EventsPhase = "idle" /\ EventsPhase' = "queued" /\ Busy'
    BY <2>2 DEF SlotInv, SingleFlight, Working, EventsPhase, Busy
  <2>4. Events!Submit(r.name)
    BY <2>2, <2>3 DEF Events!Submit, Stamps
  <2> QED BY <2>2, <2>4 DEF Events!Next
<1>2. CASE PollTake
  <2>1. /\ ~stop /\ ~polling /\ polling'
        /\ \/ taken' = latest /\ latest' = None
           \/ worker \notin {"idle", "dead"} /\ taken' = None /\ latest' = latest
        /\ UNCHANGED <<now, active, queue, stop, worker, event, submitted>>
    BY <1>2 DEF PollTake, workerVars, timeVars
  <2>2. worker \notin {"idle", "dead"} => EventsPhase \in {"working", "announced"}
    BY PhaseOfWorking DEF Working
  <2>3. polling' = TRUE
    BY <1>2 DEF PollTake
  <2>4. /\ UNCHANGED <<now, EventsPhase, Stamps(event), stop, submitted>>
        /\ UNCHANGED (IF Busy THEN active.name ELSE None)
        /\ \/ Stamps(taken)' = Stamps(latest) /\ Stamps(latest)' = None
           \/ /\ EventsPhase \in {"working", "announced"}
              /\ Stamps(taken)' = None /\ Stamps(latest)' = Stamps(latest)
    BY <2>1, <2>2 DEF EventsPhase, Busy, Stamps
  <2>5. Events!PollTake
    BY <2>1, <2>3, <2>4 DEF Events!PollTake
  <2> QED BY <2>5 DEF Events!Next
<1>3. CASE PollReturn
  <2>1. /\ polling /\ polling' = FALSE /\ taken' = None
        /\ active' = IF Polled # None /\ Polled.done THEN None ELSE active
        /\ UNCHANGED <<now, queue, latest, stop, worker, event, submitted>>
    BY <1>3 DEF PollReturn, workerVars, timeVars
  <2>2. worker = "dead" <=> EventsPhase = "dead"
    BY <2>1 DEF SlotInv, EventsPhase, TypeOK, Phases
  <2>3. Busy => active \in Request /\ active.name # None
    BY ServiceControlAssumption DEF TypeOK, Busy, Request
  <2>4. Events!Polled = Stamps(Polled) /\ Polled \in Event \cup {None}
    <3>1. CASE taken = None /\ worker = "dead" /\ Busy
      <4>1. Disconnected(active) \in Event
        BY <2>3, <3>1, DefaultsTyped DEF Disconnected, NewEvent, Event, TypeOK, Request
      <4>2. Stamps(Disconnected(active)) =
              [name |-> active.name, command_at |-> now, observed |-> 0, done |-> TRUE]
        BY <4>1, StampsOf DEF Disconnected, NewEvent, NoReading
      <4>3. Events!Polled = Events!Disconnected(active.name)
        BY <2>2, <2>3, <3>1, StampsOf DEF Events!Polled
      <4>4. Events!Disconnected(active.name) =
              [name |-> active.name, command_at |-> now, observed |-> 0, done |-> TRUE]
        BY DEF Events!Disconnected
      <4>5. Polled = Disconnected(active)
        BY <3>1 DEF Polled
      <4> QED BY <4>1, <4>2, <4>3, <4>4, <4>5
    <3>2. CASE ~(taken = None /\ worker = "dead" /\ Busy)
      <4>1. Polled = taken /\ taken \in Event \cup {None}
        BY <3>2 DEF Polled, TypeOK
      <4>2. Stamps(taken) = None <=> taken = None
        BY <4>1, StampsOf
      <4>3. (IF Busy THEN active.name ELSE None) # None => Busy
        OBVIOUS
      <4>4. Events!Polled = Stamps(taken)
        BY <2>2, <3>2, <4>2, <4>3 DEF Events!Polled
      <4> QED BY <4>1, <4>4
    <3> QED BY <3>1, <3>2
  <2>5. (Polled # None /\ Polled.done) <=> (Events!Polled # None /\ Events!Polled.done)
    BY <2>4, StampsOf
  <2>6. (IF Busy THEN active.name ELSE None)' =
          IF Events!Polled # None /\ Events!Polled.done THEN None
          ELSE IF Busy THEN active.name ELSE None
    BY <2>1, <2>5 DEF Busy
  <2>7. UNCHANGED <<now, EventsPhase, Stamps(event), Stamps(latest), stop, submitted>>
    BY <2>1 DEF EventsPhase, Stamps
  <2>8. Stamps(taken)' = None
    BY <2>1 DEF Stamps
  <2>9. Events!PollReturn
    BY <2>1, <2>6, <2>7, <2>8 DEF Events!PollReturn
  <2> QED BY <2>9 DEF Events!Next
<1>4. CASE Drop
  <2>1. /\ ~stop /\ ~polling /\ stop' = TRUE
        /\ UNCHANGED <<now, active, queue, latest, polling, taken, worker, event, submitted>>
    BY <1>4 DEF Drop, workerVars, timeVars
  <2>2. /\ UNCHANGED <<now, EventsPhase, polling, submitted>>
        /\ UNCHANGED <<Stamps(event), Stamps(latest), Stamps(taken)>>
        /\ UNCHANGED (IF Busy THEN active.name ELSE None)
    BY <2>1 DEF EventsPhase, Busy, Stamps
  <2>3. Events!Drop
    BY <2>1, <2>2 DEF Events!Drop
  <2> QED BY <2>3 DEF Events!Next
<1> QED BY <1>1, <1>2, <1>3, <1>4 DEF UI

LEMMA EventsWorkerStep ==
    ASSUME TypeOK, SlotInv, Worker PROVE Events!Next \/ UNCHANGED Events!vars
<1>1. CASE Receive
  <2>1. /\ worker = "idle" /\ queue # None /\ queue' = None /\ event = None
        /\ EventsPhase = "queued" /\ queue = active /\ Busy
        /\ UNCHANGED <<uiVars, now>>
    BY <1>1 DEF Receive, EventsPhase, SlotInv, SingleFlight, TypeOK, Working, timeVars, Busy
  <2>2. CASE stop
    <3>1. EventsPhase' = "dead" /\ Stamps(event)' = None /\ Stamps(latest)' = Stamps(latest)
      BY <1>1, <2>1, <2>2 DEF Receive, EventsPhase, Stamps
    <3>2. Events!End
      BY <2>1, <2>2, <3>1, EventsUI DEF Events!End, Events!uiVars
    <3> QED BY <3>2 DEF Events!Next
  <2>3. CASE ~stop
    <3>1. EventsPhase' = "working" /\ event' = NewEvent(queue) /\ latest' = event'
      BY <1>1, <2>1, <2>3 DEF Receive, Publish, EventsPhase
    <3>2. NewEvent(queue) \in Event
      BY <2>1, DefaultsTyped DEF TypeOK
    <3>3. Stamps(NewEvent(queue)) = Events!NewEvent(active.name)
      BY <2>1, <3>2, StampsOf DEF NewEvent, Events!NewEvent, NoReading
    <3>4. Stamps(event)' = Events!NewEvent(active.name) /\ Stamps(latest)' = Stamps(event)'
      BY <3>1, <3>3 DEF Stamps
    <3>5. Events!Receive
      BY <2>1, <2>3, <3>1, <3>4, EventsUI DEF Events!Receive, Events!uiVars
    <3> QED BY <3>5 DEF Events!Next
  <2> QED BY <2>2, <2>3
<1>2. CASE Disconnect
  <2>1. /\ stop /\ EventsPhase = "idle" /\ EventsPhase' = "dead" /\ event' = None
        /\ UNCHANGED <<now, latest, uiVars>>
    BY <1>2 DEF Disconnect, EventsPhase, TypeOK, Working, timeVars
  <2>2. Events!End
    BY <2>1, EventsUI DEF Events!End, Events!uiVars, Stamps
  <2> QED BY <2>2 DEF Events!Next
<1>3. CASE Finish
  <2>1. /\ Working /\ worker = "finish" /\ worker' = "idle" /\ event' = None
        /\ latest' = [event EXCEPT !.done = TRUE]
        /\ UNCHANGED <<now, queue, uiVars>>
    BY <1>3 DEF Finish, Working, timeVars
  <2>2. EventsPhase = "working" /\ EventsPhase' = "idle"
    BY <2>1, PhaseOfWorking DEF EventsPhase
  <2>3. Stamps(event)' = None /\ Stamps(latest)' = [Stamps(event) EXCEPT !.done = TRUE]
    BY <2>1, StampsBuilt DEF Stamps
  <2>4. Events!Finish
    BY <2>1, <2>2, <2>3, EventsUI DEF Events!Finish, Events!uiVars
  <2> QED BY <2>4 DEF Events!Next
<1>4. CASE StopCheck \/ StartCheck \/ StopCall \/ StartCall
  <2>1. /\ worker \in {"stop_check", "stop_call", "start_check", "start_call"}
        /\ worker' \in {"finish", "stop_call", "start_call", "stop_wait", "start_wait"}
        /\ UNCHANGED <<now, queue, latest, uiVars>>
        /\ event' \in {event, [event EXCEPT !.error = TRUE]}
    BY <1>4 DEF StopCheck, StartCheck, StopCall, StartCall, Command, Fail, timeVars
  <2>2. Working /\ EventsPhase = "announced" /\ EventsPhase' \in {"announced", "working"}
    BY <2>1, PhaseOfWorking DEF Working, EventsPhase
  <2>3. Stamps(event)' = Stamps(event) /\ Stamps(latest)' = Stamps(latest)
    BY <2>1, <2>2, StampsBuilt DEF Stamps
  <2>4. Events!GiveUp \/ UNCHANGED Events!vars
    BY <2>1, <2>2, <2>3, EventsUI DEF Events!GiveUp, Events!vars, Events!uiVars, uiVars
  <2> QED BY <2>4 DEF Events!Next
<1>5. CASE StopGate \/ StartGate
  <2>1. /\ worker \in {"stop_gate", "start_gate"} /\ Working
        /\ UNCHANGED <<now, queue, uiVars>>
    BY <1>5 DEF StopGate, StartGate, Working, timeVars
  <2>2. EventsPhase = "working" /\ queue = None
    BY <2>1, PhaseOfWorking
  <2>3. CASE worker' = "finish"
    <3>1. \/ event' = [event EXCEPT !.error = TRUE] /\ latest' = latest
          \/ event' = [Observed EXCEPT !.error = TRUE] /\ latest' = latest
      BY <1>5, <2>3 DEF StopGate, StartGate, Fail
    <3>2. EventsPhase' = "working"
      BY <2>1, <2>2, <2>3 DEF EventsPhase
    <3>3. \/ Stamps(event)' = Stamps(event) /\ Stamps(latest)' = Stamps(latest)
          \/ /\ Stamps(event)' = [Stamps(event) EXCEPT !.observed = now]
             /\ Stamps(latest)' \in {Stamps(latest), Stamps(event)'}
      BY <2>1, <3>1, StampsBuilt DEF Stamps
    <3> QED BY <2>1, <2>2, <3>2, <3>3, EventsWorking DEF Events!Next
  <2>4. CASE worker' # "finish"
    <3>1. /\ worker' \in {"stop_check", "start_check"} /\ ~stop
          /\ latest' = event'
          /\ event' \in {[event EXCEPT !.command_at = now], [Observed EXCEPT !.command_at = now]}
      BY <1>5, <2>4 DEF StopGate, StartGate, Fail, Publish
    <3>2. EventsPhase' = "announced"
      BY <2>1, <2>2, <3>1 DEF EventsPhase
    <3>3. /\ Stamps(event)' \in {[Stamps(event) EXCEPT !.command_at = now],
                                 [Stamps(event) EXCEPT !.command_at = now, !.observed = now]}
          /\ Stamps(latest)' = Stamps(event)'
      <4>1. Stamps(event) \in Events!Event
        BY <2>1, EventsTyped, StampsOf
      <4>2. [Stamps(Observed) EXCEPT !.command_at = now]
               = [Stamps(event) EXCEPT !.command_at = now, !.observed = now]
        BY <2>1, <4>1, StampsBuilt DEF Events!Event
      <4>3. /\ Stamps([event EXCEPT !.command_at = now]) = [Stamps(event) EXCEPT !.command_at = now]
            /\ Stamps([Observed EXCEPT !.command_at = now]) = [Stamps(Observed) EXCEPT !.command_at = now]
        BY <2>1, StampsBuilt
      <4>4. Stamps(event)' = Stamps(event') /\ Stamps(latest)' = Stamps(latest')
        BY DEF Stamps
      <4> QED BY <3>1, <4>2, <4>3, <4>4
    <3>4. Events!Announce
      BY <2>1, <2>2, <3>1, <3>2, <3>3, EventsUI DEF Events!Announce, Events!uiVars
    <3> QED BY <3>4 DEF Events!Next
  <2> QED BY <2>3, <2>4
<1>6. CASE Open \/ Preflight \/ StopWait \/ StartWait
  <2>1. /\ worker \in {"open", "preflight", "stop_wait", "start_wait"} /\ Working
        /\ UNCHANGED <<now, queue, uiVars>>
        /\ worker' \in {"finish", "preflight", "stop_gate", "start_gate", "stop_wait", "start_wait"}
    BY <1>6 DEF Open, Preflight, StopWait, StartWait, WaitFor, Fail, Working, timeVars
  <2>2. EventsPhase = "working" /\ EventsPhase' = "working"
    BY <2>1, PhaseOfWorking DEF EventsPhase
  <2>3. \/ event' = event /\ latest' = latest
        \/ event' = [event EXCEPT !.error = TRUE] /\ latest' = latest
        \/ \E b \in BOOLEAN : event' = [Observed EXCEPT !.error = b] /\ latest' = Observed
    <3>1. CASE Open
      BY <3>1 DEF Open, Fail
    <3>2. CASE Preflight
      BY <3>2 DEF Preflight, Fail
    <3>3. CASE StopWait
      BY <3>3 DEF StopWait, WaitFor, Fail
    <3>4. CASE StartWait
      BY <3>4 DEF StartWait, WaitFor, Fail
    <3> QED BY <1>6, <3>1, <3>2, <3>3, <3>4
  <2>4. \/ Stamps(event)' = Stamps(event) /\ Stamps(latest)' = Stamps(latest)
        \/ /\ Stamps(event)' = [Stamps(event) EXCEPT !.observed = now]
           /\ Stamps(latest)' \in {Stamps(latest), Stamps(event)'}
    <3>1. Stamps(event)' = Stamps(event') /\ Stamps(latest)' = Stamps(latest')
      BY DEF Stamps
    <3> QED BY <2>1, <2>3, <3>1, StampsBuilt
  <2> QED BY <2>1, <2>2, <2>4, EventsWorking DEF Events!Next
<1> QED BY <1>1, <1>2, <1>3, <1>4, <1>5, <1>6 DEF Worker

LEMMA EventsOutsideStep ==
    ASSUME TypeOK, SlotInv, Outside PROVE Events!Next \/ UNCHANGED Events!vars
<1>1. CASE Tick
  <2>1. /\ now < MaxTime /\ now' = now + 1
        /\ UNCHANGED <<queue, latest, uiVars, worker, event>>
    BY <1>1 DEF Tick, workerVars
  <2>2. Events!Tick
    BY <2>1, EventsUI DEF Events!Tick, Events!uiVars, EventsPhase, Stamps
  <2> QED BY <2>2 DEF Events!Next
<1>2. CASE (\E name \in Services : ServiceMoves(name)) \/ ConfirmationExpires \/ DeadlinePasses
  <2>1. UNCHANGED <<now, queue, latest, uiVars, worker, event>>
    BY <1>2 DEF ServiceMoves, ConfirmationExpires, DeadlinePasses, workerVars, timeVars
  <2> QED BY <2>1, EventsUI DEF Events!vars, EventsPhase, Stamps, uiVars
<1>3. CASE Panic
  <2>1. /\ Unwinding /\ Working /\ worker' = "dead" /\ queue' = None /\ event' = None
        /\ UNCHANGED <<now, latest, uiVars>>
    BY <1>3 DEF Panic, Working, timeVars
  <2>2. EventsPhase \in {"working", "announced"} /\ EventsPhase' = "dead"
    BY <2>1, PhaseOfWorking DEF EventsPhase
  <2>3. Events!End
    BY <2>1, <2>2, EventsUI DEF Events!End, Events!uiVars, Stamps
  <2> QED BY <2>3 DEF Events!Next
<1>4. CASE ProcessExit
  <2>1. /\ stop /\ worker # "dead" /\ worker' = "dead" /\ event' = None
        /\ UNCHANGED <<now, queue, latest, uiVars>>
    BY <1>4 DEF ProcessExit, timeVars
  <2>2. CASE queue = None
    <3>1. EventsPhase # "dead" /\ EventsPhase' = "dead"
      BY <2>1, <2>2 DEF EventsPhase
    <3>2. Events!End
      BY <2>1, <3>1, EventsUI DEF Events!End, Events!uiVars, Stamps
    <3> QED BY <3>2 DEF Events!Next
  <2>3. CASE queue # None
    <3>1. event = None
      BY <2>3 DEF SlotInv, SingleFlight, TypeOK
    <3> QED BY <2>1, <2>3, <3>1, EventsUI DEF Events!vars, EventsPhase, Stamps, uiVars
  <2> QED BY <2>2, <2>3
<1> QED BY <1>1, <1>2, <1>3, <1>4 DEF Outside

\* The events a command leaves keep the order that the Services page is built
\* on: the stamps of CommandEvents, of which ServiceControl is a refinement.
THEOREM KeepsEventOrder == Spec => ImplementsCommandEvents
<1>1. Init => Events!Init
  BY DEF Init, Events!Init, EventsPhase, Busy, Stamps
<1>2. TypeOK /\ SlotInv /\ [Next]_vars => [Events!Next]_(Events!vars)
  <2>1. ASSUME UNCHANGED vars PROVE UNCHANGED Events!vars
    BY <2>1 DEF vars, Events!vars, EventsPhase, Busy, Stamps
  <2> QED BY <2>1, EventsUIStep, EventsWorkerStep, EventsOutsideStep DEF Next
<1> QED BY <1>1, <1>2, SlotInvariant, PTL DEF Spec, ImplementsCommandEvents, Events!Spec
=============================================================================

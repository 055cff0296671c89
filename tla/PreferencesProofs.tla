-------------------------- MODULE PreferencesProofs -------------------------
(***************************************************************************)
(* However many instances run, and whenever they start, panic, quit or are *)
(* killed: the settings file changes only by compare-and-swap, and what a  *)
(* window calls saved is what storage confirmed last.  The types come      *)
(* first, one lemma for each call of the controller, since a save is as    *)
(* good as the capture which the UI thread handed over.                    *)
(***************************************************************************)
EXTENDS Preferences, TLAPS

(* Types: the calls of the controller *)

LEMMA UpdatedType ==
    ASSUME NEW c \in Controllers, NEW s \in Settings
    PROVE  Updated(c, s) \in Controllers
<1>1. c.revision + 1 \in Nat
  BY DEF Controllers
<1> DEFINE r == c.revision + 1
<1>2. [c EXCEPT !.shown = s, !.desired = s, !.recent = TRUE, !.revision = r] \in Controllers
  <2>1. r \in Nat  BY <1>1
  <2> HIDE DEF r
  <2> QED  BY <2>1 DEF Controllers
<1> QED  BY <1>2 DEF Updated

LEMMA PolledType ==
    ASSUME NEW c \in Controllers, NEW i
    PROVE  Polled(c, i) \in Controllers
<1>1. c.event \in LoadAnswers => c.event.loaded \in Settings
  BY DEF LoadAnswers
<1> QED  BY <1>1 DEF Polled, Controllers, Events

LEMMA SentType ==
    ASSUME NEW c \in Controllers, NEW i, NEW message \in Saves \cup {Load}
    PROVE  Sent(c, i, message) \in Controllers
<1>1. [c EXCEPT !.command = message, !.busy = TRUE, !.error = FALSE] \in Controllers
  BY DEF Controllers
<1>2. [c EXCEPT !.error = TRUE] \in Controllers
  BY DEF Controllers
<1> QED  BY <1>1, <1>2 DEF Sent

LEMMA DispatchedType ==
    ASSUME NEW c \in Controllers, NEW i, NEW force \in BOOLEAN
    PROVE  Dispatched(c, i, force) \in Controllers
<1>1. CASE c.desired # None
  <2>1. Save(c.revision, c.desired) \in Saves
    BY <1>1 DEF Controllers, Save, Saves
  <2>2. Sent(c, i, Save(c.revision, c.desired)) \in Controllers
    BY <2>1, SentType
  <2> QED  BY <2>2 DEF Dispatched
<1>2. CASE c.desired = None
  BY <1>2 DEF Dispatched
<1> QED  BY <1>1, <1>2

LEMMA RetriedType ==
    ASSUME NEW c \in Controllers, NEW i
    PROVE  Retried(c, i) \in Controllers
<1>1. [c EXCEPT !.error = FALSE] \in Controllers
  BY DEF Controllers
<1>2. Dispatched([c EXCEPT !.error = FALSE], i, TRUE) \in Controllers
  BY <1>1, DispatchedType
<1>3. Sent(c, i, Load) \in Controllers
  BY SentType
<1> QED  BY <1>2, <1>3 DEF Retried

LEMMA FinishedType ==
    ASSUME NEW c \in Controllers
    PROVE  Finished(c) \in Controllers
<1>1. \A k \in {"saved", "unloaded"} : [c EXCEPT !.close = k, !.closing = FALSE] \in Controllers
  BY DEF Controllers
<1> QED  BY <1>1 DEF Finished

LEMMA LogicType ==
    ASSUME NEW c \in Controllers, NEW i, NEW s \in Settings \cup {None}
    PROVE  Logic(c, i, s) \in Controllers
<1>1. c.closing \in BOOLEAN
  BY DEF Controllers
<1> DEFINE d == IF s # None /\ ~c.closing /\ ~c.error THEN Updated(c, s) ELSE c
<1>2. d \in Controllers
  BY UpdatedType
<1>3. Dispatched(d, i, c.closing) \in Controllers
  BY <1>1, <1>2, DispatchedType
<1> QED  BY <1>3, FinishedType DEF Logic

LEMMA QuitRequestedType ==
    ASSUME NEW c \in Controllers, NEW i, NEW s \in Settings
    PROVE  QuitRequested(c, i, s) \in Controllers
<1> DEFINE d == IF c.closing THEN c ELSE Updated([c EXCEPT !.closing = TRUE], s)
           f == Finished(Dispatched(d, i, TRUE))
<1>1. [c EXCEPT !.closing = TRUE] \in Controllers
  BY DEF Controllers
<1>2. d \in Controllers
  BY <1>1, UpdatedType
<1>3. f \in Controllers
  BY <1>2, DispatchedType, FinishedType
<1>4. [f EXCEPT !.hidden = FALSE] \in Controllers
  <2> HIDE DEF f
  <2> QED  BY <1>3 DEF Controllers
<1> QED  BY <1>3, <1>4 DEF QuitRequested

LEMMA HideRequestedType ==
    ASSUME NEW c \in Controllers, NEW i, NEW s \in Settings, NEW tray \in BOOLEAN
    PROVE  HideRequested(c, i, s, tray) \in Controllers
<1> DEFINE d == Dispatched(Updated(c, s), i, TRUE)
<1>1. d \in Controllers
  BY UpdatedType, DispatchedType
<1>2. [d EXCEPT !.hidden = TRUE] \in Controllers
  <2> HIDE DEF d
  <2> QED  BY <1>1 DEF Controllers
<1> QED  BY <1>2 DEF HideRequested

-----------------------------------------------------------------------------

\* A step of the UI thread keeps the types.
LEMMA SetType ==
    ASSUME TypeOK, NEW i \in Instances, NEW c \in Controllers, Set(i, c),
           UNCHANGED <<file, lock, wrk, confirmed, starts>>
    PROVE  TypeOK'
BY DEF TypeOK, Set

LEMMA CapturesAreSettings == Captures \subseteq Settings
BY DEF Captures

LEMMA UIType ==
    ASSUME TypeOK, NEW i \in Instances, UI(i)
    PROVE  TypeOK'
<1> DEFINE c == ctl[i]
<1>1. c \in Controllers
  BY DEF TypeOK
<1>2. \A t \in BOOLEAN : [c EXCEPT !.closing = t] \in Controllers
  BY <1>1 DEF Controllers
<1>3. [c EXCEPT !.closing = FALSE, !.close = "anyway"] \in Controllers
  BY <1>1 DEF Controllers
<1>4. CASE Frame(i)
  <2> DEFINE p == Polled(c, i)
  <2>1. p \in Controllers /\ [p EXCEPT !.hidden = FALSE] \in Controllers
    <3>1. p \in Controllers
      BY <1>1, PolledType
    <3> HIDE DEF p
    <3> QED  BY <3>1 DEF Controllers
  <2>2. PICK q \in Controllers : Set(i, q)
    <3> HIDE DEF p
    <3>1. \A s \in Settings \cup {None} : Logic(p, i, s) \in Controllers
      BY <2>1, LogicType
    <3>2. Logic([p EXCEPT !.hidden = FALSE], i, None) \in Controllers
      BY <2>1, LogicType
    <3>3. \A s \in Settings : Logic(QuitRequested(p, i, s), i, None) \in Controllers
      BY <2>1, LogicType, QuitRequestedType
    <3>4. \A s \in Settings, tray \in BOOLEAN :
             Logic(HideRequested(p, i, s, tray), i, None) \in Controllers
      BY <2>1, LogicType, HideRequestedType
    <3>5. \/ \E s \in Captures \cup {None} : Set(i, Logic(p, i, s))
          \/ Set(i, Logic([p EXCEPT !.hidden = FALSE], i, None))
          \/ \E s \in Captures : Set(i, Logic(QuitRequested(p, i, s), i, None))
          \/ \E s \in Captures, tray \in BOOLEAN :
                Set(i, Logic(HideRequested(p, i, s, tray), i, None))
      BY <1>4 DEF Frame, p
    <3> QED  BY <3>1, <3>2, <3>3, <3>4, <3>5, CapturesAreSettings
  <2> QED  BY <1>4, <2>2, SetType DEF Frame
<1>5. CASE Edit(i)
  <2>1. PICK s \in Captures : Set(i, Dispatched(Updated(c, s), i, c.closing))
    BY <1>5 DEF Edit
  <2>2. c.closing \in BOOLEAN
    BY <1>1 DEF Controllers
  <2>3. Dispatched(Updated(c, s), i, c.closing) \in Controllers
    BY <1>1, <2>2, CapturesAreSettings, UpdatedType, DispatchedType
  <2> QED  BY <1>5, <2>1, <2>3, SetType DEF Edit
<1>6. CASE Quit(i)
  BY <1>1, <1>6, CapturesAreSettings, QuitRequestedType, SetType DEF Quit
<1>7. CASE Retry(i)
  BY <1>1, <1>7, RetriedType, SetType DEF Retry
<1>8. CASE KeepOpen(i)
  BY <1>2, <1>8, SetType DEF KeepOpen
<1>9. CASE CloseAnyway(i)
  BY <1>3, <1>9, SetType DEF CloseAnyway
<1> QED  BY <1>4, <1>5, <1>6, <1>7, <1>8, <1>9 DEF UI

\* Whatever the worker answers, it has let the lock and its command go.
LEMMA AnswerType ==
    ASSUME TypeOK, NEW i \in Instances, NEW w \in Workers, NEW event \in Events,
           Answer(i, w, event), confirmed' \in [Instances -> Settings \cup {None}],
           UNCHANGED <<file, edits, starts>>
    PROVE  TypeOK'
<1>1. [w EXCEPT !.at = "dead", !.job = None] \in Workers
  BY DEF Workers
<1>2. [w EXCEPT !.at = "recv", !.job = None] \in Workers
  BY DEF Workers
<1>3. [ctl[i] EXCEPT !.event = event] \in Controllers
  <2>1. ctl[i] \in Controllers
    BY DEF TypeOK
  <2> QED  BY <2>1 DEF Controllers
<1>4. ctl' \in [Instances -> Controllers]
  BY <1>3 DEF TypeOK, Answer
<1>5. PICK place \in {"dead", "recv"} :
         wrk' = [wrk EXCEPT ![i] = [w EXCEPT !.at = place, !.job = None]]
  BY DEF Answer
<1>6. [w EXCEPT !.at = place, !.job = None] \in Workers
  BY <1>1, <1>2
<1>7. wrk' \in [Instances -> Workers]
  BY <1>5, <1>6 DEF TypeOK
<1>8. \A j \in Instances :
         wrk'[j].at \in {"check", "lock", "compare", "stage", "replace", "answer"}
            <=> wrk'[j].job # None
  <2>1. wrk'[i].at = place /\ wrk'[i].job = None
    BY <1>5 DEF TypeOK, Workers
  <2>2. \A j \in Instances \ {i} : wrk'[j] = wrk[j]
    BY <1>5 DEF TypeOK
  <2> QED  BY <2>1, <2>2 DEF TypeOK
<1>9. lock' \in Instances \cup {None}
  BY DEF TypeOK, Answer
<1> QED  BY <1>4, <1>7, <1>8, <1>9 DEF TypeOK

\* The worker goes from one place of a save to the next.
LEMMA GotoType ==
    ASSUME TypeOK, NEW i \in Instances,
           NEW place \in {"check", "lock", "compare", "stage", "replace", "answer"},
           wrk[i].job # None, Goto(i, place), lock' \in Instances \cup {None},
           UNCHANGED <<file, ctl, confirmed, edits, starts>>
    PROVE  TypeOK'
<1>1. [wrk[i] EXCEPT !.at = place] \in Workers
  BY DEF TypeOK, Workers
<1>2. wrk' \in [Instances -> Workers]
  BY <1>1 DEF TypeOK, Goto
<1>3. wrk'[i].at = place /\ wrk'[i].job # None
  BY DEF TypeOK, Goto, Workers
<1>4. \A j \in Instances \ {i} : wrk'[j] = wrk[j]
  BY DEF TypeOK, Goto
<1> QED  BY <1>2, <1>3, <1>4 DEF TypeOK

LEMMA WorkerType ==
    ASSUME TypeOK, NEW i \in Instances, Worker(i)
    PROVE  TypeOK'
<1>1. wrk[i] \in Workers /\ confirmed \in [Instances -> Settings \cup {None}]
  BY DEF TypeOK
<1>2. wrk[i].job # None => wrk[i].job \in Saves
  BY <1>1 DEF Workers
<1>3. wrk[i].job # None => \A ok \in BOOLEAN : [saved |-> wrk[i].job.save, ok |-> ok] \in Events
  <2>1. wrk[i].job # None => /\ [saved |-> wrk[i].job.save, ok |-> TRUE] \in SaveAnswers
                             /\ [saved |-> wrk[i].job.save, ok |-> FALSE] \in FailAnswers
    BY <1>2 DEF Saves, SaveAnswers, FailAnswers
  <2> QED  BY <2>1 DEF Events
<1>4. ASSUME Failed(i), wrk[i].job # None, UNCHANGED <<file, confirmed, edits, starts>>
      PROVE  TypeOK'
  BY <1>1, <1>3, <1>4, AnswerType DEF Failed
<1>5. CASE LoadFile(i)
  <2>1. CASE Answer(i, wrk[i], [loaded |-> None]) /\ UNCHANGED confirmed
    <3>1. [loaded |-> None] \in Events
      BY DEF Events, FailAnswers
    <3> QED  BY <1>1, <1>5, <2>1, <3>1, AnswerType DEF LoadFile
  <2>2. CASE /\ file # Broken
             /\ LET s == IF file # None THEN file ELSE IF Legacy # None THEN Legacy ELSE Default
                IN  /\ Answer(i, [wrk[i] EXCEPT !.loaded = TRUE, !.expected = file], [loaded |-> s])
                    /\ confirmed' = [confirmed EXCEPT ![i] = s]
    <3> DEFINE s == IF file # None THEN file ELSE IF Legacy # None THEN Legacy ELSE Default
    <3>1. s \in Settings /\ file \in Settings \cup {None}
      BY <2>2, PreferencesAssumption DEF TypeOK
    <3>2. [wrk[i] EXCEPT !.loaded = TRUE, !.expected = file] \in Workers
      BY <1>1, <3>1 DEF Workers
    <3>3. [loaded |-> s] \in Events
      BY <3>1 DEF Events, LoadAnswers
    <3>4. confirmed' \in [Instances -> Settings \cup {None}]
      BY <1>1, <2>2, <3>1
    <3> QED  BY <1>5, <2>2, <3>2, <3>3, <3>4, AnswerType DEF LoadFile
  <2> QED  BY <1>5, <2>1, <2>2 DEF LoadFile
<1>6. CASE Receive(i)
  <2>1. CASE Stop(i)
    <3>1. wrk' = [wrk EXCEPT ![i].at = "dead"] /\ wrk[i].job = None /\ UNCHANGED ctl
      BY <1>6, <2>1 DEF Receive, Goto, At, TypeOK
    <3>2. [wrk[i] EXCEPT !.at = "dead"] \in Workers
      BY <1>1 DEF Workers
    <3>3. wrk' \in [Instances -> Workers]
      BY <3>1, <3>2 DEF TypeOK
    <3>4. wrk'[i].at = "dead" /\ wrk'[i].job = None
      BY <1>1, <3>1 DEF TypeOK, Workers
    <3>5. \A j \in Instances \ {i} : wrk'[j] = wrk[j]
      BY <3>1 DEF TypeOK
    <3> QED  BY <1>6, <3>1, <3>3, <3>4, <3>5 DEF TypeOK, Receive
  <2>2. CASE ~Stop(i)
    <3> DEFINE k == ctl[i].command
               place == IF k = Load THEN "load" ELSE "check"
               job == IF k = Load THEN None ELSE k
    <3>1. k \in Saves \cup {Load} /\ ctl' = [ctl EXCEPT ![i].command = None]
      BY <1>6, <2>2 DEF Receive, TypeOK, Controllers
    <3>2. wrk' = [wrk EXCEPT ![i] = [wrk[i] EXCEPT !.at = place, !.job = job]]
      BY <1>6, <2>2 DEF Receive, TypeOK
    <3>3. job \in Saves \cup {None} /\ place \in {"load", "check"}
      BY <3>1
    <3>4. job # None <=> place = "check"
      BY <3>1, PreferencesAssumption DEF Saves
    <3>5. [wrk[i] EXCEPT !.at = place, !.job = job] \in Workers
      <4> HIDE DEF place, job
      <4> QED  BY <1>1, <3>3 DEF Workers
    <3>6. wrk' \in [Instances -> Workers]
      BY <3>2, <3>5 DEF TypeOK
    <3>7. wrk'[i].at = place /\ wrk'[i].job = job
      <4> HIDE DEF place, job
      <4> QED  BY <1>1, <3>2 DEF TypeOK, Workers
    <3>8. \A j \in Instances \ {i} : wrk'[j] = wrk[j]
      BY <3>2 DEF TypeOK
    <3>9. [ctl[i] EXCEPT !.command = None] \in Controllers
      <4>1. ctl[i] \in Controllers
        BY DEF TypeOK
      <4> QED  BY <4>1 DEF Controllers
    <3>10. ctl' \in [Instances -> Controllers]
      BY <3>1, <3>9 DEF TypeOK
    <3> QED
      <4> HIDE DEF place, job
      <4> QED  BY <1>6, <3>3, <3>4, <3>6, <3>7, <3>8, <3>10 DEF TypeOK, Receive
  <2> QED  BY <2>1, <2>2
<1>7. CASE Check(i)
  <2>1. wrk[i].job # None
    BY <1>7 DEF Check, At, TypeOK
  <2>2. CASE Answer(i, wrk[i], [saved |-> wrk[i].job.save, ok |-> TRUE])
             /\ confirmed' = [confirmed EXCEPT ![i] = wrk[i].job.value]
    <3>1. confirmed' \in [Instances -> Settings \cup {None}]
      BY <1>1, <1>2, <2>1, <2>2 DEF Saves
    <3> QED  BY <1>1, <1>3, <1>7, <2>1, <2>2, <3>1, AnswerType DEF Check
  <2>3. CASE Failed(i) /\ UNCHANGED confirmed
    BY <1>4, <1>7, <2>1, <2>3 DEF Check
  <2>4. CASE Goto(i, "lock") /\ UNCHANGED <<ctl, lock, confirmed>>
    BY <1>7, <2>1, <2>4, GotoType DEF Check, TypeOK
  <2> QED  BY <1>7, <2>2, <2>3, <2>4 DEF Check
<1>8. CASE TryLock(i)
  <2>1. wrk[i].job # None
    BY <1>8 DEF TryLock, At, TypeOK
  <2>2. CASE Failed(i)
    BY <1>4, <1>8, <2>1, <2>2 DEF TryLock
  <2>3. CASE lock' = i /\ Goto(i, "compare") /\ UNCHANGED ctl
    BY <1>8, <2>1, <2>3, GotoType DEF TryLock
  <2> QED  BY <1>8, <2>2, <2>3 DEF TryLock
<1>9. CASE Compare(i)
  <2>1. wrk[i].job # None
    BY <1>9 DEF Compare, At, TypeOK
  <2> QED  BY <1>4, <1>9, <2>1, GotoType DEF Compare, TypeOK
<1>10. CASE Stage(i)
  <2>1. wrk[i].job # None
    BY <1>10 DEF Stage, At, TypeOK
  <2> QED  BY <1>4, <1>10, <2>1, GotoType DEF Stage, TypeOK
<1>11. CASE Replace(i)
  <2>1. wrk[i].job \in Saves
    BY <1>2, <1>11 DEF Replace, At, TypeOK
  <2>2. CASE Failed(i) /\ UNCHANGED <<file, confirmed>>
    BY <1>4, <1>11, <2>1, <2>2, <1>1 DEF Replace, At, TypeOK
  <2>3. CASE /\ file' = wrk[i].job.value
             /\ wrk' = [wrk EXCEPT ![i].at = "answer", ![i].expected = wrk[i].job.value]
             /\ confirmed' = [confirmed EXCEPT ![i] = wrk[i].job.value]
             /\ UNCHANGED <<ctl, lock>>
    <3> DEFINE v == wrk[i].job.value
    <3>1. v \in Settings
      BY <2>1 DEF Saves
    <3>2. [wrk[i] EXCEPT !.at = "answer", !.expected = v] \in Workers
      <4> HIDE DEF v
      <4> QED  BY <1>1, <3>1 DEF Workers
    <3>3. wrk' = [wrk EXCEPT ![i] = [wrk[i] EXCEPT !.at = "answer", !.expected = v]]
      BY <2>3 DEF TypeOK
    <3>4. wrk' \in [Instances -> Workers]
      BY <3>2, <3>3 DEF TypeOK
    <3>5. wrk'[i].at = "answer" /\ wrk'[i].job = wrk[i].job
      <4> HIDE DEF v
      <4> QED  BY <1>1, <3>3 DEF TypeOK, Workers
    <3>6. wrk[i].job # None
      BY <1>11 DEF Replace, At, TypeOK
    <3>7. \A j \in Instances \ {i} : wrk'[j] = wrk[j]
      BY <3>3 DEF TypeOK
    <3> QED  BY <1>11, <2>3, <3>1, <3>4, <3>5, <3>6, <3>7 DEF TypeOK, Replace
  <2> QED  BY <1>11, <2>2, <2>3 DEF Replace
<1>12. CASE Acknowledge(i)
  <2>1. wrk[i].job # None
    BY <1>12 DEF Acknowledge, At, TypeOK
  <2> QED  BY <1>1, <1>3, <1>12, <2>1, AnswerType DEF Acknowledge
<1> QED
  BY <1>5, <1>6, <1>7, <1>8, <1>9, <1>10, <1>11, <1>12 DEF Worker

LEMMA OffType == OffCtl \in Controllers /\ OffWrk \in Workers
BY PreferencesAssumption DEF OffCtl, OffWrk, Controllers, Workers

LEMMA ProcessType ==
    ASSUME TypeOK, NEW i \in Instances, Process(i)
    PROVE  TypeOK'
<1>1. CASE Start(i)
  <2>1. PICK active \in BOOLEAN :
           /\ ctl' = [ctl EXCEPT ![i] =
                        [OffCtl EXCEPT !.life = "up", !.busy = active, !.error = ~active]]
           /\ wrk' = [wrk EXCEPT ![i] = [OffWrk EXCEPT !.at = IF active THEN "load" ELSE "dead"]]
    BY <1>1 DEF Start
  <2>2. [OffCtl EXCEPT !.life = "up", !.busy = active, !.error = ~active] \in Controllers
    BY OffType DEF Controllers
  <2>3. \A place \in {"load", "dead"} : [OffWrk EXCEPT !.at = place] \in Workers
    BY OffType DEF Workers
  <2>4. ctl' \in [Instances -> Controllers] /\ wrk' \in [Instances -> Workers]
    BY <2>1, <2>2, <2>3 DEF TypeOK
  <2>5. wrk'[i].at \in {"load", "dead"} /\ wrk'[i].job = None
    BY <2>1 DEF TypeOK, OffWrk
  <2>6. \A j \in Instances \ {i} : wrk'[j] = wrk[j]
    BY <2>1 DEF TypeOK
  <2> QED  BY <1>1, <2>4, <2>5, <2>6 DEF TypeOK, Start
<1>2. CASE DebouncePasses(i)
  <2>1. [ctl[i] EXCEPT !.recent = FALSE] \in Controllers
    <3>1. ctl[i] \in Controllers
      BY DEF TypeOK
    <3> QED  BY <3>1 DEF Controllers
  <2> QED  BY <1>2, <2>1, SetType DEF DebouncePasses
<1>3. CASE Drop(i)
  <2>1. [ctl[i] EXCEPT !.life = "dropped"] \in Controllers
    <3>1. ctl[i] \in Controllers
      BY DEF TypeOK
    <3> QED  BY <3>1 DEF Controllers
  <2> QED  BY <1>3, <2>1, SetType DEF Drop
<1>4. CASE End(i)
  <2>1. ctl' \in [Instances -> Controllers] /\ wrk' \in [Instances -> Workers]
    BY <1>4, OffType DEF TypeOK, End
  <2>2. wrk'[i].at = "dead" /\ wrk'[i].job = None
    BY <1>4 DEF TypeOK, End, OffWrk
  <2>3. \A j \in Instances \ {i} : wrk'[j] = wrk[j]
    BY <1>4 DEF TypeOK, End
  <2> QED  BY <1>4, <2>1, <2>2, <2>3 DEF TypeOK, End
<1> QED  BY <1>1, <1>2, <1>3, <1>4 DEF Process

LEMMA PanicType ==
    ASSUME TypeOK, NEW i \in Instances, Panic(i)
    PROVE  TypeOK'
<1>1. wrk[i] \in Workers
  BY DEF TypeOK
<1>2. [wrk[i] EXCEPT !.at = "dead", !.job = None] \in Workers
  BY <1>1 DEF Workers
<1>3. wrk' = [wrk EXCEPT ![i] = [wrk[i] EXCEPT !.at = "dead", !.job = None]]
  BY DEF Panic, TypeOK
<1>4. wrk' \in [Instances -> Workers]
  BY <1>2, <1>3 DEF TypeOK
<1>5. wrk'[i].at = "dead" /\ wrk'[i].job = None
  BY <1>1, <1>3 DEF TypeOK, Workers
<1>6. \A j \in Instances \ {i} : wrk'[j] = wrk[j]
  BY <1>3 DEF TypeOK
<1> QED  BY <1>4, <1>5, <1>6 DEF TypeOK, Panic

LEMMA TypeStep == TypeOK /\ [Next]_vars => TypeOK'
<1> SUFFICES ASSUME TypeOK, [Next]_vars PROVE TypeOK'
    OBVIOUS
<1>1. CASE UNCHANGED vars
  BY <1>1 DEF TypeOK, vars
<1>2. CASE Next
  BY <1>2, UIType, WorkerType, ProcessType, PanicType DEF Next
<1> QED  BY <1>1, <1>2

\* Every variable keeps its type.
THEOREM TypeCorrect == Spec => []TypeOK
<1>1. Init => TypeOK
  BY OffType DEF Init, TypeOK, OffWrk
<1> QED  BY <1>1, TypeStep, PTL DEF Spec

-----------------------------------------------------------------------------
(* The settings file *)

\* Between the comparison and the rename the lock keeps others from the file.
StoreInv ==
    \A i \in Instances :
        /\ wrk[i].at \in {"lock", "compare", "stage", "replace", "answer"} => wrk[i].loaded
        /\ wrk[i].at \in {"compare", "stage", "replace", "answer"} => lock = i
        /\ wrk[i].at \in {"stage", "replace"} => file = wrk[i].expected

\* A step that moves no store and leaves file and lock alone.
LEMMA StoreKept ==
    ASSUME StoreInv, UNCHANGED <<file, lock, wrk>>
    PROVE  StoreInv'
BY DEF StoreInv

\* A worker that lets its job go holds no lock.
LEMMA StoreReleased ==
    ASSUME TypeOK, StoreInv, NEW i \in Instances,
           lock' = IF lock = i THEN None ELSE lock, UNCHANGED file,
           wrk' = [wrk EXCEPT ![i] = wrk'[i]],
           wrk'[i].at \notin {"lock", "compare", "stage", "replace", "answer"}
    PROVE  StoreInv'
BY DEF StoreInv, TypeOK

\* A worker that goes on from `at' keeps what it holds.
LEMMA StoreOnward ==
    ASSUME TypeOK, StoreInv, NEW i \in Instances, NEW place, Goto(i, place),
           UNCHANGED <<file, lock>>,
           place \in {"lock", "compare", "stage", "replace", "answer"} => wrk[i].loaded,
           place \in {"compare", "stage", "replace", "answer"} => lock = i,
           place \in {"stage", "replace"} => file = wrk[i].expected
    PROVE  StoreInv'
<1>1. /\ wrk'[i].at = place
      /\ wrk'[i].loaded = wrk[i].loaded /\ wrk'[i].expected = wrk[i].expected
  BY DEF Goto, TypeOK, Workers
<1>2. \A j \in Instances \ {i} : wrk'[j] = wrk[j]
  BY DEF Goto, TypeOK
<1> QED  BY <1>1, <1>2 DEF StoreInv

\* What an answer does to the store.
LEMMA AnswerReleases ==
    ASSUME TypeOK, NEW i \in Instances, NEW w \in Workers, NEW event, Answer(i, w, event)
    PROVE  /\ lock' = IF lock = i THEN None ELSE lock
           /\ wrk' = [wrk EXCEPT ![i] = wrk'[i]]
           /\ wrk'[i].at \in {"dead", "recv"}
           /\ wrk'[i].loaded = w.loaded /\ wrk'[i].expected = w.expected
<1>1. PICK place \in {"dead", "recv"} :
         wrk' = [wrk EXCEPT ![i] = [w EXCEPT !.at = place, !.job = None]]
  BY DEF Answer
<1>2. wrk'[i] = [w EXCEPT !.at = place, !.job = None]
  BY <1>1 DEF TypeOK
<1>3. wrk'[i].at = place /\ wrk'[i].loaded = w.loaded /\ wrk'[i].expected = w.expected
  BY <1>2 DEF Workers
<1> QED  BY <1>1, <1>2, <1>3 DEF Answer

LEMMA FailedKeepsStore ==
    ASSUME TypeOK, StoreInv, NEW i \in Instances, Failed(i), UNCHANGED file
    PROVE  StoreInv'
BY AnswerReleases, StoreReleased DEF Failed, TypeOK

LEMMA StoreStep == TypeOK /\ StoreInv /\ [Next]_vars => StoreInv'
<1> SUFFICES ASSUME TypeOK, StoreInv, [Next]_vars PROVE StoreInv'
    OBVIOUS
<1>1. CASE UNCHANGED vars
  BY <1>1, StoreKept DEF vars
<1>2. ASSUME NEW i \in Instances, UI(i) PROVE StoreInv'
  BY <1>2, StoreKept DEF UI, Frame, Edit, Quit, Retry, KeepOpen, CloseAnyway
<1>3. ASSUME NEW i \in Instances, Process(i) PROVE StoreInv'
  <2>1. CASE Start(i)
    <3>1. PICK place \in {"load", "dead"} : wrk' = [wrk EXCEPT ![i] = [OffWrk EXCEPT !.at = place]]
      BY <2>1 DEF Start
    <3>2. wrk'[i].at = place /\ \A j \in Instances \ {i} : wrk'[j] = wrk[j]
      BY <3>1 DEF TypeOK, OffWrk
    <3> QED  BY <2>1, <3>2 DEF Start, StoreInv
  <2>2. CASE DebouncePasses(i) \/ Drop(i)
    BY <2>2, StoreKept DEF DebouncePasses, Drop
  <2>3. CASE End(i)
    <3>1. wrk' = [wrk EXCEPT ![i] = wrk'[i]] /\ wrk'[i].at = "dead"
      BY <2>3 DEF End, TypeOK, OffWrk
    <3> QED  BY <2>3, <3>1, StoreReleased DEF End
  <2> QED  BY <1>3, <2>1, <2>2, <2>3 DEF Process
<1>4. ASSUME NEW i \in Instances, Panic(i) PROVE StoreInv'
  <2>1. wrk' = [wrk EXCEPT ![i] = [wrk[i] EXCEPT !.at = "dead", !.job = None]]
    BY <1>4 DEF Panic, TypeOK
  <2>2. wrk' = [wrk EXCEPT ![i] = wrk'[i]] /\ wrk'[i].at = "dead"
    BY <2>1 DEF TypeOK, Workers
  <2> QED  BY <1>4, <2>2, StoreReleased DEF Panic
<1>5. ASSUME NEW i \in Instances, Worker(i) PROVE StoreInv'
  <2>1. CASE LoadFile(i)
    <3>1. PICK w \in Workers : \E event : Answer(i, w, event)
      <4>1. wrk[i] \in Workers
        BY DEF TypeOK
      <4>2. file # Broken => [wrk[i] EXCEPT !.loaded = TRUE, !.expected = file] \in Workers
        BY <4>1 DEF Workers, TypeOK
      <4> QED  BY <2>1, <4>1, <4>2 DEF LoadFile
    <3>2. PICK event : Answer(i, w, event)
      BY <3>1
    <3> QED  BY <2>1, <3>2, AnswerReleases, StoreReleased DEF LoadFile
  <2>2. CASE Receive(i)
    <3>1. PICK place \in {"load", "check", "dead"} : \E job :
             wrk' = [wrk EXCEPT ![i] = [wrk[i] EXCEPT !.at = place, !.job = job]]
      <4>1. CASE Stop(i)
        <5>1. wrk' = [wrk EXCEPT ![i] = [wrk[i] EXCEPT !.at = "dead"]]
          BY <2>2, <4>1 DEF Receive, Goto, TypeOK
        <5>2. [wrk[i] EXCEPT !.at = "dead"] = [wrk[i] EXCEPT !.at = "dead", !.job = wrk[i].job]
          BY DEF TypeOK, Workers
        <5> QED  BY <5>1, <5>2
      <4>2. CASE ~Stop(i)
        <5>1. CASE ctl[i].command = Load
          <6>1. wrk' = [wrk EXCEPT ![i] = [wrk[i] EXCEPT !.at = "load", !.job = None]]
            BY <2>2, <4>2, <5>1 DEF Receive, TypeOK
          <6> QED  BY <6>1
        <5>2. CASE ctl[i].command # Load
          <6>1. wrk' = [wrk EXCEPT ![i] = [wrk[i] EXCEPT !.at = "check", !.job = ctl[i].command]]
            BY <2>2, <4>2, <5>2 DEF Receive, TypeOK
          <6> QED  BY <6>1
        <5> QED  BY <5>1, <5>2
      <4> QED  BY <4>1, <4>2
    <3>2. wrk'[i].at = place /\ \A j \in Instances \ {i} : wrk'[j] = wrk[j]
      BY <3>1 DEF TypeOK, Workers
    <3> QED  BY <2>2, <3>2 DEF Receive, StoreInv
  <2>3. CASE Check(i)
    <3>1. CASE Failed(i)
      BY <2>3, <3>1, FailedKeepsStore DEF Check
    <3>2. CASE Answer(i, wrk[i], [saved |-> wrk[i].job.save, ok |-> TRUE])
      BY <2>3, <3>2, AnswerReleases, StoreReleased DEF Check, TypeOK
    <3>3. CASE wrk[i].loaded /\ Goto(i, "lock") /\ UNCHANGED lock
      BY <2>3, <3>3, StoreOnward DEF Check
    <3> QED  BY <2>3, <3>1, <3>2, <3>3 DEF Check
  <2>4. CASE TryLock(i)
    <3>1. CASE Failed(i)
      BY <2>4, <3>1, FailedKeepsStore DEF TryLock
    <3>2. CASE lock = None /\ lock' = i /\ Goto(i, "compare")
      <4>1. wrk'[i].at = "compare" /\ wrk'[i].loaded = wrk[i].loaded
        BY <3>2 DEF Goto, TypeOK, Workers
      <4>2. \A j \in Instances \ {i} : wrk'[j] = wrk[j]
        BY <3>2 DEF Goto, TypeOK
      <4>3. \A j \in Instances : wrk[j].at \notin {"compare", "stage", "replace", "answer"}
        BY <3>2, PreferencesAssumption DEF StoreInv
      <4> QED  BY <2>4, <3>2, <4>1, <4>2, <4>3 DEF TryLock, At, StoreInv
    <3> QED  BY <2>4, <3>1, <3>2 DEF TryLock
  <2>5. CASE Compare(i)
    BY <2>5, FailedKeepsStore, StoreOnward DEF Compare, At, StoreInv
  <2>6. CASE Stage(i)
    BY <2>6, FailedKeepsStore, StoreOnward DEF Stage, At, StoreInv
  <2>7. CASE Replace(i)
    <3>1. CASE Failed(i) /\ UNCHANGED file
      BY <2>7, <3>1, FailedKeepsStore
    <3>2. CASE /\ wrk' = [wrk EXCEPT ![i].at = "answer", ![i].expected = wrk[i].job.value]
               /\ UNCHANGED lock
      <4>1. wrk'[i].at = "answer" /\ wrk'[i].loaded = wrk[i].loaded
        BY <3>2 DEF TypeOK, Workers
      <4>2. \A j \in Instances \ {i} : wrk'[j] = wrk[j]
        BY <3>2 DEF TypeOK
      <4>3. \A j \in Instances \ {i} : wrk[j].at \notin {"stage", "replace"}
        BY <2>7 DEF Replace, At, StoreInv
      <4> QED  BY <2>7, <3>2, <4>1, <4>2, <4>3 DEF Replace, At, StoreInv
    <3> QED  BY <2>7, <3>1, <3>2 DEF Replace
  <2>8. CASE Acknowledge(i)
    BY <2>8, AnswerReleases, StoreReleased DEF Acknowledge, TypeOK
  <2> QED  BY <1>5, <2>1, <2>2, <2>3, <2>4, <2>5, <2>6, <2>7, <2>8 DEF Worker
<1> QED  BY <1>1, <1>2, <1>3, <1>4, <1>5 DEF Next

\* The invariant behind the refinement holds throughout.
THEOREM StoreExclusive == Spec => []StoreInv
<1>1. Init => StoreInv
  <2>1. Init => \A i \in Instances : wrk[i].at = "dead"
    <3>1. OffWrk.at = "dead"
      BY DEF OffWrk
    <3> QED  BY <3>1 DEF Init
  <2> QED  BY <2>1 DEF StoreInv
<1> QED  BY <1>1, TypeCorrect, StoreStep, PTL DEF Spec

Known(i) == IF wrk[i].loaded THEN wrk[i].expected ELSE Unknown

\* A step that keeps the file and what instance i, and so every one, knows of it.
LEMMA KnownKept ==
    ASSUME TypeOK, NEW i \in Instances, UNCHANGED file,
           wrk' = [wrk EXCEPT ![i] = wrk'[i]],
           wrk'[i].loaded = wrk[i].loaded, wrk'[i].expected = wrk[i].expected
    PROVE  UNCHANGED File!vars
<1>1. \A j \in Instances : wrk'[j].loaded = wrk[j].loaded /\ wrk'[j].expected = wrk[j].expected
  BY DEF TypeOK
<1> QED  BY <1>1 DEF File!vars

LEMMA NothingKnownChanges ==
    ASSUME UNCHANGED <<file, wrk>>
    PROVE  UNCHANGED File!vars
BY DEF File!vars

LEMMA FailedIsSilent ==
    ASSUME TypeOK, NEW i \in Instances, Failed(i), UNCHANGED file
    PROVE  UNCHANGED File!vars
BY AnswerReleases, KnownKept DEF Failed, TypeOK

LEMMA GotoIsSilent ==
    ASSUME TypeOK, NEW i \in Instances, NEW place, Goto(i, place), UNCHANGED file
    PROVE  UNCHANGED File!vars
<1>1. wrk' = [wrk EXCEPT ![i] = [wrk[i] EXCEPT !.at = place]]
  BY DEF Goto, TypeOK
<1>2. /\ wrk' = [wrk EXCEPT ![i] = wrk'[i]]
      /\ wrk'[i].loaded = wrk[i].loaded /\ wrk'[i].expected = wrk[i].expected
  BY <1>1 DEF TypeOK, Workers
<1> QED  BY <1>2, KnownKept

\* Only instance i's knowledge changes, from and to what Known says.
LEMMA KnownChanges ==
    ASSUME TypeOK, NEW i \in Instances, wrk' = [wrk EXCEPT ![i] = wrk'[i]]
    PROVE  [j \in Instances |-> IF wrk'[j].loaded THEN wrk'[j].expected ELSE Unknown]
             = [[j \in Instances |-> IF wrk[j].loaded THEN wrk[j].expected ELSE Unknown]
                  EXCEPT ![i] = Known(i)']
<1>1. \A j \in Instances \ {i} : wrk'[j] = wrk[j]
  BY DEF TypeOK
<1> QED  BY <1>1 DEF Known

LEMMA FileStep ==
    ASSUME TypeOK, StoreInv, [Next]_vars
    PROVE  [File!Next]_(File!vars)
<1>1. CASE UNCHANGED vars
  BY <1>1, NothingKnownChanges DEF vars
<1>2. ASSUME NEW i \in Instances, UI(i) PROVE UNCHANGED File!vars
  BY <1>2, NothingKnownChanges DEF UI, Frame, Edit, Quit, Retry, KeepOpen, CloseAnyway
<1>3. ASSUME NEW i \in Instances, Panic(i) PROVE UNCHANGED File!vars
  <2>1. wrk' = [wrk EXCEPT ![i] = [wrk[i] EXCEPT !.at = "dead", !.job = None]]
    BY <1>3 DEF Panic, TypeOK
  <2>2. /\ wrk' = [wrk EXCEPT ![i] = wrk'[i]]
        /\ wrk'[i].loaded = wrk[i].loaded /\ wrk'[i].expected = wrk[i].expected
    BY <2>1 DEF TypeOK, Workers
  <2> QED  BY <1>3, <2>2, KnownKept DEF Panic
<1>4. ASSUME NEW i \in Instances, Process(i) PROVE [File!Next]_(File!vars)
  <2>1. CASE DebouncePasses(i) \/ Drop(i)
    BY <2>1, NothingKnownChanges DEF DebouncePasses, Drop
  <2>2. CASE Start(i) \/ End(i)
    <3>2. wrk' = [wrk EXCEPT ![i] = wrk'[i]] /\ ~wrk'[i].loaded
      <4>1. CASE Start(i)
        <5>1. PICK place : wrk' = [wrk EXCEPT ![i] = [OffWrk EXCEPT !.at = place]]
          BY <4>1 DEF Start
        <5> QED  BY <5>1 DEF TypeOK, OffWrk
      <4>2. CASE End(i)
        BY <4>2 DEF End, TypeOK, OffWrk
      <4> QED  BY <2>2, <4>1, <4>2
    <3>3. Known(i)' = Unknown
      BY <3>2 DEF Known
    <3>4. File!Forget(i)
      BY <2>2, <3>2, <3>3, KnownChanges DEF File!Forget, Start, End
    <3> QED  BY <3>4 DEF File!Next
  <2> QED  BY <1>4, <2>1, <2>2 DEF Process
<1>5. ASSUME NEW i \in Instances, LoadFile(i) PROVE [File!Next]_(File!vars)
  <2>1. CASE Answer(i, wrk[i], [loaded |-> None])
    BY <1>5, <2>1, AnswerReleases, KnownKept DEF LoadFile, TypeOK
  <2>2. CASE /\ file # Broken
             /\ \E event : Answer(i, [wrk[i] EXCEPT !.loaded = TRUE, !.expected = file], event)
    <3> DEFINE w == [wrk[i] EXCEPT !.loaded = TRUE, !.expected = file]
    <3>1. w \in Workers /\ w.loaded /\ w.expected = file
      <4>1. wrk[i] \in Workers /\ file \in Settings \cup {None}
        BY <2>2 DEF TypeOK
      <4> QED  BY <4>1 DEF Workers
    <3>2. wrk' = [wrk EXCEPT ![i] = wrk'[i]] /\ wrk'[i].loaded /\ wrk'[i].expected = file
      <4> HIDE DEF w
      <4>1. PICK event : Answer(i, w, event)
        BY <2>2 DEF w
      <4> QED  BY <3>1, <4>1, AnswerReleases
    <3>3. Known(i)' = file
      BY <3>2 DEF Known
    <3>4. File!Load(i)
      BY <1>5, <2>2, <3>2, <3>3, KnownChanges DEF File!Load, LoadFile, TypeOK
    <3> QED  BY <3>4 DEF File!Next
  <2> QED  BY <1>5, <2>1, <2>2 DEF LoadFile
<1>6. ASSUME NEW i \in Instances, Replace(i) PROVE [File!Next]_(File!vars)
  <2>1. CASE Failed(i) /\ UNCHANGED file
    BY <2>1, FailedIsSilent
  <2>2. CASE /\ file' = wrk[i].job.value
             /\ wrk' = [wrk EXCEPT ![i].at = "answer", ![i].expected = wrk[i].job.value]
    <3>1. PICK s \in Settings : s = wrk[i].job.value
      BY <1>6 DEF Replace, At, TypeOK, Workers, Saves
    <3>2. wrk[i].loaded /\ file = wrk[i].expected
      BY <1>6 DEF Replace, At, StoreInv
    <3>3. /\ wrk' = [wrk EXCEPT ![i] = wrk'[i]]
          /\ wrk'[i].loaded = wrk[i].loaded /\ wrk'[i].expected = s
      BY <2>2, <3>1 DEF TypeOK, Workers
    <3>4. Known(i) = file /\ Known(i)' = s
      BY <3>2, <3>3 DEF Known
    <3>5. File!Replace(i, s)
      BY <2>2, <3>1, <3>3, <3>4, KnownChanges DEF File!Replace, Known
    <3> QED  BY <3>5 DEF File!Next
  <2> QED  BY <1>6, <2>1, <2>2 DEF Replace
<1>7. ASSUME NEW i \in Instances,
             \/ Receive(i) \/ Check(i) \/ TryLock(i) \/ Compare(i) \/ Stage(i) \/ Acknowledge(i)
      PROVE  UNCHANGED File!vars
  <2>1. CASE Receive(i)
    <3>1. /\ wrk' = [wrk EXCEPT ![i] = wrk'[i]]
          /\ wrk'[i].loaded = wrk[i].loaded /\ wrk'[i].expected = wrk[i].expected
      BY <2>1 DEF Receive, Goto, TypeOK, Workers
    <3> QED  BY <2>1, <3>1, KnownKept DEF Receive
  <2>2. CASE Check(i)
    <3>1. CASE Answer(i, wrk[i], [saved |-> wrk[i].job.save, ok |-> TRUE])
      BY <2>2, <3>1, AnswerReleases, KnownKept DEF Check, TypeOK
    <3> QED  BY <2>2, <3>1, FailedIsSilent, GotoIsSilent DEF Check
  <2>3. CASE TryLock(i)
    BY <2>3, FailedIsSilent, GotoIsSilent DEF TryLock
  <2>4. CASE Compare(i)
    BY <2>4, FailedIsSilent, GotoIsSilent DEF Compare
  <2>5. CASE Stage(i)
    BY <2>5, FailedIsSilent, GotoIsSilent DEF Stage
  <2>6. CASE Acknowledge(i)
    BY <2>6, AnswerReleases, KnownKept DEF Acknowledge, TypeOK
  <2> QED  BY <1>7, <2>1, <2>2, <2>3, <2>4, <2>5, <2>6
<1> QED  BY <1>1, <1>2, <1>3, <1>4, <1>5, <1>6, <1>7 DEF Next, Worker

\* Lock, comparison and rename amount to one compare-and-swap on the settings
\* file, whatever the number of instances and whenever they end.
THEOREM SavesAreAtomic == Spec => ImplementsSettingsFile
<1>1. Init => File!Init
  BY DEF Init, File!Init, OffWrk
<1>2. TypeOK /\ StoreInv /\ [Next]_vars => [File!Next]_(File!vars)
  BY FileStep
<1> QED  BY <1>1, <1>2, TypeCorrect, StoreExclusive, PTL
         DEF Spec, ImplementsSettingsFile, File!Spec

-----------------------------------------------------------------------------
(* What "Settings saved" means *)

LEMMA AnswersApart ==
    ASSUME NEW e
    PROVE  /\ e \in LoadAnswers => e \notin SaveAnswers /\ e \notin FailAnswers /\ e # None
           /\ e \in SaveAnswers => e \notin LoadAnswers /\ e \notin FailAnswers /\ e # None
           /\ e \in FailAnswers => e \notin LoadAnswers /\ e \notin SaveAnswers /\ e # None
<1>1. None \notin Events /\ None \notin Settings
  BY PreferencesAssumption
<1>2. \A l \in [loaded : Settings \cup {None}] : DOMAIN l = {"loaded"}
  OBVIOUS
<1>3. \A s \in [saved : Nat, ok : BOOLEAN] : DOMAIN s = {"saved", "ok"}
  OBVIOUS
<1>4. "loaded" \notin {"saved", "ok"}
  OBVIOUS
<1>5. \A l \in [loaded : Settings \cup {None}], s \in [saved : Nat, ok : BOOLEAN] : l # s
  BY <1>2, <1>3, <1>4
<1>6. /\ LoadAnswers \subseteq [loaded : Settings \cup {None}]
      /\ SaveAnswers \subseteq [saved : Nat, ok : BOOLEAN]
      /\ FailAnswers \subseteq [loaded : Settings \cup {None}] \cup [saved : Nat, ok : BOOLEAN]
  BY DEF LoadAnswers, SaveAnswers, FailAnswers
<1>7. e \in LoadAnswers => e \notin FailAnswers
  BY <1>1, <1>5 DEF LoadAnswers, FailAnswers
<1>8. e \in SaveAnswers => e \notin FailAnswers
  BY <1>5 DEF SaveAnswers, FailAnswers
<1>9. e \in LoadAnswers => e \notin SaveAnswers
  BY <1>5, <1>6
<1>10. e \in Events => e # None
  BY <1>1
<1> QED  BY <1>7, <1>8, <1>9, <1>10 DEF Events

LEMMA LoadIsNoSave == Load \notin Saves
<1>1. DOMAIN Load = {"load"}
  BY DEF Load
<1>2. \A f \in Saves : DOMAIN f = {"save", "value"}
  BY DEF Saves
<1>3. "load" \notin {"save", "value"}
  OBVIOUS
<1> QED  BY <1>1, <1>2, <1>3

\* One message is under way: in the channel of commands, at the worker or in the channel
\* of events, and the controller is busy until it has polled.
OneMessage(c, w) ==
    /\ c.busy \/ (c.command = None /\ c.event = None /\ w.at \in {"recv", "dead"})
    /\ c.command # None => w.at = "recv" /\ c.event = None
    /\ c.event # None => w.at = "recv"
    /\ w.job # None => w.at \notin {"recv", "dead", "load"}

\* Before it has loaded, a controller has nothing to save, and storage has confirmed what
\* the answer on its way says.
Loading(c, w, k) ==
    /\ c.desired = None /\ c.command \in {None, Load} /\ w.job = None
    /\ c.event \notin SaveAnswers
    /\ c.event \in LoadAnswers => k = c.event.loaded

\* A save is of the capture of its revision: while that is the latest one, it holds what
\* is shown.
Of(c, m) == m.save <= c.revision /\ (m.save = c.revision => m.value = c.shown)

Saving(c, w, k) ==
    /\ c.desired \in {None, c.shown} /\ c.command \in Saves \cup {None} /\ w.at # "load"
    /\ c.event \notin LoadAnswers
    /\ c.desired = None => k = c.shown /\ c.command = None /\ w.job = None
    /\ c.command # None => Of(c, c.command)
    /\ w.job # None => Of(c, w.job) /\ (w.at = "answer" => k = w.job.value)
    /\ c.event \in SaveAnswers =>
          c.event.saved <= c.revision /\ (c.event.saved = c.revision => k = c.shown)

Sane(c, w, k) ==
    /\ OneMessage(c, w)
    /\ c.ready => Saving(c, w, k)
    /\ ~c.ready => Loading(c, w, k)

SettingsInv == WaitingIsVisible /\ \A i \in Instances : Up(i) => Sane(ctl[i], wrk[i], confirmed[i])

LEMMA PolledSane ==
    ASSUME NEW c \in Controllers, NEW i, NEW w \in Workers, NEW k,
           w = wrk[i], Sane(c, w, k)
    PROVE  Sane(Polled(c, i), w, k)
<1> DEFINE d == [c EXCEPT !.event = None, !.busy = FALSE]
<1>1. c.event # None => c.command = None /\ w.at = "recv" /\ w.job = None
  BY DEF Sane, OneMessage
<1>2. None \notin LoadAnswers /\ None \notin SaveAnswers
  BY AnswersApart
<1>3. PICK p \in Controllers : p = Polled(c, i)
  BY PolledType
<1>4. CASE c.event \in LoadAnswers
  <2>1. c.event # None /\ c.event \notin SaveAnswers /\ c.event \notin FailAnswers
    BY <1>4, AnswersApart
  <2>2. p = [d EXCEPT !.ready = TRUE, !.error = FALSE, !.shown = c.event.loaded]
    BY <1>3, <1>4, <2>1 DEF Polled
  <2>3. ~c.ready /\ k = c.event.loaded /\ c.desired = None
    BY <1>4 DEF Sane, Saving, Loading
  <2>4. /\ p.ready /\ ~p.busy /\ p.event = None /\ p.shown = k /\ p.desired = None
        /\ p.command = None
    BY <1>1, <2>1, <2>2, <2>3 DEF Controllers
  <2> QED  BY <1>1, <1>2, <1>3, <2>1, <2>4 DEF Sane, OneMessage, Saving
<1>5. CASE c.event \in SaveAnswers
  <2>1. c.event # None /\ c.event \notin LoadAnswers /\ c.event \notin FailAnswers
    BY <1>5, AnswersApart
  <2>2. p = [d EXCEPT !.desired = IF c.event.saved = c.revision THEN None ELSE @, !.error = FALSE]
    BY <1>3, <1>5, <2>1 DEF Polled
  <2>3. c.ready /\ (c.event.saved = c.revision => k = c.shown)
    BY <1>5 DEF Sane, Saving, Loading
  <2>4. /\ p.ready /\ ~p.busy /\ p.event = None /\ p.shown = c.shown /\ p.revision = c.revision
        /\ p.desired = IF c.event.saved = c.revision THEN None ELSE c.desired
        /\ p.command = None
    BY <1>1, <2>1, <2>2, <2>3 DEF Controllers
  <2> QED  BY <1>1, <1>2, <1>3, <2>1, <2>3, <2>4 DEF Sane, OneMessage, Saving
<1>6. ASSUME p = [d EXCEPT !.error = TRUE], c.event # None \/ w.at = "dead"
      PROVE  Sane(p, w, k)
  <2>1. /\ p.ready = c.ready /\ ~p.busy /\ p.event = None /\ p.shown = c.shown
        /\ p.revision = c.revision /\ p.desired = c.desired /\ p.command = c.command
       
    BY <1>6 DEF Controllers
  <2>2. c.command = None /\ w.at \in {"recv", "dead"} /\ w.job = None
    BY <1>6 DEF Sane, OneMessage
  <2> QED  BY <1>2, <2>1, <2>2 DEF Sane, OneMessage, Saving, Loading
<1>7. CASE c.event \in FailAnswers
  <2>1. c.event # None /\ c.event \notin LoadAnswers /\ c.event \notin SaveAnswers
    BY <1>7, AnswersApart
  <2>2. p = [d EXCEPT !.error = TRUE]
    BY <1>3, <1>7, <2>1 DEF Polled
  <2> QED  BY <1>3, <1>6, <2>1, <2>2
<1>8. CASE c.event = None
  <2>1. c.event \notin FailAnswers
    BY <1>8, AnswersApart
  <2>2. CASE Listening(i)
    <3>1. p = c
      BY <1>2, <1>3, <1>8, <2>1, <2>2 DEF Polled
    <3> QED  BY <1>3, <3>1
  <2>3. CASE ~Listening(i)
    <3>1. p = [d EXCEPT !.error = TRUE]
      BY <1>2, <1>3, <1>8, <2>1, <2>3 DEF Polled
    <3> QED  BY <1>3, <1>6, <2>3, <3>1 DEF Listening
  <2> QED  BY <2>2, <2>3
<1> QED  BY <1>4, <1>5, <1>7, <1>8 DEF Controllers, Events

LEMMA UpdatedSane ==
    ASSUME NEW c \in Controllers, NEW s \in Settings, NEW w \in Workers, NEW k, Sane(c, w, k)
    PROVE  Sane(Updated(c, s), w, k)
<1>1. CASE ~c.ready
  BY <1>1 DEF Updated
<1>2. CASE c.ready
  <2>1. PICK d \in Controllers : d = Updated(c, s)
    BY UpdatedType
  <2>2. /\ d.ready /\ d.shown = s /\ d.desired = s /\ d.revision = c.revision + 1
        /\ d.busy = c.busy /\ d.command = c.command /\ d.event = c.event
    BY <1>2, <2>1 DEF Updated, Controllers
  <2>3. s # None
    BY PreferencesAssumption
  <2>4. c.revision \in Nat /\ (w.job # None => w.job.save \in Nat)
        /\ (c.command \in Saves => c.command.save \in Nat)
        /\ (c.event \in SaveAnswers => c.event.saved \in Nat)
    BY DEF Controllers, Workers, Saves, SaveAnswers
  <2>5. Saving(c, w, k)
    BY <1>2 DEF Sane
  <2>6. Saving(d, w, k)
    BY <2>2, <2>3, <2>4, <2>5 DEF Saving, Of
  <2> QED  BY <2>1, <2>2, <2>6 DEF Sane, OneMessage
<1> QED  BY <1>1, <1>2

\* What the controller sends while no message is under way.
LEMMA SentSane ==
    ASSUME NEW c \in Controllers, NEW i, NEW w \in Workers, NEW k, w = wrk[i],
           Sane(c, w, k), ~c.busy, NEW message \in Saves \cup {Load},
           c.ready => message \in Saves /\ Of(c, message) /\ c.desired # None,
           ~c.ready => message = Load
    PROVE  Sane(Sent(c, i, message), w, k)
<1>1. PICK d \in Controllers : d = Sent(c, i, message)
  BY SentType
<1>2. /\ d.ready = c.ready /\ d.shown = c.shown /\ d.desired = c.desired
      /\ d.revision = c.revision /\ d.event = c.event
      /\ \/ d.busy = c.busy /\ d.command = c.command
         \/ d.busy /\ d.command = message /\ w.at # "dead"
  BY <1>1 DEF Sent, Listening, Controllers
<1>3. c.event = None /\ w.at \in {"recv", "dead"} /\ w.job = None
  BY DEF Sane, OneMessage
<1>4. OneMessage(d, w)
  BY <1>2, <1>3 DEF Sane, OneMessage
<1>5. d.ready => Saving(d, w, k)
  BY <1>2, <1>3 DEF Sane, Saving, Of
<1>6. ~d.ready => Loading(d, w, k)
  BY <1>2, <1>3 DEF Sane, Loading
<1> QED  BY <1>1, <1>2, <1>4, <1>5, <1>6 DEF Sane

LEMMA DispatchedSane ==
    ASSUME NEW c \in Controllers, NEW i, NEW w \in Workers, NEW k, NEW force \in BOOLEAN,
           w = wrk[i], Sane(c, w, k)
    PROVE  Sane(Dispatched(c, i, force), w, k)
<1>1. CASE ~c.busy /\ c.ready /\ c.desired # None
  <2>1. PICK m \in Saves : m = Save(c.revision, c.desired)
    BY <1>1 DEF Controllers, Save, Saves
  <2>2. m.save = c.revision /\ m.value = c.desired /\ c.revision \in Nat /\ c.desired = c.shown
    BY <1>1, <2>1 DEF Save, Saves, Controllers, Sane, Saving
  <2>3. Sane(Sent(c, i, m), w, k)
    BY <1>1, <2>2, SentSane DEF Of
  <2> QED  BY <2>1, <2>3 DEF Dispatched
<1>2. CASE c.busy \/ ~c.ready \/ c.desired = None
  BY <1>2 DEF Dispatched
<1> QED  BY <1>1, <1>2

\* The flags that no message depends on.
LEMMA FlagsSane ==
    ASSUME NEW c \in Controllers, NEW d \in Controllers, NEW w, NEW k, Sane(c, w, k),
           /\ d.ready = c.ready /\ d.busy = c.busy /\ d.shown = c.shown /\ d.desired = c.desired
           /\ d.revision = c.revision /\ d.command = c.command /\ d.event = c.event
    PROVE  Sane(d, w, k)
BY DEF Sane, OneMessage, Saving, Loading, Of

LEMMA RetriedSane ==
    ASSUME NEW c \in Controllers, NEW i, NEW w \in Workers, NEW k, w = wrk[i], Sane(c, w, k)
    PROVE  Sane(Retried(c, i), w, k)
<1>1. PICK d \in Controllers : d = [c EXCEPT !.error = FALSE]
  BY DEF Controllers
<1>2. Sane(d, w, k)
  BY <1>1, FlagsSane DEF Sane, Controllers
<1>3. Sane(Dispatched(d, i, TRUE), w, k)
  BY <1>2, DispatchedSane
<1>4. ~c.busy /\ ~c.ready => Sane(Sent(c, i, Load), w, k)
  BY SentSane
<1> QED  BY <1>1, <1>3, <1>4 DEF Retried

LEMMA FinishedSane ==
    ASSUME NEW c \in Controllers, NEW w, NEW k, Sane(c, w, k)
    PROVE  Sane(Finished(c), w, k)
<1>1. PICK d \in Controllers : d = Finished(c)
  BY FinishedType
<1>2. /\ d.ready = c.ready /\ d.busy = c.busy /\ d.shown = c.shown /\ d.desired = c.desired
      /\ d.revision = c.revision /\ d.command = c.command /\ d.event = c.event
  BY <1>1 DEF Finished, Controllers
<1> QED  BY <1>1, <1>2, FlagsSane DEF Sane

\* The calls of the controller that leave the window to the callers.
LEMMA WindowKept ==
    ASSUME NEW c \in Controllers, NEW i
    PROVE  /\ Polled(c, i).closing = c.closing /\ Polled(c, i).hidden = c.hidden
           /\ \A s \in Settings : /\ Updated(c, s).closing = c.closing
                                  /\ Updated(c, s).hidden = c.hidden
                                  /\ Updated(c, s).close = c.close
           /\ \A force \in BOOLEAN : /\ Dispatched(c, i, force).closing = c.closing
                                     /\ Dispatched(c, i, force).hidden = c.hidden
                                     /\ Dispatched(c, i, force).close = c.close
           /\ Retried(c, i).closing = c.closing /\ Retried(c, i).hidden = c.hidden
<1>1. \A b \in Controllers : \A m : /\ Sent(b, i, m).closing = b.closing
                                       /\ Sent(b, i, m).hidden = b.hidden
                                       /\ Sent(b, i, m).close = b.close
  BY DEF Sent, Controllers
<1>2. Polled(c, i).closing = c.closing /\ Polled(c, i).hidden = c.hidden
  BY DEF Polled, Controllers
<1>3. \A s \in Settings : /\ Updated(c, s).closing = c.closing
                          /\ Updated(c, s).hidden = c.hidden
                          /\ Updated(c, s).close = c.close
  BY DEF Updated, Controllers
<1>4. \A b \in Controllers, force \in BOOLEAN : /\ Dispatched(b, i, force).closing = b.closing
                                                /\ Dispatched(b, i, force).hidden = b.hidden
                                                /\ Dispatched(b, i, force).close = b.close
  BY <1>1 DEF Dispatched
<1>5. Retried(c, i).closing = c.closing /\ Retried(c, i).hidden = c.hidden
  <2>1. PICK d \in Controllers : d = [c EXCEPT !.error = FALSE]
    BY DEF Controllers
  <2>2. d.closing = c.closing /\ d.hidden = c.hidden
    BY <2>1 DEF Controllers
  <2> QED  BY <1>1, <1>4, <2>1, <2>2 DEF Retried
<1> QED  BY <1>2, <1>3, <1>4, <1>5

LEMMA FinishedWindow ==
    ASSUME NEW c \in Controllers
    PROVE  /\ Finished(c).hidden = c.hidden
           /\ Finished(c).closing => c.closing /\ Finished(c).close = c.close
BY DEF Finished, Controllers

LEMMA ShownType == ASSUME NEW c \in Controllers PROVE [c EXCEPT !.hidden = FALSE] \in Controllers
BY DEF Controllers

Visible(c) == c.closing => ~c.hidden

LEMMA LogicSane ==
    ASSUME NEW c \in Controllers, NEW i, NEW s \in Settings \cup {None}, NEW w \in Workers, NEW k,
           w = wrk[i], Sane(c, w, k), Visible(c)
    PROVE  Sane(Logic(c, i, s), w, k) /\ Visible(Logic(c, i, s))
<1> DEFINE d == IF s # None /\ ~c.closing /\ ~c.error THEN Updated(c, s) ELSE c
<1>1. d \in Controllers /\ Sane(d, w, k) /\ d.closing = c.closing /\ d.hidden = c.hidden
  BY UpdatedType, UpdatedSane, WindowKept
<1>2. c.closing \in BOOLEAN
  BY DEF Controllers
<1> HIDE DEF d
<1>3. PICK e \in Controllers : e = Dispatched(d, i, c.closing)
  BY <1>1, <1>2, DispatchedType
<1>4. Sane(e, w, k) /\ e.closing = c.closing /\ e.hidden = c.hidden
  <2>1. Sane(e, w, k)
    BY <1>1, <1>2, <1>3, DispatchedSane
  <2>2. e.closing = d.closing /\ e.hidden = d.hidden
    BY <1>1, <1>2, <1>3, WindowKept
  <2> QED  BY <1>1, <2>1, <2>2
<1>5. Logic(c, i, s) = Finished(e)
  BY <1>3 DEF Logic, d
<1> QED  BY <1>4, <1>5, FinishedSane, FinishedWindow DEF Visible

LEMMA QuitSane ==
    ASSUME NEW c \in Controllers, NEW i, NEW s \in Settings, NEW w \in Workers, NEW k,
           w = wrk[i], Sane(c, w, k), Visible(c)
    PROVE  Sane(QuitRequested(c, i, s), w, k) /\ Visible(QuitRequested(c, i, s))
<1>1. CASE Authorized(c)
  BY <1>1 DEF QuitRequested
<1>2. CASE ~Authorized(c)
  <2>1. PICK b \in Controllers : b = [c EXCEPT !.closing = TRUE]
    BY DEF Controllers
  <2>2. Sane(b, w, k) /\ b.close = c.close
    BY <2>1, FlagsSane DEF Controllers
  <2>3. PICK d \in Controllers : d = IF c.closing THEN c ELSE Updated(b, s)
    BY UpdatedType
  <2>4. Sane(d, w, k) /\ d.close = c.close
    BY <2>2, <2>3, UpdatedSane, WindowKept
  <2>5. PICK e \in Controllers : e = Dispatched(d, i, TRUE)
    BY DispatchedType
  <2>6. Sane(e, w, k) /\ e.close = c.close
    BY <2>4, <2>5, DispatchedSane, WindowKept
  <2>7. PICK f \in Controllers : f = Finished(e)
    BY FinishedType
  <2>8. Sane(f, w, k) /\ (f.closing => f.close = c.close)
    BY <2>6, <2>7, FinishedSane, FinishedWindow
  <2>9. PICK g \in Controllers : g = [f EXCEPT !.hidden = FALSE]
    BY <2>7, ShownType
  <2>10. Sane(g, w, k) /\ Visible(g)
    BY <2>8, <2>9, FlagsSane DEF Controllers, Visible
  <2>11. QuitRequested(c, i, s) = IF Authorized(f) THEN f ELSE g
    BY <1>2, <2>1, <2>3, <2>5, <2>7, <2>9 DEF QuitRequested
  <2>12. Authorized(f) => ~f.closing
    BY <1>2, <2>8 DEF Authorized
  <2> QED  BY <2>8, <2>10, <2>11, <2>12 DEF Visible
<1> QED  BY <1>1, <1>2

LEMMA HideSane ==
    ASSUME NEW c \in Controllers, NEW i, NEW s \in Settings, NEW tray \in BOOLEAN,
           NEW w \in Workers, NEW k, w = wrk[i], Sane(c, w, k), Visible(c)
    PROVE  Sane(HideRequested(c, i, s, tray), w, k) /\ Visible(HideRequested(c, i, s, tray))
<1>1. CASE Authorized(c) \/ c.closing \/ c.hidden \/ ~tray
  BY <1>1 DEF HideRequested
<1>2. CASE ~(Authorized(c) \/ c.closing \/ c.hidden \/ ~tray)
  <2>1. PICK d \in Controllers : d = Updated(c, s)
    BY UpdatedType
  <2>2. PICK e \in Controllers : e = Dispatched(d, i, TRUE)
    BY DispatchedType
  <2>3. Sane(e, w, k) /\ e.closing = c.closing
    <3>1. Sane(d, w, k) /\ d.closing = c.closing
      BY <2>1, UpdatedSane, WindowKept
    <3>2. Sane(e, w, k) /\ e.closing = d.closing
      BY <2>2, <3>1, DispatchedSane, WindowKept
    <3> QED  BY <3>1, <3>2
  <2>4. PICK f \in Controllers : f = [e EXCEPT !.hidden = TRUE]
    BY DEF Controllers
  <2>5. Sane(f, w, k) /\ ~f.closing
    BY <1>2, <2>3, <2>4, FlagsSane DEF Controllers
  <2>6. HideRequested(c, i, s, tray) = f
    BY <1>2, <2>1, <2>2, <2>4 DEF HideRequested
  <2> QED  BY <2>5, <2>6 DEF Visible
<1> QED  BY <1>1, <1>2

-----------------------------------------------------------------------------

\* A step of one instance.
LEMMA OneInstance ==
    ASSUME TypeOK, SettingsInv, NEW i \in Instances,
           \A j \in Instances \ {i} :
              ctl'[j] = ctl[j] /\ wrk'[j] = wrk[j] /\ confirmed'[j] = confirmed[j],
           Visible(ctl'[i]),
           ctl'[i].life = "up" => Sane(ctl'[i], wrk'[i], confirmed'[i])
    PROVE  SettingsInv'
<1>1. ASSUME NEW j \in Instances PROVE Visible(ctl'[j])
  BY DEF SettingsInv, WaitingIsVisible, Visible
<1>2. ASSUME NEW j \in Instances, ctl'[j].life = "up" PROVE Sane(ctl'[j], wrk'[j], confirmed'[j])
  BY <1>2 DEF SettingsInv, Up
<1> QED  BY <1>1, <1>2 DEF SettingsInv, WaitingIsVisible, Visible, Up, Sane, OneMessage, Saving,
            Loading, Of

\* A step of the UI thread.
LEMMA SetSane ==
    ASSUME TypeOK, SettingsInv, NEW i \in Instances, NEW d \in Controllers, Set(i, d),
           UNCHANGED <<wrk, confirmed>>, Visible(d), d.life = "up" => Sane(d, wrk[i], confirmed[i])
    PROVE  SettingsInv'
<1>1. ctl'[i] = d /\ \A j \in Instances \ {i} : ctl'[j] = ctl[j]
  BY DEF Set, TypeOK
<1> QED  BY <1>1, OneInstance

LEMMA UISane == ASSUME TypeOK, SettingsInv, NEW i \in Instances, UI(i) PROVE SettingsInv'
<1>1. PICK c \in Controllers : c = ctl[i]
  BY DEF TypeOK
<1>2. PICK w \in Workers : w = wrk[i]
  BY DEF TypeOK
<1>3. PICK k : k = confirmed[i]
  OBVIOUS
<1>4. UNCHANGED <<wrk, confirmed>> /\ c.life = "up"
  BY <1>1 DEF UI, Frame, Edit, Quit, Retry, KeepOpen, CloseAnyway, Up
<1>5. Sane(c, w, k) /\ Visible(c)
  BY <1>1, <1>2, <1>3, <1>4 DEF SettingsInv, Up, WaitingIsVisible, Visible
<1>6. ASSUME NEW d \in Controllers, Set(i, d), Sane(d, w, k), Visible(d) PROVE SettingsInv'
  BY <1>2, <1>3, <1>4, <1>6, SetSane
<1>7. CASE Frame(i)
  <2>1. PICK p \in Controllers : p = Polled(c, i)
    BY <1>1, PolledType
  <2>2. Sane(p, w, k) /\ Visible(p)
    BY <1>1, <1>2, <1>5, <2>1, PolledSane, WindowKept DEF Visible
  <2>3. \/ \E s \in Captures \cup {None} : Set(i, Logic(p, i, s))
        \/ Set(i, Logic([p EXCEPT !.hidden = FALSE], i, None))
        \/ \E s \in Captures : Set(i, Logic(QuitRequested(p, i, s), i, None))
        \/ \E s \in Captures, tray \in BOOLEAN :
              Set(i, Logic(HideRequested(p, i, s, tray), i, None))
    BY <1>1, <1>7, <2>1 DEF Frame
  <2>4. ASSUME NEW b \in Controllers, Sane(b, w, k), Visible(b), NEW s \in Settings \cup {None},
               Set(i, Logic(b, i, s))
        PROVE  SettingsInv'
    BY <1>2, <1>6, <2>4, LogicType, LogicSane
  <2>5. CASE \E s \in Captures \cup {None} : Set(i, Logic(p, i, s))
    BY <2>1, <2>2, <2>4, <2>5, CapturesAreSettings
  <2>6. CASE Set(i, Logic([p EXCEPT !.hidden = FALSE], i, None))
    <3>1. PICK b \in Controllers : b = [p EXCEPT !.hidden = FALSE]
      BY <2>1, ShownType
    <3>2. Sane(b, w, k) /\ Visible(b)
      BY <2>1, <2>2, <3>1, FlagsSane DEF Controllers, Visible
    <3> QED  BY <2>4, <2>6, <3>1, <3>2
  <2>7. CASE \E s \in Captures : Set(i, Logic(QuitRequested(p, i, s), i, None))
    <3>1. PICK s \in Settings : Set(i, Logic(QuitRequested(p, i, s), i, None))
      BY <2>7, CapturesAreSettings
    <3>2. PICK b \in Controllers : b = QuitRequested(p, i, s)
      BY <2>1, QuitRequestedType
    <3>3. Sane(b, w, k) /\ Visible(b)
      BY <1>2, <2>1, <2>2, <3>2, QuitSane
    <3> QED  BY <2>4, <3>1, <3>2, <3>3
  <2>8. CASE \E s \in Captures, tray \in BOOLEAN :
                Set(i, Logic(HideRequested(p, i, s, tray), i, None))
    <3>1. PICK s \in Settings, tray \in BOOLEAN : Set(i, Logic(HideRequested(p, i, s, tray), i, None))
      BY <2>8, CapturesAreSettings
    <3>2. PICK b \in Controllers : b = HideRequested(p, i, s, tray)
      BY <2>1, HideRequestedType
    <3>3. Sane(b, w, k) /\ Visible(b)
      BY <1>2, <2>1, <2>2, <3>2, HideSane
    <3> QED  BY <2>4, <3>1, <3>2, <3>3
  <2> QED  BY <2>3, <2>5, <2>6, <2>7, <2>8
<1>8. CASE Edit(i)
  <2>1. PICK s \in Settings : Set(i, Dispatched(Updated(c, s), i, c.closing))
    BY <1>1, <1>8, CapturesAreSettings DEF Edit
  <2>2. PICK b \in Controllers : b = Updated(c, s)
    BY UpdatedType
  <2>3. c.closing \in BOOLEAN
    BY DEF Controllers
  <2>4. PICK d \in Controllers : d = Dispatched(b, i, c.closing)
    BY <2>2, <2>3, DispatchedType
  <2>5. Sane(b, w, k) /\ b.closing = c.closing /\ b.hidden = c.hidden
    BY <1>5, <2>2, UpdatedSane, WindowKept
  <2>6. Sane(d, w, k)
    BY <1>2, <2>2, <2>3, <2>4, <2>5, DispatchedSane
  <2>7. Visible(d)
    BY <1>5, <2>2, <2>3, <2>4, <2>5, WindowKept DEF Visible
  <2> QED  BY <1>6, <2>1, <2>2, <2>4, <2>6, <2>7
<1>9. CASE Quit(i)
  <2>1. PICK s \in Settings : Set(i, QuitRequested(c, i, s))
    BY <1>1, <1>9, CapturesAreSettings DEF Quit
  <2> QED  BY <1>2, <1>5, <1>6, <2>1, QuitRequestedType, QuitSane
<1>10. CASE Retry(i)
  <2>1. Visible(Retried(c, i))
    BY <1>5, WindowKept DEF Visible
  <2> QED  BY <1>1, <1>2, <1>5, <1>6, <1>10, <2>1, RetriedType, RetriedSane DEF Retry
<1>11. CASE KeepOpen(i) \/ CloseAnyway(i)
  <2>1. PICK b \in Controllers : b = [c EXCEPT !.closing = FALSE]
    BY DEF Controllers
  <2>2. PICK d \in Controllers : d = [c EXCEPT !.closing = FALSE, !.close = "anyway"]
    BY DEF Controllers
  <2>3. Sane(b, w, k) /\ Visible(b)
    BY <1>5, <2>1, FlagsSane DEF Controllers, Visible
  <2>4. Sane(d, w, k) /\ Visible(d)
    <3>1. /\ d.ready = c.ready /\ d.busy = c.busy /\ d.shown = c.shown /\ d.desired = c.desired
          /\ d.revision = c.revision /\ d.command = c.command /\ d.event = c.event
          /\ d.closing = FALSE
      BY <2>2 DEF Controllers
    <3> QED  BY <1>5, <2>2, <3>1, FlagsSane DEF Visible
  <2> QED  BY <1>1, <1>6, <1>11, <2>1, <2>2, <2>3, <2>4 DEF KeepOpen, CloseAnyway
<1> QED  BY <1>7, <1>8, <1>9, <1>10, <1>11 DEF UI

\* The worker answers an instance that listens.
LEMMA AnswerSane ==
    ASSUME NEW c \in Controllers, NEW w \in Workers, NEW k, Sane(c, w, k),
           w.at \notin {"recv", "dead"}, NEW event \in Events, NEW l,
           ~c.ready => event \notin SaveAnswers /\ (event \in LoadAnswers => l = event.loaded),
           c.ready => /\ event \notin LoadAnswers /\ c.desired # None
                      /\ event \in SaveAnswers =>
                            event.saved <= c.revision /\ (event.saved = c.revision => l = c.shown),
           NEW d, d = [c EXCEPT !.event = event],
           NEW v \in Workers, v.at = "recv", v.job = None
    PROVE  Sane(d, v, l)
<1>1. c.busy /\ c.command = None
  BY DEF Sane, OneMessage
<1>2. /\ d.ready = c.ready /\ d.busy = c.busy /\ d.shown = c.shown /\ d.desired = c.desired
      /\ d.revision = c.revision /\ d.command = c.command /\ d.event = event
  BY DEF Controllers
<1>3. OneMessage(d, v)
  BY <1>1, <1>2 DEF OneMessage
<1>4. d.ready => Saving(d, v, l)
  BY <1>1, <1>2 DEF Sane, Saving
<1>5. ~d.ready => Loading(d, v, l)
  BY <1>1, <1>2 DEF Sane, Loading
<1> QED  BY <1>3, <1>4, <1>5 DEF Sane

\* A step of the worker that sends no answer.
LEMMA OnwardSane ==
    ASSUME NEW c, NEW w \in Workers, NEW k, Sane(c, w, k),
           w.at \notin {"recv", "dead"}, NEW v, NEW l,
           v.job = w.job /\ w.job # None /\ v.at \notin {"recv", "dead", "load"},
           l = IF v.at = "answer" THEN w.job.value ELSE k
    PROVE  Sane(c, v, l)
<1>1. c.event = None /\ c.command = None /\ c.busy /\ c.ready /\ c.desired # None
  BY DEF Sane, OneMessage, Saving, Loading
<1>2. c.event \notin SaveAnswers /\ c.event \notin LoadAnswers
  BY <1>1, AnswersApart
<1>3. OneMessage(c, v)
  BY <1>1 DEF OneMessage
<1> QED  BY <1>1, <1>2, <1>3 DEF Sane, Saving

LEMMA WorkerSane ==
    ASSUME TypeOK, SettingsInv, NEW i \in Instances, Worker(i) \/ Panic(i) PROVE SettingsInv'
<1>1. PICK c \in Controllers : c = ctl[i]
  BY DEF TypeOK
<1>2. PICK w \in Workers : w = wrk[i]
  BY DEF TypeOK
<1>3. PICK k : k = confirmed[i]
  OBVIOUS
<1>4. c.life = "up" => Sane(c, w, k)
  BY <1>1, <1>2, <1>3 DEF SettingsInv, Up
<1>5. Visible(c)
  BY <1>1 DEF SettingsInv, WaitingIsVisible, Visible
<1>6. w.at \in {"check", "lock", "compare", "stage", "replace", "answer"} <=> w.job # None
  BY <1>2 DEF TypeOK
\* What another answer than of a load or of a success is, whatever was asked.
<1>7. ASSUME NEW event \in Events, NEW l, NEW v \in Workers, Answer(i, v, event),
             confirmed' = [confirmed EXCEPT ![i] = l],
             w.at \notin {"recv", "dead"},
             c.life = "up" /\ ~c.ready =>
                event \notin SaveAnswers /\ (event \in LoadAnswers => l = event.loaded),
             c.life = "up" /\ c.ready =>
                /\ event \notin LoadAnswers /\ c.desired # None
                /\ event \in SaveAnswers =>
                      event.saved <= c.revision /\ (event.saved = c.revision => l = c.shown)
      PROVE  SettingsInv'
  <2>1. confirmed'[i] = l /\ \A j \in Instances \ {i} : confirmed'[j] = confirmed[j]
    BY <1>7 DEF TypeOK
  <2>2. CASE Stop(i)
    <3>1. /\ \A j \in Instances \ {i} : wrk'[j] = wrk[j]
          /\ ctl' = ctl /\ c.life # "up"
      BY <1>1, <1>7, <2>2 DEF Answer, Stop, TypeOK
    <3> QED  BY <1>1, <1>5, <2>1, <3>1, OneInstance
  <2>3. CASE ~Stop(i)
    <3>1. PICK d \in Controllers : d = [c EXCEPT !.event = event]
      BY <1>7 DEF Controllers
    <3>2. PICK u \in Workers : u = [v EXCEPT !.at = "recv", !.job = None]
      BY <1>7 DEF Workers
    <3>3. /\ wrk' = [wrk EXCEPT ![i] = u] /\ ctl' = [ctl EXCEPT ![i] = d]
      BY <1>1, <1>7, <2>3, <3>1, <3>2 DEF Answer, TypeOK
    <3>4. wrk'[i] = u /\ ctl'[i] = d
          /\ \A j \in Instances \ {i} : wrk'[j] = wrk[j] /\ ctl'[j] = ctl[j]
      BY <3>3 DEF TypeOK
    <3>5. u.at = "recv" /\ u.job = None /\ d.life = c.life /\ d.closing = c.closing /\ d.hidden = c.hidden
      BY <3>1, <3>2 DEF Workers, Controllers
    <3>6. d.life = "up" => Sane(d, u, l)
      BY <1>4, <1>7, <3>1, <3>2, <3>5, AnswerSane
    <3> QED  BY <1>5, <2>1, <3>4, <3>5, <3>6, OneInstance DEF Visible
  <2> QED  BY <2>2, <2>3
<1>8. confirmed = [confirmed EXCEPT ![i] = k]
  BY <1>3 DEF TypeOK
<1>9. ASSUME Failed(i), UNCHANGED confirmed, w.job # None PROVE SettingsInv'
  <2>1. PICK event \in FailAnswers : event = [saved |-> w.job.save, ok |-> FALSE]
    BY <1>9 DEF FailAnswers, Workers, Saves
  <2>2. Answer(i, w, event)
    BY <1>2, <1>9, <2>1 DEF Failed
  <2>3. event \in Events /\ event \notin LoadAnswers /\ event \notin SaveAnswers
    BY <2>1, AnswersApart DEF Events
  <2>4. c.life = "up" => c.ready /\ c.desired # None
    BY <1>4, <1>9 DEF Sane, Saving, Loading
  <2> QED  BY <1>6, <1>7, <1>8, <1>9, <2>2, <2>3, <2>4
<1>10. ASSUME w.job # None, NEW l, c.life = "up" => (c.revision = w.job.save => l = c.shown),
              Answer(i, w, [saved |-> w.job.save, ok |-> TRUE]),
              confirmed' = [confirmed EXCEPT ![i] = l]
       PROVE  SettingsInv'
  <2>1. PICK event \in SaveAnswers : event = [saved |-> w.job.save, ok |-> TRUE]
    BY <1>10 DEF SaveAnswers, Workers, Saves
  <2>2. event \in Events /\ event \notin LoadAnswers /\ event.saved = w.job.save
    BY <2>1, AnswersApart DEF Events
  <2>3. c.life = "up" => c.ready /\ c.desired # None /\ w.job.save <= c.revision
    BY <1>4, <1>10 DEF Sane, Saving, Loading, Of
  <2> QED  BY <1>6, <1>7, <1>10, <2>1, <2>2, <2>3
<1>11. ASSUME NEW v, wrk' = [wrk EXCEPT ![i] = v], UNCHANGED ctl, NEW l,
              confirmed' = [confirmed EXCEPT ![i] = l], w.job # None,
              v.job = w.job /\ v.at \notin {"recv", "dead", "load"},
              l = IF v.at = "answer" THEN w.job.value ELSE k
       PROVE  SettingsInv'
  <2>1. /\ wrk'[i] = v /\ confirmed'[i] = l /\ ctl'[i] = c
        /\ \A j \in Instances \ {i} :
              ctl'[j] = ctl[j] /\ wrk'[j] = wrk[j] /\ confirmed'[j] = confirmed[j]
    BY <1>1, <1>11 DEF TypeOK
  <2>2. c.life = "up" => Sane(c, v, l)
    BY <1>4, <1>6, <1>11, OnwardSane
  <2> QED  BY <1>5, <2>1, <2>2, OneInstance
<1>12. ASSUME NEW place \in {"lock", "compare", "stage", "replace"}, Goto(i, place),
              UNCHANGED <<ctl, confirmed>>, w.job # None
       PROVE  SettingsInv'
  <2>1. PICK v \in Workers : v = [w EXCEPT !.at = place]
    BY DEF Workers
  <2>2. wrk' = [wrk EXCEPT ![i] = v]
    BY <1>2, <1>12, <2>1 DEF Goto, TypeOK
  <2>3. v.job = w.job /\ v.at = place
    BY <2>1 DEF Workers
  <2> QED  BY <1>8, <1>11, <1>12, <2>2, <2>3
<1>13. CASE LoadFile(i)
  <2>1. w.at = "load" /\ w.job = None
    BY <1>2, <1>6, <1>13 DEF LoadFile, At
  <2>2. c.life = "up" => ~c.ready
    BY <1>4, <2>1 DEF Sane, Saving
  <2>3. CASE Answer(i, w, [loaded |-> None]) /\ UNCHANGED confirmed
    <3>1. PICK event \in FailAnswers : event = [loaded |-> None]
      BY DEF FailAnswers
    <3>2. event \in Events /\ event \notin LoadAnswers /\ event \notin SaveAnswers
      BY <3>1, AnswersApart DEF Events
    <3> QED  BY <1>7, <1>8, <2>1, <2>2, <2>3, <3>1, <3>2
  <2>4. CASE /\ file # Broken
             /\ LET s == IF file # None THEN file ELSE IF Legacy # None THEN Legacy ELSE Default
                IN  /\ Answer(i, [w EXCEPT !.loaded = TRUE, !.expected = file], [loaded |-> s])
                    /\ confirmed' = [confirmed EXCEPT ![i] = s]
    <3>1. PICK s \in Settings :
             s = IF file # None THEN file ELSE IF Legacy # None THEN Legacy ELSE Default
      BY <2>4, PreferencesAssumption DEF TypeOK
    <3>2. PICK v \in Workers : v = [w EXCEPT !.loaded = TRUE, !.expected = file]
      BY <2>4 DEF Workers, TypeOK
    <3>3. PICK event \in LoadAnswers : event = [loaded |-> s]
      BY DEF LoadAnswers
    <3>4. event \in Events /\ event \notin SaveAnswers /\ event.loaded = s
      BY <3>3, AnswersApart DEF Events
    <3>5. Answer(i, v, event) /\ confirmed' = [confirmed EXCEPT ![i] = s]
      BY <2>4, <3>1, <3>2, <3>3
    <3> QED  BY <1>7, <2>1, <2>2, <3>2, <3>4, <3>5
  <2> QED  BY <1>2, <1>13, <2>3, <2>4 DEF LoadFile
<1>14. CASE Receive(i)
  <2>1. w.at = "recv" /\ w.job = None /\ UNCHANGED confirmed
    BY <1>2, <1>6, <1>14 DEF Receive, At
  <2>2. CASE Stop(i)
    <3>1. /\ \A j \in Instances \ {i} : wrk'[j] = wrk[j]
          /\ ctl' = ctl /\ c.life # "up"
      BY <1>1, <1>14, <2>2 DEF Receive, Stop, Goto, TypeOK
    <3> QED  BY <1>1, <1>5, <2>1, <3>1, OneInstance
  <2>3. CASE ~Stop(i)
    <3>1. PICK m \in Saves \cup {Load} : m = c.command
      BY <1>1, <1>14, <2>3 DEF Receive, Controllers
    <3>2. PICK u \in Workers : u = [w EXCEPT !.at = IF m = Load THEN "load" ELSE "check",
                                            !.job = IF m = Load THEN None ELSE m]
      BY DEF Workers
    <3>3. PICK d \in Controllers : d = [c EXCEPT !.command = None]
      BY DEF Controllers
    <3>4. wrk' = [wrk EXCEPT ![i] = u] /\ ctl' = [ctl EXCEPT ![i] = d] /\ c.command # None
      BY <1>1, <1>2, <1>14, <2>3, <3>1, <3>2, <3>3 DEF Receive, TypeOK
    <3>5. /\ wrk'[i] = u /\ ctl'[i] = d /\ confirmed'[i] = k
          /\ \A j \in Instances \ {i} :
                ctl'[j] = ctl[j] /\ wrk'[j] = wrk[j] /\ confirmed'[j] = confirmed[j]
      BY <1>3, <2>1, <3>4 DEF TypeOK
    <3>6. /\ d.life = c.life /\ d.closing = c.closing /\ d.hidden = c.hidden
          /\ d.ready = c.ready /\ d.busy = c.busy /\ d.shown = c.shown /\ d.desired = c.desired
          /\ d.revision = c.revision /\ d.command = None /\ d.event = c.event
      BY <3>3 DEF Controllers
    <3>7. /\ u.at = IF m = Load THEN "load" ELSE "check"
          /\ u.job = IF m = Load THEN None ELSE m
      BY <3>2 DEF Workers
    <3>8. ASSUME c.life = "up" PROVE Sane(d, u, k)
      <4>1. Sane(c, w, k)
        BY <1>4, <3>8
      <4>2. c.busy /\ c.event = None
        BY <3>4, <4>1 DEF Sane, OneMessage
      <4>3. c.event \notin SaveAnswers /\ c.event \notin LoadAnswers
        BY <4>2, AnswersApart
      <4>4. OneMessage(d, u)
        BY <3>6, <3>7, <4>2 DEF OneMessage
      <4>5. CASE c.ready
        <5>1. m \in Saves /\ m # Load /\ c.desired # None /\ Of(c, m)
          BY <3>1, <3>4, <4>1, <4>5, LoadIsNoSave DEF Sane, Saving
        <5>2. Saving(d, u, k)
          BY <3>6, <3>7, <4>1, <4>3, <4>5, <5>1 DEF Sane, Saving, Of
        <5> QED  BY <3>6, <4>4, <4>5, <5>2 DEF Sane
      <4>6. CASE ~c.ready
        <5>1. m = Load
          BY <3>1, <3>4, <4>1, <4>6 DEF Sane, Loading
        <5>2. Loading(d, u, k)
          BY <3>6, <3>7, <4>1, <4>3, <4>6, <5>1 DEF Sane, Loading
        <5> QED  BY <3>6, <4>4, <4>6, <5>2 DEF Sane
      <4> QED  BY <4>5, <4>6
    <3> QED  BY <1>5, <3>5, <3>6, <3>8, OneInstance DEF Visible
  <2> QED  BY <2>2, <2>3
<1>15. CASE Check(i)
  <2>1. w.job # None
    BY <1>2, <1>6, <1>15 DEF Check, At
  <2>2. CASE Failed(i) /\ UNCHANGED confirmed
    BY <1>9, <2>1, <2>2
  <2>3. CASE /\ Answer(i, w, [saved |-> w.job.save, ok |-> TRUE])
             /\ confirmed' = [confirmed EXCEPT ![i] = w.job.value]
    <3>1. c.life = "up" => (c.revision = w.job.save => w.job.value = c.shown)
      BY <1>4, <2>1 DEF Sane, Saving, Loading, Of
    <3> QED  BY <1>10, <2>1, <2>3, <3>1
  <2>4. CASE Goto(i, "lock") /\ UNCHANGED <<ctl, lock, confirmed>>
    BY <1>12, <2>1, <2>4
  <2> QED  BY <1>2, <1>15, <2>2, <2>3, <2>4 DEF Check
<1>16. CASE TryLock(i) \/ Compare(i) \/ Stage(i)
  <2>1. w.job # None /\ UNCHANGED confirmed
    BY <1>2, <1>6, <1>16 DEF TryLock, Compare, Stage, At
  <2>2. CASE Failed(i)
    BY <1>9, <2>1, <2>2
  <2>3. ~Failed(i) => /\ UNCHANGED ctl
                      /\ Goto(i, "compare") \/ Goto(i, "stage") \/ Goto(i, "replace")
    BY <1>16 DEF TryLock, Compare, Stage
  <2> QED  BY <1>12, <2>1, <2>2, <2>3
<1>17. CASE Replace(i)
  <2>1. w.job # None
    BY <1>2, <1>6, <1>17 DEF Replace, At
  <2>2. CASE Failed(i) /\ UNCHANGED confirmed
    BY <1>9, <2>1, <2>2
  <2>3. CASE ~(Failed(i) /\ UNCHANGED confirmed)
    <3>1. PICK l : l = w.job.value
      OBVIOUS
    <3>2. PICK v \in Workers : v = [w EXCEPT !.at = "answer", !.expected = l]
      BY <2>1, <3>1 DEF Workers, Saves
    <3>3. wrk' = [wrk EXCEPT ![i] = v] /\ UNCHANGED ctl /\ confirmed' = [confirmed EXCEPT ![i] = l]
      BY <1>2, <1>17, <2>3, <3>1, <3>2 DEF Replace, TypeOK
    <3>4. v.job = w.job /\ v.at = "answer"
      BY <3>2 DEF Workers
    <3> QED  BY <1>11, <2>1, <3>1, <3>3, <3>4
  <2> QED  BY <2>2, <2>3
<1>18. CASE Acknowledge(i)
  <2>1. w.job # None /\ w.at = "answer"
    BY <1>2, <1>6, <1>18 DEF Acknowledge, At
  <2>2. c.life = "up" => (c.revision = w.job.save => k = c.shown)
    BY <1>4, <2>1 DEF Sane, Saving, Loading, Of
  <2>3. Answer(i, w, [saved |-> w.job.save, ok |-> TRUE]) /\ UNCHANGED confirmed
    BY <1>2, <1>18 DEF Acknowledge
  <2> QED  BY <1>8, <1>10, <2>1, <2>2, <2>3
<1>19. CASE Panic(i)
  <2>1. PICK v \in Workers : v = [w EXCEPT !.at = "dead", !.job = None]
    BY DEF Workers
  <2>2. /\ wrk' = [wrk EXCEPT ![i] = v] /\ UNCHANGED <<ctl, confirmed>>
        /\ w.at \notin {"dead", "recv"}
    BY <1>2, <1>19, <2>1 DEF Panic, TypeOK
  <2>3. /\ wrk'[i] = v /\ ctl'[i] = c /\ confirmed'[i] = k /\ v.at = "dead" /\ v.job = None
        /\ \A j \in Instances \ {i} :
              ctl'[j] = ctl[j] /\ wrk'[j] = wrk[j] /\ confirmed'[j] = confirmed[j]
    BY <1>1, <1>3, <2>1, <2>2 DEF TypeOK, Workers
  <2>4. ASSUME c.life = "up" PROVE Sane(c, v, k)
    <3>1. Sane(c, w, k)
      BY <1>4, <2>4
    <3>2. c.busy /\ c.command = None /\ c.event = None
      BY <2>2, <3>1 DEF Sane, OneMessage
    <3>3. c.ready => c.desired # None
      <4>1. c.ready => w.at # "load"
        BY <3>1 DEF Sane, Saving
      <4>2. c.ready => w.job # None
        BY <1>6, <2>2, <4>1 DEF Workers
      <4> QED  BY <3>1, <4>2 DEF Sane, Saving
    <3>4. c.event \notin SaveAnswers /\ c.event \notin LoadAnswers
      BY <3>2, AnswersApart
    <3> QED  BY <2>3, <3>1, <3>2, <3>3, <3>4 DEF Sane, OneMessage, Saving, Loading
  <2> QED  BY <1>5, <2>3, <2>4, OneInstance
<1> QED  BY <1>13, <1>14, <1>15, <1>16, <1>17, <1>18, <1>19 DEF Worker

LEMMA ProcessSane == ASSUME TypeOK, SettingsInv, NEW i \in Instances, Process(i) PROVE SettingsInv'
<1>1. PICK c \in Controllers : c = ctl[i]
  BY DEF TypeOK
<1>2. Visible(c)
  BY <1>1 DEF SettingsInv, WaitingIsVisible, Visible
<1>3. CASE Start(i)
  <2>1. PICK active \in BOOLEAN :
          /\ ctl' = [ctl EXCEPT ![i] =
                        [OffCtl EXCEPT !.life = "up", !.busy = active, !.error = ~active]]
          /\ wrk' = [wrk EXCEPT ![i] = [OffWrk EXCEPT !.at = IF active THEN "load" ELSE "dead"]]
    BY <1>3 DEF Start
  <2>2. PICK d : d = [OffCtl EXCEPT !.life = "up", !.busy = active, !.error = ~active]
    OBVIOUS
  <2>3. /\ d.busy = active /\ ~d.ready /\ d.desired = None /\ d.command = None /\ d.event = None
        /\ d.closing = FALSE
    BY <2>2 DEF OffCtl
  <2>4. PICK v : v = [OffWrk EXCEPT !.at = IF active THEN "load" ELSE "dead"]
    OBVIOUS
  <2>5. v.job = None /\ v.at = IF active THEN "load" ELSE "dead"
    BY <2>4 DEF OffWrk
  <2>6. Sane(d, v, confirmed[i]) /\ Visible(d)
    <3>1. None \notin SaveAnswers /\ None \notin LoadAnswers
      BY AnswersApart
    <3> QED  BY <2>3, <2>5, <3>1 DEF Sane, OneMessage, Loading, Visible
  <2>7. /\ ctl'[i] = d /\ wrk'[i] = v /\ confirmed' = confirmed
        /\ \A j \in Instances \ {i} : ctl'[j] = ctl[j] /\ wrk'[j] = wrk[j]
    BY <1>3, <2>1, <2>2, <2>4 DEF Start, TypeOK
  <2> QED  BY <2>6, <2>7, OneInstance
<1>4. CASE DebouncePasses(i)
  <2>1. PICK d \in Controllers : d = [c EXCEPT !.recent = FALSE]
    BY DEF Controllers
  <2>2. /\ d.ready = c.ready /\ d.busy = c.busy /\ d.shown = c.shown /\ d.desired = c.desired
        /\ d.revision = c.revision /\ d.command = c.command /\ d.event = c.event
        /\ d.closing = c.closing /\ d.hidden = c.hidden /\ d.life = c.life
    BY <2>1 DEF Controllers
  <2>3. c.life = "up" => Sane(c, wrk[i], confirmed[i])
    BY <1>1 DEF SettingsInv, Up
  <2>4. d.life = "up" => Sane(d, wrk[i], confirmed[i])
    BY <2>2, <2>3, FlagsSane
  <2>5. Set(i, d) /\ UNCHANGED <<wrk, confirmed>>
    BY <1>1, <1>4, <2>1 DEF DebouncePasses
  <2> QED  BY <1>2, <2>2, <2>4, <2>5, SetSane DEF Visible
<1>5. CASE Drop(i)
  <2>1. PICK d \in Controllers : d = [c EXCEPT !.life = "dropped"]
    BY DEF Controllers
  <2>2. d.closing = c.closing /\ d.hidden = c.hidden /\ d.life # "up"
    BY <2>1 DEF Controllers
  <2>3. Set(i, d) /\ UNCHANGED <<wrk, confirmed>>
    BY <1>1, <1>5, <2>1 DEF Drop
  <2> QED  BY <1>2, <2>2, <2>3, SetSane DEF Visible
<1>6. CASE End(i)
  <2>1. /\ ctl'[i] = OffCtl
        /\ \A j \in Instances \ {i} :
              ctl'[j] = ctl[j] /\ wrk'[j] = wrk[j] /\ confirmed'[j] = confirmed[j]
    BY <1>6 DEF End, TypeOK
  <2>2. OffCtl.life # "up" /\ OffCtl.closing = FALSE
    BY DEF OffCtl
  <2> QED  BY <2>1, <2>2, OneInstance DEF Visible
<1> QED  BY <1>3, <1>4, <1>5, <1>6 DEF Process

\* "Settings saved" is true of what the window shows, for any number of instances, edits
\* and crashes, and a quit that waits is never behind a hidden window.
THEOREM SettingsAreSaid == Spec => []SettingsAreAsShown
<1>1. Init => SettingsInv
  BY DEF Init, SettingsInv, WaitingIsVisible, OffCtl, Up
<1>2. TypeOK /\ SettingsInv /\ [Next]_vars => SettingsInv'
  <2> SUFFICES ASSUME TypeOK, SettingsInv, [Next]_vars PROVE SettingsInv'
    OBVIOUS
  <2>1. CASE UNCHANGED vars
    BY <2>1 DEF vars, SettingsInv, WaitingIsVisible, Up, Sane, OneMessage, Saving, Loading, Of
  <2>2. CASE Next
    BY <2>2, UISane, WorkerSane, ProcessSane DEF Next
  <2> QED  BY <2>1, <2>2
<1>3. TypeOK /\ SettingsInv => SettingsAreAsShown
  <2> SUFFICES ASSUME TypeOK, SettingsInv PROVE SavedMeansSaved
    BY DEF SettingsAreAsShown, SettingsInv
  <2> SUFFICES ASSUME NEW i \in Instances, Up(i), ctl[i].ready, ctl[i].desired = None
               PROVE  confirmed[i] = ctl[i].shown
    BY DEF SavedMeansSaved
  <2> QED  BY DEF SettingsInv, Sane, Saving
<1> QED  BY <1>1, <1>2, <1>3, TypeCorrect, PTL DEF Spec
=============================================================================

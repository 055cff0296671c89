----------------------------- MODULE GraphHistory -----------------------------
(***************************************************************************)
(* The chart history every graph reads (app/graphs/history.rs) and the     *)
(* cards of the Graphs wall made of it (app/graphs/wall.rs): timestamped   *)
(* points of a device's sensors, taken from each new snapshot, kept for a  *)
(* window and painted at the frames and deadlines in between. A value is   *)
(* its time and its size.                                                  *)
(***************************************************************************)
EXTENDS Integers, Sequences, FiniteSets, FiniteSetsExt, SequencesExt

CONSTANTS Sensors,      \* the series of one device, in snapshot order: 1..n
          ChartLimit,   \* history's MAX_SERIES
          CardLimit,    \* wall's MAX_SERIES
          MaxPoints,    \* MAX_POINTS
          Window,       \* WINDOW
          Silence,      \* how long an unreported chart keeps its state, 3 s
          LastMoment,   \* bound: the clock stops
          Heights       \* bound: the values a sensor may have

ASSUME GraphAssumption ==
  Sensors \subseteq Nat /\ {MaxPoints, Window, Silence, LastMoment} \subseteq Nat

VARIABLES
  moment,
  history,    \* Sensors -> Chart or NoChart
  omitted,    \* the sensors that found no room
  reported    \* history: the sensors measured by the last snapshot that named them

graphVars == <<moment, history, omitted, reported>>

Unmeasured == -1
NoChart == [state |-> "none"]
Charted == {i \in Sensors : history[i] # NoChart}

(* A cadence is one tick. *)
Cadence3 == 3

Earliest(S) == IF S = {} THEN Unmeasured ELSE Min(S)
-----------------------------------------------------------------------------
(* Chart: state and next_state_change; a tick stands for the millisecond.  *)

ChartState(c, now) ==
  IF now > c.lastSeen + Silence THEN "Cached / not reporting"
  ELSE IF c.state = "Live" /\ c.measuredAt # Unmeasured /\ now > c.measuredAt + Cadence3
       THEN "Cached"
  ELSE c.state

StateChange(c, now) ==
  LET silentAt == c.lastSeen + Silence + 1
      cachedAt == c.measuredAt + Cadence3 + 1
  IN IF silentAt <= now THEN Unmeasured
     ELSE Earliest({silentAt} \cup
            (IF c.state = "Live" /\ c.measuredAt # Unmeasured /\ cachedAt > now
             THEN {cachedAt} ELSE {}))

InWindow(p, now) == p.at <= now /\ now - p.at <= Window

-----------------------------------------------------------------------------
(* History::field for one sensor: f holds its value, time and state.       *)

Graphable(f) == f.state \in {"Live", "Partial"}

FreshChart(f) ==
  [points |-> <<>>, current |-> Unmeasured, state |-> f.state, measuredAt |-> Unmeasured,
   lastSeen |-> moment]

(* A sample without a value leaves the state it names.                     *)
LabelTrusting(c, f) == f.state

(* measured, or an older value that stays on screen as cached.             *)
Label(c, f) == IF f.value = Unmeasured /\ c.current # Unmeasured THEN "Cached" ELSE f.state

(* Points leave at the front: over the cap, or out of the window.          *)
FrontDropped(points) ==
  LET first == Min({k \in 1..(Len(points) + 1) :
                      /\ Len(points) - k + 1 <= MaxPoints
                      /\ k <= Len(points) => moment - points[k].at <= Window})
  IN SubSeq(points, first, Len(points))

Charting(c, f) ==
  LET at    == IF f.at <= moment THEN f.at ELSE Unmeasured
      later == at # Unmeasured /\ (c.points = <<>> \/ at > Last(c.points).at)
      point == [at |-> at, value |-> IF Graphable(f) THEN f.value ELSE Unmeasured]
  IN [points |-> FrontDropped(IF later THEN Append(c.points, point) ELSE c.points),
      current |-> IF f.value # Unmeasured THEN f.value ELSE c.current,
      state |-> Label(c, f),
      measuredAt |-> IF Graphable(f) /\ f.value # Unmeasured THEN at ELSE c.measuredAt,
      lastSeen |-> moment]

(* sample: charts unseen for a window go, then every sensor of the         *)
(* snapshot has its field in order, until the series are used up.          *)
Retained == {i \in Charted : moment - history[i].lastSeen <= Window}

SampleFields(fields) ==
  LET asked == DOMAIN fields
      new   == asked \ Retained
      room  == ChartLimit - Cardinality(Retained)
      taken == {i \in new : Cardinality({j \in new : j < i}) < room}
      before(i) == IF i \in Retained THEN history[i] ELSE FreshChart(fields[i])
  IN /\ history' = [i \in Sensors |->
            IF i \in asked /\ (i \in Retained \/ i \in taken) THEN Charting(before(i), fields[i])
            ELSE IF i \in Retained THEN history[i] ELSE NoChart]
     /\ omitted' = Cardinality(new \ taken)
     /\ reported' = (reported \ asked) \cup {i \in asked : fields[i].value # Unmeasured}
     /\ UNCHANGED moment

(* The time of a field is its provider's last attempt, or last success.    *)
Fields ==
  [value : Heights \cup {Unmeasured}, at : {moment, Max({0, moment - 1})},
   state : {"Live", "Cached", "Unavailable"}]

TakeSample ==
  /\ \A i \in Charted : history[i].lastSeen < moment
  /\ \E asked \in SUBSET Sensors \ {{}} : \E fields \in [asked -> Fields] : SampleFields(fields)

PassTime == moment < LastMoment /\ moment' = moment + 1 /\ UNCHANGED <<history, omitted, reported>>

GraphInit ==
  /\ moment = 0 /\ history = [i \in Sensors |-> NoChart] /\ omitted = 0 /\ reported = {}

GraphNext == TakeSample \/ PassTime
-----------------------------------------------------------------------------
(* wall.rs: the card of the device's sensors.                              *)

MeasuredChart(c, now) == \E k \in 1..Len(c.points) :
                           c.points[k].value # Unmeasured /\ InWindow(c.points[k], now)

(* compose: what measured nothing in the window folds away, and the card   *)
(* keeps the first series.                                                 *)
Measuring == {i \in Charted : MeasuredChart(history[i], moment)}
CardSeries == {i \in Measuring : Cardinality({j \in Measuring : j < i}) < CardLimit}

(* Card::state: the least healthy series. *)
CardState ==
  IF \A i \in CardSeries : ChartState(history[i], moment) = "Live" THEN "Live"
  ELSE ChartState(history[Min({i \in CardSeries : ChartState(history[i], moment) # "Live"})], moment)
-----------------------------------------------------------------------------
(* Between two snapshots nothing else repaints a chart, so the deadline it *)
(* gives is never too late: until then its state is what is on screen.     *)
StateHoldsUntilDeadline ==
  \A i \in Charted :
    LET c   == history[i]
        due == StateChange(c, moment)
    IN \A t \in moment..(LastMoment + Silence + Cadence3) :
         (due = Unmeasured \/ t < due) => ChartState(c, t) = ChartState(c, moment)

(* A chart shown as live, and every series of a card shown as live, was    *)
(* measured within three cadences, by the last snapshot that named it: a   *)
(* value kept from an earlier one is cached (history.rs:134-162, 318-334,  *)
(* wall.rs:79-104).                                                        *)
LiveIsMeasured ==
  \A i \in Charted :
    \/ ChartState(history[i], moment) = "Live" /\ history[i].current # Unmeasured
    \/ i \in CardSeries /\ CardState = "Live"
    => /\ moment - history[i].measuredAt <= Cadence3
       /\ i \in reported

(* What a chart shows between two samples, and what it calls live, was     *)
(* measured (app/graphs/history.rs, app/graphs/wall.rs).                   *)
ChartsAreMeasured == StateHoldsUntilDeadline /\ LiveIsMeasured
=============================================================================

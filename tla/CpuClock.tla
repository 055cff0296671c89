------------------------------ MODULE CpuClock ------------------------------
(***************************************************************************)
(* The clock of the processors (cpu_clock.rs): the frequencies of an       *)
(* interval, weighted by how often each performance state was hit, from    *)
(* two readings of counters that only grow.  A failure, a change of the    *)
(* processors, a counter that went back or an interval of the wrong length *)
(* makes the next reading a baseline again.  A frequency is a fraction     *)
(* <<weight, hits>>.                                                       *)
(***************************************************************************)
EXTENDS Readings, FiniteSets, Functions

CONSTANTS Processors,
          Nominals,                    \* nominal clocks of a processor
          Percents,                    \* the performance states of a processor, in percent
          MaxHits,                     \* bound: hits of a bucket
          MinInterval, MaxInterval,    \* 100 ms and 5 s
          ClockRetry,                  \* 30 s after a failure
          ClockSteps, LastClock        \* bounds: moments between two refreshes, and in all

ASSUME ClockAssumption ==
  /\ Nominals \subseteq Nat \ {0} /\ Percents \subseteq Nat \ {0}
  /\ {MaxHits, MinInterval, MaxInterval, ClockRetry, LastClock} \subseteq Nat
  /\ ClockSteps \subseteq Nat \ {0}    \* two refreshes are never at one moment
  /\ IsFiniteSet(Processors) /\ IsFiniteSet(Percents)

VARIABLES refreshedAt, baseline, values, clockHealth, clockRetryAt,
          failedQueries    \* history: the moments of the queries that failed

clockVars == <<refreshedAt, baseline, values, clockHealth, clockRetryAt, failedQueries>>

None == [at |-> Never]

ClockInit == /\ refreshedAt = 1 /\ baseline = None /\ values = None
             /\ clockHealth = NoHealth /\ clockRetryAt = Never /\ failedQueries = {}

Counter == [nominal : Nominals, hits : [Percents -> 0 .. MaxHits]]
Counters == UNION {[present -> Counter] : present \in SUBSET Processors}

-----------------------------------------------------------------------------
(***************************************************************************)
(* calculate: what the hits between two readings say.                      *)
(***************************************************************************)
Comparable(old, new) ==
  /\ DOMAIN old = DOMAIN new /\ DOMAIN new # {}
  /\ \A p \in DOMAIN new : /\ old[p].nominal = new[p].nominal
                           /\ \A s \in Percents : old[p].hits[s] <= new[p].hits[s]

HitsOf(old, new, p) == SumFunction([s \in Percents |-> new[p].hits[s] - old[p].hits[s]])
WeightOf(old, new, p) ==
  SumFunction([s \in Percents |-> (new[p].hits[s] - old[p].hits[s]) * s * new[p].nominal])

AtMost(a, b) == a[1] * b[2] <= b[1] * a[2]

Average(old, new, busy) ==
  <<SumFunction([p \in busy |-> WeightOf(old, new, p)]), SumFunction([p \in busy |-> HitsOf(old, new, p)])>>

Calculated(old, new, from, to) ==
  LET busy  == {p \in DOMAIN new : HitsOf(old, new, p) > 0}
      speed == [p \in busy |-> <<WeightOf(old, new, p), HitsOf(old, new, p)>>]
  IN  [at |-> to, from |-> from,
       average |-> Average(old, new, busy),
       fastest |-> speed[CHOOSE p \in busy : \A q \in busy : AtMost(speed[q], speed[p])],
       slowest |-> speed[CHOOSE p \in busy : \A q \in busy : AtMost(speed[p], speed[q])]]

NoHits(old, new) == \A p \in DOMAIN new : HitsOf(old, new, p) = 0

(***************************************************************************)
(* Sampler::refresh and accept.                                            *)
(***************************************************************************)
IntervalFits(t) == t - baseline.at \in MinInterval .. MaxInterval

ClocksMeasured(t, counters) ==
  /\ baseline # None /\ IntervalFits(t)
  /\ Comparable(baseline.counters, counters) /\ ~NoHits(baseline.counters, counters)
  /\ values' = Calculated(baseline.counters, counters, baseline.at, t)
  /\ clockHealth' = RecordHealth(clockHealth, t, "Live")

OnlyBaseline(t, counters) ==
  /\ \/ baseline = None
     \/ baseline # None /\ ~IntervalFits(t)
     \/ baseline # None /\ ~Comparable(baseline.counters, counters)
     \/ /\ baseline # None /\ Comparable(baseline.counters, counters)
        /\ NoHits(baseline.counters, counters)
  /\ values' = values
  /\ clockHealth' = RecordHealth(clockHealth, t, IF values = None THEN "Starting" ELSE "Stale")

Read(t) ==
  /\ clockRetryAt' = Never
  /\ \E counters \in Counters :
       /\ baseline' = [at |-> t, counters |-> counters]
       /\ ClocksMeasured(t, counters) \/ OnlyBaseline(t, counters)
  /\ UNCHANGED failedQueries

(* Recovery needs two fresh readings.                                      *)
QueryFails(t) ==
  /\ baseline' = None /\ values' = values
  /\ clockRetryAt' = t + ClockRetry
  /\ clockHealth' = RecordHealth(clockHealth, t, "Unavailable")
  /\ failedQueries' = failedQueries \cup {t}

Refresh ==
  \E step \in ClockSteps :
    LET t == refreshedAt + step
    IN  /\ t <= LastClock
        /\ refreshedAt' = t
        /\ IF t < clockRetryAt
           THEN UNCHANGED <<baseline, values, clockHealth, clockRetryAt, failedQueries>>
           ELSE Read(t) \/ QueryFails(t)

ClockSpec == ClockInit /\ [][Refresh]_clockVars

-----------------------------------------------------------------------------
(***************************************************************************)
(* The interval of the shown clocks holds no failed query and has a        *)
(* sensible length, clocks that are called live were measured at the last  *)
(* attempt, and the average lies between the slowest and the fastest       *)
(* processor (cpu_clock.rs 61-190).                                        *)
(***************************************************************************)
ClocksAreOfOneInterval ==
  /\ values # None =>
       /\ values.at - values.from \in MinInterval .. MaxInterval
       /\ failedQueries \cap values.from .. values.at = {}
       /\ AtMost(values.slowest, values.average) /\ AtMost(values.average, values.fastest)
  /\ \A later \in 0 .. MaxInterval :
       StateAt(clockHealth, MaxInterval, refreshedAt + later) = "Live" =>
         values # None /\ values.at = clockHealth.attempt
=============================================================================

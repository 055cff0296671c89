------------------------------ MODULE Readings ------------------------------
(***************************************************************************)
(* What every provider of figures shares: its health (diagnostics.rs) and  *)
(* readings that may be missing (gpu_activity.rs).                         *)
(***************************************************************************)
EXTENDS Naturals

-----------------------------------------------------------------------------
(* Health: when a provider was last tried, when it last succeeded, and what *)
(* its state is at a later time.  The unit of time is the millisecond in    *)
(* which the code places the next change; time Never stands for None.       *)

Never == 0

States  == {"Starting", "Live", "Partial", "Stale", "Unavailable"}
Timed   == {"Starting", "Live", "Partial"}
NoHealth == [attempt |-> Never, success |-> Never, state |-> "Starting"]

(* Health::record.  The coverage and the issue only describe the attempt.  *)
RecordHealth(health, at, state) ==
  [attempt |-> at,
   success |-> IF state \in {"Live", "Partial"} THEN at ELSE health.success,
   state   |-> IF state = "Unavailable" /\ health.success # Never THEN "Stale" ELSE state]

(* Health::state at time t, for a provider whose readings last maxAge.     *)
StateAt(health, maxAge, t) ==
  IF health.state \in Timed /\ health.attempt # Never /\ t > health.attempt + maxAge
  THEN IF health.success # Never THEN "Stale" ELSE "Unavailable"
  ELSE health.state

(* The deadline is the age itself, not the moment after it.                *)
NextChangeAtAge(health, maxAge, t) ==
  LET deadline == health.attempt + maxAge
  IN  IF health.state \in Timed /\ health.attempt # Never /\ deadline > t THEN deadline ELSE Never

(* Health::next_state_change: one deadline per reading, or Never.          *)
NextStateChange(health, maxAge, t) ==
  LET deadline == health.attempt + maxAge + 1
  IN  IF health.state \in Timed /\ health.attempt # Never /\ deadline > t THEN deadline ELSE Never

-----------------------------------------------------------------------------
(* Readings of GPU counters: how two of them add up and which of them is the *)
(* busier, so that a missing reading is never counted as an idle one.        *)
(* Utilization is in percent, rounded.                                       *)

Usage == [kind : {"Measured", "Partial"}, value : Nat]
         \cup [kind : {"Warming", "Unreported", "Unavailable"}, value : {0}]

Measured(v) == [kind |-> "Measured", value |-> v]
Partial(v)  == [kind |-> "Partial", value |-> v]
Missing(k)  == [kind |-> k, value |-> 0]

HasValue(u) == u.kind \in {"Measured", "Partial"}

(* Usage::combine; v is what op makes of the two values.                   *)
Combine(a, b, v) ==
  CASE a.kind = "Measured" /\ b.kind = "Measured" -> Measured(v)
    [] HasValue(a) /\ HasValue(b) /\ ~(a.kind = "Measured" /\ b.kind = "Measured") -> Partial(v)
    [] HasValue(a) /\ ~HasValue(b) -> Partial(a.value)
    [] ~HasValue(a) /\ HasValue(b) -> Partial(b.value)
    [] ~HasValue(a) /\ ~HasValue(b) /\ a.kind = b.kind -> a
    [] OTHER -> Missing("Unavailable")

Larger(a, b) == IF a >= b THEN a ELSE b

SumUsage(a, b)  == Combine(a, b, a.value + b.value)
PeakUsage(a, b) == Combine(a, b, Larger(a.value, b.value))

(* Usage::bounded *)
Bounded(u) == IF HasValue(u) THEN [u EXCEPT !.value = IF @ > 100 THEN 100 ELSE @] ELSE u

(* A reading of a machine whose engines were not all enumerated.           *)
LowerBound(u) == IF HasValue(u) THEN Partial(u.value) ELSE u
=============================================================================

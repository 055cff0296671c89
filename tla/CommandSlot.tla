---------------------------- MODULE CommandSlot ----------------------------
(***************************************************************************)
(* What every single-flight controller of Trontop promises its UI: one     *)
(* request is accepted at a time, each accepted request gets exactly one   *)
(* answer, and the next one is accepted only after the UI has taken it.    *)
(*                                                                         *)
(* ServiceControl (src/src/service_control.rs) and ProcessActions          *)
(* (src/src/process_actions.rs) implement this specification.              *)
(***************************************************************************)
EXTENDS Naturals

VARIABLES phase,      \* "free", "running" or "answered"
          accepted,   \* requests accepted so far
          delivered,  \* answers the UI has taken so far
          closed      \* the controller was dropped

vars == <<phase, accepted, delivered, closed>>

Init == phase = "free" /\ accepted = 0 /\ delivered = 0 /\ closed = FALSE

Accept  == /\ phase = "free" /\ ~closed
           /\ phase' = "running" /\ accepted' = accepted + 1
           /\ UNCHANGED <<delivered, closed>>

Answer  == /\ phase = "running"
           /\ phase' = "answered"
           /\ UNCHANGED <<accepted, delivered, closed>>

Deliver == /\ phase = "answered" /\ ~closed
           /\ phase' = "free" /\ delivered' = delivered + 1
           /\ UNCHANGED <<accepted, closed>>

Close   == /\ ~closed
           /\ closed' = TRUE
           /\ UNCHANGED <<phase, accepted, delivered>>

Next == Accept \/ Answer \/ Deliver \/ Close

Spec == Init /\ [][Next]_vars

\* Answers are owed only while the controller exists.
FairSpec == Spec /\ WF_vars(~closed /\ Answer) /\ WF_vars(Deliver)
=============================================================================

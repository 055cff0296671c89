------------------------------ MODULE MCWorkers ------------------------------
(* Three independent workers with a queue and a mirror of their own in the   *)
(* UI: process actions, drive sensors and the specification monitor.  One    *)
(* component runs in a behaviour, chosen at the start; the others rest.      *)
EXTENDS ProcessActions, DriveSensors, SpecsWorkers

VARIABLE part

Only(p, A) == part = p /\ A /\ UNCHANGED part
              /\ (p = "actions" \/ UNCHANGED vars)
              /\ (p = "drives" \/ UNCHANGED driveVars)
              /\ (p = "specs" \/ UNCHANGED specsVars)

workersVars == <<part, vars, driveVars, specsVars>>

WorkersInit == Init /\ DriveInit /\ SpecsInit /\ part \in {"actions", "drives", "specs"}

WorkersNext == \/ Only("actions", Next)
               \/ Only("drives", DriveNext)
               \/ Only("specs", SpecsNext)

WorkersFairness ==
  /\ WF_workersVars(Only("actions", Worker))
  /\ WF_workersVars(Only("actions", PollOutcome))
  /\ WF_workersVars(Only("actions", PollLost))
  /\ WF_workersVars(Only("drives", MonitorPass))
  /\ \A d \in Drives : /\ WF_workersVars(Only("drives", WorkerTakes(d)))
                       /\ WF_workersVars(Only("drives", Elapse(d)))
  /\ WF_workersVars(Only("specs", SectionSteps))

WorkersSpec == WorkersInit /\ [][WorkersNext]_workersVars /\ WorkersFairness
=============================================================================

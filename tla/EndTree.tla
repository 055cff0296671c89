------------------------------ MODULE EndTree ------------------------------
(***************************************************************************)
(* "End process tree", from the dialog to the last termination request:    *)
(*                                                                         *)
(*   - the dialog (src/src/app/process_controls.rs) reviews a list built   *)
(*     from the newest process sample and offers it while it still matches,*)
(*   - the action worker (src/src/platform/tree.rs) opens and verifies     *)
(*     every listed process, then terminates them through those handles.   *)
(*                                                                         *)
(* Meanwhile processes start and exit, and Windows uses PIDs again, except *)
(* those of processes that somebody still holds a handle to.  The channel  *)
(* between the two is ProcessActions: one request at a time.               *)
(***************************************************************************)
EXTENDS ProcessTree

CONSTANTS
    MaxTime,    \* bound: readings of the clock that creation times are taken from
    MaxBorn,    \* bound: processes started
    MaxJobs     \* bound: confirmed requests

\* `mother' is the process that created this one; Windows keeps only her PID.
Process == [created : Nat \ {0}, mother : Identity \cup {None}, path : Paths]

ASSUME EndTreeAssumption ==
    /\ Pids # {} /\ None \notin Process
    /\ MaxTime \in Nat /\ MaxBorn \in Nat /\ MaxJobs \in Nat

Plan == [root : Identity, scope : Scopes, path : Paths \cup {None},
         targets : Seq(Target)]

VARIABLES
    now,        \* the system time
    procs,      \* the running process of every PID, or None
    rows,       \* the newest sample the UI has accepted
    pending,    \* the open dialog: root, scope and reviewed plan (or None)
    job,        \* the plan the worker executes, or None
    phase,      \* "idle", "verify" or "kill": where terminate_tree stands
    next,       \* the target or handle of its current turn
    handles,    \* the verified processes, each held open
    born,       \* history: processes started; no PID is used twice in a tick
    confirmed,  \* history: identities on every list the user confirmed
    killed,     \* history: processes sent a termination request
    jobs        \* history: lists confirmed

uiVars     == <<rows, pending>>
workerVars == <<job, phase, next, handles>>
worldVars  == <<now, procs, born>>
vars == <<now, procs, rows, pending, job, phase, next, handles,
          born, confirmed, killed, jobs>>

-----------------------------------------------------------------------------
(* Windows *)

Live(id) == procs[id.pid] # None /\ procs[id.pid].created = id.created
IdAt(pid) == [pid |-> pid, created |-> procs[pid].created]
ParentPid(process) == IF process.mother = None THEN None ELSE process.mother.pid

Pinned(pid) == \E i \in DOMAIN handles : handles[i].pid = pid

Spawn(pid, mother, path) ==
    /\ Cardinality(born) < MaxBorn /\ procs[pid] = None /\ ~Pinned(pid)
    /\ procs[mother] # None
    /\ LET id == [pid |-> pid, created |-> now] IN id \notin born /\ born' = born \cup {id}
    /\ procs' = [procs EXCEPT ![pid] = [created |-> now, mother |-> IdAt(mother), path |-> path]]
    /\ UNCHANGED <<now, uiVars, workerVars, confirmed, killed, jobs>>

Exit(pid) ==
    /\ procs[pid] # None
    /\ procs' = [procs EXCEPT ![pid] = None]
    /\ UNCHANGED <<now, born, uiVars, workerVars, confirmed, killed, jobs>>

Tick ==
    /\ now < MaxTime
    /\ now' = now + 1
    /\ UNCHANGED <<procs, born, uiVars, workerVars, confirmed, killed, jobs>>

-----------------------------------------------------------------------------
(* The UI: samples and the dialog *)

\* Windows may refuse the queries of one process.  Samples after the last list
\* was confirmed would not be used.
Sampled(pid, unknown) ==
    [pid |-> pid, parent |-> ParentPid(procs[pid]),
     created |-> IF pid \in unknown THEN 0 ELSE procs[pid].created,
     path |-> IF pid \in unknown THEN None ELSE procs[pid].path,
     name |-> procs[pid].path]

Sample ==
    /\ jobs < MaxJobs
    /\ \E unknown \in {{}} \cup {{pid} : pid \in Pids} :
          rows' = {Sampled(pid, unknown) : pid \in {p \in Pids : procs[p] # None}}
    /\ UNCHANGED <<worldVars, pending, workerVars, confirmed, killed, jobs>>

Review(root, scope) == [root |-> root, scope |-> scope, plan |-> Build(rows, root, scope)]

\* request_end_tree_selected
Request(row) ==
    /\ pending = None /\ job = None
    /\ row.created # 0
    /\ pending' = Review(Id(row), "SelectedTree")
    /\ UNCHANGED <<worldVars, rows, workerVars, confirmed, killed, jobs>>

\* The scope checkbox and "Refresh targets" rebuild the list for the same root.
Refresh(scope) ==
    /\ pending # None
    /\ pending' = Review(pending.root, scope)
    /\ UNCHANGED <<worldVars, rows, workerVars, confirmed, killed, jobs>>

Cancel ==
    /\ pending # None
    /\ pending' = None
    /\ UNCHANGED <<worldVars, rows, workerVars, confirmed, killed, jobs>>

\* Plan::matches
Current == pending.plan # None /\ Build(rows, pending.root, pending.scope) = pending.plan

Confirm ==
    /\ pending # None /\ job = None /\ jobs < MaxJobs
    /\ Current
    /\ job' = pending.plan
    /\ phase' = "verify" /\ next' = 1 /\ handles' = <<>>
    /\ pending' = None
    /\ confirmed' = confirmed \cup
           {Id(pending.plan.targets[i].id) : i \in DOMAIN pending.plan.targets}
    /\ jobs' = jobs + 1
    /\ UNCHANGED <<worldVars, rows, killed>>

-----------------------------------------------------------------------------
(* The worker: terminate_tree *)

Return ==
    /\ job' = None /\ phase' = "idle" /\ next' = 0 /\ handles' = <<>>

\* What is read through the opened handle agrees with the reviewed target.
Verified(target) ==
    LET process == procs[target.id.pid] IN
    /\ process.created = target.id.created
    /\ job.scope = "AllInstances" /\ target.parent = None => process.path = job.path
    /\ target.parent # None => /\ ParentPid(process) = target.parent.pid
                               /\ target.parent.created <= target.id.created

\* Mutant: a process that cannot be opened is left out of the list.
VerifyLenient ==
    /\ phase = "verify" /\ next \in DOMAIN job.targets
    /\ LET target == job.targets[next] IN
       /\ next' = next + 1
       /\ handles' \in {handles} \cup
             (IF procs[target.id.pid] # None /\ Verified(target)
              THEN {Append(handles, IdAt(target.id.pid))} ELSE {})
    /\ UNCHANGED <<job, phase, worldVars, uiVars, confirmed, killed, jobs>>

\* Mutant: whatever process has the PID is taken for the reviewed one.
VerifyByPid ==
    /\ phase = "verify" /\ next \in DOMAIN job.targets
    /\ LET target == job.targets[next] IN
       /\ next' = next + 1
       /\ handles' = IF procs[target.id.pid] # None
                     THEN Append(handles, IdAt(target.id.pid)) ELSE handles
    /\ UNCHANGED <<job, phase, worldVars, uiVars, confirmed, killed, jobs>>

\* One turn of the first loop: open, verify and keep; skip what has exited; give
\* up on what cannot be opened, queried or recognised.
Verify ==
    /\ phase = "verify" /\ next \in DOMAIN job.targets
    /\ LET target  == job.targets[next]
           running == procs[target.id.pid] # None
       IN  \/ /\ ~running
              /\ next' = next + 1 /\ UNCHANGED <<job, phase, handles>>
           \/ /\ running /\ Verified(target)
              /\ next' = next + 1 /\ handles' = Append(handles, IdAt(target.id.pid))
              /\ UNCHANGED <<job, phase>>
           \/ Return
    /\ UNCHANGED <<worldVars, uiVars, confirmed, killed, jobs>>

AllVerified ==
    /\ phase = "verify" /\ next \notin DOMAIN job.targets
    /\ phase' = "kill" /\ next' = 1
    /\ UNCHANGED <<job, handles, worldVars, uiVars, confirmed, killed, jobs>>

\* One turn of the second loop.  The process may refuse, and exits when it likes.
Kill ==
    /\ phase = "kill" /\ next \in DOMAIN handles
    /\ next' = next + 1
    /\ killed' \in {killed} \cup
          (IF Live(handles[next]) THEN {killed \cup {handles[next]}} ELSE {})
    /\ UNCHANGED <<job, phase, handles, worldVars, uiVars, confirmed, jobs>>

Finish ==
    /\ phase = "kill" /\ next \notin DOMAIN handles
    /\ Return
    /\ UNCHANGED <<worldVars, uiVars, confirmed, killed, jobs>>

-----------------------------------------------------------------------------
(* Specification *)

\* One process runs, with any PID (they only order siblings); what else there is has been started since.
Init ==
    /\ now = 1
    /\ \E path \in Paths : LET pid == CHOOSE p \in Pids : \A q \in Pids : p <= q IN
          /\ procs = [p \in Pids |-> IF p = pid THEN [created |-> 1, mother |-> None, path |-> path]
                                     ELSE None]
          /\ born = {[pid |-> pid, created |-> 1]}
    /\ rows = {} /\ pending = None
    /\ job = None /\ phase = "idle" /\ next = 0 /\ handles = <<>>
    /\ confirmed = {} /\ killed = {} /\ jobs = 0

World == \/ \E pid, mother \in Pids, path \in Paths : Spawn(pid, mother, path)
         \/ \E pid \in Pids : Exit(pid)
         \/ Tick

Dialog == \/ Sample
          \/ \E row \in rows : Request(row)
          \/ \E scope \in Scopes : Refresh(scope)
          \/ Cancel \/ Confirm

Worker == Verify \/ AllVerified \/ Kill \/ Finish

Next == World \/ Dialog \/ Worker

Spec == Init /\ [][Next]_vars

-----------------------------------------------------------------------------
(* Properties *)

TypeOK ==
    /\ now \in Nat \ {0}
    /\ procs \in [Pids -> Process \cup {None}]
    /\ rows \subseteq Row
    /\ pending = None \/ /\ pending.root \in Identity /\ pending.scope \in Scopes
                         /\ pending.plan = None \/ pending.plan \in Plan
    /\ phase \in {"idle", "verify", "kill"}
    /\ IF phase = "idle" THEN job = None ELSE job \in Plan
    /\ next \in Nat
    /\ handles \in Seq(Identity)
    /\ born \subseteq Identity /\ jobs \in Nat
    /\ confirmed \subseteq Identity /\ killed \subseteq Identity

\* "Never discover or chase new PIDs": every process that is sent a termination
\* request is one the user confirmed, in this life of its PID.
OnlyConfirmed == killed \subseteq confirmed

\* "A reused parent PID must never attach an older process": a confirmed process
\* that still runs was created by the one reviewed as its parent, or is a root of
\* the list, unless that parent started in the very tick the process did.
FamilyOnly ==
    job # None => \A i \in DOMAIN job.targets :
        LET target == job.targets[i] IN
        Live(target.id) =>
            \/ target.parent \in {None, procs[target.id.pid].mother}
            \/ target.parent # None /\ target.parent.created = target.id.created

\* "The worker opens and verifies all surviving targets before sending the first
\* termination request": none that still runs is left out.
NoSurvivorLeftOut ==
    phase = "kill" => \A i \in DOMAIN job.targets :
        Live(job.targets[i].id) => \E j \in DOMAIN handles : handles[j] = job.targets[i].id

\* What is ended is a family, and all of it.
EndsTheFamily == TypeOK /\ FamilyOnly /\ NoSurvivorLeftOut
=============================================================================

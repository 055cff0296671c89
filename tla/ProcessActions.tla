--------------------------- MODULE ProcessActions ---------------------------
(***************************************************************************)
(* Confirmed process actions, one at a time, and the suspensions Trontop   *)
(* holds (src/src/process_actions.rs, platform.rs, platform/suspension.rs).*)
(*                                                                         *)
(* The UI thread owns the Controller: submit, poll, drop, and a copy       *)
(* (`mirror') of what the worker holds, refreshed by every outcome.  One   *)
(* worker thread receives a request, opens the process, verifies it and    *)
(* acts on the handle it verified.  A suspension lasts as long as the      *)
(* worker keeps its state handle.  Meanwhile processes start and exit, and *)
(* Windows uses PIDs again unless somebody holds a handle to the process.  *)
(***************************************************************************)
EXTENDS Naturals, FiniteSets, Sequences

CONSTANTS
    Pids,         \* process ids
    Untouchable,  \* PIDs that can_control refuses: the kernel's and our own
    None,         \* an empty Option
    MaxHolds,     \* MAX_HOLDS
    MaxBorn,      \* bound: processes started
    MaxRequests   \* bound: requests accepted

Identity == [pid : Pids, created : Nat \ {0}]

\* A request names a process that some sample has shown.
\* "Set" stands for priority and affinity, "Shell" for Reveal and Launch, which
\* name no process.  EndTree is the subject of the module of that name.
RequestFor(ids) == [action : {"End", "Suspend", "Resume", "Set"}, id : ids]
                   \cup [action : {"Shell"}, id : {None}]
Request == RequestFor(Identity)

ASSUME ProcessActionsAssumption ==
    /\ Untouchable \subseteq Pids
    /\ MaxHolds \in Nat /\ MaxBorn \in Nat /\ MaxRequests \in Nat
    /\ None \notin Identity \cup Request

Phases == {"idle", "validate", "begin", "open", "check", "act", "settle",
           "publish", "ending", "closing", "dead"}

VARIABLES
    running,    \* the creation time of every PID's process, 0 for none
    born,       \* history: the identities of all processes so far
    frozen,     \* processes suspended through a state handle of the worker
    active,     \* Controller.active: the request not yet answered, or None
    mirror,     \* Controller.held_suspensions
    requests,   \* Controller.requests: the sender exists
    stop,       \* Controller.stop
    queue,      \* the sync_channel(1) of requests
    results,    \* the sync_channel(1) of outcomes: the holds reported, or None
    worker,     \* where the worker thread stands
    job,        \* the request it works on
    handle,     \* the process it has opened for it, or None
    held,       \* Suspensions.held
    reported,   \* its local held_suspensions
    done,       \* history: what Windows accepted since the last submission
    accepted,   \* history: requests accepted by submit
    delivered   \* history: outcomes that poll returned

world    == <<running, born>>
ui       == <<active, mirror, requests, stop, accepted, delivered>>
thread   == <<job, handle, held, frozen, reported, done>>
channels == <<queue, results>>
vars == <<world, frozen, ui, channels, worker, job, handle, held, reported, done>>

-----------------------------------------------------------------------------
(* Windows *)

Alive(id) == running[id.pid] = id.created
IdAt(pid) == [pid |-> pid, created |-> running[pid]]

\* A process somebody holds a handle to keeps its PID after it has exited.
Pinned(pid) == \E id \in held \cup ({handle} \ {None}) : id.pid = pid

Spawn(pid) ==
    /\ Cardinality(born) < MaxBorn /\ running[pid] = 0 /\ ~Pinned(pid)
    /\ LET created == Cardinality(born) + 1
       IN  /\ running' = [running EXCEPT ![pid] = created]
           /\ born' = born \cup {[pid |-> pid, created |-> created]}
    /\ UNCHANGED <<ui, channels, worker, thread>>

Exit(pid) ==
    /\ running[pid] # 0
    /\ running' = [running EXCEPT ![pid] = 0]
    /\ frozen' = {id \in frozen : id.pid # pid}
    /\ UNCHANGED <<born, ui, channels, worker, job, handle, held, reported, done>>

-----------------------------------------------------------------------------
(* The UI thread: Controller *)

\* Mutant: the copy of the holds is not consulted, nor the request in flight.
SubmitAny(r) ==
    /\ requests /\ worker # "dead" /\ queue = None
    /\ accepted < MaxRequests
    /\ queue' = r /\ active' = r
    /\ accepted' = accepted + 1 /\ done' = <<>>
    /\ UNCHANGED <<mirror, requests, stop, delivered, world, results, worker,
                   job, handle, held, frozen, reported>>

Submit(r) ==
    /\ r.id # None => r.id.pid \notin Untouchable
    /\ r.action = "Suspend" => r.id \notin mirror
    /\ active = None
    /\ requests /\ worker # "dead" /\ queue = None      \* try_send
    /\ accepted < MaxRequests
    /\ queue' = r /\ active' = r
    /\ accepted' = accepted + 1 /\ done' = <<>>
    /\ UNCHANGED <<mirror, requests, stop, delivered, world, results, worker,
                   job, handle, held, frozen, reported>>

PollOutcome ==
    /\ ~stop /\ results # None
    /\ active' = None /\ mirror' = results
    /\ delivered' = delivered + 1
    /\ results' = None
    /\ UNCHANGED <<requests, stop, accepted, world, queue, worker, thread>>

\* The outcomes' channel is empty and closed: "Outcome is unknown".
PollLost ==
    /\ ~stop /\ results = None /\ worker = "dead"
    /\ requests' = FALSE /\ mirror' = {}
    /\ active' = None /\ delivered' = delivered + (IF active = None THEN 0 ELSE 1)
    /\ UNCHANGED <<stop, accepted, world, channels, worker, thread>>

\* Drop: raise the flag, close the channels (nobody reads `results' any more),
\* never wait for the worker.
Drop ==
    /\ ~stop
    /\ stop' = TRUE /\ requests' = FALSE
    /\ UNCHANGED <<active, mirror, accepted, delivered, world, channels, worker, thread>>

-----------------------------------------------------------------------------
(* The worker thread *)

\* A request already in the channel is received even after the drop.
Receive ==
    /\ worker = "idle" /\ queue # None
    /\ queue' = None
    /\ IF stop THEN worker' = "ending" /\ UNCHANGED job
               ELSE worker' = "validate" /\ job' = queue
    /\ UNCHANGED <<world, ui, results, handle, held, frozen, reported, done>>

\* The channel is empty and closed.
Disconnect ==
    /\ worker = "idle" /\ queue = None /\ ~requests
    /\ worker' = "ending"
    /\ UNCHANGED <<world, ui, channels, thread>>

\* Request::validate again: 30 s may have passed since the confirmation.
Validate ==
    /\ worker = "validate"
    /\ worker' \in {"publish"} \cup (IF stop THEN {} ELSE {"begin"})
    /\ UNCHANGED <<world, ui, channels, thread>>

\* prune_exited, before the native call.
Begin ==
    /\ worker = "begin"
    /\ held' = {id \in held : Alive(id)}
    /\ worker' = "open"
    /\ UNCHANGED <<world, ui, channels, job, handle, frozen, reported, done>>

\* Suspensions::suspend's own conditions, once it has pruned again.
Suspendable == job.id \notin held /\ Cardinality({id \in held : Alive(id)}) < MaxHolds

\* Open one handle by PID, or find the one that holds the suspension; Windows
\* may refuse.
Open ==
    /\ worker = "open"
    /\ held' = IF job.action = "Suspend" /\ job.id \notin held
               THEN {id \in held : Alive(id)} ELSE held
    /\ \/ /\ job.action = "Shell"
          /\ worker' = "act" /\ UNCHANGED handle
       \/ /\ job.action = "Resume" /\ job.id \in held
          /\ worker' = "check" /\ handle' = job.id
       \/ /\ job.action # "Shell" /\ ~(job.action = "Resume" /\ job.id \in held)
          /\ job.action = "Suspend" => Suspendable
          /\ running[job.id.pid] # 0
          /\ worker' = "check" /\ handle' = IdAt(job.id.pid)
       \/ /\ job.action # "Shell"
          /\ worker' = "settle" /\ UNCHANGED handle
    /\ UNCHANGED <<world, ui, channels, job, frozen, reported, done>>

\* Mutant: whatever process has the PID is taken for the confirmed one.
CheckPid ==
    /\ worker = "check"
    /\ worker' = "act" /\ UNCHANGED handle
    /\ UNCHANGED <<world, ui, channels, job, held, frozen, reported, done>>

\* validate_identity on that handle: creation time, then protection.
Check ==
    /\ worker = "check"
    /\ \/ handle = job.id /\ worker' = "act" /\ UNCHANGED handle
       \/ worker' = "settle" /\ handle' = None
    /\ UNCHANGED <<world, ui, channels, job, held, frozen, reported, done>>

Accept == done' = Append(done, [action |-> job.action, id |-> handle])

\* Windows accepts the call on that handle.
Accepted ==
    /\ handle # None => Alive(handle)
    /\ Accept
    /\ CASE job.action = "Suspend" ->
              held' = held \cup {job.id} /\ frozen' = frozen \cup {handle}
         [] job.action = "Resume" ->
              held' = held \ {job.id} /\ frozen' = frozen \ {job.id}
         [] OTHER -> UNCHANGED <<held, frozen>>

\* Mutant: the reference is dropped before Windows has answered.
ActReleases ==
    /\ worker = "act"
    /\ \/ Accepted
       \/ /\ UNCHANGED done
          /\ IF job.action = "Resume"
             THEN held' = held \ {job.id} /\ frozen' = frozen \ {job.id}
             ELSE UNCHANGED <<held, frozen>>
    /\ worker' = "settle" /\ handle' = None
    /\ UNCHANGED <<world, ui, channels, job, reported>>

\* The native call.  A refused Suspend closes the state handle it had created,
\* a refused Resume keeps the reference.
Act ==
    /\ worker = "act"
    /\ Accepted \/ UNCHANGED <<held, frozen, done>>
    /\ worker' = "settle" /\ handle' = None
    /\ UNCHANGED <<world, ui, channels, job, reported>>

\* prune_exited again, and the list that the outcome carries.
Settle ==
    /\ worker = "settle"
    /\ held' = {id \in held : Alive(id)}
    /\ reported' = held'
    /\ worker' = "publish"
    /\ UNCHANGED <<world, ui, channels, job, handle, frozen, done>>

\* try_send; nobody listens after the drop.
Publish ==
    /\ worker = "publish"
    /\ job' = None
    /\ IF stop \/ results # None
       THEN worker' = "ending" /\ UNCHANGED results
       ELSE worker' = "idle" /\ results' = reported
    /\ UNCHANGED <<world, ui, queue, handle, held, frozen, reported, done>>

\* A panic inside the native call (dev profile; in release it ends the process).
Panic ==
    /\ worker \in {"begin", "open", "check", "act", "settle"}
    /\ worker' = "ending" /\ job' = None /\ handle' = None
    /\ UNCHANGED <<world, ui, channels, held, frozen, reported, done>>

\* The thread's locals are dropped first, with every state handle, ...
Release ==
    /\ worker = "ending"
    /\ held' = {} /\ frozen' = {}
    /\ worker' = "closing"
    /\ UNCHANGED <<world, ui, channels, job, handle, reported, done>>

\* ... then what it had captured: its ends of the channels.
Close ==
    /\ worker = "closing"
    /\ worker' = "dead" /\ queue' = None
    /\ UNCHANGED <<world, ui, results, thread>>

-----------------------------------------------------------------------------
(* Specification *)

\* What runs already starts first.
Init ==
    /\ running = [pid \in Pids |-> 0] /\ born = {}
    /\ frozen = {} /\ held = {} /\ reported = {} /\ mirror = {}
    /\ active = None /\ requests = TRUE /\ stop = FALSE
    /\ queue = None /\ results = None
    /\ worker = "idle" /\ job = None /\ handle = None
    /\ done = <<>> /\ accepted = 0 /\ delivered = 0

Environment == \E pid \in Pids : Spawn(pid) \/ Exit(pid)

UI == (\E r \in RequestFor(born) : Submit(r)) \/ PollOutcome \/ PollLost \/ Drop

Worker == \/ Receive \/ Disconnect \/ Validate \/ Begin \/ Open \/ Check
          \/ Act \/ Settle \/ Publish \/ Release \/ Close

Next == Environment \/ UI \/ Worker \/ Panic

Spec == Init /\ [][Next]_vars

\* The thread is scheduled and its native calls return; frames poll.
Fairness == WF_vars(Worker) /\ WF_vars(PollOutcome) /\ WF_vars(PollLost)

FairSpec == Spec /\ Fairness

-----------------------------------------------------------------------------
(* Properties *)

TypeOK ==
    /\ running \in [Pids -> Nat] /\ born \subseteq Identity
    /\ frozen \subseteq Identity /\ held \subseteq Identity
    /\ reported \subseteq Identity /\ mirror \subseteq Identity
    /\ active \in Request \cup {None} /\ queue \in Request \cup {None}
    /\ requests \in BOOLEAN /\ stop \in BOOLEAN
    /\ results = None \/ results \subseteq Identity
    /\ worker \in Phases
    /\ IF worker \in {"idle", "ending", "closing", "dead"}
       THEN job = None ELSE job \in Request
    /\ handle \in Identity \cup {None}
    /\ done \in Seq([action : {"End", "Suspend", "Resume", "Set", "Shell"},
                     id : Identity \cup {None}])
    /\ accepted \in Nat /\ delivered \in Nat

\* "A single in-flight request ... timeouts do not retry", "Never reopen by PID
\* after verification": between two submissions Windows accepts at most one call,
\* the one that was confirmed, on the process it was confirmed for.
ActsOnceAsConfirmed ==
    /\ Len(done) <= 1
    /\ active # None /\ done # <<>> => done[1] = [action |-> active.action, id |-> active.id]

\* Between requests the UI shows as suspended by Trontop exactly the running
\* processes that it does suspend, also when the worker was lost.
SuspensionsShown ==
    active = None /\ ~stop => {id \in mirror : Alive(id)} = frozen

\* "A failed Resume retains its handle for another explicit attempt": until the
\* worker ends, only an accepted Resume releases a running process.
ReleasedOnRequest ==
    [][\A id \in frozen \ frozen' :
          \/ ~Alive(id)' \/ worker = "ending"
          \/ done' = Append(done, [action |-> "Resume", id |-> id])]_vars

\* "Closing Trontop or losing its worker releases its suspension references."
ClosingReleases == (stop \/ worker = "ending") ~> frozen = {}

\* The single-flight contract, see CommandSlot.
Slot == INSTANCE CommandSlot WITH
    phase <- CASE active = None -> "free"
               [] active # None /\ (results # None \/ worker = "dead") -> "answered"
               [] OTHER -> "running",
    closed <- stop

ImplementsCommandSlot == Slot!FairSpec

\* What the user confirmed is what happened, and what the page shows of it is so.
ActionsAreAsShown == TypeOK /\ ActsOnceAsConfirmed /\ SuspensionsShown

\* A suspension ends when it was asked to, and always when Trontop or its worker ends.
HoldsAreReleased == ReleasedOnRequest /\ ClosingReleases
=============================================================================

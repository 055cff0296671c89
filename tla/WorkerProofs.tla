---------------------------- MODULE WorkerProofs ----------------------------
(***************************************************************************)
(* Proofs about the worker of process actions and about the threads that   *)
(* read drives, for any number of processes, holds, requests and drives:   *)
(* what the user confirmed is what Windows was asked to do, once, and what *)
(* the UI shows as suspended is what the worker suspends.  And about the   *)
(* flag by which a page asks the sensor bridge for its short cadence.      *)
(***************************************************************************)
EXTENDS ProcessActions, DriveSensors, SpecsWorkers, TLAPS, FiniteSetTheorems

-----------------------------------------------------------------------------
(* Process actions: one request, one answer *)

Working == {"validate", "begin", "open", "check", "act", "settle", "publish"}

\* The request is in the channel, at the worker or answered, until it was taken.
OneRequest ==
    /\ active = None => queue = None /\ results = None
                          /\ worker \in {"idle", "ending", "closing", "dead"}
    /\ queue # None => queue = active /\ worker = "idle" /\ results = None
    /\ worker \in Working => job = active /\ results = None /\ queue = None
    /\ stop => ~requests
    /\ ~requests /\ ~stop => worker = "dead"
    /\ ~stop /\ (active = None \/ results # None) => worker \in {"idle", "dead"}
    /\ ~stop /\ results # None => worker = "idle"

\* Windows has been asked nothing before the worker acts, and what it acts on is what
\* the request names.
AsConfirmed ==
    /\ worker \in {"validate", "begin", "open", "check", "act"} \/ queue # None => done = <<>>
    /\ worker = "act" => handle = job.id
    /\ worker \notin {"check", "act"} => handle = None

\* What anybody knows of is a process that ran, and those got their creation times in
\* order.
KnownRan ==
    /\ IsFiniteSet(born) /\ \A id \in born : id.created <= Cardinality(born)
    /\ held \subseteq born /\ frozen \subseteq born /\ reported \subseteq born
    /\ mirror \subseteq born /\ (results # None => results \subseteq born)
    /\ handle # None => handle \in born
    /\ \A pid \in Pids : running[pid] # 0 => IdAt(pid) \in born
    /\ queue # None => queue \in RequestFor(born)
    /\ worker \in Working => job \in RequestFor(born)

\* What is suspended is what the worker holds and runs; the list for the next outcome,
\* the one on its way and the UI's copy name the same processes.
HoldsAgree ==
    /\ frozen = {id \in held : Alive(id)}
    /\ worker \in {"closing", "dead"} => held = {}
    /\ worker \in {"idle", "validate", "begin", "open", "check", "act", "publish"} =>
          {id \in reported : Alive(id)} = frozen
    /\ ~stop /\ results # None => {id \in results : Alive(id)} = frozen

ActionsInv == ActionsAreAsShown /\ OneRequest /\ AsConfirmed /\ KnownRan /\ HoldsAgree

LEMMA InitActions == Init => ActionsInv
<1> SUFFICES ASSUME Init PROVE ActionsInv
  OBVIOUS
<1>1. TypeOK
  <2>1. done \in Seq([action : {"End", "Suspend", "Resume", "Set", "Shell"},
                      id : Identity \cup {None}])
    BY DEF Init
  <2>2. running \in [Pids -> Nat]
    BY DEF Init
  <2> QED BY <2>1, <2>2 DEF Init, TypeOK, Phases
<1>2. ActsOnceAsConfirmed /\ SuspensionsShown
  BY DEF Init, ActsOnceAsConfirmed, SuspensionsShown
<1>3. OneRequest /\ AsConfirmed /\ HoldsAgree
  BY DEF Init, OneRequest, AsConfirmed, HoldsAgree, Working
<1>4. KnownRan
  BY FS_EmptySet DEF Init, KnownRan, Working
<1> QED BY <1>1, <1>2, <1>3, <1>4 DEF ActionsInv, ActionsAreAsShown

\* A request names a process, or none.
LEMMA RequestTyped ==
    ASSUME born \subseteq Identity, NEW r \in RequestFor(born)
    PROVE  /\ r \in Request /\ r # None
           /\ r.action \in {"End", "Suspend", "Resume", "Set", "Shell"}
           /\ r.id \in born \cup {None}
           /\ r.action # "Shell" => r.id \in born
           /\ r.action = "Shell" => r.id = None
<1>1. r \in Request
  BY DEF RequestFor, Request
<1> QED BY <1>1, ProcessActionsAssumption DEF RequestFor

LEMMA NextTyped == TypeOK /\ KnownRan /\ AsConfirmed /\ [Next]_vars => TypeOK'
<1> SUFFICES ASSUME TypeOK, KnownRan, AsConfirmed, [Next]_vars PROVE TypeOK'
  OBVIOUS
<1> USE DEF world, ui, thread, channels
<1>0. born \subseteq Identity /\ running \in [Pids -> Nat]
  BY DEF TypeOK
<1>1. ASSUME NEW pid \in Pids, Spawn(pid) PROVE TypeOK'
  <2>1. Cardinality(born) + 1 \in Nat \ {0}
    BY FS_CardinalityType DEF KnownRan
  <2> QED BY <1>1, <2>1 DEF Spawn, TypeOK, Identity
<1>2. ASSUME NEW pid \in Pids, Exit(pid) PROVE TypeOK'
  BY <1>2 DEF Exit, TypeOK
<1>3. ASSUME NEW r \in RequestFor(born), Submit(r) PROVE TypeOK'
  <2>1. r \in Request
    BY <1>0, RequestTyped
  <2> QED BY <1>3, <2>1 DEF Submit, TypeOK
<1>4. CASE PollOutcome \/ PollLost \/ Drop
  <2>1. CASE PollOutcome
    BY <2>1 DEF PollOutcome, TypeOK
  <2>2. CASE PollLost
    <3>1. delivered' \in Nat
      BY <2>2 DEF PollLost, TypeOK
    <3> QED BY <2>2, <3>1 DEF PollLost, TypeOK
  <2>3. CASE Drop
    BY <2>3 DEF Drop, TypeOK
  <2> QED BY <1>4, <2>1, <2>2, <2>3
<1>5. CASE Receive
  BY <1>5 DEF Receive, TypeOK, Phases
<1>6. CASE Disconnect \/ Validate \/ Begin
  BY <1>6 DEF Disconnect, Validate, Begin, TypeOK, Phases
<1>7. CASE Open
  <2>1. job \in RequestFor(born) /\ worker = "open"
    BY <1>7 DEF Open, KnownRan, Working
  <2>2. job.action # "Shell" => job.id \in born /\ job.id \in Identity /\ job.id.pid \in Pids
    BY <1>0, <2>1, RequestTyped DEF Identity
  <2>3. handle' \in Identity \cup {None}
    BY <1>0, <1>7, <2>2 DEF Open, KnownRan, TypeOK
  <2>4. held' \subseteq Identity /\ worker' \in Phases /\ worker' \in Working
    BY <1>7 DEF Open, TypeOK, Phases, Working
  <2> QED BY <1>7, <2>1, <2>3, <2>4 DEF Open, TypeOK, Working
<1>8. CASE Check \/ Settle \/ Publish \/ Panic
  BY <1>8 DEF Check, Settle, Publish, Panic, TypeOK, Phases
<1>9. CASE Act
  <2>1. /\ job \in RequestFor(born) /\ worker = "act" /\ handle = job.id
        /\ handle \in Identity \cup {None}
    BY <1>9 DEF Act, KnownRan, Working, AsConfirmed, TypeOK
  <2>2. /\ job.action \in {"End", "Suspend", "Resume", "Set", "Shell"}
        /\ job.action # "Shell" => job.id \in Identity
    BY <1>0, <2>1, RequestTyped
  <2>3. held' \subseteq Identity /\ frozen' \subseteq Identity
    BY <1>9, <2>1, <2>2 DEF Act, Accepted, TypeOK
  <2>4. done' \in Seq([action : {"End", "Suspend", "Resume", "Set", "Shell"},
                       id : Identity \cup {None}])
    <3> DEFINE calls == [action : {"End", "Suspend", "Resume", "Set", "Shell"},
                         id : Identity \cup {None}]
    <3>1. PICK call \in calls : call = [action |-> job.action, id |-> handle]
      BY <2>1, <2>2
    <3>2. done' = done \/ done' = Append(done, call)
      BY <1>9, <3>1 DEF Act, Accepted, Accept
    <3>3. done \in Seq(calls)
      BY DEF TypeOK
    <3> HIDE DEF calls
    <3>4. Append(done, call) \in Seq(calls)
      BY <3>3
    <3>5. done' \in Seq(calls)
      BY <3>2, <3>3, <3>4
    <3> QED BY <3>5 DEF calls
  <2> QED BY <1>9, <2>1, <2>3, <2>4 DEF Act, TypeOK, Phases
<1>10. CASE Release \/ Close
  BY <1>10 DEF Release, Close, TypeOK, Phases
<1>11. CASE UNCHANGED vars
  BY <1>11 DEF vars, TypeOK
<1> QED BY <1>1, <1>2, <1>3, <1>4, <1>5, <1>6, <1>7, <1>8, <1>9, <1>10, <1>11
        DEF Next, Environment, UI, Worker

\* The request's way from the UI to the worker and back.
LEMMA NextOneRequest ==
    TypeOK /\ KnownRan /\ OneRequest /\ [Next]_vars => OneRequest'
<1> SUFFICES ASSUME TypeOK, KnownRan, OneRequest, [Next]_vars PROVE OneRequest'
  OBVIOUS
<1> USE DEF world, ui, thread, channels, OneRequest, Working
<1>1. CASE Environment
  BY <1>1 DEF Environment, Spawn, Exit
<1>2. ASSUME NEW r \in RequestFor(born), Submit(r) PROVE OneRequest'
  <2>1. r # None
    BY RequestTyped DEF TypeOK
  <2> QED BY <1>2, <2>1 DEF Submit
<1>3. CASE PollOutcome \/ PollLost \/ Drop
  BY <1>3 DEF PollOutcome, PollLost, Drop
<1>4. CASE Receive \/ Disconnect \/ Validate \/ Begin
  BY <1>4 DEF Receive, Disconnect, Validate, Begin
<1>5. CASE Open
  BY <1>5 DEF Open
<1>6. CASE Check \/ Act \/ Settle
  BY <1>6 DEF Check, Act, Settle
<1>7. CASE Publish \/ Panic \/ Release \/ Close
  BY <1>7 DEF Publish, Panic, Release, Close
<1>8. CASE UNCHANGED vars
  BY <1>8 DEF vars
<1> QED BY <1>1, <1>2, <1>3, <1>4, <1>5, <1>6, <1>7, <1>8 DEF Next, UI, Worker

\* Between two submissions Windows accepts at most one call, the confirmed one.
LEMMA NextConfirmed ==
    /\ TypeOK /\ KnownRan /\ OneRequest /\ AsConfirmed /\ ActsOnceAsConfirmed /\ [Next]_vars
    => AsConfirmed' /\ ActsOnceAsConfirmed'
<1> SUFFICES ASSUME TypeOK, KnownRan, OneRequest, AsConfirmed, ActsOnceAsConfirmed, [Next]_vars
             PROVE  AsConfirmed' /\ ActsOnceAsConfirmed'
  OBVIOUS
<1> USE DEF world, ui, thread, channels, AsConfirmed, ActsOnceAsConfirmed
<1>1. CASE Environment
  BY <1>1 DEF Environment, Spawn, Exit
<1>2. ASSUME NEW r \in RequestFor(born), Submit(r) PROVE AsConfirmed' /\ ActsOnceAsConfirmed'
  BY <1>2 DEF Submit, OneRequest
<1>3. CASE PollOutcome \/ PollLost \/ Drop
  BY <1>3 DEF PollOutcome, PollLost, Drop
<1>4. CASE Receive \/ Disconnect \/ Validate \/ Begin
  BY <1>4 DEF Receive, Disconnect, Validate, Begin
<1>5. CASE Open
  <2>1. job.action = "Shell" => job.id = None
    BY <1>5, RequestTyped DEF Open, KnownRan, Working, TypeOK
  <2> QED BY <1>5, <2>1 DEF Open, OneRequest, Working
<1>6. CASE Check \/ Settle \/ Publish \/ Panic \/ Release \/ Close
  BY <1>6 DEF Check, Settle, Publish, Panic, Release, Close
<1>7. CASE Act
  <2>1. /\ done = <<>> /\ handle = job.id /\ job = active /\ queue = None
        /\ queue' = queue /\ active' = active /\ worker' = "settle" /\ handle' = None
    BY <1>7 DEF Act, OneRequest, Working
  <2>2. \/ done' = <<>>
        \/ done' = <<[action |-> active.action, id |-> active.id]>>
    BY <1>7, <2>1 DEF Act, Accepted, Accept
  <2>3. CASE done' = <<>>
    BY <2>1, <2>3
  <2>4. CASE done' = <<[action |-> active.action, id |-> active.id]>>
    <3>1. Len(done') = 1 /\ done'[1] = [action |-> active.action, id |-> active.id]
      BY <2>4
    <3> QED BY <2>1, <3>1
  <2> QED BY <2>2, <2>3, <2>4
<1>8. CASE UNCHANGED vars
  BY <1>8 DEF vars
<1> QED BY <1>1, <1>2, <1>3, <1>4, <1>5, <1>6, <1>7, <1>8 DEF Next, UI, Worker
LEMMA NextKnown ==
    TypeOK /\ OneRequest /\ AsConfirmed /\ KnownRan /\ [Next]_vars => KnownRan'
<1> SUFFICES ASSUME TypeOK, OneRequest, AsConfirmed, KnownRan, [Next]_vars PROVE KnownRan'
  OBVIOUS
<1> USE DEF world, ui, thread, channels, KnownRan, Working
<1>1. ASSUME NEW pid \in Pids, Spawn(pid) PROVE KnownRan'
  <2> DEFINE id == [pid |-> pid, created |-> Cardinality(born) + 1]
  <2>1. /\ born' = born \cup {id} /\ running' = [running EXCEPT ![pid] = id.created]
        /\ UNCHANGED <<held, frozen, reported, mirror, results, handle, queue, worker, job>>
    BY <1>1 DEF Spawn
  <2>2. id \notin born /\ Cardinality(born) \in Nat
    <3>1. Cardinality(born) \in Nat
      BY FS_CardinalityType
    <3>2. id.created = Cardinality(born) + 1
      OBVIOUS
    <3> HIDE DEF id
    <3> QED BY <3>1, <3>2
  <2> HIDE DEF id
  <2>3. IsFiniteSet(born') /\ Cardinality(born') = Cardinality(born) + 1
    BY <2>1, <2>2, FS_AddElement
  <2>4. \A other \in born' : other.created <= Cardinality(born')
    <3>1. id.created = Cardinality(born) + 1
      BY DEF id
    <3>2. \A other \in born : other.created \in Nat
      BY DEF TypeOK, Identity
    <3> QED BY <2>1, <2>2, <2>3, <3>1, <3>2
  <2>5. ASSUME NEW p \in Pids, running'[p] # 0 PROVE IdAt(p)' \in born'
    <3>1. CASE p = pid
      <4>1. IdAt(p)' = id
        BY <2>1, <3>1 DEF IdAt, id, TypeOK
      <4> QED BY <2>1, <4>1
    <3>2. CASE p # pid
      BY <2>1, <2>5, <3>2 DEF IdAt, TypeOK
    <3> QED BY <3>1, <3>2
  <2>6. RequestFor(born) \subseteq RequestFor(born')
    BY <2>1 DEF RequestFor
  <2> QED BY <2>1, <2>3, <2>4, <2>5, <2>6
<1>2. ASSUME NEW pid \in Pids, Exit(pid) PROVE KnownRan'
  <2>1. \A p \in Pids : running'[p] # 0 => running'[p] = running[p]
    BY <1>2 DEF Exit, TypeOK
  <2>2. \A p \in Pids : running'[p] # 0 => IdAt(p)' \in born'
    BY <1>2, <2>1 DEF Exit, IdAt
  <2> QED BY <1>2, <2>2 DEF Exit
<1>3. ASSUME NEW r \in RequestFor(born), Submit(r) PROVE KnownRan'
  BY <1>3 DEF Submit, OneRequest, IdAt
<1>4. CASE PollOutcome \/ PollLost \/ Drop
  BY <1>4 DEF PollOutcome, PollLost, Drop, IdAt
<1>5. CASE Receive \/ Disconnect \/ Validate \/ Begin
  BY <1>5 DEF Receive, Disconnect, Validate, Begin, IdAt
<1>6. CASE Open
  <2>1. job \in RequestFor(born) /\ job' = job /\ born \subseteq Identity
    BY <1>6 DEF Open, TypeOK
  <2>2. job.action # "Shell" => job.id \in born /\ job.id.pid \in Pids
    BY <2>1, RequestTyped DEF Identity
  <2>3. handle' # None => handle' \in born
    BY <1>6, <2>2 DEF Open
  <2>4. held' \subseteq born
    BY <1>6 DEF Open
  <2> QED BY <1>6, <2>1, <2>3, <2>4 DEF Open, IdAt
<1>7. CASE Act
  <2>1. job \in RequestFor(born) /\ job' = job /\ born \subseteq Identity
    BY <1>7 DEF Act, TypeOK
  <2>2. job.action = "Suspend" => job.id \in born
    BY <2>1, RequestTyped
  <2>3. handle = job.id
    BY <1>7 DEF Act, AsConfirmed
  <2>4. held' \subseteq born /\ frozen' \subseteq born
    BY <1>7, <2>2, <2>3 DEF Act, Accepted
  <2> QED BY <1>7, <2>1, <2>4 DEF Act, IdAt
<1>8. CASE Check \/ Settle \/ Publish \/ Panic \/ Release \/ Close
  BY <1>8 DEF Check, Settle, Publish, Panic, Release, Close, IdAt
<1>9. CASE UNCHANGED vars
  BY <1>9 DEF vars, IdAt
<1> QED BY <1>1, <1>2, <1>3, <1>4, <1>5, <1>6, <1>7, <1>8, <1>9
        DEF Next, Environment, UI, Worker

\* Nothing that is known of comes alive again when a PID is used again.
LEMMA SpawnRevivesNothing ==
    ASSUME TypeOK, KnownRan, NEW pid \in Pids, Spawn(pid), NEW id \in born
    PROVE  Alive(id)' <=> Alive(id)
<1>1. /\ running \in [Pids -> Nat] /\ running[pid] = 0 /\ Cardinality(born) \in Nat
      /\ running' = [running EXCEPT ![pid] = Cardinality(born) + 1]
  BY FS_CardinalityType DEF TypeOK, Spawn, KnownRan
<1>2. /\ id.pid \in Pids /\ id.created \in Nat /\ id.created # 0
      /\ id.created <= Cardinality(born)
  BY DEF TypeOK, Identity, KnownRan
<1>3. CASE id.pid = pid
  BY <1>1, <1>2, <1>3 DEF Alive
<1>4. CASE id.pid # pid
  BY <1>1, <1>2, <1>4 DEF Alive
<1> QED BY <1>3, <1>4

LEMMA ExitEndsOne ==
    ASSUME TypeOK, NEW pid \in Pids, Exit(pid), NEW id \in born
    PROVE  Alive(id)' <=> Alive(id) /\ id.pid # pid
<1>1. running \in [Pids -> Nat] /\ running' = [running EXCEPT ![pid] = 0]
  BY DEF TypeOK, Exit
<1>2. id.pid \in Pids /\ id.created \in Nat /\ id.created # 0
  BY DEF TypeOK, Identity
<1> QED BY <1>1, <1>2 DEF Alive

LEMMA NextAgrees ==
    /\ TypeOK /\ OneRequest /\ AsConfirmed /\ KnownRan /\ HoldsAgree /\ SuspensionsShown
    /\ [Next]_vars
    => HoldsAgree' /\ SuspensionsShown'
<1> SUFFICES ASSUME TypeOK, OneRequest, AsConfirmed, KnownRan, HoldsAgree, SuspensionsShown,
                    [Next]_vars
             PROVE  HoldsAgree' /\ SuspensionsShown'
  OBVIOUS
<1> USE DEF world, ui, thread, channels, HoldsAgree, SuspensionsShown
<1>0. /\ held \subseteq born /\ frozen \subseteq born /\ reported \subseteq born
      /\ mirror \subseteq born /\ (results # None => results \subseteq born)
  BY DEF KnownRan
<1>1. ASSUME NEW pid \in Pids, Spawn(pid) PROVE HoldsAgree' /\ SuspensionsShown'
  <2>1. \A id \in born : Alive(id)' <=> Alive(id)
    BY <1>1, SpawnRevivesNothing
  <2> QED BY <1>0, <1>1, <2>1 DEF Spawn
<1>2. ASSUME NEW pid \in Pids, Exit(pid) PROVE HoldsAgree' /\ SuspensionsShown'
  <2>1. \A id \in born : Alive(id)' <=> Alive(id) /\ id.pid # pid
    BY <1>2, ExitEndsOne
  <2>2. /\ frozen' = {id \in frozen : id.pid # pid}
        /\ UNCHANGED <<held, reported, mirror, results, active, stop, worker>>
    BY <1>2 DEF Exit
  <2>3. ASSUME NEW known \in SUBSET born, {id \in known : Alive(id)} = frozen
        PROVE  {id \in known : Alive(id)'} = frozen'
    BY <2>1, <2>2, <2>3
  <2> QED BY <1>0, <2>2, <2>3
<1>3. CASE UNCHANGED <<running, frozen, held, reported, results, mirror, active, stop, worker>>
  BY <1>3 DEF Alive
<1>4. ASSUME NEW r \in RequestFor(born), Submit(r) PROVE HoldsAgree' /\ SuspensionsShown'
  BY <1>4 DEF Submit, Alive
<1>5. CASE PollOutcome
  BY <1>5 DEF PollOutcome, Alive
<1>6. CASE PollLost
  BY <1>6 DEF PollLost, Alive
<1>7. CASE Drop
  BY <1>7 DEF Drop, Alive
<1>8. CASE Receive \/ Disconnect \/ Validate
  BY <1>8 DEF Receive, Disconnect, Validate, Alive, OneRequest
<1>9. CASE Begin \/ Open
  <2>1. /\ held' \in {held, {id \in held : Alive(id)}} /\ worker \in {"begin", "open"}
        /\ worker' \in {"open", "act", "check", "settle"}
        /\ UNCHANGED <<running, frozen, reported, results, mirror, active, stop>>
    BY <1>9 DEF Begin, Open
  <2> QED BY <2>1 DEF Alive
<1>10. CASE Check \/ Settle \/ Panic
  BY <1>10 DEF Check, Settle, Panic, Alive, OneRequest, Working
<1>11. CASE Act
  <2>1. /\ handle = job.id /\ worker = "act" /\ worker' = "settle" /\ active # None
        /\ results = None
        /\ UNCHANGED <<running, reported, results, mirror, active, stop>>
    BY <1>11 DEF Act, AsConfirmed, OneRequest, Working
  <2>2. job.action = "Suspend" => job.id # None
    BY <1>11, RequestTyped, ProcessActionsAssumption DEF Act, KnownRan, Working, TypeOK
  <2>3. frozen' = {id \in held' : Alive(id)}
    BY <1>11, <2>1, <2>2 DEF Act, Accepted
  <2> QED BY <2>1, <2>3 DEF Alive
<1>12. CASE Publish
  <2>1. /\ worker = "publish" /\ UNCHANGED <<running, frozen, held, reported, mirror, active, stop>>
        /\ active # None
        /\ \/ worker' = "ending" /\ results' = results
           \/ worker' = "idle" /\ results' = reported
    BY <1>12 DEF Publish, OneRequest, Working
  <2> QED BY <2>1 DEF Alive
<1>13. CASE Release \/ Close
  <2>1. worker \in {"ending", "closing"} /\ (~stop => active # None /\ results = None)
    BY <1>13 DEF Release, Close, OneRequest
  <2> QED BY <1>13, <2>1 DEF Release, Close, Alive
<1> QED BY <1>1, <1>2, <1>3, <1>4, <1>5, <1>6, <1>7, <1>8, <1>9, <1>10, <1>11, <1>12, <1>13
        DEF Next, Environment, UI, Worker, vars

LEMMA ActionsInvariant == Spec => []ActionsInv
<1>1. ActionsInv /\ [Next]_vars => ActionsInv'
  BY NextTyped, NextOneRequest, NextConfirmed, NextKnown, NextAgrees
     DEF ActionsInv, ActionsAreAsShown
<1> QED BY <1>1, InitActions, PTL DEF Spec

\* Between two submissions Windows accepts at most the call that was confirmed, on the
\* process it was confirmed for; and between requests the UI shows as suspended exactly
\* the running processes that Trontop suspends.
THEOREM ActsAsConfirmedAndShown == Spec => []ActionsAreAsShown
  BY ActionsInvariant, PTL DEF ActionsInv

\* Until the worker ends, only an accepted Resume of it releases a running process.
THEOREM OnlyResumeReleases == Spec => ReleasedOnRequest
<1>1. ASSUME ActionsInv, [Next]_vars, NEW id \in frozen \ frozen'
      PROVE  \/ ~Alive(id)' \/ worker = "ending"
             \/ done' = Append(done, [action |-> "Resume", id |-> id])
  <2> USE DEF world, ui, thread, channels
  <2>1. ASSUME NEW pid \in Pids, Exit(pid) PROVE ~Alive(id)'
    <3>1. id \in born
      BY <1>1 DEF ActionsInv, KnownRan
    <3> QED BY <1>1, <2>1, <3>1, ExitEndsOne DEF Exit, ActionsInv, ActionsAreAsShown
  <2>2. CASE Act
    BY <1>1, <2>2 DEF Act, Accepted, Accept, ActionsInv, AsConfirmed
  <2>3. CASE Release
    BY <2>3 DEF Release
  <2>4. CASE frozen' = frozen
    BY <1>1, <2>4
  <2> QED BY <1>1, <2>1, <2>2, <2>3, <2>4
          DEF Next, Environment, UI, Worker, Spawn, Submit, PollOutcome, PollLost, Drop, Receive,
              Disconnect, Validate, Begin, Open, Check, Settle, Publish, Panic, Close, vars
<1>2. ActionsInv /\ [Next]_vars =>
        [\A id \in frozen \ frozen' :
            \/ ~Alive(id)' \/ worker = "ending"
            \/ done' = Append(done, [action |-> "Resume", id |-> id])]_vars
  BY <1>1
<1> QED BY <1>2, ActionsInvariant, PTL DEF Spec, ReleasedOnRequest

\* The controller keeps the single-flight contract of CommandSlot.
THEOREM KeepsSlotContract == Spec => Slot!Spec
<1> DEFINE phase == CASE active = None -> "free"
                      [] active # None /\ (results # None \/ worker = "dead") -> "answered"
                      [] OTHER -> "running"
<1>1. Init => Slot!Init
  BY DEF Init, Slot!Init
<1>2. ASSUME ActionsInv, [Next]_vars
      PROVE  [Slot!Next]_(Slot!vars)
  <2> USE DEF world, ui, thread, channels
  <2>1. TypeOK /\ OneRequest /\ AsConfirmed /\ KnownRan
    BY <1>2 DEF ActionsInv, ActionsAreAsShown
  <2>2. ASSUME NEW r \in RequestFor(born), Submit(r) PROVE Slot!Accept
    <3>1. r # None
      BY <2>1, RequestTyped DEF TypeOK
    <3> QED BY <2>1, <2>2, <3>1 DEF Submit, Slot!Accept, OneRequest
  <2>3. CASE PollOutcome
    <3>1. /\ active # None /\ active' = None /\ results # None /\ ~stop /\ stop' = stop
          /\ delivered' = delivered + 1 /\ accepted' = accepted
      BY <2>1, <2>3 DEF PollOutcome, OneRequest
    <3>2. phase = "answered" /\ phase' = "free"
      BY <3>1
    <3> QED BY <3>1, <3>2 DEF Slot!Deliver, Slot!Next
  <2>4. CASE PollLost
    <3>1. /\ active' = None /\ worker = "dead" /\ ~stop /\ stop' = stop /\ accepted' = accepted
          /\ delivered' = delivered + (IF active = None THEN 0 ELSE 1) /\ delivered \in Nat
      BY <2>1, <2>4 DEF PollLost, TypeOK
    <3>2. phase' = "free"
      BY <3>1
    <3>3. CASE active = None
      <4>1. phase = "free" /\ delivered' = delivered
        BY <3>1, <3>3
      <4> QED BY <3>1, <3>2, <4>1 DEF Slot!vars
    <3>4. CASE active # None
      <4>1. phase = "answered" /\ delivered' = delivered + 1
        BY <3>1, <3>4
      <4> QED BY <3>1, <3>2, <4>1 DEF Slot!Deliver, Slot!Next
    <3> QED BY <3>3, <3>4
  <2>5. CASE Drop
    <3>1. /\ ~stop /\ stop' = TRUE
          /\ UNCHANGED <<active, results, worker, accepted, delivered>>
      BY <2>5 DEF Drop
    <3>2. phase' = phase
      BY <3>1
    <3> QED BY <3>1, <3>2 DEF Slot!Close, Slot!Next
  <2>6. CASE Publish
    <3>1. /\ active # None /\ worker = "publish" /\ worker' # "dead"
          /\ UNCHANGED <<active, stop, accepted, delivered>>
      BY <2>1, <2>6 DEF Publish, OneRequest, Working
    <3>2. CASE results' = results
      <4>1. phase' = phase
        BY <3>1, <3>2
      <4> QED BY <3>1, <4>1 DEF Slot!vars
    <3>3. CASE results = None /\ results' # None
      <4>1. phase = "running" /\ phase' = "answered"
        BY <3>1, <3>3
      <4> QED BY <3>1, <4>1 DEF Slot!Answer, Slot!Next
    <3> QED BY <2>6, <3>2, <3>3 DEF Publish
  <2>7. CASE Close
    <3>1. /\ worker # "dead" /\ worker' = "dead"
          /\ UNCHANGED <<active, results, stop, accepted, delivered>>
      BY <2>7 DEF Close
    <3>2. CASE active = None \/ results # None
      <4>1. phase' = phase
        BY <3>1, <3>2
      <4> QED BY <3>1, <4>1 DEF Slot!vars
    <3>3. CASE active # None /\ results = None
      <4>1. phase = "running" /\ phase' = "answered"
        BY <3>1, <3>3
      <4> QED BY <3>1, <4>1 DEF Slot!Answer, Slot!Next
    <3> QED BY <3>2, <3>3
  <2>8. CASE /\ UNCHANGED <<active, results, stop, accepted, delivered>>
             /\ (worker # "dead" /\ worker' # "dead") \/ worker' = worker
    BY <2>8 DEF Slot!vars
  <2>9. CASE \/ Environment \/ Receive \/ Disconnect \/ Validate \/ Begin \/ Open \/ Check
             \/ Act \/ Settle \/ Release \/ Panic \/ UNCHANGED vars
    BY <2>8, <2>9 DEF Environment, Spawn, Exit, Receive, Disconnect, Validate, Begin, Open, Check,
       Act, Settle, Release, Panic, vars
  <2> QED BY <1>2, <2>2, <2>3, <2>4, <2>5, <2>6, <2>7, <2>9 DEF Next, UI, Worker, Slot!Next
<1> QED BY <1>1, <1>2, ActionsInvariant, PTL DEF Spec, Slot!Spec

-----------------------------------------------------------------------------
(* Drive sensors: the threads of the monitor *)

DriveSlot ==
  [present : BOOLEAN, retired : BOOLEAN, worker : {"idle", "reading", "ended"},
   command : BOOLEAN, result : {"none", "usable", "failed", "cancelled"}, cancel : BOOLEAN,
   pending : {"none", "fresh", "late"}, next : {"due", "retry", "sample"}, timedOut : BOOLEAN]

DrivesTyped ==
  /\ slots \in [Drives -> DriveSlot \cup {NoSlot}]
  /\ detached \in Nat /\ todo \subseteq Drives
  /\ inventoryError \in BOOLEAN /\ monitorStop \in BOOLEAN

\* A query is asked for, under way or answered, and has a flag of its own: the flag is up
\* only for a timeout or for a drive that was unplugged.
FlagIsOfTheQuery(s) ==
  /\ s.cancel => s.timedOut \/ s.retired \/ s.pending = "none" \/ s.worker = "ended"
  /\ s.pending = "none" \/ s.result # "none" =>
        s.worker = "ended" \/ (s.worker = "idle" /\ ~s.command)
  /\ s.worker = "reading" => ~s.command
  /\ s.result = "cancelled" => s.timedOut \/ s.retired \/ monitorStop

\* A worker that has ended counts too as long as its slot is there.
SlotsBounded == Cardinality(Watched) + detached <= MaxDrives

DrivesInv ==
  /\ DrivesTyped /\ SlotsBounded /\ todo \subseteq Watched
  /\ ~monitorStop => detached = 0
  /\ \A d \in Watched : FlagIsOfTheQuery(slots[d])

LEMMA SlotIsThere == ASSUME NEW s \in DriveSlot PROVE s # NoSlot
<1>1. s.worker # "none" /\ NoSlot.worker = "none"
  BY DEF DriveSlot, NoSlot
<1> QED BY <1>1

LEMMA WatchedFinite ==
  ASSUME NEW S \in SUBSET Drives PROVE IsFiniteSet(S) /\ Cardinality(S) \in Nat
BY DriveAssumption, FS_Subset, FS_CardinalityType

\* One step of a slot's worker, or of time.
LEMMA ChangeOfOneSlot ==
  ASSUME DrivesInv, NEW d \in Drives, slots[d] # NoSlot, NEW s \in DriveSlot,
         Changed(d, s), UNCHANGED <<detached, inventoryError, monitorStop>>,
         todo' \subseteq todo, FlagIsOfTheQuery(s)
  PROVE  DrivesInv'
<1>1. DrivesTyped'
  BY DEF DrivesInv, DrivesTyped, Changed
<1>2. Watched' = Watched /\ todo' \subseteq Watched'
  BY SlotIsThere DEF Watched, Changed, DrivesInv, DrivesTyped
<1>3. SlotsBounded'
  BY <1>2 DEF DrivesInv, SlotsBounded
<1>4. ASSUME NEW e \in Watched PROVE FlagIsOfTheQuery(slots[e])'
  <2>1. slots'[e] = IF e = d THEN s ELSE slots[e]
    BY DEF Watched, Changed, DrivesInv, DrivesTyped
  <2>2. FlagIsOfTheQuery(slots[e])
    BY DEF DrivesInv
  <2> QED BY <2>1, <2>2 DEF FlagIsOfTheQuery
<1> QED BY <1>1, <1>2, <1>3, <1>4 DEF DrivesInv

LEMMA WorkerKeepsBounds ==
  ASSUME DrivesInv, NEW d \in Drives,
         WorkerTakes(d) \/ WorkerAnswers(d) \/ WorkerPanics(d) \/ Elapse(d)
  PROVE  DrivesInv'
<1>0. slots[d] # NoSlot
  BY DEF WorkerTakes, WorkerAnswers, WorkerPanics, Elapse
<1>1. PICK s \in DriveSlot : s = slots[d] /\ FlagIsOfTheQuery(s)
  BY <1>0 DEF DrivesInv, DrivesTyped, Watched
<1>2. UNCHANGED <<todo, detached, inventoryError, monitorStop>>
  BY DEF WorkerTakes, WorkerAnswers, WorkerPanics, Elapse
<1>3. \E new \in DriveSlot : Changed(d, new) /\ FlagIsOfTheQuery(new)
  <2>1. CASE WorkerTakes(d)
    <3>1. CASE s.retired \/ monitorStop
      <4> DEFINE new == [s EXCEPT !.worker = "ended"]
      <4>1. new \in DriveSlot
        BY DEF DriveSlot
      <4>2. FlagIsOfTheQuery(new)
        BY <1>1 DEF DriveSlot, FlagIsOfTheQuery
      <4>3. Changed(d, new)
        BY <1>1, <2>1, <3>1 DEF WorkerTakes
      <4> QED BY <4>1, <4>2, <4>3
    <3>2. CASE ~(s.retired \/ monitorStop)
      <4> DEFINE new == [s EXCEPT !.worker = "reading", !.command = FALSE]
      <4>1. new \in DriveSlot
        BY DEF DriveSlot
      <4>2. s.command /\ s.worker = "idle" /\ Changed(d, new)
        BY <1>1, <2>1, <3>2 DEF WorkerTakes
      <4>3. FlagIsOfTheQuery(new)
        BY <1>1, <4>2 DEF DriveSlot, FlagIsOfTheQuery
      <4> QED BY <4>1, <4>2, <4>3
    <3> QED BY <3>1, <3>2
  <2>2. CASE WorkerAnswers(d)
    <3>1. PICK outcome \in ReadOutcomes(s) :
             Changed(d, [s EXCEPT !.worker = "idle", !.result = outcome])
      BY <1>1, <2>2 DEF WorkerAnswers
    <3> DEFINE new == [s EXCEPT !.worker = "idle", !.result = outcome]
    <3>2. new \in DriveSlot
      BY DEF DriveSlot, ReadOutcomes
    <3>3. s.worker = "reading"
      BY <1>1, <2>2 DEF WorkerAnswers
    <3>4. FlagIsOfTheQuery(new)
      BY <1>1, <3>3 DEF DriveSlot, FlagIsOfTheQuery, ReadOutcomes
    <3> QED BY <3>1, <3>2, <3>4
  <2>3. CASE WorkerPanics(d)
    <3> DEFINE new == [s EXCEPT !.worker = "ended"]
    <3>1. new \in DriveSlot
      BY DEF DriveSlot
    <3>2. FlagIsOfTheQuery(new)
      BY <1>1 DEF DriveSlot, FlagIsOfTheQuery
    <3> QED BY <1>1, <2>3, <3>1, <3>2 DEF WorkerPanics
  <2>4. CASE Elapse(d)
    <3>1. CASE s.pending = "fresh" /\ Changed(d, [s EXCEPT !.pending = "late"])
      <4> DEFINE new == [s EXCEPT !.pending = "late"]
      <4>1. new \in DriveSlot
        BY DEF DriveSlot
      <4>2. FlagIsOfTheQuery(new)
        BY <1>1, <3>1 DEF DriveSlot, FlagIsOfTheQuery
      <4> QED BY <3>1, <4>1, <4>2
    <3>2. CASE Changed(d, [s EXCEPT !.next = "due"])
      <4> DEFINE new == [s EXCEPT !.next = "due"]
      <4>1. new \in DriveSlot
        BY DEF DriveSlot
      <4>2. FlagIsOfTheQuery(new)
        BY <1>1 DEF DriveSlot, FlagIsOfTheQuery
      <4> QED BY <3>2, <4>1, <4>2
    <3> QED BY <1>1, <2>4, <3>1, <3>2 DEF Elapse
  <2> QED BY <2>1, <2>2, <2>3, <2>4
<1> QED BY <1>0, <1>2, <1>3, ChangeOfOneSlot

\* A turn of the monitor at a slot keeps the flag and the query together.
LEMMA TurnKeepsFlag ==
  ASSUME NEW s \in DriveSlot, FlagIsOfTheQuery(s)
  PROVE  UpdateSlot(s) \in DriveSlot /\ FlagIsOfTheQuery(UpdateSlot(s))
<1>1. PICK r \in DriveSlot : r = Received(s)
  BY DEF Received, DriveSlot
<1>2. FlagIsOfTheQuery(r)
  <2>1. CASE s.result # "none"
    <3>1. /\ r.result = "none" /\ r.pending = "none" /\ ~r.timedOut
          /\ r.retired = s.retired /\ r.cancel = s.cancel
          /\ r.worker = s.worker /\ r.command = s.command
      BY <1>1, <2>1 DEF Received, DriveSlot
    <3> QED BY <2>1, <3>1 DEF FlagIsOfTheQuery, DriveSlot
  <2>2. CASE s.result = "none"
    BY <1>1, <2>2 DEF Received, DriveSlot, FlagIsOfTheQuery
  <2> QED BY <2>1, <2>2
<1>3. PICK t \in DriveSlot : t = TimedOut(r)
  BY DEF TimedOut, DriveSlot
<1>4. FlagIsOfTheQuery(t) /\ t.result = r.result
  BY <1>2, <1>3 DEF TimedOut, DriveSlot, FlagIsOfTheQuery
<1>5. AskAgain(t) \in DriveSlot
  <2> DEFINE new == [t EXCEPT !.cancel = FALSE, !.command = TRUE, !.pending = "fresh"]
  <2>1. new \in DriveSlot
    BY DEF DriveSlot
  <2> QED BY <2>1 DEF AskAgain
<1>6. ASSUME r.result = "none" PROVE FlagIsOfTheQuery(AskAgain(t))
  <2>1. CASE t.pending = "none" /\ t.present /\ t.next = "due" /\ t.worker # "ended"
    <3> DEFINE new == [t EXCEPT !.cancel = FALSE, !.command = TRUE, !.pending = "fresh"]
    <3>1. AskAgain(t) = new
      BY <2>1 DEF AskAgain
    <3>2. t.worker = "idle" /\ t.result = "none"
      BY <1>4, <1>6, <2>1 DEF FlagIsOfTheQuery
    <3>3. FlagIsOfTheQuery(new)
      BY <3>2 DEF FlagIsOfTheQuery, DriveSlot
    <3> QED BY <3>1, <3>3
  <2> QED BY <1>4, <2>1 DEF AskAgain
<1>7. CASE (s.result = "none" /\ s.worker = "ended") \/ s.retired
  BY <1>1, <1>2, <1>7 DEF UpdateSlot
<1>8. CASE ~((s.result = "none" /\ s.worker = "ended") \/ s.retired)
  <2>1. r.result = "none"
    BY <1>1 DEF Received, DriveSlot
  <2>2. UpdateSlot(s) = AskAgain(t)
    BY <1>1, <1>3, <1>8 DEF UpdateSlot
  <2> QED BY <1>5, <1>6, <2>1, <2>2
<1> QED BY <1>7, <1>8
LEMMA UpdateKeepsBounds == ASSUME DrivesInv, NEW d \in Drives, Update(d) PROVE DrivesInv'
<1>1. slots[d] # NoSlot
  BY DEF Update, DrivesInv, Watched
<1>2. PICK s \in DriveSlot : s = slots[d] /\ FlagIsOfTheQuery(s)
  BY <1>1 DEF DrivesInv, DrivesTyped, Watched
<1>3. PICK new \in DriveSlot : new = UpdateSlot(s) /\ FlagIsOfTheQuery(new)
  BY <1>2, TurnKeepsFlag
<1>4. Changed(d, new) /\ todo' \subseteq todo
  BY <1>2, <1>3 DEF Update
<1> QED BY <1>1, <1>3, <1>4, ChangeOfOneSlot DEF Update

\* What an inventory keeps of a slot: dropped once its worker has ended, retired when its
\* drive was not found.
LEMMA KeptSlots ==
  ASSUME DrivesInv, NEW found \in SUBSET Drives, NEW d \in Drives
  PROVE  LET k == RetainedSlots(found)[d]
         IN /\ k \in DriveSlot \cup {NoSlot}
            /\ k # NoSlot => slots[d] # NoSlot /\ FlagIsOfTheQuery(k)
            /\ k = NoSlot => ~Running(slots[d])
<1>1. Marked(found)[d] = IF slots[d] = NoSlot THEN NoSlot
        ELSE LET s == [slots[d] EXCEPT !.present = d \in found]
             IN IF s.present THEN s ELSE Retire(s)
  BY DEF Marked
<1>2. RetainedSlots(found)[d] =
        IF Marked(found)[d] # NoSlot /\ ~Kept(Marked(found)[d]) THEN NoSlot ELSE Marked(found)[d]
  BY DEF RetainedSlots
<1>3. CASE slots[d] = NoSlot
  BY <1>1, <1>2, <1>3 DEF Running
<1>4. CASE slots[d] # NoSlot
  <2>1. PICK s \in DriveSlot : s = slots[d] /\ FlagIsOfTheQuery(s)
    BY <1>4 DEF DrivesInv, DrivesTyped, Watched
  <2>2. PICK there \in BOOLEAN : there = (d \in found)
    <3>1. d \in found => (d \in found) = TRUE
      BY Zenon
    <3>2. d \notin found => (d \in found) = FALSE
      BY SMT
    <3>3. (d \in found) = TRUE \/ (d \in found) = FALSE
      BY <3>1, <3>2
    <3> QED BY <3>3
  <2>3. PICK m \in DriveSlot : m = [s EXCEPT !.present = there]
    BY DEF DriveSlot
  <2>4. PICK r \in DriveSlot : r = IF there THEN m ELSE Retire(m)
    BY DEF DriveSlot, Retire
  <2>5. Marked(found)[d] = r
    BY <1>1, <1>4, <2>1, <2>2, <2>3, <2>4 DEF DriveSlot
  <2>6. FlagIsOfTheQuery(r) /\ r.worker = s.worker
    BY <2>1, <2>3, <2>4 DEF FlagIsOfTheQuery, DriveSlot, Retire
  <2>7. r # NoSlot
    BY SlotIsThere
  <2>8. CASE Kept(r)
    BY <1>2, <1>4, <2>5, <2>6, <2>7, <2>8
  <2>9. CASE ~Kept(r)
    BY <1>2, <2>1, <2>5, <2>6, <2>7, <2>9 DEF Kept, Running
  <2> QED BY <2>8, <2>9
<1> QED BY <1>3, <1>4

LEMMA InventoryKeepsBounds == ASSUME DrivesInv, Enumerate PROVE DrivesInv'
<1>1. todo' = Watched' /\ monitorStop' = monitorStop /\ Watched' \subseteq Drives
  BY DEF Enumerate, Watched
<1>2. CASE UNCHANGED <<slots, detached>> /\ inventoryError' = TRUE
  BY <1>1, <1>2 DEF DrivesInv, DrivesTyped, SlotsBounded, Watched, FlagIsOfTheQuery
<1>3. CASE \E found \in SUBSET Drives : \E listed, failing \in SUBSET found :
             TakeInventory(found, listed, failing)
  <2>1. PICK found \in SUBSET Drives : \E listed, failing \in SUBSET found :
               TakeInventory(found, listed, failing)
    BY <1>3
  <2>2. PICK listed \in SUBSET found, failing \in SUBSET found :
               TakeInventory(found, listed, failing)
    BY <2>1
  <2> DEFINE kept == RetainedSlots(found)
             requested == {d \in listed : kept[d] = NoSlot} \ failing
             there == {d \in Drives : kept[d] # NoSlot}
             left == {d \in Drives : Running(slots[d]) /\ kept[d] = NoSlot}
  <2>3. PICK new \in SUBSET requested :
               /\ Cardinality(there) + Cardinality(new) <= MaxDrives
               /\ slots' = [d \in Drives |-> IF d \in new THEN NewSlot ELSE kept[d]]
               /\ detached' = detached + Cardinality(left)
               /\ inventoryError' \in BOOLEAN
    BY <2>2 DEF TakeInventory
  <2>4. \A d \in Drives : /\ kept[d] \in DriveSlot \cup {NoSlot}
                          /\ kept[d] # NoSlot => FlagIsOfTheQuery(kept[d])
                          /\ kept[d] = NoSlot => ~Running(slots[d])
    BY KeptSlots
  <2> HIDE DEF kept
  <2>5. NewSlot \in DriveSlot /\ FlagIsOfTheQuery(NewSlot) /\ new \subseteq Drives
    BY DEF NewSlot, DriveSlot, FlagIsOfTheQuery
  <2>6. detached' = detached /\ detached \in Nat
    <3>1. left = {}
      BY <2>4
    <3> HIDE DEF left
    <3> QED BY <2>3, <3>1, FS_EmptySet DEF DrivesInv, DrivesTyped
  <2>7. Watched' \subseteq there \cup new
    BY <2>3 DEF Watched
  <2>8. DrivesTyped'
    BY <1>1, <2>3, <2>4, <2>5, <2>6 DEF DrivesInv, DrivesTyped
  <2>9. \A d \in Watched' : FlagIsOfTheQuery(slots[d])'
    <3>1. ASSUME NEW d \in Drives, slots'[d] # NoSlot PROVE FlagIsOfTheQuery(slots[d])'
      <4>1. slots'[d] = IF d \in new THEN NewSlot ELSE kept[d]
        BY <2>3
      <4>2. FlagIsOfTheQuery(slots'[d])
        BY <2>4, <2>5, <3>1, <4>1
      <4> QED BY <1>1, <4>2 DEF FlagIsOfTheQuery
    <3> QED BY <3>1 DEF Watched
  <2>10. SlotsBounded'
    <3>1. /\ IsFiniteSet(there) /\ Cardinality(there) \in Nat
          /\ IsFiniteSet(new) /\ Cardinality(new) \in Nat
      BY <2>5, WatchedFinite
    <3>2. /\ IsFiniteSet(there \cup new) /\ Cardinality(there \cap new) \in Nat
          /\ Cardinality(there \cup new)
               = Cardinality(there) + Cardinality(new) - Cardinality(there \cap new)
      BY <2>5, <3>1, WatchedFinite, FS_Union
    <3>3. Cardinality(Watched') <= Cardinality(there \cup new) /\ Cardinality(Watched') \in Nat
      BY <1>1, <2>7, <3>2, FS_Subset, WatchedFinite
    <3>4. detached = 0
      BY DEF Enumerate, DrivesInv
    <3> HIDE DEF there
    <3> QED BY <2>3, <2>6, <3>1, <3>2, <3>3, <3>4, DriveAssumption DEF SlotsBounded
  <2> QED BY <1>1, <2>6, <2>8, <2>9, <2>10 DEF DrivesInv
<1> QED BY <1>2, <1>3 DEF Enumerate

LEMMA DropKeepsBounds == ASSUME DrivesInv, DropSlots PROVE DrivesInv'
<1>1. DrivesTyped' /\ Watched' = {} /\ todo' = {}
  <2> DEFINE alive == {d \in Drives : Running(slots[d])}
  <2>1. Cardinality(alive) \in Nat
    BY WatchedFinite
  <2> HIDE DEF alive
  <2>2. detached' = detached + Cardinality(alive) /\ detached \in Nat
    BY DEF DropSlots, DrivesInv, DrivesTyped, alive
  <2>3. detached' \in Nat
    BY <2>1, <2>2
  <2> QED BY <2>3 DEF DropSlots, DrivesInv, DrivesTyped, Watched
<1>2. SlotsBounded'
  <2> DEFINE alive == {d \in Drives : Running(slots[d])}
  <2>1. alive \subseteq Watched /\ Watched \subseteq Drives /\ alive \subseteq Drives
    BY DEF Watched, Running
  <2>2. /\ Cardinality(alive) <= Cardinality(Watched)
        /\ Cardinality(alive) \in Nat /\ Cardinality(Watched) \in Nat
    BY <2>1, WatchedFinite, FS_Subset
  <2>3. Cardinality(Watched') = 0
    BY <1>1, FS_EmptySet
  <2>4. detached' = detached + Cardinality(alive) /\ detached \in Nat
    BY DEF DropSlots, DrivesInv, DrivesTyped
  <2>5. Cardinality(Watched) + detached <= MaxDrives
    BY DEF DrivesInv, SlotsBounded
  <2> HIDE DEF alive
  <2> QED BY <2>2, <2>3, <2>4, <2>5, DriveAssumption DEF SlotsBounded
<1> QED BY <1>1, <1>2 DEF DrivesInv, DropSlots

LEMMA DrivesInvariant == DriveInit /\ [][DriveNext]_driveVars => []DrivesInv
<1>1. DriveInit => DrivesInv
  <2> SUFFICES ASSUME DriveInit PROVE DrivesInv
    OBVIOUS
  <2>1. Watched = {} /\ DrivesTyped
    BY DEF DriveInit, Watched, DrivesTyped
  <2>2. Cardinality(Watched) = 0
    BY <2>1, FS_EmptySet
  <2> QED BY <2>1, <2>2, DriveAssumption DEF DriveInit, DrivesInv, SlotsBounded
<1>2. DrivesInv /\ [DriveNext]_driveVars => DrivesInv'
  <2> SUFFICES ASSUME DrivesInv, [DriveNext]_driveVars PROVE DrivesInv'
    OBVIOUS
  <2>1. CASE NextPass
    <3>1. UNCHANGED <<slots, detached, inventoryError, monitorStop>> /\ todo' = Watched
      BY <2>1 DEF NextPass
    <3>2. Watched' = Watched /\ Watched \subseteq Drives
      BY <3>1 DEF Watched
    <3> QED BY <3>1, <3>2 DEF DrivesInv, DrivesTyped, SlotsBounded, FlagIsOfTheQuery
  <2>2. CASE DropMonitor \/ UNCHANGED driveVars
    <3>1. /\ UNCHANGED <<slots, detached, inventoryError, todo>>
          /\ monitorStop' \in BOOLEAN /\ (monitorStop => monitorStop')
      BY <2>2 DEF DropMonitor, driveVars, DrivesInv, DrivesTyped
    <3>2. Watched' = Watched
      BY <3>1 DEF Watched
    <3> QED BY <3>1, <3>2 DEF DrivesInv, DrivesTyped, SlotsBounded, FlagIsOfTheQuery
  <2> QED BY <2>1, <2>2, WorkerKeepsBounds, UpdateKeepsBounds, InventoryKeepsBounds, DropKeepsBounds
        DEF DriveNext, MonitorPass
<1> QED BY <1>1, <1>2, PTL

\* However many inventories find other drives while drivers hang, the monitor runs no
\* more threads than MAX_DRIVES, and a query ends by cancellation only when it was late,
\* its drive was unplugged or the monitor closes (storage_sensors/mod.rs 300-505).
THEOREM ReadsStayBounded == DriveInit /\ [][DriveNext]_driveVars => []ReadsAreBounded
<1>1. DrivesInv => ReadsAreBounded
  <2> SUFFICES ASSUME DrivesInv PROVE ReadsAreBounded
    OBVIOUS
  <2>1. ThreadsBounded
    <3> DEFINE alive == {d \in Drives : Running(slots[d])}
    <3>1. alive \subseteq Watched /\ Watched \subseteq Drives /\ alive \subseteq Drives
      BY DEF Watched, Running
    <3>2. /\ Cardinality(alive) <= Cardinality(Watched)
          /\ Cardinality(alive) \in Nat /\ Cardinality(Watched) \in Nat
      BY <3>1, WatchedFinite, FS_Subset
    <3>3. Cardinality(Watched) + detached <= MaxDrives /\ detached \in Nat
      BY DEF DrivesInv, SlotsBounded, DrivesTyped
    <3>4. Cardinality(alive) + detached <= MaxDrives
      <4> HIDE DEF alive
      <4> QED BY <3>2, <3>3, DriveAssumption
    <3> QED BY <3>4 DEF ThreadsBounded
  <2>2. OnlyOverdueCancelled
    BY DEF OnlyOverdueCancelled, DrivesInv, FlagIsOfTheQuery
  <2> QED BY <2>1, <2>2 DEF ReadsAreBounded
<1> QED BY <1>1, DrivesInvariant, PTL
-----------------------------------------------------------------------------
(* The bridge's polls and the page that needs them *)

\* A poll that found no live page and was followed by one: the page is about to wake it.
WakeOnItsWay ==
    liveActive /\ liveAt \in {"chosen", "waiting"} /\ liveWait = "idle" /\ ~liveAsked
        => pageAt = "wake"

\* For any number of reads and polls: a page with live readings is never left to the
\* idle cadence, since whoever raises the flag that a poll has missed wakes the bridge.
THEOREM LivePagesPollFast == SpecsInit /\ [][SpecsNext]_specsVars => []VisiblePollsFast
<1>1. SpecsInit => WakeOnItsWay
  BY DEF SpecsInit, WakeOnItsWay
<1>2. WakeOnItsWay => VisiblePollsFast
  BY DEF WakeOnItsWay, VisiblePollsFast
<1>3. ASSUME WakeOnItsWay, [SpecsNext]_specsVars PROVE WakeOnItsWay'
  <2> USE <1>3 DEF WakeOnItsWay, liveVars, LiveGoes
  <2>1. CASE SectionSteps \/ PublishSection \/ SectionPanics \/ CadenceElapses
    BY <2>1 DEF SectionSteps, MarkCollecting, SectionWaits, SectionWoken, PublishSection,
                SectionPanics, CadenceElapses
  <2>2. CASE PollBridge \/ PublishBridge \/ BridgeWoken
    BY <2>2 DEF PollBridge, PublishBridge, BridgeWoken
  <2>3. CASE SwapLiveActive
    BY <2>3 DEF SwapLiveActive
  <2>4. CASE WakeBridge
    BY <2>4 DEF WakeBridge
  <2>5. CASE \/ \E p \in {"system", "overview", "other"} : Visit(p)
             \/ PreparePage \/ SkipUnstarted \/ PullSnapshot \/ NextFrame \/ Refresh \/ DropSpecs
    BY <2>5 DEF Visit, PreparePage, SkipUnstarted, PullSnapshot, NextFrame, Refresh, DropSpecs
  <2>6. CASE UNCHANGED specsVars
    BY <2>6 DEF specsVars
  <2> QED  BY <1>3, <2>1, <2>2, <2>3, <2>4, <2>5, <2>6 DEF SpecsNext
<1> QED  BY <1>1, <1>2, <1>3, PTL
=============================================================================

---------------------------- MODULE ProcessTree ----------------------------
(***************************************************************************)
(* The reviewed list of processes that "End process tree" would terminate  *)
(* (Plan::build, src/src/process_actions/tree.rs): a breadth-first walk of *)
(* one process sample from a selected process, or from every process that  *)
(* runs the same executable.                                               *)
(*                                                                         *)
(* The walk is a step function on its local variables, so that the same    *)
(* definition is iterated one loop turn per step by ProcessWalk, which     *)
(* states what a list must be, and as a whole, as Build, by EndTree.       *)
(***************************************************************************)
EXTENDS Integers, FiniteSets, Sequences

CONSTANTS
    Pids,         \* process ids
    Paths,        \* executables
    None,         \* an empty Option
    Untouchable,  \* PIDs that can_terminate refuses: the kernel's and our own
    MaxTargets    \* MAX_TARGETS

ASSUME ProcessTreeAssumption ==
    /\ Pids \subseteq Nat /\ IsFiniteSet(Pids) /\ Untouchable \subseteq Pids
    /\ None \notin Paths /\ None \notin Pids
    /\ None \notin [pid : Pids, created : Nat]
    /\ MaxTargets \in Nat

Scopes == {"SelectedTree", "AllInstances"}

\* A sampled process.  `created' is 0 and `path' None where Windows refused the
\* query; processes of one executable have the same name.
Row == [pid : Pids, parent : Pids \cup {None}, created : Nat,
        path : Paths \cup {None}, name : Paths]

Identity == [pid : Pids, created : Nat \ {0}]
Id(row) == [pid |-> row.pid, created |-> row.created]

Target == [id : Identity, parent : Identity \cup {None}]

-----------------------------------------------------------------------------
(* Where the walk starts *)

ByAge(a, b) == a.created < b.created \/ (a.created = b.created /\ a.pid < b.pid)
ByPid(a, b) == a.pid < b.pid

Arranged(set, Before(_, _)) ==
    CHOOSE s \in [1..Cardinality(set) -> set] : \A i, j \in DOMAIN s : i < j => Before(s[i], s[j])

Selected(rows, root) == {row \in rows : Id(row) = root}

SamePath(rows, root) ==
    {row \in rows : row.path # None /\ \E r \in Selected(rows, root) : row.path = r.path}

Roots(rows, root, scope) ==
    IF scope = "SelectedTree" THEN Selected(rows, root) ELSE SamePath(rows, root)

\* The early returns before the walk.
Refused(rows, root, scope) ==
    \/ \E a, b \in rows : a # b /\ a.pid = b.pid
    \/ root.created = 0 \/ Selected(rows, root) = {}
    \/ /\ scope = "AllInstances"
       /\ \E r \in Selected(rows, root) :
             r.path = None \/ \E row \in rows : row.path = None /\ row.name = r.name

Start(rows, root, scope) ==
    [pending |-> LET sorted == Arranged(Roots(rows, root, scope), ByAge)
                 IN  [i \in DOMAIN sorted |-> [row |-> sorted[i], parent |-> None]],
     seen    |-> {},
     targets |-> <<>>,
     failed  |-> Refused(rows, root, scope)]

-----------------------------------------------------------------------------
(* One turn of the loop *)

Done(walk) == walk.failed \/ walk.pending = <<>>

Children(rows, row) == {child \in rows : child.parent = row.pid}

\* Mutant: every process with this parent PID is a child.
YoungerAll(rows, row) == Children(rows, row)

\* An older process is not a child: its parent's PID was used again.
Younger(rows, row) ==
    {child \in Children(rows, row) : child.created >= row.created}

\* The errors that end the walk at its first pending row.
Refusal(rows, scope, walk) ==
    LET row == Head(walk.pending).row IN
    \/ row.created = 0
    \/ row.pid \in Untouchable
    \/ Len(walk.targets) = MaxTargets
    \/ \E child \in Children(rows, row) : child.created = 0
    \/ /\ scope = "SelectedTree"
       /\ \E child \in Younger(rows, row) : child.pid \in walk.seen \cup {row.pid}

\* The children that join the queue, by PID, each with its parent.
Descendants(rows, row, seen) ==
    LET sorted == Arranged({child \in Younger(rows, row) : child.pid \notin seen}, ByPid)
    IN  [i \in DOMAIN sorted |-> [row |-> sorted[i], parent |-> Id(row)]]

Visit(rows, scope, walk) ==
    LET entry == Head(walk.pending)
        row   == entry.row
        seen  == walk.seen \cup {row.pid}
    IN  CASE row.pid \in walk.seen -> [walk EXCEPT !.pending = Tail(@)]
          [] row.pid \notin walk.seen /\ Refusal(rows, scope, walk) ->
               [walk EXCEPT !.failed = TRUE]
          [] OTHER ->
               [pending |-> Tail(walk.pending) \o Descendants(rows, row, seen),
                seen    |-> seen,
                targets |-> Append(walk.targets, [id |-> Id(row), parent |-> entry.parent]),
                failed  |-> FALSE]

\* Plan::validate, which build applies to its own result.
PlanValid(targets) ==
    /\ Len(targets) \in 1..MaxTargets
    /\ \A i \in DOMAIN targets : targets[i].id.pid \notin Untouchable /\ targets[i].id.created # 0
    /\ \A i, j \in DOMAIN targets : i # j => targets[i].id.pid # targets[j].id.pid

\* Plan::build: the reviewed list, or None for an error.  A row enters the queue
\* at most once as a root and once as a child, which bounds the turns.
Build(rows, root, scope) ==
    LET turns == 2 * Cardinality(rows)
        walk[n \in Nat] ==
            IF n = 0 THEN Start(rows, root, scope)
            ELSE LET before == walk[n - 1]
                 IN  IF Done(before) THEN before ELSE Visit(rows, scope, before)
        end == walk[turns]
    IN  IF end.failed \/ ~PlanValid(end.targets) THEN None
        ELSE [root |-> root, scope |-> scope, targets |-> end.targets,
              path |-> (CHOOSE r \in Selected(rows, root) : TRUE).path]
=============================================================================

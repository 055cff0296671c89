---------------------------- MODULE ProcessWalk ----------------------------
(***************************************************************************)
(* The loop of Plan::build (src/src/process_actions/tree.rs), one turn per *)
(* step, over every process sample within the bounds, against a definition *)
(* of what the reviewed list should be.                                    *)
(***************************************************************************)
EXTENDS ProcessTree

CONSTANT MaxCreated    \* bound: creation times in a sample

ASSUME ProcessWalkAssumption == MaxCreated \in Nat

VARIABLES
    sampled,    \* the sample
    root,    \* the identity the user selected, in this sample or an earlier one
    scope,   \* Scope
    walk     \* pending, seen and targets; failed once an error is returned

treeVars == <<sampled, root, scope, walk>>

\* Bound: an executable whose path is known has the name of its path.
SampleRows == {r \in [parent : Pids \cup {None}, created : 0..MaxCreated,
                   path : Paths \cup {None}, name : Paths] :
               r.path # None => r.name = r.path}

SampleOf(table) ==
    { [pid |-> pid, parent |-> table[pid].parent, created |-> table[pid].created,
       path |-> table[pid].path, name |-> table[pid].name] : pid \in DOMAIN table }

TreeInit ==
    \E present \in SUBSET Pids : \E table \in [present -> SampleRows] :
        /\ sampled = SampleOf(table)
        /\ root \in {Id(row) : row \in sampled}
        /\ scope \in Scopes
        /\ walk = Start(sampled, root, scope)

Turn ==
    /\ ~Done(walk)
    /\ walk' = Visit(sampled, scope, walk)
    /\ UNCHANGED <<sampled, root, scope>>

TreeSpec == TreeInit /\ [][Turn]_treeVars

-----------------------------------------------------------------------------
(* Properties *)

Entry == [row : Row, parent : Identity \cup {None}]

TreeTypeOK ==
    /\ sampled \subseteq Row
    /\ root \in [pid : Pids, created : Nat]
    /\ scope \in Scopes
    /\ walk.pending \in Seq(Entry)
    /\ walk.seen \subseteq Pids
    /\ walk.targets \in Seq(Target)
    /\ walk.failed \in BOOLEAN

\* The reference for a finished list: the smallest set of rows that holds the roots and, with a
\* process, every younger process that names it as its parent.
Closed(family) ==
    \A row \in family, child \in sampled :
        child.parent = row.pid /\ child.created >= row.created => child \in family
Family == {row \in sampled : \A family \in SUBSET sampled :
              Roots(sampled, root, scope) \subseteq family /\ Closed(family) => row \in family}

Finished == Done(walk) /\ ~walk.failed

\* "The tree dialog starts with the selected process and its descendants": a list
\* that is offered for review names each of them once and nothing else, and the
\* walk ends within the turns of Build.
ListsTheFamily ==
    Finished => /\ {walk.targets[i].id : i \in DOMAIN walk.targets} = {Id(row) : row \in Family}
                /\ Len(walk.targets) = Cardinality(Family)
                /\ Build(sampled, root, scope).targets = walk.targets

\* The parent that terminate_tree compares with Windows is the reviewed
\* process before it in the list, and roots are the only targets without one.
ParentListedBefore ==
    \A j \in DOMAIN walk.targets :
        LET target == walk.targets[j] IN
        IF target.parent = None
        THEN \E row \in Roots(sampled, root, scope) : Id(row) = target.id
        ELSE /\ \E i \in 1..(j - 1) : walk.targets[i].id = target.parent
             /\ \E row \in sampled : Id(row) = target.id /\ row.parent = target.parent.pid

\* "Parents precede children in the reviewed traversal", whatever the scope.
ParentsPrecedeChildren ==
    Finished => \A i, j \in DOMAIN walk.targets : \A a, b \in sampled :
        /\ Id(a) = walk.targets[i].id /\ Id(b) = walk.targets[j].id
        /\ b \in Younger(sampled, a) /\ a \notin Younger(sampled, b)
        => i < j

\* The same where it matters most, and where it holds: one selected tree.
BranchParentsFirst == scope = "SelectedTree" => ParentsPrecedeChildren

\* A list is refused only for a reason: a family whose processes are all known,
\* younger than their parents and allowed is reviewed however its PIDs are used.
Reviewable ==
    /\ Cardinality(Family) <= MaxTargets
    /\ \A row \in sampled : row.path # None
    /\ \A row \in Family : row.created # 0 /\ row.pid \notin Untouchable
    /\ \A row \in Family : \A child \in Children(sampled, row) :
          child.created # 0 /\ child.created # row.created
RefusedForCause == walk.failed => ~Reviewable

\* The reviewed list is the family of the sample, in an order that terminate_tree can
\* verify, and it is refused only for a reason.
ReviewsTheFamily == TreeTypeOK /\ ListsTheFamily /\ ParentListedBefore
                    /\ BranchParentsFirst /\ RefusedForCause
=============================================================================

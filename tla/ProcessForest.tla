--------------------------- MODULE ProcessForest ---------------------------
(***************************************************************************)
(* The tree of the process table (src/src/model/process_tree.rs): the      *)
(* parent links of one sample made a forest, the rows that a search keeps, *)
(* and the order in which they are displayed.                              *)
(*                                                                         *)
(* A row is [parent, created]: the PID it names as its parent, 0 for none, *)
(* and its start, 0 where it is not known.  Of the columns only the count  *)
(* of processes is kept, and rows are sorted by PID.                        *)
(***************************************************************************)
EXTENDS Integers, FiniteSets, SequencesExt

CONSTANTS
    ForestPids,   \* the PIDs of a sample, in the order of its rows
    LastStart     \* bound: readings of the clock that start times are taken from

ASSUME ForestAssumption == ForestPids \subseteq Nat \ {0} /\ IsFiniteSet(ForestPids)

ForestRow == [parent : ForestPids \cup {0}, created : 0 .. LastStart]

-----------------------------------------------------------------------------
(* From parent links to a forest *)

ParentIsNewer(parent, child) ==
    parent.created # 0 /\ child.created # 0 /\ parent.created > child.created

\* A link counts when it names another listed process that is not newer.
Link(rows, p) ==
    LET q == rows[p].parent IN
    IF q \in DOMAIN rows \ {p} /\ ~ParentIsNewer(rows[q], rows[p]) THEN q ELSE 0

Links(rows) == [p \in DOMAIN rows |-> Link(rows, p)]

\* take() along a cycle, once round from `at' to `end'.
RECURSIVE CutCycle(_, _, _)
CutCycle(links, at, end) ==
    LET cut == [links EXCEPT ![at] = 0] IN
    IF links[at] \in {0, end} THEN cut ELSE CutCycle(cut, links[at], end)

\* One walk of detach_cycles towards the root; `walk' holds the nodes in state 1.
RECURSIVE WalkUp(_, _, _, _)
WalkUp(links, at, walk, complete) ==
    CASE at = 0 \/ at \in complete -> [links |-> links, walk |-> walk]
      [] at \in walk -> [links |-> CutCycle(links, at, at), walk |-> walk]
      [] OTHER -> WalkUp(links, links[at], walk \cup {at}, complete)

\* The next start as it would be if the nodes of a walk stayed in state 1.
DetachOpen(done, start) ==
    IF start \in done.complete THEN done
    ELSE LET open == WalkUp(done.links, start, done.complete, {}) IN
         [links |-> open.links, complete |-> open.walk]

\* detach_cycles: a walk from every node that no earlier walk completed.
DetachFrom(done, start) ==
    IF start \in done.complete THEN done
    ELSE LET walked == WalkUp(done.links, start, {}, done.complete) IN
         [links |-> walked.links, complete |-> done.complete \cup walked.walk]

PidOrder == SetToSortSeq(ForestPids, <)

DetachCycles(links) ==
    FoldLeft(DetachFrom, [links |-> links, complete |-> {}],
             SelectSeq(PidOrder, LAMBDA p : p \in DOMAIN links)).links

ChildrenIn(links, p) == {q \in DOMAIN links : links[q] = p}

\* ProcessTotals::process_count of a subtree.
RECURSIVE CountIn(_, _)
CountIn(links, p) ==
    FoldSet(LAMBDA q, n : n + CountIn(links, q), 1, ChildrenIn(links, p))

-----------------------------------------------------------------------------
(* What is displayed *)

\* A match and its ancestors are included, and its ancestors revealed.
Reveal(links, matching, seen, p) ==
    [included |-> seen.included \cup {p},
     revealed |-> IF links[p] = 0 THEN seen.revealed ELSE seen.revealed \cup {links[p]}]

RECURSIVE IncludeFrom(_, _, _, _)
IncludeFrom(links, matching, seen, p) ==
    IF p = 0 \/ p \in seen.included THEN seen
    ELSE IncludeFrom(links, matching, Reveal(links, matching, seen, p), links[p])

Context(links, matching) ==
    FoldLeft(LAMBDA seen, p : IncludeFrom(links, matching, seen, p),
             [included |-> {}, revealed |-> {}],
             SelectSeq(PidOrder, LAMBDA p : p \in DOMAIN links \cap matching))

Sorted(pids) == SetToSortSeq(pids, <)

\* The rows under `nodes', each with its depth, in the order they are displayed.
RECURSIVE RowsUnder(_, _, _, _, _)
RowsUnder(links, nodes, included, open, depth) ==
    FlattenSeq([i \in 1 .. Cardinality(nodes) |->
        LET p == Sorted(nodes)[i]
            row == <<[pid |-> p, depth |-> depth, descendants |-> CountIn(links, p) - 1,
                      expanded |-> p \in open]>> IN
        IF p \in open
        THEN row \o RowsUnder(links, ChildrenIn(links, p) \cap included, included, open,
                              depth + 1)
        ELSE row])

\* build_process_tree
BuildProcessTree(rows, matching, expanded) ==
    LET links == DetachCycles(Links(rows))
        context == Context(links, matching)
        reveal == DOMAIN rows \subseteq matching
        open == {p \in expanded \cup (IF reveal THEN {} ELSE context.revealed) :
                   p \in DOMAIN rows /\ CountIn(links, p) > 1} IN
    RowsUnder(links, ChildrenIn(links, 0) \cap context.included, context.included, open, 0)

-----------------------------------------------------------------------------
(* Every sample and search; the user expands one row after the other.        *)

VARIABLES forestRows, forestMatching, forestExpanded

forestVars == <<forestRows, forestMatching, forestExpanded>>

ForestInit ==
    /\ \E listed \in SUBSET ForestPids : forestRows \in [listed -> ForestRow]
    /\ forestMatching \in SUBSET DOMAIN forestRows
    /\ forestExpanded = {}

ForestNext ==
    /\ \E p \in DOMAIN forestRows \ forestExpanded : forestExpanded' = forestExpanded \cup {p}
    /\ UNCHANGED <<forestRows, forestMatching>>

\* The processes above p, along the links of the sample.
AboveIn(links, p) ==
    LET up[n \in Nat] == IF n = 0 THEN {links[p]} \ {0}
                         ELSE up[n - 1] \cup ({links[q] : q \in up[n - 1]} \ {0}) IN
    up[Cardinality(DOMAIN links)]

(* Whatever the links say, only the members of a cycle lose their parent, so  *)
(* that every process is counted below exactly one root, those that the      *)
(* search hides included; a row follows its parent at one level deeper and   *)
(* none is displayed twice; a search displays exactly the matches and what   *)
(* is above them, however deep they are, and without one a row is displayed  *)
(* exactly when everything above it is expanded.                             *)
ForestIsWhole ==
    LET links == Links(forestRows)
        tree == DetachCycles(links)
        displayed == BuildProcessTree(forestRows, forestMatching, forestExpanded)
        shown == {displayed[i].pid : i \in DOMAIN displayed}
        matches == DOMAIN forestRows \cap forestMatching IN
    /\ tree = [p \in DOMAIN links |-> IF p \in AboveIn(links, p) THEN 0 ELSE links[p]]
    /\ FoldSet(LAMBDA p, n : n + CountIn(tree, p), 0, ChildrenIn(tree, 0))
          = Cardinality(DOMAIN forestRows)
    /\ Cardinality(shown) = Len(displayed)
    /\ \A i \in DOMAIN displayed :
          LET parent == tree[displayed[i].pid] IN
          IF parent = 0 THEN displayed[i].depth = 0
          ELSE \E j \in 1 .. i - 1 :
                  /\ displayed[j].pid = parent /\ displayed[j].depth = displayed[i].depth - 1
                  /\ \A k \in j + 1 .. i : displayed[k].depth >= displayed[i].depth
    /\ IF matches = DOMAIN forestRows
       THEN \A p \in matches : p \in shown <=> AboveIn(tree, p) \subseteq forestExpanded
       ELSE \A p \in DOMAIN forestRows :
               (p \in matches => p \in shown)
            /\ (p \in shown => p \in matches \/ \E q \in matches : p \in AboveIn(tree, q))
=============================================================================

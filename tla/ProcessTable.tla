---------------------------- MODULE ProcessTable ----------------------------
(***************************************************************************)
(* What the process table shows (src/src/app.rs and app/tree_state.rs):    *)
(* the rows of the newest sample, filtered by the search, sorted, and as a *)
(* tree whose expanded rows are remembered by PID and start.               *)
(*                                                                         *)
(* The view is a function of the sample, the search, the order, the        *)
(* expanded rows and, sorted by state, of the suspensions; it is kept as   *)
(* the inputs it was last built from.  ProcessForest builds the tree.      *)
(*                                                                         *)
(* A row is [native, second]: the creation time, 0 where Windows refused   *)
(* the query, and the start in seconds, 0 where it is unknown.  Two        *)
(* processes may have used one PID within a second.                        *)
(***************************************************************************)
EXTENDS Integers, FiniteSets

CONSTANTS
    TablePids,     \* process ids
    LastBirth,     \* bound: processes that use one PID, one after the other
    Searches       \* what the search box may hold

ASSUME TableAssumption == LastBirth \in Nat /\ 0 \notin TablePids

Second(birth) == (birth + 1) \div 2

RowsOf(birth) == {[native |-> n, second |-> s] : n \in {birth, 0}, s \in {Second(birth), 0}}

Columns == {"Cpu", "Status"}

VARIABLES
    tableRows,      \* snapshot.processes, by PID
    births,         \* the process that every PID was last used by
    query,
    order,          \* sort_column and whether it descends
    suspensions,    \* how often the controller's suspensions changed, modulo 2
    expansion,      \* Expansion::starts, by PID
    initialized,    \* tree_initialized
    detailed,       \* the page is Details, which has a State column
    view,           \* what the view was last built from
    readAs          \* history: the creation times an expanded row was seen with

tableVars == <<tableRows, births, query, order, suspensions, expansion, initialized,
               detailed, view, readAs>>

-----------------------------------------------------------------------------
(* tree_state.rs *)

Changed(old, new) == old # 0 /\ new # 0 /\ old # new

Either(new, old) == IF new # 0 THEN new ELSE old

\* ObservedStart::continued as it would be if the newest row replaced the start.
ContinuedAs(old, new) ==
    IF Changed(old.native, new.native) \/ Changed(old.second, new.second) THEN {} ELSE {new}

\* ObservedStart::continued: what was once known is kept.
Continued(old, new) ==
    IF Changed(old.native, new.native) \/ Changed(old.second, new.second) THEN {}
    ELSE {[native |-> Either(new.native, old.native), second |-> Either(new.second, old.second)]}

\* Expansion::retain_live
RetainLive(starts, rows) ==
    LET kept == {p \in DOMAIN starts \cap DOMAIN rows : Continued(starts[p], rows[p]) # {}} IN
    [p \in kept |-> CHOOSE start \in Continued(starts[p], rows[p]) : TRUE]

Expanded(starts, p, row) == [q \in DOMAIN starts \cup {p} |-> IF q = p THEN row ELSE starts[q]]
Collapsed(starts, p) == [q \in DOMAIN starts \ {p} |-> starts[q]]

Toggled(starts, p, row) ==
    IF p \in DOMAIN starts THEN Collapsed(starts, p) ELSE Expanded(starts, p, row)

-----------------------------------------------------------------------------
(* app.rs *)

Inputs == [rows |-> tableRows, query |-> query, order |-> order,
           expanded |-> DOMAIN expansion,
           suspensions |-> IF order.column = "Status" THEN suspensions ELSE 0]

\* The suspensions belong to the inputs of a view that is sorted by state only.
RebuildVisibleProcesses == view' = Inputs'

SeenAs(starts, rows) ==
    [p \in DOMAIN starts |->
       (IF p \in DOMAIN readAs THEN readAs[p] ELSE {}) \cup ({rows[p].native} \ {0})]

TableInit ==
    /\ tableRows = << >> /\ births = [p \in TablePids |-> 0] /\ expansion = << >>
    /\ query \in Searches /\ order = [column |-> "Cpu", descends |-> TRUE]
    /\ suspensions = 0 /\ initialized = FALSE /\ detailed = FALSE /\ readAs = << >>
    /\ view = Inputs

\* accept_sample, as far as the table is concerned.  The first sample with
\* processes expands its roots: any set of them, for the parents are not kept.
AcceptTableSample ==
    /\ \E listed \in SUBSET TablePids :
         /\ births' \in [TablePids -> 0 .. LastBirth]
         /\ \A p \in TablePids : births'[p] \in births[p] .. births[p] + 1
         /\ \A p \in listed : births'[p] > 0
         /\ tableRows' \in [listed -> UNION {RowsOf(births'[p]) : p \in listed}]
         /\ \A p \in listed : tableRows'[p] \in RowsOf(births'[p])
         /\ LET retained == RetainLive(expansion, tableRows') IN
            IF initialized \/ listed = {} THEN expansion' = retained /\ UNCHANGED initialized
            ELSE /\ \E roots \in SUBSET listed : expansion' = [p \in roots |-> tableRows'[p]]
                 /\ initialized' = TRUE
    /\ readAs' = SeenAs(expansion', tableRows')
    /\ UNCHANGED <<query, order, suspensions, detailed>>
    /\ RebuildVisibleProcesses

\* The arrow of a row with children.
ToggleRow(p) ==
    /\ p \in DOMAIN tableRows /\ ~detailed
    /\ expansion' = Toggled(expansion, p, tableRows[p])
    /\ readAs' = [q \in DOMAIN expansion' |-> IF q \in DOMAIN readAs THEN readAs[q]
                                              ELSE {tableRows[q].native} \ {0}]
    /\ UNCHANGED <<tableRows, births, query, order, suspensions, initialized, detailed>>
    /\ RebuildVisibleProcesses

Search(text) ==
    /\ text # query /\ query' = text
    /\ UNCHANGED <<tableRows, births, order, suspensions, expansion, initialized, detailed, readAs>>
    /\ RebuildVisibleProcesses

\* sort_by; the State header is on the Details page only.
SortBy(column) ==
    /\ column = "Status" => detailed
    /\ order' = [column |-> column,
                 descends |-> IF order.column = column THEN ~order.descends
                              ELSE column = "Cpu"]
    /\ UNCHANGED <<tableRows, births, query, suspensions, expansion, initialized, detailed, readAs>>
    /\ RebuildVisibleProcesses

\* The other page is drawn; Processes gives up an order it has no header for.
OpenTable ==
    /\ detailed' = ~detailed
    /\ UNCHANGED <<tableRows, births, query, suspensions, expansion, initialized, readAs>>
    /\ IF ~detailed' /\ order.column = "Status"
       THEN order' = [column |-> "Cpu", descends |-> TRUE] /\ RebuildVisibleProcesses
       ELSE UNCHANGED <<order, view>>

\* ui: an outcome of the action worker may have changed the suspensions.
TakeOutcome ==
    /\ suspensions' = 1 - suspensions
    /\ UNCHANGED <<tableRows, births, query, order, expansion, initialized, detailed, readAs>>
    /\ IF order.column = "Status" THEN RebuildVisibleProcesses ELSE UNCHANGED view

TableNext ==
    \/ AcceptTableSample \/ OpenTable \/ TakeOutcome
    \/ \E p \in TablePids : ToggleRow(p)
    \/ \E text \in Searches : Search(text)
    \/ \E column \in Columns : SortBy(column)

-----------------------------------------------------------------------------
(* The table is of the sample, search, order, expanded rows and, sorted by    *)
(* state, suspensions of the moment: its indices never point into another    *)
(* sample, and no path that changes one of them leaves the old rows behind.  *)
ViewIsCurrent == view = Inputs

(* A row stays expanded for one process only: between the click and the       *)
(* row's collapse no two creation times are read for its PID, also when the  *)
(* identity of the first process could not be read in the samples between.   *)
(* ("Missing access cannot erase a previously observed identity",            *)
(* src/src/app/tree_state.rs:24.)                                            *)
ExpandedForOneProcess ==
    /\ DOMAIN readAs = DOMAIN expansion
    /\ \A p \in DOMAIN readAs : Cardinality(readAs[p]) <= 1

(* What the table shows and what it keeps open are of the processes listed.   *)
TableIsOfTheSample == ViewIsCurrent /\ ExpandedForOneProcess
=============================================================================

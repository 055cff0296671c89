---------------------------- MODULE ProcessOrder ----------------------------
(***************************************************************************)
(* The order of the processes: in the table, flat or as a tree             *)
(* (src/src/model.rs compare_processes, model/process_tree.rs              *)
(* sort_tree_indices, app.rs rebuild_visible_processes), in the history of *)
(* the App history page and in Overview's lists of the heaviest apps       *)
(* (app/overview.rs top_apps).                                             *)
(*                                                                         *)
(* One number stands for CPU, memory and the other counters that every     *)
(* process has; a GPU reading may be missing.  Two names in a row that     *)
(* differ in case only are 2n and 2n + 1.                                  *)
(***************************************************************************)
EXTENDS Integers, Sequences, FiniteSets, FiniteSetsExt, SequencesExt, Readings

CONSTANTS
  OrderPids,     \* the PIDs of a sample
  OrderKinds,    \* what a row may be beside its PID and parent
  HistoryRows,   \* truncate(12)
  TopRows        \* TOP_ROWS_MAX

OrderKind == [name : Nat, status : Nat, held : BOOLEAN, number : Nat, gpu : Usage]

ASSUME OrderAssumption ==
  /\ OrderPids \subseteq Nat \ {0} /\ IsFiniteSet(OrderPids) /\ OrderKinds \subseteq OrderKind
  /\ HistoryRows \in Nat /\ TopRows \in Nat

VARIABLES
  orderRows,     \* snapshot.processes, by PID: parent and kind
  orderColumn,   \* sort_column
  direction      \* sort_direction

orderVars == <<orderRows, orderColumn, direction>>

Listed(p) == orderRows[p].is
-----------------------------------------------------------------------------
(* Two rows compared *)

OrderColumns == {"Name", "Pid", "Status", "Number", "Gpu"}

Folded(name) == name \div 2

(* What a held process is called comes after all states of Windows.        *)
Suspended == 9
StateLabel(row) == IF row.held THEN Suspended ELSE row.status

SortKey(p, column, number, gpu, state) ==
  [pid |-> p,
   missing |-> column = "Gpu" /\ ~HasValue(gpu),
   field |-> CASE column = "Name" -> Folded(Listed(p).name) [] column = "Pid" -> p
               [] column = "Status" -> state [] column = "Gpu" -> gpu.value
               [] OTHER -> number]

Below(x, y) == x.field < y.field \/ (x.field = y.field /\ x.pid < y.pid)

(* A missing reading stays below the others in both directions.            *)
Precedes(x, y, way) ==
  IF x.missing # y.missing THEN y.missing
  ELSE IF way = "Ascending" THEN Below(x, y) ELSE Below(y, x)

(* Descending is ascending read from the end. *)
PrecedesReversed(x, y, way) ==
  LET ascending(u, v) == IF u.missing # v.missing THEN v.missing ELSE Below(u, v)
  IN IF way = "Ascending" THEN ascending(x, y) ELSE ascending(y, x)
-----------------------------------------------------------------------------
(* The flat table, and the history: the processes with the most CPU time,  *)
(* equal ones as in the table.                                             *)

FlatKey(p) == SortKey(p, orderColumn, Listed(p).number, Listed(p).gpu, StateLabel(Listed(p)))

VisibleProcesses(way) ==
  SetToSortSeq(DOMAIN orderRows, LAMBDA p, q : Precedes(FlatKey(p), FlatKey(q), way))

FirstOf(s, n) == SubSeq(s, 1, Min({n, Len(s)}))

HistoryProcesses ==
  LET table == VisibleProcesses(direction)
      place(p) == CHOOSE i \in DOMAIN table : table[i] = p
  IN FirstOf(SetToSortSeq(DOMAIN orderRows, LAMBDA p, q :
                 \/ Listed(p).number > Listed(q).number
                 \/ Listed(p).number = Listed(q).number /\ place(p) < place(q)), HistoryRows)
-----------------------------------------------------------------------------
(* The tree: siblings by the totals that are displayed; a state is the one *)
(* Windows reports.                                                        *)

ChildrenOf(p) == {q \in DOMAIN orderRows : orderRows[q].parent = p}

FromProcess(row) == [count |-> 1, number |-> row.number, gpu |-> row.gpu]

AddTotals(total, child) ==
  [count |-> total.count + child.count, number |-> total.number + child.number,
   gpu |-> SumUsage(total.gpu, child.gpu)]

Totals ==
  LET of[p \in DOMAIN orderRows] ==
        FoldSet(LAMBDA q, total : AddTotals(total, of[q]), FromProcess(Listed(p)), ChildrenOf(p))
  IN of

Siblings(p, way) ==
  LET totals == Totals
      key(q) == SortKey(q, orderColumn, totals[q].number, totals[q].gpu, Listed(q).status)
  IN SetToSortSeq(ChildrenOf(p), LAMBDA q, r : Precedes(key(q), key(r), way))
-----------------------------------------------------------------------------
(* Overview: the instances of an executable are one app.                   *)

Apps == {Folded(Listed(p).name) : p \in DOMAIN orderRows}
InstancesOf(app) == {p \in DOMAIN orderRows : Folded(Listed(p).name) = app}
Weight(app) == FoldSet(LAMBDA p, sum : sum + Listed(p).number, 0, InstancesOf(app))

Lead(app) ==
  CHOOSE p \in InstancesOf(app) : \A q \in InstancesOf(app) \ {p} :
     Listed(p).number > Listed(q).number \/ (Listed(p).number = Listed(q).number /\ p < q)

TopApps ==
  LET before(a, b) ==
        \/ Weight(a) > Weight(b)
        \/ /\ Weight(a) = Weight(b)
           /\ \/ Listed(Lead(a)).name < Listed(Lead(b)).name
              \/ Listed(Lead(a)).name = Listed(Lead(b)).name /\ Lead(a) < Lead(b)
  IN FirstOf(SetToSortSeq(Apps, before), TopRows)
-----------------------------------------------------------------------------
(* Every sample whose parents come first; the user clicks the columns.     *)

OrderInit ==
  /\ orderRows \in [OrderPids -> [parent : OrderPids \cup {0}, is : OrderKinds]]
  /\ \A p \in OrderPids : orderRows[p].parent < p
  /\ orderColumn = "Number" /\ direction = "Descending"

OtherWay == IF direction = "Ascending" THEN "Descending" ELSE "Ascending"

ClickColumn(column) ==
  /\ orderColumn' = column
  /\ direction' = IF column = orderColumn THEN OtherWay
                  ELSE IF column \in {"Name", "Pid", "Status"} THEN "Ascending" ELSE "Descending"
  /\ UNCHANGED orderRows

OrderNext == \E column \in OrderColumns : ClickColumn(column)

OrderSpec == OrderInit /\ [][OrderNext]_orderVars
-----------------------------------------------------------------------------
InTable(p) == IF orderColumn = "Gpu" THEN HasValue(Listed(p).gpu) ELSE TRUE

(* The other direction turns the table round, but the rows without a       *)
(* reading stay at its end (model.rs:350-382).                             *)
DirectionsMirror ==
  LET table == VisibleProcesses("Ascending") other == VisibleProcesses("Descending")
      read(s) == SelectSeq(s, InTable) unread(s) == SelectSeq(s, LAMBDA p : ~InTable(p))
  IN /\ other = Reverse(read(table)) \o Reverse(unread(table))
     /\ table = read(table) \o unread(table)

(* A row of the tree counts itself and all below it, a GPU reading it      *)
(* displays is missing only if all of them are, exact only if all are; and *)
(* the figures displayed decrease, or increase, down the siblings          *)
(* (process_tree.rs:47-63, 129-161).                                       *)
TreeIsOrdered ==
  LET totals == Totals
      up[n \in 0 .. Cardinality(OrderPids)] ==
        [p \in DOMAIN orderRows |->
           IF n = 0 THEN {p}
           ELSE UNION {up[n - 1][q] : q \in ChildrenOf(p)} \cup {p}]
      below == up[Cardinality(OrderPids)]
  IN /\ \A p \in DOMAIN orderRows :
          /\ totals[p].count = Cardinality(below[p])
          /\ totals[p].number = FoldSet(LAMBDA q, sum : sum + Listed(q).number, 0, below[p])
          /\ HasValue(totals[p].gpu) <=> \E q \in below[p] : HasValue(Listed(q).gpu)
          /\ totals[p].gpu.kind = "Measured" <=>
               \A q \in below[p] : Listed(q).gpu.kind = "Measured"
     /\ \A p \in DOMAIN orderRows \cup {0} :
          LET shown == Siblings(p, direction)
              figure(i) == IF orderColumn = "Gpu" THEN totals[shown[i]].gpu.value
                           ELSE totals[shown[i]].number
              hasFigure(i) == orderColumn = "Number" \/ HasValue(totals[shown[i]].gpu)
          IN orderColumn \in {"Number", "Gpu"} =>
               \A i, j \in DOMAIN shown : i < j /\ hasFigure(j) =>
                 /\ hasFigure(i)
                 /\ IF direction = "Ascending" THEN figure(i) <= figure(j)
                    ELSE figure(i) >= figure(j)

(* The heaviest apps are shown: every process counts for one app, none     *)
(* that is left out is heavier than one shown, and the heaviest instance   *)
(* stands for it; of the processes the history leaves out none has more    *)
(* CPU time than one it shows (overview.rs:949-990, app.rs:609-615).       *)
HeaviestAreShown ==
  LET shown == TopApps history == HistoryProcesses IN
  /\ FoldSet(LAMBDA app, sum : sum + Cardinality(InstancesOf(app)), 0, Apps)
        = Cardinality(DOMAIN orderRows)
  /\ Len(shown) = Min({TopRows, Cardinality(Apps)})
  /\ \A i \in DOMAIN shown :
       /\ \A app \in Apps \ {shown[j] : j \in 1 .. i} : Weight(app) <= Weight(shown[i])
       /\ \A p \in InstancesOf(shown[i]) : Listed(p).number <= Listed(Lead(shown[i])).number
  /\ \A i \in DOMAIN history : \A p \in DOMAIN orderRows \ {history[j] : j \in 1 .. i} :
       Listed(p).number <= Listed(history[i]).number

ListingIsOrdered == DirectionsMirror /\ TreeIsOrdered /\ HeaviestAreShown
=============================================================================

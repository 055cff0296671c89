--------------------------- MODULE MCProcessTrees ---------------------------
(* The Processes page.  One component runs in a behaviour: the list that is  *)
(* reviewed before a tree is ended, over every small sample; the dialog and  *)
(* its worker over processes that come and go; the forest of the table; the  *)
(* table's view; the selection and the dialogs; the order of a table and of  *)
(* the other lists of processes.  The others rest.                           *)
EXTENDS ProcessWalk, EndTree, ProcessForest, ProcessTable, ProcessPage,
        ProcessOrder

VARIABLE part

Parts == {"walk", "end", "forest", "table", "page", "order"}

treesVars == <<part, treeVars, vars, forestVars, tableVars, pageVars, orderVars>>

(* Rows with equal names, figures and states, of two apps and with GPU       *)
(* readings of every sort that the order tells apart.                        *)
Kind(name, status, held, number, gpu) ==
  [name |-> name, status |-> status, held |-> held, number |-> number, gpu |-> gpu]
SampleKinds == {Kind(2, 1, TRUE, 1, Measured(1)), Kind(3, 2, FALSE, 2, Missing("Warming")),
                Kind(4, 1, FALSE, 1, Partial(2)), Kind(4, 2, FALSE, 2, Missing("Unreported"))}

(* Executables are only compared: the process selected for the walk and the  *)
(* one that runs at the start may as well be of the first.                   *)
FirstPath == CHOOSE path \in Paths : TRUE

AnyRow == [pid |-> CHOOSE pid \in Pids : TRUE, parent |-> None, created |-> 1,
           path |-> FirstPath, name |-> FirstPath]

TreesInit ==
  /\ part \in Parts
  /\ IF part = "walk" THEN TreeInit /\ \E row \in sampled : Id(row) = root /\ row.name = FirstPath
     ELSE sampled = {AnyRow} /\ root = Id(AnyRow) /\ scope = "SelectedTree"
          /\ walk = Start(sampled, root, scope)
  /\ IF part = "forest" THEN ForestInit
     ELSE forestRows = <<>> /\ forestMatching = {} /\ forestExpanded = {}
  /\ Init /\ \A p \in Pids : procs[p] # None => procs[p].path = FirstPath
  /\ TableInit /\ (part # "table" => query = "")
  /\ PageInit
  /\ IF part = "order" THEN OrderInit
     ELSE orderRows = <<>> /\ orderColumn = "Number" /\ direction = "Descending"

Only(p, A) == part = p /\ UNCHANGED part
              /\ (p = "walk" \/ UNCHANGED treeVars)
              /\ (p = "end" \/ UNCHANGED vars)
              /\ (p = "forest" \/ UNCHANGED forestVars)
              /\ (p = "table" \/ UNCHANGED tableVars)
              /\ (p = "page" \/ UNCHANGED pageVars)
              /\ (p = "order" \/ UNCHANGED orderVars)
              /\ A

(* The walk and the expansion of a forest end, which is no deadlock.         *)
AtRest == \/ part = "walk" /\ Done(walk)
          \/ part = "forest" /\ DOMAIN forestRows \subseteq forestExpanded

TreesNext == \/ Only("walk", Turn)
             \/ Only("end", Next)
             \/ Only("forest", ForestNext)
             \/ Only("table", TableNext)
             \/ Only("page", PageNext)
             \/ Only("order", OrderNext)
             \/ AtRest /\ UNCHANGED treesVars

(* What the table lists is a forest of the whole sample and is in order.     *)
ListingIsWhole == ForestIsWhole /\ ListingIsOrdered

TreesSpec == TreesInit /\ [][TreesNext]_treesVars
=============================================================================

---------------------------- MODULE ProcessPage ----------------------------
(***************************************************************************)
(* The selected process and the dialogs that act on it (src/src/app.rs and *)
(* app/process_controls.rs).  The selection is a PID; a new sample keeps   *)
(* it while the PID's row could be the same process.  A dialog is opened   *)
(* for the identity of the selected row and keeps that identity, whatever  *)
(* happens to the selection; other dialogs may be open next to it, and a   *)
(* sample may arrive at any time.  While graphics recover no dialog is     *)
(* shown and nothing is sent.                                              *)
(*                                                                         *)
(* A row is [native, second], as in ProcessTable; what the action worker   *)
(* does with a request is ProcessActions, and the reviewed list of End     *)
(* process tree is EndTree.  Messages are left out.                        *)
(***************************************************************************)
EXTENDS Integers, Functions

CONSTANTS
    PagePids,     \* process ids
    LastProcess   \* bound: processes started

ASSUME PageAssumption == 0 \notin PagePids /\ LastProcess \in Nat

\* Creation times are given out in order; the second and third share a second.
StartedAt(native) == 1 + native \div 2

Unlisted == [native |-> 0, second |-> -1]
RowsFor(native) == {[native |-> n, second |-> s] : n \in {native, 0}, s \in {StartedAt(native), 0}}

NoTarget == [pid |-> 0, native |-> 0]
NoControl == [pid |-> 0, native |-> 0, kind |-> "none"]
Dialogs == {"end", "tree", "control"}

VARIABLES
    pageRows,       \* snapshot.processes, by PID
    lastStarted,    \* the process that last used every PID, 0 for none
    selectedPid,    \* 0 for None
    endTask,        \* pending_end_task
    endTree,        \* pending_end_tree: its root
    control,        \* pending_control_action
    editors,        \* the open editors: priority, affinity
    working,        \* the controller has an active request
    reconnecting,   \* graphics_recovering
    clickedSecond,  \* history: the second of the row that was clicked
    reviewed,       \* history: by dialog, the identity the user opened it for
    sent            \* history: the last request that was accepted

dialogVars  == <<endTask, endTree, control, editors>>
samplingVars == <<pageRows, lastStarted>>
pageVars == <<samplingVars, selectedPid, dialogVars, working, reconnecting, clickedSecond,
              reviewed, sent>>

PageInit ==
    /\ pageRows = [p \in PagePids |-> Unlisted] /\ lastStarted = [p \in PagePids |-> 0]
    /\ selectedPid = 0 /\ endTask = NoTarget /\ endTree = NoTarget /\ control = NoControl
    /\ editors = {} /\ working = FALSE /\ reconnecting = FALSE /\ clickedSecond = 0
    /\ reviewed = [d \in Dialogs |-> NoTarget] /\ sent = [dialog |-> "none", id |-> NoTarget]

-----------------------------------------------------------------------------
(* Samples and the selection *)

Youngest == CHOOSE n \in Range(lastStarted) : \A m \in Range(lastStarted) : m <= n

\* accept_sample: the selected row could be the same process.
Same(old, new) ==
    /\ new # Unlisted /\ new.second = old.second
    /\ old.native = 0 \/ new.native = 0 \/ old.native = new.native

AcceptSample ==
    /\ \/ UNCHANGED lastStarted
       \/ /\ Youngest < LastProcess
          /\ \E p \in PagePids : lastStarted' = [lastStarted EXCEPT ![p] = Youngest + 1]
    /\ \E p \in PagePids : \E row \in RowsFor(lastStarted'[p]) \cup {Unlisted} :
          /\ row # Unlisted => lastStarted'[p] > 0
          /\ \A q \in PagePids \ {p} : lastStarted'[q] = lastStarted[q]
          /\ pageRows' = [pageRows EXCEPT ![p] = row]
    /\ IF selectedPid # 0 /\ ~Same(pageRows[selectedPid], pageRows'[selectedPid])
       THEN selectedPid' = 0 /\ editors' = {} /\ clickedSecond' = 0
       ELSE UNCHANGED <<selectedPid, editors, clickedSecond>>
    /\ UNCHANGED <<endTask, endTree, control, working, reconnecting, reviewed, sent>>

SelectedRow == pageRows[selectedPid]
IsSelected == selectedPid # 0 /\ SelectedRow # Unlisted
Selection == [pid |-> selectedPid, native |-> SelectedRow.native]
Asked(kind) == [pid |-> selectedPid, native |-> SelectedRow.native, kind |-> kind]

\* A click on a row of the table or of the overview.
SelectProcess(p) ==
    /\ ~reconnecting /\ pageRows[p] # Unlisted
    /\ selectedPid' = p /\ clickedSecond' = pageRows[p].second
    /\ UNCHANGED <<samplingVars, dialogVars, working, reconnecting, reviewed, sent>>

-----------------------------------------------------------------------------
(* Opening the dialogs: without an identity there is only a message *)

Opens(dialog) == reviewed' = [reviewed EXCEPT ![dialog] = Selection]

RequestEndSelected ==
    /\ ~reconnecting /\ ~working /\ IsSelected /\ SelectedRow.native # 0
    /\ endTask' = Selection /\ endTree' = NoTarget /\ control' = NoControl
    /\ Opens("end")
    /\ UNCHANGED <<samplingVars, selectedPid, editors, working, reconnecting, clickedSecond, sent>>

RequestEndTreeSelected ==
    /\ ~reconnecting /\ ~working /\ IsSelected /\ SelectedRow.native # 0
    /\ endTree' = Selection /\ endTask' = NoTarget /\ control' = NoControl
    /\ Opens("tree")
    /\ UNCHANGED <<samplingVars, selectedPid, editors, working, reconnecting, clickedSecond, sent>>

\* suspension_controls: Suspend and Resume leave the other dialogs open.
RequestSuspension ==
    /\ ~reconnecting /\ ~working /\ IsSelected /\ SelectedRow.native # 0
    /\ control' = Asked("suspension")
    /\ Opens("control")
    /\ UNCHANGED <<samplingVars, selectedPid, endTask, endTree, editors, working,
                   reconnecting, clickedSecond, sent>>

\* The buttons "Set priority" and "CPU affinity" of the inspector.
OpenEditor(editor) ==
    /\ ~reconnecting /\ ~working /\ IsSelected /\ SelectedRow.native # 0
    /\ editors' = editors \cup {editor}
    /\ UNCHANGED <<samplingVars, selectedPid, endTask, endTree, control, working,
                   reconnecting, clickedSecond, reviewed, sent>>

\* priority_editor and affinity_editor follow the selection.  The choice is
\* for the row of that moment; without an identity the editor just closes.
ChooseInEditor(editor) ==
    /\ ~reconnecting /\ editor \in editors /\ IsSelected
    /\ editors' = editors \ {editor}
    /\ IF SelectedRow.native # 0
       THEN control' = Asked(editor) /\ Opens("control")
       ELSE UNCHANGED <<control, reviewed>>
    /\ UNCHANGED <<samplingVars, selectedPid, endTask, endTree, working, reconnecting,
                   clickedSecond, sent>>

-----------------------------------------------------------------------------
(* Confirming *)

CloseReview(dialog) == reviewed' = [reviewed EXCEPT ![dialog] = NoTarget]

\* The dialogs' check as it would be if a row of that PID were enough.
PidIsListed(target) == target.pid # 0 /\ pageRows[target.pid] # Unlisted

StillListed(target) == target.pid # 0 /\ pageRows[target.pid].native = target.native

\* submit_process_action: the controller takes the request, or it refuses and
\* the dialog stays open.
Submits(dialog, target) ==
    /\ ~reconnecting /\ ~working /\ StillListed(target)
    /\ working' = TRUE
    /\ sent' = [dialog |-> dialog, id |-> [pid |-> target.pid, native |-> target.native]]

ConfirmEndTask ==
    /\ Submits("end", endTask)
    /\ endTask' = NoTarget /\ CloseReview("end")
    /\ UNCHANGED <<samplingVars, selectedPid, endTree, control, editors, reconnecting, clickedSecond>>

ConfirmEndTree ==
    /\ Submits("tree", endTree)
    /\ endTree' = NoTarget /\ CloseReview("tree")
    /\ UNCHANGED <<samplingVars, selectedPid, endTask, control, editors, reconnecting, clickedSecond>>

ConfirmControlAction ==
    /\ Submits("control", control)
    /\ control' = NoControl /\ CloseReview("control")
    /\ UNCHANGED <<samplingVars, selectedPid, endTask, endTree, editors, reconnecting, clickedSecond>>

\* Cancel, or the dialog's close button.
CancelDialog(dialog) ==
    /\ ~reconnecting
    /\ \/ dialog = "end" /\ endTask # NoTarget /\ endTask' = NoTarget
          /\ UNCHANGED <<endTree, control, editors>>
       \/ dialog = "tree" /\ endTree # NoTarget /\ endTree' = NoTarget
          /\ UNCHANGED <<endTask, control, editors>>
       \/ dialog = "control" /\ control # NoControl /\ control' = NoControl
          /\ UNCHANGED <<endTask, endTree, editors>>
    /\ CloseReview(dialog)
    /\ UNCHANGED <<samplingVars, selectedPid, working, reconnecting, clickedSecond, sent>>

CancelEditor(editor) ==
    /\ ~reconnecting /\ editor \in editors /\ editors' = editors \ {editor}
    /\ UNCHANGED <<samplingVars, selectedPid, endTask, endTree, control, working,
                   reconnecting, clickedSecond, reviewed, sent>>

-----------------------------------------------------------------------------
(* The action worker and the renderer *)

OutcomeTaken ==
    /\ working /\ working' = FALSE
    /\ UNCHANGED <<samplingVars, selectedPid, dialogVars, reconnecting, clickedSecond, reviewed, sent>>

RendererReports ==
    /\ reconnecting' = ~reconnecting
    /\ UNCHANGED <<samplingVars, selectedPid, dialogVars, working, clickedSecond, reviewed, sent>>

PageNext ==
    \/ AcceptSample
    \/ \E p \in PagePids : SelectProcess(p)
    \/ RequestEndSelected \/ RequestEndTreeSelected \/ RequestSuspension
    \/ \E editor \in {"priority", "affinity"} :
          OpenEditor(editor) \/ ChooseInEditor(editor) \/ CancelEditor(editor)
    \/ ConfirmEndTask \/ ConfirmEndTree \/ ConfirmControlAction
    \/ \E dialog \in Dialogs : CancelDialog(dialog)
    \/ OutcomeTaken \/ RendererReports

-----------------------------------------------------------------------------
(* A request names the process its dialog was opened for, although the        *)
(* selection has moved since, and one that the newest sample still lists     *)
(* with that creation time, although its PID may have been used again; and   *)
(* nothing is sent from the picture of a lost device.  ("Pending              *)
(* confirmations keep their original target, never a reused PID",            *)
(* src/src/app.rs:451.)                                                      *)
ActsOnTheReviewed ==
    [][~working /\ working' =>
          /\ sent'.id = reviewed[sent'.dialog]
          /\ pageRows[sent'.id.pid].native = sent'.id.native
          /\ ~reconnecting]_pageVars

(* What is selected is a listed row that started in the second of the row     *)
(* that was clicked: no sample, and no sequence of samples in which the PID  *)
(* is missing, refused or used again, moves the selection to a process of    *)
(* another time.                                                             *)
SelectionKeepsItsSecond ==
    selectedPid # 0 => IsSelected /\ SelectedRow.second = clickedSecond

(* From the click on a row to the request, one process is meant.              *)
ActsOnTheClicked == []SelectionKeepsItsSecond /\ ActsOnTheReviewed
=============================================================================

------------------------------ MODULE Exporter ------------------------------
(***************************************************************************)
(* Exports (export.rs, export/file.rs): one job at a time writes a capture *)
(* of the snapshot beside the chosen file and renames it over it; the UI   *)
(* polls for the outcome.  A file is the capture it was written from and   *)
(* how many of that capture's records it holds.                            *)
(***************************************************************************)
EXTENDS Naturals

CONSTANTS Captures,    \* bound: how many exports are asked for
          Records      \* the records of a capture

ASSUME ExporterAssumption == Captures \in Nat /\ Records \in Nat \ {0}

VARIABLES
  job,         \* the capture of Exporter::job, 0 for none
  polling,     \* where poll() is
  result,      \* export_result: the outcome and the capture it is about
  captures,    \* captures taken so far
  exportStop,  \* Job::stop
  exportAt,    \* where the worker is
  outcome,     \* its outcome, once it has one
  channel,     \* what the channel holds: "none", an outcome, or "closed"
  temporary,   \* the sibling file, capture 0 for none
  destination  \* the chosen file

jobVars    == <<job, captures, exportStop>>
fileVars   == <<temporary, destination>>
exportVars == <<jobVars, polling, result, exportAt, outcome, channel, fileVars>>

File(capture, records) == [capture |-> capture, records |-> records]
Result(kind, capture)  == [kind |-> kind, capture |-> capture]
NoFile == File(0, 0)
-----------------------------------------------------------------------------
(* The UI. *)

(* Save as: refused while a job is there; the thread may fail to start.    *)
Submit ==
  /\ job = 0 /\ polling = "idle" /\ ~exportStop
  /\ captures < Captures /\ captures' = captures + 1
  /\ \/ /\ job' = captures + 1
        /\ exportAt' = "choosing" /\ outcome' = "none" /\ channel' = "none"
        /\ result' = Result("none", captures + 1)
     \/ /\ result' = Result("Failed", captures + 1)
        /\ UNCHANGED <<job, exportAt, outcome, channel>>
  /\ UNCHANGED <<polling, exportStop, fileVars>>

Answer(kind) == result' = Result(kind, job) /\ job' = 0 /\ polling' = "idle"

(* The first look into the channel.                                        *)
PollFirst ==
  /\ job # 0 /\ polling = "idle"
  /\ CASE channel = "none"   -> polling' = "empty" /\ UNCHANGED <<job, result>>
       [] channel = "closed" -> Answer("Failed")
       [] OTHER              -> Answer(channel)
  /\ UNCHANGED <<captures, exportStop, exportAt, outcome, channel, fileVars>>

Finished == exportAt = "finished"

PollFinished ==
  /\ polling = "empty"
  /\ polling' = IF Finished THEN "again" ELSE "idle"
  /\ UNCHANGED <<jobVars, result, exportAt, outcome, channel, fileVars>>

(* A send can race the first look: look again after the thread has ended.  *)
PollAgain ==
  /\ polling = "again"
  /\ Answer(IF channel \in {"none", "closed"} THEN "Failed" ELSE channel)
  /\ UNCHANGED <<captures, exportStop, exportAt, outcome, channel, fileVars>>

(* The application ends: Job::drop only asks the worker to stop.           *)
DropJob ==
  /\ ~exportStop /\ polling = "idle"
  /\ exportStop' = TRUE
  /\ UNCHANGED <<job, captures, polling, result, exportAt, outcome, channel, fileVars>>
-----------------------------------------------------------------------------
(* The worker. *)

ExportTo(from, to) == exportAt = from /\ exportAt' = to
Conclude(kind)     == exportAt' = "sending" /\ outcome' = kind

(* Temporary::drop; its removal may fail too, and is not repeated.         *)
RemoveTemporary == temporary' \in {temporary, NoFile}

(* The dialog, and the checks of the path it gave.                         *)
ChoosePath ==
  /\ exportAt = "choosing"
  /\ \/ ~exportStop /\ exportAt' = "reserving" /\ UNCHANGED outcome
     \/ Conclude("Cancelled")
     \/ Conclude("Failed")
  /\ UNCHANGED <<jobVars, polling, result, channel, fileVars>>

(* Exclusively create a sibling: a temporary that was left is not reused.  *)
ReserveTemporary ==
  /\ exportAt = "reserving"
  /\ \/ exportAt' = "writing" /\ temporary' = File(job, 0) /\ UNCHANGED outcome
     \/ Conclude("Failed") /\ UNCHANGED temporary
  /\ UNCHANGED <<jobVars, polling, result, channel, destination>>

(* What was written so far is kept when the disk refuses more.             *)
WriteRecordLoosely ==
  /\ exportAt = "writing"
  /\ \/ /\ ~exportStop /\ temporary.records < Records
        /\ temporary' = [temporary EXCEPT !.records = @ + 1]
        /\ UNCHANGED exportAt
     \/ exportAt' = "flushed" /\ UNCHANGED temporary
  /\ UNCHANGED <<jobVars, polling, result, outcome, channel, destination>>

(* encode::write stops between records; the limit or the disk may refuse.  *)
WriteRecord ==
  /\ exportAt = "writing"
  /\ \/ /\ ~exportStop /\ temporary.records < Records
        /\ temporary' = [temporary EXCEPT !.records = @ + 1]
        /\ UNCHANGED <<exportAt, outcome>>
     \/ /\ temporary.records = Records /\ exportAt' = "flushed"
        /\ UNCHANGED <<temporary, outcome>>
     \/ Conclude("Failed") /\ RemoveTemporary
  /\ UNCHANGED <<jobVars, polling, result, channel, destination>>

(* The last look at stop, then the rename that replaces the destination.   *)
ReplaceDestination ==
  /\ exportAt = "flushed"
  /\ \/ /\ ~exportStop /\ Conclude("Saved")
        /\ destination' = temporary /\ temporary' = NoFile
     \/ Conclude("Failed") /\ RemoveTemporary /\ UNCHANGED destination
  /\ UNCHANGED <<jobVars, polling, result, channel>>

SendOutcome ==
  /\ ExportTo("sending", "sent")
  /\ channel' = outcome
  /\ UNCHANGED <<jobVars, polling, result, outcome, fileVars>>

FinishThread ==
  /\ ExportTo("sent", "finished")
  /\ UNCHANGED <<jobVars, polling, result, outcome, channel, fileVars>>

(* The worker unwinds: its temporary and its sender are dropped.           *)
Panic ==
  /\ exportAt \in {"choosing", "reserving", "writing"}
  /\ exportAt' = "finished" /\ channel' = "closed"
  /\ IF exportAt = "writing" THEN RemoveTemporary ELSE UNCHANGED temporary
  /\ UNCHANGED <<jobVars, polling, result, outcome, destination>>

(* The process ends under a worker nobody waits for.                       *)
ProcessEnds ==
  /\ exportStop /\ exportAt \notin {"finished", "killed"}
  /\ exportAt' = "killed"
  /\ UNCHANGED <<jobVars, polling, result, outcome, channel, fileVars>>

ExportPoll == PollFirst \/ PollFinished \/ PollAgain
ExportWork == ReserveTemporary \/ WriteRecord \/ ReplaceDestination \/ SendOutcome \/ FinishThread
-----------------------------------------------------------------------------
ExportInit ==
  /\ job = 0 /\ polling = "idle" /\ result = Result("none", 0) /\ captures = 0
  /\ exportStop = FALSE /\ exportAt = "finished" /\ outcome = "none" /\ channel = "none"
  /\ temporary = NoFile /\ destination = File(0, Records)

ExportNext == Submit \/ ExportPoll \/ DropJob \/ ChoosePath \/ ExportWork \/ Panic \/ ProcessEnds

ExportSpec == ExportInit /\ [][ExportNext]_exportVars
-----------------------------------------------------------------------------
(* Whatever fails, panics or is stopped, the chosen file is the old one or *)
(* a whole new capture (export/file.rs:62-100).                            *)
DestinationIsWhole == destination.records = Records

(* The panel says Saved of an export exactly when the file is that         *)
(* capture, even when the outcome is sent between the poll's two looks     *)
(* (export.rs:184-204).                                                    *)
OutcomeIsTrue ==
  job = 0 /\ result.kind # "none" =>
    ((result.kind = "Saved") <=> (destination.capture = result.capture))

(* The file and what is said of it are of one capture.                     *)
ExportIsWhole == DestinationIsWhole /\ OutcomeIsTrue
=============================================================================

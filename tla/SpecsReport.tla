------------------------------ MODULE SpecsReport ------------------------------
(***************************************************************************)
(* What leaves the pages: live values resolved (specs/live.rs), the        *)
(* text and JSON reports (specs/report.rs), and the spreadsheet cells of a *)
(* snapshot export (export/encode.rs). Pure: one input is chosen,  *)
(* and written once. A nested group changes only the indentation, so a     *)
(* section is its rows; wording is left out.                               *)
(***************************************************************************)
EXTENDS Naturals, Sequences, FiniteSets, FiniteSetsExt

CONSTANTS MaxText      \* bound: characters of a cell

VARIABLES
  material,   \* what is to be written
  document    \* what was written, Unwritten before

reportVars == <<material, document>>

Unwritten == <<>>
-----------------------------------------------------------------------------
(* live.rs. A reading of the sampler: whether there was a sample, the      *)
(* datum is there, its provider is live now and it ever succeeded.         *)

LiveKinds == {"usage", "counter", "gpu", "drive", "network", "bridge"}
Readings == [kind : LiveKinds, sampled : BOOLEAN, present : BOOLEAN,
             current : BOOLEAN, ever : BOOLEAN, secret : {"a", "b"}]
Bridges  == [known : BOOLEAN, fresh : BOOLEAN, reports : BOOLEAN, finite : BOOLEAN]

LiveUnavailable == [known |-> FALSE, cached |-> FALSE, celsius |-> FALSE, source |-> FALSE]
LiveKnown  == [LiveUnavailable EXCEPT !.known = TRUE]
LiveCached == [LiveKnown EXCEPT !.cached = TRUE]
LiveDegrees == [LiveKnown EXCEPT !.celsius = TRUE]

(* counter_value *)
CounterValue(r) == IF r.current THEN LiveKnown ELSE LiveCached

(* gpu: the sensors' own freshness of 3 s, and using_cached.               *)
GpuValue(r) ==
  IF ~r.present THEN LiveUnavailable ELSE IF r.current THEN LiveDegrees ELSE LiveCached

(* drive: DriveReading::live, or the last success. *)
DriveValue(r) ==
  IF r.present /\ r.current THEN LiveDegrees
  ELSE IF r.present /\ r.ever THEN LiveCached ELSE LiveUnavailable

FromSnapshot(r) ==
  CASE r.kind = "usage"   -> IF r.sampled THEN LiveKnown ELSE LiveUnavailable
    [] r.kind = "counter" -> IF r.present THEN CounterValue(r) ELSE LiveUnavailable
    [] r.kind = "gpu"     -> GpuValue(r)
    [] r.kind = "drive"   -> DriveValue(r)
    [] r.kind = "network" -> IF r.present THEN LiveKnown ELSE LiveUnavailable
    [] OTHER              -> LiveUnavailable

(* from_bridge *)
BridgeReports(b) == b.known /\ b.fresh /\ b.reports /\ b.finite

Resolve(r, b) ==
  IF FromSnapshot(r).known THEN FromSnapshot(r)
  ELSE IF BridgeReports(b) THEN [LiveDegrees EXCEPT !.source = TRUE]
  ELSE LiveUnavailable
-----------------------------------------------------------------------------
(* report.rs. A row: its text, whether it is private, and the live key     *)
(* shown in its place; the key of a drive holds its interface path, the    *)
(* `secret' of that reading.                                               *)

NoLive == [kind |-> "none", sampled |-> FALSE, present |-> FALSE, current |-> FALSE,
           ever |-> FALSE, secret |-> "a"]

Hidden == [hidden |-> TRUE]
Words(t) == [text |-> t]

(* key_label: all of the key but a drive's path. *)
KeyLabel(r) ==
  IF r.kind = "drive" THEN [key |-> "drive"] ELSE [key |-> r.kind, of |-> r.secret]

(* summary_line, and group's rows: the private test comes first.           *)
RowText(row, b, reveal) ==
  IF row.private /\ ~reveal THEN Hidden
  ELSE IF row.live.kind # "none" THEN [live |-> Resolve(row.live, b)]
  ELSE Words(row.text)

JsonLive(r, b) == [label |-> KeyLabel(r), value |-> Resolve(r, b)]

(* The live reading of a private row is written all the same.              *)
JsonRowLive(row, b, reveal) ==
  IF row.live.kind # "none" THEN [live |-> JsonLive(row.live, b)]
  ELSE IF row.private /\ ~reveal THEN Hidden
  ELSE Words(row.text)

(* json_group, json_value *)
JsonRow(row, b, reveal) ==
  IF row.live.kind # "none"
  THEN IF row.private /\ ~reveal THEN [live |-> Hidden] ELSE [live |-> JsonLive(row.live, b)]
  ELSE IF row.private /\ ~reveal THEN Hidden ELSE Words(row.text)

(* What a reader of the file without private values may tell apart.        *)
PublicPart(row) ==
  IF row.private THEN [private |-> TRUE, hasLive |-> row.live.kind # "none"]
  ELSE IF row.live.kind = "drive"
       THEN [text |-> row.text, live |-> [row.live EXCEPT !.secret = "a"]]
       ELSE [text |-> row.text, live |-> row.live]
-----------------------------------------------------------------------------
(* cell: the quote doubled, a quote put before what a spreadsheet would    *)
(* take for a formula. Characters stand for their classes.                 *)
Characters == {"x", "quote", "=", "blank", "newline"}
Doubled(c) == IF c = "quote" THEN <<"quote", "quote">> ELSE <<c>>

Escaped(text) ==
  LET upto[n \in 0 .. Len(text)] == IF n = 0 THEN <<>> ELSE upto[n - 1] \o Doubled(text[n])
  IN  upto[Len(text)]

Blanks == {"blank", "newline"}
Trimmed(text) ==
  LET printed == {i \in DOMAIN text : text[i] \notin Blanks}
  IN  IF printed = {} THEN <<>> ELSE SubSeq(text, Min(printed), Len(text))

Dangerous(text) ==
  LET bare == Trimmed(text)
  IN (bare # <<>> /\ bare[1] = "=") \/ (text # <<>> /\ text[1] = "newline")

Cell(text) ==
  <<"quote">> \o (IF Dangerous(text) THEN <<"'">> ELSE <<>>) \o Escaped(text) \o <<"quote">>

(* A reader of CSV: what stands between the outer quotes, a doubled quote  *)
(* for one; it gives up on a quote that stands alone inside.               *)
NothingRead == [text |-> <<>>, quoted |-> FALSE, readable |-> TRUE]

ReadOn(read, c) ==
  IF c = "quote" THEN [read EXCEPT !.quoted = ~@,
                                   !.text = IF read.quoted THEN Append(@, "quote") ELSE @]
  ELSE [read EXCEPT !.readable = @ /\ ~read.quoted, !.text = Append(@, c)]

Unescaped(text) ==
  LET after[n \in 0 .. Len(text)] == IF n = 0 THEN NothingRead ELSE ReadOn(after[n - 1], text[n])
  IN  after[Len(text)]

ReadCell(cell) == Unescaped(SubSeq(cell, 2, Len(cell) - 1))
-----------------------------------------------------------------------------
Texts == UNION {[1..n -> Characters] : n \in 0..MaxText}
Rows == [text : {"a", "b"}, private : BOOLEAN,
         live : {NoLive} \cup {r \in Readings : r.sampled /\ r.kind \in {"drive", "network"}}]

Whole == [known |-> TRUE, fresh |-> TRUE, reports |-> TRUE, finite |-> TRUE]

(* Two rows that a reader may not tell apart, a reading, or a cell.        *)
ReportInit ==
  /\ \/ \E row, other \in Rows :
          /\ PublicPart(row) = PublicPart(other)
          /\ material = [rows |-> <<row, other>>]
     \/ \E r \in Readings, b \in Bridges : material = [reading |-> r, bridge |-> b]
     \/ \E text \in Texts : material = [cell |-> text]
  /\ document = Unwritten

WriteRows ==
  /\ document = Unwritten /\ "rows" \in DOMAIN material
  /\ document' = [i \in {1, 2} |-> <<RowText(material.rows[i], Whole, FALSE),
                                    JsonRow(material.rows[i], Whole, FALSE)>>]
  /\ UNCHANGED material

WriteLive ==
  /\ document = Unwritten /\ "reading" \in DOMAIN material
  /\ document' = <<Resolve(material.reading, material.bridge)>>
  /\ UNCHANGED material

WriteCell ==
  /\ document = Unwritten /\ "cell" \in DOMAIN material
  /\ document' = Cell(material.cell)
  /\ UNCHANGED material

ReportNext == WriteRows \/ WriteLive \/ WriteCell

Written(kind) == kind \in DOMAIN material /\ document # Unwritten
-----------------------------------------------------------------------------
(* Without reveal nothing private can be told from a report: two rows that *)
(* differ only in what is private, or in a drive's interface path, are     *)
(* written alike, as text and as JSON, live readings included.             *)
PrivateStaysOut == Written("rows") => document[1] = document[2]

(* A counter, GPU or drive value that is not of a live provider is marked  *)
(* as cached and never carries a temperature band; one of the bridge is    *)
(* used only when the bridge answers now.                                  *)
OldIsMarked ==
  Written("reading") =>
    LET value == document[1]
        r     == material.reading
    IN value.known /\ ~value.cached /\ r.kind \in {"counter", "gpu", "drive", "bridge"}
         => IF value.source THEN BridgeReports(material.bridge) ELSE r.current

(* A spreadsheet that reads a cell back gets the text it was made from,    *)
(* at most with one apostrophe before it, and never a formula.             *)
CellsReadBack ==
  Written("cell") =>
    LET cell == ReadCell(document)
        read == cell.text
    IN /\ cell.readable /\ ~cell.quoted
       /\ read = material.cell \/ read = <<"'">> \o material.cell
       /\ Trimmed(read) # <<>> => Trimmed(read)[1] # "="

(* What a report tells its reader is neither private, nor older than it    *)
(* says, nor another text than the one that was collected.                 *)
ReportIsFaithful == PrivateStaysOut /\ OldIsMarked /\ CellsReadBack
=============================================================================

----------------------------- MODULE FailureLog -----------------------------
(***************************************************************************)
(* The failure log (failure.rs): several instances of the program append   *)
(* to one rolling file, each from its panic hook and from a background     *)
(* writer with a bounded queue.  The file is rewritten in place, so an     *)
(* instance that ends in the middle leaves what it wrote over what was     *)
(* there.  A cell is a part of a line; the last part ends the line.        *)
(***************************************************************************)
EXTENDS Integers, Sequences, FiniteSets, SequencesExt

CONSTANTS Instances,    \* the running programs
          MaxRecords,   \* MAX_RECORDS
          MaxPending,   \* MAX_PENDING
          MaxSize,      \* bound: the parts of the longest record
          LastRecord,   \* bound: how many failures occur
          Nobody        \* no instance

ASSUME FailureLogAssumption ==
  MaxRecords \in Nat \ {0} /\ MaxPending \in Nat /\ MaxSize \in Nat \ {0}
  /\ LastRecord \in Nat /\ Nobody \notin Instances

VARIABLES
  log,         \* the file
  locked,      \* the instance whose handle holds the file's lock
  queue,       \* the background writer's channel, of each instance
  writer,      \* what its append is doing: Recorder::writing and the job
  failures,    \* failures so far
  appended,    \* history: the records whose append wrote the whole line
  damaged      \* history: a rewrite that moved or began the records was cut short

logVars == <<log, locked, queue, writer, failures, appended, damaged>>

LogCell(id, part, last) == [id |-> id, part |-> part, last |-> last]

(* A record is named by its last cell.                                     *)
Cells(record) == [i \in 1 .. record.part |-> LogCell(record.id, i, i = record.part)]
Header == <<LogCell(0, 1, FALSE), LogCell(0, 2, TRUE)>>

Idle == [at |-> "idle", record |-> LogCell(0, 0, TRUE), output |-> <<>>, written |-> 0,
         moves |-> FALSE]
-----------------------------------------------------------------------------
(* Reading. *)

Body(file) == SubSeq(file, Len(Header) + 1, Len(file))

LineEnds(body) == {i \in DOMAIN body : body[i].last}

(* A line that is one record, not pieces of two.                           *)
WholeLine(body, end) ==
  LET start == 1 + Max({0} \cup {i \in LineEnds(body) : i < end})
  IN  \A i \in start .. end : body[i].id = body[end].id /\ body[i].part = i - start + 1

(* The complete lines; an incomplete final one is dropped.                 *)
Lines(file) ==
  LET body == Body(file)
      upto[n \in 0 .. Len(body)] ==
        IF n = 0 THEN <<>> ELSE IF body[n].last THEN Append(upto[n - 1], body[n]) ELSE upto[n - 1]
  IN  upto[Len(body)]

Readable(file) ==
  \/ file = <<>>
  \/ /\ IsPrefix(Header, file)
     /\ \A end \in LineEnds(Body(file)) : WholeLine(Body(file), end)
     /\ Len(Lines(file)) <= MaxRecords

Newest(n, records) == SubSeq(records, 1 + Max({0, Len(records) - n}), Len(records))

(* The header and a line of each record.                                   *)
Laid(records) ==
  LET upto[n \in 0 .. Len(records)] == IF n = 0 THEN Header ELSE upto[n - 1] \o Cells(records[n])
  IN  upto[Len(records)]

(* The newest complete lines and the new record.                           *)
Output(file, record) == Laid(Append(Newest(MaxRecords - 1, Lines(file)), record))

(* The rewrite is more than an append: it begins the file or drops lines.  *)
Moves(file) == file = <<>> \/ Len(Lines(file)) >= MaxRecords
-----------------------------------------------------------------------------
NewRecord(size) == LogCell(failures + 1, size, TRUE)

(* A failure of an instance: BackgroundRecorder::record drops it when the  *)
(* queue is full, the panic hook appends at once unless an append of its   *)
(* own instance is running.                                                *)
Enqueue(i) ==
  /\ failures < LastRecord /\ failures' = failures + 1
  /\ \E size \in 1 .. MaxSize :
       queue' = [queue EXCEPT ![i] =
                   IF Len(@) < MaxPending THEN Append(@, NewRecord(size)) ELSE @]
  /\ UNCHANGED <<log, locked, writer, appended, damaged>>

Append1(i, record) == writer' = [writer EXCEPT ![i] = [Idle EXCEPT !.at = "open", !.record = record]]

RecordPanic(i) ==
  /\ failures < LastRecord /\ failures' = failures + 1
  /\ IF writer[i].at = "idle"
     THEN \E size \in 1 .. MaxSize : Append1(i, NewRecord(size))
     ELSE UNCHANGED writer
  /\ UNCHANGED <<log, locked, queue, appended, damaged>>

(* The background writer takes its next record; while a panic is being     *)
(* recorded the swap of `writing` drops it.                                *)
TakeRecord(i) ==
  /\ queue[i] # <<>>
  /\ queue' = [queue EXCEPT ![i] = Tail(@)]
  /\ IF writer[i].at = "idle" THEN Append1(i, Head(queue[i])) ELSE UNCHANGED writer
  /\ UNCHANGED <<log, locked, failures, appended, damaged>>

Stop(i) == writer' = [writer EXCEPT ![i] = Idle]

(* The file is opened and read whoever holds its lock.                     *)
OpenLogUnlocked(i) ==
  /\ writer[i].at = "open"
  /\ locked' = i /\ writer' = [writer EXCEPT ![i].at = "read"]
  /\ UNCHANGED <<log, queue, failures, appended, damaged>>

(* open_log and try_lock; nobody waits for the lock.                       *)
OpenLog(i) ==
  /\ writer[i].at = "open"
  /\ \/ Stop(i) /\ UNCHANGED locked
     \/ /\ locked = Nobody /\ locked' = i
        /\ writer' = [writer EXCEPT ![i].at = "read"]
  /\ UNCHANGED <<log, queue, failures, appended, damaged>>

(* A file that is not a log is preserved unchanged.                        *)
ReadLog(i) ==
  /\ writer[i].at = "read"
  /\ IF Readable(log)
     THEN /\ writer' = [writer EXCEPT ![i].at = "write",
                                      ![i].output = Output(log, writer[i].record),
                                      ![i].moves = Moves(log)]
          /\ UNCHANGED locked
     ELSE Stop(i) /\ locked' = Nobody
  /\ UNCHANGED <<log, queue, failures, appended, damaged>>

(* write_all from the start of the file, a part at a time.                 *)
WritePart(i) ==
  LET job == writer[i] IN
  /\ job.at = "write" /\ job.written < Len(job.output)
  /\ log' = SubSeq(job.output, 1, job.written + 1) \o SubSeq(log, job.written + 2, Len(log))
  /\ writer' = [writer EXCEPT ![i].written = @ + 1]
  /\ UNCHANGED <<locked, queue, failures, appended, damaged>>

SetLen(i) ==
  /\ writer[i].at = "write" /\ writer[i].written = Len(writer[i].output)
  /\ log' = writer[i].output
  /\ appended' = Append(appended, writer[i].record)
  /\ locked' = Nobody /\ Stop(i)
  /\ UNCHANGED <<queue, failures, damaged>>

(* An instance ends, or its write fails: the lock is released with its     *)
(* handle, the file stays as it is.  (Idle instances start again.)         *)
Interrupt(i) ==
  LET job == writer[i] IN
  /\ \/ queue' = [queue EXCEPT ![i] = <<>>]
     \/ UNCHANGED queue
  /\ locked' = IF locked = i THEN Nobody ELSE locked
  /\ Stop(i)
  /\ damaged' = (damaged \/ (job.moves /\ job.written > 0))
  /\ appended' = IF job.at = "write" /\ job.written = Len(job.output)
                 THEN Append(appended, job.record) ELSE appended
  /\ UNCHANGED <<log, failures>>
-----------------------------------------------------------------------------
LogInit ==
  /\ log = <<>> /\ locked = Nobody
  /\ queue = [i \in Instances |-> <<>>] /\ writer = [i \in Instances |-> Idle]
  /\ failures = 0 /\ appended = <<>> /\ damaged = FALSE

LogNext == \E i \in Instances :
  \/ Enqueue(i) \/ RecordPanic(i) \/ TakeRecord(i) \/ OpenLog(i) \/ ReadLog(i)
  \/ WritePart(i) \/ SetLen(i) \/ Interrupt(i)

LogSpec == LogInit /\ [][LogNext]_logVars
-----------------------------------------------------------------------------
(* Between appends, of any instance, the file is readable and holds the    *)
(* newest records that were written, in their order - also after appends   *)
(* that were cut short, as long as none was cut short while it began the   *)
(* file or moved its lines (failure.rs:263-325).                           *)
KeepsTheNewest ==
  ~damaged /\ locked = Nobody =>
    /\ Readable(log)
    /\ Lines(log) = Newest(MaxRecords, appended)
=============================================================================

----------------------------- MODULE JournalFile ------------------------------
(***************************************************************************)
(* One journal file (renamewright-platform/src/journal.rs) and the         *)
(* processes of the application that create, inspect, resume and append to *)
(* it, while other programs may rewrite it and power may be lost.          *)
(*                                                                         *)
(* A file is a sequence of cells.  A frame takes two cells for its header  *)
(* and, unless the record has no fields, one for its payload, so a file    *)
(* can end inside a header and inside a payload.  A checksum is the tuple  *)
(* of what it covers.  Entries and identities are left out of the records; *)
(* what appends do is left to any record the protocol accepts next, and    *)
(* what a reconciliation writes to what it observes.                       *)
(***************************************************************************)
EXTENDS ExecutionProtocol, SequencesExt

CONSTANTS
  Processes,       \* instances of the application
  Nobody,          \* holder of a free lock
  Records,         \* records a transaction may consist of
  EarlierFiles,    \* what an older version may have left: [version, records]
  MaxSequence,     \* u64::MAX of a sequence number
  MaxFileCells,    \* MAX_JOURNAL_FILE_BYTES
  MaxDisturbances  \* bound: how often other programs rewrite the file or move
                   \* the source of the prepared step, and power is lost

ASSUME NobodyAssumption == Nobody \notin Processes
ASSUME JournalBoundsAssumption ==
  {MaxSequence, MaxFileCells, MaxDisturbances} \subseteq Nat

SchemaVersion == 6        \* JOURNAL_SCHEMA_VERSION
Supported     == 1..6     \* MIN_SUPPORTED_JOURNAL_SCHEMA_VERSION..
Resumable     == 5..6     \* MIN_RESUMABLE_JOURNAL_SCHEMA_VERSION..

VARIABLES
  exists, content, \* the file: its directory entry and its cells
  synced,          \* cells a loss of power cannot take
  lock,            \* holder of the file's exclusive lock
  pc,              \* of each process
  memory,          \* records a writer or an authorization has read or appended
  schema,          \* schema version a writer encodes with
  shown,           \* bytes of an authorization
  poisoned,        \* of a writer
  unwritten,       \* cells of the frame that is being written
  pending,         \* its record, and whether it is to be synchronized
  place,           \* where the source of the prepared step is
  acknowledged,    \* history: records appended durably with Ok
  changed,         \* history: the file was rewritten since a writer took it
  since,           \* history: places of the source since a writer took the file
  inspected,       \* the disposition an inspection found
  rewrites, moves, losses   \* disturbances so far

file     == <<exists, content, synced>>
writer   == <<memory, schema, poisoned, unwritten, pending>>
snapshot == <<shown, inspected>>
names    == <<place, moves>>
history  == <<acknowledged, changed, since>>
counters == <<rewrites, losses>>
vars == <<file, lock, pc, writer, snapshot, names, history, counters>>

-----------------------------------------------------------------------------
(***************************************************************************)
(* Frames: encode_frame_for_version, decode_journal, inspect_journal.      *)
(***************************************************************************)
PayloadCells(r) == IF r.type \in {"TransactionCompleted", "TransactionRolledBack"} THEN 0 ELSE 1

HeadCell(v, r)    == [cell |-> "head", version |-> v, type |-> r.type]
TailCell(v, q, r) == [cell |-> "tail", sequence |-> q, length |-> PayloadCells(r),
                      checksum |-> <<v, q, r>>]
PayloadCell(r)    == [cell |-> "payload", record |-> r]
Junk              == [cell |-> "junk"]

\* encode_record refuses a batch before schema 6.
Encodable(v, r) == r.type = "ForwardBatchPrepared" => v >= 6

EncodeFrame(v, q, r) ==
  <<HeadCell(v, r), TailCell(v, q, r)>> \o (IF PayloadCells(r) = 0 THEN << >>
                                                                    ELSE <<PayloadCell(r)>>)

EncodeJournal(v, records) ==
  FlattenSeq([i \in 1..Len(records) |-> EncodeFrame(v, i - 1, records[i])])

\* The record of a frame without fields is known by its kind.
RecordAt(bytes, o) ==
  IF bytes[o + 1].length = 0 THEN Rec(bytes[o].type, 0, 0) ELSE bytes[o + 2].record

\* The first error decode_journal meets in the frame at offset o, in its
\* order, or "none".
FrameIssue(bytes, o, version, count) ==
  LET remaining == Len(bytes) - o + 1
      head == bytes[o]
      tail == bytes[o + 1]
  IN  IF remaining < 2 THEN "TruncatedHeader"
      ELSE IF head.cell # "head" THEN "InvalidMagic"
      ELSE IF head.version \notin Supported THEN "UnsupportedVersion"
      ELSE IF count > 0 /\ head.version # version THEN "MixedVersion"
      ELSE IF tail.cell # "tail" \/ tail.sequence # count THEN "SequenceMismatch"
      ELSE IF remaining < 2 + tail.length THEN "TruncatedPayload"
      ELSE IF tail.length = 1 /\ bytes[o + 2].cell # "payload" THEN "ChecksumMismatch"
      ELSE IF tail.checksum # <<head.version, count, RecordAt(bytes, o)>> THEN "ChecksumMismatch"
      ELSE "none"

\* The loop of decode_journal, for k rounds: every one takes the frame at
\* the offset or finds an issue with it.
NoFrames == [offset |-> 1, version |-> 0, records |-> << >>, issue |-> "none"]

NextFrame(bytes, read) ==
  IF read.issue # "none" \/ read.offset > Len(bytes) THEN read
  ELSE LET issue == FrameIssue(bytes, read.offset, read.version, Len(read.records))
       IN  IF issue # "none" THEN [read EXCEPT !.issue = issue]
           ELSE [offset  |-> read.offset + 2 + bytes[read.offset + 1].length,
                 version |-> bytes[read.offset].version,
                 records |-> Append(read.records, RecordAt(bytes, read.offset)),
                 issue   |-> "none"]

\* What has been read after k rounds, as a set of one (TLC evaluates its
\* element once).
InspectFrames(bytes) ==
  LET read[k \in 0..Len(bytes)] ==
        IF k = 0 THEN {NoFrames} ELSE {NextFrame(bytes, r) : r \in read[k - 1]}
  IN  read

\* The frames up to the first issue: inspect_journal, and decode_journal
\* where no issue is an Ok.  A frame has at least two cells, so the loop has
\* ended by now.
InspectJournal(bytes) == CHOOSE r \in InspectFrames(bytes)[Len(bytes)] : TRUE

\* The record a disposition calls for.
ReconcileRecord(m, disposition) ==
  Rec(IF m.phase = "forward"
      THEN IF disposition = "after" THEN "ForwardStepCompleted" ELSE "ForwardStepNotApplied"
      ELSE IF disposition = "after" THEN "RollbackStepCompleted" ELSE "RollbackStepNotApplied",
      PreparedStep(m), 0)

\* A transaction has a header and what reconciles any of its steps; the two
\* records without fields have none; and earlier versions wrote what this one
\* can read and replay.
ASSUME RecordsAssumption ==
  /\ Header \in Records
  /\ \A m \in Modes, disposition \in {"before", "after"} :
       ReconciliationRequired(m) => ReconcileRecord(m, disposition) \in Records
  /\ \A r \in Records : /\ r.step \in Nat /\ r.count \in Nat
                        /\ PayloadCells(r) = 0 => r = Rec(r.type, 0, 0)
ASSUME EarlierFilesAssumption ==
  \A f \in EarlierFiles : f.version \in Supported /\ f.records \in Seq(Records) /\ Legal(f.records)

-----------------------------------------------------------------------------
Blank == [record |-> Header, synchronize |-> FALSE]

Init ==
  /\ \/ exists = FALSE /\ content = << >>
     \/ exists = TRUE /\ content \in {EncodeJournal(f.version, f.records) : f \in EarlierFiles}
  /\ synced = Len(content) /\ acknowledged = Len(InspectJournal(content).records)
  /\ lock = Nobody
  /\ pc = [p \in Processes |-> "idle"]
  /\ memory = [p \in Processes |-> << >>] /\ schema = [p \in Processes |-> 0]
  /\ shown = [p \in Processes |-> << >>] /\ inspected = [p \in Processes |-> "none"]
  /\ poisoned = [p \in Processes |-> FALSE]
  /\ unwritten = [p \in Processes |-> << >>] /\ pending = [p \in Processes |-> Blank]
  /\ place = "before"
  /\ changed = [p \in Processes |-> FALSE] /\ since = [p \in Processes |-> {}]
  /\ rewrites = 0 /\ moves = 0 /\ losses = 0

Goto(p, s) == pc' = [pc EXCEPT ![p] = s]

\* A process lets go of the file: its handle closes and with it the lock.
Close(p) ==
  /\ Goto(p, "idle") /\ lock' = IF lock = p THEN Nobody ELSE lock
  /\ memory' = [memory EXCEPT ![p] = << >>] /\ schema' = [schema EXCEPT ![p] = 0]
  /\ shown' = [shown EXCEPT ![p] = << >>] /\ inspected' = [inspected EXCEPT ![p] = "none"]
  /\ poisoned' = [poisoned EXCEPT ![p] = FALSE]
  /\ unwritten' = [unwritten EXCEPT ![p] = << >>] /\ pending' = [pending EXCEPT ![p] = Blank]
  /\ changed' = [changed EXCEPT ![p] = FALSE] /\ since' = [since EXCEPT ![p] = {}]

\* A process has become the writer after records it has read or none.
BecomeWriter(p, records, version) ==
  /\ memory' = [memory EXCEPT ![p] = records] /\ schema' = [schema EXCEPT ![p] = version]
  /\ poisoned' = [poisoned EXCEPT ![p] = FALSE]
  /\ changed' = [changed EXCEPT ![p] = FALSE] /\ since' = [since EXCEPT ![p] = {place}]

\* append_record begins to write a frame after the records so far.
StartFrame(p, r, synchronize, version, records) ==
  /\ Goto(p, "writing")
  /\ unwritten' = [unwritten EXCEPT ![p] = EncodeFrame(version, Len(records), r)]
  /\ pending' = [pending EXCEPT ![p] = [record |-> r, synchronize |-> synchronize]]

-----------------------------------------------------------------------------
(***************************************************************************)
(* JournalWriter::create_new: the file, its lock, and the header.  Another *)
(* process may lock the file between the first two.                        *)
(***************************************************************************)
CreateNew(p) ==
  /\ pc[p] = "idle" /\ ~exists
  /\ exists' = TRUE /\ Goto(p, "created")
  /\ UNCHANGED <<content, synced, lock, writer, snapshot, names, history, counters>>

\* Mutant: an opened file is not locked.
TryLockNothing(p) == lock' = lock

TryLock(p) == lock = Nobody /\ lock' = p

LockCreated(p) ==
  /\ pc[p] = "created" /\ TryLock(p)
  /\ BecomeWriter(p, << >>, SchemaVersion)
  /\ StartFrame(p, Header, TRUE, SchemaVersion, << >>)
  /\ UNCHANGED <<file, snapshot, names, acknowledged, counters>>

LockCreatedFails(p) ==
  /\ pc[p] = "created" /\ lock # Nobody /\ Close(p)
  /\ UNCHANGED <<file, names, acknowledged, counters>>

(***************************************************************************)
(* An existing file is opened and locked, then read.                       *)
(***************************************************************************)
LockExisting(p) ==
  /\ pc[p] = "idle" /\ exists /\ TryLock(p) /\ Goto(p, "locked")
  /\ UNCHANGED <<file, writer, snapshot, names, history, counters>>

\* What open and resume ask of the file: its size, every frame, a header of
\* a version they take (one that carries the authority of the parents), and
\* records that replay.
Accepted(read, versions) ==
  /\ Len(content) <= MaxFileCells /\ read.issue = "none" /\ read.records # << >>
  /\ read.version \in versions /\ Legal(read.records)

\* AuthorizedJournal::open and the inspection made of it: a prepared step's
\* disposition is shown to the user.
OpenAuthorized(p) ==
  LET read == InspectJournal(content) IN
  /\ pc[p] = "locked" /\ Accepted(read, {SchemaVersion})
  /\ Goto(p, "authorized")
  /\ memory' = [memory EXCEPT ![p] = read.records] /\ schema' = [schema EXCEPT ![p] = read.version]
  /\ shown' = [shown EXCEPT ![p] = content]
  /\ inspected' = [inspected EXCEPT ![p] = IF ReconciliationRequired(Replayed(read.records))
                                           THEN place ELSE "none"]
  /\ UNCHANGED <<file, lock, poisoned, unwritten, pending, names, history, counters>>

\* A reconciliation has one record to write, the others what they execute.
WriterStep(p) == IF inspected[p] = "none" THEN "writer" ELSE "reconcile"

\* AuthorizedJournal::into_writer, after the user has confirmed:
\* verify_content, and a transaction that is not over.
IntoWriter(p) ==
  /\ pc[p] = "authorized" /\ content = shown[p] /\ ~Terminal(Replayed(memory[p]))
  /\ Goto(p, WriterStep(p)) /\ BecomeWriter(p, memory[p], schema[p])
  /\ shown' = [shown EXCEPT ![p] = << >>]
  /\ UNCHANGED <<file, lock, unwritten, pending, inspected, names, acknowledged, counters>>

\* JournalWriter::resume: a writer at once, in the schema of the file.
Resume(p) ==
  LET read == InspectJournal(content) IN
  /\ pc[p] = "locked" /\ Accepted(read, Resumable) /\ ~Terminal(Replayed(read.records))
  /\ Goto(p, "writer") /\ BecomeWriter(p, read.records, read.version)
  /\ UNCHANGED <<file, lock, unwritten, pending, snapshot, names, acknowledged, counters>>

-----------------------------------------------------------------------------
\* Mutant: a writer goes on after a failed append.
ValidateAppendAnyway(p, r) == r # Header /\ ~Terminal(Replayed(memory[p]))

\* validate_append
ValidateAppend(p, r) == ~poisoned[p] /\ r # Header /\ ~Terminal(Replayed(memory[p]))

\* append_record up to the write: a record that has no following sequence
\* number or cannot be encoded is refused before.
AppendRecord(p, r, synchronize) ==
  /\ ValidateAppend(p, r)
  /\ Len(memory[p]) < MaxSequence /\ Encodable(schema[p], r)
  /\ StartFrame(p, r, synchronize, schema[p], memory[p])
  /\ UNCHANGED <<file, lock, memory, schema, poisoned, snapshot, names, history, counters>>

IsCompletion(r) == r.type \in {"ForwardStepCompleted", "RollbackStepCompleted"}
IsRefusal(r)    == r.type \in {"ForwardStepNotApplied", "RollbackStepNotApplied"}

\* append and, for completions, append_buffered_completion: what an
\* execution may write next.
AppendExecuted(p) ==
  /\ pc[p] = "writer"
  /\ \E r \in Records : /\ ~IsRefusal(r) /\ ApplyRecord(Replayed(memory[p]), r) # Rejected
                        /\ AppendRecord(p, r, ~IsCompletion(r))

\* Mutant: the disposition the user was shown is written.
ReconcileAsInspected(p) ==
  /\ pc[p] = "reconcile" /\ inspected[p] \in {"before", "after"}
  /\ AppendRecord(p, ReconcileRecord(Replayed(memory[p]), inspected[p]), TRUE)

\* reconcile_prepared_step_from_snapshot: the names are inspected again.
ReconcileStep(p) ==
  /\ pc[p] = "reconcile" /\ place \in {"before", "after"}
  /\ AppendRecord(p, ReconcileRecord(Replayed(memory[p]), place), TRUE)

-----------------------------------------------------------------------------
\* write_all, a cell at a time.
WriteCell(p) ==
  /\ pc[p] = "writing" /\ unwritten[p] # << >>
  /\ content' = Append(content, Head(unwritten[p]))
  /\ unwritten' = [unwritten EXCEPT ![p] = Tail(@)]
  /\ UNCHANGED <<exists, synced, lock, pc, memory, schema, poisoned, pending, snapshot, names,
                 history, counters>>

\* The record is appended: the next step's source is where it was.
Appended(p) ==
  /\ memory' = [memory EXCEPT ![p] = Append(@, pending[p].record)]
  /\ pending' = [pending EXCEPT ![p] = Blank]
  /\ place' = IF IsCompletion(pending[p].record) THEN "before" ELSE place
  /\ Goto(p, IF inspected[p] = "none" THEN "writer" ELSE "done")

Buffer(p) ==
  /\ pc[p] = "writing" /\ unwritten[p] = << >> /\ ~pending[p].synchronize /\ Appended(p)
  /\ UNCHANGED <<file, lock, schema, poisoned, unwritten, snapshot, moves, history, counters>>

\* sync_all
Synchronize(p) ==
  /\ pc[p] = "writing" /\ unwritten[p] = << >> /\ pending[p].synchronize /\ Appended(p)
  /\ synced' = Len(content) /\ acknowledged' = Len(memory[p]) + 1
  /\ UNCHANGED <<exists, content, lock, schema, poisoned, unwritten, snapshot, moves, changed,
                 since, counters>>

\* write_all or sync_all fails: the writer is poisoned, its sequence stays.
AppendFails(p) ==
  /\ pc[p] = "writing" /\ Goto(p, "writer")
  /\ poisoned' = [poisoned EXCEPT ![p] = TRUE]
  /\ unwritten' = [unwritten EXCEPT ![p] = << >>] /\ pending' = [pending EXCEPT ![p] = Blank]
  /\ UNCHANGED <<file, lock, memory, schema, snapshot, names, history, counters>>

\* An error, the end of the call, a new inspection, or the process dies.
Drop(p) ==
  /\ pc[p] # "idle" /\ Close(p)
  /\ UNCHANGED <<file, names, acknowledged, counters>>

-----------------------------------------------------------------------------
Disturbances == rewrites + moves + losses

(***************************************************************************)
(* Power loss: every process is gone, what was not synchronized too or in  *)
(* part, and a block that was never written may be left behind it.  A file *)
(* without synchronized contents may not even exist.                       *)
(***************************************************************************)
PowerLoss ==
  /\ Disturbances < MaxDisturbances /\ losses' = losses + 1
  /\ \E k \in synced..Len(content), junk \in BOOLEAN :
       /\ junk => k < Len(content)
       /\ content' = SubSeq(content, 1, k) \o (IF junk THEN <<Junk>> ELSE << >>)
  /\ exists' \in {exists, exists /\ content' # << >>}
  /\ synced' = Len(content') /\ lock' = Nobody
  /\ pc' = [p \in Processes |-> "idle"]
  /\ memory' = [p \in Processes |-> << >>] /\ schema' = [p \in Processes |-> 0]
  /\ shown' = [p \in Processes |-> << >>] /\ inspected' = [p \in Processes |-> "none"]
  /\ poisoned' = [p \in Processes |-> FALSE]
  /\ unwritten' = [p \in Processes |-> << >>] /\ pending' = [p \in Processes |-> Blank]
  /\ changed' = [p \in Processes |-> FALSE] /\ since' = [p \in Processes |-> {}]
  /\ UNCHANGED <<names, acknowledged, rewrites>>

\* Another program does not ask for the lock: it restores an older copy or
\* damages a cell.
Rewrite ==
  /\ Disturbances < MaxDisturbances /\ rewrites' = rewrites + 1
  /\ content' \in {SubSeq(content, 1, k) : k \in 0..Len(content) - 1}
                    \cup {[content EXCEPT ![k] = Junk] : k \in DOMAIN content}
  /\ content' # content /\ synced' = Len(content')
  /\ changed' = [p \in Processes |-> TRUE]
  /\ UNCHANGED <<exists, lock, pc, writer, snapshot, names, acknowledged, since, losses>>

\* The source of the prepared step moves: the execution renames it, or
\* another program does.
Move ==
  /\ Disturbances < MaxDisturbances /\ moves' = moves + 1
  /\ ReconciliationRequired(Replayed(InspectJournal(content).records))
  /\ place' \in {"before", "after", "elsewhere"} \ {place}
  /\ since' = [p \in Processes |-> since[p] \cup {place'}]
  /\ UNCHANGED <<file, lock, pc, writer, snapshot, acknowledged, changed, counters>>

Process(p) ==
  \/ CreateNew(p) \/ LockCreated(p) \/ LockCreatedFails(p)
  \/ LockExisting(p) \/ OpenAuthorized(p) \/ IntoWriter(p) \/ Resume(p)
  \/ AppendExecuted(p) \/ ReconcileStep(p)
  \/ WriteCell(p) \/ Buffer(p) \/ Synchronize(p) \/ AppendFails(p) \/ Drop(p)

Next == (\E p \in Processes : Process(p)) \/ PowerLoss \/ Rewrite \/ Move

Spec == Init /\ [][Next]_vars

-----------------------------------------------------------------------------
(***************************************************************************)
(* Properties.                                                             *)
(***************************************************************************)
\* A writer appends to the journal it believes in: the file holds exactly
\* the frames it has read and written, in one schema, unless another program
\* rewrote it behind the check of the content (journal.rs:299, 329).  Two
\* processes never write the same journal.
WritersKnowTheirFile ==
  /\ \A p \in Processes :
       pc[p] \in {"writer", "reconcile"} /\ ~poisoned[p] /\ ~changed[p] =>
         LET read == InspectJournal(content)
         IN  read.issue = "none" /\ read.records = memory[p] /\ read.version = schema[p]
  /\ \A p, q \in Processes :
       pc[p] \in {"writer", "reconcile", "writing"} /\ pc[q] \in {"writer", "reconcile", "writing"}
         => p = q

\* What a reconciliation records of the prepared step was true after the
\* user confirmed and the file was checked, not only when the user was shown
\* it; it may be over when the record is on the disk (recovery.rs:473).
ReconciledAsSeen ==
  [][\A p \in Processes : pc[p] = "reconcile" /\ pc'[p] = "writing" =>
       (IF IsCompletion(pending'[p].record) THEN "after" ELSE "before") \in since[p]]_vars

\* What inspect_journal finds, whenever and by whomever it is asked, is a
\* durable log: the frames of a torn or half lost file are a prefix of what
\* was appended with every acknowledged record, and once a writer has left
\* its frame unfinished nothing is written behind it (journal.rs:645, 856).
Log == INSTANCE DurableLog WITH
         log       <- IF rewrites > 0 THEN << >> ELSE InspectJournal(content).records,
         safe      <- IF rewrites > 0 THEN 0 ELSE acknowledged,
         torn      <- /\ rewrites = 0 /\ InspectJournal(content).issue # "none"
                      /\ \A p \in Processes : unwritten[p] = << >>,
         rewritten <- rewrites > 0

IsADurableLog == Log!Spec
===============================================================================

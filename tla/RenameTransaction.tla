-------------------------- MODULE RenameTransaction --------------------------
(***************************************************************************)
(* One journaled rename transaction, from the creation of its journal to   *)
(* its terminal record: the executor (executor.rs), the durable appender   *)
(* it writes through (journal.rs), the recovery operations on the journal  *)
(* it may leave behind (recovery.rs) and the file system underneath        *)
(* (execution_fs.rs), under crashes, power loss, failing appends, failing  *)
(* and ambiguous renames, and other programs creating and removing entries.*)
(*                                                                         *)
(* The journal.  replay_journal folds over a prefix-closed log, so all a   *)
(* reader can learn from the journal file is the replay state of the       *)
(* frames in it.  "file" is that state as the running operating system     *)
(* serves it; "onDisk" holds the replay states of the prefixes a power     *)
(* loss may leave.  An append that is synced makes onDisk a singleton; a   *)
(* buffered completion, or a frame whose sync failed, adds to it.          *)
(*                                                                         *)
(* The file system.  dir maps the names of one parent directory to what    *)
(* they resolve to: a source of the transaction (its identity), an entry   *)
(* of somebody else, or nothing.  A name stands for its case-folded key:   *)
(* Windows resolves names through OBJ_CASE_INSENSITIVE.  A rename is       *)
(* durable when the call returns.                                          *)
(*                                                                         *)
(* The executor.  Every append and every rename is an action of its own,   *)
(* with pc naming the call that comes next, so that a crash, a power loss  *)
(* or another program can act between any two of them.  pc = "start" is    *)
(* the one call of execute_frozen_plan the plan is consumed by, pc =       *)
(* "idle" is "no writer holds the journal": after a call has returned and  *)
(* after a restart.                                                        *)
(***************************************************************************)
EXTENDS ExecutionProtocol, FiniteSets

CONSTANTS
  Names,          \* case-folded names of the parent directory
  OriginalName,   \* OriginalName[s], TemporaryName[s], FinalName[s]: the
  TemporaryName,  \*   JournalNameGraph of source s
  FinalName,
  Batch,          \* FORWARD_JOURNAL_BATCH_STEPS
  Faults,         \* the faults the environment may inject
  Foreign,        \* an entry that is not a source of this transaction
  Nothing         \* no entry

FaultKinds == {"crash", "powerLoss", "tear", "writeFail", "syncFail",
               "renameFail", "ambiguous", "foreign", "tamper"}

\* What planning and freeze_execution_plan guarantee of the names: sources
\* and destinations are distinct, and temporary names were free.  A final
\* name may be another source's original (a swap or a chain), or, folded,
\* the source's own (a case-only rename).  FrozenNamesAreFit proves this of
\* module Planning, but for a final name that an override spells like another
\* source's temporary name, and one file registered by two spellings of its name.
ASSUME NamesAssumption ==
  /\ OriginalName \in [Sources -> Names]
  /\ TemporaryName \in [Sources -> Names]
  /\ FinalName \in [Sources -> Names]
  /\ \A s, t \in Sources :
       /\ s # t => /\ OriginalName[s] # OriginalName[t]
                   /\ TemporaryName[s] # TemporaryName[t]
                   /\ FinalName[s] # FinalName[t]
       /\ TemporaryName[s] # OriginalName[t]
       /\ TemporaryName[s] # FinalName[t]

ASSUME BatchAssumption == Batch \in Nat \ {0}

ASSUME EntriesAssumption ==
  Foreign \notin Sources /\ Nothing \notin Sources /\ Foreign # Nothing

ASSUME FaultsAssumption == Faults \subseteq FaultKinds

VARIABLES
  dir,        \* [Names -> Sources \cup {Foreign, Nothing}]
  file,       \* replay state of the journal file
  onDisk,     \* replay states a power loss may leave
  torn,       \* the file ends in a frame that does not decode
  pc,         \* the executor's next call
  step,       \* its schedule index (a count of steps at "rollback.start")
  batchEnd,   \* end of the forward batch it is in
  cause,      \* the RollbackCause it is about to record
  reported    \* ExecutionOutcome of the last call that returned

journal == <<file, onDisk, torn>>
memory  == <<step, batchEnd, cause>>
vars    == <<dir, journal, pc, memory, reported>>

ForwardPc  == {"forward.intent", "forward.step", "forward.record", "forward.complete"}
RollbackPc == {"rollback.start", "rollback.intent", "rollback.step", "rollback.record",
               "rollback.failed", "rollback.retry", "rollback.complete"}
PcValues   == {"start", "idle"} \cup ForwardPc \cup RollbackPc
Causes     == {"none", "cancelled", "failed", "requested"}
Outcomes   == {"none", "notStarted", "completed", "rolledBack", "recoveryRequired"}

NameOf(s, l) == CASE l = "original"  -> OriginalName[s]
                  [] l = "temporary" -> TemporaryName[s]
                  [] OTHER           -> FinalName[s]

TypeOK ==
  /\ dir \in [Names -> Sources \cup {Foreign, Nothing}]
  /\ onDisk \subseteq Modes /\ file \in onDisk
  /\ torn \in BOOLEAN
  /\ pc \in PcValues
  /\ step \in 0..StepCount
  /\ batchEnd \in 0..StepCount
  /\ cause \in Causes
  /\ reported \in Outcomes

Init ==
  /\ dir = [n \in Names |-> IF \E s \in Sources : n = OriginalName[s]
                            THEN CHOOSE s \in Sources : n = OriginalName[s]
                            ELSE Nothing]
  /\ file = NoJournal /\ onDisk = {NoJournal} /\ torn = FALSE
  /\ pc = "start" /\ step = 0 /\ batchEnd = 0 /\ cause = "none"
  /\ reported = "none"

-----------------------------------------------------------------------------
\* Mutant: the record is written but not synced.
AppendDurableUnsynced(r) ==
  /\ file' = ApplyRecord(file, r)
  /\ onDisk' = onDisk \cup {ApplyRecord(file, r)}
  /\ torn' = torn

(***************************************************************************)
(* DurableAppender.append_record.  A durable append writes the frame and   *)
(* syncs the file; a buffered completion only writes it.  A failed write   *)
(* leaves nothing or part of a frame, a failed sync the whole frame with   *)
(* its durability unknown; both poison the writer, and every caller then   *)
(* returns.                                                                *)
(***************************************************************************)
AppendDurable(r) ==
  /\ file' = ApplyRecord(file, r)
  /\ onDisk' = {ApplyRecord(file, r)}
  /\ torn' = torn

AppendBuffered(r) ==
  /\ file' = ApplyRecord(file, r)
  /\ onDisk' = onDisk \cup {ApplyRecord(file, r)}
  /\ torn' = torn

WriteFails ==
  /\ "writeFail" \in Faults
  /\ file' = file /\ onDisk' = onDisk
  /\ torn' \in IF "tear" \in Faults THEN BOOLEAN ELSE {torn}

SyncFails(r) ==
  /\ "syncFail" \in Faults
  /\ AppendBuffered(r)

DurableFails(r) == WriteFails \/ SyncFails(r)

\* Control: the writer is dropped and the call returns.
Return(outcome) ==
  /\ pc' = "idle" /\ step' = 0 /\ batchEnd' = 0 /\ cause' = "none"
  /\ reported' = outcome

Goto(p) == pc' = p /\ reported' = reported

-----------------------------------------------------------------------------
\* Mutant: the destination is replaced.
CanRenameReplacing(s, from, to) == dir[from] = s

(***************************************************************************)
(* rename_no_replace_in_parent: refuses a source whose identity is not the *)
(* recorded one and a destination that exists; any other error leaves the  *)
(* names alone, except the two PostRename errors, which come after the     *)
(* rename.                                                                 *)
(***************************************************************************)
CanRename(s, from, to) == dir[from] = s /\ dir[to] = Nothing

Renamed(s, from, to) == dir' = [dir EXCEPT ![from] = Nothing, ![to] = s]

RenameMayFail(s, from, to) == ~CanRename(s, from, to) \/ "renameFail" \in Faults

ForwardFrom == NameOf(SourceOf(step), LocationBefore(step))
ForwardTo   == NameOf(SourceOf(step), LocationAfter(step))

-----------------------------------------------------------------------------
(***************************************************************************)
(* execute_frozen_plan: create_new, then the durable header.  The plan is  *)
(* moved into the call, so there is no second one.                         *)
(***************************************************************************)
ExecuteFrozenPlan ==
  /\ pc = "start"
  /\ \/ AppendDurable(Header) /\ Goto("forward.intent")
        /\ step' = 0 /\ UNCHANGED <<batchEnd, cause>>
     \/ DurableFails(Header) /\ Return("notStarted")
  /\ UNCHANGED dir

(***************************************************************************)
(* continue_forward                                                        *)
(***************************************************************************)
ChunkEnd == IF step + Batch < StepCount THEN step + Batch ELSE StepCount

\* The head of the loop over the chunks; past the last one the transaction
\* is completed.
ForwardIntentStep ==
  /\ pc = "forward.intent"
  /\ IF step = StepCount
     THEN Goto("forward.complete") /\ UNCHANGED <<journal, memory>>
     ELSE LET r == ForwardIntent(step, ChunkEnd - step) IN
          \/ AppendDurable(r) /\ Goto("forward.step")
             /\ batchEnd' = ChunkEnd /\ UNCHANGED <<step, cause>>
          \/ DurableFails(r) /\ Return("recoveryRequired")
  /\ UNCHANGED dir

\* Mutant: should_cancel() is also read between a rename and its record.
CancelAnytime ==
  /\ pc \in {"forward.step", "forward.record"}
  /\ Goto("rollback.start") /\ cause' = "cancelled"
  /\ UNCHANGED <<dir, journal, step, batchEnd>>

\* should_cancel() is read before each rename.
Cancel ==
  /\ pc = "forward.step"
  /\ Goto("rollback.start") /\ cause' = "cancelled"
  /\ UNCHANGED <<dir, journal, step, batchEnd>>

ForwardRename ==
  /\ pc = "forward.step"
  /\ CanRename(SourceOf(step), ForwardFrom, ForwardTo)
  /\ Renamed(SourceOf(step), ForwardFrom, ForwardTo)
  /\ \/ Goto("forward.record") /\ UNCHANGED memory
     \/ "ambiguous" \in Faults /\ Return("recoveryRequired")
  /\ UNCHANGED journal

ForwardRenameFails ==
  /\ pc = "forward.step"
  /\ RenameMayFail(SourceOf(step), ForwardFrom, ForwardTo)
  /\ Goto("rollback.start") /\ cause' = "failed"
  /\ UNCHANGED <<dir, journal, step, batchEnd>>

ForwardRecord ==
  /\ pc = "forward.record"
  /\ \/ /\ AppendBuffered(Rec("ForwardStepCompleted", step, 0))
        /\ step' = step + 1
        /\ IF step + 1 < batchEnd
           THEN Goto("forward.step") /\ UNCHANGED batchEnd
           ELSE Goto("forward.intent") /\ batchEnd' = 0
        /\ UNCHANGED cause
     \/ WriteFails /\ Return("recoveryRequired")
  /\ UNCHANGED dir

CompleteTransaction ==
  /\ pc = "forward.complete"
  /\ LET r == Rec("TransactionCompleted", 0, 0) IN
     \/ AppendDurable(r) /\ Return("completed")
     \/ DurableFails(r) /\ Return("recoveryRequired")
  /\ UNCHANGED dir

-----------------------------------------------------------------------------
\* Mutant: the rollback begins with the step that was not applied.
StartRollbackAtNext ==
  /\ pc = "rollback.start"
  /\ LET r == RollbackStarted(cause, step) IN
     \/ /\ AppendDurable(r)
        /\ IF step = 0 THEN Goto("rollback.complete") ELSE Goto("rollback.intent")
        /\ step' = step /\ batchEnd' = 0 /\ cause' = "none"
     \/ DurableFails(r) /\ Return("recoveryRequired")
  /\ UNCHANGED dir

(***************************************************************************)
(* start_rollback (step is completed_count here) and continue_rollback     *)
(***************************************************************************)
StartRollback ==
  /\ pc = "rollback.start"
  /\ LET r == RollbackStarted(cause, step) IN
     \/ /\ AppendDurable(r)
        /\ IF step = 0 THEN Goto("rollback.complete") /\ step' = 0
                       ELSE Goto("rollback.intent") /\ step' = step - 1
        /\ batchEnd' = 0 /\ cause' = "none"
     \/ DurableFails(r) /\ Return("recoveryRequired")
  /\ UNCHANGED dir

RollbackIntentStep ==
  /\ pc = "rollback.intent"
  /\ LET r == Rec("RollbackStepPrepared", step, 0) IN
     \/ AppendDurable(r) /\ Goto("rollback.step") /\ UNCHANGED memory
     \/ DurableFails(r) /\ Return("recoveryRequired")
  /\ UNCHANGED dir

RollbackRename ==
  /\ pc = "rollback.step"
  /\ CanRename(SourceOf(step), ForwardTo, ForwardFrom)
  /\ Renamed(SourceOf(step), ForwardTo, ForwardFrom)
  /\ \/ Goto("rollback.record") /\ UNCHANGED memory
     \/ "ambiguous" \in Faults /\ Return("recoveryRequired")
  /\ UNCHANGED journal

\* Mutants: a failed rename is taken for done, or tried again at once.
RollbackRenameIgnored ==
  /\ pc = "rollback.step"
  /\ RenameMayFail(SourceOf(step), ForwardTo, ForwardFrom)
  /\ Goto("rollback.record")
  /\ UNCHANGED <<dir, journal, memory>>
RollbackRenameRetried ==
  /\ pc = "rollback.step"
  /\ RenameMayFail(SourceOf(step), ForwardTo, ForwardFrom)
  /\ Goto("rollback.intent")
  /\ UNCHANGED <<dir, journal, memory>>

RollbackRenameFails ==
  /\ pc = "rollback.step"
  /\ RenameMayFail(SourceOf(step), ForwardTo, ForwardFrom)
  /\ Goto("rollback.failed")
  /\ UNCHANGED <<dir, journal, memory>>

RollbackRecord ==
  /\ pc = "rollback.record"
  /\ \/ /\ AppendBuffered(Rec("RollbackStepCompleted", step, 0))
        /\ IF step = 0 THEN Goto("rollback.complete") /\ step' = 0
                       ELSE Goto("rollback.intent") /\ step' = step - 1
        /\ UNCHANGED <<batchEnd, cause>>
     \/ WriteFails /\ Return("recoveryRequired")
  /\ UNCHANGED dir

RollbackFailed ==
  /\ pc = "rollback.failed"
  /\ LET r == Rec("RollbackStepFailed", step, 0) IN
     (AppendDurable(r) \/ DurableFails(r)) /\ Return("recoveryRequired")
  /\ UNCHANGED dir

CompleteRollback ==
  /\ pc = "rollback.complete"
  /\ LET r == Rec("TransactionRolledBack", 0, 0) IN
     \/ AppendDurable(r) /\ Return("rolledBack")
     \/ DurableFails(r) /\ Return("recoveryRequired")
  /\ UNCHANGED dir

-----------------------------------------------------------------------------
(***************************************************************************)
(* Recovery.  Both operations open the journal anew: a torn or a terminal  *)
(* journal is refused, and so is a file another writer holds (pc).         *)
(***************************************************************************)
\* observe_location: the locations whose name resolves to source s.
Owned(s) == {l \in Locations : dir[NameOf(s, l)] = s}

\* step_locations, for the direction of the replayed journal
SourceLocation(m) == IF m.phase = "forward" THEN LocationBefore(PreparedStep(m))
                                            ELSE LocationAfter(PreparedStep(m))
TargetLocation(m) == IF m.phase = "forward" THEN LocationAfter(PreparedStep(m))
                                            ELSE LocationBefore(PreparedStep(m))

\* Mutant: whatever is not at the target was not applied.
StepNotAppliedUnlessSeen(m) == TargetLocation(m) \notin Owned(SourceOf(PreparedStep(m)))

\* inspect_prepared_records: the two dispositions that can be recorded
StepApplied(m)    == Owned(SourceOf(PreparedStep(m))) = {TargetLocation(m)}
StepNotApplied(m) == Owned(SourceOf(PreparedStep(m))) = {SourceLocation(m)}

\* Mutant: the direction of the journal is forgotten.
ReconcileRecordForward(m) ==
  Rec(IF StepApplied(m) THEN "ForwardStepCompleted" ELSE "ForwardStepNotApplied",
      PreparedStep(m), 0)

ReconcileRecord(m) ==
  Rec(IF m.phase = "forward"
      THEN IF StepApplied(m) THEN "ForwardStepCompleted" ELSE "ForwardStepNotApplied"
      ELSE IF StepApplied(m) THEN "RollbackStepCompleted" ELSE "RollbackStepNotApplied",
      PreparedStep(m), 0)

\* reconcile_prepared_step_from_snapshot
ReconcilePreparedStep ==
  /\ pc = "idle" /\ ~torn
  /\ ReconciliationRequired(file)
  /\ StepApplied(file) \/ StepNotApplied(file)
  /\ AppendDurable(ReconcileRecord(file)) \/ DurableFails(ReconcileRecord(file))
  /\ UNCHANGED <<dir, pc, memory, reported>>

\* validate_recorded_state: every source is at the location its completed
\* records lead to, and at no other.
RecordedStateValid == \A s \in Sources : Owned(s) = {LocationAt(s, file.next)}

\* Mutants: a failed rollback step is never retried; a completed transaction
\* is rolled back; a torn journal is resumed.
ResumeUnlessFailed ==
  \/ ForwardPending(file) /\ Goto("forward.intent") /\ step' = file.next
  \/ CompletionPending(file) /\ Goto("forward.complete") /\ step' = step
  \/ RollbackPending(file) /\ Goto("rollback.intent") /\ step' = file.next - 1
  \/ RollbackCompletionPending(file) /\ Goto("rollback.complete") /\ step' = step
RequestRollbackOfCompleted ==
  /\ ForwardPending(file) \/ CompletionPending(file) \/ file.phase = "completed"
  /\ Goto("rollback.start") /\ step' = file.next

(***************************************************************************)
(* recover_transaction_from_snapshot: the dispatch on the replayed status. *)
(* After a failed rollback step the retry is recorded before the rollback  *)
(* goes on.                                                                *)
(***************************************************************************)
Resume ==
  \/ ForwardPending(file) /\ Goto("forward.intent") /\ step' = file.next
  \/ CompletionPending(file) /\ Goto("forward.complete") /\ step' = step
  \/ RollbackPending(file) /\ Goto("rollback.intent") /\ step' = file.next - 1
  \/ RollbackCompletionPending(file) /\ Goto("rollback.complete") /\ step' = step
  \/ RecoveryRequired(file) /\ Goto("rollback.retry") /\ step' = file.next - 1

RequestRollback ==
  /\ ForwardPending(file) \/ CompletionPending(file)
  /\ Goto("rollback.start") /\ step' = file.next

RecoverTornTransaction ==
  /\ pc = "idle" /\ RecordedStateValid
  /\ \/ Resume /\ cause' = cause
     \/ RequestRollback /\ cause' = "requested"
  /\ UNCHANGED <<dir, journal, batchEnd>>

RecoverTransaction ==
  /\ pc = "idle" /\ ~torn /\ RecordedStateValid
  /\ \/ Resume /\ cause' = cause
     \/ RequestRollback /\ cause' = "requested"
  /\ UNCHANGED <<dir, journal, batchEnd>>

RetryFailedRollback ==
  /\ pc = "rollback.retry"
  /\ LET r == Rec("RollbackRecoveryStarted", step, 0) IN
     \/ AppendDurable(r) /\ Goto("rollback.intent") /\ UNCHANGED memory
     \/ DurableFails(r) /\ Return("recoveryRequired")
  /\ UNCHANGED dir

-----------------------------------------------------------------------------
(***************************************************************************)
(* The environment.                                                        *)
(***************************************************************************)
\* The call in progress is an append, not a rename.
Appending == pc \notin {"idle", "forward.step", "rollback.step"}

\* The process stops: what it wrote is in the file, its memory is gone, and
\* a frame it was writing may be cut short.
ProcessCrash ==
  /\ "crash" \in Faults /\ pc # "idle"
  /\ Return("none")
  /\ torn' \in IF "tear" \in Faults /\ Appending THEN BOOLEAN ELSE {torn}
  /\ UNCHANGED <<dir, file, onDisk>>

\* Power is lost: frames that were never synced may be gone or cut short.
PowerLoss ==
  /\ "powerLoss" \in Faults
  /\ pc # "idle" \/ torn \/ onDisk # {file}
  /\ Return("none")
  /\ file' \in onDisk /\ onDisk' = {file'}
  /\ torn' \in IF "tear" \in Faults /\ (Appending \/ torn \/ onDisk # {file})
               THEN BOOLEAN ELSE {FALSE}
  /\ UNCHANGED dir

\* Another program creates an entry at a free name, or removes its own.
ForeignCreate(n) ==
  /\ "foreign" \in Faults /\ dir[n] = Nothing
  /\ dir' = [dir EXCEPT ![n] = Foreign]
  /\ UNCHANGED <<journal, pc, memory, reported>>

ForeignRemove(n) ==
  /\ "foreign" \in Faults /\ dir[n] = Foreign
  /\ dir' = [dir EXCEPT ![n] = Nothing]
  /\ UNCHANGED <<journal, pc, memory, reported>>

\* Another program deletes a source, moves it, or adds a second name
\* (a hard link) to it.
Tamper(n) ==
  /\ "tamper" \in Faults /\ dir[n] \in Sources
  /\ \/ dir' = [dir EXCEPT ![n] = Nothing]
     \/ \E t \in Names : /\ dir[t] = Nothing
                         /\ \/ dir' = [dir EXCEPT ![n] = Nothing, ![t] = dir[n]]
                            \/ dir' = [dir EXCEPT ![t] = dir[n]]
  /\ UNCHANGED <<journal, pc, memory, reported>>

-----------------------------------------------------------------------------
\* A call in progress
ExecutorStep ==
  \/ ExecuteFrozenPlan \/ ForwardIntentStep \/ Cancel \/ ForwardRename \/ ForwardRenameFails
  \/ ForwardRecord \/ CompleteTransaction
  \/ StartRollback \/ RollbackIntentStep \/ RollbackRename
  \/ RollbackRenameFails \/ RollbackRecord \/ RollbackFailed
  \/ CompleteRollback \/ RetryFailedRollback

\* The user starts a recovery
UserStep == ReconcilePreparedStep \/ RecoverTransaction

Environment ==
  \/ ProcessCrash \/ PowerLoss
  \/ \E n \in Names : ForeignCreate(n) \/ ForeignRemove(n) \/ Tamper(n)

Next == ExecutorStep \/ UserStep \/ Environment

Spec == Init /\ [][Next]_vars

(***************************************************************************)
(* Fairness: the thread that runs a call keeps running.                    *)
(***************************************************************************)
FairSpec == Spec /\ WF_vars(ExecutorStep)

\* ... and the user keeps choosing an operation that is offered to them.
PersistentUserSpec ==
  FairSpec /\ WF_vars(ReconcilePreparedStep) /\ WF_vars(RecoverTransaction)
=============================================================================

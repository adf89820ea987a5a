----------------------------- MODULE JournalReplay -----------------------------
(***************************************************************************)
(* replay_journal as it is written: the fold over the records of a journal *)
(* with the vector of completed steps and the deques of prepared and of    *)
(* remaining steps, next to the fold validate_recorded_state makes over    *)
(* the same records.  The reader is fed any record in any order; a journal *)
(* that ends is simply not read further.                                   *)
(*                                                                         *)
(* Module ExecutionProtocol keeps only counters.  The properties below are *)
(* what justifies that, and what every other module here relies on.        *)
(***************************************************************************)
EXTENDS ExecutionProtocol, SequencesExt

VARIABLES
  mode,       \* ReplayMode, or "Unread" before the header
  location,   \* the map "expected" of validate_recorded_state
  last        \* the record just read

vars == <<mode, location, last>>

NoStep == -1

Forward(next, completed, prepared) ==
  [kind |-> "Forward", next_step |-> next, completed_steps |-> completed,
   prepared_steps |-> prepared]

Rollback(remaining, prepared) ==
  [kind |-> "Rollback", remaining_steps |-> remaining, prepared_step |-> prepared]

RecoveryRequiredAt(failed, remaining) ==
  [kind |-> "RecoveryRequired", failed_step |-> failed, remaining_steps |-> remaining]

Unread     == [kind |-> "Unread"]
Completed  == [kind |-> "Completed"]
RolledBack == [kind |-> "RolledBack"]
Failed     == [kind |-> "Error"]

\* Any record, its step and count also one past what the schedule has.
Records ==
  LET Plain == {"TransactionStarted", "RollbackStartedCancelled",
                "RollbackStartedRecoveryRequested", "TransactionCompleted",
                "TransactionRolledBack"}
      Stepped == {"ForwardStepPrepared", "ForwardStepCompleted",
                  "ForwardStepNotApplied", "RollbackStartedForwardStepFailed",
                  "RollbackStepPrepared", "RollbackStepCompleted",
                  "RollbackStepNotApplied", "RollbackStepFailed",
                  "RollbackRecoveryStarted"}
  IN  {Rec(t, 0, 0) : t \in Plain} \cup {Rec(t, i, 0) : t \in Stepped, i \in 0..StepCount}
      \cup {Rec("ForwardBatchPrepared", i, k) : i \in 0..StepCount, k \in 0..StepCount + 1}

FrontOf(q) == IF q = << >> THEN NoStep ELSE Head(q)

-----------------------------------------------------------------------------
(***************************************************************************)
(* apply_forward_record                                                    *)
(***************************************************************************)
\* Mutant: the completed steps are undone in the order they were done.
StartRollbackInOrder(m) == Rollback(m.completed_steps, NoStep)

\* forward_batch_steps: the range first..first+count-1
BatchSteps(first, count) == [i \in 1..count |-> first + i - 1]

StartRollback(m) == Rollback(Reverse(m.completed_steps), NoStep)

ForwardRecord(m, r) ==
  CASE /\ r.type = "ForwardBatchPrepared" /\ m.prepared_steps = << >>
       /\ m.next_step = r.step /\ r.count # 0 /\ r.step + r.count <= StepCount
         -> [m EXCEPT !.prepared_steps = BatchSteps(r.step, r.count)]
    [] /\ r.type = "ForwardStepPrepared" /\ m.prepared_steps = << >>
       /\ m.next_step < StepCount /\ m.next_step = r.step
         -> [m EXCEPT !.prepared_steps = Append(@, r.step)]
    [] /\ r.type = "ForwardStepCompleted"
       /\ FrontOf(m.prepared_steps) = r.step /\ m.next_step = r.step
         -> Forward(m.next_step + 1, Append(m.completed_steps, r.step),
                    Tail(m.prepared_steps))
    [] r.type = "ForwardStepNotApplied" /\ FrontOf(m.prepared_steps) = r.step
         -> [m EXCEPT !.prepared_steps = << >>]
    [] r.type = "RollbackStartedCancelled" -> StartRollback(m)
    [] r.type = "RollbackStartedRecoveryRequested" /\ m.prepared_steps = << >>
         -> StartRollback(m)
    [] /\ r.type = "RollbackStartedForwardStepFailed"
       /\ FrontOf(m.prepared_steps) = r.step /\ m.next_step = r.step
         -> StartRollback(m)
    [] /\ r.type = "TransactionCompleted"
       /\ m.prepared_steps = << >> /\ m.next_step = StepCount
         -> Completed
    [] OTHER -> Failed

(***************************************************************************)
(* apply_rollback_record                                                   *)
(***************************************************************************)
RollbackRecord(m, r) ==
  CASE /\ r.type = "RollbackStepPrepared"
       /\ m.prepared_step = NoStep /\ FrontOf(m.remaining_steps) = r.step
         -> Rollback(m.remaining_steps, r.step)
    [] r.type = "RollbackStepCompleted" /\ m.prepared_step = r.step
         -> Rollback(Tail(m.remaining_steps), NoStep)
    [] r.type = "RollbackStepNotApplied" /\ m.prepared_step = r.step
         -> Rollback(m.remaining_steps, NoStep)
    [] r.type = "RollbackStepFailed" /\ m.prepared_step = r.step
         -> RecoveryRequiredAt(r.step, m.remaining_steps)
    [] /\ r.type = "TransactionRolledBack"
       /\ m.prepared_step = NoStep /\ m.remaining_steps = << >>
         -> RolledBack
    [] OTHER -> Failed

\* Mutant: the retry skips the failed step.
RecoveryRecordSkipping(m, r) ==
  IF r.type = "RollbackRecoveryStarted" /\ m.failed_step = r.step
  THEN Rollback(Tail(m.remaining_steps), NoStep) ELSE Failed

RecoveryRecord(m, r) ==
  IF r.type = "RollbackRecoveryStarted" /\ m.failed_step = r.step
  THEN Rollback(m.remaining_steps, NoStep) ELSE Failed

\* apply_record, and the header replay_journal expects.
NextMode(r) ==
  CASE mode.kind = "Unread" /\ r.type = "TransactionStarted" -> Forward(0, << >>, << >>)
    [] mode.kind = "Forward"          -> ForwardRecord(mode, r)
    [] mode.kind = "Rollback"         -> RollbackRecord(mode, r)
    [] mode.kind = "RecoveryRequired" -> RecoveryRecord(mode, r)
    [] OTHER                          -> Failed

\* Mutant: rollback completions are not read.
RecordedLocationForwardOnly(r) ==
  IF r.type = "ForwardStepCompleted"
  THEN [location EXCEPT ![SourceOf(r.step)] = LocationAfter(r.step)]
  ELSE location

(***************************************************************************)
(* validate_recorded_state: where the records say each source is, without  *)
(* looking at anything but completions.                                    *)
(***************************************************************************)
RecordedLocation(r) ==
  CASE r.type = "ForwardStepCompleted"
         -> [location EXCEPT ![SourceOf(r.step)] = LocationAfter(r.step)]
    [] r.type = "RollbackStepCompleted"
         -> [location EXCEPT ![SourceOf(r.step)] = LocationBefore(r.step)]
    [] OTHER -> location

-----------------------------------------------------------------------------
Init ==
  /\ mode = Unread /\ location = [s \in Sources |-> "original"]
  /\ last = Rec("TransactionCompleted", 0, 0)

\* An error ends the replay, and the locations are read of accepted journals.
ReadRecord(r) ==
  /\ mode.kind # "Error"
  /\ mode' = NextMode(r) /\ last' = r
  /\ location' = IF mode'.kind = "Error" THEN location ELSE RecordedLocation(r)

Next == \E r \in Records : ReadRecord(r)

Spec == Init /\ [][Next]_vars

-----------------------------------------------------------------------------
(***************************************************************************)
(* Properties.                                                             *)
(***************************************************************************)
\* The compact state a replay mode stands for.
Compact ==
  CASE mode.kind = "Unread" -> NoJournal
    [] mode.kind = "Forward"
         -> Mode("forward", mode.next_step, Len(mode.prepared_steps))
    [] mode.kind = "Rollback"
         -> Mode("rollback", Len(mode.remaining_steps),
                 IF mode.prepared_step = NoStep THEN 0 ELSE 1)
    [] mode.kind = "RecoveryRequired"
         -> Mode("failed", Len(mode.remaining_steps), 0)
    [] mode.kind = "Completed"  -> Mode("completed", StepCount, 0)
    [] mode.kind = "RolledBack" -> Mode("rolledback", 0, 0)
    [] OTHER -> Rejected

\* The vector and the deques only ever hold one shape: completed steps are a
\* prefix of the schedule, remaining steps that prefix backwards, prepared
\* steps the ones that follow, a failed or prepared rollback step the last
\* completed one.
StepsAreAPrefix ==
  /\ mode.kind = "Forward" =>
       /\ mode.completed_steps = BatchSteps(0, mode.next_step)
       /\ mode.prepared_steps = BatchSteps(mode.next_step, Len(mode.prepared_steps))
  /\ mode.kind \in {"Rollback", "RecoveryRequired"} =>
       mode.remaining_steps = Reverse(BatchSteps(0, Len(mode.remaining_steps)))
  /\ mode.kind = "Rollback" => mode.prepared_step \in {NoStep, FrontOf(mode.remaining_steps)}
  /\ mode.kind = "RecoveryRequired" => mode.failed_step = FrontOf(mode.remaining_steps)

\* Where the completions put every source is where the replayed status says
\* it is: the two folds over one journal never disagree, so recovery resumes
\* at the step the names are really at, and the two verdicts mean all final
\* and all original.
RecordedLocationsMatchReplay ==
  mode.kind # "Error" => \A s \in Sources : location[s] = LocationAt(s, Compact.next)

\* Reading a record changes the compact state as ApplyRecord says: whether a
\* record is accepted, and what follows, depends on the two counters alone.
ReplayIsCompact == [][Compact' = ApplyRecord(Compact, last')]_vars

TypeOK ==
  /\ Compact \in Modes
  /\ location \in [Sources -> Locations]
  /\ last \in Records
=============================================================================

-------------------------- MODULE ExecutionProtocol --------------------------
(***************************************************************************)
(* The journal protocol of renamewright-core/src/execution.rs: the         *)
(* two-phase schedule and the replay of a journal, as pure operators.      *)
(*                                                                         *)
(* The sources of one transaction are numbered 0..N-1 in the order of      *)
(* their ids.  Step i < N renames source i from its original name to its   *)
(* temporary name, step N+i renames it from the temporary to the final     *)
(* name.  replay_journal folds apply_record over the records; the fold     *)
(* only ever holds a prefix of the schedule (completed steps 0..k-1), so   *)
(* its state is the record [phase, next, prepared]:                        *)
(*                                                                         *)
(*   none        no journal (no header frame)                              *)
(*   forward     next = next_step, steps next..next+prepared-1 prepared    *)
(*   rollback    next = number of remaining steps, prepared \in {0,1}      *)
(*   failed      RecoveryRequired, next = number of remaining steps        *)
(*   completed, rolledback     terminal                                    *)
(*   rejected    the replay returned an error                              *)
(*                                                                         *)
(* Module JournalReplay keeps the deques of the code and checks that this  *)
(* compact form is what they hold for every sequence of records.           *)
(***************************************************************************)
EXTENDS Integers, Sequences

CONSTANT N          \* number of changed sources in the transaction

ASSUME NAssumption == N \in Nat \ {0}

Sources   == 0..N-1
StepCount == 2*N
Steps     == 0..StepCount-1

\* build_two_phase_schedule
SourceOf(i) == IF i < N THEN i ELSE i - N

(***************************************************************************)
(* The names an entry carries, and the two a step moves it between.        *)
(***************************************************************************)
Locations == {"original", "temporary", "final"}

LocationBefore(i) == IF i < N THEN "original" ELSE "temporary"
LocationAfter(i)  == IF i < N THEN "temporary" ELSE "final"

\* Where source s is once the first k steps of the schedule are applied.
LocationAt(s, k) ==
  IF k > N + s THEN "final" ELSE IF k > s THEN "temporary" ELSE "original"

-----------------------------------------------------------------------------
(***************************************************************************)
(* Replay states and records.                                              *)
(***************************************************************************)
Phases == {"none", "forward", "rollback", "failed", "completed",
           "rolledback", "rejected"}

Mode(p, n, k) == [phase |-> p, next |-> n, prepared |-> k]

\* The states the fold can be in: prepared steps are steps of the schedule,
\* a rollback prepares one step at a time, and a completed transaction has
\* completed every step.
Modes ==
  {m \in [phase : Phases, next : 0..StepCount, prepared : 0..StepCount] :
     /\ m.next + m.prepared <= StepCount \/ m.phase = "rollback"
     /\ m.phase # "forward" => m.prepared <= (IF m.phase = "rollback" THEN 1 ELSE 0)
     /\ m.phase = "rollback" => m.prepared <= m.next
     /\ m.phase = "failed" => m.next > 0
     /\ m.phase = "completed" => m.next = StepCount
     /\ m.phase \in {"none", "rolledback", "rejected"} => m.next = 0}

NoJournal == Mode("none", 0, 0)
Rejected  == Mode("rejected", 0, 0)

\* A JournalRecord; "count" is used by ForwardBatchPrepared only, and the
\* three causes of RollbackStarted are three types.
Rec(type, step, count) == [type |-> type, step |-> step, count |-> count]

Header              == Rec("TransactionStarted", 0, 0)
RollbackStarted(c, i) ==
  Rec(CASE c = "failed"    -> "RollbackStartedForwardStepFailed"
        [] c = "requested" -> "RollbackStartedRecoveryRequested"
        [] OTHER           -> "RollbackStartedCancelled",
      IF c = "failed" THEN i ELSE 0, 0)

\* append_forward_batch: a batch of one step is a ForwardStepPrepared.
ForwardIntent(first, count) ==
  IF count = 1 THEN Rec("ForwardStepPrepared", first, 0)
               ELSE Rec("ForwardBatchPrepared", first, count)

-----------------------------------------------------------------------------
(***************************************************************************)
(* apply_forward_record                                                    *)
(***************************************************************************)
ApplyForward(m, r) ==
  CASE /\ r.type = "ForwardBatchPrepared"
       /\ m.prepared = 0 /\ r.step = m.next
       /\ r.count > 0 /\ r.step + r.count <= StepCount
         -> Mode("forward", m.next, r.count)
    [] /\ r.type = "ForwardStepPrepared"
       /\ m.prepared = 0 /\ m.next < StepCount /\ r.step = m.next
         -> Mode("forward", m.next, 1)
    [] /\ r.type = "ForwardStepCompleted"
       /\ m.prepared > 0 /\ r.step = m.next
         -> Mode("forward", m.next + 1, m.prepared - 1)
    [] /\ r.type = "ForwardStepNotApplied"
       /\ m.prepared > 0 /\ r.step = m.next
         -> Mode("forward", m.next, 0)
    [] \/ r.type = "RollbackStartedCancelled"
       \/ r.type = "RollbackStartedRecoveryRequested" /\ m.prepared = 0
       \/ /\ r.type = "RollbackStartedForwardStepFailed"
          /\ m.prepared > 0 /\ r.step = m.next
         -> Mode("rollback", m.next, 0)
    [] r.type = "TransactionCompleted" /\ m.prepared = 0 /\ m.next = StepCount
         -> Mode("completed", m.next, 0)
    [] OTHER -> Rejected

(***************************************************************************)
(* apply_rollback_record: the front of the remaining steps is next-1.      *)
(***************************************************************************)
ApplyRollback(m, r) ==
  CASE /\ r.type = "RollbackStepPrepared"
       /\ m.prepared = 0 /\ m.next > 0 /\ r.step = m.next - 1
         -> Mode("rollback", m.next, 1)
    [] /\ r.type = "RollbackStepCompleted"
       /\ m.prepared = 1 /\ r.step = m.next - 1
         -> Mode("rollback", m.next - 1, 0)
    [] /\ r.type = "RollbackStepNotApplied"
       /\ m.prepared = 1 /\ r.step = m.next - 1
         -> Mode("rollback", m.next, 0)
    [] /\ r.type = "RollbackStepFailed"
       /\ m.prepared = 1 /\ r.step = m.next - 1
         -> Mode("failed", m.next, 0)
    [] r.type = "TransactionRolledBack" /\ m.prepared = 0 /\ m.next = 0
         -> Mode("rolledback", 0, 0)
    [] OTHER -> Rejected

\* apply_record, and the header that replay_journal requires first.
ApplyRecord(m, r) ==
  CASE m.phase = "none" /\ r.type = "TransactionStarted"
         -> Mode("forward", 0, 0)
    [] m.phase = "forward"  -> ApplyForward(m, r)
    [] m.phase = "rollback" -> ApplyRollback(m, r)
    [] /\ m.phase = "failed"
       /\ r.type = "RollbackRecoveryStarted" /\ r.step = m.next - 1
         -> Mode("rollback", m.next, 0)
    [] OTHER -> Rejected

\* replay_journal: the state after each record.
ReplayedUpTo(records) ==
  LET after[k \in 0..Len(records)] ==
        IF k = 0 THEN NoJournal ELSE ApplyRecord(after[k - 1], records[k])
  IN  after

Replayed(records) == ReplayedUpTo(records)[Len(records)]

Legal(records) == Replayed(records).phase # "rejected"

-----------------------------------------------------------------------------
(***************************************************************************)
(* status_for                                                              *)
(***************************************************************************)
Terminal(m)               == m.phase \in {"completed", "rolledback"}
ReconciliationRequired(m) == m.phase \in {"forward", "rollback"} /\ m.prepared > 0
ForwardPending(m)    == m.phase = "forward" /\ m.prepared = 0 /\ m.next < StepCount
CompletionPending(m) == m.phase = "forward" /\ m.prepared = 0 /\ m.next = StepCount
RollbackPending(m)   == m.phase = "rollback" /\ m.prepared = 0 /\ m.next > 0
RollbackCompletionPending(m) ==
  m.phase = "rollback" /\ m.prepared = 0 /\ m.next = 0
RecoveryRequired(m)  == m.phase = "failed"

\* The step a reconciliation is about: the front of the prepared queue.
PreparedStep(m) == IF m.phase = "forward" THEN m.next ELSE m.next - 1
=============================================================================

----------------------- MODULE RenameTransactionProps ------------------------
(***************************************************************************)
(* What a journaled rename transaction promises.                           *)
(***************************************************************************)
EXTENDS RenameTransaction

\* The faults below assume that no other program moves, links or deletes the
\* sources themselves; it may create and remove its own entries.
NoTampering == "tamper" \notin Faults

\* The names the sources have once exactly the first k steps are applied,
\* and no others.
Placed(k) ==
  \A s \in Sources, n \in Names :
    dir[n] = s <=> n = NameOf(s, LocationAt(s, k))

\* Replay state m leaves open that exactly k steps are applied.
Explains(m, k) ==
  CASE m.phase = "none"       -> k = 0
    [] m.phase = "forward"    -> m.next <= k /\ k <= m.next + m.prepared
    [] m.phase = "rollback"   -> m.next - m.prepared <= k /\ k <= m.next
    [] m.phase = "failed"     -> k = m.next
    [] m.phase = "completed"  -> k = StepCount
    [] m.phase = "rolledback" -> k = 0
    [] OTHER                  -> FALSE

-----------------------------------------------------------------------------
(***************************************************************************)
(* Invariants.                                                             *)
(***************************************************************************)
\* Whatever the order of crashes, failures, cancellation and recovery calls,
\* no reader ever finds a journal that replay_journal rejects: the executor
\* and the recovery operations write only what the protocol accepts next.
JournalReplays == file.phase # "rejected" /\ \A m \in onDisk : m.phase # "rejected"

\* Write-ahead: the sources have the names of some prefix of the schedule,
\* and every journal a power loss could leave admits that prefix.  In
\* particular no rename is unaccounted for and none is recorded that did
\* not happen.
JournalExplainsNames ==
  NoTampering =>
    \E k \in 0..StepCount : Placed(k) /\ \A m \in onDisk : Explains(m, k)

\* An outcome the executor reported is on the disk and true of the names:
\* Completed means all final, RolledBack means all original.
ReportedOutcomeIsTrue ==
  /\ reported = "completed" =>
       onDisk = {Mode("completed", StepCount, 0)} /\ (NoTampering => Placed(StepCount))
  /\ reported = "rolledBack" =>
       onDisk = {Mode("rolledback", 0, 0)} /\ (NoTampering => Placed(0))

\* An interrupted transaction is never stuck: unless its file is torn, the
\* inspection of an open journal offers Reconcile, Resume or Rollback
\* (inspect_recovery_records does not answer Blocked).
InterruptedIsRecoverable ==
  (/\ NoTampering /\ pc = "idle" /\ ~torn
   /\ file.phase # "none" /\ ~Terminal(file))
  => IF ReconciliationRequired(file)
     THEN StepApplied(file) \/ StepNotApplied(file)
     ELSE RecordedStateValid

(***************************************************************************)
(* The inductive invariant: what the executor knows (pc and its memory) is *)
(* what the journal says, and the names are those of a prefix of k steps   *)
(* with k fixed by the executor while a call is in progress.               *)
(***************************************************************************)
ControlMatchesJournal ==
  /\ pc # "idle" => torn = FALSE
  /\ pc = "start" => onDisk = {NoJournal}
  /\ pc = "forward.intent" => file = Mode("forward", step, 0)
  /\ pc \in {"forward.step", "forward.record"} =>
       step < batchEnd /\ file = Mode("forward", step, batchEnd - step)
  /\ pc = "forward.complete" => file = Mode("forward", StepCount, 0)
  /\ pc = "rollback.start" =>
       /\ file.phase = "forward" /\ file.next = step
       /\ \/ cause = "cancelled"
          \/ cause = "failed" /\ file.prepared > 0
          \/ cause = "requested" /\ file.prepared = 0
  /\ pc = "rollback.intent" => file = Mode("rollback", step + 1, 0)
  /\ pc \in {"rollback.step", "rollback.record", "rollback.failed"} =>
       file = Mode("rollback", step + 1, 1)
  /\ pc = "rollback.retry" => file = Mode("failed", step + 1, 0)
  /\ pc = "rollback.complete" => file = Mode("rollback", 0, 0)

\* Between an intent and its last completion, all that may be lost are
\* completions of the batch.
IntentIsDurable ==
  /\ pc \in {"forward.step", "forward.record"} =>
       \A m \in onDisk : m.phase = "forward" /\ m.next <= step
                          /\ m.next + m.prepared = batchEnd
  /\ pc \in {"rollback.step", "rollback.record", "rollback.failed"} => onDisk = {file}

\* The number of applied steps while a call is in progress
Progress(k) ==
  /\ pc = "forward.record" => k = step + 1
  /\ pc = "rollback.record" => k = step
  /\ pc \notin {"idle", "forward.record", "rollback.record"} => k = file.next

NamesFollowControl ==
  NoTampering =>
    \E k \in 0..StepCount : /\ Placed(k) /\ Progress(k)
                            /\ \A m \in onDisk : Explains(m, k)

IInv ==
  /\ TypeOK /\ JournalReplays
  /\ ControlMatchesJournal /\ IntentIsDurable /\ NamesFollowControl
  /\ ReportedOutcomeIsTrue

-----------------------------------------------------------------------------
(***************************************************************************)
(* Action properties.                                                      *)
(***************************************************************************)
\* No step of a transaction moves, replaces or removes an entry that is not
\* one of its sources (only its owner does, in a step that leaves pc alone).
ForeignEntriesUntouched ==
  [][\A n \in Names : dir[n] = Foreign /\ dir'[n] # Foreign
                        => pc' = pc /\ dir'[n] = Nothing]_vars

\* m records the intent to rename by step i.
Intends(m, i) ==
  \/ m.phase = "forward" /\ m.next <= i /\ i < m.next + m.prepared
  \/ m.phase = "rollback" /\ m.prepared = 1 /\ i = m.next - 1

\* A source changes its name only under an intent that is already durable:
\* whatever a power loss leaves of the journal tells of the step.
RenameOnlyUnderDurableIntent ==
  [][NoTampering =>
       \A s \in Sources, n \in Names :
         dir[n] = s /\ dir'[n] # s
           => \E i \in Steps : SourceOf(i) = s /\ \A m \in onDisk : Intends(m, i)]_vars

\* Once the journal is torn nothing is renamed any more: the append that
\* tore it ends the call, and a reopened torn journal is refused.
TornJournalStopsRenames ==
  [][NoTampering /\ torn =>
       \A s \in Sources, n \in Names : dir[n] = s => dir'[n] = s]_vars

\* A verdict that reached the disk stands: a terminal journal is never
\* extended and the sources keep their names.
DurableVerdictStands ==
  [][(\E m \in onDisk : onDisk = {m} /\ Terminal(m)) =>
       /\ onDisk' = onDisk
       /\ NoTampering => \A s \in Sources, n \in Names : dir[n] = s => dir'[n] = s]_vars

-----------------------------------------------------------------------------
(***************************************************************************)
(* Refinement: the names as functions of the sources, and the verdict that *)
(* is on the disk, behave as AtomicRename.                                 *)
(***************************************************************************)
NameNow == [s \in Sources |-> CHOOSE n \in Names : dir[n] = s]

VerdictOnDisk ==
  CASE \A m \in onDisk : m.phase = "completed"  -> "completed"
    [] \A m \in onDisk : m.phase = "rolledback" -> "rolledBack"
    [] \E m \in onDisk : m.phase = "none"       -> "unannounced"
    [] OTHER                                     -> "open"

Outside == INSTANCE AtomicRename WITH name <- NameNow, verdict <- VerdictOnDisk

\* A journaled transaction is an atomic rename for an observer who sees the
\* names and, after any restart, the journal.
AtomicToAnObserver == Outside!Spec

-----------------------------------------------------------------------------
(***************************************************************************)
(* Liveness.                                                               *)
(***************************************************************************)
\* Every call returns, whatever fails in it.
EveryCallReturns == pc # "idle" ~> pc = "idle"

\* A crash, a power loss, a failed append, an ambiguous or a refused rename.
Disturbance ==
  \/ pc # "idle" /\ pc' = "idle" /\ reported' \notin {"completed", "rolledBack"}
  \/ ForwardRenameFails \/ RollbackRenameFails \/ PowerLoss
  \/ ReconcilePreparedStep /\ (file' = file \/ onDisk' # {file'})

\* If disturbances end and the user keeps taking what recovery offers, a
\* transaction whose header survived comes to a verdict, or its file is torn.
TransactionEnds ==
  <>[][~Disturbance]_vars =>
    (file.phase # "none" ~> Terminal(file) \/ torn \/ file.phase = "none")
=============================================================================

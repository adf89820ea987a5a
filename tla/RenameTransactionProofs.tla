------------------------ MODULE RenameTransactionProofs ------------------------
(***************************************************************************)
(* Proofs that every transaction, whatever its size, names and batches,    *)
(* keeps the promises of RenameTransactionProps.                           *)
(***************************************************************************)
EXTENDS LoggedTransaction, NaturalLemmas, SequenceTheorems

-----------------------------------------------------------------------------
(***************************************************************************)
(* The replay of the records the executor writes.                          *)
(***************************************************************************)
LEMMA ReplayHeader == ApplyRecord(NoJournal, Header) = Mode("forward", 0, 0)
  BY DEF ApplyRecord, NoJournal, Header, Mode, Rec

LEMMA ReplayIntent ==
  ASSUME NEW n \in 0..StepCount-1, NEW e \in n+1..StepCount
  PROVE  ApplyRecord(Mode("forward", n, 0), ForwardIntent(n, e - n))
           = Mode("forward", n, e - n)
  BY NAssumption DEF ApplyRecord, ApplyForward, ForwardIntent, Mode, Rec, StepCount

LEMMA ReplayForwardStep ==
  ASSUME NEW n \in 0..StepCount-1, NEW k \in 1..StepCount
  PROVE  /\ ApplyRecord(Mode("forward", n, k), Rec("ForwardStepCompleted", n, 0))
              = Mode("forward", n + 1, k - 1)
         /\ ApplyRecord(Mode("forward", n, k), Rec("ForwardStepNotApplied", n, 0))
              = Mode("forward", n, 0)
  BY NAssumption DEF ApplyRecord, ApplyForward, Mode, Rec, StepCount

LEMMA ReplayRollbackStarted ==
  ASSUME NEW n \in 0..StepCount, NEW k \in 0..StepCount, NEW c \in Causes,
         c = "cancelled" \/ (c = "failed" /\ k > 0) \/ (c = "requested" /\ k = 0)
  PROVE  ApplyRecord(Mode("forward", n, k), RollbackStarted(c, n))
           = Mode("rollback", n, 0)
  BY NAssumption DEF ApplyRecord, ApplyForward, RollbackStarted, Mode, Rec, StepCount, Causes

LEMMA ReplayRollbackStep ==
  ASSUME NEW n \in 0..StepCount-1
  PROVE  /\ ApplyRecord(Mode("rollback", n + 1, 0), Rec("RollbackStepPrepared", n, 0))
              = Mode("rollback", n + 1, 1)
         /\ ApplyRecord(Mode("rollback", n + 1, 1), Rec("RollbackStepCompleted", n, 0))
              = Mode("rollback", n, 0)
         /\ ApplyRecord(Mode("rollback", n + 1, 1), Rec("RollbackStepNotApplied", n, 0))
              = Mode("rollback", n + 1, 0)
         /\ ApplyRecord(Mode("rollback", n + 1, 1), Rec("RollbackStepFailed", n, 0))
              = Mode("failed", n + 1, 0)
         /\ ApplyRecord(Mode("failed", n + 1, 0), Rec("RollbackRecoveryStarted", n, 0))
              = Mode("rollback", n + 1, 0)
  BY NAssumption DEF ApplyRecord, ApplyRollback, Mode, Rec, StepCount

LEMMA ReplayVerdict ==
  /\ ApplyRecord(Mode("forward", StepCount, 0), Rec("TransactionCompleted", 0, 0))
       = Mode("completed", StepCount, 0)
  /\ ApplyRecord(Mode("rollback", 0, 0), Rec("TransactionRolledBack", 0, 0))
       = Mode("rolledback", 0, 0)
  BY NAssumption DEF ApplyRecord, ApplyForward, ApplyRollback, Mode, Rec, StepCount

-----------------------------------------------------------------------------
(***************************************************************************)
(* The schedule and the names.                                             *)
(***************************************************************************)
\* A step moves its own source and no other.
LEMMA StepMovesItsSource ==
  ASSUME NEW i \in Steps
  PROVE  /\ SourceOf(i) \in Sources
         /\ LocationBefore(i) \in Locations /\ LocationAfter(i) \in Locations
         /\ LocationAt(SourceOf(i), i) = LocationBefore(i)
         /\ LocationAt(SourceOf(i), i + 1) = LocationAfter(i)
         /\ \A t \in Sources : t # SourceOf(i) => LocationAt(t, i + 1) = LocationAt(t, i)
  BY NAssumption DEF Steps, StepCount, Sources, SourceOf, LocationBefore,
                     LocationAfter, LocationAt, Locations

LEMMA NamesOfAStepDiffer ==
  ASSUME NEW i \in Steps
  PROVE  /\ NameOf(SourceOf(i), LocationBefore(i)) \in Names
         /\ NameOf(SourceOf(i), LocationAfter(i)) \in Names
         /\ NameOf(SourceOf(i), LocationBefore(i)) # NameOf(SourceOf(i), LocationAfter(i))
  BY NamesAssumption, StepMovesItsSource DEF NameOf, LocationBefore, LocationAfter

LEMMA AllOriginalAtStart == Init => Placed(0)
  <1> SUFFICES ASSUME Init, NEW s \in Sources, NEW n \in Names
               PROVE  dir[n] = s <=> n = NameOf(s, LocationAt(s, 0))
      BY DEF Placed
  <1>1. NameOf(s, LocationAt(s, 0)) = OriginalName[s]
      BY NAssumption DEF NameOf, LocationAt, Sources
  <1>2. CASE \E t \in Sources : n = OriginalName[t]
    <2>1. dir[n] \in Sources /\ n = OriginalName[dir[n]]
        BY <1>2 DEF Init
    <2> QED BY <1>1, <2>1, NamesAssumption
  <1>3. CASE ~ \E t \in Sources : n = OriginalName[t]
      BY <1>1, <1>3, EntriesAssumption DEF Init
  <1> QED BY <1>2, <1>3

\* A rename of s from where j steps put it to where k steps put it, if the
\* other sources are in the same place after j and after k steps.
LEMMA RenamePlaces ==
  ASSUME NEW j \in Int, NEW k \in Int, NEW s \in Sources,
         \A t \in Sources : t # s => LocationAt(t, k) = LocationAt(t, j),
         NEW from \in Names, NEW to \in Names, from # to,
         from = NameOf(s, LocationAt(s, j)), to = NameOf(s, LocationAt(s, k)),
         TypeOK, Placed(j), CanRename(s, from, to), Renamed(s, from, to)
  PROVE  Placed(k)'
  <1> SUFFICES ASSUME NEW t \in Sources, NEW n \in Names
               PROVE  dir'[n] = t <=> n = NameOf(t, LocationAt(t, k))
      BY DEF Placed
  <1>1. dir' = [dir EXCEPT ![from] = Nothing, ![to] = s] /\ DOMAIN dir = Names
      BY DEF Renamed, TypeOK
  <1>2. /\ dir[from] = s /\ dir[to] = Nothing
        /\ dir'[from] = Nothing /\ dir'[to] = s
        /\ n # from /\ n # to => dir'[n] = dir[n]
      BY <1>1 DEF CanRename
  <1>3. dir[n] = t <=> n = NameOf(t, LocationAt(t, j))
      BY DEF Placed
  <1>4. CASE t = s
      BY <1>2, <1>3, <1>4, EntriesAssumption
  <1>5. CASE t # s
    <2>1. dir[n] = t <=> dir'[n] = t
        BY <1>2, <1>5, EntriesAssumption
    <2> QED BY <1>3, <1>5, <2>1
  <1> QED BY <1>4, <1>5

LEMMA ForwardRenamePlaces ==
  ASSUME NEW i \in Steps, i = step, TypeOK, Placed(i),
         CanRename(SourceOf(i), ForwardFrom, ForwardTo),
         Renamed(SourceOf(i), ForwardFrom, ForwardTo)
  PROVE  Placed(i + 1)'
  <1>1. i \in Int /\ i + 1 \in Int
      BY NAssumption DEF Steps, StepCount
  <1> DEFINE s == SourceOf(i)
             from == NameOf(s, LocationBefore(i))
             to == NameOf(s, LocationAfter(i))
  <1>2. /\ s \in Sources /\ from \in Names /\ to \in Names /\ from # to
        /\ from = NameOf(s, LocationAt(s, i)) /\ to = NameOf(s, LocationAt(s, i + 1))
        /\ \A t \in Sources : t # s => LocationAt(t, i + 1) = LocationAt(t, i)
      BY StepMovesItsSource, NamesOfAStepDiffer
  <1>3. CanRename(s, from, to) /\ Renamed(s, from, to)
      BY DEF ForwardFrom, ForwardTo
  <1> HIDE DEF s, from, to
  <1> QED BY <1>1, <1>2, <1>3, RenamePlaces

LEMMA RollbackRenamePlaces ==
  ASSUME NEW i \in Steps, i = step, TypeOK, Placed(i + 1),
         CanRename(SourceOf(i), ForwardTo, ForwardFrom),
         Renamed(SourceOf(i), ForwardTo, ForwardFrom)
  PROVE  Placed(i)'
  <1>1. i \in Int /\ i + 1 \in Int
      BY NAssumption DEF Steps, StepCount
  <1> DEFINE s == SourceOf(i)
             from == NameOf(s, LocationAfter(i))
             to == NameOf(s, LocationBefore(i))
  <1>2. /\ s \in Sources /\ from \in Names /\ to \in Names /\ from # to
        /\ from = NameOf(s, LocationAt(s, i + 1)) /\ to = NameOf(s, LocationAt(s, i))
        /\ \A t \in Sources : t # s => LocationAt(t, i) = LocationAt(t, i + 1)
      BY StepMovesItsSource, NamesOfAStepDiffer
  <1>3. CanRename(s, from, to) /\ Renamed(s, from, to)
      BY DEF ForwardFrom, ForwardTo
  <1> HIDE DEF s, from, to
  <1> QED BY <1>1, <1>2, <1>3, RenamePlaces

\* Names that do not change, and entries of others that come and go.
LEMMA PlacedStays ==
  ASSUME NEW k \in Int, Placed(k),
         \A n \in Names : dir'[n] = dir[n] \/ (dir[n] \notin Sources /\ dir'[n] \notin Sources)
  PROVE  Placed(k)'
  BY DEF Placed

-----------------------------------------------------------------------------
(***************************************************************************)
(* What every append has in common.  M is the replay state it leads to.    *)
(***************************************************************************)
LEMMA ModesOfTheProtocol ==
  /\ NoJournal \in Modes
  /\ \A n, k \in 0..StepCount : n + k <= StepCount => Mode("forward", n, k) \in Modes
  /\ \A n \in 0..StepCount : Mode("rollback", n, 0) \in Modes
  /\ \A n \in 1..StepCount : /\ Mode("rollback", n, 1) \in Modes
                             /\ Mode("failed", n, 0) \in Modes
  /\ Mode("completed", StepCount, 0) \in Modes
  /\ Mode("rolledback", 0, 0) \in Modes
  BY NAssumption DEF Modes, Mode, NoJournal, Phases, StepCount

LEMMA AppendKeepsJournal ==
  ASSUME TypeOK, JournalReplays, NEW M \in Modes, M.phase # "rejected",
         file' = M, onDisk' = {M} \/ onDisk' = onDisk \cup {M}
  PROVE  /\ onDisk' \subseteq Modes /\ file' \in onDisk'
         /\ JournalReplays'
  BY DEF TypeOK, JournalReplays

LEMMA AppendKeepsNames ==
  ASSUME NamesFollowControl, NEW M, dir' = dir, onDisk' \subseteq onDisk \cup {M},
         \A k \in 0..StepCount : Progress(k) => Explains(M, k) /\ Progress(k)'
  PROVE  NamesFollowControl'
  <1> SUFFICES ASSUME NoTampering
               PROVE  \E k \in 0..StepCount :
                        /\ Placed(k)' /\ Progress(k)'
                        /\ \A m \in onDisk' : Explains(m, k)
      BY DEF NamesFollowControl, NoTampering
  <1>1. PICK k \in 0..StepCount :
          Placed(k) /\ Progress(k) /\ \A m \in onDisk : Explains(m, k)
      BY DEF NamesFollowControl
  <1>2. Placed(k)'
      BY <1>1 DEF Placed
  <1> QED BY <1>1, <1>2

\* An append that failed: the call returns, and either nothing is known to
\* have changed or the frame is there with its durability unknown.
LEMMA FailedAppendKeeps ==
  ASSUME IInv, dir' = dir, NEW M \in Modes, M.phase # "rejected",
         \A k \in 0..StepCount : Progress(k) => Explains(M, k),
         NEW o \in {"none", "notStarted", "recoveryRequired"}, Return(o),
         \/ file' = file /\ onDisk' = onDisk /\ torn' \in BOOLEAN
         \/ file' = M /\ onDisk' = onDisk \cup {M} /\ torn' = torn
  PROVE  IInv'
  <1>1. /\ onDisk' \subseteq Modes /\ file' \in onDisk' /\ JournalReplays'
      BY AppendKeepsJournal DEF IInv, TypeOK, JournalReplays
  <1>2. TypeOK'
      BY <1>1, NAssumption DEF IInv, TypeOK, Return, PcValues, Causes, Outcomes, StepCount
  <1>3. ControlMatchesJournal' /\ IntentIsDurable' /\ ReportedOutcomeIsTrue'
      BY DEF Return, ControlMatchesJournal, IntentIsDurable, ReportedOutcomeIsTrue
  <1>4. NamesFollowControl'
    <2>1. \A k \in 0..StepCount : Progress(k)'
        BY DEF Progress, Return
    <2> QED BY <2>1, AppendKeepsNames DEF IInv
  <1> QED BY <1>1, <1>2, <1>3, <1>4 DEF IInv

\* While a call is in progress the journal is open, so no verdict stands.
LEMMA NoVerdictInACall ==
  ASSUME IInv, pc # "idle"
  PROVE  file.phase \notin {"completed", "rolledback", "rejected"}
         /\ reported \notin {"completed", "rolledBack"}
  <1>1. pc \in PcValues /\ file \in onDisk
      BY DEF IInv, TypeOK
  <1>2. file.phase \in {"none", "forward", "rollback", "failed"}
      BY <1>1 DEF IInv, ControlMatchesJournal, PcValues, ForwardPc, RollbackPc, Mode, NoJournal
  <1> QED BY <1>1, <1>2 DEF IInv, ReportedOutcomeIsTrue, Mode

\* An append after which the call goes on.
LEMMA AppendKeeps ==
  ASSUME IInv, pc # "idle", dir' = dir, NEW M \in Modes, M.phase # "rejected",
         file' = M, onDisk' = {M} \/ onDisk' = onDisk \cup {M},
         torn' = torn, reported' = reported, pc' \in PcValues,
         step' \in 0..StepCount, batchEnd' \in 0..StepCount, cause' \in Causes,
         ControlMatchesJournal', IntentIsDurable',
         \A k \in 0..StepCount : Progress(k) => Explains(M, k) /\ Progress(k)'
  PROVE  IInv'
  <1>1. /\ onDisk' \subseteq Modes /\ file' \in onDisk' /\ JournalReplays'
      BY AppendKeepsJournal DEF IInv
  <1>2. TypeOK'
      BY <1>1 DEF IInv, TypeOK
  <1>3. ReportedOutcomeIsTrue'
      BY NoVerdictInACall DEF ReportedOutcomeIsTrue
  <1>4. NamesFollowControl'
      BY AppendKeepsNames DEF IInv
  <1> QED BY <1>1, <1>2, <1>3, <1>4 DEF IInv

\* Both ways to fail, for a record that leads to M.
LEMMA DurableFailsKeeps ==
  ASSUME IInv, dir' = dir, pc # "idle", NEW r, NEW M \in Modes, M.phase # "rejected",
         ApplyRecord(file, r) = M,
         \A k \in 0..StepCount : Progress(k) => Explains(M, k),
         NEW o \in {"none", "notStarted", "recoveryRequired"}, Return(o),
         DurableFails(r) \/ WriteFails
  PROVE  IInv'
  <1>1. \/ file' = file /\ onDisk' = onDisk /\ torn' \in BOOLEAN
        \/ file' = M /\ onDisk' = onDisk \cup {M} /\ torn' = torn
      BY DEF IInv, TypeOK, DurableFails, WriteFails, SyncFails, AppendBuffered
  <1> QED BY <1>1, FailedAppendKeeps

-----------------------------------------------------------------------------
(***************************************************************************)
(* The forward direction.                                                  *)
(***************************************************************************)
LEMMA ExecuteFrozenPlanKeeps ==
  ASSUME IInv, ExecuteFrozenPlan PROVE IInv'
  <1> DEFINE M == Mode("forward", 0, 0)
  <1>1. /\ pc = "start" /\ onDisk = {NoJournal} /\ file = NoJournal /\ dir' = dir
      BY DEF IInv, TypeOK, ControlMatchesJournal, ExecuteFrozenPlan
  <1>2. ApplyRecord(file, Header) = M /\ M \in Modes /\ M.phase # "rejected"
      BY <1>1, ReplayHeader, ModesOfTheProtocol, NAssumption DEF Mode, StepCount
  <1>3. \A k \in 0..StepCount : Progress(k) => Explains(M, k)
      BY <1>1 DEF Progress, Explains, Mode, NoJournal
  <1>4. CASE AppendDurable(Header) /\ Goto("forward.intent") /\ step' = 0
             /\ UNCHANGED <<batchEnd, cause>>
    <2>1. /\ file' = M /\ onDisk' = {M} /\ torn' = torn
          /\ pc' = "forward.intent" /\ step' = 0 /\ reported' = reported
        BY <1>2, <1>4 DEF AppendDurable, Goto
    <2>2. /\ pc' \in PcValues /\ step' \in 0..StepCount
          /\ batchEnd' \in 0..StepCount /\ cause' \in Causes
        BY <1>4, <2>1, NAssumption DEF IInv, TypeOK, PcValues, ForwardPc, StepCount
    <2>3. ControlMatchesJournal' /\ IntentIsDurable'
        BY <1>1, <2>1 DEF IInv, ControlMatchesJournal, IntentIsDurable
    <2>4. \A k \in 0..StepCount : Progress(k) => Progress(k)'
        BY <1>1, <2>1 DEF Progress, Mode, NoJournal
    <2> QED BY <1>1, <1>2, <1>3, <2>1, <2>2, <2>3, <2>4, AppendKeeps
  <1>5. CASE DurableFails(Header) /\ Return("notStarted")
      BY <1>1, <1>2, <1>3, <1>5, DurableFailsKeeps
  <1> QED BY <1>4, <1>5 DEF ExecuteFrozenPlan

LEMMA ForwardIntentKeeps ==
  ASSUME IInv, ForwardIntentStep PROVE IInv'
  <1>1. /\ pc = "forward.intent" /\ file = Mode("forward", step, 0) /\ dir' = dir
        /\ step \in 0..StepCount /\ StepCount \in Nat /\ torn = FALSE
      BY NAssumption DEF IInv, TypeOK, ControlMatchesJournal, ForwardIntentStep, StepCount
  <1>2. CASE step = StepCount
    <2>1. /\ pc' = "forward.complete" /\ reported' = reported
          /\ UNCHANGED <<dir, file, onDisk, torn, step, batchEnd, cause>>
        BY <1>1, <1>2 DEF ForwardIntentStep, Goto, journal, memory
    <2>2. TypeOK' /\ JournalReplays'
        BY <2>1 DEF IInv, TypeOK, JournalReplays, PcValues, ForwardPc
    <2>3. ControlMatchesJournal' /\ IntentIsDurable'
        BY <1>1, <1>2, <2>1 DEF IInv, ControlMatchesJournal, IntentIsDurable
    <2>4. NamesFollowControl'
        BY <1>1, <2>1 DEF IInv, NamesFollowControl, NoTampering, Progress, Placed
    <2>5. ReportedOutcomeIsTrue'
        BY <2>1, NoVerdictInACall, <1>1 DEF ReportedOutcomeIsTrue
    <2> QED BY <2>2, <2>3, <2>4, <2>5 DEF IInv
  <1>3. CASE step # StepCount
    <2> DEFINE e == ChunkEnd
               r == ForwardIntent(step, e - step)
               M == Mode("forward", step, e - step)
    <2>1. step \in 0..StepCount-1 /\ e \in step+1..StepCount
        BY <1>1, <1>3, BatchAssumption DEF ChunkEnd
    <2> HIDE DEF e
    <2>2. ApplyRecord(file, r) = M
        BY <1>1, <2>1, ReplayIntent
    <2>3. M \in Modes /\ M.phase # "rejected" /\ e - step \in 0..StepCount
      <3>1. e - step \in 0..StepCount /\ step + (e - step) <= StepCount
          BY <1>1, <2>1
      <3> QED BY <1>1, <3>1, ModesOfTheProtocol DEF Mode
    <2>4. \A k \in 0..StepCount : Progress(k) => Explains(M, k)
        BY <1>1, <2>1, <2>3 DEF Progress, Explains, Mode
    <2>5. CASE AppendDurable(r) /\ Goto("forward.step") /\ batchEnd' = e
               /\ UNCHANGED <<step, cause>>
      <3>1. /\ file' = M /\ onDisk' = {M} /\ torn' = torn
            /\ pc' = "forward.step" /\ reported' = reported
          BY <2>2, <2>5 DEF AppendDurable, Goto
      <3>2. /\ pc' \in PcValues /\ step' \in 0..StepCount
            /\ batchEnd' \in 0..StepCount /\ cause' \in Causes
          BY <1>1, <2>1, <2>5, <3>1 DEF IInv, TypeOK, PcValues, ForwardPc
      <3>3. ControlMatchesJournal' /\ IntentIsDurable'
          BY <1>1, <2>1, <2>5, <3>1 DEF IInv, ControlMatchesJournal, IntentIsDurable, Mode
      <3>4. \A k \in 0..StepCount : Progress(k) => Progress(k)'
          BY <1>1, <2>5, <3>1 DEF Progress, Mode
      <3> QED BY <1>1, <2>3, <2>4, <3>1, <3>2, <3>3, <3>4, AppendKeeps
    <2>6. CASE DurableFails(r) /\ Return("recoveryRequired")
        BY <1>1, <2>2, <2>3, <2>4, <2>6, DurableFailsKeeps
    <2> QED BY <1>3, <2>5, <2>6 DEF ForwardIntentStep, e
  <1> QED BY <1>2, <1>3

\* In the middle of a batch: what the invariant says there.
LEMMA InABatch ==
  ASSUME IInv, pc \in {"forward.step", "forward.record"}
  PROVE  /\ step \in Steps /\ step \in Nat /\ step + 1 \in 0..StepCount
         /\ batchEnd \in 1..StepCount /\ step < batchEnd /\ StepCount \in Nat
         /\ file = Mode("forward", step, batchEnd - step) /\ torn = FALSE
         /\ \A m \in onDisk : /\ m.phase = "forward" /\ m.next \in Nat /\ m.prepared \in Nat
                              /\ m.next <= step /\ m.next + m.prepared = batchEnd
  BY NAssumption DEF IInv, TypeOK, ControlMatchesJournal, IntentIsDurable, Modes,
                     Steps, StepCount

LEMMA LeaveTheBatch ==
  ASSUME IInv, pc = "forward.step", Goto("rollback.start"),
         cause' \in {"cancelled", "failed"},
         UNCHANGED <<dir, journal, step, batchEnd>>
  PROVE  IInv'
  <1>1. /\ pc' = "rollback.start" /\ reported' = reported
        /\ UNCHANGED <<dir, file, onDisk, torn, step, batchEnd>>
      BY DEF Goto, journal
  <1>2. TypeOK' /\ JournalReplays'
      BY <1>1 DEF IInv, TypeOK, JournalReplays, PcValues, RollbackPc, Causes
  <1>3. ControlMatchesJournal' /\ IntentIsDurable'
      BY <1>1, InABatch DEF ControlMatchesJournal, IntentIsDurable, Mode
  <1>4. NamesFollowControl'
      BY <1>1 DEF IInv, NamesFollowControl, NoTampering, Progress, Placed
  <1>5. ReportedOutcomeIsTrue'
      BY <1>1, NoVerdictInACall DEF ReportedOutcomeIsTrue
  <1> QED BY <1>2, <1>3, <1>4, <1>5 DEF IInv

LEMMA CancelKeeps ==
  ASSUME IInv, Cancel PROVE IInv'
  BY LeaveTheBatch DEF Cancel

LEMMA ForwardRenameFailsKeeps ==
  ASSUME IInv, ForwardRenameFails PROVE IInv'
  BY LeaveTheBatch DEF ForwardRenameFails

\* A rename leaves a directory.
LEMMA RenamedDir ==
  ASSUME TypeOK, NEW s \in Sources, NEW from \in Names, NEW to \in Names,
         Renamed(s, from, to)
  PROVE  dir' \in [Names -> Sources \cup {Foreign, Nothing}]
  BY DEF TypeOK, Renamed

LEMMA ForwardRenameKeeps ==
  ASSUME IInv, ForwardRename PROVE IInv'
  <1>1. /\ pc = "forward.step" /\ UNCHANGED <<file, onDisk, torn>>
        /\ CanRename(SourceOf(step), ForwardFrom, ForwardTo)
        /\ Renamed(SourceOf(step), ForwardFrom, ForwardTo)
        /\ \/ pc' = "forward.record" /\ reported' = reported
                /\ UNCHANGED <<step, batchEnd, cause>>
           \/ Return("recoveryRequired")
      BY DEF ForwardRename, journal, memory, Goto
  <1>2. dir' \in [Names -> Sources \cup {Foreign, Nothing}]
      BY <1>1, InABatch, StepMovesItsSource, NamesOfAStepDiffer, RenamedDir
      DEF IInv, ForwardFrom, ForwardTo
  <1>3. TypeOK' /\ JournalReplays'
    <2>1. /\ pc' \in PcValues /\ reported' \in Outcomes /\ cause' \in Causes
          /\ step' \in 0..StepCount /\ batchEnd' \in 0..StepCount
        BY <1>1, NAssumption
        DEF IInv, TypeOK, PcValues, ForwardPc, Return, Causes, Outcomes, StepCount
    <2> QED BY <1>1, <1>2, <2>1 DEF IInv, TypeOK, JournalReplays
  <1>4. ControlMatchesJournal' /\ IntentIsDurable'
      BY <1>1 DEF IInv, ControlMatchesJournal, IntentIsDurable, Return
  <1>5. ReportedOutcomeIsTrue'
      BY <1>1, NoVerdictInACall DEF ReportedOutcomeIsTrue, Return
  <1>6. NamesFollowControl'
    <2> SUFFICES ASSUME NoTampering
                 PROVE  \E k \in 0..StepCount :
                          /\ Placed(k)' /\ Progress(k)'
                          /\ \A m \in onDisk' : Explains(m, k)
        BY DEF NamesFollowControl, NoTampering
    <2>1. PICK i \in Steps : i = step /\ i + 1 \in 0..StepCount /\ i \in Nat
        BY <1>1, InABatch
    <2>2. Placed(i)
      <3>1. PICK k \in 0..StepCount : Placed(k) /\ Progress(k)
          BY DEF IInv, NamesFollowControl
      <3>2. k = i
          BY <1>1, <2>1, <3>1, InABatch DEF Progress, Mode
      <3> QED BY <3>1, <3>2
    <2>3. Placed(i + 1)'
        BY <1>1, <2>1, <2>2, ForwardRenamePlaces DEF IInv
    <2>4. Progress(i + 1)'
        BY <1>1, <2>1 DEF Progress, Return
    <2>5. \A m \in onDisk' : Explains(m, i + 1)
        BY <1>1, <2>1, InABatch DEF Explains
    <2> QED BY <2>1, <2>3, <2>4, <2>5
  <1> QED BY <1>3, <1>4, <1>5, <1>6 DEF IInv

LEMMA ForwardRecordKeeps ==
  ASSUME IInv, ForwardRecord PROVE IInv'
  <1> DEFINE r == Rec("ForwardStepCompleted", step, 0)
             M == Mode("forward", step + 1, batchEnd - step - 1)
  <1>1. pc = "forward.record" /\ dir' = dir
      BY DEF ForwardRecord
  <1>2. step \in 0..StepCount-1 /\ batchEnd - step \in 1..StepCount
      BY <1>1, InABatch DEF Steps
  <1>3. ApplyRecord(file, r) = M
      BY <1>1, <1>2, InABatch, ReplayForwardStep
  <1>4. M \in Modes /\ M.phase # "rejected"
    <2>1. /\ step + 1 \in 0..StepCount /\ batchEnd - step - 1 \in 0..StepCount
          /\ step + 1 + (batchEnd - step - 1) <= StepCount
        BY <1>1, InABatch
    <2> QED BY <2>1, ModesOfTheProtocol DEF Mode
  <1>5. \A k \in 0..StepCount : Progress(k) => Explains(M, k)
      BY <1>1, InABatch DEF Progress, Explains, Mode
  <1>6. CASE /\ AppendBuffered(r)
             /\ step' = step + 1
             /\ IF step + 1 < batchEnd
                THEN Goto("forward.step") /\ UNCHANGED batchEnd
                ELSE Goto("forward.intent") /\ batchEnd' = 0
             /\ UNCHANGED cause
    <2>1. /\ file' = M /\ onDisk' = onDisk \cup {M} /\ torn' = torn
          /\ step' = step + 1 /\ reported' = reported
        BY <1>3, <1>6 DEF AppendBuffered, Goto
    <2>2. /\ pc' \in PcValues /\ step' \in 0..StepCount
          /\ batchEnd' \in 0..StepCount /\ cause' \in Causes
      <3>1. step + 1 \in 0..StepCount /\ 0 \in 0..StepCount
          BY <1>1, InABatch
      <3>2. batchEnd' \in {0, batchEnd} /\ pc' \in {"forward.step", "forward.intent"}
          BY <1>6 DEF Goto
      <3> QED BY <1>6, <3>1, <3>2 DEF IInv, TypeOK, PcValues, ForwardPc
    <2>3. ControlMatchesJournal' /\ IntentIsDurable'
      <3>1. CASE step + 1 < batchEnd
        <4>1. pc' = "forward.step" /\ batchEnd' = batchEnd
            BY <1>6, <3>1 DEF Goto
        <4> QED BY <1>1, <2>1, <3>1, <4>1, InABatch
                DEF ControlMatchesJournal, IntentIsDurable, Mode
      <3>2. CASE ~(step + 1 < batchEnd)
        <4>1. pc' = "forward.intent" /\ step + 1 = batchEnd
            BY <1>1, <1>6, <3>2, InABatch DEF Goto
        <4>2. M = Mode("forward", step + 1, 0)
            BY <4>1, <1>1, InABatch
        <4> QED BY <1>1, <2>1, <4>1, <4>2, InABatch
                DEF ControlMatchesJournal, IntentIsDurable
      <3> QED BY <3>1, <3>2
    <2>4. \A k \in 0..StepCount : Progress(k) => Progress(k)'
        BY <1>1, <1>6, <2>1 DEF Progress, Mode, Goto
    <2> QED BY <1>1, <1>4, <1>5, <2>1, <2>2, <2>3, <2>4, AppendKeeps
  <1>7. CASE WriteFails /\ Return("recoveryRequired")
      BY <1>1, <1>3, <1>4, <1>5, <1>7, DurableFailsKeeps
  <1> QED BY <1>6, <1>7 DEF ForwardRecord

\* A call that ends in a verdict M on the disk.
LEMMA VerdictKeeps ==
  ASSUME IInv, pc # "idle", dir' = dir, torn' = torn,
         NEW o \in {"completed", "rolledBack"}, NEW v \in 0..StepCount,
         NEW M, M = Mode(IF o = "completed" THEN "completed" ELSE "rolledback", v, 0),
         v = (IF o = "completed" THEN StepCount ELSE 0),
         \A k \in 0..StepCount : Progress(k) => k = v,
         file' = M, onDisk' = {M}, Return(o)
  PROVE  IInv'
  <1>1. M \in Modes /\ M.phase # "rejected"
      BY ModesOfTheProtocol DEF Mode
  <1>2. /\ onDisk' \subseteq Modes /\ file' \in onDisk' /\ JournalReplays'
      BY <1>1, AppendKeepsJournal DEF IInv
  <1>3. TypeOK'
      BY <1>2, NAssumption DEF IInv, TypeOK, Return, PcValues, Causes, Outcomes, StepCount
  <1>4. ControlMatchesJournal' /\ IntentIsDurable'
      BY DEF ControlMatchesJournal, IntentIsDurable, Return
  <1>5. NoTampering => Placed(v)
      BY DEF IInv, NamesFollowControl
  <1>6. (NoTampering => Placed(v))'
      BY <1>5 DEF Placed, NoTampering
  <1>7. NamesFollowControl'
      BY <1>6 DEF NamesFollowControl, NoTampering, Progress, Explains, Mode, Return
  <1>8. ReportedOutcomeIsTrue'
      BY <1>6 DEF ReportedOutcomeIsTrue, Return, NoTampering
  <1> QED BY <1>2, <1>3, <1>4, <1>7, <1>8 DEF IInv

LEMMA CompleteTransactionKeeps ==
  ASSUME IInv, CompleteTransaction PROVE IInv'
  <1> DEFINE r == Rec("TransactionCompleted", 0, 0)
             M == Mode("completed", StepCount, 0)
  <1>1. /\ pc = "forward.complete" /\ dir' = dir
        /\ file = Mode("forward", StepCount, 0)
      BY DEF CompleteTransaction, IInv, ControlMatchesJournal
  <1>2. ApplyRecord(file, r) = M /\ M \in Modes /\ M.phase # "rejected"
      BY <1>1, ReplayVerdict, ModesOfTheProtocol DEF Mode
  <1>3. \A k \in 0..StepCount : Progress(k) => k = StepCount
      BY <1>1 DEF Progress, Mode
  <1>4. CASE AppendDurable(r) /\ Return("completed")
    <2>1. file' = M /\ onDisk' = {M} /\ torn' = torn
        BY <1>2, <1>4 DEF AppendDurable
    <2>2. StepCount \in 0..StepCount
        BY NAssumption DEF StepCount
    <2> HIDE DEF M
    <2> QED BY <1>1, <1>3, <1>4, <2>1, <2>2, VerdictKeeps DEF M
  <1>5. CASE DurableFails(r) /\ Return("recoveryRequired")
    <2>1. \A k \in 0..StepCount : Progress(k) => Explains(M, k)
        BY <1>3 DEF Explains, Mode
    <2> QED BY <1>1, <1>2, <1>5, <2>1, DurableFailsKeeps
  <1> QED BY <1>4, <1>5 DEF CompleteTransaction

-----------------------------------------------------------------------------
(***************************************************************************)
(* The rollback direction.                                                 *)
(***************************************************************************)
\* The rollback goes on below step n, or is complete.
LEMMA RollbackGoesOn ==
  ASSUME IInv, pc # "idle", NEW n \in 0..StepCount, dir' = dir, torn' = torn,
         file' = Mode("rollback", n, 0), onDisk' = {file'} \/ onDisk' = onDisk \cup {file'},
         IF n = 0 THEN Goto("rollback.complete") /\ step' = 0
                  ELSE Goto("rollback.intent") /\ step' = n - 1,
         batchEnd' \in {0, batchEnd}, cause' \in {"none", cause},
         \A k \in 0..StepCount : Progress(k) => k = n
  PROVE  IInv'
  <1> DEFINE M == Mode("rollback", n, 0)
  <1>1. M \in Modes /\ M.phase = "rollback" /\ M.next = n /\ M.prepared = 0
      BY ModesOfTheProtocol DEF Mode
  <1>2. StepCount \in Nat /\ n \in Nat
      BY NAssumption DEF StepCount
  <1>3. /\ reported' = reported /\ pc' \in {"rollback.complete", "rollback.intent"}
        /\ step' \in 0..StepCount
      BY <1>2 DEF Goto
  <1>4. pc' \in PcValues /\ batchEnd' \in 0..StepCount /\ cause' \in Causes
      BY <1>2, <1>3 DEF IInv, TypeOK, PcValues, RollbackPc, Causes
  <1>5. ControlMatchesJournal' /\ IntentIsDurable'
    <2>1. CASE n = 0
        BY <2>1 DEF IInv, ControlMatchesJournal, IntentIsDurable, Goto
    <2>2. CASE n # 0
      <3>1. step' + 1 = n
          BY <1>2, <2>2
      <3> QED BY <2>2, <3>1 DEF IInv, ControlMatchesJournal, IntentIsDurable, Goto
    <2> QED BY <2>1, <2>2
  <1>6. \A k \in 0..StepCount : Progress(k) => Explains(M, k) /\ Progress(k)'
      BY <1>1, <1>2, <1>3 DEF Explains, Progress
  <1> HIDE DEF M
  <1> QED BY <1>1, <1>3, <1>4, <1>5, <1>6, AppendKeeps DEF M

LEMMA StartRollbackKeeps ==
  ASSUME IInv, StartRollback PROVE IInv'
  <1> DEFINE r == RollbackStarted(cause, step)
             M == Mode("rollback", step, 0)
  <1>1. /\ pc = "rollback.start" /\ dir' = dir /\ StepCount \in Nat
        /\ step \in 0..StepCount /\ cause \in Causes
      BY NAssumption DEF StartRollback, IInv, TypeOK, StepCount
  <1>2. PICK k \in 0..StepCount : /\ file = Mode("forward", step, k)
                                  /\ \/ cause = "cancelled"
                                     \/ cause = "failed" /\ k > 0
                                     \/ cause = "requested" /\ k = 0
    <2>1. file = Mode("forward", step, file.prepared) /\ file.prepared \in 0..StepCount
        BY <1>1 DEF IInv, TypeOK, Modes, ControlMatchesJournal, Mode
    <2> QED BY <1>1, <2>1 DEF IInv, ControlMatchesJournal
  <1>3. ApplyRecord(file, r) = M
      BY <1>1, <1>2, ReplayRollbackStarted
  <1>4. M \in Modes /\ M.phase # "rejected"
      BY <1>1, ModesOfTheProtocol DEF Mode
  <1>5. \A n \in 0..StepCount : Progress(n) => n = step
      BY <1>1, <1>2 DEF Progress, Mode
  <1>6. \A n \in 0..StepCount : Progress(n) => Explains(M, n)
      BY <1>1, <1>5 DEF Explains, Mode
  <1>7. CASE /\ AppendDurable(r)
             /\ IF step = 0 THEN Goto("rollback.complete") /\ step' = 0
                            ELSE Goto("rollback.intent") /\ step' = step - 1
             /\ batchEnd' = 0 /\ cause' = "none"
    <2>1. file' = M /\ onDisk' = {M} /\ torn' = torn
        BY <1>3, <1>7 DEF AppendDurable
    <2> QED BY <1>1, <1>5, <1>7, <2>1, RollbackGoesOn
  <1>8. CASE DurableFails(r) /\ Return("recoveryRequired")
      BY <1>1, <1>3, <1>4, <1>6, <1>8, DurableFailsKeeps
  <1> QED BY <1>7, <1>8 DEF StartRollback

LEMMA RollbackIntentKeeps ==
  ASSUME IInv, RollbackIntentStep PROVE IInv'
  <1> DEFINE r == Rec("RollbackStepPrepared", step, 0)
             M == Mode("rollback", step + 1, 1)
  <1>1. /\ pc = "rollback.intent" /\ dir' = dir /\ StepCount \in Nat
        /\ file = Mode("rollback", step + 1, 0)
        /\ step \in 0..StepCount-1 /\ step + 1 \in 1..StepCount
    <2>1. /\ pc = "rollback.intent" /\ dir' = dir /\ StepCount \in Nat
          /\ file = Mode("rollback", step + 1, 0)
          /\ step \in 0..StepCount /\ file.next \in 0..StepCount
        BY NAssumption
        DEF RollbackIntentStep, IInv, TypeOK, ControlMatchesJournal, StepCount, Modes
    <2> QED BY <2>1 DEF Mode
  <1>2. ApplyRecord(file, r) = M /\ M \in Modes /\ M.phase # "rejected"
      BY <1>1, ReplayRollbackStep, ModesOfTheProtocol DEF Mode
  <1>3. \A k \in 0..StepCount : Progress(k) => Explains(M, k)
      BY <1>1 DEF Progress, Explains, Mode
  <1>4. CASE AppendDurable(r) /\ Goto("rollback.step") /\ UNCHANGED memory
    <2>1. /\ file' = M /\ onDisk' = {M} /\ torn' = torn /\ reported' = reported
          /\ pc' = "rollback.step" /\ UNCHANGED <<step, batchEnd, cause>>
        BY <1>2, <1>4 DEF AppendDurable, Goto, memory
    <2>2. /\ pc' \in PcValues /\ step' \in 0..StepCount
          /\ batchEnd' \in 0..StepCount /\ cause' \in Causes
        BY <2>1 DEF IInv, TypeOK, PcValues, RollbackPc
    <2>3. ControlMatchesJournal' /\ IntentIsDurable'
        BY <1>1, <2>1 DEF IInv, ControlMatchesJournal, IntentIsDurable
    <2>4. \A k \in 0..StepCount : Progress(k) => Progress(k)'
        BY <1>1, <2>1 DEF Progress, Mode
    <2> QED BY <1>1, <1>2, <1>3, <2>1, <2>2, <2>3, <2>4, AppendKeeps
  <1>5. CASE DurableFails(r) /\ Return("recoveryRequired")
      BY <1>1, <1>2, <1>3, <1>5, DurableFailsKeeps
  <1> QED BY <1>4, <1>5 DEF RollbackIntentStep

\* Between the intent of a rollback step and its completion.
LEMMA InARollbackStep ==
  ASSUME IInv, pc \in {"rollback.step", "rollback.record", "rollback.failed"}
  PROVE  /\ step \in Steps /\ step \in Nat /\ step \in 0..StepCount-1
         /\ step + 1 \in 1..StepCount /\ StepCount \in Nat /\ torn = FALSE
         /\ file = Mode("rollback", step + 1, 1) /\ onDisk = {file}
  BY NAssumption DEF IInv, TypeOK, ControlMatchesJournal, IntentIsDurable, Modes, Mode,
                     Steps, StepCount

LEMMA RollbackRenameKeeps ==
  ASSUME IInv, RollbackRename PROVE IInv'
  <1>1. /\ pc = "rollback.step" /\ UNCHANGED <<file, onDisk, torn>>
        /\ CanRename(SourceOf(step), ForwardTo, ForwardFrom)
        /\ Renamed(SourceOf(step), ForwardTo, ForwardFrom)
        /\ \/ pc' = "rollback.record" /\ reported' = reported
                /\ UNCHANGED <<step, batchEnd, cause>>
           \/ Return("recoveryRequired")
      BY DEF RollbackRename, journal, memory, Goto
  <1>2. dir' \in [Names -> Sources \cup {Foreign, Nothing}]
      BY <1>1, InARollbackStep, StepMovesItsSource, NamesOfAStepDiffer, RenamedDir
      DEF IInv, ForwardFrom, ForwardTo
  <1>3. TypeOK' /\ JournalReplays'
    <2>1. /\ pc' \in PcValues /\ reported' \in Outcomes /\ cause' \in Causes
          /\ step' \in 0..StepCount /\ batchEnd' \in 0..StepCount
        BY <1>1, NAssumption
        DEF IInv, TypeOK, PcValues, RollbackPc, Return, Causes, Outcomes, StepCount
    <2> QED BY <1>1, <1>2, <2>1 DEF IInv, TypeOK, JournalReplays
  <1>4. ControlMatchesJournal' /\ IntentIsDurable'
      BY <1>1 DEF IInv, ControlMatchesJournal, IntentIsDurable, Return
  <1>5. ReportedOutcomeIsTrue'
      BY <1>1, NoVerdictInACall DEF ReportedOutcomeIsTrue, Return
  <1>6. NamesFollowControl'
    <2> SUFFICES ASSUME NoTampering
                 PROVE  \E k \in 0..StepCount :
                          /\ Placed(k)' /\ Progress(k)'
                          /\ \A m \in onDisk' : Explains(m, k)
        BY DEF NamesFollowControl, NoTampering
    <2>1. PICK i \in Steps : i = step /\ i \in 0..StepCount /\ i \in Nat
        BY <1>1, InARollbackStep
    <2>2. Placed(i + 1)
      <3>1. PICK k \in 0..StepCount : Placed(k) /\ Progress(k)
          BY DEF IInv, NamesFollowControl
      <3>2. k = i + 1
          BY <1>1, <2>1, <3>1, InARollbackStep DEF Progress, Mode
      <3> QED BY <3>1, <3>2
    <2>3. Placed(i)'
        BY <1>1, <2>1, <2>2, RollbackRenamePlaces DEF IInv
    <2>4. Progress(i)'
        BY <1>1, <2>1 DEF Progress, Return
    <2>5. \A m \in onDisk' : Explains(m, i)
        BY <1>1, <2>1, InARollbackStep DEF Explains, Mode
    <2> QED BY <2>1, <2>3, <2>4, <2>5
  <1> QED BY <1>3, <1>4, <1>5, <1>6 DEF IInv

LEMMA RollbackRenameFailsKeeps ==
  ASSUME IInv, RollbackRenameFails PROVE IInv'
  <1>1. /\ pc = "rollback.step" /\ pc' = "rollback.failed" /\ reported' = reported
        /\ UNCHANGED <<dir, file, onDisk, torn, step, batchEnd, cause>>
      BY DEF RollbackRenameFails, Goto, journal, memory
  <1>2. TypeOK' /\ JournalReplays'
      BY <1>1 DEF IInv, TypeOK, JournalReplays, PcValues, RollbackPc
  <1>3. ControlMatchesJournal' /\ IntentIsDurable'
      BY <1>1 DEF IInv, ControlMatchesJournal, IntentIsDurable
  <1>4. NamesFollowControl'
      BY <1>1 DEF IInv, NamesFollowControl, NoTampering, Progress, Placed
  <1>5. ReportedOutcomeIsTrue'
      BY <1>1, NoVerdictInACall DEF ReportedOutcomeIsTrue
  <1> QED BY <1>2, <1>3, <1>4, <1>5 DEF IInv

LEMMA RollbackRecordKeeps ==
  ASSUME IInv, RollbackRecord PROVE IInv'
  <1> DEFINE r == Rec("RollbackStepCompleted", step, 0)
             M == Mode("rollback", step, 0)
  <1>1. pc = "rollback.record" /\ dir' = dir
      BY DEF RollbackRecord
  <1>2. step \in 0..StepCount /\ ApplyRecord(file, r) = M
      BY <1>1, InARollbackStep, ReplayRollbackStep
  <1>3. M \in Modes /\ M.phase # "rejected"
      BY <1>2, ModesOfTheProtocol DEF Mode
  <1>4. \A k \in 0..StepCount : Progress(k) => k = step
      BY <1>1 DEF Progress
  <1>5. CASE /\ AppendBuffered(r)
             /\ IF step = 0 THEN Goto("rollback.complete") /\ step' = 0
                            ELSE Goto("rollback.intent") /\ step' = step - 1
             /\ UNCHANGED <<batchEnd, cause>>
    <2>1. file' = M /\ onDisk' = onDisk \cup {M} /\ torn' = torn
        BY <1>2, <1>5 DEF AppendBuffered
    <2> QED BY <1>1, <1>2, <1>4, <1>5, <2>1, RollbackGoesOn
  <1>6. CASE WriteFails /\ Return("recoveryRequired")
    <2>1. \A k \in 0..StepCount : Progress(k) => Explains(M, k)
        BY <1>2, <1>4 DEF Explains, Mode
    <2> QED BY <1>1, <1>2, <1>3, <1>6, <2>1, DurableFailsKeeps
  <1> QED BY <1>5, <1>6 DEF RollbackRecord

LEMMA RollbackFailedKeeps ==
  ASSUME IInv, RollbackFailed PROVE IInv'
  <1> DEFINE r == Rec("RollbackStepFailed", step, 0)
             M == Mode("failed", step + 1, 0)
  <1>1. pc = "rollback.failed" /\ dir' = dir /\ Return("recoveryRequired")
      BY DEF RollbackFailed
  <1>2. ApplyRecord(file, r) = M /\ M \in Modes /\ M.phase # "rejected"
      BY <1>1, InARollbackStep, ReplayRollbackStep, ModesOfTheProtocol DEF Mode
  <1>3. \A k \in 0..StepCount : Progress(k) => k = step + 1 /\ Explains(M, k)
      BY <1>1, InARollbackStep DEF Progress, Explains, Mode
  <1>4. CASE AppendDurable(r)
    <2>1. file' = M /\ onDisk' = {M} /\ torn' = torn
        BY <1>2, <1>4 DEF AppendDurable
    <2>2. /\ onDisk' \subseteq Modes /\ file' \in onDisk' /\ JournalReplays'
        BY <1>2, <2>1, AppendKeepsJournal DEF IInv
    <2>3. TypeOK'
        BY <1>1, <2>1, <2>2, NAssumption
        DEF IInv, TypeOK, Return, PcValues, Causes, Outcomes, StepCount
    <2>4. ControlMatchesJournal' /\ IntentIsDurable' /\ ReportedOutcomeIsTrue'
        BY <1>1 DEF ControlMatchesJournal, IntentIsDurable, ReportedOutcomeIsTrue, Return
    <2>5. \A k \in 0..StepCount : Progress(k)'
        BY <1>1 DEF Progress, Return
    <2>6. NamesFollowControl'
        BY <1>1, <1>3, <2>1, <2>5, AppendKeepsNames DEF IInv
    <2> QED BY <2>2, <2>3, <2>4, <2>6 DEF IInv
  <1>5. CASE DurableFails(r)
      BY <1>1, <1>2, <1>3, <1>5, DurableFailsKeeps
  <1> QED BY <1>4, <1>5 DEF RollbackFailed

LEMMA CompleteRollbackKeeps ==
  ASSUME IInv, CompleteRollback PROVE IInv'
  <1> DEFINE r == Rec("TransactionRolledBack", 0, 0)
             M == Mode("rolledback", 0, 0)
  <1>1. /\ pc = "rollback.complete" /\ dir' = dir /\ file = Mode("rollback", 0, 0)
      BY DEF CompleteRollback, IInv, ControlMatchesJournal
  <1>2. ApplyRecord(file, r) = M /\ M \in Modes /\ M.phase # "rejected"
      BY <1>1, ReplayVerdict, ModesOfTheProtocol DEF Mode
  <1>3. \A k \in 0..StepCount : Progress(k) => k = 0
      BY <1>1 DEF Progress, Mode
  <1>4. CASE AppendDurable(r) /\ Return("rolledBack")
    <2>1. file' = M /\ onDisk' = {M} /\ torn' = torn
        BY <1>2, <1>4 DEF AppendDurable
    <2>2. 0 \in 0..StepCount
        BY NAssumption DEF StepCount
    <2> HIDE DEF M
    <2> QED BY <1>1, <1>3, <1>4, <2>1, <2>2, VerdictKeeps DEF M
  <1>5. CASE DurableFails(r) /\ Return("recoveryRequired")
    <2>1. \A k \in 0..StepCount : Progress(k) => Explains(M, k)
        BY <1>3 DEF Explains, Mode
    <2> QED BY <1>1, <1>2, <1>5, <2>1, DurableFailsKeeps
  <1> QED BY <1>4, <1>5 DEF CompleteRollback

-----------------------------------------------------------------------------
(***************************************************************************)
(* Recovery.                                                               *)
(***************************************************************************)
\* A location at which a name of source s resolves to s, when k steps are
\* applied, is the one place where s is, or has the same name.
LEMMA OwnedWhenPlaced ==
  ASSUME NEW k \in 0..StepCount, Placed(k), NEW s \in Sources, NEW l \in Locations,
         Owned(s) = {l}
  PROVE  LocationAt(s, k) = l
  <1>1. LocationAt(s, k) \in Locations
      BY DEF LocationAt, Locations
  <1>2. NameOf(s, LocationAt(s, k)) \in Names
      BY <1>1, NamesAssumption DEF NameOf
  <1>3. dir[NameOf(s, LocationAt(s, k))] = s
      BY <1>2 DEF Placed
  <1>4. LocationAt(s, k) \in Owned(s)
      BY <1>1, <1>3 DEF Owned
  <1> QED BY <1>4

\* Replay accepts the record of a reconciliation; it closes the prepared step.
LEMMA ReconciliationReplays ==
  ASSUME NEW m \in Modes, ReconciliationRequired(m)
  PROVE  LET M == ApplyRecord(m, ReconcileRecord(m))
             i == PreparedStep(m)
         IN  /\ i \in Steps /\ M \in Modes
             /\ m.phase = "forward" =>
                  /\ i = m.next
                  /\ M = IF StepApplied(m) THEN Mode("forward", i + 1, m.prepared - 1)
                                           ELSE Mode("forward", i, 0)
             /\ m.phase = "rollback" =>
                  /\ i = m.next - 1 /\ m.prepared = 1
                  /\ M = IF StepApplied(m) THEN Mode("rollback", i, 0)
                                           ELSE Mode("rollback", i + 1, 0)
  <1> DEFINE i == PreparedStep(m)
             M == ApplyRecord(m, ReconcileRecord(m))
  <1>1. /\ StepCount \in Nat /\ m = Mode(m.phase, m.next, m.prepared)
        /\ m.next \in 0..StepCount /\ m.prepared \in 1..StepCount
        /\ m.phase \in {"forward", "rollback"}
      BY NAssumption DEF Modes, Mode, ReconciliationRequired, StepCount
  <1>2. CASE m.phase = "forward"
    <2>1. i = m.next /\ m.next + m.prepared <= StepCount /\ i \in 0..StepCount-1
        BY <1>1, <1>2 DEF PreparedStep, Modes
    <2>2. CASE StepApplied(m)
      <3>1. M = Mode("forward", i + 1, m.prepared - 1)
          BY <1>1, <1>2, <2>1, <2>2, ReplayForwardStep DEF ReconcileRecord
      <3>2. /\ i + 1 \in 0..StepCount /\ m.prepared - 1 \in 0..StepCount
            /\ i + 1 + (m.prepared - 1) <= StepCount
          BY <1>1, <2>1
      <3> QED BY <1>2, <2>1, <2>2, <3>1, <3>2, ModesOfTheProtocol DEF Steps
    <2>3. CASE ~StepApplied(m)
      <3>1. M = Mode("forward", i, 0)
          BY <1>1, <1>2, <2>1, <2>3, ReplayForwardStep DEF ReconcileRecord
      <3>2. i \in 0..StepCount /\ 0 \in 0..StepCount /\ i + 0 <= StepCount
          BY <1>1, <2>1
      <3> QED BY <1>2, <2>1, <2>3, <3>1, <3>2, ModesOfTheProtocol DEF Steps
    <2> QED BY <2>2, <2>3
  <1>3. CASE m.phase = "rollback"
    <2>1. i = m.next - 1 /\ m.prepared = 1 /\ i \in 0..StepCount-1 /\ m.next = i + 1
        BY <1>1, <1>3 DEF PreparedStep, Modes
    <2>2. i \in 0..StepCount /\ i + 1 \in 0..StepCount
        BY <1>1, <2>1
    <2>3. M = IF StepApplied(m) THEN Mode("rollback", i, 0) ELSE Mode("rollback", i + 1, 0)
        BY <1>1, <1>3, <2>1, ReplayRollbackStep DEF ReconcileRecord
    <2>4. M \in Modes
        BY <2>2, <2>3, ModesOfTheProtocol
    <2> QED BY <1>3, <2>1, <2>3, <2>4 DEF Steps
  <1> QED BY <1>1, <1>2, <1>3

\* What a reconciliation records is what happened.
LEMMA ReconciliationIsTrue ==
  ASSUME NEW m \in Modes, ReconciliationRequired(m), NEW k \in 0..StepCount,
         Placed(k), Explains(m, k), StepApplied(m) \/ StepNotApplied(m)
  PROVE  Explains(ApplyRecord(m, ReconcileRecord(m)), k)
  <1> DEFINE i == PreparedStep(m)
             M == ApplyRecord(m, ReconcileRecord(m))
  <1>1. /\ N \in Nat /\ StepCount = 2*N /\ i \in Steps /\ i \in Int
        /\ m.next \in Int /\ m.prepared \in Int
        /\ m.phase \in {"forward", "rollback"}
      BY NAssumption, ReconciliationReplays
      DEF Modes, ReconciliationRequired, StepCount, Steps
  <1>2. /\ StepApplied(m) => LocationAt(SourceOf(i), k) = TargetLocation(m)
        /\ StepNotApplied(m) => LocationAt(SourceOf(i), k) = SourceLocation(m)
      BY <1>1, StepMovesItsSource, OwnedWhenPlaced
      DEF StepApplied, StepNotApplied, TargetLocation, SourceLocation
  <1>3. /\ LocationAt(SourceOf(i), k) = LocationAfter(i) => k >= i + 1
        /\ LocationAt(SourceOf(i), k) = LocationBefore(i) => k <= i
      BY <1>1 DEF LocationAt, LocationAfter, LocationBefore, SourceOf, Steps
  <1>4. CASE m.phase = "forward" /\ StepApplied(m)
    <2>1. k >= i + 1 /\ k <= m.next + m.prepared
        BY <1>2, <1>3, <1>4 DEF TargetLocation, Explains
    <2> QED BY <1>1, <1>4, <2>1, ReconciliationReplays DEF Explains, Mode
  <1>5. CASE m.phase = "forward" /\ ~StepApplied(m)
    <2>1. k <= i /\ m.next <= k
        BY <1>2, <1>3, <1>5 DEF SourceLocation, Explains
    <2> QED BY <1>1, <1>5, <2>1, ReconciliationReplays DEF Explains, Mode
  <1>6. CASE m.phase = "rollback" /\ StepApplied(m)
    <2>1. k <= i /\ m.next - m.prepared <= k
        BY <1>2, <1>3, <1>6 DEF TargetLocation, Explains
    <2> QED BY <1>1, <1>6, <2>1, ReconciliationReplays DEF Explains, Mode
  <1>7. CASE m.phase = "rollback" /\ ~StepApplied(m)
    <2>1. k >= i + 1 /\ k <= m.next
        BY <1>2, <1>3, <1>7 DEF SourceLocation, Explains
    <2> QED BY <1>1, <1>7, <2>1, ReconciliationReplays DEF Explains, Mode
  <1> QED BY <1>1, <1>4, <1>5, <1>6, <1>7

LEMMA ReconcileKeeps ==
  ASSUME IInv, ReconcilePreparedStep PROVE IInv'
  <1> DEFINE r == ReconcileRecord(file)
             M == ApplyRecord(file, r)
  <1>1. /\ pc = "idle" /\ ReconciliationRequired(file) /\ file \in Modes /\ file \in onDisk
        /\ StepApplied(file) \/ StepNotApplied(file)
        /\ UNCHANGED <<dir, pc, step, batchEnd, cause, reported>>
      BY DEF ReconcilePreparedStep, IInv, TypeOK, memory
  <1>2. M \in Modes /\ M.phase \in {"forward", "rollback"}
      BY <1>1, ReconciliationReplays DEF ReconciliationRequired, Mode
  <1>3. \/ file' = file /\ onDisk' = onDisk /\ torn' \in BOOLEAN
        \/ file' = M /\ (onDisk' = {M} \/ onDisk' = onDisk \cup {M}) /\ torn' = torn
      BY DEF ReconcilePreparedStep, IInv, TypeOK, AppendDurable, DurableFails, WriteFails,
             SyncFails, AppendBuffered
  <1>4. /\ onDisk' \subseteq Modes /\ file' \in onDisk' /\ JournalReplays'
      BY <1>1, <1>2, <1>3, AppendKeepsJournal DEF IInv, TypeOK, JournalReplays
  <1>5. TypeOK'
      BY <1>1, <1>3, <1>4 DEF IInv, TypeOK
  <1>6. ControlMatchesJournal' /\ IntentIsDurable'
      BY <1>1 DEF ControlMatchesJournal, IntentIsDurable
  <1>7. reported \notin {"completed", "rolledBack"}
      BY <1>1 DEF IInv, ReportedOutcomeIsTrue, ReconciliationRequired, Mode
  <1>8. ReportedOutcomeIsTrue'
      BY <1>1, <1>7 DEF ReportedOutcomeIsTrue
  <1>9. NamesFollowControl'
    <2> SUFFICES ASSUME NoTampering
                 PROVE  \E k \in 0..StepCount :
                          /\ Placed(k)' /\ Progress(k)'
                          /\ \A m \in onDisk' : Explains(m, k)
        BY DEF NamesFollowControl, NoTampering
    <2>1. PICK k \in 0..StepCount : Placed(k) /\ \A m \in onDisk : Explains(m, k)
        BY DEF IInv, NamesFollowControl
    <2>2. Explains(M, k)
        BY <1>1, <2>1, ReconciliationIsTrue
    <2>3. Placed(k)' /\ Progress(k)'
        BY <1>1, <2>1 DEF Placed, Progress
    <2> QED BY <1>3, <2>1, <2>2, <2>3
  <1> QED BY <1>4, <1>5, <1>6, <1>8, <1>9 DEF IInv

LEMMA RecoverKeeps ==
  ASSUME IInv, RecoverTransaction PROVE IInv'
  <1>1. /\ pc = "idle" /\ torn = FALSE /\ file \in Modes /\ file \in onDisk
        /\ UNCHANGED <<dir, file, onDisk, torn, batchEnd, reported>>
        /\ cause \in Causes /\ step \in 0..StepCount /\ StepCount \in Nat
    <2>1. torn = FALSE
        BY Zenon DEF RecoverTransaction, IInv, TypeOK
    <2>2. pc = "idle" /\ UNCHANGED <<dir, file, onDisk, torn, batchEnd, reported>>
        BY DEF RecoverTransaction, Resume, RequestRollback, Goto, journal
    <2>3. StepCount \in Nat
        BY NAssumption DEF StepCount
    <2> QED BY <2>1, <2>2, <2>3 DEF IInv, TypeOK
  <1>2. /\ file = Mode(file.phase, file.next, file.prepared)
        /\ file.next \in 0..StepCount /\ file.prepared \in 0..StepCount
        /\ file.phase = "failed" => file.next > 0 /\ file.prepared = 0
      BY <1>1 DEF Modes, Mode
  <1>3. \/ /\ ForwardPending(file) /\ pc' = "forward.intent"
           /\ step' = file.next /\ cause' = cause
        \/ /\ CompletionPending(file) /\ pc' = "forward.complete"
           /\ step' = step /\ cause' = cause
        \/ /\ RollbackPending(file) /\ pc' = "rollback.intent"
           /\ step' = file.next - 1 /\ cause' = cause
        \/ /\ RollbackCompletionPending(file) /\ pc' = "rollback.complete"
           /\ step' = step /\ cause' = cause
        \/ /\ RecoveryRequired(file) /\ pc' = "rollback.retry"
           /\ step' = file.next - 1 /\ cause' = cause
        \/ /\ ForwardPending(file) \/ CompletionPending(file)
           /\ pc' = "rollback.start" /\ step' = file.next /\ cause' = "requested"
      BY DEF RecoverTransaction, Resume, RequestRollback, Goto
  <1>4. file.phase \in {"forward", "rollback", "failed"} /\ file.prepared = 0
      BY <1>2, <1>3 DEF ForwardPending, CompletionPending, RollbackPending,
                        RollbackCompletionPending, RecoveryRequired
  <1>5. TypeOK' /\ JournalReplays'
    <2>1. /\ pc' \in PcValues /\ cause' \in Causes /\ step' \in 0..StepCount
        BY <1>1, <1>2, <1>3
        DEF PcValues, ForwardPc, RollbackPc, Causes, RollbackPending, RecoveryRequired
    <2> QED BY <1>1, <2>1 DEF IInv, TypeOK, JournalReplays
  <1>6. ControlMatchesJournal'
    <2>1. /\ pc' = "forward.intent" => file = Mode("forward", step', 0)
          /\ pc' = "forward.complete" => file = Mode("forward", StepCount, 0)
          /\ pc' = "rollback.start" => /\ file.phase = "forward" /\ file.next = step'
                                       /\ cause' = "requested" /\ file.prepared = 0
        BY <1>2, <1>3 DEF ForwardPending, CompletionPending
    <2>2. /\ pc' = "rollback.intent" => file = Mode("rollback", step' + 1, 0)
          /\ pc' = "rollback.retry" => file = Mode("failed", step' + 1, 0)
          /\ pc' = "rollback.complete" => file = Mode("rollback", 0, 0)
      <3>1. file.next - 1 + 1 = file.next
          BY <1>2
      <3> QED BY <1>2, <1>3, <3>1
              DEF RollbackPending, RollbackCompletionPending, RecoveryRequired
    <2> QED BY <1>1, <1>3, <2>1, <2>2 DEF ControlMatchesJournal
  <1>7. IntentIsDurable'
      BY <1>3 DEF IntentIsDurable
  <1>8. ReportedOutcomeIsTrue'
      BY <1>1, <1>4 DEF IInv, ReportedOutcomeIsTrue, Mode
  <1>9. NamesFollowControl'
    <2> SUFFICES ASSUME NoTampering
                 PROVE  \E k \in 0..StepCount :
                          /\ Placed(k)' /\ Progress(k)'
                          /\ \A m \in onDisk' : Explains(m, k)
        BY DEF NamesFollowControl, NoTampering
    <2>1. PICK k \in 0..StepCount : Placed(k) /\ \A m \in onDisk : Explains(m, k)
        BY DEF IInv, NamesFollowControl
    <2>2. k = file.next
        BY <1>1, <1>2, <1>4, <2>1 DEF Explains
    <2>3. Placed(k)' /\ Progress(k)'
        BY <1>1, <1>3, <2>1, <2>2 DEF Placed, Progress
    <2> QED BY <1>1, <2>1, <2>3
  <1> QED BY <1>5, <1>6, <1>7, <1>8, <1>9 DEF IInv

LEMMA RetryKeeps ==
  ASSUME IInv, RetryFailedRollback PROVE IInv'
  <1> DEFINE r == Rec("RollbackRecoveryStarted", step, 0)
             M == Mode("rollback", step + 1, 0)
  <1>1. /\ pc = "rollback.retry" /\ dir' = dir /\ StepCount \in Nat
        /\ file = Mode("failed", step + 1, 0)
        /\ step \in 0..StepCount-1 /\ step + 1 \in 0..StepCount
    <2>1. /\ pc = "rollback.retry" /\ dir' = dir /\ StepCount \in Nat
          /\ file = Mode("failed", step + 1, 0)
          /\ step \in 0..StepCount /\ file.next \in 0..StepCount
        BY NAssumption
        DEF RetryFailedRollback, IInv, TypeOK, ControlMatchesJournal, StepCount, Modes
    <2> QED BY <2>1 DEF Mode
  <1>2. ApplyRecord(file, r) = M /\ M \in Modes /\ M.phase # "rejected"
      BY <1>1, ReplayRollbackStep, ModesOfTheProtocol DEF Mode
  <1>3. \A k \in 0..StepCount : Progress(k) => Explains(M, k)
      BY <1>1 DEF Progress, Explains, Mode
  <1>4. CASE AppendDurable(r) /\ Goto("rollback.intent") /\ UNCHANGED memory
    <2>1. /\ file' = M /\ onDisk' = {M} /\ torn' = torn /\ reported' = reported
          /\ pc' = "rollback.intent" /\ UNCHANGED <<step, batchEnd, cause>>
        BY <1>2, <1>4 DEF AppendDurable, Goto, memory
    <2>2. /\ pc' \in PcValues /\ step' \in 0..StepCount
          /\ batchEnd' \in 0..StepCount /\ cause' \in Causes
        BY <2>1 DEF IInv, TypeOK, PcValues, RollbackPc
    <2>3. ControlMatchesJournal' /\ IntentIsDurable'
        BY <1>1, <2>1 DEF IInv, ControlMatchesJournal, IntentIsDurable
    <2>4. \A k \in 0..StepCount : Progress(k) => Progress(k)'
        BY <1>1, <2>1 DEF Progress, Mode
    <2> QED BY <1>1, <1>2, <1>3, <2>1, <2>2, <2>3, <2>4, AppendKeeps
  <1>5. CASE DurableFails(r) /\ Return("recoveryRequired")
      BY <1>1, <1>2, <1>3, <1>5, DurableFailsKeeps
  <1> QED BY <1>4, <1>5 DEF RetryFailedRollback

-----------------------------------------------------------------------------
(***************************************************************************)
(* The environment.                                                        *)
(***************************************************************************)
LEMMA ProcessCrashKeeps ==
  ASSUME IInv, ProcessCrash PROVE IInv'
  <1>1. /\ Return("none") /\ UNCHANGED <<dir, file, onDisk>> /\ torn' \in BOOLEAN
      BY DEF ProcessCrash, IInv, TypeOK
  <1>2. file \in Modes /\ file \in onDisk /\ file.phase # "rejected"
      BY DEF IInv, TypeOK, JournalReplays
  <1>3. TypeOK' /\ JournalReplays'
      BY <1>1, NAssumption
      DEF IInv, TypeOK, JournalReplays, Return, PcValues, Causes, Outcomes, StepCount
  <1>4. ControlMatchesJournal' /\ IntentIsDurable' /\ ReportedOutcomeIsTrue'
      BY <1>1 DEF ControlMatchesJournal, IntentIsDurable, ReportedOutcomeIsTrue, Return
  <1>5. NamesFollowControl'
      BY <1>1 DEF IInv, NamesFollowControl, NoTampering, Progress, Placed, Return
  <1> QED BY <1>3, <1>4, <1>5 DEF IInv

LEMMA PowerLossKeeps ==
  ASSUME IInv, PowerLoss PROVE IInv'
  <1>1. /\ Return("none") /\ dir' = dir /\ file' \in onDisk /\ onDisk' = {file'}
        /\ torn' \in BOOLEAN
      BY DEF PowerLoss
  <1>2. TypeOK' /\ JournalReplays'
      BY <1>1, NAssumption
      DEF IInv, TypeOK, JournalReplays, Return, PcValues, Causes, Outcomes, StepCount
  <1>3. ControlMatchesJournal' /\ IntentIsDurable' /\ ReportedOutcomeIsTrue'
      BY <1>1 DEF ControlMatchesJournal, IntentIsDurable, ReportedOutcomeIsTrue, Return
  <1>4. NamesFollowControl'
      BY <1>1 DEF IInv, NamesFollowControl, NoTampering, Progress, Placed, Return
  <1> QED BY <1>2, <1>3, <1>4 DEF IInv

\* What another program does to names that are not sources.
LEMMA ForeignKeeps ==
  ASSUME IInv, NEW n \in Names, ForeignCreate(n) \/ ForeignRemove(n) PROVE IInv'
  <1>1. /\ dir[n] \in {Foreign, Nothing}
        /\ \E v \in {Foreign, Nothing} : dir' = [dir EXCEPT ![n] = v]
        /\ UNCHANGED <<file, onDisk, torn, pc, step, batchEnd, cause, reported>>
      BY DEF ForeignCreate, ForeignRemove, journal, memory
  <1>2. TypeOK' /\ JournalReplays'
      BY <1>1 DEF IInv, TypeOK, JournalReplays
  <1>3. ControlMatchesJournal' /\ IntentIsDurable'
      BY <1>1 DEF IInv, ControlMatchesJournal, IntentIsDurable
  <1>4. \A q \in Names : dir'[q] = dir[q] \/ (dir[q] \notin Sources /\ dir'[q] \notin Sources)
      BY <1>1, EntriesAssumption DEF IInv, TypeOK
  <1>5. \A k \in 0..StepCount : Placed(k) => Placed(k)'
      BY <1>4, PlacedStays
  <1>6. NamesFollowControl'
      BY <1>1, <1>5 DEF IInv, NamesFollowControl, NoTampering, Progress
  <1>7. StepCount \in 0..StepCount /\ 0 \in 0..StepCount
      BY NAssumption DEF StepCount
  <1>8. ReportedOutcomeIsTrue'
      BY <1>1, <1>5, <1>7 DEF IInv, ReportedOutcomeIsTrue, NoTampering
  <1> QED BY <1>2, <1>3, <1>6, <1>8 DEF IInv

LEMMA TamperKeeps ==
  ASSUME IInv, NEW n \in Names, Tamper(n) PROVE IInv'
  <1>1. /\ dir' \in [Names -> Sources \cup {Foreign, Nothing}] /\ ~NoTampering
        /\ UNCHANGED <<file, onDisk, torn, pc, step, batchEnd, cause, reported>>
      BY DEF Tamper, NoTampering, journal, memory, IInv, TypeOK
  <1>2. TypeOK' /\ JournalReplays'
      BY <1>1 DEF IInv, TypeOK, JournalReplays
  <1>3. ControlMatchesJournal' /\ IntentIsDurable'
      BY <1>1 DEF IInv, ControlMatchesJournal, IntentIsDurable
  <1>4. NamesFollowControl' /\ ReportedOutcomeIsTrue'
      BY <1>1 DEF IInv, NamesFollowControl, ReportedOutcomeIsTrue, NoTampering
  <1> QED BY <1>2, <1>3, <1>4 DEF IInv

-----------------------------------------------------------------------------
(***************************************************************************)
(* The invariant of every transaction.                                     *)
(***************************************************************************)
LEMMA InitEstablishes == Init => IInv
  <1> SUFFICES ASSUME Init PROVE IInv
      OBVIOUS
  <1>1. /\ onDisk = {NoJournal} /\ file = NoJournal /\ torn = FALSE /\ pc = "start"
        /\ step = 0 /\ batchEnd = 0 /\ cause = "none" /\ reported = "none"
      BY DEF Init
  <1>2. dir \in [Names -> Sources \cup {Foreign, Nothing}]
      BY DEF Init
  <1>3. 0 \in 0..StepCount
      BY NAssumption DEF StepCount
  <1>4. TypeOK /\ JournalReplays
    <2>1. TypeOK
        BY <1>1, <1>2, <1>3, ModesOfTheProtocol DEF TypeOK, PcValues, Causes, Outcomes
    <2>2. JournalReplays
        BY <1>1 DEF JournalReplays, NoJournal, Mode
    <2> QED BY <2>1, <2>2
  <1>5. ControlMatchesJournal /\ IntentIsDurable /\ ReportedOutcomeIsTrue
      BY <1>1 DEF ControlMatchesJournal, IntentIsDurable, ReportedOutcomeIsTrue
  <1>6. NamesFollowControl
      BY <1>1, <1>3, AllOriginalAtStart
      DEF NamesFollowControl, Progress, Explains, NoJournal, Mode
  <1> QED BY <1>4, <1>5, <1>6 DEF IInv

LEMMA StutterKeeps == ASSUME IInv, UNCHANGED vars PROVE IInv'
  BY DEF vars, journal, memory, IInv, TypeOK, JournalReplays, ControlMatchesJournal,
         IntentIsDurable, NamesFollowControl, ReportedOutcomeIsTrue, NoTampering,
         Progress, Placed

LEMMA NextKeeps == IInv /\ [Next]_vars => IInv'
  <1> SUFFICES ASSUME IInv, [Next]_vars PROVE IInv'
      OBVIOUS
  <1>1. ASSUME ExecutorStep PROVE IInv'
      BY <1>1, ExecuteFrozenPlanKeeps, ForwardIntentKeeps, CancelKeeps, ForwardRenameKeeps,
         ForwardRenameFailsKeeps, ForwardRecordKeeps, CompleteTransactionKeeps,
         StartRollbackKeeps, RollbackIntentKeeps, RollbackRenameKeeps,
         RollbackRenameFailsKeeps, RollbackRecordKeeps, RollbackFailedKeeps,
         CompleteRollbackKeeps, RetryKeeps
      DEF ExecutorStep
  <1>2. ASSUME UserStep PROVE IInv'
      BY <1>2, ReconcileKeeps, RecoverKeeps DEF UserStep
  <1>3. ASSUME Environment PROVE IInv'
      BY <1>3, ProcessCrashKeeps, PowerLossKeeps, ForeignKeeps, TamperKeeps DEF Environment
  <1> QED BY <1>1, <1>2, <1>3, StutterKeeps DEF Next

\* The inductive invariant holds of every transaction.
THEOREM Invariant == Spec => []IInv
  BY InitEstablishes, NextKeeps, PTL DEF Spec

\* The state of a transaction always has its type: in particular no batch
\* reaches past the schedule and no replay state is outside the protocol.
THEOREM TypeCorrect == Spec => []TypeOK
  <1>1. IInv => TypeOK
      BY DEF IInv
  <1> QED BY <1>1, Invariant, PTL

\* Whatever crashes, fails or is cancelled, every journal replays.
THEOREM EveryJournalReplays == Spec => []JournalReplays
  <1>1. IInv => JournalReplays
      BY DEF IInv
  <1> QED BY <1>1, Invariant, PTL

\* Whatever a power loss leaves of the journal explains the names.
THEOREM JournalExplains == Spec => []JournalExplainsNames
  <1>1. IInv => JournalExplainsNames
      BY DEF IInv, NamesFollowControl, JournalExplainsNames
  <1> QED BY <1>1, Invariant, PTL

\* "Completed" and "rolled back" are true, and durable, when reported.
THEOREM OutcomesAreTrue == Spec => []ReportedOutcomeIsTrue
  <1>1. IInv => ReportedOutcomeIsTrue
      BY DEF IInv
  <1> QED BY <1>1, Invariant, PTL

-----------------------------------------------------------------------------
(***************************************************************************)
(* Action properties.                                                      *)
(***************************************************************************)
\* Without tampering, a source leaves a name only in a rename of its own.
LEMMA NamesMoveOnlyInRenames ==
  ASSUME IInv, NoTampering, [Next]_vars,
         NEW s \in Sources, NEW n \in Names, dir[n] = s, dir'[n] # s
  PROVE  (ForwardRename \/ RollbackRename) /\ s = SourceOf(step)
  <1>1. dir' # dir /\ Next
      BY DEF vars
  <1>2. CASE ForwardRename
    <2>1. /\ CanRename(SourceOf(step), ForwardFrom, ForwardTo)
          /\ Renamed(SourceOf(step), ForwardFrom, ForwardTo)
        BY <1>2 DEF ForwardRename
    <2>2. n = ForwardFrom
        BY <2>1, EntriesAssumption DEF CanRename, Renamed, IInv, TypeOK
    <2> QED BY <1>2, <2>1, <2>2 DEF CanRename
  <1>3. CASE RollbackRename
    <2>1. /\ CanRename(SourceOf(step), ForwardTo, ForwardFrom)
          /\ Renamed(SourceOf(step), ForwardTo, ForwardFrom)
        BY <1>3 DEF RollbackRename
    <2>2. n = ForwardTo
        BY <2>1, EntriesAssumption DEF CanRename, Renamed, IInv, TypeOK
    <2> QED BY <1>3, <2>1, <2>2 DEF CanRename
  <1>4. CASE \E q \in Names : ForeignCreate(q) \/ ForeignRemove(q)
    <2>1. PICK q \in Names, v \in {Foreign, Nothing} :
            dir' = [dir EXCEPT ![q] = v] /\ dir[q] \in {Foreign, Nothing}
        BY <1>4 DEF ForeignCreate, ForeignRemove
    <2>2. n # q
        BY <2>1, EntriesAssumption
    <2> QED BY <2>1, <2>2 DEF IInv, TypeOK
  <1>5. CASE ~(ForwardRename \/ RollbackRename \/ \E q \in Names : ForeignCreate(q) \/ ForeignRemove(q))
    <2>1. dir' = dir
        BY <1>1, <1>5 DEF Next, ExecutorStep, UserStep, Environment, NoTampering, Tamper,
           ExecuteFrozenPlan, ForwardIntentStep, Cancel, ForwardRenameFails, ForwardRecord,
           CompleteTransaction, StartRollback, RollbackIntentStep, RollbackRenameFails,
           RollbackRecord, RollbackFailed, CompleteRollback, RetryFailedRollback,
           ReconcilePreparedStep, RecoverTransaction, ProcessCrash, PowerLoss
    <2> QED BY <1>1, <2>1
  <1> QED BY <1>2, <1>3, <1>4, <1>5

\* A rename happens inside a call, under an intent every surviving journal
\* tells of.
LEMMA RenamesAreIntended ==
  ASSUME IInv, ForwardRename \/ RollbackRename
  PROVE  /\ pc # "idle" /\ step \in Steps
         /\ \A m \in onDisk : Intends(m, step)
  <1>1. CASE ForwardRename
    <2>1. pc = "forward.step"
        BY <1>1 DEF ForwardRename
    <2> QED BY <2>1, InABatch DEF Intends
  <1>2. CASE RollbackRename
    <2>1. pc = "rollback.step"
        BY <1>2 DEF RollbackRename
    <2> QED BY <2>1, InARollbackStep DEF Intends, Mode
  <1> QED BY <1>1, <1>2

\* No name changes without an intent that is already durable.
THEOREM RenamesAreAnnounced == Spec => RenameOnlyUnderDurableIntent
  <1> DEFINE A == NoTampering =>
       \A s \in Sources, n \in Names :
         dir[n] = s /\ dir'[n] # s
           => \E i \in Steps : SourceOf(i) = s /\ \A m \in onDisk : Intends(m, i)
  <1>1. IInv /\ [Next]_vars => [A]_vars
      BY NamesMoveOnlyInRenames, RenamesAreIntended
  <1> QED BY <1>1, Invariant, PTL DEF Spec, RenameOnlyUnderDurableIntent

\* Nothing is renamed once the journal is torn.
THEOREM TornJournalIsFinal == Spec => TornJournalStopsRenames
  <1> DEFINE A == NoTampering /\ torn =>
       \A s \in Sources, n \in Names : dir[n] = s => dir'[n] = s
  <1>1. IInv /\ [Next]_vars => A
    <2> SUFFICES ASSUME IInv, [Next]_vars, NoTampering, torn,
                        NEW s \in Sources, NEW n \in Names, dir[n] = s, dir'[n] # s
                 PROVE  FALSE
        OBVIOUS
    <2>1. pc # "idle"
        BY NamesMoveOnlyInRenames, RenamesAreIntended
    <2> QED BY <2>1, Zenon DEF IInv, ControlMatchesJournal
  <1> QED BY <1>1, Invariant, PTL DEF Spec, TornJournalStopsRenames

LEMMA VerdictStands ==
  ASSUME IInv, [Next]_vars, NEW m \in onDisk, onDisk = {m}, Terminal(m)
  PROVE  /\ onDisk' = onDisk
         /\ NoTampering => \A s \in Sources, n \in Names : dir[n] = s => dir'[n] = s
  <1>1. file = m /\ pc = "idle"
      BY NoVerdictInACall DEF IInv, TypeOK, Terminal
  <1>2. onDisk' = onDisk
    <2>1. ~UserStep
        BY <1>1 DEF UserStep, ReconcilePreparedStep, RecoverTransaction, Resume,
           RequestRollback, Terminal, ReconciliationRequired, ForwardPending,
           CompletionPending, RollbackPending, RollbackCompletionPending, RecoveryRequired
    <2>2. ~ExecutorStep
        BY <1>1 DEF ExecutorStep, ExecuteFrozenPlan, ForwardIntentStep, Cancel,
           ForwardRename, ForwardRenameFails, ForwardRecord, CompleteTransaction,
           StartRollback, RollbackIntentStep, RollbackRename, RollbackRenameFails,
           RollbackRecord, RollbackFailed, CompleteRollback, RetryFailedRollback
    <2>3. Environment => onDisk' = onDisk
        BY DEF Environment, ProcessCrash, PowerLoss, ForeignCreate, ForeignRemove, Tamper,
               journal
    <2> QED BY <2>1, <2>2, <2>3 DEF Next, vars, journal
  <1>3. ASSUME NoTampering, NEW s \in Sources, NEW n \in Names, dir[n] = s, dir'[n] # s
        PROVE  FALSE
    <2>1. pc # "idle"
        BY <1>3, NamesMoveOnlyInRenames, RenamesAreIntended
    <2> QED BY <1>1, <2>1
  <1> QED BY <1>2, <1>3

\* A durable verdict is never extended and its names stay.
THEOREM VerdictsStand == Spec => DurableVerdictStands
  <1> DEFINE A == (\E m \in onDisk : onDisk = {m} /\ Terminal(m)) =>
       /\ onDisk' = onDisk
       /\ NoTampering => \A s \in Sources, n \in Names : dir[n] = s => dir'[n] = s
  <1>1. IInv /\ [Next]_vars => A
      BY VerdictStands
  <1> QED BY <1>1, Invariant, PTL DEF Spec, DurableVerdictStands

\* No step of a transaction touches an entry of somebody else.
THEOREM ForeignEntriesStay == Spec => ForeignEntriesUntouched
  <1> DEFINE A == \A n \in Names : dir[n] = Foreign /\ dir'[n] # Foreign
                                     => pc' = pc /\ dir'[n] = Nothing
  <1>1. IInv /\ [Next]_vars => A
    <2> SUFFICES ASSUME IInv, [Next]_vars, NEW n \in Names, dir[n] = Foreign,
                        dir'[n] # Foreign
                 PROVE  pc' = pc /\ dir'[n] = Nothing
        OBVIOUS
    <2>1. DOMAIN dir = Names /\ dir' # dir /\ Next
        BY DEF IInv, TypeOK, vars
    <2>2. CASE ForwardRename
        BY <2>1, <2>2, EntriesAssumption, InABatch, StepMovesItsSource
        DEF ForwardRename, CanRename, Renamed
    <2>3. CASE RollbackRename
        BY <2>1, <2>3, EntriesAssumption, InARollbackStep, StepMovesItsSource
        DEF RollbackRename, CanRename, Renamed
    <2>4. ASSUME NEW q \in Names, ForeignCreate(q) \/ ForeignRemove(q) \/ Tamper(q)
          PROVE  pc' = pc /\ dir'[n] = Nothing
      <3>1. CASE ForeignCreate(q)
          BY <2>1, <3>1 DEF ForeignCreate
      <3>2. CASE ForeignRemove(q)
          BY <2>1, <3>2 DEF ForeignRemove
      <3>3. CASE Tamper(q)
          BY <2>1, <3>3, EntriesAssumption DEF Tamper
      <3> QED BY <2>4, <3>1, <3>2, <3>3
    <2>5. CASE ~(ForwardRename \/ RollbackRename
                   \/ \E q \in Names : ForeignCreate(q) \/ ForeignRemove(q) \/ Tamper(q))
        BY <2>1, <2>5 DEF Next, ExecutorStep, UserStep, Environment,
           ExecuteFrozenPlan, ForwardIntentStep, Cancel, ForwardRenameFails, ForwardRecord,
           CompleteTransaction, StartRollback, RollbackIntentStep, RollbackRenameFails,
           RollbackRecord, RollbackFailed, CompleteRollback, RetryFailedRollback,
           ReconcilePreparedStep, RecoverTransaction, ProcessCrash, PowerLoss
    <2> QED BY <2>2, <2>3, <2>4, <2>5
  <1> QED BY <1>1, Invariant, PTL DEF Spec, ForeignEntriesUntouched
-----------------------------------------------------------------------------
(***************************************************************************)
(* Recovery is offered.  The two conditions are the ones without which it  *)
(* is not: a rename that only changes the case of a name, and a batch over *)
(* both steps of a source with a loss of power.                            *)
(***************************************************************************)
NamesDiffer    == \A s \in Sources : OriginalName[s] # FinalName[s]
BatchesAreKept == "powerLoss" \notin Faults \/ Batch <= N

LEMMA LocationsHaveNames ==
  ASSUME NamesDiffer, NEW s \in Sources, NEW l \in Locations, NEW m \in Locations,
         NameOf(s, l) = NameOf(s, m)
  PROVE  l = m
  BY NamesAssumption DEF NamesDiffer, NameOf, Locations

\* The location of the source of step i tells which side of i one is on.
LEMMA LocationTellsTheStep ==
  ASSUME NEW i \in Steps, NEW k \in 0..StepCount
  PROVE  /\ k <= i + N /\ k > i => LocationAt(SourceOf(i), k) = LocationAfter(i)
         /\ LocationAt(SourceOf(i), k) = LocationBefore(i) => k <= i
  BY NAssumption DEF Steps, StepCount, SourceOf, LocationAt, LocationAfter, LocationBefore

\* Names are those of one prefix of the schedule.
LEMMA PrefixIsUnique ==
  ASSUME NamesDiffer, NEW d, NEW j \in 0..StepCount, NEW k \in 0..StepCount,
         \A s \in Sources, n \in Names : d[n] = s <=> n = NameOf(s, LocationAt(s, j)),
         \A s \in Sources, n \in Names : d[n] = s <=> n = NameOf(s, LocationAt(s, k))
  PROVE  j = k
  <1>1. ASSUME NEW s \in Sources
        PROVE  LocationAt(s, j) = LocationAt(s, k)
    <2>1. LocationAt(s, j) \in Locations /\ LocationAt(s, k) \in Locations
      BY DEF LocationAt, Locations
    <2>2. NameOf(s, LocationAt(s, j)) \in Names
      BY <2>1, NamesAssumption DEF NameOf
    <2>3. NameOf(s, LocationAt(s, j)) = NameOf(s, LocationAt(s, k))
      BY <2>2
    <2> QED BY <2>1, <2>3, LocationsHaveNames
  <1>2. ASSUME NEW a \in 0..StepCount, NEW b \in 0..StepCount, a < b,
               \A s \in Sources : LocationAt(s, a) = LocationAt(s, b)
        PROVE  FALSE
    <2>1. a \in Steps /\ StepCount \in Nat
      BY <1>2, NAssumption DEF Steps, StepCount
    <2>2. LocationAt(SourceOf(a), b) = LocationBefore(a)
      BY <1>2, <2>1, StepMovesItsSource
    <2> QED BY <1>2, <2>1, <2>2, LocationTellsTheStep
  <1>3. StepCount \in Nat
    BY NAssumption DEF StepCount
  <1> QED BY <1>1, <1>2, <1>3

LEMMA PlacedOnce ==
  ASSUME NamesDiffer
  PROVE  /\ \A j, k \in 0..StepCount : Placed(j) /\ Placed(k) => j = k
         /\ \A j, k \in 0..StepCount : Placed(j)' /\ Placed(k)' => j = k
  BY PrefixIsUnique DEF Placed

\* With every name of its own, a source is at one location.
LEMMA OwnedIsWherePlaced ==
  ASSUME NamesDiffer, NEW k \in 0..StepCount, Placed(k), NEW s \in Sources
  PROVE  Owned(s) = {LocationAt(s, k)}
  <1>1. LocationAt(s, k) \in Locations
    BY DEF LocationAt, Locations
  <1>2. ASSUME NEW l \in Locations
        PROVE  dir[NameOf(s, l)] = s <=> l = LocationAt(s, k)
    <2>1. NameOf(s, l) \in Names
      BY NamesAssumption DEF NameOf
    <2>2. dir[NameOf(s, l)] = s <=> NameOf(s, l) = NameOf(s, LocationAt(s, k))
      BY <2>1 DEF Placed
    <2> QED BY <1>1, <2>2, LocationsHaveNames
  <1> QED BY <1>1, <1>2 DEF Owned

\* The journal is not more than N steps behind the names.
WithinReach ==
  pc = "idle" /\ NoTampering /\ file.phase = "forward" =>
    \A k \in 0..StepCount : Placed(k) => k <= file.next + N

LEMMA WithinReachIsRecoverable ==
  ASSUME NamesDiffer, IInv, WithinReach
  PROVE  InterruptedIsRecoverable
  <1> SUFFICES ASSUME NoTampering, pc = "idle", ~torn, file.phase # "none", ~Terminal(file)
               PROVE  IF ReconciliationRequired(file)
                      THEN StepApplied(file) \/ StepNotApplied(file)
                      ELSE RecordedStateValid
    BY DEF InterruptedIsRecoverable
  <1>1. /\ file \in Modes /\ file.phase \in {"forward", "rollback", "failed"}
        /\ file.next \in 0..StepCount /\ file.prepared \in 0..StepCount /\ StepCount \in Nat
        /\ file \in onDisk
    BY NAssumption DEF IInv, TypeOK, JournalReplays, Modes, Phases, Terminal, StepCount
  <1>2. PICK k \in 0..StepCount : Placed(k) /\ Explains(file, k)
    BY <1>1 DEF IInv, NamesFollowControl
  <1>3. CASE ~ReconciliationRequired(file)
    <2>1. file.prepared = 0 \/ file.phase = "failed"
      BY <1>1, <1>3 DEF ReconciliationRequired
    <2>2. k = file.next
      BY <1>1, <1>2, <2>1 DEF Explains
    <2> QED BY <1>2, <1>3, <2>2, OwnedIsWherePlaced DEF RecordedStateValid
  <1>4. CASE ReconciliationRequired(file)
    <2> DEFINE i == PreparedStep(file)
               s == SourceOf(i)
    <2>1. /\ i \in Steps /\ s \in Sources
          /\ file.phase = "forward" => i = file.next
          /\ file.phase = "rollback" => i = file.next - 1 /\ file.prepared = 1
      BY <1>1, <1>4, ReconciliationReplays, StepMovesItsSource
    <2>2. Owned(s) = {LocationAt(s, k)}
      BY <1>2, <2>1, OwnedIsWherePlaced
    <2>3. CASE file.phase = "forward"
      <3>1. i <= k /\ k <= i + N
        BY <1>2, <2>1, <2>3 DEF WithinReach, Explains
      <3>2. LocationAt(s, k) \in {LocationBefore(i), LocationAfter(i)}
        <4>1. CASE k = i
          BY <2>1, <4>1, StepMovesItsSource
        <4>2. CASE k > i
          BY <2>1, <3>1, <4>2, LocationTellsTheStep
        <4>3. i \in Nat
          BY <2>1, <1>1 DEF Steps
        <4> QED BY <3>1, <4>1, <4>2, <4>3
      <3> QED BY <1>4, <2>2, <2>3, <3>2 DEF StepApplied, StepNotApplied, SourceLocation, TargetLocation
    <2>4. CASE file.phase = "rollback"
      <3>1. k = i \/ k = i + 1
        <4>1. file.next - 1 <= k /\ k <= file.next
          BY <1>2, <2>1, <2>4 DEF Explains
        <4> QED BY <1>1, <2>1, <2>4, <4>1
      <3>2. LocationAt(s, k) \in {LocationBefore(i), LocationAfter(i)}
        BY <2>1, <3>1, StepMovesItsSource
      <3> QED BY <1>4, <2>2, <2>4, <3>2 DEF StepApplied, StepNotApplied, SourceLocation, TargetLocation
    <2> QED BY <1>1, <1>4, <2>3, <2>4 DEF ReconciliationRequired
  <1> QED BY <1>3, <1>4

(***************************************************************************)
(* Batches: what a loss of power can take is at most one of them.          *)
(***************************************************************************)
WithinABatch(m) == m.phase = "forward" => m.prepared <= Batch

BatchesAreBounded == \A m \in onDisk : WithinABatch(m)

\* A record that prepares no more than a batch
Modest(r) == r.type = "ForwardBatchPrepared" => r.count <= Batch

LEMMA ModestRecordsKeep ==
  ASSUME NEW m \in Modes, WithinABatch(m), NEW r, Modest(r)
  PROVE  WithinABatch(ApplyRecord(m, r))
  <1> SUFFICES ASSUME ApplyRecord(m, r).phase = "forward"
               PROVE  ApplyRecord(m, r).prepared <= Batch
    BY DEF WithinABatch
  <1>1. m.prepared \in Nat /\ Batch \in Nat /\ Batch >= 1
    BY NAssumption, BatchAssumption DEF Modes, StepCount
  <1>2. CASE m.phase = "forward"
    <2>1. ApplyRecord(m, r) = ApplyForward(m, r) /\ m.prepared <= Batch
      BY <1>2 DEF ApplyRecord, WithinABatch
    <2> QED BY <1>1, <2>1 DEF ApplyForward, Mode, Rejected, Modest
  <1>3. CASE m.phase = "rollback"
    <2>1. ApplyRecord(m, r) = ApplyRollback(m, r)
      BY <1>3 DEF ApplyRecord
    <2>2. ApplyRollback(m, r).phase # "forward"
      BY DEF ApplyRollback, Mode, Rejected
    <2> QED BY <2>1, <2>2
  <1>4. CASE m.phase \notin {"forward", "rollback"}
    BY <1>1, <1>4 DEF ApplyRecord, Mode, Rejected
  <1> QED BY <1>2, <1>3, <1>4

\* Every step leaves of the journal what it was or that with a record more.
LEMMA JournalGrowsByARecord ==
  ASSUME IInv, [Next]_vars
  PROVE  \/ onDisk' \subseteq onDisk
         \/ \E r : Modest(r) /\ onDisk' \subseteq onDisk \cup {ApplyRecord(file, r)}
  <1> DEFINE Appends(r) == AppendDurable(r) \/ AppendBuffered(r) \/ WriteFails \/ DurableFails(r)
  <1>1. ASSUME NEW r, Modest(r), Appends(r)
        PROVE  \/ onDisk' \subseteq onDisk
               \/ \E q : Modest(q) /\ onDisk' \subseteq onDisk \cup {ApplyRecord(file, q)}
    <2>1. onDisk' \subseteq onDisk \cup {ApplyRecord(file, r)}
      BY <1>1 DEF AppendDurable, AppendBuffered, WriteFails, DurableFails, SyncFails
    <2> QED BY <1>1, <2>1
  <1>2. ASSUME NEW t, NEW i, t # "ForwardBatchPrepared"
        PROVE  Modest(Rec(t, i, 0))
    BY <1>2 DEF Modest, Rec
  <1>3. ASSUME ForwardIntentStep
        PROVE  \/ onDisk' \subseteq onDisk
               \/ /\ Modest(ForwardIntent(step, ChunkEnd - step))
                  /\ Appends(ForwardIntent(step, ChunkEnd - step))
    <2>1. CASE step = StepCount
      <3>1. onDisk' = onDisk
        BY <1>3, <2>1 DEF ForwardIntentStep, journal, memory
      <3> QED BY <3>1
    <2>2. CASE step # StepCount
      <3>1. Appends(ForwardIntent(step, ChunkEnd - step))
        BY <1>3, <2>2 DEF ForwardIntentStep
      <3>2. ChunkEnd - step <= Batch
        <4>1. step \in Nat /\ StepCount \in Nat /\ Batch \in Nat
          BY NAssumption, BatchAssumption DEF IInv, TypeOK, StepCount
        <4> QED BY <4>1 DEF ChunkEnd
      <3> QED BY <3>1, <3>2 DEF Modest, ForwardIntent, Rec
    <2> QED BY <2>1, <2>2
  <1>4. ASSUME NEW c, NEW i
        PROVE  Modest(RollbackStarted(c, i))
    BY DEF RollbackStarted, Modest, Rec
  <1>5. Modest(Header) /\ Modest(ReconcileRecord(file))
    BY DEF Header, ReconcileRecord, Modest, Rec
  <1>6. \/ onDisk' \subseteq onDisk \/ ForwardIntentStep
        \/ Appends(Header) \/ Appends(ReconcileRecord(file)) \/ Appends(RollbackStarted(cause, step))
        \/ Appends(Rec("ForwardStepCompleted", step, 0)) \/ Appends(Rec("TransactionCompleted", 0, 0))
        \/ Appends(Rec("RollbackStepPrepared", step, 0)) \/ Appends(Rec("RollbackStepCompleted", step, 0))
        \/ Appends(Rec("RollbackStepFailed", step, 0)) \/ Appends(Rec("TransactionRolledBack", 0, 0))
        \/ Appends(Rec("RollbackRecoveryStarted", step, 0))
    <2> HIDE DEF Appends
    <2>0. \A r : AppendDurable(r) \/ AppendBuffered(r) \/ WriteFails \/ DurableFails(r) => Appends(r)
      BY DEF Appends
    <2>1. CASE ExecutorStep
      <3>1. Cancel \/ ForwardRename \/ ForwardRenameFails \/ RollbackRename \/ RollbackRenameFails
              => onDisk' = onDisk
        BY DEF Cancel, ForwardRename, ForwardRenameFails, RollbackRename, RollbackRenameFails, journal
      <3>2. /\ ExecuteFrozenPlan => Appends(Header)
            /\ ForwardRecord => Appends(Rec("ForwardStepCompleted", step, 0))
            /\ CompleteTransaction => Appends(Rec("TransactionCompleted", 0, 0))
            /\ StartRollback => Appends(RollbackStarted(cause, step))
        BY <2>0 DEF ExecuteFrozenPlan, ForwardRecord, CompleteTransaction, StartRollback
      <3>3. /\ RollbackIntentStep => Appends(Rec("RollbackStepPrepared", step, 0))
            /\ RollbackRecord => Appends(Rec("RollbackStepCompleted", step, 0))
            /\ RollbackFailed => Appends(Rec("RollbackStepFailed", step, 0))
            /\ CompleteRollback => Appends(Rec("TransactionRolledBack", 0, 0))
            /\ RetryFailedRollback => Appends(Rec("RollbackRecoveryStarted", step, 0))
        BY <2>0 DEF RollbackIntentStep, RollbackRecord, RollbackFailed, CompleteRollback,
                    RetryFailedRollback
      <3> QED BY <2>1, <3>1, <3>2, <3>3 DEF ExecutorStep
    <2>2. CASE UserStep
      <3>1. ReconcilePreparedStep => Appends(ReconcileRecord(file))
        BY <2>0 DEF ReconcilePreparedStep
      <3>2. RecoverTransaction => onDisk' = onDisk
        BY DEF RecoverTransaction, journal
      <3> QED BY <2>2, <3>1, <3>2 DEF UserStep
    <2>3. CASE Environment
      <3>1. ProcessCrash => onDisk' = onDisk
        BY DEF ProcessCrash
      <3>2. PowerLoss => onDisk' \subseteq onDisk
        BY DEF PowerLoss
      <3>3. \A n \in Names : ForeignCreate(n) \/ ForeignRemove(n) \/ Tamper(n) => onDisk' = onDisk
        BY DEF ForeignCreate, ForeignRemove, Tamper, journal
      <3> QED BY <2>3, <3>1, <3>2, <3>3 DEF Environment
    <2>4. CASE UNCHANGED vars
      BY <2>4 DEF vars, journal
    <2> QED BY <2>1, <2>2, <2>3, <2>4 DEF Next
  <1> HIDE DEF Appends
  <1> QED BY <1>1, <1>2, <1>3, <1>4, <1>5, <1>6

LEMMA BoundedBatchesKeep == IInv /\ BatchesAreBounded /\ [Next]_vars => BatchesAreBounded'
  <1> SUFFICES ASSUME IInv, BatchesAreBounded, [Next]_vars, NEW m \in onDisk'
               PROVE  WithinABatch(m)
    BY DEF BatchesAreBounded
  <1>1. file \in Modes /\ WithinABatch(file)
    BY DEF IInv, TypeOK, BatchesAreBounded
  <1>2. CASE m \in onDisk
    BY <1>2 DEF BatchesAreBounded
  <1>3. CASE m \notin onDisk
    <2>1. PICK r : Modest(r) /\ m = ApplyRecord(file, r)
      BY <1>3, JournalGrowsByARecord
    <2> QED BY <1>1, <2>1, ModestRecordsKeep
  <1> QED BY <1>2, <1>3

-----------------------------------------------------------------------------
(***************************************************************************)
(* With the power on, the names are at most one step ahead of the journal. *)
(***************************************************************************)
AtMostOneAhead ==
  pc = "idle" /\ NoTampering /\ file.phase = "forward" =>
    \A k \in 0..StepCount : Placed(k) => k <= file.next + 1

\* The names are those of one prefix, so what holds of some prefix the names
\* are of holds of this one.
LEMMA NamesArePlacedAt ==
  ASSUME NamesDiffer, IInv, NoTampering, NEW k \in 0..StepCount, Placed(k)
  PROVE  Progress(k) /\ \A m \in onDisk : Explains(m, k)
  BY PlacedOnce DEF IInv, NamesFollowControl

\* A record never takes a forward journal back.
LEMMA RecordsGoForward ==
  ASSUME NEW m \in Modes, NEW r, ApplyRecord(m, r).phase = "forward"
  PROVE  \/ m.phase = "none" /\ ApplyRecord(m, r).next = 0
         \/ m.phase = "forward" /\ ApplyRecord(m, r).next \in {m.next, m.next + 1}
  <1>1. CASE m.phase = "none"
    BY <1>1 DEF ApplyRecord, Mode, Rejected
  <1>2. CASE m.phase = "forward"
    BY <1>2 DEF ApplyRecord, ApplyForward, Mode, Rejected
  <1>3. CASE m.phase = "rollback"
    BY <1>3 DEF ApplyRecord, ApplyRollback, Mode, Rejected
  <1>4. CASE m.phase \notin {"none", "forward", "rollback"}
    BY <1>4 DEF ApplyRecord, Mode, Rejected
  <1> QED BY <1>1, <1>2, <1>3, <1>4

\* What a step that leaves the sources alone may leave behind.
LEMMA StandingNamesStayOneAhead ==
  ASSUME NamesDiffer, IInv, AtMostOneAhead,
         pc = "forward.record" /\ pc' = "idle" => file' = file,
         \A k \in 0..StepCount : Placed(k)' => Placed(k),
         file' = file \/ \E r : file' = ApplyRecord(file, r)
  PROVE  AtMostOneAhead'
  <1> SUFFICES ASSUME pc' = "idle", NoTampering, file'.phase = "forward",
                      NEW k \in 0..StepCount, Placed(k)
               PROVE  k <= file'.next + 1
    BY DEF AtMostOneAhead, NoTampering
  <1>1. file \in Modes /\ file.next \in Nat /\ step \in Nat /\ StepCount \in Nat
    BY NAssumption DEF IInv, TypeOK, Modes, StepCount
  <1>2. \/ file.phase = "none" /\ file'.next = 0
        \/ file.phase = "forward" /\ file'.next \in {file.next, file.next + 1}
    BY <1>1, RecordsGoForward
  <1>3. Progress(k) /\ Explains(file, k)
    BY NamesArePlacedAt DEF IInv, TypeOK
  <1>4. CASE file.phase = "none"
    BY <1>2, <1>3, <1>4, <1>1 DEF Explains
  <1>5. CASE file.phase = "forward" /\ pc = "idle"
    BY <1>1, <1>2, <1>5 DEF AtMostOneAhead
  <1>6. CASE file.phase = "forward" /\ pc = "forward.record"
    <2>1. file = Mode("forward", step, batchEnd - step) /\ k = step + 1
      BY <1>3, <1>6 DEF IInv, ControlMatchesJournal, Progress
    <2> QED BY <1>6, <2>1 DEF Mode
  <1>7. CASE file.phase = "forward" /\ pc = "rollback.record"
    BY <1>7 DEF IInv, ControlMatchesJournal, Mode
  <1>8. CASE file.phase = "forward" /\ pc \notin {"idle", "forward.record", "rollback.record"}
    BY <1>1, <1>2, <1>3, <1>8 DEF Progress
  <1> QED BY <1>2, <1>4, <1>5, <1>6, <1>7, <1>8

LEMMA ForwardRenameIsOneAhead ==
  ASSUME NamesDiffer, IInv, ForwardRename
  PROVE  AtMostOneAhead'
  <1> SUFFICES ASSUME NoTampering, NEW k \in 0..StepCount, Placed(k)'
               PROVE  k <= file'.next + 1
    BY DEF AtMostOneAhead, NoTampering
  <1>1. /\ pc = "forward.step" /\ file' = file
        /\ CanRename(SourceOf(step), ForwardFrom, ForwardTo)
        /\ Renamed(SourceOf(step), ForwardFrom, ForwardTo)
    BY DEF ForwardRename, journal
  <1>2. PICK i \in Steps : i = step /\ file.next = i /\ StepCount \in Nat
    BY <1>1, InABatch, NAssumption DEF Mode, StepCount
  <1>3. Placed(i)
    <2>1. PICK j \in 0..StepCount : Placed(j) /\ Progress(j)
      BY DEF IInv, NamesFollowControl
    <2> QED BY <1>1, <1>2, <2>1 DEF Progress
  <1>4. Placed(i + 1)'
    BY <1>1, <1>2, <1>3, ForwardRenamePlaces DEF IInv
  <1>5. i \in Nat /\ i + 1 \in 0..StepCount
    BY <1>2 DEF Steps
  <1>6. k = i + 1
    BY <1>4, <1>5, PlacedOnce
  <1> QED BY <1>1, <1>2, <1>5, <1>6

\* All steps but the renames and those of other programs.
LEMMA OthersKeepTheNames ==
  ASSUME "powerLoss" \notin Faults, [Next]_vars, ~ForwardRename, ~RollbackRename,
         ~ \E n \in Names : ForeignCreate(n) \/ ForeignRemove(n) \/ Tamper(n)
  PROVE  /\ dir' = dir
         /\ file' = file \/ \E r : file' = ApplyRecord(file, r)
         /\ pc = "forward.record" /\ pc' = "idle" => file' = file
  <1> DEFINE Goal == /\ dir' = dir
                     /\ file' = file \/ \E r : file' = ApplyRecord(file, r)
                     /\ pc = "forward.record" /\ pc' = "idle" => file' = file
             Appends(r) == AppendDurable(r) \/ AppendBuffered(r) \/ WriteFails \/ DurableFails(r)
  <1>1. ASSUME NEW r, Appends(r), dir' = dir, pc # "forward.record"
        PROVE  Goal
    <2>1. file' = file \/ file' = ApplyRecord(file, r)
      BY <1>1 DEF AppendDurable, AppendBuffered, WriteFails, DurableFails, SyncFails
    <2> QED BY <1>1, <2>1
  <1>2. ASSUME dir' = dir, file' = file
        PROVE  Goal
    BY <1>2
  <1>0. \A r : AppendDurable(r) \/ AppendBuffered(r) \/ WriteFails \/ DurableFails(r) => Appends(r)
    BY DEF Appends
  <1>g. Goal => /\ dir' = dir
                /\ file' = file \/ \E r : file' = ApplyRecord(file, r)
                /\ pc = "forward.record" /\ pc' = "idle" => file' = file
    OBVIOUS
  <1> HIDE DEF Goal, Appends
  <1>3. ForwardIntentStep => Goal
    <2> SUFFICES ASSUME ForwardIntentStep
                 PROVE  Goal
      OBVIOUS
    <2> DEFINE r == ForwardIntent(step, ChunkEnd - step)
    <2>1. CASE step = StepCount
      <3>1. dir' = dir /\ file' = file
        BY <2>1 DEF ForwardIntentStep, journal, memory
      <3> QED BY <1>2, <3>1
    <2>2. CASE step # StepCount
      <3>1. dir' = dir /\ pc # "forward.record" /\ Appends(r)
        BY <1>0, <2>2 DEF ForwardIntentStep
      <3> QED BY <1>1, <3>1
    <2> QED BY <2>1, <2>2
  <1>4. ForwardRecord => Goal
    <2> SUFFICES ASSUME ForwardRecord
                 PROVE  Goal
      OBVIOUS
    <2>1. CASE WriteFails
      <3>1. dir' = dir /\ file' = file
        BY <2>1 DEF ForwardRecord, WriteFails
      <3> QED BY <1>2, <3>1
    <2>2. CASE ~WriteFails
      <3>1. /\ dir' = dir /\ pc' # "idle"
            /\ file' = ApplyRecord(file, Rec("ForwardStepCompleted", step, 0))
        BY <2>2 DEF ForwardRecord, AppendBuffered, Goto
      <3> QED BY <3>1 DEF Goal
    <2> QED BY <2>1, <2>2
  <1>5. /\ Cancel \/ ForwardRenameFails \/ RollbackRenameFails => dir' = dir /\ file' = file
        /\ RecoverTransaction \/ ProcessCrash => dir' = dir /\ file' = file
        /\ UNCHANGED vars => dir' = dir /\ file' = file
    BY DEF Cancel, ForwardRenameFails, RollbackRenameFails, RecoverTransaction, ProcessCrash,
           vars, journal
  <1>6. /\ ExecuteFrozenPlan => Appends(Header)
        /\ CompleteTransaction => Appends(Rec("TransactionCompleted", 0, 0))
        /\ StartRollback => Appends(RollbackStarted(cause, step))
        /\ RollbackIntentStep => Appends(Rec("RollbackStepPrepared", step, 0))
    BY <1>0 DEF ExecuteFrozenPlan, CompleteTransaction, StartRollback, RollbackIntentStep
  <1>7. /\ RollbackRecord => Appends(Rec("RollbackStepCompleted", step, 0))
        /\ RollbackFailed => Appends(Rec("RollbackStepFailed", step, 0))
        /\ CompleteRollback => Appends(Rec("TransactionRolledBack", 0, 0))
        /\ RetryFailedRollback => Appends(Rec("RollbackRecoveryStarted", step, 0))
        /\ ReconcilePreparedStep => Appends(ReconcileRecord(file))
    BY <1>0 DEF RollbackRecord, RollbackFailed, CompleteRollback, RetryFailedRollback,
                ReconcilePreparedStep
  <1>8. /\ ExecuteFrozenPlan \/ CompleteTransaction \/ StartRollback \/ RollbackIntentStep
             => dir' = dir /\ pc # "forward.record"
        /\ RollbackRecord \/ RollbackFailed \/ CompleteRollback \/ RetryFailedRollback
             \/ ReconcilePreparedStep
             => dir' = dir /\ pc # "forward.record"
    BY DEF ExecuteFrozenPlan, CompleteTransaction, StartRollback, RollbackIntentStep,
           RollbackRecord, RollbackFailed, CompleteRollback, RetryFailedRollback,
           ReconcilePreparedStep
  <1>9. ~PowerLoss
    BY DEF PowerLoss
  <1>10. Goal
    BY <1>1, <1>2, <1>3, <1>4, <1>5, <1>6, <1>7, <1>8, <1>9
       DEF Next, ExecutorStep, UserStep, Environment
  <1> QED BY <1>g, <1>10

LEMMA AheadKeeps ==
  ASSUME NamesDiffer, "powerLoss" \notin Faults, IInv, AtMostOneAhead, [Next]_vars
  PROVE  AtMostOneAhead'
  <1>1. CASE ForwardRename
    BY <1>1, ForwardRenameIsOneAhead
  <1>2. CASE RollbackRename
    <2>1. pc = "rollback.step" /\ file' = file
      BY <1>2 DEF RollbackRename, journal
    <2>2. file.phase = "rollback"
      BY <2>1 DEF IInv, ControlMatchesJournal, Mode
    <2> QED BY <2>1, <2>2 DEF AtMostOneAhead
  <1>3. ASSUME NEW n \in Names, ForeignCreate(n) \/ ForeignRemove(n)
        PROVE  AtMostOneAhead'
    <2>1. file' = file /\ pc' = pc
      BY <1>3 DEF ForeignCreate, ForeignRemove, journal
    <2>2. \A s \in Sources, q \in Names : dir'[q] = s <=> dir[q] = s
      BY <1>3, EntriesAssumption DEF ForeignCreate, ForeignRemove, IInv, TypeOK
    <2>3. \A k \in 0..StepCount : Placed(k)' => Placed(k)
      BY <2>2 DEF Placed
    <2> QED BY <2>1, <2>3, StandingNamesStayOneAhead
  <1>4. ASSUME NEW n \in Names, Tamper(n)
        PROVE  AtMostOneAhead'
    BY <1>4 DEF Tamper, AtMostOneAhead, NoTampering
  <1>5. CASE /\ ~ForwardRename /\ ~RollbackRename
             /\ ~ \E n \in Names : ForeignCreate(n) \/ ForeignRemove(n) \/ Tamper(n)
    <2>1. /\ dir' = dir
          /\ file' = file \/ \E r : file' = ApplyRecord(file, r)
          /\ pc = "forward.record" /\ pc' = "idle" => file' = file
      BY <1>5, OthersKeepTheNames
    <2>2. \A k \in 0..StepCount : Placed(k)' => Placed(k)
      BY <2>1 DEF Placed
    <2> QED BY <2>1, <2>2, StandingNamesStayOneAhead
  <1> QED BY <1>1, <1>2, <1>3, <1>4, <1>5

-----------------------------------------------------------------------------
LEMMA AheadIsWithinReach == AtMostOneAhead /\ IInv => WithinReach
  <1> SUFFICES ASSUME AtMostOneAhead, IInv
               PROVE  WithinReach
    OBVIOUS
  <1>1. N \in Nat \ {0} /\ file.next \in Nat
    BY NAssumption DEF IInv, TypeOK, Modes, StepCount
  <1> QED BY <1>1, NAssumption DEF AtMostOneAhead, WithinReach, StepCount

LEMMA ABatchIsWithinReach ==
  ASSUME NamesDiffer, Batch <= N, IInv, BatchesAreBounded
  PROVE  WithinReach
  <1> SUFFICES ASSUME NoTampering, file.phase = "forward",
                      NEW k \in 0..StepCount, Placed(k)
               PROVE  k <= file.next + N
    BY DEF WithinReach
  <1>1. Explains(file, k)
    BY NamesArePlacedAt DEF IInv, TypeOK
  <1>2. file.prepared <= Batch
    BY DEF BatchesAreBounded, WithinABatch, IInv, TypeOK
  <1>3. /\ N \in Nat /\ Batch \in Nat /\ StepCount \in Nat
        /\ file.next \in Nat /\ file.prepared \in Nat
    BY NAssumption, BatchAssumption DEF IInv, TypeOK, Modes, StepCount
  <1> QED BY <1>1, <1>2, <1>3 DEF Explains

LEMMA BatchesBoundedAtStart == Init => BatchesAreBounded
  BY DEF Init, BatchesAreBounded, WithinABatch, NoJournal, Mode

\* No call is in progress at the start but the one that is to come.
LEMMA NothingAheadAtStart == Init => AtMostOneAhead
  BY DEF Init, AtMostOneAhead

\* Whatever crashes, failures and recovery calls came before, inspection
\* offers the user of an open journal that is not torn a way on.  The two
\* hypotheses are needed: without the one the run casecrash, without the
\* other the run powerloss shows a transaction that is stuck.
THEOREM InterruptedCanRecover ==
  ASSUME NamesDiffer, BatchesAreKept
  PROVE  Spec => []InterruptedIsRecoverable
  <1>1. CASE "powerLoss" \notin Faults
    <2>1. IInv /\ AtMostOneAhead /\ [Next]_vars => AtMostOneAhead'
      BY <1>1, AheadKeeps
    <2>2. IInv /\ AtMostOneAhead => InterruptedIsRecoverable
      BY AheadIsWithinReach, WithinReachIsRecoverable
    <2> QED BY <2>1, <2>2, NothingAheadAtStart, Invariant, PTL DEF Spec
  <1>2. CASE Batch <= N
    <2>1. IInv /\ BatchesAreBounded => InterruptedIsRecoverable
      BY <1>2, ABatchIsWithinReach, WithinReachIsRecoverable
    <2> QED BY <2>1, BatchesBoundedAtStart, BoundedBatchesKeep, Invariant, PTL DEF Spec
  <1> QED BY <1>1, <1>2 DEF BatchesAreKept

-----------------------------------------------------------------------------
(***************************************************************************)
(* A journaled transaction implements AtomicRename as long as nobody else  *)
(* moves, links or deletes its sources: the names and the verdict on the   *)
(* disk change as an atomic rename's do, for every number of sources,      *)
(* every shape of plan and every order of faults.                          *)
(***************************************************************************)
\* The names of the sources after k steps.
NamesAfter(k) == [s \in Sources |-> NameOf(s, LocationAt(s, k))]

LEMMA NameNowWhenPlaced ==
  ASSUME NEW k \in 0..StepCount, Placed(k)
  PROVE  NameNow = NamesAfter(k)
  <1> SUFFICES ASSUME NEW s \in Sources
               PROVE  (CHOOSE n \in Names : dir[n] = s) = NameOf(s, LocationAt(s, k))
      BY DEF NameNow, NamesAfter
  <1>1. NameOf(s, LocationAt(s, k)) \in Names
      BY NamesAssumption DEF NameOf, LocationAt
  <1> QED BY <1>1 DEF Placed

LEMMA NameNextWhenPlaced ==
  ASSUME NEW k \in 0..StepCount, Placed(k)'
  PROVE  NameNow' = NamesAfter(k)
  <1> SUFFICES ASSUME NEW s \in Sources
               PROVE  (CHOOSE n \in Names : dir'[n] = s) = NameOf(s, LocationAt(s, k))
      BY DEF NameNow, NamesAfter
  <1>1. NameOf(s, LocationAt(s, k)) \in Names
      BY NamesAssumption DEF NameOf, LocationAt
  <1> QED BY <1>1 DEF Placed

LEMMA NamesAtTheEnds ==
  NamesAfter(0) = OriginalName /\ NamesAfter(StepCount) = FinalName
  <1>1. \A s \in Sources : /\ NameOf(s, LocationAt(s, 0)) = OriginalName[s]
                           /\ NameOf(s, LocationAt(s, StepCount)) = FinalName[s]
      BY NAssumption DEF NameOf, LocationAt, Sources, StepCount
  <1>2. /\ OriginalName = [s \in Sources |-> OriginalName[s]]
        /\ FinalName = [s \in Sources |-> FinalName[s]]
      BY NamesAssumption
  <1> QED BY <1>1, <1>2 DEF NamesAfter

\* Step i changes one of the names, as Move does.
LEMMA NamesAfterAStep ==
  ASSUME NEW i \in Steps
  PROVE  LET s == SourceOf(i)
         IN  /\ s \in Sources
             /\ NamesAfter(i)[s] = NameOf(s, LocationBefore(i))
             /\ NamesAfter(i + 1)[s] = NameOf(s, LocationAfter(i))
             /\ NamesAfter(i + 1) = [NamesAfter(i) EXCEPT ![s] = NameOf(s, LocationAfter(i))]
             /\ NamesAfter(i) = [NamesAfter(i + 1) EXCEPT ![s] = NameOf(s, LocationBefore(i))]
  BY StepMovesItsSource DEF NamesAfter

LEMMA NamesOfAStep ==
  ASSUME NEW i \in Steps
  PROVE  LET s == SourceOf(i)
         IN  \/ /\ NameOf(s, LocationBefore(i)) = OriginalName[s]
                /\ NameOf(s, LocationAfter(i)) = TemporaryName[s]
             \/ /\ NameOf(s, LocationBefore(i)) = TemporaryName[s]
                /\ NameOf(s, LocationAfter(i)) = FinalName[s]
  BY DEF NameOf, LocationBefore, LocationAfter

-----------------------------------------------------------------------------
(***************************************************************************)
(* What a step does to the journal.                                        *)
(***************************************************************************)
\* Apart from the two verdicts an append leads to an open journal.
Opens(M) == M.phase \in {"forward", "rollback", "failed"}

Appends(M) == /\ file' = M /\ dir' = dir
              /\ onDisk' = {M} \/ onDisk' = onDisk \cup {M}

JournalStays == onDisk' = onDisk

JournalShrinks == \E m \in onDisk : onDisk' = {m} /\ dir' = dir

LEMMA AppendCases ==
  ASSUME NEW r, NEW M, ApplyRecord(file, r) = M, dir' = dir,
         AppendDurable(r) \/ AppendBuffered(r) \/ DurableFails(r) \/ WriteFails
  PROVE  JournalStays \/ Appends(M)
  BY DEF AppendDurable, AppendBuffered, DurableFails, WriteFails, SyncFails, JournalStays,
         Appends

LEMMA ExecutorAppends ==
  ASSUME IInv, ExecutorStep
  PROVE  \/ JournalStays
         \/ \E M : Appends(M) /\ Opens(M)
         \/ CompleteTransaction /\ Appends(Mode("completed", StepCount, 0))
         \/ CompleteRollback /\ Appends(Mode("rolledback", 0, 0))
  <1>1. CASE ExecuteFrozenPlan
    <2>1. file = NoJournal
        BY <1>1 DEF ExecuteFrozenPlan, IInv, TypeOK, ControlMatchesJournal
    <2>2. ApplyRecord(file, Header) = Mode("forward", 0, 0) /\ Opens(Mode("forward", 0, 0))
        BY <2>1, ReplayHeader DEF Opens, Mode
    <2> QED BY <1>1, <2>2, AppendCases DEF ExecuteFrozenPlan
  <1>2. CASE ForwardIntentStep
    <2>1. CASE step = StepCount
        BY <1>2, <2>1 DEF ForwardIntentStep, JournalStays, journal
    <2>2. CASE step # StepCount
      <3> DEFINE e == ChunkEnd
                 M == Mode("forward", step, e - step)
      <3>1. /\ StepCount \in Nat /\ step \in 0..StepCount /\ file = Mode("forward", step, 0)
          BY <1>2, NAssumption
          DEF ForwardIntentStep, IInv, TypeOK, ControlMatchesJournal, StepCount
      <3>2. step \in 0..StepCount-1 /\ e \in step+1..StepCount
          BY <2>2, <3>1, BatchAssumption DEF ChunkEnd
      <3>3. AppendDurable(ForwardIntent(step, e - step))
              \/ DurableFails(ForwardIntent(step, e - step))
          BY <1>2, <2>2 DEF ForwardIntentStep
      <3> HIDE DEF e
      <3>4. ApplyRecord(file, ForwardIntent(step, e - step)) = M
          BY <3>1, <3>2, ReplayIntent
      <3>5. Opens(M)
          BY DEF Opens, Mode
      <3> QED BY <1>2, <3>3, <3>4, <3>5, AppendCases DEF ForwardIntentStep
    <2> QED BY <2>1, <2>2
  <1>3. CASE Cancel \/ ForwardRename \/ ForwardRenameFails \/ RollbackRename
             \/ RollbackRenameFails
      BY <1>3 DEF Cancel, ForwardRename, ForwardRenameFails, RollbackRename,
                  RollbackRenameFails, JournalStays, journal
  <1>4. CASE ForwardRecord
    <2>1. /\ file = Mode("forward", step, batchEnd - step)
          /\ step \in 0..StepCount-1 /\ batchEnd - step \in 1..StepCount
        BY <1>4, InABatch DEF ForwardRecord, Steps
    <2>2. ApplyRecord(file, Rec("ForwardStepCompleted", step, 0))
            = Mode("forward", step + 1, batchEnd - step - 1)
        BY <2>1, ReplayForwardStep
    <2>3. Opens(Mode("forward", step + 1, batchEnd - step - 1))
        BY DEF Opens, Mode
    <2>4. AppendBuffered(Rec("ForwardStepCompleted", step, 0)) \/ WriteFails
        BY <1>4 DEF ForwardRecord
    <2> QED BY <1>4, <2>2, <2>3, <2>4, AppendCases DEF ForwardRecord
  <1>5. CASE CompleteTransaction
    <2>1. file = Mode("forward", StepCount, 0)
        BY <1>5 DEF CompleteTransaction, IInv, ControlMatchesJournal
    <2>2. AppendDurable(Rec("TransactionCompleted", 0, 0))
            \/ DurableFails(Rec("TransactionCompleted", 0, 0))
        BY <1>5 DEF CompleteTransaction
    <2> QED BY <1>5, <2>1, <2>2, ReplayVerdict, AppendCases DEF CompleteTransaction
  <1>6. CASE StartRollback
    <2>1. /\ step \in 0..StepCount /\ cause \in Causes
          /\ file.prepared \in 0..StepCount
          /\ file = Mode("forward", step, file.prepared)
        BY <1>6 DEF StartRollback, IInv, TypeOK, ControlMatchesJournal, Modes, Mode
    <2>2. \/ cause = "cancelled"
          \/ cause = "failed" /\ file.prepared > 0
          \/ cause = "requested" /\ file.prepared = 0
        BY <1>6 DEF StartRollback, IInv, ControlMatchesJournal
    <2>3. PICK k \in 0..StepCount : k = file.prepared
        BY <2>1
    <2>4. ApplyRecord(file, RollbackStarted(cause, step)) = Mode("rollback", step, 0)
        BY <2>1, <2>2, <2>3, ReplayRollbackStarted
    <2>5. Opens(Mode("rollback", step, 0))
        BY DEF Opens, Mode
    <2>6. AppendDurable(RollbackStarted(cause, step)) \/ DurableFails(RollbackStarted(cause, step))
        BY <1>6 DEF StartRollback
    <2> QED BY <1>6, <2>4, <2>5, <2>6, AppendCases DEF StartRollback
  <1>7. CASE RollbackIntentStep \/ RetryFailedRollback
    <2>1. step \in 0..StepCount-1
      <3>1. file.next = step + 1 /\ file.next \in 0..StepCount /\ step \in 0..StepCount
          BY <1>7 DEF RollbackIntentStep, RetryFailedRollback, IInv, TypeOK,
                      ControlMatchesJournal, Modes, Mode
      <3> QED BY <3>1, NAssumption DEF StepCount
    <2>2. CASE RollbackIntentStep
      <3>1. file = Mode("rollback", step + 1, 0)
          BY <2>2 DEF RollbackIntentStep, IInv, ControlMatchesJournal
      <3>2. ApplyRecord(file, Rec("RollbackStepPrepared", step, 0))
              = Mode("rollback", step + 1, 1)
          BY <2>1, <3>1, ReplayRollbackStep
      <3>3. AppendDurable(Rec("RollbackStepPrepared", step, 0))
              \/ DurableFails(Rec("RollbackStepPrepared", step, 0))
          BY <2>2 DEF RollbackIntentStep
      <3>4. Opens(Mode("rollback", step + 1, 1))
          BY DEF Opens, Mode
      <3> QED BY <2>2, <3>2, <3>3, <3>4, AppendCases DEF RollbackIntentStep
    <2>3. CASE RetryFailedRollback
      <3>1. file = Mode("failed", step + 1, 0)
          BY <2>3 DEF RetryFailedRollback, IInv, ControlMatchesJournal
      <3>2. ApplyRecord(file, Rec("RollbackRecoveryStarted", step, 0))
              = Mode("rollback", step + 1, 0)
          BY <2>1, <3>1, ReplayRollbackStep
      <3>3. AppendDurable(Rec("RollbackRecoveryStarted", step, 0))
              \/ DurableFails(Rec("RollbackRecoveryStarted", step, 0))
          BY <2>3 DEF RetryFailedRollback
      <3>4. Opens(Mode("rollback", step + 1, 0))
          BY DEF Opens, Mode
      <3> QED BY <2>3, <3>2, <3>3, <3>4, AppendCases DEF RetryFailedRollback
    <2> QED BY <1>7, <2>2, <2>3
  <1>8. CASE RollbackRecord
    <2>1. file = Mode("rollback", step + 1, 1) /\ step \in 0..StepCount-1
        BY <1>8, InARollbackStep DEF RollbackRecord
    <2>2. ApplyRecord(file, Rec("RollbackStepCompleted", step, 0)) = Mode("rollback", step, 0)
        BY <2>1, ReplayRollbackStep
    <2>3. AppendBuffered(Rec("RollbackStepCompleted", step, 0)) \/ WriteFails
        BY <1>8 DEF RollbackRecord
    <2>4. Opens(Mode("rollback", step, 0))
        BY DEF Opens, Mode
    <2> QED BY <1>8, <2>2, <2>3, <2>4, AppendCases DEF RollbackRecord
  <1>9. CASE RollbackFailed
    <2>1. file = Mode("rollback", step + 1, 1) /\ step \in 0..StepCount-1
        BY <1>9, InARollbackStep DEF RollbackFailed
    <2>2. ApplyRecord(file, Rec("RollbackStepFailed", step, 0)) = Mode("failed", step + 1, 0)
        BY <2>1, ReplayRollbackStep
    <2>3. AppendDurable(Rec("RollbackStepFailed", step, 0))
            \/ DurableFails(Rec("RollbackStepFailed", step, 0))
        BY <1>9 DEF RollbackFailed
    <2>4. Opens(Mode("failed", step + 1, 0))
        BY DEF Opens, Mode
    <2> QED BY <1>9, <2>2, <2>3, <2>4, AppendCases DEF RollbackFailed
  <1>10. CASE CompleteRollback
    <2>1. file = Mode("rollback", 0, 0)
        BY <1>10 DEF CompleteRollback, IInv, ControlMatchesJournal
    <2>2. AppendDurable(Rec("TransactionRolledBack", 0, 0))
            \/ DurableFails(Rec("TransactionRolledBack", 0, 0))
        BY <1>10 DEF CompleteRollback
    <2> QED BY <1>10, <2>1, <2>2, ReplayVerdict, AppendCases DEF CompleteRollback
  <1> QED BY <1>1, <1>2, <1>3, <1>4, <1>5, <1>6, <1>7, <1>8, <1>9, <1>10 DEF ExecutorStep

LEMMA UserAppends ==
  ASSUME IInv, UserStep
  PROVE  JournalStays \/ \E M : Appends(M) /\ Opens(M)
  <1>1. CASE ReconcilePreparedStep
    <2> DEFINE r == ReconcileRecord(file)
               M == ApplyRecord(file, r)
    <2>1. file \in Modes /\ ReconciliationRequired(file)
        BY <1>1 DEF ReconcilePreparedStep, IInv, TypeOK
    <2>2. Opens(M)
        BY <2>1, ReconciliationReplays DEF ReconciliationRequired, Opens, Mode
    <2>3. dir' = dir /\ (AppendDurable(r) \/ DurableFails(r))
        BY <1>1 DEF ReconcilePreparedStep
    <2> QED BY <2>2, <2>3, AppendCases
  <1>2. CASE RecoverTransaction
      BY <1>2 DEF RecoverTransaction, JournalStays, journal
  <1> QED BY <1>1, <1>2 DEF UserStep

LEMMA EnvironmentShrinks ==
  ASSUME Environment PROVE JournalStays \/ JournalShrinks
  BY DEF Environment, ProcessCrash, PowerLoss, ForeignCreate, ForeignRemove, Tamper,
         JournalStays, JournalShrinks, journal

-----------------------------------------------------------------------------
(***************************************************************************)
(* The verdict, as a function of the journals a power loss may leave.      *)
(***************************************************************************)
\* No two verdicts, nor a verdict and no header, survive side by side.
LEMMA VerdictsExclude ==
  ASSUME IInv, NoTampering
  PROVE  \E k \in 0..StepCount :
           /\ Placed(k)
           /\ \A m \in onDisk : /\ m.phase = "completed" => k = StepCount
                                /\ m.phase \in {"none", "rolledback"} => k = 0
           /\ Progress(k)
  BY DEF IInv, NamesFollowControl, Explains

LEMMA VerdictOfTheDisk ==
  ASSUME IInv
  PROVE  /\ VerdictOnDisk = "completed" <=> \A m \in onDisk : m.phase = "completed"
         /\ VerdictOnDisk = "rolledBack" <=> \A m \in onDisk : m.phase = "rolledback"
         /\ VerdictOnDisk = "unannounced" <=> \E m \in onDisk : m.phase = "none"
         /\ VerdictOnDisk \in {"unannounced", "open", "completed", "rolledBack"}
  BY DEF VerdictOnDisk, IInv, TypeOK

LEMMA VerdictOfTheNextDisk ==
  ASSUME IInv'
  PROVE  /\ VerdictOnDisk' = "completed" <=> \A m \in onDisk' : m.phase = "completed"
         /\ VerdictOnDisk' = "rolledBack" <=> \A m \in onDisk' : m.phase = "rolledback"
         /\ VerdictOnDisk' = "unannounced" <=> \E m \in onDisk' : m.phase = "none"
         /\ VerdictOnDisk' \in {"unannounced", "open", "completed", "rolledBack"}
  BY DEF VerdictOnDisk, IInv, TypeOK

LEMMA VerdictOfASingleton ==
  ASSUME NEW m, onDisk' = {m}
  PROVE  /\ m.phase = "completed" => VerdictOnDisk' = "completed"
         /\ m.phase = "rolledback" => VerdictOnDisk' = "rolledBack"
         /\ m.phase = "none" => VerdictOnDisk' = "unannounced"
         /\ m.phase \notin {"completed", "rolledback", "none"} => VerdictOnDisk' = "open"
  BY DEF VerdictOnDisk

LEMMA AVerdictStays ==
  ASSUME IInv, [Next]_vars, VerdictOnDisk \in {"completed", "rolledBack"}
  PROVE  onDisk' = onDisk
  <1>1. PICK m \in onDisk : Terminal(m) /\ m = file
      BY VerdictOfTheDisk DEF IInv, TypeOK, Terminal
  <1>2. \A q \in onDisk : q = m
    <2>1. CASE VerdictOnDisk = "completed"
      <3>1. \A q \in onDisk : q = Mode("completed", StepCount, 0)
          BY <2>1, VerdictOfTheDisk, NAssumption DEF IInv, TypeOK, Modes, Mode
      <3> QED BY <3>1
    <2>2. CASE VerdictOnDisk = "rolledBack"
      <3>1. \A q \in onDisk : q = Mode("rolledback", 0, 0)
          BY <2>2, VerdictOfTheDisk, NAssumption DEF IInv, TypeOK, Modes, Mode
      <3> QED BY <3>1
    <2> QED BY <2>1, <2>2
  <1> QED BY <1>1, <1>2, VerdictStands

-----------------------------------------------------------------------------
(***************************************************************************)
(* The two kinds of steps.                                                 *)
(***************************************************************************)
LEMMA ARenameIsAMove ==
  ASSUME IInv, IInv', NoTampering, ForwardRename \/ RollbackRename
  PROVE  Outside!Next
  <1>1. VerdictOnDisk = "open" /\ VerdictOnDisk' = VerdictOnDisk /\ step \in Steps
    <2>1. onDisk' = onDisk /\ step \in Steps
        BY RenamesAreIntended DEF ForwardRename, RollbackRename, journal
    <2>2. \A m \in onDisk : m.phase \in {"forward", "rollback"}
        BY RenamesAreIntended DEF Intends
    <2> QED BY <2>1, <2>2, VerdictOfTheDisk DEF VerdictOnDisk, IInv, TypeOK
  <1>2. PICK i \in Steps : i = step
      BY <1>1
  <1>3. i \in 0..StepCount /\ i + 1 \in 0..StepCount
      BY NAssumption DEF Steps, StepCount
  <1>4. PICK k \in 0..StepCount : Placed(k) /\ Progress(k)
      BY DEF IInv, NamesFollowControl
  <1> DEFINE s == SourceOf(i)
  <1>5. CASE ForwardRename
    <2>1. k = i
        BY <1>2, <1>4, <1>5, InABatch DEF ForwardRename, Progress, Mode
    <2>2. Placed(i + 1)'
        BY <1>2, <1>4, <1>5, <2>1, ForwardRenamePlaces DEF ForwardRename, IInv
    <2>3. NameNow = NamesAfter(i)
        BY <1>3, <1>4, <2>1, NameNowWhenPlaced
    <2>4. NameNow' = NamesAfter(i + 1)
        BY <1>3, <2>2, NameNextWhenPlaced
    <2>5. Outside!Move(s)
        BY <1>1, <2>3, <2>4, NamesAfterAStep, NamesOfAStep DEF Outside!Move
    <2> QED BY <2>5, NamesAfterAStep DEF Outside!Next
  <1>6. CASE RollbackRename
    <2>1. k = i + 1
        BY <1>2, <1>4, <1>6, InARollbackStep DEF RollbackRename, Progress, Mode
    <2>2. Placed(i)'
        BY <1>2, <1>4, <1>6, <2>1, RollbackRenamePlaces DEF RollbackRename, IInv
    <2>3. NameNow = NamesAfter(i + 1)
        BY <1>3, <1>4, <2>1, NameNowWhenPlaced
    <2>4. NameNow' = NamesAfter(i)
        BY <1>3, <2>2, NameNextWhenPlaced
    <2>5. Outside!Move(s)
        BY <1>1, <2>3, <2>4, NamesAfterAStep, NamesOfAStep DEF Outside!Move
    <2> QED BY <2>5, NamesAfterAStep DEF Outside!Next
  <1> QED BY <1>5, <1>6

\* Any other step leaves the names alone; what it does to the verdict is
\* Announce, Complete, RollBack or nothing.
LEMMA OtherStepsJudge ==
  ASSUME IInv, IInv', NoTampering, [Next]_vars, ~(ForwardRename \/ RollbackRename)
  PROVE  Outside!Next \/ UNCHANGED <<NameNow, VerdictOnDisk>>
  <1>1. NameNow' = NameNow
    <2>1. PICK k \in 0..StepCount : Placed(k)
        BY VerdictsExclude
    <2>2. \A s \in Sources : NameOf(s, LocationAt(s, k)) \in Names
        BY NamesAssumption DEF NameOf, LocationAt
    <2>3. \A s \in Sources, n \in Names : dir[n] = s => dir'[n] = s
        BY NamesMoveOnlyInRenames
    <2>4. PICK j \in 0..StepCount : Placed(j)'
        BY DEF IInv, NamesFollowControl, NoTampering
    <2>5. \A s \in Sources : NameOf(s, LocationAt(s, k)) = NameOf(s, LocationAt(s, j))
        BY <2>1, <2>2, <2>3, <2>4 DEF Placed
    <2>6. NamesAfter(k) = NamesAfter(j)
        BY <2>5 DEF NamesAfter
    <2> QED BY <2>1, <2>4, <2>6, NameNowWhenPlaced, NameNextWhenPlaced
  <1>2. PICK k \in 0..StepCount :
          /\ Placed(k)
          /\ \A m \in onDisk : /\ m.phase = "completed" => k = StepCount
                               /\ m.phase \in {"none", "rolledback"} => k = 0
          /\ Progress(k)
      BY VerdictsExclude
  <1>3. /\ k = 0 => NameNow = OriginalName
        /\ k = StepCount => NameNow = FinalName
        /\ StepCount # 0
      BY <1>2, NameNowWhenPlaced, NamesAtTheEnds, NAssumption DEF StepCount
  <1>4. \/ JournalStays
        \/ JournalShrinks
        \/ \E M : Appends(M) /\ Opens(M)
        \/ CompleteTransaction /\ Appends(Mode("completed", StepCount, 0))
        \/ CompleteRollback /\ Appends(Mode("rolledback", 0, 0))
      BY ExecutorAppends, UserAppends, EnvironmentShrinks
      DEF Next, vars, journal, JournalStays
  <1>5. CASE VerdictOnDisk' = VerdictOnDisk
      BY <1>1, <1>5
  <1>6. CASE VerdictOnDisk' # VerdictOnDisk
    <2>1. onDisk' # onDisk
        BY <1>6 DEF VerdictOnDisk
    <2>2. VerdictOnDisk \in {"unannounced", "open"}
        BY <2>1, AVerdictStays, VerdictOfTheDisk
    <2>3. k = StepCount => VerdictOnDisk = "open"
        BY <1>2, <1>3, <2>2, VerdictOfTheDisk
    <2>4. CASE JournalShrinks
      <3>1. PICK m \in onDisk : onDisk' = {m}
          BY <2>4 DEF JournalShrinks
      <3>2. CASE m.phase = "none"
          BY <1>6, <3>1, <3>2, VerdictOfTheDisk, VerdictOfASingleton
      <3>3. CASE m.phase = "completed"
          BY <1>1, <1>2, <1>3, <2>3, <3>1, <3>3, VerdictOfASingleton
          DEF Outside!Next, Outside!Complete
      <3>4. CASE m.phase = "rolledback"
          BY <1>1, <1>2, <1>3, <2>2, <3>1, <3>4, VerdictOfASingleton
          DEF Outside!Next, Outside!RollBack
      <3>5. CASE m.phase \notin {"none", "completed", "rolledback"}
          BY <1>1, <1>6, <2>2, <3>1, <3>5, VerdictOfASingleton
          DEF Outside!Next, Outside!Announce
      <3> QED BY <3>2, <3>3, <3>4, <3>5
    <2>5. ASSUME NEW M, Appends(M), onDisk' = onDisk \cup {M}, M.phase # "none"
          PROVE  FALSE
        BY <1>6, <2>2, <2>5, VerdictOfTheDisk, VerdictOfTheNextDisk
    <2>6. CASE \E M : Appends(M) /\ Opens(M)
      <3>1. PICK M : Appends(M) /\ Opens(M)
          BY <2>6
      <3>2. onDisk' = {M}
          BY <2>5, <3>1 DEF Appends, Opens
      <3> QED BY <1>1, <1>6, <2>2, <3>1, <3>2, VerdictOfASingleton
          DEF Opens, Outside!Next, Outside!Announce
    <2>7. CASE CompleteTransaction /\ Appends(Mode("completed", StepCount, 0))
      <3>1. k = StepCount
          BY <1>2, <2>7 DEF CompleteTransaction, Progress, IInv, ControlMatchesJournal, Mode
      <3>2. PICK M : M = Mode("completed", StepCount, 0)
          OBVIOUS
      <3>3. M.phase = "completed" /\ Appends(M)
          BY <2>7, <3>2 DEF Mode
      <3>4. onDisk' = {M}
          BY <2>5, <3>3 DEF Appends
      <3> QED BY <1>1, <1>3, <2>3, <3>1, <3>3, <3>4, VerdictOfASingleton
          DEF Outside!Next, Outside!Complete
    <2>8. CASE CompleteRollback /\ Appends(Mode("rolledback", 0, 0))
      <3>1. k = 0
          BY <1>2, <2>8 DEF CompleteRollback, Progress, IInv, ControlMatchesJournal, Mode
      <3>2. PICK M : M = Mode("rolledback", 0, 0)
          OBVIOUS
      <3>3. M.phase = "rolledback" /\ Appends(M)
          BY <2>8, <3>2 DEF Mode
      <3>4. onDisk' = {M}
          BY <2>5, <3>3 DEF Appends
      <3> QED BY <1>1, <1>3, <2>2, <3>1, <3>3, <3>4, VerdictOfASingleton
          DEF Outside!Next, Outside!RollBack
    <2> QED BY <1>4, <2>1, <2>4, <2>6, <2>7, <2>8 DEF JournalStays
  <1> QED BY <1>5, <1>6

LEMMA RefinementInit ==
  ASSUME Init, IInv, NoTampering
  PROVE  Outside!Init
  <1>1. VerdictOnDisk = "unannounced"
      BY DEF Init, VerdictOnDisk, NoJournal, Mode
  <1>2. PICK k \in 0..StepCount : Placed(k) /\ \A m \in onDisk : m.phase = "none" => k = 0
      BY VerdictsExclude
  <1>3. k = 0
      BY <1>2 DEF Init, NoJournal, Mode
  <1>4. NameNow = OriginalName
      BY <1>2, <1>3, NameNowWhenPlaced, NamesAtTheEnds
  <1> QED BY <1>1, <1>4 DEF Outside!Init

\* Refinement: when nobody else touches the sources, the names and the
\* verdict the disk holds behave as AtomicRename, whatever crashes, loses
\* power or fails; the transaction is all or nothing to a later reader.
THEOREM Refinement == NoTampering => (Spec => AtomicToAnObserver)
  <1> SUFFICES ASSUME NoTampering PROVE Spec => AtomicToAnObserver
      OBVIOUS
  <1>1. Init /\ IInv => Outside!Init
      BY RefinementInit
  <1>2. IInv /\ IInv' /\ [Next]_vars => [Outside!Next]_(Outside!vars)
      BY ARenameIsAMove, OtherStepsJudge DEF Outside!vars
  <1> QED BY <1>1, <1>2, Invariant, PTL DEF Spec, AtomicToAnObserver, Outside!Spec

-----------------------------------------------------------------------------
(***************************************************************************)
(* The steps of a call and of a transaction are bounded.  That a call      *)
(* returns and that a transaction comes to its verdict also need a thread  *)
(* that keeps running and a user who keeps choosing: EveryCallReturns and  *)
(* TransactionEnds.                                                        *)
(***************************************************************************)
\* Twice through the schedule, and two steps around it
CallBound == 6 * StepCount + 5

\* How many steps the call in progress has left at most, with step its schedule
\* index: forward to the end and back, or back from where it is.
CallSteps ==
  CASE pc = "start"            -> CallBound
    [] pc = "forward.intent"   -> 3 * (StepCount - step) + 3 * StepCount + 4
    [] pc = "forward.step"     -> 3 * (StepCount - step) + 3 * StepCount + 3
    [] pc = "forward.record"   -> 3 * (StepCount - step) + 3 * StepCount + 2
    [] pc = "rollback.retry"   -> 3 * step + 5
    [] pc = "rollback.intent"  -> 3 * step + 4
    [] pc = "rollback.step"    -> 3 * step + 3
    [] pc \in {"rollback.start", "rollback.record"} -> 3 * step + 2
    [] pc \in {"forward.complete", "rollback.complete", "rollback.failed"} -> 1
    [] OTHER                   -> 0

\* While a call is in progress, whatever happens to it takes it closer to its
\* end: it goes through the schedule at most once forward and once back, and
\* never tries a step again (executor.rs:350, 455).
CallsComeToAnEnd ==
  [][pc # "idle" => \/ CallSteps \in 1..CallBound /\ CallSteps' \in 0..(CallSteps - 1)
                    \/ UNCHANGED <<pc, memory, file>>]_vars

LEMMA CallStepsAreCounted ==
  ASSUME TypeOK
  PROVE  /\ StepCount \in Nat /\ step \in Nat /\ step <= StepCount
         /\ CallSteps \in 0..CallBound
         /\ pc # "idle" => CallSteps \in 1..CallBound
  <1>1. StepCount \in Nat /\ step \in Nat /\ step <= StepCount /\ pc \in PcValues
    BY NAssumption DEF TypeOK, StepCount
  <1> QED BY <1>1 DEF CallSteps, CallBound, PcValues, ForwardPc, RollbackPc

LEMMA NextCallStepsAreCounted ==
  ASSUME TypeOK', pc' # "idle"
  PROVE  CallSteps' \in 1..CallBound
  <1>1. StepCount \in Nat /\ step' \in Nat /\ step' <= StepCount /\ pc' \in PcValues
    BY NAssumption DEF TypeOK, StepCount
  <1> QED BY <1>1 DEF CallSteps, CallBound, PcValues, ForwardPc, RollbackPc

\* An interrupted call is over, and so is one that returned.
LEMMA NoStepsAfterReturn ==
  ASSUME TypeOK, pc # "idle", pc' = "idle"
  PROVE  CallSteps \in 1..CallBound /\ CallSteps' \in 0..(CallSteps - 1)
  <1>1. CallSteps' = 0
    BY DEF CallSteps
  <1> QED BY <1>1, CallStepsAreCounted

LEMMA CallShortens ==
  ASSUME IInv, ExecutorStep
  PROVE  CallSteps \in 1..CallBound /\ CallSteps' \in 0..(CallSteps - 1)
  <1> USE DEF Goto
  <1>a. StepCount \in Nat /\ step \in Nat /\ step <= StepCount /\ TypeOK
    BY CallStepsAreCounted DEF IInv
  <1>b. pc # "idle"
    BY DEF ExecutorStep, ExecuteFrozenPlan, ForwardIntentStep, Cancel, ForwardRename,
       ForwardRenameFails, ForwardRecord, CompleteTransaction, StartRollback,
       RollbackIntentStep, RollbackRename, RollbackRenameFails, RollbackRecord, RollbackFailed,
       CompleteRollback, RetryFailedRollback
  <1>c. CallSteps \in 1..CallBound
    BY <1>a, <1>b, CallStepsAreCounted
  <1>d. CASE pc' = "idle"
    BY <1>a, <1>b, <1>d, NoStepsAfterReturn
  <1>e. CASE pc' # "idle"
    <2> USE <1>a, <1>c, <1>e DEF Return, memory
    <2>1. CASE ExecuteFrozenPlan
      <3>1. pc = "start" /\ pc' = "forward.intent" /\ step' = 0
        BY <2>1 DEF ExecuteFrozenPlan
      <3> QED BY <3>1 DEF CallSteps, CallBound
    <2>2. CASE ForwardIntentStep
      <3>1. pc = "forward.intent" /\ pc' \in {"forward.step", "forward.complete"} /\ step' = step
        BY <2>2 DEF ForwardIntentStep
      <3> QED BY <3>1 DEF CallSteps
    <2>3. CASE Cancel \/ ForwardRenameFails
      <3>1. pc = "forward.step" /\ pc' = "rollback.start" /\ step' = step
        BY <2>3 DEF Cancel, ForwardRenameFails
      <3> QED BY <3>1 DEF CallSteps
    <2>4. CASE ForwardRename
      <3>1. pc = "forward.step" /\ pc' = "forward.record" /\ step' = step
        BY <2>4 DEF ForwardRename
      <3> QED BY <3>1 DEF CallSteps
    <2>5. CASE ForwardRecord
      <3>1. /\ pc = "forward.record" /\ pc' \in {"forward.step", "forward.intent"}
            /\ step' = step + 1
        BY <2>5 DEF ForwardRecord
      <3>2. step + 1 <= StepCount
        BY <3>1, InABatch
      <3> QED BY <3>1, <3>2 DEF CallSteps
    <2>6. CASE StartRollback
      <3>1. /\ pc = "rollback.start"
            /\ \/ pc' = "rollback.complete"
               \/ pc' = "rollback.intent" /\ step # 0 /\ step' = step - 1
        BY <2>6 DEF StartRollback
      <3> QED BY <3>1 DEF CallSteps
    <2>7. CASE RollbackIntentStep
      <3>1. pc = "rollback.intent" /\ pc' = "rollback.step" /\ step' = step
        BY <2>7 DEF RollbackIntentStep
      <3> QED BY <3>1 DEF CallSteps
    <2>8. CASE RollbackRename \/ RollbackRenameFails
      <3>1. pc = "rollback.step" /\ pc' \in {"rollback.record", "rollback.failed"} /\ step' = step
        BY <2>8 DEF RollbackRename, RollbackRenameFails
      <3> QED BY <3>1 DEF CallSteps
    <2>9. CASE RollbackRecord
      <3>1. /\ pc = "rollback.record"
            /\ \/ pc' = "rollback.complete"
               \/ pc' = "rollback.intent" /\ step # 0 /\ step' = step - 1
        BY <2>9 DEF RollbackRecord
      <3> QED BY <3>1 DEF CallSteps
    <2>10. CASE RetryFailedRollback
      <3>1. pc = "rollback.retry" /\ pc' = "rollback.intent" /\ step' = step
        BY <2>10 DEF RetryFailedRollback
      <3> QED BY <3>1 DEF CallSteps
    <2>11. CASE CompleteTransaction \/ RollbackFailed \/ CompleteRollback
      BY <2>11 DEF CompleteTransaction, RollbackFailed, CompleteRollback
    <2> QED BY <2>1, <2>2, <2>3, <2>4, <2>5, <2>6, <2>7, <2>8, <2>9, <2>10, <2>11
            DEF ExecutorStep
  <1> QED BY <1>c, <1>d, <1>e

\* No call runs in circles: it renames and records each step at most once in
\* each direction, whatever fails in it.
THEOREM EveryCallIsBounded == Spec => CallsComeToAnEnd
  <1>1. IInv /\ [Next]_vars
          => [pc # "idle" => \/ CallSteps \in 1..CallBound /\ CallSteps' \in 0..(CallSteps - 1)
                             \/ UNCHANGED <<pc, memory, file>>]_vars
    <2> SUFFICES ASSUME IInv, Next, pc # "idle", ~ UNCHANGED <<pc, memory, file>>
                 PROVE  CallSteps \in 1..CallBound /\ CallSteps' \in 0..(CallSteps - 1)
      BY DEF vars
    <2>1. CASE ExecutorStep
      BY <2>1, CallShortens
    <2>2. CASE UserStep
      BY <2>2 DEF UserStep, ReconcilePreparedStep, RecoverTransaction
    <2>3. CASE ProcessCrash \/ PowerLoss
      <3>1. pc' = "idle"
        BY <2>3 DEF ProcessCrash, PowerLoss, Return
      <3> QED BY <3>1, NoStepsAfterReturn DEF IInv
    <2>4. CASE \E n \in Names : ForeignCreate(n) \/ ForeignRemove(n) \/ Tamper(n)
      BY <2>4 DEF ForeignCreate, ForeignRemove, Tamper, journal
    <2> QED BY <2>1, <2>2, <2>3, <2>4 DEF Next, Environment
  <1> QED BY <1>1, Invariant, PTL DEF Spec, CallsComeToAnEnd

\* How many steps a transaction has left at most if nothing disturbs it: a call
\* that was interrupted is reconciled, a prepared step at a time, and resumed or
\* rolled back by one more call.
TransactionSteps ==
  IF pc # "idle" THEN CallSteps
  ELSE IF Terminal(file) \/ file.phase = "none" THEN 0
  ELSE CallBound + 1 + file.prepared

\* What is not a disturbance and changes the call or the journal takes the
\* transaction closer to its verdict, the recoveries included that the user
\* chooses in whatever order (recovery.rs:473, 568).
RecoveryComesToAnEnd ==
  [][~Disturbance => \/ TransactionSteps' \in 0..(TransactionSteps - 1)
                     \/ UNCHANGED <<pc, memory, file>>]_vars

\* An idle transaction that is to be recovered
LEMMA StepsWhenOpen ==
  ASSUME IInv, pc = "idle", file.phase # "none", ~ Terminal(file)
  PROVE  /\ TransactionSteps = CallBound + 1 + file.prepared
         /\ file.prepared \in 0..StepCount /\ StepCount \in Nat /\ CallBound \in Nat
  BY NAssumption DEF TransactionSteps, IInv, TypeOK, Modes, StepCount, CallBound

\* A call that returned undisturbed has brought its verdict.
LEMMA UndisturbedCallShortens ==
  ASSUME IInv, ExecutorStep, ~ Disturbance
  PROVE  TransactionSteps' \in 0..(TransactionSteps - 1)
  <1>1. CallSteps \in 1..CallBound /\ CallSteps' \in 0..(CallSteps - 1)
    BY CallShortens
  <1>2. pc # "idle" /\ TransactionSteps = CallSteps
    <2>1. CallBound \in Nat
      BY NAssumption DEF CallBound, StepCount
    <2>2. CallSteps # 0
      BY <1>1, <2>1
    <2>3. pc = "idle" => CallSteps = 0
      BY DEF CallSteps
    <2> QED BY <2>2, <2>3 DEF TransactionSteps
  <1>3. CASE pc' # "idle"
    BY <1>1, <1>2, <1>3 DEF TransactionSteps
  <1>4. CASE pc' = "idle"
    <2>1. reported' \in {"completed", "rolledBack"}
      BY <1>2, <1>4 DEF Disturbance
    <2>2. IInv'
      BY NextKeeps DEF Next
    <2>3. Terminal(file')
      BY <2>1, <2>2 DEF IInv, TypeOK, ReportedOutcomeIsTrue, Terminal, Mode
    <2>4. TransactionSteps' = 0
      BY <1>4, <2>3 DEF TransactionSteps, Terminal
    <2> QED BY <1>1, <1>2, <2>4, CallStepsAreCounted DEF IInv
  <1> QED BY <1>3, <1>4

\* A reconciliation that reached the disk leaves fewer prepared steps.
LEMMA ReconciliationShortens ==
  ASSUME IInv, ReconcilePreparedStep, ~ Disturbance
  PROVE  TransactionSteps' \in 0..(TransactionSteps - 1)
  <1> DEFINE M == ApplyRecord(file, ReconcileRecord(file))
  <1>1. /\ pc = "idle" /\ pc' = "idle" /\ file \in Modes
        /\ ReconciliationRequired(file)
    BY DEF ReconcilePreparedStep, IInv, TypeOK
  <1>2. file' = M
    BY DEF ReconcilePreparedStep, Disturbance, AppendDurable, DurableFails, WriteFails, SyncFails,
       AppendBuffered
  <1>3. /\ file.phase \in {"forward", "rollback"} /\ file.prepared \in 1..StepCount
        /\ StepCount \in Nat
    BY <1>1, NAssumption DEF Modes, ReconciliationRequired, StepCount
  <1>4. /\ M.phase \in {"forward", "rollback"}
        /\ M.prepared \in 0..(file.prepared - 1)
    BY <1>1, <1>3, ReconciliationReplays DEF Mode
  <1>5. TransactionSteps = CallBound + 1 + file.prepared
    BY <1>1, <1>3 DEF TransactionSteps, Terminal
  <1>6. TransactionSteps' = CallBound + 1 + M.prepared
    BY <1>1, <1>2, <1>4 DEF TransactionSteps, Terminal
  <1>7. CallBound \in Nat
    BY <1>3 DEF CallBound
  <1> QED BY <1>3, <1>4, <1>5, <1>6, <1>7

\* A recovery starts a call.
LEMMA RecoveryShortens ==
  ASSUME IInv, RecoverTransaction
  PROVE  TransactionSteps' \in 0..(TransactionSteps - 1)
  <1>1. /\ pc = "idle" /\ file.phase # "none" /\ ~ Terminal(file)
        /\ pc' # "idle"
    BY DEF RecoverTransaction, Resume, RequestRollback, Goto, Terminal, ForwardPending,
       CompletionPending, RollbackPending, RollbackCompletionPending, RecoveryRequired
  <1>2. IInv'
    BY NextKeeps DEF Next, UserStep
  <1>3. CallSteps' \in 1..CallBound
    BY <1>1, <1>2, NextCallStepsAreCounted DEF IInv
  <1> QED BY <1>1, <1>3, StepsWhenOpen DEF TransactionSteps

\* A transaction that nothing disturbs any more is brought to its verdict by a
\* bounded number of steps, whatever recoveries the user chooses.
THEOREM RecoveryIsBounded == Spec => RecoveryComesToAnEnd
  <1>1. IInv /\ [Next]_vars
          => [~Disturbance => \/ TransactionSteps' \in 0..(TransactionSteps - 1)
                              \/ UNCHANGED <<pc, memory, file>>]_vars
    <2> SUFFICES ASSUME IInv, Next, ~ Disturbance, ~ UNCHANGED <<pc, memory, file>>
                 PROVE  TransactionSteps' \in 0..(TransactionSteps - 1)
      BY DEF vars
    <2>1. CASE ExecutorStep
      BY <2>1, UndisturbedCallShortens
    <2>2. CASE ReconcilePreparedStep
      BY <2>2, ReconciliationShortens
    <2>3. CASE RecoverTransaction
      BY <2>3, RecoveryShortens
    <2>4. CASE ProcessCrash \/ PowerLoss
      BY <2>4 DEF ProcessCrash, PowerLoss, Return, Disturbance
    <2>5. CASE \E n \in Names : ForeignCreate(n) \/ ForeignRemove(n) \/ Tamper(n)
      BY <2>5 DEF ForeignCreate, ForeignRemove, Tamper, journal
    <2> QED BY <2>1, <2>2, <2>3, <2>4, <2>5 DEF Next, UserStep, Environment
  <1> QED BY <1>1, Invariant, PTL DEF Spec, RecoveryComesToAnEnd

-----------------------------------------------------------------------------
(***************************************************************************)
(* The records behind the replay states (module LoggedTransaction).        *)
(***************************************************************************)
LEMMA RecordFields ==
  ASSUME NEW r \in Records
  PROVE  r.step \in Nat /\ r.count \in Nat
  <1>1. StepCount \in Nat
    BY NAssumption DEF StepCount
  <1> QED BY <1>1 DEF Records, Rec, Steps

LEMMA RecordsKeepModes ==
  ASSUME NEW m \in Modes, NEW r \in Records
  PROVE  ApplyRecord(m, r) \in Modes
  <1>1. r.step \in Nat /\ r.count \in Nat /\ StepCount \in Nat
    BY RecordFields, NAssumption DEF StepCount
  <1>2. /\ m.phase \in Phases /\ m.next \in 0..StepCount /\ m.prepared \in 0..StepCount
        /\ m.next + m.prepared <= StepCount \/ m.phase = "rollback"
        /\ m.phase # "forward" => m.prepared <= (IF m.phase = "rollback" THEN 1 ELSE 0)
        /\ m.phase = "rollback" => m.prepared <= m.next
        /\ m.phase = "failed" => m.next > 0
    BY DEF Modes
  <1>3. Rejected \in Modes
    BY <1>1 DEF Rejected, Mode, Modes, Phases
  <1>4. CASE m.phase = "forward"
    <2>1. ApplyForward(m, r) \in Modes
      BY <1>1, <1>2, <1>3, <1>4 DEF ApplyForward, Mode, Modes, Phases
    <2> QED BY <1>4, <2>1 DEF ApplyRecord
  <1>5. CASE m.phase = "rollback"
    <2>1. ApplyRollback(m, r) \in Modes
      BY <1>1, <1>2, <1>3, <1>5 DEF ApplyRollback, Mode, Modes, Phases
    <2> QED BY <1>5, <2>1 DEF ApplyRecord
  <1>6. CASE m.phase \notin {"forward", "rollback"}
    BY <1>1, <1>2, <1>3, <1>6 DEF ApplyRecord, Mode, Modes, Phases
  <1> QED BY <1>4, <1>5, <1>6

\* A record that is accepted does something.
LEMMA RecordsChangeTheState ==
  ASSUME NEW m \in Modes, NEW r \in Records, ApplyRecord(m, r).phase # "rejected"
  PROVE  ApplyRecord(m, r) # m
  <1>1. r.step \in Nat /\ r.count \in Nat /\ StepCount \in Nat
    BY RecordFields, NAssumption DEF StepCount
  <1>2. m.phase \in Phases /\ m.next \in 0..StepCount /\ m.prepared \in 0..StepCount
    BY DEF Modes
  <1>3. CASE m.phase = "forward"
    <2>1. ApplyRecord(m, r) = ApplyForward(m, r)
      BY <1>3 DEF ApplyRecord
    <2>2. \/ ApplyForward(m, r).phase # "forward" \/ ApplyForward(m, r).next # m.next
          \/ ApplyForward(m, r).prepared # m.prepared
      BY <1>1, <1>2, <1>3 DEF ApplyForward, Mode, Rejected
    <2> QED BY <1>3, <2>1, <2>2
  <1>4. CASE m.phase = "rollback"
    <2>1. ApplyRecord(m, r) = ApplyRollback(m, r)
      BY <1>4 DEF ApplyRecord
    <2>2. \/ ApplyRollback(m, r).phase # "rollback" \/ ApplyRollback(m, r).next # m.next
          \/ ApplyRollback(m, r).prepared # m.prepared
      BY <1>1, <1>2, <1>4 DEF ApplyRollback, Mode, Rejected
    <2> QED BY <1>4, <2>1, <2>2
  <1>5. CASE m.phase \notin {"forward", "rollback"}
    BY <1>5 DEF ApplyRecord, Mode, Rejected
  <1> QED BY <1>3, <1>4, <1>5

ReplaysUpTo(g, l) ==
  g = [k \in 0..Len(l) |-> IF k = 0 THEN NoJournal ELSE ApplyRecord(g[k - 1], l[k])]

\* Replay has the values its definition gives.
LEMMA ReplayIsDefined ==
  ASSUME NEW l \in Seq(Records)
  PROVE  /\ ReplayedUpTo(l)[0] = NoJournal
         /\ \A k \in 1..Len(l) : ReplayedUpTo(l)[k] = ApplyRecord(ReplayedUpTo(l)[k - 1], l[k])
  <1> DEFINE n == Len(l)
             step1 == [i \in 1..n |-> [m \in Modes |-> ApplyRecord(m, l[i])]]
  <1>1. n \in Nat /\ \A i \in 1..n : l[i] \in Records
    OBVIOUS
  <1>2. StepsStay(step1, n, Modes)
    BY <1>1, RecordsKeepModes DEF StepsStay
  <1>3. \A i \in 1..n, m \in Modes : step1[i][m] = ApplyRecord(m, l[i])
    OBVIOUS
  <1>4. NoJournal \in Modes
    BY ModesOfTheProtocol
  <1> HIDE DEF step1
  <1>5. PICK g \in [0..n -> Modes] : Recursive(g, n, NoJournal, step1)
    BY <1>1, <1>2, <1>4, RecursionExists
  <1>6. g[0] = NoJournal /\ \A i \in 1..n : g[i] = ApplyRecord(g[i - 1], l[i])
    <2>1. ASSUME NEW i \in 1..n
          PROVE  g[i] = ApplyRecord(g[i - 1], l[i])
      <3>1. g[i - 1] \in Modes /\ g[i] = step1[i][g[i - 1]]
        BY <1>1, <1>5 DEF Recursive
      <3> QED BY <1>3, <3>1
    <2> QED BY <1>5, <2>1 DEF Recursive
  <1>7. ReplaysUpTo(g, l)
    <2>1. ASSUME NEW k \in 0..n
          PROVE  g[k] = IF k = 0 THEN NoJournal ELSE ApplyRecord(g[k - 1], l[k])
      BY <1>1, <1>6
    <2>2. g = [k \in 0..n |-> g[k]]
      OBVIOUS
    <2> QED BY <2>1, <2>2 DEF ReplaysUpTo
  <1>8. ReplayedUpTo(l) = CHOOSE h : ReplaysUpTo(h, l)
    BY Zenon DEF ReplayedUpTo, ReplaysUpTo
  <1>9. ReplaysUpTo(ReplayedUpTo(l), l)
    BY <1>7, <1>8, Zenon
  <1> QED BY <1>9 DEF ReplaysUpTo

\* The state after k records depends on these only.
LEMMA ReplayOfPrefix ==
  ASSUME NEW l \in Seq(Records), NEW t \in Seq(Records), Len(l) <= Len(t),
         \A i \in 1..Len(l) : t[i] = l[i]
  PROVE  Replayed(l) = ReplayedUpTo(t)[Len(l)]
  <1> DEFINE n == Len(l)
             f == ReplayedUpTo(l)
             g == ReplayedUpTo(t)
             T == {k \in 0..n : g[k] = f[k]}
  <1>1. n \in Nat /\ Len(t) \in Nat /\ n <= Len(t)
    OBVIOUS
  <1>2. /\ f[0] = NoJournal /\ \A k \in 1..n : f[k] = ApplyRecord(f[k - 1], l[k])
        /\ g[0] = NoJournal /\ \A k \in 1..Len(t) : g[k] = ApplyRecord(g[k - 1], t[k])
    BY ReplayIsDefined
  <1> HIDE DEF f, g
  <1>3. 0 \in T
    BY <1>1, <1>2
  <1>4. ASSUME NEW k \in 0..(n - 1), k \in T
        PROVE  k + 1 \in T
    <2>1. k + 1 \in 1..n /\ k + 1 \in 1..Len(t) /\ (k + 1) - 1 = k
      BY <1>1
    <2>2. f[k + 1] = ApplyRecord(f[k], l[k + 1]) /\ g[k + 1] = ApplyRecord(g[k], t[k + 1])
      BY <1>2, <2>1
    <2>3. g[k] = f[k] /\ t[k + 1] = l[k + 1]
      BY <1>4, <2>1
    <2>4. g[k + 1] = f[k + 1]
      BY <2>2, <2>3
    <2> QED BY <2>1, <2>4
  <1>5. \A k \in 0..n : k \in T
    <2> HIDE DEF T, n
    <2> QED BY <1>1, <1>3, <1>4, BoundedInduction
  <1>6. n \in 0..n
    BY <1>1
  <1> QED BY <1>5, <1>6 DEF Replayed, f, g

LEMMA ReplayOfNothing == << >> \in Seq(Records) /\ Replayed(<< >>) = NoJournal
  <1>1. << >> \in Seq(Records) /\ Len(<< >>) = 0
    OBVIOUS
  <1> QED BY <1>1, ReplayIsDefined DEF Replayed

LEMMA ReplayOfAppended ==
  ASSUME NEW l \in Seq(Records), NEW r \in Records
  PROVE  Replayed(Append(l, r)) = ApplyRecord(Replayed(l), r)
  <1> DEFINE t == Append(l, r)
  <1>1. /\ t \in Seq(Records) /\ Len(l) \in Nat /\ Len(t) = Len(l) + 1
        /\ t[Len(l) + 1] = r /\ \A i \in 1..Len(l) : t[i] = l[i]
    OBVIOUS
  <1> HIDE DEF t
  <1>2. Len(l) <= Len(t)
    BY <1>1
  <1>3. Replayed(l) = ReplayedUpTo(t)[Len(l)]
    BY <1>1, <1>2, ReplayOfPrefix
  <1>4. Len(t) \in 1..Len(t) /\ Len(t) - 1 = Len(l)
    BY <1>1
  <1>5. ReplayedUpTo(t)[Len(t)] = ApplyRecord(ReplayedUpTo(t)[Len(t) - 1], t[Len(t)])
    BY <1>1, <1>4, ReplayIsDefined
  <1> QED BY <1>1, <1>3, <1>4, <1>5 DEF Replayed, t

\* Prefixes of the records.
LEMMA PrefixOfAll ==
  ASSUME NEW l \in Seq(Records)
  PROVE  SubSeq(l, 1, Len(l)) = l /\ Len(l) \in Nat
  <1>1. /\ SubSeq(l, 1, Len(l)) \in Seq(Records) /\ Len(SubSeq(l, 1, Len(l))) = Len(l)
        /\ \A i \in 1..Len(l) : SubSeq(l, 1, Len(l))[i] = l[i]
    OBVIOUS
  <1> QED BY <1>1, SeqEqual

LEMMA PrefixesOfAppended ==
  ASSUME NEW l \in Seq(Records), NEW r \in Records, NEW k \in 0..Len(l)
  PROVE  SubSeq(Append(l, r), 1, k) = SubSeq(l, 1, k)
  <1> DEFINE t == Append(l, r)
             a == SubSeq(t, 1, k)
             b == SubSeq(l, 1, k)
  <1>1. /\ t \in Seq(Records) /\ Len(l) \in Nat /\ Len(t) = Len(l) + 1 /\ k \in Nat /\ k <= Len(l)
        /\ \A i \in 1..Len(l) : t[i] = l[i]
    OBVIOUS
  <1> HIDE DEF t
  <1>2. /\ a \in Seq(Records) /\ Len(a) = k /\ \A i \in 1..k : a[i] = t[i]
    BY <1>1
  <1>3. /\ b \in Seq(Records) /\ Len(b) = k /\ \A i \in 1..k : b[i] = l[i]
    BY <1>1
  <1>4. \A i \in 1..k : a[i] = b[i]
    BY <1>1, <1>2, <1>3
  <1> HIDE DEF a, b
  <1>5. a = b
    BY <1>2, <1>3, <1>4, SeqEqual
  <1> QED BY <1>5 DEF a, b, t

LEMMA PrefixesOfPrefix ==
  ASSUME NEW l \in Seq(Records), NEW k \in 0..Len(l)
  PROVE  SubSeq(l, 1, k) \in Seq(Records) /\ Len(SubSeq(l, 1, k)) = k
  OBVIOUS

-----------------------------------------------------------------------------
(***************************************************************************)
(* What any step but a loss of power does to the journal.                  *)
(***************************************************************************)
LeavesTheFile == file' = file /\ onDisk' = onDisk /\ (torn => torn')

WritesTheRecord(r) ==
  /\ ~torn /\ torn' = torn /\ file' = ApplyRecord(file, r)
  /\ onDisk' = {file'} \/ onDisk' = onDisk \cup {file'}

WritesARecord == \E r \in Records : WritesTheRecord(r)

LEMMA RecordsOfTheExecutor ==
  /\ Header \in Records
  /\ \A t \in Plain : Rec(t, 0, 0) \in Records
  /\ \A t \in OfAStep, i \in Steps : Rec(t, i, 0) \in Records
  /\ \A i \in Steps, k \in 1..StepCount : ForwardIntent(i, k) \in Records
  BY DEF Header, Records, Plain, OfAStep, ForwardIntent

LEMMA AppendsMoveTheFile ==
  ASSUME ~torn, torn \in BOOLEAN, NEW r \in Records,
         AppendDurable(r) \/ AppendBuffered(r) \/ DurableFails(r) \/ WriteFails
  PROVE  LeavesTheFile \/ WritesARecord
  <1>1. LeavesTheFile \/ WritesTheRecord(r)
    BY DEF AppendDurable, AppendBuffered, DurableFails, WriteFails, SyncFails, LeavesTheFile,
           WritesTheRecord
  <1> QED BY <1>1 DEF WritesARecord

LEMMA ExecutorMovesTheFile ==
  ASSUME IInv, ExecutorStep
  PROVE  LeavesTheFile \/ WritesARecord
  <1>1. /\ pc # "idle" => ~torn
        /\ torn \in BOOLEAN /\ step \in 0..StepCount /\ StepCount \in Nat /\ StepCount > 0
    BY NAssumption DEF IInv, TypeOK, ControlMatchesJournal, StepCount
  <1>2. CASE Cancel \/ ForwardRename \/ ForwardRenameFails \/ RollbackRename
             \/ RollbackRenameFails
    BY <1>2 DEF Cancel, ForwardRename, ForwardRenameFails, RollbackRename, RollbackRenameFails,
                journal, LeavesTheFile
  <1>3. CASE ExecuteFrozenPlan
    <2>1. AppendDurable(Header) \/ DurableFails(Header)
      BY <1>3 DEF ExecuteFrozenPlan
    <2> QED BY <1>1, <1>3, <2>1, RecordsOfTheExecutor, AppendsMoveTheFile DEF ExecuteFrozenPlan
  <1>4. CASE ForwardIntentStep
    <2>1. CASE step = StepCount
      BY <1>4, <2>1 DEF ForwardIntentStep, journal, LeavesTheFile
    <2>2. CASE step # StepCount
      <3> DEFINE r == ForwardIntent(step, ChunkEnd - step)
      <3>1. step \in Steps /\ ChunkEnd - step \in 1..StepCount
        BY <1>1, <2>2, BatchAssumption DEF ChunkEnd, Steps
      <3>2. r \in Records
        BY <3>1, RecordsOfTheExecutor
      <3>3. AppendDurable(r) \/ DurableFails(r)
        BY <1>4, <2>2 DEF ForwardIntentStep
      <3> HIDE DEF r
      <3> QED BY <1>1, <1>4, <3>2, <3>3, AppendsMoveTheFile DEF ForwardIntentStep
    <2> QED BY <2>1, <2>2
  <1>5. CASE ForwardRecord
    <2>1. step \in Steps
      BY <1>5, InABatch DEF ForwardRecord
    <2>2. Rec("ForwardStepCompleted", step, 0) \in Records
      BY <2>1, RecordsOfTheExecutor DEF OfAStep
    <2>3. AppendBuffered(Rec("ForwardStepCompleted", step, 0)) \/ WriteFails
      BY <1>5 DEF ForwardRecord
    <2> QED BY <1>1, <1>5, <2>2, <2>3, AppendsMoveTheFile DEF ForwardRecord
  <1>6. CASE CompleteTransaction \/ CompleteRollback
    <2>1. PICK t \in {"TransactionCompleted", "TransactionRolledBack"} :
            AppendDurable(Rec(t, 0, 0)) \/ DurableFails(Rec(t, 0, 0))
      BY <1>6 DEF CompleteTransaction, CompleteRollback
    <2>2. Rec(t, 0, 0) \in Records
      BY RecordsOfTheExecutor DEF Plain
    <2>3. ~torn
      BY <1>1, <1>6 DEF CompleteTransaction, CompleteRollback
    <2> QED BY <1>1, <2>1, <2>2, <2>3, AppendsMoveTheFile
  <1>7. CASE StartRollback
    <2> DEFINE r == RollbackStarted(cause, step)
    <2>1. r \in Records
      <3>1. CASE cause = "failed"
        <4>1. r = Rec("RollbackStartedForwardStepFailed", step, 0)
          BY <3>1 DEF RollbackStarted
        <4>2. step \in Steps
          <5>1. file.phase = "forward" /\ file.next = step /\ file.prepared > 0 /\ file \in Modes
            BY <1>7, <3>1 DEF StartRollback, IInv, TypeOK, ControlMatchesJournal
          <5>2. /\ file.next + file.prepared <= StepCount
                /\ file.prepared \in 0..StepCount
            BY <5>1 DEF Modes
          <5> QED BY <1>1, <5>1, <5>2 DEF Steps
        <4> QED BY <4>1, <4>2, RecordsOfTheExecutor DEF OfAStep
      <3>2. CASE cause # "failed"
        <4>1. r = Rec("RollbackStartedRecoveryRequested", 0, 0) \/ r = Rec("RollbackStartedCancelled", 0, 0)
          BY <3>2 DEF RollbackStarted
        <4> QED BY <4>1, RecordsOfTheExecutor DEF Plain
      <3> QED BY <3>1, <3>2
    <2>2. AppendDurable(r) \/ DurableFails(r)
      BY <1>7 DEF StartRollback
    <2> HIDE DEF r
    <2> QED BY <1>1, <1>7, <2>1, <2>2, AppendsMoveTheFile DEF StartRollback
  <1>8. CASE RollbackIntentStep \/ RollbackFailed \/ RollbackRecord \/ RetryFailedRollback
    <2>1. step \in Steps
      <3>1. file \in Modes /\ file.next = step + 1
        BY <1>8 DEF RollbackIntentStep, RollbackFailed, RollbackRecord, RetryFailedRollback, IInv,
                    TypeOK, ControlMatchesJournal, Mode
      <3>2. file.next \in 0..StepCount
        BY <3>1 DEF Modes
      <3> QED BY <1>1, <3>1, <3>2 DEF Steps
    <2>2. PICK t \in {"RollbackStepPrepared", "RollbackStepFailed", "RollbackStepCompleted",
                      "RollbackRecoveryStarted"} :
            \/ AppendDurable(Rec(t, step, 0)) \/ AppendBuffered(Rec(t, step, 0))
            \/ DurableFails(Rec(t, step, 0)) \/ WriteFails
      BY <1>8 DEF RollbackIntentStep, RollbackFailed, RollbackRecord, RetryFailedRollback
    <2>3. Rec(t, step, 0) \in Records
      BY <2>1, RecordsOfTheExecutor DEF OfAStep
    <2>4. ~torn
      BY <1>1, <1>8 DEF RollbackIntentStep, RollbackFailed, RollbackRecord, RetryFailedRollback
    <2> QED BY <1>1, <2>2, <2>3, <2>4, AppendsMoveTheFile
  <1> QED BY <1>2, <1>3, <1>4, <1>5, <1>6, <1>7, <1>8 DEF ExecutorStep

LEMMA StepsMoveTheFile ==
  ASSUME IInv, ExecutorStep \/ UserStep \/ ProcessCrash \/ OtherPrograms
  PROVE  LeavesTheFile \/ WritesARecord
  <1>1. CASE ReconcilePreparedStep
    <2> DEFINE r == ReconcileRecord(file)
    <2>1. /\ ReconciliationRequired(file) /\ file \in Modes /\ ~torn /\ torn \in BOOLEAN
          /\ AppendDurable(r) \/ DurableFails(r)
      BY <1>1 DEF ReconcilePreparedStep, IInv, TypeOK
    <2>2. PreparedStep(file) \in Steps
      BY <2>1, ReconciliationReplays
    <2>3. r \in Records
      BY <2>2, RecordsOfTheExecutor DEF ReconcileRecord, OfAStep
    <2> HIDE DEF r
    <2> QED BY <2>1, <2>3, AppendsMoveTheFile
  <1>2. CASE RecoverTransaction
    BY <1>2 DEF RecoverTransaction, journal, LeavesTheFile
  <1>3. CASE ProcessCrash
    <2>1. ~torn /\ torn \in BOOLEAN
      BY <1>3 DEF ProcessCrash, IInv, TypeOK, ControlMatchesJournal
    <2> QED BY <1>3, <2>1 DEF ProcessCrash, LeavesTheFile
  <1>4. CASE OtherPrograms
    BY <1>4 DEF OtherPrograms, ForeignCreate, ForeignRemove, Tamper, journal, LeavesTheFile
  <1> QED BY <1>1, <1>2, <1>3, <1>4, ExecutorMovesTheFile DEF UserStep

-----------------------------------------------------------------------------
(***************************************************************************)
(* The history takes nothing from the transaction and adds nothing.        *)
(***************************************************************************)
LeftOf(k) == Replayed(SubSeq(records, 1, k))

\* The records a reader may find: any step of the transaction goes on with
\* some records, so nothing that holds of LoggedSpec is owed to its history.
THEOREM HistoryTakesNothing ==
  ASSUME IInv, JournalIsItsRecords, Next
  PROVE  \E l \in Seq(Records), s \in Nat : LoggedStep(l, s)
  <1>1. /\ records \in Seq(Records) /\ synced \in 0..Len(records) /\ Len(records) \in Nat
        /\ onDisk = {LeftOf(k) : k \in synced..Len(records)}
    BY DEF JournalIsItsRecords, LeftOf
  <1>2. CASE ExecutorStep \/ UserStep \/ ProcessCrash \/ OtherPrograms
    <2>1. CASE LeavesTheFile
      <3>1. LoggedStep(records, synced)
        BY <1>2, <2>1 DEF LoggedStep, Kept, LeavesTheFile
      <3> QED BY <1>1, <3>1
    <2>2. CASE WritesARecord
      <3>1. PICK r \in Records : WritesTheRecord(r)
        BY <2>2 DEF WritesARecord
      <3> DEFINE l == Append(records, r)
      <3>2. l \in Seq(Records) /\ Len(l) \in Nat /\ synced \in Nat
        BY <1>1
      <3>3. Written(l, Len(l)) \/ Written(l, synced)
        BY <3>1 DEF Written, WritesTheRecord
      <3> HIDE DEF l
      <3>4. LoggedStep(l, Len(l)) \/ LoggedStep(l, synced)
        BY <1>2, <3>3 DEF LoggedStep
      <3> QED BY <3>2, <3>4
    <2> QED BY <1>2, <2>1, <2>2, StepsMoveTheFile
  <1>3. CASE PowerLoss
    <2>1. PICK k \in synced..Len(records) : file' = LeftOf(k)
      BY <1>1, <1>3 DEF PowerLoss
    <2> DEFINE l == SubSeq(records, 1, k)
    <2>2. l \in Seq(Records) /\ k \in Nat
      BY <1>1, <2>1, PrefixesOfPrefix
    <2>3. Lost(l, k)
      BY <2>1 DEF Lost, LeftOf
    <2> HIDE DEF l
    <2>4. LoggedStep(l, k)
      BY <1>3, <2>3 DEF LoggedStep
    <2> QED BY <2>2, <2>4
  <1> QED BY <1>2, <1>3 DEF Next, Environment, OtherPrograms

LEMMA LoggedStepsAreSteps ==
  ASSUME [LoggedStep(records', synced')]_loggedVars
  PROVE  [Next]_vars
  BY DEF LoggedStep, loggedVars, Next, Environment, OtherPrograms

THEOREM LoggedIsATransaction == LoggedSpec => Spec
  <1>1. LoggedInit => Init
    BY DEF LoggedInit
  <1>2. [LoggedStep(records', synced')]_loggedVars => [Next]_vars
    BY LoggedStepsAreSteps
  <1> QED BY <1>1, <1>2, PTL DEF LoggedSpec, Spec

-----------------------------------------------------------------------------
(***************************************************************************)
(* The records and the replay states kept of them.                         *)
(***************************************************************************)
LEMMA NoRecordsAtStart == LoggedInit => JournalIsItsRecords
  <1> SUFFICES ASSUME LoggedInit PROVE JournalIsItsRecords
    OBVIOUS
  <1>1. /\ records = << >> /\ synced = 0 /\ file = NoJournal /\ onDisk = {NoJournal}
    BY DEF LoggedInit, Init
  <1>2. records \in Seq(Records) /\ Replayed(records) = NoJournal /\ Len(records) = 0
    BY <1>1, ReplayOfNothing
  <1>3. LeftOf(0) = NoJournal
    BY <1>2, PrefixOfAll DEF LeftOf
  <1>4. {LeftOf(k) : k \in 0..0} = {NoJournal}
    BY <1>3
  <1> QED BY <1>1, <1>2, <1>4 DEF JournalIsItsRecords, LeftOf

LEMMA WrittenKeepsTheRecords ==
  ASSUME JournalIsItsRecords, Written(records', synced')
  PROVE  JournalIsItsRecords'
  <1>1. PICK r \in Records : file' = ApplyRecord(file, r) /\ records' = Append(records, r)
    BY DEF Written
  <1>2. /\ records \in Seq(Records) /\ synced \in 0..Len(records) /\ Len(records) \in Nat
        /\ file = Replayed(records) /\ onDisk = {LeftOf(k) : k \in synced..Len(records)}
    BY DEF JournalIsItsRecords, LeftOf
  <1> DEFINE n == Len(records)
  <1>3. PICK l \in Seq(Records) : l = Append(records, r)
    <2>1. Append(records, r) \in Seq(Records)
      BY <1>2
    <2> QED BY <2>1, Zenon
  <1>4. records' = l /\ Len(l) = n + 1 /\ n \in Nat /\ Replayed(l) = file'
    BY <1>1, <1>2, <1>3, ReplayOfAppended
  <1>5. Replayed(SubSeq(l, 1, n + 1)) = file'
    BY <1>4, PrefixOfAll
  <1>6. \A k \in 0..n : Replayed(SubSeq(l, 1, k)) = LeftOf(k)
    BY <1>2, <1>3, PrefixesOfAppended DEF LeftOf
  <1> HIDE DEF n
  <1>7. CASE onDisk' = {file'} /\ synced' = Len(records')
    <2>1. synced' = n + 1 /\ synced' \in 0..Len(l)
      BY <1>4, <1>7
    <2>2. onDisk' = {Replayed(SubSeq(l, 1, k)) : k \in (n + 1)..(n + 1)}
      BY <1>4, <1>5, <1>7
    <2> QED BY <1>4, <2>1, <2>2 DEF JournalIsItsRecords
  <1>8. CASE onDisk' = onDisk \cup {file'} /\ synced' = synced
    <2>1. synced \in 0..n /\ onDisk = {LeftOf(k) : k \in synced..n}
      BY <1>2 DEF n
    <2>2. {Replayed(SubSeq(l, 1, k)) : k \in synced..(n + 1)}
            = {Replayed(SubSeq(l, 1, k)) : k \in synced..n} \cup {Replayed(SubSeq(l, 1, n + 1))}
      <3>1. synced..(n + 1) = (synced..n) \cup {n + 1}
        BY <1>4, <2>1
      <3> QED BY <3>1
    <2>3. {Replayed(SubSeq(l, 1, k)) : k \in synced..n} = onDisk
      BY <1>4, <1>6, <2>1
    <2>4. onDisk' = {Replayed(SubSeq(l, 1, k)) : k \in synced..(n + 1)}
      BY <1>5, <1>8, <2>2, <2>3
    <2>5. synced' \in 0..Len(l)
      BY <1>4, <1>8, <2>1
    <2> QED BY <1>4, <1>8, <2>4, <2>5 DEF JournalIsItsRecords
  <1> QED BY <1>7, <1>8 DEF Written

LEMMA LostKeepsTheRecords ==
  ASSUME JournalIsItsRecords, PowerLoss, Lost(records', synced')
  PROVE  JournalIsItsRecords' /\ synced' = Len(records')
  <1>1. records \in Seq(Records) /\ synced \in 0..Len(records) /\ Len(records) \in Nat
    BY DEF JournalIsItsRecords
  <1>2. synced' \in synced..Len(records) /\ records' = SubSeq(records, 1, synced')
        /\ file' = Replayed(records')
    BY DEF Lost
  <1>3. PICK k \in 0..Len(records) : k = synced'
    BY <1>1, <1>2
  <1>4. PICK l \in Seq(Records) : l = SubSeq(records, 1, k)
    BY <1>1, PrefixesOfPrefix
  <1>5. records' = l /\ synced' = k /\ file' = Replayed(l) /\ Len(l) = k
    BY <1>1, <1>2, <1>3, <1>4, PrefixesOfPrefix
  <1>6. onDisk' = {file'}
    BY DEF PowerLoss
  <1>7. {Replayed(SubSeq(l, 1, j)) : j \in k..k} = {file'}
    <2>1. SubSeq(l, 1, k) = l
      BY <1>5, PrefixOfAll
    <2>2. k..k = {k}
      BY <1>1, <1>3
    <2> QED BY <1>5, <2>1, <2>2
  <1>8. k \in 0..Len(l)
    BY <1>5
  <1> QED BY <1>5, <1>6, <1>7, <1>8 DEF JournalIsItsRecords

LEMMA RecordsKeep ==
  ASSUME JournalIsItsRecords, [LoggedStep(records', synced')]_loggedVars
  PROVE  JournalIsItsRecords'
  <1>1. CASE Kept(records', synced') \/ UNCHANGED loggedVars
    BY <1>1 DEF Kept, loggedVars, vars, journal, JournalIsItsRecords
  <1>2. CASE Written(records', synced')
    BY <1>2, WrittenKeepsTheRecords
  <1>3. CASE PowerLoss /\ Lost(records', synced')
    BY <1>3, LostKeepsTheRecords
  <1> QED BY <1>1, <1>2, <1>3 DEF LoggedStep

\* "file" and "onDisk" are the replay states of the records in the file and
\* of the prefixes a loss of power may leave: what RenameTransaction keeps of
\* a journal is what replay_journal makes of it (execution.rs:433).
THEOREM JournalIsTheReplayOfItsRecords == LoggedSpec => []JournalIsItsRecords
  <1>1. LoggedInit => JournalIsItsRecords
    BY NoRecordsAtStart
  <1>2. JournalIsItsRecords /\ [LoggedStep(records', synced')]_loggedVars => JournalIsItsRecords'
    BY RecordsKeep
  <1> QED BY <1>1, <1>2, PTL DEF LoggedSpec

-----------------------------------------------------------------------------
(***************************************************************************)
(* The records are a durable log.                                          *)
(***************************************************************************)
LEMMA LogStarts == LoggedInit => Log!Init
  BY ReplayOfNothing DEF LoggedInit, Init, Log!Init, Legal, NoJournal, Mode

LEMMA LogGoesOn ==
  ASSUME IInv, IInv', JournalIsItsRecords, [LoggedStep(records', synced')]_loggedVars
  PROVE  [Log!Next]_(Log!vars)
  <1>1. /\ records \in Seq(Records) /\ synced \in 0..Len(records) /\ file = Replayed(records)
        /\ file \in Modes /\ file' \in Modes /\ file'.phase # "rejected"
        /\ torn \in BOOLEAN /\ torn' \in BOOLEAN
    BY DEF JournalIsItsRecords, IInv, TypeOK, JournalReplays
  <1>2. CASE UNCHANGED loggedVars
    BY <1>2 DEF loggedVars, vars, journal, Log!vars
  <1>3. ASSUME ExecutorStep \/ UserStep \/ ProcessCrash \/ OtherPrograms
        PROVE  LeavesTheFile \/ WritesARecord
    BY <1>3, StepsMoveTheFile
  <1>4. CASE (ExecutorStep \/ UserStep \/ ProcessCrash \/ OtherPrograms) /\ Kept(records', synced')
    <2>1. file' = file /\ records' = records /\ synced' = synced
      BY <1>4 DEF Kept
    <2>2. ~WritesARecord
      BY <1>1, <2>1, RecordsChangeTheState DEF WritesARecord, WritesTheRecord
    <2>3. torn => torn'
      BY <1>3, <1>4, <2>2 DEF LeavesTheFile
    <2>4. CASE torn' = torn
      BY <2>1, <2>4 DEF Log!vars
    <2>5. CASE ~torn /\ torn'
      BY <1>1, <2>1, <2>5 DEF Log!Next, Log!Tear
    <2> QED BY <1>1, <2>3, <2>4, <2>5
  <1>5. CASE (ExecutorStep \/ UserStep \/ ProcessCrash \/ OtherPrograms) /\ Written(records', synced')
    <2>1. PICK r \in Records : file' = ApplyRecord(file, r) /\ records' = Append(records, r)
      BY <1>5 DEF Written
    <2>2. file' # file
      BY <1>1, <2>1, RecordsChangeTheState
    <2>3. ~torn /\ torn' = torn
      BY <1>3, <1>5, <2>2 DEF LeavesTheFile, WritesARecord, WritesTheRecord
    <2>4. Legal(Append(records, r))
      BY <1>1, <2>1, ReplayOfAppended DEF Legal
    <2>5. synced' \in {synced, Len(records')}
      BY <1>5 DEF Written
    <2>6. Log!Extend
      BY <2>1, <2>3, <2>4, <2>5 DEF Log!Extend
    <2> QED BY <2>6 DEF Log!Next
  <1>6. CASE PowerLoss /\ Lost(records', synced')
    <2>1. synced' \in synced..Len(records) /\ records' = SubSeq(records, 1, synced')
      BY <1>6 DEF Lost
    <2>2. synced' = Len(records')
      BY <1>6, LostKeepsTheRecords
    <2>3. Log!Lose
      BY <1>1, <2>1, <2>2 DEF Log!Lose
    <2> QED BY <2>3 DEF Log!Next
  <1> QED BY <1>2, <1>4, <1>5, <1>6 DEF LoggedStep

\* Refinement: the journal a transaction and its recoveries write, through
\* every crash, failed append and loss of power, is the durable log that
\* JournalFile implements: each record is one replay_journal accepts next,
\* none is written behind a torn frame (journal.rs:645), and what was
\* synchronized stays.
THEOREM KeepsALog == LoggedSpec => KeepsADurableLog
  <1>1. LoggedInit => Log!Init
    BY LogStarts
  <1>2. /\ IInv /\ IInv' /\ JournalIsItsRecords /\ [LoggedStep(records', synced')]_loggedVars
        => [Log!Next]_(Log!vars)
    BY LogGoesOn
  <1>3. LoggedSpec => []IInv
    BY LoggedIsATransaction, Invariant, PTL
  <1> QED BY <1>1, <1>2, <1>3, JournalIsTheReplayOfItsRecords, PTL
          DEF LoggedSpec, KeepsADurableLog, Log!Spec

================================================================================

-------------------------- MODULE LoggedTransaction --------------------------
(***************************************************************************)
(* RenameTransaction with the records themselves.  That module keeps of    *)
(* the journal file only what replay_journal makes of its frames; here two *)
(* history variables hold the records a reader of the file finds and how   *)
(* many of them a loss of power cannot take.  They take nothing from the   *)
(* behaviours of RenameTransaction, the replay state of every prefix that  *)
(* may be left is the one kept there, and the records are a DurableLog:    *)
(* what JournalFile shows of the file its writers keep.                    *)
(***************************************************************************)
EXTENDS RenameTransactionProps

VARIABLES
  records,   \* history: the records in the file
  synced     \* history: how many of them no loss of power can take

loggedVars == <<vars, records, synced>>

\* A JournalRecord: without fields, of a step, or of a batch.
Plain ==
  {"TransactionStarted", "RollbackStartedRecoveryRequested", "RollbackStartedCancelled",
   "TransactionCompleted", "TransactionRolledBack"}
OfAStep ==
  {"ForwardStepPrepared", "ForwardStepCompleted", "ForwardStepNotApplied",
   "RollbackStartedForwardStepFailed", "RollbackStepPrepared", "RollbackStepCompleted",
   "RollbackStepNotApplied", "RollbackStepFailed", "RollbackRecoveryStarted"}

Records ==
  {Rec(t, 0, 0) : t \in Plain} \cup {Rec(t, i, 0) : t \in OfAStep, i \in Steps}
    \cup {Rec("ForwardBatchPrepared", i, k) : i \in Steps, k \in 1..StepCount}

-----------------------------------------------------------------------------
(***************************************************************************)
(* What a step does to the file, when l are the records and s the number   *)
(* of synchronized ones after it.                                          *)
(***************************************************************************)
Kept(l, s) == file' = file /\ onDisk' = onDisk /\ l = records /\ s = synced

\* append_record wrote a whole frame, and synchronized the file or not.
Written(l, s) ==
  /\ \E r \in Records : file' = ApplyRecord(file, r) /\ l = Append(records, r)
  /\ \/ onDisk' = {file'} /\ s = Len(l)
     \/ onDisk' = onDisk \cup {file'} /\ s = synced

\* Power was lost, and with it what was not synchronized, from some record on.
Lost(l, s) ==
  /\ s \in synced..Len(records) /\ l = SubSeq(records, 1, s)
  /\ file' = Replayed(l)

OtherPrograms == \E n \in Names : ForeignCreate(n) \/ ForeignRemove(n) \/ Tamper(n)

LoggedStep(l, s) ==
  \/ (ExecutorStep \/ UserStep \/ ProcessCrash \/ OtherPrograms) /\ (Kept(l, s) \/ Written(l, s))
  \/ PowerLoss /\ Lost(l, s)

LoggedInit == Init /\ records = << >> /\ synced = 0

LoggedSpec == LoggedInit /\ [][LoggedStep(records', synced')]_loggedVars

-----------------------------------------------------------------------------
\* The replay states RenameTransaction keeps of the file are those of its
\* records, and of every prefix a loss of power may leave of them.
JournalIsItsRecords ==
  /\ records \in Seq(Records) /\ synced \in 0..Len(records)
  /\ file = Replayed(records)
  /\ onDisk = {Replayed(SubSeq(records, 1, k)) : k \in synced..Len(records)}

\* A transaction, with its recoveries, keeps a durable log: every record it
\* writes is one the protocol accepts next, and none follows a torn frame.
Log == INSTANCE DurableLog WITH
         log <- records, safe <- synced, rewritten <- FALSE

KeepsADurableLog == Log!Spec
==============================================================================

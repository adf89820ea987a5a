------------------------------- MODULE MCJournal ------------------------------
(***************************************************************************)
(* An instance of JournalFile: two processes and a transaction of one      *)
(* source.                                                                 *)
(***************************************************************************)
EXTENDS JournalFile, TLC

CONSTANTS first, second

\* A batch of both steps or a step on its own, and a rollback of the first.
MCRecords ==
  {Header, Rec("ForwardBatchPrepared", 0, 2), Rec("ForwardStepPrepared", 0, 0),
   Rec("TransactionCompleted", 0, 0), Rec("TransactionRolledBack", 0, 0),
   RollbackStarted("cancelled", 0)}
    \cup {Rec(t, i, 0) : t \in {"ForwardStepCompleted", "ForwardStepNotApplied"}, i \in Steps}
    \cup {Rec("RollbackStepPrepared", 0, 0)}
    \cup {Rec(t, i, 0) : t \in {"RollbackStepCompleted", "RollbackStepNotApplied"}, i \in Steps}

\* Journals of the schemas before batches and before parent identities, and
\* one that was interrupted in a rollback.
MCEarlierFiles ==
  {[version |-> 5, records |-> <<Header, Rec("ForwardStepPrepared", 0, 0)>>],
   [version |-> 4, records |-> <<Header>>],
   [version |-> 6, records |-> <<Header, Rec("ForwardStepPrepared", 0, 0),
                                 Rec("ForwardStepCompleted", 0, 0),
                                 RollbackStarted("cancelled", 0),
                                 Rec("RollbackStepPrepared", 0, 0)>>]}

AnyProcess == Permutations({first, second})
===============================================================================

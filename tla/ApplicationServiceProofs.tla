----------------------- MODULE ApplicationServiceProofs -----------------------
(***************************************************************************)
(* Proofs that the calls of the application service keep plan ids,         *)
(* sessions, authorizations and cancellations apart, however many threads  *)
(* make them and wherever its counters end.                                *)
(***************************************************************************)
EXTENDS ApplicationService, WellFoundedInduction, TLAPS

-----------------------------------------------------------------------------
(***************************************************************************)
(* The inductive invariant.                                                *)
(***************************************************************************)
InitSteps == {"init.discover", "init.sequence", "init.ledger", "init.root"}

\* Steps no call gets to before the ledger has a root.
LedgerSteps == {"inspect.issue", "apply.prepare", "create", "running", "apply.refresh", "take",
                "confirm", "decline", "ledger", "undo.allocate", "undo.prepare", "begin",
                "refresh"}

\* Only one thread initializes.  It carries the largest id on disk to the
\* sequence, and until it has given the ledger its root nothing is executed.
Initialization ==
  /\ \A t \in Threads : pc[t] \in InitSteps => t = Initializer
  /\ pc[Initializer] \in {"init.discover", "init.sequence", "init.ledger"} => ~ledgerRoot
  /\ pc[Initializer] = "init.root" => ledgerRoot
  /\ pc[Initializer] \in {"init.sequence", "init.ledger"} =>
       local[Initializer].id \in 0..(MaxPlanId - 1)
  /\ pc[Initializer] = "init.sequence" => \A j \in disk : j.id <= local[Initializer].id
  /\ ~ledgerRoot => /\ ~journalRoot /\ authorization.next = 1
                    /\ \A t \in Threads : pc[t] \notin LedgerSteps

\* A thread has been given a plan id that no journal bears yet.
HoldsId(t) ==
  \/ pc[t] \in {"plan.build", "undo.prepare", "create"}
  \/ pc[t] = "begin" /\ local[t].op = "undo"

\* Ids in use are below the next one and are not shared; a plan is built
\* under the sequence lock.
IdsInUse ==
  /\ \A t \in Threads : HoldsId(t) => /\ local[t].id \in 1..(nextPlanId - 1)
                                      /\ local[t].id # latestPlan.id
  /\ \A t, u \in Threads : HoldsId(t) /\ HoldsId(u) /\ local[t].id = local[u].id => t = u
  /\ \A t \in Threads : pc[t] = "plan.build" => sequence = t /\ local[t].id > published
  /\ \A t \in Threads : pc[t] \in {"apply.begin", "apply.root", "apply.prepare"} =>
                          local[t].id >= 1
  /\ latestPlan.id < nextPlanId /\ published < nextPlanId

\* Once the sequence is initialized, no journal bears an id in use.
SequenceIsInitialized == ledgerRoot \/ pc[Initializer] = "init.ledger"

IdsOnDisk ==
  /\ IdsAreUnique(disk)
  /\ SequenceIsInitialized =>
       \A j \in disk : /\ j.id < nextPlanId /\ j.id # latestPlan.id
                       /\ \A t \in Threads : HoldsId(t) => local[t].id # j.id

\* The session that is active has a number, and it was only asked to end by
\* a user who confirmed that.
Cancellations ==
  /\ control.active => control.generation \in 1..MaxSession
  /\ control.active /\ control.requested => control.generation \in confirmed
  /\ \A t \in Threads : pc[t] \in {"cancel.confirm", "cancel.request"} =>
                          local[t].seen \in 1..MaxSession
  /\ \A t \in Threads : pc[t] = "cancel.request" => local[t].seen \in confirmed

\* Authorizations are numbered, and a request has the number of an earlier
\* one, which is not the active one any more once it was taken.
Authorizations ==
  /\ authorization.active < authorization.next
  /\ \A t \in Threads : pc[t] \in {"take", "confirm", "decline", "ledger"} =>
                          local[t].id \in 1..(authorization.next - 1)
  /\ \A t \in Threads : pc[t] \in {"confirm", "decline", "ledger"} =>
                          local[t].id # authorization.active

IInv ==
  /\ TypeOK /\ Initialization /\ IdsInUse /\ IdsOnDisk
  /\ SessionIsItsRunners /\ Cancellations /\ Authorizations

-----------------------------------------------------------------------------
(***************************************************************************)
(* The largest id on disk exists, because ids are bounded.                 *)
(***************************************************************************)
\* A bounded set of numbers has a largest one.
LEMMA LargestExists ==
  ASSUME NEW m \in Nat, NEW S \in SUBSET (0..m), S # {}
  PROVE  \E i \in S : \A k \in S : k <= i
<1> DEFINE T == {x \in Nat : m - x \in S}
           Less == OpToRel(<, Nat)
<1>1. T \subseteq Nat /\ T # {}
  <2>1. PICK i \in S : TRUE
    OBVIOUS
  <2>2. m - i \in Nat /\ m - (m - i) = i
    BY <2>1
  <2> QED BY <2>1, <2>2
<1>2. \E x \in T : \A y \in T : ~(<<y, x>> \in Less)
  BY <1>1, NatLessThanWellFounded, WFMin, Zenon
<1>3. \A x, y \in T : y < x => <<y, x>> \in Less
  BY <1>1, Zenon DEF OpToRel
<1> HIDE DEF Less
<1>a. PICK x \in T : \A y \in T : ~(<<y, x>> \in Less)
  BY <1>2, Zenon
<1>4. \A y \in T : x <= y
  <2>1. \A y \in T : ~(y < x)
    BY <1>3, <1>a, Zenon
  <2> QED BY <2>1, <1>1
<1>5. \A k \in S : m - k \in T
  BY SMT
<1>6. m - x \in S /\ x \in 0..m
  BY <1>a
<1>7. \A k \in S : k <= m - x
  <2> TAKE k \in S
  <2>1. m - k \in T /\ k \in 0..m
    BY <1>5
  <2>2. x <= m - k
    BY <1>4, <2>1
  <2> QED BY <2>1, <2>2, <1>6
<1> QED BY <1>6, <1>7

LEMMA LatestIsBound ==
  ASSUME disk \subseteq Journals
  PROVE  LatestOnDisk \in 0..MaxPlanId /\ \A j \in disk : j.id <= LatestOnDisk
  <1>1. CASE disk = {}
    BY <1>1, BoundsAssumption DEF LatestOnDisk
  <1>2. CASE disk # {}
    <2> DEFINE S == {j.id : j \in disk}
    <2>1. S \in SUBSET (0..MaxPlanId) /\ S # {}
      BY <1>2 DEF Journals, PlanIds
    <2>2. PICK i \in S : \A k \in S : k <= i
      BY <2>1, LargestExists, BoundsAssumption
    <2> DEFINE IsLatest(n) == (\E j \in disk : j.id = n) /\ \A j \in disk : j.id <= n
    <2>3. \E n \in PlanIds : IsLatest(n)
      BY <2>2 DEF Journals
    <2>4. LatestOnDisk = CHOOSE n \in PlanIds : IsLatest(n)
      BY <1>2 DEF LatestOnDisk
    <2>5. LatestOnDisk \in PlanIds /\ IsLatest(LatestOnDisk)
      <3> HIDE DEF IsLatest
      <3> QED BY <2>3, <2>4, Zenon
    <2> QED BY <2>5, BoundsAssumption DEF PlanIds
  <1> QED BY <1>1, <1>2

-----------------------------------------------------------------------------
(***************************************************************************)
(* Steps.  One thread takes each step, and the others stay where they are. *)
(***************************************************************************)
BrowsesLedger(t) ==
  \E o \in {"list", "inspectRecovery", "inspectUndo"}, s \in {"list.refresh", "inspect.open"} :
    BrowseLedger(t, o, s)

RequestsMutation(t) == \E o \in {"resumeForward", "recovery", "undo"} : RequestMutation(t, o)

\* The first step of a call.
Begins(t) ==
  \/ PreviewRules(t) \/ AdmitSources(t) \/ AdmitDroppedSources(t)
  \/ BrowsesLedger(t) \/ ApplyLatestPlan(t) \/ RequestsMutation(t) \/ AskToCancel(t)

LEMMA EveryStepIsAThreads ==
  ASSUME Next
  PROVE  \E t \in Threads : Begins(t) \/ Continue(t)
  <1>1. CASE \E t \in Threads : Continue(t)
    BY <1>1
  <1>2. CASE \E t \in Planners : PreviewRules(t) \/ AdmitSources(t) \/ AdmitDroppedSources(t)
    BY <1>2, Zenon DEF Begins, Threads
  <1>3. CASE \E t \in Browsers : \/ BrowseLedger(t, "list", "list.refresh")
                                \/ \E o \in {"inspectRecovery", "inspectUndo"} :
                                     BrowseLedger(t, o, "inspect.open")
    BY <1>3 DEF Begins, BrowsesLedger, Threads
  <1>4. CASE \E t \in Mutators : \/ ApplyLatestPlan(t)
                                \/ \E o \in {"resumeForward", "recovery", "undo"} :
                                     RequestMutation(t, o)
    BY <1>4, Zenon DEF Begins, RequestsMutation, Threads
  <1>5. CASE \E t \in Cancellers : AskToCancel(t)
    BY <1>5, Zenon DEF Begins, Threads
  <1> QED BY <1>1, <1>2, <1>3, <1>4, <1>5, Zenon DEF Next

-----------------------------------------------------------------------------
(***************************************************************************)
(* Pieces of several actions.                                              *)
(***************************************************************************)
\* An invalidated authorization keeps the counter.
LEMMA InvalidatedAuthorization ==
  ASSUME TypeOK
  PROVE  /\ Invalidated \in [next : 1..MaxAuthorization, active : 0..MaxAuthorization,
                             kind : {"none", "recovery", "undo"}]
         /\ Invalidated.next = authorization.next /\ Invalidated.active = 0
  <1> DEFINE Kinds == {"none", "recovery", "undo"}
  <1>1. authorization \in [next : 1..MaxAuthorization, active : 0..MaxAuthorization, kind : Kinds]
    BY Zenon DEF TypeOK
  <1>2. "none" \in Kinds /\ 0 \in 0..MaxAuthorization
    BY BoundsAssumption
  <1> HIDE DEF Kinds
  <1>3. /\ Invalidated \in [next : 1..MaxAuthorization, active : 0..MaxAuthorization, kind : Kinds]
        /\ Invalidated.next = authorization.next /\ Invalidated.active = 0
    BY <1>1, <1>2 DEF Invalidated
  <1> QED BY <1>3 DEF Kinds

\* A session that begins is active and its call knows its number.
LEMMA SessionBegun ==
  ASSUME TypeOK, NEW t \in Threads, BeginSession(t, TRUE) \/ BeginSession(t, FALSE)
  PROVE  /\ ~control.active
         /\ control' \in [active : BOOLEAN, cancellable : BOOLEAN, requested : BOOLEAN,
                          generation : 0..MaxSession]
         /\ control'.active /\ ~control'.requested /\ control'.generation \in 1..MaxSession
         /\ local' \in [Threads -> [op : Operations, id : Nat, seen : Nat]]
         /\ local'[t].seen = control'.generation
         /\ local'[t].id = local[t].id /\ local'[t].op = local[t].op
         /\ \A u \in Threads : u # t => local'[u] = local[u]
  <1>1. /\ control \in [active : BOOLEAN, cancellable : BOOLEAN, requested : BOOLEAN,
                        generation : 0..MaxSession]
        /\ local \in [Threads -> [op : Operations, id : Nat, seen : Nat]]
    BY Zenon DEF TypeOK
  <1> DEFINE generation == IF control.generation = MaxSession THEN MaxSession
                                                              ELSE control.generation + 1
  <1>2. generation \in 1..MaxSession
    BY <1>1, BoundsAssumption
  <1>3. /\ ~control.active
        /\ \E c \in BOOLEAN : control' = [active |-> TRUE, cancellable |-> c, requested |-> FALSE,
                                          generation |-> generation]
        /\ local' = [local EXCEPT ![t].seen = generation]
    BY Zenon DEF BeginSession
  <1> HIDE DEF generation
  <1> QED BY <1>1, <1>2, <1>3

\* A recovery or undo begins a session, or gives up because one is active.
LEMMA RecoveryBegun ==
  ASSUME NEW t \in Threads, BeginRecovery(t)
  PROVE  /\ pc[t] = "begin"
         /\ \/ /\ BeginSession(t, TRUE) \/ BeginSession(t, FALSE)
               /\ local[t].op = "undo" => Goto(t, "create")
               /\ local[t].op # "undo" => Goto(t, "running")
            \/ control.active /\ Goto(t, "drop.locks") /\ UNCHANGED <<control, local>>
         /\ UNCHANGED <<registry, planning, locks, catalog, authorization, disk, history>>
  <1>1. CASE local[t].op \in {"undo", "resumeForward"}
    <2>1. (local[t].op \in {"undo", "resumeForward"}) = TRUE
      BY <1>1
    <2> QED BY <2>1, Zenon DEF BeginRecovery
  <1>2. CASE local[t].op \notin {"undo", "resumeForward"}
    <2>1. (local[t].op \in {"undo", "resumeForward"}) = FALSE
      BY <1>2
    <2> QED BY <2>1, Zenon DEF BeginRecovery
  <1> QED BY <1>1, <1>2

\* It goes on to its execution, or to the release of its locks.
LEMMA RecoveryMoves ==
  ASSUME NEW t \in Threads, BeginRecovery(t)
  PROVE  Goto(t, "create") \/ Goto(t, "running") \/ Goto(t, "drop.locks")
  BY RecoveryBegun

\* The session that is dropped is the one its call knows.
LEMMA SessionDropped ==
  ASSUME TypeOK, NEW t \in Threads, DropSession(t)
  PROVE  /\ control' \in [active : BOOLEAN, cancellable : BOOLEAN, requested : BOOLEAN,
                          generation : 0..MaxSession]
         /\ local' \in [Threads -> [op : Operations, id : Nat, seen : Nat]]
         /\ pc' \in [Threads -> Steps]
         /\ pc[t] = "drop.session" /\ pc'[t] \in {"idle", "drop.locks"}
         /\ \A u \in Threads : u # t => pc'[u] = pc[u] /\ local'[u] = local[u]
         /\ control.generation = local[t].seen => ~control'.active
         /\ control.generation # local[t].seen => control' = control
         /\ UNCHANGED <<registry, planning, locks, catalog, authorization, disk, history>>
  <1> USE DEF Goto, Return, Blank
  <1>1. control' \in [active : BOOLEAN, cancellable : BOOLEAN, requested : BOOLEAN,
                      generation : 0..MaxSession]
    BY DEF TypeOK, DropSession
  <1>2. CASE local[t].op = "apply" /\ Return(t)
    BY <1>1, <1>2 DEF TypeOK, DropSession, Steps, Operations
  <1>3. CASE local[t].op # "apply" /\ Goto(t, "drop.locks") /\ local' = local
    BY <1>1, <1>3 DEF TypeOK, DropSession, Steps
  <1> QED BY <1>2, <1>3, Zenon DEF DropSession

\* The registry's generation saturates.
LEMMA RegistryStays ==
  ASSUME TypeOK, NEW t \in Threads, Begins(t) \/ Continue(t)
  PROVE  registry' \in 0..MaxGeneration
  <1>1. registry \in 0..MaxGeneration /\ NextGeneration \in 0..MaxGeneration
    BY BoundsAssumption DEF TypeOK, NextGeneration
  <1>2. registry' = registry \/ registry' = NextGeneration
    <2>1. CASE Begins(t)
      BY <2>1 DEF Begins, PreviewRules, AdmitSources, AdmitDroppedSources,
         BrowsesLedger, BrowseLedger, ApplyLatestPlan, RequestsMutation,
         RequestMutation, AskToCancel
    <2>2. CASE Continue(t)
      BY <2>2 DEF Continue, Plan, Browse, Mutate, Cancel, AllocatePlanId,
         PublishPlan, DiscoverLedger, InitializeSequence, InitializeLedger,
         InitializeJournalRoot, ListLedger, OpenInspection, IssueAuthorization,
         BeginApply, ReadJournalRoot, PrepareLatestExecution, RefreshAfterApply,
         TakeAuthorization, Confirm, Decline, TakeLedger, AllocateUndoId, PrepareUndo,
         BeginRecovery, CreateJournal, FinishExecution, RefreshAfterExecution,
         DropSession, DropLocks, ConfirmCancellation, RequestCancellation
    <2> QED BY <2>1, <2>2
  <1> QED BY <1>1, <1>2

\* A step is one thread's: the others stay where they are.
LEMMA OneCallMoves ==
  ASSUME TypeOK, NEW t \in Threads, Begins(t) \/ Continue(t)
  PROVE  /\ pc' \in [Threads -> Steps]
         /\ local' \in [Threads -> [op : Operations, id : Nat, seen : Nat]]
         /\ \A u \in Threads : u # t => pc'[u] = pc[u] /\ local'[u] = local[u]
  <1> USE DEF planning, catalog, locks, history, Goto, Return, Blank
  <1>a. /\ pc \in [Threads -> Steps]
        /\ local \in [Threads -> [op : Operations, id : Nat, seen : Nat]]
        /\ registry \in Nat /\ registry' \in Nat /\ nextPlanId \in Nat /\ ledgerLatest \in Nat
        /\ authorization.next \in Nat /\ published \in Nat /\ control.generation \in Nat
    BY RegistryStays, BoundsAssumption DEF TypeOK, PlanIds
  <1>b. LatestOnDisk \in Nat
    BY LatestIsBound, BoundsAssumption DEF TypeOK
  <1>1. CASE PreviewRules(t)
    BY <1>1, <1>a DEF PreviewRules, Snapshot, Steps, Operations
  <1>2. CASE AdmitSources(t)
    BY <1>2, <1>a DEF AdmitSources, Snapshot, NextGeneration, Steps, Operations
  <1>3. CASE AdmitDroppedSources(t)
    BY <1>3, <1>a DEF AdmitDroppedSources, NextGeneration, Steps, Operations
  <1>4. CASE BrowsesLedger(t)
    BY <1>4, <1>a DEF BrowsesLedger, BrowseLedger, Call, Steps, Operations
  <1>5. CASE ApplyLatestPlan(t)
    BY <1>5, <1>a DEF ApplyLatestPlan, Call, Steps, Operations
  <1>6. CASE RequestsMutation(t)
    BY <1>6, <1>a DEF RequestsMutation, RequestMutation, Call, Steps, Operations
  <1>7. CASE AskToCancel(t)
    BY <1>7, <1>a DEF AskToCancel, Steps, Operations
  <1>8. CASE AllocatePlanId(t)
    <2>1. CASE Return(t)
      BY <1>a, <2>1 DEF Steps, Operations
    <2>2. CASE local' = [local EXCEPT ![t].id = nextPlanId] /\ Goto(t, "plan.build")
      BY <1>a, <2>2 DEF Steps
    <2> QED BY <1>8, <2>1, <2>2, Zenon DEF AllocatePlanId
  <1>9. CASE PublishPlan(t)
    BY <1>9, <1>a DEF PublishPlan, Larger, Steps, Operations
  <1>10. CASE DiscoverLedger(t)
    BY <1>10, <1>a, <1>b DEF DiscoverLedger, Steps, Operations
  <1>11. CASE InitializeSequence(t)
    BY <1>11, <1>a DEF InitializeSequence, Larger, Steps, Operations
  <1>12. CASE InitializeLedger(t)
    BY <1>12, <1>a DEF InitializeLedger, Steps, Operations
  <1>13. CASE InitializeJournalRoot(t)
    BY <1>13, <1>a DEF InitializeJournalRoot, Steps, Operations
  <1>14. CASE ListLedger(t)
    BY <1>14, <1>a DEF ListLedger, Refresh, Steps, Operations
  <1>15. CASE RefreshAfterApply(t)
    BY <1>15, <1>a DEF RefreshAfterApply, Refresh, Steps, Operations
  <1>16. CASE RefreshAfterExecution(t)
    BY <1>16, <1>a DEF RefreshAfterExecution, Refresh, Steps, Operations
  <1>17. CASE OpenInspection(t)
    BY <1>17, <1>a DEF OpenInspection, Refresh, Steps, Operations
  <1>18. CASE IssueAuthorization(t)
    BY <1>18, <1>a DEF IssueAuthorization, Steps, Operations
  <1>19. CASE BeginApply(t)
    <2>1. CASE BeginSession(t, TRUE) /\ Goto(t, "apply.root")
      BY <1>a, <2>1, SessionBegun DEF Steps
    <2>2. CASE control.active /\ Return(t) /\ control' = control
      BY <1>a, <2>2 DEF Steps, Operations
    <2> QED BY <1>19, <2>1, <2>2, Zenon DEF BeginApply
  <1>20. CASE BeginRecovery(t)
    <2>1. CASE BeginSession(t, TRUE) \/ BeginSession(t, FALSE)
      <3>1. /\ local' \in [Threads -> [op : Operations, id : Nat, seen : Nat]]
            /\ \A u \in Threads : u # t => local'[u] = local[u]
        BY <2>1, SessionBegun, Zenon
      <3>2. Goto(t, "create") \/ Goto(t, "running") \/ Goto(t, "drop.locks")
        BY <1>20, RecoveryMoves, Zenon
      <3>3. pc' \in [Threads -> Steps] /\ \A u \in Threads : u # t => pc'[u] = pc[u]
        BY <1>a, <3>2 DEF Steps
      <3> QED BY <3>1, <3>3
    <2>2. CASE Goto(t, "drop.locks") /\ UNCHANGED <<control, local>>
      BY <1>a, <2>2 DEF Steps
    <2>3. \/ BeginSession(t, TRUE) \/ BeginSession(t, FALSE)
          \/ Goto(t, "drop.locks") /\ UNCHANGED <<control, local>>
      <3> HIDE DEF Goto
      <3> QED BY <1>20, RecoveryBegun
    <2> QED BY <2>1, <2>2, <2>3
  <1>21. CASE ReadJournalRoot(t)
    BY <1>21, <1>a DEF ReadJournalRoot, Steps, Operations
  <1>22. CASE Confirm(t)
    BY <1>22, <1>a DEF Confirm, Steps, Operations
  <1>23. CASE PrepareUndo(t)
    BY <1>23, <1>a DEF PrepareUndo, Steps, Operations
  <1>24. CASE PrepareLatestExecution(t)
    BY <1>24, <1>a DEF PrepareLatestExecution, Steps, Operations
  <1>25. CASE TakeAuthorization(t)
    BY <1>25, <1>a DEF TakeAuthorization, IsAuthorized, Steps, Operations
  <1>26. CASE Decline(t)
    BY <1>26, <1>a DEF Decline, Refresh, Steps, Operations
  <1>27. CASE TakeLedger(t)
    BY <1>27, <1>a DEF TakeLedger, Steps, Operations
  <1>28. CASE AllocateUndoId(t)
    BY <1>28, <1>a DEF AllocateUndoId, Larger, Steps, Operations
  <1>29. CASE CreateJournal(t)
    BY <1>29, <1>a DEF CreateJournal, JournalOf, Executed, Steps, Operations
  <1>30. CASE FinishExecution(t)
    BY <1>30, <1>a DEF FinishExecution, Executed, Steps, Operations
  <1>31. CASE DropSession(t)
    BY <1>31, SessionDropped
  <1>32. CASE DropLocks(t)
    BY <1>32, <1>a DEF DropLocks, Steps, Operations
  <1>33. CASE ConfirmCancellation(t)
    BY <1>33, <1>a DEF ConfirmCancellation, Steps, Operations
  <1>34. CASE RequestCancellation(t)
    BY <1>34, <1>a DEF RequestCancellation, Steps, Operations
  <1> QED
    BY <1>1, <1>2, <1>3, <1>4, <1>5, <1>6, <1>7, <1>8, <1>9, <1>10, <1>11, <1>12,
       <1>13, <1>14, <1>15, <1>16, <1>17, <1>18, <1>19, <1>20, <1>21, <1>22, <1>23,
       <1>24, <1>25, <1>26, <1>27, <1>28, <1>29, <1>30, <1>31, <1>32, <1>33, <1>34,
       Zenon DEF Begins, Continue, Plan, Browse, Mutate, Cancel

-----------------------------------------------------------------------------
(***************************************************************************)
(* Every step keeps each part of the invariant.  Types first.              *)
(***************************************************************************)
LEMMA TypesStay ==
  ASSUME IInv, NEW t \in Threads, Begins(t) \/ Continue(t)
  PROVE  TypeOK'
  <1> USE DEF planning, catalog, locks, history, Goto, Return, Blank
  <1>a. TypeOK
    BY Zenon DEF IInv
  <1>m. /\ pc' \in [Threads -> Steps]
        /\ local' \in [Threads -> [op : Operations, id : Nat, seen : Nat]]
    BY <1>a, OneCallMoves
  <1>b. Invalidated \in [next : 1..MaxAuthorization, active : 0..MaxAuthorization,
                         kind : {"none", "recovery", "undo"}]
    BY <1>a, InvalidatedAuthorization
  <1>c. LatestOnDisk \in 0..MaxPlanId
    BY <1>a, LatestIsBound DEF TypeOK
  <1>i. pc[t] \in {"init.sequence", "init.ledger"} => local[t].id \in 0..(MaxPlanId - 1)
    BY DEF IInv, Initialization, InitSteps
  <1>j. HoldsId(t) => local[t].id \in 1..(nextPlanId - 1)
    BY DEF IInv, IdsInUse
  <1>k. pc[t] \in {"cancel.confirm", "cancel.request"} => local[t].seen \in 1..MaxSession
    BY DEF IInv, Cancellations
  <1>1. CASE PreviewRules(t)
    BY <1>1, <1>a, <1>m, BoundsAssumption DEF PreviewRules, Snapshot, TypeOK,
       PlanIds, Journals, NoPlan
  <1>2. CASE AdmitSources(t)
    BY <1>2, <1>a, <1>m, BoundsAssumption DEF AdmitSources, Snapshot,
       NextGeneration, TypeOK, PlanIds, Journals, NoPlan
  <1>3. CASE AdmitDroppedSources(t)
    BY <1>3, <1>a, <1>m, BoundsAssumption DEF AdmitDroppedSources, NextGeneration,
       TypeOK, PlanIds, Journals, NoPlan
  <1>4. CASE BrowsesLedger(t)
    BY <1>4, <1>a, <1>m, BoundsAssumption, <1>b DEF BrowsesLedger, BrowseLedger,
       Call, TypeOK, PlanIds, Journals, NoPlan
  <1>5. CASE ApplyLatestPlan(t)
    BY <1>5, <1>a, <1>m, BoundsAssumption, <1>b DEF ApplyLatestPlan, Call, TypeOK,
       PlanIds, Journals, NoPlan
  <1>6. CASE RequestsMutation(t)
    BY <1>6, <1>a, <1>m, BoundsAssumption DEF RequestsMutation, RequestMutation,
       Call, TypeOK, PlanIds, Journals, NoPlan
  <1>7. CASE AskToCancel(t)
    BY <1>7, <1>a, <1>m, BoundsAssumption DEF AskToCancel, TypeOK, PlanIds,
       Journals, NoPlan
  <1>8. CASE AllocatePlanId(t)
    BY <1>8, <1>a, <1>m, BoundsAssumption DEF AllocatePlanId, TypeOK, PlanIds,
       Journals, NoPlan
  <1>9. CASE PublishPlan(t)
    BY <1>9, <1>a, <1>m, BoundsAssumption, <1>j DEF PublishPlan, HoldsId, Larger, TypeOK,
       PlanIds, Journals, NoPlan
  <1>10. CASE DiscoverLedger(t)
    BY <1>10, <1>a, <1>m, BoundsAssumption, <1>b, <1>c DEF DiscoverLedger, TypeOK,
       PlanIds, Journals, NoPlan
  <1>11. CASE InitializeSequence(t)
    BY <1>11, <1>a, <1>m, BoundsAssumption, <1>i DEF InitializeSequence, Larger,
       TypeOK, PlanIds, Journals, NoPlan
  <1>12. CASE InitializeLedger(t)
    BY <1>12, <1>a, <1>m, BoundsAssumption, <1>i DEF InitializeLedger, TypeOK,
       PlanIds, Journals, NoPlan
  <1>13. CASE InitializeJournalRoot(t)
    BY <1>13, <1>a, <1>m, BoundsAssumption DEF InitializeJournalRoot, TypeOK,
       PlanIds, Journals, NoPlan
  <1>14. CASE ListLedger(t)
    BY <1>14, <1>a, <1>m, BoundsAssumption, <1>c DEF ListLedger, Refresh, TypeOK,
       PlanIds, Journals, NoPlan
  <1>15. CASE RefreshAfterApply(t)
    BY <1>15, <1>a, <1>m, BoundsAssumption, <1>c DEF RefreshAfterApply, Refresh,
       TypeOK, PlanIds, Journals, NoPlan
  <1>16. CASE RefreshAfterExecution(t)
    BY <1>16, <1>a, <1>m, BoundsAssumption, <1>c DEF RefreshAfterExecution, Refresh,
       TypeOK, PlanIds, Journals, NoPlan
  <1>17. CASE OpenInspection(t)
    BY <1>17, <1>a, <1>m, BoundsAssumption, <1>c DEF OpenInspection, Refresh,
       TypeOK, PlanIds, Journals, NoPlan
  <1>18. CASE IssueAuthorization(t)
    BY <1>18, <1>a, <1>m, BoundsAssumption DEF IssueAuthorization, TypeOK, PlanIds,
       Journals, NoPlan
  <1>19. CASE BeginApply(t)
    <2>1. control' \in [active : BOOLEAN, cancellable : BOOLEAN, requested : BOOLEAN,
                        generation : 0..MaxSession]
      <3>1. CASE BeginSession(t, TRUE)
        BY <1>a, <3>1, SessionBegun
      <3>2. CASE control' = control
        BY <1>a, <3>2, Zenon DEF TypeOK
      <3> QED BY <1>19, <3>1, <3>2, Zenon DEF BeginApply
    <2>2. UNCHANGED <<registry, planning, locks, catalog, authorization, disk, history>>
      BY <1>19, Zenon DEF BeginApply
    <2> QED BY <1>a, <1>m, <2>1, <2>2, Zenon DEF TypeOK
  <1>20. CASE BeginRecovery(t)
    <2>1. control' \in [active : BOOLEAN, cancellable : BOOLEAN, requested : BOOLEAN,
                        generation : 0..MaxSession]
      <3>1. CASE BeginSession(t, TRUE) \/ BeginSession(t, FALSE)
        BY <1>a, <3>1, SessionBegun
      <3>2. CASE UNCHANGED <<control, local>>
        BY <1>a, <3>2, Zenon DEF TypeOK
      <3> QED BY <1>20, <3>1, <3>2, RecoveryBegun, Zenon
    <2>2. UNCHANGED <<registry, planning, locks, catalog, authorization, disk, history>>
      BY <1>20, RecoveryBegun, Zenon
    <2> QED BY <1>a, <1>m, <2>1, <2>2, Zenon DEF TypeOK
  <1>21. CASE ReadJournalRoot(t)
    BY <1>21, <1>a, <1>m, BoundsAssumption DEF ReadJournalRoot, TypeOK, PlanIds,
       Journals, NoPlan
  <1>22. CASE Confirm(t)
    BY <1>22, <1>a, <1>m, BoundsAssumption DEF Confirm, TypeOK, PlanIds, Journals,
       NoPlan
  <1>23. CASE PrepareUndo(t)
    BY <1>23, <1>a, <1>m, BoundsAssumption DEF PrepareUndo, TypeOK, PlanIds,
       Journals, NoPlan
  <1>24. CASE PrepareLatestExecution(t)
    BY <1>24, <1>a, <1>m, BoundsAssumption DEF PrepareLatestExecution, TypeOK,
       PlanIds, Journals, NoPlan
  <1>25. CASE TakeAuthorization(t)
    BY <1>25, <1>a, <1>m, BoundsAssumption, <1>b DEF TakeAuthorization,
       IsAuthorized, TypeOK, PlanIds, Journals, NoPlan
  <1>26. CASE Decline(t)
    BY <1>26, <1>a, <1>m, BoundsAssumption, <1>c DEF Decline, Refresh, TypeOK,
       PlanIds, Journals, NoPlan
  <1>27. CASE TakeLedger(t)
    BY <1>27, <1>a, <1>m, BoundsAssumption DEF TakeLedger, TypeOK, PlanIds,
       Journals, NoPlan
  <1>28. CASE AllocateUndoId(t)
    BY <1>28, <1>a, <1>m, BoundsAssumption DEF AllocateUndoId, Larger, TypeOK,
       PlanIds, Journals, NoPlan
  <1>29. CASE CreateJournal(t)
    BY <1>29, <1>a, <1>m, BoundsAssumption, <1>j DEF CreateJournal, HoldsId, JournalOf,
       Executed, TypeOK, PlanIds, Journals, NoPlan
  <1>30. CASE FinishExecution(t)
    BY <1>30, <1>a, <1>m, BoundsAssumption DEF FinishExecution, Executed, TypeOK,
       PlanIds, Journals, NoPlan
  <1>31. CASE DropSession(t)
    <2>1. control' \in [active : BOOLEAN, cancellable : BOOLEAN, requested : BOOLEAN,
                        generation : 0..MaxSession]
      BY <1>a, <1>31, SessionDropped
    <2>2. UNCHANGED <<registry, planning, locks, catalog, authorization, disk, history>>
      BY <1>a, <1>31, SessionDropped, Zenon
    <2> QED BY <1>a, <1>m, <2>1, <2>2, Zenon DEF TypeOK
  <1>32. CASE DropLocks(t)
    BY <1>32, <1>a, <1>m, BoundsAssumption DEF DropLocks, TypeOK, PlanIds, Journals,
       NoPlan
  <1>33. CASE ConfirmCancellation(t)
    BY <1>33, <1>a, <1>m, BoundsAssumption, <1>k DEF ConfirmCancellation, TypeOK,
       PlanIds, Journals, NoPlan
  <1>34. CASE RequestCancellation(t)
    BY <1>34, <1>a, <1>m, BoundsAssumption, <1>k DEF RequestCancellation, TypeOK,
       PlanIds, Journals, NoPlan
  <1> QED
    BY <1>1, <1>2, <1>3, <1>4, <1>5, <1>6, <1>7, <1>8, <1>9, <1>10, <1>11, <1>12,
       <1>13, <1>14, <1>15, <1>16, <1>17, <1>18, <1>19, <1>20, <1>21, <1>22, <1>23,
       <1>24, <1>25, <1>26, <1>27, <1>28, <1>29, <1>30, <1>31, <1>32, <1>33, <1>34,
       Zenon DEF Begins, Continue, Plan, Browse, Mutate, Cancel

-----------------------------------------------------------------------------
(***************************************************************************)
(* Initialization: its four steps are taken by one thread in order, and    *)
(* no other step changes the ledger's root or gets past its absence.       *)
(***************************************************************************)
LEMMA OutsideInitialization ==
  ASSUME IInv, NEW t \in Threads, Begins(t) \/ Continue(t),
         pc[t] \notin InitSteps
  PROVE  /\ pc'[t] \notin InitSteps /\ UNCHANGED <<ledgerRoot, journalRoot>>
         /\ \/ ledgerRoot
            \/ /\ authorization'.next = authorization.next /\ disk' = disk
               /\ pc'[t] \notin LedgerSteps
  <1> USE DEF planning, catalog, locks, history, Goto, Return, Blank
  <1>p. /\ pc \in [Threads -> Steps] /\ pc' \in [Threads -> Steps]
        /\ local \in [Threads -> [op : Operations, id : Nat, seen : Nat]]
    BY OneCallMoves DEF IInv, TypeOK
  <1>a. ~ledgerRoot => ~journalRoot /\ authorization.next = 1 /\ pc[t] \notin LedgerSteps
    BY Zenon DEF IInv, Initialization
  <1>b. Invalidated.next = authorization.next
    BY InvalidatedAuthorization DEF IInv
  <1>1. CASE PreviewRules(t)
    BY <1>1, <1>p, <1>a DEF PreviewRules, Snapshot, InitSteps, LedgerSteps
  <1>2. CASE AdmitSources(t)
    BY <1>2, <1>p, <1>a DEF AdmitSources, Snapshot, NextGeneration, InitSteps,
       LedgerSteps
  <1>3. CASE AdmitDroppedSources(t)
    BY <1>3, <1>p, <1>a DEF AdmitDroppedSources, NextGeneration, InitSteps,
       LedgerSteps
  <1>4. CASE BrowsesLedger(t)
    BY <1>4, <1>p, <1>a, <1>b DEF BrowsesLedger, BrowseLedger, Call, InitSteps,
       LedgerSteps
  <1>5. CASE ApplyLatestPlan(t)
    BY <1>5, <1>p, <1>a, <1>b DEF ApplyLatestPlan, Call, InitSteps, LedgerSteps
  <1>6. CASE RequestsMutation(t)
    BY <1>6, <1>p, <1>a DEF RequestsMutation, RequestMutation, Call, InitSteps,
       LedgerSteps
  <1>7. CASE AskToCancel(t)
    BY <1>7, <1>p, <1>a DEF AskToCancel, InitSteps, LedgerSteps
  <1>8. CASE AllocatePlanId(t)
    BY <1>8, <1>p, <1>a DEF AllocatePlanId, InitSteps, LedgerSteps
  <1>9. CASE PublishPlan(t)
    BY <1>9, <1>p, <1>a DEF PublishPlan, Larger, InitSteps, LedgerSteps
  <1>10. CASE DiscoverLedger(t)
    BY <1>10 DEF DiscoverLedger, InitSteps
  <1>11. CASE InitializeSequence(t)
    BY <1>11 DEF InitializeSequence, InitSteps
  <1>12. CASE InitializeLedger(t)
    BY <1>12 DEF InitializeLedger, InitSteps
  <1>13. CASE InitializeJournalRoot(t)
    BY <1>13 DEF InitializeJournalRoot, InitSteps
  <1>14. CASE ListLedger(t)
    BY <1>14, <1>p, <1>a DEF ListLedger, Refresh, InitSteps, LedgerSteps
  <1>15. CASE RefreshAfterApply(t)
    BY <1>15, <1>p, <1>a DEF RefreshAfterApply, Refresh, InitSteps, LedgerSteps
  <1>16. CASE RefreshAfterExecution(t)
    BY <1>16, <1>p, <1>a DEF RefreshAfterExecution, Refresh, InitSteps, LedgerSteps
  <1>17. CASE OpenInspection(t)
    BY <1>17, <1>p, <1>a DEF OpenInspection, Refresh, InitSteps, LedgerSteps
  <1>18. CASE IssueAuthorization(t)
    BY <1>18, <1>p, <1>a DEF IssueAuthorization, InitSteps, LedgerSteps
  <1>19. CASE BeginApply(t)
    BY <1>19, <1>p, <1>a DEF BeginApply, BeginSession, InitSteps, LedgerSteps
  <1>20. CASE BeginRecovery(t)
    BY <1>20, <1>p, <1>a, RecoveryBegun DEF InitSteps, LedgerSteps
  <1>21. CASE ReadJournalRoot(t)
    BY <1>21, <1>p, <1>a DEF ReadJournalRoot, InitSteps, LedgerSteps
  <1>22. CASE Confirm(t)
    BY <1>22, <1>p, <1>a DEF Confirm, InitSteps, LedgerSteps
  <1>23. CASE PrepareUndo(t)
    BY <1>23, <1>p, <1>a DEF PrepareUndo, InitSteps, LedgerSteps
  <1>24. CASE PrepareLatestExecution(t)
    BY <1>24, <1>p, <1>a DEF PrepareLatestExecution, InitSteps, LedgerSteps
  <1>25. CASE TakeAuthorization(t)
    BY <1>25, <1>p, <1>a, <1>b DEF TakeAuthorization, IsAuthorized, InitSteps,
       LedgerSteps
  <1>26. CASE Decline(t)
    BY <1>26, <1>p, <1>a DEF Decline, Refresh, InitSteps, LedgerSteps
  <1>27. CASE TakeLedger(t)
    BY <1>27, <1>p, <1>a DEF TakeLedger, InitSteps, LedgerSteps
  <1>28. CASE AllocateUndoId(t)
    BY <1>28, <1>p, <1>a DEF AllocateUndoId, Larger, InitSteps, LedgerSteps
  <1>29. CASE CreateJournal(t)
    BY <1>29, <1>p, <1>a DEF CreateJournal, JournalOf, Executed, InitSteps,
       LedgerSteps
  <1>30. CASE FinishExecution(t)
    BY <1>30, <1>p, <1>a DEF FinishExecution, Executed, InitSteps, LedgerSteps
  <1>31. CASE DropSession(t)
    BY <1>31, SessionDropped DEF IInv, InitSteps, LedgerSteps
  <1>32. CASE DropLocks(t)
    BY <1>32, <1>p, <1>a DEF DropLocks, InitSteps, LedgerSteps
  <1>33. CASE ConfirmCancellation(t)
    BY <1>33, <1>p, <1>a DEF ConfirmCancellation, InitSteps, LedgerSteps
  <1>34. CASE RequestCancellation(t)
    BY <1>34, <1>p, <1>a DEF RequestCancellation, InitSteps, LedgerSteps
  <1>35. CASE Begins(t)
    BY <1>35, <1>1, <1>2, <1>3, <1>4, <1>5, <1>6, <1>7, Zenon DEF Begins
  <1>36. CASE Plan(t)
    BY <1>36, <1>8, <1>9, Zenon DEF Plan
  <1>37. CASE Browse(t)
    BY <1>37, <1>10, <1>11, <1>12, <1>13, <1>14, <1>17, <1>18, Zenon DEF Browse
  <1>38. CASE Mutate(t)
    BY <1>38, <1>15, <1>16, <1>19, <1>20, <1>21, <1>22, <1>23, <1>24, <1>25, <1>26,
       <1>27, <1>28, <1>29, <1>30, <1>31, <1>32, Zenon DEF Mutate
  <1>39. CASE Cancel(t)
    BY <1>39, <1>33, <1>34, Zenon DEF Cancel
  <1> QED BY <1>35, <1>36, <1>37, <1>38, <1>39, Zenon DEF Continue

\* Only the initializing thread's own four steps start inside initialization.
LEMMA InsideInitialization ==
  ASSUME NEW t \in Threads, Begins(t) \/ Continue(t), pc[t] \in InitSteps
  PROVE  \/ pc[t] = "init.discover" /\ DiscoverLedger(t)
         \/ pc[t] = "init.sequence" /\ InitializeSequence(t)
         \/ pc[t] = "init.ledger" /\ InitializeLedger(t)
         \/ pc[t] = "init.root" /\ InitializeJournalRoot(t)
  <1>1. ~Begins(t)
    BY DEF InitSteps, Begins, Snapshot, PreviewRules, AdmitSources, AdmitDroppedSources,
       BrowsesLedger, BrowseLedger, Call, ApplyLatestPlan, RequestsMutation, RequestMutation,
       AskToCancel
  <1>2. ~Plan(t) /\ ~Cancel(t)
    BY DEF InitSteps, Plan, Cancel, AllocatePlanId, PublishPlan, ConfirmCancellation,
       RequestCancellation
  <1>3. ~Mutate(t)
    BY DEF InitSteps, Mutate, BeginApply, ReadJournalRoot, PrepareLatestExecution,
       RefreshAfterApply, TakeAuthorization, Confirm, Decline, TakeLedger, AllocateUndoId,
       PrepareUndo, BeginRecovery, CreateJournal, FinishExecution, RefreshAfterExecution,
       DropSession, DropLocks
  <1>4. ~ListLedger(t) /\ ~OpenInspection(t) /\ ~IssueAuthorization(t)
    BY DEF InitSteps, ListLedger, OpenInspection, IssueAuthorization
  <1>5. /\ DiscoverLedger(t) => pc[t] = "init.discover"
        /\ InitializeSequence(t) => pc[t] = "init.sequence"
        /\ InitializeLedger(t) => pc[t] = "init.ledger"
        /\ InitializeJournalRoot(t) => pc[t] = "init.root"
    BY DEF DiscoverLedger, InitializeSequence, InitializeLedger, InitializeJournalRoot
  <1> QED BY <1>1, <1>2, <1>3, <1>4, <1>5, Zenon DEF Continue, Browse

LEMMA InitializationStays ==
  ASSUME IInv, NEW t \in Threads, Begins(t) \/ Continue(t)
  PROVE  Initialization'
  <1> USE DEF planning, catalog, locks, history, Goto, Return, Blank
  <1>a. Initialization /\ Initializer \in Threads
    BY ThreadsAssumption, Zenon DEF IInv, Threads
  <1>b. /\ pc \in [Threads -> Steps] /\ pc' \in [Threads -> Steps]
        /\ local \in [Threads -> [op : Operations, id : Nat, seen : Nat]]
        /\ local' \in [Threads -> [op : Operations, id : Nat, seen : Nat]]
        /\ \A u \in Threads : u # t => pc'[u] = pc[u] /\ local'[u] = local[u]
    BY OneCallMoves DEF IInv, TypeOK
  <1>1. CASE pc[t] \notin InitSteps
    BY <1>1, <1>a, <1>b, OutsideInitialization DEF Initialization, InitSteps, LedgerSteps
  <1>2. CASE pc[t] = "init.discover" /\ DiscoverLedger(t)
    <2>1. LatestOnDisk \in 0..MaxPlanId /\ \A j \in disk : j.id <= LatestOnDisk
      BY LatestIsBound DEF IInv, TypeOK
    <2>2. t = Initializer /\ ~ledgerRoot /\ Invalidated.next = authorization.next
      BY <1>2, <1>a, InvalidatedAuthorization DEF IInv, Initialization, InitSteps
    <2>3. CASE Return(t)
      BY <1>2, <1>a, <1>b, <2>2, <2>3 DEF DiscoverLedger, Initialization, InitSteps, LedgerSteps
    <2>4. CASE /\ LatestOnDisk < MaxPlanId /\ Goto(t, "init.sequence")
               /\ local' = [local EXCEPT ![t].id = LatestOnDisk]
      <3>1. pc'[t] = "init.sequence" /\ local'[t].id = LatestOnDisk
        BY <1>b, <2>4
      <3>2. UNCHANGED <<ledgerRoot, journalRoot, disk>> /\ authorization'.next = authorization.next
        BY <1>2, <2>2 DEF DiscoverLedger
      <3> QED BY <1>a, <1>b, <2>1, <2>2, <2>4, <3>1, <3>2, BoundsAssumption
              DEF Initialization, InitSteps, LedgerSteps
    <2> QED BY <1>2, <2>3, <2>4, Zenon DEF DiscoverLedger
  <1>3. CASE pc[t] = "init.sequence" /\ InitializeSequence(t)
    BY <1>3, <1>a, <1>b DEF InitializeSequence, Initialization, InitSteps, LedgerSteps
  <1>4. CASE pc[t] = "init.ledger" /\ InitializeLedger(t)
    BY <1>4, <1>a, <1>b DEF InitializeLedger, Initialization, InitSteps
  <1>5. CASE pc[t] = "init.root" /\ InitializeJournalRoot(t)
    BY <1>5, <1>a, <1>b DEF InitializeJournalRoot, Initialization, InitSteps
  <1> QED BY <1>1, <1>2, <1>3, <1>4, <1>5, InsideInitialization, Zenon

-----------------------------------------------------------------------------
(***************************************************************************)
(* Plan ids: five actions give them out, publish or consume them.          *)
(***************************************************************************)
\* The other steps only end the use of an id.
LEMMA OtherStepsKeepIds ==
  ASSUME IInv, NEW t \in Threads, Begins(t) \/ Continue(t)
  PROVE  \/ AllocatePlanId(t) \/ PublishPlan(t) \/ InitializeSequence(t)
         \/ PrepareLatestExecution(t) \/ AllocateUndoId(t)
         \/ /\ UNCHANGED <<nextPlanId, latestPlan, published, sequence>>
            /\ HoldsId(t)' => HoldsId(t) /\ local'[t].id = local[t].id
            /\ pc'[t] # "plan.build"
            /\ pc'[t] \in {"apply.begin", "apply.root", "apply.prepare"} => local'[t].id >= 1
  <1> USE DEF planning, catalog, locks, history, Goto, Return, Blank
  <1>p. /\ pc \in [Threads -> Steps] /\ pc' \in [Threads -> Steps]
        /\ local \in [Threads -> [op : Operations, id : Nat, seen : Nat]]
    BY OneCallMoves DEF IInv, TypeOK
  <1>a. /\ pc[t] \in {"apply.begin", "apply.root", "apply.prepare"} => local[t].id >= 1
        /\ published \in Nat
    BY BoundsAssumption DEF IInv, IdsInUse, TypeOK
  <1>1. CASE PreviewRules(t)
    BY <1>1, <1>p, <1>a DEF PreviewRules, Snapshot, HoldsId
  <1>2. CASE AdmitSources(t)
    BY <1>2, <1>p, <1>a DEF AdmitSources, Snapshot, NextGeneration, HoldsId
  <1>3. CASE AdmitDroppedSources(t)
    BY <1>3, <1>p, <1>a DEF AdmitDroppedSources, NextGeneration, HoldsId
  <1>4. CASE BrowsesLedger(t)
    BY <1>4, <1>p, <1>a DEF BrowsesLedger, BrowseLedger, Call, HoldsId
  <1>5. CASE ApplyLatestPlan(t)
    BY <1>5, <1>p, <1>a DEF ApplyLatestPlan, Call, HoldsId
  <1>6. CASE RequestsMutation(t)
    BY <1>6, <1>p, <1>a DEF RequestsMutation, RequestMutation, Call, HoldsId
  <1>7. CASE AskToCancel(t)
    BY <1>7, <1>p, <1>a DEF AskToCancel, HoldsId
  <1>8. CASE DiscoverLedger(t)
    BY <1>8, <1>p, <1>a DEF DiscoverLedger, HoldsId
  <1>9. CASE InitializeLedger(t)
    BY <1>9, <1>p, <1>a DEF InitializeLedger, HoldsId
  <1>10. CASE InitializeJournalRoot(t)
    BY <1>10, <1>p, <1>a DEF InitializeJournalRoot, HoldsId
  <1>11. CASE ListLedger(t)
    BY <1>11, <1>p, <1>a DEF ListLedger, Refresh, HoldsId
  <1>12. CASE RefreshAfterApply(t)
    BY <1>12, <1>p, <1>a DEF RefreshAfterApply, Refresh, HoldsId
  <1>13. CASE RefreshAfterExecution(t)
    BY <1>13, <1>p, <1>a DEF RefreshAfterExecution, Refresh, HoldsId
  <1>14. CASE OpenInspection(t)
    BY <1>14, <1>p, <1>a DEF OpenInspection, Refresh, HoldsId
  <1>15. CASE IssueAuthorization(t)
    BY <1>15, <1>p, <1>a DEF IssueAuthorization, HoldsId
  <1>16. CASE BeginApply(t)
    <2>1. CASE BeginSession(t, TRUE) /\ Goto(t, "apply.root")
      BY <1>p, <1>a, <1>16, <2>1, SessionBegun DEF IInv, BeginApply, HoldsId
    <2>2. CASE Return(t)
      BY <1>p, <1>16, <2>2 DEF BeginApply, HoldsId
    <2> QED BY <1>16, <2>1, <2>2, Zenon DEF BeginApply
  <1>17. CASE BeginRecovery(t)
    <2>1. CASE BeginSession(t, TRUE) \/ BeginSession(t, FALSE)
      <3>1. TypeOK
        BY Zenon DEF IInv
      <3>2. local'[t].id = local[t].id /\ local'[t].op = local[t].op
        BY <2>1, <3>1, SessionBegun, Zenon
      <3>3. pc[t] = "begin" /\ (local[t].op = "undo" \/ Goto(t, "running"))
        <4> HIDE DEF Goto
        <4> QED BY <1>17, <2>1, <3>1, RecoveryBegun, SessionBegun
      <3>4. UNCHANGED <<registry, planning, locks, catalog, authorization, disk, history>>
        BY <1>17, RecoveryBegun, Zenon
      <3>5. pc'[t] \in {"create", "running", "drop.locks"}
        <4> HIDE DEF planning, catalog, locks, history, Return, Blank
        <4> QED BY <1>p, <1>17, RecoveryMoves
      <3>6. HoldsId(t) \/ pc'[t] = "running"
        BY <1>p, <3>3 DEF HoldsId
      <3>7. HoldsId(t)' => HoldsId(t)
        <4> HIDE DEF Goto
        <4> QED BY <3>2, <3>6 DEF HoldsId
      <3> HIDE DEF Goto
      <3> QED BY <3>2, <3>4, <3>5, <3>7
    <2>2. CASE Goto(t, "drop.locks") /\ UNCHANGED <<control, local>>
      BY <1>p, <1>17, <2>2, RecoveryBegun DEF HoldsId
    <2> QED BY <1>17, <2>1, <2>2, RecoveryBegun, Zenon
  <1>18. CASE ReadJournalRoot(t)
    BY <1>18, <1>p, <1>a DEF ReadJournalRoot, HoldsId
  <1>19. CASE Confirm(t)
    BY <1>19, <1>p, <1>a DEF Confirm, HoldsId
  <1>20. CASE PrepareUndo(t)
    BY <1>20, <1>p, <1>a DEF PrepareUndo, HoldsId
  <1>21. CASE TakeAuthorization(t)
    BY <1>21, <1>p, <1>a DEF TakeAuthorization, IsAuthorized, HoldsId
  <1>22. CASE Decline(t)
    BY <1>22, <1>p, <1>a DEF Decline, Refresh, HoldsId
  <1>23. CASE TakeLedger(t)
    BY <1>23, <1>p, <1>a DEF TakeLedger, HoldsId
  <1>24. CASE CreateJournal(t)
    BY <1>24, <1>p, <1>a DEF CreateJournal, JournalOf, Executed, HoldsId
  <1>25. CASE FinishExecution(t)
    BY <1>25, <1>p, <1>a DEF FinishExecution, Executed, HoldsId
  <1>26. CASE DropSession(t)
    BY <1>26, SessionDropped DEF IInv, HoldsId
  <1>27. CASE DropLocks(t)
    BY <1>27, <1>p, <1>a DEF DropLocks, HoldsId
  <1>28. CASE ConfirmCancellation(t)
    BY <1>28, <1>p, <1>a DEF ConfirmCancellation, HoldsId
  <1>29. CASE RequestCancellation(t)
    BY <1>29, <1>p, <1>a DEF RequestCancellation, HoldsId
  <1> QED
    BY <1>1, <1>2, <1>3, <1>4, <1>5, <1>6, <1>7, <1>8, <1>9, <1>10, <1>11, <1>12,
       <1>13, <1>14, <1>15, <1>16, <1>17, <1>18, <1>19, <1>20, <1>21, <1>22, <1>23,
       <1>24, <1>25, <1>26, <1>27, <1>28, <1>29, Zenon DEF Begins, Continue, Plan,
       Browse, Mutate, Cancel

LEMMA IdsInUseStay ==
  ASSUME IInv, NEW t \in Threads, Begins(t) \/ Continue(t)
  PROVE  IdsInUse'
  <1> USE DEF planning, catalog, locks, history, Goto, Return, Blank
  <1>a. IdsInUse
    BY Zenon DEF IInv
  <1>b. /\ nextPlanId \in PlanIds /\ published \in 0..MaxPlanId /\ ledgerLatest \in 0..MaxPlanId
        /\ latestPlan = NoPlan \/ latestPlan \in [id : PlanIds, generation : 0..MaxGeneration]
        /\ MaxPlanId \in Nat /\ Nobody \notin Threads
    BY BoundsAssumption, ThreadsAssumption, Zenon DEF IInv, TypeOK
  <1>c. /\ pc \in [Threads -> Steps] /\ pc' \in [Threads -> Steps]
        /\ local \in [Threads -> [op : Operations, id : Nat, seen : Nat]]
        /\ local' \in [Threads -> [op : Operations, id : Nat, seen : Nat]]
        /\ \A u \in Threads : u # t => pc'[u] = pc[u] /\ local'[u] = local[u]
    BY OneCallMoves DEF IInv, TypeOK
  <1>d. \A u \in Threads : u # t => (HoldsId(u)' <=> HoldsId(u))
    BY <1>c DEF HoldsId
  <1>1. CASE AllocatePlanId(t)
    <2>1. CASE nextPlanId = MaxPlanId /\ Return(t) /\ UNCHANGED <<nextPlanId, sequence>>
      BY <1>1, <1>a, <1>b, <1>c, <1>d, <2>1 DEF AllocatePlanId, IdsInUse, HoldsId
    <2>2. CASE /\ nextPlanId < MaxPlanId /\ nextPlanId' = nextPlanId + 1
               /\ local' = [local EXCEPT ![t].id = nextPlanId]
               /\ Goto(t, "plan.build") /\ sequence' = t
      <3>1. pc'[t] = "plan.build" /\ local'[t].id = nextPlanId
        BY <1>c, <2>2
      <3>2. /\ sequence = Nobody /\ sequence' = t /\ nextPlanId' = nextPlanId + 1
            /\ UNCHANGED <<latestPlan, published>>
        BY <1>1, <2>2 DEF AllocatePlanId
      <3>3. \A u \in Threads : pc[u] # "plan.build"
        BY <1>a, <1>b, <3>2 DEF IdsInUse
      <3>4. HoldsId(t)'
        BY <3>1 DEF HoldsId
      <3>5. \A u \in Threads : HoldsId(u)' => /\ local'[u].id \in 1..(nextPlanId' - 1)
                                              /\ local'[u].id # latestPlan'.id
        BY <1>a, <1>b, <1>c, <1>d, <3>1, <3>2, <3>3, <3>4 DEF IdsInUse, PlanIds, NoPlan
      <3>6. \A u, v \in Threads : HoldsId(u)' /\ HoldsId(v)' /\ local'[u].id = local'[v].id => u = v
        BY <1>a, <1>b, <1>c, <1>d, <3>1, <3>2, <3>3, <3>4 DEF IdsInUse, PlanIds, NoPlan
      <3>7. \A u \in Threads : pc'[u] = "plan.build" => sequence' = u /\ local'[u].id > published'
        BY <1>a, <1>b, <1>c, <1>d, <3>1, <3>2, <3>3, <3>4 DEF IdsInUse, PlanIds, NoPlan
      <3>8. \A u \in Threads : pc'[u] \in {"apply.begin", "apply.root", "apply.prepare"} =>
                               local'[u].id >= 1
        BY <1>a, <1>b, <1>c, <1>d, <3>1, <3>2, <3>3, <3>4 DEF IdsInUse, PlanIds, NoPlan
      <3>9. latestPlan'.id < nextPlanId' /\ published' < nextPlanId'
        BY <1>a, <1>b, <1>c, <1>d, <3>1, <3>2, <3>3, <3>4 DEF IdsInUse, PlanIds, NoPlan
      <3> QED BY <3>5, <3>6, <3>7, <3>8, <3>9, Zenon DEF IdsInUse
    <2> QED BY <1>1, <2>1, <2>2, Zenon DEF AllocatePlanId
  <1>2. CASE PublishPlan(t)
    <2>1. /\ pc[t] = "plan.build" /\ pc'[t] = "idle" /\ UNCHANGED nextPlanId /\ sequence' = Nobody
          /\ \/ latestPlan'.id = local[t].id /\ published' = Larger(published, local[t].id)
             \/ UNCHANGED <<latestPlan, published>>
      BY <1>2, <1>c DEF PublishPlan
    <2>2. HoldsId(t) /\ ~HoldsId(t)'
      BY <2>1 DEF HoldsId
    <2>3. \A u \in Threads : pc[u] = "plan.build" => u = t
      BY <1>a, <2>1 DEF IdsInUse
    <2>4. \A u \in Threads : HoldsId(u)' => /\ local'[u].id \in 1..(nextPlanId' - 1)
                                            /\ local'[u].id # latestPlan'.id
      BY <1>a, <1>b, <1>c, <1>d, <2>1, <2>2, <2>3 DEF IdsInUse, PlanIds, NoPlan, Larger
    <2>5. \A u, v \in Threads : HoldsId(u)' /\ HoldsId(v)' /\ local'[u].id = local'[v].id => u = v
      BY <1>a, <1>b, <1>c, <1>d, <2>1, <2>2, <2>3 DEF IdsInUse, PlanIds, NoPlan, Larger
    <2>6. \A u \in Threads : pc'[u] = "plan.build" => sequence' = u /\ local'[u].id > published'
      BY <1>a, <1>b, <1>c, <1>d, <2>1, <2>2, <2>3 DEF IdsInUse, PlanIds, NoPlan, Larger
    <2>7. \A u \in Threads : pc'[u] \in {"apply.begin", "apply.root", "apply.prepare"} =>
                             local'[u].id >= 1
      BY <1>a, <1>b, <1>c, <1>d, <2>1, <2>2, <2>3 DEF IdsInUse, PlanIds, NoPlan, Larger
    <2>8. latestPlan'.id < nextPlanId' /\ published' < nextPlanId'
      BY <1>a, <1>b, <1>c, <1>d, <2>1, <2>2, <2>3 DEF IdsInUse, PlanIds, NoPlan, Larger
    <2> QED BY <2>4, <2>5, <2>6, <2>7, <2>8, Zenon DEF IdsInUse
  <1>3. CASE InitializeSequence(t)
    <2>1. /\ pc[t] = "init.sequence" /\ pc'[t] = "init.ledger" /\ sequence = Nobody
          /\ nextPlanId' = Larger(nextPlanId, local[t].id + 1) /\ latestPlan' = NoPlan
          /\ UNCHANGED <<published, sequence, local>>
      BY <1>3, <1>c DEF InitializeSequence
    <2> QED BY <1>a, <1>b, <1>c, <1>d, <2>1 DEF IdsInUse, HoldsId, PlanIds, NoPlan, Larger
  <1>4. CASE PrepareLatestExecution(t)
    <2>1. CASE Goto(t, "drop.session") /\ UNCHANGED <<mutation, latestPlan>>
      BY <1>4, <1>a, <1>b, <1>c, <1>d, <2>1 DEF PrepareLatestExecution, IdsInUse, HoldsId
    <2>2. CASE latestPlan.id = local[t].id /\ latestPlan' = NoPlan /\ Goto(t, "create")
      <3>1. /\ pc[t] = "apply.prepare" /\ pc'[t] = "create"
            /\ UNCHANGED <<nextPlanId, published, sequence, local>>
        BY <1>4, <1>c, <2>2 DEF PrepareLatestExecution
      <3> QED BY <1>a, <1>b, <1>c, <1>d, <2>2, <3>1 DEF IdsInUse, HoldsId, PlanIds, NoPlan
    <2> QED BY <1>4, <2>1, <2>2, Zenon DEF PrepareLatestExecution
  <1>5. CASE AllocateUndoId(t)
    <2> DEFINE value == Larger(nextPlanId, ledgerLatest + 1)
    <2>1. CASE local' = local /\ nextPlanId' = nextPlanId /\ Goto(t, "drop.locks")
      BY <1>5, <1>a, <1>b, <1>c, <1>d, <2>1 DEF AllocateUndoId, IdsInUse, HoldsId
    <2>2. CASE /\ value < MaxPlanId /\ nextPlanId' = value + 1
               /\ local' = [local EXCEPT ![t].id = value] /\ Goto(t, "undo.prepare")
      <3>1. pc'[t] = "undo.prepare" /\ local'[t].id = value
        BY <1>b, <1>c, <2>2 DEF PlanIds, Larger
      <3>2. UNCHANGED <<latestPlan, published, sequence>>
        BY <1>5 DEF AllocateUndoId
      <3>3. value \in Nat /\ value >= nextPlanId
        BY <1>b DEF PlanIds, Larger
      <3> HIDE DEF value
      <3> QED BY <1>a, <1>b, <1>c, <1>d, <2>2, <3>1, <3>2, <3>3
              DEF IdsInUse, HoldsId, PlanIds, NoPlan
    <2> QED BY <1>5, <2>1, <2>2, Zenon DEF AllocateUndoId
  <1>6. CASE /\ UNCHANGED <<nextPlanId, latestPlan, published, sequence>>
             /\ HoldsId(t)' => HoldsId(t) /\ local'[t].id = local[t].id
             /\ pc'[t] # "plan.build"
             /\ pc'[t] \in {"apply.begin", "apply.root", "apply.prepare"} => local'[t].id >= 1
    BY <1>6, <1>a, <1>c, <1>d DEF IdsInUse
  <1> QED BY <1>1, <1>2, <1>3, <1>4, <1>5, <1>6, OtherStepsKeepIds, Zenon

\* The sequence is initialized by one action.
LEMMA SequenceIsInitializedOnce ==
  ASSUME IInv, NEW t \in Threads, Begins(t) \/ Continue(t)
  PROVE  InitializeSequence(t) \/ (SequenceIsInitialized' => SequenceIsInitialized)
  <1> USE DEF planning, catalog, locks, history, Goto, Return, Blank
  <1>a. /\ pc \in [Threads -> Steps] /\ Initializer \in Threads
        /\ \A u \in Threads : u # t => pc'[u] = pc[u]
    BY OneCallMoves, ThreadsAssumption DEF IInv, TypeOK, Threads
  <1>b. pc[t] \in InitSteps => t = Initializer
    BY Zenon DEF IInv, Initialization
  <1>1. CASE pc[t] \notin InitSteps
    BY <1>1, <1>a, OutsideInitialization DEF SequenceIsInitialized, InitSteps
  <1>2. CASE pc[t] = "init.discover" /\ DiscoverLedger(t)
    BY <1>2, <1>a, <1>b DEF DiscoverLedger, SequenceIsInitialized, InitSteps
  <1>3. CASE pc[t] = "init.ledger" /\ InitializeLedger(t)
    BY <1>3, <1>b DEF SequenceIsInitialized, InitSteps
  <1>4. CASE pc[t] = "init.root" /\ InitializeJournalRoot(t)
    BY <1>4, <1>a, <1>b DEF InitializeJournalRoot, SequenceIsInitialized, InitSteps
  <1> QED BY <1>1, <1>2, <1>3, <1>4, InsideInitialization, Zenon

\* Journals appear in one action.
LEMMA OnlyExecutionsCreateJournals ==
  ASSUME IInv, NEW t \in Threads, Begins(t) \/ Continue(t)
  PROVE  disk' = disk \/ CreateJournal(t)
  BY SessionDropped, RecoveryBegun, Zenon DEF IInv, Begins, Continue, Plan, Browse,
     Mutate, Cancel, Snapshot, PreviewRules, AdmitSources, AdmitDroppedSources,
     BrowsesLedger, BrowseLedger, ApplyLatestPlan, RequestsMutation, RequestMutation,
     AskToCancel, AllocatePlanId, PublishPlan, DiscoverLedger, InitializeSequence,
     InitializeLedger, InitializeJournalRoot, ListLedger, OpenInspection,
     IssueAuthorization, BeginApply, ReadJournalRoot, PrepareLatestExecution,
     RefreshAfterApply, TakeAuthorization, Confirm, Decline, TakeLedger,
     AllocateUndoId, PrepareUndo, CreateJournal, FinishExecution,
     RefreshAfterExecution, DropSession, DropLocks, ConfirmCancellation,
     RequestCancellation

\* A new journal has the id its call held, which no journal bore before.
LEMMA IdsOnDiskStay ==
  ASSUME IInv, NEW t \in Threads, Begins(t) \/ Continue(t)
  PROVE  IdsOnDisk'
  <1> USE DEF planning, catalog, locks, history, Goto, Return, Blank
  <1>a. IdsInUse /\ IdsOnDisk /\ Initialization
    BY Zenon DEF IInv
  <1>b. /\ nextPlanId \in PlanIds /\ published \in 0..MaxPlanId /\ ledgerLatest \in 0..MaxPlanId
        /\ latestPlan = NoPlan \/ latestPlan \in [id : PlanIds, generation : 0..MaxGeneration]
        /\ MaxPlanId \in Nat /\ Nobody \notin Threads
    BY BoundsAssumption, ThreadsAssumption, Zenon DEF IInv, TypeOK
  <1>c. /\ pc \in [Threads -> Steps] /\ pc' \in [Threads -> Steps]
        /\ local \in [Threads -> [op : Operations, id : Nat, seen : Nat]]
        /\ local' \in [Threads -> [op : Operations, id : Nat, seen : Nat]]
        /\ \A u \in Threads : u # t => pc'[u] = pc[u] /\ local'[u] = local[u]
    BY OneCallMoves DEF IInv, TypeOK
  <1>d. \A u \in Threads : u # t => (HoldsId(u)' <=> HoldsId(u))
    BY <1>c DEF HoldsId
  <1>e. disk \subseteq Journals
    BY Zenon DEF IInv, TypeOK
  <1>f. SequenceIsInitialized => \A j \in disk : j.id < nextPlanId /\ j.id # latestPlan.id
    BY <1>a, Zenon DEF IdsOnDisk
  <1>g. SequenceIsInitialized => \A j \in disk : \A u \in Threads : HoldsId(u) => local[u].id # j.id
    BY <1>a, Zenon DEF IdsOnDisk
  <1>h. IdsAreUnique(disk)
    BY <1>a, Zenon DEF IdsOnDisk
  <1>i. InitializeSequence(t) \/ (SequenceIsInitialized' => SequenceIsInitialized)
    BY SequenceIsInitializedOnce
  <1>1. CASE AllocatePlanId(t)
    <2>1. /\ pc[t] = "plan.allocate" /\ disk' = disk /\ latestPlan' = latestPlan
          /\ nextPlanId' \in {nextPlanId, nextPlanId + 1}
          /\ HoldsId(t)' => local'[t].id = nextPlanId
      BY <1>1, <1>c DEF AllocatePlanId, HoldsId
    <2>2. ~InitializeSequence(t)
      BY <2>1 DEF InitializeSequence
    <2>3. \A j \in disk : j.id \in Nat
      BY <1>e DEF Journals, PlanIds
    <2> QED BY <1>b, <1>c, <1>d, <1>f, <1>g, <1>h, <1>i, <2>1, <2>2, <2>3 DEF IdsOnDisk, PlanIds
  <1>2. CASE PublishPlan(t)
    <2>1. /\ pc[t] = "plan.build" /\ pc'[t] = "idle" /\ UNCHANGED <<nextPlanId, disk>>
          /\ latestPlan'.id = local[t].id \/ UNCHANGED latestPlan
      BY <1>2, <1>c DEF PublishPlan
    <2>2. HoldsId(t) /\ ~HoldsId(t)' /\ ~InitializeSequence(t)
      BY <2>1 DEF HoldsId, InitializeSequence
    <2> QED BY <1>c, <1>d, <1>f, <1>g, <1>h, <1>i, <2>1, <2>2 DEF IdsOnDisk
  <1>3. CASE InitializeSequence(t)
    <2>1. /\ pc[t] = "init.sequence" /\ pc'[t] = "init.ledger" /\ sequence = Nobody
          /\ nextPlanId' = Larger(nextPlanId, local[t].id + 1) /\ latestPlan' = NoPlan
          /\ disk' = disk
      BY <1>3, <1>c DEF InitializeSequence
    <2>2. t = Initializer /\ ~ledgerRoot
      BY <1>a, <2>1 DEF Initialization, InitSteps
    <2>3. \A u \in Threads : ~HoldsId(u)
      BY <1>a, <1>b, <2>1, <2>2 DEF Initialization, IdsInUse, HoldsId, LedgerSteps
    <2>4. \A j \in disk : j.id \in PlanIds /\ j.id <= local[t].id
      BY <1>a, <1>e, <2>1, <2>2 DEF Initialization, Journals
    <2>5. ~HoldsId(t)'
      BY <2>1 DEF HoldsId
    <2> QED BY <1>b, <1>c, <1>d, <1>h, <2>1, <2>3, <2>4, <2>5 DEF IdsOnDisk, PlanIds, NoPlan, Larger
  <1>4. CASE PrepareLatestExecution(t)
    <2>1. /\ pc[t] = "apply.prepare" /\ UNCHANGED <<nextPlanId, local, disk>>
          /\ \/ latestPlan.id = local[t].id /\ latestPlan' = NoPlan /\ pc'[t] = "create"
             \/ latestPlan' = latestPlan /\ pc'[t] = "drop.session"
      BY <1>4, <1>c DEF PrepareLatestExecution
    <2>2. ~InitializeSequence(t) /\ (HoldsId(t)' => latestPlan.id = local[t].id)
      BY <2>1 DEF HoldsId, InitializeSequence
    <2>3. \A j \in disk : j.id # 0
      BY <1>e DEF Journals, PlanIds
    <2> QED BY <1>c, <1>d, <1>f, <1>g, <1>h, <1>i, <2>1, <2>2, <2>3 DEF IdsOnDisk, NoPlan
  <1>5. CASE AllocateUndoId(t)
    <2>1. /\ pc[t] = "undo.allocate" /\ disk' = disk /\ latestPlan' = latestPlan
          /\ nextPlanId' \in Nat /\ nextPlanId' >= nextPlanId
          /\ HoldsId(t)' => local'[t].id >= nextPlanId
      BY <1>5, <1>b, <1>c DEF AllocateUndoId, HoldsId, Larger, PlanIds
    <2>2. ~InitializeSequence(t)
      BY <2>1 DEF InitializeSequence
    <2>3. \A j \in disk : j.id \in Nat
      BY <1>e DEF Journals, PlanIds
    <2> QED BY <1>b, <1>c, <1>d, <1>f, <1>g, <1>h, <1>i, <2>1, <2>2, <2>3 DEF IdsOnDisk, PlanIds
  <1>6. CASE CreateJournal(t)
    <2>1. /\ pc[t] = "create" /\ pc'[t] # "create" /\ local' = local
          /\ disk' \in {disk, disk \cup {JournalOf(t)}} /\ UNCHANGED <<nextPlanId, latestPlan>>
      BY <1>6, <1>c DEF CreateJournal, Executed
    <2>2. HoldsId(t) /\ ~HoldsId(t)' /\ ~InitializeSequence(t)
      BY <1>6, <1>c DEF CreateJournal, Executed, HoldsId, InitializeSequence
    <2>3. SequenceIsInitialized
      BY <1>a, <2>1 DEF Initialization, LedgerSteps, SequenceIsInitialized
    <2>4. \A j \in disk : j.id # JournalOf(t).id
      BY <1>g, <2>2, <2>3 DEF JournalOf
    <2>5. /\ JournalOf(t).id < nextPlanId /\ JournalOf(t).id # latestPlan.id
          /\ \A u \in Threads : u # t /\ HoldsId(u) => local[u].id # JournalOf(t).id
      BY <1>a, <1>b, <2>2 DEF IdsInUse, JournalOf, PlanIds
    <2>6. IdsAreUnique(disk')
      BY <1>h, <2>1, <2>4 DEF IdsAreUnique
    <2> HIDE DEF JournalOf
    <2> QED BY <1>d, <1>f, <1>g, <2>1, <2>2, <2>3, <2>5, <2>6 DEF IdsOnDisk, IdsAreUnique
  <1>7. CASE /\ UNCHANGED <<nextPlanId, latestPlan, published, sequence>>
             /\ HoldsId(t)' => HoldsId(t) /\ local'[t].id = local[t].id
             /\ disk' = disk /\ ~InitializeSequence(t)
    BY <1>7, <1>c, <1>d, <1>f, <1>g, <1>h, <1>i DEF IdsOnDisk
  <1> QED BY <1>1, <1>2, <1>3, <1>4, <1>5, <1>6, <1>7, OtherStepsKeepIds,
             OnlyExecutionsCreateJournals, Zenon

-----------------------------------------------------------------------------
(***************************************************************************)
(* Sessions, cancellations and authorizations.                             *)
(***************************************************************************)
LEMMA SessionsStay ==
  ASSUME IInv, NEW t \in Threads, Begins(t) \/ Continue(t)
  PROVE  SessionIsItsRunners'
  <1> USE DEF planning, catalog, locks, history, Goto, Return, Blank
  <1>p. /\ pc \in [Threads -> Steps] /\ pc' \in [Threads -> Steps]
        /\ local \in [Threads -> [op : Operations, id : Nat, seen : Nat]]
        /\ local' \in [Threads -> [op : Operations, id : Nat, seen : Nat]]
        /\ \A u \in Threads : u # t => pc'[u] = pc[u] /\ local'[u] = local[u]
    BY OneCallMoves DEF IInv, TypeOK
  <1>a. SessionIsItsRunners
    BY Zenon DEF IInv
  <1>1. CASE PreviewRules(t) \/ AdmitSources(t) \/ AdmitDroppedSources(t)
    BY <1>1, <1>a, <1>p DEF PreviewRules, Snapshot, AdmitSources, NextGeneration,
       AdmitDroppedSources, SessionIsItsRunners, InSession
  <1>2. CASE BrowsesLedger(t)
    BY <1>2, <1>a, <1>p DEF BrowsesLedger, BrowseLedger, Call, SessionIsItsRunners,
       InSession
  <1>3. CASE ApplyLatestPlan(t)
    BY <1>3, <1>a, <1>p DEF ApplyLatestPlan, Call, SessionIsItsRunners, InSession
  <1>4. CASE RequestsMutation(t)
    BY <1>4, <1>a, <1>p DEF RequestsMutation, RequestMutation, Call,
       SessionIsItsRunners, InSession
  <1>5. CASE AskToCancel(t)
    BY <1>5, <1>a, <1>p DEF AskToCancel, SessionIsItsRunners, InSession
  <1>6. CASE AllocatePlanId(t)
    BY <1>6, <1>a, <1>p DEF AllocatePlanId, SessionIsItsRunners, InSession
  <1>7. CASE PublishPlan(t)
    BY <1>7, <1>a, <1>p DEF PublishPlan, Larger, SessionIsItsRunners, InSession
  <1>8. CASE DiscoverLedger(t) \/ InitializeSequence(t) \/ InitializeLedger(t) \/
     InitializeJournalRoot(t)
    BY <1>8, <1>a, <1>p DEF DiscoverLedger, InitializeSequence, Larger,
       InitializeLedger, InitializeJournalRoot, SessionIsItsRunners, InSession
  <1>9. CASE ListLedger(t) \/ OpenInspection(t) \/ IssueAuthorization(t)
    BY <1>9, <1>a, <1>p DEF ListLedger, Refresh, OpenInspection, IssueAuthorization,
       SessionIsItsRunners, InSession
  <1>10. CASE BeginApply(t)
    BY <1>10, <1>a, <1>p DEF BeginApply, BeginSession, SessionIsItsRunners,
       InSession
  <1>11. CASE ReadJournalRoot(t)
    BY <1>11, <1>a, <1>p DEF ReadJournalRoot, SessionIsItsRunners, InSession
  <1>12. CASE PrepareLatestExecution(t)
    BY <1>12, <1>a, <1>p DEF PrepareLatestExecution, SessionIsItsRunners, InSession
  <1>13. CASE RefreshAfterApply(t)
    BY <1>13, <1>a, <1>p DEF RefreshAfterApply, Refresh, SessionIsItsRunners,
       InSession
  <1>14. CASE TakeAuthorization(t)
    BY <1>14, <1>a, <1>p DEF TakeAuthorization, IsAuthorized, SessionIsItsRunners,
       InSession
  <1>15. CASE Confirm(t)
    BY <1>15, <1>a, <1>p DEF Confirm, SessionIsItsRunners, InSession
  <1>16. CASE Decline(t)
    BY <1>16, <1>a, <1>p DEF Decline, Refresh, SessionIsItsRunners, InSession
  <1>17. CASE TakeLedger(t)
    BY <1>17, <1>a, <1>p DEF TakeLedger, SessionIsItsRunners, InSession
  <1>18. CASE AllocateUndoId(t) \/ PrepareUndo(t)
    BY <1>18, <1>a, <1>p DEF AllocateUndoId, Larger, PrepareUndo,
       SessionIsItsRunners, InSession
  <1>19. CASE BeginRecovery(t)
    BY <1>19, <1>a, <1>p DEF BeginRecovery, BeginSession, SessionIsItsRunners,
       InSession
  <1>20. CASE CreateJournal(t)
    BY <1>20, <1>a, <1>p DEF CreateJournal, JournalOf, Executed,
       SessionIsItsRunners, InSession
  <1>21. CASE FinishExecution(t)
    BY <1>21, <1>a, <1>p DEF FinishExecution, Executed, SessionIsItsRunners,
       InSession
  <1>22. CASE RefreshAfterExecution(t)
    BY <1>22, <1>a, <1>p DEF RefreshAfterExecution, Refresh, SessionIsItsRunners,
       InSession
  <1>23. CASE DropSession(t)
    BY <1>23, <1>a, <1>p DEF DropSession, SessionIsItsRunners, InSession
  <1>24. CASE DropLocks(t)
    BY <1>24, <1>a, <1>p DEF DropLocks, SessionIsItsRunners, InSession
  <1>25. CASE ConfirmCancellation(t)
    BY <1>25, <1>a, <1>p DEF ConfirmCancellation, SessionIsItsRunners, InSession
  <1>26. CASE RequestCancellation(t)
    BY <1>26, <1>a, <1>p DEF RequestCancellation, SessionIsItsRunners, InSession
  <1> QED
    BY <1>1, <1>2, <1>3, <1>4, <1>5, <1>6, <1>7, <1>8, <1>9, <1>10, <1>11, <1>12,
       <1>13, <1>14, <1>15, <1>16, <1>17, <1>18, <1>19, <1>20, <1>21, <1>22, <1>23,
       <1>24, <1>25, <1>26, Zenon DEF Begins, Continue, Plan, Browse, Mutate, Cancel

LEMMA CancellationsStay ==
  ASSUME IInv, NEW t \in Threads, Begins(t) \/ Continue(t)
  PROVE  Cancellations'
  <1> USE DEF planning, catalog, locks, history, Goto, Return, Blank
  <1>p. /\ pc \in [Threads -> Steps] /\ pc' \in [Threads -> Steps]
        /\ local \in [Threads -> [op : Operations, id : Nat, seen : Nat]]
        /\ local' \in [Threads -> [op : Operations, id : Nat, seen : Nat]]
        /\ \A u \in Threads : u # t => pc'[u] = pc[u] /\ local'[u] = local[u]
    BY OneCallMoves DEF IInv, TypeOK
  <1>a. Cancellations
    BY Zenon DEF IInv
  <1>1. CASE PreviewRules(t) \/ AdmitSources(t) \/ AdmitDroppedSources(t)
    BY <1>1, <1>a, <1>p DEF PreviewRules, Snapshot, AdmitSources, NextGeneration,
       AdmitDroppedSources, Cancellations
  <1>2. CASE BrowsesLedger(t)
    BY <1>2, <1>a, <1>p DEF BrowsesLedger, BrowseLedger, Call, Cancellations
  <1>3. CASE ApplyLatestPlan(t)
    BY <1>3, <1>a, <1>p DEF ApplyLatestPlan, Call, Cancellations
  <1>4. CASE RequestsMutation(t)
    BY <1>4, <1>a, <1>p DEF RequestsMutation, RequestMutation, Call, Cancellations
  <1>5. CASE AskToCancel(t)
    BY <1>5, <1>a, <1>p DEF AskToCancel, Cancellations
  <1>6. CASE AllocatePlanId(t)
    BY <1>6, <1>a, <1>p DEF AllocatePlanId, Cancellations
  <1>7. CASE PublishPlan(t)
    BY <1>7, <1>a, <1>p DEF PublishPlan, Larger, Cancellations
  <1>8. CASE DiscoverLedger(t) \/ InitializeSequence(t) \/ InitializeLedger(t) \/
     InitializeJournalRoot(t)
    BY <1>8, <1>a, <1>p DEF DiscoverLedger, InitializeSequence, Larger,
       InitializeLedger, InitializeJournalRoot, Cancellations
  <1>9. CASE ListLedger(t) \/ OpenInspection(t) \/ IssueAuthorization(t)
    BY <1>9, <1>a, <1>p DEF ListLedger, Refresh, OpenInspection, IssueAuthorization,
       Cancellations
  <1>10. CASE BeginApply(t)
    <2>1. CASE BeginSession(t, TRUE) /\ Goto(t, "apply.root")
      BY <1>a, <1>p, <1>10, <2>1, SessionBegun DEF IInv, BeginApply, Cancellations
    <2>2. CASE Return(t) /\ control' = control
      BY <1>a, <1>p, <1>10, <2>2 DEF BeginApply, Cancellations
    <2> QED BY <1>10, <2>1, <2>2, Zenon DEF BeginApply
  <1>11. CASE ReadJournalRoot(t)
    BY <1>11, <1>a, <1>p DEF ReadJournalRoot, Cancellations
  <1>12. CASE PrepareLatestExecution(t)
    BY <1>12, <1>a, <1>p DEF PrepareLatestExecution, Cancellations
  <1>13. CASE RefreshAfterApply(t)
    BY <1>13, <1>a, <1>p DEF RefreshAfterApply, Refresh, Cancellations
  <1>14. CASE TakeAuthorization(t)
    BY <1>14, <1>a, <1>p DEF TakeAuthorization, IsAuthorized, Cancellations
  <1>15. CASE Confirm(t)
    BY <1>15, <1>a, <1>p DEF Confirm, Cancellations
  <1>16. CASE Decline(t)
    BY <1>16, <1>a, <1>p DEF Decline, Refresh, Cancellations
  <1>17. CASE TakeLedger(t)
    BY <1>17, <1>a, <1>p DEF TakeLedger, Cancellations
  <1>18. CASE AllocateUndoId(t) \/ PrepareUndo(t)
    BY <1>18, <1>a, <1>p DEF AllocateUndoId, Larger, PrepareUndo, Cancellations
  <1>19. CASE BeginRecovery(t)
    <2>1. CASE BeginSession(t, TRUE) \/ BeginSession(t, FALSE)
      <3>1. TypeOK
        BY Zenon DEF IInv
      <3>2. ~control'.requested /\ control'.generation \in 1..MaxSession
        BY <2>1, <3>1, SessionBegun, Zenon
      <3>3. Goto(t, "create") \/ Goto(t, "running") \/ Goto(t, "drop.locks")
        BY <1>19, RecoveryMoves, Zenon
      <3>4. history' = history
        BY <1>19, RecoveryBegun, Zenon
      <3> QED BY <1>a, <1>p, <3>2, <3>3, <3>4 DEF Cancellations
    <2>2. CASE Goto(t, "drop.locks") /\ UNCHANGED <<control, local>>
      BY <1>a, <1>p, <1>19, <2>2, RecoveryBegun DEF Cancellations
    <2>3. \/ BeginSession(t, TRUE) \/ BeginSession(t, FALSE)
          \/ Goto(t, "drop.locks") /\ UNCHANGED <<control, local>>
      <3> HIDE DEF Goto
      <3> QED BY <1>19, RecoveryBegun
    <2> QED BY <2>1, <2>2, <2>3
  <1>20. CASE CreateJournal(t)
    BY <1>20, <1>a, <1>p DEF CreateJournal, JournalOf, Executed, Cancellations
  <1>21. CASE FinishExecution(t)
    BY <1>21, <1>a, <1>p DEF FinishExecution, Executed, Cancellations
  <1>22. CASE RefreshAfterExecution(t)
    BY <1>22, <1>a, <1>p DEF RefreshAfterExecution, Refresh, Cancellations
  <1>23. CASE DropSession(t)
    BY <1>a, <1>p, <1>23, SessionDropped DEF IInv, Cancellations
  <1>24. CASE DropLocks(t)
    BY <1>24, <1>a, <1>p DEF DropLocks, Cancellations
  <1>25. CASE ConfirmCancellation(t)
    BY <1>25, <1>a, <1>p DEF ConfirmCancellation, Cancellations
  <1>26. CASE RequestCancellation(t)
    BY <1>26, <1>a, <1>p DEF RequestCancellation, Cancellations
  <1> QED
    BY <1>1, <1>2, <1>3, <1>4, <1>5, <1>6, <1>7, <1>8, <1>9, <1>10, <1>11, <1>12,
       <1>13, <1>14, <1>15, <1>16, <1>17, <1>18, <1>19, <1>20, <1>21, <1>22, <1>23,
       <1>24, <1>25, <1>26, Zenon DEF Begins, Continue, Plan, Browse, Mutate, Cancel

LEMMA AuthorizationsStay ==
  ASSUME IInv, NEW t \in Threads, Begins(t) \/ Continue(t)
  PROVE  Authorizations'
  <1> USE DEF planning, catalog, locks, history, Goto, Return, Blank
  <1>p. /\ pc \in [Threads -> Steps] /\ pc' \in [Threads -> Steps]
        /\ local \in [Threads -> [op : Operations, id : Nat, seen : Nat]]
        /\ local' \in [Threads -> [op : Operations, id : Nat, seen : Nat]]
        /\ \A u \in Threads : u # t => pc'[u] = pc[u] /\ local'[u] = local[u]
    BY OneCallMoves DEF IInv, TypeOK
  <1>a. Authorizations
    BY Zenon DEF IInv
  <1>b. authorization \in [next : 1..MaxAuthorization, active : 0..MaxAuthorization,
                           kind : {"none", "recovery", "undo"}]
    BY Zenon DEF IInv, TypeOK
  <1>c. Invalidated.next = authorization.next /\ Invalidated.active = 0
    BY InvalidatedAuthorization DEF IInv
  <1>1. CASE PreviewRules(t) \/ AdmitSources(t) \/ AdmitDroppedSources(t)
    BY <1>1, <1>a, <1>b, <1>c, <1>p, BoundsAssumption DEF PreviewRules, Snapshot,
       AdmitSources, NextGeneration, AdmitDroppedSources, Authorizations
  <1>2. CASE BrowsesLedger(t)
    BY <1>2, <1>a, <1>b, <1>c, <1>p, BoundsAssumption DEF BrowsesLedger,
       BrowseLedger, Call, Authorizations
  <1>3. CASE ApplyLatestPlan(t)
    BY <1>3, <1>a, <1>b, <1>c, <1>p, BoundsAssumption DEF ApplyLatestPlan, Call,
       Authorizations
  <1>4. CASE RequestsMutation(t)
    BY <1>4, <1>a, <1>b, <1>c, <1>p, BoundsAssumption DEF RequestsMutation,
       RequestMutation, Call, Authorizations
  <1>5. CASE AskToCancel(t)
    BY <1>5, <1>a, <1>b, <1>c, <1>p, BoundsAssumption DEF AskToCancel,
       Authorizations
  <1>6. CASE AllocatePlanId(t)
    BY <1>6, <1>a, <1>b, <1>c, <1>p, BoundsAssumption DEF AllocatePlanId,
       Authorizations
  <1>7. CASE PublishPlan(t)
    BY <1>7, <1>a, <1>b, <1>c, <1>p, BoundsAssumption DEF PublishPlan, Larger,
       Authorizations
  <1>8. CASE DiscoverLedger(t) \/ InitializeSequence(t) \/ InitializeLedger(t) \/
     InitializeJournalRoot(t)
    BY <1>8, <1>a, <1>b, <1>c, <1>p, BoundsAssumption DEF DiscoverLedger,
       InitializeSequence, Larger, InitializeLedger, InitializeJournalRoot,
       Authorizations
  <1>9. CASE ListLedger(t) \/ OpenInspection(t) \/ IssueAuthorization(t)
    BY <1>9, <1>a, <1>b, <1>c, <1>p, BoundsAssumption DEF ListLedger, Refresh,
       OpenInspection, IssueAuthorization, Authorizations
  <1>10. CASE BeginApply(t)
    <2>1. CASE BeginSession(t, TRUE) /\ Goto(t, "apply.root")
      BY <1>a, <1>p, <1>10, <2>1, SessionBegun DEF IInv, BeginApply, Authorizations
    <2>2. CASE Return(t)
      BY <1>a, <1>p, <1>10, <2>2 DEF BeginApply, Authorizations
    <2> QED BY <1>10, <2>1, <2>2, Zenon DEF BeginApply
  <1>11. CASE ReadJournalRoot(t)
    BY <1>11, <1>a, <1>b, <1>c, <1>p, BoundsAssumption DEF ReadJournalRoot,
       Authorizations
  <1>12. CASE PrepareLatestExecution(t)
    BY <1>12, <1>a, <1>b, <1>c, <1>p, BoundsAssumption DEF PrepareLatestExecution,
       Authorizations
  <1>13. CASE RefreshAfterApply(t)
    BY <1>13, <1>a, <1>b, <1>c, <1>p, BoundsAssumption DEF RefreshAfterApply,
       Refresh, Authorizations
  <1>14. CASE TakeAuthorization(t)
    BY <1>14, <1>a, <1>b, <1>c, <1>p, BoundsAssumption DEF TakeAuthorization,
       IsAuthorized, Authorizations
  <1>15. CASE Confirm(t)
    BY <1>15, <1>a, <1>b, <1>c, <1>p, BoundsAssumption DEF Confirm, Authorizations
  <1>16. CASE Decline(t)
    BY <1>16, <1>a, <1>b, <1>c, <1>p, BoundsAssumption DEF Decline, Refresh,
       Authorizations
  <1>17. CASE TakeLedger(t)
    BY <1>17, <1>a, <1>b, <1>c, <1>p, BoundsAssumption DEF TakeLedger,
       Authorizations
  <1>18. CASE AllocateUndoId(t) \/ PrepareUndo(t)
    BY <1>18, <1>a, <1>b, <1>c, <1>p, BoundsAssumption DEF AllocateUndoId, Larger,
       PrepareUndo, Authorizations
  <1>19. CASE BeginRecovery(t)
    <2>1. pc'[t] \in {"create", "running", "drop.locks"} /\ authorization' = authorization
      BY <1>19, <1>p, RecoveryBegun
    <2> QED BY <1>a, <1>p, <2>1 DEF Authorizations
  <1>20. CASE CreateJournal(t)
    BY <1>20, <1>a, <1>b, <1>c, <1>p, BoundsAssumption DEF CreateJournal, JournalOf,
       Executed, Authorizations
  <1>21. CASE FinishExecution(t)
    BY <1>21, <1>a, <1>b, <1>c, <1>p, BoundsAssumption DEF FinishExecution,
       Executed, Authorizations
  <1>22. CASE RefreshAfterExecution(t)
    BY <1>22, <1>a, <1>b, <1>c, <1>p, BoundsAssumption DEF RefreshAfterExecution,
       Refresh, Authorizations
  <1>23. CASE DropSession(t)
    BY <1>a, <1>p, <1>23, SessionDropped DEF IInv, Authorizations
  <1>24. CASE DropLocks(t)
    BY <1>24, <1>a, <1>b, <1>c, <1>p, BoundsAssumption DEF DropLocks, Authorizations
  <1>25. CASE ConfirmCancellation(t)
    BY <1>25, <1>a, <1>b, <1>c, <1>p, BoundsAssumption DEF ConfirmCancellation,
       Authorizations
  <1>26. CASE RequestCancellation(t)
    BY <1>26, <1>a, <1>b, <1>c, <1>p, BoundsAssumption DEF RequestCancellation,
       Authorizations
  <1> QED
    BY <1>1, <1>2, <1>3, <1>4, <1>5, <1>6, <1>7, <1>8, <1>9, <1>10, <1>11, <1>12,
       <1>13, <1>14, <1>15, <1>16, <1>17, <1>18, <1>19, <1>20, <1>21, <1>22, <1>23,
       <1>24, <1>25, <1>26, Zenon DEF Begins, Continue, Plan, Browse, Mutate, Cancel

-----------------------------------------------------------------------------
(***************************************************************************)
(* The invariant.                                                          *)
(***************************************************************************)
LEMMA InitEstablishes == Init => IInv
  <1> SUFFICES ASSUME Init
               PROVE  IInv
    OBVIOUS
  <1> USE DEF Init, Started, Blank, NoPlan
  <1>a. Initializer \in Threads /\ EarlierIds \subseteq PlanIds /\ 1 \in PlanIds
    BY BoundsAssumption, ThreadsAssumption DEF Threads, PlanIds
  <1>b. \A t \in Threads : /\ pc[t] \in {"idle", "init.discover"}
                           /\ pc[t] = "init.discover" => t = Initializer
                           /\ local[t].id = 0 /\ local[t].seen = 0
    OBVIOUS
  <1>1. TypeOK
    <2>1. disk \subseteq Journals
      BY <1>a DEF Journals
    <2>2. /\ pc \in [Threads -> Steps]
          /\ local \in [Threads -> [op : Operations, id : Nat, seen : Nat]]
      BY DEF Steps, Operations
    <2>3. /\ control \in [active : BOOLEAN, cancellable : BOOLEAN, requested : BOOLEAN,
                          generation : 0..MaxSession]
          /\ authorization \in [next : 1..MaxAuthorization, active : 0..MaxAuthorization,
                                kind : {"none", "recovery", "undo"}]
      BY BoundsAssumption
    <2>4. /\ registry \in 0..MaxGeneration /\ ledgerLatest \in 0..MaxPlanId
          /\ published \in 0..MaxPlanId
      BY BoundsAssumption
    <2> QED BY <1>a, <2>1, <2>2, <2>3, <2>4 DEF TypeOK
  <1>2. Initialization
    BY <1>a, <1>b DEF Initialization, InitSteps, LedgerSteps
  <1>3. IdsInUse
    BY <1>a, <1>b DEF IdsInUse, HoldsId
  <1>4. IdsOnDisk
    BY <1>a, <1>b DEF IdsOnDisk, SequenceIsInitialized
  <1>5. SessionIsItsRunners
    BY <1>b DEF SessionIsItsRunners, InSession
  <1>6. Cancellations
    BY <1>b DEF Cancellations
  <1>7. Authorizations
    BY <1>b DEF Authorizations
  <1> QED BY <1>1, <1>2, <1>3, <1>4, <1>5, <1>6, <1>7, Zenon DEF IInv

LEMMA NextKeeps == IInv /\ [Next]_vars => IInv'
  <1> SUFFICES ASSUME IInv, [Next]_vars
               PROVE  IInv'
    OBVIOUS
  <1>1. CASE Next
    <2>1. PICK t \in Threads : Begins(t) \/ Continue(t)
      BY <1>1, EveryStepIsAThreads
    <2> QED BY <2>1, TypesStay, InitializationStays, IdsInUseStay, IdsOnDiskStay, SessionsStay,
               CancellationsStay, AuthorizationsStay, Zenon DEF IInv
  <1>2. CASE UNCHANGED vars
    <2> USE DEF vars, planning, locks, catalog, history
    <2>1. TypeOK'
      BY <1>2, Zenon DEF IInv, TypeOK
    <2>2. Initialization'
      BY <1>2, Zenon DEF IInv, Initialization
    <2>3. IdsInUse'
      BY <1>2, Zenon DEF IInv, IdsInUse, HoldsId
    <2>4. IdsOnDisk'
      BY <1>2, Zenon DEF IInv, IdsOnDisk, SequenceIsInitialized, HoldsId
    <2>5. SessionIsItsRunners'
      BY <1>2, Zenon DEF IInv, SessionIsItsRunners, InSession
    <2>6. Cancellations' /\ Authorizations'
      BY <1>2, Zenon DEF IInv, Cancellations, Authorizations
    <2> QED BY <2>1, <2>2, <2>3, <2>4, <2>5, <2>6, Zenon DEF IInv
  <1> QED BY <1>1, <1>2

\* The inductive invariant holds in every reachable state.
THEOREM Invariant == Spec => []IInv
  BY InitEstablishes, NextKeeps, PTL DEF Spec

-----------------------------------------------------------------------------
(***************************************************************************)
(* What it shows.                                                          *)
(***************************************************************************)
\* The service's state always has its type: no counter passes its bound, and
\* no id, session or authorization is used that was not given out.
THEOREM TypeCorrect == Spec => []TypeOK
  <1>1. IInv => TypeOK
    BY Zenon DEF IInv
  <1> QED BY <1>1, Invariant, PTL

\* Two journals never bear the same plan id, whatever raced with
\* initialization (lib.rs:1293, 2882).
THEOREM JournalIdsStayUnique == Spec => []JournalIdsAreUnique
  <1>1. IInv => JournalIdsAreUnique
    BY Zenon DEF IInv, IdsOnDisk, JournalIdsAreUnique
  <1> QED BY <1>1, Invariant, PTL

\* No two calls execute at once, and the session that is active is the one of
\* the call that executes (lib.rs:134, 2749).
THEOREM OneCallRunsInASession == Spec => []SessionIsItsRunners
  <1>1. IInv => SessionIsItsRunners
    BY Zenon DEF IInv
  <1> QED BY <1>1, Invariant, PTL

\* An execution is only stopped for a cancellation that was confirmed for its
\* own session (lib.rs:2897).
THEOREM OnlyConfirmedCancellations == Spec => []NeverCancelledUnasked
  <1>1. IInv => NeverCancelledUnasked
    BY DEF IInv, SessionIsItsRunners, InSession, Cancellations, NeverCancelledUnasked, CancelSeen
  <1> QED BY <1>1, Invariant, PTL

\* A request never acts on an authorization that can still be presented
\* (lib.rs:65).
THEOREM AuthorizationsAreSpent == Spec => []AuthorizationIsSpent
  <1>1. IInv => AuthorizationIsSpent
    BY Zenon DEF IInv, Authorizations, AuthorizationIsSpent, Threads
  <1> QED BY <1>1, Invariant, PTL

\* Only PublishPlan replaces the latest preview by another one.
LEMMA OthersPublishNothing ==
  ASSUME NEW t \in Threads, Begins(t) \/ Continue(t), latestPlan' \notin {latestPlan, NoPlan}
  PROVE  PublishPlan(t)
  BY Zenon DEF planning, Begins, Continue, Plan,
     Browse, Mutate, Cancel, Snapshot, PreviewRules, AdmitSources, AdmitDroppedSources,
     BrowsesLedger, BrowseLedger, ApplyLatestPlan, RequestsMutation, RequestMutation,
     AskToCancel, AllocatePlanId, DiscoverLedger, InitializeSequence, InitializeLedger,
     InitializeJournalRoot, ListLedger, OpenInspection, IssueAuthorization, BeginApply,
     ReadJournalRoot, PrepareLatestExecution, RefreshAfterApply, TakeAuthorization,
     Confirm, Decline, TakeLedger, AllocateUndoId, PrepareUndo, CreateJournal,
     FinishExecution, RefreshAfterExecution, DropLocks, ConfirmCancellation,
     RequestCancellation, BeginRecovery, DropSession

\* A preview that was overtaken while it was built is not published: the latest
\* preview's id only grows (lib.rs:2298).
THEOREM LatestPreviewsWin == Spec => LatestPreviewWins
  <1>1. IInv /\ [Next]_vars
          => [latestPlan' \notin {latestPlan, NoPlan} => latestPlan'.id > published]_vars
    <2> SUFFICES ASSUME IInv, Next, latestPlan' \notin {latestPlan, NoPlan}
                 PROVE  latestPlan'.id > published
      BY DEF vars
    <2>1. PICK t \in Threads : Begins(t) \/ Continue(t)
      BY EveryStepIsAThreads
    <2>2. PublishPlan(t)
      BY <2>1, OthersPublishNothing
    <2> QED BY <2>2 DEF PublishPlan, IInv, IdsInUse
  <1> QED BY <1>1, Invariant, PTL DEF Spec, LatestPreviewWins

-----------------------------------------------------------------------------
(***************************************************************************)
(* The mutexes.  Which calls hold one is a matter of where they are.       *)
(***************************************************************************)
\* The steps of a recovery or an undo under the mutation lock
RecoverySteps == {"take", "confirm", "decline", "ledger", "undo.allocate", "undo.prepare", "begin",
                  "refresh", "drop.locks"}

ApplySteps == {"apply.begin", "apply.root", "apply.prepare", "apply.refresh"}

OperationsFit ==
  /\ \A t \in Threads : pc[t] \in ApplySteps => local[t].op = "apply"
  /\ \A t \in Threads : pc[t] \in RecoverySteps \cup {"inspect.open", "inspect.issue"} =>
                          local[t].op # "apply"

HoldsMutation(t) ==
  \/ pc[t] \in RecoverySteps \cup {"create", "running"}
  \/ pc[t] = "drop.session" /\ local[t].op # "apply"

HoldsLedger(t) ==
  \/ pc[t] \in {"inspect.issue", "undo.allocate", "undo.prepare", "begin", "refresh"}
  \/ pc[t] \in {"create", "running", "drop.session"} /\ local[t].op # "apply"

\* A mutex is held by the call that is where it is needed, and by nobody
\* else: whatever executes holds the mutation lock, a recovery and an undo the
\* ledger as well, a plan is built under the sequence lock, and no call returns
\* with a mutex (lib.rs:1281, 2288, 2634, 2734, 2844).
MutexesFollowCalls ==
  \A t \in Threads :
    /\ sequence = t <=> pc[t] = "plan.build"
    /\ mutation = t <=> HoldsMutation(t)
    /\ HoldsLedger(t) => ledger = t
    /\ ledger = t => HoldsLedger(t) \/ pc[t] = "drop.locks"

LocksInv == MutexesFollowCalls /\ OperationsFit

LEMMA LocksFreeAtStart == Init => LocksInv
  BY ThreadsAssumption DEF Init, Started, Blank, LocksInv, MutexesFollowCalls, OperationsFit,
     HoldsMutation, HoldsLedger, RecoverySteps, ApplySteps

\* A recovery that begins, or gives up, takes no mutex.
LEMMA RecoveryGoesOn ==
  ASSUME TypeOK, NEW t \in Threads, BeginRecovery(t)
  PROVE  /\ pc[t] = "begin" /\ pc'[t] \in {"create", "running", "drop.locks"}
         /\ local'[t].op = local[t].op
         /\ UNCHANGED <<sequence, mutation, ledger>>
  <1>1. pc[t] = "begin" /\ UNCHANGED <<sequence, mutation, ledger>>
    BY RecoveryBegun, Zenon DEF locks
  <1>2. pc'[t] \in {"create", "running", "drop.locks"}
    BY RecoveryMoves DEF Goto, TypeOK
  <1>3. BeginSession(t, TRUE) \/ BeginSession(t, FALSE) \/ local' = local
    BY RecoveryBegun
  <1>4. local'[t].op = local[t].op
    BY <1>3, SessionBegun, Zenon
  <1> QED BY <1>1, <1>2, <1>4

LEMMA LocksStay ==
  ASSUME IInv, LocksInv, NEW t \in Threads, Begins(t) \/ Continue(t)
  PROVE  LocksInv'
  <1> USE ThreadsAssumption
      DEF planning, locks, Goto, Return, Blank, HoldsMutation, HoldsLedger, RecoverySteps,
          ApplySteps, LocksInv, MutexesFollowCalls, OperationsFit
  <1>a. /\ pc \in [Threads -> Steps] /\ pc' \in [Threads -> Steps]
        /\ local \in [Threads -> [op : Operations, id : Nat, seen : Nat]]
        /\ local' \in [Threads -> [op : Operations, id : Nat, seen : Nat]]
        /\ \A u \in Threads : u # t => pc'[u] = pc[u] /\ local'[u] = local[u]
    BY OneCallMoves DEF IInv, TypeOK
  <1>1. CASE PreviewRules(t) \/ AdmitSources(t) \/ AdmitDroppedSources(t)
    <2>1. CASE PreviewRules(t)
      BY <2>1, <1>a DEF PreviewRules, Snapshot
    <2>2. CASE AdmitSources(t)
      BY <2>2, <1>a DEF AdmitSources, Snapshot
    <2>3. CASE AdmitDroppedSources(t)
      BY <2>3, <1>a DEF AdmitDroppedSources
    <2> QED BY <1>1, <2>1, <2>2, <2>3
  <1>2. CASE BrowsesLedger(t)
    BY <1>2, <1>a DEF BrowsesLedger, BrowseLedger, Call
  <1>3. CASE ApplyLatestPlan(t)
    BY <1>3, <1>a DEF ApplyLatestPlan, Call
  <1>4. CASE RequestsMutation(t)
    BY <1>4, <1>a DEF RequestsMutation, RequestMutation, Call
  <1>5. CASE AskToCancel(t)
    BY <1>5, <1>a DEF AskToCancel
  <1>6. CASE AllocatePlanId(t)
    BY <1>6, <1>a DEF AllocatePlanId
  <1>7. CASE PublishPlan(t)
    BY <1>7, <1>a DEF PublishPlan
  <1>8. CASE DiscoverLedger(t) \/ InitializeSequence(t)
    <2>1. CASE DiscoverLedger(t)
      BY <2>1, <1>a DEF DiscoverLedger
    <2>2. CASE InitializeSequence(t)
      BY <2>2, <1>a DEF InitializeSequence
    <2> QED BY <1>8, <2>1, <2>2
  <1>9. CASE InitializeLedger(t) \/ InitializeJournalRoot(t)
    <2>1. CASE InitializeLedger(t)
      BY <2>1, <1>a DEF InitializeLedger
    <2>2. CASE InitializeJournalRoot(t)
      BY <2>2, <1>a DEF InitializeJournalRoot
    <2> QED BY <1>9, <2>1, <2>2
  <1>10. CASE ListLedger(t)
    BY <1>10, <1>a DEF ListLedger
  <1>11. CASE OpenInspection(t)
    BY <1>11, <1>a DEF OpenInspection
  <1>12. CASE IssueAuthorization(t)
    BY <1>12, <1>a DEF IssueAuthorization
  <1>13. CASE BeginApply(t)
    BY <1>13, <1>a DEF BeginApply, BeginSession
  <1>14. CASE ReadJournalRoot(t)
    BY <1>14, <1>a DEF ReadJournalRoot
  <1>15. CASE PrepareLatestExecution(t)
    BY <1>15, <1>a DEF PrepareLatestExecution
  <1>16. CASE RefreshAfterApply(t)
    BY <1>16, <1>a DEF RefreshAfterApply
  <1>17. CASE TakeAuthorization(t)
    BY <1>17, <1>a DEF TakeAuthorization
  <1>18. CASE Confirm(t)
    BY <1>18, <1>a DEF Confirm
  <1>19. CASE Decline(t)
    BY <1>19, <1>a DEF Decline
  <1>20. CASE TakeLedger(t)
    BY <1>20, <1>a DEF TakeLedger
  <1>21. CASE AllocateUndoId(t)
    BY <1>21, <1>a DEF AllocateUndoId
  <1>22. CASE PrepareUndo(t)
    BY <1>22, <1>a DEF PrepareUndo
  <1>23. CASE BeginRecovery(t)
    BY <1>23, <1>a, RecoveryGoesOn DEF IInv
  <1>24. CASE CreateJournal(t)
    BY <1>24, <1>a DEF CreateJournal, Executed
  <1>25. CASE FinishExecution(t)
    BY <1>25, <1>a DEF FinishExecution, Executed
  <1>26. CASE RefreshAfterExecution(t)
    BY <1>26, <1>a DEF RefreshAfterExecution
  <1>27. CASE DropSession(t)
    BY <1>27, <1>a DEF DropSession
  <1>28. CASE DropLocks(t)
    BY <1>28, <1>a DEF DropLocks
  <1>29. CASE ConfirmCancellation(t)
    BY <1>29, <1>a DEF ConfirmCancellation
  <1>30. CASE RequestCancellation(t)
    BY <1>30, <1>a DEF RequestCancellation
  <1> QED BY <1>1, <1>2, <1>3, <1>4, <1>5, <1>6, <1>7, <1>8, <1>9, <1>10, <1>11, <1>12, <1>13, <1>14, <1>15, <1>16, <1>17, <1>18, <1>19, <1>20, <1>21, <1>22, <1>23, <1>24, <1>25, <1>26, <1>27, <1>28, <1>29, <1>30,
         Zenon DEF Begins, Continue, Plan, Browse, Mutate, Cancel

\* Every mutex is held by the calls that need it, and by no other.
THEOREM MutexesAreHeld == Spec => []MutexesFollowCalls
  <1>1. IInv /\ LocksInv /\ [Next]_vars => LocksInv'
    <2> SUFFICES ASSUME IInv, LocksInv, [Next]_vars
                 PROVE  LocksInv'
      OBVIOUS
    <2>1. CASE Next
      <3>1. PICK t \in Threads : Begins(t) \/ Continue(t)
        BY <2>1, EveryStepIsAThreads
      <3> QED BY <3>1, LocksStay
    <2>2. CASE UNCHANGED vars
      BY <2>2, Zenon DEF vars, locks, LocksInv, MutexesFollowCalls, OperationsFit, HoldsMutation,
         HoldsLedger
    <2> QED BY <2>1, <2>2
  <1>2. LocksInv => MutexesFollowCalls
    BY Zenon DEF LocksInv
  <1> QED BY <1>1, <1>2, LocksFreeAtStart, Invariant, PTL DEF Spec

\* The holder of the mutex that the next step of a call takes.  The mutation
\* lock is only tried.
WaitsFor(t) ==
  CASE pc[t] \in {"plan.allocate", "init.sequence", "undo.allocate"}       -> sequence
    [] pc[t] \in {"init.ledger", "list.refresh", "inspect.open", "apply.refresh", "decline",
                  "ledger"}                                                -> ledger
    [] OTHER                                                               -> Nobody

\* A call that waits does so for one that is on its way, or that waits itself
\* for one that is: the ledger is always taken before the sequence.  This is
\* SomeCallCanGoOn without the word of what is enabled (lib.rs:1281, 2288,
\* 2844).
CallsWaitInOrder ==
  /\ \A t \in Threads : WaitsFor(t) # Nobody =>
       LET holder == WaitsFor(t)
       IN /\ pc[holder] # "idle"
          /\ WaitsFor(holder) # Nobody => /\ pc[WaitsFor(holder)] # "idle"
                                          /\ WaitsFor(WaitsFor(holder)) = Nobody
  /\ (\E t \in Threads : pc[t] # "idle") =>
       \E t \in Threads : pc[t] # "idle" /\ WaitsFor(t) = Nobody

\* No order in which the calls take the mutexes leaves them waiting for each
\* other, however many threads make them.
THEOREM NoCallWaitsInACircle == Spec => []CallsWaitInOrder
  <1>1. TypeOK /\ MutexesFollowCalls => CallsWaitInOrder
    <2> SUFFICES ASSUME TypeOK, MutexesFollowCalls
                 PROVE  CallsWaitInOrder
      OBVIOUS
    <2>1. /\ sequence \in Threads => pc[sequence] = "plan.build"
          /\ ledger \in Threads => pc[ledger] \in {"inspect.issue", "undo.allocate",
               "undo.prepare", "begin", "refresh", "create", "running", "drop.session",
               "drop.locks"}
      BY DEF MutexesFollowCalls, HoldsLedger
    <2>2. {sequence, ledger} \subseteq Threads \cup {Nobody}
      BY DEF TypeOK
    <2>3. \A t \in Threads : WaitsFor(t) \in {sequence, ledger, Nobody}
      BY DEF WaitsFor
    <2>4. sequence \in Threads => WaitsFor(sequence) = Nobody
      BY <2>1 DEF WaitsFor
    <2>5. ledger \in Threads => WaitsFor(ledger) \in {sequence, Nobody}
      BY <2>1 DEF WaitsFor
    <2>6. \A t \in Threads : WaitsFor(t) # Nobody =>
            /\ WaitsFor(t) \in Threads /\ pc[WaitsFor(t)] # "idle"
            /\ WaitsFor(WaitsFor(t)) \in {sequence, Nobody}
      BY <2>1, <2>2, <2>3, <2>4, <2>5
    <2>7. \A t \in Threads : WaitsFor(t) # Nobody /\ WaitsFor(WaitsFor(t)) # Nobody =>
            /\ pc[WaitsFor(WaitsFor(t))] # "idle"
            /\ WaitsFor(WaitsFor(WaitsFor(t))) = Nobody
            /\ WaitsFor(WaitsFor(t)) \in Threads
      BY <2>1, <2>2, <2>4, <2>6
    <2> QED BY <2>6, <2>7, Zenon DEF CallsWaitInOrder
  <1> QED BY <1>1, TypeCorrect, MutexesAreHeld, PTL

\* How many steps a call has left at most
StepsLeft(t) ==
  CASE pc[t] = "idle" -> 0
    [] pc[t] \in {"plan.build", "init.root", "list.refresh", "inspect.issue", "decline",
                  "drop.locks", "cancel.request"} -> 1
    [] pc[t] \in {"plan.allocate", "init.ledger", "inspect.open", "drop.session",
                  "cancel.confirm"} -> 2
    [] pc[t] \in {"init.sequence", "apply.refresh", "refresh"} -> 3
    [] pc[t] \in {"init.discover", "running"} -> 4
    [] pc[t] = "create" -> 5
    [] pc[t] \in {"apply.prepare", "begin"} -> 6
    [] pc[t] \in {"apply.root", "undo.prepare"} -> 7
    [] pc[t] \in {"apply.begin", "undo.allocate"} -> 8
    [] pc[t] = "ledger" -> 9
    [] pc[t] = "confirm" -> 10
    [] OTHER -> 11

\* A call that has begun comes closer to its end with each of its steps, none
\* of which it takes again, and no other call sends it back: with
\* NoCallWaitsInACircle, every call ends if its thread keeps running, the user
\* answers and the execution in it ends (lib.rs:2263, 2634, 2734).
CallsOnlyGoOn ==
  [][\A t \in Threads : pc[t] # "idle" =>
       /\ StepsLeft(t) \in 1..11
       /\ pc'[t] = pc[t] \/ StepsLeft(t)' \in 0..(StepsLeft(t) - 1)]_vars

LEMMA StepsAreCounted ==
  ASSUME TypeOK, NEW t \in Threads
  PROVE  /\ StepsLeft(t) \in 0..11
         /\ pc[t] # "idle" => StepsLeft(t) \in 1..11
  BY DEF StepsLeft

\* A step of a call brings it closer to its end.
LEMMA CallsShorten ==
  ASSUME TypeOK, NEW t \in Threads, Continue(t)
  PROVE  StepsLeft(t)' \in 0..(StepsLeft(t) - 1)
  <1> USE DEF Goto, Return, StepsLeft
  <1>a. pc \in [Threads -> Steps]
    BY Zenon DEF TypeOK
  <1>1. CASE AllocatePlanId(t)
    BY <1>1, <1>a DEF AllocatePlanId
  <1>2. CASE PublishPlan(t)
    BY <1>2, <1>a DEF PublishPlan
  <1>3. CASE DiscoverLedger(t)
    BY <1>3, <1>a DEF DiscoverLedger
  <1>4. CASE InitializeSequence(t)
    BY <1>4, <1>a DEF InitializeSequence
  <1>5. CASE InitializeLedger(t)
    BY <1>5, <1>a DEF InitializeLedger
  <1>6. CASE InitializeJournalRoot(t)
    BY <1>6, <1>a DEF InitializeJournalRoot
  <1>7. CASE ListLedger(t)
    BY <1>7, <1>a DEF ListLedger
  <1>8. CASE OpenInspection(t)
    BY <1>8, <1>a DEF OpenInspection
  <1>9. CASE IssueAuthorization(t)
    BY <1>9, <1>a DEF IssueAuthorization
  <1>10. CASE BeginApply(t)
    <2>1. pc[t] = "apply.begin" /\ pc'[t] \in {"apply.root", "idle"}
      BY <1>10, <1>a, Zenon DEF BeginApply
    <2> QED BY <2>1
  <1>11. CASE ReadJournalRoot(t)
    BY <1>11, <1>a DEF ReadJournalRoot
  <1>12. CASE PrepareLatestExecution(t)
    BY <1>12, <1>a DEF PrepareLatestExecution
  <1>13. CASE RefreshAfterApply(t)
    BY <1>13, <1>a DEF RefreshAfterApply
  <1>14. CASE TakeAuthorization(t)
    BY <1>14, <1>a DEF TakeAuthorization
  <1>15. CASE Confirm(t)
    BY <1>15, <1>a DEF Confirm
  <1>16. CASE Decline(t)
    BY <1>16, <1>a DEF Decline
  <1>17. CASE TakeLedger(t)
    BY <1>17, <1>a DEF TakeLedger
  <1>18. CASE AllocateUndoId(t)
    BY <1>18, <1>a DEF AllocateUndoId
  <1>19. CASE PrepareUndo(t)
    BY <1>19, <1>a DEF PrepareUndo
  <1>20. CASE CreateJournal(t)
    <2>1. pc[t] = "create" /\ pc'[t] \in {"running", "drop.session", "refresh"}
      BY <1>20, <1>a, Zenon DEF CreateJournal, Executed
    <2> QED BY <2>1
  <1>21. CASE FinishExecution(t)
    BY <1>21, <1>a DEF FinishExecution, Executed
  <1>22. CASE RefreshAfterExecution(t)
    BY <1>22, <1>a DEF RefreshAfterExecution
  <1>23. CASE DropSession(t)
    BY <1>23, <1>a DEF DropSession
  <1>24. CASE DropLocks(t)
    BY <1>24, <1>a DEF DropLocks
  <1>25. CASE ConfirmCancellation(t)
    BY <1>25, <1>a DEF ConfirmCancellation
  <1>26. CASE RequestCancellation(t)
    BY <1>26, <1>a DEF RequestCancellation
  <1>27. CASE BeginRecovery(t)
    BY <1>27, <1>a, RecoveryGoesOn
  <1> QED BY <1>1, <1>2, <1>3, <1>4, <1>5, <1>6, <1>7, <1>8, <1>9, <1>10, <1>11, <1>12, <1>13, <1>14, <1>15, <1>16, <1>17, <1>18, <1>19, <1>20, <1>21, <1>22, <1>23, <1>24, <1>25, <1>26, <1>27,
         Zenon DEF Continue, Plan, Browse, Mutate, Cancel

\* Every call comes closer to its end with each of its steps.
THEOREM EveryCallIsShort == Spec => CallsOnlyGoOn
  <1>1. TypeOK /\ [Next]_vars
          => [\A t \in Threads : pc[t] # "idle" =>
                /\ StepsLeft(t) \in 1..11
                /\ pc'[t] = pc[t] \/ StepsLeft(t)' \in 0..(StepsLeft(t) - 1)]_vars
    <2> SUFFICES ASSUME TypeOK, Next, NEW t \in Threads, pc[t] # "idle", pc'[t] # pc[t]
                 PROVE  StepsLeft(t) \in 1..11 /\ StepsLeft(t)' \in 0..(StepsLeft(t) - 1)
      BY StepsAreCounted, Zenon DEF vars
    <2>1. PICK u \in Threads : Begins(u) \/ Continue(u)
      BY EveryStepIsAThreads
    <2>2. u = t
      BY <2>1, OneCallMoves
    <2>3. CASE Begins(t)
      BY <2>3 DEF Begins, PreviewRules, Snapshot, AdmitSources, AdmitDroppedSources, BrowsesLedger,
         BrowseLedger, ApplyLatestPlan, RequestsMutation, RequestMutation, Call, AskToCancel
    <2>4. CASE Continue(t)
      BY <2>4, CallsShorten, StepsAreCounted
    <2> QED BY <2>1, <2>2, <2>3, <2>4
  <1> QED BY <1>1, TypeCorrect, PTL DEF Spec, CallsOnlyGoOn
==============================================================================

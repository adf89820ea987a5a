-------------------------- MODULE ApplicationService --------------------------
(***************************************************************************)
(* The application service (renamewright-application/src/lib.rs): the      *)
(* calls the shell makes from several threads and the mutexes between      *)
(* them.  A preview is planned from a snapshot of the registry and         *)
(* published; applying it, recovering a transaction and undoing one each   *)
(* execute under the mutation lock and in a recovery session, which a      *)
(* cancellation is addressed to.                                           *)
(*                                                                         *)
(* A mutex that is only held for a few statements without waiting for      *)
(* another one makes those statements one action: the registry, the latest *)
(* plan, the session, the authorization and the journal root.  Three are   *)
(* held across actions: next_plan_id ("sequence"), ledger and mutation.    *)
(*                                                                         *)
(* What an execution does to names and journal is module RenameTransaction;*)
(* here it takes some time and leaves a journal file.  Which journal an    *)
(* inspection is about, and what it finds, is left open.                   *)
(***************************************************************************)
EXTENDS Integers

CONSTANTS
  Planners,         \* threads that admit, exclude and preview
  Browsers,         \* threads that list and inspect the ledger
  Mutators,         \* threads that apply, recover and undo
  Cancellers,       \* threads that ask to cancel
  Initializer,      \* the browser that runs initialize when the shell starts
  Nobody,           \* holder of a free mutex
  MaxPlanId,        \* u64::MAX of a plan id, of an authorization id, of the
  MaxAuthorization, \* registry's generation and of a session's: the code
  MaxGeneration,    \* refuses to go beyond the first two and stays at the
  MaxSession,       \* last two
  EarlierIds        \* ids the journals of earlier runs may bear

ASSUME BoundsAssumption ==
  /\ MaxPlanId \in Nat \ {0} /\ MaxAuthorization \in Nat \ {0}
  /\ MaxGeneration \in Nat /\ MaxSession \in Nat \ {0}
  /\ EarlierIds \subseteq 1..MaxPlanId

Threads == Planners \cup Browsers \cup Mutators \cup Cancellers

ASSUME ThreadsAssumption == Initializer \in Browsers /\ Nobody \notin Threads

VARIABLES
  registry,       \* generation of the source registry
  nextPlanId,
  sequence,       \* holder of the next_plan_id mutex
  latestPlan,     \* the published preview: its id and registry generation
  mutation,       \* holder of mutation_lock
  ledger,         \* holder of the ledger mutex
  ledgerLatest,   \* latest_plan_id of the ledger in memory
  ledgerRoot,     \* the ledger has a root
  journalRoot,    \* journal_root is set
  control,        \* RecoveryControl
  authorization,  \* JournalAuthorizationState
  disk,           \* journal files: kind and plan id
  pc, local,      \* of each thread: its next step and its variables
  published,      \* history: the highest plan id published so far
  confirmed       \* history: the sessions a user confirmed to cancel

planning == <<nextPlanId, latestPlan>>
catalog  == <<ledgerLatest, ledgerRoot, journalRoot>>
locks    == <<sequence, mutation, ledger>>
history  == <<published, confirmed>>
vars == <<registry, planning, locks, catalog, control, authorization, disk, pc, local, history>>

PlanIds  == 1..MaxPlanId
Journals == [kind : {"plan", "undo"}, id : PlanIds]
NoPlan   == [id |-> 0, generation |-> 0]
Blank    == [op |-> "none", id |-> 0, seen |-> 0]
Operations == {"none", "preview", "admission", "initialize", "list", "inspectRecovery",
               "inspectUndo", "apply", "resumeForward", "recovery", "undo", "cancel"}
Steps == {"idle", "plan.allocate", "plan.build", "init.discover", "init.sequence", "init.ledger",
          "init.root", "list.refresh", "inspect.open", "inspect.issue",
          "apply.begin", "apply.root", "apply.prepare", "create", "running", "apply.refresh",
          "take", "confirm", "decline", "ledger", "undo.allocate", "undo.prepare", "begin",
          "refresh", "drop.session", "drop.locks", "cancel.confirm", "cancel.request"}

TypeOK ==
  /\ registry \in 0..MaxGeneration
  /\ nextPlanId \in PlanIds
  /\ latestPlan = NoPlan \/ latestPlan \in [id : PlanIds, generation : 0..MaxGeneration]
  /\ {sequence, mutation, ledger} \subseteq Threads \cup {Nobody}
  /\ ledgerLatest \in 0..MaxPlanId /\ {ledgerRoot, journalRoot} \subseteq BOOLEAN
  /\ control \in [active : BOOLEAN, cancellable : BOOLEAN, requested : BOOLEAN,
                  generation : 0..MaxSession]
  /\ authorization \in [next : 1..MaxAuthorization, active : 0..MaxAuthorization,
                        kind : {"none", "recovery", "undo"}]
  /\ disk \subseteq Journals
  /\ pc \in [Threads -> Steps]
  /\ local \in [Threads -> [op : Operations, id : Nat, seen : Nat]]
  /\ published \in 0..MaxPlanId /\ confirmed \subseteq 1..MaxSession

\* The memory of a shell that has just started.
Started ==
  /\ registry = 0 /\ nextPlanId = 1 /\ latestPlan = NoPlan
  /\ sequence = Nobody /\ mutation = Nobody /\ ledger = Nobody
  /\ ledgerLatest = 0 /\ ledgerRoot = FALSE /\ journalRoot = FALSE
  /\ control = [active |-> FALSE, cancellable |-> FALSE, requested |-> FALSE, generation |-> 0]
  /\ authorization = [next |-> 1, active |-> 0, kind |-> "none"]
  /\ pc = [t \in Threads |-> IF t = Initializer THEN "init.discover" ELSE "idle"]
  /\ local = [t \in Threads |-> IF t = Initializer THEN [Blank EXCEPT !.op = "initialize"]
                                                   ELSE Blank]
  /\ published = 0 /\ confirmed = {}

\* A run of the shell finds the journals of earlier runs, which may have
\* ended anywhere: ids are skipped, and never shared.
IdsAreUnique(journals) == \A j, k \in journals : j.id = k.id => j = k

Init ==
  /\ Started
  /\ disk \in {journals \in SUBSET [kind : {"plan", "undo"}, id : EarlierIds] :
                IdsAreUnique(journals)}

-----------------------------------------------------------------------------
Goto(t, s) == pc' = [pc EXCEPT ![t] = s]

\* A call that starts with operation o about id i.
Call(t, o, i, s) ==
  /\ pc[t] = "idle" /\ Goto(t, s)
  /\ local' = [local EXCEPT ![t] = [op |-> o, id |-> i, seen |-> 0]]

Return(t) == Goto(t, "idle") /\ local' = [local EXCEPT ![t] = Blank]

LatestOnDisk ==
  IF disk = {} THEN 0
  ELSE CHOOSE i \in PlanIds : /\ \E j \in disk : j.id = i
                              /\ \A j \in disk : j.id <= i

\* RenameLedger::refresh: fails without a root, may fail with one, and
\* leaves the ledger alone then.
Refresh == ledgerLatest' \in {ledgerLatest} \cup {l \in {LatestOnDisk} : ledgerRoot}

Invalidated == [authorization EXCEPT !.active = 0, !.kind = "none"]

Larger(a, b) == IF a > b THEN a ELSE b

-----------------------------------------------------------------------------
(***************************************************************************)
(* Planning.  admit_sources_with_rules and exclude_sources_with_rules      *)
(* change the registry and snapshot it under one lock; dropped sources are *)
(* admitted without planning; preview_rules only snapshots.  A request     *)
(* that is refused before an id is allocated leaves a changed registry or  *)
(* nothing.                                                                *)
(***************************************************************************)
Snapshot(t, o) ==
  /\ pc[t] = "idle" /\ Goto(t, "plan.allocate")
  /\ local' = [local EXCEPT ![t] = [op |-> o, id |-> 0, seen |-> registry']]
  /\ UNCHANGED <<planning, locks, catalog, control, authorization, disk, history>>

PreviewRules(t) == registry' = registry /\ Snapshot(t, "preview")

\* A change of the registry: saturating_add.
NextGeneration == IF registry = MaxGeneration THEN registry ELSE registry + 1

AdmitSources(t) == registry' \in {registry, NextGeneration} /\ Snapshot(t, "admission")

AdmitDroppedSources(t) ==
  /\ pc[t] = "idle" /\ registry' = NextGeneration
  /\ UNCHANGED <<planning, locks, catalog, control, authorization, disk, pc, local, history>>

\* Mutant: the sequence lock is only held for the allocation.
AllocatePlanIdUnlocked(t) ==
  /\ pc[t] = "plan.allocate" /\ sequence = Nobody
  /\ \/ nextPlanId = MaxPlanId /\ Return(t) /\ UNCHANGED <<nextPlanId, sequence>>
     \/ /\ nextPlanId < MaxPlanId /\ nextPlanId' = nextPlanId + 1
        /\ local' = [local EXCEPT ![t].id = nextPlanId]
        /\ Goto(t, "plan.build") /\ UNCHANGED sequence
  /\ UNCHANGED <<registry, latestPlan, mutation, ledger, catalog, control, authorization,
                 disk, history>>

\* plan_from_snapshot_cancellable: the id is allocated under the sequence
\* lock, which is kept until the plan is published.
AllocatePlanId(t) ==
  /\ pc[t] = "plan.allocate" /\ sequence = Nobody
  /\ \/ nextPlanId = MaxPlanId /\ Return(t) /\ UNCHANGED <<nextPlanId, sequence>>
     \/ /\ nextPlanId < MaxPlanId /\ nextPlanId' = nextPlanId + 1
        /\ local' = [local EXCEPT ![t].id = nextPlanId]
        /\ Goto(t, "plan.build") /\ sequence' = t
  /\ UNCHANGED <<registry, latestPlan, mutation, ledger, catalog, control, authorization,
                 disk, history>>

\* Built, unless a preview is cancelled, and published if the registry is
\* still at the snapshot's generation.
PublishPlan(t) ==
  /\ pc[t] = "plan.build" /\ sequence' = Nobody /\ Return(t)
  /\ \/ /\ registry = local[t].seen
        /\ latestPlan' = [id |-> local[t].id, generation |-> local[t].seen]
        /\ published' = Larger(published, local[t].id)
     \/ /\ registry # local[t].seen \/ local[t].op = "preview"
        /\ UNCHANGED <<latestPlan, published>>
  /\ UNCHANGED <<registry, nextPlanId, mutation, ledger, catalog, control, authorization,
                 disk, confirmed>>

-----------------------------------------------------------------------------
(***************************************************************************)
(* initialize, on a thread of its own while the shell already previews:    *)
(* discovery, then the sequence and the latest plan under both locks, then *)
(* the ledger, then the journal root.  Every stage may fail.               *)
(***************************************************************************)
DiscoverLedger(t) ==
  /\ pc[t] = "init.discover" /\ authorization' = Invalidated
  /\ \/ Return(t)
     \/ /\ LatestOnDisk < MaxPlanId /\ Goto(t, "init.sequence")
        /\ local' = [local EXCEPT ![t].id = LatestOnDisk]
  /\ UNCHANGED <<registry, planning, locks, catalog, control, disk, history>>

\* Mutant: a plan published before initialization stays.
InitializeSequenceOnly(t) ==
  /\ pc[t] = "init.sequence" /\ sequence = Nobody
  /\ nextPlanId' = Larger(nextPlanId, local[t].id + 1)
  /\ Goto(t, "init.ledger")
  /\ UNCHANGED <<registry, latestPlan, locks, catalog, control, authorization, disk, local,
                 history>>

InitializeSequence(t) ==
  /\ pc[t] = "init.sequence" /\ sequence = Nobody
  /\ nextPlanId' = Larger(nextPlanId, local[t].id + 1) /\ latestPlan' = NoPlan
  /\ Goto(t, "init.ledger")
  /\ UNCHANGED <<registry, locks, catalog, control, authorization, disk, local, history>>

InitializeLedger(t) ==
  /\ pc[t] = "init.ledger" /\ ledger = Nobody
  /\ ledgerLatest' = local[t].id /\ ledgerRoot' = TRUE
  /\ Goto(t, "init.root")
  /\ UNCHANGED <<registry, planning, locks, journalRoot, control, authorization, disk, local,
                 history>>

InitializeJournalRoot(t) ==
  /\ pc[t] = "init.root" /\ journalRoot' = TRUE /\ Return(t)
  /\ UNCHANGED <<registry, planning, locks, ledgerLatest, ledgerRoot, control, authorization,
                 disk, history>>

-----------------------------------------------------------------------------
(***************************************************************************)
(* list_ledger, inspect_recovery and inspect_undo: the authorization is    *)
(* dropped first; an inspection keeps the ledger until the new one is      *)
(* issued.                                                                 *)
(***************************************************************************)
BrowseLedger(t, o, s) ==
  /\ Call(t, o, 0, s) /\ authorization' = Invalidated
  /\ UNCHANGED <<registry, planning, locks, catalog, control, disk, history>>

ListLedger(t) ==
  /\ pc[t] = "list.refresh" /\ ledger = Nobody
  /\ Refresh /\ Return(t)
  /\ UNCHANGED <<registry, planning, locks, ledgerRoot, journalRoot, control, authorization,
                 disk, history>>

OpenInspection(t) ==
  /\ pc[t] = "inspect.open" /\ ledger = Nobody
  /\ \/ Refresh /\ Return(t) /\ ledger' = ledger
     \/ /\ ledgerRoot /\ ledgerLatest' = LatestOnDisk
        /\ \E j \in disk : local[t].op = "inspectUndo" => j.kind = "plan"
        /\ Goto(t, "inspect.issue") /\ local' = local /\ ledger' = t
  /\ UNCHANGED <<registry, planning, sequence, mutation, ledgerRoot, journalRoot, control,
                 authorization, disk, history>>

\* Mutant: with the ledger held, an inspection waits until nothing executes.
IssueAuthorizationWhenIdle(t) ==
  /\ pc[t] = "inspect.issue" /\ mutation = Nobody /\ ledger' = Nobody /\ Return(t)
  /\ authorization' =
       IF authorization.next = MaxAuthorization THEN authorization
       ELSE [next |-> authorization.next + 1, active |-> authorization.next,
             kind |-> IF local[t].op = "inspectUndo" THEN "undo" ELSE "recovery"]
  /\ UNCHANGED <<registry, planning, sequence, mutation, catalog, control, disk, history>>

\* JournalAuthorizationState::issue
IssueAuthorization(t) ==
  /\ pc[t] = "inspect.issue" /\ ledger' = Nobody /\ Return(t)
  /\ authorization' =
       IF authorization.next = MaxAuthorization THEN authorization
       ELSE [next |-> authorization.next + 1, active |-> authorization.next,
             kind |-> IF local[t].op = "inspectUndo" THEN "undo" ELSE "recovery"]
  /\ UNCHANGED <<registry, planning, sequence, mutation, catalog, control, disk, history>>

-----------------------------------------------------------------------------
\* Mutant: a session is begun although one is active.
BeginSessionAnyway(t, cancellable) ==
  LET generation == IF control.generation = MaxSession THEN MaxSession
                                                       ELSE control.generation + 1
  IN /\ control' = [active |-> TRUE, cancellable |-> cancellable, requested |-> FALSE,
                    generation |-> generation]
     /\ local' = [local EXCEPT ![t].seen = generation]

\* RecoverySession::begin, cancel_requested and drop
BeginSession(t, cancellable) ==
  LET generation == IF control.generation = MaxSession THEN MaxSession
                                                       ELSE control.generation + 1
  IN /\ ~control.active
     /\ control' = [active |-> TRUE, cancellable |-> cancellable, requested |-> FALSE,
                    generation |-> generation]
     /\ local' = [local EXCEPT ![t].seen = generation]

CancelSeen(t) ==
  ~control.active \/ control.generation # local[t].seen \/ control.requested

DropSession(t) ==
  /\ pc[t] = "drop.session"
  /\ control' = IF control.generation = local[t].seen
                THEN [control EXCEPT !.active = FALSE, !.cancellable = FALSE,
                                     !.requested = FALSE]
                ELSE control
  /\ \/ local[t].op = "apply" /\ Return(t)
     \/ local[t].op # "apply" /\ Goto(t, "drop.locks") /\ local' = local
  /\ UNCHANGED <<registry, planning, locks, catalog, authorization, disk, history>>

\* The guards of a recovery or an undo: the ledger, then the mutation.
DropLocks(t) ==
  /\ pc[t] = "drop.locks" /\ Return(t)
  /\ mutation' = Nobody
  /\ ledger' = IF ledger = t THEN Nobody ELSE ledger
  /\ UNCHANGED <<registry, planning, sequence, catalog, control, authorization, disk, history>>

(***************************************************************************)
(* perform_apply_request.  The session is begun first and dropped last;    *)
(* prepare_latest_execution consumes the preview under the mutation lock   *)
(* if it is the requested one and of the registry's generation, and        *)
(* freezing it may fail for other reasons.                                 *)
(***************************************************************************)
ApplyLatestPlan(t) ==
  /\ \E i \in 1..published : Call(t, "apply", i, "apply.begin")
  /\ authorization' = Invalidated
  /\ UNCHANGED <<registry, planning, locks, catalog, control, disk, history>>

BeginApply(t) ==
  /\ pc[t] = "apply.begin"
  /\ \/ BeginSession(t, TRUE) /\ Goto(t, "apply.root")
     \/ control.active /\ Return(t) /\ control' = control
  /\ UNCHANGED <<registry, planning, locks, catalog, authorization, disk, history>>

ReadJournalRoot(t) ==
  /\ pc[t] = "apply.root"
  /\ Goto(t, IF journalRoot THEN "apply.prepare" ELSE "drop.session")
  /\ UNCHANGED <<registry, planning, locks, catalog, control, authorization, disk, local,
                 history>>

PrepareLatestExecution(t) ==
  /\ pc[t] = "apply.prepare"
  /\ \/ /\ mutation = Nobody
        /\ latestPlan.id = local[t].id /\ latestPlan.generation = registry
        /\ mutation' = t /\ latestPlan' = NoPlan /\ Goto(t, "create")
     \/ Goto(t, "drop.session") /\ UNCHANGED <<mutation, latestPlan>>
  /\ UNCHANGED <<registry, nextPlanId, sequence, ledger, catalog, control, authorization, disk,
                 local, history>>

JournalOf(t) == [kind |-> IF local[t].op = "undo" THEN "undo" ELSE "plan", id |-> local[t].id]

\* An execution has returned: apply has released the mutation lock with the
\* frozen plan, a recovery and an undo refresh the ledger they hold.
Executed(t, s) ==
  IF local[t].op = "apply" THEN Goto(t, s) /\ mutation' = Nobody
                           ELSE Goto(t, "refresh") /\ mutation' = mutation

\* execute_frozen_plan's create_new and header: refuses an existing file,
\* and a header that fails leaves the file behind.
CreateJournal(t) ==
  /\ pc[t] = "create"
  /\ \/ /\ JournalOf(t) \notin disk /\ disk' = disk \cup {JournalOf(t)}
        /\ Goto(t, "running") /\ mutation' = mutation
     \/ disk' \in {disk, disk \cup {JournalOf(t)}} /\ Executed(t, "drop.session")
  /\ UNCHANGED <<registry, planning, sequence, ledger, catalog, control, authorization, local,
                 history>>

\* The execution ends with an outcome, by itself or because it saw a
\* cancellation.
FinishExecution(t) ==
  /\ pc[t] = "running" /\ Executed(t, "apply.refresh")
  /\ UNCHANGED <<registry, planning, sequence, ledger, catalog, control, authorization, disk,
                 local, history>>

RefreshAfterApply(t) ==
  /\ pc[t] = "apply.refresh" /\ ledger = Nobody
  /\ Refresh /\ Goto(t, "drop.session")
  /\ UNCHANGED <<registry, planning, locks, ledgerRoot, journalRoot, control, authorization,
                 disk, local, history>>

-----------------------------------------------------------------------------
(***************************************************************************)
(* perform_recovery_request and perform_undo_request: the mutation lock is *)
(* only tried; the authorization is spent whatever comes of the request;   *)
(* the user confirms before the ledger is taken.  An undo also allocates a *)
(* plan id and is prepared before its session begins.  "resumeForward" is  *)
(* the one recovery that can be cancelled.                                 *)
(***************************************************************************)
RequestMutation(t, o) ==
  /\ mutation = Nobody /\ mutation' = t
  /\ \E i \in 1..(authorization.next - 1) : Call(t, o, i, "take")
  /\ UNCHANGED <<registry, planning, sequence, ledger, catalog, control, authorization, disk,
                 history>>

IsAuthorized(t) ==
  /\ authorization.active = local[t].id
  /\ authorization.kind = IF local[t].op = "undo" THEN "undo" ELSE "recovery"

\* Mutant: the authorization stays after it was used.
PeekAuthorization(t) ==
  /\ pc[t] = "take"
  /\ Goto(t, IF IsAuthorized(t) THEN "confirm" ELSE "drop.locks")
  /\ UNCHANGED <<registry, planning, locks, catalog, control, authorization, disk, local,
                 history>>

\* JournalAuthorizationState::take
TakeAuthorization(t) ==
  /\ pc[t] = "take" /\ authorization' = Invalidated
  /\ Goto(t, IF IsAuthorized(t) THEN "confirm" ELSE "drop.locks")
  /\ UNCHANGED <<registry, planning, locks, catalog, control, disk, local, history>>

\* Accepted, declined, or the action is not available or not the inspected one.
Confirm(t) ==
  /\ pc[t] = "confirm" /\ \E s \in {"ledger", "decline", "drop.locks"} : Goto(t, s)
  /\ UNCHANGED <<registry, planning, locks, catalog, control, authorization, disk, local,
                 history>>

Decline(t) ==
  /\ pc[t] = "decline" /\ ledger = Nobody /\ Refresh
  /\ mutation' = Nobody /\ Return(t)
  /\ UNCHANGED <<registry, planning, sequence, ledger, ledgerRoot, journalRoot, control,
                 authorization, disk, history>>

TakeLedger(t) ==
  /\ pc[t] = "ledger" /\ ledger = Nobody /\ ledger' = t
  /\ Goto(t, IF local[t].op = "undo" THEN "undo.allocate" ELSE "begin")
  /\ UNCHANGED <<registry, planning, sequence, mutation, catalog, control, authorization, disk,
                 local, history>>

\* Mutant: the id may be u64::MAX, and the next one overflows.
AllocateUndoIdUnchecked(t) ==
  /\ pc[t] = "undo.allocate" /\ sequence = Nobody
  /\ LET value == Larger(nextPlanId, ledgerLatest + 1)
     IN \/ /\ value <= MaxPlanId /\ nextPlanId' = value + 1
           /\ local' = [local EXCEPT ![t].id = value] /\ Goto(t, "undo.prepare")
        \/ /\ value > MaxPlanId /\ nextPlanId' = nextPlanId
           /\ local' = local /\ Goto(t, "drop.locks")
  /\ UNCHANGED <<registry, latestPlan, locks, catalog, control, authorization, disk, history>>

\* allocate_transaction_plan_id, both checked_add's
AllocateUndoId(t) ==
  /\ pc[t] = "undo.allocate" /\ sequence = Nobody
  /\ LET value == Larger(nextPlanId, ledgerLatest + 1)
     IN \/ /\ value < MaxPlanId /\ nextPlanId' = value + 1
           /\ local' = [local EXCEPT ![t].id = value] /\ Goto(t, "undo.prepare")
        \/ /\ value >= MaxPlanId /\ nextPlanId' = nextPlanId
           /\ local' = local /\ Goto(t, "drop.locks")
  /\ UNCHANGED <<registry, latestPlan, locks, catalog, control, authorization, disk, history>>

PrepareUndo(t) ==
  /\ pc[t] = "undo.prepare" /\ \E s \in {"begin", "drop.locks"} : Goto(t, s)
  /\ UNCHANGED <<registry, planning, locks, catalog, control, authorization, disk, local,
                 history>>

BeginRecovery(t) ==
  /\ pc[t] = "begin"
  /\ \/ /\ BeginSession(t, local[t].op \in {"undo", "resumeForward"})
        /\ Goto(t, IF local[t].op = "undo" THEN "create" ELSE "running")
     \/ control.active /\ Goto(t, "drop.locks") /\ UNCHANGED <<control, local>>
  /\ UNCHANGED <<registry, planning, locks, catalog, authorization, disk, history>>

RefreshAfterExecution(t) ==
  /\ pc[t] = "refresh" /\ Refresh /\ Goto(t, "drop.session")
  /\ UNCHANGED <<registry, planning, locks, ledgerRoot, journalRoot, control, authorization,
                 disk, local, history>>

-----------------------------------------------------------------------------
(***************************************************************************)
(* request_confirmed_cancellation: the user is asked about the session     *)
(* that is active now, and it may be over when the answer comes.           *)
(***************************************************************************)
AskToCancel(t) ==
  /\ pc[t] = "idle" /\ control.active /\ control.cancellable
  /\ Goto(t, "cancel.confirm")
  /\ local' = [local EXCEPT ![t] = [op |-> "cancel", id |-> 0, seen |-> control.generation]]
  /\ UNCHANGED <<registry, planning, locks, catalog, control, authorization, disk, history>>

ConfirmCancellation(t) ==
  /\ pc[t] = "cancel.confirm"
  /\ \/ Return(t) /\ UNCHANGED confirmed
     \/ /\ Goto(t, "cancel.request") /\ local' = local
        /\ confirmed' = confirmed \cup {local[t].seen}
  /\ UNCHANGED <<registry, planning, locks, catalog, control, authorization, disk, published>>

\* Mutant: whatever session is active is cancelled.
RequestAnyCancellation(t) ==
  /\ pc[t] = "cancel.request" /\ Return(t)
  /\ control' = IF control.active /\ control.cancellable
                THEN [control EXCEPT !.requested = TRUE] ELSE control
  /\ UNCHANGED <<registry, planning, locks, catalog, authorization, disk, history>>

RequestCancellation(t) ==
  /\ pc[t] = "cancel.request" /\ Return(t)
  /\ control' = IF control.active /\ control.cancellable /\ control.generation = local[t].seen
                THEN [control EXCEPT !.requested = TRUE] ELSE control
  /\ UNCHANGED <<registry, planning, locks, catalog, authorization, disk, history>>

-----------------------------------------------------------------------------
Plan(t)  == AllocatePlanId(t) \/ PublishPlan(t)
Browse(t) ==
  \/ DiscoverLedger(t) \/ InitializeSequence(t) \/ InitializeLedger(t)
  \/ InitializeJournalRoot(t)
  \/ ListLedger(t) \/ OpenInspection(t) \/ IssueAuthorization(t)
Mutate(t) ==
  \/ BeginApply(t) \/ ReadJournalRoot(t) \/ PrepareLatestExecution(t) \/ RefreshAfterApply(t)
  \/ TakeAuthorization(t) \/ Confirm(t) \/ Decline(t) \/ TakeLedger(t)
  \/ AllocateUndoId(t) \/ PrepareUndo(t) \/ BeginRecovery(t)
  \/ CreateJournal(t) \/ FinishExecution(t) \/ RefreshAfterExecution(t)
  \/ DropSession(t) \/ DropLocks(t)
Cancel(t) == ConfirmCancellation(t) \/ RequestCancellation(t)

\* A step of a call that has begun.
Continue(t) == Plan(t) \/ Browse(t) \/ Mutate(t) \/ Cancel(t)

Next ==
  \/ \E t \in Planners : PreviewRules(t) \/ AdmitSources(t) \/ AdmitDroppedSources(t)
  \/ \E t \in Browsers : \/ BrowseLedger(t, "list", "list.refresh")
                         \/ \E o \in {"inspectRecovery", "inspectUndo"} :
                              BrowseLedger(t, o, "inspect.open")
  \/ \E t \in Mutators : \/ ApplyLatestPlan(t)
                         \/ \E o \in {"resumeForward", "recovery", "undo"} :
                              RequestMutation(t, o)
  \/ \E t \in Cancellers : AskToCancel(t)
  \/ \E t \in Threads : Continue(t)

Spec == Init /\ [][Next]_vars

-----------------------------------------------------------------------------
\* Two journals never bear the same plan id, whatever raced with
\* initialization and whichever calls allocated the ids (lib.rs:1293, 2882):
\* the next run orders and resolves transactions by them.
JournalIdsAreUnique == IdsAreUnique(disk)

\* Previews become the latest one in the order of their ids: one that was
\* overtaken while it was being built does not replace a newer one
\* (lib.rs:2298).
LatestPreviewWins == [][latestPlan' \notin {latestPlan, NoPlan} => latestPlan'.id > published]_vars

\* A call that has begun its session finds it active and its own until it
\* drops it, so no two calls execute at once though apply lets go of the
\* mutation lock before its session (lib.rs:134, 2749).
InSession(t) == pc[t] \in {"apply.root", "apply.prepare", "create", "running", "apply.refresh",
                           "refresh", "drop.session"}
SessionIsItsRunners ==
  /\ \A t \in Threads : InSession(t) => control.active /\ control.generation = local[t].seen
  /\ \A t, u \in Threads : InSession(t) /\ InSession(u) => t = u

\* An execution is only stopped if a user confirmed that for this very
\* session, not for one that ended while the question was open (lib.rs:2897).
NeverCancelledUnasked ==
  \A t \in Threads : pc[t] = "running" /\ CancelSeen(t) => local[t].seen \in confirmed

\* What an inspection authorized is done at most once: while a call acts on
\* an authorization no request can present it again (lib.rs:65).
AuthorizationIsSpent ==
  \A t \in Mutators : pc[t] \in {"confirm", "decline", "ledger"} => local[t].id # authorization.active

\* No order in which the calls take the three long-held mutexes leaves them
\* waiting on each other: as long as a call has not returned, some call can
\* take a step, whatever the user answers (lib.rs:1281, 2288, 2844).
SomeCallCanGoOn ==
  (\E t \in Threads : pc[t] # "idle") => \E t \in Threads : pc[t] # "idle" /\ ENABLED Continue(t)
=============================================================================

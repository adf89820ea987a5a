--------------------------------- MODULE Shell ---------------------------------
(***************************************************************************)
(* The desktop shell (renamewright-app/src/lib.rs): one UI thread, and at  *)
(* most one worker thread each for previews, admissions, the ledger and a  *)
(* mutation.  A worker sends one message; the UI thread polls for it in    *)
(* every frame.  Nothing is modal: between two frames the user may do      *)
(* whatever the buttons allow.                                             *)
(*                                                                         *)
(* The numbers the code compares, planning_revision and a plan's id, are   *)
(* represented by what the comparison tells: a task is "fresh" while the   *)
(* revision it was started at is the shell's, and a plan is the rules, the *)
(* overrides and the sources it was made from.  The service is reduced to  *)
(* the registry and its latest plan; module ApplicationService has the     *)
(* rest.                                                                   *)
(***************************************************************************)
EXTENDS Naturals

CONSTANTS
  Rules,       \* rule chains the user may write, the first is the empty one
  NoRules,
  Broken,      \* those that do not compile
  Sources,     \* entries of the file system that may be selected
  Entries,     \* transactions the ledger may list
  None,
  MaxInputs    \* what the user does: so many inputs, then only waiting

ASSUME ShellAssumption ==
  NoRules \in Rules \ Broken /\ Broken \subseteq Rules /\ MaxInputs \in Nat

VARIABLES
  rules, overrides,       \* the chain, and the sources that have an override
  givenUp,                \* history: the overrides the last rename took with it,
                          \* until others are chosen
  plan, current, status,  \* self.plan, plan_is_current, and the status line
  due,                    \* planning_due is set
  planning, admission,    \* planning_task and admission_task
  queued,                 \* pending_admission_paths
  editor,                 \* override_editor
  listed,                 \* entries of self.ledger
  selected, inspection,   \* selected_ledger_id, recovery_ or undo_inspection
  ledgerReady, ledgerTask,
  dialog,                 \* pending_confirmation
  mutation,               \* mutation_task
  registry, latest,       \* the service's sources and latest plan
  inputs

request   == <<rules, overrides, givenUp>>
preview   == <<plan, current, status>>
tasks     == <<planning, admission, queued, due>>
ledger    == <<listed, selected, inspection, ledgerReady, ledgerTask>>
service   == <<registry, latest>>
vars == <<request, preview, tasks, editor, ledger, dialog, mutation, service, inputs>>

Plans    == [rules : Rules, overrides : SUBSET Sources, sources : SUBSET Sources]
Requests == [rules : Rules, overrides : SUBSET Sources]
Actions  == {"resume", "rollback", "reconcile", "undo"}
NoDialog == [kind |-> "none", plan |-> None, entry |-> None]

PlanningTasks  == [fresh : BOOLEAN, validating : BOOLEAN, request : Requests, done : BOOLEAN,
                   ok : BOOLEAN, plan : Plans \cup {None}]
AdmissionTasks == [fresh : BOOLEAN, paths : SUBSET Sources, request : Requests,
                   stage : {"admit", "plan", "done"}, seen : SUBSET Sources,
                   plan : Plans \cup {None}]
LedgerTasks    == [kind : {"initialize", "list", "recovery", "undo"},
                   entry : Entries \cup {None}, stage : {"run", "done"}, ok : BOOLEAN]
Inspections    == [entry : Entries, kind : {"recovery", "undo"}]
Dialogs        == [kind : {"none", "apply", "cancel"} \cup Actions,
                   plan : Plans \cup {None}, entry : Entries \cup {None}]
Mutations      == [kind : {"apply"} \cup Actions, plan : Plans \cup {None},
                   stage : {"start", "running", "done"},
                   result : {"none", "ok", "planChanged", "failed"}]

ASSUME NoneAssumption ==
  None \notin Plans /\ None \notin PlanningTasks /\ None \notin AdmissionTasks

TypeOK ==
  /\ rules \in Rules /\ overrides \in SUBSET Sources /\ givenUp \in SUBSET Sources
  /\ plan \in Plans \cup {None} /\ current \in BOOLEAN
  /\ status \in {"ready", "updating", "error"}
  /\ planning \in PlanningTasks \cup {None} /\ admission \in AdmissionTasks \cup {None}
  /\ queued \in SUBSET Sources /\ due \in BOOLEAN
  /\ listed \in SUBSET Entries /\ selected \in Entries \cup {None}
  /\ inspection \in Inspections \cup {None}
  /\ ledgerReady \in BOOLEAN /\ ledgerTask \in LedgerTasks \cup {None}
  /\ editor \in Sources \cup {None} /\ dialog \in Dialogs
  /\ mutation \in Mutations \cup {None}
  /\ registry \in SUBSET Sources /\ latest \in Plans \cup {None}
  /\ inputs \in 0..MaxInputs

\* new_configured, with a journal root: initialize runs on the ledger thread.
Init ==
  /\ rules = NoRules /\ overrides = {} /\ givenUp = {}
  /\ plan = None /\ current = TRUE /\ status = "ready"
  /\ planning = None /\ admission = None /\ queued = {} /\ due = FALSE
  /\ editor = None /\ listed = {} /\ selected = None /\ inspection = None
  /\ ledgerReady = FALSE
  /\ ledgerTask = [kind |-> "initialize", entry |-> None, stage |-> "run", ok |-> FALSE]
  /\ dialog = NoDialog /\ mutation = None
  /\ registry = {} /\ latest = None /\ inputs = MaxInputs

-----------------------------------------------------------------------------
Request(r, o)     == [rules |-> r, overrides |-> o]
PlanFor(q, s)     == [rules |-> q.rules, overrides |-> q.overrides, sources |-> s]
Compiles(q)       == q.rules \notin Broken
Previewable(q, s) == Compiles(q) /\ q.overrides \subseteq s

Superseded(task) == IF task = None THEN None ELSE [task EXCEPT !.fresh = FALSE]
WithoutApply     == IF dialog.kind = "apply" THEN NoDialog ELSE dialog

\* Mutant: the confirmation stays open.
SupersedeTasksOnly ==
  /\ planning' = Superseded(planning) /\ admission' = Superseded(admission)
  /\ dialog' = dialog

\* The revision moves on: answers of running tasks are out of date, the
\* preview worker is told to stop, an Apply confirmation closes.
Supersede ==
  /\ planning' = Superseded(planning) /\ admission' = Superseded(admission)
  /\ dialog' = WithoutApply

\* A call of the service on the UI thread meets an admission that changes
\* the registry between its snapshot and its publication.
MayBeStale == admission # None /\ admission.stage = "admit"

Shown(p)  == plan' = p /\ current' = TRUE /\ status' = "ready"
Validated == plan' = plan /\ current' = TRUE /\ status' = status
Refused   == plan' = plan /\ current' = FALSE /\ status' = "error"

\* refresh_plan, on the UI thread.
RefreshPlan(q) ==
  /\ Supersede /\ due' = FALSE /\ UNCHANGED <<queued, registry>>
  /\ \/ plan = None /\ Compiles(q) /\ Validated /\ latest' = latest
     \/ plan = None /\ ~Compiles(q) /\ Refused /\ latest' = latest
     \/ /\ plan # None /\ Previewable(q, registry)
        /\ Shown(PlanFor(q, registry)) /\ latest' = PlanFor(q, registry)
     \/ /\ plan # None
        /\ \/ ~Previewable(q, registry)
           \/ MayBeStale
        /\ Refused /\ latest' = latest

Input == inputs > 0 /\ inputs' = inputs - 1

-----------------------------------------------------------------------------
(***************************************************************************)
(* Rules and overrides.                                                    *)
(***************************************************************************)

\* Adding, removing and moving a rule, discarding a new one, a preset.
ChangeRules(r) ==
  /\ Input /\ r # rules /\ rules' = r
  /\ RefreshPlan(Request(r, overrides))
  /\ UNCHANGED <<overrides, givenUp, editor, ledger, mutation>>

\* schedule_plan_refresh: a field of a rule was edited.
TypeInRule(r) ==
  /\ Input /\ r # rules /\ rules' = r
  /\ Supersede /\ due' = TRUE
  /\ plan' = plan /\ current' = FALSE /\ status' = "updating"
  /\ UNCHANGED <<overrides, givenUp, queued, editor, ledger, mutation, service>>

OpenOverride(s) ==
  /\ Input /\ plan # None /\ s \in plan.sources /\ editor' = s
  /\ UNCHANGED <<request, preview, tasks, ledger, dialog, mutation, service>>

\* "Assign", and "Use rule result" which removes the override.
SaveOverride(kept) ==
  /\ Input /\ editor # None /\ editor' = None /\ givenUp' = {}
  /\ overrides' = IF kept THEN overrides \cup {editor} ELSE overrides \ {editor}
  /\ RefreshPlan(Request(rules, overrides'))
  /\ UNCHANGED <<rules, ledger, mutation>>

\* exclude_source_for_row: the override goes first and comes back if the
\* service refuses, which it may do after the source is out of the registry.
ExcludeSource(s) ==
  LET q == Request(rules, overrides \ {s}) IN
  /\ Input /\ plan # None /\ s \in plan.sources /\ givenUp' = {}
  /\ Supersede /\ due' = FALSE
  /\ \/ /\ ~Compiles(q) \/ s \notin registry
        /\ Refused /\ UNCHANGED <<overrides, service>>
     \/ /\ Compiles(q) /\ s \in registry /\ registry' = registry \ {s}
        /\ \/ /\ Previewable(q, registry') /\ overrides' = q.overrides
              /\ Shown(PlanFor(q, registry')) /\ latest' = PlanFor(q, registry')
           \/ /\ ~Previewable(q, registry') \/ MayBeStale
              /\ Refused /\ UNCHANGED <<overrides, latest>>
  /\ UNCHANGED <<rules, queued, editor, ledger, mutation>>

-----------------------------------------------------------------------------
(***************************************************************************)
(* Admission.                                                              *)
(***************************************************************************)
AdmissionOf(paths) ==
  [fresh |-> TRUE, paths |-> paths, request |-> Request(rules, overrides),
   stage |-> "admit", seen |-> {}, plan |-> None]

\* start_source_admission: behind a running preview or admission it queues.
SelectSources(paths) ==
  /\ Input /\ paths # {} /\ due' = FALSE
  /\ plan' = plan /\ current' = FALSE /\ status' = "updating"
  /\ dialog' = WithoutApply /\ planning' = Superseded(planning)
  /\ \/ /\ admission # None \/ planning # None
        /\ admission' = Superseded(admission) /\ queued' = queued \cup paths
     \/ /\ admission = None /\ planning = None
        /\ admission' = AdmissionOf(paths) /\ queued' = queued
  /\ UNCHANGED <<request, editor, ledger, mutation, service>>

\* More entries are dropped at once than may be admitted.
DropTooManySources ==
  /\ Input /\ Refused
  /\ UNCHANGED <<request, tasks, editor, ledger, dialog, mutation, service>>

\* Mutant: the preview that the edit asked for is forgotten.
PollAdmissionForgetting ==
  LET answer == admission.plan
      intime == admission.fresh /\ queued = {}
  IN
  /\ admission # None /\ admission.stage = "done"
  /\ plan' = IF answer = None THEN plan ELSE answer
  /\ current' = (intime /\ answer # None)
  /\ status' = IF queued # {} THEN "updating"
               ELSE IF answer = None THEN "error"
               ELSE IF intime THEN "ready" ELSE status
  /\ queued' = {}
  /\ admission' = IF queued = {} THEN None ELSE AdmissionOf(queued)
  /\ planning' = IF queued = {} THEN planning ELSE Superseded(planning)
  /\ dialog'   = IF queued = {} THEN dialog ELSE WithoutApply
  /\ due' = (due /\ queued = {})
  /\ UNCHANGED <<request, editor, ledger, mutation, service, inputs>>

\* poll_admission.  An answer that is out of date shows the sources but not
\* as a current plan, and is followed by a preview or the queued admission.
PollAdmission ==
  LET answer == admission.plan
      intime == admission.fresh /\ queued = {}
  IN
  /\ admission # None /\ admission.stage = "done"
  /\ plan' = IF answer = None THEN plan ELSE answer
  /\ current' = (intime /\ answer # None)
  /\ status' = IF queued # {} THEN "updating"
               ELSE IF answer = None THEN "error"
               ELSE IF intime THEN "ready" ELSE status
  /\ queued' = {}
  /\ admission' = IF queued = {} THEN None ELSE AdmissionOf(queued)
  /\ planning' = IF queued = {} THEN planning ELSE Superseded(planning)
  /\ dialog'   = IF queued = {} THEN dialog ELSE WithoutApply
  /\ due' = (queued = {} /\ (due \/ (~intime /\ answer # None)))
  /\ UNCHANGED <<request, editor, ledger, mutation, service, inputs>>

\* admit_sources_with_rules, on the worker: the registry, then the plan.
AdmitSources ==
  /\ admission # None /\ admission.stage = "admit"
  /\ \/ /\ admission' = [admission EXCEPT !.stage = "done"] /\ registry' = registry
     \/ /\ Compiles(admission.request) /\ registry' = registry \cup admission.paths
        /\ admission' = [admission EXCEPT !.stage = "plan", !.seen = registry']
  /\ UNCHANGED <<request, preview, planning, queued, due, editor, ledger, dialog, mutation,
                 latest, inputs>>

PlanAdmission ==
  /\ admission # None /\ admission.stage = "plan"
  /\ LET p  == PlanFor(admission.request, admission.seen)
         ok == admission.request.overrides \subseteq admission.seen
               /\ registry = admission.seen
     IN /\ admission' = [admission EXCEPT !.stage = "done", !.plan = IF ok THEN p ELSE None]
        /\ latest' = IF ok THEN p ELSE latest
  /\ UNCHANGED <<request, preview, planning, queued, due, editor, ledger, dialog, mutation,
                 registry, inputs>>

-----------------------------------------------------------------------------
(***************************************************************************)
(* Previews on the worker.                                                 *)
(***************************************************************************)
PlanningOf(shown) ==
  [fresh |-> TRUE, validating |-> shown = None, request |-> Request(rules, overrides),
   done |-> FALSE, ok |-> FALSE, plan |-> None]

\* preview_rules_cancellable or validate_rule_request.  A worker that was
\* told to stop may have been too late to notice.
PreviewRules ==
  /\ planning # None /\ ~planning.done
  /\ LET q == planning.request IN
     \/ /\ planning.validating
        /\ planning' = [planning EXCEPT !.done = TRUE, !.ok = Compiles(q)]
        /\ latest' = latest
     \/ /\ ~planning.validating /\ Previewable(q, registry)
        /\ planning' = [planning EXCEPT !.done = TRUE, !.ok = TRUE,
                                        !.plan = PlanFor(q, registry)]
        /\ latest' = PlanFor(q, registry)
     \/ /\ ~planning.validating /\ ~(planning.fresh /\ Previewable(q, registry))
        /\ planning' = [planning EXCEPT !.done = TRUE] /\ latest' = latest
  /\ UNCHANGED <<request, preview, admission, queued, due, editor, ledger, dialog, mutation,
                 registry, inputs>>

Answered == planning # None /\ planning.done
NoWorker == admission = None /\ (planning # None => planning.done)

\* Mutant: any answer is shown.
AnswerOfAnyRevision ==
  IF ~Answered THEN <<plan, current, status>>
  ELSE IF ~planning.ok THEN <<plan, FALSE, "error">>
  ELSE IF planning.validating THEN <<plan, TRUE, status>>
  ELSE <<planning.plan, TRUE, "ready">>

\* What is shown once the worker's answer was taken: only one of the
\* present revision counts.
Answer ==
  IF ~Answered THEN <<plan, current, status>>
  ELSE IF ~planning.fresh THEN <<plan, current, status>>
  ELSE IF ~planning.ok THEN <<plan, FALSE, "error">>
  ELSE IF planning.validating THEN <<plan, TRUE, status>>
  ELSE <<planning.plan, TRUE, "ready">>

\* Mutant: only poll_admission launches what is queued.
PollPlanningOnly ==
  /\ \/ Answered
     \/ NoWorker /\ due
  /\ UNCHANGED <<admission, queued, dialog>>
  /\ plan' = Answer[1] /\ current' = Answer[2] /\ status' = Answer[3]
  /\ \/ NoWorker /\ due /\ due' = FALSE /\ planning' = PlanningOf(Answer[1])
     \/ Answered /\ due' = due /\ planning' = None
  /\ UNCHANGED <<request, editor, ledger, mutation, service, inputs>>

\* poll_planning: the answer, then a queued admission, then a preview that
\* is due (the debounce may not be over).
PollPlanning ==
  /\ \/ /\ NoWorker /\ queued # {} /\ queued' = {}
        /\ admission' = AdmissionOf(queued) /\ planning' = None
        /\ due' = FALSE /\ dialog' = WithoutApply
        /\ plan' = Answer[1] /\ current' = FALSE /\ status' = "updating"
     \/ /\ ~(NoWorker /\ queued # {})
        /\ \/ Answered
           \/ NoWorker /\ due
        /\ UNCHANGED <<admission, queued, dialog>>
        /\ plan' = Answer[1] /\ current' = Answer[2] /\ status' = Answer[3]
        /\ \/ NoWorker /\ due /\ due' = FALSE /\ planning' = PlanningOf(Answer[1])
           \/ Answered /\ due' = due /\ planning' = None
  /\ UNCHANGED <<request, editor, ledger, mutation, service, inputs>>

-----------------------------------------------------------------------------
(***************************************************************************)
(* The ledger.                                                             *)
(***************************************************************************)
LedgerTaskOf(kind, entry) == [kind |-> kind, entry |-> entry, stage |-> "run", ok |-> FALSE]

\* refresh_ledger, if no ledger task runs; otherwise nothing happens.
StartListing ==
  \/ /\ ledgerTask = None /\ ledgerReady' = FALSE /\ ledgerTask' = LedgerTaskOf("list", None)
  \/ ledgerTask # None /\ UNCHANGED <<ledgerReady, ledgerTask>>

RefreshLedger ==
  /\ Input /\ ledgerTask = None /\ StartListing
  /\ UNCHANGED <<request, preview, tasks, editor, listed, selected, inspection, dialog, mutation,
                 service>>

SelectEntry(e) ==
  /\ Input /\ e \in listed \ {selected}
  /\ selected' = e /\ inspection' = None
  /\ UNCHANGED <<request, preview, tasks, editor, listed, ledgerReady, ledgerTask, dialog,
                 mutation, service>>

MutationIdle == mutation = None /\ ledgerTask = None /\ ledgerReady

InspectSelected(kind) ==
  /\ Input /\ MutationIdle /\ selected \in listed
  /\ ledgerTask' = LedgerTaskOf(kind, selected)
  /\ UNCHANGED <<request, preview, tasks, editor, listed, selected, inspection, ledgerReady,
                 dialog, mutation, service>>

\* initialize, list_ledger, inspect_recovery or inspect_undo, on the worker;
\* initialize drops the latest plan.
WorkOnLedger ==
  /\ ledgerTask # None /\ ledgerTask.stage = "run"
  /\ \E ok \in BOOLEAN : ledgerTask' = [ledgerTask EXCEPT !.stage = "done", !.ok = ok]
  /\ latest' \in IF ledgerTask.kind = "initialize" THEN {None, latest} ELSE {latest}
  /\ ledgerTask.kind = "initialize" /\ ledgerTask'.ok => latest' = None
  /\ UNCHANGED <<request, preview, tasks, editor, listed, selected, inspection, ledgerReady,
                 dialog, mutation, registry, inputs>>

\* poll_ledger: a list, the first one of which renews a plan made before
\* initialize was done.
PollSnapshot ==
  /\ ledgerTask # None /\ ledgerTask.stage = "done" /\ ledgerTask.kind \in {"initialize", "list"}
  /\ ledgerTask' = None /\ ledgerReady' = ledgerTask.ok
  /\ IF ledgerTask.ok
     THEN /\ listed' \in SUBSET Entries
          /\ selected' = IF selected \in listed' THEN selected ELSE None
          /\ inspection' = IF selected \in listed' \cup {None} THEN inspection ELSE None
     ELSE UNCHANGED <<listed, selected, inspection>>
  /\ IF ledgerTask.ok /\ ledgerTask.kind = "initialize" /\ plan # None
     THEN RefreshPlan(Request(rules, overrides))
     ELSE UNCHANGED <<preview, tasks, dialog, service>>
  /\ UNCHANGED <<request, editor, mutation, inputs>>

\* poll_ledger: an inspection replaces the one that was shown, whatever is
\* selected now.
PollInspection ==
  /\ ledgerTask # None /\ ledgerTask.stage = "done" /\ ledgerTask.kind \in {"recovery", "undo"}
  /\ ledgerTask' = None
  /\ inspection' = IF ledgerTask.ok THEN [entry |-> ledgerTask.entry, kind |-> ledgerTask.kind]
                   ELSE inspection
  /\ UNCHANGED <<request, preview, tasks, editor, listed, selected, ledgerReady, dialog, mutation,
                 service, inputs>>

-----------------------------------------------------------------------------
(***************************************************************************)
(* Confirmations and the mutation they start.                              *)
(***************************************************************************)
CanApply ==
  /\ plan # None /\ current /\ ~due
  /\ planning = None /\ admission = None /\ queued = {}
  /\ MutationIdle

Ask(d) ==
  /\ Input /\ dialog' = d
  /\ UNCHANGED <<request, preview, tasks, editor, ledger, mutation, service>>

AskApply == CanApply /\ Ask([NoDialog EXCEPT !.kind = "apply", !.plan = plan])

AskRecoveryOrUndo(action) ==
  /\ MutationIdle /\ inspection # None
  /\ inspection.kind = IF action = "undo" THEN "undo" ELSE "recovery"
  /\ Ask([NoDialog EXCEPT !.kind = action, !.entry = inspection.entry])

AskCancel == mutation # None /\ Ask([NoDialog EXCEPT !.kind = "cancel"])

Dismiss == dialog # NoDialog /\ Ask(NoDialog)

\* start_confirmed_mutation: refused while another one runs; a cancellation
\* only tells the service.
Confirm ==
  /\ Input /\ dialog # NoDialog /\ dialog' = NoDialog
  /\ mutation' = IF dialog.kind = "cancel" \/ mutation # None THEN mutation
                 ELSE [kind |-> dialog.kind, plan |-> dialog.plan, stage |-> "start",
                       result |-> "none"]
  /\ UNCHANGED <<request, preview, tasks, editor, ledger, service>>

\* apply_latest_plan, apply_recovery_action or apply_undo, on the worker:
\* the service gives up its latest plan if it is the confirmed one and can
\* be frozen.
BeginMutation ==
  /\ mutation # None /\ mutation.stage = "start"
  /\ \/ /\ mutation.kind = "apply" => latest = mutation.plan
        /\ mutation' = [mutation EXCEPT !.stage = "running"]
        /\ latest' = IF mutation.kind = "apply" THEN None ELSE latest
     \/ /\ latest' = latest
        /\ \E r \in {"planChanged", "failed"} :
             /\ r = "planChanged" => mutation.kind = "apply" /\ latest # None
             /\ mutation' = [mutation EXCEPT !.stage = "done", !.result = r]
  /\ UNCHANGED <<request, preview, tasks, editor, ledger, dialog, registry, inputs>>

FinishMutation ==
  /\ mutation # None /\ mutation.stage = "running"
  /\ \E r \in {"ok", "failed"} : mutation' = [mutation EXCEPT !.stage = "done", !.result = r]
  /\ UNCHANGED <<request, preview, tasks, editor, ledger, dialog, service, inputs>>

\* poll_mutation and apply_mutation_result: a finished rename takes the
\* plan and the overrides with it.
PollMutation ==
  /\ mutation # None /\ mutation.stage = "done" /\ mutation' = None
  /\ \/ /\ mutation.kind = "apply" /\ mutation.result = "ok"
        /\ plan' = None /\ overrides' = {} /\ givenUp' = overrides
        /\ status' = "ready" /\ current' = current
        /\ UNCHANGED <<tasks, dialog, service>>
     \/ /\ mutation.result = "planChanged" /\ UNCHANGED <<overrides, givenUp>>
        /\ RefreshPlan(Request(rules, overrides))
     \/ /\ mutation.result # "planChanged"
        /\ mutation.kind = "apply" => mutation.result = "failed"
        /\ UNCHANGED <<overrides, givenUp, preview, tasks, dialog, service>>
  /\ StartListing
  /\ UNCHANGED <<rules, editor, listed, selected, inspection, inputs>>

-----------------------------------------------------------------------------
User ==
  \/ \E r \in Rules : ChangeRules(r) \/ TypeInRule(r)
  \/ \E s \in Sources : OpenOverride(s) \/ ExcludeSource(s)
  \/ \E kept \in BOOLEAN : SaveOverride(kept)
  \/ \E paths \in SUBSET Sources : SelectSources(paths)
  \/ DropTooManySources
  \/ RefreshLedger \/ \E e \in Entries : SelectEntry(e)
  \/ \E kind \in {"recovery", "undo"} : InspectSelected(kind)
  \/ AskApply \/ \E action \in Actions : AskRecoveryOrUndo(action)
  \/ AskCancel \/ Dismiss \/ Confirm

Workers ==
  \/ AdmitSources \/ PlanAdmission \/ PreviewRules \/ WorkOnLedger
  \/ BeginMutation \/ FinishMutation

Polls == PollAdmission \/ PollPlanning \/ PollSnapshot \/ PollInspection \/ PollMutation

Next == User \/ Workers \/ Polls

Spec == Init /\ [][Next]_vars

\* Workers run and end, and as long as one runs or a preview is due, the
\* shell asks for the next frame and polls in it.
FairSpec ==
  /\ Spec
  /\ WF_vars(AdmitSources) /\ WF_vars(PlanAdmission) /\ WF_vars(PreviewRules)
  /\ WF_vars(PollAdmission) /\ WF_vars(PollPlanning)

-----------------------------------------------------------------------------
\* The overrides a finished rename gave up may come back with the preview
\* that was being made of them (lib.rs:3796), but not those the user removed.
AreOnTheScreen(chosen) == chosen = overrides \/ (overrides = {} /\ chosen = givenUp)

Explains(p) == p.rules = rules /\ p.sources = registry /\ AreOnTheScreen(p.overrides)

\* The Apply button is only offered for a plan of the rules on the screen
\* and of all sources admitted, however edits, selections, exclusions and
\* late answers overlapped (lib.rs:5462, 3040, 2896).
OfferedPlanIsUpToDate == CanApply => Explains(plan)

\* The user confirms the plan that is shown, and it is still up to date: no
\* edit, no late answer and no finished operation changes what an open
\* confirmation is about (lib.rs:2995, 5914).
ConfirmedPlanIsShown == dialog.kind = "apply" => dialog.plan = plan /\ Explains(plan)

\* An edit of the rules reaches the preview or an error does, although
\* every selection in between takes the preview's turn away (lib.rs:2839,
\* 2915).
EditsArePreviewed ==
  (plan # None /\ plan.rules # rules)
    ~> (plan = None \/ plan.rules = rules \/ status = "error")

\* An entry selected while a worker runs is admitted in its turn, whichever
\* worker ends last (lib.rs:3072).
QueuedSelectionsAreTaken ==
  \A s \in Sources : s \in queued ~> (admission # None /\ s \in admission.paths)

\* What the user confirms for a transaction of the ledger, he asked for
\* with that transaction selected (README.md:141).
ReviewedIsSelected ==
  [][dialog' # dialog /\ dialog'.kind \in Actions => dialog'.entry = selected]_vars
===============================================================================

------------------------------ MODULE ShellProofs ------------------------------
(***************************************************************************)
(* Proofs that the plan a user can apply, and the one he is asked about,   *)
(* is the one on the screen and up to date, for any rules, sources and     *)
(* ledger entries and however many inputs he makes.                        *)
(***************************************************************************)
EXTENDS Shell, TLAPS

-----------------------------------------------------------------------------
(***************************************************************************)
(* The inductive invariant.                                                *)
(***************************************************************************)
\* A request made of the rules on the screen, and of the overrides unless a
\* rename has taken them since.
IsOfTheScreen(q) == q.rules = rules /\ AreOnTheScreen(q.overrides)

\* One worker at a time changes or reads the registry, and a fresh task
\* works for what is on the screen; while a plan is applied, without exception.
Workload ==
  /\ planning = None \/ admission = None
  /\ planning # None /\ planning.fresh => IsOfTheScreen(planning.request)
  /\ admission # None /\ admission.fresh => IsOfTheScreen(admission.request)
  /\ planning # None /\ planning.validating => plan = None
  /\ mutation # None /\ mutation.kind = "apply" =>
       /\ planning # None /\ planning.fresh => planning.request.overrides = overrides
       /\ admission # None /\ admission.fresh => admission.request.overrides = overrides

\* A fresh answer is a plan of the sources admitted now.
Answers ==
  /\ planning # None /\ planning.fresh /\ planning.ok => planning.done
  /\ planning # None /\ planning.fresh /\ planning.done /\ planning.ok /\ ~planning.validating
       => planning.plan = PlanFor(planning.request, registry)
  /\ admission # None /\ admission.fresh /\ admission.stage = "plan" => admission.seen = registry
  /\ admission # None /\ admission.stage # "done" => admission.plan = None
  /\ admission # None /\ admission.fresh /\ admission.plan # None
       => admission.plan = PlanFor(admission.request, registry)

\* Outside an admission, a plan that is current explains the screen.
CurrentPlanExplains == admission = None /\ current /\ plan # None => Explains(plan)

\* While the user is asked about a plan nothing runs that could replace it.
ApplyDialog ==
  dialog.kind = "apply" =>
    /\ planning = None /\ admission = None /\ queued = {} /\ ~due /\ mutation = None
    /\ plan # None /\ dialog.plan = plan /\ Explains(plan)

\* An inspection is of an entry, and a dialog of no kind is no dialog.
WellFormed ==
  /\ ledgerTask # None /\ ledgerTask.kind \in {"recovery", "undo"} => ledgerTask.entry \in Entries
  /\ dialog.kind = "none" => dialog = NoDialog

IInv ==
  /\ TypeOK /\ WellFormed
  /\ Workload /\ Answers /\ CurrentPlanExplains /\ ApplyDialog

-----------------------------------------------------------------------------
(***************************************************************************)
(* Types, variable by variable.                                            *)
(***************************************************************************)
RequestTyped ==
  rules \in Rules /\ overrides \in SUBSET Sources /\ givenUp \in SUBSET Sources
PreviewTyped ==
  plan \in Plans \cup {None} /\ current \in BOOLEAN /\ status \in {"ready", "updating", "error"}
TasksTyped ==
  /\ planning \in PlanningTasks \cup {None} /\ admission \in AdmissionTasks \cup {None}
  /\ queued \in SUBSET Sources /\ due \in BOOLEAN
LedgerTyped ==
  /\ listed \in SUBSET Entries /\ selected \in Entries \cup {None} /\ ledgerReady \in BOOLEAN
  /\ inspection \in Inspections \cup {None} /\ ledgerTask \in LedgerTasks \cup {None}
ServiceTyped == registry \in SUBSET Sources /\ latest \in Plans \cup {None}

Typed ==
  /\ RequestTyped /\ PreviewTyped /\ TasksTyped /\ LedgerTyped /\ ServiceTyped
  /\ editor \in Sources \cup {None} /\ dialog \in Dialogs
  /\ mutation \in Mutations \cup {None} /\ inputs \in 0..MaxInputs

\* The type invariant is that of its parts.
LEMMA TypesByPart == (TypeOK <=> Typed) /\ (Typed' => TypeOK')
  BY DEF Typed, TypeOK, RequestTyped, PreviewTyped, TasksTyped, LedgerTyped, ServiceTyped

\* A preview that is superseded stays one, and is not fresh.
LEMMA SupersededPlanning ==
  ASSUME planning \in PlanningTasks \cup {None}
  PROVE  /\ Superseded(planning) \in PlanningTasks \cup {None}
         /\ planning = None => Superseded(planning) = None
         /\ planning # None => /\ ~Superseded(planning).fresh
                               /\ Superseded(planning).validating = planning.validating
  BY DEF Superseded, PlanningTasks

\* An admission that is superseded stays one, and is not fresh.
LEMMA SupersededAdmission ==
  ASSUME admission \in AdmissionTasks \cup {None}
  PROVE  /\ Superseded(admission) \in AdmissionTasks \cup {None}
         /\ admission = None => Superseded(admission) = None
         /\ admission # None => /\ ~Superseded(admission).fresh
                                /\ Superseded(admission).stage = admission.stage
                                /\ Superseded(admission).plan = admission.plan
  BY DEF Superseded, AdmissionTasks

\* What Supersede leaves of a dialog is not about a plan.
LEMMA WithoutApplyIsNone ==
  ASSUME dialog \in Dialogs
  PROVE  WithoutApply \in Dialogs /\ WithoutApply.kind # "apply"
  BY DEF WithoutApply, NoDialog, Dialogs

\* refresh_plan keeps the types of what it changes.
LEMMA RefreshedPlan ==
  ASSUME Typed, NEW q \in Requests, RefreshPlan(q)
  PROVE  PreviewTyped' /\ TasksTyped' /\ dialog' \in Dialogs /\ ServiceTyped'
  <1>1. PlanFor(q, registry) \in Plans
    BY DEF Typed, ServiceTyped, Requests, Plans, PlanFor
  <1>2. PreviewTyped' /\ ServiceTyped'
    BY <1>1 DEF Typed, PreviewTyped, ServiceTyped, RefreshPlan, Validated, Refused, Shown
  <1>3. TasksTyped' /\ dialog' \in Dialogs
    BY SupersededPlanning, SupersededAdmission, WithoutApplyIsNone
    DEF Typed, TasksTyped, RefreshPlan, Supersede
  <1> QED BY <1>2, <1>3

\* An admission that starts is an admission.
LEMMA AdmissionTyped ==
  ASSUME Typed, NEW paths \in SUBSET Sources
  PROVE  AdmissionOf(paths) \in AdmissionTasks
  BY DEF Typed, RequestTyped, AdmissionOf, AdmissionTasks, Request, Requests

\* A ledger task that starts is a ledger task.
LEMMA LedgerTaskTyped ==
  ASSUME NEW kind \in {"initialize", "list", "recovery", "undo"},
         NEW entry \in Entries \cup {None}
  PROVE  LedgerTaskOf(kind, entry) \in LedgerTasks
  BY DEF LedgerTaskOf, LedgerTasks

\* The parts of the types that a step leaves alone.
LEMMA PartsStay ==
  ASSUME Typed
  PROVE  /\ UNCHANGED request => RequestTyped'
         /\ UNCHANGED preview => PreviewTyped'
         /\ UNCHANGED tasks   => TasksTyped'
         /\ UNCHANGED ledger  => LedgerTyped'
         /\ UNCHANGED service => ServiceTyped'
  <1> USE DEF Typed
  <1>1. UNCHANGED request => RequestTyped'
    BY DEF request, RequestTyped
  <1>2. UNCHANGED preview => PreviewTyped'
    BY DEF preview, PreviewTyped
  <1>3. UNCHANGED tasks => TasksTyped'
    BY DEF tasks, TasksTyped
  <1>4. UNCHANGED ledger => LedgerTyped'
    BY DEF ledger, LedgerTyped
  <1>5. UNCHANGED service => ServiceTyped'
    BY DEF service, ServiceTyped
  <1> QED BY <1>1, <1>2, <1>3, <1>4, <1>5, Zenon

\* Every step keeps the types.
LEMMA TypesStay ==
  ASSUME IInv, Next
  PROVE  Typed'
  <1> USE DEF request, preview, tasks, ledger, service
  <1>a. Typed /\ WellFormed
    BY TypesByPart, Zenon DEF IInv
  <1>b. /\ RequestTyped /\ PreviewTyped /\ TasksTyped /\ LedgerTyped /\ ServiceTyped
        /\ editor \in Sources \cup {None} /\ dialog \in Dialogs
        /\ mutation \in Mutations \cup {None} /\ inputs \in 0..MaxInputs
    BY <1>a, Zenon DEF Typed
  <1>c. Input => inputs' \in 0..MaxInputs
    BY <1>b, ShellAssumption DEF Input
  <1>d. /\ Superseded(planning) \in PlanningTasks \cup {None}
        /\ Superseded(admission) \in AdmissionTasks \cup {None}
        /\ WithoutApply \in Dialogs
    BY <1>b, SupersededPlanning, SupersededAdmission, WithoutApplyIsNone DEF TasksTyped
  <1>1. CASE \E r \in Rules : ChangeRules(r)
    <2>1. PICK r \in Rules : ChangeRules(r)
      BY <1>1
    <2>2. Request(r, overrides) \in Requests
      BY <1>b DEF RequestTyped, Request, Requests
    <2>3. PreviewTyped' /\ TasksTyped' /\ dialog' \in Dialogs /\ ServiceTyped'
      BY <1>a, <2>1, <2>2, RefreshedPlan, Zenon DEF ChangeRules
    <2> QED BY <1>b, <1>c, <2>1, <2>3 DEF ChangeRules, Typed, RequestTyped, LedgerTyped
  <1>2. CASE \E r \in Rules : TypeInRule(r)
    BY <1>2, <1>b, <1>c, <1>d DEF TypeInRule, Supersede, Typed, RequestTyped,
       PreviewTyped, TasksTyped, LedgerTyped, ServiceTyped
  <1>3. CASE \E s \in Sources : OpenOverride(s)
    BY <1>3, <1>b, <1>c DEF OpenOverride, Typed, RequestTyped, PreviewTyped,
       TasksTyped, LedgerTyped, ServiceTyped
  <1>4. CASE \E s \in Sources : ExcludeSource(s)
    <2>1. PICK s \in Sources : ExcludeSource(s)
      BY <1>4
    <2>2. overrides' \in SUBSET Sources /\ registry' \in SUBSET Sources
      BY <1>b, <2>1 DEF ExcludeSource, RequestTyped, ServiceTyped, Request
    <2>3. PlanFor(Request(rules, overrides \ {s}), registry') \in Plans
      BY <1>b, <2>2 DEF RequestTyped, PlanFor, Plans, Request
    <2>4. PreviewTyped' /\ latest' \in Plans \cup {None}
      BY <1>b, <2>1, <2>3 DEF ExcludeSource, Refused, Shown, PreviewTyped, ServiceTyped
    <2>5. TasksTyped' /\ dialog' \in Dialogs
      BY <1>b, <1>d, <2>1 DEF ExcludeSource, Supersede, TasksTyped
    <2>6. /\ rules' = rules /\ givenUp' = {}
          /\ UNCHANGED <<editor, ledger, mutation>> /\ Input
      BY <2>1, Zenon DEF ExcludeSource
    <2> QED BY <1>b, <1>c, <2>2, <2>4, <2>5, <2>6
            DEF Typed, RequestTyped, LedgerTyped, ServiceTyped
  <1>5. CASE \E kept \in BOOLEAN : SaveOverride(kept)
    <2>1. PICK kept \in BOOLEAN : SaveOverride(kept)
      BY <1>5
    <2>2. overrides' \in SUBSET Sources /\ Request(rules, overrides') \in Requests
      BY <1>b, <2>1 DEF SaveOverride, RequestTyped, Request, Requests
    <2>3. PreviewTyped' /\ TasksTyped' /\ dialog' \in Dialogs /\ ServiceTyped'
      BY <1>a, <2>1, <2>2, RefreshedPlan, Zenon DEF SaveOverride
    <2>4. /\ rules' = rules /\ givenUp' = {} /\ editor' = None
          /\ UNCHANGED ledger /\ mutation' = mutation /\ Input
      BY <2>1, Zenon DEF SaveOverride
    <2>5. RequestTyped' /\ LedgerTyped'
      BY <1>b, <2>2, <2>4 DEF RequestTyped, LedgerTyped
    <2> QED BY <1>b, <1>c, <2>3, <2>4, <2>5 DEF Typed
  <1>6. CASE \E paths \in SUBSET Sources : SelectSources(paths)
    <2>1. PICK paths \in SUBSET Sources : SelectSources(paths)
      BY <1>6
    <2>2. TasksTyped' /\ dialog' \in Dialogs
      BY <1>a, <1>b, <1>d, <2>1, AdmissionTyped DEF SelectSources, TasksTyped
    <2>3. PreviewTyped' /\ Input
      BY <1>b, <2>1 DEF SelectSources, PreviewTyped
    <2>4. /\ UNCHANGED request /\ UNCHANGED ledger /\ UNCHANGED service
          /\ UNCHANGED <<editor, mutation>>
      BY <2>1, Zenon DEF SelectSources
    <2>5. RequestTyped' /\ LedgerTyped' /\ ServiceTyped'
      <3> HIDE DEF request, ledger, service
      <3> QED BY <1>a, <2>4, PartsStay
    <2> QED BY <1>b, <1>c, <2>2, <2>3, <2>4, <2>5 DEF Typed
  <1>7. CASE DropTooManySources
    <2>1. /\ UNCHANGED request /\ UNCHANGED tasks /\ UNCHANGED ledger /\ UNCHANGED service
          /\ UNCHANGED <<editor, dialog, mutation>> /\ Input
      BY <1>7, Zenon DEF DropTooManySources
    <2>2. RequestTyped' /\ TasksTyped' /\ LedgerTyped' /\ ServiceTyped'
      <3> HIDE DEF request, tasks, ledger, service
      <3> QED BY <1>a, <2>1, PartsStay
    <2>3. PreviewTyped'
      BY <1>7, <1>b DEF DropTooManySources, Refused, PreviewTyped
    <2> QED BY <1>b, <1>c, <2>1, <2>2, <2>3 DEF Typed
  <1>8. CASE RefreshLedger
    <2>1. LedgerTyped'
      BY <1>8, <1>b, LedgerTaskTyped DEF RefreshLedger, StartListing, LedgerTyped
    <2> QED BY <1>8, <1>b, <1>c, <2>1
            DEF RefreshLedger, Typed, RequestTyped, PreviewTyped, TasksTyped, ServiceTyped
  <1>9. CASE \E e \in Entries : SelectEntry(e)
    BY <1>9, <1>b, <1>c DEF SelectEntry, Typed, RequestTyped, PreviewTyped,
       TasksTyped, LedgerTyped, ServiceTyped
  <1>10. CASE \E kind \in {"recovery", "undo"} : InspectSelected(kind)
    <2>1. LedgerTyped'
      BY <1>10, <1>b, LedgerTaskTyped DEF InspectSelected, LedgerTyped
    <2> QED BY <1>10, <1>b, <1>c, <2>1
            DEF InspectSelected, Typed, RequestTyped, PreviewTyped, TasksTyped, ServiceTyped
  <1>11. CASE AskApply
    <2>1. dialog' \in Dialogs /\ Input
      BY <1>11, <1>b DEF AskApply, Ask, NoDialog, Dialogs, PreviewTyped
    <2>2. UNCHANGED <<request, preview, tasks, editor, ledger, mutation, service>>
      BY <1>11, Zenon DEF AskApply, Ask
    <2> QED BY <1>b, <1>c, <2>1, <2>2
            DEF Typed, RequestTyped, PreviewTyped, TasksTyped, LedgerTyped, ServiceTyped
  <1>12. CASE \E action \in Actions : AskRecoveryOrUndo(action)
    <2>1. dialog' \in Dialogs /\ Input
      BY <1>12, <1>b DEF AskRecoveryOrUndo, Ask, NoDialog, Dialogs, Inspections, LedgerTyped
    <2>2. UNCHANGED <<request, preview, tasks, editor, ledger, mutation, service>>
      BY <1>12, Zenon DEF AskRecoveryOrUndo, Ask
    <2> QED BY <1>b, <1>c, <2>1, <2>2
            DEF Typed, RequestTyped, PreviewTyped, TasksTyped, LedgerTyped, ServiceTyped
  <1>13. CASE AskCancel
    <2>1. dialog' \in Dialogs /\ Input
      BY <1>13, <1>b DEF AskCancel, Ask, NoDialog, Dialogs
    <2>2. UNCHANGED <<request, preview, tasks, editor, ledger, mutation, service>>
      BY <1>13, Zenon DEF AskCancel, Ask
    <2> QED BY <1>b, <1>c, <2>1, <2>2
            DEF Typed, RequestTyped, PreviewTyped, TasksTyped, LedgerTyped, ServiceTyped
  <1>14. CASE Dismiss
    <2>1. dialog' \in Dialogs /\ Input
      BY <1>14, <1>b DEF Dismiss, Ask, NoDialog, Dialogs
    <2>2. UNCHANGED <<request, preview, tasks, editor, ledger, mutation, service>>
      BY <1>14, Zenon DEF Dismiss, Ask
    <2> QED BY <1>b, <1>c, <2>1, <2>2
            DEF Typed, RequestTyped, PreviewTyped, TasksTyped, LedgerTyped, ServiceTyped
  <1>15. CASE Confirm
    <2>1. dialog' \in Dialogs
      BY <1>15 DEF Confirm, NoDialog, Dialogs
    <2>2. mutation' \in Mutations \cup {None}
      BY <1>15, <1>a, <1>b DEF Confirm, WellFormed, NoDialog, Dialogs, Mutations
    <2>3. /\ UNCHANGED request /\ UNCHANGED preview /\ UNCHANGED tasks /\ UNCHANGED ledger
          /\ UNCHANGED service /\ UNCHANGED editor /\ Input
      BY <1>15 DEF Confirm
    <2>4. RequestTyped' /\ PreviewTyped' /\ TasksTyped' /\ LedgerTyped' /\ ServiceTyped'
      <3> HIDE DEF request, preview, tasks, ledger, service
      <3> QED BY <1>a, <2>3, PartsStay
    <2> QED BY <1>b, <1>c, <2>1, <2>2, <2>3, <2>4 DEF Typed
  <1>16. CASE AdmitSources
    <2>1. registry' \in SUBSET Sources
      BY <1>16, <1>b DEF AdmitSources, AdmissionTasks, TasksTyped, ServiceTyped
    <2>2. admission' \in AdmissionTasks
      BY <1>16, <1>b, <2>1 DEF AdmitSources, AdmissionTasks, TasksTyped
    <2>3. UNCHANGED <<request, preview, planning, queued, due, editor, ledger, dialog, mutation,
                      latest, inputs>>
      BY <1>16, Zenon DEF AdmitSources
    <2> QED BY <1>b, <2>1, <2>2, <2>3
            DEF Typed, RequestTyped, PreviewTyped, TasksTyped, LedgerTyped, ServiceTyped
  <1>17. CASE PlanAdmission
    <2>1. PlanFor(admission.request, admission.seen) \in Plans
      BY <1>17, <1>b DEF PlanAdmission, PlanFor, Plans, AdmissionTasks, Requests, TasksTyped
    <2>2. admission' \in AdmissionTasks
      BY <1>17, <1>b, <2>1 DEF PlanAdmission, AdmissionTasks, TasksTyped
    <2>3. latest' \in Plans \cup {None}
      BY <1>17, <1>b, <2>1 DEF PlanAdmission, ServiceTyped
    <2>4. UNCHANGED <<request, preview, planning, queued, due, editor, ledger, dialog, mutation,
                      registry, inputs>>
      BY <1>17, Zenon DEF PlanAdmission
    <2> QED BY <1>b, <2>2, <2>3, <2>4
            DEF Typed, RequestTyped, PreviewTyped, TasksTyped, LedgerTyped, ServiceTyped
  <1>18. CASE PreviewRules
    <2>1. PlanFor(planning.request, registry) \in Plans
      BY <1>18, <1>b
      DEF PreviewRules, PlanFor, Plans, PlanningTasks, Requests, TasksTyped, ServiceTyped
    <2>2. planning' \in PlanningTasks
      BY <1>18, <1>b, <2>1 DEF PreviewRules, PlanningTasks, TasksTyped, Compiles
    <2>3. latest' \in Plans \cup {None}
      BY <1>18, <1>b, <2>1 DEF PreviewRules, ServiceTyped
    <2>4. UNCHANGED <<request, preview, admission, queued, due, editor, ledger, dialog, mutation,
                      registry, inputs>>
      BY <1>18, Zenon DEF PreviewRules
    <2> QED BY <1>b, <2>2, <2>3, <2>4
            DEF Typed, RequestTyped, PreviewTyped, TasksTyped, LedgerTyped, ServiceTyped
  <1>19. CASE WorkOnLedger
    <2>1. ledgerTask' \in LedgerTasks
      BY <1>19, <1>b DEF WorkOnLedger, LedgerTasks, LedgerTyped
    <2>2. latest' \in Plans \cup {None}
      BY <1>19, <1>b DEF WorkOnLedger, ServiceTyped
    <2>3. UNCHANGED <<request, preview, tasks, editor, listed, selected, inspection, ledgerReady,
                      dialog, mutation, registry, inputs>>
      BY <1>19, Zenon DEF WorkOnLedger
    <2> QED BY <1>b, <2>1, <2>2, <2>3
            DEF Typed, RequestTyped, PreviewTyped, TasksTyped, LedgerTyped, ServiceTyped
  <1>20. CASE BeginMutation
    <2>1. mutation' \in Mutations
      BY <1>20, <1>b DEF BeginMutation, Mutations
    <2>2. latest' \in Plans \cup {None}
      BY <1>20, <1>b DEF BeginMutation, ServiceTyped
    <2>3. UNCHANGED <<request, preview, tasks, editor, ledger, dialog, registry, inputs>>
      BY <1>20, Zenon DEF BeginMutation
    <2> QED BY <1>b, <2>1, <2>2, <2>3
            DEF Typed, RequestTyped, PreviewTyped, TasksTyped, LedgerTyped, ServiceTyped
  <1>21. CASE FinishMutation
    <2>1. mutation' \in Mutations
      BY <1>21, <1>b DEF FinishMutation, Mutations
    <2>2. /\ UNCHANGED request /\ UNCHANGED preview /\ UNCHANGED tasks /\ UNCHANGED ledger
          /\ UNCHANGED service /\ UNCHANGED <<editor, dialog, inputs>>
      BY <1>21 DEF FinishMutation
    <2>3. RequestTyped' /\ PreviewTyped' /\ TasksTyped' /\ LedgerTyped' /\ ServiceTyped'
      <3> HIDE DEF request, preview, tasks, ledger, service
      <3> QED BY <1>a, <2>2, PartsStay
    <2> QED BY <1>b, <2>1, <2>2, <2>3 DEF Typed
  <1>22. CASE PollAdmission
    BY <1>22, <1>b, <1>c, <1>d, <1>a, AdmissionTyped DEF PollAdmission,
       AdmissionTasks, Typed, RequestTyped, PreviewTyped, TasksTyped, LedgerTyped,
       ServiceTyped
  <1>23. CASE PollPlanning
    <2>1. /\ Answer[1] \in Plans \cup {None} /\ Answer[2] \in BOOLEAN
          /\ Answer[3] \in {"ready", "updating", "error"}
      BY <1>b DEF Answer, Answered, PreviewTyped, TasksTyped, PlanningTasks
    <2>2. PlanningOf(Answer[1]) \in PlanningTasks
      BY <1>b DEF PlanningOf, PlanningTasks, RequestTyped, Request, Requests
    <2>3. PreviewTyped'
      BY <1>23, <2>1 DEF PollPlanning, PreviewTyped
    <2>4. planning' \in PlanningTasks \cup {None} /\ due' \in BOOLEAN
      BY <1>23, <1>b, <2>2 DEF PollPlanning, TasksTyped
    <2>5. admission' \in AdmissionTasks \cup {None} /\ queued' \in SUBSET Sources
      BY <1>23, <1>a, <1>b, AdmissionTyped DEF PollPlanning, TasksTyped
    <2>6. dialog' \in Dialogs
      BY <1>23, <1>b, <1>d DEF PollPlanning
    <2>7. UNCHANGED <<request, editor, ledger, mutation, service, inputs>>
      BY <1>23, Zenon DEF PollPlanning
    <2> QED BY <1>b, <2>3, <2>4, <2>5, <2>6, <2>7
            DEF Typed, RequestTyped, TasksTyped, LedgerTyped, ServiceTyped
  <1>24. CASE PollSnapshot
    <2>1. LedgerTyped'
      BY <1>24, <1>b DEF PollSnapshot, LedgerTyped, LedgerTasks
    <2>2. PreviewTyped' /\ TasksTyped' /\ dialog' \in Dialogs /\ ServiceTyped'
      <3>1. CASE RefreshPlan(Request(rules, overrides))
        <4>1. Request(rules, overrides) \in Requests
          BY <1>b DEF RequestTyped, Request, Requests
        <4> QED BY <1>a, <3>1, <4>1, RefreshedPlan
      <3>2. CASE UNCHANGED <<preview, tasks, dialog, service>>
        BY <1>b, <3>2, Zenon DEF PreviewTyped, TasksTyped, ServiceTyped
      <3> QED BY <1>24, <3>1, <3>2, Zenon DEF PollSnapshot
    <2> QED BY <1>24, <1>b, <2>1, <2>2, Zenon DEF PollSnapshot, Typed, RequestTyped
  <1>25. CASE PollInspection
    BY <1>25, <1>b, <1>c, <1>a DEF PollInspection, LedgerTasks, Inspections,
       WellFormed, Typed, RequestTyped, PreviewTyped, TasksTyped, LedgerTyped,
       ServiceTyped
  <1>26. CASE PollMutation
    <2>1. LedgerTyped'
      BY <1>26, <1>b, LedgerTaskTyped DEF PollMutation, StartListing, LedgerTyped
    <2>2. RequestTyped' /\ mutation' = None
      BY <1>26, <1>b DEF PollMutation, RequestTyped
    <2>3. PreviewTyped' /\ TasksTyped' /\ dialog' \in Dialogs /\ ServiceTyped'
      <3>1. CASE RefreshPlan(Request(rules, overrides))
        <4>1. Request(rules, overrides) \in Requests
          BY <1>b DEF RequestTyped, Request, Requests
        <4> QED BY <1>a, <3>1, <4>1, RefreshedPlan
      <3>2. CASE UNCHANGED <<preview, tasks, dialog, service>>
        BY <1>b, <3>2, Zenon DEF PreviewTyped, TasksTyped, ServiceTyped
      <3>3. CASE /\ plan' = None /\ status' = "ready" /\ current' = current
                 /\ UNCHANGED <<tasks, dialog, service>>
        BY <1>b, <3>3 DEF PreviewTyped, TasksTyped, ServiceTyped
      <3> QED BY <1>26, <3>1, <3>2, <3>3, Zenon DEF PollMutation
    <2> QED BY <1>26, <1>b, <2>1, <2>2, <2>3 DEF PollMutation, Typed
  <1> QED
    BY <1>1, <1>2, <1>3, <1>4, <1>5, <1>6, <1>7, <1>8, <1>9, <1>10, <1>11, <1>12,
       <1>13, <1>14, <1>15, <1>16, <1>17, <1>18, <1>19, <1>20, <1>21, <1>22, <1>23,
       <1>24, <1>25, <1>26, Zenon DEF Next, User, Workers, Polls

-----------------------------------------------------------------------------
(***************************************************************************)
(* What the types leave open.                                              *)
(***************************************************************************)
\* Every step keeps inspections to entries, and dialogs of a kind.
LEMMA WellFormedStays ==
  ASSUME IInv, Next
  PROVE  WellFormed'
  <1> USE DEF ledger, tasks
  <1>a. WellFormed /\ dialog \in Dialogs /\ LedgerTyped
    BY TypesByPart, Zenon DEF IInv, Typed
  <1>b. WithoutApply.kind = "none" => WithoutApply = NoDialog
    BY <1>a DEF WithoutApply, WellFormed
  <1>1. CASE \E r \in Rules : ChangeRules(r)
    BY <1>1, <1>a, <1>b DEF ChangeRules, RefreshPlan, Supersede, WellFormed
  <1>2. CASE \E r \in Rules : TypeInRule(r)
    BY <1>2, <1>a, <1>b DEF TypeInRule, Supersede, WellFormed
  <1>3. CASE \E s \in Sources : OpenOverride(s)
    BY <1>3, <1>a DEF OpenOverride, WellFormed
  <1>4. CASE \E s \in Sources : ExcludeSource(s)
    BY <1>4, <1>a, <1>b DEF ExcludeSource, Supersede, WellFormed
  <1>5. CASE \E kept \in BOOLEAN : SaveOverride(kept)
    BY <1>5, <1>a, <1>b DEF SaveOverride, RefreshPlan, Supersede, WellFormed
  <1>6. CASE \E paths \in SUBSET Sources : SelectSources(paths)
    BY <1>6, <1>a, <1>b DEF SelectSources, WellFormed
  <1>7. CASE DropTooManySources
    BY <1>7, <1>a DEF DropTooManySources, WellFormed
  <1>8. CASE RefreshLedger
    BY <1>8, <1>a DEF RefreshLedger, StartListing, LedgerTaskOf, WellFormed
  <1>9. CASE \E e \in Entries : SelectEntry(e)
    BY <1>9, <1>a DEF SelectEntry, WellFormed
  <1>10. CASE \E kind \in {"recovery", "undo"} : InspectSelected(kind)
    BY <1>10, <1>a DEF InspectSelected, LedgerTaskOf, LedgerTyped, WellFormed
  <1>11. CASE AskApply
    BY <1>11, <1>a DEF AskApply, Ask, NoDialog, Dialogs, WellFormed
  <1>12. CASE \E action \in Actions : AskRecoveryOrUndo(action)
    BY <1>12, <1>a DEF AskRecoveryOrUndo, Ask, NoDialog, Actions, WellFormed
  <1>13. CASE AskCancel
    BY <1>13, <1>a DEF AskCancel, Ask, NoDialog, WellFormed
  <1>14. CASE Dismiss
    BY <1>14, <1>a DEF Dismiss, Ask, WellFormed
  <1>15. CASE Confirm
    BY <1>15, <1>a DEF Confirm, WellFormed
  <1>16. CASE AdmitSources
    BY <1>16, <1>a DEF AdmitSources, WellFormed
  <1>17. CASE PlanAdmission
    BY <1>17, <1>a DEF PlanAdmission, WellFormed
  <1>18. CASE PreviewRules
    BY <1>18, <1>a DEF PreviewRules, WellFormed
  <1>19. CASE WorkOnLedger
    BY <1>19, <1>a DEF WorkOnLedger, LedgerTyped, LedgerTasks, WellFormed
  <1>20. CASE BeginMutation
    BY <1>20, <1>a DEF BeginMutation, WellFormed
  <1>21. CASE FinishMutation
    BY <1>21, <1>a DEF FinishMutation, WellFormed
  <1>22. CASE PollAdmission
    BY <1>22, <1>a, <1>b DEF PollAdmission, WellFormed
  <1>23. CASE PollPlanning
    BY <1>23, <1>a, <1>b DEF PollPlanning, WellFormed
  <1>24. CASE PollSnapshot
    BY <1>24, <1>a, <1>b DEF PollSnapshot, RefreshPlan, Supersede, WellFormed
  <1>25. CASE PollInspection
    BY <1>25, <1>a DEF PollInspection, WellFormed
  <1>26. CASE PollMutation
    BY <1>26, <1>a, <1>b DEF PollMutation, RefreshPlan, Supersede, StartListing,
       LedgerTaskOf, WellFormed
  <1> QED
    BY <1>1, <1>2, <1>3, <1>4, <1>5, <1>6, <1>7, <1>8, <1>9, <1>10, <1>11, <1>12,
       <1>13, <1>14, <1>15, <1>16, <1>17, <1>18, <1>19, <1>20, <1>21, <1>22, <1>23,
       <1>24, <1>25, <1>26, Zenon DEF Next, User, Workers, Polls

-----------------------------------------------------------------------------
(***************************************************************************)
(* The plan, the answers that become it, and the confirmation.             *)
(***************************************************************************)
\* After refresh_plan the preview is of the new rules and overrides, running
\* tasks are out of date, and nothing is about to be applied.
LEMMA RefreshedPlanIsUpToDate ==
  ASSUME IInv, RefreshPlan(Request(rules', overrides'))
  PROVE  Workload' /\ Answers' /\ CurrentPlanExplains' /\ ApplyDialog'
  <1> USE DEF AreOnTheScreen
  <1>a. Typed /\ Workload /\ Answers
    BY TypesByPart, Zenon DEF IInv
  <1>b. /\ planning' = Superseded(planning) /\ admission' = Superseded(admission)
        /\ dialog' = WithoutApply
    BY DEF RefreshPlan, Supersede
  <1>c. /\ planning' # None => planning # None /\ ~planning'.fresh
                             /\ planning'.validating = planning.validating
        /\ admission' # None => /\ admission # None /\ ~admission'.fresh
                                /\ admission'.stage = admission.stage
                                /\ admission'.plan = admission.plan
        /\ dialog'.kind # "apply"
    BY <1>a, <1>b, SupersededPlanning, SupersededAdmission, WithoutApplyIsNone
    DEF Typed, TasksTyped
  <1>d. plan = None => plan' = None
    BY DEF RefreshPlan, Validated, Refused
  <1>1. Workload'
    BY <1>a, <1>c, <1>d DEF Workload
  <1>2. Answers'
    BY <1>a, <1>c DEF Answers
  <1>3. CurrentPlanExplains'
    <2>1. current' /\ plan' # None => plan' = PlanFor(Request(rules', overrides'), registry')
      BY DEF RefreshPlan, Shown, Validated, Refused
    <2> QED BY <2>1 DEF CurrentPlanExplains, Explains, PlanFor, Request
  <1>4. ApplyDialog'
    BY <1>c DEF ApplyDialog
  <1> QED BY <1>1, <1>2, <1>3, <1>4

\* Every step keeps the plan, the answers and the confirmation in line.
LEMMA PlansStay ==
  ASSUME IInv, Next
  PROVE  Workload' /\ Answers' /\ CurrentPlanExplains' /\ ApplyDialog'
  <1> USE DEF request, preview, tasks, service, ledger, AreOnTheScreen
  <1>a. Workload /\ Answers /\ CurrentPlanExplains /\ ApplyDialog
    BY Zenon DEF IInv
  <1>b. TasksTyped /\ dialog \in Dialogs /\ mutation \in Mutations \cup {None}
    BY TypesByPart, Zenon DEF IInv, Typed
  <1>c. ServiceTyped
    BY TypesByPart, Zenon DEF IInv, Typed
  <1>d. Superseded(planning) # None => /\ planning # None /\ ~Superseded(planning).fresh
                                       /\ Superseded(planning).validating = planning.validating
    BY <1>b, SupersededPlanning DEF TasksTyped
  <1>e. Superseded(admission) # None => /\ admission # None /\ ~Superseded(admission).fresh
                                        /\ Superseded(admission).stage = admission.stage
                                        /\ Superseded(admission).plan = admission.plan
    BY <1>b, SupersededAdmission DEF TasksTyped
  <1>f. WithoutApply.kind # "apply"
    BY <1>b, WithoutApplyIsNone
  <1>s. UNCHANGED <<rules, overrides, givenUp, plan, current, due, planning, admission, queued, registry,
                    dialog, mutation>>
           => Workload' /\ Answers' /\ CurrentPlanExplains' /\ ApplyDialog'
    <2> SUFFICES ASSUME UNCHANGED <<rules, overrides, givenUp, plan, current, due, planning, admission,
                                    queued, registry, dialog, mutation>>
                 PROVE  Workload' /\ Answers' /\ CurrentPlanExplains' /\ ApplyDialog'
      OBVIOUS
    <2>1. Workload'
      BY <1>a DEF Workload, IsOfTheScreen
    <2>2. Answers'
      BY <1>a DEF Answers, PlanFor
    <2>3. CurrentPlanExplains'
      BY <1>a DEF CurrentPlanExplains, Explains
    <2>4. ApplyDialog'
      BY <1>a DEF ApplyDialog, Explains
    <2> QED BY <2>1, <2>2, <2>3, <2>4
  <1>1. CASE \E r \in Rules : ChangeRules(r)
    <2>1. RefreshPlan(Request(rules', overrides'))
      BY <1>1 DEF ChangeRules
    <2> QED BY <2>1, RefreshedPlanIsUpToDate
  <1>2. CASE \E r \in Rules : TypeInRule(r)
    <2>1. Workload'
      BY <1>2, <1>a, <1>d, <1>e, <1>f DEF TypeInRule, Supersede, Workload,
         IsOfTheScreen
    <2>2. Answers'
      BY <1>2, <1>a, <1>d, <1>e, <1>f DEF TypeInRule, Supersede, Answers, PlanFor
    <2>3. CurrentPlanExplains'
      BY <1>2, <1>a, <1>d, <1>e, <1>f DEF TypeInRule, Supersede, CurrentPlanExplains,
         Explains
    <2>4. ApplyDialog'
      BY <1>2, <1>a, <1>d, <1>e, <1>f DEF TypeInRule, Supersede, ApplyDialog, Explains
    <2> QED BY <2>1, <2>2, <2>3, <2>4
  <1>3. CASE \E s \in Sources : OpenOverride(s)
    BY <1>3, <1>s DEF OpenOverride
  <1>4. CASE \E s \in Sources : ExcludeSource(s)
    <2>1. Workload'
      BY <1>4, <1>a, <1>d, <1>e, <1>f DEF ExcludeSource, Supersede, Shown, Refused,
         Workload, IsOfTheScreen
    <2>2. Answers'
      BY <1>4, <1>a, <1>d, <1>e, <1>f DEF ExcludeSource, Supersede, Shown, Refused,
         Answers, PlanFor
    <2>3. CurrentPlanExplains'
      BY <1>4, <1>a, <1>d, <1>e, <1>f DEF ExcludeSource, Supersede, Shown, Refused,
         CurrentPlanExplains, Explains, PlanFor, Request
    <2>4. ApplyDialog'
      BY <1>4, <1>a, <1>d, <1>e, <1>f DEF ExcludeSource, Supersede, Shown, Refused,
         ApplyDialog, Explains
    <2> QED BY <2>1, <2>2, <2>3, <2>4
  <1>5. CASE \E kept \in BOOLEAN : SaveOverride(kept)
    <2>1. RefreshPlan(Request(rules', overrides'))
      BY <1>5 DEF SaveOverride
    <2> QED BY <2>1, RefreshedPlanIsUpToDate
  <1>6. CASE \E paths \in SUBSET Sources : SelectSources(paths)
    <2>1. Workload'
      BY <1>6, <1>a, <1>d, <1>e, <1>f DEF SelectSources, Workload, IsOfTheScreen,
         AdmissionOf, Request
    <2>2. Answers'
      BY <1>6, <1>a, <1>d, <1>e, <1>f DEF SelectSources, Answers, PlanFor, AdmissionOf
    <2>3. CurrentPlanExplains'
      BY <1>6, <1>a, <1>d, <1>e, <1>f DEF SelectSources, CurrentPlanExplains, Explains
    <2>4. ApplyDialog'
      BY <1>6, <1>a, <1>d, <1>e, <1>f DEF SelectSources, ApplyDialog, Explains
    <2> QED BY <2>1, <2>2, <2>3, <2>4
  <1>7. CASE DropTooManySources
    <2>1. Workload'
      BY <1>7, <1>a DEF DropTooManySources, Refused, Workload, IsOfTheScreen
    <2>2. Answers'
      BY <1>7, <1>a DEF DropTooManySources, Refused, Answers, PlanFor
    <2>3. CurrentPlanExplains'
      BY <1>7, <1>a DEF DropTooManySources, Refused, CurrentPlanExplains, Explains
    <2>4. ApplyDialog'
      BY <1>7, <1>a DEF DropTooManySources, Refused, ApplyDialog, Explains
    <2> QED BY <2>1, <2>2, <2>3, <2>4
  <1>8. CASE RefreshLedger
    BY <1>8, <1>s DEF RefreshLedger, StartListing
  <1>9. CASE \E e \in Entries : SelectEntry(e)
    BY <1>9, <1>s DEF SelectEntry
  <1>10. CASE \E kind \in {"recovery", "undo"} : InspectSelected(kind)
    BY <1>10, <1>s DEF InspectSelected
  <1>11. CASE AskApply
    <2>1. Workload'
      BY <1>11, <1>a DEF AskApply, Ask, NoDialog, Workload, IsOfTheScreen
    <2>2. Answers'
      BY <1>11, <1>a DEF AskApply, Ask, NoDialog, Answers, PlanFor
    <2>3. CurrentPlanExplains'
      BY <1>11, <1>a DEF AskApply, Ask, NoDialog, CurrentPlanExplains, Explains
    <2>4. ApplyDialog'
      BY <1>11, <1>a DEF AskApply, Ask, NoDialog, ApplyDialog, Explains, CanApply,
         MutationIdle, CurrentPlanExplains
    <2> QED BY <2>1, <2>2, <2>3, <2>4
  <1>12. CASE \E action \in Actions : AskRecoveryOrUndo(action)
    <2>1. Workload'
      BY <1>12, <1>a DEF AskRecoveryOrUndo, Ask, NoDialog, Workload, IsOfTheScreen
    <2>2. Answers'
      BY <1>12, <1>a DEF AskRecoveryOrUndo, Ask, NoDialog, Answers, PlanFor
    <2>3. CurrentPlanExplains'
      BY <1>12, <1>a DEF AskRecoveryOrUndo, Ask, NoDialog, CurrentPlanExplains, Explains
    <2>4. ApplyDialog'
      BY <1>12, <1>a DEF AskRecoveryOrUndo, Ask, NoDialog, ApplyDialog, Explains,
         Actions
    <2> QED BY <2>1, <2>2, <2>3, <2>4
  <1>13. CASE AskCancel
    <2>1. Workload'
      BY <1>13, <1>a DEF AskCancel, Ask, NoDialog, Workload, IsOfTheScreen
    <2>2. Answers'
      BY <1>13, <1>a DEF AskCancel, Ask, NoDialog, Answers, PlanFor
    <2>3. CurrentPlanExplains'
      BY <1>13, <1>a DEF AskCancel, Ask, NoDialog, CurrentPlanExplains, Explains
    <2>4. ApplyDialog'
      BY <1>13, <1>a DEF AskCancel, Ask, NoDialog, ApplyDialog, Explains
    <2> QED BY <2>1, <2>2, <2>3, <2>4
  <1>14. CASE Dismiss
    <2>1. Workload'
      BY <1>14, <1>a DEF Dismiss, Ask, NoDialog, Workload, IsOfTheScreen
    <2>2. Answers'
      BY <1>14, <1>a DEF Dismiss, Ask, NoDialog, Answers, PlanFor
    <2>3. CurrentPlanExplains'
      BY <1>14, <1>a DEF Dismiss, Ask, NoDialog, CurrentPlanExplains, Explains
    <2>4. ApplyDialog'
      BY <1>14, <1>a DEF Dismiss, Ask, NoDialog, ApplyDialog, Explains
    <2> QED BY <2>1, <2>2, <2>3, <2>4
  <1>15. CASE Confirm
    <2>1. Workload'
      <3>1. UNCHANGED <<rules, overrides, givenUp, plan, planning, admission>>
        BY <1>15 DEF Confirm
      <3>2. \/ mutation' = mutation
            \/ mutation'.kind # "apply"
            \/ planning = None /\ admission = None
        BY <1>15, <1>a DEF Confirm, ApplyDialog
      <3> QED BY <1>a, <3>1, <3>2 DEF Workload, IsOfTheScreen
    <2>2. Answers'
      BY <1>15, <1>a DEF Confirm, NoDialog, Answers, PlanFor
    <2>3. CurrentPlanExplains'
      BY <1>15, <1>a DEF Confirm, NoDialog, CurrentPlanExplains, Explains
    <2>4. ApplyDialog'
      BY <1>15, <1>a DEF Confirm, NoDialog, ApplyDialog, Explains
    <2> QED BY <2>1, <2>2, <2>3, <2>4
  <1>16. CASE AdmitSources
    <2>1. admission \in AdmissionTasks /\ admission.stage = "admit" /\ planning = None
      BY <1>16, <1>a, <1>b DEF AdmitSources, Workload, TasksTyped
    <2>2. /\ admission'.fresh = admission.fresh /\ admission'.request = admission.request
          /\ admission'.plan = admission.plan /\ admission'.stage \in {"plan", "done"}
          /\ admission'.stage = "plan" => admission'.seen = registry'
      BY <1>16, <2>1 DEF AdmitSources, AdmissionTasks
    <2>3. admission' # None
      <3>1. registry' \in SUBSET Sources
        BY <1>16, <1>c, <2>1 DEF AdmitSources, AdmissionTasks, ServiceTyped
      <3>2. admission' \in AdmissionTasks
        BY <1>16, <2>1, <3>1 DEF AdmitSources, AdmissionTasks
      <3> QED BY <3>2, NoneAssumption
    <2>4. UNCHANGED <<rules, overrides, givenUp, planning, dialog, mutation>>
      BY <1>16, Zenon DEF AdmitSources
    <2>5. Workload'
      BY <1>a, <2>1, <2>2, <2>4, NoneAssumption DEF Workload, IsOfTheScreen
    <2>6. admission.plan = None
      BY <1>a, <2>1, NoneAssumption DEF Answers
    <2>7. Answers'
      BY <2>1, <2>2, <2>4, <2>6 DEF Answers
    <2>8. CurrentPlanExplains' /\ ApplyDialog'
      BY <1>a, <2>1, <2>3, <2>4, NoneAssumption DEF CurrentPlanExplains, ApplyDialog
    <2> QED BY <2>5, <2>7, <2>8
  <1>17. CASE PlanAdmission
    <2>1. admission \in AdmissionTasks /\ admission.stage = "plan" /\ planning = None
      BY <1>17, <1>a, <1>b DEF PlanAdmission, Workload, TasksTyped
    <2>2. /\ admission'.fresh = admission.fresh /\ admission'.request = admission.request
          /\ admission'.stage = "done"
          /\ admission'.plan # None => admission'.plan = PlanFor(admission.request, registry)
      BY <1>17, <2>1 DEF PlanAdmission, AdmissionTasks
    <2>3. admission' # None
      <3>1. PlanFor(admission.request, admission.seen) \in Plans
        BY <2>1 DEF AdmissionTasks, Requests, PlanFor, Plans
      <3>2. admission' \in AdmissionTasks
        BY <1>17, <2>1, <3>1 DEF PlanAdmission, AdmissionTasks
      <3> QED BY <3>2, NoneAssumption
    <2>4. UNCHANGED <<rules, overrides, givenUp, planning, dialog, mutation, registry>>
      BY <1>17, Zenon DEF PlanAdmission
    <2>5. Workload'
      BY <1>a, <2>1, <2>2, <2>4, NoneAssumption DEF Workload, IsOfTheScreen
    <2>6. Answers'
      BY <2>1, <2>2, <2>4 DEF Answers, PlanFor
    <2>7. CurrentPlanExplains' /\ ApplyDialog'
      BY <1>a, <2>1, <2>3, <2>4, NoneAssumption DEF CurrentPlanExplains, ApplyDialog
    <2> QED BY <2>5, <2>6, <2>7
  <1>18. CASE PreviewRules
    <2>1. planning \in PlanningTasks /\ ~planning.done /\ admission = None
      BY <1>18, <1>a, <1>b DEF PreviewRules, Workload, TasksTyped
    <2>2. /\ planning'.fresh = planning.fresh /\ planning'.request = planning.request
          /\ planning'.validating = planning.validating /\ planning'.done
      BY <1>18, <2>1 DEF PreviewRules, PlanningTasks
    <2>3. planning.fresh => ~planning.ok
      BY <1>a, <2>1, NoneAssumption DEF Answers
    <2>4. planning'.fresh /\ planning'.ok /\ ~planning'.validating
            => planning'.plan = PlanFor(planning.request, registry)
      BY <1>18, <2>1, <2>3 DEF PreviewRules, PlanningTasks
    <2>5. UNCHANGED <<rules, overrides, givenUp, plan, current, admission, dialog, mutation,
                    registry>>
      BY <1>18, Zenon DEF PreviewRules
    <2>6. Workload'
      BY <1>a, <2>1, <2>2, <2>5, NoneAssumption DEF Workload, IsOfTheScreen
    <2>7. Answers'
      BY <2>1, <2>2, <2>4, <2>5 DEF Answers, PlanFor
    <2>8. CurrentPlanExplains' /\ ApplyDialog'
      BY <1>a, <2>1, <2>5, NoneAssumption DEF CurrentPlanExplains, Explains, ApplyDialog
    <2> QED BY <2>6, <2>7, <2>8
  <1>19. CASE WorkOnLedger
    BY <1>19, <1>s DEF WorkOnLedger
  <1>20. CASE BeginMutation
    <2>1. Workload'
      <3>1. UNCHANGED <<rules, overrides, givenUp, plan, planning, admission>>
        BY <1>20 DEF BeginMutation
      <3>2. mutation # None /\ mutation'.kind = mutation.kind
        BY <1>20, <1>b DEF BeginMutation, Mutations
      <3> QED BY <1>a, <3>1, <3>2 DEF Workload, IsOfTheScreen
    <2>2. Answers'
      BY <1>20, <1>a DEF BeginMutation, Answers, PlanFor
    <2>3. CurrentPlanExplains'
      BY <1>20, <1>a DEF BeginMutation, CurrentPlanExplains, Explains
    <2>4. ApplyDialog'
      BY <1>20, <1>a DEF BeginMutation, ApplyDialog, Explains
    <2> QED BY <2>1, <2>2, <2>3, <2>4
  <1>21. CASE FinishMutation
    <2>1. Workload'
      <3>1. UNCHANGED <<rules, overrides, givenUp, plan, planning, admission>>
        BY <1>21 DEF FinishMutation
      <3>2. mutation # None /\ mutation'.kind = mutation.kind
        BY <1>21, <1>b DEF FinishMutation, Mutations
      <3> QED BY <1>a, <3>1, <3>2 DEF Workload, IsOfTheScreen
    <2>2. Answers'
      BY <1>21, <1>a DEF FinishMutation, Answers, PlanFor
    <2>3. CurrentPlanExplains'
      BY <1>21, <1>a DEF FinishMutation, CurrentPlanExplains, Explains
    <2>4. ApplyDialog'
      BY <1>21, <1>a DEF FinishMutation, ApplyDialog, Explains
    <2> QED BY <2>1, <2>2, <2>3, <2>4
  <1>22. CASE PollAdmission
    <2>1. admission # None /\ admission.stage = "done" /\ planning = None
      BY <1>22, <1>a DEF PollAdmission, Workload
    <2>2. AdmissionOf(queued) # None
      BY <1>b, NoneAssumption, TypesByPart, AdmissionTyped DEF IInv, TasksTyped
    <2>3. Workload'
      BY <1>22, <1>a, <1>d DEF PollAdmission, Workload, IsOfTheScreen, AdmissionOf, Request
    <2>4. Answers'
      BY <1>22, <1>a, <1>d DEF PollAdmission, Answers, AdmissionOf, PlanFor
    <2>5. CurrentPlanExplains'
      <3>1. admission.fresh /\ admission.plan # None => Explains(admission.plan)
        BY <1>a, <2>1 DEF Workload, Answers, IsOfTheScreen, PlanFor, Explains
      <3>2. admission' = None => queued = {}
        BY <1>22, <2>2 DEF PollAdmission
      <3>3. current' /\ plan' # None /\ queued = {}
              => admission.fresh /\ admission.plan # None /\ plan' = admission.plan
        BY <1>22 DEF PollAdmission
      <3> QED BY <1>22, <3>1, <3>2, <3>3 DEF PollAdmission, CurrentPlanExplains, Explains
    <2>6. ApplyDialog'
      BY <1>22, <1>a, <1>f DEF PollAdmission, ApplyDialog
    <2> QED BY <2>3, <2>4, <2>5, <2>6
  <1>23. CASE PollPlanning
    <2>1. AdmissionOf(queued) # None
      BY <1>b, NoneAssumption, TypesByPart, AdmissionTyped DEF IInv, TasksTyped
    <2>2. admission = None /\ Answer[2] /\ Answer[1] # None => Explains(Answer[1])
      <3>1. CASE ~Answered \/ ~planning.fresh
        BY <1>a, <3>1 DEF Answer, CurrentPlanExplains
      <3>2. CASE Answered /\ planning.fresh /\ planning.validating
        BY <1>a, <3>2 DEF Answer, Answered, Workload
      <3>3. CASE Answered /\ planning.fresh /\ ~planning.validating
        <4>1. planning.ok => Explains(planning.plan)
          BY <1>a, <3>3 DEF Answered, Answers, Workload, IsOfTheScreen, PlanFor, Explains
        <4> QED BY <3>3, <4>1 DEF Answer
      <3> QED BY <3>1, <3>2, <3>3
    <2>3. UNCHANGED <<rules, overrides, givenUp, registry, mutation>>
      BY <1>23, Zenon DEF PollPlanning
    <2>4. CASE /\ admission' = AdmissionOf(queued) /\ planning' = None /\ dialog' = WithoutApply
      <3>1. Workload'
        BY <2>3, <2>4 DEF Workload, IsOfTheScreen, AdmissionOf, Request
      <3>2. Answers'
        BY <2>3, <2>4 DEF Answers, AdmissionOf
      <3>3. CurrentPlanExplains' /\ ApplyDialog'
        BY <1>f, <2>1, <2>4 DEF CurrentPlanExplains, ApplyDialog
      <3> QED BY <3>1, <3>2, <3>3
    <2>5. CASE /\ UNCHANGED <<admission, queued, dialog>>
               /\ plan' = Answer[1] /\ current' = Answer[2]
               /\ \/ NoWorker /\ due /\ due' = FALSE /\ planning' = PlanningOf(Answer[1])
                  \/ Answered /\ due' = due /\ planning' = None
      <3>1. Workload'
        <4>1. CASE NoWorker /\ planning' = PlanningOf(Answer[1])
          <5>1. /\ planning'.request = Request(rules', overrides')
                /\ planning'.validating => plan' = None
            BY <2>3, <2>5, <4>1 DEF PlanningOf
          <5>2. admission' = None
            BY <2>5, <4>1 DEF NoWorker
          <5>3. IsOfTheScreen(planning.request)'
            BY <5>1 DEF IsOfTheScreen, Request
          <5>4. planning'.request.overrides = overrides'
            BY <5>1 DEF Request
          <5> QED BY <5>1, <5>2, <5>3, <5>4 DEF Workload, IsOfTheScreen
        <4>2. CASE planning' = None
          BY <1>a, <2>3, <2>5, <4>2 DEF Workload, IsOfTheScreen
        <4> QED BY <2>5, <4>1, <4>2
      <3>2. Answers'
        BY <1>a, <2>3, <2>5 DEF Answers, PlanningOf, PlanFor
      <3>3. CurrentPlanExplains'
        BY <2>2, <2>3, <2>5 DEF CurrentPlanExplains, Explains
      <3>4. ApplyDialog'
        BY <1>a, <2>5 DEF ApplyDialog, Answered
      <3> QED BY <3>1, <3>2, <3>3, <3>4
    <2> QED BY <1>23, <2>4, <2>5, Zenon DEF PollPlanning
  <1>24. CASE PollSnapshot
    <2>1. CASE RefreshPlan(Request(rules, overrides))
      <3>1. RefreshPlan(Request(rules', overrides'))
        BY <1>24, <2>1 DEF PollSnapshot
      <3> QED BY <3>1, RefreshedPlanIsUpToDate
    <2>2. CASE UNCHANGED <<preview, tasks, dialog, service>>
      BY <1>24, <2>2, <1>s DEF PollSnapshot
    <2> QED BY <1>24, <2>1, <2>2, Zenon DEF PollSnapshot
  <1>25. CASE PollInspection
    BY <1>25, <1>s DEF PollInspection
  <1>26. CASE PollMutation
    <2>1. mutation # None /\ mutation' = None /\ rules' = rules
      BY <1>26 DEF PollMutation
    <2>2. CASE /\ mutation.kind = "apply" /\ plan' = None /\ overrides' = {}
               /\ givenUp' = overrides /\ current' = current
               /\ UNCHANGED <<tasks, dialog, service>>
      BY <1>a, <2>1, <2>2
      DEF Workload, IsOfTheScreen, Answers, PlanFor, CurrentPlanExplains, ApplyDialog
    <2>3. CASE overrides' = overrides /\ RefreshPlan(Request(rules, overrides))
      <3>1. RefreshPlan(Request(rules', overrides'))
        BY <2>1, <2>3
      <3> QED BY <3>1, RefreshedPlanIsUpToDate
    <2>4. CASE UNCHANGED <<overrides, givenUp, preview, tasks, dialog, service>>
      BY <1>a, <2>1, <2>4
      DEF Workload, IsOfTheScreen, Answers, PlanFor, CurrentPlanExplains, Explains, ApplyDialog
    <2> QED BY <1>26, <2>2, <2>3, <2>4, Zenon DEF PollMutation
  <1> QED
    BY <1>1, <1>2, <1>3, <1>4, <1>5, <1>6, <1>7, <1>8, <1>9, <1>10, <1>11, <1>12,
       <1>13, <1>14, <1>15, <1>16, <1>17, <1>18, <1>19, <1>20, <1>21, <1>22, <1>23,
       <1>24, <1>25, <1>26, Zenon DEF Next, User, Workers, Polls

-----------------------------------------------------------------------------
(***************************************************************************)
(* The invariant is inductive.                                             *)
(***************************************************************************)
\* The shell starts in the invariant.
LEMMA InitEstablishes == Init => IInv
  <1> SUFFICES ASSUME Init
               PROVE  IInv
    OBVIOUS
  <1> USE DEF Init, NoDialog
  <1>1. TypeOK
    <2>1. /\ rules \in Rules /\ inputs \in 0..MaxInputs
      BY ShellAssumption
    <2>2. ledgerTask \in LedgerTasks
      BY DEF LedgerTasks
    <2>3. dialog \in Dialogs
      BY DEF Dialogs
    <2> QED BY <2>1, <2>2, <2>3 DEF TypeOK
  <1>2. WellFormed
    BY DEF WellFormed
  <1>3. Workload /\ Answers /\ CurrentPlanExplains /\ ApplyDialog
    BY DEF Workload, Answers, CurrentPlanExplains, ApplyDialog
  <1> QED BY <1>1, <1>2, <1>3 DEF IInv

\* Steps and stutters keep the invariant.
LEMMA NextKeeps == IInv /\ [Next]_vars => IInv'
  <1> SUFFICES ASSUME IInv, [Next]_vars
               PROVE  IInv'
    OBVIOUS
  <1>1. CASE Next
    BY <1>1, TypesStay, TypesByPart, WellFormedStays, PlansStay, Zenon DEF IInv
  <1>2. CASE UNCHANGED vars
    <2> USE DEF vars, request, preview, tasks, ledger, service, AreOnTheScreen
    <2>1. TypeOK'
      BY <1>2 DEF IInv, TypeOK
    <2>2. WellFormed'
      BY <1>2, Zenon DEF IInv, WellFormed
    <2>3. Workload' /\ Answers' /\ CurrentPlanExplains' /\ ApplyDialog'
      <3>1. Workload /\ Answers /\ CurrentPlanExplains /\ ApplyDialog
        BY Zenon DEF IInv
      <3>2. Workload'
        BY <1>2, <3>1 DEF Workload, IsOfTheScreen
      <3>3. Answers'
        BY <1>2, <3>1 DEF Answers, PlanFor
      <3>4. CurrentPlanExplains' /\ ApplyDialog'
        BY <1>2, <3>1 DEF CurrentPlanExplains, Explains, ApplyDialog
      <3> QED BY <3>2, <3>3, <3>4
    <2> QED BY <2>1, <2>2, <2>3 DEF IInv
  <1> QED BY <1>1, <1>2

\* The inductive invariant holds in every reachable state.
THEOREM Invariant == Spec => []IInv
  BY InitEstablishes, NextKeeps, PTL DEF Spec

-----------------------------------------------------------------------------
(***************************************************************************)
(* What it shows.                                                          *)
(***************************************************************************)
\* The shell's tasks, dialogs and selections always have their types.
THEOREM TypeCorrect == Spec => []TypeOK
  <1>1. IInv => TypeOK
    BY Zenon DEF IInv
  <1> QED BY <1>1, Invariant, PTL

\* The Apply button is only offered for a plan of the rules on the screen and
\* of all sources admitted (lib.rs:5462, 3040, 2896).
THEOREM OfferedPlansAreUpToDate == Spec => []OfferedPlanIsUpToDate
  <1>1. IInv => OfferedPlanIsUpToDate
    BY DEF IInv, CurrentPlanExplains, OfferedPlanIsUpToDate, CanApply
  <1> QED BY <1>1, Invariant, PTL

\* The plan a user is asked to confirm is the one on the screen, and up to
\* date (lib.rs:2995, 5914).
THEOREM ConfirmedPlansAreShown == Spec => []ConfirmedPlanIsShown
  <1>1. IInv => ConfirmedPlanIsShown
    BY DEF IInv, ApplyDialog, ConfirmedPlanIsShown
  <1> QED BY <1>1, Invariant, PTL
===============================================================================

-------------------------------- MODULE Planning --------------------------------
(***************************************************************************)
(* From the files a user selects to a plan that is ready for execution:    *)
(* the source registry (renamewright-platform/src/lib.rs), the planner     *)
(* (renamewright-core/src/planner.rs, model.rs) and the freezing of a plan *)
(* (freeze_execution_plan in executor.rs), while other programs change the *)
(* directories in between.                                                 *)
(*                                                                         *)
(* A path is the sequence of its names below one root directory.  The file *)
(* system takes names for equal when their lower case forms are.  An       *)
(* object stands for an entry's fingerprint and its execution identity.    *)
(* Freezing is one step: it is followed by an execution that trusts        *)
(* nothing it read (module RenameTransaction).                             *)
(***************************************************************************)
EXTENDS NameRules, FiniteSets

CONSTANTS
  Objects, Directories,
  Foreign,        \* an entry of another program
  None,
  Trees,          \* the directory trees to start from
  Requests,       \* the previews asked for: rules, and overrides, which
                  \* are sequences of <<source id, name>>
  StrangerNames,  \* the names other programs give
  TemporaryNames, \* source id -> the names temporary_name has for it, in the
                  \*   order of the attempts
  MaxSourceId,    \* bound on the ids that are handed out
  MaxNumber,      \* u64::MAX
  MaxSources,     \* MAX_ADMITTED_SOURCES
  MaxTrace,       \* MAX_PLAN_TRACE_BYTES
  MaxGeneration,  \* bound on changes of the registry
  MaxMoves        \* bound on the steps of other programs

ASSUME ObjectsAssumption ==
  Directories \subseteq Objects /\ None \notin Objects /\ Foreign \notin Objects
ASSUME BoundsAssumption ==
  {MaxNumber, MaxSources, MaxSourceId, MaxTrace, MaxGeneration, MaxMoves} \subseteq Nat

Path(entry)  == Append(entry.parent, entry.name)
Folded(name) == Mapped(name, Lower)
Entries      == [parent : Seq(Seq(Characters)), name : Seq(Characters), object : Objects \cup {Foreign}]

\* What a file system keeps to: a directory has a name once, and whatever
\* encloses an entry is itself a directory of the tree.
NamesAreApart(entries) ==
  \A e, f \in entries : e.parent = f.parent /\ Folded(e.name) = Folded(f.name) => e = f
DirectoriesEnclose(entries) ==
  \A e \in entries : \A k \in 1..Len(e.parent) :
    \E f \in entries : Path(f) = SubSeq(e.parent, 1, k) /\ f.object \in Directories

ASSUME TreesAssumption ==
  /\ \A t \in Trees : IsFiniteSet(t) /\ t \subseteq Entries /\ NamesAreApart(t) /\ DirectoriesEnclose(t)
  /\ StrangerNames \subseteq Seq(Characters)
ASSUME RequestsAssumption == \A r \in Requests : r.rules \in Seq(Rules)

\* A temporary name has its source's id in it.  It has the plan's id as well,
\* so the names of other plans are names other programs may give.
ASSUME TemporaryNamesAssumption ==
  /\ TemporaryNames \in [1..MaxSourceId -> Seq(Seq(Characters))]
  /\ \A i, j \in 1..MaxSourceId : \A n \in Range(TemporaryNames[i]), m \in Range(TemporaryNames[j]) :
       Folded(n) = Folded(m) => i = j

VARIABLES
  tree,         \* the entries: [parent, name, object]
  candidates,   \* admit_paths_count: the entries whose fingerprints were read
  registry,     \* source id -> [parent, name, object]
  nextSourceId,
  generation,
  cached,       \* SourceRegistry::cached_planning_snapshot
  request,      \* what a plan is being built from
  plan,         \* the RenamePlan
  frozen,       \* the entries of the FrozenExecutionPlan
  moves         \* steps of other programs so far

registryVars == <<registry, nextSourceId, generation, cached>>
vars == <<tree, candidates, registryVars, request, plan, frozen, moves>>

Paths         == {Path(e) : e \in tree}
SourceIds     == DOMAIN registry

\* The objects a name of a directory resolves to: one, or none
At(parent, name) == {e.object : e \in {f \in tree : f.parent = parent /\ Folded(f.name) = Folded(name)}}

\* A path still leads to the entry whose fingerprint was taken there.
IsPresent(entry) == At(entry.parent, entry.name) = {entry.object}

\* The elements of a finite set in an order, a set of pairs: the one with k
\* others before it at k + 1
Sorted(S, order) ==
  LET before == [s \in S |-> Cardinality({t \in S : <<t, s>> \in order})]
  IN [i \in 1..Cardinality(S) |-> CHOOSE s \in S : before[s] = i - 1]

NoSnapshot == [generation |-> 0, sources |-> <<>>]

-----------------------------------------------------------------------------
(***************************************************************************)
(* The registry.                                                           *)
(***************************************************************************)
\* admit_paths_count: every path is normalized and its fingerprint read.
NormalizePaths ==
  /\ candidates = {} /\ generation < MaxGeneration
  /\ candidates' \in (SUBSET {e \in tree : e.object # Foreign}) \ {{}}
  /\ Cardinality({registry[id] : id \in SourceIds} \cup candidates') <= MaxSources
  /\ UNCHANGED <<tree, registryVars, request, plan, frozen, moves>>

PathLess(p, q) ==
  LET common == {i \in DOMAIN p \cap DOMAIN q : p[i] # q[i]}
  IN IF common = {} THEN Len(p) < Len(q)
     ELSE LET i == CHOOSE j \in common : \A k \in common : j <= k IN NameLess(p[i], q[i])

IsRegistered(path) == \E id \in SourceIds : Path(registry[id]) = path

\* In the order of their paths, the candidates that are not yet registered
NewSources ==
  LET new == {e \in candidates : ~IsRegistered(Path(e))}
  IN Sorted(new, {p \in new \X new : PathLess(Path(p[1]), Path(p[2]))})

\* Mutant: the cached snapshot outlives an admission.
AdmitCandidatesCached ==
  LET new == NewSources
  IN /\ candidates # {} /\ candidates' = {}
     /\ nextSourceId + Len(new) <= MaxSourceId + 1
     /\ IF (\A e \in Range(new) : IsPresent(e)) /\ new # <<>>
        THEN /\ registry' = [id \in SourceIds \cup nextSourceId..(nextSourceId + Len(new) - 1) |->
                               IF id \in SourceIds THEN registry[id] ELSE new[id - nextSourceId + 1]]
             /\ nextSourceId' = nextSourceId + Len(new)
             /\ generation' = generation + 1
             /\ UNCHANGED cached
        ELSE UNCHANGED registryVars
     /\ UNCHANGED <<tree, request, plan, frozen, moves>>

\* admit_candidates: all of the new ones or, if one has changed since, none
AdmitCandidates ==
  LET new == NewSources
  IN /\ candidates # {} /\ candidates' = {}
     /\ nextSourceId + Len(new) <= MaxSourceId + 1
     /\ IF (\A e \in Range(new) : IsPresent(e)) /\ new # <<>>
        THEN /\ registry' = [id \in SourceIds \cup nextSourceId..(nextSourceId + Len(new) - 1) |->
                               IF id \in SourceIds THEN registry[id] ELSE new[id - nextSourceId + 1]]
             /\ nextSourceId' = nextSourceId + Len(new)
             /\ generation' = generation + 1
             /\ cached' = NoSnapshot
        ELSE UNCHANGED registryVars
     /\ UNCHANGED <<tree, request, plan, frozen, moves>>

RemoveSources ==
  /\ candidates = {} /\ generation < MaxGeneration
  /\ \E removed \in (SUBSET SourceIds) \ {{}} :
       registry' = [id \in SourceIds \ removed |-> registry[id]]
  /\ generation' = generation + 1 /\ cached' = NoSnapshot
  /\ UNCHANGED <<tree, candidates, nextSourceId, request, plan, frozen, moves>>

\* The registry as a sequence of sources in the order of their ids
RegisteredSources ==
  LET ids == Sorted(SourceIds, {p \in SourceIds \X SourceIds : p[1] < p[2]})
  IN [i \in DOMAIN ids |-> [id |-> ids[i], parent |-> registry[ids[i]].parent,
                              name |-> registry[ids[i]].name, object |-> registry[ids[i]].object]]

-----------------------------------------------------------------------------
(***************************************************************************)
(* The validation environment.                                             *)
(***************************************************************************)
NoRequest == [stage |-> "none", generation |-> 0, sources |-> <<>>, rules |-> <<>>,
              overrides |-> <<>>, stale |-> {}]

\* planning_snapshot, with the rules and overrides of the request
PlanningSnapshot ==
  /\ candidates = {} /\ request.stage = "none" /\ registry # <<>>
  /\ cached' = IF cached = NoSnapshot
               THEN [generation |-> generation, sources |-> RegisteredSources] ELSE cached
  /\ \E r \in Requests :
       request' = [stage |-> "captured", rules |-> r.rules, overrides |-> r.overrides, stale |-> {},
                   generation |-> cached'.generation, sources |-> cached'.sources]
  /\ plan' = None /\ frozen' = None
  /\ UNCHANGED <<tree, candidates, registry, nextSourceId, generation, moves>>

\* validation_environment: the fingerprints are read first.
CheckSources ==
  /\ request.stage = "captured"
  /\ request' = [request EXCEPT !.stage = "checked",
       !.stale = {s.id : s \in {t \in Range(request.sources) : ~IsPresent(t)}}]
  /\ UNCHANGED <<tree, candidates, registryVars, plan, frozen, moves>>

StartsWith(path, directory) == IsPrefix(directory, path)

\* Mutant: paths are sorted as they are written, with "/" after ".".
WrittenLess(p, q) ==
  LET written(path) == FlattenSeq([i \in DOMAIN path |-> <<"/">> \o path[i]])
      rank == [c \in Characters \cup {"/"} |-> IF c = "/" THEN 2 * Rank["."] + 1 ELSE 2 * Rank[c]]
      m == written(p)
      n == written(q)
      common == {i \in DOMAIN m \cap DOMAIN n : m[i] # n[i]}
  IN IF common = {} THEN Len(m) < Len(n)
     ELSE LET i == CHOOSE j \in common : \A k \in common : j <= k IN rank[m[i]] < rank[n[i]]

\* The order of the selected paths
SelectionLess(p, q) == PathLess(p, q)

SelectedSources(sources) ==
  Sorted(Range(sources),
         {p \in Range(sources) \X Range(sources) : SelectionLess(Path(p[1]), Path(p[2]))})

\* The directories on the stack that enclose a source
Enclosing(stack, s) ==
  LET depths == {k \in DOMAIN stack : StartsWith(Path(s), Path(stack[k]))}
  IN SubSeq(stack, 1, IF depths = {} THEN 0 ELSE CHOOSE k \in depths : \A d \in depths : d <= k)

\* The innermost of them and the source are in each other's way.
Visit(state, s) ==
  LET stack == Enclosing(state.stack, s)
  IN [conflicts |-> IF stack = <<>> THEN state.conflicts
                    ELSE state.conflicts \cup {stack[Len(stack)].id, s.id},
      stack |-> IF s.object \in Directories THEN Append(stack, s) ELSE stack]

VisitedInTurn(selected) ==
  LET visited[i \in 0..Len(selected)] ==
        IF i = 0 THEN [conflicts |-> {}, stack |-> <<>>] ELSE Visit(visited[i - 1], selected[i])
  IN visited

\* ancestor_conflicts_lexical: one pass over the sorted paths with a stack
\* of the directories that enclose the current one
AncestorConflicts(sources) == VisitedInTurn(SelectedSources(sources))[Cardinality(Range(sources))].conflicts

ParentsOf(sources) == {s.parent : s \in Range(sources)}

\* The entries of the parents that could be enumerated, but for the sources
OccupiedNames(sources, parents) ==
  {e \in tree : e.parent \in parents /\ \A s \in Range(sources) : Path(s) # Path(e)}

-----------------------------------------------------------------------------
(***************************************************************************)
(* The planner.                                                            *)
(***************************************************************************)
\* validate_overrides
OverridesAreValid(sources, overrides) ==
  /\ \A i \in DOMAIN overrides : \E s \in Range(sources) : s.id = overrides[i][1]
  /\ \A i, j \in DOMAIN overrides : overrides[i][1] = overrides[j][1] => i = j

\* ordered_source_indices
OrderedSources(sources, order) ==
  LET before(s, t) == IF order = "source" \/ s.name = t.name THEN s.id < t.id
                      ELSE NameLess(s.name, t.name)
  IN Sorted(Range(sources), {p \in Range(sources) \X Range(sources) : before(p[1], p[2])})

\* Mutant: the arithmetic wraps.
SequenceValueWrapping(rule, ordinal) == (rule.start + rule.step * ordinal) % (MaxNumber + 1)

\* checked_mul, then checked_add
SequenceValue(rule, ordinal) ==
  LET offset == rule.step * ordinal
  IN IF offset > MaxNumber \/ rule.start + offset > MaxNumber THEN NoValue ELSE rule.start + offset

\* One counter, or one for each parent
Counter(rule, s) == IF rule.scope = "all" THEN <<>> ELSE s.parent

Allocate(state, rule, s) ==
  LET ordinal == state.ordinals[Counter(rule, s)]
  IN [ordinals |-> [state.ordinals EXCEPT ![Counter(rule, s)] = ordinal + 1],
      values   |-> [state.values EXCEPT ![s.id] = SequenceValue(rule, ordinal)]]

AllocatedInTurn(ordered, rule) ==
  LET allocated[i \in 0..Len(ordered)] ==
        IF i = 0 THEN [ordinals |-> [c \in {Counter(rule, s) : s \in Range(ordered)} |-> 0],
                       values   |-> [id \in {s.id : s \in Range(ordered)} |-> NoValue]]
        ELSE Allocate(allocated[i - 1], rule, ordered[i])
  IN allocated

\* allocate_sequence
AllocateSequence(sources, rule) ==
  AllocatedInTurn(OrderedSources(sources, rule.order), rule)[Cardinality(Range(sources))].values

Values(sources, rules) ==
  [i \in DOMAIN rules |-> IF rules[i].kind = "sequence" THEN AllocateSequence(sources, rules[i])
                          ELSE [id \in {s.id : s \in Range(sources)} |-> NoValue]]

DiagnosticFor == [UnsupportedEncoding |-> "UnsupportedEncoding", OutputTooLong |-> "NameTooLong",
                  SequenceOverflow |-> "SequenceOverflow"]

\* TraceBudget::retain: the first step that does not fit ends the budget.
Retained(budget, bytes) == IF bytes <= budget THEN budget - bytes ELSE 0

\* A rule's result, with what it costs to retain the step
Traced(state, i, result, bytes) ==
  IF result.error # "none" THEN [state EXCEPT !.error = result.error]
  ELSE LET next == [state EXCEPT !.name = result.name, !.budget = Retained(@, bytes)]
       IN IF state.budget > 0 /\ bytes <= state.budget
          THEN [next EXCEPT !.trace =
                  Append(@, [rule |-> i, before |-> state.name, after |-> result.name])]
          ELSE [next EXCEPT !.truncated = TRUE]

TraceCost(state, result) ==
  Bytes(result.name) + (IF state.trace = <<>> THEN Bytes(state.name) ELSE 0)

TracedResult(state, i, result) == Traced(state, i, result, TraceCost(state, result))

\* One rule applied to what the ones before it made of the source's name
Applied(state, s, rules, values, i) ==
  IF state.error # "none" \/ (s.object \in Directories /\ ~AppliesToDirectories(rules[i]))
  THEN state
  ELSE TracedResult(state, i, ApplyRule(rules[i], state.name, values[i][s.id]))

AppliedInTurn(s, rules, values, budget) ==
  LET applied[i \in 0..Len(rules)] ==
        IF i = 0 THEN [name |-> s.name, trace |-> <<>>, budget |-> budget,
                       error |-> "none", truncated |-> FALSE]
        ELSE Applied(applied[i - 1], s, rules, values, i)
  IN applied

\* The rules applied to one source: the trace of its steps, as long as the
\* plan's trace budget lasts, and the error that ended them.
Evaluated(s, rules, values, budget) == AppliedInTurn(s, rules, values, budget)[Len(rules)]

\* build_row: an error of a rule leaves the override out.
Row(s, evaluated, overrides) ==
  LET override == {overrides[i][2] : i \in {j \in DOMAIN overrides : overrides[j][1] = s.id}}
      proposed == IF evaluated.error # "none" \/ override = {} THEN evaluated.name
                  ELSE CHOOSE n \in override : TRUE
  IN [id |-> s.id, parent |-> s.parent, original |-> s.name, proposed |-> proposed,
      trace |-> evaluated.trace, truncated |-> evaluated.truncated,
      overridden |-> evaluated.error = "none" /\ override # {},
      blocked |-> IF evaluated.error # "none" THEN {DiagnosticFor[evaluated.error]}
                  ELSE NameDiagnostics(proposed)]

InvalidRows(sources) ==
  [i \in DOMAIN sources |->
     [id |-> sources[i].id, parent |-> sources[i].parent, original |-> sources[i].name,
      proposed |-> sources[i].name, trace |-> <<>>, truncated |-> FALSE, overridden |-> FALSE,
      blocked |-> {"InvalidRule"}]]

\* Mutant: every row has the whole trace budget.
RowsEachWithABudget(sources, rules, overrides) ==
  [i \in DOMAIN sources |->
     Row(sources[i], Evaluated(sources[i], rules, Values(sources, rules), MaxTrace), overrides)]

\* The sources in turn; the trace budget is the plan's.
EvaluatedInTurn(sources, rules, values) ==
  LET evaluated[i \in 0..Len(sources)] ==
        IF i = 0 THEN [budget |-> MaxTrace]
        ELSE Evaluated(sources[i], rules, values, evaluated[i - 1].budget)
  IN evaluated

\* The rows in the order of the sources
Rows(sources, rules, overrides) ==
  [i \in DOMAIN sources |->
     Row(sources[i], EvaluatedInTurn(sources, rules, Values(sources, rules))[i], overrides)]

Destination(row) == <<row.parent, ComparisonKey(row.proposed)>>

\* mark_duplicates
Duplicates(rows) ==
  {i \in DOMAIN rows : \E j \in DOMAIN rows \ {i} :
     /\ IsText(rows[i].proposed) /\ IsText(rows[j].proposed)
     /\ Destination(rows[i]) = Destination(rows[j])}

\* The rows with the diagnostics of the environment
Marked(rows, sources, stale, unavailable) ==
  LET conflicts == AncestorConflicts(sources)
      occupied  == {<<e.parent, ComparisonKey(e.name)>> :
                      e \in OccupiedNames(sources, ParentsOf(sources) \ unavailable)}
  IN [i \in DOMAIN rows |-> [rows[i] EXCEPT !.blocked = @ \cup
       {d \in {"StaleSource", "AncestorDescendantConflict", "ParentUnavailable",
               "DuplicateDestination", "OccupiedDestination"} :
          CASE d = "StaleSource"                -> rows[i].id \in stale
            [] d = "AncestorDescendantConflict" -> rows[i].id \in conflicts
            [] d = "ParentUnavailable"          -> rows[i].parent \in unavailable
            [] d = "DuplicateDestination"       -> i \in Duplicates(rows)
            [] OTHER -> IsText(rows[i].proposed) /\ Destination(rows[i]) \in occupied}]]

\* NameStatus
Changed(row) == row.blocked = {} /\ row.proposed # row.original

\* PlanDto::from_plan: the rule a name is put down to, or 0: the last one that
\* changed it, if the trace is complete and no override hides it.
LastChangedRule(row, rules) ==
  LET trace   == row.trace
      changes == {k \in DOMAIN trace : trace[k].before # trace[k].after}
  IN IF row.overridden \/ row.truncated \/ changes = {} THEN 0
     ELSE IF trace[Len(trace)].rule # Len(rules) THEN 0
     ELSE trace[CHOOSE k \in changes : \A j \in changes : j <= k].rule

\* The rows of a request, or none that can be applied if its rules or
\* overrides are invalid
RequestedRows(unavailable) ==
  IF Compiles(request.rules) /\ OverridesAreValid(request.sources, request.overrides)
  THEN Marked(Rows(request.sources, request.rules, request.overrides),
              request.sources, request.stale, unavailable)
  ELSE InvalidRows(request.sources)

PlanOf(rows) ==
  [generation |-> request.generation, rows |-> rows,
   changedBy |-> [i \in DOMAIN rows |-> LastChangedRule(rows[i], request.rules)]]

\* The parents are enumerated, unless they cannot be read or hold too much,
\* and the plan is built from what was read.
BuildPlan ==
  /\ request.stage = "checked" /\ request' = NoRequest
  /\ \E unavailable \in SUBSET ParentsOf(request.sources) :
       plan' = PlanOf(RequestedRows(unavailable))
  /\ UNCHANGED <<tree, candidates, registryVars, frozen, moves>>

\* RenamePlan::can_apply
CanApply(p) ==
  /\ \E i \in DOMAIN p.rows : Changed(p.rows[i])
  /\ \A i \in DOMAIN p.rows : p.rows[i].blocked = {}

-----------------------------------------------------------------------------
(***************************************************************************)
(* freeze_execution_plan: succeeds if nothing the plan rests on has        *)
(* changed, and every source gets a temporary name that no entry has.      *)
(***************************************************************************)
\* The registry still has the source, and the file system the object.
SourceIsUnchanged(row) ==
  /\ row.id \in SourceIds
  /\ registry[row.id].parent = row.parent /\ registry[row.id].name = row.original
  /\ At(row.parent, row.original) = {registry[row.id].object}

DestinationIsFree(row, planned) == At(row.parent, row.proposed) \subseteq planned

\* available_temporary_name: the first of a source's names that is free
FreeAttempts(row) ==
  {k \in DOMAIN TemporaryNames[row.id] : At(row.parent, TemporaryNames[row.id][k]) = {}}

AvailableTemporaryName(row) ==
  TemporaryNames[row.id][CHOOSE k \in FreeAttempts(row) : \A j \in FreeAttempts(row) : k <= j]

FreezeExecutionPlan ==
  /\ plan # None /\ frozen = None /\ candidates = {}
  /\ CanApply(plan) /\ plan.generation = generation
  /\ LET rows == {r \in Range(plan.rows) : Changed(r)}
         planned(parent) == {registry[r.id].object : r \in {q \in rows : q.parent = parent}}
     IN /\ \A r \in rows : /\ SourceIsUnchanged(r) /\ DestinationIsFree(r, planned(r.parent))
                          /\ FreeAttempts(r) # {}
        /\ frozen' = {[id |-> r.id, parent |-> r.parent, original |-> r.original,
                       temporary |-> AvailableTemporaryName(r), proposed |-> r.proposed,
                       object |-> registry[r.id].object] : r \in rows}
  /\ UNCHANGED <<tree, candidates, registryVars, request, plan, moves>>

-----------------------------------------------------------------------------
\* Another program moves, replaces, removes or creates a file; a move may
\* change no more than the case of its name.
Interfere ==
  /\ moves < MaxMoves /\ moves' = moves + 1 /\ frozen' = None
  /\ \E e \in tree :
       \/ /\ e.object \notin Directories
          /\ tree' \in {tree \ {e}, (tree \ {e}) \cup {[e EXCEPT !.object = Foreign]}}
       \/ \E n \in StrangerNames :
            \/ /\ e.object \notin Directories
               /\ At(e.parent, n) = {} \/ Folded(n) = Folded(e.name)
               /\ tree' = (tree \ {e}) \cup {[e EXCEPT !.name = n]}
            \/ /\ At(e.parent, n) = {}
               /\ tree' = tree \cup {[parent |-> e.parent, name |-> n, object |-> Foreign]}
  /\ UNCHANGED <<candidates, registryVars, request, plan>>

Init ==
  /\ tree \in Trees /\ candidates = {}
  /\ registry = <<>> /\ nextSourceId = 1 /\ generation = 0 /\ cached = NoSnapshot
  /\ request = NoRequest /\ plan = None /\ frozen = None /\ moves = 0

Next ==
  \/ NormalizePaths \/ AdmitCandidates \/ RemoveSources \/ PlanningSnapshot
  \/ CheckSources \/ BuildPlan \/ FreezeExecutionPlan \/ Interfere

Spec == Init /\ [][Next]_vars

-----------------------------------------------------------------------------
(***************************************************************************)
(* Properties.                                                             *)
(***************************************************************************)
\* A frozen plan can be carried out as it was shown: every source is still
\* the entry that was admitted, no two of them go to one name, no entry but a
\* source that leaves its name is in the way, the temporary names are free and
\* each one a source's own, and no source is a directory that holds another
\* one.  The diagnostics of the plan, with their own idea of equal names, and
\* what freezing reads again establish this together (planner.rs:456, 505,
\* executor.rs:689, 749).
FrozenNamesAreSafe ==
  frozen # None =>
    /\ \A r \in frozen : At(r.parent, r.original) = {r.object}
    /\ \A r, q \in frozen : r.parent = q.parent /\ Folded(r.proposed) = Folded(q.proposed) => r = q
    /\ \A r \in frozen, e \in tree :
         e.parent = r.parent /\ Folded(e.name) = Folded(r.proposed) =>
           \E q \in frozen : q.parent = r.parent /\ q.object = e.object
    /\ \A r \in frozen : At(r.parent, r.temporary) = {}
    /\ \A r, q \in frozen : Folded(r.temporary) = Folded(q.temporary) => r = q
    /\ \A r, q \in frozen : ~StartsWith(q.parent, Append(r.parent, r.original))

\* Snapshots are of the registry as it is: the cached one always, and one a
\* plan is being built from as long as the generation is the same
\* (platform lib.rs:299, executor.rs:596).
GenerationNamesTheRegistry ==
  /\ cached # NoSnapshot => cached = [generation |-> generation, sources |-> RegisteredSources]
  /\ request.stage # "none" /\ request.generation = generation =>
       request.sources = RegisteredSources

\* The numbers of a sequence grow along its order within its scope and
\* begin with the first, and a source has none only if its number is beyond
\* the largest there is: none wraps to one in use (planner.rs:390).
SequenceNumbersGrow ==
  \A i \in DOMAIN request.rules :
    LET rule == request.rules[i]
        values == AllocateSequence(request.sources, rule)
        scope(s) == {t \in Range(request.sources) : rule.scope = "all" \/ t.parent = s.parent}
        before(t, s) == IF rule.order = "name" /\ s.name # t.name THEN NameLess(t.name, s.name)
                        ELSE t.id < s.id
    IN rule.kind = "sequence" /\ RuleCompiles(rule) =>
         \A s \in Range(request.sources) :
           LET exact == rule.start + rule.step * Cardinality({t \in scope(s) : before(t, s)})
           IN values[s.id] = IF exact <= MaxNumber THEN exact ELSE NoValue

\* The pass over the sorted paths finds every directory that holds another
\* source, and these sources (platform lib.rs:425).
AncestorsAreFound ==
  AncestorConflicts(request.sources) =
    {s.id : s \in {t \in Range(request.sources) : \E u \in Range(request.sources) \ {t} :
       \/ t.object \in Directories /\ StartsWith(Path(u), Path(t))
       \/ u.object \in Directories /\ StartsWith(Path(t), Path(u))}}

\* What a trace keeps, a first name and what every step made of it, in bytes
KeptInTurn(trace) ==
  LET kept[k \in 0..Len(trace)] ==
        IF k = 0 THEN IF trace = <<>> THEN 0 ELSE Bytes(trace[1].before)
        ELSE kept[k - 1] + Bytes(trace[k].after)
  IN kept

BytesOfTrace(trace) == KeptInTurn(trace)[Len(trace)]

\* What the rows of a plan keep
RowsInTurn(rows) ==
  LET kept[i \in 0..Len(rows)] == IF i = 0 THEN 0 ELSE kept[i - 1] + BytesOfTrace(rows[i].trace)
  IN kept

BytesOfRows(rows) == RowsInTurn(rows)[Len(rows)]

\* The trace of a row leads from the original to the proposed name, step by
\* step, as far as it was retained, and all traces together keep to the
\* budget of the plan (planner.rs:264).  The rule that a row's name is put
\* down to made that name of another one, also if rules were skipped or the
\* trace was cut short (application lib.rs:2535).
TraceExplainsTheProposal ==
  plan # None =>
    /\ \A i \in DOMAIN plan.rows :
         LET row == plan.rows[i]
             trace == row.trace
         IN /\ \A k \in DOMAIN trace :
                 trace[k].before = IF k = 1 THEN row.original ELSE trace[k - 1].after
            /\ ~row.truncated /\ ~row.overridden =>
                 row.proposed = IF trace = <<>> THEN row.original ELSE trace[Len(trace)].after
            /\ plan.changedBy[i] # 0 =>
                 \E k \in DOMAIN trace : /\ trace[k].rule = plan.changedBy[i]
                                          /\ trace[k].before # row.proposed
                                          /\ trace[k].after = row.proposed
    /\ BytesOfRows(plan.rows) <= MaxTrace

\* What a user relies on when a rule meets an unusual name: a rule for one
\* part leaves the other alone (rules.rs:820), keeping and removing a range
\* divide the text, and a range from the end mirrors one from the start
\* (rules.rs:869), cleaned text has no white space at its ends or in a row
\* (rules.rs:843), and replaced text can be put back (rules.rs:522).
ExtensionIsApart(rule, name) ==
  \A d \in DOMAIN name :
    d > 1 /\ name[d] = "." /\ (\A k \in (d + 1)..Len(name) : name[k] # ".") =>
      LET result == Transformed(rule, name, NoValue)
      IN /\ rule.part = "stem"      => IsSuffix(SubSeq(name, d, Len(name)), result)
         /\ rule.part = "extension" => IsPrefix(SubSeq(name, 1, d), result)

RangeDivides(rule, text) ==
  LET kept     == ApplyRange(text, [rule EXCEPT !.operation = "keep"])
      rest     == ApplyRange(text, [rule EXCEPT !.operation = "remove"])
      mirrored == [rule EXCEPT !.operation = "keep", !.origin = IF @ = "start" THEN "end" ELSE "start"]
  IN /\ \E k \in 0..Len(rest) :
          SubSeq(rest, 1, k) \o kept \o SubSeq(rest, k + 1, Len(rest)) = text
     /\ Reverse(ApplyRange(Reverse(text), mirrored)) = kept
     /\ rule.length # Rest /\ rule.offset + rule.length <= Len(text) => Len(kept) = rule.length

TextIsClean(rule, text) ==
  LET result == CleanWhitespace(text, <<" ">>)
      isSpace(i) == Class[result[i]] = "whitespace"
  IN /\ ApplyClass(result, "whitespace", "remove") = ApplyClass(text, "whitespace", "remove")
     /\ \A i \in DOMAIN result : isSpace(i) =>
          result[i] = " " /\ i # 1 /\ i # Len(result) /\ ~isSpace(i + 1)

ReplacementIsReversible(rule, text) ==
  Len(rule.replacement) = 1 /\ rule.replacement[1] \notin Range(text) \cup Range(rule.search) =>
    ReplaceLiteral(ReplaceLiteral(text, rule.search, rule.replacement), rule.replacement, rule.search) = text

RulesKeepTheirPromises ==
  \A s \in Range(request.sources), i \in DOMAIN request.rules :
    LET rule == request.rules[i]
    IN IsText(s.name) /\ RuleCompiles(rule) =>
         /\ rule.kind \in TextRules \ {"replace"} => ExtensionIsApart(rule, s.name)
         /\ rule.kind = "range"      => RangeDivides(rule, s.name)
         /\ rule.kind = "whitespace" => TextIsClean(rule, s.name)
         /\ rule.kind = "replace"    => ReplacementIsReversible(rule, s.name)
=================================================================================

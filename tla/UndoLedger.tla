------------------------------ MODULE UndoLedger ------------------------------
(***************************************************************************)
(* The rename ledger and undo (renamewright-platform/src/ledger.rs,        *)
(* undo.rs): the journals on disk, the bounded discovery that lists them,  *)
(* and the undo of a completed transaction, which is itself a transaction  *)
(* with a journal that names its original.                                 *)
(*                                                                         *)
(* The steps of an execution are module RenameTransaction; here one starts *)
(* with every source at its temporary name (its middle) and ends with all  *)
(* of them at the final or at the original names, or is cut short by a     *)
(* crash.  The mutexes are module ApplicationService: one execution runs   *)
(* at a time, an inspection refreshes the ledger it reads, and an undo or  *)
(* a recovery keeps the ledger locked until it is over.                    *)
(***************************************************************************)
EXTENDS Integers, FiniteSets

CONSTANTS
  Objects,      \* file system objects a transaction may rename
  Names,        \* native names in their one directory
  None,
  MaxPlanId,    \* bound on plan ids
  MaxJournals,  \* MAX_DISCOVERED_JOURNALS
  MaxBytes,     \* MAX_DISCOVERED_JOURNAL_BYTES, in sources of a journal
  MaxMoves      \* bound on the renames of other programs

Temporary == "temporary"

ASSUME LimitsAssumption ==
  /\ Temporary \notin Names /\ None \notin Names /\ None \notin Objects
  /\ IsFiniteSet(Objects)
  /\ MaxPlanId \in Nat \ {0} /\ MaxJournals \in Nat \ {0}
  /\ MaxBytes \in Nat \ {0} /\ MaxMoves \in Nat

VARIABLES
  at,           \* the name of each object
  journals,     \* journal files
  ledger,       \* RenameLedger: its items and latest_plan_id
  nextPlanId,   \* ApplicationService::next_plan_id
  executing,    \* the journal file of the execution that runs, and whether
                \* it holds the ledger
  snapshot,     \* the journal an UndoTransactionSnapshot is about
  undisturbed,  \* history: the transaction that was begun last, if
                \* nothing else has been renamed since
  skipped,      \* history: an inspection for an undo was made when the bytes
                \* were not enough for every journal within the count
  moves         \* renames of other programs so far

vars == <<at, journals, ledger, nextPlanId, executing, snapshot, undisturbed, skipped, moves>>

PlanIds     == 1..MaxPlanId
JournalFiles == [kind : {"plan", "undo"}, id : PlanIds]
FileOf(j)   == [kind |-> j.kind, id |-> j.id]
JournalIn(f) == CHOOSE j \in journals : FileOf(j) = f
Sources(j)  == DOMAIN j.names

\* LedgerStatus: "attention" stands for the six that recovery is offered
\* for, "headless" for a file whose first frame was never written whole.
Statuses == {"completed", "rolledback", "attention", "torn", "headless"}
Graphs   == UNION {[S -> [original : Names, final : Names]] : S \in (SUBSET Objects) \ {{}}}

Journals == [kind : {"plan", "undo"}, id : PlanIds, undoOf : 0..MaxPlanId, names : Graphs,
             status : Statuses]

ASSUME NoneAssumption ==
  None \notin JournalFiles /\ None \notin [file : JournalFiles, locked : BOOLEAN]

NoItem   == [plan |-> 0, undoOf |-> 0, status |-> "unread", inspectable |-> FALSE,
             recoveryAvailable |-> FALSE, undoAvailable |-> FALSE]
NoFile   == [kind |-> "root", id |-> MaxPlanId + 1]

TypeOK ==
  /\ at \in [Objects -> Names \cup {Temporary}]
  /\ journals \subseteq Journals
  /\ \A j, k \in journals : FileOf(j) = FileOf(k) => j = k
  /\ DOMAIN ledger.items \subseteq {FileOf(j) : j \in journals} \cup {NoFile}
  /\ ledger.latest \in 0..MaxPlanId
  /\ nextPlanId \in 1..(MaxPlanId + 1)
  /\ executing \in [file : {FileOf(j) : j \in journals}, locked : BOOLEAN] \cup {None}
  /\ snapshot \in JournalFiles \cup {None} /\ undisturbed \in JournalFiles \cup {None}
  /\ skipped \in BOOLEAN /\ moves \in 0..MaxMoves

Free(n) == \A o \in Objects : at[o] # n

-----------------------------------------------------------------------------
(***************************************************************************)
(* Discovery.  Files are keyed by the id in their name, then by the name;  *)
(* beyond the count the lowest keys are dropped, and the bytes are spent   *)
(* from the lowest key up.  What is not read has no plan id.               *)
(***************************************************************************)
Before(j, k) == j.id < k.id \/ (j.id = k.id /\ j.kind = "plan" /\ k.kind = "undo")

Candidates(disk) ==
  {j \in disk : Cardinality({k \in disk : Before(j, k)}) < MaxJournals}

\* The bytes read for the journals of S: one for each source of each.
Bytes(S) == Cardinality(UNION {{k} \X Sources(k) : k \in {j \in S : j.status # "headless"}})

\* The candidates read_bounded_journal reads: each that the bytes left by the
\* earlier ones it read are enough for.
Read(disk) ==
  CHOOSE read \in SUBSET Candidates(disk) :
    \A j \in Candidates(disk) :
      j \in read <=> Bytes({k \in read : Before(k, j)} \cup {j}) <= MaxBytes

ReadsAll(disk) == Read(disk) = Candidates(disk)

\* The originals of undo journals that were read and are not rolled back.
Superseded(read) == {j.undoOf : j \in {k \in read : k.status \notin {"rolledback", "headless"}}}

\* project_inspection, and the supersession that follows it.
Projection(j, read) ==
  IF j \notin read THEN NoItem
  ELSE IF j.status = "headless" THEN [NoItem EXCEPT !.status = "damaged", !.inspectable = TRUE]
  ELSE [plan |-> j.id, undoOf |-> j.undoOf, status |-> j.status, inspectable |-> TRUE,
        recoveryAvailable |-> j.status = "attention",
        undoAvailable |-> /\ j.status = "completed" /\ j.undoOf = 0
                          /\ j.id \notin Superseded(read)]

Largest(ids) == CHOOSE i \in ids \cup {0} : \A k \in ids : k <= i

\* Mutant: only the headers that were read count.
LatestReadId(disk) == Largest({j.id : j \in {k \in Read(disk) : k.status # "headless"}})

\* latest_plan_id: latest_named_plan_id is of every file, read or not.
LatestPlanId(disk) == Largest({j.id : j \in disk})

\* Mutant: a refresh numbers the items anew.
LedgerIdAnew(known, found, f) == Cardinality({g \in found : g = f \/ Before(g, f)})

\* The ledger id of file f: the one it has in the items known so far, or the
\* next ones in the order of discovery.
LedgerId(known, found, f) ==
  IF f \in DOMAIN known THEN known[f].ledgerId
  ELSE Largest({known[g].ledgerId : g \in DOMAIN known})
         + Cardinality({g \in found \ DOMAIN known : g = f \/ Before(g, f)})

\* RenameLedger::discover with no items known, and refresh with those of the
\* ledger.  The item that says the count was exceeded comes last.
Discovered(disk, known) ==
  LET read  == Read(disk)
      found == {FileOf(j) : j \in Candidates(disk)}
                 \cup (IF Cardinality(disk) > MaxJournals THEN {NoFile} ELSE {})
      entry(f) == IF f = NoFile THEN NoItem
                  ELSE Projection(CHOOSE j \in disk : FileOf(j) = f, read)
  IN [items  |-> [f \in found |-> [ledgerId |-> LedgerId(known, found, f), entry |-> entry(f)]],
      latest |-> LatestPlanId(disk)]

NoItems == [f \in {} |-> 0]

-----------------------------------------------------------------------------
Init ==
  /\ at \in {a \in [Objects -> Names] : \A o, p \in Objects : a[o] = a[p] => o = p}
  /\ journals = {} /\ ledger = [items |-> NoItems, latest |-> 0]
  /\ nextPlanId = 1 /\ executing = None /\ snapshot = None /\ undisturbed = None
  /\ skipped = FALSE /\ moves = 0

(***************************************************************************)
(* execute_frozen_plan: the journal is created, and the header written     *)
(* unless that fails.  Then the renames have begun.                        *)
(***************************************************************************)
Start(file, graph, original, locked) ==
  LET journal == [kind |-> file.kind, id |-> file.id, undoOf |-> original, names |-> graph,
                  status |-> "attention"]
  IN /\ file \notin {FileOf(j) : j \in journals}
     /\ undisturbed' = file
     /\ \/ /\ journals' = journals \cup {journal}
           /\ executing' = [file |-> file, locked |-> locked]
           /\ at' = [o \in Objects |-> IF o \in DOMAIN graph THEN Temporary ELSE at[o]]
        \/ /\ journals' = journals \cup {[journal EXCEPT !.status = "headless"]}
           /\ executing' = None /\ at' = at

\* A graph that a frozen plan may have: every source changes its name, to
\* one that is free or that another of the sources gives up.
Plannable(graph) ==
  /\ \A o \in DOMAIN graph :
       /\ graph[o].original = at[o] /\ graph[o].final # at[o]
       /\ Free(graph[o].final) \/ \E p \in DOMAIN graph : at[p] = graph[o].final
  /\ \A o, p \in DOMAIN graph : graph[o].final = graph[p].final => o = p

\* An apply of a reviewed plan: its id was allocated by planning.
Apply ==
  /\ executing = None /\ nextPlanId <= MaxPlanId
  /\ \E graph \in Graphs : /\ Plannable(graph)
                           /\ Start([kind |-> "plan", id |-> nextPlanId], graph, 0, FALSE)
  /\ nextPlanId' = nextPlanId + 1 /\ snapshot' = None
  /\ UNCHANGED <<ledger, skipped, moves>>

WithStatus(f, s) ==
  {IF FileOf(j) = f THEN [j EXCEPT !.status = s] ELSE j : j \in journals}

\* Where the sources are once the execution has ended with status s.
Placed(j, s) ==
  [o \in Objects |-> IF o \notin Sources(j) THEN at[o]
                     ELSE IF s = "completed" THEN j.names[o].final ELSE j.names[o].original]

\* The execution ends: completed or rolled back if the names allow it, or as
\* one that has to be recovered.  The ledger is refreshed, or that fails.
Finish ==
  /\ executing # None
  /\ LET f == executing.file
         j == JournalIn(f)
     IN \/ \E s \in {"completed", "rolledback"} :
             /\ \A o \in Sources(j) : Free(Placed(j, s)[o])
             /\ at' = Placed(j, s) /\ journals' = WithStatus(f, s)
        \/ UNCHANGED <<at, journals>>
  /\ executing' = None
  /\ ledger' \in {ledger, Discovered(journals', ledger.items)}
  /\ UNCHANGED <<nextPlanId, snapshot, undisturbed, skipped, moves>>

\* The process dies: the journal it wrote keeps its frames or ends in a torn
\* one.  The next run initializes from the disk.
Crash ==
  /\ journals' \in {journals} \cup
       (IF executing = None THEN {} ELSE {WithStatus(executing.file, "torn")})
  /\ executing' = None /\ snapshot' = None
  /\ ledger' = Discovered(journals', NoItems)
  /\ nextPlanId' = LatestPlanId(journals) + 1
  /\ UNCHANGED <<at, undisturbed, skipped, moves>>

\* Another program renames objects, as many as it does between two steps of
\* the application.
MoveForeign ==
  /\ moves < MaxMoves /\ moves' = moves + 1
  /\ \E moved \in [Objects -> Names \cup {Temporary}] :
       /\ \A o \in Objects : moved[o] = Temporary <=> at[o] = Temporary
       /\ \A o, p \in Objects : moved[o] = moved[p] => o = p \/ moved[o] = Temporary
       /\ moved # at /\ at' = moved
  /\ undisturbed' = None
  /\ UNCHANGED <<journals, ledger, nextPlanId, executing, snapshot, skipped>>

LedgerIsFree == executing # None => ~executing.locked

\* list_ledger
Refresh ==
  /\ LedgerIsFree /\ ledger' = Discovered(journals, ledger.items) /\ snapshot' = None
  /\ UNCHANGED <<at, journals, nextPlanId, executing, undisturbed, skipped, moves>>

-----------------------------------------------------------------------------
(***************************************************************************)
(* undo.rs.  owned_final_destinations: a name that a source of the         *)
(* transaction has now is no obstacle to another one.                      *)
(***************************************************************************)
\* Mutant: every occupied name is an obstacle.
DestinationIsFree(j, o) == Free(j.names[o].original)

UndoDestinationIsAvailable(j, o) ==
  \A p \in Objects : at[p] = j.names[o].original =>
     p \in Sources(j) /\ j.names[p].final = j.names[o].original

\* inspect_undo_records
UndoIsReady(j) ==
  /\ j.status = "completed" /\ j.undoOf = 0
  /\ \A o \in Sources(j) : at[o] = j.names[o].final /\ UndoDestinationIsAvailable(j, o)

\* Mutant: the names alone decide.
InspectUndoByNames ==
  /\ LedgerIsFree /\ ledger' = Discovered(journals, ledger.items)
  /\ skipped' = (skipped \/ ~ReadsAll(journals))
  /\ \E f \in DOMAIN ledger'.items \ {NoFile} :
       /\ ledger'.items[f].entry.inspectable
       /\ executing # None => executing.file # f
       /\ snapshot' = IF UndoIsReady(JournalIn(f)) THEN f ELSE None
  /\ UNCHANGED <<at, journals, nextPlanId, executing, undisturbed, moves>>

\* inspect_undo_transaction_snapshot of an item the refreshed ledger lists and
\* no undo supersedes.  The journal is opened under its lock: one that is
\* executing is not.
InspectUndo ==
  /\ LedgerIsFree /\ ledger' = Discovered(journals, ledger.items)
  /\ skipped' = (skipped \/ ~ReadsAll(journals))
  /\ \E f \in DOMAIN ledger'.items \ {NoFile} :
       /\ ledger'.items[f].entry.inspectable
       /\ executing # None => executing.file # f
       /\ \A g \in DOMAIN ledger'.items :
            ledger'.items[g].entry.undoOf = f.id => ledger'.items[g].entry.status = "rolledback"
       /\ snapshot' = IF UndoIsReady(JournalIn(f)) THEN f ELSE None
  /\ UNCHANGED <<at, journals, nextPlanId, executing, undisturbed, moves>>

\* Mutant: the records are not inspected again before the undo is prepared.
ExecuteUndoAsInspected ==
  /\ snapshot # None /\ executing = None /\ snapshot' = None
  /\ LET j  == JournalIn(snapshot)
         id == IF nextPlanId > ledger.latest THEN nextPlanId ELSE ledger.latest + 1
         graph == [o \in Sources(j) |-> [original |-> j.names[o].final,
                                         final    |-> j.names[o].original]]
     IN /\ id <= MaxPlanId /\ nextPlanId' = id + 1
        /\ Start([kind |-> "undo", id |-> id], graph, j.id, TRUE)
  /\ UNCHANGED <<ledger, skipped, moves>>

\* prepare_undo_transaction_from_snapshot and execute_prepared_undo, with the
\* plan id that allocate_transaction_plan_id takes.
ExecuteUndo ==
  /\ snapshot # None /\ executing = None /\ snapshot' = None
  /\ LET j  == JournalIn(snapshot)
         id == IF nextPlanId > ledger.latest THEN nextPlanId ELSE ledger.latest + 1
         graph == [o \in Sources(j) |-> [original |-> j.names[o].final,
                                         final    |-> j.names[o].original]]
     IN /\ id <= MaxPlanId /\ nextPlanId' = id + 1
        /\ \/ UndoIsReady(j) /\ Start([kind |-> "undo", id |-> id], graph, j.id, TRUE)
           \/ ~UndoIsReady(j) /\ UNCHANGED <<at, journals, executing, undisturbed>>
  /\ UNCHANGED <<ledger, skipped, moves>>

\* A transaction that needs attention is resumed or rolled back.
Recover ==
  /\ executing = None /\ snapshot' = None
  /\ \E f \in DOMAIN ledger.items \ {NoFile} :
       /\ ledger.items[f].entry.recoveryAvailable /\ JournalIn(f).status = "attention"
       /\ executing' = [file |-> f, locked |-> TRUE]
       /\ undisturbed' = IF f = undisturbed THEN f ELSE None
  /\ UNCHANGED <<at, journals, ledger, nextPlanId, skipped, moves>>

Next ==
  \/ Apply \/ Finish \/ Crash \/ MoveForeign
  \/ Refresh \/ InspectUndo \/ ExecuteUndo \/ Recover

Spec == Init /\ [][Next]_vars

-----------------------------------------------------------------------------
NothingUndoneAgain ==
  \A j, k \in journals :
    /\ j.undoOf # 0 /\ j.undoOf = k.undoOf
    /\ {j.status, k.status} \cap {"rolledback", "headless"} = {}
    => j = k

\* A transaction is not undone a second time, whatever crashed or was rolled
\* back in between and however many journals the count left out
\* (undo.rs:200, ledger.rs:232, 528): two undo journals of one original that
\* took effect would take back what a later transaction did.  It takes an
\* inspection that ran out of bytes (ledger.rs:196), which does not see what
\* undid the transaction before.
UndoneAtMostOnce == skipped \/ NothingUndoneAgain

\* No two journals bear the same plan id, although a header may be missing
\* and files may be left unread (ledger.rs:522).
PlanIdsAreFresh == \A j, k \in journals : j.id = k.id => j = k

\* A ledger id a listing has shown names the same journal in the next one or
\* none at all (ledger.rs:276): the shell asks for an inspection by it.
LedgerIdsKeepTheirMeaning ==
  [][Crash \/ \A f \in DOMAIN ledger.items, g \in DOMAIN ledger'.items :
                ledger.items[f].ledgerId = ledger'.items[g].ledgerId => f = g]_vars

\* The last transaction, once completed, can be undone as long as no other
\* program renames anything, also when its sources exchanged names (undo.rs:427), and
\* the next listing says so if it has the bytes for what it lists.
LastTransactionIsUndoable ==
  \A j \in journals :
    FileOf(j) = undisturbed /\ j.undoOf = 0 /\ j.status = "completed" =>
      /\ UndoIsReady(j)
      /\ ReadsAll(journals) =>
           Discovered(journals, ledger.items).items[undisturbed].entry.undoAvailable

\* An undo begins only while each of its sources has the name the original
\* gave it and no stranger has one it goes back to, whatever was renamed
\* since the inspection (undo.rs:278).
UndoBeginsFromItsNames ==
  [][executing' # None /\ executing = None /\ executing'.file.kind = "undo"
     /\ executing'.file \notin {FileOf(j) : j \in journals} =>
       LET j == CHOOSE k \in journals' : FileOf(k) = executing'.file IN
         \A o \in Sources(j), p \in Objects :
           /\ at[o] = j.names[o].original
           /\ at[p] = j.names[o].final => p \in Sources(j)]_vars
=============================================================================

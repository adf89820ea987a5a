---------------------------- MODULE UndoLedgerProofs ----------------------------
(***************************************************************************)
(* Proofs that plan ids and ledger ids keep apart what they name, that an  *)
(* undo begins from the names its original gave, and that a transaction is *)
(* undone at most once and the last one can be, for any objects, names and *)
(* limits.                                                                 *)
(***************************************************************************)
EXTENDS UndoLedger, NaturalLemmas

-----------------------------------------------------------------------------
(***************************************************************************)
(* The inductive invariant.                                                *)
(***************************************************************************)
AllFiles == JournalFiles \cup {NoFile}

\* A journal has a plan id that was allocated, and an undo a later one than
\* its original.
IdsAreAllocated == \A j \in journals : j.id < nextPlanId /\ j.undoOf < j.id

\* Items that were shown have ledger ids of their own.
ApartInLedger(items) ==
  /\ \A f \in DOMAIN items : items[f].ledgerId \in Nat
  /\ \A f, g \in DOMAIN items : items[f].ledgerId = items[g].ledgerId => f = g

\* What executes needs attention.
ExecutingIsOpen ==
  executing # None => \A j \in journals : FileOf(j) = executing.file => j.status = "attention"

\* No two objects have one name, and no two sources of a transaction go to
\* one name or come from one.
NamesApart == \A o, p \in Objects : at[o] = at[p] => o = p \/ at[o] = Temporary
GraphsApart ==
  \A j \in journals, o, p \in Objects :
    o \in Sources(j) /\ p \in Sources(j) =>
      /\ j.names[o].original = j.names[p].original => o = p
      /\ j.names[o].final = j.names[p].final => o = p

\* The sources of the undisturbed transaction are where its status says, and
\* nothing else has a name one of them goes back to.
InPlace(j) ==
  /\ j.status \in {"attention", "torn"} => \A o \in Sources(j) : at[o] = Temporary
  /\ j.status = "completed" => \A o \in Sources(j) : at[o] = j.names[o].final
  /\ j.status \notin {"headless", "rolledback"} =>
       \A o \in Sources(j), p \in Objects \ Sources(j) : at[p] # j.names[o].original

UndisturbedIsLast ==
  undisturbed # None =>
    /\ \E j \in journals : FileOf(j) = undisturbed
    /\ executing # None => executing.file = undisturbed
    /\ \A j \in journals : /\ j.id <= undisturbed.id
                           /\ FileOf(j) = undisturbed => InPlace(j)

\* An inspection for an undo is of a journal on disk.
InspectedExists == snapshot # None => \E j \in journals : FileOf(j) = snapshot

IInv ==
  /\ TypeOK /\ PlanIdsAreFresh /\ IdsAreAllocated /\ ApartInLedger(ledger.items)
  /\ InspectedExists /\ ExecutingIsOpen /\ NamesApart /\ GraphsApart /\ UndisturbedIsLast

\* No transaction that is inspected for an undo has one that took effect.
HasNoUndo(id) == \A j \in journals : j.undoOf = id => j.status \in {"rolledback", "headless"}
InspectedHasNoUndo ==
  snapshot # None =>
    /\ HasNoUndo(snapshot.id)
    /\ \E j \in journals : FileOf(j) = snapshot /\ j.undoOf = 0 /\ j.status = "completed"

UndoInv == NothingUndoneAgain /\ InspectedHasNoUndo

-----------------------------------------------------------------------------
(***************************************************************************)
(* Journals and their files.                                               *)
(***************************************************************************)
LEMMA LimitsTyped ==
  /\ MaxPlanId \in Nat /\ MaxPlanId >= 1 /\ MaxJournals \in Nat /\ MaxJournals >= 1
  /\ MaxBytes \in Nat /\ MaxMoves \in Nat
  BY LimitsAssumption

LEMMA FileTyped ==
  ASSUME NEW j \in Journals
  PROVE  /\ FileOf(j) \in JournalFiles /\ FileOf(j).id = j.id /\ FileOf(j).kind = j.kind
         /\ j.id \in Nat /\ j.id >= 1 /\ j.id <= MaxPlanId /\ j.undoOf \in Nat
         /\ FileOf(j) # None /\ FileOf(j) # NoFile
  BY LimitsTyped, NoneAssumption DEF Journals, JournalFiles, FileOf, PlanIds, NoFile

LEMMA JournalInIs ==
  ASSUME TypeOK, NEW j \in journals
  PROVE  JournalIn(FileOf(j)) = j
  BY DEF JournalIn, TypeOK

\* There are finitely many journal files.
LEMMA FilesAreFinite == IsFiniteSet(AllFiles)
  <1> DEFINE Keys == {"plan", "undo"} \X PlanIds
             key == [f \in JournalFiles |-> <<f.kind, f.id>>]
  <1>1. IsFiniteSet(Keys)
    <2>1. IsFiniteSet(PlanIds)
      BY FS_Interval, LimitsTyped DEF PlanIds
    <2>2. IsFiniteSet({"plan", "undo"})
      <3>1. IsFiniteSet({"plan"})
        BY FS_Singleton, Zenon
      <3>2. IsFiniteSet({"plan"} \cup {"undo"}) /\ {"plan"} \cup {"undo"} = {"plan", "undo"}
        BY <3>1, FS_AddElement, Zenon
      <3> QED BY <3>2, Zenon
    <2> QED BY <2>1, <2>2, FS_Product, Zenon
  <1>2. key \in [JournalFiles -> Keys] /\ \A f, g \in JournalFiles : key[f] = key[g] => f = g
    BY DEF JournalFiles
  <1>3. IsFiniteSet(JournalFiles)
    <2> HIDE DEF Keys, key
    <2> QED BY <1>1, <1>2, FiniteByInjection, Zenon
  <1> QED BY <1>3, FS_AddElement, Zenon DEF AllFiles

LEMMA JournalsAreFinite ==
  ASSUME NEW disk \in SUBSET Journals, \A j, k \in disk : FileOf(j) = FileOf(k) => j = k
  PROVE  IsFiniteSet(disk)
  <1> DEFINE file == [j \in disk |-> FileOf(j)]
  <1>1. file \in [disk -> AllFiles] /\ \A j, k \in disk : file[j] = file[k] => j = k
    BY FileTyped DEF AllFiles
  <1> QED BY <1>1, FilesAreFinite, FiniteByInjection, Zenon

LEMMA LargestIs ==
  ASSUME NEW ids \in SUBSET Nat, IsFiniteSet(ids)
  PROVE  Largest(ids) \in ids \cup {0} /\ Largest(ids) \in Nat /\ \A k \in ids : k <= Largest(ids)
  <1> DEFINE all == ids \cup {0}
  <1>1. IsFiniteSet(all)
    BY FS_AddElement, Zenon
  <1>2. all \in SUBSET Nat /\ all # {} /\ ids \subseteq all
    OBVIOUS
  <1>3. \E i \in all : \A k \in all : k <= i
    <2> HIDE DEF all
    <2> QED BY <1>1, <1>2, LargestOfFinite, Zenon
  <1>4. \E i \in ids \cup {0} : \A k \in ids : k <= i
    BY <1>3
  <1>5. Largest(ids) \in ids \cup {0} /\ \A k \in ids : k <= Largest(ids)
    BY <1>4, Zenon DEF Largest
  <1>6. ids \cup {0} \subseteq Nat
    OBVIOUS
  <1> QED BY <1>5, <1>6, Zenon

LEMMA LatestIs ==
  ASSUME NEW disk \in SUBSET Journals
  PROVE  LatestPlanId(disk) \in 0..MaxPlanId /\ \A j \in disk : j.id <= LatestPlanId(disk)
  <1> DEFINE ids == {j.id : j \in disk}
  <1>1. ids \in SUBSET (1..MaxPlanId)
    BY LimitsTyped DEF Journals, PlanIds
  <1>2. IsFiniteSet(ids) /\ ids \in SUBSET Nat
    <2>1. IsFiniteSet(1..MaxPlanId)
      BY FS_Interval, LimitsTyped
    <2>2. 1..MaxPlanId \subseteq Nat
      BY LimitsTyped
    <2> HIDE DEF ids
    <2> QED BY <1>1, <2>1, <2>2, FS_Subset, Zenon
  <1>3. Largest(ids) \in ids \cup {0} /\ \A k \in ids : k <= Largest(ids)
    <2> HIDE DEF ids
    <2> QED BY <1>2, LargestIs
  <1> QED BY <1>1, <1>3, LimitsTyped DEF LatestPlanId

-----------------------------------------------------------------------------
(***************************************************************************)
(* Discovery.                                                              *)
(***************************************************************************)
\* The files discovery lists, and what it says of one.
Found(disk) ==
  {FileOf(j) : j \in Candidates(disk)}
    \cup (IF Cardinality(disk) > MaxJournals THEN {NoFile} ELSE {})
EntryOf(disk, f) ==
  IF f = NoFile THEN NoItem ELSE Projection(CHOOSE j \in disk : FileOf(j) = f, Read(disk))

LEMMA DiscoveredIs ==
  ASSUME NEW disk, NEW known
  PROVE  Discovered(disk, known) =
           [items  |-> [f \in Found(disk) |-> [ledgerId |-> LedgerId(known, Found(disk), f),
                                               entry    |-> EntryOf(disk, f)]],
            latest |-> LatestPlanId(disk)]
  BY Zenon DEF Discovered, Found, EntryOf

LEMMA FoundAreFiles ==
  ASSUME NEW disk \in SUBSET Journals
  PROVE  /\ Found(disk) \subseteq {FileOf(j) : j \in disk} \cup {NoFile}
         /\ Found(disk) \subseteq AllFiles /\ IsFiniteSet(Found(disk))
         /\ \A f \in Found(disk) \ {NoFile} : \E j \in Candidates(disk) : FileOf(j) = f
         /\ \A j \in Candidates(disk) : j \in disk /\ FileOf(j) \in Found(disk)
  <1>1. \A j \in Candidates(disk) : j \in disk
    BY DEF Candidates
  <1>2. Found(disk) \subseteq {FileOf(j) : j \in disk} \cup {NoFile}
    BY <1>1 DEF Found
  <1>3. Found(disk) \subseteq AllFiles
    BY <1>2, FileTyped DEF AllFiles
  <1>4. IsFiniteSet(Found(disk))
    BY <1>3, FilesAreFinite, FS_Subset, Zenon
  <1> QED BY <1>1, <1>2, <1>3, <1>4 DEF Found

\* Files have an order without ties.
LEMMA BeforeIsTotal ==
  ASSUME NEW f \in AllFiles, NEW g \in AllFiles
  PROVE  /\ f = g \/ Before(f, g) \/ Before(g, f)
         /\ ~(Before(f, g) /\ (f = g \/ Before(g, f)))
         /\ \A h \in AllFiles : Before(h, f) /\ Before(f, g) => Before(h, g)
  BY LimitsTyped DEF AllFiles, JournalFiles, NoFile, PlanIds, Before

\* A file that is found anew gets an id beyond those known, and two of them
\* get two.
LEMMA NewLedgerIds ==
  ASSUME NEW known, DOMAIN known \subseteq AllFiles, ApartInLedger(known),
         NEW found \in SUBSET AllFiles
  PROVE  /\ \A f \in found : LedgerId(known, found, f) \in Nat
         /\ \A f \in DOMAIN known : LedgerId(known, found, f) = known[f].ledgerId
         /\ \A f \in DOMAIN known, g \in found \ DOMAIN known :
              known[f].ledgerId < LedgerId(known, found, g)
         /\ \A f, g \in found \ DOMAIN known :
              LedgerId(known, found, f) = LedgerId(known, found, g) => f = g
  <1> DEFINE ids == {known[g].ledgerId : g \in DOMAIN known}
             new == found \ DOMAIN known
             upTo(f) == {g \in new : g = f \/ Before(g, f)}
  <1>1. ids \in SUBSET Nat /\ IsFiniteSet(ids)
    <2> DEFINE shown == [g \in DOMAIN known |-> known[g].ledgerId]
    <2>1. IsFiniteSet(DOMAIN known)
      BY FilesAreFinite, FS_Subset, Zenon
    <2>2. IsFiniteSet({shown[g] : g \in DOMAIN known})
      <3>1. DOMAIN shown = DOMAIN known /\ shown = [g \in DOMAIN known |-> shown[g]]
        OBVIOUS
      <3> HIDE DEF shown
      <3> QED BY <2>1, <3>1, FiniteImage, Zenon
    <2>3. ids = {shown[g] : g \in DOMAIN known}
      OBVIOUS
    <2>4. ids \in SUBSET Nat
      BY DEF ApartInLedger
    <2> QED BY <2>2, <2>3, <2>4
  <1>2. Largest(ids) \in Nat /\ \A f \in DOMAIN known : known[f].ledgerId <= Largest(ids)
    <2>1. Largest(ids) \in Nat /\ \A k \in ids : k <= Largest(ids)
      <3> HIDE DEF ids
      <3> QED BY <1>1, LargestIs
    <2> QED BY <2>1
  <1>3. \A f \in found : f \notin DOMAIN known =>
          LedgerId(known, found, f) = Largest(ids) + Cardinality(upTo(f))
    BY Zenon DEF LedgerId
  <1>4. \A f \in new : IsFiniteSet(upTo(f)) /\ Cardinality(upTo(f)) \in Nat
                       /\ Cardinality(upTo(f)) >= 1
    <2> SUFFICES ASSUME NEW f \in new
                 PROVE  IsFiniteSet(upTo(f)) /\ Cardinality(upTo(f)) \in Nat
                        /\ Cardinality(upTo(f)) >= 1
      OBVIOUS
    <2>1. upTo(f) \in SUBSET AllFiles /\ f \in upTo(f)
      OBVIOUS
    <2> HIDE DEF upTo, new
    <2>2. IsFiniteSet(upTo(f))
      BY <2>1, FilesAreFinite, FS_Subset, Zenon
    <2>3. Cardinality(upTo(f)) \in Nat /\ Cardinality(upTo(f)) # 0
      BY <2>1, <2>2, FS_CardinalityType, FS_EmptySet
    <2> QED BY <2>2, <2>3
  <1>5. ASSUME NEW f \in new, NEW g \in new, Before(f, g)
        PROVE  Cardinality(upTo(f)) < Cardinality(upTo(g))
    <2>1. \A h \in upTo(f) : h \in upTo(g)
      BY <1>5, BeforeIsTotal
    <2>2. g \in upTo(g) /\ g \notin upTo(f)
      BY <1>5, BeforeIsTotal
    <2>3. upTo(f) \in SUBSET upTo(g) /\ upTo(f) # upTo(g)
      BY <2>1, <2>2
    <2> HIDE DEF upTo, new
    <2> QED BY <1>4, <2>3, StrictSubsetIsSmaller
  <1>6. \A f \in DOMAIN known : LedgerId(known, found, f) = known[f].ledgerId
                                /\ known[f].ledgerId \in Nat
    BY DEF LedgerId, ApartInLedger
  <1>7. \A f \in new : LedgerId(known, found, f) \in Nat
                       /\ LedgerId(known, found, f) > Largest(ids)
    <2> HIDE DEF upTo, ids
    <2> QED BY <1>2, <1>3, <1>4
  <1>8. \A f \in found : LedgerId(known, found, f) \in Nat
    BY <1>6, <1>7
  <1>9. \A f \in DOMAIN known, g \in found \ DOMAIN known :
          known[f].ledgerId < LedgerId(known, found, g)
    <2> HIDE DEF ids
    <2> QED BY <1>2, <1>6, <1>7
  <1>10. ASSUME NEW f \in new, NEW g \in new,
                LedgerId(known, found, f) = LedgerId(known, found, g)
         PROVE  f = g
    <2>1. Cardinality(upTo(f)) = Cardinality(upTo(g))
      <3> HIDE DEF upTo, ids
      <3> QED BY <1>2, <1>3, <1>4, <1>10
    <2>2. ~Before(f, g) /\ ~Before(g, f)
      <3> HIDE DEF upTo, new
      <3> QED BY <1>4, <1>5, <2>1
    <2> QED BY <2>2, BeforeIsTotal
  <1> QED BY <1>6, <1>8, <1>9, <1>10

\* Discovery keeps apart in the ledger what it lists, and does not list
\* another file under an id that is known.
LEMMA DiscoveryKeepsApart ==
  ASSUME NEW disk \in SUBSET Journals, NEW known, DOMAIN known \subseteq AllFiles,
         ApartInLedger(known)
  PROVE  LET items == Discovered(disk, known).items IN
           /\ ApartInLedger(items)
           /\ \A f \in DOMAIN known, g \in DOMAIN items :
                known[f].ledgerId = items[g].ledgerId => f = g
  <1> DEFINE items == Discovered(disk, known).items
  <1>1. /\ DOMAIN items = Found(disk)
        /\ \A f \in Found(disk) : items[f].ledgerId = LedgerId(known, Found(disk), f)
    BY DiscoveredIs
  <1>2. Found(disk) \in SUBSET AllFiles
    BY FoundAreFiles
  <1>3. /\ \A f \in Found(disk) : items[f].ledgerId \in Nat
        /\ \A f \in Found(disk) \cap DOMAIN known : items[f].ledgerId = known[f].ledgerId
        /\ \A f \in DOMAIN known, g \in Found(disk) \ DOMAIN known :
             known[f].ledgerId < items[g].ledgerId
        /\ \A f, g \in Found(disk) \ DOMAIN known :
             items[f].ledgerId = items[g].ledgerId => f = g
    <2> DEFINE id(f) == LedgerId(known, Found(disk), f)
    <2>1. /\ \A f \in Found(disk) : id(f) \in Nat
          /\ \A f \in DOMAIN known : id(f) = known[f].ledgerId
          /\ \A f \in DOMAIN known, g \in Found(disk) \ DOMAIN known :
               known[f].ledgerId < id(g)
          /\ \A f, g \in Found(disk) \ DOMAIN known : id(f) = id(g) => f = g
      BY <1>2, NewLedgerIds, Zenon
    <2>2. \A f \in Found(disk) : items[f].ledgerId = id(f)
      BY <1>1, Zenon
    <2> HIDE DEF items, id
    <2> QED BY <2>1, <2>2
  <1> HIDE DEF items
  <1>4. \A f \in DOMAIN known, g \in Found(disk) :
          known[f].ledgerId = items[g].ledgerId => f = g
    BY <1>3 DEF ApartInLedger
  <1>5. \A f, g \in Found(disk) : items[f].ledgerId = items[g].ledgerId => f = g
    BY <1>3, <1>4 DEF ApartInLedger
  <1>6. ApartInLedger(items)
    BY <1>1, <1>3, <1>5 DEF ApartInLedger
  <1> QED BY <1>1, <1>4, <1>6 DEF items

-----------------------------------------------------------------------------
(***************************************************************************)
(* A transaction begins.                                                   *)
(***************************************************************************)
LEMMA GraphTyped ==
  ASSUME NEW graph \in Graphs
  PROVE  /\ DOMAIN graph \subseteq Objects /\ DOMAIN graph # {}
         /\ \A o \in DOMAIN graph : /\ graph[o] \in [original : Names, final : Names]
                                    /\ graph[o].original \in Names /\ graph[o].final \in Names
  <1>1. PICK S \in (SUBSET Objects) \ {{}} : graph \in [S -> [original : Names, final : Names]]
    BY Zenon DEF Graphs
  <1>2. DOMAIN graph = S /\ S \subseteq Objects /\ S # {}
    BY <1>1
  <1>3. \A o \in DOMAIN graph : graph[o] \in [original : Names, final : Names]
    BY <1>1
  <1>4. \A o \in DOMAIN graph : graph[o].original \in Names /\ graph[o].final \in Names
    BY <1>3
  <1> QED BY <1>2, <1>3, <1>4, Zenon

\* What is known of a transaction when its execution starts.
CanStart(file, graph, original, locked) ==
  /\ file \in JournalFiles /\ graph \in Graphs /\ original \in 0..MaxPlanId /\ locked \in BOOLEAN
  /\ \A j \in journals : j.id < file.id
  /\ original < file.id
  /\ \A o \in DOMAIN graph : graph[o].original = at[o]
  /\ \A o, p \in DOMAIN graph : graph[o].final = graph[p].final => o = p

NewJournal(file, graph, original, s) ==
  [kind |-> file.kind, id |-> file.id, undoOf |-> original, names |-> graph, status |-> s]

\* A journal that needs attention, and its sources under temporary names; or
\* one without a header, and nothing else.
LEMMA StartIs ==
  ASSUME NEW file \in JournalFiles, NEW graph \in Graphs, NEW original \in 0..MaxPlanId,
         NEW locked, Start(file, graph, original, locked)
  PROVE  \E s \in {"attention", "headless"} : LET new == NewJournal(file, graph, original, s) IN
           /\ new \in Journals /\ FileOf(new) = file /\ undisturbed' = file
           /\ journals' = journals \cup {new} /\ new \notin journals
           /\ \A j \in journals : FileOf(j) # file
           /\ s = "attention" =>
                /\ executing' = [file |-> file, locked |-> locked]
                /\ at' = [o \in Objects |-> IF o \in DOMAIN graph THEN Temporary ELSE at[o]]
           /\ s = "headless" => executing' = None /\ at' = at
  <1> DEFINE new(s) == NewJournal(file, graph, original, s)
  <1>1. \A s \in {"attention", "headless"} : new(s) \in Journals /\ FileOf(new(s)) = file
    BY DEF NewJournal, Journals, JournalFiles, FileOf, Statuses
  <1>2. [new("attention") EXCEPT !.status = "headless"] = new("headless")
    BY DEF NewJournal
  <1>3. /\ \A j \in journals : FileOf(j) # file
        /\ undisturbed' = file
    BY Zenon DEF Start
  <1>4. \A s \in {"attention", "headless"} : new(s) \notin journals
    BY <1>1, <1>3, Zenon
  <1>5. \/ /\ journals' = journals \cup {new("attention")}
           /\ executing' = [file |-> file, locked |-> locked]
           /\ at' = [o \in Objects |-> IF o \in DOMAIN graph THEN Temporary ELSE at[o]]
        \/ /\ journals' = journals \cup {new("headless")}
           /\ executing' = None /\ at' = at
    BY <1>2, Zenon DEF Start, NewJournal
  <1> HIDE DEF new
  <1>6. \E s \in {"attention", "headless"} :
           /\ journals' = journals \cup {new(s)}
           /\ s = "attention" =>
                /\ executing' = [file |-> file, locked |-> locked]
                /\ at' = [o \in Objects |-> IF o \in DOMAIN graph THEN Temporary ELSE at[o]]
           /\ s = "headless" => executing' = None /\ at' = at
    BY <1>5
  <1> QED BY <1>1, <1>3, <1>4, <1>6, Zenon DEF new

LEMMA StartKeeps ==
  ASSUME IInv, NEW file, NEW graph, NEW original, NEW locked,
         CanStart(file, graph, original, locked), Start(file, graph, original, locked),
         nextPlanId <= file.id, nextPlanId' = file.id + 1, snapshot' = None,
         UNCHANGED <<ledger, skipped, moves>>
  PROVE  IInv'
  <1>1. /\ file \in JournalFiles /\ graph \in Graphs /\ original \in 0..MaxPlanId
        /\ locked \in BOOLEAN
    BY DEF CanStart
  <1>2. PICK s \in {"attention", "headless"} :
          LET new == NewJournal(file, graph, original, s) IN
           /\ new \in Journals /\ FileOf(new) = file /\ undisturbed' = file
           /\ journals' = journals \cup {new} /\ new \notin journals
           /\ \A j \in journals : FileOf(j) # file
           /\ s = "attention" =>
                /\ executing' = [file |-> file, locked |-> locked]
                /\ at' = [o \in Objects |-> IF o \in DOMAIN graph THEN Temporary ELSE at[o]]
           /\ s = "headless" => executing' = None /\ at' = at
    BY <1>1, StartIs, Zenon
  <1> DEFINE new == NewJournal(file, graph, original, s)
  <1>3. /\ new.id = file.id /\ new.undoOf = original /\ new.names = graph /\ new.status = s
        /\ Sources(new) = DOMAIN graph
    BY DEF NewJournal, Sources
  <1>4. new \in Journals /\ FileOf(new) = file /\ journals' = journals \cup {new}
    BY <1>2, Zenon
  <1>5. /\ \A j \in journals : FileOf(j) # file /\ j.id < file.id
        /\ undisturbed' = file
    BY <1>2, Zenon DEF CanStart
  <1>6. /\ s = "attention" =>
             /\ executing' = [file |-> file, locked |-> locked]
             /\ at' = [o \in Objects |-> IF o \in DOMAIN graph THEN Temporary ELSE at[o]]
        /\ s = "headless" => executing' = None /\ at' = at
    BY <1>2, Zenon
  <1>7. DOMAIN graph \subseteq Objects
        /\ \A o \in DOMAIN graph : graph[o].original \in Names /\ graph[o].final \in Names
    BY <1>1, GraphTyped
  <1>8. file.id \in Nat /\ file.id >= 1 /\ file.id <= MaxPlanId
    BY <1>1, LimitsTyped DEF JournalFiles, PlanIds
  <1>9. \A j \in journals : j \in Journals
    BY DEF IInv, TypeOK
  <1> HIDE DEF new
  <1>10. TypeOK'
    <2>1. at' \in [Objects -> Names \cup {Temporary}]
      BY <1>6 DEF IInv, TypeOK
    <2>2. journals' \subseteq Journals
      BY <1>4, <1>9
    <2>3. \A j, k \in journals' : FileOf(j) = FileOf(k) => j = k
      BY <1>4, <1>5 DEF IInv, TypeOK
    <2>4. DOMAIN ledger'.items \subseteq {FileOf(j) : j \in journals'} \cup {NoFile}
          /\ ledger'.latest \in 0..MaxPlanId
      BY <1>4 DEF IInv, TypeOK
    <2>5. nextPlanId' \in 1..(MaxPlanId + 1)
      BY <1>8, LimitsTyped
    <2>6. executing' \in [file : {FileOf(j) : j \in journals'}, locked : BOOLEAN] \cup {None}
      BY <1>1, <1>4, <1>6
    <2>7. snapshot' \in JournalFiles \cup {None} /\ undisturbed' \in JournalFiles \cup {None}
          /\ moves' \in 0..MaxMoves /\ skipped' \in BOOLEAN
      BY <1>1, <1>5 DEF IInv, TypeOK
    <2> QED BY <2>1, <2>2, <2>3, <2>4, <2>5, <2>6, <2>7 DEF TypeOK
  <1>11. PlanIdsAreFresh'
    BY <1>3, <1>4, <1>5, <1>8, <1>9, FileTyped DEF IInv, PlanIdsAreFresh
  <1>12. IdsAreAllocated'
    <2>1. nextPlanId \in Nat
      BY LimitsTyped DEF IInv, TypeOK
    <2>2. original < file.id
      BY DEF CanStart
    <2>3. new.id < nextPlanId' /\ new.undoOf < new.id
      BY <1>3, <1>8, <2>2
    <2>4. \A j \in journals : j.id < nextPlanId' /\ j.undoOf < j.id
      BY <1>5, <1>8, <1>9, FileTyped DEF IInv, IdsAreAllocated
    <2> QED BY <1>4, <2>3, <2>4 DEF IdsAreAllocated
  <1>13. ApartInLedger(ledger.items)'
    BY DEF IInv, ApartInLedger
  <1>14. ExecutingIsOpen'
    <2>1. CASE s = "attention"
      <3>1. \A j \in journals' : FileOf(j) = executing'.file => j = new
        BY <1>4, <1>5, <1>6, <2>1
      <3> QED BY <1>3, <2>1, <3>1 DEF ExecutingIsOpen
    <2>2. CASE s = "headless"
      BY <1>6, <2>2 DEF ExecutingIsOpen
    <2> QED BY <2>1, <2>2
  <1>15. NamesApart'
    BY <1>6, <1>7 DEF IInv, NamesApart
  <1>16. GraphsApart'
    <2>1. \A o, p \in Objects : o \in Sources(new) /\ p \in Sources(new) =>
            /\ new.names[o].original = new.names[p].original => o = p
            /\ new.names[o].final = new.names[p].final => o = p
      <3>1. \A o, p \in DOMAIN graph : graph[o].original = graph[p].original => o = p
        BY <1>7, LimitsAssumption DEF CanStart, IInv, NamesApart
      <3>2. \A o, p \in DOMAIN graph : graph[o].final = graph[p].final => o = p
        BY DEF CanStart
      <3> QED BY <1>3, <3>1, <3>2
    <2> QED BY <1>4, <2>1 DEF IInv, GraphsApart
  <1>17. UndisturbedIsLast'
    <2>1. InPlace(new)'
      <3>1. CASE s = "attention"
        <4>1. \A o \in DOMAIN graph : at'[o] = Temporary
          BY <1>6, <1>7, <3>1
        <4>2. \A o \in DOMAIN graph, p \in Objects \ DOMAIN graph : at'[p] # graph[o].original
          <5> SUFFICES ASSUME NEW o \in DOMAIN graph, NEW p \in Objects \ DOMAIN graph,
                              at'[p] = graph[o].original
                       PROVE  FALSE
            OBVIOUS
          <5>1. at[p] = at[o] /\ at[o] \in Names /\ o # p /\ o \in Objects
            BY <1>6, <1>7, <3>1 DEF CanStart
          <5> QED BY <5>1, LimitsAssumption DEF IInv, NamesApart
        <4> QED BY <1>3, <3>1, <4>1, <4>2 DEF InPlace
      <3>2. CASE s = "headless"
        BY <1>3, <3>2 DEF InPlace
      <3> QED BY <3>1, <3>2
    <2>2. \A j \in journals' : j.id <= undisturbed'.id /\ (FileOf(j) = undisturbed' => j = new)
      BY <1>3, <1>4, <1>5, <1>8, <1>9, FileTyped
    <2>3. \E j \in journals' : FileOf(j) = undisturbed'
      BY <1>4, <1>5
    <2>4. executing' # None => executing'.file = undisturbed'
      BY <1>5, <1>6
    <2> QED BY <2>1, <2>2, <2>3, <2>4 DEF UndisturbedIsLast
  <1>18. InspectedExists'
    BY DEF InspectedExists
  <1> QED BY <1>10, <1>11, <1>12, <1>13, <1>14, <1>15, <1>16, <1>17, <1>18 DEF IInv

-----------------------------------------------------------------------------
(***************************************************************************)
(* The status of a journal changes.                                        *)
(***************************************************************************)
LEMMA StatusMoves ==
  ASSUME journals \subseteq Journals, NEW f, NEW s \in Statuses
  PROVE  /\ WithStatus(f, s) \subseteq Journals
         /\ \A j \in WithStatus(f, s) : \E k \in journals :
              /\ FileOf(j) = FileOf(k) /\ j.id = k.id /\ j.undoOf = k.undoOf
              /\ j.names = k.names
              /\ FileOf(k) # f => j = k
              /\ FileOf(k) = f => j.status = s
         /\ \A k \in journals : \E j \in WithStatus(f, s) :
              /\ FileOf(j) = FileOf(k)
              /\ FileOf(k) # f => j = k
  <1> DEFINE moved(k) == IF FileOf(k) = f THEN [k EXCEPT !.status = s] ELSE k
  <1>1. ASSUME NEW k \in journals
        PROVE  /\ moved(k) \in Journals /\ FileOf(moved(k)) = FileOf(k)
               /\ moved(k).id = k.id /\ moved(k).undoOf = k.undoOf /\ moved(k).names = k.names
               /\ FileOf(k) # f => moved(k) = k
               /\ FileOf(k) = f => moved(k).status = s
    <2>1. k \in Journals
      OBVIOUS
    <2>2. CASE FileOf(k) = f
      <3>1. moved(k) = [k EXCEPT !.status = s]
        BY <2>2
      <3> HIDE DEF moved
      <3> QED BY <2>1, <2>2, <3>1 DEF Journals, FileOf
    <2>3. CASE FileOf(k) # f
      BY <2>1, <2>3
    <2> QED BY <2>2, <2>3
  <1>2. WithStatus(f, s) = {moved(k) : k \in journals}
    BY DEF WithStatus
  <1> HIDE DEF moved
  <1>3. \A j \in WithStatus(f, s) : \E k \in journals : j = moved(k)
    BY <1>2
  <1>4. \A k \in journals : moved(k) \in WithStatus(f, s)
    BY <1>2
  <1>5. WithStatus(f, s) \subseteq Journals
    BY <1>1, <1>3
  <1>6. \A j \in WithStatus(f, s) : \E k \in journals :
          /\ FileOf(j) = FileOf(k) /\ j.id = k.id /\ j.undoOf = k.undoOf
          /\ j.names = k.names
          /\ FileOf(k) # f => j = k
          /\ FileOf(k) = f => j.status = s
    BY <1>1, <1>3, Zenon
  <1>7. \A k \in journals : \E j \in WithStatus(f, s) :
          /\ FileOf(j) = FileOf(k)
          /\ FileOf(k) # f => j = k
    BY <1>1, <1>4, Zenon
  <1> QED BY <1>5, <1>6, <1>7

\* Each journal stays, with the status s if it is the one in file f.
OnlyStatus(f, s) ==
  /\ \A j \in journals' : \E k \in journals :
       /\ FileOf(j) = FileOf(k) /\ j.id = k.id /\ j.undoOf = k.undoOf
       /\ j.names = k.names
       /\ FileOf(k) # f => j = k
       /\ FileOf(k) = f => j.status = s
  /\ \A k \in journals : \E j \in journals' :
       /\ FileOf(j) = FileOf(k)
       /\ FileOf(k) # f => j = k

LEMMA StatusStep ==
  ASSUME journals \subseteq Journals, NEW f, NEW s \in Statuses, journals' = WithStatus(f, s)
  PROVE  journals' \subseteq Journals /\ OnlyStatus(f, s)
  <1> DEFINE moved == WithStatus(f, s)
  <1>1. /\ moved \subseteq Journals
        /\ \A j \in moved : \E k \in journals :
              /\ FileOf(j) = FileOf(k) /\ j.id = k.id /\ j.undoOf = k.undoOf
              /\ j.names = k.names
              /\ FileOf(k) # f => j = k
              /\ FileOf(k) = f => j.status = s
        /\ \A k \in journals : \E j \in moved :
              /\ FileOf(j) = FileOf(k)
              /\ FileOf(k) # f => j = k
    BY StatusMoves, Zenon
  <1>2. journals' = moved
    OBVIOUS
  <1> HIDE DEF moved
  <1> QED BY <1>1, <1>2, Zenon DEF OnlyStatus

\* What IInv says of journals whatever their status.
JournalsTyped ==
  /\ journals \subseteq Journals
  /\ \A j, k \in journals : FileOf(j) = FileOf(k) => j = k
  /\ PlanIdsAreFresh /\ GraphsApart

LEMMA StatusKeeps ==
  ASSUME IInv, NEW f, NEW s \in Statuses, journals' = WithStatus(f, s)
  PROVE  /\ JournalsTyped'
         /\ {FileOf(j) : j \in journals'} = {FileOf(j) : j \in journals}
         /\ \A j \in journals' : j.undoOf < j.id /\ j.id <= LatestPlanId(journals)
         /\ nextPlanId' = nextPlanId => IdsAreAllocated'
  <1>1. /\ journals' \subseteq Journals
        /\ OnlyStatus(f, s)
    BY StatusStep, Zenon DEF IInv, TypeOK
  <1>2. \A j, k \in journals' : FileOf(j) = FileOf(k) => j = k
    <2> SUFFICES ASSUME NEW j \in journals', NEW k \in journals', FileOf(j) = FileOf(k)
                 PROVE  j = k
      OBVIOUS
    <2>1. PICK m \in journals :
              /\ FileOf(j) = FileOf(m) /\ j.id = m.id /\ j.undoOf = m.undoOf
              /\ j.names = m.names
              /\ FileOf(m) # f => j = m
              /\ FileOf(m) = f => j.status = s
      BY <1>1, Zenon DEF OnlyStatus
    <2>2. PICK n \in journals :
              /\ FileOf(k) = FileOf(n) /\ k.id = n.id /\ k.undoOf = n.undoOf
              /\ k.names = n.names
              /\ FileOf(n) # f => k = n
              /\ FileOf(n) = f => k.status = s
      BY <1>1, Zenon DEF OnlyStatus
    <2>3. m = n
      BY <2>1, <2>2 DEF IInv, TypeOK
    <2>4. j \in Journals /\ k \in Journals
      BY <1>1
    <2>5. CASE FileOf(m) = f
      <3>1. j.kind = k.kind
        BY DEF FileOf
      <3>2. j.id = k.id /\ j.undoOf = k.undoOf /\ j.names = k.names /\ j.status = k.status
        BY <2>1, <2>2, <2>3, <2>5
      <3> QED BY <2>4, <3>1, <3>2 DEF Journals
    <2>6. CASE FileOf(m) # f
      BY <2>1, <2>2, <2>3, <2>6
    <2> QED BY <2>5, <2>6
  <1>3. PlanIdsAreFresh'
    <2> SUFFICES ASSUME NEW j \in journals', NEW k \in journals', j.id = k.id
                 PROVE  j = k
      BY DEF PlanIdsAreFresh
    <2>1. PICK m \in journals : FileOf(j) = FileOf(m) /\ j.id = m.id
      BY <1>1, Zenon DEF OnlyStatus
    <2>2. PICK n \in journals : FileOf(k) = FileOf(n) /\ k.id = n.id
      BY <1>1, Zenon DEF OnlyStatus
    <2>3. m = n
      BY <2>1, <2>2 DEF IInv, PlanIdsAreFresh
    <2> QED BY <1>2, <2>1, <2>2, <2>3
  <1>4. GraphsApart'
    <2> SUFFICES ASSUME NEW j \in journals', NEW o \in Objects, NEW p \in Objects,
                        o \in Sources(j), p \in Sources(j)
                 PROVE  /\ j.names[o].original = j.names[p].original => o = p
                        /\ j.names[o].final = j.names[p].final => o = p
      BY DEF GraphsApart
    <2>1. PICK m \in journals : j.names = m.names
      BY <1>1, Zenon DEF OnlyStatus
    <2>2. Sources(j) = Sources(m)
      BY <2>1, Zenon DEF Sources
    <2> QED BY <2>1, <2>2 DEF IInv, GraphsApart
  <1>5. {FileOf(j) : j \in journals'} = {FileOf(j) : j \in journals}
    BY <1>1 DEF OnlyStatus
  <1>6. \A j \in journals' : j.undoOf < j.id /\ j.id <= LatestPlanId(journals)
    <2>1. \A k \in journals : k.undoOf < k.id /\ k.id <= LatestPlanId(journals)
      BY LatestIs DEF IInv, TypeOK, IdsAreAllocated
    <2> QED BY <1>1, <2>1 DEF OnlyStatus
  <1>7. nextPlanId' = nextPlanId => IdsAreAllocated'
    <2>1. \A k \in journals : k.id < nextPlanId /\ k.undoOf < k.id
      BY DEF IInv, IdsAreAllocated
    <2> QED BY <1>1, <2>1 DEF IdsAreAllocated, OnlyStatus
  <1> QED BY <1>1, <1>2, <1>3, <1>4, <1>5, <1>6, <1>7 DEF JournalsTyped

\* What a ledger says after a discovery.
LEMMA LedgerKeeps ==
  ASSUME IInv, journals' \subseteq Journals, NEW known,
         known = NoItems \/ known = ledger.items,
         {FileOf(j) : j \in journals} \subseteq {FileOf(j) : j \in journals'},
         ledger' = Discovered(journals', known)
  PROVE  /\ DOMAIN ledger'.items \subseteq {FileOf(j) : j \in journals'} \cup {NoFile}
         /\ ledger'.latest \in 0..MaxPlanId
         /\ ApartInLedger(ledger'.items)
         /\ \A f \in DOMAIN known, g \in DOMAIN ledger'.items :
              known[f].ledgerId = ledger'.items[g].ledgerId => f = g
  <1>1. /\ DOMAIN ledger'.items = Found(journals')
        /\ ledger'.latest = LatestPlanId(journals')
    BY DiscoveredIs
  <1>2. DOMAIN known \subseteq AllFiles /\ ApartInLedger(known)
    <2>1. CASE known = NoItems
      BY <2>1 DEF NoItems, ApartInLedger
    <2>2. CASE known = ledger.items
      <3>1. DOMAIN ledger.items \subseteq {FileOf(j) : j \in journals} \cup {NoFile}
        BY DEF IInv, TypeOK
      <3>2. DOMAIN ledger.items \subseteq AllFiles
        BY <3>1, FileTyped DEF AllFiles, IInv, TypeOK
      <3> QED BY <2>2, <3>2 DEF IInv
    <2> QED BY <2>1, <2>2
  <1>3. /\ ApartInLedger(ledger'.items)
        /\ \A f \in DOMAIN known, g \in DOMAIN ledger'.items :
              known[f].ledgerId = ledger'.items[g].ledgerId => f = g
    BY <1>2, DiscoveryKeepsApart, Zenon
  <1>4. Found(journals') \subseteq {FileOf(j) : j \in journals'} \cup {NoFile}
    BY FoundAreFiles
  <1>5. LatestPlanId(journals') \in 0..MaxPlanId
    BY LatestIs
  <1> QED BY <1>1, <1>3, <1>4, <1>5, Zenon

-----------------------------------------------------------------------------
(***************************************************************************)
(* The invariant holds at first and every action keeps it.                 *)
(***************************************************************************)
LEMMA InitEstablishes == Init => IInv
  <1> SUFFICES ASSUME Init
               PROVE  IInv
    OBVIOUS
  <1> USE DEF Init
  <1>1. TypeOK
    <2>1. ledger.items = NoItems /\ ledger.latest = 0 /\ DOMAIN NoItems = {}
      BY DEF NoItems
    <2>2. skipped \in BOOLEAN
      BY Zenon
    <2>3. at \in [Objects -> Names \cup {Temporary}]
      OBVIOUS
    <2>4. /\ journals \subseteq Journals
          /\ \A j, k \in journals : FileOf(j) = FileOf(k) => j = k
          /\ executing \in [file : {FileOf(j) : j \in journals}, locked : BOOLEAN] \cup {None}
          /\ snapshot \in JournalFiles \cup {None} /\ undisturbed \in JournalFiles \cup {None}
      OBVIOUS
    <2>5. /\ DOMAIN ledger.items \subseteq {FileOf(j) : j \in journals} \cup {NoFile}
          /\ ledger.latest \in 0..MaxPlanId
          /\ nextPlanId \in 1..(MaxPlanId + 1) /\ moves \in 0..MaxMoves
      BY <2>1, LimitsTyped
    <2> HIDE DEF Init
    <2> QED BY <2>2, <2>3, <2>4, <2>5, Zenon DEF TypeOK
  <1>2. ApartInLedger(ledger.items)
    BY DEF NoItems, ApartInLedger
  <1>3. PlanIdsAreFresh /\ IdsAreAllocated /\ GraphsApart
    BY DEF PlanIdsAreFresh, IdsAreAllocated, GraphsApart
  <1>4. InspectedExists /\ ExecutingIsOpen /\ NamesApart /\ UndisturbedIsLast
    BY DEF InspectedExists, ExecutingIsOpen, NamesApart, UndisturbedIsLast
  <1> QED BY <1>1, <1>2, <1>3, <1>4 DEF IInv

LEMMA ApplyKeeps == IInv /\ Apply => IInv'
  <1> SUFFICES ASSUME IInv, Apply
               PROVE  IInv'
    OBVIOUS
  <1> DEFINE file == [kind |-> "plan", id |-> nextPlanId]
  <1>1. PICK graph \in Graphs : Plannable(graph) /\ Start(file, graph, 0, FALSE)
    BY Zenon DEF Apply
  <1>2. nextPlanId \in 1..MaxPlanId /\ file \in JournalFiles /\ file.id = nextPlanId
    BY LimitsTyped DEF Apply, IInv, TypeOK, JournalFiles, PlanIds
  <1>3. \A j \in journals : j.id < nextPlanId
    BY DEF IInv, IdsAreAllocated
  <1>4. CanStart(file, graph, 0, FALSE)
    BY <1>1, <1>2, <1>3, LimitsTyped DEF Plannable, CanStart
  <1>5. nextPlanId <= file.id /\ nextPlanId' = file.id + 1 /\ snapshot' = None
        /\ UNCHANGED <<ledger, skipped, moves>>
    BY <1>2, LimitsTyped DEF Apply
  <1> HIDE DEF file
  <1> QED BY <1>1, <1>4, <1>5, StartKeeps, Zenon

\* The names and the plan id an undo is given.
UndoGraph(j) == [o \in Sources(j) |-> [original |-> j.names[o].final,
                                       final    |-> j.names[o].original]]
UndoId == IF nextPlanId > ledger.latest THEN nextPlanId ELSE ledger.latest + 1
UndoFile == [kind |-> "undo", id |-> UndoId]

LEMMA ExecuteUndoIs ==
  ASSUME ExecuteUndo
  PROVE  LET j == JournalIn(snapshot) IN
           /\ snapshot # None /\ executing = None /\ snapshot' = None
           /\ UndoId <= MaxPlanId /\ nextPlanId' = UndoId + 1
           /\ \/ UndoIsReady(j) /\ Start(UndoFile, UndoGraph(j), j.id, TRUE)
              \/ ~UndoIsReady(j) /\ UNCHANGED <<at, journals, executing, undisturbed>>
           /\ UNCHANGED <<ledger, skipped, moves>>
  BY Zenon DEF ExecuteUndo, UndoGraph, UndoId, UndoFile

LEMMA UndoCanStart ==
  ASSUME IInv, NEW j \in journals, UndoIsReady(j), UndoId <= MaxPlanId
  PROVE  CanStart(UndoFile, UndoGraph(j), j.id, TRUE)
  <1>1. j \in Journals /\ j.names \in Graphs
    BY DEF IInv, TypeOK, Journals
  <1>2. UndoId \in PlanIds /\ UndoId >= nextPlanId
    BY LimitsTyped DEF UndoId, PlanIds, IInv, TypeOK
  <1>3. UndoFile \in JournalFiles /\ UndoFile.id = UndoId
    BY <1>2 DEF UndoFile, JournalFiles
  <1>4. DOMAIN UndoGraph(j) = Sources(j) /\ Sources(j) \in SUBSET Objects /\ Sources(j) # {}
    BY <1>1, GraphTyped DEF UndoGraph, Sources
  <1>5. \A o \in Sources(j) : /\ UndoGraph(j)[o] \in [original : Names, final : Names]
                              /\ UndoGraph(j)[o].original = j.names[o].final
                              /\ UndoGraph(j)[o].final = j.names[o].original
    BY <1>1, GraphTyped DEF UndoGraph, Sources
  <1>6. UndoGraph(j) \in Graphs
    <2>1. UndoGraph(j) \in [Sources(j) -> [original : Names, final : Names]]
      BY <1>5 DEF UndoGraph
    <2> HIDE DEF UndoGraph
    <2> QED BY <1>4, <2>1, Zenon DEF Graphs
  <1>7. \A k \in journals : k.id < UndoId
    BY <1>2, FileTyped, LimitsTyped DEF IInv, TypeOK, IdsAreAllocated, PlanIds
  <1>8. \A o \in DOMAIN UndoGraph(j) : UndoGraph(j)[o].original = at[o]
    BY <1>4, <1>5 DEF UndoIsReady
  <1>9. \A o, p \in DOMAIN UndoGraph(j) : UndoGraph(j)[o].final = UndoGraph(j)[p].final => o = p
    BY <1>4, <1>5 DEF IInv, GraphsApart
  <1>10. j.id \in 0..MaxPlanId
    BY <1>1, FileTyped
  <1> QED BY <1>3, <1>6, <1>7, <1>8, <1>9, <1>10 DEF CanStart

LEMMA ExecuteUndoKeeps == IInv /\ ExecuteUndo => IInv'
  <1> SUFFICES ASSUME IInv, ExecuteUndo
               PROVE  IInv'
    OBVIOUS
  <1> DEFINE j == JournalIn(snapshot)
  <1>1. /\ snapshot # None /\ executing = None /\ snapshot' = None
        /\ UndoId <= MaxPlanId /\ nextPlanId' = UndoId + 1
        /\ \/ UndoIsReady(j) /\ Start(UndoFile, UndoGraph(j), j.id, TRUE)
           \/ ~UndoIsReady(j) /\ UNCHANGED <<at, journals, executing, undisturbed>>
        /\ UNCHANGED <<ledger, skipped, moves>>
    BY ExecuteUndoIs
  <1>2. j \in journals
    BY <1>1, JournalInIs DEF IInv, InspectedExists
  <1>3. UndoId >= nextPlanId /\ UndoId \in Nat /\ UndoFile.id = UndoId /\ nextPlanId \in Nat
        /\ nextPlanId >= 1
    BY LimitsTyped DEF UndoId, UndoFile, IInv, TypeOK
  <1> HIDE DEF j
  <1>4. CASE UndoIsReady(j) /\ Start(UndoFile, UndoGraph(j), j.id, TRUE)
    <2>1. CanStart(UndoFile, UndoGraph(j), j.id, TRUE)
      BY <1>1, <1>2, <1>4, UndoCanStart
    <2>2. nextPlanId <= UndoFile.id /\ nextPlanId' = UndoFile.id + 1
      BY <1>1, <1>3
    <2> QED BY <1>1, <1>4, <2>1, <2>2, StartKeeps, Zenon
  <1>5. CASE UNCHANGED <<at, journals, executing, undisturbed>>
    <2>1. TypeOK'
      BY <1>1, <1>3, <1>5, LimitsTyped DEF IInv, TypeOK
    <2>2. PlanIdsAreFresh' /\ ApartInLedger(ledger.items)' /\ InspectedExists'
          /\ ExecutingIsOpen' /\ NamesApart' /\ GraphsApart' /\ UndisturbedIsLast'
      BY <1>1, <1>5 DEF IInv, PlanIdsAreFresh, ApartInLedger, InspectedExists, ExecutingIsOpen,
         NamesApart, GraphsApart, UndisturbedIsLast, InPlace
    <2>3. IdsAreAllocated'
      BY <1>1, <1>3, <1>5, FileTyped DEF IInv, TypeOK, IdsAreAllocated
    <2> QED BY <2>1, <2>2, <2>3 DEF IInv
  <1> QED BY <1>1, <1>4, <1>5

\* What an execution leaves of the names when it ends.
LEMMA PlacedKeepsApart ==
  ASSUME IInv, NEW j \in journals, NEW s \in {"completed", "rolledback"},
         \A o \in Sources(j) : Free(Placed(j, s)[o]), at' = Placed(j, s)
  PROVE  /\ at' \in [Objects -> Names \cup {Temporary}] /\ NamesApart'
         /\ \A o \in Objects \ Sources(j) : at'[o] = at[o]
         /\ s = "completed" => \A o \in Sources(j) : at'[o] = j.names[o].final
  <1>1. /\ Sources(j) \subseteq Objects
        /\ \A o \in Sources(j) : j.names[o].original \in Names /\ j.names[o].final \in Names
    BY GraphTyped DEF IInv, TypeOK, Journals, Sources
  <1>2. /\ \A o \in Objects \ Sources(j) : at'[o] = at[o]
        /\ s = "completed" => \A o \in Sources(j) : at'[o] = j.names[o].final
        /\ s = "rolledback" => \A o \in Sources(j) : at'[o] = j.names[o].original
    BY <1>1 DEF Placed
  <1>3. at' \in [Objects -> Names \cup {Temporary}]
    BY <1>1 DEF Placed, IInv, TypeOK
  <1>4. \A o \in Sources(j), p \in Objects : at[p] # at'[o]
    BY DEF Free
  <1>5. \A o, p \in Sources(j) : at'[o] = at'[p] => o = p
    BY <1>1, <1>2 DEF IInv, GraphsApart
  <1>6. NamesApart'
    <2> SUFFICES ASSUME NEW o \in Objects, NEW p \in Objects, at'[o] = at'[p]
                 PROVE  o = p \/ at'[o] = Temporary
      BY DEF NamesApart
    <2>1. CASE o \in Sources(j) /\ p \in Sources(j)
      BY <1>5, <2>1
    <2>2. CASE o \notin Sources(j) /\ p \notin Sources(j)
      BY <1>2, <2>2 DEF IInv, NamesApart
    <2>3. CASE o \in Sources(j) /\ p \notin Sources(j)
      BY <1>2, <1>4, <2>3
    <2>4. CASE o \notin Sources(j) /\ p \in Sources(j)
      BY <1>2, <1>4, <2>4
    <2> QED BY <2>1, <2>2, <2>3, <2>4
  <1> QED BY <1>2, <1>3, <1>6

LEMMA FinishKeeps == IInv /\ Finish => IInv'
  <1> SUFFICES ASSUME IInv, Finish
               PROVE  IInv'
    OBVIOUS
  <1> DEFINE f == executing.file
             j == JournalIn(f)
  <1>1. /\ executing # None /\ executing' = None
        /\ ledger' = ledger \/ ledger' = Discovered(journals', ledger.items)
        /\ UNCHANGED <<nextPlanId, snapshot, undisturbed, skipped, moves>>
    BY DEF Finish
  <1>2. \/ \E s \in {"completed", "rolledback"} :
             /\ \A o \in Sources(j) : Free(Placed(j, s)[o])
             /\ at' = Placed(j, s) /\ journals' = WithStatus(f, s)
        \/ UNCHANGED <<at, journals>>
    BY Zenon DEF Finish
  <1>3. j \in journals /\ FileOf(j) = f /\ j.status = "attention"
    BY <1>1, JournalInIs DEF IInv, TypeOK, ExecutingIsOpen
  <1> HIDE DEF j, f
  <1>4. ASSUME NEW s \in Statuses, journals' = WithStatus(f, s) \/ journals' = journals
        PROVE  /\ JournalsTyped' /\ IdsAreAllocated' /\ InspectedExists' /\ ExecutingIsOpen'
               /\ {FileOf(k) : k \in journals'} = {FileOf(k) : k \in journals}
               /\ DOMAIN ledger'.items \subseteq {FileOf(k) : k \in journals'} \cup {NoFile}
               /\ ledger'.latest \in 0..MaxPlanId /\ ApartInLedger(ledger'.items)
    <2>1. /\ JournalsTyped' /\ IdsAreAllocated'
          /\ {FileOf(k) : k \in journals'} = {FileOf(k) : k \in journals}
      <3>1. CASE journals' = WithStatus(f, s)
        BY <1>1, <3>1, StatusKeeps
      <3>2. CASE journals' = journals
        BY <1>1, <3>2 DEF JournalsTyped, IInv, TypeOK, PlanIdsAreFresh, GraphsApart, IdsAreAllocated
      <3> QED BY <1>4, <3>1, <3>2
    <2>2. /\ DOMAIN ledger'.items \subseteq {FileOf(k) : k \in journals'} \cup {NoFile}
          /\ ledger'.latest \in 0..MaxPlanId /\ ApartInLedger(ledger'.items)
      <3>1. CASE ledger' = ledger
        BY <2>1, <3>1 DEF IInv, TypeOK, ApartInLedger
      <3>2. CASE ledger' = Discovered(journals', ledger.items)
        BY <2>1, <3>2, LedgerKeeps DEF JournalsTyped
      <3> QED BY <1>1, <3>1, <3>2
    <2>3. InspectedExists'
      BY <1>1, <2>1 DEF IInv, InspectedExists
    <2>4. ExecutingIsOpen'
      BY <1>1 DEF ExecutingIsOpen
    <2> QED BY <2>1, <2>2, <2>3, <2>4
  <1>5. ASSUME NEW s \in {"completed", "rolledback"},
               \A o \in Sources(j) : Free(Placed(j, s)[o]),
               at' = Placed(j, s), journals' = WithStatus(f, s)
        PROVE  IInv'
    <2>1. s \in Statuses
      BY DEF Statuses
    <2>2. /\ at' \in [Objects -> Names \cup {Temporary}] /\ NamesApart'
          /\ \A o \in Objects \ Sources(j) : at'[o] = at[o]
          /\ s = "completed" => \A o \in Sources(j) : at'[o] = j.names[o].final
      BY <1>3, <1>5, PlacedKeepsApart, Zenon
    <2>3. TypeOK'
      BY <1>1, <1>4, <1>5, <2>1, <2>2 DEF JournalsTyped, IInv, TypeOK
    <2>4. UndisturbedIsLast'
      <3> SUFFICES ASSUME undisturbed # None
                   PROVE  UndisturbedIsLast'
        BY <1>1 DEF UndisturbedIsLast
      <3>1. undisturbed = f /\ undisturbed' = f /\ executing' = None
        BY <1>1 DEF IInv, UndisturbedIsLast, f
      <3>2. OnlyStatus(f, s)
        <4>1. journals \subseteq Journals
          BY DEF IInv, TypeOK
        <4> QED BY <1>5, <2>1, <4>1, StatusStep
      <3>3. \A m \in journals' : m.id <= undisturbed'.id
        BY <3>1, <3>2 DEF IInv, UndisturbedIsLast, OnlyStatus
      <3>4. ASSUME NEW m \in journals', FileOf(m) = undisturbed'
            PROVE  InPlace(m)'
        <4>1. m.names = j.names /\ m.status = s
          BY <1>3, <3>1, <3>2, <3>4 DEF IInv, TypeOK, OnlyStatus
        <4>2. InPlace(j)
          BY <1>3, <3>1 DEF IInv, UndisturbedIsLast
        <4>3. Sources(m) = Sources(j)
          BY <4>1 DEF Sources
        <4>4. m.status = "completed" => \A o \in Sources(m) : at'[o] = m.names[o].final
          BY <2>2, <4>1, <4>3
        <4>5. \A o \in Sources(m), p \in Objects \ Sources(m) : at'[p] # m.names[o].original
          BY <1>3, <2>2, <4>1, <4>2, <4>3 DEF InPlace
        <4>6. m.status \notin {"attention", "torn"}
          BY <4>1
        <4> QED BY <4>4, <4>5, <4>6 DEF InPlace
      <3>5. \E m \in journals' : FileOf(m) = undisturbed'
        BY <1>3, <3>1, <3>2 DEF OnlyStatus
      <3> QED BY <3>1, <3>3, <3>4, <3>5 DEF UndisturbedIsLast
    <2> QED BY <1>4, <1>5, <2>1, <2>2, <2>3, <2>4 DEF IInv, JournalsTyped
  <1>6. CASE UNCHANGED <<at, journals>>
    <2>1. "attention" \in Statuses /\ journals' = journals
      BY <1>6 DEF Statuses
    <2>2. /\ JournalsTyped' /\ IdsAreAllocated' /\ InspectedExists' /\ ExecutingIsOpen'
          /\ {FileOf(k) : k \in journals'} = {FileOf(k) : k \in journals}
          /\ DOMAIN ledger'.items \subseteq {FileOf(k) : k \in journals'} \cup {NoFile}
          /\ ledger'.latest \in 0..MaxPlanId /\ ApartInLedger(ledger'.items)
      BY <1>4, <2>1
    <2>3. TypeOK'
      BY <1>1, <1>6, <2>2 DEF JournalsTyped, IInv, TypeOK
    <2>4. NamesApart' /\ UndisturbedIsLast'
      BY <1>1, <1>6 DEF IInv, NamesApart, UndisturbedIsLast, InPlace
    <2> QED BY <2>2, <2>3, <2>4 DEF IInv, JournalsTyped
  <1> QED BY <1>2, <1>5, <1>6

LEMMA CrashKeeps == IInv /\ Crash => IInv'
  <1> SUFFICES ASSUME IInv, Crash
               PROVE  IInv'
    OBVIOUS
  <1>1. /\ executing' = None /\ snapshot' = None
        /\ ledger' = Discovered(journals', NoItems)
        /\ nextPlanId' = LatestPlanId(journals) + 1
        /\ UNCHANGED <<at, undisturbed, skipped, moves>>
    BY DEF Crash
  <1>2. journals' = journals \/ (executing # None /\ journals' = WithStatus(executing.file, "torn"))
    BY DEF Crash
  <1>3. "torn" \in Statuses
    BY DEF Statuses
  <1>4. /\ JournalsTyped'
        /\ {FileOf(j) : j \in journals'} = {FileOf(j) : j \in journals}
        /\ \A j \in journals' : j.undoOf < j.id /\ j.id <= LatestPlanId(journals)
    <2>1. CASE journals' = journals
      BY <2>1, LatestIs DEF JournalsTyped, IInv, TypeOK, PlanIdsAreFresh, GraphsApart,
         IdsAreAllocated
    <2>2. CASE journals' = WithStatus(executing.file, "torn")
      BY <1>3, <2>2, StatusKeeps
    <2> QED BY <1>2, <2>1, <2>2
  <1>5. nextPlanId' \in 1..(MaxPlanId + 1) /\ IdsAreAllocated'
    <2>1. LatestPlanId(journals) \in 0..MaxPlanId
      BY LatestIs DEF IInv, TypeOK
    <2>2. \A j \in journals' : j.id \in Nat
      BY <1>4, FileTyped DEF JournalsTyped
    <2> QED BY <1>1, <1>4, <2>1, <2>2, LimitsTyped DEF IdsAreAllocated
  <1>6. /\ DOMAIN ledger'.items \subseteq {FileOf(j) : j \in journals'} \cup {NoFile}
        /\ ledger'.latest \in 0..MaxPlanId /\ ApartInLedger(ledger'.items)
    BY <1>1, <1>4, LedgerKeeps DEF JournalsTyped
  <1>7. TypeOK'
    BY <1>1, <1>4, <1>5, <1>6 DEF JournalsTyped, IInv, TypeOK
  <1>8. InspectedExists' /\ ExecutingIsOpen' /\ NamesApart'
    BY <1>1 DEF InspectedExists, ExecutingIsOpen, IInv, NamesApart
  <1>9. UndisturbedIsLast'
    <2>1. CASE journals' = journals
      BY <1>1, <2>1 DEF IInv, UndisturbedIsLast, InPlace
    <2>2. CASE executing # None /\ journals' = WithStatus(executing.file, "torn")
      <3> SUFFICES ASSUME undisturbed # None
                   PROVE  UndisturbedIsLast'
        BY <1>1 DEF UndisturbedIsLast
      <3> DEFINE f == executing.file
      <3>1. undisturbed = f /\ undisturbed' = f
        BY <1>1, <2>2 DEF IInv, UndisturbedIsLast
      <3>2. PICK j \in journals : FileOf(j) = f
        BY <3>1 DEF IInv, UndisturbedIsLast
      <3> HIDE DEF f
      <3>3. j.status = "attention" /\ InPlace(j)
        BY <2>2, <3>1, <3>2 DEF IInv, ExecutingIsOpen, UndisturbedIsLast, f
      <3>4. OnlyStatus(f, "torn")
        <4>1. journals' = WithStatus(f, "torn") /\ journals \subseteq Journals
          BY <2>2 DEF f, IInv, TypeOK
        <4> QED BY <1>3, <4>1, StatusStep
      <3>5. \A m \in journals' : m.id <= undisturbed'.id
        BY <3>1, <3>4 DEF IInv, UndisturbedIsLast, OnlyStatus
      <3>6. ASSUME NEW m \in journals', FileOf(m) = undisturbed'
            PROVE  InPlace(m)'
        <4>1. m.names = j.names /\ m.status = "torn"
          BY <3>1, <3>2, <3>4, <3>6 DEF IInv, TypeOK, OnlyStatus
        <4>2. Sources(m) = Sources(j)
          BY <4>1 DEF Sources
        <4> QED BY <1>1, <3>3, <4>1, <4>2 DEF InPlace
      <3>7. \E m \in journals' : FileOf(m) = undisturbed'
        BY <3>1, <3>2, <3>4 DEF OnlyStatus
      <3> QED BY <1>1, <3>5, <3>6, <3>7 DEF UndisturbedIsLast
    <2> QED BY <1>2, <2>1, <2>2
  <1> QED BY <1>4, <1>5, <1>6, <1>7, <1>8, <1>9 DEF IInv, JournalsTyped

LEMMA MoveForeignKeeps == IInv /\ MoveForeign => IInv'
  <1> SUFFICES ASSUME IInv, MoveForeign
               PROVE  IInv'
    OBVIOUS
  <1>1. /\ moves < MaxMoves /\ moves' = moves + 1 /\ undisturbed' = None
        /\ UNCHANGED <<journals, ledger, nextPlanId, executing, snapshot, skipped>>
    BY DEF MoveForeign
  <1>2. /\ at' \in [Objects -> Names \cup {Temporary}]
        /\ \A o, p \in Objects : at'[o] = at'[p] => o = p \/ at'[o] = Temporary
    BY DEF MoveForeign
  <1>3. TypeOK'
    BY <1>1, <1>2, LimitsTyped DEF IInv, TypeOK
  <1>4. NamesApart'
    BY <1>2 DEF NamesApart
  <1>5. PlanIdsAreFresh' /\ IdsAreAllocated' /\ ApartInLedger(ledger.items)'
        /\ InspectedExists' /\ ExecutingIsOpen' /\ GraphsApart' /\ UndisturbedIsLast'
    BY <1>1 DEF IInv, PlanIdsAreFresh, IdsAreAllocated, ApartInLedger, InspectedExists,
       ExecutingIsOpen, GraphsApart, UndisturbedIsLast
  <1> QED BY <1>3, <1>4, <1>5 DEF IInv

\* What a listing changes: the ledger, and what an inspection is about.
LEMMA ListingKeeps ==
  ASSUME IInv, ledger' = Discovered(journals, ledger.items),
         snapshot' # None => \E j \in journals : FileOf(j) = snapshot',
         skipped' \in BOOLEAN,
         UNCHANGED <<at, journals, nextPlanId, executing, undisturbed, moves>>
  PROVE  IInv'
  <1>1. /\ DOMAIN ledger'.items \subseteq {FileOf(j) : j \in journals'} \cup {NoFile}
        /\ ledger'.latest \in 0..MaxPlanId /\ ApartInLedger(ledger'.items)
    BY LedgerKeeps DEF IInv, TypeOK
  <1>2. snapshot' \in JournalFiles \cup {None}
    BY FileTyped DEF IInv, TypeOK
  <1>3. TypeOK'
    BY <1>1, <1>2 DEF IInv, TypeOK
  <1>4. PlanIdsAreFresh' /\ IdsAreAllocated' /\ InspectedExists' /\ ExecutingIsOpen'
        /\ NamesApart' /\ GraphsApart' /\ UndisturbedIsLast'
    BY DEF IInv, PlanIdsAreFresh, IdsAreAllocated, InspectedExists, ExecutingIsOpen, NamesApart,
       GraphsApart, UndisturbedIsLast, InPlace
  <1> QED BY <1>1, <1>3, <1>4 DEF IInv

LEMMA RefreshKeeps == IInv /\ Refresh => IInv'
  <1> SUFFICES ASSUME IInv, Refresh
               PROVE  IInv'
    OBVIOUS
  <1>1. /\ ledger' = Discovered(journals, ledger.items) /\ snapshot' = None
        /\ UNCHANGED <<at, journals, nextPlanId, executing, undisturbed, skipped, moves>>
    BY DEF Refresh
  <1>2. snapshot' # None => \E j \in journals : FileOf(j) = snapshot'
    BY <1>1
  <1>3. skipped' \in BOOLEAN
    BY <1>1 DEF IInv, TypeOK
  <1> QED BY <1>1, <1>2, <1>3, ListingKeeps

\* The items of a listing that are inspectable are journals discovery read.
LEMMA ListedAreRead ==
  ASSUME IInv, NEW known
  PROVE  LET items == Discovered(journals, known).items IN
         /\ \A f \in DOMAIN items \ {NoFile} :
              \E j \in Candidates(journals) :
                /\ j \in journals /\ FileOf(j) = f
                /\ items[f].entry = Projection(j, Read(journals))
         /\ \A j \in Candidates(journals) :
              FileOf(j) \in DOMAIN items \ {NoFile}
              /\ items[FileOf(j)].entry = Projection(j, Read(journals))
  <1> DEFINE items == Discovered(journals, known).items
  <1>1. /\ DOMAIN items = Found(journals)
        /\ \A f \in Found(journals) : items[f].entry = EntryOf(journals, f)
    BY DiscoveredIs
  <1> HIDE DEF items
  <1>2. journals \in SUBSET Journals
    BY DEF IInv, TypeOK
  <1>3. ASSUME NEW j \in Candidates(journals)
        PROVE  /\ j \in journals /\ FileOf(j) \in Found(journals) /\ FileOf(j) # NoFile
               /\ EntryOf(journals, FileOf(j)) = Projection(j, Read(journals))
    <2>1. j \in journals /\ FileOf(j) \in Found(journals)
      BY <1>2, FoundAreFiles
    <2>2. FileOf(j) # NoFile
      BY <1>2, <2>1, FileTyped
    <2>3. (CHOOSE k \in journals : FileOf(k) = FileOf(j)) = j
      BY <2>1 DEF IInv, TypeOK
    <2> QED BY <2>1, <2>2, <2>3 DEF EntryOf
  <1>4. \A f \in Found(journals) \ {NoFile} : \E j \in Candidates(journals) : FileOf(j) = f
    BY <1>2, FoundAreFiles
  <1>5. \A f \in DOMAIN items \ {NoFile} :
          \E j \in Candidates(journals) :
            /\ j \in journals /\ FileOf(j) = f
            /\ items[f].entry = Projection(j, Read(journals))
    <2> SUFFICES ASSUME NEW f \in Found(journals) \ {NoFile}
                 PROVE  \E j \in Candidates(journals) :
                          /\ j \in journals /\ FileOf(j) = f
                          /\ items[f].entry = Projection(j, Read(journals))
      BY <1>1, Zenon
    <2>1. PICK j \in Candidates(journals) : FileOf(j) = f
      BY <1>4
    <2> QED BY <1>1, <1>3, <2>1
  <1>6. \A j \in Candidates(journals) :
          /\ FileOf(j) \in DOMAIN items \ {NoFile}
          /\ items[FileOf(j)].entry = Projection(j, Read(journals))
    BY <1>1, <1>3
  <1> QED BY <1>5, <1>6 DEF items

LEMMA InspectUndoKeeps == IInv /\ InspectUndo => IInv'
  <1> SUFFICES ASSUME IInv, InspectUndo
               PROVE  IInv'
    OBVIOUS
  <1>1. /\ ledger' = Discovered(journals, ledger.items)
        /\ UNCHANGED <<at, journals, nextPlanId, executing, undisturbed, moves>>
    BY DEF InspectUndo
  <1>2. PICK f \in DOMAIN ledger'.items \ {NoFile} : snapshot' \in {f, None}
    BY Zenon DEF InspectUndo
  <1>3. \E j \in journals : FileOf(j) = f
    BY <1>1, ListedAreRead, Zenon
  <1>4. skipped' \in BOOLEAN
    <2>1. skipped' = (skipped \/ ~ReadsAll(journals)) /\ skipped \in BOOLEAN
      BY DEF InspectUndo, IInv, TypeOK
    <2> QED BY <2>1, Zenon
  <1> QED BY <1>1, <1>2, <1>3, <1>4, ListingKeeps

LEMMA RecoverKeeps == IInv /\ Recover => IInv'
  <1> SUFFICES ASSUME IInv, Recover
               PROVE  IInv'
    OBVIOUS
  <1>1. PICK f \in DOMAIN ledger.items \ {NoFile} :
          /\ JournalIn(f).status = "attention"
          /\ executing' = [file |-> f, locked |-> TRUE]
          /\ undisturbed' = IF f = undisturbed THEN f ELSE None
    BY DEF Recover
  <1>2. snapshot' = None /\ UNCHANGED <<at, journals, ledger, nextPlanId, skipped, moves>>
    BY DEF Recover
  <1>3. PICK j \in journals : FileOf(j) = f
    BY DEF IInv, TypeOK
  <1>4. JournalIn(f) = j /\ j.status = "attention"
    BY <1>1, <1>3, JournalInIs DEF IInv
  <1>5. TypeOK'
    BY <1>1, <1>2, <1>3 DEF IInv, TypeOK
  <1>6. ExecutingIsOpen'
    <2>1. executing'.file = f
      BY <1>1
    <2>2. \A k \in journals' : FileOf(k) = executing'.file => k = j
      BY <1>2, <1>3, <2>1 DEF IInv, TypeOK
    <2> QED BY <1>4, <2>1, <2>2, Zenon DEF ExecutingIsOpen
  <1>7. UndisturbedIsLast'
    <2>1. undisturbed' # None => undisturbed' = f /\ undisturbed = f
      BY <1>1
    <2>2. executing'.file = f
      BY <1>1
    <2> QED BY <1>2, <2>1, <2>2 DEF IInv, UndisturbedIsLast, InPlace
  <1>8. PlanIdsAreFresh' /\ IdsAreAllocated' /\ ApartInLedger(ledger.items)'
        /\ InspectedExists' /\ NamesApart' /\ GraphsApart'
    BY <1>2 DEF IInv, PlanIdsAreFresh, IdsAreAllocated, ApartInLedger, InspectedExists,
       NamesApart, GraphsApart
  <1> QED BY <1>5, <1>6, <1>7, <1>8 DEF IInv

LEMMA StutterKeeps == IInv /\ UNCHANGED vars => IInv'
  BY DEF vars, IInv, TypeOK, PlanIdsAreFresh, IdsAreAllocated, ApartInLedger, InspectedExists,
     ExecutingIsOpen, NamesApart, GraphsApart, UndisturbedIsLast, InPlace

LEMMA NextKeeps == IInv /\ [Next]_vars => IInv'
  BY ApplyKeeps, FinishKeeps, CrashKeeps, MoveForeignKeeps, RefreshKeeps, InspectUndoKeeps,
     ExecuteUndoKeeps, RecoverKeeps, StutterKeeps, Zenon DEF Next

\* The inductive invariant holds in every reachable state.
THEOREM Invariant == Spec => []IInv
  BY InitEstablishes, NextKeeps, PTL DEF Spec

-----------------------------------------------------------------------------
(***************************************************************************)
(* What it shows of ids and of the names an undo begins from.              *)
(***************************************************************************)
\* Names, journals and the ledger always have their types.
THEOREM TypeCorrect == Spec => []TypeOK
  <1>1. IInv => TypeOK
    BY DEF IInv
  <1> QED BY <1>1, Invariant, PTL

\* No two journals bear one plan id, however many files discovery left unread
\* and whatever crashed before its header was written (ledger.rs:522).
THEOREM PlanIdsAreNotReused == Spec => []PlanIdsAreFresh
  <1>1. IInv => PlanIdsAreFresh
    BY DEF IInv
  <1> QED BY <1>1, Invariant, PTL

LedgerIdsStay ==
  Crash \/ \A f \in DOMAIN ledger.items, g \in DOMAIN ledger'.items :
             ledger.items[f].ledgerId = ledger'.items[g].ledgerId => f = g

LEMMA NextKeepsLedgerIds == IInv /\ [Next]_vars => [LedgerIdsStay]_vars
  <1> SUFFICES ASSUME IInv, IInv', [Next]_vars, ~Crash
               PROVE  \A f \in DOMAIN ledger.items, g \in DOMAIN ledger'.items :
                        ledger.items[f].ledgerId = ledger'.items[g].ledgerId => f = g
    BY NextKeeps, Zenon DEF LedgerIdsStay
  <1>1. CASE ledger' = ledger
    BY <1>1 DEF IInv, ApartInLedger
  <1>2. CASE ledger' = Discovered(journals', ledger.items)
    <2>1. journals' \subseteq Journals
      BY DEF IInv, TypeOK
    <2>2. CASE {FileOf(j) : j \in journals} \subseteq {FileOf(j) : j \in journals'}
      BY <1>2, <2>1, <2>2, LedgerKeeps, Zenon
    <2>3. CASE ~({FileOf(j) : j \in journals} \subseteq {FileOf(j) : j \in journals'})
      <3>1. DOMAIN ledger.items \subseteq AllFiles /\ ApartInLedger(ledger.items)
        BY FileTyped DEF AllFiles, IInv, TypeOK
      <3> QED BY <1>2, <2>1, <3>1, DiscoveryKeepsApart, Zenon
    <2> QED BY <2>2, <2>3
  <1>3. ledger' = ledger \/ ledger' = Discovered(journals', ledger.items)
    <2>1. Apply \/ ExecuteUndo \/ Recover \/ MoveForeign => ledger' = ledger
      BY DEF Apply, ExecuteUndo, Recover, MoveForeign
    <2>2. Finish => ledger' = ledger \/ ledger' = Discovered(journals', ledger.items)
      BY DEF Finish
    <2>3. Refresh \/ InspectUndo => ledger' = Discovered(journals', ledger.items)
      BY DEF Refresh, InspectUndo
    <2>4. UNCHANGED vars => ledger' = ledger
      BY DEF vars
    <2> QED BY <2>1, <2>2, <2>3, <2>4 DEF Next
  <1> QED BY <1>1, <1>2, <1>3

\* A ledger id a listing has shown names the same journal in every later one
\* of the run, or none (ledger.rs:276).
THEOREM LedgerIdsAreStable == Spec => LedgerIdsKeepTheirMeaning
  <1>1. [LedgerIdsStay]_vars <=>
          [Crash \/ \A f \in DOMAIN ledger.items, g \in DOMAIN ledger'.items :
             ledger.items[f].ledgerId = ledger'.items[g].ledgerId => f = g]_vars
    BY DEF LedgerIdsStay
  <1> QED BY <1>1, Invariant, NextKeepsLedgerIds, PTL DEF Spec, LedgerIdsKeepTheirMeaning

\* The step that begins an undo, and what it begins from.
BeginsUndo ==
  /\ executing' # None /\ executing = None /\ executing'.file.kind = "undo"
  /\ executing'.file \notin {FileOf(j) : j \in journals}
FromItsNames ==
  LET j == CHOOSE k \in journals' : FileOf(k) = executing'.file IN
    \A o \in Sources(j), p \in Objects :
      /\ at[o] = j.names[o].original
      /\ at[p] = j.names[o].final => p \in Sources(j)

LEMMA NextBeginsFromNames == IInv /\ [Next]_vars => [BeginsUndo => FromItsNames]_vars
  <1> SUFFICES ASSUME IInv, IInv', [Next]_vars, BeginsUndo
               PROVE  FromItsNames
    BY NextKeeps, Zenon
  <1>1. CASE ExecuteUndo
    <2> DEFINE j == JournalIn(snapshot)
    <2>1. snapshot # None /\ executing' # executing
      BY <1>1, ExecuteUndoIs DEF BeginsUndo
    <2>2. UndoIsReady(j) /\ Start(UndoFile, UndoGraph(j), j.id, TRUE) /\ UndoId <= MaxPlanId
      BY <1>1, <2>1, ExecuteUndoIs
    <2>3. j \in journals
      BY <2>1, JournalInIs DEF IInv, InspectedExists
    <2>4. UndoFile \in JournalFiles /\ UndoGraph(j) \in Graphs /\ j.id \in 0..MaxPlanId
      BY <2>2, <2>3, UndoCanStart DEF CanStart
    <2> HIDE DEF j
    <2>5. PICK s \in {"attention", "headless"} :
            LET new == NewJournal(UndoFile, UndoGraph(j), j.id, s) IN
              /\ new \in Journals /\ FileOf(new) = UndoFile
              /\ journals' = journals \cup {new}
              /\ s = "attention" => executing' = [file |-> UndoFile, locked |-> TRUE]
              /\ s = "headless" => executing' = None
      BY <2>2, <2>4, StartIs, Zenon
    <2> DEFINE new == NewJournal(UndoFile, UndoGraph(j), j.id, s)
    <2>6. new \in journals' /\ FileOf(new) = executing'.file /\ new.names = UndoGraph(j)
      BY <2>5 DEF BeginsUndo, NewJournal
    <2>7. (CHOOSE k \in journals' : FileOf(k) = executing'.file) = new
      BY <2>6 DEF IInv, TypeOK
    <2>8. Sources(new) = Sources(j) /\ \A o \in Sources(j) :
             new.names[o].original = j.names[o].final /\ new.names[o].final = j.names[o].original
      BY <2>6 DEF Sources, UndoGraph
    <2> HIDE DEF new
    <2>9. \A o \in Sources(j), p \in Objects :
            /\ at[o] = j.names[o].final
            /\ at[p] = j.names[o].original => p \in Sources(j)
      BY <2>2 DEF UndoIsReady, UndoDestinationIsAvailable
    <2> QED BY <2>7, <2>8, <2>9, Zenon DEF FromItsNames
  <1>2. ~Apply
    <2> SUFFICES ASSUME Apply
                 PROVE  FALSE
      OBVIOUS
    <2> DEFINE file == [kind |-> "plan", id |-> nextPlanId]
    <2>1. PICK graph \in Graphs : Start(file, graph, 0, FALSE)
      BY Zenon DEF Apply
    <2>2. executing' = None \/ executing' = [file |-> file, locked |-> FALSE]
      BY <2>1, Zenon DEF Start
    <2> QED BY <2>2 DEF BeginsUndo
  <1>3. ~Recover
    <2> SUFFICES ASSUME Recover
                 PROVE  FALSE
      OBVIOUS
    <2>1. PICK f \in DOMAIN ledger.items \ {NoFile} : executing' = [file |-> f, locked |-> TRUE]
      BY DEF Recover
    <2>2. \E j \in journals : FileOf(j) = f
      BY DEF IInv, TypeOK
    <2> QED BY <2>1, <2>2 DEF BeginsUndo
  <1>4. ~(Finish \/ Crash \/ MoveForeign \/ Refresh \/ InspectUndo \/ UNCHANGED vars)
    BY DEF BeginsUndo, Finish, Crash, MoveForeign, Refresh, InspectUndo, vars
  <1> QED BY <1>1, <1>2, <1>3, <1>4 DEF Next

\* An undo begins only while its sources have the names the original gave
\* them and no stranger has one they go back to, whatever other programs
\* renamed since the inspection (undo.rs:278).
THEOREM UndosBeginFromTheirNames == Spec => UndoBeginsFromItsNames
  <1>1. [BeginsUndo => FromItsNames]_vars <=>
          [executing' # None /\ executing = None /\ executing'.file.kind = "undo"
             /\ executing'.file \notin {FileOf(j) : j \in journals} =>
               LET j == CHOOSE k \in journals' : FileOf(k) = executing'.file IN
                 \A o \in Sources(j), p \in Objects :
                   /\ at[o] = j.names[o].original
                   /\ at[p] = j.names[o].final => p \in Sources(j)]_vars
    BY Zenon DEF BeginsUndo, FromItsNames
  <1> QED BY <1>1, Invariant, NextBeginsFromNames, PTL DEF Spec, UndoBeginsFromItsNames

-----------------------------------------------------------------------------
(***************************************************************************)
(* What it shows of undos.                                                 *)
(***************************************************************************)
\* What is later than a journal that is read is within the count as well.
LEMMA LaterAreCandidates ==
  ASSUME IInv, NEW j \in Candidates(journals), NEW k \in journals, j.id < k.id
  PROVE  k \in Candidates(journals)
  <1> DEFINE after(m) == {n \in journals : Before(m, n)}
  <1>1. journals \subseteq Journals /\ IsFiniteSet(journals)
    BY JournalsAreFinite DEF IInv, TypeOK
  <1>2. j \in journals /\ Cardinality(after(j)) < MaxJournals
    BY DEF Candidates
  <1>3. \A n \in journals : Before(k, n) => Before(j, n)
    BY <1>1, <1>2, FileTyped DEF Before
  <1>4. after(k) \in SUBSET after(j) /\ after(j) \in SUBSET journals
    BY <1>3
  <1> HIDE DEF after
  <1>5. IsFiniteSet(after(j))
    BY <1>1, <1>4, FS_Subset, Zenon
  <1>6. IsFiniteSet(after(k)) /\ Cardinality(after(k)) <= Cardinality(after(j))
    BY <1>4, <1>5, FS_Subset, Zenon
  <1>7. Cardinality(after(k)) < MaxJournals
    BY <1>2, <1>5, <1>6, FS_CardinalityType, LimitsTyped
  <1> QED BY <1>7 DEF Candidates, after

LEMMA InitEstablishesUndo == Init => UndoInv
  BY DEF Init, UndoInv, NothingUndoneAgain, InspectedHasNoUndo

LEMMA InspectUndoSeesUndos == IInv /\ UndoInv /\ ReadsAll(journals) /\ InspectUndo => UndoInv'
  <1> SUFFICES ASSUME IInv, UndoInv, ReadsAll(journals), InspectUndo
               PROVE  UndoInv'
    OBVIOUS
  <1> DEFINE items == Discovered(journals, ledger.items).items
  <1>1. ledger' = Discovered(journals, ledger.items) /\ journals' = journals
    BY DEF InspectUndo
  <1>2. PICK f \in DOMAIN items \ {NoFile} :
          /\ \A g \in DOMAIN items :
               items[g].entry.undoOf = f.id => items[g].entry.status = "rolledback"
          /\ snapshot' = IF UndoIsReady(JournalIn(f)) THEN f ELSE None
    BY <1>1, Zenon DEF InspectUndo
  <1>3. PICK j \in Candidates(journals) : j \in journals /\ FileOf(j) = f
    BY ListedAreRead, Zenon
  <1>4. j.id = f.id /\ JournalIn(f) = j
    BY <1>3, FileTyped, JournalInIs DEF IInv, TypeOK
  <1>5. HasNoUndo(f.id)
    <2> SUFFICES ASSUME NEW k \in journals, k.undoOf = f.id, k.status # "headless"
                 PROVE  k.status = "rolledback"
      BY DEF HasNoUndo
    <2>1. j.id < k.id
      BY <1>4 DEF IInv, IdsAreAllocated
    <2>2. k \in Candidates(journals) /\ k \in Read(journals)
      BY <1>3, <2>1, LaterAreCandidates DEF ReadsAll
    <2>3. FileOf(k) \in DOMAIN items /\ items[FileOf(k)].entry = Projection(k, Read(journals))
      BY <2>2, ListedAreRead, Zenon
    <2>4. Projection(k, Read(journals)).undoOf = k.undoOf
          /\ Projection(k, Read(journals)).status = k.status
      BY <2>2 DEF Projection
    <2> HIDE DEF items
    <2> QED BY <1>2, <2>3, <2>4
  <1>6. InspectedHasNoUndo'
    BY <1>1, <1>2, <1>3, <1>4, <1>5 DEF InspectedHasNoUndo, HasNoUndo, UndoIsReady
  <1>7. NothingUndoneAgain'
    BY <1>1 DEF UndoInv, NothingUndoneAgain
  <1> QED BY <1>6, <1>7 DEF UndoInv

\* A transaction that begins is no undo, or the only one of its original.
LEMMA StartKeepsUndo ==
  ASSUME IInv, UndoInv, NEW file, NEW graph, NEW original, NEW locked,
         CanStart(file, graph, original, locked), Start(file, graph, original, locked),
         original # 0 => HasNoUndo(original), snapshot' = None
  PROVE  UndoInv'
  <1>1. file \in JournalFiles /\ graph \in Graphs /\ original \in 0..MaxPlanId
    BY DEF CanStart
  <1>2. PICK s \in {"attention", "headless"} :
          journals' = journals \cup {NewJournal(file, graph, original, s)}
    BY <1>1, StartIs, Zenon
  <1> DEFINE new == NewJournal(file, graph, original, s)
  <1>3. new.undoOf = original /\ journals' = journals \cup {new}
    BY <1>2 DEF NewJournal
  <1> HIDE DEF new
  <1>4. NothingUndoneAgain'
    BY <1>3 DEF UndoInv, NothingUndoneAgain, HasNoUndo
  <1> QED BY <1>4 DEF UndoInv, InspectedHasNoUndo

\* An undo that ends took effect before only if it was not rolled back, and
\* what is inspected does not run.
LEMMA StatusKeepsUndo ==
  ASSUME IInv, UndoInv, IInv', executing # None, NEW s \in Statuses,
         journals' = WithStatus(executing.file, s), snapshot' \in {snapshot, None}
  PROVE  UndoInv'
  <1> DEFINE f == executing.file
  <1>1. journals' = WithStatus(f, s) /\ journals \subseteq Journals
    BY DEF IInv, TypeOK
  <1>2. \A k \in journals : FileOf(k) = f => k.status = "attention"
    BY DEF IInv, ExecutingIsOpen
  <1> HIDE DEF f
  <1>3. OnlyStatus(f, s)
    BY <1>1, StatusStep
  <1>4. \A j \in journals' : \E k \in journals :
          /\ FileOf(j) = FileOf(k) /\ j.undoOf = k.undoOf
          /\ k.status \in {"rolledback", "headless"} => j = k
    BY <1>2, <1>3 DEF OnlyStatus
  <1>5. NothingUndoneAgain'
    <2> SUFFICES ASSUME NEW j \in journals', NEW k \in journals',
                        j.undoOf # 0, j.undoOf = k.undoOf,
                        {j.status, k.status} \cap {"rolledback", "headless"} = {}
                 PROVE  j = k
      BY DEF NothingUndoneAgain
    <2>1. PICK m \in journals :
            /\ FileOf(j) = FileOf(m) /\ j.undoOf = m.undoOf
            /\ m.status \in {"rolledback", "headless"} => j = m
      BY <1>4
    <2>2. PICK n \in journals :
            /\ FileOf(k) = FileOf(n) /\ k.undoOf = n.undoOf
            /\ n.status \in {"rolledback", "headless"} => k = n
      BY <1>4
    <2>3. m = n
      BY <2>1, <2>2 DEF UndoInv, NothingUndoneAgain
    <2> QED BY <2>1, <2>2, <2>3 DEF IInv, TypeOK
  <1>6. InspectedHasNoUndo'
    <2> SUFFICES ASSUME snapshot' # None
                 PROVE  InspectedHasNoUndo'
      BY DEF InspectedHasNoUndo
    <2>1. /\ snapshot' = snapshot /\ HasNoUndo(snapshot.id)
          /\ \E j \in journals : FileOf(j) = snapshot /\ j.undoOf = 0 /\ j.status = "completed"
      BY DEF UndoInv, InspectedHasNoUndo
    <2>2. HasNoUndo(snapshot.id)'
      BY <1>4, <2>1 DEF HasNoUndo
    <2>3. \E j \in journals' : FileOf(j) = snapshot /\ j.undoOf = 0 /\ j.status = "completed"
      BY <1>2, <1>3, <2>1 DEF OnlyStatus
    <2> QED BY <2>1, <2>2, <2>3 DEF InspectedHasNoUndo
  <1> QED BY <1>5, <1>6 DEF UndoInv

\* A history in which bytes ran out stays one.
LEMMA SkippedStays == [Next]_vars => (skipped => skipped')
  BY Zenon DEF Next, Apply, Start, Finish, Crash, MoveForeign, Refresh, InspectUndo,
     ExecuteUndo, Recover, vars

LEMMA NextKeepsUndo ==
  IInv /\ (skipped \/ UndoInv) /\ [Next]_vars => (skipped \/ UndoInv)'
  <1> SUFFICES ASSUME IInv, IInv', UndoInv, ~skipped', [Next]_vars
               PROVE  UndoInv'
    BY NextKeeps, SkippedStays
  <1>1. CASE Apply
    <2> DEFINE file == [kind |-> "plan", id |-> nextPlanId]
    <2>1. PICK graph \in Graphs : Plannable(graph) /\ Start(file, graph, 0, FALSE)
      BY <1>1, Zenon DEF Apply
    <2>2. file \in JournalFiles /\ file.id = nextPlanId
      BY <1>1, LimitsTyped DEF Apply, IInv, TypeOK, JournalFiles, PlanIds
    <2>3. CanStart(file, graph, 0, FALSE)
      BY <2>1, <2>2, LimitsTyped DEF Plannable, CanStart, IInv, TypeOK, IdsAreAllocated
    <2>4. snapshot' = None
      BY <1>1 DEF Apply
    <2> HIDE DEF file
    <2> QED BY <2>1, <2>3, <2>4, StartKeepsUndo, Zenon
  <1>2. CASE ExecuteUndo
    <2> DEFINE j == JournalIn(snapshot)
    <2>1. /\ snapshot # None /\ snapshot' = None /\ UndoId <= MaxPlanId
          /\ \/ UndoIsReady(j) /\ Start(UndoFile, UndoGraph(j), j.id, TRUE)
             \/ ~UndoIsReady(j) /\ UNCHANGED <<at, journals, executing, undisturbed>>
      BY <1>2, ExecuteUndoIs, Zenon
    <2>2. j \in journals /\ j.id = snapshot.id
      BY <2>1, JournalInIs, FileTyped DEF IInv, TypeOK, InspectedExists
    <2> HIDE DEF j
    <2>3. HasNoUndo(j.id)
      BY <2>1, <2>2 DEF UndoInv, InspectedHasNoUndo
    <2>4. CASE UndoIsReady(j) /\ Start(UndoFile, UndoGraph(j), j.id, TRUE)
      <3>1. CanStart(UndoFile, UndoGraph(j), j.id, TRUE)
        BY <2>1, <2>2, <2>4, UndoCanStart
      <3> QED BY <2>1, <2>3, <2>4, <3>1, StartKeepsUndo, Zenon
    <2>5. CASE UNCHANGED journals
      BY <2>1, <2>5 DEF UndoInv, NothingUndoneAgain, InspectedHasNoUndo
    <2> QED BY <2>1, <2>4, <2>5
  <1>3. CASE Finish
    <2>1. executing # None /\ snapshot' = snapshot
          /\ \/ journals' = journals
             \/ \E s \in {"completed", "rolledback"} : journals' = WithStatus(executing.file, s)
      BY <1>3, Zenon DEF Finish
    <2>2. CASE journals' = journals
      BY <2>1, <2>2 DEF UndoInv, NothingUndoneAgain, InspectedHasNoUndo, HasNoUndo
    <2>3. ASSUME NEW s \in {"completed", "rolledback"}, journals' = WithStatus(executing.file, s)
          PROVE  UndoInv'
      <3>1. s \in Statuses /\ snapshot' \in {snapshot, None}
        BY <2>1 DEF Statuses
      <3> QED BY <2>1, <2>3, <3>1, StatusKeepsUndo, Zenon
    <2> QED BY <2>1, <2>2, <2>3
  <1>4. CASE Crash
    <2> DEFINE s == "torn"
    <2>1. /\ snapshot' = None
          /\ \/ journals' = journals
             \/ executing # None /\ journals' = WithStatus(executing.file, s)
      BY <1>4 DEF Crash
    <2>2. s \in Statuses
      BY DEF Statuses
    <2> HIDE DEF s
    <2>3. CASE journals' = journals
      BY <2>1, <2>3 DEF UndoInv, NothingUndoneAgain, InspectedHasNoUndo
    <2>4. CASE executing # None /\ journals' = WithStatus(executing.file, s)
      BY <2>1, <2>2, <2>4, StatusKeepsUndo
    <2> QED BY <2>1, <2>3, <2>4
  <1>5. CASE InspectUndo
    <2>1. ReadsAll(journals)
      BY <1>5 DEF InspectUndo
    <2> QED BY <1>5, <2>1, InspectUndoSeesUndos
  <1>6. CASE MoveForeign \/ Refresh \/ Recover \/ UNCHANGED vars
    <2>1. journals' = journals /\ (snapshot' = snapshot \/ snapshot' = None)
      BY <1>6 DEF MoveForeign, Refresh, Recover, vars
    <2> QED BY <2>1 DEF UndoInv, NothingUndoneAgain, InspectedHasNoUndo, HasNoUndo
  <1> QED BY <1>1, <1>2, <1>3, <1>4, <1>5, <1>6 DEF Next

\* A transaction is undone at most once, whatever crashed or was rolled back
\* in between and however many journals the count left out, unless an
\* inspection for an undo ran out of bytes (undo.rs:200, ledger.rs:196, 232).
THEOREM NothingIsUndoneTwice == Spec => []UndoneAtMostOnce
  <1>1. skipped \/ UndoInv => UndoneAtMostOnce
    BY DEF UndoInv, UndoneAtMostOnce
  <1>2. Init => skipped \/ UndoInv
    BY InitEstablishesUndo
  <1> QED BY <1>1, <1>2, Invariant, NextKeepsUndo, PTL DEF Spec

\* The undisturbed transaction, once completed, is ready to be undone, and a
\* discovery that reads it says so.
LEMMA UndisturbedIsUndoable ==
  ASSUME IInv, NEW j \in journals, FileOf(j) = undisturbed, j.undoOf = 0,
         j.status = "completed"
  PROVE  /\ UndoIsReady(j)
         /\ ReadsAll(journals) =>
              Discovered(journals, ledger.items).items[undisturbed].entry.undoAvailable
  <1>1. j \in Journals /\ undisturbed # None /\ undisturbed.id = j.id
    BY FileTyped DEF IInv, TypeOK
  <1>2. InPlace(j) /\ \A k \in journals : k.id <= j.id
    BY <1>1 DEF IInv, UndisturbedIsLast
  <1>3. UndoIsReady(j)
    <2>1. \A o \in Sources(j) : at[o] = j.names[o].final
      BY <1>2 DEF InPlace
    <2>2. ASSUME NEW o \in Sources(j), NEW p \in Objects, at[p] = j.names[o].original
          PROVE  p \in Sources(j) /\ j.names[p].final = j.names[o].original
      BY <1>2, <2>1, <2>2 DEF InPlace
    <2> QED BY <2>1, <2>2 DEF UndoIsReady, UndoDestinationIsAvailable
  <1>4. j \in Candidates(journals)
    <2>1. \A k \in journals : ~Before(j, k)
      <3> SUFFICES ASSUME NEW k \in journals, Before(j, k)
                   PROVE  FALSE
        OBVIOUS
      <3>1. k \in Journals /\ k.id <= j.id
        BY <1>2 DEF IInv, TypeOK
      <3>2. j.id = k.id /\ j.kind = "plan" /\ k.kind = "undo"
        BY <1>1, <3>1, FileTyped DEF Before
      <3>3. j = k
        BY <3>2 DEF IInv, PlanIdsAreFresh
      <3> QED BY <3>2, <3>3
    <2>2. {k \in journals : Before(j, k)} = {}
      BY <2>1
    <2>3. Cardinality({k \in journals : Before(j, k)}) = 0
      BY <2>2, FS_EmptySet, Zenon
    <2> QED BY <2>3, LimitsTyped DEF Candidates
  <1>5. ASSUME ReadsAll(journals)
        PROVE  Discovered(journals, ledger.items).items[undisturbed].entry.undoAvailable
    <2>1. Discovered(journals, ledger.items).items[undisturbed].entry
            = Projection(j, Read(journals))
      BY <1>4, ListedAreRead, Zenon
    <2>2. j \in Read(journals) /\ Read(journals) \subseteq journals
      BY <1>4, <1>5 DEF ReadsAll, Candidates
    <2>3. \A k \in journals : k.undoOf # j.id
      <3> SUFFICES ASSUME NEW k \in journals, k.undoOf = j.id
                   PROVE  FALSE
        OBVIOUS
      <3> QED BY <1>1, <1>2, FileTyped DEF IInv, TypeOK, IdsAreAllocated
    <2>4. j.id \notin Superseded(Read(journals))
      BY <2>2, <2>3 DEF Superseded
    <2>5. Projection(j, Read(journals)).undoAvailable
            = (/\ j.status = "completed" /\ j.undoOf = 0
               /\ j.id \notin Superseded(Read(journals)))
      BY <2>2 DEF Projection
    <2> QED BY <2>1, <2>4, <2>5, Zenon
  <1> QED BY <1>3, <1>5, Zenon

\* The last transaction can be undone once it is completed and no other
\* program renamed anything, sources that exchanged names included
\* (undo.rs:427), and the next listing offers it if it has the bytes for what
\* it lists.
THEOREM LastOnesAreUndoable == Spec => []LastTransactionIsUndoable
  <1>1. IInv => LastTransactionIsUndoable
    BY UndisturbedIsUndoable, Zenon DEF LastTransactionIsUndoable
  <1> QED BY <1>1, Invariant, PTL

===============================================================================

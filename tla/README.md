# Renamewright: specification and verification

Renamewright renames many files at once on Windows. Every change of a name is
announced in a write-ahead journal, so that a crash, a power loss, a failing
disk or another program can interrupt a batch at any point and the user can
still finish it or take it back. Around that machinery are a planner that
computes the new names, a ledger of what was renamed, an undo, and a desktop
shell that lets the user edit while all of them work. This directory models
them in TLA+, checks the models with TLC on small instances and proves with
TLAPS what makes each of them correct for every value of its constants: a
transaction for every number of files, batch size and set of faults, its journal
file for any number of processes, the replay of a journal for any records,
planning for any names, rules and directories, the ledger for any objects and
limits of discovery, the application service for every set of threads, and the
shell for any rules, sources and number of inputs.

Paths below are relative to `src/crates/`.

## 1. The system

| Component | State it keeps | Operations | Talks to |
|---|---|---|---|
| Journal protocol (`renamewright-core/src/execution.rs`) | none; a fold over records | build the two-phase schedule, replay a journal, derive its status | everything that reads a journal |
| Plan executor (`renamewright-platform/src/executor.rs`) | schedule index, batch, open writer | freeze a plan, execute it, continue forward, roll back | journal file, execution file system |
| Durable journal file (`renamewright-platform/src/journal.rs`) | file, lock, poisoned flag | create, open, read frames, append durable or buffered | operating system |
| Execution file system (`renamewright-platform/src/execution_fs.rs`) | directory handles | identity observation, no-replace rename | operating system |
| Recovery (`renamewright-platform/src/recovery.rs`) | an inspection of a journal | inspect, reconcile, resume, roll back | journal file, executor, file system |
| Undo (`renamewright-platform/src/undo.rs`) | an inspection of a completed journal | inspect, prepare, execute the inverse transaction | executor, ledger |
| Ledger (`renamewright-platform/src/ledger.rs`) | the entries discovered | discover, supersede, refresh | journal file |
| Source registry (`renamewright-platform/src/lib.rs`) | admitted sources, generation | admit, remove, snapshot | application service |
| Planner (`renamewright-core/src/planner.rs`, `model.rs`) | none | evaluate rules, allocate sequences, diagnose collisions | registry snapshot |
| Rules and target policies (`rules.rs`, `windows.rs`) | none | string transformations | planner |
| Application service (`renamewright-application/src/lib.rs`) | latest plan, plan ids, authorizations, recovery session, locks | plan, apply, inspect, recover, undo, cancel, initialize | all of the above |
| Presets (`renamewright-application/src/lib.rs`) | one bounded document | load, save | nothing |
| Desktop shell (`renamewright-app/src/lib.rs`) | rules and overrides on the screen, the plan shown, four task slots, one confirmation | start background tasks, poll them, confirm | application service |

How a batch of renames runs. The planner turns a snapshot of the registry into
a preview. Applying it freezes it: every source's identity is re-read and a
free temporary name is chosen for each. The executor creates the journal with
a durable header and walks a schedule of `2*N` steps: first every source goes
from its original to its temporary name, then every source from its temporary
to its final name. Swaps and chains therefore need no ordering. An intent for a
batch of up to 32 steps is made durable, then each rename of the batch is
followed by a completion record that is only *buffered*; the next durable
append makes it survive a power loss. A failed or cancelled step starts a
rollback, which undoes the completed steps one by one, each under its own
durable intent. A rollback step that fails ends the call; the user is offered
recovery later. Recovery replays the journal, observes by file identity where
the sources are, and offers to reconcile an undecided step, to resume or to
roll back.

### What is hard here

- The names and the journal are two stores. Between an intent, its rename and
  its completion record there are crashes, power losses, failed writes (torn
  frames), failed syncs (whole frames whose durability nobody knows) and
  renames that report an error after they took effect.
- A reader never sees the executor, only the frames that survived. Whatever
  the order of crashes, cancellations and recovery calls, replay must accept
  them and they must explain the names.
- Other programs create entries at the names a plan needs, or move, link and
  delete the sources, between a preview, its freezing, an inspection and the
  operation the inspection was for.
- Two folds read the same journal (`replay_journal` and the expected locations
  of `validate_recorded_state`), and they must agree.
- Two instances of the application may open one journal directory, and only
  the file lock keeps one writer to a file.
- In the application: previews of an old registry generation, single-use
  authorizations, a cancellation that is confirmed while the execution it was
  meant for ends, plan ids that must not be reused although discovery is
  bounded, three mutexes that calls hold while they wait.
- In the shell nothing is modal. Edits, selections and exclusions overlap with
  answers to earlier ones, and a confirmation stays open while all that goes on.
- The planner works with its own idea of equal names, an environment read
  earlier and numbers at the end of their range.

`PROJECT.json` lists each of these as hazards, at the lines where they bite,
with the properties that cover them.

### What makes each component correct

- Protocol: whatever is replayed is a prefix of the schedule; both folds agree.
- Executor and recovery: write-ahead (no rename without an intent that
  survives), the surviving journal admits the names, reported outcomes are
  durable and true, nobody else's entry is touched, a verdict stands, an
  interrupted transaction can be recovered, calls return.
- Journal file: to a reader it is a log that only grows at its end, keeps what
  was acknowledged and is never extended past damage; one writer, who knows what
  the file holds.
- Undo and ledger: a transaction is undone at most once and only while its
  names are still its own; journals never share a plan id; the last transaction
  can be undone.
- Planner, registry and freezing: what is frozen can be carried out, numbers
  grow and do not wrap, the trace of a row explains its name, a generation
  names one state of the registry.
- Application service: plan ids are never shared; previews are published in the
  order of their ids and executed at most once; sessions exclude each other; an
  authorization is used once; a cancellation reaches only the execution it was
  asked for; no deadlock.
- Shell: the plan that can be applied, and the one that is being confirmed, is
  the one shown and up to date; no edit and no selection is forgotten; an
  operation is confirmed for the entry it is shown with.

## 2. The modules

| Module | Models | Kind |
|---|---|---|
| `ExecutionProtocol` | schedule, records, replay state, status | pure operators |
| `JournalReplay` | `replay_journal` and `validate_recorded_state` with their deques and map | state machine fed with any records |
| `RenameTransaction` | executor, appender, recovery, file system, faults | state machine |
| `RenameTransactionProps` | the properties and the inductive invariant | properties |
| `AtomicRename` | what a transaction promises to an observer | abstract specification |
| `LoggedTransaction` | `RenameTransaction` with the records of its journal as history | state machine with its properties |
| `RenameTransactionProofs` | theorems about transactions, and that they implement `AtomicRename` and keep a `DurableLog` | proofs |
| `JournalReplayProofs`, `PlanningProofs`, `UndoLedgerProofs`, `ApplicationServiceProofs`, `ShellProofs` | theorems about the modules they are named for | proofs |
| `JournalFileProofs` | theorems about `JournalFile`, and that it implements `DurableLog` | proofs |
| `NaturalLemmas` | induction over numbers and finite sets, recursive functions, largest and smallest elements, images; used by most proof modules | proofs |
| `JournalFile` | frames, lock, creation, inspection, resumption, appends and reconciliation of one file by several processes | state machine with its properties |
| `DurableLog` | what a journal file promises to a reader | abstract specification |
| `NameRules` | rename rules, their validation, the Windows name policy | pure operators |
| `Planning` | source registry, validation environment, planner, freezing | state machine with its properties |
| `UndoLedger` | journals on disk, discovery, undo | state machine with its properties |
| `ApplicationService` | the service's calls on several threads and its mutexes | state machine with its properties |
| `Shell` | UI thread, four workers, what the user does | state machine with its properties |
| `MCRename`, `MCJournal`, `MCPlanning`, `MCUndo`, `MCService`, `MCShell` | the instances TLC checks | model values |

How they divide the system. A frozen plan comes out of `Planning` with free,
distinct names; `RenameTransaction` executes it under its journal;
`JournalFile` shows what that journal is made of (both are shown to keep a
`DurableLog`); `UndoLedger` takes whole
transactions as its unit and asks which of them may be undone;
`ApplicationService` takes planning and executions as work of some duration and
asks what may overlap; `Shell` takes the service's calls as answers that arrive
late. Each one uses of the others no more than what the others' properties
state.

Operators that begin a comment with "Mutant:" are wrong versions of the
definition that follows them. Nothing uses them. Substituted for that
definition each of them breaks the property it is paired with in
`PROJECT.json`, which shows that the property depends on that piece of code.

The type invariants of `RenameTransaction`, `JournalReplay`, `UndoLedger`,
`ApplicationService` and `Shell` are proved (`TypeCorrect` in the proof modules).
One is a question of its own, that of `ApplicationService`, whose ids have to
stay within their range; the run `service` checks it. What types `Planning` and
`JournalFile` have is a part of their inductive invariants (`RegistryOK`,
`RequestOK`; `ControlOK`, `CellsOK`).

### `ExecutionProtocol` and `JournalReplay`

`replay_journal` keeps a vector of completed steps and deques of prepared and
remaining steps. `ExecutionProtocol` keeps a phase and two counters instead:
`forward` with the next step and the number of prepared steps, `rollback` with
the number of remaining steps and whether one is prepared, `failed`, the two
verdicts, and `rejected` for a replay error. `JournalReplay` has the deques of
the code. It reads *any* record in any order, including steps and counts beyond
the schedule, and shows that the deques never hold anything but a prefix of the
schedule, that whether a record is accepted depends on the counters alone
(`ReplayIsCompact`), and that the second fold, over completions only, puts
every source where the replayed status says it is. That licenses the compact
form everywhere else, for every number of sources, since all three are proved.

### `RenameTransaction`

State and what it stands for:

- `dir` maps case-folded names of the parent directory to a source, to an entry
  of someone else or to nothing.
- `file` is the replay state of the journal as the running system serves it,
  `onDisk` the set of replay states a power loss may leave, `torn` whether the
  file ends in a frame that does not decode. A durable append makes `onDisk` a
  singleton, a buffered completion and a failed sync add to it.
- `pc` names the executor's next call, `step`, `batchEnd`, `cause` are its local
  variables, `reported` is the `ExecutionOutcome` of the last call that
  returned. `pc = "idle"` means that no writer holds the journal.

Each append and each rename is an action of its own, so that any fault and any
other program can act between two of them. `ExecuteFrozenPlan`,
`ForwardIntentStep` (one iteration head of the chunk loop), `Cancel`,
`ForwardRename`, `ForwardRenameFails`, `ForwardRecord`, `CompleteTransaction`,
`StartRollback`, `RollbackIntentStep`, `RollbackRename`, `RollbackRenameFails`,
`RollbackRecord`, `RollbackFailed`, `CompleteRollback` and
`RetryFailedRollback` are the calls of the executor;
`ReconcilePreparedStep` and `RecoverTransaction` are the user's two recovery
operations, guarded by what the inspection answers. `ProcessCrash`,
`PowerLoss`, `ForeignCreate`, `ForeignRemove` and `Tamper` are the environment,
each enabled by the constant `Faults`.

Abstractions:

- Reconciliation observes the names and appends its record in one action. In
  the code a program may move a source in between; `JournalFile` has the two as
  separate steps.
- A rename is durable when the call returns, and the identity check and the
  rename are one step, as in the Windows adapter, which renames through an open
  handle. The Linux adapter, which the repository uses for tests, checks first
  and renames then.
- The directory entry of a new journal is durable with the header's sync.
- One writer at a time: the file lock, which `JournalFile` models.
- Names are case-folded keys, since Windows resolves them case-insensitively.
- Temporary names are free at the start, distinct and different from originals
  and finals (`NamesAssumption`). `Planning` proves this of what
  `freeze_execution_plan` picks (`FrozenNamesAreFit`), but for two cases that are
  left out: a final name that an override spells exactly like the temporary name
  of another source, and one file that is registered by two spellings of its
  name. Both pass freezing, and a rename that finds its name taken or its source
  gone sends the transaction back.
- All sources have one parent directory. A plan renames within parents, and
  sources of different parents share no names.

### `AtomicRename`

Every source has one name at a time; only a transaction that was announced and
has no verdict moves names; `Complete` needs every source at its final name and
`RollBack` every source at its original one. `RenameTransactionProps` maps `dir`
and `onDisk` to it: the verdict is the one every surviving journal agrees on,
and a transaction is unannounced as long as a power loss can make it vanish.

### `LoggedTransaction`

`RenameTransaction` keeps replay states instead of a journal.
`LoggedTransaction` adds two history variables, the `records` in the file and
the number of them that are `synced`: an append puts its record at the end
(`Written`), a loss of power takes some that were not synchronized (`Lost`), and
every other step leaves them (`Kept`). `JournalIsItsRecords` says that `file` and
`onDisk` are the replay states of these records and of the prefixes a loss of
power may leave; `KeepsADurableLog`, that they are a `DurableLog`. No run checks
this module, whose records have no end; both are proved.

### `JournalFile` and `DurableLog`

One journal file and the processes that use it. `content` is a sequence of
cells, two for the header of a frame and one for its payload, so that a write
can stop inside either; `synced` is how much of it a power loss cannot take;
`lock` is the holder of the exclusive lock. A process has a `pc`, the records it
has read or written (`memory`), the schema it writes in, the bytes its user was
shown, and the frame it is writing. `CreateNew` and `LockCreated` are
`JournalWriter::create_new`, which creates the file and locks it in two steps;
`LockExisting`, `OpenAuthorized` and `IntoWriter` are an inspection and the
operation the user confirms later, after `verify_content`; `AppendExecuted`,
`ReconcileStep`, `WriteCell`, `Buffer`, `Synchronize` and `AppendFails` are an
append from its validation to its sync. `FrameIssue` has the checks of
`decode_journal` in their order, `NextFrame` is one round of its loop and
`InspectJournal` what the rounds come to. The environment damages or restores the file,
moves the source of a prepared step, and takes power away with any part of what
was not synced.

`DurableLog` is the abstract view: records the protocol accepts, a count of
acknowledged ones and a flag for an unreadable end that its writer has left.
Behind such an end nothing is written; only a loss of power can take it away.
`IsADurableLog` is the refinement: while a frame is being written, a reader finds
the log without it. `RenameTransaction` appends a record in one step and implements
the same `DurableLog` (`LoggedTransaction`), so what it takes a journal to be is
what `JournalFile` makes one of.

Abstractions: a checksum is the tuple of what it covers; entries and identities
of the header are left out; a sync of a new file makes its name durable, too.
`JournalWriter::resume`, which takes over a journal of an older schema, is called
by tests only and is modelled with them. A rewrite by another program ends the
promises, not the run.

### `NameRules` and `Planning`

`NameRules` has the rules (prefix, suffix, replacement, letter case, range,
whitespace, character class, extension, sequence), what makes a rule invalid,
and the names Windows refuses or takes for equal. A name is a sequence of
characters; case mappings, classes and encoded lengths are constants, so that an
instance can have a character whose capital is two letters and one that is half
a surrogate pair.

`Planning` has the directory tree, the source registry with its generation and
cached snapshot, a preview in the steps in which it reads the file system, and
the freezing of the plan that came out of it:

- `NormalizePaths` and `AdmitCandidates`: `admit_paths_count`, which reads
  fingerprints first and registers all new sources or none; `RemoveSources`;
- `PlanningSnapshot`, `CheckSources`, `BuildPlan`: the cached snapshot, the
  fingerprints, then the entries of the parents and the plan itself, with its
  overrides, sequence numbers, trace budget and diagnostics;
- `FreezeExecutionPlan`: the checks of `freeze_execution_plan` on the registry
  and the file system as they are by then, and `available_temporary_name`, which
  takes the first of a source's names that no entry has;
- `Interfere`: another program moves, replaces, removes or creates a file between
  any two of these, or changes the case of its name.

Abstractions: regular expressions and Unicode normalization are the work of two
libraries and left out; so is the ancestor check by directory identity (the
lexical one is there). Freezing is one step. A temporary name is one of a list
that the constant `TemporaryNames` has for each id, since `temporary_name` writes
the id and the attempt into it. An object stands for a fingerprint and an
identity together. Other programs do not move directories. Names that the file
system takes for equal are those with one comparison key (`Folded`). A file
system that folds further than `to_lowercase` could let two destinations that
are equal to it alone through preview and freezing; the second rename then finds
its name taken, which `RenameTransaction` has as a rename that fails and turns
the transaction back.

### `UndoLedger`

`at` is the name of every object, `journals` the files with their kind, plan id,
original (for an undo), names and status. `ledger` is the `RenameLedger` in
memory with its ledger ids and `latest_plan_id`, `nextPlanId` the service's
sequence, `snapshot` the inspection an undo is confirmed for. `Discovered` is
`discover` and `refresh`: files in the order of their keys, `MaxJournals` of
them, of which as many are read as the byte limit lasts for, ledger ids kept for
the files known before, supersession by undo journals that were not rolled back,
and the latest id from *all* file names. `Apply`, `ExecuteUndo` and `Recover`
begin an execution and `Finish` ends it, in the middle of which every source is
at a temporary name; `Crash` restarts the application from the disk;
`MoveForeign` is other programs, which rename any number of objects between two
steps.

Abstractions: an execution has one intermediate state, since its steps are
`RenameTransaction`'s. All names are in one directory. A journal in use cannot
be read by a refresh on Windows, where its lock is mandatory, and is then like
one beyond the byte limit.

The byte limit is spent from the oldest journal on. When `MaxBytes` does not
suffice for the journals that are listed, the undo of a transaction may be left
unread and the transaction offered again: TLC finds one undone a second time.
The limits of the code are 1024 journals and 64 MiB in all, which is also what a
single journal may have, and nothing in the repository says what the user is
promised beyond them. The history variable `skipped` therefore remembers whether
any inspection for an undo was made with too few bytes (`~ReadsAll`), and
`UndoneAtMostOnce` says that only such an inspection can lead to a second undo.
The two journals the run lists take a byte for each of their sources, and three
are too few when both have two: both cases occur, and in either ids have to stay
fresh and keep their journal.

### `ApplicationService`

The shell calls the service from threads of its own: one that initializes it
when the window opens and later lists and inspects the ledger, a planning task,
an admission task, the window itself, which previews and cancels, and a
mutation task. The module has sets of threads by role and allows more than one
mutating thread, as the service does.

State and what it stands for:

- `registry` is the generation of the source registry, `latestPlan` the stored
  preview with its id and generation, `nextPlanId` the sequence;
- `sequence`, `ledger`, `mutation` are the holders of the three mutexes that a
  call keeps while it waits or works. The others protect a few statements, and
  such statements are one action;
- `control` and `authorization` are `RecoveryControl` and
  `JournalAuthorizationState`; `ledgerLatest`, `ledgerRoot` and `journalRoot`
  what `initialize` fills in, one mutex after the other;
- `disk` is the set of journal files by kind and plan id; `pc` and `local` are
  each thread's position and its local variables (`seen` is the generation a
  planner's snapshot or a session was taken with);
- `published` and `confirmed` are history variables that properties refer to.

A run of the shell starts with empty memory and any set of journals with
distinct ids. A crash leaves such a set if `JournalIdsAreUnique` holds, so
restarts need no action of their own. The four counters stop where the code's
`u64`s do: `checked_add` refuses, `saturating_add` stays.

Abstractions: an execution takes some time and ends; what it does to names and
journal is `RenameTransaction`. Which entry an inspection is about and whether
an action is available are left open. Discovery sees every file name, so the
ledger's latest id is the highest on disk. A poisoned mutex, which needs a
panicking thread, does not occur. One process uses the journal directory.

### `Shell`

The desktop shell has one UI thread and at most one worker thread each for
previews, admissions, the ledger and a mutation. A worker sends one message and
the UI thread polls for it in every frame.

State and what it stands for:

- `rules`, `overrides`: what is on the screen; `plan`, `current`, `status`:
  `self.plan`, `plan_is_current` and the status line; `due`: a preview that waits
  for the end of a debounce;
- `planning`, `admission`, `ledgerTask`, `mutation`: the task slots, with what
  the task was started with and what it has found so far; `queued`: selections
  that found a worker busy;
- `listed`, `selected`, `inspection`, `ledgerReady`: the ledger pane; `dialog`:
  the pending confirmation with the plan or entry it is about;
- `registry`, `latest`: as much of the service as an answer depends on.

`User` has what the buttons allow between two frames: editing rules at once or
debounced, overrides, exclusions, selections, ledger requests, inspections,
asking, dismissing and confirming. `Workers` has the steps of the background
threads, `Polls` one poll each (`poll_admission`, `poll_planning`, `poll_ledger`,
`poll_mutation`).

Abstractions: `planning_revision` is a number that is only compared, so a task
carries a flag that says whether its revision is still the present one; a plan is
the rules, overrides and sources it was made from, not its id; an override is
the source it belongs to; polls of one frame may interleave with the user. The
user acts a bounded number of times. Drafts in the rule editor, presets, plan
documents, fonts, appearance and closing the window are left out.

## 3. The runs

| Run | Instance | Environment | Shows |
|---|---|---|---|
| `swap` | 3 sources: two swap, the third moves; batch 4 | all faults but tampering | the inductive invariant, the safety and action properties, and the refinement of `AtomicRename` |
| `tampering` | 2 sources swap, batch 32 | crash, failing renames, foreign entries, tampering | the journal stays readable when others move, link and delete sources |
| `ends` | 3 sources in a chain, batch 2 | all but foreign entries and tampering | an interrupted transaction is recoverable; calls return; a persistent user brings every transaction to a verdict |
| `replay` | 3 sources, any records | - | the deques are a prefix of the schedule, the two folds agree |
| `journal` | 2 processes, 1 source, records to sequence number 6, journals of three schemas | failed and torn appends; one power loss, rewrite or move | writers know their file, a reconciliation writes what it saw, the file is a `DurableLog` |
| `planning` | up to 3 sources of which one is a directory, a dozen characters, every short name, some 60 rule chains | one step of another program | a frozen plan is safe; generations, sequence numbers, ancestors, traces and rules keep their promises |
| `undo` | 2 objects, 3 names, plan ids to 3, 2 of the journals listed and 3 bytes to read them | crashes; once, other programs rename what they like | undone at most once unless an inspection ran out of bytes, and from its names; ids fresh and stable, the last transaction undoable |
| `service` | 1 initializing browser, 2 threads that plan and mutate, 1 canceller; ids to 3, 2 sessions, 2 authorizations | earlier journals with the first and the last id, either or none | ids, sessions, authorizations and cancellations keep apart what runs at once; no deadlock |
| `shell` | 1 source, 1 entry, 3 rule chains of which one does not compile, 7 inputs | workers that fail or answer late | the plan offered and confirmed is the one shown; nothing the user did is forgotten |
| `powerloss` (violation) | 2 sources, batch 32 | power loss | finding 1 |
| `casecrash` (violation) | 1 case-only source | process crash | finding 2 |
| `wrongentry` (violation) | 2 ledger entries, 4 inputs | - | finding 3 |

### Bounds

A source interacts with another one only through a name one of them frees and
the other takes, which two sources show (a swap is the case no order of direct
renames can execute, a chain the one where order matters). With three sources
and batches of four a batch straddles the phase boundary at step 3, holds both
steps of the first source, and is followed by a shorter one: the shapes that
plans of any size have with the code's 32. `Batch = 32` with two sources is the
code's constant and stands for plans of up to 16 sources, where one batch holds
both phases. `ends` has batches of two, one of which straddles the boundary:
batches that are no longer than the number of sources are those of plans of 32
sources and more, and after a power loss only those are recoverable (finding 1).
The proofs do not depend on these bounds.

`journal`: a second process is enough for each race over the lock. Six records
are a whole forward transaction of one source; a rollback of it ends at a record
the sequence has no number for. One disturbance at a time is what an append or
an inspection can meet between two of its steps. Processes are interchangeable.

`planning`: a name of three characters has every position of a dot or a blank
that the rules distinguish; longer names are listed where a rule needs them.
Three trees have files to swap, a directory with a source in it whose name sorts
around the separator, and occupied names. The changes of the registry that
are allowed use no more ids than `MaxSourceId`; each has two temporary names, and another
program may take the first one of the second. `MaxNumber = 15` lets sequences run
out inside and at the end of a step; `MaxTrace = 8` ends the trace budget in the
middle of a row.

`undo`: a transaction, its undo and one more transaction, of which discovery
lists two, so every file is left out once, by the count or by the bytes. Two
objects swap, move and take each other's names over three. All names and objects
are interchangeable.

`service`: a call finds another one before, in and after its session; a
cancellation needs two sessions to go astray, an authorization two inspections;
earlier journals matter by the id that comes after them, which is 1, 2 or beyond
the last one; with ids up to 3 a run meets an exhausted sequence at each place
that allocates.

`shell`: seven inputs are an edit, a selection, an override, and a confirmation
with what it takes to have a plan at all. Two sources with five inputs give the
same results.

Deadlock checking is on in `swap`, `tampering`, `service` and `undo`. In the
others something really stops: a transaction that has its verdict (`ends`,
`powerloss`, `casecrash`), a replay that rejected a record, a closed journal
when the disturbances are over, a frozen plan, a user who does no more.

### Findings

1. *A power loss in a small plan* (`powerloss`). The schedule is cut into chunks
   of 32 steps whatever the number of sources. With up to 31 sources, some
   source has its temporary and its final step in the same batch. If a power
   loss drops both buffered completions, the journal is at the first step while
   the source already has its final name. The inspection compares only the two
   names of the step that is next, answers `UnexpectedLocation`, and offers
   nothing. The comment at `journal.rs:523` expects that replay "requires
   identity-based reconciliation" in this case; that reconciliation is refused.
2. *Case-only renames* (`casecrash`). Original and final name resolve to the
   same entry, so a source is observed at two locations whenever it is not at
   its temporary name. Recovery refuses two locations, so an interrupted
   transaction with such a source offers no recovery action.
   `SECURITY.md:28` lists "truthful, recoverable journal state for every
   filesystem mutation".
3. *The operation of another entry* (`wrongentry`). `poll_ledger`
   (`renamewright-app/src/lib.rs:3592`) stores the answer of an inspection
   whichever entry is selected by then. Selecting another entry (`lib.rs:3909`)
   clears what is shown but not the inspection that runs, so its answer appears
   below the new entry, and Resume, Rollback, Reconcile and Undo there ask for
   the operation of the old one. The confirmation (`lib.rs:5815`) names the
   operation and not the entry. `README.md:141` says: "No filesystem mutation
   until the user reviews an explicit plan and confirms the exact current
   operation."

In the first two the journal still tells the truth (`JournalExplainsNames` holds
there, and is proved); what is missing is the way out. The operation of the
third is one the service has authorized, for a transaction the user did not
mean.

Three weaknesses of the shell are behaviours of the model and break nothing the
repository promises. A debounced edit that is followed by an admission that
fails ends in an error status, and the edit is only previewed with the next
one. The refresh that follows a mutation is dropped while another list runs
(`lib.rs:3461`), so the ledger may show the transaction as it was. A finished
rename clears the overrides, but the answer to an earlier preview or admission
may bring a plan with them back. `Explains` admits exactly this: the overrides the
last rename gave up (`givenUp`, a history variable) and no others, and not those
once the user has set or removed one.

### Fairness

`FairSpec` of `RenameTransaction` assumes weak fairness of `ExecutorStep`:
the thread a call runs on keeps running. Nothing else is needed for
`EveryCallReturns`. `TransactionEnds` also assumes that the user keeps choosing
an operation that stays offered (`PersistentUserSpec`), and that disturbances
end: its premise is that from some point on there is no crash, failed append,
ambiguous or refused rename. The user's operations are disabled while a call
runs, so their fairness cannot help a call to return. The environment has no
fairness.

`FairSpec` of `Shell` assumes weak fairness of the worker steps of an admission
and a preview (`AdmitSources`, `PlanAdmission`, `PreviewRules`) and of the two
polls that take their answers. A worker ends since the service's calls do; the
shell asks for another frame as long as a worker runs or a preview is due, and
polls in every frame. The user has none.

`ApplicationService` states no fairness. That no order of the mutexes leaves
calls waiting for each other is the invariant `SomeCallCanGoOn`: while any call
has not returned, some call that has begun can take its next step. Threads that
are idle do not count, so a cycle of waiting calls shows even if other threads
could still begin something.

## 4. The proofs

### The transaction

`RenameTransactionProofs` proves for every `N`, `Batch`, assignment of names
satisfying `NamesAssumption` and set of `Faults`:

- `Invariant`: `Spec => []IInv`, and from it `TypeCorrect`,
  `EveryJournalReplays`, `JournalExplains` and `OutcomesAreTrue`;
- the action properties `RenamesAreAnnounced`, `TornJournalIsFinal`,
  `VerdictsStand` and `ForeignEntriesStay`.

- `EveryCallIsBounded` and `RecoveryIsBounded`, below;
- `InterruptedCanRecover`, under two hypotheses, below;
- `Refinement`: without tampering, `Spec` implements `AtomicRename`;
- `JournalIsTheReplayOfItsRecords` and `KeepsALog`: the journal is a `DurableLog`,
  below.

The argument. `JournalExplainsNames` says that the names are those of *some*
prefix `k` of the schedule which every surviving journal admits. That is not
inductive: it does not say which `k` while a call runs, nor that the executor
writes what replay accepts next. `IInv` adds

- `ControlMatchesJournal`: at each `pc` the journal's replay state is a function
  of the executor's local variables. This makes every record acceptable
  (`JournalReplays`), including the three causes of a rollback;
- `IntentIsDurable`: inside a batch every surviving journal has the batch's
  intent and lacks at most completions of this batch; inside a rollback step
  the journal is fully synced;
- `NamesFollowControl`: `k` is the journal's next step, or one past (before, in
  a rollback) between a rename and its record.

The proof that a step keeps `IInv` has a lemma per action. Renames use the
lemma `RenamePlaces` (a rename of step `k` takes the names of prefix `k` to
those of prefix `k + 1`, which is where the two-phase schedule and the
distinctness of names are used); appends use `AppendKeepsJournal`,
`AppendKeepsNames` and `FailedAppendKeeps`. The replay lemmas say what each
record does to the replay state. For the refinement, only appends change the
verdict, a verdict in a surviving journal fixes the prefix, and each rename is
a `Move` of one source under an announced transaction.

That an open journal which is not torn always offers reconciliation, resumption
or rollback (`InterruptedIsRecoverable`) is false in general: findings 1 and 2.
`InterruptedCanRecover` proves it under exactly what the findings violate:
`NamesDiffer`, no source keeps its name up to case, and `BatchesAreKept`, no
power is lost or a batch is no longer than the number of sources. The second is
tight: with two sources and power losses, TLC finds no counterexample for
`Batch = 2` and one for `Batch = 3`. The inspection looks at the two names of
one step, so the names must not be further ahead of the journal than the next
step of the same source, `N` steps on (`WithinReach`). With the power on they
are at most one step ahead (`AtMostOneAhead`, an invariant of its own, for which
names have to tell one prefix of the schedule from another: `PrefixIsUnique`).
With power losses, they are at most what a batch had prepared
(`BatchesAreBounded`).

That calls return and transactions end is liveness, but what it rests on is
not. `CallSteps` counts the steps a call has left: forward to the end of the
schedule and back again, three for each step of it. `EveryCallIsBounded` says that
whatever happens while a call runs takes it down, so that a call is over after
`6 * StepCount + 5` steps. `TransactionSteps` adds the recoveries, of which the user
may choose any: `RecoveryIsBounded` says that what is not a disturbance (a call
that gives up, a rename that fails, a power loss, a reconciliation that is not
written) takes it down, so that an undisturbed transaction has its verdict after
`7 * StepCount + 6` steps. Neither needs
fairness; `EveryCallReturns` and `TransactionEnds` add that the steps are taken.

`RenameTransaction` keeps of its journal what replay makes of it.
`LoggedTransaction` has the records next to that, and
`JournalIsTheReplayOfItsRecords` proves that the two agree for every prefix of them
that a loss of power may leave, by induction on the steps: replay of a record more
is one more application of `apply_record` (`ReplayOfAppended`). `KeepsALog` proves
that the records are a `DurableLog`. For it, every step must leave the file as it
was or write one record behind an end that is not torn (`StepsMoveTheFile`), and
which of the two it was must show: a record that replay accepts changes its state
(`RecordsChangeTheState`). `HistoryTakesNothing` says that the two history variables
never keep a step from being taken, so the theorems are about every behaviour of
`RenameTransaction`.

The theorems rest on the named `ASSUME`s (`NAssumption`, `NamesAssumption`,
`BatchAssumption`, `EntriesAssumption`, `FaultsAssumption`), which TLC evaluates
on every run; `Refinement`, `RenameOnlyUnderDurableIntent` and what concerns
names in the others hold under `NoTampering`.

### The replay of a journal

`JournalReplayProofs` proves `StepsStayAPrefix`, `LocationsMatch` and the action
property `CountersSuffice` for every number of sources and every sequence of
records, sensible or not.

`ModeStands` says that the deques are what the counters describe: in a forward
mode, the steps below `next` completed and the following ones prepared; in a
rollback the remaining steps backwards. The proof is a simulation: whatever
record is read, both sides refuse it or both accept it and the relation holds
again (`ModeFollows`, with one case per kind of record and mode). It needs what
appending to, popping from and reversing a range of steps gives. The second
fold changes the location of one source for each completion; that it ends at
`LocationAt` is part of the invariant.

### The journal file

`JournalFileProofs` proves for every set of processes, any records that
`RecordsAssumption` describes, any journals of earlier versions and any number
of disturbances: `WritersKnow`, `ReconciliationsAreAsSeen` and `Refinement`
(`Spec => IsADurableLog`).

A process believes something of the file, and the file changes one cell at a
time. `IInv` says who may be believed:

- `LockOK` and `CreatedOK`: whoever is past the opening of the file holds its
  lock, and a file whose creator has not locked it yet is empty;
- `Known`: an authorization's bytes read as its records; a writer that is
  neither poisoned nor rewritten knows what a reader of the file would find;
  and while a frame is being written, the file is one that a reader takes whole,
  with the first `i` cells of the frame at its end and the others still to be
  written (`MidFrame`);
- `Seen`: a reconciliation has seen the place where the source is.

Everything rests on what a reader makes of a file that begins like another one.
The loop of `decode_journal` is a recursive function whose existence is proved
by induction over its rounds (`FramesAreDefined`), and a round that finds a whole
frame finds the same one in every file that begins with the same cells
(`SameReading`). So an appended frame is read as its record
(`AppendedFrameIsRead`), a part of one is not read and shows (`PartOfAFrame`),
a block that was never written is not read (`JunkIsNotRead`), and the beginning
of a file reads as a beginning of its records (`PrefixReadsPrefix`). Cells and
records have no common type; the lemmas on sequences are about sequences of
anything (`IsSequence`).

The refinement needs a second invariant, for as long as no other program has
rewritten the file (`LogInv`): the records a reader finds are legal, the
acknowledged ones are in the synchronized part, and a frame that is being
written is of a record that replay accepts next, which for a reconciliation
means that the journal it was opened with has an undecided step (`Intends`).
Then writing the last cell of a frame is an `Extend` and any other cell nothing to
a reader, a synchronization an `Acknowledge`, a loss of power a `Lose`. A process
that lets go of a frame it has not finished makes a `Tear`, every other step is
nothing, and none of them starts a frame behind a torn end
(`NobodyWritesBehindATornEnd`). Replay is a recursive function, too: legal records have
only legal beginnings (`LegalPrefix`).

### Planning and freezing

`PlanningProofs` proves for any objects, names over any alphabet, directory
trees, selections, chains of rules, overrides and bounds: `FrozenPlansAreSafe`
and from it `FrozenNamesAreFit`, `GenerationsNameTheRegistry`, `EveryAncestorIsFound`, `EverySequenceGrows`,
`EveryTraceExplains` and `EveryRuleKeepsItsPromises`.

`IInv` has a part per piece of state. The registry has every path once, under an
id that was given once (`RegistryOK`). The cached snapshot is of the registry as
it is (`CachedOK`), and a request is while its generation is the registry's
(`RequestOK`). A plan of the present generation lists the registry's sources,
and if it can be applied, its names are accepted, all different, and no source
encloses another (`PlanOK`). Freezing adds what it finds in the file system by
then, and so a frozen plan sends no two sources to one name, none to the name of
an entry that stays, and none together with what is in it, and has a free
temporary name for each of them (`FrozenNamesAreSafe`). Temporary names of two
sources differ since their ids do, which is why `RegistryOK` also says that ids
are at least 1 and within `MaxSourceId` (`TemporaryNamesAssumption` is about
those).

Three algorithms needed arguments of their own. Sorting paths component by
component yields a sorted sequence (`SortedIsSorted`). The pass over the sorted
paths with a stack of open directories finds exactly the pairs of which one
encloses the other (`ConflictsAreFound`): everything in a directory follows it
without a gap, so a directory that is popped has no further descendants. The
allocation of sequence numbers stops at the first that does not fit, so those
given out grow by their step.

The traces and the promises of the rules are about recursive functions: the
rules applied in turn, the sources evaluated in turn, the loops over the
characters of a name. That such a function exists is proved once, by induction
over its domain (`RecursionExists` in `NaturalLemmas`), and what each of its
values satisfies by another induction (`StaysIn`). Rules make names of names
(`Rules` says what a rule is, `RequestsAssumption` that requests consist of
them). Then

- for one row, a trace is a chain of steps from the original name, the name
  after the last step is the current one as long as the trace was not cut short,
  and what the trace keeps plus what is left of the budget is at most the budget
  before; over the rows this adds up to at most `MaxTrace`;
- a rule for one part of a name writes the same characters before or after that
  part, whatever it makes of it; the bounds of a range from the end are those
  from the start of the reversed text; what `cleanup_whitespace` has written is
  clean after each character, with a blank still owed or not; and what
  `replace_literal_bounded` has written, with the replacement put back, is what
  it has read.

The last is only true for a replacement by one character that is neither in the
name nor in what is searched for, and that is what the property says.
`AlphabetAssumption` says that the dot and the blank are characters, that the
blank is white space, and what case mappings and widths are; `DigitsAssumption`,
that digits are characters.

`TreesAssumption` supplies what a file system keeps to: a directory has a name
once, up to case, and whatever encloses an entry is a directory of the tree.
Other programs keep to it as well (`TreeOK`).

### The ledger and undo

`UndoLedgerProofs` proves for any objects, names and limits of discovery
`PlanIdsAreNotReused`, `LedgerIdsAreStable`, `UndosBeginFromTheirNames`,
`NothingIsUndoneTwice` and `LastOnesAreUndoable`. None of them supposes that the
byte limit suffices: what depends on it is part of the two last properties, as
section 2 says of `skipped` and `ReadsAll`.

`IInv` adds that no id on disk has yet to be allocated (`IdsAreAllocated`, which
rests on `LatestPlanId` reading every file name), that the items of the ledger
have ledger ids of their own (`ApartInLedger`), that an inspection is of a journal on
disk (`InspectedExists`), that what executes needs attention
(`ExecutingIsOpen`), that no two objects have one name and no two sources of a
transaction come from one or go to one (`NamesApart`, `GraphsApart`), and that the
sources of an undisturbed transaction are where its status says, with nothing in
the way of going back (`UndisturbedIsLast`). `UndoInv` adds that the transaction
an undo is confirmed for has none that took effect. An inspection establishes
that only if discovery has read every such undo, so what is inductive is
`skipped \/ UndoInv` (`NextKeepsUndo`).

### The application service

`ApplicationServiceProofs` proves for every set of planning, browsing, mutating
and cancelling threads, every set of journals of earlier runs and every bound of
the four counters (`ThreadsAssumption`, `BoundsAssumption`): `TypeCorrect`,
`JournalIdsStayUnique`, `OneCallRunsInASession`, `OnlyConfirmedCancellations`,
`AuthorizationsAreSpent`, `MutexesAreHeld`, `NoCallWaitsInACircle`, and the action
properties `LatestPreviewsWin` and `EveryCallIsShort`.

`JournalIdsAreUnique` speaks of files. It depends on which threads have been
given an id and not yet created the file of it, and on what `initialize` has done
at that time, since it resets the sequence to what discovery found. `IInv` adds

- `IdsInUse`: ids that threads hold are below the next one, differ from each
  other and from the latest plan's; a thread that builds a plan holds the
  sequence lock, and its id is above every published one;
- `IdsOnDisk`: once the sequence was initialized, no journal has an id that a
  thread or the latest plan holds;
- `Initialization`: one thread initializes, the id it carries is the largest on
  disk until the sequence is set, and no call that needs the ledger gets
  anywhere before the ledger has a root. So nothing creates a journal between
  discovery and the sequence, and `InitializeSequence`, which needs the sequence
  lock, meets no id in use;
- `Cancellations`: a request on the active session comes from a user who
  confirmed *that* session;
- `Authorizations`: a request that was taken has a number below the next one and
  is not the active one.

What keeps calls from waiting for each other has three theorems.
`MutexesAreHeld`: each mutex is held by the call that is at a place between taking
and releasing it, and by no other (`MutexesFollowCalls`; it needs to know what
the call is for, `OperationsFit`). `NoCallWaitsInACircle`: the ledger is always
taken before the sequence and the mutation lock is only tried, so the call that
another waits for waits for at most one more, and while any call is in progress
one of them waits for nothing (`CallsWaitInOrder`). `EveryCallIsShort`: each step
of a call takes it nearer to its return, at most 11 steps away, and no step of
another sends it back (`CallsOnlyGoOn`).

The steps of one call leave what the others know alone; that is one lemma,
`OneCallMoves`, and then each part of `IInv` has a lemma with one case per
action. That the largest id on disk exists (`LargestExists`) is well-founded
induction, for which the library's theorem on relations is enough.

### The shell

`ShellProofs` proves for any rules, sources and ledger entries and any number of
inputs (`ShellAssumption`, and `NoneAssumption`: `None` is not a task or plan):
`TypeCorrect`, `OfferedPlansAreUpToDate` and `ConfirmedPlansAreShown`.

What a user may apply depends on answers that are still on their way. `IInv`
says what those are: a preview and an admission never run together, and a fresh
one works for what is on the screen, with the present overrides while a rename
runs (`Workload`); a fresh answer is a plan of
the sources admitted now (`Answers`); hence what becomes current explains the
screen (`CurrentPlanExplains`); and while a confirmation to apply is open,
nothing runs, waits or is due that could replace the plan (`ApplyDialog`). Every
entry that changes rules, overrides or sources goes through `refresh_plan` or
supersedes the tasks (`RefreshedPlanIsUpToDate`).

### Only model-checked

- Liveness (`EveryCallReturns`, `TransactionEnds`, and the shell's properties
  under fairness) and `SomeCallCanGoOn`, which speaks of what is enabled: both
  are out of the prover's reach. What they rest on is proved: that steps are
  bounded (`EveryCallIsBounded`, `RecoveryIsBounded`, `EveryCallIsShort`), and that
  no calls wait for each other (`NoCallWaitsInACircle`).

Apart from these, every property a passing run checks is stated by a theorem.
Induction principles with a predicate as a parameter cannot
be instantiated by the provers at hand. `NaturalLemmas` has them for sets (of the
numbers, or of the finite sets, that satisfy the predicate), and recursion is
written as recursive functions over a bounded range, whose existence such an
induction proves.

## 5. Not modelled

- Regular expressions and Unicode normalization in the rules, diagnostics
  wording, data transfer objects, plan export, presets, and the layout of the
  desktop shell.
- The native Windows and Linux calls; only their contract is used.
- The contents of a journal's header and the byte layout of its records. Frames
  are modelled as far as a reader can be misled by them.
- The ancestor check by directory identity, and directories that other programs
  move.
- Source change polling, drafts in the rule editor, closing the window.
- A poisoned mutex, and a worker whose channel is disconnected without an answer:
  both need a panicking thread, and a release build aborts on a panic
  (`Cargo.toml:32`).
- The probe binary and packaging scripts.

## 6. Plan

In order of importance, still to do:

1. The ancestor check by directory identity, in `Planning`.
2. Presets and plan documents, which a user loads between two edits.

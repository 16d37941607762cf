# A TLA+ model of the Stitch editor core

This directory is a verification development of the editor in `../src`: TLA+
modules that model its components, TLC configurations that check them on small
instances, and proofs that TLAPS checks for every value of the constants.
`PROJECT.json` lists the components, the runs, the mutants that show each
property can fail, the source lines each definition stands for, the hazards of
the code and the theorems. Paths below are relative to the repository.

## 1. The system

The repository is an early video editor: a Rust core, its persistent store, a C
ABI around the core and a Qt Quick shell that previews frames with Metal.

| Component | Where | State | Operations | Modelled by |
|---|---|---|---|---|
| Project model | `crates/contracts/src/lib.rs` | a `Project` value | `reduce`, `validate`, `revision_hash` | `ProjectModel` |
| Rational time and adapters | `crates/contracts/src/lib.rs` | none | checked arithmetic, ranges, rounding, `adapt_absolute_sequence` | `RationalTime`, `ContractCalls` |
| Canonical codec | `crates/contracts/src/lib.rs` | none (a `Reader`'s position) | `canonical_bytes`, `from_canonical_bytes` of projects and commands | `CanonicalCodec`, `ContractCalls` |
| Editor history | `crates/editor-core/src/lib.rs` | revision vector, cursor | `apply`, `undo`, `redo` | `EditorHistory` implements `UndoStack` |
| Project store | `crates/project-store/src/lib.rs` | a SQLite file; per handle a worker thread, a bounded channel and the state in memory | open, commit, receipt, snapshot, checkpoint, compact, archive, shutdown | `ProjectStore` implements `DurableLog`; `StoreRecovery` |
| C ABI | `native/c-abi/rust/src/lib.rs`, `native/c-abi/include/stitch/c_api.h` | tables of cores, snapshots, diffs, metadata; per core owner, epoch, history, leases | create, destroy, set_epoch, submit, lease calls, retain and release | `LeaseAbi` implements `FrameLeases`; `AbiHandles`; `AbiCommand` |
| Controller and preview item | `desktop/qt/src/editor_controller.mm`, `preview_item.mm` | cached frame context, pump flag and timer, paint node, mailbox, frames in flight | edits, `updatePaintNode`, `onAfterRendering`, completion, teardown | `PreviewPipeline` |
| Shell wiring, self test, UI | `desktop/qt/src/main.mm`, `Main.qml` | none that outlives a call | | not modelled |
| Windows shell | `desktop/qt/src/main.cpp` | none | a start-up program | not modelled |
| Build, scripts, docs | `scripts`, `toolchains`, `docs`, `tasks` | | | not modelled |

**How they interact.** The store and the ABI both build on `reduce` and the hash
chain; they do not use one another (the shell keeps its edits in the core's
history, not in a store). The controller calls the ABI from the GUI thread, which
owns the core. The preview item calls the lease functions from Qt's render
thread, through the controller. The GPU's completion handler posts a lease id
to an atomic one-slot mailbox; a timer of the GUI thread polls for it by asking
for item updates.

**What is hard.**

* *Store*: two handles (of two processes, or of one) on the same file, each with
  its own state in memory; a crash or an ambiguous answer after a commit is
  durable and before the response; retries; automatic snapshots after the
  response; compaction against another handle's snapshots; a bounded channel.
  Opening is several statements, between which other handles write; an archive
  is published by a rename, which a power failure may precede or follow.
* *ABI*: a call takes the table's lock, clones an `Arc`, then takes the core's
  lock, sometimes two or three times: state checked in one critical section and
  used in the next; destruction between the two; a diff published after the
  lock is dropped; a callback that calls back; three tables with a lock each, a
  shared counter of handles and reference counts of 32 bits.
* *Time and codec*: rationals in 64-bit fields computed through 128 bits; rounding
  that must not accumulate; a decoder that must take nothing for something else.
* *Preview*: three concurrent parties (GUI, render thread, GPU), frames
  completing after the object they sample was dropped, a timer that stops
  itself, scene-graph teardown at any time.

**What makes each component correct.** A history whose hashes always name their
projects; a store that applies each request at most once, tells no caller
anything that is not durable, and can be reopened whatever happened; leases that
go through their protocol once and in order and never survive their core while
in use; a preview that retires every lease once, and only after the GPU is done.
Arithmetic is exact or refused, and a decoder loses nothing of what it accepts.
The hazards, each at its line, and the properties that catch them are listed in
`PROJECT.json`.

## 2. The modules

| Module | What it is |
|---|---|
| `ProjectModel` | Pure operators: `Command`, `Project`, `ReduceError`, `Reduce`, `WellFormed` (`Project::validate`), `revision_hash`, `Replay`. No variables. |
| `UndoStack` | Abstract: done and undone commands. |
| `EditorHistory` | `EditorHistory::{apply, undo, redo}`. |
| `DurableLog` | Abstract: an append-only log in which a request occurs at most once, and the answers callers were given. |
| `ProjectStore` | The file, its handles, their workers and their callers. |
| `FrameLeases` | Abstract: the life of a lease, and when a core may be destroyed. |
| `LeaseAbi` | One core, the threads that call it, and their critical sections. |
| `AbiHandles` | The handle tables, their locks and reference counts. |
| `PreviewPipeline` | GUI thread, render thread and GPU around one preview item. |
| `StoreRecovery` | Opening, initialising and archiving one file statement by statement. |
| `RationalTime` | Pure operators: normalisation, arithmetic, order, ranges, rounding, adapters. |
| `CanonicalCodec` | Pure operators: encoding, and the `Reader`, over streams of words. |
| `AbiCommand` | Pure operators: a plain C struct becomes a `Command`. |
| `ContractCalls` | A client of the three modules above. |
| `*MC` | Concrete commands, batches, times and symmetry for TLC. |
| `*Proofs` | Theorems (section 4). |

### ProjectModel and EditorHistory

Identities and time ranges are model values. A project has a set of assets, and
functions of track and clip identities that are `Absent` where the ordered maps
of the code have no entry. Asset identities and source ranges are left out: no
command changes them and no property reads them. `ReduceError` keeps the order
of the checks. A revision hash is SHA-256 of the parent hash and the encoded
command; taking SHA-256 to be free of collisions, a hash identifies the sequence
of commands from genesis, so the model takes it to *be* that sequence. `Replay`
is a recursive function, not a `RECURSIVE` operator, so that it can be proved
about.

`EditorHistory` keeps `revisions` and `cursor` as the struct does; `Apply` takes
a command if `reduce` accepts it at the cursor, truncates the redo branch and
pushes. A rejected command changes nothing and is a stuttering step.

### ProjectStore

*State.* `revisions`, `receipts`, `head`, `snapshots` are the four tables.
`phase`, `memory`, `failed`, `queue`, `job`, `reply` are, per handle, the
program point of `worker_main`, its `State`, whether `maintenance_failure` is
set, the channel, the work received and the result about to be sent. `calls`
holds the call each caller is blocked in. `acked` and `ambiguous` are history
variables: what callers were told.

*Steps.* A SQLite transaction (`BEGIN IMMEDIATE`) is one step, and so is a
statement outside one; everything between is interleaved. A commit is `Call`,
`Send`, `Recv`, `CommitLookup` (the receipt query and `reduce` against the
handle's memory), `CommitTransaction` or `CommitRollback`, `Respond`, and
perhaps `AutoSnapshot`. Two handles are kept apart only by the primary keys of
the tables (`KeysFree`), as in the code. `Crash` drops everything of a handle at
any point, its callers included; `Open` runs `restore`'s checks again. Faults
are those the crate's tests inject (`FaultPoint`), carried by the work item;
apart from them SQLite may fail at any statement (`QueryFails`,
`CommitRollback`, the `~ ok` case of `PersistSnapshot`). A worker whose snapshot
failed (by request or automatically) refuses all work but `Receipt`; a failed
checkpoint or compaction is reported and forgotten, as in the code. `Send` needs
room in the channel (`HasRoom`); a caller without it stays blocked, and nothing
orders the blocked callers. `PersistSnapshot` joins the query for an existing
snapshot and the insert, which the primary key makes equivalent.

*Not in the model.* `Open` is one step here; `StoreRecovery` takes it apart. A
payload read back decodes to what was encoded (`CanonicalCodec` is about that).
The checks of the bundled SQLite and of its pragmas, which are constant for a
build, are left out.

### StoreRecovery

*State.* `file` is the database by the numbers the checks of `restore` compare:
the two identifying pragmas, whether the tables exist, the lengths of the
revision and receipt tables, the head, and the sequences of the snapshots. Rows
never change once written, so a length says which rows there are. `archives` and
`synced` are what a destination holds and what it would hold at the least after
a power loss; `at`, `seen`, `memory` are each handle's next statement, what the
statements of this call have read, and its state. `refused`, `overtaken`,
`reported` and `rivals` are history variables.

*Steps.* Each statement of `open_state`, `validate_schema`, `restore` and
`validate_receipts` is a step; `initialize_store` is one transaction. Meanwhile
other handles open, initialise, commit, snapshot and compact. `Archive` to
`SyncParent` are the steps of `archive`: existence check, SQLite backup (which
starts again when the file changes, so that it copies one state), validation of
the copy, sync of the copy, rename, sync of the destination's directory, which
the code does on Unix; the entries of other destinations may still be unsynced.
Any statement may fail, any handle may crash, and `PowerLoss` ends all handles
and keeps of an archive either the old or the new directory entry, whole only if
it had been synced.

*Not in the model.* The contents of the rows (`ProjectStore`), the refusal of
the store's own paths as destinations, temporary files left by a crash.

### LeaseAbi

*State.* `handle` is the entry of the table `CORES`; `owner`, `epoch`,
`revision`, `leases` are the `CoreState` (its history appears through its
current hash, from which `Replay` gives the project); `next` is the part of
`NEXT_HANDLE` that leases draw from; `diffs` is the published diffs in order.
`call` is a program counter per thread; `inCallback` is the thread-local guard.
`contexts` is a history variable: the epochs and revisions a caller may have
read.

*Steps.* `Enter` is the entry check and the clone of the `Arc`. Each further
critical section is a step: `submit` has two (apply, publish), `acquire` and
`lease_submit` three (compare epoch and revision, look the core up again,
transition), `retire` three (transition, look up, remove). `Destroy` holds both
locks and is one step. A critical section whose conditions fail is `Refuse`,
with the conditions collected in `Permitted`. A thread that cloned the `Arc`
goes on with the state of a destroyed core.

*Not in the model.* Mutex poisoning and panics (`ffi` turns them into a result
code; the code has no panic on these paths), reference counts (`AbiHandles`),
argument validation other than `AbiCommand`'s.

### AbiHandles

*State.* `next` is `NEXT_HANDLE`; `cores`, `snapshots`, `diffs` are the tables,
the last two with reference counts; `state` is what the `Arc` of a core points
to, which can outlive its entry in `cores`; `coresLock` and `coreLock` are the
locks that are held from one step to the next; `call` and `callback` are each
thread's program point and callback; `owned` says how many references each
thread of the host has.

*Steps.* `stitch_core_create` takes a number and then inserts; a call looks its
core up under the table's lock and then waits for the core's;
`stitch_core_snapshot` takes a number and inserts while it holds the core;
`stitch_core_submit` applies the batch, drops the lock, takes a number, inserts
the diff and calls back; `stitch_core_destroy` waits for the core with the table
locked. The lease calls change no table: `RegisterLease` takes a number while it
holds the core, and the others (`LeaseSection`) look the core up once or twice,
entering the table's lock again after the core's was dropped. A callback may
create a core, make a snapshot and read the metadata of a lease; the other calls
it makes are refused on entry. `Retain` and `Release` are one step each, under
their table's lock, and `Retain` may be refused at the counter's limit.

*Environment.* A thread retains and releases only what it owns, and may hand a
reference to another thread (`HandOver`): the header makes that the caller's
duty. A host that releases what is not its own is outside the model.

### RationalTime, CanonicalCodec, AbiCommand and ContractCalls

`RationalTime` takes the width as a parameter: `i64` is `-(MaxInt+1)..MaxInt`
and `i128` the range that goes with it. The operators refuse where the code
narrows and assume nothing about the 128-bit intermediates; that those fit is a
theorem. `CanonicalCodec` writes a stream as a sequence of words, one per field
of fixed width (identity, count, tag, version, magic, half a rational), and
reads it as the `Reader` does, with its counts, its duplicate and tag checks, its
test that nothing is left over, and the final `Project::validate`. `AbiCommand` is
the conversion of a `stitch_command`, one struct with unused fields for five kinds;
`EveryFieldCounts` compares values, so a ratio may be given unreduced, and the
asset's identity and the clip's source range, read by the code, are not compared.

The three keep no state. `ContractCalls` is a client: the last arithmetic or
conversion call and its result, a run of the adapter over an increasing vector of
times, or a project, the stream it was written to, and a foreign writer or a
damaged word. They share nothing, so the client does one at a time. As in
`ProjectModel`, the content identity of an asset and the source range of a clip
are left out of the codec.

### PreviewPipeline

*State.* `editing`, `project`, `context`, `timer` (GUI thread); `pump`, `dirty`,
`mailbox` (shared); `last`, `node`, `next`, `synced` (render thread); `gpu`
(frames in flight, with the lease each one samples and the one its handler
posts); `leases` (what the core holds).

*Steps.* `Edit` and `Publish` are the two halves of an edit or a cancellation:
the core changes, and later in the same GUI call the controller caches the new
context and signals the item. `Tick` is the timer. The disjuncts of `Sync` are
the paths through `updatePaintNode`, those of `Render` the ones through
`onAfterRendering`. `GpuFinishes` completes the oldest frame and runs its
handler; `Invalidate` is a scene-graph teardown with the node's destructor.

*External behaviour*, taken from how the code uses it: Qt blocks the GUI thread
while it synchronises or tears down, synchronises only items that are dirty, and
may render the window without synchronising this item (`"repaint"`); it may
mark the item dirty for a change of geometry (`"resize"`); it may hand out no
command buffer (`"noCommandList"`). The GPU finishes frames in order. A run
names what may happen in `Environment`. Metal runs the completion handlers before
`waitUntilCompleted` returns: the node's destructor discards their post directly
after it, so a handler that could still post then is excluded.

*Calls that cannot fail here.* After a core call the controller reads the snapshot
back before it publishes, and returns early if that fails
(`editor_controller.mm:143-190`, `319-326`); `drainCompletedLease` has a path for a
`complete` or `retire` that is refused (`preview_item.mm:231-234`). The ABI
refuses these only for a core that is gone, a thread or device that is not the
registering one, or a lease in another state, and none of these can be: the
controller destroys the core in its own destructor, the reads come from the
owner thread, and the lease is Submitted, registered by this thread for this
device. So these paths are left out.

*Not in the model.* Failures before the lease is submitted (texture, pipeline or
registration), which release what they took in the same call; device loss; the
controller's destructor, which destroys the core.

## 3. The runs

Each run says `Spec` unless fairness is mentioned. Every property of a passing
run has a mutant in `PROJECT.json`: the model with one plausible bug, in which
TLC finds that property violated.

| Run | Bounds | Shows |
|---|---|---|
| `EditorHistory` | 1 asset, 2 tracks, 2 clips, 2 ranges, 6 kept revisions | `HashNamesProject`, `ProjectsWellFormed`, `ImplementsUndoStack`, over all edits, undos, redos and branches |
| `StoreRetry` | 1 handle, 2 callers, 2 requests, 2 commands, commit faults, channel of 1 | `AcknowledgedIsDurable`, `ImplementsDurableLog`: retries, ambiguity, crashes |
| `StoreTwoHandles` | 2 handles, 2 callers, 2 requests, snapshot interval 2 | `ExactlyOnce`, `MemoryFollowsLog`, `SnapshotsReplay`, `NewestSnapshotKept` |
| `StoreMaintenance` | 1 handle, 2 callers, maintenance faults, interval 1, fair | `AlwaysRestorable`, `FailedHandleIsReadOnly`, `CallsReturn` |
| `StoreRecovery` | 2 handles, 1 destination, log of 2 | `UndisturbedOpenSucceeds`, `ArchivesSurvive`, `ReplacedOnlyByRivals` |
| `Abi` | 2 threads, 1 lease, 3 batches, epochs 0 and 1, fair | `OrphansNeverAcquired`, `DiffsChain`, `CallbackSeesItsRevision`, `CancelledIsNotSubmitted`, `ImplementsFrameLeases`, `RetiredIsRemoved` |
| `AbiHandles` | 2 threads, 3 numbers, 1 core, counts up to 2, 2 revisions, epochs 0 and 1 | `RefsMatchOwners`, `LaterHandlesSeeLater`, `NobodyDeadlocked` |
| `Contracts` | width of 4 bits: all rationals, all rates, 10 times in vectors of 3; streams of projects made by 9 commands, with every single word damaged | `ExactOrRefused`, `AdaptedTicksSound`, `DecodeInvertsEncode`, `AcceptedIsWhole`, `EveryFieldCounts` |
| `Preview` | 4 contexts, 6 leases, 2 teardowns, 2 frames in flight, everything in `Environment`, fair | `CachedContextIsCurrent`, `CompletionReachesNode`, `ObservedFrameHoldsTexture`, `LeaseFollowsNode`, `PolledLeaseRetires`, `PublishedIsPreviewed` |
| `AbiSubmitStale` | as `Abi`, one epoch | refutes `SubmittedIsCurrent`: section 5 |
| `ContractsCanonical` | as `Contracts` | refutes `AcceptsOnlyCanonical`: section 5 |
| `PreviewTeardown` | 1 context, 4 leases, 1 teardown, 2 frames in flight, empty `Environment`, fair | refutes `LeaseRetires`: section 5 |

`TypeOK` is checked in one run per module where the time allows it; the type
invariants that no run lists (`StoreRecovery`, `AbiHandles`) are proved.

**Why the bounds are enough.** Two requests and two commands are the fewest for
a collision of sequence numbers, a conflict of two commands under one request,
and a receipt that could be attributed to the wrong revision; the project
accepts each command once, so the log has at most two entries and a third
request adds no new relation between tables. Two handles race in every way two
connections can; a third is another stale one. A channel of one slot with two
callers has work in process, queued and blocked. Interval 1 takes a snapshot at
every revision, interval 2 skips one, so a handle can snapshot or compact behind
another. In the ABI two threads are an owner and a non-owner; the second epoch
makes a context stale; the batches chain and fail, also at their second command.
Leases do not share anything but the counter of their numbers, and the theorems
are about any number of them. Counts up to two are the least at which a retain
is refused at the limit and a release leaves another owner. Three numbers are a
core, a snapshot or lease or diff of it, and one that another thread takes in
between. Two handles in `StoreRecovery` are one that opens or archives and one
that disturbs it at every statement; a log of two has a head, a snapshot and a
revision after it. Four bits have both extremes, every pair of numerators and
denominators, overflow in every operation, and ties of rounding; no operator
looks at a constant of the width. In the preview a node lives for a few
synchronisations: four contexts and two teardowns give it a predecessor, a
successor and an interrupted life, and two frames in flight is the least that
lets a later frame overlap the observed one. The theorems of section 4 remove
the bounds for every safety property of every run; what TLC alone decides is
liveness.

**Symmetry** of callers, requests and handles is used in `StoreRetry`,
`StoreTwoHandles`, of handles in `StoreRecovery`, of threads in `AbiHandles`, and
of clips and tracks in `EditorHistory`: safety only, and the specifications treat
these values alike.

**Fairness.** *Store*: weak fairness of each worker's steps: the thread loops
for as long as the handle is open; and of each caller's `send`, which gets in if the
channel keeps having room. It is not strong: the channel wakes the senders in no
promised order, so `CallsReturn` lets a caller be overtaken for ever, and nothing
else. Nobody is obliged to call, open or crash.
*ABI*: weak fairness of the steps of a call that was entered: no lock is held
across steps, and every critical section is finite. Threads need not call, and a
callback need not return. *Preview*: the GUI
event loop finishes a handler it started and runs its timer; the render loop
synchronises a dirty item and renders the frame after it; the GPU finishes
frames. Nobody is obliged to edit, resize or repaint.

**Deadlock** is checked in the runs of the history, of `ProjectStore` and of the
contracts. The ABI runs turn it off, since a destroyed core has nothing left to
do and the numbers run out (`NobodyDeadlocked` is about the locks instead), and
so do `StoreRecovery`, whose log may be full, and the preview runs, since an
idle shell rests.

## 4. The proofs

| Module | Theorems |
|---|---|
| `ProjectModelProofs` | `ReduceWellFormed`: an accepted command keeps a project well formed. Lemmas: `Without` drops exactly one identity and keeps the others once each; `Replay` of an extended chain is `Reduce` of the replay. |
| `EditorHistoryProofs` | `EditorTypeOK`, `EditorHashNamesProject`, `EditorProjectsWellFormed`, `EditorImplementsUndoStack` |
| `ProjectStoreProofs` | `StoreTypeOK`, `StoreExactlyOnce`, `StoreAcknowledgedIsDurable`, `StoreMemoryFollowsLog`, `StoreSnapshotsReplay`, `StoreAlwaysRestorable`, `StoreFailedHandleIsReadOnly`, `StoreNewestSnapshotKept`, `StoreImplementsDurableLog` |
| `StoreRecoveryProofs` | `RecoveryTypeOK`, `RecoveryUndisturbedOpenSucceeds`, `RecoveryArchivesSurvive`, `RecoveryReplacedOnlyByRivals` |
| `LeaseAbiProofs` | `AbiTypeOK`, `AbiDiffsChain`, `AbiCallbackSeesItsRevision`, `AbiOrphansNeverAcquired`, `AbiCancelledIsNotSubmitted`, `AbiImplementsFrameLeases` |
| `PreviewPipelineProofs` | `PreviewTypeOK`, `PreviewCachedContextIsCurrent`, `PreviewCompletionReachesNode`, `PreviewLeaseFollowsNode`, `PreviewObservedFrameHoldsTexture`, `PreviewTimerOutlivesLease` |
| `AbiHandlesProofs` | `HandlesTypeOK`, `HandlesRefsMatchOwners`, `HandlesLaterSeeLater`, `HandlesNobodyDeadlocked` |
| `ContractCallsProofs` | Operators: `WideArithmeticFits`, `RoundingWithinPolicy`, `AdapterKeepsOrder`, `DecodeEncoded`, `ProjectPrefix`. Calls: `ContractsExactOrRefused`, `ContractsAdaptedTicksSound`, `ContractsEveryFieldCounts`, `ContractsDecodeInvertsEncode`, `ContractsAcceptedIsWhole` |

**Assumptions.** Only the named assumptions of the modules. `AbsentAssumption`,
`AbsentIsNoValue` and `FoundAssumption` say that `Absent` (and `Torn`) stand for
`None` and are no row, call, lease, node, entry or file. `StoreAssumption` has a
positive capacity and interval, which they are as constants of the code;
`AbiAssumption` and `HandlesAssumption` have a finite set of threads.
`MaxIntAssumption` says that a field holds more than zero. `WordAssumption` makes
every identity a word and every time range one whose ends `Rational::new` made,
as the private fields of the code do; `ContractAssumption` gives the client's
inputs their types, and `Write` yields a stream only if its lengths fit their
words, as lengths of vectors in memory do. Any number
of handles, callers, requests, threads, leases, destinations, contexts and frames
in flight, any set of commands, any log length and any integer width are covered.

**EditorHistory.** `Inv` says of every stored revision, redo branch included,
that its hash is a replayable chain of its own length, that its project is the
replay of that chain and well formed, and that *every* earlier revision's hash
is a prefix. The last part is stronger than `HashNamesProject`, which compares
neighbours, and makes truncation at any cursor harmless. The refinement maps
`done` to the hash at the cursor and `undone` to the rest of the newest hash.

**ProjectStore.** None of the properties is inductive alone. `Inv` is the
conjunction of `TypeOK`, which includes that a state's sequence number is the
length of its hash chain and that no channel holds more than its capacity;
`LogSound` (the hash at sequence *i* is the chain of the first *i* commands and
replays to a well-formed project; receipts and revisions are one to one; the
head row is the last revision); `MemorySound` (every handle's memory is a prefix
of the log and its replay); `SnapshotsReplay`; `CallsSound` (queued and running
work belongs to distinct blocked callers); `WorkSound` (a worker about to commit
holds a command its memory accepts, one about to answer holds a receipt of the
file); and `AcknowledgedIsDurable`. The central step is `CommitInv`: the primary
key on the sequence is free, and memory is a prefix, so the handle's memory *is*
the whole log, and the row it appends extends the chain; a stale handle fails on
the key. `StoreAlwaysRestorable` then follows from `Inv` by counting receipts,
`StoreNewestSnapshotKept` because a non-empty finite set of snapshots has a
newest one, and the refinement because the request of a sequence is unique.

**StoreRecovery.** `RecoveryInv` has three parts. `FileInv`: the tables agree
with one another and the pragmas with the tables, because every writer is one
transaction. `Undisturbed`: an open whose handle is not in `overtaken` has read
what the file still holds, field by field and statement by statement, so that
every check it makes succeeds; a step of another handle either leaves the log
alone or puts every open under way into `overtaken`. `ArchiveInv`: `Drafted` (a
copy that is about to be renamed is whole and synced), `Whole` (a destination
holds nothing but synced copies, now and after a power loss, and a reported one
holds one) and `Rival` (a call that may still rename found its destination empty,
or was under way when it was written).

**LeaseAbi.** The hard part is that a decision is taken in one critical section
and used in a later one. `Inv` says which threads may be between two sections
and what stays true for them: only the owner thread is between applying and
publishing (`Publishing`), hence the chain (`Chain`, `Published`); the thread in
a callback is the owner, whose guard refuses the calls that would move the core
(`InCallbacks`); a lease between its retirement and its removal is still there
(`Retiring`); a call that passed the check of a submission started no later than
the lease's context (`Starting`); every registration under way has a number left
to take, and a destroyed core holds only leases that were never acquired
(`Registrations`, `Orphaned`). `Registrations` counts calls, which is why the
threads must be finite. For the refinement a lease's stage is read off `leases`
and the call that registers or removes it, and every step is mapped to one of
`FrameLeases` or to a stutter.

**PreviewPipeline.** `Inv` joins `CompletionReachesNode` and `LeaseFollowsNode`
with `OnePost` (at most one frame carries a handler, it is the node's, and then
the mailbox is empty) and `FailedUnobserved` (a node that failed never attached a
handler). `PreviewTimerOutlivesLease` is the safety half of `PolledLeaseRetires`:
`PumpInv` says that the pump flag is up whenever a node is there, so that a tick of
the timer cannot stop it under a lease.

**AbiHandles.** A number is taken in one step and its object inserted in a later
one, so most of `Inv` is about calls between the two. `NumbersUnused`: numbers
not yet taken, and those taken and not yet inserted, belong to nothing and to one
call. `CoresMade` and `LockHolders`: a call that found its core has its state,
even after the table forgot it, and who holds which lock is read off the program
points; since a destroy holds the table only while it waits for a core, and a
core's holder waits for nothing, `NobodyDeadlocked` follows. `RefsMatchOwners`
compares a counter with the cardinality of the references that all threads have;
the lemmas `OneMore`, `OneLess` and `OthersSame` say what retain, release and
hand-over do to it. `LaterHandlesSeeLater` needs to know what a later insertion
will show: `EntriesBehind` (no entry is ahead of its core), `SnapshotsPending` (a
snapshot's number is the newest of its core's snapshots, because the core is
locked) and `DiffsPending`: a diff is numbered after the core is unlocked, and in
between snapshots of the batch may have taken lower numbers and no other batch
may have been applied, the owner being the thread that has not returned.

**RationalTime.** The proofs do by hand what the code's author did in the head:
bounds of products, and the order of quotients under each policy. From
`AdapterKeepsOrder` it follows that the error for ticks that do not increase
can only mean that two times fell on one tick. That `from_i128` reduces fully
rests on `GcdProperties`: Euclid's loop returns a positive common divisor that is
an integer combination of its arguments, by induction on the second. Hence the
quotients are coprime (some combination of them is 1), a coprime pair is the only
one for its value and the least (`LowestTerms`, `LowestTermsUnique`), and if it
does not fit the fields no pair does: `ExactOrRefused`. The state invariants
above the operators are `Arithmetic` and `Conversion` (what the last call holds
is the operator's result for its arguments) and `Adapting` (every entry is its
own time rounded, with its error, and the entries increase).

**CanonicalCodec.** Three arguments, each by induction along the *chain* of
positions at which the entries of a list begin; `ReadListChain` and
`ReadListBack` say that `ReadList` succeeds exactly when there is one.
*Reading back*: if a stream holds a chunk of words at a place (`Holds`), the
reader of that kind of chunk reads its value there and stops behind it; lists,
then the three lists of a project, follow. The maps do not depend on the order
of insertion when identities are distinct (`MapOfListed`), so `DecodeEncoded`
holds for every order. *Parts*: what a reader reads of a part it reads of the
whole (`Stable`), so two accepted streams, one a part of the other, end at the
same position (`ProjectPrefix`, `CommandPrefix`), and the magics keep the two
kinds apart. *Length*: a decoded stream lists each map once, in some order
(`DecodedIsProject`), each entry takes as many words as it is written in
(`TracksYield`, `ClipsYield`), and the sum over a list is the number of pairs of
an entry and one of its words, which is a cardinality and so the same for every
order (`ListLength`, `LengthOfEncoding`). The state invariant `Streams` only says
that the project is well formed and what each writer wrote.

**What stays with TLC.** Liveness (`CallsReturn`, `RetiredIsRemoved`,
`PolledLeaseRetires`, `PublishedIsPreviewed`) is beyond the installed provers. The
induction theorems of the library take an operator and cannot be used; the
proofs that need induction over data (`Replay`, `Without`, `gcd`, the partial
results of `ReadList` and `FlattenSeq`, the ordering of a finite set) argue
instead from the existence of the recursive function or from a set of numbers
that contains zero and successors. The refuted statements of section 5 are of
course TLC's.

## 5. Where the code and its documents disagree

Three disagreements have a run:

* **A stale lease may be submitted** (`AbiSubmitStale`). `c_api.h:164` says that
  submit rejects a stale revision or epoch. The comparison and the transition
  are two critical sections. In the run the owner thread's batch, entered
  before, is applied between them and advances the revision; `set_epoch` could
  advance the epoch there. What does hold is `CancelledIsNotSubmitted`: a lease
  that was stale when the call began is rejected.
* **The decoder accepts more than the canonical form** (`ContractsCanonical`).
  `crates/contracts/src/lib.rs:564` and `753` say that only the exact canonical
  representation is decoded. Entries in another order, and ratios not in lowest
  terms, decode too. What does hold is `AcceptedIsWhole`: what is accepted is
  well formed, complete and of the same length as its canonical form.

* **A lease may stay submitted while the shell is idle** (`PreviewTeardown`).
  `preview_item.mm:145` says that normal operation retires through the mailbox
  on a later render pass. The handler of `sceneGraphInvalidated` (`454-474`)
  re-arms the preview and raises `pump_active_`, but the timer, which had
  stopped after the previous preview, is not started: the next scene graph's
  preview completes, and no pass looks for its completion. A resize does the
  same for a context that was published while the previous preview was out,
  whose retirement stopped the pump. An edit, which starts the timer, a resize
  after the completion or another teardown ends it. What does hold is
  `PolledLeaseRetires`: a lease that is out while the timer runs is retired.

Three more were met. They have no run; to reproduce one, name the definition in a
configuration as shown.

* **An ambiguous commit's retry may be refused**: `INVARIANT RetryReturnsReceipt`
  of `ProjectStore` in `StoreRetry.cfg` with `"Snapshot"` added to `Ops`. The slice
  specification says that retrying the same request returns its receipt; a
  snapshot that failed in between makes the worker refuse every commit before it
  looks for a receipt (`crates/project-store/src/lib.rs:427`). Nothing is lost: a
  receipt query, or the retry after reopening, returns it.
* **A healthy store may be reported corrupt**: `INVARIANT ValidStoreOpens` of
  `StoreRecovery` in `StoreRecovery.cfg`. What another handle writes between two
  statements of an open is taken for corruption. What does hold is
  `UndisturbedOpenSucceeds`: opening again, with nobody writing, succeeds.
* **A frame may still sample a texture whose lease was retired**: `INVARIANT
  TextureOutlivesFrames` of `PreviewPipeline` in `Preview.cfg`, with
  `Environment = {"repaint"}`. The window renders
  for another item's sake between the frame that carries the handler and the next
  synchronisation, and the later frame is still on the GPU when the completion of
  the first retires the lease, against `c_api.h:166`. What does hold is
  `ObservedFrameHoldsTexture`, about the frame that carries the handler.

Four behaviours no document contradicts: a registration racing the destruction
of its core returns `Ok` with a lease nobody can discard (never an acquired one:
`OrphansNeverAcquired`); a context published while a preview is out may
never be shown, since retiring the older node clears the pump flag; two handles
may be open on one file, the stale one failing on a primary key until it is
reopened (`MemoryFollowsLog` says it is behind, never wrong); and of two archive
calls for one destination that are under way together, the later rename replaces
the earlier archive (`ReplacedOnlyByRivals`: only then).

## 6. Not modelled, and what is left

* SQLite, Qt and Metal themselves: modelled by what the code relies on.
* The checks of the SQLite runtime and its pragmas, constant for a build; the
  refusal of the store's own paths as archive destinations.
* Asset content identities and source ranges: no command changes them, and the
  codec treats them like fields that are modelled.
* ABI negotiation and plain struct layouts: sizes and versions compared with
  constants; the layout test compares them with the header.
* The preview's failures before its lease is submitted, which end in the call
  that met them, and the controller's destructor.
* The shell's wiring, self test and user interface, the Windows start-up program,
  the build, the scripts and the documents, which have no state.

What could still be added: the composition of `LeaseAbi` with `PreviewPipeline`
through the lease calls, which both now model from their own side.

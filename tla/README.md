# Proqi: a TLA+ verification project

Proqi is a terminal program in which a user collects *thoughts* (prompt
fragments) on a *board*, edits them, sends them to coding agents, and never
presses Save: every change is applied to memory at once and committed to SQLite
by a worker thread. Several processes share one store, one clipboard, one
directory of screenshots and one installation. The hard parts of the program are
the promises it keeps across those boundaries. This project models the code that
keeps them, checks the models with TLC on small instances, and proves the most
important results with TLAPS for instances of any size.

Paths below are relative to the repository's crate (`src/` of the repository);
`ARCHITECTURE.md`, `PRODUCT.md` and `FEATURE_INVENTORY.md` are under `context/`.
`PROJECT.json` lists every component with its status, maps each definition to the
lines it models, and names the hazards with the properties that cover them.

## 1. Inventory

Proqi is hexagonal: `domain` (values and pure rules), `application` (the
reducer and use cases), `ports` (traits), `adapters` (SQLite, terminal, file
locks, sockets, herdr, updates) and `ui`. One process owns one live session. Its
*owner thread* runs `runner/drive.rs`; worker threads (*lanes*) talk to it over
bounded channels; other processes reach it over a local control socket.

| Component | State | Operations | What is hard | Module |
|---|---|---|---|---|
| Autosave owner, persistence lane, operation log, recovery of failed saves, shutdown, screenshot inbox (`application/reducer.rs`, `terminal/persistence*`, `adapters/sqlite`, `ui/app/recovery.rs`, `runner/drive.rs`, `ui/app/screenshot*`) | memory, pending sequences, durability status, retained batches, store | edit, flush, commit, fail, retry, export, capture, quit, signal, crash, reopen | optimistic state ahead of the store; answers late, repeated or after a failure | Autosave, DurableLog |
| Board algebra, undo and redo (`domain/operations*`, `application/mutations*`, `sqlite/board_commit.rs`, `history_commit.rs`) | board, two kinds of history with cursors, each kept in memory and in the store | every command, undo, redo, truncate, reload | two implementations of the same history | Board, History |
| Transfer between sessions (`ui/app/transfer*`, `persistence/transfer.rs`, `sqlite/transfer.rs`) | picker, batches, intent journal, retained removals | pick, deliver, remove, retry, recover | lost answers, crash between journal and effect | Transfer |
| Clipboard (`adapters/clipboard`, `application/model/clipboard.rs`, `ui/app/clipboard*`) | pending copies, cuts and pastes, provenance | copy, cut, paste, check provenance | other users of the clipboard, edits while it is read | Clipboard |
| Export (`adapters/export.rs`, `ui/app/export*`) | staged and displaced files | write call by call, replace on the board | other writers of the file | Export |
| Attachments (`application/attachments.rs`) | cache, schedule, preflights | check, refresh, preflight | edits during a batch, stale answers | Attachments |
| Child processes (`adapters/process`) | call, pipes, deadline, what is left behind | start, read, cancel, kill, reap | helpers that keep a pipe open | ChildProcess |
| Schema lock and migration (`adapters/runtime/schema_lock.rs`, `adapters/sqlite/migration.rs`) | lock, schema, backup | open, wait, back up, migrate, follow | several builds start at once | SchemaLock |
| Session leases (`adapters/runtime`) | lock, metadata and socket files | acquire, publish, scan, release, die | scans race with publication | SessionLease |
| Capture lease and watcher (`terminal/screenshot_lane.rs`, `adapters/screenshot`) | lease, takeover, candidate files | enable, take over, drain, release; notice, debounce, deliver | takeover beside a late release | CaptureLane, ScreenshotWatcher |
| Sessions of the Browser (`sqlite/browser_history*`, `service/sessions`) | one history for the installation | create, rename, trash, restore, prune, undo, redo | stale generations, pruned targets | Sessions |
| Commands to a live owner (`adapters/control`, `runner/owner_control.rs`) | requests, lookups, identities | send, time out, retry, look up, apply | a retry beside its first attempt | Control |
| Companion pane (`application/companion*`) | recorded and observed panes | toggle, open, focus, close | herdr answers late or not at all | Companion |
| Input lane (`terminal/input.rs`) | reader, supervisor, two channels | read, number, pass on, coalesce, declare a stall | full channels, a silent reader | InputLane |
| Input stall recovery (`runtime/input_recovery.rs`, `runner/continuity.rs`) | recovery record, probation | drain, record, replace, admit | restart loops | InputRecovery |
| Terminal modes (`terminal/control.rs`) | modes entered | enter, leave, restore in an emergency | any command may fail | TerminalModes |
| Update checks (`terminal/update_lane.rs`, `adapters/update`) | cache, locks, prompt | refresh, prompt, answer | several processes ask at once | UpdateCheck |
| Update coordination (`application/update_coordination*`) | barriers, quiescence, recorded version | coordinate, quiesce, restart, admit, expire | a participant that dies in between | UpdateConvergence |
| Submission to agents (`ui/app/agent*.rs`, `adapters/sqlite/submission.rs`) | journal, locks on sources | choose, prepare, send, settle, remove | crash between journal and prompt | Submission |
| Worker lanes (`terminal/supervisor.rs`, `runner.rs`) | lifecycle cells, channels, leases | drain, close, cancel, join, replace | workers that hang or die | Lanes |
| Invocation picker (`ui/app/invocation.rs`, `adapters/invocation`) | generations, budgets | walk, consolidate, show | incomplete walks | Invocation |
| Editor (`adapters/editor`, `ui/app/editing.rs`, `ui/app/folds.rs`) | text, cursor, folds, pending revision | move, edit, fold, flush | offsets of two texts | Editor |
| Commands overlay and input barrier (`ui/app/palette*`, `screenshot/barrier.rs`) | captured facts, queued inputs | open, query, run, refresh, replay | the frame is older than the state | Palette |
| Text reflow, rendering, layout, shortcuts, argument parsing, search, downloads, diagnostics, build tooling | | | pure functions, presentation or I/O | not modelled |

Interaction. Every session has one owner thread, so each of its handlers is one
action. What runs concurrently with it are the lanes (bounded channels both
ways), the other processes (files, locks, sockets, the store) and the outside
(terminal, agents, herdr, other programs). Those are the interleavings the
modules keep. Within one component they are never merged.

## 2. Modules

Each module's opening comment says what its variables stand for. Conventions: an
operation, a thought, a file or a session is a model value; a text is a value or,
where its structure matters (Editor, Export), a short sequence; a time is a small
number; every bound on an environment (`Max...`) is a constant. Operators whose
comment begins *Faulty variant of* are mutants: they are used by no
specification, and each shows that a property notices the bug it describes.

**Autosave.** The state of one session and its store. An operation is a model
value: what it changes on the board does not matter here, only that it is
applied, sequenced, stored and acknowledged. `mem[s]` is the operation at
sequence `s` in the owner's memory and `log[s]` the one in the store, so
`AppState::highest_sequence` is `Len(mem)`, the store's `last_durable_sequence`
is `Len(log)`, and `durable` is the acknowledged sequence.

| Variable | Code |
|---|---|
| `mem`, `durable`, `pending`, `deferred`, `durability` | `AppState`: highest sequence, `pending_sequences`, `deferred_board_operations`, `DurabilityState` |
| `draft` | `BoardApp::pending_edit` |
| `intents` | intentions that may still allocate a sequence: pending cuts and pastes, submissions and transfers with removal, exports, control lookups, and input queued behind a capture |
| `save` | `ScreenshotInbox::save` |
| `quit`, `term`, `deadline`, `run` | `BoardApp::quit`, `TerminationAdmission`, `ShutdownCoordinator`, the event loop's outcome |
| `exports`, `exportedFor` | pending recovery exports, `recovery_exported_for` |
| `inflight` | `PendingWork::persistence` |
| `requests`, `results` | the two `sync_channel`s |
| `retained`, `retrying`, `todo`, `out` | the lane's retained batches, the loop of `retry_from`, the answers it has yet to send |
| `refused` | history, read by no action: sequences that a full retention or a full lane did not keep |
| `log`, `faulty` | the store, and whether it may fail |
| `used`, `exported` | history: identities handed out (UUIDs are not reused), the recovery files and the operations each holds |

Atomicity. Each handler of the owner is one action, from the reducer through
`enqueue_effects`: `Record` changes memory and posts (or meets a full channel) in
one step. Two things are split. A structural action flushes the pending edit
first; that is `Flush` followed by the action. Input queued behind a capture is
replayed one item per step; `Turn` keeps every other owner step out until the
replay is over, so only the lane, which really runs concurrently, can move in
between. The queue is a set: the order of replay is left open. The lane is one
thread: one step per transaction and one per answer. The store is external: one
atomic transaction per request, and an error reported by a transaction means that
it left nothing behind. `faulty` lets any transaction fail until `StoreHeals`.
`Reopen` is a crash at any point, or a start after an exit, with the reload.

**DurableLog** is the abstract specification: `view` (accepted and shown), `stored`
(survives a crash) and `acked` (reported as saved). `Autosave!Abstract` maps `view`
to `mem`, `stored` to `log` and `acked` to `durable`. Only a screenshot capture is
stored before it shows; when another operation takes its place in the view
meanwhile, nothing from there on is ever acknowledged.

**Board** is the algebra of board mutations as operators, with preconditions,
whole refusal and inverse. **History** composes it: each command of the reducer
changes the replica in memory by `application/mutations*` and the replica of the
store by `board_commit.rs` and `history_commit.rs`; Autosave is what shows that
the store receives the operations in order.

The other components share no state with one another beyond what each module
represents of its environment, so they are grouped in four suites by what they
promise. A suite instantiates its components, each with variables of its own; the
variable `scene` names the component a behaviour follows, the others keep their
initial state. A suite is thus the disjoint union of its components, not a
product, and each of its properties is about one component or one pair.

| Suite | Components |
|---|---|
| MCDelivery | Transfer, Clipboard, Export, Attachments, ChildProcess |
| MCOwnership | SchemaLock, SessionLease, CaptureLane, ScreenshotWatcher, Sessions, Control, Companion |
| MCTerminal | InputRecovery, TerminalModes, UpdateCheck, Invocation, Editor, Palette |
| MCSettling | Submission, Lanes, InputLane, UpdateConvergence |

MCAutosave and MCHistory hold the instances of Autosave and History. Symmetry is
used only among operations of one class and equal size, and never with liveness.


## 3. Runs

| Run | Bounds | Checks |
|---|---|---|
| `autosave_producers` | an edit, a control request, an asynchronous producer and two captures, so that one can be retried beside a producer; every channel and the retention hold one | `AcknowledgedIsStored`, `AwaitedWorkCounted`, `TruthfulStatus`, `StoreIsPrefix`, `AcknowledgedSurvives`, `ImplementsDurableLog` |
| `autosave_capture` | three edits, a capture; channels of one, two retained batches, one export | `TypeOK`, `PendingHeld`, `RetryCanSucceed`, `ExitIsFlushed` |
| `autosave_liveness` | two edits, one capture; workers may hang | `TerminationEnds`, `SaveSettles`, `QuitResolves` |
| `history` | two thoughts, one separator, two texts; seven groups of commands, each with its own number of operations (3 to 7) | `ReplicasAgree`, `MemoryAccepts`, `ReadyMoves`, `CursorUsable`, `HistoryStepsReverse`, `RemovesOnlyWritten` |
| `delivery` | one thought, two batches, two versions, two faults; two child runs | `TransferSafe`, `ClipboardSafe`, `ExportSafe`, `AttachmentsSafe`, `ChildContained` |
| `ownership` | four processes of several releases; three instances for one session; two capture processes with four requests; two files; two commands, three creations of which two share an identity, and an undo; a control queue and a lane of one slot, three runs of the commands, one failing commit; two tabs | `LeasesSafe`, `ScreenshotsSafe`, `SessionsSafe`, `ControlSafe`, `CompanionKept` |
| `terminal` | two processes, a recovery window of two, two terminal faults, two releases; an editor whose second fold comes from a paste, and two edits | `TerminalRecovers`, `UpdateCheckSafe`, `InvocationSafe`, `EditorSafe`, `PaletteSafe` |
| `settling` | one thought, two attempts; two lanes with one slot each; two keys and two resizes through queues of one; two processes around an update | `SubmissionSafe`, `LanesSafe`, `InputLaneSafe`, `ConvergenceSafe`, `ShutdownEnds`, `WorkEnds` |

Why the bounds are enough. Two operations make an order, a gap and a retry that
starts in the middle; capacities of one make every channel full; two processes
make every race for a lock; one fault beside one retry makes every half-finished
step. `autosave_producers` has every kind of producer and no room: its second
capture is the one the user retries while another answer may take its sequence.
`autosave_capture` has the exports and exits, and a third edit for a retention of
two, so that a batch is refused. The lane of the control scene is full as soon as
one request waits in it, and its two failed saves are retried in one go;
`control_retry` has a lane of the code's own 64 slots, which two commands never
fill. `history` splits the commands into groups because the
product of all of them is out of reach; a group holds the commands that can
disturb one another, and undo and redo are in each. `CHECK_DEADLOCK FALSE` is
used only in the suites: their components come to a real end (a process that
exited, a spent budget of the environment).

The properties of the suites are conjunctions, each of them one module's
correctness:

| Property | Made of |
|---|---|
| TransferSafe | `MovedIsDelivered`: what left the board is at its destination; `DeliveredOnce`; `ClaimsAreTracked`: a claimed intent has an owner that will settle it |
| ClipboardSafe | `CutRemovesOnlyWritten`, `PasteReachesItsEditor`, `TypedCopyIsTrusted` |
| ExportSafe | `RemovedIsOnDisk`, `ForeignFileKept` |
| AttachmentsSafe | `ReportsAreBacked`, `IdleMeansChecked` |
| ChildContained | `SuccessIsWhole`, and the action property `StartsClean` |
| LeasesSafe | `StoreKeepsSchema`, `MigratesBackedUp`, `OwnerDiscoverable` |
| ScreenshotsSafe | `LeasesNeverOverlap`, `DeliveredStable` |
| SessionsSafe | `RowsFollowHistory`, `HistoryApplies`, `PrunedStaysGone`, `OwnerNameStored` |
| ControlSafe | `AcceptedIsRecorded`, `BoardIsDurable` |
| CompanionKept | `OneCompanion`, and the action property `ClosesOnlyCompanions` |
| TerminalRecovers | `CircuitHolds`, `ContinuesItself`, `OrderlyExitRestores` |
| UpdateCheckSafe | `OnePrompt` |
| InvocationSafe | `SilentMeansComplete`, `OneEntryPerDefinition` |
| EditorSafe | `FoldsKeepTheirText`, `DrawnWhereItIs`, `PendingApplies` |
| PaletteSafe | `RunsWhatIsShown`, `TransformsWhatWasSeen`, `FacetsAreLive`, `InputsInOrder` |
| SubmissionSafe | `JournalIsTruthful`, `RemovedWasAccepted`, `SourcesHeld` |
| LanesSafe | `StopIsNoAlarm`, `ReleasedWhenSettled`, `StallKeepsLeases`, `ReplacedAfterCleanup`, `RestartFinishesWork` |
| InputLaneSafe | `KeysAreLossless` |
| ConvergenceSafe | `CohortExcludesOlder`, `QuiescedStaysBehindBarrier`, and the action properties `ClearsOnlyConverged`, `ObservationNeverRegresses` |
| WorkEnds | `SubmissionSettles`, `SizeSettles`, `BarrierEnds` |

Fairness. The owner's loop polls its lanes every turn, so what it drains, flushes
or expires happens when it stays enabled: that is `OwnerFairness`. A worker gets
`WorkerFairness` only where a property needs it: `HungSpec` has none, so
`TerminationEnds` and `QuitResolves` hold with workers that hang for ever, and
`SaveSettles` names the fairness of the lane in its own hypothesis. In
`settling`, weak fairness is given to the save that settles, the submission's
worker, the loop's drains, its cleanup, its deadline, the three threads of the
input lane, and the start, coordination and barrier expiry of a process; none is
given to users, to agents, to faults or to other programs, and none to the
workers of Lanes, whose hanging is what its deadline is for. Strong fairness is
nowhere assumed.

## 4. Where the code and its documents disagree

Four runs expect a violation; `PROJECT.json` quotes the lines.

- `autosave_stale_export`: a recovery export is credited to the failure on screen
  when it ends (`ui/app/recovery.rs:132`), so a quit can discard an edit it lacks.
- `history_replace`: Export and Replace leaves in memory an editor redo that the
  store deleted (`application/mutations/export.rs:70`).
- `control_retry`: a command that gave up while its lookup waited and its retry
  are both applied (`runner/owner_control.rs:214`).
- `editor_hidden_cursor`: leaving a fold backwards can place the cursor inside
  another collapsed fold (`ui/app/folds.rs:327`).

Others were met while modelling and are kept in the models as the code has them:

- Autosave: a control mutation that meets a full lane is refused to its caller
  and stays on the board (`owner_control.rs:288`; ARCHITECTURE.md:304, 314). Nor
  does the lane keep a batch for which its retention has no room
  (`retention.rs:12`). Either is shown as a failure first; but once a retry has
  saved what failed before it, it is merely pending, without a failure on screen,
  and a quit leaves without it. `refused` records these sequences and
  `PendingHeld`, `RetryCanSucceed` and `ExitIsFlushed` name the exception. A
  capture retried by the user reserves the next sequence while the answer of an
  effect or of a control lookup may be about to take it
  (`screenshot/retry.rs:16`; ARCHITECTURE.md:653): the store then holds the
  capture at a sequence where memory holds the other operation. `Overtaken` is
  that sequence; `StoreIsPrefix` says that there is at most one and that it is
  never acknowledged. The shutdown deadline is armed once per process and
  outlives a quit that was taken back (`supervisor.rs:114`). A batch too large for
  the retention is reported as failed and cannot be retried (`reducer.rs:411`,
  `retention.rs:92`). A recovery export taken while memory holds nothing but a
  staged removal is empty and is still credited to the failure.
- History: a split at the end of a thought replaces its content by the same
  content. Once another board operation lies on top of it, an older edit of that
  thought can be undone before the split (only the topmost operation is asked,
  `model/history.rs:73`), and the undo of the split, still shown as ready, is then
  refused, although PRODUCT.md:758 calls the empty half a valid result.
  `ReadyMoves` and `MemoryAccepts` name this exception (`SpoiledSplit`) and hold
  otherwise. A redo of the Browser can be stuck
  behind a pruned session (`browser_history/prune.rs:47`).
- Transfer: a removal kept for retry cannot be saved once its attempt has
  another outcome (ARCHITECTURE.md:318).
- Submission: after a failed save of an outcome the owner releases the thoughts
  while their rows stay active in the journal; a second submission with removal
  that ends beside a staged one keeps its thoughts.
- Capture: after a release the watcher may run without the lease
  (`runner/screenshot_results.rs:82`; PRODUCT.md:547). A second Enable while the
  watcher runs gets no result. A file first seen ineligible is not looked at again
  before another event, and one still unstable at Disable is lost.
- Leases: a scan that read an earlier entry removes the file of that name later,
  whatever it holds by then (`adapters/runtime/mod.rs:258-283`). The metadata of a
  command's lease can be lost so, and that of an owner whose picker leased another
  session before (`cli/execute/sessions.rs:21-61`): it keeps its lock and its
  socket, and no one who looks at the instances finds it. `OwnerDiscoverable`
  names the exception (`returned`).
- Update: a version skipped in one process is offered again by another
  (`update_lane.rs:331`; docs/guides/updates.md:35). The prompt is armed when
  drawn and not when its boundary is taken.
- Terminal: a setup that fails after the alternate screen was entered and before
  it is noted leaves that screen on (`control.rs:71`; ARCHITECTURE.md:730). A silence of 450 to 499 ms may count as
  a stall, and a key delivered between the stall and the end of the lane is lost.
  The recovery record is written after the lease is released.
- Attachments: a manual refresh asked for while a submission checks the same
  attachment never ends (`application/attachments.rs:466`; PRODUCT.md:668).
- Invocation: reopening the picker shows the previous results as complete
  (`ui/app/invocation.rs:76`; PRODUCT.md:1166).
- Palette: a press replayed on the row of the inbox runs Retry Screenshot Capture
  (`screenshot/barrier.rs:74`; PRODUCT.md:513). A replayed Enter after a replayed
  query key is ignored (PRODUCT.md:512).
- Child processes: after SIGTERM the runner stops waiting when the direct child
  is reaped (ARCHITECTURE.md:208).
- Lanes: on an error exit the leases are released before the persistence worker
  is joined, and a worker that panics at shutdown is not among the failures
  reported (ARCHITECTURE.md:109).
- Control: two undo requests under one identity, the disagreement of
  `control_retry`, leave an operation on the board that is never stored;
  `BoardIsDurable` names it (`Stored`). The server's request cache never answers a retry of the command line,
  which uses a fresh request identity; one thread serves every connection.

## 5. Proofs

TLAPS checks 24 theorems, in eight modules that extend what they prove about.
Every run property named below is the definition TLC checks.

| Module | Theorem | States |
|---|---|---|
| AutosaveProofs | TypeCorrect, AcknowledgedStored, StoredIsPrefix, SavedSurvives, AutosaveImplementsDurableLog | `TypeOK`, `AcknowledgedIsStored`, `StoreIsPrefix`, `AcknowledgedSurvives`, `ImplementsDurableLog` |
| AutosaveDurability | WorkCounted, StatusTruthful | `AwaitedWorkCounted`, `TruthfulStatus` |
| AutosaveRecovery | PendingIsHeld, RetrySucceeds, ExitFlushes | `PendingHeld`, `RetryCanSucceed`, `ExitIsFlushed` |
| DeliveryProofs | NothingLostOnTheWay, ChildrenAreContained | `TransferSafe`, `ChildContained` |
| ExchangeProofs | ExportsAreSafe, ClipboardIsSafe | `ExportSafe`, `ClipboardSafe` |
| OwnershipProofs | OwnersAreKnown, CaptureIsExclusive, AcceptedIsKept, CompanionIsKept | `LeasesSafe`, `ScreenshotsSafe`, `ControlSafe`, `CompanionKept` |
| TerminalProofs | OneAsks, StallsAreBounded | `UpdateCheckSafe`, `TerminalRecovers` |
| SettlingProofs | KeysArrive, PromptsAreAccounted, CleanupIsOrderly, ConvergenceHolds | `InputLaneSafe`, `SubmissionSafe`, `LanesSafe`, `ConvergenceSafe` |

### Assumptions

On constants: names that stand for nothing (`NoOp`, "none", "nobody") are not
elements of the sets they are used with, sizes and limits are natural numbers,
channel capacities of Autosave are positive, requests to an owner are records of
an identity, a family and arguments, the owner of the clipboard is a process and
"free" is none, a tab's name stands for a session and "none" for no pane and no agent, "none" is no slot of an update and there is at
least one version, and in Lanes the persistence lane and the herdr lane are two of the
lanes listed. TLC evaluates each of these
`ASSUME`s. No set is bounded, and only the batches of a transfer need to be
finite.

No theorem assumes anything about how the program is used: captures run beside
other producers, lanes and retentions fill up, requests move history, and an
instance takes one lease after another. Where the code does not keep what a
property would like to say, the property names the exception, as listed in
section 4, and `ExitFlushes` is stated for behaviours in which no retried capture
is overtaken (`Overtaken = {}`).

### Inductive invariants

None of the properties is inductive. TLC checked each invariant below on the
instance of its run before it was proved.

*Autosave.* `AckInv` says of everything the lane has yet to report that a success
names a sequence the store holds; without it an acknowledgement could outrun the
store. `PrefixInv` adds that each request and each retained batch continues the
store in the order of memory, so that a commit can only extend the prefix, that
only the one capture in flight may be in the store and not in memory, and that an
overtaken sequence is above the acknowledged one and stays there, because no
request for it can ever be the next of the store; each
step then has one of the few `Effect`s on memory, store and acknowledgements that
the refinement distinguishes. `CountInv` equates the count of awaited work with
what is in the two channels, the lane's hands and the retry loop. `StatusInv` is
`PrefixInv` with `Gapless` (every sequence between the acknowledged and the
highest one is pending), `HeldOnce` (no sequence is held twice) and
`ReportsInOrder`. `KeptInv` adds that a pending operation is queued, retained,
refused or in the store (`Kept`). `RecoveryInv` adds, for as long as nothing was
refused or overtaken (`Calm`, which a step never restores within a process), that
the queue and the retention are in order and have no gap
(`QueueInOrder`, `RetryWhole`), that a failure on screen is one the lane knows
(`FailuresKnown`), that a retry ends with the last retained batch (`RetriesEnd`)
and that everything from the failed sequence on is retained or still comes
(`AllRecoverable`). `ExitInv` adds that only a quit over an exported
failure leaves a draft behind (`DraftKept`) and that the lane of a finished run
has nothing to do (`LaneRests`).

*Transfer.* `TransferInv` follows each batch: what an attempt under way has
claimed (`UnderWay`), what a delivery has put in the peer (`Delivering`), and what
the journal of requests says of both (`Journal`). `MovedIsDelivered` follows
because a removal is prepared only from a delivered row.

*Child processes.* `ChildInv`: a success needs both pipes read to the end
(`PipesRead`) while the run goes on (`RunGoesOn`), and a call returns only when it
leaves nothing behind that a next start would meet (`LeavesClean`).

*Exports.* `ExportInv` follows each writer through its calls (`WriterFine`): while it
works, the text it writes is the one its asker waits with; a confirmed replacement
names a file the user was shown; names are exchanged only under a consent to replace;
and a success is reported only for a text that was synchronized. A displaced file is in
a writer's hands only until it was verified or put back (`StagedFine`). Then what the board gives up is among the texts made durable, and what is deleted
among the files agreed to. The dialog and the command run beside each other, so each
step is shown to leave the other's writer as it was (`OtherWriter`).

*Clipboard.* `ClipInv`: a request on its way is the one the owner remembers under its
identity, an answer likewise, no two of them share one, and a confirmed write is among
the texts put on the clipboard (`Matched`). A paste asked from the current generation
of an editor or of Compose belongs to the current episode (`PendingFine`); this is what
`StillMatches` and the generations are for. Who is between reading and recording the
clipboard holds the provenance lock, the generation it has written is later than any
recorded one, and a record names something a Proqi made (`Trust`): so annotations are
believed only for the clipboard a process really wrote, and a record cannot be
overwritten by a slower writer.

*Leases.* `SchemaInv`: who holds which lock at which stage of the start
(`SchemaLocks`), and that the schema a process read behind its lock is still the
store's (`SchemaKnown`). `LeaseInv`: an owner's stage determines its lock
(`LocksHeld`) and its metadata file, unless it gave an earlier lease back and a scan
that had read the earlier entry removed the file; and what a scan has yet to remove is
of an instance that is dead, or of such an earlier lease (`MetadataKnown`).

*Screenshots.* `CaptureInv`: at most one runtime holds the lease, and a takeover
waits for the release (`LeasesNeverOverlap` on top of `CaptureTypes`).
`WatcherInv`: the clock of a pending candidate is not ahead of the world's
(`ClockKnown`), and what it recorded is what was on disk then (`PendingKnown`).

*Owner control.* `ControlInv`: every envelope carries the request its command asks
(`CommandsFine`, `QueuesFine`); the owner holds the lease and a process that is gone
leaves nothing in its queues (`OwnerFine`); the store is a prefix of the owner's
board, and every sequence it lacks is awaited or repeats a history move the store has
(`OwnerAhead`); what the lane holds and retains stands on the board at its sequence, and
an answer tells the truth about the store (`Flights`). Nothing is twice in the store
under one identity, and only a history move, which does not name what it acts on, is
twice on the board (`Boards`): a creation, a removal or a change of text names what it
changes, and the second is refused.

*Companion.* `CompanionInv`: a pane that runs the plugin was opened by a toggle
(`PanesFine`), and a record names only such panes (`RecordsFine`). A toggle that has
probed its tab has seen every companion of it as present or unknown, or knows there is
none (`TabKnown`); unless a record was lost, each companion is on record for its tab or
about to be (`Recorded`), so that a toggle from another tab finds it. That a toggle which
opens a pane is alone (`Alone`) then gives `OneCompanion`, and `ClosedWasOpened` gives
`ClosesOnlyCompanions`.

*Terminal.* `UpdateInv`: a process that asks holds the prompter's lock
(`AskerHoldsLock`). `RecoveryInv`: a process that runs holds the lease
(`LeaseRuns`), attempts are numbered by their record (`Numbered`), and the record
fits the recoveries begun inside the window (`Fits`). `ModesInv`: what is entered
is what the guard will leave, and a failed command on the way out leaves only its
own mode on.

*Settling.* `InputInv`: the keys typed are those received, followed by the ones in
each queue, in order (`Upstream`, `Downstream`). `SubmissionInv`: an attempt's
stage, its row and its prompt agree (`AttemptsFine`), its sources are locked
(`SourcesHeld`), two attempts share none (`SourcesApart`), and removed thoughts
were accepted (`RemovedWasAccepted`). `LanesInv`: what the lanes owe the loop
(`WorkOwed`), when the loop runs (`LoopRuns`), that the saver has settled when the
loop ended well (`SaverSettled`), and the order in which lanes are stopped, joined
and cleaned up.

*Convergence.* `ConvInv`: a live process has its schema lease or is quiet behind its
barrier (`LeaseFine`), and is admitted at a version that was recorded
(`AdmissionFine`). Who coordinates up to the restarts, or replaces the schema, holds
the convergence lock alone while no cohort is pending (`LockFine`), each with an
operation of its own (`OwnOperation`). A coordinator has met every live owner of an
older version (`GatheredFine`), so that once it has quiesced them each is quiet or
counted as failed (`QuietFine`). What it installed is recorded, and when more was
recorded since, the cohort still waits for its own process (`InstalledFine`); an
external coordinator restarts everyone its cohort expects (`RestartedFine`). The
need to restart is then withdrawn by a coordinator without failures, by the session a
coordinator announced, or when the whole cohort is back, and no older owner is at work
in any of these cases; that is `ClearsOnlyConverged`. A version is announced only after
it replaced every older one (`AnnouncedFine`).

### What is only model-checked

- Liveness under fairness and ENABLED are out of the prover's reach:
  `SaveSettles`, `TerminationEnds`, `QuitResolves`, `ShutdownEnds`, `WorkEnds`.
- The properties of History (`ReplicasAgree`, `MemoryAccepts`, `ReadyMoves`,
  `CursorUsable`, `HistoryStepsReverse`, `RemovesOnlyWritten`), `InvocationSafe` and
  `EditorSafe` rest on what a recursive function or a fold computes (the replay of
  Board, the consolidation of Invocation, the offsets of Editor). `SessionsSafe` rests
  on the order in which SelectSeq leaves a pruned history, `AttachmentsSafe` on sorting and
  filtering the queue of checks, `PaletteSafe` on filtering its rows. Each needs
  induction over data, which the installed provers cannot do.

## 6. Not modelled

Pure presentation (layout, rendering, themes, shortcuts, help), argument parsing
and output formats, text reflow and Markdown rendering, search, the schema's
tables beyond the state named above, downloads, checksums and installation of a
release, diagnostics, and the build tooling are not modelled: they keep no state
that another step depends on, or are input and output. Within modelled components:

- Autosave: what an operation changes on the board (that is History), and the
  partial effects of a failing transaction (SQLite's atomicity is taken).
- Clipboard: images; exits of Compose other than those modelled.
- Export: programs that edit the target in place. Companion: the moment between
  the last look at a pane and its closing, and a pane that opens after herdr timed
  out.
- Invocation: built-in commands, the selected index, a tree that changes during a
  walk, the lane's capacity.
- Editor: smart lists, sentence ends inside a paragraph, wide graphemes, scrolling,
  the rope's own undo, inline styles; the preferred column is left open.
- UpdateConvergence: incompatible and legacy owners, the limit of 32 owners, a
  failing publication of the endpoint.
- Palette: other overlays, the filter of repeated presses, ranking and labels.
- Control: the same identity sent with other arguments at the same time.

------------------------------ MODULE Autosave ------------------------------
(***************************************************************************)
(* The autosave path of one live Proqi session: the UI owner applies an     *)
(* operation optimistically, gives it the next sequence and posts it to the *)
(* persistence lane over a bounded channel; the lane commits it to SQLite,  *)
(* retains it when the commit fails, and answers over a second channel; the *)
(* owner acknowledges, reports the failure, retries, exports a recovery     *)
(* file and finally stops.  The process may crash between any two steps and *)
(* the session is then reopened from the store.                             *)
(*                                                                         *)
(* An operation is identified by a member of Ops (its UUID): what it does   *)
(* to the board is the subject of module Board.  mem[s] is the operation    *)
(* that owns sequence s in the owner's memory, log[s] the one that owns it  *)
(* in the store, so that AppState::highest_sequence is Len(mem) and the     *)
(* store's last_durable_sequence is Len(log).                               *)
(***************************************************************************)
EXTENDS Integers, Sequences, FiniteSets, FiniteSetsExt

CONSTANTS
    DirectOps,            \* operations made by input, drafts included
    ControlOps,           \* operations requested over the control endpoint
    IntentOps,            \* operations an asynchronous effect may still make
    CaptureOps,           \* screenshot captures, committed before they show
    NoOp,                 \* no operation
    Bytes,                \* serialized size of each operation
    RequestCapacity,      \* sync_channel(64) towards the lane
    ResultCapacity,       \* sync_channel(64) from the lane
    RetainedBatchLimit,   \* retention.rs: 128 batches
    RetainedBytesLimit,   \* retention.rs: 16 MiB
    MaxExports            \* bound: recovery exports in flight at once

Ops == DirectOps \cup ControlOps \cup IntentOps \cup CaptureOps

ASSUME OpsAssumption == NoOp \notin Ops
\* A capture's operation is never one of another origin.
ASSUME CapturesApart == CaptureOps \cap (DirectOps \cup ControlOps \cup IntentOps) = {}
ASSUME BytesAssumption == Bytes \in [Ops -> Nat]
ASSUME LimitAssumption == /\ RequestCapacity \in Nat \ {0}
                          /\ ResultCapacity \in Nat \ {0}
                          /\ RetainedBatchLimit \in Nat
                          /\ RetainedBytesLimit \in Nat
                          /\ MaxExports \in Nat

VARIABLES
    \* the owner: AppState, BoardApp and the runner's PendingWork
    mem, durable, pending, durability, deferred, draft, intents, save,
    quit, exports, exportedFor, inflight, term, deadline, run,
    \* the persistence lane and its two channels
    requests, results, retained, retrying, todo, out,
    \* sequences whose batch was dropped because something was full
    refused,
    \* the store, and whether it may fail
    log, faulty,
    \* operation identities handed out, and the recovery files written
    used, exported

appVars   == <<mem, durable, pending, durability, deferred>>
uiVars    == <<draft, intents, save, exports, exportedFor, exported>>
stopVars  == <<quit, term, deadline, run>>
laneVars  == <<retained, retrying, todo, out, refused>>
storeVars == <<log, faulty>>
vars == <<appVars, uiVars, stopVars, inflight, requests, results, laneVars,
          storeVars, used>>

-----------------------------------------------------------------------------
(* Values.                                                                  *)

FailureCodes == {"StorageFailed", "RecoveryCapacity"}

\* DurabilityState: `failed` is 0 and `code` "none" unless state = "Failed".
Durable == [state |-> "Durable", failed |-> 0, code |-> "none"]
Pending == [state |-> "Pending", failed |-> 0, code |-> "none"]
Failed(seq, code) == [state |-> "Failed", failed |-> seq, code |-> code]

Commits == [seq : Nat \ {0}, op : Ops]
Requests ==
    [kind : {"Commit", "Capture"}, seq : Nat \ {0}, op : Ops]
    \cup [kind : {"Retry"}, seq : Nat \ {0}, op : {NoOp}]
NoSave == [state |-> "None", op |-> NoOp, seq |-> 0]

Request(kind, seq, op) == [kind |-> kind, seq |-> seq, op |-> op]
Sequenced(seq, ok, code, retried) ==
    [kind |-> "Sequenced", seq |-> seq, ok |-> ok, code |-> code,
     retried |-> retried]
CaptureResult(seq, ok, code) ==
    [kind |-> "Capture", seq |-> seq, ok |-> ok, code |-> code,
     retried |-> FALSE]
RetryFinished ==
    [kind |-> "RetryFinished", seq |-> 0, ok |-> TRUE, code |-> "none",
     retried |-> TRUE]

Results ==
    [kind : {"Sequenced"}, seq : Nat, ok : {TRUE}, code : {"none"},
     retried : BOOLEAN]
    \cup [kind : {"Sequenced"}, seq : Nat, ok : {FALSE}, code : FailureCodes,
          retried : BOOLEAN]
    \cup [kind : {"Capture"}, seq : Nat, ok : BOOLEAN,
          code : {"none", "AlreadyCaptured"}, retried : {FALSE}]
    \cup {RetryFinished}

RangeOf(s) == {s[i] : i \in 1 .. Len(s)}

-----------------------------------------------------------------------------
(* The owner's reducer.                                                     *)

IsFailed == durability.state = "Failed"

\* AppState::next_sequence
NextSequence == Len(mem) + 1

\* reduce() admits a durable mutation unless durability failed, and
\* next_sequence refuses one while a staged removal awaits its receipt.
Admits == ~IsFailed /\ deferred = {}

\* AppState::refresh_durability, of the pending set it is to describe
RefreshDurability(pend) ==
    IF IsFailed /\ durability.failed \in pend THEN durability
    ELSE IF pend = {} THEN Durable ELSE Pending

\* Faulty variant of TrackPending: the state is refreshed before the insertion.
TrackPendingLate(seq) ==
    /\ pending' = pending \cup {seq}
    /\ durability' = RefreshDurability(pending)

\* AppState::track_pending
TrackPending(seq) ==
    /\ pending' = pending \cup {seq}
    /\ durability' = RefreshDurability(pending \cup {seq})

\* Faulty variant of FailureOf: the latest failure hides the first.
LatestFailureOf(seq, code) == Failed(seq, code)

\* reduce_persistence, Action::PersistenceFailed, once seq is pending
FailureOf(seq, code) ==
    Failed(IF IsFailed /\ durability.failed < seq THEN durability.failed
                                                  ELSE seq, code)

HasRoom == Len(requests) < RequestCapacity

\* Faulty variant of Post: the runner does not count what it sent.
PostUncounted(request) ==
    requests' = Append(requests, request) /\ UNCHANGED inflight

\* PersistenceLane::send by try_send, and the runner's count of what it awaits
Post(request) ==
    /\ requests' = Append(requests, request)
    /\ inflight' = inflight + 1

(***************************************************************************)
(* One admitted operation leaves the reducer and enters the lane.  `staged` *)
(* is a removal applied only when its receipt arrives.  A full lane makes   *)
(* the runner mark the sequence failed and stop with an error.              *)
(***************************************************************************)
Record(op, staged) ==
    /\ mem' = Append(mem, op)
    /\ deferred' = IF staged THEN deferred \cup {NextSequence} ELSE deferred
    /\ UNCHANGED durable
    /\ IF HasRoom
       THEN /\ TrackPending(NextSequence)
            /\ Post(Request("Commit", NextSequence, op))
            /\ UNCHANGED run
       ELSE /\ pending' = pending \cup {NextSequence}
            /\ durability' = Failed(NextSequence, "StorageFailed")
            /\ run' = "failed"
            /\ UNCHANGED <<requests, inflight>>

Running == run = "running"

\* The owner is one thread: the turn that ends a capture also replays the input
\* queued behind it, and nothing else of the owner comes in between.
Replaying == save.state # "InFlight" /\ intents \cap DirectOps # {}
Turn == Running /\ ~Replaying

\* Faulty variant of TakesInput: a capture in flight holds nothing back.
TakesAnyInput == Turn /\ ~quit /\ ~term

\* The event loop reads input only when no shutdown is under way, and a
\* capture in flight defers every input that could allocate a sequence.
TakesInput == Turn /\ ~quit /\ ~term /\ save.state # "InFlight"

-----------------------------------------------------------------------------
(* Input.                                                                   *)

\* Keystrokes collect in one pending edit; a failed save swallows them.
Type(op) ==
    /\ TakesInput /\ ~IsFailed
    /\ draft = NoOp /\ op \notin used
    /\ draft' = op /\ used' = used \cup {op}
    /\ UNCHANGED <<appVars, intents, save, exports, exportedFor, exported,
                   stopVars, inflight, requests, results, laneVars, storeVars>>

\* flush_pending_edit, from the 250 ms deadline of settle_pending_state or
\* first thing in the handler of a structural action
Flush ==
    /\ Running /\ draft # NoOp /\ Admits /\ save.state # "InFlight"
    /\ Record(draft, FALSE)
    /\ draft' = NoOp
    /\ UNCHANGED <<intents, save, exports, exportedFor, exported, quit, term,
                   deadline, results, laneVars, storeVars, used>>

\* A structural action: create, paste, cut, delete, move, undo, redo...
\* Its handler flushes the pending edit first, so there is none here.
Mutate(op) ==
    /\ TakesInput /\ Admits /\ draft = NoOp /\ op \notin used
    /\ Record(op, FALSE)
    /\ used' = used \cup {op}
    /\ UNCHANGED <<uiVars, quit, term, deadline, results, laneVars, storeVars>>

\* An effect starts that may allocate a sequence when its answer arrives:
\* clipboard cut or paste, submission or transfer with removal, export.
BeginIntent(op) ==
    /\ TakesInput /\ Admits /\ draft = NoOp /\ op \notin used
    /\ intents' = intents \cup {op} /\ used' = used \cup {op}
    /\ UNCHANGED <<appVars, draft, save, exports, exportedFor, exported,
                   stopVars, inflight, requests, results, laneVars, storeVars>>

\* handle_screenshot_commit_barrier queues what is typed during a capture...
DeferInput(op) ==
    /\ Running /\ ~quit /\ ~term /\ save.state = "InFlight" /\ op \notin used
    /\ intents' = intents \cup {op} /\ used' = used \cup {op}
    /\ UNCHANGED <<appVars, draft, save, exports, exportedFor, exported,
                   stopVars, inflight, requests, results, laneVars, storeVars>>

\* ...and replay_screenshot_inputs handles it in the turn that ends the capture,
\* even if a shutdown began meanwhile; a quit or a failed save drops it.
ReplayInput(op) ==
    /\ Running /\ op \in intents /\ save.state # "InFlight"
    /\ intents' = intents \ {op}
    /\ \/ ~IsFailed /\ draft = NoOp /\ draft' = op
          /\ UNCHANGED <<appVars, inflight, requests, run>>
       \/ Admits /\ draft = NoOp /\ Record(op, FALSE) /\ UNCHANGED draft
       \/ UNCHANGED <<appVars, inflight, requests, run, draft>>
    /\ UNCHANGED <<save, exports, exportedFor, exported, quit, term, deadline,
                   results, laneVars, storeVars, used>>

\* An effect's answer arrives on a worker lane, whatever the owner does.  A
\* pending edit is flushed first; the intention is dropped when it cannot be.
CompleteIntent(op) ==
    /\ Turn /\ op \in intents /\ (draft = NoOp \/ ~Admits)
    /\ intents' = intents \ {op}
    /\ \/ Admits /\ \E staged \in BOOLEAN : Record(op, staged)
       \/ UNCHANGED <<appVars, inflight, requests, run>>
    /\ UNCHANGED <<draft, save, exports, exportedFor, exported, quit, term,
                   deadline, results, laneVars, storeVars, used>>

\* owner_control::queue_lookup: a control request is refused while the owner
\* shuts down or a capture holds the sequence; else the pending edit is
\* flushed, when it can be, and the store is asked for the identity.
QueueLookup(op) ==
    /\ Turn /\ ~quit /\ save.state # "InFlight" /\ op \notin used
    /\ draft = NoOp \/ ~Admits
    /\ intents' = intents \cup {op} /\ used' = used \cup {op}
    /\ UNCHANGED <<appVars, draft, save, exports, exportedFor, exported,
                   stopVars, inflight, requests, results, laneVars, storeVars>>

(***************************************************************************)
(* owner_control::complete_lookup: the lookup found nothing, so the request *)
(* is applied, or rejected by the reducer.  When the lane is full           *)
(* queue_effect fails the sequence, rejects the request and goes on: the    *)
(* operation stays in memory and no one holds it for a retry.               *)
(***************************************************************************)
CompleteLookup(op) ==
    /\ Turn /\ op \in intents
    /\ intents' = intents \ {op}
    /\ \/ Admits /\ HasRoom /\ Record(op, FALSE) /\ UNCHANGED <<quit, refused>>
       \/ /\ Admits /\ ~HasRoom
          /\ mem' = Append(mem, op)
          /\ pending' = pending \cup {NextSequence}
          /\ durability' = Failed(NextSequence, "StorageFailed")
          /\ quit' = FALSE
          /\ refused' = refused \cup {NextSequence}
          /\ UNCHANGED <<durable, deferred, requests, inflight, run>>
       \/ UNCHANGED <<appVars, inflight, requests, run, quit, refused>>
    /\ UNCHANGED <<draft, save, exports, exportedFor, exported, term,
                   deadline, results, retained, retrying, todo, out, storeVars,
                   used>>

-----------------------------------------------------------------------------
(* Recovery from a failed save.                                             *)

\* retry_persistence and reduce_persistence, Action::RetryPersistence
RetryPersistence ==
    /\ TakesInput
    /\ IsFailed /\ durability.code # "RecoveryCapacity"
    /\ durability.failed \in pending
    /\ durability' = Pending
    /\ IF HasRoom
       THEN Post(Request("Retry", durability.failed, NoOp)) /\ UNCHANGED run
       ELSE run' = "failed" /\ UNCHANGED <<requests, inflight>>
    /\ UNCHANGED <<mem, durable, pending, deferred, uiVars, quit, term,
                   deadline, results, laneVars, storeVars, used>>

\* What the board and the pending edit show: a staged removal is not applied.
Shown == {mem[i] : i \in (1 .. Len(mem)) \ deferred} \cup ({draft} \ {NoOp})

\* export_recovery: the document is a snapshot of this moment
ExportRecovery ==
    /\ TakesInput /\ IsFailed /\ Len(exports) < MaxExports
    /\ exports' = Append(exports, Shown)
    /\ UNCHANGED <<appVars, draft, intents, save, exportedFor, exported,
                   stopVars, inflight, requests, results, laneVars, storeVars,
                   used>>

\* complete_recovery_export: the file is credited to the failure shown now
CompleteRecoveryExport ==
    /\ Turn /\ exports # <<>>
    /\ exports' = Tail(exports)
    /\ \/ /\ exportedFor' = durability.failed
          /\ exported' = exported \cup {Head(exports)}
       \/ UNCHANGED <<exportedFor, exported>>
    /\ UNCHANGED <<appVars, draft, intents, save, stopVars, inflight, requests,
                   results, laneVars, storeVars, used>>

-----------------------------------------------------------------------------
(* Screenshot captures commit before they show.                             *)

Reserve(op) ==
    /\ save' = [state |-> "InFlight", op |-> op, seq |-> NextSequence]
    /\ used' = used \cup {op}
    /\ IF HasRoom
       THEN Post(Request("Capture", NextSequence, op)) /\ UNCHANGED run
       ELSE run' = "failed" /\ UNCHANGED <<requests, inflight>>
    /\ UNCHANGED <<appVars, draft, intents, exports, exportedFor, exported,
                   quit, term, deadline, results, laneVars, storeVars>>

\* Faulty variant of AdvanceCapture: it does not wait for the pending edit.
AdvanceCaptureOverEdit(op) ==
    /\ Turn /\ op \notin used /\ (quit => deadline # "unset")
    /\ save = NoSave /\ intents = {}
    /\ durability = Durable
    /\ Reserve(op)

\* admission::capture and advance_screenshot_capture, by settle_pending_state;
\* a quit holds it back until shutdown_ready has asked the watcher to stop
AdvanceCapture(op) ==
    /\ Turn /\ op \notin used /\ (quit => deadline # "unset")
    /\ save = NoSave /\ draft = NoOp /\ intents = {}
    /\ durability = Durable
    /\ Reserve(op)

\* retry_screenshot_capture: the failed candidate under a new operation
RetryCapture(op) ==
    /\ TakesInput /\ op \notin used
    /\ save.state = "Ready" /\ draft = NoOp /\ Admits
    /\ Reserve(op)

-----------------------------------------------------------------------------
(* Stopping.                                                                *)

\* request_quit: a failed save must have been exported under its sequence
MayQuit == IsFailed => exportedFor = durability.failed

\* flush_edit_boundary followed by request_quit; `skip` leaves the edit alone
FlushAndQuit(skip) ==
    IF draft # NoOp /\ ~skip
    THEN /\ Admits
         /\ Record(draft, FALSE) /\ draft' = NoOp
         /\ quit' = TRUE
    ELSE /\ quit' = (quit \/ MayQuit)
         /\ UNCHANGED <<appVars, draft, inflight, requests, run>>

\* request_global_quit with no failed capture
Quit ==
    /\ TakesInput /\ save.state = "None"
    /\ FlushAndQuit(IsFailed)
    /\ UNCHANGED <<intents, save, exports, exportedFor, exported, term, deadline,
                   results, laneVars, storeVars, used>>

\* handle_ready_capture_quit, the second time: the capture is abandoned, and a
\* pending edit that cannot be flushed keeps the program from quitting
AbandonAndQuit ==
    /\ save.state = "Ready" /\ save' = NoSave
    /\ \/ FlushAndQuit(FALSE)
       \/ /\ draft # NoOp /\ ~Admits
          /\ UNCHANGED <<appVars, draft, inflight, requests, run, quit>>

QuitAbandoningCapture ==
    /\ TakesInput /\ AbandonAndQuit
    /\ UNCHANGED <<intents, exports, exportedFor, exported, term, deadline,
                   results, laneVars, storeVars, used>>

\* retain_failed_capture_after_quit
RetainFailedCapture ==
    /\ Turn /\ quit /\ ~term /\ save.state = "Ready"
    /\ quit' = FALSE
    /\ UNCHANGED <<appVars, uiVars, term, deadline, run, inflight, requests,
                   results, laneVars, storeVars, used>>

\* admit_requested: SIGINT or SIGTERM runs handle_termination_request, which
\* abandons a failed capture at once
Terminate ==
    /\ Turn /\ ~term /\ ~(quit /\ save.state = "Ready")
    /\ term' = TRUE
    /\ deadline' = IF deadline = "unset" THEN "armed" ELSE deadline
    /\ \/ AbandonAndQuit
       \/ /\ save.state # "Ready" /\ UNCHANGED save
          /\ \/ FlushAndQuit(IsFailed)
             \/ /\ draft # NoOp /\ ~IsFailed /\ ~Admits
                /\ UNCHANGED <<appVars, draft, inflight, requests, run, quit>>
    /\ UNCHANGED <<intents, exports, exportedFor, exported, results, laneVars,
                   storeVars, used>>

\* settle_pending_state, once termination is admitted, repeats
\* handle_termination_request for a capture that failed meanwhile
AbandonFailedCapture ==
    /\ Turn /\ term /\ AbandonAndQuit
    /\ UNCHANGED <<intents, exports, exportedFor, exported, term, deadline,
                   results, laneVars, storeVars, used>>

\* Faulty variant of Drained: it forgets the persistence lane.
DrainedButLane == exports = <<>> /\ intents = {} /\ save.state = "None"

\* PendingWork::is_empty and screenshot_shutdown_drained
Drained == /\ inflight = 0 /\ exports = <<>> /\ intents = {}
           /\ save.state = "None"

\* Faulty variants of ShutdownPoll: a termination that was refused as a quit is
\* never served; the deadline does not end the wait.
ShutdownPollOnQuit ==
    /\ Turn /\ quit
    /\ term => save.state # "Ready" /\ (draft = NoOp \/ ~Admits)
    /\ ~term => save.state # "Ready"
    /\ deadline' = IF deadline = "unset" THEN "armed" ELSE deadline
    /\ \/ Drained /\ run' = IF term /\ IsFailed THEN "failed" ELSE "exited"
       \/ ~Drained /\ deadline = "expired" /\ run' = "failed"
       \/ ~Drained /\ deadline = "unset" /\ UNCHANGED run
    /\ UNCHANGED <<appVars, uiVars, quit, term, inflight, requests, results,
                   laneVars, storeVars, used>>
ShutdownPollUnbounded ==
    /\ Turn /\ (quit \/ term)
    /\ save.state # "Ready" /\ (term => draft = NoOp \/ ~Admits)
    /\ deadline' = IF deadline = "unset" THEN "armed" ELSE deadline
    /\ Drained /\ run' = IF term /\ IsFailed THEN "failed" ELSE "exited"
    /\ UNCHANGED <<appVars, uiVars, quit, term, inflight, requests, results,
                   laneVars, storeVars, used>>

(***************************************************************************)
(* The loop's shutdown branch: shutdown_ready arms the one shared deadline  *)
(* the first time it runs, then waits for the lanes to drain.  Once a       *)
(* termination is admitted each turn first tries to flush the pending edit. *)
(***************************************************************************)
ShutdownPoll ==
    /\ Turn /\ (quit \/ term)
    /\ term => save.state # "Ready" /\ (draft = NoOp \/ ~Admits)
    /\ quit /\ ~term => save.state # "Ready"
    /\ deadline' = IF deadline = "unset" THEN "armed" ELSE deadline
    /\ \/ Drained /\ run' = IF term /\ IsFailed THEN "failed" ELSE "exited"
       \/ ~Drained /\ deadline = "expired" /\ run' = "failed"
       \/ ~Drained /\ deadline = "unset" /\ UNCHANGED run
    /\ UNCHANGED <<appVars, uiVars, quit, term, inflight, requests, results,
                   laneVars, storeVars, used>>

\* SHUTDOWN_TIMEOUT passes
DeadlineExpires ==
    /\ deadline = "armed" /\ deadline' = "expired"
    /\ UNCHANGED <<appVars, uiVars, quit, term, run, inflight, requests,
                   results, laneVars, storeVars, used>>

-----------------------------------------------------------------------------
(* complete_result: the owner applies the next answer of the lane.          *)

Answer == Head(results)

\* Faulty variant of AcknowledgeCommitted: one receipt vouches for all.
AcknowledgeHighest(seq) ==
    IF seq \in pending /\ \A s \in pending : seq <= s
    THEN /\ pending' = pending \ {seq}
         /\ deferred' = deferred \ {seq}
         /\ durable' = Len(mem)
         /\ durability' = RefreshDurability(pending \ {seq})
         /\ UNCHANGED mem
    ELSE UNCHANGED appVars

\* reduce_persistence, Action::PersistenceCommitted
AcknowledgeCommitted(seq) ==
    IF seq \in pending /\ \A s \in pending : seq <= s
    THEN /\ pending' = pending \ {seq}
         /\ deferred' = deferred \ {seq}
         /\ durable' = IF seq > durable THEN seq ELSE durable
         /\ durability' = RefreshDurability(pending \ {seq})
         /\ UNCHANGED mem
    ELSE UNCHANGED appVars

\* Faulty variant of AcknowledgeFailed: the failure is dropped.
AcknowledgeNoFailure(seq, code) == UNCHANGED <<appVars, quit>>

\* acknowledge_persistence_result of a failure also takes back a quit
AcknowledgeFailed(seq, code) ==
    IF seq \in pending
    THEN /\ durability' = FailureOf(seq, code) /\ quit' = FALSE
         /\ UNCHANGED <<mem, durable, pending, deferred>>
    ELSE UNCHANGED <<appVars, quit>>

DrainSequenced ==
    /\ Turn /\ results # <<>> /\ Answer.kind = "Sequenced"
    /\ results' = Tail(results)
    /\ inflight' = IF Answer.retried \/ inflight = 0 THEN inflight
                                                     ELSE inflight - 1
    /\ \/ Answer.ok /\ AcknowledgeCommitted(Answer.seq) /\ UNCHANGED quit
       \/ ~Answer.ok /\ AcknowledgeFailed(Answer.seq, Answer.code)
    /\ UNCHANGED <<uiVars, term, deadline, run, requests, laneVars, storeVars,
                   used>>

\* Faulty variant of DrainRetryFinished: the retry is awaited for ever.
DrainRetryUncounted ==
    /\ Turn /\ results # <<>> /\ Answer.kind = "RetryFinished"
    /\ results' = Tail(results)
    /\ UNCHANGED <<appVars, uiVars, stopVars, inflight, requests, laneVars,
                   storeVars, used>>

DrainRetryFinished ==
    /\ Turn /\ results # <<>> /\ Answer.kind = "RetryFinished"
    /\ results' = Tail(results)
    /\ inflight' = IF inflight = 0 THEN 0 ELSE inflight - 1
    /\ UNCHANGED <<appVars, uiVars, stopVars, requests, laneVars, storeVars,
                   used>>

\* Faulty variant of DrainCapture: a screenshot another session has recorded
\* is shown as if this one had.
DrainAnyCapture ==
    /\ Turn /\ results # <<>> /\ Answer.kind = "Capture"
    /\ results' = Tail(results)
    /\ inflight' = IF inflight = 0 THEN 0 ELSE inflight - 1
    /\ save' = IF Answer.ok THEN NoSave ELSE [save EXCEPT !.state = "Ready"]
    /\ IF Answer.ok /\ save.seq = NextSequence /\ deferred = {}
       THEN /\ mem' = Append(mem, save.op)
            /\ durable' = save.seq
            /\ durability' = RefreshDurability(pending)
            /\ UNCHANGED <<pending, deferred>>
       ELSE UNCHANGED appVars
    /\ UNCHANGED <<draft, intents, exports, exportedFor, exported, stopVars,
                   requests, laneVars, storeVars, used>>

\* complete_screenshot_capture and apply_capture: a screenshot another
\* session recorded adds nothing here, and AppState::apply_durable_capture
\* refuses a capture whose sequence is no longer the next one
DrainCapture ==
    /\ Turn /\ results # <<>> /\ Answer.kind = "Capture"
    /\ results' = Tail(results)
    /\ inflight' = IF inflight = 0 THEN 0 ELSE inflight - 1
    /\ save' = IF Answer.ok THEN NoSave ELSE [save EXCEPT !.state = "Ready"]
    /\ IF /\ Answer.ok /\ Answer.code # "AlreadyCaptured"
          /\ save.seq = NextSequence /\ deferred = {}
       THEN /\ mem' = Append(mem, save.op)
            /\ durable' = save.seq
            /\ durability' = RefreshDurability(pending)
            /\ UNCHANGED <<pending, deferred>>
       ELSE UNCHANGED appVars
    /\ UNCHANGED <<draft, intents, exports, exportedFor, exported, stopVars,
                   requests, laneVars, storeVars, used>>

-----------------------------------------------------------------------------
(* The store, external: one SQLite transaction per request.  A transaction  *)
(* that reports an error left nothing behind.                               *)

\* existing_receipt: the identity is already recorded, with this sequence
Replays(c) == c.seq \in 1 .. Len(log) /\ log[c.seq] = c.op

\* Faulty variant of StoreAccepts: the sequence is not compared.
StoreAcceptsAny(c) ==
    \/ Replays(c) /\ UNCHANGED log
    \/ ~Replays(c) /\ log' = Append(log, c.op)

\* require_next_sequence, insert_receipt and update_session_sequence
StoreAccepts(c) ==
    \/ Replays(c) /\ UNCHANGED log
    \/ c.seq = Len(log) + 1 /\ log' = Append(log, c.op)

\* A fault (busy, full disk, I/O error), or a sequence that is not the next
StoreRejects(c) ==
    /\ faulty \/ (~Replays(c) /\ c.seq # Len(log) + 1)
    /\ UNCHANGED log

-----------------------------------------------------------------------------
(* The persistence lane: one thread, one request at a time.                 *)

LaneIdle == ~retrying /\ out = <<>>

\* retention::can_retain, where a batch may replace its own older copy
CanRetain(c) ==
    LET others == {r \in retained : r.seq # c.seq} IN
    /\ Cardinality(others) + 1 <= RetainedBatchLimit
    /\ MapThenSumSet(LAMBDA r : Bytes[r.op], others) + Bytes[c.op]
         <= RetainedBytesLimit

Forget(seq) == {r \in retained : r.seq # seq}

(***************************************************************************)
(* commit_batch and commit_submission_removal: commit one batch, keep it    *)
(* when the store refuses and the retention limits allow, and say so.       *)
(* `more` is what the lane sends after the answer.                          *)
(***************************************************************************)
Succeeds(c, retried, more) ==
    /\ StoreAccepts(c)
    /\ retained' = Forget(c.seq)
    /\ out' = <<Sequenced(c.seq, TRUE, "none", retried)>> \o more
    /\ UNCHANGED refused

\* Faulty variant of Fails: a batch that failed is not kept for a retry.
FailsForgetting(c, retried, more) ==
    /\ StoreRejects(c)
    /\ retained' = Forget(c.seq)
    /\ out' = <<Sequenced(c.seq, FALSE, "StorageFailed", retried)>> \o more
    /\ UNCHANGED refused

Fails(c, retried, more) ==
    /\ StoreRejects(c)
    /\ \/ /\ CanRetain(c)
          /\ retained' = Forget(c.seq) \cup {c}
          /\ out' = <<Sequenced(c.seq, FALSE, "StorageFailed", retried)>> \o more
          /\ UNCHANGED refused
       \/ /\ ~CanRetain(c)
          /\ retained' = retained
          /\ out' = <<Sequenced(c.seq, FALSE, "RecoveryCapacity", retried)>>
                      \o more
          /\ refused' = refused \cup {c.seq}

ownerVars == <<appVars, uiVars, stopVars, inflight, used>>

\* process_request takes the oldest request
Receive(kind) ==
    /\ LaneIdle /\ requests # <<>> /\ Head(requests).kind = kind
    /\ requests' = Tail(requests)

LaneCommit ==
    /\ Receive("Commit")
    /\ LET c == [seq |-> Head(requests).seq, op |-> Head(requests).op] IN
       Succeeds(c, FALSE, <<>>) \/ Fails(c, FALSE, <<>>)
    /\ UNCHANGED <<ownerVars, results, retrying, todo, faulty>>

\* Store::commit_capture: receipt and thought in one transaction, nothing
\* retained; another session may have recorded the screenshot already
LaneCapture ==
    /\ Receive("Capture")
    /\ LET c == [seq |-> Head(requests).seq, op |-> Head(requests).op] IN
       \/ StoreAccepts(c) /\ out' = <<CaptureResult(c.seq, TRUE, "none")>>
       \/ StoreRejects(c) /\ out' = <<CaptureResult(c.seq, FALSE, "none")>>
       \/ /\ UNCHANGED log
          /\ out' = <<CaptureResult(c.seq, TRUE, "AlreadyCaptured")>>
    /\ UNCHANGED <<ownerVars, results, retained, retrying, todo, refused, faulty>>

\* retry_from: what is retained from the failed sequence on, or NotFound
LaneRetry ==
    /\ Receive("Retry")
    /\ LET first == Head(requests).seq
           held == {r.seq : r \in {x \in retained : x.seq >= first}} IN
       \/ /\ held # {}
          /\ retrying' = TRUE /\ todo' = held
          /\ UNCHANGED out
       \/ /\ held = {}
          /\ out' = <<Sequenced(first, FALSE, "StorageFailed", TRUE),
                       RetryFinished>>
          /\ UNCHANGED <<retrying, todo>>
    /\ UNCHANGED <<ownerVars, results, retained, refused, storeVars>>

\* The loop of retry_from: in order, up to the first that fails again
LaneRetryNext ==
    /\ retrying /\ out = <<>>
    /\ \E c \in retained :
         /\ c.seq \in todo /\ \A s \in todo : c.seq <= s
         /\ \/ /\ todo # {c.seq}
               /\ Succeeds(c, TRUE, <<>>)
               /\ todo' = todo \ {c.seq} /\ UNCHANGED retrying
            \/ /\ todo = {c.seq}
               /\ Succeeds(c, TRUE, <<RetryFinished>>)
               /\ todo' = {} /\ retrying' = FALSE
            \/ /\ Fails(c, TRUE, <<RetryFinished>>)
               /\ todo' = {} /\ retrying' = FALSE
    /\ UNCHANGED <<ownerVars, requests, results, faulty>>

\* Faulty variant of LaneSend: the results channel has no bound.
LaneSendUnbounded ==
    /\ out # <<>>
    /\ out' = Tail(out)
    /\ \/ Running /\ results' = Append(results, Head(out))
       \/ ~Running /\ UNCHANGED results
    /\ UNCHANGED <<ownerVars, requests, retained, retrying, todo, refused,
                   storeVars>>

\* results.send blocks while the channel is full; PersistenceLane::stop
\* discards what arrives once the owner's loop has ended
LaneSend ==
    /\ out # <<>>
    /\ out' = Tail(out)
    /\ \/ /\ Running /\ Len(results) < ResultCapacity
          /\ results' = Append(results, Head(out))
       \/ ~Running /\ UNCHANGED results
    /\ UNCHANGED <<ownerVars, requests, retained, retrying, todo, refused,
                   storeVars>>

-----------------------------------------------------------------------------
(* The environment.                                                         *)

\* The fault clears; whether it ever does is not up to the program.
StoreHeals ==
    /\ faulty /\ faulty' = FALSE
    /\ UNCHANGED <<ownerVars, requests, results, laneVars, log>>

Init ==
    /\ mem = <<>> /\ durable = 0 /\ durability = Durable
    /\ pending = {} /\ deferred = {}
    /\ draft = NoOp /\ intents = {} /\ save = NoSave
    /\ exports = <<>> /\ exportedFor = 0 /\ exported = {} /\ used = {}
    /\ quit = FALSE /\ term = FALSE /\ deadline = "unset" /\ run = "running"
    /\ inflight = 0 /\ requests = <<>> /\ results = <<>>
    /\ retained = {} /\ retrying = FALSE /\ todo = {} /\ out = <<>>
    /\ refused = {}
    /\ log = <<>> /\ faulty = TRUE

(***************************************************************************)
(* The process dies, at any point or after it stopped, and the session is   *)
(* opened again: load_session rebuilds the owner's state from the store.    *)
(***************************************************************************)
Reopen ==
    /\ mem' = log /\ durable' = Len(log) /\ durability' = Durable
    /\ pending' = {} /\ deferred' = {}
    /\ draft' = NoOp /\ intents' = {} /\ save' = NoSave
    /\ exports' = <<>> /\ exportedFor' = 0 /\ exported' = {}
    /\ quit' = FALSE /\ term' = FALSE /\ deadline' = "unset"
    /\ run' = "running"
    /\ inflight' = 0 /\ requests' = <<>> /\ results' = <<>>
    /\ retained' = {} /\ retrying' = FALSE /\ todo' = {} /\ out' = <<>>
    /\ refused' = {}
    /\ UNCHANGED <<storeVars, used>>

UserStep ==
    \/ \E op \in DirectOps : Type(op) \/ Mutate(op) \/ DeferInput(op)
    \/ \E op \in IntentOps : BeginIntent(op)
    \/ \E op \in ControlOps : QueueLookup(op)
    \/ \E op \in CaptureOps : AdvanceCapture(op) \/ RetryCapture(op)
    \/ RetryPersistence \/ ExportRecovery
    \/ Quit \/ QuitAbandoningCapture \/ Terminate

Complete(op) ==
    \/ op \in IntentOps /\ CompleteIntent(op)
    \/ op \in ControlOps /\ CompleteLookup(op)
    \/ op \in DirectOps /\ ReplayInput(op)

Drain == DrainSequenced \/ DrainRetryFinished \/ DrainCapture

OwnerStep ==
    \/ Flush \/ (\E op \in Ops : Complete(op)) \/ CompleteRecoveryExport
    \/ RetainFailedCapture \/ AbandonFailedCapture
    \/ ShutdownPoll \/ DeadlineExpires \/ Drain

LaneStep == LaneCommit \/ LaneCapture \/ LaneRetry \/ LaneRetryNext \/ LaneSend

Next == UserStep \/ OwnerStep \/ LaneStep \/ StoreHeals \/ Reopen

(***************************************************************************)
(* The owner's loop drains its channels and its deadlines every turn.  The  *)
(* edit deadline fires once per edit and may find a failed save, so only a  *)
(* terminating owner, which flushes every turn, is sure to flush.  The lane *)
(* and the other workers answer what they were asked unless they hang.      *)
(* Users, crashes and the end of a storage fault are left unfair.           *)
(***************************************************************************)
OwnerFairness ==
    /\ WF_vars(Drain) /\ WF_vars(term /\ Flush)
    /\ WF_vars(ShutdownPoll) /\ WF_vars(DeadlineExpires)
    /\ WF_vars(RetainFailedCapture) /\ WF_vars(AbandonFailedCapture)
    /\ \A op \in DirectOps : WF_vars(ReplayInput(op))

WorkerFairness ==
    /\ WF_vars(LaneStep) /\ WF_vars(CompleteRecoveryExport)
    /\ \A op \in Ops : WF_vars(Complete(op))

Fairness == OwnerFairness /\ WorkerFairness

\* Any worker may hang for ever, with whatever it was asked.
HungSpec == Init /\ [][Next]_vars /\ OwnerFairness

Spec == Init /\ [][Next]_vars /\ Fairness

-----------------------------------------------------------------------------
(* Correctness.                                                             *)

AppTypeOK ==
    /\ mem \in Seq(Ops) /\ durable \in Nat
    /\ pending \subseteq 1 .. Len(mem) /\ deferred \subseteq pending
    /\ durability \in {Durable, Pending}
          \cup [state : {"Failed"}, failed : Nat \ {0}, code : FailureCodes]
UiTypeOK ==
    /\ draft \in DirectOps \cup {NoOp}
    /\ intents \subseteq DirectOps \cup IntentOps \cup ControlOps
    /\ save \in {NoSave} \cup [state : {"InFlight", "Ready"}, op : CaptureOps,
                               seq : Nat \ {0}]
    /\ exports \in Seq(SUBSET Ops) /\ exportedFor \in Nat
    /\ exported \subseteq SUBSET Ops /\ used \subseteq Ops
StopTypeOK ==
    /\ quit \in BOOLEAN /\ term \in BOOLEAN
    /\ deadline \in {"unset", "armed", "expired"}
    /\ run \in {"running", "exited", "failed"}
    /\ inflight \in Nat
ChannelTypeOK ==
    /\ requests \in Seq(Requests) /\ Len(requests) <= RequestCapacity
    /\ results \in Seq(Results) /\ Len(results) <= ResultCapacity
LaneTypeOK ==
    /\ retained \subseteq Commits /\ retrying \in BOOLEAN
    /\ todo \subseteq Nat \ {0} /\ out \in Seq(Results)
    /\ refused \subseteq Nat \ {0}
StoreTypeOK == log \in Seq(Ops) /\ faulty \in BOOLEAN

(* Every variable of the owner, the lane and the store holds a value its    *)
(* Rust type allows, a staged removal is a pending one, and both channels   *)
(* respect their capacity.                                                  *)
TypeOK == AppTypeOK /\ UiTypeOK /\ StopTypeOK /\ ChannelTypeOK /\ LaneTypeOK
            /\ StoreTypeOK

\* A capture the store took and the owner has not heard of yet.
CaptureAhead ==
    /\ save.state = "InFlight" /\ save.seq = Len(mem) + 1
    /\ log = Append(mem, save.op)

\* Where the store holds another operation than the owner: the user retried a
\* capture beside another producer, which then took the reserved sequence
\* (retry_screenshot_capture does not wait for it).
Overtaken == {i \in 1 .. Len(log) : i <= Len(mem) /\ log[i] # mem[i]}

(* The store holds what the owner did, in the same order, whatever fails,   *)
(* is retried or replayed (require_next_sequence, retry_from), or a capture *)
(* about to show.  At most one sequence is an exception, a retried capture  *)
(* that the answer of an effect or a control request overtook: it is never  *)
(* reported as saved.                                                       *)
StoreIsPrefix ==
    /\ Len(log) <= Len(mem) \/ CaptureAhead
    /\ \A i \in Overtaken : /\ log[i] \in CaptureOps
                            /\ mem[i] \in IntentOps \cup ControlOps
                            /\ i \in pending
    /\ \A i, j \in Overtaken : i = j

(* What the owner calls durable is in the store: an answer drained late, or *)
(* again after a retry, never overstates (reduce_persistence and            *)
(* apply_durable_capture).                                                  *)
AcknowledgedIsStored == durable <= Len(log)

(* The pending sequences are exactly those not acknowledged, without a gap, *)
(* and "saved" shows only when the store lacks nothing (track_pending,      *)
(* refresh_durability).                                                     *)
TruthfulStatus ==
    /\ pending = (durable + 1) .. Len(mem)
    /\ durability = Durable => log = mem \/ CaptureAhead

\* The requests and answers PendingWork counts: a retried batch is counted
\* once, by its RetryFinished.
Counted(answers) ==
    {i \in 1 .. Len(answers) : answers[i].kind = "Sequenced" => ~answers[i].retried}
Outstanding ==
    Len(requests) + Cardinality(Counted(out)) + Cardinality(Counted(results))
        + (IF retrying THEN 1 ELSE 0)

(* PendingWork::persistence equals the work the lane still owes, so that    *)
(* shutdown never finds the lane drained while a commit is on its way, and  *)
(* never waits for an answer that will not come (saturating_sub in          *)
(* complete_result hides a drift).                                          *)
AwaitedWorkCounted == Running => inflight = Outstanding

\* Sequences someone still answers for: queued, retained, or committed.
HeldSequences ==
    {requests[i].seq : i \in {j \in 1 .. Len(requests) : requests[j].kind = "Commit"}}
      \cup {r.seq : r \in retained}
      \cup {out[i].seq : i \in
              {j \in 1 .. Len(out) : out[j].kind = "Sequenced" /\ out[j].ok}}
      \cup {results[i].seq : i \in
              {j \in 1 .. Len(results) : results[j].kind = "Sequenced" /\ results[j].ok}}

(* No accepted operation is dropped between the reducer and the store: the  *)
(* queue, the lane's retention or an answer on its way holds each sequence  *)
(* not yet acknowledged, or the store has it already, unless the lane's     *)
(* retention or its queue was full (enqueue_effects, commit_batch,          *)
(* retry_from, queue_effect).                                               *)
PendingHeld ==
    Running => \A s \in pending :
                  \/ s \in HeldSequences \cup refused
                  \/ s <= Len(log) /\ log[s] = mem[s]

(* When a failure is shown and the lane is quiet, Retry starts at the first *)
(* sequence the store lacks and the lane holds everything from there on, so *)
(* one retry of a healthy store saves it all (reduce_persistence keeps the  *)
(* least failed sequence, retry_from replays in order).  A batch refused    *)
(* for want of room, or overtaken by a capture, no retry can save.          *)
RetryCanSucceed ==
    /\ Running /\ inflight = 0
    /\ IsFailed /\ durability.code = "StorageFailed"
    /\ refused = {} /\ Overtaken = {}
    => /\ durability.failed = Len(log) + 1
       /\ {r.seq : r \in retained} = durability.failed .. Len(mem)
       /\ \A r \in retained : mem[r.seq] = r.op

(* A normal exit flushed everything: no operation in memory is missing from *)
(* the store unless a failure is on screen, and no pending edit is left     *)
(* unless a recovery file was written (shutdown_ready, flush_edit_boundary, *)
(* request_global_quit).  A batch refused for want of room is the known     *)
(* exception: it stays pending without a failure once the others are saved. *)
ExitIsFlushed ==
    run = "exited" /\ ~IsFailed /\ refused = {}
    => log = mem /\ (exported = {} => draft = NoOp)

(* What was acknowledged stays: no step, a crash and the reopening from the *)
(* store included, takes back a durable sequence or changes its operation.  *)
AcknowledgedSurvives ==
    [][/\ durable <= durable'
       /\ SubSeq(mem', 1, durable) = SubSeq(mem, 1, durable)]_vars

(* Every save settles: from Pending the owner reaches Durable or a visible  *)
(* failure, unless it stops (the lane answers each request exactly once).   *)
SaveSettles ==
    WorkerFairness => (durability = Pending ~> durability # Pending \/ ~Running)

(* A termination signal ends the run, whatever failed and even when the     *)
(* lane hangs: the deadline bounds the drain (TerminationAdmission,         *)
(* ShutdownCoordinator).                                                    *)
TerminationEnds == term ~> ~term \/ ~Running

(* A quit ends the run or is taken back by a failure the user can see       *)
(* (acknowledge_persistence_result, retain_failed_capture_after_quit).      *)
QuitResolves == quit ~> ~quit \/ ~Running

-----------------------------------------------------------------------------
(* Statements of the documentation that the code does not keep.             *)

(* ARCHITECTURE.md: a capture cannot reserve until every earlier            *)
(* asynchronous producer has completed or failed, so that the sequence it   *)
(* reserved is still the next one when its answer arrives                   *)
(* (retry_screenshot_capture).                                              *)
CaptureOwnsSequence == save.state = "InFlight" => save.seq = NextSequence

(* commands.md: Quit does not discard failed work silently; after a quit    *)
(* everything that showed is in the store or in a recovery file             *)
(* (request_quit, complete_recovery_export).                                *)
NoSilentDiscard ==
    run = "exited" => Shown \subseteq RangeOf(log) \cup UNION exported

(* A batch the lane could not retain is not offered for retry: when Retry   *)
(* is available and the lane is quiet, the lane holds the batch it names    *)
(* (reduce_persistence, Action::PersistenceFailed).                         *)
RetryNamesRetained ==
    Running /\ inflight = 0 /\ IsFailed /\ durability.code = "StorageFailed"
    => durability.failed \in {r.seq : r \in retained}

(* getting-started.md: Quit waits for durability; a quit is never admitted  *)
(* with its waiting time already over (ShutdownCoordinator::request).       *)
QuitHasTimeToWait == [][~quit /\ quit' => deadline # "expired"]_vars

-----------------------------------------------------------------------------
(* The inductive invariant behind the theorems of AutosaveProofs.           *)

Has(s, kind) == \E i \in 1 .. Len(s) : s[i].kind = kind
AtMostOne(s, kind) ==
    \A i, j \in 1 .. Len(s) : s[i].kind = kind /\ s[j].kind = kind => i = j

\* One capture at a time is on its way, and it is the one `save` names.
OneCapture ==
    /\ AtMostOne(requests, "Capture")
    /\ AtMostOne(out, "Capture") /\ AtMostOne(results, "Capture")
    /\ ~(Has(requests, "Capture") /\ Has(out, "Capture"))
    /\ ~(Has(requests, "Capture") /\ Has(results, "Capture"))
    /\ ~(Has(out, "Capture") /\ Has(results, "Capture"))
    /\ Has(requests, "Capture") \/ Has(out, "Capture") \/ Has(results, "Capture")
         => save.state = "InFlight"
CaptureRequestNamed ==
    \A i \in 1 .. Len(requests) :
        requests[i].kind = "Capture"
        => requests[i].seq = save.seq /\ requests[i].op = save.op
CaptureAnswerNamed(s) ==
    \A i \in 1 .. Len(s) : s[i].kind = "Capture" => s[i].seq = save.seq

\* An answer that reports a commit reports one the store holds.
Reports(a) == a.ok /\ a.code = "none" /\ a.kind # "RetryFinished"
HonestAnswers(s) ==
    \A i \in 1 .. Len(s) : Reports(s[i]) => s[i].seq <= Len(log)

CaptureInv == OneCapture /\ CaptureRequestNamed
                /\ CaptureAnswerNamed(out) /\ CaptureAnswerNamed(results)

AckInv == TypeOK /\ CaptureInv /\ HonestAnswers(out) /\ HonestAnswers(results)
            /\ AcknowledgedIsStored

\* Whatever the lane may still commit is what the owner did at that sequence.
HeldMatches ==
    /\ \A i \in 1 .. Len(requests) :
         requests[i].kind = "Commit"
         => /\ requests[i].seq \in 1 .. Len(mem)
            /\ requests[i].op = mem[requests[i].seq]
    /\ \A r \in retained : r.seq \in 1 .. Len(mem) /\ r.op = mem[r.seq]

\* The store has no capture the owner has not shown, and none was overtaken.
Untouched == Len(log) <= Len(mem) /\ Overtaken = {}

\* Success is reported for what the store has; a capture that did not commit
\* left no trace there.
TrueAnswer(a) ==
    /\ a.kind = "Sequenced" /\ a.ok
       => /\ a.seq \in 1 .. Len(log) /\ a.seq <= Len(mem)
          /\ log[a.seq] = mem[a.seq]
    /\ a.kind = "Capture" /\ Reports(a) => log[a.seq] = save.op
    /\ a.kind = "Capture" /\ ~Reports(a) => Untouched
TrueAnswers(s) == \A i \in 1 .. Len(s) : TrueAnswer(s[i])

\* While a capture is in flight only the answers of effects and control
\* requests may allocate a sequence; until one does, nothing was overtaken.
CaptureBarrier ==
    /\ save.state = "InFlight"
       => /\ draft = NoOp /\ save.seq <= Len(mem) + 1
          /\ \A i \in save.seq .. Len(mem) : mem[i] \in IntentOps \cup ControlOps
          /\ save.seq = Len(mem) + 1 => deferred = {} /\ Overtaken = {}
    /\ save.state = "Ready" => Overtaken = {}
    /\ Has(requests, "Capture") => Untouched
    /\ TrueAnswers(out) /\ TrueAnswers(results)

\* What the store lacks or has otherwise is pending, and not acknowledged.
OpenPending ==
    /\ (Len(log) + 1) .. Len(mem) \subseteq pending
    /\ \A i \in Overtaken : durable < i
    /\ durability = Durable => pending = {}

PrefixInv == AckInv /\ HeldMatches /\ CaptureBarrier /\ StoreIsPrefix
                /\ OpenPending /\ durable <= Len(mem)

-----------------------------------------------------------------------------
(***************************************************************************)
(* The session as its user sees it, module DurableLog: a log of accepted    *)
(* operations, the part of it that is stored and the part acknowledged.     *)
(***************************************************************************)
Abstract == INSTANCE DurableLog
                WITH view <- mem, stored <- log, acked <- durable, Captures <- CaptureOps

(* The autosave path implements the durable log: operations are stored in   *)
(* the order they were accepted, acknowledged only once stored, and a crash *)
(* at any point leaves exactly what is stored.                              *)
ImplementsDurableLog == Abstract!Spec
=============================================================================

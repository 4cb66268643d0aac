------------------------- MODULE UpdateConvergence -------------------------
(***************************************************************************)
(* Installing a newer executable while sessions are open.                  *)
(*                                                                         *)
(* A slot is one terminal with its session.  The process in it starts by   *)
(* comparing its version with the version recorded in the update cache     *)
(* (cli/runtime/update_admission.rs), opens the store under a schema lease *)
(* and becomes a live owner.  Two coordinators replace live owners:        *)
(*  - the in-app coordinator (application/update_coordination.rs), run by  *)
(*    a live owner, installs the new version itself;                       *)
(*  - the external coordinator (update_coordination/external.rs), run by a *)
(*    starting process that finds itself newer than the cache.             *)
(* Both prepare every owner behind a barrier, quiesce them, and restart    *)
(* them in place.  Requests may be lost, answered too late or carried out  *)
(* after the coordinator gave up; processes may die at any step.           *)
(***************************************************************************)
EXTENDS Integers, FiniteSets

CONSTANTS Slots,         \* terminals, each with one session
          MaxVersion,    \* newest version there is
          MaxLaunches,   \* bound on processes started by the user
          MaxOps,        \* bound on update operations
          MaxFaults      \* bound on lost answers, failed writes and crashes

VARIABLES disk,          \* version of the active installation
          cache,         \* installation-wide update cache
          conv,          \* convergence lock: exclusive holder, shared holders
          installer,     \* holder of the installer lock
          proc,          \* the process of each slot
          co,            \* the coordinator run by each slot's process
          late,          \* requests still on their way after a timeout
          launches, ops, faults

vars == <<disk, cache, conv, installer, proc, co, late, launches, ops, faults>>

None == "none"
NoPending == [op |-> 0, target |-> 0, expected |-> {}, acknowledged |-> {}]
NoBarrier == [op |-> 0, target |-> 0, quiesced |-> FALSE]
NoProof == [op |-> 0, previous |-> 0, target |-> 0]
NoHighlights == [slot |-> None, target |-> 0]
IdleCo == [pc |-> "idle", op |-> 0, target |-> 0, todo |-> {}, ready |-> {},
           quiesced |-> {}, failed |-> {}, recover |-> FALSE]
OffProc(p) == [p EXCEPT !.pc = "off", !.schema = "none", !.barrier = NoBarrier,
                        !.proof = NoProof, !.exact = FALSE, !.seen = 0]

Init ==
  /\ disk = 1
  /\ cache = [observed |-> 1, restart |-> FALSE, pending |-> NoPending,
              highlights |-> NoHighlights]
  /\ conv = [excl |-> None, shared |-> {}]
  /\ installer = None
  /\ proc = [s \in Slots |-> [pc |-> "off", version |-> 1, gen |-> 0, schema |-> "none",
                              barrier |-> NoBarrier, proof |-> NoProof,
                              exact |-> FALSE, seen |-> 0]]
  /\ co = [s \in Slots |-> IdleCo]
  /\ late = {}
  /\ launches = 0 /\ ops = 0 /\ faults = 0

Live == {s \in Slots : proc[s].pc = "live"}
Older(v) == {s \in Live : proc[s].version < v}

\* is_compatible_update_participant and matching: every live owner of the model
\* publishes an endpoint and the current protocols.
Participants == Live

(***************************************************************************)
(* Locks and cache.                                                        *)
(***************************************************************************)
CanLock == conv.excl = None /\ conv.shared = {}
Exclusive(s) == [conv EXCEPT !.excl = s]
CanShare == conv.excl = None
Shared(s) == [conv EXCEPT !.shared = @ \cup {s}]
Unlocked(s) == [excl |-> IF conv.excl = s THEN None ELSE conv.excl,
                shared |-> conv.shared \ {s}]

SchemaFree == \A s \in Slots : proc[s].schema = "none"
NoMigration == \A s \in Slots : proc[s].schema # "exclusive"

\* reconcile_external_upgrade on the cache: a compare and set.
Reconciled(observed, v, pending) ==
  [cache EXCEPT !.observed = v, !.restart = (pending # NoPending), !.pending = pending]
CanReconcile(observed, v, pending) ==
  \/ cache.observed = v /\ cache.restart = (pending # NoPending) /\ cache.pending = pending
  \/ cache.observed = observed /\ v > observed

\* complete_external_restart.
CanComplete(v, pending) ==
  /\ cache.observed = v
  /\ \/ cache.restart /\ cache.pending = pending
     \/ ~cache.restart /\ cache.pending = NoPending
Completed == [cache EXCEPT !.restart = FALSE, !.pending = NoPending]

\* acknowledge_external_resume: only this session's expectation is removed.
AfterManualResume(s) ==
  LET left == {e \in cache.pending.expected : e.slot # s} IN
  IF left = {} THEN NoPending
  ELSE [cache.pending EXCEPT !.expected = left, !.acknowledged = @ \cup {s}]
Acknowledged(s) ==
  [cache EXCEPT !.pending = AfterManualResume(s),
                !.restart = (AfterManualResume(s) # NoPending)]

Expects(s) == \E e \in cache.pending.expected : e.slot = s

\* is_exact_replacement or is_acknowledged_manual_resume.
MayEnterPending(s) ==
  LET p == proc[s] IN
  \/ /\ p.exact /\ p.proof.op # 0
     /\ p.version = cache.pending.target
     /\ p.proof.target = p.version /\ p.proof.op = cache.pending.op
     /\ [slot |-> s, gen |-> p.proof.previous] \in cache.pending.expected
  \/ p.exact /\ s \in cache.pending.acknowledged

\* missing_replacements: the accepted lineage must be live at the target.
Replaced(e, op, target) ==
  LET p == proc[e.slot] IN
  /\ p.pc = "live" /\ p.gen # e.gen /\ p.version = target
  /\ p.proof = [op |-> op, previous |-> e.gen, target |-> target]

Gone(s) ==
  /\ proc' = [proc EXCEPT ![s] = OffProc(@)]
  /\ conv' = Unlocked(s)
  /\ installer' = IF installer = s THEN None ELSE installer
  /\ co' = [co EXCEPT ![s] = IdleCo]

(***************************************************************************)
(* Startup admission.                                                      *)
(***************************************************************************)

\* The user starts Proqi: naming this session exactly, or through a picker.
Launch(s) ==
  LET p == proc[s] IN
  /\ p.pc = "off" /\ launches < MaxLaunches
  /\ launches' = launches + 1
  /\ \E exact \in BOOLEAN :
       proc' = [proc EXCEPT ![s] = [p EXCEPT !.pc = "loading", !.version = disk,
                                             !.gen = p.gen + 1, !.exact = exact]]
  /\ UNCHANGED <<disk, cache, conv, installer, co, late, ops, faults>>

\* admit_with_authority: classify the version against the cached observation.
LoadCache(s) ==
  LET p == proc[s] IN
  /\ p.pc = "loading"
  /\ LET next == IF p.version < cache.observed THEN "obsolete"
                 ELSE IF p.version > cache.observed
                 THEN IF cache.pending = NoPending THEN "newer" ELSE "obsolete"
                 ELSE IF cache.pending = NoPending THEN "ordinary"
                 ELSE IF MayEnterPending(s) THEN "follower" ELSE "recover"
     IN proc' = [proc EXCEPT ![s].pc = next, ![s].seen = cache.observed]
  /\ UNCHANGED <<disk, cache, conv, installer, co, late, launches, ops, faults>>

\* obsolete_error and pending_target_error.
RefuseStart(s) ==
  /\ proc[s].pc = "obsolete"
  /\ Gone(s)
  /\ UNCHANGED <<disk, cache, late, launches, ops, faults>>

\* ordinary_admission: one attempt at the shared side.
AdmitOrdinary(s) ==
  /\ proc[s].pc = "ordinary"
  /\ IF CanShare
     THEN /\ conv' = Shared(s)
          /\ proc' = [proc EXCEPT ![s].pc = "admitted"]
          /\ UNCHANGED <<installer, co>>
     ELSE Gone(s)
  /\ UNCHANGED <<disk, cache, late, launches, ops, faults>>

\* wait_for_replacement_admission: a bounded wait for the shared side.
AdmitFollower(s) ==
  /\ proc[s].pc = "follower"
  /\ \/ /\ CanShare
        /\ conv' = Shared(s)
        /\ proc' = [proc EXCEPT ![s].pc = "admitted"]
        /\ UNCHANGED <<installer, co>>
     \/ ~CanShare /\ Gone(s)
  /\ UNCHANGED <<disk, cache, late, launches, ops, faults>>

\* reconcile_locked_pending_restart: resume one expected session by hand, or
\* finish the recorded restart when every replacement is there.
RecoverLocked(s) ==
  LET p == proc[s] IN
  IF p.exact /\ Expects(s)
  THEN IF Older(p.version) = {} /\ disk = p.version
       THEN /\ conv' = Exclusive(s)
            /\ proc' = [proc EXCEPT ![s].pc = "manual"]
            /\ UNCHANGED <<cache, installer, co>>
       ELSE Gone(s) /\ UNCHANGED cache
  ELSE IF /\ Older(p.version) = {} /\ disk = p.version
          /\ \A e \in cache.pending.expected : Replaced(e, cache.pending.op, p.version)
       THEN /\ conv' = Exclusive(s)
            /\ cache' = Completed
            /\ proc' = [proc EXCEPT ![s].pc = "admitted"]
            /\ UNCHANGED <<installer, co>>
       ELSE Gone(s) /\ UNCHANGED cache

\* reconcile_pending_restart.
RecoverPending(s) ==
  LET p == proc[s] IN
  /\ p.pc = "recover"
  /\ IF CanLock /\ cache.pending # NoPending /\ cache.observed = p.version
     THEN RecoverLocked(s)
     ELSE Gone(s) /\ UNCHANGED cache
  /\ UNCHANGED <<disk, late, launches, ops, faults>>

\* reconcile_newer: reload the cache under the exclusive side.
ReconcileNewer(s) ==
  LET p == proc[s] IN
  /\ p.pc = "newer" /\ CanLock
  /\ IF cache.observed = p.version
     THEN IF cache.pending = NoPending
          THEN /\ conv' = Exclusive(s)
               /\ proc' = [proc EXCEPT ![s].pc = "admitted"]
               /\ UNCHANGED <<cache, installer, co>>
          ELSE IF MayEnterPending(s)
          THEN /\ proc' = [proc EXCEPT ![s].pc = "follower"]
               /\ UNCHANGED <<conv, cache, installer, co>>
          ELSE RecoverLocked(s)
     ELSE IF cache.observed = p.seen /\ cache.pending = NoPending
     THEN /\ conv' = Exclusive(s)
          /\ proc' = [proc EXCEPT ![s].pc = "candidate"]
          /\ UNCHANGED <<cache, installer, co>>
     ELSE Gone(s) /\ UNCHANGED cache
  /\ UNCHANGED <<disk, late, launches, ops, faults>>

\* follow_convergence: someone else holds the lock; revalidate afterwards.
FollowConvergence(s) ==
  LET p == proc[s] IN
  /\ p.pc = "newer" /\ ~CanLock
  /\ \/ /\ CanShare
        /\ cache.observed = p.version
        /\ cache.pending = NoPending \/ MayEnterPending(s)
        /\ conv' = Shared(s)
        /\ proc' = [proc EXCEPT ![s].pc = "admitted"]
        /\ UNCHANGED <<installer, co>>
     \/ Gone(s)
  /\ UNCHANGED <<disk, cache, late, launches, ops, faults>>

\* RuntimeContext::open: the active installation is checked again, then the
\* store is opened under a shared schema lease.
Verified(s) == disk = proc[s].version
OpenStore(s) ==
  /\ proc[s].pc \in {"admitted", "manual"}
  /\ IF Verified(s) /\ NoMigration
     THEN /\ proc' = [proc EXCEPT ![s].schema = "shared",
                                  ![s].pc = IF @ = "manual" THEN "resumed" ELSE "opened"]
          /\ UNCHANGED <<conv, installer, co>>
     ELSE Gone(s)
  /\ UNCHANGED <<disk, cache, late, launches, ops, faults>>

\* open_store_for_external_adoption with finish_after_store_ready: the cache is
\* adopted only once the store opened under the exclusive schema lease.
AdoptStore(s) ==
  /\ proc[s].pc = "deferred"
  /\ \/ /\ Verified(s) /\ CanReconcile(proc[s].seen, proc[s].version, NoPending)
        /\ cache' = Reconciled(proc[s].seen, proc[s].version, NoPending)
        /\ proc' = [proc EXCEPT ![s].schema = "shared", ![s].pc = "opened"]
        /\ UNCHANGED <<conv, installer, co, faults>>
     \/ /\ ~Verified(s) \/ faults < MaxFaults
        /\ faults' = IF Verified(s) THEN faults + 1 ELSE faults
        /\ Gone(s) /\ UNCHANGED cache
  /\ UNCHANGED <<disk, late, launches, ops>>

\* mark_restart_ready and complete_restart: the announced session is back.
RestartReady(s) ==
  IF /\ cache.highlights = [slot |-> s, target |-> proc[s].version]
     /\ cache.pending = NoPending /\ cache.observed = proc[s].version
  THEN [cache EXCEPT !.restart = FALSE, !.highlights = NoHighlights]
  ELSE cache

\* finish_exact_resume, endpoint publication and release of the admission.
GoLive(s) ==
  LET p == proc[s] IN
  /\ p.pc \in {"opened", "resumed"}
  /\ IF p.pc = "resumed" /\ ~(Expects(s) /\ cache.observed = p.version)
     THEN Gone(s) /\ UNCHANGED cache
     ELSE /\ proc' = [proc EXCEPT ![s].pc = "live"]
          /\ conv' = Unlocked(s)
          /\ cache' = IF p.pc = "resumed" THEN Acknowledged(s) ELSE RestartReady(s)
          /\ UNCHANGED <<installer, co>>
  /\ UNCHANGED <<disk, late, launches, ops, faults>>

(***************************************************************************)
(* The owner's side of the protocol.                                       *)
(***************************************************************************)

\* begin_update_barrier.
CanPrepare(s, op, target) ==
  /\ proc[s].pc = "live"
  /\ \/ proc[s].barrier = NoBarrier
     \/ proc[s].barrier = [op |-> op, target |-> target, quiesced |-> FALSE]
Prepared(s, op, target) ==
  [proc[s] EXCEPT !.barrier = [op |-> op, target |-> target, quiesced |-> FALSE]]

\* release_update_barrier: never once quiescence was acknowledged.
\* Mutated form: a release also lifts the barrier of a quiesced owner.
ReleasedAlways(s, op) ==
  IF proc[s].barrier.op = op THEN [proc[s] EXCEPT !.barrier = NoBarrier] ELSE proc[s]
Released(s, op) ==
  IF proc[s].barrier.op = op /\ ~proc[s].barrier.quiesced
  THEN [proc[s] EXCEPT !.barrier = NoBarrier] ELSE proc[s]

\* commit_update_quiescence and the release of the shared schema lease.
CanQuiesce(s, op, target) ==
  proc[s].pc = "live" /\ proc[s].barrier.op = op /\ proc[s].barrier.target = target
Quiesced(s) == [proc[s] EXCEPT !.barrier.quiesced = TRUE, !.schema = "none"]

\* reserve_update_restart: only a quiesced owner of this operation.
CanRestart(s, op, target) == CanQuiesce(s, op, target) /\ proc[s].barrier.quiesced

\* complete_restart and the process replacement: the receipt was written, the
\* session and the PID are kept, and the new process carries the lineage.
Replacement(s, op, target) ==
  [OffProc(proc[s]) EXCEPT !.pc = "loading", !.version = disk, !.gen = @ + 1, !.exact = TRUE,
     !.proof = [op |-> op, previous |-> proc[s].gen, target |-> target]]

\* expire_update_barrier: a prepared owner continues, a quiesced one exits.
\* Mutated form: the expiry of a quiesced owner is forgotten.
ExpireBarrierUnlessQuiesced(s) ==
  /\ s \in Live /\ proc[s].barrier # NoBarrier /\ ~proc[s].barrier.quiesced
  /\ proc' = [proc EXCEPT ![s].barrier = NoBarrier]
  /\ UNCHANGED <<disk, cache, conv, installer, co, late, launches, ops, faults>>
ExpireBarrier(s) ==
  /\ s \in Live /\ proc[s].barrier # NoBarrier
  /\ IF proc[s].barrier.quiesced
     THEN Gone(s)
     ELSE /\ proc' = [proc EXCEPT ![s].barrier = NoBarrier]
          /\ UNCHANGED <<conv, installer, co>>
  /\ UNCHANGED <<disk, cache, late, launches, ops, faults>>

\* The user quits, which the barrier does not prevent.
Quit(s) ==
  /\ s \in Live
  /\ Gone(s)
  /\ UNCHANGED <<disk, cache, late, launches, ops, faults>>

\* The process dies; the system releases its locks.
Crash(s) ==
  /\ proc[s].pc # "off" /\ faults < MaxFaults
  /\ faults' = faults + 1
  /\ Gone(s)
  /\ UNCHANGED <<disk, cache, late, launches, ops>>

\* The package manager replaces the executable on its own.
InstallExternally ==
  /\ disk < MaxVersion
  /\ disk' = disk + 1
  /\ UNCHANGED <<cache, conv, installer, proc, co, late, launches, ops, faults>>

(***************************************************************************)
(* The coordinators.                                                       *)
(***************************************************************************)

\* UpdateRestartCoordinator::execute and prepare_current.
BeginUpdate(s) ==
  /\ s \in Live /\ co[s].pc = "idle" /\ proc[s].barrier = NoBarrier
  /\ proc[s].version < MaxVersion /\ ops < MaxOps
  /\ installer = None /\ CanLock /\ cache.pending = NoPending
  /\ ops' = ops + 1
  /\ installer' = s
  /\ conv' = Exclusive(s)
  /\ \E target \in (proc[s].version + 1)..MaxVersion :
       co' = [co EXCEPT ![s] = [IdleCo EXCEPT !.pc = "prepare", !.op = ops + 1,
                                              !.target = target, !.todo = Participants]]
  /\ UNCHANGED <<disk, cache, proc, late, launches, faults>>

\* ExternalUpgradeCoordinator::reconcile up to the preparation.
BeginExternal(s) ==
  LET v == proc[s].version IN
  /\ proc[s].pc = "candidate"
  /\ IF \/ disk # v \/ \E t \in Live : proc[t].version > v
        \/ Older(v) = {} /\ ~SchemaFree
        \/ Older(v) # {} /\ ops = MaxOps
     THEN Gone(s) /\ UNCHANGED ops
     ELSE IF Older(v) = {}
     THEN /\ proc' = [proc EXCEPT ![s].pc = "deferred", ![s].schema = "exclusive"]
          /\ UNCHANGED <<conv, installer, co, ops>>
     ELSE /\ ops' = ops + 1
          /\ proc' = [proc EXCEPT ![s].pc = "converging"]
          /\ co' = [co EXCEPT ![s] = [IdleCo EXCEPT !.pc = "prepare", !.op = ops + 1,
                                                    !.target = v, !.todo = Older(v)]]
          /\ UNCHANGED <<conv, installer>>
  /\ UNCHANGED <<disk, cache, late, launches, faults>>

External(s) == proc[s].pc = "converging"

\* release_all: an owner the release does not reach waits for its deadline.
ReleaseAll(s, q) == [t \in Slots |-> IF t \in q THEN Released(t, co[s].op) ELSE proc[t]]

\* The coordinator stops before anything irreversible: an external candidate
\* exits with a diagnostic, an in-app one only ends its operation.
Abandon(s, q) ==
  /\ proc' = [ReleaseAll(s, q) EXCEPT ![s] = IF External(s) THEN OffProc(@) ELSE @]
  /\ conv' = Unlocked(s)
  /\ installer' = IF installer = s THEN None ELSE installer
  /\ co' = [co EXCEPT ![s] = IdleCo]

\* preflight: one prepare request.  A failure releases what was prepared.
PrepareOne(s) ==
  LET c == co[s] IN
  /\ c.pc \in {"prepare", "prepareInstalled"}
  /\ \E t \in c.todo :
       \/ /\ CanPrepare(t, c.op, c.target)
          /\ proc' = [proc EXCEPT ![t] = Prepared(t, c.op, c.target)]
          /\ co' = [co EXCEPT ![s].todo = @ \ {t}, ![s].ready = @ \cup {t}]
          /\ UNCHANGED <<conv, installer, late, faults>>
       \/ /\ ~CanPrepare(t, c.op, c.target) \/ faults < MaxFaults
          /\ faults' = IF CanPrepare(t, c.op, c.target) THEN faults + 1 ELSE faults
          /\ late' = IF CanPrepare(t, c.op, c.target)
                     THEN late \cup {[kind |-> "prepare", to |-> t, op |-> c.op, target |-> c.target]}
                     ELSE late
          /\ Abandon(s, c.ready)
  /\ UNCHANGED <<disk, cache, launches, ops>>

\* execute_locked: release, install, record, and rescan the live owners.
Install(s) ==
  LET c == co[s] IN
  /\ c.pc = "prepare" /\ c.todo = {} /\ ~External(s)
  /\ \/ /\ disk <= c.target
        /\ disk' = c.target
        /\ proc' = ReleaseAll(s, c.ready)
        /\ co' = [co EXCEPT ![s] = [c EXCEPT !.pc = "prepareInstalled", !.ready = {},
                                             !.todo = Participants]]
        /\ cache' = [cache EXCEPT !.observed = c.target, !.restart = TRUE]
        /\ UNCHANGED <<conv, installer, faults>>
     \/ /\ disk > c.target \/ faults < MaxFaults
        /\ faults' = IF disk > c.target THEN faults ELSE faults + 1
        /\ disk' = disk
        /\ Abandon(s, c.ready)
        /\ UNCHANGED cache
  /\ UNCHANGED <<late, launches, ops>>

\* restart_installed: the last point at which cancellation is reversible.
CommitUpdate(s) ==
  LET c == co[s] IN
  /\ c.pc = "prepareInstalled" /\ c.todo = {}
  /\ \/ /\ s \in c.ready
        /\ co' = [co EXCEPT ![s] = [c EXCEPT !.pc = "quiesce", !.todo = c.ready]]
        /\ UNCHANGED <<proc, conv, installer>>
     \/ Abandon(s, c.ready)
  /\ UNCHANGED <<disk, cache, late, launches, ops, faults>>

\* The external candidate goes on to quiescence as soon as all are prepared.
CommitExternal(s) ==
  LET c == co[s] IN
  /\ c.pc = "prepare" /\ c.todo = {} /\ External(s)
  /\ co' = [co EXCEPT ![s] = [c EXCEPT !.pc = "quiesce", !.todo = c.ready]]
  /\ UNCHANGED <<disk, cache, conv, installer, proc, late, launches, ops, faults>>

\* quiesce_prepared: one irreversible request.  An answer that does not arrive
\* is a failure, whatever the owner did.
QuiesceOne(s) ==
  LET c == co[s] IN
  /\ c.pc = "quiesce"
  /\ \E t \in c.todo :
       LET able == CanQuiesce(t, c.op, c.target) IN
       \/ /\ proc[t].pc = "live" /\ proc[t].version = c.target
          /\ proc' = [proc EXCEPT ![t] = Released(t, c.op)]
          /\ co' = [co EXCEPT ![s].todo = @ \ {t}]
          /\ UNCHANGED <<late, faults>>
       \/ /\ able /\ proc[t].version # c.target
          /\ proc' = [proc EXCEPT ![t] = Quiesced(t)]
          /\ co' = [co EXCEPT ![s].todo = @ \ {t}, ![s].quiesced = @ \cup {t}]
          /\ UNCHANGED <<late, faults>>
       \/ /\ ~able \/ faults < MaxFaults
          /\ faults' = IF able THEN faults + 1 ELSE faults
          /\ late' = IF able
                     THEN late \cup {[kind |-> "quiesce", to |-> t, op |-> c.op, target |-> c.target]}
                     ELSE late
          /\ co' = [co EXCEPT ![s].todo = @ \ {t}, ![s].failed = @ \cup {t}]
          /\ UNCHANGED proc
  /\ UNCHANGED <<disk, cache, conv, installer, launches, ops>>

\* After quiescence the in-app coordinator drops the convergence lock.
StartRestarts(s) ==
  LET c == co[s] IN
  /\ c.pc = "quiesce" /\ c.todo = {} /\ ~External(s)
  /\ conv' = Unlocked(s)
  /\ co' = [co EXCEPT ![s] = [c EXCEPT !.pc = "restart", !.todo = c.quiesced \ {s}]]
  /\ UNCHANGED <<disk, cache, installer, proc, late, launches, ops, faults>>

Expectations(q) == {[slot |-> t, gen |-> proc[t].gen] : t \in q}

\* finish_quiesced: schema proof, durable cohort, and only then the restarts.
\* Any failure still restarts the owners already quiesced.
\* Mutated form: the cohort is recorded without proving the schema free.
AdoptExternalUnproved(s) ==
  LET c == co[s] IN
  /\ c.pc = "quiesce" /\ c.todo = {} /\ External(s)
  /\ conv' = Unlocked(s)
  /\ cache' = Reconciled(proc[s].seen, proc[s].version,
                         [op |-> c.op, target |-> c.target, acknowledged |-> {},
                          expected |-> Expectations(c.ready)])
  /\ co' = [co EXCEPT ![s] = [c EXCEPT !.pc = "restart", !.todo = c.quiesced]]
  /\ UNCHANGED <<disk, installer, proc, late, launches, ops, faults>>
AdoptExternal(s) ==
  LET c == co[s]
      cohort == [op |-> c.op, target |-> c.target, acknowledged |-> {},
                 expected |-> Expectations(c.ready)]
      restart(recover) == [c EXCEPT !.pc = "restart", !.todo = c.quiesced, !.recover = recover]
  IN
  /\ c.pc = "quiesce" /\ c.todo = {} /\ External(s)
  /\ IF c.failed # {} /\ c.quiesced = {}
     THEN Gone(s) /\ UNCHANGED <<cache, faults>>
     ELSE /\ conv' = Unlocked(s)
          /\ UNCHANGED <<proc, installer>>
          /\ \/ /\ c.failed = {} /\ SchemaFree /\ Verified(s)
                /\ CanReconcile(proc[s].seen, proc[s].version, cohort)
                /\ cache' = Reconciled(proc[s].seen, proc[s].version, cohort)
                /\ co' = [co EXCEPT ![s] = restart(FALSE)]
                /\ UNCHANGED faults
             \/ /\ c.failed # {} \/ ~SchemaFree \/ ~Verified(s) \/ faults < MaxFaults
                /\ faults' = IF c.failed = {} /\ SchemaFree /\ Verified(s)
                             THEN faults + 1 ELSE faults
                /\ co' = [co EXCEPT ![s] = restart(TRUE)]
                /\ UNCHANGED cache
  /\ UNCHANGED <<disk, late, launches, ops>>

\* restart_peers and restart_all: the receipt is delivered and the owner is
\* replaced, or it is not and the quiesced owner exits.
RestartOne(s) ==
  LET c == co[s] IN
  /\ c.pc = "restart"
  /\ \E t \in c.todo :
       LET able == CanRestart(t, c.op, c.target) IN
       \/ /\ able
          /\ proc' = [proc EXCEPT ![t] = Replacement(t, c.op, c.target)]
          /\ co' = [co EXCEPT ![s].todo = @ \ {t}, ![t] = IdleCo]
          /\ conv' = Unlocked(t)
          /\ installer' = IF installer = t THEN None ELSE installer
          /\ UNCHANGED faults
       \/ /\ ~able \/ faults < MaxFaults
          /\ faults' = IF able THEN faults + 1 ELSE faults
          /\ proc' = IF able THEN [proc EXCEPT ![t] = OffProc(@)] ELSE proc
          /\ conv' = IF able THEN Unlocked(t) ELSE conv
          /\ installer' = IF able /\ installer = t THEN None ELSE installer
          /\ co' = IF able
                   THEN [co EXCEPT ![s].todo = @ \ {t}, ![s].failed = @ \cup {t}, ![t] = IdleCo]
                   ELSE [co EXCEPT ![s].todo = @ \ {t}, ![s].failed = @ \cup {t}]
  /\ UNCHANGED <<disk, cache, late, launches, ops>>

\* wait_for_replacements: all of them, or the timeout.
Observe(s) ==
  LET c == co[s]
      peers == c.quiesced \ (c.failed \cup {s})
      here == {t \in peers : Replaced([slot |-> t, gen |-> proc[t].proof.previous], c.op, c.target)}
  IN
  /\ c.pc = "restart" /\ c.todo = {} /\ ~c.recover
  /\ \/ co' = [co EXCEPT ![s] = [c EXCEPT !.pc = "finish"]] /\ here = peers
     \/ co' = [co EXCEPT ![s] = [c EXCEPT !.pc = "finish", !.failed = @ \cup (peers \ here)]]
        /\ here # peers
  /\ UNCHANGED <<disk, cache, conv, installer, proc, late, launches, ops, faults>>

\* The recovery paths end the candidate once its restarts were requested.
EndRecovery(s) ==
  /\ co[s].pc = "restart" /\ co[s].todo = {} /\ co[s].recover
  /\ Gone(s)
  /\ UNCHANGED <<disk, cache, late, launches, ops, faults>>

\* finish_restart: announce, then restart the initiating owner last.
FinishUpdate(s) ==
  LET c == co[s]
      needed == proc[s].version # c.target
      announce == c.failed = {} /\ s \in c.quiesced
      announced == IF announce
                   THEN [cache EXCEPT !.highlights = [slot |-> s, target |-> c.target]]
                   ELSE cache
      accepted == needed /\ s \in c.quiesced /\ CanRestart(s, c.op, c.target)
  IN
  /\ c.pc = "finish" /\ ~External(s)
  /\ installer' = None
  /\ co' = [co EXCEPT ![s] = IdleCo]
  /\ IF accepted
     THEN /\ cache' = announced
          /\ proc' = [proc EXCEPT ![s] = Replacement(s, c.op, c.target)]
     ELSE /\ cache' = IF cache.pending # NoPending THEN cache
                      ELSE [cache EXCEPT !.observed = c.target,
                                         !.restart = (c.failed # {} \/ needed)]
          /\ UNCHANGED proc
  /\ UNCHANGED <<disk, conv, late, launches, ops, faults>>

\* finish_quiesced after the restarts: rejoin as an ordinary shared starter and
\* clear the cohort that is still the recorded one.
FinishExternal(s) ==
  LET c == co[s]
      complete == /\ c.failed = {} /\ CanShare /\ Verified(s)
                  /\ cache.observed = c.target
                  /\ cache.pending.op \in {0, c.op} /\ cache.pending.acknowledged = {}
  IN
  /\ c.pc = "finish" /\ External(s)
  /\ IF complete
     THEN /\ cache' = Completed
          /\ conv' = Shared(s)
          /\ proc' = [proc EXCEPT ![s].pc = "admitted"]
          /\ co' = [co EXCEPT ![s] = IdleCo]
          /\ UNCHANGED installer
     ELSE Gone(s) /\ UNCHANGED cache
  /\ UNCHANGED <<disk, late, launches, ops, faults>>

\* A request whose sender stopped waiting is still carried out by its owner.
LateRequest ==
  \E m \in late :
    /\ late' = late \ {m}
    /\ proc' = IF m.kind = "prepare"
               THEN IF CanPrepare(m.to, m.op, m.target)
                    THEN [proc EXCEPT ![m.to] = Prepared(m.to, m.op, m.target)] ELSE proc
               ELSE IF CanQuiesce(m.to, m.op, m.target)
                    THEN [proc EXCEPT ![m.to] = Quiesced(m.to)] ELSE proc
    /\ UNCHANGED <<disk, cache, conv, installer, co, launches, ops, faults>>

Start(s) ==
  \/ LoadCache(s) \/ RefuseStart(s) \/ AdmitOrdinary(s) \/ AdmitFollower(s)
  \/ RecoverPending(s) \/ ReconcileNewer(s) \/ FollowConvergence(s)
  \/ OpenStore(s) \/ AdoptStore(s) \/ GoLive(s) \/ BeginExternal(s)

Coordinate(s) ==
  \/ PrepareOne(s) \/ Install(s) \/ CommitUpdate(s) \/ CommitExternal(s)
  \/ QuiesceOne(s) \/ StartRestarts(s) \/ AdoptExternal(s) \/ RestartOne(s)
  \/ Observe(s) \/ EndRecovery(s) \/ FinishUpdate(s) \/ FinishExternal(s)

Next ==
  \/ InstallExternally \/ LateRequest
  \/ \E s \in Slots :
       \/ Launch(s) \/ Start(s) \/ BeginUpdate(s) \/ Coordinate(s)
       \/ ExpireBarrier(s) \/ Quit(s) \/ Crash(s)

\* Startup waits and coordinator waits are bounded, and the main loop checks the
\* barrier's deadline on every turn.  Nothing makes the user act.
Fairness ==
  \A s \in Slots : WF_vars(Start(s)) /\ WF_vars(Coordinate(s)) /\ WF_vars(ExpireBarrier(s))

Spec == Init /\ [][Next]_vars /\ Fairness

(***************************************************************************)
(* Properties.                                                             *)
(***************************************************************************)

TypeOK ==
  /\ disk \in 1..MaxVersion
  /\ cache.observed \in 1..MaxVersion /\ cache.restart \in BOOLEAN
  /\ conv.excl \in Slots \cup {None} /\ conv.shared \subseteq Slots
  /\ installer \in Slots \cup {None}
  /\ \A s \in Slots : proc[s].schema \in {"none", "shared", "exclusive"}

\* While a restart cohort is recorded, nobody writes the store with another
\* version than its target: every older owner gave up its schema lease before
\* the cohort was recorded, and no older process enters afterwards.
CohortExcludesOlder ==
  cache.pending # NoPending =>
    \A s \in Slots : proc[s].schema # "none" => proc[s].version = cache.pending.target

\* An owner without its schema lease never edits again: from quiescence on, the
\* barrier stands until the process is gone.
QuiescedStaysBehindBarrier ==
  \A s \in Slots : proc[s].pc = "live" /\ proc[s].schema = "none" => proc[s].barrier.quiesced

\* The recorded need to restart is withdrawn only when no older owner could
\* still be writing.
ClearsOnlyConverged ==
  [][cache.restart /\ ~cache'.restart =>
       \A s \in Slots : proc[s].pc = "live" /\ proc[s].version < cache'.observed
                          => proc[s].barrier.quiesced]_vars

\* The recorded version is the startup authority and never goes back, although
\* the in-app coordinator writes it again after it dropped the convergence lock.
ObservationNeverRegresses == [][cache'.observed >= cache.observed]_vars

\* Nobody stays locked out: a barrier is lifted or its process is gone.
BarrierEnds ==
  \A s \in Slots : (proc[s].barrier # NoBarrier) ~> (proc[s].barrier = NoBarrier)

\* Convergence (application/update_coordination): no older process works beside an updated cohort,
\* and one that made way stays quiet.
UpdateConvergenceSafe == TypeOK /\ CohortExcludesOlder /\ QuiescedStaysBehindBarrier
=============================================================================

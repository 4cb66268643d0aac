---------------------------- MODULE ChildProcess ----------------------------
(***************************************************************************)
(* SystemProcessRunner (src/adapters/process): one bounded child process   *)
(* at a time, started in its own process group, with a thread writing its  *)
(* standard input and one thread reading each of its output pipes.  The    *)
(* runner waits for the exit, then for the three threads, all before one   *)
(* deadline; on any failure it signals the group, reaps the direct child,  *)
(* and joins the threads within a grace period.  A run whose threads or    *)
(* child did not settle leaves the runner unusable (cleanup_incomplete).   *)
(*                                                                         *)
(* The operating system is the environment: the child may exit, ignore     *)
(* SIGTERM, or leave behind a helper process that holds the pipes open,    *)
(* inside the group or outside it, and that may ignore SIGTERM too.  The   *)
(* pipe contents are abstracted to how each thread ends: at the end of the *)
(* stream, over the capture limit, or with a broken pipe.                  *)
(***************************************************************************)
EXTENDS Naturals

CONSTANTS MaxRuns      \* runs of the runner

VARIABLES call,        \* the call of run(): phase, result so far, joined threads
          incomplete,  \* SystemProcessRunner.cleanup_incomplete
          cancelled,   \* the shared CancellationFlag
          late,        \* the run's deadline has passed
          grace,       \* the current TERMINATION_GRACE period is over
          child,       \* the direct child: life, deaf to SIGTERM, armed owner
          helper,      \* a descendant that holds the child's pipes
          io,          \* the three pipe threads: "none", "running" or how they ended
          runs

vars == <<call, incomplete, cancelled, late, grace, child, helper, io, runs>>

Threads == {"stdin", "stdout", "stderr"}
Readers == {"stdout", "stderr"}
Results == {"none", "ok", "limit", "cancelled", "timeout", "io"}
Phases == {"idle", "wait", "stdin", "stdout", "stderr", "term", "kill", "finish",
           "dropTerm", "dropKill"}

TypeOK ==
    /\ call \in [phase : Phases, result : Results]
    /\ {incomplete, cancelled, late, grace} \subseteq BOOLEAN
    /\ child \in [life : {"none", "running", "zombie", "reaped"},
                  deaf : BOOLEAN, armed : BOOLEAN]
    /\ helper \in [alive : BOOLEAN, grouped : BOOLEAN, deaf : BOOLEAN]
    /\ io \in [Threads -> {"none", "running", "eof", "over", "broken", "written"}]
    /\ runs \in 0..MaxRuns

Init ==
    /\ call = [phase |-> "idle", result |-> "none"]
    /\ incomplete = FALSE /\ cancelled = FALSE /\ late = FALSE /\ grace = FALSE
    /\ child = [life |-> "none", deaf |-> FALSE, armed |-> FALSE]
    /\ helper = [alive |-> FALSE, grouped |-> TRUE, deaf |-> FALSE]
    /\ io = [t \in Threads |-> "none"]
    /\ runs = 0

NewChild(deaf) == [life |-> "running", deaf |-> deaf, armed |-> TRUE]

Ended(t) == io[t] \notin {"none", "running"}

----------------------------------------------------------------------------
(* The operating system.                                                   *)

Holders == child.life = "running" \/ helper.alive

ChildExits ==
    /\ child.life = "running"
    /\ child' = [child EXCEPT !.life = "zombie"]
    /\ UNCHANGED <<call, incomplete, cancelled, late, grace, helper, io, runs>>

ChildForks(grouped, deaf) ==
    /\ child.life = "running" /\ ~helper.alive
    /\ helper' = [alive |-> TRUE, grouped |-> grouped, deaf |-> deaf]
    /\ UNCHANGED <<call, incomplete, cancelled, late, grace, child, io, runs>>

HelperExits ==
    /\ helper.alive
    /\ helper' = [helper EXCEPT !.alive = FALSE]
    /\ UNCHANGED <<call, incomplete, cancelled, late, grace, child, io, runs>>

(* kill_process_group, and the direct child when the group cannot be       *)
(* signalled; a deaf process survives SIGTERM and nothing survives SIGKILL *)
Struck(p, force) == force \/ ~p.deaf

SignalledChild(force) ==
    IF child.life = "running" /\ Struck(child, force)
    THEN [child EXCEPT !.life = "zombie"] ELSE child

SignalledHelper(force) ==
    IF helper.alive /\ helper.grouped /\ Struck(helper, force)
    THEN [helper EXCEPT !.alive = FALSE] ELSE helper

----------------------------------------------------------------------------
(* The pipe threads.                                                       *)

(* read_bounded: to the end of the stream, which comes when no process     *)
(* holds the pipe, or to one byte over the capture limit                   *)
ReadEnds(t) ==
    /\ t \in Readers /\ io[t] = "running"
    /\ \/ ~Holders /\ io' = [io EXCEPT ![t] = "eof"]
       \/ Holders /\ io' = [io EXCEPT ![t] = "over"]
    /\ UNCHANGED <<call, incomplete, cancelled, late, grace, child, helper, runs>>

(* write_input: the pipe took every byte, or nobody can read it any more   *)
WriteEnds ==
    /\ io["stdin"] = "running"
    /\ \/ io' = [io EXCEPT !["stdin"] = "written"]
       \/ ~Holders /\ io' = [io EXCEPT !["stdin"] = "broken"]
    /\ UNCHANGED <<call, incomplete, cancelled, late, grace, child, helper, runs>>

----------------------------------------------------------------------------
(* The runner.                                                             *)

Cancel ==
    /\ ~cancelled
    /\ cancelled' = TRUE
    /\ UNCHANGED <<call, incomplete, late, grace, child, helper, io, runs>>

DeadlinePasses ==
    /\ call.phase # "idle" /\ ~late
    /\ late' = TRUE
    /\ UNCHANGED <<call, incomplete, cancelled, grace, child, helper, io, runs>>

GraceEnds ==
    /\ call.phase \in {"term", "kill", "finish", "dropTerm", "dropKill"} /\ ~grace
    /\ grace' = TRUE
    /\ UNCHANGED <<call, incomplete, cancelled, late, child, helper, io, runs>>

(* Mutated form: a runner whose cleanup did not settle starts another child *)
UsableAnyway == ~cancelled

(* run refuses an unsettled runner and a cancelled one                     *)
Usable == ~incomplete /\ ~cancelled

StartRun(deaf) ==
    /\ call.phase = "idle" /\ runs < MaxRuns /\ Usable
    /\ runs' = runs + 1
    /\ call' = [phase |-> "wait", result |-> "none"]
    /\ child' = NewChild(deaf)
    /\ helper' = [alive |-> FALSE, grouped |-> TRUE, deaf |-> FALSE]
    /\ io' = [t \in Threads |-> "running"]
    /\ late' = FALSE /\ grace' = FALSE
    /\ UNCHANGED <<incomplete, cancelled>>

SpawnFails ==
    /\ call.phase = "idle" /\ runs < MaxRuns /\ Usable
    /\ runs' = runs + 1
    /\ call' = [call EXCEPT !.result = "io"]
    /\ UNCHANGED <<incomplete, cancelled, late, grace, child, helper, io>>

(* The result is an error: terminate() sends SIGTERM to the group          *)
Fail(error) ==
    /\ call' = [phase |-> "term", result |-> error]
    /\ child' = SignalledChild(FALSE)
    /\ helper' = SignalledHelper(FALSE)
    /\ grace' = FALSE
    /\ UNCHANGED <<incomplete, cancelled, late, io, runs>>

Advance(next) ==
    /\ call' = [call EXCEPT !.phase = next]
    /\ UNCHANGED <<incomplete, cancelled, late, grace, child, helper, io, runs>>

(* wait_for_exit: cancellation first, then the exit, then the deadline     *)
WaitForExit ==
    /\ call.phase = "wait"
    /\ IF cancelled THEN Fail("cancelled")
       ELSE IF child.life = "zombie"
       THEN /\ child' = [child EXCEPT !.life = "reaped"]
            /\ call' = [call EXCEPT !.phase = "stdin"]
            /\ UNCHANGED <<incomplete, cancelled, late, grace, helper, io, runs>>
       ELSE late /\ Fail("timeout")

(* receive_worker: what the thread sent, before the deadline.  A deadline  *)
(* already over is a timeout even when the answer is there                 *)
ReceiveWorker(t, next) ==
    /\ call.phase = t
    /\ \/ late /\ Fail("timeout")
       \/ ~late /\ Ended(t) /\ io[t] = "broken" /\ Fail("io")
       \/ ~late /\ Ended(t) /\ io[t] # "broken" /\ next # "finish" /\ Advance(next)
       \/ /\ ~late /\ Ended(t) /\ io[t] # "broken" /\ next = "finish"
          /\ call' = [phase |-> "finish", result |-> "ok"]
          /\ grace' = FALSE
          /\ UNCHANGED <<incomplete, cancelled, late, child, helper, io, runs>>

(* reap_before after SIGTERM, then SIGKILL and a second grace period, after *)
(* which the child may still not be reaped: its owner stays armed          *)
Terminate(term, kill, after) ==
    \/ /\ call.phase \in {term, kill} /\ child.life \in {"zombie", "reaped"}
       /\ child' = [child EXCEPT !.life = "reaped", !.armed = FALSE]
       /\ call' = [call EXCEPT !.phase = after]
       /\ grace' = FALSE
       /\ UNCHANGED <<incomplete, cancelled, late, helper, io, runs>>
    \/ /\ call.phase = term /\ grace
       /\ child' = SignalledChild(TRUE)
       /\ helper' = SignalledHelper(TRUE)
       /\ call' = [call EXCEPT !.phase = kill]
       /\ grace' = FALSE
       /\ UNCHANGED <<incomplete, cancelled, late, io, runs>>
    \/ /\ call.phase = kill /\ grace
       /\ call' = [call EXCEPT !.phase = after]
       /\ grace' = FALSE
       /\ UNCHANGED <<incomplete, cancelled, late, child, helper, io, runs>>

Settle == Terminate("term", "kill", "finish")

(* Mutated form: only the output pipe is held to the capture limit         *)
OutputLimitStdout == io["stdout"] = "over"

OutputLimit == \E t \in Readers : io[t] = "over"

(* Mutated form: only the child counts as settled, not the pipe threads    *)
SettledChild == call.result = "ok" \/ ~child.armed

Settled ==
    /\ call.result = "ok" \/ ~child.armed
    /\ \A t \in Threads : Ended(t)

(* What collect_execution returns once the joins are over                  *)
Collected ==
    IF call.result = "ok" /\ \E t \in Threads : ~Ended(t) THEN "timeout" ELSE call.result

(* The three joins share one grace period (a thread that sent its answer   *)
(* has ended); then run() decides, and an OwnedChild dropped while it is   *)
(* still armed terminates the group once more                              *)
FinishWorkers ==
    /\ call.phase = "finish"
    /\ grace \/ \A t \in Threads : Ended(t)
    /\ incomplete' = ~Settled
    /\ \/ /\ Collected = "ok"
          /\ call' = [phase |-> "idle", result |-> IF OutputLimit THEN "limit" ELSE "ok"]
          /\ child' = [child EXCEPT !.armed = FALSE]
          /\ UNCHANGED <<helper, grace>>
       \/ /\ Collected # "ok" /\ child.armed
          /\ call' = [phase |-> "dropTerm", result |-> Collected]
          /\ child' = SignalledChild(FALSE)
          /\ helper' = SignalledHelper(FALSE)
          /\ grace' = FALSE
       \/ /\ Collected # "ok" /\ ~child.armed
          /\ call' = [phase |-> "idle", result |-> Collected]
          /\ UNCHANGED <<child, helper, grace>>
    /\ UNCHANGED <<cancelled, late, io, runs>>

DropChild == Terminate("dropTerm", "dropKill", "idle")

----------------------------------------------------------------------------
Runner == WaitForExit \/ Settle \/ FinishWorkers \/ DropChild
          \/ ReceiveWorker("stdin", "stdout")
          \/ ReceiveWorker("stdout", "stderr")
          \/ ReceiveWorker("stderr", "finish")

Next ==
    \/ Runner
    \/ Cancel \/ DeadlinePasses \/ GraceEnds \/ SpawnFails
    \/ \E deaf \in BOOLEAN : StartRun(deaf)
    \/ ChildExits \/ HelperExits
    \/ \E grouped \in BOOLEAN, deaf \in BOOLEAN : ChildForks(grouped, deaf)
    \/ \E t \in Readers : ReadEnds(t)
    \/ WriteEnds

(* The runner's thread and the clock go on; a pipe thread with nothing     *)
(* left to wait for ends.  The child owes nothing                          *)
Fairness ==
    /\ WF_vars(Runner) /\ WF_vars(DeadlinePasses) /\ WF_vars(GraceEnds)

Spec == Init /\ [][Next]_vars /\ Fairness

----------------------------------------------------------------------------
(* A child is started only when every pipe thread of the earlier runs has  *)
(* ended and the earlier child was reaped: nothing of a failed run can     *)
(* write into, or hold up, the next one.                                   *)
StartsClean ==
    [][runs' > runs /\ call'.phase = "wait"
       => child.life \in {"none", "reaped"} /\ \A t \in Threads : io[t] # "running"]_vars

(* A successful result has the whole output: both streams were read to     *)
(* their end, so no descendant that could still write is left.             *)
SuccessIsWhole ==
    call.phase = "idle" /\ call.result = "ok"
        => child.life = "reaped" /\ ~helper.alive /\ \A t \in Readers : io[t] = "eof"

(* Every run returns, whatever the child and its helpers do.               *)
RunReturns == call.phase # "idle" ~> call.phase = "idle"

\* A child process (adapters/process): a result that reports success holds the whole output.
ChildProcessSafe == TypeOK /\ SuccessIsWhole
=============================================================================

-------------------------------- MODULE Lanes --------------------------------
(***************************************************************************)
(* The worker lanes of the terminal runner and their shared shutdown       *)
(* (src/adapters/terminal: supervisor.rs, runner.rs, runner/drive.rs and   *)
(* the lane facades).  Each lane is a thread with a bounded request and a  *)
(* bounded result channel and a WorkerLifecycle cell.  The runner drains   *)
(* every lane, notices a worker that died, and on a quit, a termination    *)
(* signal, an input stall or an error walks one cleanup: close and cancel  *)
(* every lane, restore the terminal, stop the control server, release the  *)
(* leases, join the workers before one deadline, and only after a cleanup  *)
(* without failures replace the process.                                   *)
(*                                                                         *)
(* What a request does is abstracted: it is answered, panics, or hangs     *)
(* until cancellation (Cancellable lanes run subprocesses) or for good.    *)
(* The input lane, the capture lease's part of the shutdown and what the   *)
(* saves contain are modelled in InputLane, CaptureLane and Autosave.      *)
(***************************************************************************)
EXTENDS Naturals, Sequences, FiniteSets

CONSTANTS Order,        \* the lanes, in the order they are stopped and joined
          Saver,        \* the persistence lane
          Herdr,        \* the external lane, which gets the last pane request
          Cancellable,  \* lanes whose blocking work watches the cancellation flag
          Capacity,     \* of each channel
          MaxSends, MaxFaults

VARIABLES lane,       \* per lane: lifecycle, channels, thread
          pending,    \* PendingWork: requests whose result was not drained
          phase, at,  \* where the runner is: the loop or a cleanup stage, and its lane
          wants,      \* why the loop is to end: quit, signal, stall, restart
          ran,        \* the loop's result
          deadline,   \* the ShutdownCoordinator's deadline
          cancelled, control, modes, leases,
          failures,   \* cleanup stages that failed
          outcome, sends, faults

vars == <<lane, pending, phase, at, wants, ran, deadline, cancelled, control, modes,
          leases, failures, outcome, sends, faults>>

Lane == {Order[i] : i \in DOMAIN Order}

Lives == {"running", "stopping", "exited", "unexpected", "panicked"}
Request == {"ask", "tell"}      \* with a result, or without one (pane metadata)
Stages == Lane \cup {"control", "runtime", "terminal"}

NewLane == [life |-> "running", saw |-> "running", open |-> TRUE, queue |-> <<>>,
            busy |-> "no", hung |-> FALSE, results |-> 0, thread |-> "alive"]

TypeOK ==
    /\ \A l \in Lane :
         /\ lane[l].life \in Lives /\ lane[l].saw \in Lives
         /\ {lane[l].open, lane[l].hung} \subseteq BOOLEAN
         /\ lane[l].busy \in Request \cup {"no"}
         /\ lane[l].queue \in Seq(Request) /\ Len(lane[l].queue) <= Capacity
         /\ lane[l].results \in 0..Capacity
         /\ lane[l].thread \in {"alive", "leaving", "gone"}
    /\ pending \in [Lane -> Nat]
    /\ phase \in {"loop", "stop", "restore", "control", "release", "join", "report", "over"}
    /\ at \in 1..Len(Order) + 1
    /\ wants \subseteq {"quit", "signal", "stall", "restart"}
    /\ ran \in {"none", "ok", "error"}
    /\ deadline \in {"none", "set", "over"}
    /\ control \in {"open", "closing", "quiet", "gone"}
    /\ {cancelled, modes, leases} \subseteq BOOLEAN
    /\ failures \subseteq Stages
    /\ outcome \in {"none", "ok", "error", "replaced"}

(* spawn_lanes and the rest of run() up to the loop                        *)
Init ==
    /\ lane = [l \in Lane |-> NewLane]
    /\ pending = [l \in Lane |-> 0]
    /\ phase = "loop" /\ at = 1 /\ wants = {} /\ ran = "none"
    /\ deadline = "none" /\ cancelled = FALSE /\ control = "open"
    /\ modes = TRUE /\ leases = TRUE /\ failures = {} /\ outcome = "none"
    /\ sends = 0 /\ faults = 0

runner == <<phase, at, wants, ran, deadline, cancelled, control, modes, leases,
            failures, outcome>>

----------------------------------------------------------------------------
(* The workers.                                                            *)

Serve(l) ==
    /\ lane[l].thread = "alive" /\ lane[l].busy = "no" /\ lane[l].queue # <<>>
    /\ lane' = [lane EXCEPT ![l].busy = Head(lane[l].queue), ![l].queue = Tail(@)]
    /\ UNCHANGED <<pending, sends, faults, runner>>

(* The lane struct, and the result receiver in it, is gone once its stop() *)
(* returned                                                                *)
Dropped(l) == phase \in {"report", "over"} \/ (phase = "join" /\ \E i \in 1..at - 1 : Order[i] = l)

(* A subprocess ends when the shared flag cancels it                       *)
Unblocked(l) == lane[l].hung => l \in Cancellable /\ cancelled

(* The worker sends its result, blocking while the channel is full; a      *)
(* dropped receiver makes it return                                        *)
Answer(l) ==
    /\ lane[l].thread = "alive" /\ lane[l].busy # "no"
    /\ Unblocked(l)
    /\ \/ /\ lane[l].busy = "ask" /\ ~Dropped(l) /\ lane[l].results < Capacity
          /\ lane' = [lane EXCEPT ![l].busy = "no", ![l].hung = FALSE, ![l].results = @ + 1]
       \/ /\ lane[l].busy = "tell"
          /\ lane' = [lane EXCEPT ![l].busy = "no", ![l].hung = FALSE]
       \/ /\ lane[l].busy = "ask" /\ Dropped(l)
          /\ lane' = [lane EXCEPT ![l].busy = "no", ![l].thread = "leaving",
                                  ![l].saw = lane[l].life]
    /\ UNCHANGED <<pending, sends, faults, runner>>

(* WorkerLifecycle::run after the work: it loads the cell, then stores     *)
Leave(l) ==
    /\ lane[l].thread = "alive" /\ lane[l].busy = "no"
    /\ lane[l].queue = <<>> /\ ~lane[l].open
    /\ lane' = [lane EXCEPT ![l].thread = "leaving", ![l].saw = lane[l].life]
    /\ UNCHANGED <<pending, sends, faults, runner>>

StoreExit(l) ==
    /\ lane[l].thread = "leaving"
    /\ lane' = [lane EXCEPT ![l].thread = "gone",
                            ![l].life = IF lane[l].saw = "stopping" THEN "exited"
                                        ELSE "unexpected"]
    /\ UNCHANGED <<pending, sends, faults, runner>>

Panic(l) ==
    /\ faults < MaxFaults /\ lane[l].thread = "alive" /\ lane[l].busy # "no"
    /\ lane' = [lane EXCEPT ![l].thread = "gone", ![l].busy = "no", ![l].hung = FALSE,
                            ![l].life = "panicked"]
    /\ faults' = faults + 1
    /\ UNCHANGED <<pending, sends, runner>>

Hang(l) ==
    /\ faults < MaxFaults /\ lane[l].busy # "no" /\ ~lane[l].hung
    /\ lane' = [lane EXCEPT ![l].hung = TRUE]
    /\ faults' = faults + 1
    /\ UNCHANGED <<pending, sends, runner>>

ControlQuiet ==
    /\ control = "closing" /\ control' = "quiet"
    /\ UNCHANGED <<lane, pending, phase, at, wants, ran, deadline, cancelled, modes, leases,
                   failures, outcome, sends, faults>>

----------------------------------------------------------------------------
(* The loop (drive::run).                                                  *)

(* run_result is known: the pane metadata is cleared through the external  *)
(* lane if its channel has room, then the cleanup begins                   *)
ClearPane(ls) ==
    IF ls[Herdr].open /\ Len(ls[Herdr].queue) < Capacity /\ ls[Herdr].thread = "alive"
    THEN [ls EXCEPT ![Herdr].queue = Append(@, "tell")] ELSE ls

EndLoop(result) ==
    /\ phase' = "stop" /\ at' = 1 /\ ran' = result
    /\ lane' = ClearPane(lane)

HasRoom(l) == lane[l].thread # "gone" /\ Len(lane[l].queue) < Capacity

(* enqueue_effects: a request is sent and counted; a lane that is full or  *)
(* whose worker is gone ends the loop with an error                        *)
Send(l) ==
    /\ phase = "loop" /\ sends < MaxSends
    /\ sends' = sends + 1
    /\ \/ /\ HasRoom(l)
          /\ lane' = [lane EXCEPT ![l].queue = Append(@, "ask")]
          /\ pending' = [pending EXCEPT ![l] = @ + 1]
          /\ UNCHANGED <<phase, at, ran>>
       \/ /\ ~HasRoom(l)
          /\ EndLoop("error") /\ UNCHANGED pending
    /\ UNCHANGED <<wants, deadline, cancelled, control, modes, leases, failures, outcome, faults>>

(* One result of a lane is applied                                         *)
Drain(l) ==
    /\ phase = "loop" /\ lane[l].results > 0
    /\ lane' = [lane EXCEPT ![l].results = @ - 1]
    /\ pending' = [pending EXCEPT ![l] = @ - 1]
    /\ UNCHANGED <<sends, faults, runner>>

Disconnected(l) == lane[l].results = 0 /\ lane[l].thread = "gone"

StoppedCleanly(l) == lane[l].life \in {"stopping", "exited"}

(* A disconnected result channel of a lane nobody stopped is an error      *)
DrainDisconnected(l) ==
    /\ phase = "loop" /\ Disconnected(l) /\ ~StoppedCleanly(l)
    /\ EndLoop("error")
    /\ UNCHANGED <<pending, wants, deadline, cancelled, control, modes, leases, failures,
                   outcome, sends, faults>>

Quit ==
    /\ phase = "loop" /\ wants = {}
    /\ wants' = {"quit"}
    /\ UNCHANGED <<lane, pending, phase, at, ran, deadline, cancelled, control, modes, leases,
                   failures, outcome, sends, faults>>

(* An accepted update restart quits too, and names the version to start    *)
AcceptRestart ==
    /\ phase = "loop" /\ wants = {}
    /\ wants' = {"quit", "restart"}
    /\ UNCHANGED <<lane, pending, phase, at, ran, deadline, cancelled, control, modes, leases,
                   failures, outcome, sends, faults>>

(* admit_requested and begin_recovery_shutdown: the deadline starts, every *)
(* lane is cancelled and control closes at once                            *)
Admit(why) ==
    /\ phase = "loop" /\ wants \cap {"signal", "stall"} = {}
    /\ wants' = wants \cup {why}
    /\ deadline' = IF deadline = "none" THEN "set" ELSE deadline
    /\ cancelled' = TRUE
    /\ control' = IF control = "open" THEN "closing" ELSE control
    /\ UNCHANGED <<lane, pending, phase, at, ran, modes, leases, failures, outcome, sends, faults>>

(* Mutated form: every shutdown cancels, an update restart's too           *)
CancelsAlways == TRUE

Cancels == "stall" \in wants \/ "restart" \notin wants

Ready == control = "quiet" /\ \A l \in Lane : pending[l] = 0

(* One pass of shutdown_ready; a termination may end the loop with an      *)
(* error although everything is drained, when a save had failed            *)
ShutdownReady ==
    /\ phase = "loop" /\ wants # {}
    /\ deadline' = IF deadline = "none" THEN "set" ELSE deadline
    /\ cancelled' = (cancelled \/ Cancels)
    /\ control' = IF control = "open" THEN "closing" ELSE control
    /\ \/ Ready /\ EndLoop("ok")
       \/ Ready /\ "signal" \in wants /\ EndLoop("error")
       \/ ~Ready /\ deadline = "over" /\ EndLoop("error")
       \/ ~Ready /\ deadline # "over" /\ UNCHANGED <<lane, phase, at, ran>>
    /\ UNCHANGED <<pending, wants, modes, leases, failures, outcome, sends, faults>>

DeadlineExpires ==
    /\ deadline = "set" /\ deadline' = "over"
    /\ UNCHANGED <<lane, pending, phase, at, wants, ran, cancelled, control, modes, leases,
                   failures, outcome, sends, faults>>

----------------------------------------------------------------------------
(* The cleanup (run() after the loop).                                     *)

(* Mutated form: the channel is closed before the lifecycle knows why      *)
RequestStopLate(l) ==
    \/ lane[l].open /\ lane' = [lane EXCEPT ![l].open = FALSE]
    \/ ~lane[l].open /\ lane[l].life = "running"
       /\ lane' = [lane EXCEPT ![l].life = "stopping"]

(* request_stop of one lane: the cell leaves RUNNING only, then the sender *)
(* is dropped                                                              *)
RequestStop(l) ==
    \/ lane[l].life = "running" /\ lane' = [lane EXCEPT ![l].life = "stopping"]
    \/ lane[l].life # "running" /\ lane[l].open
       /\ lane' = [lane EXCEPT ![l].open = FALSE]

StopRequested(l) == lane[l].life # "running" /\ ~lane[l].open

(* begin_shutdown cancels and then stops every lane before any is joined;  *)
(* shutdown.request() starts the deadline if nothing did before            *)
BeginShutdown ==
    /\ phase = "stop"
    /\ cancelled' = TRUE
    /\ control' = IF control = "open" THEN "closing" ELSE control
    /\ \/ /\ at <= Len(Order) /\ ~StopRequested(Order[at]) /\ RequestStop(Order[at])
          /\ UNCHANGED <<phase, at, deadline>>
       \/ /\ at <= Len(Order) /\ StopRequested(Order[at])
          /\ at' = at + 1 /\ UNCHANGED <<lane, phase, deadline>>
       \/ /\ at > Len(Order)
          /\ phase' = "restore" /\ at' = 1 /\ UNCHANGED lane
          /\ deadline' = IF deadline = "none" THEN "set" ELSE deadline
    /\ UNCHANGED <<pending, wants, ran, modes, leases, failures, outcome, sends, faults>>

(* guard.finish(): the terminal is restored, or that stage failed          *)
Restore ==
    /\ phase = "restore" /\ phase' = "control"
    /\ \/ modes' = FALSE /\ UNCHANGED <<failures, faults>>
       \/ /\ faults < MaxFaults /\ faults' = faults + 1
          /\ failures' = failures \cup {"terminal"} /\ UNCHANGED modes
    /\ UNCHANGED <<lane, pending, at, wants, ran, deadline, cancelled, control, leases, outcome, sends>>

StopControl ==
    /\ phase = "control" /\ phase' = "release"
    /\ \/ control = "quiet" /\ control' = "gone" /\ UNCHANGED failures
       \/ control # "quiet" /\ deadline = "over"
          /\ failures' = failures \cup {"control"} /\ UNCHANGED control
    /\ UNCHANGED <<lane, pending, at, wants, ran, deadline, cancelled, modes, leases, outcome,
                   sends, faults>>

(* Mutated form: an input stall's shutdown releases them as any other does *)
ReleasesEarlyAlways == TRUE

ReleasesEarly == "stall" \notin wants

ReleaseLeases ==
    /\ phase = "release" /\ phase' = "join"
    /\ leases' = IF ReleasesEarly THEN FALSE ELSE leases
    /\ UNCHANGED <<lane, pending, at, wants, ran, deadline, cancelled, control, modes, failures,
                   outcome, sends, faults>>

(* Mutated form: a worker that outlives the deadline is not a failure      *)
JoinFailedNever == {}

(* join_before: the worker has finished, or its stage fails                *)
JoinFailed == IF lane[Order[at]].thread = "gone" THEN {} ELSE {Order[at]}

(* Mutated form: the worker is waited for whatever the deadline says       *)
StopLanePatient ==
    /\ phase = "join" /\ at <= Len(Order)
    /\ \/ /\ lane[Order[at]].results > 0
          /\ lane' = [lane EXCEPT ![Order[at]].results = @ - 1]
          /\ UNCHANGED <<at, failures>>
       \/ /\ Disconnected(Order[at])
          /\ failures' = failures \cup JoinFailed
          /\ at' = at + 1 /\ UNCHANGED lane
    /\ UNCHANGED <<pending, phase, wants, ran, deadline, cancelled, control, modes, leases,
                   outcome, sends, faults>>

(* A lane's stop(): results are discarded until the channel disconnects or *)
(* the deadline passes                                                     *)
StopLane ==
    /\ phase = "join" /\ at <= Len(Order)
    /\ \/ /\ lane[Order[at]].results > 0 /\ deadline # "over"
          /\ lane' = [lane EXCEPT ![Order[at]].results = @ - 1]
          /\ UNCHANGED <<at, failures>>
       \/ /\ deadline = "over" \/ Disconnected(Order[at])
          /\ failures' = failures \cup JoinFailed
          /\ at' = at + 1 /\ UNCHANGED lane
    /\ UNCHANGED <<pending, phase, wants, ran, deadline, cancelled, control, modes, leases,
                   outcome, sends, faults>>

(* The loop's own error is reported with the cleanup failures              *)
Reported == failures \cup (IF ran = "error" THEN {"runtime"} ELSE {})

WorkersStopped ==
    /\ phase = "join" /\ at > Len(Order) /\ phase' = "report"
    /\ failures' = Reported
    /\ UNCHANGED <<lane, pending, at, wants, ran, deadline, cancelled, control, modes, leases,
                   outcome, sends, faults>>

(* The executable is verified again and takes the process over, or run()   *)
(* returns an error                                                        *)
Replacement == {"replaced", "error"}

(* finish::runtime and what run() does with its result: any failure is     *)
(* returned; else the leases go and an update restart or a recovery        *)
(* replaces the process, which may fail                                    *)
FinishRuntime ==
    /\ phase = "report" /\ phase' = "over"
    /\ leases' = FALSE
    /\ \/ failures # {} /\ outcome' = "error"
       \/ failures = {} /\ wants \cap {"restart", "stall"} = {} /\ outcome' = "ok"
       \/ /\ failures = {} /\ wants \cap {"restart", "stall"} # {}
          /\ outcome' \in Replacement
    /\ UNCHANGED <<lane, pending, at, wants, ran, deadline, cancelled, control, modes, failures,
                   sends, faults>>

----------------------------------------------------------------------------
Cleanup == BeginShutdown \/ Restore \/ StopControl \/ ReleaseLeases \/ StopLane
           \/ WorkersStopped \/ FinishRuntime

Next ==
    \/ \E l \in Lane : Serve(l) \/ Answer(l) \/ Leave(l) \/ StoreExit(l) \/ Panic(l) \/ Hang(l)
    \/ \E l \in Lane : Send(l) \/ Drain(l) \/ DrainDisconnected(l)
    \/ ControlQuiet \/ Quit \/ AcceptRestart \/ DeadlineExpires
    \/ Admit("signal") \/ Admit("stall")
    \/ ShutdownReady
    \/ Cleanup

(* The runner's thread and the clock go on                                 *)
Fairness ==
    /\ WF_vars(Cleanup) /\ WF_vars(ShutdownReady) /\ WF_vars(DeadlineExpires)
    /\ \A i \in DOMAIN Order : WF_vars(Drain(Order[i]) \/ DrainDisconnected(Order[i]))

Spec == Init /\ [][Next]_vars /\ Fairness

----------------------------------------------------------------------------
AllGone == \A l \in Lane : lane[l].thread = "gone"

(* A worker that ended because its lane was stopped is never recorded as   *)
(* an unexpected exit: the lifecycle says STOPPING before the channel      *)
(* closes.                                                                 *)
StopIsNoAlarm == \A l \in Lane : lane[l].life # "unexpected"

(* A loop that ended well releases the session with nothing left for the   *)
(* persistence worker to write under it.                                   *)
ReleasedWhenSettled ==
    ~leases /\ ran = "ok" => lane[Saver].queue = <<>> /\ lane[Saver].busy # "ask"

(* The shutdown after an input stall keeps the leases until every worker   *)
(* has stopped or the failed cleanup is returned.                          *)
StallKeepsLeases ==
    "stall" \in wants /\ ~leases => AllGone \/ outcome = "error"

(* The process is replaced only after every worker has stopped, the        *)
(* control server is gone and the terminal is restored.                    *)
ReplacedAfterCleanup ==
    outcome = "replaced" => AllGone /\ control = "gone" /\ ~modes /\ ~leases

(* An accepted update restart that nothing else interrupts cancels no      *)
(* worker while a request is still owed: the coordinator's lane can take   *)
(* its receipt.                                                            *)
RestartFinishesWork ==
    phase = "loop" /\ wants = {"quit", "restart"} => ~cancelled

(* Whatever a worker does, a shutdown that began ends, and a dead worker   *)
(* ends the loop.                                                          *)
ShutdownEnds ==
    /\ wants # {} ~> phase = "over"
    /\ (\E i \in DOMAIN Order : lane[Order[i]].life = "panicked") ~> phase # "loop"

\* The lanes at shutdown (adapters/terminal/runner): what is released, replaced and reported, and
\* when.
LanesSafe == TypeOK /\ StopIsNoAlarm /\ ReleasedWhenSettled /\ StallKeepsLeases /\ ReplacedAfterCleanup /\ RestartFinishesWork
=============================================================================

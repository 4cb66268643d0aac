----------------------------- MODULE CaptureLane -----------------------------
(***************************************************************************)
(* Screenshot Inbox across processes: the installation-wide capture lease, *)
(* the screenshot worker of each process that acquires it and watches, the *)
(* owner loop that keeps the lease and releases it once capture has        *)
(* drained, and the takeover another process may ask for.                  *)
(***************************************************************************)
EXTENDS Naturals, Sequences, FiniteSets

CONSTANTS Procs,
          MaxRequests,   \* bound on requests to the screenshot lanes
          MaxFaults      \* bound on watcher failures, lost answers and crashes

VARIABLES
    inbox,      \* process -> ScreenshotState
    pause,      \* process -> a pause is waiting for the lease to be released
    save,       \* process -> the commit-first save of one candidate
    dialog,     \* process -> the owner its takeover dialog names
    runtime,    \* process -> CaptureRuntime
    phase,      \* process -> the part of its owner loop that runs next
    requests,   \* process -> the queue of its screenshot lane
    worker,     \* process -> what its worker waits for
    watching,   \* process -> a watcher is open
    results,    \* process -> the results its owner has not drained
    holder,     \* the processes holding the operating-system lock (at most one)
    asked,      \* process -> the takeover request waiting at its control server
    budget,     \* requests left
    faults

vars == <<inbox, pause, save, dialog, runtime, phase, requests, worker, watching, results, holder,
          asked, budget, faults>>
owner == <<inbox, pause, save, dialog, runtime, phase>>
lane == <<requests, worker, watching, results, holder>>

None == "none"
NoRuntime == [lease |-> FALSE, draining |-> FALSE, stopping |-> FALSE, delivery |-> None]
Result(k, drain, who) == [kind |-> k, drain |-> drain, who |-> who]

Init ==
    /\ inbox = [p \in Procs |-> "off"]
    /\ pause = [p \in Procs |-> FALSE]
    /\ save = [p \in Procs |-> None]
    /\ dialog = [p \in Procs |-> None]
    /\ runtime = [p \in Procs |-> NoRuntime]
    /\ phase = [p \in Procs |-> "input"]
    /\ requests = [p \in Procs |-> <<>>]
    /\ worker = [p \in Procs |-> "idle"]
    /\ watching = [p \in Procs |-> FALSE]
    /\ results = [p \in Procs |-> <<>>]
    /\ holder = {}
    /\ asked = [p \in Procs |-> None]
    /\ budget = MaxRequests
    /\ faults = MaxFaults

Fault == faults > 0 /\ faults' = faults - 1
Alive(p) == phase[p] # "dead"
Set(f, p, v) == f' = [f EXCEPT ![p] = v]

\* ScreenshotLane::send
Request(p, r) ==
    /\ budget > 0
    /\ budget' = budget - 1
    /\ requests' = [requests EXCEPT ![p] = Append(@, r)]

NoRequest == UNCHANGED <<budget, requests>>
AskDisable(p) == Request(p, [kind |-> "disable", who |-> None])

-----------------------------------------------------------------------------
(* Inputs of the owner                                                     *)

\* toggle_screenshot_inbox
Toggle(p) ==
    /\ phase[p] = "input"
    /\ Set(phase, p, "drain")
    /\ \/ /\ inbox[p] \in {"off", "paused"}
          /\ Set(inbox, p, "starting")
          /\ Set(pause, p, FALSE)
          /\ Request(p, [kind |-> "enable", who |-> None])
       \/ /\ inbox[p] \in {"starting", "listening"}
          /\ Set(inbox, p, "stopping")
          /\ AskDisable(p)
          /\ UNCHANGED pause
    /\ UNCHANGED <<save, dialog, runtime, worker, watching, results, holder, asked, faults>>

\* request_screenshot_auto_pause: nobody at the keyboard, or too many captures
AutoPause(p) ==
    /\ phase[p] = "input"
    /\ inbox[p] = "listening"
    /\ Set(inbox, p, "stopping")
    /\ Set(pause, p, TRUE)
    /\ AskDisable(p)
    /\ UNCHANGED <<save, dialog, runtime, phase, worker, watching, results, holder, asked, faults>>

\* choose_screenshot_takeover, or Escape
ChooseTakeover(p) ==
    /\ phase[p] = "input"
    /\ dialog[p] # None
    /\ Set(dialog, p, None)
    /\ Set(phase, p, "drain")
    /\ \/ Set(inbox, p, "starting") /\ Request(p, [kind |-> "takeover", who |-> dialog[p]])
       \/ UNCHANGED inbox /\ NoRequest
    /\ UNCHANGED <<pause, save, runtime, worker, watching, results, holder, asked, faults>>

\* complete_screenshot_capture; a failure stops the inbox and keeps the candidate
CompleteSave(p) ==
    /\ phase[p] = "drain"
    /\ save[p] = "in_flight"
    /\ \/ Set(save, p, None) /\ UNCHANGED <<inbox, faults>> /\ NoRequest
       \/ /\ Set(save, p, "ready")
          /\ Fault
          /\ IF inbox[p] \in {"starting", "listening"}
             THEN Set(inbox, p, "stopping") /\ AskDisable(p)
             ELSE UNCHANGED inbox /\ NoRequest
    /\ UNCHANGED <<pause, dialog, runtime, phase, worker, watching, results, holder, asked>>

-----------------------------------------------------------------------------
(* Takeover, at the process that owns the capture                          *)

\* queue: rejected unless this process owns the capture and is not already
\* giving it up; else scheduled, to begin once the answer is delivered.
QueueTakeover(p) ==
    /\ phase[p] = "drain"
    /\ asked[p] # None
    /\ Set(asked, p, None)
    /\ LET r == asked[p]
           refused == ~runtime[p].lease \/ runtime[p].delivery # None \/ runtime[p].stopping
                      \/ runtime[p].draining
       IN  IF refused
           THEN /\ worker' = [worker EXCEPT ![r] = IF @ = "ask" THEN "refused" ELSE @]
                /\ UNCHANGED runtime
           ELSE /\ runtime' = [runtime EXCEPT ![p].delivery = r]
                /\ IF worker[r] = "ask" THEN Set(worker, r, "await") ELSE UNCHANGED worker
    /\ UNCHANGED <<inbox, pause, save, dialog, phase, requests, watching, results, holder, budget, faults>>

\* complete: only a delivered answer stops the watcher.  The inbox itself
\* still says that it is listening.
CompleteTakeover(p) ==
    /\ phase[p] = "drain"
    /\ runtime[p].delivery # None
    /\ \/ /\ AskDisable(p)
          /\ runtime' = [runtime EXCEPT ![p].delivery = None, ![p].stopping = TRUE]
          /\ UNCHANGED faults
       \/ Fault /\ runtime' = [runtime EXCEPT ![p].delivery = None] /\ NoRequest
    /\ UNCHANGED <<inbox, pause, save, dialog, phase, worker, watching, results, holder, asked>>

-----------------------------------------------------------------------------
(* apply_result                                                            *)

Started(p) ==
    /\ runtime' = [runtime EXCEPT ![p].lease = TRUE, ![p].stopping = FALSE]
    /\ Set(inbox, p, "listening")
    /\ Set(dialog, p, None)
    /\ Set(pause, p, FALSE)
    /\ UNCHANGED save

\* queue_screenshot_candidates and, when the board is durable, the save
Candidates(p) ==
    /\ IF inbox[p] \in {"listening", "stopping", "releasing"} /\ save[p] = None
       THEN Set(save, p, "in_flight") ELSE UNCHANGED save
    /\ UNCHANGED <<inbox, pause, dialog, runtime>>

\* screenshot_failed
Failed(p) ==
    /\ Set(dialog, p, None)
    /\ Set(pause, p, FALSE)
    /\ Set(inbox, p, IF pause[p] \/ inbox[p] = "paused" THEN "paused" ELSE "off")
    /\ UNCHANGED save

Conflict(p, who) ==
    IF who = None THEN Failed(p) /\ UNCHANGED runtime
    ELSE Set(inbox, p, "off") /\ Set(dialog, p, who) /\ UNCHANGED <<pause, save, runtime>>

\* screenshot_stopping_completed: the lease goes once capture has drained.
Stopped(p) ==
    /\ runtime' = [runtime EXCEPT ![p].draining = TRUE]
    /\ Set(inbox, p, IF inbox[p] = "paused" THEN "paused" ELSE "releasing")
    /\ UNCHANGED <<pause, save, dialog>>

\* screenshot_release_failed, or a failure that drops the lease at once
FailedResult(p, drain) ==
    IF drain
    THEN /\ runtime' = [runtime EXCEPT ![p].draining = TRUE]
         /\ Set(inbox, p, "releasing")
         /\ Set(dialog, p, None)
         /\ UNCHANGED <<pause, save, holder>>
    ELSE /\ runtime' = [runtime EXCEPT ![p].draining = FALSE, ![p].lease = FALSE]
         /\ Failed(p)
         /\ holder' = IF runtime[p].lease THEN holder \ {p} ELSE holder

ApplyResult(p) ==
    /\ phase[p] = "drain"
    /\ results[p] # <<>>
    /\ Set(results, p, Tail(results[p]))
    /\ LET r == Head(results[p])
       IN  \/ r.kind = "started" /\ Started(p) /\ UNCHANGED holder
           \/ r.kind = "candidates" /\ Candidates(p) /\ UNCHANGED holder
           \/ r.kind = "conflict" /\ Conflict(p, r.who) /\ UNCHANGED holder
           \/ r.kind = "stopped" /\ Stopped(p) /\ UNCHANGED holder
           \/ r.kind = "failed" /\ FailedResult(p, r.drain)
    /\ UNCHANGED <<phase, requests, worker, watching, asked, budget, faults>>

\* screenshot_authority_released, once release_if_drained dropped the lease
ReleaseLease(p) ==
    /\ holder' = IF runtime[p].lease THEN holder \ {p} ELSE holder
    /\ runtime' = [runtime EXCEPT ![p].lease = FALSE, ![p].draining = FALSE, ![p].stopping = FALSE]
    /\ IF inbox[p] = "paused" THEN UNCHANGED <<inbox, pause, dialog>>
       ELSE /\ Set(inbox, p, IF pause[p] THEN "paused" ELSE "off")
            /\ Set(pause, p, FALSE)
            /\ Set(dialog, p, None)

\* settle_pending_state: the lease goes when the drained inbox has no save in
\* flight, or when the teardown deadline passes first.
Settle(p) ==
    /\ phase[p] = "drain"
    /\ Set(phase, p, "input")
    /\ \/ runtime[p].draining /\ save[p] # "in_flight" /\ ReleaseLease(p) /\ UNCHANGED faults
       \/ runtime[p].draining /\ save[p] = "in_flight" /\ Fault /\ ReleaseLease(p)
       \/ /\ ~runtime[p].draining \/ save[p] = "in_flight"
          /\ UNCHANGED <<holder, runtime, inbox, pause, dialog, faults>>
    /\ UNCHANGED <<save, requests, worker, watching, results, asked, budget>>

\* The next turn of the owner loop
Wake(p) ==
    /\ phase[p] = "input"
    /\ results[p] # <<>> \/ asked[p] # None \/ save[p] = "in_flight" \/ runtime[p].delivery # None
    /\ Set(phase, p, "drain")
    /\ UNCHANGED <<inbox, pause, save, dialog, runtime, lane, asked, budget, faults>>

-----------------------------------------------------------------------------
(* The screenshot worker                                                   *)

Publish(p, r) == results' = [results EXCEPT ![p] = Append(@, r)]
Take(p) == requests' = [requests EXCEPT ![p] = Tail(@)]
Next0(p, kind) == Alive(p) /\ worker[p] = "idle" /\ requests[p] # <<>> /\ Head(requests[p]).kind = kind

\* Mutated form: the lock is not asked for.
AcquireUnlocked(p) == TRUE

\* acquire_capture: the lock, stale metadata removed, own metadata written
Acquire(p) == holder = {}

\* start_owned: the watcher opens, or the lease is dropped again
StartOwned(p) ==
    \/ /\ holder' = holder \cup {p}
       /\ Set(watching, p, TRUE)
       /\ Publish(p, Result("started", FALSE, None))
       /\ UNCHANGED faults
    \/ /\ Fault
       /\ Publish(p, Result("failed", FALSE, None))
       /\ UNCHANGED <<holder, watching>>

\* A second Enable finds a watcher and says nothing.
Enable(p) ==
    /\ Next0(p, "enable")
    /\ Take(p)
    /\ IF watching[p] THEN UNCHANGED <<watching, results, holder, faults>>
       ELSE IF Acquire(p) THEN StartOwned(p)
       ELSE /\ \E who \in holder \cup {None} : Publish(p, Result("conflict", FALSE, who))
            /\ UNCHANGED <<watching, holder, faults>>
    /\ UNCHANGED <<owner, worker, asked, budget>>

\* final_reconcile closes the watcher either way.
Disable(p) ==
    /\ Next0(p, "disable")
    /\ Take(p)
    /\ Set(watching, p, FALSE)
    /\ \/ Publish(p, Result("stopped", FALSE, None)) /\ UNCHANGED faults
       \/ watching[p] /\ Fault /\ Publish(p, Result("failed", TRUE, None))
    /\ UNCHANGED <<owner, worker, holder, asked, budget>>

\* request_capture_takeover: an owner that is gone cannot answer.
TakeOver(p) ==
    /\ Next0(p, "takeover")
    /\ Take(p)
    /\ LET who == Head(requests[p]).who
       IN  IF Alive(who) /\ asked[who] = None /\ who # p
           THEN Set(asked, who, p) /\ Set(worker, p, "ask") /\ UNCHANGED results
           ELSE Publish(p, Result("failed", FALSE, None)) /\ UNCHANGED <<asked, worker>>
    /\ UNCHANGED <<owner, watching, holder, budget, faults>>

\* Refused, or no answer in time; a request may still be waiting there.
TakeOverFails(p) ==
    /\ Alive(p)
    /\ \/ worker[p] = "refused" /\ UNCHANGED faults
       \/ worker[p] \in {"ask", "await"} /\ Fault
    /\ Set(worker, p, "idle")
    /\ Publish(p, Result("failed", FALSE, None))
    /\ UNCHANGED <<owner, requests, watching, holder, asked, budget>>

\* await_released_capture
TakeOverAcquires(p) ==
    /\ Alive(p)
    /\ worker[p] = "await"
    /\ Acquire(p)
    /\ StartOwned(p)
    /\ Set(worker, p, "idle")
    /\ UNCHANGED <<owner, requests, asked, budget>>

\* poll_watcher
Poll(p) ==
    /\ Alive(p)
    /\ watching[p] /\ worker[p] = "idle"
    /\ Len(results[p]) < 2
    /\ \/ Publish(p, Result("candidates", FALSE, None)) /\ UNCHANGED <<watching, faults>>
       \/ Fault /\ Set(watching, p, FALSE) /\ Publish(p, Result("failed", FALSE, None))
    /\ UNCHANGED <<owner, requests, worker, holder, asked, budget>>

\* The process dies; the system releases its lock.
Crash(p) ==
    /\ Alive(p)
    /\ Fault
    /\ Set(phase, p, "dead")
    /\ Set(watching, p, FALSE)
    /\ holder' = holder \ {p}
    /\ UNCHANGED <<inbox, pause, save, dialog, runtime, requests, worker, results, asked, budget>>

Next ==
    \E p \in Procs :
        \/ Toggle(p) \/ AutoPause(p) \/ ChooseTakeover(p) \/ CompleteSave(p)
        \/ QueueTakeover(p) \/ CompleteTakeover(p) \/ ApplyResult(p) \/ Settle(p) \/ Wake(p)
        \/ Enable(p) \/ Disable(p) \/ TakeOver(p) \/ TakeOverFails(p) \/ TakeOverAcquires(p)
        \/ Poll(p) \/ Crash(p)

Spec == Init /\ [][Next]_vars

-----------------------------------------------------------------------------
TypeOK ==
    /\ inbox \in [Procs -> {"off", "starting", "listening", "stopping", "releasing", "paused"}]
    /\ save \in [Procs -> {None, "in_flight", "ready"}]
    /\ dialog \in [Procs -> Procs \cup {None}]
    /\ phase \in [Procs -> {"input", "drain", "dead"}]
    /\ worker \in [Procs -> {"idle", "ask", "await", "refused"}]
    /\ watching \in [Procs -> BOOLEAN]
    /\ holder \subseteq Procs

\* A lease is never handed to an owner that still has one ("screenshot lane
\* returned overlapping capture leases" ends the program), nor to two.
StartedResults(p) == {i \in DOMAIN results[p] : results[p][i].kind = "started"}
LeasesNeverOverlap ==
    /\ \A p, q \in holder : p = q
    /\ \A p \in Procs : Alive(p) =>
          /\ \A i, j \in StartedResults(p) : i = j
          /\ runtime[p].lease => StartedResults(p) = {}
          /\ p \in holder <=> (runtime[p].lease \/ StartedResults(p) # {})

\* The capture lane (adapters/runtime/capture, screenshot_lane): two processes never hold the
\* lease together.
CaptureLaneSafe == TypeOK /\ LeasesNeverOverlap
=============================================================================

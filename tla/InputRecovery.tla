--------------------------- MODULE InputRecovery ---------------------------
(***************************************************************************)
(* Automatic replacement of a process whose terminal input stalled.        *)
(*                                                                         *)
(* The process drains, releases its session, writes a recovery record and  *)
(* replaces itself by exec; the replacement proves by the record and the   *)
(* identities passed in its environment that it continues that very        *)
(* process, and is on probation until its input is seen to work            *)
(* (adapters/runtime/input_recovery, runner/continuity, runner/drive).     *)
(* The record is written after the session lease is given up, so another   *)
(* process may open the session in between.                                *)
(***************************************************************************)
EXTENDS Integers, Sequences

CONSTANTS Procs,         \* processes (pids) that open the session
          Window,        \* RECOVERY_WINDOW_MS, in ticks
          MaxRecoveries, \* MAX_RECOVERIES_IN_WINDOW
          MaxTime, MaxStalls, MaxFaults, MaxInstalls

VARIABLES proc,       \* per process: pc, stage, admission, record, proof, exe
          lease,      \* holder of the session lease
          file,       \* the recovery record on disk
          installed,  \* identity of the executable on disk
          now, stalls, faults,
          begun       \* per process: times of its automatic recoveries since it
                      \* was last started by hand (history)

vars == <<proc, lease, file, installed, now, stalls, faults, begun>>

None == "none"
NoRecord == [lineage |-> 0, pid |-> None, exe |-> 0, attempts |-> <<>>, phase |-> None,
             attempt |-> 0, ui |-> FALSE]
NoProof == [lineage |-> 0, attempt |-> 0, pid |-> None]
Off == [pc |-> "off", stage |-> "healthy", disabled |-> FALSE, record |-> NoRecord,
        proof |-> NoProof, exe |-> 0]

Init ==
  /\ proc = [p \in Procs |-> Off]
  /\ lease = None /\ file = NoRecord /\ installed = 0
  /\ now = 0 /\ stalls = 0 /\ faults = 0
  /\ begun = [p \in Procs |-> <<>>]

Tick == now < MaxTime /\ now' = now + 1
        /\ UNCHANGED <<proc, lease, file, installed, stalls, faults, begun>>

Install == installed < MaxInstalls /\ installed' = installed + 1
           /\ UNCHANGED <<proc, lease, file, now, stalls, faults, begun>>

\* A write or a removal of the record fails.
Fault == faults < MaxFaults /\ faults' = faults + 1
NoFault == UNCHANGED faults

(***************************************************************************)
(* Starting.                                                               *)
(***************************************************************************)

\* open_ordinary: a start by hand, or after an update, retires the record it
\* finds and imports nothing of it.
OpenOrdinary(p) ==
  /\ proc[p].pc = "off" /\ lease = None
  /\ lease' = p
  /\ \/ file = NoRecord /\ NoFault /\ UNCHANGED file
        /\ proc' = [proc EXCEPT ![p] = [Off EXCEPT !.pc = "running", !.exe = installed]]
     \/ file # NoRecord /\ NoFault /\ file' = NoRecord
        /\ proc' = [proc EXCEPT ![p] = [Off EXCEPT !.pc = "running", !.exe = installed]]
     \/ file # NoRecord /\ Fault /\ UNCHANGED file
        /\ proc' = [proc EXCEPT ![p] = [Off EXCEPT !.pc = "running", !.exe = installed,
                                                   !.disabled = TRUE]]
  /\ begun' = [begun EXCEPT ![p] = <<>>]
  /\ UNCHANGED <<installed, now, stalls>>

\* The replacement opens the session like any process: it may find it taken.
ResumeBusy(p) ==
  /\ proc[p].pc = "exec" /\ lease # None
  /\ proc' = [proc EXCEPT ![p] = Off]
  /\ UNCHANGED <<lease, file, installed, now, stalls, faults, begun>>

\* open_probation: the record, the process and the executable must be exactly
\* the ones that were prepared.
\* Mutated form: the process that wrote the record is not compared.
ExactAnyProcess(p) ==
  /\ file.exe = installed
  /\ file.phase = "prepared"
Exact(p) ==
  /\ file.lineage = proc[p].proof.lineage
  /\ file.pid = proc[p].proof.pid /\ proc[p].proof.pid = p
  /\ file.exe = installed
  /\ file.phase = "prepared" /\ file.attempt = proc[p].proof.attempt
Probation == [file EXCEPT !.phase = "probation"]
OpenProbation(p) ==
  /\ proc[p].pc = "exec" /\ lease = None
  /\ \/ /\ Exact(p) /\ NoFault
        /\ file' = Probation /\ lease' = p
        /\ proc' = [proc EXCEPT ![p] = [Off EXCEPT !.pc = "running", !.stage = "probation",
                                                   !.exe = installed, !.record = Probation]]
     \/ /\ ~Exact(p) /\ NoFault
        /\ proc' = [proc EXCEPT ![p] = Off] /\ UNCHANGED <<file, lease>>
     \/ /\ Exact(p) /\ Fault
        /\ proc' = [proc EXCEPT ![p] = Off] /\ UNCHANGED <<file, lease>>
  /\ UNCHANGED <<installed, now, stalls, begun>>

\* restore_input_recovery_state: the checkpoint no longer fits the board.
RestoreFails(p) ==
  /\ proc[p].pc = "running" /\ proc[p].stage = "probation"
  /\ proc' = [proc EXCEPT ![p] = Off] /\ lease' = None
  /\ UNCHANGED <<file, installed, now, stalls, faults, begun>>

(***************************************************************************)
(* Running.                                                                *)
(***************************************************************************)

\* prove_healthy: enough polls completed.
Healthy(p) == [proc[p].record EXCEPT !.phase = "healthy", !.ui = FALSE]
ProveHealthy(p) ==
  /\ proc[p].pc = "running" /\ proc[p].stage = "probation"
  /\ \/ NoFault /\ file' = Healthy(p)
        /\ proc' = [proc EXCEPT ![p].stage = "healthy", ![p].record = Healthy(p)]
     \/ Fault /\ UNCHANGED file
        /\ proc' = [proc EXCEPT ![p].stage = "healthy", ![p].record = Healthy(p),
                                ![p].disabled = TRUE]
  /\ UNCHANGED <<lease, installed, now, stalls, begun>>

\* validate_current_record.
RecordIsCurrent(p) == file = proc[p].record
\* Attempts older than the window no longer count.
\* Mutated form: an attempt stops counting as soon as the clock moves on.
RetainedNow(p) == SelectSeq(proc[p].record.attempts, LAMBDA t : t = now)
\* They were recorded in the order of the clock, so the ones that stay are the last.
FirstRetained(attempts) ==
  CHOOSE i \in 1 .. Len(attempts) + 1 :
    /\ \A j \in 1 .. i - 1 : attempts[j] < now - Window
    /\ \A j \in i .. Len(attempts) : attempts[j] >= now - Window
Retained(p) ==
  LET attempts == proc[p].record.attempts
  IN  SubSeq(attempts, FirstRetained(attempts), Len(attempts))

\* confirm_stall.
Recovers(p) ==
  /\ proc[p].stage # "probation" /\ ~proc[p].disabled
  /\ RecordIsCurrent(p)
  /\ Len(Retained(p)) < MaxRecoveries
Prepared(p) ==
  [lineage |-> IF proc[p].record = NoRecord THEN stalls + 1 ELSE proc[p].record.lineage,
   pid |-> p, exe |-> proc[p].exe, attempts |-> Append(Retained(p), now),
   phase |-> "prepared", attempt |-> stalls + 1, ui |-> FALSE]
Stall(p) ==
  /\ proc[p].pc = "running" /\ stalls < MaxStalls
  /\ stalls' = stalls + 1
  /\ \/ /\ Recovers(p)
        /\ proc' = [proc EXCEPT ![p].pc = "draining", ![p].stage = "confirmed",
                                ![p].record = Prepared(p)]
        /\ begun' = [begun EXCEPT ![p] = Append(@, now)]
     \/ /\ ~Recovers(p)
        /\ proc' = [proc EXCEPT ![p].pc = "closing",
                                ![p].disabled = @ \/ (proc[p].stage # "probation"
                                                       /\ ~RecordIsCurrent(p))]
        /\ UNCHANGED begun
  /\ UNCHANGED <<lease, file, installed, now, faults>>

\* checkpoint_recovery and the shutdown after it: a modal surface, a failed save
\* or a worker that does not stop end the process instead.
Drain(p) ==
  /\ proc[p].pc = "draining"
  /\ lease' = None
  /\ \/ proc' = [proc EXCEPT ![p].pc = "released", ![p].record.ui = TRUE]
     \/ proc' = [proc EXCEPT ![p] = Off]
  /\ UNCHANGED <<file, installed, now, stalls, faults, begun>>

Close(p) ==
  /\ proc[p].pc = "closing"
  /\ proc' = [proc EXCEPT ![p] = Off] /\ lease' = None
  /\ UNCHANGED <<file, installed, now, stalls, faults, begun>>

\* prepare: the record is written without the session lease.
Prepare(p) ==
  /\ proc[p].pc = "released" /\ proc[p].record.ui
  /\ \/ /\ NoFault /\ file' = proc[p].record
        /\ proc' = [proc EXCEPT ![p].pc = "prepared"]
     \/ Fault /\ proc' = [proc EXCEPT ![p] = Off] /\ UNCHANGED file
  /\ UNCHANGED <<lease, installed, now, stalls, begun>>

\* replace_after_input_stall: only the executable the process started from.
Replace(p) ==
  /\ proc[p].pc = "prepared"
  /\ \/ /\ installed = proc[p].exe /\ NoFault
        /\ proc' = [proc EXCEPT ![p] =
             [Off EXCEPT !.pc = "exec", !.exe = installed,
                !.proof = [lineage |-> proc[p].record.lineage, pid |-> p,
                           attempt |-> proc[p].record.attempt]]]
     \/ installed # proc[p].exe /\ NoFault /\ proc' = [proc EXCEPT ![p] = Off]
     \/ Fault /\ proc' = [proc EXCEPT ![p] = Off]
  /\ UNCHANGED <<lease, file, installed, now, stalls, begun>>

\* The user quits, or the process dies at any point.
Leave(p) ==
  /\ proc[p].pc # "off"
  /\ proc' = [proc EXCEPT ![p] = Off]
  /\ lease' = IF lease = p THEN None ELSE lease
  /\ UNCHANGED <<file, installed, now, stalls, faults, begun>>

Step(p) ==
  \/ OpenOrdinary(p) \/ ResumeBusy(p) \/ OpenProbation(p) \/ RestoreFails(p)
  \/ ProveHealthy(p) \/ Stall(p) \/ Drain(p) \/ Close(p) \/ Prepare(p)
  \/ Replace(p) \/ Leave(p)
Next == Tick \/ Install \/ (\E p \in Procs : Step(p))
Spec == Init /\ [][Next]_vars

(***************************************************************************)
(* Properties.                                                             *)
(***************************************************************************)

TypeOK ==
  /\ \A p \in Procs :
       /\ proc[p].pc \in {"off", "exec", "running", "draining", "closing", "released", "prepared"}
       /\ proc[p].stage \in {"healthy", "probation", "confirmed"}
       /\ lease = p => proc[p].pc \in {"running", "draining", "closing"}
  /\ lease \in Procs \cup {None}
  /\ file.phase \in {None, "prepared", "probation", "healthy"}

\* Between two starts by hand a process never begins more than MaxRecoveries
\* automatic recoveries in one window, although every one of them replaced the
\* process that counted: the count travels through the record, past a late
\* writer, a failed write or another process that opened the session.
CircuitHolds ==
  \A p \in Procs : \A i \in DOMAIN begun[p] :
    i + MaxRecoveries \in DOMAIN begun[p] =>
      begun[p][i + MaxRecoveries] - begun[p][i] > Window

\* A replacement is admitted only as the continuation of its own process, running
\* the very executable that process had verified.
ContinuesItself ==
  \A p \in Procs :
    (proc[p].pc = "running" /\ proc[p].record # NoRecord) =>
      /\ proc[p].record.pid = p
      /\ proc[p].record.exe = proc[p].exe
      /\ begun[p] # <<>>

\* Recovery from an input stall (adapters/terminal/input_recovery): bounded restarts, and only of
\* the process that stalled.
InputRecoverySafe == TypeOK /\ CircuitHolds /\ ContinuesItself
=============================================================================

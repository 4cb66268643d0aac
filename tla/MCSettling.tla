----------------------------- MODULE MCSettling -----------------------------
(***************************************************************************)
(* What must come to an end: submissions to agents, the lanes at shutdown, *)
(* the input lane, and processes that make way for an update.  Each is     *)
(* followed on its own; scene says which.  The fairness is theirs.         *)
(***************************************************************************)
EXTENDS Integers, Sequences

CONSTANT Scenes    \* the components this run follows

\* One thought, two attempts at it, and a fault.
CONSTANTS SuThoughts, SuAttempts, SuMaxVersion, SuMaxFaults

ASSUME SubmissionAssumption ==
  /\ "none" \notin SuAttempts
  /\ SuMaxVersion \in Nat /\ SuMaxFaults \in Nat

\* A lane that must finish its work and one that is cancelled.
CONSTANTS LaOrder, LaSaver, LaHerdr, LaCancellable, LaCapacity, LaMaxSends, LaMaxFaults

ASSUME LanesAssumption ==
  /\ LaOrder \in Seq({LaOrder[i] : i \in DOMAIN LaOrder})
  /\ {LaSaver, LaHerdr} \subseteq {LaOrder[i] : i \in DOMAIN LaOrder} /\ LaSaver # LaHerdr
  /\ LaCapacity \in Nat /\ LaMaxSends \in Nat /\ LaMaxFaults \in Nat

\* Keys and resizes through queues of one.
CONSTANTS IlStallLimit, IlSourceCapacity, IlOutCapacity, IlMaxKeys, IlMaxResizes, IlMaxFaults

ASSUME InputAssumption ==
  /\ IlStallLimit \in Nat /\ IlSourceCapacity \in Nat /\ IlOutCapacity \in Nat
  /\ IlMaxKeys \in Nat /\ IlMaxResizes \in Nat /\ IlMaxFaults \in Nat

\* Two terminals and two versions, three launches, one operation and a fault.
CONSTANTS UcSlots, UcMaxVersion, UcMaxLaunches, UcMaxOps, UcMaxFaults

ASSUME ConvergenceAssumption == "none" \notin UcSlots /\ UcMaxVersion \in Nat \ {0}

VARIABLES
  scene,        \* the component that moves
  suBoard, suEdits, suChooser, suStage, suIntent, suReceipt, suLocked, suRows, suActive,
  suPrompted, suFaults,
  laLane, laPending, laPhase, laAt, laWants, laRan, laDeadline, laCancelled, laControl,
  laModes, laLeases, laFailures, laOutcome, laSends, laFaults,
  ilTty, ilReader, ilSource, ilSupervisor, ilResize, ilNumbered, ilSilent, ilGap, ilOut,
  ilStop, ilReceived, ilSize, ilFailure, ilTyped, ilResized, ilFaults,
  ucDisk, ucCache, ucConv, ucInstaller, ucProc, ucCo, ucLate, ucLaunches, ucOps, ucFaults


\* The lanes in the order they are stopped.
TwoLanes == <<"per", "ext">>

\* Submission, with the constants above.
S == INSTANCE Submission WITH
  Thoughts <- SuThoughts, Attempts <- SuAttempts,
  MaxVersion <- SuMaxVersion, MaxFaults <- SuMaxFaults, board <- suBoard, edits <- suEdits,
  chooser <- suChooser, stage <- suStage, intent <- suIntent, receipt <- suReceipt,
  locked <- suLocked, rows <- suRows, active <- suActive, prompted <- suPrompted,
  faults <- suFaults

\* Lanes, with the constants above.
L == INSTANCE Lanes WITH
  Order <- LaOrder, Saver <- LaSaver, Herdr <- LaHerdr,
  Cancellable <- LaCancellable, Capacity <- LaCapacity, MaxSends <- LaMaxSends,
  MaxFaults <- LaMaxFaults, lane <- laLane, pending <- laPending, phase <- laPhase, at <- laAt,
  wants <- laWants, ran <- laRan, deadline <- laDeadline, cancelled <- laCancelled,
  control <- laControl, modes <- laModes, leases <- laLeases, failures <- laFailures,
  outcome <- laOutcome, sends <- laSends, faults <- laFaults

\* InputLane, with the constants above.
I == INSTANCE InputLane WITH
  StallLimit <- IlStallLimit, SourceCapacity <- IlSourceCapacity,
  OutCapacity <- IlOutCapacity, MaxKeys <- IlMaxKeys, MaxResizes <- IlMaxResizes,
  MaxFaults <- IlMaxFaults, tty <- ilTty, reader <- ilReader, source <- ilSource,
  supervisor <- ilSupervisor, resize <- ilResize, numbered <- ilNumbered, silent <- ilSilent,
  gap <- ilGap, out <- ilOut, stop <- ilStop, received <- ilReceived, size <- ilSize,
  failure <- ilFailure, typed <- ilTyped, resized <- ilResized, faults <- ilFaults

\* UpdateConvergence, with the constants above.
U == INSTANCE UpdateConvergence WITH
  Slots <- UcSlots, MaxVersion <- UcMaxVersion, MaxLaunches <- UcMaxLaunches,
  MaxOps <- UcMaxOps, MaxFaults <- UcMaxFaults, disk <- ucDisk, cache <- ucCache, conv <- ucConv,
  installer <- ucInstaller, proc <- ucProc, co <- ucCo, late <- ucLate, launches <- ucLaunches,
  ops <- ucOps, faults <- ucFaults

suVars == <<suBoard, suEdits, suChooser, suStage, suIntent, suReceipt, suLocked, suRows,
            suActive, suPrompted, suFaults>>
laVars == <<laLane, laPending, laPhase, laAt, laWants, laRan, laDeadline, laCancelled,
            laControl, laModes, laLeases, laFailures, laOutcome, laSends, laFaults>>
ilVars == <<ilTty, ilReader, ilSource, ilSupervisor, ilResize, ilNumbered, ilSilent, ilGap,
            ilOut, ilStop, ilReceived, ilSize, ilFailure, ilTyped, ilResized, ilFaults>>
ucVars == <<ucDisk, ucCache, ucConv, ucInstaller, ucProc, ucCo, ucLate, ucLaunches, ucOps,
            ucFaults>>

vars == <<scene, suVars, laVars, ilVars, ucVars>>

Init ==
  /\ scene \in Scenes
  /\ S!Init
  /\ L!Init
  /\ I!Init
  /\ U!Init

SubmissionNext == scene = "submission" /\ S!Next /\ UNCHANGED <<scene, laVars, ilVars, ucVars>>
LanesNext == scene = "lanes" /\ L!Next /\ UNCHANGED <<scene, suVars, ilVars, ucVars>>
InputLaneNext == scene = "input" /\ I!Next /\ UNCHANGED <<scene, suVars, laVars, ucVars>>
UpdateConvergenceNext == scene = "converge" /\ U!Next /\ UNCHANGED <<scene, suVars, laVars, ilVars>>

Next == SubmissionNext \/ LanesNext \/ InputLaneNext \/ UpdateConvergenceNext

Fair(s, A) == scene = s /\ A
Fairness ==
  /\ WF_suVars(Fair("submission", S!SaveSettles))
  /\ \A a \in SuAttempts : WF_suVars(Fair("submission", S!Work(a)))
  /\ WF_laVars(Fair("lanes", L!Cleanup)) /\ WF_laVars(Fair("lanes", L!ShutdownReady))
  /\ WF_laVars(Fair("lanes", L!DeadlineExpires))
  /\ \A l \in L!Lane : WF_laVars(Fair("lanes", L!Drain(l) \/ L!DrainDisconnected(l)))
  /\ WF_ilVars(Fair("input", I!Poll)) /\ WF_ilVars(Fair("input", I!SendSource))
  /\ WF_ilVars(Fair("input", I!ReaderStops)) /\ WF_ilVars(Fair("input", I!Supervise))
  /\ WF_ilVars(Fair("input", I!Take))
  /\ \A s \in UcSlots : /\ WF_ucVars(Fair("converge", U!Start(s)))
                        /\ WF_ucVars(Fair("converge", U!Coordinate(s)))
                        /\ WF_ucVars(Fair("converge", U!ExpireBarrier(s)))

Spec == Init /\ [][Next]_vars /\ Fairness

------------------------------------------------------------------------------
\* A submission's journal tells what the agent was sent, and its thoughts leave when accepted.
SubmissionSafe == scene = "submission" => S!SubmissionSafe

\* At shutdown nothing is released, replaced or reported before the lanes allow it.
LanesSafe == scene = "lanes" => L!LanesSafe

\* No key is lost or reordered on its way to the loop.
InputLaneSafe == scene = "input" => I!InputLaneSafe

\* No older process works beside an updated cohort, one that made way stays quiet, a restart
\* is cleared only when every older process has made way, and the recorded version never
\* goes back.
ConvergenceSafe ==
  /\ [][scene = "converge" => U!UpdateConvergenceSafe']_vars
  /\ U!ClearsOnlyConverged /\ U!ObservationNeverRegresses

\* A runtime that was asked to stop, or whose worker died, ends, whatever lane hangs.
ShutdownEnds == L!ShutdownEnds

\* Nothing waits for ever: a submission is settled or reported, the last size of the
\* terminal reaches the loop, and a barrier is lifted.
WorkEnds == S!SubmissionSettles /\ I!SizeSettles /\ U!BarrierEnds
==============================================================================

----------------------------- MODULE MCDelivery -----------------------------
(***************************************************************************)
(* What leaves the board: transfers to another session, the clipboard,     *)
(* exports and the checks of attachments.  The components share no state   *)
(* but the text of the board, so each is followed on its own: scene says   *)
(* which one a behaviour is about, the others keep their initial state.    *)
(***************************************************************************)
EXTENDS Integers, Sequences, FiniteSets

CONSTANT Scenes    \* the components this run follows

\* One thought, two batches, and a fault at any point.
CONSTANTS TrThoughts, TrBatches, TrMaxVersion, TrMaxPicks, TrMaxFaults

ASSUME TransferAssumption ==
  /\ "nobody" \notin TrBatches /\ IsFiniteSet(TrBatches)
  /\ TrMaxVersion \in Nat \ {0} /\ TrMaxPicks \in Nat /\ TrMaxFaults \in Nat

\* Two processes on one clipboard, beside a foreign program.
CONSTANTS ClThoughts, ClProcs, ClOwner, ClMaxText, ClMaxRequests, ClMaxForeign, ClMaxChanges

ASSUME ClipboardAssumption ==
  ClOwner \in ClProcs /\ "free" \notin ClProcs /\ ClMaxText \in Nat \ {0} /\ ClMaxRequests \in Nat

\* The interface and a command export to one path, beside a foreign program.
CONSTANTS ExThoughts, ExPaths, ExMaxValue, ExMaxExports, ExMaxFiles, ExMaxForeign, ExMaxChanges,
          ExMaxFaults

ASSUME ExportAssumption == ExMaxValue \in Nat \ {0}

\* Two runs after one another, so that the second may meet what the first left.
CONSTANT ChMaxRuns

ASSUME ChildAssumption == ChMaxRuns \in Nat

VARIABLES
  scene,        \* the component that moves
  trBoard, trSaved, trPicker, trOpened, trPending, trLane, trDelivery, trAnswers, trRetained,
  trAttempts, trRequests, trClaims, trCohorts, trPeer, trLate, trFaults,
  clBoard, clMode, clDraft, clGens, clPending, clQueue, clWorker, clResults, clClip, clProv,
  clLock, clAsked, clForeign, clChanges, clEpisode, clCopied, clRemoved, clLanded, clTyped,
  clMade, clWritten,
  exBoard, exUi, exCli, exWriter, exTarget, exStaged, exLeft, exClock, exExports, exForeign,
  exChanges, exFaults, exAccepted, exDurable, exRemoved, exLost, exAllowed,
  atBoard, atAtt, atLane, atIntents, atEdits, atRefreshes, atFocuses, atBacked, atReport,
  atPrepared,
  chCall, chIncomplete, chCancelled, chLate, chGrace, chChild, chHelper, chIo, chRuns

\* Transfer, with the constants above.
T == INSTANCE Transfer WITH
  Thoughts <- TrThoughts, Batches <- TrBatches,
  MaxVersion <- TrMaxVersion, MaxPicks <- TrMaxPicks, MaxFaults <- TrMaxFaults,
  board <- trBoard, saved <- trSaved, picker <- trPicker, opened <- trOpened,
  pending <- trPending, lane <- trLane, delivery <- trDelivery, answers <- trAnswers,
  retained <- trRetained, attempts <- trAttempts, requests <- trRequests, claims <- trClaims,
  cohorts <- trCohorts, peer <- trPeer, late <- trLate, faults <- trFaults

\* Clipboard, with the constants above.
C == INSTANCE Clipboard WITH
  Thoughts <- ClThoughts, Procs <- ClProcs, Owner <- ClOwner, MaxText <- ClMaxText,
  MaxRequests <- ClMaxRequests, MaxForeign <- ClMaxForeign, MaxChanges <- ClMaxChanges,
  board <- clBoard,
  mode <- clMode, draft <- clDraft, gens <- clGens, pending <- clPending, queue <- clQueue,
  worker <- clWorker, results <- clResults, clip <- clClip, prov <- clProv, lock <- clLock,
  asked <- clAsked, foreign <- clForeign, changes <- clChanges, episode <- clEpisode,
  copied <- clCopied, removed <- clRemoved, landed <- clLanded, typed <- clTyped,
  made <- clMade, written <- clWritten

\* Export, with the constants above.
X == INSTANCE Export WITH
  Thoughts <- ExThoughts, Paths <- ExPaths, MaxValue <- ExMaxValue, MaxExports <- ExMaxExports,
  MaxFiles <- ExMaxFiles, MaxForeign <- ExMaxForeign, MaxChanges <- ExMaxChanges,
  MaxFaults <- ExMaxFaults, board <- exBoard,
  ui <- exUi, cli <- exCli, writer <- exWriter, target <- exTarget, staged <- exStaged,
  left <- exLeft, clock <- exClock, exports <- exExports, foreign <- exForeign,
  changes <- exChanges, faults <- exFaults, accepted <- exAccepted, durable <- exDurable,
  removed <- exRemoved, lost <- exLost, allowed <- exAllowed

\* Two thoughts with two attachments, checked one at a time, and a submission.
A == INSTANCE Attachments WITH
  Thoughts <- {1, 2}, Atts <- {1, 2}, MaxRev <- 1, Batch <- 1,
  Subs <- {1}, MaxEdits <- 1, MaxRefreshes <- 2, MaxFocus <- 1, board <- atBoard, att <- atAtt,
  lane <- atLane, intents <- atIntents, edits <- atEdits, refreshes <- atRefreshes,
  focuses <- atFocuses, backed <- atBacked, report <- atReport, prepared <- atPrepared

\* ChildProcess, with the constants above.
P == INSTANCE ChildProcess WITH
  MaxRuns <- ChMaxRuns, call <- chCall,
  incomplete <- chIncomplete, cancelled <- chCancelled, late <- chLate, grace <- chGrace,
  child <- chChild, helper <- chHelper, io <- chIo, runs <- chRuns

trVars == <<trBoard, trSaved, trPicker, trOpened, trPending, trLane, trDelivery, trAnswers,
            trRetained, trAttempts, trRequests, trClaims, trCohorts, trPeer, trLate, trFaults>>
clVars == <<clBoard, clMode, clDraft, clGens, clPending, clQueue, clWorker, clResults, clClip,
            clProv, clLock, clAsked, clForeign, clChanges, clEpisode, clCopied, clRemoved,
            clLanded, clTyped, clMade, clWritten>>
exVars == <<exBoard, exUi, exCli, exWriter, exTarget, exStaged, exLeft, exClock, exExports,
            exForeign, exChanges, exFaults, exAccepted, exDurable, exRemoved, exLost, exAllowed>>
atVars == <<atBoard, atAtt, atLane, atIntents, atEdits, atRefreshes, atFocuses, atBacked,
            atReport, atPrepared>>
chVars == <<chCall, chIncomplete, chCancelled, chLate, chGrace, chChild, chHelper, chIo, chRuns>>

vars == <<scene, trVars, clVars, exVars, atVars, chVars>>

Init ==
  /\ scene \in Scenes
  /\ T!Init /\ (scene # "transfer" => trPeer = "nobody")
  /\ C!Init /\ (scene # "clipboard" => \A t \in DOMAIN clBoard.value : clBoard.value[t].notes)
  /\ X!Init /\ (scene # "export" => \A p \in ExPaths : exTarget[p] = X!Absent)
  /\ A!Init
  /\ P!Init

TransferNext == scene = "transfer" /\ T!Next /\ UNCHANGED <<scene, clVars, exVars, atVars, chVars>>
ClipboardNext == scene = "clipboard" /\ C!Next /\ UNCHANGED <<scene, trVars, exVars, atVars, chVars>>
ExportNext == scene = "export" /\ X!Next /\ UNCHANGED <<scene, trVars, clVars, atVars, chVars>>
AttachmentsNext == scene = "attachments" /\ A!Next /\ UNCHANGED <<scene, trVars, clVars, exVars, chVars>>
ChildProcessNext == scene = "child" /\ P!Next /\ UNCHANGED <<scene, trVars, clVars, exVars, atVars>>

Next == TransferNext \/ ClipboardNext \/ ExportNext \/ AttachmentsNext \/ ChildProcessNext

Spec == Init /\ [][Next]_vars

------------------------------------------------------------------------------
\* A transfer takes a thought away once the other session has it, once.
TransferSafe == scene = "transfer" => T!TransferSafe

\* A cut, a paste and a typed copy do what was asked, whoever else uses the clipboard.
ClipboardSafe == scene = "clipboard" => C!ClipboardSafe

\* An export removes nothing that is not on disk and overwrites nothing unasked.
ExportSafe == scene = "export" => X!ExportSafe

\* Reports about attachments rest on checks of what is shown.
AttachmentsSafe == scene = "attachments" => A!AttachmentsSafe

\* A child starts only after the pipes of earlier ones are gone, and a result that reports
\* success holds the whole output.
ChildContained == [](scene = "child" => P!ChildProcessSafe) /\ P!StartsClean
==============================================================================

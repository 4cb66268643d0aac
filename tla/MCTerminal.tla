----------------------------- MODULE MCTerminal -----------------------------
(***************************************************************************)
(* One terminal and its user: recovery from an input stall, the terminal's *)
(* modes, update prompts, the invocation picker, the editor with folds,    *)
(* and Commands beside the capture barrier.  Each is followed on its own;  *)
(* scene says which.                                                       *)
(***************************************************************************)
EXTENDS Integers, Sequences

CONSTANT Scenes    \* the components this run follows

\* Two processes stall and are replaced; a new version is installed meanwhile.
CONSTANTS ReProcs, ReWindow, ReMaxRecoveries, ReMaxTime, ReMaxStalls, ReMaxFaults,
          ReMaxInstalls

ASSUME RecoveryAssumption ==
  /\ "none" \notin ReProcs
  /\ ReWindow \in Nat /\ ReMaxRecoveries \in Nat \ {0} /\ ReMaxTime \in Nat
  /\ ReMaxStalls \in Nat /\ ReMaxFaults \in Nat /\ ReMaxInstalls \in Nat

\* Every command to the terminal may fail, twice.
CONSTANTS TmMouseCapture, TmMaxFaults

ASSUME ModesAssumption == TmMouseCapture \in BOOLEAN /\ TmMaxFaults \in Nat

\* Two processes look for two releases and ask their users.
CONSTANTS UpProcs, UpMaxVersion, UpMaxChecks, UpMaxTyped

ASSUME UpdatesAssumption ==
  /\ "none" \notin UpProcs
  /\ UpMaxVersion \in Nat \ {0} /\ UpMaxChecks \in Nat /\ UpMaxTyped \in Nat

VARIABLES
  scene,        \* the component that moves
  reProc, reLease, reFile, reInstalled, reNow, reStalls, reFaults, reBegun,
  tmPc, tmActive, tmEnabled, tmGuarded, tmHooked, tmFaults, tmBroken,
  upReleased, upCache, upRefresher, upPrompter, upLane, upNotice, upPrompt, upIntent, upTyped,
  upQueue, upChecks,
  ivWorld, ivManaged, ivAgents, ivLane, ivResults, ivScan, ivCancelled, ivGeneration,
  ivCatalog, ivFsNotes, ivPopup, ivToken, ivRefGeneration, ivRefPending, ivLive, ivProvNotes,
  ivMoves, ivAccepted, ivSteady,
  edEd, edAnnots, edExpanded, edThought, edHist, edFresh, edEdits,
  paUi, paHeld, paRedraw, paTyped, paChanges

\* File trees: a definition reached twice; more definitions than the budget; a tree that
\* is too deep beside a plugin with a missing component; a registry that is too large.
Node(kind, kids, canon, prec) == [kind |-> kind, kids |-> kids, canon |-> canon, prec |-> prec]
Dir(kids) == Node("dir", kids, "-", 10)
Def(canon) == Node("def", <<>>, canon, 10)
Tree(nodes, roots, plugins, registry) ==
  [node |-> nodes, roots |-> roots, plugins |-> plugins, registry |-> registry,
   sigil |-> [one |-> "slash", two |-> "at", three |-> "at"]]
Shared == Tree([r |-> Dir(<<"d">>), s |-> Node("dir", <<"l", "b">>, "-", 80), d |-> Def("one"),
                l |-> Node("link", <<>>, "one", 10), b |-> Node("bad", <<>>, "-", 10)],
               <<"r", "s">>, <<>>, "none")
Many == Tree([r |-> Dir(<<"d", "e", "f">>), d |-> Def("one"), e |-> Def("two"), f |-> Def("three")],
             <<"r">>, <<>>, "none")
Deep == Tree([r |-> Dir(<<"m">>), m |-> Dir(<<"n">>), n |-> Dir(<<"d">>), d |-> Def("one"),
              p |-> Node("skill", <<>>, "two", 70)],
             <<"r">>, <<<<"gap", "p">>>>, "read")
Large == Tree([r |-> Dir(<<"d">>), d |-> Def("two"), p |-> Node("skill", <<>>, "three", 70)],
              <<"r">>, <<<<"p">>>>, "oversized")
FileTrees == {Shared, Many, Deep, Large}

\* One action for each way a row applies, is relevant and runs, with the inventory's priorities.
Action(id, applies, relevance, priority, category, exec) ==
  [id |-> id, applies |-> applies, relevance |-> relevance, priority |-> priority,
   category |-> category, exec |-> exec]
Actions ==
  <<Action("edit", "FocusedMutableThought", "FocusedThought", 20, 1, "edit"),
    Action("split", "Split", "Editor", 6, 1, "split"),
    Action("merge", "Merge", "Selection", 5, 1, "merge"),
    Action("submit", "Submission", "Submission", 7, 2, "other"),
    Action("inbox", "ScreenshotInbox", "ScreenshotActive", 2, 2, "inbox"),
    Action("retry", "ScreenshotRetry", "ScreenshotRetry", 1, 2, "retry_capture"),
    Action("storage", "RetryStorage", "StorageRecovery", 0, 3, "retry_storage"),
    Action("checks", "Attachments", "Never", 99, 3, "refresh"),
    Action("undo", "QueryUndo", "QueryUndo", 3, 3, "query_undo"),
    Action("quit", "Quit", "Always", 90, 3, "quit")>>

\* InputRecovery, with the constants above.
R == INSTANCE InputRecovery WITH
  Procs <- ReProcs, Window <- ReWindow,
  MaxRecoveries <- ReMaxRecoveries, MaxTime <- ReMaxTime, MaxStalls <- ReMaxStalls,
  MaxFaults <- ReMaxFaults, MaxInstalls <- ReMaxInstalls, proc <- reProc, lease <- reLease,
  file <- reFile, installed <- reInstalled, now <- reNow, stalls <- reStalls,
  faults <- reFaults, begun <- reBegun

\* TerminalModes, with the constants above.
M == INSTANCE TerminalModes WITH
  MouseCapture <- TmMouseCapture, MaxFaults <- TmMaxFaults,
  pc <- tmPc, active <- tmActive, enabled <- tmEnabled, guarded <- tmGuarded,
  hooked <- tmHooked, faults <- tmFaults, broken <- tmBroken

\* UpdateCheck, with the constants above.
U == INSTANCE UpdateCheck WITH
  Procs <- UpProcs, MaxVersion <- UpMaxVersion,
  MaxChecks <- UpMaxChecks, MaxTyped <- UpMaxTyped, released <- upReleased, cache <- upCache,
  refresher <- upRefresher, prompter <- upPrompter, lane <- upLane, notice <- upNotice,
  prompt <- upPrompt, intent <- upIntent, typed <- upTyped, queue <- upQueue,
  checks <- upChecks

\* A file tree over each budget in turn, and two agents of which one is shown.
I == INSTANCE Invocation WITH
  Worlds <- FileTrees, Agents <- {"ag1", "ag2"}, MaxRoots <- 3,
  MaxPaths <- 9, MaxEntries <- 2, MaxDepth <- 1, MaxRows <- 1, MaxRefreshes <- 2,
  MaxMoves <- 2, world <- ivWorld, managed <- ivManaged, agents <- ivAgents, lane <- ivLane,
  results <- ivResults, scan <- ivScan, cancelled <- ivCancelled, generation <- ivGeneration,
  catalog <- ivCatalog, fsNotes <- ivFsNotes, popup <- ivPopup, token <- ivToken,
  refGeneration <- ivRefGeneration, refPending <- ivRefPending, live <- ivLive,
  provNotes <- ivProvNotes, moves <- ivMoves, accepted <- ivAccepted, steady <- ivSteady

\* Pasted folds two characters wide in rows of two, a line break, and room for a second paste.
E == INSTANCE Editor WITH
  Typed <- {"nl"}, Pastes <- {<<"x", "sp">>}, Width <- 2, Label <- 2,
  Suffix <- 1, MaxLen <- 4, MaxFresh <- 5, MaxEdits <- 2, ed <- edEd, annots <- edAnnots,
  expanded <- edExpanded, thought <- edThought, hist <- edHist, fresh <- edFresh,
  edits <- edEdits

\* Every kind of row, two rows on the screen, and one place for an input put aside.
P == INSTANCE Palette WITH
  Commands <- Actions,
  Hits <- {<<<<"a">>, "submit">>, <<<<"a">>, "checks">>, <<<<"a">>, "merge">>},
  Letters <- {"a"}, Board <- <<1, 2>>,
  Keys <- {"open", "escape", "enter", "up", "down", "letter", "press", "backspace", "undo", "redo", "shortcut", "resize", "quit"},
  ConciseLimit <- 2, Height <- 2, DeferLimit <- 1, MaxQuery <- 1, MaxText <- 2, MaxTyped <- 3,
  MaxChanges <- 2, ui <- paUi, held <- paHeld, redraw <- paRedraw, typed <- paTyped,
  changes <- paChanges

reVars == <<reProc, reLease, reFile, reInstalled, reNow, reStalls, reFaults, reBegun>>
tmVars == <<tmPc, tmActive, tmEnabled, tmGuarded, tmHooked, tmFaults, tmBroken>>
upVars == <<upReleased, upCache, upRefresher, upPrompter, upLane, upNotice, upPrompt, upIntent,
            upTyped, upQueue, upChecks>>
ivVars == <<ivWorld, ivManaged, ivAgents, ivLane, ivResults, ivScan, ivCancelled, ivGeneration,
            ivCatalog, ivFsNotes, ivPopup, ivToken, ivRefGeneration, ivRefPending, ivLive,
            ivProvNotes, ivMoves, ivAccepted, ivSteady>>
edVars == <<edEd, edAnnots, edExpanded, edThought, edHist, edFresh, edEdits>>
paVars == <<paUi, paHeld, paRedraw, paTyped, paChanges>>

vars == <<scene, reVars, tmVars, upVars, ivVars, edVars, paVars>>

Init ==
  /\ scene \in Scenes
  /\ R!Init
  /\ M!Init
  /\ U!Init
  /\ I!Init /\ (scene # "picker" => ivWorld = Shared /\ ~ivManaged)
  /\ E!Init
  /\ P!Init /\ (scene # "palette" => paUi.mode = "board" /\ paUi.chosen = {})

InputRecoveryNext == scene = "recovery" /\ R!Next /\ UNCHANGED <<scene, tmVars, upVars, ivVars, edVars, paVars>>
TerminalModesNext == scene = "modes" /\ M!Next /\ UNCHANGED <<scene, reVars, upVars, ivVars, edVars, paVars>>
UpdateCheckNext == scene = "updates" /\ U!Next /\ UNCHANGED <<scene, reVars, tmVars, ivVars, edVars, paVars>>
InvocationNext == scene = "picker" /\ I!Next /\ UNCHANGED <<scene, reVars, tmVars, upVars, edVars, paVars>>
EditorNext == scene = "editor" /\ E!Next /\ UNCHANGED <<scene, reVars, tmVars, upVars, ivVars, paVars>>
PaletteNext == scene = "palette" /\ P!Next /\ UNCHANGED <<scene, reVars, tmVars, upVars, ivVars, edVars>>

Next == InputRecoveryNext \/ TerminalModesNext \/ UpdateCheckNext \/ InvocationNext \/ EditorNext \/ PaletteNext

Spec == Init /\ [][Next]_vars

------------------------------------------------------------------------------
\* Restarts after a stall are bounded and continue the process that stalled, and an orderly
\* exit leaves the terminal as it was found.
TerminalRecovers ==
  /\ scene = "recovery" => R!InputRecoverySafe
  /\ scene = "modes" => M!TerminalModesSafe

\* Of the processes of an installation one asks about a release, until its answer is recorded.
UpdateCheckSafe == scene = "updates" => U!UpdateCheckSafe

\* The picker says when it may be incomplete.
InvocationSafe == scene = "picker" => I!InvocationSafe

\* Folds, drawn positions and the pending edit follow the text.
EditorSafe == scene = "editor" => E!EditorSafe

\* "A collapsed token is one logical editor unit, so the cursor can never disappear inside
\* hidden content" (context/PRODUCT.md): the cursor is not inside a collapsed fold.
CursorNeverHidden == E!CursorNeverHidden

\* Commands runs the row that is shown, on the text that was seen, in the order of the inputs.
PaletteSafe == scene = "palette" => P!PaletteSafe
==============================================================================

---------------------------- MODULE MCOwnership ----------------------------
(***************************************************************************)
(* Who may do what between processes: the schema lock, session leases, the *)
(* capture lease and its watcher, the sessions of the Browser, and the     *)
(* companion pane.  Each is followed on its own; scene says which.         *)
(***************************************************************************)
EXTENDS Integers, Sequences, TLC

CONSTANT Scenes  \* the components this run follows

\* Three releases on one store, two processes of the middle one; two adopt what they find.
CONSTANTS SlProcs, SlSupported, SlAdopters, SlFound, SlMaxStarts

ASSUME SchemaAssumption ==
  SlSupported \in [SlProcs -> Nat] /\ SlFound \in Nat /\ SlMaxStarts \in Nat

\* Two interactive processes and a command contend for one session.
CONSTANTS SeInstances, SeInteractive, SeSessions, SeMaxScans

ASSUME LeaseAssumption ==
  SeInteractive \subseteq SeInstances /\ "none" \notin SeSessions /\ SeMaxScans \in Nat

\* Two processes hand the capture lease over.
CONSTANTS CaProcs, CaMaxRequests, CaMaxFaults

ASSUME CaptureAssumption ==
  "none" \notin CaProcs /\ CaMaxRequests \in Nat /\ CaMaxFaults \in Nat

\* Two files, written in pieces and out of step with the clock.
CONSTANTS WaFiles, WaDebounce, WaMaxTime, WaMaxWrites

ASSUME WatcherAssumption ==
  WaDebounce \in Nat /\ WaMaxTime \in Nat /\ WaMaxWrites \in Nat \ {0}

\* Two commands run against one session, what they ask for and how often.
CONSTANTS CoClients, CoRequests, CoUndoable, CoMaxTries, CoMaxRuns, CoMaxStarts, CoMaxFaults,
          CoCapacity, CoLaneCapacity

ASSUME ControlAssumption ==
  /\ {"none", "owner"} \cap CoClients = {}
  /\ \A r \in CoRequests : /\ r = [op |-> r.op, family |-> r.family, args |-> r.args]
                           /\ r.family \in {"create", "remove", "transform", "history"}
  /\ CoMaxTries \in Nat /\ CoMaxFaults \in Nat /\ CoLaneCapacity \in Nat

\* Two tabs toggle the companion of one session.
CONSTANTS HeTabs, HeSessions, HeNameOf, HeAgent, HeFresh, HeMaxToggles, HeMaxMoves, HeMaxFaults

ASSUME CompanionAssumption ==
  /\ HeNameOf \in [HeTabs -> HeSessions]
  /\ "none" \notin HeFresh /\ \A t \in HeTabs : HeAgent[t] # "none"

VARIABLES
  scene,        \* the component that moves
  slStage, slShared, slExclusive, slDatabase, slBackups, slStarts,
  seStage, seSession, seLocked, seProbed, seMetadata, seSocket, seScan, seDoomed, seScans, seReturned,
  caInbox, caPause, caSave, caDialog, caRuntime, caPhase, caRequests, caWorker, caWatching,
  caResults, caHolder, caAsked, caBudget, caFaults,
  waDisk, waImage, waChanged, waNow, waHint, waMode, waBaseline, waPending, waDelivered,
  brSess, brOps, brCursor, brReceipts, brLease, brClient, brOwner, brNow, brFaults, brRuns,
  brPruned,
  hePane, heRecord, heToggle, heFocus, heToggles, heMoves, heFaults, heOpened, heClosed,
  heUnsaved,
  coClient, coLease, coOwner, coBacklog, coServer, coInbox, coLane, coRetained, coResults, coMem,
  coAwaited, coFailed, coLog, coStarts, coFaults

\* What the Browser and the command line ask for, and an owner's own renames.
Ask(o, k, s, a) == [op |-> o, kind |-> k, s |-> s, arg |-> a]
BrowserRequests ==
  {Ask("o1", "rename", "s1", 1), Ask("o2", "trash", "s1", 0), Ask("o3", "restore", "s1", 0),
   Ask("o4", "create", "s2", 1), Ask("o5", "trash", "s2", 0), Ask("o6", "prune", "s2", 0),
   Ask("o7", "undo", "none", 0), Ask("o8", "undo", "none", 0), Ask("o9", "redo", "none", 0),
   Ask("none", "ensure", "s3", 1)}
OwnerRenames == {Ask("u1", "rename", "s1", 2)}

\* The schema versions of the releases.
Releases == <<1, 2, 2, 3>>

\* The session both tabs stand for, and the agent of each.
SameName == [t \in HeTabs |-> "s1"]
TabAgents == [A |-> "a", B |-> "b"]

\* One identity with the arguments of two commands, another item, and an undo.
Item(o, k) == [op |-> o, family |-> "create", args |-> k]
Mutations == {Item("o1", 1), Item("o1", 2), Item("o2", 1),
              [op |-> "o3", family |-> "history", args |-> 1]}
Undo == {[op |-> "o1", family |-> "history", args |-> 1]}

\* The commands differ in nothing but their names.
Commands == Permutations(CoClients)

\* SchemaLock, with the constants above.
L == INSTANCE SchemaLock WITH
  Procs <- SlProcs, Supported <- SlSupported,
  Adopters <- SlAdopters, Found <- SlFound, MaxStarts <- SlMaxStarts, stage <- slStage,
  shared <- slShared, exclusive <- slExclusive, database <- slDatabase, backups <- slBackups,
  starts <- slStarts

\* SessionLease, with the constants above.
S == INSTANCE SessionLease WITH
  Instances <- SeInstances, Interactive <- SeInteractive,
  Sessions <- SeSessions, MaxScans <- SeMaxScans, stage <- seStage, session <- seSession,
  locked <- seLocked, probed <- seProbed, metadata <- seMetadata, socket <- seSocket,
  scan <- seScan, doomed <- seDoomed, scans <- seScans, returned <- seReturned

\* CaptureLane, with the constants above.
K == INSTANCE CaptureLane WITH
  Procs <- CaProcs, MaxRequests <- CaMaxRequests,
  MaxFaults <- CaMaxFaults, inbox <- caInbox, pause <- caPause, save <- caSave,
  dialog <- caDialog, runtime <- caRuntime, phase <- caPhase, requests <- caRequests,
  worker <- caWorker, watching <- caWatching, results <- caResults, holder <- caHolder,
  asked <- caAsked, budget <- caBudget, faults <- caFaults

\* ScreenshotWatcher, with the constants above.
W == INSTANCE ScreenshotWatcher WITH
  Files <- WaFiles, Debounce <- WaDebounce,
  MaxTime <- WaMaxTime, MaxWrites <- WaMaxWrites, disk <- waDisk, image <- waImage,
  changed <- waChanged, now <- waNow, hint <- waHint, mode <- waMode, baseline <- waBaseline,
  pending <- waPending, delivered <- waDelivered

\* One browser or command line beside the owners, with undo and redo of everything.
B == INSTANCE Sessions WITH
  Sessions <- {"s1", "s2", "s3"}, Existing <- {"s1"},
  Clients <- {"c1"}, Requests <- BrowserRequests, Renames <- OwnerRenames, MaxRuns <- 4,
  MaxTime <- 2, MaxFaults <- 1, sess <- brSess, ops <- brOps, cursor <- brCursor,
  receipts <- brReceipts, lease <- brLease, client <- brClient, owner <- brOwner, now <- brNow,
  faults <- brFaults, runs <- brRuns, pruned <- brPruned

\* Companion, with the constants above.
H == INSTANCE Companion WITH
  Tabs <- HeTabs, Sessions <- HeSessions, NameOf <- HeNameOf, Agent <- HeAgent, Fresh <- HeFresh,
  MaxToggles <- HeMaxToggles, MaxMoves <- HeMaxMoves, MaxFaults <- HeMaxFaults, pane <- hePane,
  record <- heRecord, toggle <- heToggle, focus <- heFocus, toggles <- heToggles,
  moves <- heMoves, faults <- heFaults, opened <- heOpened, closed <- heClosed,
  unsaved <- heUnsaved

\* Control, with the constants above.
O == INSTANCE Control WITH
  Clients <- CoClients, Requests <- CoRequests, Undoable <- CoUndoable,
  MaxTries <- CoMaxTries, MaxRuns <- CoMaxRuns, MaxStarts <- CoMaxStarts,
  MaxFaults <- CoMaxFaults, Capacity <- CoCapacity, LaneCapacity <- CoLaneCapacity,
  client <- coClient, lease <- coLease, owner <- coOwner, backlog <- coBacklog,
  server <- coServer, inbox <- coInbox, lane <- coLane, retained <- coRetained,
  results <- coResults, mem <- coMem, awaited <- coAwaited, failed <- coFailed,
  log <- coLog, starts <- coStarts, faults <- coFaults

slVars == <<slStage, slShared, slExclusive, slDatabase, slBackups, slStarts>>
seVars == <<seStage, seSession, seLocked, seProbed, seMetadata, seSocket, seScan, seDoomed,
            seScans, seReturned>>
caVars == <<caInbox, caPause, caSave, caDialog, caRuntime, caPhase, caRequests, caWorker,
            caWatching, caResults, caHolder, caAsked, caBudget, caFaults>>
waVars == <<waDisk, waImage, waChanged, waNow, waHint, waMode, waBaseline, waPending,
            waDelivered>>
brVars == <<brSess, brOps, brCursor, brReceipts, brLease, brClient, brOwner, brNow, brFaults,
            brRuns, brPruned>>
heVars == <<hePane, heRecord, heToggle, heFocus, heToggles, heMoves, heFaults, heOpened,
            heClosed, heUnsaved>>
coVars == <<coClient, coLease, coOwner, coBacklog, coServer, coInbox, coLane, coRetained,
            coResults, coMem, coAwaited, coFailed, coLog, coStarts, coFaults>>

vars == <<scene, slVars, seVars, caVars, waVars, brVars, heVars, coVars>>

Init ==
  /\ scene \in Scenes
  /\ L!Init
  /\ S!Init
  /\ K!Init
  /\ W!Init /\ (scene # "watcher" => waDisk = [f \in WaFiles |-> 0])
  /\ B!Init
  /\ H!Init
  /\ O!Init

SchemaLockNext == scene = "schema" /\ L!Next /\ UNCHANGED <<scene, seVars, caVars, waVars, brVars, heVars, coVars>>
SessionLeaseNext == scene = "lease" /\ S!Next /\ UNCHANGED <<scene, slVars, caVars, waVars, brVars, heVars, coVars>>
CaptureLaneNext == scene = "capture" /\ K!Next /\ UNCHANGED <<scene, slVars, seVars, waVars, brVars, heVars, coVars>>
ScreenshotWatcherNext == scene = "watcher" /\ W!Next /\ UNCHANGED <<scene, slVars, seVars, caVars, brVars, heVars, coVars>>
SessionsNext == scene = "sessions" /\ B!Next /\ UNCHANGED <<scene, slVars, seVars, caVars, waVars, heVars, coVars>>
CompanionNext == scene = "companion" /\ H!Next /\ UNCHANGED <<scene, slVars, seVars, caVars, waVars, brVars, coVars>>
ControlNext == scene = "control" /\ O!Next /\ UNCHANGED <<scene, slVars, seVars, caVars, waVars, brVars, heVars>>

Next == SchemaLockNext \/ SessionLeaseNext \/ CaptureLaneNext \/ ScreenshotWatcherNext \/ SessionsNext \/ CompanionNext \/ ControlNext

Spec == Init /\ [][Next]_vars

------------------------------------------------------------------------------
\* No process works on a schema it does not know or without the backup of a migration, and
\* the owner of a session can be found by the commands that look for it.
LeasesSafe ==
  /\ scene = "schema" => L!SchemaLockSafe
  /\ scene = "lease" => S!SessionLeaseSafe

\* The capture lease is held once, and only whole screenshots are delivered.
ScreenshotsSafe ==
  /\ scene = "capture" => K!CaptureLaneSafe
  /\ scene = "watcher" => W!ScreenshotWatcherSafe

\* The rows of the Browser, its history and its receipts tell one story.
SessionsSafe == scene = "sessions" => B!SessionsSafe

\* An agent has one companion; a toggle closes only panes that the toggle opened, and
\* replaces only idle ones.
CompanionKept == [](scene = "companion" => H!CompanionSafe) /\ H!ClosesOnlyCompanions

\* An accepted command is recorded under its identity, and the board shows nothing that
\* could not be saved.
ControlSafe == scene = "control" => O!ControlSafe

\* "Repeating the same request returns its original receipt" (docs/reference/cli.md): a
\* request is applied to the owner's board once.
AppliedOnce == scene = "control" => O!AppliedOnce
==============================================================================

---------------------------- MODULE TerminalProofs ----------------------------
(***************************************************************************)
(* Proofs about one terminal and its user: update prompts, restarts after  *)
(* input stalls and terminal modes, for any number of processes, releases, *)
(* checks, restarts and key strokes.                                       *)
(***************************************************************************)
EXTENDS MCTerminal, TLAPS, WellFoundedInduction

-----------------------------------------------------------------------------
(* Update prompts                                                          *)

Release == 0 .. UpMaxVersion
CacheState == [latest : Release, generation : Nat, dismissed : Release, skipped : Release]
LaneState ==
  [pc : {"idle", "loaded", "fetching", "decided"}, explicit : BOOLEAN, seen : CacheState]
PromptState == [version : Release, boundary : Nat, armed : BOOLEAN]
IntentState == [kind : {"none", "dismiss", "skip", "install"}, version : Release]

UpdateTypes ==
  /\ upReleased \in 1 .. UpMaxVersion
  /\ upCache \in CacheState
  /\ upRefresher \in UpProcs \cup {"none"} /\ upPrompter \in UpProcs \cup {"none"}
  /\ upLane \in [UpProcs -> LaneState]
  /\ upNotice \in [UpProcs -> Release]
  /\ upPrompt \in [UpProcs -> PromptState]
  /\ upIntent \in [UpProcs -> IntentState]
  /\ upTyped \in [UpProcs -> 0 .. UpMaxTyped]
  /\ upQueue \in [UpProcs -> Seq(Nat)]

\* Who asks its user, or carries the answer, holds the prompt lock, and is at one of the
\* three stages of asking only.
AskerHoldsLock ==
  \A p \in UpProcs :
    /\ U!Asking(p) => upPrompter = p
    /\ upNotice[p] # 0 => upPrompt[p] = U!NoPrompt /\ upIntent[p] = U!NoIntent
    /\ upPrompt[p] # U!NoPrompt => upIntent[p] = U!NoIntent

UpdateInv == UpdateTypes /\ AskerHoldsLock

LEMMA UpdateInit == U!Init => UpdateInv
BY UpdatesAssumption
DEF U!Init, UpdateInv, UpdateTypes, AskerHoldsLock, Release, CacheState, LaneState, PromptState,
    IntentState, U!IdleLane, U!NoPrompt, U!NoIntent, U!None, U!Asking

\* What a refresh found is a cache state of known releases.
LEMMA MergedIsCache ==
  ASSUME UpdateTypes PROVE U!Merged \in CacheState
<1>1. /\ upReleased \in Release /\ 0 \in Release
      /\ upCache.skipped \in Release /\ upCache.generation \in Nat
  BY UpdatesAssumption DEF UpdateTypes, CacheState, Release
<1>2. ASSUME NEW c \in CacheState, NEW r \in Release, NEW z \in Release
      PROVE  [c EXCEPT !.latest = r, !.dismissed = z, !.skipped = IF @ = r THEN @ ELSE z]
               \in CacheState
  BY DEF CacheState
<1>3. upCache \in CacheState
  BY DEF UpdateTypes
<1> QED BY <1>1, <1>2, <1>3 DEF U!Merged

\* A refresh moves the generation.
LEMMA RefreshIsCache ==
  ASSUME NEW c \in CacheState PROVE [c EXCEPT !.generation = @ + 1] \in CacheState
BY DEF CacheState

\* Two ways a lane moves on.
LEMMA LaneMoves ==
  ASSUME UpdateTypes, NEW p \in UpProcs, NEW c \in {"idle", "loaded", "fetching", "decided"},
         NEW s \in CacheState
  PROVE  /\ [upLane EXCEPT ![p].pc = c] \in [UpProcs -> LaneState]
         /\ [upLane EXCEPT ![p].pc = c, ![p].seen = s] \in [UpProcs -> LaneState]
<1>1. upLane \in [UpProcs -> LaneState] /\ upLane[p] \in LaneState
  BY DEF UpdateTypes
<1>2. [upLane EXCEPT ![p].pc = c] \in [UpProcs -> LaneState]
  BY <1>1 DEF LaneState
<1>3. PICK f : f = [upLane EXCEPT ![p].pc = c]
  OBVIOUS
<1>4. f \in [UpProcs -> LaneState] /\ f[p] \in LaneState
  BY <1>2, <1>3
<1>5. [f EXCEPT ![p].seen = s] \in [UpProcs -> LaneState]
  BY <1>4 DEF LaneState
<1>6. [upLane EXCEPT ![p].pc = c, ![p].seen = s] = [f EXCEPT ![p].seen = s]
  BY <1>3
<1> QED BY <1>2, <1>5, <1>6

LEMMA UpdateTypesStep ==
  ASSUME UpdateInv, U!Next PROVE UpdateTypes'
<1> USE UpdatesAssumption DEF U!None
<1>0. /\ U!IdleLane \in LaneState /\ U!NoPrompt \in PromptState /\ U!NoIntent \in IntentState
      /\ U!Merged \in CacheState
  BY MergedIsCache DEF UpdateInv, U!IdleLane, LaneState, CacheState, Release, U!NoPrompt,
     PromptState, U!NoIntent, IntentState
<1> USE DEF UpdateInv, UpdateTypes
<1>1. CASE U!Publish
  BY <1>1 DEF U!Publish
<1>2. ASSUME NEW p \in UpProcs, U!BeginCheck(p) PROVE UpdateTypes'
  <2>1. PICK e \in BOOLEAN :
          upLane' = [upLane EXCEPT ![p] = [pc |-> "loaded", explicit |-> e, seen |-> upCache]]
    BY <1>2 DEF U!BeginCheck
  <2>2. upLane' \in [UpProcs -> LaneState]
    BY <2>1 DEF LaneState
  <2> QED BY <1>2, <2>2 DEF U!BeginCheck
<1>3. ASSUME NEW p \in UpProcs, U!TryRefresh(p) PROVE UpdateTypes'
  <2>1. upLane' \in [UpProcs -> LaneState]
    <3>1. CASE upRefresher # "none"
      <4>1. upLane' = [upLane EXCEPT ![p].pc = IF upLane[p].explicit THEN "idle" ELSE "decided"]
        BY <1>3, <3>1 DEF U!TryRefresh
      <4> QED BY <4>1, LaneMoves
    <3>2. CASE upRefresher = "none"
      <4>1. \/ upLane' = [upLane EXCEPT ![p].pc = "fetching"]
            \/ upLane' = [upLane EXCEPT ![p].pc = "decided", ![p].seen = upCache]
        BY <1>3, <3>2 DEF U!TryRefresh
      <4>2. /\ [upLane EXCEPT ![p].pc = "fetching"] \in [UpProcs -> LaneState]
            /\ [upLane EXCEPT ![p].pc = "decided", ![p].seen = upCache] \in [UpProcs -> LaneState]
        BY LaneMoves
      <4> QED BY <4>1, <4>2
    <3> QED BY <3>1, <3>2
  <2>2. [upCache EXCEPT !.generation = @ + 1] \in CacheState
    BY RefreshIsCache
  <2>3. upCache' \in CacheState
    BY <1>3, <2>2 DEF U!TryRefresh
  <2> QED BY <1>3, <2>1, <2>3 DEF U!TryRefresh
<1>4. ASSUME NEW p \in UpProcs, U!Fetch(p) PROVE UpdateTypes'
  <2>1. upLane' \in [UpProcs -> LaneState]
    <3>1. \/ upLane' = [upLane EXCEPT ![p].pc = "decided", ![p].seen = U!Merged]
          \/ upLane' = [upLane EXCEPT ![p] = U!IdleLane]
      BY <1>4 DEF U!Fetch
    <3>2. [upLane EXCEPT ![p].pc = "decided", ![p].seen = U!Merged] \in [UpProcs -> LaneState]
      BY <1>0, LaneMoves
    <3> QED BY <1>0, <3>1, <3>2
  <2> QED BY <1>4, <1>0, <2>1 DEF U!Fetch
<1>5. ASSUME NEW p \in UpProcs, U!Offer(p) PROVE UpdateTypes'
  <2>1. upLane[p].seen.latest \in Release
    BY DEF LaneState, CacheState
  <2> QED BY <1>5, <1>0, <2>1 DEF U!Offer
<1>6. ASSUME NEW p \in UpProcs, U!DrainNotice(p) PROVE UpdateTypes'
  <2>1. upPrompt' \in [UpProcs -> PromptState]
    BY <1>6 DEF U!DrainNotice, PromptState, Release
  <2> QED BY <1>6, <2>1 DEF U!DrainNotice, Release
<1>7. ASSUME NEW p \in UpProcs, U!Draw(p) PROVE UpdateTypes'
  <2>1. upPrompt' \in [UpProcs -> PromptState]
    BY <1>7 DEF U!Draw, PromptState
  <2> QED BY <1>7, <2>1 DEF U!Draw
<1>8. ASSUME NEW p \in UpProcs, U!ApplyInput(p) PROVE UpdateTypes'
  <2>1. upQueue' \in [UpProcs -> Seq(Nat)]
    BY <1>8 DEF U!ApplyInput
  <2>2. /\ upPrompt' \in [UpProcs -> PromptState]
        /\ upIntent' \in [UpProcs -> IntentState]
    <3>1. CASE upPrompt[p] # U!NoPrompt /\ U!Accepts(p, Head(upQueue[p]))
      <4>1. PICK k \in {"dismiss", "skip", "install", "move"} :
              /\ upIntent' = [upIntent EXCEPT ![p] =
                    IF k = "move" THEN @ ELSE [kind |-> k, version |-> upPrompt[p].version]]
              /\ upPrompt' = [upPrompt EXCEPT ![p] = IF k = "move" THEN @ ELSE U!NoPrompt]
        BY <1>8, <3>1 DEF U!ApplyInput
      <4>2. upPrompt[p].version \in Release
        BY DEF PromptState
      <4>3. k # "move" => [kind |-> k, version |-> upPrompt[p].version] \in IntentState
        BY <4>2 DEF IntentState
      <4> QED BY <4>1, <4>3, <1>0
    <3>2. CASE ~(upPrompt[p] # U!NoPrompt /\ U!Accepts(p, Head(upQueue[p])))
      BY <1>8, <3>2 DEF U!ApplyInput
    <3> QED BY <3>1, <3>2
  <2> QED BY <1>8, <2>1, <2>2 DEF U!ApplyInput
<1>9. ASSUME NEW p \in UpProcs, U!Act(p) PROVE UpdateTypes'
  <2>1. upIntent[p].version \in Release
    BY DEF IntentState
  <2>2. upCache' \in CacheState
    BY <1>9, <2>1 DEF U!Act, CacheState
  <2> QED BY <1>9, <1>0, <2>2 DEF U!Act
<1>10. ASSUME NEW p \in UpProcs, U!Type(p) PROVE UpdateTypes'
  <2>1. upQueue' \in [UpProcs -> Seq(Nat)]
    BY <1>10 DEF U!Type
  <2> QED BY <1>10, <2>1 DEF U!Type
<1>11. ASSUME NEW p \in UpProcs, U!Exit(p) PROVE UpdateTypes'
  BY <1>11, <1>0 DEF U!Exit, Release
<1> QED BY <1>1, <1>2, <1>3, <1>4, <1>5, <1>6, <1>7, <1>8, <1>9, <1>10, <1>11
        DEF U!Next, U!Work

LEMMA AskerStep ==
  ASSUME UpdateInv, U!Next PROVE AskerHoldsLock'
<1> USE UpdatesAssumption DEF U!None, UpdateInv, UpdateTypes
<1>1. CASE U!Publish
  BY <1>1 DEF U!Publish, AskerHoldsLock, U!Asking
<1>2. ASSUME NEW p \in UpProcs,
             U!BeginCheck(p) \/ U!TryRefresh(p) \/ U!Fetch(p) \/ U!Type(p)
      PROVE  AskerHoldsLock'
  BY <1>2 DEF U!BeginCheck, U!TryRefresh, U!Fetch, U!Type, AskerHoldsLock, U!Asking
<1>3. ASSUME NEW p \in UpProcs, U!Offer(p) PROVE AskerHoldsLock'
  BY <1>3 DEF U!Offer, AskerHoldsLock, U!Asking
<1>4. ASSUME NEW p \in UpProcs, U!DrainNotice(p) PROVE AskerHoldsLock'
  BY <1>4 DEF U!DrainNotice, AskerHoldsLock, U!Asking
<1>5. ASSUME NEW p \in UpProcs, U!Draw(p) PROVE AskerHoldsLock'
  BY <1>5 DEF U!Draw, AskerHoldsLock, U!Asking
<1>6. ASSUME NEW p \in UpProcs, U!ApplyInput(p) PROVE AskerHoldsLock'
  BY <1>6 DEF U!ApplyInput, AskerHoldsLock, U!Asking
<1>7. ASSUME NEW p \in UpProcs, U!Act(p) PROVE AskerHoldsLock'
  BY <1>7 DEF U!Act, AskerHoldsLock, U!Asking
<1>8. ASSUME NEW p \in UpProcs, U!Exit(p) PROVE AskerHoldsLock'
  BY <1>8 DEF U!Exit, AskerHoldsLock, U!Asking
<1> QED BY <1>1, <1>2, <1>3, <1>4, <1>5, <1>6, <1>7, <1>8 DEF U!Next, U!Work

\* Every step of the terminal is a step of the update check or leaves it alone.
LEMMA UpdateStep == ASSUME UpdateInv, [Next]_vars PROVE UpdateInv'
<1>1. CASE UNCHANGED upVars
  BY <1>1 DEF upVars, UpdateInv, UpdateTypes, AskerHoldsLock, U!Asking
<1>2. CASE U!Next
  BY <1>2, UpdateTypesStep, AskerStep DEF UpdateInv
<1> QED BY <1>1, <1>2 DEF Next, vars, InputRecoveryNext, TerminalModesNext, UpdateCheckNext,
           InvocationNext, EditorNext, PaletteNext

\* Of all the processes of an installation one asks about a release (UpdateService::check and
\* the prompt lock), until its answer is recorded, and the answer names a known release.
THEOREM OneAsks == Spec => []UpdateCheckSafe
<1>1. Init => UpdateInv
  BY UpdateInit DEF Init
<1>2. UpdateInv => UpdateCheckSafe
  BY UpdatesAssumption DEF UpdateInv, UpdateTypes, AskerHoldsLock, UpdateCheckSafe,
     U!UpdateCheckSafe, U!TypeOK, U!OnePrompt, U!None, CacheState, Release
<1> QED BY <1>1, <1>2, UpdateStep, PTL DEF Spec

-----------------------------------------------------------------------------
(* Terminal modes                                                          *)

ModeNames == {"raw", "screen", "mouse", "focus", "keyboard"}
Entering == {"screen", "mouse", "paste"}
Entered == {"focus", "keyboard", "entered", "run"}

\* Until the process leaves, every mode the terminal is in is noted or is undone with a note
\* (the alternate screen is noted late), the mouse is captured only when the settings ask for
\* it, and only a failed command leads to the guard's own attempt.
ModesInv ==
  /\ M!TypeOK
  /\ tmPc \in {"raw", "abandon", "drop", "unwind", "unhook", "ended"} \cup Entering \cup Entered
  /\ tmPc = "raw" => tmActive = {}
  /\ tmPc \in Entering => tmActive \subseteq tmEnabled \cup {"screen"}
  /\ tmPc \in Entered => /\ "screen" \in tmEnabled
                        /\ tmActive \subseteq tmEnabled \cup {"paste", "cursor"}
  /\ tmPc \in Entering \cup Entered /\ "mouse" \in tmActive => TmMouseCapture
  /\ tmPc = "drop" => tmBroken
  /\ M!OrderlyExitRestores

LEMMA ModesStep == ASSUME ModesInv, [Next]_vars PROVE ModesInv'
<1> USE ModesAssumption DEF ModesInv, Entering, Entered, M!TypeOK, M!OrderlyExitRestores
<1>1. CASE UNCHANGED tmVars
  BY <1>1 DEF tmVars
<1>2. CASE M!Next
  <2>1. CASE M!EnterRaw
    BY <2>1 DEF M!EnterRaw, M!Required, M!Fault, M!NoFault
  <2>2. CASE M!EnterScreen
    BY <2>2 DEF M!EnterScreen, M!Required, M!Fault, M!NoFault
  <2>3. CASE M!EnterMouse
    BY <2>3 DEF M!EnterMouse, M!Required, M!Fault, M!NoFault
  <2>4. CASE M!EnterPaste
    BY <2>4 DEF M!EnterPaste, M!Required, M!Fault, M!NoFault
  <2>5. CASE M!EnterFocus
    BY <2>5 DEF M!EnterFocus, M!Optional, M!Fault, M!NoFault
  <2>6. CASE M!EnterKeyboard
    BY <2>6 DEF M!EnterKeyboard, M!Optional, M!Fault, M!NoFault
  <2>7. CASE M!Guard \/ M!Unhook
    BY <2>7 DEF M!Guard, M!Unhook
  <2>8. CASE M!Abandon
    BY <2>8 DEF M!Abandon, M!Restore, M!Restored, M!Fault, M!NoFault
  <2>9. CASE M!Finish
    <3>1. /\ tmPc = "run" /\ "screen" \in tmEnabled
          /\ tmActive \subseteq tmEnabled \cup {"paste", "cursor"}
      BY <2>9 DEF M!Finish
    <3>2. tmActive \subseteq M!Undone(tmEnabled)
      <4>1. \A n \in tmEnabled : M!Undoes(n) \subseteq M!Undone(tmEnabled)
        BY Zenon DEF M!Undone
      <4>2. \A n \in tmEnabled : n \in M!Undoes(n)
        BY DEF M!Undoes
      <4>3. "paste" \in M!Undoes("screen")
        BY DEF M!Undoes
      <4>4. "cursor" \in M!Undone(tmEnabled)
        BY DEF M!Undone
      <4> QED BY <3>1, <4>1, <4>2, <4>3, <4>4
    <3>3. M!Restored({}) = {} /\ \A m : M!Restored({m}) \subseteq {m}
      BY <3>2 DEF M!Restored
    <3>4. \/ tmActive' = {} /\ tmPc' = "unhook" /\ tmBroken' = tmBroken
          \/ (\E m : tmActive' \subseteq {m}) /\ tmPc' = "drop" /\ tmBroken' = TRUE
      <4>1. \/ tmActive' = M!Restored({}) /\ tmPc' = "unhook" /\ tmBroken' = tmBroken
            \/ /\ \E m \in M!Undone(tmEnabled) : tmActive' = M!Restored({m})
               /\ tmPc' = "drop" /\ tmBroken' = TRUE
        BY <2>9, Zenon DEF M!Finish, M!Restore
      <4>2. ASSUME NEW m \in M!Undone(tmEnabled), tmActive' = M!Restored({m})
            PROVE  \E k : tmActive' \subseteq {k}
        <5>1. tmActive' \subseteq {m}
          BY <3>3, <4>2
        <5> QED BY <5>1
      <4>3. tmActive' = M!Restored({}) => tmActive' = {}
        BY <3>3
      <4> QED BY <4>1, <4>2, <4>3, Zenon
    <3>5. tmActive' \subseteq tmActive /\ tmEnabled' = {} /\ UNCHANGED <<tmGuarded, tmHooked>>
      BY <2>9 DEF M!Finish, M!Restore, M!Restored
    <3> QED BY <3>4, <3>5
  <2>10. CASE M!Drop
    <3>1. /\ tmPc \in {"drop", "unwind"} /\ tmGuarded' = FALSE /\ tmHooked' = tmHooked
          /\ tmEnabled' = {} /\ tmPc' = IF tmPc = "drop" THEN "unhook" ELSE "ended"
          /\ tmBroken' \in {tmBroken, TRUE}
      BY <2>10 DEF M!Drop, M!Restore
    <3>2. tmActive' \subseteq tmActive
      BY <2>10 DEF M!Drop, M!Restore, M!Restored
    <3>3. tmPc' = "unhook" => tmBroken'
      <4>1. ASSUME tmPc' = "unhook" PROVE tmBroken = TRUE
        BY <3>1, <4>1
      <4>2. ASSUME tmPc' = "unhook" PROVE tmBroken' = TRUE
        BY <3>1, <4>1, <4>2
      <4> QED BY <4>2
    <3>4. tmBroken' \in BOOLEAN
      BY <3>1
    <3>5. tmPc' = "unhook" => \E m : tmActive' \subseteq {m}
      BY <3>1, <3>2
    <3> QED BY <3>1, <3>2, <3>3, <3>4, <3>5
  <2>11. CASE M!Panic
    <3>1. tmPc = "run"
      BY <2>11 DEF M!Panic
    <3>2. tmActive \subseteq M!EmergencyModes
      BY <3>1 DEF M!EmergencyModes
    <3>3. /\ tmActive \ M!EmergencyModes = {}
          /\ \A m : tmActive \ (M!EmergencyModes \ {m}) \subseteq {m}
      BY <3>2
    <3>4. \/ tmActive' = {} /\ tmBroken' = tmBroken
          \/ (\E m : tmActive' \subseteq {m}) /\ tmBroken' = TRUE
      BY <2>11, <3>3 DEF M!Panic, M!NoFault
    <3>5. /\ tmPc' = "unwind" /\ tmActive' \subseteq tmActive
          /\ UNCHANGED <<tmEnabled, tmGuarded, tmHooked>>
      BY <2>11 DEF M!Panic
    <3> QED BY <3>4, <3>5
  <2> QED BY <1>2, <2>1, <2>2, <2>3, <2>4, <2>5, <2>6, <2>7, <2>8, <2>9, <2>10, <2>11
          DEF M!Next
<1> QED BY <1>1, <1>2 DEF Next, vars, InputRecoveryNext, TerminalModesNext, UpdateCheckNext,
           InvocationNext, EditorNext, PaletteNext

-----------------------------------------------------------------------------
(* Recovery from an input stall                                            *)

RecordState ==
  [lineage : Nat, pid : ReProcs \cup {"none"}, exe : Nat, attempts : Seq(Nat),
   phase : {"none", "prepared", "probation", "healthy"}, attempt : Nat, ui : BOOLEAN]
ProofState == [lineage : Nat, attempt : Nat, pid : ReProcs \cup {"none"}]
ProcState ==
  [pc : {"off", "exec", "running", "draining", "closing", "released", "prepared"},
   stage : {"healthy", "probation", "confirmed"}, disabled : BOOLEAN, record : RecordState,
   proof : ProofState, exe : Nat]

RecoveryTypes ==
  /\ reProc \in [ReProcs -> ProcState]
  /\ reLease \in ReProcs \cup {"none"}
  /\ reFile \in RecordState
  /\ reInstalled \in Nat /\ reNow \in Nat /\ reStalls \in Nat
  /\ reBegun \in [ReProcs -> Seq(Nat)]

\* The holder of the session lease runs.
LeaseRuns ==
  \A p \in ReProcs : reLease = p => reProc[p].pc \in {"running", "draining", "closing"}

\* Recoveries were begun in the order of the clock.
InClockOrder(s) ==
  /\ \A i \in 1 .. Len(s) : s[i] <= reNow
  /\ \A i, j \in 1 .. Len(s) : i <= j => s[i] <= s[j]

\* The attempts of a record are the last recoveries its process began; the ones before are
\* out of the window for good.
Fits(attempts, begun) ==
  /\ Len(attempts) <= Len(begun)
  /\ \A i \in 1 .. Len(attempts) : attempts[i] = begun[Len(begun) - Len(attempts) + i]
  /\ \A i \in 1 .. Len(begun) - Len(attempts) : begun[i] < reNow - ReWindow

\* Stalls number the attempts, so an attempt names one record.
Numbered == reFile.attempt <= reStalls /\ \A p \in ReProcs : reProc[p].record.attempt <= reStalls

\* A process carries its own record.
OwnRecord(p, x, begun) ==
  /\ x.pc \in {"running", "draining", "released", "prepared"} => Fits(x.record.attempts, begun)
  /\ x.record.pid \in {p, "none"}
  /\ x.record.pid = "none" => x.record = R!NoRecord
  /\ x.record.pid = p => x.record.attempts # <<>> /\ x.record.exe = x.exe
  /\ x.pc \in {"draining", "released", "prepared"} \/ x.stage = "probation" => x.record.pid = p

\* A record on disk with the number of the attempt a process is making is that process's own,
\* whoever wrote to the file in between.
Attempt(x) == IF x.pc = "exec" THEN x.proof.attempt ELSE x.record.attempt
FileFits(p, x, file, begun) ==
  ( /\ x.pc \in {"draining", "released", "prepared", "exec"}
    /\ file.pid = p /\ file.attempt = Attempt(x) )
  => Fits(file.attempts, begun) /\ file.attempts # <<>>

\* CircuitHolds for one process.
Spread(s) ==
  \A i \in DOMAIN s : i + ReMaxRecoveries \in DOMAIN s => s[i + ReMaxRecoveries] - s[i] > ReWindow

RecoveryInv ==
  /\ RecoveryTypes
  /\ LeaseRuns
  /\ Numbered
  /\ \A p \in ReProcs :
       /\ InClockOrder(reBegun[p])
       /\ Spread(reBegun[p])
       /\ OwnRecord(p, reProc[p], reBegun[p])
       /\ FileFits(p, reProc[p], reFile, reBegun[p])

\* What a step of one process has to establish: the rest keeps what it had.
LEMMA ProcStep ==
  ASSUME RecoveryInv,
         NEW p \in ReProcs, NEW x \in ProcState, NEW b \in Seq(Nat), NEW f \in RecordState,
         NEW l \in ReProcs \cup {"none"}, NEW n \in Nat,
         reProc' = [reProc EXCEPT ![p] = x], reBegun' = [reBegun EXCEPT ![p] = b],
         reFile' = f, reLease' = l, reStalls' = n, reInstalled' = reInstalled, reNow' = reNow,
         n >= reStalls, f.attempt <= n, x.record.attempt <= n,
         f = reFile \/ f.pid \in {p, "none"},
         l = reLease \/ l \in {p, "none"},
         l = p => x.pc \in {"running", "draining", "closing"},
         InClockOrder(b), Spread(b), OwnRecord(p, x, b), FileFits(p, x, f, b)
  PROVE  RecoveryInv'
<1> USE RecoveryAssumption
<1>1. RecoveryTypes'
  BY DEF RecoveryInv, RecoveryTypes
<1>2. /\ reProc'[p] = x /\ reBegun'[p] = b
      /\ \A q \in ReProcs : q # p => reProc'[q] = reProc[q] /\ reBegun'[q] = reBegun[q]
  BY DEF RecoveryInv, RecoveryTypes
<1>3. LeaseRuns'
  BY <1>2 DEF RecoveryInv, LeaseRuns
<1>4. Numbered'
  <2>1. \A q \in ReProcs : reProc[q].record.attempt \in Nat
    BY DEF RecoveryInv, RecoveryTypes, ProcState, RecordState
  <2> QED BY <1>2, <2>1 DEF RecoveryInv, Numbered, RecoveryTypes
<1>5. ASSUME NEW q \in ReProcs
      PROVE  /\ InClockOrder(reBegun[q])' /\ Spread(reBegun[q])'
             /\ OwnRecord(q, reProc[q], reBegun[q])' /\ FileFits(q, reProc[q], reFile, reBegun[q])'
  <2>1. CASE q = p
    <3>1. InClockOrder(reBegun[q])' /\ Spread(reBegun[q])'
      BY <1>2, <2>1 DEF InClockOrder, Spread
    <3>2. \A a, c : Fits(a, c)' = Fits(a, c)
      BY DEF Fits
    <3>3. OwnRecord(q, reProc[q], reBegun[q])'
      BY <1>2, <2>1, <3>2, Zenon DEF OwnRecord
    <3>4. FileFits(q, reProc[q], reFile, reBegun[q])'
      BY <1>2, <2>1, <3>2, Zenon DEF FileFits, Attempt
    <3> QED BY <3>1, <3>3, <3>4
  <2>2. CASE q # p
    <3>1. /\ InClockOrder(reBegun[q]) /\ Spread(reBegun[q])
          /\ OwnRecord(q, reProc[q], reBegun[q]) /\ FileFits(q, reProc[q], reFile, reBegun[q])
      BY DEF RecoveryInv
    <3>2. f.pid = q => f = reFile
      BY <2>2
    <3>3. FileFits(q, reProc[q], f, reBegun[q])
      BY <3>1, <3>2 DEF FileFits
    <3>4. InClockOrder(reBegun[q])' /\ Spread(reBegun[q])'
      BY <1>2, <2>2, <3>1 DEF InClockOrder, Spread
    <3>5. \A a, c : Fits(a, c)' = Fits(a, c)
      BY DEF Fits
    <3>6. OwnRecord(q, reProc[q], reBegun[q])'
      BY <1>2, <2>2, <3>1, <3>5, Zenon DEF OwnRecord
    <3>7. FileFits(q, reProc[q], reFile, reBegun[q])'
      BY <1>2, <2>2, <3>3, <3>5, Zenon DEF FileFits, Attempt
    <3> QED BY <3>4, <3>6, <3>7
  <2> QED BY <2>1, <2>2
<1> QED BY <1>1, <1>3, <1>4, <1>5 DEF RecoveryInv

\* A process that is not running carries nothing.
LEMMA EndStep ==
  ASSUME RecoveryInv, NEW p \in ReProcs, NEW l \in ReProcs \cup {"none"},
         reProc' = [reProc EXCEPT ![p] = R!Off], reLease' = l, l \in {reLease, "none"}, l # p,
         UNCHANGED <<reFile, reInstalled, reNow, reStalls, reBegun>>
  PROVE  RecoveryInv'
<1>1. /\ R!Off \in ProcState /\ R!Off.record.attempt = 0
      /\ \A b : OwnRecord(p, R!Off, b)
      /\ \A b : FileFits(p, R!Off, reFile, b)
  BY RecoveryAssumption DEF R!Off, R!NoRecord, R!NoProof, R!None, ProcState, RecordState,
     ProofState, OwnRecord, FileFits
<1>2. /\ reBegun[p] \in Seq(Nat) /\ reFile \in RecordState /\ reStalls \in Nat
      /\ reBegun' = [reBegun EXCEPT ![p] = reBegun[p]]
      /\ InClockOrder(reBegun[p]) /\ Spread(reBegun[p]) /\ reFile.attempt <= reStalls
  BY DEF RecoveryInv, RecoveryTypes, Numbered
<1>3. /\ reStalls >= reStalls /\ R!Off.record.attempt <= reStalls
      /\ reFile' = reFile /\ reStalls' = reStalls /\ reInstalled' = reInstalled /\ reNow' = reNow
      /\ l = reLease \/ l \in {p, "none"}
  BY <1>1, <1>2
<1>4. OwnRecord(p, R!Off, reBegun[p]) /\ FileFits(p, R!Off, reFile, reBegun[p])
  BY <1>1
<1> QED BY <1>1, <1>2, <1>3, <1>4, ProcStep, Zenon

\* A set of natural numbers has a least one.
LEMMA LeastNatural ==
  ASSUME NEW T \in SUBSET Nat, T # {} PROVE \E m \in T : \A k \in T : m <= k
<1>1. PICK m \in T : \A k \in T : ~(<<k, m>> \in OpToRel(<, Nat))
  BY NatLessThanWellFounded, WFMin
<1>2. \A k \in T : <<k, m>> \in Nat \X Nat
  OBVIOUS
<1>3. \A k \in T : k < m => <<k, m>> \in OpToRel(<, Nat)
  BY <1>2 DEF OpToRel
<1>4. \A k \in T : ~(k < m)
  BY <1>1, <1>3
<1> QED BY <1>4

\* What stays of attempts in clock order fits what was begun.
LEMMA RetainedFits ==
  ASSUME RecoveryTypes, NEW p \in ReProcs, NEW b \in Seq(Nat), InClockOrder(b),
         Fits(reProc[p].record.attempts, b)
  PROVE  R!Retained(p) \in Seq(Nat) /\ Fits(R!Retained(p), b)
<1> USE RecoveryAssumption
<1> DEFINE a == reProc[p].record.attempts
<1> DEFINE cut == reNow - ReWindow
<1>1. a \in Seq(Nat) /\ reNow \in Nat
  BY DEF RecoveryTypes, ProcState, RecordState
<1>2. \A i, j \in 1 .. Len(a) : i <= j => a[i] <= a[j]
  <2> SUFFICES ASSUME NEW i \in 1 .. Len(a), NEW j \in 1 .. Len(a), i <= j PROVE a[i] <= a[j]
    OBVIOUS
  <2>1. a[i] = b[Len(b) - Len(a) + i] /\ a[j] = b[Len(b) - Len(a) + j] /\ Len(a) <= Len(b)
    BY DEF Fits
  <2>2. /\ Len(b) - Len(a) + i \in 1 .. Len(b) /\ Len(b) - Len(a) + j \in 1 .. Len(b)
        /\ Len(b) - Len(a) + i <= Len(b) - Len(a) + j
    BY <1>1, <2>1
  <2> QED BY <2>1, <2>2 DEF InClockOrder
<1> DEFINE T == {i \in 1 .. Len(a) + 1 : i = Len(a) + 1 \/ a[i] >= cut}
<1>3. T \in SUBSET Nat /\ Len(a) + 1 \in T
  BY <1>1
<1>4. PICK m \in T : \A k \in T : m <= k
  BY <1>3, LeastNatural
<1>5. m \in 1 .. Len(a) + 1
  OBVIOUS
<1>6. \A j \in 1 .. m - 1 : a[j] < cut
  <2> SUFFICES ASSUME NEW j \in 1 .. m - 1 PROVE a[j] < cut
    OBVIOUS
  <2>1. j \notin T
    BY <1>4, <1>1
  <2>2. j \in 1 .. Len(a) /\ a[j] \in Nat
    BY <1>1, <1>5
  <2> QED BY <1>1, <2>1, <2>2
<1>7. \A j \in m .. Len(a) : a[j] >= cut
  <2> SUFFICES ASSUME NEW j \in m .. Len(a) PROVE a[j] >= cut
    OBVIOUS
  <2>1. m \in 1 .. Len(a) /\ j \in 1 .. Len(a) /\ m <= j
    BY <1>1, <1>5
  <2>3. m # Len(a) + 1
    BY <1>1, <2>1
  <2>4. a[m] >= cut
    BY <2>3
  <2>2. a[m] <= a[j]
    BY <1>2, <2>1
  <2> HIDE DEF a
  <2>5. a[m] \in Nat /\ a[j] \in Nat
    BY <1>1, <2>1
  <2> QED BY <1>1, <2>2, <2>4, <2>5, RecoveryAssumption DEF cut
<1> HIDE DEF a, cut, T
<1> DEFINE k == R!FirstRetained(a)
<1>8. /\ k \in 1 .. Len(a) + 1
      /\ \A j \in 1 .. k - 1 : a[j] < cut
  <2>1. \E i \in 1 .. Len(a) + 1 : /\ \A j \in 1 .. i - 1 : a[j] < cut
                                 /\ \A j \in i .. Len(a) : a[j] >= cut
    BY <1>5, <1>6, <1>7, Zenon
  <2>2. k = CHOOSE i \in 1 .. Len(a) + 1 : /\ \A j \in 1 .. i - 1 : a[j] < cut
                                         /\ \A j \in i .. Len(a) : a[j] >= cut
    BY DEF R!FirstRetained, cut
  <2> HIDE DEF k
  <2> QED BY <2>1, <2>2, Zenon
<1> DEFINE s == SubSeq(a, k, Len(a))
<1>9. R!Retained(p) = s
  BY DEF R!Retained, a
<1> HIDE DEF k
<1>10. /\ s \in Seq(Nat) /\ Len(s) = Len(a) - k + 1
       /\ \A i \in 1 .. Len(s) : s[i] = a[k + i - 1]
  BY <1>1, <1>8
<1>11. /\ Len(a) <= Len(b)
       /\ \A i \in 1 .. Len(a) : a[i] = b[Len(b) - Len(a) + i]
       /\ \A i \in 1 .. Len(b) - Len(a) : b[i] < cut
  BY DEF Fits, a, cut
<1> HIDE DEF s, cut
<1>12. \A i \in 1 .. Len(s) : s[i] = b[Len(b) - Len(s) + i]
  <2> SUFFICES ASSUME NEW i \in 1 .. Len(s) PROVE s[i] = b[Len(b) - Len(s) + i]
    OBVIOUS
  <2>1. k + i - 1 \in 1 .. Len(a) /\ s[i] = a[k + i - 1]
    BY <1>1, <1>8, <1>10
  <2>2. Len(b) - Len(a) + (k + i - 1) = Len(b) - Len(s) + i
    BY <1>1, <1>8, <1>10
  <2> QED BY <2>1, <2>2, <1>11
<1>13. \A i \in 1 .. Len(b) - Len(s) : b[i] < cut
  <2> SUFFICES ASSUME NEW i \in 1 .. Len(b) - Len(s) PROVE b[i] < cut
    OBVIOUS
  <2>1. CASE i <= Len(b) - Len(a)
    BY <1>1, <1>11, <2>1
  <2>2. CASE i > Len(b) - Len(a)
    <3>1. i - (Len(b) - Len(a)) \in 1 .. k - 1 /\ i - (Len(b) - Len(a)) \in 1 .. Len(a)
      BY <1>1, <1>8, <1>10, <2>2
    <3>2. Len(b) - Len(a) + (i - (Len(b) - Len(a))) = i
      BY <1>1
    <3> QED BY <1>8, <1>11, <3>1, <3>2
  <2> QED BY <1>1, <2>1, <2>2
<1>14. Len(s) <= Len(b)
  BY <1>1, <1>8, <1>10, <1>11
<1>15. Fits(s, b)
  BY <1>12, <1>13, <1>14 DEF Fits, cut
<1> QED BY <1>9, <1>10, <1>15

LEMMA PushFits ==
  ASSUME NEW r \in Seq(Nat), NEW b \in Seq(Nat), reNow \in Nat, Fits(r, b)
  PROVE  Fits(Append(r, reNow), Append(b, reNow))
<1> DEFINE s == Append(r, reNow)
<1> DEFINE c == Append(b, reNow)
<1>1. /\ Len(s) = Len(r) + 1 /\ Len(c) = Len(b) + 1
      /\ \A i \in 1 .. Len(r) : s[i] = r[i] /\ s[Len(r) + 1] = reNow
      /\ \A i \in 1 .. Len(b) : c[i] = b[i]
      /\ s[Len(r) + 1] = reNow /\ c[Len(b) + 1] = reNow
  OBVIOUS
<1>2. /\ Len(r) \in Nat /\ Len(b) \in Nat /\ Len(r) <= Len(b)
      /\ \A i \in 1 .. Len(r) : r[i] = b[Len(b) - Len(r) + i]
      /\ \A i \in 1 .. Len(b) - Len(r) : b[i] < reNow - ReWindow
  BY DEF Fits
<1> HIDE DEF s, c
<1>3. \A i \in 1 .. Len(s) : s[i] = c[Len(c) - Len(s) + i]
  <2> SUFFICES ASSUME NEW i \in 1 .. Len(s) PROVE s[i] = c[Len(c) - Len(s) + i]
    OBVIOUS
  <2>1. CASE i = Len(r) + 1
    BY <1>1, <1>2, <2>1
  <2>2. CASE i \in 1 .. Len(r)
    <3>1. /\ Len(c) - Len(s) + i = Len(b) - Len(r) + i
          /\ Len(b) - Len(r) + i \in 1 .. Len(b)
      BY <1>1, <1>2, <2>2
    <3> QED BY <1>1, <1>2, <2>2, <3>1
  <2> QED BY <1>1, <1>2, <2>1, <2>2
<1>4. \A i \in 1 .. Len(c) - Len(s) : c[i] < reNow - ReWindow
  <2> SUFFICES ASSUME NEW i \in 1 .. Len(c) - Len(s) PROVE c[i] < reNow - ReWindow
    OBVIOUS
  <2>1. i \in 1 .. Len(b) - Len(r) /\ i \in 1 .. Len(b)
    BY <1>1, <1>2
  <2> QED BY <1>1, <1>2, <2>1
<1>5. Len(s) <= Len(c)
  BY <1>1, <1>2
<1> QED BY <1>3, <1>4, <1>5 DEF Fits, s, c

LEMMA PushOrdered ==
  ASSUME NEW s \in Seq(Nat), reNow \in Nat, InClockOrder(s)
  PROVE  InClockOrder(Append(s, reNow))
<1> DEFINE b == Append(s, reNow)
<1>1. /\ Len(s) \in Nat /\ Len(b) = Len(s) + 1 /\ b[Len(s) + 1] = reNow
      /\ \A i \in 1 .. Len(s) : b[i] = s[i] /\ s[i] \in Nat
  OBVIOUS
<1>2. /\ \A i \in 1 .. Len(s) : s[i] <= reNow
      /\ \A i, j \in 1 .. Len(s) : i <= j => s[i] <= s[j]
  BY DEF InClockOrder
<1> HIDE DEF b
<1>3. ASSUME NEW i \in 1 .. Len(b) PROVE b[i] <= reNow
  <2>1. CASE i = Len(s) + 1
    BY <1>1, <2>1
  <2>2. CASE i \in 1 .. Len(s)
    BY <1>1, <1>2, <2>2
  <2> QED BY <1>1, <2>1, <2>2
<1>4. ASSUME NEW i \in 1 .. Len(b), NEW j \in 1 .. Len(b), i <= j PROVE b[i] <= b[j]
  <2>1. CASE j = Len(s) + 1
    BY <1>1, <1>3, <2>1
  <2>2. CASE j \in 1 .. Len(s)
    <3>1. i \in 1 .. Len(s)
      BY <1>1, <1>4, <2>2
    <3> QED BY <1>1, <1>2, <1>4, <2>2, <3>1
  <2> QED BY <1>1, <2>1, <2>2
<1> QED BY <1>3, <1>4 DEF InClockOrder, b

LEMMA PushSpread ==
  ASSUME NEW s \in Seq(Nat), NEW r \in Seq(Nat), reNow \in Nat, Spread(s), Fits(r, s),
         Len(r) < ReMaxRecoveries
  PROVE  Spread(Append(s, reNow))
<1> USE RecoveryAssumption
<1> DEFINE b == Append(s, reNow)
<1>1. /\ Len(s) \in Nat /\ Len(b) = Len(s) + 1 /\ b[Len(s) + 1] = reNow
      /\ \A i \in 1 .. Len(s) : b[i] = s[i] /\ s[i] \in Nat
      /\ DOMAIN b = 1 .. Len(b) /\ DOMAIN s = 1 .. Len(s) /\ Len(r) \in Nat
  OBVIOUS
<1> HIDE DEF b
<1>2. ASSUME NEW i \in DOMAIN b, i + ReMaxRecoveries \in DOMAIN b
      PROVE  b[i + ReMaxRecoveries] - b[i] > ReWindow
  <2>1. CASE i + ReMaxRecoveries \in 1 .. Len(s)
    <3>1. i \in 1 .. Len(s)
      BY <1>1, <1>2, <2>1
    <3>2. s[i + ReMaxRecoveries] - s[i] > ReWindow
      BY <1>1, <2>1, <3>1 DEF Spread
    <3> QED BY <1>1, <2>1, <3>1, <3>2
  <2>2. CASE i + ReMaxRecoveries = Len(s) + 1
    <3>1. i \in 1 .. Len(s) - Len(r) /\ i \in 1 .. Len(s)
      BY <1>1, <1>2, <2>2
    <3>2. s[i] < reNow - ReWindow
      BY <3>1 DEF Fits
    <3>3. b[i] = s[i] /\ s[i] \in Nat /\ b[i + ReMaxRecoveries] = reNow
      BY <1>1, <2>2, <3>1
    <3> QED BY <3>2, <3>3
  <2> QED BY <1>1, <1>2, <2>1, <2>2
<1> QED BY <1>2 DEF Spread, b

\* The ways the state of a process is changed in part.
LEMMA StateParts ==
  ASSUME NEW x \in ProcState,
         NEW c \in {"off", "exec", "running", "draining", "closing", "released", "prepared"},
         NEW t \in {"healthy", "probation", "confirmed"}, NEW r \in RecordState,
         NEW d \in BOOLEAN
  PROVE  /\ [x EXCEPT !.pc = c] \in ProcState
         /\ [x EXCEPT !.pc = c, !.disabled = d] \in ProcState
         /\ [x EXCEPT !.pc = c, !.record = r] \in ProcState
         /\ [x EXCEPT !.stage = t, !.record = r] \in ProcState
         /\ [x EXCEPT !.stage = t, !.record = r, !.disabled = d] \in ProcState
         /\ [x EXCEPT !.pc = c, !.stage = t, !.record = r] \in ProcState
BY DEF ProcState

\* A start by hand begins anew.
LEMMA OpenOrdinaryStep ==
  ASSUME RecoveryInv, NEW p \in ReProcs, R!OpenOrdinary(p) PROVE RecoveryInv'
<1> USE RecoveryAssumption DEF R!None
<1>0. /\ R!NoRecord \in RecordState /\ R!NoRecord.attempt = 0 /\ R!NoRecord.pid = "none"
      /\ R!NoRecord.attempts = <<>>
  BY DEF R!NoRecord, RecordState
<1>1. PICK x : /\ reProc' = [reProc EXCEPT ![p] = x]
               /\ \/ x = [R!Off EXCEPT !.pc = "running", !.exe = reInstalled]
                  \/ x = [R!Off EXCEPT !.pc = "running", !.exe = reInstalled, !.disabled = TRUE]
  BY DEF R!OpenOrdinary
<1>2. x \in ProcState /\ x.pc = "running" /\ x.record = R!NoRecord /\ x.stage = "healthy"
  <2>1. reInstalled \in Nat
    BY DEF RecoveryInv, RecoveryTypes
  <2>2. R!NoProof \in ProofState
    BY DEF R!NoProof, ProofState
  <2> HIDE DEF R!None
  <2> QED BY <1>0, <1>1, <2>1, <2>2 DEF R!Off, ProcState
<1>3. /\ reFile' \in {reFile, R!NoRecord} /\ reLease' = p /\ reStalls' = reStalls
      /\ reInstalled' = reInstalled /\ reNow' = reNow /\ reBegun' = [reBegun EXCEPT ![p] = <<>>]
  BY DEF R!OpenOrdinary
<1>4. /\ reFile \in RecordState /\ reStalls \in Nat /\ reFile.attempt <= reStalls
  BY DEF RecoveryInv, RecoveryTypes, Numbered
<1>5. InClockOrder(<<>>) /\ Spread(<<>>) /\ Fits(<<>>, <<>>)
  BY DEF InClockOrder, Spread, Fits
<1>6. OwnRecord(p, x, <<>>)
  BY <1>0, <1>2, <1>5 DEF OwnRecord
<1>7. ASSUME NEW f PROVE FileFits(p, x, f, <<>>)
  BY <1>2 DEF FileFits
<1>8. PICK f \in RecordState :
        /\ f = reFile' /\ f.attempt <= reStalls
        /\ f = reFile \/ f.pid \in {p, "none"}
  BY <1>0, <1>3, <1>4
<1>9. /\ <<>> \in Seq(Nat) /\ p \in ReProcs \cup {"none"} /\ reStalls >= reStalls
      /\ x.record.attempt <= reStalls /\ p \in {p, "none"}
      /\ p = p => x.pc \in {"running", "draining", "closing"}
  BY <1>0, <1>2, <1>4
<1>10. /\ reFile' = f /\ reNow' = reNow
       /\ p = reLease \/ p \in {p, "none"}
  BY <1>3, <1>8, Zenon
<1>11. FileFits(p, x, f, <<>>)
  BY <1>7
<1> QED BY <1>1, <1>2, <1>3, <1>4, <1>5, <1>6, <1>8, <1>9, <1>10, <1>11, ProcStep, Zenon

\* A replacement is admitted by its own record only, and continues its attempts.
LEMMA OpenProbationStep ==
  ASSUME RecoveryInv, NEW p \in ReProcs, R!OpenProbation(p) PROVE RecoveryInv'
<1> USE RecoveryAssumption DEF R!None
<1>1. CASE reProc' = [reProc EXCEPT ![p] = R!Off]
  <2>1. /\ UNCHANGED <<reFile, reLease, reInstalled, reNow, reStalls, reBegun>>
        /\ reLease = "none"
    <3>1. /\ reLease = "none" /\ reProc[p].pc = "exec"
          /\ UNCHANGED <<reInstalled, reNow, reStalls, reBegun>>
      BY DEF R!OpenProbation
    <3>2. [R!Off EXCEPT !.pc = "running", !.stage = "probation", !.exe = reInstalled,
                        !.record = R!Probation] # R!Off
      BY DEF R!Off
    <3>3. ~(reProc' = [reProc EXCEPT ![p] = [R!Off EXCEPT !.pc = "running", !.stage = "probation",
                        !.exe = reInstalled, !.record = R!Probation]])
      BY <1>1, <3>2 DEF RecoveryInv, RecoveryTypes
    <3> QED BY <3>1, <3>3 DEF R!OpenProbation
  <2> QED BY <1>1, <2>1, EndStep
<1>2. CASE ~(reProc' = [reProc EXCEPT ![p] = R!Off])
  <2> DEFINE r == R!Probation
  <2> DEFINE x == [R!Off EXCEPT !.pc = "running", !.stage = "probation", !.exe = reInstalled,
                                !.record = R!Probation]
  <2>1. /\ R!Exact(p) /\ reProc[p].pc = "exec" /\ reFile' = r /\ reLease' = p
        /\ reProc' = [reProc EXCEPT ![p] = x]
        /\ UNCHANGED <<reInstalled, reNow, reStalls, reBegun>>
    BY <1>2 DEF R!OpenProbation
  <2>2. /\ reFile.pid = p /\ reFile.exe = reInstalled
        /\ reFile.attempt = reProc[p].proof.attempt
    BY <2>1 DEF R!Exact
  <2>3. /\ reFile \in RecordState /\ reStalls \in Nat /\ reFile.attempt <= reStalls
        /\ reInstalled \in Nat /\ reBegun[p] \in Seq(Nat)
        /\ FileFits(p, reProc[p], reFile, reBegun[p])
        /\ InClockOrder(reBegun[p]) /\ Spread(reBegun[p])
    BY DEF RecoveryInv, RecoveryTypes, Numbered
  <2>4. /\ r \in RecordState /\ r.pid = reFile.pid /\ r.exe = reFile.exe
        /\ r.attempts = reFile.attempts /\ r.attempt = reFile.attempt
    BY <2>3 DEF R!Probation, RecordState
  <2>5. Fits(reFile.attempts, reBegun[p]) /\ reFile.attempts # <<>>
    BY <2>1, <2>2, <2>3 DEF FileFits, Attempt
  <2> HIDE DEF r
  <2>6. /\ x \in ProcState /\ x.pc = "running" /\ x.record = r /\ x.exe = reInstalled
    BY <2>3, <2>4 DEF R!Off, R!NoProof, ProcState, ProofState, r
  <2> HIDE DEF x
  <2>7. OwnRecord(p, x, reBegun[p])
    BY <2>2, <2>4, <2>5, <2>6 DEF OwnRecord
  <2>8. FileFits(p, x, r, reBegun[p])
    BY <2>6 DEF FileFits
  <2>9. /\ reBegun' = [reBegun EXCEPT ![p] = reBegun[p]] /\ reStalls' = reStalls
        /\ reInstalled' = reInstalled /\ reNow' = reNow
    BY <2>1 DEF RecoveryInv, RecoveryTypes
  <2>10. /\ p \in ReProcs \cup {"none"} /\ reStalls >= reStalls
         /\ r.attempt <= reStalls /\ x.record.attempt <= reStalls
         /\ r.pid \in {p, "none"} /\ p \in {p, "none"}
         /\ x.pc \in {"running", "draining", "closing"}
    BY <2>2, <2>3, <2>4, <2>6
  <2> QED BY <2>1, <2>3, <2>4, <2>6, <2>7, <2>8, <2>9, <2>10, ProcStep, Zenon
<1> QED BY <1>1, <1>2

\* A healthy replacement keeps its attempts.
LEMMA ProveHealthyStep ==
  ASSUME RecoveryInv, NEW p \in ReProcs, R!ProveHealthy(p) PROVE RecoveryInv'
<1> USE RecoveryAssumption DEF R!None
<1> DEFINE r == R!Healthy(p)
<1>1. /\ reProc[p] \in ProcState /\ reProc[p].record \in RecordState /\ reFile \in RecordState
      /\ reStalls \in Nat /\ reFile.attempt <= reStalls /\ reProc[p].record.attempt <= reStalls
      /\ reBegun[p] \in Seq(Nat) /\ reLease \in ReProcs \cup {"none"}
      /\ OwnRecord(p, reProc[p], reBegun[p])
      /\ InClockOrder(reBegun[p]) /\ Spread(reBegun[p])
  BY DEF RecoveryInv, RecoveryTypes, Numbered, ProcState
<1>2. /\ r \in RecordState /\ r.pid = reProc[p].record.pid /\ r.exe = reProc[p].record.exe
      /\ r.attempts = reProc[p].record.attempts /\ r.attempt = reProc[p].record.attempt
  BY <1>1 DEF R!Healthy, RecordState
<1> HIDE DEF r
<1>3. PICK d \in BOOLEAN :
        reProc' = [reProc EXCEPT ![p] =
                     [reProc[p] EXCEPT !.stage = "healthy", !.record = r, !.disabled = d]]
  <2>1. reProc \in [ReProcs -> ProcState]
    BY DEF RecoveryInv, RecoveryTypes
  <2>2. /\ reProc' = [reProc EXCEPT ![p].stage = "healthy", ![p].record = r]
             => reProc' = [reProc EXCEPT ![p] =
                             [reProc[p] EXCEPT !.stage = "healthy", !.record = r]]
        /\ reProc' = [reProc EXCEPT ![p].stage = "healthy", ![p].record = r, ![p].disabled = TRUE]
             => reProc' = [reProc EXCEPT ![p] =
                             [reProc[p] EXCEPT !.stage = "healthy", !.record = r, !.disabled = TRUE]]
    BY <2>1
  <2>3. \/ reProc' = [reProc EXCEPT ![p].stage = "healthy", ![p].record = r]
        \/ reProc' = [reProc EXCEPT ![p].stage = "healthy", ![p].record = r, ![p].disabled = TRUE]
    BY DEF R!ProveHealthy, r
  <2>4. /\ reProc[p].disabled \in BOOLEAN
        /\ [reProc[p] EXCEPT !.stage = "healthy", !.record = r]
            = [reProc[p] EXCEPT !.stage = "healthy", !.record = r, !.disabled = reProc[p].disabled]
    BY <1>1 DEF ProcState
  <2> QED BY <2>2, <2>3, <2>4
<1> DEFINE x == [reProc[p] EXCEPT !.stage = "healthy", !.record = r, !.disabled = d]
<1>4. /\ x \in ProcState /\ x.pc = reProc[p].pc /\ x.exe = reProc[p].exe /\ x.record = r
      /\ x.pc = "running"
  <2>1. x \in ProcState
    BY <1>1, <1>2, StateParts
  <2>2. reProc[p].pc = "running"
    BY DEF R!ProveHealthy
  <2> QED BY <1>1, <2>1, <2>2 DEF ProcState
<1>5. reProc' = [reProc EXCEPT ![p] = x]
  BY <1>3
<1> HIDE DEF x
<1>6. reProc[p].record.pid = p
  BY <1>1 DEF R!ProveHealthy, OwnRecord
<1>7. OwnRecord(p, x, reBegun[p])
  BY <1>1, <1>2, <1>4, <1>6 DEF OwnRecord
<1>8. ASSUME NEW f PROVE FileFits(p, x, f, reBegun[p])
  BY <1>4 DEF FileFits
<1>9. /\ reFile' \in {reFile, r} /\ reLease' = reLease /\ reStalls' = reStalls
      /\ reInstalled' = reInstalled /\ reNow' = reNow
      /\ reBegun' = [reBegun EXCEPT ![p] = reBegun[p]]
  BY DEF R!ProveHealthy, r, RecoveryInv, RecoveryTypes
<1>10. PICK f \in RecordState :
         /\ reFile' = f /\ f.attempt <= reStalls
         /\ f = reFile \/ f.pid \in {p, "none"}
  BY <1>1, <1>2, <1>6, <1>9
<1>11. /\ reStalls >= reStalls /\ x.record.attempt <= reStalls
       /\ reLease = reLease \/ reLease \in {p, "none"}
       /\ reLease = p => x.pc \in {"running", "draining", "closing"}
  BY <1>1, <1>2, <1>4
<1>12. FileFits(p, x, f, reBegun[p])
  BY <1>8
<1> QED BY <1>1, <1>4, <1>5, <1>7, <1>9, <1>10, <1>11, <1>12, ProcStep, Zenon

\* What is known of a process before a step of it.
LEMMA ProcFacts ==
  ASSUME RecoveryInv, NEW p \in ReProcs
  PROVE  /\ reProc \in [ReProcs -> ProcState]
         /\ reProc[p] \in ProcState /\ reProc[p].record \in RecordState /\ reProc[p].exe \in Nat
         /\ reFile \in RecordState /\ reStalls \in Nat /\ reNow \in Nat
         /\ reFile.attempt <= reStalls /\ reProc[p].record.attempt <= reStalls
         /\ reFile.attempt \in Nat /\ reProc[p].record.attempt \in Nat
         /\ reBegun[p] \in Seq(Nat) /\ reBegun = [reBegun EXCEPT ![p] = reBegun[p]]
         /\ reLease \in ReProcs \cup {"none"}
         /\ InClockOrder(reBegun[p]) /\ Spread(reBegun[p])
         /\ OwnRecord(p, reProc[p], reBegun[p]) /\ FileFits(p, reProc[p], reFile, reBegun[p])
BY DEF RecoveryInv, RecoveryTypes, Numbered, ProcState, RecordState

\* A stall that is recovered from is the first in its window but MaxRecoveries.
LEMMA StallRecovers ==
  ASSUME RecoveryInv, NEW p \in ReProcs, R!Stall(p), R!Recovers(p) PROVE RecoveryInv'
<1> USE RecoveryAssumption DEF R!None
<1>0. /\ reProc \in [ReProcs -> ProcState]
      /\ reProc[p] \in ProcState /\ reProc[p].record \in RecordState /\ reProc[p].exe \in Nat
      /\ reFile \in RecordState /\ reStalls \in Nat /\ reNow \in Nat
      /\ reFile.attempt <= reStalls /\ reProc[p].record.attempt <= reStalls
      /\ reFile.attempt \in Nat /\ reProc[p].record.attempt \in Nat
      /\ reBegun[p] \in Seq(Nat) /\ reLease \in ReProcs \cup {"none"}
      /\ InClockOrder(reBegun[p]) /\ Spread(reBegun[p])
      /\ OwnRecord(p, reProc[p], reBegun[p]) /\ RecoveryTypes
  BY ProcFacts DEF RecoveryInv
<1> DEFINE kept == R!Retained(p)
<1> DEFINE b == Append(reBegun[p], reNow)
<1> DEFINE r == R!Prepared(p)
<1> DEFINE x == [reProc[p] EXCEPT !.pc = "draining", !.stage = "confirmed", !.record = r]
<1>1. /\ reProc[p].pc = "running" /\ reStalls' = reStalls + 1
      /\ reProc' = [reProc EXCEPT ![p].pc = "draining", ![p].stage = "confirmed", ![p].record = r]
      /\ reBegun' = [reBegun EXCEPT ![p] = Append(@, reNow)]
      /\ UNCHANGED <<reLease, reFile, reInstalled, reNow>>
  BY DEF R!Stall
<1>2. reProc' = [reProc EXCEPT ![p] = x] /\ reBegun' = [reBegun EXCEPT ![p] = b]
  BY <1>0, <1>1
<1>3. Fits(reProc[p].record.attempts, reBegun[p])
  BY <1>0, <1>1 DEF OwnRecord
<1>4. kept \in Seq(Nat) /\ Fits(kept, reBegun[p]) /\ Len(kept) < ReMaxRecoveries
  BY <1>0, <1>3, RetainedFits DEF R!Recovers
<1>5. Fits(Append(kept, reNow), b)
  BY <1>0, <1>4, PushFits
<1> HIDE DEF kept
<1>6. /\ r \in RecordState /\ r.pid = p /\ r.exe = reProc[p].exe /\ r.attempt = reStalls + 1
      /\ r.attempts = Append(kept, reNow)
  <2>1. reProc[p].record.lineage \in Nat /\ Append(kept, reNow) \in Seq(Nat)
    BY <1>0, <1>4 DEF RecordState
  <2> QED BY <1>0, <2>1 DEF R!Prepared, RecordState, kept
<1> HIDE DEF r
<1>7. /\ x \in ProcState /\ x.pc = "draining" /\ x.record = r /\ x.exe = reProc[p].exe
  <2>1. x \in ProcState
    BY <1>0, <1>6, StateParts
  <2> QED BY <1>0, <2>1 DEF ProcState
<1> HIDE DEF x
<1>8. r.attempts # <<>>
  BY <1>4, <1>6
<1>9. OwnRecord(p, x, b)
  BY <1>5, <1>6, <1>7, <1>8 DEF OwnRecord
<1>10. FileFits(p, x, reFile, b)
  BY <1>0, <1>6, <1>7 DEF FileFits, Attempt
<1>11. b \in Seq(Nat)
  BY <1>0
<1>12. InClockOrder(b)
  BY <1>0, PushOrdered
<1>13. Spread(b)
  BY <1>0, <1>4, PushSpread
<1> HIDE DEF b
<1>14. /\ reStalls + 1 \in Nat /\ reStalls + 1 >= reStalls /\ reFile.attempt <= reStalls + 1
       /\ x.record.attempt <= reStalls + 1
       /\ reFile = reFile \/ reFile.pid \in {p, "none"}
       /\ reLease = reLease \/ reLease \in {p, "none"}
       /\ reLease = p => x.pc \in {"running", "draining", "closing"}
       /\ reLease' = reLease /\ reFile' = reFile /\ reInstalled' = reInstalled /\ reNow' = reNow
  BY <1>0, <1>1, <1>6, <1>7
<1> QED BY <1>0, <1>1, <1>2, <1>7, <1>9, <1>10, <1>11, <1>12, <1>13, <1>14, ProcStep, Zenon

\* A stall that is not recovered from ends the process.
LEMMA StallEnds ==
  ASSUME RecoveryInv, NEW p \in ReProcs, R!Stall(p), ~R!Recovers(p) PROVE RecoveryInv'
<1> USE RecoveryAssumption DEF R!None
<1>0. /\ reProc \in [ReProcs -> ProcState]
      /\ reProc[p] \in ProcState
      /\ reFile \in RecordState /\ reStalls \in Nat
      /\ reFile.attempt <= reStalls /\ reProc[p].record.attempt <= reStalls
      /\ reFile.attempt \in Nat /\ reProc[p].record.attempt \in Nat
      /\ reBegun[p] \in Seq(Nat) /\ reLease \in ReProcs \cup {"none"}
      /\ reBegun = [reBegun EXCEPT ![p] = reBegun[p]]
      /\ InClockOrder(reBegun[p]) /\ Spread(reBegun[p])
      /\ OwnRecord(p, reProc[p], reBegun[p])
  BY ProcFacts
<1>1. PICK d \in BOOLEAN :
        /\ reProc' = [reProc EXCEPT ![p].pc = "closing", ![p].disabled = d]
        /\ reStalls' = reStalls + 1 /\ UNCHANGED <<reLease, reFile, reInstalled, reNow, reBegun>>
  <2> DEFINE e == reProc[p].disabled \/ (reProc[p].stage # "probation" /\ ~R!RecordIsCurrent(p))
  <2>1. e \in BOOLEAN
    OBVIOUS
  <2>2. reProc' = [reProc EXCEPT ![p].pc = "closing", ![p].disabled = e]
    <3>1. reProc' = [reProc EXCEPT ![p].pc = "closing",
                       ![p].disabled = @ \/ (reProc[p].stage # "probation" /\ ~R!RecordIsCurrent(p))]
      BY DEF R!Stall
    <3> QED BY <1>0, <3>1 DEF ProcState
  <2>3. reStalls' = reStalls + 1 /\ UNCHANGED <<reLease, reFile, reInstalled, reNow, reBegun>>
    BY DEF R!Stall
  <2> QED BY <2>1, <2>2, <2>3
<1> DEFINE x == [reProc[p] EXCEPT !.pc = "closing", !.disabled = d]
<1>2. reProc' = [reProc EXCEPT ![p] = x]
  BY <1>0, <1>1
<1>3. /\ x \in ProcState /\ x.pc = "closing" /\ x.record = reProc[p].record
      /\ x.exe = reProc[p].exe /\ x.stage = reProc[p].stage
  BY <1>0 DEF ProcState
<1> HIDE DEF x
<1>4. OwnRecord(p, x, reBegun[p]) /\ FileFits(p, x, reFile, reBegun[p])
  BY <1>0, <1>3 DEF OwnRecord, FileFits
<1>5. /\ reStalls + 1 \in Nat /\ reStalls + 1 >= reStalls /\ reFile.attempt <= reStalls + 1
      /\ x.record.attempt <= reStalls + 1
      /\ reFile = reFile \/ reFile.pid \in {p, "none"}
      /\ reLease = reLease \/ reLease \in {p, "none"}
      /\ reLease = p => x.pc \in {"running", "draining", "closing"}
      /\ reLease' = reLease /\ reFile' = reFile /\ reInstalled' = reInstalled /\ reNow' = reNow
      /\ reBegun' = [reBegun EXCEPT ![p] = reBegun[p]]
  BY <1>0, <1>1, <1>3
<1> QED BY <1>0, <1>1, <1>2, <1>3, <1>4, <1>5, ProcStep, Zenon

\* Draining, writing the record and replacing the executable keep the attempt.
LEMMA DrainStep ==
  ASSUME RecoveryInv, NEW p \in ReProcs, R!Drain(p) PROVE RecoveryInv'
<1> USE RecoveryAssumption DEF R!None
<1>0. /\ reProc \in [ReProcs -> ProcState]
      /\ reProc[p] \in ProcState /\ reProc[p].record \in RecordState
      /\ reFile \in RecordState /\ reStalls \in Nat
      /\ reFile.attempt <= reStalls /\ reProc[p].record.attempt <= reStalls
      /\ reFile.attempt \in Nat /\ reProc[p].record.attempt \in Nat
      /\ reBegun[p] \in Seq(Nat)
      /\ reBegun = [reBegun EXCEPT ![p] = reBegun[p]]
      /\ InClockOrder(reBegun[p]) /\ Spread(reBegun[p])
      /\ OwnRecord(p, reProc[p], reBegun[p]) /\ FileFits(p, reProc[p], reFile, reBegun[p])
  BY ProcFacts
<1>1. /\ reProc[p].pc = "draining" /\ reLease' = "none" /\ reStalls' = reStalls
      /\ reFile' = reFile /\ reInstalled' = reInstalled /\ reNow' = reNow /\ reBegun' = reBegun
  BY DEF R!Drain
<1>2. CASE reProc' = [reProc EXCEPT ![p] = R!Off]
  BY <1>1, <1>2, EndStep
<1>3. CASE reProc' = [reProc EXCEPT ![p].pc = "released", ![p].record.ui = TRUE]
  <2> DEFINE r == [reProc[p].record EXCEPT !.ui = TRUE]
  <2> DEFINE x == [reProc[p] EXCEPT !.pc = "released", !.record = r]
  <2>1. /\ r \in RecordState /\ r.pid = reProc[p].record.pid /\ r.exe = reProc[p].record.exe
        /\ r.attempts = reProc[p].record.attempts /\ r.attempt = reProc[p].record.attempt
    BY <1>0 DEF RecordState
  <2>2. reProc' = [reProc EXCEPT ![p] = x]
    BY <1>0, <1>3
  <2> HIDE DEF r
  <2>3. x \in ProcState
    BY <1>0, <2>1, StateParts
  <2>4. x.pc = "released" /\ x.record = r /\ x.exe = reProc[p].exe /\ x.stage = reProc[p].stage
    BY <1>0 DEF ProcState
  <2> HIDE DEF x
  <2>5. OwnRecord(p, x, reBegun[p])
    BY <1>0, <1>1, <2>1, <2>4 DEF OwnRecord
  <2>6. FileFits(p, x, reFile, reBegun[p])
    BY <1>0, <1>1, <2>1, <2>4 DEF FileFits, Attempt
  <2>7. /\ reStalls >= reStalls /\ x.record.attempt <= reStalls
        /\ reFile = reFile \/ reFile.pid \in {p, "none"}
        /\ "none" = reLease \/ "none" \in {p, "none"}
        /\ "none" = p => x.pc \in {"running", "draining", "closing"}
        /\ "none" \in ReProcs \cup {"none"}
        /\ reBegun' = [reBegun EXCEPT ![p] = reBegun[p]]
    BY <1>0, <1>1, <2>1, <2>4
  <2> QED BY <1>0, <1>1, <2>2, <2>3, <2>5, <2>6, <2>7, ProcStep, Zenon
<1> QED BY <1>2, <1>3 DEF R!Drain

LEMMA PrepareStep ==
  ASSUME RecoveryInv, NEW p \in ReProcs, R!Prepare(p) PROVE RecoveryInv'
<1> USE RecoveryAssumption DEF R!None
<1>0. /\ reProc \in [ReProcs -> ProcState]
      /\ reProc[p] \in ProcState /\ reProc[p].record \in RecordState
      /\ reFile \in RecordState /\ reStalls \in Nat
      /\ reProc[p].record.attempt <= reStalls /\ reProc[p].record.attempt \in Nat
      /\ reBegun[p] \in Seq(Nat) /\ reLease \in ReProcs \cup {"none"}
      /\ reBegun = [reBegun EXCEPT ![p] = reBegun[p]]
      /\ InClockOrder(reBegun[p]) /\ Spread(reBegun[p])
      /\ OwnRecord(p, reProc[p], reBegun[p])
  BY ProcFacts
<1>1. /\ reProc[p].pc = "released" /\ reLease' = reLease /\ reStalls' = reStalls
      /\ reInstalled' = reInstalled /\ reNow' = reNow /\ reBegun' = reBegun
  BY DEF R!Prepare
<1>2. reLease # p
  BY <1>1 DEF RecoveryInv, LeaseRuns
<1>3. CASE reProc' = [reProc EXCEPT ![p] = R!Off] /\ reFile' = reFile
  BY <1>0, <1>1, <1>2, <1>3, EndStep
<1>4. CASE reProc' = [reProc EXCEPT ![p].pc = "prepared"] /\ reFile' = reProc[p].record
  <2> DEFINE x == [reProc[p] EXCEPT !.pc = "prepared"]
  <2> DEFINE r == reProc[p].record
  <2>1. reProc' = [reProc EXCEPT ![p] = x]
    BY <1>0, <1>4
  <2>2. x \in ProcState
    BY <1>0 DEF ProcState
  <2>3. x.pc = "prepared" /\ x.record = r /\ x.exe = reProc[p].exe /\ x.stage = reProc[p].stage
    BY <1>0 DEF ProcState
  <2> HIDE DEF x
  <2>4. /\ OwnRecord(p, x, reBegun[p]) /\ r.pid = p
        /\ Fits(r.attempts, reBegun[p]) /\ r.attempts # <<>>
    BY <1>0, <1>1, <2>3 DEF OwnRecord
  <2>5. FileFits(p, x, r, reBegun[p])
    BY <2>4 DEF FileFits
  <2>6. /\ reStalls >= reStalls /\ x.record.attempt <= reStalls /\ r.attempt <= reStalls
        /\ r \in RecordState /\ reFile' = r
        /\ r = reFile \/ r.pid \in {p, "none"}
        /\ reLease = reLease \/ reLease \in {p, "none"}
        /\ reLease = p => x.pc \in {"running", "draining", "closing"}
        /\ reBegun' = [reBegun EXCEPT ![p] = reBegun[p]]
    BY <1>0, <1>1, <1>2, <1>4, <2>3, <2>4
  <2> HIDE DEF r
  <2> QED BY <1>0, <1>1, <2>1, <2>2, <2>4, <2>5, <2>6, ProcStep, Zenon
<1> QED BY <1>3, <1>4 DEF R!Prepare

LEMMA ReplaceStep ==
  ASSUME RecoveryInv, NEW p \in ReProcs, R!Replace(p) PROVE RecoveryInv'
<1> USE RecoveryAssumption DEF R!None
<1>0. /\ reProc \in [ReProcs -> ProcState]
      /\ reProc[p] \in ProcState /\ reProc[p].record \in RecordState /\ reProc[p].exe \in Nat
      /\ reFile \in RecordState /\ reStalls \in Nat /\ reFile.attempt <= reStalls
      /\ reBegun[p] \in Seq(Nat) /\ reLease \in ReProcs \cup {"none"}
      /\ reBegun = [reBegun EXCEPT ![p] = reBegun[p]]
      /\ InClockOrder(reBegun[p]) /\ Spread(reBegun[p])
      /\ FileFits(p, reProc[p], reFile, reBegun[p])
  BY ProcFacts
<1>1. /\ reProc[p].pc = "prepared" /\ reLease' = reLease /\ reStalls' = reStalls
      /\ reFile' = reFile /\ reInstalled' = reInstalled /\ reNow' = reNow /\ reBegun' = reBegun
  BY DEF R!Replace
<1>2. reLease # p
  BY <1>1 DEF RecoveryInv, LeaseRuns
<1>3. CASE reProc' = [reProc EXCEPT ![p] = R!Off]
  BY <1>0, <1>1, <1>2, <1>3, EndStep
<1> DEFINE z == [lineage |-> reProc[p].record.lineage, pid |-> p,
                 attempt |-> reProc[p].record.attempt]
<1> DEFINE x == [R!Off EXCEPT !.pc = "exec", !.exe = reInstalled, !.proof = z]
<1>4. CASE reProc' = [reProc EXCEPT ![p] = x] /\ reInstalled = reProc[p].exe
  <2>1. z \in ProofState /\ z.attempt = reProc[p].record.attempt
    BY <1>0 DEF RecordState, ProofState
  <2> HIDE DEF z
  <2>2. R!NoRecord \in RecordState /\ R!NoRecord.pid = "none" /\ R!NoRecord.attempt = 0
    BY DEF R!NoRecord, RecordState
  <2>3. /\ x \in ProcState /\ x.pc = "exec" /\ x.record = R!NoRecord /\ x.proof = z
        /\ x.stage = "healthy"
    BY <1>0, <1>4, <2>1, <2>2 DEF R!Off, ProcState
  <2> HIDE DEF x
  <2>4. OwnRecord(p, x, reBegun[p])
    BY <2>2, <2>3 DEF OwnRecord
  <2>5. FileFits(p, x, reFile, reBegun[p])
    BY <1>0, <1>1, <2>1, <2>3 DEF FileFits, Attempt
  <2>6. /\ reStalls >= reStalls /\ x.record.attempt <= reStalls
        /\ reFile = reFile \/ reFile.pid \in {p, "none"}
        /\ reLease = reLease \/ reLease \in {p, "none"}
        /\ reLease = p => x.pc \in {"running", "draining", "closing"}
        /\ reBegun' = [reBegun EXCEPT ![p] = reBegun[p]]
    BY <1>0, <1>1, <1>2, <2>2, <2>3
  <2> QED BY <1>0, <1>1, <1>4, <2>3, <2>4, <2>5, <2>6, ProcStep, Zenon
<1> QED BY <1>3, <1>4 DEF R!Replace

\* The process ends, or finds the session taken.
LEMMA EndingSteps ==
  ASSUME RecoveryInv, NEW p \in ReProcs,
         R!ResumeBusy(p) \/ R!RestoreFails(p) \/ R!Close(p) \/ R!Leave(p)
  PROVE  RecoveryInv'
<1> USE RecoveryAssumption DEF R!None
<1>1. reProc' = [reProc EXCEPT ![p] = R!Off]
  BY DEF R!ResumeBusy, R!RestoreFails, R!Close, R!Leave
<1>2. UNCHANGED <<reFile, reInstalled, reNow, reStalls, reBegun>>
  BY DEF R!ResumeBusy, R!RestoreFails, R!Close, R!Leave
<1>3. reLease' \in {reLease, "none"} /\ reLease' # p
  <2>1. CASE R!ResumeBusy(p)
    BY <2>1 DEF R!ResumeBusy, RecoveryInv, LeaseRuns
  <2>2. CASE R!RestoreFails(p) \/ R!Close(p) \/ R!Leave(p)
    BY <2>2 DEF R!RestoreFails, R!Close, R!Leave
  <2> QED BY <2>1, <2>2
<1>4. reLease' \in ReProcs \cup {"none"}
  BY <1>3 DEF RecoveryInv, RecoveryTypes
<1> QED BY <1>1, <1>2, <1>3, <1>4, EndStep

\* Time moves on, or a version is installed.
LEMMA ClockStep ==
  ASSUME RecoveryInv, R!Tick \/ R!Install PROVE RecoveryInv'
<1> USE RecoveryAssumption
<1>1. /\ UNCHANGED <<reProc, reLease, reFile, reStalls, reBegun>>
      /\ reNow \in Nat /\ reNow' \in Nat /\ reNow <= reNow' /\ reInstalled' \in Nat
  BY DEF R!Tick, R!Install, RecoveryInv, RecoveryTypes
<1>2. ASSUME NEW a \in Seq(Nat), NEW b \in Seq(Nat), Fits(a, b) PROVE Fits(a, b)'
  <2>1. \A i \in 1 .. Len(b) : b[i] \in Nat
    BY <1>2
  <2>2. ASSUME NEW i \in 1 .. Len(b) - Len(a) PROVE b[i] < reNow' - ReWindow
    <3>1. b[i] < reNow - ReWindow
      BY <1>2 DEF Fits
    <3>2. b[i] \in Nat
      OBVIOUS
    <3> QED BY <1>1, <3>1, <3>2
  <2> QED BY <1>2, <2>2 DEF Fits
<1>3. RecoveryTypes' /\ LeaseRuns' /\ Numbered'
  BY <1>1 DEF RecoveryInv, RecoveryTypes, LeaseRuns, Numbered
<1>4. ASSUME NEW p \in ReProcs
      PROVE  /\ InClockOrder(reBegun[p])' /\ Spread(reBegun[p])'
             /\ OwnRecord(p, reProc[p], reBegun[p])' /\ FileFits(p, reProc[p], reFile, reBegun[p])'
  <2>1. /\ InClockOrder(reBegun[p]) /\ Spread(reBegun[p]) /\ reBegun[p] \in Seq(Nat)
        /\ OwnRecord(p, reProc[p], reBegun[p]) /\ FileFits(p, reProc[p], reFile, reBegun[p])
        /\ reProc[p].record \in RecordState /\ reFile \in RecordState
    BY ProcFacts
  <2>2. reProc[p].record.attempts \in Seq(Nat) /\ reFile.attempts \in Seq(Nat)
    BY <2>1 DEF RecordState
  <2>3. InClockOrder(reBegun[p])'
    <3>1. \A i \in 1 .. Len(reBegun[p]) : reBegun[p][i] \in Nat
      BY <2>1
    <3> QED BY <1>1, <2>1, <3>1 DEF InClockOrder
  <2>4. Spread(reBegun[p])'
    BY <1>1, <2>1 DEF Spread
  <2>5. /\ Fits(reProc[p].record.attempts, reBegun[p]) =>
             Fits(reProc[p].record.attempts, reBegun[p])'
        /\ Fits(reFile.attempts, reBegun[p]) => Fits(reFile.attempts, reBegun[p])'
    <3>1. Fits(reProc[p].record.attempts, reBegun[p]) =>
             Fits(reProc[p].record.attempts, reBegun[p])'
      <4> SUFFICES ASSUME Fits(reProc[p].record.attempts, reBegun[p])
                   PROVE  Fits(reProc[p].record.attempts, reBegun[p])'
        OBVIOUS
      <4>1. PICK a \in Seq(Nat), b \in Seq(Nat) : a = reProc[p].record.attempts /\ b = reBegun[p]
        BY <2>1, <2>2
      <4>2. a = (reProc[p].record.attempts)' /\ b = (reBegun[p])'
        BY <1>1, <4>1
      <4>3. Fits(a, b)'
        BY <1>2, <4>1
      <4> QED BY <4>2, <4>3 DEF Fits
    <3>2. Fits(reFile.attempts, reBegun[p]) => Fits(reFile.attempts, reBegun[p])'
      <4> SUFFICES ASSUME Fits(reFile.attempts, reBegun[p])
                   PROVE  Fits(reFile.attempts, reBegun[p])'
        OBVIOUS
      <4>1. PICK a \in Seq(Nat), b \in Seq(Nat) : a = reFile.attempts /\ b = reBegun[p]
        BY <2>1, <2>2
      <4>2. a = (reFile.attempts)' /\ b = (reBegun[p])'
        BY <1>1, <4>1
      <4>3. Fits(a, b)'
        BY <1>2, <4>1
      <4> QED BY <4>2, <4>3 DEF Fits
    <3> QED BY <3>1, <3>2
  <2>6. OwnRecord(p, reProc[p], reBegun[p])'
    BY <1>1, <2>1, <2>5 DEF OwnRecord
  <2>7. FileFits(p, reProc[p], reFile, reBegun[p])'
    BY <1>1, <2>1, <2>5 DEF FileFits, Attempt
  <2> QED BY <2>3, <2>4, <2>6, <2>7
<1> QED BY <1>3, <1>4 DEF RecoveryInv

LEMMA RecoveryInit == R!Init => RecoveryInv
<1> SUFFICES ASSUME R!Init PROVE RecoveryInv
  OBVIOUS
<1> USE RecoveryAssumption DEF R!None
<1>1. R!NoRecord \in RecordState /\ R!NoProof \in ProofState
  BY DEF R!NoRecord, R!NoProof, RecordState, ProofState
<1>2. R!Off \in ProcState /\ R!Off.pc = "off" /\ R!Off.stage = "healthy" /\ R!Off.record = R!NoRecord
  BY <1>1 DEF R!Off, ProcState
<1>3. R!NoRecord.pid = "none" /\ R!NoRecord.attempt = 0
  BY DEF R!NoRecord
<1>4. RecoveryTypes /\ LeaseRuns /\ Numbered
  BY <1>1, <1>2, <1>3 DEF R!Init, RecoveryTypes, LeaseRuns, Numbered
<1>5. ASSUME NEW p \in ReProcs
      PROVE  /\ InClockOrder(reBegun[p]) /\ Spread(reBegun[p])
             /\ OwnRecord(p, reProc[p], reBegun[p]) /\ FileFits(p, reProc[p], reFile, reBegun[p])
  BY <1>2, <1>3 DEF R!Init, InClockOrder, Spread, OwnRecord, FileFits
<1> QED BY <1>4, <1>5 DEF RecoveryInv

LEMMA RecoveryStep == ASSUME RecoveryInv, [Next]_vars PROVE RecoveryInv'
<1>1. CASE UNCHANGED reVars
  BY <1>1 DEF reVars, RecoveryInv, RecoveryTypes, LeaseRuns, Numbered, InClockOrder, Spread,
     OwnRecord, FileFits, Fits, Attempt
<1>2. CASE R!Next
  BY <1>2, ClockStep, OpenOrdinaryStep, OpenProbationStep, ProveHealthyStep, StallRecovers,
     StallEnds, DrainStep, PrepareStep, ReplaceStep, EndingSteps DEF R!Next, R!Step
<1> QED BY <1>1, <1>2 DEF Next, vars, InputRecoveryNext, TerminalModesNext, UpdateCheckNext,
           InvocationNext, EditorNext, PaletteNext

\* Between two starts by hand a process begins at most MaxRecoveries recoveries in a window,
\* however often it is replaced and whoever else opens the session or writes the record
\* (confirm_stall, prepare and open_probation of adapters/runtime/input_recovery); a replacement
\* continues its own process; and leaving the terminal by finish or by the panic hook undoes
\* every mode that was entered (adapters/terminal/control).
THEOREM StallsAreBounded == Spec => []TerminalRecovers
<1>1. Init => RecoveryInv /\ ModesInv
  <2>1. M!Init => ModesInv
    <3> SUFFICES ASSUME M!Init PROVE ModesInv
      OBVIOUS
    <3>1. M!TypeOK /\ M!OrderlyExitRestores
      BY DEF M!Init, M!TypeOK, M!OrderlyExitRestores
    <3> QED BY <3>1 DEF M!Init, ModesInv, Entering, Entered
  <2> QED BY <2>1, RecoveryInit DEF Init
<1>2. ASSUME RecoveryInv PROVE R!InputRecoverySafe
  <2>1. R!TypeOK
    <3>1. ASSUME NEW p \in ReProcs
          PROVE  /\ reProc[p].pc \in {"off", "exec", "running", "draining", "closing", "released",
                                     "prepared"}
                 /\ reProc[p].stage \in {"healthy", "probation", "confirmed"}
      BY <1>2, ProcFacts DEF ProcState
    <3>2. /\ reLease \in ReProcs \cup {"none"}
          /\ reFile.phase \in {"none", "prepared", "probation", "healthy"}
      BY <1>2 DEF RecoveryInv, RecoveryTypes, RecordState
    <3> QED BY <1>2, <3>1, <3>2 DEF RecoveryInv, LeaseRuns, R!TypeOK, R!None
  <2>2. R!CircuitHolds
    BY <1>2 DEF RecoveryInv, Spread, R!CircuitHolds
  <2>3. R!ContinuesItself
    <3> SUFFICES ASSUME NEW p \in ReProcs, reProc[p].pc = "running",
                        reProc[p].record # R!NoRecord
                 PROVE  /\ reProc[p].record.pid = p
                        /\ reProc[p].record.exe = reProc[p].exe
                        /\ reBegun[p] # <<>>
      BY DEF R!ContinuesItself
    <3>1. /\ OwnRecord(p, reProc[p], reBegun[p]) /\ reProc[p].record \in RecordState
          /\ reBegun[p] \in Seq(Nat)
      BY <1>2, ProcFacts
    <3>2. /\ reProc[p].record.pid = p /\ reProc[p].record.exe = reProc[p].exe
          /\ reProc[p].record.attempts # <<>> /\ Fits(reProc[p].record.attempts, reBegun[p])
      BY <3>1 DEF OwnRecord
    <3>3. reProc[p].record.attempts \in Seq(Nat)
      BY <3>1 DEF RecordState
    <3>4. Len(reProc[p].record.attempts) > 0
      BY <3>2, <3>3
    <3>5. Len(reBegun[p]) > 0
      BY <3>1, <3>2, <3>3, <3>4 DEF Fits
    <3> QED BY <3>2, <3>5
  <2> QED BY <2>1, <2>2, <2>3 DEF R!InputRecoverySafe
<1>3. RecoveryInv /\ ModesInv => TerminalRecovers
  BY <1>2 DEF ModesInv, TerminalRecovers, M!TerminalModesSafe
<1>4. RecoveryInv /\ ModesInv /\ [Next]_vars => (RecoveryInv /\ ModesInv)'
  BY RecoveryStep, ModesStep
<1> QED BY <1>1, <1>3, <1>4, PTL DEF Spec
=============================================================================

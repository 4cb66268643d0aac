----------------------------- MODULE UpdateCheck -----------------------------
(***************************************************************************)
(* Looking for a newer release and asking the user about it.               *)
(*                                                                         *)
(* Every process has an update lane (adapters/terminal/update_lane.rs)     *)
(* that checks for releases through application/update.rs.  The processes  *)
(* of one installation share a cache file; a refresh lock elects the one   *)
(* that asks the network and a prompt lock the one that asks the user.     *)
(* The overlay arrives in the middle of the user's typing, so the owner    *)
(* ignores what was typed before (ui/app/update.rs).                       *)
(***************************************************************************)
EXTENDS Integers, Sequences

CONSTANTS Procs,        \* processes of one installation, all at version 1
          MaxVersion,   \* newest release there will be
          MaxChecks,    \* bound on checks
          MaxTyped      \* bound on key strokes per process

VARIABLES released,     \* newest published release
          cache,        \* latest, generation, dismissed, skipped
          refresher,    \* holder of the refresh lock
          prompter,     \* holder of the prompt lock
          lane,         \* per process: what its update lane is doing
          notice,       \* per process: result not yet drained by the owner
          prompt,       \* per process: overlay shown to the user
          intent,       \* per process: answer on its way to the lane
          typed,        \* per process: sequence number of the last key stroke
          queue,        \* per process: key strokes not yet applied
          checks

vars == <<released, cache, refresher, prompter, lane, notice, prompt, intent,
          typed, queue, checks>>

None == "none"
NoPrompt == [version |-> 0, boundary |-> 0, armed |-> FALSE]
NoIntent == [kind |-> "none", version |-> 0]
IdleLane == [pc |-> "idle", explicit |-> FALSE, seen |-> [latest |-> 0, generation |-> 0,
                                                          dismissed |-> 0, skipped |-> 0]]
Installed == 1

Init ==
  /\ released = 1
  /\ cache = [latest |-> 0, generation |-> 0, dismissed |-> 0, skipped |-> 0]
  /\ refresher = None /\ prompter = None
  /\ lane = [p \in Procs |-> IdleLane]
  /\ notice = [p \in Procs |-> 0]
  /\ prompt = [p \in Procs |-> NoPrompt]
  /\ intent = [p \in Procs |-> NoIntent]
  /\ typed = [p \in Procs |-> 0]
  /\ queue = [p \in Procs |-> <<>>]
  /\ checks = 0

\* result: what a cache state offers to this version.
Available(state) ==
  /\ state.latest > Installed
  /\ state.latest \notin {state.skipped, state.dismissed}

Publish ==
  /\ released < MaxVersion
  /\ released' = released + 1
  /\ UNCHANGED <<cache, refresher, prompter, lane, notice, prompt, intent, typed, queue, checks>>

\* UpdateService::check, from the startup check or from Check for updates.
BeginCheck(p) ==
  /\ lane[p].pc = "idle" /\ intent[p] = NoIntent /\ checks < MaxChecks
  /\ checks' = checks + 1
  /\ \E explicit \in BOOLEAN :
       lane' = [lane EXCEPT ![p] = [pc |-> "loaded", explicit |-> explicit, seen |-> cache]]
  /\ UNCHANGED <<released, cache, refresher, prompter, notice, prompt, intent, typed, queue>>

\* The refresh lock and begin_refresh: a startup check that finds the generation
\* advanced uses the refreshed cache instead of asking again.
\* Mutated form: the observed generation is not compared.
TryRefreshAlways(p) ==
  /\ lane[p].pc = "loaded" /\ refresher = None
  /\ refresher' = p
  /\ cache' = [cache EXCEPT !.generation = @ + 1]
  /\ lane' = [lane EXCEPT ![p].pc = "fetching"]
  /\ UNCHANGED <<released, prompter, notice, prompt, intent, typed, queue, checks>>
TryRefresh(p) ==
  /\ lane[p].pc = "loaded"
  /\ IF refresher # None
     THEN /\ lane' = [lane EXCEPT ![p].pc = IF lane[p].explicit THEN "idle" ELSE "decided"]
          /\ UNCHANGED <<refresher, cache>>
     ELSE IF lane[p].explicit \/ cache.generation = lane[p].seen.generation
     THEN /\ refresher' = p
          /\ cache' = [cache EXCEPT !.generation = @ + 1]
          /\ lane' = [lane EXCEPT ![p].pc = "fetching"]
     ELSE /\ lane' = [lane EXCEPT ![p].pc = "decided", ![p].seen = cache]
          /\ UNCHANGED <<refresher, cache>>
  /\ UNCHANGED <<released, prompter, notice, prompt, intent, typed, queue, checks>>

\* record_success and merge_latest: a refresh ends a dismissal, and ends a skip
\* only when it finds another release.
Merged ==
  [cache EXCEPT !.latest = released, !.dismissed = 0,
                !.skipped = IF @ = released THEN @ ELSE 0]

\* The network answers, or does not.
Fetch(p) ==
  /\ lane[p].pc = "fetching"
  /\ refresher' = None
  /\ \/ /\ cache' = Merged
        /\ lane' = [lane EXCEPT ![p].pc = "decided", ![p].seen = Merged]
     \/ /\ lane' = [lane EXCEPT ![p] = IdleLane]
        /\ UNCHANGED cache
  /\ UNCHANGED <<released, prompter, notice, prompt, intent, typed, queue, checks>>

\* check and check_now after the decision: the prompt lock, then the notice.
\* Mutated form: the prompt is offered without the installation-wide lock.
OfferUnlocked(p) ==
  /\ lane[p].pc = "decided"
  /\ lane' = [lane EXCEPT ![p] = IdleLane]
  /\ IF Available(lane[p].seen) THEN notice' = [notice EXCEPT ![p] = lane[p].seen.latest]
     ELSE UNCHANGED notice
  /\ prompter' = IF Available(lane[p].seen) THEN p ELSE prompter
  /\ UNCHANGED <<released, cache, refresher, prompt, intent, typed, queue, checks>>
Offer(p) ==
  /\ lane[p].pc = "decided"
  /\ lane' = [lane EXCEPT ![p] = IdleLane]
  /\ IF Available(lane[p].seen) /\ prompter = None
     THEN /\ prompter' = p
          /\ notice' = [notice EXCEPT ![p] = lane[p].seen.latest]
     ELSE UNCHANGED <<prompter, notice>>
  /\ UNCHANGED <<released, cache, refresher, prompt, intent, typed, queue, checks>>

\* apply_result and install_update_prompt: the overlay is not armed yet.
DrainNotice(p) ==
  /\ notice[p] # 0
  /\ notice' = [notice EXCEPT ![p] = 0]
  /\ prompt' = [prompt EXCEPT ![p] = [version |-> notice[p], boundary |-> typed[p],
                                      armed |-> FALSE]]
  /\ UNCHANGED <<released, cache, refresher, prompter, lane, intent, typed, queue, checks>>

\* draw: the overlay is on the screen.
Draw(p) ==
  /\ prompt[p] # NoPrompt /\ ~prompt[p].armed
  /\ prompt' = [prompt EXCEPT ![p].armed = TRUE]
  /\ UNCHANGED <<released, cache, refresher, prompter, lane, notice, intent, typed, queue, checks>>

\* deliver: the input lane numbers every key stroke.
Type(p) ==
  /\ typed[p] < MaxTyped
  /\ typed' = [typed EXCEPT ![p] = @ + 1]
  /\ queue' = [queue EXCEPT ![p] = Append(@, typed[p] + 1)]
  /\ UNCHANGED <<released, cache, refresher, prompter, lane, notice, prompt, intent, checks>>

\* accept_update_input.
Accepts(p, sequence) == prompt[p].armed /\ sequence > prompt[p].boundary

\* apply and choose_update: one key answers, or is dropped by the overlay.
ApplyInput(p) ==
  /\ queue[p] # <<>>
  /\ queue' = [queue EXCEPT ![p] = Tail(@)]
  /\ IF prompt[p] # NoPrompt /\ Accepts(p, Head(queue[p]))
     THEN \E kind \in {"dismiss", "skip", "install", "move"} :
            /\ intent' = [intent EXCEPT ![p] =
                            IF kind = "move" THEN @
                            ELSE [kind |-> kind, version |-> prompt[p].version]]
            /\ prompt' = [prompt EXCEPT ![p] = IF kind = "move" THEN @ ELSE NoPrompt]
     ELSE UNCHANGED <<intent, prompt>>
  /\ UNCHANGED <<released, cache, refresher, prompter, lane, notice, typed, checks>>

\* act: the lane records the answer and only then gives up the prompt lock.
\* Mutated form: the lock is given up although the answer is not recorded.
ActUnrecorded(p) ==
  /\ intent[p] # NoIntent /\ lane[p].pc = "idle"
  /\ intent' = [intent EXCEPT ![p] = NoIntent]
  /\ prompter' = IF prompter = p THEN None ELSE prompter
  /\ UNCHANGED <<released, cache, refresher, lane, notice, prompt, typed, queue, checks>>
Act(p) ==
  /\ intent[p] # NoIntent /\ lane[p].pc = "idle"
  /\ cache' = CASE intent[p].kind = "dismiss" -> [cache EXCEPT !.dismissed = intent[p].version]
                [] intent[p].kind = "skip" -> [cache EXCEPT !.skipped = intent[p].version]
                [] OTHER -> cache
  /\ intent' = [intent EXCEPT ![p] = NoIntent]
  /\ prompter' = IF prompter = p THEN None ELSE prompter
  /\ UNCHANGED <<released, refresher, lane, notice, prompt, typed, queue, checks>>

\* The process ends; its locks go with it.
Exit(p) ==
  /\ lane' = [lane EXCEPT ![p] = IdleLane]
  /\ notice' = [notice EXCEPT ![p] = 0]
  /\ prompt' = [prompt EXCEPT ![p] = NoPrompt]
  /\ intent' = [intent EXCEPT ![p] = NoIntent]
  /\ queue' = [queue EXCEPT ![p] = <<>>]
  /\ refresher' = IF refresher = p THEN None ELSE refresher
  /\ prompter' = IF prompter = p THEN None ELSE prompter
  /\ UNCHANGED <<released, cache, typed, checks>>

Work(p) ==
  TryRefresh(p) \/ Fetch(p) \/ Offer(p) \/ DrainNotice(p) \/ Draw(p) \/ ApplyInput(p) \/ Act(p)

Next ==
  \/ Publish
  \/ \E p \in Procs : BeginCheck(p) \/ Work(p) \/ Type(p) \/ Exit(p)

\* Each process keeps running its lane and its main loop.
Fairness == \A p \in Procs : WF_vars(Work(p))

Spec == Init /\ [][Next]_vars /\ Fairness

(***************************************************************************)
(* Properties.                                                             *)
(***************************************************************************)

TypeOK ==
  /\ released \in 1..MaxVersion
  /\ refresher \in Procs \cup {None} /\ prompter \in Procs \cup {None}
  /\ cache.latest \in 0..MaxVersion /\ cache.skipped \in 0..MaxVersion
  /\ \A p \in Procs : notice[p] \in 0..MaxVersion /\ typed[p] \in 0..MaxTyped

\* Of all the processes of an installation only one asks, until its answer is
\* recorded: no second prompt can overwrite the choice.
Asking(p) == notice[p] # 0 \/ prompt[p] # NoPrompt \/ intent[p] # NoIntent
OnePrompt == \A p, q \in Procs : Asking(p) /\ Asking(q) => p = q

\* Update checks (adapters/terminal/update_lane, adapters/update/cache): one process of an
\* installation asks about a release at a time.
UpdateCheckSafe == TypeOK /\ OnePrompt
=============================================================================

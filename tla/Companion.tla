------------------------------ MODULE Companion ------------------------------
(***************************************************************************)
(* The Herdr plugin toggle: one Proqi companion pane per tab               *)
(* (application/companion, companion/toggle, adapters/herdr/companion).    *)
(*                                                                         *)
(* A toggle is one short process that reads the host and the plugin's      *)
(* records and then closes, focuses or opens a pane.  Toggles exclude each *)
(* other by a lock file; panes and the programs in them do not wait.  A    *)
(* probe of a pane may time out, and any toggle may die between two steps. *)
(***************************************************************************)
EXTENDS Integers, FiniteSets

CONSTANTS Tabs,       \* tabs of the host
          Sessions,   \* Proqi sessions
          NameOf,     \* [Tabs -> Sessions]: the session a tab's name stands for
          Agent,      \* [Tabs -> panes]: the agent pane of each tab
          Fresh,      \* pane identities the host has not used yet
          MaxToggles, \* bound on toggles
          MaxMoves,   \* bound on what users and programs do in panes
          MaxFaults   \* bound on probes that time out, failing calls and deaths

VARIABLES pane,     \* pane -> [tab, program, session, plugin, leased, label]
          record,   \* tab -> [pane, session] in the plugin state, or NoRecord
          toggle,   \* the running toggle, or Idle: the lock admits one
          focus,    \* tab -> pane with the focus
          toggles, moves, faults,
          opened,   \* ghost: panes opened by a toggle
          closed,   \* ghost: panes closed by a toggle
          unsaved   \* ghost: some opened pane was not recorded

vars == <<pane, record, toggle, focus, toggles, moves, faults, opened, closed, unsaved>>

NoRecord == [pane |-> "none", session |-> "none"]
Idle == [pc |-> "idle"]
Gone == "none"
\* What a toggle carries from its plan to its last step.
Toggle(pc, t, p, s, dead, beside) ==
  [pc |-> pc, tab |-> t, pane |-> p, session |-> s, dead |-> dead, beside |-> beside]
Pane(t, program, session, plugin, leased) ==
  [tab |-> t, program |-> program, session |-> session, plugin |-> plugin, leased |-> leased]

Live == DOMAIN pane
InTab(t) == {p \in Live : pane[p].tab = t}
Running(p) == pane[p].program \in {"launcher", "proqi"}
\* A running Proqi holds the lease of its session; a launcher not yet.
Active(s) == \E p \in Live : pane[p].program = "proqi" /\ pane[p].session = s

Init ==
  /\ pane = [p \in {Agent[t] : t \in Tabs} |->
       Pane(CHOOSE t \in Tabs : Agent[t] = p, "agent", "none", FALSE, FALSE)]
  /\ record = [t \in Tabs |-> NoRecord] /\ toggle = Idle
  /\ focus = [t \in Tabs |-> Agent[t]]
  /\ toggles = 0 /\ moves = 0 /\ faults = 0
  /\ opened = {} /\ closed = {} /\ unsaved = FALSE

Fault == faults < MaxFaults /\ faults' = faults + 1

------------------------------------------------------------------------------
(* What a toggle sees.                                                     *)

\* classify: what the foreground process of a pane says, or that it could not
\* be read in time.
Classified(p, silent) ==
  IF p \notin Live THEN [kind |-> "gone"]
  ELSE IF p \in silent THEN [kind |-> "unknown"]
  ELSE IF pane[p].program = "proqi" THEN [kind |-> "proqi", session |-> pane[p].session]
  ELSE [kind |-> pane[p].program]

\* Mutated form: panes without a display lease are not probed.
PresenceByLease(p, silent) == IF pane[p].leased THEN "present" ELSE "absent"
\* tab_panes: a display lease, or else the probe of a pane that is no agent.
Presence(p, silent) ==
  IF pane[p].leased THEN "present"
  ELSE IF pane[p].program = "agent" THEN "absent"
  ELSE CASE Classified(p, silent).kind \in {"proqi", "launcher"} -> "present"
         [] Classified(p, silent).kind = "unknown" -> "unknown"
         [] OTHER -> "absent"

\* The lock is taken, the context is the one the host passed, the panes of the
\* tab are listed and probed.
Begin(t) ==
  /\ toggle = Idle /\ toggles < MaxToggles /\ toggles' = toggles + 1
  /\ focus[t] \in InTab(t)
  /\ \E silent \in SUBSET InTab(t) :
       /\ Cardinality(silent) <= 1
       /\ IF silent = {} THEN UNCHANGED faults ELSE Fault
       /\ toggle' = [pc |-> "plan", tab |-> t, focused |-> focus[t],
                     seen |-> [p \in InTab(t) |-> [presence |-> Presence(p, silent),
                                                  agent |-> pane[p].program = "agent"]]]
  /\ UNCHANGED <<pane, record, focus, moves, opened, closed, unsaved>>

------------------------------------------------------------------------------
(* The plan.                                                               *)

Seen == DOMAIN toggle.seen
\* record_state: what became of the pane the plugin recorded for this tab.
RecordState(r, process) ==
  IF r = NoRecord THEN "none"
  ELSE IF r.pane = Gone \/ r.pane \notin Seen THEN "closed"
  ELSE CASE process.kind = "proqi" /\ process.session = r.session -> "live"
         [] process.kind = "launcher" -> "live"
         [] process.kind = "shell" /\ toggle.seen[r.pane].presence # "present" -> "dead"
         [] process.kind = "unknown" -> "unknown"
         [] OTHER -> "closed"

\* return_focus: the only agent pane of the tab, if there is just one.
ReturnTargets == {p \in Seen : toggle.seen[p].agent /\ toggle.seen[p].presence = "absent"}
ToFocus(p) == Toggle("focus", toggle.tab, p, "none", Gone, Gone)
ReturnFocus ==
  IF Cardinality(ReturnTargets) = 1
  THEN ToFocus(CHOOSE p \in ReturnTargets : TRUE) ELSE Idle

\* The pane beside which a dead focused companion is replaced.
ReplacementTarget(dead) ==
  IF Seen \ {dead} = {} THEN dead ELSE CHOOSE p \in Seen \ {dead} : TRUE

\* plan_toggle, in the order of its early returns.
PlanToggle(r, process) ==
  LET state == RecordState(r, process)
      focused == toggle.focused
      present == {p \in Seen : toggle.seen[p].presence = "present"}
      dead == IF state = "dead" THEN r.pane ELSE Gone
      unclear == {p \in Seen : toggle.seen[p].presence = "unknown"} \ {dead}
  IN CASE state = "live" /\ r.pane = focused -> Toggle("close", toggle.tab, r.pane, r.session, Gone, Gone)
       [] state \in {"live", "unknown"} /\ r.pane # focused -> ToFocus(r.pane)
       [] state = "unknown" /\ r.pane = focused -> ReturnFocus
       [] state \notin {"live", "unknown"} /\ focused \in present -> ReturnFocus
       [] state \notin {"live", "unknown"} /\ focused \notin present /\ present # {} ->
            ToFocus(CHOOSE p \in present : TRUE)
       [] state \notin {"live", "unknown"} /\ present = {} /\ unclear # {} -> Idle
       [] OTHER -> Toggle("session", toggle.tab, Gone,
                          IF state \in {"dead", "closed"} THEN r.session ELSE "none", dead,
                          IF dead = focused THEN ReplacementTarget(dead) ELSE focused)

\* The record is loaded, its pane is probed afresh and the plan is made.
Plan ==
  /\ toggle.pc = "plan"
  /\ \E silent \in {{}, {record[toggle.tab].pane}} :
       /\ IF silent = {} THEN UNCHANGED faults ELSE Fault
       /\ toggle' = PlanToggle(record[toggle.tab], Classified(record[toggle.tab].pane, silent))
  /\ UNCHANGED <<pane, record, focus, toggles, moves, opened, closed, unsaved>>

------------------------------------------------------------------------------
(* Carrying it out.                                                        *)

FocusPane ==
  /\ toggle.pc = "focus" /\ toggle' = Idle
  /\ focus' = IF toggle.pane \in Live THEN [focus EXCEPT ![toggle.tab] = toggle.pane] ELSE focus
  /\ UNCHANGED <<pane, record, toggles, moves, faults, opened, closed, unsaved>>

Without(p) == [q \in Live \ {p} |-> pane[q]]
\* The session is flushed and its pane closed; a pane that is gone is fine.
ClosePane ==
  /\ toggle.pc = "close" /\ toggle' = [toggle EXCEPT !.pc = "saveClosed"]
  /\ pane' = Without(toggle.pane) /\ closed' = closed \cup ({toggle.pane} \cap Live)
  /\ UNCHANGED <<record, focus, toggles, moves, faults, opened, unsaved>>
SaveClosed ==
  /\ toggle.pc = "saveClosed" /\ toggle' = Idle
  /\ record' = [record EXCEPT ![toggle.tab] = [pane |-> Gone, session |-> toggle.session]]
  /\ UNCHANGED <<pane, focus, toggles, moves, faults, opened, closed, unsaved>>

\* open_session: the recorded session or the one the tab's name stands for,
\* unless a Proqi has it open.
ChooseSession ==
  /\ toggle.pc = "session"
  /\ LET s == IF toggle.session = "none" THEN NameOf[toggle.tab] ELSE toggle.session
     IN toggle' = IF Active(s) THEN Idle
                  ELSE Toggle("others", toggle.tab, Gone, s, toggle.dead, toggle.beside)
  /\ UNCHANGED <<pane, record, focus, toggles, moves, faults, opened, closed, unsaved>>

\* Mutated form: other tabs are not asked about the session.
OthersIgnored(t, s, silent) == FALSE
\* other_tab_blocker: another tab's companion of this session that is starting
\* or running, or whose pane cannot be read.
OtherTabBlocks(t, s, silent) ==
  \E u \in Tabs \ {t} :
    /\ record[u].session = s /\ record[u].pane # Gone
    /\ LET c == Classified(record[u].pane, silent)
       IN c.kind \in {"launcher", "unknown"} \/ (c.kind = "proqi" /\ c.session = s)
AskOthers ==
  /\ toggle.pc = "others"
  /\ \E silent \in SUBSET {record[u].pane : u \in Tabs \ {toggle.tab}} :
       /\ IF silent = {} THEN UNCHANGED faults ELSE Fault
       /\ toggle' = IF OtherTabBlocks(toggle.tab, toggle.session, silent) THEN Idle
                    ELSE [toggle EXCEPT !.pc = "open"]
  /\ UNCHANGED <<pane, record, focus, toggles, moves, opened, closed, unsaved>>

\* open_beside: a launcher in a new pane, which gets the focus.
OpenBeside ==
  /\ toggle.pc = "open"
  /\ \/ /\ toggle.beside \in Live
        /\ \E p \in Fresh \ (opened \cup Live) :
             /\ pane' = [q \in Live \cup {p} |-> IF q = p
                  THEN Pane(toggle.tab, "launcher", toggle.session, TRUE, FALSE) ELSE pane[q]]
             /\ opened' = opened \cup {p} /\ focus' = [focus EXCEPT ![toggle.tab] = p]
             /\ toggle' = Toggle("save", toggle.tab, p, toggle.session, toggle.dead, toggle.beside)
     \/ toggle.beside \notin Live /\ toggle' = Idle /\ UNCHANGED <<pane, opened, focus>>
  /\ UNCHANGED <<record, toggles, moves, faults, closed, unsaved>>

\* The record; when it cannot be saved the new pane stays, unrecorded.
SaveOpened ==
  /\ toggle.pc = "save"
  /\ \/ /\ record' = [record EXCEPT ![toggle.tab] = [pane |-> toggle.pane, session |-> toggle.session]]
        /\ toggle' = [toggle EXCEPT !.pc = "replace"] /\ UNCHANGED <<faults, unsaved>>
     \/ Fault /\ toggle' = Idle /\ unsaved' = TRUE /\ UNCHANGED record
  /\ UNCHANGED <<pane, focus, toggles, moves, opened, closed>>

\* Mutated form: the dead pane is closed as it was seen.
StillIdleAssumed(p) == p \in Live
\* still_idle: the pane that was dead still shows an idle shell.
StillIdle(p) == p \in Live /\ pane[p].program = "shell"
ReplaceDead ==
  /\ toggle.pc = "replace" /\ toggle' = Idle
  /\ IF toggle.dead # Gone /\ StillIdle(toggle.dead)
     THEN pane' = Without(toggle.dead) /\ closed' = closed \cup {toggle.dead}
     ELSE UNCHANGED <<pane, closed>>
  /\ UNCHANGED <<record, focus, toggles, moves, faults, opened, unsaved>>

\* A toggle is killed between two steps; its lock goes with it.
Die ==
  /\ toggle # Idle /\ Fault /\ toggle' = Idle
  /\ unsaved' = (unsaved \/ toggle.pc = "save")
  /\ UNCHANGED <<pane, record, focus, toggles, moves, opened, closed>>

------------------------------------------------------------------------------
(* Users, programs and the host.                                           *)

Becomes(p, program, session, plugin, leased) ==
  pane' = [pane EXCEPT ![p] = Pane(pane[p].tab, program, session, plugin, leased)]
\* A launcher becomes Proqi when it gets the session's lease, and ends if not.
Launch(p) ==
  /\ pane[p].program = "launcher"
  /\ IF Active(pane[p].session) THEN pane' = Without(p)
     ELSE Becomes(p, "proqi", pane[p].session, pane[p].plugin, FALSE)
\* A running Proqi publishes its display lease; a lease outlives a crash.
Publish(p) ==
  /\ pane[p].program = "proqi" /\ ~pane[p].leased
  /\ Becomes(p, "proqi", pane[p].session, pane[p].plugin, TRUE)
Expire(p) ==
  /\ pane[p].program # "proqi" /\ pane[p].leased
  /\ Becomes(p, pane[p].program, "none", pane[p].plugin, FALSE)
\* Proqi ends: its pane goes, or a host restart leaves an idle shell in it.
End(p) ==
  /\ Running(p)
  /\ \/ pane' = Without(p)
     \/ Becomes(p, "shell", "none", FALSE, pane[p].leased)
\* The user runs something in an idle shell: a program, or Proqi by hand.
RunInShell(p) ==
  /\ pane[p].program = "shell"
  /\ \/ Becomes(p, "other", "none", pane[p].plugin, pane[p].leased)
     \/ \E s \in Sessions : ~Active(s) /\ Becomes(p, "proqi", s, pane[p].plugin, pane[p].leased)
Environment ==
  /\ moves < MaxMoves /\ moves' = moves + 1
  /\ \/ \E p \in Live : (Launch(p) \/ Publish(p) \/ Expire(p) \/ End(p) \/ RunInShell(p)) /\ UNCHANGED focus
     \/ \E t \in Tabs, p \in Live : pane[p].tab = t /\ focus[t] # p /\ focus' = [focus EXCEPT ![t] = p]
        /\ UNCHANGED pane
  /\ UNCHANGED <<record, toggle, toggles, faults, opened, closed, unsaved>>

Next ==
  \/ \E t \in Tabs : Begin(t)
  \/ Plan \/ FocusPane \/ ClosePane \/ SaveClosed \/ ChooseSession \/ AskOthers \/ OpenBeside
  \/ SaveOpened \/ ReplaceDead \/ Die
  \/ Environment

Spec == Init /\ [][Next]_vars

------------------------------------------------------------------------------
(* Properties.                                                             *)

\* Type invariant of the toggle and the panes.
TypeOK ==
  /\ \A p \in Live : pane[p].tab \in Tabs
       /\ pane[p].program \in {"agent", "launcher", "proqi", "shell", "other"}
  /\ \A t \in Tabs : record[t].session \in Sessions \cup {"none"}
  /\ toggle.pc \in {"idle", "plan", "focus", "close", "saveClosed", "session", "others", "open", "save", "replace"}
  /\ opened \subseteq Fresh

\* Programs started by the plugin.
Companions == {p \in Live : pane[p].plugin /\ Running(p)}
\* However toggles, crashes, slow probes and lost records interleave, a tab
\* never shows two companions; and unless a record was lost, no session is
\* being opened in two tabs.
OneCompanion ==
  \A p, q \in Companions :
    p # q => /\ pane[p].tab # pane[q].tab
             /\ pane[p].session = pane[q].session => unsaved

\* A toggle closes only panes that a toggle opened, and the replacement of a
\* dead pane never takes a pane in which something runs.
ClosesOnlyCompanions ==
  [][\A p \in closed' \ closed :
       /\ p \in opened
       /\ toggle.pc = "replace" => pane[p].program = "shell"]_vars

\* The companion toggle (adapters/herdr/companion): one live companion beside an agent.
CompanionSafe == TypeOK /\ OneCompanion
==============================================================================

----------------------------- MODULE Submission -----------------------------
(***************************************************************************)
(* Handing thoughts to an agent: the choice of a target, the wait for the  *)
(* save, the attachment preflight, the journal (prepared, sending, a       *)
(* terminal outcome), the prompt itself through the external lane, and the *)
(* removal that commits together with the outcome.  Each submission has at *)
(* most one request or answer under way, so its stage says where it is.    *)
(***************************************************************************)
EXTENDS Naturals, FiniteSets, Functions

CONSTANTS Thoughts,      \* the thoughts of the session
          Attempts,      \* submission identities
          MaxVersion,    \* bound on the contents a thought takes
          MaxFaults      \* bound on failed store calls, lost answers and crashes

VARIABLES
    board,      \* thought -> [version, state]
    edits,      \* whether the saves of edits are settled, under way or failed
    chooser,    \* the target chooser: the contents it was opened for
    stage,      \* attempt -> where its one request or answer is
    intent,     \* attempt -> [sources, remove]: what it was asked for
    receipt,    \* attempt -> whether the agent's answer was an acceptance
    locked,     \* thoughts held by BeginSubmission
    rows,       \* submission_attempts: attempt -> state
    active,     \* submission_attempt_items with active = 1: thought -> attempt
    prompted,   \* attempt -> prompts the agent received
    faults

vars == <<board, edits, chooser, stage, intent, receipt, locked, rows, active, prompted, faults>>

None == "none"
NoIntent == [sources |-> <<>>, remove |-> FALSE]
Sources(a) == DOMAIN intent[a].sources

Init ==
    /\ board = [t \in Thoughts |-> [version |-> 1, state |-> "live"]]
    /\ edits = "saved"
    /\ chooser = <<>>
    /\ stage = [a \in Attempts |-> "idle"]
    /\ intent = [a \in Attempts |-> NoIntent]
    /\ receipt = [a \in Attempts |-> FALSE]
    /\ locked = {}
    /\ rows = [a \in Attempts |-> None]
    /\ active = [t \in Thoughts |-> None]
    /\ prompted = [a \in Attempts |-> 0]
    /\ faults = MaxFaults

Fault == faults > 0 /\ faults' = faults - 1
NoFault == UNCHANGED faults
journal == <<rows, active>>

Contents(ids) == [t \in ids |-> board[t].version]
Current(sources) == \A t \in DOMAIN sources : board[t] = [version |-> sources[t], state |-> "live"]

\* A removal staged until its commit is acknowledged; at most one exists.
Staged == \E a \in Attempts : stage[a] \in {"remove", "unsaved"}

\* DurabilityState of the owner.
Durability(e, s) ==
    IF e = "failed" \/ \E a \in Attempts : s[a] = "unsaved" THEN "failed"
    ELSE IF e = "pending" \/ \E a \in Attempts : s[a] = "remove" THEN "pending"
    ELSE "durable"
durability == Durability(edits, stage)

\* release_submission_sources
Release(a) == locked' = locked \ Sources(a)

-----------------------------------------------------------------------------
(* Choosing                                                                *)

\* begin_global_delivery: the chooser remembers digests, not locks.
BeginGlobalDelivery(ids) ==
    /\ chooser = <<>>
    /\ ids # {}
    /\ \A t \in ids : board[t].state = "live"
    /\ chooser' = Contents(ids)
    /\ UNCHANGED <<board, edits, stage, intent, receipt, locked, journal, prompted, faults>>

CancelGlobalDelivery ==
    /\ chooser # <<>>
    /\ chooser' = <<>>
    /\ UNCHANGED <<board, edits, stage, intent, receipt, locked, journal, prompted, faults>>

\* Mutated form: sources are reserved only in the journal.
BeginSubmissionUnlocked(ids) == UNCHANGED locked

\* BeginSubmission: the sources are locked until EndSubmission.
BeginSubmission(ids) == locked' = locked \cup ids

\* queue_submission for exact contents: refused while a save has failed or a
\* source is busy or gone; else preflighted, or deferred until the save.
QueueSubmission(a, sources, remove) ==
    /\ stage[a] = "idle"
    /\ rows[a] = None
    /\ durability # "failed"
    /\ Current(sources)
    /\ DOMAIN sources \cap locked = {}
    /\ intent' = [intent EXCEPT ![a] = [sources |-> sources, remove |-> remove]]
    /\ BeginSubmission(DOMAIN sources)
    /\ stage' = [stage EXCEPT ![a] = IF durability = "durable" THEN "preflight" ELSE "deferred"]
    /\ UNCHANGED <<board, edits, receipt, journal, prompted, faults>>

\* deliver_to: the adjacent agent, with the contents of this moment.
DeliverAdjacent(a, ids, remove) ==
    /\ chooser = <<>>
    /\ ids # {}
    /\ QueueSubmission(a, Contents(ids), remove)
    /\ UNCHANGED chooser

\* deliver_global_target: the contents the chooser was opened for, or nothing.
DeliverGlobal(a, remove) ==
    /\ chooser # <<>>
    /\ chooser' = <<>>
    /\ IF Current(chooser) /\ DOMAIN chooser \cap locked = {} /\ durability # "failed"
       THEN QueueSubmission(a, chooser, remove)
       ELSE UNCHANGED <<board, edits, stage, intent, receipt, locked, journal, prompted, faults>>

\* complete_deferred_submission_durability: after an acknowledgement with the
\* edits e and the stages s, deferred submissions start once all is durable
\* and are cancelled by a failure.
Deferred == {a \in Attempts : stage[a] = "deferred"}
DeferredSettled(e, s) ==
    LET d == Durability(e, s)
    IN  [a \in Attempts |-> IF a \notin Deferred \/ d = "pending" THEN s[a]
                            ELSE IF d = "durable" THEN "preflight" ELSE "idle"]
DeferredLocks(e, s) ==
    IF Durability(e, s) = "failed" THEN UNION {Sources(a) : a \in Deferred} ELSE {}

\* The save of the latest edits ends.
SaveSettles ==
    /\ edits = "pending"
    /\ \/ edits' = "saved" /\ NoFault
       \/ edits' = "failed" /\ Fault
    /\ stage' = DeferredSettled(edits', stage)
    /\ locked' = locked \ DeferredLocks(edits', stage)
    /\ UNCHANGED <<board, chooser, intent, receipt, journal, prompted>>

\* complete_attachment_preflight
CompletePreflight(a) ==
    /\ stage[a] = "preflight"
    /\ \E accessible \in BOOLEAN :
         IF accessible /\ Current(intent[a].sources)
         THEN stage' = [stage EXCEPT ![a] = "prepare"] /\ UNCHANGED locked
         ELSE stage' = [stage EXCEPT ![a] = "idle"] /\ Release(a)
    /\ UNCHANGED <<board, edits, chooser, intent, receipt, journal, prompted, faults>>

-----------------------------------------------------------------------------
(* The journal and the prompt                                              *)

\* The request could not start: the owner lets go of the sources.
NotStarted(a) == stage' = [stage EXCEPT ![a] = "idle"] /\ Release(a) /\ UNCHANGED journal

\* PrepareSubmission: one row and one active item per source, at most one
\* active item per thought.
Prepare(a) ==
    /\ stage[a] = "prepare"
    /\ \/ Fault /\ NotStarted(a)
       \/ NoFault /\ (\E t \in Sources(a) : active[t] # None) /\ NotStarted(a)
       \/ /\ NoFault
          /\ \A t \in Sources(a) : active[t] = None
          /\ rows' = [rows EXCEPT ![a] = "prepared"]
          /\ active' = [t \in Thoughts |-> IF t \in Sources(a) THEN a ELSE active[t]]
          /\ stage' = [stage EXCEPT ![a] = "mark"]
          /\ UNCHANGED locked
    /\ UNCHANGED <<board, edits, chooser, intent, receipt, prompted>>

\* MarkSubmissionSending
MarkSending(a) ==
    /\ stage[a] = "mark"
    /\ \/ Fault /\ NotStarted(a)
       \/ /\ NoFault
          /\ rows[a] = "prepared"
          /\ rows' = [rows EXCEPT ![a] = "sending"]
          /\ stage' = [stage EXCEPT ![a] = "submit"]
          /\ UNCHANGED <<locked, active>>
    /\ UNCHANGED <<board, edits, chooser, intent, receipt, prompted>>

\* SubmitAgent: the target is verified again and prompted once; the answer
\* may be lost after the agent took the prompt.
Submit(a) ==
    /\ stage[a] = "submit"
    /\ stage' = [stage EXCEPT ![a] = "submitted"]
    /\ \E took \in BOOLEAN, accepted \in BOOLEAN :
         /\ accepted => took
         /\ prompted' = [prompted EXCEPT ![a] = @ + (IF took THEN 1 ELSE 0)]
         /\ receipt' = [receipt EXCEPT ![a] = accepted]
    /\ UNCHANGED <<board, edits, chooser, intent, locked, journal, faults>>

ShouldRemove(a) == receipt[a] /\ intent[a].remove /\ Current(intent[a].sources)

\* Mutated form: the removal does not wait for an acceptance.
ShouldRemoveAnyway(a) == intent[a].remove

Outcome(a) == IF receipt[a] THEN "accepted" ELSE "failed"
DeactivateSources(a) == [t \in Thoughts |-> IF active[t] = a THEN None ELSE active[t]]

\* complete_submission and FinishSubmission without a removal: nothing is to
\* be removed, or another removal is staged and the reducer refuses this one.
FinishKept(a) ==
    /\ stage[a] = "submitted"
    /\ ~ShouldRemove(a) \/ Staged
    /\ \/ Fault /\ UNCHANGED journal
       \/ /\ NoFault
          /\ rows[a] = "sending"
          /\ rows' = [rows EXCEPT ![a] = Outcome(a)]
          /\ active' = DeactivateSources(a)
    /\ stage' = [stage EXCEPT ![a] = "idle"]
    /\ Release(a)
    /\ UNCHANGED <<board, edits, chooser, intent, receipt, prompted>>

\* The removal is staged: it takes the next sequence and blocks every other.
StageRemoval(a) ==
    /\ stage[a] = "submitted"
    /\ ShouldRemove(a)
    /\ ~Staged
    /\ stage' = [stage EXCEPT ![a] = "remove"]
    /\ UNCHANGED <<board, edits, chooser, intent, receipt, locked, journal, prompted, faults>>

\* finish_with_removal, after the saves queued before it; refused behind one
\* that failed.
FinishRemoved(a) ==
    /\ stage[a] = "remove"
    /\ edits # "pending"
    /\ \/ /\ IF edits = "failed" THEN NoFault ELSE Fault
          /\ stage' = DeferredSettled(edits, [stage EXCEPT ![a] = "unsaved"])
          /\ locked' = locked \ DeferredLocks(edits, [stage EXCEPT ![a] = "unsaved"])
          /\ UNCHANGED <<board, journal>>
       \/ /\ edits = "saved" /\ NoFault
          /\ rows[a] = "sending"
          /\ rows' = [rows EXCEPT ![a] = Outcome(a)]
          /\ active' = DeactivateSources(a)
          /\ board' = [t \in Thoughts |->
                         IF t \in Sources(a) THEN [board[t] EXCEPT !.state = "removed"] ELSE board[t]]
          /\ stage' = DeferredSettled(edits, [stage EXCEPT ![a] = "idle"])
          /\ Release(a)
    /\ UNCHANGED <<edits, chooser, intent, receipt, prompted>>

\* The user retries what failed to save, the staged removal with the rest.
Retry ==
    /\ durability = "failed"
    /\ edits' = IF edits = "failed" THEN "pending" ELSE edits
    /\ stage' = [a \in Attempts |-> IF stage[a] = "unsaved" THEN "remove" ELSE stage[a]]
    /\ UNCHANGED <<board, chooser, intent, receipt, locked, journal, prompted, faults>>

-----------------------------------------------------------------------------
\* An edit: refused for a locked source and while a removal is staged.
Edit(t) ==
    /\ board[t].state = "live"
    /\ t \notin locked
    /\ ~Staged
    /\ board[t].version < MaxVersion
    /\ board' = [board EXCEPT ![t].version = @ + 1]
    /\ edits' = IF edits = "failed" THEN "failed" ELSE "pending"
    /\ UNCHANGED <<chooser, stage, intent, receipt, locked, journal, prompted, faults>>

\* Mutated form: an interrupted prompt is taken for one that was never sent.
RecoveredCancelled(state) == IF state \in {"prepared", "sending"} THEN "cancelled" ELSE state

\* recover: what a reopened session makes of an unfinished row.
Recovered(state) == CASE state = "prepared" -> "cancelled"
                      [] state = "sending" -> "outcome_unknown"
                      [] OTHER -> state

\* The process dies and reopens; unsaved edits have no part in this module.
CrashAndReopen ==
    /\ Fault
    /\ edits' = "saved"
    /\ chooser' = <<>>
    /\ stage' = [a \in Attempts |-> "idle"]
    /\ locked' = {}
    /\ rows' = [a \in Attempts |-> Recovered(rows[a])]
    /\ active' = [t \in Thoughts |-> None]
    /\ UNCHANGED <<board, intent, receipt, prompted>>

Work(a) == CompletePreflight(a) \/ Prepare(a) \/ MarkSending(a) \/ Submit(a)
           \/ FinishKept(a) \/ StageRemoval(a) \/ FinishRemoved(a)

Next ==
    \/ \E ids \in SUBSET Thoughts : BeginGlobalDelivery(ids)
    \/ CancelGlobalDelivery
    \/ \E a \in Attempts, ids \in SUBSET Thoughts, remove \in BOOLEAN : DeliverAdjacent(a, ids, remove)
    \/ \E a \in Attempts, remove \in BOOLEAN : DeliverGlobal(a, remove)
    \/ SaveSettles
    \/ \E a \in Attempts : Work(a)
    \/ Retry
    \/ \E t \in Thoughts : Edit(t)
    \/ CrashAndReopen

\* The lanes answer and the owner drains; a user need not retry or edit.
Fairness == WF_vars(SaveSettles) /\ \A a \in Attempts : WF_vars(Work(a))

Spec == Init /\ [][Next]_vars /\ Fairness

-----------------------------------------------------------------------------
Stages == {"idle", "deferred", "preflight", "prepare", "mark", "submit", "submitted", "remove", "unsaved"}
RowStates == {None, "prepared", "sending", "accepted", "failed", "cancelled", "outcome_unknown"}

TypeOK ==
    /\ stage \in [Attempts -> Stages]
    /\ rows \in [Attempts -> RowStates]
    /\ active \in [Thoughts -> Attempts \cup {None}]
    /\ locked \subseteq Thoughts
    /\ edits \in {"saved", "pending", "failed"}

(* The journal never denies a prompt: an attempt the agent may have taken  *)
(* is recorded as sending, unknown, failed or accepted, one recorded as    *)
(* accepted was taken, and no crash, retry or recovery prompts twice.      *)
JournalIsTruthful ==
    \A a \in Attempts :
        /\ prompted[a] <= 1
        /\ prompted[a] = 1 => rows[a] \in {"sending", "outcome_unknown", "failed", "accepted"}
        /\ rows[a] = "accepted" => prompted[a] = 1

(* A thought removed by a submission was taken by the agent with exactly   *)
(* the contents it had, and the journal says so.                           *)
RemovedWasAccepted ==
    \A t \in Thoughts : board[t].state = "removed" =>
        \E a \in Attempts : /\ rows[a] = "accepted"
                            /\ t \in Sources(a)
                            /\ intent[a].sources[t] = board[t].version

(* While a submission is under way its sources are locked and unchanged.   *)
SourcesHeld ==
    \A a \in Attempts : stage[a] # "idle" => Sources(a) \subseteq locked /\ Current(intent[a].sources)

(* Every submission comes to its end, or waits for the user to retry a     *)
(* failed save: no source stays locked by a submission nobody works on.    *)
SubmissionSettles ==
    \A a \in Attempts : stage[a] # "idle" ~> (stage[a] = "idle" \/ durability = "failed")

\* A submission (ui/app/submission, adapters/sqlite/submission): the journal never says less than
\* what the agent was sent, and its thoughts leave the board only after it accepted them.
SubmissionSafe == TypeOK /\ JournalIsTruthful /\ RemovedWasAccepted /\ SourcesHeld
=============================================================================

------------------------------ MODULE Transfer ------------------------------
(***************************************************************************)
(* Sending thoughts from one session to another: the picker, the pending   *)
(* batches, the delivery by the persistence lane, the intent journal in    *)
(* the shared store, the destination's owner or its absence, and a crash   *)
(* of the source at any point.  Every store call is one transaction and    *)
(* may fail; a control request to a live destination may be applied        *)
(* before, after or without its answer.                                    *)
(***************************************************************************)
EXTENDS Naturals, Sequences, FiniteSets, SequencesExt

CONSTANTS Thoughts,      \* the thoughts of the source session
          Batches,       \* operation identities of transfers
          MaxVersion,    \* bound on the contents a thought takes
          MaxPicks,      \* bound on how often the picker is opened
          MaxFaults      \* bound on failed store calls, lost answers and crashes

VARIABLES
    board,      \* thought -> [version, state]: the owner's memory
    saved,      \* the same in the store
    picker,     \* the destination picker, or a closed one
    opened,     \* transfer_generation
    pending,    \* pending_transfer_batches: the requests
    lane,       \* requests to the persistence lane, oldest first
    delivery,   \* the request the lane delivers, and how far it is
    answers,    \* results of the lane, oldest first
    retained,   \* removals whose commit failed, kept for a retry
    attempts,   \* transfer_attempts: operation -> [status, reason]
    requests,   \* request_json of each attempt
    claims,     \* transfer_source_claims: thought -> operation
    cohorts,    \* operation -> cohorts committed in the destination
    peer,       \* who owns the destination: nobody, an owner, an old one
    late,       \* control requests not yet applied when their client gave up
    faults      \* failures still allowed

vars == <<board, saved, picker, opened, pending, lane, delivery, answers, retained,
          attempts, requests, claims, cohorts, peer, late, faults>>
memory == <<board, picker, opened, pending, lane, delivery, answers, retained>>
store == <<saved, attempts, requests, claims, cohorts>>

Nobody == "nobody"
Closed == [gen |-> 0, loading |-> FALSE, ids |-> {}, remove |-> FALSE]
Idle == [phase |-> "idle", request |-> Nobody]

Version == 1 .. MaxVersion
Thought == [version : Version, state : {"live", "deleted", "moved"}]

\* A cohort: the exact contents the destination is to receive.
Request == [op : Batches, items : UNION {[s -> Version] : s \in SUBSET Thoughts}, remove : BOOLEAN]
Ids(r) == DOMAIN r.items

Init ==
    /\ board = [t \in Thoughts |-> [version |-> 1, state |-> "live"]]
    /\ saved = board
    /\ picker = Closed
    /\ opened = 0
    /\ pending = {}
    /\ lane = <<>>
    /\ delivery = Idle
    /\ answers = <<>>
    /\ retained = {}
    /\ attempts = [b \in Batches |-> [status |-> "none", reason |-> "none"]]
    /\ requests = [b \in Batches |-> Nobody]
    /\ claims = [t \in Thoughts |-> Nobody]
    /\ cohorts = [b \in Batches |-> <<>>]
    /\ peer \in {"nobody", "owner", "old"}
    /\ late = {}
    /\ faults = MaxFaults

Fault == faults > 0 /\ faults' = faults - 1
NoFault == UNCHANGED faults
Live(t) == board[t].state = "live"

-----------------------------------------------------------------------------
(* The owner                                                               *)

\* submission_locked: a pending removal holds its sources.
Held(t) == \E r \in pending : r.remove /\ t \in Ids(r)

TransferActionReady(ids, remove) ==
    LET overlapping == {r \in pending : Ids(r) \cap ids # {}}
    IN  /\ ids # {}
        /\ \/ overlapping = {} /\ \A t \in ids : Live(t) /\ ~Held(t)
           \/ \E r \in overlapping :
                /\ overlapping = {r}
                /\ r.remove = remove
                /\ Ids(r) = ids

BeginSessionTransfer(ids, remove) ==
    /\ picker = Closed
    /\ opened < MaxPicks
    /\ \A t \in ids : Live(t)
    /\ TransferActionReady(ids, remove)
    /\ opened' = opened + 1
    /\ picker' = [gen |-> opened + 1, loading |-> TRUE, ids |-> ids, remove |-> remove]
    /\ lane' = Append(lane, [kind |-> "discover", gen |-> opened + 1])
    /\ UNCHANGED <<board, pending, delivery, answers, retained, store, peer, late, faults>>

ClosePicker ==
    /\ picker # Closed
    /\ picker' = Closed
    /\ UNCHANGED <<board, opened, pending, lane, delivery, answers, retained, store, peer, late, faults>>

\* Only the answer to the picker's own discovery is applied to it.
CompleteTransferDiscovery ==
    /\ answers # <<>>
    /\ Head(answers).kind = "sessions"
    /\ answers' = Tail(answers)
    /\ picker' = IF picker = Closed \/ picker.gen # Head(answers).gen THEN picker
                 ELSE IF Head(answers).ok THEN [picker EXCEPT !.loading = FALSE] ELSE Closed
    /\ UNCHANGED <<board, opened, pending, lane, delivery, retained, store, peer, late, faults>>

\* choose_transfer_batch: the same cohort is sent again, an overlapping one
\* is refused, any other becomes a new request.
ChooseTransfer ==
    /\ picker # Closed
    /\ ~picker.loading
    /\ picker' = Closed
    /\ LET same == {r \in pending : Ids(r) = picker.ids /\ r.remove = picker.remove}
           overlap == {r \in pending : Ids(r) \cap picker.ids # {}}
       IN  \/ /\ overlap # {}   \* the pending destination again, or another one
              /\ pending' = pending
              /\ \/ \E r \in same : lane' = Append(lane, [kind |-> "transfer", request |-> r])
                 \/ lane' = lane
           \/ /\ overlap = {}
              /\ \E b \in Batches :
                   /\ attempts[b].status = "none" /\ \A r \in pending : r.op # b
                   /\ LET r == [op |-> b, items |-> [t \in picker.ids |-> board[t].version],
                                remove |-> picker.remove]
                      IN  /\ pending' = pending \cup {r}
                          /\ lane' = Append(lane, [kind |-> "transfer", request |-> r])
    /\ UNCHANGED <<board, opened, delivery, answers, retained, store, peer, late, faults>>

Finish(r, removed, reason) == [kind |-> "finish", request |-> r, removed |-> removed, reason |-> reason]

\* Mutated form: the sources are removed whatever became of them meanwhile.
SourcesUnchangedUnchecked(r) == TRUE

SourcesUnchanged(r) == \A t \in Ids(r) : Live(t) /\ board[t].version = r.items[t]

\* complete_session_transfer_batch
CompleteTransferBatch ==
    /\ answers # <<>>
    /\ Head(answers).kind = "transferred"
    /\ answers' = Tail(answers)
    /\ LET r == Head(answers).request
       IN  \/ ~Head(answers).ok /\ UNCHANGED <<board, lane>>
           \/ /\ Head(answers).ok
              /\ ~r.remove
              /\ lane' = Append(lane, Finish(r, FALSE, "kept"))
              /\ UNCHANGED board
           \/ /\ Head(answers).ok
              /\ r.remove
              /\ ~SourcesUnchanged(r)
              /\ lane' = Append(lane, Finish(r, FALSE, "source_changed"))
              /\ UNCHANGED board
           \/ /\ Head(answers).ok
              /\ r.remove
              /\ SourcesUnchanged(r)
              /\ board' = [t \in Thoughts |->
                             IF t \in Ids(r) THEN [board[t] EXCEPT !.state = "moved"] ELSE board[t]]
              /\ lane' = Append(lane, Finish(r, TRUE, "removed"))
    /\ UNCHANGED <<picker, opened, pending, delivery, retained, store, peer, late, faults>>

\* complete_transfer_finished
CompleteTransferFinished ==
    /\ answers # <<>>
    /\ Head(answers).kind = "finished"
    /\ answers' = Tail(answers)
    /\ pending' = IF Head(answers).ok THEN {r \in pending : r.op # Head(answers).op} ELSE pending
    /\ UNCHANGED <<board, picker, opened, lane, delivery, retained, store, peer, late, faults>>

\* The user retries what failed to save, once the failure is known.
RetryRemoval ==
    /\ \A i \in DOMAIN answers : answers[i].kind # "finished"
    /\ \E f \in retained : lane' = Append(lane, f) /\ retained' = retained \ {f}
    /\ UNCHANGED <<board, picker, opened, pending, delivery, answers, store, peer, late, faults>>

\* An edit or a deletion of a thought, by the user (who is kept from a held
\* one) or by a control request (which is not), saved at once.
ChangeThought(t) ==
    /\ Live(t)
    /\ board = saved
    /\ \/ board[t].version < MaxVersion /\ board' = [board EXCEPT ![t].version = @ + 1]
       \/ board' = [board EXCEPT ![t].state = "deleted"]
    /\ saved' = board'
    /\ UNCHANGED <<picker, opened, pending, lane, delivery, answers, retained, attempts, requests,
                   claims, cohorts, peer, late, faults>>

-----------------------------------------------------------------------------
(* The persistence lane                                                    *)

LaneIdle == delivery.phase = "idle" /\ lane # <<>>
Answer(a) == answers' = Append(answers, a)

Discover ==
    /\ LaneIdle
    /\ Head(lane).kind = "discover"
    /\ lane' = Tail(lane)
    /\ \/ NoFault /\ Answer([kind |-> "sessions", gen |-> Head(lane).gen, ok |-> TRUE])
       \/ Fault /\ Answer([kind |-> "sessions", gen |-> Head(lane).gen, ok |-> FALSE])
    /\ UNCHANGED <<board, picker, opened, pending, delivery, retained, store, peer, late>>

Undelivered(r) ==
    /\ Answer([kind |-> "transferred", request |-> r, ok |-> FALSE])
    /\ delivery' = Idle

\* prepare_transfer: an existing attempt is replayed with its receipt.
PrepareTransfer ==
    /\ LaneIdle
    /\ Head(lane).kind = "transfer"
    /\ lane' = Tail(lane)
    /\ LET r == Head(lane).request
           known == attempts[r.op].status # "none"
       IN  \/ /\ Fault
              /\ Undelivered(r)
              /\ UNCHANGED store
           \/ /\ NoFault
              /\ known
              /\ attempts[r.op].status \in {"accepted", "completed"}
              /\ Answer([kind |-> "transferred", request |-> r, ok |-> TRUE])
              /\ UNCHANGED <<store, delivery>>
           \/ /\ NoFault
              /\ known
              /\ attempts[r.op].status \in {"prepared", "sending"}
              /\ delivery' = [phase |-> "prepared", request |-> r]
              /\ UNCHANGED <<store, answers>>
           \/ /\ NoFault
              /\ ~known
              /\ \A t \in Ids(r) : claims[t] = Nobody
              /\ attempts' = [attempts EXCEPT ![r.op].status = "prepared"]
              /\ requests' = [requests EXCEPT ![r.op] = r]
              /\ claims' = [t \in Thoughts |-> IF t \in Ids(r) THEN r.op ELSE claims[t]]
              /\ delivery' = [phase |-> "prepared", request |-> r]
              /\ UNCHANGED <<saved, cohorts, answers>>
           \/ /\ NoFault        \* the primary key of transfer_source_claims
              /\ ~known
              /\ \E t \in Ids(r) : claims[t] # Nobody
              /\ Undelivered(r)
              /\ UNCHANGED store
    /\ UNCHANGED <<board, picker, opened, pending, retained, peer, late>>

MarkTransferSending ==
    /\ delivery.phase = "prepared"
    /\ \/ Fault /\ Undelivered(delivery.request) /\ UNCHANGED attempts
       \/ /\ NoFault
          /\ delivery' = [delivery EXCEPT !.phase = "sending"]
          /\ attempts' = [attempts EXCEPT ![delivery.request.op].status = "sending"]
          /\ UNCHANGED answers
    /\ UNCHANGED <<board, picker, opened, pending, lane, retained, saved, requests, claims, cohorts, peer, late>>

\* Mutated form: the destination adds what it is sent.
DeliverAgain(r) == [cohorts EXCEPT ![r.op] = Append(@, r.items)]

\* The destination recognises an operation it already holds.
Deliver(r) == IF cohorts[r.op] # <<>> THEN cohorts
              ELSE [cohorts EXCEPT ![r.op] = <<r.items>>]

Delivered == delivery' = [delivery EXCEPT !.phase = "delivered"] /\ UNCHANGED answers

\* deliver_batch: to the live owner by a control request, or directly under
\* a lease of the inactive session.
SendToDestination ==
    /\ delivery.phase = "sending"
    /\ LET r == delivery.request
       IN  \/ /\ peer = "old"
              /\ Undelivered(r) /\ UNCHANGED <<cohorts, late>> /\ NoFault
           \/ /\ NoFault
              /\ peer # "old"
              /\ cohorts' = Deliver(r)
              /\ Delivered /\ UNCHANGED late
           \/ /\ Fault          \* the session was taken first, or the store failed
              /\ peer = "nobody"
              /\ Undelivered(r) /\ UNCHANGED <<cohorts, late>>
           \/ /\ Fault          \* applied, and the answer lost
              /\ peer = "owner"
              /\ cohorts' = Deliver(r)
              /\ Undelivered(r) /\ UNCHANGED late
           \/ /\ Fault          \* the client gave up before it was applied
              /\ peer = "owner"
              /\ late' = late \cup {r}
              /\ Undelivered(r) /\ UNCHANGED cohorts
    /\ UNCHANGED <<board, picker, opened, pending, lane, retained, saved, attempts, requests, claims, peer>>

AcceptTransfer ==
    /\ delivery.phase = "delivered"
    /\ LET r == delivery.request
       IN  \/ Fault /\ Undelivered(r) /\ UNCHANGED attempts
           \/ /\ NoFault
              /\ attempts' = [attempts EXCEPT ![r.op].status = "accepted"]
              /\ Answer([kind |-> "transferred", request |-> r, ok |-> TRUE])
              /\ delivery' = Idle
    /\ UNCHANGED <<board, picker, opened, pending, lane, retained, saved, requests, claims, cohorts, peer, late>>

\* A finish of a completed attempt replays it when it asks for the same.
Replays(r, removed) == removed = (attempts[r.op].reason = "removed")

FinishTransfer ==
    /\ LaneIdle
    /\ Head(lane).kind = "finish"
    /\ lane' = Tail(lane)
    /\ LET f == Head(lane)
           r == f.request
           Answers(ok) == Answer([kind |-> "finished", op |-> r.op, ok |-> ok])
           Refused == /\ Answers(FALSE)
                      /\ retained' = IF f.removed THEN retained \cup {f} ELSE retained
                      /\ UNCHANGED store
       IN  \/ Fault /\ Refused
           \/ /\ NoFault
              /\ attempts[r.op].status = "completed"
              /\ Replays(r, f.removed)
              /\ Answers(TRUE) /\ UNCHANGED <<store, retained>>
           \/ /\ NoFault
              /\ attempts[r.op].status = "completed"
              /\ ~Replays(r, f.removed)
              /\ Refused
           \/ /\ NoFault
              /\ attempts[r.op].status = "accepted"
              /\ attempts' = [attempts EXCEPT ![r.op] = [status |-> "completed", reason |-> f.reason]]
              /\ claims' = [t \in Thoughts |-> IF claims[t] = r.op THEN Nobody ELSE claims[t]]
              /\ saved' = IF f.removed
                          THEN [t \in Thoughts |->
                                  IF t \in Ids(r) THEN [saved[t] EXCEPT !.state = "moved"] ELSE saved[t]]
                          ELSE saved
              /\ Answers(TRUE)
              /\ UNCHANGED <<retained, requests, cohorts>>
    /\ UNCHANGED <<board, picker, opened, pending, delivery, peer, late>>

-----------------------------------------------------------------------------
(* The destination and the process                                         *)

\* A request whose client gave up reaches the owner at last, or is lost.
LateRequest ==
    /\ \E r \in late : late' = late \ {r} /\ cohorts' = (IF peer = "owner" THEN Deliver(r) ELSE cohorts)
    /\ UNCHANGED <<memory, saved, attempts, requests, claims, peer, faults>>

\* Mutated form: an interrupted transfer is forgotten.
RecoverNoTransfers == {}

\* A process opens or leaves the destination session.
PeerChanges ==
    /\ Fault
    /\ peer' \in {"nobody", "owner", "old"} \ {peer}
    /\ UNCHANGED <<memory, store, late>>

\* pending_transfers, sent again by recover_pending_transfers
RecoverTransfers == {b \in Batches : attempts[b].status \notin {"none", "completed"}}

\* The source dies and is opened again.
CrashAndReopen ==
    /\ Fault
    /\ board' = saved
    /\ picker' = Closed
    /\ pending' = {requests[b] : b \in RecoverTransfers}
    /\ lane' = SetToSeq({[kind |-> "transfer", request |-> r] : r \in pending'})
    /\ delivery' = Idle
    /\ answers' = <<>>
    /\ retained' = {}
    /\ UNCHANGED <<opened, store, peer, late>>

Next ==
    \/ \E ids \in SUBSET Thoughts, remove \in BOOLEAN : BeginSessionTransfer(ids, remove)
    \/ ClosePicker \/ CompleteTransferDiscovery \/ ChooseTransfer
    \/ CompleteTransferBatch \/ CompleteTransferFinished \/ RetryRemoval
    \/ \E t \in Thoughts : ChangeThought(t)
    \/ Discover \/ PrepareTransfer \/ MarkTransferSending \/ SendToDestination
    \/ AcceptTransfer \/ FinishTransfer
    \/ LateRequest \/ PeerChanges \/ CrashAndReopen

Spec == Init /\ [][Next]_vars

-----------------------------------------------------------------------------
TypeOK ==
    /\ board \in [Thoughts -> Thought] /\ saved \in [Thoughts -> Thought]
    /\ pending \subseteq Request /\ late \subseteq Request
    /\ delivery.phase # "idle" => delivery.request \in Request
    /\ \A b \in Batches : attempts[b].status # "none" => requests[b] \in Request
    /\ \A t \in Thoughts : claims[t] \in Batches \cup {Nobody}

(* A thought that a transfer removed, in memory or in the store, is in a   *)
(* destination with the very contents it had: an edit, a crash or a        *)
(* repeated request between delivery and removal never loses one.          *)
MovedIsDelivered ==
    \A t \in Thoughts : \A side \in {board, saved} :
        side[t].state = "moved" =>
            \E b \in Batches : \E i \in DOMAIN cohorts[b] :
                t \in DOMAIN cohorts[b][i] /\ cohorts[b][i][t] = side[t].version

(* However often a cohort is sent - retried by the user, recovered after a *)
(* crash, answered too late - the destination receives it once.            *)
DeliveredOnce == \A b \in Batches : Len(cohorts[b]) <= 1

(* A thought claimed by an open attempt is known to the owner as pending   *)
(* or about to be, so that its transfer can end: claims never outlive it.  *)
ClaimsAreTracked ==
    \A t \in Thoughts : claims[t] # Nobody => \E r \in pending : r.op = claims[t] /\ t \in Ids(r)

\* A transfer (ui/app/transfer, adapters/sqlite/transfer): what left this session reached the other
\* one, once, and every thought a batch holds belongs to a batch that can still end.
TransferSafe == TypeOK /\ MovedIsDelivered /\ DeliveredOnce /\ ClaimsAreTracked
=============================================================================

------------------------------- MODULE Control -------------------------------
(***************************************************************************)
(* Scripted mutations of a session, identified so that they can be retried.*)
(*                                                                         *)
(* A command (cli/execute) sends its request to the process that has the   *)
(* session open, or, when there is none, takes the session lease and       *)
(* applies the request itself (application/service).  The live owner       *)
(* answers through one server thread (adapters/control), looks the         *)
(* identity up in the store and applies what it does not find              *)
(* (runner/owner_control).  Every command makes a fresh request id, so the *)
(* server's cache of answered requests never answers a command's retry;    *)
(* only the durable identity does.                                         *)
(***************************************************************************)
EXTENDS Integers, Sequences, FiniteSets, Functions

CONSTANTS Clients,     \* commands run against the session
          Requests,    \* [op, family, args] records a command may carry
          Undoable,    \* operations the session's history starts with
          MaxTries,    \* bound on runs of one command
          MaxRuns,     \* bound on runs of all commands together
          MaxStarts,   \* bound on starts of the interactive owner
          MaxFaults,   \* bound on failing commits
          Capacity,    \* of the owner's control queue
          LaneCapacity \* of the persistence lane

VARIABLES client,      \* per command: pc, request, tries, answer
          lease,       \* holder of the session lease
          owner,       \* "off", "live", "quitting"
          backlog,     \* connections the server has not accepted
          server,      \* the request the server thread waits for
          inbox,       \* envelopes the owner has not routed
          lane,        \* requests to the persistence worker
          retained,    \* failed batches the worker keeps for a retry
          results,     \* its answers
          mem,         \* requests applied to the owner's board, in order
          awaited,     \* sequences the owner waits for
          failed,      \* the sequence whose commit failed, 0 for none
          log,         \* requests with a durable receipt, in order
          starts, faults

vars == <<client, lease, owner, backlog, server, inbox, lane, retained, results, mem,
          awaited, failed, log, starts, faults>>
ownerVars == <<inbox, lane, retained, results, mem, awaited, failed>>

None == "none"
NoRequest == [op |-> None, family |-> None, args |-> 0]
Idle == [pc |-> "idle", request |-> NoRequest, tries |-> 0, answer |-> None]

Init ==
  /\ client = [c \in Clients |-> Idle]
  /\ lease = None /\ owner = "off"
  /\ backlog = <<>> /\ server = <<>> /\ inbox = <<>> /\ lane = <<>> /\ results = <<>>
  /\ retained = {} /\ mem = <<>> /\ awaited = {} /\ failed = 0
  /\ log = <<>>
  /\ starts = 0 /\ faults = 0

(***************************************************************************)
(* Requests and their identities.                                          *)
(***************************************************************************)

\* The parts of a request its semantic fingerprint stands for; position and
\* content are in args.
Fingerprint(r) == <<r.op, r.family, r.args>>

Recorded(op) == \E i \in DOMAIN log : log[i].op = op
Receipt(op) == CHOOSE i \in DOMAIN log : log[i].op = op

\* match_control_replay.
\* Mutated form: the identity alone is compared.
MatchIdentity(r) == "accepted"
MatchReplay(r) ==
  IF Fingerprint(log[Receipt(r.op)]) = Fingerprint(r) THEN "accepted" ELSE "conflict"

\* What the reducer makes of a request.  A created item takes its identity from
\* the operation; a removed one is gone; a transformation names the digest of
\* the content it replaces; a history move acts on whatever is on top.
CanCreate(board, r) == \A i \in DOMAIN board : board[i].op # r.op
CanRemove(board, r) == \A i \in DOMAIN board : Fingerprint(board[i]) # Fingerprint(r)
CanTransform(board, r) ==
  \A i \in DOMAIN board : board[i].family = "transform" => board[i].args # r.args
HistoryMoves(board) == {i \in DOMAIN board : board[i].family = "history"}
CanMoveHistory(board, r) == Cardinality(HistoryMoves(board)) < Undoable
Reduces(board, r) ==
  CASE r.family = "create" -> CanCreate(board, r)
    [] r.family = "remove" -> CanRemove(board, r)
    [] r.family = "transform" -> CanTransform(board, r)
    [] r.family = "history" -> CanMoveHistory(board, r)

\* commit: a receipt with this identity answers for a matching request, another
\* one is a conflict, and so is a sequence that is not the next.
CommitOutcome(r, sequence) ==
  IF Recorded(r.op) THEN MatchReplay(r)
  ELSE IF sequence = Len(log) + 1 THEN "recorded" ELSE "conflict"

(***************************************************************************)
(* The command.                                                            *)
(***************************************************************************)

Finish(c, answer) == [client EXCEPT ![c].pc = "done", ![c].answer = answer]

\* owner: the session's owner is discovered, or the command goes direct.  A
\* command that was told to try again is run again with the same identity.
Retryable == {"busy", "unknown", "storage_failed"}
OwnerFound == owner # "off"
Runs == FoldFunction(LAMBDA k, n : k.tries + n, 0, client)
Sent(c) == Append(backlog, [client |-> c, try |-> client[c].tries + 1])
Begin(c) ==
  /\ client[c].pc = "idle" \/ (client[c].pc = "done" /\ client[c].answer \in Retryable)
  /\ client[c].tries < MaxTries /\ Runs < MaxRuns
  /\ \E r \in Requests :
       /\ client[c].pc = "done" => r = client[c].request
       /\ client' = [client EXCEPT ![c] =
                       [pc |-> IF OwnerFound THEN "waiting" ELSE "direct",
                        request |-> r, tries |-> client[c].tries + 1, answer |-> None]]
  /\ backlog' = IF OwnerFound THEN Sent(c) ELSE backlog
  /\ UNCHANGED <<lease, owner, server, ownerVars, log, starts, faults>>

\* The store is asked for the identity before the lease is.
DirectLookup(c) ==
  /\ client[c].pc = "direct"
  /\ LET r == client[c].request IN
       client' = IF Recorded(r.op) THEN Finish(c, MatchReplay(r))
                 ELSE [client EXCEPT ![c].pc = "acquire"]
  /\ UNCHANGED <<lease, owner, backlog, server, ownerVars, log, starts, faults>>

DirectAcquire(c) ==
  /\ client[c].pc = "acquire"
  /\ IF lease = None
     THEN lease' = c /\ client' = [client EXCEPT ![c].pc = "leased"]
     ELSE client' = Finish(c, "busy") /\ UNCHANGED lease
  /\ UNCHANGED <<owner, backlog, server, ownerVars, log, starts, faults>>

\* Under the lease: asked again, loaded, reduced, committed.
DirectApply(c) ==
  /\ client[c].pc = "leased"
  /\ lease' = None
  /\ LET r == client[c].request IN
       \/ /\ Recorded(r.op)
          /\ client' = Finish(c, MatchReplay(r)) /\ UNCHANGED <<log, faults>>
       \/ /\ ~Recorded(r.op) /\ ~Reduces(log, r)
          /\ client' = Finish(c, "refused") /\ UNCHANGED <<log, faults>>
       \/ /\ ~Recorded(r.op) /\ Reduces(log, r)
          /\ log' = Append(log, r)
          /\ client' = Finish(c, "accepted") /\ UNCHANGED faults
       \/ /\ ~Recorded(r.op) /\ Reduces(log, r) /\ faults < MaxFaults
          /\ faults' = faults + 1
          /\ client' = Finish(c, "storage_failed") /\ UNCHANGED log
  /\ UNCHANGED <<owner, backlog, server, ownerVars, starts>>

\* exchange: the connection's deadline passes; the request stays in the socket.
ClientTimeout(c) ==
  /\ client[c].pc = "waiting"
  /\ client' = Finish(c, "busy")
  /\ UNCHANGED <<lease, owner, backlog, server, ownerVars, log, starts, faults>>

(***************************************************************************)
(* The owner's server thread: one connection at a time.                    *)
(***************************************************************************)

Envelope(s) == [client |-> s.client, try |-> s.try, request |-> client[s.client].request]
Waits(e) == client[e.client].pc = "waiting" /\ client[e.client].tries = e.try
\* respond: the answer is for the connection the server still serves.
Answered(e, answer) ==
  IF server # <<>> /\ server[1].client = e.client /\ server[1].try = e.try
  THEN /\ server' = <<>>
       /\ client' = IF Waits(e) THEN Finish(e.client, answer) ELSE client
  ELSE UNCHANGED <<server, client>>

\* handle_stream: a full queue is refused at once.
Accept ==
  /\ owner # "off" /\ server = <<>> /\ backlog # <<>>
  /\ backlog' = Tail(backlog)
  /\ LET e == Envelope(Head(backlog)) IN
       IF Len(inbox) < Capacity
       THEN /\ inbox' = Append(inbox, e)
            /\ server' = <<e>> /\ UNCHANGED client
       ELSE /\ client' = IF Waits(e) THEN Finish(e.client, "busy") ELSE client
            /\ UNCHANGED <<inbox, server>>
  /\ UNCHANGED <<lease, owner, lane, retained, results, mem, awaited, failed, log, starts, faults>>

\* The owner does not answer in time; the envelope is still on its way.
ServerTimeout ==
  /\ server # <<>>
  /\ Answered(server[1], "unknown")
  /\ UNCHANGED <<lease, owner, backlog, ownerVars, log, starts, faults>>

(***************************************************************************)
(* The owner.                                                              *)
(***************************************************************************)

StartOwner ==
  /\ owner = "off" /\ lease = None /\ starts < MaxStarts
  /\ owner' = "live" /\ lease' = "owner" /\ mem' = log
  /\ starts' = starts + 1
  /\ UNCHANGED <<client, backlog, server, inbox, lane, retained, results, awaited, failed, log,
                 faults>>

LaneFull == Len(lane) >= LaneCapacity
\* A retried batch answers no connection: its command was told of the failure.
Nobody(r) == [client |-> None, try |-> 0, request |-> r]
LeastOf(set) == CHOOSE s \in set : \A t \in set : s <= t

\* queue_lookup: an owner that leaves and a full lane send the command away.
QueueLookup ==
  /\ owner # "off" /\ inbox # <<>>
  /\ inbox' = Tail(inbox)
  /\ LET e == Head(inbox) IN
       IF owner = "live" /\ ~LaneFull
       THEN /\ lane' = Append(lane, [kind |-> "lookup", envelope |-> e, sequence |-> 0])
            /\ UNCHANGED <<server, client>>
       ELSE Answered(e, "busy") /\ UNCHANGED lane
  /\ UNCHANGED <<lease, owner, backlog, retained, results, mem, awaited, failed, log, starts, faults>>

(***************************************************************************)
(* The persistence worker, in the order of its requests.                   *)
(***************************************************************************)

Reply(kind, e, s, answer) ==
  Append(results, [kind |-> kind, envelope |-> e, sequence |-> s, answer |-> answer])

WorkerLookup(q) ==
  /\ q.kind = "lookup"
  /\ lane' = Tail(lane)
  /\ LET r == q.envelope.request IN
       results' = Reply("lookup", q.envelope, 0, IF Recorded(r.op) THEN MatchReplay(r) ELSE "none")
  /\ UNCHANGED <<retained, log, faults>>

\* commit_batch: what fails is kept for the user's retry, what succeeds no longer is.
CommitBatch(e, s) ==
  LET batch == [sequence |-> s, request |-> e.request]
      outcome == CommitOutcome(e.request, s)
  IN \/ /\ outcome \in {"recorded", "accepted"}
        /\ results' = Reply("commit", e, s, outcome)
        /\ log' = IF outcome = "recorded" THEN Append(log, e.request) ELSE log
        /\ retained' = retained \ {batch} /\ UNCHANGED faults
     \/ /\ outcome = "conflict"
        /\ results' = Reply("commit", e, s, outcome)
        /\ retained' = retained \cup {batch} /\ UNCHANGED <<log, faults>>
     \/ /\ faults < MaxFaults /\ faults' = faults + 1
        /\ results' = Reply("commit", e, s, "storage_failed")
        /\ retained' = retained \cup {batch} /\ UNCHANGED log

WorkerCommit(q) == q.kind = "commit" /\ lane' = Tail(lane) /\ CommitBatch(q.envelope, q.sequence)

\* retry_from: every kept batch from the failed sequence on, until one fails again.
RetainedFrom(s) == {x \in retained : x.sequence >= s}
NextRetained(s) == CHOOSE x \in RetainedFrom(s) : \A y \in RetainedFrom(s) : x.sequence <= y.sequence
WorkerRetry(q) ==
  /\ q.kind = "retry"
  /\ IF RetainedFrom(q.sequence) = {}
     THEN /\ results' = Reply("commit", q.envelope, q.sequence, "storage_failed")
          /\ lane' = Tail(lane) /\ UNCHANGED <<retained, log, faults>>
     ELSE LET x == NextRetained(q.sequence) IN
            /\ CommitBatch(Nobody(x.request), x.sequence)
            /\ lane' = IF x \notin retained' /\ RetainedFrom(x.sequence + 1) # {}
                       THEN [lane EXCEPT ![1].sequence = x.sequence + 1] ELSE Tail(lane)

Worker ==
  /\ owner # "off" /\ lane # <<>>
  /\ WorkerLookup(Head(lane)) \/ WorkerCommit(Head(lane)) \/ WorkerRetry(Head(lane))
  /\ UNCHANGED <<client, lease, owner, backlog, server, inbox, mem, awaited, failed, starts>>

(***************************************************************************)
(* Its answers.                                                            *)
(***************************************************************************)

\* apply_mutation, queue_effect: a batch the full lane refuses stays on the board as a failed
\* save that nobody keeps.
\* Mutated form: the board forgets that the batch was refused.
ApplyUnnoticed(e) ==
  /\ mem' = Append(mem, e.request)
  /\ awaited' = IF LaneFull THEN awaited ELSE awaited \cup {Len(mem) + 1}
  /\ IF LaneFull
     THEN Answered(e, "storage_failed") /\ UNCHANGED lane
     ELSE /\ lane' = Append(lane, [kind |-> "commit", envelope |-> e, sequence |-> Len(mem) + 1])
          /\ UNCHANGED <<server, client>>
  /\ UNCHANGED <<owner, failed>>
ApplyMutation(e) ==
  LET s == Len(mem) + 1 IN
    /\ mem' = Append(mem, e.request)
    /\ awaited' = awaited \cup {s}
    /\ IF LaneFull
       THEN /\ failed' = s /\ owner' = "live"
            /\ Answered(e, "storage_failed") /\ UNCHANGED lane
       ELSE /\ lane' = Append(lane, [kind |-> "commit", envelope |-> e, sequence |-> s])
            /\ UNCHANGED <<server, client, owner, failed>>

\* complete_lookup: a stored identity is answered, another one applied.
CompleteLookup ==
  /\ owner # "off" /\ results # <<>> /\ Head(results).kind = "lookup"
  /\ results' = Tail(results)
  /\ LET e == Head(results).envelope
         answer == Head(results).answer
     IN IF answer = "none" /\ failed = 0 /\ Reduces(mem, e.request)
        THEN ApplyMutation(e)
        ELSE /\ Answered(e, IF answer = "none" THEN "refused" ELSE answer)
             /\ UNCHANGED <<mem, awaited, lane, owner, failed>>
  /\ UNCHANGED <<lease, backlog, inbox, retained, log, starts, faults>>

\* The commit's result: the receipt is the answer.  The board takes acknowledgements in the
\* order of its sequences; a failure takes a quit back.
CompleteCommit ==
  /\ owner # "off" /\ results # <<>> /\ Head(results).kind = "commit"
  /\ results' = Tail(results)
  /\ LET q == Head(results)
         good == q.answer \in {"recorded", "accepted"}
     IN /\ Answered(q.envelope, IF good THEN "accepted" ELSE "storage_failed")
        /\ IF good
           THEN /\ awaited' = IF awaited # {} /\ q.sequence = LeastOf(awaited)
                              THEN awaited \ {q.sequence} ELSE awaited
                /\ failed' = IF failed \in awaited' THEN failed ELSE 0
                /\ UNCHANGED owner
           ELSE /\ failed' = IF q.sequence \in awaited /\ (failed = 0 \/ q.sequence < failed)
                             THEN q.sequence ELSE failed
                /\ owner' = IF q.sequence \in awaited THEN "live" ELSE owner
                /\ UNCHANGED awaited
  /\ UNCHANGED <<lease, backlog, inbox, lane, retained, mem, log, starts, faults>>

\* The user retries the failed save.  A full lane ends the process: Crash.
RetrySave ==
  /\ owner = "live" /\ failed # 0 /\ ~LaneFull
  /\ lane' = Append(lane, [kind |-> "retry", sequence |-> failed, envelope |-> Nobody(mem[failed])])
  /\ failed' = 0
  /\ UNCHANGED <<client, lease, owner, backlog, server, inbox, retained, results, mem, awaited,
                 log, starts, faults>>

Quit ==
  /\ owner = "live" /\ owner' = "quitting"
  /\ UNCHANGED <<client, lease, backlog, server, ownerVars, log, starts, faults>>

\* The connections of a process that is gone are closed.
Disconnected ==
  [c \in Clients |-> IF client[c].pc = "waiting"
                     THEN [client[c] EXCEPT !.pc = "done", !.answer = "busy"] ELSE client[c]]
Gone ==
  /\ owner' = "off" /\ lease' = None
  /\ backlog' = <<>> /\ server' = <<>> /\ inbox' = <<>> /\ lane' = <<>> /\ results' = <<>>
  /\ retained' = {} /\ mem' = <<>> /\ awaited' = {} /\ failed' = 0
  /\ client' = Disconnected
  /\ UNCHANGED <<log, starts, faults>>

\* shutdown_ready asks for an idle lane; a batch the lane refused does not hold the owner back.
Exit == owner = "quitting" /\ inbox = <<>> /\ lane = <<>> /\ results = <<>> /\ Gone
Crash == owner # "off" /\ Gone

OwnerStep == Accept \/ ServerTimeout \/ QueueLookup \/ Worker \/ CompleteLookup \/ CompleteCommit
DirectStep(c) == DirectLookup(c) \/ DirectAcquire(c) \/ DirectApply(c)

Next ==
  \/ \E c \in Clients : Begin(c) \/ DirectStep(c) \/ ClientTimeout(c)
  \/ OwnerStep
  \/ StartOwner \/ RetrySave \/ Quit \/ Exit \/ Crash

\* Deadlines pass and running threads go on.
Fairness ==
  /\ WF_vars(OwnerStep)
  /\ \A c \in Clients : WF_vars(DirectStep(c)) /\ WF_vars(ClientTimeout(c))

Spec == Init /\ [][Next]_vars /\ Fairness

(***************************************************************************)
(* Properties.                                                             *)
(***************************************************************************)

TypeOK ==
  /\ \A c \in Clients : client[c].tries \in 0..MaxTries
  /\ lease \in Clients \cup {None, "owner"}
  /\ owner \in {"off", "live", "quitting"}
  /\ failed = 0 \/ failed \in awaited
  /\ \A i \in DOMAIN log : log[i] \in Requests

\* A command that was told its request is accepted finds exactly this request,
\* with these arguments, in the store, whichever way it went and however often
\* it was tried.
AcceptedIsRecorded ==
  \A c \in Clients :
    client[c].pc = "done" /\ client[c].answer = "accepted"
      => client[c].request \in Range(log)

\* Repeating a request does not apply it again, to the board the user sees.
AppliedOnce ==
  \A i, j \in DOMAIN mem : Fingerprint(mem[i]) = Fingerprint(mem[j]) => i = j

\* The store holds the first operations of the owner's board, in its order, and the owner waits
\* for every other one; only the repeat of a history move, answered by the receipt of the
\* first (AppliedOnce), is on the board and will never be stored.
Stored(i) == i <= Len(log) \/ (mem[i].family = "history" /\ mem[i] \in Range(log))
BoardIsDurable ==
  owner # "off" =>
    /\ Len(log) <= Len(mem) /\ \A i \in 1..Len(log) : log[i] = mem[i]
    /\ \A i \in DOMAIN mem : i \in awaited \/ Stored(i)

\* Every command ends with an answer.
CommandAnswered ==
  \A c \in Clients : client[c].pc # "idle" ~> client[c].pc = "done"

\* Owner control (adapters/terminal/runner/owner_control, adapters/control): an accepted command is
\* recorded under its identity, and the board shows nothing that could not be saved.
ControlSafe == TypeOK /\ AcceptedIsRecorded /\ BoardIsDurable
=============================================================================

------------------------------- MODULE Sessions -------------------------------
(***************************************************************************)
(* Session administration and the Browser's persistent undo history.       *)
(*                                                                         *)
(* Renaming, trashing and restoring a session are operations of one        *)
(* installation-wide history (adapters/sqlite/browser_history.rs) that the *)
(* commands and the session Browser undo and redo.  Each takes the lease   *)
(* of the session it touches (service/sessions/administration.rs); every   *)
(* request has an identity that a retry repeats.  An open session is       *)
(* renamed by its owner; opening and editing it move its last activity     *)
(* without an entry in that history.                                       *)
(***************************************************************************)
EXTENDS Integers, Sequences, FiniteSets, FiniteSetsExt, SequencesExt

CONSTANTS Sessions,    \* session identities
          Existing,    \* those in the store at the start
          Clients,     \* commands and Browser actions
          Requests,    \* [op, kind, s, arg] they may carry
          Renames,     \* requests of kind rename made by an owner's user
          MaxRuns,     \* bound on the commands and actions started
          MaxTime,     \* bound on the clock
          MaxFaults    \* bound on failing commits of an owner

VARIABLES sess,        \* the sessions table
          ops, cursor, \* the Browser history and the number of applied entries
          receipts,    \* requests with a durable receipt
          lease,       \* holder of each session's lease
          client,      \* per client: pc, request, target, answer
          owner,       \* per session: the owner's name of it, the rename it saves
          now, faults, runs,
          pruned       \* sessions removed for good (history variable)

vars == <<sess, ops, cursor, receipts, lease, client, owner, now, faults, runs, pruned>>
store == <<sess, ops, cursor, receipts, pruned>>

None == "none"
NoRequest == [op |-> None, kind |-> None, s |-> None, arg |-> 0]
NoEntry == [id |-> None, kind |-> None, s |-> None]
Absent == [exists |-> FALSE, name |-> 0, deleted |-> 0, active |-> 0]
Fresh(name) == [exists |-> TRUE, name |-> name, deleted |-> 0, active |-> now]
Idle == [pc |-> "idle", request |-> NoRequest, target |-> NoEntry, answer |-> None]
NotOpen == [name |-> 0, saving |-> NoRequest, previous |-> 0]

Init ==
  /\ now = 1
  /\ sess = [s \in Sessions |->
               IF s \in Existing THEN [exists |-> TRUE, name |-> 0, deleted |-> 0, active |-> 1]
               ELSE Absent]
  /\ ops = <<>> /\ cursor = 0 /\ receipts = {}
  /\ lease = [s \in Sessions |-> None]
  /\ client = [c \in Clients |-> Idle]
  /\ owner = [s \in Sessions |-> NotOpen]
  /\ faults = 0 /\ runs = 0 /\ pruned = {}

(***************************************************************************)
(* Operations and the store's transactions.                                *)
(***************************************************************************)

\* BrowserMutation: each names the value it expects to replace.
SetName(s, expected, value) ==
  [field |-> "name", s |-> s, expected |-> <<expected>>, value |-> <<value>>]
SetDeleted(s, expected, value) ==
  [field |-> "deleted", s |-> s, expected |-> expected, value |-> value]

Operation(id, kind, forward, expected, value) ==
  [id |-> id, kind |-> kind, s |-> forward.s, forward |-> forward,
   inverse |-> [forward EXCEPT !.expected = value, !.value = expected]]
Rename(id, s, name) ==
  Operation(id, "rename", SetName(s, sess[s].name, name), <<sess[s].name>>, <<name>>)
\* Trashing touches the session's activity; undoing it gives the earlier one back.
Trash(id, s) ==
  LET before == <<0, sess[s].active>>
      after == <<now, Max({sess[s].active, now})>>
  IN  Operation(id, "trash", SetDeleted(s, before, after), before, after)
Restore(id, s) ==
  LET before == <<sess[s].deleted, sess[s].active>>
      after == <<0, sess[s].active>>
  IN  Operation(id, "restore", SetDeleted(s, before, after), before, after)

\* apply_mutation: the row must exist and hold the expected value.
Current(m) == IF m.field = "name" THEN <<sess[m.s].name>>
              ELSE <<sess[m.s].deleted, sess[m.s].active>>
Applies(m) == sess[m.s].exists /\ Current(m) = m.expected
Applied(m) ==
  IF m.field = "name" THEN [sess EXCEPT ![m.s].name = m.value[1]]
  ELSE [sess EXCEPT ![m.s].deleted = m.value[1], ![m.s].active = m.value[2]]

Entry(o) == [id |-> o.id, kind |-> o.kind, s |-> o.s]
Status(undo) ==
  IF undo THEN (IF cursor > 0 THEN Entry(ops[cursor]) ELSE NoEntry)
  ELSE IF cursor < Len(ops) THEN Entry(ops[cursor + 1]) ELSE NoEntry

\* replay: the receipt of this identity, if there is one, must be of this request.
Recorded(r) == \E x \in receipts : x.op = r.op
Replay(r) == IF r \in receipts THEN "replayed" ELSE "conflict"

\* commit: a new operation drops the entries that could be redone.
Commit(o, r) ==
  /\ sess' = Applied(o.forward)
  /\ ops' = Append(SubSeq(ops, 1, cursor), o)
  /\ cursor' = cursor + 1
  /\ receipts' = receipts \union {r}

\* A receipt without an operation.
CommitNoOp(r) == receipts' = receipts \union {r} /\ UNCHANGED <<sess, ops, cursor>>

\* move_history.
Move(r, undo) ==
  /\ sess' = Applied(IF undo THEN ops[cursor].inverse ELSE ops[cursor + 1].forward)
  /\ cursor' = IF undo THEN cursor - 1 ELSE cursor + 1
  /\ receipts' = receipts \union {r}
  /\ UNCHANGED ops

\* invalidate_activity_conflicts: entries of the session that could be redone
\* and depend on its activity.
\* Mutated form: activity leaves the history alone.
InvalidateNothing(s) == ops
Invalidate(s) ==
  SubSeq(ops, 1, cursor) \o
    SelectSeq(SubSeq(ops, cursor + 1, Len(ops)),
              LAMBDA o : o.s # s \/ o.kind \notin {"trash", "restore"})

\* remove_session: the session's entries and those receipts that may go.
\* Mutated form: the receipt of a creation goes with its session.
SurvivesPruneNoCreate(r) == r.kind \in {"prune", "undo", "redo"}
SurvivesPrune(r) == r.kind \in {"create", "prune", "undo", "redo"}
\* Mutated form: the cursor keeps its number.
CursorWithoutUnmoved(s) == cursor
CursorWithout(s) == cursor - Cardinality({i \in 1..cursor : ops[i].s = s})
Prune(s, r) ==
  /\ sess' = [sess EXCEPT ![s] = Absent]
  /\ ops' = SelectSeq(ops, LAMBDA o : o.s # s)
  /\ cursor' = CursorWithout(s)
  /\ receipts' = {x \in receipts : x.s # s \/ SurvivesPrune(x)} \union {r}
  /\ pruned' = pruned \union {s}

(***************************************************************************)
(* Commands and Browser actions.                                           *)
(***************************************************************************)

Finish(c, answer) == [client EXCEPT ![c].pc = "done", ![c].answer = answer]
Moves(r) == r.kind \in {"undo", "redo"}

\* A command is run, or run again with the same identity.
Begin(c) ==
  /\ client[c].pc \in {"idle", "done"}
  /\ runs < MaxRuns /\ runs' = runs + 1
  /\ \E r \in Requests :
       client' = [client EXCEPT ![c] =
                    [Idle EXCEPT !.pc = IF r.kind \in {"create", "ensure"} THEN "create" ELSE "lookup",
                                 !.request = r]]
  /\ UNCHANGED <<store, lease, owner, now, faults>>

\* The Browser shows what undo and redo would do; the action names it.
Present(c) ==
  /\ client[c].pc = "lookup" /\ Moves(client[c].request)
  /\ client[c].target = NoEntry
  /\ Status(client[c].request.kind = "undo") # NoEntry
  /\ client' = [client EXCEPT ![c].target = Status(client[c].request.kind = "undo")]
  /\ UNCHANGED <<store, lease, owner, now, faults, runs>>

\* The identity is looked up before the lease is taken; a history movement
\* takes the lease of the session that it would touch.
Lookup(c) ==
  /\ client[c].pc = "lookup"
  /\ LET r == client[c].request
         target == Status(r.kind = "undo")
         next == [client EXCEPT ![c].pc = "acquire",
                                ![c].target = IF Moves(r) THEN target ELSE NoEntry]
     IN  client' = CASE Recorded(r) -> Finish(c, Replay(r))
                     [] ~Recorded(r) /\ ~Moves(r) -> next
                     [] OTHER -> IF target = NoEntry THEN Finish(c, "no_history")
                                 ELSE IF client[c].target \notin {NoEntry, target}
                                      THEN Finish(c, "conflict") ELSE next
  /\ UNCHANGED <<store, lease, owner, now, faults, runs>>

Touches(c) == IF Moves(client[c].request) THEN client[c].target.s ELSE client[c].request.s
Acquire(c) ==
  /\ client[c].pc = "acquire"
  /\ IF lease[Touches(c)] = None
     THEN /\ lease' = [lease EXCEPT ![Touches(c)] = c]
          /\ client' = [client EXCEPT ![c].pc = "leased"]
     ELSE client' = Finish(c, "busy") /\ UNCHANGED lease
  /\ UNCHANGED <<store, owner, now, faults, runs>>

\* Each transaction ends the command, and the command's lease with it.
Settle(c, answer) ==
  /\ client' = Finish(c, answer)
  /\ lease' = [lease EXCEPT ![Touches(c)] = None]
  /\ UNCHANGED <<owner, now, faults, runs>>
Leased(c, kind) == client[c].pc = "leased" /\ client[c].request.kind = kind
Refuse(c, answer) == Settle(c, answer) /\ UNCHANGED store

\* Under the lease the identity is looked up again and the session is loaded.
Admitted(c) ==
  LET r == client[c].request IN ~Recorded(r) /\ sess[r.s].exists
Refused(c) ==
  /\ client[c].pc = "leased" /\ ~Moves(client[c].request) /\ ~Admitted(c)
  /\ LET r == client[c].request IN
       Refuse(c, IF Recorded(r) THEN Replay(r) ELSE "not_found")

RenameSession(c) ==
  LET r == client[c].request IN
  /\ Leased(c, "rename") /\ Admitted(c)
  /\ IF sess[r.s].name = r.arg THEN CommitNoOp(r) ELSE Commit(Rename(r.op, r.s, r.arg), r)
  /\ Settle(c, "done") /\ UNCHANGED pruned

TrashSession(c) ==
  LET r == client[c].request IN
  /\ Leased(c, "trash") /\ Admitted(c)
  /\ IF sess[r.s].deleted # 0 THEN CommitNoOp(r) ELSE Commit(Trash(r.op, r.s), r)
  /\ Settle(c, "done") /\ UNCHANGED pruned

RestoreSession(c) ==
  LET r == client[c].request IN
  /\ Leased(c, "restore") /\ Admitted(c)
  /\ IF sess[r.s].deleted = 0 THEN Refuse(c, "not_trashed")
     ELSE Commit(Restore(r.op, r.s), r) /\ Settle(c, "done") /\ UNCHANGED pruned

PruneSession(c) ==
  LET r == client[c].request IN
  /\ Leased(c, "prune") /\ Admitted(c)
  /\ IF sess[r.s].deleted = 0 THEN Refuse(c, "not_trashed")
     ELSE Prune(r.s, r) /\ Settle(c, "done")

\* move_browser_history: the entry must still be the next one and must apply.
MoveHistory(c) ==
  LET r == client[c].request
      undo == r.kind = "undo"
      mutation == IF undo THEN ops[cursor].inverse ELSE ops[cursor + 1].forward
  IN
  /\ client[c].pc = "leased" /\ Moves(r)
  /\ IF Recorded(r) THEN Refuse(c, Replay(r))
     ELSE IF Status(undo) # client[c].target THEN Refuse(c, "conflict")
     ELSE IF ~Applies(mutation) THEN Refuse(c, "conflict")
     ELSE Move(r, undo) /\ Settle(c, "done") /\ UNCHANGED pruned

\* create_named: unconditional under a receipt, or unless the name is in use.
\* The session's identity is the operation's.
Create(c) ==
  LET r == client[c].request
      named == {s \in Sessions : sess[s].exists /\ sess[s].deleted = 0 /\ sess[s].name = r.arg}
      answer == CASE r.kind = "create" /\ Recorded(r) ->
                       IF Replay(r) = "conflict" \/ sess[r.s].exists THEN Replay(r) ELSE "not_found"
                  [] r.kind = "create" /\ ~Recorded(r) ->
                       IF sess[r.s].exists THEN "conflict" ELSE "done"
                  [] OTHER -> IF named # {} THEN "reused" ELSE "done"
  IN
  /\ client[c].pc = "create"
  /\ r.kind = "ensure" /\ named = {} => ~sess[r.s].exists /\ r.s \notin pruned  \* a new identity
  /\ client' = Finish(c, answer)
  /\ IF answer = "done"
     THEN /\ sess' = [sess EXCEPT ![r.s] = Fresh(r.arg)]
          /\ receipts' = IF r.kind = "create" THEN receipts \union {r} ELSE receipts
     ELSE UNCHANGED <<sess, receipts>>
  /\ UNCHANGED <<ops, cursor, pruned, lease, owner, now, faults, runs>>

(***************************************************************************)
(* The process that has a session open.                                    *)
(***************************************************************************)

\* resume: the lease, the session, and its opening recorded.
Open(s) ==
  /\ lease[s] = None /\ sess[s].exists /\ sess[s].deleted = 0
  /\ lease' = [lease EXCEPT ![s] = "owner"]
  /\ owner' = [owner EXCEPT ![s] = [NotOpen EXCEPT !.name = sess[s].name]]
  /\ ops' = Invalidate(s)
  /\ sess' = [sess EXCEPT ![s].active = Max({sess[s].active, now})]
  /\ UNCHANGED <<cursor, receipts, client, now, faults, runs, pruned>>

\* The commit of a board operation.
Activity(s) ==
  /\ lease[s] = "owner"
  /\ ops' = Invalidate(s)
  /\ sess' = [sess EXCEPT ![s].active = Max({sess[s].active, now})]
  /\ UNCHANGED <<cursor, receipts, lease, client, owner, now, faults, runs, pruned>>

\* rename_session in the owner: the name changes at once, one save at a time.
OwnerRename(s) ==
  /\ lease[s] = "owner" /\ owner[s].saving = NoRequest
  /\ \E r \in Renames :
       /\ r.s = s /\ r.arg # owner[s].name
       /\ owner' = [owner EXCEPT ![s] =
                      [name |-> r.arg, saving |-> r, previous |-> owner[s].name]]
  /\ UNCHANGED <<store, lease, client, now, faults, runs>>

\* The persistence lane commits it; a failure gives the previous name back.
\* Mutated form: the failed name stays.
OwnerSavedKeepsName(s) ==
  /\ owner[s].saving # NoRequest
  /\ LET r == owner[s].saving IN
       \/ /\ ~Recorded(r)
          /\ Commit(Rename(r.op, s, r.arg), r) /\ UNCHANGED <<faults, pruned>>
       \/ /\ faults < MaxFaults /\ faults' = faults + 1 /\ UNCHANGED store
  /\ owner' = [owner EXCEPT ![s].saving = NoRequest]
  /\ UNCHANGED <<lease, client, now, runs>>
OwnerSaved(s) ==
  /\ owner[s].saving # NoRequest
  /\ LET r == owner[s].saving
         kept == [NotOpen EXCEPT !.name = owner[s].name]
         given == [NotOpen EXCEPT !.name = owner[s].previous]
     IN
       \/ /\ ~Recorded(r) /\ owner' = [owner EXCEPT ![s] = kept]
          /\ Commit(Rename(r.op, s, r.arg), r) /\ UNCHANGED <<faults, pruned>>
       \/ /\ Recorded(r) /\ owner' = [owner EXCEPT ![s] = given]
          /\ UNCHANGED <<store, faults>>
       \/ /\ faults < MaxFaults /\ faults' = faults + 1
          /\ owner' = [owner EXCEPT ![s] = given] /\ UNCHANGED store
  /\ UNCHANGED <<lease, client, now, runs>>

\* The owner exits, or dies with a rename unsaved.
Close(s) ==
  /\ lease[s] = "owner"
  /\ lease' = [lease EXCEPT ![s] = None]
  /\ owner' = [owner EXCEPT ![s] = NotOpen]
  /\ UNCHANGED <<store, client, now, faults, runs>>

Tick == now < MaxTime /\ now' = now + 1 /\ UNCHANGED <<store, lease, client, owner, faults, runs>>

Next ==
  \/ \E c \in Clients :
       \/ Begin(c) \/ Present(c) \/ Lookup(c) \/ Acquire(c) \/ Refused(c)
       \/ RenameSession(c) \/ TrashSession(c) \/ RestoreSession(c) \/ PruneSession(c)
       \/ MoveHistory(c) \/ Create(c)
  \/ \E s \in Sessions : Open(s) \/ Activity(s) \/ OwnerRename(s) \/ OwnerSaved(s) \/ Close(s)
  \/ Tick

Spec == Init /\ [][Next]_vars

(***************************************************************************)
(* Properties.                                                             *)
(***************************************************************************)

TypeOK ==
  /\ \A s \in Sessions : sess[s].deleted \in 0..MaxTime /\ sess[s].active \in 0..MaxTime
  /\ cursor \in 0..Len(ops)
  /\ receipts \subseteq Requests \union Renames
  /\ \A s \in Sessions : lease[s] \in Clients \union {None, "owner"}

\* The last entry of a session below the cursor is what the session's row says
\* (commit, move_history, remove_session): however renames, trashings, undone
\* and redone entries and prunings of other sessions interleave, the history
\* never claims a state the table is not in.
LastApplied(s, kinds) == {i \in 1..cursor : ops[i].s = s /\ ops[i].kind \in kinds}
RowsFollowHistory ==
  \A s \in Sessions :
    /\ sess[s].exists => \A kinds \in {{"rename"}, {"trash", "restore"}} :
         LastApplied(s, kinds) # {} =>
           LET m == ops[Max(LastApplied(s, kinds))].forward
           IN  IF m.field = "name" THEN sess[s].name = m.value[1] ELSE sess[s].deleted = m.value[1]
    /\ ~sess[s].exists => \A i \in DOMAIN ops : ops[i].s # s

\* What the Browser offers to redo can be redone, and so can an undo of a rename
\* or of a trashing be carried out (apply_mutation's expectations): activity of a
\* reopened session removes the entries that its new last_active_at would make
\* fail.
HistoryApplies ==
  /\ cursor < Len(ops) => Applies(ops[cursor + 1].forward)
  /\ cursor > 0 /\ ops[cursor].kind # "restore" => Applies(ops[cursor].inverse)


\* A pruned session is gone: the retry of the request that created it is answered
\* from the receipt that survives (survives_session_prune) and creates nothing.
PrunedStaysGone == \A s \in pruned : ~sess[s].exists

\* The owner shows the name that is stored, unless it is saving another
\* (complete_session_rename).
OwnerNameStored ==
  \A s \in Sessions : lease[s] = "owner" =>
    IF owner[s].saving = NoRequest THEN owner[s].name = sess[s].name
    ELSE owner[s].previous = sess[s].name

\* The browser's sessions (adapters/sqlite/browser_history, session): rows follow the history,
\* the history applies to the rows, and what was pruned stays gone.
SessionsSafe == TypeOK /\ RowsFollowHistory /\ HistoryApplies /\ PrunedStaysGone /\ OwnerNameStored
===============================================================================

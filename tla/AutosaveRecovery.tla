-------------------------- MODULE AutosaveRecovery --------------------------
(***************************************************************************)
(* Proofs, checked by TLAPS, about what becomes of a failed save: what is   *)
(* pending is always held by someone, a retry starts where the store ends,  *)
(* and a normal exit left nothing behind, for every set of operations and   *)
(* every capacity.                                                          *)
(***************************************************************************)
EXTENDS AutosaveDurability

-----------------------------------------------------------------------------
(* Who holds what is pending.                                               *)

\* The places HeldSequences collects from, but for the answers that say the
\* store has the batch.
Queued(n) == \E i \in 1 .. Len(requests) : requests[i].kind = "Commit" /\ requests[i].seq = n
Retained(n) == \E r \in retained : r.seq = n
Stored(n) == n <= Len(log) /\ log[n] = mem[n]

Kept == \A n \in pending : Queued(n) \/ Retained(n) \/ n \in refused \/ Stored(n)

\* No batch was refused for want of room, and no retried capture was overtaken.
Calm == refused = {} /\ Overtaken = {}

\* Batches reach the lane in sequence order, after everything it retains.
QueueInOrder ==
    /\ \A r \in retained, i \in 1 .. Len(requests) :
         requests[i].kind = "Commit" => r.seq < requests[i].seq
    /\ \A i, j \in 1 .. Len(requests) :
         i < j /\ requests[i].kind = "Commit" /\ requests[j].kind = "Commit"
         => requests[i].seq < requests[j].seq

\* A retry under way covers everything retained from its next batch on.
RetryWhole ==
    /\ todo # {} => retrying
    /\ \A r \in retained, t \in todo : t <= r.seq => r.seq \in todo

Failure(a) == a.kind = "Sequenced" /\ ~a.ok
FailuresNamed(s) == \A i \in 1 .. Len(s) : Failure(s[i]) => s[i].seq <= Len(mem)

\* What failed is something the owner did and did not acknowledge.
FailuresKnown ==
    /\ IsFailed => durability.failed \in pending
    /\ \A i \in 1 .. Len(requests) : requests[i].kind = "Retry" => requests[i].seq <= Len(mem)
    /\ FailuresNamed(out) /\ FailuresNamed(results)

\* From position i of a channel on no commit is reported.
NoReports(s, i) == \A j \in i .. Len(s) : ~Reports(s[j])

\* A failure at or before n that is still true is on its way.
Announces(a, n) == Failure(a) /\ Len(log) < a.seq /\ a.seq <= n
AnnouncedOut(n) ==
    \E i \in 1 .. Len(out) : Announces(out[i], n) /\ NoReports(out, i + 1)
AnnouncedResults(n) ==
    \E i \in 1 .. Len(results) :
        Announces(results[i], n) /\ NoReports(results, i + 1) /\ NoReports(out, 1)
RetryQueued(n) ==
    \E i \in 1 .. Len(requests) : requests[i].kind = "Retry" /\ requests[i].seq <= n

\* A failure at or before n is on screen, and nothing on its way contradicts it.
OnScreen(n) == IsFailed /\ durability.failed <= n /\ durable = Len(log)

\* A retained batch is being retried, or the owner knows or will learn of a
\* failure from which a retry would reach it.
Recoverable(n) == \/ RetryQueued(n) \/ n \in todo
                  \/ AnnouncedOut(n) \/ AnnouncedResults(n) \/ OnScreen(n)

\* The answers of a retry are followed by its end.
EndsRetry(s, i) == \E j \in i .. Len(s) : s[j].kind = "RetryFinished"
Retried(a) == a.kind = "Sequenced" /\ a.retried
RetriesEnd ==
    /\ \A i \in 1 .. Len(out) : Retried(out[i]) => retrying \/ EndsRetry(out, i + 1)
    /\ \A i \in 1 .. Len(results) :
         Retried(results[i]) => retrying \/ EndsRetry(results, i + 1) \/ EndsRetry(out, 1)

AllRecoverable == \A r \in retained : Recoverable(r.seq)

Recovery == /\ QueueInOrder /\ RetryWhole /\ FailuresKnown /\ RetriesEnd
            /\ AllRecoverable

\* Only a quit over an exported failure leaves a pending edit behind.
DraftKept ==
    /\ exportedFor # 0 => exported # {}
    /\ quit /\ ~term => /\ intents \cap DirectOps = {}
                        /\ draft = NoOp \/ exported # {}

\* After a normal exit the lane has nothing to do.
LaneRests == requests = <<>> /\ out = <<>> /\ ~retrying

KeptInv == PrefixInv /\ (Running => Kept)
RecoveryInv == /\ StatusInv /\ AwaitedWorkCounted /\ KeptInv
               /\ Running /\ Calm => Recovery
ExitInv == /\ RecoveryInv /\ DraftKept
           /\ run = "exited" /\ Calm => LaneRests /\ ExitIsFlushed

LEMMA Members ==
    ASSUME TypeOK
    PROVE  /\ Len(requests) \in Nat /\ Len(out) \in Nat /\ Len(results) \in Nat
           /\ \A i \in 1 .. Len(requests) : requests[i] \in Requests /\ requests[i].seq \in Nat
           /\ \A i \in 1 .. Len(out) : out[i] \in Results /\ out[i].seq \in Nat
           /\ \A i \in 1 .. Len(results) : results[i] \in Results /\ results[i].seq \in Nat
           /\ \A r \in retained : r.seq \in Nat /\ r.op \in Ops
<1>1. /\ requests \in Seq(Requests) /\ out \in Seq(Results) /\ results \in Seq(Results)
      /\ retained \subseteq Commits
  BY DEF TypeOK, ChannelTypeOK, LaneTypeOK
<1>2. \A x \in Requests : x.seq \in Nat
  BY DEF Requests
<1>3. \A x \in Commits : x.seq \in Nat /\ x.op \in Ops
  BY DEF Commits
<1> QED
  BY <1>1, <1>2, <1>3, ResultParts

-----------------------------------------------------------------------------
(* The owner posts.                                                         *)

LaneKept == UNCHANGED <<retained, out, results, log, durable, retrying, todo>>

\* What a step of the owner that is neither a drain nor a reservation does.
Asks ==
    /\ IsFailed /\ ~IsFailed' /\ durability.failed \in pending /\ UNCHANGED <<mem, pending>>
    /\ requests' = Append(requests, Request("Retry", durability.failed, NoOp))
Enqueues(op) ==
    /\ op \in Ops /\ ~IsFailed /\ ~IsFailed'
    /\ mem' = Append(mem, op) /\ pending' = pending \cup {Len(mem) + 1}
    /\ requests' = Append(requests, Request("Commit", Len(mem) + 1, op))
Rests == UNCHANGED <<mem, pending, durability, requests>>
Refuses(op) ==
    /\ op \in Ops /\ mem' = Append(mem, op) /\ pending' = pending \cup {Len(mem) + 1}
    /\ refused' = refused \cup {Len(mem) + 1} /\ UNCHANGED requests

LEMMA RecordEnqueues ==
    ASSUME NEW op \in Ops, NEW staged, Admits, Record(op, staged), Running'
    PROVE  Enqueues(op)
<1>1. HasRoom
  BY DEF Record, Running
<1>2. /\ mem' = Append(mem, op) /\ pending' = pending \cup {Len(mem) + 1}
      /\ requests' = Append(requests, Request("Commit", Len(mem) + 1, op))
      /\ durability' = RefreshDurability(pending \cup {Len(mem) + 1})
  BY <1>1 DEF Record, TrackPending, Post, NextSequence
<1>3. ~IsFailed
  BY DEF Admits
<1>4. Durable.state # "Failed" /\ Pending.state # "Failed"
  BY DEF Durable, Pending
<1>5. durability'.state # "Failed"
  BY <1>2, <1>3, <1>4 DEF RefreshDurability
<1> QED
  BY <1>2, <1>3, <1>5 DEF Enqueues, IsFailed

LEMMA QuietEffect ==
    ASSUME TypeOK, QuietStep, Running'
    PROVE  /\ Running /\ LaneKept
           /\ \/ UNCHANGED refused /\ (Rests \/ Asks \/ \E op : Enqueues(op))
              \/ \E op : Refuses(op)
<1>1. /\ Running
      /\ UNCHANGED <<retained, out, results, log, durable, retrying>>
  BY QuietFootprint, QuietPosts
<1>2. todo' = todo
  BY DEF QuietStep, Type, Mutate, DeferInput, ReplayInput, BeginIntent, CompleteIntent,
         QueueLookup, CompleteLookup, RetryPersistence, ExportRecovery,
         CompleteRecoveryExport, Quit, QuitAbandoningCapture, Terminate, Flush,
         RetainFailedCapture, AbandonFailedCapture, ShutdownPoll, DeadlineExpires, laneVars
<1>0. \/ UNCHANGED refused
      \/ \E op \in ControlOps : CompleteLookup(op)
  BY DEF QuietStep, Type, Mutate, DeferInput, ReplayInput, BeginIntent, CompleteIntent,
         QueueLookup, RetryPersistence, ExportRecovery, CompleteRecoveryExport, Quit,
         QuitAbandoningCapture, Terminate, Flush, RetainFailedCapture,
         AbandonFailedCapture, ShutdownPoll, DeadlineExpires, laneVars
<1>3. ASSUME NEW op \in Ops, NEW staged, Admits, Record(op, staged)
      PROVE  \E x : Enqueues(x)
  BY <1>3, RecordEnqueues
<1>4. ASSUME NEW op \in DirectOps,
             Type(op) \/ Mutate(op) \/ DeferInput(op) \/ ReplayInput(op)
      PROVE  UNCHANGED refused /\ (Rests \/ \E x : Enqueues(x))
  <2>1. CASE UNCHANGED <<appVars, requests, laneVars>>
    BY <2>1 DEF Rests, appVars, laneVars
  <2>2. CASE Admits /\ Record(op, FALSE) /\ UNCHANGED laneVars
    BY <1>3, <2>2, OpsParts DEF laneVars
  <2> QED
    BY <1>4, <2>1, <2>2 DEF Type, Mutate, DeferInput, ReplayInput
<1>5. ASSUME NEW op \in IntentOps, BeginIntent(op) \/ CompleteIntent(op)
      PROVE  UNCHANGED refused /\ (Rests \/ \E x : Enqueues(x))
  <2>1. CASE UNCHANGED <<appVars, requests, laneVars>>
    BY <2>1 DEF Rests, appVars, laneVars
  <2>2. CASE Admits /\ (\E staged \in BOOLEAN : Record(op, staged)) /\ UNCHANGED laneVars
    BY <1>3, <2>2, OpsParts DEF laneVars
  <2> QED
    BY <1>5, <2>1, <2>2 DEF BeginIntent, CompleteIntent
<1>6. ASSUME NEW op \in ControlOps, QueueLookup(op) \/ CompleteLookup(op)
      PROVE  \/ UNCHANGED refused /\ (Rests \/ \E x : Enqueues(x))
             \/ Refuses(op)
  <2>1. CASE UNCHANGED <<appVars, requests, refused>>
    BY <2>1 DEF Rests, appVars
  <2>2. CASE Admits /\ Record(op, FALSE) /\ UNCHANGED refused
    BY <1>3, <2>2, OpsParts
  <2>3. CASE Refuses(op)
    BY <2>3
  <2>4. CASE QueueLookup(op)
    BY <2>1, <2>4 DEF QueueLookup, laneVars
  <2>5. CASE CompleteLookup(op)
    BY <2>1, <2>2, <2>3, <2>5, OpsParts DEF CompleteLookup, Refuses, NextSequence
  <2> QED
    BY <1>6, <2>4, <2>5
<1>7. CASE RetryPersistence
  <2>1. HasRoom
    BY <1>7 DEF RetryPersistence, Running
  <2>2. Pending.state # "Failed"
    BY DEF Pending
  <2>3. UNCHANGED refused
    BY <1>7 DEF RetryPersistence, laneVars
  <2> QED
    BY <1>1, <1>2, <1>7, <2>1, <2>2, <2>3 DEF RetryPersistence, Asks, Post, IsFailed, LaneKept
<1>8. CASE ExportRecovery \/ CompleteRecoveryExport \/ RetainFailedCapture \/ ShutdownPoll
             \/ DeadlineExpires
  <2>1. Rests /\ UNCHANGED refused
    BY <1>8 DEF ExportRecovery, CompleteRecoveryExport, RetainFailedCapture, ShutdownPoll,
                DeadlineExpires, appVars, Rests, laneVars
  <2> QED
    BY <1>1, <1>2, <2>1 DEF LaneKept
<1>9. ASSUME NEW skip, FlushAndQuit(skip)
      PROVE  Rests \/ \E x : Enqueues(x)
  <2>1. CASE draft # NoOp /\ ~skip
    <3>1. draft \in Ops
      BY <2>1, OpsParts DEF TypeOK, UiTypeOK
    <3> QED
      BY <1>3, <1>9, <2>1, <3>1 DEF FlushAndQuit
  <2>2. CASE ~(draft # NoOp /\ ~skip)
    BY <1>9, <2>2 DEF FlushAndQuit, Rests, appVars
  <2> QED
    BY <2>1, <2>2
<1>10. CASE Quit \/ QuitAbandoningCapture \/ Terminate \/ AbandonFailedCapture
  <2>1. /\ UNCHANGED laneVars
        /\ \/ \E skip : FlushAndQuit(skip)
           \/ UNCHANGED <<appVars, draft, inflight, requests, run, quit>>
    BY <1>10 DEF Quit, QuitAbandoningCapture, Terminate, AbandonFailedCapture,
                 AbandonAndQuit
  <2>2. Rests \/ \E x : Enqueues(x)
    BY <1>9, <2>1 DEF Rests, appVars
  <2> QED
    BY <1>1, <1>2, <2>1, <2>2 DEF LaneKept, laneVars
<1>11. CASE Flush
  <2>1. draft \in Ops /\ Admits /\ Record(draft, FALSE) /\ UNCHANGED laneVars
    BY <1>11, OpsParts DEF Flush, TypeOK, UiTypeOK
  <2> QED
    BY <1>1, <1>2, <1>3, <2>1 DEF LaneKept, laneVars
<1> QED
  BY <1>1, <1>2, <1>4, <1>5, <1>6, <1>7, <1>8, <1>10, <1>11 DEF QuietStep, LaneKept

-----------------------------------------------------------------------------
(* Whatever is pending is kept.                                             *)

\* Steps that let go of nothing but what is no longer pending.
LEMMA KeptGrow ==
    ASSUME TypeOK, Kept, pending' \subseteq pending, refused \subseteq refused',
           \A n : (Queued(n) => Queued(n)') /\ (Retained(n) => Retained(n)'),
           Len(log) <= Len(log'), Len(log') \in Nat,
           \A i \in 1 .. Len(log) : log'[i] = log[i],
           \A i \in 1 .. Len(mem) : mem'[i] = mem[i]
    PROVE  Kept'
<1> SUFFICES ASSUME NEW n \in pending', ~Queued(n)', ~Retained(n)', n \notin refused'
             PROVE  Stored(n)'
  BY DEF Kept
<1>1. Stored(n)
  BY DEF Kept
<1>2. n \in 1 .. Len(mem) /\ n \in 1 .. Len(log)
  <2>1. n \in Nat \ {0} /\ n <= Len(mem)
    BY PendingType
  <2> QED
    BY <1>1, <2>1, MemberOfCommits DEF Stored
<1> QED
  BY <1>1, <1>2, MemberOfCommits DEF Stored

\* What a queue that gained a request still holds.
LEMMA QueuedStays ==
    ASSUME TypeOK, NEW r, r \in Requests, requests' = Append(requests, r)
    PROVE  /\ \A n : Queued(n) => Queued(n)'
           /\ r.kind = "Commit" => Queued(r.seq)'
<1>1. requests \in Seq(Requests)
  BY MemberOfCommits
<1>2. /\ Len(requests) \in Nat /\ Len(requests') = Len(requests) + 1
      /\ requests'[Len(requests) + 1] = r
      /\ \A i \in 1 .. Len(requests) : requests'[i] = requests[i]
  BY <1>1, AppendPart
<1>3. /\ Len(requests) + 1 \in 1 .. Len(requests')
      /\ \A i \in 1 .. Len(requests) : i \in 1 .. Len(requests')
  BY <1>2
<1> QED
  BY <1>2, <1>3 DEF Queued

LEMMA QuietKept ==
    ASSUME TypeOK, Running => Kept, QuietStep, Running'
    PROVE  Kept'
<1>1. /\ Running /\ LaneKept /\ Kept
      /\ \/ UNCHANGED refused /\ (Rests \/ Asks \/ \E op : Enqueues(op))
         \/ \E op : Refuses(op)
  BY QuietEffect
<1>2. /\ log' = log /\ Len(log) \in Nat /\ mem \in Seq(Ops) /\ Len(mem) \in Nat
      /\ \A n : Retained(n) => Retained(n)'
  BY <1>1, MemberOfCommits DEF LaneKept, Retained
<1>3. CASE UNCHANGED refused /\ Rests
  BY <1>1, <1>2, <1>3, KeptGrow DEF Rests, Queued
<1>4. CASE UNCHANGED refused /\ Asks
  <2>1. Request("Retry", durability.failed, NoOp) \in Requests
    BY <1>4, PendingType, RetryType DEF Asks
  <2>2. \A n : Queued(n) => Queued(n)'
    BY <1>4, <2>1, QueuedStays DEF Asks
  <2> QED
    BY <1>1, <1>2, <1>4, <2>2, KeptGrow DEF Asks
<1>5. ASSUME NEW op \in Ops, mem' = Append(mem, op), NEW k, pending' = pending \cup {k},
             refused \subseteq refused', \A n : Queued(n) => Queued(n)',
             Queued(k)' \/ k \in refused'
      PROVE  Kept'
  <2>1. \A i \in 1 .. Len(mem) : mem'[i] = mem[i]
    BY <1>2, <1>5, AppendPart
  <2> SUFFICES ASSUME NEW n \in pending', ~Queued(n)', ~Retained(n)', n \notin refused'
               PROVE  Stored(n)'
    BY DEF Kept
  <2>2. n \in pending
    BY <1>5
  <2>3. Stored(n)
    BY <1>1, <1>2, <1>5, <2>2 DEF Kept
  <2>4. n \in 1 .. Len(mem)
    BY <1>2, <2>2, PendingType
  <2> QED
    BY <1>2, <2>1, <2>3, <2>4 DEF Stored
<1>6. CASE UNCHANGED refused /\ \E op : Enqueues(op)
  <2>1. PICK op : Enqueues(op)
    BY <1>6
  <2>2. PICK k : k = Len(mem) + 1
    OBVIOUS
  <2>3. PICK r : r = Request("Commit", k, op)
    OBVIOUS
  <2>4. r \in Requests /\ r.kind = "Commit" /\ r.seq = k
    <3>1. k \in Nat \ {0} /\ op \in Ops
      BY <1>2, <2>1, <2>2 DEF Enqueues
    <3>2. r \in Requests
      BY <2>3, <3>1, RequestType
    <3> QED
      BY <2>3, <3>2 DEF Request
  <2>5. /\ op \in Ops /\ mem' = Append(mem, op) /\ pending' = pending \cup {k}
        /\ requests' = Append(requests, r)
    BY <2>1, <2>2, <2>3 DEF Enqueues
  <2>6. Queued(k)' /\ \A n : Queued(n) => Queued(n)'
    BY <2>4, <2>5, QueuedStays
  <2> QED
    BY <1>5, <1>6, <2>5, <2>6
<1>7. CASE \E op : Refuses(op)
  <2>1. PICK op : Refuses(op)
    BY <1>7
  <2>2. PICK k : k = Len(mem) + 1
    OBVIOUS
  <2>3. /\ op \in Ops /\ mem' = Append(mem, op) /\ pending' = pending \cup {k}
        /\ refused \subseteq refused' /\ k \in refused' /\ requests' = requests
    BY <2>1, <2>2 DEF Refuses
  <2>4. \A n : Queued(n) => Queued(n)'
    BY <2>3 DEF Queued
  <2> QED
    BY <1>5, <2>3, <2>4
<1> QED
  BY <1>1, <1>3, <1>4, <1>6, <1>7

\* The lane commits a batch it was sent or retained: the store has it, or the
\* lane retains it, or says that it cannot.
LEMMA CommitKept ==
    ASSUME TypeOK, HeldMatches, Kept, NEW c \in Commits, NEW retried, NEW more,
           Succeeds(c, retried, more) \/ Fails(c, retried, more),
           UNCHANGED <<mem, pending>>, c.seq \in 1 .. Len(mem), c.op = mem[c.seq],
           \A n : Queued(n) => Queued(n)' \/ n = c.seq
    PROVE  Kept'
<1>1. log \in Seq(Ops) /\ Len(log) \in Nat /\ Len(mem) \in Nat /\ c.op \in Ops
      /\ c.seq \in Nat
  BY MemberOfCommits DEF Commits
<1>2. /\ Len(log) <= Len(log') /\ Len(log') \in Nat
      /\ \A i \in 1 .. Len(log) : log'[i] = log[i]
  <2>1. log' = log \/ log' = Append(log, c.op)
    BY DEF Succeeds, Fails, StoreAccepts, StoreRejects
  <2>2. CASE log' = log
    BY <1>1, <2>2
  <2>3. CASE log' = Append(log, c.op)
    <3>1. Len(log') = Len(log) + 1 /\ \A i \in 1 .. Len(log) : log'[i] = log[i]
      BY <1>1, <2>3, AppendPart
    <3> QED
      BY <1>1, <3>1
  <2> QED
    BY <2>1, <2>2, <2>3
<1>3. ASSUME NEW n \in pending, Stored(n) PROVE Stored(n)'
  <2>1. n \in 1 .. Len(log) /\ n <= Len(log')
    BY <1>1, <1>2, <1>3, PendingType DEF Stored
  <2> QED
    BY <1>2, <1>3, <2>1 DEF Stored
<1>4. Retained(c.seq)' \/ c.seq \in refused' \/ Stored(c.seq)'
  <2>1. CASE Succeeds(c, retried, more)
    <3>1. CASE Replays(c) /\ UNCHANGED log
      BY <3>1, <1>1 DEF Replays, Stored
    <3>2. CASE c.seq = Len(log) + 1 /\ log' = Append(log, c.op)
      <4>1. Len(log') = Len(log) + 1 /\ log'[Len(log) + 1] = c.op
        BY <1>1, <3>2, AppendPart
      <4> QED
        BY <1>1, <3>2, <4>1 DEF Stored
    <3> QED
      BY <2>1, <3>1, <3>2 DEF Succeeds, StoreAccepts
  <2>2. CASE Fails(c, retried, more)
    BY <2>2 DEF Fails, Retained
  <2> QED
    BY <2>1, <2>2
<1>5. \A n : n # c.seq /\ Retained(n) => Retained(n)'
  BY DEF Succeeds, Fails, Forget, Retained
<1>6. refused \subseteq refused'
  BY DEF Succeeds, Fails
<1> SUFFICES ASSUME NEW n \in pending, n # c.seq
             PROVE  Queued(n)' \/ Retained(n)' \/ n \in refused' \/ Stored(n)'
  BY <1>4 DEF Kept
<1> QED
  BY <1>3, <1>5, <1>6 DEF Kept

\* The lane takes the oldest request.
LEMMA QueuedTail ==
    ASSUME TypeOK, requests # <<>>, requests' = Tail(requests)
    PROVE  \A n : Queued(n) => \/ Queued(n)'
                               \/ requests[1].kind = "Commit" /\ requests[1].seq = n
<1>1. requests \in Seq(Requests)
  BY MemberOfCommits
<1>2. /\ Len(requests) \in Nat /\ Len(requests') = Len(requests) - 1
      /\ \A i \in 1 .. Len(requests') : requests'[i] = requests[i + 1]
  BY <1>1
<1>3. \A i \in 1 .. Len(requests) : i # 1 => i - 1 \in 1 .. Len(requests') /\ (i - 1) + 1 = i
  BY <1>2
<1> QED
  BY <1>2, <1>3 DEF Queued

LEMMA KeptInit == Init => KeptInv
BY PrefixInit DEF Init, KeptInv, Kept

LEMMA KeptStep == ASSUME KeptInv, [Next]_vars PROVE KeptInv'
<1>1. PrefixInv /\ PrefixInv' /\ TypeOK /\ HeldMatches /\ (Running => Kept)
  BY PrefixStep DEF KeptInv, PrefixInv, AckInv
<1> SUFFICES ASSUME Running' PROVE Kept'
  BY <1>1 DEF KeptInv
<1>2. log \in Seq(Ops) /\ Len(log) \in Nat /\ Len(mem) \in Nat /\ mem \in Seq(Ops)
  BY <1>1, MemberOfCommits
<1>3. CASE QuietStep
  BY <1>1, <1>3, QuietKept
<1>4. CASE Reopen
  BY <1>4 DEF Reopen, Kept
<1>5. CASE UNCHANGED vars \/ StoreHeals \/ LaneSend
  <2>1. UNCHANGED <<mem, pending, log, requests, retained, refused, run>>
    BY <1>5 DEF vars, StoreHeals, LaneSend, ownerVars, appVars, stopVars, laneVars, storeVars
  <2> QED
    BY <1>1, <2>1 DEF Kept, Queued, Retained, Stored, Running
<1>6. CASE \E op \in CaptureOps : AdvanceCapture(op) \/ RetryCapture(op)
  <2>1. PICK op \in CaptureOps : AdvanceCapture(op) \/ RetryCapture(op)
    BY <1>6
  <2>2. /\ Reserve(op) /\ Running
        /\ UNCHANGED <<mem, pending, log, retained, refused>>
    BY <2>1 DEF AdvanceCapture, RetryCapture, Reserve, appVars, laneVars, storeVars,
                TakesInput, Turn
  <2>3. PICK r : r = Request("Capture", Len(mem) + 1, op)
    OBVIOUS
  <2>4. r \in Requests /\ requests' = Append(requests, r)
    <3>1. Len(mem) + 1 \in Nat \ {0} /\ op \in Ops
      BY <1>2, OpsParts
    <3>2. requests' = Append(requests, r)
      BY <2>2, <2>3 DEF Reserve, Post, NextSequence, Running
    <3> QED
      BY <2>3, <3>1, <3>2, RequestType
  <2>5. \A n : Queued(n) => Queued(n)'
    BY <1>1, <2>4, QueuedStays
  <2> QED
    BY <1>1, <2>2, <2>5 DEF Kept, Retained, Stored
<1>7. CASE Drain
  <2>1. /\ Running /\ UNCHANGED <<requests, retained, log, refused>>
    BY <1>7 DEF Drain, DrainSequenced, DrainRetryFinished, DrainCapture, Turn, laneVars,
                storeVars
  <2>2. /\ pending' \subseteq pending
        /\ mem' = mem \/ (mem' = Append(mem, save.op) /\ save.op \in Ops)
    <3>1. save.state = "InFlight" => save.op \in Ops
      BY <1>1, OpsParts DEF TypeOK, UiTypeOK, NoSave
    <3>2. DrainCapture => save.state = "InFlight"
      <4> SUFFICES ASSUME DrainCapture PROVE save.state = "InFlight"
        OBVIOUS
      <4>1. results # <<>> /\ Answer.kind = "Capture"
        BY DEF DrainCapture
      <4>2. Answer = results[1] /\ 1 \in 1 .. Len(results)
        BY <1>1, <4>1, AnswerType
      <4> QED
        BY <1>1, <4>1, <4>2 DEF PrefixInv, AckInv, CaptureInv, OneCapture, Has
    <3> QED
      BY <1>7, <3>1, <3>2 DEF Drain, DrainSequenced, DrainRetryFinished, DrainCapture,
         AcknowledgeCommitted, AcknowledgeFailed, appVars
  <2>3. \A i \in 1 .. Len(mem) : mem'[i] = mem[i]
    BY <1>2, <2>2, AppendPart
  <2> QED
    BY <1>1, <1>2, <2>1, <2>2, <2>3, KeptGrow DEF Queued, Retained
<1>8. CASE LaneCapture \/ LaneRetry
  <2>1. /\ UNCHANGED <<mem, pending, retained, refused, run>>
        /\ \E kind \in {"Capture", "Retry"} : Receive(kind)
    BY <1>8 DEF LaneCapture, LaneRetry, ownerVars, appVars, stopVars
  <2>2. \A n : Queued(n) => Queued(n)'
    <3>1. /\ requests # <<>> /\ requests' = Tail(requests) /\ requests[1].kind # "Commit"
      BY <1>1, <2>1, ReceiveType DEF Receive
    <3> QED
      BY <1>1, <3>1, QueuedTail
  <2>3. /\ Len(log) <= Len(log') /\ Len(log') \in Nat
        /\ \A i \in 1 .. Len(log) : log'[i] = log[i]
    <3>1. log' = log \/ \E x \in Ops : log' = Append(log, x)
      <4>1. LaneCapture => Head(requests).op \in Ops
        BY <1>1, ReceiveType DEF LaneCapture
      <4> QED
        BY <1>8, <4>1 DEF LaneCapture, LaneRetry, StoreAccepts, StoreRejects, storeVars
    <3>2. CASE log' = log
      BY <1>2, <3>2
    <3>3. CASE \E x \in Ops : log' = Append(log, x)
      <4>1. PICK x \in Ops : log' = Append(log, x)
        BY <3>3
      <4>2. Len(log') = Len(log) + 1 /\ \A i \in 1 .. Len(log) : log'[i] = log[i]
        BY <1>2, <4>1, AppendPart
      <4> QED
        BY <1>2, <4>2
    <3> QED
      BY <3>1, <3>2, <3>3
  <2> QED
    BY <1>1, <2>1, <2>2, <2>3, KeptGrow DEF Retained, Running
<1>9. CASE LaneCommit
  <2>1. PICK c : c = [seq |-> Head(requests).seq, op |-> Head(requests).op]
    OBVIOUS
  <2>2. /\ Receive("Commit") /\ (Succeeds(c, FALSE, <<>>) \/ Fails(c, FALSE, <<>>))
        /\ UNCHANGED <<mem, pending, run>>
    BY <1>9, <2>1 DEF LaneCommit, ownerVars, appVars, stopVars
  <2>3. /\ Head(requests) = requests[1] /\ 1 \in 1 .. Len(requests)
        /\ requests[1].kind = "Commit" /\ requests # <<>> /\ requests' = Tail(requests)
        /\ c.seq = requests[1].seq /\ c.op = requests[1].op /\ c \in Commits
    BY <1>1, <2>1, <2>2, ReceiveType DEF Receive, Commits
  <2>4. c.seq \in 1 .. Len(mem) /\ c.op = mem[c.seq]
    BY <1>1, <2>3 DEF HeldMatches
  <2>5. \A n : Queued(n) => Queued(n)' \/ n = c.seq
    BY <1>1, <2>3, QueuedTail
  <2>6. Kept
    BY <1>1, <2>2 DEF Running
  <2> QED
    BY <1>1, <2>2, <2>3, <2>4, <2>5, <2>6, CommitKept
<1>10. CASE LaneRetryNext
  <2>1. /\ UNCHANGED <<mem, pending, run, requests>>
        /\ \E c \in retained, more \in {<<>>, <<RetryFinished>>} :
             Succeeds(c, TRUE, more) \/ Fails(c, TRUE, more)
    BY <1>10 DEF LaneRetryNext, ownerVars, appVars, stopVars
  <2>2. PICK c \in retained, more \in {<<>>, <<RetryFinished>>} :
             Succeeds(c, TRUE, more) \/ Fails(c, TRUE, more)
    BY <2>1
  <2>3. c \in Commits /\ c.seq \in 1 .. Len(mem) /\ c.op = mem[c.seq]
    BY <1>1 DEF HeldMatches, TypeOK, LaneTypeOK
  <2>4. Kept /\ \A n : Queued(n) => Queued(n)' \/ n = c.seq
    BY <1>1, <2>1 DEF Running, Queued
  <2> QED
    BY <1>1, <2>1, <2>2, <2>3, <2>4, CommitKept
<1> QED
  BY <1>3, <1>4, <1>5, <1>6, <1>7, <1>8, <1>9, <1>10, NextSplit

-----------------------------------------------------------------------------
(* What recovery rests on, once nothing was refused or overtaken.           *)

\* What depends only on the answers and the lane's own state.
LEMMA AnswersKept ==
    ASSUME TypeOK, TypeOK', Recovery, LaneKept, Len(mem) <= Len(mem')
    PROVE  /\ RetryWhole' /\ RetriesEnd' /\ FailuresNamed(out)' /\ FailuresNamed(results)'
           /\ \A n : /\ Retained(n) => Retained(n)'
                     /\ AnnouncedOut(n) => AnnouncedOut(n)'
                     /\ AnnouncedResults(n) => AnnouncedResults(n)'
<1>1. Len(mem) \in Nat /\ Len(mem') \in Nat
  BY MemberOfCommits DEF TypeOK, AppTypeOK
<1>2. UNCHANGED <<retained, out, results, log, durable, retrying, todo>>
  BY DEF LaneKept
<1>3. RetryWhole' /\ RetriesEnd'
  BY <1>2 DEF Recovery, RetryWhole, RetriesEnd, Retried, EndsRetry
<1>4. FailuresNamed(out)' /\ FailuresNamed(results)'
  BY <1>1, <1>2, Members DEF Recovery, FailuresKnown, FailuresNamed, Failure
<1> QED
  BY <1>2, <1>3, <1>4 DEF Retained, AnnouncedOut, AnnouncedResults, Announces,
     Failure, NoReports, Reports

LEMMA RestRecovery ==
    ASSUME TypeOK, TypeOK', Recovery, LaneKept, Rests
    PROVE  Recovery'
<1>1. /\ UNCHANGED <<mem, pending, durability, requests>>
      /\ UNCHANGED <<retained, out, results, log, durable, retrying, todo>>
      /\ Len(mem) <= Len(mem')
  BY MemberOfCommits DEF Rests, LaneKept
<1>2. RetryWhole' /\ RetriesEnd' /\ FailuresKnown' /\ QueueInOrder'
  BY <1>1, AnswersKept DEF Recovery, FailuresKnown, QueueInOrder, IsFailed
<1>4. \A n : OnScreen(n) => OnScreen(n)'
  BY <1>1 DEF OnScreen, IsFailed
<1>5. \A n : RetryQueued(n) => RetryQueued(n)'
  BY <1>1 DEF RetryQueued
<1>6. AllRecoverable'
  BY <1>1, <1>4, <1>5, AnswersKept DEF Recovery, AllRecoverable, Recoverable
<1> QED
  BY <1>2, <1>6 DEF Recovery

\* What a request adds to the channel.
LEMMA PostRecovery ==
    ASSUME TypeOK, TypeOK', HeldMatches, Recovery, LaneKept,
           NEW r \in Requests, requests' = Append(requests, r),
           \/ r.kind = "Capture" /\ UNCHANGED <<mem, pending, durability>>
           \/ r.kind = "Retry" /\ r.seq = durability.failed /\ Asks
           \/ r.kind = "Commit" /\ r.seq = Len(mem) + 1 /\ \E op : Enqueues(op)
    PROVE  Recovery'
<1>1. /\ requests \in Seq(Requests) /\ Len(mem) \in Nat /\ Len(log) \in Nat
      /\ mem \in Seq(Ops)
      /\ UNCHANGED <<retained, out, results, log, durable, retrying, todo>>
  BY MemberOfCommits DEF LaneKept
<1>2. /\ Len(requests) \in Nat /\ Len(requests') = Len(requests) + 1
      /\ requests'[Len(requests) + 1] = r
      /\ \A i \in 1 .. Len(requests) : requests'[i] = requests[i]
      /\ \A i \in 1 .. Len(requests') : i \in 1 .. Len(requests) \/ i = Len(requests) + 1
      /\ Len(requests) + 1 \in 1 .. Len(requests')
      /\ \A i \in 1 .. Len(requests) : i \in 1 .. Len(requests')
  <2>1. Len(requests) \in Nat /\ Len(requests') = Len(requests) + 1
        /\ requests'[Len(requests) + 1] = r
        /\ \A i \in 1 .. Len(requests) : requests'[i] = requests[i]
    BY <1>1, AppendPart
  <2> QED
    BY <2>1
<1>3. Len(mem) <= Len(mem')
  BY <1>1 DEF Asks, Enqueues
<1>4. /\ \A i \in 1 .. Len(requests) :
           requests[i].kind = "Commit" => requests[i].seq \in 1 .. Len(mem)
      /\ \A x \in retained : x.seq \in 1 .. Len(mem)
  BY DEF HeldMatches
<1>5. QueueInOrder'
  <2>1. ASSUME NEW x \in retained, NEW i \in 1 .. Len(requests'), requests'[i].kind = "Commit"
        PROVE  x.seq < requests'[i].seq
    BY <1>1, <1>2, <1>4, <2>1 DEF Recovery, QueueInOrder
  <2>2. ASSUME NEW i \in 1 .. Len(requests'), NEW j \in 1 .. Len(requests'), i < j,
               requests'[i].kind = "Commit", requests'[j].kind = "Commit"
        PROVE  requests'[i].seq < requests'[j].seq
    <3>1. i \in 1 .. Len(requests)
      BY <1>2, <2>2
    <3> QED
      BY <1>1, <1>2, <1>4, <2>2, <3>1 DEF Recovery, QueueInOrder
  <2> QED
    BY <1>1, <2>1, <2>2 DEF QueueInOrder
<1>6. FailuresKnown'
  <2>1. IsFailed' => durability'.failed \in pending'
    BY DEF Recovery, FailuresKnown, IsFailed, Asks, Enqueues
  <2>2. \A i \in 1 .. Len(requests) : requests[i].kind = "Retry" => requests[i].seq <= Len(mem')
    BY <1>1, <1>3, Members DEF Recovery, FailuresKnown, TypeOK, AppTypeOK
  <2>3. r.kind = "Retry" => r.seq <= Len(mem')
    BY <1>1, <1>3, PendingType DEF Asks
  <2> QED
    BY <1>2, <1>3, <2>1, <2>2, <2>3, AnswersKept DEF FailuresKnown
<1>8. AllRecoverable'
  <2>1. \A n : RetryQueued(n) => RetryQueued(n)'
    BY <1>2 DEF RetryQueued
  <2>2. ASSUME NEW n, OnScreen(n) PROVE OnScreen(n)' \/ RetryQueued(n)'
    <3>1. CASE r.kind = "Capture" /\ UNCHANGED <<mem, pending, durability>>
      BY <1>1, <2>2, <3>1 DEF OnScreen, IsFailed
    <3>2. CASE r.kind = "Retry" /\ r.seq = durability.failed
      BY <1>2, <2>2, <3>2 DEF OnScreen, RetryQueued
    <3> QED
      BY <2>2, <3>1, <3>2 DEF OnScreen, Enqueues
  <2>3. ASSUME NEW n, Recoverable(n) PROVE Recoverable(n)'
    BY <1>1, <1>3, <2>1, <2>2, <2>3, AnswersKept DEF Recoverable
  <2> QED
    BY <1>1, <2>3 DEF Recovery, AllRecoverable
<1> QED
  BY <1>3, <1>5, <1>6, <1>8, AnswersKept DEF Recovery

LEMMA QuietRecovery ==
    ASSUME TypeOK, TypeOK', HeldMatches, Recovery, QuietStep, Running', refused' = {}
    PROVE  Recovery'
<1>1. LaneKept /\ (Rests \/ Asks \/ \E op : Enqueues(op))
  BY QuietEffect DEF Refuses
<1>2. CASE Asks
  <2> DEFINE r == Request("Retry", durability.failed, NoOp)
  <2>1. requests' = Append(requests, r) /\ durability.failed \in Nat \ {0}
    BY <1>2, PendingType DEF Asks
  <2>2. r \in Requests /\ r.kind = "Retry" /\ r.seq = durability.failed
    BY <2>1, RetryType DEF Request
  <2> HIDE DEF r
  <2> QED
    BY <1>1, <1>2, <2>1, <2>2, PostRecovery
<1>3. CASE \E op : Enqueues(op)
  <2>1. PICK op : Enqueues(op)
    BY <1>3
  <2> DEFINE r == Request("Commit", Len(mem) + 1, op)
  <2>2. requests' = Append(requests, r) /\ op \in Ops /\ Len(mem) + 1 \in Nat \ {0}
    BY <2>1, MemberOfCommits DEF Enqueues
  <2>3. r \in Requests /\ r.kind = "Commit" /\ r.seq = Len(mem) + 1
    BY <2>2, RequestType DEF Request
  <2> HIDE DEF r
  <2> QED
    BY <1>1, <1>3, <2>2, <2>3, PostRecovery
<1> QED
  BY <1>1, <1>2, <1>3, RestRecovery

LEMMA ReserveRecovery ==
    ASSUME TypeOK, TypeOK', HeldMatches, Recovery, NEW op \in CaptureOps,
           AdvanceCapture(op) \/ RetryCapture(op), Running'
    PROVE  Recovery'
<1>1. /\ Reserve(op) /\ Running
      /\ UNCHANGED <<retained, out, results, log, durable, retrying, todo>>
      /\ UNCHANGED <<mem, pending, durability>>
  BY DEF AdvanceCapture, RetryCapture, Reserve, appVars, laneVars, storeVars, TakesInput,
         Turn
<1> DEFINE r == Request("Capture", Len(mem) + 1, op)
<1>2. requests' = Append(requests, r)
  BY <1>1 DEF Reserve, Post, NextSequence, Running
<1>3. r \in Requests /\ r.kind = "Capture"
  <2>1. Len(mem) + 1 \in Nat \ {0} /\ op \in Ops
    BY MemberOfCommits, OpsParts
  <2> QED
    BY <2>1, RequestType DEF Request
<1> HIDE DEF r
<1> QED
  BY <1>1, <1>2, <1>3, PostRecovery DEF LaneKept

-----------------------------------------------------------------------------
(* The owner drains an answer.                                              *)

DrainsOne ==
    /\ results # <<>> /\ results' = Tail(results) /\ Len(mem) <= Len(mem')
    /\ UNCHANGED <<requests, retained, out, log, retrying, todo>>

LEMMA DrainKeeps ==
    ASSUME TypeOK, TypeOK', Recovery, DrainsOne
    PROVE  /\ QueueInOrder' /\ RetryWhole' /\ RetriesEnd'
           /\ \A i \in 1 .. Len(requests') :
                requests'[i].kind = "Retry" => requests'[i].seq <= Len(mem')
           /\ FailuresNamed(out)' /\ FailuresNamed(results)'
           /\ \A n : /\ RetryQueued(n) => RetryQueued(n)'
                     /\ AnnouncedOut(n) => AnnouncedOut(n)'
                     /\ AnnouncedResults(n)
                        => \/ AnnouncedResults(n)'
                           \/ Announces(Answer, n) /\ NoReports(results, 2) /\ NoReports(out, 1)
<1>1. /\ UNCHANGED <<requests, retained, out, log, retrying, todo>>
      /\ Len(mem) \in Nat /\ Len(mem') \in Nat /\ Len(mem) <= Len(mem')
  BY MemberOfCommits DEF DrainsOne, TypeOK, AppTypeOK
<1>2. /\ Answer = results[1] /\ Len(results) \in Nat
      /\ Len(results') = Len(results) - 1
      /\ \A i \in 1 .. Len(results') : i + 1 \in 1 .. Len(results)
                                         /\ results'[i] = results[i + 1]
      /\ \A i \in 1 .. Len(results) : i # 1 => i - 1 \in 1 .. Len(results')
                                                 /\ results'[i - 1] = results[i]
  <2>1. results \in Seq(Results) /\ results # <<>> /\ results' = Tail(results)
    BY MemberOfCommits DEF DrainsOne
  <2>2. Answer = results[1] /\ Len(results) \in Nat /\ Len(results') = Len(results) - 1
    BY <2>1, AnswerType
  <2>3. \A i \in 1 .. Len(results') : i + 1 \in 1 .. Len(results)
                                         /\ results'[i] = results[i + 1]
    BY <2>1, <2>2
  <2>4. \A i \in 1 .. Len(results) : i # 1 => i - 1 \in 1 .. Len(results')
    BY <2>2
  <2>5. \A i \in 1 .. Len(results) : i # 1 => results'[i - 1] = results[i]
    <3>1. \A i \in 1 .. Len(results) : (i - 1) + 1 = i
      BY <2>2
    <3> QED
      BY <2>3, <2>4, <3>1
  <2> QED
    BY <2>2, <2>3, <2>4, <2>5
<1>3. QueueInOrder' /\ RetryWhole'
  BY <1>1 DEF Recovery, QueueInOrder, RetryWhole
<1>4. RetriesEnd'
  <2>1. \A i \in 1 .. Len(out') : Retried(out'[i]) => retrying' \/ EndsRetry(out, i + 1)'
    BY <1>1 DEF Recovery, RetriesEnd, Retried, EndsRetry
  <2>2. ASSUME NEW i \in 1 .. Len(results'), Retried(results'[i])
        PROVE  retrying' \/ EndsRetry(results, i + 1)' \/ EndsRetry(out, 1)'
    <3>1. i + 1 \in 1 .. Len(results) /\ Retried(results[i + 1])
      BY <1>2, <2>2
    <3>2. CASE EndsRetry(results, (i + 1) + 1)
      <4>1. PICK j \in ((i + 1) + 1) .. Len(results) : results[j].kind = "RetryFinished"
        BY <3>2 DEF EndsRetry
      <4>2. j \in 1 .. Len(results) /\ j # 1 /\ j - 1 \in (i + 1) .. Len(results')
        BY <1>2, <4>1
      <4>3. results'[j - 1].kind = "RetryFinished"
        BY <1>2, <4>1, <4>2
      <4> QED
        BY <4>2, <4>3 DEF EndsRetry
    <3> QED
      BY <1>1, <3>1, <3>2 DEF Recovery, RetriesEnd, EndsRetry
  <2> QED
    BY <2>1, <2>2 DEF RetriesEnd
<1>5. /\ \A i \in 1 .. Len(requests') :
           requests'[i].kind = "Retry" => requests'[i].seq <= Len(mem')
      /\ FailuresNamed(out)' /\ FailuresNamed(results)'
  <2>1. \A i \in 1 .. Len(requests) : requests[i].kind = "Retry" => requests[i].seq <= Len(mem')
    BY <1>1, Members DEF Recovery, FailuresKnown
  <2>2. /\ \A i \in 1 .. Len(out) : Failure(out[i]) => out[i].seq <= Len(mem')
        /\ \A i \in 1 .. Len(results) : Failure(results[i]) => results[i].seq <= Len(mem')
    BY <1>1, Members DEF Recovery, FailuresKnown, FailuresNamed
  <2> QED
    BY <1>1, <1>2, <2>1, <2>2 DEF FailuresNamed, Failure
<1>7. ASSUME NEW n, AnnouncedResults(n)
      PROVE  \/ AnnouncedResults(n)'
             \/ Announces(Answer, n) /\ NoReports(results, 2) /\ NoReports(out, 1)
  <2>1. PICK i \in 1 .. Len(results) :
          Announces(results[i], n) /\ NoReports(results, i + 1) /\ NoReports(out, 1)
    BY <1>7 DEF AnnouncedResults
  <2>2. CASE i = 1
    BY <1>2, <2>1, <2>2
  <2>3. CASE i # 1
    <3>1. i - 1 \in 1 .. Len(results') /\ results'[i - 1] = results[i]
      BY <1>2, <2>3
    <3>2. /\ NoReports(out, 1)' /\ Failure(results'[i - 1])
          /\ Len(log') < results'[i - 1].seq /\ results'[i - 1].seq <= n
      BY <1>1, <2>1, <3>1 DEF NoReports, Announces, Reports
    <3>3. ASSUME NEW j \in ((i - 1) + 1) .. Len(results') PROVE ~Reports(results'[j])
      <4>1. j + 1 \in (i + 1) .. Len(results) /\ j \in 1 .. Len(results')
        BY <1>2, <3>1
      <4> QED
        BY <1>2, <2>1, <4>1 DEF NoReports
    <3>4. \A j \in ((i - 1) + 1) .. Len(results') : ~Reports(results'[j])
      BY <3>3
    <3> QED
      BY <3>1, <3>2, <3>4 DEF AnnouncedResults, NoReports, Announces, Failure, Reports
  <2> QED
    BY <2>2, <2>3
<1>8. \A n : /\ RetryQueued(n) => RetryQueued(n)'
             /\ AnnouncedOut(n) => AnnouncedOut(n)'
  BY <1>1 DEF RetryQueued, AnnouncedOut, Announces, Failure, NoReports, Reports
<1> QED
  BY <1>3, <1>4, <1>5, <1>7, <1>8

\* A failure that nothing on its way contradicts finds everything the store
\* has acknowledged.
LEMMA AcknowledgedAll ==
    ASSUME AckInv, ReportsInOrder, NoReports(results, 1), NoReports(out, 1)
    PROVE  durable = Len(log)
<1>1. Len(log) \in Nat /\ durable \in Nat /\ durable <= Len(log)
  BY MemberOfCommits DEF AckInv, AcknowledgedIsStored
<1>2. \A n : ~ReportedIn(results, n) /\ ~ReportedIn(out, n)
  BY DEF ReportedIn, NoReports
<1>3. durable + 1 \notin (durable + 1) .. Len(log)
  BY <1>2 DEF ReportsInOrder
<1> QED
  BY <1>1, <1>3

LEMMA FailedParts ==
    ASSUME NEW seq, NEW code
    PROVE  Failed(seq, code).state = "Failed" /\ Failed(seq, code).failed = seq
BY DEF Failed

LEMMA DrainSequencedRecovery ==
    ASSUME StatusInv, OrderInv, TypeOK', Recovery, DrainSequenced
    PROVE  Recovery'
<1>1. AckInv /\ TypeOK /\ Gapless
  BY DEF StatusInv, PrefixInv, AckInv
<1>2. /\ Running /\ results # <<>> /\ results' = Tail(results)
      /\ Answer.kind = "Sequenced"
      /\ UNCHANGED <<requests, retained, out, log, retrying, todo>>
      /\ \/ Answer.ok /\ AcknowledgeCommitted(Answer.seq)
         \/ ~Answer.ok /\ AcknowledgeFailed(Answer.seq, Answer.code)
  BY DEF DrainSequenced, Turn, laneVars, storeVars
<1>3. ReportsInOrder
  BY <1>2 DEF OrderInv
<1>4. /\ Answer = results[1] /\ 1 \in 1 .. Len(results) /\ Answer \in Results
      /\ Len(mem) \in Nat /\ durable \in Nat /\ Len(log) \in Nat /\ Answer.seq \in Nat
      /\ Answer.ok => Answer.code = "none"
      /\ durable <= Len(log)
  BY <1>1, <1>2, AnswerType, ResultParts, MemberOfCommits DEF AckInv, AcknowledgedIsStored
<1>5. Durable.state = "Durable" /\ Pending.state = "Pending"
  BY DEF Durable, Pending
<1>6. mem' = mem
  BY <1>2 DEF AcknowledgeCommitted, AcknowledgeFailed, appVars
<1>7. DrainsOne
  BY <1>2, <1>4, <1>6 DEF DrainsOne
<1>8. CASE Answer.ok
  <2>1. Reports(Answer) /\ ~Failure(Answer)
    BY <1>2, <1>4, <1>8 DEF Reports, Failure
  <2>2. Answer.seq = durable + 1 /\ Answer.seq <= Len(mem) /\ Answer.seq <= Len(log)
    BY <1>1, <1>2, <1>3, <1>4, <2>1, HeadIsNext
       DEF ReportsInOrder, ReportsBounded, AckInv, HonestAnswers
  <2>3. Answer.seq \in pending /\ \A s \in pending : Answer.seq <= s
    BY <1>1, <1>4, <2>2 DEF Gapless
  <2>4. /\ pending' = pending \ {Answer.seq}
        /\ durability' = RefreshDurability(pending \ {Answer.seq})
    BY <1>2, <1>4, <1>8, <2>2, <2>3 DEF AcknowledgeCommitted
  <2>5. IsFailed' => durability'.failed \in pending'
    BY <1>5, <2>4 DEF RefreshDurability, IsFailed
  <2>6. FailuresKnown'
    BY <1>1, <1>7, <2>5, DrainKeeps DEF FailuresKnown
  <2>8. AllRecoverable'
    <3>1. ASSUME NEW n, Recoverable(n) PROVE Recoverable(n)'
      <4>1. ~OnScreen(n) /\ ~Announces(Answer, n)
        BY <1>4, <2>1, <2>2 DEF OnScreen, Announces
      <4> QED
        BY <1>1, <1>2, <1>7, <3>1, <4>1, DrainKeeps DEF Recoverable
    <3> QED
      BY <1>2, <3>1 DEF Recovery, AllRecoverable
  <2> QED
    BY <1>1, <1>7, <2>6, <2>8, DrainKeeps DEF Recovery
<1>9. CASE ~Answer.ok
  <2>1. /\ UNCHANGED <<durable, pending>>
        /\ Answer.seq \in pending => durability' = FailureOf(Answer.seq, Answer.code)
        /\ Answer.seq \notin pending => durability' = durability
    BY <1>2, <1>9 DEF AcknowledgeFailed, appVars
  <2>2. ~Reports(Answer) /\ Failure(Answer)
    BY <1>2, <1>9 DEF Reports, Failure
  <2>3. IsFailed => durability.failed \in pending /\ durability.failed \in Nat
    BY <1>1, PendingType DEF Recovery, FailuresKnown
  <2>4. ASSUME Answer.seq \in pending
        PROVE  /\ IsFailed' /\ durability'.failed \in pending
               /\ durability'.failed <= Answer.seq
               /\ IsFailed => durability'.failed <= durability.failed
    <3>1. durability' = Failed(IF IsFailed /\ durability.failed < Answer.seq
                                THEN durability.failed ELSE Answer.seq, Answer.code)
      BY <2>1, <2>4 DEF FailureOf
    <3>2. /\ durability'.state = "Failed"
          /\ durability'.failed = IF IsFailed /\ durability.failed < Answer.seq
                                  THEN durability.failed ELSE Answer.seq
      BY <3>1, FailedParts
    <3> QED
      BY <1>4, <2>3, <2>4, <3>2 DEF IsFailed
  <2>5. FailuresKnown'
    <3>1. IsFailed' => durability'.failed \in pending'
      BY <2>1, <2>3, <2>4 DEF IsFailed
    <3> QED
      BY <1>1, <1>7, <3>1, DrainKeeps DEF FailuresKnown
  <2>7. ASSUME NEW n \in Nat, OnScreen(n) PROVE OnScreen(n)'
    <3>1. CASE Answer.seq \in pending
      <4>1. durability'.failed <= durability.failed /\ durability.failed <= n /\ IsFailed'
        BY <2>4, <2>7, <3>1 DEF OnScreen
      <4>2. durability'.failed \in Nat /\ durability.failed \in Nat
        BY <1>1, <2>3, <2>4, <2>7, <3>1, PendingType DEF OnScreen
      <4>3. durability'.failed <= n
        BY <4>1, <4>2
      <4> QED
        BY <1>2, <2>1, <2>7, <4>1, <4>3 DEF OnScreen
    <3>2. CASE Answer.seq \notin pending
      BY <1>2, <2>1, <2>7, <3>2 DEF OnScreen, IsFailed
    <3> QED
      BY <3>1, <3>2
  <2>8. ASSUME NEW n \in Nat, Announces(Answer, n), NoReports(results, 2), NoReports(out, 1)
        PROVE  OnScreen(n)'
    <3>1. NoReports(results, 1)
      <4>1. \A j \in 1 .. Len(results) : j = 1 \/ j \in 2 .. Len(results)
        BY <1>1, Members
      <4> QED
        BY <1>4, <2>2, <2>8, <4>1 DEF NoReports
    <3>2. durable = Len(log)
      BY <1>1, <1>3, <2>8, <3>1, AcknowledgedAll
    <3>3. Answer.seq <= Len(mem) /\ Len(log) < Answer.seq /\ Answer.seq <= n
      BY <1>4, <2>2, <2>8 DEF Recovery, FailuresKnown, FailuresNamed, Announces
    <3>4. Answer.seq \in pending
      BY <1>1, <1>4, <3>2, <3>3 DEF Gapless
    <3>5. IsFailed' /\ durability'.failed <= Answer.seq /\ durability'.failed \in Nat
      BY <1>1, <2>4, <3>4, PendingType
    <3>6. durability'.failed <= n
      BY <1>4, <3>3, <3>5
    <3> QED
      BY <1>2, <2>1, <3>2, <3>5, <3>6 DEF OnScreen
  <2>9. AllRecoverable'
    <3>1. ASSUME NEW n \in Nat, Recoverable(n) PROVE Recoverable(n)'
      BY <1>1, <1>2, <1>7, <2>7, <2>8, <3>1, DrainKeeps DEF Recoverable
    <3>2. \A r \in retained : r.seq \in Nat
      BY <1>1, Members
    <3> QED
      BY <1>2, <3>1, <3>2 DEF Recovery, AllRecoverable
  <2> QED
    BY <1>1, <1>7, <2>5, <2>9, DrainKeeps DEF Recovery
<1> QED
  BY <1>8, <1>9

\* The end of a retry says nothing more.
LEMMA DrainRetryFinishedRecovery ==
    ASSUME StatusInv, OrderInv, TypeOK', Recovery, DrainRetryFinished
    PROVE  Recovery'
<1>1. AckInv /\ TypeOK /\ Gapless
  BY DEF StatusInv, PrefixInv, AckInv
<1>2. /\ results # <<>> /\ results' = Tail(results)
      /\ Answer.kind = "RetryFinished"
      /\ UNCHANGED <<requests, retained, out, log, retrying, todo>>
      /\ UNCHANGED <<mem, durable, pending, durability>>
  BY DEF DrainRetryFinished, laneVars, storeVars, appVars
<1>3. DrainsOne
  BY <1>1, <1>2, MemberOfCommits DEF DrainsOne
<1>4. \A n : ~Announces(Answer, n)
  BY <1>2 DEF Announces, Failure
<1>6. FailuresKnown'
  <2>1. IsFailed' => durability'.failed \in pending'
    BY <1>2 DEF Recovery, FailuresKnown, IsFailed
  <2> QED
    BY <1>1, <1>3, <2>1, DrainKeeps DEF FailuresKnown
<1>8. \A n : OnScreen(n) => OnScreen(n)'
  BY <1>2 DEF OnScreen, IsFailed
<1>9. AllRecoverable'
  <2>1. ASSUME NEW n, Recoverable(n) PROVE Recoverable(n)'
    BY <1>1, <1>2, <1>3, <1>4, <1>8, <2>1, DrainKeeps DEF Recoverable
  <2> QED
    BY <1>2, <2>1 DEF Recovery, AllRecoverable
<1> QED
  BY <1>1, <1>3, <1>6, <1>9, DrainKeeps DEF Recovery

\* A capture that was stored and not overtaken still owns the next sequence.
LEMMA ShownWhereReserved ==
    ASSUME StatusInv, OrderInv, Overtaken = {}, DrainCapture, Reports(Answer)
    PROVE  save.seq = Len(mem) + 1
<1>1. AckInv /\ TypeOK /\ CaptureInv /\ CaptureBarrier
  BY DEF StatusInv, PrefixInv, AckInv
<1>2. /\ Running /\ results # <<>> /\ Answer.kind = "Capture"
  BY DEF DrainCapture, Turn
<1>3. /\ Answer = results[1] /\ 1 \in 1 .. Len(results) /\ Len(mem) \in Nat
      /\ durable \in Nat /\ Len(log) \in Nat
  BY <1>1, <1>2, AnswerType, MemberOfCommits
<1>4. save.state = "InFlight" /\ Answer.seq = save.seq
  BY <1>1, <1>2, <1>3 DEF CaptureInv, OneCapture, CaptureAnswerNamed, Has
<1>5. SUFFICES ASSUME save.seq # Len(mem) + 1 PROVE FALSE
  OBVIOUS
<1>6. Answer.seq = durable + 1 /\ Answer.seq <= Len(log)
  BY <1>1, <1>2, <1>3, HeadIsNext DEF OrderInv, AckInv, HonestAnswers
<1>7. save.seq <= Len(mem) + 1
  BY <1>1, <1>4 DEF CaptureBarrier
<1>8. save.seq \in 1 .. Len(log) /\ save.seq <= Len(mem)
  BY <1>3, <1>4, <1>5, <1>6, <1>7
<1>9. log[save.seq] = mem[save.seq]
  BY <1>1, <1>8, NotOvertaken
<1>10. log[save.seq] = save.op /\ save.op \in CaptureOps
  BY <1>1, <1>2, <1>3, <1>4 DEF CaptureBarrier, TrueAnswers, TrueAnswer, TypeOK, UiTypeOK,
                                NoSave
<1>11. mem[save.seq] \in IntentOps \cup ControlOps
  BY <1>1, <1>3, <1>4, <1>8 DEF CaptureBarrier
<1> QED
  BY <1>9, <1>10, <1>11, CapturesApart

\* A capture is shown when the lane retains nothing, and fails without a trace.
LEMMA DrainCaptureRecovery ==
    ASSUME StatusInv, OrderInv, TypeOK', Recovery, Overtaken = {}, DrainCapture
    PROVE  Recovery'
<1>1. AckInv /\ TypeOK /\ HeldMatches /\ HeldOnce /\ Gapless /\ CaptureInv /\ CaptureBarrier
  BY DEF StatusInv, OrderInv, PrefixInv, AckInv
<1>2. /\ Running /\ results # <<>> /\ results' = Tail(results) /\ Answer.kind = "Capture"
      /\ UNCHANGED <<requests, retained, out, log, retrying, todo>>
  BY DEF DrainCapture, Turn, laneVars, storeVars
<1>3. /\ Answer = results[1] /\ 1 \in 1 .. Len(results) /\ Answer \in Results
      /\ Len(mem) \in Nat /\ Len(log) \in Nat /\ durable \in Nat /\ mem \in Seq(Ops)
      /\ Answer.code \in {"none", "AlreadyCaptured"}
  BY <1>1, <1>2, AnswerType, ResultParts, MemberOfCommits
<1>4. save.state = "InFlight" /\ Answer.seq = save.seq
  BY <1>1, <1>2, <1>3 DEF CaptureInv, OneCapture, CaptureAnswerNamed, Has
<1>5. save.seq = Len(mem) + 1 => deferred = {}
  BY <1>1, <1>4 DEF CaptureBarrier
<1>6. ReportsInOrder
  BY <1>2 DEF OrderInv
<1>7. \A n : ~Announces(Answer, n)
  BY <1>2 DEF Announces, Failure
<1>8. CASE Reports(Answer) /\ save.seq = Len(mem) + 1
  <2>1. durable = Len(mem) /\ pending = {}
    <3>1. durable + 1 = Len(mem) + 1
      BY <1>1, <1>2, <1>4, <1>5, <1>6, <1>8, HeadIsNext
    <3>2. durable = Len(mem)
      BY <1>3, <3>1
    <3> QED
      BY <1>1, <1>3, <3>2 DEF Gapless
  <2>2. /\ mem' = Append(mem, save.op) /\ pending' = pending
        /\ durability' = RefreshDurability(pending)
    BY <1>2, <1>5, <1>8 DEF DrainCapture, NextSequence, Reports
  <2>3. DrainsOne
    BY <1>2, <1>3, <2>2 DEF DrainsOne
  <2>4. ~IsFailed'
    <3>1. Durable.state = "Durable" /\ Pending.state = "Pending"
      BY DEF Durable, Pending
    <3> QED
      BY <2>1, <2>2, <3>1 DEF RefreshDurability, IsFailed
  <2>5. retained' = {}
    <3>1. Len(mem) + 1 <= Len(log)
      BY <1>1, <1>3, <1>4, <1>5, <1>8 DEF AckInv, HonestAnswers
    <3>2. ASSUME NEW r \in retained PROVE FALSE
      <4>1. r.seq \in 1 .. Len(mem) /\ Len(log) < r.seq
        BY <1>1 DEF HeldMatches, HeldOnce
      <4> QED
        BY <1>3, <3>1, <4>1
    <3> QED
      BY <1>2, <3>2
  <2>6. FailuresKnown'
    BY <1>1, <2>3, <2>4, DrainKeeps DEF FailuresKnown
  <2>7. AllRecoverable'
    BY <2>5 DEF AllRecoverable
  <2> QED
    BY <1>1, <2>3, <2>6, <2>7, DrainKeeps DEF Recovery
<1>9. CASE ~(Reports(Answer) /\ save.seq = Len(mem) + 1)
  <2>0. ~Reports(Answer)
    BY <1>9, ShownWhereReserved
  <2>1. UNCHANGED <<mem, durable, pending, durability>>
    BY <1>2, <1>3, <2>0 DEF DrainCapture, appVars, Reports
  <2>2. DrainsOne
    BY <1>2, <1>3, <2>1 DEF DrainsOne
  <2>4. FailuresKnown'
    <3>1. IsFailed' => durability'.failed \in pending'
      BY <2>1 DEF Recovery, FailuresKnown, IsFailed
    <3> QED
      BY <1>1, <2>2, <3>1, DrainKeeps DEF FailuresKnown
  <2>6. \A n : OnScreen(n) => OnScreen(n)'
    BY <1>2, <2>1 DEF OnScreen, IsFailed
  <2>7. AllRecoverable'
    <3>1. ASSUME NEW n, Recoverable(n) PROVE Recoverable(n)'
      BY <1>1, <1>2, <1>7, <2>2, <2>6, <3>1, DrainKeeps DEF Recoverable
    <3> QED
      BY <1>2, <3>1 DEF Recovery, AllRecoverable
  <2> QED
    BY <1>1, <2>2, <2>4, <2>7, DrainKeeps DEF Recovery
<1> QED
  BY <1>8, <1>9

-----------------------------------------------------------------------------
(* The lane works.                                                          *)

\* The answer in the lane's hand after a commit.
LEMMA CommitHand ==
    ASSUME TypeOK, NEW c \in Commits, NEW retried \in BOOLEAN,
           NEW more \in {<<>>, <<RetryFinished>>}
    PROVE  /\ Succeeds(c, retried, more)
              => /\ out'[1].kind = "Sequenced" /\ out'[1].ok /\ out'[1].seq = c.seq
                 /\ out'[1].retried <=> retried
           /\ Fails(c, retried, more)
              => /\ Failure(out'[1]) /\ out'[1].seq = c.seq
                 /\ out'[1].retried <=> retried
           /\ Succeeds(c, retried, more) \/ Fails(c, retried, more)
              => /\ Len(out') = 1 + Len(more)
                 /\ \A i \in 1 .. Len(out') : i = 1 \/ out'[i] = RetryFinished
                 /\ more = <<RetryFinished>> => Len(out') = 2 /\ out'[2] = RetryFinished
                 /\ more = <<>> => Len(out') = 1
<1>1. ASSUME NEW a, out' = <<a>> \o more
      PROVE  /\ Len(out') = 1 + Len(more) /\ out'[1] = a
             /\ \A i \in 1 .. Len(out') : i = 1 \/ out'[i] = RetryFinished
             /\ more = <<RetryFinished>> => Len(out') = 2 /\ out'[2] = RetryFinished
             /\ more = <<>> => Len(out') = 1
  <2>1. CASE more = <<>>
    BY <1>1, <2>1
  <2>2. CASE more = <<RetryFinished>>
    BY <1>1, <2>2
  <2> QED
    BY <2>1, <2>2
<1>2. ASSUME Succeeds(c, retried, more)
      PROVE  \E a : /\ out' = <<a>> \o more /\ a.kind = "Sequenced" /\ a.ok /\ a.seq = c.seq
                    /\ a.retried <=> retried
  <2> DEFINE a == Sequenced(c.seq, TRUE, "none", retried)
  <2>1. out' = <<a>> \o more
    BY <1>2 DEF Succeeds
  <2>2. a.kind = "Sequenced" /\ a.ok /\ a.seq = c.seq /\ (a.retried <=> retried)
    BY DEF Sequenced
  <2> HIDE DEF a
  <2> QED
    BY <2>1, <2>2
<1>3. ASSUME Fails(c, retried, more)
      PROVE  \E a : /\ out' = <<a>> \o more /\ Failure(a) /\ a.seq = c.seq
                    /\ a.retried <=> retried
  <2>1. PICK code : out' = <<Sequenced(c.seq, FALSE, code, retried)>> \o more
    BY <1>3 DEF Fails
  <2> DEFINE a == Sequenced(c.seq, FALSE, code, retried)
  <2>2. Failure(a) /\ a.seq = c.seq /\ (a.retried <=> retried)
    BY DEF Sequenced, Failure
  <2>3. out' = <<a>> \o more
    BY <2>1
  <2> HIDE DEF a
  <2> QED
    BY <2>2, <2>3
<1>4. ASSUME Succeeds(c, retried, more)
      PROVE  /\ out'[1].kind = "Sequenced" /\ out'[1].ok /\ out'[1].seq = c.seq
             /\ out'[1].retried <=> retried
             /\ Len(out') = 1 + Len(more)
             /\ \A i \in 1 .. Len(out') : i = 1 \/ out'[i] = RetryFinished
             /\ more = <<RetryFinished>> => Len(out') = 2 /\ out'[2] = RetryFinished
             /\ more = <<>> => Len(out') = 1
  BY <1>1, <1>2, <1>4
<1>5. ASSUME Fails(c, retried, more)
      PROVE  /\ Failure(out'[1]) /\ out'[1].seq = c.seq
             /\ out'[1].retried <=> retried
             /\ Len(out') = 1 + Len(more)
             /\ \A i \in 1 .. Len(out') : i = 1 \/ out'[i] = RetryFinished
             /\ more = <<RetryFinished>> => Len(out') = 2 /\ out'[2] = RetryFinished
             /\ more = <<>> => Len(out') = 1
  BY <1>1, <1>3, <1>5
<1> QED
  BY <1>4, <1>5

\* The lane takes the oldest request.
LEMMA TakeRequest ==
    ASSUME TypeOK, Recovery, requests # <<>>, requests' = Tail(requests), mem' = mem
    PROVE  /\ 1 \in 1 .. Len(requests)
           /\ \A i \in 1 .. Len(requests') :
                i + 1 \in 1 .. Len(requests) /\ requests'[i] = requests[i + 1]
           /\ \A i, j \in 1 .. Len(requests') :
                i < j /\ requests'[i].kind = "Commit" /\ requests'[j].kind = "Commit"
                => requests'[i].seq < requests'[j].seq
           /\ requests[1].kind = "Commit"
              => \A i \in 1 .. Len(requests') :
                   requests'[i].kind = "Commit" => requests[1].seq < requests'[i].seq
           /\ \A r \in retained, i \in 1 .. Len(requests') :
                requests'[i].kind = "Commit" => r.seq < requests'[i].seq
           /\ \A i \in 1 .. Len(requests') :
                requests'[i].kind = "Retry" => requests'[i].seq <= Len(mem')
           /\ \A n : RetryQueued(n) => \/ RetryQueued(n)'
                                       \/ requests[1].kind = "Retry" /\ requests[1].seq <= n
<1>1. requests \in Seq(Requests)
  BY MemberOfCommits
<1>2. /\ Len(requests) \in Nat /\ Len(requests') = Len(requests) - 1
      /\ 1 \in 1 .. Len(requests)
      /\ \A i \in 1 .. Len(requests') :
           i + 1 \in 1 .. Len(requests) /\ requests'[i] = requests[i + 1]
  BY <1>1
<1>3. \A i \in 1 .. Len(requests) :
        i # 1 => i - 1 \in 1 .. Len(requests') /\ requests'[i - 1] = requests[i]
  <2>1. \A i \in 1 .. Len(requests) : i # 1 => i - 1 \in 1 .. Len(requests') /\ (i - 1) + 1 = i
    BY <1>2
  <2> QED
    BY <1>2, <2>1
<1>4. \A i, j \in 1 .. Len(requests') :
        i < j /\ requests'[i].kind = "Commit" /\ requests'[j].kind = "Commit"
        => requests'[i].seq < requests'[j].seq
  <2>1. \A i, j \in 1 .. Len(requests') : i < j => i + 1 < j + 1
    BY <1>2
  <2> QED
    BY <1>2, <2>1 DEF Recovery, QueueInOrder
<1>5. requests[1].kind = "Commit"
      => \A i \in 1 .. Len(requests') :
           requests'[i].kind = "Commit" => requests[1].seq < requests'[i].seq
  <2>1. \A i \in 1 .. Len(requests') : 1 < i + 1
    BY <1>2
  <2> QED
    BY <1>2, <2>1 DEF Recovery, QueueInOrder
<1>6. /\ \A r \in retained, i \in 1 .. Len(requests') :
           requests'[i].kind = "Commit" => r.seq < requests'[i].seq
      /\ \A i \in 1 .. Len(requests') :
           requests'[i].kind = "Retry" => requests'[i].seq <= Len(mem')
  BY <1>2 DEF Recovery, QueueInOrder, FailuresKnown
<1>7. \A n : RetryQueued(n) => \/ RetryQueued(n)'
                               \/ requests[1].kind = "Retry" /\ requests[1].seq <= n
  BY <1>3 DEF RetryQueued
<1> QED
  BY <1>2, <1>4, <1>5, <1>6, <1>7

LEMMA LaneCommitRecovery ==
    ASSUME StatusInv, OrderInv, TypeOK', Recovery, refused' = {}, LaneCommit
    PROVE  Recovery'
<1>0. PICK c : c = [seq |-> Head(requests).seq, op |-> Head(requests).op]
  OBVIOUS
<1>1. /\ Receive("Commit") /\ (Succeeds(c, FALSE, <<>>) \/ Fails(c, FALSE, <<>>))
      /\ UNCHANGED <<mem, durable, pending, durability, results, retrying, todo>>
  BY <1>0 DEF LaneCommit, ownerVars, appVars
<1>2. TypeOK /\ HeldMatches /\ HeldOnce
  BY DEF StatusInv, OrderInv, PrefixInv, AckInv
<1>3. /\ Head(requests) = requests[1] /\ 1 \in 1 .. Len(requests)
      /\ Head(requests).kind = "Commit" /\ requests # <<>> /\ requests' = Tail(requests)
      /\ out = <<>> /\ ~retrying /\ Head(requests).op \in Ops
      /\ Head(requests).seq \in Nat \ {0}
  BY <1>1, <1>2, ReceiveType DEF Receive, LaneIdle
<1>4. /\ c \in Commits /\ c.seq = requests[1].seq /\ Len(log) < c.seq
      /\ c.seq \in 1 .. Len(mem) /\ c.seq \in Nat
  BY <1>0, <1>2, <1>3 DEF Commits, HeldOnce, HeldMatches
<1>5. Fails(c, FALSE, <<>>) => log' = log /\ retained' = Forget(c.seq) \cup {c}
  BY DEF Fails, StoreRejects
<1>6. FALSE \in BOOLEAN /\ <<>> \in {<<>>, <<RetryFinished>>}
  OBVIOUS
<1>7. /\ Len(mem) \in Nat /\ Len(log) \in Nat /\ log \in Seq(Ops)
      /\ \A r \in retained : r.seq \in Nat
      /\ todo = {} /\ todo' = {}
  BY <1>1, <1>2, <1>3, MemberOfCommits, Members DEF Recovery, RetryWhole
<1>8. /\ Len(out') = 1 /\ 1 \in 1 .. Len(out') /\ \A i \in 1 .. Len(out') : i = 1
      /\ out'[1].kind = "Sequenced" /\ out'[1].seq = c.seq /\ ~out'[1].retried
  <2>1. /\ Len(out') = 1
        /\ out'[1].kind = "Sequenced" /\ out'[1].seq = c.seq /\ ~out'[1].retried
    BY <1>1, <1>2, <1>4, <1>6, CommitHand DEF Failure
  <2> QED
    BY <2>1
<1>9. retained' = Forget(c.seq) \/ retained' = Forget(c.seq) \cup {c}
  BY <1>1, <1>5 DEF Succeeds, Fails
<1>10. QueueInOrder'
  <2>1. \A r \in retained' : r \in retained \/ r = c
    BY <1>9 DEF Forget
  <2> QED
    BY <1>1, <1>2, <1>3, <1>4, <2>1, TakeRequest DEF QueueInOrder
<1>11. RetryWhole'
  BY <1>7 DEF RetryWhole
<1>12. FailuresKnown'
  <2>1. FailuresNamed(out)'
    BY <1>1, <1>4, <1>7, <1>8 DEF FailuresNamed
  <2>2. FailuresNamed(results)' /\ (IsFailed' => durability'.failed \in pending')
    BY <1>1 DEF Recovery, FailuresKnown, FailuresNamed, IsFailed
  <2> QED
    BY <1>1, <1>2, <1>3, <2>1, <2>2, TakeRequest DEF FailuresKnown
<1>13. RetriesEnd'
  <2>1. \A i \in 1 .. Len(out') : ~Retried(out'[i])
    BY <1>8 DEF Retried
  <2>2. \A i \in 1 .. Len(results) : Retried(results[i]) => EndsRetry(results, i + 1)
    BY <1>3 DEF Recovery, RetriesEnd, EndsRetry
  <2> QED
    BY <1>1, <2>1, <2>2 DEF RetriesEnd, EndsRetry
<1>14. CASE Succeeds(c, FALSE, <<>>)
  <2>1. /\ log' = Append(log, c.op) /\ c.seq = Len(log) + 1 /\ retained' = Forget(c.seq)
        /\ out'[1].ok
    <3>1. out'[1].ok /\ retained' = Forget(c.seq) /\ StoreAccepts(c)
      BY <1>2, <1>4, <1>6, <1>14, CommitHand DEF Succeeds
    <3>2. ~Replays(c)
      BY <1>4, <1>7 DEF Replays
    <3> QED
      BY <3>1, <3>2 DEF StoreAccepts
  <2>3. retained' = {}
    <3>1. ASSUME NEW r \in retained' PROVE FALSE
      <4>1. r \in retained /\ r.seq < c.seq /\ Len(log) < r.seq /\ r.seq \in Nat
        BY <1>2, <1>3, <1>4, <1>7, <2>1 DEF Forget, Recovery, QueueInOrder, HeldOnce
      <4> QED
        BY <1>7, <2>1, <4>1
    <3> QED
      BY <3>1
  <2> QED
    BY <1>10, <1>11, <1>12, <1>13, <2>3 DEF Recovery, AllRecoverable
<1>15. CASE Fails(c, FALSE, <<>>)
  <2>1. /\ log' = log /\ retained' = Forget(c.seq) \cup {c} /\ Failure(out'[1])
    BY <1>2, <1>4, <1>5, <1>6, <1>15, CommitHand
  <2>3. AnnouncedOut(c.seq)'
    BY <1>4, <1>8, <2>1 DEF AnnouncedOut, Announces, NoReports
  <2>4. ASSUME NEW n, Recoverable(n) PROVE Recoverable(n)'
    <3>1. RetryQueued(n) => RetryQueued(n)'
      BY <1>1, <1>2, <1>3, TakeRequest
    <3>2. ~AnnouncedOut(n)
      BY <1>3 DEF AnnouncedOut
    <3>3. NoReports(out, 1)'
      BY <1>8, <2>1 DEF NoReports, Reports, Failure
    <3>4. AnnouncedResults(n) => AnnouncedResults(n)'
      BY <1>1, <2>1, <3>3 DEF AnnouncedResults, Announces, Failure, NoReports, Reports
    <3>5. OnScreen(n) => OnScreen(n)'
      BY <1>1, <2>1 DEF OnScreen, IsFailed
    <3> QED
      BY <1>1, <2>4, <3>1, <3>2, <3>4, <3>5 DEF Recoverable
  <2>5. AllRecoverable'
    BY <2>1, <2>3, <2>4 DEF Recovery, AllRecoverable, Recoverable, Forget
  <2> QED
    BY <1>10, <1>11, <1>12, <1>13, <2>5 DEF Recovery
<1> QED
  BY <1>1, <1>14, <1>15

\* One batch of a retry: it fails again and the retry is over, or it is stored
\* and the retry goes on with the next.
LEMMA LaneRetryNextRecovery ==
    ASSUME StatusInv, OrderInv, TypeOK', Recovery, LaneRetryNext
    PROVE  Recovery'
<1>1. /\ retrying /\ out = <<>>
      /\ UNCHANGED <<mem, durable, pending, durability, results, requests>>
  BY DEF LaneRetryNext, ownerVars, appVars
<1>2. PICK c \in retained, more \in {<<>>, <<RetryFinished>>} :
        /\ c.seq \in todo /\ \A s \in todo : c.seq <= s
        /\ \/ /\ more = <<>> /\ Succeeds(c, TRUE, more) /\ retrying' = retrying
              /\ todo' = todo \ {c.seq}
           \/ /\ more = <<RetryFinished>> /\ Succeeds(c, TRUE, more)
              /\ todo' = {} /\ todo = {c.seq}
           \/ /\ more = <<RetryFinished>> /\ Fails(c, TRUE, more) /\ todo' = {}
  BY DEF LaneRetryNext
<1>3. TypeOK /\ HeldMatches /\ HeldOnce
  BY DEF StatusInv, OrderInv, PrefixInv, AckInv
<1>4. /\ c \in Commits /\ Len(log) < c.seq /\ c.seq \in 1 .. Len(mem) /\ c.seq \in Nat
      /\ Len(mem) \in Nat /\ Len(log) \in Nat /\ log \in Seq(Ops)
      /\ \A r \in retained : r.seq \in Nat /\ (r.seq = c.seq => r = c)
      /\ TRUE \in BOOLEAN
  <2>1. retained \subseteq Commits
    BY <1>3 DEF TypeOK, LaneTypeOK
  <2>2. \A x, y \in Commits : x.seq = y.seq /\ x.op = y.op => x = y
    BY DEF Commits
  <2>3. /\ Len(log) < c.seq /\ c.seq \in 1 .. Len(mem) /\ c.op = mem[c.seq]
        /\ \A r \in retained : r.op = mem[r.seq]
    BY <1>3 DEF HeldOnce, HeldMatches
  <2>4. \A r \in retained : r.seq = c.seq => r = c
    BY <2>1, <2>2, <2>3
  <2> QED
    BY <1>3, <2>1, <2>3, <2>4, Members, MemberOfCommits
<1>5. /\ Len(out') = 1 + Len(more) /\ 1 \in 1 .. Len(out') /\ Len(out') \in {1, 2}
      /\ \A i \in 1 .. Len(out') : i = 1 \/ out'[i] = RetryFinished
      /\ more = <<RetryFinished>> => 2 \in 1 .. Len(out') /\ out'[2] = RetryFinished
      /\ out'[1].kind = "Sequenced" /\ out'[1].seq = c.seq
  <2>1. /\ Len(out') = 1 + Len(more)
        /\ \A i \in 1 .. Len(out') : i = 1 \/ out'[i] = RetryFinished
        /\ more = <<RetryFinished>> => Len(out') = 2 /\ out'[2] = RetryFinished
        /\ more = <<>> => Len(out') = 1
        /\ out'[1].kind = "Sequenced" /\ out'[1].seq = c.seq
    BY <1>2, <1>3, <1>4, CommitHand DEF Failure
  <2> QED
    BY <1>2, <2>1
<1>6. /\ RetryFinished.kind = "RetryFinished" /\ ~Failure(RetryFinished)
      /\ ~Retried(RetryFinished) /\ ~Reports(RetryFinished)
  BY DEF RetryFinished, Failure, Retried, Reports
<1>7. retained' \subseteq retained
  BY <1>2 DEF Succeeds, Fails, Forget
<1>8. QueueInOrder'
  BY <1>1, <1>7 DEF Recovery, QueueInOrder
<1>9. FailuresKnown'
  <2>1. FailuresNamed(out)'
    BY <1>1, <1>4, <1>5, <1>6 DEF FailuresNamed
  <2>2. FailuresNamed(results)' /\ (IsFailed' => durability'.failed \in pending')
    BY <1>1 DEF Recovery, FailuresKnown, FailuresNamed, IsFailed
  <2> QED
    BY <1>1, <2>1, <2>2 DEF Recovery, FailuresKnown
<1>10. RetriesEnd'
  <2>1. CASE more = <<>>
    <3>1. retrying'
      BY <1>1, <1>2, <2>1
    <3> QED
      BY <3>1 DEF RetriesEnd
  <2>2. CASE more = <<RetryFinished>>
    <3>1. Len(out') = 2 /\ 2 \in 2 .. Len(out') /\ 2 \in 1 .. Len(out')
      BY <1>5, <2>2
    <3>2. EndsRetry(out', 2) /\ EndsRetry(out', 1)
      BY <1>5, <1>6, <2>2, <3>1 DEF EndsRetry
    <3>3. \A i \in 1 .. Len(out') : Retried(out'[i]) => i = 1
      BY <1>5, <1>6
    <3> QED
      BY <3>2, <3>3 DEF RetriesEnd
  <2> QED
    BY <2>1, <2>2
<1>11. ASSUME NEW n
       PROVE  (RetryQueued(n) => RetryQueued(n)') /\ ~AnnouncedOut(n)
  BY <1>1 DEF RetryQueued, AnnouncedOut
<1>12. CASE Succeeds(c, TRUE, more)
  <2>1. /\ Len(log') = Len(log) + 1 /\ c.seq = Len(log) + 1 /\ retained' = Forget(c.seq)
        /\ out'[1].ok
    <3>1. out'[1].ok /\ retained' = Forget(c.seq) /\ StoreAccepts(c) /\ c.op \in Ops
      BY <1>3, <1>4, <1>12, CommitHand, Members DEF Succeeds
    <3>2. ~Replays(c)
      BY <1>4 DEF Replays
    <3> QED
      BY <1>4, <3>1, <3>2 DEF StoreAccepts
  <2>3. \A r \in retained' : r \in retained /\ r.seq \in todo /\ r.seq # c.seq
    <3>1. ASSUME NEW r \in retained' PROVE r \in retained /\ r.seq \in todo /\ r.seq # c.seq
      <4>1. r \in retained /\ r.seq # c.seq
        BY <2>1 DEF Forget
      <4>2. Len(log) < r.seq /\ r.seq \in Nat
        BY <1>3, <1>4, <4>1 DEF HeldOnce
      <4>3. c.seq <= r.seq
        BY <1>4, <2>1, <4>1, <4>2
      <4> QED
        BY <1>2, <4>1, <4>3 DEF Recovery, RetryWhole
    <3> QED
      BY <3>1
  <2>4. \/ todo' = todo \ {c.seq} /\ retrying'
        \/ todo' = {} /\ todo = {c.seq}
        \/ Fails(c, TRUE, more)
    BY <1>1, <1>2
  <2>5. ~Fails(c, TRUE, more)
    BY <1>3, <1>4, <2>1, CommitHand DEF Failure
  <2>6. RetryWhole' /\ \A r \in retained' : r.seq \in todo'
    BY <2>3, <2>4, <2>5 DEF Recovery, RetryWhole
  <2> QED
    BY <1>8, <1>9, <1>10, <2>6 DEF Recovery, AllRecoverable, Recoverable
<1>13. CASE Fails(c, TRUE, more)
  <2>1. log' = log /\ retained' = retained /\ Failure(out'[1])
    <3>1. Failure(out'[1])
      BY <1>3, <1>4, <1>13, CommitHand
    <3>2. Forget(c.seq) \cup {c} = retained
      BY <1>4 DEF Forget
    <3> QED
      BY <1>13, <3>1, <3>2 DEF Fails, StoreRejects
  <2>3. todo' = {}
    <3>1. out'[1].ok => ~Failure(out'[1])
      BY DEF Failure
    <3>2. ~Succeeds(c, TRUE, more)
      BY <1>3, <1>4, <2>1, <3>1, CommitHand
    <3> QED
      BY <1>2, <3>2
  <2>4. NoReports(out', 1) /\ NoReports(out', 2)
    BY <1>5, <1>6, <2>1 DEF NoReports, Reports, Failure
  <2>5. ASSUME NEW n \in Nat, c.seq <= n PROVE AnnouncedOut(n)'
    BY <1>4, <1>5, <2>1, <2>4, <2>5 DEF AnnouncedOut, Announces
  <2>6. ASSUME NEW n \in Nat, Recoverable(n) PROVE Recoverable(n)'
    <3>1. n \in todo => AnnouncedOut(n)'
      BY <1>2, <1>4, <2>5
    <3>2. AnnouncedResults(n) => AnnouncedResults(n)'
      BY <1>1, <2>1, <2>4 DEF AnnouncedResults, Announces, Failure, NoReports, Reports
    <3>3. OnScreen(n) => OnScreen(n)'
      BY <1>1, <2>1 DEF OnScreen, IsFailed
    <3> QED
      BY <1>11, <2>6, <3>1, <3>2, <3>3 DEF Recoverable
  <2>7. AllRecoverable' /\ RetryWhole'
    BY <1>4, <2>1, <2>3, <2>6 DEF Recovery, AllRecoverable, RetryWhole
  <2> QED
    BY <1>8, <1>9, <1>10, <2>7 DEF Recovery
<1> QED
  BY <1>2, <1>12, <1>13

LEMMA LaneRetryRecovery ==
    ASSUME StatusInv, OrderInv, TypeOK', Recovery, LaneRetry
    PROVE  Recovery'
<1>0. PICK first : first = Head(requests).seq
  OBVIOUS
<1> DEFINE held == {r.seq : r \in {x \in retained : x.seq >= first}}
<1>1. /\ Receive("Retry")
      /\ UNCHANGED <<mem, durable, pending, durability, results, retained, log>>
      /\ \/ held # {} /\ retrying' = TRUE /\ todo' = held /\ out' = out
         \/ /\ held = {} /\ retrying' = retrying /\ todo' = todo
            /\ out' = <<Sequenced(first, FALSE, "StorageFailed", TRUE), RetryFinished>>
  BY <1>0 DEF LaneRetry, ownerVars, appVars, storeVars
<1>2. TypeOK /\ HeldMatches /\ HeldOnce
  BY DEF StatusInv, OrderInv, PrefixInv, AckInv
<1>3. /\ Head(requests) = requests[1] /\ 1 \in 1 .. Len(requests)
      /\ requests[1].kind = "Retry" /\ requests # <<>> /\ requests' = Tail(requests)
      /\ out = <<>> /\ ~retrying /\ requests[1].seq = first /\ first \in Nat
  BY <1>0, <1>1, <1>2, ReceiveType DEF Receive, LaneIdle
<1>4. /\ todo = {} /\ \A r \in retained : r.seq \in Nat
      /\ first <= Len(mem) /\ Len(mem) \in Nat /\ Len(log) \in Nat
  BY <1>2, <1>3, MemberOfCommits, Members DEF Recovery, RetryWhole, FailuresKnown
<1>5. /\ RetryFinished.kind = "RetryFinished" /\ ~Failure(RetryFinished)
      /\ ~Retried(RetryFinished) /\ ~Reports(RetryFinished)
  BY DEF RetryFinished, Failure, Retried, Reports
<1>6. QueueInOrder'
  BY <1>1, <1>2, <1>3, TakeRequest DEF QueueInOrder
<1>7. /\ FailuresNamed(results)' /\ (IsFailed' => durability'.failed \in pending')
      /\ \A i \in 1 .. Len(requests') :
           requests'[i].kind = "Retry" => requests'[i].seq <= Len(mem')
  <2>1. FailuresNamed(results)' /\ (IsFailed' => durability'.failed \in pending')
    BY <1>1 DEF Recovery, FailuresKnown, FailuresNamed, IsFailed
  <2> QED
    BY <1>1, <1>2, <1>3, <2>1, TakeRequest
<1>8. ASSUME NEW n
      PROVE  /\ RetryQueued(n) => RetryQueued(n)' \/ first <= n
             /\ ~AnnouncedOut(n) /\ (OnScreen(n) => OnScreen(n)')
  <2>2. RetryQueued(n) => RetryQueued(n)' \/ first <= n
    BY <1>1, <1>2, <1>3, TakeRequest
  <2> QED
    BY <1>1, <1>3, <2>2 DEF AnnouncedOut, OnScreen, IsFailed
<1>10. CASE held # {} /\ retrying' = TRUE /\ todo' = held /\ out' = out
  <2>1. RetryWhole'
    <3>1. \A r \in retained, t \in held : t <= r.seq => r.seq \in held
      BY <1>3, <1>4
    <3> QED
      BY <1>1, <1>10, <3>1 DEF RetryWhole
  <2>2. FailuresKnown' /\ RetriesEnd'
    BY <1>3, <1>7, <1>10 DEF FailuresKnown, FailuresNamed, RetriesEnd
  <2>3. ASSUME NEW r \in retained PROVE Recoverable(r.seq)'
    <3>1. r.seq \in Nat /\ (first <= r.seq => r.seq \in todo')
      BY <1>3, <1>4, <1>10
    <3>2. Recoverable(r.seq)
      BY DEF Recovery, AllRecoverable
    <3>3. AnnouncedResults(r.seq) => AnnouncedResults(r.seq)'
      BY <1>1, <1>10 DEF AnnouncedResults, Announces, Failure, NoReports, Reports
    <3>4. r.seq \notin todo
      BY <1>4
    <3>5. \/ RetryQueued(r.seq)' \/ r.seq \in todo' \/ AnnouncedResults(r.seq)'
          \/ OnScreen(r.seq)'
      BY <1>8, <3>1, <3>2, <3>3, <3>4 DEF Recoverable
    <3> QED
      BY <3>5 DEF Recoverable
  <2>4. AllRecoverable'
    BY <1>1, <2>3 DEF AllRecoverable
  <2> QED
    BY <1>6, <2>1, <2>2, <2>4 DEF Recovery
<1>11. CASE /\ held = {} /\ retrying' = retrying /\ todo' = todo
            /\ out' = <<Sequenced(first, FALSE, "StorageFailed", TRUE), RetryFinished>>
  <2>1. PICK a : a = Sequenced(first, FALSE, "StorageFailed", TRUE)
    OBVIOUS
  <2>2. Failure(a) /\ a.seq = first /\ ~Reports(a) /\ Retried(a)
    BY <2>1 DEF Sequenced, Failure, Reports, Retried
  <2>3. out' = <<a, RetryFinished>>
    BY <1>11, <2>1
  <2>4. /\ Len(out') = 2 /\ out'[1] = a /\ out'[2] = RetryFinished
        /\ \A i \in 1 .. Len(out') : i = 1 \/ i = 2
        /\ 2 \in 1 .. Len(out') /\ 2 \in 2 .. Len(out')
    BY <2>3
  <2>5. FailuresKnown'
    <3>1. FailuresNamed(out)'
      BY <1>1, <1>4, <1>5, <2>2, <2>4 DEF FailuresNamed
    <3> QED
      BY <1>7, <3>1 DEF FailuresKnown
  <2>6. RetriesEnd'
    <3>1. EndsRetry(out', 2) /\ EndsRetry(out', 1)
      BY <1>5, <2>4 DEF EndsRetry
    <3>2. \A i \in 1 .. Len(out') : Retried(out'[i]) => i = 1
      BY <1>5, <2>4
    <3> QED
      BY <3>1, <3>2 DEF RetriesEnd
  <2>7. RetryWhole'
    BY <1>4, <1>11 DEF RetryWhole
  <2>8. NoReports(out', 1)
    BY <1>5, <2>2, <2>4 DEF NoReports
  <2>9. ASSUME NEW r \in retained PROVE Recoverable(r.seq)'
    <3>1. r.seq \in Nat /\ ~(first <= r.seq)
      BY <1>3, <1>4, <1>11
    <3>2. Recoverable(r.seq)
      BY DEF Recovery, AllRecoverable
    <3>3. AnnouncedResults(r.seq) => AnnouncedResults(r.seq)'
      BY <1>1, <2>8 DEF AnnouncedResults, Announces, Failure, NoReports, Reports
    <3>4. r.seq \notin todo
      BY <1>4
    <3>5. \/ RetryQueued(r.seq)' \/ AnnouncedResults(r.seq)' \/ OnScreen(r.seq)'
      BY <1>8, <3>1, <3>2, <3>3, <3>4 DEF Recoverable
    <3> QED
      BY <3>5 DEF Recoverable
  <2>10. AllRecoverable'
    BY <1>1, <2>9 DEF AllRecoverable
  <2> QED
    BY <1>6, <2>5, <2>6, <2>7, <2>10 DEF Recovery
<1> QED
  BY <1>1, <1>10, <1>11

\* What the store takes a capture for is the sequence after all it has.
LEMMA CaptureComesNext ==
    ASSUME StatusInv, OrderInv, UNCHANGED mem, Overtaken' = {}, Receive("Capture"),
           NEW c, c = [seq |-> Head(requests).seq, op |-> Head(requests).op]
    PROVE  /\ Len(log) <= Len(mem)
           /\ StoreAccepts(c) => log' # log /\ Len(log) = Len(mem)
<1>1. AckInv /\ TypeOK /\ HeldMatches /\ CaptureInv
  BY DEF StatusInv, PrefixInv, AckInv
<1>2. /\ Head(requests) = requests[1] /\ 1 \in 1 .. Len(requests)
      /\ Head(requests).kind = "Capture" /\ c.seq \in Nat \ {0} /\ c.op \in Ops
      /\ c.seq = requests[1].seq /\ c.op = requests[1].op
  BY <1>1, ReceiveType DEF Receive
<1>3. Has(requests, "Capture")
  BY <1>2 DEF Has
<1>4. save.state = "InFlight" /\ c.seq = save.seq /\ c.op = save.op
  BY <1>1, <1>2, <1>3 DEF CaptureInv, OneCapture, CaptureRequestNamed
<1>5. /\ save.op \in CaptureOps /\ Untouched
      /\ \A i \in c.seq .. Len(mem) : mem[i] \in IntentOps \cup ControlOps
  BY <1>1, <1>3, <1>4 DEF TypeOK, UiTypeOK, NoSave, StatusInv, PrefixInv, CaptureBarrier
<1>6. log \in Seq(Ops) /\ Len(log) \in Nat /\ Len(mem) \in Nat
  BY <1>1, MemberOfCommits
<1>7. ASSUME NEW i \in c.seq .. Len(mem) PROVE mem[i] # c.op
  BY <1>4, <1>5, <1>7, CapturesApart
<1>8. ASSUME Replays(c) PROVE FALSE
  <2>1. c.seq \in 1 .. Len(log) /\ c.seq <= Len(mem) /\ log[c.seq] = c.op
    BY <1>5, <1>6, <1>8 DEF Replays, Untouched
  <2>2. log[c.seq] = mem[c.seq]
    BY <1>1, <1>5, <2>1, NotOvertaken DEF Untouched
  <2>3. c.seq \in c.seq .. Len(mem)
    BY <1>2, <1>6, <2>1
  <2> QED
    BY <1>7, <2>1, <2>2, <2>3
<1>9. ASSUME StoreAccepts(c) PROVE log' # log /\ Len(log) = Len(mem)
  <2>1. c.seq = Len(log) + 1 /\ log' = Append(log, c.op)
    BY <1>8, <1>9 DEF StoreAccepts
  <2>2. Len(log') = Len(log) + 1 /\ log'[Len(log) + 1] = c.op
    BY <1>2, <1>6, <2>1, AppendPart
  <2>3. ASSUME Len(log) # Len(mem) PROVE FALSE
    <3>1. c.seq <= Len(mem) /\ c.seq \in c.seq .. Len(mem)
      BY <1>2, <1>5, <1>6, <2>1, <2>3 DEF Untouched
    <3>2. mem[c.seq] # c.op /\ c.seq \in 1 .. Len(log')
      BY <1>6, <1>7, <2>1, <2>2, <3>1
    <3>3. c.seq \in Overtaken'
      BY <2>1, <2>2, <3>1, <3>2 DEF Overtaken
    <3> QED
      BY <3>3
  <2> QED
    BY <1>6, <2>2, <2>3
<1> QED
  BY <1>5, <1>9 DEF Untouched

\* A capture is stored only when everything accepted before it is.
LEMMA LaneCaptureRecovery ==
    ASSUME StatusInv, OrderInv, TypeOK', Recovery, Overtaken' = {}, LaneCapture
    PROVE  Recovery'
<1>0. PICK c : c = [seq |-> Head(requests).seq, op |-> Head(requests).op]
  OBVIOUS
<1>1. /\ Receive("Capture")
      /\ UNCHANGED <<mem, durable, pending, durability, results, retained, retrying, todo>>
      /\ \/ StoreAccepts(c) /\ out' = <<CaptureResult(c.seq, TRUE, "none")>>
         \/ StoreRejects(c) /\ out' = <<CaptureResult(c.seq, FALSE, "none")>>
         \/ log' = log /\ out' = <<CaptureResult(c.seq, TRUE, "AlreadyCaptured")>>
  BY <1>0 DEF LaneCapture, ownerVars, appVars
<1>2. TypeOK /\ HeldMatches /\ HeldOnce /\ CaptureInv /\ CaptureBarrier
  BY DEF StatusInv, OrderInv, PrefixInv, AckInv
<1>3. /\ Head(requests) = requests[1] /\ 1 \in 1 .. Len(requests)
      /\ requests[1].kind = "Capture" /\ requests # <<>> /\ requests' = Tail(requests)
      /\ out = <<>> /\ ~retrying /\ c.seq = requests[1].seq /\ c.seq \in Nat
      /\ c.op \in Ops
  BY <1>0, <1>1, <1>2, ReceiveType DEF Receive, LaneIdle
<1>4. Len(log) <= Len(mem) /\ (StoreAccepts(c) => log' # log /\ Len(log) = Len(mem))
  BY <1>0, <1>1, CaptureComesNext
<1>5. /\ todo = {} /\ \A r \in retained : r.seq \in Nat
      /\ Len(mem) \in Nat /\ Len(log) \in Nat /\ log \in Seq(Ops)
  BY <1>2, <1>3, MemberOfCommits, Members DEF Recovery, RetryWhole
<1>6. QueueInOrder'
  BY <1>1, <1>2, <1>3, TakeRequest DEF QueueInOrder
<1>7. PICK a : out' = <<a>> /\ a.kind = "Capture" /\ (log' = log => ~Reports(a))
  <2>1. CASE StoreAccepts(c) /\ out' = <<CaptureResult(c.seq, TRUE, "none")>>
    <3>1. log' # log
      BY <1>4, <2>1
    <3>2. CaptureResult(c.seq, TRUE, "none").kind = "Capture"
      BY DEF CaptureResult
    <3> QED
      BY <2>1, <3>1, <3>2
  <2>2. CASE StoreRejects(c) /\ out' = <<CaptureResult(c.seq, FALSE, "none")>>
    <3>1. /\ CaptureResult(c.seq, FALSE, "none").kind = "Capture"
          /\ ~Reports(CaptureResult(c.seq, FALSE, "none"))
      BY DEF CaptureResult, Reports
    <3> QED
      BY <2>2, <3>1
  <2>3. CASE out' = <<CaptureResult(c.seq, TRUE, "AlreadyCaptured")>>
    <3>1. /\ CaptureResult(c.seq, TRUE, "AlreadyCaptured").kind = "Capture"
          /\ ~Reports(CaptureResult(c.seq, TRUE, "AlreadyCaptured"))
      BY DEF CaptureResult, Reports
    <3> QED
      BY <2>3, <3>1
  <2> QED
    BY <1>1, <2>1, <2>2, <2>3
<1>8. /\ Len(out') = 1 /\ out'[1] = a /\ \A i \in 1 .. Len(out') : i = 1
      /\ ~Failure(a) /\ ~Retried(a)
  BY <1>7 DEF Failure, Retried
<1>9. RetryWhole'
  BY <1>1, <1>5 DEF RetryWhole
<1>10. FailuresKnown'
  <2>1. FailuresNamed(results)' /\ (IsFailed' => durability'.failed \in pending')
    BY <1>1 DEF Recovery, FailuresKnown, FailuresNamed, IsFailed
  <2>2. FailuresNamed(out)'
    BY <1>8 DEF FailuresNamed
  <2> QED
    BY <1>1, <1>2, <1>3, <2>1, <2>2, TakeRequest DEF FailuresKnown
<1>11. RetriesEnd'
  <2>1. \A i \in 1 .. Len(out') : ~Retried(out'[i])
    BY <1>8
  <2>2. \A i \in 1 .. Len(results) : Retried(results[i]) => EndsRetry(results, i + 1)
    BY <1>3 DEF Recovery, RetriesEnd, EndsRetry
  <2> QED
    BY <1>1, <2>1, <2>2 DEF RetriesEnd, EndsRetry
<1>12. ASSUME NEW n
       PROVE  (RetryQueued(n) => RetryQueued(n)') /\ ~AnnouncedOut(n)
  <2>1. RetryQueued(n) => RetryQueued(n)'
    BY <1>1, <1>2, <1>3, TakeRequest
  <2> QED
    BY <1>3, <2>1 DEF AnnouncedOut
<1>14. AllRecoverable'
  <2>1. CASE log' = log
    <3>1. NoReports(out', 1)
      BY <1>7, <1>8, <2>1 DEF NoReports
    <3>2. ASSUME NEW n, Recoverable(n) PROVE Recoverable(n)'
      <4>1. AnnouncedResults(n) => AnnouncedResults(n)'
        BY <1>1, <2>1, <3>1 DEF AnnouncedResults, Announces, Failure, NoReports, Reports
      <4>2. OnScreen(n) => OnScreen(n)'
        BY <1>1, <2>1 DEF OnScreen, IsFailed
      <4> QED
        BY <1>5, <1>12, <3>2, <4>1, <4>2 DEF Recoverable
    <3> QED
      BY <1>1, <3>2 DEF Recovery, AllRecoverable
  <2>2. CASE log' # log
    <3>1. Len(log) = Len(mem)
      BY <1>1, <1>4, <2>2 DEF StoreRejects
    <3>2. \A r \in retained : FALSE
      BY <1>2, <1>5, <3>1 DEF HeldOnce, HeldMatches
    <3> QED
      BY <1>1, <3>2 DEF AllRecoverable
  <2> QED
    BY <2>1, <2>2
<1> QED
  BY <1>6, <1>9, <1>10, <1>11, <1>14 DEF Recovery

\* An answer moves from the lane's hand to the channel.
LEMMA LaneSendRecovery ==
    ASSUME StatusInv, TypeOK', Recovery, Running, LaneSend
    PROVE  Recovery'
<1>1. /\ out # <<>> /\ out' = Tail(out) /\ results' = Append(results, Head(out))
      /\ UNCHANGED <<mem, durable, pending, durability, requests, retained, retrying, todo,
                     log>>
  BY DEF LaneSend, ownerVars, appVars, storeVars
<1>2. TypeOK /\ out \in Seq(Results) /\ results \in Seq(Results) /\ Len(mem) \in Nat
  BY MemberOfCommits DEF StatusInv, PrefixInv, AckInv
<1>3. /\ Len(out) \in Nat /\ Len(results) \in Nat /\ 1 \in 1 .. Len(out)
      /\ Len(out') = Len(out) - 1 /\ Len(results') = Len(results) + 1
      /\ results'[Len(results) + 1] = out[1]
      /\ \A i \in 1 .. Len(results) : results'[i] = results[i]
      /\ \A i \in 1 .. Len(out') : out'[i] = out[i + 1]
  <2>1. Head(out) = out[1] /\ Head(out) \in Results /\ Len(out) \in Nat /\ 1 \in 1 .. Len(out)
        /\ Len(out') = Len(out) - 1 /\ \A i \in 1 .. Len(out') : out'[i] = out[i + 1]
    BY <1>1, <1>2
  <2> QED
    BY <1>1, <1>2, <2>1, AppendPart
<1>4. /\ \A i \in 1 .. Len(out') : i + 1 \in 1 .. Len(out)
      /\ \A i \in 1 .. Len(out) : i # 1 => i - 1 \in 1 .. Len(out') /\ out'[i - 1] = out[i]
      /\ \A i \in 1 .. Len(results') : i \in 1 .. Len(results) \/ i = Len(results) + 1
      /\ \A i \in 1 .. Len(results) : i \in 1 .. Len(results')
      /\ Len(results) + 1 \in 1 .. Len(results')
  <2>1. \A i \in 1 .. Len(out) : i # 1 => i - 1 \in 1 .. Len(out') /\ (i - 1) + 1 = i
    BY <1>3
  <2> QED
    BY <1>3, <2>1
<1>5. QueueInOrder' /\ RetryWhole'
  BY <1>1 DEF Recovery, QueueInOrder, RetryWhole
<1>6. FailuresKnown'
  <2>1. FailuresNamed(out)'
    BY <1>1, <1>3, <1>4 DEF Recovery, FailuresKnown, FailuresNamed
  <2>2. FailuresNamed(results)'
    BY <1>1, <1>3, <1>4 DEF Recovery, FailuresKnown, FailuresNamed
  <2> QED
    BY <1>1, <2>1, <2>2 DEF Recovery, FailuresKnown, IsFailed
<1>7. ASSUME NEW i \in Nat, i >= 1
      PROVE  /\ NoReports(out, i + 1) => NoReports(out', i)
             /\ EndsRetry(out, i + 1) => EndsRetry(out', i)
  <2>1. \A j \in i .. Len(out') : j + 1 \in (i + 1) .. Len(out) /\ out'[j] = out[j + 1]
    <3>1. \A j \in i .. Len(out') : j \in 1 .. Len(out') /\ j + 1 \in (i + 1) .. Len(out)
      BY <1>3, <1>7
    <3> QED
      BY <1>3, <3>1
  <2>2. \A j \in (i + 1) .. Len(out) :
          j - 1 \in i .. Len(out') /\ out'[j - 1] = out[j]
    <3>1. \A j \in (i + 1) .. Len(out) :
            j \in 1 .. Len(out) /\ j # 1 /\ j - 1 \in i .. Len(out')
      BY <1>3, <1>7
    <3> QED
      BY <1>4, <3>1
  <2> QED
    BY <2>1, <2>2 DEF NoReports, EndsRetry
<1>8. ASSUME NEW i \in 1 .. (Len(results) + 1)
      PROVE  /\ NoReports(results, i) /\ NoReports(out, 1)
                => NoReports(results', i) /\ NoReports(out', 1)
             /\ EndsRetry(results, i) \/ EndsRetry(out, 1)
                => EndsRetry(results', i) \/ EndsRetry(out', 1)
  <2>1. \A j \in i .. Len(results') : j \in i .. Len(results) \/ j = Len(results) + 1
    BY <1>3
  <2>2. \A j \in i .. Len(results) : j \in i .. Len(results') /\ results'[j] = results[j]
    BY <1>3
  <2>3. Len(results) + 1 \in i .. Len(results')
    BY <1>3
  <2>4. NoReports(out, 1) => NoReports(out, 2) /\ ~Reports(out[1])
    BY <1>3 DEF NoReports
  <2>5. EndsRetry(out, 1) => EndsRetry(out, 2) \/ out[1].kind = "RetryFinished"
    <3>1. \A j \in 1 .. Len(out) : j = 1 \/ j \in 2 .. Len(out)
      BY <1>3
    <3> QED
      BY <3>1 DEF EndsRetry
  <2>6. (NoReports(out, 2) => NoReports(out', 1)) /\ (EndsRetry(out, 2) => EndsRetry(out', 1))
    BY <1>7
  <2>7. /\ NoReports(results, i) /\ NoReports(out, 1)
             => NoReports(results', i) /\ NoReports(out', 1)
    BY <1>3, <2>1, <2>2, <2>4, <2>6 DEF NoReports
  <2>8. /\ EndsRetry(results, i) \/ EndsRetry(out, 1)
             => EndsRetry(results', i) \/ EndsRetry(out', 1)
    BY <1>3, <2>2, <2>3, <2>5, <2>6 DEF EndsRetry
  <2> QED
    BY <2>7, <2>8
<1>9. RetriesEnd'
  <2>1. ASSUME NEW i \in 1 .. Len(out'), Retried(out'[i])
        PROVE  retrying' \/ EndsRetry(out', i + 1)
    <3>1. i + 1 \in 1 .. Len(out) /\ Retried(out[i + 1]) /\ i + 1 \in Nat /\ i + 1 >= 1
      BY <1>3, <1>4, <2>1
    <3>2. retrying \/ EndsRetry(out, (i + 1) + 1)
      BY <3>1 DEF Recovery, RetriesEnd
    <3> QED
      BY <1>1, <1>7, <3>1, <3>2
  <2>2. ASSUME NEW i \in 1 .. Len(results'), Retried(results'[i])
        PROVE  retrying' \/ EndsRetry(results', i + 1) \/ EndsRetry(out', 1)
    <3>1. CASE i \in 1 .. Len(results)
      <4>1. Retried(results[i]) /\ i + 1 \in 1 .. (Len(results) + 1)
        BY <1>3, <2>2, <3>1
      <4>2. retrying \/ EndsRetry(results, i + 1) \/ EndsRetry(out, 1)
        BY <3>1, <4>1 DEF Recovery, RetriesEnd
      <4> QED
        BY <1>1, <1>8, <4>1, <4>2
    <3>2. CASE i = Len(results) + 1
      <4>1. Retried(out[1]) /\ 1 \in Nat /\ 1 >= 1 /\ 1 + 1 = 2
        BY <1>3, <2>2, <3>2
      <4>2. retrying \/ EndsRetry(out, 1 + 1)
        BY <1>3, <4>1 DEF Recovery, RetriesEnd
      <4> QED
        BY <1>1, <1>7, <4>1, <4>2
    <3> QED
      BY <1>4, <3>1, <3>2
  <2> QED
    BY <2>1, <2>2 DEF RetriesEnd
<1>11. ASSUME NEW n, Recoverable(n) PROVE Recoverable(n)'
  <2>1. ASSUME AnnouncedOut(n) PROVE AnnouncedOut(n)' \/ AnnouncedResults(n)'
    <3>1. PICK i \in 1 .. Len(out) : Announces(out[i], n) /\ NoReports(out, i + 1)
      BY <2>1 DEF AnnouncedOut
    <3>2. CASE i = 1
      <4>1. NoReports(out', 1)
        <5>1. 1 \in Nat /\ 1 >= 1
          OBVIOUS
        <5> QED
          BY <1>7, <3>1, <3>2, <5>1
      <4>2. NoReports(results', (Len(results) + 1) + 1)
        BY <1>3 DEF NoReports
      <4>3. PICK k \in 1 .. Len(results') : k = Len(results) + 1
        BY <1>4
      <4>4. /\ Failure(results'[k]) /\ Len(log') < results'[k].seq /\ results'[k].seq <= n
            /\ NoReports(results', k + 1)
        BY <1>1, <1>3, <3>1, <3>2, <4>2, <4>3 DEF Announces
      <4> QED
        BY <4>1, <4>4 DEF AnnouncedResults, Announces
    <3>3. CASE i # 1
      <4>1. PICK k \in 1 .. Len(out') : k = i - 1
        BY <1>4, <3>3
      <4>2. k \in Nat /\ k + 1 = i /\ out'[k] = out[i] /\ k + 1 \in Nat /\ k + 1 >= 1
        BY <1>3, <1>4, <3>3, <4>1
      <4>3. NoReports(out', k + 1)
        BY <1>7, <3>1, <4>2
      <4> QED
        BY <1>1, <3>1, <4>2, <4>3 DEF AnnouncedOut, Announces, Failure
    <3> QED
      BY <3>2, <3>3
  <2>2. ASSUME AnnouncedResults(n) PROVE AnnouncedResults(n)'
    <3>1. PICK i \in 1 .. Len(results) :
            Announces(results[i], n) /\ NoReports(results, i + 1) /\ NoReports(out, 1)
      BY <2>2 DEF AnnouncedResults
    <3>2. i + 1 \in 1 .. (Len(results) + 1)
      BY <1>3
    <3>3. NoReports(results', i + 1) /\ NoReports(out', 1)
      BY <1>8, <3>1, <3>2
    <3> QED
      BY <1>1, <1>3, <1>4, <3>1, <3>3 DEF AnnouncedResults, Announces, Failure
  <2>3. /\ RetryQueued(n) => RetryQueued(n)'
        /\ OnScreen(n) => OnScreen(n)'
    BY <1>1 DEF RetryQueued, OnScreen, IsFailed
  <2> QED
    BY <1>1, <1>11, <2>1, <2>2, <2>3 DEF Recoverable
<1>12. AllRecoverable'
  BY <1>1, <1>11 DEF Recovery, AllRecoverable
<1> QED
  BY <1>5, <1>6, <1>9, <1>12 DEF Recovery

LEMMA ReopenRecovery == ASSUME Reopen PROVE Recovery'
<1>1. /\ pending' = {} /\ requests' = <<>> /\ results' = <<>> /\ retained' = {}
      /\ todo' = {} /\ out' = <<>> /\ durability' = Durable
  BY DEF Reopen
<1>2. durability'.state # "Failed"
  BY <1>1 DEF Durable
<1>3. Len(<<>>) = 0 /\ \A i \in 1 .. 0 : FALSE
  OBVIOUS
<1>4. QueueInOrder' /\ RetryWhole' /\ AllRecoverable'
  BY <1>1, <1>3 DEF QueueInOrder, RetryWhole, AllRecoverable
<1>5. FailuresKnown' /\ RetriesEnd'
  BY <1>1, <1>2, <1>3 DEF FailuresKnown, FailuresNamed, RetriesEnd, IsFailed
<1> QED
  BY <1>4, <1>5 DEF Recovery

LEMMA RecoveryInit == Init => RecoveryInv
<1> SUFFICES ASSUME Init PROVE Recovery
  BY StatusInit, CountInit, KeptInit DEF RecoveryInv, CountInv
<1>1. /\ pending = {} /\ requests = <<>> /\ results = <<>> /\ retained = {}
      /\ todo = {} /\ out = <<>> /\ durability = Durable
  BY DEF Init
<1>2. durability.state # "Failed"
  BY <1>1 DEF Durable
<1>3. Len(<<>>) = 0 /\ \A i \in 1 .. 0 : FALSE
  OBVIOUS
<1>4. QueueInOrder /\ RetryWhole /\ AllRecoverable
  BY <1>1, <1>3 DEF QueueInOrder, RetryWhole, AllRecoverable
<1>5. FailuresKnown /\ RetriesEnd
  BY <1>1, <1>2, <1>3 DEF FailuresKnown, FailuresNamed, RetriesEnd, IsFailed
<1> QED
  BY <1>4, <1>5 DEF Recovery

\* Neither a refusal nor an overtaken capture is undone but by a new start.
LEMMA CalmStays ==
    ASSUME StatusInv, [Next]_vars, ~Reopen, Calm'
    PROVE  Calm
<1>1. PrefixInv /\ PrefixInv' /\ TypeOK
  BY PrefixStep DEF StatusInv, PrefixInv, AckInv
<1>2. CASE UNCHANGED vars \/ StoreHeals
  <2>1. UNCHANGED <<mem, log, refused>>
    BY <1>2 DEF vars, StoreHeals, ownerVars, appVars, laneVars, storeVars
  <2> QED
    BY <2>1, SameStore DEF Calm
<1>3. CASE QuietStep
  <2>1. Stutters \/ Accepts
    <3>1. UNCHANGED <<log, durable>> /\ (Keeps \/ \E op : Records(op))
      BY <1>1, <1>3, QuietFootprint
    <3> QED
      BY <3>1 DEF Stutters, Accepts, Keeps, Records
  <2>2. refused' = refused \/ \E x : x \in refused'
    BY <1>3 DEF QuietStep, Type, Mutate, DeferInput, ReplayInput, BeginIntent,
         CompleteIntent, QueueLookup, CompleteLookup, RetryPersistence, ExportRecovery,
         CompleteRecoveryExport, Quit, QuitAbandoningCapture, Terminate, Flush,
         RetainFailedCapture, AbandonFailedCapture, ShutdownPoll, DeadlineExpires, laneVars
  <2> QED
    BY <1>1, <2>1, <2>2, OvertakenStays DEF Calm
<1>4. CASE \E op \in CaptureOps : AdvanceCapture(op) \/ RetryCapture(op)
  <2>1. UNCHANGED <<mem, log, refused>>
    BY <1>4 DEF AdvanceCapture, RetryCapture, Reserve, appVars, laneVars, storeVars
  <2> QED
    BY <2>1, SameStore DEF Calm
<1>5. CASE Drain
  <2>1. Stutters \/ Shows \/ Acknowledges
    BY <1>1, <1>5, DrainOtherPrefix, DrainCapturePrefix DEF Drain, Stutters
  <2>2. refused' = refused
    BY <1>5 DEF Drain, DrainSequenced, DrainRetryFinished, DrainCapture, laneVars
  <2> QED
    BY <1>1, <2>1, <2>2, OvertakenStays DEF Calm
<1>6. CASE LaneCommit \/ LaneRetryNext \/ LaneCapture \/ LaneRetry \/ LaneSend
  <2>1. Persists \/ Captures \/ Stutters
    <3>1. LaneRetry \/ LaneSend => Stutters
      BY DEF LaneRetry, LaneSend, Stutters, ownerVars, appVars, storeVars
    <3> QED
      BY <1>1, <1>6, <3>1, LaneCommitPrefix, LaneRetryNextPrefix, LaneCapturePrefix
  <2>2. refused \subseteq refused'
    BY <1>6 DEF LaneCommit, LaneRetryNext, LaneCapture, LaneRetry, LaneSend, Succeeds, Fails
  <2> QED
    BY <1>1, <2>1, <2>2, OvertakenStays DEF Calm
<1> QED
  BY <1>2, <1>3, <1>4, <1>5, <1>6, NextSplit

LEMMA RecoveryStep ==
    ASSUME RecoveryInv, [Next]_vars
    PROVE  RecoveryInv'
<1>1. /\ StatusInv /\ AckInv /\ TypeOK /\ HeldMatches
      /\ Running /\ Calm => Recovery
  BY DEF RecoveryInv, StatusInv, PrefixInv, AckInv
<1>2. StatusInv' /\ TypeOK' /\ KeptInv'
  <2>1. StatusInv'
    BY <1>1, StatusStep
  <2> QED
    BY <2>1, KeptStep DEF RecoveryInv, StatusInv, PrefixInv, AckInv
<1>3. AwaitedWorkCounted'
  BY <1>1, CountStep DEF RecoveryInv, CountInv
<1>4. CASE Reopen
  BY <1>2, <1>3, <1>4, ReopenRecovery DEF RecoveryInv
<1>5. SUFFICES ASSUME Running', Calm', ~Reopen PROVE Recovery'
  BY <1>2, <1>3, <1>4 DEF RecoveryInv
<1>6. /\ Calm /\ (Running => Recovery /\ OrderInv)
      /\ refused' = {} /\ Overtaken' = {} /\ Overtaken = {}
  BY <1>1, <1>5, CalmStays DEF Calm, StatusInv
<1>7. CASE UNCHANGED vars \/ StoreHeals
  <2>1. Running /\ LaneKept /\ Rests
    BY <1>5, <1>7 DEF vars, StoreHeals, ownerVars, appVars, stopVars, laneVars, storeVars,
       Running, LaneKept, Rests
  <2> QED
    BY <1>1, <1>2, <1>6, <2>1, RestRecovery
<1>8. CASE QuietStep
  <2>1. Running
    BY <1>1, <1>5, <1>8, QuietEffect
  <2> QED
    BY <1>1, <1>2, <1>5, <1>6, <1>8, <2>1, QuietRecovery
<1>9. CASE \E op \in CaptureOps : AdvanceCapture(op) \/ RetryCapture(op)
  <2>1. Running
    BY <1>9 DEF AdvanceCapture, RetryCapture, TakesInput, Turn
  <2> QED
    BY <1>1, <1>2, <1>5, <1>6, <1>9, <2>1, ReserveRecovery
<1>10. CASE Drain
  <2>1. Running
    BY <1>10 DEF Drain, DrainSequenced, DrainRetryFinished, DrainCapture, Turn
  <2> QED
    BY <1>1, <1>2, <1>6, <1>10, <2>1, DrainSequencedRecovery, DrainRetryFinishedRecovery,
       DrainCaptureRecovery DEF Drain
<1>11. CASE LaneCommit \/ LaneCapture \/ LaneRetry \/ LaneRetryNext \/ LaneSend
  <2>1. Running
    BY <1>5, <1>11 DEF LaneCommit, LaneCapture, LaneRetry, LaneRetryNext, LaneSend,
       ownerVars, stopVars, Running
  <2> QED
    BY <1>1, <1>2, <1>6, <1>11, <2>1, LaneCommitRecovery, LaneCaptureRecovery,
       LaneRetryRecovery, LaneRetryNextRecovery, LaneSendRecovery
<1> QED
  BY <1>5, <1>7, <1>8, <1>9, <1>10, <1>11, NextSplit

\* What the owner finds when it awaits nothing.
Quiet == /\ requests = <<>> /\ out = <<>> /\ results = <<>> /\ ~retrying /\ todo = {}
         /\ durable = Len(log)

LEMMA NothingCounted ==
    ASSUME NEW S, NEW s \in Seq(S), Answers(s) = 0,
           \A i \in 1 .. Len(s) : Retried(s[i]) => EndsRetry(s, i + 1)
    PROVE  s = <<>>
<1>1. Counted(s) = {}
  BY CountedFinite, FS_EmptySet DEF Answers
<1>2. \A i \in 1 .. Len(s) : Retried(s[i]) /\ s[i].kind = "Sequenced"
  BY <1>1 DEF Counted, Retried
<1>3. SUFFICES ASSUME Len(s) # 0 PROVE FALSE
  OBVIOUS
<1>4. Len(s) \in Nat /\ 1 \in 1 .. Len(s)
  BY <1>3
<1>5. PICK j \in (1 + 1) .. Len(s) : s[j].kind = "RetryFinished"
  BY <1>2, <1>4 DEF EndsRetry
<1>6. j \in 1 .. Len(s)
  BY <1>4
<1> QED
  BY <1>2, <1>5, <1>6

LEMMA IdleIsQuiet ==
    ASSUME RecoveryInv, Running, Calm, inflight = 0
    PROVE  Quiet
<1>1. TypeOK /\ AckInv /\ Recovery /\ ReportsInOrder
  BY DEF RecoveryInv, StatusInv, OrderInv, PrefixInv, AckInv, Calm
<1>2. /\ out \in Seq(Results) /\ results \in Seq(Results) /\ requests \in Seq(Requests)
  BY <1>1, MemberOfCommits
<1>3. /\ Len(requests) = 0 /\ Answers(out) = 0 /\ Answers(results) = 0 /\ ~retrying
  <2>1. Outstanding = 0
    BY DEF RecoveryInv, AwaitedWorkCounted
  <2>2. /\ Outstanding = Len(requests) + Answers(out) + Answers(results)
                            + (IF retrying THEN 1 ELSE 0)
        /\ Len(requests) \in Nat /\ Answers(out) \in Nat /\ Answers(results) \in Nat
    BY <1>1, OutstandingSum
  <2> QED
    BY <2>1, <2>2
<1>4. requests = <<>>
  BY <1>2, <1>3
<1>5. out = <<>>
  BY <1>1, <1>2, <1>3, NothingCounted DEF Recovery, RetriesEnd
<1>6. ~EndsRetry(out, 1)
  BY <1>5 DEF EndsRetry
<1>7. results = <<>>
  BY <1>1, <1>2, <1>3, <1>6, NothingCounted DEF Recovery, RetriesEnd
<1>8. NoReports(results, 1) /\ NoReports(out, 1)
  BY <1>5, <1>7 DEF NoReports
<1>9. durable = Len(log)
  BY <1>1, <1>8, AcknowledgedAll
<1> QED
  BY <1>1, <1>3, <1>4, <1>5, <1>7, <1>9 DEF Quiet, Recovery, RetryWhole

\* Then the lane retains exactly what the store lacks, and if that is anything
\* the failure on screen names its first.
LEMMA QuietRetains ==
    ASSUME RecoveryInv, Running, Calm, Quiet
    PROVE  /\ \A n : Retained(n) <=> n \in (Len(log) + 1) .. Len(mem)
           /\ \A n : Retained(n) => IsFailed /\ durability.failed <= n
<1>1. TypeOK /\ HeldMatches /\ HeldOnce /\ Gapless /\ Recovery /\ Kept
  BY DEF RecoveryInv, KeptInv, StatusInv, OrderInv, PrefixInv, AckInv, Calm
<1>2. Len(log) \in Nat /\ Len(mem) \in Nat /\ \A r \in retained : r.seq \in Nat
  BY <1>1, MemberOfCommits, Members
<1>3. pending = (Len(log) + 1) .. Len(mem)
  BY <1>1 DEF Gapless, Quiet
<1>4. \A n : Retained(n) => n \in (Len(log) + 1) .. Len(mem)
  BY <1>1, <1>2 DEF Retained, HeldMatches, HeldOnce
<1>5. \A n \in pending : ~Queued(n) /\ n \notin refused /\ ~Stored(n)
  BY <1>2, <1>3 DEF Quiet, Queued, Calm, Stored
<1>6. \A n \in pending : Retained(n)
  BY <1>1, <1>5 DEF Kept
<1>7. \A n : ~RetryQueued(n) /\ ~AnnouncedOut(n) /\ ~AnnouncedResults(n) /\ n \notin todo
  BY DEF Quiet, RetryQueued, AnnouncedOut, AnnouncedResults
<1>8. \A r \in retained : OnScreen(r.seq)
  BY <1>1, <1>7 DEF Recovery, AllRecoverable, Recoverable
<1> QED
  BY <1>3, <1>4, <1>6, <1>8 DEF Retained, OnScreen

LEMMA RecoveryRetries == RecoveryInv => RetryCanSucceed
<1> SUFFICES ASSUME RecoveryInv, Running, Calm, inflight = 0, IsFailed
             PROVE  /\ durability.failed = Len(log) + 1
                    /\ {r.seq : r \in retained} = durability.failed .. Len(mem)
                    /\ \A r \in retained : mem[r.seq] = r.op
  BY DEF RetryCanSucceed, Calm
<1>1. TypeOK /\ HeldMatches /\ Gapless /\ Recovery /\ Quiet
  BY IdleIsQuiet DEF RecoveryInv, StatusInv, PrefixInv, AckInv
<1>2. Len(log) \in Nat /\ Len(mem) \in Nat
  BY <1>1, MemberOfCommits
<1>3. durability.failed \in (Len(log) + 1) .. Len(mem)
  BY <1>1 DEF Gapless, Quiet, Recovery, FailuresKnown
<1>4. Len(log) + 1 \in (Len(log) + 1) .. Len(mem)
  BY <1>2, <1>3
<1>5. durability.failed <= Len(log) + 1
  BY <1>1, <1>4, QuietRetains
<1>6. durability.failed = Len(log) + 1
  BY <1>2, <1>3, <1>5
<1>7. {r.seq : r \in retained} = (Len(log) + 1) .. Len(mem)
  BY <1>1, QuietRetains DEF Retained
<1> QED
  BY <1>1, <1>6, <1>7 DEF HeldMatches

(* No accepted operation is dropped between the reducer and the store: the  *)
(* queue, the lane's retention or an answer on its way holds every pending  *)
(* sequence, or the store has it, unless the retention or the queue was     *)
(* full when it came (enqueue_effects, commit_batch, retry_from,            *)
(* queue_effect).                                                           *)
THEOREM PendingIsHeld == Spec => []PendingHeld
<1>1. KeptInv /\ [Next]_vars => KeptInv'
  BY KeptStep
<1>2. KeptInv => PendingHeld
  BY DEF KeptInv, PendingHeld, Kept, Queued, Retained, Stored, HeldSequences
<1> QED
  BY <1>1, <1>2, KeptInit, PTL DEF Spec

(* When a failure is shown and the lane is quiet, Retry starts at the first *)
(* sequence the store lacks and the lane holds everything from there on,    *)
(* where no batch was refused for want of room and no retried capture was   *)
(* overtaken (reduce_persistence, retry_from).                              *)
THEOREM RetrySucceeds == Spec => []RetryCanSucceed
<1>1. Init => RecoveryInv
  BY RecoveryInit
<1>2. RecoveryInv /\ [Next]_vars => RecoveryInv'
  BY RecoveryStep
<1> QED
  BY <1>1, <1>2, RecoveryRetries, PTL DEF Spec

-----------------------------------------------------------------------------
(* A normal exit.                                                           *)

\* What a step may do to the pending edit without a new quit.
DraftFrame ==
    /\ UNCHANGED exportedFor /\ exported \subseteq exported'
    /\ quit' /\ ~term' => /\ quit /\ ~term /\ intents' \subseteq intents
                          /\ draft' = draft \/ draft' = NoOp

LEMMA FrameDraft == ASSUME DraftKept, DraftFrame PROVE DraftKept'
BY DEF DraftKept, DraftFrame

LEMMA QuietDraft ==
    ASSUME TypeOK, DraftKept, QuietStep
    PROVE  DraftKept'
<1>2. ASSUME NEW op \in DirectOps,
             Type(op) \/ Mutate(op) \/ DeferInput(op) \/ ReplayInput(op)
      PROVE  DraftFrame
  <2>1. CASE Type(op) \/ Mutate(op) \/ DeferInput(op)
    <3>1. UNCHANGED <<exports, exportedFor, exported, quit>> /\ ~quit
      BY <2>1 DEF Type, Mutate, DeferInput, TakesInput, stopVars, uiVars
    <3> QED
      BY <3>1 DEF DraftFrame
  <2>2. CASE ReplayInput(op)
    <3>1. UNCHANGED <<exports, exportedFor, exported, quit, term>> /\ op \in intents
      BY <2>2 DEF ReplayInput
    <3>2. ~(quit /\ ~term)
      BY <3>1 DEF DraftKept
    <3> QED
      BY <3>1, <3>2 DEF DraftFrame
  <2> QED
    BY <1>2, <2>1, <2>2
<1>3. ASSUME NEW op \in ControlOps, QueueLookup(op) \/ CompleteLookup(op)
      PROVE  DraftFrame
  <2>1. CASE QueueLookup(op)
    <3>1. UNCHANGED <<exports, exportedFor, exported, quit>> /\ ~quit
      BY <2>1 DEF QueueLookup, stopVars
    <3> QED
      BY <3>1 DEF DraftFrame
  <2>2. CASE CompleteLookup(op)
    <3>1. /\ UNCHANGED <<exports, exportedFor, exported, term, draft>>
          /\ intents' = intents \ {op}
      BY <2>2 DEF CompleteLookup
    <3>2. CASE quit' = quit
      BY <3>1, <3>2 DEF DraftFrame
    <3>3. CASE quit' = FALSE
      BY <3>1, <3>3 DEF DraftFrame
    <3> QED
      BY <2>2, <3>2, <3>3 DEF CompleteLookup
  <2> QED
    BY <1>3, <2>1, <2>2
<1>4. CASE RetryPersistence \/ RetainFailedCapture \/ ShutdownPoll \/ DeadlineExpires \/ Flush
  <2>1. /\ UNCHANGED <<exports, exportedFor, exported, intents, term>>
        /\ draft' = draft \/ draft' = NoOp
    BY <1>4 DEF RetryPersistence, RetainFailedCapture, ShutdownPoll, DeadlineExpires, Flush,
       uiVars
  <2>2. quit' = quit \/ quit' = FALSE
    BY <1>4 DEF RetryPersistence, RetainFailedCapture, ShutdownPoll, DeadlineExpires, Flush
  <2>3. CASE quit' = quit
    BY <2>1, <2>3, FrameDraft DEF DraftFrame
  <2>4. CASE quit' = FALSE
    BY <2>1, <2>4, FrameDraft DEF DraftFrame
  <2> QED
    BY <2>2, <2>3, <2>4
<1>5. CASE ExportRecovery
  <2>1. UNCHANGED <<exportedFor, exported, intents, draft, quit, term>>
    BY <1>5 DEF ExportRecovery, stopVars
  <2> QED
    BY <2>1, FrameDraft DEF DraftFrame
<1>6. CASE CompleteRecoveryExport
  <2>1. /\ \/ exported' = exported \cup {Head(exports)}
           \/ UNCHANGED <<exportedFor, exported>>
        /\ UNCHANGED <<intents, draft, quit, term>>
    BY <1>6 DEF CompleteRecoveryExport, stopVars
  <2> QED
    BY <2>1 DEF DraftKept
<1>10. ASSUME NEW op \in IntentOps, BeginIntent(op) \/ CompleteIntent(op)
       PROVE  DraftFrame
  <2>1. CASE BeginIntent(op)
    <3>1. UNCHANGED <<exportedFor, exported, quit>> /\ ~quit
      BY <2>1 DEF BeginIntent, TakesInput, stopVars
    <3> QED
      BY <3>1 DEF DraftFrame
  <2>2. CASE CompleteIntent(op)
    <3>1. /\ UNCHANGED <<exportedFor, exported, quit, term, draft>>
          /\ intents' = intents \ {op}
      BY <2>2 DEF CompleteIntent
    <3> QED
      BY <3>1 DEF DraftFrame
  <2> QED
    BY <1>10, <2>1, <2>2
<1>7. CASE Terminate \/ AbandonFailedCapture
  <2>1. UNCHANGED <<exports, exportedFor, exported>> /\ term'
    BY <1>7 DEF Terminate, AbandonFailedCapture
  <2> QED
    BY <2>1 DEF DraftKept
<1>8. CASE Quit \/ QuitAbandoningCapture
  <2>1. /\ UNCHANGED <<exports, exportedFor, exported, intents, term>>
        /\ ~quit /\ ~Replaying /\ save.state # "InFlight" /\ Running
    BY <1>8 DEF Quit, QuitAbandoningCapture, TakesInput, Turn
  <2>2. intents \cap DirectOps = {}
    BY <2>1 DEF Replaying
  <2>3. ASSUME NEW skip, skip => IsFailed, FlushAndQuit(skip), quit'
        PROVE  draft' = NoOp \/ exported # {}
    <3>1. CASE draft # NoOp /\ ~skip
      BY <2>3, <3>1 DEF FlushAndQuit
    <3>2. CASE draft = NoOp
      BY <2>3, <3>2 DEF FlushAndQuit
    <3>3. CASE draft # NoOp /\ skip
      <4>1. MayQuit
        BY <2>1, <2>3, <3>3 DEF FlushAndQuit
      <4>2. Durable.state = "Durable" /\ Pending.state = "Pending"
        BY DEF Durable, Pending
      <4>3. exportedFor # 0
        BY <2>3, <3>3, <4>1, <4>2 DEF MayQuit, IsFailed, TypeOK, AppTypeOK
      <4> QED
        BY <4>3 DEF DraftKept
    <3> QED
      BY <3>1, <3>2, <3>3
  <2>4. quit' => draft' = NoOp \/ exported # {}
    <3>1. CASE Quit
      BY <2>3, <3>1 DEF Quit
    <3>2. CASE QuitAbandoningCapture
      <4>1. (\E skip \in {FALSE} : FlushAndQuit(skip)) \/ quit' = quit
        BY <3>2 DEF QuitAbandoningCapture, AbandonAndQuit
      <4> QED
        BY <2>1, <2>3, <4>1
    <3> QED
      BY <1>8, <3>1, <3>2
  <2> QED
    BY <2>1, <2>2, <2>4 DEF DraftKept
<1> QED
  BY <1>2, <1>3, <1>4, <1>5, <1>6, <1>7, <1>8, <1>10, FrameDraft DEF QuietStep

LEMMA DraftStep ==
    ASSUME TypeOK, DraftKept, [Next]_vars
    PROVE  DraftKept'
<1>1. CASE UNCHANGED vars
  BY <1>1 DEF vars, uiVars, stopVars, DraftKept
<1>2. CASE QuietStep
  BY <1>2, QuietDraft
<1>3. CASE Drain \/ StoreHeals \/ LaneCommit \/ LaneCapture \/ LaneRetry \/ LaneRetryNext
             \/ LaneSend \/ \E op \in CaptureOps : AdvanceCapture(op) \/ RetryCapture(op)
  <2>1. CASE Drain
    <3>1. UNCHANGED <<exports, exportedFor, exported, intents, draft, term>>
      BY <2>1 DEF Drain, DrainSequenced, DrainRetryFinished, DrainCapture, uiVars, stopVars
    <3>2. quit' = quit \/ quit' = FALSE
      BY <2>1 DEF Drain, DrainSequenced, DrainRetryFinished, DrainCapture,
         AcknowledgeFailed, stopVars
    <3>3. CASE quit' = quit
      BY <3>1, <3>3, FrameDraft DEF DraftFrame
    <3>4. CASE quit' = FALSE
      BY <3>1, <3>4, FrameDraft DEF DraftFrame
    <3> QED
      BY <3>2, <3>3, <3>4
  <2>2. CASE \E op \in CaptureOps : AdvanceCapture(op) \/ RetryCapture(op)
    <3>1. UNCHANGED <<exports, exportedFor, exported, intents, draft, quit, term>>
      BY <2>2 DEF AdvanceCapture, RetryCapture, Reserve
    <3> QED
      BY <3>1, FrameDraft DEF DraftFrame
  <2>3. CASE StoreHeals \/ LaneCommit \/ LaneCapture \/ LaneRetry \/ LaneRetryNext \/ LaneSend
    <3>1. UNCHANGED ownerVars
      BY <2>3 DEF StoreHeals, LaneCommit, LaneCapture, LaneRetry, LaneRetryNext, LaneSend
    <3>2. UNCHANGED <<exports, exportedFor, exported, intents, draft, quit, term>>
      BY <3>1 DEF ownerVars, uiVars, stopVars
    <3> QED
      BY <3>2, FrameDraft DEF DraftFrame
  <2> QED
    BY <1>3, <2>1, <2>2, <2>3
<1>4. CASE Reopen
  BY <1>4 DEF Reopen, DraftKept
<1> QED
  BY <1>1, <1>2, <1>3, <1>4, NextSplit

\* What the shutdown poll finds when it ends the run normally.
LEMMA PollFlushes ==
    ASSUME RecoveryInv, DraftKept, Calm, ShutdownPoll, run' = "exited"
    PROVE  LaneRests' /\ ExitIsFlushed'
<1>1. /\ Running /\ (quit \/ term) /\ Drained
      /\ term => draft = NoOp \/ ~Admits
      /\ UNCHANGED <<mem, durability, exported, draft, requests, out, retrying, log, refused>>
  BY DEF ShutdownPoll, Turn, Running, appVars, uiVars, laneVars, storeVars
<1>2. Quiet
  BY <1>1, IdleIsQuiet DEF Drained
<1>3. TypeOK /\ StoreIsPrefix /\ Gapless
  BY DEF RecoveryInv, StatusInv, PrefixInv, AckInv
<1>4. ASSUME ~IsFailed PROVE log = mem /\ (exported = {} => draft = NoOp)
  <2>1. \A n : n \notin (Len(log) + 1) .. Len(mem)
    BY <1>1, <1>2, <1>4, QuietRetains
  <2>2. Len(log) \in Nat /\ Len(mem) \in Nat /\ log \in Seq(Ops) /\ mem \in Seq(Ops)
    BY <1>3, MemberOfCommits
  <2>3. ~(Len(log) < Len(mem))
    <3>1. Len(mem) \notin (Len(log) + 1) .. Len(mem)
      BY <2>1
    <3> QED
      BY <2>2, <3>1
  <2>4. ~CaptureAhead
    BY <1>1 DEF Drained, CaptureAhead
  <2>5. Len(log) = Len(mem)
    BY <1>3, <2>2, <2>3, <2>4 DEF StoreIsPrefix
  <2>6. log = mem
    <3>1. \A i \in 1 .. Len(log) : log[i] = mem[i]
      BY <1>3, <2>2, <2>5, NotOvertaken DEF Calm
    <3> QED
      BY <2>2, <2>5, <3>1, SeqEqual
  <2>7. deferred = {}
    <3>1. pending = (Len(mem) + 1) .. Len(mem)
      BY <1>2, <1>3, <2>5 DEF Quiet, Gapless
    <3>2. pending = {}
      BY <2>2, <3>1
    <3> QED
      BY <1>3, <3>2 DEF TypeOK, AppTypeOK
  <2>8. exported = {} => draft = NoOp
    BY <1>1, <1>4, <2>7 DEF DraftKept, Admits
  <2> QED
    BY <2>6, <2>8
<1> QED
  BY <1>1, <1>2, <1>4 DEF LaneRests, Quiet, ExitIsFlushed, IsFailed

LEMMA ExitStep ==
    ASSUME ExitInv, [Next]_vars
    PROVE  ExitInv'
<1>1. /\ RecoveryInv /\ DraftKept /\ TypeOK
      /\ run = "exited" /\ Calm => LaneRests /\ ExitIsFlushed
  BY DEF ExitInv, RecoveryInv, StatusInv, PrefixInv, AckInv
<1>2. RecoveryInv' /\ DraftKept'
  BY <1>1, RecoveryStep, DraftStep
<1>10. CASE Reopen
  BY <1>2, <1>10 DEF Reopen, ExitInv
<1> SUFFICES ASSUME run' = "exited", Calm', ~Reopen PROVE LaneRests' /\ ExitIsFlushed'
  BY <1>2, <1>10 DEF ExitInv
<1>13. Calm
  BY <1>1, CalmStays DEF RecoveryInv
<1>3. ASSUME run = "exited",
             UNCHANGED <<mem, durability, exported, draft, requests, out, retrying, log>>
      PROVE  LaneRests' /\ ExitIsFlushed'
  BY <1>1, <1>3, <1>13 DEF LaneRests, ExitIsFlushed, IsFailed, Calm
<1>4. CASE UNCHANGED vars \/ StoreHeals \/ DeadlineExpires
  <2>1. /\ run = "exited"
        /\ UNCHANGED <<mem, durability, exported, draft, requests, out, retrying, log>>
    BY <1>4 DEF vars, StoreHeals, DeadlineExpires, ownerVars, appVars, uiVars, stopVars,
       laneVars, storeVars
  <2> QED
    BY <1>3, <2>1
<1>5. CASE ShutdownPoll
  BY <1>1, <1>5, <1>13, PollFlushes
<1>6. ASSUME NEW op, NEW staged, Record(op, staged) PROVE run = "exited"
  BY <1>6 DEF Record
<1>7. CASE QuietStep
  <2>1. CASE ~(ShutdownPoll \/ DeadlineExpires)
    <3>1. Running
      BY <1>7, <2>1 DEF QuietStep, Type, Mutate, DeferInput, ReplayInput, BeginIntent,
         CompleteIntent, QueueLookup, CompleteLookup, RetryPersistence, ExportRecovery,
         CompleteRecoveryExport, Quit, QuitAbandoningCapture, Terminate, Flush,
         RetainFailedCapture, AbandonFailedCapture, TakesInput, Turn
    <3>2. run' = run \/ run = "exited" \/ run' = "failed"
      <4>1. ASSUME NEW skip, FlushAndQuit(skip) PROVE run' = run \/ run = "exited"
        BY <1>6, <4>1 DEF FlushAndQuit
      <4>2. AbandonAndQuit => run' = run \/ run = "exited"
        BY <4>1 DEF AbandonAndQuit
      <4>3. CASE Quit \/ QuitAbandoningCapture \/ Terminate \/ AbandonFailedCapture
        BY <4>1, <4>2, <4>3 DEF Quit, QuitAbandoningCapture, Terminate, AbandonFailedCapture
      <4>4. CASE RetryPersistence \/ ExportRecovery \/ CompleteRecoveryExport \/ Flush
                   \/ RetainFailedCapture
        BY <1>6, <4>4 DEF RetryPersistence, ExportRecovery, CompleteRecoveryExport, Flush,
           RetainFailedCapture, stopVars
      <4>5. CASE \E op \in DirectOps : Type(op) \/ Mutate(op) \/ DeferInput(op)
                                         \/ ReplayInput(op)
        BY <1>6, <4>5 DEF Type, Mutate, DeferInput, ReplayInput, stopVars
      <4>6. CASE \E op \in ControlOps : QueueLookup(op) \/ CompleteLookup(op)
        BY <1>6, <4>6 DEF QueueLookup, CompleteLookup, stopVars
      <4>7. CASE \E op \in IntentOps : BeginIntent(op) \/ CompleteIntent(op)
        BY <1>6, <4>7 DEF BeginIntent, CompleteIntent, stopVars
      <4> QED
        BY <1>7, <2>1, <4>3, <4>4, <4>5, <4>6, <4>7 DEF QuietStep
    <3> QED
      BY <3>1, <3>2 DEF Running
  <2> QED
    BY <1>4, <1>5, <2>1
<1>8. CASE Drain
  <2>1. Running /\ run' = run
    BY <1>8 DEF Drain, DrainSequenced, DrainRetryFinished, DrainCapture, Turn, stopVars
  <2> QED
    BY <2>1 DEF Running
<1>9. CASE \E op \in CaptureOps : AdvanceCapture(op) \/ RetryCapture(op)
  <2>1. Running /\ (run' = run \/ run' = "failed")
    BY <1>9 DEF AdvanceCapture, RetryCapture, Reserve, TakesInput, Turn
  <2> QED
    BY <2>1 DEF Running
<1>11. CASE LaneCommit \/ LaneCapture \/ LaneRetry \/ LaneRetryNext \/ LaneSend
  <2>1. run = "exited"
    BY <1>11 DEF LaneCommit, LaneCapture, LaneRetry, LaneRetryNext, LaneSend, ownerVars,
       stopVars
  <2> QED
    BY <1>1, <1>11, <1>13, <2>1 DEF LaneRests, LaneCommit, LaneCapture, LaneRetry, LaneRetryNext,
       LaneSend, Receive
<1> QED
  BY <1>4, <1>7, <1>8, <1>9, <1>11, NextSplit

(* A normal exit flushed everything: no operation in memory is missing from *)
(* the store unless a failure is on screen, and no pending edit is left     *)
(* unless a recovery file was written, where no batch was refused for want  *)
(* of room and no retried capture was overtaken (shutdown_ready,            *)
(* flush_edit_boundary, request_global_quit).                               *)
THEOREM ExitFlushes == Spec => [](Overtaken = {} => ExitIsFlushed)
<1>1. Init => ExitInv
  <2> SUFFICES ASSUME Init PROVE DraftKept /\ run # "exited"
    BY RecoveryInit DEF ExitInv
  <2> QED
    BY DEF Init, DraftKept
<1>2. ExitInv /\ [Next]_vars => ExitInv'
  BY ExitStep
<1>3. ExitInv => (Overtaken = {} => ExitIsFlushed)
  BY DEF ExitInv, ExitIsFlushed, Calm
<1> QED
  BY <1>1, <1>2, <1>3, PTL DEF Spec
=============================================================================

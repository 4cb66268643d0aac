------------------------- MODULE AutosaveDurability -------------------------
(***************************************************************************)
(* Proofs, checked by TLAPS, about what the owner tells: the count of       *)
(* outstanding work that ends a shutdown, and the status on the screen, for *)
(* every set of operations and every capacity.                              *)
(***************************************************************************)
EXTENDS AutosaveProofs, FiniteSetTheorems

-----------------------------------------------------------------------------
(* Counting answers.                                                        *)

\* The answers PendingWork counts: every one but those of a retried batch.
Counts(a) == a.kind = "Sequenced" => ~a.retried

\* How many answers of a channel count.
Answers(s) == Cardinality(Counted(s))

LEMMA CountedFinite ==
    ASSUME NEW S, NEW s \in Seq(S)
    PROVE  IsFiniteSet(Counted(s)) /\ Answers(s) \in Nat
<1>1. IsFiniteSet(1 .. Len(s))
  BY FS_Interval
<1>2. Counted(s) \in SUBSET (1 .. Len(s))
  BY DEF Counted
<1>3. IsFiniteSet(Counted(s))
  BY <1>1, <1>2, FS_Subset
<1> QED
  BY <1>3, FS_CardinalityType DEF Answers

LEMMA CountedEmpty == Answers(<<>>) = 0
<1>1. Counted(<<>>) = {}
  BY DEF Counted
<1> QED
  BY <1>1, FS_EmptySet DEF Answers

LEMMA CountedAppend ==
    ASSUME NEW S, NEW s \in Seq(S), NEW a \in S
    PROVE  Answers(Append(s, a)) = Answers(s) + (IF Counts(a) THEN 1 ELSE 0)
<1>1. IsFiniteSet(Counted(s)) /\ Answers(s) \in Nat
  BY CountedFinite
<1>2. /\ Len(s) \in Nat /\ Len(Append(s, a)) = Len(s) + 1
      /\ \A i \in 1 .. Len(s) : Append(s, a)[i] = s[i]
      /\ Append(s, a)[Len(s) + 1] = a
  OBVIOUS
<1>3. Len(s) + 1 \notin Counted(s)
  BY <1>2 DEF Counted
<1>4. CASE Counts(a)
  <2>1. Counted(Append(s, a)) = Counted(s) \cup {Len(s) + 1}
    BY <1>2, <1>4 DEF Counted, Counts
  <2> QED
    BY <1>1, <1>3, <1>4, <2>1, FS_AddElement DEF Answers
<1>5. CASE ~Counts(a)
  <2>1. Counted(Append(s, a)) = Counted(s)
    BY <1>2, <1>5 DEF Counted, Counts
  <2> QED
    BY <1>1, <1>5, <2>1 DEF Answers
<1> QED
  BY <1>4, <1>5

LEMMA CountedTail ==
    ASSUME NEW S, NEW s \in Seq(S), s # <<>>
    PROVE  Answers(s) = Answers(Tail(s)) + (IF Counts(Head(s)) THEN 1 ELSE 0)
<1>1. IsFiniteSet(Counted(s)) /\ IsFiniteSet(Counted(Tail(s)))
      /\ Answers(s) \in Nat /\ Answers(Tail(s)) \in Nat
  <2>1. Tail(s) \in Seq(S)
    OBVIOUS
  <2> QED
    BY <2>1, CountedFinite
<1>2. /\ Len(s) \in Nat /\ Len(s) >= 1 /\ Len(Tail(s)) = Len(s) - 1
      /\ \A i \in 1 .. Len(s) - 1 : Tail(s)[i] = s[i + 1]
      /\ Head(s) = s[1]
  OBVIOUS
<1> DEFINE shift == [i \in Counted(Tail(s)) |-> i + 1]
<1>3. shift \in Bijection(Counted(Tail(s)), Counted(s) \ {1})
  <2>1. \A i \in Counted(Tail(s)) : i \in 1 .. Len(s) - 1 /\ shift[i] = i + 1
    BY <1>2 DEF Counted
  <2>2. \A i \in Counted(Tail(s)) : shift[i] \in Counted(s) \ {1}
    BY <1>2, <2>1 DEF Counted
  <2>3. \A i, j \in Counted(Tail(s)) : shift[i] = shift[j] => i = j
    BY <2>1
  <2>4. ASSUME NEW k \in Counted(s) \ {1}
        PROVE  \E i \in Counted(Tail(s)) : shift[i] = k
    <3>1. k \in 2 .. Len(s)
      BY <1>2 DEF Counted
    <3>2. k - 1 \in 1 .. Len(s) - 1 /\ Tail(s)[k - 1] = s[k]
      BY <1>2, <3>1
    <3>3. k - 1 \in Counted(Tail(s))
      BY <1>2, <3>2 DEF Counted
    <3> QED
      BY <3>1, <3>3
  <2>5. shift \in [Counted(Tail(s)) -> Counted(s) \ {1}]
    BY <2>2
  <2>6. shift \in Injection(Counted(Tail(s)), Counted(s) \ {1})
    BY <2>3, <2>5 DEF Injection, IsInjective
  <2>7. shift \in Surjection(Counted(Tail(s)), Counted(s) \ {1})
    BY <2>4, <2>5 DEF Surjection
  <2> QED
    BY <2>6, <2>7 DEF Bijection
<1>4. Cardinality(Counted(s) \ {1}) = Cardinality(Counted(Tail(s)))
  BY <1>1, <1>3, FS_Bijection DEF ExistsBijection
<1>5. 1 \in Counted(s) <=> Counts(Head(s))
  BY <1>2 DEF Counted, Counts
<1>6. Cardinality(Counted(s) \ {1})
        = IF 1 \in Counted(s) THEN Cardinality(Counted(s)) - 1 ELSE Cardinality(Counted(s))
  BY <1>1, FS_RemoveElement
<1> HIDE DEF shift
<1> QED
  BY <1>1, <1>4, <1>5, <1>6 DEF Answers

-----------------------------------------------------------------------------
(* The owner awaits what the lane owes.                                     *)

\* A step of the owner posts nothing, or posts one request and counts it.
Posts == \/ UNCHANGED <<requests, inflight>>
         \/ \E r : requests' = Append(requests, r) /\ inflight' = inflight + 1

LEMMA RecordPosts ==
    ASSUME NEW op, NEW staged, Record(op, staged)
    PROVE  Posts /\ (Running' => Running)
BY DEF Record, Posts, Post, Running

LEMMA QuietPosts ==
    ASSUME QuietStep
    PROVE  /\ UNCHANGED <<out, results, retrying>>
           /\ Posts /\ (Running' => Running)
<1>1. ASSUME NEW op,
             \/ Type(op) \/ Mutate(op) \/ DeferInput(op) \/ ReplayInput(op)
             \/ BeginIntent(op) \/ CompleteIntent(op)
             \/ QueueLookup(op) \/ CompleteLookup(op)
      PROVE  /\ UNCHANGED <<out, results, retrying>>
             /\ Posts /\ (Running' => Running)
  <2>1. UNCHANGED <<out, results, retrying>>
    BY <1>1 DEF Type, Mutate, DeferInput, ReplayInput, BeginIntent, CompleteIntent,
                QueueLookup, CompleteLookup, laneVars
  <2>2. CASE \E staged : Record(op, staged)
    BY <2>1, <2>2, RecordPosts
  <2>3. CASE ~\E staged : Record(op, staged)
    <3>1. UNCHANGED <<requests, inflight, run>>
      BY <1>1, <2>3 DEF Type, Mutate, DeferInput, ReplayInput, BeginIntent,
                CompleteIntent, QueueLookup, CompleteLookup, stopVars
    <3> QED
      BY <2>1, <3>1 DEF Posts, Running
  <2> QED
    BY <2>2, <2>3
<1>2. CASE RetryPersistence
  BY <1>2 DEF RetryPersistence, Posts, Post, Running, laneVars
<1>3. CASE ExportRecovery \/ CompleteRecoveryExport \/ RetainFailedCapture \/ ShutdownPoll
             \/ DeadlineExpires
  BY <1>3 DEF ExportRecovery, CompleteRecoveryExport, RetainFailedCapture, ShutdownPoll,
              DeadlineExpires, Posts, Running, Turn, laneVars, stopVars
<1>4. ASSUME NEW skip, FlushAndQuit(skip)
      PROVE  Posts /\ (Running' => Running)
  BY <1>4, RecordPosts DEF FlushAndQuit, Posts, Running
<1>5. CASE Quit \/ QuitAbandoningCapture \/ Terminate \/ AbandonFailedCapture
  <2>1. UNCHANGED <<out, results, retrying>>
    BY <1>5 DEF Quit, QuitAbandoningCapture, Terminate, AbandonFailedCapture, laneVars
  <2>2. \/ \E skip : FlushAndQuit(skip)
        \/ UNCHANGED <<appVars, draft, inflight, requests, run, quit>>
    BY <1>5 DEF Quit, QuitAbandoningCapture, Terminate, AbandonFailedCapture,
                AbandonAndQuit
  <2> QED
    BY <1>4, <2>1, <2>2 DEF Posts, Running
<1>6. CASE Flush
  BY <1>6, RecordPosts DEF Flush, laneVars
<1> QED
  BY <1>1, <1>2, <1>3, <1>5, <1>6 DEF QuietStep

\* The count as a sum, and its parts as numbers.
LEMMA OutstandingSum ==
    ASSUME TypeOK
    PROVE  /\ Outstanding = Len(requests) + Answers(out) + Answers(results)
                              + (IF retrying THEN 1 ELSE 0)
           /\ Len(requests) \in Nat /\ Answers(out) \in Nat /\ Answers(results) \in Nat
<1>1. requests \in Seq(Requests) /\ out \in Seq(Results) /\ results \in Seq(Results)
  BY DEF TypeOK, ChannelTypeOK, LaneTypeOK
<1> QED
  BY <1>1, CountedFinite DEF Outstanding, Answers

\* A request enters the channel and the count.
LEMMA PostCounted ==
    ASSUME TypeOK, TypeOK', AwaitedWorkCounted, Posts, Running' => Running,
           UNCHANGED <<out, results, retrying>>
    PROVE  AwaitedWorkCounted'
<1>1. /\ Outstanding = Len(requests) + Answers(out) + Answers(results)
                         + (IF retrying THEN 1 ELSE 0)
      /\ Len(requests) \in Nat /\ Answers(out) \in Nat /\ Answers(results) \in Nat
  BY OutstandingSum
<1>2. Outstanding' = Len(requests') + Answers(out) + Answers(results)
                         + (IF retrying THEN 1 ELSE 0)
  BY DEF Outstanding, Answers
<1>3. requests \in Seq(Requests) /\ inflight \in Nat
  BY DEF TypeOK, ChannelTypeOK, StopTypeOK
<1>4. \/ Len(requests') = Len(requests) /\ inflight' = inflight
      \/ Len(requests') = Len(requests) + 1 /\ inflight' = inflight + 1
  BY <1>3 DEF Posts
<1> QED
  BY <1>1, <1>2, <1>3, <1>4 DEF AwaitedWorkCounted

\* An answer is counted down as it is drained, unless a retry answers for it.
LEMMA DrainCounted ==
    ASSUME TypeOK, AwaitedWorkCounted, Drain
    PROVE  AwaitedWorkCounted'
<1>1. /\ Running /\ results # <<>> /\ results' = Tail(results)
      /\ UNCHANGED <<requests, out, retrying, run>>
      /\ inflight' = IF ~Counts(Answer) \/ inflight = 0 THEN inflight ELSE inflight - 1
  BY DEF Drain, DrainSequenced, DrainRetryFinished, DrainCapture, Turn, laneVars, stopVars,
         Counts
<1>2. results \in Seq(Results) /\ inflight \in Nat
  BY DEF TypeOK, ChannelTypeOK, StopTypeOK
<1>3. Answers(results) = Answers(results') + (IF Counts(Answer) THEN 1 ELSE 0)
  BY <1>1, <1>2, CountedTail DEF Answer
<1>4. Answers(results') \in Nat
  <2>1. results' \in Seq(Results)
    BY <1>1, <1>2
  <2> QED
    BY <2>1, CountedFinite
<1>5. /\ Outstanding = Len(requests) + Answers(out) + Answers(results)
                         + (IF retrying THEN 1 ELSE 0)
      /\ Len(requests) \in Nat /\ Answers(out) \in Nat /\ Answers(results) \in Nat
  BY OutstandingSum
<1>6. Outstanding' = Len(requests) + Answers(out) + Answers(results')
                         + (IF retrying THEN 1 ELSE 0)
  BY <1>1 DEF Outstanding, Answers
<1> QED
  BY <1>1, <1>2, <1>3, <1>4, <1>5, <1>6 DEF AwaitedWorkCounted, Running

\* The lane turns one request into one counted answer, or into a retry under way.
LEMMA OneAnswer ==
    ASSUME NEW a \in Results
    PROVE  /\ Answers(<<a>>) = IF Counts(a) THEN 1 ELSE 0
           /\ Answers(<<a, RetryFinished>>) = (IF Counts(a) THEN 1 ELSE 0) + 1
<1>1. /\ <<>> \in Seq(Results) /\ <<a>> = Append(<<>>, a) /\ <<a>> \in Seq(Results)
      /\ <<a, RetryFinished>> = Append(<<a>>, RetryFinished)
  OBVIOUS
<1>2. RetryFinished \in Results /\ Counts(RetryFinished)
  BY DEF Results, RetryFinished, Counts
<1>3. Answers(<<a>>) = 0 + (IF Counts(a) THEN 1 ELSE 0)
  BY <1>1, CountedAppend, CountedEmpty
<1>4. Answers(<<a, RetryFinished>>) = Answers(<<a>>) + 1
  BY <1>1, <1>2, CountedAppend
<1> QED
  BY <1>3, <1>4

LEMMA CommitCounted ==
    ASSUME TypeOK, NEW c \in Commits, NEW retried \in BOOLEAN,
           NEW more \in {<<>>, <<RetryFinished>>},
           Succeeds(c, retried, more) \/ Fails(c, retried, more)
    PROVE  Answers(out') = (IF retried THEN 0 ELSE 1) + (IF more = <<>> THEN 0 ELSE 1)
<1>1. PICK a \in Results : out' = <<a>> \o more /\ a.kind = "Sequenced" /\ a.retried = retried
  <2>1. c.seq \in Nat
    BY DEF Commits
  <2>2. \A ok \in BOOLEAN, code \in FailureCodes \cup {"none"} :
          /\ Sequenced(c.seq, ok, code, retried).kind = "Sequenced"
          /\ Sequenced(c.seq, ok, code, retried).retried = retried
    BY DEF Sequenced
  <2>3. "StorageFailed" \in FailureCodes /\ "RecoveryCapacity" \in FailureCodes
    BY DEF FailureCodes
  <2> QED
    BY <2>1, <2>2, <2>3, SequencedType DEF Succeeds, Fails
<1>2. Counts(a) <=> ~retried
  BY <1>1 DEF Counts
<1>3. CASE more = <<>>
  <2>1. <<a>> \in Seq(Results)
    OBVIOUS
  <2>2. out' = <<a>>
    BY <1>1, <1>3, <2>1, ConcatEmptySeq
  <2>3. Answers(<<a>>) = IF Counts(a) THEN 1 ELSE 0
    BY OneAnswer, Zenon
  <2>4. Answers(out') = IF Counts(a) THEN 1 ELSE 0
    BY <2>2, <2>3, Zenon
  <2> QED
    BY <1>2, <1>3, <2>4
<1>4. CASE more = <<RetryFinished>>
  <2>1. <<a>> \in Seq(Results) /\ RetryFinished \in Results
    <3>1. RetryFinished \in Results
      BY DEF Results
    <3> QED
      BY <3>1
  <2>2. Append(<<a>>, RetryFinished) = <<a>> \o <<RetryFinished>>
    BY <2>1, AppendIsConcat, Zenon
  <2>3. out' = <<a, RetryFinished>>
    <3>1. <<a, RetryFinished>> = Append(<<a>>, RetryFinished)
      BY <2>1
    <3> QED
      BY <1>1, <1>4, <2>2, <3>1, Zenon
  <2>4. Answers(<<a, RetryFinished>>) = (IF Counts(a) THEN 1 ELSE 0) + 1
    BY OneAnswer, Zenon
  <2>5. Answers(out') = (IF Counts(a) THEN 1 ELSE 0) + 1
    BY <2>3, <2>4, Zenon
  <2> QED
    BY <1>2, <1>4, <2>5
<1> QED
  BY <1>3, <1>4

\* The lane is idle, takes its oldest request and leaves the owner alone.
LEMMA ReceiveCounted ==
    ASSUME TypeOK, TypeOK', AwaitedWorkCounted, NEW kind, Receive(kind),
           UNCHANGED <<run, inflight, results>>,
           Answers(out') + (IF retrying' THEN 1 ELSE 0) = 1
    PROVE  AwaitedWorkCounted'
<1>1. /\ Outstanding = Len(requests) + Answers(out) + Answers(results)
                         + (IF retrying THEN 1 ELSE 0)
      /\ Len(requests) \in Nat /\ Answers(out) \in Nat /\ Answers(results) \in Nat
  BY OutstandingSum
<1>2. out = <<>> /\ ~retrying /\ Len(requests') = Len(requests) - 1
  <2>1. requests \in Seq(Requests)
    BY DEF TypeOK, ChannelTypeOK
  <2> QED
    BY <2>1 DEF Receive, LaneIdle
<1>3. Answers(out) = 0
  BY <1>2, CountedEmpty
<1>4. Answers(out') \in Nat
  <2>1. out' \in Seq(Results)
    BY DEF TypeOK, LaneTypeOK
  <2> QED
    BY <2>1, CountedFinite
<1>5. Outstanding' = Len(requests') + Answers(out') + Answers(results)
                         + (IF retrying' THEN 1 ELSE 0)
  BY DEF Outstanding, Answers
<1> QED
  BY <1>1, <1>2, <1>3, <1>4, <1>5 DEF AwaitedWorkCounted, Running

LEMMA LaneCommitCounted ==
    ASSUME TypeOK, TypeOK', AwaitedWorkCounted, LaneCommit PROVE AwaitedWorkCounted'
<1> DEFINE c == [seq |-> Head(requests).seq, op |-> Head(requests).op]
<1>1. /\ Receive("Commit") /\ (Succeeds(c, FALSE, <<>>) \/ Fails(c, FALSE, <<>>))
      /\ UNCHANGED <<run, inflight, results, retrying>>
  BY DEF LaneCommit, ownerVars, stopVars
<1>2. c \in Commits
  BY <1>1, ReceiveType DEF Commits
<1> HIDE DEF c
<1>3. Answers(out') = 1
  <2>1. FALSE \in BOOLEAN /\ <<>> \in {<<>>, <<RetryFinished>>}
    OBVIOUS
  <2>2. Answers(out') = (IF FALSE THEN 0 ELSE 1) + (IF <<>> = <<>> THEN 0 ELSE 1)
    BY <1>1, <1>2, <2>1, CommitCounted, Zenon
  <2> QED
    BY <2>2
<1>4. ~retrying
  BY <1>1 DEF Receive, LaneIdle
<1> QED
  BY <1>1, <1>3, <1>4, ReceiveCounted

LEMMA LaneCaptureCounted ==
    ASSUME TypeOK, TypeOK', AwaitedWorkCounted, LaneCapture PROVE AwaitedWorkCounted'
<1>1. /\ Receive("Capture") /\ UNCHANGED <<run, inflight, results, retrying>>
      /\ Head(requests).seq \in Nat
  BY ReceiveType DEF LaneCapture, ownerVars, stopVars
<1>2. PICK ok \in BOOLEAN, code \in {"none", "AlreadyCaptured"} :
        out' = <<CaptureResult(Head(requests).seq, ok, code)>>
  BY DEF LaneCapture
<1> DEFINE a == CaptureResult(Head(requests).seq, ok, code)
<1>3. a \in Results /\ Counts(a)
  BY <1>1, CaptureResultType DEF CaptureResult, Counts
<1>4. out' = <<a>>
  BY <1>2
<1> HIDE DEF a
<1>5. Answers(<<a>>) = IF Counts(a) THEN 1 ELSE 0
  BY <1>3, OneAnswer, Zenon
<1>6. Answers(out') = 1
  BY <1>3, <1>4, <1>5, Zenon
<1>7. ~retrying
  BY <1>1 DEF Receive, LaneIdle
<1> QED
  BY <1>1, <1>6, <1>7, ReceiveCounted

\* A retry is owed as a whole, from its request to its RetryFinished.
LEMMA LaneRetryCounted ==
    ASSUME TypeOK, TypeOK', AwaitedWorkCounted, LaneRetry PROVE AwaitedWorkCounted'
<1>1. /\ Receive("Retry") /\ UNCHANGED <<run, inflight, results>>
      /\ Head(requests).seq \in Nat
  BY ReceiveType DEF LaneRetry, ownerVars, stopVars
<1>2. ~retrying /\ out = <<>>
  BY <1>1 DEF Receive, LaneIdle
<1>3. CASE retrying' = TRUE /\ UNCHANGED out
  <2>1. Answers(out') = 0
    BY <1>2, <1>3, CountedEmpty
  <2> QED
    BY <1>1, <1>3, <2>1, ReceiveCounted
<1> DEFINE a == Sequenced(Head(requests).seq, FALSE, "StorageFailed", TRUE)
<1>4. CASE out' = <<a, RetryFinished>> /\ UNCHANGED retrying
  <2>1. a \in Results /\ ~Counts(a)
    BY <1>1, SequencedType DEF Sequenced, Counts, FailureCodes
  <2> HIDE DEF a
  <2>2. Answers(<<a, RetryFinished>>) = (IF Counts(a) THEN 1 ELSE 0) + 1
    BY <2>1, OneAnswer, Zenon
  <2>3. Answers(out') = (IF Counts(a) THEN 1 ELSE 0) + 1
    BY <1>4, <2>2, Zenon
  <2>4. Answers(out') = 1
    BY <2>1, <2>3
  <2> QED
    BY <1>1, <1>2, <1>4, <2>4, ReceiveCounted
<1> QED
  BY <1>3, <1>4 DEF LaneRetry

LEMMA LaneRetryNextCounted ==
    ASSUME TypeOK, TypeOK', AwaitedWorkCounted, LaneRetryNext PROVE AwaitedWorkCounted'
<1>1. PICK c \in retained, more \in {<<>>, <<RetryFinished>>} :
        /\ Succeeds(c, TRUE, more) \/ Fails(c, TRUE, more)
        /\ more = <<>> => retrying' = TRUE
        /\ more # <<>> => retrying' = FALSE
  <2>1. <<RetryFinished>> # <<>>
    OBVIOUS
  <2> QED
    BY <2>1 DEF LaneRetryNext, TypeOK, LaneTypeOK
<1>2. /\ retrying /\ out = <<>> /\ UNCHANGED <<run, inflight, results, requests>>
  BY DEF LaneRetryNext, ownerVars, stopVars
<1>3. c \in Commits
  BY DEF TypeOK, LaneTypeOK
<1>4. Answers(out') = (IF TRUE THEN 0 ELSE 1) + (IF more = <<>> THEN 0 ELSE 1)
  BY <1>1, <1>3, CommitCounted, Zenon
<1>5. /\ Outstanding = Len(requests) + Answers(out) + Answers(results)
                         + (IF retrying THEN 1 ELSE 0)
      /\ Len(requests) \in Nat /\ Answers(results) \in Nat
  BY OutstandingSum
<1>6. Answers(out) = 0
  BY <1>2, CountedEmpty
<1>7. Outstanding' = Len(requests) + Answers(out') + Answers(results)
                         + (IF retrying' THEN 1 ELSE 0)
  BY <1>2 DEF Outstanding, Answers
<1> QED
  BY <1>1, <1>2, <1>4, <1>5, <1>6, <1>7 DEF AwaitedWorkCounted, Running

\* An answer moves from the lane's hand to the channel, still counted once.
LEMMA LaneSendCounted ==
    ASSUME TypeOK, TypeOK', AwaitedWorkCounted, LaneSend PROVE AwaitedWorkCounted'
<1>1. /\ out # <<>> /\ out' = Tail(out)
      /\ UNCHANGED <<run, inflight, requests, retrying>>
  BY DEF LaneSend, ownerVars, stopVars
<1>2. out \in Seq(Results) /\ results \in Seq(Results) /\ Head(out) \in Results
  <2>1. out \in Seq(Results) /\ results \in Seq(Results)
    BY DEF TypeOK, LaneTypeOK, ChannelTypeOK
  <2> QED
    BY <1>1, <2>1
<1>3. /\ Outstanding = Len(requests) + Answers(out) + Answers(results)
                         + (IF retrying THEN 1 ELSE 0)
      /\ Len(requests) \in Nat /\ Answers(out) \in Nat /\ Answers(results) \in Nat
  BY OutstandingSum
<1>4. /\ Answers(out) = Answers(out') + (IF Counts(Head(out)) THEN 1 ELSE 0)
      /\ Answers(out') \in Nat
  <2>1. out' \in Seq(Results)
    BY <1>1, <1>2
  <2> QED
    BY <1>1, <1>2, <2>1, CountedTail, CountedFinite
<1>5. CASE ~Running
  BY <1>1, <1>5 DEF AwaitedWorkCounted, Running
<1>6. CASE Running
  <2>1. results' = Append(results, Head(out))
    BY <1>6 DEF LaneSend
  <2>2. Answers(results') = Answers(results) + (IF Counts(Head(out)) THEN 1 ELSE 0)
    BY <1>2, <2>1, CountedAppend
  <2>3. Outstanding' = Len(requests) + Answers(out') + Answers(results')
                         + (IF retrying THEN 1 ELSE 0)
    BY <1>1 DEF Outstanding, Answers
  <2> QED
    BY <1>1, <1>3, <1>4, <2>2, <2>3 DEF AwaitedWorkCounted, Running
<1> QED
  BY <1>5, <1>6

CountInv == AckInv /\ AwaitedWorkCounted

LEMMA CountInit == Init => CountInv
<1> SUFFICES ASSUME Init PROVE AwaitedWorkCounted
  BY AckInit DEF CountInv
<1>1. /\ inflight = 0 /\ requests = <<>> /\ results = <<>> /\ out = <<>> /\ retrying = FALSE
  BY DEF Init
<1>2. Cardinality(Counted(out)) = 0 /\ Cardinality(Counted(results)) = 0
  BY <1>1, CountedEmpty DEF Answers
<1> QED
  BY <1>1, <1>2 DEF AwaitedWorkCounted, Outstanding

LEMMA CountStep == CountInv /\ [Next]_vars => CountInv'
<1> SUFFICES ASSUME CountInv, [Next]_vars PROVE AwaitedWorkCounted'
  BY AckStep DEF CountInv
<1>1. TypeOK /\ TypeOK' /\ AwaitedWorkCounted
  BY AckStep DEF CountInv, AckInv
<1>2. CASE UNCHANGED vars
  BY <1>1, <1>2 DEF vars, stopVars, laneVars, AwaitedWorkCounted, Running, Outstanding
<1>3. CASE StoreHeals
  BY <1>1, <1>3 DEF StoreHeals, ownerVars, stopVars, laneVars, AwaitedWorkCounted,
     Running, Outstanding
<1>4. CASE QuietStep
  BY <1>1, <1>4, QuietPosts, PostCounted
<1>5. ASSUME NEW op \in CaptureOps, AdvanceCapture(op) \/ RetryCapture(op)
      PROVE  AwaitedWorkCounted'
  <2>1. Reserve(op)
    BY <1>5 DEF AdvanceCapture, RetryCapture
  <2>2. Posts /\ (Running' => Running) /\ UNCHANGED <<out, results, retrying>>
    BY <1>5, <2>1 DEF Reserve, Posts, Post, Running, laneVars, AdvanceCapture,
                      RetryCapture, TakesInput, Turn
  <2> QED
    BY <1>1, <2>2, PostCounted
<1>6. CASE Reopen
  <2>1. /\ inflight' = 0 /\ requests' = <<>> /\ results' = <<>> /\ out' = <<>>
        /\ retrying' = FALSE
    BY <1>6 DEF Reopen
  <2>2. Cardinality(Counted(out')) = 0 /\ Cardinality(Counted(results')) = 0
    BY <2>1, CountedEmpty DEF Answers
  <2>3. Outstanding' = 0
    BY <2>1, <2>2 DEF Outstanding
  <2> QED
    BY <2>1, <2>3 DEF AwaitedWorkCounted
<1> QED
  BY <1>1, <1>2, <1>3, <1>4, <1>5, <1>6, NextSplit, DrainCounted, LaneCommitCounted,
     LaneCaptureCounted, LaneRetryCounted, LaneRetryNextCounted, LaneSendCounted

\* While the owner runs, PendingWork counts exactly the requests and answers
\* under way, for all capacities and every order of retries, captures and
\* crashes: a shutdown neither leaves a commit behind nor waits for an answer
\* that cannot come.
THEOREM WorkCounted == Spec => []AwaitedWorkCounted
<1>1. CountInv => AwaitedWorkCounted
  BY DEF CountInv
<1> QED
  BY <1>1, CountInit, CountStep, PTL DEF Spec

-----------------------------------------------------------------------------
(* The status tells the truth.  The answers that report a commit arrive in   *)
(* sequence order, each sequence once, so the owner acknowledges exactly     *)
(* what the store has, without a gap.                                        *)

\* The commits a channel reports come in order.
OrderedReports(s) ==
    \A i, j \in 1 .. Len(s) :
        i < j /\ Reports(s[i]) /\ Reports(s[j]) => s[i].seq < s[j].seq
ReportedIn(s, n) == \E i \in 1 .. Len(s) : Reports(s[i]) /\ s[i].seq = n
ReportsBounded(s) ==
    \A i \in 1 .. Len(s) :
        Reports(s[i]) => /\ durable < s[i].seq
                         /\ s[i].kind = "Sequenced" => s[i].seq <= Len(mem)

\* The answers on their way report durable + 1, ..., Len(log), in this order.
ReportsInOrder ==
    /\ OrderedReports(results) /\ OrderedReports(out)
    /\ \A i \in 1 .. Len(results), j \in 1 .. Len(out) :
         Reports(results[i]) /\ Reports(out[j]) => results[i].seq < out[j].seq
    /\ ReportsBounded(results) /\ ReportsBounded(out)
    /\ \A n \in (durable + 1) .. Len(log) : ReportedIn(results, n) \/ ReportedIn(out, n)

\* Nothing the lane may still commit is in the store, and nothing is held twice.
HeldOnce ==
    /\ \A i \in 1 .. Len(requests) :
         requests[i].kind = "Commit" => Len(log) < requests[i].seq
    /\ \A i, j \in 1 .. Len(requests) :
         requests[i].kind = "Commit" /\ requests[j].kind = "Commit" /\ i # j
         => requests[i].seq # requests[j].seq
    /\ \A r \in retained : Len(log) < r.seq
    /\ \A r \in retained, i \in 1 .. Len(requests) :
         requests[i].kind = "Commit" => requests[i].seq # r.seq

Gapless == /\ pending = (durable + 1) .. Len(mem)
           /\ durability = Durable => pending = {}

\* Until a capture is overtaken, what the lane holds and answers is in order.
OrderInv == HeldOnce /\ (Running => ReportsInOrder)

StatusInv == PrefixInv /\ Gapless /\ (Overtaken = {} => OrderInv)

\* Only reopening the session makes good a capture that was overtaken.
LEMMA OvertakenStays ==
    ASSUME PrefixInv,
           Stutters \/ Persists \/ Accepts \/ Captures \/ Shows \/ Acknowledges
    PROVE  Overtaken' = {} => Overtaken = {}
<1>1. /\ TypeOK /\ log \in Seq(Ops) /\ mem \in Seq(Ops)
      /\ Len(log) \in Nat /\ Len(mem) \in Nat
  BY MemberOfCommits DEF PrefixInv, AckInv
<1>2. CASE Stutters \/ Acknowledges
  BY <1>2, SameStore DEF Stutters, Acknowledges
<1>3. CASE Persists \/ Captures
  <2>1. UNCHANGED mem /\ (UNCHANGED log \/ \E op \in Ops : log' = Append(log, op))
    <3>1. Len(log) < Len(mem) => Len(log) + 1 \in 1 .. Len(mem)
      BY <1>1
    <3>2. Len(log) < Len(mem) => mem[Len(log) + 1] \in Ops
      BY <1>1, <3>1
    <3>3. CaptureOps \subseteq Ops
      BY OpsParts
    <3> QED
      BY <1>3, <3>2, <3>3 DEF Persists, Captures
  <2>2. CASE UNCHANGED log
    BY <2>1, <2>2, SameStore
  <2>3. CASE \E op \in Ops : log' = Append(log, op)
    <3>1. Overtaken \subseteq Overtaken'
      BY <1>1, <2>1, <2>3, GrowingStore
    <3> QED
      BY <3>1
  <2> QED
    BY <2>1, <2>2, <2>3
<1>4. CASE Accepts
  <2>1. PICK op \in Ops : mem' = Append(mem, op) /\ UNCHANGED log
    BY <1>4 DEF Accepts
  <2>2. /\ Len(mem') \in Nat /\ Len(mem) <= Len(mem')
        /\ \A i \in 1 .. Len(mem) : mem'[i] = mem[i]
    BY <1>1, <2>1, AppendPart
  <2>3. CASE Len(log) <= Len(mem)
    BY <1>1, <2>1, <2>2, <2>3, GrowingMemory
  <2>4. CASE CaptureAhead
    BY <2>4 DEF PrefixInv, CaptureBarrier, CaptureAhead
  <2> QED
    BY <2>3, <2>4 DEF PrefixInv, StoreIsPrefix
<1>5. CASE Shows
  BY <1>5 DEF Shows, PrefixInv, CaptureBarrier, CaptureAhead
<1> QED
  BY <1>2, <1>3, <1>4, <1>5

LEMMA HeadIsNext ==
    ASSUME AckInv, ReportsInOrder, results # <<>>, Reports(Answer)
    PROVE  Answer.seq = durable + 1
<1>1. /\ Answer = results[1] /\ 1 \in 1 .. Len(results) /\ Answer.seq \in Nat
      /\ durable \in Nat /\ Len(log) \in Nat
  BY AnswerType, ResultParts, MemberOfCommits DEF AckInv
<1>2. durable < Answer.seq /\ Answer.seq <= Len(log)
  BY <1>1 DEF ReportsInOrder, ReportsBounded, AckInv, HonestAnswers
<1>3. durable + 1 \in (durable + 1) .. Len(log)
  BY <1>1, <1>2
<1>4. CASE ReportedIn(results, durable + 1)
  <2>1. PICK i \in 1 .. Len(results) : Reports(results[i]) /\ results[i].seq = durable + 1
    BY <1>4 DEF ReportedIn
  <2>2. ASSUME 1 < i PROVE FALSE
    <3>1. Reports(results[1]) /\ results[1].seq < results[i].seq
      BY <1>1, <2>1, <2>2 DEF ReportsInOrder, OrderedReports
    <3> QED
      BY <1>1, <1>2, <2>1, <3>1
  <2>3. i = 1
    BY <1>1, <2>2
  <2> QED
    BY <1>1, <2>1, <2>3
<1>5. CASE ReportedIn(out, durable + 1)
  <2>1. PICK j \in 1 .. Len(out) : Reports(out[j]) /\ out[j].seq = durable + 1
    BY <1>5 DEF ReportedIn
  <2>2. Answer.seq < durable + 1
    BY <1>1, <2>1 DEF ReportsInOrder
  <2> QED
    BY <1>1, <1>2, <2>2
<1> QED
  BY <1>3, <1>4, <1>5 DEF ReportsInOrder

\* The owner takes the oldest answer and moves `durable` with it.
LEMMA DrainOrder ==
    ASSUME AckInv, ReportsInOrder, results # <<>>, results' = Tail(results),
           UNCHANGED <<out, log>>, Len(mem') \in Nat, Len(mem) <= Len(mem'),
           durable' = IF Reports(Answer) THEN durable + 1 ELSE durable
    PROVE  ReportsInOrder'
<1>1. /\ results \in Seq(Results) /\ out \in Seq(Results) /\ durable \in Nat
      /\ Len(log) \in Nat /\ Len(mem) \in Nat
  BY MemberOfCommits DEF AckInv
<1>2. /\ Answer = results[1] /\ 1 \in 1 .. Len(results)
      /\ Len(results') = Len(results) - 1 /\ Len(results) \in Nat
      /\ \A i \in 1 .. Len(results') : i + 1 \in 1 .. Len(results)
                                         /\ results'[i] = results[i + 1]
  BY <1>1 DEF Answer
<1>3. /\ \A i \in 1 .. Len(results) : results[i].seq \in Nat
      /\ \A i \in 1 .. Len(out) : out[i].seq \in Nat
  <2>1. /\ \A i \in 1 .. Len(results) : results[i] \in Results
        /\ \A i \in 1 .. Len(out) : out[i] \in Results
    BY <1>1
  <2> QED
    BY <2>1, ResultParts
<1>4. OrderedReports(results')
  BY <1>1, <1>2 DEF ReportsInOrder, OrderedReports
<1>5. \A i \in 1 .. Len(results'), j \in 1 .. Len(out) :
        Reports(results'[i]) /\ Reports(out[j]) => results'[i].seq < out[j].seq
  BY <1>2 DEF ReportsInOrder
<1>6. ASSUME NEW i \in 1 .. Len(results'), Reports(results'[i])
      PROVE  durable' < results'[i].seq
                /\ (results'[i].kind = "Sequenced" => results'[i].seq <= Len(mem'))
  <2>1. /\ i + 1 \in 1 .. Len(results) /\ Reports(results[i + 1])
        /\ results'[i] = results[i + 1] /\ 1 < i + 1
    BY <1>2, <1>6
  <2>2. /\ durable < results[i + 1].seq
        /\ results[i + 1].kind = "Sequenced" => results[i + 1].seq <= Len(mem)
    BY <2>1 DEF ReportsInOrder, ReportsBounded
  <2>3. Reports(Answer) => durable + 1 < results[i + 1].seq
    BY <1>1, <1>2, <2>1, HeadIsNext DEF ReportsInOrder, OrderedReports
  <2> QED
    BY <1>1, <1>3, <2>1, <2>2, <2>3
<1>7. ASSUME NEW j \in 1 .. Len(out), Reports(out[j])
      PROVE  durable' < out[j].seq /\ (out[j].kind = "Sequenced" => out[j].seq <= Len(mem'))
  <2>1. /\ durable < out[j].seq
        /\ out[j].kind = "Sequenced" => out[j].seq <= Len(mem)
    BY <1>7 DEF ReportsInOrder, ReportsBounded
  <2>2. Reports(Answer) => durable + 1 < out[j].seq
    BY <1>2, <1>7, HeadIsNext DEF ReportsInOrder
  <2> QED
    BY <1>1, <1>3, <2>1, <2>2
<1>8. ASSUME NEW n \in (durable' + 1) .. Len(log)
      PROVE  ReportedIn(results', n) \/ ReportedIn(out, n)
  <2>1. n \in (durable + 1) .. Len(log) /\ (Reports(Answer) => n # durable + 1)
    BY <1>1
  <2>2. CASE ReportedIn(results, n)
    <3>1. PICK i \in 1 .. Len(results) : Reports(results[i]) /\ results[i].seq = n
      BY <2>2 DEF ReportedIn
    <3>2. i # 1
      BY <1>2, <2>1, <3>1, HeadIsNext
    <3>3. i - 1 \in 1 .. Len(results') /\ results'[i - 1] = results[i]
      BY <1>1, <1>2, <3>2
    <3> QED
      BY <3>1, <3>3 DEF ReportedIn
  <2> QED
    BY <2>1, <2>2 DEF ReportsInOrder
<1>9. ReportsBounded(results)' /\ ReportsBounded(out)'
  BY <1>6, <1>7 DEF ReportsBounded, Reports
<1>10. OrderedReports(results)' /\ OrderedReports(out)'
  BY <1>4 DEF ReportsInOrder, OrderedReports, Reports
<1> QED
  BY <1>5, <1>8, <1>9, <1>10 DEF ReportsInOrder, ReportedIn, Reports

\* The lane's answer is the only one in its hand.
LEMMA AnswerOrder ==
    ASSUME AckInv, ReportsInOrder, out = <<>>, out' \in Seq(Results),
           UNCHANGED <<mem, durable, results>>,
           \/ /\ log' = log
              /\ \A i \in 1 .. Len(out') : ~Reports(out'[i])
           \/ /\ Len(log') = Len(log) + 1 /\ Len(out') >= 1
              /\ Reports(out'[1]) /\ out'[1].seq = Len(log) + 1
              /\ out'[1].kind = "Sequenced" => Len(log) + 1 <= Len(mem)
              /\ \A i \in 1 .. Len(out') : Reports(out'[i]) => i = 1
    PROVE  ReportsInOrder'
<1>1. /\ results \in Seq(Results) /\ durable \in Nat
      /\ Len(log) \in Nat /\ Len(mem) \in Nat /\ durable <= Len(log) /\ Len(out') \in Nat
  BY MemberOfCommits DEF AckInv, AcknowledgedIsStored
<1>2. \A i \in 1 .. Len(results) :
        /\ results[i].seq \in Nat
        /\ Reports(results[i]) => results[i].seq <= Len(log)
  <2>1. \A i \in 1 .. Len(results) : results[i] \in Results
    BY <1>1
  <2> QED
    BY <2>1, ResultParts DEF AckInv, HonestAnswers
<1>3. \A n : ~ReportedIn(out, n)
  BY DEF ReportedIn
<1>4. OrderedReports(out)'
  <2>1. \A i, j \in 1 .. Len(out') : Reports(out'[i]) /\ Reports(out'[j]) => i = j
    BY <1>1
  <2> QED
    BY <1>1, <2>1 DEF OrderedReports, Reports
<1>5. ReportsBounded(results)' /\ OrderedReports(results)'
  BY DEF ReportsInOrder, ReportsBounded, OrderedReports, Reports
<1>6. ReportsBounded(out)'
  <2>1. ASSUME NEW i \in 1 .. Len(out'), Reports(out'[i])
        PROVE  durable < out'[i].seq
                 /\ (out'[i].kind = "Sequenced" => out'[i].seq <= Len(mem))
    <3>1. i = 1
      BY <2>1
    <3> QED
      BY <1>1, <2>1, <3>1
  <2> QED
    BY <2>1 DEF ReportsBounded, Reports
<1>7. \A i \in 1 .. Len(results), j \in 1 .. Len(out') :
        Reports(results[i]) /\ Reports(out'[j]) => results[i].seq < out'[j].seq
  BY <1>1, <1>2
<1>8. ASSUME NEW n \in (durable + 1) .. Len(log')
      PROVE  ReportedIn(results, n) \/ ReportedIn(out', n)
  <2>1. CASE n \in (durable + 1) .. Len(log)
    BY <1>3, <2>1 DEF ReportsInOrder
  <2>2. CASE n \notin (durable + 1) .. Len(log)
    <3>1. Len(log') = Len(log) + 1
      BY <1>1, <2>2
    <3>2. n = Len(log) + 1
      BY <1>1, <2>2, <3>1
    <3>3. 1 \in 1 .. Len(out') /\ Reports(out'[1]) /\ out'[1].seq = n
      BY <1>1, <3>1, <3>2
    <3> QED
      BY <3>3 DEF ReportedIn
  <2> QED
    BY <2>1, <2>2
<1> QED
  BY <1>4, <1>5, <1>6, <1>7, <1>8 DEF ReportsInOrder, ReportedIn, Reports

\* An answer sent keeps its place in the line.
LEMMA SendOrder ==
    ASSUME TypeOK, ReportsInOrder, out # <<>>, out' = Tail(out),
           results' = Append(results, Head(out)), UNCHANGED <<mem, durable, log>>
    PROVE  ReportsInOrder'
<1>1. /\ results \in Seq(Results) /\ out \in Seq(Results) /\ durable \in Nat
      /\ Len(log) \in Nat /\ Len(mem) \in Nat
  BY MemberOfCommits
<1>2. /\ Len(out) \in Nat /\ 1 \in 1 .. Len(out) /\ Head(out) = out[1]
      /\ Head(out) \in Results /\ Len(out') = Len(out) - 1
      /\ \A i \in 1 .. Len(out') : i + 1 \in 1 .. Len(out) /\ out'[i] = out[i + 1]
  BY <1>1
<1>3. /\ Len(results) \in Nat /\ Len(results') = Len(results) + 1
      /\ results'[Len(results) + 1] = out[1]
      /\ \A i \in 1 .. Len(results) : results'[i] = results[i]
  BY <1>1, <1>2, AppendPart
<1>4. \A i \in 1 .. Len(results') : i \in 1 .. Len(results) \/ i = Len(results) + 1
  BY <1>3
<1>5. ASSUME NEW i \in 1 .. Len(results'), NEW j \in 1 .. Len(results'), i < j,
             Reports(results'[i]), Reports(results'[j])
      PROVE  results'[i].seq < results'[j].seq
  <2>1. i \in 1 .. Len(results)
    BY <1>3, <1>4, <1>5
  <2>2. CASE j \in 1 .. Len(results)
    BY <1>3, <1>5, <2>1, <2>2 DEF ReportsInOrder, OrderedReports
  <2>3. CASE j = Len(results) + 1
    BY <1>2, <1>3, <1>5, <2>1, <2>3 DEF ReportsInOrder
  <2> QED
    BY <1>4, <2>2, <2>3
<1>6. OrderedReports(out')
  BY <1>2 DEF ReportsInOrder, OrderedReports
<1>7. ASSUME NEW i \in 1 .. Len(results'), NEW j \in 1 .. Len(out'),
             Reports(results'[i]), Reports(out'[j])
      PROVE  results'[i].seq < out'[j].seq
  <2>1. j + 1 \in 1 .. Len(out) /\ out'[j] = out[j + 1] /\ 1 < j + 1
    BY <1>2
  <2>2. CASE i \in 1 .. Len(results)
    BY <1>3, <1>7, <2>1, <2>2 DEF ReportsInOrder
  <2>3. CASE i = Len(results) + 1
    BY <1>2, <1>3, <1>7, <2>1, <2>3 DEF ReportsInOrder, OrderedReports
  <2> QED
    BY <1>4, <2>2, <2>3
<1>8. ReportsBounded(results') /\ ReportsBounded(out')
  BY <1>2, <1>3, <1>4 DEF ReportsInOrder, ReportsBounded
<1>9. ASSUME NEW n \in (durable + 1) .. Len(log)
      PROVE  ReportedIn(results', n) \/ ReportedIn(out', n)
  <2>1. CASE ReportedIn(results, n)
    BY <1>3, <2>1 DEF ReportedIn
  <2>2. CASE ReportedIn(out, n)
    <3>1. PICK i \in 1 .. Len(out) : Reports(out[i]) /\ out[i].seq = n
      BY <2>2 DEF ReportedIn
    <3>2. CASE i = 1
      BY <1>3, <3>1, <3>2 DEF ReportedIn
    <3>3. CASE i # 1
      <4>1. i - 1 \in 1 .. Len(out') /\ out'[i - 1] = out[i]
        BY <1>2, <3>3
      <4> QED
        BY <3>1, <4>1 DEF ReportedIn
    <3> QED
      BY <3>2, <3>3
  <2> QED
    BY <2>1, <2>2 DEF ReportsInOrder
<1>10. OrderedReports(results')
  BY <1>5 DEF OrderedReports
<1> QED
  BY <1>6, <1>7, <1>8, <1>9, <1>10
     DEF ReportsInOrder, OrderedReports, ReportsBounded, ReportedIn, Reports

\* A new request takes a sequence nobody holds.
LEMMA PostHeldOnce ==
    ASSUME TypeOK, HeldMatches, HeldOnce, NEW r \in Requests,
           r.kind = "Commit" => r.seq = Len(mem) + 1 /\ Len(log) <= Len(mem),
           requests' = Append(requests, r), UNCHANGED <<retained, log>>
    PROVE  HeldOnce'
<1>1. /\ requests \in Seq(Requests) /\ Len(log) \in Nat /\ Len(mem) \in Nat
  BY MemberOfCommits
<1>2. /\ Len(requests') = Len(requests) + 1 /\ requests'[Len(requests) + 1] = r
      /\ \A i \in 1 .. Len(requests) : requests'[i] = requests[i]
      /\ Len(requests) \in Nat
  BY <1>1, AppendPart
<1>3. \A i \in 1 .. Len(requests') : i \in 1 .. Len(requests) \/ i = Len(requests) + 1
  BY <1>2
<1>4. \A i \in 1 .. Len(requests) :
        requests[i].kind = "Commit" => requests[i].seq \in 1 .. Len(mem)
  BY DEF HeldMatches
<1>5. \A x \in retained : x.seq \in 1 .. Len(mem)
  BY DEF HeldMatches
<1>6. \A i \in 1 .. Len(requests') :
        requests'[i].kind = "Commit" => Len(log) < requests'[i].seq
  BY <1>1, <1>2, <1>3 DEF HeldOnce
<1>7. \A i, j \in 1 .. Len(requests') :
        requests'[i].kind = "Commit" /\ requests'[j].kind = "Commit" /\ i # j
        => requests'[i].seq # requests'[j].seq
  BY <1>1, <1>2, <1>3, <1>4 DEF HeldOnce
<1>8. \A x \in retained, i \in 1 .. Len(requests') :
        requests'[i].kind = "Commit" => requests'[i].seq # x.seq
  BY <1>1, <1>2, <1>3, <1>5 DEF HeldOnce
<1> QED
  BY <1>6, <1>7, <1>8 DEF HeldOnce

\* Taking a request from the queue leaves the others held once.
LEMMA TailHeldOnce ==
    ASSUME TypeOK, HeldOnce, requests # <<>>, requests' = Tail(requests)
    PROVE  /\ Len(requests') \in Nat
           /\ \A i \in 1 .. Len(requests') :
                /\ requests'[i] = requests[i + 1] /\ i + 1 \in 1 .. Len(requests)
                /\ requests'[i].kind = "Commit"
                   => /\ Len(log) < requests'[i].seq
                      /\ requests[1].kind = "Commit" => requests'[i].seq # requests[1].seq
                      /\ \A r \in retained : requests'[i].seq # r.seq
           /\ \A i, j \in 1 .. Len(requests') :
                requests'[i].kind = "Commit" /\ requests'[j].kind = "Commit" /\ i # j
                => requests'[i].seq # requests'[j].seq
<1>1. requests \in Seq(Requests)
  BY MemberOfCommits
<1>2. /\ Len(requests') = Len(requests) - 1 /\ Len(requests) \in Nat
      /\ 1 \in 1 .. Len(requests)
      /\ \A i \in 1 .. Len(requests') :
           requests'[i] = requests[i + 1] /\ i + 1 \in 1 .. Len(requests) /\ i + 1 # 1
  BY <1>1
<1> QED
  BY <1>2 DEF HeldOnce

\* The store takes a batch that is held once, and it is then held no more.
LEMMA CommitHeldOnce ==
    ASSUME TypeOK, HeldOnce, NEW c \in Commits, NEW retried \in BOOLEAN,
           NEW more \in {<<>>, <<RetryFinished>>},
           Len(log) < c.seq,
           \A i \in 1 .. Len(requests') :
               requests'[i].kind = "Commit"
               => /\ Len(log) < requests'[i].seq /\ requests'[i].seq # c.seq
                  /\ requests'[i].seq \in Nat
                  /\ \A r \in retained : requests'[i].seq # r.seq,
           \A i, j \in 1 .. Len(requests') :
               requests'[i].kind = "Commit" /\ requests'[j].kind = "Commit" /\ i # j
               => requests'[i].seq # requests'[j].seq,
           Succeeds(c, retried, more) \/ Fails(c, retried, more)
    PROVE  /\ HeldOnce'
           /\ \/ /\ log' = log /\ Fails(c, retried, more)
              \/ /\ Len(log') = Len(log) + 1 /\ c.seq = Len(log) + 1
                 /\ Succeeds(c, retried, more)
<1>1. /\ Len(log) \in Nat /\ log \in Seq(Ops) /\ c.seq \in Nat /\ c.op \in Ops
      /\ \A r \in retained : r.seq \in Nat
  BY MemberOfCommits DEF Commits, TypeOK, LaneTypeOK
<1>2. CASE Succeeds(c, retried, more)
  <2>1. log' = Append(log, c.op) /\ c.seq = Len(log) + 1 /\ retained' = Forget(c.seq)
    BY <1>1, <1>2 DEF Succeeds, StoreAccepts, Replays
  <2>2. Len(log') = Len(log) + 1
    BY <1>1, <2>1, AppendPart
  <2>3. /\ \A r \in retained' : r \in retained /\ r.seq # c.seq /\ Len(log') < r.seq
        /\ \A i \in 1 .. Len(requests') :
             requests'[i].kind = "Commit" => Len(log') < requests'[i].seq
    BY <1>1, <2>1, <2>2 DEF HeldOnce, Forget
  <2>4. HeldOnce'
    BY <2>3 DEF HeldOnce
  <2> QED
    BY <1>2, <2>1, <2>2, <2>4
<1>3. CASE Fails(c, retried, more)
  <2>1. log' = log /\ \A r \in retained' : r \in retained \/ r = c
    BY <1>3 DEF Fails, StoreRejects, Forget
  <2>2. HeldOnce'
    BY <2>1 DEF HeldOnce
  <2> QED
    BY <1>3, <2>1, <2>2
<1> QED
  BY <1>2, <1>3

\* What the lane holds in its hand after a commit: one report, or none.
LEMMA CommitReports ==
    ASSUME TypeOK, NEW c \in Commits, NEW retried \in BOOLEAN,
           NEW more \in {<<>>, <<RetryFinished>>}
    PROVE  /\ Succeeds(c, retried, more)
              => /\ Len(out') >= 1 /\ Reports(out'[1]) /\ out'[1].seq = c.seq
                 /\ \A i \in 1 .. Len(out') : Reports(out'[i]) => i = 1
           /\ Fails(c, retried, more) => \A i \in 1 .. Len(out') : ~Reports(out'[i])
<1>1. ~Reports(RetryFinished)
  BY DEF Reports, RetryFinished
<1>2. ASSUME NEW a, out' = <<a>> \o more
      PROVE  /\ Len(out') >= 1 /\ out'[1] = a
             /\ \A i \in 1 .. Len(out') : i = 1 \/ out'[i] = RetryFinished
  <2>1. CASE more = <<>>
    BY <1>2, <2>1
  <2>2. CASE more = <<RetryFinished>>
    BY <1>2, <2>2
  <2> QED
    BY <2>1, <2>2
<1>3. ASSUME Succeeds(c, retried, more)
      PROVE  /\ Len(out') >= 1 /\ Reports(out'[1]) /\ out'[1].seq = c.seq
             /\ \A i \in 1 .. Len(out') : Reports(out'[i]) => i = 1
  <2> DEFINE a == Sequenced(c.seq, TRUE, "none", retried)
  <2>1. out' = <<a>> \o more
    BY <1>3 DEF Succeeds
  <2>2. Reports(a) /\ a.seq = c.seq
    BY DEF Reports, Sequenced
  <2> HIDE DEF a
  <2> QED
    BY <1>1, <1>2, <2>1, <2>2
<1>4. ASSUME Fails(c, retried, more)
      PROVE  \A i \in 1 .. Len(out') : ~Reports(out'[i])
  <2>1. PICK code : out' = <<Sequenced(c.seq, FALSE, code, retried)>> \o more
    BY <1>4 DEF Fails
  <2> DEFINE a == Sequenced(c.seq, FALSE, code, retried)
  <2>2. ~Reports(a)
    BY DEF Reports, Sequenced
  <2>3. out' = <<a>> \o more
    BY <2>1
  <2> HIDE DEF a
  <2> QED
    BY <1>1, <1>2, <2>2, <2>3
<1> QED
  BY <1>3, <1>4

LEMMA LaneCommitStatus ==
    ASSUME StatusInv, OrderInv, PrefixInv', Overtaken' = {}, LaneCommit
    PROVE  OrderInv'
<1> DEFINE c == [seq |-> Head(requests).seq, op |-> Head(requests).op]
<1>1. /\ Receive("Commit") /\ (Succeeds(c, FALSE, <<>>) \/ Fails(c, FALSE, <<>>))
      /\ UNCHANGED <<mem, durable, pending, durability, run, results>>
  BY DEF LaneCommit, ownerVars, appVars, stopVars
<1>2. AckInv /\ TypeOK /\ TypeOK' /\ HeldMatches /\ HeldOnce /\ Gapless
  BY DEF StatusInv, OrderInv, PrefixInv, AckInv
<1>3. /\ Head(requests) = requests[1] /\ 1 \in 1 .. Len(requests)
      /\ Head(requests).kind = "Commit" /\ requests # <<>> /\ requests' = Tail(requests)
      /\ out = <<>>
  BY <1>1, <1>2, ReceiveType DEF Receive, LaneIdle
<1>4. /\ c \in Commits /\ c.seq = requests[1].seq /\ Len(log) < c.seq
      /\ c.seq \in 1 .. Len(mem)
  BY <1>1, <1>2, <1>3, ReceiveType DEF Commits, HeldOnce, HeldMatches
<1> HIDE DEF c
<1>5. \A i \in 1 .. Len(requests') :
        requests'[i].kind = "Commit"
        => /\ Len(log) < requests'[i].seq /\ requests'[i].seq # c.seq
           /\ requests'[i].seq \in Nat
           /\ \A r \in retained : requests'[i].seq # r.seq
  <2>1. \A i \in 1 .. Len(requests) : requests[i].kind = "Commit" => requests[i].seq \in Nat
    BY <1>2, MemberOfCommits DEF HeldMatches
  <2>2. \A i \in 1 .. Len(requests') :
          /\ requests'[i] = requests[i + 1] /\ i + 1 \in 1 .. Len(requests)
          /\ requests'[i].kind = "Commit"
             => /\ Len(log) < requests'[i].seq
                /\ requests[1].kind = "Commit" => requests'[i].seq # requests[1].seq
                /\ \A r \in retained : requests'[i].seq # r.seq
    BY <1>2, <1>3, TailHeldOnce
  <2> QED
    BY <1>3, <1>4, <2>1, <2>2
<1>6. \A i, j \in 1 .. Len(requests') :
        requests'[i].kind = "Commit" /\ requests'[j].kind = "Commit" /\ i # j
        => requests'[i].seq # requests'[j].seq
  BY <1>2, <1>3, TailHeldOnce
<1>7. FALSE \in BOOLEAN /\ <<>> \in {<<>>, <<RetryFinished>>}
  OBVIOUS
<1>8. /\ HeldOnce'
      /\ \/ log' = log /\ Fails(c, FALSE, <<>>)
         \/ /\ Len(log') = Len(log) + 1 /\ c.seq = Len(log) + 1
            /\ Succeeds(c, FALSE, <<>>)
  BY <1>1, <1>2, <1>4, <1>5, <1>6, <1>7, CommitHeldOnce
<1>9. out' \in Seq(Results) /\ Len(mem) \in Nat /\ Len(log) \in Nat
  BY <1>2, MemberOfCommits DEF TypeOK, LaneTypeOK
<1>10. /\ Succeeds(c, FALSE, <<>>)
          => /\ Len(out') >= 1 /\ Reports(out'[1]) /\ out'[1].seq = c.seq
             /\ \A i \in 1 .. Len(out') : Reports(out'[i]) => i = 1
       /\ Fails(c, FALSE, <<>>) => \A i \in 1 .. Len(out') : ~Reports(out'[i])
  BY <1>2, <1>4, <1>7, CommitReports
<1>11. \/ /\ log' = log
          /\ \A i \in 1 .. Len(out') : ~Reports(out'[i])
       \/ /\ Len(log') = Len(log) + 1 /\ Len(out') >= 1
          /\ Reports(out'[1]) /\ out'[1].seq = Len(log) + 1
          /\ out'[1].kind = "Sequenced" => Len(log) + 1 <= Len(mem)
          /\ \A i \in 1 .. Len(out') : Reports(out'[i]) => i = 1
  <2>1. c.seq <= Len(mem)
    BY <1>4, <1>9
  <2> QED
    BY <1>8, <1>10, <2>1
<1>12. ReportsInOrder => ReportsInOrder'
  BY <1>1, <1>2, <1>3, <1>9, <1>11, AnswerOrder
<1> QED
  BY <1>1, <1>2, <1>8, <1>12 DEF OrderInv, Running

LEMMA LaneRetryNextStatus ==
    ASSUME StatusInv, OrderInv, PrefixInv', Overtaken' = {}, LaneRetryNext
    PROVE  OrderInv'
<1>1. PICK c \in retained, more \in {<<>>, <<RetryFinished>>} :
        Succeeds(c, TRUE, more) \/ Fails(c, TRUE, more)
  BY DEF LaneRetryNext
<1>2. /\ UNCHANGED <<mem, durable, pending, durability, run, results, requests>>
      /\ out = <<>>
  BY DEF LaneRetryNext, ownerVars, appVars, stopVars
<1>3. AckInv /\ TypeOK /\ TypeOK' /\ HeldMatches /\ HeldOnce /\ Gapless
  BY DEF StatusInv, OrderInv, PrefixInv, AckInv
<1>4. c \in Commits /\ Len(log) < c.seq /\ c.seq \in 1 .. Len(mem)
  BY <1>3 DEF TypeOK, LaneTypeOK, HeldOnce, HeldMatches
<1>5. /\ \A i \in 1 .. Len(requests') :
           requests'[i].kind = "Commit"
           => /\ Len(log) < requests'[i].seq /\ requests'[i].seq # c.seq
              /\ requests'[i].seq \in Nat
              /\ \A r \in retained : requests'[i].seq # r.seq
      /\ \A i, j \in 1 .. Len(requests') :
           requests'[i].kind = "Commit" /\ requests'[j].kind = "Commit" /\ i # j
           => requests'[i].seq # requests'[j].seq
  <2>1. Len(mem) \in Nat
    BY <1>3, MemberOfCommits
  <2> QED
    BY <1>2, <1>3, <2>1 DEF HeldOnce, HeldMatches
<1>6. /\ HeldOnce'
      /\ \/ log' = log /\ Fails(c, TRUE, more)
         \/ /\ Len(log') = Len(log) + 1 /\ c.seq = Len(log) + 1
            /\ Succeeds(c, TRUE, more)
  BY <1>1, <1>3, <1>4, <1>5, CommitHeldOnce
<1>7. out' \in Seq(Results) /\ Len(mem) \in Nat /\ Len(log) \in Nat
  BY <1>3, MemberOfCommits DEF TypeOK, LaneTypeOK
<1>8. /\ Succeeds(c, TRUE, more)
         => /\ Len(out') >= 1 /\ Reports(out'[1]) /\ out'[1].seq = c.seq
            /\ \A i \in 1 .. Len(out') : Reports(out'[i]) => i = 1
      /\ Fails(c, TRUE, more) => \A i \in 1 .. Len(out') : ~Reports(out'[i])
  BY <1>3, <1>4, CommitReports
<1>9. \/ /\ log' = log
         /\ \A i \in 1 .. Len(out') : ~Reports(out'[i])
      \/ /\ Len(log') = Len(log) + 1 /\ Len(out') >= 1
         /\ Reports(out'[1]) /\ out'[1].seq = Len(log) + 1
         /\ out'[1].kind = "Sequenced" => Len(log) + 1 <= Len(mem)
         /\ \A i \in 1 .. Len(out') : Reports(out'[i]) => i = 1
  <2>1. c.seq <= Len(mem)
    BY <1>3, <1>7 DEF HeldMatches
  <2> QED
    BY <1>6, <1>8, <2>1
<1>10. ReportsInOrder => ReportsInOrder'
  BY <1>2, <1>3, <1>7, <1>9, AnswerOrder
<1> QED
  BY <1>2, <1>3, <1>6, <1>10 DEF OrderInv, Running

LEMMA LaneRetryStatus ==
    ASSUME StatusInv, OrderInv, PrefixInv', Overtaken' = {}, LaneRetry
    PROVE  OrderInv'
<1>1. /\ Receive("Retry")
      /\ UNCHANGED <<mem, durable, pending, durability, run, results, retained, log>>
  BY DEF LaneRetry, ownerVars, appVars, stopVars, storeVars
<1>2. AckInv /\ TypeOK /\ TypeOK' /\ HeldOnce /\ Gapless
  BY DEF StatusInv, OrderInv, PrefixInv, AckInv
<1>3. requests # <<>> /\ requests' = Tail(requests) /\ out = <<>>
  BY <1>1 DEF Receive, LaneIdle
<1>4. HeldOnce'
  BY <1>1, <1>2, <1>3, TailHeldOnce DEF HeldOnce
<1>5. \A i \in 1 .. Len(out') : ~Reports(out'[i])
  <2> DEFINE a == Sequenced(Head(requests).seq, FALSE, "StorageFailed", TRUE)
  <2>1. ~Reports(a) /\ ~Reports(RetryFinished)
    BY DEF Reports, RetryFinished, Sequenced
  <2>2. out' = <<>> \/ out' = <<a, RetryFinished>>
    BY <1>3 DEF LaneRetry
  <2> HIDE DEF a
  <2>3. \A i \in 1 .. Len(out') : out'[i] = a \/ out'[i] = RetryFinished
    BY <2>2
  <2> QED
    BY <2>1, <2>3
<1>6. out' \in Seq(Results)
  BY <1>2 DEF TypeOK, LaneTypeOK
<1>7. ReportsInOrder => ReportsInOrder'
  BY <1>1, <1>2, <1>3, <1>5, <1>6, AnswerOrder
<1> QED
  BY <1>1, <1>2, <1>4, <1>7 DEF OrderInv, Running

LEMMA LaneSendStatus ==
    ASSUME StatusInv, OrderInv, PrefixInv', Overtaken' = {}, LaneSend
    PROVE  OrderInv'
<1>1. /\ out # <<>> /\ out' = Tail(out)
      /\ UNCHANGED <<mem, durable, pending, durability, run, requests, retained, log>>
      /\ Running => results' = Append(results, Head(out))
  BY DEF LaneSend, ownerVars, appVars, stopVars, storeVars
<1>2. TypeOK /\ HeldOnce /\ Gapless
  BY DEF StatusInv, OrderInv, PrefixInv, AckInv
<1>3. Running /\ ReportsInOrder => ReportsInOrder'
  BY <1>1, <1>2, SendOrder
<1>4. HeldOnce'
  BY <1>1, <1>2 DEF HeldOnce
<1> QED
  BY <1>1, <1>3, <1>4 DEF OrderInv, Running

\* A capture that was not overtaken is stored only when the lane holds nothing
\* else: all that was accepted before it is in the store.
LEMMA LaneCaptureStatus ==
    ASSUME StatusInv, OrderInv, PrefixInv', Overtaken' = {}, LaneCapture
    PROVE  OrderInv'
<1> DEFINE c == [seq |-> Head(requests).seq, op |-> Head(requests).op]
<1>1. /\ Receive("Capture")
      /\ UNCHANGED <<mem, durable, pending, durability, run, results, retained>>
  BY DEF LaneCapture, ownerVars, appVars, stopVars
<1>2. AckInv /\ TypeOK /\ TypeOK' /\ HeldMatches /\ HeldOnce /\ Gapless /\ CaptureInv
  BY DEF StatusInv, OrderInv, PrefixInv, AckInv
<1>3. /\ requests # <<>> /\ requests' = Tail(requests) /\ out = <<>>
      /\ Head(requests) = requests[1] /\ 1 \in 1 .. Len(requests)
      /\ Head(requests).kind = "Capture" /\ c.seq \in Nat \ {0} /\ c.op \in Ops
  BY <1>1, <1>2, ReceiveType DEF Receive, LaneIdle
<1>4. Has(requests, "Capture")
  BY <1>3 DEF Has
<1>5. save.state = "InFlight" /\ c.seq = save.seq
  BY <1>2, <1>3, <1>4 DEF CaptureInv, OneCapture, CaptureRequestNamed
<1>6. /\ c.op = save.op /\ save.op \in CaptureOps /\ Untouched
      /\ \A i \in c.seq .. Len(mem) : mem[i] \in IntentOps \cup ControlOps
  BY <1>2, <1>3, <1>4, <1>5 DEF CaptureInv, CaptureRequestNamed, TypeOK, UiTypeOK, NoSave,
                                StatusInv, PrefixInv, CaptureBarrier
<1>7. /\ log \in Seq(Ops) /\ Len(log) \in Nat /\ Len(mem) \in Nat
      /\ out' \in Seq(Results)
  BY <1>2, MemberOfCommits DEF TypeOK, LaneTypeOK
<1>8. PICK ok \in BOOLEAN, code \in {"none", "AlreadyCaptured"} :
        /\ out' = <<CaptureResult(c.seq, ok, code)>>
        /\ IF ok /\ code = "none" THEN StoreAccepts(c) ELSE log' = log
  BY DEF LaneCapture, StoreRejects
<1> DEFINE a == CaptureResult(c.seq, ok, code)
<1>9. /\ Reports(a) <=> ok /\ code = "none"
      /\ a.seq = c.seq /\ a.kind = "Capture"
  BY DEF Reports, CaptureResult
<1>10. out' = <<a>>
  BY <1>8
<1> HIDE DEF a, c
<1>11. Len(out') = 1 /\ out'[1] = a /\ \A i \in 1 .. Len(out') : i = 1
  BY <1>10
<1>12. /\ \A i \in 1 .. Len(requests') :
             requests'[i].kind = "Commit" => Len(log) < requests'[i].seq
       /\ \A i, j \in 1 .. Len(requests') :
             requests'[i].kind = "Commit" /\ requests'[j].kind = "Commit" /\ i # j
             => requests'[i].seq # requests'[j].seq
       /\ \A r \in retained, i \in 1 .. Len(requests') :
             requests'[i].kind = "Commit" => requests'[i].seq # r.seq
  BY <1>2, <1>3, TailHeldOnce
<1>13. CASE ~Reports(a)
  <2>1. log' = log
    BY <1>8, <1>9, <1>13
  <2>2. ReportsInOrder => ReportsInOrder'
    BY <1>1, <1>2, <1>3, <1>7, <1>11, <1>13, <2>1, AnswerOrder
  <2>3. HeldOnce'
    <3>1. retained' = retained /\ \A r \in retained : Len(log) < r.seq
      BY <1>1, <1>2 DEF HeldOnce
    <3> QED
      BY <1>12, <2>1, <3>1 DEF HeldOnce
  <2> QED
    BY <1>1, <1>2, <2>2, <2>3 DEF OrderInv, Running
<1>14. CASE Reports(a)
  <2>0. ASSUME NEW i \in c.seq .. Len(mem) PROVE mem[i] # c.op
    BY <1>6, <2>0, CapturesApart
  <2>1. log' = Append(log, c.op) /\ Len(log) = Len(mem) /\ c.seq = Len(log) + 1
    <3>1. StoreAccepts(c)
      BY <1>8, <1>9, <1>14
    <3>2. ASSUME Replays(c) PROVE FALSE
      <4>1. c.seq \in 1 .. Len(log) /\ c.seq <= Len(mem) /\ log[c.seq] = c.op
        BY <1>6, <1>7, <3>2 DEF Replays, Untouched
      <4>2. log[c.seq] = mem[c.seq]
        BY <1>2, <1>6, <4>1, NotOvertaken DEF Untouched
      <4>3. c.seq \in c.seq .. Len(mem)
        BY <1>3, <1>7, <4>1
      <4> QED
        BY <2>0, <4>1, <4>2, <4>3
    <3>3. c.seq = Len(log) + 1 /\ log' = Append(log, c.op)
      BY <3>1, <3>2 DEF StoreAccepts
    <3>4. ASSUME Len(log) # Len(mem) PROVE FALSE
      <4>1. c.seq <= Len(mem) /\ c.seq \in c.seq .. Len(mem)
        BY <1>3, <1>6, <1>7, <3>3, <3>4 DEF Untouched
      <4>2. Len(log') = Len(log) + 1 /\ log'[Len(log) + 1] = c.op
        BY <1>3, <1>7, <3>3, AppendPart
      <4>3. mem[c.seq] # c.op
        BY <2>0, <4>1
      <4>4. c.seq \in 1 .. Len(log')
        BY <1>7, <3>3, <4>2
      <4>5. c.seq \in Overtaken'
        BY <1>1, <3>3, <4>1, <4>2, <4>3, <4>4 DEF Overtaken
      <4> QED
        BY <4>5
    <3> QED
      BY <3>3, <3>4
  <2>2. Len(log') = Len(log) + 1
    BY <1>3, <1>7, <2>1, AppendPart
  <2>3. ReportsInOrder => ReportsInOrder'
    BY <1>1, <1>2, <1>3, <1>7, <1>9, <1>11, <1>14, <2>1, <2>2, AnswerOrder
  <2>4. /\ \A i \in 1 .. Len(requests) : requests[i].kind # "Commit"
        /\ retained = {}
    <3>1. ASSUME NEW i \in 1 .. Len(requests), requests[i].kind = "Commit" PROVE FALSE
      <4>1. requests[i].seq \in 1 .. Len(mem) /\ Len(log) < requests[i].seq
        BY <1>2, <3>1 DEF HeldOnce, HeldMatches
      <4> QED
        BY <1>7, <2>1, <4>1
    <3>2. ASSUME NEW r \in retained PROVE FALSE
      <4>1. r.seq \in 1 .. Len(mem) /\ Len(log) < r.seq
        BY <1>2 DEF HeldOnce, HeldMatches
      <4> QED
        BY <1>7, <2>1, <4>1
    <3> QED
      BY <3>1, <3>2
  <2>5. \A i \in 1 .. Len(requests') : requests'[i].kind # "Commit"
    BY <1>2, <1>3, <2>4, TailHeldOnce
  <2>6. HeldOnce'
    BY <1>1, <2>4, <2>5 DEF HeldOnce
  <2> QED
    BY <1>1, <1>2, <2>3, <2>6 DEF OrderInv, Running
<1> QED
  BY <1>13, <1>14

\* The owner's steps leave no gap in what is pending.
LEMMA QuietGapless ==
    ASSUME StatusInv, PrefixInv', QuietStep
    PROVE  Gapless' /\ Len(mem) <= Len(mem') /\ Len(mem') \in Nat
<1>1. TypeOK /\ TypeOK' /\ Gapless
  BY DEF StatusInv, PrefixInv, AckInv
<1>2. UNCHANGED durable /\ Tracks
  BY <1>1, QuietFootprint, QuietTracks
<1>3. /\ mem \in Seq(Ops) /\ mem' \in Seq(Ops) /\ Len(mem) \in Nat /\ durable \in Nat
  BY <1>1, MemberOfCommits DEF TypeOK, AppTypeOK
<1>4. CASE UNCHANGED <<mem, pending>> /\ (durability' = durability \/ durability' # Durable)
  BY <1>1, <1>2, <1>3, <1>4 DEF Gapless
<1>5. CASE /\ \E op : mem' = Append(mem, op)
           /\ pending' = pending \cup {Len(mem) + 1} /\ durability' # Durable
  <2>1. Len(mem') = Len(mem) + 1
    BY <1>3, <1>5
  <2>2. durable <= Len(mem)
    BY DEF StatusInv, PrefixInv
  <2>3. (durable + 1) .. (Len(mem) + 1) = ((durable + 1) .. Len(mem)) \cup {Len(mem) + 1}
    BY <1>3, <2>2
  <2> QED
    BY <1>1, <1>2, <1>3, <1>5, <2>1, <2>3 DEF Gapless
<1> QED
  BY <1>2, <1>4, <1>5 DEF Tracks

LEMMA QuietStatus ==
    ASSUME StatusInv, OrderInv, PrefixInv', Overtaken' = {}, QuietStep
    PROVE  OrderInv'
<1>1. /\ AckInv /\ TypeOK /\ TypeOK' /\ HeldMatches /\ HeldOnce /\ CaptureBarrier
  BY DEF StatusInv, OrderInv, PrefixInv, AckInv
<1>2. /\ UNCHANGED <<retained, out, results, log, durable>>
      /\ Keeps \/ \E op : Records(op)
  BY <1>1, QuietFootprint
<1>3. Running' => Running
  BY <1>1, QuietPosts
<1>4. Quietly
  BY <1>1, QuietBarrier
<1>5. /\ mem \in Seq(Ops) /\ mem' \in Seq(Ops) /\ Len(mem) \in Nat /\ Len(log) \in Nat
      /\ durable \in Nat /\ requests \in Seq(Requests) /\ requests' \in Seq(Requests)
      /\ log \in Seq(Ops)
  BY <1>1, MemberOfCommits DEF TypeOK, AppTypeOK, ChannelTypeOK
<1>6. Len(mem) <= Len(mem') /\ Len(mem') \in Nat
  BY QuietGapless
<1>7. HeldOnce'
  <2>1. CASE requests' = requests
    BY <1>1, <1>2, <2>1 DEF HeldOnce
  <2>2. CASE \E n : requests' = Append(requests, Request("Retry", n, NoOp))
    <3>1. PICK n : requests' = Append(requests, Request("Retry", n, NoOp))
      BY <2>2
    <3>2. Request("Retry", n, NoOp).kind = "Retry"
      BY DEF Request
    <3>3. Request("Retry", n, NoOp) \in Requests
      <4>1. /\ requests'[Len(requests) + 1] = Request("Retry", n, NoOp)
            /\ Len(requests) + 1 \in 1 .. Len(requests')
        BY <1>5, <3>1
      <4> QED
        BY <1>5, <4>1
    <3> QED
      BY <1>1, <1>2, <3>1, <3>2, <3>3, PostHeldOnce
  <2>3. CASE \E op : /\ Records(op)
                     /\ requests' = Append(requests, Request("Commit", Len(mem) + 1, op))
    <3>1. PICK op : /\ Records(op)
                    /\ requests' = Append(requests, Request("Commit", Len(mem) + 1, op))
      BY <2>3
    <3>2. ~Keeps
      BY <1>5, <3>1 DEF Keeps, Records
    <3>3. mem' # mem /\ op \in Ops /\ mem' = Append(mem, op)
      BY <1>5, <3>1 DEF Records
    <3>4. Len(log) <= Len(mem)
      <4> SUFFICES ASSUME CaptureAhead PROVE FALSE
        BY DEF StatusInv, PrefixInv, StoreIsPrefix
      <4>1. /\ Len(log) = Len(mem) + 1 /\ log[Len(mem) + 1] \in CaptureOps
            /\ save.state = "InFlight"
        BY <1>1, AheadLength DEF CaptureAhead
      <4>2. PICK x \in IntentOps \cup ControlOps : mem' = Append(mem, x)
        BY <1>4, <3>3, <4>1 DEF Quietly
      <4>3. Len(mem') = Len(mem) + 1 /\ mem'[Len(mem) + 1] = x
        <5>1. x \in Ops
          BY DEF Ops
        <5> QED
          BY <1>5, <4>2, <5>1, AppendPart
      <4>4. log[Len(mem) + 1] # x
        BY <4>1, CapturesApart
      <4>5. Len(mem) + 1 \in 1 .. Len(log')
        BY <1>2, <1>5, <4>1
      <4>6. Len(mem) + 1 \in Overtaken'
        BY <1>2, <1>6, <4>3, <4>4, <4>5 DEF Overtaken
      <4> QED
        BY <4>6
    <3>5. /\ Request("Commit", Len(mem) + 1, op) \in Requests
          /\ Request("Commit", Len(mem) + 1, op).seq = Len(mem) + 1
      BY <1>5, <3>1, RequestType DEF Records, Request
    <3> QED
      BY <1>1, <1>2, <3>1, <3>4, <3>5, PostHeldOnce
  <2> QED
    BY <1>2, <2>1, <2>2, <2>3 DEF Keeps, Records
<1>8. ReportsInOrder => ReportsInOrder'
  <2>1. ASSUME ReportsInOrder
        PROVE  ReportsBounded(results)' /\ ReportsBounded(out)'
    <3>1. /\ \A i \in 1 .. Len(results) : results[i].seq \in Nat
          /\ \A i \in 1 .. Len(out) : out[i].seq \in Nat
      <4>1. /\ \A i \in 1 .. Len(results) : results[i] \in Results
            /\ \A i \in 1 .. Len(out) : out[i] \in Results
        BY <1>1, MemberOfCommits
      <4> QED
        BY <4>1, ResultParts
    <3>2. ReportsBounded(results) /\ ReportsBounded(out)
      BY <2>1 DEF ReportsInOrder
    <3>3. ASSUME NEW n \in Nat, n <= Len(mem) PROVE n <= Len(mem')
      BY <1>5, <1>6, <3>3
    <3>4. ReportsBounded(results)'
      BY <1>2, <3>1, <3>2, <3>3 DEF ReportsBounded, Reports
    <3>5. ReportsBounded(out)'
      BY <1>2, <3>1, <3>2, <3>3 DEF ReportsBounded, Reports
    <3> QED
      BY <3>4, <3>5
  <2>2. ASSUME ReportsInOrder
        PROVE  OrderedReports(results)' /\ OrderedReports(out)'
    BY <1>2, <2>2 DEF ReportsInOrder, OrderedReports, Reports
  <2> QED
    BY <1>2, <2>1, <2>2 DEF ReportsInOrder, ReportedIn, Reports
<1> QED
  BY <1>3, <1>7, <1>8 DEF OrderInv

LEMMA ReserveStatus ==
    ASSUME StatusInv, OrderInv, NEW op \in CaptureOps,
           AdvanceCapture(op) \/ RetryCapture(op)
    PROVE  OrderInv'
<1>1. AckInv /\ TypeOK /\ HeldMatches /\ HeldOnce
  BY DEF StatusInv, OrderInv, PrefixInv, AckInv
<1>2. /\ Reserve(op) /\ Running
      /\ UNCHANGED <<retained, out, results, log, mem, durable, pending, durability>>
  BY DEF AdvanceCapture, RetryCapture, Reserve, appVars, laneVars, storeVars, TakesInput,
         Turn
<1>3. \/ requests' = requests
      \/ requests' = Append(requests, Request("Capture", Len(mem) + 1, op))
  BY <1>2 DEF Reserve, Post, NextSequence
<1>4. /\ Request("Capture", Len(mem) + 1, op) \in Requests
      /\ Request("Capture", Len(mem) + 1, op).kind = "Capture"
  <2>1. Len(mem) + 1 \in Nat \ {0} /\ op \in Ops
    BY <1>1, MemberOfCommits, OpsParts
  <2> QED
    BY <2>1, RequestType DEF Request
<1>5. HeldOnce'
  <2>1. CASE requests' = requests
    BY <1>1, <1>2, <2>1 DEF HeldOnce
  <2>2. CASE requests' = Append(requests, Request("Capture", Len(mem) + 1, op))
    BY <1>1, <1>2, <1>4, <2>2, PostHeldOnce
  <2> QED
    BY <1>3, <2>1, <2>2
<1>6. ReportsInOrder'
  BY <1>2 DEF OrderInv, ReportsInOrder, OrderedReports, ReportsBounded, ReportedIn, Reports
<1> QED
  BY <1>5, <1>6 DEF OrderInv

\* An answer that reports a commit acknowledges the least pending sequence.
LEMMA DrainSequencedStatus ==
    ASSUME StatusInv, OrderInv, PrefixInv', Overtaken' = {}, DrainSequenced
    PROVE  OrderInv'
<1>1. AckInv /\ TypeOK /\ HeldOnce /\ Gapless
  BY DEF StatusInv, OrderInv, PrefixInv, AckInv
<1>2. /\ Running /\ results # <<>> /\ results' = Tail(results)
      /\ Answer.kind = "Sequenced"
      /\ UNCHANGED <<requests, retained, out, log, run>>
      /\ \/ Answer.ok /\ AcknowledgeCommitted(Answer.seq)
         \/ ~Answer.ok /\ AcknowledgeFailed(Answer.seq, Answer.code)
  BY DEF DrainSequenced, Turn, laneVars, storeVars
<1>3. ReportsInOrder
  BY <1>2 DEF OrderInv
<1>4. /\ Answer = results[1] /\ 1 \in 1 .. Len(results) /\ Answer \in Results
      /\ Len(mem) \in Nat /\ durable \in Nat /\ Len(log) \in Nat
      /\ Answer.ok => Answer.code = "none"
  BY <1>1, <1>2, AnswerType, ResultParts, MemberOfCommits
<1>5. HeldOnce'
  BY <1>1, <1>2 DEF HeldOnce
<1>6. Durable.state = "Durable" /\ Pending.state = "Pending"
      /\ \A seq, code : Failed(seq, code).state = "Failed"
  BY DEF Durable, Pending, Failed
<1>7. CASE Answer.ok
  <2>1. Reports(Answer)
    BY <1>2, <1>4, <1>7 DEF Reports
  <2>2. Answer.seq = durable + 1 /\ Answer.seq <= Len(mem)
    BY <1>1, <1>2, <1>3, <1>4, <2>1, HeadIsNext DEF ReportsInOrder, ReportsBounded
  <2>3. Answer.seq \in pending /\ \A s \in pending : Answer.seq <= s
    BY <1>1, <1>4, <2>2 DEF Gapless
  <2>4. /\ pending' = pending \ {Answer.seq} /\ durable' = durable + 1
        /\ durability' = RefreshDurability(pending \ {Answer.seq}) /\ mem' = mem
    BY <1>2, <1>4, <1>7, <2>2, <2>3 DEF AcknowledgeCommitted
  <2>7. ReportsInOrder'
    BY <1>1, <1>2, <1>3, <1>4, <2>1, <2>4, DrainOrder
  <2> QED
    BY <1>5, <2>7 DEF OrderInv
<1>8. CASE ~Answer.ok
  <2>1. UNCHANGED <<mem, durable, pending>> /\ (durability' = durability \/ durability' # Durable)
    BY <1>2, <1>6, <1>8 DEF AcknowledgeFailed, FailureOf, appVars
  <2>2. ~Reports(Answer)
    BY <1>8 DEF Reports
  <2>3. ReportsInOrder'
    BY <1>1, <1>2, <1>3, <1>4, <2>1, <2>2, DrainOrder
  <2> QED
    BY <1>5, <2>3 DEF OrderInv
<1> QED
  BY <1>7, <1>8

LEMMA DrainRetryFinishedStatus ==
    ASSUME StatusInv, OrderInv, PrefixInv', Overtaken' = {}, DrainRetryFinished
    PROVE  OrderInv'
<1>1. AckInv /\ TypeOK /\ HeldOnce /\ Gapless
  BY DEF StatusInv, OrderInv, PrefixInv, AckInv
<1>2. /\ Running /\ results # <<>> /\ results' = Tail(results)
      /\ Answer.kind = "RetryFinished"
      /\ UNCHANGED <<requests, retained, out, log, mem, durable, pending, durability>>
  BY DEF DrainRetryFinished, Turn, laneVars, storeVars, appVars
<1>3. ~Reports(Answer) /\ Len(mem) \in Nat
  BY <1>1, <1>2, MemberOfCommits DEF Reports
<1>4. ReportsInOrder'
  BY <1>1, <1>2, <1>3, DrainOrder DEF OrderInv
<1> QED
  BY <1>1, <1>2, <1>4 DEF OrderInv, HeldOnce

\* A capture is shown when nothing before it is pending.
LEMMA DrainCaptureStatus ==
    ASSUME StatusInv, DrainCapture
    PROVE  Gapless' /\ (Overtaken = {} => OrderInv')
<1>1. AckInv /\ TypeOK /\ Gapless /\ CaptureInv /\ CaptureBarrier
  BY DEF StatusInv, PrefixInv, AckInv
<1>2. /\ Running /\ results # <<>> /\ results' = Tail(results) /\ Answer.kind = "Capture"
      /\ UNCHANGED <<requests, retained, out, log>>
  BY DEF DrainCapture, Turn, laneVars, storeVars
<1>3. /\ Answer = results[1] /\ 1 \in 1 .. Len(results) /\ Answer \in Results
      /\ Len(mem) \in Nat /\ durable \in Nat /\ mem \in Seq(Ops)
      /\ Answer.code \in {"none", "AlreadyCaptured"}
  BY <1>1, <1>2, AnswerType, ResultParts, MemberOfCommits
<1>4. save.state = "InFlight" /\ Answer.seq = save.seq
  BY <1>1, <1>2, <1>3 DEF CaptureInv, OneCapture, CaptureAnswerNamed, Has
<1>5. save.seq = Len(mem) + 1 => deferred = {} /\ Overtaken = {}
  BY <1>1, <1>4 DEF CaptureBarrier
<1>6. Overtaken = {} => ReportsInOrder /\ HeldOnce /\ HeldOnce'
  BY <1>1, <1>2 DEF StatusInv, OrderInv, HeldOnce
<1>7. CASE Reports(Answer) /\ save.seq = Len(mem) + 1
  <2>1. durable = Len(mem) /\ pending = {}
    <3>1. durable + 1 = Len(mem) + 1
      BY <1>1, <1>2, <1>4, <1>5, <1>6, <1>7, HeadIsNext
    <3>2. durable = Len(mem)
      BY <1>3, <3>1
    <3> QED
      BY <1>1, <1>3, <3>2 DEF Gapless
  <2>2. /\ mem' = Append(mem, save.op) /\ durable' = Len(mem) + 1 /\ pending' = pending
    BY <1>2, <1>5, <1>7 DEF DrainCapture, NextSequence, Reports
  <2>3. Len(mem') = Len(mem) + 1
    BY <1>3, <2>2
  <2>4. pending' = (durable' + 1) .. Len(mem') /\ pending' = {}
    BY <1>3, <2>1, <2>2, <2>3
  <2>5. ReportsInOrder'
    BY <1>1, <1>2, <1>3, <1>5, <1>6, <1>7, <2>1, <2>2, <2>3, DrainOrder
  <2> QED
    BY <1>5, <1>6, <1>7, <2>4, <2>5 DEF OrderInv, Gapless
<1>8. CASE ~Reports(Answer) \/ save.seq # Len(mem) + 1
  <2>1. UNCHANGED <<mem, durable, pending, durability>>
    BY <1>2, <1>3, <1>8 DEF DrainCapture, appVars, Reports, NextSequence
  <2>2. Gapless'
    BY <1>1, <2>1 DEF Gapless
  <2>3. ASSUME Overtaken = {}, Reports(Answer) PROVE FALSE
    <3>1. Answer.seq = durable + 1 /\ Answer.seq <= Len(log)
      BY <1>1, <1>2, <1>3, <1>6, <2>3, HeadIsNext DEF AckInv, HonestAnswers
    <3>2. save.seq # Len(mem) + 1 /\ save.seq <= Len(mem) + 1 /\ Len(log) \in Nat
      BY <1>1, <1>4, <1>8, <2>3, MemberOfCommits DEF CaptureBarrier
    <3>3. save.seq \in 1 .. Len(log) /\ save.seq <= Len(mem)
      BY <1>3, <1>4, <3>1, <3>2
    <3>4. log[save.seq] = mem[save.seq]
      BY <1>1, <2>3, <3>3, NotOvertaken
    <3>5. log[save.seq] = save.op /\ save.op \in CaptureOps
      BY <1>1, <1>2, <1>3, <1>4, <2>3 DEF CaptureBarrier, TrueAnswers, TrueAnswer, TypeOK,
                                          UiTypeOK, NoSave
    <3>6. mem[save.seq] \in IntentOps \cup ControlOps
      BY <1>1, <1>3, <1>4, <3>3 DEF CaptureBarrier
    <3> QED
      BY <3>4, <3>5, <3>6, CapturesApart
  <2>4. Overtaken = {} => ReportsInOrder'
    BY <1>1, <1>2, <1>3, <1>6, <2>1, <2>3, DrainOrder
  <2> QED
    BY <1>6, <2>2, <2>4 DEF OrderInv
<1> QED
  BY <1>7, <1>8

\* A receipt is taken for the least pending sequence only, so no gap opens.
LEMMA DrainSequencedGapless ==
    ASSUME StatusInv, DrainSequenced PROVE Gapless'
<1>1. TypeOK /\ Gapless
  BY DEF StatusInv, PrefixInv, AckInv
<1>2. /\ results # <<>>
      /\ \/ AcknowledgeCommitted(Answer.seq)
         \/ AcknowledgeFailed(Answer.seq, Answer.code)
  BY DEF DrainSequenced
<1>3. Len(mem) \in Nat /\ durable \in Nat /\ durable <= Len(mem)
  BY <1>1, MemberOfCommits DEF StatusInv, PrefixInv
<1>4. Durable.state = "Durable" /\ Pending.state = "Pending"
      /\ \A seq, code : Failed(seq, code).state = "Failed"
  BY DEF Durable, Pending, Failed
<1>5. CASE UNCHANGED <<mem, durable, pending>> /\ (durability' = durability \/ durability' # Durable)
  BY <1>1, <1>5 DEF Gapless
<1>6. CASE AcknowledgeFailed(Answer.seq, Answer.code)
  BY <1>4, <1>5, <1>6 DEF AcknowledgeFailed, FailureOf, appVars
<1>7. CASE AcknowledgeCommitted(Answer.seq)
  <2>1. CASE UNCHANGED appVars
    BY <1>5, <2>1 DEF appVars
  <2>2. CASE ~UNCHANGED appVars
    <3> DEFINE n == Answer.seq
    <3>1. /\ n \in pending /\ \A s \in pending : n <= s
          /\ pending' = pending \ {n} /\ durable' = IF n > durable THEN n ELSE durable
          /\ durability' = RefreshDurability(pending \ {n}) /\ mem' = mem
      BY <1>7, <2>2 DEF AcknowledgeCommitted
    <3> HIDE DEF n
    <3>2. n \in (durable + 1) .. Len(mem) /\ pending = (durable + 1) .. Len(mem)
      BY <1>1, <3>1 DEF Gapless
    <3>3. n = durable + 1
      BY <1>3, <3>1, <3>2
    <3>4. durable' = durable + 1 /\ pending' = (durable' + 1) .. Len(mem')
      BY <1>3, <3>1, <3>2, <3>3
    <3>5. durability' = Durable => pending' = {}
      BY <1>4, <3>1 DEF RefreshDurability, IsFailed
    <3> QED
      BY <3>4, <3>5 DEF Gapless
  <2> QED
    BY <2>1, <2>2
<1> QED
  BY <1>2, <1>6, <1>7

LEMMA ReopenStatus == ASSUME StatusInv, Reopen PROVE Gapless' /\ OrderInv'
<1>1. /\ mem' = log /\ log' = log /\ durable' = Len(log) /\ pending' = {}
      /\ requests' = <<>> /\ results' = <<>> /\ out' = <<>> /\ retained' = {}
  BY DEF Reopen, storeVars
<1>2. Len(log) \in Nat
  BY MemberOfCommits DEF StatusInv, PrefixInv, AckInv
<1>3. Gapless'
  BY <1>1, <1>2 DEF Gapless
<1>4. HeldOnce'
  BY <1>1 DEF HeldOnce
<1>5. (durable' + 1) .. Len(log') = {}
  BY <1>1, <1>2
<1>6. ReportsInOrder'
  BY <1>1, <1>5 DEF ReportsInOrder, OrderedReports, ReportsBounded
<1> QED
  BY <1>3, <1>4, <1>6 DEF OrderInv

LEMMA StatusInit == Init => StatusInv
<1> SUFFICES ASSUME Init PROVE StatusInv
  OBVIOUS
<1>1. /\ mem = <<>> /\ log = <<>> /\ durable = 0 /\ pending = {}
      /\ requests = <<>> /\ results = <<>> /\ out = <<>> /\ retained = {}
  BY DEF Init
<1>2. Gapless /\ HeldOnce
  BY <1>1 DEF Gapless, HeldOnce
<1>3. ReportsInOrder
  BY <1>1 DEF ReportsInOrder, OrderedReports, ReportsBounded
<1> QED
  BY <1>2, <1>3, PrefixInit DEF StatusInv, OrderInv

\* Steps that leave what the owner acknowledged and awaits alone.
LEMMA SameGapless ==
    ASSUME StatusInv, UNCHANGED <<mem, durable, pending, durability>> PROVE Gapless'
BY DEF StatusInv, Gapless

LEMMA StatusStep == ASSUME StatusInv, [Next]_vars PROVE StatusInv'
<1>1. PrefixInv /\ PrefixInv'
  BY PrefixStep DEF StatusInv
<1>2. CASE UNCHANGED vars \/ StoreHeals
  <2>1. UNCHANGED <<mem, log, durable, pending, durability, run, requests, results, out,
                    retained>>
    BY <1>2 DEF vars, StoreHeals, ownerVars, appVars, stopVars, laneVars, storeVars
  <2>2. ReportsInOrder => ReportsInOrder'
    BY <2>1 DEF ReportsInOrder, OrderedReports, ReportsBounded, ReportedIn, Reports
  <2>3. HeldOnce => HeldOnce'
    BY <2>1 DEF HeldOnce
  <2>4. Overtaken' = Overtaken
    BY <2>1, SameStore
  <2> QED
    BY <1>1, <2>1, <2>2, <2>3, <2>4, SameGapless DEF StatusInv, OrderInv, Running
<1>3. CASE QuietStep
  <2>1. Gapless'
    BY <1>1, <1>3, QuietGapless
  <2>2. Stutters \/ Accepts
    <3>1. UNCHANGED <<log, durable>> /\ (Keeps \/ \E op : Records(op))
      BY <1>1, <1>3, QuietFootprint DEF PrefixInv, AckInv
    <3> QED
      BY <3>1 DEF Stutters, Accepts, Keeps, Records
  <2>3. ASSUME Overtaken' = {} PROVE OrderInv'
    <3>1. OrderInv
      BY <1>1, <2>2, <2>3, OvertakenStays DEF StatusInv
    <3> QED
      BY <1>1, <1>3, <2>3, <3>1, QuietStatus
  <2> QED
    BY <1>1, <2>1, <2>3 DEF StatusInv
<1>4. CASE \E op \in CaptureOps : AdvanceCapture(op) \/ RetryCapture(op)
  <2>1. UNCHANGED <<mem, log, durable, pending, durability>>
    BY <1>4 DEF AdvanceCapture, RetryCapture, Reserve, appVars, storeVars
  <2>2. OrderInv => OrderInv'
    BY <1>4, ReserveStatus
  <2>3. Overtaken' = Overtaken
    BY <2>1, SameStore
  <2> QED
    BY <1>1, <2>1, <2>2, <2>3, SameGapless DEF StatusInv
<1>5. CASE DrainSequenced \/ DrainRetryFinished
  <2>1. Gapless'
    <3>1. DrainRetryFinished => UNCHANGED <<mem, durable, pending, durability>>
      BY DEF DrainRetryFinished, appVars
    <3> QED
      BY <1>5, <3>1, DrainSequencedGapless, SameGapless
  <2>2. Acknowledges
    BY <1>1, <1>5, DrainOtherPrefix
  <2>3. ASSUME Overtaken' = {} PROVE OrderInv'
    <3>1. OrderInv
      BY <1>1, <2>2, <2>3, OvertakenStays DEF StatusInv
    <3> QED
      BY <1>1, <1>5, <2>3, <3>1, DrainSequencedStatus, DrainRetryFinishedStatus
  <2> QED
    BY <1>1, <2>1, <2>3 DEF StatusInv
<1>6. CASE DrainCapture
  <2>1. Gapless' /\ (Overtaken = {} => OrderInv')
    BY <1>6, DrainCaptureStatus
  <2>2. Stutters \/ Shows
    BY <1>1, <1>6, DrainCapturePrefix DEF Stutters
  <2>3. Overtaken' = {} => OrderInv'
    BY <1>1, <2>1, <2>2, OvertakenStays
  <2> QED
    BY <1>1, <2>1, <2>3 DEF StatusInv
<1>7. CASE LaneCommit \/ LaneRetryNext \/ LaneCapture \/ LaneRetry \/ LaneSend
  <2>1. UNCHANGED <<mem, durable, pending, durability>>
    BY <1>7 DEF LaneCommit, LaneRetryNext, LaneCapture, LaneRetry, LaneSend, ownerVars,
                appVars
  <2>2. Persists \/ Captures \/ Stutters
    <3>1. LaneRetry \/ LaneSend => Stutters
      BY DEF LaneRetry, LaneSend, Stutters, ownerVars, appVars, storeVars
    <3> QED
      BY <1>1, <1>7, <3>1, LaneCommitPrefix, LaneRetryNextPrefix, LaneCapturePrefix
  <2>3. ASSUME Overtaken' = {} PROVE OrderInv'
    <3>1. OrderInv
      BY <1>1, <2>2, <2>3, OvertakenStays DEF StatusInv
    <3> QED
      BY <1>1, <1>7, <2>3, <3>1, LaneCommitStatus, LaneCaptureStatus, LaneRetryStatus,
         LaneRetryNextStatus, LaneSendStatus
  <2> QED
    BY <1>1, <2>1, <2>3, SameGapless DEF StatusInv
<1>8. CASE Reopen
  BY <1>1, <1>8, ReopenStatus DEF StatusInv
<1> QED
  BY <1>2, <1>3, <1>4, <1>5, <1>6, <1>7, <1>8, NextSplit DEF Drain

\* The pending sequences are exactly those not acknowledged, and the program
\* shows "saved" only when the store lacks nothing the owner did, for every
\* order of edits, captures, failures, retries, crashes and shutdowns.
THEOREM StatusTruthful == Spec => []TruthfulStatus
<1>1. ASSUME StatusInv PROVE TruthfulStatus
  <2>1. /\ Gapless /\ TypeOK /\ durable <= Len(log) /\ durable <= Len(mem)
        /\ StoreIsPrefix
    BY <1>1 DEF StatusInv, PrefixInv, AckInv, AcknowledgedIsStored
  <2>2. /\ log \in Seq(Ops) /\ mem \in Seq(Ops) /\ Len(log) \in Nat /\ Len(mem) \in Nat
        /\ durable \in Nat
    BY <2>1, MemberOfCommits
  <2>3. ASSUME durability = Durable PROVE log = mem \/ CaptureAhead
    <3>1. durable = Len(mem)
      <4>1. (durable + 1) .. Len(mem) = {}
        BY <2>1, <2>3 DEF Gapless
      <4>2. ~(durable + 1 <= Len(mem))
        BY <2>2, <4>1
      <4> QED
        BY <2>1, <2>2, <4>2
    <3>2. Overtaken = {}
      BY <2>1, <2>3 DEF Gapless, StoreIsPrefix
    <3>3. CASE Len(log) <= Len(mem)
      <4>1. Len(log) = Len(mem)
        BY <2>1, <2>2, <3>1, <3>3
      <4>2. \A i \in 1 .. Len(log) : log[i] = mem[i]
        BY <2>1, <2>2, <3>2, <4>1, NotOvertaken
      <4> QED
        BY <2>2, <4>1, <4>2, SeqEqual
    <3> QED
      BY <2>1, <3>3 DEF StoreIsPrefix
  <2> QED
    BY <2>1, <2>3 DEF TruthfulStatus, Gapless
<1>2. StatusInv /\ [Next]_vars => StatusInv'
  BY StatusStep
<1> QED
  BY <1>1, <1>2, StatusInit, PTL DEF Spec
=============================================================================

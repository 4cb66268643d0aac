--------------------------- MODULE AutosaveProofs ---------------------------
(***************************************************************************)
(* Theorems of module Autosave, for every set of operations, every capacity *)
(* and every retention limit: type correctness, that what was acknowledged  *)
(* is stored, that the store is a prefix of the owner's memory, and that    *)
(* Autosave implements DurableLog.                                          *)
(***************************************************************************)
EXTENDS Autosave, SequenceTheorems, TLAPS

-----------------------------------------------------------------------------
(* What the constructors of messages build.                                 *)

LEMMA RequestType ==
    ASSUME NEW seq \in Nat \ {0}, NEW op \in Ops
    PROVE  /\ Request("Commit", seq, op) \in Requests
           /\ Request("Capture", seq, op) \in Requests
BY DEF Request, Requests

LEMMA RetryType ==
    ASSUME NEW seq \in Nat \ {0}
    PROVE  Request("Retry", seq, NoOp) \in Requests
BY DEF Request, Requests

LEMMA FailedType ==
    ASSUME NEW seq \in Nat \ {0}, NEW code \in FailureCodes
    PROVE  Failed(seq, code) \in
             [state : {"Failed"}, failed : Nat \ {0}, code : FailureCodes]
BY DEF Failed

LEMMA OpsParts == /\ DirectOps \subseteq Ops /\ ControlOps \subseteq Ops
                  /\ IntentOps \subseteq Ops /\ CaptureOps \subseteq Ops
BY DEF Ops

LEMMA RefreshType ==
    ASSUME AppTypeOK, NEW pend
    PROVE  RefreshDurability(pend) \in {Durable, Pending}
          \cup [state : {"Failed"}, failed : Nat \ {0}, code : FailureCodes]
BY DEF RefreshDurability, AppTypeOK

LEMMA RecordType ==
    ASSUME TypeOK, NEW op \in Ops, NEW staged \in BOOLEAN, Record(op, staged)
    PROVE  /\ AppTypeOK'
           /\ requests' \in Seq(Requests) /\ Len(requests') <= RequestCapacity
           /\ inflight' \in Nat
           /\ run' \in {"running", "exited", "failed"}
<1> USE DEF TypeOK
<1>1. NextSequence \in Nat \ {0}
  BY DEF NextSequence, AppTypeOK
<1>2. mem' \in Seq(Ops) /\ Len(mem') = Len(mem) + 1
  BY DEF Record, AppTypeOK
<1>3. pending' = pending \cup {NextSequence}
  BY DEF Record, TrackPending
<1>4. pending' \subseteq 1 .. Len(mem') /\ deferred' \subseteq pending'
  <2>1. Len(mem) \in Nat /\ NextSequence = Len(mem) + 1
    BY DEF NextSequence, AppTypeOK
  <2>2. pending \subseteq 1 .. Len(mem) /\ deferred \subseteq pending
    BY DEF AppTypeOK
  <2>3. deferred' \in {deferred, deferred \cup {NextSequence}}
    BY DEF Record
  <2>4. \A x \in pending' : x \in 1 .. Len(mem) + 1
    BY <1>3, <2>1, <2>2
  <2>5. deferred' \subseteq pending'
    BY <1>3, <2>2, <2>3
  <2> QED
    BY <1>2, <2>4, <2>5
<1>5. durability' \in {Durable, Pending}
          \cup [state : {"Failed"}, failed : Nat \ {0}, code : FailureCodes]
  BY <1>1, RefreshType, FailedType DEF Record, TrackPending, FailureCodes
<1>6. Request("Commit", NextSequence, op) \in Requests
  BY <1>1, RequestType
<1>7. requests' \in Seq(Requests) /\ Len(requests') <= RequestCapacity
  <2>1. CASE HasRoom
    <3>1. requests' = Append(requests, Request("Commit", NextSequence, op))
      BY <2>1 DEF Record, Post
    <3> QED
      BY <1>6, <2>1, <3>1, LimitAssumption DEF HasRoom, ChannelTypeOK
  <2>2. CASE ~HasRoom
    BY <2>2 DEF Record, ChannelTypeOK
  <2> QED
    BY <2>1, <2>2
<1>8. inflight' \in Nat /\ run' \in {"running", "exited", "failed"}
  BY DEF Record, Post, StopTypeOK
<1>9. durable' \in Nat
  BY DEF Record, AppTypeOK
<1> QED
  BY <1>2, <1>4, <1>5, <1>7, <1>8, <1>9 DEF AppTypeOK

LEMMA PostType ==
    ASSUME TypeOK, HasRoom, NEW r \in Requests, Post(r)
    PROVE  /\ requests' \in Seq(Requests) /\ Len(requests') <= RequestCapacity
           /\ inflight' \in Nat
<1>1. requests \in Seq(Requests) /\ inflight \in Nat
  BY DEF TypeOK, ChannelTypeOK, StopTypeOK
<1>2. requests' = Append(requests, r) /\ inflight' = inflight + 1
  BY DEF Post
<1> QED
  BY <1>1, <1>2, LimitAssumption DEF HasRoom

LEMMA FlushAndQuitType ==
    ASSUME TypeOK, NEW skip, FlushAndQuit(skip)
    PROVE  /\ AppTypeOK' /\ draft' \in DirectOps \cup {NoOp}
           /\ requests' \in Seq(Requests) /\ Len(requests') <= RequestCapacity
           /\ inflight' \in Nat /\ quit' \in BOOLEAN
           /\ run' \in {"running", "exited", "failed"}
<1>1. CASE draft # NoOp /\ ~skip
  <2>1. draft \in Ops
    BY <1>1, OpsParts DEF TypeOK, UiTypeOK
  <2>2. Record(draft, FALSE) /\ draft' = NoOp /\ quit' = TRUE
    BY <1>1 DEF FlushAndQuit
  <2> QED
    BY <2>1, <2>2, RecordType
<1>2. CASE ~(draft # NoOp /\ ~skip)
  <2>1. quit' = (quit \/ MayQuit) /\ UNCHANGED <<appVars, draft, inflight, requests, run>>
    BY <1>2 DEF FlushAndQuit
  <2>2. (quit \/ MayQuit) \in BOOLEAN
    BY DEF MayQuit
  <2>3. AppTypeOK'
    BY <2>1 DEF TypeOK, AppTypeOK, appVars
  <2> QED
    BY <2>1, <2>2, <2>3 DEF TypeOK, UiTypeOK, StopTypeOK, ChannelTypeOK
<1> QED
  BY <1>1, <1>2

LEMMA ReserveType ==
    ASSUME TypeOK, NEW op \in CaptureOps, Reserve(op)
    PROVE  TypeOK'
<1>1. NextSequence \in Nat \ {0}
  BY DEF NextSequence, TypeOK, AppTypeOK
<1>2. save' \in [state : {"InFlight", "Ready"}, op : CaptureOps, seq : Nat \ {0}]
  BY <1>1 DEF Reserve
<1>3. Request("Capture", NextSequence, op) \in Requests
  BY <1>1, RequestType, OpsParts
<1>4. /\ requests' \in Seq(Requests) /\ Len(requests') <= RequestCapacity
      /\ inflight' \in Nat /\ run' \in {"running", "exited", "failed"}
  <2>1. CASE HasRoom
    BY <1>3, <2>1, PostType DEF Reserve, TypeOK, StopTypeOK
  <2>2. CASE ~HasRoom
    BY <2>2 DEF Reserve, TypeOK, StopTypeOK, ChannelTypeOK
  <2> QED
    BY <2>1, <2>2
<1>5. UiTypeOK'
  BY <1>2, OpsParts DEF Reserve, TypeOK, UiTypeOK
<1>6. AppTypeOK' /\ LaneTypeOK' /\ StoreTypeOK'
  BY DEF Reserve, appVars, laneVars, storeVars, TypeOK, AppTypeOK, LaneTypeOK,
         StoreTypeOK
<1>7. StopTypeOK' /\ ChannelTypeOK'
  BY <1>4 DEF Reserve, TypeOK, StopTypeOK, ChannelTypeOK
<1> QED
  BY <1>5, <1>6, <1>7 DEF TypeOK

-----------------------------------------------------------------------------
(* Types, action by action.                                                 *)

LEMMA InputType ==
    ASSUME TypeOK, NEW op \in Ops,
           \/ op \in DirectOps /\ (Type(op) \/ DeferInput(op))
           \/ op \in IntentOps /\ BeginIntent(op)
           \/ op \in ControlOps /\ QueueLookup(op)
    PROVE  TypeOK'
<1>1. UiTypeOK'
  BY DEF TypeOK, UiTypeOK, Type, DeferInput, BeginIntent, QueueLookup
<1>2. AppTypeOK' /\ LaneTypeOK' /\ StoreTypeOK' /\ StopTypeOK' /\ ChannelTypeOK'
  BY DEF Type, DeferInput, BeginIntent, QueueLookup, appVars, laneVars, storeVars, stopVars,
         TypeOK, AppTypeOK, LaneTypeOK, StoreTypeOK, StopTypeOK, ChannelTypeOK
<1> QED
  BY <1>1, <1>2 DEF TypeOK

LEMMA FlushType == ASSUME TypeOK, Flush PROVE TypeOK'
<1>1. draft \in Ops /\ Record(draft, FALSE)
  BY OpsParts DEF Flush, TypeOK, UiTypeOK
<1>2. /\ AppTypeOK' /\ inflight' \in Nat /\ run' \in {"running", "exited", "failed"}
      /\ requests' \in Seq(Requests) /\ Len(requests') <= RequestCapacity
  BY <1>1, RecordType
<1>3. UiTypeOK' /\ LaneTypeOK' /\ StoreTypeOK'
  BY DEF Flush, laneVars, storeVars, TypeOK, UiTypeOK, LaneTypeOK, StoreTypeOK
<1>4. StopTypeOK' /\ ChannelTypeOK'
  BY <1>2 DEF Flush, TypeOK, StopTypeOK, ChannelTypeOK
<1> QED
  BY <1>2, <1>3, <1>4 DEF TypeOK

LEMMA MutateType == ASSUME TypeOK, NEW op \in DirectOps, Mutate(op) PROVE TypeOK'
<1>1. op \in Ops /\ Record(op, FALSE)
  BY OpsParts DEF Mutate
<1>2. /\ AppTypeOK' /\ inflight' \in Nat /\ run' \in {"running", "exited", "failed"}
      /\ requests' \in Seq(Requests) /\ Len(requests') <= RequestCapacity
  BY <1>1, RecordType
<1>3. UiTypeOK' /\ LaneTypeOK' /\ StoreTypeOK'
  BY <1>1 DEF Mutate, uiVars, laneVars, storeVars, TypeOK, UiTypeOK, LaneTypeOK,
              StoreTypeOK
<1>4. StopTypeOK' /\ ChannelTypeOK'
  BY <1>2 DEF Mutate, TypeOK, StopTypeOK, ChannelTypeOK
<1> QED
  BY <1>2, <1>3, <1>4 DEF TypeOK

LEMMA ReplayInputType ==
    ASSUME TypeOK, NEW op \in DirectOps, ReplayInput(op) PROVE TypeOK'
<1>1. /\ AppTypeOK' /\ inflight' \in Nat /\ run' \in {"running", "exited", "failed"}
      /\ requests' \in Seq(Requests) /\ Len(requests') <= RequestCapacity
  <2>1. CASE Record(op, FALSE)
    BY <2>1, OpsParts, RecordType
  <2>2. CASE UNCHANGED <<appVars, inflight, requests, run>>
    BY <2>2 DEF appVars, TypeOK, AppTypeOK, StopTypeOK, ChannelTypeOK
  <2> QED
    BY <2>1, <2>2 DEF ReplayInput
<1>2. UiTypeOK' /\ LaneTypeOK' /\ StoreTypeOK'
  BY DEF ReplayInput, laneVars, storeVars, TypeOK, UiTypeOK, LaneTypeOK, StoreTypeOK
<1>3. StopTypeOK' /\ ChannelTypeOK'
  BY <1>1 DEF ReplayInput, TypeOK, StopTypeOK, ChannelTypeOK
<1> QED
  BY <1>1, <1>2, <1>3 DEF TypeOK

LEMMA CompleteIntentType ==
    ASSUME TypeOK, NEW op \in IntentOps, CompleteIntent(op) PROVE TypeOK'
<1>1. /\ AppTypeOK' /\ inflight' \in Nat /\ run' \in {"running", "exited", "failed"}
      /\ requests' \in Seq(Requests) /\ Len(requests') <= RequestCapacity
  <2>1. CASE \E staged \in BOOLEAN : Record(op, staged)
    <3>1. PICK staged \in BOOLEAN : Record(op, staged)
      BY <2>1
    <3>2. op \in Ops
      BY OpsParts
    <3> QED
      BY <3>1, <3>2, RecordType
  <2>2. CASE UNCHANGED <<appVars, inflight, requests, run>>
    BY <2>2 DEF appVars, TypeOK, AppTypeOK, StopTypeOK, ChannelTypeOK
  <2> QED
    BY <2>1, <2>2 DEF CompleteIntent
<1>2. UiTypeOK' /\ LaneTypeOK' /\ StoreTypeOK'
  BY DEF CompleteIntent, laneVars, storeVars, TypeOK, UiTypeOK, LaneTypeOK,
         StoreTypeOK
<1>3. StopTypeOK' /\ ChannelTypeOK'
  BY <1>1 DEF CompleteIntent, TypeOK, StopTypeOK, ChannelTypeOK
<1> QED
  BY <1>1, <1>2, <1>3 DEF TypeOK

LEMMA CompleteLookupType ==
    ASSUME TypeOK, NEW op \in ControlOps, CompleteLookup(op) PROVE TypeOK'
<1>0. op \in Ops
  BY OpsParts
<1>1. /\ AppTypeOK' /\ inflight' \in Nat /\ run' \in {"running", "exited", "failed"}
      /\ requests' \in Seq(Requests) /\ Len(requests') <= RequestCapacity
      /\ quit' \in BOOLEAN
  <2>1. CASE Record(op, FALSE) /\ UNCHANGED quit
    BY <1>0, <2>1, RecordType DEF TypeOK, StopTypeOK
  <2>2. CASE UNCHANGED <<appVars, inflight, requests, run, quit>>
    BY <2>2 DEF appVars, TypeOK, AppTypeOK, StopTypeOK, ChannelTypeOK
  <2>3. CASE /\ mem' = Append(mem, op)
             /\ pending' = pending \cup {NextSequence}
             /\ durability' = Failed(NextSequence, "StorageFailed")
             /\ quit' = FALSE
             /\ UNCHANGED <<durable, deferred, requests, inflight, run>>
    <3>1. NextSequence = Len(mem) + 1 /\ Len(mem) \in Nat
      BY DEF NextSequence, TypeOK, AppTypeOK
    <3>2. mem' \in Seq(Ops) /\ Len(mem') = Len(mem) + 1
      BY <1>0, <2>3 DEF TypeOK, AppTypeOK
    <3>3. \A x \in pending' : x \in 1 .. Len(mem) + 1
      BY <2>3, <3>1 DEF TypeOK, AppTypeOK
    <3>4. durability' \in
            [state : {"Failed"}, failed : Nat \ {0}, code : FailureCodes]
      BY <2>3, <3>1, FailedType DEF FailureCodes
    <3>5. deferred' \subseteq pending' /\ durable' \in Nat
      BY <2>3 DEF TypeOK, AppTypeOK
    <3>6. AppTypeOK'
      BY <3>2, <3>3, <3>4, <3>5 DEF AppTypeOK
    <3> QED
      BY <2>3, <3>6 DEF TypeOK, StopTypeOK, ChannelTypeOK
  <2> QED
    BY <2>1, <2>2, <2>3 DEF CompleteLookup
<1>2. UiTypeOK' /\ StoreTypeOK'
  BY DEF CompleteLookup, storeVars, TypeOK, UiTypeOK, StoreTypeOK
<1>4. LaneTypeOK'
  <2>1. NextSequence \in Nat \ {0}
    BY DEF NextSequence, TypeOK, AppTypeOK
  <2>2. refused' = refused \/ refused' = refused \cup {NextSequence}
    BY DEF CompleteLookup
  <2>3. refused' \subseteq Nat \ {0}
    BY <2>1, <2>2 DEF TypeOK, LaneTypeOK
  <2> QED
    BY <2>3 DEF CompleteLookup, TypeOK, LaneTypeOK
<1>3. StopTypeOK' /\ ChannelTypeOK'
  BY <1>1 DEF CompleteLookup, TypeOK, StopTypeOK, ChannelTypeOK
<1> QED
  BY <1>1, <1>2, <1>3, <1>4 DEF TypeOK

LEMMA RetryPersistenceType == ASSUME TypeOK, RetryPersistence PROVE TypeOK'
<1>1. durability.failed \in Nat \ {0}
  BY DEF RetryPersistence, IsFailed, Durable, Pending, TypeOK, AppTypeOK
<1>2. Request("Retry", durability.failed, NoOp) \in Requests
  BY <1>1, RetryType
<1>3. /\ requests' \in Seq(Requests) /\ Len(requests') <= RequestCapacity
      /\ inflight' \in Nat /\ run' \in {"running", "exited", "failed"}
  <2>1. CASE HasRoom
    BY <1>2, <2>1, PostType DEF RetryPersistence, TypeOK, StopTypeOK
  <2>2. CASE ~HasRoom
    BY <2>2 DEF RetryPersistence, TypeOK, StopTypeOK, ChannelTypeOK
  <2> QED
    BY <2>1, <2>2
<1>4. AppTypeOK' /\ UiTypeOK' /\ LaneTypeOK' /\ StoreTypeOK'
  BY DEF RetryPersistence, uiVars, laneVars, storeVars, TypeOK, AppTypeOK,
         UiTypeOK, LaneTypeOK, StoreTypeOK
<1>5. StopTypeOK' /\ ChannelTypeOK'
  BY <1>3 DEF RetryPersistence, TypeOK, StopTypeOK, ChannelTypeOK
<1> QED
  BY <1>4, <1>5 DEF TypeOK

LEMMA ExportType ==
    ASSUME TypeOK, ExportRecovery \/ CompleteRecoveryExport PROVE TypeOK'
<1>1. AppTypeOK' /\ LaneTypeOK' /\ StoreTypeOK' /\ StopTypeOK' /\ ChannelTypeOK'
  BY DEF ExportRecovery, CompleteRecoveryExport, appVars, laneVars, storeVars,
         stopVars, TypeOK, AppTypeOK, LaneTypeOK, StoreTypeOK, StopTypeOK,
         ChannelTypeOK
<1>2. UiTypeOK'
  <2>1. CASE ExportRecovery
    <3>1. \A i \in 1 .. Len(mem) : mem[i] \in Ops
      BY DEF TypeOK, AppTypeOK
    <3>2. {draft} \ {NoOp} \subseteq Ops
      BY OpsParts DEF TypeOK, UiTypeOK
    <3>3. Shown \in SUBSET Ops
      BY <3>1, <3>2 DEF Shown
    <3>4. exports' \in Seq(SUBSET Ops)
      BY <2>1, <3>3 DEF ExportRecovery, TypeOK, UiTypeOK
    <3> QED
      BY <2>1, <3>4 DEF ExportRecovery, TypeOK, UiTypeOK
  <2>2. CASE CompleteRecoveryExport
    <3>1. exports' \in Seq(SUBSET Ops) /\ Head(exports) \in SUBSET Ops
      BY <2>2 DEF CompleteRecoveryExport, TypeOK, UiTypeOK
    <3>2. durability.failed \in Nat
      BY DEF TypeOK, AppTypeOK, Durable, Pending
    <3> QED
      BY <2>2, <3>1, <3>2 DEF CompleteRecoveryExport, TypeOK, UiTypeOK
  <2> QED
    BY <2>1, <2>2
<1> QED
  BY <1>1, <1>2 DEF TypeOK

LEMMA QuitType ==
    ASSUME TypeOK, Quit \/ QuitAbandoningCapture \/ Terminate \/ AbandonFailedCapture
    PROVE  TypeOK'
<1>1. /\ AppTypeOK' /\ draft' \in DirectOps \cup {NoOp}
      /\ requests' \in Seq(Requests) /\ Len(requests') <= RequestCapacity
      /\ inflight' \in Nat /\ quit' \in BOOLEAN
      /\ run' \in {"running", "exited", "failed"}
  <2>1. CASE \E skip \in BOOLEAN : FlushAndQuit(skip)
    BY <2>1, FlushAndQuitType
  <2>2. CASE UNCHANGED <<appVars, draft, inflight, requests, run, quit>>
    BY <2>2 DEF appVars, TypeOK, AppTypeOK, UiTypeOK, StopTypeOK, ChannelTypeOK
  <2>3. IsFailed \in BOOLEAN
    BY DEF IsFailed
  <2> QED
    BY <2>1, <2>2, <2>3 DEF Quit, QuitAbandoningCapture, Terminate,
       AbandonFailedCapture, AbandonAndQuit
<1>2. /\ save' \in {save, NoSave}
      /\ UNCHANGED <<intents, exports, exportedFor, exported, used, results,
                     laneVars, storeVars>>
      /\ term' \in BOOLEAN /\ deadline' \in {"unset", "armed", "expired"}
  BY DEF Quit, QuitAbandoningCapture, Terminate, AbandonFailedCapture,
         AbandonAndQuit, TypeOK, StopTypeOK
<1>3. UiTypeOK'
  BY <1>1, <1>2 DEF TypeOK, UiTypeOK
<1>4. LaneTypeOK' /\ StoreTypeOK'
  BY <1>2 DEF laneVars, storeVars, TypeOK, LaneTypeOK, StoreTypeOK
<1>5. StopTypeOK' /\ ChannelTypeOK'
  BY <1>1, <1>2 DEF TypeOK, StopTypeOK, ChannelTypeOK
<1> QED
  BY <1>1, <1>3, <1>4, <1>5 DEF TypeOK

LEMMA StopType ==
    ASSUME TypeOK, RetainFailedCapture \/ ShutdownPoll \/ DeadlineExpires
                     \/ StoreHeals
    PROVE  TypeOK'
<1>1. AppTypeOK' /\ LaneTypeOK' /\ StoreTypeOK' /\ ChannelTypeOK'
  BY DEF RetainFailedCapture, ShutdownPoll, DeadlineExpires,
         StoreHeals, ownerVars, appVars, laneVars, storeVars, TypeOK, AppTypeOK,
         LaneTypeOK, StoreTypeOK, ChannelTypeOK
<1>2. UiTypeOK'
  BY DEF RetainFailedCapture, ShutdownPoll, DeadlineExpires,
         StoreHeals, ownerVars, uiVars, TypeOK, UiTypeOK
<1>3. StopTypeOK'
  BY DEF RetainFailedCapture, ShutdownPoll, DeadlineExpires,
         StoreHeals, ownerVars, stopVars, TypeOK, StopTypeOK
<1> QED
  BY <1>1, <1>2, <1>3 DEF TypeOK

LEMMA ResultParts ==
    ASSUME NEW a \in Results
    PROVE  /\ a.seq \in Nat
           /\ a.kind = "Sequenced" /\ ~a.ok => a.code \in FailureCodes
           /\ a.kind = "Sequenced" /\ a.ok => a.code = "none"
           /\ a.kind = "Capture" => a.code \in {"none", "AlreadyCaptured"}
<1>1. CASE a \in [kind : {"Sequenced"}, seq : Nat, ok : {FALSE},
                  code : FailureCodes, retried : BOOLEAN]
  BY <1>1
<1>2. CASE a \in [kind : {"Sequenced"}, seq : Nat, ok : {TRUE},
                  code : {"none"}, retried : BOOLEAN]
  BY <1>2
<1>3. CASE a \in [kind : {"Capture"}, seq : Nat, ok : BOOLEAN,
                  code : {"none", "AlreadyCaptured"}, retried : {FALSE}]
  BY <1>3
<1>4. CASE a = RetryFinished
  BY <1>4 DEF RetryFinished
<1> QED
  BY <1>1, <1>2, <1>3, <1>4 DEF Results

LEMMA PendingType ==
    ASSUME TypeOK
    PROVE  \A x \in pending : x \in Nat \ {0} /\ x <= Len(mem)
<1>1. Len(mem) \in Nat /\ pending \subseteq 1 .. Len(mem)
  BY DEF TypeOK, AppTypeOK
<1> QED
  BY <1>1

LEMMA AnswerType ==
    ASSUME TypeOK, results # <<>>
    PROVE  /\ Answer \in Results /\ Answer = results[1]
           /\ Tail(results) \in Seq(Results) /\ Len(Tail(results)) = Len(results) - 1
           /\ 1 \in 1 .. Len(results)
           /\ Answer.kind = "Sequenced" /\ ~Answer.ok => Answer.code \in FailureCodes
<1>1. /\ Answer \in Results /\ Answer = results[1]
      /\ Tail(results) \in Seq(Results) /\ Len(Tail(results)) = Len(results) - 1
      /\ 1 \in 1 .. Len(results)
  BY DEF Answer, TypeOK, ChannelTypeOK
<1>2. Answer.kind = "Sequenced" /\ ~Answer.ok => Answer.code \in FailureCodes
  BY <1>1, ResultParts
<1> QED
  BY <1>1, <1>2

LEMMA DrainSequencedType ==
    ASSUME TypeOK, DrainSequenced
    PROVE  TypeOK'
<1>0. ~Answer.ok => Answer.code \in FailureCodes
  BY AnswerType DEF DrainSequenced
<1>1. UiTypeOK' /\ LaneTypeOK' /\ StoreTypeOK'
  BY DEF DrainSequenced, uiVars, laneVars, storeVars, TypeOK, UiTypeOK,
         LaneTypeOK, StoreTypeOK
<1>2. ChannelTypeOK'
  BY AnswerType, LimitAssumption DEF DrainSequenced, TypeOK, ChannelTypeOK
<1>3. AppTypeOK' /\ quit' \in BOOLEAN
  <2>1. CASE AcknowledgeCommitted(Answer.seq) /\ UNCHANGED quit
    <3>1. CASE Answer.seq \in pending /\ \A t \in pending : Answer.seq <= t
      <4>1. /\ pending' = pending \ {Answer.seq}
            /\ deferred' = deferred \ {Answer.seq}
            /\ durable' \in {durable, Answer.seq} /\ UNCHANGED mem
            /\ durability' = RefreshDurability(pending \ {Answer.seq})
        BY <2>1, <3>1 DEF AcknowledgeCommitted
      <4>2. Answer.seq \in Nat
        BY <3>1, PendingType
      <4>3. durability' \in {Durable, Pending}
              \cup [state : {"Failed"}, failed : Nat \ {0}, code : FailureCodes]
        BY <4>1, RefreshType DEF TypeOK
      <4> QED
        <5>1. mem' \in Seq(Ops) /\ durable' \in Nat
          BY <4>1, <4>2 DEF TypeOK, AppTypeOK
        <5>2. pending' \subseteq 1 .. Len(mem') /\ deferred' \subseteq pending'
          BY <4>1 DEF TypeOK, AppTypeOK
        <5> QED
          BY <2>1, <4>3, <5>1, <5>2 DEF TypeOK, AppTypeOK, StopTypeOK
    <3>2. CASE ~(Answer.seq \in pending /\ \A t \in pending : Answer.seq <= t)
      BY <2>1, <3>2 DEF AcknowledgeCommitted, appVars, TypeOK, AppTypeOK,
                        StopTypeOK
    <3> QED
      BY <3>1, <3>2
  <2>2. CASE ~Answer.ok /\ AcknowledgeFailed(Answer.seq, Answer.code)
    <3>1. CASE Answer.seq \in pending
      <4>1. durability' = FailureOf(Answer.seq, Answer.code) /\ quit' = FALSE
            /\ UNCHANGED <<mem, durable, pending, deferred>>
        BY <2>2, <3>1 DEF AcknowledgeFailed
      <4>2. Answer.seq \in Nat \ {0}
        BY <3>1, PendingType
      <4>3. IsFailed => durability.failed \in Nat \ {0}
        BY DEF IsFailed, Durable, Pending, TypeOK, AppTypeOK
      <4>4. durability' \in
              [state : {"Failed"}, failed : Nat \ {0}, code : FailureCodes]
        <5>1. PICK n \in Nat \ {0} : durability' = Failed(n, Answer.code)
          BY <4>1, <4>2, <4>3 DEF FailureOf
        <5> QED
          BY <1>0, <2>2, <5>1, FailedType
      <4> QED
        BY <4>1, <4>4 DEF TypeOK, AppTypeOK
    <3>2. CASE Answer.seq \notin pending
      BY <2>2, <3>2 DEF AcknowledgeFailed, appVars, TypeOK, AppTypeOK, StopTypeOK
    <3> QED
      BY <3>1, <3>2
  <2> QED
    BY <2>1, <2>2 DEF DrainSequenced
<1>4. StopTypeOK'
  BY <1>3 DEF DrainSequenced, TypeOK, StopTypeOK
<1> QED
  BY <1>1, <1>2, <1>3, <1>4 DEF TypeOK

LEMMA DrainRetryFinishedType == ASSUME TypeOK, DrainRetryFinished PROVE TypeOK'
<1>1. AppTypeOK' /\ UiTypeOK' /\ LaneTypeOK' /\ StoreTypeOK' /\ StopTypeOK'
  BY DEF DrainRetryFinished, appVars, uiVars, laneVars, storeVars, stopVars, TypeOK,
         AppTypeOK, UiTypeOK, LaneTypeOK, StoreTypeOK, StopTypeOK
<1>2. ChannelTypeOK'
  BY AnswerType, LimitAssumption DEF DrainRetryFinished, TypeOK, ChannelTypeOK
<1> QED
  BY <1>1, <1>2 DEF TypeOK

\* The answer to a capture finds it in flight: part of OneCapture.
LEMMA DrainCaptureType ==
    ASSUME TypeOK, DrainCapture, save.state = "InFlight"
    PROVE  TypeOK'
<1>1. save \in [state : {"InFlight", "Ready"}, op : CaptureOps, seq : Nat \ {0}]
  BY DEF TypeOK, UiTypeOK, NoSave
<1>2. save' \in {NoSave} \cup [state : {"InFlight", "Ready"}, op : CaptureOps,
                               seq : Nat \ {0}]
  BY <1>1 DEF DrainCapture
<1>3. UiTypeOK' /\ LaneTypeOK' /\ StoreTypeOK' /\ StopTypeOK'
  BY <1>2 DEF DrainCapture, laneVars, storeVars, stopVars, TypeOK, UiTypeOK,
              LaneTypeOK, StoreTypeOK, StopTypeOK
<1>4. ChannelTypeOK'
  BY AnswerType, LimitAssumption DEF DrainCapture, TypeOK, ChannelTypeOK
<1>5. AppTypeOK'
  <2>1. CASE UNCHANGED appVars
    BY <2>1 DEF appVars, TypeOK, AppTypeOK
  <2>2. CASE /\ mem' = Append(mem, save.op) /\ durable' = save.seq
             /\ durability' = RefreshDurability(pending)
             /\ UNCHANGED <<pending, deferred>>
    <3>1. mem' \in Seq(Ops) /\ Len(mem') = Len(mem) + 1 /\ Len(mem) \in Nat
      BY <1>1, <2>2, OpsParts DEF TypeOK, AppTypeOK
    <3>2. \A x \in pending' : x \in 1 .. Len(mem) + 1
      BY <2>2, <3>1 DEF TypeOK, AppTypeOK
    <3>3. durability' \in {Durable, Pending}
            \cup [state : {"Failed"}, failed : Nat \ {0}, code : FailureCodes]
      BY <2>2, RefreshType DEF TypeOK
    <3> QED
      BY <1>1, <2>2, <3>1, <3>2, <3>3 DEF TypeOK, AppTypeOK
  <2> QED
    BY <2>1, <2>2 DEF DrainCapture
<1> QED
  BY <1>3, <1>4, <1>5 DEF TypeOK

LEMMA SequencedType ==
    ASSUME NEW seq \in Nat, NEW retried \in BOOLEAN, NEW code \in FailureCodes
    PROVE  /\ Sequenced(seq, TRUE, "none", retried) \in Results
           /\ Sequenced(seq, FALSE, code, retried) \in Results
           /\ RetryFinished \in Results
BY DEF Sequenced, Results

LEMMA CaptureResultType ==
    ASSUME NEW seq \in Nat, NEW ok \in BOOLEAN,
           NEW code \in {"none", "AlreadyCaptured"}
    PROVE  CaptureResult(seq, ok, code) \in Results
BY DEF CaptureResult, Results

\* A step of the lane that commits one batch, alone or within a retry.
LEMMA CommitType ==
    ASSUME TypeOK, NEW c \in Commits, NEW retried \in BOOLEAN,
           NEW more \in Seq(Results),
           Succeeds(c, retried, more) \/ Fails(c, retried, more)
    PROVE  /\ retained' \subseteq Commits /\ out' \in Seq(Results)
           /\ log' \in Seq(Ops) /\ refused' \subseteq Nat \ {0}
<1>1. c.seq \in Nat \ {0} /\ c.op \in Ops
  BY DEF Commits
<1>2. retained' \subseteq Commits
  BY DEF Succeeds, Fails, Forget, TypeOK, LaneTypeOK
<1>3. out' \in Seq(Results)
  <2>1. "StorageFailed" \in FailureCodes /\ "RecoveryCapacity" \in FailureCodes
    BY DEF FailureCodes
  <2>2. \E a \in Results : out' = <<a>> \o more
    <3>1. CASE Succeeds(c, retried, more)
      BY <1>1, <2>1, <3>1, SequencedType DEF Succeeds
    <3>2. CASE Fails(c, retried, more)
      BY <1>1, <2>1, <3>2, SequencedType DEF Fails
    <3> QED
      BY <3>1, <3>2
  <2> QED
    BY <2>2
<1>4. log' \in Seq(Ops)
  <2>1. log' = log \/ log' = Append(log, c.op)
    BY DEF Succeeds, Fails, StoreAccepts, StoreRejects
  <2> QED
    BY <1>1, <2>1 DEF TypeOK, StoreTypeOK
<1>5. refused' \subseteq Nat \ {0}
  BY <1>1 DEF Succeeds, Fails, TypeOK, LaneTypeOK
<1> QED
  BY <1>2, <1>3, <1>4, <1>5

\* The request the lane takes, as a batch.
LEMMA ReceiveType ==
    ASSUME TypeOK, NEW kind, Receive(kind)
    PROVE  /\ Head(requests) \in Requests /\ Head(requests) = requests[1]
           /\ 1 \in 1 .. Len(requests) /\ Head(requests).kind = kind
           /\ Head(requests).seq \in Nat \ {0}
           /\ kind \in {"Commit", "Capture"} => Head(requests).op \in Ops
           /\ requests' = Tail(requests) /\ requests' \in Seq(Requests)
           /\ Len(requests') = Len(requests) - 1
           /\ Len(requests') <= RequestCapacity
<1>1. requests \in Seq(Requests) /\ requests # <<>> /\ requests' = Tail(requests)
  BY DEF Receive, TypeOK, ChannelTypeOK
<1>2. Head(requests) \in Requests /\ Head(requests) = requests[1]
  BY <1>1
<1>3. /\ Len(requests) \in Nat /\ Len(requests) > 0
      /\ requests' \in Seq(Requests) /\ Len(requests') = Len(requests) - 1
  BY <1>1
<1>4. Len(requests') <= RequestCapacity
  BY <1>3, LimitAssumption DEF TypeOK, ChannelTypeOK
<1>5. /\ Head(requests).seq \in Nat \ {0}
      /\ Head(requests).kind \in {"Commit", "Capture"} => Head(requests).op \in Ops
  BY <1>2 DEF Requests
<1> QED
  BY <1>1, <1>2, <1>3, <1>4, <1>5 DEF Receive

LEMMA OwnerKept ==
    ASSUME TypeOK, UNCHANGED ownerVars
    PROVE  AppTypeOK' /\ UiTypeOK' /\ StopTypeOK'
BY DEF ownerVars, appVars, uiVars, stopVars, TypeOK, AppTypeOK, UiTypeOK, StopTypeOK

LEMMA LaneCommitType ==
    ASSUME TypeOK, LaneCommit PROVE TypeOK'
<1> DEFINE c == [seq |-> Head(requests).seq, op |-> Head(requests).op]
<1>1. Receive("Commit") /\ (Succeeds(c, FALSE, <<>>) \/ Fails(c, FALSE, <<>>))
      /\ UNCHANGED <<ownerVars, results, retrying, todo, faulty>>
  BY DEF LaneCommit
<1>2. c \in Commits /\ <<>> \in Seq(Results)
  BY <1>1, ReceiveType DEF Commits
<1> HIDE DEF c
<1>3. /\ retained' \subseteq Commits /\ out' \in Seq(Results) /\ log' \in Seq(Ops)
      /\ refused' \subseteq Nat \ {0}
  BY <1>1, <1>2, CommitType
<1>4. AppTypeOK' /\ UiTypeOK' /\ StopTypeOK'
  BY <1>1, OwnerKept
<1>5. ChannelTypeOK'
  BY <1>1, ReceiveType DEF TypeOK, ChannelTypeOK
<1>6. LaneTypeOK' /\ StoreTypeOK'
  BY <1>1, <1>3 DEF TypeOK, LaneTypeOK, StoreTypeOK
<1> QED
  BY <1>4, <1>5, <1>6 DEF TypeOK

LEMMA LaneCaptureType ==
    ASSUME TypeOK, LaneCapture PROVE TypeOK'
<1> DEFINE c == [seq |-> Head(requests).seq, op |-> Head(requests).op]
<1>1. /\ Receive("Capture")
      /\ \/ StoreAccepts(c) /\ out' = <<CaptureResult(c.seq, TRUE, "none")>>
         \/ StoreRejects(c) /\ out' = <<CaptureResult(c.seq, FALSE, "none")>>
         \/ /\ UNCHANGED log
            /\ out' = <<CaptureResult(c.seq, TRUE, "AlreadyCaptured")>>
      /\ UNCHANGED <<ownerVars, results, retained, retrying, todo, refused, faulty>>
  BY DEF LaneCapture
<1>2. c.seq \in Nat /\ c.op \in Ops
  BY <1>1, ReceiveType
<1> HIDE DEF c
<1>3. \E a \in Results : out' = <<a>>
  BY <1>1, <1>2, CaptureResultType
<1>4. log' = log \/ log' = Append(log, c.op)
  BY <1>1 DEF StoreAccepts, StoreRejects
<1>5. AppTypeOK' /\ UiTypeOK' /\ StopTypeOK'
  BY <1>1, OwnerKept
<1>6. ChannelTypeOK'
  BY <1>1, ReceiveType DEF TypeOK, ChannelTypeOK
<1>7. LaneTypeOK'
  BY <1>1, <1>3 DEF TypeOK, LaneTypeOK
<1>8. StoreTypeOK'
  BY <1>1, <1>2, <1>4 DEF TypeOK, StoreTypeOK
<1> QED
  BY <1>5, <1>6, <1>7, <1>8 DEF TypeOK

LEMMA LaneRetryType == ASSUME TypeOK, LaneRetry PROVE TypeOK'
<1>1. /\ Receive("Retry")
      /\ UNCHANGED <<ownerVars, results, retained, refused, storeVars>>
  BY DEF LaneRetry
<1>2. Head(requests).seq \in Nat
  BY <1>1, ReceiveType
<1>3. AppTypeOK' /\ UiTypeOK' /\ StopTypeOK'
  BY <1>1, OwnerKept
<1>4. ChannelTypeOK' /\ StoreTypeOK'
  BY <1>1, ReceiveType DEF storeVars, TypeOK, ChannelTypeOK, StoreTypeOK
<1>5. retrying' \in BOOLEAN /\ todo' \subseteq Nat \ {0}
  <2>1. {r.seq : r \in {x \in retained : x.seq >= Head(requests).seq}}
          \subseteq Nat \ {0}
    BY DEF TypeOK, LaneTypeOK, Commits
  <2> QED
    BY <2>1 DEF LaneRetry, TypeOK, LaneTypeOK
<1>6. out' \in Seq(Results)
  <2>1. CASE UNCHANGED out
    BY <2>1 DEF TypeOK, LaneTypeOK
  <2>2. CASE out' = <<Sequenced(Head(requests).seq, FALSE, "StorageFailed", TRUE),
                      RetryFinished>>
    <3>1. /\ Sequenced(Head(requests).seq, FALSE, "StorageFailed", TRUE) \in Results
          /\ RetryFinished \in Results
      BY <1>2, SequencedType DEF FailureCodes
    <3> DEFINE a == Sequenced(Head(requests).seq, FALSE, "StorageFailed", TRUE)
               b == RetryFinished
    <3>2. a \in Results /\ b \in Results /\ out' = <<a, b>>
      BY <2>2, <3>1
    <3> HIDE DEF a, b
    <3> QED
      BY <3>2
  <2> QED
    BY <2>1, <2>2 DEF LaneRetry
<1>7. LaneTypeOK'
  BY <1>1, <1>5, <1>6 DEF TypeOK, LaneTypeOK
<1> QED
  BY <1>3, <1>4, <1>7 DEF TypeOK

LEMMA LaneRetryNextType == ASSUME TypeOK, LaneRetryNext PROVE TypeOK'
<1>1. PICK c \in retained :
        \/ /\ Succeeds(c, TRUE, <<>>)
           /\ todo' = todo \ {c.seq} /\ UNCHANGED retrying
        \/ /\ Succeeds(c, TRUE, <<RetryFinished>>) \/ Fails(c, TRUE, <<RetryFinished>>)
           /\ todo' = {} /\ retrying' = FALSE
  BY DEF LaneRetryNext
<1>2. UNCHANGED <<ownerVars, requests, results, faulty>>
  BY DEF LaneRetryNext
<1>3. c \in Commits /\ <<>> \in Seq(Results) /\ <<RetryFinished>> \in Seq(Results)
  BY DEF TypeOK, LaneTypeOK, Results
<1>4. /\ retained' \subseteq Commits /\ out' \in Seq(Results) /\ log' \in Seq(Ops)
      /\ refused' \subseteq Nat \ {0}
  BY <1>1, <1>3, CommitType
<1>5. AppTypeOK' /\ UiTypeOK' /\ StopTypeOK'
  BY <1>2, OwnerKept
<1>6. ChannelTypeOK' /\ StoreTypeOK'
  BY <1>2, <1>4 DEF TypeOK, ChannelTypeOK, StoreTypeOK
<1>7. LaneTypeOK'
  BY <1>1, <1>4 DEF TypeOK, LaneTypeOK
<1> QED
  BY <1>5, <1>6, <1>7 DEF TypeOK

LEMMA LaneSendType == ASSUME TypeOK, LaneSend PROVE TypeOK'
<1>1. UNCHANGED <<ownerVars, requests, retained, retrying, todo, refused, storeVars>>
  BY DEF LaneSend
<1>2. AppTypeOK' /\ UiTypeOK' /\ StopTypeOK'
  BY <1>1, OwnerKept
<1>3. out' \in Seq(Results) /\ Head(out) \in Results
  BY DEF LaneSend, TypeOK, LaneTypeOK
<1>4. results' \in Seq(Results) /\ Len(results') <= ResultCapacity
  <2>1. CASE UNCHANGED results
    BY <2>1 DEF TypeOK, ChannelTypeOK
  <2>2. CASE Len(results) < ResultCapacity /\ results' = Append(results, Head(out))
    BY <1>3, <2>2, LimitAssumption DEF TypeOK, ChannelTypeOK
  <2> QED
    BY <2>1, <2>2 DEF LaneSend
<1>5. LaneTypeOK' /\ StoreTypeOK' /\ ChannelTypeOK'
  BY <1>1, <1>3, <1>4 DEF storeVars, TypeOK, LaneTypeOK, StoreTypeOK, ChannelTypeOK
<1> QED
  BY <1>2, <1>5 DEF TypeOK

LEMMA ReopenType == ASSUME TypeOK, Reopen PROVE TypeOK'
<1>1. AppTypeOK'
  BY DEF Reopen, TypeOK, StoreTypeOK, AppTypeOK
<1>2. StopTypeOK' /\ StoreTypeOK'
  BY DEF Reopen, storeVars, TypeOK, StopTypeOK, StoreTypeOK
<1>3. UiTypeOK'
  <2>1. <<>> \in Seq(SUBSET Ops)
    OBVIOUS
  <2> QED
    BY <2>1 DEF Reopen, TypeOK, UiTypeOK
<1>4. ChannelTypeOK' /\ LaneTypeOK'
  <2>1. /\ requests' = <<>> /\ results' = <<>> /\ out' = <<>>
        /\ retained' = {} /\ retrying' = FALSE /\ todo' = {} /\ refused' = {}
    BY DEF Reopen
  <2>2. ChannelTypeOK'
    BY <2>1, LimitAssumption DEF ChannelTypeOK
  <2>3. LaneTypeOK'
    <3>1. <<>> \in Seq(Results) /\ FALSE \in BOOLEAN
      OBVIOUS
    <3> QED
      BY <2>1, <3>1 DEF LaneTypeOK
  <2> QED
    BY <2>2, <2>3
<1> QED
  BY <1>1, <1>2, <1>3, <1>4 DEF TypeOK

-----------------------------------------------------------------------------
(* How appending to a channel and taking from it move the one capture.      *)

LEMMA AppendOther ==
    ASSUME NEW S, NEW s \in Seq(S), NEW x, x.kind # "Capture"
    PROVE  /\ Has(Append(s, x), "Capture") <=> Has(s, "Capture")
           /\ AtMostOne(s, "Capture") => AtMostOne(Append(s, x), "Capture")
BY DEF Has, AtMostOne

LEMMA AppendCapture ==
    ASSUME NEW S, NEW s \in Seq(S), NEW x, ~Has(s, "Capture")
    PROVE  AtMostOne(Append(s, x), "Capture")
BY DEF Has, AtMostOne

LEMMA TailOther ==
    ASSUME NEW S, NEW s \in Seq(S), s # <<>>
    PROVE  /\ Has(Tail(s), "Capture") => Has(s, "Capture")
           /\ AtMostOne(s, "Capture") => AtMostOne(Tail(s), "Capture")
<1>1. /\ Len(Tail(s)) = Len(s) - 1 /\ Len(s) \in Nat
      /\ \A i \in 1 .. Len(s) - 1 : Tail(s)[i] = s[i + 1]
  OBVIOUS
<1>2. ASSUME NEW i \in 1 .. Len(Tail(s))
      PROVE  i + 1 \in 1 .. Len(s) /\ Tail(s)[i] = s[i + 1] /\ i \in Int
  BY <1>1
<1>3. Has(Tail(s), "Capture") => Has(s, "Capture")
  BY <1>2 DEF Has
<1>4. ASSUME AtMostOne(s, "Capture"), NEW i \in 1 .. Len(Tail(s)),
             NEW j \in 1 .. Len(Tail(s)),
             Tail(s)[i].kind = "Capture", Tail(s)[j].kind = "Capture"
      PROVE  i = j
  <2>1. i + 1 = j + 1
    BY <1>2, <1>4 DEF AtMostOne
  <2> QED
    BY <1>2, <2>1
<1> QED
  BY <1>3, <1>4 DEF AtMostOne

LEMMA TailCapture ==
    ASSUME NEW S, NEW s \in Seq(S), s # <<>>, Head(s).kind = "Capture",
           AtMostOne(s, "Capture")
    PROVE  ~Has(Tail(s), "Capture")
<1>1. /\ Len(Tail(s)) = Len(s) - 1 /\ Len(s) \in Nat /\ Len(s) >= 1
      /\ \A i \in 1 .. Len(s) - 1 : Tail(s)[i] = s[i + 1]
      /\ Head(s) = s[1]
  OBVIOUS
<1>2. ASSUME NEW i \in 1 .. Len(Tail(s)), Tail(s)[i].kind = "Capture"
      PROVE  FALSE
  <2>1. i \in Int /\ i >= 1 /\ i + 1 \in 1 .. Len(s) /\ s[i + 1].kind = "Capture"
    BY <1>1, <1>2
  <2>2. 1 \in 1 .. Len(s) /\ s[1].kind = "Capture"
    BY <1>1
  <2>3. i + 1 = 1
    BY <2>1, <2>2 DEF AtMostOne
  <2> QED
    BY <2>1, <2>3
<1> QED
  BY <1>2 DEF Has

\* The channels stay and the capture in flight, if any, stays.
LEMMA SameChannels ==
    ASSUME CaptureInv, UNCHANGED <<requests, out, results>>,
           save' = save \/ save.state # "InFlight"
    PROVE  CaptureInv'
<1>1. CASE save' = save
  BY <1>1 DEF CaptureInv, OneCapture, CaptureRequestNamed, CaptureAnswerNamed, Has,
              AtMostOne
<1>2. CASE save.state # "InFlight"
  <2>1. ~Has(requests, "Capture") /\ ~Has(out, "Capture") /\ ~Has(results, "Capture")
    BY <1>2 DEF CaptureInv, OneCapture
  <2>2. ~Has(requests, "Capture")' /\ ~Has(out, "Capture")' /\ ~Has(results, "Capture")'
    BY <2>1 DEF Has
  <2> QED
    BY <2>2 DEF CaptureInv, OneCapture, CaptureRequestNamed, CaptureAnswerNamed, Has,
                AtMostOne
<1> QED
  BY <1>1, <1>2

\* A commit or a retry is posted.
LEMMA PostOther ==
    ASSUME TypeOK, CaptureInv, UNCHANGED <<out, results>>,
           NEW r, r.kind # "Capture", requests' = Append(requests, r),
           save' = save \/ save.state # "InFlight"
    PROVE  CaptureInv'
<1>1. requests \in Seq(Requests)
  BY DEF TypeOK, ChannelTypeOK
<1>2. /\ Has(requests, "Capture")' <=> Has(requests, "Capture")
      /\ AtMostOne(requests, "Capture")'
      /\ Has(out, "Capture")' <=> Has(out, "Capture")
      /\ Has(results, "Capture")' <=> Has(results, "Capture")
      /\ AtMostOne(out, "Capture")' /\ AtMostOne(results, "Capture")'
  <2>1. /\ Has(requests', "Capture") <=> Has(requests, "Capture")
        /\ AtMostOne(requests', "Capture")
    BY <1>1, AppendOther DEF CaptureInv, OneCapture
  <2> QED
    BY <2>1 DEF Has, AtMostOne, CaptureInv, OneCapture
<1>3. CASE save.state # "InFlight"
  <2>1. ~Has(requests, "Capture")' /\ ~Has(out, "Capture")' /\ ~Has(results, "Capture")'
    BY <1>2, <1>3 DEF CaptureInv, OneCapture
  <2> QED
    BY <2>1 DEF CaptureInv, OneCapture, CaptureRequestNamed, CaptureAnswerNamed, Has,
                AtMostOne
<1>4. CASE save' = save
  <2>1. OneCapture'
    BY <1>2, <1>4 DEF CaptureInv, OneCapture
  <2>2. CaptureRequestNamed'
    <3>1. ASSUME NEW i \in 1 .. Len(requests'), requests'[i].kind = "Capture"
          PROVE  i \in 1 .. Len(requests) /\ requests'[i] = requests[i]
      BY <1>1, <3>1
    <3> QED
      BY <1>4, <3>1 DEF CaptureInv, CaptureRequestNamed
  <2>3. CaptureAnswerNamed(out)' /\ CaptureAnswerNamed(results)'
    BY <1>4 DEF CaptureInv, CaptureAnswerNamed
  <2> QED
    BY <2>1, <2>2, <2>3 DEF CaptureInv
<1> QED
  BY <1>3, <1>4

\* No channel holds a capture any more, or yet.
LEMMA NoCapture ==
    ASSUME ~Has(requests, "Capture")', ~Has(out, "Capture")',
           ~Has(results, "Capture")'
    PROVE  CaptureInv'
BY DEF CaptureInv, OneCapture, CaptureRequestNamed, CaptureAnswerNamed, Has, AtMostOne

LEMMA ReserveCapture ==
    ASSUME TypeOK, CaptureInv, save.state # "InFlight", NEW op, Reserve(op)
    PROVE  CaptureInv'
<1>1. ~Has(requests, "Capture") /\ ~Has(out, "Capture") /\ ~Has(results, "Capture")
  BY DEF CaptureInv, OneCapture
<1>2. UNCHANGED <<out, results>>
  BY DEF Reserve, laneVars
<1>3. CASE ~HasRoom
  BY <1>2, <1>3, SameChannels DEF Reserve
<1>4. CASE HasRoom
  <2>1. /\ requests' = Append(requests, Request("Capture", NextSequence, op))
        /\ save' = [state |-> "InFlight", op |-> op, seq |-> NextSequence]
    BY <1>4 DEF Reserve, Post
  <2>2. requests \in Seq(Requests)
    BY DEF TypeOK, ChannelTypeOK
  <2>3. AtMostOne(requests, "Capture")'
    <3>1. AtMostOne(requests', "Capture")
      BY <1>1, <2>1, <2>2, AppendCapture
    <3> QED
      BY <3>1 DEF AtMostOne
  <2>4. ~Has(out, "Capture")' /\ ~Has(results, "Capture")'
    BY <1>1, <1>2 DEF Has
  <2>5. OneCapture' /\ CaptureAnswerNamed(out)' /\ CaptureAnswerNamed(results)'
    BY <2>1, <2>3, <2>4 DEF OneCapture, CaptureAnswerNamed, Has, AtMostOne
  <2>6. CaptureRequestNamed'
    <3>1. ASSUME NEW i \in 1 .. Len(requests'), requests'[i].kind = "Capture"
          PROVE  requests'[i] = Request("Capture", NextSequence, op)
      <4>1. i = Len(requests) + 1 \/ (i \in 1 .. Len(requests) /\ requests'[i] = requests[i])
        BY <2>1, <2>2
      <4> QED
        BY <1>1, <2>1, <2>2, <3>1, <4>1 DEF Has
    <3> QED
      BY <2>1, <3>1 DEF CaptureRequestNamed, Request
  <2> QED
    BY <2>5, <2>6 DEF CaptureInv
<1> QED
  BY <1>3, <1>4

\* The owner takes an answer.
LEMMA DrainCaptureInv ==
    ASSUME TypeOK, CaptureInv, results # <<>>, results' = Tail(results),
           UNCHANGED <<requests, out>>, Answer.kind = "Capture" \/ save' = save
    PROVE  CaptureInv'
<1>1. results \in Seq(Results) /\ out \in Seq(Results) /\ requests \in Seq(Requests)
  BY DEF TypeOK, ChannelTypeOK, LaneTypeOK
<1>2. CASE Answer.kind = "Capture"
  <2>1. Has(results, "Capture")
    BY <1>2, AnswerType DEF Has
  <2>2. ~Has(results', "Capture")
    BY <1>1, <1>2, TailCapture DEF Answer, CaptureInv, OneCapture
  <2>3. ~Has(requests, "Capture") /\ ~Has(out, "Capture")
    BY <2>1 DEF CaptureInv, OneCapture
  <2> QED
    BY <2>2, <2>3, NoCapture DEF Has
<1>3. CASE save' = save
  <2>1. /\ Has(results', "Capture") => Has(results, "Capture")
        /\ AtMostOne(results', "Capture")
    BY <1>1, TailOther DEF CaptureInv, OneCapture
  <2>2. OneCapture'
    BY <1>3, <2>1 DEF CaptureInv, OneCapture, Has, AtMostOne
  <2>3. CaptureAnswerNamed(results)'
    <3>1. ASSUME NEW i \in 1 .. Len(results')
          PROVE  i + 1 \in 1 .. Len(results) /\ results'[i] = results[i + 1]
      BY <1>1
    <3> QED
      BY <1>3, <3>1 DEF CaptureInv, CaptureAnswerNamed
  <2>4. CaptureRequestNamed' /\ CaptureAnswerNamed(out)'
    BY <1>3 DEF CaptureInv, CaptureRequestNamed, CaptureAnswerNamed
  <2> QED
    BY <2>2, <2>3, <2>4 DEF CaptureInv
<1> QED
  BY <1>2, <1>3

\* The lane takes a request other than a capture, or none, and answers.
LEMMA LaneOther ==
    ASSUME TypeOK, CaptureInv, UNCHANGED <<save, results>>,
           \/ requests' = requests
           \/ requests # <<>> /\ requests' = Tail(requests),
           out' = out \/ ~Has(out', "Capture")
    PROVE  CaptureInv'
<1>1. requests \in Seq(Requests)
  BY DEF TypeOK, ChannelTypeOK
<1>2. /\ Has(requests', "Capture") => Has(requests, "Capture")
      /\ AtMostOne(requests', "Capture")
  <2>1. AtMostOne(requests, "Capture")
    BY DEF CaptureInv, OneCapture
  <2>2. CASE requests' = requests
    BY <2>1, <2>2 DEF Has, AtMostOne
  <2>3. CASE requests # <<>> /\ requests' = Tail(requests)
    BY <1>1, <2>1, <2>3, TailOther
  <2> QED
    BY <2>2, <2>3
<1>3. /\ Has(out', "Capture") => Has(out, "Capture")
      /\ AtMostOne(out', "Capture")
  BY DEF CaptureInv, OneCapture, Has, AtMostOne
<1>4. OneCapture'
  BY <1>2, <1>3 DEF CaptureInv, OneCapture, Has, AtMostOne
<1>5. CaptureRequestNamed'
  <2>1. ASSUME NEW i \in 1 .. Len(requests')
        PROVE  \E j \in 1 .. Len(requests) : requests'[i] = requests[j]
    <3>1. CASE requests' = requests
      BY <3>1
    <3>2. CASE requests # <<>> /\ requests' = Tail(requests)
      <4>1. i + 1 \in 1 .. Len(requests) /\ requests'[i] = requests[i + 1]
        BY <1>1, <3>2
      <4> QED
        BY <4>1
    <3> QED
      BY <3>1, <3>2
  <2> QED
    BY <2>1 DEF CaptureInv, CaptureRequestNamed
<1>6. CaptureAnswerNamed(out)'
  <2>1. CASE out' = out
    BY <2>1 DEF CaptureInv, CaptureAnswerNamed
  <2>2. CASE ~Has(out', "Capture")
    BY <2>2 DEF CaptureAnswerNamed, Has
  <2> QED
    BY <2>1, <2>2
<1>7. CaptureAnswerNamed(results)'
  BY DEF CaptureInv, CaptureAnswerNamed
<1> QED
  BY <1>4, <1>5, <1>6, <1>7 DEF CaptureInv

LEMMA LaneCaptureInv ==
    ASSUME TypeOK, CaptureInv, LaneCapture PROVE CaptureInv'
<1>1. Receive("Capture") /\ UNCHANGED <<save, results>>
  BY DEF LaneCapture, ownerVars, uiVars
<1>2. Has(requests, "Capture")
  BY <1>1, ReceiveType DEF Has
<1>3. ~Has(requests', "Capture")
  <2>1. requests \in Seq(Requests) /\ requests # <<>> /\ requests' = Tail(requests)
        /\ Head(requests).kind = "Capture"
    BY <1>1 DEF Receive, TypeOK, ChannelTypeOK
  <2> QED
    BY <2>1, TailCapture DEF CaptureInv, OneCapture
<1>4. ~Has(results, "Capture") /\ save.state = "InFlight"
  BY <1>2 DEF CaptureInv, OneCapture
<1>5. Head(requests).seq = save.seq
  BY <1>1, ReceiveType DEF CaptureInv, CaptureRequestNamed
<1>6. \E ok \in BOOLEAN, code \in {"none", "AlreadyCaptured"} :
         out' = <<CaptureResult(Head(requests).seq, ok, code)>>
  BY DEF LaneCapture
<1>7. Len(out') = 1 /\ out'[1].seq = save.seq
  BY <1>5, <1>6 DEF CaptureResult
<1>8. AtMostOne(out', "Capture")
  BY <1>7 DEF AtMostOne
<1>9. OneCapture'
  BY <1>1, <1>3, <1>4, <1>8 DEF OneCapture, Has, AtMostOne
<1>10. CaptureRequestNamed' /\ CaptureAnswerNamed(results)'
  BY <1>1, <1>3, <1>4 DEF CaptureRequestNamed, CaptureAnswerNamed, Has
<1>11. CaptureAnswerNamed(out)'
  <2>1. \A i \in 1 .. Len(out') : i = 1
    BY <1>7
  <2> QED
    BY <1>1, <1>7, <2>1 DEF CaptureAnswerNamed
<1> QED
  BY <1>9, <1>10, <1>11 DEF CaptureInv

LEMMA LaneSendInv == ASSUME TypeOK, CaptureInv, LaneSend PROVE CaptureInv'
<1>1. out # <<>> /\ out' = Tail(out) /\ UNCHANGED <<save, requests>>
  BY DEF LaneSend, ownerVars, uiVars
<1>2. out \in Seq(Results) /\ results \in Seq(Results) /\ Head(out) = out[1]
      /\ 1 \in 1 .. Len(out)
  BY <1>1 DEF TypeOK, ChannelTypeOK, LaneTypeOK
<1>3. /\ Has(out', "Capture") => Has(out, "Capture")
      /\ AtMostOne(out', "Capture")
      /\ Head(out).kind = "Capture" => ~Has(out', "Capture") /\ Has(out, "Capture")
  BY <1>1, <1>2, TailOther, TailCapture DEF CaptureInv, OneCapture, Has
<1>4. CaptureAnswerNamed(out)'
  <2>1. ASSUME NEW i \in 1 .. Len(out')
        PROVE  i + 1 \in 1 .. Len(out) /\ out'[i] = out[i + 1]
    BY <1>1, <1>2
  <2> QED
    BY <1>1, <2>1 DEF CaptureInv, CaptureAnswerNamed
<1>5. CaptureRequestNamed'
  BY <1>1 DEF CaptureInv, CaptureRequestNamed
<1>6. CASE UNCHANGED results
  BY <1>1, <1>3, <1>4, <1>5, <1>6 DEF CaptureInv, OneCapture, CaptureAnswerNamed, Has,
                                      AtMostOne
<1>7. CASE results' = Append(results, Head(out))
  <2>1. CASE Head(out).kind = "Capture"
    <3>1. ~Has(results, "Capture") /\ ~Has(requests, "Capture")
          /\ save.state = "InFlight" /\ out[1].seq = save.seq
      BY <1>2, <1>3, <2>1 DEF CaptureInv, OneCapture, CaptureAnswerNamed
    <3>2. AtMostOne(results', "Capture")
      BY <1>2, <1>7, <3>1, AppendCapture
    <3>3. OneCapture'
      BY <1>1, <1>3, <2>1, <3>1, <3>2 DEF OneCapture, Has, AtMostOne
    <3>4. CaptureAnswerNamed(results)'
      <4>1. ASSUME NEW i \in 1 .. Len(results')
            PROVE  \/ results'[i] = out[1]
                   \/ i \in 1 .. Len(results) /\ results'[i] = results[i]
        BY <1>2, <1>7
      <4> QED
        BY <1>1, <3>1, <4>1 DEF CaptureInv, CaptureAnswerNamed
    <3> QED
      BY <1>4, <1>5, <3>3, <3>4 DEF CaptureInv
  <2>2. CASE Head(out).kind # "Capture"
    <3>1. /\ Has(results', "Capture") <=> Has(results, "Capture")
          /\ AtMostOne(results', "Capture")
      BY <1>2, <1>7, <2>2, AppendOther DEF CaptureInv, OneCapture
    <3>2. OneCapture'
      BY <1>1, <1>3, <3>1 DEF CaptureInv, OneCapture, Has, AtMostOne
    <3>3. CaptureAnswerNamed(results)'
      <4>1. ASSUME NEW i \in 1 .. Len(results'), results'[i].kind = "Capture"
            PROVE  i \in 1 .. Len(results) /\ results'[i] = results[i]
        BY <1>2, <1>7, <2>2, <4>1
      <4> QED
        BY <1>1, <4>1 DEF CaptureInv, CaptureAnswerNamed
    <3> QED
      BY <1>4, <1>5, <3>2, <3>3 DEF CaptureInv
  <2> QED
    BY <2>1, <2>2
<1> QED
  BY <1>6, <1>7 DEF LaneSend

-----------------------------------------------------------------------------
(* What the owner's steps do to its memory and to the request channel.      *)

Records(op) ==
    /\ op \in Ops /\ Admits
    /\ mem' = Append(mem, op)
    /\ \/ requests' = requests
       \/ requests' = Append(requests, Request("Commit", Len(mem) + 1, op))
Keeps ==
    /\ UNCHANGED mem
    /\ \/ requests' = requests
       \/ \E n : requests' = Append(requests, Request("Retry", n, NoOp))

\* Every step of the owner that is neither a drain nor a reservation.
QuietStep ==
    \/ \E op \in DirectOps : Type(op) \/ Mutate(op) \/ DeferInput(op)
                                \/ ReplayInput(op)
    \/ \E op \in IntentOps : BeginIntent(op) \/ CompleteIntent(op)
    \/ \E op \in ControlOps : QueueLookup(op) \/ CompleteLookup(op)
    \/ RetryPersistence \/ ExportRecovery \/ CompleteRecoveryExport
    \/ Quit \/ QuitAbandoningCapture \/ Terminate
    \/ Flush \/ RetainFailedCapture \/ AbandonFailedCapture
    \/ ShutdownPoll \/ DeadlineExpires

LEMMA QuietType == ASSUME TypeOK, QuietStep PROVE TypeOK'
<1>1. ASSUME NEW op \in DirectOps,
             Type(op) \/ Mutate(op) \/ DeferInput(op) \/ ReplayInput(op)
      PROVE  TypeOK'
  BY <1>1, InputType, MutateType, ReplayInputType, OpsParts
<1>2. ASSUME NEW op \in IntentOps, BeginIntent(op) \/ CompleteIntent(op)
      PROVE  TypeOK'
  BY <1>2, InputType, CompleteIntentType, OpsParts
<1>3. ASSUME NEW op \in ControlOps, QueueLookup(op) \/ CompleteLookup(op)
      PROVE  TypeOK'
  BY <1>3, InputType, CompleteLookupType, OpsParts
<1> QED
  BY <1>1, <1>2, <1>3, RetryPersistenceType, ExportType, QuitType, FlushType, StopType
     DEF QuietStep

LEMMA RecordRecords ==
    ASSUME NEW op \in Ops, NEW staged, Admits, Record(op, staged)
    PROVE  Records(op)
BY DEF Record, Records, Post, NextSequence

\* A step that records while a capture is in flight has no pending edit to
\* record, so it is the completion of an intention.
LEMMA QuietFootprint ==
    ASSUME TypeOK, QuietStep
    PROVE  /\ UNCHANGED <<retained, out, results, log, durable>>
           /\ save' = save \/ save.state # "InFlight"
           /\ Keeps \/ \E op : Records(op)
<1>1. ASSUME NEW op \in DirectOps,
             Type(op) \/ Mutate(op) \/ DeferInput(op) \/ ReplayInput(op)
      PROVE  /\ UNCHANGED <<retained, out, results, log, durable, save>>
             /\ Keeps \/ Records(op)
  <2>1. CASE Type(op) \/ DeferInput(op)
    BY <2>1 DEF Type, DeferInput, Keeps, appVars, laneVars, storeVars
  <2>2. CASE Mutate(op)
    BY <2>2, RecordRecords, OpsParts DEF Mutate, Record, uiVars, laneVars, storeVars
  <2>3. CASE ReplayInput(op)
    <3>1. UNCHANGED <<retained, out, results, log, save>>
      BY <2>3 DEF ReplayInput, laneVars, storeVars
    <3>2. CASE Admits /\ Record(op, FALSE)
      BY <3>1, <3>2, RecordRecords, OpsParts DEF Record
    <3>3. CASE UNCHANGED <<appVars, inflight, requests, run>>
      BY <3>1, <3>3 DEF Keeps, appVars
    <3> QED
      BY <2>3, <3>2, <3>3 DEF ReplayInput
  <2> QED
    BY <1>1, <2>1, <2>2, <2>3
<1>2. ASSUME NEW op \in IntentOps, BeginIntent(op) \/ CompleteIntent(op)
      PROVE  /\ UNCHANGED <<retained, out, results, log, durable, save>>
             /\ Keeps \/ Records(op)
  <2>1. CASE BeginIntent(op)
    BY <2>1 DEF BeginIntent, Keeps, appVars, laneVars, storeVars
  <2>2. CASE CompleteIntent(op)
    <3>1. UNCHANGED <<retained, out, results, log, save>>
      BY <2>2 DEF CompleteIntent, laneVars, storeVars
    <3>2. CASE Admits /\ \E staged \in BOOLEAN : Record(op, staged)
      BY <3>1, <3>2, RecordRecords, OpsParts DEF Record
    <3>3. CASE UNCHANGED <<appVars, inflight, requests, run>>
      BY <3>1, <3>3 DEF Keeps, appVars
    <3> QED
      BY <2>2, <3>2, <3>3 DEF CompleteIntent
  <2> QED
    BY <1>2, <2>1, <2>2
<1>3. ASSUME NEW op \in ControlOps, QueueLookup(op) \/ CompleteLookup(op)
      PROVE  /\ UNCHANGED <<retained, out, results, log, durable, save>>
             /\ Keeps \/ Records(op)
  <2>1. CASE QueueLookup(op)
    BY <2>1 DEF QueueLookup, Keeps, appVars, laneVars, storeVars
  <2>2. CASE CompleteLookup(op)
    <3>1. UNCHANGED <<retained, out, results, log, save>>
      BY <2>2 DEF CompleteLookup, laneVars, storeVars
    <3>2. CASE Admits /\ Record(op, FALSE)
      BY <3>1, <3>2, RecordRecords, OpsParts DEF Record
    <3>3. CASE Admits /\ mem' = Append(mem, op) /\ UNCHANGED <<durable, requests>>
      BY <3>1, <3>3, OpsParts DEF Records
    <3>4. CASE UNCHANGED <<appVars, inflight, requests, run, quit>>
      BY <3>1, <3>4 DEF Keeps, appVars
    <3> QED
      BY <2>2, <3>2, <3>3, <3>4 DEF CompleteLookup
  <2> QED
    BY <1>3, <2>1, <2>2
<1>4. CASE RetryPersistence
  BY <1>4 DEF RetryPersistence, Keeps, Post, uiVars, laneVars, storeVars
<1>5. CASE ExportRecovery \/ CompleteRecoveryExport
  BY <1>5 DEF ExportRecovery, CompleteRecoveryExport, Keeps, appVars, laneVars,
              storeVars
<1>6. ASSUME NEW skip, FlushAndQuit(skip)
      PROVE  UNCHANGED durable /\ (Keeps \/ \E op : Records(op))
  <2>1. CASE draft # NoOp /\ ~skip
    <3>1. draft \in Ops
      BY <2>1, OpsParts DEF TypeOK, UiTypeOK
    <3> QED
      BY <1>6, <2>1, <3>1, RecordRecords DEF FlushAndQuit, Record
  <2>2. CASE ~(draft # NoOp /\ ~skip)
    BY <1>6, <2>2 DEF FlushAndQuit, Keeps, appVars
  <2> QED
    BY <2>1, <2>2
<1>7. CASE Quit \/ QuitAbandoningCapture \/ Terminate \/ AbandonFailedCapture
  <2>1. /\ UNCHANGED <<retained, out, results, log>>
        /\ save' = save \/ save.state # "InFlight"
    BY <1>7 DEF Quit, QuitAbandoningCapture, Terminate, AbandonFailedCapture,
                AbandonAndQuit, laneVars, storeVars
  <2>2. (\E skip : FlushAndQuit(skip))
          \/ UNCHANGED <<appVars, draft, inflight, requests, run, quit>>
    BY <1>7 DEF Quit, QuitAbandoningCapture, Terminate, AbandonFailedCapture,
                AbandonAndQuit
  <2> QED
    BY <1>6, <2>1, <2>2 DEF Keeps, appVars
<1>8. CASE Flush
  <2>1. draft \in Ops
    BY <1>8, OpsParts DEF Flush, TypeOK, UiTypeOK
  <2> QED
    BY <1>8, <2>1, RecordRecords DEF Flush, Record, laneVars, storeVars
<1>9. CASE RetainFailedCapture \/ ShutdownPoll \/ DeadlineExpires
  BY <1>9 DEF RetainFailedCapture, ShutdownPoll, DeadlineExpires,
              Keeps, appVars, uiVars, laneVars, storeVars
<1> QED
  BY <1>1, <1>2, <1>3, <1>4, <1>5, <1>7, <1>8, <1>9 DEF QuietStep

-----------------------------------------------------------------------------
(* Acknowledged is stored.                                                  *)

\* The channels of answers stay while the store does not shrink.
LEMMA HonestKept ==
    ASSUME TypeOK, TypeOK', HonestAnswers(out), HonestAnswers(results),
           UNCHANGED <<out, results>>, Len(log) <= Len(log')
    PROVE  HonestAnswers(out)' /\ HonestAnswers(results)'
<1>1. Len(log) \in Nat /\ Len(log') \in Nat
  BY DEF TypeOK, StoreTypeOK
<1>2. /\ \A i \in 1 .. Len(out) : out[i].seq \in Nat
      /\ \A i \in 1 .. Len(results) : results[i].seq \in Nat
  <2>1. \A a \in Results : a.seq \in Nat
    BY ResultParts
  <2> QED
    BY <2>1 DEF TypeOK, ChannelTypeOK, LaneTypeOK
<1> QED
  BY <1>1, <1>2 DEF HonestAnswers, Reports

LEMMA QuietAck == ASSUME AckInv, QuietStep PROVE AckInv'
<1>1. TypeOK /\ TypeOK' /\ CaptureInv
  BY QuietType DEF AckInv
<1>2. /\ UNCHANGED <<retained, out, results, log, durable>>
      /\ save' = save \/ save.state # "InFlight"
      /\ Keeps \/ \E op : Records(op)
  BY <1>1, QuietFootprint
<1>3. CaptureInv'
  <2>1. CASE requests' = requests
    BY <1>1, <1>2, <2>1, SameChannels
  <2>2. CASE \E r : r.kind # "Capture" /\ requests' = Append(requests, r)
    BY <1>1, <1>2, <2>2, PostOther
  <2>3. \A n, op : /\ Request("Commit", n, op).kind # "Capture"
                   /\ Request("Retry", n, op).kind # "Capture"
    BY DEF Request
  <2> QED
    BY <1>2, <2>1, <2>2, <2>3 DEF Keeps, Records
<1>4. HonestAnswers(out)' /\ HonestAnswers(results)'
  BY <1>1, <1>2 DEF AckInv, HonestAnswers
<1> QED
  BY <1>1, <1>2, <1>3, <1>4 DEF AckInv, AcknowledgedIsStored

LEMMA ReserveAck ==
    ASSUME AckInv, NEW op \in CaptureOps, AdvanceCapture(op) \/ RetryCapture(op)
    PROVE  AckInv'
<1>1. Reserve(op) /\ save.state # "InFlight"
  BY DEF AdvanceCapture, RetryCapture, NoSave
<1>2. TypeOK' /\ CaptureInv'
  BY <1>1, ReserveType, ReserveCapture DEF AckInv
<1>3. UNCHANGED <<out, results, log, durable>>
  BY <1>1 DEF Reserve, appVars, laneVars, storeVars
<1> QED
  BY <1>2, <1>3 DEF AckInv, AcknowledgedIsStored, HonestAnswers

LEMMA DrainAck == ASSUME AckInv, Drain PROVE AckInv'
<1>1. /\ results # <<>> /\ results' = Tail(results)
      /\ UNCHANGED <<requests, out, log>>
  BY DEF Drain, DrainSequenced, DrainRetryFinished, DrainCapture, laneVars, storeVars
<1>2. Answer.kind = "Capture" \/ save' = save
  BY DEF Drain, DrainSequenced, DrainRetryFinished, DrainCapture, uiVars
<1>3. CaptureInv'
  BY <1>1, <1>2, DrainCaptureInv DEF AckInv
<1>4. Answer.kind = "Capture" => save.state = "InFlight" /\ Answer.seq = save.seq
  <2>1. Answer = results[1] /\ 1 \in 1 .. Len(results)
    BY <1>1, AnswerType DEF AckInv
  <2> QED
    BY <2>1 DEF AckInv, CaptureInv, OneCapture, CaptureAnswerNamed, Has
<1>5. TypeOK'
  BY <1>4, DrainSequencedType, DrainRetryFinishedType, DrainCaptureType
     DEF Drain, DrainCapture, AckInv
<1>6. HonestAnswers(out)'
  BY <1>1 DEF AckInv, HonestAnswers
<1>7. HonestAnswers(results)'
  <2>1. ASSUME NEW i \in 1 .. Len(results')
        PROVE  i + 1 \in 1 .. Len(results) /\ results'[i] = results[i + 1]
    BY <1>1 DEF AckInv, TypeOK, ChannelTypeOK
  <2> QED
    BY <1>1, <2>1 DEF AckInv, HonestAnswers
<1>8. durable' <= Len(log')
  <2>1. Reports(Answer) => Answer.seq <= Len(log)
    BY <1>1, AnswerType DEF AckInv, HonestAnswers
  <2>2. durable <= Len(log)
    BY DEF AckInv, AcknowledgedIsStored
  <2>3. CASE durable' = durable
    BY <1>1, <2>2, <2>3
  <2>4. CASE DrainSequenced /\ durable' # durable
    <3>1. Answer.ok /\ durable' = Answer.seq /\ Answer.kind = "Sequenced"
      BY <2>4 DEF DrainSequenced, AcknowledgeCommitted, AcknowledgeFailed, appVars
    <3>2. Answer.code = "none"
      <4>1. Answer \in Results
        BY <1>1, AnswerType DEF AckInv
      <4> QED
        BY <3>1, <4>1, ResultParts
    <3> QED
      BY <1>1, <2>1, <3>1, <3>2 DEF Reports
  <2>5. CASE DrainCapture /\ durable' # durable
    <3>1. /\ Answer.ok /\ Answer.code # "AlreadyCaptured"
          /\ durable' = save.seq /\ Answer.kind = "Capture"
      BY <2>5 DEF DrainCapture, appVars
    <3>2. Answer.code = "none"
      <4>1. Answer \in Results
        BY <1>1, AnswerType DEF AckInv
      <4> QED
        BY <3>1, <4>1, ResultParts
    <3> QED
      BY <1>1, <1>4, <2>1, <3>1, <3>2 DEF Reports
  <2>6. CASE DrainRetryFinished
    BY <1>1, <2>2, <2>6 DEF DrainRetryFinished, appVars
  <2> QED
    BY <2>3, <2>4, <2>5, <2>6 DEF Drain
<1> QED
  BY <1>3, <1>5, <1>6, <1>7, <1>8 DEF AckInv, AcknowledgedIsStored

\* The store only grows, and by the batch it was given.
LEMMA StoreStep ==
    ASSUME TypeOK, NEW c, c.op \in Ops, c.seq \in Nat \ {0},
           StoreAccepts(c) \/ StoreRejects(c)
    PROVE  /\ log' = log \/ (log' = Append(log, c.op) /\ c.seq = Len(log) + 1)
           /\ Len(log) <= Len(log')
           /\ StoreAccepts(c) => c.seq <= Len(log')
<1>1. log \in Seq(Ops)
  BY DEF TypeOK, StoreTypeOK
<1>2. log' = log \/ (log' = Append(log, c.op) /\ c.seq = Len(log) + 1)
  BY DEF StoreAccepts, StoreRejects
<1>3. Len(log) <= Len(log')
  BY <1>1, <1>2
<1>4. StoreAccepts(c) => c.seq <= Len(log')
  BY <1>1 DEF StoreAccepts, Replays
<1> QED
  BY <1>2, <1>3, <1>4

\* A batch is answered once, honestly, and never as a capture.
LEMMA CommitAnswer ==
    ASSUME TypeOK, NEW c \in Commits, NEW retried \in BOOLEAN,
           NEW more \in {<<>>, <<RetryFinished>>},
           Succeeds(c, retried, more) \/ Fails(c, retried, more)
    PROVE  /\ Len(log) <= Len(log')
           /\ ~Has(out', "Capture") /\ HonestAnswers(out)'
           /\ \A i \in 1 .. Len(out') :
                out'[i].kind = "Sequenced" /\ out'[i].ok
                => out'[i].seq = c.seq /\ StoreAccepts(c)
<1>1. c.seq \in Nat \ {0} /\ c.op \in Ops
  BY DEF Commits
<1>2. Len(log) <= Len(log') /\ (StoreAccepts(c) => c.seq <= Len(log'))
  BY <1>1, StoreStep DEF Succeeds, Fails
<1>3. PICK a : /\ out' = <<a>> \o more /\ a.kind = "Sequenced" /\ a.seq = c.seq
               /\ a.ok => StoreAccepts(c)
  <2>1. CASE Succeeds(c, retried, more)
    <3>1. /\ out' = <<Sequenced(c.seq, TRUE, "none", retried)>> \o more
          /\ StoreAccepts(c)
      BY <2>1 DEF Succeeds
    <3> QED
      BY <3>1 DEF Sequenced
  <2>2. CASE Fails(c, retried, more)
    <3>1. PICK code : out' = <<Sequenced(c.seq, FALSE, code, retried)>> \o more
      BY <2>2 DEF Fails
    <3>2. Sequenced(c.seq, FALSE, code, retried).ok = FALSE
      BY DEF Sequenced
    <3> QED
      BY <3>1, <3>2 DEF Sequenced
  <2> QED
    BY <2>1, <2>2
<1>4. /\ \A i \in 1 .. Len(out') : out'[i] = a \/ out'[i] = RetryFinished
  <2>1. CASE more = <<>>
    BY <1>3, <2>1
  <2>2. CASE more = <<RetryFinished>>
    BY <1>3, <2>2
  <2> QED
    BY <2>1, <2>2
<1>5. ~Has(out', "Capture")
  BY <1>3, <1>4 DEF Has, RetryFinished
<1>6. HonestAnswers(out)'
  <2> SUFFICES ASSUME NEW i \in 1 .. Len(out'), Reports(out'[i])
               PROVE  out'[i].seq <= Len(log')
    BY DEF HonestAnswers, Reports
  <2>1. out'[i].kind # "RetryFinished" /\ out'[i].ok
    BY DEF Reports
  <2>2. out'[i] = a
    BY <1>4, <2>1 DEF RetryFinished
  <2> QED
    BY <1>2, <1>3, <2>1, <2>2
<1>7. \A i \in 1 .. Len(out') :
        out'[i].kind = "Sequenced" /\ out'[i].ok => out'[i].seq = c.seq /\ StoreAccepts(c)
  BY <1>3, <1>4 DEF RetryFinished
<1> QED
  BY <1>2, <1>5, <1>6, <1>7

LEMMA LaneCommitAck == ASSUME AckInv, LaneCommit PROVE AckInv'
<1> DEFINE c == [seq |-> Head(requests).seq, op |-> Head(requests).op]
<1>1. TypeOK /\ TypeOK' /\ CaptureInv
  BY LaneCommitType DEF AckInv
<1>2. /\ Receive("Commit")
      /\ Succeeds(c, FALSE, <<>>) \/ Fails(c, FALSE, <<>>)
      /\ UNCHANGED <<save, durable, results>>
  BY DEF LaneCommit, ownerVars, uiVars, appVars
<1>3. c \in Commits
  BY <1>1, <1>2, ReceiveType DEF Commits
<1> HIDE DEF c
<1>4. Len(log) <= Len(log') /\ ~Has(out', "Capture") /\ HonestAnswers(out)'
  BY <1>1, <1>2, <1>3, CommitAnswer
<1>5. requests # <<>> /\ requests' = Tail(requests)
  BY <1>2 DEF Receive
<1>6. CaptureInv'
  BY <1>1, <1>2, <1>4, <1>5, LaneOther
<1>7. HonestAnswers(results)' /\ AcknowledgedIsStored'
  <2>1. \A i \in 1 .. Len(results) : results[i].seq \in Nat
    BY <1>1, ResultParts DEF TypeOK, ChannelTypeOK
  <2>2. Len(log) \in Nat /\ Len(log') \in Nat /\ durable \in Nat
    BY <1>1 DEF TypeOK, StoreTypeOK, AppTypeOK
  <2> QED
    BY <1>2, <1>4, <2>1, <2>2 DEF AckInv, HonestAnswers, Reports, AcknowledgedIsStored
<1> QED
  BY <1>1, <1>4, <1>6, <1>7 DEF AckInv

LEMMA LaneRetryNextAck == ASSUME AckInv, LaneRetryNext PROVE AckInv'
<1>1. TypeOK /\ TypeOK' /\ CaptureInv
  BY LaneRetryNextType DEF AckInv
<1>2. PICK c \in retained : \/ Succeeds(c, TRUE, <<>>)
                            \/ Succeeds(c, TRUE, <<RetryFinished>>)
                            \/ Fails(c, TRUE, <<RetryFinished>>)
  BY DEF LaneRetryNext
<1>3. UNCHANGED <<save, durable, requests, results>>
  BY DEF LaneRetryNext, ownerVars, uiVars, appVars
<1>4. c \in Commits
  BY <1>1 DEF TypeOK, LaneTypeOK
<1>5. Len(log) <= Len(log') /\ ~Has(out', "Capture") /\ HonestAnswers(out)'
  BY <1>1, <1>2, <1>4, CommitAnswer
<1>6. CaptureInv'
  BY <1>1, <1>3, <1>5, LaneOther
<1>7. HonestAnswers(results)' /\ AcknowledgedIsStored'
  <2>1. \A i \in 1 .. Len(results) : results[i].seq \in Nat
    BY <1>1, ResultParts DEF TypeOK, ChannelTypeOK
  <2>2. Len(log) \in Nat /\ Len(log') \in Nat /\ durable \in Nat
    BY <1>1 DEF TypeOK, StoreTypeOK, AppTypeOK
  <2> QED
    BY <1>3, <1>5, <2>1, <2>2 DEF AckInv, HonestAnswers, Reports, AcknowledgedIsStored
<1> QED
  BY <1>1, <1>5, <1>6, <1>7 DEF AckInv

LEMMA LaneRetryAck == ASSUME AckInv, LaneRetry PROVE AckInv'
<1>1. TypeOK /\ TypeOK' /\ CaptureInv
  BY LaneRetryType DEF AckInv
<1>2. /\ requests # <<>> /\ requests' = Tail(requests)
      /\ UNCHANGED <<save, durable, results, log>>
  BY DEF LaneRetry, Receive, ownerVars, uiVars, appVars, storeVars
<1>3. out' = out \/ out' = <<Sequenced(Head(requests).seq, FALSE, "StorageFailed", TRUE),
                             RetryFinished>>
  BY DEF LaneRetry
<1>4. out' = out \/ ~Has(out', "Capture")
  BY <1>3 DEF Has, Sequenced, RetryFinished
<1>5. CaptureInv'
  BY <1>1, <1>2, <1>4, LaneOther
<1>6. HonestAnswers(out)'
  <2>1. CASE out' = out
    BY <1>2, <2>1 DEF AckInv, HonestAnswers
  <2>2. CASE out' = <<Sequenced(Head(requests).seq, FALSE, "StorageFailed", TRUE),
                      RetryFinished>>
    <3>1. \A i \in 1 .. Len(out') : ~Reports(out'[i])
      BY <2>2 DEF Reports, Sequenced, RetryFinished
    <3> QED
      BY <3>1 DEF HonestAnswers, Reports
  <2> QED
    BY <1>3, <2>1, <2>2
<1> QED
  BY <1>1, <1>2, <1>5, <1>6 DEF AckInv, HonestAnswers, AcknowledgedIsStored

LEMMA LaneCaptureAck == ASSUME AckInv, LaneCapture PROVE AckInv'
<1> DEFINE c == [seq |-> Head(requests).seq, op |-> Head(requests).op]
<1>1. TypeOK /\ TypeOK' /\ CaptureInv'
  BY LaneCaptureType, LaneCaptureInv DEF AckInv
<1>2. Receive("Capture") /\ UNCHANGED <<durable, results>>
  BY DEF LaneCapture, ownerVars, appVars
<1>3. \/ StoreAccepts(c) /\ out' = <<CaptureResult(c.seq, TRUE, "none")>>
      \/ StoreRejects(c) /\ out' = <<CaptureResult(c.seq, FALSE, "none")>>
      \/ UNCHANGED log /\ out' = <<CaptureResult(c.seq, TRUE, "AlreadyCaptured")>>
  BY DEF LaneCapture
<1>4. c.seq \in Nat \ {0} /\ c.op \in Ops
  BY <1>1, <1>2, ReceiveType
<1> HIDE DEF c
<1>5. Len(log) \in Nat /\ Len(log') \in Nat /\ durable \in Nat
  BY <1>1 DEF TypeOK, StoreTypeOK, AppTypeOK
<1>6. Len(log) <= Len(log') /\ (StoreAccepts(c) => c.seq <= Len(log'))
  <2>1. CASE StoreAccepts(c) \/ StoreRejects(c)
    BY <1>1, <1>4, <2>1, StoreStep
  <2>2. CASE ~(StoreAccepts(c) \/ StoreRejects(c))
    <3>1. log' = log
      BY <1>3, <2>2, Zenon
    <3> QED
      BY <1>5, <2>2, <3>1
  <2> QED
    BY <2>1, <2>2
<1>7. HonestAnswers(out)'
  <2>1. Len(out') = 1 /\ (Reports(out'[1]) => out'[1].seq <= Len(log'))
    <3>1. CASE StoreAccepts(c) /\ out' = <<CaptureResult(c.seq, TRUE, "none")>>
      BY <1>6, <3>1 DEF CaptureResult
    <3>2. CASE out' = <<CaptureResult(c.seq, FALSE, "none")>>
      BY <3>2 DEF CaptureResult, Reports
    <3>3. CASE out' = <<CaptureResult(c.seq, TRUE, "AlreadyCaptured")>>
      BY <3>3 DEF CaptureResult, Reports
    <3> QED
      BY <1>3, <3>1, <3>2, <3>3
  <2>2. \A i \in 1 .. Len(out') : i = 1
    BY <2>1
  <2> QED
    BY <2>1, <2>2 DEF HonestAnswers, Reports
<1>8. HonestAnswers(results)' /\ AcknowledgedIsStored'
  <2>1. \A i \in 1 .. Len(results) : results[i].seq \in Nat
    BY <1>1, ResultParts DEF TypeOK, ChannelTypeOK
  <2> QED
    BY <1>2, <1>5, <1>6, <2>1 DEF AckInv, HonestAnswers, Reports, AcknowledgedIsStored
<1> QED
  BY <1>1, <1>7, <1>8 DEF AckInv

LEMMA LaneSendAck == ASSUME AckInv, LaneSend PROVE AckInv'
<1>1. TypeOK /\ TypeOK' /\ CaptureInv'
  BY LaneSendType, LaneSendInv DEF AckInv
<1>2. out # <<>> /\ out' = Tail(out) /\ UNCHANGED <<durable, log>>
  BY DEF LaneSend, ownerVars, appVars, storeVars
<1>3. out \in Seq(Results) /\ results \in Seq(Results)
  BY <1>1 DEF TypeOK, LaneTypeOK, ChannelTypeOK
<1>4. HonestAnswers(out)'
  <2>1. ASSUME NEW i \in 1 .. Len(out')
        PROVE  i + 1 \in 1 .. Len(out) /\ out'[i] = out[i + 1]
    BY <1>2, <1>3
  <2> QED
    BY <1>2, <2>1 DEF AckInv, HonestAnswers
<1>5. HonestAnswers(results)'
  <2>1. CASE UNCHANGED results
    BY <1>2, <2>1 DEF AckInv, HonestAnswers
  <2>2. CASE results' = Append(results, Head(out))
    <3>1. ASSUME NEW i \in 1 .. Len(results')
          PROVE  \/ results'[i] = out[1] /\ 1 \in 1 .. Len(out)
                 \/ i \in 1 .. Len(results) /\ results'[i] = results[i]
      BY <1>2, <1>3, <2>2
    <3> QED
      BY <1>2, <3>1 DEF AckInv, HonestAnswers
  <2> QED
    BY <2>1, <2>2 DEF LaneSend
<1> QED
  BY <1>1, <1>2, <1>4, <1>5 DEF AckInv, AcknowledgedIsStored

LEMMA ReopenAck == ASSUME AckInv, Reopen PROVE AckInv'
<1>1. TypeOK'
  BY ReopenType DEF AckInv
<1>2. /\ requests' = <<>> /\ out' = <<>> /\ results' = <<>>
      /\ durable' = Len(log) /\ log' = log
  BY DEF Reopen, storeVars
<1>3. CaptureInv'
  BY <1>2, NoCapture DEF Has
<1>4. Len(log) \in Nat
  BY DEF AckInv, TypeOK, StoreTypeOK
<1> QED
  BY <1>1, <1>2, <1>3, <1>4 DEF AckInv, HonestAnswers, AcknowledgedIsStored

LEMMA NextSplit ==
    Next <=> \/ QuietStep \/ Drain \/ StoreHeals \/ Reopen
             \/ \E op \in CaptureOps : AdvanceCapture(op) \/ RetryCapture(op)
             \/ LaneCommit \/ LaneCapture \/ LaneRetry \/ LaneRetryNext \/ LaneSend
BY OpsParts DEF Next, UserStep, OwnerStep, LaneStep, QuietStep, Complete

LEMMA AckInit == Init => AckInv
<1> SUFFICES ASSUME Init PROVE AckInv
  OBVIOUS
<1>1. AppTypeOK /\ StopTypeOK /\ StoreTypeOK
  <2>1. <<>> \in Seq(Ops) /\ TRUE \in BOOLEAN /\ FALSE \in BOOLEAN
    OBVIOUS
  <2>2. AppTypeOK
    BY <2>1 DEF Init, AppTypeOK
  <2>3. StopTypeOK
    BY <2>1 DEF Init, StopTypeOK
  <2>4. StoreTypeOK
    BY <2>1 DEF Init, StoreTypeOK
  <2> QED
    BY <2>2, <2>3, <2>4
<1>2. UiTypeOK
  <2>1. <<>> \in Seq(SUBSET Ops)
    OBVIOUS
  <2> QED
    BY <2>1 DEF Init, UiTypeOK
<1>3. /\ requests = <<>> /\ results = <<>> /\ out = <<>>
      /\ retained = {} /\ retrying = FALSE /\ todo = {} /\ refused = {}
      /\ log = <<>> /\ durable = 0
  BY DEF Init
<1>4. ChannelTypeOK
  BY <1>3, LimitAssumption DEF ChannelTypeOK
<1>5. LaneTypeOK
  <2>1. <<>> \in Seq(Results) /\ FALSE \in BOOLEAN
    OBVIOUS
  <2> QED
    BY <1>3, <2>1 DEF LaneTypeOK
<1>6. CaptureInv
  BY <1>3 DEF CaptureInv, OneCapture, CaptureRequestNamed, CaptureAnswerNamed, Has,
              AtMostOne
<1> QED
  BY <1>1, <1>2, <1>3, <1>4, <1>5, <1>6
     DEF AckInv, TypeOK, HonestAnswers, AcknowledgedIsStored

LEMMA AckStep == AckInv /\ [Next]_vars => AckInv'
<1> SUFFICES ASSUME AckInv, [Next]_vars PROVE AckInv'
  OBVIOUS
<1>1. CASE UNCHANGED vars
  <2>1. TypeOK'
    <3>1. AppTypeOK' /\ UiTypeOK' /\ StopTypeOK'
      BY <1>1, OwnerKept DEF vars, ownerVars, AckInv
    <3>2. ChannelTypeOK' /\ LaneTypeOK' /\ StoreTypeOK'
      BY <1>1 DEF vars, laneVars, storeVars, AckInv, TypeOK, ChannelTypeOK, LaneTypeOK,
                  StoreTypeOK
    <3> QED
      BY <3>1, <3>2 DEF TypeOK
  <2>2. UNCHANGED <<requests, out, results, save, log, durable>>
    BY <1>1 DEF vars, appVars, uiVars, laneVars, storeVars
  <2>3. CaptureInv'
    BY <2>2, SameChannels DEF AckInv
  <2> QED
    BY <2>1, <2>2, <2>3 DEF AckInv, HonestAnswers, AcknowledgedIsStored
<1>2. CASE StoreHeals
  <2>1. TypeOK'
    BY <1>2, StopType DEF AckInv
  <2>2. UNCHANGED <<requests, out, results, save, log, durable>>
    BY <1>2 DEF StoreHeals, ownerVars, appVars, uiVars, laneVars
  <2>3. CaptureInv'
    BY <2>2, SameChannels DEF AckInv
  <2> QED
    BY <2>1, <2>2, <2>3 DEF AckInv, HonestAnswers, AcknowledgedIsStored
<1>3. CASE Next /\ ~StoreHeals
  BY <1>3, NextSplit, QuietAck, DrainAck, ReserveAck, LaneCommitAck, LaneCaptureAck,
     LaneRetryAck, LaneRetryNextAck, LaneSendAck, ReopenAck
<1> QED
  BY <1>1, <1>2, <1>3

\* Every reachable state of the owner, the channels, the lane and the store is
\* well typed, whatever the capacities: channels never overfill, a staged
\* removal stays a pending one, and an answer to a capture always finds it in
\* flight (complete_screenshot_capture never meets its unexpected case).
THEOREM TypeCorrect == Spec => []TypeOK
<1>1. AckInv => TypeOK
  BY DEF AckInv
<1> QED
  BY <1>1, AckInit, AckStep, PTL DEF Spec

\* What the program reports as saved is in the store, for every interleaving of
\* edits, retries, captures, crashes and shutdowns.
THEOREM AcknowledgedStored == Spec => []AcknowledgedIsStored
<1>1. AckInv => AcknowledgedIsStored
  BY DEF AckInv
<1> QED
  BY <1>1, AckInit, AckStep, PTL DEF Spec

-----------------------------------------------------------------------------
(* What the store holds, compared with the owner's memory, and that         *)
(* Autosave implements DurableLog.                                          *)

-----------------------------------------------------------------------------
(* Sequences, element by element.                                           *)

LEMMA SubSeqPart ==
    ASSUME NEW S, NEW t \in Seq(S), NEW n \in 0 .. Len(t)
    PROVE  /\ SubSeq(t, 1, n) \in Seq(S) /\ Len(SubSeq(t, 1, n)) = n
           /\ \A i \in 1 .. n : SubSeq(t, 1, n)[i] = t[i]
<1>1. \A i \in 1 .. n : t[i] \in S
  OBVIOUS
<1> QED
  BY <1>1

\* Two sequences with a common prefix have the same first n elements.
LEMMA SameSubSeq ==
    ASSUME NEW S, NEW s \in Seq(S), NEW t \in Seq(S), NEW n \in Nat,
           n <= Len(s), n <= Len(t), \A i \in 1 .. n : s[i] = t[i]
    PROVE  SubSeq(s, 1, n) = SubSeq(t, 1, n)
<1>1. n \in 0 .. Len(s) /\ n \in 0 .. Len(t)
  OBVIOUS
<1>2. /\ SubSeq(s, 1, n) \in Seq(S) /\ Len(SubSeq(s, 1, n)) = n
      /\ \A i \in 1 .. n : SubSeq(s, 1, n)[i] = s[i]
  BY <1>1, SubSeqPart
<1>3. /\ SubSeq(t, 1, n) \in Seq(S) /\ Len(SubSeq(t, 1, n)) = n
      /\ \A i \in 1 .. n : SubSeq(t, 1, n)[i] = t[i]
  BY <1>1, SubSeqPart
<1>4. \A i \in 1 .. n : SubSeq(s, 1, n)[i] = SubSeq(t, 1, n)[i]
  BY <1>2, <1>3
<1> QED
  BY <1>2, <1>3, <1>4, SeqEqual

LEMMA AppendPart ==
    ASSUME NEW S, NEW s \in Seq(S), NEW x \in S
    PROVE  /\ Append(s, x) \in Seq(S) /\ Len(Append(s, x)) = Len(s) + 1
           /\ Append(s, x)[Len(s) + 1] = x
           /\ \A i \in 1 .. Len(s) : Append(s, x)[i] = s[i]
  OBVIOUS

LEMMA MemberOfCommits ==
    ASSUME TypeOK PROVE /\ log \in Seq(Ops) /\ mem \in Seq(Ops)
                        /\ Len(log) \in Nat /\ Len(mem) \in Nat /\ durable \in Nat
                        /\ requests \in Seq(Requests)
                        /\ out \in Seq(Results) /\ results \in Seq(Results)
BY DEF TypeOK, StoreTypeOK, AppTypeOK, ChannelTypeOK, LaneTypeOK

\* A store that is ahead of the memory holds one capture more.
LEMMA AheadLength ==
    ASSUME TypeOK, CaptureAhead
    PROVE  /\ Len(log) = Len(mem) + 1 /\ log[Len(mem) + 1] = save.op
           /\ save.op \in CaptureOps /\ \A i \in 1 .. Len(mem) : log[i] = mem[i]
<1>1. save.op \in CaptureOps
  BY DEF CaptureAhead, TypeOK, UiTypeOK, NoSave
<1>2. mem \in Seq(Ops) /\ save.op \in Ops
  BY <1>1, MemberOfCommits DEF Ops
<1> QED
  BY <1>1, <1>2, AppendPart DEF CaptureAhead

\* Where the memory was not overtaken the store has what the owner did.
LEMMA NotOvertaken ==
    ASSUME TypeOK, NEW i \in 1 .. Len(log), i <= Len(mem), i \notin Overtaken
    PROVE  log[i] = mem[i]
BY DEF Overtaken

LEMMA SameStore ==
    ASSUME UNCHANGED <<mem, log>> PROVE Overtaken' = Overtaken
BY DEF Overtaken

\* A growing memory overtakes only what the store has and it had not.
LEMMA GrowingMemory ==
    ASSUME TypeOK, UNCHANGED log, Len(mem') \in Nat, Len(mem) <= Len(mem'),
           \A i \in 1 .. Len(mem) : mem'[i] = mem[i]
    PROVE  /\ \A i \in Overtaken' : i \in Overtaken \/ Len(mem) < i
           /\ Len(log) <= Len(mem) => Overtaken' = Overtaken
<1>1. Len(log) \in Nat /\ Len(mem) \in Nat
  BY MemberOfCommits
<1>2. ASSUME NEW i \in Overtaken' PROVE i \in Overtaken \/ Len(mem) < i
  BY <1>1, <1>2 DEF Overtaken
<1>3. ASSUME NEW i \in Overtaken PROVE i \in Overtaken'
  BY <1>1, <1>3 DEF Overtaken
<1>4. ASSUME Len(log) <= Len(mem), NEW i \in Overtaken' PROVE i \in Overtaken
  BY <1>1, <1>4 DEF Overtaken
<1> QED
  BY <1>2, <1>3, <1>4

\* A store that grows where the memory already was overtakes nothing new.
LEMMA GrowingStore ==
    ASSUME TypeOK, UNCHANGED mem, NEW op \in Ops, log' = Append(log, op)
    PROVE  /\ Overtaken \subseteq Overtaken'
           /\ \A i \in Overtaken' :
                i \in Overtaken \/ (i = Len(log) + 1 /\ i <= Len(mem) /\ op # mem[i])
           /\ \A i \in 1 .. Len(log) : log'[i] = log[i]
           /\ Len(log') = Len(log) + 1 /\ log'[Len(log) + 1] = op
<1>1. log \in Seq(Ops) /\ Len(log) \in Nat /\ Len(mem) \in Nat
  BY MemberOfCommits
<1>2. /\ Len(log') = Len(log) + 1 /\ log'[Len(log) + 1] = op
      /\ \A i \in 1 .. Len(log) : log'[i] = log[i]
  BY <1>1, AppendPart
<1>3. ASSUME NEW i \in Overtaken PROVE i \in Overtaken'
  <2>1. i \in 1 .. Len(log') /\ log'[i] = log[i]
    BY <1>1, <1>2, <1>3 DEF Overtaken
  <2> QED
    BY <2>1, <1>3 DEF Overtaken
<1>4. ASSUME NEW i \in Overtaken'
      PROVE  i \in Overtaken \/ (i = Len(log) + 1 /\ i <= Len(mem) /\ op # mem[i])
  <2>1. i \in 1 .. Len(log) + 1 /\ i <= Len(mem) /\ log'[i] # mem[i]
    BY <1>2, <1>4 DEF Overtaken
  <2>2. CASE i = Len(log) + 1
    BY <1>2, <2>1, <2>2
  <2>3. CASE i # Len(log) + 1
    <3>1. i \in 1 .. Len(log)
      BY <1>1, <2>1, <2>3
    <3> QED
      BY <1>2, <2>1, <3>1 DEF Overtaken
  <2> QED
    BY <2>2, <2>3
<1> QED
  BY <1>2, <1>3, <1>4

-----------------------------------------------------------------------------
(* What the owner's steps do to the status, and beside a capture in flight. *)

\* What a step of the owner that is neither a drain nor a reservation does to
\* the status.
Tracks == \/ UNCHANGED <<mem, pending>> /\ (durability' = durability \/ durability' # Durable)
          \/ /\ \E op : mem' = Append(mem, op)
             /\ pending' = pending \cup {Len(mem) + 1} /\ durability' # Durable

LEMMA RecordTracks ==
    ASSUME TypeOK, NEW op, NEW staged, Record(op, staged)
    PROVE  Tracks
<1>1. Durable.state = "Durable" /\ Pending.state = "Pending"
      /\ \A seq, code : Failed(seq, code).state = "Failed"
  BY DEF Durable, Pending, Failed
<1>2. /\ mem' = Append(mem, op) /\ pending' = pending \cup {Len(mem) + 1}
  BY DEF Record, TrackPending, NextSequence
<1>3. \/ durability' = RefreshDurability(pending \cup {Len(mem) + 1})
      \/ durability' = Failed(Len(mem) + 1, "StorageFailed")
  BY DEF Record, TrackPending, NextSequence
<1>4. durability' # Durable
  BY <1>1, <1>3 DEF RefreshDurability, IsFailed
<1> QED
  BY <1>2, <1>4 DEF Tracks

LEMMA QuietTracks ==
    ASSUME TypeOK, QuietStep
    PROVE  Tracks
<1>0. Durable.state = "Durable" /\ Pending.state = "Pending"
      /\ \A seq, code : Failed(seq, code).state = "Failed"
  BY DEF Durable, Pending, Failed
<1>1. ASSUME NEW op,
             \/ Type(op) \/ Mutate(op) \/ DeferInput(op) \/ ReplayInput(op)
             \/ BeginIntent(op) \/ CompleteIntent(op) \/ QueueLookup(op)
      PROVE  Tracks
  <2>1. CASE \E staged : Record(op, staged)
    BY <2>1, RecordTracks
  <2>2. CASE ~\E staged : Record(op, staged)
    BY <1>1, <2>2 DEF Type, Mutate, DeferInput, ReplayInput, BeginIntent, CompleteIntent,
                      QueueLookup, appVars, Tracks
  <2> QED
    BY <2>1, <2>2
<1>2. ASSUME NEW op, CompleteLookup(op)
      PROVE  Tracks
  <2>1. CASE Record(op, FALSE)
    BY <2>1, RecordTracks
  <2>2. CASE /\ mem' = Append(mem, op) /\ pending' = pending \cup {NextSequence}
             /\ durability' = Failed(NextSequence, "StorageFailed")
    BY <1>0, <2>2 DEF Tracks, NextSequence
  <2>3. CASE UNCHANGED appVars
    BY <2>3 DEF Tracks, appVars
  <2> QED
    BY <1>2, <2>1, <2>2, <2>3 DEF CompleteLookup
<1>3. CASE RetryPersistence
  BY <1>0, <1>3 DEF RetryPersistence, Tracks
<1>4. CASE ExportRecovery \/ CompleteRecoveryExport \/ RetainFailedCapture \/ ShutdownPoll
             \/ DeadlineExpires
  BY <1>4 DEF ExportRecovery, CompleteRecoveryExport, RetainFailedCapture, ShutdownPoll,
              DeadlineExpires, Tracks, appVars
<1>5. ASSUME NEW skip, FlushAndQuit(skip)
      PROVE  Tracks
  <2>1. CASE draft # NoOp /\ ~skip
    BY <1>5, <2>1, RecordTracks DEF FlushAndQuit
  <2>2. CASE ~(draft # NoOp /\ ~skip)
    BY <1>5, <2>2 DEF FlushAndQuit, Tracks, appVars
  <2> QED
    BY <2>1, <2>2
<1>6. CASE Quit \/ QuitAbandoningCapture \/ Terminate \/ AbandonFailedCapture
  <2>1. (\E skip : FlushAndQuit(skip)) \/ UNCHANGED appVars
    BY <1>6 DEF Quit, QuitAbandoningCapture, Terminate, AbandonFailedCapture,
                AbandonAndQuit
  <2> QED
    BY <1>5, <2>1 DEF Tracks, appVars
<1>7. CASE Flush
  BY <1>7, RecordTracks DEF Flush
<1> QED
  BY <1>1, <1>2, <1>3, <1>4, <1>6, <1>7 DEF QuietStep

\* While a capture is in flight only the completion of an effect or a control
\* request records anything.
Quietly ==
    /\ save.state = "InFlight"
       => /\ save' = save /\ draft' = NoOp
          /\ \/ UNCHANGED <<mem, deferred>>
             \/ \E op \in IntentOps \cup ControlOps : mem' = Append(mem, op)
    /\ save'.state \in {"InFlight", "Ready"} => save'.state = save.state

LEMMA QuietBarrier ==
    ASSUME TypeOK, CaptureBarrier, QuietStep PROVE Quietly
<1>1. save.state = "InFlight" => draft = NoOp
  BY DEF CaptureBarrier
<1>2. NoSave.state \notin {"InFlight", "Ready"}
  BY DEF NoSave
<1>3. ASSUME NEW op \in DirectOps,
             Type(op) \/ Mutate(op) \/ DeferInput(op) \/ ReplayInput(op)
      PROVE  Quietly
  <2>1. CASE Type(op) \/ Mutate(op)
    BY <2>1 DEF Type, Mutate, TakesInput, Quietly, uiVars
  <2>2. CASE DeferInput(op)
    BY <1>1, <2>2 DEF DeferInput, Quietly, appVars
  <2>3. CASE ReplayInput(op)
    BY <2>3 DEF ReplayInput, Quietly
  <2> QED
    BY <1>3, <2>1, <2>2, <2>3
<1>4. ASSUME NEW op \in IntentOps, BeginIntent(op) \/ CompleteIntent(op) PROVE Quietly
  <2>1. CASE BeginIntent(op)
    BY <2>1 DEF BeginIntent, TakesInput, Quietly
  <2>2. CASE CompleteIntent(op)
    BY <1>1, <2>2 DEF CompleteIntent, Record, Quietly, appVars
  <2> QED
    BY <1>4, <2>1, <2>2
<1>5. ASSUME NEW op \in ControlOps, QueueLookup(op) \/ CompleteLookup(op) PROVE Quietly
  <2>1. CASE QueueLookup(op)
    BY <2>1 DEF QueueLookup, Quietly
  <2>2. CASE CompleteLookup(op)
    BY <1>1, <2>2 DEF CompleteLookup, Record, Quietly, appVars
  <2> QED
    BY <1>5, <2>1, <2>2
<1>6. CASE RetryPersistence
  BY <1>6 DEF RetryPersistence, TakesInput, Quietly, uiVars
<1>7. CASE ExportRecovery \/ CompleteRecoveryExport
  BY <1>1, <1>7 DEF ExportRecovery, CompleteRecoveryExport, Quietly, appVars
<1>8. ASSUME NEW skip, FlushAndQuit(skip), save.state = "InFlight"
      PROVE  UNCHANGED <<mem, deferred>> /\ draft' = NoOp
  BY <1>1, <1>8 DEF FlushAndQuit, appVars
<1>9. CASE Quit \/ QuitAbandoningCapture \/ Terminate \/ AbandonFailedCapture
  <2>1. (save' = save \/ save' = NoSave) /\ (save.state = "InFlight" => save' = save)
    BY <1>9 DEF Quit, QuitAbandoningCapture, Terminate, AbandonFailedCapture,
                AbandonAndQuit
  <2>2. (\E skip : FlushAndQuit(skip))
          \/ UNCHANGED <<appVars, draft, inflight, requests, run, quit>>
    BY <1>9 DEF Quit, QuitAbandoningCapture, Terminate, AbandonFailedCapture,
                AbandonAndQuit
  <2>3. save.state = "InFlight" => UNCHANGED <<mem, deferred>> /\ draft' = NoOp
    BY <1>1, <1>8, <2>2 DEF appVars
  <2> QED
    BY <1>2, <2>1, <2>3 DEF Quietly
<1>10. CASE Flush
  BY <1>10 DEF Flush, Quietly
<1>11. CASE RetainFailedCapture \/ ShutdownPoll \/ DeadlineExpires
  BY <1>1, <1>11 DEF RetainFailedCapture, ShutdownPoll, DeadlineExpires, Quietly,
     appVars, uiVars
<1> QED
  BY <1>3, <1>4, <1>5, <1>6, <1>7, <1>9, <1>10, <1>11 DEF QuietStep

-----------------------------------------------------------------------------
(* The store and the memory.                                                *)

LEMMA QuietPrefix == ASSUME PrefixInv, QuietStep PROVE PrefixInv'
<1>1. AckInv' /\ TypeOK /\ TypeOK' /\ CaptureInv /\ AcknowledgedIsStored
  BY QuietAck DEF PrefixInv, AckInv
<1>2. /\ UNCHANGED <<retained, out, results, log, durable>>
      /\ Keeps \/ \E op : Records(op)
  BY <1>1, QuietFootprint
<1>3. Quietly /\ Tracks
  BY <1>1, QuietBarrier, QuietTracks DEF PrefixInv
<1>4. /\ log \in Seq(Ops) /\ mem \in Seq(Ops) /\ requests \in Seq(Requests)
      /\ Len(log) \in Nat /\ Len(mem) \in Nat /\ durable \in Nat
      /\ mem' \in Seq(Ops) /\ Len(mem') \in Nat
  BY <1>1, MemberOfCommits DEF TypeOK, AppTypeOK
<1>5. \/ mem' = mem /\ pending' = pending /\ (durability' = durability \/ durability' # Durable)
      \/ /\ \E op \in Ops : mem' = Append(mem, op)
         /\ pending' = pending \cup {Len(mem) + 1} /\ durability' # Durable
  <2>1. mem' = mem \/ \E op \in Ops : mem' = Append(mem, op)
    BY <1>2 DEF Keeps, Records
  <2>2. \A op : Append(mem, op) # mem
    BY <1>4
  <2> QED
    BY <1>3, <2>1, <2>2 DEF Tracks
<1>6. /\ Len(mem) <= Len(mem') /\ Len(mem') <= Len(mem) + 1
      /\ mem' # mem => Len(mem') = Len(mem) + 1
      /\ \A i \in 1 .. Len(mem) : mem'[i] = mem[i]
      /\ pending \subseteq pending'
      /\ \A i \in 1 .. Len(mem') : i \in 1 .. Len(mem) \/ i \in pending'
  <2>1. CASE mem' = mem
    BY <1>4, <1>5, <2>1
  <2>2. ASSUME NEW op \in Ops, mem' = Append(mem, op)
        PROVE  /\ Len(mem') = Len(mem) + 1
               /\ \A i \in 1 .. Len(mem) : mem'[i] = mem[i]
    BY <1>4, <2>2, AppendPart
  <2>3. CASE mem' # mem
    <3>1. Len(mem') = Len(mem) + 1 /\ \A i \in 1 .. Len(mem) : mem'[i] = mem[i]
      BY <1>5, <2>2, <2>3
    <3>2. pending' = pending \cup {Len(mem) + 1}
      BY <1>5, <2>3
    <3> QED
      BY <1>4, <3>1, <3>2
  <2> QED
    BY <2>1, <2>3
<1>7. HeldMatches'
  <2>1. ASSUME NEW i \in 1 .. Len(requests'), requests'[i].kind = "Commit"
        PROVE  requests'[i].seq \in 1 .. Len(mem') /\ requests'[i].op = mem'[requests'[i].seq]
    <3>1. CASE i \in 1 .. Len(requests) /\ requests'[i] = requests[i]
      <4>1. requests[i].seq \in 1 .. Len(mem) /\ requests[i].op = mem[requests[i].seq]
        BY <2>1, <3>1 DEF PrefixInv, HeldMatches
      <4>2. requests[i].seq \in 1 .. Len(mem')
        BY <1>4, <1>6, <4>1
      <4>3. mem'[requests[i].seq] = mem[requests[i].seq]
        BY <1>6, <4>1
      <4> QED
        BY <3>1, <4>1, <4>2, <4>3
    <3>2. CASE \E op : requests'[i] = Request("Commit", Len(mem) + 1, op)
                       /\ mem' = Append(mem, op) /\ op \in Ops
      BY <1>4, <3>2, AppendPart DEF Request
    <3>3. CASE \E n : requests'[i] = Request("Retry", n, NoOp)
      BY <2>1, <3>3 DEF Request
    <3>4. \/ i \in 1 .. Len(requests) /\ requests'[i] = requests[i]
          \/ i = Len(requests) + 1
             /\ \/ \E op : /\ requests'[i] = Request("Commit", Len(mem) + 1, op)
                           /\ mem' = Append(mem, op) /\ op \in Ops
                \/ \E n : requests'[i] = Request("Retry", n, NoOp)
      <4>1. CASE requests' = requests
        BY <2>1, <4>1
      <4>2. ASSUME NEW r, requests' = Append(requests, r)
            PROVE  \/ i \in 1 .. Len(requests) /\ requests'[i] = requests[i]
                   \/ i = Len(requests) + 1 /\ requests'[i] = r
        BY <1>4, <2>1, <4>2
      <4> QED
        BY <1>2, <4>1, <4>2 DEF Keeps, Records
    <3> QED
      BY <3>1, <3>2, <3>3, <3>4
  <2>2. \A r \in retained' : r.seq \in 1 .. Len(mem') /\ r.op = mem'[r.seq]
    BY <1>2, <1>4, <1>6 DEF PrefixInv, HeldMatches
  <2> QED
    BY <2>1, <2>2 DEF HeldMatches
<1>8. /\ \A i \in Overtaken' : i \in Overtaken \/ Len(mem) < i
      /\ Len(log) <= Len(mem) => Overtaken' = Overtaken
  BY <1>1, <1>2, <1>4, <1>6, GrowingMemory
<1>9. save.state # "InFlight" => Len(log) <= Len(mem)
  BY DEF PrefixInv, StoreIsPrefix, CaptureAhead
<1>10. Untouched => Untouched'
  <2>1. Len(log) <= Len(mem) => Len(log') <= Len(mem')
    BY <1>2, <1>4, <1>6
  <2> QED
    BY <1>8, <2>1 DEF Untouched
<1>11. CaptureBarrier'
  <2>1. save'.state = "InFlight"
        => draft' = NoOp /\ save'.seq <= Len(mem') + 1
    <3> SUFFICES ASSUME save'.state = "InFlight"
                 PROVE  draft' = NoOp /\ save'.seq <= Len(mem') + 1
      OBVIOUS
    <3>1. save' = save /\ save.state = "InFlight" /\ draft' = NoOp
      BY <1>3 DEF Quietly
    <3>2. save.seq \in Nat /\ save.seq <= Len(mem) + 1
      BY <1>1, <3>1 DEF TypeOK, UiTypeOK, NoSave, PrefixInv, CaptureBarrier
    <3> QED
      BY <1>4, <1>6, <3>1, <3>2
  <2>2. ASSUME save'.state = "InFlight", NEW i \in save'.seq .. Len(mem')
        PROVE  mem'[i] \in IntentOps \cup ControlOps
    <3>1. save' = save /\ save.state = "InFlight"
      BY <1>3, <2>2 DEF Quietly
    <3>2. save.seq \in Nat \ {0}
      BY <1>1, <3>1 DEF TypeOK, UiTypeOK, NoSave
    <3>3. CASE i \in 1 .. Len(mem)
      <4>1. i \in save.seq .. Len(mem)
        BY <1>4, <2>2, <3>1, <3>2, <3>3
      <4>2. mem[i] \in IntentOps \cup ControlOps
        BY <3>1, <4>1 DEF PrefixInv, CaptureBarrier
      <4> QED
        BY <1>6, <3>3, <4>2
    <3>4. CASE i \notin 1 .. Len(mem)
      <4>1. i = Len(mem) + 1 /\ mem' # mem
        BY <1>4, <1>6, <2>2, <3>1, <3>2, <3>4
      <4>2. PICK op \in IntentOps \cup ControlOps : mem' = Append(mem, op)
        BY <1>3, <3>1, <4>1 DEF Quietly
      <4>3. op \in Ops
        BY DEF Ops
      <4> QED
        BY <1>4, <4>1, <4>2, <4>3, AppendPart
    <3> QED
      BY <3>3, <3>4
  <2>3. ASSUME save'.state = "InFlight", save'.seq = Len(mem') + 1
        PROVE  deferred' = {} /\ Overtaken' = {}
    <3>1. save' = save /\ save.state = "InFlight" /\ save.seq <= Len(mem) + 1
      BY <1>3, <2>3 DEF Quietly, PrefixInv, CaptureBarrier
    <3>2. mem' = mem
      BY <1>4, <1>6, <2>3, <3>1
    <3>3. \A op : Append(mem, op) # mem
      BY <1>4
    <3>4. deferred' = deferred
      BY <1>3, <3>1, <3>2, <3>3 DEF Quietly
    <3>5. deferred = {} /\ Overtaken = {}
      BY <2>3, <3>1, <3>2 DEF PrefixInv, CaptureBarrier
    <3> QED
      BY <1>2, <3>2, <3>4, <3>5, SameStore
  <2>4. save'.state = "Ready" => Overtaken' = {}
    BY <1>3, <1>8, <1>9 DEF Quietly, PrefixInv, CaptureBarrier
  <2>5. Has(requests', "Capture") => Has(requests, "Capture")
    <3>1. CASE requests' = requests
      BY <3>1
    <3>2. CASE \E r : r.kind # "Capture" /\ requests' = Append(requests, r)
      BY <1>4, <3>2, AppendOther
    <3>3. \A n, op : /\ Request("Commit", n, op).kind # "Capture"
                     /\ Request("Retry", n, op).kind # "Capture"
      BY DEF Request
    <3> QED
      BY <1>2, <3>1, <3>2, <3>3 DEF Keeps, Records
  <2>6. Has(requests', "Capture") => Untouched'
    BY <1>10, <2>5 DEF PrefixInv, CaptureBarrier
  <2>7. ASSUME NEW a, TrueAnswer(a), a.kind = "Capture" => save.state = "InFlight"
        PROVE  TrueAnswer(a)'
    <3>1. a.kind = "Capture" => save' = save
      BY <1>3, <2>7 DEF Quietly
    <3>2. ASSUME a.kind = "Sequenced", a.ok
          PROVE  /\ a.seq \in 1 .. Len(log') /\ a.seq <= Len(mem')
                 /\ log'[a.seq] = mem'[a.seq]
      <4>1. a.seq \in 1 .. Len(log) /\ a.seq <= Len(mem) /\ log[a.seq] = mem[a.seq]
        BY <2>7, <3>2 DEF TrueAnswer
      <4>2. a.seq \in 1 .. Len(mem)
        BY <1>4, <4>1
      <4> QED
        BY <1>2, <1>4, <1>6, <4>1, <4>2
    <3> QED
      BY <1>2, <1>10, <2>7, <3>1, <3>2 DEF TrueAnswer, Reports
  <2>8. /\ Has(out, "Capture") => save.state = "InFlight"
        /\ Has(results, "Capture") => save.state = "InFlight"
    BY <1>1 DEF CaptureInv, OneCapture
  <2>9. TrueAnswers(out)' /\ TrueAnswers(results)'
    BY <1>2, <2>7, <2>8 DEF PrefixInv, CaptureBarrier, TrueAnswers, Has
  <2> QED
    BY <2>1, <2>2, <2>3, <2>4, <2>6, <2>9 DEF CaptureBarrier
<1>12. StoreIsPrefix' /\ OpenPending'
  <2>1. ASSUME NEW i \in Overtaken', i \notin Overtaken
        PROVE  /\ i = Len(mem) + 1 /\ log'[i] \in CaptureOps
               /\ mem'[i] \in IntentOps \cup ControlOps /\ i \in pending'
               /\ durable < i /\ Overtaken = {}
    <3>1. ~(Len(log) <= Len(mem)) /\ CaptureAhead
      BY <1>8, <2>1 DEF PrefixInv, StoreIsPrefix
    <3>2. /\ save.state = "InFlight" /\ Overtaken = {}
          /\ Len(log) = Len(mem) + 1 /\ log[Len(mem) + 1] \in CaptureOps
      BY <1>1, <3>1, AheadLength DEF CaptureAhead, PrefixInv, CaptureBarrier
    <3>3. i \in 1 .. Len(log') /\ i <= Len(mem') /\ Len(mem) < i
      BY <1>8, <2>1 DEF Overtaken
    <3>4. i = Len(mem) + 1 /\ mem' # mem
      BY <1>2, <1>4, <1>6, <3>2, <3>3
    <3>5. PICK op \in IntentOps \cup ControlOps : mem' = Append(mem, op)
      BY <1>3, <3>2, <3>4 DEF Quietly
    <3>6. op \in Ops
      BY DEF Ops
    <3>7. mem'[i] = op
      BY <1>4, <3>4, <3>5, <3>6, AppendPart
    <3>8. i \in pending'
      BY <1>4, <1>5, <3>4
    <3>9. durable < i
      BY <1>4, <3>4 DEF PrefixInv
    <3> QED
      BY <1>2, <3>2, <3>4, <3>7, <3>8, <3>9
  <2>2. ASSUME NEW i \in Overtaken
        PROVE  /\ log'[i] \in CaptureOps /\ mem'[i] \in IntentOps \cup ControlOps
               /\ i \in pending' /\ durable' < i
    <3>1. /\ i \in 1 .. Len(mem) /\ log[i] \in CaptureOps
          /\ mem[i] \in IntentOps \cup ControlOps
          /\ i \in pending /\ durable < i
      BY <1>4, <2>2 DEF PrefixInv, StoreIsPrefix, OpenPending, Overtaken
    <3> QED
      BY <1>2, <1>6, <3>1
  <2>3. Len(log') <= Len(mem') \/ CaptureAhead'
    <3>1. CASE Len(log) <= Len(mem)
      BY <1>2, <1>4, <1>6, <3>1
    <3>2. CASE CaptureAhead
      <4>1. save' = save /\ Len(log) = Len(mem) + 1
        BY <1>1, <1>3, <3>2, AheadLength DEF CaptureAhead, Quietly
      <4>2. CASE mem' = mem
        BY <1>2, <3>2, <4>1, <4>2 DEF CaptureAhead
      <4>3. CASE mem' # mem
        BY <1>2, <1>4, <1>6, <4>1, <4>3
      <4> QED
        BY <4>2, <4>3
    <3> QED
      BY <3>1, <3>2 DEF PrefixInv, StoreIsPrefix
  <2>4. \A i, j \in Overtaken' : i = j
    BY <2>1 DEF PrefixInv, StoreIsPrefix
  <2>5. StoreIsPrefix'
    BY <1>2, <2>1, <2>2, <2>3, <2>4 DEF StoreIsPrefix
  <2>6. (Len(log') + 1) .. Len(mem') \subseteq pending'
    <3> SUFFICES ASSUME NEW i \in (Len(log') + 1) .. Len(mem') PROVE i \in pending'
      OBVIOUS
    <3>1. i \in 1 .. Len(mem')
      BY <1>2, <1>4
    <3>2. CASE i \in 1 .. Len(mem)
      <4>1. i \in (Len(log) + 1) .. Len(mem)
        BY <1>2, <1>4, <3>2
      <4> QED
        BY <1>6, <4>1 DEF PrefixInv, OpenPending
    <3> QED
      BY <1>6, <3>1, <3>2
  <2>7. durability' = Durable => pending' = {}
    BY <1>5 DEF PrefixInv, OpenPending
  <2>8. \A i \in Overtaken' : durable' < i
    BY <1>2, <2>1, <2>2
  <2> QED
    BY <2>5, <2>6, <2>7, <2>8 DEF OpenPending
<1>13. durable' <= Len(mem')
  BY <1>2, <1>4, <1>6 DEF PrefixInv
<1> QED
  BY <1>1, <1>7, <1>11, <1>12, <1>13 DEF PrefixInv

LEMMA HeldKept ==
    ASSUME TypeOK, HeldMatches, Len(mem') \in Nat, Len(mem) <= Len(mem'),
           \A i \in 1 .. Len(mem) : mem'[i] = mem[i],
           \/ requests' = requests
           \/ requests # <<>> /\ requests' = Tail(requests),
           \A r \in retained' : r \in retained
                                  \/ (r.seq \in 1 .. Len(mem) /\ r.op = mem[r.seq])
    PROVE  HeldMatches'
<1>1. requests \in Seq(Requests) /\ Len(mem) \in Nat
  BY MemberOfCommits
<1>2. ASSUME NEW i \in 1 .. Len(requests')
      PROVE  \E j \in 1 .. Len(requests) : requests'[i] = requests[j]
  <2>1. CASE requests' = requests
    BY <2>1
  <2>2. CASE requests # <<>> /\ requests' = Tail(requests)
    <3>1. i + 1 \in 1 .. Len(requests) /\ requests'[i] = requests[i + 1]
      BY <1>1, <2>2
    <3> QED
      BY <3>1
  <2> QED
    BY <2>1, <2>2
<1>3. \A i \in 1 .. Len(requests') :
        requests'[i].kind = "Commit"
        => requests'[i].seq \in 1 .. Len(mem) /\ requests'[i].op = mem[requests'[i].seq]
  <2> SUFFICES ASSUME NEW i \in 1 .. Len(requests'), requests'[i].kind = "Commit"
               PROVE  /\ requests'[i].seq \in 1 .. Len(mem)
                      /\ requests'[i].op = mem[requests'[i].seq]
    OBVIOUS
  <2>1. PICK j \in 1 .. Len(requests) : requests'[i] = requests[j]
    BY <1>2
  <2> QED
    BY <2>1 DEF HeldMatches
<1>4. \A r \in retained' : r.seq \in 1 .. Len(mem) /\ r.op = mem[r.seq]
  BY DEF HeldMatches
<1>5. \A n \in 1 .. Len(mem) : n \in 1 .. Len(mem')
  BY <1>1
<1> QED
  BY <1>3, <1>4, <1>5 DEF HeldMatches

LEMMA FewerRequests ==
    ASSUME TypeOK, \/ requests' = requests
                   \/ requests # <<>> /\ requests' = Tail(requests)
    PROVE  Has(requests', "Capture") => Has(requests, "Capture")
<1>1. requests \in Seq(Requests)
  BY MemberOfCommits
<1>2. CASE requests' = requests
  BY <1>2
<1>3. CASE requests # <<>> /\ requests' = Tail(requests)
  BY <1>1, <1>3, TailOther
<1> QED
  BY <1>2, <1>3

\* What TrueAnswer says of an answer after the step.
TrueNext(a) ==
    /\ a.kind = "Sequenced" /\ a.ok
       => /\ a.seq \in 1 .. Len(log') /\ a.seq <= Len(mem')
          /\ log'[a.seq] = mem'[a.seq]
    /\ a.kind = "Capture" /\ Reports(a) => log'[a.seq] = save'.op
    /\ a.kind = "Capture" /\ ~Reports(a) => Untouched'

LEMMA NextAnswers ==
    ASSUME \A i \in 1 .. Len(out') : TrueNext(out'[i]),
           \A i \in 1 .. Len(results') : TrueNext(results'[i])
    PROVE  TrueAnswers(out)' /\ TrueAnswers(results)'
<1>1. TrueAnswers(out)'
  <2>1. ASSUME NEW i \in 1 .. Len(out') PROVE TrueAnswer(out[i])'
    <3>1. TrueNext(out'[i])
      OBVIOUS
    <3> QED
      BY <3>1 DEF TrueNext, TrueAnswer, Reports
  <2> QED
    BY <2>1 DEF TrueAnswers
<1>2. TrueAnswers(results)'
  <2>1. ASSUME NEW i \in 1 .. Len(results') PROVE TrueAnswer(results[i])'
    <3>1. TrueNext(results'[i])
      OBVIOUS
    <3> QED
      BY <3>1 DEF TrueNext, TrueAnswer, Reports
  <2> QED
    BY <2>1 DEF TrueAnswers
<1> QED
  BY <1>1, <1>2

LEMMA SettledAnswer ==
    ASSUME UNCHANGED <<mem, log, save>>, NEW a, TrueAnswer(a) PROVE TrueNext(a)
<1>1. Untouched => Untouched'
  BY SameStore DEF Untouched
<1> QED
  BY <1>1 DEF TrueAnswer, TrueNext

\* Memory and store stay; requests are taken and answers move on.
LEMMA SettledPrefix ==
    ASSUME PrefixInv, AckInv', UNCHANGED <<mem, log, save, draft, retained>>,
           durable' <= Len(mem), deferred' \subseteq deferred,
           \A i \in Overtaken : i \in pending' /\ durable' < i,
           (Len(log) + 1) .. Len(mem) \subseteq pending',
           durability' = Durable => pending' = {},
           \/ requests' = requests
           \/ requests # <<>> /\ requests' = Tail(requests),
           \A i \in 1 .. Len(out') :
               \/ \E j \in 1 .. Len(out) : out'[i] = out[j]
               \/ out'[i].kind # "Capture" /\ (out'[i].kind = "Sequenced" => ~out'[i].ok),
           \A i \in 1 .. Len(results') :
               \/ \E j \in 1 .. Len(results) : results'[i] = results[j]
               \/ \E j \in 1 .. Len(out) : results'[i] = out[j]
    PROVE  PrefixInv'
<1>1. TypeOK /\ TypeOK'
  BY DEF PrefixInv, AckInv
<1>2. Len(mem) \in Nat
  BY <1>1, MemberOfCommits
<1>3. HeldMatches'
  BY <1>1, <1>2, HeldKept DEF PrefixInv
<1>4. Overtaken' = Overtaken
  BY SameStore
<1>5. CaptureBarrier'
  <2>1. Has(requests', "Capture") => Untouched'
    BY <1>1, <1>4, FewerRequests DEF PrefixInv, CaptureBarrier, Untouched
  <2>2. /\ \A j \in 1 .. Len(out) : TrueNext(out[j])
        /\ \A j \in 1 .. Len(results) : TrueNext(results[j])
    BY SettledAnswer DEF PrefixInv, CaptureBarrier, TrueAnswers
  <2>3. /\ \A i \in 1 .. Len(out') : TrueNext(out'[i])
        /\ \A i \in 1 .. Len(results') : TrueNext(results'[i])
    <3>1. \A a : a.kind # "Capture" /\ (a.kind = "Sequenced" => ~a.ok) => TrueNext(a)
      BY DEF TrueNext
    <3> QED
      BY <2>2, <3>1
  <2>4. TrueAnswers(out)' /\ TrueAnswers(results)'
    BY <2>3, NextAnswers
  <2> QED
    BY <1>4, <2>1, <2>4 DEF PrefixInv, CaptureBarrier
<1>6. StoreIsPrefix' /\ OpenPending'
  BY <1>4 DEF PrefixInv, StoreIsPrefix, CaptureAhead, OpenPending
<1> QED
  BY <1>3, <1>5, <1>6 DEF PrefixInv

\* A store that grows beside a memory that stays takes back no answer.
LEMMA GrownAnswer ==
    ASSUME TypeOK, UNCHANGED <<mem, save>>, NEW op \in Ops, log' = Append(log, op),
           NEW a, TrueAnswer(a), a.kind = "Capture" => Reports(a) \/ Untouched',
           a.kind = "Capture" /\ Reports(a) => a.seq \in 1 .. Len(log)
    PROVE  TrueNext(a)
<1>1. Len(log') = Len(log) + 1 /\ \A i \in 1 .. Len(log) : log'[i] = log[i]
  BY GrowingStore
<1>2. Len(log) \in Nat
  BY MemberOfCommits
<1>3. \A i \in 1 .. Len(log) : i \in 1 .. Len(log')
  BY <1>1, <1>2
<1> QED
  BY <1>1, <1>3 DEF TrueAnswer, TrueNext

\* One batch goes to the store: it is the owner's next one, or it changes nothing.
Persists == /\ UNCHANGED <<mem, durable>>
            /\ \/ UNCHANGED log
               \/ Len(log) < Len(mem) /\ log' = Append(log, mem[Len(log) + 1])

LEMMA CommitPrefix ==
    ASSUME PrefixInv, AckInv', NEW c \in Commits,
           c.seq \in 1 .. Len(mem), c.op = mem[c.seq],
           StoreAccepts(c) \/ StoreRejects(c),
           UNCHANGED <<mem, durable, save, draft, deferred, pending, durability, results>>,
           \/ requests' = requests
           \/ requests # <<>> /\ requests' = Tail(requests),
           ~Has(out', "Capture"),
           \A i \in 1 .. Len(out') : out'[i].kind = "Sequenced" /\ out'[i].ok
                                     => out'[i].seq = c.seq /\ StoreAccepts(c),
           \A r \in retained' : r \in retained \/ r = c
    PROVE  PrefixInv' /\ Persists
<1>1. TypeOK /\ TypeOK' /\ CaptureInv /\ HonestAnswers(results) /\ AcknowledgedIsStored
  BY DEF PrefixInv, AckInv
<1>2. /\ log \in Seq(Ops) /\ mem \in Seq(Ops) /\ Len(log) \in Nat /\ Len(mem) \in Nat
  BY <1>1, MemberOfCommits
<1>3. c.seq \in Nat \ {0} /\ c.op \in Ops
  BY DEF Commits
<1>4. HeldMatches'
  BY <1>1, <1>2, HeldKept DEF PrefixInv
<1>5. \A op : Append(log, op) # log
  BY <1>2
<1>6. CASE log' = log
  <2>1. Overtaken' = Overtaken
    BY <1>6, SameStore
  <2>2. Has(requests', "Capture") => Untouched'
    BY <1>1, <1>6, <2>1, FewerRequests DEF PrefixInv, CaptureBarrier, Untouched
  <2>3. ASSUME NEW i \in 1 .. Len(out') PROVE TrueNext(out'[i])
    <3>1. out'[i].kind # "Capture"
      BY DEF Has
    <3>2. ASSUME out'[i].kind = "Sequenced", out'[i].ok
          PROVE  /\ out'[i].seq \in 1 .. Len(log') /\ out'[i].seq <= Len(mem')
                 /\ log'[out'[i].seq] = mem'[out'[i].seq]
      <4>1. out'[i].seq = c.seq /\ Replays(c)
        BY <1>5, <1>6, <3>2 DEF StoreAccepts
      <4> QED
        BY <1>2, <1>6, <4>1 DEF Replays
    <3> QED
      BY <3>1, <3>2 DEF TrueNext
  <2>4. \A i \in 1 .. Len(results') : TrueNext(results'[i])
    BY <1>6, SettledAnswer DEF PrefixInv, CaptureBarrier, TrueAnswers
  <2>5. CaptureBarrier'
    BY <1>6, <2>1, <2>2, <2>3, <2>4, NextAnswers DEF PrefixInv, CaptureBarrier
  <2>6. StoreIsPrefix' /\ OpenPending'
    BY <1>6, <2>1 DEF PrefixInv, StoreIsPrefix, CaptureAhead, OpenPending
  <2> QED
    BY <1>4, <1>6, <2>5, <2>6 DEF PrefixInv, Persists
<1>7. CASE log' = Append(log, c.op) /\ c.seq = Len(log) + 1
  <2>1. Len(log) < Len(mem) /\ Len(log') = Len(log) + 1 /\ Len(log') <= Len(mem)
    BY <1>2, <1>7
  <2>2. /\ Overtaken \subseteq Overtaken'
        /\ \A i \in Overtaken' : i \in Overtaken \/ (i = Len(log) + 1 /\ c.op # mem[i])
        /\ \A i \in 1 .. Len(log) : log'[i] = log[i]
    BY <1>1, <1>3, <1>7, GrowingStore
  <2>3. Overtaken' = Overtaken
    BY <1>7, <2>2
  <2>4. Untouched => Untouched'
    BY <2>1, <2>3 DEF Untouched
  <2>5. Has(requests', "Capture") => Untouched'
    BY <1>1, <2>4, FewerRequests DEF PrefixInv, CaptureBarrier
  <2>6. ASSUME NEW i \in 1 .. Len(out') PROVE TrueNext(out'[i])
    <3>1. out'[i].kind # "Capture"
      BY DEF Has
    <3>2. log'[Len(log) + 1] = mem[Len(log) + 1]
      BY <1>1, <1>3, <1>7, GrowingStore
    <3>3. ASSUME out'[i].kind = "Sequenced", out'[i].ok
          PROVE  /\ out'[i].seq \in 1 .. Len(log') /\ out'[i].seq <= Len(mem')
                 /\ log'[out'[i].seq] = mem'[out'[i].seq]
      BY <1>2, <1>7, <2>1, <3>2, <3>3
    <3> QED
      BY <3>1, <3>3 DEF TrueNext
  <2>7. ASSUME NEW i \in 1 .. Len(results') PROVE TrueNext(results'[i])
    <3>1. TrueAnswer(results[i]) /\ results' = results
      BY DEF PrefixInv, CaptureBarrier, TrueAnswers
    <3>2. ASSUME results[i].kind = "Capture"
          PROVE  /\ Reports(results[i]) \/ Untouched'
                 /\ Reports(results[i]) => results[i].seq \in 1 .. Len(log)
      <4>1. save.state = "InFlight" /\ results[i].seq = save.seq
        BY <1>1, <3>2 DEF CaptureInv, OneCapture, CaptureAnswerNamed, Has
      <4>2. save.seq \in Nat \ {0}
        BY <1>1, <4>1 DEF TypeOK, UiTypeOK, NoSave
      <4>3. Reports(results[i]) => results[i].seq <= Len(log)
        BY <1>1 DEF HonestAnswers
      <4> QED
        BY <1>2, <2>4, <3>1, <3>2, <4>1, <4>2, <4>3 DEF TrueAnswer
    <3>3. TrueNext(results[i])
      BY <1>1, <1>3, <1>7, <3>1, <3>2, GrownAnswer
    <3> QED
      BY <3>1, <3>3
  <2>8. CaptureBarrier'
    BY <2>3, <2>5, <2>6, <2>7, NextAnswers DEF PrefixInv, CaptureBarrier
  <2>9. StoreIsPrefix'
    <3>1. \A i \in Overtaken : i \in 1 .. Len(log)
      BY DEF Overtaken
    <3> QED
      BY <2>1, <2>2, <2>3, <3>1 DEF PrefixInv, StoreIsPrefix
  <2>10. OpenPending'
    <3>1. \A i \in (Len(log') + 1) .. Len(mem) : i \in (Len(log) + 1) .. Len(mem)
      BY <1>2, <2>1
    <3> QED
      BY <2>3, <3>1 DEF PrefixInv, OpenPending
  <2> QED
    BY <1>4, <1>7, <2>1, <2>8, <2>9, <2>10 DEF PrefixInv, Persists
<1> QED
  BY <1>1, <1>3, <1>6, <1>7, StoreStep

LEMMA LaneCommitPrefix ==
    ASSUME PrefixInv, LaneCommit PROVE PrefixInv' /\ Persists
<1> DEFINE c == [seq |-> Head(requests).seq, op |-> Head(requests).op]
<1>1. AckInv' /\ TypeOK
  BY LaneCommitAck DEF PrefixInv, AckInv
<1>2. /\ Receive("Commit")
      /\ Succeeds(c, FALSE, <<>>) \/ Fails(c, FALSE, <<>>)
      /\ UNCHANGED <<mem, durable, save, draft, deferred, pending, durability, results>>
  BY DEF LaneCommit, ownerVars, uiVars, appVars
<1>3. /\ requests # <<>> /\ requests' = Tail(requests)
      /\ Head(requests) = requests[1] /\ 1 \in 1 .. Len(requests)
      /\ Head(requests).kind = "Commit"
  BY <1>1, <1>2, ReceiveType DEF Receive
<1>4. c \in Commits
  BY <1>1, <1>2, ReceiveType DEF Commits
<1>5. c.seq \in 1 .. Len(mem) /\ c.op = mem[c.seq]
  BY <1>3 DEF PrefixInv, HeldMatches
<1> HIDE DEF c
<1>6. /\ ~Has(out', "Capture")
      /\ \A i \in 1 .. Len(out') : out'[i].kind = "Sequenced" /\ out'[i].ok
                                   => out'[i].seq = c.seq /\ StoreAccepts(c)
  BY <1>1, <1>2, <1>4, CommitAnswer
<1>7. \A r \in retained' : r \in retained \/ r = c
  BY <1>2 DEF Succeeds, Fails, Forget
<1>8. StoreAccepts(c) \/ StoreRejects(c)
  BY <1>2 DEF Succeeds, Fails
<1> QED
  BY <1>1, <1>2, <1>3, <1>4, <1>5, <1>6, <1>7, <1>8, CommitPrefix

LEMMA LaneRetryNextPrefix ==
    ASSUME PrefixInv, LaneRetryNext PROVE PrefixInv' /\ Persists
<1>1. AckInv' /\ TypeOK
  BY LaneRetryNextAck DEF PrefixInv, AckInv
<1>2. PICK c \in retained : \/ Succeeds(c, TRUE, <<>>)
                            \/ Succeeds(c, TRUE, <<RetryFinished>>)
                            \/ Fails(c, TRUE, <<RetryFinished>>)
  BY DEF LaneRetryNext
<1>3. UNCHANGED <<mem, durable, save, draft, deferred, pending, durability, requests, results>>
  BY DEF LaneRetryNext, ownerVars, uiVars, appVars
<1>4. c \in Commits
  BY <1>1 DEF TypeOK, LaneTypeOK
<1>5. c.seq \in 1 .. Len(mem) /\ c.op = mem[c.seq]
  BY DEF PrefixInv, HeldMatches
<1>6. /\ ~Has(out', "Capture")
      /\ \A i \in 1 .. Len(out') : out'[i].kind = "Sequenced" /\ out'[i].ok
                                   => out'[i].seq = c.seq /\ StoreAccepts(c)
  BY <1>1, <1>2, <1>4, CommitAnswer
<1>7. \A r \in retained' : r \in retained \/ r = c
  BY <1>2 DEF Succeeds, Fails, Forget
<1>8. StoreAccepts(c) \/ StoreRejects(c)
  BY <1>2 DEF Succeeds, Fails
<1> QED
  BY <1>1, <1>3, <1>4, <1>5, <1>6, <1>7, <1>8, CommitPrefix

\* The owner's own state stays while the lane only takes requests and answers.
LEMMA OwnerOpen ==
    ASSUME PrefixInv, UNCHANGED <<durable, pending, durability>>
    PROVE  /\ \A i \in Overtaken : i \in pending' /\ durable' < i
           /\ (Len(log) + 1) .. Len(mem) \subseteq pending'
           /\ durability' = Durable => pending' = {}
           /\ durable' <= Len(mem)
BY DEF PrefixInv, StoreIsPrefix, OpenPending

LEMMA LaneRetryPrefix == ASSUME PrefixInv, LaneRetry PROVE PrefixInv'
<1>1. AckInv'
  BY LaneRetryAck DEF PrefixInv
<1>2. /\ requests # <<>> /\ requests' = Tail(requests)
      /\ UNCHANGED <<mem, log, save, draft, retained, durable, pending, durability,
                     deferred, results>>
  BY DEF LaneRetry, Receive, ownerVars, uiVars, appVars, storeVars
<1>3. out' = out \/ out' = <<Sequenced(Head(requests).seq, FALSE, "StorageFailed", TRUE),
                             RetryFinished>>
  BY DEF LaneRetry
<1>4. \A i \in 1 .. Len(out') :
        \/ \E j \in 1 .. Len(out) : out'[i] = out[j]
        \/ out'[i].kind # "Capture" /\ (out'[i].kind = "Sequenced" => ~out'[i].ok)
  BY <1>3 DEF Sequenced, RetryFinished
<1> QED
  BY <1>1, <1>2, <1>4, OwnerOpen, SettledPrefix

LEMMA LaneSendPrefix == ASSUME PrefixInv, LaneSend PROVE PrefixInv'
<1>1. AckInv'
  BY LaneSendAck DEF PrefixInv
<1>2. /\ out # <<>> /\ out' = Tail(out)
      /\ UNCHANGED <<mem, log, save, draft, retained, durable, pending, durability,
                     deferred, requests>>
      /\ results' = results \/ results' = Append(results, Head(out))
  BY DEF LaneSend, ownerVars, uiVars, appVars, storeVars
<1>3. out \in Seq(Results) /\ results \in Seq(Results)
  BY MemberOfCommits DEF PrefixInv, AckInv
<1>4. \A i \in 1 .. Len(out') : \E j \in 1 .. Len(out) : out'[i] = out[j]
  <2> SUFFICES ASSUME NEW i \in 1 .. Len(out')
               PROVE  \E j \in 1 .. Len(out) : out'[i] = out[j]
    OBVIOUS
  <2>1. i + 1 \in 1 .. Len(out) /\ out'[i] = out[i + 1]
    BY <1>2, <1>3
  <2> QED
    BY <2>1
<1>5. \A i \in 1 .. Len(results') :
        \/ \E j \in 1 .. Len(results) : results'[i] = results[j]
        \/ \E j \in 1 .. Len(out) : results'[i] = out[j]
  <2>1. CASE results' = results
    BY <2>1
  <2>2. CASE results' = Append(results, Head(out))
    <3>1. ASSUME NEW i \in 1 .. Len(results')
          PROVE  \/ results'[i] = out[1] /\ 1 \in 1 .. Len(out)
                 \/ i \in 1 .. Len(results) /\ results'[i] = results[i]
      BY <1>2, <1>3, <2>2
    <3> QED
      BY <3>1
  <2> QED
    BY <1>2, <2>1, <2>2
<1> QED
  BY <1>1, <1>2, <1>4, <1>5, OwnerOpen, SettledPrefix

\* The store takes a capture only when it holds nothing the owner has not, and
\* lacks no capture; a request or an effect may have overtaken the capture since.
Captures == /\ UNCHANGED <<mem, durable>>
            /\ \/ UNCHANGED log
               \/ Untouched /\ \E op \in CaptureOps : log' = Append(log, op)

LEMMA LaneCapturePrefix ==
    ASSUME PrefixInv, LaneCapture PROVE PrefixInv' /\ Captures
<1> DEFINE c == [seq |-> Head(requests).seq, op |-> Head(requests).op]
<1>1. /\ AckInv' /\ TypeOK /\ TypeOK' /\ CaptureInv /\ CaptureInv'
      /\ AcknowledgedIsStored
  BY LaneCaptureAck DEF PrefixInv, AckInv
<1>2. /\ Receive("Capture")
      /\ UNCHANGED <<mem, durable, save, draft, deferred, pending, durability,
                     retained, results>>
  BY DEF LaneCapture, ownerVars, uiVars, appVars
<1>3. \E ok \in BOOLEAN, code \in {"none", "AlreadyCaptured"} :
         /\ out' = <<CaptureResult(c.seq, ok, code)>>
         /\ IF ok /\ code = "none" THEN StoreAccepts(c) ELSE UNCHANGED log
  BY DEF LaneCapture, StoreRejects
<1>4. /\ requests # <<>> /\ requests' = Tail(requests)
      /\ Head(requests) = requests[1] /\ 1 \in 1 .. Len(requests)
      /\ Head(requests).kind = "Capture"
      /\ c.seq \in Nat \ {0} /\ c.op \in Ops
  BY <1>1, <1>2, ReceiveType DEF Receive
<1>5. Has(requests, "Capture")
  BY <1>4 DEF Has
<1>6. /\ save.state = "InFlight" /\ ~Has(results, "Capture")
      /\ c.seq = save.seq /\ c.op = save.op /\ save.op \in CaptureOps
  BY <1>1, <1>4, <1>5 DEF CaptureInv, OneCapture, CaptureRequestNamed, TypeOK, UiTypeOK,
                          NoSave
<1>7. /\ Untouched /\ Len(log) <= Len(mem) /\ Overtaken = {}
      /\ save.seq <= Len(mem) + 1
      /\ \A i \in save.seq .. Len(mem) : mem[i] \in IntentOps \cup ControlOps
  BY <1>5, <1>6 DEF PrefixInv, CaptureBarrier, Untouched
<1> HIDE DEF c
<1>8. /\ log \in Seq(Ops) /\ mem \in Seq(Ops) /\ Len(log) \in Nat /\ Len(mem) \in Nat
      /\ requests \in Seq(Requests) /\ durable \in Nat
  BY <1>1, MemberOfCommits
<1>9. ~Has(requests', "Capture")
  BY <1>1, <1>4, <1>8, TailCapture DEF CaptureInv, OneCapture
<1>10. HeldMatches'
  BY <1>1, <1>2, <1>4, <1>8, HeldKept DEF PrefixInv
<1>11. /\ UNCHANGED log \/ (log' = Append(log, c.op) /\ c.seq = Len(log) + 1)
       /\ \A op : Append(log, op) # log
  BY <1>3, <1>8 DEF StoreAccepts
<1>12. \A i \in 1 .. Len(results) : results[i].kind # "Capture" /\ TrueAnswer(results[i])
  BY <1>6 DEF Has, PrefixInv, CaptureBarrier, TrueAnswers
<1>13. ASSUME NEW i \in 1 .. Len(out'), ~Reports(out'[i]) => Untouched'
       PROVE  TrueNext(out'[i])
  <2>1. PICK ok \in BOOLEAN, code \in {"none", "AlreadyCaptured"} :
          /\ out' = <<CaptureResult(c.seq, ok, code)>>
          /\ IF ok /\ code = "none" THEN StoreAccepts(c) ELSE UNCHANGED log
    BY <1>3
  <2>2. out'[i] = CaptureResult(c.seq, ok, code)
    BY <2>1
  <2>3. out'[i].kind = "Capture" /\ out'[i].seq = c.seq
        /\ out'[i].ok = ok /\ out'[i].code = code
    BY <2>2 DEF CaptureResult
  <2>4. Reports(out'[i]) => log'[c.seq] = c.op
    <3> SUFFICES ASSUME Reports(out'[i]) PROVE log'[c.seq] = c.op
      OBVIOUS
    <3>1. StoreAccepts(c)
      BY <2>1, <2>3 DEF Reports
    <3>2. CASE Replays(c) /\ UNCHANGED log
      BY <3>2 DEF Replays
    <3>3. CASE c.seq = Len(log) + 1 /\ log' = Append(log, c.op)
      BY <1>4, <1>8, <3>3, AppendPart
    <3> QED
      BY <3>1, <3>2, <3>3 DEF StoreAccepts
  <2> QED
    BY <1>2, <1>6, <1>13, <2>3, <2>4 DEF TrueNext
<1>14. CASE UNCHANGED log
  <2>1. Overtaken' = Overtaken /\ Untouched'
    BY <1>2, <1>7, <1>14, SameStore DEF Untouched
  <2>2. \A i \in 1 .. Len(results') : TrueNext(results'[i])
    BY <1>2, <1>12, <1>14, SettledAnswer
  <2>3. CaptureBarrier'
    BY <1>2, <1>9, <1>13, <2>1, <2>2, NextAnswers DEF PrefixInv, CaptureBarrier
  <2>4. StoreIsPrefix' /\ OpenPending'
    BY <1>2, <1>14, <2>1 DEF PrefixInv, StoreIsPrefix, CaptureAhead, OpenPending
  <2> QED
    BY <1>1, <1>2, <1>10, <1>14, <2>3, <2>4 DEF PrefixInv, Captures
<1>15. CASE log' = Append(log, c.op) /\ c.seq = Len(log) + 1
  <2>1. /\ \A i \in Overtaken' :
             i = Len(log) + 1 /\ i <= Len(mem) /\ c.op # mem[i]
        /\ \A i \in 1 .. Len(log) : log'[i] = log[i]
        /\ Len(log') = Len(log) + 1 /\ log'[Len(log) + 1] = c.op
    BY <1>1, <1>2, <1>4, <1>7, <1>15, GrowingStore
  <2>2. \A i \in 1 .. Len(out') : Reports(out'[i])
    <3>1. PICK ok \in BOOLEAN, code \in {"none", "AlreadyCaptured"} :
            /\ out' = <<CaptureResult(c.seq, ok, code)>>
            /\ IF ok /\ code = "none" THEN StoreAccepts(c) ELSE UNCHANGED log
      BY <1>3
    <3>2. ok /\ code = "none"
      BY <1>11, <1>15, <3>1
    <3>3. Reports(CaptureResult(c.seq, ok, code))
      BY <3>2 DEF Reports, CaptureResult
    <3>4. \A i \in 1 .. Len(out') : out'[i] = CaptureResult(c.seq, ok, code)
      BY <3>1
    <3> QED
      BY <3>3, <3>4 DEF Reports
  <2>3. \A i \in 1 .. Len(results') : TrueNext(results'[i])
    BY <1>1, <1>2, <1>4, <1>12, <1>15, GrownAnswer
  <2>4. save'.seq = Len(mem') + 1 => Overtaken' = {}
    <3> SUFFICES ASSUME save'.seq = Len(mem') + 1, NEW i \in Overtaken' PROVE FALSE
      OBVIOUS
    <3>1. i = Len(log) + 1 /\ i <= Len(mem)
      BY <2>1
    <3>2. Len(log) + 1 = Len(mem) + 1
      BY <1>2, <1>6, <1>15
    <3> QED
      BY <1>8, <3>1, <3>2
  <2>5. CaptureBarrier'
    BY <1>2, <1>6, <1>9, <1>13, <2>2, <2>3, <2>4, NextAnswers DEF PrefixInv, CaptureBarrier
  <2>6. Len(log') <= Len(mem') \/ CaptureAhead'
    <3>1. CASE Len(log) = Len(mem)
      <4>1. \A i \in 1 .. Len(log) : log[i] = mem[i]
        BY <1>1, <1>7, <3>1, NotOvertaken
      <4>2. log = mem
        BY <1>8, <3>1, <4>1, SeqEqual
      <4> QED
        BY <1>2, <1>6, <1>15, <4>2 DEF CaptureAhead
    <3>2. CASE Len(log) # Len(mem)
      BY <1>2, <1>7, <1>8, <2>1, <3>2
    <3> QED
      BY <3>1, <3>2
  <2>7. ASSUME NEW i \in Overtaken'
        PROVE  /\ log'[i] \in CaptureOps /\ mem'[i] \in IntentOps \cup ControlOps
               /\ i \in pending' /\ durable' < i
    <3>1. i = Len(log) + 1 /\ i <= Len(mem)
      BY <2>1
    <3>2. i \in save.seq .. Len(mem) /\ i \in (Len(log) + 1) .. Len(mem)
      BY <1>6, <1>8, <1>15, <3>1
    <3>3. durable < i
      BY <1>1, <1>8, <3>1 DEF AcknowledgedIsStored
    <3> QED
      BY <1>2, <1>6, <1>7, <2>1, <3>1, <3>2, <3>3 DEF PrefixInv, OpenPending
  <2>8. StoreIsPrefix'
    BY <2>1, <2>6, <2>7 DEF StoreIsPrefix
  <2>9. OpenPending'
    <3>1. \A i \in (Len(log') + 1) .. Len(mem') : i \in (Len(log) + 1) .. Len(mem)
      BY <1>2, <1>8, <2>1
    <3> QED
      BY <1>2, <2>7, <3>1 DEF PrefixInv, OpenPending
  <2>10. PrefixInv'
    BY <1>1, <1>2, <1>10, <2>5, <2>8, <2>9 DEF PrefixInv
  <2> QED
    BY <1>2, <1>6, <1>7, <1>15, <2>10 DEF Captures
<1> QED
  BY <1>11, <1>14, <1>15

LEMMA ReservePrefix ==
    ASSUME PrefixInv, NEW op \in CaptureOps, AdvanceCapture(op) \/ RetryCapture(op)
    PROVE  PrefixInv' /\ UNCHANGED <<mem, log, durable>>
<1>1. AckInv' /\ TypeOK /\ CaptureInv
  BY ReserveAck DEF PrefixInv, AckInv
<1>2. Reserve(op) /\ save.state # "InFlight" /\ draft = NoOp
  BY DEF AdvanceCapture, RetryCapture, NoSave
<1>3. /\ UNCHANGED <<mem, log, durable, draft, deferred, pending, durability, retained,
                     out, results>>
      /\ save'.seq = Len(mem) + 1 /\ save'.state = "InFlight"
      /\ \/ requests' = requests
         \/ requests' = Append(requests, Request("Capture", Len(mem) + 1, op))
  BY <1>2 DEF Reserve, Post, NextSequence, appVars, laneVars, storeVars
<1>4. /\ log \in Seq(Ops) /\ mem \in Seq(Ops) /\ Len(log) \in Nat /\ Len(mem) \in Nat
      /\ requests \in Seq(Requests)
  BY <1>1, MemberOfCommits
<1>5. Len(log) <= Len(mem)
  BY <1>2 DEF PrefixInv, StoreIsPrefix, CaptureAhead
<1>6. Overtaken = {} /\ deferred = {}
  <2>1. CASE AdvanceCapture(op)
    <3>1. pending = {}
      BY <2>1 DEF AdvanceCapture, PrefixInv, OpenPending
    <3> QED
      BY <1>1, <3>1 DEF PrefixInv, StoreIsPrefix, TypeOK, AppTypeOK
  <2>2. CASE RetryCapture(op)
    BY <2>2 DEF RetryCapture, Admits, PrefixInv, CaptureBarrier
  <2> QED
    BY <2>1, <2>2
<1>7. Overtaken' = Overtaken /\ Untouched /\ Untouched'
  BY <1>3, <1>5, <1>6, SameStore DEF Untouched
<1>8. HeldMatches'
  <2>1. ASSUME NEW i \in 1 .. Len(requests'), requests'[i].kind = "Commit"
        PROVE  i \in 1 .. Len(requests) /\ requests'[i] = requests[i]
    <3>1. Request("Capture", Len(mem) + 1, op).kind = "Capture"
      BY DEF Request
    <3>2. \/ i \in 1 .. Len(requests) /\ requests'[i] = requests[i]
          \/ requests'[i] = Request("Capture", Len(mem) + 1, op)
      <4>1. CASE requests' = requests
        BY <2>1, <4>1
      <4>2. ASSUME NEW r, requests' = Append(requests, r)
            PROVE  \/ i \in 1 .. Len(requests) /\ requests'[i] = requests[i]
                   \/ requests'[i] = r
        BY <1>4, <2>1, <4>2
      <4> QED
        BY <1>3, <4>1, <4>2
    <3> QED
      BY <2>1, <3>1, <3>2
  <2> QED
    BY <1>3, <2>1 DEF PrefixInv, HeldMatches
<1>9. CaptureBarrier'
  <2>1. \A i \in 1 .. Len(out) : out[i].kind # "Capture" /\ TrueAnswer(out[i])
    BY <1>1, <1>2 DEF CaptureInv, OneCapture, Has, PrefixInv, CaptureBarrier, TrueAnswers
  <2>2. \A i \in 1 .. Len(results) : results[i].kind # "Capture" /\ TrueAnswer(results[i])
    BY <1>1, <1>2 DEF CaptureInv, OneCapture, Has, PrefixInv, CaptureBarrier, TrueAnswers
  <2>3. \A a : a.kind # "Capture" /\ TrueAnswer(a) => TrueNext(a)
    BY <1>3 DEF TrueAnswer, TrueNext
  <2>4. TrueAnswers(out)' /\ TrueAnswers(results)'
    BY <1>3, <2>1, <2>2, <2>3, NextAnswers
  <2>5. \A i \in save'.seq .. Len(mem') : mem'[i] \in IntentOps \cup ControlOps
    BY <1>3, <1>4
  <2>6. draft' = NoOp /\ save'.seq <= Len(mem') + 1
    BY <1>2, <1>3, <1>4
  <2> QED
    BY <1>3, <1>6, <1>7, <2>4, <2>5, <2>6 DEF CaptureBarrier
<1>10. StoreIsPrefix' /\ OpenPending'
  BY <1>3, <1>5, <1>6, <1>7 DEF StoreIsPrefix, OpenPending, PrefixInv
<1> QED
  BY <1>1, <1>3, <1>8, <1>9, <1>10 DEF PrefixInv

LEMMA TailMembers ==
    ASSUME NEW S, NEW s \in Seq(S), s # <<>>
    PROVE  \A i \in 1 .. Len(Tail(s)) : \E j \in 1 .. Len(s) : Tail(s)[i] = s[j]
<1> SUFFICES ASSUME NEW i \in 1 .. Len(Tail(s))
             PROVE  \E j \in 1 .. Len(s) : Tail(s)[i] = s[j]
  OBVIOUS
<1>1. i + 1 \in 1 .. Len(s) /\ Tail(s)[i] = s[i + 1]
  OBVIOUS
<1> QED
  BY <1>1

\* What an answer adds to what is acknowledged: the store has it as the owner did.
Acknowledges ==
    /\ UNCHANGED <<mem, log>>
    /\ durable' = durable
         \/ (durable < durable' /\ durable' <= Len(log) /\ durable' <= Len(mem))
    /\ \A i \in Overtaken : durable' < i

\* A receipt is taken for the least pending sequence, and no other.
LEMMA ReceiptPrefix ==
    ASSUME PrefixInv, NEW seq, AcknowledgeCommitted(seq),
           seq \in 1 .. Len(log), seq <= Len(mem), log[seq] = mem[seq]
    PROVE  /\ UNCHANGED mem /\ deferred' \subseteq deferred
           /\ durable' = durable
                \/ (durable < durable' /\ durable' <= Len(log) /\ durable' <= Len(mem))
           /\ \A i \in Overtaken : i \in pending' /\ durable' < i
           /\ (Len(log) + 1) .. Len(mem) \subseteq pending'
           /\ durability' = Durable => pending' = {}
<1>1. TypeOK
  BY DEF PrefixInv, AckInv
<1>2. /\ Len(log) \in Nat /\ Len(mem) \in Nat /\ durable \in Nat
      /\ pending \subseteq 1 .. Len(mem) /\ seq \in Nat
  BY <1>1, MemberOfCommits DEF TypeOK, AppTypeOK
<1>3. CASE UNCHANGED appVars
  BY <1>3 DEF appVars, PrefixInv, StoreIsPrefix, OpenPending
<1>4. CASE /\ seq \in pending /\ \A s \in pending : seq <= s
           /\ pending' = pending \ {seq} /\ deferred' = deferred \ {seq}
           /\ durable' = IF seq > durable THEN seq ELSE durable
           /\ durability' = RefreshDurability(pending \ {seq})
           /\ UNCHANGED mem
  <2>1. seq \notin Overtaken
    BY DEF Overtaken
  <2>2. ASSUME NEW i \in Overtaken PROVE i \in pending' /\ durable' < i
    <3>0. i \in pending /\ durable < i /\ i # seq
      BY <2>1, <2>2 DEF PrefixInv, StoreIsPrefix, OpenPending
    <3>1. i \in pending /\ durable < i /\ i # seq /\ i \in Nat
      BY <1>2, <3>0
    <3>2. seq <= i
      BY <1>4, <3>1
    <3> QED
      BY <1>2, <1>4, <3>1, <3>2
  <2>3. (Len(log) + 1) .. Len(mem) \subseteq pending'
    BY <1>2, <1>4 DEF PrefixInv, OpenPending
  <2>4. durability' = Durable => pending' = {}
    <3>1. Durable # Pending /\ Durable.state # "Failed"
      BY DEF Durable, Pending
    <3> QED
      BY <1>4, <3>1 DEF RefreshDurability, IsFailed
  <2> QED
    BY <1>2, <1>4, <2>2, <2>3, <2>4
<1> QED
  BY <1>3, <1>4 DEF AcknowledgeCommitted

LEMMA DrainOtherPrefix ==
    ASSUME PrefixInv, DrainSequenced \/ DrainRetryFinished
    PROVE  PrefixInv' /\ Acknowledges
<1>1. AckInv' /\ TypeOK
  BY DrainAck DEF Drain, PrefixInv, AckInv
<1>2. /\ results # <<>> /\ results' = Tail(results)
      /\ UNCHANGED <<mem, log, save, draft, retained, requests, out>>
  BY DEF DrainSequenced, DrainRetryFinished, AcknowledgeCommitted, AcknowledgeFailed,
         appVars, uiVars, laneVars, storeVars
<1>3. /\ results \in Seq(Results) /\ durable \in Nat /\ Len(mem) \in Nat
  BY <1>1, MemberOfCommits
<1>4. /\ deferred' \subseteq deferred
      /\ durable' = durable
           \/ (durable < durable' /\ durable' <= Len(log) /\ durable' <= Len(mem))
      /\ \A i \in Overtaken : i \in pending' /\ durable' < i
      /\ (Len(log) + 1) .. Len(mem) \subseteq pending'
      /\ durability' = Durable => pending' = {}
  <2>1. CASE UNCHANGED appVars
    BY <2>1 DEF appVars, PrefixInv, StoreIsPrefix, OpenPending
  <2>2. CASE DrainSequenced /\ Answer.ok /\ AcknowledgeCommitted(Answer.seq)
    <3>1. Answer.kind = "Sequenced" /\ Answer = results[1] /\ 1 \in 1 .. Len(results)
      BY <1>1, <1>2, <2>2, AnswerType DEF DrainSequenced
    <3>2. TrueAnswer(Answer)
      BY <3>1 DEF PrefixInv, CaptureBarrier, TrueAnswers
    <3>3. /\ Answer.seq \in 1 .. Len(log) /\ Answer.seq <= Len(mem)
          /\ log[Answer.seq] = mem[Answer.seq]
      BY <2>2, <3>1, <3>2 DEF TrueAnswer
    <3> QED
      BY <2>2, <3>3, ReceiptPrefix
  <2>3. ASSUME NEW seq, NEW code, AcknowledgeFailed(seq, code) PROVE
          \/ UNCHANGED appVars
          \/ UNCHANGED <<mem, durable, pending, deferred>> /\ durability' # Durable
    <3>1. \A n : Failed(n, code).state = "Failed" /\ Durable.state = "Durable"
      BY DEF Failed, Durable
    <3> QED
      BY <2>3, <3>1 DEF AcknowledgeFailed, FailureOf
  <2>4. CASE UNCHANGED <<mem, durable, pending, deferred>> /\ durability' # Durable
    BY <2>4 DEF PrefixInv, StoreIsPrefix, OpenPending
  <2> QED
    BY <2>1, <2>2, <2>3, <2>4 DEF DrainSequenced, DrainRetryFinished
<1>5. durable' <= Len(mem)
  BY <1>3, <1>4 DEF PrefixInv
<1>6. \A i \in 1 .. Len(results') : \E j \in 1 .. Len(results) : results'[i] = results[j]
  BY <1>2, <1>3, TailMembers
<1>7. PrefixInv'
  BY <1>1, <1>2, <1>4, <1>5, <1>6, SettledPrefix
<1> QED
  BY <1>2, <1>4, <1>7 DEF Acknowledges

\* A capture shows when its answer arrives, and then the store is the memory.
Shows == /\ UNCHANGED log /\ mem' = log /\ durable' = Len(log) /\ CaptureAhead

LEMMA DrainCapturePrefix ==
    ASSUME PrefixInv, DrainCapture
    PROVE  PrefixInv' /\ (UNCHANGED <<mem, log, durable>> \/ Shows)
<1>1. /\ AckInv' /\ TypeOK /\ TypeOK' /\ CaptureInv /\ AcknowledgedIsStored
      /\ HonestAnswers(results)
  BY DrainAck DEF Drain, PrefixInv, AckInv
<1>2. /\ results # <<>> /\ results' = Tail(results) /\ Answer.kind = "Capture"
      /\ UNCHANGED <<log, draft, retained, requests, out>>
      /\ save' = IF Answer.ok THEN NoSave ELSE [save EXCEPT !.state = "Ready"]
  BY DEF DrainCapture, laneVars, storeVars
<1>3. Answer = results[1] /\ 1 \in 1 .. Len(results) /\ Answer \in Results
  BY <1>1, <1>2, AnswerType
<1>4. /\ save.state = "InFlight" /\ Answer.seq = save.seq
      /\ ~Has(requests, "Capture") /\ ~Has(out, "Capture")
  BY <1>1, <1>2, <1>3 DEF CaptureInv, OneCapture, CaptureAnswerNamed, Has
<1>5. /\ log \in Seq(Ops) /\ mem \in Seq(Ops) /\ Len(log) \in Nat /\ Len(mem) \in Nat
      /\ results \in Seq(Results) /\ durable \in Nat
  BY <1>1, MemberOfCommits
<1>6. save'.state # "InFlight" /\ (save'.state = "Ready" => ~Answer.ok)
  <2>1. save \in [state : {"InFlight", "Ready"}, op : CaptureOps, seq : Nat \ {0}]
    BY <1>1, <1>4 DEF TypeOK, UiTypeOK, NoSave
  <2> QED
    BY <1>2, <2>1 DEF NoSave
<1>7. ~Has(results', "Capture")
  BY <1>1, <1>2, <1>5, TailCapture DEF Answer, CaptureInv, OneCapture
<1>8. /\ \A i \in 1 .. Len(out) : out[i].kind # "Capture" /\ TrueAnswer(out[i])
      /\ \A i \in 1 .. Len(results) : TrueAnswer(results[i])
  BY <1>4 DEF Has, PrefixInv, CaptureBarrier, TrueAnswers
<1>9. \A i \in 1 .. Len(results') : results'[i].kind # "Capture" /\ TrueAnswer(results'[i])
  <2>1. \A i \in 1 .. Len(results') : \E j \in 1 .. Len(results) : results'[i] = results[j]
    BY <1>2, <1>5, TailMembers
  <2> QED
    BY <1>7, <1>8, <2>1 DEF Has
<1>10. ASSUME \A i \in 1 .. Len(mem) : i <= Len(mem') /\ mem'[i] = mem[i],
              save'.state = "Ready" => Overtaken' = {}
       PROVE  CaptureBarrier'
  <2>1. \A a : a.kind # "Capture" /\ TrueAnswer(a) => TrueNext(a)
    <3> SUFFICES ASSUME NEW a, a.kind = "Sequenced", a.ok, TrueAnswer(a)
                 PROVE  /\ a.seq \in 1 .. Len(log') /\ a.seq <= Len(mem')
                        /\ log'[a.seq] = mem'[a.seq]
      BY DEF TrueNext
    <3>1. a.seq \in 1 .. Len(log) /\ a.seq <= Len(mem) /\ log[a.seq] = mem[a.seq]
      BY DEF TrueAnswer
    <3>2. a.seq \in 1 .. Len(mem)
      BY <1>5, <3>1
    <3> QED
      BY <1>2, <1>10, <3>1, <3>2
  <2>2. TrueAnswers(out)' /\ TrueAnswers(results)'
    BY <1>2, <1>8, <1>9, <2>1, NextAnswers
  <2> QED
    BY <1>2, <1>4, <1>6, <1>10, <2>2 DEF CaptureBarrier, Has
<1>11. CASE /\ Answer.ok /\ Answer.code # "AlreadyCaptured"
            /\ save.seq = NextSequence /\ deferred = {}
  <2>1. /\ mem' = Append(mem, save.op) /\ durable' = save.seq /\ deferred' = deferred
        /\ pending' = pending /\ durability' = RefreshDurability(pending)
        /\ save.seq = Len(mem) + 1
    BY <1>11 DEF DrainCapture, NextSequence
  <2>2. Reports(Answer)
    BY <1>2, <1>3, <1>11, ResultParts DEF Reports
  <2>3. Len(mem) + 1 <= Len(log)
    BY <1>1, <1>3, <1>4, <2>1, <2>2 DEF HonestAnswers
  <2>4. CaptureAhead
    BY <1>5, <2>3 DEF PrefixInv, StoreIsPrefix
  <2>5. mem' = log /\ Len(log) = Len(mem) + 1
    BY <1>1, <2>1, <2>4, AheadLength DEF CaptureAhead
  <2>6. Overtaken' = {}
    BY <1>2, <2>5 DEF Overtaken
  <2>7. StoreIsPrefix'
    BY <1>2, <1>5, <2>5, <2>6 DEF StoreIsPrefix
  <2>8. Len(mem') \in Nat /\ Len(mem) <= Len(mem') /\ \A i \in 1 .. Len(mem) : mem'[i] = mem[i]
    BY <1>1, <1>5, <2>4, <2>5, AheadLength
  <2>9. HeldMatches'
    BY <1>1, <1>2, <2>8, HeldKept DEF PrefixInv
  <2>10. CaptureBarrier'
    BY <1>5, <1>10, <2>5, <2>6, <2>8
  <2>11. OpenPending'
    <3>1. (Len(log') + 1) .. Len(mem') = {}
      BY <1>2, <1>5, <2>5
    <3>2. durability' = Durable => pending' = {}
      <4>1. Durable # Pending /\ Durable.state # "Failed"
        BY DEF Durable, Pending
      <4> QED
        BY <2>1, <4>1 DEF RefreshDurability, IsFailed
    <3> QED
      BY <2>6, <3>1, <3>2 DEF OpenPending
  <2>12. durable' <= Len(mem') /\ durable' = Len(log)
    BY <1>5, <2>1, <2>5
  <2> QED
    BY <1>1, <1>2, <2>4, <2>5, <2>7, <2>9, <2>10, <2>11, <2>12 DEF PrefixInv, Shows
<1>12. CASE ~(/\ Answer.ok /\ Answer.code # "AlreadyCaptured"
              /\ save.seq = NextSequence /\ deferred = {})
  <2>1. UNCHANGED <<mem, durable, deferred, pending, durability>>
    BY <1>12 DEF DrainCapture, appVars
  <2>2. Overtaken' = Overtaken
    BY <1>2, <2>1, SameStore
  <2>3. Len(log) <= Len(mem) /\ (save'.state = "Ready" => Overtaken = {})
    <3>1. CASE ~Reports(Answer)
      BY <1>2, <1>3, <1>8, <3>1 DEF TrueAnswer, Untouched
    <3>2. CASE Reports(Answer)
      <4>1. Answer.ok /\ Answer.code # "AlreadyCaptured"
        BY <3>2 DEF Reports
      <4>2. save.seq # Len(mem) + 1
        BY <1>4, <1>12, <4>1 DEF PrefixInv, CaptureBarrier, NextSequence
      <4> QED
        BY <1>6, <4>1, <4>2 DEF PrefixInv, StoreIsPrefix, CaptureAhead
    <3> QED
      BY <3>1, <3>2
  <2>4. StoreIsPrefix' /\ OpenPending'
    BY <1>2, <2>1, <2>2, <2>3 DEF StoreIsPrefix, OpenPending, PrefixInv
  <2>5. HeldMatches'
    BY <1>2, <2>1 DEF PrefixInv, HeldMatches
  <2>6. CaptureBarrier'
    BY <1>5, <1>10, <2>1, <2>2, <2>3
  <2> QED
    BY <1>1, <1>2, <2>1, <2>4, <2>5, <2>6 DEF PrefixInv
<1> QED
  BY <1>11, <1>12

\* A reopened session shows the store.
Reopens == mem' = log /\ UNCHANGED log /\ durable' = Len(log)

LEMMA ReopenPrefix == ASSUME PrefixInv, Reopen PROVE PrefixInv' /\ Reopens
<1>1. AckInv' /\ TypeOK /\ TypeOK'
  BY ReopenAck DEF PrefixInv, AckInv
<1>2. /\ mem' = log /\ log' = log /\ durable' = Len(log) /\ save' = NoSave
      /\ deferred' = {} /\ retained' = {} /\ pending' = {}
      /\ requests' = <<>> /\ out' = <<>> /\ results' = <<>>
  BY DEF Reopen, storeVars
<1>3. log \in Seq(Ops) /\ Len(log) \in Nat
  BY <1>1, MemberOfCommits
<1>4. Overtaken' = {}
  BY <1>2 DEF Overtaken
<1>5. StoreIsPrefix' /\ OpenPending'
  BY <1>2, <1>3, <1>4 DEF StoreIsPrefix, OpenPending
<1>6. HeldMatches' /\ CaptureBarrier'
  BY <1>2 DEF HeldMatches, CaptureBarrier, TrueAnswers, Has, NoSave
<1> QED
  BY <1>1, <1>2, <1>3, <1>5, <1>6 DEF PrefixInv, Reopens

-----------------------------------------------------------------------------
(* Every step, and what it is in the abstract log.                          *)

\* Nothing the abstract log shows has changed.
Stutters == UNCHANGED <<mem, log, durable>>

\* An operation has been recorded.
Accepts == /\ UNCHANGED <<log, durable>>
           /\ \E op \in Ops : mem' = Append(mem, op)

Effect == \/ Stutters \/ Persists \/ Accepts \/ Captures \/ Shows \/ Reopens
          \/ Acknowledges

LEMMA PrefixStep ==
    ASSUME PrefixInv, [Next]_vars PROVE PrefixInv' /\ Effect
<1>1. AckInv /\ TypeOK
  BY DEF PrefixInv, AckInv
<1>2. CASE UNCHANGED vars \/ StoreHeals
  <2>1. UNCHANGED <<mem, log, save, draft, retained, durable, pending, durability, deferred,
                    requests, out, results>>
    BY <1>2 DEF StoreHeals, ownerVars, vars, appVars, uiVars, laneVars, storeVars
  <2>2. AckInv'
    BY <1>1, <1>2, AckStep, NextSplit
  <2>3. PrefixInv'
    BY <2>1, <2>2, OwnerOpen, SettledPrefix
  <2> QED
    BY <2>1, <2>3 DEF Effect, Stutters
<1>4. CASE QuietStep
  <2>1. PrefixInv'
    BY <1>4, QuietPrefix
  <2>2. UNCHANGED <<log, durable>> /\ (Keeps \/ \E op : Records(op))
    BY <1>1, <1>4, QuietFootprint
  <2> QED
    BY <2>1, <2>2 DEF Effect, Stutters, Accepts, Keeps, Records
<1>5. CASE \E op \in CaptureOps : AdvanceCapture(op) \/ RetryCapture(op)
  BY <1>5, ReservePrefix DEF Effect, Stutters
<1>6. CASE DrainSequenced \/ DrainRetryFinished
  BY <1>6, DrainOtherPrefix DEF Effect
<1>7. CASE DrainCapture
  BY <1>7, DrainCapturePrefix DEF Effect, Stutters
<1>8. CASE LaneCommit \/ LaneRetryNext
  BY <1>8, LaneCommitPrefix, LaneRetryNextPrefix DEF Effect
<1>9. CASE LaneCapture
  BY <1>9, LaneCapturePrefix DEF Effect
<1>10. CASE LaneRetry
  <2>1. Stutters
    BY <1>10 DEF LaneRetry, Stutters, ownerVars, appVars, storeVars
  <2> QED
    BY <1>10, <2>1, LaneRetryPrefix DEF Effect
<1>11. CASE LaneSend
  <2>1. Stutters
    BY <1>11 DEF LaneSend, Stutters, ownerVars, appVars, storeVars
  <2> QED
    BY <1>11, <2>1, LaneSendPrefix DEF Effect
<1>12. CASE Reopen
  BY <1>12, ReopenPrefix DEF Effect
<1> QED
  BY <1>2, <1>4, <1>5, <1>6, <1>7, <1>8, <1>9, <1>10, <1>11, <1>12, NextSplit
     DEF Drain

LEMMA PrefixInit == Init => PrefixInv
<1> SUFFICES ASSUME Init PROVE PrefixInv
  OBVIOUS
<1>1. /\ mem = <<>> /\ log = <<>> /\ durable = 0 /\ save = NoSave /\ deferred = {}
      /\ requests = <<>> /\ out = <<>> /\ results = <<>> /\ retained = {} /\ pending = {}
  BY DEF Init
<1>2. AckInv /\ TypeOK
  BY AckInit DEF AckInv
<1>3. Overtaken = {}
  BY <1>1 DEF Overtaken
<1>4. StoreIsPrefix /\ OpenPending
  BY <1>1, <1>3 DEF StoreIsPrefix, OpenPending
<1>5. HeldMatches /\ CaptureBarrier
  BY <1>1 DEF HeldMatches, CaptureBarrier, TrueAnswers, Has, NoSave
<1> QED
  BY <1>1, <1>2, <1>4, <1>5 DEF PrefixInv

\* Up to where nothing was overtaken, the store is what the owner did.
LEMMA AgreeBelow ==
    ASSUME TypeOK, NEW n \in Nat, n <= Len(log), n <= Len(mem),
           \A i \in Overtaken : n < i
    PROVE  Abstract!Agree(n) /\ \A i \in 1 .. n : log[i] = mem[i]
<1>1. /\ log \in Seq(Ops) /\ mem \in Seq(Ops) /\ Len(log) \in Nat /\ Len(mem) \in Nat
  BY MemberOfCommits
<1>2. ASSUME NEW i \in 1 .. n PROVE log[i] = mem[i]
  <2>1. i \in 1 .. Len(log) /\ i <= Len(mem) /\ i \notin Overtaken
    BY <1>1, <1>2
  <2> QED
    BY <2>1, NotOvertaken
<1>3. SubSeq(log, 1, n) = SubSeq(mem, 1, n)
  BY <1>1, <1>2, SameSubSeq
<1> QED
  BY <1>2, <1>3 DEF Abstract!Agree

LEMMA EffectAbstract ==
    ASSUME PrefixInv, PrefixInv', Effect
    PROVE  Abstract!Next \/ UNCHANGED <<mem, log, durable>>
<1>1. TypeOK /\ TypeOK'
  BY DEF PrefixInv, AckInv
<1>2. /\ log \in Seq(Ops) /\ mem \in Seq(Ops) /\ Len(log) \in Nat /\ Len(mem) \in Nat
      /\ durable \in Nat
  BY <1>1, MemberOfCommits
<1>3. durable' \in Nat
  BY <1>1 DEF TypeOK, AppTypeOK
<1>4. CASE Stutters
  BY <1>4 DEF Stutters
<1>5. CASE Persists
  <2>1. UNCHANGED log \/ Abstract!Persist
    BY <1>5 DEF Persists, Abstract!Persist
  <2> QED
    BY <1>5, <2>1 DEF Abstract!Next, Persists
<1>6. CASE Accepts
  <2>1. Abstract!Accept
    BY <1>6 DEF Accepts, Abstract!Accept
  <2> QED
    BY <2>1 DEF Abstract!Next
<1>7. CASE Captures
  <2>1. CASE UNCHANGED log
    BY <1>7, <2>1 DEF Captures
  <2>2. CASE Untouched /\ \E op \in CaptureOps : log' = Append(log, op)
    <3>1. Abstract!Agree(Len(log))
      BY <1>1, <1>2, <2>2, AgreeBelow DEF Untouched
    <3>2. Abstract!Capture
      BY <1>7, <2>2, <3>1 DEF Captures, Abstract!Capture
    <3> QED
      BY <3>2 DEF Abstract!Next
  <2> QED
    BY <1>7, <2>1, <2>2 DEF Captures
<1>8. CASE Shows
  <2>1. save.op \in CaptureOps /\ log = Append(mem, save.op)
    BY <1>1, <1>8, AheadLength DEF Shows, CaptureAhead
  <2>2. Abstract!Show
    BY <1>8, <2>1 DEF Shows, Abstract!Show
  <2> QED
    BY <2>2 DEF Abstract!Next
<1>9. CASE Reopens
  <2>1. Abstract!Crash
    BY <1>9 DEF Reopens, Abstract!Crash
  <2> QED
    BY <2>1 DEF Abstract!Next
<1>10. CASE Acknowledges
  <2>1. CASE durable' = durable
    BY <1>10, <2>1 DEF Acknowledges
  <2>2. CASE durable' # durable
    <3>1. /\ durable < durable' /\ durable' <= Len(log) /\ durable' <= Len(mem)
          /\ \A i \in Overtaken : durable' < i
          /\ UNCHANGED <<mem, log>>
      BY <1>10, <2>2 DEF Acknowledges
    <3>2. durable' \in durable + 1 .. Len(log)
      BY <1>2, <1>3, <3>1
    <3>3. \A n \in Nat : n = durable' => Abstract!Agree(n)
      BY <1>1, <3>1, AgreeBelow
    <3>4. Abstract!Acknowledge
      BY <1>3, <3>1, <3>2, <3>3 DEF Abstract!Acknowledge
    <3> QED
      BY <3>4 DEF Abstract!Next
  <2> QED
    BY <2>1, <2>2
<1> QED
  BY <1>4, <1>5, <1>6, <1>7, <1>8, <1>9, <1>10 DEF Effect

\* What was acknowledged is kept by every effect.
LEMMA EffectKeeps ==
    ASSUME PrefixInv, PrefixInv', Effect
    PROVE  durable <= durable' /\ SubSeq(mem', 1, durable) = SubSeq(mem, 1, durable)
<1>1. /\ TypeOK /\ TypeOK' /\ durable <= Len(log) /\ durable <= Len(mem)
      /\ \A i \in Overtaken : durable < i
  BY DEF PrefixInv, AckInv, AcknowledgedIsStored, OpenPending
<1>2. /\ log \in Seq(Ops) /\ mem \in Seq(Ops) /\ Len(log) \in Nat /\ Len(mem) \in Nat
      /\ durable \in Nat
  BY <1>1, MemberOfCommits
<1>3. CASE Stutters \/ Persists \/ Captures \/ Acknowledges
  <2>1. mem' = mem
    BY <1>3 DEF Stutters, Persists, Captures, Acknowledges
  <2>2. durable' = durable \/ durable < durable'
    BY <1>3 DEF Stutters, Persists, Captures, Acknowledges
  <2>3. durable' \in Nat
    BY <1>1 DEF TypeOK, AppTypeOK
  <2> QED
    BY <1>2, <2>1, <2>2, <2>3
<1>4. CASE Accepts
  <2>1. PICK op \in Ops : mem' = Append(mem, op) /\ durable' = durable
    BY <1>4 DEF Accepts
  <2>2. /\ mem' \in Seq(Ops) /\ Len(mem') = Len(mem) + 1
        /\ \A i \in 1 .. Len(mem) : mem'[i] = mem[i]
    BY <1>2, <2>1, AppendPart
  <2>3. durable <= Len(mem') /\ \A i \in 1 .. durable : mem'[i] = mem[i]
    BY <1>1, <1>2, <2>2
  <2> QED
    BY <1>1, <1>2, <2>1, <2>2, <2>3, SameSubSeq
<1>5. CASE Shows \/ Reopens
  <2>1. mem' = log /\ durable' = Len(log)
    BY <1>5 DEF Shows, Reopens
  <2>2. \A i \in 1 .. durable : log[i] = mem[i]
    BY <1>1, <1>2, AgreeBelow
  <2> QED
    BY <1>1, <1>2, <2>1, <2>2, SameSubSeq
<1> QED
  BY <1>3, <1>4, <1>5 DEF Effect

\* The store never holds what the owner did not do, nor in another order; a
\* retried capture that an answer of an effect or a control request overtook is
\* the one exception, and what the owner did there stays pending.
THEOREM StoredIsPrefix == Spec => []StoreIsPrefix
<1>1. PrefixInv => StoreIsPrefix
  BY DEF PrefixInv
<1>2. PrefixInv /\ [Next]_vars => PrefixInv'
  BY PrefixStep
<1> QED
  BY <1>1, <1>2, PrefixInit, PTL DEF Spec

\* No step, a crash and the reopening included, takes back what was reported as
\* saved or changes it.
THEOREM SavedSurvives == Spec => AcknowledgedSurvives
<1>1. PrefixInv /\ [Next]_vars => PrefixInv'
  BY PrefixStep
<1>2. PrefixInv /\ [Next]_vars
        => [/\ durable <= durable'
            /\ SubSeq(mem', 1, durable) = SubSeq(mem, 1, durable)]_vars
  BY PrefixStep, EffectKeeps
<1> QED
  BY <1>1, <1>2, PrefixInit, PTL DEF Spec, AcknowledgedSurvives

\* The autosave path, with its lanes, retries, recovery and shutdown, implements
\* the durable log.
THEOREM AutosaveImplementsDurableLog == Spec => ImplementsDurableLog
<1>1. PrefixInv /\ [Next]_vars => PrefixInv'
  BY PrefixStep
<1>2. Init => Abstract!Init
  BY DEF Init, Abstract!Init
<1>3. PrefixInv /\ [Next]_vars => [Abstract!Next]_(Abstract!vars)
  BY PrefixStep, EffectAbstract DEF Abstract!vars
<1> QED
  BY <1>1, <1>2, <1>3, PrefixInit, PTL DEF Spec, ImplementsDurableLog, Abstract!Spec

=============================================================================

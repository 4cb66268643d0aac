---------------------------- MODULE DeliveryProofs ----------------------------
(***************************************************************************)
(* Proofs about what leaves the board: a transfer to another session, for  *)
(* any thoughts, any number of batches, edits, faults and crashes, and the *)
(* child processes, for any number of runs.                                *)
(***************************************************************************)
EXTENDS MCDelivery, FiniteSetTheorems, TLAPS

-----------------------------------------------------------------------------
(* Transfers: what is under way                                            *)

Status(b) == trAttempts[b].status

\* A request under way is the one the journal holds under its identity, or is still pending.
Known(r) ==
  /\ r \in T!Request
  /\ Status(r.op) # "none" => trRequests[r.op] = r
  /\ Status(r.op) = "none" => r \in trPending

\* The destination has the cohort.
Sent(r) == trCohorts[r.op] = <<r.items>>

\* The sources were taken from the board as they were sent.
Taken(r) ==
  \A t \in TrThoughts \cap T!Ids(r) : trBoard[t] = [version |-> r.items[t], state |-> "moved"]

Reasons == {"none", "kept", "source_changed", "removed"}
Removals == [kind : {"finish"}, request : T!Request, removed : {TRUE}, reason : Reasons]
LaneItems ==
  [kind : {"discover"}, gen : Nat]
    \cup {x \in [kind : {"transfer"}, request : T!Request] : Known(x.request)}
    \cup {x \in [kind : {"finish"}, request : T!Request, removed : {FALSE}, reason : Reasons] : Known(x.request)}
    \cup {x \in Removals : Known(x.request) /\ Taken(x.request)}

AnswerItems ==
  [kind : {"sessions"}, gen : Nat, ok : BOOLEAN]
    \cup {x \in [kind : {"transferred"}, request : T!Request, ok : {FALSE}] : Known(x.request)}
    \cup {x \in [kind : {"transferred"}, request : T!Request, ok : {TRUE}] :
            Known(x.request) /\ Sent(x.request)}
    \cup [kind : {"finished"}, op : TrBatches, ok : {FALSE}]
    \cup {x \in [kind : {"finished"}, op : TrBatches, ok : {TRUE}] : Status(x.op) = "completed"}

Statuses == {"none", "prepared", "sending", "accepted", "completed"}

TransferTypes ==
  /\ trBoard \in [TrThoughts -> T!Thought] /\ trSaved \in [TrThoughts -> T!Thought]
  /\ \A t \in TrThoughts : trBoard[t].version = trSaved[t].version
  /\ trPicker.ids \subseteq TrThoughts /\ trPicker.remove \in BOOLEAN
  /\ trOpened \in Nat
  /\ trAttempts \in [TrBatches -> [status : Statuses, reason : Reasons]]
  /\ DOMAIN trRequests = TrBatches /\ DOMAIN trCohorts = TrBatches
  /\ trClaims \in [TrThoughts -> TrBatches \cup {"nobody"}]

\* What is under way is known, and no two pending requests share an identity.
UnderWay ==
  /\ trPending \subseteq T!Request /\ \A r \in trPending : Known(r)
  /\ \A r, s \in trPending : r.op = s.op => r = s
  /\ trLane \in Seq(LaneItems) /\ trAnswers \in Seq(AnswerItems)
  /\ \A f \in trRetained : f \in Removals /\ Known(f.request) /\ Taken(f.request)

\* The attempt the lane delivers.
Delivering ==
  \/ trDelivery.phase = "idle"
  \/ /\ trDelivery \in [phase : {"prepared", "sending", "delivered"}, request : T!Request]
     /\ Known(trDelivery.request)
     /\ trDelivery.phase = "prepared" => Status(trDelivery.request.op) \in {"prepared", "sending"}
     /\ trDelivery.phase # "prepared" => Status(trDelivery.request.op) = "sending"
     /\ trDelivery.phase = "delivered" => Sent(trDelivery.request)

\* The journal, and what the destination holds because of it.
Journal ==
  /\ \A b \in TrBatches : Status(b) # "none" => trRequests[b] \in T!Request /\ trRequests[b].op = b
  /\ \A b \in TrBatches : Status(b) \in {"accepted", "completed"} => Sent(trRequests[b])
  /\ \A b \in TrBatches : trCohorts[b] # <<>> =>
       Status(b) # "none" /\ trCohorts[b] = <<trRequests[b].items>>
  /\ \A r \in trLate : r \in T!Request /\ Status(r.op) # "none" /\ trRequests[r.op] = r
  /\ \A t \in TrThoughts : trClaims[t] # "nobody" =>
       /\ Status(trClaims[t]) \notin {"none", "completed"}
       /\ t \in T!Ids(trRequests[trClaims[t]])
       /\ trRequests[trClaims[t]] \in trPending

TransferInv ==
  TransferTypes /\ UnderWay /\ Delivering /\ Journal /\ T!MovedIsDelivered

-----------------------------------------------------------------------------
(* Facts about requests and sequences                                      *)

LEMMA RequestFacts ==
  ASSUME NEW r \in T!Request
  PROVE  /\ r.op \in TrBatches /\ T!Ids(r) \subseteq TrThoughts /\ r.remove \in BOOLEAN
         /\ \A t \in T!Ids(r) : r.items[t] \in T!Version
<1>1. /\ r.op \in TrBatches /\ r.remove \in BOOLEAN
      /\ r.items \in UNION {[s -> T!Version] : s \in SUBSET TrThoughts}
  BY DEF T!Request
<1>2. PICK s \in SUBSET TrThoughts : r.items \in [s -> T!Version]
  BY <1>1
<1> QED BY <1>1, <1>2 DEF T!Ids

LEMMA NewRequest ==
  ASSUME NEW b \in TrBatches, NEW s \in SUBSET TrThoughts, NEW v \in [s -> T!Version],
         NEW x \in BOOLEAN
  PROVE  [op |-> b, items |-> v, remove |-> x] \in T!Request
BY DEF T!Request

LEMMA SeqWider ==
  ASSUME NEW U, NEW V, U \subseteq V, NEW s \in Seq(U) PROVE s \in Seq(V)
OBVIOUS

LEMMA SeqParts ==
  ASSUME NEW U, NEW s \in Seq(U)
  PROVE  /\ \A x \in U : Append(s, x) \in Seq(U)
         /\ s # <<>> => Head(s) \in U /\ Tail(s) \in Seq(U)
OBVIOUS

\* The kinds of what waits in the lane and in its answers.
LEMMA LaneKinds ==
  ASSUME NEW x \in LaneItems
  PROVE  /\ x.kind = "discover" => x.gen \in Nat
         /\ x.kind = "transfer" => Known(x.request)
         /\ x.kind = "finish" => Known(x.request) /\ x.removed \in BOOLEAN /\ x.reason \in Reasons
         /\ x.kind = "finish" /\ x.removed => Taken(x.request) /\ x \in Removals
<1>1. CASE x \in [kind : {"discover"}, gen : Nat]
  BY <1>1
<1>2. CASE x \in [kind : {"transfer"}, request : T!Request] /\ Known(x.request)
  BY <1>2
<1>3. CASE x \in [kind : {"finish"}, request : T!Request, removed : {FALSE}, reason : Reasons] /\ Known(x.request)
  BY <1>3
<1>4. CASE x \in Removals /\ Known(x.request) /\ Taken(x.request)
  BY <1>4 DEF Removals
<1> QED BY <1>1, <1>2, <1>3, <1>4 DEF LaneItems

LEMMA AnswerKinds ==
  ASSUME NEW x \in AnswerItems
  PROVE  /\ x.kind = "transferred" => Known(x.request) /\ (x.ok => Sent(x.request))
         /\ x.kind = "finished" => x.op \in TrBatches /\ (x.ok => Status(x.op) = "completed")
<1>1. CASE x \in [kind : {"sessions"}, gen : Nat, ok : BOOLEAN]
  BY <1>1
<1>2. CASE x \in [kind : {"transferred"}, request : T!Request, ok : {FALSE}] /\ Known(x.request)
  BY <1>2
<1>3. CASE x \in [kind : {"transferred"}, request : T!Request, ok : {TRUE}] /\ Known(x.request) /\ Sent(x.request)
  BY <1>3
<1>4. CASE x \in [kind : {"finished"}, op : TrBatches, ok : {FALSE}]
  BY <1>4
<1>5. CASE x \in [kind : {"finished"}, op : TrBatches, ok : {TRUE}] /\ Status(x.op) = "completed"
  BY <1>5
<1> QED BY <1>1, <1>2, <1>3, <1>4, <1>5 DEF AnswerItems

-----------------------------------------------------------------------------
(* What no step but a crash undoes                                         *)

TransferMoves ==
  /\ \A b \in TrBatches : trCohorts[b] # <<>> => trCohorts'[b] = trCohorts[b]
  /\ \A b \in TrBatches : Status(b) # "none" => Status(b)' # "none" /\ trRequests'[b] = trRequests[b]
  /\ \A b \in TrBatches : Status(b) = "completed" => Status(b)' = "completed"
  /\ \A b \in TrBatches : Status(b) = "none" /\ Status(b)' # "none" =>
       trRequests'[b] \in trPending /\ trRequests'[b].op = b
  /\ \A r \in trPending : Status(r.op)' = "none" => r \in trPending'
  /\ \A t \in TrThoughts : trBoard[t].state = "moved" => trBoard'[t] = trBoard[t]

LEMMA MovesKeepRequests ==
  ASSUME TransferInv, TransferMoves, NEW r
  PROVE  /\ Known(r) => Known(r)'
         /\ Known(r) /\ Sent(r) => Sent(r)'
         /\ Known(r) /\ Taken(r) => Taken(r)'
<1>1. ASSUME Known(r) PROVE Known(r)'
  <2>1. r \in T!Request /\ r.op \in TrBatches
    BY <1>1, RequestFacts DEF Known
  <2>2. CASE Status(r.op) # "none"
    BY <1>1, <2>1, <2>2 DEF Known, TransferMoves
  <2>3. CASE Status(r.op) = "none" /\ Status(r.op)' # "none"
    <3>1. r \in trPending /\ trRequests'[r.op] \in trPending /\ trRequests'[r.op].op = r.op
      BY <1>1, <2>1, <2>3 DEF Known, TransferMoves
    <3>2. trRequests'[r.op] = r
      BY <3>1 DEF TransferInv, UnderWay
    <3> QED BY <2>1, <2>3, <3>2 DEF Known
  <2>4. CASE Status(r.op) = "none" /\ Status(r.op)' = "none"
    BY <1>1, <2>1, <2>4 DEF Known, TransferMoves
  <2> QED BY <2>2, <2>3, <2>4
<1>2. ASSUME Known(r), Sent(r) PROVE Sent(r)'
  BY <1>2, RequestFacts DEF Known, Sent, TransferMoves
<1>3. ASSUME Known(r), Taken(r) PROVE Taken(r)'
  <2>1. ASSUME NEW t \in TrThoughts \cap T!Ids(r) PROVE trBoard[t].state = "moved"
    <3>1. trBoard[t] = [version |-> r.items[t], state |-> "moved"]
      BY <1>3 DEF Taken
    <3> QED BY <3>1
  <2> QED BY <1>3, <2>1 DEF Taken, TransferMoves, T!Ids
<1> QED BY <1>1, <1>2, <1>3

LEMMA MovesKeep ==
  ASSUME TransferInv, TransferMoves
  PROVE  /\ LaneItems \subseteq LaneItems' /\ AnswerItems \subseteq AnswerItems'
         /\ trLane \in Seq(LaneItems') /\ trAnswers \in Seq(AnswerItems')
         /\ \A f \in trRetained : f \in Removals /\ Known(f.request)' /\ Taken(f.request)'
<1>1. LaneItems \subseteq LaneItems'
  <2> SUFFICES ASSUME NEW x \in LaneItems PROVE x \in LaneItems'
    OBVIOUS
  <2>1. CASE x \in [kind : {"discover"}, gen : Nat]
    BY <2>1 DEF LaneItems
  <2>2. CASE x \in [kind : {"transfer"}, request : T!Request] /\ Known(x.request)
    <3>1. Known(x.request)'
      BY <2>2, MovesKeepRequests
    <3> QED BY <2>2, <3>1 DEF LaneItems
  <2>3. CASE x \in [kind : {"finish"}, request : T!Request, removed : {FALSE}, reason : Reasons] /\ Known(x.request)
    <3>1. Known(x.request)'
      BY <2>3, MovesKeepRequests
    <3> QED BY <2>3, <3>1 DEF LaneItems
  <2>4. CASE x \in Removals /\ Known(x.request) /\ Taken(x.request)
    <3>1. Known(x.request)' /\ Taken(x.request)'
      BY <2>4, MovesKeepRequests
    <3> QED BY <2>4, <3>1 DEF LaneItems, Removals
  <2> QED BY <2>1, <2>2, <2>3, <2>4 DEF LaneItems
<1>2. AnswerItems \subseteq AnswerItems'
  <2> SUFFICES ASSUME NEW x \in AnswerItems PROVE x \in AnswerItems'
    OBVIOUS
  <2>1. CASE x \in [kind : {"sessions"}, gen : Nat, ok : BOOLEAN]
    BY <2>1 DEF AnswerItems
  <2>2. CASE x \in [kind : {"transferred"}, request : T!Request, ok : {FALSE}] /\ Known(x.request)
    <3>1. Known(x.request)'
      BY <2>2, MovesKeepRequests
    <3> QED BY <2>2, <3>1 DEF AnswerItems
  <2>3. CASE x \in [kind : {"transferred"}, request : T!Request, ok : {TRUE}] /\ Known(x.request) /\ Sent(x.request)
    <3>1. Known(x.request)' /\ Sent(x.request)'
      BY <2>3, MovesKeepRequests
    <3> QED BY <2>3, <3>1 DEF AnswerItems
  <2>4. CASE x \in [kind : {"finished"}, op : TrBatches, ok : {FALSE}]
    BY <2>4 DEF AnswerItems
  <2>5. CASE x \in [kind : {"finished"}, op : TrBatches, ok : {TRUE}] /\ Status(x.op) = "completed"
    <3>1. Status(x.op)' = "completed"
      BY <2>5 DEF TransferMoves
    <3> QED BY <2>5, <3>1 DEF AnswerItems
  <2> QED BY <2>1, <2>2, <2>3, <2>4, <2>5 DEF AnswerItems
<1>3. trLane \in Seq(LaneItems') /\ trAnswers \in Seq(AnswerItems')
  <2>1. trLane \in Seq(LaneItems) /\ trAnswers \in Seq(AnswerItems)
    BY DEF TransferInv, UnderWay
  <2> QED BY <1>1, <1>2, <2>1, SeqWider
<1>4. \A f \in trRetained : f \in Removals /\ Known(f.request)' /\ Taken(f.request)'
  BY MovesKeepRequests DEF TransferInv, UnderWay
<1> QED BY <1>1, <1>2, <1>3, <1>4

\* A moved thought is in a cohort, for one side of the session.
Backed(side) ==
  \A t \in TrThoughts : side[t].state = "moved" =>
    \E b \in TrBatches : \E i \in DOMAIN trCohorts[b] :
      t \in DOMAIN trCohorts[b][i] /\ trCohorts[b][i][t] = side[t].version

LEMMA MovedBothSides == T!MovedIsDelivered <=> Backed(trBoard) /\ Backed(trSaved)
BY DEF T!MovedIsDelivered, Backed

\* What is backed stays so as long as the cohorts stay.
LEMMA BackedKept ==
  ASSUME TransferMoves, NEW x, Backed(x), DOMAIN trCohorts = TrBatches
  PROVE  \A t \in TrThoughts : x[t].state = "moved" =>
           \E b \in TrBatches : \E i \in DOMAIN trCohorts'[b] :
             t \in DOMAIN trCohorts'[b][i] /\ trCohorts'[b][i][t] = x[t].version
<1> SUFFICES ASSUME NEW t \in TrThoughts, x[t].state = "moved"
             PROVE  \E b \in TrBatches : \E i \in DOMAIN trCohorts'[b] :
                      t \in DOMAIN trCohorts'[b][i] /\ trCohorts'[b][i][t] = x[t].version
  OBVIOUS
<1>1. PICK b \in TrBatches : \E i \in DOMAIN trCohorts[b] :
               t \in DOMAIN trCohorts[b][i] /\ trCohorts[b][i][t] = x[t].version
  BY DEF Backed
<1>2. trCohorts[b] # <<>>
  BY <1>1
<1>3. trCohorts'[b] = trCohorts[b]
  BY <1>2 DEF TransferMoves
<1> QED BY <1>1, <1>3

\* A thought sent by a batch the destination has is backed by it.
LEMMA SentBacks ==
  ASSUME NEW r, Sent(r), r.op \in TrBatches, NEW t \in T!Ids(r)
  PROVE  \E b \in TrBatches : \E i \in DOMAIN trCohorts[b] :
           t \in DOMAIN trCohorts[b][i] /\ trCohorts[b][i][t] = r.items[t]
<1>1. 1 \in DOMAIN trCohorts[r.op] /\ trCohorts[r.op][1] = r.items
  BY DEF Sent
<1> QED BY <1>1 DEF T!Ids

LEMMA TransferInit == ASSUME T!Init PROVE TransferInv
<1>1. TransferTypes
  <2>1. [version |-> 1, state |-> "live"] \in T!Thought
    BY TransferAssumption DEF T!Thought, T!Version
  <2>2. trBoard \in [TrThoughts -> T!Thought] /\ trSaved = trBoard
    <3>1. trBoard = [t \in TrThoughts |-> [version |-> 1, state |-> "live"]] /\ trSaved = trBoard
      BY DEF T!Init
    <3> HIDE DEF T!Thought
    <3> QED BY <2>1, <3>1
  <2>3. trAttempts \in [TrBatches -> [status : Statuses, reason : Reasons]]
    <3>1. trAttempts = [b \in TrBatches |-> [status |-> "none", reason |-> "none"]]
      BY DEF T!Init
    <3>0. "none" \in Statuses /\ "none" \in Reasons
      BY DEF Statuses, Reasons
    <3>2. [status |-> "none", reason |-> "none"] \in [status : Statuses, reason : Reasons]
      BY <3>0
    <3> QED BY <3>1, <3>2
  <2>4. trPicker.ids = {} /\ trPicker.remove \in BOOLEAN
    BY DEF T!Init, T!Closed
  <2>5. trClaims \in [TrThoughts -> TrBatches \cup {"nobody"}] /\ trOpened = 0
        /\ DOMAIN trRequests = TrBatches /\ DOMAIN trCohorts = TrBatches
    BY DEF T!Init, T!Nobody
  <2> QED BY <2>2, <2>3, <2>4, <2>5 DEF TransferTypes
<1>2. UnderWay
  BY DEF T!Init, UnderWay
<1>3. Delivering
  BY DEF T!Init, Delivering, T!Idle
<1>4. Journal
  BY DEF T!Init, Journal, Status, T!Nobody
<1>5. Backed(trBoard) /\ Backed(trSaved)
  BY DEF T!Init, Backed
<1> QED BY <1>1, <1>2, <1>3, <1>4, <1>5, MovedBothSides DEF TransferInv

\* A step that changes neither the board, nor the store, nor what is pending.
LEMMA MemoryOnly ==
  ASSUME TransferInv,
         UNCHANGED <<trBoard, trSaved, trPending, trAttempts, trRequests, trClaims, trCohorts, trLate>>,
         trPicker'.ids \subseteq TrThoughts, trPicker'.remove \in BOOLEAN, trOpened' \in Nat,
         trLane' \in Seq(LaneItems), trAnswers' \in Seq(AnswerItems),
         \A f \in trRetained' : f \in Removals /\ Known(f.request) /\ Taken(f.request),
         Delivering'
  PROVE  TransferInv'
<1>1. LaneItems' = LaneItems /\ AnswerItems' = AnswerItems
  BY DEF LaneItems, AnswerItems, Known, Sent, Taken, Status, T!Ids
<1>2. \A r : (Known(r)' <=> Known(r)) /\ (Taken(r)' <=> Taken(r)) /\ (Sent(r)' <=> Sent(r))
  BY DEF Known, Sent, Taken, Status, T!Ids
<1>3. TransferTypes'
  BY DEF TransferInv, TransferTypes
<1>4. UnderWay'
  BY <1>1, <1>2 DEF TransferInv, UnderWay
<1>5. Journal'
  BY <1>2 DEF TransferInv, Journal, Status, T!Ids
<1>6. T!MovedIsDelivered'
  BY DEF TransferInv, T!MovedIsDelivered
<1> QED BY <1>3, <1>4, <1>5, <1>6 DEF TransferInv

\* The delivery under way is untouched with the store.
LEMMA DeliveryStays ==
  ASSUME TransferInv, UNCHANGED <<trDelivery, trPending, trAttempts, trRequests, trCohorts>>
  PROVE  Delivering'
BY DEF TransferInv, Delivering, Known, Sent, Status

LEMMA TransferOwner ==
  ASSUME TransferInv,
         \/ \E ids \in SUBSET TrThoughts, remove \in BOOLEAN : T!BeginSessionTransfer(ids, remove)
         \/ T!ClosePicker \/ T!CompleteTransferDiscovery \/ T!RetryRemoval \/ T!Discover \/ T!PeerChanges
  PROVE  TransferInv'
<1>0. /\ trLane \in Seq(LaneItems) /\ trAnswers \in Seq(AnswerItems) /\ TransferTypes
      /\ \A f \in trRetained : f \in Removals /\ Known(f.request) /\ Taken(f.request)
  BY DEF TransferInv, UnderWay
<1>1. UNCHANGED <<trBoard, trSaved, trPending, trAttempts, trRequests, trClaims, trCohorts, trLate, trDelivery>>
  BY DEF T!BeginSessionTransfer, T!ClosePicker, T!CompleteTransferDiscovery, T!RetryRemoval,
         T!Discover, T!PeerChanges, T!store, T!memory
<1>2. Delivering'
  BY <1>1, DeliveryStays
<1>3. ASSUME NEW ids \in SUBSET TrThoughts, NEW remove \in BOOLEAN, T!BeginSessionTransfer(ids, remove)
      PROVE  TransferInv'
  <2>1. [kind |-> "discover", gen |-> trOpened + 1] \in LaneItems
    <3>1. trOpened + 1 \in Nat
      BY <1>0 DEF TransferTypes
    <3>2. [kind |-> "discover", gen |-> trOpened + 1] \in [kind : {"discover"}, gen : Nat]
      BY <3>1
    <3> QED BY <3>2 DEF LaneItems
  <2>2. trLane' \in Seq(LaneItems)
    BY <1>0, <1>3, <2>1, SeqParts DEF T!BeginSessionTransfer
  <2>3. trPicker'.ids \subseteq TrThoughts /\ trPicker'.remove \in BOOLEAN /\ trOpened' \in Nat
    <3>1. trPicker' = [gen |-> trOpened + 1, loading |-> TRUE, ids |-> ids, remove |-> remove]
          /\ trOpened' = trOpened + 1
      BY <1>3 DEF T!BeginSessionTransfer
    <3>2. trPicker'.ids = ids /\ trPicker'.remove = remove
      BY <3>1
    <3> QED BY <1>0, <3>1, <3>2 DEF TransferTypes
  <2>4. UNCHANGED <<trAnswers, trRetained>>
    BY <1>3 DEF T!BeginSessionTransfer
  <2> QED BY <1>0, <1>1, <1>2, <2>2, <2>3, <2>4, MemoryOnly
<1>4. CASE T!ClosePicker
  <2>1. trPicker' = T!Closed /\ UNCHANGED <<trOpened, trLane, trAnswers, trRetained>>
    BY <1>4 DEF T!ClosePicker
  <2>2. trPicker'.ids \subseteq TrThoughts /\ trPicker'.remove \in BOOLEAN /\ trOpened' \in Nat
    BY <1>0, <2>1 DEF T!Closed, TransferTypes
  <2> QED BY <1>0, <1>1, <1>2, <2>1, <2>2, MemoryOnly
<1>5. CASE T!CompleteTransferDiscovery
  <2>1. trAnswers' \in Seq(AnswerItems) /\ UNCHANGED <<trOpened, trLane, trRetained>>
    BY <1>0, <1>5, SeqParts DEF T!CompleteTransferDiscovery
  <2>2. \/ trPicker' = trPicker
        \/ trPicker' = [trPicker EXCEPT !.loading = FALSE]
        \/ trPicker' = T!Closed
    BY <1>5 DEF T!CompleteTransferDiscovery
  <2>3. trPicker'.ids \subseteq TrThoughts /\ trPicker'.remove \in BOOLEAN /\ trOpened' \in Nat
    <3>1. T!Closed.ids = {} /\ T!Closed.remove \in BOOLEAN
      BY DEF T!Closed
    <3>2. LET p == [trPicker EXCEPT !.loading = FALSE] IN p.ids = trPicker.ids /\ p.remove = trPicker.remove
      OBVIOUS
    <3> QED BY <1>0, <2>1, <2>2, <3>1, <3>2 DEF TransferTypes
  <2> QED BY <1>0, <1>1, <1>2, <2>1, <2>3, MemoryOnly
<1>6. CASE T!RetryRemoval
  <2>1. PICK f \in trRetained : trLane' = Append(trLane, f) /\ trRetained' = trRetained \ {f}
    BY <1>6 DEF T!RetryRemoval
  <2>2. f \in LaneItems
    BY <1>0 DEF LaneItems
  <2>3. trLane' \in Seq(LaneItems)
    BY <1>0, <2>1, <2>2, SeqParts
  <2>4. UNCHANGED <<trPicker, trOpened, trAnswers>>
    BY <1>6 DEF T!RetryRemoval
  <2>5. trPicker'.ids \subseteq TrThoughts /\ trPicker'.remove \in BOOLEAN /\ trOpened' \in Nat
    BY <1>0, <2>4 DEF TransferTypes
  <2> QED BY <1>0, <1>1, <1>2, <2>1, <2>3, <2>4, <2>5, MemoryOnly
<1>7. CASE T!Discover
  <2>1. trLane # <<>> /\ Head(trLane).kind = "discover" /\ trLane' = Tail(trLane)
    BY <1>7 DEF T!Discover, T!LaneIdle
  <2>2. Head(trLane) \in LaneItems /\ trLane' \in Seq(LaneItems)
    BY <1>0, <2>1, SeqParts
  <2>3. Head(trLane).gen \in Nat
    BY <2>1, <2>2, LaneKinds
  <2>4. \A x \in BOOLEAN : [kind |-> "sessions", gen |-> Head(trLane).gen, ok |-> x] \in AnswerItems
    BY <2>3 DEF AnswerItems
  <2>5. trAnswers' \in Seq(AnswerItems)
    <3>1. \E x \in BOOLEAN : trAnswers' = Append(trAnswers, [kind |-> "sessions", gen |-> Head(trLane).gen, ok |-> x])
      BY <1>7 DEF T!Discover, T!Answer
    <3> QED BY <1>0, <2>4, <3>1, SeqParts
  <2>6. UNCHANGED <<trPicker, trOpened, trRetained>>
    BY <1>7 DEF T!Discover
  <2>7. trPicker'.ids \subseteq TrThoughts /\ trPicker'.remove \in BOOLEAN /\ trOpened' \in Nat
    BY <1>0, <2>6 DEF TransferTypes
  <2> QED BY <1>0, <1>1, <1>2, <2>2, <2>5, <2>6, <2>7, MemoryOnly
<1>8. CASE T!PeerChanges
  <2>1. UNCHANGED <<trPicker, trOpened, trLane, trAnswers, trRetained>>
    BY <1>8 DEF T!PeerChanges, T!memory
  <2>2. trPicker'.ids \subseteq TrThoughts /\ trPicker'.remove \in BOOLEAN /\ trOpened' \in Nat
    BY <1>0, <2>1 DEF TransferTypes
  <2> QED BY <1>0, <1>1, <1>2, <2>1, <2>2, MemoryOnly
<1> QED BY <1>3, <1>4, <1>5, <1>6, <1>7, <1>8

\* What is left to show of a step that undoes nothing and adds nothing pending.
LEMMA MovesInv ==
  ASSUME TransferInv, TransferMoves, TransferTypes', trPending' \subseteq trPending,
         trLane' \in Seq(LaneItems'), trAnswers' \in Seq(AnswerItems'),
         \A f \in trRetained' : f \in Removals /\ Known(f.request)' /\ Taken(f.request)',
         Delivering', Journal', Backed(trBoard)', Backed(trSaved)'
  PROVE  TransferInv'
<1>1. \A r \in trPending' : Known(r)'
  BY MovesKeepRequests DEF TransferInv, UnderWay
<1>2. UnderWay'
  BY <1>1 DEF TransferInv, UnderWay
<1>3. T!MovedIsDelivered'
  BY MovedBothSides, PTL
<1> QED BY <1>2, <1>3 DEF TransferInv

LEMMA MovesDelivering ==
  ASSUME TransferInv, TransferMoves, UNCHANGED <<trDelivery, trAttempts>>
  PROVE  Delivering'
<1>1. CASE trDelivery.phase = "idle"
  BY <1>1 DEF Delivering
<1>2. CASE trDelivery.phase # "idle"
  <2>1. Delivering
    BY DEF TransferInv
  <2>2. PICK r : r = trDelivery.request
    OBVIOUS
  <2>3. Known(r) /\ (trDelivery.phase = "delivered" => Sent(r))
    BY <1>2, <2>1, <2>2 DEF Delivering
  <2>4. Known(r)' /\ (trDelivery.phase = "delivered" => Sent(r)')
    BY <2>3, MovesKeepRequests
  <2> QED BY <1>2, <2>1, <2>2, <2>4 DEF Delivering, Status
<1> QED BY <1>1, <1>2

\* A cohort chosen for a destination becomes pending.
LEMMA TransferChoose ==
  ASSUME TransferInv, T!ChooseTransfer
  PROVE  TransferInv'
<1>0. /\ trLane \in Seq(LaneItems) /\ trAnswers \in Seq(AnswerItems) /\ TransferTypes
      /\ \A f \in trRetained : f \in Removals /\ Known(f.request) /\ Taken(f.request)
      /\ UnderWay /\ Journal
  BY DEF TransferInv, UnderWay
<1>1. /\ UNCHANGED <<trBoard, trSaved, trOpened, trDelivery, trAnswers, trRetained>>
      /\ UNCHANGED <<trAttempts, trRequests, trClaims, trCohorts, trLate>>
      /\ trPicker' = T!Closed
  BY DEF T!ChooseTransfer, T!store
<1>2. trPicker'.ids \subseteq TrThoughts /\ trPicker'.remove \in BOOLEAN /\ trOpened' \in Nat
  BY <1>0, <1>1 DEF T!Closed, TransferTypes
<1>3. ASSUME UNCHANGED <<trPending, trLane>> PROVE TransferInv'
  <2>1. Delivering'
    BY <1>1, <1>3, DeliveryStays
  <2> QED BY <1>0, <1>1, <1>2, <1>3, <2>1, MemoryOnly
<1>4. ASSUME NEW r \in trPending, UNCHANGED trPending,
             trLane' = Append(trLane, [kind |-> "transfer", request |-> r])
      PROVE  TransferInv'
  <2>1. Delivering'
    BY <1>1, <1>4, DeliveryStays
  <2>2. Known(r) /\ r \in T!Request
    BY <1>0 DEF UnderWay
  <2>3. [kind |-> "transfer", request |-> r] \in LaneItems
    BY <2>2 DEF LaneItems
  <2>4. trLane' \in Seq(LaneItems)
    BY <1>0, <1>4, <2>3, SeqParts
  <2> QED BY <1>0, <1>1, <1>2, <1>4, <2>1, <2>4, MemoryOnly
<1>5. ASSUME NEW b \in TrBatches, trAttempts[b].status = "none", \A s \in trPending : s.op # b,
             NEW r, r = [op |-> b, items |-> [t \in trPicker.ids |-> trBoard[t].version],
                         remove |-> trPicker.remove],
             trPending' = trPending \cup {r},
             trLane' = Append(trLane, [kind |-> "transfer", request |-> r])
      PROVE  TransferInv'
  <2>1. r \in T!Request /\ r.op = b
    <3>1. [t \in trPicker.ids |-> trBoard[t].version] \in [trPicker.ids -> T!Version]
      BY <1>0 DEF TransferTypes, T!Thought
    <3> QED BY <1>0, <1>5, <3>1, NewRequest DEF TransferTypes
  <2>2. TransferMoves
    BY <1>1, <1>5 DEF TransferMoves, Status
  <2>3. Known(r)'
    BY <1>1, <1>5, <2>1 DEF Known, Status
  <2>4. \A s \in trPending' : Known(s)'
    BY <1>0, <1>5, <2>2, <2>3, MovesKeepRequests DEF UnderWay
  <2>5. \A s, q \in trPending' : s.op = q.op => s = q
    BY <1>0, <1>5, <2>1 DEF UnderWay
  <2>6. [kind |-> "transfer", request |-> r] \in LaneItems'
    BY <2>1, <2>3 DEF LaneItems
  <2>7. trLane' \in Seq(LaneItems')
    BY <1>5, <2>2, <2>6, MovesKeep, SeqParts
  <2>8. UnderWay'
    <3>1. /\ trAnswers' \in Seq(AnswerItems')
          /\ \A f \in trRetained' : f \in Removals /\ Known(f.request)' /\ Taken(f.request)'
      BY <1>1, <2>2, MovesKeep
    <3>2. trPending' \subseteq T!Request
      BY <1>0, <1>5, <2>1 DEF UnderWay
    <3> QED BY <2>4, <2>5, <2>7, <3>1, <3>2 DEF UnderWay
  <2>9. Delivering'
    BY <1>1, <2>2, MovesDelivering
  <2>10. Journal'
    BY <1>0, <1>1, <1>5 DEF Journal, Status, Sent
  <2>11. TransferTypes'
    BY <1>0, <1>1, <1>2 DEF TransferTypes
  <2>12. T!MovedIsDelivered'
    BY <1>1 DEF TransferInv, T!MovedIsDelivered
  <2> QED BY <2>8, <2>9, <2>10, <2>11, <2>12 DEF TransferInv
<1> QED BY <1>3, <1>4, <1>5 DEF T!ChooseTransfer

\* The sources of a delivered cohort are removed, or the request is finished without.
LEMMA TransferBatch ==
  ASSUME TransferInv, T!CompleteTransferBatch
  PROVE  TransferInv'
<1>0. /\ trLane \in Seq(LaneItems) /\ trAnswers \in Seq(AnswerItems) /\ TransferTypes
      /\ \A f \in trRetained : f \in Removals /\ Known(f.request) /\ Taken(f.request)
      /\ UnderWay /\ Journal /\ Backed(trBoard) /\ Backed(trSaved)
  BY MovedBothSides DEF TransferInv, UnderWay
<1>1. /\ UNCHANGED <<trSaved, trPicker, trOpened, trPending, trDelivery, trRetained>>
      /\ UNCHANGED <<trAttempts, trRequests, trClaims, trCohorts, trLate>>
      /\ trAnswers # <<>> /\ Head(trAnswers).kind = "transferred" /\ trAnswers' = Tail(trAnswers)
  BY DEF T!CompleteTransferBatch, T!store
<1>2. Head(trAnswers) \in AnswerItems /\ Tail(trAnswers) \in Seq(AnswerItems)
  BY <1>0, <1>1, SeqParts
<1>3. PICK r : r = Head(trAnswers).request
  OBVIOUS
<1>4. /\ Known(r) /\ r \in T!Request /\ r.op \in TrBatches /\ T!Ids(r) \subseteq TrThoughts
      /\ Head(trAnswers).ok => Sent(r)
  BY <1>1, <1>2, <1>3, AnswerKinds, RequestFacts DEF Known
<1>5. ASSUME UNCHANGED trBoard, trLane' \in Seq(LaneItems) PROVE TransferInv'
  <2>1. Delivering'
    BY <1>1, DeliveryStays
  <2>2. trPicker'.ids \subseteq TrThoughts /\ trPicker'.remove \in BOOLEAN /\ trOpened' \in Nat
    BY <1>0, <1>1 DEF TransferTypes
  <2> QED BY <1>0, <1>1, <1>2, <1>5, <2>1, <2>2, MemoryOnly
<1>6. ASSUME NEW w \in {"kept", "source_changed"}, UNCHANGED trBoard,
             trLane' = Append(trLane, T!Finish(r, FALSE, w))
      PROVE  TransferInv'
  <2>1. T!Finish(r, FALSE, w) \in LaneItems
    BY <1>4 DEF T!Finish, LaneItems, Reasons
  <2>2. trLane' \in Seq(LaneItems)
    BY <1>0, <1>6, <2>1, SeqParts
  <2> QED BY <1>5, <1>6, <2>2
<1>7. ASSUME Sent(r), T!SourcesUnchanged(r),
             trBoard' = [t \in TrThoughts |->
                           IF t \in T!Ids(r) THEN [trBoard[t] EXCEPT !.state = "moved"] ELSE trBoard[t]],
             trLane' = Append(trLane, T!Finish(r, TRUE, "removed"))
      PROVE  TransferInv'
  <2>1. ASSUME NEW t \in TrThoughts
        PROVE  /\ t \in T!Ids(r) => trBoard'[t] = [version |-> r.items[t], state |-> "moved"]
               /\ t \notin T!Ids(r) => trBoard'[t] = trBoard[t]
               /\ trBoard'[t] \in T!Thought /\ trBoard'[t].version = trBoard[t].version
    <3>1. trBoard[t] \in T!Thought
      BY <1>0 DEF TransferTypes
    <3>2. CASE t \in T!Ids(r)
      <4>1. trBoard[t].version = r.items[t]
        BY <1>7, <3>2 DEF T!SourcesUnchanged
      <4>2. [trBoard[t] EXCEPT !.state = "moved"] = [version |-> r.items[t], state |-> "moved"]
        BY <3>1, <4>1 DEF T!Thought
      <4>3. trBoard'[t] = [version |-> r.items[t], state |-> "moved"]
        BY <1>7, <3>2, <4>2
      <4> QED BY <3>1, <3>2, <4>1, <4>3 DEF T!Thought
    <3>3. CASE t \notin T!Ids(r)
      BY <1>7, <3>1, <3>3
    <3> QED BY <3>2, <3>3
  <2>2. TransferMoves
    <3>1. ASSUME NEW t \in TrThoughts, trBoard[t].state = "moved" PROVE trBoard'[t] = trBoard[t]
      BY <1>7, <2>1, <3>1 DEF T!SourcesUnchanged, T!Live
    <3> QED BY <1>1, <3>1 DEF TransferMoves, Status
  <2>3. Known(r)' /\ Taken(r)'
    <3>1. Taken(r)'
      BY <2>1 DEF Taken, T!Ids
    <3> QED BY <1>4, <2>2, <3>1, MovesKeepRequests
  <2>4. T!Finish(r, TRUE, "removed") \in LaneItems'
    BY <1>4, <2>3 DEF T!Finish, LaneItems, Removals, Reasons
  <2>5. trLane' \in Seq(LaneItems')
    BY <1>7, <2>2, <2>4, MovesKeep, SeqParts
  <2>6. trAnswers' \in Seq(AnswerItems')
    BY <1>1, <1>2, <2>2, MovesKeep, SeqWider
  <2>7. \A f \in trRetained' : f \in Removals /\ Known(f.request)' /\ Taken(f.request)'
    BY <1>1, <2>2, MovesKeep
  <2>8. TransferTypes'
    <3>1. trBoard' \in [TrThoughts -> T!Thought]
      BY <1>7, <2>1
    <3> QED BY <1>0, <1>1, <2>1, <3>1 DEF TransferTypes
  <2>9. Delivering'
    BY <1>1, <2>2, MovesDelivering
  <2>10. Journal'
    BY <1>0, <1>1 DEF Journal, Status, Sent
  <2>11. Backed(trSaved)'
    BY <1>0, <1>1 DEF Backed
  <2>12. Backed(trBoard)'
    <3> SUFFICES ASSUME NEW t \in TrThoughts, trBoard'[t].state = "moved"
                 PROVE  \E b \in TrBatches : \E i \in DOMAIN trCohorts'[b] :
                          t \in DOMAIN trCohorts'[b][i] /\ trCohorts'[b][i][t] = trBoard'[t].version
      BY DEF Backed
    <3>1. CASE t \in T!Ids(r)
      <4>1. trBoard'[t].version = r.items[t]
        <5>1. trBoard'[t] = [version |-> r.items[t], state |-> "moved"]
          BY <2>1, <3>1
        <5> QED BY <5>1
      <4>2. \E b \in TrBatches : \E i \in DOMAIN trCohorts[b] :
              t \in DOMAIN trCohorts[b][i] /\ trCohorts[b][i][t] = r.items[t]
        BY <1>4, <1>7, <3>1, SentBacks
      <4> QED BY <1>1, <4>1, <4>2
    <3>2. CASE t \notin T!Ids(r)
      <4>1. trBoard'[t] = trBoard[t]
        BY <2>1, <3>2
      <4> QED BY <1>0, <1>1, <4>1 DEF Backed
    <3> QED BY <3>1, <3>2
  <2> QED BY <1>1, <2>2, <2>5, <2>6, <2>7, <2>8, <2>9, <2>10, <2>11, <2>12, MovesInv
<1>8. UNCHANGED <<trBoard, trLane>> => TransferInv'
  BY <1>0, <1>5
<1> QED
  <2>1. \/ UNCHANGED <<trBoard, trLane>>
        \/ \E w \in {"kept", "source_changed"} :
             UNCHANGED trBoard /\ trLane' = Append(trLane, T!Finish(r, FALSE, w))
        \/ /\ Head(trAnswers).ok /\ T!SourcesUnchanged(r)
           /\ trBoard' = [t \in TrThoughts |->
                           IF t \in T!Ids(r) THEN [trBoard[t] EXCEPT !.state = "moved"] ELSE trBoard[t]]
           /\ trLane' = Append(trLane, T!Finish(r, TRUE, "removed"))
    BY <1>3 DEF T!CompleteTransferBatch
  <2> QED BY <1>4, <1>6, <1>7, <1>8, <2>1

\* A finished request is pending no longer.
LEMMA TransferFinished ==
  ASSUME TransferInv, T!CompleteTransferFinished
  PROVE  TransferInv'
<1>0. /\ trLane \in Seq(LaneItems) /\ trAnswers \in Seq(AnswerItems) /\ TransferTypes
      /\ UnderWay /\ Journal /\ Backed(trBoard) /\ Backed(trSaved)
  BY MovedBothSides DEF TransferInv, UnderWay
<1>1. /\ UNCHANGED <<trBoard, trSaved, trPicker, trOpened, trLane, trDelivery, trRetained>>
      /\ UNCHANGED <<trAttempts, trRequests, trClaims, trCohorts, trLate>>
      /\ trAnswers # <<>> /\ Head(trAnswers).kind = "finished" /\ trAnswers' = Tail(trAnswers)
      /\ trPending' = IF Head(trAnswers).ok THEN {s \in trPending : s.op # Head(trAnswers).op}
                      ELSE trPending
  BY DEF T!CompleteTransferFinished, T!store
<1>2. Head(trAnswers) \in AnswerItems /\ Tail(trAnswers) \in Seq(AnswerItems)
  BY <1>0, <1>1, SeqParts
<1>3. Head(trAnswers).ok => Status(Head(trAnswers).op) = "completed"
  BY <1>1, <1>2, AnswerKinds
<1>4. /\ trPending' \subseteq trPending
      /\ \A s \in trPending : s \notin trPending' => Status(s.op) = "completed"
  BY <1>1, <1>3
<1>5. TransferMoves
  BY <1>1, <1>4 DEF TransferMoves, Status
<1>6. Journal'
  <2>1. ASSUME NEW t \in TrThoughts, trClaims[t] # "nobody"
        PROVE  trRequests[trClaims[t]] \in trPending'
    <3>1. /\ trClaims[t] \in TrBatches /\ Status(trClaims[t]) \notin {"none", "completed"}
          /\ trRequests[trClaims[t]] \in trPending
      BY <1>0, <2>1 DEF Journal, TransferTypes
    <3>2. trRequests[trClaims[t]].op = trClaims[t]
      BY <1>0, <3>1 DEF Journal
    <3> QED BY <1>4, <3>1, <3>2
  <2> QED BY <1>0, <1>1, <2>1 DEF Journal, Status, Sent
<1>7. TransferTypes'
  BY <1>0, <1>1 DEF TransferTypes
<1>8. trAnswers' \in Seq(AnswerItems')
  BY <1>1, <1>2, <1>5, MovesKeep, SeqWider
<1>9. /\ trLane' \in Seq(LaneItems')
      /\ \A f \in trRetained' : f \in Removals /\ Known(f.request)' /\ Taken(f.request)'
  BY <1>1, <1>5, MovesKeep
<1>10. Delivering'
  BY <1>1, <1>5, MovesDelivering
<1>11. Backed(trBoard)' /\ Backed(trSaved)'
  BY <1>0, <1>1 DEF Backed
<1> QED BY <1>4, <1>5, <1>6, <1>7, <1>8, <1>9, <1>10, <1>11, MovesInv

\* An edit or a deletion touches a live thought, in memory and in the store.
LEMMA TransferChange ==
  ASSUME TransferInv, NEW u \in TrThoughts, T!ChangeThought(u)
  PROVE  TransferInv'
<1>0. /\ trLane \in Seq(LaneItems) /\ trAnswers \in Seq(AnswerItems) /\ TransferTypes
      /\ UnderWay /\ Journal /\ Backed(trBoard) /\ Backed(trSaved)
  BY MovedBothSides DEF TransferInv, UnderWay
<1>1. /\ UNCHANGED <<trPicker, trOpened, trPending, trLane, trDelivery, trAnswers, trRetained>>
      /\ UNCHANGED <<trAttempts, trRequests, trClaims, trCohorts, trLate>>
      /\ trBoard[u].state = "live" /\ trSaved' = trBoard'
  BY DEF T!ChangeThought, T!Live
<1>2. PICK v \in T!Thought : v.state # "moved" /\ trBoard' = [trBoard EXCEPT ![u] = v]
  <2>1. trBoard[u] \in T!Thought /\ trBoard \in [TrThoughts -> T!Thought]
    BY <1>0 DEF TransferTypes
  <2>2. CASE trBoard[u].version < TrMaxVersion /\ trBoard' = [trBoard EXCEPT ![u].version = @ + 1]
    <3>1. trBoard[u].version + 1 \in T!Version
      BY <2>1, <2>2, TransferAssumption DEF T!Thought, T!Version
    <3>2. LET v == [trBoard[u] EXCEPT !.version = @ + 1] IN v \in T!Thought /\ v.state = "live"
      BY <1>1, <2>1, <3>1 DEF T!Thought
    <3> QED BY <2>2, <3>2
  <2>3. CASE trBoard' = [trBoard EXCEPT ![u].state = "deleted"]
    <3>1. LET v == [trBoard[u] EXCEPT !.state = "deleted"] IN v \in T!Thought /\ v.state = "deleted"
      BY <2>1 DEF T!Thought
    <3> QED BY <2>3, <3>1
  <2> QED BY <2>2, <2>3 DEF T!ChangeThought
<1>3. /\ trBoard' \in [TrThoughts -> T!Thought] /\ trBoard'[u] = v
      /\ \A t \in TrThoughts \ {u} : trBoard'[t] = trBoard[t]
  BY <1>0, <1>2 DEF TransferTypes
<1>4. TransferMoves
  BY <1>1, <1>3 DEF TransferMoves, Status
<1>5. TransferTypes'
  BY <1>0, <1>1, <1>3 DEF TransferTypes
<1>6. Journal'
  BY <1>0, <1>1 DEF Journal, Status, Sent
<1>7. /\ trLane' \in Seq(LaneItems') /\ trAnswers' \in Seq(AnswerItems')
      /\ \A f \in trRetained' : f \in Removals /\ Known(f.request)' /\ Taken(f.request)'
  BY <1>1, <1>4, MovesKeep
<1>8. Delivering'
  BY <1>1, <1>4, MovesDelivering
<1>9. Backed(trBoard)' /\ Backed(trSaved)'
  BY <1>0, <1>1, <1>2, <1>3 DEF Backed
<1> QED BY <1>1, <1>4, <1>5, <1>6, <1>7, <1>8, <1>9, MovesInv

\* A refused delivery is answered and the lane is idle again.
LEMMA UndeliveredFacts ==
  ASSUME TransferInv, NEW r, Known(r)
  PROVE  [kind |-> "transferred", request |-> r, ok |-> FALSE] \in AnswerItems
BY DEF AnswerItems, Known

\* The steps that leave the board and what is pending alone.
LEMMA StoreStep ==
  ASSUME TransferInv, TransferMoves,
         UNCHANGED <<trBoard, trSaved, trPicker, trOpened, trPending, trRetained>>,
         trLane' \in Seq(LaneItems), trAnswers' \in Seq(AnswerItems'),
         trAttempts' \in [TrBatches -> [status : Statuses, reason : Reasons]],
         DOMAIN trRequests' = TrBatches, DOMAIN trCohorts' = TrBatches,
         trClaims' \in [TrThoughts -> TrBatches \cup {"nobody"}],
         Delivering', Journal'
  PROVE  TransferInv'
<1>1. /\ TransferTypes /\ Backed(trBoard) /\ Backed(trSaved)
  BY MovedBothSides DEF TransferInv
<1>2. TransferTypes'
  BY <1>1 DEF TransferTypes
<1>3. trLane' \in Seq(LaneItems')
  BY MovesKeep, SeqWider
<1>4. \A f \in trRetained' : f \in Removals /\ Known(f.request)' /\ Taken(f.request)'
  BY MovesKeep
<1>5. Backed(trBoard)' /\ Backed(trSaved)'
  <2>1. DOMAIN trCohorts = TrBatches
    BY <1>1 DEF TransferTypes
  <2>2. PICK x, y : x = trBoard /\ y = trSaved
    OBVIOUS
  <2>3. Backed(x) /\ Backed(y)
    BY <1>1, <2>2
  <2>4. \A z \in {x, y} : \A t \in TrThoughts : z[t].state = "moved" =>
           \E b \in TrBatches : \E i \in DOMAIN trCohorts'[b] :
             t \in DOMAIN trCohorts'[b][i] /\ trCohorts'[b][i][t] = z[t].version
    BY <2>1, <2>3, BackedKept
  <2>5. trBoard' = x /\ trSaved' = y
    BY <2>2
  <2> QED BY <2>4, <2>5 DEF Backed
<1> QED BY <1>2, <1>3, <1>4, <1>5, MovesInv

\* A new attempt is journalled before anything is sent.
LEMMA TransferPrepare ==
  ASSUME TransferInv, T!PrepareTransfer
  PROVE  TransferInv'
<1>0. /\ trLane \in Seq(LaneItems) /\ trAnswers \in Seq(AnswerItems) /\ TransferTypes
      /\ \A f \in trRetained : f \in Removals /\ Known(f.request) /\ Taken(f.request)
      /\ UnderWay /\ Journal
  BY DEF TransferInv, UnderWay
<1>1. /\ UNCHANGED <<trBoard, trSaved, trPicker, trOpened, trPending, trRetained, trCohorts, trLate>>
      /\ trLane # <<>> /\ Head(trLane).kind = "transfer" /\ trLane' = Tail(trLane)
  BY DEF T!PrepareTransfer, T!store, T!LaneIdle
<1>2. Head(trLane) \in LaneItems /\ trLane' \in Seq(LaneItems)
  BY <1>0, <1>1, SeqParts
<1>3. PICK r : r = Head(trLane).request
  OBVIOUS
<1>4. Known(r) /\ r \in T!Request /\ r.op \in TrBatches /\ T!Ids(r) \subseteq TrThoughts
  BY <1>1, <1>2, <1>3, LaneKinds, RequestFacts DEF Known
<1>5. trPicker'.ids \subseteq TrThoughts /\ trPicker'.remove \in BOOLEAN /\ trOpened' \in Nat
  BY <1>0, <1>1 DEF TransferTypes
<1>6. ASSUME UNCHANGED <<trAttempts, trRequests, trClaims>>, trAnswers' \in Seq(AnswerItems), Delivering'
      PROVE  TransferInv'
  BY <1>0, <1>1, <1>2, <1>5, <1>6, MemoryOnly
<1>7. ASSUME T!Undelivered(r), UNCHANGED <<trAttempts, trRequests, trClaims>>
      PROVE  TransferInv'
  <2>1. trAnswers' \in Seq(AnswerItems)
    BY <1>0, <1>4, <1>7, UndeliveredFacts, SeqParts DEF T!Undelivered, T!Answer
  <2>2. Delivering'
    BY <1>7 DEF T!Undelivered, T!Idle, Delivering
  <2> QED BY <1>6, <1>7, <2>1, <2>2
<1>8. ASSUME Status(r.op) \in {"accepted", "completed"}, UNCHANGED <<trAttempts, trRequests, trClaims, trDelivery>>,
             T!Answer([kind |-> "transferred", request |-> r, ok |-> TRUE])
      PROVE  TransferInv'
  <2>1. Sent(r)
    BY <1>0, <1>4, <1>8 DEF Journal, Known
  <2>2. [kind |-> "transferred", request |-> r, ok |-> TRUE] \in AnswerItems
    BY <1>4, <2>1 DEF AnswerItems
  <2>3. trAnswers' \in Seq(AnswerItems)
    BY <1>0, <1>8, <2>2, SeqParts DEF T!Answer
  <2>4. Delivering'
    BY <1>1, <1>8, DeliveryStays
  <2> QED BY <1>6, <1>8, <2>3, <2>4
<1>9. ASSUME Status(r.op) \in {"prepared", "sending"}, UNCHANGED <<trAttempts, trRequests, trClaims, trAnswers>>,
             trDelivery' = [phase |-> "prepared", request |-> r]
      PROVE  TransferInv'
  <2>1. Known(r)' /\ Status(r.op)' = Status(r.op)
    BY <1>1, <1>4, <1>9 DEF Known, Status
  <2>2. trDelivery'.phase = "prepared" /\ trDelivery'.request = r
        /\ trDelivery' \in [phase : {"prepared", "sending", "delivered"}, request : T!Request]
    BY <1>4, <1>9
  <2>3. Delivering'
    BY <1>9, <2>1, <2>2 DEF Delivering
  <2> QED BY <1>0, <1>6, <1>9, <2>3
<1>10. ASSUME Status(r.op) = "none", UNCHANGED trAnswers,
              trAttempts' = [trAttempts EXCEPT ![r.op].status = "prepared"],
              trRequests' = [trRequests EXCEPT ![r.op] = r],
              trClaims' = [t \in TrThoughts |-> IF t \in T!Ids(r) THEN r.op ELSE trClaims[t]],
              trDelivery' = [phase |-> "prepared", request |-> r]
       PROVE  TransferInv'
  <2>1. /\ Status(r.op)' = "prepared" /\ trRequests'[r.op] = r
        /\ \A b \in TrBatches \ {r.op} : Status(b)' = Status(b) /\ trRequests'[b] = trRequests[b]
        /\ trAttempts' \in [TrBatches -> [status : Statuses, reason : Reasons]]
        /\ DOMAIN trRequests' = TrBatches
    <3>1. trAttempts[r.op] \in [status : Statuses, reason : Reasons]
      BY <1>0, <1>4 DEF TransferTypes
    <3>2. PICK a : a = [trAttempts[r.op] EXCEPT !.status = "prepared"]
      OBVIOUS
    <3>3. a.status = "prepared" /\ a \in [status : Statuses, reason : Reasons]
      BY <3>1, <3>2 DEF Statuses
    <3>4. trAttempts' = [trAttempts EXCEPT ![r.op] = a]
      BY <1>10, <3>2
    <3> QED BY <1>0, <1>4, <1>10, <3>3, <3>4 DEF TransferTypes, Status
  <2>2. r \in trPending
    BY <1>4, <1>10 DEF Known
  <2>3. TransferMoves
    BY <1>1, <1>10, <2>1, <2>2 DEF TransferMoves
  <2>4. Known(r)'
    BY <1>4, <2>3, MovesKeepRequests
  <2>5. Delivering'
    <3>1. trDelivery'.phase = "prepared" /\ trDelivery'.request = r
          /\ trDelivery' \in [phase : {"prepared", "sending", "delivered"}, request : T!Request]
      BY <1>4, <1>10
    <3> QED BY <2>1, <2>4, <3>1 DEF Delivering
  <2>6. trClaims' \in [TrThoughts -> TrBatches \cup {"nobody"}]
    BY <1>0, <1>4, <1>10 DEF TransferTypes
  <2>7. Journal'
    <3>1. trCohorts[r.op] = <<>>
      BY <1>0, <1>4, <1>10 DEF Journal
    <3>2. \A b \in TrBatches : Status(b)' # "none" => trRequests'[b] \in T!Request /\ trRequests'[b].op = b
      BY <1>0, <1>4, <2>1 DEF Journal
    <3>3. \A b \in TrBatches : Status(b)' \in {"accepted", "completed"} => Sent(trRequests[b])' 
      BY <1>0, <1>1, <2>1 DEF Journal, Sent
    <3>4. \A b \in TrBatches : trCohorts'[b] # <<>> =>
            Status(b)' # "none" /\ trCohorts'[b] = <<trRequests'[b].items>>
      BY <1>0, <1>1, <2>1, <3>1 DEF Journal
    <3>5. \A q \in trLate' : q \in T!Request /\ Status(q.op)' # "none" /\ trRequests'[q.op] = q
      BY <1>0, <1>1, <1>10, <2>1, RequestFacts DEF Journal
    <3>6. ASSUME NEW t \in TrThoughts, trClaims'[t] # "nobody"
          PROVE  /\ Status(trClaims[t])' \notin {"none", "completed"}
                 /\ t \in T!Ids(trRequests'[trClaims'[t]])
                 /\ trRequests'[trClaims'[t]] \in trPending'
      <4>1. CASE t \in T!Ids(r)
        <5>1. trClaims'[t] = r.op
          BY <1>10, <4>1
        <5>2. trAttempts'[r.op].status = "prepared"
          BY <2>1 DEF Status
        <5> QED BY <1>1, <2>1, <2>2, <4>1, <5>1, <5>2 DEF Status
      <4>2. CASE t \notin T!Ids(r)
        <5>1. trClaims'[t] = trClaims[t] /\ trClaims[t] # "nobody" /\ trClaims[t] \in TrBatches
          BY <1>0, <1>10, <3>6, <4>2 DEF TransferTypes
        <5>2. /\ Status(trClaims[t]) \notin {"none", "completed"}
              /\ t \in T!Ids(trRequests[trClaims[t]]) /\ trRequests[trClaims[t]] \in trPending
          BY <1>0, <5>1 DEF Journal
        <5>3. trClaims[t] # r.op
          BY <1>10, <5>2
        <5>4. /\ trAttempts'[trClaims[t]].status = trAttempts[trClaims[t]].status
              /\ trRequests'[trClaims[t]] = trRequests[trClaims[t]]
          BY <2>1, <5>1, <5>3 DEF Status
        <5> QED BY <1>1, <5>1, <5>2, <5>4 DEF Status
      <4> QED BY <4>1, <4>2
    <3> QED BY <3>2, <3>3, <3>4, <3>5, <3>6 DEF Journal, T!Ids
  <2>8. trAnswers' \in Seq(AnswerItems')
    BY <1>10, <2>3, MovesKeep
  <2>9. DOMAIN trCohorts' = TrBatches
    BY <1>0, <1>1 DEF TransferTypes
  <2> QED BY <1>1, <1>2, <2>1, <2>3, <2>5, <2>6, <2>7, <2>8, <2>9, StoreStep
<1>11. \/ T!Undelivered(r) /\ UNCHANGED <<trAttempts, trRequests, trClaims>>
       \/ /\ Status(r.op) \in {"accepted", "completed"}
          /\ T!Answer([kind |-> "transferred", request |-> r, ok |-> TRUE])
          /\ UNCHANGED <<trAttempts, trRequests, trClaims, trDelivery>>
       \/ /\ Status(r.op) \in {"prepared", "sending"}
          /\ trDelivery' = [phase |-> "prepared", request |-> r]
          /\ UNCHANGED <<trAttempts, trRequests, trClaims, trAnswers>>
       \/ /\ Status(r.op) = "none"
          /\ trAttempts' = [trAttempts EXCEPT ![r.op].status = "prepared"]
          /\ trRequests' = [trRequests EXCEPT ![r.op] = r]
          /\ trClaims' = [t \in TrThoughts |-> IF t \in T!Ids(r) THEN r.op ELSE trClaims[t]]
          /\ trDelivery' = [phase |-> "prepared", request |-> r]
          /\ UNCHANGED trAnswers
  BY <1>3 DEF T!PrepareTransfer, T!store, Status
<1> QED BY <1>7, <1>8, <1>9, <1>10, <1>11

\* The delivery under way, before and after a step of its own.
DeliveryFacts(r) ==
  /\ r = trDelivery.request /\ Known(r) /\ r \in T!Request /\ r.op \in TrBatches
  /\ T!Ids(r) \subseteq TrThoughts /\ trRequests[r.op] = r
  /\ trDelivery.phase = "prepared" => Status(r.op) \in {"prepared", "sending"}
  /\ trDelivery.phase # "prepared" => Status(r.op) = "sending"
  /\ trDelivery.phase = "delivered" => Sent(r)
  /\ trDelivery = [phase |-> trDelivery.phase, request |-> r]

LEMMA DeliveryUnderWay ==
  ASSUME TransferInv, trDelivery.phase # "idle"
  PROVE  \E r : DeliveryFacts(r)
<1>1. PICK r : r = trDelivery.request
  OBVIOUS
<1>2. /\ trDelivery \in [phase : {"prepared", "sending", "delivered"}, request : T!Request]
      /\ Known(r)
      /\ trDelivery.phase = "prepared" => Status(r.op) \in {"prepared", "sending"}
      /\ trDelivery.phase # "prepared" => Status(r.op) = "sending"
      /\ trDelivery.phase = "delivered" => Sent(r)
  BY <1>1 DEF TransferInv, Delivering
<1>3. r \in T!Request /\ r.op \in TrBatches /\ T!Ids(r) \subseteq TrThoughts
  BY <1>2, RequestFacts DEF Known
<1>4. trRequests[r.op] = r
  BY <1>2 DEF Known
<1>5. trDelivery = [phase |-> trDelivery.phase, request |-> r]
  BY <1>1, <1>2
<1> QED BY <1>1, <1>2, <1>3, <1>4, <1>5 DEF DeliveryFacts

\* One attempt moves on, and keeps its reason.
LEMMA AttemptMoves ==
  ASSUME TransferInv, NEW b \in TrBatches, NEW s \in Statuses,
         trAttempts' = [trAttempts EXCEPT ![b].status = s]
  PROVE  /\ Status(b)' = s /\ \A c \in TrBatches \ {b} : Status(c)' = Status(c)
         /\ trAttempts' \in [TrBatches -> [status : Statuses, reason : Reasons]]
<1>1. trAttempts \in [TrBatches -> [status : Statuses, reason : Reasons]]
  BY DEF TransferInv, TransferTypes
<1>2. PICK a : a = [trAttempts[b] EXCEPT !.status = s]
  OBVIOUS
<1>3. a.status = s /\ a \in [status : Statuses, reason : Reasons]
  BY <1>1, <1>2
<1>4. trAttempts' = [trAttempts EXCEPT ![b] = a]
  BY <1>2
<1> QED BY <1>1, <1>3, <1>4 DEF Status

\* The journal of a step that moves one open attempt to another open state.
LEMMA JournalOpen ==
  ASSUME TransferInv, NEW b \in TrBatches,
         UNCHANGED <<trPending, trRequests, trClaims, trCohorts, trLate>>,
         Status(b) \notin {"none", "completed"}, Status(b)' \notin {"none", "completed"},
         Status(b)' = "accepted" => Sent(trRequests[b]),
         \A c \in TrBatches \ {b} : Status(c)' = Status(c)
  PROVE  Journal'
<1>1. Journal /\ TransferTypes
  BY DEF TransferInv
<1>2. \A c \in TrBatches : (Status(c) = "none") <=> (Status(c)' = "none")
  OBVIOUS
<1>3. \A c \in TrBatches : Status(c)' \in {"accepted", "completed"} => Sent(trRequests[c])
  BY <1>1 DEF Journal
<1>4. \A c \in TrBatches : Sent(trRequests[c]) => Sent(trRequests[c])'
  BY DEF Sent
<1>5. ASSUME NEW t \in TrThoughts, trClaims[t] # "nobody"
      PROVE  Status(trClaims[t])' \notin {"none", "completed"}
  <2>1. PICK c \in TrBatches : c = trClaims[t]
    BY <1>1, <1>5 DEF TransferTypes
  <2>2. Status(c) \notin {"none", "completed"}
    BY <1>1, <1>5, <2>1 DEF Journal
  <2>3. Status(c)' \notin {"none", "completed"}
    BY <2>2
  <2> QED BY <2>1, <2>3
<1>6. \A q \in trLate' : q \in T!Request /\ Status(q.op)' # "none" /\ trRequests'[q.op] = q
  BY <1>1, <1>2, RequestFacts DEF Journal
<1> QED BY <1>1, <1>2, <1>3, <1>4, <1>5, <1>6 DEF Journal, T!Ids

LEMMA TransferSending ==
  ASSUME TransferInv, T!MarkTransferSending
  PROVE  TransferInv'
<1>0. /\ trLane \in Seq(LaneItems) /\ trAnswers \in Seq(AnswerItems) /\ TransferTypes
      /\ \A f \in trRetained : f \in Removals /\ Known(f.request) /\ Taken(f.request)
  BY DEF TransferInv, UnderWay
<1>1. /\ UNCHANGED <<trBoard, trSaved, trPicker, trOpened, trPending, trRetained, trCohorts, trLate>>
      /\ UNCHANGED <<trLane, trRequests, trClaims>> /\ trDelivery.phase = "prepared"
  BY DEF T!MarkTransferSending
<1>2. PICK r : DeliveryFacts(r)
  BY <1>1, DeliveryUnderWay
<1>3. CASE T!Undelivered(trDelivery.request) /\ UNCHANGED trAttempts
  <2>1. trAnswers' \in Seq(AnswerItems)
    BY <1>0, <1>2, <1>3, UndeliveredFacts, SeqParts DEF T!Undelivered, T!Answer, DeliveryFacts
  <2>2. Delivering'
    BY <1>3 DEF T!Undelivered, T!Idle, Delivering
  <2>3. trPicker'.ids \subseteq TrThoughts /\ trPicker'.remove \in BOOLEAN /\ trOpened' \in Nat
    BY <1>0, <1>1 DEF TransferTypes
  <2> QED BY <1>0, <1>1, <1>3, <2>1, <2>2, <2>3, MemoryOnly
<1>4. CASE /\ trDelivery' = [trDelivery EXCEPT !.phase = "sending"]
           /\ trAttempts' = [trAttempts EXCEPT ![trDelivery.request.op].status = "sending"]
           /\ UNCHANGED trAnswers
  <2>1. /\ Status(r.op)' = "sending" /\ \A c \in TrBatches \ {r.op} : Status(c)' = Status(c)
        /\ trAttempts' \in [TrBatches -> [status : Statuses, reason : Reasons]]
    BY <1>2, <1>4, AttemptMoves DEF DeliveryFacts, Statuses
  <2>2. Status(r.op) \notin {"none", "completed"} /\ r.op \in TrBatches
    BY <1>1, <1>2 DEF DeliveryFacts
  <2>3. TransferMoves
    BY <1>1, <2>1, <2>2 DEF TransferMoves
  <2>4. Journal'
    BY <1>1, <2>1, <2>2, JournalOpen
  <2>5. Delivering'
    <3>1. trDelivery' = [phase |-> "sending", request |-> r]
      BY <1>2, <1>4 DEF DeliveryFacts
    <3>2. trDelivery'.phase = "sending" /\ trDelivery'.request = r
          /\ trDelivery' \in [phase : {"prepared", "sending", "delivered"}, request : T!Request]
      BY <1>2, <3>1 DEF DeliveryFacts
    <3>3. Known(r)'
      BY <1>2, <2>3, MovesKeepRequests DEF DeliveryFacts
    <3> QED BY <2>1, <3>2, <3>3 DEF Delivering
  <2>6. trAnswers' \in Seq(AnswerItems') /\ trLane' \in Seq(LaneItems)
    BY <1>0, <1>1, <1>4, <2>3, MovesKeep
  <2>7. DOMAIN trCohorts' = TrBatches /\ DOMAIN trRequests' = TrBatches
        /\ trClaims' \in [TrThoughts -> TrBatches \cup {"nobody"}]
    BY <1>0, <1>1 DEF TransferTypes
  <2> QED BY <1>1, <2>1, <2>3, <2>4, <2>5, <2>6, <2>7, StoreStep
<1> QED BY <1>3, <1>4 DEF T!MarkTransferSending

LEMMA TransferAccept ==
  ASSUME TransferInv, T!AcceptTransfer
  PROVE  TransferInv'
<1>0. /\ trLane \in Seq(LaneItems) /\ trAnswers \in Seq(AnswerItems) /\ TransferTypes
      /\ \A f \in trRetained : f \in Removals /\ Known(f.request) /\ Taken(f.request)
  BY DEF TransferInv, UnderWay
<1>1. /\ UNCHANGED <<trBoard, trSaved, trPicker, trOpened, trPending, trRetained, trCohorts, trLate>>
      /\ UNCHANGED <<trLane, trRequests, trClaims>> /\ trDelivery.phase = "delivered"
  BY DEF T!AcceptTransfer
<1>2. PICK r : DeliveryFacts(r)
  BY <1>1, DeliveryUnderWay
<1>3. CASE T!Undelivered(trDelivery.request) /\ UNCHANGED trAttempts
  <2>1. trAnswers' \in Seq(AnswerItems)
    BY <1>0, <1>2, <1>3, UndeliveredFacts, SeqParts DEF T!Undelivered, T!Answer, DeliveryFacts
  <2>2. Delivering'
    BY <1>3 DEF T!Undelivered, T!Idle, Delivering
  <2>3. trPicker'.ids \subseteq TrThoughts /\ trPicker'.remove \in BOOLEAN /\ trOpened' \in Nat
    BY <1>0, <1>1 DEF TransferTypes
  <2> QED BY <1>0, <1>1, <1>3, <2>1, <2>2, <2>3, MemoryOnly
<1>4. CASE /\ trAttempts' = [trAttempts EXCEPT ![trDelivery.request.op].status = "accepted"]
           /\ T!Answer([kind |-> "transferred", request |-> trDelivery.request, ok |-> TRUE])
           /\ trDelivery' = T!Idle
  <2>1. /\ Status(r.op)' = "accepted" /\ \A c \in TrBatches \ {r.op} : Status(c)' = Status(c)
        /\ trAttempts' \in [TrBatches -> [status : Statuses, reason : Reasons]]
    BY <1>2, <1>4, AttemptMoves DEF DeliveryFacts, Statuses
  <2>2. Status(r.op) \notin {"none", "completed"} /\ r.op \in TrBatches /\ Sent(trRequests[r.op])
    BY <1>1, <1>2 DEF DeliveryFacts
  <2>3. TransferMoves
    BY <1>1, <2>1, <2>2 DEF TransferMoves
  <2>4. Journal'
    BY <1>1, <2>1, <2>2, JournalOpen
  <2>5. Delivering'
    BY <1>4 DEF Delivering, T!Idle
  <2>6. trAnswers' \in Seq(AnswerItems')
    <3>1. Known(r)' /\ Sent(r)'
      BY <1>1, <1>2, <2>3, MovesKeepRequests DEF DeliveryFacts
    <3>2. [kind |-> "transferred", request |-> r, ok |-> TRUE] \in AnswerItems'
      BY <1>2, <3>1 DEF AnswerItems, DeliveryFacts
    <3>3. trAnswers' = Append(trAnswers, [kind |-> "transferred", request |-> r, ok |-> TRUE])
      BY <1>2, <1>4 DEF T!Answer, DeliveryFacts
    <3> QED BY <2>3, <3>2, <3>3, MovesKeep, SeqParts
  <2>7. DOMAIN trCohorts' = TrBatches /\ DOMAIN trRequests' = TrBatches
        /\ trClaims' \in [TrThoughts -> TrBatches \cup {"nobody"}]
    BY <1>0, <1>1 DEF TransferTypes
  <2> QED BY <1>0, <1>1, <2>1, <2>3, <2>4, <2>5, <2>6, <2>7, StoreStep
<1> QED BY <1>3, <1>4 DEF T!AcceptTransfer

\* Delivering a journalled cohort: the destination has it, and kept what it had.
LEMMA DeliverOnce ==
  ASSUME TransferInv, NEW r \in T!Request, Status(r.op) # "none", trRequests[r.op] = r,
         trCohorts' = T!Deliver(r)
  PROVE  /\ trCohorts'[r.op] = <<r.items>>
         /\ \A b \in TrBatches \ {r.op} : trCohorts'[b] = trCohorts[b]
         /\ \A b \in TrBatches : trCohorts[b] # <<>> => trCohorts'[b] = trCohorts[b]
         /\ DOMAIN trCohorts' = TrBatches
<1>1. r.op \in TrBatches /\ DOMAIN trCohorts = TrBatches
  BY RequestFacts DEF TransferInv, TransferTypes
<1>2. trCohorts[r.op] # <<>> => trCohorts[r.op] = <<r.items>>
  BY <1>1 DEF TransferInv, Journal
<1>3. CASE trCohorts[r.op] # <<>>
  BY <1>1, <1>2, <1>3 DEF T!Deliver
<1>4. CASE trCohorts[r.op] = <<>> /\ trCohorts' = [trCohorts EXCEPT ![r.op] = <<r.items>>]
  BY <1>1, <1>4
<1> QED BY <1>3, <1>4 DEF T!Deliver

\* The journal of a step that only delivers a journalled cohort.
LEMMA JournalDelivers ==
  ASSUME TransferInv, NEW r \in T!Request, Status(r.op) # "none", trRequests[r.op] = r,
         trCohorts' = T!Deliver(r), trLate' \subseteq trLate \cup {r},
         UNCHANGED <<trBoard, trPending, trAttempts, trRequests, trClaims>>
  PROVE  TransferMoves /\ Journal' /\ Sent(r)'
<1>1. Journal
  BY DEF TransferInv
<1>2. TransferMoves
  BY DeliverOnce DEF TransferMoves, Status
<1>3. Sent(r)'
  BY DeliverOnce DEF Sent
<1>4. \A b \in TrBatches : Status(b) \in {"accepted", "completed"} =>
         trCohorts'[b] = <<trRequests[b].items>>
  BY <1>1, DeliverOnce DEF Journal, Sent
<1>5. \A b \in TrBatches : trCohorts'[b] # <<>> =>
         Status(b) # "none" /\ trCohorts'[b] = <<trRequests[b].items>>
  BY <1>1, DeliverOnce DEF Journal
<1>6. Journal'
  BY <1>1, <1>4, <1>5 DEF Journal, Status, Sent
<1> QED BY <1>2, <1>3, <1>6

LEMMA TransferSend ==
  ASSUME TransferInv, T!SendToDestination
  PROVE  TransferInv'
<1>0. /\ trLane \in Seq(LaneItems) /\ trAnswers \in Seq(AnswerItems) /\ TransferTypes
      /\ \A f \in trRetained : f \in Removals /\ Known(f.request) /\ Taken(f.request)
      /\ Journal
  BY DEF TransferInv, UnderWay
<1>1. /\ UNCHANGED <<trBoard, trSaved, trPicker, trOpened, trPending, trRetained>>
      /\ UNCHANGED <<trLane, trAttempts, trRequests, trClaims>> /\ trDelivery.phase = "sending"
  BY DEF T!SendToDestination
<1>2. PICK r : DeliveryFacts(r)
  BY <1>1, DeliveryUnderWay
<1>3. /\ r \in T!Request /\ Known(r) /\ Status(r.op) = "sending" /\ trRequests[r.op] = r
      /\ r.op \in TrBatches
  BY <1>1, <1>2 DEF DeliveryFacts
<1>4. /\ trAttempts' \in [TrBatches -> [status : Statuses, reason : Reasons]]
      /\ DOMAIN trRequests' = TrBatches /\ trClaims' \in [TrThoughts -> TrBatches \cup {"nobody"}]
  BY <1>0, <1>1 DEF TransferTypes
\* Nothing reached the destination, though a request may still be on its way.
<1>5. ASSUME T!Undelivered(r), UNCHANGED trCohorts, trLate' \subseteq trLate \cup {r}
      PROVE  TransferInv'
  <2>1. TransferMoves
    BY <1>1, <1>5 DEF TransferMoves, Status
  <2>2. Journal'
    BY <1>0, <1>1, <1>3, <1>5 DEF Journal, Status, Sent
  <2>3. Delivering'
    BY <1>5 DEF T!Undelivered, T!Idle, Delivering
  <2>4. trAnswers' \in Seq(AnswerItems)
    BY <1>0, <1>3, <1>5, UndeliveredFacts, SeqParts DEF T!Undelivered, T!Answer
  <2>5. trAnswers' \in Seq(AnswerItems')
    BY <2>1, <2>4, MovesKeep, SeqWider
  <2>6. DOMAIN trCohorts' = TrBatches
    BY <1>0, <1>5 DEF TransferTypes
  <2> QED BY <1>0, <1>1, <1>4, <2>1, <2>2, <2>3, <2>5, <2>6, StoreStep
<1>6. ASSUME trCohorts' = T!Deliver(r), UNCHANGED trLate, trAnswers' \in Seq(AnswerItems),
             \/ trDelivery' = T!Idle
             \/ trDelivery' = [trDelivery EXCEPT !.phase = "delivered"]
      PROVE  TransferInv'
  <2>1. TransferMoves /\ Journal' /\ Sent(r)'
    BY <1>1, <1>3, <1>6, JournalDelivers
  <2>2. DOMAIN trCohorts' = TrBatches
    BY <1>3, <1>6, DeliverOnce
  <2>3. trAnswers' \in Seq(AnswerItems')
    BY <1>6, <2>1, MovesKeep, SeqWider
  <2>4. Known(r)' /\ Status(r.op)' = "sending"
    BY <1>1, <1>3, <2>1, MovesKeepRequests DEF Status
  <2>5. CASE trDelivery' = T!Idle
    <3>1. Delivering'
      BY <2>5 DEF T!Idle, Delivering
    <3> QED BY <1>0, <1>1, <1>4, <2>1, <2>2, <2>3, <3>1, StoreStep
  <2>6. CASE trDelivery' = [trDelivery EXCEPT !.phase = "delivered"]
    <3>1. trDelivery' = [phase |-> "delivered", request |-> r]
      BY <1>2, <2>6 DEF DeliveryFacts
    <3>2. trDelivery'.phase = "delivered" /\ trDelivery'.request = r
          /\ trDelivery' \in [phase : {"prepared", "sending", "delivered"}, request : T!Request]
      BY <1>3, <3>1
    <3>3. Delivering'
      BY <2>1, <2>4, <3>2 DEF Delivering
    <3> QED BY <1>0, <1>1, <1>4, <2>1, <2>2, <2>3, <3>3, StoreStep
  <2> QED BY <1>6, <2>5, <2>6
<1>7. T!Undelivered(r) => trAnswers' \in Seq(AnswerItems) /\ trDelivery' = T!Idle
  BY <1>0, <1>3, UndeliveredFacts, SeqParts DEF T!Undelivered, T!Answer
<1>8. r = trDelivery.request
  BY <1>2 DEF DeliveryFacts
<1>9. \/ T!Undelivered(r) /\ UNCHANGED trCohorts /\ trLate' \subseteq trLate \cup {r}
      \/ /\ trCohorts' = T!Deliver(r) /\ UNCHANGED <<trLate, trAnswers>>
         /\ trDelivery' = [trDelivery EXCEPT !.phase = "delivered"]
      \/ T!Undelivered(r) /\ trCohorts' = T!Deliver(r) /\ UNCHANGED trLate
  BY <1>8 DEF T!SendToDestination, T!Delivered
<1> QED BY <1>0, <1>5, <1>6, <1>7, <1>9

\* A request whose client gave up reaches the owner at last, or is lost.
LEMMA TransferLate ==
  ASSUME TransferInv, T!LateRequest
  PROVE  TransferInv'
<1>0. /\ trLane \in Seq(LaneItems) /\ trAnswers \in Seq(AnswerItems) /\ TransferTypes /\ Journal
  BY DEF TransferInv, UnderWay
<1>1. /\ UNCHANGED <<trBoard, trSaved, trPicker, trOpened, trPending, trRetained, trDelivery>>
      /\ UNCHANGED <<trLane, trAnswers, trAttempts, trRequests, trClaims>>
  BY DEF T!LateRequest, T!memory
<1>2. PICK r \in trLate : trLate' = trLate \ {r} /\ (trCohorts' = T!Deliver(r) \/ UNCHANGED trCohorts)
  BY DEF T!LateRequest
<1>3. r \in T!Request /\ Status(r.op) # "none" /\ trRequests[r.op] = r
  BY <1>0 DEF Journal
<1>4. TransferMoves /\ Journal' /\ DOMAIN trCohorts' = TrBatches
  <2>1. CASE trCohorts' = T!Deliver(r)
    <3>1. TransferMoves /\ Journal'
      BY <1>1, <1>2, <1>3, <2>1, JournalDelivers
    <3> QED BY <1>3, <2>1, <3>1, DeliverOnce
  <2>2. CASE UNCHANGED trCohorts
    <3>1. TransferMoves
      BY <1>1, <2>2 DEF TransferMoves, Status
    <3>2. Journal'
      BY <1>0, <1>1, <1>2, <2>2 DEF Journal, Status, Sent
    <3> QED BY <1>0, <2>2, <3>1, <3>2 DEF TransferTypes
  <2> QED BY <1>2, <2>1, <2>2
<1>5. Delivering'
  BY <1>1, <1>4, MovesDelivering
<1>6. trAnswers' \in Seq(AnswerItems')
  BY <1>1, <1>4, MovesKeep
<1>7. /\ trAttempts' \in [TrBatches -> [status : Statuses, reason : Reasons]]
      /\ DOMAIN trRequests' = TrBatches /\ trClaims' \in [TrThoughts -> TrBatches \cup {"nobody"}]
  BY <1>0, <1>1 DEF TransferTypes
<1> QED BY <1>0, <1>1, <1>4, <1>5, <1>6, <1>7, StoreStep

\* The removal of the sources is saved with the end of the attempt.
LEMMA TransferFinish ==
  ASSUME TransferInv, T!FinishTransfer
  PROVE  TransferInv'
<1>0. /\ trLane \in Seq(LaneItems) /\ trAnswers \in Seq(AnswerItems) /\ TransferTypes
      /\ \A f \in trRetained : f \in Removals /\ Known(f.request) /\ Taken(f.request)
      /\ Journal /\ Backed(trBoard) /\ Backed(trSaved)
  BY MovedBothSides DEF TransferInv, UnderWay
<1>1. /\ UNCHANGED <<trBoard, trPicker, trOpened, trPending, trDelivery, trLate>>
      /\ trDelivery.phase = "idle"
      /\ trLane # <<>> /\ Head(trLane).kind = "finish" /\ trLane' = Tail(trLane)
  BY DEF T!FinishTransfer, T!LaneIdle
<1>2. PICK f : f = Head(trLane)
  OBVIOUS
<1>3. f \in LaneItems /\ trLane' \in Seq(LaneItems)
  BY <1>0, <1>1, <1>2, SeqParts
<1>4. PICK r : r = f.request
  OBVIOUS
<1>5. /\ Known(r) /\ r \in T!Request /\ r.op \in TrBatches /\ T!Ids(r) \subseteq TrThoughts
      /\ f.reason \in Reasons /\ (f.removed => f \in Removals /\ Taken(r))
  BY <1>1, <1>2, <1>3, <1>4, LaneKinds, RequestFacts DEF Known
<1>6. Delivering'
  BY <1>1 DEF Delivering
<1>7. ASSUME UNCHANGED <<trSaved, trAttempts, trRequests, trClaims, trCohorts>>,
             trAnswers' \in Seq(AnswerItems), trRetained' \in {trRetained, trRetained \cup {f}},
             trRetained' # trRetained => f.removed
      PROVE  TransferInv'
  <2>1. trPicker'.ids \subseteq TrThoughts /\ trPicker'.remove \in BOOLEAN /\ trOpened' \in Nat
    BY <1>0, <1>1 DEF TransferTypes
  <2>2. \A g \in trRetained' : g \in Removals /\ Known(g.request) /\ Taken(g.request)
    BY <1>0, <1>4, <1>5, <1>7
  <2> QED BY <1>0, <1>1, <1>3, <1>6, <1>7, <2>1, <2>2, MemoryOnly
<1>8. [kind |-> "finished", op |-> r.op, ok |-> FALSE] \in AnswerItems
  BY <1>5 DEF AnswerItems
<1>9. Status(r.op) = "completed" => [kind |-> "finished", op |-> r.op, ok |-> TRUE] \in AnswerItems
  BY <1>5 DEF AnswerItems
<1>10. ASSUME UNCHANGED <<trSaved, trAttempts, trRequests, trClaims, trCohorts>>,
              trAnswers' = Append(trAnswers, [kind |-> "finished", op |-> r.op, ok |-> FALSE]),
              trRetained' = IF f.removed THEN trRetained \cup {f} ELSE trRetained
       PROVE  TransferInv'
  BY <1>0, <1>7, <1>8, <1>10, SeqParts
<1>11. ASSUME UNCHANGED <<trSaved, trAttempts, trRequests, trClaims, trCohorts, trRetained>>,
              Status(r.op) = "completed",
              trAnswers' = Append(trAnswers, [kind |-> "finished", op |-> r.op, ok |-> TRUE])
       PROVE  TransferInv'
  BY <1>0, <1>7, <1>9, <1>11, SeqParts
<1>12. ASSUME Status(r.op) = "accepted", UNCHANGED <<trRetained, trRequests, trCohorts>>,
              trAttempts' = [trAttempts EXCEPT ![r.op] = [status |-> "completed", reason |-> f.reason]],
              trClaims' = [t \in TrThoughts |-> IF trClaims[t] = r.op THEN "nobody" ELSE trClaims[t]],
              trSaved' = IF f.removed
                         THEN [t \in TrThoughts |->
                                 IF t \in T!Ids(r) THEN [trSaved[t] EXCEPT !.state = "moved"] ELSE trSaved[t]]
                         ELSE trSaved,
              trAnswers' = Append(trAnswers, [kind |-> "finished", op |-> r.op, ok |-> TRUE])
       PROVE  TransferInv'
  <2>1. /\ Status(r.op)' = "completed" /\ \A c \in TrBatches \ {r.op} : Status(c)' = Status(c)
        /\ trAttempts' \in [TrBatches -> [status : Statuses, reason : Reasons]]
    <3>1. PICK a : a = [status |-> "completed", reason |-> f.reason]
      OBVIOUS
    <3>2. a.status = "completed" /\ a \in [status : Statuses, reason : Reasons]
      BY <1>5, <3>1 DEF Statuses
    <3> QED BY <1>0, <1>5, <1>12, <3>1, <3>2 DEF TransferTypes, Status
  <2>2. Sent(r)
    BY <1>0, <1>5, <1>12 DEF Journal, Known
  <2>3. TransferMoves
    BY <1>1, <1>12, <2>1 DEF TransferMoves
  <2>4. ASSUME NEW t \in TrThoughts
        PROVE  /\ trSaved'[t] \in T!Thought /\ trSaved'[t].version = trSaved[t].version
               /\ trSaved'[t].state = "moved" =>
                    trSaved'[t] = trSaved[t] \/ (f.removed /\ t \in T!Ids(r))
    <3>1. trSaved[t] \in T!Thought
      BY <1>0 DEF TransferTypes
    <3>2. CASE f.removed /\ t \in T!Ids(r)
      <4>1. PICK v : v = [trSaved[t] EXCEPT !.state = "moved"]
        OBVIOUS
      <4>2. v \in T!Thought /\ v.version = trSaved[t].version
        BY <3>1, <4>1 DEF T!Thought
      <4>3. trSaved'[t] = v
        BY <1>12, <3>2, <4>1
      <4> QED BY <3>2, <4>2, <4>3
    <3>3. CASE ~(f.removed /\ t \in T!Ids(r))
      <4>1. trSaved'[t] = trSaved[t]
        BY <1>12, <3>3
      <4> QED BY <3>1, <4>1
    <3> QED BY <3>2, <3>3
  <2>5. TransferTypes'
    <3>1. trSaved' \in [TrThoughts -> T!Thought]
      <4>1. trSaved \in [TrThoughts -> T!Thought]
        BY <1>0 DEF TransferTypes
      <4>2. trSaved' = [t \in TrThoughts |-> trSaved'[t]]
        BY <1>12, <4>1
      <4> QED BY <2>4, <4>2
    <3>2. trClaims' \in [TrThoughts -> TrBatches \cup {"nobody"}]
      BY <1>0, <1>12 DEF TransferTypes
    <3>3. \A t \in TrThoughts : trBoard'[t].version = trSaved'[t].version
      BY <1>0, <1>1, <2>4 DEF TransferTypes
    <3> QED BY <1>0, <1>1, <1>12, <2>1, <3>1, <3>2, <3>3 DEF TransferTypes
  <2>6. Backed(trBoard)'
    BY <1>0, <1>1, <1>12 DEF Backed
  <2>7. Backed(trSaved)'
    <3> SUFFICES ASSUME NEW t \in TrThoughts, trSaved'[t].state = "moved"
                 PROVE  \E b \in TrBatches : \E i \in DOMAIN trCohorts'[b] :
                          t \in DOMAIN trCohorts'[b][i] /\ trCohorts'[b][i][t] = trSaved'[t].version
      BY DEF Backed
    <3>1. CASE f.removed /\ t \in T!Ids(r)
      <4>1. trBoard[t] = [version |-> r.items[t], state |-> "moved"]
        BY <1>5, <3>1 DEF Taken
      <4>2. trBoard[t].version = r.items[t]
        BY <4>1
      <4>3. trSaved'[t].version = r.items[t]
        BY <1>0, <2>4, <4>2 DEF TransferTypes
      <4>4. \E b \in TrBatches : \E i \in DOMAIN trCohorts[b] :
              t \in DOMAIN trCohorts[b][i] /\ trCohorts[b][i][t] = r.items[t]
        BY <1>5, <2>2, <3>1, SentBacks
      <4> QED BY <1>12, <4>3, <4>4
    <3>2. CASE trSaved'[t] = trSaved[t]
      <4>1. trSaved[t].state = "moved"
        BY <3>2
      <4>2. \E b \in TrBatches : \E i \in DOMAIN trCohorts[b] :
              t \in DOMAIN trCohorts[b][i] /\ trCohorts[b][i][t] = trSaved[t].version
        BY <1>0, <4>1 DEF Backed
      <4> QED BY <1>12, <3>2, <4>2
    <3> QED BY <2>4, <3>1, <3>2
  <2>8. Journal'
    <3>1. \A b \in TrBatches : Status(b)' # "none" => Status(b) # "none"
      BY <1>12, <2>1
    <3>2. \A b \in TrBatches : Status(b)' \in {"accepted", "completed"} => Status(b) \in {"accepted", "completed"}
      BY <1>12, <2>1
    <3>3. ASSUME NEW t \in TrThoughts, trClaims'[t] # "nobody"
          PROVE  /\ trClaims'[t] = trClaims[t] /\ trClaims[t] # "nobody"
                 /\ Status(trClaims[t])' \notin {"none", "completed"}
      <4>1. trClaims'[t] = trClaims[t] /\ trClaims[t] # r.op /\ trClaims[t] # "nobody"
        BY <1>12, <3>3
      <4>2. PICK c \in TrBatches : c = trClaims[t]
        BY <1>0, <4>1 DEF TransferTypes
      <4>3. Status(c)' \notin {"none", "completed"}
        BY <1>0, <2>1, <4>1, <4>2 DEF Journal
      <4> QED BY <4>1, <4>2, <4>3
    <3>4. \A b \in TrBatches : Status(b) # "none" => Status(b)' # "none"
      BY <2>3 DEF TransferMoves
    <3>5. \A q \in trLate' : q \in T!Request /\ Status(q.op)' # "none" /\ trRequests'[q.op] = q
      BY <1>0, <1>1, <1>12, <3>4, RequestFacts DEF Journal
    <3>6. \A b \in TrBatches : Status(b)' \in {"accepted", "completed"} => Sent(trRequests[b])'
      BY <1>0, <1>12, <3>2 DEF Journal, Sent
    <3> QED BY <1>0, <1>1, <1>12, <3>1, <3>3, <3>4, <3>5, <3>6 DEF Journal, T!Ids
  <2>9. trAnswers' \in Seq(AnswerItems')
    <3>1. [kind |-> "finished", op |-> r.op, ok |-> TRUE] \in AnswerItems'
      BY <1>5, <2>1 DEF AnswerItems
    <3> QED BY <1>12, <2>3, <3>1, MovesKeep, SeqParts
  <2>10. trLane' \in Seq(LaneItems')
    BY <1>3, <2>3, MovesKeep, SeqWider
  <2>11. \A g \in trRetained' : g \in Removals /\ Known(g.request)' /\ Taken(g.request)'
    BY <1>12, <2>3, MovesKeep
  <2> QED BY <1>1, <1>6, <2>3, <2>5, <2>6, <2>7, <2>8, <2>9, <2>10, <2>11, MovesInv
<1>13. \/ /\ UNCHANGED <<trSaved, trAttempts, trRequests, trClaims, trCohorts>>
          /\ trAnswers' = Append(trAnswers, [kind |-> "finished", op |-> r.op, ok |-> FALSE])
          /\ trRetained' = IF f.removed THEN trRetained \cup {f} ELSE trRetained
       \/ /\ UNCHANGED <<trSaved, trAttempts, trRequests, trClaims, trCohorts, trRetained>>
          /\ Status(r.op) = "completed"
          /\ trAnswers' = Append(trAnswers, [kind |-> "finished", op |-> r.op, ok |-> TRUE])
       \/ /\ Status(r.op) = "accepted" /\ UNCHANGED <<trRetained, trRequests, trCohorts>>
          /\ trAttempts' = [trAttempts EXCEPT ![r.op] = [status |-> "completed", reason |-> f.reason]]
          /\ trClaims' = [t \in TrThoughts |-> IF trClaims[t] = r.op THEN "nobody" ELSE trClaims[t]]
          /\ trSaved' = IF f.removed
                        THEN [t \in TrThoughts |->
                                IF t \in T!Ids(r) THEN [trSaved[t] EXCEPT !.state = "moved"] ELSE trSaved[t]]
                        ELSE trSaved
          /\ trAnswers' = Append(trAnswers, [kind |-> "finished", op |-> r.op, ok |-> TRUE])
  BY <1>2, <1>4 DEF T!FinishTransfer, T!Answer, T!store, T!Nobody, Status
<1> QED BY <1>10, <1>11, <1>12, <1>13

\* The sequence the recovered transfers are queued in holds them and nothing else.
LEMMA QueuedOnce ==
  ASSUME NEW S, IsFiniteSet(S)
  PROVE  T!SetToSeq(S) \in Seq(S)
<1>1. Cardinality(S) \in Nat /\ ExistsBijection(1..Cardinality(S), S)
  BY FS_CardinalityType
<1>2. T!Cardinality(S) = Cardinality(S)
  BY DEF T!Cardinality, Cardinality
<1>3. PICK f \in [1..Cardinality(S) -> S] : T!IsInjective(f)
  BY <1>1 DEF ExistsBijection, Bijection, Injection, IsInjective, T!IsInjective
<1>4. T!SetToSeq(S) \in [1..Cardinality(S) -> S]
  BY <1>2, <1>3 DEF T!SetToSeq
<1> QED BY <1>1, <1>4

\* A crash forgets the memory; the journal brings back every open attempt.
LEMMA TransferCrash ==
  ASSUME TransferInv, T!CrashAndReopen
  PROVE  TransferInv'
<1>0. TransferTypes /\ Journal /\ Backed(trSaved)
  BY MovedBothSides DEF TransferInv
<1>1. /\ UNCHANGED <<trSaved, trOpened, trAttempts, trRequests, trClaims, trCohorts, trLate>>
      /\ trBoard' = trSaved /\ trPicker' = T!Closed /\ trDelivery' = T!Idle
      /\ trAnswers' = <<>> /\ trRetained' = {}
      /\ trPending' = {trRequests[b] : b \in T!RecoverTransfers}
      /\ trLane' = T!SetToSeq({[kind |-> "transfer", request |-> r] : r \in trPending'})
  BY DEF T!CrashAndReopen, T!store
<1>2. \A b \in T!RecoverTransfers : /\ b \in TrBatches /\ Status(b) \notin {"none", "completed"}
                                    /\ trRequests[b] \in T!Request /\ trRequests[b].op = b
  BY <1>0 DEF T!RecoverTransfers, Status, Journal
<1>3. \A r \in trPending' : r \in T!Request /\ Known(r)'
  <2> SUFFICES ASSUME NEW b \in T!RecoverTransfers
               PROVE  trRequests[b] \in T!Request /\ Known(trRequests[b])'
    BY <1>1
  <2>1. PICK r : r = trRequests[b]
    OBVIOUS
  <2>2. r \in T!Request /\ r.op = b /\ Status(b) # "none"
    BY <1>2, <2>1
  <2>3. Known(r)'
    BY <1>1, <2>1, <2>2 DEF Known, Status
  <2> QED BY <1>1, <2>1, <2>2, <2>3
<1>4. \A r, s \in trPending' : r.op = s.op => r = s
  BY <1>1, <1>2
<1> DEFINE S == {[kind |-> "transfer", request |-> r] : r \in trPending'}
<1>5. S \subseteq LaneItems'
  <2> SUFFICES ASSUME NEW r \in trPending' PROVE [kind |-> "transfer", request |-> r] \in LaneItems'
    OBVIOUS
  <2>1. r \in T!Request /\ Known(r)'
    BY <1>3
  <2> HIDE DEF S
  <2> QED BY <2>1 DEF LaneItems
<1>6. IsFiniteSet(S)
  <2> DEFINE F == [b \in T!RecoverTransfers |-> [kind |-> "transfer", request |-> trRequests[b]]]
  <2>1. IsFiniteSet(T!RecoverTransfers)
    BY TransferAssumption, FS_Subset DEF T!RecoverTransfers
  <2>2. F \in Surjection(T!RecoverTransfers, S)
    BY <1>1 DEF Surjection
  <2> HIDE DEF F, S
  <2> QED BY <2>1, <2>2, FS_Surjection
<1>7. trLane' \in Seq(LaneItems')
  <2>1. trLane' = T!SetToSeq(S)
    BY <1>1
  <2> HIDE DEF S
  <2>2. trLane' \in Seq(S)
    BY <1>6, <2>1, QueuedOnce
  <2> QED BY <1>5, <2>2, SeqWider
<1>8. UnderWay'
  BY <1>1, <1>3, <1>4, <1>7 DEF UnderWay
<1>9. TransferTypes'
  BY <1>0, <1>1 DEF TransferTypes, T!Closed
<1>10. Delivering'
  BY <1>1 DEF Delivering, T!Idle
<1>11. Journal'
  <2>1. ASSUME NEW t \in TrThoughts, trClaims[t] # "nobody"
        PROVE  trRequests[trClaims[t]] \in trPending'
    <3>1. trClaims[t] \in T!RecoverTransfers
      BY <1>0, <2>1 DEF T!RecoverTransfers, Journal, Status, TransferTypes
    <3> QED BY <1>1, <3>1
  <2> QED BY <1>0, <1>1, <2>1 DEF Journal, Status, Sent
<1>12. T!MovedIsDelivered'
  BY <1>0, <1>1 DEF Backed, T!MovedIsDelivered
<1> QED BY <1>8, <1>9, <1>10, <1>11, <1>12 DEF TransferInv

LEMMA TransferStep == ASSUME TransferInv, [Next]_vars PROVE TransferInv'
<1>1. CASE UNCHANGED trVars
  <2>1. UNCHANGED <<trBoard, trSaved, trPending, trAttempts, trRequests, trClaims, trCohorts, trLate>>
        /\ UNCHANGED <<trDelivery, trPicker, trOpened, trLane, trAnswers, trRetained>>
    BY <1>1 DEF trVars
  <2>2. Delivering'
    BY <2>1, DeliveryStays
  <2>3. /\ trPicker'.ids \subseteq TrThoughts /\ trPicker'.remove \in BOOLEAN /\ trOpened' \in Nat
        /\ trLane' \in Seq(LaneItems) /\ trAnswers' \in Seq(AnswerItems)
        /\ \A f \in trRetained' : f \in Removals /\ Known(f.request) /\ Taken(f.request)
    BY <2>1 DEF TransferInv, TransferTypes, UnderWay
  <2> QED BY <2>1, <2>2, <2>3, MemoryOnly
<1>2. CASE T!Next
  BY <1>2, TransferOwner, TransferChoose, TransferBatch, TransferFinished, TransferChange,
     TransferPrepare, TransferSending, TransferSend, TransferAccept, TransferFinish, TransferLate,
     TransferCrash DEF T!Next
<1> QED BY <1>1, <1>2
       DEF Next, vars, TransferNext, ClipboardNext, ExportNext, AttachmentsNext, ChildProcessNext

\* The invariant says what the run checks.
LEMMA TransferConclusion == ASSUME TransferInv PROVE T!TransferSafe
<1>1. T!TypeOK
  <2>1. trLate \subseteq T!Request
    BY DEF TransferInv, Journal
  <2>2. trDelivery.phase # "idle" => trDelivery.request \in T!Request
    BY DEF TransferInv, Delivering
  <2> QED BY <2>1, <2>2 DEF TransferInv, TransferTypes, UnderWay, Journal, Status, T!TypeOK, T!Nobody
<1>2. T!DeliveredOnce
  <2> SUFFICES ASSUME NEW b \in TrBatches PROVE Len(trCohorts[b]) <= 1
    BY DEF T!DeliveredOnce
  <2>1. CASE trCohorts[b] = <<>>
    BY <2>1
  <2>2. CASE trCohorts[b] # <<>>
    <3>1. trCohorts[b] = <<trRequests[b].items>>
      BY <2>2 DEF TransferInv, Journal
    <3> QED BY <3>1
  <2> QED BY <2>1, <2>2
<1>3. T!ClaimsAreTracked
  <2> SUFFICES ASSUME NEW t \in TrThoughts, trClaims[t] # "nobody"
               PROVE  \E r \in trPending : r.op = trClaims[t] /\ t \in T!Ids(r)
    BY DEF T!ClaimsAreTracked, T!Nobody
  <2>1. /\ trClaims[t] \in TrBatches /\ Status(trClaims[t]) # "none"
        /\ t \in T!Ids(trRequests[trClaims[t]]) /\ trRequests[trClaims[t]] \in trPending
    BY DEF TransferInv, TransferTypes, Journal
  <2>2. trRequests[trClaims[t]].op = trClaims[t]
    BY <2>1 DEF TransferInv, Journal
  <2> QED BY <2>1, <2>2
<1> QED BY <1>1, <1>2, <1>3 DEF TransferInv, T!TransferSafe

\* Transfers to another session, for all thoughts, any number of batches, and however often the
\* owner dies, a store call fails or a request arrives late: what was removed here is in the
\* destination with the contents it had, in one copy, and every claim belongs to a batch the
\* owner still knows.
THEOREM NothingLostOnTheWay == Spec => []TransferSafe
<1>1. Init => TransferInv
  BY TransferInit DEF Init
<1>2. TransferInv => TransferSafe
  BY TransferConclusion DEF TransferSafe
<1> QED BY <1>1, <1>2, TransferStep, PTL DEF Spec

-----------------------------------------------------------------------------
(* The child process                                                       *)

\* What each thread has, and who may still write into a pipe that was read to its end.
PipesRead ==
  /\ \A t \in P!Readers : chIo[t] = "eof" => ~P!Holders
  /\ \A t \in P!Readers : chIo[t] \in {"none", "running", "eof", "over"}

\* How far the run is.
RunGoesOn ==
  /\ chCall.phase \in {"wait", "stdin", "stdout", "stderr"} => chCall.result = "none" /\ chChild.armed
  /\ chCall.phase \in {"term", "kill", "dropTerm", "dropKill"} => chCall.result # "ok"
  /\ chCall.phase \in {"stdin", "stdout", "stderr"} => chChild.life = "reaped"
  /\ chCall.phase \in {"finish", "idle"} /\ chCall.result = "ok" => chChild.life = "reaped"

\* What a run leaves behind, and that the runner remembers it.
LeavesClean ==
  /\ ~chChild.armed => chChild.life \in {"none", "reaped"}
  /\ chCall.phase \in {"dropTerm", "dropKill"} => chIncomplete
  /\ chCall.phase = "idle" /\ ~chIncomplete =>
       chChild.life \in {"none", "reaped"} /\ \A t \in P!Threads : chIo[t] # "running"

ChildInv == P!TypeOK /\ PipesRead /\ RunGoesOn /\ LeavesClean /\ P!SuccessIsWhole

LEMMA ChildInit == ASSUME P!Init PROVE ChildInv
<1>1. P!TypeOK
  <2>1. chRuns \in 0..ChMaxRuns
    BY ChildAssumption DEF P!Init
  <2>2. chIo \in [P!Threads -> {"none", "running", "eof", "over", "broken", "written"}]
    BY DEF P!Init
  <2>3. chCall \in [phase : P!Phases, result : P!Results]
    BY DEF P!Init, P!Phases, P!Results
  <2>4. /\ {chIncomplete, chCancelled, chLate, chGrace} \subseteq BOOLEAN
        /\ chChild \in [life : {"none", "running", "zombie", "reaped"}, deaf : BOOLEAN, armed : BOOLEAN]
        /\ chHelper \in [alive : BOOLEAN, grouped : BOOLEAN, deaf : BOOLEAN]
    BY DEF P!Init
  <2> QED BY <2>1, <2>2, <2>3, <2>4 DEF P!TypeOK
<1>2. chCall.phase = "idle" /\ chCall.result = "none" /\ chChild.life = "none" /\ ~chChild.armed
  BY DEF P!Init
<1>3. \A t \in P!Threads : chIo[t] = "none"
  BY DEF P!Init
<1> QED BY <1>1, <1>2, <1>3
       DEF ChildInv, PipesRead, RunGoesOn, LeavesClean, P!SuccessIsWhole, P!Threads, P!Readers

\* The operating system and the clock: neither the runner nor a thread moves.
LEMMA ChildWorld ==
  ASSUME ChildInv,
         \/ P!ChildExits \/ P!HelperExits
         \/ \E grouped \in BOOLEAN, deaf \in BOOLEAN : P!ChildForks(grouped, deaf)
         \/ P!Cancel \/ P!DeadlinePasses \/ P!GraceEnds
  PROVE  ChildInv'
<1> USE DEF ChildInv
<1>1. UNCHANGED <<chCall, chIncomplete, chIo, chRuns>>
  BY DEF P!ChildExits, P!HelperExits, P!ChildForks, P!Cancel, P!DeadlinePasses, P!GraceEnds
<1>2. /\ chChild' \in [life : {"none", "running", "zombie", "reaped"}, deaf : BOOLEAN, armed : BOOLEAN]
      /\ (chChild'.armed <=> chChild.armed)
      /\ (chChild'.life = chChild.life \/ (chChild.life = "running" /\ chChild'.life = "zombie"))
  BY DEF P!ChildExits, P!HelperExits, P!ChildForks, P!Cancel, P!DeadlinePasses, P!GraceEnds, P!TypeOK
<1>3. /\ chHelper' \in [alive : BOOLEAN, grouped : BOOLEAN, deaf : BOOLEAN]
      /\ (chHelper'.alive => chHelper.alive \/ chChild.life = "running")
  <2>1. CASE UNCHANGED chHelper
    BY <2>1 DEF P!TypeOK
  <2>2. CASE P!HelperExits
    BY <2>2 DEF P!HelperExits, P!TypeOK
  <2>3. ASSUME NEW grouped \in BOOLEAN, NEW deaf \in BOOLEAN, P!ChildForks(grouped, deaf)
        PROVE  chHelper' \in [alive : BOOLEAN, grouped : BOOLEAN, deaf : BOOLEAN] /\ chChild.life = "running"
    BY <2>3 DEF P!ChildForks
  <2> QED BY <2>1, <2>2, <2>3 DEF P!ChildExits, P!Cancel, P!DeadlinePasses, P!GraceEnds
<1>4. P!TypeOK'
  BY <1>1, <1>2, <1>3 DEF P!ChildExits, P!HelperExits, P!ChildForks, P!Cancel, P!DeadlinePasses, P!GraceEnds,
     P!TypeOK
<1>5. PipesRead'
  BY <1>1, <1>2, <1>3 DEF PipesRead, P!Holders
<1>6. RunGoesOn' /\ LeavesClean'
  BY <1>1, <1>2 DEF RunGoesOn, LeavesClean
<1>7. P!SuccessIsWhole'
  BY <1>1, <1>2, <1>3 DEF P!SuccessIsWhole
<1> QED BY <1>4, <1>5, <1>6, <1>7

\* A thread ends.
LEMMA ChildThreads ==
  ASSUME ChildInv, P!WriteEnds \/ \E t \in P!Readers : P!ReadEnds(t)
  PROVE  ChildInv'
<1> USE DEF ChildInv
<1>1. UNCHANGED <<chCall, chIncomplete, chCancelled, chLate, chGrace, chChild, chHelper, chRuns>>
  BY DEF P!WriteEnds, P!ReadEnds
<1>2. PICK t \in P!Threads, e \in {"eof", "over", "broken", "written"} :
        /\ chIo[t] = "running" /\ chIo' = [chIo EXCEPT ![t] = e]
        /\ t \in P!Readers => e \in {"eof", "over"} /\ (e = "eof" => ~P!Holders)
  BY DEF P!WriteEnds, P!ReadEnds, P!Threads, P!Readers
<1>3. /\ chIo' \in [P!Threads -> {"none", "running", "eof", "over", "broken", "written"}]
      /\ chIo'[t] = e /\ \A u \in P!Threads \ {t} : chIo'[u] = chIo[u]
  BY <1>2 DEF P!TypeOK
<1>4. P!TypeOK'
  BY <1>1, <1>3 DEF P!TypeOK
<1>5. PipesRead'
  BY <1>1, <1>2, <1>3 DEF PipesRead, P!Holders, P!Threads, P!Readers
<1>6. RunGoesOn'
  BY <1>1 DEF RunGoesOn
<1>7. LeavesClean'
  BY <1>1, <1>2, <1>3 DEF LeavesClean
<1>8. P!SuccessIsWhole'
  BY <1>1, <1>2, <1>3 DEF P!SuccessIsWhole, P!Threads, P!Readers
<1> QED BY <1>4, <1>5, <1>6, <1>7, <1>8

\* The two ways a run begins.
LEMMA ChildStarts ==
  ASSUME ChildInv, P!SpawnFails \/ \E deaf \in BOOLEAN : P!StartRun(deaf)
  PROVE  /\ ChildInv' /\ ~chIncomplete
         /\ chChild.life \in {"none", "reaped"} /\ \A t \in P!Threads : chIo[t] # "running"
<1> USE DEF ChildInv
<1>1. chCall.phase = "idle" /\ ~chIncomplete /\ chRuns < ChMaxRuns /\ chRuns' = chRuns + 1
  BY DEF P!SpawnFails, P!StartRun, P!Usable
<1>2. chChild.life \in {"none", "reaped"} /\ \A t \in P!Threads : chIo[t] # "running"
  BY <1>1 DEF LeavesClean
<1>3. chRuns' \in 0..ChMaxRuns
  BY <1>1, ChildAssumption DEF P!TypeOK
<1>4. CASE P!SpawnFails
  <2>1. /\ UNCHANGED <<chIncomplete, chCancelled, chLate, chGrace, chChild, chHelper, chIo>>
        /\ chCall' = [chCall EXCEPT !.result = "io"]
    BY <1>4 DEF P!SpawnFails
  <2>2. chCall'.phase = "idle" /\ chCall'.result = "io" /\ chCall' \in [phase : P!Phases, result : P!Results]
    BY <1>1, <2>1 DEF P!TypeOK, P!Results
  <2>3. P!TypeOK'
    BY <1>3, <2>1, <2>2 DEF P!TypeOK
  <2> QED BY <1>1, <1>2, <2>1, <2>2, <2>3
         DEF PipesRead, RunGoesOn, LeavesClean, P!SuccessIsWhole, P!Holders
<1>5. ASSUME NEW deaf \in BOOLEAN, P!StartRun(deaf) PROVE ChildInv'
  <2>1. /\ UNCHANGED <<chIncomplete, chCancelled>> /\ chLate' = FALSE /\ chGrace' = FALSE
        /\ chCall' = [phase |-> "wait", result |-> "none"]
        /\ chChild' = [life |-> "running", deaf |-> deaf, armed |-> TRUE]
        /\ chHelper' = [alive |-> FALSE, grouped |-> TRUE, deaf |-> FALSE]
        /\ chIo' = [t \in P!Threads |-> "running"]
    BY <1>5 DEF P!StartRun, P!NewChild
  <2>2. /\ chCall'.phase = "wait" /\ chCall'.result = "none" /\ chChild'.armed
        /\ \A t \in P!Threads : chIo'[t] = "running"
        /\ P!Readers \subseteq P!Threads
    BY <2>1 DEF P!Threads, P!Readers
  <2>3. P!TypeOK'
    BY <1>3, <2>1 DEF P!TypeOK, P!Phases, P!Results
  <2> QED BY <2>2, <2>3 DEF PipesRead, RunGoesOn, LeavesClean, P!SuccessIsWhole
<1> QED BY <1>1, <1>2, <1>4, <1>5

\* A signal ends a process or leaves it as it was.
LEMMA SignalsEnd ==
  ASSUME P!TypeOK, NEW force \in BOOLEAN, chChild' = P!SignalledChild(force), chHelper' = P!SignalledHelper(force)
  PROVE  /\ chChild' \in [life : {"none", "running", "zombie", "reaped"}, deaf : BOOLEAN, armed : BOOLEAN]
         /\ chHelper' \in [alive : BOOLEAN, grouped : BOOLEAN, deaf : BOOLEAN]
         /\ (chChild'.armed <=> chChild.armed) /\ (chHelper'.alive => chHelper.alive)
         /\ (chChild'.life = chChild.life \/ (chChild.life = "running" /\ chChild'.life = "zombie"))
BY DEF P!TypeOK, P!SignalledChild, P!SignalledHelper

\* The run fails: an open run whose child is signalled.
LEMMA ChildFails ==
  ASSUME ChildInv, NEW error \in {"cancelled", "timeout", "io"}, P!Fail(error),
         chCall.phase \in {"wait", "stdin", "stdout", "stderr"}
  PROVE  ChildInv'
<1> USE DEF ChildInv
<1>1. /\ UNCHANGED <<chIncomplete, chCancelled, chLate, chIo, chRuns>> /\ chGrace' = FALSE
      /\ chCall' = [phase |-> "term", result |-> error]
      /\ chChild' = P!SignalledChild(FALSE) /\ chHelper' = P!SignalledHelper(FALSE)
  BY DEF P!Fail
<1>2. /\ chChild' \in [life : {"none", "running", "zombie", "reaped"}, deaf : BOOLEAN, armed : BOOLEAN]
      /\ chHelper' \in [alive : BOOLEAN, grouped : BOOLEAN, deaf : BOOLEAN]
      /\ (chChild'.armed <=> chChild.armed) /\ (chHelper'.alive => chHelper.alive)
      /\ (chChild'.life = chChild.life \/ (chChild.life = "running" /\ chChild'.life = "zombie"))
  BY <1>1, SignalsEnd
<1>3. chCall'.phase = "term" /\ chCall'.result = error
  BY <1>1
<1>4. P!TypeOK'
  BY <1>1, <1>2 DEF P!TypeOK, P!Phases, P!Results
<1>5. PipesRead'
  BY <1>1, <1>2 DEF PipesRead, P!Holders
<1> QED BY <1>1, <1>2, <1>3, <1>4, <1>5 DEF RunGoesOn, LeavesClean, P!SuccessIsWhole

LEMMA ChildRuns ==
  ASSUME ChildInv,
         \/ P!WaitForExit \/ P!ReceiveWorker("stdin", "stdout")
         \/ P!ReceiveWorker("stdout", "stderr") \/ P!ReceiveWorker("stderr", "finish")
  PROVE  ChildInv'
<1> USE DEF ChildInv
<1>1. chCall.phase \in {"wait", "stdin", "stdout", "stderr"} /\ chCall.result = "none" /\ chChild.armed
  BY DEF P!WaitForExit, P!ReceiveWorker, RunGoesOn
<1>2. ASSUME NEW error \in {"cancelled", "timeout", "io"}, P!Fail(error) PROVE ChildInv'
  BY <1>1, <1>2, ChildFails
<1>3. CASE /\ chCall.phase = "wait" /\ chChild.life = "zombie"
           /\ chChild' = [chChild EXCEPT !.life = "reaped"]
           /\ chCall' = [chCall EXCEPT !.phase = "stdin"]
           /\ UNCHANGED <<chIncomplete, chCancelled, chLate, chGrace, chHelper, chIo, chRuns>>
  <2>1. /\ chChild' \in [life : {"none", "running", "zombie", "reaped"}, deaf : BOOLEAN, armed : BOOLEAN]
        /\ chChild'.life = "reaped" /\ (chChild'.armed <=> chChild.armed)
    BY <1>3 DEF P!TypeOK
  <2>2. /\ chCall' \in [phase : P!Phases, result : P!Results] /\ chCall'.phase = "stdin"
        /\ chCall'.result = chCall.result
    BY <1>3 DEF P!TypeOK, P!Phases
  <2>3. P!TypeOK'
    BY <1>3, <2>1, <2>2 DEF P!TypeOK
  <2> QED BY <1>1, <1>3, <2>1, <2>2, <2>3
         DEF PipesRead, RunGoesOn, LeavesClean, P!SuccessIsWhole, P!Holders
<1>4. ASSUME NEW next \in {"stdout", "stderr"}, P!Advance(next), chCall.phase \in {"stdin", "stdout", "stderr"}
      PROVE  ChildInv'
  <2>1. /\ UNCHANGED <<chIncomplete, chCancelled, chLate, chGrace, chChild, chHelper, chIo, chRuns>>
        /\ chCall' = [chCall EXCEPT !.phase = next]
    BY <1>4 DEF P!Advance
  <2>2. /\ chCall' \in [phase : P!Phases, result : P!Results] /\ chCall'.phase = next
        /\ chCall'.result = chCall.result
    BY <2>1 DEF P!TypeOK, P!Phases
  <2>3. P!TypeOK'
    BY <2>1, <2>2 DEF P!TypeOK
  <2> QED BY <1>1, <1>4, <2>1, <2>2, <2>3
         DEF PipesRead, RunGoesOn, LeavesClean, P!SuccessIsWhole, P!Holders
<1>5. CASE /\ chCall.phase = "stderr" /\ chCall' = [phase |-> "finish", result |-> "ok"] /\ chGrace' = FALSE
           /\ UNCHANGED <<chIncomplete, chCancelled, chLate, chChild, chHelper, chIo, chRuns>>
  <2>1. /\ chCall' \in [phase : P!Phases, result : P!Results] /\ chCall'.phase = "finish"
        /\ chCall'.result = "ok"
    BY <1>5 DEF P!Phases, P!Results
  <2>2. P!TypeOK'
    BY <1>5, <2>1 DEF P!TypeOK
  <2> QED BY <1>1, <1>5, <2>1, <2>2
         DEF PipesRead, RunGoesOn, LeavesClean, P!SuccessIsWhole, P!Holders
<1> QED BY <1>2, <1>3, <1>4, <1>5 DEF P!WaitForExit, P!ReceiveWorker

\* The termination of the group, after a failure or when its owner is dropped.
LEMMA ChildTerminates ==
  ASSUME ChildInv, P!Settle \/ P!DropChild
  PROVE  ChildInv'
<1> USE DEF ChildInv
<1>1. chCall.phase \in {"term", "kill", "dropTerm", "dropKill"} /\ chCall.result # "ok"
  BY DEF P!Settle, P!DropChild, P!Terminate, RunGoesOn
<1>2. PICK after \in P!Phases :
        /\ chCall' = [chCall EXCEPT !.phase = after]
        /\ \/ chCall.phase \in {"term", "kill"} /\ after \in {"kill", "finish"}
           \/ chCall.phase \in {"dropTerm", "dropKill"} /\ after \in {"dropKill", "idle"}
  BY DEF P!Settle, P!DropChild, P!Terminate, P!Phases
<1>3. /\ chCall' \in [phase : P!Phases, result : P!Results] /\ chCall'.phase = after
      /\ chCall'.result = chCall.result
  BY <1>2 DEF P!TypeOK
<1>4. UNCHANGED <<chIncomplete, chCancelled, chLate, chIo, chRuns>> /\ chGrace' = FALSE
  BY DEF P!Settle, P!DropChild, P!Terminate
<1>5. /\ chChild' \in [life : {"none", "running", "zombie", "reaped"}, deaf : BOOLEAN, armed : BOOLEAN]
      /\ chHelper' \in [alive : BOOLEAN, grouped : BOOLEAN, deaf : BOOLEAN]
      /\ (chHelper'.alive => chHelper.alive) /\ (chChild'.life = "running" => chChild.life = "running")
      /\ ((chChild'.armed <=> chChild.armed) /\ (chChild.life = "reaped" => chChild'.life = "reaped")
          /\ (chChild.life = "none" => chChild'.life = "none"))
         \/ (~chChild'.armed /\ chChild'.life = "reaped")
  <2>1. CASE UNCHANGED <<chChild, chHelper>>
    BY <2>1 DEF P!TypeOK
  <2>2. CASE chChild' = P!SignalledChild(TRUE) /\ chHelper' = P!SignalledHelper(TRUE)
    <3>1. /\ chChild' \in [life : {"none", "running", "zombie", "reaped"}, deaf : BOOLEAN, armed : BOOLEAN]
          /\ chHelper' \in [alive : BOOLEAN, grouped : BOOLEAN, deaf : BOOLEAN]
          /\ (chChild'.armed <=> chChild.armed) /\ (chHelper'.alive => chHelper.alive)
          /\ (chChild'.life = chChild.life \/ (chChild.life = "running" /\ chChild'.life = "zombie"))
      BY <2>2, SignalsEnd
    <3> QED BY <3>1
  <2>3. CASE chChild' = [chChild EXCEPT !.life = "reaped", !.armed = FALSE] /\ UNCHANGED chHelper
    BY <2>3 DEF P!TypeOK
  <2> QED BY <2>1, <2>2, <2>3 DEF P!Settle, P!DropChild, P!Terminate
<1>6. P!TypeOK'
  BY <1>3, <1>4, <1>5 DEF P!TypeOK
<1>7. PipesRead'
  BY <1>4, <1>5 DEF PipesRead, P!Holders
<1>8. RunGoesOn' /\ P!SuccessIsWhole'
  BY <1>1, <1>2, <1>3 DEF RunGoesOn, P!SuccessIsWhole
<1>9. LeavesClean'
  BY <1>2, <1>3, <1>4, <1>5 DEF LeavesClean
<1> QED BY <1>6, <1>7, <1>8, <1>9

\* The threads are joined and the runner decides what it returns and whether it may run again.
LEMMA ChildFinishes ==
  ASSUME ChildInv, P!FinishWorkers
  PROVE  ChildInv'
<1> USE DEF ChildInv
<1>1. /\ UNCHANGED <<chCancelled, chLate, chIo, chRuns>> /\ chCall.phase = "finish"
      /\ (chIncomplete' <=> ~P!Settled) /\ chIncomplete' \in BOOLEAN
  BY DEF P!FinishWorkers, P!Settled
<1>2. chCall.result = "ok" => chChild.life = "reaped"
  BY <1>1 DEF RunGoesOn
<1>3. CASE /\ P!Collected = "ok" /\ UNCHANGED <<chHelper, chGrace>>
           /\ chCall' = [phase |-> "idle", result |-> IF P!OutputLimit THEN "limit" ELSE "ok"]
           /\ chChild' = [chChild EXCEPT !.armed = FALSE]
  <2>1. chCall.result = "ok" /\ \A t \in P!Threads : P!Ended(t)
    BY <1>3 DEF P!Collected
  <2>2. /\ chChild' \in [life : {"none", "running", "zombie", "reaped"}, deaf : BOOLEAN, armed : BOOLEAN]
        /\ chChild'.life = "reaped" /\ ~chChild'.armed
    BY <1>2, <1>3, <2>1 DEF P!TypeOK
  <2>3. /\ chCall' \in [phase : P!Phases, result : P!Results] /\ chCall'.phase = "idle"
        /\ (chCall'.result = "ok" => ~P!OutputLimit)
    BY <1>3 DEF P!Phases, P!Results
  <2>4. P!TypeOK'
    BY <1>1, <1>3, <2>2, <2>3 DEF P!TypeOK
  <2>5. PipesRead'
    BY <1>1, <1>3, <2>2 DEF PipesRead, P!Holders
  <2>6. P!SuccessIsWhole'
    <3>1. ASSUME chCall'.result = "ok" PROVE ~chHelper'.alive /\ \A t \in P!Readers : chIo'[t] = "eof"
      <4>1. \A t \in P!Readers : t \in P!Threads /\ chIo[t] # "over" /\ P!Ended(t)
        BY <2>1, <2>3, <3>1 DEF P!OutputLimit, P!Readers, P!Threads
      <4>2. \A t \in P!Readers : chIo[t] = "eof"
        BY <4>1 DEF PipesRead, P!Ended
      <4>3. ~P!Holders
        BY <4>2 DEF PipesRead, P!Readers
      <4> QED BY <1>1, <1>3, <4>2, <4>3 DEF P!Holders
    <3> QED BY <2>2, <3>1 DEF P!SuccessIsWhole
  <2>7. LeavesClean' /\ RunGoesOn'
    BY <1>1, <2>1, <2>2, <2>3 DEF LeavesClean, RunGoesOn, P!Ended
  <2> QED BY <2>4, <2>5, <2>6, <2>7
<1>4. CASE /\ P!Collected # "ok" /\ chChild.armed /\ chGrace' = FALSE
           /\ chCall' = [phase |-> "dropTerm", result |-> P!Collected]
           /\ chChild' = P!SignalledChild(FALSE) /\ chHelper' = P!SignalledHelper(FALSE)
  <2>1. /\ chChild' \in [life : {"none", "running", "zombie", "reaped"}, deaf : BOOLEAN, armed : BOOLEAN]
        /\ chHelper' \in [alive : BOOLEAN, grouped : BOOLEAN, deaf : BOOLEAN]
        /\ (chChild'.armed <=> chChild.armed) /\ (chHelper'.alive => chHelper.alive)
        /\ (chChild'.life = chChild.life \/ (chChild.life = "running" /\ chChild'.life = "zombie"))
    BY <1>4, SignalsEnd
  <2>2. P!Collected \in P!Results
    BY DEF P!Collected, P!TypeOK, P!Results
  <2>3. /\ chCall' \in [phase : P!Phases, result : P!Results] /\ chCall'.phase = "dropTerm"
        /\ chCall'.result # "ok"
    BY <1>4, <2>2 DEF P!Phases
  <2>4. chIncomplete'
    BY <1>1, <1>4 DEF P!Settled, P!Collected
  <2>5. P!TypeOK'
    BY <1>1, <1>4, <2>1, <2>3 DEF P!TypeOK
  <2>6. PipesRead'
    BY <1>1, <2>1 DEF PipesRead, P!Holders
  <2> QED BY <1>4, <2>1, <2>3, <2>4, <2>5, <2>6 DEF LeavesClean, RunGoesOn, P!SuccessIsWhole
<1>5. CASE /\ P!Collected # "ok" /\ ~chChild.armed /\ UNCHANGED <<chChild, chHelper, chGrace>>
           /\ chCall' = [phase |-> "idle", result |-> P!Collected]
  <2>1. P!Collected \in P!Results
    BY DEF P!Collected, P!TypeOK, P!Results
  <2>2. /\ chCall' \in [phase : P!Phases, result : P!Results] /\ chCall'.phase = "idle"
        /\ chCall'.result # "ok"
    BY <1>5, <2>1 DEF P!Phases
  <2>3. P!TypeOK'
    BY <1>1, <1>5, <2>2 DEF P!TypeOK
  <2>4. PipesRead'
    BY <1>1, <1>5 DEF PipesRead, P!Holders
  <2>5. ~chIncomplete' => \A t \in P!Threads : chIo'[t] # "running"
    BY <1>1 DEF P!Settled, P!Ended
  <2> QED BY <1>5, <2>2, <2>3, <2>4, <2>5 DEF LeavesClean, RunGoesOn, P!SuccessIsWhole
<1> QED BY <1>3, <1>4, <1>5 DEF P!FinishWorkers

LEMMA ChildStep == ASSUME ChildInv, [Next]_vars PROVE ChildInv'
<1>1. CASE UNCHANGED chVars
  BY <1>1 DEF chVars, ChildInv, P!TypeOK, PipesRead, RunGoesOn, LeavesClean, P!SuccessIsWhole, P!Holders
<1>2. CASE P!Next
  BY <1>2, ChildWorld, ChildThreads, ChildStarts, ChildRuns, ChildTerminates, ChildFinishes
     DEF P!Next, P!Runner
<1> QED BY <1>1, <1>2
       DEF Next, vars, TransferNext, ClipboardNext, ExportNext, AttachmentsNext, ChildProcessNext

\* A step that starts a child starts it clean.
LEMMA ChildStartsClean ==
  ASSUME ChildInv, [Next]_vars
  PROVE  [chRuns' > chRuns /\ chCall'.phase = "wait" =>
            chChild.life \in {"none", "reaped"} /\ \A t \in P!Threads : chIo[t] # "running"]_(P!vars)
<1>1. CASE UNCHANGED chVars
  BY <1>1 DEF chVars, P!vars
<1>2. CASE P!SpawnFails \/ \E deaf \in BOOLEAN : P!StartRun(deaf)
  BY <1>2, ChildStarts
<1>3. CASE P!Next /\ UNCHANGED chRuns
  BY <1>3 DEF ChildInv, P!TypeOK
<1>4. P!Next => UNCHANGED chRuns \/ P!SpawnFails \/ \E deaf \in BOOLEAN : P!StartRun(deaf)
  BY DEF P!Next, P!Runner, P!WaitForExit, P!Settle, P!FinishWorkers, P!DropChild, P!ReceiveWorker, P!Terminate,
         P!Fail, P!Advance, P!Cancel, P!DeadlinePasses, P!GraceEnds, P!ChildExits, P!HelperExits, P!ChildForks,
         P!ReadEnds, P!WriteEnds
<1> QED BY <1>1, <1>2, <1>3, <1>4
       DEF Next, vars, TransferNext, ClipboardNext, ExportNext, AttachmentsNext, ChildProcessNext

\* Child processes, for any number of runs: a success has the whole output, read after every
\* process that could add to it was gone, and no child starts while a pipe thread or a child of
\* an earlier run is left.
THEOREM ChildrenAreContained == Spec => ChildContained
<1>1. Init => ChildInv
  BY ChildInit DEF Init
<1>2. ChildInv => (scene = "child" => P!ChildProcessSafe)
  BY DEF ChildInv, P!ChildProcessSafe
<1> QED BY <1>1, <1>2, ChildStep, ChildStartsClean, PTL DEF Spec, ChildContained, P!StartsClean
==============================================================================

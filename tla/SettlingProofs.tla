---------------------------- MODULE SettlingProofs ----------------------------
(***************************************************************************)
(* Proofs about what comes to an end in order: the input lane, the lanes   *)
(* at shutdown, submissions to agents and processes that make way for an   *)
(* update, for any number of lanes, keys, thoughts, attempts, terminals    *)
(* and versions and any capacity of the channels.                          *)
(***************************************************************************)
EXTENDS MCSettling, TLAPS

-----------------------------------------------------------------------------
(* The input lane: where the keys are                                      *)

Message ==
  [kind : {"key"}, value : Nat] \cup [kind : {"resize"}, value : 0 .. IlMaxResizes]
    \cup [kind : {"unbound", "responsive", "none"}, value : {0}]
    \cup [kind : {"failed"}, value : {"io", "unresponsive"}]
OutMessage == [seq : Nat, input : Message]

\* The keys in a channel are exactly those from a + 1 to b, in order.
Carries(s, a, b) ==
  /\ a <= b
  /\ \A i \in DOMAIN s : s[i].kind = "key" => s[i].value \in a + 1 .. b
  /\ \A v \in a + 1 .. b : \E i \in DOMAIN s : s[i].kind = "key" /\ s[i].value = v
  /\ \A i, j \in DOMAIN s : i < j /\ s[i].kind = "key" /\ s[j].kind = "key" => s[i].value < s[j].value

LEMMA CarriesNothing == \A a \in Nat : Carries(<<>>, a, a)
BY DEF Carries

LEMMA CarriesAppend ==
  ASSUME NEW s \in Seq(Message), NEW a \in Nat, NEW b \in Nat, Carries(s, a, b), NEW m \in Message
  PROVE  /\ Append(s, m) \in Seq(Message)
         /\ m.kind # "key" => Carries(Append(s, m), a, b)
         /\ m.kind = "key" /\ m.value = b + 1 => Carries(Append(s, m), a, b + 1)
<1>1. /\ Append(s, m) \in Seq(Message)
      /\ DOMAIN Append(s, m) = 1 .. Len(s) + 1
      /\ Append(s, m)[Len(s) + 1] = m
      /\ \A i \in DOMAIN s : Append(s, m)[i] = s[i]
      /\ DOMAIN s = 1 .. Len(s) /\ Len(s) \in Nat
  OBVIOUS
<1> DEFINE t == Append(s, m)
<1>2. \A i \in DOMAIN t : (i \in DOMAIN s /\ t[i] = s[i]) \/ (i = Len(s) + 1 /\ t[i] = m)
  BY <1>1
<1> HIDE DEF t
<1>3. ASSUME m.kind # "key" PROVE Carries(t, a, b)
  BY <1>1, <1>2, <1>3 DEF Carries, t
<1>4. ASSUME m.kind = "key", m.value = b + 1 PROVE Carries(t, a, b + 1)
  <2>1. a <= b + 1
    BY DEF Carries
  <2>2. \A i \in DOMAIN t : t[i].kind = "key" => t[i].value \in a + 1 .. b + 1
    BY <1>2, <1>4 DEF Carries
  <2>3. ASSUME NEW v \in a + 1 .. b + 1
        PROVE  \E i \in DOMAIN t : t[i].kind = "key" /\ t[i].value = v
    BY <1>1, <1>4 DEF Carries, t
  <2>4. ASSUME NEW i \in DOMAIN t, NEW j \in DOMAIN t, i < j, t[i].kind = "key", t[j].kind = "key"
        PROVE  t[i].value < t[j].value
    <3>1. i \in DOMAIN s /\ t[i] = s[i]
      BY <1>1, <1>2, <2>4 DEF t
    <3>2. CASE j \in DOMAIN s /\ t[j] = s[j]
      BY <2>4, <3>1, <3>2 DEF Carries
    <3>3. CASE t[j] = m
      BY <1>4, <2>4, <3>1, <3>3 DEF Carries
    <3> QED BY <1>2, <3>2, <3>3
  <2> QED BY <2>1, <2>2, <2>3, <2>4 DEF Carries
<1> QED BY <1>1, <1>3, <1>4 DEF t

LEMMA CarriesTail ==
  ASSUME NEW s \in Seq(Message), NEW a \in Nat, NEW b \in Nat, Carries(s, a, b), s # <<>>
  PROVE  /\ Tail(s) \in Seq(Message) /\ Head(s) \in Message
         /\ Head(s).kind # "key" => Carries(Tail(s), a, b)
         /\ Head(s).kind = "key" => Head(s).value = a + 1 /\ a + 1 <= b /\ Carries(Tail(s), a + 1, b)
<1>1. /\ Tail(s) \in Seq(Message) /\ Head(s) \in Message /\ Head(s) = s[1]
      /\ DOMAIN s = 1 .. Len(s) /\ Len(s) \in Nat \ {0}
      /\ DOMAIN Tail(s) = 1 .. Len(s) - 1
      /\ \A i \in 1 .. Len(s) - 1 : Tail(s)[i] = s[i + 1]
  OBVIOUS
<1> DEFINE t == Tail(s)
<1>2. /\ \A i \in DOMAIN t : i + 1 \in DOMAIN s /\ t[i] = s[i + 1]
      /\ \A i \in DOMAIN s : i # 1 => i - 1 \in DOMAIN t /\ t[i - 1] = s[i]
      /\ 1 \in DOMAIN s /\ \A i \in DOMAIN s : i \in Nat /\ i >= 1
      /\ \A i \in DOMAIN t : i \in Nat /\ i >= 1
  BY <1>1
<1> HIDE DEF t
<1>3. \A i, j \in DOMAIN t : i < j /\ t[i].kind = "key" /\ t[j].kind = "key" => t[i].value < t[j].value
  BY <1>2 DEF Carries
<1>4. ASSUME Head(s).kind # "key" PROVE Carries(t, a, b)
  <2>1. \A i \in DOMAIN t : t[i].kind = "key" => t[i].value \in a + 1 .. b
    BY <1>2 DEF Carries
  <2>2. ASSUME NEW v \in a + 1 .. b PROVE \E i \in DOMAIN t : t[i].kind = "key" /\ t[i].value = v
    <3>1. PICK i \in DOMAIN s : s[i].kind = "key" /\ s[i].value = v
      BY DEF Carries
    <3>2. i # 1
      BY <1>1, <1>4, <3>1
    <3> QED BY <1>2, <3>1, <3>2
  <2> QED BY <1>3, <2>1, <2>2 DEF Carries
<1>5. ASSUME Head(s).kind = "key"
      PROVE  Head(s).value = a + 1 /\ a + 1 <= b /\ Carries(t, a + 1, b)
  <2>1. s[1].kind = "key" /\ s[1].value \in a + 1 .. b
    BY <1>1, <1>2, <1>5 DEF Carries
  <2>2. PICK i \in DOMAIN s : s[i].kind = "key" /\ s[i].value = a + 1
    BY <2>1 DEF Carries
  <2>3. i = 1
    <3>1. i # 1 => 1 < i
      BY <1>2
    <3>2. 1 < i => s[1].value < s[i].value
      BY <1>2, <2>1, <2>2 DEF Carries
    <3> QED BY <2>1, <2>2, <3>1, <3>2
  <2>4. s[1].value = a + 1
    BY <2>2, <2>3
  <2>5. \A k \in DOMAIN t : t[k].kind = "key" => t[k].value \in a + 2 .. b
    <3> SUFFICES ASSUME NEW k \in DOMAIN t, t[k].kind = "key" PROVE t[k].value \in a + 2 .. b
      OBVIOUS
    <3>1. k + 1 \in DOMAIN s /\ t[k] = s[k + 1] /\ 1 < k + 1
      BY <1>2
    <3> QED BY <1>2, <2>1, <2>4, <3>1 DEF Carries
  <2>6. ASSUME NEW v \in a + 2 .. b PROVE \E k \in DOMAIN t : t[k].kind = "key" /\ t[k].value = v
    <3>1. PICK k \in DOMAIN s : s[k].kind = "key" /\ s[k].value = v
      BY DEF Carries
    <3>2. k # 1
      BY <2>4, <3>1
    <3> QED BY <1>2, <3>1, <3>2
  <2>7. a + 1 <= b /\ a + 1 + 1 = a + 2
    BY <2>1
  <2> QED BY <1>1, <1>3, <2>4, <2>5, <2>6, <2>7 DEF Carries
<1> QED BY <1>1, <1>4, <1>5 DEF t

\* What the messages of the channel to the event loop say.
Inputs(s) == [i \in 1 .. Len(s) |-> s[i].input]

LEMMA InputsTyped ==
  ASSUME NEW s \in Seq(OutMessage)
  PROVE  Inputs(s) \in Seq(Message) /\ Len(Inputs(s)) = Len(s)
<1>1. Len(s) \in Nat /\ \A i \in 1 .. Len(s) : s[i] \in OutMessage
  OBVIOUS
<1>2. \A i \in 1 .. Len(s) : s[i].input \in Message
  BY <1>1 DEF OutMessage
<1> QED BY <1>1, <1>2 DEF Inputs

LEMMA InputsAppend ==
  ASSUME NEW s \in Seq(OutMessage), NEW m \in OutMessage
  PROVE  /\ Inputs(s) \in Seq(Message)
         /\ Append(s, m) \in Seq(OutMessage) /\ Inputs(Append(s, m)) = Append(Inputs(s), m.input)
<1>1. /\ Append(s, m) \in Seq(OutMessage) /\ Len(Append(s, m)) = Len(s) + 1 /\ Len(s) \in Nat
      /\ \A i \in 1 .. Len(s) : Append(s, m)[i] = s[i] /\ s[i] \in OutMessage
      /\ Append(s, m)[Len(s) + 1] = m
  OBVIOUS
<1>2. Inputs(s) \in Seq(Message) /\ Len(Inputs(s)) = Len(s)
  BY InputsTyped
<1> DEFINE l == Inputs(Append(s, m))
           r == Append(Inputs(s), m.input)
<1>3. l \in Seq(Message) /\ Len(l) = Len(s) + 1
  BY <1>1, InputsTyped
<1>4. m.input \in Message
  BY DEF OutMessage
<1>5. r \in Seq(Message) /\ Len(r) = Len(s) + 1
  BY <1>1, <1>2, <1>4
<1>6. \A i \in 1 .. Len(s) + 1 : l[i] = r[i]
  <2>1. \A i \in 1 .. Len(s) : l[i] = s[i].input /\ r[i] = s[i].input
    BY <1>1, <1>2 DEF Inputs
  <2>2. l[Len(s) + 1] = m.input /\ r[Len(s) + 1] = m.input
    BY <1>1, <1>2 DEF Inputs
  <2>3. \A i \in 1 .. Len(s) + 1 : i \in 1 .. Len(s) \/ i = Len(s) + 1
    BY <1>1
  <2> HIDE DEF l, r
  <2> QED BY <2>1, <2>2, <2>3
<1> HIDE DEF l, r
<1>7. l = r
  BY <1>3, <1>5, <1>6
<1> QED BY <1>1, <1>2, <1>7 DEF l, r

LEMMA InputsTail ==
  ASSUME NEW s \in Seq(OutMessage), s # <<>>
  PROVE  /\ Tail(s) \in Seq(OutMessage) /\ Head(s) \in OutMessage
         /\ Inputs(s) # <<>> /\ Head(Inputs(s)) = Head(s).input
         /\ Inputs(Tail(s)) = Tail(Inputs(s))
<1>1. /\ Tail(s) \in Seq(OutMessage) /\ Head(s) \in OutMessage /\ Head(s) = s[1]
      /\ Len(Tail(s)) = Len(s) - 1 /\ Len(s) \in Nat \ {0}
      /\ \A i \in 1 .. Len(s) - 1 : Tail(s)[i] = s[i + 1]
      /\ \A i \in 1 .. Len(s) : s[i] \in OutMessage
  OBVIOUS
<1>2. Inputs(s) \in Seq(Message) /\ Len(Inputs(s)) = Len(s)
  BY InputsTyped
<1>3. Inputs(s) # <<>> /\ Head(Inputs(s)) = Inputs(s)[1] /\ Inputs(s)[1] = s[1].input
  BY <1>1, <1>2 DEF Inputs
<1> DEFINE l == Inputs(Tail(s))
           r == Tail(Inputs(s))
<1>4. l \in Seq(Message) /\ Len(l) = Len(s) - 1
  BY <1>1, InputsTyped
<1>5. r \in Seq(Message) /\ Len(r) = Len(s) - 1
  BY <1>1, <1>2, <1>3
<1>6. \A i \in 1 .. Len(s) - 1 : l[i] = r[i]
  <2> SUFFICES ASSUME NEW i \in 1 .. Len(s) - 1 PROVE l[i] = r[i]
    OBVIOUS
  <2>1. l[i] = s[i + 1].input
    BY <1>1 DEF Inputs
  <2>2. r[i] = Inputs(s)[i + 1]
    BY <1>1, <1>2, <1>3
  <2>3. Inputs(s)[i + 1] = s[i + 1].input
    BY <1>1 DEF Inputs
  <2> QED BY <2>1, <2>2, <2>3
<1> HIDE DEF l, r
<1>7. l = r
  BY <1>4, <1>5, <1>6
<1> QED BY <1>1, <1>3, <1>7 DEF l, r

-----------------------------------------------------------------------------
(* The input lane: its inductive invariant                                 *)

InputTypes ==
  /\ ilTty \in Seq(Message) /\ ilSource \in Seq(Message) /\ ilOut \in Seq(OutMessage)
  /\ ilReader \in [stage : {"poll", "deliver", "hung", "exited"}, message : Message]
  /\ ilReader.stage # "deliver" => ilReader.message = I!Nothing
  /\ \/ ilSupervisor \in [stage : {"flush", "receive", "ended"}, message : {I!Nothing}]
     \/ ilSupervisor \in [stage : {"send"}, message : OutMessage]
  /\ Len(ilSource) <= IlSourceCapacity /\ Len(ilOut) <= IlOutCapacity
  /\ ilResize \in 0 .. IlMaxResizes /\ ilSize \in 0 .. IlMaxResizes
  /\ ilSilent \in 0 .. IlStallLimit /\ ilGap \in 0 .. IlStallLimit
  /\ ilNumbered \in 0 .. IlMaxKeys /\ ilTyped \in 0 .. IlMaxKeys /\ ilResized \in 0 .. IlMaxResizes
  /\ \A i \in 1 .. Len(ilReceived) : ilReceived[i] = [seq |-> i, key |-> i]
  /\ ilReceived \in Seq([seq : Nat, key : Nat])

\* Before the supervisor: until it ends, the keys after the last one numbered are in the
\* channel, then with the reader, then in the terminal.
Upstream ==
  ilSupervisor.stage # "ended" =>
    \E c \in Nat :
      /\ Carries(ilSource, ilNumbered, c)
      /\ \/ ilReader.message.kind # "key" /\ Carries(ilTty, c, ilTyped)
         \/ /\ ilReader.message.kind = "key" /\ ilReader.message.value = c + 1
            /\ Carries(ilTty, c + 1, ilTyped)

\* After it: until the lane is stopped, the keys after the last one received are in the channel
\* to the event loop, then in the supervisor's hand, under the numbers of their order.
Holding == ilSupervisor.stage = "send" /\ ilSupervisor.message.input.kind = "key"
Downstream ==
  ~ilStop =>
    /\ \A i \in 1 .. Len(ilOut) : ilOut[i].input.kind = "key" => ilOut[i].seq = ilOut[i].input.value
    /\ \/ ~Holding /\ Carries(Inputs(ilOut), Len(ilReceived), ilNumbered)
       \/ /\ Holding
          /\ ilSupervisor.message.seq = ilNumbered /\ ilSupervisor.message.input.value = ilNumbered
          /\ ilNumbered > 0 /\ Carries(Inputs(ilOut), Len(ilReceived), ilNumbered - 1)

InputInv == InputTypes /\ Upstream /\ Downstream

LEMMA InputInit == I!Init => InputInv
<1> SUFFICES ASSUME I!Init PROVE InputInv
  OBVIOUS
<1>1. InputTypes
  BY InputAssumption DEF I!Init, InputTypes, I!Nothing, Message
<1>2. Inputs(ilOut) = <<>>
  BY DEF I!Init, Inputs
<1>3. Upstream /\ Downstream
  BY <1>2, CarriesNothing DEF I!Init, Upstream, Downstream, Holding, I!Nothing
<1> QED BY <1>1, <1>3 DEF InputInv

LEMMA MessageTypes ==
  /\ \A k \in Nat : I!Key(k) \in Message /\ I!Key(k).kind = "key" /\ I!Key(k).value = k
  /\ \A k \in 0 .. IlMaxResizes :
       I!Resize(k) \in Message /\ I!Resize(k).kind = "resize" /\ I!Resize(k).value = k
  /\ \A w \in {"io", "unresponsive"} : I!Failed(w) \in Message /\ I!Failed(w).kind = "failed"
  /\ I!Unbound \in Message /\ I!Unbound.kind = "unbound"
  /\ I!Responsive \in Message /\ I!Responsive.kind = "responsive"
  /\ I!Nothing \in Message /\ I!Nothing.kind = "none"
BY DEF I!Key, I!Resize, I!Failed, I!Unbound, I!Responsive, I!Nothing, Message

LEMMA MessageValues ==
  ASSUME NEW m \in Message
  PROVE  /\ m.kind = "key" => m.value \in Nat
         /\ m.kind = "resize" => m.value \in 0 .. IlMaxResizes
         /\ m.kind = "failed" => m.value \in {"io", "unresponsive"}
BY DEF Message

\* What one step has to establish, part by part.
LEMMA UpstreamKept ==
  ASSUME Upstream, UNCHANGED <<ilTty, ilReader, ilSource, ilNumbered, ilTyped>>,
         ilSupervisor'.stage # "ended" => ilSupervisor.stage # "ended"
  PROVE  Upstream'
BY DEF Upstream

LEMMA DownstreamKept ==
  ASSUME Downstream, UNCHANGED <<ilOut, ilReceived, ilNumbered, ilSupervisor>>, ilStop => ilStop'
  PROVE  Downstream'
BY DEF Downstream, Holding

\* The supervisor goes on with something that is not a key.
LEMMA DownstreamPasses ==
  ASSUME Downstream, UNCHANGED <<ilOut, ilReceived, ilNumbered>>, ilStop => ilStop', ~Holding, ~Holding'
  PROVE  Downstream'
BY DEF Downstream

\* The terminal and the reader.
LEMMA InputTerminal ==
  ASSUME InputInv, I!Type \/ I!ResizeTerminal \/ I!Tick PROVE InputInv'
<1> USE InputAssumption DEF InputInv
<1>1. CASE I!Type
  <2>1. /\ ilTyped + 1 \in 0 .. IlMaxKeys /\ ilTyped' = ilTyped + 1
        /\ ilTty' = Append(ilTty, I!Key(ilTyped + 1))
    BY <1>1 DEF I!Type, InputTypes
  <2>2. UNCHANGED <<ilReader, ilSource, ilSupervisor, ilResize, ilNumbered, ilSilent, ilGap, ilOut,
                    ilStop, ilReceived, ilSize, ilResized>>
    BY <1>1 DEF I!Type, I!loopVars
  <2>3. I!Key(ilTyped + 1) \in Message /\ I!Key(ilTyped + 1).kind = "key"
        /\ I!Key(ilTyped + 1).value = ilTyped + 1
    BY <2>1, MessageTypes DEF InputTypes
  <2>4. ilTty \in Seq(Message) /\ ilTyped \in Nat /\ ilTty' \in Seq(Message)
    BY <2>1, <2>3 DEF InputTypes
  <2>5. InputTypes'
    BY <2>1, <2>2, <2>4 DEF InputTypes
  <2>6. \A a \in Nat : Carries(ilTty, a, ilTyped) => Carries(ilTty', a, ilTyped')
    BY <2>1, <2>3, <2>4, CarriesAppend
  <2>7. Upstream'
    BY <2>2, <2>6 DEF Upstream
  <2>8. Downstream'
    BY <2>2, DownstreamKept
  <2> QED BY <2>5, <2>7, <2>8
<1>2. CASE I!ResizeTerminal
  <2> DEFINE e == I!Resize(ilResized + 1)
  <2>1. /\ ilResized + 1 \in 0 .. IlMaxResizes /\ ilResized' = ilResized + 1
        /\ ilTty' = ilTty \o <<e, I!Unbound>>
    BY <1>2 DEF I!ResizeTerminal, InputTypes
  <2>2. UNCHANGED <<ilReader, ilSource, ilSupervisor, ilResize, ilNumbered, ilSilent, ilGap, ilOut,
                    ilStop, ilReceived, ilSize, ilTyped>>
    BY <1>2 DEF I!ResizeTerminal, I!loopVars
  <2>3. e \in Message /\ e.kind # "key" /\ I!Unbound \in Message /\ I!Unbound.kind # "key"
    BY <2>1, MessageTypes
  <2> HIDE DEF e
  <2>4. ilTty \in Seq(Message) /\ ilTyped \in Nat
    BY DEF InputTypes
  <2>5. ilTty' = Append(Append(ilTty, e), I!Unbound)
    BY <2>1, <2>3, <2>4
  <2>6. ilTty' \in Seq(Message)
    BY <2>3, <2>4, <2>5
  <2>7. InputTypes'
    BY <2>1, <2>2, <2>6 DEF InputTypes
  <2>8. ASSUME NEW a \in Nat, Carries(ilTty, a, ilTyped) PROVE Carries(ilTty', a, ilTyped')
    <3>1. Append(ilTty, e) \in Seq(Message) /\ Carries(Append(ilTty, e), a, ilTyped)
      BY <2>3, <2>4, <2>8, CarriesAppend
    <3>2. Carries(Append(Append(ilTty, e), I!Unbound), a, ilTyped)
      BY <2>3, <2>4, <3>1, CarriesAppend
    <3> QED BY <2>2, <2>5, <3>2
  <2>9. Upstream'
    BY <2>2, <2>8 DEF Upstream
  <2>10. Downstream'
    BY <2>2, DownstreamKept
  <2> QED BY <2>7, <2>9, <2>10
<1>3. CASE I!Tick
  <2>1. UNCHANGED <<ilTty, ilReader, ilSource, ilSupervisor, ilResize, ilNumbered, ilOut, ilStop,
                    ilReceived, ilSize, ilTyped, ilResized>>
    BY <1>3 DEF I!Tick, I!loopVars, I!terminalVars
  <2>2. ilSilent' \in 0 .. IlStallLimit /\ ilGap' \in 0 .. IlStallLimit
    BY <1>3 DEF I!Tick, I!Older, InputTypes
  <2>3. InputTypes'
    BY <2>1, <2>2 DEF InputTypes
  <2> QED BY <2>1, <2>3, UpstreamKept, DownstreamKept
<1> QED BY <1>1, <1>2, <1>3

LEMMA InputReader ==
  ASSUME InputInv, I!Poll \/ I!PollFails \/ I!PollHangs \/ I!SendSource \/ I!ReaderStops
  PROVE  InputInv'
<1> USE InputAssumption DEF InputInv
<1>0. UNCHANGED <<ilSupervisor, ilResize, ilNumbered, ilSilent, ilGap, ilOut, ilStop, ilReceived,
                  ilSize, ilTyped, ilResized>>
  BY DEF I!Poll, I!PollFails, I!PollHangs, I!SendSource, I!ReaderStops, I!loopVars, I!terminalVars
<1>1. Downstream'
  BY <1>0, DownstreamKept
<1>2. /\ ilTty \in Seq(Message) /\ ilTyped \in Nat /\ ilSource \in Seq(Message) /\ ilNumbered \in Nat
      /\ ilReader.message \in Message
      /\ ilReader.stage # "deliver" => ilReader.message.kind = "none"
  BY MessageTypes DEF InputTypes
<1>3. CASE I!Poll \/ I!PollFails \/ I!PollHangs
  <2>1. /\ ilReader.stage = "poll" /\ ilSource' = ilSource
        /\ \/ /\ ilTty' = ilTty
              /\ \/ ilReader' = [stage |-> "deliver", message |-> I!Responsive]
                 \/ ilReader' = [stage |-> "deliver", message |-> I!Failed("io")]
                 \/ ilReader' = [stage |-> "hung", message |-> I!Nothing]
           \/ /\ ilTty # <<>> /\ ilTty' = Tail(ilTty)
              /\ ilReader' = [stage |-> "deliver", message |-> Head(ilTty)]
    BY <1>3 DEF I!Poll, I!PollFails, I!PollHangs
  <2>2. CASE ilTty' = ilTty /\ ilReader'.message.kind # "key" /\ ilReader'.message \in Message
             /\ ilReader'.stage \in {"deliver", "hung"}
             /\ (ilReader'.stage # "deliver" => ilReader'.message = I!Nothing)
             /\ ilReader' = [stage |-> ilReader'.stage, message |-> ilReader'.message]
    <3>1. InputTypes'
      BY <1>0, <2>1, <2>2 DEF InputTypes
    <3>2. Upstream'
      BY <1>0, <1>2, <2>1, <2>2 DEF Upstream
    <3> QED BY <1>1, <3>1, <3>2
  <2>3. CASE /\ ilTty # <<>> /\ ilTty' = Tail(ilTty)
             /\ ilReader' = [stage |-> "deliver", message |-> Head(ilTty)]
    <3>1. Tail(ilTty) \in Seq(Message) /\ Head(ilTty) \in Message
      BY <1>2, <2>3
    <3>2. InputTypes'
      BY <1>0, <2>1, <2>3, <3>1 DEF InputTypes
    <3>3. ilReader'.message = Head(ilTty)
      BY <2>3
    <3>4. Upstream'
      <4> SUFFICES ASSUME ilSupervisor.stage # "ended" PROVE Upstream'
        BY <1>0 DEF Upstream
      <4>1. PICK c \in Nat : Carries(ilSource, ilNumbered, c) /\ Carries(ilTty, c, ilTyped)
        BY <1>2, <2>1 DEF Upstream
      <4>2. /\ Head(ilTty).kind # "key" => Carries(Tail(ilTty), c, ilTyped)
            /\ Head(ilTty).kind = "key" => Head(ilTty).value = c + 1 /\ Carries(Tail(ilTty), c + 1, ilTyped)
        BY <1>2, <2>3, <4>1, CarriesTail
      <4>3. /\ Carries(ilSource', ilNumbered', c)
            /\ \/ ilReader'.message.kind # "key" /\ Carries(ilTty', c, ilTyped')
               \/ /\ ilReader'.message.kind = "key" /\ ilReader'.message.value = c + 1
                  /\ Carries(ilTty', c + 1, ilTyped')
        BY <1>0, <2>1, <2>3, <3>3, <4>1, <4>2
      <4> QED BY <4>3 DEF Upstream
    <3> QED BY <1>1, <3>2, <3>4
  <2>4. ASSUME \/ ilReader' = [stage |-> "deliver", message |-> I!Responsive]
               \/ ilReader' = [stage |-> "deliver", message |-> I!Failed("io")]
               \/ ilReader' = [stage |-> "hung", message |-> I!Nothing]
        PROVE  /\ ilReader'.message.kind # "key" /\ ilReader'.message \in Message
               /\ ilReader'.stage \in {"deliver", "hung"}
               /\ (ilReader'.stage # "deliver" => ilReader'.message = I!Nothing)
               /\ ilReader' = [stage |-> ilReader'.stage, message |-> ilReader'.message]
    BY <2>4, MessageTypes
  <2> QED BY <2>1, <2>2, <2>3, <2>4
<1>4. CASE I!SendSource
  <2>1. /\ Len(ilSource) < IlSourceCapacity /\ ilTty' = ilTty
        /\ ilSource' = Append(ilSource, ilReader.message)
    BY <1>4 DEF I!SendSource
  <2>2. \E st \in {"exited", "poll"} : ilReader' = [stage |-> st, message |-> I!Nothing]
    BY <1>4 DEF I!SendSource
  <2>3. ilReader'.message.kind = "none"
    BY <2>2, MessageTypes
  <2>4. ilSource' \in Seq(Message) /\ Len(ilSource') <= IlSourceCapacity
    BY <1>2, <2>1 DEF InputTypes
  <2>5. ilReader' \in [stage : {"poll", "deliver", "hung", "exited"}, message : Message]
        /\ ilReader'.message = I!Nothing
    BY <2>2, MessageTypes
  <2>6. InputTypes'
    BY <1>0, <2>1, <2>4, <2>5 DEF InputTypes
  <2>7. Upstream'
    <3> SUFFICES ASSUME ilSupervisor.stage # "ended" PROVE Upstream'
      BY <1>0 DEF Upstream
    <3>1. PICK c \in Nat :
            /\ Carries(ilSource, ilNumbered, c)
            /\ \/ ilReader.message.kind # "key" /\ Carries(ilTty, c, ilTyped)
               \/ /\ ilReader.message.kind = "key" /\ ilReader.message.value = c + 1
                  /\ Carries(ilTty, c + 1, ilTyped)
      BY DEF Upstream
    <3>2. CASE ilReader.message.kind # "key"
      <4>1. Carries(ilSource', ilNumbered', c) /\ Carries(ilTty', c, ilTyped')
        BY <1>0, <1>2, <2>1, <3>1, <3>2, CarriesAppend
      <4> QED BY <2>3, <4>1 DEF Upstream
    <3>3. CASE ilReader.message.kind = "key"
      <4>1. Carries(ilSource', ilNumbered', c + 1) /\ Carries(ilTty', c + 1, ilTyped') /\ c + 1 \in Nat
        BY <1>0, <1>2, <2>1, <3>1, <3>3, CarriesAppend
      <4> QED BY <2>3, <4>1 DEF Upstream
    <3> QED BY <3>2, <3>3
  <2> QED BY <1>1, <2>6, <2>7
<1>5. CASE I!ReaderStops
  <2>1. /\ ilSupervisor.stage = "ended" /\ UNCHANGED <<ilTty, ilSource>>
        /\ ilReader' = [stage |-> "exited", message |-> I!Nothing]
    BY <1>5 DEF I!ReaderStops, I!SourceStop
  <2>2. InputTypes'
    BY <1>0, <2>1, MessageTypes DEF InputTypes
  <2>3. Upstream'
    BY <1>0, <2>1 DEF Upstream
  <2> QED BY <1>1, <2>2, <2>3
<1> QED BY <1>3, <1>4, <1>5

\* What the supervisor holds between two steps, and what it holds while it sends.
LEMMA SupervisorForms ==
  /\ \A st \in {"flush", "receive", "ended"} :
       /\ I!At(st) \in [stage : {"flush", "receive", "ended"}, message : {I!Nothing}]
       /\ I!At(st).stage = st
  /\ \A m \in OutMessage :
       /\ I!Sending(m) \in [stage : {"send"}, message : OutMessage]
       /\ I!Sending(m).stage = "send" /\ I!Sending(m).message = m
BY DEF I!At, I!Sending

LEMMA OutTypes ==
  \A n \in Nat, m \in Message :
    /\ [seq |-> n, input |-> m] \in OutMessage
    /\ [seq |-> n, input |-> m].seq = n /\ [seq |-> n, input |-> m].input = m
BY DEF OutMessage

\* Another message at the end of the channel to the event loop.
LEMMA OutAppends ==
  ASSUME InputInv, ~ilStop, NEW m \in OutMessage, ilOut' = Append(ilOut, m),
         m.input.kind = "key" => m.seq = m.input.value
  PROVE  /\ ilOut' \in Seq(OutMessage) /\ Inputs(ilOut') = Append(Inputs(ilOut), m.input)
         /\ \A i \in 1 .. Len(ilOut') : ilOut'[i].input.kind = "key" => ilOut'[i].seq = ilOut'[i].input.value
         /\ Inputs(ilOut) \in Seq(Message) /\ m.input \in Message
<1>1. ilOut \in Seq(OutMessage)
  BY DEF InputInv, InputTypes
<1>2. ilOut' \in Seq(OutMessage) /\ Inputs(ilOut') = Append(Inputs(ilOut), m.input)
      /\ Inputs(ilOut) \in Seq(Message) /\ m.input \in Message
  BY <1>1, InputsAppend DEF OutMessage
<1>3. \A i \in 1 .. Len(ilOut) : ilOut[i].input.kind = "key" => ilOut[i].seq = ilOut[i].input.value
  BY DEF InputInv, Downstream
<1>4. /\ Len(ilOut') = Len(ilOut) + 1 /\ Len(ilOut) \in Nat /\ ilOut'[Len(ilOut) + 1] = m
      /\ \A i \in 1 .. Len(ilOut) : ilOut'[i] = ilOut[i]
  BY <1>1
<1>5. \A i \in 1 .. Len(ilOut') : i \in 1 .. Len(ilOut) \/ i = Len(ilOut) + 1
  BY <1>4
<1> QED BY <1>2, <1>3, <1>4, <1>5

LEMMA InputFlush == ASSUME InputInv, I!FlushResize PROVE InputInv'
<1> USE InputAssumption DEF InputInv
<1>0. UNCHANGED <<ilTty, ilReader, ilSource, ilNumbered, ilSilent, ilGap, ilStop, ilReceived,
                  ilSize, ilTyped, ilResized>>
  BY DEF I!FlushResize, I!loopVars, I!terminalVars
<1>1. ilSupervisor.stage = "flush" /\ ~Holding
  BY DEF I!FlushResize, Holding
<1>2. PICK st \in {"flush", "receive", "ended"} : ilSupervisor' = I!At(st)
  BY DEF I!FlushResize
<1>3. /\ ilSupervisor' \in [stage : {"flush", "receive", "ended"}, message : {I!Nothing}]
      /\ ~Holding'
  BY <1>2, SupervisorForms DEF Holding
<1>4. Upstream'
  BY <1>0, <1>1, UpstreamKept
<1>5. CASE UNCHANGED <<ilResize, ilOut>>
  <2>1. InputTypes'
    BY <1>0, <1>3, <1>5 DEF InputTypes
  <2> QED BY <1>0, <1>1, <1>3, <1>4, <1>5, <2>1, DownstreamPasses
<1>6. CASE /\ ~ilStop /\ I!Room /\ ilResize' = 0
           /\ ilOut' = Append(ilOut, [seq |-> 0, input |-> I!Resize(ilResize)])
  <2> DEFINE m == [seq |-> 0, input |-> I!Resize(ilResize)]
  <2>1. m \in OutMessage /\ m.input.kind = "resize"
    BY MessageTypes, OutTypes DEF InputTypes
  <2>2. ilOut' = Append(ilOut, m)
    BY <1>6
  <2> HIDE DEF m
  <2>3. /\ ilOut' \in Seq(OutMessage) /\ Inputs(ilOut') = Append(Inputs(ilOut), m.input)
        /\ \A i \in 1 .. Len(ilOut') : ilOut'[i].input.kind = "key" => ilOut'[i].seq = ilOut'[i].input.value
        /\ Inputs(ilOut) \in Seq(Message) /\ m.input \in Message
    BY <1>6, <2>1, <2>2, OutAppends
  <2>4. Len(ilOut') <= IlOutCapacity
    BY <1>6, <2>2 DEF I!Room, InputTypes
  <2>5. InputTypes'
    BY <1>0, <1>3, <1>6, <2>3, <2>4 DEF InputTypes
  <2>6. Carries(Inputs(ilOut), Len(ilReceived), ilNumbered)
    BY <1>1, <1>6 DEF Downstream
  <2>7. Carries(Inputs(ilOut'), Len(ilReceived), ilNumbered)
    <3>1. Len(ilReceived) \in Nat /\ ilNumbered \in Nat
      BY DEF InputTypes
    <3>2. Carries(Append(Inputs(ilOut), m.input), Len(ilReceived), ilNumbered)
      BY <2>1, <2>3, <2>6, <3>1, CarriesAppend
    <3> QED BY <2>3, <3>2
  <2>8. Downstream'
    BY <1>0, <1>3, <2>3, <2>7 DEF Downstream
  <2> QED BY <1>4, <2>5, <2>8
<1> QED BY <1>5, <1>6 DEF I!FlushResize

LEMMA InputDeliver == ASSUME InputInv, I!Deliver PROVE InputInv'
<1> USE InputAssumption DEF InputInv
<1> DEFINE m == Head(ilSource)
<1>0. /\ UNCHANGED <<ilTty, ilReader, ilOut, ilStop, ilReceived, ilSize, ilTyped, ilResized>>
      /\ ilSupervisor.stage = "receive" /\ ilSource # <<>> /\ ilSource' = Tail(ilSource)
  BY DEF I!Deliver, I!loopVars, I!terminalVars
<1>1. /\ ilSource \in Seq(Message) /\ Tail(ilSource) \in Seq(Message) /\ m \in Message
      /\ Len(Tail(ilSource)) <= IlSourceCapacity
      /\ ilNumbered \in Nat /\ ilTyped \in Nat
  BY <1>0 DEF InputTypes
<1>2. ~Holding
  BY <1>0 DEF Holding
<1>3. PICK c \in Nat :
        /\ Carries(ilSource, ilNumbered, c)
        /\ \/ ilReader.message.kind # "key" /\ Carries(ilTty, c, ilTyped)
           \/ /\ ilReader.message.kind = "key" /\ ilReader.message.value = c + 1
              /\ Carries(ilTty, c + 1, ilTyped)
  BY <1>0 DEF Upstream
<1>4. /\ m.kind # "key" => Carries(Tail(ilSource), ilNumbered, c)
      /\ m.kind = "key" => /\ m.value = ilNumbered + 1 /\ ilNumbered + 1 <= c
                           /\ Carries(Tail(ilSource), ilNumbered + 1, c)
  BY <1>0, <1>1, <1>3, CarriesTail
<1>5. /\ m.kind = "resize" => m.value \in 0 .. IlMaxResizes
      /\ c <= ilTyped
  BY <1>1, <1>3, MessageValues DEF Carries
<1>6. \/ /\ m.kind # "key" /\ ilSupervisor' = I!At("flush") /\ ilSilent' = 0 /\ ilGap' = 0
         /\ ilNumbered' = ilNumbered
         /\ ilResize' = ilResize \/ (m.kind = "resize" /\ ilResize' = m.value)
      \/ /\ m.kind = "key" /\ ilNumbered' = ilNumbered + 1 /\ ilSilent' = 0 /\ ilGap' = 0
         /\ ilSupervisor' = I!Sending([seq |-> ilNumbered + 1, input |-> m]) /\ ilResize' = ilResize
      \/ /\ m.kind = "failed" /\ ilSupervisor' = I!Sending([seq |-> 0, input |-> m])
         /\ UNCHANGED <<ilResize, ilNumbered, ilSilent, ilGap>>
  BY DEF I!Deliver, I!Coalesce
<1> HIDE DEF m
<1>7. CASE /\ m.kind # "key" /\ ilSupervisor' = I!At("flush") /\ ilSilent' = 0 /\ ilGap' = 0
           /\ ilNumbered' = ilNumbered
           /\ ilResize' = ilResize \/ (m.kind = "resize" /\ ilResize' = m.value)
  <2>1. /\ ilSupervisor' \in [stage : {"flush", "receive", "ended"}, message : {I!Nothing}]
        /\ ~Holding'
    BY <1>7, SupervisorForms DEF Holding
  <2>2. InputTypes'
    BY <1>0, <1>1, <1>5, <1>7, <2>1 DEF InputTypes
  <2>3. Upstream'
    BY <1>0, <1>3, <1>4, <1>7 DEF Upstream
  <2> QED BY <1>0, <1>2, <1>7, <2>1, <2>2, <2>3, DownstreamPasses
<1>8. CASE /\ m.kind = "key" /\ ilNumbered' = ilNumbered + 1 /\ ilSilent' = 0 /\ ilGap' = 0
           /\ ilSupervisor' = I!Sending([seq |-> ilNumbered + 1, input |-> m]) /\ ilResize' = ilResize
  <2> DEFINE o == [seq |-> ilNumbered + 1, input |-> m]
  <2>1. o \in OutMessage /\ o.seq = ilNumbered + 1 /\ o.input = m
    BY <1>1, OutTypes
  <2>2. /\ ilSupervisor' \in [stage : {"send"}, message : OutMessage]
        /\ ilSupervisor'.stage = "send" /\ ilSupervisor'.message = o
    BY <1>8, <2>1, SupervisorForms
  <2> HIDE DEF o
  <2>3. ilNumbered + 1 \in 0 .. IlMaxKeys
    BY <1>1, <1>4, <1>5, <1>8 DEF InputTypes
  <2>4. InputTypes'
    BY <1>0, <1>1, <1>8, <2>2, <2>3 DEF InputTypes
  <2>5. Upstream'
    BY <1>0, <1>3, <1>4, <1>8 DEF Upstream
  <2>6. Holding'
    BY <1>8, <2>1, <2>2 DEF Holding
  <2>7. ilNumbered' - 1 = ilNumbered /\ ilNumbered' > 0
    BY <1>1, <1>8
  <2>8. Downstream'
    BY <1>0, <1>2, <1>4, <1>8, <2>1, <2>2, <2>6, <2>7 DEF Downstream
  <2> QED BY <2>4, <2>5, <2>8
<1>9. CASE /\ m.kind = "failed" /\ ilSupervisor' = I!Sending([seq |-> 0, input |-> m])
           /\ UNCHANGED <<ilResize, ilNumbered, ilSilent, ilGap>>
  <2> DEFINE o == [seq |-> 0, input |-> m]
  <2>1. o \in OutMessage /\ o.input = m
    BY <1>1, OutTypes
  <2>2. /\ ilSupervisor' \in [stage : {"send"}, message : OutMessage]
        /\ ilSupervisor'.stage = "send" /\ ilSupervisor'.message = o
    BY <1>9, <2>1, SupervisorForms
  <2> HIDE DEF o
  <2>3. InputTypes'
    BY <1>0, <1>1, <1>9, <2>2 DEF InputTypes
  <2>4. Upstream'
    BY <1>0, <1>3, <1>4, <1>9 DEF Upstream
  <2>5. ~Holding'
    BY <1>9, <2>1, <2>2 DEF Holding
  <2> QED BY <1>0, <1>2, <1>9, <2>3, <2>4, <2>5, DownstreamPasses
<1> QED BY <1>6, <1>7, <1>8, <1>9

LEMMA InputWaits == ASSUME InputInv, I!ReceiveTimeout \/ I!ReaderGone PROVE InputInv'
<1> USE InputAssumption DEF InputInv
<1>0. /\ UNCHANGED <<ilTty, ilReader, ilSource, ilResize, ilNumbered, ilOut, ilStop, ilReceived,
                     ilSize, ilTyped, ilResized>>
      /\ ilSupervisor.stage = "receive"
  BY DEF I!ReceiveTimeout, I!ReaderGone, I!loopVars, I!terminalVars
<1>1. ~Holding
  BY <1>0 DEF Holding
<1>2. \/ ilSupervisor' = I!At("flush")
      \/ \E w \in {"io", "unresponsive"} : ilSupervisor' = I!Sending([seq |-> 0, input |-> I!Failed(w)])
  BY DEF I!ReceiveTimeout, I!ReaderGone, I!Observe
<1>3. ilSilent' \in {ilSilent, 0} /\ ilGap' \in {ilGap, 0}
  BY DEF I!ReceiveTimeout, I!ReaderGone, I!Observe
<1>4. /\ \/ ilSupervisor' \in [stage : {"flush", "receive", "ended"}, message : {I!Nothing}]
         \/ ilSupervisor' \in [stage : {"send"}, message : OutMessage]
      /\ ~Holding' /\ ilSupervisor'.stage # "ended"
  <2>1. CASE ilSupervisor' = I!At("flush")
    BY <2>1, SupervisorForms DEF Holding
  <2>2. ASSUME NEW w \in {"io", "unresponsive"},
               ilSupervisor' = I!Sending([seq |-> 0, input |-> I!Failed(w)])
        PROVE  /\ ilSupervisor' \in [stage : {"send"}, message : OutMessage]
               /\ ~Holding' /\ ilSupervisor'.stage # "ended"
    <3> DEFINE o == [seq |-> 0, input |-> I!Failed(w)]
    <3>1. o \in OutMessage /\ o.input.kind = "failed"
      BY MessageTypes, OutTypes
    <3> HIDE DEF o
    <3>2. ilSupervisor' = I!Sending(o)
      BY <2>2 DEF o
    <3> QED BY <3>1, <3>2, SupervisorForms DEF Holding
  <2> QED BY <1>2, <2>1, <2>2
<1>5. ilSilent' \in 0 .. IlStallLimit /\ ilGap' \in 0 .. IlStallLimit
  BY <1>3 DEF InputTypes
<1>6. InputTypes'
  BY <1>0, <1>4, <1>5 DEF InputTypes
<1>7. Upstream'
  BY <1>0, UpstreamKept
<1> QED BY <1>0, <1>1, <1>4, <1>6, <1>7, DownstreamPasses

LEMMA InputSend == ASSUME InputInv, I!SendLossless PROVE InputInv'
<1> USE InputAssumption DEF InputInv
<1>0. /\ UNCHANGED <<ilTty, ilReader, ilSource, ilResize, ilNumbered, ilSilent, ilGap, ilStop,
                     ilReceived, ilSize, ilTyped, ilResized>>
      /\ ilSupervisor.stage = "send" /\ (ilStop \/ I!Room)
      /\ ilOut' = IF ilStop THEN ilOut ELSE Append(ilOut, ilSupervisor.message)
  BY DEF I!SendLossless, I!loopVars, I!terminalVars
<1>1. \E st \in {"ended", "flush"} : ilSupervisor' = I!At(st)
  BY DEF I!SendLossless
<1>2. /\ ilSupervisor' \in [stage : {"flush", "receive", "ended"}, message : {I!Nothing}]
      /\ ~Holding'
  BY <1>1, SupervisorForms DEF Holding
<1>3. Upstream'
  BY <1>0, UpstreamKept
<1>4. CASE ilStop
  <2>1. InputTypes'
    BY <1>0, <1>2, <1>4 DEF InputTypes
  <2>2. Downstream'
    BY <1>0, <1>4 DEF Downstream
  <2> QED BY <1>3, <2>1, <2>2
<1>5. CASE ~ilStop
  <2> DEFINE m == ilSupervisor.message
  <2>1. m \in OutMessage /\ ilOut' = Append(ilOut, m)
    BY <1>0, <1>5 DEF InputTypes
  <2>2. m.input.kind = "key" =>
          /\ m.seq = ilNumbered /\ m.input.value = ilNumbered /\ ilNumbered > 0
          /\ Carries(Inputs(ilOut), Len(ilReceived), ilNumbered - 1)
    BY <1>0, <1>5 DEF Downstream, Holding
  <2>3. m.input.kind # "key" => Carries(Inputs(ilOut), Len(ilReceived), ilNumbered)
    BY <1>0, <1>5 DEF Downstream, Holding
  <2> HIDE DEF m
  <2>4. /\ ilOut' \in Seq(OutMessage) /\ Inputs(ilOut') = Append(Inputs(ilOut), m.input)
        /\ \A i \in 1 .. Len(ilOut') : ilOut'[i].input.kind = "key" => ilOut'[i].seq = ilOut'[i].input.value
        /\ Inputs(ilOut) \in Seq(Message) /\ m.input \in Message
    BY <1>5, <2>1, <2>2, OutAppends
  <2>5. Len(ilOut') <= IlOutCapacity
    BY <1>0, <1>5, <2>1 DEF I!Room, InputTypes
  <2>6. InputTypes'
    BY <1>0, <1>2, <2>4, <2>5 DEF InputTypes
  <2>7. Len(ilReceived) \in Nat /\ ilNumbered \in Nat
    BY DEF InputTypes
  <2>8. Carries(Inputs(ilOut'), Len(ilReceived), ilNumbered)
    <3>1. CASE m.input.kind # "key"
      BY <2>3, <2>4, <2>7, <3>1, CarriesAppend
    <3>2. CASE m.input.kind = "key"
      <4>1. ilNumbered - 1 \in Nat /\ ilNumbered - 1 + 1 = ilNumbered
        BY <2>2, <2>7, <3>2
      <4> QED BY <2>2, <2>4, <2>7, <3>2, <4>1, CarriesAppend
    <3> QED BY <3>1, <3>2
  <2>9. Downstream'
    BY <1>0, <1>2, <2>4, <2>8 DEF Downstream
  <2> QED BY <1>3, <2>6, <2>9
<1> QED BY <1>4, <1>5

LEMMA InputTake == ASSUME InputInv, I!Take \/ I!RequestStop PROVE InputInv'
<1> USE InputAssumption DEF InputInv
<1>0. UNCHANGED <<ilTty, ilReader, ilSource, ilSupervisor, ilResize, ilNumbered, ilSilent, ilGap,
                  ilTyped, ilResized>>
  BY DEF I!Take, I!RequestStop, I!terminalVars
<1>1. Upstream'
  BY <1>0, UpstreamKept
<1>2. CASE I!RequestStop
  <2>1. ilStop' = TRUE /\ UNCHANGED <<ilOut, ilReceived, ilSize>>
    BY <1>2 DEF I!RequestStop
  <2>2. InputTypes'
    BY <1>0, <2>1 DEF InputTypes
  <2>3. Downstream'
    BY <2>1 DEF Downstream
  <2> QED BY <1>1, <2>2, <2>3
<1>3. CASE I!Take
  <2> DEFINE m == Head(ilOut)
             n == Len(ilReceived)
  <2>1. ilOut # <<>> /\ ~ilStop /\ ilOut' = Tail(ilOut)
    BY <1>3 DEF I!Take
  <2>2. /\ ilOut \in Seq(OutMessage) /\ Tail(ilOut) \in Seq(OutMessage) /\ m \in OutMessage
        /\ Inputs(ilOut) # <<>> /\ Head(Inputs(ilOut)) = m.input
        /\ Inputs(Tail(ilOut)) = Tail(Inputs(ilOut)) /\ Inputs(ilOut) \in Seq(Message)
    BY <2>1, InputsTail, InputsTyped DEF InputTypes
  <2>3. /\ Len(Tail(ilOut)) = Len(ilOut) - 1 /\ Len(ilOut) \in Nat \ {0} /\ m = ilOut[1]
        /\ \A i \in 1 .. Len(Tail(ilOut)) : Tail(ilOut)[i] = ilOut[i + 1]
    BY <2>1, <2>2
  <2>4. m.input \in Message /\ m.seq \in Nat /\ n \in Nat /\ ilNumbered \in Nat
    BY <2>2 DEF OutMessage, InputTypes
  <2>5. /\ m.input.kind = "key" => m.seq = m.input.value
        /\ \A i \in 1 .. Len(Tail(ilOut)) :
             Tail(ilOut)[i].input.kind = "key" => Tail(ilOut)[i].seq = Tail(ilOut)[i].input.value
    BY <2>1, <2>3 DEF Downstream
  <2>6. PICK b \in Nat : /\ Carries(Inputs(ilOut), n, b)
                         /\ \/ ~Holding /\ b = ilNumbered
                            \/ /\ Holding /\ b = ilNumbered - 1 /\ ilNumbered > 0
                               /\ ilSupervisor.message.seq = ilNumbered
                               /\ ilSupervisor.message.input.value = ilNumbered
    BY <2>1, <2>4 DEF Downstream
  <2>7. /\ m.input.kind # "key" => Carries(Inputs(Tail(ilOut)), n, b)
        /\ m.input.kind = "key" => m.input.value = n + 1 /\ Carries(Inputs(Tail(ilOut)), n + 1, b)
    BY <2>2, <2>4, <2>6, CarriesTail
  <2>8. Holding' <=> Holding
    BY <1>0 DEF Holding
  <2>9. ilOut' \in Seq(OutMessage) /\ Len(ilOut') <= IlOutCapacity
    BY <2>1, <2>2, <2>3 DEF InputTypes
  <2>10. CASE /\ m.input.kind = "key" /\ UNCHANGED <<ilSize, ilStop>>
              /\ ilReceived' = Append(ilReceived, [seq |-> m.seq, key |-> m.input.value])
    <3> DEFINE r == [seq |-> m.seq, key |-> m.input.value]
    <3>1. r = [seq |-> n + 1, key |-> n + 1] /\ r \in [seq : Nat, key : Nat]
      BY <2>4, <2>5, <2>7, <2>10
    <3>2. ilReceived' = Append(ilReceived, r)
      BY <2>10
    <3> HIDE DEF r
    <3>3. /\ ilReceived' \in Seq([seq : Nat, key : Nat]) /\ Len(ilReceived') = n + 1
          /\ \A i \in 1 .. n : ilReceived'[i] = ilReceived[i]
          /\ ilReceived'[n + 1] = r
      BY <3>1, <3>2 DEF InputTypes
    <3> HIDE DEF n
    <3>4. \A i \in 1 .. n + 1 : i \in 1 .. n \/ i = n + 1
      BY <2>4
    <3>5. \A i \in 1 .. n : ilReceived[i] = [seq |-> i, key |-> i]
      BY DEF InputTypes, n
    <3>6. \A i \in 1 .. Len(ilReceived') : ilReceived'[i] = [seq |-> i, key |-> i]
      BY <3>1, <3>3, <3>4, <3>5
    <3>7. InputTypes'
      BY <1>0, <2>9, <2>10, <3>3, <3>6 DEF InputTypes
    <3>8. Carries(Inputs(ilOut'), Len(ilReceived'), b)
      BY <2>1, <2>7, <2>10, <3>3
    <3>9. Downstream'
      BY <1>0, <2>1, <2>5, <2>6, <2>8, <3>8 DEF Downstream
    <3> QED BY <1>1, <3>7, <3>9
  <2>11. CASE m.input.kind = "resize" /\ ilSize' = m.input.value /\ UNCHANGED <<ilReceived, ilStop>>
    <3>1. ilSize' \in 0 .. IlMaxResizes
      BY <2>4, <2>11, MessageValues
    <3>2. InputTypes'
      BY <1>0, <2>9, <2>11, <3>1 DEF InputTypes
    <3>3. Carries(Inputs(ilOut'), Len(ilReceived'), b)
      BY <2>1, <2>7, <2>11
    <3>4. Downstream'
      BY <1>0, <2>1, <2>5, <2>6, <2>8, <3>3 DEF Downstream
    <3> QED BY <1>1, <3>2, <3>4
  <2>12. CASE ilStop' = TRUE /\ UNCHANGED <<ilReceived, ilSize>>
    <3>1. InputTypes'
      BY <1>0, <2>9, <2>12 DEF InputTypes
    <3>2. Downstream'
      BY <2>12 DEF Downstream
    <3> QED BY <1>1, <3>1, <3>2
  <2>13. \/ /\ m.input.kind = "key" /\ UNCHANGED <<ilSize, ilStop>>
            /\ ilReceived' = Append(ilReceived, [seq |-> m.seq, key |-> m.input.value])
         \/ m.input.kind = "resize" /\ ilSize' = m.input.value /\ UNCHANGED <<ilReceived, ilStop>>
         \/ ilStop' = TRUE /\ UNCHANGED <<ilReceived, ilSize>>
    BY <1>3 DEF I!Take
  <2> QED BY <2>10, <2>11, <2>12, <2>13
<1> QED BY <1>2, <1>3

LEMMA InputStep == ASSUME InputInv, [Next]_vars PROVE InputInv'
<1>1. CASE UNCHANGED ilVars
  BY <1>1 DEF ilVars, InputInv, InputTypes, Upstream, Downstream, Holding
<1>2. CASE I!Next
  BY <1>2, InputTerminal, InputReader, InputFlush, InputDeliver, InputWaits, InputSend, InputTake
     DEF I!Next
<1> QED BY <1>1, <1>2
       DEF Next, vars, SubmissionNext, LanesNext, InputLaneNext, UpdateConvergenceNext

\* For every capacity of the two channels and every number of keys and resizes: what the event
\* loop has received is the first keys that were typed, in order, numbered without a gap.
THEOREM KeysArrive == Spec => []InputLaneSafe
<1>1. Init => InputInv
  BY InputInit DEF Init
<1>2. InputInv => InputLaneSafe
  <2> SUFFICES ASSUME InputInv PROVE I!InputLaneSafe
    BY DEF InputLaneSafe
  <2>1. I!TypeOK
    BY DEF InputInv, InputTypes, I!TypeOK
  <2>2. DOMAIN ilReceived = 1 .. Len(ilReceived)
    BY DEF InputInv, InputTypes
  <2>3. I!KeysAreLossless
    BY <2>2 DEF InputInv, InputTypes, I!KeysAreLossless
  <2> QED BY <2>1, <2>3 DEF I!InputLaneSafe
<1> QED BY <1>1, <1>2, InputStep, PTL DEF Spec

-----------------------------------------------------------------------------
(* Submissions                                                             *)

\* What the journal and the agent know at each stage of an attempt.
AttemptFine(st, row, prompts, accepted) ==
  /\ prompts \in {0, 1}
  /\ st \in {"deferred", "preflight", "prepare"} => row = "none"
  /\ st = "mark" => row = "prepared"
  /\ st = "submit" => row = "sending" /\ prompts = 0
  /\ st \in {"submitted", "remove", "unsaved"} => row = "sending" /\ (accepted => prompts = 1)
  /\ st \in {"remove", "unsaved"} => accepted
  /\ row \in {"none", "prepared", "cancelled"} => prompts = 0
  /\ row = "accepted" => prompts = 1

SubmissionTypes ==
  /\ suBoard \in [SuThoughts -> [version : Nat, state : {"live", "removed"}]]
  /\ suEdits \in {"saved", "pending", "failed"}
  /\ DOMAIN suChooser \subseteq SuThoughts
  /\ suStage \in [SuAttempts -> S!Stages]
  /\ DOMAIN suIntent = SuAttempts /\ \A a \in SuAttempts : S!Sources(a) \subseteq SuThoughts
  /\ suReceipt \in [SuAttempts -> BOOLEAN]
  /\ suLocked \subseteq SuThoughts
  /\ suRows \in [SuAttempts -> S!RowStates]
  /\ suActive \in [SuThoughts -> SuAttempts \cup {"none"}]
  /\ suPrompted \in [SuAttempts -> Nat]

AttemptsFine ==
  \A a \in SuAttempts : AttemptFine(suStage[a], suRows[a], suPrompted[a], suReceipt[a])

\* No thought is a source of two submissions under way.
SourcesApart ==
  \A a, b \in SuAttempts :
    a # b /\ suStage[a] # "idle" /\ suStage[b] # "idle" => S!Sources(a) \cap S!Sources(b) = {}

SubmissionInv ==
  SubmissionTypes /\ AttemptsFine /\ S!SourcesHeld /\ SourcesApart /\ S!RemovedWasAccepted

LEMMA SubmissionInit == ASSUME S!Init PROVE SubmissionInv
<1>1. SubmissionTypes
  BY SubmissionAssumption DEF S!Init, SubmissionTypes, S!Stages, S!RowStates, S!None, S!NoIntent, S!Sources
<1>2. AttemptsFine
  BY DEF S!Init, AttemptsFine, AttemptFine, S!None
<1>3. S!SourcesHeld /\ SourcesApart
  BY DEF S!Init, S!SourcesHeld, SourcesApart
<1>4. S!RemovedWasAccepted
  BY DEF S!Init, S!RemovedWasAccepted
<1> QED BY <1>1, <1>2, <1>3, <1>4 DEF SubmissionInv

\* The stages after an acknowledgement: a deferred submission starts, is given up, or waits.
LEMMA DeferredEffect ==
  ASSUME SubmissionTypes, NEW e, NEW st \in [SuAttempts -> S!Stages],
         \A b \in SuAttempts : suStage[b] = "deferred" => st[b] = "deferred"
  PROVE  /\ S!DeferredSettled(e, st) \in [SuAttempts -> S!Stages]
         /\ \A b \in SuAttempts :
              \/ S!DeferredSettled(e, st)[b] = st[b]
              \/ suStage[b] = "deferred" /\ S!DeferredSettled(e, st)[b] \in {"preflight", "idle"}
         /\ \A t \in S!DeferredLocks(e, st) :
              \E b \in SuAttempts : t \in S!Sources(b) /\ suStage[b] = "deferred"
                                    /\ S!DeferredSettled(e, st)[b] = "idle"
<1>1. S!DeferredSettled(e, st) \in [SuAttempts -> S!Stages]
  BY DEF S!DeferredSettled, S!Stages
<1>2. ASSUME NEW b \in SuAttempts
      PROVE  \/ S!DeferredSettled(e, st)[b] = st[b]
             \/ suStage[b] = "deferred" /\ S!DeferredSettled(e, st)[b] \in {"preflight", "idle"}
  BY DEF S!DeferredSettled, S!Deferred
<1>3. ASSUME NEW t \in S!DeferredLocks(e, st)
      PROVE  \E b \in SuAttempts : t \in S!Sources(b) /\ suStage[b] = "deferred"
                                   /\ S!DeferredSettled(e, st)[b] = "idle"
  <2>1. S!Durability(e, st) = "failed"
    BY <1>3 DEF S!DeferredLocks
  <2>2. PICK b \in S!Deferred : t \in S!Sources(b)
    BY <1>3, <2>1 DEF S!DeferredLocks
  <2>3. b \in SuAttempts /\ suStage[b] = "deferred"
    BY <2>2 DEF S!Deferred
  <2>4. S!DeferredSettled(e, st)[b] = "idle"
    BY <2>1, <2>2, <2>3 DEF S!DeferredSettled
  <2> QED BY <2>2, <2>3, <2>4
<1> QED BY <1>1, <1>2, <1>3

\* A step that starts no attempt, changes no source and no thought: what is let go belongs
\* to attempts that end.
LEMMA KeptSources ==
  ASSUME SubmissionInv, UNCHANGED <<suBoard, suIntent>>, suStage' \in [SuAttempts -> S!Stages],
         \A b \in SuAttempts : suStage[b] = "idle" => suStage'[b] = "idle",
         suLocked' \subseteq suLocked,
         \A t \in suLocked \ suLocked' : \E b \in SuAttempts :
            t \in S!Sources(b) /\ suStage[b] # "idle" /\ suStage'[b] = "idle"
  PROVE  S!SourcesHeld' /\ SourcesApart'
<1>0. UNCHANGED suBoard /\ UNCHANGED suIntent
  OBVIOUS
<1>1. \A b \in SuAttempts : S!Sources(b)' = S!Sources(b)
  BY <1>0 DEF S!Sources
<1>2. SourcesApart'
  BY <1>1 DEF SourcesApart, SubmissionInv
<1>3. ASSUME NEW b \in SuAttempts, suStage'[b] # "idle"
      PROVE  S!Sources(b)' \subseteq suLocked' /\ S!Current(suIntent[b].sources)'
  <2>1. suStage[b] # "idle" /\ S!Sources(b) \subseteq suLocked /\ S!Current(suIntent[b].sources)
    BY <1>3 DEF SubmissionInv, S!SourcesHeld
  <2>2. ASSUME NEW t \in S!Sources(b), t \notin suLocked' PROVE FALSE
    <3>1. PICK d \in SuAttempts : t \in S!Sources(d) /\ suStage[d] # "idle" /\ suStage'[d] = "idle"
      BY <2>1, <2>2
    <3>2. d # b
      BY <1>3, <3>1
    <3> QED BY <2>1, <2>2, <3>1, <3>2 DEF SubmissionInv, SourcesApart
  <2>3. S!Current(suIntent[b].sources)'
    BY <1>0, <2>1 DEF S!Current
  <2> QED BY <1>1, <2>2, <2>3
<1>4. S!SourcesHeld'
  BY <1>3 DEF S!SourcesHeld
<1> QED BY <1>2, <1>4

\* What was removed stays accounted for as long as accepted rows and their sources stay.
LEMMA RemovedKept ==
  ASSUME SubmissionInv, UNCHANGED suBoard,
         \A b \in SuAttempts : suRows[b] = "accepted" =>
            suRows'[b] = "accepted" /\ suIntent'[b] = suIntent[b]
  PROVE  S!RemovedWasAccepted'
<1> SUFFICES ASSUME NEW t \in SuThoughts, suBoard'[t].state = "removed"
             PROVE  \E a \in SuAttempts : /\ suRows'[a] = "accepted"
                                          /\ t \in S!Sources(a)'
                                          /\ suIntent'[a].sources[t] = suBoard'[t].version
  BY DEF S!RemovedWasAccepted
<1>1. PICK a \in SuAttempts : /\ suRows[a] = "accepted"
                              /\ t \in S!Sources(a)
                              /\ suIntent[a].sources[t] = suBoard[t].version
  BY DEF SubmissionInv, S!RemovedWasAccepted
<1> QED BY <1>1 DEF S!Sources

\* One attempt under way moves on, or ends and lets its sources go.
LEMMA AttemptMoves ==
  ASSUME SubmissionInv, NEW a \in SuAttempts, NEW st \in S!Stages,
         UNCHANGED <<suBoard, suEdits, suChooser, suIntent>>,
         suStage[a] # "idle", suStage' = [suStage EXCEPT ![a] = st],
         suLocked' = suLocked \/ (st = "idle" /\ suLocked' = suLocked \ S!Sources(a)),
         suRows' \in [SuAttempts -> S!RowStates],
         suActive' \in [SuThoughts -> SuAttempts \cup {"none"}],
         suPrompted' \in [SuAttempts -> Nat], suReceipt' \in [SuAttempts -> BOOLEAN],
         \A b \in SuAttempts \ {a} :
            suRows'[b] = suRows[b] /\ suPrompted'[b] = suPrompted[b] /\ suReceipt'[b] = suReceipt[b],
         AttemptFine(st, suRows'[a], suPrompted'[a], suReceipt'[a])
  PROVE  SubmissionInv'
<1>0. SubmissionTypes /\ AttemptsFine /\ suRows[a] # "accepted"
  BY DEF SubmissionInv, AttemptsFine, AttemptFine, SubmissionTypes, S!Stages
<1>1. suStage' \in [SuAttempts -> S!Stages] /\ suStage'[a] = st
      /\ \A b \in SuAttempts \ {a} : suStage'[b] = suStage[b]
  BY <1>0 DEF SubmissionTypes
<1>2. SubmissionTypes'
  BY <1>0, <1>1 DEF SubmissionTypes, S!Sources
<1>3. ASSUME NEW b \in SuAttempts
      PROVE  AttemptFine(suStage'[b], suRows'[b], suPrompted'[b], suReceipt'[b])
  BY <1>0, <1>1 DEF AttemptsFine
<1>4. S!SourcesHeld' /\ SourcesApart'
  <2>1. \A b \in SuAttempts : suStage[b] = "idle" => suStage'[b] = "idle"
    BY <1>1
  <2>2. suLocked' \subseteq suLocked
    OBVIOUS
  <2>3. \A t \in suLocked \ suLocked' : \E b \in SuAttempts :
            t \in S!Sources(b) /\ suStage[b] # "idle" /\ suStage'[b] = "idle"
    BY <1>1
  <2> QED BY <1>1, <2>1, <2>2, <2>3, KeptSources
<1>5. S!RemovedWasAccepted'
  BY <1>0, RemovedKept
<1>6. AttemptsFine'
  BY <1>3 DEF AttemptsFine
<1> QED BY <1>2, <1>4, <1>5, <1>6 DEF SubmissionInv

LEMMA SubmissionWork ==
  ASSUME SubmissionInv, NEW a \in SuAttempts,
         S!CompletePreflight(a) \/ S!Prepare(a) \/ S!MarkSending(a) \/ S!Submit(a)
           \/ S!FinishKept(a) \/ S!StageRemoval(a)
  PROVE  SubmissionInv'
<1>0. /\ SubmissionTypes
      /\ AttemptFine(suStage[a], suRows[a], suPrompted[a], suReceipt[a])
      /\ suStage[a] \in S!Stages /\ suRows[a] \in S!RowStates /\ suReceipt[a] \in BOOLEAN
      /\ suPrompted[a] \in Nat
  BY DEF SubmissionInv, AttemptsFine, SubmissionTypes
<1>1. CASE S!CompletePreflight(a)
  <2>1. UNCHANGED <<suBoard, suEdits, suChooser, suIntent, suRows, suActive, suPrompted, suReceipt>>
        /\ suStage[a] = "preflight"
    BY <1>1 DEF S!CompletePreflight, S!journal
  <2>2. \/ suStage' = [suStage EXCEPT ![a] = "prepare"] /\ suLocked' = suLocked
        \/ suStage' = [suStage EXCEPT ![a] = "idle"] /\ suLocked' = suLocked \ S!Sources(a)
    BY <1>1 DEF S!CompletePreflight, S!Release
  <2>3. /\ AttemptFine("prepare", suRows[a], suPrompted[a], suReceipt[a])
        /\ AttemptFine("idle", suRows[a], suPrompted[a], suReceipt[a])
    BY <1>0, <2>1 DEF AttemptFine
  <2>4. "prepare" \in S!Stages /\ "idle" \in S!Stages
    BY DEF S!Stages
  <2> QED BY <1>0, <2>1, <2>2, <2>3, <2>4, AttemptMoves DEF SubmissionTypes
<1>2. CASE S!Prepare(a)
  <2>1. UNCHANGED <<suBoard, suEdits, suChooser, suIntent, suPrompted, suReceipt>>
        /\ suStage[a] = "prepare"
    BY <1>2 DEF S!Prepare
  <2>2. \/ /\ suStage' = [suStage EXCEPT ![a] = "idle"] /\ suLocked' = suLocked \ S!Sources(a)
           /\ UNCHANGED <<suRows, suActive>>
        \/ /\ suStage' = [suStage EXCEPT ![a] = "mark"] /\ suLocked' = suLocked
           /\ suRows' = [suRows EXCEPT ![a] = "prepared"]
           /\ suActive' = [t \in SuThoughts |-> IF t \in S!Sources(a) THEN a ELSE suActive[t]]
    BY <1>2 DEF S!Prepare, S!NotStarted, S!Release, S!journal
  <2>3. /\ AttemptFine("mark", "prepared", suPrompted[a], suReceipt[a])
        /\ AttemptFine("idle", suRows[a], suPrompted[a], suReceipt[a])
    BY <1>0, <2>1 DEF AttemptFine
  <2>4. "mark" \in S!Stages /\ "idle" \in S!Stages /\ "prepared" \in S!RowStates
    BY DEF S!Stages, S!RowStates
  <2>5. CASE suStage' = [suStage EXCEPT ![a] = "idle"] /\ suLocked' = suLocked \ S!Sources(a)
             /\ UNCHANGED <<suRows, suActive>>
    BY <1>0, <2>1, <2>3, <2>4, <2>5, AttemptMoves DEF SubmissionTypes
  <2>6. CASE /\ suStage' = [suStage EXCEPT ![a] = "mark"] /\ suLocked' = suLocked
             /\ suRows' = [suRows EXCEPT ![a] = "prepared"]
             /\ suActive' = [t \in SuThoughts |-> IF t \in S!Sources(a) THEN a ELSE suActive[t]]
    <3>1. suActive' \in [SuThoughts -> SuAttempts \cup {"none"}]
      BY <1>0, <2>6 DEF SubmissionTypes
    <3>2. suRows' \in [SuAttempts -> S!RowStates] /\ suRows'[a] = "prepared"
          /\ \A b \in SuAttempts \ {a} : suRows'[b] = suRows[b]
      BY <1>0, <2>4, <2>6 DEF SubmissionTypes
    <3> QED BY <1>0, <2>1, <2>3, <2>4, <2>6, <3>1, <3>2, AttemptMoves DEF SubmissionTypes
  <2> QED BY <2>2, <2>5, <2>6
<1>3. CASE S!MarkSending(a)
  <2>1. UNCHANGED <<suBoard, suEdits, suChooser, suIntent, suPrompted, suReceipt, suActive>>
        /\ suStage[a] = "mark"
    BY <1>3 DEF S!MarkSending, S!NotStarted, S!journal
  <2>2. \/ /\ suStage' = [suStage EXCEPT ![a] = "idle"] /\ suLocked' = suLocked \ S!Sources(a)
           /\ UNCHANGED suRows
        \/ /\ suStage' = [suStage EXCEPT ![a] = "submit"] /\ suLocked' = suLocked
           /\ suRows' = [suRows EXCEPT ![a] = "sending"]
    BY <1>3 DEF S!MarkSending, S!NotStarted, S!Release, S!journal
  <2>3. /\ AttemptFine("submit", "sending", suPrompted[a], suReceipt[a])
        /\ AttemptFine("idle", suRows[a], suPrompted[a], suReceipt[a])
    BY <1>0, <2>1 DEF AttemptFine
  <2>4. "submit" \in S!Stages /\ "idle" \in S!Stages /\ "sending" \in S!RowStates
    BY DEF S!Stages, S!RowStates
  <2>5. CASE suStage' = [suStage EXCEPT ![a] = "idle"] /\ suLocked' = suLocked \ S!Sources(a)
             /\ UNCHANGED suRows
    BY <1>0, <2>1, <2>3, <2>4, <2>5, AttemptMoves DEF SubmissionTypes
  <2>6. CASE /\ suStage' = [suStage EXCEPT ![a] = "submit"] /\ suLocked' = suLocked
             /\ suRows' = [suRows EXCEPT ![a] = "sending"]
    <3>2. suRows' \in [SuAttempts -> S!RowStates] /\ suRows'[a] = "sending"
          /\ \A b \in SuAttempts \ {a} : suRows'[b] = suRows[b]
      BY <1>0, <2>4, <2>6 DEF SubmissionTypes
    <3> QED BY <1>0, <2>1, <2>3, <2>4, <2>6, <3>2, AttemptMoves DEF SubmissionTypes
  <2> QED BY <2>2, <2>5, <2>6
<1>4. CASE S!Submit(a)
  <2>1. UNCHANGED <<suBoard, suEdits, suChooser, suIntent, suLocked, suRows, suActive>>
        /\ suStage[a] = "submit" /\ suStage' = [suStage EXCEPT ![a] = "submitted"]
    BY <1>4 DEF S!Submit, S!journal
  <2>2. PICK took \in BOOLEAN, accepted \in BOOLEAN :
          /\ accepted => took
          /\ suPrompted' = [suPrompted EXCEPT ![a] = @ + (IF took THEN 1 ELSE 0)]
          /\ suReceipt' = [suReceipt EXCEPT ![a] = accepted]
    BY <1>4 DEF S!Submit
  <2>3. suReceipt' \in [SuAttempts -> BOOLEAN] /\ (suReceipt'[a] <=> accepted)
        /\ \A b \in SuAttempts \ {a} : suReceipt'[b] = suReceipt[b]
    BY <1>0, <2>2 DEF SubmissionTypes
  <2>4. suPrompted' \in [SuAttempts -> Nat] /\ suPrompted'[a] \in {0, 1}
        /\ (took => suPrompted'[a] = 1)
        /\ \A b \in SuAttempts \ {a} : suPrompted'[b] = suPrompted[b]
    <3>1. suPrompted[a] = 0
      BY <1>0, <2>1 DEF AttemptFine
    <3> QED BY <1>0, <2>2, <3>1 DEF SubmissionTypes
  <2>5. AttemptFine("submitted", suRows[a], suPrompted'[a], suReceipt'[a])
    BY <1>0, <2>1, <2>2, <2>3, <2>4 DEF AttemptFine
  <2>6. "submitted" \in S!Stages
    BY DEF S!Stages
  <2> QED BY <1>0, <2>1, <2>3, <2>4, <2>5, <2>6, AttemptMoves DEF SubmissionTypes
<1>5. CASE S!FinishKept(a)
  <2>1. UNCHANGED <<suBoard, suEdits, suChooser, suIntent, suPrompted, suReceipt>>
        /\ suStage[a] = "submitted" /\ suStage' = [suStage EXCEPT ![a] = "idle"]
        /\ suLocked' = suLocked \ S!Sources(a)
    BY <1>5 DEF S!FinishKept, S!Release
  <2>2. \/ UNCHANGED <<suRows, suActive>>
        \/ /\ suRows' = [suRows EXCEPT ![a] = S!Outcome(a)]
           /\ suActive' = S!DeactivateSources(a)
    BY <1>5 DEF S!FinishKept, S!journal
  <2>3. /\ AttemptFine("idle", S!Outcome(a), suPrompted[a], suReceipt[a])
        /\ AttemptFine("idle", suRows[a], suPrompted[a], suReceipt[a])
        /\ S!Outcome(a) \in S!RowStates
    BY <1>0, <2>1 DEF AttemptFine, S!Outcome, S!RowStates
  <2>4. "idle" \in S!Stages
    BY DEF S!Stages
  <2>5. suActive' \in [SuThoughts -> SuAttempts \cup {"none"}]
    BY <1>0, <2>2 DEF SubmissionTypes, S!DeactivateSources, S!None
  <2>6. suRows' \in [SuAttempts -> S!RowStates] /\ suRows'[a] \in {suRows[a], S!Outcome(a)}
          /\ \A b \in SuAttempts \ {a} : suRows'[b] = suRows[b]
    BY <1>0, <2>2, <2>3 DEF SubmissionTypes
  <2> QED BY <1>0, <2>1, <2>3, <2>4, <2>5, <2>6, AttemptMoves DEF SubmissionTypes
<1>6. CASE S!StageRemoval(a)
  <2>1. UNCHANGED <<suBoard, suEdits, suChooser, suIntent, suPrompted, suReceipt, suLocked,
                    suRows, suActive>>
        /\ suStage[a] = "submitted" /\ suStage' = [suStage EXCEPT ![a] = "remove"] /\ suReceipt[a]
    BY <1>6 DEF S!StageRemoval, S!journal, S!ShouldRemove
  <2>2. AttemptFine("remove", suRows[a], suPrompted[a], suReceipt[a])
    BY <1>0, <2>1 DEF AttemptFine
  <2>3. "remove" \in S!Stages
    BY DEF S!Stages
  <2> QED BY <1>0, <2>1, <2>2, <2>3, AttemptMoves DEF SubmissionTypes
<1> QED BY <1>1, <1>2, <1>3, <1>4, <1>5, <1>6

\* An acknowledgement that changes no row: every deferred submission starts, is given up or waits.
LEMMA AcknowledgementKeeps ==
  ASSUME SubmissionInv, NEW e, NEW st \in [SuAttempts -> S!Stages],
         \A b \in SuAttempts :
            \/ st[b] = suStage[b]
            \/ suStage[b] \in {"remove", "unsaved"} /\ st[b] \in {"remove", "unsaved"},
         UNCHANGED <<suBoard, suChooser, suIntent, suRows, suActive, suPrompted, suReceipt>>,
         suEdits' \in {"saved", "pending", "failed"},
         suStage' = S!DeferredSettled(e, st), suLocked' = suLocked \ S!DeferredLocks(e, st)
  PROVE  SubmissionInv'
<1>0. SubmissionTypes /\ AttemptsFine
  BY DEF SubmissionInv
<1>1. /\ suStage' \in [SuAttempts -> S!Stages]
      /\ \A b \in SuAttempts :
           \/ suStage'[b] = st[b]
           \/ suStage[b] = "deferred" /\ suStage'[b] \in {"preflight", "idle"}
      /\ \A t \in S!DeferredLocks(e, st) :
           \E b \in SuAttempts : t \in S!Sources(b) /\ suStage[b] = "deferred" /\ suStage'[b] = "idle"
  BY <1>0, DeferredEffect
<1>2. SubmissionTypes'
  BY <1>0, <1>1 DEF SubmissionTypes, S!Sources
<1>3. ASSUME NEW b \in SuAttempts
      PROVE  AttemptFine(suStage'[b], suRows'[b], suPrompted'[b], suReceipt'[b])
  <2>1. AttemptFine(suStage[b], suRows[b], suPrompted[b], suReceipt[b])
    BY <1>0 DEF AttemptsFine
  <2> QED BY <1>1, <2>1 DEF AttemptFine
<1>4. S!SourcesHeld' /\ SourcesApart'
  <2>1. \A b \in SuAttempts : suStage[b] = "idle" => suStage'[b] = "idle"
    BY <1>1
  <2>2. suLocked' \subseteq suLocked
    OBVIOUS
  <2>3. \A t \in suLocked \ suLocked' : \E b \in SuAttempts :
            t \in S!Sources(b) /\ suStage[b] # "idle" /\ suStage'[b] = "idle"
    BY <1>1
  <2> QED BY <1>1, <2>1, <2>2, <2>3, KeptSources
<1>5. S!RemovedWasAccepted'
  BY <1>0, RemovedKept
<1>6. AttemptsFine'
  BY <1>3 DEF AttemptsFine
<1> QED BY <1>2, <1>4, <1>5, <1>6 DEF SubmissionInv

LEMMA SubmissionSaveSettles == ASSUME SubmissionInv, S!SaveSettles PROVE SubmissionInv'
<1>1. /\ UNCHANGED <<suBoard, suChooser, suIntent, suRows, suActive, suPrompted, suReceipt>>
      /\ suEdits' \in {"saved", "pending", "failed"}
      /\ suStage' = S!DeferredSettled(suEdits', suStage)
      /\ suLocked' = suLocked \ S!DeferredLocks(suEdits', suStage)
  BY DEF S!SaveSettles, S!journal
<1>2. suStage \in [SuAttempts -> S!Stages]
  BY DEF SubmissionInv, SubmissionTypes
<1> QED BY <1>1, <1>2, AcknowledgementKeeps

LEMMA SubmissionFinishRemoved ==
  ASSUME SubmissionInv, NEW a \in SuAttempts, S!FinishRemoved(a) PROVE SubmissionInv'
<1>0. /\ SubmissionTypes /\ AttemptsFine /\ SourcesApart /\ S!SourcesHeld
      /\ AttemptFine(suStage[a], suRows[a], suPrompted[a], suReceipt[a])
  BY DEF SubmissionInv, AttemptsFine
<1>1. UNCHANGED <<suEdits, suChooser, suIntent, suReceipt, suPrompted>> /\ suStage[a] = "remove"
      /\ suEdits \in {"saved", "pending", "failed"}
  BY <1>0 DEF S!FinishRemoved, SubmissionTypes
<1>2. CASE /\ suStage' = S!DeferredSettled(suEdits, [suStage EXCEPT ![a] = "unsaved"])
           /\ suLocked' = suLocked \ S!DeferredLocks(suEdits, [suStage EXCEPT ![a] = "unsaved"])
           /\ UNCHANGED <<suBoard, suRows, suActive>>
  <2> DEFINE st == [suStage EXCEPT ![a] = "unsaved"]
  <2>1. st \in [SuAttempts -> S!Stages] /\ st[a] = "unsaved"
        /\ \A b \in SuAttempts \ {a} : st[b] = suStage[b]
    BY <1>0 DEF SubmissionTypes, S!Stages
  <2>2. \A b \in SuAttempts :
            \/ st[b] = suStage[b]
            \/ suStage[b] \in {"remove", "unsaved"} /\ st[b] \in {"remove", "unsaved"}
    BY <1>1, <2>1
  <2> HIDE DEF st
  <2>3. suStage' = S!DeferredSettled(suEdits, st) /\ suLocked' = suLocked \ S!DeferredLocks(suEdits, st)
    BY <1>2 DEF st
  <2> QED BY <1>1, <1>2, <2>1, <2>2, <2>3, AcknowledgementKeeps
<1>3. CASE /\ suStage' = S!DeferredSettled(suEdits, [suStage EXCEPT ![a] = "idle"])
           /\ suEdits = "saved"
           /\ suLocked' = suLocked \ S!Sources(a)
           /\ suRows' = [suRows EXCEPT ![a] = S!Outcome(a)]
           /\ suActive' = S!DeactivateSources(a)
           /\ suBoard' = [t \in SuThoughts |->
                            IF t \in S!Sources(a) THEN [suBoard[t] EXCEPT !.state = "removed"] ELSE suBoard[t]]
  <2> DEFINE st == [suStage EXCEPT ![a] = "idle"]
  <2>1. st \in [SuAttempts -> S!Stages] /\ st[a] = "idle"
        /\ \A b \in SuAttempts \ {a} : st[b] = suStage[b]
    BY <1>0 DEF SubmissionTypes, S!Stages
  <2>2. \A b \in SuAttempts : suStage[b] = "deferred" => st[b] = "deferred"
    BY <1>1, <2>1
  <2> HIDE DEF st
  <2>3. suStage' = S!DeferredSettled(suEdits, st)
    BY <1>3 DEF st
  <2>4. /\ suStage' \in [SuAttempts -> S!Stages]
        /\ \A b \in SuAttempts :
             \/ suStage'[b] = st[b]
             \/ suStage[b] = "deferred" /\ suStage'[b] \in {"preflight", "idle"}
    BY <1>0, <2>1, <2>2, <2>3, DeferredEffect
  <2>5. suRows' \in [SuAttempts -> S!RowStates] /\ suRows'[a] = "accepted"
        /\ \A b \in SuAttempts \ {a} : suRows'[b] = suRows[b]
    <3>1. S!Outcome(a) = "accepted"
      BY <1>0, <1>1 DEF AttemptFine, S!Outcome
    <3> QED BY <1>0, <1>3, <3>1 DEF SubmissionTypes, S!RowStates
  <2>6. suActive' \in [SuThoughts -> SuAttempts \cup {"none"}]
    BY <1>0, <1>3 DEF SubmissionTypes, S!DeactivateSources, S!None
  <2>7. /\ suBoard' \in [SuThoughts -> [version : Nat, state : {"live", "removed"}]]
        /\ \A t \in SuThoughts : suBoard'[t].version = suBoard[t].version
        /\ \A t \in SuThoughts \ S!Sources(a) : suBoard'[t] = suBoard[t]
    BY <1>0, <1>3 DEF SubmissionTypes
  <2>8. \A b \in SuAttempts : S!Sources(b)' = S!Sources(b)
    BY <1>1 DEF S!Sources
  <2>9. SubmissionTypes'
    <3>1. suLocked' \subseteq SuThoughts
      BY <1>0, <1>3 DEF SubmissionTypes
    <3>2. \A b \in SuAttempts : S!Sources(b)' \subseteq SuThoughts
      BY <1>0, <2>8 DEF SubmissionTypes
    <3> QED BY <1>0, <1>1, <2>4, <2>5, <2>6, <2>7, <3>1, <3>2 DEF SubmissionTypes
  <2>10. ASSUME NEW b \in SuAttempts
         PROVE  AttemptFine(suStage'[b], suRows'[b], suPrompted'[b], suReceipt'[b])
    <3>1. AttemptFine(suStage[b], suRows[b], suPrompted[b], suReceipt[b])
      BY <1>0 DEF AttemptsFine
    <3>2. CASE b = a
      <4>1. suStage'[a] = "idle" /\ suPrompted[a] = 1
        BY <1>0, <1>1, <2>1, <2>4 DEF AttemptFine
      <4> QED BY <1>1, <2>5, <3>2, <4>1 DEF AttemptFine
    <3>3. CASE b # a
      BY <1>1, <2>1, <2>4, <2>5, <3>1, <3>3 DEF AttemptFine
    <3> QED BY <3>2, <3>3
  <2>11. SourcesApart'
    BY <1>0, <2>1, <2>4, <2>8 DEF SourcesApart
  <2>12. ASSUME NEW b \in SuAttempts, suStage'[b] # "idle"
         PROVE  S!Sources(b)' \subseteq suLocked' /\ S!Current(suIntent[b].sources)'
    <3>1. b # a /\ suStage[b] # "idle"
      BY <1>1, <2>1, <2>4, <2>12
    <3>2. S!Sources(b) \subseteq suLocked /\ S!Current(suIntent[b].sources)
          /\ S!Sources(a) \cap S!Sources(b) = {} /\ S!Sources(b) \subseteq SuThoughts
      BY <1>0, <1>1, <3>1 DEF S!SourcesHeld, SourcesApart, SubmissionTypes
    <3>3. S!Current(suIntent[b].sources)'
      <4>1. \A t \in S!Sources(b) : suBoard'[t] = suBoard[t]
        BY <2>7, <3>2
      <4> QED BY <1>1, <3>2, <4>1 DEF S!Current, S!Sources
    <3> QED BY <1>3, <2>8, <3>2, <3>3
  <2>13. ASSUME NEW t \in SuThoughts, suBoard'[t].state = "removed"
         PROVE  \E b \in SuAttempts : /\ suRows'[b] = "accepted"
                                      /\ t \in S!Sources(b)'
                                      /\ suIntent'[b].sources[t] = suBoard'[t].version
    <3>1. CASE t \in S!Sources(a)
      <4>1. suIntent[a].sources[t] = suBoard[t].version
        <5>1. S!Current(suIntent[a].sources)
          BY <1>0, <1>1 DEF S!SourcesHeld
        <5>2. suBoard[t] = [version |-> suIntent[a].sources[t], state |-> "live"]
          BY <3>1, <5>1 DEF S!Current, S!Sources
        <5> QED BY <5>2
      <4> QED BY <1>1, <2>5, <2>7, <2>8, <3>1, <4>1
    <3>2. CASE t \notin S!Sources(a)
      <4>1. suBoard'[t] = suBoard[t]
        BY <2>7, <3>2
      <4>2. PICK b \in SuAttempts : /\ suRows[b] = "accepted"
                                    /\ t \in S!Sources(b)
                                    /\ suIntent[b].sources[t] = suBoard[t].version
        BY <2>13, <4>1 DEF SubmissionInv, S!RemovedWasAccepted
      <4> QED BY <1>1, <2>5, <2>8, <4>1, <4>2
    <3> QED BY <3>1, <3>2
  <2>14. AttemptsFine'
    BY <2>10 DEF AttemptsFine
  <2>15. S!SourcesHeld'
    BY <1>1, <2>12 DEF S!SourcesHeld
  <2>16. S!RemovedWasAccepted'
    BY <2>13 DEF S!RemovedWasAccepted
  <2> QED BY <2>9, <2>11, <2>14, <2>15, <2>16 DEF SubmissionInv
<1> QED BY <1>2, <1>3 DEF S!FinishRemoved, S!Release, S!journal

LEMMA SubmissionQueue ==
  ASSUME SubmissionInv, NEW a \in SuAttempts, NEW sources, NEW remove \in BOOLEAN,
         DOMAIN sources \subseteq SuThoughts, S!QueueSubmission(a, sources, remove),
         DOMAIN suChooser' \subseteq SuThoughts
  PROVE  SubmissionInv'
<1>0. SubmissionTypes /\ AttemptsFine /\ SourcesApart /\ S!SourcesHeld
  BY DEF SubmissionInv
<1> DEFINE st == IF S!durability = "durable" THEN "preflight" ELSE "deferred"
<1>1. /\ UNCHANGED <<suBoard, suEdits, suReceipt, suRows, suActive, suPrompted>>
      /\ suStage[a] = "idle" /\ suRows[a] = "none" /\ S!Current(sources)
      /\ DOMAIN sources \cap suLocked = {}
      /\ suIntent' = [suIntent EXCEPT ![a] = [sources |-> sources, remove |-> remove]]
      /\ suLocked' = suLocked \cup DOMAIN sources
      /\ suStage' = [suStage EXCEPT ![a] = st]
  BY DEF S!QueueSubmission, S!BeginSubmission, S!journal, S!None
<1>2. st \in S!Stages /\ st \in {"preflight", "deferred"}
  BY DEF S!Stages
<1> HIDE DEF st
<1>3. /\ DOMAIN suIntent' = SuAttempts /\ suIntent'[a].sources = sources
      /\ \A b \in SuAttempts \ {a} : suIntent'[b] = suIntent[b]
  BY <1>0, <1>1 DEF SubmissionTypes
<1>4. /\ suStage' \in [SuAttempts -> S!Stages] /\ suStage'[a] = st
      /\ \A b \in SuAttempts \ {a} : suStage'[b] = suStage[b]
  BY <1>0, <1>1, <1>2 DEF SubmissionTypes
<1>5. S!Sources(a)' = DOMAIN sources /\ \A b \in SuAttempts \ {a} : S!Sources(b)' = S!Sources(b)
  BY <1>3 DEF S!Sources
<1>6. SubmissionTypes'
  BY <1>0, <1>1, <1>3, <1>4, <1>5 DEF SubmissionTypes
<1>7. AttemptsFine'
  <2>1. ASSUME NEW b \in SuAttempts
        PROVE  AttemptFine(suStage'[b], suRows'[b], suPrompted'[b], suReceipt'[b])
    <3>1. AttemptFine(suStage[b], suRows[b], suPrompted[b], suReceipt[b])
      BY <1>0 DEF AttemptsFine
    <3> QED BY <1>1, <1>2, <1>4, <3>1 DEF AttemptFine
  <2> QED BY <2>1 DEF AttemptsFine
<1>8. SourcesApart'
  BY <1>0, <1>1, <1>4, <1>5 DEF SourcesApart, S!SourcesHeld
<1>9. ASSUME NEW b \in SuAttempts, suStage'[b] # "idle"
      PROVE  S!Sources(b)' \subseteq suLocked' /\ S!Current(suIntent[b].sources)'
  <2>1. CASE b = a
    BY <1>1, <1>3, <1>5, <2>1 DEF S!Current
  <2>2. CASE b # a
    BY <1>0, <1>1, <1>3, <1>4, <1>5, <1>9, <2>2 DEF S!Current, S!SourcesHeld
  <2> QED BY <2>1, <2>2
<1>10. S!SourcesHeld'
  BY <1>9 DEF S!SourcesHeld
<1>11. S!RemovedWasAccepted'
  BY <1>1, <1>3, RemovedKept
<1> QED BY <1>6, <1>7, <1>8, <1>10, <1>11 DEF SubmissionInv

LEMMA SubmissionRetry == ASSUME SubmissionInv, S!Retry PROVE SubmissionInv'
<1>0. SubmissionTypes /\ AttemptsFine
  BY DEF SubmissionInv
<1>1. /\ UNCHANGED <<suBoard, suChooser, suIntent, suLocked, suRows, suActive, suPrompted, suReceipt>>
      /\ suEdits' \in {suEdits, "pending"}
      /\ suStage' = [a \in SuAttempts |-> IF suStage[a] = "unsaved" THEN "remove" ELSE suStage[a]]
  BY DEF S!Retry, S!journal
<1>2. suStage' \in [SuAttempts -> S!Stages]
  BY <1>0, <1>1 DEF SubmissionTypes, S!Stages
<1>3. SubmissionTypes'
  BY <1>0, <1>1, <1>2 DEF SubmissionTypes, S!Sources
<1>4. ASSUME NEW b \in SuAttempts
      PROVE  AttemptFine(suStage'[b], suRows'[b], suPrompted'[b], suReceipt'[b])
  <2>1. AttemptFine(suStage[b], suRows[b], suPrompted[b], suReceipt[b])
    BY <1>0 DEF AttemptsFine
  <2> QED BY <1>1, <2>1 DEF AttemptFine
<1>5. S!SourcesHeld' /\ SourcesApart'
  <2>1. \A b \in SuAttempts : suStage[b] = "idle" => suStage'[b] = "idle"
    BY <1>1
  <2> QED BY <1>1, <1>2, <2>1, KeptSources
<1>6. S!RemovedWasAccepted'
  BY <1>1, RemovedKept
<1>7. AttemptsFine'
  BY <1>4 DEF AttemptsFine
<1> QED BY <1>3, <1>5, <1>6, <1>7 DEF SubmissionInv

LEMMA SubmissionEdit == ASSUME SubmissionInv, NEW t \in SuThoughts, S!Edit(t) PROVE SubmissionInv'
<1>0. SubmissionTypes /\ AttemptsFine /\ SourcesApart /\ S!SourcesHeld
  BY DEF SubmissionInv
<1>1. /\ UNCHANGED <<suChooser, suStage, suIntent, suLocked, suRows, suActive, suPrompted, suReceipt>>
      /\ suEdits' \in {"failed", "pending"} /\ t \notin suLocked /\ suBoard[t].state = "live"
      /\ suBoard' = [suBoard EXCEPT ![t].version = @ + 1]
  BY DEF S!Edit, S!journal
<1>2. /\ suBoard' \in [SuThoughts -> [version : Nat, state : {"live", "removed"}]]
      /\ suBoard'[t].state = "live"
      /\ \A u \in SuThoughts \ {t} : suBoard'[u] = suBoard[u]
  BY <1>0, <1>1 DEF SubmissionTypes
<1>3. \A b \in SuAttempts : S!Sources(b)' = S!Sources(b)
  BY <1>1 DEF S!Sources
<1>4. SubmissionTypes'
  BY <1>0, <1>1, <1>2, <1>3 DEF SubmissionTypes
<1>5. AttemptsFine' /\ SourcesApart'
  BY <1>0, <1>1, <1>3 DEF AttemptsFine, SourcesApart
<1>6. ASSUME NEW b \in SuAttempts, suStage'[b] # "idle"
      PROVE  S!Sources(b)' \subseteq suLocked' /\ S!Current(suIntent[b].sources)'
  <2>1. S!Sources(b) \subseteq suLocked /\ S!Current(suIntent[b].sources)
        /\ S!Sources(b) \subseteq SuThoughts
    BY <1>0, <1>1, <1>6 DEF S!SourcesHeld, SubmissionTypes
  <2>2. \A u \in S!Sources(b) : suBoard'[u] = suBoard[u]
    BY <1>1, <1>2, <2>1
  <2>3. S!Current(suIntent[b].sources)'
    BY <1>1, <2>1, <2>2 DEF S!Current, S!Sources
  <2> QED BY <1>1, <1>3, <2>1, <2>3
<1>7. S!SourcesHeld'
  BY <1>1, <1>6 DEF S!SourcesHeld
<1>8. S!RemovedWasAccepted'
  <2>1. ASSUME NEW u \in SuThoughts, suBoard'[u].state = "removed"
        PROVE  \E a \in SuAttempts : /\ suRows'[a] = "accepted"
                                     /\ u \in S!Sources(a)'
                                     /\ suIntent'[a].sources[u] = suBoard'[u].version
    <3>1. u # t /\ suBoard'[u] = suBoard[u]
      BY <1>2, <2>1
    <3>2. PICK a \in SuAttempts : /\ suRows[a] = "accepted"
                                  /\ u \in S!Sources(a)
                                  /\ suIntent[a].sources[u] = suBoard[u].version
      BY <2>1, <3>1 DEF SubmissionInv, S!RemovedWasAccepted
    <3> QED BY <1>1, <1>3, <3>1, <3>2
  <2> QED BY <2>1 DEF S!RemovedWasAccepted
<1> QED BY <1>4, <1>5, <1>7, <1>8 DEF SubmissionInv

LEMMA SubmissionCrash == ASSUME SubmissionInv, S!CrashAndReopen PROVE SubmissionInv'
<1>0. SubmissionTypes /\ AttemptsFine
  BY DEF SubmissionInv
<1>1. /\ UNCHANGED <<suBoard, suIntent, suPrompted, suReceipt>>
      /\ suEdits' = "saved" /\ suChooser' = <<>> /\ suLocked' = {}
      /\ suStage' = [a \in SuAttempts |-> "idle"]
      /\ suRows' = [a \in SuAttempts |-> S!Recovered(suRows[a])]
      /\ suActive' = [t \in SuThoughts |-> S!None]
  BY DEF S!CrashAndReopen
<1>2. suRows' \in [SuAttempts -> S!RowStates]
  BY <1>0, <1>1 DEF SubmissionTypes, S!RowStates, S!Recovered, S!None
<1>3. DOMAIN suChooser' \subseteq SuThoughts
  BY <1>1
<1>4. SubmissionTypes'
  BY <1>0, <1>1, <1>2, <1>3 DEF SubmissionTypes, S!Sources, S!Stages, S!None
<1>5. ASSUME NEW b \in SuAttempts
      PROVE  AttemptFine(suStage'[b], suRows'[b], suPrompted'[b], suReceipt'[b])
  <2>1. AttemptFine(suStage[b], suRows[b], suPrompted[b], suReceipt[b]) /\ suRows[b] \in S!RowStates
    BY <1>0 DEF AttemptsFine, SubmissionTypes
  <2> QED BY <1>1, <2>1 DEF AttemptFine, S!Recovered, S!RowStates, S!None
<1>6. S!SourcesHeld' /\ SourcesApart'
  BY <1>1 DEF S!SourcesHeld, SourcesApart
<1>7. S!RemovedWasAccepted'
  <2>1. \A b \in SuAttempts : suRows[b] = "accepted" => suRows'[b] = "accepted"
    BY <1>1 DEF S!Recovered
  <2> QED BY <1>1, <2>1, RemovedKept
<1>8. AttemptsFine'
  BY <1>5 DEF AttemptsFine
<1> QED BY <1>4, <1>6, <1>7, <1>8 DEF SubmissionInv

\* The chooser holds no thought of its own: only what it is to deliver.
LEMMA ChooserOnly ==
  ASSUME SubmissionInv, DOMAIN suChooser' \subseteq SuThoughts,
         UNCHANGED <<suBoard, suEdits, suStage, suIntent, suReceipt, suLocked, suRows, suActive, suPrompted>>
  PROVE  SubmissionInv'
<1>1. SubmissionTypes'
  BY DEF SubmissionInv, SubmissionTypes, S!Sources
<1>2. AttemptsFine' /\ SourcesApart'
  BY DEF SubmissionInv, AttemptsFine, SourcesApart, S!Sources
<1>3. S!SourcesHeld'
  BY DEF SubmissionInv, S!SourcesHeld, S!Sources, S!Current
<1>4. S!RemovedWasAccepted'
  BY DEF SubmissionInv, S!RemovedWasAccepted, S!Sources
<1> QED BY <1>1, <1>2, <1>3, <1>4 DEF SubmissionInv

LEMMA SubmissionChooses ==
  ASSUME SubmissionInv,
         \/ \E ids \in SUBSET SuThoughts : S!BeginGlobalDelivery(ids)
         \/ S!CancelGlobalDelivery
         \/ \E a \in SuAttempts, ids \in SUBSET SuThoughts, remove \in BOOLEAN :
              S!DeliverAdjacent(a, ids, remove)
         \/ \E a \in SuAttempts, remove \in BOOLEAN : S!DeliverGlobal(a, remove)
  PROVE  SubmissionInv'
<1>0. DOMAIN suChooser \subseteq SuThoughts /\ DOMAIN <<>> = {}
  BY DEF SubmissionInv, SubmissionTypes
<1>1. ASSUME NEW ids \in SUBSET SuThoughts, S!BeginGlobalDelivery(ids) PROVE SubmissionInv'
  <2>1. DOMAIN suChooser' \subseteq SuThoughts
    BY <1>1 DEF S!BeginGlobalDelivery, S!Contents
  <2> QED BY <1>1, <2>1, ChooserOnly DEF S!BeginGlobalDelivery, S!journal
<1>2. CASE S!CancelGlobalDelivery
  BY <1>0, <1>2, ChooserOnly DEF S!CancelGlobalDelivery, S!journal
<1>3. ASSUME NEW a \in SuAttempts, NEW ids \in SUBSET SuThoughts, NEW remove \in BOOLEAN,
             S!DeliverAdjacent(a, ids, remove)
      PROVE  SubmissionInv'
  <2>1. S!QueueSubmission(a, S!Contents(ids), remove) /\ UNCHANGED suChooser
    BY <1>3 DEF S!DeliverAdjacent
  <2>2. DOMAIN S!Contents(ids) \subseteq SuThoughts
    BY DEF S!Contents
  <2> QED BY <1>0, <2>1, <2>2, SubmissionQueue
<1>4. ASSUME NEW a \in SuAttempts, NEW remove \in BOOLEAN, S!DeliverGlobal(a, remove)
      PROVE  SubmissionInv'
  <2>1. DOMAIN suChooser' \subseteq SuThoughts
    BY <1>0, <1>4 DEF S!DeliverGlobal
  <2>2. CASE S!QueueSubmission(a, suChooser, remove)
    BY <1>0, <2>1, <2>2, SubmissionQueue
  <2>3. CASE UNCHANGED <<suBoard, suEdits, suStage, suIntent, suReceipt, suLocked, suRows,
                         suActive, suPrompted>>
    BY <2>1, <2>3, ChooserOnly
  <2> QED BY <1>4, <2>2, <2>3 DEF S!DeliverGlobal, S!journal
<1> QED BY <1>1, <1>2, <1>3, <1>4

LEMMA SubmissionStep == ASSUME SubmissionInv, [Next]_vars PROVE SubmissionInv'
<1>1. CASE UNCHANGED suVars
  <2>1. DOMAIN suChooser \subseteq SuThoughts
    BY DEF SubmissionInv, SubmissionTypes
  <2> QED BY <1>1, <2>1, ChooserOnly DEF suVars
<1>2. CASE S!Next
  BY <1>2, SubmissionChooses, SubmissionSaveSettles, SubmissionWork, SubmissionFinishRemoved,
     SubmissionRetry, SubmissionEdit, SubmissionCrash DEF S!Next, S!Work
<1> QED BY <1>1, <1>2
       DEF Next, vars, SubmissionNext, LanesNext, InputLaneNext, UpdateConvergenceNext

\* For every set of thoughts, any number of attempts at them and any number of faults: the
\* journal never denies a prompt the agent took, no thought leaves the board unless the agent
\* took it as it was, and the sources of a submission under way are locked and unchanged.
THEOREM PromptsAreAccounted == Spec => []SubmissionSafe
<1>1. Init => SubmissionInv
  BY SubmissionInit DEF Init
<1>2. SubmissionInv => SubmissionSafe
  <2> SUFFICES ASSUME SubmissionInv PROVE S!SubmissionSafe
    BY DEF SubmissionSafe
  <2>1. S!TypeOK
    BY DEF SubmissionInv, SubmissionTypes, S!TypeOK, S!None
  <2>2. ASSUME NEW a \in SuAttempts
        PROVE  /\ suPrompted[a] <= 1
               /\ suPrompted[a] = 1 => suRows[a] \in {"sending", "outcome_unknown", "failed", "accepted"}
               /\ suRows[a] = "accepted" => suPrompted[a] = 1
    <3>1. AttemptFine(suStage[a], suRows[a], suPrompted[a], suReceipt[a]) /\ suRows[a] \in S!RowStates
      BY DEF SubmissionInv, AttemptsFine, SubmissionTypes
    <3> QED BY <3>1 DEF AttemptFine, S!RowStates, S!None
  <2>3. S!JournalIsTruthful
    BY <2>2 DEF S!JournalIsTruthful
  <2> QED BY <2>1, <2>3 DEF SubmissionInv, S!SubmissionSafe
<1> QED BY <1>1, <1>2, SubmissionStep, PTL DEF Spec

-----------------------------------------------------------------------------
(* The lanes at shutdown                                                   *)

LaneRecord ==
  [life : L!Lives, saw : L!Lives, open : BOOLEAN, queue : Seq(L!Request),
   busy : L!Request \cup {"no"}, hung : BOOLEAN, results : 0 .. LaCapacity,
   thread : {"alive", "leaving", "gone"}]

\* A lane closes only after it was told to stop, and its worker leaves only then.
LaneFine(c) ==
  /\ Len(c.queue) <= LaCapacity
  /\ ~c.open => c.life # "running"
  /\ c.thread = "alive" => c.life \in {"running", "stopping"}
  /\ c.thread = "leaving" => c.saw = "stopping"
  /\ c.life # "unexpected"

\* The requests a lane holds, its unread results among them.
Load(c) == Len(c.queue) + (IF c.busy = "ask" THEN 1 ELSE 0) + c.results
Asks(c) == \A i \in 1 .. Len(c.queue) : c.queue[i] = "ask"
Idle(c) == c.queue = <<>> /\ c.busy # "ask"
Stopped(c) == c.life # "running" /\ ~c.open

\* What no step of a worker or of the cleanup undoes.
LaneMoves(c, d) ==
  /\ Stopped(c) => Stopped(d)
  /\ c.thread = "gone" => d.thread = "gone"
  /\ Idle(c) => Idle(d)
  /\ Asks(c) => Asks(d) /\ Load(d) <= Load(c)

LaneTypes ==
  /\ laLane \in [L!Lane -> LaneRecord]
  /\ \A l \in L!Lane : LaneFine(laLane[l])

RunnerTypes ==
  /\ laPending \in [L!Lane -> Nat]
  /\ laPhase \in {"loop", "stop", "restore", "control", "release", "join", "report", "over"}
  /\ laAt \in 1 .. Len(LaOrder) + 1
  /\ laWants \subseteq {"quit", "signal", "stall", "restart"}
  /\ laRan \in {"none", "ok", "error"}
  /\ laDeadline \in {"none", "set", "over"}
  /\ laControl \in {"open", "closing", "quiet", "gone"}
  /\ laCancelled \in BOOLEAN /\ laModes \in BOOLEAN /\ laLeases \in BOOLEAN
  /\ laFailures \subseteq L!Stages
  /\ laOutcome \in {"none", "ok", "error", "replaced"}

\* While the loop runs every request a lane holds is still counted as pending.
WorkOwed ==
  laPhase = "loop" =>
    \A l \in L!Lane : Asks(laLane[l]) /\ Load(laLane[l]) <= laPending[l]

LoopRuns ==
  laPhase = "loop" => /\ laRan = "none"
                      /\ laCancelled => laWants # {} /\ laWants # {"quit", "restart"}

\* A loop that ended well left the persistence worker nothing to do.
SaverSettled == laRan = "ok" => Idle(laLane[LaSaver])

\* The lanes are stopped in their order, all of them before anything is restored.
StoppedInOrder ==
  /\ laPhase = "stop" => \A i \in 1 .. laAt - 1 : Stopped(laLane[LaOrder[i]])
  /\ laPhase \notin {"loop", "stop"} => \A i \in 1 .. Len(LaOrder) : Stopped(laLane[LaOrder[i]])

\* They are joined in their order; one that is not gone is a failure.
JoinedInOrder ==
  /\ laPhase \in {"restore", "control", "release"} => laAt = 1
  /\ laPhase = "join" =>
       \A i \in 1 .. laAt - 1 : laLane[LaOrder[i]].thread = "gone" \/ LaOrder[i] \in laFailures
  /\ laPhase \in {"report", "over"} =>
       \A i \in 1 .. Len(LaOrder) : laLane[LaOrder[i]].thread = "gone" \/ LaOrder[i] \in laFailures

\* Each stage of the cleanup was done or is among the failures.
CleanedInOrder ==
  /\ laPhase \in {"control", "release", "join", "report", "over"} => ~laModes \/ "terminal" \in laFailures
  /\ laPhase \in {"release", "join", "report", "over"} => laControl = "gone" \/ "control" \in laFailures
  /\ laPhase \notin {"join", "report", "over"} => laLeases
  /\ laPhase # "over" /\ "stall" \in laWants => laLeases
  /\ laPhase = "over" => ~laLeases
  /\ laPhase # "over" => laOutcome = "none"
  /\ laPhase = "over" => laFailures = {} \/ laOutcome = "error"

LanesInv ==
  /\ LaneTypes /\ RunnerTypes /\ WorkOwed /\ LoopRuns /\ SaverSettled
  /\ StoppedInOrder /\ JoinedInOrder /\ CleanedInOrder

LEMMA LanesInit == ASSUME L!Init PROVE LanesInv
<1>1. L!NewLane \in LaneRecord /\ LaneFine(L!NewLane) /\ Asks(L!NewLane) /\ Load(L!NewLane) = 0
  BY LanesAssumption DEF L!NewLane, LaneRecord, LaneFine, L!Lives, L!Request, Asks, Load
<1>2. \A l \in L!Lane : laLane[l] = L!NewLane /\ laPending[l] = 0
  BY DEF L!Init
<1>3. LaneTypes
  BY <1>1, <1>2 DEF L!Init, LaneTypes
<1>4. RunnerTypes
  <2>1. Len(LaOrder) \in Nat
    BY LanesAssumption
  <2>2. laPending \in [L!Lane -> Nat] /\ laAt \in 1 .. Len(LaOrder) + 1
    BY <2>1 DEF L!Init
  <2>3. laCancelled \in BOOLEAN /\ laModes \in BOOLEAN /\ laLeases \in BOOLEAN
    BY DEF L!Init
  <2> QED BY <2>2, <2>3 DEF L!Init, RunnerTypes
<1>5. WorkOwed
  BY <1>1, <1>2 DEF WorkOwed
<1>6. LoopRuns /\ SaverSettled /\ StoppedInOrder /\ JoinedInOrder /\ CleanedInOrder
  BY DEF L!Init, LoopRuns, SaverSettled, StoppedInOrder, JoinedInOrder, CleanedInOrder
<1> QED BY <1>3, <1>4, <1>5, <1>6 DEF LanesInv

LEMMA OrderFacts ==
  /\ Len(LaOrder) \in Nat
  /\ \A i \in 1 .. Len(LaOrder) : LaOrder[i] \in L!Lane
  /\ \A l \in L!Lane : \E i \in 1 .. Len(LaOrder) : LaOrder[i] = l
  /\ LaSaver \in L!Lane /\ LaHerdr \in L!Lane /\ LaSaver # LaHerdr
<1>1. DOMAIN LaOrder = 1 .. Len(LaOrder) /\ Len(LaOrder) \in Nat
  BY LanesAssumption
<1> QED BY <1>1, LanesAssumption DEF L!Lane

LEMMA LoadCounts == \A c \in LaneRecord : Load(c) \in Nat
<1> SUFFICES ASSUME NEW c \in LaneRecord PROVE Load(c) \in Nat
  OBVIOUS
<1> DEFINE n == Len(c.queue)
<1> DEFINE b == IF c.busy = "ask" THEN 1 ELSE 0
<1>1. c.queue \in Seq(L!Request) /\ c.results \in 0 .. LaCapacity
  BY DEF LaneRecord
<1>2. n \in Nat /\ b \in Nat /\ c.results \in Nat
  BY <1>1, LanesAssumption
<1>3. Load(c) = n + b + c.results
  BY DEF Load
<1> HIDE DEF n, b
<1> QED BY <1>2, <1>3

LEMMA LaneMovesNot == ASSUME NEW c \in LaneRecord PROVE LaneMoves(c, c)
<1>1. Load(c) \in Nat
  BY LoadCounts
<1> QED BY <1>1 DEF LaneMoves

\* One lane becomes d and the others stay.
LEMMA LaneBecomes ==
  ASSUME LaneTypes, NEW l \in L!Lane, NEW d \in LaneRecord, LaneFine(d), LaneMoves(laLane[l], d),
         laLane' = [laLane EXCEPT ![l] = d]
  PROVE  LaneTypes' /\ \A m \in L!Lane : LaneMoves(laLane[m], laLane'[m])
<1>1. /\ laLane' \in [L!Lane -> LaneRecord] /\ laLane'[l] = d
      /\ \A m \in L!Lane \ {l} : laLane'[m] = laLane[m]
  BY DEF LaneTypes
<1>2. \A m \in L!Lane : LaneFine(laLane'[m])
  BY <1>1 DEF LaneTypes
<1>3. ASSUME NEW m \in L!Lane PROVE LaneMoves(laLane[m], laLane'[m])
  <2>1. CASE m = l
    BY <1>1, <2>1
  <2>2. CASE m # l
    BY <1>1, <2>2, LaneMovesNot DEF LaneTypes
  <2> QED BY <2>1, <2>2
<1>4. LaneTypes'
  BY <1>1, <1>2 DEF LaneTypes
<1> QED BY <1>3, <1>4

\* Lanes that only move on keep what the runner relies on.
LEMMA LanesMove ==
  ASSUME LanesInv, LaneTypes', \A m \in L!Lane : LaneMoves(laLane[m], laLane'[m])
  PROVE  /\ \A i \in 1 .. Len(LaOrder) :
              /\ Stopped(laLane[LaOrder[i]]) => Stopped(laLane'[LaOrder[i]])
              /\ laLane[LaOrder[i]].thread = "gone" => laLane'[LaOrder[i]].thread = "gone"
         /\ Idle(laLane[LaSaver]) => Idle(laLane'[LaSaver])
         /\ \A m \in L!Lane : Asks(laLane[m]) => Asks(laLane'[m]) /\ Load(laLane'[m]) <= Load(laLane[m])
         /\ \A m \in L!Lane : Load(laLane[m]) \in Nat /\ Load(laLane'[m]) \in Nat
<1>2. \A m \in L!Lane : laLane[m] \in LaneRecord /\ laLane'[m] \in LaneRecord
  BY DEF LanesInv, LaneTypes
<1>3. \A m \in L!Lane : Load(laLane[m]) \in Nat /\ Load(laLane'[m]) \in Nat
  BY <1>2, LoadCounts
<1> QED BY <1>3, OrderFacts DEF LaneMoves

\* A step of a worker.
LEMMA WorkerMoves ==
  ASSUME LanesInv, NEW l \in L!Lane, NEW d \in LaneRecord, LaneFine(d), LaneMoves(laLane[l], d),
         laLane' = [laLane EXCEPT ![l] = d],
         UNCHANGED <<laPending, laPhase, laAt, laWants, laRan, laDeadline, laCancelled, laControl,
                     laModes, laLeases, laFailures, laOutcome>>
  PROVE  LanesInv'
<1>1. LaneTypes' /\ \A m \in L!Lane : LaneMoves(laLane[m], laLane'[m])
  BY LaneBecomes DEF LanesInv
<1>2. /\ \A i \in 1 .. Len(LaOrder) :
           /\ Stopped(laLane[LaOrder[i]]) => Stopped(laLane'[LaOrder[i]])
           /\ laLane[LaOrder[i]].thread = "gone" => laLane'[LaOrder[i]].thread = "gone"
      /\ Idle(laLane[LaSaver]) => Idle(laLane'[LaSaver])
      /\ \A m \in L!Lane : Asks(laLane[m]) => Asks(laLane'[m]) /\ Load(laLane'[m]) <= Load(laLane[m])
      /\ \A m \in L!Lane : Load(laLane[m]) \in Nat /\ Load(laLane'[m]) \in Nat
  BY <1>1, LanesMove
<1>3. RunnerTypes' /\ LoopRuns' /\ CleanedInOrder'
  BY DEF LanesInv, RunnerTypes, LoopRuns, CleanedInOrder
<1>4. WorkOwed'
  <2> SUFFICES ASSUME laPhase = "loop", NEW m \in L!Lane
               PROVE  Asks(laLane'[m]) /\ Load(laLane'[m]) <= laPending[m]
    BY DEF WorkOwed
  <2>1. Asks(laLane[m]) /\ Load(laLane[m]) <= laPending[m] /\ laPending[m] \in Nat
    BY DEF LanesInv, WorkOwed, RunnerTypes
  <2>2. Load(laLane'[m]) <= Load(laLane[m]) /\ Load(laLane[m]) \in Nat /\ Load(laLane'[m]) \in Nat
    BY <1>2, <2>1
  <2> HIDE DEF LanesInv
  <2>3. Load(laLane'[m]) <= laPending[m]
    BY <2>1, <2>2
  <2> QED BY <1>2, <2>1, <2>3
<1>5. SaverSettled'
  BY <1>2 DEF LanesInv, SaverSettled
<1>6. laAt \in 1 .. Len(LaOrder) + 1 /\ Len(LaOrder) \in Nat
  BY OrderFacts DEF LanesInv, RunnerTypes
<1>7. StoppedInOrder' /\ JoinedInOrder'
  BY <1>2, <1>6 DEF LanesInv, StoppedInOrder, JoinedInOrder
<1> QED BY <1>1, <1>3, <1>4, <1>5, <1>7 DEF LanesInv

LEMMA LanesServe == ASSUME LanesInv, NEW l \in L!Lane, L!Serve(l) PROVE LanesInv'
<1> DEFINE c == laLane[l]
<1> DEFINE d == [c EXCEPT !.busy = Head(c.queue), !.queue = Tail(c.queue)]
<1>0. laLane \in [L!Lane -> LaneRecord] /\ c \in LaneRecord /\ LaneFine(c)
  BY DEF LanesInv, LaneTypes
<1>1. /\ c.thread = "alive" /\ c.busy = "no" /\ c.queue # <<>>
      /\ laLane' = [laLane EXCEPT ![l] = d]
      /\ UNCHANGED <<laPending, laPhase, laAt, laWants, laRan, laDeadline, laCancelled, laControl,
                     laModes, laLeases, laFailures, laOutcome>>
  BY <1>0 DEF L!Serve, L!runner
<1>2. /\ c.queue \in Seq(L!Request) /\ c.results \in 0 .. LaCapacity /\ Len(c.queue) \in Nat
      /\ Len(c.queue) <= LaCapacity
  BY <1>0 DEF LaneRecord, LaneFine
<1>3. /\ Head(c.queue) \in L!Request /\ Head(c.queue) = c.queue[1] /\ Tail(c.queue) \in Seq(L!Request)
      /\ Len(Tail(c.queue)) = Len(c.queue) - 1 /\ Len(c.queue) > 0
      /\ \A i \in 1 .. Len(Tail(c.queue)) : Tail(c.queue)[i] = c.queue[i + 1]
  BY <1>1, <1>2
<1>4. /\ d.busy = Head(c.queue) /\ d.queue = Tail(c.queue)
      /\ d.life = c.life /\ d.saw = c.saw /\ (d.open <=> c.open) /\ d.results = c.results
      /\ d.thread = c.thread
  BY <1>0 DEF LaneRecord
<1>5. d \in LaneRecord
  BY <1>0, <1>3 DEF LaneRecord
<1> HIDE DEF c, d
<1>6. LaneFine(d)
  <2>1. Len(d.queue) <= LaCapacity
    BY <1>2, <1>3, <1>4, LanesAssumption
  <2> QED BY <1>0, <1>4, <2>1 DEF LaneFine
<1>7. ~Idle(c) /\ (Stopped(c) => Stopped(d))
  BY <1>1, <1>4 DEF Idle, Stopped
<1>8. ASSUME Asks(c) PROVE Asks(d) /\ Load(d) <= Load(c)
  <2>1. Head(c.queue) = "ask"
    BY <1>2, <1>3, <1>8 DEF Asks
  <2>2. Asks(d)
    BY <1>2, <1>3, <1>4, <1>8 DEF Asks
  <2>3. Load(c) = Len(c.queue) + c.results /\ Load(d) = Len(c.queue) - 1 + 1 + c.results
    BY <1>1, <1>2, <1>3, <1>4, <2>1 DEF Load
  <2> QED BY <1>2, <2>2, <2>3
<1>9. LaneMoves(c, d)
  BY <1>1, <1>4, <1>7, <1>8 DEF LaneMoves
<1> QED BY <1>1, <1>5, <1>6, <1>9, WorkerMoves DEF c

\* A lane whose receiver is gone, or whose channel closed, was told to stop.
LEMMA TurnedOff ==
  ASSUME LanesInv, NEW l \in L!Lane, L!Dropped(l) \/ ~laLane[l].open
  PROVE  laLane[l].life # "running"
<1>1. LaneFine(laLane[l])
  BY DEF LanesInv, LaneTypes
<1>2. CASE ~laLane[l].open
  BY <1>1, <1>2 DEF LaneFine
<1>3. CASE L!Dropped(l)
  <2>1. laPhase \in {"join", "report", "over"}
    BY <1>3 DEF L!Dropped
  <2>2. PICK i \in 1 .. Len(LaOrder) : LaOrder[i] = l
    BY OrderFacts
  <2>3. Stopped(laLane[LaOrder[i]])
    BY <2>1 DEF LanesInv, StoppedInOrder
  <2> QED BY <2>2, <2>3 DEF Stopped
<1> QED BY <1>2, <1>3

\* A worker that answers nobody any more leaves.
LEMMA LanesLeave ==
  ASSUME LanesInv, NEW l \in L!Lane, NEW b \in {"no"},
         laLane[l].thread = "alive", L!Dropped(l) \/ ~laLane[l].open,
         laLane' = [laLane EXCEPT ![l] = [laLane[l] EXCEPT !.busy = b, !.thread = "leaving",
                                                           !.saw = laLane[l].life]],
         UNCHANGED <<laPending, laPhase, laAt, laWants, laRan, laDeadline, laCancelled, laControl,
                     laModes, laLeases, laFailures, laOutcome>>
  PROVE  LanesInv'
<1> DEFINE c == laLane[l]
<1> DEFINE d == [c EXCEPT !.busy = b, !.thread = "leaving", !.saw = c.life]
<1>0. laLane \in [L!Lane -> LaneRecord] /\ c \in LaneRecord /\ LaneFine(c)
  BY DEF LanesInv, LaneTypes
<1>1. c.life = "stopping"
  BY <1>0, TurnedOff DEF LaneFine
<1>2. /\ c.queue \in Seq(L!Request) /\ c.results \in 0 .. LaCapacity /\ Len(c.queue) \in Nat
      /\ c.results \in Nat
  BY <1>0, LanesAssumption DEF LaneRecord
<1>4. /\ d.busy = "no" /\ d.queue = c.queue
      /\ d.life = c.life /\ d.saw = c.life /\ (d.open <=> c.open) /\ d.results = c.results
      /\ d.thread = "leaving"
  BY <1>0 DEF LaneRecord
<1>5. d \in LaneRecord
  BY <1>0, <1>1 DEF LaneRecord
<1> HIDE DEF c, d
<1>6. LaneFine(d)
  BY <1>0, <1>1, <1>4 DEF LaneFine
<1>7. /\ Load(d) = Len(c.queue) + 0 + c.results
      /\ Load(c) = Len(c.queue) + 0 + c.results \/ Load(c) = Len(c.queue) + 1 + c.results
  BY <1>4 DEF Load
<1>8. Load(d) <= Load(c)
  BY <1>2, <1>7
<1>9. LaneMoves(c, d)
  BY <1>4, <1>8 DEF LaneMoves, Idle, Stopped, Asks, c
<1> QED BY <1>5, <1>6, <1>9, WorkerMoves DEF c, d

LEMMA LanesAnswer == ASSUME LanesInv, NEW l \in L!Lane, L!Answer(l) PROVE LanesInv'
<1> DEFINE c == laLane[l]
<1>0. laLane \in [L!Lane -> LaneRecord] /\ c \in LaneRecord /\ LaneFine(c)
  BY DEF LanesInv, LaneTypes
<1>1. /\ c.thread = "alive" /\ c.busy # "no"
      /\ UNCHANGED <<laPending, laPhase, laAt, laWants, laRan, laDeadline, laCancelled, laControl,
                     laModes, laLeases, laFailures, laOutcome>>
  BY DEF L!Answer, L!runner
<1>2. /\ c.queue \in Seq(L!Request) /\ c.results \in 0 .. LaCapacity /\ Len(c.queue) \in Nat
      /\ c.results \in Nat
  BY <1>0, LanesAssumption DEF LaneRecord
<1>3. CASE /\ c.busy = "ask" /\ c.results < LaCapacity
           /\ laLane' = [laLane EXCEPT ![l] = [c EXCEPT !.busy = "no", !.hung = FALSE, !.results = c.results + 1]]
  <2> DEFINE d == [c EXCEPT !.busy = "no", !.hung = FALSE, !.results = c.results + 1]
  <2>1. /\ d.busy = "no" /\ d.queue = c.queue
        /\ d.life = c.life /\ d.saw = c.saw /\ (d.open <=> c.open) /\ d.results = c.results + 1
        /\ d.thread = c.thread
    BY <1>0 DEF LaneRecord
  <2>2. c.results + 1 \in 0 .. LaCapacity
    <3>1. c.results < LaCapacity
      BY <1>3
    <3> HIDE DEF c
    <3> QED BY <1>2, <3>1, LanesAssumption
  <2>3. d \in LaneRecord
    BY <1>0, <2>2 DEF LaneRecord
  <2> HIDE DEF c, d
  <2>4. LaneFine(d)
    BY <1>0, <2>1 DEF LaneFine
  <2>5. Load(d) = Len(c.queue) + (c.results + 1) /\ Load(c) = Len(c.queue) + 1 + c.results
    BY <1>2, <1>3, <2>1 DEF Load
  <2>6. Load(d) <= Load(c)
    BY <1>2, <2>5
  <2>7. LaneMoves(c, d)
    BY <1>3, <2>1, <2>6 DEF LaneMoves, Idle, Stopped, Asks
  <2> QED BY <1>1, <1>3, <2>3, <2>4, <2>7, WorkerMoves DEF c, d
<1>4. CASE /\ c.busy = "tell"
           /\ laLane' = [laLane EXCEPT ![l] = [c EXCEPT !.busy = "no", !.hung = FALSE]]
  <2> DEFINE d == [c EXCEPT !.busy = "no", !.hung = FALSE]
  <2>1. /\ d.busy = "no" /\ d.queue = c.queue
        /\ d.life = c.life /\ d.saw = c.saw /\ (d.open <=> c.open) /\ d.results = c.results
        /\ d.thread = c.thread
    BY <1>0 DEF LaneRecord
  <2>3. d \in LaneRecord
    BY <1>0 DEF LaneRecord
  <2> HIDE DEF c, d
  <2>4. LaneFine(d)
    BY <1>0, <2>1 DEF LaneFine
  <2>5. Load(d) = Load(c) /\ Load(d) \in Nat
    BY <1>2, <1>4, <2>1, <2>3, LoadCounts DEF Load
  <2>6. Load(d) <= Load(c)
    BY <2>5
  <2>7. LaneMoves(c, d)
    BY <1>4, <2>1, <2>6 DEF LaneMoves, Idle, Stopped, Asks
  <2> QED BY <1>1, <1>4, <2>3, <2>4, <2>7, WorkerMoves DEF c, d
<1>5. CASE /\ L!Dropped(l)
           /\ laLane' = [laLane EXCEPT ![l] = [c EXCEPT !.busy = "no", !.thread = "leaving", !.saw = c.life]]
  BY <1>1, <1>5, LanesLeave
<1> QED BY <1>0, <1>1, <1>3, <1>4, <1>5 DEF L!Answer

\* A lane changes without its queue, its results or its stop being touched.
LEMMA WorkerOnly ==
  ASSUME LanesInv, NEW l \in L!Lane, NEW d \in LaneRecord, LaneFine(d),
         laLane' = [laLane EXCEPT ![l] = d],
         d.queue = laLane[l].queue, d.results = laLane[l].results, d.open <=> laLane[l].open,
         laLane[l].life # "running" => d.life # "running",
         laLane[l].thread = "gone" => d.thread = "gone",
         d.busy = laLane[l].busy \/ d.busy = "no",
         UNCHANGED <<laPending, laPhase, laAt, laWants, laRan, laDeadline, laCancelled, laControl,
                     laModes, laLeases, laFailures, laOutcome>>
  PROVE  LanesInv'
<1> DEFINE c == laLane[l]
<1>0. c \in LaneRecord
  BY DEF LanesInv, LaneTypes
<1>1. Len(c.queue) \in Nat /\ c.results \in Nat
  BY <1>0, LanesAssumption DEF LaneRecord
<1>2. Load(d) <= Load(c)
  <2>1. CASE d.busy = c.busy
    <3>1. Load(d) = Load(c) /\ Load(d) \in Nat
      BY <2>1, LoadCounts DEF Load
    <3> QED BY <3>1
  <2>2. CASE d.busy = "no"
    <3>1. /\ Load(d) = Len(c.queue) + 0 + c.results
          /\ Load(c) = Len(c.queue) + 0 + c.results \/ Load(c) = Len(c.queue) + 1 + c.results
      BY <2>2 DEF Load
    <3> HIDE DEF c
    <3> QED BY <1>1, <3>1
  <2> QED BY <2>1, <2>2
<1>3. LaneMoves(c, d)
  BY <1>2 DEF LaneMoves, Idle, Stopped, Asks
<1> QED BY <1>3, WorkerMoves

LEMMA LanesWorker ==
  ASSUME LanesInv, NEW l \in L!Lane, L!Leave(l) \/ L!StoreExit(l) \/ L!Panic(l) \/ L!Hang(l)
  PROVE  LanesInv'
<1> DEFINE c == laLane[l]
<1>0. laLane \in [L!Lane -> LaneRecord] /\ c \in LaneRecord /\ LaneFine(c)
  BY DEF LanesInv, LaneTypes
<1>1. UNCHANGED <<laPending, laPhase, laAt, laWants, laRan, laDeadline, laCancelled, laControl,
                  laModes, laLeases, laFailures, laOutcome>>
  BY DEF L!Leave, L!StoreExit, L!Panic, L!Hang, L!runner
<1>2. CASE L!Leave(l)
  <2>1. /\ c.thread = "alive" /\ c.busy = "no" /\ ~c.open
        /\ laLane' = [laLane EXCEPT ![l] = [c EXCEPT !.thread = "leaving", !.saw = c.life]]
    BY <1>0, <1>2 DEF L!Leave
  <2>2. [c EXCEPT !.thread = "leaving", !.saw = c.life]
          = [c EXCEPT !.busy = "no", !.thread = "leaving", !.saw = c.life]
    BY <1>0, <2>1 DEF LaneRecord
  <2> QED BY <1>1, <2>1, <2>2, LanesLeave
<1>3. CASE L!StoreExit(l)
  <2> DEFINE d == [c EXCEPT !.thread = "gone", !.life = "exited"]
  <2>1. c.thread = "leaving" /\ c.saw = "stopping"
    BY <1>0, <1>3 DEF L!StoreExit, LaneFine
  <2>2. laLane' = [laLane EXCEPT ![l] = d]
    BY <1>0, <1>3, <2>1 DEF L!StoreExit
  <2>3. d \in LaneRecord
    BY <1>0 DEF LaneRecord, L!Lives
  <2>4. /\ d.busy = c.busy /\ d.queue = c.queue /\ d.results = c.results /\ (d.open <=> c.open)
        /\ d.life = "exited" /\ d.thread = "gone"
    BY <1>0 DEF LaneRecord
  <2> HIDE DEF d
  <2>5. LaneFine(d)
    BY <1>0, <2>4 DEF LaneFine
  <2> QED BY <1>1, <2>1, <2>2, <2>3, <2>4, <2>5, WorkerOnly
<1>4. CASE L!Panic(l)
  <2> DEFINE d == [c EXCEPT !.thread = "gone", !.busy = "no", !.hung = FALSE, !.life = "panicked"]
  <2>1. c.thread = "alive"
    BY <1>4 DEF L!Panic
  <2>2. laLane' = [laLane EXCEPT ![l] = d]
    BY <1>0, <1>4 DEF L!Panic
  <2>3. d \in LaneRecord
    BY <1>0 DEF LaneRecord, L!Lives
  <2>4. /\ d.busy = "no" /\ d.queue = c.queue /\ d.results = c.results /\ (d.open <=> c.open)
        /\ d.life = "panicked" /\ d.thread = "gone"
    BY <1>0 DEF LaneRecord
  <2> HIDE DEF d
  <2>5. LaneFine(d)
    BY <1>0, <2>4 DEF LaneFine
  <2> QED BY <1>1, <2>1, <2>2, <2>3, <2>4, <2>5, WorkerOnly
<1>5. CASE L!Hang(l)
  <2> DEFINE d == [c EXCEPT !.hung = TRUE]
  <2>2. laLane' = [laLane EXCEPT ![l] = d]
    BY <1>0, <1>5 DEF L!Hang
  <2>3. d \in LaneRecord
    BY <1>0 DEF LaneRecord
  <2>4. /\ d.busy = c.busy /\ d.queue = c.queue /\ d.results = c.results /\ (d.open <=> c.open)
        /\ d.life = c.life /\ d.thread = c.thread /\ d.saw = c.saw
    BY <1>0 DEF LaneRecord
  <2> HIDE DEF d
  <2>5. LaneFine(d)
    BY <1>0, <2>4 DEF LaneFine
  <2> QED BY <1>1, <2>2, <2>3, <2>4, <2>5, WorkerOnly
<1> QED BY <1>2, <1>3, <1>4, <1>5

-----------------------------------------------------------------------------
(* The loop and how it ends                                                *)

\* The end of the loop: the last pane request goes out, and the cleanup begins.
LEMMA LoopEnds ==
  ASSUME LanesInv, laPhase = "loop", NEW result \in {"ok", "error"}, L!EndLoop(result),
         result = "ok" => Idle(laLane[LaSaver]),
         UNCHANGED <<laPending, laWants, laModes, laLeases, laFailures, laOutcome>>,
         laDeadline' \in {"none", "set", "over"}, laCancelled' \in BOOLEAN,
         laControl' \in {"open", "closing", "quiet", "gone"}
  PROVE  LanesInv'
<1>0. laPhase' = "stop" /\ laAt' = 1 /\ laRan' = result /\ laLane' = L!ClearPane(laLane)
  BY DEF L!EndLoop
<1>1. LaneTypes /\ RunnerTypes /\ CleanedInOrder
  BY DEF LanesInv
<1>2. LaneTypes' /\ laLane'[LaSaver] = laLane[LaSaver]
  <2> DEFINE c == laLane[LaHerdr]
  <2> DEFINE d == [c EXCEPT !.queue = Append(c.queue, "tell")]
  <2>1. CASE laLane' = laLane
    BY <1>1, <2>1 DEF LaneTypes
  <2>2. CASE Len(c.queue) < LaCapacity /\ laLane' = [laLane EXCEPT ![LaHerdr] = d]
    <3>1. laLane \in [L!Lane -> LaneRecord] /\ c \in LaneRecord /\ LaneFine(c)
      BY <1>1, OrderFacts DEF LaneTypes
    <3>2. /\ Append(c.queue, "tell") \in Seq(L!Request)
          /\ Len(Append(c.queue, "tell")) = Len(c.queue) + 1 /\ Len(c.queue) \in Nat
      BY <3>1 DEF LaneRecord, L!Request
    <3>3. d \in LaneRecord
      BY <3>1, <3>2 DEF LaneRecord
    <3>4. /\ d.queue = Append(c.queue, "tell") /\ (d.open <=> c.open)
          /\ d.life = c.life /\ d.thread = c.thread /\ d.saw = c.saw
      BY <3>1 DEF LaneRecord
    <3>5. Len(c.queue) + 1 <= LaCapacity
      <4>1. Len(c.queue) < LaCapacity
        BY <2>2
      <4> HIDE DEF c
      <4> QED BY <3>2, <4>1, LanesAssumption
    <3>6. LaneFine(d)
      <4> HIDE DEF c, d
      <4> QED BY <3>1, <3>2, <3>4, <3>5 DEF LaneFine
    <3>7. /\ laLane' \in [L!Lane -> LaneRecord] /\ laLane'[LaHerdr] = d
          /\ \A l \in L!Lane \ {LaHerdr} : laLane'[l] = laLane[l]
      <4> HIDE DEF c, d
      <4> QED BY <2>2, <3>1, <3>3, OrderFacts
    <3>8. \A l \in L!Lane : LaneFine(laLane'[l])
      <4> HIDE DEF c, d
      <4> QED BY <1>1, <3>6, <3>7 DEF LaneTypes
    <3> QED BY <3>7, <3>8, OrderFacts DEF LaneTypes
  <2> QED BY <1>0, <1>1, <2>1, <2>2, OrderFacts DEF L!ClearPane, LaneTypes
<1>3. RunnerTypes'
  <2>1. laAt' \in 1 .. Len(LaOrder) + 1
    BY <1>0, OrderFacts
  <2> QED BY <1>0, <1>1, <2>1 DEF RunnerTypes
<1>4. WorkOwed' /\ LoopRuns' /\ JoinedInOrder' /\ StoppedInOrder'
  BY <1>0 DEF WorkOwed, LoopRuns, JoinedInOrder, StoppedInOrder
<1>5. SaverSettled'
  BY <1>0, <1>2 DEF SaverSettled
<1>6. CleanedInOrder'
  BY <1>0, <1>1 DEF CleanedInOrder
<1> QED BY <1>2, <1>3, <1>4, <1>5, <1>6 DEF LanesInv

LEMMA LanesSend == ASSUME LanesInv, NEW l \in L!Lane, L!Send(l) PROVE LanesInv'
<1> DEFINE c == laLane[l]
<1> DEFINE d == [c EXCEPT !.queue = Append(c.queue, "ask")]
<1>0. laLane \in [L!Lane -> LaneRecord] /\ c \in LaneRecord /\ LaneFine(c) /\ LaneTypes /\ RunnerTypes
  BY DEF LanesInv, LaneTypes
<1>1. /\ laPhase = "loop"
      /\ UNCHANGED <<laWants, laDeadline, laCancelled, laControl, laModes, laLeases, laFailures, laOutcome>>
  BY DEF L!Send
<1>2. CASE L!EndLoop("error") /\ UNCHANGED laPending
  BY <1>0, <1>1, <1>2, LoopEnds DEF RunnerTypes
<1>3. CASE /\ Len(c.queue) < LaCapacity
           /\ laLane' = [laLane EXCEPT ![l] = d]
           /\ laPending' = [laPending EXCEPT ![l] = @ + 1]
           /\ UNCHANGED <<laPhase, laAt, laRan>>
  <2>1. /\ Append(c.queue, "ask") \in Seq(L!Request)
        /\ Len(Append(c.queue, "ask")) = Len(c.queue) + 1 /\ Len(c.queue) \in Nat
        /\ \A i \in 1 .. Len(c.queue) : Append(c.queue, "ask")[i] = c.queue[i]
        /\ Append(c.queue, "ask")[Len(c.queue) + 1] = "ask"
        /\ c.results \in Nat
    BY <1>0, LanesAssumption DEF LaneRecord, L!Request
  <2>2. d \in LaneRecord
    BY <1>0, <2>1 DEF LaneRecord
  <2>3. /\ d.queue = Append(c.queue, "ask") /\ (d.open <=> c.open) /\ d.busy = c.busy
        /\ d.life = c.life /\ d.thread = c.thread /\ d.saw = c.saw /\ d.results = c.results
    BY <1>0 DEF LaneRecord
  <2>4. Len(c.queue) < LaCapacity /\ laLane' = [laLane EXCEPT ![l] = d]
    BY <1>3
  <2> HIDE DEF c, d
  <2>5. LaneFine(d)
    <3>1. Len(c.queue) + 1 <= LaCapacity
      BY <2>1, <2>4, LanesAssumption
    <3> QED BY <1>0, <2>1, <2>3, <3>1 DEF LaneFine
  <2>6. /\ laLane' \in [L!Lane -> LaneRecord] /\ laLane'[l] = d
        /\ \A m \in L!Lane \ {l} : laLane'[m] = laLane[m]
    BY <1>0, <2>2, <2>4
  <2>7. LaneTypes'
    BY <1>0, <2>5, <2>6 DEF LaneTypes
  <2>8. /\ laPending' \in [L!Lane -> Nat] /\ laPending'[l] = laPending[l] + 1
        /\ \A m \in L!Lane \ {l} : laPending'[m] = laPending[m]
    BY <1>0, <1>3 DEF RunnerTypes
  <2>9. RunnerTypes'
    BY <1>0, <1>1, <1>3, <2>8 DEF RunnerTypes
  <2>10. Asks(c) /\ Load(c) <= laPending[l] /\ Load(c) \in Nat /\ Load(d) \in Nat /\ laPending[l] \in Nat
    BY <1>0, <1>1, <2>2, LoadCounts DEF LanesInv, WorkOwed, c, RunnerTypes
  <2>11. Asks(d)
    BY <2>1, <2>3, <2>10 DEF Asks
  <2>12. Load(d) <= laPending'[l]
    <3>1. CASE c.busy = "ask"
      <4>1. Load(c) = Len(c.queue) + 1 + c.results /\ Load(d) = Len(c.queue) + 1 + 1 + c.results
        BY <2>1, <2>3, <3>1 DEF Load
      <4> QED BY <2>1, <2>8, <2>10, <4>1
    <3>2. CASE c.busy # "ask"
      <4>1. Load(c) = Len(c.queue) + 0 + c.results /\ Load(d) = Len(c.queue) + 1 + 0 + c.results
        BY <2>1, <2>3, <3>2 DEF Load
      <4> QED BY <2>1, <2>8, <2>10, <4>1
    <3> QED BY <3>1, <3>2
  <2>13. WorkOwed'
    <3>1. ASSUME NEW m \in L!Lane PROVE Asks(laLane'[m]) /\ Load(laLane'[m]) <= laPending'[m]
      <4>1. CASE m = l
        BY <2>6, <2>11, <2>12, <4>1
      <4>2. CASE m # l
        BY <1>1, <2>6, <2>8, <4>2 DEF LanesInv, WorkOwed
      <4> QED BY <4>1, <4>2
    <3> QED BY <3>1 DEF WorkOwed
  <2>14. LoopRuns' /\ SaverSettled' /\ StoppedInOrder' /\ JoinedInOrder' /\ CleanedInOrder'
    <3>1. LoopRuns /\ CleanedInOrder
      BY DEF LanesInv
    <3>2. UNCHANGED <<laPhase, laAt, laRan>>
      BY <1>3
    <3> QED BY <1>1, <3>1, <3>2
         DEF LoopRuns, SaverSettled, StoppedInOrder, JoinedInOrder, CleanedInOrder
  <2> QED BY <2>7, <2>9, <2>13, <2>14 DEF LanesInv
<1> QED BY <1>0, <1>2, <1>3 DEF L!Send, L!HasRoom

LEMMA LanesDrain == ASSUME LanesInv, NEW l \in L!Lane, L!Drain(l) PROVE LanesInv'
<1> DEFINE c == laLane[l]
<1> DEFINE d == [c EXCEPT !.results = c.results - 1]
<1>0. laLane \in [L!Lane -> LaneRecord] /\ c \in LaneRecord /\ LaneFine(c) /\ LaneTypes /\ RunnerTypes
  BY DEF LanesInv, LaneTypes
<1>1. /\ laPhase = "loop" /\ c.results > 0
      /\ laLane' = [laLane EXCEPT ![l] = d]
      /\ laPending' = [laPending EXCEPT ![l] = @ - 1]
      /\ UNCHANGED <<laPhase, laAt, laWants, laRan, laDeadline, laCancelled, laControl,
                     laModes, laLeases, laFailures, laOutcome>>
  BY <1>0 DEF L!Drain, L!runner
<1>2. c.results \in 0 .. LaCapacity /\ Len(c.queue) \in Nat
  BY <1>0 DEF LaneRecord
<1>3. c.results - 1 \in 0 .. LaCapacity /\ c.results \in Nat
  <2>1. c.results > 0
    BY <1>1
  <2> HIDE DEF c
  <2> QED BY <1>2, <2>1, LanesAssumption
<1>4. d \in LaneRecord
  BY <1>0, <1>3 DEF LaneRecord
<1>5. /\ d.queue = c.queue /\ (d.open <=> c.open) /\ d.busy = c.busy
      /\ d.life = c.life /\ d.thread = c.thread /\ d.saw = c.saw /\ d.results = c.results - 1
  BY <1>0 DEF LaneRecord
<1> HIDE DEF c, d
<1>6. LaneFine(d)
  BY <1>0, <1>5 DEF LaneFine
<1>7. /\ laLane' \in [L!Lane -> LaneRecord] /\ laLane'[l] = d
      /\ \A m \in L!Lane \ {l} : laLane'[m] = laLane[m]
  BY <1>0, <1>1, <1>4
<1>8. LaneTypes'
  BY <1>0, <1>6, <1>7 DEF LaneTypes
<1>9. Asks(c) /\ Load(c) <= laPending[l] /\ laPending[l] \in Nat
  BY <1>0, <1>1 DEF LanesInv, WorkOwed, c, RunnerTypes
<1>10. Load(d) = Load(c) - 1 /\ Load(c) \in Nat /\ Load(d) \in Nat
  <2>1. CASE c.busy = "ask"
    <3>1. Load(c) = Len(c.queue) + 1 + c.results /\ Load(d) = Len(c.queue) + 1 + (c.results - 1)
      BY <1>5, <2>1 DEF Load
    <3> QED BY <1>2, <1>3, <1>1, <3>1
  <2>2. CASE c.busy # "ask"
    <3>1. Load(c) = Len(c.queue) + 0 + c.results /\ Load(d) = Len(c.queue) + 0 + (c.results - 1)
      BY <1>5, <2>2 DEF Load
    <3> QED BY <1>2, <1>3, <1>1, <3>1
  <2> QED BY <2>1, <2>2
<1>11. laPending[l] - 1 \in Nat
  BY <1>9, <1>10
<1>12. /\ laPending' \in [L!Lane -> Nat] /\ laPending'[l] = laPending[l] - 1
       /\ \A m \in L!Lane \ {l} : laPending'[m] = laPending[m]
  BY <1>0, <1>1, <1>11 DEF RunnerTypes
<1>13. RunnerTypes'
  BY <1>0, <1>1, <1>12 DEF RunnerTypes
<1>14. WorkOwed'
  <2>1. ASSUME NEW m \in L!Lane PROVE Asks(laLane'[m]) /\ Load(laLane'[m]) <= laPending'[m]
    <3>1. CASE m = l
      <4>1. Asks(d)
        BY <1>5, <1>9 DEF Asks
      <4>2. Load(d) <= laPending'[l]
        BY <1>9, <1>10, <1>12
      <4> QED BY <1>7, <3>1, <4>1, <4>2
    <3>2. CASE m # l
      BY <1>1, <1>7, <1>12, <3>2 DEF LanesInv, WorkOwed
    <3> QED BY <3>1, <3>2
  <2> QED BY <2>1 DEF WorkOwed
<1>15. LoopRuns' /\ SaverSettled' /\ StoppedInOrder' /\ JoinedInOrder' /\ CleanedInOrder'
  <2>1. LoopRuns /\ CleanedInOrder
    BY DEF LanesInv
  <2> QED BY <1>1, <2>1 DEF LoopRuns, SaverSettled, StoppedInOrder, JoinedInOrder, CleanedInOrder
<1> QED BY <1>8, <1>13, <1>14, <1>15 DEF LanesInv

\* The runner moves while the lanes stay.
LEMMA LanesStay ==
  ASSUME LanesInv, UNCHANGED <<laLane, laPending>>, RunnerTypes',
         laPhase' = laPhase \/ (laPhase # "loop" /\ laPhase' # "loop"),
         UNCHANGED laRan
  PROVE  LaneTypes' /\ WorkOwed' /\ SaverSettled'
BY DEF LanesInv, LaneTypes, WorkOwed, SaverSettled

LEMMA LanesLoop ==
  ASSUME LanesInv, L!Quit \/ L!AcceptRestart \/ L!Admit("signal") \/ L!Admit("stall")
  PROVE  LanesInv'
<1>0. LaneTypes /\ RunnerTypes /\ LoopRuns /\ CleanedInOrder
  BY DEF LanesInv
<1>1. laPhase = "loop" /\ UNCHANGED <<laLane, laPending, laPhase, laAt, laRan, laModes, laLeases,
                                      laFailures, laOutcome>>
  BY DEF L!Quit, L!AcceptRestart, L!Admit
<1>2. RunnerTypes'
  <2>1. laWants' \subseteq {"quit", "signal", "stall", "restart"}
    BY <1>0 DEF RunnerTypes, L!Quit, L!AcceptRestart, L!Admit
  <2>2. laDeadline' \in {"none", "set", "over"} /\ laControl' \in {"open", "closing", "quiet", "gone"}
    BY <1>0 DEF RunnerTypes, L!Quit, L!AcceptRestart, L!Admit
  <2>3. laCancelled' \in BOOLEAN
    BY <1>0 DEF RunnerTypes, L!Quit, L!AcceptRestart, L!Admit
  <2> QED BY <1>0, <1>1, <2>1, <2>2, <2>3 DEF RunnerTypes
<1>3. LaneTypes' /\ WorkOwed' /\ SaverSettled'
  BY <1>1, <1>2, LanesStay
<1>4. LoopRuns'
  <2>1. CASE L!Quit \/ L!AcceptRestart
    <3>1. ~laCancelled' /\ laRan' = "none"
      BY <1>0, <1>1, <2>1 DEF LoopRuns, L!Quit, L!AcceptRestart
    <3> QED BY <3>1 DEF LoopRuns
  <2>2. CASE L!Admit("signal") \/ L!Admit("stall")
    <3>1. "signal" \in laWants' \/ "stall" \in laWants'
      BY <2>2 DEF L!Admit
    <3>2. laRan' = "none"
      BY <1>0, <1>1 DEF LoopRuns
    <3> QED BY <3>1, <3>2 DEF LoopRuns
  <2> QED BY <2>1, <2>2
<1>5. StoppedInOrder' /\ JoinedInOrder' /\ CleanedInOrder'
  BY <1>0, <1>1 DEF StoppedInOrder, JoinedInOrder, CleanedInOrder
<1> QED BY <1>2, <1>3, <1>4, <1>5 DEF LanesInv

LEMMA LanesShutdownReady == ASSUME LanesInv, L!ShutdownReady PROVE LanesInv'
<1>0. LaneTypes /\ RunnerTypes /\ LoopRuns /\ CleanedInOrder /\ WorkOwed
  BY DEF LanesInv
<1>1. /\ laPhase = "loop" /\ laWants # {}
      /\ UNCHANGED <<laPending, laWants, laModes, laLeases, laFailures, laOutcome>>
      /\ laDeadline' \in {"none", "set", "over"} /\ laControl' \in {"open", "closing", "quiet", "gone"}
  BY <1>0 DEF L!ShutdownReady, RunnerTypes
<1>2. laCancelled' \in BOOLEAN /\ (laCancelled' <=> (laCancelled \/ L!Cancels))
  BY <1>0 DEF L!ShutdownReady, RunnerTypes, L!Cancels
<1>3. ASSUME L!Ready PROVE Idle(laLane[LaSaver])
  <2> DEFINE c == laLane[LaSaver]
  <2>1. laPending[LaSaver] = 0
    BY <1>3, OrderFacts DEF L!Ready
  <2>2. c \in LaneRecord /\ Load(c) <= 0
    BY <1>0, <1>1, <2>1, OrderFacts DEF LaneTypes, WorkOwed
  <2>3. Len(c.queue) \in Nat /\ c.results \in Nat /\ c.queue \in Seq(L!Request)
    BY <2>2, LanesAssumption DEF LaneRecord
  <2>4. (c.busy = "ask" /\ Load(c) = Len(c.queue) + 1 + c.results)
        \/ (c.busy # "ask" /\ Load(c) = Len(c.queue) + 0 + c.results)
    BY DEF Load
  <2> HIDE DEF c
  <2>5. c.busy # "ask" /\ Len(c.queue) = 0
    BY <2>2, <2>3, <2>4
  <2>6. c.queue = <<>>
    BY <2>3, <2>5
  <2> QED BY <2>5, <2>6 DEF Idle, c
<1>4. CASE L!EndLoop("error")
  BY <1>1, <1>2, <1>4, LoopEnds
<1>5. CASE L!Ready /\ L!EndLoop("ok")
  BY <1>1, <1>2, <1>3, <1>5, LoopEnds
<1>6. CASE UNCHANGED <<laLane, laPhase, laAt, laRan>>
  <2>1. RunnerTypes'
    BY <1>0, <1>1, <1>2, <1>6 DEF RunnerTypes
  <2>2. LaneTypes' /\ WorkOwed' /\ SaverSettled'
    BY <1>1, <1>6, <2>1, LanesStay
  <2>3. LoopRuns'
    BY <1>0, <1>1, <1>2, <1>6 DEF LoopRuns, L!Cancels
  <2>4. StoppedInOrder' /\ JoinedInOrder' /\ CleanedInOrder'
    BY <1>0, <1>1, <1>6 DEF StoppedInOrder, JoinedInOrder, CleanedInOrder
  <2> QED BY <2>1, <2>2, <2>3, <2>4 DEF LanesInv
<1> QED BY <1>4, <1>5, <1>6 DEF L!ShutdownReady

LEMMA LanesDisconnected == ASSUME LanesInv, NEW l \in L!Lane, L!DrainDisconnected(l) PROVE LanesInv'
<1>1. RunnerTypes
  BY DEF LanesInv
<1> QED BY <1>1, LoopEnds DEF L!DrainDisconnected, RunnerTypes

LEMMA LanesClock == ASSUME LanesInv, L!ControlQuiet \/ L!DeadlineExpires PROVE LanesInv'
<1>0. LaneTypes /\ RunnerTypes
  BY DEF LanesInv
<1>1. /\ UNCHANGED <<laLane, laPending, laPhase, laAt, laWants, laRan, laCancelled, laModes, laLeases,
                     laFailures, laOutcome>>
      /\ laControl' = laControl \/ (laControl = "closing" /\ laControl' = "quiet")
      /\ laDeadline' \in {laDeadline, "over"}
  BY DEF L!ControlQuiet, L!DeadlineExpires
<1>2. RunnerTypes'
  BY <1>0, <1>1 DEF RunnerTypes
<1>3. LaneTypes' /\ WorkOwed' /\ SaverSettled'
  BY <1>1, <1>2, LanesStay
<1>4. LoopRuns' /\ StoppedInOrder' /\ JoinedInOrder'
  BY <1>1 DEF LanesInv, LoopRuns, StoppedInOrder, JoinedInOrder
<1>5. CleanedInOrder'
  BY <1>1 DEF LanesInv, CleanedInOrder
<1> QED BY <1>2, <1>3, <1>4, <1>5 DEF LanesInv

-----------------------------------------------------------------------------
(* The cleanup                                                             *)

LEMMA LanesBeginShutdown == ASSUME LanesInv, L!BeginShutdown PROVE LanesInv'
<1>0. LaneTypes /\ RunnerTypes /\ StoppedInOrder /\ CleanedInOrder /\ SaverSettled
  BY DEF LanesInv
<1>1. /\ laPhase = "stop" /\ laCancelled' = TRUE
      /\ UNCHANGED <<laPending, laWants, laRan, laModes, laLeases, laFailures, laOutcome>>
      /\ laControl' \in {"open", "closing", "quiet", "gone"}
  BY <1>0 DEF L!BeginShutdown, RunnerTypes
<1>2. laAt \in 1 .. Len(LaOrder) + 1 /\ Len(LaOrder) \in Nat /\ laCancelled' \in BOOLEAN
  BY <1>0, <1>1, OrderFacts DEF RunnerTypes
<1>3. CASE /\ laAt <= Len(LaOrder) /\ L!RequestStop(LaOrder[laAt])
           /\ UNCHANGED <<laPhase, laAt, laDeadline>>
  <2> DEFINE l == LaOrder[laAt]
  <2> DEFINE c == laLane[l]
  <2>1. l \in L!Lane /\ c \in LaneRecord /\ LaneFine(c) /\ laLane \in [L!Lane -> LaneRecord]
    BY <1>0, <1>2, <1>3, OrderFacts DEF LaneTypes
  <2>2. LaneTypes' /\ \A m \in L!Lane : LaneMoves(laLane[m], laLane'[m])
    <3>1. CASE c.life = "running" /\ laLane' = [laLane EXCEPT ![l].life = "stopping"]
      <4> DEFINE d == [c EXCEPT !.life = "stopping"]
      <4>1. laLane' = [laLane EXCEPT ![l] = d]
        BY <2>1, <3>1
      <4>2. d \in LaneRecord
        BY <2>1 DEF LaneRecord, L!Lives
      <4>3. /\ d.queue = c.queue /\ (d.open <=> c.open) /\ d.busy = c.busy
            /\ d.life = "stopping" /\ d.thread = c.thread /\ d.saw = c.saw /\ d.results = c.results
        BY <2>1 DEF LaneRecord
      <4> HIDE DEF d
      <4>4. LaneFine(d)
        BY <2>1, <3>1, <4>3 DEF LaneFine
      <4>5. Load(d) = Load(c) /\ Load(d) \in Nat
        BY <4>2, <4>3, LoadCounts DEF Load
      <4>6. LaneMoves(c, d)
        BY <4>3, <4>5 DEF LaneMoves, Stopped, Idle, Asks
      <4> QED BY <1>0, <2>1, <4>1, <4>2, <4>4, <4>6, LaneBecomes
    <3>2. CASE c.life # "running" /\ laLane' = [laLane EXCEPT ![l].open = FALSE]
      <4> DEFINE d == [c EXCEPT !.open = FALSE]
      <4>1. laLane' = [laLane EXCEPT ![l] = d]
        BY <2>1, <3>2
      <4>2. d \in LaneRecord
        BY <2>1 DEF LaneRecord
      <4>3. /\ d.queue = c.queue /\ ~d.open /\ d.busy = c.busy
            /\ d.life = c.life /\ d.thread = c.thread /\ d.saw = c.saw /\ d.results = c.results
        BY <2>1 DEF LaneRecord
      <4> HIDE DEF d
      <4>4. LaneFine(d)
        BY <2>1, <3>2, <4>3 DEF LaneFine
      <4>5. Load(d) = Load(c) /\ Load(d) \in Nat
        BY <4>2, <4>3, LoadCounts DEF Load
      <4>6. LaneMoves(c, d)
        BY <4>3, <4>5 DEF LaneMoves, Stopped, Idle, Asks
      <4> QED BY <1>0, <2>1, <4>1, <4>2, <4>4, <4>6, LaneBecomes
    <3> QED BY <1>3, <3>1, <3>2 DEF L!RequestStop
  <2>3. /\ \A i \in 1 .. Len(LaOrder) :
             Stopped(laLane[LaOrder[i]]) => Stopped(laLane'[LaOrder[i]])
        /\ Idle(laLane[LaSaver]) => Idle(laLane'[LaSaver])
    BY <2>2, LanesMove
  <2>4. RunnerTypes'
    BY <1>0, <1>1, <1>2, <1>3 DEF RunnerTypes
  <2>5. WorkOwed' /\ LoopRuns' /\ JoinedInOrder'
    BY <1>1, <1>3 DEF WorkOwed, LoopRuns, JoinedInOrder
  <2>6. SaverSettled'
    BY <1>0, <1>1, <2>3 DEF SaverSettled
  <2>7. StoppedInOrder'
    BY <1>0, <1>1, <1>2, <1>3, <2>3 DEF StoppedInOrder
  <2>8. CleanedInOrder'
    BY <1>0, <1>1, <1>3 DEF CleanedInOrder
  <2> QED BY <2>2, <2>4, <2>5, <2>6, <2>7, <2>8 DEF LanesInv
<1>4. CASE /\ laAt <= Len(LaOrder) /\ L!StopRequested(LaOrder[laAt])
           /\ laAt' = laAt + 1 /\ UNCHANGED <<laLane, laPhase, laDeadline>>
  <2>1. laAt' \in 1 .. Len(LaOrder) + 1
    BY <1>2, <1>4
  <2>2. RunnerTypes'
    BY <1>0, <1>1, <1>2, <1>4, <2>1 DEF RunnerTypes
  <2>3. LaneTypes' /\ WorkOwed' /\ SaverSettled'
    BY <1>1, <1>4, <2>2, LanesStay
  <2>4. ASSUME NEW i \in 1 .. laAt' - 1 PROVE Stopped(laLane[LaOrder[i]])
    <3>1. CASE i = laAt
      BY <1>4, <3>1 DEF L!StopRequested, Stopped
    <3>2. CASE i # laAt
      <4>1. i \in 1 .. laAt - 1
        BY <1>2, <1>4, <3>2
      <4> QED BY <1>0, <1>1, <4>1 DEF StoppedInOrder
    <3> QED BY <3>1, <3>2
  <2>5. StoppedInOrder'
    BY <1>1, <1>4, <2>4 DEF StoppedInOrder
  <2>6. LoopRuns' /\ JoinedInOrder' /\ CleanedInOrder'
    BY <1>0, <1>1, <1>4 DEF LoopRuns, JoinedInOrder, CleanedInOrder
  <2> QED BY <2>2, <2>3, <2>5, <2>6 DEF LanesInv
<1>5. CASE /\ laAt > Len(LaOrder) /\ laPhase' = "restore" /\ laAt' = 1 /\ UNCHANGED laLane
           /\ laDeadline' \in {laDeadline, "set"}
  <2>1. laAt' \in 1 .. Len(LaOrder) + 1
    BY <1>2, <1>5
  <2>2. RunnerTypes'
    BY <1>0, <1>1, <1>2, <1>5, <2>1 DEF RunnerTypes
  <2>3. LaneTypes' /\ WorkOwed' /\ SaverSettled'
    BY <1>1, <1>5, <2>2, LanesStay
  <2>4. \A i \in 1 .. Len(LaOrder) : Stopped(laLane[LaOrder[i]])
    <3>1. laAt = Len(LaOrder) + 1
      BY <1>2, <1>5
    <3>2. laAt - 1 = Len(LaOrder)
      BY <1>2, <3>1
    <3> QED BY <1>0, <1>1, <3>2 DEF StoppedInOrder
  <2>5. StoppedInOrder'
    BY <1>1, <1>5, <2>4 DEF StoppedInOrder
  <2>6. LoopRuns' /\ JoinedInOrder' /\ CleanedInOrder'
    BY <1>0, <1>1, <1>5 DEF LoopRuns, JoinedInOrder, CleanedInOrder
  <2> QED BY <2>2, <2>3, <2>5, <2>6 DEF LanesInv
<1> QED BY <1>3, <1>4, <1>5 DEF L!BeginShutdown

LEMMA LanesCleanup ==
  ASSUME LanesInv, L!Restore \/ L!StopControl \/ L!ReleaseLeases
  PROVE  LanesInv'
<1>0. LaneTypes /\ RunnerTypes /\ StoppedInOrder /\ CleanedInOrder /\ JoinedInOrder
  BY DEF LanesInv
<1>1. /\ UNCHANGED <<laLane, laPending, laAt, laWants, laRan, laDeadline, laCancelled, laOutcome>>
      /\ \/ laPhase = "restore" /\ laPhase' = "control" /\ UNCHANGED <<laControl, laLeases>>
         \/ laPhase = "control" /\ laPhase' = "release" /\ UNCHANGED <<laModes, laLeases>>
         \/ laPhase = "release" /\ laPhase' = "join" /\ UNCHANGED <<laControl, laModes, laFailures>>
  BY DEF L!Restore, L!StopControl, L!ReleaseLeases
<1>2. laFailures' \subseteq L!Stages /\ laFailures \subseteq laFailures'
  BY <1>0 DEF L!Restore, L!StopControl, L!ReleaseLeases, RunnerTypes, L!Stages
<1>3. laControl' \in {"open", "closing", "quiet", "gone"}
  BY <1>0 DEF L!Restore, L!StopControl, L!ReleaseLeases, RunnerTypes
<1>4. laModes' \in BOOLEAN /\ laLeases' \in BOOLEAN
  BY <1>0 DEF L!Restore, L!StopControl, L!ReleaseLeases, RunnerTypes
<1>5. RunnerTypes'
  BY <1>0, <1>1, <1>2, <1>3, <1>4 DEF RunnerTypes
<1>6. LaneTypes' /\ WorkOwed' /\ SaverSettled'
  BY <1>1, <1>5, LanesStay
<1>7. LoopRuns' /\ StoppedInOrder'
  BY <1>0, <1>1 DEF LoopRuns, StoppedInOrder
<1>8. JoinedInOrder'
  <2>1. laAt' = 1
    BY <1>0, <1>1 DEF JoinedInOrder
  <2> QED BY <1>1, <2>1 DEF JoinedInOrder
<1>9. CleanedInOrder'
  <2>1. CASE L!Restore
    BY <1>0, <2>1 DEF CleanedInOrder, L!Restore
  <2>2. CASE L!StopControl
    BY <1>0, <1>2, <2>2 DEF CleanedInOrder, L!StopControl
  <2>3. CASE L!ReleaseLeases
    BY <1>0, <2>3 DEF CleanedInOrder, L!ReleaseLeases, L!ReleasesEarly
  <2> QED BY <2>1, <2>2, <2>3
<1> QED BY <1>5, <1>6, <1>7, <1>8, <1>9 DEF LanesInv

LEMMA LanesStopLane == ASSUME LanesInv, L!StopLane PROVE LanesInv'
<1>0. LaneTypes /\ RunnerTypes /\ StoppedInOrder /\ CleanedInOrder /\ JoinedInOrder /\ SaverSettled
  BY DEF LanesInv
<1>1. /\ laPhase = "join" /\ laAt <= Len(LaOrder)
      /\ UNCHANGED <<laPending, laPhase, laWants, laRan, laDeadline, laCancelled, laControl, laModes,
                     laLeases, laOutcome>>
  BY DEF L!StopLane
<1>2. laAt \in 1 .. Len(LaOrder) /\ LaOrder[laAt] \in L!Lane /\ Len(LaOrder) \in Nat
  BY <1>0, <1>1, OrderFacts DEF RunnerTypes
<1> DEFINE l == LaOrder[laAt]
<1> DEFINE c == laLane[l]
<1>3. CASE /\ c.results > 0 /\ UNCHANGED <<laAt, laFailures>>
           /\ laLane' = [laLane EXCEPT ![l].results = @ - 1]
  <2> DEFINE d == [c EXCEPT !.results = c.results - 1]
  <2>1. c \in LaneRecord /\ LaneFine(c) /\ laLane \in [L!Lane -> LaneRecord]
    BY <1>0, <1>2 DEF LaneTypes
  <2>2. c.results \in 0 .. LaCapacity /\ Len(c.queue) \in Nat /\ c.results > 0
    BY <1>3, <2>1 DEF LaneRecord
  <2>3. c.results - 1 \in 0 .. LaCapacity /\ c.results \in Nat
    <3> HIDE DEF c
    <3> QED BY <2>2, LanesAssumption
  <2>4. laLane' = [laLane EXCEPT ![l] = d]
    BY <1>2, <1>3, <2>1
  <2>5. d \in LaneRecord
    BY <2>1, <2>3 DEF LaneRecord
  <2>6. /\ d.queue = c.queue /\ (d.open <=> c.open) /\ d.busy = c.busy
        /\ d.life = c.life /\ d.thread = c.thread /\ d.saw = c.saw /\ d.results = c.results - 1
    BY <2>1 DEF LaneRecord
  <2> HIDE DEF c, d, l
  <2>7. LaneFine(d)
    BY <2>1, <2>6 DEF LaneFine
  <2>8. Load(d) <= Load(c)
    <3>1. CASE c.busy = "ask"
      <4>1. Load(c) = Len(c.queue) + 1 + c.results /\ Load(d) = Len(c.queue) + 1 + (c.results - 1)
        BY <2>6, <3>1 DEF Load
      <4> QED BY <2>2, <2>3, <4>1
    <3>2. CASE c.busy # "ask"
      <4>1. Load(c) = Len(c.queue) + 0 + c.results /\ Load(d) = Len(c.queue) + 0 + (c.results - 1)
        BY <2>6, <3>2 DEF Load
      <4> QED BY <2>2, <2>3, <4>1
    <3> QED BY <3>1, <3>2
  <2>9. LaneMoves(c, d)
    BY <2>6, <2>8 DEF LaneMoves, Stopped, Idle, Asks
  <2>10. UNCHANGED <<laAt, laFailures>>
    BY <1>3
  <2>11. l \in L!Lane
    BY <1>2 DEF l
  <2> QED BY <1>1, <2>4, <2>5, <2>7, <2>9, <2>10, <2>11, WorkerMoves DEF c
<1>4. CASE /\ laFailures' = laFailures \cup L!JoinFailed
           /\ laAt' = laAt + 1 /\ UNCHANGED laLane
  <2>1. laFailures' \subseteq L!Stages /\ laFailures \subseteq laFailures'
    BY <1>0, <1>2, <1>4 DEF RunnerTypes, L!JoinFailed, L!Stages
  <2>2. laAt' \in 1 .. Len(LaOrder) + 1
    BY <1>2, <1>4
  <2>3. RunnerTypes'
    BY <1>0, <1>1, <2>1, <2>2 DEF RunnerTypes
  <2>4. LaneTypes' /\ WorkOwed' /\ SaverSettled'
    BY <1>1, <1>4, <2>3, LanesStay
  <2>5. LoopRuns' /\ StoppedInOrder'
    BY <1>0, <1>1, <1>4 DEF LoopRuns, StoppedInOrder
  <2>6. ASSUME NEW i \in 1 .. laAt' - 1
        PROVE  laLane[LaOrder[i]].thread = "gone" \/ LaOrder[i] \in laFailures'
    <3>1. CASE i = laAt
      BY <1>4, <3>1 DEF L!JoinFailed
    <3>2. CASE i # laAt
      <4>1. i \in 1 .. laAt - 1
        BY <1>2, <1>4, <3>2
      <4> QED BY <1>0, <1>1, <2>1, <4>1 DEF JoinedInOrder
    <3> QED BY <3>1, <3>2
  <2>7. JoinedInOrder'
    BY <1>1, <1>4, <2>6 DEF JoinedInOrder
  <2>8. CleanedInOrder'
    BY <1>0, <1>1, <2>1 DEF CleanedInOrder
  <2> QED BY <2>3, <2>4, <2>5, <2>7, <2>8 DEF LanesInv
<1> QED BY <1>3, <1>4 DEF L!StopLane

LEMMA LanesReport == ASSUME LanesInv, L!WorkersStopped \/ L!FinishRuntime PROVE LanesInv'
<1>0. LaneTypes /\ RunnerTypes /\ StoppedInOrder /\ CleanedInOrder /\ JoinedInOrder
  BY DEF LanesInv
<1>1. /\ UNCHANGED <<laLane, laPending, laAt, laWants, laRan, laDeadline, laCancelled, laControl, laModes>>
      /\ \/ /\ laPhase = "join" /\ laPhase' = "report" /\ laAt > Len(LaOrder)
            /\ UNCHANGED <<laLeases, laOutcome>>
         \/ laPhase = "report" /\ laPhase' = "over" /\ UNCHANGED laFailures
  BY DEF L!WorkersStopped, L!FinishRuntime
<1>2. laFailures' \subseteq L!Stages /\ laFailures \subseteq laFailures'
  BY <1>0 DEF L!WorkersStopped, L!FinishRuntime, RunnerTypes, L!Reported, L!Stages
<1>3. laOutcome' \in {"none", "ok", "error", "replaced"}
  BY <1>0 DEF L!WorkersStopped, L!FinishRuntime, RunnerTypes, L!Replacement
<1>4. laLeases' \in BOOLEAN
  BY <1>0 DEF L!WorkersStopped, L!FinishRuntime, RunnerTypes
<1>5. RunnerTypes'
  BY <1>0, <1>1, <1>2, <1>3, <1>4 DEF RunnerTypes
<1>6. LaneTypes' /\ WorkOwed' /\ SaverSettled'
  BY <1>1, <1>5, LanesStay
<1>7. LoopRuns' /\ StoppedInOrder'
  BY <1>0, <1>1 DEF LoopRuns, StoppedInOrder
<1>8. JoinedInOrder'
  <2>1. CASE laPhase = "join" /\ laPhase' = "report" /\ laAt > Len(LaOrder)
    <3>1. laAt - 1 = Len(LaOrder)
      BY <1>0, <2>1, OrderFacts DEF RunnerTypes
    <3> QED BY <1>0, <1>1, <1>2, <2>1, <3>1 DEF JoinedInOrder
  <2>2. CASE laPhase = "report" /\ laPhase' = "over" /\ UNCHANGED laFailures
    BY <1>0, <1>1, <2>2 DEF JoinedInOrder
  <2> QED BY <1>1, <2>1, <2>2
<1>9. CleanedInOrder'
  <2>1. CASE L!WorkersStopped
    BY <1>0, <1>2, <2>1 DEF CleanedInOrder, L!WorkersStopped
  <2>2. CASE L!FinishRuntime
    BY <1>0, <2>2 DEF CleanedInOrder, L!FinishRuntime
  <2> QED BY <2>1, <2>2
<1> QED BY <1>5, <1>6, <1>7, <1>8, <1>9 DEF LanesInv

LEMMA LanesStep == ASSUME LanesInv, [Next]_vars PROVE LanesInv'
<1>1. CASE UNCHANGED laVars
  BY <1>1 DEF laVars, LanesInv, LaneTypes, RunnerTypes, WorkOwed, LoopRuns, SaverSettled,
              StoppedInOrder, JoinedInOrder, CleanedInOrder
<1>2. CASE L!Next
  BY <1>2, LanesServe, LanesAnswer, LanesWorker, LanesSend, LanesDrain, LanesDisconnected, LanesClock,
     LanesLoop, LanesShutdownReady, LanesBeginShutdown, LanesCleanup, LanesStopLane, LanesReport
     DEF L!Next, L!Cleanup
<1> QED BY <1>1, <1>2
       DEF Next, vars, SubmissionNext, LanesNext, InputLaneNext, UpdateConvergenceNext

\* For any lanes in any order, any capacity and any number of requests and faults: a stopped
\* worker is no alarm, the session is released with the saves settled, a stall keeps the leases
\* until the workers are gone, and the process is replaced only after a whole cleanup.
THEOREM CleanupIsOrderly == Spec => []LanesSafe
<1>1. Init => LanesInv
  BY LanesInit DEF Init
<1>2. LanesInv => LanesSafe
  <2> SUFFICES ASSUME LanesInv PROVE L!LanesSafe
    BY DEF LanesSafe
  <2>0. LaneTypes /\ RunnerTypes /\ CleanedInOrder /\ JoinedInOrder
    BY DEF LanesInv
  <2>1. \A l \in L!Lane : laLane[l] \in LaneRecord /\ LaneFine(laLane[l])
    BY <2>0 DEF LaneTypes
  <2>2. L!TypeOK
    BY <2>0, <2>1 DEF L!TypeOK, RunnerTypes, LaneRecord, LaneFine
  <2>3. L!StopIsNoAlarm
    BY <2>1 DEF L!StopIsNoAlarm, LaneFine
  <2>4. L!ReleasedWhenSettled
    BY DEF LanesInv, SaverSettled, Idle, L!ReleasedWhenSettled
  <2>5. laPhase = "over" /\ laFailures = {} => L!AllGone
    BY <2>0, OrderFacts DEF JoinedInOrder, L!AllGone
  <2>6. L!StallKeepsLeases
    BY <2>0, <2>5 DEF CleanedInOrder, L!StallKeepsLeases
  <2>7. L!ReplacedAfterCleanup
    BY <2>0, <2>5 DEF CleanedInOrder, L!ReplacedAfterCleanup
  <2>8. L!RestartFinishesWork
    BY DEF LanesInv, LoopRuns, L!RestartFinishesWork
  <2> QED BY <2>2, <2>3, <2>4, <2>6, <2>7, <2>8 DEF L!LanesSafe
<1> QED BY <1>1, <1>2, LanesStep, PTL DEF Spec

-----------------------------------------------------------------------------
(* Convergence                                                              *)

UcVersions == 1..UcMaxVersion
UcPending == [op : Nat, target : Nat, expected : SUBSET [slot : UcSlots, gen : Nat],
              acknowledged : SUBSET UcSlots]
UcCaches == [observed : UcVersions, restart : BOOLEAN, pending : UcPending,
             highlights : [slot : UcSlots \cup {"none"}, target : Nat]]
UcPcs == {"off", "loading", "obsolete", "ordinary", "follower", "recover", "newer", "admitted",
          "manual", "candidate", "converging", "deferred", "opened", "resumed", "live"}
UcProcesses ==
  [pc : UcPcs, version : UcVersions, gen : Nat, schema : {"none", "shared", "exclusive"},
   barrier : [op : Nat, target : Nat, quiesced : BOOLEAN],
   proof : [op : Nat, previous : Nat, target : Nat], exact : BOOLEAN, seen : Nat]
UcCoordinators ==
  [pc : {"idle", "prepare", "prepareInstalled", "quiesce", "restart", "finish"},
   op : Nat, target : Nat, todo : SUBSET UcSlots, ready : SUBSET UcSlots,
   quiesced : SUBSET UcSlots, failed : SUBSET UcSlots, recover : BOOLEAN]
UcRequests == [kind : {"prepare", "quiesce"}, to : UcSlots, op : Nat, target : Nat]

\* Everything has its type.
ConvTypes ==
  /\ ucDisk \in UcVersions /\ ucCache \in UcCaches
  /\ ucConv \in [excl : UcSlots \cup {"none"}, shared : SUBSET UcSlots]
  /\ ucInstaller \in UcSlots \cup {"none"}
  /\ ucProc \in [UcSlots -> UcProcesses] /\ ucCo \in [UcSlots -> UcCoordinators]
  /\ ucLate \subseteq UcRequests /\ ucOps \in Nat

IsLive(s) == ucProc[s].pc = "live"
Quiet(s) == ucProc[s].barrier.quiesced = TRUE
LiveBelow(s, v) == IsLive(s) /\ ucProc[s].version < v
External(s) == ucProc[s].pc = "converging"
InApp(s) == ucCo[s].pc # "idle" /\ IsLive(s)
Holds(s) == ucCo[s].pc \in {"prepare", "prepareInstalled", "quiesce"}
Restarts(s) == ucCo[s].pc \in {"restart", "finish"}
Pends == ucCache.pending # U!NoPending

\* A process that runs for its user has its schema lease, or is quiet for ever.
LeaseFine(s) ==
  /\ ucProc[s].pc = "off" => ucProc[s].schema = "none"
  /\ ucProc[s].pc \in {"opened", "resumed"} => ucProc[s].schema # "none"
  /\ IsLive(s) /\ ucProc[s].schema = "none" => Quiet(s)

\* A process is admitted at a version that was recorded, and at the recorded one it opens.
AdmissionFine(s) ==
  /\ ucProc[s].pc \in {"ordinary", "follower", "admitted", "manual"} =>
       ucProc[s].version <= ucCache.observed
  /\ ucProc[s].pc \in {"opened", "resumed"} => ucProc[s].version = ucCache.observed
  /\ ucProc[s].pc \in {"admitted", "manual", "opened", "resumed"} =>
       s \in ucConv.shared \/ ucConv.excl = s

\* Who coordinates up to the restarts, or replaces the schema, is alone.
LockFine(s) ==
  /\ Holds(s) \/ ucProc[s].pc \in {"candidate", "deferred"} => ucConv.excl = s
  /\ Holds(s) \/ ucProc[s].pc = "candidate" => ~Pends

\* A coordinator, its process and its operation.
CoordinatorFine(s) ==
  /\ ucCo[s].pc # "idle" =>
       ucProc[s].pc \in {"live", "converging"} /\ ucCo[s].op \in 1..ucOps
         /\ ucCo[s].target <= UcMaxVersion
  /\ InApp(s) => ucInstaller = s /\ ucProc[s].version < ucCo[s].target
  /\ External(s) => ucCo[s].target = ucProc[s].version /\ ucCo[s].pc # "prepareInstalled"
  /\ ucCo[s].pc = "finish" => ucCo[s].recover = FALSE /\ ucCo[s].todo = {}
OwnOperation ==
  \A s, t \in UcSlots : ucCo[s].pc # "idle" /\ ucCo[t].pc # "idle" /\ ucCo[s].op = ucCo[t].op => s = t

\* A cohort belongs to the recorded version, and excludes every other one.
CohortFine ==
  /\ ucCache.observed <= ucDisk /\ ucCache.pending.op <= ucOps
  /\ Pends => ucCache.pending.op # 0 /\ ucCache.pending.target = ucCache.observed
  /\ \A e \in ucCache.pending.expected : e.gen <= ucProc[e.slot].gen

\* Nobody older lives beside a process that replaces the schema.
DeferredFine(s) ==
  ucProc[s].pc = "deferred" => \A t \in UcSlots : ~LiveBelow(t, ucProc[s].version)

\* A coordinator has met every live owner of an older version.
GatheredFine(s) ==
  /\ ucCo[s].pc = "prepareInstalled" \/ (ucCo[s].pc = "prepare" /\ External(s)) =>
       \A t \in UcSlots : LiveBelow(t, ucCo[s].target) => t \in ucCo[s].todo \cup ucCo[s].ready
  /\ Holds(s) /\ External(s) =>
       \A t \in ucCo[s].todo \cup ucCo[s].ready : IsLive(t) => ucProc[t].version < ucCo[s].target
  /\ ucCo[s].pc = "quiesce" /\ External(s) =>
       /\ ucCo[s].ready \subseteq ucCo[s].todo \cup ucCo[s].quiesced \cup ucCo[s].failed
       /\ \A t \in UcSlots : LiveBelow(t, ucCo[s].target) => t \in ucCo[s].ready
QuietFine(s) ==
  ucCo[s].pc \in {"quiesce", "restart", "finish"} /\ ucCo[s].recover = FALSE =>
    \A t \in UcSlots : LiveBelow(t, ucCo[s].target) =>
      \/ t \in ucCo[s].failed \/ Quiet(t)
      \/ ucCo[s].pc = "quiesce" /\ t \in ucCo[s].todo

\* What a coordinator installed is recorded; if more was recorded since, the cohort waits for
\* the coordinator's own process.
InstalledFine(s) ==
  /\ Restarts(s) /\ ucCo[s].recover = FALSE => ucCache.observed >= ucCo[s].target
  /\ InApp(s) /\ ucCo[s].pc # "prepare" =>
       /\ ucCache.observed >= ucCo[s].target
       /\ ucCache.observed > ucCo[s].target =>
            [slot |-> s, gen |-> ucProc[s].gen] \in ucCache.pending.expected

\* An external coordinator restarts every process its cohort expects.
RestartedFine(s) ==
  Restarts(s) /\ External(s) /\ ucCache.pending.op = ucCo[s].op =>
    \A e \in ucCache.pending.expected :
      e.slot \in ucCo[s].todo \cup ucCo[s].failed \/ ucProc[e.slot].gen > e.gen

\* What is announced has replaced every older version.
AnnouncedFine ==
  /\ ucCache.highlights.target <= ucCache.observed
  /\ \A s \in UcSlots : LiveBelow(s, ucCache.highlights.target) => Quiet(s)

ProcessFine(s) ==
  /\ LeaseFine(s) /\ AdmissionFine(s) /\ LockFine(s) /\ CoordinatorFine(s)
  /\ DeferredFine(s) /\ GatheredFine(s) /\ QuietFine(s) /\ InstalledFine(s)
  /\ RestartedFine(s)

ConvInv ==
  /\ ConvTypes
  /\ ucConv.excl # "none" => ucConv.shared = {}
  /\ OwnOperation /\ CohortFine /\ AnnouncedFine /\ U!CohortExcludesOlder
  /\ \A s \in UcSlots : ProcessFine(s)

-----------------------------------------------------------------------------
(* What a step does to a process                                            *)

\* A process goes on as it was, unless it is made quiet or its barrier is lifted or put up.
Stays(t) ==
  /\ ucProc'[t].pc = ucProc[t].pc /\ ucProc'[t].version = ucProc[t].version
  /\ ucProc'[t].gen = ucProc[t].gen /\ (Quiet(t) => Quiet(t)')
  /\ \/ ucProc'[t].schema = ucProc[t].schema
     \/ ucProc'[t].schema = "none" /\ IsLive(t) /\ Quiet(t)'
\* It exits, or another takes its place.
Leaves(t) ==
  ucProc'[t].pc \in {"off", "loading"} /\ ucProc'[t].schema = "none" /\ ucProc'[t].gen >= ucProc[t].gen

LEMMA ConvIdle ==
  /\ U!IdleCo \in UcCoordinators /\ U!IdleCo.pc = "idle" /\ U!IdleCo.recover = FALSE
  /\ U!NoPending \in UcPending /\ U!NoPending.op = 0 /\ U!NoPending.expected = {}
  /\ U!NoBarrier \in [op : Nat, target : Nat, quiesced : BOOLEAN]
  /\ U!NoProof \in [op : Nat, previous : Nat, target : Nat]
BY DEF U!IdleCo, U!NoPending, U!NoBarrier, U!NoProof, UcCoordinators, UcPending

LEMMA OffProcFacts ==
  ASSUME NEW p \in UcProcesses
  PROVE  /\ U!OffProc(p) \in UcProcesses /\ U!OffProc(p).pc = "off"
         /\ U!OffProc(p).schema = "none" /\ U!OffProc(p).gen = p.gen
         /\ U!OffProc(p).version = p.version /\ U!OffProc(p).barrier = U!NoBarrier
BY ConvIdle DEF U!OffProc, UcProcesses, UcPcs

LEMMA GoneFacts ==
  ASSUME ConvTypes, NEW s \in UcSlots, U!Gone(s)
  PROVE  /\ ucProc' \in [UcSlots -> UcProcesses] /\ ucCo' \in [UcSlots -> UcCoordinators]
         /\ ucConv' \in [excl : UcSlots \cup {"none"}, shared : SUBSET UcSlots]
         /\ ucInstaller' \in UcSlots \cup {"none"}
         /\ Leaves(s) /\ ucCo'[s] = U!IdleCo
         /\ \A t \in UcSlots \ {s} : ucProc'[t] = ucProc[t] /\ ucCo'[t] = ucCo[t]
         /\ ucConv'.shared = ucConv.shared \ {s}
         /\ ucConv'.excl = IF ucConv.excl = s THEN "none" ELSE ucConv.excl
         /\ ucInstaller' = IF ucInstaller = s THEN "none" ELSE ucInstaller
<1>1. /\ ucProc' = [ucProc EXCEPT ![s] = U!OffProc(ucProc[s])]
      /\ ucCo' = [ucCo EXCEPT ![s] = U!IdleCo]
      /\ ucConv' = [excl |-> IF ucConv.excl = s THEN "none" ELSE ucConv.excl,
                    shared |-> ucConv.shared \ {s}]
      /\ ucInstaller' = IF ucInstaller = s THEN "none" ELSE ucInstaller
  BY DEF U!Gone, U!Unlocked, U!None
<1>2. U!OffProc(ucProc[s]) \in UcProcesses /\ ucProc[s] \in UcProcesses
  BY OffProcFacts DEF ConvTypes
<1>3. Leaves(s)
  <2>1. ucProc[s].gen \in Nat /\ ucProc'[s] = U!OffProc(ucProc[s])
    BY <1>1, <1>2 DEF ConvTypes, UcProcesses
  <2>2. ucProc'[s].gen = ucProc[s].gen /\ ucProc'[s].pc = "off" /\ ucProc'[s].schema = "none"
    BY <1>2, <2>1, OffProcFacts
  <2> QED BY <2>1, <2>2 DEF Leaves
<1> QED BY <1>1, <1>2, <1>3, ConvIdle DEF ConvTypes

LEMMA KeptStays ==
  ASSUME NEW t, ucProc'[t] = ucProc[t] PROVE Stays(t)
BY DEF Stays, Quiet

\* What is true of a process and its coordinator stays true of them, if they stay or end,
\* while every other process stays or leaves.
LEMMA ProcessKeeps ==
  ASSUME ConvInv, ConvTypes', UNCHANGED <<ucOps, ucDisk>>,
         ucCache'.observed = ucCache.observed, ucCache'.pending = ucCache.pending,
         \A t \in UcSlots : Stays(t) \/ Leaves(t),
         NEW s \in UcSlots,
         \/ ucCo'[s] = ucCo[s] /\ Stays(s) /\ (ucInstaller = s => ucInstaller' = s)
         \/ ucCo'[s] = U!IdleCo /\ ucProc'[s].pc # "converging",
         ucProc'[s].pc \notin {"off", "loading", "live"} \/ ucCo'[s].pc # "idle" =>
           (s \in ucConv.shared => s \in ucConv'.shared) /\ (ucConv.excl = s => ucConv'.excl = s)
  PROVE  ProcessFine(s)'
<1>a. \A t \in UcSlots : ucProc'[t].gen >= ucProc[t].gen /\ {ucProc[t].gen, ucProc'[t].gen} \subseteq Nat
  BY DEF Stays, Leaves, ConvInv, ConvTypes, UcProcesses
<1>b. \A t \in UcSlots : IsLive(t)' =>
         IsLive(t) /\ ucProc'[t].version = ucProc[t].version /\ (Quiet(t) => Quiet(t)')
  BY DEF Stays, Leaves, IsLive
<1>0. /\ LeaseFine(s) /\ AdmissionFine(s) /\ LockFine(s) /\ CoordinatorFine(s)
      /\ DeferredFine(s) /\ GatheredFine(s) /\ QuietFine(s) /\ InstalledFine(s)
      /\ RestartedFine(s) /\ (Stays(s) \/ Leaves(s))
  BY DEF ConvInv, ProcessFine
<1>1. LeaseFine(s)'
  BY <1>0 DEF LeaseFine, Stays, Leaves, IsLive
<1>2. AdmissionFine(s)'
  BY <1>0 DEF AdmissionFine, Stays, Leaves
<1>3. LockFine(s)'
  BY <1>0, ConvIdle DEF LockFine, Stays, Leaves, Holds, Pends
<1>4. CoordinatorFine(s)'
  BY <1>0, ConvIdle DEF CoordinatorFine, Stays, Leaves, InApp, IsLive, External
<1>5. DeferredFine(s)'
  BY <1>0, <1>b DEF DeferredFine, Stays, Leaves, LiveBelow, IsLive
<1>6. ucCo'[s].pc # "idle" => ucCo'[s] = ucCo[s] /\ Stays(s)
  BY ConvIdle
<1>7. GatheredFine(s)'
  <2>1. CASE ucCo'[s].pc = "idle"
    BY <2>1 DEF GatheredFine, Holds
  <2>2. CASE ucCo'[s].pc # "idle"
    <3>1. /\ ucCo'[s] = ucCo[s] /\ (External(s)' => External(s)) /\ (Holds(s)' => Holds(s))
          /\ \A t \in UcSlots : LiveBelow(t, ucCo[s].target)' => LiveBelow(t, ucCo[s].target)
          /\ \A t \in UcSlots : IsLive(t)' => IsLive(t) /\ ucProc'[t].version = ucProc[t].version
      BY <2>2, <1>6, <1>b DEF Stays, External, LiveBelow, Holds
    <3>2. ucCo[s].todo \cup ucCo[s].ready \subseteq UcSlots
      BY DEF ConvInv, ProcessFine, ConvTypes, UcCoordinators
    <3> QED BY <3>1, <3>2, <1>0 DEF GatheredFine, LiveBelow
  <2> QED BY <2>1, <2>2
<1>8. QuietFine(s)'
  BY <1>0, <1>6, <1>b DEF QuietFine, LiveBelow, IsLive, Quiet
<1>9. InstalledFine(s)'
  BY <1>0, <1>6 DEF InstalledFine, Stays, InApp, IsLive, Restarts
<1>10. RestartedFine(s)'
  <2>1. \A e \in ucCache.pending.expected : e.slot \in UcSlots /\ e.gen \in Nat
    BY DEF ConvInv, ConvTypes, UcCaches, UcPending
  <2> QED BY <2>1, <1>0, <1>6, <1>a DEF RestartedFine, Stays, Restarts, External
<1> QED BY <1>1, <1>2, <1>3, <1>4, <1>5, <1>7, <1>8, <1>9, <1>10 DEF ProcessFine

\* Processes stay or leave: what concerns no single process stays true.
LEMMA SharedKeeps ==
  ASSUME ConvInv, ConvTypes', UNCHANGED <<ucOps, ucDisk>>,
         ucCache'.observed = ucCache.observed, ucCache'.pending = ucCache.pending,
         ucCache' = ucCache \/ AnnouncedFine',
         \A t \in UcSlots : Stays(t) \/ Leaves(t),
         \A t \in UcSlots : ucCo'[t].pc # "idle" => ucCo[t].pc # "idle" /\ ucCo'[t].op = ucCo[t].op,
         ucConv'.shared \subseteq ucConv.shared, ucConv'.excl \in {ucConv.excl, "none"},
         \A t \in UcSlots : ProcessFine(t)'
  PROVE  ConvInv'
<1>1. (ucConv.excl # "none" => ucConv.shared = {})'
  BY DEF ConvInv
<1>2. OwnOperation'
  BY DEF ConvInv, OwnOperation
<1>a. \A t \in UcSlots : ucProc'[t].gen >= ucProc[t].gen /\ {ucProc[t].gen, ucProc'[t].gen} \subseteq Nat
  BY DEF Stays, Leaves, ConvInv, ConvTypes, UcProcesses
<1>b. \A t \in UcSlots : IsLive(t)' =>
         IsLive(t) /\ ucProc'[t].version = ucProc[t].version /\ (Quiet(t) => Quiet(t)')
  BY DEF Stays, Leaves, IsLive
<1>3. CohortFine'
  <2>1. \A e \in ucCache.pending.expected : e.slot \in UcSlots /\ e.gen \in Nat
    BY DEF ConvInv, ConvTypes, UcCaches, UcPending
  <2> QED BY <2>1, <1>a DEF ConvInv, CohortFine, Pends
<1>4. AnnouncedFine'
  <2>1. ASSUME ucCache' = ucCache, NEW s \in UcSlots, IsLive(s)',
               ucProc'[s].version < ucCache.highlights.target
        PROVE  Quiet(s)'
    BY <1>b, <2>1 DEF ConvInv, AnnouncedFine, LiveBelow
  <2> QED BY <2>1 DEF ConvInv, AnnouncedFine, LiveBelow
<1>5. U!CohortExcludesOlder'
  BY DEF ConvInv, U!CohortExcludesOlder, Stays, Leaves, IsLive
<1> QED BY <1>1, <1>2, <1>3, <1>4, <1>5 DEF ConvInv

\* Processes stay or leave, and coordinators go on or end: nothing else is disturbed.
LEMMA LeavingKeeps ==
  ASSUME ConvInv, ConvTypes', UNCHANGED <<ucCache, ucOps, ucDisk>>,
         \A t \in UcSlots : Stays(t) \/ Leaves(t),
         \A t \in UcSlots :
           \/ ucCo'[t] = ucCo[t] /\ Stays(t) /\ (ucInstaller = t => ucInstaller' = t)
           \/ ucCo'[t] = U!IdleCo /\ ucProc'[t].pc # "converging",
         \A t \in UcSlots : ucProc'[t].pc \notin {"off", "loading", "live"} \/ ucCo'[t].pc # "idle" =>
           /\ t \in ucConv.shared => t \in ucConv'.shared
           /\ ucConv.excl = t => ucConv'.excl = t,
         ucConv'.shared \subseteq ucConv.shared, ucConv'.excl \in {ucConv.excl, "none"}
  PROVE  ConvInv'
<1>1. \A t \in UcSlots : ProcessFine(t)'
  BY ProcessKeeps
<1>2. \A t \in UcSlots : ucCo'[t].pc # "idle" => ucCo[t].pc # "idle" /\ ucCo'[t].op = ucCo[t].op
  BY ConvIdle
<1> QED BY <1>1, <1>2, SharedKeeps

\* A process on its way to its session moves on: only its own place is disturbed.
LEMMA StartKeeps ==
  ASSUME ConvInv, ConvTypes', NEW s \in UcSlots,
         UNCHANGED <<ucCache, ucOps, ucDisk, ucCo, ucInstaller>>,
         \A t \in UcSlots \ {s} : ucProc'[t] = ucProc[t],
         ucProc[s].pc \notin {"live", "converging"}, ucProc'[s].pc \notin {"live", "converging"},
         ucProc'[s].gen >= ucProc[s].gen,
         \A t \in UcSlots \ {s} : /\ t \in ucConv.shared => t \in ucConv'.shared
                                  /\ ucConv.excl = t => ucConv'.excl = t,
         ucConv'.excl # "none" => ucConv'.shared = {},
         LeaseFine(s)', AdmissionFine(s)', LockFine(s)', DeferredFine(s)',
         Pends /\ ucProc'[s].schema # "none" => ucProc'[s].version = ucCache.pending.target
  PROVE  ConvInv'
<1>0. /\ ucCo[s].pc = "idle" /\ \A t \in UcSlots : ucProc[t].gen \in Nat /\ ucProc'[t].gen \in Nat
  BY DEF ConvInv, ProcessFine, ConvTypes, UcProcesses, CoordinatorFine
<1>a. \A t \in UcSlots : ucProc'[t].gen >= ucProc[t].gen
  BY <1>0
<1>b. \A t \in UcSlots : IsLive(t)' => t # s /\ IsLive(t) /\ ucProc'[t] = ucProc[t]
  BY DEF IsLive
<1>e. \A e \in ucCache.pending.expected : e.slot \in UcSlots /\ e.gen \in Nat
  BY DEF ConvInv, ProcessFine, ConvTypes, UcCaches, UcPending
<1>2. OwnOperation'
  BY DEF ConvInv, ProcessFine, OwnOperation
<1>3. CohortFine'
  BY <1>e, <1>a, <1>0 DEF ConvInv, ProcessFine, CohortFine, Pends
<1>4. AnnouncedFine'
  BY <1>b DEF ConvInv, ProcessFine, AnnouncedFine, LiveBelow, Quiet
<1>5. U!CohortExcludesOlder'
  BY DEF ConvInv, ProcessFine, U!CohortExcludesOlder, Pends
<1>6. ASSUME NEW t \in UcSlots
      PROVE  /\ LeaseFine(t)' /\ AdmissionFine(t)' /\ LockFine(t)' /\ CoordinatorFine(t)'
             /\ DeferredFine(t)' /\ GatheredFine(t)' /\ QuietFine(t)' /\ InstalledFine(t)'
             /\ RestartedFine(t)'
  <2>0. /\ LeaseFine(t) /\ AdmissionFine(t) /\ LockFine(t) /\ CoordinatorFine(t)
        /\ DeferredFine(t) /\ GatheredFine(t) /\ QuietFine(t) /\ InstalledFine(t)
        /\ RestartedFine(t)
    BY DEF ConvInv, ProcessFine
  <2>1. LeaseFine(t)'
    BY <2>0 DEF LeaseFine, IsLive, Quiet
  <2>2. AdmissionFine(t)'
    BY <2>0 DEF AdmissionFine
  <2>3. LockFine(t)'
    BY <2>0 DEF LockFine, Holds, Pends
  <2>4. CoordinatorFine(t)'
    BY <2>0, <1>0 DEF CoordinatorFine, InApp, IsLive, External
  <2>5. DeferredFine(t)'
    BY <2>0, <1>b DEF DeferredFine, LiveBelow
  <2>6. /\ (External(t)' => External(t)) /\ (Holds(t)' => Holds(t)) /\ ucCo'[t] = ucCo[t]
        /\ \A u \in UcSlots : LiveBelow(u, ucCo[t].target)' => LiveBelow(u, ucCo[t].target)
    BY <1>b DEF External, Holds, LiveBelow
  <2>7. GatheredFine(t)'
    <3>1. ucCo[t].todo \cup ucCo[t].ready \subseteq UcSlots
      BY DEF ConvInv, ProcessFine, ConvTypes, UcCoordinators
    <3> QED BY <2>0, <2>6, <1>b, <3>1 DEF GatheredFine
  <2>8. QuietFine(t)'
    BY <2>0, <2>6, <1>b DEF QuietFine, Quiet, LiveBelow
  <2>9. InstalledFine(t)'
    BY <2>0, <1>0, <1>b DEF InstalledFine, InApp, Restarts
  <2>10. RestartedFine(t)'
    BY <2>0, <2>6, <1>a, <1>0, <1>e DEF RestartedFine, Restarts
  <2> QED BY <2>1, <2>2, <2>3, <2>4, <2>5, <2>7, <2>8, <2>9, <2>10
<1> QED BY <1>2, <1>3, <1>4, <1>5, <1>6 DEF ConvInv, ProcessFine

\* Only a process's place changes.
Moves(s, x) == ucProc' = [ucProc EXCEPT ![s].pc = x]

LEMMA SetPcFacts ==
  ASSUME ConvTypes, NEW s \in UcSlots, NEW x \in UcPcs, Moves(s, x)
  PROVE  /\ ucProc' \in [UcSlots -> UcProcesses] /\ ucProc'[s].pc = x
         /\ ucProc'[s].version = ucProc[s].version /\ ucProc'[s].gen = ucProc[s].gen
         /\ ucProc'[s].schema = ucProc[s].schema /\ ucProc'[s].barrier = ucProc[s].barrier
         /\ ucProc'[s].seen = ucProc[s].seen /\ ucProc[s].gen \in Nat
         /\ \A t \in UcSlots \ {s} : ucProc'[t] = ucProc[t]
BY DEF ConvTypes, UcProcesses, Moves

\* Taking a side of the convergence lock.
LEMMA LockFacts ==
  ASSUME ConvInv, NEW s \in UcSlots,
         (ucConv' = U!Shared(s) /\ U!CanShare) \/ (ucConv' = U!Exclusive(s) /\ U!CanLock)
  PROVE  /\ ucConv' \in [excl : UcSlots \cup {"none"}, shared : SUBSET UcSlots]
         /\ s \in ucConv'.shared \/ ucConv'.excl = s
         /\ ucConv'.excl # "none" => ucConv'.shared = {}
         /\ U!CanLock /\ ucConv' = U!Exclusive(s) => ucConv'.excl = s
         /\ ucConv.excl = "none"
         /\ \A t \in UcSlots \ {s} : /\ t \in ucConv.shared => t \in ucConv'.shared
                                     /\ ucConv.excl = t => ucConv'.excl = t
<1>1. ucConv \in [excl : UcSlots \cup {"none"}, shared : SUBSET UcSlots] /\ "none" \notin UcSlots
  BY ConvergenceAssumption DEF ConvInv, ProcessFine, ConvTypes
<1>2. CASE ucConv' = U!Shared(s) /\ U!CanShare
  BY <1>1, <1>2 DEF U!Shared, U!CanShare, U!CanLock, U!Exclusive, U!None
<1>3. CASE ucConv' = U!Exclusive(s) /\ U!CanLock
  BY <1>1, <1>3 DEF U!Exclusive, U!CanLock, U!None
<1> QED BY <1>2, <1>3

\* An admission to the shared or to the exclusive side.
LEMMA AdmitKeeps ==
  ASSUME ConvInv, NEW s \in UcSlots, NEW x \in {"admitted", "manual", "candidate"},
         UNCHANGED <<ucCache, ucOps, ucDisk, ucCo, ucInstaller, ucLate>>,
         Moves(s, x),
         ucProc[s].pc \in {"ordinary", "follower", "recover", "newer"},
         x \in {"admitted", "manual"} => ucProc[s].version <= ucCache.observed,
         (ucConv' = U!Shared(s) /\ U!CanShare) \/ (ucConv' = U!Exclusive(s) /\ U!CanLock),
         x = "candidate" => ucConv' = U!Exclusive(s) /\ U!CanLock /\ ~Pends
  PROVE  ConvInv'
<1>1. ConvTypes /\ x \in UcPcs
  BY DEF ConvInv, ProcessFine, UcPcs
<1>2. ConvTypes'
  BY <1>1, SetPcFacts, LockFacts DEF ConvTypes
<1>3. ucCo'[s].pc = "idle"
  BY DEF ConvInv, ProcessFine, CoordinatorFine
<1>4. /\ LeaseFine(s)' /\ DeferredFine(s)'
  BY <1>1, SetPcFacts DEF LeaseFine, IsLive, DeferredFine
<1>5. AdmissionFine(s)' /\ LockFine(s)'
  BY <1>1, <1>3, SetPcFacts, LockFacts DEF AdmissionFine, LockFine, Holds, Pends
<1>6. Pends /\ ucProc'[s].schema # "none" => ucProc'[s].version = ucCache.pending.target
  BY <1>1, SetPcFacts DEF ConvInv, ProcessFine, U!CohortExcludesOlder, Pends
<1>7. ucProc'[s].gen >= ucProc[s].gen
  <2>1. ucProc'[s].gen = ucProc[s].gen /\ ucProc[s].gen \in Nat
    BY <1>1, SetPcFacts
  <2> QED BY <2>1
<1> QED BY <1>1, <1>2, <1>4, <1>5, <1>6, <1>7, SetPcFacts, LockFacts, StartKeeps

\* A process that is gone leaves nothing behind.
LEMMA GoneKeeps ==
  ASSUME ConvInv, NEW s \in UcSlots, U!Gone(s), UNCHANGED <<ucCache, ucOps, ucDisk>>,
         ucLate' \subseteq UcRequests
  PROVE  ConvInv'
<1>0. ConvTypes /\ "none" \notin UcSlots
  BY ConvergenceAssumption DEF ConvInv, ProcessFine
<1>1. ConvTypes'
  BY <1>0, GoneFacts DEF ConvTypes
<1>2. \A t \in UcSlots \ {s} : Stays(t)
  BY <1>0, GoneFacts, KeptStays
<1>3. \A t \in UcSlots : Stays(t) \/ Leaves(t)
  BY <1>0, <1>2, GoneFacts
<1>4. \A t \in UcSlots :
        \/ ucCo'[t] = ucCo[t] /\ Stays(t) /\ (ucInstaller = t => ucInstaller' = t)
        \/ ucCo'[t] = U!IdleCo /\ ucProc'[t].pc # "converging"
  BY <1>0, <1>2, GoneFacts DEF Leaves
<1>5. \A t \in UcSlots : ucProc'[t].pc \notin {"off", "loading", "live"} \/ ucCo'[t].pc # "idle" =>
        /\ t \in ucConv.shared => t \in ucConv'.shared
        /\ ucConv.excl = t => ucConv'.excl = t
  BY <1>0, GoneFacts, ConvIdle DEF Leaves
<1>6. ucConv'.shared \subseteq ucConv.shared /\ ucConv'.excl \in {ucConv.excl, "none"}
  BY <1>0, GoneFacts
<1> QED BY <1>1, <1>3, <1>4, <1>5, <1>6, LeavingKeeps

LEMMA ConvLaunch ==
  ASSUME ConvInv, NEW s \in UcSlots, U!Launch(s) PROVE ConvInv'
<1>0. ConvTypes /\ ucProc[s] \in UcProcesses /\ ucProc[s].pc = "off" /\ ucDisk \in UcVersions
  BY DEF ConvInv, ProcessFine, ConvTypes, U!Launch
<1>1. PICK exact \in BOOLEAN :
        ucProc' = [ucProc EXCEPT ![s] = [ucProc[s] EXCEPT !.pc = "loading", !.version = ucDisk,
                                           !.gen = ucProc[s].gen + 1, !.exact = exact]]
  BY DEF U!Launch
<1>2. /\ ucProc'[s] \in UcProcesses /\ ucProc'[s].pc = "loading"
      /\ ucProc'[s].gen = ucProc[s].gen + 1 /\ ucProc[s].gen \in Nat
      /\ ucProc'[s].schema = ucProc[s].schema
  <2>1. ucProc'[s] = [ucProc[s] EXCEPT !.pc = "loading", !.version = ucDisk,
                                       !.gen = ucProc[s].gen + 1, !.exact = exact]
    BY <1>0, <1>1 DEF ConvTypes
  <2>2. exact \in BOOLEAN /\ ucProc[s].gen \in Nat /\ ucProc[s].gen + 1 \in Nat /\ "loading" \in UcPcs
    BY <1>0, <1>1 DEF UcProcesses, UcPcs
  <2> QED BY <1>0, <2>1, <2>2 DEF UcProcesses
<1>3. UNCHANGED <<ucDisk, ucCache, ucConv, ucInstaller, ucCo, ucLate, ucOps>>
  BY DEF U!Launch
<1>4. ConvTypes' /\ \A t \in UcSlots \ {s} : ucProc'[t] = ucProc[t]
  BY <1>0, <1>1, <1>2, <1>3 DEF ConvTypes
<1>5. ucProc'[s].schema = "none" /\ ucCo'[s].pc = "idle"
  BY <1>0, <1>2, <1>3 DEF ConvInv, ProcessFine, LeaseFine, CoordinatorFine
<1>6. LeaseFine(s)' /\ AdmissionFine(s)' /\ LockFine(s)' /\ DeferredFine(s)'
  BY <1>2, <1>5 DEF LeaseFine, AdmissionFine, LockFine, DeferredFine, IsLive, Holds
<1>7. ucConv'.excl # "none" => ucConv'.shared = {}
  BY <1>3 DEF ConvInv, ProcessFine
<1>8. ucProc'[s].gen >= ucProc[s].gen
  BY <1>2
<1> QED BY <1>0, <1>2, <1>3, <1>4, <1>5, <1>6, <1>7, <1>8, StartKeeps

LEMMA ConvLoadCache ==
  ASSUME ConvInv, NEW s \in UcSlots, U!LoadCache(s) PROVE ConvInv'
<1>0. ConvTypes /\ ucProc[s] \in UcProcesses /\ ucProc[s].pc = "loading" /\ ucCache.observed \in Nat
  BY DEF ConvInv, ProcessFine, ConvTypes, U!LoadCache, UcCaches, UcVersions
<1>a. PICK x \in {"obsolete", "newer", "ordinary", "follower", "recover"} :
        /\ ucProc' = [ucProc EXCEPT ![s].pc = x, ![s].seen = ucCache.observed]
        /\ x \in {"ordinary", "follower"} =>
             ~(ucProc[s].version < ucCache.observed) /\ ~(ucProc[s].version > ucCache.observed)
  <2>1. ucProc' = [ucProc EXCEPT ![s].pc =
                     IF ucProc[s].version < ucCache.observed THEN "obsolete"
                     ELSE IF ucProc[s].version > ucCache.observed
                     THEN IF ucCache.pending = U!NoPending THEN "newer" ELSE "obsolete"
                     ELSE IF ucCache.pending = U!NoPending THEN "ordinary"
                     ELSE IF U!MayEnterPending(s) THEN "follower" ELSE "recover",
                                  ![s].seen = ucCache.observed]
    BY DEF U!LoadCache
  <2> QED BY <2>1
<1>1. /\ ucProc' = [ucProc EXCEPT ![s].pc = x, ![s].seen = ucCache.observed]
      /\ x \in {"ordinary", "follower"} => ucProc[s].version <= ucCache.observed
      /\ x \in {"obsolete", "newer", "ordinary", "follower", "recover"}
  <2>1. ucProc[s].version \in Nat
    BY <1>0 DEF UcProcesses, UcVersions
  <2> QED BY <1>a, <2>1, <1>0
<1>2. /\ ucProc'[s] \in UcProcesses /\ ucProc'[s].pc = x
      /\ ucProc'[s].gen = ucProc[s].gen /\ ucProc[s].gen \in Nat
      /\ ucProc'[s].schema = ucProc[s].schema /\ ucProc'[s].version = ucProc[s].version
      /\ \A t \in UcSlots \ {s} : ucProc'[t] = ucProc[t]
      /\ ucProc' \in [UcSlots -> UcProcesses]
  BY <1>0, <1>1 DEF UcProcesses, UcPcs, ConvTypes
<1>3. UNCHANGED <<ucDisk, ucCache, ucConv, ucInstaller, ucCo, ucLate, ucOps>>
  BY DEF U!LoadCache
<1>4. ConvTypes'
  BY <1>0, <1>2, <1>3 DEF ConvTypes
<1>5. ucCo'[s].pc = "idle"
  BY <1>0, <1>3 DEF ConvInv, ProcessFine, CoordinatorFine
<1>6. LeaseFine(s)' /\ AdmissionFine(s)' /\ LockFine(s)' /\ DeferredFine(s)'
  BY <1>1, <1>2, <1>3, <1>5 DEF LeaseFine, AdmissionFine, LockFine, DeferredFine, IsLive, Holds
<1>7. Pends /\ ucProc'[s].schema # "none" => ucProc'[s].version = ucCache.pending.target
  BY <1>2 DEF ConvInv, ProcessFine, U!CohortExcludesOlder, Pends
<1>8. ucConv'.excl # "none" => ucConv'.shared = {}
  BY <1>3 DEF ConvInv, ProcessFine
<1>9. ucProc'[s].gen >= ucProc[s].gen
  BY <1>2
<1> QED BY <1>0, <1>2, <1>3, <1>4, <1>6, <1>7, <1>8, <1>9, StartKeeps

LEMMA ConvAdmit ==
  ASSUME ConvInv, NEW s \in UcSlots,
         U!RefuseStart(s) \/ U!AdmitOrdinary(s) \/ U!AdmitFollower(s) \/ U!FollowConvergence(s)
  PROVE  ConvInv'
<1>0. /\ UNCHANGED <<ucDisk, ucCache, ucLate, ucOps>> /\ ucLate' \subseteq UcRequests
      /\ ucProc[s].version \in Nat /\ ucCache.observed \in Nat
  BY DEF ConvInv, ProcessFine, ConvTypes, UcProcesses, UcCaches, UcVersions, U!RefuseStart, U!AdmitOrdinary,
         U!AdmitFollower, U!FollowConvergence
<1>1. \/ U!Gone(s)
      \/ /\ U!CanShare /\ ucConv' = U!Shared(s) /\ Moves(s, "admitted")
         /\ UNCHANGED <<ucInstaller, ucCo>> /\ ucProc[s].pc \in {"ordinary", "follower", "newer"}
         /\ ucProc[s].pc = "newer" => ucCache.observed = ucProc[s].version
  BY DEF U!RefuseStart, U!AdmitOrdinary, U!AdmitFollower, U!FollowConvergence, Moves
<1>2. ucProc[s].pc \in {"ordinary", "follower"} => ucProc[s].version <= ucCache.observed
  BY DEF ConvInv, ProcessFine, AdmissionFine
<1>3. CASE U!Gone(s)
  BY <1>0, <1>3, GoneKeeps
<1>4. CASE ~U!Gone(s)
  <2>1. ucProc[s].version <= ucCache.observed
    BY <1>0, <1>1, <1>2, <1>4
  <2>2. /\ U!CanShare /\ ucConv' = U!Shared(s) /\ Moves(s, "admitted")
        /\ UNCHANGED <<ucInstaller, ucCo>>
        /\ ucProc[s].pc \in {"ordinary", "follower", "recover", "newer"}
    BY <1>1, <1>4
  <2> QED BY <1>0, <2>1, <2>2, AdmitKeeps
<1> QED BY <1>3, <1>4

LEMMA ConvOpenStore ==
  ASSUME ConvInv, NEW s \in UcSlots, U!OpenStore(s) PROVE ConvInv'
<1>0. /\ UNCHANGED <<ucDisk, ucCache, ucLate, ucOps>> /\ ucLate' \subseteq UcRequests
      /\ ucProc[s].pc \in {"admitted", "manual"}
  BY DEF ConvInv, ProcessFine, ConvTypes, U!OpenStore
<1>1. CASE U!Gone(s)
  BY <1>0, <1>1, GoneKeeps
<1>2. CASE ~U!Gone(s)
  <2>1. /\ ucDisk = ucProc[s].version /\ UNCHANGED <<ucConv, ucInstaller, ucCo>>
        /\ ucProc' = [ucProc EXCEPT ![s].schema = "shared",
                                    ![s].pc = IF @ = "manual" THEN "resumed" ELSE "opened"]
    BY <1>2 DEF U!OpenStore, U!Verified
  <2>2. /\ ucProc' \in [UcSlots -> UcProcesses] /\ ucProc'[s].pc \in {"opened", "resumed"}
        /\ ucProc'[s].version = ucProc[s].version /\ ucProc'[s].gen = ucProc[s].gen
        /\ ucProc'[s].schema = "shared" /\ ucProc[s].gen \in Nat
        /\ \A t \in UcSlots \ {s} : ucProc'[t] = ucProc[t]
    <3>0. ucProc \in [UcSlots -> UcProcesses]
      BY DEF ConvInv, ProcessFine, ConvTypes
    <3>1. PICK x \in {"opened", "resumed"} :
            ucProc' = [ucProc EXCEPT ![s].schema = "shared", ![s].pc = x]
      BY <2>1, <3>0
    <3>2. x \in UcPcs /\ x \in {"opened", "resumed"}
      BY <3>1 DEF UcPcs
    <3> QED BY <3>0, <3>1, <3>2 DEF UcProcesses
  <2>3. ConvTypes'
    BY <1>0, <2>1, <2>2 DEF ConvInv, ProcessFine, ConvTypes
  <2>4. ucProc[s].version = ucCache.observed
    <3>1. ucProc[s].version <= ucCache.observed /\ ucCache.observed <= ucDisk
      BY <1>0 DEF ConvInv, ProcessFine, AdmissionFine, CohortFine
    <3>2. ucProc[s].version \in Nat /\ ucCache.observed \in Nat
      BY DEF ConvInv, ProcessFine, ConvTypes, UcProcesses, UcCaches, UcVersions
    <3> QED BY <3>1, <3>2, <2>1
  <2>5. ucCo'[s].pc = "idle"
    BY <1>0, <2>1 DEF ConvInv, ProcessFine, CoordinatorFine
  <2>6. LeaseFine(s)' /\ LockFine(s)' /\ DeferredFine(s)'
    BY <2>2, <2>5 DEF LeaseFine, LockFine, DeferredFine, IsLive, Holds
  <2>7. AdmissionFine(s)'
    BY <1>0, <2>1, <2>2, <2>4 DEF ConvInv, ProcessFine, AdmissionFine
  <2>8. Pends => ucProc'[s].version = ucCache.pending.target
    BY <2>2, <2>4 DEF ConvInv, ProcessFine, CohortFine
  <2>9. /\ ucConv'.excl # "none" => ucConv'.shared = {}
        /\ ucProc'[s].gen >= ucProc[s].gen
    BY <2>1, <2>2 DEF ConvInv, ProcessFine
  <2> QED BY <1>0, <2>1, <2>2, <2>3, <2>6, <2>7, <2>8, <2>9, StartKeeps
<1> QED BY <1>1, <1>2

LEMMA CompletedFacts ==
  ASSUME ConvTypes, ucCache' = U!Completed
  PROVE  /\ ucCache' \in UcCaches /\ ucCache'.observed = ucCache.observed
         /\ ucCache'.highlights = ucCache.highlights /\ ucCache'.pending = U!NoPending
         /\ ucCache'.restart = FALSE
BY ConvIdle DEF U!Completed, ConvTypes, UcCaches

\* A recorded restart is completed by a process that is admitted, when no coordinator waits
\* for its own process in that cohort.
LEMMA CompletingKeeps ==
  ASSUME ConvInv, NEW s \in UcSlots, ucCache' = U!Completed,
         UNCHANGED <<ucOps, ucDisk, ucInstaller, ucLate>>, Moves(s, "admitted"),
         ucProc[s].pc # "live", ucProc[s].version <= ucCache.observed,
         (ucConv' = U!Shared(s) /\ U!CanShare) \/ (ucConv' = U!Exclusive(s) /\ U!CanLock),
         ucCo' \in [UcSlots -> UcCoordinators], ucCo'[s].pc = "idle",
         \A t \in UcSlots \ {s} : ucCo'[t] = ucCo[t],
         \A t \in UcSlots : InApp(t) /\ ucCo[t].pc # "prepare" => ~(ucCache.observed > ucCo[t].target)
  PROVE  ConvInv'
<1>0. ConvTypes /\ "admitted" \in UcPcs /\ "none" \notin UcSlots
  BY ConvergenceAssumption DEF ConvInv, ProcessFine, UcPcs
<1>1. ConvTypes'
  BY <1>0, SetPcFacts, LockFacts, CompletedFacts DEF ConvTypes
<1>2. \A t \in UcSlots : ~Holds(t)
  BY <1>0, LockFacts DEF ConvInv, ProcessFine, LockFine
<1>b. /\ \A t \in UcSlots : IsLive(t)' => t # s /\ IsLive(t) /\ ucProc'[t] = ucProc[t]
      /\ \A t \in UcSlots : ucProc'[t].gen = ucProc[t].gen
      /\ ~Pends' /\ ucCache'.pending.op = 0 /\ ucCache'.pending.expected = {}
  BY <1>0, SetPcFacts, CompletedFacts, ConvIdle DEF IsLive, Pends
<1>3. OwnOperation'
  BY DEF ConvInv, ProcessFine, OwnOperation
<1>4. CohortFine' /\ U!CohortExcludesOlder'
  <2>1. ucOps \in Nat /\ ucOps' = ucOps /\ ucDisk' = ucDisk /\ ucCache'.observed = ucCache.observed
    BY <1>0, CompletedFacts DEF ConvTypes
  <2>2. CohortFine'
    BY <1>b, <2>1 DEF ConvInv, ProcessFine, CohortFine
  <2> QED BY <1>b, <2>2 DEF U!CohortExcludesOlder, Pends
<1>5. AnnouncedFine'
  BY <1>0, <1>b, CompletedFacts DEF ConvInv, ProcessFine, AnnouncedFine, LiveBelow, Quiet
<1>6. ASSUME NEW t \in UcSlots
      PROVE  /\ LeaseFine(t)' /\ AdmissionFine(t)' /\ LockFine(t)' /\ CoordinatorFine(t)'
             /\ DeferredFine(t)' /\ GatheredFine(t)' /\ QuietFine(t)' /\ InstalledFine(t)'
             /\ RestartedFine(t)'
  <2>0. /\ LeaseFine(t) /\ AdmissionFine(t) /\ LockFine(t) /\ CoordinatorFine(t)
        /\ DeferredFine(t) /\ GatheredFine(t) /\ QuietFine(t) /\ InstalledFine(t)
        /\ RestartedFine(t)
    BY DEF ConvInv, ProcessFine
  <2>a. /\ ucCache'.observed = ucCache.observed /\ ucProc'[s].pc = "admitted"
        /\ ucProc'[s].version = ucProc[s].version
        /\ t # s => ucProc'[t] = ucProc[t] /\ ucCo'[t] = ucCo[t]
    BY <1>0, CompletedFacts, SetPcFacts
  <2>1. LeaseFine(t)'
    BY <2>0, <2>a DEF LeaseFine, IsLive, Quiet
  <2>2. AdmissionFine(t)'
    BY <1>0, <2>0, <2>a, LockFacts DEF AdmissionFine
  <2>3. ~Holds(t)' /\ LockFine(t)'
    BY <1>0, <1>2, <1>b, <2>0, <2>a, LockFacts DEF LockFine, Holds
  <2>4. CoordinatorFine(t)'
    BY <2>0, <2>a DEF CoordinatorFine, InApp, IsLive, External
  <2>5. DeferredFine(t)'
    BY <2>0, <2>a, <1>b DEF DeferredFine, LiveBelow
  <2>7. GatheredFine(t)'
    BY <2>3 DEF GatheredFine, Holds
  <2>8. QuietFine(t)'
    BY <2>0, <2>a, <2>3, <1>b DEF QuietFine, Quiet, LiveBelow, Holds
  <2>9. InstalledFine(t)'
    BY <2>0, <2>a, <1>b DEF InstalledFine, InApp, Restarts, IsLive
  <2>10. RestartedFine(t)'
    BY <1>b DEF RestartedFine
  <2> QED BY <2>1, <2>2, <2>3, <2>4, <2>5, <2>7, <2>8, <2>9, <2>10
<1>7. (ucConv.excl # "none" => ucConv.shared = {})'
  BY LockFacts
<1> QED BY <1>1, <1>3, <1>4, <1>5, <1>6, <1>7 DEF ConvInv, ProcessFine

LEMMA ConvRecoverLocked ==
  ASSUME ConvInv, NEW s \in UcSlots, U!RecoverLocked(s), U!CanLock,
         ucProc[s].pc \in {"recover", "newer"}, ucCache.observed = ucProc[s].version,
         UNCHANGED <<ucDisk, ucLate, ucOps>>
  PROVE  ConvInv'
<1>0. /\ ucLate' \subseteq UcRequests /\ ucProc[s].version \in Nat /\ ConvTypes
      /\ ucProc[s].version <= ucCache.observed
  BY DEF ConvInv, ProcessFine, ConvTypes, UcProcesses, UcVersions
<1>1. CASE U!Gone(s) /\ UNCHANGED ucCache
  BY <1>0, <1>1, GoneKeeps
<1>2. CASE ucConv' = U!Exclusive(s) /\ Moves(s, "manual") /\ UNCHANGED <<ucCache, ucInstaller, ucCo>>
  BY <1>0, <1>2, AdmitKeeps
<1>3. CASE /\ U!Older(ucProc[s].version) = {} /\ ucConv' = U!Exclusive(s) /\ ucCache' = U!Completed
           /\ Moves(s, "admitted") /\ UNCHANGED <<ucInstaller, ucCo>>
  <2>1. ASSUME NEW t \in UcSlots, InApp(t), ucCo[t].pc # "prepare", ucCache.observed > ucCo[t].target
        PROVE  FALSE
    <3>1. ucProc[t].version < ucCo[t].target /\ IsLive(t)
      BY <2>1 DEF ConvInv, ProcessFine, CoordinatorFine, InApp
    <3>2. ucProc[t].version \in Nat /\ ucCo[t].target \in Nat
      BY <1>0 DEF ConvTypes, UcProcesses, UcCoordinators, UcVersions
    <3>3. ucProc[t].version < ucProc[s].version
      BY <1>0, <2>1, <3>1, <3>2
    <3> QED BY <1>3, <3>1, <3>3 DEF U!Older, U!Live, IsLive
  <2>2. ucCo' \in [UcSlots -> UcCoordinators] /\ ucCo'[s].pc = "idle"
    BY <1>0, <1>3 DEF ConvTypes, ConvInv, ProcessFine, CoordinatorFine
  <2>3. \A t \in UcSlots : InApp(t) /\ ucCo[t].pc # "prepare" => ~(ucCache.observed > ucCo[t].target)
    BY <2>1
  <2> QED BY <1>0, <1>3, <2>2, <2>3, CompletingKeeps
<1> QED BY <1>1, <1>2, <1>3 DEF U!RecoverLocked, Moves

LEMMA ConvRecover ==
  ASSUME ConvInv, NEW s \in UcSlots, U!RecoverPending(s) \/ U!ReconcileNewer(s) PROVE ConvInv'
<1>0. /\ UNCHANGED <<ucDisk, ucLate, ucOps>> /\ ucLate' \subseteq UcRequests /\ ConvTypes
      /\ ucProc[s].pc \in {"recover", "newer"} /\ ucProc[s].version \in Nat
  BY DEF ConvInv, ProcessFine, ConvTypes, U!RecoverPending, U!ReconcileNewer, UcProcesses, UcVersions
<1>1. CASE U!Gone(s) /\ UNCHANGED ucCache
  BY <1>0, <1>1, GoneKeeps
<1>2. CASE U!RecoverLocked(s) /\ U!CanLock /\ ucCache.observed = ucProc[s].version
  BY <1>0, <1>2, ConvRecoverLocked
<1>3. CASE /\ U!CanLock /\ ucConv' = U!Exclusive(s) /\ Moves(s, "admitted")
           /\ ucCache.observed = ucProc[s].version /\ UNCHANGED <<ucCache, ucInstaller, ucCo>>
  <2>1. ucProc[s].version <= ucCache.observed
    BY <1>0, <1>3
  <2> QED BY <1>0, <1>3, <2>1, AdmitKeeps
<1>4. CASE /\ U!CanLock /\ ucConv' = U!Exclusive(s) /\ Moves(s, "candidate") /\ ~Pends
           /\ UNCHANGED <<ucCache, ucInstaller, ucCo>>
  BY <1>0, <1>4, AdmitKeeps
<1>5. CASE /\ Moves(s, "follower") /\ ucCache.observed = ucProc[s].version
           /\ UNCHANGED <<ucConv, ucCache, ucInstaller, ucCo>>
  <2>0. "follower" \in UcPcs
    BY DEF UcPcs
  <2>1. ConvTypes'
    BY <1>0, <1>5, <2>0, SetPcFacts DEF ConvTypes
  <2>2. ucCo'[s].pc = "idle"
    BY <1>0, <1>5 DEF ConvInv, ProcessFine, CoordinatorFine
  <2>3. ucProc[s].version <= ucCache.observed
    BY <1>0, <1>5
  <2>4. LeaseFine(s)' /\ AdmissionFine(s)' /\ LockFine(s)' /\ DeferredFine(s)'
    BY <1>0, <1>5, <2>0, <2>2, <2>3, SetPcFacts
       DEF LeaseFine, AdmissionFine, LockFine, DeferredFine, IsLive, Holds
  <2>5. Pends /\ ucProc'[s].schema # "none" => ucProc'[s].version = ucCache.pending.target
    BY <1>0, <1>5, <2>0, SetPcFacts DEF ConvInv, ProcessFine, U!CohortExcludesOlder, Pends
  <2>6. ucProc'[s].gen = ucProc[s].gen /\ ucProc[s].gen \in Nat
    BY <1>0, <1>5, <2>0, SetPcFacts
  <2>7. ucProc'[s].gen >= ucProc[s].gen /\ (ucConv'.excl # "none" => ucConv'.shared = {})
    BY <1>5, <2>6 DEF ConvInv, ProcessFine
  <2> QED BY <1>0, <1>5, <2>0, <2>1, <2>4, <2>5, <2>7, SetPcFacts, StartKeeps
<1> QED BY <1>1, <1>2, <1>3, <1>4, <1>5 DEF U!RecoverPending, U!ReconcileNewer, Moves, Pends

LEMMA ConvDeparts ==
  ASSUME ConvInv, NEW s \in UcSlots, U!Quit(s) \/ U!Crash(s) \/ U!EndRecovery(s) PROVE ConvInv'
<1>1. U!Gone(s) /\ UNCHANGED <<ucCache, ucOps, ucDisk>> /\ ucLate' \subseteq UcRequests
  BY DEF ConvInv, ProcessFine, ConvTypes, U!Quit, U!Crash, U!EndRecovery
<1> QED BY <1>1, GoneKeeps

LEMMA ConvInstallExternally ==
  ASSUME ConvInv, U!InstallExternally PROVE ConvInv'
<1>1. /\ UNCHANGED <<ucCache, ucConv, ucInstaller, ucProc, ucCo, ucLate, ucOps>>
      /\ ucDisk' = ucDisk + 1 /\ ucDisk \in UcVersions /\ ucDisk < UcMaxVersion
      /\ ucCache.observed \in Nat /\ ucDisk \in Nat /\ UcMaxVersion \in Nat
  BY ConvergenceAssumption DEF ConvInv, ProcessFine, ConvTypes, U!InstallExternally, UcVersions, UcCaches
<1>2. ConvTypes'
  <2>1. ucDisk' \in UcVersions
    BY <1>1 DEF UcVersions
  <2> QED BY <1>1, <2>1 DEF ConvInv, ProcessFine, ConvTypes
<1>3. CohortFine'
  <2>1. ucCache.observed <= ucDisk
    BY DEF ConvInv, ProcessFine, CohortFine
  <2>2. ucCache'.observed <= ucDisk'
    BY <1>1, <2>1
  <2> QED BY <1>1, <2>2 DEF ConvInv, ProcessFine, CohortFine, Pends
<1>4. (ucConv.excl # "none" => ucConv.shared = {})' /\ OwnOperation' /\ AnnouncedFine'
      /\ U!CohortExcludesOlder'
  BY <1>1 DEF ConvInv, ProcessFine, OwnOperation, AnnouncedFine, U!CohortExcludesOlder, LiveBelow, Quiet, IsLive
<1>5. ASSUME NEW t \in UcSlots
      PROVE  /\ LeaseFine(t)' /\ AdmissionFine(t)' /\ LockFine(t)' /\ CoordinatorFine(t)'
             /\ DeferredFine(t)' /\ GatheredFine(t)' /\ QuietFine(t)' /\ InstalledFine(t)'
             /\ RestartedFine(t)'
  BY <1>1 DEF ConvInv, ProcessFine, LeaseFine, AdmissionFine, LockFine, CoordinatorFine, DeferredFine, GatheredFine,
       QuietFine, InstalledFine, RestartedFine, LiveBelow, Quiet, IsLive, External, InApp, Holds,
       Restarts, Pends
<1> QED BY <1>2, <1>3, <1>4, <1>5 DEF ConvInv, ProcessFine

-----------------------------------------------------------------------------
(* The owner's side                                                         *)

LEMMA BarrierFacts ==
  ASSUME NEW p \in UcProcesses, NEW b \in [op : Nat, target : Nat, quiesced : BOOLEAN]
  PROVE  LET q == [p EXCEPT !.barrier = b]
         IN /\ q \in UcProcesses /\ q.pc = p.pc /\ q.version = p.version /\ q.gen = p.gen
            /\ q.schema = p.schema /\ q.barrier = b
BY DEF UcProcesses

\* A release, a preparation and a quiescence leave a process what it is.
LEMMA ReleasedStays ==
  ASSUME ConvTypes, NEW t \in UcSlots, NEW op, ucProc'[t] = U!Released(t, op)
  PROVE  ucProc'[t] \in UcProcesses /\ Stays(t)
<1>0. ucProc[t] \in UcProcesses
  BY DEF ConvTypes
<1>1. CASE ucProc'[t] = ucProc[t]
  BY <1>0, <1>1, KeptStays
<1>2. CASE ucProc'[t] = [ucProc[t] EXCEPT !.barrier = U!NoBarrier] /\ ~ucProc[t].barrier.quiesced
  BY <1>0, <1>2, BarrierFacts, ConvIdle DEF Stays, Quiet
<1> QED BY <1>1, <1>2 DEF U!Released

LEMMA PreparedStays ==
  ASSUME ConvTypes, NEW t \in UcSlots, NEW op \in Nat, NEW target \in Nat, U!CanPrepare(t, op, target),
         ucProc'[t] = U!Prepared(t, op, target)
  PROVE  ucProc'[t] \in UcProcesses /\ Stays(t)
<1>0. ucProc[t] \in UcProcesses
  BY DEF ConvTypes
<1>1. ~Quiet(t)
  BY DEF U!CanPrepare, U!NoBarrier, Quiet
<1> DEFINE b == [op |-> op, target |-> target, quiesced |-> FALSE]
<1>2. b \in [op : Nat, target : Nat, quiesced : BOOLEAN]
  OBVIOUS
<1>3. ucProc'[t] = [ucProc[t] EXCEPT !.barrier = b]
  BY DEF U!Prepared
<1> HIDE DEF b
<1> QED BY <1>0, <1>1, <1>2, <1>3, BarrierFacts DEF Stays

LEMMA QuiescedStays ==
  ASSUME ConvTypes, NEW t \in UcSlots, NEW op, NEW target, U!CanQuiesce(t, op, target),
         ucProc'[t] = U!Quiesced(t)
  PROVE  ucProc'[t] \in UcProcesses /\ Stays(t) /\ Quiet(t)'
<1>0. ucProc[t] \in UcProcesses /\ ucProc[t].pc = "live"
  BY DEF ConvTypes, U!CanQuiesce
<1>1. ucProc'[t] = [ucProc[t] EXCEPT !.barrier.quiesced = TRUE, !.schema = "none"]
  BY DEF U!Quiesced
<1>2. /\ ucProc'[t] \in UcProcesses /\ ucProc'[t].pc = "live" /\ ucProc'[t].schema = "none"
      /\ ucProc'[t].version = ucProc[t].version /\ ucProc'[t].gen = ucProc[t].gen
      /\ ucProc'[t].barrier.quiesced = TRUE
  <2>1. ucProc[t].barrier \in [op : Nat, target : Nat, quiesced : BOOLEAN]
    BY <1>0 DEF UcProcesses
  <2>2. PICK b \in [op : Nat, target : Nat, quiesced : BOOLEAN] :
          b = [ucProc[t].barrier EXCEPT !.quiesced = TRUE]
    BY <2>1
  <2>3. ucProc'[t] = [ucProc[t] EXCEPT !.barrier = b, !.schema = "none"]
    BY <1>0, <1>1, <2>2 DEF UcProcesses
  <2>4. b.quiesced = TRUE /\ b \in [op : Nat, target : Nat, quiesced : BOOLEAN]
    BY <2>1, <2>2
  <2>5. ucProc'[t] \in UcProcesses
    BY <1>0, <2>3, <2>4 DEF UcProcesses
  <2>6. ucProc'[t].barrier = b /\ ucProc'[t].schema = "none"
    BY <1>0, <2>3 DEF UcProcesses
  <2>7. /\ ucProc'[t].pc = ucProc[t].pc
        /\ ucProc'[t].version = ucProc[t].version /\ ucProc'[t].gen = ucProc[t].gen
    BY <1>0, <2>3 DEF UcProcesses
  <2> QED BY <1>0, <2>4, <2>5, <2>6, <2>7
<1> QED BY <1>0, <1>2 DEF Stays, Quiet, IsLive

\* Owners stay, and nothing else happens.
LEMMA StayingKeeps ==
  ASSUME ConvInv, ConvTypes', UNCHANGED <<ucCache, ucOps, ucDisk, ucConv, ucInstaller, ucCo>>,
         \A t \in UcSlots : Stays(t)
  PROVE  ConvInv'
BY LeavingKeeps

LEMMA ConvExpireBarrier ==
  ASSUME ConvInv, NEW s \in UcSlots, U!ExpireBarrier(s) PROVE ConvInv'
<1>0. /\ UNCHANGED <<ucDisk, ucCache, ucLate, ucOps>> /\ ucLate' \subseteq UcRequests /\ ConvTypes
  BY DEF ConvInv, ProcessFine, ConvTypes, U!ExpireBarrier
<1>1. CASE U!Gone(s)
  BY <1>0, <1>1, GoneKeeps
<1>2. CASE ~U!Gone(s)
  <2>1. /\ ucProc' = [ucProc EXCEPT ![s].barrier = U!NoBarrier] /\ ~ucProc[s].barrier.quiesced
        /\ UNCHANGED <<ucConv, ucInstaller, ucCo>> /\ ucProc \in [UcSlots -> UcProcesses]
    BY <1>0, <1>2 DEF U!ExpireBarrier, ConvTypes
  <2>2. /\ ucProc'[s] = [ucProc[s] EXCEPT !.barrier = U!NoBarrier]
        /\ \A t \in UcSlots \ {s} : ucProc'[t] = ucProc[t]
        /\ ucProc[s] \in UcProcesses /\ DOMAIN ucProc' = UcSlots
    BY <2>1
  <2>3. ucProc'[s] \in UcProcesses /\ Stays(s)
    BY <2>1, <2>2, BarrierFacts, ConvIdle DEF Stays, Quiet
  <2>4. \A t \in UcSlots : Stays(t)
    BY <2>2, <2>3, KeptStays
  <2>5. ucProc' \in [UcSlots -> UcProcesses]
    BY <2>1, <2>2, <2>3
  <2> QED BY <1>0, <2>1, <2>4, <2>5, StayingKeeps DEF ConvTypes
<1> QED BY <1>1, <1>2

LEMMA ConvLateRequest ==
  ASSUME ConvInv, U!LateRequest PROVE ConvInv'
<1>0. /\ UNCHANGED <<ucDisk, ucCache, ucConv, ucInstaller, ucCo, ucOps>> /\ ConvTypes
  BY DEF ConvInv, ProcessFine, U!LateRequest
<1>1. PICK m \in ucLate :
        /\ ucLate' = ucLate \ {m}
        /\ \/ ucProc' = ucProc
           \/ /\ U!CanPrepare(m.to, m.op, m.target)
              /\ ucProc' = [ucProc EXCEPT ![m.to] = U!Prepared(m.to, m.op, m.target)]
           \/ /\ U!CanQuiesce(m.to, m.op, m.target)
              /\ ucProc' = [ucProc EXCEPT ![m.to] = U!Quiesced(m.to)]
  BY DEF U!LateRequest
<1>2. m.to \in UcSlots /\ m.op \in Nat /\ m.target \in Nat /\ ucProc \in [UcSlots -> UcProcesses]
  BY <1>0, <1>1 DEF ConvTypes, UcRequests
<1>3. /\ \A t \in UcSlots \ {m.to} : ucProc'[t] = ucProc[t]
      /\ ucProc'[m.to] \in UcProcesses /\ Stays(m.to)
  <2>1. CASE ucProc' = ucProc
    BY <1>2, <2>1, KeptStays
  <2>2. CASE /\ U!CanPrepare(m.to, m.op, m.target)
             /\ ucProc' = [ucProc EXCEPT ![m.to] = U!Prepared(m.to, m.op, m.target)]
    BY <1>0, <1>2, <2>2, PreparedStays
  <2>3. CASE /\ U!CanQuiesce(m.to, m.op, m.target)
             /\ ucProc' = [ucProc EXCEPT ![m.to] = U!Quiesced(m.to)]
    BY <1>0, <1>2, <2>3, QuiescedStays
  <2> QED BY <1>1, <2>1, <2>2, <2>3
<1>4. \A t \in UcSlots : Stays(t)
  BY <1>3, KeptStays
<1>5. ConvTypes'
  <2>1. ucProc' \in [UcSlots -> UcProcesses]
    BY <1>1, <1>2, <1>3
  <2> QED BY <1>0, <1>1, <2>1 DEF ConvTypes
<1> QED BY <1>0, <1>4, <1>5, StayingKeeps

-----------------------------------------------------------------------------
(* The coordinators                                                         *)

\* One coordinator goes on, and owners stay.
LEMMA CoordinateKeeps ==
  ASSUME ConvInv, ConvTypes', NEW s \in UcSlots, UNCHANGED <<ucCache, ucOps, ucDisk, ucInstaller>>,
         \A t \in UcSlots : Stays(t), \A t \in UcSlots \ {s} : ucCo'[t] = ucCo[t],
         ucCo[s].pc # "idle", ucCo'[s].op = ucCo[s].op,
         ucConv' = ucConv \/ (ucConv' = U!Unlocked(s) /\ ~Holds(s)'),
         Holds(s)' => Holds(s),
         CoordinatorFine(s)', GatheredFine(s)', QuietFine(s)', InstalledFine(s)', RestartedFine(s)'
  PROVE  ConvInv'
<1>c. /\ \A t \in UcSlots \ {s} : /\ t \in ucConv.shared => t \in ucConv'.shared
                                  /\ ucConv.excl = t => ucConv'.excl = t
      /\ ucConv'.shared \subseteq ucConv.shared /\ ucConv'.excl \in {ucConv.excl, "none"}
  BY DEF U!Unlocked, U!None
<1>1. \A t \in UcSlots \ {s} : ProcessFine(t)'
  BY <1>c, ProcessKeeps
<1>2. ProcessFine(s)'
  <2>0. LeaseFine(s) /\ LockFine(s) /\ CoordinatorFine(s)
    BY DEF ConvInv, ProcessFine
  <2>1. ucProc[s].pc \in {"live", "converging"} /\ ucProc'[s].pc = ucProc[s].pc
    BY <2>0 DEF CoordinatorFine, Stays
  <2>2. LeaseFine(s)'
    BY <2>0, <2>1 DEF LeaseFine, Stays, IsLive
  <2>3. AdmissionFine(s)' /\ DeferredFine(s)'
    BY <2>1 DEF AdmissionFine, DeferredFine
  <2>4. LockFine(s)'
    BY <2>0, <2>1 DEF LockFine, Pends
  <2> QED BY <2>2, <2>3, <2>4 DEF ProcessFine
<1>3. /\ \A t \in UcSlots : ProcessFine(t)'
      /\ \A t \in UcSlots : ucCo'[t].pc # "idle" => ucCo[t].pc # "idle" /\ ucCo'[t].op = ucCo[t].op
  BY <1>1, <1>2
<1> QED BY <1>c, <1>3, SharedKeeps

\* Releasing owners.
LEMMA ReleaseAllFacts ==
  ASSUME ConvTypes, NEW s \in UcSlots, NEW q
  PROVE  LET r == U!ReleaseAll(s, q)
         IN /\ r \in [UcSlots -> UcProcesses]
            /\ \A t \in UcSlots :
                 /\ r[t].pc = ucProc[t].pc /\ r[t].version = ucProc[t].version
                 /\ r[t].gen = ucProc[t].gen /\ r[t].schema = ucProc[t].schema
                 /\ Quiet(t) => r[t].barrier.quiesced = TRUE
<1> DEFINE r == U!ReleaseAll(s, q)
<1>1. r = [t \in UcSlots |-> IF t \in q THEN U!Released(t, ucCo[s].op) ELSE ucProc[t]]
  BY DEF U!ReleaseAll
<1>2. ASSUME NEW t \in UcSlots
      PROVE  /\ r[t] \in UcProcesses /\ r[t].pc = ucProc[t].pc /\ r[t].version = ucProc[t].version
             /\ r[t].gen = ucProc[t].gen /\ r[t].schema = ucProc[t].schema
             /\ Quiet(t) => r[t].barrier.quiesced = TRUE
  <2>0. ucProc[t] \in UcProcesses
    BY DEF ConvTypes
  <2>1. \/ r[t] = ucProc[t]
        \/ r[t] = [ucProc[t] EXCEPT !.barrier = U!NoBarrier] /\ ~ucProc[t].barrier.quiesced
    BY <1>1 DEF U!Released
  <2> HIDE DEF r
  <2>2. CASE r[t] = ucProc[t]
    BY <2>0, <2>2 DEF Quiet
  <2>3. CASE r[t] = [ucProc[t] EXCEPT !.barrier = U!NoBarrier] /\ ~ucProc[t].barrier.quiesced
    BY <2>0, <2>3, BarrierFacts, ConvIdle DEF Quiet
  <2> QED BY <2>1, <2>2, <2>3
<1>3. r \in [UcSlots -> UcProcesses]
  <2>1. r = [t \in UcSlots |-> r[t]]
    BY <1>1
  <2> HIDE DEF r
  <2> QED BY <1>2, <2>1
<1> HIDE DEF r
<1>4. /\ r \in [UcSlots -> UcProcesses]
      /\ \A t \in UcSlots :
           /\ r[t].pc = ucProc[t].pc /\ r[t].version = ucProc[t].version
           /\ r[t].gen = ucProc[t].gen /\ r[t].schema = ucProc[t].schema
           /\ Quiet(t) => r[t].barrier.quiesced = TRUE
  BY <1>2, <1>3
<1> QED BY <1>4 DEF r

\* A coordinator that gives up.
LEMMA AbandonKeeps ==
  ASSUME ConvInv, NEW s \in UcSlots, NEW q, U!Abandon(s, q), ucCo[s].pc # "idle",
         UNCHANGED <<ucCache, ucOps, ucDisk>>, ucLate' \subseteq UcRequests
  PROVE  ConvInv'
<1>0. ConvTypes /\ "none" \notin UcSlots /\ ucProc[s].pc \in {"live", "converging"}
  BY ConvergenceAssumption DEF ConvInv, ProcessFine, CoordinatorFine
<1>1. PICK r \in [UcSlots -> UcProcesses] :
        /\ r = U!ReleaseAll(s, q)
        /\ \A t \in UcSlots :
             /\ r[t].pc = ucProc[t].pc /\ r[t].version = ucProc[t].version
             /\ r[t].gen = ucProc[t].gen /\ r[t].schema = ucProc[t].schema
             /\ Quiet(t) => r[t].barrier.quiesced = TRUE
  BY <1>0, ReleaseAllFacts
<1>2. /\ ucProc' = [r EXCEPT ![s] = IF ucProc[s].pc = "converging" THEN U!OffProc(r[s]) ELSE r[s]]
      /\ ucConv' = [excl |-> IF ucConv.excl = s THEN "none" ELSE ucConv.excl,
                    shared |-> ucConv.shared \ {s}]
      /\ ucInstaller' = IF ucInstaller = s THEN "none" ELSE ucInstaller
      /\ ucCo' = [ucCo EXCEPT ![s] = U!IdleCo]
  BY <1>1 DEF U!Abandon, U!External, U!Unlocked, U!None
<1>3. /\ ucProc' \in [UcSlots -> UcProcesses]
      /\ \A t \in UcSlots \ {s} : ucProc'[t] = r[t]
      /\ (ucProc'[s] = r[s] /\ ucProc[s].pc = "live") \/ Leaves(s)
  <2>1. /\ U!OffProc(r[s]) \in UcProcesses /\ r[s] \in UcProcesses
        /\ U!OffProc(r[s]).pc = "off" /\ U!OffProc(r[s]).schema = "none"
        /\ U!OffProc(r[s]).gen = ucProc[s].gen /\ ucProc[s].gen \in Nat
    BY <1>0, <1>1, OffProcFacts DEF ConvTypes, UcProcesses
  <2>2. ucProc'[s] = IF ucProc[s].pc = "converging" THEN U!OffProc(r[s]) ELSE r[s]
    BY <1>1, <1>2
  <2>3. (ucProc'[s] = r[s] /\ ucProc[s].pc = "live") \/ Leaves(s)
    BY <1>0, <2>1, <2>2 DEF Leaves
  <2> QED BY <1>1, <1>2, <2>1, <2>2, <2>3
<1>4. \A t \in UcSlots : ucProc'[t] = r[t] => Stays(t)
  BY <1>1 DEF Stays, Quiet
<1>5. ConvTypes'
  BY <1>0, <1>2, <1>3, ConvIdle DEF ConvTypes
<1>6. \A t \in UcSlots : Stays(t) \/ Leaves(t)
  BY <1>3, <1>4
<1>7. \A t \in UcSlots :
        \/ ucCo'[t] = ucCo[t] /\ Stays(t) /\ (ucInstaller = t => ucInstaller' = t)
        \/ ucCo'[t] = U!IdleCo /\ ucProc'[t].pc # "converging"
  BY <1>0, <1>1, <1>2, <1>3, <1>4 DEF Leaves, ConvTypes
<1>8. \A t \in UcSlots : ucProc'[t].pc \notin {"off", "loading", "live"} \/ ucCo'[t].pc # "idle" =>
        /\ t \in ucConv.shared => t \in ucConv'.shared
        /\ ucConv.excl = t => ucConv'.excl = t
  BY <1>0, <1>1, <1>2, <1>3, ConvIdle DEF Leaves, ConvTypes
<1>9. ucConv'.shared \subseteq ucConv.shared /\ ucConv'.excl \in {ucConv.excl, "none"}
  BY <1>2
<1> QED BY <1>5, <1>6, <1>7, <1>8, <1>9, LeavingKeeps

LEMMA ConvPrepareOne ==
  ASSUME ConvInv, NEW s \in UcSlots, U!PrepareOne(s) PROVE ConvInv'
<1>0. /\ ConvTypes /\ ucCo[s] \in UcCoordinators /\ UNCHANGED <<ucDisk, ucCache, ucOps>>
      /\ ucCo[s].pc \in {"prepare", "prepareInstalled"}
  BY DEF ConvInv, ConvTypes, U!PrepareOne
<1>1. PICK t \in ucCo[s].todo :
        \/ /\ U!CanPrepare(t, ucCo[s].op, ucCo[s].target)
           /\ ucProc' = [ucProc EXCEPT ![t] = U!Prepared(t, ucCo[s].op, ucCo[s].target)]
           /\ ucCo' = [ucCo EXCEPT ![s].todo = @ \ {t}, ![s].ready = @ \cup {t}]
           /\ UNCHANGED <<ucConv, ucInstaller, ucLate, ucFaults>>
        \/ /\ ucLate' = ucLate
              \/ ucLate' = ucLate \cup {[kind |-> "prepare", to |-> t, op |-> ucCo[s].op,
                                         target |-> ucCo[s].target]}
           /\ U!Abandon(s, ucCo[s].ready)
  BY DEF U!PrepareOne
<1>2. t \in UcSlots /\ ucCo[s].op \in Nat /\ ucCo[s].target \in Nat
  BY <1>0, <1>1 DEF UcCoordinators
<1>3. CASE /\ ucLate' = ucLate
              \/ ucLate' = ucLate \cup {[kind |-> "prepare", to |-> t, op |-> ucCo[s].op,
                                         target |-> ucCo[s].target]}
           /\ U!Abandon(s, ucCo[s].ready)
  <2>2. ucLate' \subseteq UcRequests
    BY <1>0, <1>2, <1>3 DEF ConvTypes, UcRequests
  <2> QED BY <1>0, <1>3, <2>2, AbandonKeeps
<1>4. CASE /\ U!CanPrepare(t, ucCo[s].op, ucCo[s].target)
           /\ ucProc' = [ucProc EXCEPT ![t] = U!Prepared(t, ucCo[s].op, ucCo[s].target)]
           /\ ucCo' = [ucCo EXCEPT ![s].todo = @ \ {t}, ![s].ready = @ \cup {t}]
           /\ UNCHANGED <<ucConv, ucInstaller, ucLate, ucFaults>>
  <2>1. /\ \A u \in UcSlots \ {t} : ucProc'[u] = ucProc[u]
        /\ ucProc'[t] = U!Prepared(t, ucCo[s].op, ucCo[s].target)
    BY <1>0, <1>2, <1>4 DEF ConvTypes
  <2>2. ucProc'[t] \in UcProcesses /\ Stays(t)
    BY <1>0, <1>2, <1>4, <2>1, PreparedStays
  <2>3. \A u \in UcSlots : Stays(u)
    BY <2>1, <2>2, KeptStays
  <2>4. /\ ucCo' \in [UcSlots -> UcCoordinators] /\ \A u \in UcSlots \ {s} : ucCo'[u] = ucCo[u]
        /\ ucCo'[s].pc = ucCo[s].pc /\ ucCo'[s].op = ucCo[s].op /\ ucCo'[s].target = ucCo[s].target
        /\ ucCo'[s].todo = ucCo[s].todo \ {t} /\ ucCo'[s].ready = ucCo[s].ready \cup {t}
        /\ ucCo'[s].recover = ucCo[s].recover
    BY <1>0, <1>2, <1>4 DEF ConvTypes, UcCoordinators
  <2>5. ConvTypes'
    BY <1>0, <1>4, <2>1, <2>2, <2>4 DEF ConvTypes
  <2>6. CoordinatorFine(s) /\ GatheredFine(s) /\ InstalledFine(s) /\ (Holds(s) <=> Holds(s)')
    BY <2>4 DEF ConvInv, ProcessFine, Holds
  <2>7. CoordinatorFine(s)' /\ QuietFine(s)' /\ InstalledFine(s)' /\ RestartedFine(s)'
    BY <1>0, <1>4, <2>3, <2>4, <2>6
       DEF CoordinatorFine, QuietFine, InstalledFine, RestartedFine, Restarts, InApp, IsLive, External,
           Stays
  <2>8. GatheredFine(s)'
    <3>1. /\ (External(s)' <=> External(s)) /\ ucCo'[s].pc # "quiesce"
          /\ ucCo'[s].todo \cup ucCo'[s].ready = ucCo[s].todo \cup ucCo[s].ready
          /\ \A u \in UcSlots : /\ LiveBelow(u, ucCo[s].target)' <=> LiveBelow(u, ucCo[s].target)
                                /\ IsLive(u)' <=> IsLive(u)
                                /\ ucProc'[u].version = ucProc[u].version
      BY <1>0, <1>1, <2>3, <2>4 DEF Stays, External, LiveBelow, IsLive
    <3>2. ucCo[s].todo \cup ucCo[s].ready \subseteq UcSlots
      BY <1>0 DEF UcCoordinators
    <3> QED BY <2>4, <2>6, <3>1, <3>2 DEF GatheredFine, LiveBelow
  <2> QED BY <1>0, <1>4, <2>3, <2>4, <2>5, <2>6, <2>7, <2>8, CoordinateKeeps
<1> QED BY <1>1, <1>3, <1>4

\* A coordinator with all owners prepared begins to quiesce them.
LEMMA ConvCommit ==
  ASSUME ConvInv, NEW s \in UcSlots, U!CommitUpdate(s) \/ U!CommitExternal(s) PROVE ConvInv'
<1>0. /\ ConvTypes /\ ucCo[s] \in UcCoordinators /\ UNCHANGED <<ucDisk, ucCache, ucOps, ucLate>>
      /\ ucCo[s].pc \in {"prepare", "prepareInstalled"} /\ ucCo[s].todo = {}
      /\ ucLate' \subseteq UcRequests
      /\ ucCo[s].pc = "prepareInstalled" \/ External(s)
  BY DEF ConvInv, ConvTypes, U!CommitUpdate, U!CommitExternal, External, U!External
<1>1. CASE U!Abandon(s, ucCo[s].ready)
  BY <1>0, <1>1, AbandonKeeps
<1>2. CASE /\ ucCo' = [ucCo EXCEPT ![s] = [ucCo[s] EXCEPT !.pc = "quiesce", !.todo = ucCo[s].ready]]
           /\ UNCHANGED <<ucProc, ucConv, ucInstaller>>
  <2>1. /\ ucCo' \in [UcSlots -> UcCoordinators] /\ \A u \in UcSlots \ {s} : ucCo'[u] = ucCo[u]
        /\ ucCo'[s].pc = "quiesce" /\ ucCo'[s].op = ucCo[s].op /\ ucCo'[s].target = ucCo[s].target
        /\ ucCo'[s].todo = ucCo[s].ready /\ ucCo'[s].ready = ucCo[s].ready
        /\ ucCo'[s].recover = ucCo[s].recover
    <3>1. ucCo'[s] = [ucCo[s] EXCEPT !.pc = "quiesce", !.todo = ucCo[s].ready]
      BY <1>0, <1>2 DEF ConvTypes
    <3>2. ucCo'[s] \in UcCoordinators
      BY <1>0, <3>1 DEF UcCoordinators
    <3> QED BY <1>0, <1>2, <3>1, <3>2 DEF ConvTypes, UcCoordinators
  <2>2. ConvTypes' /\ \A u \in UcSlots : Stays(u)
    BY <1>0, <1>2, <2>1, KeptStays DEF ConvTypes
  <2>3. CoordinatorFine(s) /\ GatheredFine(s) /\ InstalledFine(s) /\ Holds(s)
    BY <1>0 DEF ConvInv, ProcessFine, Holds
  <2>4. CoordinatorFine(s)' /\ RestartedFine(s)'
    BY <1>0, <1>2, <2>1, <2>3 DEF CoordinatorFine, RestartedFine, Restarts, InApp, IsLive, External
  <2>5. InstalledFine(s)'
    BY <1>0, <1>2, <2>1, <2>3
       DEF CoordinatorFine, InstalledFine, Restarts, InApp, IsLive, External
  <2>6. \A u \in UcSlots : LiveBelow(u, ucCo[s].target) => u \in ucCo[s].ready
    BY <1>0, <2>3 DEF GatheredFine
  <2>7. QuietFine(s)'
    BY <1>2, <2>1, <2>6 DEF QuietFine, LiveBelow, IsLive
  <2>8. GatheredFine(s)'
    BY <1>0, <1>2, <2>1, <2>3, <2>6 DEF GatheredFine, LiveBelow, IsLive, Holds, External
  <2> QED BY <1>0, <1>2, <2>1, <2>2, <2>3, <2>4, <2>5, <2>7, <2>8, CoordinateKeeps
<1> QED BY <1>1, <1>2 DEF U!CommitUpdate, U!CommitExternal

LEMMA ConvQuiesceOne ==
  ASSUME ConvInv, NEW s \in UcSlots, U!QuiesceOne(s) PROVE ConvInv'
<1>0. /\ ConvTypes /\ ucCo[s] \in UcCoordinators
      /\ UNCHANGED <<ucDisk, ucCache, ucConv, ucInstaller, ucOps>> /\ ucCo[s].pc = "quiesce"
  BY DEF ConvInv, ConvTypes, U!QuiesceOne
<1>1. PICK t \in ucCo[s].todo :
        \/ /\ ucProc[t].pc = "live" /\ ucProc[t].version = ucCo[s].target
           /\ ucProc' = [ucProc EXCEPT ![t] = U!Released(t, ucCo[s].op)]
           /\ ucCo' = [ucCo EXCEPT ![s].todo = @ \ {t}] /\ ucLate' = ucLate
        \/ /\ U!CanQuiesce(t, ucCo[s].op, ucCo[s].target)
           /\ ucProc' = [ucProc EXCEPT ![t] = U!Quiesced(t)]
           /\ ucCo' = [ucCo EXCEPT ![s].todo = @ \ {t}, ![s].quiesced = @ \cup {t}]
           /\ ucLate' = ucLate
        \/ /\ \/ ucLate' = ucLate
              \/ ucLate' = ucLate \cup {[kind |-> "quiesce", to |-> t, op |-> ucCo[s].op,
                                         target |-> ucCo[s].target]}
           /\ ucCo' = [ucCo EXCEPT ![s].todo = @ \ {t}, ![s].failed = @ \cup {t}]
           /\ UNCHANGED ucProc
  BY DEF U!QuiesceOne
<1>2. /\ t \in UcSlots /\ ucCo[s].op \in Nat /\ ucCo[s].target \in Nat
      /\ ucCo \in [UcSlots -> UcCoordinators] /\ ucProc \in [UcSlots -> UcProcesses]
  BY <1>0, <1>1 DEF UcCoordinators, ConvTypes
<1>3. /\ ucCo' \in [UcSlots -> UcCoordinators] /\ \A u \in UcSlots \ {s} : ucCo'[u] = ucCo[u]
      /\ ucCo'[s].pc = "quiesce" /\ ucCo'[s].op = ucCo[s].op /\ ucCo'[s].target = ucCo[s].target
      /\ ucCo'[s].ready = ucCo[s].ready /\ ucCo'[s].recover = ucCo[s].recover
      /\ ucCo'[s].todo = ucCo[s].todo \ {t}
      /\ ucCo[s].failed \subseteq ucCo'[s].failed /\ ucCo[s].quiesced \subseteq ucCo'[s].quiesced
  <2>1. CASE ucCo' = [ucCo EXCEPT ![s].todo = @ \ {t}]
    BY <1>0, <1>2, <2>1 DEF UcCoordinators
  <2>2. CASE ucCo' = [ucCo EXCEPT ![s].todo = @ \ {t}, ![s].quiesced = @ \cup {t}]
    BY <1>0, <1>2, <2>2 DEF UcCoordinators
  <2>3. CASE ucCo' = [ucCo EXCEPT ![s].todo = @ \ {t}, ![s].failed = @ \cup {t}]
    BY <1>0, <1>2, <2>3 DEF UcCoordinators
  <2> QED BY <1>1, <2>1, <2>2, <2>3
<1>4. /\ \A u \in UcSlots \ {t} : ucProc'[u] = ucProc[u]
      /\ ucProc'[t] \in UcProcesses /\ Stays(t) /\ ucLate' \subseteq UcRequests
      /\ \/ ucProc[t].pc = "live" /\ ucProc[t].version = ucCo[s].target
         \/ Quiet(t)' /\ t \in ucCo'[s].quiesced
         \/ t \in ucCo'[s].failed
  <2>1. CASE /\ ucProc[t].pc = "live" /\ ucProc[t].version = ucCo[s].target
             /\ ucProc' = [ucProc EXCEPT ![t] = U!Released(t, ucCo[s].op)] /\ ucLate' = ucLate
    BY <1>0, <1>2, <2>1, ReleasedStays DEF ConvTypes
  <2>2. CASE /\ U!CanQuiesce(t, ucCo[s].op, ucCo[s].target)
             /\ ucProc' = [ucProc EXCEPT ![t] = U!Quiesced(t)]
             /\ ucCo' = [ucCo EXCEPT ![s].todo = @ \ {t}, ![s].quiesced = @ \cup {t}]
             /\ ucLate' = ucLate
    BY <1>0, <1>2, <2>2, QuiescedStays DEF ConvTypes, UcCoordinators
  <2>3. CASE /\ \/ ucLate' = ucLate
                \/ ucLate' = ucLate \cup {[kind |-> "quiesce", to |-> t, op |-> ucCo[s].op,
                                           target |-> ucCo[s].target]}
             /\ ucCo' = [ucCo EXCEPT ![s].todo = @ \ {t}, ![s].failed = @ \cup {t}]
             /\ UNCHANGED ucProc
    BY <1>0, <1>2, <2>3, KeptStays DEF ConvTypes, UcCoordinators, UcRequests
  <2> QED BY <1>1, <2>1, <2>2, <2>3
<1>5. \A u \in UcSlots : Stays(u)
  BY <1>4, KeptStays
<1>6. ConvTypes'
  <2>1. ucProc' \in [UcSlots -> UcProcesses]
    BY <1>1, <1>2, <1>4
  <2> QED BY <1>0, <1>3, <1>4, <2>1 DEF ConvTypes
<1>7. /\ CoordinatorFine(s) /\ GatheredFine(s) /\ InstalledFine(s) /\ QuietFine(s)
      /\ Holds(s) /\ (External(s)' <=> External(s))
      /\ ucCo[s].todo \cup ucCo[s].ready \subseteq UcSlots
      /\ \A u \in UcSlots : /\ LiveBelow(u, ucCo[s].target)' <=> LiveBelow(u, ucCo[s].target)
                            /\ IsLive(u)' <=> IsLive(u)
                            /\ ucProc'[u].version = ucProc[u].version /\ (Quiet(u) => Quiet(u)')
  BY <1>0, <1>3, <1>5
     DEF ConvInv, ProcessFine, Holds, External, Stays, LiveBelow, IsLive, UcCoordinators
<1>8. CoordinatorFine(s)' /\ RestartedFine(s)' /\ InstalledFine(s)'
  BY <1>0, <1>3, <1>5, <1>7
     DEF CoordinatorFine, InstalledFine, RestartedFine, Restarts, InApp, IsLive, External, Stays
<1>9. ~LiveBelow(t, ucCo[s].target) \/ Quiet(t)' \/ t \in ucCo'[s].failed
  <2>1. ~(ucCo[s].target < ucCo[s].target)
    BY <1>2
  <2> QED BY <1>4, <2>1 DEF LiveBelow
<1>10. QuietFine(s)'
  <2>1. ASSUME NEW u \in UcSlots, ucCo[s].recover = FALSE, LiveBelow(u, ucCo[s].target)
        PROVE  u \in ucCo'[s].failed \/ Quiet(u)' \/ u \in ucCo'[s].todo
    BY <1>0, <1>3, <1>7, <1>9, <2>1 DEF QuietFine
  <2> QED BY <1>3, <1>7, <2>1 DEF QuietFine, LiveBelow
<1>11. GatheredFine(s)'
  <2>1. External(s) => t \in ucCo'[s].quiesced \cup ucCo'[s].failed
    <3>1. ~(ucCo[s].target < ucCo[s].target)
      BY <1>2
    <3>2. External(s) /\ IsLive(t) => ucProc[t].version < ucCo[s].target
      BY <1>1, <1>7 DEF GatheredFine
    <3> QED BY <1>4, <3>1, <3>2 DEF IsLive
  <2> QED BY <1>0, <1>3, <1>7, <2>1 DEF GatheredFine, LiveBelow, Holds
<1> QED BY <1>0, <1>3, <1>5, <1>6, <1>7, <1>8, <1>10, <1>11, CoordinateKeeps

\* The restarts begin, and the owners are watched for.
LEMMA ConvRestarts ==
  ASSUME ConvInv, NEW s \in UcSlots, U!StartRestarts(s) \/ U!Observe(s) PROVE ConvInv'
<1>0. /\ ConvTypes /\ ucCo[s] \in UcCoordinators /\ ucCo \in [UcSlots -> UcCoordinators]
      /\ UNCHANGED <<ucDisk, ucCache, ucInstaller, ucOps, ucLate, ucProc>>
      /\ ucCo[s].pc \in {"quiesce", "restart"} /\ ucCo[s].todo = {}
  BY DEF ConvInv, ConvTypes, U!StartRestarts, U!Observe
<1>1. /\ ucCo' \in [UcSlots -> UcCoordinators] /\ \A u \in UcSlots \ {s} : ucCo'[u] = ucCo[u]
      /\ ucCo'[s].pc \in {"restart", "finish"} /\ ucCo'[s].op = ucCo[s].op
      /\ ucCo'[s].target = ucCo[s].target /\ ucCo'[s].recover = ucCo[s].recover
      /\ ucCo[s].failed \subseteq ucCo'[s].failed
      /\ ucCo'[s].pc = "finish" => ucCo[s].recover = FALSE /\ ucCo'[s].todo = {}
      /\ ucCo[s].pc = "quiesce" => ~External(s)
      /\ ucConv' = ucConv \/ ucConv' = U!Unlocked(s)
  <2>1. CASE U!StartRestarts(s)
    <3>1. ucCo' = [ucCo EXCEPT ![s] = [ucCo[s] EXCEPT !.pc = "restart", !.todo = ucCo[s].quiesced \ {s}]]
      BY <2>1 DEF U!StartRestarts
    <3>2. ucCo'[s] = [ucCo[s] EXCEPT !.pc = "restart", !.todo = ucCo[s].quiesced \ {s}]
      BY <1>0, <3>1
    <3>3. ucCo'[s] \in UcCoordinators
      BY <1>0, <3>2 DEF UcCoordinators
    <3>4. ucConv' = U!Unlocked(s) /\ ~External(s)
      BY <2>1 DEF U!StartRestarts, U!External, External
    <3> QED BY <1>0, <3>1, <3>2, <3>3, <3>4 DEF UcCoordinators
  <2>2. CASE U!Observe(s)
    <3>1. PICK more \in SUBSET UcSlots :
            \/ ucCo' = [ucCo EXCEPT ![s] = [ucCo[s] EXCEPT !.pc = "finish"]]
            \/ ucCo' = [ucCo EXCEPT ![s] = [ucCo[s] EXCEPT !.pc = "finish", !.failed = @ \cup more]]
      <4> DEFINE peers == ucCo[s].quiesced \ (ucCo[s].failed \cup {s})
                 here == {t \in peers : U!Replaced([slot |-> t, gen |-> ucProc[t].proof.previous],
                                                   ucCo[s].op, ucCo[s].target)}
      <4>1. peers \ here \in SUBSET UcSlots
        BY <1>0 DEF UcCoordinators
      <4>2. \/ ucCo' = [ucCo EXCEPT ![s] = [ucCo[s] EXCEPT !.pc = "finish"]]
            \/ ucCo' = [ucCo EXCEPT ![s] = [ucCo[s] EXCEPT !.pc = "finish",
                                                           !.failed = @ \cup (peers \ here)]]
        BY <2>2 DEF U!Observe
      <4> HIDE DEF peers, here
      <4> QED BY <4>1, <4>2
    <3>2. \/ ucCo'[s] = [ucCo[s] EXCEPT !.pc = "finish"]
          \/ ucCo'[s] = [ucCo[s] EXCEPT !.pc = "finish", !.failed = @ \cup more]
      BY <1>0, <3>1
    <3>3. ucCo'[s] \in UcCoordinators
      <4>0. ucCo[s].failed \cup more \in SUBSET UcSlots
        BY <1>0, <3>1 DEF UcCoordinators
      <4>1. CASE ucCo'[s] = [ucCo[s] EXCEPT !.pc = "finish"]
        BY <1>0, <4>1 DEF UcCoordinators
      <4>2. CASE ucCo'[s] = [ucCo[s] EXCEPT !.pc = "finish", !.failed = @ \cup more]
        BY <1>0, <4>0, <4>2 DEF UcCoordinators
      <4> QED BY <3>2, <4>1, <4>2
    <3>4. ucConv' = ucConv /\ ucCo[s].recover = FALSE /\ ucCo[s].pc # "quiesce"
      BY <1>0, <2>2 DEF U!Observe, UcCoordinators
    <3>5. /\ ucCo'[s].pc = "finish" /\ ucCo'[s].op = ucCo[s].op
          /\ ucCo'[s].target = ucCo[s].target /\ ucCo'[s].recover = ucCo[s].recover
          /\ ucCo[s].failed \subseteq ucCo'[s].failed /\ ucCo'[s].todo = ucCo[s].todo
      <4>1. CASE ucCo'[s] = [ucCo[s] EXCEPT !.pc = "finish"]
        BY <1>0, <4>1 DEF UcCoordinators
      <4>2. CASE ucCo'[s] = [ucCo[s] EXCEPT !.pc = "finish", !.failed = @ \cup more]
        BY <1>0, <4>2 DEF UcCoordinators
      <4> QED BY <3>2, <4>1, <4>2
    <3>6. ucCo' \in [UcSlots -> UcCoordinators] /\ \A u \in UcSlots \ {s} : ucCo'[u] = ucCo[u]
      BY <1>0, <3>1, <3>3
    <3> QED BY <1>0, <3>4, <3>5, <3>6
  <2> QED BY <2>1, <2>2
<1>2. ConvTypes' /\ \A u \in UcSlots : Stays(u)
  <2>1. ucConv' \in [excl : UcSlots \cup {"none"}, shared : SUBSET UcSlots]
    BY <1>0, <1>1 DEF ConvTypes, U!Unlocked, U!None
  <2> QED BY <1>0, <1>1, <2>1, KeptStays DEF ConvTypes
<1>3. CoordinatorFine(s) /\ InstalledFine(s) /\ QuietFine(s) /\ RestartedFine(s)
  BY DEF ConvInv, ProcessFine
<1>4. CoordinatorFine(s)'
  BY <1>0, <1>1, <1>3 DEF CoordinatorFine, InApp, IsLive, External
<1>5. InstalledFine(s)'
  BY <1>0, <1>1, <1>3 DEF InstalledFine, CoordinatorFine, Restarts, InApp, IsLive, External
<1>6. QuietFine(s)'
  BY <1>0, <1>1, <1>3 DEF QuietFine, LiveBelow, Quiet, IsLive
<1>7. RestartedFine(s)'
  BY <1>0, <1>1, <1>3 DEF RestartedFine, Restarts, External
<1>8. ~Holds(s)' /\ GatheredFine(s)'
  BY <1>1 DEF Holds, GatheredFine
<1> QED BY <1>0, <1>1, <1>2, <1>4, <1>5, <1>6, <1>7, <1>8, CoordinateKeeps

\* reconcile_external_upgrade records a version and a cohort.
LEMMA ReconciledFacts ==
  ASSUME ConvTypes, NEW seen, NEW v \in UcVersions, NEW pending \in UcPending,
         ucCache' = U!Reconciled(seen, v, pending)
  PROVE  /\ ucCache' \in UcCaches /\ ucCache'.observed = v /\ ucCache'.pending = pending
         /\ ucCache'.restart = (pending # U!NoPending) /\ ucCache'.highlights = ucCache.highlights
BY DEF U!Reconciled, ConvTypes, UcCaches

\* The schema is proved free and the cohort is recorded.
LEMMA ConvAdopts ==
  ASSUME ConvInv, NEW s \in UcSlots, ucCo[s].pc = "quiesce", ucCo[s].todo = {}, External(s),
         ucCo[s].failed = {}, U!SchemaFree, U!Verified(s),
         NEW cohort, cohort = [op |-> ucCo[s].op, target |-> ucCo[s].target, acknowledged |-> {},
                               expected |-> U!Expectations(ucCo[s].ready)],
         U!CanReconcile(ucProc[s].seen, ucProc[s].version, cohort),
         ucCache' = U!Reconciled(ucProc[s].seen, ucProc[s].version, cohort),
         ucCo' = [ucCo EXCEPT ![s] = [ucCo[s] EXCEPT !.pc = "restart", !.todo = ucCo[s].quiesced,
                                                     !.recover = FALSE]],
         ucConv' = U!Unlocked(s), UNCHANGED <<ucProc, ucInstaller, ucDisk, ucLate, ucOps>>
  PROVE  ConvInv'
<1>0. /\ ConvTypes /\ ucCo[s] \in UcCoordinators /\ ucCo \in [UcSlots -> UcCoordinators]
      /\ ucProc \in [UcSlots -> UcProcesses] /\ ucProc[s].version \in UcVersions
      /\ ucCache.observed \in Nat /\ ucProc[s].version \in Nat /\ ucOps \in Nat
      /\ ucCo[s].op \in 1..ucOps /\ "none" \notin UcSlots
      /\ ucCo[s].target = ucProc[s].version /\ ucConv.excl = s /\ ~Pends
  BY ConvergenceAssumption
     DEF ConvInv, ProcessFine, ConvTypes, UcCaches, UcProcesses, UcVersions, CoordinatorFine, LockFine,
         Holds
<1>1. /\ cohort \in UcPending /\ cohort.op = ucCo[s].op /\ cohort.target = ucProc[s].version
      /\ cohort.expected = {[slot |-> t, gen |-> ucProc[t].gen] : t \in ucCo[s].ready}
      /\ cohort # U!NoPending
  <2>1. ucCo[s].ready \subseteq UcSlots /\ \A t \in UcSlots : ucProc[t].gen \in Nat
    BY <1>0 DEF UcCoordinators, UcProcesses
  <2>2. U!Expectations(ucCo[s].ready) = {[slot |-> t, gen |-> ucProc[t].gen] : t \in ucCo[s].ready}
    BY DEF U!Expectations
  <2>3. U!Expectations(ucCo[s].ready) \in SUBSET [slot : UcSlots, gen : Nat]
    BY <2>1, <2>2
  <2>4. ucCo[s].op # 0
    BY <1>0
  <2>5. cohort \in UcPending
    BY <1>0, <2>3 DEF UcPending, UcCoordinators
  <2> QED BY <1>0, <2>2, <2>4, <2>5, ConvIdle
<1>2. ucProc[s].version > ucCache.observed
  BY <1>0, <1>1 DEF U!CanReconcile, Pends
<1>3. /\ ucCache' \in UcCaches /\ ucCache'.observed = ucProc[s].version /\ ucCache'.pending = cohort
      /\ ucCache'.highlights = ucCache.highlights
  <2>1. cohort \in UcPending
    BY <1>1
  <2>2. ucCache' = [ucCache EXCEPT !.observed = ucProc[s].version, !.restart = (cohort # U!NoPending),
                                   !.pending = cohort]
    BY DEF U!Reconciled
  <2> QED BY <1>0, <2>1, <2>2 DEF ConvTypes, UcCaches
<1>4. /\ ucCo' \in [UcSlots -> UcCoordinators] /\ \A u \in UcSlots \ {s} : ucCo'[u] = ucCo[u]
      /\ ucCo'[s].pc = "restart" /\ ucCo'[s].op = ucCo[s].op /\ ucCo'[s].target = ucCo[s].target
      /\ ucCo'[s].todo = ucCo[s].quiesced /\ ucCo'[s].recover = FALSE
  <2>1. ucCo'[s] = [ucCo[s] EXCEPT !.pc = "restart", !.todo = ucCo[s].quiesced, !.recover = FALSE]
    BY <1>0
  <2>2. ucCo'[s] \in UcCoordinators
    BY <1>0, <2>1 DEF UcCoordinators
  <2>3. /\ ucCo'[s].pc = "restart" /\ ucCo'[s].op = ucCo[s].op /\ ucCo'[s].target = ucCo[s].target
        /\ ucCo'[s].todo = ucCo[s].quiesced /\ ucCo'[s].recover = FALSE
    BY <1>0, <2>1 DEF UcCoordinators
  <2> QED BY <1>0, <2>2, <2>3
<1>5. /\ ucConv' \in [excl : UcSlots \cup {"none"}, shared : SUBSET UcSlots]
      /\ ucConv'.excl = "none" /\ ucConv'.shared = ucConv.shared \ {s} /\ ucConv.shared = {}
  BY <1>0 DEF ConvTypes, ConvInv, U!Unlocked, U!None
<1>6. ConvTypes'
  BY <1>0, <1>3, <1>4, <1>5 DEF ConvTypes
<1>7. /\ \A t \in UcSlots : ucProc[t].schema = "none" /\ (IsLive(t) => Quiet(t))
      /\ \A t \in UcSlots \ {s} : ~Holds(t) /\ ucProc[t].pc \notin {"candidate", "deferred"}
      /\ ucDisk = ucProc[s].version
  BY <1>0 DEF ConvInv, ProcessFine, U!SchemaFree, U!Verified, LeaseFine, LockFine
<1>8. OwnOperation' /\ (ucConv.excl # "none" => ucConv.shared = {})'
  BY <1>4, <1>5 DEF ConvInv, OwnOperation
<1>9. CohortFine'
  <2>1. \A e \in cohort.expected : e.gen <= ucProc[e.slot].gen
    <3>1. ucCo[s].ready \subseteq UcSlots /\ \A t \in UcSlots : ucProc[t].gen \in Nat
      BY <1>0 DEF UcCoordinators, UcProcesses
    <3> QED BY <1>1, <3>1
  <2>2. ucProc[s].version <= ucDisk /\ ucCo[s].op <= ucOps /\ ucCo[s].op # 0
    BY <1>0, <1>7
  <2> QED BY <1>1, <1>3, <2>1, <2>2 DEF CohortFine
<1>10. AnnouncedFine'
  <2>1. ucCache.highlights.target \in Nat /\ ucCache.highlights.target <= ucCache.observed
    BY <1>0 DEF ConvTypes, UcCaches, ConvInv, AnnouncedFine
  <2>2. ucCache.highlights.target <= ucProc[s].version
    BY <1>0, <1>2, <2>1
  <2> QED BY <1>3, <1>7, <2>2 DEF AnnouncedFine, LiveBelow, IsLive, Quiet
<1>11. U!CohortExcludesOlder'
  BY <1>7 DEF U!CohortExcludesOlder
<1>12. ASSUME NEW t \in UcSlots PROVE ProcessFine(t)'
  <2>0. /\ LeaseFine(t) /\ AdmissionFine(t) /\ LockFine(t) /\ CoordinatorFine(t)
        /\ QuietFine(t) /\ InstalledFine(t) /\ RestartedFine(t) /\ ucProc[t].version \in Nat
        /\ ucCo[t].target \in Nat
    BY <1>0 DEF ConvInv, ProcessFine, UcProcesses, UcVersions, UcCoordinators
  <2>1. LeaseFine(t)'
    BY <2>0 DEF LeaseFine, IsLive, Quiet
  <2>2. AdmissionFine(t)'
    <3>1. ucProc[t].pc \notin {"opened", "resumed"}
      BY <1>7, <2>0 DEF LeaseFine
    <3>2. ucProc[t].version <= ucCache.observed => ucProc[t].version <= ucProc[s].version
      BY <1>0, <1>2, <2>0
    <3>3. ucProc[t].pc \in {"admitted", "manual"} => FALSE
      BY <1>0, <1>5, <2>0 DEF AdmissionFine, External
    <3> QED BY <1>3, <2>0, <3>1, <3>2, <3>3 DEF AdmissionFine
  <2>3. ~Holds(t)' /\ LockFine(t)' /\ DeferredFine(t)' /\ GatheredFine(t)'
    <3>1. ~Holds(t)'
      BY <1>4, <1>7 DEF Holds
    <3>2. ucProc'[t].pc \notin {"candidate", "deferred"}
      BY <1>7 DEF External
    <3> QED BY <3>1, <3>2 DEF LockFine, DeferredFine, GatheredFine, Holds
  <2>4. CoordinatorFine(t)'
    BY <1>0, <1>4, <2>0 DEF CoordinatorFine, InApp, IsLive, External
  <2>5. QuietFine(t)'
    BY <1>7 DEF QuietFine, LiveBelow, IsLive, Quiet
  <2>6. InstalledFine(t)'
    <3>1. CASE t = s
      <4>1. ucProc[s].version >= ucCo[s].target
        BY <1>0
      <4> QED BY <1>3, <1>4, <3>1, <4>1 DEF InstalledFine, External, InApp, IsLive
    <3>2. CASE t # s
      <4>0. ucCo'[t] = ucCo[t]
        BY <1>4, <3>2
      <4>1. ucCache.observed >= ucCo[t].target => ucProc[s].version >= ucCo[t].target
        BY <1>0, <1>2, <2>0
      <4>2. ASSUME InApp(t), ucCo[t].pc # "prepare"
            PROVE  [slot |-> t, gen |-> ucProc[t].gen] \in cohort.expected
        <5>1. ucProc[t].version < ucCo[t].target /\ ucCache.observed >= ucCo[t].target /\ IsLive(t)
          BY <2>0, <4>2 DEF CoordinatorFine, InstalledFine, InApp
        <5>2. ucProc[t].version < ucCo[s].target
          BY <1>0, <1>2, <2>0, <5>1
        <5>3. t \in ucCo[s].ready
          BY <5>1, <5>2 DEF ConvInv, ProcessFine, GatheredFine, LiveBelow
        <5> QED BY <1>1, <5>3
      <4> QED BY <1>3, <2>0, <4>0, <4>1, <4>2 DEF InstalledFine, InApp, IsLive, Restarts
    <3> QED BY <3>1, <3>2
  <2>7. RestartedFine(t)'
    <3>1. CASE t = s
      <4>1. ucCo[s].ready \subseteq ucCo[s].quiesced
        BY DEF ConvInv, ProcessFine, GatheredFine
      <4>2. \A e \in cohort.expected : e.slot \in ucCo[s].quiesced
        BY <1>1, <4>1
      <4> QED BY <1>3, <1>4, <3>1, <4>2 DEF RestartedFine
    <3>2. CASE t # s
      <4>1. Restarts(t)' => ucCo'[t].op # cohort.op
        BY <1>0, <1>1, <1>4, <3>2 DEF ConvInv, OwnOperation, Restarts
      <4> QED BY <1>3, <4>1 DEF RestartedFine
    <3> QED BY <3>1, <3>2
  <2> QED BY <2>1, <2>2, <2>3, <2>4, <2>5, <2>6, <2>7 DEF ProcessFine
<1> QED BY <1>6, <1>8, <1>9, <1>10, <1>11, <1>12 DEF ConvInv

\* The cohort is recorded, or the owners already quiesced are restarted all the same.
LEMMA ConvAdoptExternal ==
  ASSUME ConvInv, NEW s \in UcSlots, U!AdoptExternal(s) PROVE ConvInv'
<1>0. /\ ConvTypes /\ ucCo[s] \in UcCoordinators /\ ucCo \in [UcSlots -> UcCoordinators]
      /\ UNCHANGED <<ucDisk, ucOps, ucLate>> /\ ucLate' \subseteq UcRequests
      /\ ucCo[s].pc = "quiesce" /\ ucCo[s].todo = {} /\ External(s)
  BY DEF ConvInv, ConvTypes, U!AdoptExternal, External, U!External
<1> DEFINE cohort == [op |-> ucCo[s].op, target |-> ucCo[s].target, acknowledged |-> {},
                      expected |-> U!Expectations(ucCo[s].ready)]
           Restarting(recover) == [ucCo[s] EXCEPT !.pc = "restart", !.todo = ucCo[s].quiesced,
                                                  !.recover = recover]
<1>1. CASE U!Gone(s) /\ UNCHANGED ucCache
  BY <1>0, <1>1, GoneKeeps
<1>2. CASE /\ ucConv' = U!Unlocked(s) /\ UNCHANGED <<ucProc, ucInstaller>>
           /\ ucCo[s].failed = {} /\ U!SchemaFree /\ U!Verified(s)
           /\ U!CanReconcile(ucProc[s].seen, ucProc[s].version, cohort)
           /\ ucCache' = U!Reconciled(ucProc[s].seen, ucProc[s].version, cohort)
           /\ ucCo' = [ucCo EXCEPT ![s] = Restarting(FALSE)]
  <2>1. PICK c : c = cohort
    OBVIOUS
  <2> QED BY <1>0, <1>2, <2>1, ConvAdopts
<1>3. CASE /\ ucConv' = U!Unlocked(s) /\ UNCHANGED <<ucProc, ucInstaller, ucCache>>
           /\ ucCo' = [ucCo EXCEPT ![s] = Restarting(TRUE)]
  <2>1. /\ ucCo' \in [UcSlots -> UcCoordinators] /\ \A u \in UcSlots \ {s} : ucCo'[u] = ucCo[u]
        /\ ucCo'[s].pc = "restart" /\ ucCo'[s].op = ucCo[s].op /\ ucCo'[s].target = ucCo[s].target
        /\ ucCo'[s].recover = TRUE
    <3>1. ucCo'[s] = Restarting(TRUE)
      BY <1>0, <1>3
    <3>2. ucCo'[s] \in UcCoordinators
      BY <1>0, <3>1 DEF UcCoordinators
    <3>3. /\ ucCo'[s].pc = "restart" /\ ucCo'[s].op = ucCo[s].op /\ ucCo'[s].target = ucCo[s].target
          /\ ucCo'[s].recover = TRUE
      BY <1>0, <3>1 DEF UcCoordinators
    <3> QED BY <1>0, <1>3, <3>2, <3>3
  <2>2. ConvTypes' /\ \A u \in UcSlots : Stays(u)
    <3>1. ucConv' \in [excl : UcSlots \cup {"none"}, shared : SUBSET UcSlots]
      BY <1>0, <1>3 DEF ConvTypes, U!Unlocked, U!None
    <3> QED BY <1>0, <1>3, <2>1, <3>1, KeptStays DEF ConvTypes
  <2>3. /\ CoordinatorFine(s) /\ ~Pends /\ ucCo[s].op # 0
    BY <1>0 DEF ConvInv, ProcessFine, LockFine, Holds, CoordinatorFine
  <2>4. CoordinatorFine(s)' /\ InstalledFine(s)' /\ QuietFine(s)' /\ GatheredFine(s)' /\ ~Holds(s)'
    BY <1>0, <1>3, <2>1, <2>3
       DEF CoordinatorFine, InstalledFine, QuietFine, GatheredFine, Holds, InApp, IsLive, External
  <2>5. RestartedFine(s)'
    BY <1>3, <2>1, <2>3, ConvIdle DEF RestartedFine, Pends
  <2> QED BY <1>0, <1>3, <2>1, <2>2, <2>4, <2>5, CoordinateKeeps
<1> HIDE DEF cohort, Restarting
<1>4. \/ U!Gone(s) /\ UNCHANGED ucCache
      \/ /\ ucConv' = U!Unlocked(s) /\ UNCHANGED <<ucProc, ucInstaller>>
         /\ ucCo[s].failed = {} /\ U!SchemaFree /\ U!Verified(s)
         /\ U!CanReconcile(ucProc[s].seen, ucProc[s].version, cohort)
         /\ ucCache' = U!Reconciled(ucProc[s].seen, ucProc[s].version, cohort)
         /\ ucCo' = [ucCo EXCEPT ![s] = Restarting(FALSE)]
      \/ /\ ucConv' = U!Unlocked(s) /\ UNCHANGED <<ucProc, ucInstaller, ucCache>>
         /\ ucCo' = [ucCo EXCEPT ![s] = Restarting(TRUE)]
  BY DEF U!AdoptExternal, cohort, Restarting
<1> QED BY <1>1, <1>2, <1>3, <1>4

LEMMA ReplacementFacts ==
  ASSUME ConvTypes, NEW t \in UcSlots, NEW op \in Nat, NEW target \in Nat
  PROVE  LET r == U!Replacement(t, op, target)
         IN /\ r \in UcProcesses /\ r.pc = "loading" /\ r.schema = "none"
            /\ r.gen = ucProc[t].gen + 1 /\ ucProc[t].gen \in Nat
<1>1. ucProc[t] \in UcProcesses /\ ucProc[t].gen \in Nat /\ ucDisk \in UcVersions
  BY DEF ConvTypes, UcProcesses
<1>2. PICK q \in UcProcesses : /\ q = U!OffProc(ucProc[t]) /\ q.gen = ucProc[t].gen
                               /\ q.schema = "none"
  BY <1>1, OffProcFacts
<1>3. PICK proof \in [op : Nat, previous : Nat, target : Nat] :
        proof = [op |-> op, previous |-> ucProc[t].gen, target |-> target]
  BY <1>1
<1> DEFINE r == U!Replacement(t, op, target)
<1>4. r = [q EXCEPT !.pc = "loading", !.version = ucDisk, !.gen = q.gen + 1, !.exact = TRUE,
                    !.proof = proof]
  BY <1>2, <1>3 DEF U!Replacement
<1>5. "loading" \in UcPcs /\ q.gen + 1 \in Nat
  BY <1>1, <1>2 DEF UcPcs
<1> HIDE DEF r
<1>6. r \in UcProcesses
  BY <1>1, <1>2, <1>3, <1>4, <1>5 DEF UcProcesses
<1>7. r.pc = "loading" /\ r.schema = "none" /\ r.gen = ucProc[t].gen + 1
  BY <1>2, <1>4 DEF UcProcesses
<1> QED BY <1>1, <1>6, <1>7 DEF r

LEMMA ConvRestartOne ==
  ASSUME ConvInv, NEW s \in UcSlots, U!RestartOne(s) PROVE ConvInv'
<1>0. /\ ConvTypes /\ ucCo[s] \in UcCoordinators /\ ucCo \in [UcSlots -> UcCoordinators]
      /\ UNCHANGED <<ucDisk, ucCache, ucLate, ucOps>> /\ ucCo[s].pc = "restart"
      /\ ucProc \in [UcSlots -> UcProcesses] /\ "none" \notin UcSlots
  BY ConvergenceAssumption DEF ConvInv, ConvTypes, U!RestartOne
<1>1. PICK t \in ucCo[s].todo :
        \/ /\ U!CanRestart(t, ucCo[s].op, ucCo[s].target)
           /\ ucProc' = [ucProc EXCEPT ![t] = U!Replacement(t, ucCo[s].op, ucCo[s].target)]
           /\ ucCo' = [ucCo EXCEPT ![s].todo = @ \ {t}, ![t] = U!IdleCo]
           /\ ucConv' = U!Unlocked(t)
           /\ ucInstaller' = IF ucInstaller = t THEN "none" ELSE ucInstaller
        \/ /\ U!CanRestart(t, ucCo[s].op, ucCo[s].target)
           /\ ucProc' = [ucProc EXCEPT ![t] = U!OffProc(@)]
           /\ ucCo' = [ucCo EXCEPT ![s].todo = @ \ {t}, ![s].failed = @ \cup {t}, ![t] = U!IdleCo]
           /\ ucConv' = U!Unlocked(t)
           /\ ucInstaller' = IF ucInstaller = t THEN "none" ELSE ucInstaller
        \/ /\ UNCHANGED <<ucProc, ucConv, ucInstaller>>
           /\ ucCo' = [ucCo EXCEPT ![s].todo = @ \ {t}, ![s].failed = @ \cup {t}]
  BY DEF U!RestartOne, U!None
<1>2. /\ t \in UcSlots /\ ucCo[s].op \in Nat /\ ucCo[s].target \in Nat /\ ucProc[t].gen \in Nat
      /\ ucProc[t] \in UcProcesses
  BY <1>0, <1>1 DEF UcCoordinators, UcProcesses
<1>3. /\ \A u \in UcSlots \ {t} : ucProc'[u] = ucProc[u]
      /\ ucProc'[t] \in UcProcesses
      /\ \/ Leaves(t) /\ ucCo'[t] = U!IdleCo
         \/ /\ Stays(t) /\ UNCHANGED <<ucProc, ucConv, ucInstaller>> /\ ~(ucProc'[t].gen > ucProc[t].gen)
            /\ ucCo' = [ucCo EXCEPT ![s].todo = @ \ {t}, ![s].failed = @ \cup {t}]
            /\ s = t => ucCo'[t].pc # "idle"
  <2>1. CASE /\ ucProc' = [ucProc EXCEPT ![t] = U!Replacement(t, ucCo[s].op, ucCo[s].target)]
             /\ ucCo' = [ucCo EXCEPT ![s].todo = @ \ {t}, ![t] = U!IdleCo]
    <3>1. ucProc'[t] = U!Replacement(t, ucCo[s].op, ucCo[s].target) /\ ucCo'[t] = U!IdleCo
      BY <1>0, <1>2, <2>1
    <3>2. /\ ucProc'[t] \in UcProcesses /\ ucProc'[t].pc = "loading" /\ ucProc'[t].schema = "none"
          /\ ucProc'[t].gen = ucProc[t].gen + 1
      BY <1>0, <1>2, <3>1, ReplacementFacts
    <3>3. ucProc'[t].gen >= ucProc[t].gen
      BY <1>2, <3>2
    <3> QED BY <1>0, <2>1, <3>1, <3>2, <3>3 DEF Leaves
  <2>2. CASE /\ ucProc' = [ucProc EXCEPT ![t] = U!OffProc(@)]
             /\ ucCo' = [ucCo EXCEPT ![s].todo = @ \ {t}, ![s].failed = @ \cup {t}, ![t] = U!IdleCo]
    <3>1. ucProc'[t] = U!OffProc(ucProc[t]) /\ ucCo'[t] = U!IdleCo
      BY <1>0, <1>2, <2>2
    <3>2. /\ ucProc'[t] \in UcProcesses /\ ucProc'[t].pc = "off" /\ ucProc'[t].schema = "none"
          /\ ucProc'[t].gen = ucProc[t].gen
      BY <1>2, <3>1, OffProcFacts
    <3>3. ucProc'[t].gen >= ucProc[t].gen
      BY <1>2, <3>2
    <3> QED BY <1>0, <2>2, <3>1, <3>2, <3>3 DEF Leaves
  <2>3. CASE /\ UNCHANGED <<ucProc, ucConv, ucInstaller>>
             /\ ucCo' = [ucCo EXCEPT ![s].todo = @ \ {t}, ![s].failed = @ \cup {t}]
    <3>1. ~(ucProc'[t].gen > ucProc[t].gen)
      BY <1>2, <2>3
    <3>2. ASSUME s = t PROVE ucCo'[t].pc # "idle"
      <4>1. PICK x \in SUBSET UcSlots, y \in SUBSET UcSlots :
              x = ucCo[s].todo \ {t} /\ y = ucCo[s].failed \cup {t}
        BY <1>0, <1>2 DEF UcCoordinators
      <4>2. ucCo'[s] = [ucCo[s] EXCEPT !.todo = x, !.failed = y]
        BY <1>0, <1>2, <2>3, <3>2, <4>1
      <4>3. ucCo'[s].pc = ucCo[s].pc
        BY <1>0, <4>2 DEF UcCoordinators
      <4> QED BY <1>0, <3>2, <4>3
    <3> QED BY <1>2, <2>3, <3>1, <3>2, KeptStays
  <2> QED BY <1>1, <2>1, <2>2, <2>3
<1>4. /\ \A u \in UcSlots \ {s, t} : ucCo'[u] = ucCo[u]
      /\ ucCo' \in [UcSlots -> UcCoordinators]
      /\ \/ s = t /\ ucCo'[t] = U!IdleCo /\ Leaves(t)
         \/ /\ ucCo'[s].pc = "restart" /\ ucCo'[s].op = ucCo[s].op
            /\ ucCo'[s].target = ucCo[s].target /\ ucCo'[s].recover = ucCo[s].recover
            /\ ucCo'[s].todo = ucCo[s].todo \ {t} /\ ucCo[s].failed \subseteq ucCo'[s].failed
            /\ t \in ucCo'[s].failed \/ ucProc'[t].gen > ucProc[t].gen
            /\ s = t => Stays(t)
      /\ s # t => ucCo'[t] = U!IdleCo \/ (ucCo'[t] = ucCo[t] /\ Stays(t))
  <2>a. ucCo[s].todo \ {t} \in SUBSET UcSlots /\ ucCo[s].failed \cup {t} \in SUBSET UcSlots
    BY <1>0, <1>2 DEF UcCoordinators
  <2>1. CASE /\ ucProc' = [ucProc EXCEPT ![t] = U!Replacement(t, ucCo[s].op, ucCo[s].target)]
             /\ ucCo' = [ucCo EXCEPT ![s].todo = @ \ {t}, ![t] = U!IdleCo]
    <3>1. ucProc'[t].gen > ucProc[t].gen
      <4>1. ucProc'[t] = U!Replacement(t, ucCo[s].op, ucCo[s].target)
        BY <1>0, <1>2, <2>1
      <4>2. ucProc'[t].gen = ucProc[t].gen + 1
        BY <1>0, <1>2, <4>1, ReplacementFacts
      <4> QED BY <1>2, <4>2
    <3>2. ucCo'[t] = U!IdleCo /\ \A u \in UcSlots \ {s, t} : ucCo'[u] = ucCo[u]
      BY <1>0, <1>2, <2>1
    <3>3. s # t => ucCo'[s] = [ucCo[s] EXCEPT !.todo = ucCo[s].todo \ {t}]
      BY <1>0, <1>2, <2>1
    <3>4. s # t =>
            /\ ucCo'[s].pc = "restart" /\ ucCo'[s].op = ucCo[s].op /\ ucCo'[s] \in UcCoordinators
            /\ ucCo'[s].target = ucCo[s].target /\ ucCo'[s].recover = ucCo[s].recover
            /\ ucCo'[s].todo = ucCo[s].todo \ {t} /\ ucCo[s].failed \subseteq ucCo'[s].failed
      BY <1>0, <2>a, <3>3 DEF UcCoordinators
    <3>5. ucCo' \in [UcSlots -> UcCoordinators]
      BY <1>0, <2>1, <3>2, <3>4, ConvIdle
    <3> QED BY <1>3, <3>1, <3>2, <3>4, <3>5, ConvIdle
  <2>2. CASE ucCo' = [ucCo EXCEPT ![s].todo = @ \ {t}, ![s].failed = @ \cup {t}, ![t] = U!IdleCo]
    <3>2. ucCo'[t] = U!IdleCo /\ \A u \in UcSlots \ {s, t} : ucCo'[u] = ucCo[u]
      BY <1>0, <1>2, <2>2
    <3>3. s # t => ucCo'[s] = [ucCo[s] EXCEPT !.todo = ucCo[s].todo \ {t},
                                              !.failed = ucCo[s].failed \cup {t}]
      BY <1>0, <1>2, <2>2
    <3>4. s # t =>
            /\ ucCo'[s].pc = "restart" /\ ucCo'[s].op = ucCo[s].op /\ ucCo'[s] \in UcCoordinators
            /\ ucCo'[s].target = ucCo[s].target /\ ucCo'[s].recover = ucCo[s].recover
            /\ ucCo'[s].todo = ucCo[s].todo \ {t} /\ ucCo'[s].failed = ucCo[s].failed \cup {t}
      BY <1>0, <2>a, <3>3 DEF UcCoordinators
    <3>5. ucCo' \in [UcSlots -> UcCoordinators]
      BY <1>0, <2>2, <3>2, <3>4, ConvIdle
    <3> QED BY <1>3, <3>2, <3>4, <3>5, ConvIdle
  <2>3. CASE /\ UNCHANGED <<ucProc, ucConv, ucInstaller>>
             /\ ucCo' = [ucCo EXCEPT ![s].todo = @ \ {t}, ![s].failed = @ \cup {t}]
    <3>1. Stays(t)
      BY <2>3, KeptStays
    <3>2. /\ \A u \in UcSlots \ {s} : ucCo'[u] = ucCo[u]
          /\ ucCo'[s] = [ucCo[s] EXCEPT !.todo = ucCo[s].todo \ {t},
                                        !.failed = ucCo[s].failed \cup {t}]
      BY <1>0, <1>2, <2>3
    <3>4. /\ ucCo'[s].pc = "restart" /\ ucCo'[s].op = ucCo[s].op /\ ucCo'[s] \in UcCoordinators
          /\ ucCo'[s].target = ucCo[s].target /\ ucCo'[s].recover = ucCo[s].recover
          /\ ucCo'[s].todo = ucCo[s].todo \ {t} /\ ucCo'[s].failed = ucCo[s].failed \cup {t}
      BY <1>0, <2>a, <3>2 DEF UcCoordinators
    <3>5. ucCo' \in [UcSlots -> UcCoordinators]
      BY <1>0, <2>3, <3>2, <3>4
    <3> QED BY <1>2, <3>1, <3>2, <3>4, <3>5
  <2> QED BY <1>1, <2>1, <2>2, <2>3
<1>5. /\ ucConv' \in [excl : UcSlots \cup {"none"}, shared : SUBSET UcSlots]
      /\ ucInstaller' \in UcSlots \cup {"none"}
      /\ ucConv'.shared \subseteq ucConv.shared /\ ucConv'.excl \in {ucConv.excl, "none"}
      /\ \A u \in UcSlots \ {t} : /\ u \in ucConv.shared => u \in ucConv'.shared
                                  /\ ucConv.excl = u => ucConv'.excl = u
                                  /\ ucInstaller = u => ucInstaller' = u
      /\ Stays(t) /\ ~Leaves(t) => UNCHANGED <<ucConv, ucInstaller>>
  BY <1>0, <1>1, <1>3 DEF ConvTypes, U!Unlocked, U!None
<1>6. ConvTypes'
  <2>1. ucProc' \in [UcSlots -> UcProcesses]
    BY <1>0, <1>1, <1>3
  <2> QED BY <1>0, <1>4, <1>5, <2>1 DEF ConvTypes
<1>7. \A u \in UcSlots : Stays(u) \/ Leaves(u)
  BY <1>3, KeptStays
<1>8. ASSUME NEW u \in UcSlots, u # s PROVE ProcessFine(u)'
  <2>1. \/ ucCo'[u] = ucCo[u] /\ Stays(u) /\ (ucInstaller = u => ucInstaller' = u)
        \/ ucCo'[u] = U!IdleCo /\ ucProc'[u].pc # "converging"
    BY <1>3, <1>4, <1>5, <1>8, KeptStays DEF Leaves
  <2>2. ucProc'[u].pc \notin {"off", "loading", "live"} \/ ucCo'[u].pc # "idle" =>
          (u \in ucConv.shared => u \in ucConv'.shared) /\ (ucConv.excl = u => ucConv'.excl = u)
    BY <1>3, <1>5, <1>8, ConvIdle DEF Leaves
  <2> QED BY <1>0, <1>6, <1>7, <2>1, <2>2, ProcessKeeps
<1>9. ProcessFine(s)'
  <2>0. ucProc'[s].pc \notin {"off", "loading", "live"} \/ ucCo'[s].pc # "idle" =>
          (s \in ucConv.shared => s \in ucConv'.shared) /\ (ucConv.excl = s => ucConv'.excl = s)
    BY <1>3, <1>5, ConvIdle DEF Leaves
  <2>1. CASE s = t /\ ucCo'[t] = U!IdleCo /\ Leaves(t)
    <3>1. ucCo'[s] = U!IdleCo /\ ucProc'[s].pc # "converging"
      BY <2>1 DEF Leaves
    <3> QED BY <1>0, <1>6, <1>7, <2>0, <3>1, ProcessKeeps
  <2>2. CASE /\ ucCo'[s].pc = "restart" /\ ucCo'[s].op = ucCo[s].op
             /\ ucCo'[s].target = ucCo[s].target /\ ucCo'[s].recover = ucCo[s].recover
             /\ ucCo'[s].todo = ucCo[s].todo \ {t} /\ ucCo[s].failed \subseteq ucCo'[s].failed
             /\ t \in ucCo'[s].failed \/ ucProc'[t].gen > ucProc[t].gen
             /\ s = t => Stays(t)
    <3>0. /\ LeaseFine(s) /\ AdmissionFine(s) /\ LockFine(s) /\ CoordinatorFine(s)
          /\ DeferredFine(s) /\ GatheredFine(s) /\ QuietFine(s) /\ InstalledFine(s)
          /\ RestartedFine(s)
      BY DEF ConvInv, ProcessFine
    <3>1. Stays(s) /\ (External(s)' <=> External(s)) /\ (InApp(s)' => InApp(s))
      BY <1>0, <1>3, <2>2, KeptStays DEF Stays, External, InApp, IsLive
    <3>2. \A u \in UcSlots : LiveBelow(u, ucCo[s].target)' =>
            LiveBelow(u, ucCo[s].target) /\ (Quiet(u) => Quiet(u)')
      BY <1>7, <2>2 DEF Stays, Leaves, LiveBelow, IsLive
    <3>3. ucProc[s].pc \in {"live", "converging"} /\ ucProc'[s].pc = ucProc[s].pc
      BY <1>0, <3>0, <3>1 DEF CoordinatorFine, Stays
    <3>4. LeaseFine(s)' /\ AdmissionFine(s)' /\ LockFine(s)' /\ DeferredFine(s)' /\ GatheredFine(s)'
      BY <2>2, <3>0, <3>1, <3>3
         DEF LeaseFine, AdmissionFine, LockFine, DeferredFine, GatheredFine, Holds, Stays, IsLive
    <3>5. ucInstaller = s => ucInstaller' = s
      BY <1>0, <1>5, <2>2, <3>1, <3>3 DEF Leaves
    <3>6. CoordinatorFine(s)' /\ InstalledFine(s)'
      BY <1>0, <2>2, <3>0, <3>1, <3>5
         DEF CoordinatorFine, InstalledFine, Stays, InApp, IsLive, External, Restarts
    <3>7. QuietFine(s)'
      BY <1>0, <2>2, <3>0, <3>2 DEF QuietFine
    <3>8. RestartedFine(s)'
      <4>1. \A e \in ucCache.pending.expected : e.slot \in UcSlots /\ e.gen \in Nat
        BY DEF ConvInv, ConvTypes, UcCaches, UcPending
      <4>2. \A u \in UcSlots : ucProc'[u].gen >= ucProc[u].gen
                                 /\ ucProc[u].gen \in Nat /\ ucProc'[u].gen \in Nat
        BY <1>0, <1>6, <1>7 DEF Stays, Leaves, ConvTypes, UcProcesses
      <4>3. \A e \in ucCache.pending.expected : e.gen <= ucProc[e.slot].gen
        BY DEF ConvInv, CohortFine
      <4>4. ASSUME NEW e \in ucCache.pending.expected,
                   e.slot \in ucCo[s].todo \cup ucCo[s].failed \/ ucProc[e.slot].gen > e.gen
            PROVE  e.slot \in ucCo'[s].todo \cup ucCo'[s].failed \/ ucProc'[e.slot].gen > e.gen
        <5>1. e.slot \in UcSlots /\ e.gen \in Nat /\ e.gen <= ucProc[e.slot].gen
          BY <4>1, <4>3
        <5>2. ucProc[e.slot].gen > e.gen => ucProc'[e.slot].gen > e.gen
          BY <4>2, <5>1
        <5>3. e.slot = t /\ ucProc'[t].gen > ucProc[t].gen => ucProc'[e.slot].gen > e.gen
          BY <1>2, <4>2, <5>1
        <5> QED BY <2>2, <4>4, <5>2, <5>3
      <4> QED BY <1>0, <2>2, <3>0, <3>1, <4>4 DEF RestartedFine, Restarts
    <3> QED BY <3>4, <3>6, <3>7, <3>8 DEF ProcessFine
  <2> QED BY <1>4, <2>1, <2>2
<1>10. \A u \in UcSlots : ucCo'[u].pc # "idle" => ucCo[u].pc # "idle" /\ ucCo'[u].op = ucCo[u].op
  BY <1>0, <1>4, ConvIdle
<1> QED BY <1>0, <1>5, <1>6, <1>7, <1>8, <1>9, <1>10, SharedKeeps

\* A process that replaces the schema is alone with its version.
LEMMA ConvAdoptStore ==
  ASSUME ConvInv, NEW s \in UcSlots, U!AdoptStore(s) PROVE ConvInv'
<1>0. /\ ConvTypes /\ UNCHANGED <<ucDisk, ucLate, ucOps>> /\ ucLate' \subseteq UcRequests
      /\ ucProc[s].pc = "deferred" /\ "none" \notin UcSlots /\ ucProc[s].version \in UcVersions
      /\ ucProc[s].version \in Nat /\ ucCache.observed \in Nat /\ ucOps \in Nat
      /\ ucProc \in [UcSlots -> UcProcesses] /\ ucProc[s] \in UcProcesses
  BY ConvergenceAssumption
     DEF ConvInv, ConvTypes, U!AdoptStore, UcProcesses, UcVersions, UcCaches
<1>1. CASE U!Gone(s) /\ UNCHANGED ucCache
  BY <1>0, <1>1, GoneKeeps
<1>2. CASE /\ U!Verified(s) /\ U!CanReconcile(ucProc[s].seen, ucProc[s].version, U!NoPending)
           /\ ucCache' = U!Reconciled(ucProc[s].seen, ucProc[s].version, U!NoPending)
           /\ ucProc' = [ucProc EXCEPT ![s].schema = "shared", ![s].pc = "opened"]
           /\ UNCHANGED <<ucConv, ucInstaller, ucCo>>
  <2>1. /\ ucCache' \in UcCaches /\ ucCache'.observed = ucProc[s].version
        /\ ucCache'.pending = U!NoPending /\ ucCache'.highlights = ucCache.highlights
    BY <1>0, <1>2, ConvIdle, ReconciledFacts
  <2>2. /\ ucProc' \in [UcSlots -> UcProcesses] /\ ucProc'[s].pc = "opened"
        /\ ucProc'[s].schema = "shared" /\ ucProc'[s].version = ucProc[s].version
        /\ ucProc'[s].gen = ucProc[s].gen
        /\ \A t \in UcSlots \ {s} : ucProc'[t] = ucProc[t]
    <3>1. "opened" \in UcPcs
      BY DEF UcPcs
    <3> QED BY <1>0, <1>2, <3>1 DEF UcProcesses
  <2>3. ConvTypes'
    BY <1>0, <1>2, <2>1, <2>2 DEF ConvTypes
  <2>4. /\ ucDisk = ucProc[s].version /\ ucProc[s].version >= ucCache.observed
        /\ ucCo[s].pc = "idle" /\ ucConv.excl = s /\ ucConv.shared = {}
    BY <1>0, <1>2 DEF U!CanReconcile, U!Verified, ConvInv, ProcessFine, CoordinatorFine, LockFine
  <2>5. /\ \A t \in UcSlots : ~Holds(t)
        /\ \A t \in UcSlots \ {s} :
             ucProc[t].pc \notin {"candidate", "deferred", "admitted", "manual", "opened", "resumed"}
    BY <2>4, <1>0 DEF ConvInv, ProcessFine, LockFine, AdmissionFine, Holds
  <2>6. /\ \A t \in UcSlots : IsLive(t)' => t # s /\ IsLive(t) /\ ucProc'[t] = ucProc[t]
        /\ \A t \in UcSlots : ucProc'[t].gen = ucProc[t].gen
        /\ ~Pends' /\ ucCache'.pending.op = 0 /\ ucCache'.pending.expected = {}
    BY <2>1, <2>2, ConvIdle DEF IsLive, Pends
  <2>7. OwnOperation' /\ U!CohortExcludesOlder' /\ (ucConv.excl # "none" => ucConv.shared = {})'
    BY <1>2, <2>6 DEF ConvInv, OwnOperation, U!CohortExcludesOlder, Pends
  <2>8. CohortFine'
    BY <1>0, <2>1, <2>4, <2>6 DEF CohortFine
  <2>9. AnnouncedFine'
    <3>1. ucCache.highlights.target \in Nat /\ ucCache.highlights.target <= ucCache.observed
      BY <1>0 DEF ConvTypes, UcCaches, ConvInv, AnnouncedFine
    <3>2. ucCache.highlights.target <= ucProc[s].version
      BY <1>0, <2>4, <3>1
    <3> QED BY <2>1, <2>6, <3>2 DEF ConvInv, AnnouncedFine, LiveBelow, Quiet
  <2>10. ASSUME NEW t \in UcSlots
        PROVE  /\ LeaseFine(t)' /\ AdmissionFine(t)' /\ LockFine(t)' /\ CoordinatorFine(t)'
               /\ DeferredFine(t)' /\ GatheredFine(t)' /\ QuietFine(t)' /\ InstalledFine(t)'
               /\ RestartedFine(t)'
    <3>0. /\ LeaseFine(t) /\ AdmissionFine(t) /\ LockFine(t) /\ CoordinatorFine(t)
          /\ DeferredFine(t) /\ GatheredFine(t) /\ QuietFine(t) /\ InstalledFine(t)
          /\ RestartedFine(t) /\ ucProc[t].version \in Nat /\ ucCo[t].target \in Nat
      BY <1>0 DEF ConvInv, ConvTypes, ProcessFine, UcProcesses, UcVersions, UcCoordinators
    <3>1. LeaseFine(t)'
      BY <2>2, <3>0 DEF LeaseFine, IsLive, Quiet
    <3>2. AdmissionFine(t)'
      <4>1. ucProc[t].version <= ucCache.observed => ucProc[t].version <= ucProc[s].version
        BY <1>0, <2>4, <3>0
      <4> QED BY <1>2, <2>1, <2>2, <2>4, <2>5, <3>0, <4>1 DEF AdmissionFine
    <3>3. LockFine(t)' /\ GatheredFine(t)' /\ DeferredFine(t)'
      BY <1>2, <2>2, <2>5 DEF LockFine, GatheredFine, DeferredFine, Holds
    <3>4. CoordinatorFine(t)'
      BY <1>0, <1>2, <2>2, <2>4, <3>0 DEF CoordinatorFine, InApp, IsLive, External
    <3>5. QuietFine(t)'
      BY <1>2, <2>6, <3>0 DEF QuietFine, LiveBelow, Quiet
    <3>6. InstalledFine(t)'
      <4>1. ucCache.observed >= ucCo[t].target => ucProc[s].version >= ucCo[t].target
        BY <1>0, <2>4, <3>0
      <4>2. ASSUME InApp(t), ucCo[t].pc # "prepare" PROVE FALSE
        <5>1. ucProc[t].version < ucCo[t].target /\ ucCache.observed >= ucCo[t].target /\ IsLive(t)
          BY <3>0, <4>2 DEF CoordinatorFine, InstalledFine, InApp
        <5>2. ucProc[t].version < ucProc[s].version
          BY <1>0, <2>4, <3>0, <5>1
        <5>3. DeferredFine(s)
          BY DEF ConvInv, ProcessFine
        <5> QED BY <1>0, <5>1, <5>2, <5>3 DEF DeferredFine, LiveBelow
      <4> QED BY <1>2, <2>1, <2>6, <3>0, <4>1, <4>2 DEF InstalledFine, InApp, Restarts
    <3>7. RestartedFine(t)'
      BY <2>6 DEF RestartedFine
    <3> QED BY <3>1, <3>2, <3>3, <3>4, <3>5, <3>6, <3>7
  <2> QED BY <2>3, <2>7, <2>8, <2>9, <2>10 DEF ConvInv, ProcessFine
<1> QED BY <1>1, <1>2 DEF U!AdoptStore

\* What becoming live leaves of the cache: at most this session's own expectation is withdrawn.
LEMMA ResumedFacts ==
  ASSUME ConvTypes, NEW s \in UcSlots, ucCache' = U!Acknowledged(s) \/ ucCache' = U!RestartReady(s)
  PROVE  /\ ucCache' \in UcCaches /\ ucCache'.observed = ucCache.observed
         /\ ucCache'.highlights = ucCache.highlights \/ ucCache'.highlights.target = 0
         /\ ucCache'.pending.expected \subseteq ucCache.pending.expected
         /\ \A e \in ucCache.pending.expected : e.slot # s => e \in ucCache'.pending.expected
         /\ \/ ucCache'.pending = U!NoPending
            \/ /\ ucCache'.pending.op = ucCache.pending.op /\ Pends
               /\ ucCache'.pending.target = ucCache.pending.target
<1>0. ucCache \in UcCaches /\ ucCache.pending \in UcPending
  BY DEF ConvTypes, UcCaches
<1>1. CASE ucCache' = U!RestartReady(s)
  <2>1. \/ ucCache' = ucCache
        \/ ucCache' = [ucCache EXCEPT !.restart = FALSE, !.highlights = U!NoHighlights]
    BY <1>1 DEF U!RestartReady
  <2>2. U!NoHighlights \in [slot : UcSlots \cup {"none"}, target : Nat] /\ U!NoHighlights.target = 0
    BY DEF U!NoHighlights, U!None
  <2>3. CASE ucCache' = ucCache
    BY <1>0, <2>3 DEF Pends
  <2>4. CASE ucCache' = [ucCache EXCEPT !.restart = FALSE, !.highlights = U!NoHighlights]
    <3>1. /\ ucCache' \in UcCaches /\ ucCache'.observed = ucCache.observed
          /\ ucCache'.highlights = U!NoHighlights /\ ucCache'.pending = ucCache.pending
      BY <1>0, <2>2, <2>4 DEF UcCaches
    <3> QED BY <2>2, <3>1 DEF Pends
  <2> QED BY <2>1, <2>3, <2>4
<1>2. CASE ucCache' = U!Acknowledged(s)
  <2> DEFINE left == {e \in ucCache.pending.expected : e.slot # s}
             more == ucCache.pending.acknowledged \cup {s}
             after == U!AfterManualResume(s)
  <2>1. left \in SUBSET [slot : UcSlots, gen : Nat] /\ more \in SUBSET UcSlots
    BY <1>0 DEF UcPending
  <2>2. after = IF left = {} THEN U!NoPending
                ELSE [ucCache.pending EXCEPT !.expected = left, !.acknowledged = more]
    BY DEF U!AfterManualResume
  <2>3. ucCache' = [ucCache EXCEPT !.pending = after, !.restart = (after # U!NoPending)]
    BY <1>2 DEF U!Acknowledged
  <2>4. left \subseteq ucCache.pending.expected
        /\ \A e \in ucCache.pending.expected : e.slot # s => e \in left
    OBVIOUS
  <2> HIDE DEF left, more, after
  <2>5. CASE left = {}
    BY <1>0, <2>2, <2>3, <2>4, <2>5, ConvIdle DEF UcCaches
  <2>6. CASE left # {}
    <3>1. /\ after \in UcPending /\ after.op = ucCache.pending.op
          /\ after.target = ucCache.pending.target /\ after.expected = left
      BY <1>0, <2>1, <2>2, <2>6 DEF UcPending
    <3>2. /\ ucCache' \in UcCaches /\ ucCache'.observed = ucCache.observed
          /\ ucCache'.highlights = ucCache.highlights /\ ucCache'.pending = after
      BY <1>0, <2>3, <3>1 DEF UcCaches
    <3>3. Pends
      BY <2>4, <2>6, ConvIdle DEF Pends
    <3> QED BY <2>4, <3>1, <3>2, <3>3
  <2> QED BY <2>5, <2>6
<1> QED BY <1>1, <1>2

\* A process that opened its session becomes a live owner.
LEMMA ConvGoLive ==
  ASSUME ConvInv, NEW s \in UcSlots, U!GoLive(s) PROVE ConvInv'
<1>0. /\ ConvTypes /\ UNCHANGED <<ucDisk, ucLate, ucOps>> /\ ucLate' \subseteq UcRequests
      /\ ucProc[s].pc \in {"opened", "resumed"} /\ "none" \notin UcSlots /\ ucOps \in Nat
      /\ ucProc[s].version \in Nat /\ ucCache.observed \in Nat /\ "live" \in UcPcs
  BY ConvergenceAssumption
     DEF ConvInv, ConvTypes, U!GoLive, UcProcesses, UcVersions, UcCaches, UcPcs
<1>1. CASE U!Gone(s) /\ UNCHANGED ucCache
  BY <1>0, <1>1, GoneKeeps
<1>2. CASE /\ Moves(s, "live") /\ ucConv' = U!Unlocked(s)
           /\ ucCache' = U!Acknowledged(s) \/ ucCache' = U!RestartReady(s)
           /\ UNCHANGED <<ucInstaller, ucCo>>
  <2>1. /\ ucCache' \in UcCaches /\ ucCache'.observed = ucCache.observed
        /\ ucCache'.highlights = ucCache.highlights \/ ucCache'.highlights.target = 0
        /\ ucCache'.pending.expected \subseteq ucCache.pending.expected
        /\ \A e \in ucCache.pending.expected : e.slot # s => e \in ucCache'.pending.expected
        /\ \/ ucCache'.pending = U!NoPending
           \/ /\ ucCache'.pending.op = ucCache.pending.op /\ Pends
              /\ ucCache'.pending.target = ucCache.pending.target
    BY <1>0, <1>2, ResumedFacts
  <2>2. /\ ucProc' \in [UcSlots -> UcProcesses] /\ ucProc'[s].pc = "live"
        /\ ucProc'[s].version = ucProc[s].version /\ ucProc'[s].gen = ucProc[s].gen
        /\ ucProc'[s].schema = ucProc[s].schema
        /\ \A t \in UcSlots \ {s} : ucProc'[t] = ucProc[t]
    BY <1>0, <1>2, SetPcFacts
  <2>3. /\ ucConv' \in [excl : UcSlots \cup {"none"}, shared : SUBSET UcSlots]
        /\ ucConv'.excl # "none" => ucConv'.shared = {}
        /\ \A t \in UcSlots \ {s} : /\ t \in ucConv.shared => t \in ucConv'.shared
                                    /\ ucConv.excl = t => ucConv'.excl = t
    BY <1>0, <1>2 DEF ConvInv, ConvTypes, U!Unlocked, U!None
  <2>4. ConvTypes'
    BY <1>0, <1>2, <2>1, <2>2, <2>3 DEF ConvTypes
  <2>5. /\ ucProc[s].version = ucCache.observed /\ ucProc[s].schema # "none" /\ ucCo[s].pc = "idle"
        /\ s \in ucConv.shared \/ ucConv.excl = s
    BY <1>0 DEF ConvInv, ProcessFine, AdmissionFine, LeaseFine, CoordinatorFine
  <2>6. /\ \A t \in UcSlots : ~Holds(t)
        /\ \A t \in UcSlots \ {s} : ucProc[t].pc \notin {"candidate", "deferred"}
    BY <1>0, <2>5 DEF ConvInv, ProcessFine, LockFine, Holds
  <2>8. OwnOperation'
    BY <1>2 DEF ConvInv, OwnOperation
  <2>9. CohortFine'
    <3>1. \A e \in ucCache.pending.expected : e.slot \in UcSlots
      BY <1>0 DEF ConvTypes, UcCaches, UcPending
    <3>2. CohortFine /\ \A t \in UcSlots : ucProc'[t].gen = ucProc[t].gen
      BY <2>2 DEF ConvInv
    <3>3. \A e \in ucCache'.pending.expected : e.gen <= ucProc'[e.slot].gen
      BY <2>1, <3>1, <3>2 DEF CohortFine
    <3>4. CASE ucCache'.pending = U!NoPending
      BY <1>0, <2>1, <3>2, <3>3, <3>4, ConvIdle DEF CohortFine, Pends
    <3>5. CASE /\ ucCache'.pending.op = ucCache.pending.op /\ Pends
               /\ ucCache'.pending.target = ucCache.pending.target
      BY <1>0, <2>1, <3>2, <3>3, <3>5 DEF CohortFine
    <3> QED BY <2>1, <3>4, <3>5
  <2>10. AnnouncedFine'
    <3>0. ucCache.highlights.target \in Nat /\ AnnouncedFine
      BY <1>0 DEF ConvInv, ConvTypes, UcCaches
    <3>1. ucCache'.highlights.target \in Nat /\ ucCache'.highlights.target <= ucCache.observed
      BY <1>0, <2>1, <3>0 DEF AnnouncedFine
    <3>2. ASSUME NEW t \in UcSlots, IsLive(t)', ucProc'[t].version < ucCache'.highlights.target
          PROVE  Quiet(t)'
      <4>1. CASE ucCache'.highlights.target = 0
        <5>1. ucProc'[t].version \in Nat
          BY <2>2 DEF UcProcesses, UcVersions
        <5> QED BY <3>2, <4>1, <5>1
      <4>2. CASE ucCache'.highlights = ucCache.highlights
        <5>1. IsLive(t)' /\ ucProc'[t].version < ucCache.highlights.target
          BY <3>2, <4>2
        <5>2. t # s
          BY <1>0, <2>2, <2>5, <3>0, <3>1, <4>2, <5>1
        <5>3. LiveBelow(t, ucCache.highlights.target) /\ ucProc'[t] = ucProc[t]
          BY <2>2, <5>1, <5>2 DEF LiveBelow, IsLive
        <5> QED BY <3>0, <5>3 DEF AnnouncedFine, Quiet
      <4> QED BY <2>1, <4>1, <4>2
    <3>3. ucCache'.highlights.target <= ucCache'.observed
      BY <2>1, <3>1
    <3> QED BY <3>2, <3>3 DEF AnnouncedFine, LiveBelow
  <2>11. U!CohortExcludesOlder'
    <3>1. \A t \in UcSlots : ucProc'[t].schema = ucProc[t].schema
                               /\ ucProc'[t].version = ucProc[t].version
      BY <2>2
    <3> QED BY <2>1, <3>1 DEF ConvInv, U!CohortExcludesOlder, Pends
  <2>12. ASSUME NEW t \in UcSlots
        PROVE  /\ LeaseFine(t)' /\ AdmissionFine(t)' /\ LockFine(t)' /\ CoordinatorFine(t)'
               /\ DeferredFine(t)' /\ GatheredFine(t)' /\ QuietFine(t)' /\ InstalledFine(t)'
               /\ RestartedFine(t)'
    <3>0. /\ LeaseFine(t) /\ AdmissionFine(t) /\ LockFine(t) /\ CoordinatorFine(t)
          /\ DeferredFine(t) /\ GatheredFine(t) /\ QuietFine(t) /\ InstalledFine(t)
          /\ RestartedFine(t) /\ ucProc[t].version \in Nat /\ ucCo[t].target \in Nat
      BY <1>0 DEF ConvInv, ConvTypes, ProcessFine, UcProcesses, UcVersions, UcCoordinators
    <3>1. LeaseFine(t)'
      BY <2>2, <2>5, <3>0 DEF LeaseFine, IsLive, Quiet
    <3>2. AdmissionFine(t)'
      BY <2>1, <2>2, <2>3, <3>0 DEF AdmissionFine
    <3>3. LockFine(t)' /\ GatheredFine(t)' /\ DeferredFine(t)'
      BY <1>2, <2>2, <2>6 DEF LockFine, GatheredFine, DeferredFine, Holds
    <3>4. CoordinatorFine(t)'
      BY <1>0, <1>2, <2>2, <2>5, <3>0 DEF CoordinatorFine, InApp, IsLive, External
    <3>5. QuietFine(t)'
      <4>1. ASSUME Restarts(t), ucCo[t].recover = FALSE, NEW u \in UcSlots,
                   IsLive(u)', ucProc'[u].version < ucCo[t].target
            PROVE  u \in ucCo[t].failed \/ Quiet(u)'
        <5>1. ucCo[t].target <= ucCache.observed
          BY <1>0, <3>0, <4>1 DEF InstalledFine
        <5>2. u # s
          BY <1>0, <2>2, <2>5, <3>0, <4>1, <5>1
        <5>3. LiveBelow(u, ucCo[t].target) /\ ucProc'[u] = ucProc[u]
          BY <2>2, <4>1, <5>2 DEF LiveBelow, IsLive
        <5> QED BY <3>0, <4>1, <5>3 DEF QuietFine, Restarts, Quiet
      <4> QED BY <1>2, <2>6, <4>1 DEF QuietFine, Restarts, LiveBelow, Holds
    <3>6. InstalledFine(t)'
      BY <1>2, <2>1, <2>2, <2>5, <3>0 DEF InstalledFine, InApp, IsLive, Restarts
    <3>7. RestartedFine(t)'
      <4>1. \A e \in ucCache.pending.expected : e.slot \in UcSlots
        BY <1>0 DEF ConvTypes, UcCaches, UcPending
      <4>2. \A u \in UcSlots : ucProc'[u].gen = ucProc[u].gen
        BY <2>2
      <4>3. CASE ucCache'.pending = U!NoPending
        BY <4>3, ConvIdle DEF RestartedFine
      <4>4. CASE ucCache'.pending.op = ucCache.pending.op
        BY <1>2, <2>1, <2>2, <3>0, <4>1, <4>2, <4>4 DEF RestartedFine, Restarts, External
      <4> QED BY <2>1, <4>3, <4>4
    <3> QED BY <3>1, <3>2, <3>3, <3>4, <3>5, <3>6, <3>7
  <2> QED BY <2>3, <2>4, <2>8, <2>9, <2>10, <2>11, <2>12 DEF ConvInv, ProcessFine
<1> QED BY <1>1, <1>2 DEF U!GoLive, Moves

\* A coordinator begins, alone.
LEMMA BeginKeeps ==
  ASSUME ConvInv, ConvTypes', NEW s \in UcSlots, UNCHANGED <<ucCache, ucDisk>>,
         ucOps' = ucOps + 1, ~Pends, ucCo[s].pc = "idle",
         ucCo'[s].pc = "prepare", ucCo'[s].op = ucOps + 1,
         \A t \in UcSlots \ {s} : ucCo'[t] = ucCo[t] /\ ucProc'[t] = ucProc[t],
         \/ ucProc'[s] = ucProc[s] /\ ucProc[s].pc = "live"
         \/ Moves(s, "converging") /\ ucProc[s].pc = "candidate",
         ucConv'.excl = s, ucConv'.shared = {}, ucConv.excl \in {"none", s}, ucConv.shared = {},
         ucInstaller' = ucInstaller \/ ucInstaller = "none",
         CoordinatorFine(s)', GatheredFine(s)'
  PROVE  ConvInv'
<1>0. /\ ConvTypes /\ ConvTypes' /\ ucOps \in Nat /\ "converging" \in UcPcs /\ "none" \notin UcSlots
  BY ConvergenceAssumption DEF ConvInv, ConvTypes, UcPcs
<1>1. /\ ucProc'[s].version = ucProc[s].version /\ ucProc'[s].gen = ucProc[s].gen
      /\ ucProc'[s].schema = ucProc[s].schema /\ ucProc'[s].barrier = ucProc[s].barrier
      /\ ucProc'[s].pc \in {"live", "converging"} /\ (IsLive(s)' => IsLive(s))
  BY <1>0, SetPcFacts DEF IsLive
<1>2. /\ \A t \in UcSlots : ucProc'[t].version = ucProc[t].version /\ ucProc'[t].gen = ucProc[t].gen
                            /\ ucProc'[t].schema = ucProc[t].schema
                            /\ (Quiet(t)' <=> Quiet(t)) /\ (IsLive(t)' => IsLive(t))
  BY <1>1 DEF Quiet, IsLive
<1>3. \A t \in UcSlots \ {s} : /\ ~Holds(t) /\ (InApp(t) => ucInstaller' = t)
                               /\ ucProc[t].pc \notin {"candidate", "deferred"}
  BY <1>0 DEF ConvInv, ProcessFine, LockFine, CoordinatorFine
<1>4. OwnOperation'
  <2>1. ASSUME NEW t \in UcSlots \ {s}, ucCo[t].pc # "idle" PROVE ucCo[t].op # ucOps + 1
    <3>1. ucCo[t].op \in 1..ucOps
      BY <2>1 DEF ConvInv, ProcessFine, CoordinatorFine
    <3> QED BY <1>0, <3>1
  <2> QED BY <2>1 DEF ConvInv, OwnOperation
<1>5. CohortFine' /\ U!CohortExcludesOlder'
  <2>1. \A e \in ucCache.pending.expected : e.slot \in UcSlots
    BY <1>0 DEF ConvTypes, UcCaches, UcPending
  <2>2. ucCache.pending.op <= ucOps /\ ucCache.pending.op \in Nat
    BY <1>0 DEF ConvInv, CohortFine, ConvTypes, UcCaches, UcPending
  <2>3. ucCache.pending.op <= ucOps + 1
    BY <1>0, <2>2
  <2> QED BY <1>2, <2>1, <2>3 DEF ConvInv, CohortFine, U!CohortExcludesOlder, Pends
<1>6. AnnouncedFine'
  BY <1>2 DEF ConvInv, AnnouncedFine, LiveBelow
<1>7. ASSUME NEW t \in UcSlots
      PROVE  /\ LeaseFine(t)' /\ AdmissionFine(t)' /\ LockFine(t)' /\ CoordinatorFine(t)'
             /\ DeferredFine(t)' /\ GatheredFine(t)' /\ QuietFine(t)' /\ InstalledFine(t)'
             /\ RestartedFine(t)'
  <2>0. /\ LeaseFine(t) /\ AdmissionFine(t) /\ LockFine(t) /\ CoordinatorFine(t)
        /\ DeferredFine(t) /\ GatheredFine(t) /\ QuietFine(t) /\ InstalledFine(t)
        /\ RestartedFine(t)
    BY DEF ConvInv, ProcessFine
  <2>1. LeaseFine(t)'
    BY <1>1, <1>2, <2>0 DEF LeaseFine, IsLive
  <2>2. AdmissionFine(t)'
    BY <1>0, <1>1, <2>0 DEF AdmissionFine
  <2>3. LockFine(t)'
    BY <1>0, <1>1, <1>3 DEF LockFine, Holds, Pends
  <2>4. CoordinatorFine(t)'
    <3>1. \A o : o \in 1..ucOps => o \in 1..ucOps'
      BY <1>0
    <3> QED BY <1>3, <2>0, <3>1 DEF CoordinatorFine, InApp, IsLive, External
  <2>5. DeferredFine(t)'
    BY <1>1, <1>2, <2>0, <1>3 DEF DeferredFine, LiveBelow
  <2>6. GatheredFine(t)'
    BY <1>3 DEF GatheredFine, Holds
  <2>7. QuietFine(t)'
    BY <1>2, <1>3, <2>0 DEF QuietFine, LiveBelow, Holds
  <2>8. InstalledFine(t)'
    BY <1>2, <2>0 DEF InstalledFine, InApp, IsLive, Restarts
  <2>9. RestartedFine(t)'
    <3>1. \A e \in ucCache.pending.expected : e.slot \in UcSlots
      BY <1>0 DEF ConvTypes, UcCaches, UcPending
    <3> QED BY <1>2, <2>0, <3>1 DEF RestartedFine, Restarts, External
  <2> QED BY <2>1, <2>2, <2>3, <2>4, <2>5, <2>6, <2>7, <2>8, <2>9
<1>8. (ucConv.excl # "none" => ucConv.shared = {})'
  OBVIOUS
<1> QED BY <1>0, <1>4, <1>5, <1>6, <1>7, <1>8 DEF ConvInv, ProcessFine

LEMMA ConvBeginUpdate ==
  ASSUME ConvInv, NEW s \in UcSlots, U!BeginUpdate(s) PROVE ConvInv'
<1>a. /\ ConvTypes /\ UNCHANGED <<ucDisk, ucCache, ucProc, ucLate>> /\ ucOps' = ucOps + 1
      /\ ucProc[s].pc = "live" /\ ucCo[s].pc = "idle" /\ ~Pends /\ ucInstaller = "none"
      /\ ucInstaller' = s /\ ucConv' = [ucConv EXCEPT !.excl = s]
      /\ ucConv.excl = "none" /\ ucConv.shared = {}
  BY DEF ConvInv, U!BeginUpdate, U!Live, U!CanLock, U!Exclusive, U!None, Pends
<1>b. /\ ucConv'.excl = s /\ ucConv'.shared = {} /\ ucOps \in Nat /\ ucProc[s].version \in Nat
      /\ ucConv' \in [excl : UcSlots \cup {"none"}, shared : SUBSET UcSlots]
  BY <1>a DEF ConvTypes, UcProcesses, UcVersions
<1>1. PICK target \in (ucProc[s].version + 1)..UcMaxVersion :
        ucCo' = [ucCo EXCEPT ![s] = [U!IdleCo EXCEPT !.pc = "prepare", !.op = ucOps + 1,
                                              !.target = target, !.todo = U!Participants]]
  BY DEF U!BeginUpdate
<1>2. target \in Nat /\ ucProc[s].version < target
  BY <1>a, <1>b, <1>1, ConvergenceAssumption
<1>3. /\ ucCo' \in [UcSlots -> UcCoordinators] /\ \A t \in UcSlots \ {s} : ucCo'[t] = ucCo[t]
      /\ ucCo'[s].pc = "prepare" /\ ucCo'[s].op = ucOps + 1 /\ ucCo'[s].target = target
  <2>1. U!Participants \in SUBSET UcSlots
    BY DEF U!Participants, U!Live
  <2>2. ucCo'[s] = [U!IdleCo EXCEPT !.pc = "prepare", !.op = ucOps + 1,
                                    !.target = target, !.todo = U!Participants]
    BY <1>a, <1>b, <1>1 DEF ConvTypes
  <2>3. ucCo'[s] \in UcCoordinators
    <3>1. ucOps + 1 \in Nat
      BY <1>a, <1>b
    <3> QED BY <1>2, <2>1, <2>2, <3>1 DEF UcCoordinators, U!IdleCo
  <2>4. ucCo'[s].pc = "prepare" /\ ucCo'[s].op = ucOps + 1 /\ ucCo'[s].target = target
    BY <2>2, ConvIdle DEF UcCoordinators
  <2> QED BY <1>a, <1>b, <1>1, <2>3, <2>4 DEF ConvTypes
<1>4. ConvTypes'
  BY <1>a, <1>b, <1>3 DEF ConvTypes
<1>5. CoordinatorFine(s)' /\ GatheredFine(s)'
  <2>1. ucOps + 1 \in 1..ucOps'
    BY <1>a, <1>b
  <2> QED BY <1>a, <1>b, <1>2, <1>3, <2>1
         DEF CoordinatorFine, GatheredFine, InApp, IsLive, External, Holds
<1> QED BY <1>a, <1>b, <1>3, <1>4, <1>5, BeginKeeps

LEMMA ConvBeginExternal ==
  ASSUME ConvInv, NEW s \in UcSlots, U!BeginExternal(s) PROVE ConvInv'
<1>0. /\ ConvTypes /\ UNCHANGED <<ucDisk, ucCache, ucLate>> /\ ucLate' \subseteq UcRequests
      /\ ucProc[s].pc = "candidate" /\ ucCo[s].pc = "idle" /\ ~Pends
      /\ ucOps \in Nat /\ ucProc[s].version \in Nat /\ ucConv.excl = s /\ ucConv.shared = {}
      /\ "none" \notin UcSlots /\ ucProc \in [UcSlots -> UcProcesses] /\ ucProc[s] \in UcProcesses
      /\ ucCo \in [UcSlots -> UcCoordinators]
  BY ConvergenceAssumption
     DEF ConvInv, ConvTypes, ProcessFine, CoordinatorFine, LockFine, U!BeginExternal, UcProcesses,
         UcVersions
<1> DEFINE v == ucProc[s].version
<1>1. CASE U!Gone(s) /\ UNCHANGED ucOps
  BY <1>0, <1>1, GoneKeeps
<1>2. CASE /\ U!Older(v) = {} /\ UNCHANGED <<ucConv, ucInstaller, ucCo, ucOps>>
           /\ ucProc' = [ucProc EXCEPT ![s].pc = "deferred", ![s].schema = "exclusive"]
  <2>1. /\ ucProc' \in [UcSlots -> UcProcesses] /\ ucProc'[s].pc = "deferred"
        /\ ucProc'[s].schema = "exclusive" /\ ucProc'[s].version = ucProc[s].version
        /\ ucProc'[s].gen = ucProc[s].gen /\ ucProc[s].gen \in Nat
        /\ \A t \in UcSlots \ {s} : ucProc'[t] = ucProc[t]
    <3>1. "deferred" \in UcPcs
      BY DEF UcPcs
    <3> QED BY <1>0, <1>2, <3>1 DEF UcProcesses
  <2>2. ConvTypes' /\ ucProc'[s].gen >= ucProc[s].gen
    BY <1>0, <1>2, <2>1 DEF ConvTypes
  <2>3. \A t \in UcSlots : ~LiveBelow(t, v)
    BY <1>2 DEF U!Older, U!Live, LiveBelow, IsLive
  <2>4. DeferredFine(s)'
    BY <1>0, <2>1, <2>3 DEF DeferredFine, LiveBelow, IsLive
  <2>5. LeaseFine(s)' /\ AdmissionFine(s)' /\ LockFine(s)'
    BY <1>0, <1>2, <2>1 DEF LeaseFine, AdmissionFine, LockFine, IsLive, Holds
  <2> QED BY <1>0, <1>2, <2>1, <2>2, <2>4, <2>5, StartKeeps
<1>3. CASE /\ ucOps' = ucOps + 1 /\ Moves(s, "converging") /\ UNCHANGED <<ucConv, ucInstaller>>
           /\ ucCo' = [ucCo EXCEPT ![s] = [U!IdleCo EXCEPT !.pc = "prepare", !.op = ucOps + 1,
                                                    !.target = v, !.todo = U!Older(v)]]
  <2>0. "converging" \in UcPcs
    BY DEF UcPcs
  <2>1. /\ ucCo' \in [UcSlots -> UcCoordinators] /\ \A t \in UcSlots \ {s} : ucCo'[t] = ucCo[t]
        /\ ucCo'[s].pc = "prepare" /\ ucCo'[s].op = ucOps + 1 /\ ucCo'[s].target = v
        /\ ucCo'[s].todo = U!Older(v) /\ ucCo'[s].ready = {}
    <3>1. U!Older(v) \in SUBSET UcSlots
      BY DEF U!Older, U!Live
    <3>2. ucCo'[s] = [U!IdleCo EXCEPT !.pc = "prepare", !.op = ucOps + 1,
                                      !.target = v, !.todo = U!Older(v)]
      BY <1>0, <1>3
    <3>3. ucCo'[s] \in UcCoordinators
      <4>1. ucOps + 1 \in Nat
        BY <1>0
      <4> QED BY <1>0, <3>1, <3>2, <4>1 DEF UcCoordinators, U!IdleCo
    <3>4. /\ ucCo'[s].pc = "prepare" /\ ucCo'[s].op = ucOps + 1 /\ ucCo'[s].target = v
          /\ ucCo'[s].todo = U!Older(v) /\ ucCo'[s].ready = {}
      BY <3>2, ConvIdle DEF UcCoordinators, U!IdleCo
    <3> QED BY <1>0, <1>3, <3>3, <3>4
  <2>2. /\ ucProc' \in [UcSlots -> UcProcesses] /\ ucProc'[s].pc = "converging"
        /\ ucProc'[s].version = ucProc[s].version
        /\ \A t \in UcSlots \ {s} : ucProc'[t] = ucProc[t]
    BY <1>0, <1>3, <2>0, SetPcFacts
  <2>3. ConvTypes'
    BY <1>0, <1>3, <2>1, <2>2 DEF ConvTypes
  <2>4. CoordinatorFine(s)'
    <3>1. ucOps + 1 \in 1..ucOps' /\ v <= UcMaxVersion
      BY <1>0, <1>3, ConvergenceAssumption DEF UcProcesses, UcVersions
    <3> QED BY <2>1, <2>2, <3>1 DEF CoordinatorFine, InApp, IsLive, External
  <2>5. GatheredFine(s)'
    <3>1. \A t \in UcSlots : LiveBelow(t, v) <=> t \in U!Older(v)
      BY DEF U!Older, U!Live, LiveBelow, IsLive
    <3>2. \A t \in UcSlots : IsLive(t)' => IsLive(t) /\ ucProc'[t].version = ucProc[t].version
      BY <2>2 DEF IsLive
    <3>3. ASSUME NEW t \in UcSlots, LiveBelow(t, ucCo[s].target)' PROVE t \in ucCo'[s].todo
      BY <2>1, <3>1, <3>2, <3>3 DEF LiveBelow
    <3>4. ASSUME NEW t \in ucCo'[s].todo \cup ucCo'[s].ready
          PROVE  ucProc'[t].version < ucCo'[s].target
      <4>1. t \in UcSlots /\ t \in U!Older(v)
        BY <2>1, <3>4 DEF U!Older, U!Live
      <4> QED BY <1>0, <2>1, <2>2, <3>1, <4>1 DEF LiveBelow
    <3> QED BY <2>1, <3>3, <3>4 DEF GatheredFine
  <2> QED BY <1>0, <1>3, <2>1, <2>2, <2>3, <2>4, <2>5, BeginKeeps
<1> QED BY <1>1, <1>2, <1>3 DEF U!BeginExternal, Moves

\* The in-app coordinator installs and records its target, and meets the owners again.
LEMMA ConvInstall ==
  ASSUME ConvInv, NEW s \in UcSlots, U!Install(s) PROVE ConvInv'
<1>0. /\ ConvTypes /\ UNCHANGED <<ucOps, ucLate>> /\ ucLate' \subseteq UcRequests
      /\ ucCo[s].pc = "prepare" /\ ~External(s) /\ ucCo \in [UcSlots -> UcCoordinators]
      /\ ucCo[s] \in UcCoordinators /\ ucCache \in UcCaches /\ "none" \notin UcSlots
  BY ConvergenceAssumption DEF ConvInv, ConvTypes, U!Install, External, U!External
<1>1. CASE U!Abandon(s, ucCo[s].ready) /\ UNCHANGED <<ucDisk, ucCache>>
  BY <1>0, <1>1, AbandonKeeps
<1>2. CASE /\ ucDisk <= ucCo[s].target /\ ucDisk' = ucCo[s].target
           /\ ucProc' = U!ReleaseAll(s, ucCo[s].ready)
           /\ ucCo' = [ucCo EXCEPT ![s] = [ucCo[s] EXCEPT !.pc = "prepareInstalled", !.ready = {},
                                                          !.todo = U!Participants]]
           /\ ucCache' = [ucCache EXCEPT !.observed = ucCo[s].target, !.restart = TRUE]
           /\ UNCHANGED <<ucConv, ucInstaller>>
  <2>1. /\ IsLive(s) /\ InApp(s) /\ ucInstaller = s /\ ucProc[s].version < ucCo[s].target
        /\ ucConv.excl = s /\ ucConv.shared = {} /\ ~Pends /\ ucCo[s].op \in 1..ucOps
        /\ ucCo[s].target <= UcMaxVersion
    BY <1>0 DEF ConvInv, ProcessFine, CoordinatorFine, LockFine, InApp, IsLive, Holds, External
  <2>2. /\ ucCo[s].target \in UcVersions /\ ucCo[s].target \in Nat /\ ucDisk \in Nat
        /\ ucCache.observed \in Nat /\ ucCache.observed <= ucCo[s].target
    <3>1. /\ ucCo[s].target \in Nat /\ ucDisk \in Nat /\ ucProc[s].version \in Nat
          /\ ucCache.observed \in Nat /\ UcMaxVersion \in Nat /\ ucCache.observed <= ucDisk
      BY <1>0, ConvergenceAssumption
         DEF UcCoordinators, ConvTypes, UcVersions, UcProcesses, UcCaches, ConvInv, CohortFine
    <3>2. ucCo[s].target >= 1 /\ ucCache.observed <= ucCo[s].target
      BY <1>2, <2>1, <3>1
    <3> QED BY <2>1, <3>1, <3>2 DEF UcVersions
  <2>3. /\ ucProc' \in [UcSlots -> UcProcesses]
        /\ \A t \in UcSlots : /\ ucProc'[t].pc = ucProc[t].pc
                              /\ ucProc'[t].version = ucProc[t].version
                              /\ ucProc'[t].gen = ucProc[t].gen
                              /\ ucProc'[t].schema = ucProc[t].schema
                              /\ Quiet(t) => Quiet(t)'
    <3>1. PICK r \in [UcSlots -> UcProcesses] :
            /\ r = U!ReleaseAll(s, ucCo[s].ready)
            /\ \A t \in UcSlots :
                 /\ r[t].pc = ucProc[t].pc /\ r[t].version = ucProc[t].version
                 /\ r[t].gen = ucProc[t].gen /\ r[t].schema = ucProc[t].schema
                 /\ Quiet(t) => r[t].barrier.quiesced = TRUE
      BY <1>0, ReleaseAllFacts
    <3> QED BY <1>2, <3>1 DEF Quiet
  <2>4. /\ ucCo' \in [UcSlots -> UcCoordinators] /\ \A u \in UcSlots \ {s} : ucCo'[u] = ucCo[u]
        /\ ucCo'[s].pc = "prepareInstalled" /\ ucCo'[s].op = ucCo[s].op
        /\ ucCo'[s].target = ucCo[s].target /\ ucCo'[s].todo = U!Participants
    <3>1. ucCo'[s] = [ucCo[s] EXCEPT !.pc = "prepareInstalled", !.ready = {}, !.todo = U!Participants]
      BY <1>0, <1>2
    <3>2. U!Participants \in SUBSET UcSlots
      BY DEF U!Participants, U!Live
    <3>3. ucCo'[s] \in UcCoordinators
      BY <1>0, <3>1, <3>2 DEF UcCoordinators
    <3>4. /\ ucCo'[s].pc = "prepareInstalled" /\ ucCo'[s].op = ucCo[s].op
          /\ ucCo'[s].target = ucCo[s].target /\ ucCo'[s].todo = U!Participants
      BY <1>0, <3>1 DEF UcCoordinators
    <3> QED BY <1>0, <1>2, <3>3, <3>4
  <2>5. /\ ucCache' \in UcCaches /\ ucCache'.observed = ucCo[s].target
        /\ ucCache'.pending = ucCache.pending /\ ucCache'.highlights = ucCache.highlights
    BY <1>0, <1>2, <2>2 DEF UcCaches
  <2>6. ConvTypes'
    BY <1>0, <1>2, <2>2, <2>3, <2>4, <2>5 DEF ConvTypes
  <2>7. \A t \in UcSlots \ {s} :
          /\ ~Holds(t) /\ ~InApp(t)
          /\ ucProc[t].pc \notin {"candidate", "deferred", "admitted", "manual", "opened", "resumed"}
    BY <1>0, <2>1 DEF ConvInv, ProcessFine, LockFine, CoordinatorFine, AdmissionFine
  <2>8. OwnOperation' /\ (ucConv.excl # "none" => ucConv.shared = {})'
    BY <1>0, <1>2, <2>1, <2>4 DEF ConvInv, OwnOperation
  <2>9. CohortFine' /\ U!CohortExcludesOlder'
    <3>1. \A e \in ucCache.pending.expected : e.slot \in UcSlots
      BY <1>0 DEF UcCaches, UcPending
    <3>2. ucCache'.observed <= ucDisk'
      BY <1>2, <2>2, <2>5
    <3> QED BY <1>0, <2>1, <2>3, <2>5, <3>1, <3>2
           DEF ConvInv, CohortFine, U!CohortExcludesOlder, Pends
  <2>10. AnnouncedFine'
    <3>1. ucCache.highlights.target \in Nat /\ ucCache.highlights.target <= ucCache.observed
      BY <1>0 DEF UcCaches, ConvInv, AnnouncedFine
    <3>2. ucCache.highlights.target <= ucCo[s].target
      BY <2>2, <3>1
    <3> QED BY <2>3, <2>5, <3>2 DEF ConvInv, AnnouncedFine, LiveBelow, IsLive
  <2>11. ASSUME NEW t \in UcSlots
        PROVE  /\ LeaseFine(t)' /\ AdmissionFine(t)' /\ LockFine(t)' /\ CoordinatorFine(t)'
               /\ DeferredFine(t)' /\ GatheredFine(t)' /\ QuietFine(t)' /\ InstalledFine(t)'
               /\ RestartedFine(t)'
    <3>0. /\ LeaseFine(t) /\ AdmissionFine(t) /\ LockFine(t) /\ CoordinatorFine(t)
          /\ DeferredFine(t) /\ GatheredFine(t) /\ QuietFine(t) /\ InstalledFine(t)
          /\ RestartedFine(t) /\ ucProc[t].version \in Nat /\ ucCo[t].target \in Nat
      BY <1>0 DEF ConvInv, ConvTypes, ProcessFine, UcProcesses, UcVersions, UcCoordinators
    <3>1. LeaseFine(t)'
      BY <2>3, <3>0 DEF LeaseFine, IsLive
    <3>2. AdmissionFine(t)'
      <4>1. ucProc[t].version <= ucCache.observed => ucProc[t].version <= ucCo[s].target
        BY <2>2, <3>0
      <4> QED BY <2>1, <2>3, <2>5, <2>7, <3>0, <4>1 DEF AdmissionFine, IsLive
    <3>3. LockFine(t)' /\ DeferredFine(t)'
      BY <1>2, <2>1, <2>3, <2>4, <2>5, <2>7 DEF LockFine, DeferredFine, Holds, Pends, IsLive
    <3>4. CoordinatorFine(t)'
      BY <1>0, <1>2, <2>1, <2>3, <2>4, <3>0 DEF CoordinatorFine, InApp, IsLive, External
    <3>5. GatheredFine(t)'
      BY <2>1, <2>3, <2>4, <2>7
         DEF GatheredFine, Holds, LiveBelow, IsLive, External, U!Participants, U!Live
    <3>6. QuietFine(t)'
      BY <2>3, <2>4, <3>0 DEF QuietFine, LiveBelow, IsLive
    <3>7. InstalledFine(t)'
      <4>1. CASE t = s
        BY <2>2, <2>4, <2>5, <4>1 DEF InstalledFine, Restarts
      <4>2. CASE t # s
        <5>1. ucCache.observed >= ucCo[t].target => ucCo[s].target >= ucCo[t].target
          BY <2>2, <3>0
        <5> QED BY <2>3, <2>4, <2>5, <2>7, <3>0, <4>2, <5>1 DEF InstalledFine, InApp, IsLive, Restarts
      <4> QED BY <4>1, <4>2
    <3>8. RestartedFine(t)'
      <4>1. \A e \in ucCache.pending.expected : e.slot \in UcSlots
        BY <1>0 DEF UcCaches, UcPending
      <4> QED BY <2>3, <2>4, <2>5, <3>0, <4>1 DEF RestartedFine, Restarts, External
    <3> QED BY <3>1, <3>2, <3>3, <3>4, <3>5, <3>6, <3>7, <3>8
  <2> QED BY <2>6, <2>8, <2>9, <2>10, <2>11 DEF ConvInv, ProcessFine
<1> QED BY <1>1, <1>2 DEF U!Install

\* The in-app coordinator announces what it restarted, and its own process is replaced last.
LEMMA ConvFinishUpdate ==
  ASSUME ConvInv, NEW s \in UcSlots, U!FinishUpdate(s) PROVE ConvInv'
<1>0. /\ ConvTypes /\ UNCHANGED <<ucDisk, ucConv, ucLate, ucOps>> /\ ucInstaller' = "none"
      /\ ucCo[s].pc = "finish" /\ ~External(s) /\ ucCo \in [UcSlots -> UcCoordinators]
      /\ ucCo[s] \in UcCoordinators /\ ucCache \in UcCaches /\ "none" \notin UcSlots
      /\ ucCo' = [ucCo EXCEPT ![s] = U!IdleCo] /\ ucProc \in [UcSlots -> UcProcesses]
  BY ConvergenceAssumption
     DEF ConvInv, ConvTypes, U!FinishUpdate, External, U!External, U!None
<1>1. /\ InApp(s) /\ IsLive(s) /\ ucInstaller = s /\ ucProc[s].version < ucCo[s].target
      /\ ucCo[s].recover = FALSE /\ ucCache.observed >= ucCo[s].target
      /\ ucCache.observed > ucCo[s].target =>
           [slot |-> s, gen |-> ucProc[s].gen] \in ucCache.pending.expected
  BY <1>0 DEF ConvInv, ProcessFine, CoordinatorFine, InstalledFine, InApp, IsLive, External
<1>2. /\ ucCo[s].target \in Nat /\ ucCache.observed \in Nat /\ ucCo[s].op \in Nat
      /\ ucProc[s].version \in Nat
  BY <1>0 DEF UcCoordinators, UcCaches, UcVersions, UcProcesses
<1>3. ~Pends => ucCache.observed = ucCo[s].target
  BY <1>1, <1>2, ConvIdle DEF Pends
<1>4. /\ ucCo' \in [UcSlots -> UcCoordinators] /\ ucCo'[s] = U!IdleCo
      /\ \A t \in UcSlots \ {s} : ucCo'[t] = ucCo[t]
  BY <1>0, ConvIdle
<1>5. \/ /\ ucProc' = [ucProc EXCEPT ![s] = U!Replacement(s, ucCo[s].op, ucCo[s].target)]
         /\ \/ ucCache' = ucCache
            \/ /\ ucCo[s].failed = {}
               /\ ucCache' = [ucCache EXCEPT !.highlights = [slot |-> s, target |-> ucCo[s].target]]
      \/ /\ ucProc' = ucProc
         /\ \/ ucCache' = ucCache
            \/ /\ ~Pends
               /\ \E r \in BOOLEAN : ucCache' = [ucCache EXCEPT !.observed = ucCo[s].target,
                                                                !.restart = r]
  BY DEF U!FinishUpdate, Pends
<1>6. /\ ucProc' \in [UcSlots -> UcProcesses] /\ \A t \in UcSlots \ {s} : ucProc'[t] = ucProc[t]
      /\ ucProc'[s] = ucProc[s] \/ Leaves(s)
  <2>1. CASE ucProc' = [ucProc EXCEPT ![s] = U!Replacement(s, ucCo[s].op, ucCo[s].target)]
    <3>1. /\ ucProc'[s] = U!Replacement(s, ucCo[s].op, ucCo[s].target)
          /\ \A t \in UcSlots \ {s} : ucProc'[t] = ucProc[t]
      BY <1>0, <2>1
    <3>2. /\ ucProc'[s] \in UcProcesses /\ ucProc'[s].pc = "loading" /\ ucProc'[s].schema = "none"
          /\ ucProc'[s].gen = ucProc[s].gen + 1 /\ ucProc[s].gen \in Nat
      BY <1>0, <1>2, <3>1, ReplacementFacts
    <3>3. ucProc'[s].gen >= ucProc[s].gen
      BY <3>2
    <3> QED BY <1>0, <2>1, <3>1, <3>2, <3>3 DEF Leaves
  <2>2. CASE ucProc' = ucProc
    BY <1>0, <2>2
  <2> QED BY <1>5, <2>1, <2>2
<1>7. /\ ucCache' \in UcCaches /\ ucCache'.observed = ucCache.observed
      /\ ucCache'.pending = ucCache.pending
      /\ \/ ucCache' = ucCache
         \/ /\ ucCo[s].failed = {} /\ Leaves(s) /\ ucCache'.highlights.target = ucCo[s].target
         \/ ucCache'.highlights = ucCache.highlights
  <2>1. CASE ucCache' = ucCache
    BY <1>0, <2>1
  <2>2. CASE /\ ucProc' = [ucProc EXCEPT ![s] = U!Replacement(s, ucCo[s].op, ucCo[s].target)]
             /\ ucCo[s].failed = {}
             /\ ucCache' = [ucCache EXCEPT !.highlights = [slot |-> s, target |-> ucCo[s].target]]
    <3>1. ucProc'[s].pc = "loading" /\ ucProc[s].pc = "live"
      BY <1>0, <1>1, <1>2, <2>2, ReplacementFacts DEF IsLive
    <3>2. Leaves(s)
      BY <1>6, <3>1
    <3>3. [slot |-> s, target |-> ucCo[s].target] \in [slot : UcSlots \cup {"none"}, target : Nat]
      BY <1>2
    <3>4. /\ ucCache' \in UcCaches /\ ucCache'.observed = ucCache.observed
          /\ ucCache'.pending = ucCache.pending
          /\ ucCache'.highlights = [slot |-> s, target |-> ucCo[s].target]
      BY <1>0, <2>2, <3>3 DEF UcCaches
    <3> QED BY <2>2, <3>2, <3>4
  <2>3. CASE ~Pends /\ \E r \in BOOLEAN : ucCache' = [ucCache EXCEPT !.observed = ucCo[s].target,
                                                                     !.restart = r]
    <3>1. ucCo[s].target = ucCache.observed
      BY <1>3, <2>3
    <3>2. PICK r \in BOOLEAN : ucCache' = [ucCache EXCEPT !.observed = ucCache.observed, !.restart = r]
      BY <2>3, <3>1
    <3> QED BY <1>0, <3>2 DEF UcCaches
  <2> QED BY <1>5, <2>1, <2>2, <2>3
<1>8. ConvTypes'
  BY <1>0, <1>4, <1>6, <1>7 DEF ConvTypes
<1>9. \A t \in UcSlots : Stays(t) \/ Leaves(t)
  BY <1>6, KeptStays
<1>10. AnnouncedFine'
  <2>1. ucCache'.highlights.target <= ucCache'.observed
    BY <1>1, <1>2, <1>7 DEF ConvInv, AnnouncedFine
  <2>2. ASSUME NEW t \in UcSlots, IsLive(t)', ucProc'[t].version < ucCache'.highlights.target
        PROVE  Quiet(t)'
    <3>1. IsLive(t) /\ ucProc'[t].version = ucProc[t].version /\ (Quiet(t) => Quiet(t)')
      BY <1>9, <2>2 DEF Stays, Leaves, IsLive
    <3>2. CASE ucCache'.highlights = ucCache.highlights
      BY <2>2, <3>1, <3>2 DEF ConvInv, AnnouncedFine, LiveBelow
    <3>3. CASE ucCo[s].failed = {} /\ ucCache'.highlights.target = ucCo[s].target
      BY <1>0, <1>1, <2>2, <3>1, <3>3 DEF ConvInv, ProcessFine, QuietFine, LiveBelow
    <3> QED BY <1>7, <3>2, <3>3
  <2> QED BY <2>1, <2>2 DEF AnnouncedFine, LiveBelow
<1>11. ASSUME NEW t \in UcSlots PROVE ProcessFine(t)'
  <2>1. \/ ucCo'[t] = ucCo[t] /\ Stays(t) /\ (ucInstaller = t => ucInstaller' = t)
        \/ ucCo'[t] = U!IdleCo /\ ucProc'[t].pc # "converging"
    BY <1>1, <1>4, <1>6, KeptStays DEF Leaves, IsLive
  <2> QED BY <1>0, <1>7, <1>8, <1>9, <2>1, ProcessKeeps
<1>12. \A t \in UcSlots : ucCo'[t].pc # "idle" => ucCo[t].pc # "idle" /\ ucCo'[t].op = ucCo[t].op
  BY <1>4, ConvIdle
<1> QED BY <1>0, <1>7, <1>8, <1>9, <1>10, <1>11, <1>12, SharedKeeps

\* The external coordinator enters as an ordinary starter, and its cohort is cleared.
LEMMA ConvFinishExternal ==
  ASSUME ConvInv, NEW s \in UcSlots, U!FinishExternal(s) PROVE ConvInv'
<1>0. /\ ConvTypes /\ UNCHANGED <<ucDisk, ucLate, ucOps>> /\ ucLate' \subseteq UcRequests
      /\ ucCo[s].pc = "finish" /\ External(s) /\ ucCo \in [UcSlots -> UcCoordinators]
      /\ ucProc[s].version \in Nat
  BY DEF ConvInv, ConvTypes, U!FinishExternal, External, U!External, UcProcesses, UcVersions
<1>1. CASE U!Gone(s) /\ UNCHANGED ucCache
  BY <1>0, <1>1, GoneKeeps
<1>2. CASE /\ ucCo[s].failed = {} /\ U!CanShare /\ ucCache.observed = ucCo[s].target
           /\ ucCache.pending.op \in {0, ucCo[s].op} /\ ucCache' = U!Completed
           /\ ucConv' = U!Shared(s) /\ Moves(s, "admitted") /\ ucCo' = [ucCo EXCEPT ![s] = U!IdleCo]
           /\ UNCHANGED ucInstaller
  <2>1. /\ ucCo' \in [UcSlots -> UcCoordinators] /\ ucCo'[s].pc = "idle"
        /\ \A t \in UcSlots \ {s} : ucCo'[t] = ucCo[t]
    BY <1>0, <1>2, ConvIdle
  <2>2. /\ ucCo[s].todo = {} /\ ucProc[s].version = ucCo[s].target
    BY <1>0 DEF ConvInv, ProcessFine, CoordinatorFine
  <2>3. ASSUME NEW t \in UcSlots, InApp(t), ucCo[t].pc # "prepare", ucCache.observed > ucCo[t].target
        PROVE  FALSE
    <3> DEFINE e == [slot |-> t, gen |-> ucProc[t].gen]
    <3>1. e \in ucCache.pending.expected
      BY <2>3 DEF ConvInv, ProcessFine, InstalledFine
    <3>2. ucCache.pending.op = ucCo[s].op
      BY <1>2, <3>1, ConvIdle DEF ConvInv, CohortFine, Pends
    <3>3. ucProc[t].gen > e.gen /\ e.slot = t /\ e.gen = ucProc[t].gen
      BY <1>0, <1>2, <2>2, <3>1, <3>2 DEF ConvInv, ProcessFine, RestartedFine, Restarts
    <3>4. ucProc[t].gen \in Nat
      BY <1>0 DEF ConvTypes, UcProcesses
    <3> HIDE DEF e
    <3> QED BY <3>3, <3>4
  <2>4. \A t \in UcSlots : InApp(t) /\ ucCo[t].pc # "prepare" => ~(ucCache.observed > ucCo[t].target)
    BY <2>3
  <2>5. ucProc[s].version <= ucCache.observed /\ ucProc[s].pc # "live"
    BY <1>0, <1>2, <2>2 DEF External
  <2> QED BY <1>0, <1>2, <2>1, <2>4, <2>5, CompletingKeeps
<1> QED BY <1>1, <1>2 DEF U!FinishExternal, Moves

-----------------------------------------------------------------------------
(* What is recorded                                                         *)

\* A need to restart is withdrawn only when every older owner is quiet, and the recorded
\* version does not go back.
RecordKept ==
  /\ ucCache.restart /\ ~ucCache'.restart =>
       \A t \in UcSlots : LiveBelow(t, ucCache'.observed) => Quiet(t)
  /\ ucCache'.observed >= ucCache.observed

LEMMA RecordSame ==
  ASSUME ConvInv, UNCHANGED ucCache PROVE RecordKept
<1>1. ucCache.observed \in Nat
  BY DEF ConvInv, ConvTypes, UcCaches, UcVersions
<1>2. ucCache'.observed >= ucCache.observed
  BY <1>1
<1> QED BY <1>2 DEF RecordKept

LEMMA RecordCompleted ==
  ASSUME ConvInv, ucCache' = U!Completed,
         \A t \in UcSlots : LiveBelow(t, ucCache.observed) => Quiet(t)
  PROVE  RecordKept
<1>0. ConvTypes
  BY DEF ConvInv
<1>1. ucCache.observed \in Nat /\ ucCache'.observed = ucCache.observed
  BY <1>0, CompletedFacts DEF UcCaches, UcVersions
<1>2. ucCache'.observed >= ucCache.observed
  BY <1>1
<1> QED BY <1>1, <1>2 DEF RecordKept

LEMMA RecordRecovers ==
  ASSUME ConvInv, NEW s \in UcSlots, U!RecoverPending(s) \/ U!ReconcileNewer(s) PROVE RecordKept
<1>1. \/ UNCHANGED ucCache
      \/ /\ ucCache' = U!Completed /\ U!Older(ucProc[s].version) = {}
         /\ ucCache.observed = ucProc[s].version
  BY DEF U!RecoverPending, U!ReconcileNewer, U!RecoverLocked
<1>2. CASE /\ ucCache' = U!Completed /\ U!Older(ucProc[s].version) = {}
           /\ ucCache.observed = ucProc[s].version
  <2>1. \A t \in UcSlots : ~LiveBelow(t, ucCache.observed)
    BY <1>2 DEF U!Older, U!Live, LiveBelow, IsLive
  <2> QED BY <1>2, <2>1, RecordCompleted
<1> QED BY <1>1, <1>2, RecordSame

LEMMA RecordAdoptStore ==
  ASSUME ConvInv, NEW s \in UcSlots, U!AdoptStore(s) PROVE RecordKept
<1>1. CASE UNCHANGED ucCache
  BY <1>1, RecordSame
<1>2. CASE /\ U!CanReconcile(ucProc[s].seen, ucProc[s].version, U!NoPending)
           /\ ucCache' = U!Reconciled(ucProc[s].seen, ucProc[s].version, U!NoPending)
  <2>1. /\ ucProc[s].version \in UcVersions /\ ucProc[s].version \in Nat /\ ConvTypes
        /\ ucCache.observed \in Nat /\ ucProc[s].pc = "deferred"
    BY DEF ConvInv, ConvTypes, UcProcesses, UcCaches, UcVersions, U!AdoptStore
  <2>2. ucCache'.observed = ucProc[s].version
    BY <1>2, <2>1, ConvIdle, ReconciledFacts
  <2>3. ucProc[s].version >= ucCache.observed
    BY <1>2, <2>1 DEF U!CanReconcile
  <2>4. \A t \in UcSlots : ~LiveBelow(t, ucProc[s].version)
    BY <2>1 DEF ConvInv, ProcessFine, DeferredFine
  <2> QED BY <2>2, <2>3, <2>4 DEF RecordKept
<1> QED BY <1>1, <1>2 DEF U!AdoptStore

LEMMA RecordGoLive ==
  ASSUME ConvInv, NEW s \in UcSlots, U!GoLive(s) PROVE RecordKept
<1>0. /\ ConvTypes /\ ucCache.observed \in Nat /\ ucProc[s].pc \in {"opened", "resumed"}
      /\ ucProc[s].version = ucCache.observed
  BY DEF ConvInv, ConvTypes, UcCaches, UcVersions, U!GoLive, ProcessFine, AdmissionFine
<1>1. CASE UNCHANGED ucCache
  BY <1>1, RecordSame
<1>2. CASE U!Expects(s) /\ ucCache' = U!Acknowledged(s)
  <2>1. ucCache'.observed = ucCache.observed
    BY <1>0, <1>2, ResumedFacts
  <2>2. Pends /\ ucCache.pending.target = ucCache.observed
    BY <1>2, ConvIdle DEF U!Expects, Pends, ConvInv, CohortFine
  <2>3. ASSUME NEW t \in UcSlots, LiveBelow(t, ucCache.observed) PROVE Quiet(t)
    <3>1. ucProc[t].version \in Nat
      BY <1>0 DEF ConvTypes, UcProcesses, UcVersions
    <3>2. ucProc[t].schema = "none"
      BY <1>0, <2>2, <2>3, <3>1 DEF ConvInv, U!CohortExcludesOlder, LiveBelow, Pends
    <3> QED BY <2>3, <3>2 DEF ConvInv, ProcessFine, LeaseFine, LiveBelow
  <2> QED BY <1>0, <2>1, <2>3 DEF RecordKept
<1>3. CASE ucCache' = U!RestartReady(s)
  <2>1. ucCache'.observed = ucCache.observed
    BY <1>0, <1>3, ResumedFacts
  <2>2. CASE ucCache.highlights = [slot |-> s, target |-> ucProc[s].version]
    <3>1. \A t \in UcSlots : LiveBelow(t, ucCache.observed) => Quiet(t)
      BY <1>0, <2>2 DEF ConvInv, AnnouncedFine
    <3> QED BY <1>0, <2>1, <3>1 DEF RecordKept
  <2>3. CASE ucCache.highlights # [slot |-> s, target |-> ucProc[s].version]
    BY <1>3, <2>3, RecordSame DEF U!RestartReady
  <2> QED BY <2>2, <2>3
<1> QED BY <1>0, <1>1, <1>2, <1>3 DEF U!GoLive

LEMMA RecordInstall ==
  ASSUME ConvInv, NEW s \in UcSlots, U!Install(s) PROVE RecordKept
<1>1. CASE UNCHANGED ucCache
  BY <1>1, RecordSame
<1>2. CASE /\ ucDisk <= ucCo[s].target
           /\ ucCache' = [ucCache EXCEPT !.observed = ucCo[s].target, !.restart = TRUE]
  <2>1. /\ ucCache \in UcCaches /\ ucCache.observed \in Nat /\ ucDisk \in Nat
        /\ ucCo[s].target \in Nat /\ ucCache.observed <= ucDisk
    BY DEF ConvInv, ConvTypes, UcCaches, UcVersions, UcCoordinators, CohortFine
  <2>2. ucCache'.observed = ucCo[s].target /\ ucCache'.restart = TRUE
    BY <1>2, <2>1 DEF UcCaches
  <2>3. ucCo[s].target >= ucCache.observed
    BY <1>2, <2>1
  <2> QED BY <2>2, <2>3 DEF RecordKept
<1> QED BY <1>1, <1>2 DEF U!Install

LEMMA RecordAdoptExternal ==
  ASSUME ConvInv, NEW s \in UcSlots, U!AdoptExternal(s) PROVE RecordKept
<1>1. CASE UNCHANGED ucCache
  BY <1>1, RecordSame
<1>2. CASE ~UNCHANGED ucCache
  <2>1. PICK cohort :
          /\ cohort = [op |-> ucCo[s].op, target |-> ucCo[s].target, acknowledged |-> {},
                       expected |-> U!Expectations(ucCo[s].ready)]
          /\ U!CanReconcile(ucProc[s].seen, ucProc[s].version, cohort)
          /\ ucCache' = U!Reconciled(ucProc[s].seen, ucProc[s].version, cohort)
    BY <1>2 DEF U!AdoptExternal
  <2>2. /\ ucCache \in UcCaches /\ ucCache.observed \in Nat /\ ucProc[s].version \in Nat
        /\ ucCo[s].op # 0
    <3>1. ucCo[s].op \in 1..ucOps
      BY DEF ConvInv, ProcessFine, CoordinatorFine, U!AdoptExternal
    <3> QED BY <3>1 DEF ConvInv, ConvTypes, UcCaches, UcVersions, UcProcesses
  <2>3. cohort # U!NoPending
    BY <2>1, <2>2, ConvIdle
  <2>4. ucCache' = [ucCache EXCEPT !.observed = ucProc[s].version, !.restart = (cohort # U!NoPending),
                                   !.pending = cohort]
    BY <2>1 DEF U!Reconciled
  <2>5. ucCache'.observed = ucProc[s].version /\ ucCache'.restart = TRUE
    BY <2>2, <2>3, <2>4 DEF UcCaches
  <2>6. ucProc[s].version >= ucCache.observed
    BY <2>1, <2>2 DEF U!CanReconcile
  <2> QED BY <2>5, <2>6 DEF RecordKept
<1> QED BY <1>1, <1>2

LEMMA RecordFinish ==
  ASSUME ConvInv, NEW s \in UcSlots, U!FinishUpdate(s) \/ U!FinishExternal(s) PROVE RecordKept
<1>0. /\ ConvTypes /\ ucCo[s].pc = "finish" /\ ucCo[s].recover = FALSE /\ ucCache.observed \in Nat
      /\ ucCo[s].target \in Nat /\ ucProc[s].version \in Nat /\ ucCache \in UcCaches
  BY DEF ConvInv, ProcessFine, CoordinatorFine, ConvTypes, UcCaches, UcVersions, UcCoordinators,
         UcProcesses, U!FinishUpdate, U!FinishExternal
<1>1. CASE UNCHANGED ucCache
  BY <1>1, RecordSame
<1>2. CASE U!FinishExternal(s) /\ ~UNCHANGED ucCache
  <2>1. ucCo[s].failed = {} /\ ucCache.observed = ucCo[s].target /\ ucCache' = U!Completed
    BY <1>2 DEF U!FinishExternal
  <2>2. \A t \in UcSlots : LiveBelow(t, ucCache.observed) => Quiet(t)
    BY <1>0, <2>1 DEF ConvInv, ProcessFine, QuietFine
  <2> QED BY <2>1, <2>2, RecordCompleted
<1>3. CASE U!FinishUpdate(s) /\ ~UNCHANGED ucCache
  <2>1. /\ InApp(s) /\ ucProc[s].version < ucCo[s].target /\ ucCache.observed >= ucCo[s].target
        /\ ucCache.observed > ucCo[s].target => Pends
    <3>1. InApp(s) /\ CoordinatorFine(s) /\ InstalledFine(s)
      BY <1>0, <1>3
         DEF ConvInv, ProcessFine, CoordinatorFine, InApp, IsLive, U!FinishUpdate, U!External
    <3> QED BY <1>0, <3>1, ConvIdle DEF CoordinatorFine, InstalledFine, Pends
  <2>2. \/ ucCache' = [ucCache EXCEPT !.highlights = [slot |-> s, target |-> ucCo[s].target]]
        \/ /\ ~Pends
           /\ ucCache' = [ucCache EXCEPT !.observed = ucCo[s].target,
                            !.restart = (ucCo[s].failed # {} \/ ucProc[s].version # ucCo[s].target)]
    BY <1>3 DEF U!FinishUpdate, Pends
  <2>3. CASE ucCache' = [ucCache EXCEPT !.highlights = [slot |-> s, target |-> ucCo[s].target]]
    <3>1. ucCache'.observed = ucCache.observed /\ ucCache'.restart = ucCache.restart
      BY <1>0, <2>3 DEF UcCaches
    <3>2. ucCache'.observed >= ucCache.observed
      BY <1>0, <3>1
    <3> QED BY <3>1, <3>2 DEF RecordKept
  <2>4. CASE /\ ~Pends
             /\ ucCache' = [ucCache EXCEPT !.observed = ucCo[s].target,
                              !.restart = (ucCo[s].failed # {} \/ ucProc[s].version # ucCo[s].target)]
    <3>1. ucCache'.observed = ucCo[s].target
      BY <1>0, <2>4 DEF UcCaches
    <3>2. ucProc[s].version # ucCo[s].target
      BY <1>0, <2>1
    <3>3. ucCache'.restart = TRUE
      BY <1>0, <2>4, <3>2 DEF UcCaches
    <3>4. ucCache'.observed >= ucCache.observed
      BY <1>0, <2>1, <2>4, <3>1
    <3> QED BY <3>3, <3>4 DEF RecordKept
  <2> QED BY <2>2, <2>3, <2>4
<1> QED BY <1>1, <1>2, <1>3

LEMMA RecordStep == ASSUME ConvInv, U!Next PROVE RecordKept
<1>1. CASE UNCHANGED ucCache
  BY <1>1, RecordSame
<1>2. CASE ~UNCHANGED ucCache
  <2>1. PICK s \in UcSlots : U!Start(s) \/ U!Coordinate(s)
    <3>1. ~U!InstallExternally /\ ~U!LateRequest
      BY <1>2 DEF U!InstallExternally, U!LateRequest
    <3>2. \A s \in UcSlots : /\ ~U!Launch(s) /\ ~U!BeginUpdate(s) /\ ~U!ExpireBarrier(s)
                             /\ ~U!Quit(s) /\ ~U!Crash(s)
      BY <1>2 DEF U!Launch, U!BeginUpdate, U!ExpireBarrier, U!Quit, U!Crash
    <3> QED BY <3>1, <3>2 DEF U!Next
  <2>2. CASE U!Start(s)
    <3>1. /\ ~U!LoadCache(s) /\ ~U!RefuseStart(s) /\ ~U!AdmitOrdinary(s) /\ ~U!AdmitFollower(s)
          /\ ~U!FollowConvergence(s) /\ ~U!OpenStore(s) /\ ~U!BeginExternal(s)
      BY <1>2 DEF U!LoadCache, U!RefuseStart, U!AdmitOrdinary, U!AdmitFollower, U!FollowConvergence,
                  U!OpenStore, U!BeginExternal
    <3> QED BY <2>2, <3>1, RecordRecovers, RecordAdoptStore, RecordGoLive DEF U!Start
  <2>3. CASE U!Coordinate(s)
    <3>1. /\ ~U!PrepareOne(s) /\ ~U!CommitUpdate(s) /\ ~U!CommitExternal(s) /\ ~U!QuiesceOne(s)
          /\ ~U!StartRestarts(s) /\ ~U!RestartOne(s) /\ ~U!Observe(s) /\ ~U!EndRecovery(s)
      BY <1>2 DEF U!PrepareOne, U!CommitUpdate, U!CommitExternal, U!QuiesceOne, U!StartRestarts,
                  U!RestartOne, U!Observe, U!EndRecovery
    <3> QED BY <2>3, <3>1, RecordInstall, RecordAdoptExternal, RecordFinish DEF U!Coordinate
  <2> QED BY <2>1, <2>2, <2>3
<1> QED BY <1>1, <1>2

-----------------------------------------------------------------------------
(* Every step                                                               *)

LEMMA ConvInit == ASSUME U!Init PROVE ConvInv
<1>1. /\ ucDisk = 1 /\ ucInstaller = "none" /\ ucLate = {} /\ ucOps = 0
      /\ ucCache = [observed |-> 1, restart |-> FALSE, pending |-> U!NoPending,
                    highlights |-> U!NoHighlights]
      /\ ucConv = [excl |-> "none", shared |-> {}]
      /\ ucProc = [s \in UcSlots |-> [pc |-> "off", version |-> 1, gen |-> 0, schema |-> "none",
                                      barrier |-> U!NoBarrier, proof |-> U!NoProof,
                                      exact |-> FALSE, seen |-> 0]]
      /\ ucCo = [s \in UcSlots |-> U!IdleCo]
  BY DEF U!Init, U!None
<1>2. 1 \in UcVersions /\ "off" \in UcPcs
  BY ConvergenceAssumption DEF UcVersions, UcPcs
<1>3. U!NoHighlights \in [slot : UcSlots \cup {"none"}, target : Nat] /\ U!NoHighlights.target = 0
  BY DEF U!NoHighlights, U!None
<1>4. /\ \A s \in UcSlots : ucProc[s] \in UcProcesses /\ ucProc[s].pc = "off"
                            /\ ucProc[s].schema = "none" /\ ucCo[s].pc = "idle"
      /\ ucProc \in [UcSlots -> UcProcesses] /\ ucCo \in [UcSlots -> UcCoordinators]
  BY <1>1, <1>2, ConvIdle DEF UcProcesses
<1>5. /\ ucCache \in UcCaches /\ ~Pends /\ ucCache.observed = 1 /\ ucCache.highlights.target = 0
      /\ ucCache.pending = U!NoPending
  BY <1>1, <1>2, <1>3, ConvIdle DEF UcCaches, Pends
<1>6. ConvTypes
  BY <1>1, <1>2, <1>4, <1>5 DEF ConvTypes
<1>7. OwnOperation /\ CohortFine /\ AnnouncedFine /\ U!CohortExcludesOlder
      /\ (ucConv.excl # "none" => ucConv.shared = {})
  BY <1>1, <1>4, <1>5, ConvIdle
     DEF OwnOperation, CohortFine, AnnouncedFine, U!CohortExcludesOlder, Pends, LiveBelow, IsLive
<1>8. ASSUME NEW s \in UcSlots PROVE ProcessFine(s)
  BY <1>4 DEF ProcessFine, LeaseFine, AdmissionFine, LockFine, CoordinatorFine, DeferredFine,
              GatheredFine, QuietFine, InstalledFine, RestartedFine, IsLive, InApp, External, Holds,
              Restarts
<1> QED BY <1>6, <1>7, <1>8 DEF ConvInv

LEMMA ConvStart == ASSUME ConvInv, NEW s \in UcSlots, U!Start(s) PROVE ConvInv'
BY ConvLoadCache, ConvAdmit, ConvRecover, ConvOpenStore, ConvAdoptStore, ConvGoLive,
   ConvBeginExternal DEF U!Start

LEMMA ConvCoordinate == ASSUME ConvInv, NEW s \in UcSlots, U!Coordinate(s) PROVE ConvInv'
BY ConvPrepareOne, ConvInstall, ConvCommit, ConvQuiesceOne, ConvRestarts, ConvAdoptExternal,
   ConvRestartOne, ConvDeparts, ConvFinishUpdate, ConvFinishExternal DEF U!Coordinate

LEMMA ConvNext == ASSUME ConvInv, U!Next PROVE ConvInv'
BY ConvInstallExternally, ConvLateRequest, ConvLaunch, ConvStart, ConvBeginUpdate, ConvCoordinate,
   ConvExpireBarrier, ConvDeparts DEF U!Next

LEMMA ConvIdles == ASSUME ConvInv, UNCHANGED ucVars PROVE ConvInv'
<1>1. UNCHANGED <<ucDisk, ucCache, ucConv, ucInstaller, ucProc, ucCo, ucLate, ucOps>>
  BY DEF ucVars
<1>2. \A t \in UcSlots : Stays(t)
  BY <1>1, KeptStays
<1>3. ConvTypes'
  BY <1>1 DEF ConvInv, ConvTypes
<1> QED BY <1>1, <1>2, <1>3, StayingKeeps

LEMMA ConvStep == ASSUME ConvInv, [Next]_vars PROVE ConvInv'
BY ConvNext, ConvIdles
   DEF Next, vars, SubmissionNext, LanesNext, InputLaneNext, UpdateConvergenceNext

LEMMA ConvRecords ==
  ASSUME ConvInv, [Next]_vars
  PROVE  /\ [ucCache.restart /\ ~ucCache'.restart =>
               \A s \in UcSlots : ucProc[s].pc = "live" /\ ucProc[s].version < ucCache'.observed
                                    => ucProc[s].barrier.quiesced]_(U!vars)
         /\ [ucCache'.observed >= ucCache.observed]_(U!vars)
<1>1. U!Next \/ UNCHANGED U!vars
  BY DEF Next, vars, ucVars, U!vars, SubmissionNext, LanesNext, InputLaneNext, UpdateConvergenceNext
<1> QED BY <1>1, RecordStep DEF RecordKept, LiveBelow, IsLive, Quiet

LEMMA ConvInvSafe == ASSUME ConvInv PROVE U!UpdateConvergenceSafe
<1>1. ConvTypes /\ ucCache \in UcCaches /\ ucConv \in [excl : UcSlots \cup {"none"}, shared : SUBSET UcSlots]
  BY DEF ConvInv, ConvTypes
<1>2. U!TypeOK
  BY <1>1 DEF ConvTypes, UcCaches, UcVersions, UcProcesses, U!TypeOK, U!None
<1>3. U!QuiescedStaysBehindBarrier
  BY DEF ConvInv, ProcessFine, LeaseFine, IsLive, Quiet, U!QuiescedStaysBehindBarrier
<1> QED BY <1>2, <1>3 DEF ConvInv, U!UpdateConvergenceSafe

\* However launches, quits, crashes, lost and late requests and the package manager interleave with
\* the two coordinators (application/update_coordination), no process of another version works on
\* the store while a cohort is recorded, an owner that gave up its schema lease stays behind its
\* barrier, the need to restart is withdrawn only when every older owner is quiet, and the recorded
\* version never goes back, for any slots, versions and numbers of operations and faults.
THEOREM ConvergenceHolds == Spec => ConvergenceSafe
<1>1. Init => ConvInv
  BY ConvInit DEF Init
<1>2. Spec => []ConvInv
  BY <1>1, ConvStep, PTL DEF Spec
<1>3. ConvInv => U!UpdateConvergenceSafe
  BY ConvInvSafe
<1> QED BY <1>2, <1>3, ConvRecords, PTL
       DEF Spec, ConvergenceSafe, U!ClearsOnlyConverged, U!ObservationNeverRegresses
==============================================================================

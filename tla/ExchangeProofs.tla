--------------------------- MODULE ExchangeProofs ---------------------------
(***************************************************************************)
(* Proofs about what the board exchanges with the rest of the machine: the  *)
(* files it exports to, for any thoughts, values and writes, and the        *)
(* clipboard, for any processes, thoughts, requests and texts.              *)
(***************************************************************************)
EXTENDS MCDelivery, TLAPS

-----------------------------------------------------------------------------
(* Exports                                                                  *)

ExKinds == {"refuse", "identical", "always", "confirmed"}
ExActive == {"inspect", "install", "exchange", "verify", "restore", "sync"}

\* The board keeps its shape; nothing is assumed of the order its thoughts stand in.
ExBoardFine ==
  /\ exBoard = [order |-> exBoard.order, live |-> exBoard.live, value |-> exBoard.value,
                locked |-> exBoard.locked, failed |-> exBoard.failed]
  /\ exBoard.live \subseteq ExThoughts /\ exBoard.value \in [ExThoughts -> 1 .. ExMaxValue]
  /\ exBoard.failed \in BOOLEAN

\* The dialog and the command, and the text each of them writes.
DialogFine ==
  \/ exUi = X!NoExport
  \/ /\ exUi = [stage |-> exUi.stage, disposition |-> exUi.disposition, text |-> exUi.text,
                field |-> exUi.field, listing |-> exUi.listing, existing |-> exUi.existing]
     /\ exUi.stage \in {"path", "writing", "confirm"}
CommandFine ==
  \/ exCli = X!NoExport
  \/ /\ exCli = [stage |-> exCli.stage, disposition |-> exCli.disposition, text |-> exCli.text,
                 identified |-> exCli.identified]
     /\ exCli.stage = "writing"
Asker(w) == IF w = "ui" THEN exUi ELSE exCli

\* What a writer works on is what its asker shows, a file is displaced only by consent, and a
\* success is a text that was synchronized.
WriterFine(w) ==
  \/ /\ exWriter[w] = X!NoWrite /\ Asker(w).stage # "writing"
  \/ /\ exWriter[w] = [pc |-> exWriter[w].pc, path |-> exWriter[w].path, text |-> exWriter[w].text,
                       overwrite |-> exWriter[w].overwrite, own |-> exWriter[w].own]
     /\ exWriter[w].pc \in ExActive
     /\ Asker(w).stage = "writing" /\ exWriter[w].text = Asker(w).text
     /\ exWriter[w].overwrite.kind \in ExKinds
     /\ exWriter[w].overwrite.kind = "confirmed" => exWriter[w].overwrite.id \in exAllowed
     /\ exWriter[w].pc \in {"exchange", "verify", "restore"} =>
          exWriter[w].overwrite.kind \in {"always", "confirmed"}
  \/ /\ exWriter[w] = [pc |-> "done", error |-> exWriter[w].error]
     /\ Asker(w).stage = "writing"
     /\ exWriter[w].error.kind = "none" => Asker(w).text \in exDurable

\* A displaced file is in a writer's hands only until it was verified or put back.
StagedFine ==
  /\ DOMAIN exStaged = X!Writers
  /\ \A w \in X!Writers : exStaged[w] # X!Absent => exWriter[w].pc \in {"verify", "restore"}

WritersFine == DOMAIN exWriter = X!Writers /\ \A w \in X!Writers : WriterFine(w)

ExportInv == /\ ExBoardFine /\ DialogFine /\ CommandFine /\ WritersFine /\ StagedFine
             /\ X!RemovedIsOnDisk /\ X!ForeignFileKept

LEMMA ExportInit == ASSUME X!Init PROVE ExportInv
<1>1. /\ exUi = X!NoExport /\ exCli = X!NoExport /\ exRemoved = {} /\ exLost = {}
      /\ exWriter = [w \in X!Writers |-> X!NoWrite] /\ exStaged = [w \in X!Writers |-> X!Absent]
  BY DEF X!Init
<1>2. ExBoardFine
  <2>0. PICK order : exBoard = [order |-> order, live |-> ExThoughts,
               value |-> [t \in ExThoughts |-> 1], locked |-> {}, failed |-> FALSE]
    BY DEF X!Init
  <2>1. /\ exBoard = [order |-> exBoard.order, live |-> exBoard.live, value |-> exBoard.value,
                locked |-> exBoard.locked, failed |-> exBoard.failed]
        /\ exBoard.live = ExThoughts /\ exBoard.failed = FALSE
        /\ exBoard.value = [t \in ExThoughts |-> 1]
    BY <2>0
  <2>2. exBoard.value \in [ExThoughts -> 1 .. ExMaxValue]
    BY <2>1, ExportAssumption
  <2> QED BY <2>1, <2>2 DEF ExBoardFine
<1>3. \A w \in X!Writers : WriterFine(w)
  BY <1>1 DEF WriterFine, Asker, X!NoExport
<1> QED BY <1>1, <1>2, <1>3 DEF ExportInv, DialogFine, CommandFine, WritersFine, StagedFine,
           X!RemovedIsOnDisk, X!ForeignFileKept

\* The writer of the other asker is not touched.
LEMMA OtherWriter ==
  ASSUME ExportInv, NEW w \in X!Writers, exWriter'[w] = exWriter[w], Asker(w)' = Asker(w),
         exAllowed \subseteq exAllowed', exDurable \subseteq exDurable'
  PROVE  WriterFine(w)'
BY DEF ExportInv, WritersFine, WriterFine

-----------------------------------------------------------------------------
(* Exports: the writer                                                      *)

\* One step of a writer leaves the board and its askers alone.
LEMMA WriterSteps ==
  ASSUME ExportInv, NEW w \in X!Writers,
         UNCHANGED <<exBoard, exUi, exCli, exRemoved>>,
         DOMAIN exWriter' = X!Writers, \A v \in X!Writers \ {w} : exWriter'[v] = exWriter[v],
         exAllowed \subseteq exAllowed', exDurable \subseteq exDurable', WriterFine(w)',
         StagedFine', exLost' \subseteq exAllowed'
  PROVE  ExportInv'
<1>1. \A v \in X!Writers \ {w} : WriterFine(v)'
  BY OtherWriter DEF Asker
<1> QED BY <1>1 DEF ExportInv, ExBoardFine, DialogFine, CommandFine, WritersFine, X!RemovedIsOnDisk,
           X!ForeignFileKept

\* A writer that goes on, or ends with an error.
LEMMA WriterGoesOn ==
  ASSUME ExportInv, NEW w \in X!Writers, exWriter[w].pc \in ExActive,
         NEW pc \in ExActive, X!Step(w, pc), UNCHANGED <<exUi, exCli>>,
         exAllowed \subseteq exAllowed',
         pc \in {"exchange", "verify", "restore"} =>
           exWriter[w].overwrite.kind \in {"always", "confirmed"}
  PROVE  /\ DOMAIN exWriter' = X!Writers /\ WriterFine(w)' /\ exWriter'[w].pc = pc
         /\ \A v \in X!Writers \ {w} : exWriter'[v] = exWriter[v]
<1>1. WriterFine(w) /\ DOMAIN exWriter = X!Writers
  BY DEF ExportInv, WritersFine
<1>2. /\ exWriter[w] = [pc |-> exWriter[w].pc, path |-> exWriter[w].path, text |-> exWriter[w].text,
                        overwrite |-> exWriter[w].overwrite, own |-> exWriter[w].own]
      /\ Asker(w).stage = "writing" /\ exWriter[w].text = Asker(w).text
      /\ exWriter[w].overwrite.kind \in ExKinds
      /\ exWriter[w].overwrite.kind = "confirmed" => exWriter[w].overwrite.id \in exAllowed
  BY <1>1 DEF WriterFine, X!NoWrite, ExActive
<1>3. /\ DOMAIN exWriter' = X!Writers
      /\ exWriter'[w] = [exWriter[w] EXCEPT !.pc = pc]
      /\ \A v \in X!Writers \ {w} : exWriter'[v] = exWriter[v]
  BY <1>1 DEF X!Step
<1>4. /\ exWriter'[w] = [pc |-> pc, path |-> exWriter[w].path, text |-> exWriter[w].text,
                         overwrite |-> exWriter[w].overwrite, own |-> exWriter[w].own]
  BY <1>2, <1>3
<1>5. Asker(w)' = Asker(w)
  BY DEF Asker
<1> QED BY <1>2, <1>3, <1>4, <1>5 DEF WriterFine

LEMMA WriterFails ==
  ASSUME ExportInv, NEW w \in X!Writers, exWriter[w].pc \in ExActive,
         NEW error, error.kind # "none", X!Fail(w, error), UNCHANGED <<exUi, exCli>>
  PROVE  /\ DOMAIN exWriter' = X!Writers /\ WriterFine(w)' /\ exWriter'[w].pc = "done"
         /\ \A v \in X!Writers \ {w} : exWriter'[v] = exWriter[v]
<1>1. WriterFine(w) /\ DOMAIN exWriter = X!Writers
  BY DEF ExportInv, WritersFine
<1>2. Asker(w).stage = "writing"
  BY <1>1 DEF WriterFine, X!NoWrite, ExActive
<1>3. /\ DOMAIN exWriter' = X!Writers
      /\ exWriter'[w] = [pc |-> "done", error |-> error]
      /\ \A v \in X!Writers \ {w} : exWriter'[v] = exWriter[v]
  BY <1>1 DEF X!Fail
<1>4. Asker(w)' = Asker(w)
  BY DEF Asker
<1> QED BY <1>2, <1>3, <1>4 DEF WriterFine

\* A file in a writer's hands stays there as long as that writer verifies or restores.
LEMMA StagedAlone ==
  ASSUME ExportInv, NEW w \in X!Writers, DOMAIN exStaged' = X!Writers,
         \A v \in X!Writers \ {w} : exWriter'[v] = exWriter[v] /\ exStaged'[v] = exStaged[v],
         exStaged'[w] = X!Absent \/ exWriter'[w].pc \in {"verify", "restore"}
  PROVE  StagedFine'
BY DEF ExportInv, StagedFine

\* What a writer in one of its steps is: its record, its asker, its consent.
LEMMA WriterAtWork ==
  ASSUME ExportInv, NEW w \in X!Writers, exWriter[w].pc \in ExActive
  PROVE  /\ exWriter[w] = [pc |-> exWriter[w].pc, path |-> exWriter[w].path,
                           text |-> exWriter[w].text, overwrite |-> exWriter[w].overwrite,
                           own |-> exWriter[w].own]
         /\ Asker(w).stage = "writing" /\ exWriter[w].text = Asker(w).text
         /\ exWriter[w].overwrite.kind \in ExKinds
         /\ exWriter[w].overwrite.kind = "confirmed" => exWriter[w].overwrite.id \in exAllowed
         /\ exWriter[w].pc \in {"exchange", "verify", "restore"} =>
              exWriter[w].overwrite.kind \in {"always", "confirmed"}
BY DEF ExportInv, WritersFine, WriterFine, X!NoWrite, ExActive

LEMMA ExportInspect ==
  ASSUME ExportInv, NEW w \in X!Writers, X!Inspect(w), UNCHANGED <<exBoard, exRemoved, exUi, exCli>>
  PROVE  ExportInv'
<1>1. /\ exWriter[w].pc = "inspect"
      /\ UNCHANGED <<exTarget, exStaged, exLost, exAllowed, exDurable>>
  BY DEF X!Inspect, X!fileVars
<1>2. exWriter[w].pc \in ExActive
  BY <1>1 DEF ExActive
<1>3. exStaged[w] = X!Absent
  BY <1>1 DEF ExportInv, StagedFine
<1>4. \/ \E e : e.kind # "none" /\ X!Fail(w, e)
      \/ X!Step(w, "install") \/ X!Step(w, "sync")
      \/ X!Step(w, "exchange") /\ exWriter[w].overwrite.kind \in {"always", "confirmed"}
  <2> DEFINE r == exWriter[w]
             f == exTarget[r.path]
             same == r.overwrite.kind = "identical" /\ f.text = r.text
             asks == r.overwrite.kind \in {"refuse", "identical"} /\ ~same
             other == r.overwrite.kind = "confirmed" /\ r.overwrite.id # f.id
  <2>0. r.overwrite.kind \in ExKinds
    BY <1>2, WriterAtWork
  <2>1. CASE f = X!Absent
    <3>1. X!Fail(w, [kind |-> "changed"]) \/ X!Step(w, "install")
      BY <2>1 DEF X!Inspect
    <3> QED BY <3>1
  <2>2. CASE f # X!Absent /\ f.kind # "file"
    <3>1. X!Fail(w, [kind |-> "invalid"])
      BY <2>2 DEF X!Inspect
    <3> QED BY <3>1
  <2>3. CASE f # X!Absent /\ f.kind = "file"
    <3>1. CASE X!Step(w, "sync")
      BY <3>1
    <3>2. CASE asks
      <4>1. X!Fail(w, [kind |-> "exists", id |-> f.id])
        BY <2>3, <3>2 DEF X!Inspect
      <4> QED BY <4>1
    <3>3. CASE ~asks /\ ~same /\ other
      <4>1. X!Fail(w, [kind |-> "changed"])
        BY <2>3, <3>3 DEF X!Inspect
      <4> QED BY <4>1
    <3>4. CASE ~asks /\ ~same /\ ~other
      <4>1. X!Step(w, "exchange")
        BY <2>3, <3>4 DEF X!Inspect
      <4> QED BY <2>0, <3>4, <4>1 DEF ExKinds
    <3>5. CASE ~asks /\ same
      <4>1. X!Step(w, "sync")
        BY <2>3, <3>5 DEF X!Inspect
      <4> QED BY <4>1
    <3> QED BY <3>1, <3>2, <3>3, <3>4, <3>5
  <2> QED BY <2>1, <2>2, <2>3
<1>5. /\ DOMAIN exWriter' = X!Writers /\ WriterFine(w)'
      /\ \A v \in X!Writers \ {w} : exWriter'[v] = exWriter[v]
  <2>1. CASE \E e : e.kind # "none" /\ X!Fail(w, e)
    BY <1>2, <2>1, WriterFails
  <2>2. CASE X!Step(w, "install") \/ X!Step(w, "sync")
    <3>1. PICK pc \in {"install", "sync"} : X!Step(w, pc)
      BY <2>2
    <3>2. pc \in ExActive /\ pc \notin {"exchange", "verify", "restore"}
      BY DEF ExActive
    <3> QED BY <1>1, <1>2, <3>1, <3>2, WriterGoesOn
  <2>3. CASE X!Step(w, "exchange") /\ exWriter[w].overwrite.kind \in {"always", "confirmed"}
    BY <1>1, <1>2, <2>3, WriterGoesOn DEF ExActive
  <2> QED BY <1>4, <2>1, <2>2, <2>3
<1>6. StagedFine'
  BY <1>1, <1>3, <1>5, StagedAlone DEF ExportInv, StagedFine
<1> QED BY <1>1, <1>5, <1>6, WriterSteps DEF ExportInv, X!ForeignFileKept

LEMMA ExportInstall ==
  ASSUME ExportInv, NEW w \in X!Writers, X!Install(w), UNCHANGED <<exBoard, exRemoved, exUi, exCli>>
  PROVE  ExportInv'
<1>1. /\ exWriter[w].pc = "install" /\ UNCHANGED <<exStaged, exLost, exAllowed, exDurable>>
  BY DEF X!Install
<1>2. exWriter[w].pc \in ExActive
  BY <1>1 DEF ExActive
<1>3. exStaged[w] = X!Absent
  BY <1>1 DEF ExportInv, StagedFine
<1>4. (\E e : e.kind # "none" /\ X!Fail(w, e)) \/ X!Step(w, "sync")
  <2> DEFINE f == exTarget[exWriter[w].path]
             e == IF f.kind = "file" THEN [kind |-> "exists", id |-> f.id] ELSE [kind |-> "invalid"]
  <2>1. X!Step(w, "sync") \/ X!Fail(w, e)
    BY DEF X!Install
  <2>2. e.kind # "none"
    OBVIOUS
  <2> HIDE DEF e
  <2> QED BY <2>1, <2>2
<1>5. /\ DOMAIN exWriter' = X!Writers /\ WriterFine(w)'
      /\ \A v \in X!Writers \ {w} : exWriter'[v] = exWriter[v]
  <2>1. CASE \E e : e.kind # "none" /\ X!Fail(w, e)
    BY <1>2, <2>1, WriterFails
  <2>2. CASE X!Step(w, "sync")
    BY <1>1, <1>2, <2>2, WriterGoesOn DEF ExActive
  <2> QED BY <1>4, <2>1, <2>2
<1>6. StagedFine'
  BY <1>1, <1>3, <1>5, StagedAlone DEF ExportInv, StagedFine
<1> QED BY <1>1, <1>5, <1>6, WriterSteps DEF ExportInv, X!ForeignFileKept

LEMMA ExportExchange ==
  ASSUME ExportInv, NEW w \in X!Writers, X!Exchange(w), UNCHANGED <<exBoard, exRemoved, exUi, exCli>>
  PROVE  ExportInv'
<1>1. /\ exWriter[w].pc = "exchange" /\ UNCHANGED <<exLost, exAllowed, exDurable>>
  BY DEF X!Exchange
<1>2. exWriter[w].pc \in ExActive /\ exWriter[w].overwrite.kind \in {"always", "confirmed"}
  BY <1>1, WriterAtWork DEF ExActive
<1>3. exStaged[w] = X!Absent /\ DOMAIN exStaged = X!Writers
  BY <1>1 DEF ExportInv, StagedFine
<1>4. CASE X!Step(w, "install") /\ UNCHANGED exStaged
  BY <1>1, <1>2, <1>3, <1>4, WriterGoesOn, StagedAlone, WriterSteps DEF ExActive, ExportInv, X!ForeignFileKept
<1>5. CASE X!Step(w, "verify") /\ exStaged' = [exStaged EXCEPT ![w] = exTarget[exWriter[w].path]]
  <2>1. /\ DOMAIN exWriter' = X!Writers /\ WriterFine(w)' /\ exWriter'[w].pc = "verify"
        /\ \A v \in X!Writers \ {w} : exWriter'[v] = exWriter[v]
    BY <1>1, <1>2, <1>5, WriterGoesOn DEF ExActive
  <2>2. StagedFine'
    BY <1>3, <1>5, <2>1, StagedAlone
  <2> QED BY <1>1, <2>1, <2>2, WriterSteps DEF ExportInv, X!ForeignFileKept
<1>6. CASE (\E e : e.kind # "none" /\ X!Fail(w, e)) /\ UNCHANGED exStaged
  BY <1>1, <1>2, <1>3, <1>6, WriterFails, StagedAlone, WriterSteps DEF ExportInv, X!ForeignFileKept
<1>7. \/ X!Step(w, "install") /\ UNCHANGED exStaged
      \/ X!Step(w, "verify") /\ exStaged' = [exStaged EXCEPT ![w] = exTarget[exWriter[w].path]]
      \/ X!Fail(w, [kind |-> "changed"]) /\ UNCHANGED exStaged
      \/ X!Fail(w, [kind |-> "unsupported"]) /\ UNCHANGED exStaged
  BY DEF X!Exchange
<1>8. [kind |-> "changed"].kind # "none" /\ [kind |-> "unsupported"].kind # "none"
  OBVIOUS
<1> QED BY <1>4, <1>5, <1>6, <1>7, <1>8

LEMMA ExportVerify ==
  ASSUME ExportInv, NEW w \in X!Writers, X!Verify(w), UNCHANGED <<exBoard, exRemoved, exUi, exCli>>
  PROVE  ExportInv'
<1>1. exWriter[w].pc = "verify" /\ UNCHANGED exDurable /\ exAllowed \subseteq exAllowed'
  BY DEF X!Verify
<1>2. /\ exWriter[w].pc \in ExActive /\ exWriter[w].overwrite.kind \in {"always", "confirmed"}
      /\ exWriter[w].overwrite.kind = "confirmed" => exWriter[w].overwrite.id \in exAllowed
  BY <1>1, WriterAtWork DEF ExActive
<1>3. DOMAIN exStaged = X!Writers
  BY DEF ExportInv, StagedFine
<1>4. CASE ~X!Expected(w)
  <2>1. X!Step(w, "restore") /\ UNCHANGED <<exStaged, exLost, exAllowed>>
    BY <1>4 DEF X!Verify
  <2>2. /\ DOMAIN exWriter' = X!Writers /\ WriterFine(w)' /\ exWriter'[w].pc = "restore"
        /\ \A v \in X!Writers \ {w} : exWriter'[v] = exWriter[v]
    BY <1>2, <2>1, WriterGoesOn DEF ExActive
  <2>3. StagedFine'
    BY <1>3, <2>1, <2>2, StagedAlone
  <2> QED BY <1>1, <2>1, <2>2, <2>3, WriterSteps DEF ExportInv, X!ForeignFileKept
<1>5. CASE X!Expected(w) /\ X!Discard(w, X!Step(w, "sync"))
  <2>1. exStaged[w].id \in exAllowed'
    <3>1. CASE exWriter[w].overwrite.kind = "always"
      BY <1>1, <1>5, <3>1 DEF X!Verify
    <3>2. CASE exWriter[w].overwrite.kind = "confirmed"
      BY <1>1, <1>2, <1>5, <3>2 DEF X!Expected
    <3> QED BY <1>2, <3>1, <3>2
  <2>2. exLost' \subseteq exLost \cup {exStaged[w].id} /\ exStaged' = [exStaged EXCEPT ![w] = X!Absent]
    BY <1>5 DEF X!Discard
  <2>3. exLost' \subseteq exAllowed'
    BY <1>1, <2>1, <2>2 DEF ExportInv, X!ForeignFileKept
  <2>4. X!Step(w, "sync") \/ X!Fail(w, [kind |-> "displaced"])
    BY <1>5 DEF X!Discard
  <2>5. /\ DOMAIN exWriter' = X!Writers /\ WriterFine(w)'
        /\ \A v \in X!Writers \ {w} : exWriter'[v] = exWriter[v]
    <3>1. CASE X!Step(w, "sync")
      BY <1>1, <1>2, <3>1, WriterGoesOn DEF ExActive
    <3>2. CASE X!Fail(w, [kind |-> "displaced"])
      <4>1. PICK e : e = [kind |-> "displaced"]
        OBVIOUS
      <4> QED BY <1>2, <3>2, <4>1, WriterFails
    <3> QED BY <2>4, <3>1, <3>2
  <2>6. StagedFine'
    BY <1>3, <2>2, <2>5, StagedAlone
  <2> QED BY <1>1, <2>3, <2>5, <2>6, WriterSteps
<1>6. X!Expected(w) => X!Discard(w, X!Step(w, "sync"))
  BY DEF X!Verify
<1> QED BY <1>4, <1>5, <1>6

LEMMA ExportRestore ==
  ASSUME ExportInv, NEW w \in X!Writers, X!Restore(w), UNCHANGED <<exBoard, exRemoved, exUi, exCli>>
  PROVE  ExportInv'
<1>1. exWriter[w].pc = "restore" /\ UNCHANGED <<exLost, exAllowed, exDurable>>
  BY DEF X!Restore
<1>2. exWriter[w].pc \in ExActive
  BY <1>1 DEF ExActive
<1>3. DOMAIN exStaged = X!Writers
  BY DEF ExportInv, StagedFine
<1>4. /\ exStaged' = [exStaged EXCEPT ![w] = X!Absent]
      /\ \E e : e.kind # "none" /\ X!Fail(w, e)
  <2>1. /\ exStaged' = [exStaged EXCEPT ![w] = X!Absent]
        /\ X!Fail(w, [kind |-> "changed"]) \/ X!Fail(w, [kind |-> "displaced"])
    BY DEF X!Restore
  <2>2. [kind |-> "changed"].kind # "none" /\ [kind |-> "displaced"].kind # "none"
    OBVIOUS
  <2> QED BY <2>1, <2>2
<1>5. /\ DOMAIN exWriter' = X!Writers /\ WriterFine(w)'
      /\ \A v \in X!Writers \ {w} : exWriter'[v] = exWriter[v]
  BY <1>2, <1>4, WriterFails
<1>6. StagedFine'
  BY <1>3, <1>4, <1>5, StagedAlone
<1> QED BY <1>1, <1>5, <1>6, WriterSteps DEF ExportInv, X!ForeignFileKept

LEMMA ExportSync ==
  ASSUME ExportInv, NEW w \in X!Writers, X!Sync(w), UNCHANGED <<exBoard, exRemoved, exUi, exCli>>
  PROVE  ExportInv'
<1>1. /\ exWriter[w].pc = "sync" /\ UNCHANGED <<exStaged, exLost, exAllowed>>
      /\ exDurable \subseteq exDurable'
  BY DEF X!Sync, X!fileVars
<1>2. exWriter[w].pc \in ExActive
  BY <1>1 DEF ExActive
<1>3. exStaged[w] = X!Absent /\ DOMAIN exStaged = X!Writers
  BY <1>1 DEF ExportInv, StagedFine
<1>4. /\ DOMAIN exWriter' = X!Writers /\ WriterFine(w)'
      /\ \A v \in X!Writers \ {w} : exWriter'[v] = exWriter[v]
  <2>1. CASE X!Fail(w, [kind |-> "unconfirmed"])
    <3>1. PICK e : e = [kind |-> "unconfirmed"]
      OBVIOUS
    <3> QED BY <1>2, <2>1, <3>1, WriterFails
  <2>2. CASE /\ exWriter' = [exWriter EXCEPT ![w] = [pc |-> "done", error |-> [kind |-> "none"]]]
             /\ exDurable' = exDurable \cup {exWriter[w].text}
    <3>1. DOMAIN exWriter = X!Writers /\ exWriter[w].text = Asker(w).text /\ Asker(w).stage = "writing"
      BY <1>2, WriterAtWork DEF ExportInv, WritersFine
    <3>2. Asker(w)' = Asker(w)
      BY DEF Asker
    <3> QED BY <2>2, <3>1, <3>2 DEF WriterFine
  <2> QED BY <2>1, <2>2 DEF X!Sync
<1>5. StagedFine'
  BY <1>1, <1>3, <1>4, StagedAlone
<1> QED BY <1>1, <1>4, <1>5, WriterSteps DEF ExportInv, X!ForeignFileKept

-----------------------------------------------------------------------------
(* Exports: the dialog, the command and the board                          *)

\* A step that an asker's writer need not notice.
Undisturbed(w) ==
  \/ Asker(w)' = Asker(w)
  \/ Asker(w).stage # "writing" /\ Asker(w)'.stage # "writing"
  \/ Asker(w).stage = Asker(w)'.stage /\ Asker(w).text = Asker(w)'.text

\* A step of an asker that leaves the writers and the files alone.
LEMMA AskerSteps ==
  ASSUME ExportInv, DialogFine', CommandFine',
         UNCHANGED <<exBoard, exRemoved, exWriter, exStaged, exLost, exAllowed, exDurable>>,
         \A w \in X!Writers : Undisturbed(w)
  PROVE  ExportInv'
<1>1. \A w \in X!Writers : WriterFine(w)'
  <2>1. TAKE w \in X!Writers
  <2>2. WriterFine(w)
    BY DEF ExportInv, WritersFine
  <2> QED BY <2>2 DEF WriterFine, Undisturbed
<1> QED BY <1>1 DEF ExportInv, ExBoardFine, WritersFine, StagedFine, X!RemovedIsOnDisk,
           X!ForeignFileKept

\* A request that reaches a writer, with the consent it carries.
LEMMA WriterStarts ==
  ASSUME ExportInv, NEW w \in X!Writers, NEW path, NEW text, NEW overwrite,
         X!StartWrite(w, path, text, overwrite), overwrite.kind \in ExKinds,
         exAllowed \subseteq exAllowed', UNCHANGED <<exBoard, exRemoved, exStaged, exLost, exDurable>>,
         overwrite.kind = "confirmed" => overwrite.id \in exAllowed',
         Asker(w)'.stage = "writing", Asker(w)'.text = text, DialogFine', CommandFine',
         \A v \in X!Writers \ {w} : Asker(v)' = Asker(v)
  PROVE  ExportInv'
<1>1. /\ exWriter[w].pc = "idle" /\ DOMAIN exWriter' = X!Writers
      /\ exWriter'[w] = [pc |-> "inspect", path |-> path, text |-> text,
                         overwrite |-> overwrite, own |-> exClock]
      /\ \A v \in X!Writers \ {w} : exWriter'[v] = exWriter[v]
  BY DEF X!StartWrite, ExportInv, WritersFine
<1>2. WriterFine(w)'
  BY <1>1 DEF WriterFine, ExActive
<1>3. \A v \in X!Writers \ {w} : WriterFine(v)'
  BY <1>1, OtherWriter
<1>4. StagedFine'
  BY <1>1 DEF ExportInv, StagedFine
<1> QED BY <1>1, <1>2, <1>3, <1>4 DEF ExportInv, ExBoardFine, WritersFine, X!RemovedIsOnDisk,
           X!ForeignFileKept

\* What the dialog asks for is what it shows then.
LEMMA ExportRequest ==
  ASSUME ExportInv, NEW path, NEW overwrite, X!RequestWrite(path, overwrite),
         exUi.stage \in {"path", "confirm"},
         overwrite.kind \in ExKinds, exAllowed \subseteq exAllowed',
         overwrite.kind = "confirmed" => overwrite.id \in exAllowed',
         UNCHANGED <<exBoard, exRemoved, exCli, exDurable>>
  PROVE  ExportInv'
<1>0. exUi # X!NoExport
  BY DEF X!NoExport
<1>1. exUi = [stage |-> exUi.stage, disposition |-> exUi.disposition, text |-> exUi.text,
              field |-> exUi.field, listing |-> exUi.listing, existing |-> exUi.existing]
  BY <1>0 DEF ExportInv, DialogFine
<1>2. CASE exUi' = X!NoExport /\ UNCHANGED <<exTarget, exStaged, exLeft, exClock, exLost, exAllowed, exWriter>>
  <2>1. \A w \in X!Writers : Undisturbed(w)
    BY <1>2 DEF Undisturbed, Asker, X!NoExport
  <2> QED BY <1>2, <2>1, AskerSteps DEF DialogFine, CommandFine, ExportInv
<1>3. CASE /\ X!StartWrite("ui", path, X!Recaptured(exUi.text), overwrite)
           /\ exUi' = [exUi EXCEPT !.stage = "writing", !.text = X!Recaptured(exUi.text),
                                   !.listing = X!NoListing]
           /\ UNCHANGED <<exStaged, exLost>>
  <2> DEFINE text == X!Recaptured(exUi.text)
  <2>1. exUi' = [stage |-> "writing", disposition |-> exUi.disposition, text |-> text,
                 field |-> exUi.field, listing |-> X!NoListing, existing |-> exUi.existing]
    BY <1>1, <1>3
  <2>2. PICK t : t = text
    OBVIOUS
  <2> HIDE DEF text
  <2>3. "ui" \in X!Writers /\ X!StartWrite("ui", path, t, overwrite)
    BY <1>3, <2>2 DEF X!Writers, text
  <2>4. Asker("ui")'.stage = "writing" /\ Asker("ui")'.text = t /\ DialogFine' /\ CommandFine'
    BY <2>1, <2>2 DEF Asker, DialogFine, CommandFine, ExportInv
  <2>5. \A v \in X!Writers \ {"ui"} : Asker(v)' = Asker(v)
    BY DEF Asker
  <2> QED BY <1>3, <2>3, <2>4, <2>5, WriterStarts
<1> QED BY <1>2, <1>3 DEF X!RequestWrite, X!fileVars

LEMMA ExportDialog == ASSUME ExportInv, X!Dialog PROVE ExportInv'
<1>0. UNCHANGED <<exBoard, exRemoved, exCli, exDurable>>
  BY DEF X!Dialog, X!boardVars
<1>1. ASSUME NEW S \in SUBSET ExThoughts, NEW d \in X!Dispositions, X!BeginExport(S, d) PROVE ExportInv'
  <2>1. /\ exUi = X!NoExport /\ UNCHANGED <<exWriter, exStaged, exLost, exAllowed>>
        /\ exUi' = [stage |-> "path", disposition |-> d, text |-> X!TextOf(S), field |-> X!NoPath,
                    listing |-> X!NoListing, existing |-> X!Absent.id]
    BY <1>1 DEF X!BeginExport, X!fileVars
  <2>2. DialogFine' /\ CommandFine'
    BY <1>0, <2>1 DEF DialogFine, CommandFine, ExportInv
  <2>3. \A w \in X!Writers : Undisturbed(w)
    BY <1>0, <2>1 DEF Undisturbed, Asker, X!NoExport
  <2> QED BY <1>0, <2>1, <2>2, <2>3, AskerSteps
<1>2. ASSUME UNCHANGED <<exWriter, exStaged, exLost, exAllowed>>, exUi.stage # "none", exUi'.stage = exUi.stage,
             exUi'.text = exUi.text, DialogFine'
      PROVE ExportInv'
  <2>1. \A w \in X!Writers : Undisturbed(w)
    BY <1>0, <1>2 DEF Undisturbed, Asker
  <2>2. CommandFine'
    BY <1>0 DEF CommandFine, ExportInv
  <2> QED BY <1>0, <1>2, <2>1, <2>2, AskerSteps
<1>3. exUi.stage # "none" =>
         exUi = [stage |-> exUi.stage, disposition |-> exUi.disposition, text |-> exUi.text,
                 field |-> exUi.field, listing |-> exUi.listing, existing |-> exUi.existing]
         /\ exUi.stage \in {"path", "writing", "confirm"}
  BY DEF ExportInv, DialogFine, X!NoExport
<1>4. CASE (\E p \in ExPaths : X!EditField(p)) \/ X!AskListing \/ X!CompleteListing
  <2>1. exUi.stage # "none" /\ UNCHANGED <<exWriter, exStaged, exLost, exAllowed>>
    BY <1>4 DEF X!EditField, X!AskListing, X!CompleteListing, X!fileVars
  <2>2. PICK f, l : exUi' = [exUi EXCEPT !.field = f, !.listing = l]
    <3>1. CASE \E p \in ExPaths : X!EditField(p)
      BY <3>1 DEF X!EditField
    <3>2. ASSUME NEW l, exUi' = [exUi EXCEPT !.listing = l]
          PROVE  exUi' = [exUi EXCEPT !.field = exUi.field, !.listing = l]
      BY <1>3, <2>1, <3>2
    <3>3. CASE X!AskListing
      BY <3>2, <3>3 DEF X!AskListing
    <3>4. CASE X!CompleteListing
      BY <3>2, <3>4 DEF X!CompleteListing
    <3> QED BY <1>4, <3>1, <3>3, <3>4
  <2>3. exUi' = [stage |-> exUi.stage, disposition |-> exUi.disposition, text |-> exUi.text,
                 field |-> f, listing |-> l, existing |-> exUi.existing]
    BY <1>3, <2>1, <2>2
  <2>4. DialogFine' /\ exUi'.stage = exUi.stage /\ exUi'.text = exUi.text
    BY <1>3, <2>1, <2>3 DEF DialogFine
  <2> QED BY <1>2, <2>1, <2>4
<1>5. CASE X!CommitPath
  <2>1. PICK o : o = [kind |-> "refuse"]
    OBVIOUS
  <2>2. exUi.stage = "path" /\ X!RequestWrite(exUi.field, o) /\ UNCHANGED exAllowed /\ o.kind = "refuse"
    BY <1>5, <2>1 DEF X!CommitPath
  <2> QED BY <1>0, <2>2, ExportRequest DEF ExKinds
<1>6. CASE X!ChooseReplacement
  <2>1. CASE exUi' = [exUi EXCEPT !.stage = "path"] /\ UNCHANGED <<exWriter, exStaged, exLost, exAllowed>>
    <3>1. exUi.stage = "confirm"
      BY <1>6 DEF X!ChooseReplacement
    <3>2. exUi' = [stage |-> "path", disposition |-> exUi.disposition, text |-> exUi.text,
                   field |-> exUi.field, listing |-> exUi.listing, existing |-> exUi.existing]
      BY <1>3, <2>1, <3>1
    <3>3. \A w \in X!Writers : Undisturbed(w)
      BY <1>0, <3>1, <3>2 DEF Undisturbed, Asker
    <3>4. DialogFine' /\ CommandFine'
      BY <1>0, <3>2 DEF DialogFine, CommandFine, ExportInv
    <3> QED BY <1>0, <2>1, <3>3, <3>4, AskerSteps
  <2>2. CASE X!RequestWrite(exUi.field, [kind |-> "confirmed", id |-> exUi.existing])
              /\ exAllowed' = exAllowed \cup {exUi.existing}
    <3>1. PICK o : o = [kind |-> "confirmed", id |-> exUi.existing]
      OBVIOUS
    <3>2. exUi.stage = "confirm" /\ X!RequestWrite(exUi.field, o) /\ o.kind = "confirmed" /\ o.id \in exAllowed'
      BY <1>6, <2>2, <3>1 DEF X!ChooseReplacement
    <3> QED BY <1>0, <2>2, <3>2, ExportRequest DEF ExKinds
  <2> QED BY <1>6, <2>1, <2>2 DEF X!ChooseReplacement, X!fileVars
<1>7. CASE X!CancelExport
  <2>1. /\ exUi.stage \in {"path", "confirm"} /\ exUi' = X!NoExport
        /\ UNCHANGED <<exWriter, exStaged, exLost, exAllowed>>
    BY <1>7 DEF X!CancelExport, X!fileVars
  <2>2. DialogFine' /\ CommandFine'
    BY <1>0, <2>1 DEF DialogFine, CommandFine, ExportInv
  <2>3. \A w \in X!Writers : Undisturbed(w)
    BY <1>0, <2>1 DEF Undisturbed, Asker, X!NoExport
  <2> QED BY <1>0, <2>1, <2>2, <2>3, AskerSteps
<1> QED BY <1>1, <1>4, <1>5, <1>6, <1>7 DEF X!Dialog

\* A completed export takes away what a writer reported, and nothing else.
LEMMA ExportCompletes ==
  ASSUME ExportInv, NEW text, NEW disposition, text \in exDurable,
         X!CompleteExport(text, disposition)
  PROVE  ExBoardFine' /\ exRemoved' \subseteq exDurable
<1>1. CASE UNCHANGED <<exBoard, exRemoved>>
  BY <1>1 DEF ExportInv, ExBoardFine, X!RemovedIsOnDisk
<1>2. CASE /\ X!CanComplete(text)
           /\ exBoard' = [exBoard EXCEPT !.live = @ \ X!ThoughtsOf(text)]
           /\ exRemoved' = exRemoved \cup {X!TextOf(X!ThoughtsOf(text))}
  <2>1. exBoard' = [order |-> exBoard.order, live |-> exBoard.live \ X!ThoughtsOf(text),
                    value |-> exBoard.value, locked |-> exBoard.locked, failed |-> exBoard.failed]
    BY <1>2 DEF ExportInv, ExBoardFine
  <2>2. text = X!TextOf(X!ThoughtsOf(text))
    BY <1>2 DEF X!CanComplete, X!ExactSources
  <2>3. exRemoved' \subseteq exDurable
    BY <1>2, <2>2 DEF ExportInv, X!RemovedIsOnDisk
  <2> QED BY <2>1, <2>3 DEF ExportInv, ExBoardFine
<1> QED BY <1>1, <1>2 DEF X!CompleteExport, X!boardVars

\* A writer gives its answer, and its asker goes on without it.
LEMMA WriterAnswered ==
  ASSUME ExportInv, NEW w \in X!Writers, ExBoardFine', exRemoved' \subseteq exDurable, DialogFine',
         CommandFine', exWriter' = [exWriter EXCEPT ![w] = X!NoWrite], Asker(w)'.stage # "writing",
         exWriter[w].pc \in {"sync", "done"},
         \A v \in X!Writers \ {w} : Asker(v)' = Asker(v),
         UNCHANGED <<exStaged, exLost, exAllowed, exDurable>>
  PROVE  ExportInv'
<1>1. /\ exWriter'[w] = X!NoWrite /\ DOMAIN exWriter' = X!Writers
      /\ \A v \in X!Writers \ {w} : exWriter'[v] = exWriter[v]
  BY DEF ExportInv, WritersFine
<1>2. WriterFine(w)'
  BY <1>1 DEF WriterFine
<1>3. \A v \in X!Writers \ {w} : WriterFine(v)'
  BY <1>1, OtherWriter
<1>4. StagedFine'
  BY <1>1 DEF ExportInv, StagedFine
<1> QED BY <1>1, <1>2, <1>3, <1>4 DEF ExportInv, WritersFine, X!RemovedIsOnDisk, X!ForeignFileKept

\* What a done writer reported of success.
LEMMA WriterDone ==
  ASSUME ExportInv, NEW w \in X!Writers, exWriter[w].pc = "done"
  PROVE  Asker(w).stage = "writing" /\ (exWriter[w].error.kind = "none" => Asker(w).text \in exDurable)
BY DEF ExportInv, WritersFine, WriterFine, X!NoWrite, ExActive

LEMMA ExportCompleteWrite == ASSUME ExportInv, X!CompleteWrite PROVE ExportInv'
<1>1. /\ exWriter["ui"].pc = "done" /\ exUi.stage = "writing" /\ "ui" \in X!Writers
      /\ exWriter' = [exWriter EXCEPT !["ui"] = X!NoWrite]
      /\ UNCHANGED <<exCli, exStaged, exLost, exAllowed, exDurable>>
  BY DEF X!CompleteWrite, X!fileVars, X!Writers
<1>2. exUi = [stage |-> exUi.stage, disposition |-> exUi.disposition, text |-> exUi.text,
              field |-> exUi.field, listing |-> exUi.listing, existing |-> exUi.existing]
  BY <1>1 DEF ExportInv, DialogFine, X!NoExport
<1>3. \A v \in X!Writers \ {"ui"} : Asker(v)' = Asker(v)
  BY <1>1 DEF Asker
<1>4. CommandFine'
  BY <1>1 DEF CommandFine, ExportInv
<1>5. CASE exUi' = X!NoExport /\ exWriter["ui"].error.kind = "none"
           /\ X!CompleteExport(exUi.text, exUi.disposition)
  <2>1. exUi.text \in exDurable
    BY <1>1, <1>5, WriterDone DEF Asker
  <2>2. ExBoardFine' /\ exRemoved' \subseteq exDurable
    BY <1>5, <2>1, ExportCompletes
  <2>3. DialogFine' /\ Asker("ui")'.stage # "writing"
    BY <1>5 DEF DialogFine, Asker, X!NoExport
  <2> QED BY <1>1, <1>3, <1>4, <2>2, <2>3, WriterAnswered
<1>6. CASE UNCHANGED <<exBoard, exRemoved>>
           /\ \/ exUi' = [exUi EXCEPT !.stage = "confirm", !.existing = exWriter["ui"].error.id]
              \/ exUi' = [exUi EXCEPT !.stage = "path"]
  <2>1. ASSUME NEW stage \in {"confirm", "path"}, NEW id,
               exUi' = [stage |-> stage, disposition |-> exUi.disposition, text |-> exUi.text,
                        field |-> exUi.field, listing |-> exUi.listing, existing |-> id]
        PROVE  DialogFine' /\ Asker("ui")'.stage # "writing"
    BY <2>1 DEF DialogFine, Asker
  <2>2. DialogFine' /\ Asker("ui")'.stage # "writing"
    <3>1. CASE exUi' = [exUi EXCEPT !.stage = "confirm", !.existing = exWriter["ui"].error.id]
      <4>1. exUi' = [stage |-> "confirm", disposition |-> exUi.disposition, text |-> exUi.text,
                     field |-> exUi.field, listing |-> exUi.listing,
                     existing |-> exWriter["ui"].error.id]
        BY <1>2, <3>1
      <4> QED BY <2>1, <4>1
    <3>2. CASE exUi' = [exUi EXCEPT !.stage = "path"]
      <4>1. exUi' = [stage |-> "path", disposition |-> exUi.disposition, text |-> exUi.text,
                     field |-> exUi.field, listing |-> exUi.listing, existing |-> exUi.existing]
        BY <1>2, <3>2
      <4> QED BY <2>1, <4>1
    <3> QED BY <1>6, <3>1, <3>2
  <2>3. ExBoardFine' /\ exRemoved' \subseteq exDurable
    BY <1>6 DEF ExportInv, ExBoardFine, X!RemovedIsOnDisk
  <2> QED BY <1>1, <1>3, <1>4, <2>2, <2>3, WriterAnswered
<1> QED BY <1>5, <1>6 DEF X!CompleteWrite, X!boardVars

LEMMA ExportCommand == ASSUME ExportInv, X!Command PROVE ExportInv'
<1>1. ASSUME NEW S \in SUBSET ExThoughts, NEW d \in X!Dispositions, NEW i \in BOOLEAN, NEW r \in BOOLEAN,
             X!BeginCommand(S, d, i, r)
      PROVE ExportInv'
  <2>0. UNCHANGED <<exBoard, exRemoved, exStaged, exLost, exAllowed, exUi, exDurable>> /\ exCli = X!NoExport
    BY <1>1 DEF X!BeginCommand, X!boardVars
  <2>1. CASE UNCHANGED <<exCli, exWriter, exClock>>
    BY <2>0, <2>1, AskerSteps DEF DialogFine, CommandFine, ExportInv, Undisturbed, Asker
  <2>2. ASSUME NEW p \in ExPaths, X!StartWrite("cli", p, X!TextOf(S), X!CliOverwrite(i, r)),
               exCli' = [stage |-> "writing", disposition |-> d, text |-> X!TextOf(S), identified |-> i]
        PROVE ExportInv'
    <3>1. PICK o, t : o = X!CliOverwrite(i, r) /\ t = X!TextOf(S)
      OBVIOUS
    <3>2. o.kind \in ExKinds /\ o.kind # "confirmed"
      BY <3>1 DEF X!CliOverwrite, ExKinds
    <3>3. Asker("cli")'.stage = "writing" /\ Asker("cli")'.text = t /\ DialogFine' /\ CommandFine'
      BY <2>0, <2>2, <3>1 DEF Asker, DialogFine, CommandFine, ExportInv
    <3>4. \A v \in X!Writers \ {"cli"} : Asker(v)' = Asker(v)
      BY <2>0 DEF Asker, X!Writers
    <3>5. X!StartWrite("cli", p, t, o) /\ "cli" \in X!Writers
      BY <2>2, <3>1 DEF X!Writers
    <3> QED BY <2>0, <3>2, <3>3, <3>4, <3>5, WriterStarts
  <2> QED BY <1>1, <2>1, <2>2 DEF X!BeginCommand
<1>2. ASSUME X!CommitCommand \/ X!KillCommand PROVE ExportInv'
  <2>1. /\ exWriter["cli"].pc \in {"sync", "done"} /\ exCli.stage = "writing" /\ "cli" \in X!Writers
        /\ exWriter' = [exWriter EXCEPT !["cli"] = X!NoWrite] /\ exCli' = X!NoExport
        /\ UNCHANGED <<exUi, exStaged, exLost, exAllowed, exDurable>>
    BY <1>2 DEF X!CommitCommand, X!KillCommand, X!fileVars, X!Writers
  <2>2. ExBoardFine' /\ exRemoved' \subseteq exDurable
    <3>1. CASE UNCHANGED <<exBoard, exRemoved>>
      BY <3>1 DEF ExportInv, ExBoardFine, X!RemovedIsOnDisk
    <3>2. CASE /\ exWriter["cli"].pc = "done" /\ exWriter["cli"].error.kind = "none"
               /\ X!CompleteExport(exCli.text, exCli.disposition)
      <4>1. exCli.text \in exDurable
        BY <2>1, <3>2, WriterDone DEF Asker
      <4> QED BY <3>2, <4>1, ExportCompletes
    <3> QED BY <1>2, <3>1, <3>2 DEF X!CommitCommand, X!KillCommand, X!boardVars
  <2>3. DialogFine' /\ CommandFine' /\ Asker("cli")'.stage # "writing"
    BY <2>1 DEF DialogFine, CommandFine, Asker, X!NoExport, ExportInv
  <2>4. \A v \in X!Writers \ {"cli"} : Asker(v)' = Asker(v)
    BY <2>1 DEF Asker, X!Writers
  <2> QED BY <2>1, <2>2, <2>3, <2>4, WriterAnswered
<1> QED BY <1>1, <1>2 DEF X!Command

LEMMA ExportWorld == ASSUME ExportInv, X!ForeignChange \/ X!ChangeBoard PROVE ExportInv'
<1>1. UNCHANGED <<exUi, exCli, exWriter, exStaged, exLost, exAllowed, exDurable, exRemoved>>
  BY DEF X!ForeignChange, X!ChangeBoard, X!boardVars, X!fileVars
<1>2. ExBoardFine'
  <2>0. exBoard = [order |-> exBoard.order, live |-> exBoard.live, value |-> exBoard.value,
                   locked |-> exBoard.locked, failed |-> exBoard.failed]
        /\ exBoard.live \subseteq ExThoughts /\ exBoard.value \in [ExThoughts -> 1 .. ExMaxValue]
        /\ exBoard.failed \in BOOLEAN
    BY DEF ExportInv, ExBoardFine
  <2>1. CASE X!ForeignChange
    BY <2>1 DEF X!ForeignChange, X!boardVars, ExportInv, ExBoardFine
  <2>2. ASSUME NEW t \in exBoard.live, NEW v \in 1 .. ExMaxValue, exBoard' = [exBoard EXCEPT !.value[t] = v]
        PROVE ExBoardFine'
    <3>1. exBoard' = [order |-> exBoard.order, live |-> exBoard.live,
                      value |-> [exBoard.value EXCEPT ![t] = v],
                      locked |-> exBoard.locked, failed |-> exBoard.failed]
      BY <2>0, <2>2
    <3>2. [exBoard.value EXCEPT ![t] = v] \in [ExThoughts -> 1 .. ExMaxValue]
      BY <2>0
    <3> QED BY <2>0, <3>1, <3>2 DEF ExBoardFine
  <2>3. ASSUME NEW t, exBoard' = [exBoard EXCEPT !.live = @ \ {t}] PROVE ExBoardFine'
    <3>1. exBoard' = [order |-> exBoard.order, live |-> exBoard.live \ {t}, value |-> exBoard.value,
                      locked |-> exBoard.locked, failed |-> exBoard.failed]
      BY <2>0, <2>3
    <3> QED BY <2>0, <3>1 DEF ExBoardFine
  <2>4. ASSUME NEW order, NEW locked, NEW failed \in BOOLEAN,
               exBoard' = [order |-> order, live |-> exBoard.live, value |-> exBoard.value,
                           locked |-> locked, failed |-> failed]
        PROVE ExBoardFine'
    BY <2>0, <2>4 DEF ExBoardFine
  <2>5. ASSUME NEW order, exBoard' = [exBoard EXCEPT !.order = order] PROVE ExBoardFine'
    <3>1. exBoard' = [order |-> order, live |-> exBoard.live, value |-> exBoard.value,
                      locked |-> exBoard.locked, failed |-> exBoard.failed]
      BY <2>0, <2>5
    <3> QED BY <2>0, <2>4, <3>1
  <2>6. ASSUME NEW locked, exBoard' = [exBoard EXCEPT !.locked = locked] PROVE ExBoardFine'
    <3>1. exBoard' = [order |-> exBoard.order, live |-> exBoard.live, value |-> exBoard.value,
                      locked |-> locked, failed |-> exBoard.failed]
      BY <2>0, <2>6
    <3> QED BY <2>0, <2>4, <3>1
  <2>7. ASSUME exBoard' = [exBoard EXCEPT !.failed = ~@] PROVE ExBoardFine'
    <3>1. PICK failed \in BOOLEAN : failed = ~exBoard.failed
      OBVIOUS
    <3>2. exBoard' = [order |-> exBoard.order, live |-> exBoard.live, value |-> exBoard.value,
                      locked |-> exBoard.locked, failed |-> failed]
      BY <2>0, <2>7, <3>1
    <3> QED BY <2>4, <3>2
  <2>8. CASE X!ChangeBoard
    BY <2>2, <2>3, <2>5, <2>6, <2>7, <2>8 DEF X!ChangeBoard
  <2> QED BY <2>1, <2>8
<1>3. \A w \in X!Writers : WriterFine(w)'
  BY <1>1, OtherWriter DEF Asker
<1> QED BY <1>1, <1>2, <1>3 DEF ExportInv, DialogFine, CommandFine, WritersFine, StagedFine,
           X!RemovedIsOnDisk, X!ForeignFileKept

LEMMA ExportStep == ASSUME ExportInv, [Next]_vars PROVE ExportInv'
<1>1. CASE UNCHANGED exVars
  <2>1. \A w \in X!Writers : WriterFine(w)'
    BY <1>1, OtherWriter DEF Asker, exVars
  <2> QED BY <1>1, <2>1 DEF exVars, ExportInv, ExBoardFine, DialogFine, CommandFine, WritersFine, StagedFine,
           X!RemovedIsOnDisk, X!ForeignFileKept
<1>2. CASE X!Next
  <2>1. ASSUME NEW w \in X!Writers, X!Write(w) PROVE ExportInv'
    BY <2>1, ExportInspect, ExportInstall, ExportExchange, ExportVerify, ExportRestore, ExportSync
       DEF X!Write, X!boardVars
  <2> QED BY <1>2, <2>1, ExportDialog, ExportCommand, ExportCompleteWrite, ExportWorld DEF X!Next
<1> QED BY <1>1, <1>2
       DEF Next, vars, TransferNext, ClipboardNext, ExportNext, AttachmentsNext, ChildProcessNext

\* Exports, for any thoughts, destinations, writers' faults and changes by other programs
\* (ui/app/export, adapters/export): a thought leaves its board only when its text, as it is
\* then, was reported durably written, and a file is deleted only with the user's consent.
THEOREM ExportsAreSafe == Spec => []ExportSafe
<1>1. Init => ExportInv
  BY ExportInit DEF Init
<1>2. ExportInv => ExportSafe
  <2> SUFFICES ASSUME ExportInv PROVE X!TypeOK
    BY DEF ExportSafe, X!ExportSafe, ExportInv
  <2>1. exUi.stage \in {"none", "path", "writing", "confirm"} /\ exCli.stage \in {"none", "writing"}
    BY DEF ExportInv, DialogFine, CommandFine, X!NoExport
  <2>2. ASSUME NEW w \in X!Writers, exWriter[w].pc = "done" PROVE Asker(w).stage = "writing"
    BY <2>2, WriterDone
  <2> QED BY <2>1, <2>2 DEF X!TypeOK, ExportInv, ExBoardFine, StagedFine, Asker
<1> QED BY <1>1, <1>2, ExportStep, PTL DEF Spec

-----------------------------------------------------------------------------
(* The clipboard                                                            *)

ClValue == [text : 0 .. ClMaxText, notes : BOOLEAN]
ClModes == {[kind |-> "board"], [kind |-> "compose"]} \cup [kind : {"edit"}, thought : ClThoughts]
ClOwners == {[kind |-> "board"]} \cup [kind : {"compose"}, gen : Nat]
              \cup [kind : {"thought"}, thought : ClThoughts, gen : Nat]
ClWriting == {"plain", "lock", "typed", "record", "verify"}
ClReading == {"open", "text", "close"}

\* The owner's board, mode and draft: text is typed only in an editor.
BoardFine(b) ==
  /\ b = [live |-> b.live, value |-> b.value, locked |-> b.locked, failed |-> b.failed]
  /\ b.live \subseteq ClThoughts /\ b.value \in [ClThoughts -> ClValue]
  /\ b.locked \subseteq ClThoughts /\ b.failed \in BOOLEAN
OwnerTypes ==
  /\ BoardFine(clBoard)
  /\ clMode \in ClModes /\ clDraft \in {C!NoDraft} \cup 0 .. ClMaxText
  /\ clGens = [edit |-> clGens.edit, compose |-> clGens.compose]
  /\ clGens.edit \in Nat /\ clGens.compose \in Nat
  /\ clDraft # C!NoDraft => clMode.kind = "edit"

\* What the owner remembers of a paste.  One asked from an editor of the current generation
\* belongs to the current episode, and one asked from the current compose finds it open.
InEpisode(q) ==
  q.kind = "read" =>
    /\ q = [kind |-> "read", owner |-> q.owner, episode |-> q.episode] /\ q.owner \in ClOwners
    /\ q.owner.kind = "compose" =>
         /\ q.owner.gen <= clGens.compose
         /\ q.owner.gen = clGens.compose => clMode.kind = "compose" /\ q.episode = clEpisode
    /\ q.owner.kind = "thought" =>
         /\ q.owner.gen <= clGens.edit
         /\ q.owner.gen = clGens.edit /\ clMode.kind = "edit" => q.episode = clEpisode

PendingFine ==
  /\ clAsked \in 0 .. ClMaxRequests /\ DOMAIN clPending \subseteq 1 .. clAsked
  /\ \A i \in DOMAIN clPending : InEpisode(clPending[i])

\* Queues, answers, workers and clipboard keep their shape; nothing is said of the texts.
Listed(s) == s \in Seq({s[i] : i \in 1 .. Len(s)})
WorkerShape(r) ==
  /\ r = [pc |-> r.pc, req |-> r.req, gen |-> r.gen, first |-> r.first, text |-> r.text]
  /\ r.pc \in {"idle"} \cup ClWriting \cup ClReading
  /\ r.pc \in ClWriting => r.req.kind # "read"
  /\ r.pc \in ClReading => r.req.kind = "read"
  /\ r.pc = "open" => r.first = C!NoRecord
LanesFine ==
  /\ DOMAIN clQueue = ClProcs /\ DOMAIN clWorker = ClProcs /\ Listed(clResults)
  /\ \A p \in ClProcs : Listed(clQueue[p]) /\ WorkerShape(clWorker[p])
  /\ clClip = [gen |-> clClip.gen, text |-> clClip.text, payload |-> clClip.payload]
  /\ clClip.gen \in Nat
  /\ clClip.payload # C!NoPayload =>
       clClip.payload = [request |-> clClip.payload.request, binding |-> clClip.payload.binding]
  /\ clLock \in {"free"} \cup ClProcs

\* A request on its way is the one the owner remembers under its identity, and so is an answer;
\* a confirmed write is on record.
Asks(r) ==
  /\ r.id \in DOMAIN clPending
  /\ r.kind = "read" <=> clPending[r.id].kind = "read"
  /\ r.kind # "read" => clPending[r.id].sources = r.sources
Answers(x) ==
  /\ x.id \in DOMAIN clPending
  /\ clPending[x.id].kind = "read" => x.notes \in BOOLEAN
  /\ clPending[x.id].kind # "read" =>
       (x.write = "native" => C!Pairs(clPending[x.id].sources) \subseteq clCopied)
Apart(s) == \A i, j \in 1 .. Len(s) : i # j => s[i].id # s[j].id
Matched ==
  /\ \A i \in 1 .. Len(clQueue[ClOwner]) : Asks(clQueue[ClOwner][i])
  /\ \A i \in 1 .. Len(clResults) : Answers(clResults[i])
  /\ Apart(clQueue[ClOwner]) /\ Apart(clResults)
  /\ \A i \in 1 .. Len(clQueue[ClOwner]), j \in 1 .. Len(clResults) :
       clQueue[ClOwner][i].id # clResults[j].id
  /\ clWorker[ClOwner].pc # "idle" =>
       /\ Asks(clWorker[ClOwner].req)
       /\ \A i \in 1 .. Len(clQueue[ClOwner]) : clQueue[ClOwner][i].id # clWorker[ClOwner].req.id
       /\ \A i \in 1 .. Len(clResults) : clResults[i].id # clWorker[ClOwner].req.id

\* Who works under the provenance lock, and what the record and the clipboard say meanwhile.
HoldsLock(p) ==
  \/ clWorker[p].pc \in {"typed", "record", "verify"}
  \/ clWorker[p].pc \in {"text", "close"} /\ clWorker[p].first # C!NoRecord
Recording(p) ==
  /\ clWorker[p].pc \in {"record", "verify"} =>
       /\ clWorker[p].gen \in 0 .. clClip.gen
       /\ <<clWorker[p].gen, C!TextOf(clWorker[p].req.sources), C!Encode(clWorker[p].req)>> \in clMade
       /\ \A w \in clWritten : w[1] < clWorker[p].gen
  /\ clWorker[p].pc = "verify" =>
       clProv = C!Provenance(clWorker[p].gen, C!Encode(clWorker[p].req))
Trust ==
  /\ \A p \in ClProcs : (HoldsLock(p) => clLock = p) /\ Recording(p)
  /\ \A w \in clWritten : w[1] \in 0 .. clClip.gen
  /\ <<clClip.gen, clClip.text, clClip.payload>> \in clWritten =>
       clProv = C!Provenance(clClip.gen, clClip.payload)
  /\ clProv # C!NoRecord =>
       <<clProv.gen, clProv.binding,
         [request |-> clProv.request, binding |-> clProv.binding]>> \in clMade
  /\ clTyped \subseteq clMade

ClipInv == /\ OwnerTypes /\ PendingFine /\ LanesFine /\ Matched /\ Trust
           /\ C!CutRemovesOnlyWritten /\ C!PasteReachesItsEditor

\* Sequences of anything: what is put at the end, and what is left behind the first.
LEMMA ListAppend ==
  ASSUME NEW s, Listed(s), NEW e
  PROVE  /\ Listed(Append(s, e)) /\ Len(Append(s, e)) = Len(s) + 1 /\ Len(s) \in Nat
         /\ \A i \in 1 .. Len(s) : Append(s, e)[i] = s[i]
         /\ Append(s, e)[Len(s) + 1] = e
<1> DEFINE E == {s[i] : i \in 1 .. Len(s)} \cup {e}
<1>1. s \in Seq(E)
  BY DEF Listed
<1>2. /\ Append(s, e) \in Seq(E) /\ Len(Append(s, e)) = Len(s) + 1 /\ Len(s) \in Nat
      /\ \A i \in 1 .. Len(s) : Append(s, e)[i] = s[i]
      /\ Append(s, e)[Len(s) + 1] = e
  BY <1>1
<1>3. Append(s, e) \in Seq({Append(s, e)[i] : i \in 1 .. Len(Append(s, e))})
  <2> DEFINE t == Append(s, e)
  <2> HIDE DEF t
  <2>1. t \in Seq(E)
    BY <1>2 DEF t
  <2>2. t \in Seq({t[i] : i \in 1 .. Len(t)})
    BY <2>1
  <2> QED BY <2>2 DEF t
<1> QED BY <1>2, <1>3 DEF Listed

LEMMA ListTail ==
  ASSUME NEW s, Listed(s), s # << >>
  PROVE  /\ Listed(Tail(s)) /\ Len(Tail(s)) = Len(s) - 1 /\ Len(s) \in Nat \ {0}
         /\ Head(s) = s[1] /\ \A i \in 1 .. Len(s) - 1 : Tail(s)[i] = s[i + 1]
<1> DEFINE E == {s[i] : i \in 1 .. Len(s)}
<1>1. s \in Seq(E) /\ s # << >>
  BY DEF Listed
<1>2. /\ Tail(s) \in Seq(E) /\ Len(Tail(s)) = Len(s) - 1 /\ Len(s) \in Nat \ {0}
      /\ Head(s) = s[1] /\ \A i \in 1 .. Len(s) - 1 : Tail(s)[i] = s[i + 1]
  BY <1>1
<1>3. Tail(s) \in Seq({Tail(s)[i] : i \in 1 .. Len(Tail(s))})
  <2> DEFINE t == Tail(s)
  <2> HIDE DEF t
  <2>1. t \in Seq(E)
    BY <1>2 DEF t
  <2>2. t \in Seq({t[i] : i \in 1 .. Len(t)})
    BY <2>1
  <2> QED BY <2>2 DEF t
<1> QED BY <1>2, <1>3 DEF Listed

LEMMA ListEmpty == Listed(<< >>) /\ Len(<< >>) = 0
BY DEF Listed

LEMMA ClipboardInit == ASSUME C!Init PROVE ClipInv
<1>1. PICK notes \in BOOLEAN : clBoard = [live |-> ClThoughts,
        value |-> [t \in ClThoughts |-> [text |-> 1, notes |-> notes]], locked |-> {}, failed |-> FALSE]
  BY DEF C!Init
<1>2. /\ clMode = [kind |-> "board"] /\ clDraft = C!NoDraft /\ clGens = [edit |-> 0, compose |-> 0]
      /\ clPending = << >> /\ clResults = << >> /\ clAsked = 0 /\ clLock = "free"
      /\ clQueue = [p \in ClProcs |-> << >>] /\ clWorker = [p \in ClProcs |-> C!Idle]
      /\ clClip = [gen |-> 0, text |-> C!NoText, payload |-> C!NoPayload]
      /\ clProv = C!NoRecord /\ clRemoved = {} /\ clLanded = {} /\ clTyped = {} /\ clWritten = {}
  BY DEF C!Init
<1>3. OwnerTypes
  <2>1. clBoard.value \in [ClThoughts -> ClValue]
    BY <1>1, ClipboardAssumption DEF ClValue
  <2>2. /\ clBoard = [live |-> clBoard.live, value |-> clBoard.value, locked |-> clBoard.locked,
                      failed |-> clBoard.failed]
        /\ clBoard.live = ClThoughts /\ clBoard.locked = {} /\ clBoard.failed = FALSE
    BY <1>1
  <2>3. /\ clGens = [edit |-> clGens.edit, compose |-> clGens.compose]
        /\ clGens.edit \in Nat /\ clGens.compose \in Nat
    BY <1>2
  <2> QED BY <2>1, <2>2, <2>3, <1>2 DEF OwnerTypes, BoardFine, ClModes, C!NoDraft
<1>4. PendingFine
  BY <1>2, ClipboardAssumption DEF PendingFine
<1>5. LanesFine
  BY <1>2, ListEmpty DEF LanesFine, WorkerShape, C!Idle, C!Working, C!NoPayload, ClWriting, ClReading
<1>6. Matched
  BY <1>2, ListEmpty, ClipboardAssumption DEF Matched, Apart, C!Idle, C!Working
<1>7. Trust
  BY <1>2 DEF Trust, HoldsLock, Recording, C!Idle, C!Working
<1> QED BY <1>2, <1>3, <1>4, <1>5, <1>6, <1>7
    DEF ClipInv, C!CutRemovesOnlyWritten, C!PasteReachesItsEditor

-----------------------------------------------------------------------------
(* The clipboard: requests and answers on their way                         *)

\* A worker that goes on with its request.
LEMMA MatchedStays ==
  ASSUME Matched, clPending' = clPending, clResults' = clResults,
         clQueue'[ClOwner] = clQueue[ClOwner], clCopied \subseteq clCopied',
         clWorker'[ClOwner].pc # "idle" =>
           clWorker[ClOwner].pc # "idle" /\ clWorker'[ClOwner].req = clWorker[ClOwner].req
  PROVE  Matched'
BY DEF Matched, Asks, Answers, Apart

\* A worker that answers.
LEMMA MatchedAnswers ==
  ASSUME Matched, LanesFine, NEW p \in ClProcs, NEW x, C!Answer(p, x), clWorker[p].pc # "idle",
         clPending' = clPending, clQueue' = clQueue, clCopied \subseteq clCopied',
         p = ClOwner => Answers(x)' /\ x.id = clWorker[p].req.id
  PROVE  Matched'
<1>1. clWorker' = [clWorker EXCEPT ![p] = C!Idle] /\ ClOwner \in ClProcs
  BY ClipboardAssumption DEF C!Answer
<1>2. CASE p # ClOwner
  <2>1. clWorker'[ClOwner] = clWorker[ClOwner] /\ clResults' = clResults
    BY <1>1, <1>2 DEF C!Answer
  <2> QED BY <2>1, MatchedStays
<1>3. CASE p = ClOwner
  <2>1. clWorker'[ClOwner].pc = "idle" /\ clResults' = Append(clResults, x)
    BY <1>1, <1>3 DEF C!Answer, C!Idle, C!Working, LanesFine
  <2>2. /\ Len(clResults') = Len(clResults) + 1 /\ Len(clResults) \in Nat
        /\ \A i \in 1 .. Len(clResults) : clResults'[i] = clResults[i]
        /\ clResults'[Len(clResults) + 1] = x
    BY <2>1, ListAppend DEF LanesFine
  <2>3. \A i \in 1 .. Len(clResults) : clResults[i].id # x.id
    BY <1>3 DEF Matched
  <2>4. \A i \in 1 .. Len(clQueue[ClOwner]) : clQueue[ClOwner][i].id # x.id
    BY <1>3 DEF Matched
  <2>5. \A i \in 1 .. Len(clQueue'[ClOwner]) : Asks(clQueue[ClOwner][i])'
    BY DEF Matched, Asks
  <2>6. ASSUME NEW i \in 1 .. Len(clResults') PROVE Answers(clResults[i])'
    <3>1. CASE i = Len(clResults) + 1
      BY <3>1, <2>2, <1>3 DEF Answers
    <3>2. CASE i # Len(clResults) + 1
      <4>1. i \in 1 .. Len(clResults) /\ clResults'[i] = clResults[i]
        BY <3>2, <2>2
      <4>2. Answers(clResults[i])
        BY <4>1 DEF Matched
      <4> QED BY <4>1, <4>2 DEF Answers
    <3> QED BY <3>1, <3>2
  <2>7. Apart(clResults)'
    BY <2>2, <2>3 DEF Matched, Apart
  <2>8. \A i \in 1 .. Len(clQueue'[ClOwner]), j \in 1 .. Len(clResults') :
          clQueue'[ClOwner][i].id # clResults'[j].id
    BY <2>2, <2>4 DEF Matched
  <2> QED BY <2>1, <2>5, <2>6, <2>7, <2>8 DEF Matched, Apart
<1> QED BY <1>2, <1>3

\* A worker that takes the next request of its queue.
LEMMA MatchedTakes ==
  ASSUME Matched, LanesFine, NEW p \in ClProcs, clQueue[p] # << >>, clWorker[p].pc = "idle",
         NEW r, r.req = Head(clQueue[p]), clWorker' = [clWorker EXCEPT ![p] = r],
         clQueue' = [clQueue EXCEPT ![p] = Tail(@)],
         UNCHANGED <<clPending, clResults, clCopied>>
  PROVE  Matched'
<1>0. ClOwner \in ClProcs
  BY ClipboardAssumption
<1>1. CASE p # ClOwner
  BY <1>0, <1>1, MatchedStays
<1>2. CASE p = ClOwner
  <2> DEFINE s == clQueue[ClOwner]
  <2>1. clQueue'[ClOwner] = Tail(s) /\ clWorker'[ClOwner] = r /\ Listed(s)
    BY <1>2 DEF LanesFine
  <2>2. /\ Len(Tail(s)) = Len(s) - 1 /\ Len(s) \in Nat \ {0} /\ Head(s) = s[1]
        /\ \A i \in 1 .. Len(s) - 1 : Tail(s)[i] = s[i + 1]
    BY <2>1, <1>2, ListTail
  <2>3. \A i \in 1 .. Len(Tail(s)) : i + 1 \in 1 .. Len(s) /\ Tail(s)[i] = s[i + 1]
    BY <2>2
  <2>4. 1 \in 1 .. Len(s) /\ r.req = s[1]
    BY <2>2, <1>2
  <2>5. \A q : Asks(q) => Asks(q)'
    BY DEF Asks
  <2>6. \A i \in 1 .. Len(clResults) : Answers(clResults[i])'
    BY DEF Matched, Answers
  <2>7. /\ Apart(Tail(s)) /\ \A i \in 1 .. Len(Tail(s)) : Tail(s)[i].id # r.req.id
    BY <2>2, <2>3, <2>4 DEF Matched, Apart
  <2>8. /\ \A i \in 1 .. Len(Tail(s)), j \in 1 .. Len(clResults) : Tail(s)[i].id # clResults[j].id
        /\ \A j \in 1 .. Len(clResults) : clResults[j].id # r.req.id
    BY <2>3, <2>4 DEF Matched
  <2>9. ASSUME NEW i \in 1 .. Len(clQueue'[ClOwner]) PROVE Asks(clQueue[ClOwner][i])'
    <3>1. PICK q : q = s[i + 1]
      OBVIOUS
    <3>2. Asks(q) /\ clQueue'[ClOwner][i] = q
      BY <3>1, <2>1, <2>3 DEF Matched
    <3> QED BY <3>2, <2>5 DEF Asks
  <2>10. Asks(clWorker[ClOwner].req)'
    <3>1. PICK q : q = s[1]
      OBVIOUS
    <3>2. Asks(q) /\ clWorker'[ClOwner].req = q
      BY <3>1, <2>1, <2>4 DEF Matched
    <3> QED BY <3>2, <2>5 DEF Asks
  <2>11. clResults' = clResults /\ \A i \in 1 .. Len(clResults') : Answers(clResults[i])'
    BY <2>6
  <2>12. Apart(clQueue[ClOwner])' /\ Apart(clResults)'
    BY <2>1, <2>7, <2>11 DEF Matched, Apart
  <2>13. \A i \in 1 .. Len(clQueue'[ClOwner]) : Asks(clQueue[ClOwner][i])'
    BY <2>9
  <2>14. \A i \in 1 .. Len(clQueue'[ClOwner]), j \in 1 .. Len(clResults') :
           clQueue'[ClOwner][i].id # clResults'[j].id
    <3>1. PICK t : t = Tail(s)
      OBVIOUS
    <3>2. clQueue'[ClOwner] = t /\ clResults' = clResults
      BY <2>1, <2>11, <3>1
    <3>3. \A i \in 1 .. Len(t), j \in 1 .. Len(clResults) : t[i].id # clResults[j].id
      BY <2>8, <3>1
    <3> QED BY <3>2, <3>3
  <2>15. /\ \A i \in 1 .. Len(clQueue'[ClOwner]) : clQueue'[ClOwner][i].id # clWorker'[ClOwner].req.id
         /\ \A i \in 1 .. Len(clResults') : clResults'[i].id # clWorker'[ClOwner].req.id
    BY <2>1, <2>7, <2>8, <2>11
  <2> QED BY <2>10, <2>11, <2>12, <2>13, <2>14, <2>15 DEF Matched
<1> QED BY <1>1, <1>2

\* A request of the owner.
LEMMA MatchedAsks ==
  ASSUME Matched, LanesFine, PendingFine, NEW r,
         clQueue' = [clQueue EXCEPT ![ClOwner] = Append(@, r)], r.id = clAsked + 1, Asks(r)',
         UNCHANGED <<clWorker, clResults, clCopied>>,
         \A i \in DOMAIN clPending : i \in DOMAIN clPending' /\ clPending'[i] = clPending[i]
  PROVE  Matched'
<1> DEFINE s == clQueue[ClOwner]
<1>0. ClOwner \in ClProcs
  BY ClipboardAssumption
<1>1. clQueue'[ClOwner] = Append(s, r) /\ Listed(s)
  BY <1>0 DEF LanesFine
<1>2. /\ Len(Append(s, r)) = Len(s) + 1 /\ Len(s) \in Nat
      /\ \A i \in 1 .. Len(s) : Append(s, r)[i] = s[i]
      /\ Append(s, r)[Len(s) + 1] = r
  BY <1>1, ListAppend
<1>3. \A i \in DOMAIN clPending : i # r.id
  BY DEF PendingFine
<1>4. /\ \A i \in 1 .. Len(s) : s[i].id # r.id
      /\ \A i \in 1 .. Len(clResults) : clResults[i].id # r.id
      /\ clWorker[ClOwner].pc # "idle" => clWorker[ClOwner].req.id # r.id
  BY <1>3 DEF Matched, Asks, Answers
<1>5. \A q : Asks(q) => Asks(q)'
  BY DEF Asks
<1>6. ASSUME NEW i \in 1 .. Len(clQueue'[ClOwner]) PROVE Asks(clQueue[ClOwner][i])'
  <2>1. CASE i = Len(s) + 1
    <3>1. clQueue'[ClOwner][i] = r
      BY <2>1, <1>1, <1>2
    <3> QED BY <3>1 DEF Asks
  <2>2. CASE i # Len(s) + 1
    <3>1. i \in 1 .. Len(s)
      BY <2>2, <1>1, <1>2
    <3>2. PICK q : q = s[i]
      OBVIOUS
    <3>3. Asks(q) /\ clQueue'[ClOwner][i] = q
      BY <3>1, <3>2, <1>1, <1>2 DEF Matched
    <3> QED BY <3>3, <1>5 DEF Asks
  <2> QED BY <2>1, <2>2
<1>7. \A i \in 1 .. Len(clResults) : Answers(clResults[i])'
  BY DEF Matched, Answers
<1>8. Apart(Append(s, r))
  BY <1>2, <1>4 DEF Matched, Apart
<1>9. \A i \in 1 .. Len(Append(s, r)), j \in 1 .. Len(clResults) : Append(s, r)[i].id # clResults[j].id
  BY <1>2, <1>4 DEF Matched
<1>10. clWorker[ClOwner].pc # "idle" =>
         /\ Asks(clWorker[ClOwner].req)'
         /\ \A i \in 1 .. Len(Append(s, r)) : Append(s, r)[i].id # clWorker[ClOwner].req.id
  BY <1>2, <1>4 DEF Matched, Asks
<1>11. Apart(clResults)' /\ clResults' = clResults /\ clWorker' = clWorker
  BY DEF Matched, Apart
<1>12. Apart(clQueue[ClOwner])'
  BY <1>1, <1>8 DEF Apart
<1>13. /\ \A i \in 1 .. Len(clQueue'[ClOwner]), j \in 1 .. Len(clResults') :
            clQueue'[ClOwner][i].id # clResults'[j].id
       /\ clWorker'[ClOwner].pc # "idle" =>
            \A i \in 1 .. Len(clQueue'[ClOwner]) : clQueue'[ClOwner][i].id # clWorker'[ClOwner].req.id
  BY <1>1, <1>9, <1>10, <1>11
<1>14. clWorker'[ClOwner].pc # "idle" =>
         /\ Asks(clWorker[ClOwner].req)'
         /\ \A i \in 1 .. Len(clResults') : clResults'[i].id # clWorker'[ClOwner].req.id
  BY <1>10, <1>11 DEF Matched
<1>15. \A i \in 1 .. Len(clResults') : Answers(clResults[i])'
  BY <1>7, <1>11
<1> QED BY <1>6, <1>11, <1>12, <1>13, <1>14, <1>15 DEF Matched

\* The owner drains the first answer.
LEMMA MatchedCompletes ==
  ASSUME Matched, LanesFine, clResults # << >>, clResults' = Tail(clResults),
         UNCHANGED <<clQueue, clWorker, clCopied>>,
         \A i \in DOMAIN clPending \ {Head(clResults).id} :
            /\ i \in DOMAIN clPending' /\ (clPending'[i].kind = "read" <=> clPending[i].kind = "read")
            /\ clPending[i].kind # "read" => clPending'[i] = clPending[i]
  PROVE  Matched'
<1> DEFINE s == clResults
           id == Head(clResults).id
<1>2. /\ Len(Tail(s)) = Len(s) - 1 /\ Len(s) \in Nat \ {0} /\ Head(s) = s[1]
      /\ \A i \in 1 .. Len(s) - 1 : Tail(s)[i] = s[i + 1]
  BY ListTail DEF LanesFine
<1>3. \A i \in 1 .. Len(Tail(s)) : i + 1 \in 1 .. Len(s) /\ Tail(s)[i] = s[i + 1]
  BY <1>2
<1>4. 1 \in 1 .. Len(s) /\ id = s[1].id
  BY <1>2
<1>5. /\ Apart(Tail(s)) /\ \A i \in 1 .. Len(Tail(s)) : Tail(s)[i].id # id
  BY <1>2, <1>3, <1>4 DEF Matched, Apart
<1>6. /\ \A i \in 1 .. Len(clQueue[ClOwner]) : clQueue[ClOwner][i].id # id
      /\ clWorker[ClOwner].pc # "idle" => clWorker[ClOwner].req.id # id
  BY <1>4 DEF Matched
<1>7. \A i \in 1 .. Len(clQueue[ClOwner]) : Asks(clQueue[ClOwner][i])'
  BY <1>6 DEF Matched, Asks
<1>8. clWorker[ClOwner].pc # "idle" => Asks(clWorker[ClOwner].req)'
  BY <1>6 DEF Matched, Asks
<1>9. ASSUME NEW i \in 1 .. Len(clResults') PROVE Answers(clResults[i])'
  <2>1. Answers(s[i + 1]) /\ s[i + 1].id # id /\ Tail(s)[i] = s[i + 1]
    BY <1>3, <1>5 DEF Matched
  <2>2. PICK x : x = s[i + 1]
    OBVIOUS
  <2>3. Answers(x) /\ x.id \in DOMAIN clPending \ {id}
    BY <2>1, <2>2 DEF Answers
  <2>4. Answers(x)'
    BY <2>3 DEF Answers
  <2>5. clResults'[i] = x
    BY <2>1, <2>2
  <2> QED BY <2>4, <2>5 DEF Answers
<1>10. \A i \in 1 .. Len(clQueue[ClOwner]), j \in 1 .. Len(Tail(s)) :
          clQueue[ClOwner][i].id # Tail(s)[j].id
  BY <1>3 DEF Matched
<1>11. clWorker[ClOwner].pc # "idle" =>
         \A i \in 1 .. Len(Tail(s)) : Tail(s)[i].id # clWorker[ClOwner].req.id
  BY <1>3 DEF Matched
<1>12. \A i \in 1 .. Len(clQueue[ClOwner]) : clQueue[ClOwner][i].id # clWorker[ClOwner].req.id \/ clWorker[ClOwner].pc = "idle"
  BY DEF Matched
<1>13. Apart(clQueue[ClOwner])' /\ clQueue' = clQueue /\ clWorker' = clWorker
  BY DEF Matched, Apart
<1>14. Apart(clResults)'
  BY <1>5 DEF Apart
<1>15. /\ \A i \in 1 .. Len(clQueue'[ClOwner]), j \in 1 .. Len(clResults') :
            clQueue'[ClOwner][i].id # clResults'[j].id
       /\ clWorker'[ClOwner].pc # "idle" =>
            /\ \A i \in 1 .. Len(clQueue'[ClOwner]) : clQueue'[ClOwner][i].id # clWorker'[ClOwner].req.id
            /\ \A i \in 1 .. Len(clResults') : clResults'[i].id # clWorker'[ClOwner].req.id
  BY <1>10, <1>11, <1>12, <1>13
<1>16. /\ \A i \in 1 .. Len(clQueue'[ClOwner]) : Asks(clQueue[ClOwner][i])'
       /\ clWorker'[ClOwner].pc # "idle" => Asks(clWorker[ClOwner].req)'
  BY <1>7, <1>8, <1>13
<1> QED BY <1>9, <1>13, <1>14, <1>15, <1>16 DEF Matched

-----------------------------------------------------------------------------
(* The clipboard: the external worker                                       *)

\* A step of a worker leaves the owner's board alone.
LEMMA WorkLeavesOwner ==
  ASSUME ClipInv, UNCHANGED <<C!ownerVars, clAsked>>, clCopied \subseteq clCopied',
         LanesFine', Matched', Trust'
  PROVE  ClipInv'
<1>1. UNCHANGED <<clBoard, clMode, clDraft, clGens, clPending, clEpisode, clRemoved, clLanded, clAsked>>
  BY DEF C!ownerVars
<1> QED BY <1>1 DEF ClipInv, OwnerTypes, PendingFine, InEpisode, C!CutRemovesOnlyWritten,
           C!PasteReachesItsEditor

\* Lanes with the same queues and workers.
LEMMA LanesSame ==
  ASSUME LanesFine, UNCHANGED <<clQueue, clWorker, clLock>>, Listed(clResults'),
         clClip' = [gen |-> clClip'.gen, text |-> clClip'.text, payload |-> clClip'.payload],
         clClip'.gen \in Nat,
         clClip'.payload # C!NoPayload =>
           clClip'.payload = [request |-> clClip'.payload.request, binding |-> clClip'.payload.binding]
  PROVE  LanesFine'
<1>1. \A p \in ClProcs : Listed(clQueue'[p]) /\ WorkerShape(clWorker'[p])
  BY DEF LanesFine
<1>2. DOMAIN clQueue' = ClProcs /\ DOMAIN clWorker' = ClProcs /\ clLock' \in {"free"} \cup ClProcs
  BY DEF LanesFine
<1> QED BY <1>1, <1>2 DEF LanesFine, Listed, WorkerShape

\* One worker changes, the clipboard stays a clipboard.
LEMMA LanesKept ==
  ASSUME LanesFine, NEW p \in ClProcs, NEW r, WorkerShape(r), clWorker' = [clWorker EXCEPT ![p] = r],
         clQueue' = clQueue, Listed(clResults'), clClip' = clClip, clLock' \in {"free"} \cup ClProcs
  PROVE  LanesFine' /\ clWorker'[p] = r /\ \A q \in ClProcs \ {p} : clWorker'[q] = clWorker[q]
<1>1. DOMAIN clWorker' = ClProcs /\ clWorker'[p] = r
      /\ \A q \in ClProcs \ {p} : clWorker'[q] = clWorker[q]
  BY DEF LanesFine
<1>2. \A q \in ClProcs : WorkerShape(clWorker'[q]) /\ Listed(clQueue'[q])
  BY <1>1 DEF LanesFine
<1> QED BY <1>1, <1>2 DEF LanesFine, Listed, WorkerShape

\* The same with a new content.
LEMMA LanesPut ==
  ASSUME LanesFine, NEW p \in ClProcs, NEW r, WorkerShape(r), clWorker' = [clWorker EXCEPT ![p] = r],
         clQueue' = clQueue, Listed(clResults'), clLock' \in {"free"} \cup ClProcs,
         NEW text, NEW payload, C!Put(text, payload),
         payload # C!NoPayload => payload = [request |-> payload.request, binding |-> payload.binding]
  PROVE  /\ LanesFine' /\ clWorker'[p] = r /\ \A q \in ClProcs \ {p} : clWorker'[q] = clWorker[q]
         /\ clClip'.gen = clClip.gen + 1 /\ clClip'.text = text /\ clClip'.payload = payload
<1>1. DOMAIN clWorker' = ClProcs /\ clWorker'[p] = r
      /\ \A q \in ClProcs \ {p} : clWorker'[q] = clWorker[q]
  BY DEF LanesFine
<1>2. \A q \in ClProcs : WorkerShape(clWorker'[q]) /\ Listed(clQueue'[q])
  BY <1>1 DEF LanesFine
<1>4. clClip' = [gen |-> clClip.gen + 1, text |-> text, payload |-> payload] /\ clClip.gen \in Nat
  BY DEF C!Put, LanesFine
<1>5. /\ clClip' = [gen |-> clClip'.gen, text |-> clClip'.text, payload |-> clClip'.payload]
      /\ clClip'.gen = clClip.gen + 1 /\ clClip'.text = text /\ clClip'.payload = payload
      /\ clClip'.gen \in Nat
  BY <1>4
<1>6. DOMAIN clQueue' = ClProcs
  BY DEF LanesFine
<1>7. LanesFine'
  BY <1>1, <1>2, <1>5, <1>6 DEF LanesFine, Listed, WorkerShape
<1> QED BY <1>1, <1>5, <1>7

\* A worker that goes on.
LEMMA Advancing ==
  ASSUME LanesFine, NEW p \in ClProcs, NEW pc, C!Advance(p, pc)
  PROVE  clWorker' = [clWorker EXCEPT ![p] =
           [pc |-> pc, req |-> clWorker[p].req, gen |-> clWorker[p].gen,
            first |-> clWorker[p].first, text |-> clWorker[p].text]]
<1>1. clWorker[p] = [pc |-> clWorker[p].pc, req |-> clWorker[p].req, gen |-> clWorker[p].gen,
                     first |-> clWorker[p].first, text |-> clWorker[p].text]
  BY DEF LanesFine, WorkerShape
<1>2. clWorker' = [clWorker EXCEPT ![p] = [clWorker[p] EXCEPT !.pc = pc]]
  BY DEF C!Advance
<1>3. [clWorker[p] EXCEPT !.pc = pc] =
        [pc |-> pc, req |-> clWorker[p].req, gen |-> clWorker[p].gen,
         first |-> clWorker[p].first, text |-> clWorker[p].text]
  BY <1>1
<1> QED BY <1>2, <1>3

LEMMA IdleShape == WorkerShape(C!Idle)
BY DEF WorkerShape, C!Idle, C!Working, ClWriting, ClReading

\* A worker that answers is idle afterwards.
LEMMA Answering ==
  ASSUME LanesFine, NEW p \in ClProcs, NEW x, C!Answer(p, x), clQueue' = clQueue,
         clLock' \in {"free"} \cup ClProcs
  PROVE  /\ clWorker' = [clWorker EXCEPT ![p] = C!Idle] /\ Listed(clResults')
         /\ clWorker'[p] = C!Idle /\ \A q \in ClProcs \ {p} : clWorker'[q] = clWorker[q]
         /\ clClip' = clClip => LanesFine'
<1>1. clWorker' = [clWorker EXCEPT ![p] = C!Idle]
  BY DEF C!Answer
<1>2. Listed(clResults')
  BY ListAppend DEF C!Answer, LanesFine
<1>3. clWorker'[p] = C!Idle /\ \A q \in ClProcs \ {p} : clWorker'[q] = clWorker[q]
  BY <1>1 DEF LanesFine
<1> QED BY <1>1, <1>2, <1>3, LanesKept, IdleShape

\* What another worker holds and records, while p works.
LEMMA OtherWorker ==
  ASSUME Trust, LanesFine, NEW q \in ClProcs, clWorker'[q] = clWorker[q],
         clLock = q => clLock' = q /\ clProv' = clProv /\ clWritten' = clWritten,
         clClip'.gen \in Nat, clClip.gen <= clClip'.gen, clMade \subseteq clMade'
  PROVE  (HoldsLock(q)' => clLock' = q) /\ Recording(q)'
<1>1. HoldsLock(q)' <=> HoldsLock(q)
  BY DEF HoldsLock
<1>2. HoldsLock(q) => clLock = q
  BY DEF Trust
<1>3. clWorker[q].pc \in {"record", "verify"} => HoldsLock(q)
  BY DEF HoldsLock
<1>4. Recording(q) /\ clClip.gen \in Nat
  BY DEF Trust, LanesFine
<1>5. clWorker[q].pc \in {"record", "verify"} => Recording(q)'
  BY <1>2, <1>3, <1>4 DEF Recording
<1>6. clWorker[q].pc \notin {"record", "verify"} => Recording(q)'
  BY DEF Recording
<1> QED BY <1>1, <1>2, <1>5, <1>6

\* A worker that gives up, or answers after reading: the record and the clipboard are as before.
LEMMA TrustAnswers ==
  ASSUME Trust, LanesFine, NEW p \in ClProcs, clWorker'[p] = C!Idle,
         \A q \in ClProcs \ {p} : clWorker'[q] = clWorker[q], clLock # p => clLock' = clLock,
         UNCHANGED <<clClip, clProv, clMade, clWritten>>, clTyped' \subseteq clMade
  PROVE  Trust'
<1>1. \A q \in ClProcs \ {p} : (HoldsLock(q)' => clLock' = q) /\ Recording(q)'
  BY OtherWorker DEF LanesFine
<1>2. ~ HoldsLock(p)' /\ Recording(p)'
  BY DEF HoldsLock, Recording, C!Idle, C!Working
<1>3. \A q \in ClProcs : (HoldsLock(q)' => clLock' = q) /\ Recording(q)'
  BY <1>1, <1>2
<1> QED BY <1>3 DEF Trust

\* The answers of a write and of a read are the owner's to expect.
LEMMA AnswersWrite ==
  ASSUME Matched, LanesFine, NEW p \in ClProcs, clWorker[p].pc \in ClWriting, NEW w,
         C!AnswerWrite(p, w), clPending' = clPending, clQueue' = clQueue, clCopied \subseteq clCopied',
         w = "native" => C!Pairs(clWorker[p].req.sources) \subseteq clCopied'
  PROVE  Matched'
<1>1. PICK x : x = [id |-> clWorker[p].req.id, write |-> w]
  OBVIOUS
<1>2. C!Answer(p, x) /\ x.id = clWorker[p].req.id /\ x.write = w
  BY <1>1 DEF C!AnswerWrite
<1>3. clWorker[p].pc # "idle" /\ clWorker[p].req.kind # "read"
  BY DEF LanesFine, WorkerShape, ClWriting
<1>4. ASSUME p = ClOwner PROVE Answers(x)'
  <2>1. Asks(clWorker[p].req)
    BY <1>3, <1>4 DEF Matched
  <2>2. /\ x.id \in DOMAIN clPending /\ clPending[x.id].kind # "read"
        /\ clPending[x.id].sources = clWorker[p].req.sources
    BY <1>2, <1>3, <2>1 DEF Asks
  <2> QED BY <1>2, <2>2 DEF Answers
<1> QED BY <1>2, <1>3, <1>4, MatchedAnswers

LEMMA AnswersRead ==
  ASSUME Matched, LanesFine, NEW p \in ClProcs, clWorker[p].pc \in ClReading, NEW text,
         NEW notes \in BOOLEAN, C!AnswerRead(p, text, notes),
         UNCHANGED <<clPending, clQueue, clCopied>>
  PROVE  Matched'
<1>1. PICK x : x = [id |-> clWorker[p].req.id, read |-> text, notes |-> notes]
  OBVIOUS
<1>2. C!Answer(p, x) /\ x.id = clWorker[p].req.id /\ x.notes \in BOOLEAN
  BY <1>1 DEF C!AnswerRead
<1>3. clWorker[p].pc # "idle" /\ clWorker[p].req.kind = "read"
  BY DEF LanesFine, WorkerShape, ClReading
<1>4. ASSUME p = ClOwner PROVE Answers(x)'
  <2>1. Asks(clWorker[p].req)
    BY <1>3, <1>4 DEF Matched
  <2>2. x.id \in DOMAIN clPending /\ clPending[x.id].kind = "read"
    BY <1>2, <1>3, <2>1 DEF Asks
  <2> QED BY <1>2, <2>2 DEF Answers
<1> QED BY <1>2, <1>3, <1>4, MatchedAnswers

LEMMA ClipboardTake ==
  ASSUME ClipInv, NEW p \in ClProcs, C!Take(p), UNCHANGED <<C!ownerVars, clAsked>>
  PROVE  ClipInv'
<1>1. /\ LanesFine /\ Matched /\ Trust /\ clWorker[p].pc = "idle" /\ clQueue[p] # << >>
      /\ clQueue' = [clQueue EXCEPT ![p] = Tail(@)]
      /\ UNCHANGED <<clResults, clClip, clProv, clLock, clCopied, clTyped, clMade, clWritten, clPending>>
  BY DEF ClipInv, C!Take, C!ownerVars
<1> DEFINE h == Head(clQueue[p])
<1> DEFINE pc == IF h.kind = "read" THEN "open"
                 ELSE IF C!Annotated(h.sources) THEN "lock" ELSE "plain"
<1>3. PICK r : r = C!Working(pc, h, 0, C!NoRecord, C!NoText)
  OBVIOUS
<1>4. clWorker' = [clWorker EXCEPT ![p] = r]
  BY <1>3 DEF C!Take
<1>5. WorkerShape(r) /\ r.req = h /\ r.pc \in {"open", "lock", "plain"}
  <2>1. /\ pc \in {"open", "lock", "plain"}
        /\ pc = "open" <=> h.kind = "read"
    OBVIOUS
  <2> HIDE DEF pc, h
  <2> QED BY <1>3, <2>1 DEF WorkerShape, ClWriting, ClReading, C!Working
<1>6. /\ DOMAIN clWorker' = ClProcs /\ clWorker'[p] = r
      /\ \A q \in ClProcs \ {p} : clWorker'[q] = clWorker[q]
  BY <1>1, <1>4 DEF LanesFine
<1>7. LanesFine'
  <2>1. Listed(Tail(clQueue[p])) /\ DOMAIN clQueue' = ClProcs /\ clQueue'[p] = Tail(clQueue[p])
        /\ \A q \in ClProcs \ {p} : clQueue'[q] = clQueue[q]
    BY <1>1, ListTail DEF LanesFine
  <2>2. \A q \in ClProcs : Listed(clQueue'[q])
    BY <2>1, <1>1 DEF LanesFine
  <2>3. \A q \in ClProcs : WorkerShape(clWorker[q])'
    BY <1>1, <1>5, <1>6 DEF LanesFine, WorkerShape
  <2>4. Listed(clResults')
    BY <1>1 DEF LanesFine
  <2> QED BY <1>1, <1>6, <2>1, <2>2, <2>3, <2>4 DEF LanesFine, Listed
<1>8. Matched'
  BY <1>1, <1>4, <1>5, MatchedTakes
<1>9. Trust'
  <2>1. \A q \in ClProcs \ {p} : (HoldsLock(q)' => clLock' = q) /\ Recording(q)'
    BY <1>1, <1>6, OtherWorker DEF LanesFine
  <2>2. ~ HoldsLock(p)' /\ Recording(p)'
    BY <1>5, <1>6 DEF HoldsLock, Recording
  <2>3. \A q \in ClProcs : (HoldsLock(q)' => clLock' = q) /\ Recording(q)'
    BY <2>1, <2>2
  <2> QED BY <1>1, <2>3 DEF Trust
<1> QED BY <1>1, <1>7, <1>8, <1>9, WorkLeavesOwner

LEMMA ClipboardWritePlain ==
  ASSUME ClipInv, NEW p \in ClProcs, C!WritePlain(p), UNCHANGED <<C!ownerVars, clAsked>>
  PROVE  ClipInv'
<1>1. /\ LanesFine /\ Matched /\ Trust /\ clWorker[p].pc = "plain" /\ clWorker[p].pc \in ClWriting
      /\ UNCHANGED <<clQueue, clProv, clLock, clTyped, clMade, clWritten, clPending>>
      /\ clLock' \in {"free"} \cup ClProcs
  BY DEF ClipInv, C!WritePlain, C!ownerVars, LanesFine, ClWriting
<1>2. CASE /\ C!Put(C!TextOf(clWorker[p].req.sources), C!NoPayload) /\ C!AnswerWrite(p, "native")
           /\ clCopied' = clCopied \cup C!Pairs(clWorker[p].req.sources)
  <2>1. Matched'
    BY <1>1, <1>2, AnswersWrite
  <2>2. /\ clWorker' = [clWorker EXCEPT ![p] = C!Idle] /\ Listed(clResults')
        /\ clWorker'[p] = C!Idle
    BY <1>1, <1>2, Answering DEF C!AnswerWrite
  <2>3. /\ LanesFine' /\ \A q \in ClProcs \ {p} : clWorker'[q] = clWorker[q]
        /\ clClip'.gen = clClip.gen + 1
    BY <1>1, <1>2, <2>2, LanesPut, IdleShape
  <2>4. Trust'
    <3>0. clClip.gen \in Nat
      BY <1>1 DEF LanesFine
    <3>1. \A q \in ClProcs \ {p} : (HoldsLock(q)' => clLock' = q) /\ Recording(q)'
      BY <1>1, <2>3, <3>0, OtherWorker DEF LanesFine
    <3>2. ~ HoldsLock(p)' /\ Recording(p)'
      BY <2>2 DEF HoldsLock, Recording, C!Idle, C!Working
    <3>3. \A q \in ClProcs : (HoldsLock(q)' => clLock' = q) /\ Recording(q)'
      BY <3>1, <3>2
    <3>4. \A w \in clWritten' : w[1] \in 0 .. clClip'.gen
      BY <1>1, <2>3, <3>0 DEF Trust
    <3>5. <<clClip'.gen, clClip'.text, clClip'.payload>> \notin clWritten'
      BY <1>1, <2>3, <3>0 DEF Trust
    <3> QED BY <1>1, <3>3, <3>4, <3>5 DEF Trust
  <2> QED BY <1>2, <2>1, <2>3, <2>4, WorkLeavesOwner
<1>3. CASE (\E w \in {"osc52", "failed"} : C!AnswerWrite(p, w)) /\ UNCHANGED <<clClip, clCopied>>
  <2>1. PICK w \in {"osc52", "failed"} : C!AnswerWrite(p, w)
    BY <1>3
  <2>2. Matched'
    BY <1>1, <1>3, <2>1, AnswersWrite
  <2>3. /\ LanesFine' /\ clWorker'[p] = C!Idle /\ \A q \in ClProcs \ {p} : clWorker'[q] = clWorker[q]
    BY <1>1, <1>3, <2>1, Answering DEF C!AnswerWrite
  <2>4. Trust'
    BY <1>1, <1>3, <2>3, TrustAnswers DEF Trust
  <2> QED BY <1>3, <2>2, <2>3, <2>4, WorkLeavesOwner
<1> QED BY <1>2, <1>3 DEF C!WritePlain

LEMMA Releasing ==
  ASSUME LanesFine, NEW p \in ClProcs, C!Release(p)
  PROVE  clLock' \in {"free"} \cup ClProcs /\ (clLock # p => clLock' = clLock)
BY DEF LanesFine, C!Release

\* A write that fails: nothing but the worker and its lock changes.
LEMMA WriteFails ==
  ASSUME ClipInv, NEW p \in ClProcs, clWorker[p].pc \in ClWriting, C!AnswerWrite(p, "failed"),
         C!Release(p) \/ clLock' = clLock,
         UNCHANGED <<C!ownerVars, clAsked, clQueue, clClip, clProv, clCopied, clTyped, clMade, clWritten>>
  PROVE  ClipInv'
<1>1. LanesFine /\ Matched /\ Trust /\ clPending' = clPending
  BY DEF ClipInv, C!ownerVars
<1>2. clLock' \in {"free"} \cup ClProcs /\ (clLock # p => clLock' = clLock)
  BY <1>1, Releasing DEF LanesFine
<1>3. Matched'
  BY <1>1, AnswersWrite
<1>4. LanesFine' /\ clWorker'[p] = C!Idle /\ \A q \in ClProcs \ {p} : clWorker'[q] = clWorker[q]
  BY <1>1, <1>2, Answering DEF C!AnswerWrite
<1>5. Trust'
  BY <1>1, <1>2, <1>4, TrustAnswers DEF Trust
<1> QED BY <1>3, <1>4, <1>5, WorkLeavesOwner

LEMMA ClipboardAcquireProvenance ==
  ASSUME ClipInv, NEW p \in ClProcs, C!AcquireProvenance(p), UNCHANGED <<C!ownerVars, clAsked>>
  PROVE  ClipInv'
<1>1. /\ LanesFine /\ Matched /\ Trust /\ clWorker[p].pc = "lock" /\ clWorker[p].pc \in ClWriting
      /\ UNCHANGED <<clQueue, clClip, clProv, clCopied, clTyped, clMade, clWritten, clPending>>
  BY DEF ClipInv, C!AcquireProvenance, C!ownerVars, LanesFine, ClWriting
<1>2. CASE clLock = "free" /\ clLock' = p /\ C!Advance(p, "typed") /\ UNCHANGED clResults
  <2>1. PICK r : r = [pc |-> "typed", req |-> clWorker[p].req, gen |-> clWorker[p].gen,
                      first |-> clWorker[p].first, text |-> clWorker[p].text]
    OBVIOUS
  <2>2. clWorker' = [clWorker EXCEPT ![p] = r]
    BY <1>1, <1>2, <2>1, Advancing
  <2>3. WorkerShape(clWorker[p]) /\ ClOwner \in ClProcs /\ "free" \notin ClProcs
    BY <1>1, ClipboardAssumption DEF LanesFine
  <2>4. WorkerShape(r) /\ r.pc = "typed" /\ r.req = clWorker[p].req
    BY <1>1, <2>1, <2>3 DEF WorkerShape, ClWriting, ClReading
  <2>5. Listed(clResults') /\ clLock' \in {"free"} \cup ClProcs
    BY <1>1, <1>2 DEF LanesFine
  <2>6. LanesFine' /\ clWorker'[p] = r /\ \A q \in ClProcs \ {p} : clWorker'[q] = clWorker[q]
    BY <1>1, <2>2, <2>4, <2>5, LanesKept
  <2>7. Matched'
    <3>1. clWorker'[ClOwner].pc # "idle" =>
            clWorker[ClOwner].pc # "idle" /\ clWorker'[ClOwner].req = clWorker[ClOwner].req
      BY <1>1, <2>3, <2>4, <2>6
    <3> QED BY <1>1, <1>2, <3>1, MatchedStays
  <2>8. Trust'
    <3>1. \A q \in ClProcs \ {p} : (HoldsLock(q)' => clLock' = q) /\ Recording(q)'
      BY <1>1, <1>2, <2>3, <2>6, OtherWorker DEF LanesFine
    <3>2. (HoldsLock(p)' => clLock' = p) /\ Recording(p)'
      BY <1>2, <2>4, <2>6 DEF Recording
    <3>3. \A q \in ClProcs : (HoldsLock(q)' => clLock' = q) /\ Recording(q)'
      BY <3>1, <3>2
    <3> QED BY <1>1, <3>3 DEF Trust
  <2> QED BY <1>1, <2>6, <2>7, <2>8, WorkLeavesOwner
<1>3. CASE clLock # "free" /\ C!AnswerWrite(p, "failed") /\ UNCHANGED clLock
  BY <1>1, <1>3, WriteFails
<1> QED BY <1>2, <1>3 DEF C!AcquireProvenance

LEMMA ClipboardWriteTyped ==
  ASSUME ClipInv, NEW p \in ClProcs, C!WriteTyped(p), UNCHANGED <<C!ownerVars, clAsked>>
  PROVE  ClipInv'
<1>1. /\ LanesFine /\ Matched /\ Trust /\ clWorker[p].pc = "typed" /\ clWorker[p].pc \in ClWriting
      /\ UNCHANGED <<clQueue, clProv, clCopied, clTyped, clWritten, clPending>>
  BY DEF ClipInv, C!WriteTyped, C!ownerVars, LanesFine, ClWriting
<1>2. CASE /\ C!Put(C!TextOf(clWorker[p].req.sources), C!Encode(clWorker[p].req))
           /\ clMade' = clMade \cup {<<clClip.gen + 1, C!TextOf(clWorker[p].req.sources),
                                       C!Encode(clWorker[p].req)>>}
           /\ clWorker' = [clWorker EXCEPT ![p] =
                C!Working("record", @.req, clClip.gen + 1, C!NoRecord, C!NoText)]
           /\ UNCHANGED <<clResults, clLock>>
  <2>1. PICK r : r = C!Working("record", clWorker[p].req, clClip.gen + 1, C!NoRecord, C!NoText)
    OBVIOUS
  <2>2. clWorker' = [clWorker EXCEPT ![p] = r]
    BY <1>2, <2>1
  <2>3. WorkerShape(clWorker[p]) /\ ClOwner \in ClProcs /\ clClip.gen \in Nat
    BY <1>1, ClipboardAssumption DEF LanesFine
  <2>4. WorkerShape(r) /\ r.pc = "record" /\ r.req = clWorker[p].req /\ r.gen = clClip.gen + 1
    BY <1>1, <2>1, <2>3 DEF WorkerShape, ClWriting, ClReading, C!Working
  <2>5. Listed(clResults') /\ clLock' \in {"free"} \cup ClProcs
    BY <1>1, <1>2 DEF LanesFine
  <2>6. C!Encode(clWorker[p].req) =
          [request |-> C!Encode(clWorker[p].req).request, binding |-> C!Encode(clWorker[p].req).binding]
    BY DEF C!Encode
  <2>7. /\ LanesFine' /\ clWorker'[p] = r /\ \A q \in ClProcs \ {p} : clWorker'[q] = clWorker[q]
        /\ clClip'.gen = clClip.gen + 1
    <3>1. PICK text : text = C!TextOf(clWorker[p].req.sources)
      OBVIOUS
    <3>2. PICK payload : payload = C!Encode(clWorker[p].req)
      OBVIOUS
    <3>3. C!Put(text, payload) /\ payload = [request |-> payload.request, binding |-> payload.binding]
      BY <1>2, <2>6, <3>1, <3>2
    <3> QED BY <1>1, <2>2, <2>4, <2>5, <3>3, LanesPut
  <2>8. Matched'
    <3>1. clWorker'[ClOwner].pc # "idle" =>
            clWorker[ClOwner].pc # "idle" /\ clWorker'[ClOwner].req = clWorker[ClOwner].req
      BY <1>1, <2>3, <2>4, <2>7
    <3> QED BY <1>1, <1>2, <3>1, MatchedStays
  <2>9. Trust'
    <3>0. clLock' = p /\ clLock = p
      BY <1>1, <1>2 DEF Trust, HoldsLock
    <3>1. \A q \in ClProcs \ {p} : (HoldsLock(q)' => clLock' = q) /\ Recording(q)'
      BY <1>1, <1>2, <2>3, <2>7, <3>0, OtherWorker DEF LanesFine
    <3>2. (HoldsLock(p)' => clLock' = p) /\ Recording(p)'
      <4>1. \A w \in clWritten' : w[1] < clWorker'[p].gen
        BY <1>1, <2>3, <2>4, <2>7 DEF Trust
      <4>2. clWorker'[p].gen \in 0 .. clClip'.gen
        BY <2>3, <2>4, <2>7
      <4>3. <<clWorker'[p].gen, C!TextOf(clWorker'[p].req.sources), C!Encode(clWorker'[p].req)>> \in clMade'
        BY <1>2, <2>4, <2>7
      <4> QED BY <3>0, <2>4, <2>7, <4>1, <4>2, <4>3 DEF Recording, C!TextOf, C!Encode
    <3>3. \A q \in ClProcs : (HoldsLock(q)' => clLock' = q) /\ Recording(q)'
      BY <3>1, <3>2
    <3>4. \A w \in clWritten' : w[1] \in 0 .. clClip'.gen
      BY <1>1, <2>3, <2>7 DEF Trust
    <3>5. <<clClip'.gen, clClip'.text, clClip'.payload>> \notin clWritten'
      BY <1>1, <2>3, <2>7 DEF Trust
    <3> QED BY <1>1, <1>2, <3>3, <3>4, <3>5 DEF Trust
  <2> QED BY <1>1, <2>7, <2>8, <2>9, WorkLeavesOwner
<1>3. CASE C!AnswerWrite(p, "failed") /\ C!Release(p) /\ UNCHANGED <<clClip, clMade>>
  BY <1>1, <1>3, WriteFails
<1> QED BY <1>2, <1>3 DEF C!WriteTyped

LEMMA ClipboardStoreProvenance ==
  ASSUME ClipInv, NEW p \in ClProcs, C!StoreProvenance(p), UNCHANGED <<C!ownerVars, clAsked>>
  PROVE  ClipInv'
<1>1. /\ LanesFine /\ Matched /\ Trust /\ clWorker[p].pc = "record" /\ clWorker[p].pc \in ClWriting
      /\ UNCHANGED <<clQueue, clClip, clCopied, clTyped, clMade, clWritten, clPending>>
  BY DEF ClipInv, C!StoreProvenance, C!ownerVars, LanesFine, ClWriting
<1>2. CASE /\ clProv' = C!Provenance(clWorker[p].gen, C!Encode(clWorker[p].req))
           /\ C!Advance(p, "verify") /\ UNCHANGED <<clResults, clLock>>
  <2>1. PICK r : r = [pc |-> "verify", req |-> clWorker[p].req, gen |-> clWorker[p].gen,
                      first |-> clWorker[p].first, text |-> clWorker[p].text]
    OBVIOUS
  <2>2. clWorker' = [clWorker EXCEPT ![p] = r]
    BY <1>1, <1>2, <2>1, Advancing
  <2>3. WorkerShape(clWorker[p]) /\ ClOwner \in ClProcs /\ clClip.gen \in Nat
    BY <1>1, ClipboardAssumption DEF LanesFine
  <2>4. WorkerShape(r) /\ r.pc = "verify" /\ r.req = clWorker[p].req /\ r.gen = clWorker[p].gen
    BY <1>1, <2>1, <2>3 DEF WorkerShape, ClWriting, ClReading
  <2>5. Listed(clResults') /\ clLock' \in {"free"} \cup ClProcs
    BY <1>1, <1>2 DEF LanesFine
  <2>6. LanesFine' /\ clWorker'[p] = r /\ \A q \in ClProcs \ {p} : clWorker'[q] = clWorker[q]
    BY <1>1, <2>2, <2>4, <2>5, LanesKept
  <2>7. Matched'
    <3>1. clWorker'[ClOwner].pc # "idle" =>
            clWorker[ClOwner].pc # "idle" /\ clWorker'[ClOwner].req = clWorker[ClOwner].req
      BY <1>1, <2>3, <2>4, <2>6
    <3> QED BY <1>1, <1>2, <3>1, MatchedStays
  <2>8. Trust'
    <3>0. clLock' = p /\ clLock = p /\ Recording(p)
      BY <1>1, <1>2 DEF Trust, HoldsLock
    <3>1. \A q \in ClProcs \ {p} : (HoldsLock(q)' => clLock' = q) /\ Recording(q)'
      BY <1>1, <1>2, <2>3, <2>6, <3>0, OtherWorker DEF LanesFine
    <3>2. Recording(p)'
      BY <1>1, <1>2, <2>3, <2>4, <2>6, <3>0 DEF Recording, C!TextOf, C!Encode, C!Provenance
    <3>3. \A q \in ClProcs : (HoldsLock(q)' => clLock' = q) /\ Recording(q)'
      BY <3>0, <3>1, <3>2
    <3>4. <<clClip.gen, clClip.text, clClip.payload>> \notin clWritten
      BY <1>1, <2>3, <3>0 DEF Recording
    <3>5. <<clProv'.gen, clProv'.binding,
            [request |-> clProv'.request, binding |-> clProv'.binding]>> \in clMade
      <4>1. <<clWorker[p].gen, C!TextOf(clWorker[p].req.sources), C!Encode(clWorker[p].req)>> \in clMade
        BY <1>1, <3>0 DEF Recording
      <4>2. /\ clProv'.gen = clWorker[p].gen /\ clProv'.request = C!Encode(clWorker[p].req).request
            /\ clProv'.binding = C!Encode(clWorker[p].req).binding
        BY <1>2 DEF C!Provenance
      <4>3. /\ C!Encode(clWorker[p].req).binding = C!TextOf(clWorker[p].req.sources)
            /\ C!Encode(clWorker[p].req) = [request |-> C!Encode(clWorker[p].req).request,
                                            binding |-> C!Encode(clWorker[p].req).binding]
        BY DEF C!Encode
      <4> QED BY <4>1, <4>2, <4>3
    <3> QED BY <1>1, <3>3, <3>4, <3>5 DEF Trust
  <2> QED BY <1>1, <2>6, <2>7, <2>8, WorkLeavesOwner
<1>3. CASE C!AnswerWrite(p, "failed") /\ C!Release(p) /\ UNCHANGED clProv
  BY <1>1, <1>3, WriteFails
<1> QED BY <1>2, <1>3 DEF C!StoreProvenance

LEMMA ClipboardVerifyTyped ==
  ASSUME ClipInv, NEW p \in ClProcs, C!VerifyTyped(p), UNCHANGED <<C!ownerVars, clAsked>>
  PROVE  ClipInv'
<1>1. /\ LanesFine /\ Matched /\ Trust /\ clWorker[p].pc = "verify" /\ clWorker[p].pc \in ClWriting
      /\ UNCHANGED <<clQueue, clClip, clProv, clTyped, clMade, clPending>> /\ C!Release(p)
  BY DEF ClipInv, C!VerifyTyped, C!ownerVars, LanesFine, ClWriting
<1>2. CASE C!TypedWriteMatches(p)
  <2>1. /\ C!AnswerWrite(p, "native") /\ clCopied' = clCopied \cup C!Pairs(clWorker[p].req.sources)
        /\ clWritten' = clWritten \cup {<<clClip.gen, clClip.text, clClip.payload>>}
    BY <1>2 DEF C!VerifyTyped
  <2>2. clLock' \in {"free"} \cup ClProcs /\ (clLock # p => clLock' = clLock)
    BY <1>1, Releasing
  <2>3. LanesFine' /\ clWorker'[p] = C!Idle /\ \A q \in ClProcs \ {p} : clWorker'[q] = clWorker[q]
    BY <1>1, <2>1, <2>2, Answering DEF C!AnswerWrite
  <2>4. Matched'
    BY <1>1, <2>1, AnswersWrite
  <2>5. Trust'
    <3>0. clLock = p /\ Recording(p) /\ clClip.gen \in Nat
      BY <1>1 DEF Trust, HoldsLock, LanesFine
    <3>1. \A q \in ClProcs \ {p} : (HoldsLock(q)' => clLock' = q) /\ Recording(q)'
      BY <1>1, <2>3, <3>0, OtherWorker DEF LanesFine
    <3>2. ~ HoldsLock(p)' /\ Recording(p)'
      BY <2>3 DEF HoldsLock, Recording, C!Idle, C!Working
    <3>3. \A q \in ClProcs : (HoldsLock(q)' => clLock' = q) /\ Recording(q)'
      BY <3>1, <3>2
    <3>4. clProv = C!Provenance(clClip.gen, clClip.payload)
      BY <1>1, <1>2, <3>0 DEF Recording, C!TypedWriteMatches
    <3>5. ASSUME NEW w \in clWritten' PROVE w[1] \in 0 .. clClip'.gen
      <4>1. CASE w \in clWritten
        BY <1>1, <4>1 DEF Trust
      <4>2. CASE w = <<clClip.gen, clClip.text, clClip.payload>>
        BY <1>1, <3>0, <4>2
      <4> QED BY <2>1, <4>1, <4>2
    <3> QED BY <1>1, <3>3, <3>4, <3>5 DEF Trust, C!Provenance
  <2> QED BY <1>1, <2>1, <2>3, <2>4, <2>5, WorkLeavesOwner
<1>3. CASE ~ C!TypedWriteMatches(p)
  <2>1. C!AnswerWrite(p, "failed") /\ UNCHANGED <<clCopied, clWritten>>
    BY <1>3 DEF C!VerifyTyped
  <2> QED BY <1>1, <2>1, WriteFails
<1> QED BY <1>2, <1>3

\* A reader goes on: only p's worker and the lock change.
LEMMA ReaderGoesOn ==
  ASSUME ClipInv, NEW p \in ClProcs, clWorker[p].pc \in ClReading, NEW r,
         r = [pc |-> r.pc, req |-> clWorker[p].req, gen |-> r.gen, first |-> r.first, text |-> r.text],
         r.pc \in {"text", "close"}, clWorker' = [clWorker EXCEPT ![p] = r],
         clLock' \in {"free"} \cup ClProcs, \A q \in ClProcs \ {p} : clLock = q => clLock' = q,
         r.first # C!NoRecord => clLock' = p,
         UNCHANGED <<C!ownerVars, clAsked, clQueue, clResults, clClip, clProv, clCopied, clTyped,
                     clMade, clWritten>>
  PROVE  ClipInv'
<1>1. LanesFine /\ Matched /\ Trust /\ clPending' = clPending
  BY DEF ClipInv, C!ownerVars
<1>2. WorkerShape(clWorker[p]) /\ ClOwner \in ClProcs /\ Listed(clResults')
  BY <1>1, ClipboardAssumption DEF LanesFine
<1>3. WorkerShape(r) /\ r.req = clWorker[p].req
  BY <1>2 DEF WorkerShape, ClWriting, ClReading
<1>4. LanesFine' /\ clWorker'[p] = r /\ \A q \in ClProcs \ {p} : clWorker'[q] = clWorker[q]
  BY <1>1, <1>2, <1>3, LanesKept
<1>5. Matched'
  <2>1. clWorker'[ClOwner].pc # "idle" =>
          clWorker[ClOwner].pc # "idle" /\ clWorker'[ClOwner].req = clWorker[ClOwner].req
    BY <1>2, <1>3, <1>4 DEF ClReading
  <2> QED BY <1>1, <2>1, MatchedStays
<1>6. Trust'
  <2>1. \A q \in ClProcs \ {p} : (HoldsLock(q)' => clLock' = q) /\ Recording(q)'
    BY <1>1, <1>4, OtherWorker DEF LanesFine
  <2>2. (HoldsLock(p)' => clLock' = p) /\ Recording(p)'
    BY <1>4 DEF HoldsLock, Recording
  <2>3. \A q \in ClProcs : (HoldsLock(q)' => clLock' = q) /\ Recording(q)'
    BY <2>1, <2>2
  <2> QED BY <1>1, <2>3 DEF Trust
<1> QED BY <1>4, <1>5, <1>6, WorkLeavesOwner

LEMMA ClipboardOpenRead ==
  ASSUME ClipInv, NEW p \in ClProcs, C!OpenRead(p), UNCHANGED <<C!ownerVars, clAsked>>
  PROVE  ClipInv'
<1>1. /\ LanesFine /\ Trust /\ clWorker[p].pc = "open" /\ clWorker[p].pc \in ClReading
      /\ clWorker[p].first = C!NoRecord
      /\ UNCHANGED <<clQueue, clResults, clClip, clProv, clCopied, clTyped, clMade, clWritten>>
  BY DEF ClipInv, C!OpenRead, LanesFine, WorkerShape, ClReading
<1>2. clLock \in {"free"} \cup ClProcs /\ "free" \notin ClProcs
  BY <1>1, ClipboardAssumption DEF LanesFine
<1>3. CASE /\ clLock = "free" /\ clLock' = p
           /\ clWorker' = [clWorker EXCEPT ![p] = C!Working("text", @.req, 0,
                             [gen |-> clClip.gen, payload |-> clClip.payload], C!NoText)]
  <2>1. PICK first : first = [gen |-> clClip.gen, payload |-> clClip.payload]
    OBVIOUS
  <2>2. PICK r : r = C!Working("text", clWorker[p].req, 0, first, C!NoText)
    OBVIOUS
  <2>3. clWorker' = [clWorker EXCEPT ![p] = r]
    BY <1>3, <2>1, <2>2
  <2>4. /\ r = [pc |-> r.pc, req |-> clWorker[p].req, gen |-> r.gen, first |-> r.first, text |-> r.text]
        /\ r.pc = "text"
    BY <2>2 DEF C!Working
  <2>5. \A q \in ClProcs \ {p} : clLock = q => clLock' = q
    BY <1>2, <1>3
  <2> QED BY <1>1, <1>3, <2>3, <2>4, <2>5, ReaderGoesOn
<1>4. CASE clLock # "free" /\ UNCHANGED clLock /\ C!Advance(p, "text")
  <2>1. PICK r : r = [pc |-> "text", req |-> clWorker[p].req, gen |-> clWorker[p].gen,
                      first |-> clWorker[p].first, text |-> clWorker[p].text]
    OBVIOUS
  <2>2. clWorker' = [clWorker EXCEPT ![p] = r]
    BY <1>1, <1>4, <2>1, Advancing
  <2>3. /\ r = [pc |-> r.pc, req |-> clWorker[p].req, gen |-> r.gen, first |-> r.first, text |-> r.text]
        /\ r.pc = "text" /\ r.first = C!NoRecord
    BY <1>1, <2>1
  <2> QED BY <1>1, <1>2, <1>4, <2>2, <2>3, ReaderGoesOn
<1> QED BY <1>3, <1>4 DEF C!OpenRead

LEMMA ReadEnds ==
  ASSUME ClipInv, NEW p \in ClProcs, clWorker[p].pc \in ClReading, NEW text, NEW notes \in BOOLEAN,
         C!AnswerRead(p, text, notes), C!Release(p), clTyped' \subseteq clMade,
         UNCHANGED <<C!ownerVars, clAsked, clQueue, clClip, clProv, clCopied, clMade, clWritten>>
  PROVE  ClipInv'
<1>1. LanesFine /\ Matched /\ Trust /\ clPending' = clPending
  BY DEF ClipInv, C!ownerVars
<1>2. clLock' \in {"free"} \cup ClProcs /\ (clLock # p => clLock' = clLock)
  BY <1>1, Releasing
<1>3. Matched'
  BY <1>1, AnswersRead
<1>4. LanesFine' /\ clWorker'[p] = C!Idle /\ \A q \in ClProcs \ {p} : clWorker'[q] = clWorker[q]
  BY <1>1, <1>2, Answering DEF C!AnswerRead
<1>5. Trust'
  BY <1>1, <1>2, <1>4, TrustAnswers
<1> QED BY <1>3, <1>4, <1>5, WorkLeavesOwner

LEMMA ClipboardReadText ==
  ASSUME ClipInv, NEW p \in ClProcs, C!ReadText(p), UNCHANGED <<C!ownerVars, clAsked>>
  PROVE  ClipInv'
<1>1. /\ LanesFine /\ Trust /\ clWorker[p].pc = "text" /\ clWorker[p].pc \in ClReading
      /\ UNCHANGED <<clQueue, clClip, clProv, clCopied, clTyped, clMade, clWritten>>
  BY DEF ClipInv, C!ReadText, ClReading
<1>2. CASE /\ clWorker' = [clWorker EXCEPT ![p] =
                C!Working("close", @.req, 0, @.first, clClip.text)]
           /\ UNCHANGED <<clResults, clLock>>
  <2>1. PICK r : r = C!Working("close", clWorker[p].req, 0, clWorker[p].first, clClip.text)
    OBVIOUS
  <2>2. clWorker' = [clWorker EXCEPT ![p] = r]
    BY <1>2, <2>1
  <2>3. /\ r = [pc |-> r.pc, req |-> clWorker[p].req, gen |-> r.gen, first |-> r.first, text |-> r.text]
        /\ r.pc = "close" /\ r.first = clWorker[p].first
    BY <2>1 DEF C!Working
  <2>4. r.first # C!NoRecord => clLock = p
    BY <1>1, <2>3 DEF Trust, HoldsLock
  <2>5. clLock' \in {"free"} \cup ClProcs /\ clLock' = clLock /\ clResults' = clResults
    BY <1>1, <1>2 DEF LanesFine
  <2>6. r.pc \in {"text", "close"} /\ (r.first # C!NoRecord => clLock' = p)
        /\ \A q \in ClProcs \ {p} : clLock = q => clLock' = q
    BY <2>3, <2>4, <2>5
  <2>7. clWorker[p].pc \in ClReading /\ clLock' \in {"free"} \cup ClProcs
    BY <1>1, <2>5
  <2>8. UNCHANGED <<clQueue, clResults, clClip, clProv, clCopied, clTyped, clMade, clWritten>>
    BY <1>1, <2>5
  <2> QED BY <2>2, <2>3, <2>6, <2>7, <2>8, ReaderGoesOn
<1>3. CASE C!AnswerRead(p, C!NoText, FALSE) /\ C!Release(p)
  <2>1. PICK notes \in BOOLEAN : notes = FALSE
    OBVIOUS
  <2>2. C!AnswerRead(p, C!NoText, notes)
    BY <1>3, <2>1
  <2> QED BY <1>1, <1>3, <2>2, ReadEnds DEF Trust
<1> QED BY <1>2, <1>3 DEF C!ReadText

LEMMA ClipboardCloseRead ==
  ASSUME ClipInv, NEW p \in ClProcs, C!CloseRead(p), UNCHANGED <<C!ownerVars, clAsked>>
  PROVE  ClipInv'
<1>1. /\ LanesFine /\ Trust /\ clWorker[p].pc = "close" /\ clWorker[p].pc \in ClReading
      /\ UNCHANGED <<clQueue, clClip, clProv, clCopied, clMade, clWritten>> /\ C!Release(p)
  BY DEF ClipInv, C!CloseRead, ClReading
<1> DEFINE first == clWorker[p].first
           text == clWorker[p].text
           second == IF clLock = p THEN [gen |-> clClip.gen, payload |-> clClip.payload] ELSE C!NoRecord
<1>2. PICK notes \in BOOLEAN : notes = C!VerifiedTyped(first, text, second, clProv)
  BY DEF C!VerifiedTyped
<1>3. /\ C!AnswerRead(p, text, notes)
      /\ clTyped' = IF notes THEN clTyped \cup {<<first.gen, text, first.payload>>} ELSE clTyped
  BY <1>2 DEF C!CloseRead
<1>4. ASSUME notes PROVE <<first.gen, text, first.payload>> \in clMade
  <2>1. /\ first = second /\ first # C!NoRecord /\ first.payload # C!NoPayload
        /\ first.payload.binding = text /\ clProv = C!Provenance(first.gen, first.payload)
    BY <1>2, <1>4 DEF C!VerifiedTyped
  <2>2. first.gen = clClip.gen /\ first.payload = clClip.payload /\ clClip.gen \in Nat
    BY <1>1, <2>1 DEF LanesFine
  <2>3. first.payload = [request |-> first.payload.request, binding |-> first.payload.binding]
    BY <1>1, <2>1, <2>2 DEF LanesFine
  <2>4. /\ clProv.gen = first.gen /\ clProv.request = first.payload.request
        /\ clProv.binding = first.payload.binding
    BY <2>1 DEF C!Provenance
  <2>5. clProv # C!NoRecord
    BY <2>2, <2>4 DEF C!NoRecord
  <2> QED BY <1>1, <2>1, <2>3, <2>4, <2>5 DEF Trust
<1>5. clTyped' \subseteq clMade
  BY <1>1, <1>3, <1>4 DEF Trust
<1> QED BY <1>1, <1>3, <1>5, ReadEnds

LEMMA ClipboardWork ==
  ASSUME ClipInv, NEW p \in ClProcs, C!Work(p) PROVE ClipInv'
<1>1. UNCHANGED <<C!ownerVars, clAsked>>
  BY DEF C!Work, C!counters
<1> QED BY <1>1, ClipboardTake, ClipboardWritePlain, ClipboardAcquireProvenance, ClipboardWriteTyped,
           ClipboardStoreProvenance, ClipboardVerifyTyped, ClipboardOpenRead, ClipboardReadText,
           ClipboardCloseRead DEF C!Work

\* Other programs: a new generation, never one that was confirmed.
LEMMA ClipboardForeignWrite == ASSUME ClipInv, C!ForeignWrite PROVE ClipInv'
<1>1. /\ LanesFine /\ Matched /\ Trust
      /\ UNCHANGED <<C!ownerVars, clAsked, clPending, clQueue, clWorker, clResults, clProv, clLock,
                     clCopied, clTyped, clMade, clWritten>>
  BY DEF ClipInv, C!ForeignWrite, C!ownerVars
<1>2. PICK text : \/ C!Put(text, C!NoPayload) \/ C!Put(text, clClip.payload)
  BY DEF C!ForeignWrite
<1>3. PICK payload : C!Put(text, payload) /\ (payload = C!NoPayload \/ payload = clClip.payload)
  BY <1>2
<1>4. clClip' = [gen |-> clClip.gen + 1, text |-> text, payload |-> payload] /\ clClip.gen \in Nat
  BY <1>1, <1>3 DEF C!Put, LanesFine
<1>5. LanesFine'
  <2>2. Listed(clResults')
    BY <1>1 DEF LanesFine
  <2>3. /\ clClip' = [gen |-> clClip'.gen, text |-> clClip'.text, payload |-> clClip'.payload]
        /\ clClip'.gen \in Nat /\ clClip'.payload = payload
    BY <1>4
  <2>4. clClip'.payload # C!NoPayload =>
          clClip'.payload = [request |-> clClip'.payload.request, binding |-> clClip'.payload.binding]
    BY <1>1, <1>3, <2>3 DEF LanesFine
  <2> QED BY <1>1, <2>2, <2>3, <2>4, LanesSame
<1>6. Matched'
  BY <1>1, MatchedStays
<1>7. Trust'
  <2>1. clClip'.gen = clClip.gen + 1
    BY <1>4
  <2>2. \A q \in ClProcs : (HoldsLock(q)' => clLock' = q) /\ Recording(q)'
    BY <1>1, <1>4, <2>1, OtherWorker
  <2>3. \A w \in clWritten' : w[1] \in 0 .. clClip'.gen
    BY <1>1, <1>4, <2>1 DEF Trust
  <2>4. <<clClip'.gen, clClip'.text, clClip'.payload>> \notin clWritten'
    BY <1>1, <1>4, <2>1 DEF Trust
  <2> QED BY <1>1, <2>2, <2>3, <2>4 DEF Trust
<1> QED BY <1>1, <1>5, <1>6, <1>7, WorkLeavesOwner

-----------------------------------------------------------------------------
(* The clipboard: the owner asks                                            *)

LEMMA TrustKept ==
  ASSUME Trust, UNCHANGED <<clWorker, clClip, clProv, clLock, clTyped, clMade, clWritten>>
  PROVE  Trust'
<1>1. \A p \in ClProcs : (HoldsLock(p)' <=> HoldsLock(p)) /\ (Recording(p)' <=> Recording(p))
  BY DEF HoldsLock, Recording
<1> QED BY <1>1 DEF Trust

\* A request joins the queue of its process.
LEMMA LanesAsk ==
  ASSUME LanesFine, NEW p \in ClProcs, NEW r, C!Ask(p, r),
         UNCHANGED <<clWorker, clResults, clClip, clLock>>
  PROVE  LanesFine' /\ clQueue' = [clQueue EXCEPT ![p] = Append(@, r)]
<1>1. clQueue' = [clQueue EXCEPT ![p] = Append(@, r)]
  BY DEF C!Ask
<1>2. DOMAIN clQueue' = ClProcs /\ clQueue'[p] = Append(clQueue[p], r)
      /\ \A q \in ClProcs \ {p} : clQueue'[q] = clQueue[q]
  BY <1>1 DEF LanesFine
<1>3. Listed(Append(clQueue[p], r))
  BY ListAppend DEF LanesFine
<1>4. \A q \in ClProcs : Listed(clQueue'[q])
  BY <1>2, <1>3 DEF LanesFine
<1>5. \A q \in ClProcs : WorkerShape(clWorker[q])'
  BY DEF LanesFine, WorkerShape
<1>6. Listed(clResults')
  BY DEF LanesFine
<1> QED BY <1>1, <1>2, <1>4, <1>5, <1>6 DEF LanesFine, Listed

LEMMA Asking ==
  ASSUME ClipInv, NEW r, NEW ask, r.id = clAsked + 1, C!Ask(ClOwner, r),
         clPending' = C!Remembered(ask), r.kind = "read" <=> ask.kind = "read",
         r.kind # "read" => ask.sources = r.sources, InEpisode(ask),
         UNCHANGED <<clBoard, clMode, clDraft, clGens, clEpisode, clRemoved, clLanded, clWorker,
                     clResults, clClip, clProv, clLock, clCopied, clTyped, clMade, clWritten>>
  PROVE  ClipInv'
<1>0. /\ OwnerTypes /\ PendingFine /\ LanesFine /\ Matched /\ Trust /\ ClOwner \in ClProcs
      /\ clAsked < ClMaxRequests /\ clAsked' = clAsked + 1 /\ ClMaxRequests \in Nat
      /\ clAsked \in 0 .. ClMaxRequests
  BY ClipboardAssumption DEF ClipInv, C!Ask, PendingFine
<1>1. LanesFine' /\ clQueue' = [clQueue EXCEPT ![ClOwner] = Append(@, r)]
  BY <1>0, LanesAsk
<1>2. /\ DOMAIN clPending' = DOMAIN clPending \cup {clAsked + 1}
      /\ clPending'[clAsked + 1] = ask
      /\ \A i \in DOMAIN clPending \ {clAsked + 1} : clPending'[i] = clPending[i]
  BY DEF C!Remembered
<1>3. clAsked + 1 \notin DOMAIN clPending
  BY <1>0 DEF PendingFine
<1>4. Asks(r)'
  BY <1>2 DEF Asks
<1>5. Matched'
  BY <1>0, <1>1, <1>2, <1>3, <1>4, MatchedAsks
<1>6. Trust'
  BY <1>0, TrustKept
<1>7. PendingFine'
  <2>1. \A q : InEpisode(q) => InEpisode(q)'
    BY DEF InEpisode
  <2>2. ASSUME NEW i \in DOMAIN clPending' PROVE InEpisode(clPending[i])'
    <3>1. PICK q : q = clPending'[i]
      OBVIOUS
    <3>2. InEpisode(q)
      <4>1. CASE i = clAsked + 1
        BY <1>2, <3>1, <4>1
      <4>2. CASE i # clAsked + 1
        <5>1. i \in DOMAIN clPending /\ q = clPending[i]
          BY <1>2, <3>1, <4>2
        <5> QED BY <1>0, <5>1 DEF PendingFine
      <4> QED BY <4>1, <4>2
    <3> QED BY <2>1, <3>1, <3>2 DEF InEpisode
  <2>3. clAsked' \in 0 .. ClMaxRequests /\ DOMAIN clPending' \subseteq 1 .. clAsked'
    BY <1>0, <1>2 DEF PendingFine
  <2> QED BY <2>2, <2>3 DEF PendingFine
<1>8. OwnerTypes'
  BY <1>0 DEF OwnerTypes
<1> QED BY <1>1, <1>5, <1>6, <1>7, <1>8 DEF ClipInv, C!CutRemovesOnlyWritten, C!PasteReachesItsEditor

LEMMA ClipboardRequest == ASSUME ClipInv, C!Request PROVE ClipInv'
<1>0. UNCHANGED <<clBoard, clMode, clDraft, clGens, clEpisode, clRemoved, clLanded, clWorker,
                  clResults, clClip, clProv, clLock, clCopied, clTyped, clMade, clWritten>>
  BY DEF C!Request, C!RequestClipboard, C!WriteSelection, C!ReadClipboard
<1>1. ASSUME NEW S \in SUBSET ClThoughts, NEW intent \in {"copy", "cut"}, C!RequestClipboard(S, intent)
      PROVE  ClipInv'
  <2>1. PICK r : r = C!WriteRequest(intent, C!Capture(S))
    OBVIOUS
  <2>2. PICK ask : ask = [kind |-> "board", intent |-> intent, sources |-> C!Capture(S)]
    OBVIOUS
  <2>3. C!Ask(ClOwner, r) /\ clPending' = C!Remembered(ask)
    BY <1>1, <2>1, <2>2 DEF C!RequestClipboard
  <2>4. /\ r.id = clAsked + 1 /\ r.kind = "write" /\ ask.kind = "board"
        /\ ask.sources = r.sources
    BY <2>1, <2>2 DEF C!WriteRequest
  <2>5. InEpisode(ask)
    BY <2>4 DEF InEpisode
  <2> QED BY <1>0, <2>3, <2>4, <2>5, Asking
<1>2. ASSUME NEW intent \in {"copy", "cut"}, C!WriteSelection(intent) PROVE ClipInv'
  <2>0. PICK sources : sources = [u \in {clMode.thought} |-> C!Shown(clMode.thought)]
    OBVIOUS
  <2>1. PICK r : r = C!WriteRequest(intent, sources)
    OBVIOUS
  <2>2. PICK ask : ask = [kind |-> "editor", intent |-> intent, sources |-> sources, gen |-> clGens.edit]
    OBVIOUS
  <2>3. C!Ask(ClOwner, r) /\ clPending' = C!Remembered(ask)
    BY <1>2, <2>0, <2>1, <2>2 DEF C!WriteSelection
  <2>4. /\ r.id = clAsked + 1 /\ r.kind = "write" /\ ask.kind = "editor"
        /\ ask.sources = r.sources
    BY <2>1, <2>2 DEF C!WriteRequest
  <2>5. InEpisode(ask)
    BY <2>4 DEF InEpisode
  <2> QED BY <1>0, <2>3, <2>4, <2>5, Asking
<1>3. ASSUME C!ReadClipboard PROVE ClipInv'
  <2>1. PICK r : r = [id |-> clAsked + 1, kind |-> "read"]
    OBVIOUS
  <2>2. PICK o : o = C!ReadOwner
    OBVIOUS
  <2>3. PICK ask : ask = [kind |-> "read", owner |-> o, episode |-> clEpisode]
    OBVIOUS
  <2>4. C!Ask(ClOwner, r) /\ clPending' = C!Remembered(ask)
    BY <1>3, <2>1, <2>2, <2>3 DEF C!ReadClipboard
  <2>5. /\ r.id = clAsked + 1 /\ r.kind = "read" /\ ask.kind = "read"
        /\ ask.owner = o /\ ask.episode = clEpisode
        /\ ask = [kind |-> "read", owner |-> ask.owner, episode |-> ask.episode]
    BY <2>1, <2>3
  <2>6. clMode \in ClModes /\ clGens.edit \in Nat /\ clGens.compose \in Nat
    BY DEF ClipInv, OwnerTypes
  <2>7. CASE clMode = [kind |-> "board"]
    <3>1. o = [kind |-> "board"]
      BY <2>2, <2>7 DEF C!ReadOwner
    <3> QED BY <1>0, <2>4, <2>5, <3>1, Asking DEF InEpisode, ClOwners
  <2>8. CASE clMode = [kind |-> "compose"]
    <3>1. o = [kind |-> "compose", gen |-> clGens.compose]
      BY <2>2, <2>8 DEF C!ReadOwner
    <3>2. InEpisode(ask)
      BY <2>5, <2>6, <2>8, <3>1 DEF InEpisode, ClOwners
    <3> QED BY <1>0, <2>4, <2>5, <3>2, Asking
  <2>9. CASE clMode \in [kind : {"edit"}, thought : ClThoughts]
    <3>1. o = [kind |-> "thought", thought |-> clMode.thought, gen |-> clGens.edit]
      BY <2>2, <2>9 DEF C!ReadOwner
    <3>2. InEpisode(ask)
      BY <2>5, <2>6, <2>9, <3>1 DEF InEpisode, ClOwners
    <3> QED BY <1>0, <2>4, <2>5, <3>2, Asking
  <2> QED BY <2>6, <2>7, <2>8, <2>9 DEF ClModes
<1> QED BY <1>1, <1>2, <1>3 DEF C!Request

LEMMA ClipboardPeerCopies == ASSUME ClipInv, C!PeerCopies PROVE ClipInv'
<1>0. /\ LanesFine /\ Matched /\ Trust /\ PendingFine /\ ClOwner \in ClProcs /\ ClMaxRequests \in Nat
      /\ UNCHANGED <<clBoard, clMode, clDraft, clGens, clPending, clEpisode, clRemoved, clLanded,
           clWorker, clResults, clClip, clProv, clLock, clCopied, clTyped, clMade, clWritten>>
  BY ClipboardAssumption DEF ClipInv, C!PeerCopies, C!ownerVars
<1>1. PICK p \in ClProcs \ {ClOwner} : \E t \in ClThoughts :
        C!Ask(p, C!WriteRequest("copy", [u \in {t} |-> [text |-> ClMaxText, notes |-> TRUE]]))
  BY DEF C!PeerCopies
<1>2. PICK t \in ClThoughts :
        C!Ask(p, C!WriteRequest("copy", [u \in {t} |-> [text |-> ClMaxText, notes |-> TRUE]]))
  BY <1>1
<1>3. PICK r : r = C!WriteRequest("copy", [u \in {t} |-> [text |-> ClMaxText, notes |-> TRUE]])
  OBVIOUS
<1>4. C!Ask(p, r)
  BY <1>2, <1>3
<1>5. LanesFine' /\ clQueue' = [clQueue EXCEPT ![p] = Append(@, r)]
  BY <1>0, <1>4, LanesAsk
<1>6. clQueue'[ClOwner] = clQueue[ClOwner]
  BY <1>0, <1>5 DEF LanesFine
<1>7. Matched'
  BY <1>0, <1>6, MatchedStays
<1>8. Trust'
  BY <1>0, TrustKept
<1>9. clAsked < ClMaxRequests /\ clAsked' = clAsked + 1
  BY <1>4 DEF C!Ask
<1>10. PendingFine'
  <2>1. clAsked' \in 0 .. ClMaxRequests /\ DOMAIN clPending' \subseteq 1 .. clAsked'
    BY <1>0, <1>9 DEF PendingFine
  <2>2. \A i \in DOMAIN clPending' : InEpisode(clPending[i])'
    BY <1>0 DEF PendingFine, InEpisode
  <2> QED BY <2>1, <2>2 DEF PendingFine
<1> QED BY <1>0, <1>5, <1>7, <1>8, <1>10
    DEF ClipInv, OwnerTypes, C!CutRemovesOnlyWritten, C!PasteReachesItsEditor

-----------------------------------------------------------------------------
(* The clipboard: the board of the owner                                    *)

LEMMA BoardText ==
  ASSUME NEW b, BoardFine(b), NEW t \in ClThoughts, NEW d \in 0 .. ClMaxText
  PROVE  /\ BoardFine([b EXCEPT !.value[t].text = d])
         /\ [b EXCEPT !.value[t].text = d].live = b.live
         /\ [b EXCEPT !.value[t].text = d].locked = b.locked
         /\ [b EXCEPT !.value[t].text = d].failed = b.failed
<1>1. PICK v : v = [b.value EXCEPT ![t].text = d]
  OBVIOUS
<1>2. v \in [ClThoughts -> ClValue]
  BY <1>1 DEF BoardFine, ClValue
<1>3. PICK c : c = [live |-> b.live, value |-> v, locked |-> b.locked, failed |-> b.failed]
  OBVIOUS
<1>4. [b EXCEPT !.value[t].text = d] = c
  BY <1>1, <1>3 DEF BoardFine
<1>5. BoardFine(c) /\ c.live = b.live /\ c.locked = b.locked /\ c.failed = b.failed
  BY <1>2, <1>3 DEF BoardFine
<1> QED BY <1>4, <1>5

LEMMA BoardValue ==
  ASSUME NEW b, BoardFine(b), NEW t \in ClThoughts, NEW d \in ClValue
  PROVE  BoardFine([b EXCEPT !.value[t] = d])
<1>1. PICK v : v = [b.value EXCEPT ![t] = d]
  OBVIOUS
<1>2. v \in [ClThoughts -> ClValue]
  BY <1>1 DEF BoardFine
<1>3. PICK c : c = [live |-> b.live, value |-> v, locked |-> b.locked, failed |-> b.failed]
  OBVIOUS
<1>4. [b EXCEPT !.value[t] = d] = c
  BY <1>1, <1>3 DEF BoardFine
<1>5. BoardFine(c)
  BY <1>2, <1>3 DEF BoardFine
<1> QED BY <1>4, <1>5

LEMMA BoardLive ==
  ASSUME NEW b, BoardFine(b), NEW S \in SUBSET ClThoughts
  PROVE  BoardFine([b EXCEPT !.live = S])
<1>1. PICK c : c = [live |-> S, value |-> b.value, locked |-> b.locked, failed |-> b.failed]
  OBVIOUS
<1>2. [b EXCEPT !.live = S] = c
  BY <1>1 DEF BoardFine
<1>3. BoardFine(c)
  BY <1>1 DEF BoardFine
<1> QED BY <1>2, <1>3

LEMMA BoardLocked ==
  ASSUME NEW b, BoardFine(b), NEW S \in SUBSET ClThoughts
  PROVE  BoardFine([b EXCEPT !.locked = S])
<1>1. PICK c : c = [live |-> b.live, value |-> b.value, locked |-> S, failed |-> b.failed]
  OBVIOUS
<1>2. [b EXCEPT !.locked = S] = c
  BY <1>1 DEF BoardFine
<1>3. BoardFine(c)
  BY <1>1 DEF BoardFine
<1> QED BY <1>2, <1>3

LEMMA BoardFailed ==
  ASSUME NEW b, BoardFine(b), NEW f \in BOOLEAN
  PROVE  BoardFine([b EXCEPT !.failed = f])
<1>1. PICK c : c = [live |-> b.live, value |-> b.value, locked |-> b.locked, failed |-> f]
  OBVIOUS
<1>2. [b EXCEPT !.failed = f] = c
  BY <1>1 DEF BoardFine
<1>3. BoardFine(c)
  BY <1>1 DEF BoardFine
<1> QED BY <1>2, <1>3

LEMMA BoardAdded ==
  ASSUME OwnerTypes, NEW t \in ClThoughts, NEW v \in ClValue
  PROVE  BoardFine(C!Added(t, v))
<1>1. PICK w : w = [clBoard.value EXCEPT ![t] = v]
  OBVIOUS
<1>2. w \in [ClThoughts -> ClValue]
  BY <1>1 DEF OwnerTypes, BoardFine
<1>3. PICK c : c = [live |-> clBoard.live \cup {t}, value |-> w, locked |-> clBoard.locked,
                    failed |-> clBoard.failed]
  OBVIOUS
<1>4. BoardFine(c)
  BY <1>2, <1>3 DEF OwnerTypes, BoardFine
<1>5. C!Added(t, v) = c
  BY <1>1, <1>3 DEF C!Added
<1> QED BY <1>4, <1>5

\* The edited thought is a thought.
LEMMA ModeShape ==
  ASSUME OwnerTypes
  PROVE  /\ clMode.kind \in {"board", "compose", "edit"}
         /\ clMode.kind = "board" => clMode = [kind |-> "board"]
         /\ clMode.kind = "compose" => clMode = [kind |-> "compose"]
         /\ clMode.kind = "edit" => clMode.thought \in ClThoughts
BY DEF OwnerTypes, ClModes

LEMMA FlushedFine ==
  ASSUME OwnerTypes
  PROVE  /\ BoardFine(C!Flushed) /\ C!Flushed.live = clBoard.live
         /\ C!Flushed.locked = clBoard.locked /\ C!Flushed.failed = clBoard.failed
<1>1. CASE clDraft = C!NoDraft
  BY <1>1 DEF C!Flushed, OwnerTypes
<1>2. CASE clDraft # C!NoDraft
  <2>1. clMode.thought \in ClThoughts /\ clDraft \in 0 .. ClMaxText /\ BoardFine(clBoard)
    BY <1>2, ModeShape DEF OwnerTypes
  <2>2. C!Flushed = [clBoard EXCEPT !.value[clMode.thought].text = clDraft]
    BY <1>2 DEF C!Flushed
  <2> QED BY <2>1, <2>2, BoardText
<1> QED BY <1>1, <1>2

\* What keeps a paste in its episode.
LEMMA EpisodeKept ==
  ASSUME OwnerTypes, clGens'.edit \in Nat, clGens'.compose \in Nat,
         clGens.edit <= clGens'.edit, clGens.compose <= clGens'.compose,
         clGens'.compose = clGens.compose /\ clMode.kind = "compose" =>
           clMode'.kind = "compose" /\ clEpisode' = clEpisode,
         clGens'.edit = clGens.edit /\ clMode'.kind = "edit" =>
           clMode.kind = "edit" /\ clEpisode' = clEpisode
  PROVE  \A q : InEpisode(q) => InEpisode(q)'
<1> SUFFICES ASSUME NEW q, InEpisode(q) PROVE InEpisode(q)'
  OBVIOUS
<1>0. clGens.edit \in Nat /\ clGens.compose \in Nat
  BY DEF OwnerTypes
<1>1. CASE q.kind # "read"
  BY <1>1 DEF InEpisode
<1>2. CASE q.kind = "read"
  <2>1. /\ q.owner \in ClOwners
        /\ q.owner.kind = "compose" => q.owner.gen \in Nat
        /\ q.owner.kind = "thought" => q.owner.gen \in Nat
    BY <1>2 DEF InEpisode, ClOwners
  <2>2. q.owner.kind = "compose" =>
         /\ q.owner.gen <= clGens'.compose
         /\ q.owner.gen = clGens'.compose => clMode'.kind = "compose" /\ q.episode = clEpisode'
    BY <1>0, <1>2, <2>1 DEF InEpisode
  <2>3. q.owner.kind = "thought" =>
         /\ q.owner.gen <= clGens'.edit
         /\ q.owner.gen = clGens'.edit /\ clMode'.kind = "edit" => q.episode = clEpisode'
    BY <1>0, <1>2, <2>1 DEF InEpisode
  <2> QED BY <1>2, <2>1, <2>2, <2>3 DEF InEpisode
<1> QED BY <1>1, <1>2

-----------------------------------------------------------------------------
(* The clipboard: the owner completes                                       *)

\* A cut on the board takes away what the confirmed write holds.
LEMMA ClipboardFinish ==
  ASSUME OwnerTypes, NEW q, C!FinishClipboard(q), clGens' = clGens
  PROVE  /\ OwnerTypes'
         /\ clMode.kind = "compose" => clMode'.kind = "compose" /\ clEpisode' = clEpisode
         /\ clMode'.kind = "edit" => clMode.kind = "edit" /\ clEpisode' = clEpisode
         /\ clRemoved' \subseteq clRemoved \cup C!Pairs(q.sources)
         /\ clRemoved' = clRemoved \/ q.intent = "cut"
<1>0. BoardFine(clBoard) /\ BoardFine(C!Flushed) /\ clMode \in ClModes
  BY FlushedFine DEF OwnerTypes
<1> DEFINE S == DOMAIN q.sources
           goes == /\ q.intent = "cut" /\ C!CanFlush /\ ~clBoard.failed
                   /\ C!StillMatches(C!Flushed, q.sources) /\ S \cap clBoard.locked = {}
<1>1. CASE goes
  <2>1. /\ clBoard' = [C!Flushed EXCEPT !.live = @ \ S]
        /\ clRemoved' = clRemoved \cup {<<t, C!Flushed.value[t]>> : t \in S}
        /\ clDraft' = C!NoDraft /\ clMode' = C!AfterRemoval(C!Flushed, S)
        /\ clEpisode' = IF clMode' = clMode THEN clEpisode ELSE clEpisode + 1
    BY <1>1 DEF C!FinishClipboard
  <2>2. PICK b : b = C!Flushed
    OBVIOUS
  <2>3. BoardFine([b EXCEPT !.live = b.live \ S])
    <3>1. BoardFine(b) /\ b.live \ S \in SUBSET ClThoughts
      BY <1>0, <2>2 DEF BoardFine
    <3> QED BY <3>1, BoardLive
  <2>4. BoardFine(clBoard')
    BY <2>1, <2>2, <2>3
  <2>5. clMode' \in {[kind |-> "compose"], [kind |-> "board"], clMode}
        /\ (clMode' = [kind |-> "board"] => clMode' = clMode \/ clMode.kind = "edit")
    BY <2>1 DEF C!AfterRemoval
  <2>6. clMode' \in ClModes
    BY <1>0, <2>5 DEF ClModes
  <2>7. clMode.kind = "compose" => clMode'.kind = "compose" /\ clEpisode' = clEpisode
    <3>1. ASSUME clMode.kind = "compose" PROVE clMode' = clMode
      BY <2>5, <3>1, ModeShape
    <3> QED BY <2>1, <3>1
  <2>8. clMode'.kind = "edit" => clMode' = clMode
    BY <2>5
  <2>9. \A t \in S : C!Flushed.value[t] = q.sources[t]
    BY <1>1 DEF C!StillMatches
  <2>10. {<<t, C!Flushed.value[t]>> : t \in S} \subseteq C!Pairs(q.sources)
    BY <2>9 DEF C!Pairs
  <2>11. OwnerTypes'
    BY <2>1, <2>4, <2>6 DEF OwnerTypes, BoardFine
  <2> QED BY <1>1, <2>1, <2>7, <2>8, <2>10, <2>11
<1>2. CASE ~ goes
  <2>1. /\ IF q.intent = "cut" /\ C!CanFlush THEN clBoard' = C!Flushed /\ clDraft' = C!NoDraft
           ELSE UNCHANGED <<clBoard, clDraft>>
        /\ UNCHANGED <<clRemoved, clMode, clEpisode>>
    BY <1>2 DEF C!FinishClipboard
  <2>2. BoardFine(clBoard')
    BY <1>0, <2>1
  <2>3. clDraft' \in {C!NoDraft, clDraft}
    BY <2>1
  <2>4. OwnerTypes'
    BY <2>1, <2>2, <2>3 DEF OwnerTypes, BoardFine
  <2> QED BY <2>1, <2>4
<1> QED BY <1>1, <1>2

LEMMA ClipboardFinishEditor ==
  ASSUME OwnerTypes, NEW q, C!FinishEditorClipboard(q), clGens' = clGens
  PROVE  /\ OwnerTypes' /\ clMode' = clMode /\ clEpisode' = clEpisode
         /\ clRemoved' \subseteq clRemoved \cup C!Pairs(q.sources)
         /\ clRemoved' = clRemoved \/ q.intent = "cut"
<1>0. BoardFine(clBoard) /\ clMode \in ClModes
  BY DEF OwnerTypes
<1> DEFINE goes == /\ q.intent = "cut" /\ ~clBoard.failed /\ C!EditorUnchanged(q)
                   /\ clMode.thought \notin clBoard.locked
<1>1. CASE goes
  <2>1. /\ clBoard' = [clBoard EXCEPT !.value[clMode.thought].text = 0]
        /\ clRemoved' = clRemoved \cup {<<clMode.thought, C!Shown(clMode.thought)>>}
        /\ clDraft' = C!NoDraft /\ UNCHANGED <<clMode, clEpisode>>
    BY <1>1 DEF C!FinishEditorClipboard
  <2>2. /\ clMode.thought \in DOMAIN q.sources /\ clMode.kind = "edit"
        /\ C!Shown(clMode.thought) = q.sources[clMode.thought]
    BY <1>1 DEF C!EditorUnchanged
  <2>3. clMode.thought \in ClThoughts /\ 0 \in 0 .. ClMaxText
    BY <2>2, ModeShape, ClipboardAssumption
  <2>4. BoardFine(clBoard')
    BY <1>0, <2>1, <2>3, BoardText
  <2>5. OwnerTypes'
    BY <2>1, <2>4 DEF OwnerTypes, BoardFine
  <2>6. <<clMode.thought, C!Shown(clMode.thought)>> \in C!Pairs(q.sources)
    BY <2>2 DEF C!Pairs
  <2> QED BY <1>1, <2>1, <2>5, <2>6
<1>2. CASE ~ goes
  <2>1. UNCHANGED <<clBoard, clRemoved, clDraft, clMode, clEpisode>>
    BY <1>2 DEF C!FinishEditorClipboard
  <2> QED BY <2>1 DEF OwnerTypes, BoardFine
<1> QED BY <1>1, <1>2

LEMMA ClipboardCompleteWrite ==
  ASSUME OwnerTypes, C!CutRemovesOnlyWritten, NEW q, NEW w, C!CompleteWrite(q, w),
         w = "native" => C!Pairs(q.sources) \subseteq clCopied, clCopied' = clCopied
  PROVE  /\ OwnerTypes' /\ (\A a : InEpisode(a) => InEpisode(a)')
         /\ C!CutRemovesOnlyWritten' /\ clLanded' = clLanded
<1>0. clGens' = clGens /\ clLanded' = clLanded /\ clGens.edit \in Nat /\ clGens.compose \in Nat
  BY DEF C!CompleteWrite, OwnerTypes
<1>1. /\ OwnerTypes'
      /\ clMode.kind = "compose" => clMode'.kind = "compose" /\ clEpisode' = clEpisode
      /\ clMode'.kind = "edit" => clMode.kind = "edit" /\ clEpisode' = clEpisode
      /\ clRemoved' \subseteq clRemoved \cup C!Pairs(q.sources)
      /\ clRemoved' = clRemoved \/ (q.intent = "cut" /\ C!Confirmed(q, w))
  <2>1. CASE C!Confirmed(q, w) /\ q.kind = "board"
    BY <1>0, <2>1, ClipboardFinish DEF C!CompleteWrite
  <2>2. CASE C!Confirmed(q, w) /\ q.kind # "board"
    BY <1>0, <2>2, ClipboardFinishEditor DEF C!CompleteWrite
  <2>3. CASE ~ C!Confirmed(q, w)
    <3>1. UNCHANGED <<clBoard, clRemoved, clDraft, clMode, clEpisode>>
      BY <2>3 DEF C!CompleteWrite
    <3> QED BY <1>0, <3>1 DEF OwnerTypes, BoardFine
  <2> QED BY <2>1, <2>2, <2>3
<1>2. \A a : InEpisode(a) => InEpisode(a)'
  BY <1>0, <1>1, EpisodeKept
<1>3. C!CutRemovesOnlyWritten'
  BY <1>1 DEF C!CutRemovesOnlyWritten, C!Confirmed
<1> QED BY <1>0, <1>1, <1>2, <1>3

\* An answer read into a compose makes it an editor, and the pastes asked from it follow.
LEMMA ClipboardMaterialize ==
  ASSUME OwnerTypes, NEW v \in ClValue, NEW asks, C!Materialize(v, asks),
         \A i \in DOMAIN asks : InEpisode(asks[i])
  PROVE  /\ OwnerTypes' /\ DOMAIN clPending' = DOMAIN asks
         /\ \A i \in DOMAIN asks : /\ InEpisode(clPending[i])'
                                   /\ clPending'[i].kind = "read" <=> asks[i].kind = "read"
                                   /\ asks[i].kind # "read" => clPending'[i] = asks[i]
<1>1. PICK t \in ClThoughts \ clBoard.live :
        /\ clBoard' = C!Added(t, v) /\ clMode' = [kind |-> "edit", thought |-> t]
        /\ clPending' = C!Rebound(asks, t)
  BY DEF C!Materialize
<1>2. /\ clMode.kind = "compose" /\ clGens' = [edit |-> clGens.edit + 1, compose |-> clGens.compose + 1]
      /\ clDraft' = clDraft /\ clEpisode' = clEpisode /\ clGens.edit \in Nat /\ clGens.compose \in Nat
      /\ clDraft = C!NoDraft
  BY DEF C!Materialize, OwnerTypes
<1>3. BoardFine(clBoard')
  BY <1>1, BoardAdded
<1>4. /\ clGens'.edit = clGens.edit + 1 /\ clGens'.compose = clGens.compose + 1
      /\ clGens' = [edit |-> clGens'.edit, compose |-> clGens'.compose]
      /\ clMode' \in ClModes /\ clMode'.kind = "edit" /\ clMode'.thought = t
  BY <1>1, <1>2 DEF ClModes
<1>5. OwnerTypes'
  BY <1>2, <1>3, <1>4 DEF OwnerTypes, BoardFine
<1>6. \A a : InEpisode(a) => InEpisode(a)'
  BY <1>2, <1>4, EpisodeKept
<1>7. DOMAIN clPending' = DOMAIN asks
  BY <1>1 DEF C!Rebound
<1>8. ASSUME NEW i \in DOMAIN asks
      PROVE  /\ InEpisode(clPending[i])' /\ (clPending'[i].kind = "read" <=> asks[i].kind = "read")
             /\ asks[i].kind # "read" => clPending'[i] = asks[i]
  <2> DEFINE here == asks[i].kind = "read" /\ asks[i].owner = [kind |-> "compose", gen |-> clGens.compose]
  <2>1. CASE ~ here
    <3>1. clPending'[i] = asks[i]
      BY <1>1, <2>1 DEF C!Rebound
    <3>2. PICK a : a = asks[i]
      OBVIOUS
    <3>3. InEpisode(a)' /\ clPending'[i] = a
      BY <1>6, <3>1, <3>2
    <3> QED BY <3>1, <3>3 DEF InEpisode
  <2>2. CASE here
    <3>1. clPending'[i] = [asks[i] EXCEPT !.owner =
                             [kind |-> "thought", thought |-> t, gen |-> clGens.edit + 1]]
      BY <1>1, <2>2 DEF C!Rebound
    <3>2. PICK o : o = [kind |-> "thought", thought |-> t, gen |-> clGens.edit + 1]
      OBVIOUS
    <3>3. asks[i] = [kind |-> "read", owner |-> asks[i].owner, episode |-> asks[i].episode]
          /\ asks[i].episode = clEpisode
      BY <2>2 DEF InEpisode
    <3>4. clPending'[i] = [kind |-> "read", owner |-> o, episode |-> clEpisode]
      <4>1. [asks[i] EXCEPT !.owner = o] = [kind |-> "read", owner |-> o, episode |-> asks[i].episode]
        BY <3>3
      <4> QED BY <3>1, <3>2, <3>3, <4>1
    <3>5. PICK a : a = [kind |-> "read", owner |-> o, episode |-> clEpisode]
      OBVIOUS
    <3>6. o \in ClOwners /\ o.kind = "thought" /\ o.gen = clGens'.edit
      BY <1>2, <1>4, <3>2 DEF ClOwners
    <3>7. /\ a = [kind |-> "read", owner |-> a.owner, episode |-> a.episode] /\ a.owner = o
          /\ a.kind = "read" /\ a.episode = clEpisode'
      BY <1>2, <3>5
    <3>8. clGens'.edit \in Nat
      BY <1>2, <1>4
    <3>9. InEpisode(a)' /\ clPending'[i] = a
      BY <3>4, <3>5, <3>6, <3>7, <3>8 DEF InEpisode
    <3> QED BY <2>2, <3>7, <3>9 DEF InEpisode
  <2> QED BY <2>1, <2>2
<1> QED BY <1>5, <1>7, <1>8

\* What is left of the requests once one was answered.
ClLeft(id) == [i \in DOMAIN clPending \ {id} |-> clPending[i]]

\* The other requests stay what they are, at most asked from another place.
OthersKept(id) ==
  /\ DOMAIN clPending' = DOMAIN clPending \ {id}
  /\ \A i \in DOMAIN clPending \ {id} :
       /\ InEpisode(clPending[i])' /\ (clPending'[i].kind = "read" <=> clPending[i].kind = "read")
       /\ clPending[i].kind # "read" => clPending'[i] = clPending[i]

LEMMA ClipboardCompleteRead ==
  ASSUME OwnerTypes, C!PasteReachesItsEditor, \A i \in DOMAIN clPending : InEpisode(clPending[i]),
         NEW id \in DOMAIN clPending, NEW r, r.notes \in BOOLEAN, clPending[id].kind = "read",
         C!CompleteRead(id, r)
  PROVE  /\ OwnerTypes' /\ C!PasteReachesItsEditor' /\ clRemoved' = clRemoved
         /\ OthersKept(id)
<1>0. PICK v \in ClValue : v = C!Pasted(r.notes)
  <2>1. ClMaxText \in 0 .. ClMaxText
    BY ClipboardAssumption
  <2>2. C!Pasted(r.notes) \in ClValue
    BY <2>1 DEF C!Pasted, ClValue
  <2> QED BY <2>2
<1>1. PICK rest : rest = ClLeft(id)
  OBVIOUS
<1>2. /\ DOMAIN rest = DOMAIN clPending \ {id}
      /\ \A i \in DOMAIN rest : rest[i] = clPending[i] /\ InEpisode(rest[i])
  BY <1>1 DEF ClLeft
<1> DEFINE refused == ~C!OwnerIsCurrent(clPending[id].owner) \/ r.read = C!NoText
           full == clMode.kind # "edit" /\ (clBoard.failed \/ ClThoughts = clBoard.live)
<1>3. \/ clPending' = rest /\ UNCHANGED <<clBoard, clMode, clDraft, clGens, clEpisode, clLanded>>
      \/ ~refused /\ clMode.kind = "board" /\ C!CreateFrom(v) /\ clPending' = rest
      \/ C!Materialize(v, rest) /\ UNCHANGED clLanded
      \/ ~refused /\ C!PasteIntoThought(clPending[id], v) /\ clPending' = rest
  <2>1. CASE refused \/ full
    BY <2>1, <1>1 DEF C!CompleteRead, ClLeft
  <2>2. CASE ~ (refused \/ full)
    <3>1. \/ clMode.kind = "board" /\ C!CreateFrom(C!Pasted(r.notes)) /\ clPending' = ClLeft(id)
          \/ C!Materialize(C!Pasted(r.notes), ClLeft(id)) /\ UNCHANGED clLanded
          \/ C!PasteIntoThought(clPending[id], C!Pasted(r.notes)) /\ clPending' = ClLeft(id)
      BY <2>2 DEF C!CompleteRead, ClLeft
    <3> HIDE DEF refused, full
    <3> QED BY <2>2, <3>1, <1>0, <1>1
  <2> QED BY <2>1, <2>2
<1>4. clRemoved' = clRemoved
  BY DEF C!CompleteRead
<1>5. ASSUME clPending' = rest, \A a : InEpisode(a) => InEpisode(a)'
      PROVE  /\ DOMAIN clPending' = DOMAIN clPending \ {id}
             /\ \A i \in DOMAIN clPending \ {id} :
                  InEpisode(clPending[i])' /\ clPending'[i] = clPending[i]
  <2>1. ASSUME NEW i \in DOMAIN clPending \ {id}
        PROVE  InEpisode(clPending[i])' /\ clPending'[i] = clPending[i]
    <3>1. PICK a : a = clPending[i]
      OBVIOUS
    <3>2. InEpisode(a)' /\ clPending'[i] = a
      BY <1>2, <1>5, <3>1
    <3> QED BY <3>1, <3>2 DEF InEpisode
  <2> QED BY <1>2, <1>5, <2>1
<1>6. CASE clPending' = rest /\ UNCHANGED <<clBoard, clMode, clDraft, clGens, clEpisode, clLanded>>
  <2>1. \A a : InEpisode(a) => InEpisode(a)'
    BY <1>6 DEF InEpisode
  <2> QED BY <1>4, <1>5, <1>6, <2>1 DEF OthersKept, OwnerTypes, BoardFine, C!PasteReachesItsEditor
<1>7. CASE ~refused /\ clMode.kind = "board" /\ C!CreateFrom(v) /\ clPending' = rest
  <2>1. /\ \E t \in ClThoughts \ clBoard.live : clBoard' = C!Added(t, v)
        /\ UNCHANGED <<clMode, clDraft, clGens, clEpisode, clLanded>>
    BY <1>7 DEF C!CreateFrom
  <2>2. BoardFine(clBoard')
    BY <2>1, BoardAdded
  <2>3. OwnerTypes'
    BY <2>1, <2>2 DEF OwnerTypes, BoardFine
  <2>4. \A a : InEpisode(a) => InEpisode(a)'
    BY <2>1 DEF InEpisode
  <2> QED BY <1>4, <1>5, <1>7, <2>1, <2>3, <2>4 DEF OthersKept, C!PasteReachesItsEditor
<1>8. CASE C!Materialize(v, rest) /\ UNCHANGED clLanded
  <2>1. /\ OwnerTypes' /\ DOMAIN clPending' = DOMAIN rest
        /\ \A i \in DOMAIN rest : /\ InEpisode(clPending[i])'
                                  /\ clPending'[i].kind = "read" <=> rest[i].kind = "read"
                                  /\ rest[i].kind # "read" => clPending'[i] = rest[i]
    BY <1>2, <1>8, ClipboardMaterialize
  <2> QED BY <1>2, <1>4, <1>8, <2>1 DEF OthersKept, C!PasteReachesItsEditor
<1>9. CASE ~refused /\ C!PasteIntoThought(clPending[id], v) /\ clPending' = rest
  <2>1. /\ clMode.kind = "edit" /\ clDraft' = (IF clBoard.failed THEN v.text ELSE C!NoDraft)
        /\ IF clBoard.failed THEN UNCHANGED clBoard
           ELSE clBoard' = [clBoard EXCEPT !.value[clMode.thought] = v]
        /\ clLanded' = clLanded \cup {<<clPending[id].episode, clEpisode>>}
        /\ UNCHANGED <<clMode, clGens, clEpisode>>
    BY <1>9 DEF C!PasteIntoThought
  <2>2. BoardFine(clBoard) /\ clMode.thought \in ClThoughts
    BY <2>1, ModeShape DEF OwnerTypes
  <2>3. BoardFine(clBoard')
    BY <2>1, <2>2, BoardValue
  <2>4. clDraft' \in {C!NoDraft} \cup 0 .. ClMaxText
    BY <2>1 DEF ClValue
  <2>5. OwnerTypes'
    BY <2>1, <2>3, <2>4 DEF OwnerTypes, BoardFine
  <2>6. \A a : InEpisode(a) => InEpisode(a)'
    BY <2>1 DEF InEpisode
  <2>7. clPending[id].owner.kind = "thought" /\ clPending[id].owner.gen = clGens.edit
    BY <1>9, <2>1 DEF C!OwnerIsCurrent
  <2>8. clPending[id].episode = clEpisode
    BY <2>1, <2>7 DEF InEpisode
  <2>9. C!PasteReachesItsEditor'
    BY <2>1, <2>8 DEF C!PasteReachesItsEditor
  <2> QED BY <1>4, <1>5, <1>9, <2>5, <2>6, <2>9 DEF OthersKept
<1> QED BY <1>3, <1>6, <1>7, <1>8, <1>9

LEMMA ClipboardComplete == ASSUME ClipInv, C!Complete PROVE ClipInv'
<1>0. /\ OwnerTypes /\ PendingFine /\ LanesFine /\ Matched /\ Trust /\ C!CutRemovesOnlyWritten
      /\ C!PasteReachesItsEditor /\ clResults # << >> /\ clResults' = Tail(clResults)
      /\ UNCHANGED <<clQueue, clWorker, clClip, clProv, clLock, clCopied, clTyped, clMade, clWritten,
                     clAsked>>
  BY DEF ClipInv, C!Complete, C!counters
<1>1. PICK r : r = Head(clResults)
  OBVIOUS
<1>2. Answers(r) /\ Listed(Tail(clResults))
  <2>1. r = clResults[1] /\ 1 \in 1 .. Len(clResults) /\ Listed(Tail(clResults))
    BY <1>0, <1>1, ListTail DEF LanesFine
  <2> QED BY <1>0, <2>1 DEF Matched
<1>3. r.id \in DOMAIN clPending
  BY <1>2 DEF Answers
<1>4. PICK q : q = clPending[r.id]
  OBVIOUS
<1>5. LanesFine'
  <2>1. Listed(clResults')
    BY <1>0, <1>2
  <2> QED BY <1>0, <2>1, LanesSame DEF LanesFine
<1>6. Trust'
  BY <1>0, TrustKept
<1>7. /\ OwnerTypes' /\ C!CutRemovesOnlyWritten' /\ C!PasteReachesItsEditor'
      /\ OthersKept(r.id)
  <2>0. \A i \in DOMAIN clPending : InEpisode(clPending[i])
    BY <1>0 DEF PendingFine
  <2>1. CASE q.kind = "read"
    <3>1. C!CompleteRead(r.id, r) /\ r.notes \in BOOLEAN
      BY <1>1, <1>2, <1>4, <2>1 DEF C!Complete, Answers
    <3>2. /\ OwnerTypes' /\ C!PasteReachesItsEditor' /\ clRemoved' = clRemoved
          /\ OthersKept(r.id)
      <4>1. PICK id \in DOMAIN clPending : id = r.id
        BY <1>3
      <4>2. clPending[id].kind = "read" /\ C!CompleteRead(id, r)
        BY <1>4, <2>1, <3>1, <4>1
      <4>3. OwnerTypes /\ C!PasteReachesItsEditor
        BY <1>0
      <4>4. OwnerTypes' /\ C!PasteReachesItsEditor' /\ clRemoved' = clRemoved /\ OthersKept(id)
        BY <2>0, <3>1, <4>2, <4>3, ClipboardCompleteRead
      <4> QED BY <4>1, <4>4
    <3>3. C!CutRemovesOnlyWritten'
      BY <1>0, <3>2 DEF C!CutRemovesOnlyWritten
    <3> QED BY <3>2, <3>3
  <2>2. CASE q.kind # "read"
    <3>1. /\ C!CompleteWrite(q, r.write)
          /\ clPending' = [i \in DOMAIN clPending \ {r.id} |-> clPending[i]]
      BY <1>1, <1>4, <2>2 DEF C!Complete
    <3>2. r.write = "native" => C!Pairs(q.sources) \subseteq clCopied
      BY <1>2, <1>4, <2>2 DEF Answers
    <3>3. /\ OwnerTypes' /\ (\A a : InEpisode(a) => InEpisode(a)')
          /\ C!CutRemovesOnlyWritten' /\ clLanded' = clLanded
      BY <1>0, <3>1, <3>2, ClipboardCompleteWrite
    <3>4. C!PasteReachesItsEditor'
      BY <1>0, <3>3 DEF C!PasteReachesItsEditor
    <3>5. ASSUME NEW i \in DOMAIN clPending \ {r.id}
          PROVE  InEpisode(clPending[i])' /\ clPending'[i] = clPending[i]
      <4>1. PICK a : a = clPending[i]
        OBVIOUS
      <4>2. InEpisode(a)' /\ clPending'[i] = a
        BY <2>0, <3>1, <3>3, <4>1
      <4> QED BY <4>1, <4>2 DEF InEpisode
    <3>6. DOMAIN clPending' = DOMAIN clPending \ {r.id}
      BY <3>1
    <3> QED BY <3>3, <3>4, <3>5, <3>6 DEF OthersKept
  <2> QED BY <2>1, <2>2
<1>8. Matched'
  BY <1>0, <1>1, <1>7, MatchedCompletes DEF OthersKept
<1>9. PendingFine'
  BY <1>0, <1>7 DEF PendingFine, OthersKept
<1> QED BY <1>5, <1>6, <1>7, <1>8, <1>9 DEF ClipInv

\* What else happens to the board, the mode and the draft leaves the lanes alone.
LEMMA MeanwhileMoves ==
  ASSUME ClipInv, UNCHANGED <<C!laneVars, clAsked, clRemoved, clLanded, clPending>>,
         OwnerTypes', \A a : InEpisode(a) => InEpisode(a)'
  PROVE  ClipInv'
<1>1. /\ PendingFine /\ LanesFine /\ Matched /\ Trust
      /\ UNCHANGED <<clQueue, clWorker, clResults, clClip, clProv, clLock, clCopied, clTyped,
                     clMade, clWritten, clAsked, clPending, clRemoved, clLanded>>
  BY DEF ClipInv, C!laneVars
<1>2. LanesFine'
  BY <1>1, LanesSame DEF LanesFine
<1>3. Matched' /\ Trust'
  BY <1>1, MatchedStays, TrustKept
<1>4. ASSUME NEW i \in DOMAIN clPending PROVE InEpisode(clPending[i])'
  <2>1. PICK a : a = clPending[i]
    OBVIOUS
  <2>2. InEpisode(a)' /\ clPending'[i] = a
    BY <1>1, <1>4, <2>1 DEF PendingFine
  <2> QED BY <2>1, <2>2 DEF InEpisode
<1>5. PendingFine'
  BY <1>1, <1>4 DEF PendingFine
<1> QED BY <1>1, <1>2, <1>3, <1>5 DEF ClipInv, C!CutRemovesOnlyWritten, C!PasteReachesItsEditor

LEMMA ClipboardMeanwhile == ASSUME ClipInv, C!Meanwhile PROVE ClipInv'
<1>0. /\ OwnerTypes /\ BoardFine(clBoard) /\ clMode \in ClModes /\ clGens.edit \in Nat
      /\ clGens.compose \in Nat /\ clDraft \in {C!NoDraft} \cup 0 .. ClMaxText
      /\ clGens = [edit |-> clGens.edit, compose |-> clGens.compose]
      /\ clDraft # C!NoDraft => clMode.kind = "edit"
      /\ UNCHANGED <<C!laneVars, clAsked, clRemoved, clLanded>>
  BY DEF ClipInv, OwnerTypes, C!Meanwhile
<1>1. /\ BoardFine(C!Flushed) /\ [kind |-> "board"] \in ClModes /\ [kind |-> "compose"] \in ClModes
      /\ \A t \in ClThoughts : [kind |-> "edit", thought |-> t] \in ClModes
  BY <1>0, FlushedFine DEF ClModes
<1>2. ASSUME C!Type PROVE ClipInv'
  <2>1. /\ clMode.kind = "edit" /\ clDraft' \in 1 .. ClMaxText
        /\ UNCHANGED <<clBoard, clMode, clGens, clPending, clEpisode>>
    BY <1>2 DEF C!Type
  <2>2. clDraft' \in 0 .. ClMaxText
    BY <2>1, ClipboardAssumption
  <2>3. OwnerTypes'
    BY <1>0, <2>1, <2>2 DEF OwnerTypes, BoardFine
  <2>4. \A a : InEpisode(a) => InEpisode(a)'
    BY <2>1 DEF InEpisode
  <2> QED BY <1>0, <2>1, <2>3, <2>4, MeanwhileMoves
<1>3. ASSUME C!Flush PROVE ClipInv'
  <2>1. /\ clBoard' = C!Flushed /\ clDraft' = C!NoDraft
        /\ UNCHANGED <<clMode, clGens, clPending, clEpisode>>
    BY <1>3 DEF C!Flush
  <2>2. BoardFine(clBoard')
    BY <1>1, <2>1
  <2>3. OwnerTypes'
    BY <1>0, <2>1, <2>2 DEF OwnerTypes, BoardFine
  <2>4. \A a : InEpisode(a) => InEpisode(a)'
    BY <2>1 DEF InEpisode
  <2> QED BY <1>0, <2>1, <2>3, <2>4, MeanwhileMoves
<1>4. ASSUME C!ExitEdit PROVE ClipInv'
  <2>1. /\ clMode.kind = "edit" /\ clBoard' = C!Flushed /\ clDraft' = C!NoDraft
        /\ clMode' = [kind |-> "board"] /\ UNCHANGED <<clGens, clPending, clEpisode>>
    BY <1>4 DEF C!ExitEdit
  <2>2. BoardFine(clBoard')
    BY <1>1, <2>1
  <2>3. OwnerTypes'
    BY <1>0, <1>1, <2>1, <2>2 DEF OwnerTypes, BoardFine
  <2>4. \A a : InEpisode(a) => InEpisode(a)'
    BY <1>0, <2>1, EpisodeKept
  <2> QED BY <1>0, <2>1, <2>3, <2>4, MeanwhileMoves
<1>5. ASSUME C!EnterCompose PROVE ClipInv'
  <2>1. /\ clMode.kind = "board" /\ clMode' = [kind |-> "compose"]
        /\ UNCHANGED <<clBoard, clDraft, clGens, clPending>>
    BY <1>5 DEF C!EnterCompose
  <2>2. clDraft = C!NoDraft
    BY <1>0, <2>1
  <2>3. OwnerTypes'
    BY <1>0, <1>1, <2>1, <2>2 DEF OwnerTypes, BoardFine
  <2>4. \A a : InEpisode(a) => InEpisode(a)'
    BY <1>0, <2>1, EpisodeKept
  <2> QED BY <1>0, <2>1, <2>3, <2>4, MeanwhileMoves
<1>6. ASSUME C!ExitCompose PROVE ClipInv'
  <2>1. /\ clMode.kind = "compose" /\ clMode' = [kind |-> "board"]
        /\ clGens' = [clGens EXCEPT !.compose = @ + 1]
        /\ UNCHANGED <<clBoard, clDraft, clPending, clEpisode>>
    BY <1>6 DEF C!ExitCompose
  <2>2. clGens' = [edit |-> clGens.edit, compose |-> clGens.compose + 1]
    BY <1>0, <2>1
  <2>3. /\ clGens'.edit = clGens.edit /\ clGens'.compose = clGens.compose + 1
        /\ clGens' = [edit |-> clGens'.edit, compose |-> clGens'.compose]
    BY <2>2
  <2>4. OwnerTypes'
    BY <1>0, <1>1, <2>1, <2>3 DEF OwnerTypes, BoardFine
  <2>5. \A a : InEpisode(a) => InEpisode(a)'
    BY <1>0, <2>1, <2>3, EpisodeKept
  <2> QED BY <1>0, <2>1, <2>4, <2>5, MeanwhileMoves
<1>7. ASSUME C!ComposeType PROVE ClipInv'
  <2>0. PICK v \in ClValue : v = C!Pasted(FALSE)
    <3>1. ClMaxText \in 0 .. ClMaxText
      BY ClipboardAssumption
    <3>2. C!Pasted(FALSE) \in ClValue
      BY <3>1 DEF C!Pasted, ClValue
    <3> QED BY <3>2
  <2>1. PICK asks : asks = clPending
    OBVIOUS
  <2>2. C!Materialize(v, asks) /\ PendingFine /\ LanesFine /\ Matched /\ Trust
    BY <1>7, <2>0, <2>1 DEF C!ComposeType, ClipInv
  <2>3. \A i \in DOMAIN asks : InEpisode(asks[i])
    BY <2>1, <2>2 DEF PendingFine
  <2>4. /\ OwnerTypes' /\ DOMAIN clPending' = DOMAIN asks
        /\ \A i \in DOMAIN asks : /\ InEpisode(clPending[i])'
                                  /\ clPending'[i].kind = "read" <=> asks[i].kind = "read"
                                  /\ asks[i].kind # "read" => clPending'[i] = asks[i]
    BY <1>0, <2>2, <2>3, ClipboardMaterialize
  <2>5. UNCHANGED <<clQueue, clWorker, clResults, clClip, clProv, clLock, clCopied, clTyped,
                    clMade, clWritten, clAsked, clRemoved, clLanded>>
    BY <1>0 DEF C!laneVars
  <2>6. LanesFine'
    BY <2>2, <2>5, LanesSame DEF LanesFine
  <2>7. Matched'
    <3>1. \A q : Asks(q) => Asks(q)'
      BY <2>1, <2>4 DEF Asks
    <3>2. \A x : Answers(x) => Answers(x)'
      BY <2>1, <2>4, <2>5 DEF Answers
    <3>3. \A i \in 1 .. Len(clQueue'[ClOwner]) : Asks(clQueue[ClOwner][i])'
      <4>1. ASSUME NEW i \in 1 .. Len(clQueue[ClOwner]) PROVE Asks(clQueue[ClOwner][i])'
        <5>1. PICK q : q = clQueue[ClOwner][i]
          OBVIOUS
        <5>2. Asks(q)' /\ clQueue'[ClOwner][i] = q
          BY <2>2, <2>5, <3>1, <4>1, <5>1 DEF Matched
        <5> QED BY <5>1, <5>2 DEF Asks
      <4> QED BY <2>5, <4>1
    <3>4. \A i \in 1 .. Len(clResults') : Answers(clResults[i])'
      <4>1. ASSUME NEW i \in 1 .. Len(clResults) PROVE Answers(clResults[i])'
        <5>1. PICK x : x = clResults[i]
          OBVIOUS
        <5>2. Answers(x)' /\ clResults'[i] = x
          BY <2>2, <2>5, <3>2, <4>1, <5>1 DEF Matched
        <5> QED BY <5>1, <5>2 DEF Answers
      <4> QED BY <2>5, <4>1
    <3>5. clWorker'[ClOwner].pc # "idle" => Asks(clWorker[ClOwner].req)'
      <4>1. PICK q : q = clWorker[ClOwner].req
        OBVIOUS
      <4>2. clWorker[ClOwner].pc # "idle" => Asks(q)' /\ clWorker'[ClOwner].req = q
        BY <2>2, <2>5, <3>1, <4>1 DEF Matched
      <4> QED BY <2>5, <4>1, <4>2 DEF Asks
    <3> QED BY <2>2, <2>5, <3>3, <3>4, <3>5 DEF Matched, Apart
  <2>8. Trust'
    BY <2>2, <2>5, TrustKept
  <2>9. PendingFine'
    BY <2>1, <2>2, <2>4, <2>5 DEF PendingFine
  <2> QED BY <2>4, <2>5, <2>6, <2>7, <2>8, <2>9
      DEF ClipInv, C!CutRemovesOnlyWritten, C!PasteReachesItsEditor
<1>8. ASSUME C!ToggleStorage PROVE ClipInv'
  <2>1. /\ clBoard' = [clBoard EXCEPT !.failed = ~@]
        /\ UNCHANGED <<clMode, clDraft, clGens, clPending, clEpisode>>
    BY <1>8 DEF C!ToggleStorage
  <2>2. PICK f \in BOOLEAN : f = ~clBoard.failed
    OBVIOUS
  <2>3. clBoard' = [clBoard EXCEPT !.failed = f]
    BY <2>1, <2>2
  <2>4. BoardFine(clBoard')
    BY <1>0, <2>3, BoardFailed
  <2>5. OwnerTypes'
    BY <1>0, <2>1, <2>4 DEF OwnerTypes, BoardFine
  <2>6. \A a : InEpisode(a) => InEpisode(a)'
    BY <2>1 DEF InEpisode
  <2> QED BY <1>0, <2>1, <2>5, <2>6, MeanwhileMoves
<1>9. ASSUME NEW t \in ClThoughts, C!EnterEdit(t) PROVE ClipInv'
  <2>1. /\ clMode.kind = "board" /\ clMode' = [kind |-> "edit", thought |-> t]
        /\ clGens' = [clGens EXCEPT !.edit = @ + 1] /\ UNCHANGED <<clBoard, clDraft, clPending>>
    BY <1>9 DEF C!EnterEdit
  <2>2. clGens' = [edit |-> clGens.edit + 1, compose |-> clGens.compose]
    BY <1>0, <2>1
  <2>3. /\ clGens'.edit = clGens.edit + 1 /\ clGens'.compose = clGens.compose
        /\ clGens' = [edit |-> clGens'.edit, compose |-> clGens'.compose]
    BY <2>2
  <2>4. OwnerTypes'
    BY <1>0, <1>1, <2>1, <2>3 DEF OwnerTypes, BoardFine
  <2>5. \A a : InEpisode(a) => InEpisode(a)'
    BY <1>0, <2>1, <2>3, EpisodeKept
  <2> QED BY <1>0, <2>1, <2>4, <2>5, MeanwhileMoves
<1>10. ASSUME NEW t \in ClThoughts, C!RemoteChange(t) PROVE ClipInv'
  <2>1. /\ clDraft # C!NoDraft => t # clMode.thought
        /\ \/ \E x \in 1 .. ClMaxText : clBoard' = [clBoard EXCEPT !.value[t].text = x] /\ UNCHANGED clMode
           \/ /\ clBoard' = [clBoard EXCEPT !.live = @ \ {t}]
              /\ clMode' = IF clMode.kind = "edit" /\ clMode.thought = t THEN [kind |-> "board"] ELSE clMode
        /\ UNCHANGED <<clDraft, clGens, clPending, clEpisode>>
    BY <1>10 DEF C!RemoteChange
  <2>2. /\ BoardFine(clBoard')
        /\ \/ clMode' = clMode
           \/ clMode' = [kind |-> "board"] /\ clMode.kind = "edit" /\ clMode.thought = t
    <3>1. ASSUME NEW x \in 1 .. ClMaxText, clBoard' = [clBoard EXCEPT !.value[t].text = x]
          PROVE  BoardFine(clBoard')
      <4>1. x \in 0 .. ClMaxText
        BY ClipboardAssumption
      <4> QED BY <1>0, <3>1, <4>1, BoardText
    <3>2. ASSUME clBoard' = [clBoard EXCEPT !.live = @ \ {t}] PROVE BoardFine(clBoard')
      <4>1. clBoard.live \ {t} \in SUBSET ClThoughts
        BY <1>0 DEF BoardFine
      <4> QED BY <1>0, <3>2, <4>1, BoardLive
    <3> QED BY <2>1, <3>1, <3>2
  <2>3. clDraft # C!NoDraft => clMode' = clMode
    BY <2>1, <2>2
  <2>4. OwnerTypes'
    BY <1>0, <1>1, <2>1, <2>2, <2>3 DEF OwnerTypes, BoardFine
  <2>5. \A a : InEpisode(a) => InEpisode(a)'
    BY <1>0, <2>1, <2>2, EpisodeKept
  <2> QED BY <1>0, <2>1, <2>4, <2>5, MeanwhileMoves
<1>11. ASSUME NEW t \in ClThoughts, C!ToggleLock(t) PROVE ClipInv'
  <2>1. /\ clBoard' = [clBoard EXCEPT !.locked = IF t \in @ THEN @ \ {t} ELSE @ \cup {t}]
        /\ UNCHANGED <<clMode, clDraft, clGens, clPending, clEpisode>>
    BY <1>11 DEF C!ToggleLock
  <2>2. PICK S : S = IF t \in clBoard.locked THEN clBoard.locked \ {t} ELSE clBoard.locked \cup {t}
    OBVIOUS
  <2>3. S \in SUBSET ClThoughts /\ clBoard' = [clBoard EXCEPT !.locked = S]
    BY <1>0, <2>1, <2>2 DEF BoardFine
  <2>4. BoardFine(clBoard')
    BY <1>0, <2>3, BoardLocked
  <2>5. OwnerTypes'
    BY <1>0, <2>1, <2>4 DEF OwnerTypes, BoardFine
  <2>6. \A a : InEpisode(a) => InEpisode(a)'
    BY <2>1 DEF InEpisode
  <2> QED BY <1>0, <2>1, <2>5, <2>6, MeanwhileMoves
<1> QED BY <1>2, <1>3, <1>4, <1>5, <1>6, <1>7, <1>8, <1>9, <1>10, <1>11 DEF C!Meanwhile

LEMMA ClipboardStep == ASSUME ClipInv, [Next]_vars PROVE ClipInv'
<1>1. CASE UNCHANGED clVars
  <2>1. UNCHANGED <<C!laneVars, clAsked, clRemoved, clLanded, clPending, clBoard, clMode, clDraft,
                    clGens, clEpisode>>
    BY <1>1 DEF clVars, C!laneVars
  <2>2. OwnerTypes' /\ \A a : InEpisode(a) => InEpisode(a)'
    BY <2>1 DEF ClipInv, OwnerTypes, BoardFine, InEpisode
  <2> QED BY <2>1, <2>2, MeanwhileMoves
<1>2. CASE C!Next
  BY <1>2, ClipboardRequest, ClipboardPeerCopies, ClipboardWork, ClipboardForeignWrite,
     ClipboardComplete, ClipboardMeanwhile DEF C!Next
<1> QED BY <1>1, <1>2
       DEF Next, vars, TransferNext, ClipboardNext, ExportNext, AttachmentsNext, ChildProcessNext

\* The clipboard, for any thoughts, texts, number of processes and requests (ui/app/clipboard,
\* adapters/clipboard): a cut takes away only the text that a confirmed write put on the
\* clipboard, a paste lands in the editing episode that asked for it, annotations are read only
\* from what a Proqi process wrote, and a confirmed copy keeps the record that vouches for it.
THEOREM ClipboardIsSafe == Spec => []ClipboardSafe
<1>1. Init => ClipInv
  BY ClipboardInit DEF Init
<1>2. ClipInv => ClipboardSafe
  <2> SUFFICES ASSUME ClipInv PROVE C!ClipboardSafe
    BY DEF ClipboardSafe
  <2>1. C!TypeOK
    <3>1. DOMAIN clPending \subseteq 1 .. ClMaxRequests
      BY ClipboardAssumption DEF ClipInv, PendingFine
    <3>2. ClValue = C!Value
      BY DEF ClValue, C!Value
    <3>3. clMode.kind \in {"board", "compose", "edit"}
      BY ModeShape DEF ClipInv
    <3> QED BY <3>1, <3>2, <3>3 DEF C!TypeOK, ClipInv, OwnerTypes, BoardFine, LanesFine
  <2>2. C!TypedCopyIsTrusted
    BY DEF ClipInv, Trust, C!TypedCopyIsTrusted
  <2> QED BY <2>1, <2>2 DEF C!ClipboardSafe, ClipInv
<1> QED BY <1>1, <1>2, ClipboardStep, PTL DEF Spec

=============================================================================

----------------------------- MODULE InputLane -----------------------------
(***************************************************************************)
(* The input lane of the terminal (adapters/terminal/input).               *)
(*                                                                         *)
(* A reader thread polls the terminal and hands what it reads to a         *)
(* supervisor thread, which numbers the deliberate input, passes it on to  *)
(* the event loop without losing any of it, keeps only the newest resize,  *)
(* and declares the reader unresponsive when it has been silent for too    *)
(* long while the supervisor itself kept running.                          *)
(***************************************************************************)
EXTENDS Integers, Sequences, SequencesExt

CONSTANTS StallLimit,      \* SOURCE_STALL_LIMIT, in ticks of the monitor
          SourceCapacity,  \* of the channel from reader to supervisor
          OutCapacity,     \* of the channel from supervisor to event loop
          MaxKeys,         \* bound on deliberate input
          MaxResizes,      \* bound on resizes
          MaxFaults        \* bound on a stalling or failing terminal

VARIABLES tty,         \* events the terminal holds
          reader,      \* stage of the reader thread and the message it holds
          source,      \* channel from the reader
          supervisor,  \* stage of the supervisor and the message it sends
          resize,      \* pending_resize, 0 for none
          numbered,    \* latest_sequence
          silent,      \* age of last_response, at most StallLimit
          gap,         \* age of last_observation, at most StallLimit
          out,         \* channel to the event loop
          stop,        \* the lane was asked to stop
          received,    \* numbered input the event loop took, in order
          size,        \* the size the event loop knows
          failure,     \* what the event loop was told
          typed, resized, faults

vars == <<tty, reader, source, supervisor, resize, numbered, silent, gap, out, stop,
          received, size, failure, typed, resized, faults>>
terminalVars == <<typed, resized, faults>>
loopVars == <<stop, received, size, failure>>

Key(k) == [kind |-> "key", value |-> k]
Resize(s) == [kind |-> "resize", value |-> s]
Unbound == [kind |-> "unbound", value |-> 0]     \* translate gives nothing
Responsive == [kind |-> "responsive", value |-> 0]
Failed(why) == [kind |-> "failed", value |-> why]
Nothing == [kind |-> "none", value |-> 0]

Init ==
  /\ tty = <<>>
  /\ reader = [stage |-> "poll", message |-> Nothing]
  /\ source = <<>>
  /\ supervisor = [stage |-> "flush", message |-> Nothing]
  /\ resize = 0 /\ numbered = 0 /\ silent = 0 /\ gap = 0
  /\ out = <<>> /\ stop = FALSE
  /\ received = <<>> /\ size = 0 /\ failure = "none"
  /\ typed = 0 /\ resized = 0 /\ faults = 0

(***************************************************************************)
(* The terminal and the clock.                                             *)
(***************************************************************************)

Type ==
  /\ typed < MaxKeys /\ typed' = typed + 1
  /\ tty' = Append(tty, Key(typed + 1))
  /\ UNCHANGED <<reader, source, supervisor, resize, numbered, silent, gap, out, loopVars,
                 resized, faults>>

ResizeTerminal ==
  /\ resized < MaxResizes /\ resized' = resized + 1
  /\ \E e \in {Resize(resized + 1)} : tty' = tty \o <<e, Unbound>>
  /\ UNCHANGED <<reader, source, supervisor, resize, numbered, silent, gap, out, loopVars,
                 typed, faults>>

Older(age) == IF age < StallLimit THEN age + 1 ELSE age
Tick ==
  /\ supervisor.stage # "ended"
  /\ silent' = Older(silent) /\ gap' = Older(gap)
  /\ UNCHANGED <<tty, reader, source, supervisor, resize, numbered, out, loopVars,
                 terminalVars>>

(***************************************************************************)
(* The reader thread.                                                      *)
(***************************************************************************)

SourceStop == supervisor.stage = "ended"

\* read_source: poll, and read when there is something to read.
Poll ==
  /\ reader.stage = "poll" /\ ~SourceStop
  /\ IF tty = <<>>
     THEN reader' = [stage |-> "deliver", message |-> Responsive] /\ UNCHANGED tty
     ELSE reader' = [stage |-> "deliver", message |-> Head(tty)] /\ tty' = Tail(tty)
  /\ UNCHANGED <<source, supervisor, resize, numbered, silent, gap, out, loopVars,
                 terminalVars>>

\* classify_input_error: end of file, a revoked terminal, another error.
PollFails ==
  /\ reader.stage = "poll" /\ ~SourceStop
  /\ faults < MaxFaults /\ faults' = faults + 1
  /\ reader' = [stage |-> "deliver", message |-> Failed("io")]
  /\ UNCHANGED <<tty, source, supervisor, resize, numbered, silent, gap, out, loopVars,
                 typed, resized>>

\* The terminal library never returns.
PollHangs ==
  /\ reader.stage = "poll" /\ ~SourceStop
  /\ faults < MaxFaults /\ faults' = faults + 1
  /\ reader' = [stage |-> "hung", message |-> Nothing]
  /\ UNCHANGED <<tty, source, supervisor, resize, numbered, silent, gap, out, loopVars,
                 typed, resized>>

\* send_source: waits while the channel is full and nobody asked it to stop.
SendSource ==
  /\ reader.stage = "deliver"
  /\ Len(source) < SourceCapacity
  /\ source' = Append(source, reader.message)
  /\ reader' = [stage |-> IF reader.message.kind = "failed" THEN "exited" ELSE "poll",
                message |-> Nothing]
  /\ UNCHANGED <<tty, supervisor, resize, numbered, silent, gap, out, loopVars, terminalVars>>

ReaderStops ==
  /\ SourceStop
  /\ \/ reader.stage = "poll"
     \/ reader.stage = "deliver" /\ Len(source) = SourceCapacity
  /\ reader' = [stage |-> "exited", message |-> Nothing]
  /\ UNCHANGED <<tty, source, supervisor, resize, numbered, silent, gap, out, loopVars,
                 terminalVars>>

(***************************************************************************)
(* The supervisor thread.                                                  *)
(***************************************************************************)

Room == Len(out) < OutCapacity
At(stage) == [stage |-> stage, message |-> Nothing]
Sending(m) == [stage |-> "send", message |-> m]

\* flush_resize: the newest resize goes out when there is room, else it waits.
FlushResize ==
  /\ supervisor.stage = "flush"
  /\ \/ stop /\ supervisor' = At("ended") /\ UNCHANGED <<resize, out>>
     \/ /\ ~stop /\ supervisor' = At("receive")
        /\ IF resize # 0 /\ Room
           THEN out' = Append(out, [seq |-> 0, input |-> Resize(resize)]) /\ resize' = 0
           ELSE UNCHANGED <<resize, out>>
  /\ UNCHANGED <<tty, reader, source, numbered, silent, gap, loopVars, terminalVars>>

\* A resize replaces the one that still waits.
\* Mutated form: the one that waits stays.
CoalesceFirst(s) == IF resize = 0 THEN s ELSE resize
Coalesce(s) == s

\* SourceLease::observe with a response, then deliver.
Deliver ==
  /\ supervisor.stage = "receive" /\ source # <<>>
  /\ source' = Tail(source)
  /\ LET m == Head(source) IN
       \/ /\ m.kind \in {"responsive", "unbound"}
          /\ supervisor' = At("flush") /\ silent' = 0 /\ gap' = 0
          /\ UNCHANGED <<resize, numbered>>
       \/ /\ m.kind = "resize"
          /\ resize' = Coalesce(m.value)
          /\ supervisor' = At("flush") /\ silent' = 0 /\ gap' = 0
          /\ UNCHANGED numbered
       \/ /\ m.kind = "key"
          /\ numbered' = numbered + 1
          /\ supervisor' = Sending([seq |-> numbered + 1, input |-> m])
          /\ silent' = 0 /\ gap' = 0
          /\ UNCHANGED resize
       \/ /\ m.kind = "failed"
          /\ supervisor' = Sending([seq |-> 0, input |-> m])
          /\ UNCHANGED <<resize, numbered, silent, gap>>
  /\ UNCHANGED <<tty, reader, out, loopVars, terminalVars>>

\* recv_timeout ran out: a gap in the supervisor's own running renews the lease,
\* a silent reader is unresponsive.
Observe ==
  IF gap >= StallLimit THEN "renew"
  ELSE IF silent >= StallLimit THEN "unresponsive" ELSE "continue"
ReceiveTimeout ==
  /\ supervisor.stage = "receive" /\ source = <<>> /\ reader.stage # "exited"
  /\ gap' = 0
  /\ CASE Observe = "renew" -> silent' = 0 /\ supervisor' = At("flush")
       [] Observe = "unresponsive" ->
            /\ supervisor' = Sending([seq |-> 0, input |-> Failed("unresponsive")])
            /\ UNCHANGED silent
       [] OTHER -> supervisor' = At("flush") /\ UNCHANGED silent
  /\ UNCHANGED <<tty, reader, source, resize, numbered, out, loopVars, terminalVars>>

ReaderGone ==
  /\ supervisor.stage = "receive" /\ source = <<>> /\ reader.stage = "exited"
  /\ supervisor' = Sending([seq |-> 0, input |-> Failed("io")])
  /\ UNCHANGED <<tty, reader, source, resize, numbered, silent, gap, out, loopVars,
                 terminalVars>>

\* send_lossless: waits for room, gives up only when the lane is stopped.
\* Mutated form: a full channel drops the input, as it does a resize.
SendLossy ==
  /\ supervisor.stage = "send"
  /\ out' = IF Room THEN Append(out, supervisor.message) ELSE out
  /\ supervisor' = At(IF supervisor.message.input.kind = "failed" THEN "ended" ELSE "flush")
  /\ UNCHANGED <<tty, reader, source, resize, numbered, silent, gap, loopVars, terminalVars>>
SendLossless ==
  /\ supervisor.stage = "send"
  /\ stop \/ Room
  /\ out' = IF stop THEN out ELSE Append(out, supervisor.message)
  /\ supervisor' = At(IF supervisor.message.input.kind = "failed" THEN "ended" ELSE "flush")
  /\ UNCHANGED <<tty, reader, source, resize, numbered, silent, gap, loopVars, terminalVars>>

(***************************************************************************)
(* The event loop.                                                         *)
(***************************************************************************)

Take ==
  /\ out # <<>> /\ ~stop
  /\ out' = Tail(out)
  /\ LET m == Head(out) IN
       \/ /\ m.input.kind = "key"
          /\ received' = Append(received, [seq |-> m.seq, key |-> m.input.value])
          /\ UNCHANGED <<size, failure, stop>>
       \/ m.input.kind = "resize" /\ size' = m.input.value /\ UNCHANGED <<received, failure, stop>>
       \/ /\ m.input.kind = "failed"
          /\ failure' = m.input.value /\ stop' = TRUE
          /\ UNCHANGED <<received, size>>
  /\ UNCHANGED <<tty, reader, source, supervisor, resize, numbered, silent, gap, terminalVars>>

RequestStop ==
  /\ ~stop /\ stop' = TRUE
  /\ UNCHANGED <<tty, reader, source, supervisor, resize, numbered, silent, gap, out,
                 received, size, failure, terminalVars>>

Supervise == FlushResize \/ Deliver \/ ReceiveTimeout \/ ReaderGone \/ SendLossless
Next ==
  \/ Type \/ ResizeTerminal \/ Tick
  \/ Poll \/ PollFails \/ PollHangs \/ SendSource \/ ReaderStops
  \/ FlushResize \/ Deliver \/ ReceiveTimeout \/ ReaderGone \/ SendLossless
  \/ Take \/ RequestStop

Fairness ==
  /\ WF_vars(Poll) /\ WF_vars(SendSource) /\ WF_vars(ReaderStops)
  /\ WF_vars(Supervise) /\ WF_vars(Take)
Spec == Init /\ [][Next]_vars /\ Fairness

(***************************************************************************)
(* Properties.                                                             *)
(***************************************************************************)

TypeOK ==
  /\ reader.stage \in {"poll", "deliver", "hung", "exited"}
  /\ supervisor.stage \in {"flush", "receive", "send", "ended"}
  /\ Len(source) <= SourceCapacity /\ Len(out) <= OutCapacity
  /\ resize \in 0..MaxResizes /\ numbered \in 0..MaxKeys /\ size \in 0..MaxResizes
  /\ silent \in 0..StallLimit /\ gap \in 0..StallLimit

\* What the event loop has received is exactly the first keys typed, in the order
\* they were typed, numbered without a gap, whatever resizes, full channels and
\* stalls came between: the update prompt and the release notes decide by those
\* numbers which key was typed before they were shown.
KeysAreLossless ==
  \A i \in DOMAIN received : received[i] = [seq |-> i, key |-> i]

\* However many resizes were coalesced behind a full channel, the loop ends up
\* with the size the terminal has, unless the lane stops or the terminal fails.
Disturbed == stop \/ reader.stage \in {"hung", "exited"}
SizeSettles == <>[]Disturbed \/ []<>(size = resized)

\* The input lane (adapters/terminal/input): no key is lost or reordered.
InputLaneSafe == TypeOK /\ KeysAreLossless
=============================================================================

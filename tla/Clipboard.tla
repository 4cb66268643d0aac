------------------------------ MODULE Clipboard ------------------------------
(***************************************************************************)
(* Copy, cut and paste through the external lane (ui/app/clipboard,        *)
(* application/mutations, adapters/clipboard, runner/external_results).    *)
(*                                                                         *)
(* The owner captures what it asks to be written, the external worker      *)
(* performs one request after the other, and the answer is applied to a    *)
(* board that has moved on.  A thought's value is [text, notes]: notes     *)
(* stands for its annotations.  Clipboard text is a function from the      *)
(* copied thoughts to their texts.  Several Proqi processes share the      *)
(* desktop clipboard and one provenance record; Owner is the process whose *)
(* board is modelled, the others only copy.                                *)
(***************************************************************************)
EXTENDS Integers, Sequences, FiniteSets

CONSTANTS Thoughts,     \* thought identities
          Procs, Owner, \* Proqi processes, and the one whose board is modelled
          MaxText,      \* texts are 1..MaxText, 0 is empty text
          MaxRequests,  \* bound on clipboard requests
          MaxForeign,   \* bound on clipboard changes by other programs
          MaxChanges    \* bound on edits, mode changes and storage failures

VARIABLES board,    \* [live, value, locked, failed]
          mode,     \* [kind, thought]
          draft,    \* text typed and not yet flushed, or NoDraft
          gens,     \* [edit, compose]: the owner generations
          pending,  \* request -> what the owner remembers of it
          queue,    \* per process: requests the external worker has not taken
          worker,   \* per process: what the worker is doing
          results,  \* answers on their way to the owner
          clip,     \* desktop clipboard: [gen, text, payload]
          prov,     \* provenance record on disk, or NoRecord
          lock,     \* holder of the provenance lock
          asked, foreign, changes, \* bounded counters
          episode,  \* ghost: the current editing episode
          copied,   \* ghost: <<thought, value>> confirmed on the clipboard
          removed,  \* ghost: <<thought, value>> taken away by a cut
          landed,   \* ghost: <<episode asking, episode receiving>> of pastes into editors
          typed,    \* ghost: <<generation, text, payload>> read with annotations
          made,     \* ghost: <<generation, text, payload>> put there by a typed write
          written   \* ghost: those of made that their writer confirmed

ownerVars == <<board, mode, draft, gens, pending, episode, removed, landed>>
laneVars == <<queue, worker, results, clip, prov, lock, copied, typed, made, written>>
counters == <<asked, foreign, changes>>
vars == <<ownerVars, laneVars, counters>>

NoDraft == -1
NoRecord == [gen |-> -1]
NoText == << >>
NoPayload == [request |-> 0]
\* A worker in a step of a request: the generation it wrote, or what it read so far.
Working(pc, req, gen, first, text) ==
  [pc |-> pc, req |-> req, gen |-> gen, first |-> first, text |-> text]
Idle == Working("idle", NoText, 0, NoRecord, NoText)
Value == [text : 0..MaxText, notes : BOOLEAN]

Init ==
  /\ \E notes \in BOOLEAN : board = [live |-> Thoughts,
       value |-> [t \in Thoughts |-> [text |-> 1, notes |-> notes]],
       locked |-> {}, failed |-> FALSE]
  /\ mode = [kind |-> "board"] /\ draft = NoDraft
  /\ gens = [edit |-> 0, compose |-> 0] /\ pending = << >>
  /\ queue = [p \in Procs |-> << >>] /\ worker = [p \in Procs |-> Idle]
  /\ results = << >>
  /\ clip = [gen |-> 0, text |-> NoText, payload |-> NoPayload]
  /\ prov = NoRecord /\ lock = "free"
  /\ asked = 0 /\ foreign = 0 /\ changes = 0 /\ episode = 0
  /\ copied = {} /\ removed = {} /\ landed = {} /\ typed = {} /\ made = {} /\ written = {}

------------------------------------------------------------------------------
(* The owner asks.                                                         *)

\* Request identities are fresh over all processes.
Ask(p, request) ==
  /\ asked < MaxRequests /\ asked' = asked + 1
  /\ queue' = [queue EXCEPT ![p] = Append(@, request)]
WriteRequest(intent, sources) ==
  [id |-> asked + 1, kind |-> "write", intent |-> intent, sources |-> sources]
\* What the owner remembers of the request it makes now.
Remembered(ask) == [i \in DOMAIN pending \cup {asked + 1} |-> IF i = asked + 1 THEN ask ELSE pending[i]]

Capture(S) == [t \in S |-> board.value[t]]

\* CopyThoughts, CutThoughts: every selected thought is live; a cut is refused
\* while one of them is locked or the storage has failed.
RequestClipboard(S, intent) ==
  /\ mode.kind = "board" /\ S \subseteq board.live /\ S # {}
  /\ intent = "cut" => S \cap board.locked = {} /\ ~board.failed
  /\ Ask(Owner, WriteRequest(intent, Capture(S)))
  /\ pending' = Remembered([kind |-> "board", intent |-> intent, sources |-> Capture(S)])
  /\ UNCHANGED <<board, mode, draft, gens, episode, removed, landed>>

\* What the editor shows of the thought it edits.
Shown(t) == [board.value[t] EXCEPT !.text = IF draft = NoDraft THEN @ ELSE draft]

\* write_selection: the selection is the whole text, so a cut leaves none.
WriteSelection(intent) ==
  /\ mode.kind = "edit" /\ Shown(mode.thought).text # 0
  /\ LET t == mode.thought
         sources == [u \in {t} |-> Shown(t)]
     IN /\ Ask(Owner, WriteRequest(intent, sources))
        /\ pending' = Remembered([kind |-> "editor", intent |-> intent,
                                  sources |-> sources, gen |-> gens.edit])
  /\ UNCHANGED <<board, mode, draft, gens, episode, removed, landed>>

\* read_clipboard: the answer belongs to what has the cursor now.
ReadOwner ==
  CASE mode.kind = "board"   -> [kind |-> "board"]
    [] mode.kind = "compose" -> [kind |-> "compose", gen |-> gens.compose]
    [] mode.kind = "edit"    -> [kind |-> "thought", thought |-> mode.thought, gen |-> gens.edit]
ReadClipboard ==
  /\ Ask(Owner, [id |-> asked + 1, kind |-> "read"])
  /\ pending' = Remembered([kind |-> "read", owner |-> ReadOwner, episode |-> episode])
  /\ UNCHANGED <<board, mode, draft, gens, episode, removed, landed>>

Request ==
  /\ \/ \E S \in SUBSET Thoughts, intent \in {"copy", "cut"} : RequestClipboard(S, intent)
     \/ \E intent \in {"copy", "cut"} : WriteSelection(intent)
     \/ ReadClipboard
  /\ UNCHANGED <<worker, results, clip, prov, lock, copied, typed, made, written, foreign, changes>>

\* Another Proqi process copies annotated text of its own.
PeerCopies ==
  /\ \E p \in Procs \ {Owner}, t \in Thoughts :
       Ask(p, WriteRequest("copy", [u \in {t} |-> [text |-> MaxText, notes |-> TRUE]]))
  /\ UNCHANGED <<ownerVars, worker, results, clip, prov, lock, copied, typed, made, written, foreign, changes>>

------------------------------------------------------------------------------
(* The external worker.  Requests of one process are performed in order.   *)

TextOf(sources) == [t \in DOMAIN sources |-> sources[t].text]
Annotated(sources) == \E t \in DOMAIN sources : sources[t].notes
\* encode_payload: annotations bound to the request and to the text.
Encode(r) == [request |-> r.id, binding |-> TextOf(r.sources)]
\* The provenance record of a payload written in a clipboard generation.
Provenance(gen, payload) == [gen |-> gen, request |-> payload.request, binding |-> payload.binding]

Put(text, payload) == clip' = [gen |-> clip.gen + 1, text |-> text, payload |-> payload]
Pairs(sources) == {<<t, sources[t]>> : t \in DOMAIN sources}

\* The answer reaches the owner; the other processes' answers are theirs.
Answer(p, answer) ==
  /\ results' = IF p = Owner THEN Append(results, answer) ELSE results
  /\ worker' = [worker EXCEPT ![p] = Idle]
AnswerWrite(p, write) == Answer(p, [id |-> worker[p].req.id, write |-> write])
AnswerRead(p, text, notes) == Answer(p, [id |-> worker[p].req.id, read |-> text, notes |-> notes])
Advance(p, pc) == worker' = [worker EXCEPT ![p].pc = pc]
Release(p) == lock' = IF lock = p THEN "free" ELSE lock

Take(p) ==
  /\ worker[p].pc = "idle" /\ queue[p] # << >>
  /\ LET r == Head(queue[p])
         pc == IF r.kind = "read" THEN "open" ELSE IF Annotated(r.sources) THEN "lock" ELSE "plain"
     IN worker' = [worker EXCEPT ![p] = Working(pc, r, 0, NoRecord, NoText)]
  /\ queue' = [queue EXCEPT ![p] = Tail(@)]
  /\ UNCHANGED <<results, clip, prov, lock, copied, typed, made, written>>

\* Plain text: the native clipboard, or the terminal's OSC 52 sequence, which
\* nobody confirms, or nothing.
WritePlain(p) ==
  /\ worker[p].pc = "plain"
  /\ LET r == worker[p].req
     IN \/ /\ Put(TextOf(r.sources), NoPayload) /\ AnswerWrite(p, "native")
           /\ copied' = copied \cup Pairs(r.sources)
        \/ /\ \E w \in {"osc52", "failed"} : AnswerWrite(p, w)
           /\ UNCHANGED <<clip, copied>>
  /\ UNCHANGED <<queue, prov, lock, typed, made, written>>

\* Mutated form: the lock is not waited for.
AcquireProvenanceShared(p) ==
  /\ worker[p].pc = "lock"
  /\ lock' = p /\ Advance(p, "typed")
  /\ UNCHANGED <<results, queue, clip, prov, copied, typed, made, written>>
\* Annotated text, first step: the provenance lock, which may stay busy.
AcquireProvenance(p) ==
  /\ worker[p].pc = "lock"
  /\ \/ lock = "free" /\ lock' = p /\ Advance(p, "typed") /\ UNCHANGED results
     \/ lock # "free" /\ AnswerWrite(p, "failed") /\ UNCHANGED lock
  /\ UNCHANGED <<queue, clip, prov, copied, typed, made, written>>
\* Second step: both representations, in one native transaction.
WriteTyped(p) ==
  /\ worker[p].pc = "typed"
  /\ \/ /\ Put(TextOf(worker[p].req.sources), Encode(worker[p].req))
        /\ made' = made \cup {<<clip.gen + 1, TextOf(worker[p].req.sources), Encode(worker[p].req)>>}
        /\ worker' = [worker EXCEPT ![p] = Working("record", @.req, clip.gen + 1, NoRecord, NoText)]
        /\ UNCHANGED <<results, lock>>
     \/ AnswerWrite(p, "failed") /\ Release(p) /\ UNCHANGED <<clip, made>>
  /\ UNCHANGED <<queue, prov, copied, typed, written>>

\* Third step: the record, or a failure that leaves the clipboard as it is.
StoreProvenance(p) ==
  /\ worker[p].pc = "record"
  /\ \/ /\ prov' = Provenance(worker[p].gen, Encode(worker[p].req))
        /\ Advance(p, "verify") /\ UNCHANGED <<results, lock>>
     \/ AnswerWrite(p, "failed") /\ Release(p) /\ UNCHANGED prov
  /\ UNCHANGED <<queue, clip, copied, typed, made, written>>

\* typed_write_matches reads the payload, the text and the payload again.  A
\* generation is never reused, so the three reads are one look at the last.
TypedWriteMatches(p) ==
  /\ clip.gen = worker[p].gen /\ clip.payload = Encode(worker[p].req)
  /\ clip.text = TextOf(worker[p].req.sources)
VerifyTyped(p) ==
  /\ worker[p].pc = "verify"
  /\ IF TypedWriteMatches(p)
     THEN /\ AnswerWrite(p, "native")
          /\ copied' = copied \cup Pairs(worker[p].req.sources)
          /\ written' = written \cup {<<clip.gen, clip.text, clip.payload>>}
     ELSE AnswerWrite(p, "failed") /\ UNCHANGED <<copied, written>>
  /\ Release(p) /\ UNCHANGED <<queue, clip, prov, typed, made>>

\* Mutated form: the annotations of the payload are not tied to the record.
VerifiedTypedUnrecorded(first, text, second, record) ==
  /\ first = second /\ first # NoRecord /\ first.payload # NoPayload
  /\ first.payload.binding = text
\* verified_typed_text: annotations are kept when nothing changed around the
\* text, the payload was made for this text, and the record names this write.
VerifiedTyped(first, text, second, record) ==
  /\ first = second /\ first # NoRecord /\ first.payload # NoPayload
  /\ first.payload.binding = text
  /\ record = Provenance(first.gen, first.payload)
CloseRead(p) ==
  /\ worker[p].pc = "close"
  /\ LET second == IF lock = p THEN [gen |-> clip.gen, payload |-> clip.payload] ELSE NoRecord
         notes == VerifiedTyped(worker[p].first, worker[p].text, second, prov)
     IN /\ AnswerRead(p, worker[p].text, notes)
        /\ typed' = IF notes
                    THEN typed \cup {<<worker[p].first.gen, worker[p].text, worker[p].first.payload>>}
                    ELSE typed
  /\ Release(p) /\ UNCHANGED <<queue, clip, prov, copied, made, written>>

\* read: without the lock the text is plain; with it the typed representation
\* is read before and after the text, and the record last.
OpenRead(p) ==
  /\ worker[p].pc = "open"
  /\ \/ /\ lock = "free" /\ lock' = p
        /\ worker' = [worker EXCEPT ![p] = Working("text", @.req, 0,
                                       [gen |-> clip.gen, payload |-> clip.payload], NoText)]
     \/ lock # "free" /\ UNCHANGED lock /\ Advance(p, "text")
  /\ UNCHANGED <<queue, results, clip, prov, copied, typed, made, written>>
ReadText(p) ==
  /\ worker[p].pc = "text"
  /\ \/ /\ worker' = [worker EXCEPT ![p] = Working("close", @.req, 0, @.first, clip.text)]
        /\ UNCHANGED <<results, lock>>
     \/ AnswerRead(p, NoText, FALSE) /\ Release(p)
  /\ UNCHANGED <<queue, clip, prov, copied, typed, made, written>>

Work(p) ==
  /\ \/ Take(p) \/ WritePlain(p) \/ AcquireProvenance(p) \/ WriteTyped(p) \/ StoreProvenance(p)
     \/ VerifyTyped(p) \/ OpenRead(p) \/ ReadText(p) \/ CloseRead(p)
  /\ UNCHANGED <<ownerVars, counters>>

\* Another program changes the clipboard; a clipboard manager may put back
\* text and payload it saw before.
ForeignWrite ==
  /\ foreign < MaxForeign /\ foreign' = foreign + 1
  /\ \/ \E t \in Thoughts : Put([u \in {t} |-> MaxText], NoPayload)
     \/ Put(clip.text, clip.payload)
  /\ UNCHANGED <<ownerVars, queue, worker, results, prov, lock, copied, typed, made, written, asked, changes>>

------------------------------------------------------------------------------
(* The owner completes.                                                    *)

\* flush_pending_edit: refused while the thought is locked or storage failed.
CanFlush == draft = NoDraft \/ (mode.thought \notin board.locked /\ ~board.failed)
Flushed == IF draft = NoDraft THEN board ELSE [board EXCEPT !.value[mode.thought].text = draft]

\* Mutated form: what the board holds now is not compared.
StillMatchesAnything(b, sources) == DOMAIN sources \subseteq b.live
\* ClipboardSource::still_matches, for every source.
StillMatches(b, sources) ==
  \A t \in DOMAIN sources : t \in b.live /\ b.value[t] = sources[t]

\* sync_editor and the empty-board policy after thoughts of S are gone: an
\* edited thought that is gone returns to the board, an empty board to Compose.
AfterRemoval(b, S) ==
  IF b.live \ S = {} THEN [kind |-> "compose"]
  ELSE IF mode.kind = "edit" /\ mode.thought \in S THEN [kind |-> "board"] ELSE mode

\* complete_clipboard_write, board: the pending edit is flushed first, and the
\* cut removes only what is still what was written.
FinishClipboard(p) ==
  LET S == DOMAIN p.sources
  IN IF /\ p.intent = "cut" /\ CanFlush /\ ~board.failed
        /\ StillMatches(Flushed, p.sources) /\ S \cap board.locked = {}
     THEN /\ board' = [Flushed EXCEPT !.live = @ \ S]
          /\ removed' = removed \cup {<<t, Flushed.value[t]>> : t \in S}
          /\ draft' = NoDraft /\ mode' = AfterRemoval(Flushed, S)
          /\ episode' = IF mode' = mode THEN episode ELSE episode + 1
     ELSE /\ IF p.intent = "cut" /\ CanFlush THEN board' = Flushed /\ draft' = NoDraft
             ELSE UNCHANGED <<board, draft>>
          /\ UNCHANGED <<removed, mode, episode>>

\* Mutated form: the answer of an unconfirmed write also removes.
ConfirmedAny(p, write) == write \in {"native", "osc52"}
\* ExternalResult::Written: OSC 52 is enough for a copy, never for a cut.
Confirmed(p, write) == write = "native" \/ (write = "osc52" /\ p.intent # "cut")

\* complete_editor_clipboard: the same editor, unchanged since the request.
EditorUnchanged(p) ==
  /\ mode.kind = "edit" /\ mode.thought \in DOMAIN p.sources
  /\ gens.edit = p.gen /\ Shown(mode.thought) = p.sources[mode.thought]
FinishEditorClipboard(p) ==
  IF p.intent = "cut" /\ ~board.failed /\ EditorUnchanged(p) /\ mode.thought \notin board.locked
  THEN /\ board' = [board EXCEPT !.value[mode.thought].text = 0]
       /\ removed' = removed \cup {<<mode.thought, Shown(mode.thought)>>}
       /\ draft' = NoDraft /\ UNCHANGED <<mode, episode>>
  ELSE UNCHANGED <<board, removed, draft, mode, episode>>

\* Mutated form: any editor of the thought receives the answer.
OwnerIsCurrentThought(o) ==
  \/ o.kind = "board" /\ mode.kind = "board"
  \/ o.kind = "compose" /\ mode.kind = "compose" /\ o.gen = gens.compose
  \/ o.kind = "thought" /\ mode.kind = "edit" /\ mode.thought = o.thought
\* clipboard_read_owner_is_current
OwnerIsCurrent(o) ==
  \/ o.kind = "board" /\ mode.kind = "board"
  \/ o.kind = "compose" /\ mode.kind = "compose" /\ o.gen = gens.compose
  \/ /\ o.kind = "thought" /\ mode.kind = "edit" /\ mode.thought = o.thought
     /\ o.gen = gens.edit /\ mode.thought \notin board.locked

CompleteWrite(p, write) ==
  /\ IF Confirmed(p, write)
     THEN IF p.kind = "board" THEN FinishClipboard(p) ELSE FinishEditorClipboard(p)
     ELSE UNCHANGED <<board, removed, draft, mode, episode>>
  /\ UNCHANGED <<gens, landed>>

\* What a paste leaves: one text stands for all; the annotations are the answer's.
Pasted(notes) == [text |-> MaxText, notes |-> notes]
Added(t, v) == [live |-> board.live \cup {t}, value |-> [board.value EXCEPT ![t] = v],
                locked |-> board.locked, failed |-> board.failed]

\* paste_payload on the board: a new thought.
CreateFrom(v) ==
  /\ ~board.failed /\ \E t \in Thoughts \ board.live : board' = Added(t, v)
  /\ UNCHANGED <<mode, draft, gens, episode, landed>>

\* materialize_compose: the compose becomes the editor of a new thought, and
\* the reads asked from it follow.
Rebound(asks, t) == [i \in DOMAIN asks |->
  IF asks[i].kind = "read" /\ asks[i].owner = [kind |-> "compose", gen |-> gens.compose]
  THEN [asks[i] EXCEPT !.owner = [kind |-> "thought", thought |-> t, gen |-> gens.edit + 1]]
  ELSE asks[i]]
Materialize(v, asks) ==
  /\ mode.kind = "compose" /\ ~board.failed
  /\ \E t \in Thoughts \ board.live :
       /\ board' = Added(t, v)
       /\ mode' = [kind |-> "edit", thought |-> t] /\ pending' = Rebound(asks, t)
  /\ gens' = [edit |-> gens.edit + 1, compose |-> gens.compose + 1]
  /\ UNCHANGED <<draft, episode>>

\* paste_payload in an editor: flush, paste, flush.
PasteIntoThought(p, v) ==
  /\ mode.kind = "edit"
  /\ IF board.failed THEN UNCHANGED board ELSE board' = [board EXCEPT !.value[mode.thought] = v]
  /\ draft' = IF board.failed THEN v.text ELSE NoDraft
  /\ landed' = landed \cup {<<p.episode, episode>>}
  /\ UNCHANGED <<mode, gens, episode>>

CompleteRead(id, r) ==
  LET p == pending[id]
      rest == [i \in DOMAIN pending \ {id} |-> pending[i]]
      refused == ~OwnerIsCurrent(p.owner) \/ r.read = NoText
      full == mode.kind # "edit" /\ (board.failed \/ Thoughts = board.live)
  IN /\ IF refused \/ full
        THEN pending' = rest /\ UNCHANGED <<board, mode, draft, gens, episode, landed>>
        ELSE LET v == Pasted(r.notes) IN
               \/ mode.kind = "board" /\ CreateFrom(v) /\ pending' = rest
               \/ Materialize(v, rest) /\ UNCHANGED landed
               \/ PasteIntoThought(p, v) /\ pending' = rest
     /\ UNCHANGED removed

\* drain: one answer.
Complete ==
  /\ results # << >> /\ results' = Tail(results)
  /\ LET r == Head(results) p == pending[r.id]
     IN IF p.kind = "read" THEN CompleteRead(r.id, r)
        ELSE /\ CompleteWrite(p, r.write)
             /\ pending' = [i \in DOMAIN pending \ {r.id} |-> pending[i]]
  /\ UNCHANGED <<queue, worker, clip, prov, lock, copied, typed, made, written, counters>>

------------------------------------------------------------------------------
(* What the user, the command line and the store do meanwhile.             *)

EnterEdit(t) ==
  /\ mode.kind = "board" /\ t \in board.live \ board.locked
  /\ mode' = [kind |-> "edit", thought |-> t] /\ gens' = [gens EXCEPT !.edit = @ + 1]
  /\ episode' = episode + 1 /\ UNCHANGED <<board, draft, pending>>
\* Typing is refused while the thought is locked.
Type ==
  /\ mode.kind = "edit" /\ mode.thought \notin board.locked
  /\ \E x \in 1..MaxText : x # Shown(mode.thought).text /\ draft' = x
  /\ UNCHANGED <<board, mode, gens, pending, episode>>
Flush ==
  /\ draft # NoDraft /\ CanFlush /\ board' = Flushed /\ draft' = NoDraft
  /\ UNCHANGED <<mode, gens, pending, episode>>
ExitEdit ==
  /\ mode.kind = "edit" /\ CanFlush /\ board' = Flushed /\ draft' = NoDraft
  /\ mode' = [kind |-> "board"] /\ UNCHANGED <<gens, pending, episode>>
EnterCompose ==
  /\ mode.kind = "board" /\ mode' = [kind |-> "compose"] /\ episode' = episode + 1
  /\ UNCHANGED <<board, draft, gens, pending>>
ExitCompose ==
  /\ mode.kind = "compose" /\ mode' = [kind |-> "board"]
  /\ gens' = [gens EXCEPT !.compose = @ + 1] /\ UNCHANGED <<board, draft, pending, episode>>
ComposeType == Materialize(Pasted(FALSE), pending)
\* A command changes or removes a thought through the owner.
RemoteChange(t) ==
  /\ t \in board.live \ board.locked /\ ~board.failed
  /\ draft # NoDraft => t # mode.thought
  /\ \/ \E x \in 1..MaxText : x # board.value[t].text /\ board' = [board EXCEPT !.value[t].text = x]
        /\ UNCHANGED mode
     \/ /\ board' = [board EXCEPT !.live = @ \ {t}]
        /\ mode' = IF mode.kind = "edit" /\ mode.thought = t THEN [kind |-> "board"] ELSE mode
  /\ UNCHANGED <<draft, gens, pending, episode>>
\* A submission takes or releases a thought; a save fails or is retried.
ToggleLock(t) ==
  /\ t \in board.live /\ draft = NoDraft
  /\ board' = [board EXCEPT !.locked = IF t \in @ THEN @ \ {t} ELSE @ \cup {t}]
  /\ UNCHANGED <<mode, draft, gens, pending, episode>>
ToggleStorage ==
  /\ board' = [board EXCEPT !.failed = ~@] /\ UNCHANGED <<mode, draft, gens, pending, episode>>

Meanwhile ==
  /\ changes < MaxChanges /\ changes' = changes + 1
  /\ \/ Type \/ Flush \/ ExitEdit \/ EnterCompose \/ ExitCompose \/ ComposeType \/ ToggleStorage
     \/ \E t \in Thoughts : EnterEdit(t) \/ RemoteChange(t) \/ ToggleLock(t)
  /\ UNCHANGED <<laneVars, asked, foreign, removed, landed>>

Next == Request \/ PeerCopies \/ (\E p \in Procs : Work(p)) \/ ForeignWrite \/ Complete \/ Meanwhile

Spec == Init /\ [][Next]_vars

------------------------------------------------------------------------------
(* Properties.                                                             *)

\* Type invariant of the clipboard lanes.
TypeOK ==
  /\ board.live \subseteq Thoughts /\ board.locked \subseteq Thoughts
  /\ board.value \in [Thoughts -> Value] /\ board.failed \in BOOLEAN
  /\ mode.kind \in {"board", "compose", "edit"} /\ draft \in {NoDraft} \cup 0..MaxText
  /\ lock \in {"free"} \cup Procs /\ DOMAIN pending \subseteq 1..MaxRequests
  /\ draft # NoDraft => mode.kind = "edit"

\* A cut takes away only what a confirmed write put on the native clipboard:
\* the thought as it is at the moment of removal, typed text included.
CutRemovesOnlyWritten == removed \subseteq copied

\* The answer to a paste asked in an editor of a thought, or in the compose
\* that became that editor, changes no other editing episode.
PasteReachesItsEditor == \A e \in landed : e[1] = e[2]

\* Annotations are pasted only with the text they were copied with, from the
\* clipboard generation a Proqi write produced, never from a copy of it that
\* another program put back; and while a confirmed typed copy is still on the clipboard and nobody
\* holds the lock, the record names it, so a paste keeps its annotations.
TypedCopyIsTrusted ==
  /\ typed \subseteq made
  /\ (lock = "free" /\ <<clip.gen, clip.text, clip.payload>> \in written)
       => prov = Provenance(clip.gen, clip.payload)

\* The clipboard (ui/app/clipboard, adapters/clipboard): a cut removes what was written, a paste
\* lands where it was asked for, and a typed copy is believed only with its provenance.
ClipboardSafe == TypeOK /\ CutRemovesOnlyWritten /\ PasteReachesItsEditor /\ TypedCopyIsTrusted
==============================================================================

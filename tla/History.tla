------------------------------- MODULE History -------------------------------
(***************************************************************************)
(* Board and editor history of one session, kept twice: by the reducer in  *)
(* memory and by the SQLite store.  Every command of the reducer is an     *)
(* action that changes the memory replica and commits the same operation   *)
(* to the store replica, which applies it by its own code (Autosave shows  *)
(* that the store receives the operations in order).                       *)
(*                                                                         *)
(* A replica is [board, ops, cur, revs, ecur]: the board, the log of board *)
(* operations with its cursor, and each thought's revisions with theirs.   *)
(***************************************************************************)
EXTENDS Board

CONSTANTS
    NoItem,     \* no focused item
    Groups,     \* command groups: [issues, bound], a group per behaviour
    MaxCopies   \* bound on clipboard and export requests in flight

ASSUME HistoryAssumption ==
    /\ NoItem \notin Items
    /\ \A g \in Groups : g.bound \in Nat
    /\ MaxCopies \in Nat

VARIABLES
    mem,        \* the reducer's replica (AppState)
    sto,        \* the store's replica
    ui,         \* focused item, mode and insertion index
    locked,     \* thoughts of a submission in flight
    deferred,   \* the staged removal the store has and memory has not
    copied,     \* clipboard and export requests waiting for their result
    seq,        \* highest sequence
    group,      \* the commands issued and the bound on their number
    fault       \* "memory" or "store" once that replica refused a command

vars == <<mem, sto, ui, locked, deferred, copied, seq, group, fault>>

Commands == group.issues
MaxSeq == group.bound

EmptyReplica ==
    [board |-> EmptyBoard, ops |-> <<>>, cur |-> 0,
     revs |-> [t \in Thoughts |-> <<>>], ecur |-> [t \in Thoughts |-> 0]]

BoardMode == [m |-> "board", t |-> NoItem]
ComposeMode == [m |-> "compose", t |-> NoItem]
EditMode(t) == [m |-> "edit", t |-> t]

FirstItem(b) == IF Live(b) = {} THEN NoItem ELSE ItemAt(b, 0)

\* AppState::new over a loaded board.
FreshUi(b) ==
    [focus |-> FirstItem(b), ins |-> Cardinality(Live(b)),
     mode |-> IF Live(b) = {} THEN ComposeMode ELSE BoardMode]

Init ==
    /\ mem = EmptyReplica
    /\ sto = EmptyReplica
    /\ ui = FreshUi(EmptyBoard)
    /\ locked = {}
    /\ deferred = <<>>
    /\ copied = {}
    /\ seq = 0
    /\ group \in Groups
    /\ fault = "none"

(***************************************************************************)
(* Operations and the thoughts they address.                               *)
(***************************************************************************)

BelongsToContent(kind) ==
    kind \notin {"InsertSeparator", "Reorder", "Collapse", "Rename"}

Operation(kind, handoff, fwd, inv) ==
    [seq |-> seq + 1, kind |-> kind, handoff |-> handoff, fwd |-> fwd, inv |-> inv]

AddressesThought(op, t) == Addresses(op.fwd, t) \/ Addresses(op.inv, t)

ContentThoughts(op) ==
    IF BelongsToContent(op.kind) THEN {t \in Thoughts : AddressesThought(op, t)}
    ELSE {}

InBoardOrder(b, S) == SetToSortSeq(S, LAMBDA i, j : b[i].pos < b[j].pos)

MapSeq(s, F(_)) == [k \in DOMAIN s |-> F(s[k])]

(***************************************************************************)
(* The reducer's replica.                                                  *)
(***************************************************************************)

RecordBoardOperation(r, op) ==
    {[r EXCEPT !.board = b, !.ops = Append(SubSeq(@, 1, r.cur), op), !.cur = @ + 1]
        : b \in ApplyMutation(r.board, op.fwd)}

\* Mutated form: a transformation leaves the redo revisions of its sources.
DropNoEditorRedo(r, S) == r

DropEditorRedo(r, S) ==
    [r EXCEPT !.revs = [t \in Thoughts |->
        IF t \in S THEN SubSeq(@[t], 1, r.ecur[t]) ELSE @[t]]]

\* Mutated form of RecordTransform.
RecordTransformKeepsRedo(r, op, edited) == RecordBoardOperation(r, op)

\* record_transform: the sources of a content transformation lose their redo.
RecordTransform(r, op, edited) ==
    {DropEditorRedo(x, edited) : x \in RecordBoardOperation(r, op)}

\* Mutated form: a conflicting redo branch survives an edit.
TruncateNoBoardRedo(r, t) == r

TruncateConflictingBoardRedo(r, t) ==
    LET hits == {k \in r.cur + 1 .. Len(r.ops) : AddressesThought(r.ops[k], t)}
        first == CHOOSE k \in hits : \A j \in hits : k <= j
    IN  IF hits = {} THEN r ELSE [r EXCEPT !.ops = SubSeq(@, 1, first - 1)]

EditRevision(r, t, x, y, s) ==
    IF ~IsLive(r.board, t) \/ r.board[t].text # x THEN {}
    ELSE {[TruncateConflictingBoardRedo(r, t) EXCEPT
              !.board[t].text = y,
              !.revs[t] = Append(SubSeq(@, 1, r.ecur[t]),
                                 [seq |-> s, before |-> x, after |-> y]),
              !.ecur[t] = @ + 1]}

HasBoardOperation(r, undo) == IF undo THEN r.cur > 0 ELSE r.cur < Len(r.ops)
BoardOperation(r, undo) == IF undo THEN r.ops[r.cur] ELSE r.ops[r.cur + 1]
Replayed(op, undo) == IF undo THEN op.inv ELSE op.fwd
Step(undo) == IF undo THEN -1 ELSE 1

HasRevision(r, t, undo) ==
    IF undo THEN r.ecur[t] > 0 ELSE r.ecur[t] < Len(r.revs[t])
Revision(r, t, undo) ==
    IF undo THEN r.revs[t][r.ecur[t]] ELSE r.revs[t][r.ecur[t] + 1]
From(v, undo) == IF undo THEN v.after ELSE v.before
Into(v, undo) == IF undo THEN v.before ELSE v.after

EditorEndpointMatches(r, t, undo) ==
    /\ HasRevision(r, t, undo)
    /\ IsLive(r.board, t)
    /\ r.board[t].text = From(Revision(r, t, undo), undo)

MoveBoardHistory(r, undo) ==
    IF ~HasBoardOperation(r, undo) THEN {}
    ELSE {[r EXCEPT !.board = b, !.cur = @ + Step(undo)]
            : b \in ApplyMutation(r.board, Replayed(BoardOperation(r, undo), undo))}

MoveEditorHistory(r, t, undo) ==
    IF ~EditorEndpointMatches(r, t, undo) THEN {}
    ELSE {[r EXCEPT !.board[t].text = Into(Revision(r, t, undo), undo),
                    !.ecur[t] = @ + Step(undo)]}

(***************************************************************************)
(* Which history a command may move (canonical ordering).                  *)
(***************************************************************************)

EditorPrecedesBoard(e, b, undo) == IF undo THEN e > b ELSE e < b

BoardPrecedesEditor(r, b, t, undo) ==
    HasRevision(r, t, undo) =>
        LET e == Revision(r, t, undo).seq IN IF undo THEN b > e ELSE b < e

\* Mutated form: no editor history ever blocks the board's.
NoBlockers(r, op, undo) == {}

\* Thoughts whose editor history must move before the board operation.
Blockers(r, op, undo) ==
    {t \in ContentThoughts(op) :
        HasRevision(r, t, undo) /\ EditorPrecedesBoard(Revision(r, t, undo).seq, op.seq, undo)}

BoardReady(r, undo) ==
    HasBoardOperation(r, undo) /\ Blockers(r, BoardOperation(r, undo), undo) = {}

BoardMustMoveFirst(r, t, undo) ==
    /\ HasBoardOperation(r, undo)
    /\ t \in ContentThoughts(BoardOperation(r, undo))
    /\ BoardPrecedesEditor(r, BoardOperation(r, undo).seq, t, undo)

\* ensure_history_scope_ready for the editor scope.
EditorReady(r, t, undo) == HasRevision(r, t, undo) /\ ~BoardMustMoveFirst(r, t, undo)

\* history_resolution: the scope a mode resolves to, when one is ready.
ResolvedScope(r, mode, undo) ==
    CASE mode.m = "board" -> IF BoardReady(r, undo) THEN {NoItem} ELSE {}
      [] mode.m = "compose" ->
            IF ~undo /\ BoardReady(r, undo) /\ BoardOperation(r, undo).handoff
            THEN {NoItem} ELSE {}
      [] mode.m = "edit" ->
            IF BoardMustMoveFirst(r, mode.t, undo)
            THEN IF BoardReady(r, undo) THEN {NoItem} ELSE {}
            ELSE IF EditorEndpointMatches(r, mode.t, undo) THEN {mode.t} ELSE {}

(***************************************************************************)
(* The store's replica: its own code for the same operations.              *)
(***************************************************************************)

\* Mutated form: only replaced contents lose their redo in the store.
TruncatesEditorRedoNever(ms) == {}

TruncatesEditorRedo(ms) ==
    {ms[k].item : k \in {j \in DOMAIN ms :
        ms[j].op \in {"replace", "deleteExact", "restoreExact"}}}

StoreCommitBoard(r, op) ==
    {DropEditorRedo([r EXCEPT !.board = b,
                              !.ops = Append(SubSeq(@, 1, r.cur), op),
                              !.cur = @ + 1],
                    TruncatesEditorRedo(op.fwd))
        : b \in ApplyMutation(r.board, op.fwd)}

StoreTruncateConflictingBoardRedo(r, t) ==
    LET kept == {k \in DOMAIN r.ops :
                    \A j \in r.cur + 1 .. k : ~AddressesThought(r.ops[j], t)}
    IN  [r EXCEPT !.ops = SubSeq(@, 1, Cardinality(kept))]

\* revision_cursor and persist_revision.
StoreCommitRevision(r, t, x, y, s) ==
    IF ~IsLive(r.board, t) \/ r.board[t].text # x THEN {}
    ELSE {[StoreTruncateConflictingBoardRedo(r, t) EXCEPT
              !.revs[t] = Append(SubSeq(@, 1, r.ecur[t]),
                                 [seq |-> s, before |-> x, after |-> y]),
              !.board[t].text = y,
              !.ecur[t] = @ + 1]}

\* Mutated form: the store applies the move and leaves its cursor.
StoreMoveForgetsCursor(r, undo) ==
    LET index == IF undo THEN r.cur ELSE r.cur + 1
    IN  IF index \notin DOMAIN r.ops THEN {}
        ELSE {[r EXCEPT !.board = b]
                : b \in ApplyMutation(r.board, IF undo THEN r.ops[index].inv
                                                       ELSE r.ops[index].fwd)}

StoreMoveBoardHistory(r, undo) ==
    LET index == IF undo THEN r.cur ELSE r.cur + 1
    IN  IF index \notin DOMAIN r.ops THEN {}
        ELSE {[r EXCEPT !.board = b, !.cur = IF undo THEN index - 1 ELSE index]
                : b \in ApplyMutation(r.board, IF undo THEN r.ops[index].inv
                                                       ELSE r.ops[index].fwd)}

StoreMoveEditorHistory(r, t, undo) ==
    LET index == IF undo THEN r.ecur[t] ELSE r.ecur[t] + 1
    IN  IF \/ ~IsLive(r.board, t)
           \/ index \notin DOMAIN r.revs[t]
           \/ r.board[t].text # From(r.revs[t][index], undo)
        THEN {}
        ELSE {[r EXCEPT !.board[t].text = Into(r.revs[t][index], undo),
                        !.ecur[t] = IF undo THEN index - 1 ELSE index]}

(***************************************************************************)
(* Focus, mode and insertion index.                                        *)
(***************************************************************************)

\* Mutated form: the insertion index is left where it was.
KeepFocusForgetsIndex(u, b) ==
    IF u.focus \in Live(b) THEN u
    ELSE [u EXCEPT !.focus = FirstItem(b), !.mode = IF @.m = "edit" THEN BoardMode ELSE @]

KeepFocusValid(u, b) ==
    LET n == Cardinality(Live(b))
        clamped == [u EXCEPT !.ins = IF @ > n THEN n ELSE @]
    IN  IF u.focus \in Live(b) THEN clamped
        ELSE [clamped EXCEPT !.focus = FirstItem(b),
                             !.mode = IF @.m = "edit" THEN BoardMode ELSE @]

\* The item that takes the place of removed ones, or the one before them.
SuccessorFocus(u, old, new, S) ==
    LET first == CHOOSE p \in {old[i].pos : i \in S} : \A i \in S : p <= old[i].pos
        n == Cardinality(Live(new))
    IN  IF u.focus \notin S THEN KeepFocusValid(u, new)
        ELSE [KeepFocusValid(u, new) EXCEPT
                !.focus = CASE first < n -> ItemAt(new, first)
                            [] first >= n /\ first > 0 /\ n > 0 -> ItemAt(new, first - 1)
                            [] OTHER -> NoItem]

(***************************************************************************)
(* Issuing a command: memory first, then the store.                        *)
(***************************************************************************)

\* Mutated form: commands are accepted while a removal is staged.
IssuableWhileStaged(command) ==
    command \in Commands /\ fault = "none" /\ seq < MaxSeq

Issuable(command) ==
    /\ command \in Commands
    /\ fault = "none"
    /\ deferred = <<>>
    /\ seq < MaxSeq

\* The store's answer to the operation memory just applied.
Persist(results) ==
    IF results = {} THEN sto' = sto /\ fault' = "store"
    ELSE sto' \in results /\ fault' = "none"

Commit(op, edited, Ui(_)) ==
    /\ seq' = op.seq
    /\ UNCHANGED <<locked, deferred, copied>>
    /\ IF RecordTransform(mem, op, edited) = {}
       THEN fault' = "memory" /\ UNCHANGED <<mem, sto, ui>>
       ELSE \E r \in RecordTransform(mem, op, edited) :
                /\ mem' = r
                /\ ui' = Ui(r.board)
                /\ Persist(StoreCommitBoard(sto, op))

Kept(b) == KeepFocusValid(ui, b)

FreshThought == CHOOSE t \in Thoughts : mem.board[t].st = "absent"
HasFreshThought == \E t \in Thoughts : mem.board[t].st = "absent"
FreshSeparator == CHOOSE s \in Separators : mem.board[s].st = "absent"

(***************************************************************************)
(* Commands that create.                                                   *)
(***************************************************************************)

CreateThought ==
    \E p \in 0 .. Cardinality(Live(mem.board)), x \in Texts, handoff \in BOOLEAN :
        LET t == FreshThought
            fwd == <<AddItem(t, p, x, NoName, Automatic)>>
            inv == <<SetDeletion(t, seq + 1, p)>>
            After(b) == [Kept(b) EXCEPT !.focus = t, !.mode = EditMode(t), !.ins = p + 1]
        IN  /\ Issuable("create")
            /\ HasFreshThought
            /\ handoff => p = ui.ins /\ ui.mode = ComposeMode
            /\ Commit(Operation("Create", handoff, fwd, inv), {}, After)

\* Thoughts that arrive from another session go to the end.
CreateOwnedThoughts ==
    \E S \in SUBSET {t \in Thoughts : mem.board[t].st = "absent"}, x \in Texts, n \in Names :
        LET s == SetToSeq(S)
            start == Cardinality(Live(mem.board))
            fwd == [k \in DOMAIN s |-> AddItem(s[k], start + k - 1, x, n, Automatic)]
            inv == Reverse([k \in DOMAIN s |-> SetDeletion(s[k], seq + 1, start + k - 1)])
        IN  /\ Issuable("owned")
            /\ S # {}
            /\ Commit(Operation("Create", FALSE, fwd, inv), {}, Kept)

InsertSeparator ==
    \E p \in 0 .. Cardinality(Live(mem.board)) :
        LET s == FreshSeparator
            fwd == <<AddItem(s, p, AnyText, NoName, Automatic)>>
            inv == <<SetDeletion(s, seq + 1, p)>>
            After(b) == [Kept(b) EXCEPT !.focus = s, !.mode = BoardMode, !.ins = p + 1]
        IN  /\ Issuable("separator")
            /\ \E x \in Separators : mem.board[x].st = "absent"
            /\ Commit(Operation("InsertSeparator", FALSE, fwd, inv), {}, After)

\* duplicate_thoughts and duplicate_items: the copies follow the last source.
DuplicateItems ==
    \E S \in SUBSET Live(mem.board), D \in SUBSET Items :
        LET b == mem.board
            src == InBoardOrder(b, S)
            copy == SetToSeq(D)
            place == b[src[Len(src)]].pos + 1
            fwd == [k \in DOMAIN src |->
                        AddItem(copy[k], place + k - 1, b[src[k]].text,
                                b[src[k]].name, b[src[k]].fold)]
            inv == Reverse([k \in DOMAIN src |-> SetDeletion(copy[k], seq + 1, place + k - 1)])
            After(x) == [Kept(x) EXCEPT !.focus = copy[1]]
        IN  /\ Issuable("duplicate")
            /\ S # {} /\ S \cap locked = {}
            /\ Cardinality(D) = Cardinality(S)
            /\ \A i \in D : b[i].st = "absent"
            /\ \A k \in DOMAIN src : (src[k] \in Thoughts) = (copy[k] \in Thoughts)
            /\ Commit(Operation("Duplicate", FALSE, fwd, inv), {}, After)

(***************************************************************************)
(* Commands that remove.                                                   *)
(***************************************************************************)

\* Mutated form: the batch deletes from the top, with positions read before it.
RemovalRestoresReversed(kind, S, at) ==
    LET order == InBoardOrder(mem.board, S)
        fwd == MapSeq(order, LAMBDA i : SetDeletion(i, at, mem.board[i].pos))
        inv == Reverse(MapSeq(order, LAMBDA i : Restore(i, mem.board[i].pos)))
    IN  Operation(kind, FALSE, fwd, inv)

Removal(kind, S, at) ==
    LET order == InBoardOrder(mem.board, S)
        fwd == Reverse(MapSeq(order, LAMBDA i : SetDeletion(i, at, mem.board[i].pos)))
        inv == MapSeq(order, LAMBDA i : Restore(i, mem.board[i].pos))
    IN  Operation(kind, FALSE, fwd, inv)

RemoveItems(kind, S, at) ==
    Commit(Removal(kind, S, at), {}, LAMBDA b : SuccessorFocus(ui, mem.board, b, S))

DeleteItems ==
    \E S \in SUBSET Live(mem.board) :
        /\ Issuable("delete")
        /\ S # {} /\ S \cap locked = {}
        /\ RemoveItems("Delete", S, seq + 1)

\* stage_submission_removal: the store has it before memory applies it.
StageSubmissionRemoval ==
    \E S \in SUBSET locked :
        /\ Issuable("submit")
        /\ S # {} /\ S \subseteq LiveThoughts(mem.board)
        /\ seq' = seq + 1
        /\ deferred' = <<Removal("SubmitAndRemove", S, seq + 1)>>
        /\ Persist(StoreCommitBoard(sto, Removal("SubmitAndRemove", S, seq + 1)))
        /\ UNCHANGED <<mem, ui, locked, copied>>

\* PersistenceCommitted of a staged removal.
CommitDeferred ==
    /\ deferred # <<>>
    /\ fault = "none"
    /\ deferred' = <<>>
    /\ IF RecordBoardOperation(mem, deferred[1]) = {}
       THEN fault' = "memory" /\ UNCHANGED <<mem, ui>>
       ELSE \E r \in RecordBoardOperation(mem, deferred[1]) :
                mem' = r /\ ui' = KeepFocusValid(ui, r.board) /\ fault' = fault
    /\ UNCHANGED <<sto, locked, copied, seq>>

BeginSubmission ==
    \E S \in SUBSET (LiveThoughts(mem.board) \ locked) :
        /\ "submit" \in Commands /\ fault = "none"
        /\ S # {}
        /\ locked' = locked \cup S
        /\ UNCHANGED <<mem, sto, ui, deferred, copied, seq, fault>>

EndSubmission ==
    \E S \in SUBSET locked :
    /\ S # {} /\ fault = "none"
    /\ locked' = locked \ S
    /\ UNCHANGED <<mem, sto, ui, deferred, copied, seq, fault>>

(***************************************************************************)
(* Commands that move, rename and fold.                                    *)
(***************************************************************************)

MoveOneItem ==
    \E i \in Live(mem.board), q \in 0 .. Cardinality(Live(mem.board)) - 1 :
        LET p == mem.board[i].pos IN
        /\ Issuable("move")
        /\ i \notin locked /\ p # q
        /\ Commit(Operation("Reorder", FALSE, <<MoveItem(i, p, q)>>, <<MoveItem(i, q, p)>>),
                  {}, Kept)

\* Maximal runs of selected items, as <<start, end>> positions in order.
SelectedRuns(b, S) ==
    LET at(p) == p \in 0 .. Cardinality(Live(b)) - 1 /\ ItemAt(b, p) \in S
        starts == {p \in 0 .. Cardinality(Live(b)) - 1 : at(p) /\ ~at(p - 1)}
        end(p) == CHOOSE q \in p .. Cardinality(Live(b)) - 1 :
                      ~at(q + 1) /\ \A k \in p .. q : at(k)
    IN  MapSeq(SetToSortSeq(starts, <), LAMBDA p : <<p, end(p)>>)

\* Each run changes places with the neighbour it is pushed against.
SelectedMoveSteps(b, S, delta) ==
    LET n == Cardinality(Live(b))
        runs == SelectedRuns(b, S)
        up == SelectSeq(runs, LAMBDA r : r[1] > 0)
        down == SelectSeq(Reverse(runs), LAMBDA r : r[2] + 1 < n)
    IN  IF delta < 0
        THEN MapSeq(up, LAMBDA r : MoveItem(ItemAt(b, r[1] - 1), r[1] - 1, r[2]))
        ELSE MapSeq(down, LAMBDA r : MoveItem(ItemAt(b, r[2] + 1), r[2] + 1, r[1]))

MoveItems ==
    \E S \in SUBSET Live(mem.board), delta \in {-1, 1} :
        LET steps == SelectedMoveSteps(mem.board, S, delta)
            back == Reverse(MapSeq(steps, LAMBDA m : MoveItem(m.item, m.to, m.from)))
        IN  /\ Issuable("move")
            /\ Cardinality(S) >= 2 /\ S \cap locked = {}
            /\ steps # <<>>
            /\ \A k \in DOMAIN steps : steps[k].item \notin locked
            /\ Commit(Operation("Reorder", FALSE, steps, back), {}, Kept)

\* A rename to the same name takes a sequence and leaves no history.
RenameThought ==
    \E t \in LiveThoughts(mem.board) \ locked, n \in Names :
        /\ Issuable("rename")
        /\ IF mem.board[t].name = n
           THEN seq' = seq + 1
                /\ UNCHANGED <<mem, sto, ui, locked, deferred, copied, fault>>
           ELSE Commit(Operation("Rename", FALSE, <<SetName(t, mem.board[t].name, n)>>,
                                 <<SetName(t, n, mem.board[t].name)>>), {}, Kept)

SetPresentationMany ==
    \E S \in SUBSET LiveThoughts(mem.board), f \in Folds :
        LET changed == InBoardOrder(mem.board, {t \in S : mem.board[t].fold # f})
        IN  /\ Issuable("fold")
            /\ S # {} /\ S \cap locked = {} /\ changed # <<>>
            /\ Commit(Operation("Collapse", FALSE,
                        MapSeq(changed, LAMBDA t : SetPresentation(t, f)),
                        MapSeq(changed, LAMBDA t : SetPresentation(t, mem.board[t].fold))),
                      {}, Kept)

(***************************************************************************)
(* Commands that change contents.                                          *)
(***************************************************************************)

EditThought ==
    \E t \in LiveThoughts(mem.board) \ locked, y \in Texts :
        LET x == mem.board[t].text IN
        /\ Issuable("edit")
        /\ x # y
        /\ seq' = seq + 1
        /\ mem' \in EditRevision(mem, t, x, y, seq + 1)
        /\ Persist(StoreCommitRevision(sto, t, x, y, seq + 1))
        /\ UNCHANGED <<ui, locked, deferred, copied>>

\* split_thought and extract_thought: the neighbour takes the other part.  A
\* split at the end leaves the source as it is and an empty neighbour.
SplitThought ==
    \E t \in LiveThoughts(mem.board) \ locked, left, right \in Texts :
        LET b == mem.board
            n == FreshThought
            p == b[t].pos + 1
            fwd == <<ReplaceContent(t, b[t].text, left),
                     AddItem(n, p, right, NoName, b[t].fold)>>
            inv == <<DeleteExact(n, right, seq + 1, p), ReplaceContent(t, left, b[t].text)>>
            After(x) == [Kept(x) EXCEPT !.focus = n, !.mode = EditMode(n), !.ins = p + 1]
        IN  /\ Issuable(IF left = b[t].text THEN "splitAtEnd" ELSE "split")
            /\ HasFreshThought
            /\ Commit(Operation("Split", FALSE, fwd, inv), {t}, After)

MergeThoughts ==
    \E S \in SUBSET (LiveThoughts(mem.board) \ locked), whole \in Texts :
        LET b == mem.board
            order == InBoardOrder(b, S)
            head == order[1]
            rest == Tail(order)
            fwd == <<ReplaceContent(head, b[head].text, whole)>> \o
                   Reverse(MapSeq(rest, LAMBDA t : DeleteExact(t, b[t].text, seq + 1, b[t].pos)))
            inv == MapSeq(rest, LAMBDA t : RestoreExact(t, b[t].text, seq + 1, b[t].pos)) \o
                   <<ReplaceContent(head, whole, b[head].text)>>
            After(x) == [Kept(x) EXCEPT !.focus = head, !.mode = BoardMode]
        IN  /\ Issuable("merge")
            /\ Cardinality(S) >= 2 /\ whole # b[head].text
            /\ \A k \in 1 .. Len(order) - 1 : b[order[k + 1]].pos = b[order[k]].pos + 1
            /\ Commit(Operation("Merge", FALSE, fwd, inv), S, After)

ReflowThoughts ==
    \E S \in SUBSET (LiveThoughts(mem.board) \ locked), y \in Texts :
        LET b == mem.board
            order == InBoardOrder(b, S)
        IN  /\ Issuable("reflow")
            /\ S # {} /\ \A t \in S : b[t].text # y
            /\ Commit(Operation("Reflow", FALSE,
                        MapSeq(order, LAMBDA t : ReplaceContent(t, b[t].text, y)),
                        MapSeq(order, LAMBDA t : ReplaceContent(t, y, b[t].text))),
                      S, Kept)

(***************************************************************************)
(* Clipboard and export: the removal waits for the write.                  *)
(***************************************************************************)

Snapshot(S) == [t \in S |-> mem.board[t].text]

RequestCut ==
    \E S \in SUBSET (LiveThoughts(mem.board) \ locked) :
        /\ "cut" \in Commands /\ fault = "none"
        /\ S # {} /\ Cardinality(copied) < MaxCopies
        /\ copied' = copied \cup {[what |-> "cut", at |-> seq + 1, from |-> Snapshot(S)]}
        /\ UNCHANGED <<mem, sto, ui, locked, deferred, seq, fault>>

RequestExport ==
    \E S \in SUBSET LiveThoughts(mem.board), what \in {"exportRemove", "exportReplace"} :
        /\ what \in Commands /\ fault = "none"
        /\ S # {} /\ Cardinality(copied) < MaxCopies
        /\ copied' = copied \cup {[what |-> what, at |-> seq + 1, from |-> Snapshot(S)]}
        /\ UNCHANGED <<mem, sto, ui, locked, deferred, seq, fault>>

\* Mutated form: the sources are not compared with what was copied.
StillMatchesNothing(c) == \A t \in DOMAIN c.from : IsLive(mem.board, t)

StillMatches(c) ==
    \A t \in DOMAIN c.from : IsLive(mem.board, t) /\ mem.board[t].text = c.from[t]

\* The write failed, a source changed or is locked: nothing is removed.
AbandonCopy ==
    \E c \in copied :
    /\ fault = "none"
    /\ copied' = copied \ {c}
    /\ UNCHANGED <<mem, sto, ui, locked, deferred, seq, fault>>

ReplaceWithReference(c) ==
    LET b == mem.board
        order == InBoardOrder(b, DOMAIN c.from)
        ref == FreshThought
        p == b[order[1]].pos
        fwd == Reverse(MapSeq(order, LAMBDA t : DeleteExact(t, b[t].text, c.at, b[t].pos)))
               \o <<AddItem(ref, p, AnyText, NoName, Automatic)>>
        inv == <<DeleteExact(ref, AnyText, c.at, p)>> \o
               MapSeq(order, LAMBDA t : RestoreExact(t, b[t].text, c.at, b[t].pos))
    IN  Operation("ExportAndReplace", FALSE, fwd, inv)

\* The clipboard or the exported file holds the content.
FinishCopy ==
    \E c \in copied :
        LET S == DOMAIN c.from
            kind == IF c.what = "cut" THEN "Cut" ELSE "ExportAndRemove"
            op == IF c.what = "exportReplace" THEN ReplaceWithReference(c)
                  ELSE Removal(kind, S, c.at)
            After(b) == IF c.what = "exportReplace"
                        THEN [Kept(b) EXCEPT !.focus = FreshThought, !.mode = BoardMode]
                        ELSE SuccessorFocus(ui, mem.board, b, S)
        IN  /\ Issuable(c.what)
            /\ StillMatches(c)
            /\ S \cap locked = {}
            /\ c.what = "exportReplace" => HasFreshThought
            /\ seq' = op.seq
            /\ copied' = copied \ {c}
            /\ UNCHANGED <<locked, deferred>>
            /\ IF RecordBoardOperation(mem, op) = {}
               THEN fault' = "memory" /\ UNCHANGED <<mem, sto, ui>>
               ELSE \E r \in RecordBoardOperation(mem, op) :
                        /\ mem' = r
                        /\ ui' = After(r.board)
                        /\ Persist(StoreCommitBoard(sto, op))

(***************************************************************************)
(* Undo and redo.                                                          *)
(***************************************************************************)

LockedMutation(ms) == \E t \in locked : Addresses(ms, t)

\* Mode and focus after a board move: a handoff returns to or from Compose.
HistoryFocus(op, undo, b) ==
    LET kept == KeepFocusValid(ui, b)
        t == op.fwd[1].item
        source == IF undo /\ op.kind = "Split" /\ ui.focus # NoItem
                     /\ ui.focus \notin Live(b) /\ IsLive(b, t)
                  THEN [kept EXCEPT !.focus = t] ELSE kept
    IN  CASE op.handoff /\ ~undo -> [kept EXCEPT !.mode = EditMode(t), !.focus = t]
          [] op.handoff /\ undo -> [kept EXCEPT
                !.mode = IF Live(b) = {} THEN ComposeMode ELSE BoardMode,
                !.focus = IF Live(b) = {} THEN NoItem ELSE @,
                !.ins = Cardinality(Live(b))]
          [] OTHER -> source

MoveBoard ==
    \E undo \in BOOLEAN :
        LET op == BoardOperation(mem, undo) IN
        /\ Issuable("history")
        /\ BoardReady(mem, undo)
        /\ ~LockedMutation(Replayed(op, undo))
        /\ seq' = seq + 1
        /\ UNCHANGED <<locked, deferred, copied>>
        /\ IF MoveBoardHistory(mem, undo) = {}
           THEN fault' = "memory" /\ UNCHANGED <<mem, sto, ui>>
           ELSE \E r \in MoveBoardHistory(mem, undo) :
                    /\ mem' = r
                    /\ ui' = HistoryFocus(op, undo, r.board)
                    /\ Persist(StoreMoveBoardHistory(sto, undo))

MoveEditor ==
    \E t \in Thoughts \ locked, undo \in BOOLEAN :
        /\ Issuable("history")
        /\ EditorReady(mem, t, undo)
        /\ mem' \in MoveEditorHistory(mem, t, undo)
        /\ seq' = seq + 1
        /\ Persist(StoreMoveEditorHistory(sto, t, undo))
        /\ UNCHANGED <<ui, locked, deferred, copied>>

(***************************************************************************)
(* Navigation, restart.                                                    *)
(***************************************************************************)

FocusItem ==
    \E i \in Live(mem.board) \cup {NoItem} :
        /\ "focus" \in Commands /\ fault = "none"
        /\ ui' = [ui EXCEPT !.focus = i]
        /\ UNCHANGED <<mem, sto, locked, deferred, copied, seq, fault>>

EnterEdit ==
    \E t \in LiveThoughts(mem.board) \ locked :
        /\ "focus" \in Commands /\ fault = "none"
        /\ ui' = [ui EXCEPT !.focus = t, !.mode = EditMode(t)]
        /\ UNCHANGED <<mem, sto, locked, deferred, copied, seq, fault>>

LeaveMode ==
    \E mode \in {BoardMode, ComposeMode} :
        /\ "focus" \in Commands /\ fault = "none"
        /\ ui' = [ui EXCEPT !.mode = mode]
        /\ UNCHANGED <<mem, sto, locked, deferred, copied, seq, fault>>

\* from_snapshot: memory is what the store holds, also after a refused move.
Restart ==
    /\ fault # "store" /\ fault' = "none"
    /\ mem' = sto
    /\ ui' = FreshUi(sto.board)
    /\ locked' = {} /\ deferred' = <<>> /\ copied' = {}
    /\ UNCHANGED <<sto, seq>>

Next ==
    /\ UNCHANGED group
    /\ \/ CreateThought \/ CreateOwnedThoughts \/ InsertSeparator \/ DuplicateItems
       \/ DeleteItems \/ StageSubmissionRemoval \/ CommitDeferred
       \/ BeginSubmission \/ EndSubmission
       \/ MoveOneItem \/ MoveItems \/ RenameThought \/ SetPresentationMany
       \/ EditThought \/ SplitThought \/ MergeThoughts \/ ReflowThoughts
       \/ RequestCut \/ RequestExport \/ AbandonCopy \/ FinishCopy
       \/ MoveBoard \/ MoveEditor
       \/ FocusItem \/ EnterEdit \/ LeaveMode \/ Restart

Spec == Init /\ [][Next]_vars

(***************************************************************************)
(* Properties.                                                             *)
(***************************************************************************)

ItemType == [st : {"absent", "live", "trashed"}, pos : Nat, text : Texts,
             name : Names, fold : Folds, stamp : Nat]

ReplicaType(r) ==
    /\ r.board \in [Items -> ItemType]
    /\ r.cur \in 0 .. Len(r.ops)
    /\ \A t \in Thoughts : r.ecur[t] \in 0 .. Len(r.revs[t])

\* Type invariant of both replicas and of the interface state.
BoardTypeOK ==
    /\ ReplicaType(mem) /\ ReplicaType(sto)
    /\ ui.focus \in Items \cup {NoItem} /\ ui.ins \in Nat
    /\ locked \subseteq Thoughts
    /\ Len(deferred) <= 1
    /\ seq \in 0 .. MaxSeq
    /\ fault \in {"none", "memory", "store"}

\* The reducer and the store, which truncate redo branches by separate code,
\* hold the same board and histories whenever no staged removal is between
\* them, so that undo and redo survive a restart.
ReplicasAgree == fault = "none" /\ deferred = <<>> => mem = sto

\* The board move that a split at the end of a thought spoils.  That split
\* replaces the content of its source by the same content, so an editor
\* revision older than the split still matches and is not held back by it once
\* another board operation lies on top; undone out of turn, it leaves a content
\* that the inverse of the split no longer finds.
SpoiledSplit(undo) ==
    /\ HasBoardOperation(mem, undo)
    /\ \E k \in DOMAIN Replayed(BoardOperation(mem, undo), undo) :
         LET m == Replayed(BoardOperation(mem, undo), undo)[k] IN
         m.op = "replace" /\ m.before = m.after /\ mem.board[m.item].text # m.before

\* A command whose own preconditions hold is never refused by the mutation
\* algebra: the positions and contents recorded in a batch and in its inverse
\* stay applicable, whatever was done in between.  Only a spoiled split is.
MemoryAccepts == fault = "memory" => \E undo \in BOOLEAN : SpoiledSplit(undo)

\* The store never refuses an operation the reducer has accepted.
StoreAccepts == fault # "store"

\* What history_resolution calls ready can be replayed: the availability the
\* interface shows is never a promise the move then breaks, a spoiled split
\* apart.
ReadyMoves ==
    \A undo \in BOOLEAN : \A mode \in {BoardMode, ComposeMode} \cup {EditMode(t) : t \in Thoughts} :
        \A scope \in ResolvedScope(mem, mode, undo) :
            IF scope = NoItem THEN MoveBoardHistory(mem, undo) # {} \/ SpoiledSplit(undo)
            ELSE MoveEditorHistory(mem, scope, undo) # {}

\* The focused item is live and the next thought can be created at the
\* insertion index, after every command, undo and late removal.
CursorUsable ==
    /\ ui.focus \in Live(mem.board) \cup {NoItem}
    /\ ui.ins <= Cardinality(Live(mem.board))

\* Every step of the board cursor can be taken back at once and shows the
\* board it started from: a recorded or redone operation by its inverse, an
\* undone one by its forward mutation.
HistoryStepsReverse ==
    [][mem'.cur # mem.cur =>
         LET back == IF mem'.cur > mem.cur THEN mem'.ops[mem'.cur].inv
                     ELSE mem.ops[mem.cur].fwd
         IN  {Visible(b) : b \in ApplyMutation(mem'.board, back)} = {Visible(mem.board)}]_vars

\* A cut or an export removes exactly the contents that were written out.
RemovesOnlyWritten ==
    [][\A c \in copied \ copied' : seq' # seq =>
         \A t \in Live(mem.board) \ Live(mem'.board) :
            t \in DOMAIN c.from /\ mem.board[t].text = c.from[t]]_vars
=============================================================================

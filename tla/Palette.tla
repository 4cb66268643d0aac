------------------------------ MODULE Palette ------------------------------
(***************************************************************************)
(* The Commands overlay and the input barrier of a board:                  *)
(* ui/app/palette.rs and ui/app/palette/, ui/app/palette_handoff.rs, the   *)
(* routing of ui/app.rs and ui/app/input_dispatch.rs, the capture barrier  *)
(* of ui/app/screenshot/barrier.rs, and the part of the terminal loop that *)
(* draws, holds and admits inputs (adapters/terminal/runner/drive.rs).     *)
(*                                                                         *)
(* The overlay captures what the board is when it opens, keeps some of it  *)
(* fresh as results arrive, and runs a row by its index among rows that    *)
(* it computes again at each use; the frame on the screen is an older one. *)
(* While a capture is being saved inputs are put aside and replayed when   *)
(* the result arrives, without a frame between them.                       *)
(*                                                                         *)
(* The application is one record, ui: a replay is a fold of its handler.   *)
(* Thoughts keep a version of their text; what a command then does to the  *)
(* board is the subject of History, Submission, Transfer and Export.       *)
(* Left out: the other overlays, pointer gestures other than a press on a  *)
(* row (the repeat-press filter too), labels and shortcut hints, and the   *)
(* ranking of matches (they come in the order of their actions).           *)
(***************************************************************************)
EXTENDS Integers, Sequences, FiniteSets, SequencesExt, TLC

CONSTANTS
    Commands,     \* Seq of [id, applies, relevance, priority, category, exec]
    Hits,         \* the pairs <<query, id>> of a query and a matching command
    Letters,      \* what can be typed into the query
    Board,        \* the live thoughts, in board order
    Keys,         \* the kinds of input that occur
    ConciseLimit, \* rows of the concise view (7)
    Height,       \* rows the overlay can show
    DeferLimit,   \* inputs put aside during one save (64)
    MaxQuery,     \* bound on the query
    MaxText,      \* bound on a thought's version
    MaxTyped,     \* bound on inputs
    MaxChanges    \* bound on results and outside changes

VARIABLES
    ui,      \* the application (BoardApp)
    held,    \* the input the loop holds back, <<>> or one input
    redraw,  \* the loop owes a frame
    typed,   \* inputs typed so far
    changes  \* results and outside changes so far

vars == <<ui, held, redraw, typed, changes>>

Ids == {Commands[i].id : i \in DOMAIN Commands}
Thoughts == ToSet(Board)

NoHandoff == [t |-> 0, text |-> 0, sel |-> FALSE]
NoLayout == [shown |-> FALSE, rows |-> <<>>]
NoContext == [open |-> FALSE]

\* Geometry before the first frame and after a change of the rows.
Undrawn == [drawn |-> FALSE, rows |-> <<>>]
Stale == [drawn |-> TRUE, rows |-> <<>>]

NoPalette ==
    [query |-> <<>>, past |-> <<>>, future |-> <<>>, selected |-> 1, scroll |-> 0,
     expanded |-> FALSE, ctx |-> NoContext, rscroll |-> 0, rendered |-> Undrawn,
     seen |-> [t \in Thoughts |-> 0]]

IsOpen(u) == u.pal.ctx.open

-----------------------------------------------------------------------------
(* What Commands captures *)

ActionThoughts(u) ==
    LET chosen == SelectSeq(Board, LAMBDA t : t \in u.chosen)
    IN  IF chosen # <<>> THEN chosen
        ELSE IF u.focus = 0 THEN <<>> ELSE <<u.focus>>

Mutable(u, ids) == ids # <<>> /\ ~u.pendingOp /\ ToSet(ids) \cap u.locked = {}

Contiguous(ids) ==
    /\ Len(ids) >= 2
    /\ \E k \in 0..(Len(Board) - Len(ids)) : ids = SubSeq(Board, k + 1, k + Len(ids))

\* Some selected run of items has a neighbour to step over, and the selected
\* items and that neighbour may all be changed.
CanMove(u, up) ==
    LET edge == {i \in 1..Len(Board) :
                    /\ Board[i] \notin u.chosen
                    /\ LET j == IF up THEN i + 1 ELSE i - 1
                       IN  j \in 1..Len(Board) /\ Board[j] \in u.chosen}
    IN  /\ Cardinality(u.chosen) >= 2
        /\ edge # {}
        /\ (u.chosen \cup {Board[i] : i \in edge}) \cap u.locked = {}

RecoveryFacet(u) ==
    [failed |-> u.failed, retry |-> u.failed /\ u.retryable, quit |-> ~u.failed \/ u.exported]

PaletteAction(shot) ==
    CASE shot = "off" -> "enable"
      [] shot = "paused" -> "resume"
      [] shot = "listening" -> "disable"
      [] shot = "stopping" -> "unavailable"

ScreenshotFacet(u) == [action |-> PaletteAction(u.shot), retry |-> u.save = "ready"]

\* capture_command_context: everything is read once; the editor handoff is
\* taken, the selected thoughts are copied.
CaptureContext(u) ==
    LET ids == ActionThoughts(u)
    IN  [open |-> TRUE, mode |-> u.mode, items |-> Len(Board),
         thought |-> u.focus # 0, opPending |-> u.pendingOp,
         action |-> Mutable(u, ids),
         focused |-> u.focus # 0 /\ Mutable(u, <<u.focus>>),
         all |-> ToSet(Board) \cap u.locked = {},
         submit |-> u.submit, recovery |-> RecoveryFacet(u),
         refreshing |-> u.refreshing, shot |-> ScreenshotFacet(u),
         count |-> Cardinality(u.chosen), thoughts |-> Len(ids),
         contiguous |-> Contiguous(ids),
         up |-> CanMove(u, TRUE), down |-> CanMove(u, FALSE),
         handoff |-> u.handoff,
         merge |-> IF Len(ids) >= 2 THEN [i \in DOMAIN ids |-> <<ids[i], u.text[ids[i]]>>]
                   ELSE <<>>]

-----------------------------------------------------------------------------
(* Which commands apply, and which rows they make *)

WhenMutable(c) == c.thoughts > 0 /\ ~c.recovery.failed /\ c.action
WhenItem(c) == c.thought /\ ~c.recovery.failed /\ c.action
WhenFocused(c) == c.thought /\ ~c.recovery.failed /\ c.focused
WhenWritable(c) == ~c.recovery.failed /\ ~c.opPending
WhenHandoff(c, needsSelection) ==
    WhenMutable(c) /\ c.handoff.t # 0 /\ (needsSelection => c.handoff.sel)
InEdit(c) == c.mode = "edit"
BoardThought(c) == c.mode = "board" /\ c.thought
SubmitAll(c) == c.items > 0 /\ ~c.recovery.failed /\ c.all /\ c.submit
Reorder(c, room) == WhenItem(c) /\ (IF c.count > 1 THEN room ELSE c.items > 1)
InboxApplies(c) ==
    /\ c.shot.action # "unavailable"
    /\ c.shot.action \in {"enable", "resume"} => ~c.recovery.failed

Applies(kind, c, canUndo, canRedo) ==
    CASE kind = "Always" -> TRUE
      [] kind = "WritableBoard" -> WhenWritable(c)
      [] kind = "HasItems" -> c.items > 0
      [] kind = "BoardNonempty" -> c.items > 0 /\ c.mode = "board"
      [] kind = "Copy" -> IF InEdit(c) THEN c.handoff.sel ELSE c.thoughts > 0
      [] kind = "Cut" -> WhenMutable(c) /\ (InEdit(c) => c.handoff.sel)
      [] kind = "MutableItem" -> WhenItem(c)
      [] kind \in {"MutableThought", "Editor", "TransferKeep", "TransferRemove"} -> WhenMutable(c)
      [] kind = "Export" -> c.thoughts > 0
      [] kind = "FocusedMutableThought" -> WhenFocused(c)
      [] kind = "ReorderUp" -> Reorder(c, c.up)
      [] kind = "ReorderDown" -> Reorder(c, c.down)
      [] kind \in {"BoardItem", "BoardThought"} -> BoardThought(c)
      [] kind = "Submission" -> WhenMutable(c) /\ c.submit
      [] kind = "SubmissionAll" -> SubmitAll(c)
      [] kind = "ScreenshotRetry" -> ~c.recovery.failed /\ c.shot.retry
      [] kind = "Split" -> WhenHandoff(c, FALSE)
      [] kind = "Extract" -> WhenHandoff(c, TRUE)
      [] kind = "Merge" -> c.thoughts >= 2 /\ c.contiguous /\ WhenMutable(c)
      [] kind = "ScreenshotInbox" -> InboxApplies(c)
      [] kind = "RetryStorage" -> c.recovery.retry
      [] kind = "ExportRecovery" -> c.recovery.failed
      [] kind = "Quit" -> c.recovery.quit
      [] kind = "QueryUndo" -> canUndo
      [] kind = "QueryRedo" -> canRedo
      [] kind = "Attachments" -> ~c.refreshing

Relevant(cmd, c, canUndo, canRedo) ==
    /\ Applies(cmd.applies, c, canUndo, canRedo)
    /\ CASE cmd.relevance = "Always" -> TRUE
         [] cmd.relevance = "FocusedThought" -> c.thought
         [] cmd.relevance = "Selection" -> c.count >= 2
         [] cmd.relevance = "Editor" -> c.handoff.t # 0
         [] cmd.relevance = "Submission" -> c.submit
         [] cmd.relevance = "QueryUndo" -> canUndo
         [] cmd.relevance = "QueryRedo" -> canRedo
         [] cmd.relevance = "StorageRecovery" -> c.recovery.failed
         [] cmd.relevance = "ScreenshotActive" -> c.shot.action \in {"disable", "resume"}
         [] cmd.relevance = "ScreenshotRetry" -> c.shot.retry
         [] cmd.relevance = "Never" -> FALSE

Row(cmd, p) ==
    [act |-> "command", id |-> cmd.id,
     enabled |-> Applies(cmd.applies, p.ctx, p.past # <<>>, p.future # <<>>)]

MoreRow == [act |-> "expand", id |-> "more", enabled |-> TRUE]
NoMatchRow == [act |-> "none", id |-> "nothing", enabled |-> FALSE]

\* The registry in the order of a key; equal keys keep the order of actions.
ByPriority == SortSeq(Commands, LAMBDA x, y : x.priority < y.priority)
ByCategory == SortSeq(Commands, LAMBDA x, y : x.category < y.category)

Concise(p) ==
    LET relevant == SelectSeq(ByPriority, LAMBDA x : Relevant(x, p.ctx, p.past # <<>>, p.future # <<>>))
        n == IF Len(relevant) < ConciseLimit THEN Len(relevant) ELSE ConciseLimit
    IN  [i \in 1..n |-> Row(relevant[i], p)] \o <<MoreRow>>

ExpandedRows(p) == [i \in DOMAIN ByCategory |-> Row(ByCategory[i], p)]

Searched(p) ==
    LET found == SelectSeq(Commands, LAMBDA x : <<p.query, x.id>> \in Hits)
    IN  IF found = <<>> THEN <<NoMatchRow>> ELSE [i \in DOMAIN found |-> Row(found[i], p)]

\* The rows as they are now; nothing keeps the ones that were drawn.
Projected(p) ==
    IF p.query # <<>> THEN Searched(p)
    ELSE IF p.expanded THEN ExpandedRows(p) ELSE Concise(p)

Selectable(row) == row.enabled /\ row.act # "none"

\* clamp: the selection stays on a row that can be chosen, the scroll before it.
SelectableRows(rows) == {i \in DOMAIN rows : Selectable(rows[i])}
Nearest(at, selectable) ==
    IF at \in selectable THEN at
    ELSE IF selectable = {} THEN 1
    ELSE CHOOSE i \in selectable : \A j \in selectable : i <= j
SelectFrom(p, rows) ==
    Nearest(IF p.selected <= Len(rows) THEN p.selected ELSE Len(rows),
            SelectableRows(rows))
SelectAt(p, i) == [p EXCEPT !.selected = i, !.scroll = IF @ < i THEN @ ELSE i - 1]
Clamp(p) == SelectAt(p, SelectFrom(p, Projected(p)))

\* Mutated form of Invalidate: the geometry of the old rows is kept.
InvalidateNever(p) == p

Invalidate(p) == IF p.rendered.drawn THEN [p EXCEPT !.rendered = Stale] ELSE p

\* The highlighted row was a row of the last frame, or there was no frame yet.
HasGeometry(p) ==
    \/ ~p.rendered.drawn
    \/ LET i == IF p.selected > p.rscroll THEN p.selected - p.rscroll ELSE 1
       IN  i <= Len(p.rendered.rows) /\ p.rendered.rows[i]

\* refresh_context: the selected command keeps its place if it can still be
\* chosen, otherwise the selection starts again.
Reselect(q, same, offset) ==
    IF same = {} THEN Clamp([q EXCEPT !.selected = 1, !.scroll = 0])
    ELSE LET i == CHOOSE j \in same : TRUE
         IN  [q EXCEPT !.selected = i, !.scroll = IF i - 1 > offset THEN i - 1 - offset ELSE 0]
SameRow(rows, chosen) == {i \in DOMAIN rows : rows[i].id = chosen.id /\ Selectable(rows[i])}
Refresh(p, c) ==
    Reselect(Invalidate([p EXCEPT !.ctx = c]),
             SameRow(Projected([p EXCEPT !.ctx = c]), Projected(p)[p.selected]),
             p.selected - 1 - p.scroll)

\* move_selection: over the rows that cannot be chosen, as far as there are rows.
MoveAmong(p, selectable, up) ==
    LET ahead == {i \in selectable : IF up THEN i < p.selected ELSE i > p.selected}
        next == CHOOSE i \in ahead : \A j \in ahead : IF up THEN j <= i ELSE i <= j
    IN  IF selectable = {} THEN [p EXCEPT !.selected = 1]
        ELSE IF ahead = {} THEN p ELSE [p EXCEPT !.selected = next]
MoveSelection(p, up) == MoveAmong(p, SelectableRows(Projected(p)), up)

FirstVisible(selected, current, visible) ==
    IF selected - 1 < current THEN selected - 1
    ELSE IF selected - 1 >= current + visible THEN selected - visible ELSE current

-----------------------------------------------------------------------------
(* Commands at work.  "ran" is a history variable: the last command that was *)
(* run, the row the last frame showed in its place, and whether it changed   *)
(* text other than the text the thoughts had when Commands opened.           *)

NotRun == [id |-> "none", via |-> "none", shown |-> "none", replayed |-> FALSE, unseen |-> FALSE]

Close(u) == [u EXCEPT !.pal = NoPalette, !.frame = <<>>]

OpenPalette(u) ==
    LET c == CaptureContext(u)
        p == Clamp([NoPalette EXCEPT !.ctx = c, !.seen = u.text])
    IN  [u EXCEPT !.pal = p, !.handoff = NoHandoff, !.layout = NoLayout, !.frame = <<>>]

CaptureHandoff(u) ==
    [u EXCEPT !.handoff = IF u.mode = "edit" THEN [t |-> u.focus, text |-> u.text[u.focus], sel |-> u.sel]
                          ELSE NoHandoff]

\* Mutated form of ExactSource: the captured text is not compared.
ExactSourceAny(u, h) == h.t # 0

\* exact_handoff_source: the thought still has the captured text.
ExactSource(u, h) == h.t # 0 /\ u.text[h.t] = h.text

\* The reducer's check of a merge: the same thoughts, with the captured text.
ExactMerge(u, expected) ==
    LET ids == ActionThoughts(u)
    IN  /\ Len(ids) >= 2
        /\ expected = [i \in DOMAIN ids |-> <<ids[i], u.text[ids[i]]>>]

Rewrite(u, ids, seen) ==
    [u EXCEPT !.text = [t \in Thoughts |-> IF t \in ids /\ @[t] < MaxText THEN @[t] + 1 ELSE @[t]],
              !.chosen = {},
              !.ran.unseen = \E t \in ids : u.text[t] # seen[t]]

Split(u, c, seen) ==
    IF ExactSource(u, c.handoff) /\ c.handoff.t \notin u.locked
    THEN [Rewrite(u, {c.handoff.t}, seen) EXCEPT !.mode = "edit", !.focus = c.handoff.t] ELSE u

Merge(u, c, seen) ==
    IF ExactMerge(u, c.merge) /\ ToSet(ActionThoughts(u)) \cap u.locked = {}
    THEN Rewrite(u, ToSet(ActionThoughts(u)), seen) ELSE u

\* A capture that was not saved asks for a second request, which gives it up;
\* a failed save must be exported first.
RequestQuit(u) ==
    LET leaves == ~u.failed \/ u.exported
    IN  IF u.save # "ready" THEN [u EXCEPT !.quit = leaves]
        ELSE IF u.armed THEN [u EXCEPT !.save = "none", !.armed = FALSE, !.quit = leaves]
        ELSE [u EXCEPT !.armed = TRUE, !.shot = IF @ = "listening" THEN "stopping" ELSE @]

EnterEdit(u) ==
    IF u.focus = 0 \/ u.focus \in u.locked THEN u
    ELSE [u EXCEPT !.mode = "edit", !.sel = FALSE, !.chosen = {}, !.layout = NoLayout]

ToggleInbox(u) ==
    IF u.failed /\ u.shot \in {"off", "paused"} THEN u
    ELSE [u EXCEPT !.shot = CASE @ \in {"off", "paused"} -> "listening"
                              [] @ = "listening" -> "stopping"
                              [] OTHER -> @]

\* execute_command and the handlers it reaches.
Execute(u, exec, c, seen) ==
    CASE exec = "split" -> Split(u, c, seen)
      [] exec = "merge" -> Merge(u, c, seen)
      [] exec = "edit" -> EnterEdit(u)
      [] exec = "select_all" -> [(IF u.mode = "edit" THEN CaptureHandoff(u) ELSE u)
                                    EXCEPT !.chosen = Thoughts, !.mode = "board", !.layout = NoLayout]
      [] exec = "inbox" -> ToggleInbox(u)
      [] exec = "retry_capture" -> IF u.save = "ready" /\ ~u.failed THEN [u EXCEPT !.save = "inflight"] ELSE u
      [] exec = "retry_storage" -> IF u.failed /\ u.retryable THEN [u EXCEPT !.failed = FALSE] ELSE u
      [] exec = "refresh" -> [u EXCEPT !.refreshing = TRUE]
      [] exec = "quit" -> RequestQuit(u)
      [] OTHER -> u

CommandOf(id) == Commands[CHOOSE i \in DOMAIN Commands : Commands[i].id = id]

\* A change of the query by typing starts the selection again.
UpdateQuery(u, p) ==
    [u EXCEPT !.pal = Clamp(Invalidate([p EXCEPT !.selected = 1, !.scroll = 0])), !.layout = NoLayout]

\* Backspace, Delete, Undo and Redo keep the selection and the layout.
TrimQuery(u, p) == [u EXCEPT !.pal = Clamp(Invalidate(p))]

QueryUndo(p) ==
    IF p.past = <<>> THEN p
    ELSE [p EXCEPT !.query = Last(p.past), !.past = Front(@), !.future = Append(@, p.query)]

QueryRedo(p) ==
    IF p.future = <<>> THEN p
    ELSE [p EXCEPT !.query = Last(p.future), !.future = Front(@), !.past = Append(@, p.query)]

QueryBecomes(p, q) ==
    IF q = p.query THEN p ELSE [p EXCEPT !.query = q, !.past = Append(@, p.query), !.future = <<>>]

ShownAt(u, i) == IF i \in DOMAIN u.frame THEN u.frame[i] ELSE "none"

\* The overlay closes before the command runs, except for a request to quit that a
\* capture may still refuse.
CloseIfQuit(u) == IF u.quit THEN Close(u) ELSE u
RunCommand(u, exec, p) ==
    IF exec \in {"query_undo", "query_redo"}
    THEN UpdateQuery(u, IF exec = "query_undo" THEN QueryUndo(p) ELSE QueryRedo(p))
    ELSE CloseIfQuit(Execute(IF exec = "quit" /\ u.save = "ready" THEN u ELSE Close(u), exec, p.ctx, p.seen))
RunRow(u, row, via, shown) ==
    IF row.act = "expand" THEN UpdateQuery(u, [u.pal EXCEPT !.expanded = TRUE])
    ELSE IF ~Selectable(row) THEN u
    ELSE RunCommand([u EXCEPT !.ran = [id |-> row.id, via |-> via, shown |-> shown,
                                       replayed |-> u.replaying, unseen |-> FALSE]],
                    CommandOf(row.id).exec, u.pal)

\* execute_palette_index: the row is looked up among the rows of this moment.
ExecuteAmong(u, rows, i, via, shown) == IF i \in DOMAIN rows THEN RunRow(u, rows[i], via, shown) ELSE u
ExecuteIndex(u, i, via, shown) ==
    IF IsOpen(u) THEN ExecuteAmong(u, Projected(u.pal), i, via, shown) ELSE u

Enter(u) ==
    IF HasGeometry(u.pal) THEN ExecuteIndex(u, u.pal.selected, "enter", ShownAt(u, u.pal.selected - u.pal.rscroll)) ELSE u

\* A press on row i of the layout that is at hand: only rows that could be
\* chosen when the layout was made are targets.
Press(u, i, atPress) ==
    IF u.layout.shown /\ i \in DOMAIN u.layout.rows /\ u.layout.rows[i]
    THEN ExecuteIndex(u, u.pal.scroll + i, "press", atPress) ELSE u

Follow(p, visible) == [p EXCEPT !.scroll = FirstVisible(p.selected, @, visible)]
Scrolled(u, q) ==
    IF q.scroll = u.pal.scroll THEN [u EXCEPT !.pal = q]
    ELSE [u EXCEPT !.pal = Invalidate(q), !.layout = NoLayout]
MovePalette(u, up) ==
    Scrolled(u, Follow(MoveSelection(u.pal, up),
                       IF u.layout.shown /\ u.layout.rows # <<>> THEN Len(u.layout.rows) ELSE 1))

\* execute_bound_command: a shortcut takes the context of an open overlay, and
\* captures one otherwise; a command that does not apply is refused.
RunBound(w, cmd, c, seen) ==
    IF Applies(cmd.applies, c, FALSE, FALSE)
    THEN Execute([w EXCEPT !.ran = [id |-> cmd.id, via |-> "shortcut", shown |-> "none",
                                    replayed |-> w.replaying, unseen |-> FALSE]], cmd.exec, c, seen)
    ELSE w
BoundCommand(u, id) ==
    RunBound([Close(u) EXCEPT !.handoff = NoHandoff], CommandOf(id),
             IF IsOpen(u) THEN u.pal.ctx
             ELSE CaptureContext(IF u.mode = "edit" THEN CaptureHandoff(u) ELSE u),
             IF IsOpen(u) THEN u.pal.seen ELSE u.text)

PaletteInput(u, in) ==
    LET p == u.pal
    IN  CASE in.k = "escape" -> Close(u)
          [] in.k = "enter" -> Enter(u)
          [] in.k \in {"up", "down"} -> MovePalette(u, in.k = "up")
          [] in.k = "letter" -> IF Len(p.query) >= MaxQuery THEN u
                                ELSE UpdateQuery(u, QueryBecomes(p, Append(p.query, in.a)))
          [] in.k = "backspace" -> TrimQuery(u, QueryBecomes(p, IF p.query = <<>> THEN <<>> ELSE Front(p.query)))
          [] in.k = "undo" -> TrimQuery(u, QueryUndo(p))
          [] in.k = "redo" -> TrimQuery(u, QueryRedo(p))
          [] in.k = "press" -> Press(u, in.a, in.shown)
          [] in.k = "shortcut" -> BoundCommand(u, in.a)
          [] in.k = "resize" -> [u EXCEPT !.pal = Invalidate(p), !.layout = NoLayout]
          [] OTHER -> u

\* handle_primary_input: only opening Commands keeps the editor handoff.
PrimaryInput(u, in) ==
    LET v == IF in.k \in {"open", "resize"} THEN u ELSE [u EXCEPT !.handoff = NoHandoff]
        board == u.mode = "board"
    IN  CASE in.k = "open" -> OpenPalette(IF board THEN v ELSE CaptureHandoff(v))
          [] in.k = "escape" /\ ~board -> [CaptureHandoff(v) EXCEPT !.mode = "board"]
          [] in.k = "enter" /\ board -> EnterEdit(v)
          [] in.k = "letter" /\ ~board /\ u.focus \notin u.locked ->
                [v EXCEPT !.text[u.focus] = IF @ < MaxText THEN @ + 1 ELSE @, !.sel = FALSE]
          [] in.k \in {"up", "down"} /\ ~board -> [v EXCEPT !.sel = TRUE]
          [] in.k = "shortcut" -> BoundCommand(v, in.a)
          [] in.k = "resize" -> [v EXCEPT !.layout = NoLayout]
          [] OTHER -> v

\* A failed save leaves Commands, its own shortcuts and passive inputs.
RecoveryInput(u, in) ==
    CASE in.k = "open" -> OpenPalette(u)
      [] in.k = "shortcut" /\ CommandOf(in.a).exec = "retry_storage" -> Execute(u, "retry_storage", NoContext, u.text)
      [] in.k = "resize" -> PrimaryInput(u, in)
      [] OTHER -> u

ActiveOwner(u) == IF IsOpen(u) THEN "commands" ELSE IF u.failed THEN "recovery" ELSE u.mode

Deliberate(in) == in.k # "resize"

\* handle_screenshot_commit_barrier
Barrier(u, in) ==
    IF ~Deliberate(in) THEN PrimaryInput(u, in)
    ELSE IF Len(u.deferred) < DeferLimit
    THEN [u EXCEPT !.deferred = Append(@, [in EXCEPT !.layout = IF in.k = "press" THEN u.layout ELSE NoLayout])]
    ELSE u

SaveInFlight(u) == u.save = "inflight"

\* handle_routed.  "last" is the last deliberate input that was handled.
Routed(u, in) ==
    CASE in.k = "quit" -> RequestQuit(u)
      [] in.k # "quit" /\ ActiveOwner(u) = "commands" -> PaletteInput(u, in)
      [] in.k # "quit" /\ ActiveOwner(u) = "recovery" -> RecoveryInput(u, in)
      [] OTHER -> PrimaryInput(u, in)
Handled(v, in, armed) ==
    IF Deliberate(in) THEN [v EXCEPT !.last = in.n, !.armed = @ /\ ~armed] ELSE v
Handle(u, in) == IF SaveInFlight(u) THEN Barrier(u, in) ELSE Handled(Routed(u, in), in, u.armed)

\* replay_screenshot_inputs: each input that was put aside is handled again,
\* a press with the layout it was made on; a request to quit ends the replay.
ReplayOne(u, in) ==
    IF u.quit THEN u
    ELSE Handle(IF in.k = "press" THEN [u EXCEPT !.layout = in.layout] ELSE u, in)

Replay(u) ==
    [FoldLeft(ReplayOne, [u EXCEPT !.deferred = <<>>, !.replaying = TRUE], u.deferred)
        EXCEPT !.replaying = FALSE]

-----------------------------------------------------------------------------
(* The terminal loop *)

InitialUi ==
    [mode |-> "board", focus |-> Head(Board), chosen |-> {}, text |-> [t \in Thoughts |-> 0],
     locked |-> {}, pendingOp |-> FALSE, sel |-> FALSE, failed |-> FALSE, retryable |-> TRUE,
     exported |-> FALSE, submit |-> FALSE, shot |-> "listening", pausing |-> FALSE, save |-> "none",
     refreshing |-> FALSE, quit |-> FALSE, armed |-> FALSE, handoff |-> NoHandoff, pal |-> NoPalette,
     layout |-> NoLayout, deferred |-> <<>>, replaying |-> FALSE, frame |-> <<>>, ran |-> NotRun, last |-> 0]

Init ==
    /\ \E mode \in {"board", "edit"}, chosen \in {{}, Thoughts} :
          ui = [InitialUi EXCEPT !.mode = mode, !.chosen = IF mode = "edit" THEN {} ELSE chosen]
    /\ held = <<>>
    /\ redraw = TRUE
    /\ typed = 0
    /\ changes = 0

\* prepare_frame: the scroll follows the selection, the overlay shows what
\* fits, and the geometry of what it shows is recorded.
Fits(rows, scroll) == IF Len(rows) - scroll < Height THEN Len(rows) - scroll ELSE Height
Visible(rows, scroll) == IF Fits(rows, scroll) < 1 THEN 1 ELSE Fits(rows, scroll)
Window(rows, scroll) == SubSeq(rows, scroll + 1, scroll + Fits(rows, scroll))
Drawn(u, q, rows) ==
    LET chosen == [i \in DOMAIN rows |-> Selectable(rows[i])]
    IN  [u EXCEPT !.pal = [q EXCEPT !.rscroll = q.scroll, !.rendered = [drawn |-> TRUE, rows |-> chosen]],
                  !.frame = [i \in DOMAIN rows |-> rows[i].id],
                  !.layout = [shown |-> TRUE, rows |-> chosen]]
DrawnWindow(u, q, rows) == Drawn(u, q, Window(rows, q.scroll))
DrawnPalette(u, q, rows) == DrawnWindow(u, Follow(q, Visible(rows, u.pal.scroll)), rows)

Draw ==
    /\ redraw
    /\ redraw' = FALSE
    /\ ui' = IF IsOpen(ui)
             THEN DrawnPalette(ui, Clamp(ui.pal), Projected(ui.pal))
             ELSE [ui EXCEPT !.layout = [shown |-> TRUE, rows |-> <<>>], !.frame = <<>>]
    /\ UNCHANGED <<held, typed, changes>>

\* Mutated form of Accepts: one input too many is taken from the lane.
AcceptsOneMore(in) == ~SaveInFlight(ui) \/ ~Deliberate(in) \/ Len(ui.deferred) <= DeferLimit

\* screenshot_barrier_accepts
Accepts(in) == ~SaveInFlight(ui) \/ ~Deliberate(in) \/ Len(ui.deferred) < DeferLimit

Arguments(k) ==
    CASE k = "letter" -> Letters
      [] k = "press" -> 1..Height
      [] k = "shortcut" -> Ids
      [] OTHER -> {"none"}

Input(k, a) == [n |-> typed + 1, k |-> k, a |-> a, layout |-> NoLayout, shown |-> "none"]

\* An admitted press is noted with the row the frame of that moment shows.
Admit(in) ==
    /\ ui' = Handle(ui, [in EXCEPT !.shown = IF in.k = "press" THEN ShownAt(ui, in.a) ELSE "none"])
    /\ redraw' = TRUE

\* The loop takes one input from the lane, or holds it back.
ReadInput ==
    /\ ~redraw /\ held = <<>> /\ ~ui.quit
    /\ typed < MaxTyped
    /\ \E k \in Keys : \E a \in Arguments(k) :
          LET in == Input(k, a)
          IN  /\ typed' = IF Deliberate(in) THEN typed + 1 ELSE typed
              /\ IF Accepts(in) THEN Admit(in) /\ held' = <<>>
                 ELSE held' = <<in>> /\ UNCHANGED <<ui, redraw>>
    /\ UNCHANGED changes

AdmitHeld ==
    /\ ~redraw /\ held # <<>>
    /\ Accepts(Head(held))
    /\ Admit(Head(held))
    /\ held' = <<>>
    /\ UNCHANGED <<typed, changes>>

-----------------------------------------------------------------------------
(* Results and changes from outside *)

RefreshScreenshot(u) ==
    IF ~IsOpen(u) THEN u
    ELSE [u EXCEPT !.pal = Refresh(u.pal, [u.pal.ctx EXCEPT !.shot = ScreenshotFacet(u)]), !.layout = NoLayout]

\* Mutated form of RefreshSubmission: the overlay keeps what it captured.
RefreshSubmissionNever(u) == u

RefreshSubmission(u) ==
    IF ~IsOpen(u) THEN u
    ELSE [u EXCEPT !.pal = Refresh(u.pal, [u.pal.ctx EXCEPT !.submit = u.submit]), !.layout = NoLayout]

RefreshRecovery(u) ==
    IF ~IsOpen(u) THEN u
    ELSE [u EXCEPT !.pal = Refresh(u.pal, [u.pal.ctx EXCEPT !.recovery = RecoveryFacet(u)]), !.layout = NoLayout]

RefreshAttachments(u) ==
    IF ~IsOpen(u) THEN u
    ELSE [u EXCEPT !.pal = Refresh(u.pal, [u.pal.ctx EXCEPT !.refreshing = u.refreshing]), !.layout = NoLayout]

Change(u, drawn) ==
    /\ changes < MaxChanges
    /\ changes' = changes + 1
    /\ ui' = u
    /\ redraw' = (redraw \/ drawn)
    /\ UNCHANGED <<held, typed>>

\* advance_screenshot_capture
CaptureStarts ==
    /\ ui.shot \in {"listening", "stopping"} /\ ui.save = "none" /\ ~ui.failed /\ ~ui.pendingOp
    /\ Change([ui EXCEPT !.save = "inflight"], TRUE)

\* The capture could not even be prepared; no result, no refresh, no frame.
CapturePrepareFails ==
    /\ ui.shot \in {"listening", "stopping"} /\ ui.save = "none" /\ ~ui.failed /\ ~ui.pendingOp
    /\ Change([ui EXCEPT !.save = "ready"], FALSE)

\* complete_screenshot_capture: the facet is refreshed, then inputs replay.
CaptureEnds ==
    /\ ui.save = "inflight"
    /\ \E ok \in BOOLEAN :
          Change(Replay(RefreshScreenshot(
                    IF ok THEN [ui EXCEPT !.save = "none"]
                    ELSE [ui EXCEPT !.save = "ready", !.shot = IF @ = "listening" THEN "stopping" ELSE @])),
                 TRUE)

\* advance_screenshot_activity: the inbox pauses itself between frames.
AutoPause ==
    /\ ui.shot = "listening" /\ ~ui.quit
    /\ Change(RefreshScreenshot([ui EXCEPT !.shot = "stopping", !.pausing = TRUE]), FALSE)

InboxStopped ==
    /\ ui.shot = "stopping" /\ ~SaveInFlight(ui)
    /\ Change(RefreshScreenshot([ui EXCEPT !.shot = IF ui.pausing THEN "paused" ELSE "off", !.pausing = FALSE]), TRUE)

AgentsFound ==
    \E found \in BOOLEAN \ {ui.submit} : Change(RefreshSubmission([ui EXCEPT !.submit = found]), TRUE)

ChecksDone ==
    /\ ui.refreshing
    /\ Change(RefreshAttachments([ui EXCEPT !.refreshing = FALSE]), TRUE)

\* acknowledge_persistence_result with a failure closes Commands.
SaveFails ==
    /\ ~ui.failed /\ ~SaveInFlight(ui)
    /\ \E retryable \in BOOLEAN :
          Change(Close([ui EXCEPT !.failed = TRUE, !.retryable = retryable, !.exported = FALSE, !.quit = FALSE,
                                  !.layout = IF IsOpen(ui) THEN NoLayout ELSE @]), TRUE)

RecoveryExported ==
    /\ ui.failed /\ ~ui.exported
    /\ Change(RefreshRecovery([ui EXCEPT !.exported = TRUE]), TRUE)

\* Another process edits a thought, or a submission takes and frees one.
ControlEdits ==
    \E t \in Thoughts \ ui.locked :
       /\ ~ui.failed /\ ~SaveInFlight(ui) /\ ui.text[t] < MaxText
       /\ Change([ui EXCEPT !.text[t] = @ + 1], TRUE)

Locks == \E t \in Thoughts : Change([ui EXCEPT !.locked = IF t \in @ THEN @ \ {t} ELSE @ \cup {t}], TRUE)

BoardOperation == ~SaveInFlight(ui) /\ Change([ui EXCEPT !.pendingOp = ~@], TRUE)

Next ==
    \/ Draw \/ ReadInput \/ AdmitHeld
    \/ CaptureStarts \/ CapturePrepareFails \/ CaptureEnds \/ AutoPause \/ InboxStopped
    \/ AgentsFound \/ ChecksDone \/ SaveFails \/ RecoveryExported
    \/ ControlEdits \/ Locks \/ BoardOperation

Spec == Init /\ [][Next]_vars

-----------------------------------------------------------------------------
(* Properties *)

\* The overlay's selection is a row and the inputs put aside are within their
\* limit (PaletteState, deferred_inputs).
TypeOK ==
    /\ IsOpen(ui) => ui.pal.selected \in 1..Len(Projected(ui.pal)) /\ ui.pal.scroll \in 0..Len(Commands)
    /\ Len(ui.deferred) <= DeferLimit
    /\ held = <<>> \/ Len(held) = 1
    /\ ui.save \in {"none", "inflight", "ready"}
    /\ ui.shot \in {"off", "listening", "stopping", "paused"}

\* A command run by Enter or by a press is the one the last frame showed at
\* that place (selected_has_rendered_geometry, the layout's hit targets): rows
\* that a result reordered since are not run.  A replay has no frames: there
\* Enter may run a row of an overlay that was never drawn.
RunsWhatIsShown ==
    /\ ui.ran.via = "enter" =>
          ui.ran.id = ui.ran.shown \/ (ui.ran.replayed /\ ui.ran.shown = "none")
    /\ ui.ran.via = "press" /\ ~ui.ran.replayed => ui.ran.id = ui.ran.shown

\* A transformation chosen in Commands changes only text that is still the text
\* the thoughts had when Commands opened (exact_handoff_source, MergeThoughts).
TransformsWhatWasSeen == ~ui.ran.unseen

\* What an open overlay says of agents, recovery, attachment checks and the
\* inbox is what the board knows now: every result that changes one refreshes
\* it (palette/refresh.rs).  Only the inbox may lag: when a capture waits for
\* its retry, or after a request to quit gave that capture up
\* (handle_ready_capture_quit refreshes nothing).
FacetsAreLive ==
    IsOpen(ui) =>
        /\ ui.pal.ctx.submit = ui.submit
        /\ ui.pal.ctx.recovery = RecoveryFacet(ui)
        /\ ui.pal.ctx.refreshing = ui.refreshing
        /\ ui.save = "ready" \/ ui.quit \/ ui.failed \/ ui.pal.ctx.shot = ScreenshotFacet(ui)

\* Deliberate inputs are handled in the order they were typed and none is lost
\* while the program does not quit: what is handled, put aside and held is a
\* prefix of what was typed (barrier.rs, held_input in drive.rs).
InputsInOrder ==
    LET waiting == ui.deferred \o held
    IN  ~ui.quit =>
            /\ \A i \in DOMAIN waiting : waiting[i].n = ui.last + i
            /\ typed = ui.last + Len(waiting)

\* Commands and the capture barrier (ui/app/palette, ui/app/screenshot/barrier): the row on the
\* screen is the one that runs, on the text that was seen, in the order of the inputs.
PaletteSafe == TypeOK /\ RunsWhatIsShown /\ TransformsWhatWasSeen /\ FacetsAreLive /\ InputsInOrder
=============================================================================

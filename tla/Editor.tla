------------------------------- MODULE Editor -------------------------------
(***************************************************************************)
(* One thought open in the editor: the rope editor's state and commands,   *)
(* the folded ranges (annotations) laid over the exact text, the mapping    *)
(* between canonical offsets and the text that is drawn, and the coalesced *)
(* revision the edits become.                                              *)
(*                                                                         *)
(* A character is an identity and a class, one byte and one cell wide, so  *)
(* that an offset is a number of characters and a fold can remember        *)
(* which characters it was laid over.  Texts hold letters, spaces and line *)
(* breaks: the list rules (smart newline, outdent) and sentence ends inside *)
(* a paragraph need markers and punctuation, which are left out.  The      *)
(* preferred column and the row affinity of the cursor are left open: a    *)
(* vertical move ends in any cell of its row, and a cursor on a boundary    *)
(* shared by two rows may be in either.                                    *)
(***************************************************************************)
EXTENDS Integers, Sequences, FiniteSets, SequencesExt, FiniteSetsExt

CONSTANTS
    Typed,       \* classes of the characters typed
    Pastes,      \* pasted texts that fold: sequences of classes
    Width,       \* cells in a row of the editor
    Label,       \* cells of a collapsed fold's placeholder
    Suffix,      \* cells an expanded fold's health notice takes
    MaxLen,      \* bound on the text's length
    MaxFresh,    \* bound on characters ever typed or pasted
    MaxEdits     \* bound on changes, undo and redo steps included

None == -1

VARIABLES
    ed,        \* the rope editor: text, cursor, selection anchor
    annots,    \* current folds, in order: [start, end, ids]
    expanded,  \* expanded_folds of this thought: indices into annots
    thought,   \* the board's content and annotations of the thought
    hist,      \* revisions of the thought, the history cursor, the pending edit
    fresh,     \* next character identity
    edits      \* changes so far

vars == <<ed, annots, expanded, thought, hist, fresh, edits>>

-----------------------------------------------------------------------------
(* Text *)

Sub(t, a, b) == SubSeq(t, a + 1, b)
Ids(t) == [i \in DOMAIN t |-> t[i].id]
Chars(classes, first) == [i \in DOMAIN classes |-> [id |-> first + i - 1, c |-> classes[i]]]

Lo(a, b) == IF a < b THEN a ELSE b
Hi(a, b) == IF a < b THEN b ELSE a

LineStart(t, b) == Max({0} \cup {p \in 1..b : t[p].c = "nl"})
LineContentEnd(t, b) == Min({Len(t)} \cup {p - 1 : p \in {q \in (b + 1)..Len(t) : t[q].c = "nl"}})
LineEnd(t, b) == Lo(LineContentEnd(t, b) + 1, Len(t))

\* Starts and ends of the words (runs of letters).
WordStarts(t) == {p \in 0..(Len(t) - 1) : t[p + 1].c = "x" /\ (p = 0 \/ t[p].c # "x")}
WordEnds(t) == {p \in 1..Len(t) : t[p].c = "x" /\ (p = Len(t) \/ t[p + 1].c # "x")}
WordEndFrom(t, s) == Min({e \in WordEnds(t) : e > s})

WordBack(t, c) == Max({0} \cup {s \in WordStarts(t) : s < c})
WordForward(t, c) ==
    LET ahead == {s \in WordStarts(t) : c < WordEndFrom(t, s)}
    IN  IF ahead = {} THEN Len(t)
        ELSE LET s == Min(ahead) IN IF c >= s THEN WordEndFrom(t, s) ELSE s

\* segment_end: a row ends after its last space if the next letter does not fit.
SegmentEnd(t, s, end) ==
    IF end - s <= Width THEN end
    ELSE LET breaks == {e \in (s + 1)..(s + Width) : t[e].c = "sp"}
         IN  IF breaks = {} THEN s + Width ELSE Max(breaks)

\* wrap_rows: a line whose last row is full is followed by an empty row.
WrapRows(t) ==
    LET rows[p \in 0..(Len(t) + 1)] ==
            IF p > Len(t) THEN << >>
            ELSE LET end == LineContentEnd(t, p)
                     stop == SegmentEnd(t, p, end)
                     row == <<[s |-> p, e |-> stop]>>
                 IN  IF stop < end THEN row \o rows[stop]
                     ELSE row
                          \o (IF stop - p = Width THEN <<[s |-> end, e |-> end]>> ELSE << >>)
                          \o rows[end + 1]
    IN  rows[0]

\* byte_at_cell: the offsets the cells of a row stand for.
RowBytes(row) == row.s..row.e

\* wrapped_row_index_with_affinity, for both affinities.
RowsAt(rows, byte) ==
    LET holds == {i \in DOMAIN rows : \/ rows[i].s = rows[i].e /\ byte = rows[i].s
                                      \/ byte >= rows[i].s /\ byte < rows[i].e}
        starts == {i \in DOMAIN rows : rows[i].s <= byte}
        index == IF holds # {} THEN Min(holds) ELSE IF starts # {} THEN Max(starts) ELSE 1
    IN  {index} \cup {i \in {index - 1} \cap DOMAIN rows : rows[index].s = byte /\ rows[i].e = byte}

-----------------------------------------------------------------------------
(* Changes and the folds they carry along *)

\* replace_byte_ranges: the new text and the coordinates of each replacement.
NewText(t, repl) ==
    FoldRight(LAMBDA r, acc : Sub(acc, 0, r.s) \o r.text \o Sub(acc, r.e, Len(acc)), repl, t)
Changes(repl) ==
    [i \in DOMAIN repl |->
        LET shift == FoldLeft(LAMBDA n, r : n + Len(r.text) - (r.e - r.s), 0, SubSeq(repl, 1, i - 1))
        IN  [os |-> repl[i].s, oe |-> repl[i].e,
             ns |-> repl[i].s + shift, ne |-> repl[i].s + shift + Len(repl[i].text)]]

\* TextChangeSet::map_valid_offset with OffsetAffinity::After: the cursor's way.
MapCursor(o, cs) ==
    LET hit == {i \in DOMAIN cs : \/ o < cs[i].os
                                  \/ cs[i].os = cs[i].oe /\ o = cs[i].os
                                  \/ o < cs[i].oe}
        past == IF hit = {} THEN Len(cs) ELSE Min(hit) - 1
        kept == IF past = 0 THEN o ELSE cs[past].ne + (o - cs[past].oe)
    IN  IF hit = {} \/ o < cs[Min(hit)].os THEN kept ELSE cs[Min(hit)].ne

\* Mutated form of MapOffset: a fold's start does not move past text inserted at it.
MapOffsetBefore(o, cs, affinity) ==
    LET hit == {i \in DOMAIN cs : o <= cs[i].oe}
        past == IF hit = {} THEN Len(cs) ELSE Min(hit) - 1
        kept == IF past = 0 THEN o ELSE cs[past].ne + (o - cs[past].oe)
    IN  IF hit = {} \/ o < cs[Min(hit)].os THEN kept ELSE cs[Min(hit)].ns

\* map_offset of the annotation ranges.
MapOffset(o, cs, affinity) ==
    LET hit == {i \in DOMAIN cs : o <= cs[i].oe}
        past == IF hit = {} THEN Len(cs) ELSE Min(hit) - 1
        kept == IF past = 0 THEN o ELSE cs[past].ne + (o - cs[past].oe)
    IN  IF hit = {} \/ o < cs[Min(hit)].os THEN kept
        ELSE IF affinity = "before" THEN cs[Min(hit)].ns ELSE cs[Min(hit)].ne

\* intersects: an insertion touches a fold only strictly inside it.
Intersects(a, c) ==
    IF c.os = c.oe THEN a.start < c.os /\ c.os < a.end
    ELSE c.os < a.end /\ a.start < c.oe

ValidAnnotations(t, as) ==
    \A i \in DOMAIN as :
        /\ as[i].start < as[i].end
        /\ as[i].end <= Len(t)
        /\ as[i].start >= IF i = 1 THEN 0 ELSE as[i - 1].end

\* rebase_annotations: touched folds dissolve, the others move; a result that
\* is not valid leaves plain text.
Rebase(after, cs, as, inserted) ==
    LET kept == SelectSeq(as, LAMBDA a : \A i \in DOMAIN cs : ~Intersects(a, cs[i]))
        moved == [i \in DOMAIN kept |->
                    [kept[i] EXCEPT !.start = MapOffset(@, cs, "after"),
                                    !.end = MapOffset(@, cs, "before")]]
        placed == [i \in DOMAIN inserted |->
                    [inserted[i] EXCEPT !.start = cs[1].ns + @, !.end = cs[1].ns + @]]
        all == SelectSeq(moved, LAMBDA a : a.start < a.end) \o placed
        sorted == SortSeq(all, LAMBDA a, b : a.start < b.start)
    IN  IF inserted # << >> /\ Len(cs) # 1 THEN << >>
        ELSE IF ValidAnnotations(after, sorted) THEN sorted ELSE << >>

-----------------------------------------------------------------------------
(* What is drawn *)

\* project_with_health: one substitution per fold, with its place in the drawn text.
Substitutions(as, open) ==
    LET size(i) == IF i \in open THEN as[i].end - as[i].start + Suffix ELSE Label
        shift[i \in 0..Len(as)] ==
            IF i = 0 THEN 0 ELSE shift[i - 1] + size(i) - (as[i].end - as[i].start)
    IN  [i \in DOMAIN as |->
            [ix |-> i, cs |-> as[i].start, ce |-> as[i].end, collapsed |-> i \notin open,
             s |-> as[i].start + shift[i - 1],
             e |-> as[i].start + shift[i - 1] + size(i),
             content |-> as[i].start + shift[i - 1]
                         + IF i \in open THEN as[i].end - as[i].start ELSE Label]]

Cell == [id |-> 0, c |-> "x"]
Drawn(t, as, open) ==
    FoldRight(LAMBDA i, acc :
                 IF i \in open
                 THEN Sub(acc, 0, as[i].end) \o [k \in 1..Suffix |-> Cell]
                      \o Sub(acc, as[i].end, Len(acc))
                 ELSE Sub(acc, 0, as[i].start) \o [k \in 1..Label |-> Cell]
                      \o Sub(acc, as[i].end, Len(acc)),
              [i \in DOMAIN as |-> i], t)

\* The offset of a byte past every fold in front of it.
PastFolds(byte, folds, from, to) ==
    LET front == {i \in DOMAIN folds : folds[i][from] < byte}
    IN  IF front = {} THEN byte
        ELSE folds[Max(front)][to] + (byte - folds[Max(front)][from])

Project(byte, folds) ==
    LET on == {i \in DOMAIN folds : folds[i].cs <= byte /\ byte <= folds[i].ce}
    IN  IF on = {} THEN PastFolds(byte, folds, "ce", "e")
        ELSE LET f == folds[Min(on)]
             IN  IF ~f.collapsed THEN Lo(f.s + (byte - f.cs), f.content)
                 ELSE IF byte = f.cs THEN f.s ELSE f.e

\* Mutated form of Unproject: a placeholder's cells stand for the text behind them.
UnprojectInside(byte, folds) ==
    LET on == {i \in DOMAIN folds : folds[i].s <= byte /\ byte <= folds[i].e}
    IN  IF on = {} THEN PastFolds(byte, folds, "e", "ce")
        ELSE LET f == folds[Min(on)]
             IN  IF byte >= f.content THEN f.ce ELSE Lo(f.cs + (byte - f.s), f.ce)

Unproject(byte, folds) ==
    LET on == {i \in DOMAIN folds : folds[i].s <= byte /\ byte <= folds[i].e}
    IN  IF on = {} THEN PastFolds(byte, folds, "e", "ce")
        ELSE LET f == folds[Min(on)]
             IN  IF f.collapsed \/ byte >= f.content THEN f.ce ELSE f.cs + (byte - f.s)

UnprojectBoundary(byte, folds, edge) ==
    LET on == {i \in DOMAIN folds : folds[i].s <= byte /\ byte <= folds[i].e}
    IN  IF on = {} THEN PastFolds(byte, folds, "e", "ce")
        ELSE LET f == folds[Min(on)]
             IN  IF byte = f.s THEN f.cs
                 ELSE IF ~f.collapsed /\ byte < f.content THEN f.cs + (byte - f.s)
                 ELSE IF edge = "start" /\ byte < f.e THEN f.cs ELSE f.ce

Folds == Substitutions(annots, expanded)
DrawnRows == WrapRows(Drawn(ed.text, annots, expanded))

-----------------------------------------------------------------------------
(* The rope editor *)

HasSelection(e) == e.anchor # None /\ e.anchor # e.cursor
SelStart(e) == IF HasSelection(e) THEN Lo(e.anchor, e.cursor) ELSE e.cursor
SelEnd(e) == IF HasSelection(e) THEN Hi(e.anchor, e.cursor) ELSE e.cursor

\* set_cursor_byte_with_affinity
SetCursor(e, byte, extend) ==
    [e EXCEPT !.anchor = IF ~extend THEN None ELSE IF @ = None THEN e.cursor ELSE @,
              !.cursor = Lo(byte, Len(e.text))]
SetRange(e, a, b) == SetCursor(SetCursor(e, a, FALSE), b, TRUE)

Backwards == {"back", "word_back", "up", "line_start", "doc_start"}
Forwards == {"forward", "word_forward", "down", "line_end", "doc_end"}

\* vertical_target: a cell in the row above or below.
Vertical(t, cursor, step) ==
    LET rows == WrapRows(t)
    IN  UNION {RowBytes(rows[Hi(1, Lo(Len(rows), at + step))]) : at \in RowsAt(rows, cursor)}

\* move_cursor: where a movement may end.
Targets(e, movement) ==
    LET t == e.text
    IN  CASE movement = "back" -> {Hi(0, e.cursor - 1)}
          [] movement = "forward" -> {Lo(Len(t), e.cursor + 1)}
          [] movement = "word_back" -> {WordBack(t, e.cursor)}
          [] movement = "word_forward" -> {WordForward(t, e.cursor)}
          [] movement = "line_start" -> {LineStart(t, e.cursor)}
          [] movement = "line_end" -> {LineContentEnd(t, e.cursor)}
          [] movement = "doc_start" -> {0}
          [] movement = "doc_end" -> {Len(t)}
          [] movement = "up" -> Vertical(t, e.cursor, -1)
          [] movement = "down" -> Vertical(t, e.cursor, 1)

\* selection_range_at
RangeAt(t, byte, granularity) ==
    LET words == {s \in WordStarts(t) : s <= byte /\ byte < WordEndFrom(t, s)}
    IN  CASE granularity = "grapheme" -> <<byte, byte>>
          [] granularity = "line" -> <<LineStart(t, byte), LineEnd(t, byte)>>
          [] granularity = "word" ->
                IF words # {} THEN <<Max(words), WordEndFrom(t, Max(words))>>
                ELSE IF byte = LineContentEnd(t, byte) THEN <<byte, byte>>
                ELSE <<byte, byte + 1>>

\* extend_pointer_selection
PointerTo(e, base, target) ==
    IF target[2] <= base[1] THEN [e EXCEPT !.anchor = base[2], !.cursor = target[1]]
    ELSE IF target[1] >= base[2] THEN [e EXCEPT !.anchor = base[1], !.cursor = target[2]]
    ELSE [e EXCEPT !.anchor = base[1], !.cursor = base[2]]

\* begin_pointer_selection: what a press may grow from, at one of the bytes or,
\* extending, where the selection there is began.
PointerBase(e, bytes, granularity) ==
    LET from == IF e.anchor = None THEN e.cursor ELSE e.anchor
    IN  UNION {{RangeAt(e.text, b, granularity), <<from, from>>} : b \in bytes}

\* finish_mutation of a single replaced range: the cursor ends behind it.
Replaced(e, s, t, chars) ==
    LET repl == <<[s |-> s, e |-> t, text |-> chars]>>
    IN  [ed |-> [text |-> NewText(e.text, repl), cursor |-> s + Len(chars), anchor |-> None],
         changes |-> Changes(repl)]

\* replace_byte_ranges: cursor and anchor are carried along.
ReplacedMany(e, repl) ==
    LET cs == Changes(repl)
    IN  [ed |-> [text |-> NewText(e.text, repl), cursor |-> MapCursor(e.cursor, cs),
                 anchor |-> IF e.anchor = None THEN None ELSE MapCursor(e.anchor, cs)],
         changes |-> cs]

Unchanged(e) == [ed |-> e, changes |-> << >>]

ReplaceSelectionOrInsert(e, chars) == Replaced(e, SelStart(e), SelEnd(e), chars)

DeleteBack(e) ==
    IF HasSelection(e) THEN Replaced(e, SelStart(e), SelEnd(e), << >>)
    ELSE IF e.cursor = 0 THEN Unchanged(e)
    ELSE Replaced(e, e.cursor - 1, e.cursor, << >>)

DeleteForward(e) ==
    IF HasSelection(e) THEN Replaced(e, SelStart(e), SelEnd(e), << >>)
    ELSE IF e.cursor = Len(e.text) THEN Unchanged(e)
    ELSE Replaced(e, e.cursor, e.cursor + 1, << >>)

\* delete_logical_line: the last line takes the break in front of it.
DeleteLogicalLine(e) ==
    LET t == e.text
        start == LineStart(t, e.cursor)
        end == LineEnd(t, e.cursor)
        last == LineContentEnd(t, e.cursor) = Len(t)
        from == IF last /\ start > 0 THEN start - 1 ELSE start
    IN  IF from = end THEN Unchanged(e) ELSE Replaced(e, from, end, << >>)

\* paragraph_ranges: maximal ranges between breaks with nothing but spaces
\* between them.  Without sentence ends each one is one sentence.
Blank(t, p) ==
    \E a, b \in DOMAIN t :
        /\ a < b /\ a <= p /\ p <= b
        /\ t[a].c = "nl" /\ t[b].c = "nl"
        /\ \A i \in a..b : t[i].c # "x"
IsParagraph(t, a, b) ==
    /\ a < b
    /\ \A i \in (a + 1)..b : ~Blank(t, i)
    /\ a = 0 \/ Blank(t, a)
    /\ b = Len(t) \/ Blank(t, b + 1)
Paragraphs(t) == {r \in (0..Len(t)) \X (0..Len(t)) : IsParagraph(t, r[1], r[2])}

\* deletion_ranges: the paragraphs the selection touches, or the cursor's; one
\* of spaces only owns the cursor and deletes nothing.
SentenceRanges(e) ==
    LET all == Paragraphs(e.text)
        under == {r \in all : r[1] <= e.cursor /\ e.cursor < r[2]}
        front == {r \in all : r[2] <= e.cursor}
        targets == IF HasSelection(e)
                   THEN {r \in all : SelStart(e) < r[2] /\ r[1] < SelEnd(e)}
                   ELSE IF under # {} THEN under
                   ELSE IF front # {} THEN {r \in front : \A q \in front : q[1] <= r[1]}
                   ELSE {r \in all : \A q \in all : r[1] <= q[1]}
        full == {r \in targets : \E i \in (r[1] + 1)..r[2] : e.text[i].c = "x"}
    IN  SortSeq(SetToSeq(full), LAMBDA a, b : a[1] < b[1])

\* delete_sentence
DeleteSentence(e) ==
    LET ranges == SentenceRanges(e)
        repl == [i \in DOMAIN ranges |-> [s |-> ranges[i][1], e |-> ranges[i][2], text |-> << >>]]
        done == ReplacedMany(e, repl)
    IN  IF ranges = << >> THEN Unchanged(e)
        ELSE [done EXCEPT !.ed.cursor = ranges[1][1], !.ed.anchor = None]

\* touched_lines: a selection that ends at a line's start leaves that line alone.
TouchedLines(e) ==
    LET first == LineStart(e.text, SelStart(e))
        starts == {LineStart(e.text, b) : b \in SelStart(e)..SelEnd(e)}
    IN  {l \in starts : l = first \/ l < SelEnd(e)}

\* indent: at the cursor, or at the start of every touched line.
Indent(e, first) ==
    LET lines == SortSeq(SetToSeq(TouchedLines(e)), LAMBDA a, b : a < b)
        at == IF HasSelection(e) THEN lines ELSE <<e.cursor>>
    IN  ReplacedMany(e, [i \in DOMAIN at |->
            [s |-> at[i], e |-> at[i], text |-> Chars(<<"sp">>, first + i - 1)]])

-----------------------------------------------------------------------------
(* Revisions *)

Snap(e, as) == [text |-> e.text, annots |-> as, cursor |-> e.cursor, anchor |-> e.anchor]
NoSnap == [text |-> << >>, annots |-> << >>, cursor |-> None, anchor |-> None]
NoEdit == [before |-> NoSnap, after |-> NoSnap]

\* EditOwnedThought: refused when the thought is not what the edit began from.
Accepted(th, p) == p.before.text = th.text /\ p.before.annots = th.annots

Flushed(h, th) ==
    LET p == h.pending
    IN  IF p = NoEdit \/ ~Accepted(th, p) THEN h
        ELSE IF p.before.text = p.after.text /\ p.before.annots = p.after.annots
             THEN [h EXCEPT !.pending = NoEdit]
        ELSE [revs |-> Append(SubSeq(h.revs, 1, h.cur), p), cur |-> h.cur + 1, pending |-> NoEdit]

\* The thought after a flush.
Content(h, th) ==
    IF h.pending = NoEdit \/ ~Accepted(th, h.pending) THEN th
    ELSE [text |-> h.pending.after.text, annots |-> h.pending.after.annots]

\* Mutated form of Coalesced: every edit starts a pending edit of its own.
CoalescedNever(h, before, after) == [h EXCEPT !.pending = [before |-> before, after |-> after]]

\* The pending edit after one more change.
Coalesced(h, before, after) ==
    [h EXCEPT !.pending = [before |-> IF @ = NoEdit THEN before ELSE @.before, after |-> after]]

\* apply_annotated_edit: on e, with the pending edit flushed before (boundary)
\* and after (closing); open is what stays expanded.
Edited(e, result, inserted, boundary, closing, open) ==
    LET h1 == IF boundary THEN Flushed(hist, thought) ELSE hist
        t1 == IF boundary THEN Content(hist, thought) ELSE thought
        as == IF result.changes = << >> THEN annots
              ELSE Rebase(result.ed.text, result.changes, annots, inserted)
        h2 == IF result.changes = << >> THEN h1
              ELSE Coalesced(h1, Snap(e, annots), Snap(result.ed, as))
    IN  /\ Len(result.ed.text) <= MaxLen
        /\ edits < MaxEdits \/ result.changes = << >>
        /\ ed' = result.ed
        /\ annots' = as
        /\ expanded' = IF result.changes = << >> THEN expanded ELSE open
        /\ hist' = IF closing THEN Flushed(h2, t1) ELSE h2
        /\ thought' = IF closing THEN Content(h2, t1) ELSE t1
        /\ edits' = IF result.changes = << >> THEN edits ELSE edits + 1

\* A step that moves the cursor and flushes the pending edit.
Navigated(e) ==
    /\ ed' = e
    /\ hist' = Flushed(hist, thought)
    /\ thought' = Content(hist, thought)
    /\ UNCHANGED <<annots, fresh, edits>>

-----------------------------------------------------------------------------
(* Keys *)

\* selected_collapsed_annotation
SelectedFolds == {f \in Range(Folds) : /\ f.collapsed /\ HasSelection(ed)
                                        /\ f.cs = SelStart(ed) /\ f.ce = SelEnd(ed)}
OnFold == SelectedFolds # {}

\* Character: typing replaces the selection.
Type(c) ==
    /\ fresh < MaxFresh
    /\ ~(c = "sp" /\ OnFold) \* UnmodifiedSpace on a fold is TypeSpaceOnFold
    /\ ~(c = "nl" /\ OnFold) \* Enter on a fold is ExpandFold
    /\ Edited(ed, ReplaceSelectionOrInsert(ed, Chars(<<c>>, fresh)), << >>,
              c = "nl" /\ ~HasSelection(ed), c = "nl" /\ ~HasSelection(ed), {})
    /\ fresh' = fresh + 1

\* insert_space_before_selected_fold: the other folds stay expanded.
TypeSpaceOnFold ==
    /\ fresh < MaxFresh /\ OnFold
    /\ Flushed(hist, thought).pending = NoEdit
    /\ Edited(ed, Replaced(ed, SelStart(ed), SelStart(ed), Chars(<<"sp">>, fresh)), << >>,
              TRUE, TRUE, expanded)
    /\ fresh' = fresh + 1

\* A bracketed paste of a text that folds.
Paste(p) ==
    /\ fresh + Len(p) <= MaxFresh
    /\ LET chars == Chars(p, fresh)
       IN  Edited(ed, ReplaceSelectionOrInsert(ed, chars),
                  <<[start |-> 0, end |-> Len(p), ids |-> Ids(chars)]>>, TRUE, TRUE, {})
    /\ fresh' = fresh + Len(p)

\* delete_adjacent_fold: the fold next to the cursor is selected first.
WithAdjacentFold(side) ==
    LET next == {f \in Range(Folds) : f.collapsed /\ f[side] = ed.cursor}
    IN  IF HasSelection(ed) \/ next = {} THEN ed
        ELSE LET f == CHOOSE g \in next : TRUE
             IN  SetCursor(SetCursor(ed, f.ce, FALSE), f.cs, TRUE)

Backspace ==
    LET e == WithAdjacentFold("ce")
    IN  /\ Edited(e, DeleteBack(e), << >>, e # ed, FALSE, {})
        /\ UNCHANGED fresh

Delete ==
    LET e == WithAdjacentFold("cs")
    IN  /\ Edited(e, DeleteForward(e), << >>, e # ed, FALSE, {})
        /\ UNCHANGED fresh

DeleteLine ==
    /\ Edited(ed, DeleteLogicalLine(ed), << >>, TRUE, TRUE, {})
    /\ UNCHANGED fresh

\* reveal_sentence_folds: collapsed folds the sentences to delete reach into.
HiddenTargets ==
    {f \in Range(Folds) : f.collapsed /\ \E r \in Range(SentenceRanges(ed)) :
                                            r[1] < f.ce /\ f.cs < r[2]}

\* DeleteSentence: the first press opens what would be deleted unseen.
SentenceKey ==
    \/ /\ HiddenTargets # {}
       /\ expanded' = expanded \cup {f.ix : f \in HiddenTargets}
       /\ UNCHANGED <<ed, annots, thought, hist, fresh, edits>>
    \/ /\ HiddenTargets = {}
       /\ Edited(ed, DeleteSentence(ed), << >>, TRUE, TRUE, {})
       /\ UNCHANGED fresh

\* Tab
IndentKey ==
    /\ fresh + Cardinality(TouchedLines(ed)) <= MaxFresh
    /\ Edited(ed, Indent(ed, fresh), << >>, TRUE, TRUE, {})
    /\ fresh' = fresh + Cardinality(TouchedLines(ed))

\* Enter on a selected fold
ExpandFold ==
    /\ OnFold
    /\ LET f == CHOOSE g \in SelectedFolds : TRUE
       IN  /\ expanded' = expanded \cup {f.ix}
           /\ ed' = SetRange(ed, f.ce, f.ce)
    /\ UNCHANGED <<annots, thought, hist, fresh, edits>>

\* fold_departure_target
DepartureTarget(f, movement) ==
    CASE movement = "doc_start" -> 0
      [] movement = "doc_end" -> Len(ed.text)
      [] movement \in Backwards \ {"doc_start"} ->
            IF f.cs > 0 /\ ed.text[f.cs].c = "sp" THEN f.cs - 1 ELSE f.cs
      [] movement \in Forwards \ {"doc_end"} -> f.ce

\* normalize_fold_cursor: the fold a movement ends in is selected whole.
Normalized(e, movement) ==
    LET in(f) == IF movement \in Backwards THEN e.cursor > f.cs /\ e.cursor <= f.ce
                 ELSE e.cursor >= f.cs /\ e.cursor < f.ce
        hit == {i \in DOMAIN Folds : Folds[i].collapsed /\ in(Folds[i])}
    IN  IF hit = {} THEN e ELSE SetRange(e, Folds[Min(hit)].cs, Folds[Min(hit)].ce)

\* Move: a selected fold is left on the side of the movement.
Move(movement, extend) ==
    /\ IF OnFold /\ ~extend
       THEN LET f == CHOOSE g \in SelectedFolds : TRUE
                to == DepartureTarget(f, movement)
            IN  Navigated(SetRange(ed, to, to))
       ELSE \E to \in Targets(ed, movement) :
              LET e == SetCursor(ed, to, extend)
              IN  Navigated(IF extend THEN e ELSE Normalized(e, movement))
    /\ UNCHANGED expanded

\* move_to_visual_row_edge: Home and End in the drawn rows; extending goes on
\* to the next row.
RowEdge(edge, extend) ==
    LET rows == DrawnRows
        at == Project(ed.cursor, Folds)
        row(here) == IF extend /\ edge = "start" /\ at = rows[here].s /\ here > 1 THEN here - 1
                     ELSE IF extend /\ edge = "end" /\ at = rows[here].e /\ here < Len(rows) THEN here + 1
                     ELSE here
    IN  /\ \E here \in RowsAt(rows, at) :
              Navigated(SetCursor(ed, UnprojectBoundary(IF edge = "start" THEN rows[row(here)].s
                                                        ELSE rows[row(here)].e, Folds, edge), extend))
        /\ UNCHANGED expanded

SelectAll ==
    /\ Navigated(SetRange(ed, 0, Len(ed.text)))
    /\ UNCHANGED expanded

\* normalize_clipboard_selection: a copy takes the folds it touches whole.
Copy ==
    LET touched == {f \in Range(Folds) : f.collapsed /\ SelStart(ed) < f.ce /\ f.cs < SelEnd(ed)}
        from == Min({SelStart(ed)} \cup {f.cs : f \in touched})
        to == Max({SelEnd(ed)} \cup {f.ce : f \in touched})
    IN  /\ HasSelection(ed)
        /\ Navigated(IF from = SelStart(ed) /\ to = SelEnd(ed) THEN ed ELSE SetRange(ed, from, to))
        /\ UNCHANGED expanded

-----------------------------------------------------------------------------
(* The pointer *)

\* fold_at_cell
FoldsUnder(byte, row) ==
    {f \in Range(Folds) :
        f.collapsed /\ byte >= f.s /\ (byte < f.e \/ (byte = f.e /\ f.s = row.e))}

\* cell_target: a press on a collapsed fold selects it.
PressFold(byte, row) ==
    /\ \E f \in FoldsUnder(byte, row) : ed' = SetRange(ed, f.cs, f.ce)
    /\ UNCHANGED <<annots, expanded, thought, hist, fresh, edits>>

Granularities == {"grapheme", "word", "line"}

\* A press elsewhere, by the number of clicks, dragged to another cell and
\* released.  Every other command ends the gesture, so it is one step.
Gestures ==
    LET folds == Folds
        rows == Range(DrawnRows)
        text == UNION {{Unproject(b, folds) : b \in {q \in RowBytes(r) : FoldsUnder(q, r) = {}}} : r \in rows}
        any == UNION {{Unproject(b, folds) : b \in RowBytes(r)} : r \in rows}
        span(g) == {RangeAt(ed.text, b, g) : b \in any}
    IN  UNION {{PointerTo(ed, base, to) : base \in PointerBase(ed, text, g), to \in span(g)} :
                   g \in Granularities}

PressText ==
    /\ ed' \in Gestures
    /\ UNCHANGED <<annots, expanded, thought, hist, fresh, edits>>

-----------------------------------------------------------------------------
(* History and leaving the editor *)

\* restored_editor_state
Restored(h) == IF h.cur = 0 THEN h.revs[1].before ELSE h.revs[h.cur].after

\* A new editor on the thought's content.
Reopened(h, th) ==
    LET at == IF h.revs = << >> THEN [cursor |-> Len(th.text), anchor |-> None] ELSE Restored(h)
    IN  [text |-> th.text, cursor |-> at.cursor, anchor |-> at.anchor]

\* history: undo and redo of the thought's own revisions.
History(undo) ==
    LET h == Flushed(hist, thought)
        to == IF undo THEN h.cur - 1 ELSE h.cur + 1
        th == IF undo THEN h.revs[h.cur].before ELSE h.revs[to].after
        moved == [h EXCEPT !.cur = to]
        after == [text |-> th.text, annots |-> th.annots]
    IN  /\ h.pending = NoEdit
        /\ edits < MaxEdits
        /\ IF undo THEN h.cur > 0 ELSE h.cur < Len(h.revs)
        /\ hist' = moved
        /\ thought' = after
        /\ annots' = th.annots
        /\ ed' = Reopened(moved, after)
        /\ edits' = edits + 1
        /\ UNCHANGED <<expanded, fresh>>

\* finish_edit and a later enter_edit: the folds close.
Reenter ==
    LET h == Flushed(hist, thought)
        th == Content(hist, thought)
    IN  /\ h.pending = NoEdit
        /\ hist' = h /\ thought' = th /\ ed' = Reopened(h, th)
        /\ expanded' = {}
        /\ UNCHANGED <<annots, fresh, edits>>

\* The debounce deadline of a pending edit.
Autosave ==
    /\ hist.pending # NoEdit
    /\ hist' = Flushed(hist, thought) /\ thought' = Content(hist, thought)
    /\ UNCHANGED <<ed, annots, expanded, fresh, edits>>

-----------------------------------------------------------------------------

\* A thought made by one paste, opened for editing.
Init ==
    \E p \in Pastes :
        LET text == Chars(p, 1)
            folds == <<[start |-> 0, end |-> Len(p), ids |-> Ids(text)]>>
        IN  /\ ed = [text |-> text, cursor |-> Len(p), anchor |-> None]
            /\ annots = folds
            /\ expanded = {}
            /\ thought = [text |-> text, annots |-> folds]
            /\ hist = [revs |-> << >>, cur |-> 0, pending |-> NoEdit]
            /\ fresh = Len(p) + 1
            /\ edits = 0

Next ==
    \/ \E c \in Typed : Type(c)
    \/ TypeSpaceOnFold
    \/ \E p \in Pastes : Paste(p)
    \/ Backspace
    \/ Delete
    \/ DeleteLine
    \/ SentenceKey
    \/ IndentKey
    \/ ExpandFold
    \/ \E m \in Backwards \cup Forwards, extend \in BOOLEAN : Move(m, extend)
    \/ \E edge \in {"start", "end"}, extend \in BOOLEAN : RowEdge(edge, extend)
    \/ SelectAll
    \/ Copy
    \/ \E row \in Range(DrawnRows) : \E byte \in RowBytes(row) : PressFold(byte, row)
    \/ PressText
    \/ \E undo \in BOOLEAN : History(undo)
    \/ Reenter
    \/ Autosave

Spec == Init /\ [][Next]_vars

-----------------------------------------------------------------------------
(* Properties *)

\* The editor's offsets lie in its text and the folds are ordered, disjoint
\* and not empty (validate_annotations).
TypeOK ==
    /\ ed.cursor \in 0..Len(ed.text)
    /\ ed.anchor \in {None} \cup 0..Len(ed.text)
    /\ ValidAnnotations(ed.text, annots)
    /\ hist.cur \in 0..Len(hist.revs)

\* Through every edit, paste, deletion, undo and redo a fold covers exactly the
\* characters it was laid over, in the editor and in the saved thought: an
\* edit inside it dissolves it, an edit elsewhere only moves it.
FoldsKeepTheirText ==
    \A th \in {[text |-> ed.text, annots |-> annots], thought} :
        \A i \in DOMAIN th.annots :
            Ids(Sub(th.text, th.annots[i].start, th.annots[i].end)) = th.annots[i].ids

\* The drawn text and the exact text stand in one order: an offset outside the
\* collapsed folds comes back from a row that ends where it is drawn, a later
\* offset is never drawn earlier, and a press on a drawn cell never leads into
\* a collapsed fold or in front of an earlier cell's offset.
DrawnWhereItIs ==
    LET folds == Folds
        hidden(o) == \E i \in DOMAIN folds :
                        folds[i].collapsed /\ folds[i].cs < o /\ o < folds[i].ce
    IN  /\ \A o \in 0..Len(ed.text) :
            /\ ~hidden(o) => UnprojectBoundary(Project(o, folds), folds, "end") = o
            /\ o > 0 => Project(o - 1, folds) <= Project(o, folds)
        /\ \A b \in 0..Len(Drawn(ed.text, annots, expanded)) :
            /\ ~hidden(Unproject(b, folds))
            /\ b > 0 => Unproject(b - 1, folds) <= Unproject(b, folds)

\* The reducer never refuses the pending edit: the thought is still what the
\* edit was begun from, and the editor shows what the edit will save.
PendingApplies ==
    IF hist.pending = NoEdit THEN ed.text = thought.text /\ annots = thought.annots
    ELSE /\ Accepted(thought, hist.pending)
         /\ hist.pending.after.text = ed.text /\ hist.pending.after.annots = annots

\* "the cursor can never disappear inside hidden content": without a selection
\* the cursor is not inside a collapsed fold.
CursorNeverHidden ==
    HasSelection(ed) \/ ~\E i \in DOMAIN Folds :
        Folds[i].collapsed /\ Folds[i].cs < ed.cursor /\ ed.cursor < Folds[i].ce

\* The editor (ui/app/folds, ports/editor): folds keep their text, drawn positions are real ones,
\* and a pending edit applies to the stored text.
EditorSafe == TypeOK /\ FoldsKeepTheirText /\ DrawnWhereItIs /\ PendingApplies
=============================================================================

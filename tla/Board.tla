-------------------------------- MODULE Board --------------------------------
(***************************************************************************)
(* The session board and its mutation algebra: thoughts and separators     *)
(* share one ordered list; a mutation either produces a new board or is    *)
(* refused as a whole.                                                     *)
(*                                                                         *)
(* A board maps every identity to a record; an identity that was never     *)
(* used is "absent", a deleted one stays as "trashed" with the position it *)
(* had.  A mutation yields a SET of boards: the empty set is the code's    *)
(* Err, a singleton its Ok.  Content and annotations are one value (text), *)
(* timestamps appear only where a precondition compares them (stamp).      *)
(***************************************************************************)
EXTENDS Naturals, Integers, FiniteSets, Sequences, SequencesExt

CONSTANTS
    Thoughts,     \* thought identities
    Separators,   \* separator identities
    Texts,        \* contents (with their annotations)
    Names,        \* thought names, None among them
    Folds         \* presentations of a thought

ASSUME BoardAssumption ==
    /\ Thoughts \cap Separators = {}
    /\ Texts # {} /\ Names # {} /\ Folds # {}

Items == Thoughts \cup Separators

AnyText == CHOOSE x \in Texts : TRUE
NoName == CHOOSE x \in Names : TRUE
Automatic == CHOOSE x \in Folds : TRUE

Blank == [st |-> "absent", pos |-> 0, text |-> AnyText, name |-> NoName,
          fold |-> Automatic, stamp |-> 0]

EmptyBoard == [i \in Items |-> Blank]

IsLive(b, i) == b[i].st = "live"
Live(b) == {i \in Items : IsLive(b, i)}
LiveThoughts(b) == Live(b) \cap Thoughts

LiveItems(b) ==
    SetToSortSeq(Live(b), LAMBDA i, j : b[i].pos < b[j].pos)

ItemAt(b, p) == CHOOSE i \in Live(b) : b[i].pos = p

(***************************************************************************)
(* Mutations, as the operation log stores them.                            *)
(***************************************************************************)

AddItem(i, p, x, n, f) ==
    [op |-> "add", item |-> i, pos |-> p, text |-> x, name |-> n, fold |-> f]
SetDeletion(i, t, p) == [op |-> "delete", item |-> i, at |-> t, pos |-> p]
Restore(i, p) == [op |-> "restore", item |-> i, pos |-> p]
DeleteExact(i, x, t, p) ==
    [op |-> "deleteExact", item |-> i, text |-> x, at |-> t, pos |-> p]
RestoreExact(i, x, t, p) ==
    [op |-> "restoreExact", item |-> i, text |-> x, at |-> t, pos |-> p]
MoveItem(i, p, q) == [op |-> "move", item |-> i, from |-> p, to |-> q]
ReplaceContent(t, x, y) ==
    [op |-> "replace", item |-> t, before |-> x, after |-> y]
SetPresentation(t, f) == [op |-> "fold", item |-> t, fold |-> f]
SetName(t, n, m) == [op |-> "name", item |-> t, before |-> n, after |-> m]

Addresses(ms, t) == \E k \in DOMAIN ms : ms[k].item = t

(***************************************************************************)
(* What each mutation does.                                                *)
(***************************************************************************)

ShiftForInsert(b, p) ==
    [i \in Items |-> IF IsLive(b, i) /\ b[i].pos >= p
                     THEN [b[i] EXCEPT !.pos = @ + 1] ELSE b[i]]

\* Mutated form: the items behind a deleted one move up twice.
ShiftAfterRemoveTwice(b, p) ==
    [i \in Items |-> IF IsLive(b, i) /\ b[i].pos > p
                     THEN [b[i] EXCEPT !.pos = @ - 2] ELSE b[i]]

\* Mutated form: the items behind a deleted one keep their positions.
ShiftAfterRemoveKeepsGap(b, p) == b

\* Mutated form: the item directly behind the deleted one is forgotten.
ShiftAfterRemoveOffByOne(b, p) ==
    [i \in Items |-> IF IsLive(b, i) /\ b[i].pos > p + 1
                     THEN [b[i] EXCEPT !.pos = @ - 1] ELSE b[i]]

ShiftAfterRemove(b, p) ==
    [i \in Items |-> IF IsLive(b, i) /\ b[i].pos > p
                     THEN [b[i] EXCEPT !.pos = @ - 1] ELSE b[i]]

ShiftRange(b, p, q) ==
    [i \in Items |->
        CASE IsLive(b, i) /\ p < q /\ b[i].pos > p /\ b[i].pos <= q ->
                [b[i] EXCEPT !.pos = @ - 1]
          [] IsLive(b, i) /\ q < p /\ b[i].pos >= q /\ b[i].pos < p ->
                [b[i] EXCEPT !.pos = @ + 1]
          [] OTHER -> b[i]]

Reappear(b, i, p) ==
    [ShiftForInsert(b, p) EXCEPT ![i].st = "live", ![i].pos = p]

\* A known identity comes back with what it held, a new one with what the
\* mutation carries.
AddOrRestore(b, m) ==
    IF m.pos > Cardinality(Live(b)) \/ IsLive(b, m.item) THEN {}
    ELSE IF b[m.item].st = "trashed" THEN {Reappear(b, m.item, m.pos)}
    ELSE {[ShiftForInsert(b, m.pos) EXCEPT
              ![m.item] = [st |-> "live", pos |-> m.pos, text |-> m.text,
                           name |-> m.name, fold |-> m.fold, stamp |-> 0]]}

\* Deleting what is deleted changes nothing and is no error.
Deletion(b, m) ==
    CASE b[m.item].st = "absent" -> {}
      [] b[m.item].st = "trashed" -> {b}
      [] OTHER -> {ShiftAfterRemove(
                      [b EXCEPT ![m.item].st = "trashed", ![m.item].stamp = m.at],
                      b[m.item].pos)}

Restoration(b, m) ==
    CASE b[m.item].st = "absent" -> {}
      [] b[m.item].st = "live" -> {b}
      [] OTHER -> IF m.pos > Cardinality(Live(b)) THEN {}
                  ELSE {Reappear(b, m.item, m.pos)}

ExactDeletion(b, m) ==
    IF m.op = "deleteExact"
    THEN IF IsLive(b, m.item) /\ b[m.item].text = m.text /\ b[m.item].pos = m.pos
         THEN Deletion(b, m) ELSE {}
    ELSE IF /\ b[m.item].st = "trashed" /\ b[m.item].text = m.text
            /\ b[m.item].pos = m.pos /\ b[m.item].stamp = m.at
         THEN Restoration(b, m) ELSE {}

Move(b, m) ==
    IF /\ IsLive(b, m.item) /\ b[m.item].pos = m.from
       /\ m.to < Cardinality(Live(b))
    THEN {[ShiftRange(b, m.from, m.to) EXCEPT ![m.item].pos = m.to]}
    ELSE {}

Replacement(b, m) ==
    IF IsLive(b, m.item) /\ b[m.item].text = m.before
    THEN {[b EXCEPT ![m.item].text = m.after]} ELSE {}

\* Mutated form: a rename checks its precondition and changes nothing.
RenamingKeepsName(b, m) ==
    IF IsLive(b, m.item) /\ b[m.item].name = m.before THEN {b} ELSE {}

Renaming(b, m) ==
    IF IsLive(b, m.item) /\ b[m.item].name = m.before
    THEN {[b EXCEPT ![m.item].name = m.after]} ELSE {}

Presentation(b, m) ==
    IF b[m.item].st = "absent" THEN {} ELSE {[b EXCEPT ![m.item].fold = m.fold]}

ApplyInPlace(b, m) ==
    CASE m.op = "add" -> AddOrRestore(b, m)
      [] m.op = "delete" -> Deletion(b, m)
      [] m.op = "restore" -> Restoration(b, m)
      [] m.op \in {"deleteExact", "restoreExact"} -> ExactDeletion(b, m)
      [] m.op = "move" -> Move(b, m)
      [] m.op = "replace" -> Replacement(b, m)
      [] m.op = "name" -> Renaming(b, m)
      [] m.op = "fold" -> Presentation(b, m)

ApplyBatch(b, ms) ==
    FoldLeft(LAMBDA bs, m : UNION {ApplyInPlace(x, m) : x \in bs}, {b}, ms)

Validate(b) == {b[i].pos : i \in Live(b)} = 0 .. Cardinality(Live(b)) - 1

\* A candidate is built aside and adopted only when it is valid.
ApplyMutation(b, ms) == {x \in ApplyBatch(b, ms) : Validate(x)}

(***************************************************************************)
(* What the user sees of a board.                                          *)
(***************************************************************************)
Visible(b) == [i \in Live(b) |-> [b[i] EXCEPT !.stamp = 0]]
=============================================================================

------------------------------ MODULE MCHistory ------------------------------
(* Command groups and small instances of History for TLC: each group is     *)
(* explored from Init with its own bound.                                   *)
EXTENDS History

Group(issues, bound) == [issues |-> issues, bound |-> bound]

MCGroups ==
    { \* what changes the order and the set of board items
      Group({"create", "separator", "delete", "duplicate", "move", "history"}, 4),
      Group({"owned", "separator", "delete", "move", "history"}, 4),
      \* what changes the contents of thoughts
      Group({"create", "edit", "split", "merge", "reflow", "delete", "history"}, 5),
      \* a split at the end of a thought, which changes no content
      Group({"create", "edit", "splitAtEnd", "delete", "history"}, 7),
      \* removals that wait for an agent, the clipboard or a file
      Group({"create", "edit", "submit", "cut", "exportRemove", "history"}, 4),
      \* names and presentations beside what carries them along
      Group({"create", "rename", "fold", "duplicate", "split", "delete", "history"}, 4),
      \* navigation between commands that move the focus themselves
      Group({"create", "separator", "split", "delete", "submit", "focus", "history"}, 3) }

\* Editing beside an export that replaces its sources.
MCReplaceGroup == {Group({"create", "edit", "exportReplace", "history"}, 6)}
=============================================================================

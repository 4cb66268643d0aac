SPECIFICATION Spec
CONSTANTS
    NoItem = NoItem
    Groups <- MCGroups
    MaxCopies = 1
    Thoughts = {t1, t2}
    Separators = {s1}
    Texts = {x, y}
    Names = {none, n}
    Folds = {auto, folded}
INVARIANTS
    ReplicasAgree
    MemoryAccepts
    ReadyMoves
    CursorUsable
PROPERTIES
    HistoryStepsReverse
    RemovesOnlyWritten

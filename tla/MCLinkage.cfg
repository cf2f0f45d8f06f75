SPECIFICATION Spec
CONSTANTS
    Files = {fa, fb}
    Labels = {start, l}
    Start = start
    TextOffset = 3
    Lengths = {3}
    MaxSize = 11
SYMMETRY Symmetry
INVARIANTS
    LocalJumpsLand
    ReferencesAccounted
    CodeDisjoint
    ReferencesResolved
    UnresolvedReported
    EntryIsStart
CHECK_DEADLOCK FALSE

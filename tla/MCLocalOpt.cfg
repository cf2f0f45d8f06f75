SPECIFICATION Spec
CONSTANTS
    t = t
    u = u
    a = a
    b = b
    Nothing = Nothing
    Vars = {t, u, a, b}
    Width = 3
    Values = {0, 3}
    Programs <- MCPrograms
    Rounds = 4
INVARIANTS ResultKept
PROPERTIES FoldKeepsMeaning MergeKeepsMeaning SimplifyKeepsMeaning
CHECK_DEADLOCK FALSE

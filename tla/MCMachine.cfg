SPECIFICATION Spec
CONSTANTS
    x = x
    y = y
    t = t
    u = u
    Many = {v1, v2, v3, v4, v5, v6, v7, v8, v9, v10, v11, v12, v13, v14, v15, v16, v17, v18, v19, v20, v21, v22, v23, v24, v25, v26, v27, v28, v29, v30, v31}
    Nothing = Nothing
    Start = Start
    Main = Main
    F = F
    G = G
    L0 = L0
    L1 = L1
    L2 = L2
    Names <- MCNames
    Programs <- MCPrograms
    Forms <- MCForms
    Labels = {Start, Main, F, G, L0, L1, L2}
    WordBytes = 2
    StackTop = 2000
INVARIANTS LockStep OutcomeAgrees RejectedOrDecodes MissingOperandReported
PROPERTIES Ends

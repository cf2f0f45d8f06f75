SPECIFICATION Spec
CONSTANTS
    a = a
    b = b
    c = c
    main = main
    f = f
    g = g
    h = h
    Stems = {a, b, c}
    Missing = Missing
    Main = main
    Hidden = {h}
    Sources <- MCSources
    AsmSources <- MCAsmSources
    Commands <- MCCommands
    MaxRuns = 2
INVARIANTS SuccessIsCurrent CallsMatch FunctionsFound
CHECK_DEADLOCK FALSE

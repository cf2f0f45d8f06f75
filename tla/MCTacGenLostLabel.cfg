SPECIFICATION Spec
CONSTANTS
    x = x
    p = p
    f = f
    g = g
    Anon = Anon
    Lit = Lit
    Nothing = Nothing
    Main = Main
    Start = Start
    PrintInt = PrintInt
    PrintBool = PrintBool
    Idents = {}
    PrefixOf <- NoPrefix
    Funs = {f}
    Imported <- NoImport
    Sigs <- OneSig
    Nodes = {"if","while"}
    BinOps = {}
    MaxTemps = 0
    MaxDepth = 3
    MaxParams = 0
    MaxQuads = 9
    MaxPending = 1
    MaxOpen = 6
INVARIANTS JumpsHaveTargets
CONSTRAINT NoErrors
CHECK_DEADLOCK FALSE

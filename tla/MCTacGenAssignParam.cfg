SPECIFICATION Spec
CONSTANTS
    x = x
    p = p
    f = f
    g = g
    Anon = Anon
    Lit = Lit
    Nothing = Nothing
    Main = Main
    Start = Start
    PrintInt = PrintInt
    PrintBool = PrintBool
    Idents = {x, p}
    PrefixOf <- NoPrefix
    Funs = {f}
    Imported <- NoImport
    Sigs <- TwoSigs
    Nodes = {"decl","exprstmt"}
    BinOps = {}
    MaxTemps = 2
    MaxDepth = 1
    MaxParams = 1
    MaxQuads = 6
    MaxPending = 2
    MaxOpen = 3
INVARIANTS OnlyFunctionsHaveParameterTypes
CONSTRAINT NoErrors
CHECK_DEADLOCK FALSE

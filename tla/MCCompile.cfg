SPECIFICATION Spec
CONSTANTS
    f = f
    h = h
    Anon = Anon
    Lit = Lit
    Nothing = Nothing
    Main = Main
    Start = Start
    PrintInt = PrintInt
    PrintBool = PrintBool
    Idents = {}
    PrefixOf <- NoPrefix
    Funs = {f, h, Main}
    HiddenFuns = {h}
    Imported <- NoImport
    Sigs <- BoolSig
    Nodes = {"if", "ifelse", "while", "return", "call", "exprstmt"}
    BinOps = {}
    MaxTemps = 1
    MaxDepth = 3
    MaxParams = 0
    MaxQuads = 11
    MaxPending = 1
    MaxOpen = 6
INVARIANTS
    ExecutedCodeKept EntryPointsKept
CONSTRAINT NoErrors
CHECK_DEADLOCK FALSE

SPECIFICATION Walks
CONSTANTS
    x = x
    p = p
    f = f
    g = g
    Anon = Anon
    Lit = Lit
    Nothing = Nothing
    Main = Main
    Start = Start
    PrintInt = PrintInt
    PrintBool = PrintBool
    Idents = {x, p}
    PrefixOf <- NoPrefix
    Funs = {f, g}
    Imported <- OneImport
    Sigs <- TwoSigs
    Nodes = {"import","unary","call","print","exprstmt","return","decl","if","ifelse","while","block","nil"}
    BinOps = {"Plus","LessEqual"}
    MaxTemps = 5
    MaxDepth = 3
    MaxParams = 2
    MaxQuads = 12
    MaxPending = 3
    MaxOpen = 4
INVARIANTS TempsBlockLocal OperandsHaveSlots StackLevel ReservationInCode
PROPERTIES PendingOperandsKept LabelsStable
CONSTRAINT ErrorsAreErrors
CHECK_DEADLOCK FALSE

SPECIFICATION Spec
CONSTANTS
    x = x
    y = y
    Anon = Anon
    Funs = {f, g}
    f = f
    g = g
    Idents = {x, y}
    MaxTemps = 3
    MaxDepth = 3
    MaxParams = 2
SYMMETRY Swaps
INVARIANTS TypeOK NoSlotClash FrameFits Resolvable
PROPERTIES ScopeExitKeepsSlots
CHECK_DEADLOCK FALSE

SPECIFICATION Spec
CONSTANTS
    Nothing = Nothing
    Start = Start
    Main = Main
    f = f
    l = l
    Hidden <- HiddenLabels
    Programs <- SmallPrograms
INVARIANTS BlocksPartition KeptIsReachable JumpsStayInKeptCode
PROPERTIES CollapseKeepsJumps Terminates
CHECK_DEADLOCK FALSE

SPECIFICATION Spec
CONSTANT Worlds <- MCWorlds
CONSTANT NewName = "n"
INVARIANT NavigatorCurrent
INVARIANT ExpansionKept
PROPERTY TabsOutlive
PROPERTY WaitersProceed
CHECK_DEADLOCK FALSE

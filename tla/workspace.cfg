SPECIFICATION Spec
CONSTANTS
    Windows = {"w1", "w2"}
    Tabs = {1, 2}
    Names = {1, 2}
    Texts = {"x", "y"}
    Blank = ""
    MaxHistory = 2
    Moves = 3
    Homes <- MCHomes
    Stored <- MCStored
    Histories <- MCHistories
PROPERTY OverwritesAsked
PROPERTY UnsavedAsked
CHECK_DEADLOCK FALSE

SPECIFICATION Spec
CONSTANTS
  Gone = Gone
  Kinds = {"columns", "attributes", "labels", "sequence"}
  MaxReads = 2
  MaxReloads = 2
  MaxOthers = 1
  MaxEdits = 1
  MaxSaves = 2
PROPERTIES SavedAsEdited SaveGoesThrough OthersWorkStays
CHECK_DEADLOCK FALSE

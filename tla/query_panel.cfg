SPECIFICATION Spec
CONSTANT Moves = 5
INVARIANT ExportFollowsTab
PROPERTIES StaleAnswersIgnored ComesToRest
CHECK_DEADLOCK FALSE

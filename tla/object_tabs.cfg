SPECIFICATION Spec
CONSTANTS
    Tables = {t1}
    Definitions = {f1}
    Infos = {s1}
    NoObject = NoObject
    Moves = 4
INVARIANT WaitersShareARequest
PROPERTIES OnlyLatestShown TabsSettle
CHECK_DEADLOCK FALSE

SPECIFICATION Spec
CONSTANTS
    f1 = f1
    f2 = f2
    f3 = f3
    q1 = q1
    q2 = q2
    hand = hand
    hand2 = hand2
    Empty = Empty
    Forms = {f1, f2, f3}
    Texts = {q1, q2, hand, hand2, Empty}
    Typed = {hand, hand2}
    Sql <- MCSql
    Moves = 4
INVARIANT PreviewCurrent
PROPERTIES ExecutedMatchesForm HandEditKept
CHECK_DEADLOCK FALSE

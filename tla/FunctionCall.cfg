CONSTANTS
    Calls = {c1, c2, c3}
    MaxForeign = 2
    MaxRestarts = 1
SPECIFICATION Spec
INVARIANTS
    TypeOK
    ExecutedAtMostOnce
    AnswersAreTrue
    RefusedOnlyIfOvertaken
    SequentialCallsNeverCollide
SYMMETRY Symmetry
CHECK_DEADLOCK FALSE

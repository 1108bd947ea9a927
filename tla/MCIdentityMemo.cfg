SPECIFICATION Spec
CONSTANTS
    Writers = {w1, w2}
    Readers = {r1, r2}
    Calls = {c1, c2}
    None = None
SYMMETRY Symmetry
CONSTRAINT Pairs
INVARIANTS KeptIsCurrent AnswersAreFresh
CHECK_DEADLOCK FALSE

SPECIFICATION Spec
CONSTANTS
    None = None
    t1 = t1
    t2 = t2
    case = case
    Cases <- MCOneCase
    w1 = w1
    w2 = w2
    w3 = w3
    Workers = {w1}
    case_of <- MCAlone
    MaxSteps = 2
    MisaddressedPuts <- MCNone
    Overtaking = TRUE
    MaxFailures <- MCOneFailure
INVARIANTS
    CheckpointsDurable
CHECK_DEADLOCK FALSE

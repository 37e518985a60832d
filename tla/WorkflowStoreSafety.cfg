SPECIFICATION FairSpec
CONSTANTS
    None = None
    t1 = t1
    t2 = t2
    case = case
    Cases <- MCCases
    w1 = w1
    w2 = w2
    w3 = w3
    Workers = {w1, w2, w3}
    case_of <- MCShared
    MaxSteps = 3
    MisaddressedPuts <- MCMisaddressed
    Overtaking = FALSE
    MaxFailures <- MCFailures
INVARIANTS
    TypeOK
    CheckpointsDurable
    RestartRepeatsLittle
PROPERTIES
    CasesApart
    CaseCompletes

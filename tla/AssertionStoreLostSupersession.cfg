SPECIFICATION Spec
CONSTANTS
    t1 = t1
    t2 = t2
    id1 = id1
    id2 = id2
    id3 = id3
    original = original
    other = other
    w1 = w1
    w2 = w2
    None = None
    Tenants = {t1, t2}
    AssertionIds = {id1, id2, id3}
    Contents = {original, other}
    Workers = {w1, w2}
    Instants <- MCInstants
    Requests <- MCPairRequests
INVARIANTS
    SupersededTargetMarked

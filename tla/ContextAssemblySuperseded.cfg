SPECIFICATION Spec
CONSTANTS
    t1 = t1
    t2 = t2
    vendor = 1
    None = None
    Tenants = {t1, t2}
    AssertionIds <- MCAssertionIds
    Contents <- MCContents
    Instants <- MCInstants
    Requests <- MCUndatedRequests
    Spans <- MCOwnSpans
    Envelopes <- MCEnvelopes
    Embeddings <- MCNone
    Models <- MCModels
    Earlier <- MCNothingEarlier
    Graphs <- MCNoGraphs
    Builds <- MCPresentBuilds
    rrf_k = 60
INVARIANTS
    CurrentHasNoSuperseded

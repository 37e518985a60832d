SPECIFICATION Spec
CONSTANTS
    t1 = t1
    t2 = t2
    vendor = 1
    None = None
    Tenants = {t1, t2}
    AssertionIds <- MCAssertionIds
    Contents <- MCContents
    Instants <- MCInstants
    Requests <- MCRequests
    Spans <- MCSpans
    Envelopes <- MCEnvelopes
    Embeddings <- MCEmbeddings
    Models <- MCModels
    Earlier <- MCEarlier
    Graphs <- MCGraphs
    Builds <- MCBuilds
    rrf_k = 60
INVARIANTS
    TypeOK
    TenantIsolation
    BundleBounded
    NothingValidLeftOut
    NoEvidenceLeftOut
    NoEmbeddedLeftOut
    RaisedOnOwnData
    NearestRelated
    ConflictsAreDisagreements

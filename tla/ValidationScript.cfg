SPECIFICATION Spec
CONSTANTS
    tenant_id = validation
    isolated_tenant_id = isolated
    acme = acme
    None = None
    Tenants = {validation, isolated, acme}
    AssertionIds = {1, 2, 4}
    Contents <- MCContents
    Instants <- MCInstants
    Models <- MCModels
    Envelopes <- MCEnvelopes
    Spans <- MCSpans
    Embeddings <- MCEmbeddings
    others <- MCOthers
    settings <- MCSettings
    rrf_k = 60
INVARIANTS
    ChecksPass
    LeftoverIsLate
    RefusedOnlyByLate
    CleanupIsAtomic
PROPERTIES
    OthersUntouched
CHECK_DEADLOCK FALSE

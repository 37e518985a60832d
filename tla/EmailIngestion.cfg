SPECIFICATION FairSpec
CONSTANTS
    w1 = w1
    w2 = w2
    Workers = {w1, w2}
    Tokens <- MCTokens
    Emails <- MCEmails
    Envelopes <- MCEnvelopes
    Spans <- MCSpans
    Embeddings <- MCEmbeddings
    MaxCrashes = 2
INVARIANTS
    TypeOK
    ReturnedIsStored
    BodyUnderOwnEnvelope
PROPERTIES
    EvidencePreserved
    HalfStoredIsRepaired

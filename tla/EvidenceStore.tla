---------------------------- MODULE EvidenceStore ----------------------------
(***************************************************************************)
(* The evidence tables and the three single-statement transactions that    *)
(* write them.  Each is an INSERT ... ON CONFLICT DO NOTHING on one        *)
(* constraint; another constraint that fails is an IntegrityError.  A      *)
(* statement that waits holds no other row, so each call is one step.      *)
(***************************************************************************)

CONSTANTS
    Envelopes,      \* the envelopes clients post to /v1/evidence
    Spans,          \* the spans they post to /v1/evidence/spans
    Embeddings      \* the embeddings they post to /v1/evidence/embeddings

VARIABLES
    sources,        \* the rows of source_record
    spans,          \* the rows of evidence_span
    embeddings      \* the rows of evidence_embedding

evidence == <<sources, spans, embeddings>>

SourceKey(e) == <<e.tenant_id, e.source_id>>

SpanKey(s) == <<s.tenant_id, s.span_id>>

EmbeddingKey(e) == <<e.tenant_id, e.span_id, e.model>>

SourceStored(k) == \E r \in sources : SourceKey(r) = k

SpanStored(k) == \E r \in spans : SpanKey(r) = k

\* uq_source_tenant_id is the conflict target, uq_source_id is not.  (Of two
\* INSERTs of one key at the same instant the later may meet uq_source_id first
\* and raise instead of answering duplicate; it stores nothing either way.)
EnvelopeOutcome(e) ==
    IF SourceStored(SourceKey(e)) THEN "duplicate"
    ELSE IF \E r \in sources : r.source_id = e.source_id THEN "error"
    ELSE "created"

\* The foreign key names source_record.source_id, whatever its tenant.
SpanOutcome(s) ==
    IF SpanStored(SpanKey(s)) THEN "duplicate"
    ELSE IF \E r \in sources : r.source_id = s.source_id THEN "created"
    ELSE "error"

\* The foreign key names the span of the same tenant.
EmbeddingOutcome(e) ==
    IF \E r \in embeddings : EmbeddingKey(r) = EmbeddingKey(e) THEN "duplicate"
    ELSE IF SpanStored(SpanKey(e)) THEN "created"
    ELSE "error"

\* A faulty PutSpan: DO UPDATE where the code says DO NOTHING.
PutSpanOverwriting(s) ==
    /\ spans' = IF SpanOutcome(s) = "error" THEN spans
                ELSE {r \in spans : SpanKey(r) # SpanKey(s)} \cup {s}
    /\ UNCHANGED <<sources, embeddings>>

PutEnvelope(e) ==
    /\ sources' = IF EnvelopeOutcome(e) = "created" THEN sources \cup {e} ELSE sources
    /\ UNCHANGED <<spans, embeddings>>

PutSpan(s) ==
    /\ spans' = IF SpanOutcome(s) = "created" THEN spans \cup {s} ELSE spans
    /\ UNCHANGED <<sources, embeddings>>

PutEmbedding(e) ==
    /\ embeddings' =
          IF EmbeddingOutcome(e) = "created" THEN embeddings \cup {e} ELSE embeddings
    /\ UNCHANGED <<sources, spans>>

EvidenceInit == sources = {} /\ spans = {} /\ embeddings = {}

\* The API, used directly.
EvidenceNext ==
    \/ \E e \in Envelopes : PutEnvelope(e)
    \/ \E s \in Spans : PutSpan(s)
    \/ \E e \in Embeddings : PutEmbedding(e)
=============================================================================

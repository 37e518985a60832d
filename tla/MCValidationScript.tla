------------------------- MODULE MCValidationScript -------------------------
(***************************************************************************)
(* ValidationScript for TLC: one run, beside a tenant that has an          *)
(* assertion about the same vendor, a span whose embedding is as near as   *)
(* the best of the run, and that stores another one meanwhile.             *)
(***************************************************************************)
EXTENDS ValidationScript

CONSTANTS acme

MCContents ==
    {a.content : a \in {contract_assertion, amendment_assertion, draft_assertion}}
    \cup {[contract_assertion.content EXCEPT !.value = 99]}

MCModels == {"validation-embedding"}

Theirs(row) == [row EXCEPT !.tenant_id = acme]

TheirSource(id) == [tenant_id |-> acme, source_id |-> id]

TheirSpan(id) == [Theirs(span_payload(6)) EXCEPT !.span_id = id, !.source_id = id]

TheirEmbedding(id) == [Theirs(embedding_payload(6)) EXCEPT !.span_id = id]

MCOthers ==
    [assertions |-> {Theirs([contract_assertion EXCEPT !.content.value = 99])},
     workflow |-> {Theirs(workflow_payload)},
     sources |-> {TheirSource(7)},
     spans |-> {TheirSpan(7)},
     embeddings |-> {TheirEmbedding(7)}]

MCEnvelopes == {TheirSource(8)}
MCSpans == {TheirSpan(8)}
MCEmbeddings == {TheirEmbedding(8)}

\* The defaults of the settings, without a graph.
MCSettings ==
    [max_context_assertions |-> 20, max_context_evidence |-> 8, enable_graph |-> FALSE]

MCInstants == {101, 201, 401, 405, 415, 501}
=============================================================================

------------------------- MODULE MCContextAssembly -------------------------
(***************************************************************************)
(* ContextAssembly for TLC: a term, its correction and a rival claim about *)
(* one vendor, a correction from the first day that empties the term's     *)
(* interval, an assertion of another tenant, three spans and their         *)
(* embeddings, and a small graph of entities.                              *)
(***************************************************************************)
EXTENDS ContextAssembly, TLC

CONSTANTS t1, t2, vendor

MCInstants == 1..3

MCAssertionIds == 1..3

Content(value, source_id, recorded_at) ==
    [entity_id |-> vendor, topic |-> "rate", value |-> value,
     source_id |-> source_id, recorded_at |-> recorded_at]

\* Contract 1, its amendment 2, and another tenant's contract.
OfContract == Content(10, 1, 1)
OfAmendment == Content(12, 2, 2)
OfDraft == Content(8, 1, 3)
OfOther == Content(99, 1, 2)

MCContents == {OfContract, OfAmendment, OfDraft, OfOther}

Assertion(tenant, id, content, from, to, target) ==
    [tenant_id |-> tenant, assertion_id |-> id, content |-> content,
     valid_from |-> from, valid_to |-> to, status |-> "active",
     supersedes_assertion_id |-> target]

First == Assertion(t1, 1, OfContract, 1, None, None)
Correction == Assertion(t1, 2, OfAmendment, 2, None, 1)
Rival == Assertion(t1, 3, OfDraft, None, 2, None)
SameStart == Assertion(t1, 2, OfAmendment, 1, None, 1)
Undated == Assertion(t1, 2, OfAmendment, None, None, 1)
OtherTenant == Assertion(t2, 1, OfOther, 1, None, None)

MCRequests == {First, Correction, SameStart, Rival}
MCUndatedRequests == {First, Undated}

Source(id) == [tenant_id |-> t1, source_id |-> id]

MCEnvelopes == {Source(1), Source(2), Source(3)}

Span(tenant, id, source_id, start) ==
    [tenant_id |-> tenant, span_id |-> id, source_id |-> source_id,
     start_offset |-> start, end_offset |-> start + 2, length |-> 2]

MCSpans == {Span(t1, 1, 1, 4), Span(t1, 2, 2, 0)}
MCOwnSpans == {Span(t1, 1, 1, 4), Span(t1, 2, 2, 0), Span(t1, 3, 3, 4)}

Vector(tenant, id, dimensions) ==
    [tenant_id |-> tenant, span_id |-> id, model |-> "m", dimensions |-> dimensions]

\* The model "m" makes vectors of length 2; the others are mistakes.
MCEmbeddings == {Vector(t1, 1, 2), Vector(t1, 2, 3)}
MCNone == {}

\* The other tenant uses the same ids, and has hung its span under a source of
\* the first one.
MCEarlier ==
    [assertions |-> {OtherTenant}, spans |-> {Span(t2, 1, 1, 0)},
     embeddings |-> {Vector(t2, 1, 3)}]
MCNothingEarlier == [assertions |-> {}, spans |-> {}, embeddings |-> {}]

MCModels == {"m"}

Node(tenant, id) == [label |-> "Entity", tenant_id |-> tenant, entity_id |-> id]

Joins(id, m, n) == [id |-> id, ends |-> {m, n}]

\* Entities 1 to 5 of one tenant, two relationships between the first two; 7 is
\* related to 1 only through a node of another tenant.
MCGraph ==
    LET n == [i \in 1..7 |-> Node(IF i = 6 THEN t2 ELSE t1, i)] IN
    [nodes |-> {n[i] : i \in 1..7},
     relationships |->
        {Joins(1, n[1], n[2]), Joins(2, n[1], n[2]), Joins(3, n[2], n[3]),
         Joins(4, n[3], n[4]), Joins(5, n[1], n[5]), Joins(6, n[1], n[6]),
         Joins(7, n[6], n[7])}]

MCNoGraph == [nodes |-> {}, relationships |-> {}]

MCGraphs == {MCNoGraph, MCGraph}
MCNoGraphs == {MCNoGraph}

Bounds(for_assertions, for_evidence, graph) ==
    [max_context_assertions |-> for_assertions, max_context_evidence |-> for_evidence,
     enable_graph |-> graph]

Ask(entity, at, spans_wanted, embedding) ==
    [tenant_id |-> t1, entity_id |-> entity, at_time |-> at, blank |-> FALSE,
     max_assertions |-> 2, max_evidence_items |-> spans_wanted, embedding |-> embedding,
     settings |-> Bounds(20, 3, TRUE)]

AskWithin(bounds, entity, blank, embedding) ==
    [Ask(entity, None, 2, embedding) EXCEPT !.blank = blank, !.settings = bounds]

ByMeaning == [model |-> "m", dimensions |-> 2]

\* Settings without room: refused by find(), by get_for_sources, by each of the
\* searches, by the graph; and not at all, when nothing is asked of them.
MCNarrowBuilds ==
    {AskWithin(Bounds(-1, 3, TRUE), vendor, FALSE, None),
     AskWithin(Bounds(20, -1, FALSE), vendor, TRUE, None),
     AskWithin(Bounds(20, 0, TRUE), None, TRUE, ByMeaning),
     AskWithin(Bounds(0, 0, TRUE), vendor, FALSE, None),
     AskWithin(Bounds(20, 0, TRUE), vendor, TRUE, None),
     AskWithin(Bounds(-1, -1, TRUE), None, TRUE, None)}

\* Now, at a past instant, without an entity; by words alone or with a vector.
MCBuilds ==
    {Ask(vendor, None, 1, None), Ask(vendor, 2, 8, ByMeaning), Ask(None, 2, 2, None)}
    \cup MCNarrowBuilds
MCPresentBuilds == {Ask(vendor, 3, 2, None)}
=============================================================================

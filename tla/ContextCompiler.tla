--------------------------- MODULE ContextCompiler ---------------------------
(***************************************************************************)
(* The computations of ContextAssemblyService.build: what the assertion    *)
(* query selects, which evidence is kept, and what counts as a conflict.   *)
(* The content of an assertion is a record with its entity_id, its topic   *)
(* (attribute, unit and canonical scope), value, source_id, recorded_at.   *)
(***************************************************************************)
EXTENDS Assertions, Fusion, RelationshipGraph

CONSTANT Models     \* <<model_name, model_version>> of embeddings

\* The settings that bound a build; nothing keeps an operator from choosing
\* bounds of 0 or less.
Settings ==
    [max_context_assertions : Int, max_context_evidence : Int, enable_graph : BOOLEAN]

\* The request schema: a query embedding comes with its model and version.  Of
\* the task it matters whether it is blank.  With the request come the settings
\* of the process that answers it, which need not be those of the next one.
ContextRequest ==
    [tenant_id : Tenants,
     entity_id : {c.entity_id : c \in Contents} \cup {None},
     at_time : Instants \cup {None},
     blank : BOOLEAN,
     max_assertions : 1..200,
     max_evidence_items : 1..100,
     embedding : [model : Models, dimensions : 1..2000] \cup {None},
     settings : Settings]

\* The validator of a span, run on requests, on rows and on retrieved spans.
OffsetsAreValid(s) == 0 <= s.start_offset /\ s.start_offset <= s.end_offset

\* The entries of s at these places, in their order.
AtPlaces(s, places) ==
    [n \in 1..Cardinality(places) |->
        s[CHOOSE i \in places : Cardinality({j \in places : j <= i}) = n]]

\* The orders in which SQL may return the rows S under an ORDER BY: rows that
\* compare equal come in any order.
Orderings(S, Before(_, _)) ==
    {s \in SetToSeqs(S) : \A i, j \in DOMAIN s : i < j => ~Before(s[j], s[i])}

-----------------------------------------------------------------------------

\* ORDER BY recorded_at DESC, assertion_id DESC.
MoreRecent(a, b) ==
    \/ a.content.recorded_at > b.content.recorded_at
    \/ /\ a.content.recorded_at = b.content.recorded_at
       /\ a.assertion_id > b.assertion_id

\* A faulty Selected: no tenant in the WHERE clause.
SelectedAnyTenant(rows, request) ==
    {r \in rows :
        /\ r.content.entity_id = request.entity_id
        /\ request.at_time # None => ValidAt(r, request.at_time)}

\* The WHERE clause of find().
Selected(rows, request) ==
    {r \in rows :
        /\ r.tenant_id = request.tenant_id
        /\ r.content.entity_id = request.entity_id
        /\ request.at_time # None => ValidAt(r, request.at_time)}

AssertionLimit(request) ==
    Min({request.max_assertions, request.settings.max_context_assertions})

EvidenceLimit(request) ==
    Min({request.max_evidence_items, request.settings.max_context_evidence})

\* Does the build ask find() at all, and does the LIMIT make that an error?
FindRefused(request) == request.entity_id # None /\ AssertionLimit(request) < 0

\* A faulty FindResults: the limit applied before the time filter.
FindResultsLimitedFirst(rows, request) ==
    LET anytime == Selected(rows, [request EXCEPT !.at_time = None])
    IN {SelectSeq(Take(s, AssertionLimit(request)),
                  LAMBDA r : request.at_time = None \/ ValidAt(r, request.at_time)) :
            s \in Orderings(anytime, MoreRecent)}

\* What the query returns; a row that fails validation makes find() raise.
FindResults(rows, request) ==
    {Take(s, AssertionLimit(request)) : s \in Orderings(Selected(rows, request), MoreRecent)}

RelevantToContext(a, at_time) == at_time = None \/ ValidAt(a, at_time)

\* What build() keeps of the answer.
Relevant(found, at_time) ==
    AtPlaces(found, {i \in DOMAIN found : RelevantToContext(found[i], at_time)})

-----------------------------------------------------------------------------

\* Faulty IntervalsOverlap: intervals that only touch are taken to overlap.
IntervalsTouch(left, right) ==
    LET starts == {left.valid_from, right.valid_from} \ {None}
        ends == {left.valid_to, right.valid_to} \ {None}
    IN \A s \in starts, e \in ends : s <= e

\* The latest start lies before the earliest end, where both exist.
IntervalsOverlap(left, right) ==
    LET starts == {left.valid_from, right.valid_from} \ {None}
        ends == {left.valid_to, right.valid_to} \ {None}
    IN \A s \in starts, e \in ends : s < e

\* The assertions whose disagreement is a conflict: all those that hold at
\* at_time or, without one, those not marked as past.
Contestable(a, at_time) ==
    IF at_time = None THEN a.status \notin {"superseded", "historical"}
                      ELSE RelevantToContext(a, at_time)

TopicOf(a) == <<a.content.entity_id, a.content.topic>>

Clash(left, right, at_time) ==
    /\ Contestable(left, at_time) /\ Contestable(right, at_time)
    /\ TopicOf(left) = TopicOf(right)
    /\ left.content.value # right.content.value
    /\ IntervalsOverlap(left, right)

\* One conflict per topic, naming every assertion that takes part in a clash.
Conflicts(assertions, at_time) ==
    LET clashing == {i \in DOMAIN assertions : \E j \in DOMAIN assertions :
                        i # j /\ Clash(assertions[i], assertions[j], at_time)}
    IN  {[topic |-> g,
          assertion_ids |-> {assertions[i].assertion_id :
                                i \in {j \in clashing : TopicOf(assertions[j]) = g}}] :
            g \in {TopicOf(assertions[i]) : i \in clashing}}

-----------------------------------------------------------------------------

\* ORDER BY source_id, start_offset.
EarlierInSource(s, t) ==
    \/ s.source_id < t.source_id
    \/ s.source_id = t.source_id /\ s.start_offset < t.start_offset

SourceEvidence(rows, tenant, source_ids, limit) ==
    LET found == {s \in rows : s.tenant_id = tenant /\ s.source_id \in source_ids}
    IN  {Take(s, limit) : s \in Orderings(found, EarlierInSource)}

\* get_for_sources sends no query without sources; LIMIT must not be negative.
SourcesRefused(source_ids, request) == source_ids # {} /\ EvidenceLimit(request) < 0

\* A search with a limit below 1 is a ValueError: of HybridRetrievalService with
\* an embedding, of lexical_search, which looks at the task first, without one.
SearchRefused(request) ==
    EvidenceLimit(request) < 1 /\ (request.embedding # None \/ ~request.blank)

\* lexical_search: which spans match and how they rank is the database's.
LexicalResults(rows, request, limit) ==
    IF request.blank THEN {<<>>}
    ELSE {Take(s, limit) : s \in SetToAllKPermutations(
             {r.span_id : r \in {r \in rows : r.tenant_id = request.tenant_id}})}

\* A faulty Embedded: no tenant in the WHERE clause.
EmbeddedAnyTenant(rows, request) == {e \in rows : e.model = request.embedding.model}

\* The embeddings semantic_search compares the query with.
Embedded(rows, request) ==
    {e \in rows : e.tenant_id = request.tenant_id /\ e.model = request.embedding.model}

\* The distance of vectors of different lengths is an error of the statement.
Comparable(rows, request) ==
    \A e \in Embedded(rows, request) : e.dimensions = request.embedding.dimensions

\* All of them are ranked, however distant.
SemanticResults(rows, request, limit) ==
    {Take(s, limit) : s \in SetToSeqs({e.span_id : e \in Embedded(rows, request)})}

\* The span made of a retrieval hit, which carries no offsets.
RetrievedSpan(s) == [s EXCEPT !.start_offset = 0, !.end_offset = s.length]

\* dict insertion: the first of a key decides the place, the last the value.
Merge(s, t) ==
    LET all == s \o t
        same(i) == {j \in DOMAIN all : all[j].span_id = all[i].span_id}
        last == [i \in DOMAIN all |-> all[Max(same(i))]]
    IN  AtPlaces(last, {i \in DOMAIN all : i = Min(same(i))})

\* A faulty MergeEvidence: the retrieved span wins over the stored one.
MergeEvidenceRetrieved(retrieved, source, limit) == Take(Merge(source, retrieved), limit)

\* Another faulty one: duplicates are left in.
MergeEvidenceUndeduplicated(retrieved, source, limit) == Take(retrieved \o source, limit)

MergeEvidence(retrieved, source, limit) == Take(Merge(retrieved, source), limit)

\* The graph is asked for the neighbours of the entity, where there is a graph.
GraphAsked(request) == request.settings.enable_graph /\ request.entity_id # None

\* related() does not take a limit below 1 either.
GraphRefused(request) == GraphAsked(request) /\ EvidenceLimit(request) * 4 < 1

\* What a bundle says of its own size.
Bounded(assertions, evidence, relationships, request) ==
    /\ Len(assertions) <= AssertionLimit(request)
    /\ Len(evidence) <= EvidenceLimit(request)
    /\ Cardinality(relationships) <= EvidenceLimit(request) * 4
=============================================================================

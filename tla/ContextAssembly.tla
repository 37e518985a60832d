--------------------------- MODULE ContextAssembly ---------------------------
(***************************************************************************)
(* ContextAssemblyService.build as a process: up to six reads, each in a   *)
(* transaction of its own, while clients go on recording assertions, spans *)
(* and embeddings.  The writers of assertions are the atomic ledger, which *)
(* AssertionStore implements; the evidence tables and their writers are    *)
(* EvidenceStore's.  The graph, which others write, is any of Graphs when  *)
(* it is read.  The workflow state goes through to the bundle unread.      *)
(***************************************************************************)
EXTENDS ContextCompiler, EvidenceStore

CONSTANTS
    Requests,       \* the assertions clients submit
    Earlier,        \* the assertions, spans and embeddings there already are
    Builds,         \* the context requests
    Graphs          \* what the graph may hold

\* The schema of a span; its identifiers are numbers here.
SpanRecord ==
    [tenant_id : Tenants, span_id : Nat, source_id : Nat,
     start_offset : Nat, end_offset : Nat, length : Nat]

ASSUME ContentsAssumption == \A c \in Contents : c.entity_id # None

ASSUME RequestsAssumption == Requests \subseteq CommercialAssertion

ASSUME BuildsAssumption == Builds \subseteq ContextRequest

ASSUME SpansAssumption == Spans \subseteq {s \in SpanRecord : OffsetsAreValid(s)}

ASSUME GraphsAssumption ==
    \A g \in Graphs : IsFiniteSet(g.nodes) /\ IsFiniteSet(g.relationships)

\* Finitely many rows, that satisfy the unique and the foreign keys.
ASSUME EarlierAssumption ==
    /\ Earlier.assertions \subseteq AssertionRecord /\ IsFiniteSet(Earlier.assertions)
    /\ Earlier.spans \subseteq SpanRecord /\ IsFiniteSet(Earlier.spans)
    /\ \A s, t \in Earlier.spans : SpanKey(s) = SpanKey(t) => s = t
    /\ IsFiniteSet(Earlier.embeddings)
    /\ \A e \in Earlier.embeddings :
          \E s \in Earlier.spans : SpanKey(s) = <<e.tenant_id, e.span_id>>

VARIABLES
    ledger,         \* committed assertions by key
    stage,          \* the read build makes next
    request,        \* the request it answers
    began,          \* history: the tables when the build began
    assertions, source, lexical, retrieved,     \* what the reads returned
    bundle,         \* the answer, or None
    raised          \* did the build end with an error of its own?

reads == <<assertions, source, lexical, retrieved>>

tables == <<ledger, evidence>>

vars == <<tables, stage, request, began, reads, bundle, raised>>

Ledger == INSTANCE AssertionLedger

Rows(table) == {table[k] : k \in AssertionKey} \ {None}

SourcesOf(found) == {a.content.source_id : a \in ToSet(found)}

\* The spans made of hits, whose ids are those of spans of the tenant.
SpansOfHits(hits) ==
    [i \in DOMAIN hits |->
        RetrievedSpan(CHOOSE s \in spans : SpanKey(s) = <<request.tenant_id, hits[i]>>)]

NoReads == assertions' = <<>> /\ source' = <<>> /\ lexical' = <<>> /\ retrieved' = <<>>

-----------------------------------------------------------------------------

\* The sources were posted before, and so was what is Earlier.
Init ==
    /\ ledger = [k \in AssertionKey |->
                    IF \E a \in Earlier.assertions : KeyOf(a) = k
                    THEN CHOOSE a \in Earlier.assertions : KeyOf(a) = k ELSE None]
    /\ sources = Envelopes
    /\ spans = Earlier.spans
    /\ embeddings = Earlier.embeddings
    /\ stage = "idle"
    /\ request = None
    /\ began = None
    /\ assertions = <<>> /\ source = <<>> /\ lexical = <<>> /\ retrieved = <<>>
    /\ bundle = None
    /\ raised = FALSE

Build(r) ==
    /\ stage = "idle"
    /\ stage' = "workflow"
    /\ request' = r
    /\ began' = [keys |-> {k \in AssertionKey : ledger[k] # None},
                 spans |-> spans, embeddings |-> embeddings]
    /\ UNCHANGED <<tables, reads, bundle, raised>>

\* The state of the case is read first; a case without one is no error.
GetWorkflow ==
    /\ stage = "workflow"
    /\ stage' = "assertions"
    /\ UNCHANGED <<tables, request, began, reads, bundle, raised>>

Raise ==
    /\ stage' = "answer"
    /\ raised' = TRUE
    /\ NoReads
    /\ UNCHANGED <<tables, request, began, bundle>>

FindAssertions ==
    /\ stage = "assertions"
    /\ \E found \in IF request.entity_id = None THEN {<<>>}
                    ELSE FindResults(Rows(ledger), request) :
          IF FindRefused(request) \/ \E a \in ToSet(found) : ~IntervalIsValid(a)
          THEN Raise
          ELSE /\ stage' = "evidence"
               /\ assertions' = Relevant(found, request.at_time)
               /\ UNCHANGED <<tables, request, began, source, lexical, retrieved,
                              bundle, raised>>

GetSourceEvidence ==
    /\ stage = "evidence"
    /\ IF SourcesRefused(SourcesOf(assertions), request) THEN Raise
       ELSE /\ stage' = "lexical"
            /\ source' \in SourceEvidence(spans, request.tenant_id, SourcesOf(assertions),
                                          EvidenceLimit(request))
            /\ UNCHANGED <<tables, request, began, assertions, lexical, retrieved,
                           bundle, raised>>

\* With an embedding the hits are candidates for the fusion, without one they
\* are the retrieved evidence.
LexicalSearch ==
    /\ stage = "lexical"
    /\ IF SearchRefused(request) THEN Raise
       ELSE /\ IF request.embedding # None
               THEN /\ stage' = "semantic"
                    /\ lexical' \in LexicalResults(spans, request,
                                                   CandidateLimit(EvidenceLimit(request)))
                    /\ UNCHANGED retrieved
               ELSE /\ stage' = "relationships"
                    /\ \E hits \in LexicalResults(spans, request, EvidenceLimit(request)) :
                          retrieved' = SpansOfHits(hits)
                    /\ UNCHANGED lexical
            /\ UNCHANGED <<tables, request, began, assertions, source, bundle, raised>>

\* Its limit is a number of candidates, never below 10, which it does not refuse.
SemanticSearch ==
    /\ stage = "semantic"
    /\ IF ~Comparable(embeddings, request) THEN Raise
       ELSE /\ stage' = "relationships"
            /\ \E hits \in SemanticResults(embeddings, request,
                                          CandidateLimit(EvidenceLimit(request))) :
                  retrieved' = SpansOfHits(Take(Fuse(lexical, hits), EvidenceLimit(request)))
            /\ lexical' = <<>>
            /\ UNCHANGED <<tables, request, began, assertions, source, bundle, raised>>

\* The answer, as far as it depends on the reads.  Which graph was read is kept
\* as history.
BundleOf(graph, paths) ==
    LET kept == MergeEvidence(retrieved, source, EvidenceLimit(request))
    IN  [assertions |-> assertions, evidence |-> kept, relationships |-> paths,
         conflicts |-> Conflicts(assertions, request.at_time),
         bounded |-> Bounded(assertions, kept, paths, request),
         graph |-> graph]

\* The graph is asked last, if there is one; then the bundle is put together.
Assemble ==
    /\ stage = "relationships"
    /\ IF GraphRefused(request) THEN Raise
       ELSE /\ stage' = "answer"
            /\ \E graph \in Graphs :
                  \E paths \in IF ~GraphAsked(request) THEN {{}}
                              ELSE Related(graph, request.tenant_id, {request.entity_id},
                                           EvidenceLimit(request) * 4) :
                    bundle' = BundleOf(graph, paths)
            /\ NoReads
            /\ UNCHANGED <<tables, request, began, raised>>

\* The database or the graph does not answer.
ReadFails ==
    /\ stage \notin {"idle", "answer"}
    /\ stage' = "answer"
    /\ NoReads
    /\ UNCHANGED <<tables, request, began, bundle, raised>>

\* The response leaves.
Respond ==
    /\ stage = "answer"
    /\ stage' = "idle"
    /\ request' = None /\ began' = None /\ bundle' = None /\ raised' = FALSE
    /\ UNCHANGED <<tables, reads>>

RecordAssertion ==
    /\ Ledger!Next
    /\ UNCHANGED <<evidence, stage, request, began, reads, bundle, raised>>

RecordEvidence ==
    /\ EvidenceNext
    /\ UNCHANGED <<ledger, stage, request, began, reads, bundle, raised>>

Next ==
    \/ \E r \in Builds : Build(r)
    \/ GetWorkflow
    \/ FindAssertions
    \/ GetSourceEvidence
    \/ LexicalSearch
    \/ SemanticSearch
    \/ Assemble
    \/ ReadFails
    \/ Respond
    \/ RecordAssertion
    \/ RecordEvidence

Spec == Init /\ [][Next]_vars

-----------------------------------------------------------------------------

TypeOK ==
    /\ ledger \in [AssertionKey -> AssertionRecord \cup {None}]
    /\ sources = Envelopes /\ spans \subseteq Spans \cup Earlier.spans
    /\ embeddings \subseteq Embeddings \cup Earlier.embeddings
    /\ stage \in {"idle", "workflow", "assertions", "evidence", "lexical",
                  "semantic", "relationships", "answer"}
    /\ request \in Builds \cup {None}
    /\ ToSet(assertions) \subseteq CommercialAssertion
    /\ ToSet(source) \subseteq spans
    /\ ToSet(lexical) \subseteq {s.span_id : s \in spans}

\* Nothing of another tenant reaches a bundle, though tenants share identifiers
\* and paths of the graph lead through other tenants' nodes.
TenantIsolation ==
    bundle # None =>
        /\ \A a \in ToSet(bundle.assertions) : a.tenant_id = request.tenant_id
        /\ \A s \in ToSet(bundle.evidence) : s.tenant_id = request.tenant_id
        /\ \A p \in bundle.relationships : \A n \in ToSet(p) : n.tenant_id = request.tenant_id

\* A bundle keeps every bound of its request and of the settings, as it says of
\* itself, and spends no place of it on a span it already has; under a negative
\* bound it has nothing that counts against it.
BundleBounded ==
    bundle # None =>
        /\ bundle.bounded \/ AssertionLimit(request) < 0 \/ EvidenceLimit(request) < 0
        /\ AssertionLimit(request) < 0 => bundle.assertions = <<>>
        /\ EvidenceLimit(request) < 0 => bundle.evidence = <<>>
        /\ Cardinality({s.span_id : s \in ToSet(bundle.evidence)})
              = Len(bundle.evidence)

\* A bundle with room left has left nothing out: each assertion that was recorded
\* before the build and is still valid at the time asked for is in it.
NothingValidLeftOut ==
    bundle # None /\ Len(bundle.assertions) < AssertionLimit(request) =>
        \A r \in Rows(ledger) :
            /\ KeyOf(r) \in began.keys
            /\ r.tenant_id = request.tenant_id
            /\ r.content.entity_id = request.entity_id
            /\ request.at_time # None => ValidAt(r, request.at_time)
            => \E a \in ToSet(bundle.assertions) : KeyOf(a) = KeyOf(r)

\* With room left, every span recorded before the build under the source of an
\* assertion is in the bundle as it was stored, retrieved as well or not.
NoEvidenceLeftOut ==
    bundle # None /\ Len(bundle.evidence) < EvidenceLimit(request) =>
        \A s \in began.spans :
            s.tenant_id = request.tenant_id /\ s.source_id \in SourcesOf(bundle.assertions)
                => s \in ToSet(bundle.evidence)

\* Likewise every span that had an embedding of the model asked for before the
\* build, whatever the lexical search finds and however far away it is.
NoEmbeddedLeftOut ==
    bundle # None /\ request.embedding # None
            /\ Len(bundle.evidence) < EvidenceLimit(request) =>
        \A e \in Embedded(began.embeddings, request) :
            \E s \in ToSet(bundle.evidence) : s.span_id = e.span_id

\* A build raises only on account of what its own tenant has stored, a row whose
\* interval is empty or vectors of another length under the model asked for, or
\* of settings that leave it no room.
RaisedOnOwnData ==
    raised =>
        \/ \E r \in Rows(ledger) : r.tenant_id = request.tenant_id /\ ~IntervalIsValid(r)
        \/ /\ request.embedding # None
           /\ \E e \in embeddings :
                 /\ e.tenant_id = request.tenant_id
                 /\ e.model = request.embedding.model
                 /\ e.dimensions # request.embedding.dimensions
        \/ request.entity_id # None /\ AssertionLimit(request) < 0
        \/ EvidenceLimit(request) < 1

\* The nodes at most k relationships away, through nodes of the tenant only.
Within(graph, tenant, from, k) ==
    LET own == {n \in graph.nodes : n.tenant_id = tenant}
        reach[i \in 0..k] ==
            IF i = 0 THEN from
            ELSE reach[i-1] \cup {n \in own : \E m \in reach[i-1], r \in graph.relationships :
                                                  r.ends = {m, n}}
    IN  reach[k]

\* Each entity the tenant's graph connects to the one asked for, at most three
\* relationships away, is the end of a path in the bundle, a shortest one;
\* unless the bundle is full, and then of paths that are no longer.
NearestRelated ==
    bundle # None /\ GraphAsked(request) =>
        LET from == Starts(bundle.graph, request.tenant_id, {request.entity_id})
            near(k) == Within(bundle.graph, request.tenant_id, from, k)
        IN \A k \in 1..3 : \A n \in near(k) \ near(k-1) :
              \/ \E p \in bundle.relationships : Last(p) = n /\ Len(p) = k + 1
              \/ /\ Cardinality(bundle.relationships) = EvidenceLimit(request) * 4
                 /\ \A p \in bundle.relationships : Len(p) <= k + 1

\* Two assertions disagree: they say different things about one topic at one
\* instant, the one asked for if there is one.
Disagree(a, b) ==
    /\ TopicOf(a) = TopicOf(b)
    /\ a.content.value # b.content.value
    /\ \E t \in IF request.at_time # None THEN {request.at_time}
                ELSE Instants \cup {i - 1 : i \in Instants} :
          ValidAt(a, t) /\ ValidAt(b, t)
    /\ request.at_time = None =>
          {a.status, b.status} \cap {"superseded", "historical"} = {}

\* The reported conflicts are the disagreements: an assertion is named under its
\* topic exactly when another one of the bundle disagrees with it.
ConflictsAreDisagreements ==
    bundle # None =>
        \A a \in ToSet(bundle.assertions) :
            (\E c \in bundle.conflicts :
                c.topic = TopicOf(a) /\ a.assertion_id \in c.assertion_ids)
            <=> \E b \in ToSet(bundle.assertions) : Disagree(a, b)

-----------------------------------------------------------------------------

\* What tests/test_context_service.py:157 asserts of the bundle for the present
\* instant, taken here to be the last one: nothing superseded is in it.
CurrentHasNoSuperseded ==
    bundle # None /\ (\A t \in Instants : t <= request.at_time) =>
        \A a \in ToSet(bundle.assertions) : a.status # "superseded"
=============================================================================

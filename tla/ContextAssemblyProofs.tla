----------------------- MODULE ContextAssemblyProofs -----------------------
(***************************************************************************)
(* Proofs about the context builds: what their computations return for any *)
(* input, and what a bundle keeps, for any tenants, rows and requests.     *)
(***************************************************************************)
EXTENDS ContextAssembly, ContextCompilerProofs

\* The invariant: what the tables and the reads of a build are at each stage.

\* At every stage the tables have finitely many rows, under their keys.
TablesInv ==
    /\ ledger \in [AssertionKey -> AssertionRecord \cup {None}]
    /\ \A k \in AssertionKey : ledger[k] # None => KeyOf(ledger[k]) = k
    /\ IsFiniteSet(Rows(ledger))
    /\ sources = Envelopes
    /\ spans \subseteq Spans \cup Earlier.spans /\ spans \subseteq SpanRecord
    /\ IsFiniteSet(spans)
    /\ \A s, t \in spans : SpanKey(s) = SpanKey(t) => s = t
    /\ embeddings \subseteq Embeddings \cup Earlier.embeddings
    /\ IsFiniteSet(embeddings)
    /\ \A e \in embeddings : SpanStored(SpanKey(e))

\* What there was when the build began is still there.
RequestInv ==
    /\ stage \in {"idle", "workflow", "assertions", "evidence", "lexical",
                  "semantic", "relationships", "answer"}
    /\ request \in Builds \cup {None}
    /\ stage # "idle" =>
          /\ request \in Builds
          /\ \A k \in began.keys : k \in AssertionKey /\ ledger[k] # None
          /\ began.spans \subseteq spans
          /\ began.embeddings \subseteq embeddings
    /\ stage = "semantic" => request.embedding # None /\ EvidenceLimit(request) >= 1
    /\ bundle # None => stage = "answer" /\ ~raised
    /\ raised => stage = "answer"

\* The query asks for this row.
AskedFor(r) ==
    /\ r.tenant_id = request.tenant_id
    /\ r.content.entity_id = request.entity_id
    /\ request.at_time # None => ValidAt(r, request.at_time)

OwnAssertions == {a \in CommercialAssertion : a.tenant_id = request.tenant_id}

OwnSpans == {x \in SpanRecord : x.tenant_id = request.tenant_id}

OwnIds == {x.span_id : x \in {x \in spans : x.tenant_id = request.tenant_id}}

\* Nothing is read under a limit that refuses to be one.
Fits(s, limit) == IF limit < 0 THEN s = <<>> ELSE Len(s) <= limit

\* The rows found may be superseded later, which puts no other row in their place.
AssertionsRead(s) ==
    /\ s \in Seq(OwnAssertions) /\ Fits(s, AssertionLimit(request))
    /\ \A i, j \in DOMAIN s : KeyOf(s[i]) = KeyOf(s[j]) => i = j
    /\ Len(s) < AssertionLimit(request) =>
          \A k \in began.keys : AskedFor(ledger[k]) => \E a \in ToSet(s) : KeyOf(a) = k

\* The spans of the sources that assertions s name are all in e.
CoversSources(s, e) ==
    \A x \in began.spans :
        x.tenant_id = request.tenant_id /\ x.source_id \in SourcesOf(s) => x \in ToSet(e)

\* The spans with an embedding of the model asked for all have a span in e.
CoversEmbedded(e) ==
    request.embedding # None =>
        \A m \in Embedded(began.embeddings, request) :
            \E x \in ToSet(e) : x.span_id = m.span_id

\* Spans of the tenant, within the limit, no id twice.
SpansRead(s) ==
    s \in Seq(OwnSpans) /\ Fits(s, EvidenceLimit(request)) /\ Distinct(Ids(s))

SourceRead(s) ==
    /\ SpansRead(s) /\ ToSet(s) \subseteq spans
    /\ Len(s) < EvidenceLimit(request) => CoversSources(assertions, s)

RetrievedRead(s) ==
    /\ SpansRead(s)
    /\ Len(s) < EvidenceLimit(request) => CoversEmbedded(s)

\* A read that was not made, or that has been used, is empty.
ReadsInv ==
    /\ IF stage \in {"evidence", "lexical", "semantic", "relationships"}
       THEN AssertionsRead(assertions) ELSE assertions = <<>>
    /\ IF stage \in {"lexical", "semantic", "relationships"}
       THEN SourceRead(source) ELSE source = <<>>
    /\ IF stage = "semantic"
       THEN lexical \in Seq(OwnIds) /\ Distinct(lexical) ELSE lexical = <<>>
    /\ IF stage = "relationships" THEN RetrievedRead(retrieved) ELSE retrieved = <<>>

BundleInv ==
    bundle # None =>
        /\ AssertionsRead(bundle.assertions)
        /\ SpansRead(bundle.evidence)
        /\ Len(bundle.evidence) < EvidenceLimit(request) =>
              /\ CoversSources(bundle.assertions, bundle.evidence)
              /\ CoversEmbedded(bundle.evidence)
        /\ \A p \in bundle.relationships :
              \A n \in ToSet(p) : n.tenant_id = request.tenant_id
        /\ EvidenceLimit(request) >= 0 =>
              Cardinality(bundle.relationships) <= EvidenceLimit(request) * 4
        /\ bundle.bounded = Bounded(bundle.assertions, bundle.evidence,
                                    bundle.relationships, request)
        /\ bundle.graph \in Graphs
        /\ GraphAsked(request) =>
              EvidenceLimit(request) >= 1 /\
              bundle.relationships \in Related(bundle.graph, request.tenant_id,
                                              {request.entity_id}, EvidenceLimit(request) * 4)
        /\ bundle.conflicts = Conflicts(bundle.assertions, request.at_time)

AssemblyInv ==
    TablesInv /\ RequestInv /\ ReadsInv /\ BundleInv /\ RaisedOnOwnData

-----------------------------------------------------------------------------
\* What the writers do to the tables.

\* A ledger grows: what is recorded stays, at most superseded.
Grows(l, m) ==
    \A k \in AssertionKey :
        l[k] # None => m[k] = l[k] \/ \E a \in AssertionRecord : m[k] = Supersede(l[k], a)

\* The repository's promise to the builds.
LEMMA LedgerStep ==
    ASSUME TablesInv, Ledger!Next
    PROVE  /\ Grows(ledger, ledger')
           /\ ledger' \in [AssertionKey -> AssertionRecord \cup {None}]
           /\ \A k \in AssertionKey : ledger'[k] # None => KeyOf(ledger'[k]) = k
           /\ IsFiniteSet(Rows(ledger'))
<1> USE DEF Ledger!KeyOf, Ledger!TargetOf, Ledger!Supersede, Ledger!ClosedAt
<1>0. PICK a \in Requests : Ledger!Put(a) \/ Ledger!PutSuperseding(a)
  BY DEF Ledger!Next
<1> DEFINE k0 == KeyOf(a)
           l1 == [ledger EXCEPT ![k0] = a]
<1>1. /\ a \in AssertionRecord /\ a # None /\ k0 \in AssertionKey
      /\ a.supersedes_assertion_id # None => TargetOf(a) \in AssertionKey
  BY RequestsAssumption, NoneAssumption
     DEF CommercialAssertion, AssertionRecord, AssertionKey, KeyOf, TargetOf
<1>2. /\ ledger \in [AssertionKey -> AssertionRecord \cup {None}]
      /\ \A k \in AssertionKey : ledger[k] # None => KeyOf(ledger[k]) = k
      /\ IsFiniteSet(Rows(ledger))
      /\ ledger[k0] = None
  BY <1>0 DEF TablesInv, Ledger!Put, Ledger!PutSuperseding, KeyOf
<1>3. /\ l1 \in [AssertionKey -> AssertionRecord \cup {None}]
      /\ \A k \in AssertionKey : l1[k] = IF k = k0 THEN a ELSE ledger[k]
      /\ \A k \in AssertionKey : l1[k] # None => KeyOf(l1[k]) = k
      /\ Rows(l1) \subseteq Rows(ledger) \cup {a}
  BY <1>1, <1>2 DEF Rows
<1>4. \/ ledger' = l1
      \/ \E b \in AssertionKey :
            l1[b] # None /\ ledger' = [l1 EXCEPT ![b] = Supersede(l1[b], a)]
  <2>1. CASE Ledger!Put(a)
    BY <2>1 DEF Ledger!Put, Ledger!Recorded, KeyOf
  <2>2. CASE Ledger!PutSuperseding(a)
    <3>1. /\ TargetOf(a) \in AssertionKey /\ l1[TargetOf(a)] # None
          /\ ledger' = [l1 EXCEPT ![TargetOf(a)] = Supersede(l1[TargetOf(a)], a)]
      BY <1>1, <2>2 DEF Ledger!PutSuperseding, Ledger!Recorded, KeyOf, TargetOf, Supersede, ClosedAt
    <3> QED BY <3>1
  <2> QED BY <1>0, <2>1, <2>2
<1> HIDE DEF l1
<1>5. CASE ledger' = l1
  <2>1. IsFiniteSet(Rows(ledger) \cup {a})
    BY <1>2, FS_AddElement
  <2>2. IsFiniteSet(Rows(l1))
    BY <1>3, <2>1, FS_Subset
  <2>3. Grows(ledger, l1)
    BY <1>2, <1>3 DEF Grows
  <2> QED BY <1>3, <1>5, <2>2, <2>3
<1>6. ASSUME NEW b \in AssertionKey, l1[b] # None,
             ledger' = [l1 EXCEPT ![b] = Supersede(l1[b], a)]
      PROVE  /\ Grows(ledger, ledger')
             /\ ledger' \in [AssertionKey -> AssertionRecord \cup {None}]
             /\ \A k \in AssertionKey : ledger'[k] # None => KeyOf(ledger'[k]) = k
             /\ IsFiniteSet(Rows(ledger'))
  <2> DEFINE r == Supersede(l1[b], a)
  <2>1. l1[b] \in AssertionRecord
    BY <1>3, <1>6
  <2>2. r \in AssertionRecord /\ KeyOf(r) = b
    BY <1>1, <1>3, <1>6, <2>1, SupersedeKeeps
  <2>3. ledger' = [l1 EXCEPT ![b] = r]
    BY <1>6
  <2>4. \A k \in AssertionKey : ledger'[k] = IF k = b THEN r ELSE l1[k]
    BY <1>3, <2>3
  <2>5. Grows(ledger, ledger')
    BY <1>1, <1>2, <1>3, <2>4 DEF Grows
  <2> HIDE DEF r
  <2>6. Rows(ledger') \subseteq (Rows(ledger) \cup {a}) \cup {r}
    BY <1>3, <2>4 DEF Rows
  <2>7. IsFiniteSet((Rows(ledger) \cup {a}) \cup {r})
    BY <1>2, FS_AddElement
  <2>8. IsFiniteSet(Rows(ledger'))
    BY <2>6, <2>7, FS_Subset
  <2>9. ledger' \in [AssertionKey -> AssertionRecord \cup {None}]
    BY <1>3, <2>2, <2>3
  <2> QED BY <1>3, <2>2, <2>4, <2>5, <2>8, <2>9
<1> QED BY <1>4, <1>5, <1>6

\* The tables of the evidence only grow, and keep their constraints.
LEMMA EvidenceStep ==
    ASSUME TablesInv, EvidenceNext
    PROVE  /\ sources' = Envelopes
           /\ spans \subseteq spans' /\ embeddings \subseteq embeddings'
           /\ spans' \subseteq Spans \cup Earlier.spans /\ spans' \subseteq SpanRecord
           /\ IsFiniteSet(spans') /\ IsFiniteSet(embeddings')
           /\ \A s, t \in spans' : SpanKey(s) = SpanKey(t) => s = t
           /\ embeddings' \subseteq Embeddings \cup Earlier.embeddings
           /\ \A e \in embeddings' : \E s \in spans' : SpanKey(s) = SpanKey(e)
<1> USE DEF TablesInv, SpanStored
<1>1. ASSUME NEW e \in Envelopes, PutEnvelope(e)
      PROVE  UNCHANGED evidence
  BY <1>1 DEF PutEnvelope, EnvelopeOutcome, SourceStored, evidence
<1>2. ASSUME NEW s \in Spans, PutSpan(s)
      PROVE  \/ UNCHANGED evidence
             \/ /\ ~SpanStored(SpanKey(s)) /\ spans' = spans \cup {s}
                /\ UNCHANGED <<sources, embeddings>>
  BY <1>2 DEF PutSpan, SpanOutcome, evidence
<1>3. ASSUME NEW e \in Embeddings, PutEmbedding(e)
      PROVE  \/ UNCHANGED evidence
             \/ /\ SpanStored(SpanKey(e)) /\ embeddings' = embeddings \cup {e}
                /\ UNCHANGED <<sources, spans>>
  BY <1>3 DEF PutEmbedding, EmbeddingOutcome, evidence
<1>4. CASE UNCHANGED evidence
  BY <1>4 DEF evidence
<1>5. ASSUME NEW s \in Spans, ~SpanStored(SpanKey(s)), spans' = spans \cup {s},
             UNCHANGED <<sources, embeddings>>
      PROVE  /\ IsFiniteSet(spans') /\ s \in SpanRecord
             /\ \A x, y \in spans' : SpanKey(x) = SpanKey(y) => x = y
  BY <1>5, SpansAssumption, FS_AddElement
<1>6. ASSUME NEW e \in Embeddings, embeddings' = embeddings \cup {e}
      PROVE  IsFiniteSet(embeddings')
  BY <1>6, FS_AddElement
<1>7. CASE \E s \in Spans : PutSpan(s)
  BY <1>2, <1>4, <1>5, <1>7
<1>8. CASE \E e \in Embeddings : PutEmbedding(e)
  BY <1>3, <1>4, <1>6, <1>8
<1> QED BY <1>1, <1>4, <1>7, <1>8 DEF EvidenceNext

-----------------------------------------------------------------------------
\* What is recorded during a build takes nothing from it.

\* When the tables grow and nothing else changes, the invariant is kept.
LEMMA TablesGrow ==
    ASSUME AssemblyInv, TablesInv', Grows(ledger, ledger'),
           spans \subseteq spans', embeddings \subseteq embeddings',
           UNCHANGED <<stage, request, began, reads, bundle, raised>>
    PROVE  AssemblyInv'
<1> USE DEF AssemblyInv
<1>0. /\ stage' = stage /\ request' = request /\ began' = began
      /\ assertions' = assertions /\ source' = source /\ lexical' = lexical
      /\ retrieved' = retrieved /\ bundle' = bundle /\ raised' = raised
  BY DEF reads
<1>1. ASSUME NEW k \in AssertionKey, ledger[k] # None
      PROVE  /\ ledger'[k] # None /\ KeyOf(ledger'[k]) = k
             /\ ledger'[k].tenant_id = ledger[k].tenant_id
             /\ ledger'[k].content = ledger[k].content
             /\ \A t \in Instants : ValidAt(ledger'[k], t) => ValidAt(ledger[k], t)
             /\ ~IntervalIsValid(ledger[k]) => ~IntervalIsValid(ledger'[k])
  <2>1. ledger[k] \in AssertionRecord /\ KeyOf(ledger[k]) = k
    BY <1>1 DEF TablesInv
  <2>2. CASE ledger'[k] = ledger[k]
    BY <1>1, <2>1, <2>2
  <2>3. ASSUME NEW a \in AssertionRecord, ledger'[k] = Supersede(ledger[k], a)
        PROVE  /\ ledger'[k] # None /\ KeyOf(ledger'[k]) = k
               /\ ledger'[k].tenant_id = ledger[k].tenant_id
               /\ ledger'[k].content = ledger[k].content
               /\ \A t \in Instants : ValidAt(ledger'[k], t) => ValidAt(ledger[k], t)
               /\ ~IntervalIsValid(ledger[k]) => ~IntervalIsValid(ledger'[k])
    BY <2>1, <2>3, SupersedeKeeps, NoneAssumption
  <2> QED BY <1>1, <2>2, <2>3 DEF Grows
<1>2. RequestInv'
  <2>1. ASSUME stage # "idle"
        PROVE  \A k \in began.keys : k \in AssertionKey /\ ledger'[k] # None
    BY <1>1, <2>1 DEF RequestInv
  <2> QED BY <1>0, <2>1 DEF RequestInv
<1>3. ASSUME stage # "idle", NEW k \in began.keys, AskedFor(ledger[k])'
      PROVE  AskedFor(ledger[k])
  <2>1. k \in AssertionKey /\ ledger[k] # None /\ request \in Builds
    BY <1>3 DEF RequestInv
  <2>2. request.at_time # None => request.at_time \in Instants
    BY <2>1, BuildsAssumption DEF ContextRequest
  <2> QED BY <1>0, <1>1, <1>3, <2>1, <2>2 DEF AskedFor
<1>4. ASSUME stage # "idle", NEW s, AssertionsRead(s)
      PROVE  AssertionsRead(s)'
  <2>1. \A k \in began.keys : AskedFor(ledger[k])' => AskedFor(ledger[k])
    BY <1>3, <1>4
  <2> QED BY <1>0, <1>4, <2>1 DEF AssertionsRead, OwnAssertions
<1>5. ReadsInv'
  <2>1. AssertionsRead(assertions) /\ stage # "idle" => AssertionsRead(assertions)'
    <3>1. PICK s : s = assertions
      OBVIOUS
    <3> QED BY <1>0, <1>4, <3>1 DEF AssertionsRead
  <2>2. SourceRead(source) => SourceRead(source)'
    BY <1>0 DEF SourceRead, SpansRead, CoversSources, OwnSpans, SourcesOf
  <2>3. RetrievedRead(retrieved) => RetrievedRead(retrieved)'
    BY <1>0 DEF RetrievedRead, SpansRead, CoversEmbedded, OwnSpans
  <2>4. lexical \in Seq(OwnIds) => lexical' \in Seq(OwnIds')
    <3>1. OwnIds \subseteq OwnIds'
      BY <1>0 DEF OwnIds
    <3> QED BY <1>0, <3>1, SeqMonotonic
  <2> QED BY <1>0, <2>1, <2>2, <2>3, <2>4 DEF ReadsInv, Distinct
<1>6. BundleInv'
  <2> SUFFICES ASSUME bundle # None PROVE BundleInv'
    BY <1>0 DEF BundleInv
  <2>1. stage # "idle"
    BY DEF RequestInv
  <2>2. AssertionsRead(bundle.assertions)'
    <3>1. PICK s : s = bundle.assertions
      OBVIOUS
    <3> QED BY <1>0, <1>4, <2>1, <3>1 DEF AssertionsRead, BundleInv
  <2> QED BY <1>0, <2>2 DEF BundleInv, SpansRead, CoversSources, CoversEmbedded, OwnSpans, SourcesOf
<1>7. RaisedOnOwnData'
  <2> SUFFICES ASSUME raised PROVE RaisedOnOwnData'
    BY <1>0 DEF RaisedOnOwnData
  <2>1. CASE \E r \in Rows(ledger) : r.tenant_id = request.tenant_id /\ ~IntervalIsValid(r)
    <3>1. PICK k \in AssertionKey : /\ ledger[k] # None
                                   /\ ledger[k].tenant_id = request.tenant_id
                                   /\ ~IntervalIsValid(ledger[k])
      BY <2>1 DEF Rows
    <3>2. /\ ledger'[k] \in Rows(ledger') /\ ledger'[k].tenant_id = request'.tenant_id
          /\ ~IntervalIsValid(ledger'[k])
      BY <1>0, <1>1, <3>1 DEF Rows
    <3> QED BY <3>2 DEF RaisedOnOwnData
  <2>2. CASE ~\E r \in Rows(ledger) : r.tenant_id = request.tenant_id /\ ~IntervalIsValid(r)
    BY <1>0, <2>2 DEF RaisedOnOwnData
  <2> QED BY <2>1, <2>2
<1> QED BY <1>2, <1>5, <1>6, <1>7

-----------------------------------------------------------------------------
\* What each read returns.

\* The limits are numbers, of either sign, and there are never fewer candidates than places.
LEMMA LimitFacts ==
    ASSUME NEW r \in Builds
    PROVE  /\ r \in ContextRequest
           /\ AssertionLimit(r) \in Int /\ EvidenceLimit(r) \in Int
           /\ CandidateLimit(EvidenceLimit(r)) \in Nat
           /\ EvidenceLimit(r) <= CandidateLimit(EvidenceLimit(r))
<1>1. /\ r \in ContextRequest /\ r.max_assertions \in Int /\ r.max_evidence_items \in Int
      /\ r.settings.max_context_assertions \in Int /\ r.settings.max_context_evidence \in Int
  BY BuildsAssumption DEF ContextRequest, Settings
<1>2. AssertionLimit(r) \in Int
  BY <1>1, MinMax DEF AssertionLimit
<1> DEFINE n == EvidenceLimit(r)
<1>3. n \in Int
  BY <1>1, MinMax DEF EvidenceLimit
<1> HIDE DEF n
<1>4. n * 3 \in Int /\ (n >= 0 => n <= n * 3) /\ 10 \in Int
  BY <1>3
<1>5. Max({n * 3, 10}) = IF n * 3 <= 10 THEN 10 ELSE n * 3
  BY <1>4, MinMax
<1>6. CandidateLimit(n) \in Nat /\ n <= CandidateLimit(n)
  BY <1>3, <1>4, <1>5 DEF CandidateLimit
<1> QED BY <1>1, <1>2, <1>3, <1>6 DEF n

\* The assertions kept are those found: the query has already left out all that
\* does not hold at the time asked for.
LEMMA FoundRead ==
    ASSUME TablesInv, RequestInv, stage # "idle", ~FindRefused(request),
           NEW found \in IF request.entity_id = None THEN {<<>>}
                         ELSE FindResults(Rows(ledger), request),
           \A a \in ToSet(found) : IntervalIsValid(a)
    PROVE  AssertionsRead(Relevant(found, request.at_time))
<1> DEFINE r == Relevant(found, request.at_time)
           limit == AssertionLimit(request)
           wanted == Selected(Rows(ledger), request)
<1>1. /\ request \in Builds /\ limit \in Int
      /\ request.entity_id # None => limit \in Nat
      /\ \A k \in began.keys : k \in AssertionKey /\ ledger[k] # None
  <2>1. request \in Builds /\ limit \in Int
    BY LimitFacts DEF RequestInv
  <2> QED BY <2>1 DEF RequestInv, FindRefused
<1>2. \A x \in Rows(ledger) : /\ x \in AssertionRecord /\ KeyOf(x) \in AssertionKey
                              /\ x = ledger[KeyOf(x)]
  BY DEF TablesInv, Rows
<1>3. \A x \in wanted : x \in Rows(ledger) /\ AskedFor(x) /\ RelevantToContext(x, request.at_time)
  BY DEF Selected, AskedFor, RelevantToContext
<1>4. \A x \in Rows(ledger) : AskedFor(x) => x \in wanted
  BY DEF Selected, AskedFor
<1>5. /\ found \in Seq(wanted) /\ Fits(found, limit) /\ Distinct(found)
      /\ Len(found) < limit => ToSet(found) = wanted
  <2>1. CASE request.entity_id = None
    <3>1. found = <<>> /\ found \in Seq(wanted) /\ Len(found) = 0 /\ DOMAIN found = {}
      BY <2>1, EmptySeq
    <3>2. ToSet(found) = {} /\ Distinct(found)
      BY <3>1 DEF ToSet, Distinct
    <3>3. wanted = {}
      <4> SUFFICES ASSUME NEW x \in wanted PROVE FALSE
        OBVIOUS
      <4>1. x \in AssertionRecord /\ x.content.entity_id = None
        BY <1>2, <1>3, <2>1 DEF AskedFor
      <4> QED BY <4>1, ContentsAssumption DEF AssertionRecord
    <3> HIDE DEF limit
    <3>4. Fits(found, limit)
      BY <1>1, <3>1 DEF Fits
    <3> QED BY <3>1, <3>2, <3>3, <3>4
  <2>2. CASE request.entity_id # None
    <3>1. found \in FindResults(Rows(ledger), request) /\ IsFiniteSet(Rows(ledger))
      BY <2>2 DEF TablesInv
    <3>2. /\ found \in Seq(wanted) /\ Len(found) <= limit /\ Distinct(found)
          /\ Len(found) < limit => ToSet(found) = wanted
      BY <1>1, <2>2, <3>1, FindFacts
    <3> HIDE DEF limit, wanted
    <3>3. Fits(found, limit)
      BY <1>1, <2>2, <3>2 DEF Fits
    <3> QED BY <3>2, <3>3
  <2> QED BY <2>1, <2>2
<1> HIDE DEF wanted
<1>6. /\ r \in Seq(wanted) /\ Distinct(r)
      /\ ToSet(r) = {x \in ToSet(found) : RelevantToContext(x, request.at_time)}
  BY <1>5, RelevantFacts
<1> HIDE DEF r
<1>7. ToSet(found) \subseteq wanted /\ ToSet(r) \subseteq wanted
  BY <1>5, <1>6, SequenceFacts
<1>8. ToSet(r) = ToSet(found)
  BY <1>3, <1>6, <1>7
<1>9. Len(r) = Len(found)
  BY <1>5, <1>6, <1>8, DistinctCounts
<1>10. r \in Seq(OwnAssertions)
  <2>1. \A x \in ToSet(r) : x \in OwnAssertions
    BY <1>2, <1>3, <1>7, <1>8 DEF OwnAssertions, CommercialAssertion, AskedFor
  <2>2. r \in Seq(ToSet(r))
    BY <1>6, SequenceFacts
  <2> QED BY <2>1, <2>2, SeqMonotonic
<1>11. ASSUME NEW i \in DOMAIN r, NEW j \in DOMAIN r, KeyOf(r[i]) = KeyOf(r[j])
       PROVE  i = j
  <2>1. r[i] \in ToSet(r) /\ r[j] \in ToSet(r)
    BY DEF ToSet
  <2>2. r[i] = r[j]
    BY <1>2, <1>3, <1>7, <1>11, <2>1
  <2> QED BY <1>6, <2>2 DEF Distinct
<1>12. ASSUME Len(r) < limit, NEW k \in began.keys, AskedFor(ledger[k])
       PROVE  \E a \in ToSet(r) : KeyOf(a) = k
  <2>1. ledger[k] \in Rows(ledger) /\ KeyOf(ledger[k]) = k
    BY <1>1 DEF Rows, TablesInv
  <2>2. ledger[k] \in ToSet(r)
    BY <1>4, <1>5, <1>8, <1>9, <1>12, <2>1
  <2> QED BY <2>1, <2>2
<1>13. Fits(r, limit)
  <2>1. limit < 0 => ToSet(r) = {}
    BY <1>5, <1>8 DEF Fits, ToSet
  <2>2. limit < 0 => r = <<>>
    <3>1. DOMAIN r = 1..Len(r) /\ Len(r) \in Nat /\ ToSet(r) = {r[i] : i \in 1..Len(r)}
      BY <1>6, SequenceFacts
    <3>1a. Len(r) # 0 => r[1] \in ToSet(r)
      BY <3>1
    <3>2. limit < 0 => Len(r) = 0
      BY <2>1, <3>1a
    <3> QED BY <1>6, <3>2, EmptySeq
  <2> QED BY <1>5, <1>9, <2>2 DEF Fits
<1> QED BY <1>10, <1>11, <1>12, <1>13 DEF AssertionsRead, r

\* The spans of one tenant are told apart by their ids.
LEMMA IdsTellApart ==
    ASSUME TablesInv, NEW s \in Seq({x \in spans : x.tenant_id = request.tenant_id}),
           Distinct(s)
    PROVE  Distinct(Ids(s)) /\ s \in Seq(OwnSpans) /\ ToSet(s) \subseteq spans
<1> DEFINE own == {x \in spans : x.tenant_id = request.tenant_id}
<1>1. DOMAIN s = 1..Len(s) /\ ToSet(s) \subseteq own /\ \A i \in 1..Len(s) : s[i] \in own
  BY SequenceFacts
<1>2. \A x, y \in own : x.span_id = y.span_id => x = y
  BY DEF TablesInv, SpanKey
<1>3. DOMAIN Ids(s) = 1..Len(s) /\ \A i \in 1..Len(s) : Ids(s)[i] = s[i].span_id
  BY <1>1 DEF Ids
<1>4. Distinct(Ids(s))
  BY <1>1, <1>2, <1>3 DEF Distinct
<1>5. own \subseteq OwnSpans
  BY DEF TablesInv, OwnSpans
<1>6. s \in Seq(OwnSpans)
  BY <1>5, SeqMonotonic
<1> QED BY <1>1, <1>4, <1>6

\* The spans of the sources, as the query returns them.
LEMMA SourceFound ==
    ASSUME TablesInv, RequestInv, stage # "idle",
           ~SourcesRefused(SourcesOf(assertions), request),
           NEW s \in SourceEvidence(spans, request.tenant_id, SourcesOf(assertions),
                                    EvidenceLimit(request))
    PROVE  SourceRead(s)
<1> DEFINE found == OfSources(spans, request.tenant_id, SourcesOf(assertions))
           own == {x \in spans : x.tenant_id = request.tenant_id}
           limit == EvidenceLimit(request)
<1>1. limit \in Int /\ IsFiniteSet(spans) /\ began.spans \subseteq spans
  BY LimitFacts DEF RequestInv, TablesInv
<1>n. limit < 0 => found = {}
  BY DEF SourcesRefused, OfSources
<1> HIDE DEF limit
<1>2. /\ s \in Seq(found) /\ Fits(s, limit) /\ Distinct(s)
      /\ Len(s) < limit => ToSet(s) = found
  <2>1. s \in SourceEvidence(spans, request.tenant_id, SourcesOf(assertions), limit)
    BY DEF limit
  <2>2. CASE limit \in Nat
    <3>1. /\ s \in Seq(found) /\ Len(s) <= limit /\ Distinct(s)
          /\ Len(s) < limit => ToSet(s) = found
      BY <1>1, <2>1, <2>2, SourceEvidenceFacts
    <3> HIDE DEF found
    <3> QED BY <2>2, <3>1 DEF Fits
  <2>3. CASE limit < 0
    <3>1. PICK u \in Orderings(found, EarlierInSource) : s = Take(u, limit)
      BY <2>1 DEF SourceEvidence, OfSources
    <3>2. IsFiniteSet(found)
      BY <1>n, <2>3, FS_EmptySet
    <3> HIDE DEF found
    <3>3. u \in Seq(found)
      BY <3>1, <3>2, SeqsOfSet DEF Orderings
    <3>4. s = <<>>
      BY <1>1, <2>3, <3>1, <3>3, TakeNothing
    <3>5. s \in Seq(found) /\ Len(s) = 0 /\ DOMAIN s = {}
      BY <3>4, EmptySeq
    <3> QED BY <1>1, <2>3, <3>4, <3>5 DEF Fits, Distinct
  <2> QED BY <1>1, <2>2, <2>3
<1>3. s \in Seq(own)
  <2>1. found \subseteq own
    BY DEF OfSources
  <2> HIDE DEF found, own
  <2> QED BY <1>2, <2>1, SeqMonotonic
<1>4. Distinct(Ids(s)) /\ s \in Seq(OwnSpans) /\ ToSet(s) \subseteq spans
  BY <1>2, <1>3, IdsTellApart
<1>5. Len(s) < limit => CoversSources(assertions, s)
  BY <1>1, <1>2 DEF CoversSources, OfSources
<1> QED BY <1>2, <1>4, <1>5 DEF SourceRead, SpansRead, limit

\* The spans made of hits are of the tenant, and have the ids of the hits.
LEMMA SpansOfHitsFacts ==
    ASSUME TablesInv, NEW hits \in Seq(OwnIds)
    PROVE  LET r == SpansOfHits(hits) IN
           r \in Seq(OwnSpans) /\ Len(r) = Len(hits) /\ Ids(r) = hits
<1> DEFINE r == SpansOfHits(hits)
           span(i) == CHOOSE s \in spans : SpanKey(s) = <<request.tenant_id, hits[i]>>
<1>1. Len(hits) \in Nat /\ DOMAIN hits = 1..Len(hits) /\ hits \in [1..Len(hits) -> OwnIds]
  BY SequenceFacts
<1>2. ASSUME NEW i \in 1..Len(hits)
      PROVE  /\ RetrievedSpan(span(i)) \in OwnSpans
             /\ RetrievedSpan(span(i)).span_id = hits[i]
  <2>1. \E s \in spans : SpanKey(s) = <<request.tenant_id, hits[i]>>
    BY <1>1 DEF OwnIds, SpanKey
  <2>2. span(i) \in spans /\ SpanKey(span(i)) = <<request.tenant_id, hits[i]>>
    BY <2>1
  <2> DEFINE x == span(i)
  <2> HIDE DEF x
  <2>3. x \in SpanRecord /\ x.tenant_id = request.tenant_id /\ x.span_id = hits[i]
    BY <2>2 DEF x, TablesInv, SpanKey
  <2>4. RetrievedSpan(x) \in OwnSpans /\ RetrievedSpan(x).span_id = hits[i]
    BY <2>3 DEF RetrievedSpan, OwnSpans, SpanRecord
  <2> QED BY <2>4 DEF x
<1>3. r = [i \in 1..Len(hits) |-> RetrievedSpan(span(i))]
  BY <1>1 DEF SpansOfHits
<1> HIDE DEF r, span
<1>4. r \in [1..Len(hits) -> OwnSpans]
  BY <1>2, <1>3
<1>5. r \in Seq(OwnSpans) /\ Len(r) = Len(hits) /\ DOMAIN r = 1..Len(hits)
  BY <1>1, <1>4, SeqDef, LenProperties
<1>6. Ids(r) = hits
  BY <1>1, <1>2, <1>3, <1>5 DEF Ids
<1> QED BY <1>5, <1>6 DEF r

\* Without an embedding, the hits of the lexical search are what is retrieved.
LEMMA LexicalRead ==
    ASSUME TablesInv, RequestInv, stage # "idle", NEW n \in Int, n >= 0 \/ request.blank,
           NEW hits \in LexicalResults(spans, request, n)
    PROVE  /\ hits \in Seq(OwnIds) /\ Distinct(hits)
           /\ n = EvidenceLimit(request) => SpansRead(SpansOfHits(hits))
<1>1. IsFiniteSet(spans)
  BY DEF TablesInv
<1>2. hits \in Seq(OwnIds) /\ Fits(hits, n) /\ Distinct(hits)
  <2>1. CASE n \in Nat
    BY <1>1, <2>1, LexicalFacts DEF OwnIds, Fits
  <2>2. CASE request.blank
    <3>1. hits = <<>> /\ DOMAIN hits = {}
      BY <2>2 DEF LexicalResults
    <3>2. Fits(hits, n)
      BY <3>1, EmptySeq DEF Fits
    <3> QED BY <3>1, <3>2, EmptySeq DEF Distinct
  <2> QED BY <2>1, <2>2
<1> DEFINE r == SpansOfHits(hits)
<1>3. r \in Seq(OwnSpans) /\ Len(r) = Len(hits) /\ Ids(r) = hits
  BY <1>2, SpansOfHitsFacts
<1> HIDE DEF r
<1>4. Fits(r, n)
  BY <1>2, <1>3, EmptySeq DEF Fits
<1> QED BY <1>2, <1>3, <1>4 DEF SpansRead, r

\* With an embedding, what is retrieved is the head of the fused hits.  When it
\* is shorter than allowed, the semantic search was not cut off either.
LEMMA FusedRead ==
    ASSUME TablesInv, RequestInv, stage = "semantic", NEW l \in Seq(OwnIds),
           NEW hits \in SemanticResults(embeddings, request,
                                        CandidateLimit(EvidenceLimit(request)))
    PROVE  RetrievedRead(SpansOfHits(Take(Fuse(l, hits), EvidenceLimit(request))))
<1> DEFINE n == EvidenceLimit(request)
           m == CandidateLimit(n)
           ids == {e.span_id : e \in Embedded(embeddings, request)}
           found == Found(l, hits)
           f == Fuse(l, hits)
           t == Take(f, n)
           r == SpansOfHits(t)
<1>1. n \in Nat /\ m \in Nat /\ n <= m
  BY LimitFacts DEF RequestInv
<1>2. IsFiniteSet(embeddings) /\ began.embeddings \subseteq embeddings
  BY DEF TablesInv, RequestInv
<1>3. /\ hits \in Seq(ids) /\ Len(hits) <= m /\ Distinct(hits)
      /\ Len(hits) < m => ToSet(hits) = ids
  <2> HIDE DEF m
  <2>1. hits \in SemanticResults(embeddings, request, m)
    BY DEF m
  <2> QED BY <1>1, <1>2, <2>1, SemanticFacts
<1>4. ids \subseteq OwnIds
  BY DEF Embedded, TablesInv, SpanStored, SpanKey, OwnIds
<1>5. OwnIds \subseteq Nat
  BY DEF OwnIds, TablesInv, SpanRecord
<1> HIDE DEF n, m, ids
<1>6. hits \in Seq(OwnIds) /\ hits \in Seq(Nat) /\ l \in Seq(Nat)
  BY <1>3, <1>4, <1>5, SeqMonotonic
<1>7. /\ IsFiniteSet(found) /\ f \in Seq(found) /\ Len(f) = Cardinality(found)
      /\ \A i, j \in 1..Len(f) : f[i] = f[j] => i = j
      /\ \A x \in found : \E i \in 1..Len(f) : f[i] = x
  BY <1>6, FuseOrders
<1>8. found \subseteq OwnIds /\ ToSet(hits) \subseteq found
  BY <1>6, SequenceFacts DEF Found
<1> HIDE DEF found, f
<1>9. /\ f \in Seq(OwnIds) /\ Distinct(f) /\ ToSet(f) = found
      /\ Len(f) \in Nat /\ Len(hits) \in Nat
  <2>1. /\ DOMAIN f = 1..Len(f) /\ ToSet(f) = {f[i] : i \in 1..Len(f)}
        /\ ToSet(f) \subseteq found /\ Len(f) \in Nat /\ Len(hits) \in Nat
    BY <1>6, <1>7, SequenceFacts
  <2> QED BY <1>7, <1>8, <2>1, SeqMonotonic DEF Distinct
<1>10. /\ t \in Seq(OwnIds) /\ Distinct(t) /\ Len(t) <= n
       /\ Len(t) < n => ToSet(t) = found
       /\ Len(t) = IF n <= Len(f) THEN n ELSE Len(f)
  BY <1>1, <1>9, TakeFacts, TakeAll
<1> HIDE DEF t
<1>11. r \in Seq(OwnSpans) /\ Len(r) = Len(t) /\ Ids(r) = t
  BY <1>10, SpansOfHitsFacts
<1> HIDE DEF r
<1>12. ASSUME Len(r) < n
       PROVE  ToSet(hits) = ids /\ \A i \in ids : \E x \in ToSet(r) : x.span_id = i
  <2>1. Len(f) < n
    <3>1. CASE n <= Len(f)
      BY <1>1, <1>9, <1>10, <1>11, <1>12, <3>1
    <3>2. CASE ~(n <= Len(f))
      BY <1>1, <1>9, <3>2
    <3> QED BY <3>1, <3>2
  <2>2. Len(hits) <= Len(f)
    <3>1. Cardinality(ToSet(hits)) = Len(hits)
      BY <1>3, DistinctCounts
    <3> QED BY <1>7, <1>8, <3>1, FS_Subset
  <2>3. ToSet(hits) = ids
    BY <1>1, <1>3, <1>9, <2>1, <2>2
  <2>4. ToSet(t) = {x.span_id : x \in ToSet(r)}
    BY <1>11, IdsFacts
  <2>5. ids \subseteq ToSet(t)
    BY <1>8, <1>10, <1>11, <1>12, <2>3
  <2> QED BY <2>3, <2>4, <2>5
<1>13. ASSUME Len(r) < n
       PROVE  CoversEmbedded(r)
  <2>1. \A e \in Embedded(began.embeddings, request) : e.span_id \in ids
    BY <1>2 DEF Embedded, ids
  <2> QED BY <1>12, <1>13, <2>1 DEF CoversEmbedded
<1>14. SpansRead(r)
  BY <1>1, <1>10, <1>11 DEF SpansRead, Fits, n
<1> QED BY <1>13, <1>14 DEF RetrievedRead, r, t, f, n

\* The nodes of the tenant next to those of T, and T.
Reached(graph, tenant, T) ==
    T \cup {n \in {x \in graph.nodes : x.tenant_id = tenant} :
                \E m \in T, r \in graph.relationships : r.ends = {m, n}}

\* Within, level by level.
LEMMA WithinUnrolled ==
    ASSUME NEW graph, NEW tenant, NEW from
    PROVE  LET one == Reached(graph, tenant, from)  two == Reached(graph, tenant, one) IN
           /\ Within(graph, tenant, from, 0) = from
           /\ Within(graph, tenant, from, 1) = one
           /\ Within(graph, tenant, from, 2) = two
           /\ Within(graph, tenant, from, 3) = Reached(graph, tenant, two)
<1> DEFINE next(T) == Reached(graph, tenant, T)
           one == next(from)  two == next(one)
<1>1. ASSUME NEW k \in 0..3
      PROVE  Within(graph, tenant, from, k) =
                IF k = 0 THEN from ELSE IF k = 1 THEN one ELSE IF k = 2 THEN two ELSE next(two)
  <2> DEFINE reach[i \in 0..k] == IF i = 0 THEN from ELSE next(reach[i-1])
  <2>1. Within(graph, tenant, from, k) = reach[k]
    BY DEF Within, Reached
  <2> HIDE DEF next
  <2>2. reach = [i \in 0..k |-> IF i = 0 THEN from ELSE next(reach[i-1])]
    <3> DEFINE g == [i \in 0..k |-> IF i = 0 THEN from ELSE IF i = 1 THEN one
                                    ELSE IF i = 2 THEN two ELSE next(two)]
    <3>1. ASSUME NEW i \in 0..k
          PROVE  g[i] = IF i = 0 THEN from ELSE next(g[i-1])
      <4>1. i \in 0..3 /\ (i # 0 => i - 1 \in 0..k) /\ (i = 0 \/ i = 1 \/ i = 2 \/ i = 3)
        BY <1>1
      <4>2. \A x \in 0..k : g[x] = IF x = 0 THEN from ELSE IF x = 1 THEN one
                                    ELSE IF x = 2 THEN two ELSE next(two)
        OBVIOUS
      <4> HIDE DEF g
      <4>3. CASE i = 0
        BY <4>2, <4>3
      <4>4. CASE i = 1
        BY <4>1, <4>2, <4>4
      <4>5. CASE i = 2
        BY <4>1, <4>2, <4>5
      <4>6. CASE i = 3
        BY <4>1, <4>2, <4>6
      <4> QED BY <4>1, <4>3, <4>4, <4>5, <4>6
    <3>2. g = [i \in 0..k |-> IF i = 0 THEN from ELSE next(g[i-1])]
      BY <3>1
    <3>3. \E f : f = [i \in 0..k |-> IF i = 0 THEN from ELSE next(f[i-1])]
      BY <3>2
    <3> QED BY <3>3
  <2> HIDE DEF reach
  <2>3. \A i \in 0..k : i <= k /\ reach[i] = IF i = 0 THEN from ELSE next(reach[i-1])
    BY <2>2
  <2>4. reach[0] = from
    BY <1>1, <2>3
  <2>5. k >= 1 => reach[1] = one
    BY <1>1, <2>3, <2>4
  <2>6. k >= 2 => reach[2] = two
    BY <1>1, <2>3, <2>5
  <2>7. k >= 3 => reach[3] = next(two)
    BY <1>1, <2>3, <2>6
  <2>8. k = 0 \/ k = 1 \/ k = 2 \/ k = 3
    BY <1>1
  <2> QED BY <2>1, <2>4, <2>5, <2>6, <2>7, <2>8
<1> HIDE DEF next
<1>2. 0 \in 0..3 /\ 1 \in 0..3 /\ 2 \in 0..3 /\ 3 \in 0..3
  OBVIOUS
<1> QED BY <1>1, <1>2 DEF next

OwnNodes(graph, tenant) == {x \in graph.nodes : x.tenant_id = tenant}

\* Trail t leads through k nodes of own to n, by relationships inside W.
Leads(t, own, k, n, W) ==
    /\ t.nodes \in Seq(own) /\ Len(t.nodes) = k /\ t.nodes[k] = n
    /\ \A r \in t.used : r.ends \subseteq W

\* Each node that is new at a level is at the end of a trail of that level:
\* the last relationship of it cannot have been used before.
LEMMA LevelStep ==
    ASSUME NEW graph, NEW tenant, NEW T, NEW k \in Nat \ {0}, NEW U, NEW W,
           Reached(graph, tenant, U) \subseteq W,
           NEW own, own = {x \in graph.nodes : x.tenant_id = tenant},
           \A n \in W \ U : \E t \in T : Leads(t, own, k, n, W),
           NEW V, V = Reached(graph, tenant, W),
           NEW n \in V \ W
    PROVE  \E t \in Longer(graph, T) : Leads(t, own, k + 1, n, V)
<1>1. PICK m \in W, r \in graph.relationships : n \in own /\ r.ends = {m, n}
  BY DEF Reached
<1>2. m \notin U
  BY <1>1 DEF Reached
<1>3. PICK t \in T : Leads(t, own, k, m, W)
  BY <1>2
<1>4. /\ t.nodes \in Seq(own) /\ Len(t.nodes) = k /\ t.nodes[k] = m
      /\ \A x \in t.used : x.ends \subseteq W
  BY <1>3 DEF Leads
<1> DEFINE p == <<r, n>>
           u == Extended(t, p)
<1>5. p \in Steps(graph, t)
  <2>1. r \notin t.used /\ n \in graph.nodes
    BY <1>1, <1>4
  <2>2. Last(t.nodes) = m
    BY <1>4 DEF Last
  <2> QED BY <1>1, <2>1, <2>2 DEF Steps
<1>6. u \in Longer(graph, T)
  BY <1>5 DEF Longer
<1>7. u.nodes = Append(t.nodes, n) /\ u.used = t.used \cup {r}
  BY DEF Extended
<1> HIDE DEF u
<1>8. /\ u.nodes \in Seq(own) /\ Len(u.nodes) = k + 1 /\ u.nodes[k + 1] = n
  BY <1>1, <1>4, <1>7, AppendProperties
<1>9. W \subseteq V /\ n \in V /\ m \in V
  BY DEF Reached
<1>10. \A x \in u.used : x.ends \subseteq V
  BY <1>1, <1>4, <1>7, <1>9
<1>11. Leads(u, own, k + 1, n, V)
  BY <1>8, <1>10 DEF Leads
<1> QED BY <1>6, <1>11

\* A trail through k nodes of own that ends at n.
EndsAt(t, own, k, n) == t.nodes \in Seq(own) /\ Len(t.nodes) = k /\ Last(t.nodes) = n

\* Every node at a distance of one to three relationships has a shortest trail,
\* through nodes of the tenant.
LEMMA ShortestTrails ==
    ASSUME NEW graph, NEW tenant, NEW from, from \subseteq OwnNodes(graph, tenant),
           NEW k \in 1..3, NEW n, n \in Within(graph, tenant, from, k),
           n \notin Within(graph, tenant, from, k - 1)
    PROVE  \E t \in Trails(graph, from) : EndsAt(t, OwnNodes(graph, tenant), k + 1, n)
<1> DEFINE own == OwnNodes(graph, tenant)
           W1 == Reached(graph, tenant, from)
           W2 == Reached(graph, tenant, W1)
           W3 == Reached(graph, tenant, W2)
           T0 == Single(from)
           T1 == Longer(graph, T0)
           T2 == Longer(graph, T1)
           T3 == Longer(graph, T2)
<1>0. \A x \in from \ {} : \E t \in T0 : Leads(t, own, 1, x, from)
  <2> TAKE x \in from \ {}
  <2> DEFINE t == [nodes |-> <<x>>, used |-> {}]
  <2>1. t \in T0
    BY DEF Single
  <2>2. t.nodes = <<x>> /\ t.used = {} /\ <<x>> \in Seq(own) /\ Len(<<x>>) = 1 /\ <<x>>[1] = x
    OBVIOUS
  <2> HIDE DEF t
  <2>3. Leads(t, own, 1, x, from)
    BY <2>2 DEF Leads
  <2> QED BY <2>1, <2>3
<1>o. own = {x \in graph.nodes : x.tenant_id = tenant}
  BY DEF OwnNodes
<1>a. Reached(graph, tenant, {}) \subseteq from
  BY DEF Reached
<1>b. /\ Reached(graph, tenant, from) \subseteq W1 /\ Reached(graph, tenant, W1) \subseteq W2
      /\ from \subseteq W1 /\ W1 \subseteq W2
  BY DEF Reached
<1> HIDE DEF T0, own
<1>1. \A x \in W1 \ from : \E t \in T1 : Leads(t, own, 2, x, W1)
  <2> TAKE x \in W1 \ from
  <2>1. 1 \in Nat \ {0} /\ 1 + 1 = 2
    OBVIOUS
  <2>2. \E t \in Longer(graph, T0) : Leads(t, own, 1 + 1, x, W1)
    BY <1>0, <1>a, <2>1, <1>o, LevelStep
  <2> QED BY <2>1, <2>2
<1>2. \A x \in W2 \ W1 : \E t \in T2 : Leads(t, own, 3, x, W2)
  <2> HIDE DEF W1, T1
  <2> TAKE x \in W2 \ W1
  <2>1. 2 \in Nat \ {0} /\ 2 + 1 = 3
    OBVIOUS
  <2>2. \E t \in Longer(graph, T1) : Leads(t, own, 2 + 1, x, W2)
    BY <1>1, <1>b, <2>1, <1>o, LevelStep
  <2> QED BY <2>1, <2>2
<1>3. \A x \in W3 \ W2 : \E t \in T3 : Leads(t, own, 4, x, W3)
  <2> HIDE DEF W2, T2
  <2> TAKE x \in W3 \ W2
  <2>1. 3 \in Nat \ {0} /\ 3 + 1 = 4
    OBVIOUS
  <2>2. \E t \in Longer(graph, T2) : Leads(t, own, 3 + 1, x, W3)
    BY <1>2, <1>b, <2>1, <1>o, LevelStep
  <2> QED BY <2>1, <2>2
<1>4. T1 \cup T2 \cup T3 \subseteq Trails(graph, from)
  BY TrailsUnrolled DEF T0
<1>5. /\ Within(graph, tenant, from, 0) = from /\ Within(graph, tenant, from, 1) = W1
      /\ Within(graph, tenant, from, 2) = W2 /\ Within(graph, tenant, from, 3) = W3
  BY WithinUnrolled
<1> HIDE DEF W1, W2, W3, T1, T2, T3
<1>6. \/ k = 1 /\ k - 1 = 0 /\ k + 1 = 2
      \/ k = 2 /\ k - 1 = 1 /\ k + 1 = 3
      \/ k = 3 /\ k - 1 = 2 /\ k + 1 = 4
  OBVIOUS
<1>7. \E t \in Trails(graph, from) : \E W : Leads(t, own, k + 1, n, W)
  <2>1. CASE k = 1
    BY <1>1, <1>4, <1>5, <1>6, <2>1
  <2>2. CASE k = 2
    BY <1>2, <1>4, <1>5, <1>6, <2>2
  <2>3. CASE k = 3
    BY <1>3, <1>4, <1>5, <1>6, <2>3
  <2> QED BY <1>6, <2>1, <2>2, <2>3
<1> QED BY <1>7 DEF Leads, EndsAt, Last, own

\* The nodes of a trail are a sequence.
LEMMA TrailNodes ==
    ASSUME NEW graph, NEW from \in SUBSET graph.nodes, NEW t \in Trails(graph, from)
    PROVE  t.nodes \in Seq(graph.nodes)
<1> DEFINE ok(T) == \A x \in T : x.nodes \in Seq(graph.nodes)
<1>1. ok(Single(from))
  <2>1. \A n \in from : <<n>> \in Seq(graph.nodes)
    <3> TAKE n \in from
    <3>1. n \in graph.nodes
      OBVIOUS
    <3> DEFINE S == graph.nodes
    <3> HIDE DEF S
    <3>2. n \in S
      BY <3>1 DEF S
    <3>3. <<n>> \in Seq(S)
      BY <3>2
    <3> QED BY <3>3 DEF S
  <2> QED BY <2>1 DEF Single
<1>2. ASSUME NEW T, ok(T) PROVE ok(Longer(graph, T))
  <2> SUFFICES ASSUME NEW x \in T, NEW p \in Steps(graph, x)
               PROVE  Extended(x, p).nodes \in Seq(graph.nodes)
    BY DEF Longer
  <2>1. p[2] \in graph.nodes /\ x.nodes \in Seq(graph.nodes)
    BY <1>2 DEF Steps
  <2>2. Append(x.nodes, p[2]) \in Seq(graph.nodes)
    BY <2>1, AppendProperties
  <2> QED BY <2>2 DEF Extended
<1> HIDE DEF ok
<1> DEFINE one == Longer(graph, Single(from))  two == Longer(graph, one)
<1>3. ok(one)
  BY <1>1, <1>2
<1>4. ok(two)
  BY <1>2, <1>3
<1>5. ok(Longer(graph, two))
  BY <1>2, <1>4
<1>6. t \in one \/ t \in two \/ t \in Longer(graph, two)
  BY TrailsUnrolled
<1> HIDE DEF one, two
<1> QED BY <1>3, <1>4, <1>5, <1>6 DEF ok

\* The paths that are left when the query is cut off are the shortest: each node
\* at distance k has one of k relationships, or they are as many as asked for
\* and none is longer.
LEMMA NearestKept ==
    ASSUME NEW graph \in Graphs, NEW tenant, NEW ids, NEW limit \in Nat,
           NEW paths \in Related(graph, tenant, ids, limit),
           NEW from, from = Starts(graph, tenant, ids), NEW k \in 1..3,
           NEW n \in Within(graph, tenant, from, k) \ Within(graph, tenant, from, k - 1)
    PROVE  \/ \E p \in paths : Last(p) = n /\ Len(p) = k + 1
           \/ Cardinality(paths) = limit /\ \A p \in paths : Len(p) <= k + 1
<1> DEFINE own == OwnNodes(graph, tenant)
           all == {p \in {t.nodes : t \in Trails(graph, from)} : WithinTenant(p, tenant)}
<1>1. from \in SUBSET own /\ from \in SUBSET graph.nodes
  BY DEF Starts, OwnNodes
<1>2. PICK t \in Trails(graph, from) :
            t.nodes \in Seq(own) /\ Len(t.nodes) = k + 1 /\ Last(t.nodes) = n
  <2>1. \E t \in Trails(graph, from) : EndsAt(t, own, k + 1, n)
    BY <1>1, ShortestTrails
  <2> QED BY <2>1 DEF EndsAt
<1> DEFINE q == t.nodes
<1>3. q \in all
  <2>1. ToSet(q) \subseteq own
    BY <1>2, SequenceFacts
  <2> QED BY <2>1 DEF WithinTenant, OwnNodes
<1>4. \A p \in all : p \in Seq(graph.nodes) /\ Len(p) \in Nat
  BY <1>1, TrailNodes, LenProperties
<1>5. IsFiniteSet(all)
  <2>1. IsFiniteSet(graph.nodes) /\ IsFiniteSet(graph.relationships)
    BY GraphsAssumption
  <2>2. IsFiniteSet(from)
    BY <1>1, <2>1, FS_Subset
  <2>3. IsFiniteSet(Trails(graph, from))
    BY <2>1, <2>2, TrailsFinite
  <2> DEFINE trails == Trails(graph, from)
             U == {x.nodes : x \in trails}  f == [x \in trails |-> x.nodes]
  <2>4. f \in Surjection(trails, U)
    BY DEF Surjection
  <2>5. all \subseteq U
    OBVIOUS
  <2> HIDE DEF f, U, all
  <2>6. IsFiniteSet(U)
    BY <2>3, <2>4, FS_Surjection
  <2> QED BY <2>5, <2>6, FS_Subset
<1>6. paths \in Cutoff(all, limit)
  BY DEF Related
<1> HIDE DEF all
<1> DEFINE c == Cardinality(all)
<1>7. c \in Nat
  BY <1>5, FS_CardinalityType
<1>8. /\ paths \in SUBSET all /\ Cardinality(paths) = Min({limit, c})
      /\ \A p \in paths, x \in all \ paths : ~Nearer(x, p)
  BY <1>6 DEF Cutoff, kSubset
<1>9. ASSUME q \notin paths
      PROVE  Cardinality(paths) = limit /\ \A p \in paths : Len(p) <= k + 1
  <2>1. Cardinality(paths) # c
    BY <1>3, <1>5, <1>8, <1>9, FS_Subset
  <2> HIDE DEF c
  <2>2. Min({limit, c}) = IF limit <= c THEN limit ELSE c
    BY <1>7, MinMax
  <2>3. Cardinality(paths) = limit
    BY <1>8, <2>1, <2>2
  <2>4. \A p \in paths : Len(p) <= k + 1
    <3> TAKE p \in paths
    <3>1. ~Nearer(q, p) /\ Len(p) \in Nat /\ Len(q) = k + 1
      BY <1>2, <1>3, <1>4, <1>8, <1>9
    <3> QED BY <3>1 DEF Nearer
  <2> QED BY <2>3, <2>4
<1> QED BY <1>2, <1>9

\* The evidence of the bundle, from what was retrieved and the spans of the sources.
LEMMA EvidenceMade ==
    ASSUME RequestInv, stage # "idle", SourceRead(source), RetrievedRead(retrieved)
    PROVE  LET e == MergeEvidence(retrieved, source, EvidenceLimit(request)) IN
           /\ SpansRead(e)
           /\ Len(e) < EvidenceLimit(request) =>
                 CoversSources(assertions, e) /\ CoversEmbedded(e)
<1> DEFINE n == EvidenceLimit(request)
           e == MergeEvidence(retrieved, source, n)
<1>1. /\ n \in Int /\ Fits(source, n) /\ Fits(retrieved, n)
      /\ source \in Seq(OwnSpans) /\ Distinct(Ids(source))
      /\ retrieved \in Seq(OwnSpans) /\ Distinct(Ids(retrieved))
      /\ Len(source) < n => CoversSources(assertions, source)
      /\ Len(retrieved) < n => CoversEmbedded(retrieved)
  BY LimitFacts DEF RequestInv, SourceRead, RetrievedRead, SpansRead
<1>2. /\ e \in Seq(OwnSpans) /\ Fits(e, n) /\ Distinct(Ids(e))
      /\ Len(e) < n =>
            /\ \A x \in ToSet(retrieved) : \E y \in ToSet(e) : y.span_id = x.span_id
            /\ \A x \in ToSet(source) :
                  (\A y \in ToSet(source) : y.span_id = x.span_id => y = x) => x \in ToSet(e)
            /\ Len(retrieved) < n /\ Len(source) < n
  <2>1. CASE n \in Nat
    <3>1. /\ e \in Seq(OwnSpans) /\ Len(e) <= n /\ Distinct(Ids(e))
          /\ Len(e) < n =>
                /\ \A x \in ToSet(retrieved) : \E y \in ToSet(e) : y.span_id = x.span_id
                /\ \A x \in ToSet(source) :
                      (\A y \in ToSet(source) : y.span_id = x.span_id => y = x) => x \in ToSet(e)
                /\ Len(retrieved) < n /\ Len(source) < n
      BY <1>1, <2>1, MergeEvidenceFacts
    <3> HIDE DEF e, n
    <3> QED BY <2>1, <3>1 DEF Fits
  <2>2. CASE n < 0
    <3>1. e = <<>>
      <4>1. Merge(retrieved, source) \in Seq(OwnSpans)
        BY <1>1, MergeFacts
      <4> QED BY <1>1, <2>2, <4>1, TakeNothing DEF MergeEvidence
    <3> HIDE DEF e, n
    <3>2. e \in Seq(OwnSpans) /\ Len(e) = 0 /\ DOMAIN e = {}
      BY <3>1, EmptySeq
    <3>3. Distinct(Ids(e))
      BY <3>2 DEF Ids, Distinct
    <3> QED BY <1>1, <2>2, <3>1, <3>2, <3>3 DEF Fits
  <2> QED BY <1>1, <2>1, <2>2
<1> HIDE DEF e
<1>3. \A x, y \in ToSet(source) : y.span_id = x.span_id => y = x
  <2>1. /\ DOMAIN source = 1..Len(source) /\ ToSet(source) = {source[i] : i \in 1..Len(source)}
        /\ DOMAIN Ids(source) = 1..Len(source)
        /\ \A i \in 1..Len(source) : Ids(source)[i] = source[i].span_id
    BY <1>1, SequenceFacts DEF Ids
  <2> QED BY <1>1, <2>1 DEF Distinct
<1>4. ASSUME Len(e) < n
      PROVE  CoversSources(assertions, e) /\ CoversEmbedded(e)
  <2>1. CoversSources(assertions, source) /\ CoversEmbedded(retrieved)
    BY <1>1, <1>2, <1>4
  <2>2. ToSet(source) \subseteq ToSet(e)
    BY <1>2, <1>3, <1>4
  <2>3. CoversSources(assertions, e)
    BY <2>1, <2>2 DEF CoversSources
  <2>4. CoversEmbedded(e)
    BY <1>2, <1>4, <2>1 DEF CoversEmbedded
  <2> QED BY <2>3, <2>4
<1> QED BY <1>2, <1>4 DEF SpansRead, e, n

\* The bundle that is put together.
LEMMA BundleMade ==
    ASSUME AssemblyInv, Assemble, ~GraphRefused(request)
    PROVE  BundleInv'
<1>1. /\ stage = "relationships" /\ request' = request /\ began' = began /\ ledger' = ledger
      /\ request \in Builds /\ EvidenceLimit(request) \in Int
      /\ EvidenceLimit(request) * 4 \in Int
      /\ EvidenceLimit(request) >= 0 => EvidenceLimit(request) * 4 >= 0
      /\ EvidenceLimit(request) < 1 => EvidenceLimit(request) * 4 < 1
  BY LimitFacts DEF AssemblyInv, RequestInv, Assemble, tables
<1>g. GraphAsked(request) => EvidenceLimit(request) >= 1
  BY <1>1 DEF GraphRefused
<1>2. AssertionsRead(assertions) /\ SourceRead(source) /\ RetrievedRead(retrieved)
  BY <1>1 DEF AssemblyInv, ReadsInv
<1> DEFINE e == MergeEvidence(retrieved, source, EvidenceLimit(request))
<1>3. /\ SpansRead(e)
      /\ Len(e) < EvidenceLimit(request) =>
            CoversSources(assertions, e) /\ CoversEmbedded(e)
  BY <1>1, <1>2, EvidenceMade DEF AssemblyInv
<1> DEFINE found(graph) ==
             IF ~GraphAsked(request) THEN {{}}
             ELSE Related(graph, request.tenant_id, {request.entity_id},
                          EvidenceLimit(request) * 4)
<1>3a. PICK graph \in Graphs : \E paths \in found(graph) : bundle' = BundleOf(graph, paths)
  BY DEF Assemble
<1>4. PICK paths \in found(graph) : bundle' = BundleOf(graph, paths)
  BY <1>3a
<1>4a. GraphAsked(request) =>
          paths \in Related(graph, request.tenant_id, {request.entity_id},
                            EvidenceLimit(request) * 4)
  BY <1>4
<1>5. /\ EvidenceLimit(request) >= 0 => Cardinality(paths) <= EvidenceLimit(request) * 4
      /\ \A p \in paths : \A n \in ToSet(p) : n.tenant_id = request.tenant_id
  <2>1. CASE ~GraphAsked(request)
    <3>1. paths = {} /\ Cardinality(paths) = 0
      BY <1>4, <2>1, FS_EmptySet
    <3> QED BY <1>1, <3>1
  <2>2. CASE GraphAsked(request)
    <3> DEFINE limit == EvidenceLimit(request) * 4
    <3>1. limit \in Nat
      BY <1>1, <1>g, <2>2
    <3> HIDE DEF limit
    <3>2. paths \in Related(graph, request.tenant_id, {request.entity_id}, limit)
      BY <1>4, <2>2 DEF limit
    <3>3. Cardinality(paths) <= limit /\ \A p \in paths : WithinTenant(p, request.tenant_id)
      BY <3>1, <3>2, GraphsAssumption, RelatedFacts
    <3> QED BY <3>3 DEF limit, WithinTenant
  <2> QED BY <2>1, <2>2
<1>6. /\ bundle'.assertions = assertions /\ bundle'.evidence = e
      /\ bundle'.relationships = paths /\ bundle'.graph = graph
      /\ bundle'.conflicts = Conflicts(assertions, request.at_time)
      /\ bundle'.bounded = Bounded(assertions, e, paths, request)
  BY <1>4 DEF BundleOf
<1> HIDE DEF e
<1>7. AssertionsRead(bundle.assertions)'
  BY <1>1, <1>2, <1>6 DEF AssertionsRead, AskedFor, OwnAssertions
<1>8. SpansRead(bundle.evidence)'
  BY <1>1, <1>3, <1>6 DEF SpansRead, OwnSpans
<1>9. (Len(bundle.evidence) < EvidenceLimit(request) =>
          CoversSources(bundle.assertions, bundle.evidence) /\ CoversEmbedded(bundle.evidence))'
  BY <1>1, <1>3, <1>6 DEF CoversSources, CoversEmbedded, SourcesOf
<1>10. (GraphAsked(request) =>
           EvidenceLimit(request) >= 1 /\
           bundle.relationships \in Related(bundle.graph, request.tenant_id,
                                           {request.entity_id}, EvidenceLimit(request) * 4))'
  BY <1>1, <1>4a, <1>6, <1>g
<1>11. (bundle.bounded = Bounded(bundle.assertions, bundle.evidence,
                                bundle.relationships, request))'
  BY <1>1, <1>6
<1> QED BY <1>1, <1>5, <1>6, <1>7, <1>8, <1>9, <1>10, <1>11 DEF BundleInv

-----------------------------------------------------------------------------
\* The steps of a build.

\* The tables hold what was there earlier.
LEMMA AssemblyInit == Init => AssemblyInv
<1> SUFFICES ASSUME Init PROVE AssemblyInv
  OBVIOUS
<1>1. ledger = [k \in AssertionKey |->
                    IF \E a \in Earlier.assertions : KeyOf(a) = k
                    THEN CHOOSE a \in Earlier.assertions : KeyOf(a) = k ELSE None]
  BY DEF Init
<1>2. \A k \in AssertionKey :
         \/ ledger[k] = None
         \/ ledger[k] \in Earlier.assertions /\ KeyOf(ledger[k]) = k
  BY <1>1
<1>3. ledger \in [AssertionKey -> AssertionRecord \cup {None}]
  BY <1>1, EarlierAssumption
<1>4. Rows(ledger) \subseteq Earlier.assertions
  BY <1>2 DEF Rows
<1>5. IsFiniteSet(Rows(ledger))
  BY <1>4, EarlierAssumption, FS_Subset
<1>6. TablesInv
  BY <1>2, <1>3, <1>5, EarlierAssumption DEF Init, TablesInv, SpanStored, SpanKey
<1> QED BY <1>6 DEF Init, AssemblyInv, RequestInv, ReadsInv, BundleInv, RaisedOnOwnData

\* A row that makes find() raise is the tenant's own.
LEMMA FoundInvalid ==
    ASSUME TablesInv, RequestInv, stage # "idle", ~FindRefused(request),
           NEW found \in IF request.entity_id = None THEN {<<>>}
                         ELSE FindResults(Rows(ledger), request),
           NEW a \in ToSet(found), ~IntervalIsValid(a)
    PROVE  a \in Rows(ledger) /\ a.tenant_id = request.tenant_id
<1>1. CASE request.entity_id = None
  <2>1. found = <<>> /\ DOMAIN found = {}
    BY <1>1
  <2> QED BY <2>1 DEF ToSet
<1>2. CASE request.entity_id # None
  <2>1. found \in FindResults(Rows(ledger), request) /\ IsFiniteSet(Rows(ledger))
        /\ AssertionLimit(request) \in Nat
    <3>1. AssertionLimit(request) \in Int
      BY LimitFacts DEF RequestInv
    <3> QED BY <1>2, <3>1 DEF TablesInv, FindRefused
  <2>2. found \in Seq(Selected(Rows(ledger), request))
    BY <2>1, FindFacts
  <2>3. a \in Selected(Rows(ledger), request)
    BY <2>2, SequenceFacts
  <2> QED BY <2>3 DEF Selected
<1> QED BY <1>1, <1>2

\* Every step of a build and of the writers keeps the invariant.
LEMMA AssemblyStep == AssemblyInv /\ [Next]_vars => AssemblyInv'
<1> SUFFICES ASSUME AssemblyInv, [Next]_vars PROVE AssemblyInv'
  OBVIOUS
<1>0. TablesInv /\ RequestInv /\ ReadsInv /\ BundleInv /\ RaisedOnOwnData
  BY DEF AssemblyInv
<1>t. UNCHANGED tables => TablesInv'
  BY <1>0 DEF tables, evidence, TablesInv, Rows, SpanStored
<1>1. ASSUME NEW r \in Builds, Build(r) PROVE AssemblyInv'
  <2>1. RequestInv'
    BY <1>0, <1>1 DEF RequestInv, Build, tables, evidence
  <2> QED BY <1>0, <1>1, <1>t, <2>1
          DEF AssemblyInv, Build, ReadsInv, BundleInv, RaisedOnOwnData, RequestInv, reads
<1>2. CASE GetWorkflow
  BY <1>0, <1>2, <1>t DEF AssemblyInv, GetWorkflow, RequestInv, ReadsInv, BundleInv,
                          RaisedOnOwnData, reads, tables, evidence
<1>r. ASSUME Raise, stage \notin {"idle", "answer"}, RaisedOnOwnData' PROVE AssemblyInv'
  BY <1>0, <1>t, <1>r DEF AssemblyInv, Raise, NoReads, RequestInv, ReadsInv, BundleInv,
                          tables, evidence
<1>n. ASSUME Raise, FindRefused(request) \/ EvidenceLimit(request) < 1
      PROVE  RaisedOnOwnData'
  BY <1>n DEF Raise, RaisedOnOwnData, FindRefused
<1>3. CASE FindAssertions
  <2>1. stage = "assertions" /\ stage # "idle"
    BY <1>3 DEF FindAssertions
  <2>2. PICK found \in IF request.entity_id = None THEN {<<>>}
                       ELSE FindResults(Rows(ledger), request) :
            IF FindRefused(request) \/ \E a \in ToSet(found) : ~IntervalIsValid(a)
            THEN Raise
            ELSE /\ stage' = "evidence"
                 /\ assertions' = Relevant(found, request.at_time)
                 /\ UNCHANGED <<tables, request, began, source, lexical, retrieved,
                                bundle, raised>>
    BY <1>3 DEF FindAssertions
  <2>f. CASE FindRefused(request)
    <3>1. Raise
      BY <2>2, <2>f
    <3> QED BY <1>n, <1>r, <2>1, <2>f, <3>1
  <2>3. CASE ~FindRefused(request) /\ \E a \in ToSet(found) : ~IntervalIsValid(a)
    <3>1. PICK a \in ToSet(found) : ~IntervalIsValid(a)
      BY <2>3
    <3>2. a \in Rows(ledger) /\ a.tenant_id = request.tenant_id
      BY <1>0, <2>1, <2>3, <3>1, FoundInvalid
    <3>3. Raise
      BY <2>2, <2>3
    <3>4. RaisedOnOwnData'
      BY <3>1, <3>2, <3>3 DEF Raise, RaisedOnOwnData, tables, Rows
    <3> QED BY <1>r, <2>1, <3>3, <3>4
  <2>4. CASE ~(FindRefused(request) \/ \E a \in ToSet(found) : ~IntervalIsValid(a))
    <3> DEFINE s == Relevant(found, request.at_time)
    <3>1. AssertionsRead(s)
      BY <1>0, <2>1, <2>4, FoundRead
    <3> HIDE DEF s
    <3>2. /\ stage' = "evidence" /\ assertions' = s
          /\ UNCHANGED <<tables, request, began, source, lexical, retrieved, bundle, raised>>
      BY <2>2, <2>4 DEF s
    <3>3. AssertionsRead(assertions)'
      BY <3>1, <3>2 DEF AssertionsRead, AskedFor, OwnAssertions, tables
    <3>4. ReadsInv'
      BY <1>0, <2>1, <3>2, <3>3 DEF ReadsInv
    <3>5. RequestInv' /\ BundleInv' /\ RaisedOnOwnData'
      BY <1>0, <2>1, <3>2 DEF RequestInv, BundleInv, RaisedOnOwnData, tables, evidence
    <3> QED BY <1>t, <3>2, <3>4, <3>5 DEF AssemblyInv
  <2> QED BY <2>f, <2>3, <2>4
<1>k. ASSUME UNCHANGED <<tables, request, began, assertions>>, AssertionsRead(assertions)
      PROVE  AssertionsRead(assertions)'
  BY <1>k DEF AssertionsRead, AskedFor, OwnAssertions, tables
<1>s. ASSUME UNCHANGED <<tables, request, began, assertions, source>>, SourceRead(source)
      PROVE  SourceRead(source)'
  BY <1>s DEF SourceRead, SpansRead, CoversSources, OwnSpans, SourcesOf, tables, evidence
<1>q. ASSUME UNCHANGED <<tables, request, began, bundle, raised>>,
             stage \notin {"idle", "answer"}, stage' \in {"lexical", "semantic", "relationships"},
             stage' = "semantic" => request.embedding # None /\ EvidenceLimit(request) >= 1
      PROVE  RequestInv' /\ BundleInv' /\ RaisedOnOwnData' /\ TablesInv'
  <2>1. bundle = None /\ ~raised
    BY <1>0, <1>q DEF RequestInv
  <2>2. RequestInv'
    BY <1>0, <1>q, <2>1 DEF RequestInv, tables, evidence
  <2> QED BY <1>q, <1>t, <2>1, <2>2 DEF BundleInv, RaisedOnOwnData
<1>4. CASE GetSourceEvidence /\ ~SourcesRefused(SourcesOf(assertions), request)
  <2>1. /\ stage = "evidence" /\ stage' = "lexical"
        /\ UNCHANGED <<tables, request, began, assertions, lexical, retrieved, bundle, raised>>
    BY <1>4 DEF GetSourceEvidence
  <2>2. AssertionsRead(assertions) /\ lexical = <<>> /\ retrieved = <<>>
    BY <1>0, <2>1 DEF ReadsInv
  <2>3. SourceRead(source')
    BY <1>0, <1>4, <2>1, SourceFound DEF GetSourceEvidence
  <2>4. SourceRead(source)'
    BY <2>1, <2>3 DEF SourceRead, SpansRead, CoversSources, OwnSpans, SourcesOf, tables, evidence
  <2>5. ReadsInv'
    BY <1>k, <2>1, <2>2, <2>4 DEF ReadsInv
  <2> QED BY <1>q, <2>1, <2>5 DEF AssemblyInv
<1>a. CASE GetSourceEvidence /\ SourcesRefused(SourcesOf(assertions), request)
  <2>1. Raise /\ stage = "evidence"
    BY <1>a DEF GetSourceEvidence
  <2>2. EvidenceLimit(request) < 1
    <3>1. EvidenceLimit(request) \in Int
      BY <1>0, <2>1, LimitFacts DEF RequestInv
    <3> QED BY <1>a, <3>1 DEF SourcesRefused
  <2> QED BY <1>n, <1>r, <2>1, <2>2
<1>b. CASE LexicalSearch /\ SearchRefused(request)
  <2>1. Raise /\ stage = "lexical" /\ EvidenceLimit(request) < 1
    BY <1>b DEF LexicalSearch, SearchRefused
  <2> QED BY <1>n, <1>r, <2>1
<1>5. CASE LexicalSearch /\ ~SearchRefused(request)
  <2>1. /\ stage = "lexical"
        /\ UNCHANGED <<tables, request, began, assertions, source, bundle, raised>>
    BY <1>5 DEF LexicalSearch
  <2>2. AssertionsRead(assertions) /\ SourceRead(source) /\ lexical = <<>> /\ retrieved = <<>>
    BY <1>0, <2>1 DEF ReadsInv
  <2>3. AssertionsRead(assertions)' /\ SourceRead(source)'
    BY <1>k, <1>s, <2>1, <2>2
  <2> DEFINE n == EvidenceLimit(request)
  <2>4. n \in Int /\ CandidateLimit(n) \in Nat
    BY <1>0, <2>1, LimitFacts DEF RequestInv
  <2>4a. n >= 1 \/ (request.embedding = None /\ request.blank)
    BY <1>5, <2>4 DEF SearchRefused
  <2>5. CASE request.embedding # None
    <3>1. /\ stage' = "semantic" /\ retrieved' = retrieved
          /\ lexical' \in LexicalResults(spans, request, CandidateLimit(n))
      BY <1>5, <2>5 DEF LexicalSearch
    <3>n. EvidenceLimit(request) >= 1
      BY <2>4a, <2>5
    <3> HIDE DEF n
    <3>2. lexical' \in Seq(OwnIds) /\ Distinct(lexical')
      BY <1>0, <2>1, <2>4, <3>1, LexicalRead
    <3>3. OwnIds' = OwnIds
      BY <2>1 DEF OwnIds, tables, evidence
    <3>4. ReadsInv'
      BY <2>2, <2>3, <3>1, <3>2, <3>3 DEF ReadsInv, Distinct
    <3> QED BY <1>q, <2>1, <2>5, <3>n, <3>1, <3>4 DEF AssemblyInv
  <2>6. CASE request.embedding = None
    <3>1. /\ stage' = "relationships" /\ lexical' = lexical
          /\ \E hits \in LexicalResults(spans, request, n) :
                retrieved' = SpansOfHits(hits)
      BY <1>5, <2>6 DEF LexicalSearch
    <3>2. PICK hits \in LexicalResults(spans, request, n) :
                retrieved' = SpansOfHits(hits)
      BY <3>1
    <3>3. SpansRead(retrieved')
      BY <1>0, <2>1, <2>4, <2>4a, <3>2, LexicalRead
    <3>4. RetrievedRead(retrieved)'
      BY <2>1, <2>6, <3>3 DEF RetrievedRead, SpansRead, CoversEmbedded, OwnSpans
    <3>5. ReadsInv'
      BY <2>2, <2>3, <3>1, <3>4 DEF ReadsInv
    <3> QED BY <1>q, <2>1, <3>1, <3>5 DEF AssemblyInv
  <2> QED BY <2>5, <2>6
<1>6. CASE SemanticSearch
  <2>1. stage = "semantic" /\ request.embedding # None
    BY <1>0, <1>6 DEF SemanticSearch, RequestInv
  <2>2. CASE ~Comparable(embeddings, request)
    <3>1. Raise
      BY <1>6, <2>2 DEF SemanticSearch
    <3>2. RaisedOnOwnData'
      BY <2>1, <2>2, <3>1
         DEF Raise, RaisedOnOwnData, Comparable, Embedded, tables, evidence
    <3> QED BY <1>r, <2>1, <3>1, <3>2
  <2>3. CASE Comparable(embeddings, request)
    <3>1. /\ stage' = "relationships" /\ lexical' = <<>>
          /\ UNCHANGED <<tables, request, began, assertions, source, bundle, raised>>
      BY <1>6, <2>3 DEF SemanticSearch
    <3>2. PICK hits \in SemanticResults(embeddings, request,
                                        CandidateLimit(EvidenceLimit(request))) :
                retrieved' = SpansOfHits(Take(Fuse(lexical, hits), EvidenceLimit(request)))
      BY <1>6, <2>3 DEF SemanticSearch
    <3>3. AssertionsRead(assertions) /\ SourceRead(source) /\ lexical \in Seq(OwnIds)
      BY <1>0, <2>1 DEF ReadsInv
    <3>4. RetrievedRead(retrieved')
      BY <1>0, <2>1, <3>2, <3>3, FusedRead
    <3>5. RetrievedRead(retrieved)'
      BY <3>1, <3>4 DEF RetrievedRead, SpansRead, CoversEmbedded, OwnSpans
    <3>6. ReadsInv'
      BY <1>k, <1>s, <3>1, <3>3, <3>5 DEF ReadsInv
    <3> QED BY <1>q, <2>1, <3>1, <3>6 DEF AssemblyInv
  <2> QED BY <2>2, <2>3
<1>c. CASE Assemble /\ GraphRefused(request)
  <2>1. Raise /\ stage = "relationships"
    BY <1>c DEF Assemble
  <2>2. EvidenceLimit(request) < 1
    <3>1. EvidenceLimit(request) \in Int
      BY <1>0, <2>1, LimitFacts DEF RequestInv
    <3> QED BY <1>c, <3>1 DEF GraphRefused
  <2> QED BY <1>n, <1>r, <2>1, <2>2
<1>7. CASE Assemble /\ ~GraphRefused(request)
  <2>1. BundleInv'
    BY <1>7, BundleMade
  <2>2. TablesInv' /\ RequestInv' /\ ReadsInv' /\ RaisedOnOwnData'
    BY <1>0, <1>7, <1>t DEF Assemble, NoReads, RequestInv, ReadsInv, RaisedOnOwnData,
                            tables, evidence
  <2> QED BY <2>1, <2>2 DEF AssemblyInv
<1>8. CASE ReadFails
  BY <1>0, <1>8, <1>t DEF AssemblyInv, ReadFails, NoReads, RequestInv, ReadsInv, BundleInv,
                          RaisedOnOwnData, tables, evidence
<1>9. CASE Respond
  BY <1>0, <1>9, <1>t DEF AssemblyInv, Respond, RequestInv, ReadsInv, BundleInv,
                          RaisedOnOwnData, reads
<1>10. CASE RecordAssertion
  <2>1. /\ Grows(ledger, ledger')
        /\ ledger' \in [AssertionKey -> AssertionRecord \cup {None}]
        /\ \A k \in AssertionKey : ledger'[k] # None => KeyOf(ledger'[k]) = k
        /\ IsFiniteSet(Rows(ledger'))
    BY <1>0, <1>10, LedgerStep DEF RecordAssertion
  <2>2. UNCHANGED <<evidence, stage, request, began, reads, bundle, raised>>
    BY <1>10 DEF RecordAssertion
  <2>3. TablesInv'
    BY <1>0, <2>1, <2>2 DEF TablesInv, Rows, evidence, SpanStored
  <2> QED BY <2>1, <2>2, <2>3, TablesGrow DEF evidence
<1>11. CASE RecordEvidence
  <2>1. /\ sources' = Envelopes
        /\ spans \subseteq spans' /\ embeddings \subseteq embeddings'
        /\ spans' \subseteq Spans \cup Earlier.spans /\ spans' \subseteq SpanRecord
        /\ IsFiniteSet(spans') /\ IsFiniteSet(embeddings')
        /\ \A s, t \in spans' : SpanKey(s) = SpanKey(t) => s = t
        /\ embeddings' \subseteq Embeddings \cup Earlier.embeddings
        /\ \A e \in embeddings' : \E s \in spans' : SpanKey(s) = SpanKey(e)
    BY <1>0, <1>11, EvidenceStep DEF RecordEvidence
  <2>2. UNCHANGED <<ledger, stage, request, began, reads, bundle, raised>>
    BY <1>11 DEF RecordEvidence
  <2>3. TablesInv'
    BY <1>0, <2>1, <2>2 DEF TablesInv, Rows, SpanStored
  <2>4. Grows(ledger, ledger')
    BY <2>2 DEF Grows
  <2> QED BY <2>1, <2>2, <2>3, <2>4, TablesGrow
<1>12. CASE UNCHANGED vars
  <2>1. Grows(ledger, ledger') /\ TablesInv'
    BY <1>12, <1>t DEF vars, tables, Grows
  <2> QED BY <1>12, <2>1, TablesGrow DEF vars, tables, evidence
<1> QED BY <1>1, <1>2, <1>3, <1>4, <1>a, <1>5, <1>b, <1>6, <1>7, <1>c, <1>8, <1>9, <1>10,
           <1>11, <1>12 DEF Next

-----------------------------------------------------------------------------

\* The tables and the reads of a build have their types, at every stage.
THEOREM TypeCorrect == Spec => []TypeOK
<1>1. ASSUME AssemblyInv PROVE TypeOK
  <2>1. ToSet(assertions) \subseteq CommercialAssertion
    <3>1. CASE assertions = <<>>
      BY <3>1 DEF ToSet
    <3>2. CASE assertions \in Seq(OwnAssertions)
      BY <3>2, SequenceFacts DEF OwnAssertions
    <3> QED BY <1>1, <3>1, <3>2 DEF AssemblyInv, ReadsInv, AssertionsRead
  <2>2. ToSet(source) \subseteq spans
    <3>1. CASE source = <<>>
      BY <3>1 DEF ToSet
    <3> QED BY <1>1, <3>1 DEF AssemblyInv, ReadsInv, SourceRead
  <2>3. ToSet(lexical) \subseteq {s.span_id : s \in spans}
    <3>1. CASE lexical = <<>>
      BY <3>1 DEF ToSet
    <3>2. CASE lexical \in Seq(OwnIds)
      BY <3>2, SequenceFacts DEF OwnIds
    <3> QED BY <1>1, <3>1, <3>2 DEF AssemblyInv, ReadsInv
  <2> QED BY <1>1, <2>1, <2>2, <2>3 DEF TypeOK, AssemblyInv, TablesInv, RequestInv
<1> QED BY <1>1, AssemblyInit, AssemblyStep, PTL DEF Spec

\* No bundle has an assertion, a span or a node of another tenant.
THEOREM TenantsAreApart == Spec => []TenantIsolation
<1>1. ASSUME AssemblyInv, bundle # None
      PROVE  TenantIsolation
  <2>1. BundleInv
    BY <1>1 DEF AssemblyInv
  <2>2. ToSet(bundle.assertions) \subseteq OwnAssertions
    BY <1>1, <2>1, SequenceFacts DEF BundleInv, AssertionsRead
  <2>3. ToSet(bundle.evidence) \subseteq OwnSpans
    BY <1>1, <2>1, SequenceFacts DEF BundleInv, SpansRead
  <2> QED BY <1>1, <2>1, <2>2, <2>3 DEF TenantIsolation, BundleInv, OwnAssertions, OwnSpans
<1>2. AssemblyInv => TenantIsolation
  BY <1>1 DEF TenantIsolation
<1> QED BY <1>2, AssemblyInit, AssemblyStep, PTL DEF Spec

\* Every bundle keeps to its limits and shows no span twice, whatever the settings.
THEOREM BundlesAreBounded == Spec => []BundleBounded
<1>1. ASSUME AssemblyInv, bundle # None
      PROVE  BundleBounded
  <2>1. BundleInv
    BY <1>1 DEF AssemblyInv
  <2>2. Cardinality({s.span_id : s \in ToSet(bundle.evidence)}) = Len(bundle.evidence)
    BY <1>1, <2>1, IdsFacts DEF BundleInv, SpansRead
  <2>3. /\ AssertionLimit(request) \in Int /\ EvidenceLimit(request) \in Int
    BY <1>1, LimitFacts DEF AssemblyInv, RequestInv
  <2>4. Fits(bundle.assertions, AssertionLimit(request))
        /\ Fits(bundle.evidence, EvidenceLimit(request))
    BY <1>1, <2>1 DEF BundleInv, AssertionsRead, SpansRead
  <2>5. AssertionLimit(request) >= 0 /\ EvidenceLimit(request) >= 0 => bundle.bounded
    BY <1>1, <2>1, <2>3, <2>4 DEF BundleInv, Bounded, Fits
  <2> QED BY <1>1, <2>2, <2>3, <2>4, <2>5 DEF BundleBounded, Fits
<1>2. AssemblyInv => BundleBounded
  BY <1>1 DEF BundleBounded
<1> QED BY <1>2, AssemblyInit, AssemblyStep, PTL DEF Spec

\* What was recorded before a build and still holds at the time asked for is in
\* the bundle, or the bundle is full; whatever is superseded meanwhile.
THEOREM AssertionsAreComplete == Spec => []NothingValidLeftOut
<1>1. ASSUME AssemblyInv, bundle # None, Len(bundle.assertions) < AssertionLimit(request),
             NEW r \in Rows(ledger), KeyOf(r) \in began.keys, AskedFor(r)
      PROVE  \E a \in ToSet(bundle.assertions) : KeyOf(a) = KeyOf(r)
  <2>1. r = ledger[KeyOf(r)]
    BY <1>1 DEF AssemblyInv, TablesInv, Rows
  <2> QED BY <1>1, <2>1 DEF AssemblyInv, BundleInv, AssertionsRead
<1>2. AssemblyInv => NothingValidLeftOut
  BY <1>1 DEF NothingValidLeftOut, AskedFor
<1> QED BY <1>2, AssemblyInit, AssemblyStep, PTL DEF Spec

\* With room left, the bundle has every span stored before the build under the
\* sources of its assertions, with the offsets it was stored with.
THEOREM SourcesAreComplete == Spec => []NoEvidenceLeftOut
<1>1. AssemblyInv => NoEvidenceLeftOut
  BY DEF AssemblyInv, BundleInv, CoversSources, NoEvidenceLeftOut
<1> QED BY <1>1, AssemblyInit, AssemblyStep, PTL DEF Spec

\* With room left, the bundle has every span that had an embedding of the model
\* before the build: the fusion drops none, and the candidates are enough.
THEOREM EmbeddedAreComplete == Spec => []NoEmbeddedLeftOut
<1>1. AssemblyInv => NoEmbeddedLeftOut
  BY DEF AssemblyInv, BundleInv, CoversEmbedded, NoEmbeddedLeftOut
<1> QED BY <1>1, AssemblyInit, AssemblyStep, PTL DEF Spec

\* No tenant's rows make another tenant's builds raise: a build that does meets its
\* own tenant's rows, or settings that leave no room, whatever the settings are.
THEOREM OthersDoNotRaise == Spec => []RaisedOnOwnData
<1>1. AssemblyInv => RaisedOnOwnData
  BY DEF AssemblyInv
<1> QED BY <1>1, AssemblyInit, AssemblyStep, PTL DEF Spec

\* The relationships of a bundle reach every node near the entity asked for, or
\* are as many as allowed and the shortest.
THEOREM RelatedAreNearest == Spec => []NearestRelated
<1>1. ASSUME AssemblyInv, bundle # None, GraphAsked(request)
      PROVE  NearestRelated
  <2> DEFINE limit == EvidenceLimit(request) * 4
             from == Starts(bundle.graph, request.tenant_id, {request.entity_id})
             near(k) == Within(bundle.graph, request.tenant_id, from, k)
  <2>1. /\ limit \in Nat /\ bundle.graph \in Graphs
        /\ bundle.relationships \in Related(bundle.graph, request.tenant_id,
                                            {request.entity_id}, limit)
    <3>1. EvidenceLimit(request) \in Int /\ EvidenceLimit(request) >= 1
      BY <1>1, LimitFacts DEF AssemblyInv, BundleInv, RequestInv
    <3> QED BY <1>1, <3>1 DEF AssemblyInv, BundleInv
  <2> HIDE DEF limit
  <2>2. ASSUME NEW k \in 1..3, NEW n \in near(k) \ near(k-1)
        PROVE  \/ \E p \in bundle.relationships : Last(p) = n /\ Len(p) = k + 1
               \/ /\ Cardinality(bundle.relationships) = limit
                  /\ \A p \in bundle.relationships : Len(p) <= k + 1
    <3> DEFINE graph == bundle.graph  tenant == request.tenant_id
               ids == {request.entity_id}  paths == bundle.relationships
    <3>1. graph \in Graphs /\ paths \in Related(graph, tenant, ids, limit)
          /\ from = Starts(graph, tenant, ids)
      BY <2>1
    <3>2. n \in Within(graph, tenant, from, k) \ Within(graph, tenant, from, k - 1)
      BY <2>2
    <3> HIDE DEF graph, tenant, ids, paths, from
    <3>3. \/ \E p \in paths : Last(p) = n /\ Len(p) = k + 1
          \/ Cardinality(paths) = limit /\ \A p \in paths : Len(p) <= k + 1
      BY <2>1, <3>1, <3>2, NearestKept
    <3> QED BY <3>3 DEF paths
  <2> QED BY <2>2 DEF NearestRelated, limit
<1>2. AssemblyInv => NearestRelated
  BY <1>1 DEF NearestRelated
<1> QED BY <1>2, AssemblyInit, AssemblyStep, PTL DEF Spec

-----------------------------------------------------------------------------
\* Conflicts.

\* Two valid intervals overlap exactly when both hold at some instant: at the
\* later start or, without one, just before the earlier end.
LEMMA OverlapAtInstant ==
    ASSUME NEW a \in CommercialAssertion, NEW b \in CommercialAssertion
    PROVE  IntervalsOverlap(a, b) <=>
              \E t \in Instants \cup {i - 1 : i \in Instants} : ValidAt(a, t) /\ ValidAt(b, t)
<1> DEFINE starts == {a.valid_from, b.valid_from} \ {None}
           ends == {a.valid_to, b.valid_to} \ {None}
           moments == Instants \cup {i - 1 : i \in Instants}
<1>1. /\ a.valid_from \in Instants \cup {None} /\ a.valid_to \in Instants \cup {None}
      /\ b.valid_from \in Instants \cup {None} /\ b.valid_to \in Instants \cup {None}
      /\ Instants \subseteq Int /\ Instants # {} /\ None \notin Int
  BY InstantsAssumption, NoneAssumption DEF CommercialAssertion, AssertionRecord
<1>2. starts \subseteq Instants /\ ends \subseteq Instants /\ moments \subseteq Int
  <2>1. \A i \in Instants : i \in Int /\ i - 1 \in Int
    BY <1>1
  <2>2. moments \subseteq Int
    BY <2>1
  <2>3. starts \subseteq Instants /\ ends \subseteq Instants
    BY <1>1
  <2> QED BY <2>2, <2>3
<1>3. \A t \in Int : ValidAt(a, t) /\ ValidAt(b, t) <=>
          (\A s \in starts : s <= t) /\ (\A e \in ends : t < e)
  <2> TAKE t \in Int
  <2>1. (\A s \in starts : s <= t) <=> /\ a.valid_from = None \/ a.valid_from <= t
                                       /\ b.valid_from = None \/ b.valid_from <= t
    OBVIOUS
  <2>2. (\A e \in ends : t < e) <=> /\ a.valid_to = None \/ t < a.valid_to
                                    /\ b.valid_to = None \/ t < b.valid_to
    OBVIOUS
  <2> QED BY <2>1, <2>2 DEF ValidAt
<1>4. IntervalsOverlap(a, b) <=> \A s \in starts, e \in ends : s < e
  BY DEF IntervalsOverlap
<1>5. ASSUME NEW t \in moments, ValidAt(a, t), ValidAt(b, t)
      PROVE  \A s \in starts, e \in ends : s < e
  <2> TAKE s \in starts, e \in ends
  <2>1. s \in Int /\ e \in Int /\ t \in Int
    BY <1>1, <1>2
  <2>2. s <= t /\ t < e
    BY <1>3, <1>5, <2>1
  <2> QED BY <2>1, <2>2
<1>6. ASSUME \A s \in starts, e \in ends : s < e
      PROVE  \E t \in moments : (\A s \in starts : s <= t) /\ (\A e \in ends : t < e)
  <2>1. CASE starts # {}
    <3>1. \E t \in starts : \A s \in starts : s <= t
      <4> DEFINE x == a.valid_from  y == b.valid_from
      <4>0. (x # None => x \in Int) /\ (y # None => y \in Int) /\ starts = {x, y} \ {None}
        BY <1>1
      <4>1. CASE x = None \/ y = None
        <5>1. PICK t \in starts : TRUE
          BY <2>1
        <5>2. starts = {t} /\ t \in Int
          BY <4>0, <4>1, <5>1
        <5> QED BY <5>2
      <4>2. CASE x # None /\ y # None
        <5>1. x \in Int /\ y \in Int /\ x \in starts /\ y \in starts
          BY <1>1, <4>2
        <5>2. x <= y \/ y <= x
          BY <5>1
        <5> QED BY <5>1, <5>2
      <4> QED BY <4>1, <4>2
    <3> QED BY <1>2, <1>6, <3>1
  <2>2. CASE starts = {} /\ ends # {}
    <3>1. \E t \in ends : \A e \in ends : t <= e
      <4> DEFINE x == a.valid_to  y == b.valid_to
      <4>0. (x # None => x \in Int) /\ (y # None => y \in Int) /\ ends = {x, y} \ {None}
        BY <1>1
      <4>1. CASE x = None \/ y = None
        <5>1. PICK t \in ends : TRUE
          BY <2>2
        <5>2. ends = {t} /\ t \in Int
          BY <4>0, <4>1, <5>1
        <5> QED BY <5>2
      <4>2. CASE x # None /\ y # None
        <5>1. x \in Int /\ y \in Int /\ x \in ends /\ y \in ends
          BY <1>1, <4>2
        <5>2. x <= y \/ y <= x
          BY <5>1
        <5> QED BY <5>1, <5>2
      <4> QED BY <4>1, <4>2
    <3>2. PICK t \in ends : \A e \in ends : t <= e
      BY <3>1
    <3>3. t \in Instants /\ t \in Int /\ \A e \in ends : e \in Int
      BY <1>1, <1>2
    <3> HIDE DEF ends, starts
    <3>4. \A e \in ends : t - 1 < e
      BY <3>2, <3>3
    <3>5. t - 1 \in moments
      BY <3>3
    <3> QED BY <2>2, <3>4, <3>5
  <2>3. CASE starts = {} /\ ends = {}
    BY <1>1, <2>3
  <2> QED BY <2>1, <2>2, <2>3
<1> HIDE DEF starts, ends
<1>7. (\A s \in starts, e \in ends : s < e) <=>
          \E t \in moments : ValidAt(a, t) /\ ValidAt(b, t)
  BY <1>2, <1>3, <1>5, <1>6
<1> QED BY <1>4, <1>7

\* Among assertions with different ids, a conflict names under a topic those
\* that clash with another one.
LEMMA ConflictsName ==
    ASSUME NEW S, NEW s \in Seq(S), NEW at_time,
           \A i, j \in DOMAIN s : s[i].assertion_id = s[j].assertion_id => i = j,
           NEW a \in ToSet(s)
    PROVE  (\E c \in Conflicts(s, at_time) :
                c.topic = TopicOf(a) /\ a.assertion_id \in c.assertion_ids)
           <=> \E b \in ToSet(s) : Clash(a, b, at_time)
<1> DEFINE clashing == {i \in DOMAIN s : \E j \in DOMAIN s :
                            i # j /\ Clash(s[i], s[j], at_time)}
           named(g) == {s[i].assertion_id : i \in {j \in clashing : TopicOf(s[j]) = g}}
           topics == {TopicOf(s[i]) : i \in clashing}
<1>1. Conflicts(s, at_time) = {[topic |-> g, assertion_ids |-> named(g)] : g \in topics}
  BY DEF Conflicts
<1>2. PICK k \in DOMAIN s : s[k] = a
  BY DEF ToSet
<1>3. \A j \in clashing : j \in DOMAIN s
  OBVIOUS
<1>4. k \in clashing <=> \E b \in ToSet(s) : Clash(a, b, at_time)
  <2>1. ASSUME k \in clashing PROVE \E b \in ToSet(s) : Clash(a, b, at_time)
    BY <1>2, <2>1 DEF ToSet
  <2>2. ASSUME NEW b \in ToSet(s), Clash(a, b, at_time) PROVE k \in clashing
    <3>1. PICK j \in DOMAIN s : s[j] = b
      BY DEF ToSet
    <3>2. k # j
      BY <1>2, <2>2, <3>1 DEF Clash
    <3> QED BY <1>2, <2>2, <3>1, <3>2
  <2> QED BY <2>1, <2>2
<1> HIDE DEF clashing
<1>5. ASSUME k \in clashing
      PROVE  \E c \in Conflicts(s, at_time) :
                c.topic = TopicOf(a) /\ a.assertion_id \in c.assertion_ids
  <2>1. TopicOf(a) \in topics /\ a.assertion_id \in named(TopicOf(a))
    BY <1>2, <1>5
  <2> DEFINE c == [topic |-> TopicOf(a), assertion_ids |-> named(TopicOf(a))]
  <2>2. c \in Conflicts(s, at_time)
    BY <1>1, <2>1
  <2>3. c.topic = TopicOf(a) /\ a.assertion_id \in c.assertion_ids
    BY <2>1
  <2> QED BY <2>2, <2>3
<1>6. ASSUME NEW c \in Conflicts(s, at_time), c.topic = TopicOf(a),
             a.assertion_id \in c.assertion_ids
      PROVE  k \in clashing
  <2>1. PICK g \in topics : c = [topic |-> g, assertion_ids |-> named(g)]
    BY <1>1
  <2>2. a.assertion_id \in named(g)
    BY <1>6, <2>1
  <2>3. PICK j \in clashing : s[j].assertion_id = a.assertion_id
    BY <2>2
  <2>4. j = k
    BY <1>2, <1>3, <2>3
  <2> QED BY <2>4
<1> QED BY <1>4, <1>5, <1>6

\* The conflicts of a bundle are its disagreements, no more and no fewer.
THEOREM ConflictsAreRight == Spec => []ConflictsAreDisagreements
<1>1. ASSUME AssemblyInv, bundle # None
      PROVE  ConflictsAreDisagreements
  <2> DEFINE s == bundle.assertions
             t == request.at_time
  <2>1. /\ s \in Seq(OwnAssertions)
        /\ \A i, j \in DOMAIN s : KeyOf(s[i]) = KeyOf(s[j]) => i = j
        /\ bundle.conflicts = Conflicts(s, t)
        /\ request \in Builds
    BY <1>1 DEF AssemblyInv, BundleInv, AssertionsRead, RequestInv
  <2>2. t \in Instants \cup {None}
    BY <2>1, BuildsAssumption DEF ContextRequest
  <2> HIDE DEF s, t
  <2>3. \A x \in ToSet(s) : x \in CommercialAssertion /\ x.tenant_id = request.tenant_id
    BY <2>1, SequenceFacts DEF OwnAssertions
  <2>4. \A i, j \in DOMAIN s : s[i].assertion_id = s[j].assertion_id => i = j
    BY <2>1, <2>3 DEF KeyOf, ToSet
  <2>5. ASSUME NEW a \in ToSet(s), NEW b \in ToSet(s)
        PROVE  Clash(a, b, t) <=> Disagree(a, b)
    <3>1. IntervalsOverlap(a, b) <=>
             \E i \in Instants \cup {j - 1 : j \in Instants} : ValidAt(a, i) /\ ValidAt(b, i)
      BY <2>3, OverlapAtInstant
    <3>2. CASE t = None
      BY <3>1, <3>2 DEF Clash, Contestable, Disagree, t
    <3>3. CASE t # None
      <4>1. t \in Instants
        BY <2>2, <3>3
      <4>2. ValidAt(a, t) /\ ValidAt(b, t) => IntervalsOverlap(a, b)
        BY <3>1, <4>1
      <4>3. Disagree(a, b) <=> /\ TopicOf(a) = TopicOf(b) /\ a.content.value # b.content.value
                               /\ ValidAt(a, t) /\ ValidAt(b, t)
        BY <3>3 DEF Disagree, t
      <4> QED BY <3>3, <4>2, <4>3 DEF Clash, Contestable, RelevantToContext
    <3> QED BY <3>2, <3>3
  <2>6. ASSUME NEW a \in ToSet(s)
        PROVE  (\E c \in bundle.conflicts :
                   c.topic = TopicOf(a) /\ a.assertion_id \in c.assertion_ids)
               <=> \E b \in ToSet(s) : Disagree(a, b)
    <3>1. (\E c \in Conflicts(s, t) :
              c.topic = TopicOf(a) /\ a.assertion_id \in c.assertion_ids)
          <=> \E b \in ToSet(s) : Clash(a, b, t)
      BY <2>1, <2>4, ConflictsName
    <3> QED BY <2>1, <2>5, <3>1
  <2> QED BY <2>6 DEF ConflictsAreDisagreements, s
<1>2. AssemblyInv => ConflictsAreDisagreements
  BY <1>1 DEF ConflictsAreDisagreements
<1> QED BY <1>2, AssemblyInit, AssemblyStep, PTL DEF Spec
=============================================================================

-------------------------- MODULE ValidationScript --------------------------
(***************************************************************************)
(* scripts/realworld_validation.py: a client that fills two tenants of its *)
(* own with a scenario, checks what the service answers, and in the end,   *)
(* whatever happened, deletes its tenants' rows in one transaction beside  *)
(* the service.  Against a remote service a call may time out; the service *)
(* executes the abandoned request when it likes.  The reads of one compile *)
(* are one step, since nobody else writes to these tenants meanwhile.      *)
(***************************************************************************)
EXTENDS ContextCompiler, EvidenceStore

CONSTANTS
    tenant_id, isolated_tenant_id,      \* made up by each run, as all ids are
    settings,       \* of the service
    others          \* what the tables hold of other tenants, beside Envelopes...

VARIABLES
    ledger, workflow,       \* the committed assertions by key, the workflow rows
    step, answers,          \* the next call; the answers since the last check
    stage,                  \* what the script does, or how it ended
    verdict,                \* "PASS", "FAIL" or None
    abandoned, pending,     \* the call that timed out; is it still to be executed?
    doomed,                 \* the rows the open transaction of cleanup() deleted
    kept                    \* history: what the run had when cleanup() began

tables == <<ledger, workflow, evidence>>

script == <<step, answers, stage, verdict, abandoned, pending>>

vars == <<tables, script, doomed, kept>>

Mine == {tenant_id, isolated_tenant_id}

\* Tenants and ids are new uuids: what others store has neither.
ASSUME OthersAssumption ==
    /\ others.assertions \subseteq AssertionRecord
    /\ \A r \in others.assertions \cup others.workflow
                \cup others.sources \cup others.spans \cup others.embeddings
                \cup Envelopes \cup Spans \cup Embeddings : r.tenant_id \notin Mine
    /\ \A r \in others.sources \cup others.spans \cup Envelopes \cup Spans :
          r.source_id \notin 1..6

ASSUME TenantsAssumption == tenant_id # isolated_tenant_id

ASSUME SettingsAssumption == settings \in Settings

-----------------------------------------------------------------------------
\* The scenario.  A date is 100 * month + day, a text the rate it speaks of.

Document(says, x, y) == [says |-> says, vector |-> <<x, y>>]

\* Contract, amendment, negotiation, draft, invoice, and the isolated tenant's.
documents ==
    <<Document(10, 80, 20), Document(12, 100, 0), Document(12, 95, 5),
      Document(11, 85, 15), Document(None, 0, 100), Document(99, 100, 0)>>

current_tenant(i) == IF i = 6 THEN isolated_tenant_id ELSE tenant_id

source_payload(i) == [tenant_id |-> current_tenant(i), source_id |-> i]

span_payload(i) ==
    [tenant_id |-> current_tenant(i), span_id |-> i, source_id |-> i,
     start_offset |-> 0, end_offset |-> 1, length |-> 1, says |-> documents[i].says]

embedding_payload(i) ==
    [tenant_id |-> current_tenant(i), span_id |-> i, model |-> "validation-embedding",
     dimensions |-> 2, vector |-> documents[i].vector]

\* The assertion that document i supports.
assertion_payload(i, recorded_at, valid_from, status, target) ==
    [tenant_id |-> tenant_id, assertion_id |-> i,
     content |-> [entity_id |-> "vendor-acme", topic |-> "funding_rate",
                  value |-> documents[i].says, source_id |-> i,
                  evidence_span_id |-> i, recorded_at |-> recorded_at],
     valid_from |-> valid_from, valid_to |-> None, status |-> status,
     supersedes_assertion_id |-> target]

contract_assertion == assertion_payload(1, 101, 101, "active", None)
amendment_assertion == assertion_payload(2, 415, 401, "active", 1)
draft_assertion == assertion_payload(4, 405, 401, "candidate", None)

ASSUME ScenarioAssumption ==
    {contract_assertion, amendment_assertion, draft_assertion} \subseteq AssertionRecord

workflow_payload == [tenant_id |-> tenant_id, checkpoint |-> "assertions_loaded"]

Ask(entity, at, assertions_wanted) ==
    [tenant_id |-> tenant_id, entity_id |-> entity, at_time |-> at, blank |-> FALSE,
     max_assertions |-> assertions_wanted, max_evidence_items |-> 3,
     embedding |-> [model |-> "validation-embedding", dimensions |-> 2],
     settings |-> settings]

current_context == Ask("vendor-acme", 501, 10)
historical_context == Ask("vendor-acme", 201, 10)
retrieval_context == Ask(None, None, 5)

Call(op, row, check) == [op |-> op, row |-> row, check |-> check]

\* The calls that store document i.
Submit(i) == <<Call("envelope", source_payload(i), None),
               Call("span", span_payload(i), None),
               Call("embedding", embedding_payload(i), "inserted")>>

\* Every call, with the check that follows it.
Script ==
    Submit(1) \o Submit(2) \o Submit(3) \o Submit(4) \o Submit(5) \o Submit(6)
    \o <<Call("put workflow", workflow_payload, None),
         Call("get workflow", workflow_payload, "persistence"),
         Call("assertion", contract_assertion, None),
         Call("assertion", amendment_assertion, None),
         Call("assertion", draft_assertion, "creation"),
         Call("assertion", amendment_assertion, "idempotency"),
         Call("compile", current_context, "current"),
         Call("compile", historical_context, "historical"),
         Call("compile", retrieval_context, "retrieval"),
         Call("span", span_payload(2), "idempotency")>>
    \o [i \in 1..19 |-> Call("compile", current_context, None)]

ASSUME CallsAssumption == None \notin ToSet(Script)

\* None is no check either, no verdict and no entity.
ASSUME NamesAssumption ==
    None \notin {"inserted", "persistence", "creation", "idempotency", "current",
                 "historical", "retrieval", "PASS", "FAIL", "vendor-acme"}

-----------------------------------------------------------------------------
\* What the service does.

Rows == {ledger[k] : k \in AssertionKey} \ {None}

AssertionOutcome(a) == IF ledger[KeyOf(a)] = None THEN "created" ELSE "duplicate"

\* A call of the assertion repository that runs alone.
PutAssertion(a) ==
    /\ ledger' =
          IF ledger[KeyOf(a)] # None THEN ledger
          ELSE [k \in AssertionKey |->
                   IF k = KeyOf(a) THEN a
                   ELSE IF k = TargetOf(a) /\ ledger[k] # None THEN Supersede(ledger[k], a)
                   ELSE ledger[k]]
    /\ UNCHANGED evidence

\* By cosine distance from the vector [1, 0], which every query has.
Closer(d, e) == d.vector[2] * e.vector[1] < e.vector[2] * d.vector[1]

\* No text has all the words of a task, so the lexical search finds nothing.
Hits(query) ==
    {Fuse(<<>>, Take([i \in DOMAIN s |-> s[i].span_id],
                     CandidateLimit(EvidenceLimit(query)))) :
        s \in Orderings(Embedded(embeddings, query), Closer)}

StoredSpan(id) == CHOOSE s \in spans : SpanKey(s) = <<tenant_id, id>>

\* What is assembled of the answers to the reads; the run's tenants have no
\* relationships in the graph.
BundleFrom(query, found, cited, hits) ==
    LET best == Take(hits, EvidenceLimit(query))
        items == MergeEvidence([i \in DOMAIN best |-> RetrievedSpan(StoredSpan(best[i]))],
                               cited, EvidenceLimit(query))
    IN  [assertions |-> ToSet(found), evidence |-> items,
         conflicts |-> Conflicts(found, query.at_time),
         bounded |-> Bounded(found, items, {}, query)]

\* ContextAssembly's reads, one after the other.
Bundles(query) ==
    UNION {{BundleFrom(query, found, cited, hits) :
                cited \in SourceEvidence(spans, query.tenant_id,
                                         {a.content.source_id : a \in ToSet(found)},
                                         EvidenceLimit(query)),
                hits \in Hits(query)} :
           found \in IF query.entity_id = None THEN {<<>>} ELSE FindResults(Rows, query)}

\* The settings leave no room for a read, or the vectors cannot be compared.
CompileRaises(query) ==
    FindRefused(query) \/ SearchRefused(query) \/ ~Comparable(embeddings, query)

Answer(outcome, body) == [outcome |-> outcome, body |-> body]

Answers(c) ==
    CASE c.op = "envelope" -> {Answer(EnvelopeOutcome(c.row), None)}
      [] c.op = "span" -> {Answer(SpanOutcome(c.row), None)}
      [] c.op = "embedding" -> {Answer(EmbeddingOutcome(c.row), None)}
      [] c.op = "assertion" -> {Answer(AssertionOutcome(c.row), None)}
      [] c.op = "put workflow" -> {Answer("updated", None)}
      [] c.op = "get workflow" ->
            {Answer("found", {w \in workflow : w.tenant_id = tenant_id})}
      [] c.op = "compile" ->
            IF CompileRaises(c.row) THEN {Answer("error", None)}
            ELSE {Answer("compiled", bundle) : bundle \in Bundles(c.row)}

Execute(c) ==
    /\ CASE c.op = "envelope" -> PutEnvelope(c.row) /\ UNCHANGED ledger
         [] c.op = "span" -> PutSpan(c.row) /\ UNCHANGED ledger
         [] c.op = "embedding" -> PutEmbedding(c.row) /\ UNCHANGED ledger
         [] c.op = "assertion" -> PutAssertion(c.row)
         [] OTHER -> UNCHANGED <<ledger, evidence>>
    /\ workflow' = IF c.op = "put workflow" THEN workflow \cup {c.row} ELSE workflow

-----------------------------------------------------------------------------
\* What the script does.

Values(bundle) == {a.content.value : a \in bundle.assertions}

Rates(bundle) == {s.says : s \in ToSet(bundle.evidence)}

\* Do the answers since the last check, the latest last, pass this one?
Passes(check, heard) ==
    LET outcomes == [i \in DOMAIN heard |-> heard[i].outcome]
        body == Last(heard).body
    IN  CASE check = None -> TRUE
          [] check = "inserted" -> ToSet(outcomes) = {"created"}
          [] check = "persistence" -> body = {workflow_payload}
          [] check = "creation" -> ToSet(Front(outcomes)) = {"created"}
          [] check = "idempotency" -> Last(outcomes) = "duplicate"
          [] check = "current" ->
                /\ 12 \in Values(body) /\ 10 \notin Values(body)
                /\ \E a \in body.assertions : a.content.evidence_span_id = 2
                /\ Cardinality(body.conflicts) = 1
                /\ body.bounded /\ Len(body.evidence) <= 3
          [] check = "historical" -> Values(body) = {10}
          [] check = "retrieval" -> 12 \in Rates(body) /\ 99 \notin Rates(body)

OwnRows ==
    {r \in Rows \cup workflow \cup sources \cup spans \cup embeddings : r.tenant_id \in Mine}

\* What cleanup() is to delete; an assertion counts by its key, since a late
\* correction may change it.
Holdings ==
    [rows |-> {r \in workflow \cup sources \cup spans \cup embeddings : r.tenant_id \in Mine},
     keys |-> {k \in AssertionKey : ledger[k] # None /\ ledger[k].tenant_id \in Mine}]

Init ==
    /\ ledger = [k \in AssertionKey |->
                    IF \E a \in others.assertions : KeyOf(a) = k
                    THEN CHOOSE a \in others.assertions : KeyOf(a) = k ELSE None]
    /\ workflow = others.workflow
    /\ sources = others.sources /\ spans = others.spans /\ embeddings = others.embeddings
    /\ step = 1 /\ answers = <<>> /\ stage = "calls" /\ verdict = None
    /\ abandoned = None /\ pending = FALSE
    /\ doomed = {} /\ kept = [rows |-> {}, keys |-> {}]

\* The finally clause.
Finish ==
    /\ stage' = "deletes"
    /\ step' = 1 /\ answers' = <<>>
    /\ kept' = Holdings'

\* post_expect_created and check() raise; the last call is followed by the report.
MakeCall ==
    /\ stage = "calls"
    /\ LET c == Script[step] IN
       /\ Execute(c)
       /\ \E answer \in Answers(c) :
             LET heard == Append(answers, answer) IN
             IF answer.outcome = "error" \/ ~Passes(c.check, heard)
             THEN verdict' = "FAIL" /\ Finish
             ELSE IF step = Len(Script)
             THEN verdict' = "PASS" /\ Finish
             ELSE /\ step' = step + 1
                  /\ answers' = IF c.check = None THEN heard ELSE <<>>
                  /\ UNCHANGED <<stage, verdict, kept>>
    /\ UNCHANGED <<abandoned, pending, doomed>>

\* The service fails, before or after its commit.
CallFails ==
    /\ stage = "calls"
    /\ Execute(Script[step]) \/ UNCHANGED tables
    /\ Finish
    /\ UNCHANGED <<verdict, abandoned, pending, doomed>>

TimeOut ==
    /\ stage = "calls"
    /\ abandoned' = Script[step]
    /\ pending' = TRUE
    /\ UNCHANGED tables
    /\ Finish
    /\ UNCHANGED <<verdict, doomed>>

\* A statement that meets a row cleanup() deleted, by its own key or through a
\* reference, waits for the end of that transaction.
Waits(c) ==
    \E r \in doomed :
        \/ c.op = "span" /\ (r = c.row \/ r = source_payload(c.row.source_id))
        \/ c.op = "embedding" /\ r = span_payload(c.row.span_id)
        \/ c.op = "assertion" /\ r \in Rows /\ KeyOf(r) \in {KeyOf(c.row), TargetOf(c.row)}

\* The abandoned request is executed after all, or lost.
ExecuteLate ==
    /\ pending /\ ~Waits(abandoned)
    /\ pending' = FALSE
    /\ Execute(abandoned) \/ UNCHANGED tables
    /\ UNCHANGED <<step, answers, stage, verdict, abandoned, doomed, kept>>

-----------------------------------------------------------------------------
\* cleanup(): five DELETEs and a commit.

\* Faulty variants of Deletions: what is referred to goes first; a table nothing
\* refers to is forgotten.
DeletionsParentsFirst == <<"workflow", "assertions", "sources", "spans", "embeddings">>

DeletionsForgetful == <<"workflow", "embeddings", "spans", "sources">>

Deletions == <<"workflow", "assertions", "embeddings", "spans", "sources">>

RowsOf(table) ==
    CASE table = "workflow" -> workflow
      [] table = "assertions" -> Rows
      [] table = "embeddings" -> embeddings
      [] table = "spans" -> spans
      [] table = "sources" -> sources

\* A faulty WHERE clause: none.
ToDeleteAll(table) == RowsOf(table)

ToDelete(table) == {r \in RowsOf(table) : r.tenant_id \in Mine}

SpansUnder(source) == {s \in spans : s.source_id = source.source_id}

EmbeddingsUnder(span) == {e \in embeddings : SpanKey(e) = SpanKey(span)}

\* The rows whose foreign key names row r.
Referring(table, r) ==
    CASE table = "sources" -> SpansUnder(r)
      [] table = "spans" -> EmbeddingsUnder(r)
      [] OTHER -> {}

Erase(rows) ==
    /\ ledger' = [k \in AssertionKey |-> IF ledger[k] \in rows THEN None ELSE ledger[k]]
    /\ workflow' = workflow \ rows
    /\ sources' = sources \ rows /\ spans' = spans \ rows
    /\ embeddings' = embeddings \ rows

RollBack ==
    /\ doomed' = {}
    /\ UNCHANGED tables

\* A faulty Delete: each statement commits on its own.
DeleteAutocommitted ==
    /\ stage = "deletes" /\ step <= Len(Deletions)
    /\ LET gone == ToDelete(Deletions[step]) IN
       IF \E r \in gone : Referring(Deletions[step], r) # {}
       THEN stage' = "refused" /\ UNCHANGED <<step, tables>>
       ELSE stage' = stage /\ step' = step + 1 /\ Erase(gone)
    /\ UNCHANGED <<answers, verdict, abandoned, pending, doomed, kept>>

\* A foreign key that would dangle makes the statement fail, and all is undone.
Delete ==
    /\ stage = "deletes" /\ step <= Len(Deletions)
    /\ LET gone == ToDelete(Deletions[step]) IN
       IF \E r \in gone : Referring(Deletions[step], r) \ doomed # {}
       THEN stage' = "refused" /\ step' = step /\ RollBack
       ELSE /\ stage' = stage /\ step' = step + 1
            /\ doomed' = doomed \cup gone
            /\ UNCHANGED tables
    /\ UNCHANGED <<answers, verdict, abandoned, pending, kept>>

Commit ==
    /\ stage = "deletes" /\ step > Len(Deletions)
    /\ stage' = "cleaned"
    /\ Erase(doomed)
    /\ doomed' = {}
    /\ UNCHANGED <<step, answers, verdict, abandoned, pending, kept>>

\* The script is killed, or its own connection fails in cleanup().
Die ==
    /\ stage \in {"calls", "deletes"}
    /\ stage' = "dead"
    /\ step' = 1 /\ answers' = <<>>
    /\ RollBack
    /\ UNCHANGED <<verdict, abandoned, pending, kept>>

\* Other tenants use the service meanwhile.
OtherClients ==
    /\ EvidenceNext
    /\ UNCHANGED <<ledger, workflow, script, doomed, kept>>

Next ==
    \/ MakeCall \/ CallFails \/ TimeOut \/ ExecuteLate
    \/ Delete \/ Commit \/ Die
    \/ OtherClients

Spec == Init /\ [][Next]_vars

-----------------------------------------------------------------------------

\* No check of the script ever fails, whatever other tenants have stored and
\* store meanwhile: a run ends with its report or because a call failed.
ChecksPass == verdict # "FAIL"

\* A cleanup that committed has deleted all rows of the run but the one an
\* abandoned request wrote too late for its DELETE.
LeftoverIsLate ==
    stage = "cleaned" =>
        OwnRows \subseteq IF abandoned = None THEN {} ELSE {abandoned.row}

\* The foreign keys let the cleanup through, unless the abandoned request stored
\* a span or an embedding between two of its statements.
RefusedOnlyByLate ==
    stage = "refused" =>
        /\ abandoned # None /\ ~pending
        /\ abandoned.row \in spans \cup embeddings

\* A cleanup that did not commit has deleted nothing.
CleanupIsAtomic ==
    stage \in {"deletes", "refused", "dead"} =>
        kept.rows \subseteq Holdings.rows /\ kept.keys \subseteq Holdings.keys

\* No step removes or changes a row of another tenant, or adds one that its own
\* client did not post.
OthersLeftAlone ==
    LET theirs == {r \in Rows \cup workflow \cup sources \cup spans \cup embeddings :
                      r.tenant_id \notin Mine}
    IN  /\ theirs \subseteq theirs'
        /\ theirs' \ theirs \subseteq Envelopes \cup Spans \cup Embeddings

OthersUntouched == [][OthersLeftAlone]_vars
=============================================================================

# TLA+ specifications of dd_context_engine

This directory models the durable core of the context engine, checks it with
TLC on small instances, and proves all of its safety properties with
TLAPS for instances of any size. Paths below are relative to
the repository; `dd/` abbreviates `src/dd_context_engine/`.

## 1. The system

The engine is a FastAPI service (two replicas, `deploy/k8s.yaml`) over one
PostgreSQL database, with an optional Neo4j projection. It keeps no state in
memory: everything that lasts is a row, and every endpoint is one or several
short transactions.

| Component | State | Operations | Talks to |
|---|---|---|---|
| Assertion repository, `dd/storage/postgres.py:85-185` | `commercial_assertion` | `put` (insert, then supersede), `find` (as-of query) | called by the API and the compiler |
| Evidence repository, `dd/storage/postgres.py:24-82`, `dd/retrieval/postgres.py:286-302` | `source_record`, `evidence_span`, `evidence_embedding` | `put_envelope`, `put_span`, `put_embedding`, `get_for_sources` | called by the API, email ingestion, the compiler |
| Email ingestion, `dd/ingestion/email.py` | none of its own | `ingest`: parse, store envelope, store body span | two calls to the evidence repository, two transactions |
| Context compiler, `dd/context/compiler.py` | none; local lists during `build` | `build`, `_relevant_to_context`, `_conflicts` | reads workflow, assertions, evidence, retrieval, graph, in this order |
| Hybrid retrieval, `dd/retrieval/hybrid.py` | none | `search`: lexical, semantic, fuse | called by the compiler; two reads of the retrieval repository |
| Retrieval repository, `dd/retrieval/postgres.py:231-364` | reads the evidence tables | `lexical_search`, `semantic_search` | called by the compiler and hybrid retrieval |
| Workflow state, `dd/storage/postgres.py:188-236`, `dd/api/app.py:144-188` | `workflow_state` | `get`, `put` (unconditional upsert) | external workers; read first by `build` |
| Graph repository, `dd/graph/neo4j_repo.py` | read-only projection | `related`: paths of up to three relationships | called last by `build` |
| API, `dd/api/app.py` | none | one endpoint per operation above | |
| Migrations, `alembic/` | the schema, `alembic_version` | `upgrade`, `downgrade` to any revision | run by operators against the database |
| Validation script, `scripts/realworld_validation.py` | two tenants of its own | the scenario, its checks, `cleanup` | the API as a client; the database directly for `cleanup` |
| Settings, pool, outbox table, older repository copies | | | not modelled, see section 8 |

What is hard here: two API workers inside `put` at once, each with an insert
and an update in one transaction; the supersession of an assertion that is not
committed yet; `ingest` dying between its two transactions and being called
again; a `build` of six reads whose tables change in between; the boundaries
of half-open validity intervals; checkpoints that arrive late or from two
workers; paths of the graph through another tenant; alembic commands that meet;
requests that are executed after their client gave up. The list of
hazards, each with its source line and the properties that would notice, is in
`PROJECT.json`.

What makes each part correct, in one line each:

* assertions: recorded once, superseded atomically, history only ever closed,
  as-of answers independent of the order in which corrections arrived;
* evidence: stored once, never replaced, complete after a repeated delivery;
* bundles: one tenant only, bounded, nothing missing that had room, conflicts
  are exactly disagreements that share an instant;
* fusion: respects both rankings, prefers what both found, loses nothing;
* graph: the nearest entities first, no node of another tenant on any path;
* workflow: an acknowledged checkpoint stays, a restart repeats one step at most;
* migrations: the schema is that of its revision, whatever fails or runs at once;
* validation script: true checks, and a cleanup that is complete, atomic and its own.

## 2. Modules

| Module | What it is | Code |
|---|---|---|
| `Assertions` | records, the validator, the SQL expressions on one row (`Supersede`, `ClosedAt`, `ValidAt`) | `dd/domain/schemas.py`, `dd/storage/models.py`, `dd/storage/postgres.py:102-155` |
| `AssertionLedger` | abstract specification: one atomic step per recorded assertion | the contract of `put` |
| `AssertionStore` | `put` statement by statement, several workers, row locks, aborts, lost acknowledgements | `dd/storage/postgres.py:86-130` |
| `EvidenceStore` | the evidence tables and their three writers | `put_envelope`, `put_span`, `put_embedding` |
| `EmailIngestion` | `ingest` as a process over `EvidenceStore` (EXTENDS it) | `dd/ingestion/email.py:76-136` |
| `Fusion` | the pure part of hybrid retrieval: ranks, scores, order | `dd/retrieval/hybrid.py:40-79` |
| `RelationshipGraph` | the pure graph query: trails, tenant filter, cut | `dd/graph/neo4j_repo.py:20-61` |
| `ContextCompiler` | the pure part of `build` (EXTENDS the three pure modules): queries, interval tests, conflicts, merge | `dd/context/compiler.py`, `find`, `get_for_sources`, `lexical_search`, `semantic_search` |
| `ContextAssembly` | `build` as a process of reads over `EvidenceStore` (EXTENDS) and `AssertionLedger` (INSTANCE), which clients write meanwhile | `dd/context/compiler.py:54-178` |
| `HybridRetrieval` | the two searches and the fusion by themselves, on long rankings | `dd/retrieval/hybrid.py:26-86` |
| `WorkflowStore` | the workflow endpoints under external workers | `dd/api/app.py:144-188`, `dd/storage/postgres.py:188-236` |
| `ValidationScript` | the script as a client of the composed pure modules and `EvidenceStore` | `scripts/realworld_validation.py` |
| `Migrations` | the migrations and concurrent alembic commands | `alembic/versions`, `alembic/env.py` |
| `ContextCompilerProofs` | lemmas about `Fusion`, `RelationshipGraph` and `ContextCompiler`: scores and the fused answer, cut lists, the merge, trails, and that a read sees its own tenant only; used by the proofs of `ContextAssembly`, `HybridRetrieval` and `ValidationScript` | |
| `AssertionStoreProofs`, `EmailIngestionProofs`, `ContextAssemblyProofs`, `HybridRetrievalProofs`, `WorkflowStoreProofs`, `ValidationScriptProofs`, `MigrationsProofs` | theorems about the module of that name, see section 6 | |
| `MC*` | values of the constants for TLC | |

`ContextAssembly` lets assertions change by `AssertionLedger` steps.
That is justified by `AssertionStore`'s refinement of the ledger, which is both
checked and proved. Operators whose comment calls them *faulty* are variants of
the definition that follows them, with a plausible mistake; no specification uses them. Each
property was tried against one of them (`PROJECT.json`, `mutants`) and fails.

### How state and actions correspond to the code

**AssertionStore.** `table` is the committed table by `(tenant_id,
assertion_id)`, the key of `uq_assertion_tenant_id`. `writes[w]` holds the row
versions of worker `w`'s open transaction; holding a version *is* holding the
row lock. `Begin` is the call and `session.begin()`. `InsertRow` /
`InsertConflict` are the `INSERT ... ON CONFLICT DO NOTHING` with its two
outcomes; both wait while another transaction has an uncommitted version of the
key, as PostgreSQL does. `UpdateTarget` / `UpdateNothing` are the superseding
`UPDATE`: it sees committed rows and its own, waits for a visible row that
another transaction has changed (and then re-reads it, READ COMMITTED), and
passes over a row that is not visible; the row count is not looked at.
`Commit` may be answered `created` or not be heard (`error`). `Abort` is a
death or a lost connection at any point before. `known` and `accepted` are
history variables for the properties.

**EvidenceStore / EmailIngestion.** The three writers are single statements in
transactions of their own, so each is one step; the outcome operators follow
the unique constraints (`uq_source_tenant_id` is the conflict target,
`uq_source_id` is not and raises), the foreign key of a span (source id
without tenant) and that of an embedding (tenant and span). `SourceId` joins
tenant and message id with a colon as the code does before hashing; uuid5 is
taken to be injective, the join is not. `Receive` is parsing,
with both rejections before anything is stored. `StoreEnvelope` and `StoreSpan`
are the two transactions, between which `Crash` may come.

**RelationshipGraph.** A graph is a set of nodes (their properties) and of
relationships (an id and two ends). `Trails` are the matches of `-[*1..3]-`: no
relationship twice, nodes perhaps. `Related` keeps the paths whose nodes all
carry the tenant and cuts them by length and the last node's `entity_id`; paths
that compare equal at the cut may be kept or not.

**ContextAssembly.** `stage` is the read that `build` makes next:
workflow, assertions, source evidence, lexical, semantic, relationships.
Between any two of them clients may record assertions, spans and embeddings
(`RecordAssertion`, `RecordEvidence`). SQL ordering is modelled by all orderings
that `ORDER BY` allows. The full-text search returns any ranking of any of the
tenant's spans; the vector search any ranking of all the embeddings of the
tenant and model (`Embedded`), and raises when one of them has another length
(`Comparable`, `Raise`). `began` is a history variable. With a query embedding both are asked for candidates
and fused by `Fusion`, without one the lexical hits are the retrieved evidence.
A row that fails validation in `find` raises too; a read that fails for outer
reasons ends the build (`ReadFails`). The settings come with each request, since
two replicas may differ, and are any integers, as in `dd/config.py:10-12`.
Where they leave no room, a read raises: `find` and `get_for_sources` on a
negative LIMIT (`FindRefused`, `SourcesRefused`), the searches and the graph on a
limit below 1 (`SearchRefused`, `GraphRefused`). So with
`max_context_evidence = 0` every build raises that searches for words or with a
vector, or asks the graph; only a blank task without a vector and without a graph
gets an answer. `BundleOf` is the answer that `Assemble` puts together,
with what it says of its own size (`Bounded`). `graph` in the bundle is a history
record of what was traversed.

**HybridRetrieval.** Scores are exact fractions. `CandidateLimit` is
`max(limit * 3, 10)`; no caller passes another one. A limit below 1 is an error
(`Refuse`).

**WorkflowStore.** One row per case; `puts` are the PUTs the replicas have yet
to execute; a worker has a case (`case_of`), which others may share. `HandlePut`
is the whole handler, check, upsert and response;
`Respond` covers the response that does not arrive. `Get` is the caller's use
of the GET endpoint. The caller's other actions (`PerformStep`, `Send`,
`TimeOut`, `Crash`) have no code in the repository and are marked external: it is the usage the endpoints are made for, load, do a step,
checkpoint, and reload after a failure. `completed_steps` stands for all the
columns one checkpoint carries.

**ValidationScript.** `Script` is the list of calls of `main` with the check
that follows each; `MakeCall` executes one, hears one of the answers the service
may give and applies the check (`Passes`). `CallFails` is an answer of 5xx or a
lost connection, before or after the commit; `TimeOut` a call that httpx gives
up, which only a remote service (`DD_BASE_URL`) can cause: the request may be
executed later (`ExecuteLate`). Each of these leads to the `finally` clause.
`Delete` is one DELETE of `cleanup`, invisible to others until `Commit`; `kept` is a history variable; a late
request that meets a deleted row waits for that (`Waits`). The reads of a
compile are one step, since nobody writes to the script's tenants meanwhile
(`BundleFrom`); they raise when the settings leave them no room (`CompileRaises`). The
lexical search finds nothing here, because `websearch_to_tsquery` wants all
the words of a task in one text, "what" and "which" included; the order by cosine
distance is computed from the script's vectors.

**Migrations.** `schema` and `revision` are what is committed. A command reads
the revision when it starts (`Start`) and goes from there to its target, one
migration after the other: `at` is the revision it has reached, `next` the place
in the migration it is in (0 while alembic's own table is still to be made), which
give its next statement (`NextStatement`). It executes one per step (`Migrate`;
`UpdateVersion` between two migrations) inside its transaction (`made`,
`dropped`, `stamped`), and commits or is aborted. A statement needs what it refers to and
fails otherwise (`Applicable`, `Fail`); it waits for commands that touched the
same tables (`Locks`, `Waits`); the change of `alembic_version` fails when the
revision is no longer the one the command started from. Two commands may wait
for each other, which PostgreSQL ends (`Abort`).

## 3. Runs

| Run (cfg) | Question | Result | States |
|---|---|---|---|
| `AssertionStoreSafety` | safety, refinement and termination of `put` under concurrency | holds | 86,726 |
| `AssertionStoreLostSupersession` | is the target of a committed correction superseded? | violated | |
| `AssertionStorePoisonRow` | can stored rows be read back? | violated | |
| `EmailIngestion` | is evidence kept, complete and in its own tenant, and a half-stored mail completed? | holds | |
| `ContextAssemblySafety` | isolation, bounds, completeness, failures, graph paths and conflicts of bundles | holds | 283,796 |
| `ContextAssemblySuperseded` | is the present free of superseded assertions? | violated | |
| `HybridRetrieval` | order, agreement and completeness of fusion | holds | |
| `WorkflowStoreSafety` | durability and progress of checkpoints, also of workers that share a case | holds | 570,524 |
| `WorkflowStoreOvertaking` | the same when PUTs may overtake | violated | |
| `ValidationScript` | do the script's checks hold, and does its cleanup work? | holds | 3,732 |
| `Migrations` | do schema and revision stay together, and what can fail? | holds | 51,228 |
| `MigrationsDowngrade` | does every command succeed that nobody disturbs? | violated | |

The runs marked violated state what a document, a test or the code of the repository
itself says of it elsewhere; section 5 tells what they show.

### Bounds, and why they are enough

* **AssertionStore**: two workers, two tenants, three ids, instants 1..4, six
  requests. Two transactions are enough for every conflict on a row, because a
  transaction waits for at most one other; three ids give a target, two rival
  corrections and a correction of a correction. The requests include three
  claims to one id, two assertions that name each other, corrections from a
  later and an earlier day, and a tenant that uses the same ids. The number of
  calls is not bounded. The run has a liveness property and so no symmetry. For
  any number of workers the theorems of section 6 cover the safety properties.
* **EmailIngestion**: two workers, five mails, at most `MaxCrashes` = 2 deaths.
  The mails are two copies of one
  message, one message of another tenant with the same joined id, one without a body and
  one without an id. Two workers meet between any pair of transactions.
* **ContextAssembly**: one build at a time (builds only read, so they do not
  affect each other), instants 1..3, five assertions, of which one empties an
  interval, three spans, three embeddings, of which two have the wrong length
  and one of those belongs to the other tenant, limits of 1, 2 and 3, which the
  data can reach and also leave room in, and six requests under settings of 0 and
  -1, one for each read that may refuse them and one that none does. The graph has seven nodes: one
  three relationships away, two parallel relationships, so that the limit of 4
  paths is reached, and one entity only reachable through another tenant's.
* **HybridRetrieval**: every pair of rankings of up to three spans, and pairs
  of rankings of length 80, under limits of 0, 2 and 8, in which two spans stand at the first and last
  candidate places, beyond them and in the middle. The longer ones matter for
  `AgreementWins`, which depends on the number of candidates (24 for a limit
  of 8, well below `rrf_k + 1` = 61); with the settings' bound raised above 20
  it would no longer be guaranteed.
* **WorkflowStore**: two tenants with a case of the same name, three steps; one
  case has a worker of its own, the other is shared by two. The failures allowed
  are 2 for one of those, none for its rival and 1 for the third, since failures
  of both multiply the states and add no new kind of interleaving: the rival's
  PUTs are late or early with respect to all of them anyway.
* **ValidationScript**: one run, all its calls, at most one abandoned (the first
  one that times out ends the run). Beside it a tenant with an assertion on the
  same vendor and an embedding as near as the best, which goes on storing evidence. The
  settings are the defaults; the theorem covers all that leave room.
* **Migrations**: two operators, every target from base to head, any number of
  commands. Two are enough for each pair of commands that meet; a third could
  only wait or fail like the second. The theorems cover any number.

### Deadlock

Checked in all passing runs except `HybridRetrieval`, whose process ends with
its answer, and `ValidationScript`, which ends with its cleanup. (The worker of
`WorkflowStoreOvertaking` ends, too.)

## 4. Fairness

* `AssertionStore`: strong fairness of the two statements, weak fairness of
  `COMMIT`. PostgreSQL queues transactions that wait for a row and wakes them
  in order, so a statement that can run again and again does run; a commit
  waits for nothing. Aborts and new calls are not required to happen. The safety
  properties, checked in the same run, do not depend on it.
* `EmailIngestion`: a live worker goes on, and a mail whose `ingest` has not returned
  is delivered again. The second half is a duty of the callers: the
  repository has no redelivery of its own, and the repair property is about
  what a redelivery achieves, not that there is one.
* `WorkflowStore`: replicas execute what they accepted (unless they die, which
  the failure bound limits), workers go on, give up waiting and are restarted.
* The other modules have safety properties only.

## 5. What the runs show

The violated ones:

1. **A supersession can be lost for good** (`SupersededTargetMarked`). If the
   correction's transaction runs before its target is committed, the `UPDATE`
   of `dd/storage/postgres.py:120` matches nothing; the target stays
   active for ever, and a repeated call answers `created: false` without
   trying again. `KnownTargetIsSuperseded`, which holds, is the exact condition
   under which this cannot happen.
2. **A correction can make an entity unreadable** (`StoredIntervalsValid`). A
   correction that starts on or before the day its target starts leaves
   `valid_to <= valid_from`. The row was not validated when written but is when
   `find` reads it, so `find` without `at_time` raises for that entity.
3. **Superseded assertions can be current** (`CurrentHasNoSuperseded`): an
   undated correction leaves the interval open and the status test of
   `dd/context/compiler.py:188` cannot be reached.
4. **A late PUT takes a checkpoint back** (`CheckpointsDurable` with
   `Overtaking = TRUE`): the upsert compares nothing. With callers that never
   have two PUTs under way the property holds, which promises a worker alone on
   its case every acknowledged checkpoint (`OwnCheckpointKept`), but workers that
   share a case only that one of them finds its own, and only while none of them
   has failed (`OneCheckpointKept`). With failures not even that: of two rivals
   with four steps one stores 3, dies, loads the 1 that the other's
   slow PUT has stored since, and its PUT of 2 comes after the other's 3 and is
   not answered; 2 is stored and both were told 3. Their case still ends.
5. **No database gets back to base** (`UndisturbedNeverRefused`). The downgrade of
   0001 drops `ix_source_record_tenant_id`, which `dd/storage/models.py:40-43`
   declares and no migration creates. The DROP fails and the whole command is
   undone, the downgrades of 0003 and 0002 that preceded it as well. Nothing else
   fails undisturbed: `RefusedOnlyAtMissingIndex`, which holds, says so.

What holds but may surprise:

* **Offsets of retrieved spans are made up** (`RetrievedSpan`): the repository's
  README promises exact evidence spans, but a span that only retrieval found is
  shown with `0..len(text)`. Where its source is cited as well, the stored
  offsets win, which `NoEvidenceLeftOut` shows of bundles with room left.
* **A mixed-length embedding stops semantic builds of its tenant** until it is
  deleted; `RaisedOnOwnData` shows that it does not stop anybody else's.
* **An abandoned request of the validation script** may be executed after the
  DELETE of its table, and then stays, or between two DELETEs, and then the
  foreign key makes the cleanup fail as a whole (`LeftoverIsLate`,
  `RefusedOnlyByLate`: nothing else does either).
* **Settings of 0 stop the engine rather than empty its bundles**: with
  `max_context_evidence = 0`, which `dd/config.py:11` accepts, each search and graph read
  raises `ValueError` (`dd/retrieval/hybrid.py:37`, `dd/retrieval/postgres.py:243`,
  `dd/graph/neo4j_repo.py:29`), so nearly every build fails. `max_context_assertions = 0`
  gives bundles without assertions. `RaisedOnOwnData` counts such settings
  among the causes of an error, and no data of others.
* **The validation script fails on tight settings**: with `max_context_assertions = 1` a
  bundle cannot hold both sides of the conflict its checks look for, with
  `max_context_evidence = 0` its first compile raises. With more room they
  pass whatever others store (`ChecksAlwaysPass`).
* Two different copies of one mail that are ingested at once may leave the
  envelope of one with the body of the other: the ids of both rows come from the
  message id, and for each row the first write wins.

## 6. Proofs

All theorems hold for any values of the constants that satisfy the named
assumptions; none bounds the numbers of workers, calls, rows, steps or commands.
The proofs of a module are in the module `...Proofs`; those about `Fusion` are in
`ContextCompilerProofs`. `Spec` is always the
specification that the runs check, without its fairness.

| Module | Theorem | Statement |
|---|---|---|
| `AssertionStore` | `TypeCorrect` | `Spec => []TypeOK` |
| | `LocksHold` | `Spec => []RowLocksHold` |
| | `LedgerImplemented` | `Spec => ImplementsLedger` |
| | `AsOfQueriesCorrect` | `Spec => []AsOfCorrect` |
| | `SupersessionIsAtomic` | `Spec => []SupersessionAtomic` |
| | `OneCallWins` | `Spec => []OneCallPerKey` |
| | `HistoryIsNeverRewritten` | `Spec => HistoryNeverRewritten` |
| | `AnswersCanBeTrusted` | `Spec => []AnswersAreTrue` |
| | `KnownTargetsAreSuperseded` | `Spec => []KnownTargetIsSuperseded` |
| `EmailIngestion` | `TypeCorrect` | `Spec => []TypeOK` |
| | `ReturnedMailsAreStored` | `Spec => []ReturnedIsStored` |
| | `BodiesHaveOwnEnvelope` | `Spec => []BodyUnderOwnEnvelope` |
| | `EvidenceIsPreserved` | `Spec => EvidencePreserved` |
| `ContextAssembly` | `TypeCorrect` | `Spec => []TypeOK` |
| | `TenantsAreApart` | `Spec => []TenantIsolation` |
| | `BundlesAreBounded` | `Spec => []BundleBounded` |
| | `AssertionsAreComplete` | `Spec => []NothingValidLeftOut` |
| | `SourcesAreComplete` | `Spec => []NoEvidenceLeftOut` |
| | `EmbeddedAreComplete` | `Spec => []NoEmbeddedLeftOut` |
| | `OthersDoNotRaise` | `Spec => []RaisedOnOwnData` |
| | `RelatedAreNearest` | `Spec => []NearestRelated` |
| | `ConflictsAreRight` | `Spec => []ConflictsAreDisagreements` |
| `Fusion` | `FuseOrders` | `Fuse` returns the hits of both rankings, each once, by falling score |
| `ContextCompiler` | `ReadsAreOwn` | each read of a build gives what it would give on the tenant's own rows, nodes and relationships |
| `HybridRetrieval` | `DominantHitsFirst` | `Spec => []DominantFirst` |
| | `AgreementAlwaysWins` | `Spec => []AgreementWins`, with at most `rrf_k + 1` candidates |
| | `AnswersAreFull` | `Spec => []AnswerFull` |
| `WorkflowStore` | `TypeCorrect` | `Spec => []TypeOK` |
| | `CasesAreApart` | `Spec => CasesApart` |
| | `CheckpointsAreDurable` | `Spec => []CheckpointsDurable`, without overtaking |
| | `RestartsRepeatLittle` | `Spec => []RestartRepeatsLittle`, without overtaking |
| `ValidationScript` | `CleanupsAreAtomic` | `Spec => []CleanupIsAtomic` |
| | `LeftoversAreLate` | `Spec => []LeftoverIsLate` |
| | `RefusalsAreLate` | `Spec => []RefusedOnlyByLate` |
| | `OthersAreLeftAlone` | `Spec => OthersUntouched` |
| | `ChecksAlwaysPass` | `Spec => []ChecksPass`, with room for two assertions and one piece of evidence |
| `Migrations` | `SchemaAsRevision` | `Spec => []SchemaMatchesRevision` |
| | `RefusedAtMissingIndex` | `Spec => []RefusedOnlyAtMissingIndex` |

### The assumptions

* `AssertionStore`: instants are integers, `None` is no record, and what
  clients submit has passed the validator (`RequestsAssumption`), as FastAPI sees to.
* `EmailIngestion`: the mails are well typed, and a span that a client posts
  does not have the id of the body span of a mail (`BodySpanIdsAssumption`: a
  uuid5 of the ingestion's own namespace). The API does not enforce the latter; a client
  that computed such an id itself could store another text under it first.
* `ContextAssembly`: requests, builds and spans are of their types (instants
  are integers, spans have passed the validator, the settings of a build are any
  integers, those that leave no room included), graphs are finite, and the rows that are there
  at first satisfy the unique and the foreign keys.
* `HybridRetrieval`: a ranking names no span twice, as both searches return rows
  of one table by primary key. `AgreementAlwaysWins` in addition has at most
  `rrf_k + 1` candidates as a hypothesis; `CandidateLimit` of the default settings' limit, 8, is 24.
* `WorkflowStore`: each worker has one case, and a body sent to the wrong path comes from somebody
  else (`MisaddressedAssumption`). `~Overtaking` is a hypothesis of
  two theorems; without it `CheckpointsDurable` is violated (section 5, item 4).
* `ContextCompiler`, `Fusion`: none but types, and that a graph is finite.
* `ValidationScript`: the run's two tenants differ, other tenants and their sources have
  other ids than the run's (all are `uuid4`s), the settings and the scenario's assertions are
  well typed, and `None` is no call, check, verdict or entity. `ChecksAlwaysPass` has a hypothesis,
  `SettingsLeaveRoom`: `max_context_assertions` is at least 2 and
  `max_context_evidence` at least 1 (the defaults are 20 and 8). With less
  `ChecksPass` is violated (section 5).
* `Migrations`: none.

### The arguments

**AssertionStore** is a ladder of inductive invariants, each of which includes
the one before:

* `TypeInv`: `TypeOK`, and a busy worker has a request.
* `LockInv`: `TypeInv` and `RowLocksHold`. The latter had to say more than that
  locks exclude each other: it pins down which versions a call may hold
  at each point (`OwnVersions`): its own row, and its target *as currently
  committed*, closed. This is what makes a commit predictable: `CommitEffect`
  derives from it that a commit adds one row and possibly closes one other,
  which is a step of the ledger (`LedgerImplemented`).
* `HistoryInv`: `LockInv`, every accepted call is in the table, and
  `AsOfCorrect`, `SupersessionAtomic` and `OneCallPerKey` together. They need
  each other: the interval of a row after a commit follows from the calls that
  closed it before (`CommitRow`), which requires one call per key.
* `CallInv`: `HistoryInv`, and of each worker what it may answer and what it
  still knows of its target.

Only `Commit` changes `table` and `accepted` (`TableChanges`), so the
later invariants have one interesting case.

**EmailIngestion** (`EmailInv`). `ReturnedIsStored` is not inductive: a worker
between the two transactions must be known to have found or made the envelope of
its *own* tenant. `WorkersOnCourse` says so. That the span then stored belongs under
that envelope and not under one with the same joined id needs that ids of
body spans tell the mails apart (`BodyIdsTell`) and that no key of the tables is used twice (`KeysUnique`).

**ContextAssembly** (`AssemblyInv`). While a build reads, the tables grow, so
the invariant says of each read what remains true of its result: what there was when
the build began is still there (`RequestInv`), what a read returned is in the
tables, within its limit, and misses nothing that there was unless it is full (`ReadsInv`). The bundle's
properties (`BundleInv`) follow at the last read from lemmas on the merge
of the evidence, on fusion, on trails and their cut, and on intervals: that two overlap
exactly if they have an instant in common.

**Fusion, HybridRetrieval.** The place of a hit in the answer is the number of hits
that come before it; from that, `FuseOrders` shows that the answer is a permutation
ordered by score without an induction over the sort. `DominantFirst` and
`AgreementWins` are then arithmetic on the scores:
ranks `a, b` up to `k + 1` give `1/(k+a) + 1/(k+b) > 1/(k+1)`.

**ContextCompiler.** `ReadsAreOwn` compares two databases: the one there is, and the one
that holds of each table the asking tenant's rows only (`Own`, `OwnGraph`). Each query
tests the tenant before it orders and cuts, so no row of others takes a place within a limit or
makes the search fail on its length. For the graph, a trail all of whose nodes carry the tenant has only
relationships between such nodes and is a trail of the own part; the paths through others,
which Neo4j does walk, are gone before the cut.

**WorkflowStore** (`SettledInv`). Without overtaking a worker has at most one PUT
under way (`OnePut`), what a case with one worker has stored is at most one
PUT behind what the worker holds (`StoredIsRecent`), and every step
performed is stored, in hand or counted as a failure (`StepsCounted`). For shared cases `NoStepBack`:
a worker that has not failed never sends less than it was told.

**ValidationScript** (`RunInv`). What the DELETEs have passed is doomed: of the
rows of the run's tenants there is nothing left in the tables already deleted
except the row of the request that was executed late (`DoomedInv`). No span of another tenant
hangs on a source of the run (`SourcesInv`), so the order of the DELETEs is that of the foreign keys.

That its checks pass (`ScenarioInv`, with `RunInv`) needs the whole content of the run's
tenants: before call `n` the tables hold of their rows exactly what the calls before `n` stored
(`Loaded`), and what was heard since the last check is what that check will
ask for (`HeardAt`). Each call that stores leads from `Loaded(n)` to
`Loaded(n + 1)`, whatever others store meanwhile. A call that reads has, by the argument of
`ReadsAreOwn`, only these rows to answer from: at most three assertions, of which the intervals decide,
and six embeddings, of which the amendment's is the nearest to the question
and therefore first among the fused hits, in every order that the database may choose.

**Migrations** (`MigrationsInv`). Of each command (`CommandInv`), what its transaction sees is
the schema of the revision it has reached plus or minus what the current
migration has executed (`Upgrading`, `Downgrading`), and once it has
stamped, nobody else can have and the committed revision is still the one it started from (`Stamped`). The lock on
`alembic_version` and the counted rows of its UPDATE are what makes this inductive; a
command that is not yet stamped may be overtaken, and then its stamp fails.

`RefusedOnlyAtMissingIndex` is a statement about every statement of the three migrations, and rests
on two parts. The first is about the lists of statements alone: each object an
upgrade makes is new where it is made and what it refers to is there (`UpgradeSound`);
a downgrade goes through the objects of the upgrade backwards, so each is there
and nothing left refers to it, up to the index of 0001 that does not exist (`DowngradesMirror`,
`DowngradeSound`). The second is `SightInv`: `MigrationsInv`, and a command sees the
schema it found, changed only by the statements it has executed (`Sight`). Other
commands that commit in between may add or remove objects; but what no downgrade
removes (`Kept`) stays. If at its failure the command finds what it found at its start,
it sees exactly the schema its statements built, and there the first part applies.

### Model-checked only

Every invariant and every action property that a passing run checks is a theorem. Liveness
(`PutReturns`, `HalfStoredIsRepaired`, `CaseCompletes`) is not: it needs fairness and
ENABLED, out of the prover's reach. What the violated runs show is TLC's alone, too.

## 7. Plan

Done:

1. `Assertions`, `AssertionLedger`, `AssertionStore`: the core, checked and proved.
2. `EvidenceStore`, `EmailIngestion`.
3. `ContextCompiler`, `ContextAssembly`, composed with `Fusion`,
   `RelationshipGraph` and `EvidenceStore`.
4. `HybridRetrieval`.
5. `WorkflowStore`, also for workers that share a case.
6. Proofs of every safety property of `AssertionStore`.
7. `ValidationScript`, `Migrations`.
8. Proofs of the safety properties of the other modules.
9. `ReadsAreOwn`: what a build reads depends only on the rows of its tenant.

Left: the liveness properties stay with TLC. A model of full-text matching would let the
completeness of a bundle be stated for lexical hits too; it needs PostgreSQL's
dictionaries, which are not in the repository.

## 8. Not modelled

* **Full-text matching and rank** (`@@`, `ts_rank_cd`): any spans of the tenant in
  any order may come out. The cosine order is computed in `ValidationScript` and
  arbitrary elsewhere.
* **Whether Neo4j accepts the query**: its `ORDER BY` names `p` and `n` after
  `RETURN DISTINCT`, which some versions refuse; modelled as it is meant.
* **Offline migrations** (`alembic/env.py:15-22`): they only print SQL.
* **Connection pool and settings** (`dd/storage/db.py`, `dd/config.py`):
  library code; no handler holds two connections, so the pool delays and never
  blocks for good. The settings that bound a build are in the models.
* **Outbox table**: nothing reads or writes it.
* **Older repository copies** in `dd/retrieval/postgres.py:27-228`: not
  imported by anything. Their status-only `UPDATE` is the faulty variant
  `ClosedAtNever`, which breaks `AsOfCorrect`.
* **API start-up, health and shutdown**, the latency statistics and the report
  file of the validation script: no state of the core.

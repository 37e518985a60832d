----------------------------- MODULE Migrations -----------------------------
(***************************************************************************)
(* The migrations of alembic/versions and the alembic commands that apply  *)
(* them, each in one transaction (alembic/env.py).  Commands of several    *)
(* operators may run at once; PostgreSQL lets a statement wait for those   *)
(* that touched the same table.  Revision 0 is a database before the first *)
(* upgrade.  Columns a table is created with are not told from the table.  *)
(***************************************************************************)
EXTENDS Naturals, SequencesExt

CONSTANTS Operators, None

VARIABLES
    schema, revision,   \* what is committed: the objects, the row of alembic_version
    command,            \* the command each operator runs, or None
    refusal             \* history: how the last command that failed by itself did

vars == <<schema, revision, command, refusal>>

-----------------------------------------------------------------------------
\* The migrations.

\* An object, the table it belongs to, and the objects its definition names.
Object(kind, name, on, refs) == [kind |-> kind, name |-> name, on |-> on, refs |-> refs]

Table(name, refs) == Object("table", name, name, refs)

Index(name, table) == Object("index", name, table, {table})

Statement(does, object) == [does |-> does, object |-> object]

Create(object) == Statement("create", object)

CreateIfMissing(object) == Statement("create if missing", object)

Drop(object) == Statement("drop", object)

Indexes(does, names, table) == [i \in DOMAIN names |-> Statement(does, Index(names[i], table))]

source_record == Table("source_record", {})
evidence_span == Table("evidence_span", {"source_record"})
span_indexes == <<"ix_evidence_span_tenant_id", "ix_evidence_span_source_id">>
commercial_assertion == Table("commercial_assertion", {})
assertion_indexes ==
    <<"ix_assertion_tenant_id", "ix_assertion_entity_id", "ix_assertion_entity_attribute",
      "ix_assertion_recorded_at", "ix_assertion_valid_from", "ix_assertion_valid_to",
      "ix_assertion_status">>
workflow_state == Table("workflow_state", {})
ix_workflow_tenant_id == Index("ix_workflow_tenant_id", "workflow_state")
outbox_event == Table("outbox_event", {})
ix_outbox_tenant_id == Index("ix_outbox_tenant_id", "outbox_event")
ix_source_record_tenant_id == Index("ix_source_record_tenant_id", "source_record")

search_vector == Object("column", "search_vector", "evidence_span", {"evidence_span"})
ix_evidence_span_search_vector ==
    Object("index", "ix_evidence_span_search_vector", "evidence_span", {"search_vector"})

vector == Object("extension", "vector", "vector", {})
evidence_embedding == Table("evidence_embedding", {"evidence_span", "vector"})
ix_embedding_tenant_model == Index("ix_embedding_tenant_model", "evidence_embedding")

upgrade_initial ==
    <<Create(source_record), Create(evidence_span)>>
    \o Indexes("create", span_indexes, "evidence_span")
    \o <<Create(commercial_assertion)>>
    \o Indexes("create", assertion_indexes, "commercial_assertion")
    \o <<Create(workflow_state), Create(ix_workflow_tenant_id),
         Create(outbox_event), Create(ix_outbox_tenant_id)>>

downgrade_initial ==
    <<Drop(ix_outbox_tenant_id), Drop(outbox_event),
      Drop(ix_workflow_tenant_id), Drop(workflow_state)>>
    \o Indexes("drop", Reverse(assertion_indexes), "commercial_assertion")
    \o <<Drop(commercial_assertion)>>
    \o Indexes("drop", Reverse(span_indexes), "evidence_span")
    \o <<Drop(evidence_span), Drop(ix_source_record_tenant_id), Drop(source_record)>>

upgrade_retrieval == <<Create(search_vector), Create(ix_evidence_span_search_vector)>>

downgrade_retrieval == <<Drop(ix_evidence_span_search_vector), Drop(search_vector)>>

\* A faulty variant: CREATE EXTENSION without IF NOT EXISTS.
upgrade_vector_unguarded ==
    <<Create(vector), Create(evidence_embedding), Create(ix_embedding_tenant_model)>>

upgrade_vector ==
    <<CreateIfMissing(vector), Create(evidence_embedding), Create(ix_embedding_tenant_model)>>

downgrade_vector == <<Drop(ix_embedding_tenant_model), Drop(evidence_embedding)>>

upgrades == <<upgrade_initial, upgrade_retrieval, upgrade_vector>>

downgrades == <<downgrade_initial, downgrade_retrieval, downgrade_vector>>

head == Len(upgrades)

-----------------------------------------------------------------------------
\* The commands.

alembic_version == Table("alembic_version", {})

\* The change of the row of alembic_version that follows each migration.  The
\* first one is an INSERT and counts nothing, but a command that was overtaken
\* fails before it, at a table that is there already.
Stamp(from, to) == [does |-> "stamp", from |-> from, to |-> to]

\* The migration that a command is in, and the revision that it leads to.
Migration(c) == IF c.at < c.target THEN upgrades[c.at + 1] ELSE downgrades[c.at]

Following(c) == IF c.at < c.target THEN c.at + 1 ELSE c.at - 1

Finished(c) == c.next > 0 /\ c.at = c.target

\* alembic makes its own table first, if there was none when the command looked;
\* each migration ends with its stamp.
NextStatement(c) ==
    IF c.next = 0 THEN Create(alembic_version)
    ELSE IF c.next <= Len(Migration(c)) THEN Migration(c)[c.next]
    ELSE Stamp(c.at, Following(c))

\* What the transaction of a command sees.
View(c) == (schema \ c.dropped) \cup c.made

RevisionSeen(c) == IF c.stamped THEN c.at ELSE revision

Names(objects) == {o.name : o \in objects}

\* What disappears with an object.
Cascade(o, objects) ==
    LET with(names) == {p \in objects : p.kind \in {"index", "column"} /\ p.refs \cap names # {}}
        columns == with({o.name})
    IN  {o} \cup columns \cup with(Names(columns))

\* Can the statement be executed in a schema?
Applicable(s, objects) ==
    IF s.does = "drop"
    THEN s.object \in objects
         /\ ~\E p \in objects : p.kind = "table" /\ s.object.name \in p.refs
    ELSE s.object.name \notin Names(objects) /\ s.object.refs \subseteq Names(objects)

\* The tables a statement locks until its transaction ends, those among them that
\* a foreign key names.
Locks(s) ==
    IF s.does = "stamp" THEN {"alembic_version"}
    ELSE ({s.object.on} \cup IF s.object.kind = "table" THEN s.object.refs ELSE {})
            \ {"vector"}

Waits(op) ==
    \E other \in Operators \ {op} :
        command[other] # None
        /\ command[other].locks \cap Locks(NextStatement(command[op])) # {}

\* The command of an operator can go on.
Free(op) == command[op] # None /\ ~Finished(command[op]) /\ ~Waits(op)

-----------------------------------------------------------------------------

Init ==
    /\ schema = {} /\ revision = 0
    /\ command = [op \in Operators |-> None]
    /\ refusal = None

\* alembic upgrade or downgrade, from the revision it finds.
Start(op, target) ==
    /\ command[op] = None
    /\ command' = [command EXCEPT ![op] =
                      [at |-> revision, target |-> target,
                       next |-> IF alembic_version \in schema THEN 1 ELSE 0,
                       made |-> {}, dropped |-> {}, stamped |-> FALSE, locks |-> {},
                       found |-> [schema |-> schema, revision |-> revision]]]
    /\ UNCHANGED <<schema, revision, refusal>>

\* The statement fails, and the transaction with it.
Fail(op) ==
    /\ command' = [command EXCEPT ![op] = None]
    /\ refusal' = [statement |-> NextStatement(command[op]),
                   undisturbed |-> command[op].found =
                                      [schema |-> schema, revision |-> revision]]
    /\ UNCHANGED <<schema, revision>>

\* It succeeds and has made and dropped these objects.
Proceed(op, made, dropped) ==
    /\ command' = [command EXCEPT ![op] =
                      [command[op] EXCEPT
                         !.next = @ + 1,
                         !.made = (@ \ dropped) \cup made,
                         !.dropped = (@ \ made) \cup dropped,
                         !.locks = @ \cup Locks(NextStatement(command[op]))]]
    /\ UNCHANGED <<schema, revision, refusal>>

\* A statement of a migration.
Migrate(op) ==
    LET c == command[op]
        s == NextStatement(c)
        there == s.does = "create if missing" /\ s.object \in View(c)
    IN  /\ Free(op)
        /\ s.does # "stamp"
        /\ IF there THEN Proceed(op, {}, {})
           ELSE IF ~Applicable(s, View(c)) THEN Fail(op)
           ELSE IF s.does = "drop" THEN Proceed(op, {}, Cascade(s.object, View(c)))
           ELSE Proceed(op, {s.object}, {})

\* The migration is finished, and the next one begins.
Advance(op) ==
    /\ command' = [command EXCEPT ![op] =
                      [command[op] EXCEPT
                         !.at = Following(command[op]), !.next = 1, !.stamped = TRUE,
                         !.locks = @ \cup Locks(NextStatement(command[op]))]]
    /\ UNCHANGED <<schema, revision, refusal>>

\* A faulty UpdateVersion: it does not count the rows it changed.
UpdateVersionUncounted(op) ==
    /\ Free(op)
    /\ NextStatement(command[op]).does = "stamp"
    /\ Advance(op)

\* It must find the revision that its command started from.
UpdateVersion(op) ==
    /\ Free(op)
    /\ NextStatement(command[op]).does = "stamp"
    /\ IF RevisionSeen(command[op]) = command[op].at THEN Advance(op) ELSE Fail(op)

Commit(op) ==
    /\ command[op] # None /\ Finished(command[op])
    /\ schema' = View(command[op])
    /\ revision' = RevisionSeen(command[op])
    /\ command' = [command EXCEPT ![op] = None]
    /\ UNCHANGED refusal

\* The operator or the connection gives up, or PostgreSQL ends a deadlock.
Abort(op) ==
    /\ command[op] # None
    /\ command' = [command EXCEPT ![op] = None]
    /\ UNCHANGED <<schema, revision, refusal>>

Next ==
    \E op \in Operators :
        \/ \E target \in 0..head : Start(op, target)
        \/ Migrate(op)
        \/ UpdateVersion(op)
        \/ Commit(op)
        \/ Abort(op)

Spec == Init /\ [][Next]_vars

-----------------------------------------------------------------------------

\* The objects of the migrations up to revision r.
Upto(r) == {s.object : s \in UNION {ToSet(upgrades[i]) : i \in 1..r}}

\* The committed schema is the one its revision stands for, whatever commands
\* ran at once, failed or were broken off; only what no downgrade removes may be
\* there in addition.
SchemaMatchesRevision ==
    schema \ {vector, alembic_version} = Upto(revision) \ {vector}

\* A command that nobody else disturbed fails only where the downgrade of 0001
\* drops an index that no upgrade created.
RefusedOnlyAtMissingIndex ==
    refusal # None /\ refusal.undisturbed =>
        refusal.statement = Drop(ix_source_record_tenant_id)

\* What 0001's downgrade() takes for granted, and the models declare: each object
\* that a migration drops is there, so no command fails that nobody disturbed.
UndisturbedNeverRefused == refusal # None => ~refusal.undisturbed
=============================================================================
